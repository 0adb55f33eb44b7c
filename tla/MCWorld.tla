------------------------------ MODULE MCWorld ------------------------------
(* A cut of the shipped campaign (world/content.py) for TLC: the square     *)
(* with the warden and a shop, the works with the echo, one interaction and *)
(* two chained encounters.  Two things are added: the warden also takes the *)
(* mission back, which clears a flag a gate needs, and the shop trades the  *)
(* item the interaction gives, so that two of it can be owned.  The party   *)
(* is a hero the player created, who is none of the premade ones.           *)
EXTENDS WorldBridge

CONSTANT OnSale   \* how many lanterns the shop has

MCArea  == {"square", "works"}
MCExits == [a \in MCArea |-> MCArea \ {a}]
MCParties == {{"kes"}}
MCFlag == {"mission", "found", "road", "quarry"}
MCNode == {"intro", "accepted", "echo"}

MCDialogues == [d \in {"warden", "surveyor"} |->
                  IF d = "warden" THEN [area |-> "square", start |-> "intro"]
                                  ELSE [area |-> "works", start |-> "echo"]]

Answer(at, next, needs, forbids, sets, clears, quest, status) ==
  [at |-> at, next |-> next, needs |-> needs, forbids |-> forbids, sets |-> sets,
   clears |-> clears, quest |-> quest, status |-> status]

MCReplies == {
  Answer("intro", "accepted", {}, {"mission"}, {"mission"}, {}, "lanterns", "active"),
  Answer("intro", None, {"mission"}, {}, {}, {"mission"}, "lanterns", "available"),
  Answer("intro", None, {}, {}, {}, {}, None, "locked"),
  Answer("accepted", None, {}, {}, {}, {}, None, "locked"),
  Answer("echo", None, {"found"}, {}, {}, {}, None, "locked") }

MCQuests == [q \in {"lanterns"} |-> "available"]

MCInteractions == [i \in {"lantern"} |->
  [area |-> "works", wins |-> {"found"}, fails |-> {}, item |-> "lantern", coins |-> 3]]

MCItem  == {"lantern"}
MCShops == [s \in {"supplies"} |-> "square"]
MCWares == [w \in {<<"supplies", "lantern">>} |-> [buy |-> 28, sell |-> 4, stock |-> OnSale]]
MCSlot  == {"utility"}
MCFits  == [i \in MCItem |-> MCSlot]

MCGates == [e \in {"ambush", "watchers"} |->
  IF e = "ambush"
  THEN [area |-> "works", needs |-> {"mission"}, sets |-> {"road"}]
  ELSE [area |-> "works", needs |-> {"road"}, sets |-> {"quarry"}]]
=============================================================================
