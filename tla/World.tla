------------------------------- MODULE World -------------------------------
(***************************************************************************)
(* The campaign layer: WorldRuntime (world/runtime.py).  A command that    *)
(* passes its checks resolves to one event, which apply_world_event turns  *)
(* into the next immutable WorldState, so a command is one action, its     *)
(* checks are the action's guard and its event is in the primed variables. *)
(*                                                                         *)
(* Abstracted: the d20 (a check succeeds or fails), the journal, titles,   *)
(* the visited: flags that only the map reads, and the event list, of      *)
(* which the state is the fold.  expected_sequence only refuses commands.  *)
(***************************************************************************)
EXTENDS Integers, FiniteSets

CONSTANTS
  Area, Start, Exits,  \* area ids, start_area_id, [Area -> SUBSET Area]
  Parties,             \* the parties a campaign may be started with
  Flag,                \* the flags content names
  Node, Dialogues,     \* dialogue nodes; [dialogue -> [area, start]]
  Replies,             \* the set of choices [at, next, needs, forbids, sets, clears, quest, status]
  Quests,              \* [quest -> start_status]
  Interactions,        \* [interaction -> [area, wins, fails, item, coins]]
  Item, Shops, Wares,  \* item ids; [shop -> area]; [<<shop, item>> -> [buy, sell, stock]]
  Slot, Fits,          \* slot ids; equipment_compatibility as [Item -> SUBSET Slot]
  Gates,               \* [encounter -> [area, needs, sets]]
  None,                \* Python's None
  Quantities,          \* quantities a trade is tried with
  MaxRests             \* bound: rests explored

Dialogue    == DOMAIN Dialogues
Interaction == DOMAIN Interactions
Stock       == DOMAIN Wares
Encounter   == DOMAIN Gates
Hero        == UNION Parties
Purse       == 25
QuestStatus == {"locked", "available", "active", "completed", "failed"}

(* What the constructors of the definitions check (world/model.py).  That  *)
(* a reward takes no coins away they do not check; no content does it.     *)
WellFormedDialogues ==
  /\ Dialogues \in [Dialogue -> [area : Area, start : Node]]
  /\ Replies \subseteq [at : Node, next : Node \cup {None}, needs : SUBSET Flag,
                        forbids : SUBSET Flag, sets : SUBSET Flag, clears : SUBSET Flag,
                        quest : DOMAIN Quests \cup {None}, status : QuestStatus]

WellFormedReplies == \A c \in Replies : c.sets \cap c.clears = {}

WellFormedShops ==
  /\ Shops \in [DOMAIN Shops -> Area]
  /\ Stock \subseteq (DOMAIN Shops) \X Item
  /\ Wares \in [Stock -> [buy : Nat, sell : Nat, stock : Nat \cup {None}]]

WellFormedCampaign ==
  /\ Start \in Area /\ Exits \in [Area -> SUBSET Area]
  /\ Quests \in [DOMAIN Quests -> QuestStatus]
  /\ Interactions \in [Interaction -> [area : Area, wins : SUBSET Flag, fails : SUBSET Flag,
                                       item : Item \cup {None}, coins : Nat]]
  /\ Gates \in [Encounter -> [area : Area, needs : SUBSET Flag, sets : SUBSET Flag]]

ASSUME WorldAssumption ==
  /\ {} \notin Parties
  /\ None \notin Area \cup Node \cup Item \cup Encounter
  /\ WellFormedDialogues /\ WellFormedReplies /\ WellFormedShops /\ WellFormedCampaign
  /\ Fits \in [Item -> SUBSET Slot]
  /\ Quantities \subseteq Nat \ {0}
  /\ MaxRests \in Nat

VARIABLES
  area,      \* current_area_id
  party,     \* party_ids; {} until world.start
  talk,      \* active_dialogue: its node, or None
  flags,
  quests,    \* [quest -> status]
  solved,    \* completed_interactions
  cleared,   \* completed_encounters
  owned,     \* inventory; an item that is absent is owned 0 times
  equipped,  \* [hero and slot -> item or None]
  stock,     \* shop_stock; None where a shop never runs out
  currency,
  rests      \* rest_count

place    == <<area, party, talk>>
progress == <<flags, quests, solved, cleared>>
goods    == <<owned, equipped, stock, currency>>
world    == <<place, progress, goods, rests>>

(* WorldRuntime.__init__: a campaign nobody has started.                   *)
NewGame ==
  [area     |-> Start, party |-> {}, talk |-> None,
   flags    |-> {}, quests |-> Quests, solved |-> {}, cleared |-> {},
   owned    |-> [i \in Item |-> 0],
   equipped |-> [p \in Hero \X Slot |-> None],
   stock    |-> [w \in Stock |-> Wares[w].stock],
   currency |-> Purse, rests |-> 0]

Init ==
  /\ area = NewGame.area /\ party = NewGame.party /\ talk = NewGame.talk
  /\ flags = NewGame.flags /\ quests = NewGame.quests
  /\ solved = NewGame.solved /\ cleared = NewGame.cleared
  /\ owned = NewGame.owned /\ equipped = NewGame.equipped
  /\ stock = NewGame.stock /\ currency = NewGame.currency /\ rests = NewGame.rests

(* snapshot(): everything a saved game restores.                           *)
Snapshot ==
  [area |-> area, party |-> party, talk |-> talk, flags |-> flags, quests |-> quests,
   solved |-> solved, cleared |-> cleared, owned |-> owned, equipped |-> equipped,
   stock |-> stock, currency |-> currency, rests |-> rests]

(* restore_world_runtime accepts a snapshot whose numbers are in range and *)
(* whose state is the replay of its history; WorldTypeOK says every        *)
(* snapshot is.                                                            *)
Restore(s) ==
  /\ area' = s.area /\ party' = s.party /\ talk' = s.talk
  /\ flags' = s.flags /\ quests' = s.quests
  /\ solved' = s.solved /\ cleared' = s.cleared
  /\ owned' = s.owned /\ equipped' = s.equipped
  /\ stock' = s.stock /\ currency' = s.currency /\ rests' = s.rests

-----------------------------------------------------------------------------
(* world.start checks neither a conversation nor the area: it takes the    *)
(* party to the start area and leaves active_dialogue as it is.            *)
StartCampaign(chosen) ==
  /\ party = {}
  /\ party' = chosen
  /\ area' = Start
  /\ UNCHANGED <<talk, progress, goods, rests>>

Travel(destination) ==
  /\ destination \in Exits[area]
  /\ talk = None
  /\ area' = destination
  /\ UNCHANGED <<party, talk, progress, goods, rests>>

(* dialogue.start replaces a conversation that is still open.              *)
DialogueStart(d) ==
  /\ Dialogues[d].area = area
  /\ talk' = Dialogues[d].start
  /\ UNCHANGED <<area, party, progress, goods, rests>>

ChoiceAvailable(c) == c.needs \subseteq flags /\ c.forbids \cap flags = {}

(* dialogue.choice_resolved: flags are set before others are cleared.      *)
ChoiceResolved(c) ==
  /\ talk' = c.next
  /\ flags' = (flags \cup c.sets) \ c.clears
  /\ quests' = IF c.quest = None THEN quests ELSE [quests EXCEPT ![c.quest] = c.status]

(* dialogue.choose does not check where the party is.                      *)
DialogueChoose(c) ==
  /\ talk = c.at
  /\ ChoiceAvailable(c)
  /\ ChoiceResolved(c)
  /\ UNCHANGED <<area, party, solved, cleared, goods, rests>>

(* Only a success completes an interaction and is rewarded.                *)
Unsolved_Always(i) == TRUE                             \* slip: completion not checked
Unsolved(i) == i \notin solved

Completed_ByTrying(i, success) == solved \cup {i}       \* slip: a failure completes it too
Completed(i, success) == IF success THEN solved \cup {i} ELSE solved

(* world.interaction_resolved                                              *)
InteractionResolved(i, success) ==
  LET it == Interactions[i] IN
  /\ flags' = flags \cup (IF success THEN it.wins ELSE it.fails)
  /\ solved' = Completed(i, success)
  /\ owned' = IF success /\ it.item # None THEN [owned EXCEPT ![it.item] = @ + 1] ELSE owned
  /\ currency' = IF success THEN currency + it.coins ELSE currency

ResolveInteraction(i, success) ==
  /\ Unsolved(i)
  /\ Interactions[i].area = area
  /\ InteractionResolved(i, success)
  /\ UNCHANGED <<place, quests, cleared, equipped, stock, rests>>

(* A trade names a shop here and an item on its list.                      *)
Trades(w) == Shops[w[1]] = area

Affordable_OnCredit(w, quantity) == TRUE               \* slip: purse not checked
Affordable_WithChange(w, quantity) == Wares[w].buy * quantity < currency   \* slip: < for <=
Affordable(w, quantity) == Wares[w].buy * quantity <= currency

(* The last one sold is taken off every hero who wears it.                 *)
Unequipped_Never(item, left) == equipped                \* slip: worn items stay on
Unequipped(item, left) ==
  IF left > 0 THEN equipped
  ELSE [p \in Hero \X Slot |-> IF equipped[p] = item THEN None ELSE equipped[p]]

(* shop.bought and shop.sold: so many more of an item for so many coins.   *)
Traded(item, more, coins) ==
  /\ owned' = [owned EXCEPT ![item] = @ + more]
  /\ equipped' = Unequipped(item, owned'[item])
  /\ currency' = currency + coins

Buy(w, quantity) ==
  /\ Trades(w)
  /\ stock[w] = None \/ quantity <= stock[w]
  /\ Affordable(w, quantity)
  /\ Traded(w[2], quantity, -(Wares[w].buy * quantity))
  /\ stock' = IF stock[w] = None THEN stock ELSE [stock EXCEPT ![w] = @ - quantity]
  /\ UNCHANGED <<place, progress, rests>>

(* What is sold is not put back on the shelf.                              *)
Sell(w, quantity) ==
  /\ Trades(w)
  /\ quantity <= owned[w[2]]
  /\ Traded(w[2], -quantity, Wares[w].sell * quantity)
  /\ UNCHANGED <<place, progress, stock, rests>>

(* One item may be equipped by several heroes at once.                     *)
Equip(hero, slot, item) ==
  /\ hero \in party
  /\ owned[item] >= 1
  /\ equipped' = [equipped EXCEPT ![<<hero, slot>>] = item]
  /\ UNCHANGED <<place, progress, owned, stock, currency, rests>>

Rest ==
  /\ talk = None
  /\ rests < MaxRests
  /\ rests' = rests + 1
  /\ UNCHANGED <<place, progress, goods>>

(* The checks world.complete_encounter makes of its gate.                  *)
GateOpen(e) ==
  /\ Gates[e].area = area
  /\ e \notin cleared
  /\ Gates[e].needs \subseteq flags

CompleteEncounter(e) ==
  /\ GateOpen(e)
  /\ cleared' = cleared \cup {e}
  /\ flags' = flags \cup Gates[e].sets
  /\ UNCHANGED <<place, quests, solved, goods, rests>>

-----------------------------------------------------------------------------
(* What queries show (world.actions and dialogue.current)                  *)

Actions ==
  [travel       |-> Exits[area],
   shops        |-> {s \in DOMAIN Shops : Shops[s] = area},
   interactions |-> {i \in Interaction : Interactions[i].area = area},
   encounters   |-> {e \in Encounter : /\ Gates[e].area = area
                                      /\ Gates[e].needs \subseteq flags /\ e \notin cleared},
   rest         |-> talk = None]

(* The view and dialogue.choose ask the same _choice_available.            *)
DialogueView == {c \in Replies : c.at = talk /\ ChoiceAvailable(c)}
=============================================================================
