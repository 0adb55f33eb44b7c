----------------------------- MODULE Encounter -----------------------------
(***************************************************************************)
(* What an encounter promises its players, without hit points, dice or     *)
(* conditions: who is alive, whose turn it is, and how both may change.    *)
(*  - turns rotate through the initiative order; a turn passes to the next *)
(*    combatant that is not dead, and the round number grows exactly when  *)
(*    the rotation wraps;                                                  *)
(*  - a combatant is conscious, unconscious, stable or dead; monsters know *)
(*    no state between conscious and dead; nobody leaves dead;             *)
(*  - passing the turn changes nobody's life state but that of the dying   *)
(*    character whose turn begins.                                         *)
(* Combat implements this module (Combat's PROPERTY KeepsPromise).         *)
(***************************************************************************)
EXTENDS Integers

CONSTANTS
  Actors,    \* the combatants
  Count,     \* how many they are
  Monsters   \* those that die at 0 hit points

VARIABLES status, life, order, turn, round

vars == <<status, life, order, turn, round>>

Places == 0 .. (Count - 1)
Orders == {o \in [Places -> Actors] :
             /\ \A i, j \in Places : o[i] = o[j] => i = j
             /\ \A a \in Actors : \E i \in Places : o[i] = a}

Init ==
  /\ status = "preparing"
  /\ life = [a \in Actors |-> "conscious"]
  /\ order = <<>> /\ turn = 0 /\ round = 0

Begin ==
  /\ status = "preparing" /\ status' = "active"
  /\ order' \in Orders /\ turn' = 0 /\ round' = 1
  /\ UNCHANGED life

(* Where a blow may take a combatant.                                      *)
Wounded(a) ==
  IF a \in Monsters THEN {"conscious", "dead"}
  ELSE CASE life[a] = "conscious"   -> {"conscious", "unconscious", "dead"}
         [] life[a] = "unconscious" -> {"unconscious", "dead"}
         [] life[a] = "stable"      -> {"stable", "unconscious", "dead"}
         [] OTHER                   -> {"dead"}

Wound(a) ==
  /\ status = "active" /\ life[a] # "dead"
  /\ \E state \in Wounded(a) : life' = [life EXCEPT ![a] = state]
  /\ UNCHANGED <<status, order, turn, round>>

Revive(a) ==
  /\ status = "active" /\ life[a] # "dead"
  /\ life' = [life EXCEPT ![a] = "conscious"]
  /\ UNCHANGED <<status, order, turn, round>>

(* The places strictly between the current one and place p, going round.   *)
Between(p) == IF turn < p THEN (turn + 1) .. (p - 1)
              ELSE ((turn + 1) .. (Count - 1)) \cup (0 .. (p - 1))

PassTurn ==
  /\ status = "active"
  /\ \E p \in Places :
       /\ life[order[p]] # "dead"
       /\ \A q \in Between(p) : life[order[q]] = "dead"
       /\ turn' = p
       /\ round' = IF p <= turn THEN round + 1 ELSE round
       /\ \/ UNCHANGED life
          \/ /\ life[order[p]] = "unconscious"
             /\ \E state \in {"conscious", "stable", "dead"} :
                  life' = [life EXCEPT ![order[p]] = state]
  /\ UNCHANGED <<status, order>>

Finish ==
  /\ status = "active" /\ status' = "ended"
  /\ UNCHANGED <<life, order, turn, round>>

Next ==
  \/ Begin
  \/ \E a \in Actors : Wound(a) \/ Revive(a)
  \/ PassTurn
  \/ Finish

Spec == Init /\ [][Next]_vars
=============================================================================
