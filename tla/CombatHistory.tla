--------------------------- MODULE CombatHistory ---------------------------
(***************************************************************************)
(* Combat with a history: how many turns each combatant has begun and how  *)
(* many reactions it has spent.  The history is written by the steps that  *)
(* do these things and read by none of them, so that the properties below  *)
(* relate what the code keeps (turn_index, reaction_available) to what it  *)
(* is for.                                                                 *)
(***************************************************************************)
EXTENDS Combat

VARIABLES turns, reactions

hvars == <<vars, turns, reactions>>

HInit ==
  /\ Init
  /\ turns     = [a \in Actors |-> 0]
  /\ reactions = [a \in Actors |-> 0]

HNext ==
  \/ /\ \/ \E rolls \in [Actors -> InitiativeRolls] : StartEncounter(rolls)
        \/ \E a \in Actors, roll \in SaveRolls : EndTurn(a, roll)
     /\ turns' = [turns EXCEPT ![order'[turn']] = @ + 1]
     /\ UNCHANGED reactions
  \/ /\ LifeNext \/ ActNext \/ WindowNext \/ EndEncounter \/ \E a \in Actors : Move(a)
     /\ UNCHANGED <<turns, reactions>>
  \/ \E a \in Actors :
       /\ React(a)
       /\ reactions' = [reactions EXCEPT ![a] = @ + 1]
       /\ UNCHANGED turns

HSpec == HInit /\ [][HNext]_hvars

-----------------------------------------------------------------------------
(* Turns are shared: in round r every combatant that is still alive has    *)
(* begun r turns, or r - 1 if the rotation has not reached its place yet,  *)
(* no matter who was killed, revived or passed over in between.            *)
TurnsAreShared ==
  status # "preparing" =>
    \A p \in Places :
      vital[order[p]].life # "dead" =>
        turns[order[p]] = IF p <= turn THEN round ELSE round - 1

(* A combatant spends one reaction per turn of its own, and one more       *)
(* before its first turn, however many windows name it.                    *)
ReactionsAreRationed ==
  \A a \in Actors : reactions[a] <= turns[a] + 1
=============================================================================
