-------------------------- MODULE MCCombatHistory --------------------------
(* The instances of MCCombat for the specification with a history.          *)
EXTENDS CombatHistory, MCCombat
=============================================================================
