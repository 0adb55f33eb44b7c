------------------------------ MODULE MCCombat ------------------------------
(* Instances of Combat for TLC: the fighter follows the character rule at 0 *)
(* hit points, the goblin the monster rule.                                 *)
EXTENDS Combat

CONSTANTS Cast,     \* the combatants of this instance
          HP,       \* the fighter's maximum hit points; the goblin has one
          Speed,    \* the fighter's walking speed; the goblin has none
          Wounds    \* TRUE: combatants may start wounded

Two == {"fighter", "goblin"}

MCMaxHP   == [a \in Cast |-> IF a = "goblin" THEN 1 ELSE HP]
MCStartHP == IF Wounds THEN {hp \in [Cast -> 1 .. HP] : \A a \in Cast : hp[a] <= MCMaxHP[a]} ELSE {MCMaxHP}
MCRule    == [a \in Cast |-> IF a = "goblin" THEN "monster" ELSE "character"]
MCSpeed   == [a \in Cast |-> IF a = "goblin" THEN 0 ELSE Speed]
MCDexMod  == [a \in Cast |-> 1]
MCRank    == [a \in Cast |-> IF a = "fighter" THEN 1 ELSE 2]

(* The fighter resists fire and is vulnerable to cold, the goblin is       *)
(* immune to fire.                                                         *)
MCResistant  == [a \in Cast |-> IF a = "fighter" THEN {"fire"} \cap DamageTypes ELSE {}]
MCImmune     == [a \in Cast |-> IF a = "goblin" THEN {"fire"} \cap DamageTypes ELSE {}]
MCVulnerable == [a \in Cast |-> IF a = "fighter" THEN {"cold"} \cap DamageTypes ELSE {}]

MCConditions == {"unconscious", "slowed"}
MCBlockedBy  == [c \in MCConditions |->
                   IF c = "slowed" THEN Blockable \ {"bonus_action"} ELSE Blockable]
=============================================================================
