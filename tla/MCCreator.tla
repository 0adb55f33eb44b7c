----------------------------- MODULE MCCreator -----------------------------
(* A small catalog for Creator: two species of which exactly one is chosen; *)
(* advances at two levels with requirements, a conflict with what is held   *)
(* and one that only the older choice declares; training that a level-up    *)
(* ignores; a bonus that one order of the scores carries past 30.           *)
EXTENDS Creator

MCCatalog == {"human", "golem", "road", "mage", "ward", "storm"}
MCStep == [c \in MCCatalog |->
  CASE c \in {"human", "golem"} -> "species" [] c = "road" -> "background"
    [] c = "mage" -> "class" [] OTHER -> "spells_features"]
MCUnlock == [c \in MCCatalog |->
  CASE c = "ward" -> 2 [] c = "storm" -> 3 [] OTHER -> 1]
MCRequires == [c \in MCCatalog |->
  CASE c = "mage" -> {"road"} [] c = "storm" -> {"ward"} [] OTHER -> {}]
MCConflicts == [c \in MCCatalog |->
  CASE c = "storm" -> {"human"} [] c = "golem" -> {"storm"} [] OTHER -> {}]
MCGrants == [c \in MCCatalog |-> IF c \in {"human", "golem"} THEN {} ELSE {c}]
MCTrains == [c \in MCCatalog |-> IF c \in {"road", "ward"} THEN {c} ELSE {}]
MCBonus == [c \in MCCatalog |-> [a \in {"str", "int"} |->
  IF c \in {"human", "golem"} /\ a = "str" THEN 15 ELSE 0]]
MCBaseHP == [c \in MCCatalog |-> 0]
MCGainHP == [c \in MCCatalog |-> IF c = "mage" THEN 2 ELSE 0]
MCGroups == {"kin", "past", "trade", "spells"}
MCMembers == [g \in MCGroups |->
  CASE g = "kin" -> {"human", "golem"} [] g = "past" -> {"road"} [] g = "trade" -> {"mage"}
    [] g = "spells" -> {"ward"}]
MCLeast == [g \in MCGroups |-> IF g = "spells" THEN 0 ELSE 1]
MCMost == [g \in MCGroups |-> 1]
MCAbilities == {"str", "int"}
MCPolicy == [a \in MCAbilities |-> IF a = "str" THEN 15 ELSE 16]
=============================================================================
