------------------------------ MODULE MCSlice ------------------------------
(* Instances of Slice for TLC: heroes of the party against one foe, and the *)
(* spells of demo_spell_definitions (spell_slice.py).                       *)
EXTENDS Slice

CONSTANTS HP, Casts  \* hit points, and first-level slots, of everybody

Duel == {"hero", "foe"}
Band == {"hero", "mage", "foe"}

MCMaxHP   == [a \in Actors |-> HP]
MCStartHP == {MCMaxHP}
MCRule    == [a \in Actors |-> IF a = "foe" THEN "monster" ELSE "character"]
MCTeam    == [a \in Actors |-> IF a = "foe" THEN "foes" ELSE "party"]
MCZero    == [a \in Actors |-> 0]
MCSpeed   == [a \in Actors |-> IF a = "hero" THEN 1 ELSE 0]
MCRank    == [a \in Actors |-> CASE a = "foe" -> 1 [] a = "hero" -> 2 [] OTHER -> 3]
MCPlain   == [a \in Actors |-> {}]

MCConditions == {"unconscious", "hindered"}
MCBlockedBy  == [c \in MCConditions |-> {}]
MCPools      == 1 :> Casts

Lance == [level |-> 0, resolution |-> "attack", reach |-> "creature", effect |-> "damage",
          what |-> "force", save |-> "none", ongoing |-> FALSE,
          concentration |-> FALSE, rounds |-> None]
Burst == [level |-> 1, resolution |-> "save", reach |-> "area", effect |-> "damage",
          what |-> "force", save |-> "half", ongoing |-> FALSE,
          concentration |-> FALSE, rounds |-> None]
Haze  == [level |-> 1, resolution |-> "save", reach |-> "area", effect |-> "condition",
          what |-> "hindered", save |-> "negates", ongoing |-> FALSE,
          concentration |-> TRUE, rounds |-> 3]
Field == [level |-> 1, resolution |-> "automatic", reach |-> "area", effect |-> "damage",
          what |-> "force", save |-> "none", ongoing |-> TRUE,
          concentration |-> TRUE, rounds |-> 2]
Mend  == [level |-> 1, resolution |-> "automatic", reach |-> "self", effect |-> "healing",
          what |-> None, save |-> "none", ongoing |-> FALSE,
          concentration |-> FALSE, rounds |-> None]

MCBook == [lance |-> Lance, burst |-> Burst, haze |-> Haze, field |-> Field, mend |-> Mend]
=============================================================================
