------------------------------ MODULE MCSpatial ------------------------------
(* A 4 x 3 map with a hero of one cell, an ogre of two and a pillar, over  *)
(* ways of giving a cell of the middle, and one beside it, a terrain.      *)
EXTENDS Spatial

Open  == [height |-> 0, difficult |-> FALSE, solid |-> FALSE, opaque |-> FALSE,
          top |-> 0, cover |-> 0, modes |-> Modes]
Mud   == [Open EXCEPT !.difficult = TRUE]
Wall  == [Open EXCEPT !.solid = TRUE, !.opaque = TRUE, !.top = 10, !.cover = 3]
Stone == [Open EXCEPT !.height = 5, !.cover = 1]
Tower == [Open EXCEPT !.height = 10, !.opaque = TRUE, !.top = 1]

Lands ==
  {[c \in Cells |-> IF c = <<1, 1>> THEN kinds[1] ELSE IF c = b THEN kinds[2] ELSE Open] :
     b \in {<<1, 0>>, <<1, 1>>, <<2, 1>>, <<1, 2>>},
     kinds \in {Mud, Wall, Stone, Tower} \X {Mud, Wall, Stone}}

Token(anchor, shape, opaque) ==
  [anchor |-> anchor, shape |-> shape, tall |-> 5, solid |-> TRUE,
   opaque |-> opaque, cover |-> 1]

At == [hero |-> Token(<<0, 2>>, {<<0, 0>>}, FALSE),
       ogre |-> Token(<<2, 2>>, {<<0, 0>>, <<1, 0>>}, TRUE),
       pillar |-> [Token(<<3, 0>>, {<<0, 0>>}, TRUE) EXCEPT !.tall = 10, !.cover = 3]]

MCMaps == {[land |-> land, at |-> At] : land \in Lands}

MCSpeeds ==
  [e \in {"hero", "ogre", "pillar"} |-> [mode \in Modes |->
     CASE e = "pillar" -> 0
       [] mode = "walk" -> IF e = "hero" THEN 20 ELSE 15
       [] mode = "fly" /\ e = "hero" -> 15
       [] OTHER -> 0]]

MCReach == [hero |-> 5, ogre |-> 5, pillar |-> 5]
MCRoundings == {{}, Cells}  \* no cell of an edge, and all of it
MCBudgets == {None, 10}
MCPolicies ==
  {DefaultPolicy,
   [diagonal |-> TRUE, corners |-> FALSE, difficult |-> 3, climb |-> 0, flies |-> FALSE]}
=============================================================================
