-------------------------------- MODULE Grid --------------------------------
(***************************************************************************)
(* The tactical map of spatial/: cells, terrain and footprints (model.py), *)
(* distance and the line trace (geometry.py), which steps are legal and    *)
(* what they cost (movement.py), sight and cover (visibility.py), areas    *)
(* (areas.py) and threat zones (threats.py).                               *)
(*                                                                         *)
(* A map g has g.land, the terrain of each cell, and g.at, the placement   *)
(* of each entity (SquareGridSpace and SpatialState).  A cell is <<x, y>>. *)
(* Heights and costs are in feet.  Everything here only reads a map.       *)
(***************************************************************************)
EXTENDS Integers, Sequences, FiniteSets, FiniteSetsExt

CONSTANTS
  Width, Height,    \* of the map, in cells
  CellSize          \* feet to a cell

ASSUME GridAssumption ==
  Width \in Nat \ {0} /\ Height \in Nat \ {0} /\ CellSize \in Nat \ {0}

Cells == (0 .. Width - 1) \X (0 .. Height - 1)

Modes == {"walk", "climb", "swim", "fly", "burrow"}
CoverRanks == 0 .. 3                \* none, half, three quarters, total

Terrain ==
  [height : Nat, difficult : BOOLEAN, solid : BOOLEAN,      \* blocks_movement
   opaque : BOOLEAN, top : Nat, cover : CoverRanks, modes : SUBSET Modes]

Offsets == (-1 .. 1) \X (-1 .. 1)

(* A footprint has the offset of the anchor among its own.                 *)
Footprint == {shape \in SUBSET Offsets : <<0, 0>> \in shape}

Placement ==
  [anchor : Cells, shape : Footprint, tall : Nat,
   solid : BOOLEAN, opaque : BOOLEAN, cover : CoverRanks]

Policy ==
  [diagonal : BOOLEAN, corners : BOOLEAN,                   \* prevent_corner_cutting
   difficult : Nat \ {0}, climb : Nat, flies : BOOLEAN]

(* MovementPolicy(): what every caller but a test passes.                  *)
DefaultPolicy ==
  [diagonal |-> TRUE, corners |-> TRUE, difficult |-> 2, climb |-> 5, flies |-> TRUE]

Abs(n) == IF n < 0 THEN -n ELSE n
Sign(n) == IF n < 0 THEN -1 ELSE IF n = 0 THEN 0 ELSE 1
Ceil(n, d) == (n + d - 1) \div d

Plus(c, d) == <<c[1] + d[1], c[2] + d[2]>>
Minus(c, d) == <<c[1] - d[1], c[2] - d[2]>>

(* GridCell is ordered by x, then y.                                       *)
Before(c, d) == c[1] < d[1] \/ (c[1] = d[1] /\ c[2] < d[2])

-----------------------------------------------------------------------------
(* Occupancy                                                               *)

Covers(p, anchor) == {Plus(anchor, o) : o \in p.shape}    \* occupied_cells

Occupied(g, e) == Covers(g.at[e], g.at[e].anchor)

Occupants(g, c) == {e \in DOMAIN g.at : c \in Occupied(g, e)}

Occupiable_Walls(g, e, anchor) ==             \* slip: looks at the terrain only
  \A c \in Covers(g.at[e], anchor) : c \in Cells /\ ~g.land[c].solid

Occupiable(g, e, anchor) ==
  \A c \in Covers(g.at[e], anchor) :
    /\ c \in Cells
    /\ ~g.land[c].solid
    /\ \A o \in Occupants(g, c) \ {e} : ~(g.at[o].solid /\ g.at[e].solid)

(* What SpatialState.__post_init__ accepts.                                *)
WellPlaced(g) ==
  \A e \in DOMAIN g.at : \A c \in Occupied(g, e) :
    /\ c \in Cells
    /\ g.at[e].solid =>
         ~g.land[c].solid /\ \A o \in Occupants(g, c) \ {e} : ~g.at[o].solid

-----------------------------------------------------------------------------
(* Distance, reach and the line between two cells                          *)

(* distance_between_cells, metric "grid"                                   *)
Distance(g, c, d) ==
  CellSize * Max({Abs(d[1] - c[1]), Abs(d[2] - c[2]),
                      Ceil(Abs(g.land[d].height - g.land[c].height), CellSize)})

(* _placement_distance_at_anchor; with e's own anchor it is                *)
(* distance_between_placements.                                            *)
Gap(g, o, e, anchor) ==
  Min({Distance(g, c, d) : c \in Occupied(g, o), d \in Covers(g.at[e], anchor)})

Apart(g, o, e) == Gap(g, o, e, g.at[e].anchor)

InReach(g, o, e, reach) == Apart(g, o, e) <= reach        \* placement_in_reach

Neighbors(c, pol) ==
  {d \in Cells : /\ d # c /\ Abs(d[1] - c[1]) <= 1 /\ Abs(d[2] - c[2]) <= 1
                 /\ pol.diagonal \/ d[1] = c[1] \/ d[2] = c[2]}

TraceStep_NoTie(n, i) ==                      \* slip: a tie steps sideways
  IF (1 + 2 * i[1]) * n[2] <= (1 + 2 * i[2]) * n[1] THEN <<1, 0>> ELSE <<0, 1>>

(* One turn of line_cells' loop: how far it steps in x and in y, having    *)
(* stepped i out of n.                                                     *)
TraceStep(n, i) ==
  LET left  == (1 + 2 * i[1]) * n[2]
      right == (1 + 2 * i[2]) * n[1]
  IN  IF left = right THEN <<1, 1>> ELSE IF left < right THEN <<1, 0>> ELSE <<0, 1>>

(* Its loop: the steps taken from <<0, 0>> until they add up to n.         *)
Trace(n) ==
  LET steps[k \in 0 .. n[1] + n[2]] ==        \* after at most k turns
        IF k = 0 THEN << <<0, 0>> >>
        ELSE LET done == steps[k - 1]
                 i    == done[Len(done)]
             IN  IF i = n THEN done ELSE Append(done, Plus(i, TraceStep(n, i)))
  IN  steps[n[1] + n[2]]

(* line_cells: the trace from c to d, both ends included.                  *)
Line(c, d) ==
  LET path == Trace(<<Abs(d[1] - c[1]), Abs(d[2] - c[2])>>)
      sign == <<Sign(d[1] - c[1]), Sign(d[2] - c[2])>>
  IN  [k \in 1 .. Len(path) |->
         <<c[1] + sign[1] * path[k][1], c[2] + sign[2] * path[k][2]>>]

-----------------------------------------------------------------------------
(* Steps                                                                   *)

TerrainAllows(g, e, anchor, mode) ==
  /\ Occupiable(g, e, anchor)
  /\ \A c \in Covers(g.at[e], anchor) : mode \in g.land[c].modes

(* How much each cell of the footprint rises or falls.                     *)
Rises(g, e, from, to) ==
  {Abs(g.land[Plus(to, o)].height - g.land[Plus(from, o)].height) : o \in g.at[e].shape}

Enters(g, e, from, to, mode, pol) ==
  /\ TerrainAllows(g, e, to, mode)
  /\ mode = "walk" => \A rise \in Rises(g, e, from, to) : rise <= pol.climb

StepIsLegal(g, e, from, to, mode, pol) ==
  \/ from = to
  \/ /\ to \in Neighbors(from, pol)
     /\ Enters(g, e, from, to, mode, pol)
     /\ (to[1] # from[1] /\ to[2] # from[2] /\ pol.corners) =>
          /\ Enters(g, e, from, <<to[1], from[2]>>, mode, pol)
          /\ Enters(g, e, from, <<from[1], to[2]>>, mode, pol)

(* step_cost of a legal step                                               *)
StepCost(g, e, from, to, mode, pol) ==
  LET steps == Max({1} \cup {Ceil(rise, CellSize) : rise \in Rises(g, e, from, to)})
      hard  == /\ \E c \in Covers(g.at[e], to) : g.land[c].difficult
               /\ ~(mode = "fly" /\ pol.flies)
  IN  IF from = to THEN 0
      ELSE steps * CellSize * (IF hard THEN pol.difficult ELSE 1)

PathCost(g, e, path, mode, pol) ==
  LET sum[k \in 1 .. Len(path)] ==
        IF k = 1 THEN 0
        ELSE sum[k - 1] + StepCost(g, e, path[k - 1], path[k], mode, pol)
  IN  sum[Len(path)]

(* validate_path: starts at the anchor and takes legal steps, none of      *)
(* which exceeds the budget (costs only grow).                             *)
PathIsLegal(g, e, path, mode, budget, pol) ==
  /\ path # << >> /\ path[1] = g.at[e].anchor
  /\ \A k \in 1 .. Len(path) - 1 : StepIsLegal(g, e, path[k], path[k + 1], mode, pol)
  /\ PathCost(g, e, path, mode, pol) <= budget

-----------------------------------------------------------------------------
(* Sight and cover.  Heights along a ray are compared over n steps of it:  *)
(* quarter feet times n, so that both sides are integers.                  *)

EyeHeight(p) == Max({4, 3 * p.tall})      \* max(1, 0.75 tall), in quarter feet

(* The ray's height over cell number i of 0 .. n, times n.                 *)
RayHeight(from, to, i, n) == from * (n - i) + to * i

(* What stands in the ray over one cell, ray being n times its height.     *)
Blocks(g, c, ray, n, ignored) ==
  \/ g.land[c].opaque /\ ray <= 4 * n * (g.land[c].height + g.land[c].top)
  \/ \E o \in Occupants(g, c) \ ignored :
       g.at[o].opaque /\ ray <= 4 * n * (g.land[c].height + g.at[o].tall)

(* line_of_sight_between_cells                                             *)
CellSees(g, c, d, eye, mark, ignored) ==
  LET trace == Line(c, d)
      n     == Len(trace) - 1
  IN  \A i \in 1 .. n - 1 :
        ~Blocks(g, trace[i + 1],
                RayHeight(4 * g.land[c].height + eye, 4 * g.land[d].height + mark, i, n),
                n, ignored)

(* The free rays between two entities, as pairs of cells.                  *)
Rays(g, e, o) ==
  {r \in Occupied(g, e) \X Occupied(g, o) :
     CellSees(g, r[1], r[2], EyeHeight(g.at[e]), EyeHeight(g.at[o]), {e, o})}

Sees(g, e, o) == Rays(g, e, o) # {}           \* line_of_sight_between_entities

FirstRay(rays) ==
  CHOOSE r \in rays : \A s \in rays : \/ Before(r[1], s[1])
                                      \/ r[1] = s[1] /\ (r[2] = s[2] \/ Before(r[2], s[2]))

(* cover_between_entities: the best cover along the first free ray.        *)
Cover(g, e, o) ==
  IF ~Sees(g, e, o) THEN 3
  ELSE LET r     == FirstRay(Rays(g, e, o))
           trace == Line(r[1], r[2])
           cells == {trace[i] : i \in 2 .. Len(trace) - 1} \ Occupied(g, o)
       IN  Max({0} \cup {g.land[c].cover : c \in cells}
                       \cup {g.at[x].cover : x \in UNION {Occupants(g, c) \ {e, o} : c \in cells}})

-----------------------------------------------------------------------------
(* Areas.  Centers are a cell apart horizontally; a direction is one of    *)
(* the eight of the compass.                                               *)

Sq(n) == n * n
Dx(c, d) == CellSize * (d[1] - c[1])
Dy(c, d) == CellSize * (d[2] - c[2])
Dz(g, c, d) == g.land[d].height - g.land[c].height

Sphere(g, c, size) ==
  {d \in Cells : Sq(Dx(c, d)) + Sq(Dy(c, d)) + Sq(Dz(g, c, d)) <= Sq(size)}

Cube(g, c, size) ==
  {d \in Cells : \A n \in {Dx(c, d), Dy(c, d), Dz(g, c, d)} : 2 * Abs(n) <= size}

Cylinder(g, c, size, tall) ==
  {d \in Cells : Sq(Dx(c, d)) + Sq(Dy(c, d)) <= Sq(size) /\ 2 * Abs(Dz(g, c, d)) <= tall}

Far(g, c, d) == Sq(Dx(c, d)) + Sq(Dy(c, d)) + Sq(Dz(g, c, d))
Along(c, d, dir) == Dx(c, d) * dir[1] + Dy(c, d) * dir[2]
Norm(dir) == Sq(dir[1]) + Sq(dir[2])

(* The cells 45 degrees from a direction, where a quotient of floats is    *)
(* compared with cos(radians(45)).                                         *)
ConeEdge(g, c, dir) ==
  {d \in Cells : /\ Along(c, d, dir) > 0
                 /\ 2 * Sq(Along(c, d, dir)) = Far(g, c, d) * Norm(dir)}

Cone_Whole(g, c, dir, length, letIn) ==       \* slip: half an angle for the whole
  {d \in Sphere(g, c, length) : d = c \/ Along(c, d, dir) > 0}

(* The 90 degree cone, when rounding lets in the cells letIn of its edge.  *)
(* That is none of them where cells and heights are multiples of five feet *)
(* (and the edge is less than 365 feet away), and some at other sizes.     *)
Cone(g, c, dir, length, letIn) ==
  {d \in Cells :
     \/ d = c
     \/ /\ Far(g, c, d) <= Sq(length)
        /\ Along(c, d, dir) > 0
        /\ \/ 2 * Sq(Along(c, d, dir)) > Far(g, c, d) * Norm(dir)
           \/ d \in ConeEdge(g, c, dir) \cap letIn}

(* The line, 5 feet wide.                                                  *)
Beam(g, c, dir, length) ==
  {d \in Cells :
     LET norm   == Sq(dir[1]) + Sq(dir[2])
         along  == Dx(c, d) * dir[1] + Dy(c, d) * dir[2]
         across == Dx(c, d) * dir[2] - Dy(c, d) * dir[1]
     IN  /\ along >= 0 /\ Sq(along) <= Sq(length) * norm
         /\ 4 * (Sq(across) + norm * Sq(Dz(g, c, d))) <= 25 * norm}

(* query_area: whoever has a cell in it.                                   *)
Caught(g, area) == {e \in DOMAIN g.at : Occupied(g, e) \cap area # {}}

-----------------------------------------------------------------------------
(* Threat zones                                                            *)

ThreatenedCells(g, o, reach) ==
  {c \in Cells : \E d \in Occupied(g, o) : Distance(g, d, c) <= reach}

Threatens_Anchor(g, o, e, anchor, reach) ==   \* slip: measures to the anchor alone
  anchor \in ThreatenedCells(g, o, reach)

Threatens(g, o, e, anchor, reach) == Gap(g, o, e, anchor) <= reach

(* path_threat_transitions, for one threat o: the steps k of the path that *)
(* enter, or leave, its reach.                                             *)
Entries(g, o, e, path, reach) ==
  {k \in 1 .. Len(path) - 1 : /\ ~Threatens(g, o, e, path[k], reach)
                              /\ Threatens(g, o, e, path[k + 1], reach)}

Exits(g, o, e, path, reach) ==
  {k \in 1 .. Len(path) - 1 : /\ Threatens(g, o, e, path[k], reach)
                              /\ ~Threatens(g, o, e, path[k + 1], reach)}
=============================================================================
