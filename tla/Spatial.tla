------------------------------- MODULE Spatial -------------------------------
(***************************************************************************)
(* The spatial authority (spatial/movement.py, runtime.py, reducer.py,     *)
(* navigation.py): path search, reachable cells, moves and their events.   *)
(*                                                                         *)
(* A request runs a search.  Its loop is modelled one pop of the frontier  *)
(* at a time, so that what the search relies on can be stated; nothing else*)
(* happens meanwhile, as the engine serves one call at a time.  A move ends*)
(* by applying its event to the map.                                       *)
(***************************************************************************)
EXTENDS Grid

CONSTANTS
  Maps,       \* the maps (as Grid's g) a session may start from
  Speeds,     \* [entity -> [mode -> feet]]; 0: the mode is not supported
  Budgets,    \* movement_budget_feet, or None for the speed
  Reach,      \* [entity -> feet]: the threats passed with every move
  Policies,   \* the policy of the runtime
  Roundings,  \* sets of cells that rounding may let in on the edge of a cone
  None,
  MaxMoves    \* bound of the model: a session ends with this many moves

Entities == DOMAIN Speeds
Map      == [land : [Cells -> Terrain], at : [Entities -> Placement]]

ASSUME SpatialAssumption ==
  /\ Maps # {}
  /\ \A g \in Maps : g \in Map /\ WellPlaced(g)
  /\ \A e \in Entities : Speeds[e] \in [Modes -> Nat]
  /\ None \notin Nat \cup Cells /\ Budgets \subseteq Nat \cup {None}
  /\ Reach \in [Entities -> Nat]
  /\ Policies \subseteq Policy
  /\ MaxMoves \in Nat

VARIABLES
  board,      \* the map
  policy,     \* of the runtime, fixed for the session
  sequence,   \* of the last event
  search,     \* the search under way, or None
  event       \* the event of the last request, or None

spatial == <<board, policy, sequence, search, event>>

-----------------------------------------------------------------------------
(* The search of find_path and reachable_cells                             *)

Heuristic_Manhattan(s, c) ==                  \* slip: the other metric
  IF s.goal = None THEN 0
  ELSE CellSize * (Abs(c[1] - s.goal[1]) + Abs(c[2] - s.goal[2]))
         + Abs(board.land[c].height - board.land[s.goal].height)

(* reachable_cells has no goal: it orders the frontier by cost alone.      *)
Heuristic(s, c) == IF s.goal = None THEN 0 ELSE Distance(board, c, s.goal)

Entry(s, c, cost) == [priority |-> cost + Heuristic(s, c), cost |-> cost, cell |-> c]

Sooner(p, q) ==
  \/ p.priority < q.priority
  \/ p.priority = q.priority /\ p.cost < q.cost
  \/ p.priority = q.priority /\ p.cost = q.cost /\ Before(p.cell, q.cell)

(* heappop                                                                 *)
Top(s) == CHOOSE p \in s.frontier : \A q \in s.frontier \ {p} : Sooner(p, q)

Begun(kind, e, mode, goal, budget) ==
  LET s     == [kind |-> kind, who |-> e, mode |-> mode, goal |-> goal,
                budget |-> budget, frontier |-> {}, cost |-> << >>, from |-> << >>]
      start == board.at[e].anchor
  IN  [s EXCEPT !.frontier = {Entry(s, start, 0)},
                !.cost = [c \in {start} |-> 0],
                !.from = [c \in {start} |-> start]]

Found(s) == s.goal \in DOMAIN s.cost

Improves(s, c, cost) ==
  cost <= s.budget /\ (c \in DOMAIN s.cost => cost < s.cost[c])

(* The neighbours of the popped cell whose cost the loop's body betters.   *)
Bettered(s, top) ==
  {c \in Neighbors(top.cell, policy) :
     /\ StepIsLegal(board, s.who, top.cell, c, s.mode, policy)
     /\ Improves(s, c, top.cost + StepCost(board, s.who, top.cell, c, s.mode, policy))}

Relaxed(s, top) ==
  LET better == Bettered(s, top)
      now(c) == top.cost + StepCost(board, s.who, top.cell, c, s.mode, policy)
      cells  == DOMAIN s.cost \cup better
  IN  [s EXCEPT
        !.frontier = (@ \ {top}) \cup {Entry(s, c, now(c)) : c \in better},
        !.cost = [c \in cells |-> IF c \in better THEN now(c) ELSE @[c]],
        !.from = [c \in cells |-> IF c \in better THEN top.cell ELSE @[c]]]

(* The loop has ended: at the goal, or with nothing left to look at.       *)
Done(s) ==
  s.frontier # {} => Top(s).cell = s.goal /\ Top(s).cost = s.cost[s.goal]

(* The path reconstructed from came_from.                                  *)
PathTo(s, goal) ==
  LET start == board.at[s.who].anchor
      back[k \in 0 .. Cardinality(Cells)] ==
        IF k = 0 THEN <<goal>>
        ELSE LET path == back[k - 1]
             IN  IF Head(path) = start THEN path ELSE <<s.from[Head(path)]>> \o path
  IN  back[Cardinality(Cells)]

-----------------------------------------------------------------------------
(* Events and their reducer                                                *)

MoveEvent(e, mode, path) ==
  LET others == Entities \ {e}
  IN  [sequence |-> sequence + 1, who |-> e, mode |-> mode, path |-> path,
       cost |-> PathCost(board, e, path, mode, policy),
       entries |-> [o \in others |-> Entries(board, o, e, path, Reach[o])],
       exits |-> [o \in others |-> Exits(board, o, e, path, Reach[o])]]

(* What apply_spatial_event revalidates, in a session and in a replay.     *)
Accepts(g, ev, pol) ==
  /\ ev.path[1] = g.at[ev.who].anchor
  /\ PathIsLegal(g, ev.who, ev.path, ev.mode, ev.cost, pol)
  /\ PathCost(g, ev.who, ev.path, ev.mode, pol) = ev.cost
  /\ Occupiable(g, ev.who, ev.path[Len(ev.path)])            \* with_anchor

Moved(g, ev) == [g EXCEPT !.at[ev.who].anchor = ev.path[Len(ev.path)]]

(* _transition_for_path: the event, applied.                               *)
Transition(e, mode, path) ==
  LET ev == MoveEvent(e, mode, path)
  IN  /\ Accepts(board, ev, policy)
      /\ board' = Moved(board, ev)
      /\ sequence' = sequence + 1
      /\ event' = ev

-----------------------------------------------------------------------------
(* Requests                                                                *)

Budget(e, mode, budget) == IF budget = None THEN Speeds[e][mode] ELSE budget

(* move_entity and spatial.path (find_actor_path) run the same search; its *)
(* end shows which it was.  A goal that cannot be occupied, or a mode the  *)
(* actor lacks, is refused before any search.                              *)
AskPath(e, mode, goal, budget) ==
  /\ search = None /\ sequence < MaxMoves
  /\ Speeds[e][mode] > 0
  /\ TerrainAllows(board, e, goal, mode) \/ goal = board.at[e].anchor
  /\ search' = Begun("path", e, mode, goal, Budget(e, mode, budget))
  /\ event' = None
  /\ UNCHANGED <<board, policy, sequence>>

(* spatial.reachable                                                       *)
AskReachable(e, mode, budget) ==
  /\ search = None /\ sequence < MaxMoves
  /\ Speeds[e][mode] > 0 /\ budget # None
  /\ search' = Begun("reachable", e, mode, None, budget)
  /\ event' = None
  /\ UNCHANGED <<board, policy, sequence>>

(* One turn of the loop: a pop, and its body unless the entry is stale.    *)
Pop ==
  /\ search # None /\ ~Done(search)
  /\ LET top == Top(search)
     IN  search' = IF top.cost = search.cost[top.cell] THEN Relaxed(search, top)
                   ELSE [search EXCEPT !.frontier = @ \ {top}]
  /\ UNCHANGED <<board, policy, sequence, event>>

(* A move whose path was found is made.                                    *)
Move ==
  /\ search # None /\ Done(search)
  /\ search.kind = "path" /\ Found(search)
  /\ Transition(search.who, search.mode, PathTo(search, search.goal))
  /\ search' = None
  /\ UNCHANGED policy

(* A query, and a move without a path, end in an answer.                   *)
Answer ==
  /\ search # None /\ Done(search)
  /\ search' = None
  /\ UNCHANGED <<board, policy, sequence, event>>

(* move_from_navigation_proposal: a path thought out elsewhere, against a  *)
(* map that may have changed since.  A refused one changes nothing.        *)
Propose(e, mode, path, budget) ==
  /\ search = None /\ sequence < MaxMoves
  /\ Speeds[e][mode] > 0
  /\ PathIsLegal(board, e, path, mode, Budget(e, mode, budget), policy)
  /\ Transition(e, mode, path)
  /\ UNCHANGED <<policy, search>>

(* Proposals of up to two steps from the anchor, and of one step from a    *)
(* cell beside it, where the mover may have stood before.                  *)
Proposals(e) ==
  LET a == board.at[e].anchor
      next(c) == Neighbors(c, DefaultPolicy) \cup {c}
  IN  UNION {UNION {{<<b, c>>, <<a, b, c>>} : c \in next(b)} : b \in next(a)}

SpatialInit ==
  /\ board \in Maps
  /\ policy \in Policies
  /\ sequence = 0
  /\ search = None
  /\ event = None

SpatialNext ==
  \/ \E e \in Entities, mode \in Modes, goal \in Cells, budget \in Budgets :
       AskPath(e, mode, goal, budget)
  \/ \E e \in Entities, mode \in Modes, budget \in Budgets : AskReachable(e, mode, budget)
  \/ Pop
  \/ Move
  \/ Answer
  \/ \E e \in Entities, mode \in Modes, budget \in Budgets :
       \E path \in Proposals(e) : Propose(e, mode, path, budget)

SpatialSpec == SpatialInit /\ [][SpatialNext]_spatial

-----------------------------------------------------------------------------
(* What the search is compared with: the cells a path leads to that costs  *)
(* at most n cell sizes, for n from 0 up to the budget.                    *)

Legs(g, e, mode, pol) ==
  {[from |-> s[1], to |-> s[2], cost |-> StepCost(g, e, s[1], s[2], mode, pol)] :
     s \in {s \in Cells \X Cells :
              /\ s[1] # s[2]
              /\ Covers(g.at[e], s[1]) \subseteq Cells
              /\ StepIsLegal(g, e, s[1], s[2], mode, pol)}}

Within(g, e, mode, pol, budget) ==
  LET legs == Legs(g, e, mode, pol)
      rings[n \in 0 .. budget \div CellSize] ==
        IF n = 0 THEN << {g.at[e].anchor} >>
        ELSE LET r == rings[n - 1]
             IN  Append(r, r[n] \cup
                   {l.to : l \in {l \in legs : /\ l.cost <= n * CellSize
                                               /\ l.from \in r[n + 1 - (l.cost \div CellSize)]}})
  IN  rings[budget \div CellSize]

Least(rings, c) == CellSize * (Min({n \in DOMAIN rings : c \in rings[n]}) - 1)

-----------------------------------------------------------------------------
Search ==
  [kind : {"path", "reachable"}, who : Entities, mode : Modes,
   goal : Cells \cup {None}, budget : Nat]

(* Besides the shapes: blocking entities never share a cell, stand in a    *)
(* wall or leave the map, whatever was moved along whatever path.          *)
SpatialTypeOK ==
  /\ board \in Map /\ WellPlaced(board)
  /\ policy \in Policies
  /\ sequence \in 0 .. MaxMoves
  /\ search # None =>
       /\ [f \in {"kind", "who", "mode", "goal", "budget"} |-> search[f]] \in Search
       /\ \A p \in search.frontier : p.cell \in DOMAIN search.cost
       /\ DOMAIN search.from = DOMAIN search.cost

(* The search is exact although it stops at the first arrival and never    *)
(* looks at a cell twice unless bettered: it finds a path exactly when one *)
(* fits the budget, the path it reconstructs costs what it says, and no    *)
(* path costs less.  What spatial.reachable lists is in the same way all   *)
(* that fits the budget, each cell at its least cost.                      *)
SearchIsExact ==
  search # None /\ Done(search) =>
    LET rings == Within(board, search.who, search.mode, policy, search.budget)
        near  == rings[Len(rings)]
    IN  IF search.kind = "reachable"
          THEN /\ DOMAIN search.cost = near
               /\ \A c \in near : search.cost[c] = Least(rings, c)
          ELSE /\ Found(search) <=> search.goal \in near
               /\ Found(search) =>
                    /\ search.cost[search.goal] = Least(rings, search.goal)
                    /\ search.cost[search.goal] =
                         PathCost(board, search.who, PathTo(search, search.goal),
                                  search.mode, policy)

(* The threat entries and exits of a move add up: whether the mover is in  *)
(* reach of a threat once it has moved is whether it stood, where it really*)
(* was, in the cells shown as threatened, plus the entries, less the exits.*)
ThreatsCounted ==
  sequence' # sequence /\ event' # None =>
    \A o \in Entities \ {event'.who} :
      LET before == Occupied(board, event'.who) \cap ThreatenedCells(board, o, Reach[o]) # {}
          after  == InReach(board', o, event'.who, Reach[o])
          one(b) == IF b THEN 1 ELSE 0
      IN  one(after) =
            one(before) + Cardinality(event'.entries[o]) - Cardinality(event'.exits[o])

ThreatsAddUp == [][ThreatsCounted]_spatial

(* Sight is mutual, over any terrain and from any placement: the trace from*)
(* one end passes the cells the trace from the other end passes.  Between  *)
(* creatures of one cell each, so is cover; between larger ones it need not*)
(* be, since the first free ray decides and the other's first is another.  *)
SightIsMutual ==
  search = None =>
    \A e, o \in Entities :
      /\ Sees(board, e, o) <=> Sees(board, o, e)
      /\ board.at[e].shape = board.at[o].shape /\ Cardinality(board.at[e].shape) = 1 =>
           Cover(board, e, o) = Cover(board, o, e)

(* Areas fit together, whichever way rounding decides on the edges of      *)
(* cones: the cones of the eight directions fill the sphere of their length*)
(* on level ground; opposite cones share nothing but their origin, cones a *)
(* right angle apart at most an edge that both let in; the line is what    *)
(* the sphere cuts out of the trace in its direction; whoever is in a      *)
(* sphere is in the cube and the cylinder around it.                       *)
AreasAgree ==
  search = None /\ sequence = 0 =>
    \A c \in Cells, size \in {CellSize, 2 * CellSize, 3 * CellSize} :
      LET around     == Sphere(board, c, size)
          level      == {d \in Cells : board.land[d].height = board.land[c].height}
          compass    == Offsets \ {<<0, 0>>}
          back(dir)  == <<-dir[1], -dir[2]>>
          left(dir)  == <<-dir[2], dir[1]>>
          edges(dir) == ConeEdge(board, c, dir) \cap ConeEdge(board, c, left(dir))
          ahead(dir) == {Plus(c, <<k * dir[1], k * dir[2]>>) : k \in 0 .. Width + Height}
          cone(dir, letIn) == Cone(board, c, dir, size, letIn)
      IN  /\ \A letIn \in Roundings :
               /\ around \cap level = level \cap UNION {cone(dir, letIn) : dir \in compass}
               /\ \A dir \in compass :
                    /\ cone(dir, letIn) \subseteq around
                    /\ \A other \in Roundings :
                         /\ cone(dir, letIn) \cap cone(back(dir), other) = {c}
                         /\ cone(dir, letIn) \cap cone(left(dir), other)
                              \subseteq {c} \cup (edges(dir) \cap letIn \cap other)
          /\ \A dir \in compass :
               Beam(board, c, dir, size) \cap level = around \cap level \cap ahead(dir)
          /\ Caught(board, around) \subseteq Caught(board, Cube(board, c, 2 * size))
          /\ around \subseteq Cylinder(board, c, size, 2 * size)
=============================================================================
