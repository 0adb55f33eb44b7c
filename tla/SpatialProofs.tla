---------------------------- MODULE SpatialProofs ----------------------------
(***************************************************************************)
(* Proofs about Grid and Spatial, for maps of any size, any terrain, any   *)
(* footprints, speeds and policies: a map stays well placed, the threats a *)
(* move reports add up, whoever sees is seen, a search finds a least path  *)
(* exactly when there is one and ends, and the areas of a map fit together.*)
(*                                                                         *)
(* Facts about sequences and sizes that want an induction are proved by    *)
(* their least counterexample (LeastOf).                                   *)
(***************************************************************************)
EXTENDS Spatial, FiniteSetTheorems, SequenceTheorems, WellFoundedInduction, TLAPS

(* Numbers.  Least elements stand for induction; greatest and smallest     *)
(* ones are what the distances and costs of a map are made of.             *)
LEMMA LeastOf ==
  ASSUME NEW S \in SUBSET Nat, S # {}
  PROVE  \E m \in S : \A k \in S : m <= k
<1>1. PICK m \in S : \A k \in S : ~(<<k, m>> \in OpToRel(<, Nat))
  BY NatLessThanWellFounded, WFMin, Zenon
<1>2. ASSUME NEW k \in S PROVE m <= k
  <2>1. ~(k < m)
    BY <1>1 DEF OpToRel
  <2> QED BY <2>1
<1> QED BY <1>2

LEMMA MinIsLeast ==
  ASSUME NEW S \in SUBSET Nat, S # {}
  PROVE  Min(S) \in S /\ \A k \in S : Min(S) <= k
<1>1. \E m \in S : \A k \in S : m <= k
  BY LeastOf
<1> QED BY <1>1 DEF Min

(* The greatest value of a finite family, with one more value beside it.   *)
LEMMA FamilyHasMax ==
  ASSUME NEW W, IsFiniteSet(W), NEW f, \A w \in W : f[w] \in Nat, NEW base \in Nat
  PROVE  LET all == {base} \cup {f[w] : w \in W}
         IN  Max(all) \in all /\ \A n \in all : Max(all) >= n
<1> DEFINE All(V) == {base} \cup {f[w] : w \in V}
           Tops(V) == \E m \in All(V) : \A n \in All(V) : m >= n
           bad == {k \in Nat : \E V \in SUBSET W : Cardinality(V) = k /\ ~Tops(V)}
<1>1. Tops(W)
  <2> SUFFICES ASSUME ~Tops(W) PROVE FALSE
    OBVIOUS
  <2>1. \A V \in SUBSET W : IsFiniteSet(V) /\ Cardinality(V) \in Nat
    BY FS_Subset, FS_CardinalityType
  <2>2. Cardinality(W) \in bad
    BY <2>1
  <2>3. PICK k \in bad : \A j \in bad : k <= j
    BY <2>2, LeastOf
  <2>4. PICK V \in SUBSET W : Cardinality(V) = k /\ ~Tops(V)
    BY <2>3
  <2>5. V # {}
    <3> SUFFICES ASSUME V = {} PROVE FALSE
      OBVIOUS
    <3>1. All(V) = {base}
      OBVIOUS
    <3> QED BY <2>4, <3>1
  <2>6. PICK w \in V : TRUE
    BY <2>5
  <2>7. Tops(V \ {w})
    <3>1. Cardinality(V \ {w}) = Cardinality(V) - 1 /\ Cardinality(V \ {w}) \in Nat
      BY <2>1, FS_RemoveElement
    <3> SUFFICES ASSUME ~Tops(V \ {w}) PROVE FALSE
      OBVIOUS
    <3>2. Cardinality(V \ {w}) \in bad
      <4> HIDE DEF Tops
      <4> QED BY <3>1
    <3>3. k <= Cardinality(V \ {w})
      BY <2>3, <3>2
    <3> QED BY <2>1, <2>4, <3>1, <3>3
  <2>8. PICK m \in All(V \ {w}) : \A n \in All(V \ {w}) : m >= n
    BY <2>7
  <2>9. /\ m \in Nat /\ f[w] \in Nat
        /\ \A n \in All(V) : n \in Nat /\ (n = f[w] \/ n \in All(V \ {w}))
        /\ m \in All(V) /\ f[w] \in All(V)
    OBVIOUS
  <2>10. CASE m >= f[w]
    BY <2>4, <2>8, <2>9, <2>10
  <2>11. CASE ~(m >= f[w])
    <3>1. ASSUME NEW n \in All(V) PROVE f[w] >= n
      <4> HIDE DEF All
      <4>1. n \in Nat /\ (n = f[w] \/ m >= n)
        BY <2>8, <2>9, <3>1
      <4> QED BY <2>9, <2>11, <4>1
    <3> QED BY <2>4, <2>9, <3>1
  <2> QED BY <2>10, <2>11
<1> HIDE DEF All
<1>2. \E m \in All(W) : \A n \in All(W) : m >= n
  BY <1>1
<1>3. Max(All(W)) \in All(W) /\ \A n \in All(W) : Max(All(W)) >= n
  BY <1>2 DEF Max
<1> QED BY <1>3 DEF All

LEMMA CeilIsNat ==
  ASSUME NEW n \in Nat, NEW d \in Nat \ {0}
  PROVE  Ceil(n, d) \in Nat
BY DEF Ceil

LEMMA DistanceIsNat ==
  ASSUME NEW g \in Map, NEW c \in Cells, NEW d \in Cells
  PROVE  Distance(g, c, d) \in Nat
<1> DEFINE x == Abs(d[1] - c[1])
           y == Abs(d[2] - c[2])
           z == Ceil(Abs(g.land[d].height - g.land[c].height), CellSize)
<1>1. c[1] \in Nat /\ c[2] \in Nat /\ d[1] \in Nat /\ d[2] \in Nat
  BY DEF Cells
<1>2. x \in Nat /\ y \in Nat
  BY <1>1 DEF Abs
<1>3. g.land[d] \in Terrain /\ g.land[c] \in Terrain
  BY DEF Map
<1>4. Abs(g.land[d].height - g.land[c].height) \in Nat
  BY <1>3 DEF Terrain, Abs
<1>5. z \in Nat
  BY <1>4, CeilIsNat, GridAssumption
<1> HIDE DEF x, y, z
<1>6. \E m \in {x, y, z} : \A n \in {x, y, z} : m >= n
  BY <1>2, <1>5
<1>7. Max({x, y, z}) \in {x, y, z}
  BY <1>6 DEF Max
<1>8. Max({x, y, z}) \in Nat
  BY <1>2, <1>5, <1>7
<1>9. CellSize * Max({x, y, z}) \in Nat
  BY <1>8, GridAssumption
<1> QED BY <1>9 DEF Distance, x, y, z

-----------------------------------------------------------------------------
(* Placements                                                              *)
LEMMA FootprintIsFinite ==
  ASSUME NEW p \in Placement
  PROVE  /\ IsFiniteSet(p.shape) /\ <<0, 0>> \in p.shape /\ p.shape \subseteq Offsets
         /\ \A a \in Cells : a \in Covers(p, a)
<1>1. p.shape \in SUBSET Offsets /\ <<0, 0>> \in p.shape
  BY DEF Placement, Footprint
<1>2. IsFiniteSet(-1 .. 1)
  <2>1. -1 \in Int /\ 1 \in Int
    OBVIOUS
  <2> QED BY <2>1, FS_Interval
<1>3. IsFiniteSet(Offsets)
  BY <1>2, FS_Product DEF Offsets
<1>4. ASSUME NEW a \in Cells PROVE a \in Covers(p, a)
  <2>1. a = Plus(a, <<0, 0>>)
    BY DEF Plus, Cells
  <2> QED BY <1>1, <2>1 DEF Covers
<1> QED BY <1>1, <1>3, <1>4, FS_Subset

Fits(g, e, c) == Covers(g.at[e], c) \subseteq Cells

LEMMA PlacedInCells ==
  ASSUME NEW g \in Map, WellPlaced(g), NEW e \in Entities
  PROVE  /\ g.at[e] \in Placement /\ g.at[e].anchor \in Cells
         /\ Occupied(g, e) \subseteq Cells /\ Fits(g, e, g.at[e].anchor)
<1>1. g.at \in [Entities -> Placement]
  BY DEF Map
<1>2. g.at[e] \in Placement
  BY <1>1
<1>3. g.at[e].anchor \in Cells
  BY <1>2 DEF Placement
<1>4. Occupied(g, e) \subseteq Cells
  BY <1>1 DEF WellPlaced
<1> QED BY <1>2, <1>3, <1>4 DEF Occupied, Fits

Relocated(g, e, to) == [g EXCEPT !.at[e].anchor = to]

(* Only the anchor of the one that moves changes.                          *)
LEMMA RelocatedParts ==
  ASSUME NEW g \in Map, NEW e \in Entities, NEW to \in Cells, NEW h, h = Relocated(g, e, to)
  PROVE  /\ h \in Map /\ h.land = g.land
         /\ \A o \in Entities \ {e} : h.at[o] = g.at[o]
         /\ h.at[e].shape = g.at[e].shape /\ h.at[e].anchor = to
         /\ h.at[e].solid = g.at[e].solid
<1> DEFINE p == [g.at[e] EXCEPT !.anchor = to]
<1>1. g.at \in [Entities -> Placement] /\ g.land \in [Cells -> Terrain] /\ g = [land |-> g.land, at |-> g.at]
  BY DEF Map
<1>2. g.at[e] \in Placement
  BY <1>1
<1>3. /\ p \in Placement /\ p.shape = g.at[e].shape /\ p.anchor = to
      /\ p.solid = g.at[e].solid
  BY <1>2 DEF Placement
<1>4. h = [land |-> g.land, at |-> [g.at EXCEPT ![e] = p]]
  BY <1>1 DEF Relocated, Map
<1> HIDE DEF p
<1>5. h.land = g.land /\ h.at = [g.at EXCEPT ![e] = p]
  BY <1>4
<1>6. h.at \in [Entities -> Placement]
  BY <1>1, <1>3, <1>5
<1>7. h \in Map
  BY <1>1, <1>4, <1>5, <1>6 DEF Map
<1>8. h.at[e] = p /\ \A o \in Entities \ {e} : h.at[o] = g.at[o]
  BY <1>1, <1>5
<1> QED BY <1>3, <1>5, <1>7, <1>8

(* A move to an anchor the mover may occupy leaves the map well placed.    *)
LEMMA RelocatedIsPlaced ==
  ASSUME NEW g \in Map, WellPlaced(g), NEW e \in Entities, NEW to \in Cells, Occupiable(g, e, to),
         NEW h, h = Relocated(g, e, to)
  PROVE  WellPlaced(h)
<1>1. /\ h \in Map /\ h.land = g.land
      /\ \A o \in Entities \ {e} : h.at[o] = g.at[o]
      /\ h.at[e].shape = g.at[e].shape
      /\ h.at[e].anchor = to /\ h.at[e].solid = g.at[e].solid
  BY RelocatedParts
<1>2. DOMAIN g.at = Entities /\ DOMAIN h.at = Entities
  BY <1>1 DEF Map
<1>3. \A o \in Entities \ {e} : Occupied(h, o) = Occupied(g, o)
  BY <1>1 DEF Occupied, Covers
<1>4. Occupied(h, e) = Covers(g.at[e], to)
  BY <1>1 DEF Occupied, Covers
<1>5. \A o \in Entities : h.at[o].solid = g.at[o].solid
  BY <1>1
<1> SUFFICES ASSUME NEW x \in Entities, NEW c \in Occupied(h, x)
             PROVE  /\ c \in Cells
                    /\ h.at[x].solid =>
                         ~h.land[c].solid /\ \A o \in Occupants(h, c) \ {x} : ~h.at[o].solid
  BY <1>2 DEF WellPlaced
<1>6. \A o \in Entities \ {e} : o \in Occupants(h, c) <=> o \in Occupants(g, c)
  BY <1>2, <1>3 DEF Occupants
<1>7. Occupants(h, c) \subseteq Entities
  BY <1>2 DEF Occupants
<1>8. CASE x = e
  <2>1. /\ c \in Cells /\ ~g.land[c].solid
        /\ \A o \in Occupants(g, c) \ {e} : ~(g.at[o].solid /\ g.at[e].solid)
    BY <1>4, <1>8 DEF Occupiable
  <2> QED BY <1>1, <1>5, <1>6, <1>7, <1>8, <2>1
<1>9. CASE x # e
  <2>1. c \in Occupied(g, x)
    BY <1>3, <1>9
  <2>2. /\ c \in Cells
        /\ g.at[x].solid => ~g.land[c].solid /\ \A o \in Occupants(g, c) \ {x} : ~g.at[o].solid
    BY <1>2, <2>1 DEF WellPlaced
  <2>3. e \in Occupants(h, c) => ~(g.at[x].solid /\ g.at[e].solid)
    <3>1. SUFFICES ASSUME e \in Occupants(h, c) PROVE ~(g.at[x].solid /\ g.at[e].solid)
      OBVIOUS
    <3>2. c \in Covers(g.at[e], to)
      BY <1>4, <3>1 DEF Occupants
    <3>3. x \in Occupants(g, c) \ {e}
      BY <1>2, <1>9, <2>1 DEF Occupants
    <3> QED BY <3>2, <3>3 DEF Occupiable
  <2> QED BY <1>1, <1>5, <1>6, <1>7, <1>9, <2>2, <2>3
<1> QED BY <1>8, <1>9

-----------------------------------------------------------------------------
(* Both the path that is reconstructed and the trace between two cells are *)
(* iterations of a step on sequences.                                      *)
Iterates(F, S, a, step, n) ==
  F \in [0 .. n -> S] /\ \A k \in 0 .. n : F[k] = IF k = 0 THEN a ELSE step[F[k - 1]]

(* A step that maps a set into itself can be iterated from any member.     *)
LEMMA IterationExists ==
  ASSUME NEW S, NEW a \in S, NEW step \in [S -> S], NEW n \in Nat
  PROVE  \E F : Iterates(F, S, a, step, n)
<1> DEFINE Has(m) == \E F : Iterates(F, S, a, step, m)
           bad == {m \in Nat : ~Has(m)}
<1> SUFFICES ASSUME bad # {} PROVE FALSE
  OBVIOUS
<1>1. PICK m \in bad : \A k \in bad : m <= k
  BY LeastOf
<1>2. m \in Nat /\ ~Has(m)
  OBVIOUS
<1>3. m # 0
  <2> DEFINE F == [k \in 0 .. 0 |-> a]
  <2>1. Iterates(F, S, a, step, 0)
    BY DEF Iterates
  <2>2. Has(0)
    BY <2>1
  <2> QED BY <1>2, <2>2
<1>4. Has(m - 1)
  <2>1. m - 1 \in Nat /\ ~(m <= m - 1)
    BY <1>2, <1>3
  <2> QED BY <1>1, <2>1
<1>5. PICK F : Iterates(F, S, a, step, m - 1)
  BY <1>4
<1>6. F \in [0 .. m - 1 -> S] /\ \A k \in 0 .. m - 1 : F[k] = IF k = 0 THEN a ELSE step[F[k - 1]]
  BY <1>5 DEF Iterates
<1> DEFINE G == [k \in 0 .. m |-> IF k = m THEN step[F[m - 1]] ELSE F[k]]
<1>7. G \in [0 .. m -> S]
  <2>1. ASSUME NEW k \in 0 .. m PROVE (IF k = m THEN step[F[m - 1]] ELSE F[k]) \in S
    <3>1. m - 1 \in 0 .. m - 1 /\ (k # m => k \in 0 .. m - 1)
      BY <1>2, <1>3
    <3> QED BY <1>6, <3>1
  <2> QED BY <2>1
<1>8. ASSUME NEW k \in 0 .. m PROVE G[k] = IF k = 0 THEN a ELSE step[G[k - 1]]
  <2>1. CASE k = m
    <3>1. k # 0 /\ k - 1 \in 0 .. m /\ k - 1 # m /\ k - 1 = m - 1
      BY <1>2, <1>3, <2>1
    <3> QED BY <2>1, <3>1
  <2>2. CASE k # m
    <3>1. k \in 0 .. m - 1 /\ (k # 0 => k - 1 \in 0 .. m /\ k - 1 # m)
      BY <1>2, <1>3, <2>2
    <3>2. G[k] = F[k] /\ (k # 0 => G[k - 1] = F[k - 1])
      BY <2>2, <3>1
    <3> QED BY <1>6, <3>1, <3>2
  <2> QED BY <2>1, <2>2
<1>9. Has(m)
  <2> HIDE DEF G
  <2>1. Iterates(G, S, a, step, m)
    BY <1>7, <1>8 DEF Iterates
  <2> QED BY <2>1
<1> QED BY <1>2, <1>9

(* The path from came_from is built by going back a cell at a time.        *)
Backward(s, q) ==
  IF Head(q) = board.at[s.who].anchor THEN q ELSE <<s.from[Head(q)]>> \o q

LEMMA CellsAreFinite == IsFiniteSet(Cells) /\ Cardinality(Cells) \in Nat
<1>1. IsFiniteSet(0 .. Width - 1) /\ IsFiniteSet(0 .. Height - 1)
  <2>1. 0 \in Int /\ Width - 1 \in Int /\ Height - 1 \in Int
    BY GridAssumption
  <2> QED BY <2>1, FS_Interval
<1>2. IsFiniteSet(Cells)
  BY <1>1, FS_Product DEF Cells
<1> QED BY <1>2, FS_CardinalityType

LEMMA PathToUnfolds ==
  ASSUME NEW s, NEW D \in SUBSET Cells, s.from \in [D -> D], NEW goal \in D
  PROVE  \E back :
           /\ \A k \in 0 .. Cardinality(Cells) :
                /\ back[k] \in Seq(D) /\ back[k] # << >>
                /\ back[k] = IF k = 0 THEN <<goal>> ELSE Backward(s, back[k - 1])
           /\ PathTo(s, goal) = back[Cardinality(Cells)]
<1> DEFINE start == board.at[s.who].anchor
           n == Cardinality(Cells)
           Paths == {q \in Seq(D) : q # << >>}
           Extend(q) == IF Head(q) = start THEN q ELSE <<s.from[Head(q)]>> \o q
           step == [q \in Paths |-> Extend(q)]
           IsBack(F) == F = [k \in 0 .. n |-> IF k = 0 THEN <<goal>> ELSE Extend(F[k - 1])]
           back == CHOOSE F : IsBack(F)
<1>1. n \in Nat
  BY CellsAreFinite
<1>2. <<goal>> \in Paths
  OBVIOUS
<1>3. ASSUME NEW q \in Paths PROVE Extend(q) \in Paths
  <2>1. Head(q) = q[1] /\ q[1] \in D /\ q \in Seq(D)
    OBVIOUS
  <2>2. s.from[Head(q)] \in D
    BY <2>1
  <2> DEFINE x == s.from[Head(q)]
  <2> HIDE DEF x
  <2>3. <<x>> \o q \in Seq(D) /\ <<x>> \o q # << >>
    BY <2>1, <2>2 DEF x
  <2> QED BY <2>1, <2>2, <2>3 DEF x
<1>4. step \in [Paths -> Paths]
  BY <1>3
<1> HIDE DEF n
<1>5. \E F : IsBack(F)
  <2> HIDE DEF step, Paths, IsBack
  <2> DEFINE first == <<goal>>
  <2>0. first \in Paths
    BY <1>2
  <2> HIDE DEF first
  <2>1. PICK F : Iterates(F, Paths, first, step, n)
    BY <1>1, <2>0, <1>4, IterationExists
  <2>2. ASSUME NEW k \in 0 .. n PROVE F[k] = IF k = 0 THEN <<goal>> ELSE Extend(F[k - 1])
    <3>1. k # 0 => F[k - 1] \in Paths
      BY <1>1, <2>1 DEF Iterates
    <3> QED BY <2>1, <3>1 DEF step, first, Iterates
  <2>3. F = [k \in 0 .. n |-> F[k]]
    BY <2>1 DEF Iterates
  <2> HIDE DEF Extend
  <2>4. IsBack(F)
    BY <2>2, <2>3 DEF IsBack
  <2> QED BY <2>4
<1>6. IsBack(back)
  <2> HIDE DEF IsBack
  <2> QED BY <1>5
<1>7. \A k \in 0 .. n : back[k] \in Paths
  <2> HIDE DEF back, Extend, Paths
  <2> DEFINE bad == {k \in Nat : k \in 0 .. n /\ back[k] \notin Paths}
  <2> SUFFICES ASSUME bad # {} PROVE FALSE
    BY <1>1
  <2>1. PICK k \in bad : \A j \in bad : k <= j
    BY LeastOf
  <2>2. k \in 0 .. n /\ back[k] \notin Paths /\ k \in Nat
    OBVIOUS
  <2>3. back[k] = IF k = 0 THEN <<goal>> ELSE Extend(back[k - 1])
    BY <1>6, <2>2
  <2>4. k # 0
    BY <1>2, <2>2, <2>3
  <2>5. back[k - 1] \in Paths
    <3>1. k - 1 \in Nat /\ k - 1 \in 0 .. n /\ ~(k <= k - 1)
      BY <1>1, <2>2, <2>4
    <3> QED BY <2>1, <3>1
  <2> QED BY <1>3, <2>2, <2>3, <2>4, <2>5
<1>8. PathTo(s, goal) = back[n]
  BY DEF PathTo, n
<1>9. \A k \in 0 .. n : back[k] = IF k = 0 THEN <<goal>> ELSE Backward(s, back[k - 1])
  <2> HIDE DEF back
  <2> QED BY <1>6 DEF Backward
<1> HIDE DEF back
<1> QED BY <1>7, <1>8, <1>9 DEF n, Paths

LEMMA PathIsTyped ==
  ASSUME NEW s, NEW D \in SUBSET Cells, s.from \in [D -> D], NEW goal \in D
  PROVE  PathTo(s, goal) \in Seq(Cells) /\ PathTo(s, goal) # << >>
<1>1. PICK back :
        /\ \A k \in 0 .. Cardinality(Cells) : back[k] \in Seq(D) /\ back[k] # << >>
        /\ PathTo(s, goal) = back[Cardinality(Cells)]
  BY PathToUnfolds
<1>2. Cardinality(Cells) \in 0 .. Cardinality(Cells)
  BY CellsAreFinite
<1>3. PathTo(s, goal) \in Seq(D) /\ PathTo(s, goal) # << >>
  BY <1>1, <1>2
<1> QED BY <1>3

-----------------------------------------------------------------------------
(* The search                                                              *)
Waiting == [priority : Nat, cost : Nat, cell : Cells]

SearchTyped(s) ==
  /\ s \in [kind : {"path", "reachable"}, who : Entities, mode : Modes,
            goal : Cells \cup {None}, budget : Nat, frontier : SUBSET Waiting,
            cost : UNION {[D -> Nat] : D \in SUBSET Cells},
            from : UNION {[D -> D] : D \in SUBSET Cells}]
  /\ \A p \in s.frontier : p.cell \in DOMAIN s.cost
  /\ DOMAIN s.from = DOMAIN s.cost
  /\ \A c \in DOMAIN s.cost : Fits(board, s.who, c)

(* The heap's order is total, so a frontier that is not empty has a top.   *)
LEMMA TopIsWaiting ==
  ASSUME NEW s, s.frontier \in SUBSET Waiting, s.frontier # {}
  PROVE  Top(s) \in s.frontier /\ \A q \in s.frontier \ {Top(s)} : Sooner(Top(s), q)
<1> DEFINE F1 == s.frontier
<1>1. PICK a \in F1 : \A q \in F1 : a.priority <= q.priority
  <2> DEFINE S == {q.priority : q \in F1}
  <2>1. S \in SUBSET Nat /\ S # {}
    BY DEF Waiting
  <2>2. PICK m \in S : \A k \in S : m <= k
    BY <2>1, LeastOf
  <2> QED BY <2>2
<1> DEFINE F2 == {q \in F1 : q.priority = a.priority}
<1>2. PICK b \in F2 : \A q \in F2 : b.cost <= q.cost
  <2> DEFINE S == {q.cost : q \in F2}
  <2>1. S \in SUBSET Nat /\ S # {}
    BY DEF Waiting
  <2>2. PICK m \in S : \A k \in S : m <= k
    BY <2>1, LeastOf
  <2> QED BY <2>2
<1> DEFINE F3 == {q \in F2 : q.cost = b.cost}
<1>3. PICK c \in F3 : \A q \in F3 : c.cell[1] <= q.cell[1]
  <2> DEFINE S == {q.cell[1] : q \in F3}
  <2>1. S \in SUBSET Nat /\ S # {}
    BY DEF Waiting, Cells
  <2>2. PICK m \in S : \A k \in S : m <= k
    BY <2>1, LeastOf
  <2> QED BY <2>2
<1> DEFINE F4 == {q \in F3 : q.cell[1] = c.cell[1]}
<1>4. PICK d \in F4 : \A q \in F4 : d.cell[2] <= q.cell[2]
  <2> DEFINE S == {q.cell[2] : q \in F4}
  <2>1. S \in SUBSET Nat /\ S # {}
    BY DEF Waiting, Cells
  <2>2. PICK m \in S : \A k \in S : m <= k
    BY <2>1, LeastOf
  <2> QED BY <2>2
<1>5. ASSUME NEW q \in s.frontier \ {d} PROVE Sooner(d, q)
  <2>1. /\ d \in Waiting /\ q \in Waiting
        /\ d.priority \in Nat /\ d.cost \in Nat /\ d.cell[1] \in Nat /\ d.cell[2] \in Nat
        /\ q.priority \in Nat /\ q.cost \in Nat /\ q.cell[1] \in Nat /\ q.cell[2] \in Nat
    BY DEF Waiting, Cells
  <2>2. d.priority = a.priority /\ d.cost = b.cost /\ d.cell[1] = c.cell[1]
    OBVIOUS
  <2>3. d.priority <= q.priority
    BY <1>1, <2>2
  <2>4. d.priority = q.priority => d.cost <= q.cost
    BY <1>2, <2>2
  <2>5. d.priority = q.priority /\ d.cost = q.cost => d.cell[1] <= q.cell[1]
    BY <1>3, <2>2
  <2>6. d.priority = q.priority /\ d.cost = q.cost /\ d.cell[1] = q.cell[1] => d.cell[2] <= q.cell[2]
    BY <1>4, <2>2
  <2>7. ~(d.priority = q.priority /\ d.cost = q.cost /\ d.cell[1] = q.cell[1] /\ d.cell[2] = q.cell[2])
    <3>1. d.cell \in Cells /\ q.cell \in Cells
      BY <2>1 DEF Waiting
    <3>2. d.cell[1] = q.cell[1] /\ d.cell[2] = q.cell[2] => d.cell = q.cell
      BY <3>1 DEF Cells
    <3>3. d.priority = q.priority /\ d.cost = q.cost /\ d.cell = q.cell => d = q
      BY <2>1 DEF Waiting
    <3> QED BY <3>2, <3>3
  <2> HIDE DEF F1, F2, F3, F4
  <2> QED BY <2>1, <2>3, <2>4, <2>5, <2>6, <2>7 DEF Sooner, Before
<1>6. d \in s.frontier
  OBVIOUS
<1> HIDE DEF F1, F2, F3, F4
<1> QED BY <1>5, <1>6 DEF Top

LEMMA StepCostIsNat ==
  ASSUME NEW g \in Map, NEW e \in Entities, NEW from \in Cells, NEW to \in Cells,
         Fits(g, e, from), Fits(g, e, to), NEW mode, NEW pol \in Policy
  PROVE  StepCost(g, e, from, to, mode, pol) \in Nat
<1> DEFINE shape == g.at[e].shape
           rise(o) == Abs(g.land[Plus(to, o)].height - g.land[Plus(from, o)].height)
           f == [o \in shape |-> Ceil(rise(o), CellSize)]
           all == {1} \cup {f[o] : o \in shape}
<1>1. g.at[e] \in Placement /\ g.land \in [Cells -> Terrain]
  BY DEF Map
<1>2. IsFiniteSet(shape)
  BY <1>1, FootprintIsFinite
<1>3. ASSUME NEW o \in shape PROVE f[o] \in Nat
  <2>1. Plus(to, o) \in Cells /\ Plus(from, o) \in Cells
    BY DEF Fits, Covers
  <2>2. g.land[Plus(to, o)].height \in Nat /\ g.land[Plus(from, o)].height \in Nat
    BY <1>1, <2>1 DEF Terrain
  <2>3. rise(o) \in Nat
    BY <2>2 DEF Abs
  <2> QED BY <2>3, CeilIsNat, GridAssumption
<1>4. Max(all) \in all
  <2> HIDE DEF f, shape
  <2>1. 1 \in Nat
    OBVIOUS
  <2> QED BY <1>2, <1>3, <2>1, FamilyHasMax
<1>5. Max(all) \in Nat
  <2> HIDE DEF f, shape
  <2> QED BY <1>3, <1>4
<1>6. all = {1} \cup {Ceil(r, CellSize) : r \in Rises(g, e, from, to)}
  BY DEF Rises
<1>7. pol.difficult \in Nat
  BY DEF Policy
<1> HIDE DEF all
<1>8. Max({1} \cup {Ceil(r, CellSize) : r \in Rises(g, e, from, to)}) \in Nat
  BY <1>5, <1>6
<1> DEFINE steps == Max({1} \cup {Ceil(r, CellSize) : r \in Rises(g, e, from, to)})
<1> HIDE DEF steps
<1>9. steps * CellSize \in Nat /\ (steps * CellSize) * pol.difficult \in Nat /\ (steps * CellSize) * 1 \in Nat
  <2>1. steps \in Nat /\ CellSize \in Nat
    BY <1>8, GridAssumption DEF steps
  <2> DEFINE feet == steps * CellSize
  <2>2. feet \in Nat
    BY <2>1
  <2> HIDE DEF feet
  <2>3. feet * pol.difficult \in Nat /\ feet * 1 \in Nat
    BY <2>2, <1>7
  <2> QED BY <2>2, <2>3 DEF feet
<1> QED BY <1>9 DEF StepCost, steps

-----------------------------------------------------------------------------
(* Types, and a map that stays well placed                                 *)
SpatialInv ==
  /\ board \in Map /\ WellPlaced(board)
  /\ policy \in Policies
  /\ sequence \in 0 .. MaxMoves
  /\ search # None => SearchTyped(search) /\ sequence < MaxMoves

LEMMA SpatialInvInit == SpatialInit => SpatialInv
BY SpatialAssumption DEF SpatialInit, SpatialInv

LEMMA HeuristicIsNat ==
  ASSUME board \in Map, NEW s, s.goal \in Cells \cup {None}, NEW c \in Cells
  PROVE  Heuristic(s, c) \in Nat
<1>1. CASE s.goal = None
  BY <1>1 DEF Heuristic
<1>2. CASE s.goal # None
  <2>1. s.goal \in Cells
    BY <1>2
  <2>2. Distance(board, c, s.goal) \in Nat
    BY <2>1, DistanceIsNat
  <2> QED BY <1>2, <2>2 DEF Heuristic
<1> QED BY <1>1, <1>2

LEMMA EntryIsTyped ==
  ASSUME board \in Map, NEW s, s.goal \in Cells \cup {None}, NEW c \in Cells, NEW cost \in Nat
  PROVE  Entry(s, c, cost) \in Waiting /\ Entry(s, c, cost).cell = c
<1>1. Heuristic(s, c) \in Nat
  BY HeuristicIsNat
<1>2. cost + Heuristic(s, c) \in Nat
  BY <1>1
<1> QED BY <1>2 DEF Entry, Waiting

LEMMA BegunIsTyped ==
  ASSUME SpatialInv, NEW kind \in {"path", "reachable"}, NEW e \in Entities, NEW mode \in Modes,
         NEW goal \in Cells \cup {None}, NEW budget \in Nat
  PROVE  SearchTyped(Begun(kind, e, mode, goal, budget))
<1> DEFINE s == [kind |-> kind, who |-> e, mode |-> mode, goal |-> goal,
                 budget |-> budget, frontier |-> {}, cost |-> << >>, from |-> << >>]
           start == board.at[e].anchor
           first == Entry(s, start, 0)
           t == [kind |-> kind, who |-> e, mode |-> mode, goal |-> goal, budget |-> budget,
                 frontier |-> {first}, cost |-> [c \in {start} |-> 0],
                 from |-> [c \in {start} |-> start]]
<1>1. Begun(kind, e, mode, goal, budget) = t
  <2> HIDE DEF first
  <2>1. Begun(kind, e, mode, goal, budget)
          = [s EXCEPT !.frontier = {first}, !.cost = [c \in {start} |-> 0],
                      !.from = [c \in {start} |-> start]]
    BY DEF Begun, first
  <2> QED BY <2>1
<1>2. start \in Cells /\ Fits(board, e, start)
  BY PlacedInCells DEF SpatialInv
<1>3. first \in Waiting /\ first.cell = start
  <2>1. s.goal \in Cells \cup {None} /\ 0 \in Nat /\ board \in Map
    BY DEF SpatialInv
  <2> HIDE DEF s
  <2> QED BY <1>2, <2>1, EntryIsTyped
<1> HIDE DEF first, start
<1>4. {start} \in SUBSET Cells
  BY <1>2
<1>5. [c \in {start} |-> 0] \in [{start} -> Nat] /\ [c \in {start} |-> start] \in [{start} -> {start}]
  OBVIOUS
<1>6. /\ t.cost \in UNION {[D -> Nat] : D \in SUBSET Cells}
      /\ t.from \in UNION {[D -> D] : D \in SUBSET Cells}
  BY <1>4, <1>5
<1>7. \A p \in t.frontier : p.cell \in DOMAIN t.cost
  BY <1>3
<1>8. DOMAIN t.from = DOMAIN t.cost /\ \A c \in DOMAIN t.cost : Fits(board, t.who, c)
  BY <1>2
<1>9. t \in [kind : {"path", "reachable"}, who : Entities, mode : Modes,
             goal : Cells \cup {None}, budget : Nat, frontier : SUBSET Waiting,
             cost : UNION {[D -> Nat] : D \in SUBSET Cells},
             from : UNION {[D -> D] : D \in SUBSET Cells}]
  BY <1>3, <1>6
<1> HIDE DEF t
<1> QED BY <1>1, <1>7, <1>8, <1>9 DEF SearchTyped

(* Only cells where the actor fits are ever bettered.                      *)
LEMMA BetteredFit ==
  ASSUME SpatialInv, NEW s, SearchTyped(s), NEW top \in s.frontier, NEW c \in Bettered(s, top)
  PROVE  /\ c \in Cells /\ Fits(board, s.who, c)
         /\ top.cost + StepCost(board, s.who, top.cell, c, s.mode, policy) \in Nat
<1>1. /\ top \in Waiting /\ top.cell \in DOMAIN s.cost /\ s.who \in Entities
      /\ DOMAIN s.cost \subseteq Cells
  BY DEF SearchTyped
<1>2. top.cell \in Cells /\ top.cost \in Nat /\ Fits(board, s.who, top.cell)
  BY <1>1 DEF SearchTyped, Waiting
<1>3. c \in Cells /\ c # top.cell /\ StepIsLegal(board, s.who, top.cell, c, s.mode, policy)
  BY DEF Bettered, Neighbors
<1>4. Enters(board, s.who, top.cell, c, s.mode, policy)
  BY <1>3 DEF StepIsLegal
<1>5. Fits(board, s.who, c)
  BY <1>4 DEF Enters, TerrainAllows, Occupiable, Fits
<1>6. board \in Map /\ policy \in Policy
  BY SpatialAssumption DEF SpatialInv
<1>7. StepCost(board, s.who, top.cell, c, s.mode, policy) \in Nat
  BY <1>1, <1>2, <1>3, <1>5, <1>6, StepCostIsNat
<1> QED BY <1>2, <1>3, <1>5, <1>7

LEMMA RelaxedIsTyped ==
  ASSUME SpatialInv, NEW s, SearchTyped(s), NEW top \in s.frontier
  PROVE  SearchTyped(Relaxed(s, top))
<1> DEFINE better == Bettered(s, top)
           now(c) == top.cost + StepCost(board, s.who, top.cell, c, s.mode, policy)
           cells == DOMAIN s.cost \cup better
           added == {Entry(s, c, now(c)) : c \in better}
           cost == [c \in cells |-> IF c \in better THEN now(c) ELSE s.cost[c]]
           from == [c \in cells |-> IF c \in better THEN top.cell ELSE s.from[c]]
           t == [s EXCEPT !.frontier = (s.frontier \ {top}) \cup added, !.cost = cost, !.from = from]
<1>1. Relaxed(s, top) = t
  BY DEF Relaxed
<1>2. PICK D \in SUBSET Cells : s.cost \in [D -> Nat]
  BY DEF SearchTyped
<1>3. DOMAIN s.cost = D /\ DOMAIN s.from = D
  BY <1>2 DEF SearchTyped
<1>4. s.from \in [D -> D]
  <2>1. PICK E \in SUBSET Cells : s.from \in [E -> E]
    BY DEF SearchTyped
  <2> QED BY <1>3, <2>1
<1>5. \A c \in better : c \in Cells /\ Fits(board, s.who, c) /\ now(c) \in Nat
  BY BetteredFit
<1>6. top \in Waiting /\ top.cell \in D
  BY <1>3 DEF SearchTyped
<1>7. cells \in SUBSET Cells /\ cells = D \cup better
  BY <1>3, <1>5
<1>8. cost \in [cells -> Nat]
  <2>1. ASSUME NEW c \in cells PROVE (IF c \in better THEN now(c) ELSE s.cost[c]) \in Nat
    BY <1>2, <1>5, <1>7
  <2> HIDE DEF better, now, cells
  <2> QED BY <2>1
<1>9. from \in [cells -> cells]
  <2>1. ASSUME NEW c \in cells PROVE (IF c \in better THEN top.cell ELSE s.from[c]) \in cells
    BY <1>4, <1>6, <1>7
  <2> HIDE DEF better, cells
  <2> QED BY <2>1
<1>10. \A p \in added : p \in Waiting /\ p.cell \in cells
  <2>1. ASSUME NEW c \in better PROVE Entry(s, c, now(c)) \in Waiting /\ Entry(s, c, now(c)).cell = c
    <3>1. s.goal \in Cells \cup {None} /\ board \in Map
      BY DEF SearchTyped, SpatialInv
    <3> HIDE DEF now, better
    <3> QED BY <1>5, <3>1, EntryIsTyped
  <2> HIDE DEF now, better
  <2> QED BY <2>1
<1> HIDE DEF better, now, cells, cost, from, added
<1>11. DOMAIN t.cost = cells /\ DOMAIN t.from = cells /\ t.who = s.who
  BY <1>8, <1>9 DEF SearchTyped
<1>12. t.frontier = (s.frontier \ {top}) \cup added
  BY DEF SearchTyped
<1>13. \A p \in t.frontier : p \in Waiting /\ p.cell \in cells
  BY <1>3, <1>7, <1>10, <1>12 DEF SearchTyped
<1>14. \A c \in cells : Fits(board, s.who, c)
  BY <1>3, <1>5, <1>7 DEF SearchTyped
<1>15. t \in [kind : {"path", "reachable"}, who : Entities, mode : Modes,
              goal : Cells \cup {None}, budget : Nat, frontier : SUBSET Waiting,
              cost : UNION {[E -> Nat] : E \in SUBSET Cells},
              from : UNION {[E -> E] : E \in SUBSET Cells}]
  <2>1. /\ cost \in UNION {[E -> Nat] : E \in SUBSET Cells}
        /\ from \in UNION {[E -> E] : E \in SUBSET Cells}
    BY <1>7, <1>8, <1>9
  <2>2. (s.frontier \ {top}) \cup added \in SUBSET Waiting
    BY <1>10 DEF SearchTyped
  <2> QED BY <2>1, <2>2 DEF SearchTyped
<1> HIDE DEF t
<1> QED BY <1>1, <1>11, <1>13, <1>14, <1>15 DEF SearchTyped

(* A move that is made ends where the mover may stand.                     *)
LEMMA TransitionIsPlaced ==
  ASSUME SpatialInv, NEW e \in Entities, NEW mode, NEW path \in Seq(Cells), path # << >>,
         Transition(e, mode, path)
  PROVE  /\ board' = Relocated(board, e, path[Len(path)]) /\ board' \in Map /\ WellPlaced(board)'
         /\ path[1] = board.at[e].anchor /\ path[Len(path)] \in Cells
<1> DEFINE ev == MoveEvent(e, mode, path)
           to == path[Len(path)]
<1>1. ev.who = e /\ ev.path = path
  BY DEF MoveEvent
<1>2. to \in Cells
  OBVIOUS
<1> HIDE DEF ev
<1>3. Accepts(board, ev, policy) /\ board' = Moved(board, ev)
  BY DEF Transition, ev
<1>4. Occupiable(board, e, to) /\ path[1] = board.at[e].anchor
  BY <1>1, <1>3 DEF Accepts
<1>5. board' = Relocated(board, e, to)
  BY <1>1, <1>3 DEF Moved, Relocated
<1>6. board \in Map /\ WellPlaced(board)
  BY DEF SpatialInv
<1> HIDE DEF to
<1>7. PICK h : h = Relocated(board, e, to)
  OBVIOUS
<1>8. h \in Map /\ WellPlaced(h)
  BY <1>2, <1>4, <1>6, <1>7, RelocatedIsPlaced, RelocatedParts
<1>9. board' = h
  BY <1>5, <1>7
<1>10. WellPlaced(board)' <=> WellPlaced(board')
  BY DEF WellPlaced, Occupied, Occupants, Covers
<1>11. WellPlaced(board') /\ board' \in Map
  BY <1>8, <1>9
<1> QED BY <1>2, <1>4, <1>5, <1>10, <1>11 DEF to

LEMMA ProposalsAreTyped ==
  ASSUME SpatialInv, NEW e \in Entities, NEW path \in Proposals(e)
  PROVE  path \in Seq(Cells) /\ path # << >>
<1> DEFINE a == board.at[e].anchor
           next(c) == Neighbors(c, DefaultPolicy) \cup {c}
<1>1. a \in Cells
  BY PlacedInCells DEF SpatialInv
<1>2. \A c \in Cells : next(c) \subseteq Cells
  BY DEF Neighbors
<1>3. \E b \in next(a) : \E c \in next(b) : path = <<b, c>> \/ path = <<a, b, c>>
  BY DEF Proposals
<1> HIDE DEF next, a
<1>4. PICK b \in Cells : \E c \in Cells : path = <<b, c>> \/ path = <<a, b, c>>
  BY <1>1, <1>2, <1>3
<1>5. PICK c \in Cells : path = <<b, c>> \/ path = <<a, b, c>>
  BY <1>4
<1>6. CASE path = <<b, c>>
  BY <1>6
<1>7. CASE path = <<a, b, c>>
  BY <1>1, <1>7
<1> QED BY <1>5, <1>6, <1>7

(* The path of a search that has found its goal.                           *)
LEMMA FoundPathIsTyped ==
  ASSUME NEW s, SearchTyped(s), Found(s)
  PROVE  PathTo(s, s.goal) \in Seq(Cells) /\ PathTo(s, s.goal) # << >>
<1>1. PICK D \in SUBSET Cells : s.from \in [D -> D]
  BY DEF SearchTyped
<1>2. s.goal \in D
  BY <1>1 DEF SearchTyped, Found
<1> QED BY <1>1, <1>2, PathIsTyped

-----------------------------------------------------------------------------
(* What the last event says stays true of the map it led to: nothing but   *)
(* its mover moved.                                                        *)
EventInv ==
  event # None =>
    LET e == event.who
    IN  /\ e \in Entities
        /\ event.path \in Seq(Cells) /\ event.path # << >>
        /\ Fits(board, e, event.path[1])
        /\ board.at[e].anchor = event.path[Len(event.path)]
        /\ \A o \in Entities \ {e} :
             /\ event.entries[o] = Entries(board, o, e, event.path, Reach[o])
             /\ event.exits[o] = Exits(board, o, e, event.path, Reach[o])

LEMMA ThreatsStay ==
  ASSUME NEW g \in Map, NEW e \in Entities, NEW to \in Cells, NEW h, h = Relocated(g, e, to),
         NEW o \in Entities \ {e}, NEW path, NEW reach
  PROVE  /\ Entries(h, o, e, path, reach) = Entries(g, o, e, path, reach)
         /\ Exits(h, o, e, path, reach) = Exits(g, o, e, path, reach)
<1>1. h.land = g.land /\ h.at[o] = g.at[o] /\ h.at[e].shape = g.at[e].shape
  BY RelocatedParts
<1>2. Occupied(h, o) = Occupied(g, o)
  BY <1>1 DEF Occupied, Covers
<1>3. ASSUME NEW a PROVE Threatens(h, o, e, a, reach) <=> Threatens(g, o, e, a, reach)
  <2>1. Covers(h.at[e], a) = Covers(g.at[e], a)
    BY <1>1 DEF Covers
  <2>2. \A c, d : Distance(h, c, d) = Distance(g, c, d)
    BY <1>1 DEF Distance
  <2> DEFINE here == {Distance(h, c, d) : c \in Occupied(h, o), d \in Covers(h.at[e], a)}
             there == {Distance(g, c, d) : c \in Occupied(g, o), d \in Covers(g.at[e], a)}
  <2>3. here = there
    BY <1>2, <2>1, <2>2
  <2>4. Gap(h, o, e, a) = Min(here) /\ Gap(g, o, e, a) = Min(there)
    BY DEF Gap
  <2> HIDE DEF here, there
  <2>5. Gap(h, o, e, a) = Gap(g, o, e, a)
    BY <2>3, <2>4
  <2> QED BY <2>5 DEF Threatens
<1> QED BY <1>3 DEF Entries, Exits

LEMMA TransitionKeepsEvent ==
  ASSUME SpatialInv, NEW e \in Entities, NEW mode, NEW path \in Seq(Cells), path # << >>,
         Transition(e, mode, path)
  PROVE  EventInv'
<1>1. /\ board' = Relocated(board, e, path[Len(path)]) /\ board' \in Map
      /\ path[1] = board.at[e].anchor /\ path[Len(path)] \in Cells
  BY TransitionIsPlaced
<1>2. event' = MoveEvent(e, mode, path)
  BY DEF Transition
<1>3. /\ event'.who = e /\ event'.path = path
      /\ event'.entries = [o \in Entities \ {e} |-> Entries(board, o, e, path, Reach[o])]
      /\ event'.exits = [o \in Entities \ {e} |-> Exits(board, o, e, path, Reach[o])]
  BY <1>2 DEF MoveEvent
<1>4. board \in Map /\ WellPlaced(board)
  BY DEF SpatialInv
<1>5. PICK h : h = Relocated(board, e, path[Len(path)])
  OBVIOUS
<1>6. board' = h
  BY <1>1, <1>5
<1>7. h.at[e].anchor = path[Len(path)] /\ h.at[e].shape = board.at[e].shape
  BY <1>1, <1>4, <1>5, RelocatedParts
<1>8. Fits(h, e, path[1])
  <2>1. Fits(board, e, path[1])
    BY <1>1, <1>4, PlacedInCells
  <2> QED BY <1>7, <2>1 DEF Fits, Covers
<1>9. ASSUME NEW o \in Entities \ {e}
      PROVE  /\ event'.entries[o] = Entries(h, o, e, path, Reach[o])
             /\ event'.exits[o] = Exits(h, o, e, path, Reach[o])
  BY <1>1, <1>3, <1>4, <1>5, ThreatsStay
<1>10. /\ e \in Entities /\ path \in Seq(Cells) /\ path # << >>
       /\ Fits(board', e, path[1]) /\ board'.at[e].anchor = path[Len(path)]
       /\ \A o \in Entities \ {e} :
             /\ event'.entries[o] = Entries(board', o, e, path, Reach[o])
             /\ event'.exits[o] = Exits(board', o, e, path, Reach[o])
  BY <1>6, <1>7, <1>8, <1>9
<1>11. Fits(board, event.who, event.path[1])'
  <2>1. Fits(board, event.who, event.path[1])' <=> Fits(board', event'.who, event'.path[1])
    BY DEF Fits, Covers
  <2> QED BY <1>3, <1>10, <2>1
<1>12. ASSUME NEW o \in Entities \ {e}
       PROVE  /\ event'.entries[o] = Entries(board, o, event.who, event.path, Reach[o])'
              /\ event'.exits[o] = Exits(board, o, event.who, event.path, Reach[o])'
  <2>1. /\ Entries(board, o, event.who, event.path, Reach[o])'
             = Entries(board', o, event'.who, event'.path, Reach[o])
        /\ Exits(board, o, event.who, event.path, Reach[o])'
             = Exits(board', o, event'.who, event'.path, Reach[o])
    BY DEF Entries, Exits, Threatens, Gap, Occupied, Covers, Distance
  <2> QED BY <1>3, <1>10, <2>1
<1>13. event'.who = e /\ event'.path = path
  BY <1>3
<1> QED BY <1>10, <1>11, <1>12, <1>13 DEF EventInv

LEMMA BudgetIsNat ==
  ASSUME NEW e \in Entities, NEW mode \in Modes, NEW budget \in Budgets
  PROVE  Budget(e, mode, budget) \in Nat
BY SpatialAssumption DEF Budget

(* A search that is typed on the same map is typed after the step.         *)
LEMMA SearchStays ==
  ASSUME NEW s, SearchTyped(s), search' = s, board' = board
  PROVE  SearchTyped(search)'
<1>1. SearchTyped(search)' <=> SearchTyped(s)
  BY DEF SearchTyped, Fits
<1> QED BY <1>1

LEMMA SpatialInvStep == SpatialInv /\ [SpatialNext]_spatial => SpatialInv'
<1> SUFFICES ASSUME SpatialInv, [SpatialNext]_spatial PROVE SpatialInv'
  OBVIOUS
<1>0. /\ board \in Map /\ WellPlaced(board) /\ policy \in Policies
      /\ sequence \in Nat /\ sequence \in 0 .. MaxMoves /\ MaxMoves \in Nat
  BY SpatialAssumption DEF SpatialInv
(* Steps that leave the map alone.                                         *)
<1>1. ASSUME board' = board, policy' = policy, sequence' = sequence,
             search' # None => SearchTyped(search)' /\ sequence < MaxMoves
      PROVE  SpatialInv'
  <2>1. WellPlaced(board)' <=> WellPlaced(board)
    BY <1>1 DEF WellPlaced, Occupied, Occupants, Covers
  <2> QED BY <1>0, <1>1, <2>1 DEF SpatialInv
<1>2. ASSUME NEW e \in Entities, NEW mode \in Modes, NEW path \in Seq(Cells), path # << >>,
             Transition(e, mode, path), policy' = policy, sequence < MaxMoves, search' = None
      PROVE  SpatialInv'
  <2>1. board' \in Map /\ WellPlaced(board)'
    BY <1>2, TransitionIsPlaced
  <2>2. sequence' = sequence + 1
    BY <1>2 DEF Transition
  <2>3. sequence' \in 0 .. MaxMoves
    BY <1>0, <1>2, <2>2
  <2> QED BY <1>0, <1>2, <2>1, <2>3 DEF SpatialInv
<1>3. ASSUME NEW e \in Entities, NEW mode \in Modes, NEW goal \in Cells, NEW budget \in Budgets,
             AskPath(e, mode, goal, budget)
      PROVE  SpatialInv'
  <2>1. SearchTyped(Begun("path", e, mode, goal, Budget(e, mode, budget)))
    <3>1. "path" \in {"path", "reachable"} /\ goal \in Cells \cup {None} /\ Budget(e, mode, budget) \in Nat
      BY BudgetIsNat
    <3> QED BY <3>1, BegunIsTyped
  <2> QED BY <1>1, <1>3, <2>1, SearchStays DEF AskPath
<1>4. ASSUME NEW e \in Entities, NEW mode \in Modes, NEW budget \in Budgets,
             AskReachable(e, mode, budget)
      PROVE  SpatialInv'
  <2>1. SearchTyped(Begun("reachable", e, mode, None, budget))
    <3>1. "reachable" \in {"path", "reachable"} /\ None \in Cells \cup {None} /\ budget \in Nat
      BY <1>4, SpatialAssumption DEF AskReachable
    <3> QED BY <3>1, BegunIsTyped
  <2> QED BY <1>1, <1>4, <2>1, SearchStays DEF AskReachable
<1>5. CASE Pop
  <2> DEFINE top == Top(search)
  <2>1. search # None /\ ~Done(search) /\ SearchTyped(search) /\ sequence < MaxMoves
    BY <1>5 DEF Pop, SpatialInv
  <2>2. top \in search.frontier
    <3>1. search.frontier # {}
      BY <2>1 DEF Done
    <3>2. search.frontier \in SUBSET Waiting
      BY <2>1 DEF SearchTyped
    <3> QED BY <3>1, <3>2, TopIsWaiting
  <2> HIDE DEF top
  <2>3. SearchTyped(Relaxed(search, top))
    BY <2>1, <2>2, RelaxedIsTyped
  <2> DEFINE less == [search EXCEPT !.frontier = search.frontier \ {top}]
  <2>4. SearchTyped(less)
    BY <2>1 DEF SearchTyped
  <2>5. search' = Relaxed(search, top) \/ search' = less
    BY <1>5 DEF Pop, top
  <2> HIDE DEF less
  <2>6. UNCHANGED <<board, policy, sequence, event>>
    BY <1>5 DEF Pop
  <2>7. SearchTyped(search)'
    BY <2>3, <2>4, <2>5, <2>6, SearchStays
  <2> QED BY <1>1, <2>1, <2>6, <2>7
<1>6. CASE Move
  <2> DEFINE path == PathTo(search, search.goal)
  <2>1. SearchTyped(search) /\ Found(search) /\ sequence < MaxMoves
    BY <1>6 DEF Move, SpatialInv
  <2>2. path \in Seq(Cells) /\ path # << >>
    BY <2>1, FoundPathIsTyped
  <2>3. search.who \in Entities /\ search.mode \in Modes
    BY <2>1 DEF SearchTyped
  <2>4. Transition(search.who, search.mode, path) /\ search' = None /\ policy' = policy
    BY <1>6 DEF Move
  <2> HIDE DEF path
  <2> QED BY <1>2, <2>1, <2>2, <2>3, <2>4
<1>7. CASE Answer
  BY <1>1, <1>7 DEF Answer
<1>8. ASSUME NEW e \in Entities, NEW mode \in Modes, NEW budget \in Budgets,
             NEW path \in Proposals(e), Propose(e, mode, path, budget)
      PROVE  SpatialInv'
  <2>1. path \in Seq(Cells) /\ path # << >>
    BY ProposalsAreTyped
  <2>2. Transition(e, mode, path) /\ search' = None /\ policy' = policy /\ sequence < MaxMoves
    BY <1>8 DEF Propose
  <2> QED BY <1>2, <2>1, <2>2
<1>9. CASE UNCHANGED spatial
  <2>1. search' # None => SearchTyped(search)' /\ sequence < MaxMoves
    BY <1>9, SearchStays DEF spatial, SpatialInv
  <2> QED BY <1>1, <1>9, <2>1 DEF spatial
<1> QED BY <1>3, <1>4, <1>5, <1>6, <1>7, <1>8, <1>9 DEF SpatialNext

LEMMA EventInvStep == SpatialInv /\ EventInv /\ [SpatialNext]_spatial => EventInv'
<1> SUFFICES ASSUME SpatialInv, EventInv, [SpatialNext]_spatial PROVE EventInv'
  OBVIOUS
<1>1. ASSUME event' = None PROVE EventInv'
  BY <1>1 DEF EventInv
<1>2. ASSUME board' = board, event' = event PROVE EventInv'
  <2>1. Fits(board, event.who, event.path[1])' <=> Fits(board, event.who, event.path[1])
    BY <1>2 DEF Fits, Covers
  <2>2. ASSUME NEW o
        PROVE  /\ Entries(board, o, event.who, event.path, Reach[o])'
                    = Entries(board, o, event.who, event.path, Reach[o])
               /\ Exits(board, o, event.who, event.path, Reach[o])'
                    = Exits(board, o, event.who, event.path, Reach[o])
    BY <1>2 DEF Entries, Exits, Threatens, Gap, Occupied, Covers, Distance
  <2> QED BY <1>2, <2>1, <2>2 DEF EventInv
<1>3. ASSUME NEW e \in Entities, NEW mode \in Modes, NEW goal \in Cells, NEW budget \in Budgets,
             AskPath(e, mode, goal, budget)
      PROVE  EventInv'
  BY <1>1, <1>3 DEF AskPath
<1>4. ASSUME NEW e \in Entities, NEW mode \in Modes, NEW budget \in Budgets,
             AskReachable(e, mode, budget)
      PROVE  EventInv'
  BY <1>1, <1>4 DEF AskReachable
<1>5. CASE Pop
  BY <1>2, <1>5 DEF Pop
<1>6. CASE Move
  <2> DEFINE path == PathTo(search, search.goal)
  <2>1. SearchTyped(search) /\ Found(search)
    BY <1>6 DEF Move, SpatialInv
  <2>2. path \in Seq(Cells) /\ path # << >>
    BY <2>1, FoundPathIsTyped
  <2>3. search.who \in Entities
    BY <2>1 DEF SearchTyped
  <2>4. Transition(search.who, search.mode, path)
    BY <1>6 DEF Move
  <2> HIDE DEF path
  <2> QED BY <2>2, <2>3, <2>4, TransitionKeepsEvent
<1>7. CASE Answer
  BY <1>2, <1>7 DEF Answer
<1>8. ASSUME NEW e \in Entities, NEW mode \in Modes, NEW budget \in Budgets,
             NEW path \in Proposals(e), Propose(e, mode, path, budget)
      PROVE  EventInv'
  <2>1. path \in Seq(Cells) /\ path # << >>
    BY ProposalsAreTyped
  <2>2. Transition(e, mode, path)
    BY <1>8 DEF Propose
  <2> QED BY <2>1, <2>2, TransitionKeepsEvent
<1>9. CASE UNCHANGED spatial
  BY <1>2, <1>9 DEF spatial
<1> QED BY <1>3, <1>4, <1>5, <1>6, <1>7, <1>8, <1>9 DEF SpatialNext

(* The map stays well placed, and an event keeps describing it.            *)
THEOREM SpatialInvariant == SpatialSpec => [](SpatialInv /\ EventInv)
<1>1. SpatialInit => SpatialInv /\ EventInv
  BY SpatialInvInit DEF SpatialInit, EventInv
<1>2. SpatialInv /\ EventInv /\ [SpatialNext]_spatial => SpatialInv' /\ EventInv'
  BY SpatialInvStep, EventInvStep
<1> QED BY <1>1, <1>2, PTL DEF SpatialSpec

(* Blocking entities never share a cell, stand in a wall or leave the map, *)
(* whichever moves and proposals are accepted (SpatialState.with_anchor    *)
(* and __post_init__), and a search waits only on cells it has reached.    *)
THEOREM MapStaysWellPlaced == SpatialSpec => []SpatialTypeOK
<1>1. SpatialInv => SpatialTypeOK
  <2> SUFFICES ASSUME SpatialInv PROVE SpatialTypeOK
    OBVIOUS
  <2>1. ASSUME SearchTyped(search)
        PROVE  /\ [f \in {"kind", "who", "mode", "goal", "budget"} |-> search[f]] \in Search
               /\ \A p \in search.frontier : p.cell \in DOMAIN search.cost
               /\ DOMAIN search.from = DOMAIN search.cost
    <3> DEFINE r == [f \in {"kind", "who", "mode", "goal", "budget"} |-> search[f]]
    <3>1. r = [kind |-> search.kind, who |-> search.who, mode |-> search.mode,
               goal |-> search.goal, budget |-> search.budget]
      OBVIOUS
    <3>2. /\ search.kind \in {"path", "reachable"} /\ search.who \in Entities
          /\ search.mode \in Modes /\ search.goal \in Cells \cup {None} /\ search.budget \in Nat
      BY <2>1 DEF SearchTyped
    <3> HIDE DEF r
    <3>3. r \in Search
      BY <3>1, <3>2 DEF Search
    <3> QED BY <2>1, <3>3 DEF SearchTyped, r
  <2> QED BY <2>1 DEF SpatialInv, SpatialTypeOK
<1> QED BY <1>1, SpatialInvariant, PTL

-----------------------------------------------------------------------------
(* Threats                                                                 *)

(* Being in reach and standing on a threatened cell are one thing.         *)
LEMMA ReachIsTheZone ==
  ASSUME NEW g \in Map, NEW o \in Entities, NEW e \in Entities, NEW anchor \in Cells,
         Occupied(g, o) \subseteq Cells, Fits(g, e, anchor), NEW reach \in Nat
  PROVE  Threatens(g, o, e, anchor, reach)
           <=> Covers(g.at[e], anchor) \cap ThreatenedCells(g, o, reach) # {}
<1> DEFINE D == {Distance(g, c, d) : c \in Occupied(g, o), d \in Covers(g.at[e], anchor)}
<1>1. g.at[o] \in Placement /\ g.at[e] \in Placement
  BY DEF Map
<1>2. PICK a : a \in Occupied(g, o)
  <2>1. g.at[o].anchor \in Cells
    BY <1>1 DEF Placement
  <2> QED BY <1>1, <2>1, FootprintIsFinite DEF Occupied
<1>3. anchor \in Covers(g.at[e], anchor)
  BY <1>1, FootprintIsFinite
<1>4. D \in SUBSET Nat
  <2>1. \A c \in Cells, d \in Cells : Distance(g, c, d) \in Nat
    BY DistanceIsNat
  <2> QED BY <2>1 DEF Fits
<1>5. D # {}
  <2>1. Distance(g, a, anchor) \in D
    BY <1>2, <1>3
  <2> QED BY <2>1
<1>6. Gap(g, o, e, anchor) = Min(D)
  BY DEF Gap
<1>7. Min(D) \in D /\ \A k \in D : Min(D) <= k
  <2> HIDE DEF D
  <2> QED BY <1>4, <1>5, MinIsLeast
<1>8. ASSUME Min(D) <= reach
      PROVE  Covers(g.at[e], anchor) \cap ThreatenedCells(g, o, reach) # {}
  <2> DEFINE least == Min(D)
  <2>0. least \in D
    <3> HIDE DEF D
    <3> QED BY <1>7
  <2> HIDE DEF least
  <2>1. PICK c \in Occupied(g, o), d \in Covers(g.at[e], anchor) : least = Distance(g, c, d)
    BY <2>0
  <2>2. d \in Cells
    BY DEF Fits
  <2>3. d \in ThreatenedCells(g, o, reach)
    BY <1>8, <2>1, <2>2 DEF ThreatenedCells, least
  <2> QED BY <2>3
<1>9. ASSUME NEW d \in Covers(g.at[e], anchor), d \in ThreatenedCells(g, o, reach)
      PROVE  Min(D) <= reach
  <2>1. PICK c \in Occupied(g, o) : Distance(g, c, d) <= reach
    BY <1>9 DEF ThreatenedCells
  <2>2. Distance(g, c, d) \in D
    OBVIOUS
  <2>3. Min(D) <= Distance(g, c, d) /\ Min(D) \in Nat /\ Distance(g, c, d) \in Nat
    <3> HIDE DEF D
    <3> QED BY <1>4, <1>7, <2>2
  <2> HIDE DEF D
  <2> QED BY <2>1, <2>3
<1> HIDE DEF D
<1> QED BY <1>6, <1>8, <1>9 DEF Threatens

(* Along any sequence of yes and no, the changes to yes less the changes to*)
(* no are what the last differs from the first by.                         *)
One(b) == IF b THEN 1 ELSE 0
Ups(T, n) == {k \in 1 .. n - 1 : k \notin T /\ k + 1 \in T}
Downs(T, n) == {k \in 1 .. n - 1 : k \in T /\ k + 1 \notin T}
Adds(T, n) == One(n \in T) = One(1 \in T) + Cardinality(Ups(T, n)) - Cardinality(Downs(T, n))

LEMMA ChangesAreFinite ==
  ASSUME NEW T, NEW n \in Nat
  PROVE  /\ IsFiniteSet(Ups(T, n)) /\ Cardinality(Ups(T, n)) \in Nat
         /\ IsFiniteSet(Downs(T, n)) /\ Cardinality(Downs(T, n)) \in Nat
<1>1. IsFiniteSet(1 .. n - 1)
  <2>1. 1 \in Int /\ n - 1 \in Int
    OBVIOUS
  <2> QED BY <2>1, FS_Interval
<1>2. Ups(T, n) \subseteq 1 .. n - 1 /\ Downs(T, n) \subseteq 1 .. n - 1
  BY DEF Ups, Downs
<1>3. IsFiniteSet(Ups(T, n)) /\ IsFiniteSet(Downs(T, n))
  BY <1>1, <1>2, FS_Subset
<1> QED BY <1>3, FS_CardinalityType

LEMMA ChangesAddUp ==
  ASSUME NEW T, NEW n \in Nat \ {0}
  PROVE  Adds(T, n)
<1> DEFINE bad == {m \in Nat : m # 0 /\ ~Adds(T, m)}
<1> SUFFICES ASSUME bad # {} PROVE FALSE
  OBVIOUS
<1>1. PICK m \in bad : \A k \in bad : m <= k
  BY LeastOf
<1>2. m \in Nat /\ m # 0 /\ ~Adds(T, m)
  OBVIOUS
<1>3. m # 1
  <2>1. 1 .. 1 - 1 = {}
    OBVIOUS
  <2>2. Ups(T, 1) = {} /\ Downs(T, 1) = {}
    BY <2>1 DEF Ups, Downs
  <2>3. Cardinality(Ups(T, 1)) = 0 /\ Cardinality(Downs(T, 1)) = 0
    BY <2>2, FS_EmptySet
  <2>4. Adds(T, 1)
    BY <2>3 DEF Adds, One
  <2> QED BY <1>2, <2>4
<1> DEFINE p == m - 1
<1>4. p \in Nat /\ p # 0 /\ m = p + 1 /\ ~(m <= p)
  BY <1>2, <1>3
<1> HIDE DEF p
<1>5. Adds(T, p)
  BY <1>1, <1>4
<1>6. /\ p \notin Ups(T, p) /\ p \notin Downs(T, p)
      /\ IsFiniteSet(Ups(T, p)) /\ Cardinality(Ups(T, p)) \in Nat
      /\ IsFiniteSet(Downs(T, p)) /\ Cardinality(Downs(T, p)) \in Nat
  <2>1. p \notin 1 .. p - 1
    BY <1>4
  <2> QED BY <1>4, <2>1, ChangesAreFinite DEF Ups, Downs
<1>7. \A k : k \in 1 .. m - 1 <=> k \in 1 .. p - 1 \/ k = p
  BY <1>4
<1>8. Ups(T, m) = IF p \notin T /\ m \in T THEN Ups(T, p) \cup {p} ELSE Ups(T, p)
  BY <1>4, <1>7 DEF Ups
<1>9. Downs(T, m) = IF p \in T /\ m \notin T THEN Downs(T, p) \cup {p} ELSE Downs(T, p)
  BY <1>4, <1>7 DEF Downs
<1>10. Cardinality(Ups(T, p) \cup {p}) = Cardinality(Ups(T, p)) + 1
  BY <1>6, FS_AddElement
<1>11. Cardinality(Downs(T, p) \cup {p}) = Cardinality(Downs(T, p)) + 1
  BY <1>6, FS_AddElement
<1>12. Adds(T, m)
  <2> DEFINE u == Cardinality(Ups(T, p))
             d == Cardinality(Downs(T, p))
  <2>1. /\ Cardinality(Ups(T, m)) = IF p \notin T /\ m \in T THEN u + 1 ELSE u
        /\ Cardinality(Downs(T, m)) = IF p \in T /\ m \notin T THEN d + 1 ELSE d
    BY <1>8, <1>9, <1>10, <1>11
  <2>2. One(p \in T) = One(1 \in T) + u - d
    BY <1>5 DEF Adds
  <2>3. u \in Nat /\ d \in Nat
    BY <1>6
  <2> HIDE DEF u, d
  <2> QED BY <2>1, <2>2, <2>3 DEF Adds, One
<1> QED BY <1>2, <1>12

(* The same of an event and the map it led to.                             *)
EventAdds ==
  event # None =>
    \A o \in Entities \ {event.who} :
      One(InReach(board, o, event.who, Reach[o]))
        = One(Covers(board.at[event.who], event.path[1])
                \cap ThreatenedCells(board, o, Reach[o]) # {})
            + Cardinality(event.entries[o]) - Cardinality(event.exits[o])

LEMMA EventAddsUp == SpatialInv /\ EventInv => EventAdds
<1> SUFFICES ASSUME SpatialInv, EventInv, event # None, NEW o \in Entities \ {event.who}
             PROVE  One(InReach(board, o, event.who, Reach[o]))
                      = One(Covers(board.at[event.who], event.path[1])
                              \cap ThreatenedCells(board, o, Reach[o]) # {})
                          + Cardinality(event.entries[o]) - Cardinality(event.exits[o])
  BY DEF EventAdds
<1> DEFINE e == event.who
           path == event.path
           n == Len(path)
           T == {k \in 1 .. n : Threatens(board, o, e, path[k], Reach[o])}
<1>1. /\ e \in Entities /\ path \in Seq(Cells) /\ path # << >>
      /\ Fits(board, e, path[1]) /\ board.at[e].anchor = path[n]
      /\ event.entries[o] = Entries(board, o, e, path, Reach[o])
      /\ event.exits[o] = Exits(board, o, e, path, Reach[o])
  BY DEF EventInv
<1>2. n \in Nat \ {0} /\ path[1] \in Cells /\ 1 \in 1 .. n /\ n \in 1 .. n
  BY <1>1
<1> HIDE DEF n
<1>3. board \in Map /\ WellPlaced(board) /\ Reach[o] \in Nat
  BY SpatialAssumption DEF SpatialInv
<1>4. Occupied(board, o) \subseteq Cells
  BY <1>3, PlacedInCells
<1>5. 1 \in T <=> Covers(board.at[e], path[1]) \cap ThreatenedCells(board, o, Reach[o]) # {}
  <2>1. Threatens(board, o, e, path[1], Reach[o])
          <=> Covers(board.at[e], path[1]) \cap ThreatenedCells(board, o, Reach[o]) # {}
    BY <1>1, <1>2, <1>3, <1>4, ReachIsTheZone
  <2> QED BY <1>2, <2>1
<1>6. n \in T <=> InReach(board, o, e, Reach[o])
  <2>1. Threatens(board, o, e, path[n], Reach[o]) <=> InReach(board, o, e, Reach[o])
    BY <1>1 DEF Threatens, InReach, Apart
  <2> QED BY <1>2, <2>1
<1>7. event.entries[o] = Ups(T, n) /\ event.exits[o] = Downs(T, n)
  <2>1. \A k \in 1 .. n - 1 : k \in 1 .. n /\ k + 1 \in 1 .. n
    BY <1>2
  <2> QED BY <1>1, <2>1 DEF Entries, Exits, Ups, Downs, n
<1> HIDE DEF T
<1>8. Adds(T, n)
  BY <1>2, ChangesAddUp
<1> QED BY <1>5, <1>6, <1>7, <1>8 DEF Adds, One

(* A move changes the map only by where the mover stands: the cells it     *)
(* covered and those the others threaten are told from either map.         *)
LEMMA OnlyTheMoverMoves ==
  ASSUME SpatialInv, NEW e \in Entities, NEW mode, NEW path \in Seq(Cells), path # << >>,
         Transition(e, mode, path), NEW o \in Entities \ {e}
  PROVE  /\ Covers(board'.at[e], path[1]) = Occupied(board, e)
         /\ ThreatenedCells(board', o, Reach[o]) = ThreatenedCells(board, o, Reach[o])
<1> DEFINE to == path[Len(path)]
<1>1. board' = [board EXCEPT !.at[e].anchor = to] /\ path[1] = board.at[e].anchor
  BY DEF Transition, MoveEvent, Moved, Accepts
<1>2. board.at \in [Entities -> Placement]
  BY DEF SpatialInv, Map
<1> HIDE DEF to
<1>3. board'.at[e].shape = board.at[e].shape /\ board'.at[o] = board.at[o]
      /\ board'.land = board.land
  BY <1>1, <1>2 DEF SpatialInv, Map, Placement
<1>4. Covers(board'.at[e], path[1]) = Occupied(board, e)
  BY <1>1, <1>3 DEF Covers, Occupied
<1>5. Occupied(board', o) = Occupied(board, o)
  BY <1>3 DEF Occupied, Covers
<1>6. \A c, d : Distance(board', c, d) = Distance(board, c, d)
  BY <1>3 DEF Distance
<1> QED BY <1>4, <1>5, <1>6 DEF ThreatenedCells

(* The entries and exits reported with a move add up, for every threat, to *)
(* the difference between where the mover was and where it is              *)
(* (path_threat_transitions against threatened_cells and placement_in_reach*)
(* of threats.py), however long the path and whatever the reach.           *)
THEOREM MovesCountTheirThreats == SpatialSpec => ThreatsAddUp
<1>1. SpatialInv /\ EventInv => EventAdds
  BY EventAddsUp
<1>2. SpatialInv /\ EventAdds' /\ [SpatialNext]_spatial => [ThreatsCounted]_spatial
  <2> SUFFICES ASSUME SpatialInv, EventAdds', SpatialNext,
                      sequence' # sequence, event' # None
               PROVE  ThreatsCounted
    BY DEF ThreatsCounted, spatial
  <2>1. PICK e \in Entities, mode \in Modes, path \in Seq(Cells) :
          path # << >> /\ Transition(e, mode, path)
    <3>1. CASE Move
      <4>1. SearchTyped(search) /\ Found(search)
        BY <3>1 DEF Move, SpatialInv
      <4>2. /\ PathTo(search, search.goal) \in Seq(Cells)
            /\ PathTo(search, search.goal) # << >>
        BY <4>1, FoundPathIsTyped
      <4>3. search.who \in Entities /\ search.mode \in Modes
        BY <4>1 DEF SearchTyped
      <4>4. Transition(search.who, search.mode, PathTo(search, search.goal))
        BY <3>1 DEF Move
      <4> QED BY <4>2, <4>3, <4>4
    <3>2. ASSUME NEW e \in Entities, NEW mode \in Modes, NEW budget \in Budgets,
                 NEW path \in Proposals(e), Propose(e, mode, path, budget)
          PROVE  path \in Seq(Cells) /\ path # << >> /\ Transition(e, mode, path)
      BY <3>2, ProposalsAreTyped DEF Propose
    <3> QED BY <3>1, <3>2 DEF SpatialNext, AskPath, AskReachable, Pop, Answer
  <2>2. event' = MoveEvent(e, mode, path)
    BY <2>1 DEF Transition
  <2>3. event'.who = e /\ event'.path = path
    BY <2>2 DEF MoveEvent
  <2> SUFFICES ASSUME NEW o \in Entities \ {e}
               PROVE  One(InReach(board', o, e, Reach[o]))
                        = One(Occupied(board, e) \cap ThreatenedCells(board, o, Reach[o]) # {})
                            + Cardinality(event'.entries[o]) - Cardinality(event'.exits[o])
    BY <2>3 DEF ThreatsCounted, One
  <2>4. One(InReach(board', o, e, Reach[o]))
          = One(Covers(board'.at[e], path[1]) \cap ThreatenedCells(board', o, Reach[o]) # {})
              + Cardinality(event'.entries[o]) - Cardinality(event'.exits[o])
    BY <2>3 DEF EventAdds
  <2> QED BY <2>1, <2>4, OnlyTheMoverMoves
<1> QED BY <1>1, <1>2, SpatialInvariant, PTL DEF ThreatsAddUp, SpatialSpec

-----------------------------------------------------------------------------
(* The trace between two cells                                             *)
Box(n) == (0 .. n[1]) \X (0 .. n[2])

(* How far a place is off the straight line, and which way it steps.       *)
Off(n, i) == i[1] * n[2] - i[2] * n[1]
Tilt(n, i) == n[2] - n[1] + 2 * Off(n, i)

LEMMA StepByTilt ==
  ASSUME NEW x \in Nat, NEW y \in Nat, NEW n, n = <<x, y>>, NEW i \in Nat \X Nat
  PROVE  /\ Off(n, i) \in Int /\ Tilt(n, i) \in Int
         /\ Tilt(n, i) = 0 => TraceStep(n, i) = <<1, 1>>
         /\ Tilt(n, i) < 0 => TraceStep(n, i) = <<1, 0>>
         /\ Tilt(n, i) > 0 => TraceStep(n, i) = <<0, 1>>
<1> DEFINE a == i[1] * y
           b == i[2] * x
<1>1. i[1] \in Nat /\ i[2] \in Nat /\ n[1] = x /\ n[2] = y
  OBVIOUS
<1>2. a \in Int /\ b \in Int
  BY <1>1
<1>3. (1 + 2 * i[1]) * y = y + 2 * a /\ (1 + 2 * i[2]) * x = x + 2 * b
  BY <1>1
<1> HIDE DEF a, b
<1>4. Off(n, i) = a - b /\ Tilt(n, i) = y - x + 2 * (a - b)
  BY <1>1 DEF Off, Tilt, a, b
<1>5. TraceStep(n, i) = IF y + 2 * a = x + 2 * b THEN <<1, 1>>
                        ELSE IF y + 2 * a < x + 2 * b THEN <<1, 0>> ELSE <<0, 1>>
  BY <1>1, <1>3 DEF TraceStep
<1> QED BY <1>2, <1>4, <1>5

(* One step, from a place in the box near the line: it stays there.        *)
Near(n, i) == -(n[1] + n[2]) < 2 * Off(n, i) /\ 2 * Off(n, i) < n[1] + n[2]

LEMMA StepStaysNear ==
  ASSUME NEW x \in Nat, NEW y \in Nat, NEW n, n = <<x, y>>, NEW i \in Box(n), i # n, Near(n, i),
         NEW j, j = Plus(i, TraceStep(n, i))
  PROVE  /\ j \in Box(n) /\ Near(n, j) /\ j[1] + j[2] > i[1] + i[2]
         /\ TraceStep(n, Minus(n, j)) = TraceStep(n, i)
<1>1. /\ i[1] \in Nat /\ i[2] \in Nat /\ i[1] <= x /\ i[2] <= y /\ n[1] = x /\ n[2] = y
      /\ i = <<i[1], i[2]>> /\ i \in Nat \X Nat
  BY DEF Box
<1>2. i[1] # x \/ i[2] # y
  BY <1>1
<1> DEFINE p == i[1]
           q == i[2]
           a == p * y
           b == q * x
           f == a - b
<1>3. p \in Nat /\ q \in Nat /\ p <= x /\ q <= y /\ (p # x \/ q # y)
  BY <1>1, <1>2
<1>4. a \in Int /\ b \in Int /\ f \in Int
  BY <1>3
<1>5. Off(n, i) = f /\ Tilt(n, i) = y - x + 2 * f /\ -(x + y) < 2 * f /\ 2 * f < x + y
  BY <1>1 DEF Off, Tilt, Near
<1>6. /\ Tilt(n, i) \in Int
      /\ Tilt(n, i) = 0 => TraceStep(n, i) = <<1, 1>>
      /\ Tilt(n, i) < 0 => TraceStep(n, i) = <<1, 0>>
      /\ Tilt(n, i) > 0 => TraceStep(n, i) = <<0, 1>>
  BY <1>1, StepByTilt
(* At the right edge it steps up, at the top edge to the right.            *)
<1>7. p = x => f = x * (y - q) /\ y - q \in Nat \ {0}
  <2> SUFFICES ASSUME p = x PROVE f = x * (y - q) /\ y - q \in Nat \ {0}
    OBVIOUS
  <2>1. y - q \in Nat \ {0}
    BY <1>3
  <2>2. x * (y - q) = x * y - x * q /\ x * q = q * x
    BY <1>3
  <2> QED BY <2>1, <2>2
<1>8. q = y => f = -(y * (x - p)) /\ x - p \in Nat \ {0}
  <2> SUFFICES ASSUME q = y PROVE f = -(y * (x - p)) /\ x - p \in Nat \ {0}
    OBVIOUS
  <2>1. x - p \in Nat \ {0}
    BY <1>3
  <2>2. y * (x - p) = x * y - p * y
    BY <1>3
  <2>3. a = p * y /\ b = x * y
    BY <1>3
  <2>4. p * y \in Int /\ x * y \in Int
    BY <1>3
  <2>5. f = p * y - x * y
    BY <2>3
  <2> QED BY <2>1, <2>2, <2>4, <2>5
<1>9. p = x => y - x + 2 * f > 0
  <2> SUFFICES ASSUME p = x PROVE y - x + 2 * f > 0
    OBVIOUS
  <2> DEFINE r == y - q
  <2>1. r \in Nat \ {0} /\ f = x * r
    BY <1>7
  <2> HIDE DEF r, f
  <2>2. x * r >= x /\ x * r \in Nat
    <3>1. r - 1 \in Nat /\ x * r = x + x * (r - 1) /\ x * (r - 1) \in Nat
      BY <2>1
    <3> QED BY <3>1
  <2>3. y >= 1
    BY <1>3, <2>1 DEF r
  <2> QED BY <2>1, <2>2, <2>3
<1>10. q = y => y - x + 2 * f < 0
  <2> SUFFICES ASSUME q = y PROVE y - x + 2 * f < 0
    OBVIOUS
  <2> DEFINE r == x - p
  <2>1. r \in Nat \ {0} /\ f = -(y * r)
    BY <1>8
  <2> HIDE DEF r, f
  <2>2. y * r >= y /\ y * r \in Nat
    <3>1. r - 1 \in Nat /\ y * r = y + y * (r - 1) /\ y * (r - 1) \in Nat
      BY <2>1
    <3> QED BY <3>1
  <2>3. x >= 1
    BY <1>3, <2>1 DEF r
  <2> QED BY <2>1, <2>2, <2>3
(* A tie needs a way to go in both directions.                             *)
<1>11. y - x + 2 * f = 0 => x >= 1 /\ y >= 1
  <2> SUFFICES ASSUME y - x + 2 * f = 0 PROVE x >= 1 /\ y >= 1
    OBVIOUS
  <2>1. x # 0
    <3> SUFFICES ASSUME x = 0 PROVE FALSE
      OBVIOUS
    <3>1. p = x
      BY <1>3
    <3> HIDE DEF f
    <3> QED BY <1>4, <1>9, <3>1
  <2>2. y # 0
    <3> SUFFICES ASSUME y = 0 PROVE FALSE
      OBVIOUS
    <3>1. q = y
      BY <1>3
    <3> HIDE DEF f
    <3> QED BY <1>4, <1>10, <3>1
  <2> QED BY <2>1, <2>2
<1>12. CASE Tilt(n, i) = 0
  <2>1. TraceStep(n, i) = <<1, 1>> /\ j = <<p + 1, q + 1>>
    BY <1>6, <1>12 DEF Plus
  <2>2. p < x /\ q < y
    <3> HIDE DEF f
    <3> QED BY <1>3, <1>5, <1>9, <1>10, <1>12
  <2>3. j \in Box(n) /\ j[1] = p + 1 /\ j[2] = q + 1 /\ j[1] + j[2] > p + q
    BY <1>1, <1>3, <2>1, <2>2 DEF Box
  <2>4. Off(n, j) = f + y - x
    <3>1. (p + 1) * y = a + y /\ (q + 1) * x = b + x
      BY <1>3
    <3> QED BY <1>1, <1>4, <2>3, <3>1 DEF Off
  <2>5. Near(n, j)
    <3> HIDE DEF f
    <3> QED BY <1>1, <1>4, <1>5, <1>11, <1>12, <2>4 DEF Near
  <2>6. Minus(n, j) \in Nat \X Nat /\ Off(n, Minus(n, j)) = -(f + y - x)
    <3>1. Minus(n, j) = <<x - (p + 1), y - (q + 1)>>
      BY <1>1, <2>3 DEF Minus
    <3>2. x - (p + 1) \in Nat /\ y - (q + 1) \in Nat
      BY <1>3, <2>2
    <3>3. (x - (p + 1)) * y = x * y - a - y /\ (y - (q + 1)) * x = x * y - b - x
      BY <1>3
    <3> QED BY <1>1, <1>4, <3>1, <3>2, <3>3 DEF Off
  <2>7. Tilt(n, Minus(n, j)) = 0
    <3> HIDE DEF f
    <3> QED BY <1>1, <1>4, <1>5, <1>12, <2>6 DEF Tilt
  <2>8. TraceStep(n, Minus(n, j)) = <<1, 1>>
    BY <2>6, <2>7, StepByTilt
  <2> QED BY <2>1, <2>3, <2>5, <2>8
<1>13. CASE Tilt(n, i) < 0
  <2>1. TraceStep(n, i) = <<1, 0>> /\ j = <<p + 1, q>>
    BY <1>3, <1>6, <1>13 DEF Plus
  <2>2. p < x
    <3> HIDE DEF f
    <3> QED BY <1>3, <1>4, <1>5, <1>9, <1>13
  <2>3. j \in Box(n) /\ j[1] = p + 1 /\ j[2] = q /\ j[1] + j[2] > p + q
    BY <1>1, <1>3, <2>1, <2>2 DEF Box
  <2>4. Off(n, j) = f + y
    <3>1. (p + 1) * y = a + y
      BY <1>3
    <3> QED BY <1>1, <1>4, <2>3, <3>1 DEF Off
  <2>5. Near(n, j)
    <3> HIDE DEF f
    <3> QED BY <1>1, <1>4, <1>5, <1>13, <2>4 DEF Near
  <2>6. Minus(n, j) \in Nat \X Nat /\ Off(n, Minus(n, j)) = -(f + y)
    <3>1. Minus(n, j) = <<x - (p + 1), y - q>>
      BY <1>1, <2>3 DEF Minus
    <3>2. x - (p + 1) \in Nat /\ y - q \in Nat
      BY <1>3, <2>2
    <3>3. (x - (p + 1)) * y = x * y - a - y /\ (y - q) * x = x * y - b
      BY <1>3
    <3> QED BY <1>1, <1>4, <3>1, <3>2, <3>3 DEF Off
  <2>7. Tilt(n, Minus(n, j)) < 0
    <3> HIDE DEF f
    <3> QED BY <1>1, <1>4, <1>5, <2>6 DEF Tilt
  <2>8. TraceStep(n, Minus(n, j)) = <<1, 0>>
    BY <2>6, <2>7, StepByTilt
  <2> QED BY <2>1, <2>3, <2>5, <2>8
<1>14. CASE Tilt(n, i) > 0
  <2>1. TraceStep(n, i) = <<0, 1>> /\ j = <<p, q + 1>>
    BY <1>3, <1>6, <1>14 DEF Plus
  <2>2. q < y
    <3> HIDE DEF f
    <3> QED BY <1>3, <1>4, <1>5, <1>10, <1>14
  <2>3. j \in Box(n) /\ j[1] = p /\ j[2] = q + 1 /\ j[1] + j[2] > p + q
    BY <1>1, <1>3, <2>1, <2>2 DEF Box
  <2>4. Off(n, j) = f - x
    <3>1. (q + 1) * x = b + x
      BY <1>3
    <3> QED BY <1>1, <1>4, <2>3, <3>1 DEF Off
  <2>5. Near(n, j)
    <3> HIDE DEF f
    <3> QED BY <1>1, <1>4, <1>5, <1>14, <2>4 DEF Near
  <2>6. Minus(n, j) \in Nat \X Nat /\ Off(n, Minus(n, j)) = -(f - x)
    <3>1. Minus(n, j) = <<x - p, y - (q + 1)>>
      BY <1>1, <2>3 DEF Minus
    <3>2. x - p \in Nat /\ y - (q + 1) \in Nat
      BY <1>3, <2>2
    <3>3. (x - p) * y = x * y - a /\ (y - (q + 1)) * x = x * y - b - x
      BY <1>3
    <3> QED BY <1>1, <1>4, <3>1, <3>2, <3>3 DEF Off
  <2>7. Tilt(n, Minus(n, j)) > 0
    <3> HIDE DEF f
    <3> QED BY <1>1, <1>4, <1>5, <2>6 DEF Tilt
  <2>8. TraceStep(n, Minus(n, j)) = <<0, 1>>
    BY <2>6, <2>7, StepByTilt
  <2> QED BY <2>1, <2>3, <2>5, <2>8
<1> QED BY <1>6, <1>12, <1>13, <1>14

(* What the loop of line_cells has walked after some of its turns.         *)
Tracks(n) ==
  {p \in Seq(Box(n)) :
     /\ p # << >> /\ p[1] = <<0, 0>>
     /\ \A k \in 1 .. Len(p) - 1 : p[k] # n /\ p[k + 1] = Plus(p[k], TraceStep(n, p[k]))
     /\ n # <<0, 0>> => \A k \in 1 .. Len(p) : Near(n, p[k])}

Last(p) == p[Len(p)]
Onward(n, p) == IF Last(p) = n THEN p ELSE Append(p, Plus(Last(p), TraceStep(n, Last(p))))

LEMMA TrackEnds ==
  ASSUME NEW n, NEW p \in Tracks(n)
  PROVE  p \in Seq(Box(n)) /\ Len(p) \in Nat \ {0} /\ Last(p) \in Box(n)
<1> DEFINE B == Box(n)
<1>1. p \in Seq(B) /\ p # << >>
  BY DEF Tracks
<1> HIDE DEF B
<1>2. Len(p) \in Nat \ {0} /\ p[Len(p)] \in B
  BY <1>1
<1> QED BY <1>1, <1>2 DEF B, Last

LEMMA OnwardKeepsTrack ==
  ASSUME NEW x \in Nat, NEW y \in Nat, NEW n, n = <<x, y>>, NEW p \in Tracks(n),
         NEW q, q = Onward(n, p)
  PROVE  q \in Tracks(n) /\ (Last(q) = n \/ Last(q)[1] + Last(q)[2] > Last(p)[1] + Last(p)[2])
<1>1. CASE Last(p) = n
  BY <1>1 DEF Onward
<1>2. CASE Last(p) # n
  <2> DEFINE l == Len(p)
             i == p[l]
             j == Plus(i, TraceStep(n, i))
  <2>1. p \in Seq(Box(n)) /\ p # << >> /\ p[1] = <<0, 0>>
    BY DEF Tracks
  <2>2. l \in Nat \ {0} /\ i \in Box(n) /\ i # n /\ 1 \in 1 .. l /\ l \in 1 .. l
    BY <1>2, <2>1 DEF Last
  <2>3. n # <<0, 0>>
    BY <2>2 DEF Box
  <2>4. Near(n, i)
    BY <2>2, <2>3 DEF Tracks
  <2> HIDE DEF i, j, l
  <2>5. j \in Box(n) /\ Near(n, j) /\ j[1] + j[2] > i[1] + i[2]
    BY <2>2, <2>4, StepStaysNear DEF j
  <2>6. q = Append(p, j)
    BY <1>2 DEF Onward, Last, i, j, l
  <2>7. /\ q \in Seq(Box(n)) /\ Len(q) = l + 1 /\ q[l + 1] = j
        /\ \A k \in 1 .. l : q[k] = p[k]
    <3> DEFINE B == Box(n)
    <3> HIDE DEF B
    <3>1. p \in Seq(B) /\ j \in B
      BY <2>1, <2>5 DEF B
    <3>2. /\ Append(p, j) \in Seq(B) /\ Len(Append(p, j)) = Len(p) + 1
          /\ Append(p, j)[Len(p) + 1] = j
          /\ \A k \in 1 .. Len(p) : Append(p, j)[k] = p[k]
      BY <3>1, AppendProperties
    <3> QED BY <2>6, <3>2 DEF l, B
  <2>8. q # << >> /\ q[1] = <<0, 0>>
    <3>1. Len(q) # 0
      BY <2>2, <2>7
    <3>2. q[1] = p[1]
      BY <2>2, <2>7
    <3> QED BY <2>1, <3>1, <3>2
  <2>9. ASSUME NEW k \in 1 .. Len(q) - 1
        PROVE  q[k] # n /\ q[k + 1] = Plus(q[k], TraceStep(n, q[k]))
    <3>1. CASE k = l
      <4>1. q[k] = i /\ q[k + 1] = j
        BY <2>2, <2>7, <3>1 DEF i
      <4> QED BY <2>2, <4>1 DEF j
    <3>2. CASE k # l
      <4>1. k \in 1 .. l - 1 /\ k \in 1 .. l /\ k + 1 \in 1 .. l
        BY <2>2, <2>7, <3>2
      <4>2. p[k] # n /\ p[k + 1] = Plus(p[k], TraceStep(n, p[k]))
        BY <4>1 DEF Tracks, l
      <4> QED BY <2>7, <4>1, <4>2
    <3> QED BY <3>1, <3>2
  <2>10. ASSUME NEW k \in 1 .. Len(q) PROVE Near(n, q[k])
    <3>1. CASE k = l + 1
      BY <2>5, <2>7, <3>1
    <3>2. CASE k # l + 1
      <4>1. k \in 1 .. l
        BY <2>2, <2>7, <3>2
      <4> QED BY <2>3, <2>7, <4>1 DEF Tracks, l
    <3> QED BY <3>1, <3>2
  <2>11. q \in Tracks(n)
    BY <2>7, <2>8, <2>9, <2>10 DEF Tracks
  <2>12. Last(q) = j /\ Last(p) = i
    BY <2>7 DEF Last, i, l
  <2> QED BY <2>5, <2>11, <2>12
<1> QED BY <1>1, <1>2

(* After as many turns as there are steps to take, the loop has ended.     *)
LEMMA TraceIsTrack ==
  ASSUME NEW x \in Nat, NEW y \in Nat, NEW n, n = <<x, y>>
  PROVE  Trace(n) \in Tracks(n) /\ Last(Trace(n)) = n
<1> DEFINE m == n[1] + n[2]
           first == << <<0, 0>> >>
           step == [p \in Tracks(n) |-> Onward(n, p)]
           IsSteps(F) == F = [k \in 0 .. m |->
                                IF k = 0 THEN << <<0, 0>> >>
                                ELSE LET done == F[k - 1]
                                         i    == done[Len(done)]
                                     IN  IF i = n THEN done ELSE Append(done, Plus(i, TraceStep(n, i)))]
           steps == CHOOSE F : IsSteps(F)
<1>1. m \in Nat /\ n[1] = x /\ n[2] = y /\ m = x + y
  OBVIOUS
<1>2. first \in Tracks(n)
  <2>1. <<0, 0>> \in Box(n)
    BY <1>1 DEF Box
  <2>2. first \in Seq(Box(n)) /\ Len(first) = 1 /\ first[1] = <<0, 0>> /\ first # << >>
    BY <2>1
  <2>3. n # <<0, 0>> => Near(n, <<0, 0>>)
    <3> SUFFICES ASSUME n # <<0, 0>> PROVE Near(n, <<0, 0>>)
      OBVIOUS
    <3>1. x + y > 0
      OBVIOUS
    <3>2. Off(n, <<0, 0>>) = 0
      BY <1>1 DEF Off
    <3> QED BY <1>1, <3>1, <3>2 DEF Near
  <2> HIDE DEF first
  <2>4. \A k : k \notin 1 .. Len(first) - 1
    BY <2>2
  <2>5. \A k \in 1 .. Len(first) : k = 1
    BY <2>2
  <2> QED BY <2>2, <2>3, <2>4, <2>5 DEF Tracks
<1>3. \A p \in Tracks(n) : Onward(n, p) \in Tracks(n)
  BY OnwardKeepsTrack
<1>4. step \in [Tracks(n) -> Tracks(n)]
  BY <1>3
<1> HIDE DEF m
<1>5. \E F : IsSteps(F)
  <2> HIDE DEF step, first, IsSteps
  <2>1. PICK F : Iterates(F, Tracks(n), first, step, m)
    BY <1>1, <1>2, <1>4, IterationExists
  <2>2. ASSUME NEW k \in 0 .. m
        PROVE  F[k] = IF k = 0 THEN << <<0, 0>> >> ELSE Onward(n, F[k - 1])
    <3>1. k # 0 => F[k - 1] \in Tracks(n)
      <4>1. k # 0 => k - 1 \in 0 .. m
        BY <1>1
      <4>2. F \in [0 .. m -> Tracks(n)]
        BY <2>1 DEF Iterates
      <4> QED BY <4>1, <4>2
    <3> QED BY <2>1, <3>1 DEF step, first, Iterates
  <2>3. F = [k \in 0 .. m |-> F[k]]
    BY <2>1 DEF Iterates
  <2>4. IsSteps(F)
    BY <2>2, <2>3 DEF IsSteps, Onward, Last
  <2> QED BY <2>4
<1>6. IsSteps(steps)
  <2> HIDE DEF IsSteps
  <2> QED BY <1>5
<1>7. \A k \in 0 .. m : steps[k] = IF k = 0 THEN first ELSE Onward(n, steps[k - 1])
  <2> HIDE DEF steps
  <2> QED BY <1>6 DEF Onward, Last
<1>8. Trace(n) = steps[m]
  BY DEF Trace, m
<1> HIDE DEF steps, IsSteps, first
<1> DEFINE Good(k) == /\ steps[k] \in Tracks(n)
                      /\ Last(steps[k]) = n \/ Last(steps[k])[1] + Last(steps[k])[2] >= k
           bad == {k \in Nat : k \in 0 .. m /\ ~Good(k)}
<1>9. bad = {}
  <2> SUFFICES ASSUME bad # {} PROVE FALSE
    OBVIOUS
  <2>1. PICK k \in bad : \A j \in bad : k <= j
    BY LeastOf
  <2>2. k \in Nat /\ k \in 0 .. m /\ ~Good(k)
    OBVIOUS
  <2>3. CASE k = 0
    <3>1. steps[0] = first
      BY <1>7, <2>2, <2>3
    <3>2. Last(first)[1] + Last(first)[2] = 0
      BY DEF Last, first
    <3> QED BY <1>2, <2>2, <2>3, <3>1, <3>2
  <2>4. CASE k # 0
    <3> DEFINE h == k - 1
    <3>1. h \in Nat /\ h \in 0 .. m /\ ~(k <= h) /\ k = h + 1
      BY <1>1, <2>2, <2>4
    <3> HIDE DEF h, Good
    <3>2. Good(h)
      BY <2>1, <3>1
    <3>3. steps[h] \in Tracks(n)
      BY <3>2 DEF Good
    <3>4. steps[k] = Onward(n, steps[h])
      BY <1>7, <2>2, <2>4 DEF h
    <3> DEFINE a == Last(steps[h])
               b == Last(steps[k])
    <3>5. /\ steps[k] \in Tracks(n)
          /\ b = n \/ b[1] + b[2] > a[1] + a[2]
      BY <3>3, <3>4, OnwardKeepsTrack
    <3>6. a = n => b = n
      BY <3>4 DEF Onward
    <3>7. a \in Box(n) /\ b \in Box(n)
      BY <3>3, <3>5, TrackEnds
    <3>8. a[1] \in Nat /\ a[2] \in Nat /\ b[1] \in Nat /\ b[2] \in Nat
      BY <1>1, <3>7 DEF Box
    <3>9. a = n \/ a[1] + a[2] >= h
      BY <3>2 DEF Good
    <3> HIDE DEF a, b
    <3>10. b = n \/ b[1] + b[2] >= k
      BY <3>1, <3>5, <3>6, <3>8, <3>9
    <3>11. Good(k)
      BY <3>5, <3>10 DEF Good, b
    <3> QED BY <2>2, <3>11
  <2> QED BY <2>3, <2>4
<1>10. Good(m)
  <2> HIDE DEF Good
  <2> QED BY <1>1, <1>9
<1>11. Last(steps[m]) = n
  <2> DEFINE a == Last(steps[m])
  <2>1. a \in Box(n)
    BY <1>10 DEF Tracks, Last
  <2>2. /\ a[1] \in Nat /\ a[2] \in Nat /\ a[1] <= x /\ a[2] <= y /\ a = <<a[1], a[2]>>
    BY <1>1, <2>1 DEF Box
  <2>3. a = n \/ a[1] + a[2] >= m
    BY <1>10
  <2> HIDE DEF a
  <2>4. a = n \/ (a[1] = x /\ a[2] = y)
    BY <1>1, <2>2, <2>3
  <2> QED BY <2>2, <2>4 DEF a
<1> QED BY <1>8, <1>10, <1>11

(* Turned round, the trace is the same trace: its ties are between equals. *)
Symmetric(n, p, l) ==
  /\ l \in Nat \ {0} /\ p[1] = <<0, 0>>
  /\ \A k \in 1 .. l : p[k] \in Box(n) /\ p[k] = Minus(n, p[l + 1 - k]) /\ (p[k] = n <=> k = l)

LEMMA TraceIsSymmetric ==
  ASSUME NEW x \in Nat, NEW y \in Nat, NEW n, n = <<x, y>>, NEW p, p = Trace(n), NEW l, l = Len(p)
  PROVE  Symmetric(n, p, l)
<1>1. p \in Tracks(n) /\ p[l] = n
  BY TraceIsTrack DEF Last
<1>2. p \in Seq(Box(n)) /\ l \in Nat \ {0}
  BY <1>1, TrackEnds
<1>3. \A k \in 1 .. l : p[k] \in Box(n)
  <2> DEFINE B == Box(n)
  <2> HIDE DEF B
  <2>1. p \in Seq(B)
    BY <1>2 DEF B
  <2> QED BY <2>1 DEF B
<1>4. p[1] = <<0, 0>> /\ \A k \in 1 .. l - 1 : p[k] # n /\ p[k + 1] = Plus(p[k], TraceStep(n, p[k]))
  BY <1>1 DEF Tracks
<1>5. n[1] = x /\ n[2] = y
  OBVIOUS
<1> DEFINE Mirrored(k) == p[k] = Minus(n, p[l + 1 - k])
           bad == {k \in Nat : k \in 1 .. l /\ ~Mirrored(k)}
<1>6. bad = {}
  <2> SUFFICES ASSUME bad # {} PROVE FALSE
    OBVIOUS
  <2>1. PICK m \in bad : \A k \in bad : m <= k
    BY LeastOf
  <2>2. m \in 1 .. l /\ ~Mirrored(m)
    OBVIOUS
  <2>3. m # 1
    <3>1. Minus(n, n) = <<0, 0>>
      BY <1>5 DEF Minus
    <3>2. l + 1 - 1 = l
      BY <1>2
    <3>3. Mirrored(1)
      BY <1>1, <1>4, <3>1, <3>2
    <3> QED BY <2>2, <3>3
  <2> DEFINE k == m - 1
             j == l - k
             i == p[j]
             s == TraceStep(n, i)
  <2>4. k \in Nat /\ k \in 1 .. l - 1 /\ k \in 1 .. l /\ ~(m <= k) /\ m = k + 1
    BY <1>2, <2>2, <2>3
  <2>5. j \in 1 .. l - 1 /\ j \in 1 .. l /\ l + 1 - k = j + 1 /\ l + 1 - m = j
    BY <1>2, <2>2, <2>3
  <2> HIDE DEF k, j
  <2>6. p[k] = Minus(n, p[j + 1])
    <3> HIDE DEF Mirrored
    <3>1. Mirrored(k)
      BY <2>1, <2>4
    <3> QED BY <2>5, <3>1 DEF Mirrored
  <2>7. i \in Box(n) /\ i # n /\ p[j + 1] = Plus(i, s)
    BY <1>3, <1>4, <2>5
  <2>8. n # <<0, 0>>
    BY <2>7 DEF Box
  <2>9. Near(n, i)
    BY <1>1, <2>5, <2>8 DEF Tracks
  <2> HIDE DEF i
  <2>10. TraceStep(n, p[k]) = s
    BY <2>6, <2>7, <2>9, StepStaysNear
  <2>11. p[m] = Plus(Minus(n, Plus(i, s)), s)
    BY <1>4, <2>4, <2>6, <2>7, <2>10
  <2>12. s \in {<<1, 1>>, <<1, 0>>, <<0, 1>>}
    BY DEF TraceStep
  <2>13. i[1] \in Int /\ i[2] \in Int
    BY <2>7 DEF Box
  <2> HIDE DEF s
  <2>14. s[1] \in Int /\ s[2] \in Int
    BY <2>12
  <2>15. Plus(Minus(n, Plus(i, s)), s) = Minus(n, i)
    <3>1. Plus(i, s) = <<i[1] + s[1], i[2] + s[2]>>
      BY DEF Plus
    <3>2. Minus(n, Plus(i, s)) = <<x - (i[1] + s[1]), y - (i[2] + s[2])>>
      BY <1>5, <3>1 DEF Minus
    <3>3. Plus(Minus(n, Plus(i, s)), s)
            = <<x - (i[1] + s[1]) + s[1], y - (i[2] + s[2]) + s[2]>>
      BY <3>2 DEF Plus
    <3>4. Minus(n, i) = <<x - i[1], y - i[2]>>
      BY <1>5 DEF Minus
    <3>5. \A a, b, e \in Int : a - (b + e) + e = a - b
      OBVIOUS
    <3>6. x - (i[1] + s[1]) + s[1] = x - i[1] /\ y - (i[2] + s[2]) + s[2] = y - i[2]
      <4>1. x \in Int /\ y \in Int
        OBVIOUS
      <4> QED BY ONLY <2>13, <2>14, <3>5, <4>1
    <3> QED BY <3>3, <3>4, <3>6
  <2>16. Mirrored(m)
    BY <2>5, <2>11, <2>15 DEF i
  <2> QED BY <2>2, <2>16
<1>7. \A k \in 1 .. l : p[k] = Minus(n, p[l + 1 - k])
  <2>1. \A k \in 1 .. l : k \in Nat
    BY <1>2
  <2> HIDE DEF Mirrored
  <2>2. \A k \in 1 .. l : Mirrored(k)
    BY <1>6, <2>1
  <2> QED BY <2>2 DEF Mirrored
<1>8. \A k \in 1 .. l : p[k] = n <=> k = l
  <2>1. \A k \in 1 .. l : k = l \/ k \in 1 .. l - 1
    BY <1>2
  <2> QED BY <1>1, <1>4, <2>1
<1> QED BY <1>2, <1>3, <1>4, <1>7, <1>8 DEF Symmetric

(* One coordinate, u steps on the way from a to b.                         *)
Toward(a, b, u) == a + Sign(b - a) * u

Underway(a, b, u) ==
  /\ Toward(b, a, u) = Toward(a, b, Abs(b - a) - u)
  /\ \/ a <= Toward(a, b, u) /\ Toward(a, b, u) <= b
     \/ b <= Toward(a, b, u) /\ Toward(a, b, u) <= a
  /\ Toward(a, b, u) \in Int
  /\ Toward(a, b, u) = b <=> u = Abs(b - a)
  /\ Toward(a, b, u) = a <=> u = 0

LEMMA OnTheWay ==
  ASSUME NEW a \in Int, NEW b \in Int, NEW u \in 0 .. Abs(b - a)
  PROVE  Underway(a, b, u)
<1>1. CASE a < b
  <2>1. Abs(b - a) = b - a /\ Abs(a - b) = b - a /\ Sign(b - a) = 1 /\ Sign(a - b) = -1
    BY <1>1 DEF Abs, Sign
  <2>2. u \in Int /\ 0 <= u /\ u <= b - a /\ 1 * u = u /\ (-1) * u = -u /\ 1 * (b - a - u) = b - a - u
    BY <2>1
  <2> QED BY <2>1, <2>2 DEF Underway, Toward
<1>2. CASE a = b
  <2>1. Abs(b - a) = 0 /\ Abs(a - b) = 0 /\ Sign(b - a) = 0 /\ Sign(a - b) = 0 /\ u = 0
    BY <1>2 DEF Abs, Sign
  <2> QED BY <1>2, <2>1 DEF Underway, Toward
<1>3. CASE a > b
  <2>1. Abs(b - a) = a - b /\ Abs(a - b) = a - b /\ Sign(b - a) = -1 /\ Sign(a - b) = 1
    BY <1>3 DEF Abs, Sign
  <2>2. u \in Int /\ 0 <= u /\ u <= a - b /\ 1 * u = u /\ (-1) * u = -u
        /\ (-1) * (a - b - u) = -(a - b - u)
    BY <2>1
  <2> QED BY <2>1, <2>2 DEF Underway, Toward
<1> QED BY <1>1, <1>2, <1>3

(* line_cells from d to c is line_cells from c to d, backwards; it stays on*)
(* the map, so the check the code makes for that (geometry.py, lines 132   *)
(* and 133) never fails, and it meets each end once.                       *)
LEMMA LineReverses ==
  ASSUME NEW c \in Cells, NEW d \in Cells, NEW l, l = Len(Line(c, d))
  PROVE  /\ l \in Nat \ {0} /\ Len(Line(d, c)) = l
         /\ \A k \in 1 .. l : Line(c, d)[k] \in Cells /\ Line(d, c)[k] = Line(c, d)[l + 1 - k]
         /\ \A k \in 1 .. l : (Line(c, d)[k] = d <=> k = l) /\ (Line(c, d)[k] = c <=> k = 1)
<1> DEFINE x == Abs(d[1] - c[1])
           y == Abs(d[2] - c[2])
           n == <<x, y>>
           p == Trace(n)
           m == Len(p)
<1>1. /\ c[1] \in 0 .. Width - 1 /\ d[1] \in 0 .. Width - 1
      /\ c[2] \in 0 .. Height - 1 /\ d[2] \in 0 .. Height - 1
      /\ c = <<c[1], c[2]>> /\ d = <<d[1], d[2]>>
      /\ Width \in Int /\ Height \in Int
  BY GridAssumption DEF Cells
<1>2. x \in Nat /\ y \in Nat /\ x = Abs(c[1] - d[1]) /\ y = Abs(c[2] - d[2])
  <2>1. c[1] \in Int /\ d[1] \in Int /\ c[2] \in Int /\ d[2] \in Int
    BY <1>1
  <2>2. x \in Nat /\ x = Abs(c[1] - d[1])
    BY <2>1 DEF Abs
  <2>3. y \in Nat /\ y = Abs(c[2] - d[2])
    BY <2>1 DEF Abs
  <2> QED BY <2>2, <2>3
<1>3. /\ Line(c, d) = [k \in 1 .. m |-> <<Toward(c[1], d[1], p[k][1]), Toward(c[2], d[2], p[k][2])>>]
      /\ Line(d, c) = [k \in 1 .. m |-> <<Toward(d[1], c[1], p[k][1]), Toward(d[2], c[2], p[k][2])>>]
  BY <1>2 DEF Line, Toward
<1> HIDE DEF x, y, p
<1>4. /\ m \in Nat \ {0} /\ p[1] = <<0, 0>>
      /\ \A k \in 1 .. m : p[k] \in Box(n) /\ p[k] = Minus(n, p[m + 1 - k]) /\ (p[k] = n <=> k = m)
  <2> DEFINE nn == <<x, y>>
  <2>1. nn = <<x, y>> /\ x \in Nat /\ y \in Nat /\ p = Trace(nn) /\ m = Len(p)
    BY <1>2 DEF p
  <2> HIDE DEF m, nn
  <2>2. Symmetric(nn, p, m)
    BY <2>1, TraceIsSymmetric
  <2> QED BY <2>2 DEF nn, Symmetric
<1> HIDE DEF m
<1>5. Len(Line(c, d)) = m /\ Len(Line(d, c)) = m
  BY <1>3, <1>4
<1>6. ASSUME NEW k \in 1 .. m
      PROVE  /\ Line(c, d)[k] \in Cells /\ Line(d, c)[k] = Line(c, d)[m + 1 - k]
             /\ (Line(c, d)[k] = d <=> k = m) /\ (Line(c, d)[k] = c <=> k = 1)
  <2> DEFINE u == p[k][1]
             v == p[k][2]
             h == m + 1 - k
  <2>1. p[k] = <<u, v>> /\ u \in 0 .. x /\ v \in 0 .. y
    BY <1>4 DEF Box
  <2>2. h \in 1 .. m /\ m + 1 - h = k /\ (h = m <=> k = 1)
    BY <1>4
  <2>3. p[h] = <<x - u, y - v>>
    <3> HIDE DEF h
    <3>1. p[h] = Minus(n, p[k])
      BY <1>4, <2>2
    <3> QED BY <3>1 DEF Minus
  <2>4. /\ Line(c, d)[k] = <<Toward(c[1], d[1], u), Toward(c[2], d[2], v)>>
        /\ Line(d, c)[k] = <<Toward(d[1], c[1], u), Toward(d[2], c[2], v)>>
    BY <1>3
  <2>5. Line(c, d)[h] = <<Toward(c[1], d[1], x - u), Toward(c[2], d[2], y - v)>>
    <3> HIDE DEF h
    <3> QED BY <1>3, <2>2, <2>3
  <2> HIDE DEF u, v, h
  <2>6. /\ Toward(d[1], c[1], u) = Toward(c[1], d[1], x - u)
        /\ Toward(c[1], d[1], u) \in 0 .. Width - 1
        /\ Toward(c[1], d[1], u) = d[1] <=> u = x
        /\ Toward(c[1], d[1], u) = c[1] <=> u = 0
    <3>1. c[1] \in Int /\ d[1] \in Int /\ u \in 0 .. Abs(d[1] - c[1])
      BY <1>1, <2>1 DEF x
    <3>2. /\ Toward(d[1], c[1], u) = Toward(c[1], d[1], x - u)
          /\ \/ c[1] <= Toward(c[1], d[1], u) /\ Toward(c[1], d[1], u) <= d[1]
             \/ d[1] <= Toward(c[1], d[1], u) /\ Toward(c[1], d[1], u) <= c[1]
          /\ Toward(c[1], d[1], u) \in Int
          /\ Toward(c[1], d[1], u) = d[1] <=> u = x
          /\ Toward(c[1], d[1], u) = c[1] <=> u = 0
      <4>1. Underway(c[1], d[1], u)
        BY <3>1, OnTheWay
      <4> QED BY <4>1 DEF Underway, x
    <3> QED BY <1>1, <3>2
  <2>7. /\ Toward(d[2], c[2], v) = Toward(c[2], d[2], y - v)
        /\ Toward(c[2], d[2], v) \in 0 .. Height - 1
        /\ Toward(c[2], d[2], v) = d[2] <=> v = y
        /\ Toward(c[2], d[2], v) = c[2] <=> v = 0
    <3>1. c[2] \in Int /\ d[2] \in Int /\ v \in 0 .. Abs(d[2] - c[2])
      BY <1>1, <2>1 DEF y
    <3>2. /\ Toward(d[2], c[2], v) = Toward(c[2], d[2], y - v)
          /\ \/ c[2] <= Toward(c[2], d[2], v) /\ Toward(c[2], d[2], v) <= d[2]
             \/ d[2] <= Toward(c[2], d[2], v) /\ Toward(c[2], d[2], v) <= c[2]
          /\ Toward(c[2], d[2], v) \in Int
          /\ Toward(c[2], d[2], v) = d[2] <=> v = y
          /\ Toward(c[2], d[2], v) = c[2] <=> v = 0
      <4>1. Underway(c[2], d[2], v)
        BY <3>1, OnTheWay
      <4> QED BY <4>1 DEF Underway, y
    <3> QED BY <1>1, <3>2
  <2>8. (u = x /\ v = y <=> k = m) /\ (u = 0 /\ v = 0 <=> k = 1)
    <3>1. u = x /\ v = y <=> k = m
      BY <1>4, <2>1
    <3>2. u = 0 /\ v = 0 <=> p[h] = n
      BY <1>2, <2>1, <2>3
    <3>3. p[h] = n <=> h = m
      BY <1>4, <2>2
    <3> QED BY <2>2, <3>1, <3>2, <3>3
  <2>9. Line(c, d)[k] \in Cells
    BY <2>4, <2>6, <2>7 DEF Cells
  <2>10. Line(d, c)[k] = Line(c, d)[h]
    BY <2>4, <2>5, <2>6, <2>7
  <2>11. (Line(c, d)[k] = d <=> k = m) /\ (Line(c, d)[k] = c <=> k = 1)
    BY <1>1, <2>4, <2>6, <2>7, <2>8
  <2> QED BY <2>9, <2>10, <2>11 DEF h
<1> QED BY <1>4, <1>5, <1>6

-----------------------------------------------------------------------------
(* Sight and cover                                                         *)
LEMMA EyeHeightIsNat ==
  ASSUME NEW p \in Placement
  PROVE  EyeHeight(p) \in Nat
<1> DEFINE t == 3 * p.tall
<1>1. t \in Nat
  BY DEF Placement
<1> HIDE DEF t
<1>2. \E m \in {4, t} : \A k \in {4, t} : m >= k
  BY <1>1
<1>3. Max({4, t}) \in {4, t}
  BY <1>2 DEF Max
<1>4. Max({4, t}) \in Nat
  BY <1>1, <1>3
<1> QED BY <1>4 DEF EyeHeight, t

(* The ray is as high over a cell from the one end as from the other.      *)
LEMMA CellSightTurns ==
  ASSUME NEW g \in Map, NEW c \in Cells, NEW d \in Cells, NEW eye \in Nat, NEW mark \in Nat,
         NEW ignored, CellSees(g, c, d, eye, mark, ignored)
  PROVE  CellSees(g, d, c, mark, eye, ignored)
<1> DEFINE there == Line(c, d)
           back == Line(d, c)
           l == Len(there)
           n == l - 1
           from == 4 * g.land[c].height + eye
           to == 4 * g.land[d].height + mark
<1>1. /\ l \in Nat \ {0} /\ Len(back) = l
      /\ \A k \in 1 .. l : back[k] = there[l + 1 - k]
  BY LineReverses
<1>2. from \in Int /\ to \in Int
  <2>1. g.land \in [Cells -> Terrain]
    BY DEF Map
  <2>2. g.land[c].height \in Nat /\ g.land[d].height \in Nat
    BY <2>1 DEF Terrain
  <2> QED BY <2>2
<1>3. \A i \in 1 .. n - 1 : ~Blocks(g, there[i + 1], RayHeight(from, to, i, n), n, ignored)
  BY DEF CellSees
<1> HIDE DEF l, there, back, from, to
<1>4. ASSUME NEW i \in 1 .. n - 1
      PROVE  ~Blocks(g, back[i + 1], RayHeight(to, from, i, n), n, ignored)
  <2> DEFINE j == n - i
  <2>1. j \in 1 .. n - 1 /\ i + 1 \in 1 .. l /\ l + 1 - (i + 1) = j + 1 /\ n - j = i
    BY <1>1
  <2>2. i \in Int /\ j \in Int
    BY <1>1
  <2> HIDE DEF j, n
  <2>3. back[i + 1] = there[j + 1]
    BY <1>1, <2>1
  <2>4. RayHeight(to, from, i, n) = RayHeight(from, to, j, n)
    <3>1. RayHeight(to, from, i, n) = to * j + from * i
      BY DEF RayHeight, j
    <3>2. RayHeight(from, to, j, n) = from * i + to * j
      BY <2>1 DEF RayHeight
    <3>3. to * j \in Int /\ from * i \in Int
      BY <1>2, <2>2
    <3> QED BY <3>1, <3>2, <3>3
  <2> QED BY <1>3, <2>1, <2>3, <2>4
<1>5. Len(back) - 1 = n
  BY <1>1
<1> HIDE DEF n
<1> QED BY <1>4, <1>5 DEF CellSees, back, from, to

Sighted(g, e, o, c, d) ==
  /\ c \in Occupied(g, e) /\ d \in Occupied(g, o)
  /\ CellSees(g, c, d, EyeHeight(g.at[e]), EyeHeight(g.at[o]), {e, o})

LEMMA RaysAreSighted ==
  ASSUME NEW g, NEW e, NEW o, NEW c, NEW d
  PROVE  <<c, d>> \in Rays(g, e, o) <=> Sighted(g, e, o, c, d)
BY DEF Rays, Sighted

LEMMA SightTurns ==
  ASSUME NEW g \in Map, WellPlaced(g), NEW e \in Entities, NEW o \in Entities, NEW c, NEW d,
         Sighted(g, e, o, c, d)
  PROVE  Sighted(g, o, e, d, c)
<1>1. g.at[e] \in Placement /\ g.at[o] \in Placement
  BY PlacedInCells
<1>2. c \in Cells /\ d \in Cells
  BY PlacedInCells DEF Sighted
<1>3. EyeHeight(g.at[e]) \in Nat /\ EyeHeight(g.at[o]) \in Nat
  BY <1>1, EyeHeightIsNat
<1>4. CellSees(g, c, d, EyeHeight(g.at[e]), EyeHeight(g.at[o]), {e, o})
  BY DEF Sighted
<1>5. CellSees(g, d, c, EyeHeight(g.at[o]), EyeHeight(g.at[e]), {e, o})
  BY <1>2, <1>3, <1>4, CellSightTurns
<1>6. {o, e} = {e, o}
  OBVIOUS
<1> QED BY <1>5, <1>6 DEF Sighted

LEMMA SeeingTurns ==
  ASSUME NEW g \in Map, WellPlaced(g), NEW e \in Entities, NEW o \in Entities, Sees(g, e, o)
  PROVE  Sees(g, o, e)
<1>1. PICK c \in Occupied(g, e), d \in Occupied(g, o) : <<c, d>> \in Rays(g, e, o)
  <2>1. PICK r \in Rays(g, e, o) : TRUE
    BY DEF Sees
  <2>2. r \in Occupied(g, e) \X Occupied(g, o)
    BY DEF Rays
  <2>3. r = <<r[1], r[2]>> /\ r[1] \in Occupied(g, e) /\ r[2] \in Occupied(g, o)
    BY <2>2
  <2> QED BY <2>1, <2>3
<1>2. Sighted(g, o, e, d, c)
  BY <1>1, RaysAreSighted, SightTurns
<1>3. <<d, c>> \in Rays(g, o, e)
  BY <1>2, RaysAreSighted
<1> QED BY <1>3 DEF Sees

(* What counts for cover between two creatures of one cell: the cells      *)
(* between them, which neither of them stands on.                          *)
Between(c, d) == {Line(c, d)[i] : i \in 2 .. Len(Line(c, d)) - 1}

LEMMA BetweenTurns ==
  ASSUME NEW c \in Cells, NEW d \in Cells
  PROVE  /\ Between(c, d) \ {d} = Between(c, d)
         /\ Between(d, c) \ {c} = Between(c, d)
<1> DEFINE there == Line(c, d)
           back == Line(d, c)
           l == Len(there)
<1>1. /\ l \in Nat \ {0} /\ Len(back) = l
      /\ \A k \in 1 .. l : back[k] = there[l + 1 - k]
      /\ \A k \in 1 .. l : (there[k] = d <=> k = l) /\ (there[k] = c <=> k = 1)
  BY LineReverses
<1>2. Between(c, d) = {there[i] : i \in 2 .. l - 1} /\ Between(d, c) = {back[i] : i \in 2 .. l - 1}
  BY <1>1 DEF Between
<1> HIDE DEF there, back, l
<1>3. \A i \in 2 .. l - 1 : /\ i \in 1 .. l /\ i # 1 /\ i # l
                            /\ l + 1 - i \in 2 .. l - 1 /\ l + 1 - (l + 1 - i) = i
  BY <1>1
<1>4. \A i \in 2 .. l - 1 : there[i] # c /\ there[i] # d
  BY <1>1, <1>3
<1> DEFINE A == {back[i] : i \in 2 .. l - 1}
           B == {there[i] : i \in 2 .. l - 1}
<1>5. A = B
  <2>1. ASSUME NEW z \in A PROVE z \in B
    <3>1. PICK i \in 2 .. l - 1 : z = back[i]
      OBVIOUS
    <3>2. z = there[l + 1 - i] /\ l + 1 - i \in 2 .. l - 1
      BY <1>1, <1>3, <3>1
    <3> QED BY <3>2
  <2>2. ASSUME NEW z \in B PROVE z \in A
    <3>1. PICK i \in 2 .. l - 1 : z = there[i]
      OBVIOUS
    <3> DEFINE j == l + 1 - i
    <3>2. j \in 2 .. l - 1 /\ j \in 1 .. l /\ l + 1 - j = i
      BY <1>3
    <3> HIDE DEF j
    <3>3. back[j] = there[i]
      BY <1>1, <3>2
    <3> QED BY <3>1, <3>2, <3>3
  <2> QED BY <2>1, <2>2
<1> QED BY <1>2, <1>4, <1>5

LEMMA OneCell ==
  ASSUME NEW g \in Map, NEW e \in Entities, Cardinality(g.at[e].shape) = 1
  PROVE  Occupied(g, e) = {g.at[e].anchor} /\ g.at[e].anchor \in Cells
<1>1. g.at[e] \in Placement
  BY DEF Map
<1>2. IsFiniteSet(g.at[e].shape) /\ <<0, 0>> \in g.at[e].shape
  BY <1>1, FootprintIsFinite
<1>3. g.at[e].shape = {<<0, 0>>}
  BY <1>2, FS_Singleton
<1> DEFINE a == g.at[e].anchor
<1>4. a \in Cells
  BY <1>1 DEF Placement
<1>5. Plus(a, <<0, 0>>) = a
  BY <1>4 DEF Plus, Cells
<1>6. Occupied(g, e) = {Plus(a, <<0, 0>>)}
  BY <1>3 DEF Occupied, Covers
<1> QED BY <1>4, <1>5, <1>6

(* The cover anything between two cells gives.                             *)
CoverAlong(g, e, o, cells) ==
  Max({0} \cup {g.land[c].cover : c \in cells}
          \cup {g.at[x].cover : x \in UNION {Occupants(g, c) \ {e, o} : c \in cells}})

LEMMA CoverOfOneCell ==
  ASSUME NEW g \in Map, NEW e \in Entities, NEW o \in Entities,
         Cardinality(g.at[e].shape) = 1, Cardinality(g.at[o].shape) = 1,
         NEW a, a = g.at[e].anchor, NEW b, b = g.at[o].anchor
  PROVE  Cover(g, e, o) = IF Sees(g, e, o) THEN CoverAlong(g, e, o, Between(a, b) \ {b}) ELSE 3
<1>1. Occupied(g, e) = {a} /\ Occupied(g, o) = {b} /\ a \in Cells /\ b \in Cells
  BY OneCell
<1>2. CASE ~Sees(g, e, o)
  BY <1>2 DEF Cover
<1>3. CASE Sees(g, e, o)
  <2> DEFINE r == <<a, b>>
  <2>1. Rays(g, e, o) = {r}
    <3>1. Rays(g, e, o) \subseteq {a} \X {b} /\ Rays(g, e, o) # {}
      BY <1>1, <1>3 DEF Rays, Sees
    <3>2. \A z \in {a} \X {b} : z = r
      OBVIOUS
    <3> QED BY <3>1, <3>2
  <2>2. r[1] = a /\ r[2] = b
    OBVIOUS
  <2> HIDE DEF r
  <2>3. FirstRay({r}) = r
    BY DEF FirstRay
  <2>4. FirstRay(Rays(g, e, o)) = r
    BY <2>1, <2>3
  <2>5. Cover(g, e, o) = CoverAlong(g, e, o, Between(a, b) \ {b})
    <3>1. Cover(g, e, o) = CoverAlong(g, e, o, Between(r[1], r[2]) \ Occupied(g, o))
      BY <1>3, <2>4, Zenon DEF Cover, CoverAlong, Between
    <3> QED BY <1>1, <2>2, <3>1
  <2> QED BY <1>3, <2>5
<1> QED BY <1>2, <1>3

(* Whoever sees is seen, over any terrain and between creatures of several *)
(* cells, and between creatures of one cell each has the other's cover     *)
(* (line_of_sight_between_entities and cover_between_entities): the trace, *)
(* which breaks its ties on the way, is the same one backwards.            *)
THEOREM WhoSeesIsSeen == SpatialSpec => []SightIsMutual
<1>1. SpatialInv => SightIsMutual
  <2> SUFFICES ASSUME SpatialInv, NEW e \in Entities, NEW o \in Entities
               PROVE  /\ Sees(board, e, o) <=> Sees(board, o, e)
                      /\ board.at[e].shape = board.at[o].shape /\ Cardinality(board.at[e].shape) = 1 =>
                           Cover(board, e, o) = Cover(board, o, e)
    BY DEF SightIsMutual
  <2>1. board \in Map /\ WellPlaced(board)
    BY DEF SpatialInv
  <2>2. Sees(board, e, o) <=> Sees(board, o, e)
    BY <2>1, SeeingTurns
  <2>3. ASSUME board.at[e].shape = board.at[o].shape, Cardinality(board.at[e].shape) = 1
        PROVE  Cover(board, e, o) = Cover(board, o, e)
    <3> DEFINE a == board.at[e].anchor
               b == board.at[o].anchor
    <3>1. a \in Cells /\ b \in Cells
      BY <2>1, PlacedInCells
    <3>2. Cardinality(board.at[o].shape) = 1
      BY <2>3
    <3>3. /\ Cover(board, e, o) = IF Sees(board, e, o) THEN CoverAlong(board, e, o, Between(a, b) \ {b}) ELSE 3
          /\ Cover(board, o, e) = IF Sees(board, o, e) THEN CoverAlong(board, o, e, Between(b, a) \ {a}) ELSE 3
      BY <2>1, <2>3, <3>2, CoverOfOneCell
    <3> HIDE DEF a, b
    <3>4. Between(a, b) \ {b} = Between(b, a) \ {a}
      BY <3>1, BetweenTurns
    <3>5. {e, o} = {o, e}
      OBVIOUS
    <3>6. \A cells : CoverAlong(board, e, o, cells) = CoverAlong(board, o, e, cells)
      BY <3>5 DEF CoverAlong
    <3> QED BY <2>2, <3>3, <3>4, <3>6
  <2> QED BY <2>2, <2>3
<1> QED BY <1>1, SpatialInvariant, PTL


-----------------------------------------------------------------------------
(* Costs and the estimate                                                  *)
(* Costs are counted in cell sizes.                                        *)
LEMMA Scaling ==
  ASSUME NEW d \in Nat \ {0}, NEW m \in Nat, NEW n \in Nat
  PROVE  /\ m * d \in Nat /\ (m + n) * d = m * d + n * d
         /\ m * d <= n * d <=> m <= n
         /\ (m * d) \div d = m
<1>1. m * d \in Nat /\ n * d \in Nat /\ (m + n) * d = m * d + n * d
  OBVIOUS
<1>2. ASSUME NEW k \in Nat, NEW j \in Nat, k <= j PROVE k * d <= j * d
  <2>1. PICK i \in Nat : j = k + i
    <3>1. j - k \in Nat /\ j = k + (j - k)
      BY <1>2
    <3> QED BY <3>1
  <2>2. j * d = k * d + i * d /\ i * d \in Nat /\ k * d \in Nat
    BY <2>1
  <2> QED BY <2>2
<1>3. m <= n => m * d <= n * d
  BY <1>2
<1>4. ~(m <= n) => ~(m * d <= n * d)
  <2> SUFFICES ASSUME ~(m <= n) PROVE ~(m * d <= n * d)
    OBVIOUS
  <2>1. (n + 1) * d <= m * d
    <3>1. n + 1 \in Nat /\ n + 1 <= m
      OBVIOUS
    <3> QED BY <3>1, <1>2
  <2>2. (n + 1) * d = n * d + d
    OBVIOUS
  <2> QED BY <1>1, <2>1, <2>2
<1>5. (m * d) \div d = m
  OBVIOUS
<1> QED BY <1>1, <1>3, <1>4, <1>5

(* Whole units that fit a budget are counted by its quotient.              *)
LEMMA Quotient ==
  ASSUME NEW d \in Nat \ {0}, NEW m \in Nat, NEW b \in Nat
  PROVE  b \div d \in Nat /\ (m * d <= b <=> m <= b \div d)
<1> DEFINE q == b \div d
           r == b % d
<1>1. q \in Nat /\ r \in Nat /\ r < d /\ b = d * q + r
  OBVIOUS
<1> HIDE DEF q, r
<1>2. b = q * d + r
  BY <1>1
<1>3. m <= q <=> m * d <= q * d
  BY <1>1, Scaling
<1>4. m * d \in Nat /\ q * d \in Nat
  BY <1>1, Scaling
<1>5. m <= q => m * d <= b
  BY <1>1, <1>2, <1>3, <1>4
<1>6. ~(m <= q) => ~(m * d <= b)
  <2> SUFFICES ASSUME ~(m <= q) PROVE ~(m * d <= b)
    OBVIOUS
  <2>1. q + 1 \in Nat /\ q + 1 <= m
    BY <1>1
  <2>2. (q + 1) * d <= m * d
    BY <2>1, Scaling
  <2>3. (q + 1) * d = q * d + d
    BY <1>1
  <2> QED BY <1>1, <1>2, <1>4, <2>2, <2>3
<1> QED BY <1>1, <1>5, <1>6 DEF q

LEMMA CeilIsLeast ==
  ASSUME NEW n \in Nat, NEW d \in Nat \ {0}, NEW k \in Nat
  PROVE  Ceil(n, d) \in Nat /\ (Ceil(n, d) <= k <=> n <= k * d)
<1> DEFINE b == n + d - 1
           q == b \div d
           r == b % d
<1>1. b \in Nat
  OBVIOUS
<1>2. q \in Nat /\ r \in Nat /\ r < d /\ b = d * q + r
  BY <1>1
<1> HIDE DEF q, r
<1>3. b = q * d + r /\ q * d \in Nat /\ k * d \in Nat
  BY <1>2
<1>4. q <= k => n <= k * d
  <2>1. q <= k <=> q * d <= k * d
    BY <1>2, Scaling
  <2> QED BY <1>2, <1>3, <2>1
<1>5. n <= k * d => q <= k
  <2> SUFFICES ASSUME n <= k * d, ~(q <= k) PROVE FALSE
    BY <1>2
  <2>1. k + 1 \in Nat /\ k + 1 <= q
    BY <1>2
  <2>2. (k + 1) * d <= q * d
    BY <1>2, <2>1, Scaling
  <2>3. (k + 1) * d = k * d + d
    OBVIOUS
  <2> QED BY <1>2, <1>3, <2>2, <2>3
<1> QED BY <1>2, <1>4, <1>5 DEF Ceil, q

LEMMA MaxOfThree ==
  ASSUME NEW x \in Nat, NEW y \in Nat, NEW z \in Nat
  PROVE  /\ Max({x, y, z}) \in Nat
         /\ \A k \in Nat : Max({x, y, z}) <= k <=> x <= k /\ y <= k /\ z <= k
<1>1. \E m \in {x, y, z} : \A n \in {x, y, z} : m >= n
  OBVIOUS
<1>2. Max({x, y, z}) \in {x, y, z} /\ \A n \in {x, y, z} : Max({x, y, z}) >= n
  BY <1>1 DEF Max
<1> DEFINE m == Max({x, y, z})
<1> HIDE DEF m
<1>3. m \in {x, y, z} /\ m >= x /\ m >= y /\ m >= z
  BY <1>2 DEF m
<1>4. m \in Nat /\ \A k \in Nat : m <= k <=> x <= k /\ y <= k /\ z <= k
  BY <1>3
<1> QED BY <1>4 DEF m

Rise(g, c, d) == Abs(g.land[d].height - g.land[c].height)

(* The distance in cells is the least that spans both axes and the rise.   *)
Steps(g, c, d) ==
  Max({Abs(d[1] - c[1]), Abs(d[2] - c[2]), Ceil(Rise(g, c, d), CellSize)})

LEMMA DistanceInSteps ==
  ASSUME NEW g \in Map, NEW c \in Cells, NEW d \in Cells
  PROVE  /\ Steps(g, c, d) \in Nat /\ Distance(g, c, d) = Steps(g, c, d) * CellSize
         /\ \A k \in Nat :
              Steps(g, c, d) <= k <=>
                /\ Abs(d[1] - c[1]) <= k /\ Abs(d[2] - c[2]) <= k
                /\ Rise(g, c, d) <= k * CellSize
<1> DEFINE x == Abs(d[1] - c[1])
           y == Abs(d[2] - c[2])
           z == Ceil(Rise(g, c, d), CellSize)
<1>1. c[1] \in Nat /\ c[2] \in Nat /\ d[1] \in Nat /\ d[2] \in Nat
  BY DEF Cells
<1>2. x \in Nat /\ y \in Nat
  BY <1>1 DEF Abs
<1>3. g.land[d] \in Terrain /\ g.land[c] \in Terrain
  BY DEF Map
<1>4. Rise(g, c, d) \in Nat
  BY <1>3 DEF Terrain, Abs, Rise
<1>5. z \in Nat /\ \A k \in Nat : z <= k <=> Rise(g, c, d) <= k * CellSize
  BY <1>4, CeilIsLeast, GridAssumption
<1>6. Steps(g, c, d) = Max({x, y, z})
  BY DEF Steps
<1>7. Distance(g, c, d) = CellSize * Steps(g, c, d)
  BY DEF Distance, Steps, Rise
<1> HIDE DEF x, y, z
<1>8. Steps(g, c, d) \in Nat /\ \A k \in Nat : Steps(g, c, d) <= k <=> x <= k /\ y <= k /\ z <= k
  BY <1>2, <1>5, <1>6, MaxOfThree
<1>9. Distance(g, c, d) = Steps(g, c, d) * CellSize
  BY <1>7, <1>8, GridAssumption
<1> QED BY <1>5, <1>8, <1>9 DEF x, y

(* The search's estimate is a metric: no detour shortens it.               *)
LEMMA DistanceTriangle ==
  ASSUME NEW g \in Map, NEW a \in Cells, NEW b \in Cells, NEW c \in Cells
  PROVE  /\ Distance(g, a, c) <= Distance(g, a, b) + Distance(g, b, c)
         /\ Distance(g, a, a) = 0
<1> DEFINE m == Steps(g, a, b)
           n == Steps(g, b, c)
<1>1. m \in Nat /\ n \in Nat /\ m + n \in Nat /\ m <= m /\ n <= n
  BY DistanceInSteps
<1>2. /\ Abs(b[1] - a[1]) <= m /\ Abs(b[2] - a[2]) <= m /\ Rise(g, a, b) <= m * CellSize
      /\ Abs(c[1] - b[1]) <= n /\ Abs(c[2] - b[2]) <= n /\ Rise(g, b, c) <= n * CellSize
  BY <1>1, DistanceInSteps
<1> HIDE DEF m, n
<1>3. \A u, v, w \in Int : Abs(w - u) <= Abs(v - u) + Abs(w - v)
  BY DEF Abs
<1>4. /\ a[1] \in Int /\ a[2] \in Int /\ b[1] \in Int /\ b[2] \in Int /\ c[1] \in Int /\ c[2] \in Int
      /\ g.land[a].height \in Int /\ g.land[b].height \in Int /\ g.land[c].height \in Int
  <2>1. g.land[a] \in Terrain /\ g.land[b] \in Terrain /\ g.land[c] \in Terrain
    BY DEF Map
  <2> QED BY <2>1 DEF Cells, Terrain
<1>5. \A i \in Int : Abs(i) \in Int
  BY DEF Abs
<1>6. Abs(c[1] - a[1]) <= m + n
  BY <1>1, <1>2, <1>3, <1>4, <1>5
<1>7. Abs(c[2] - a[2]) <= m + n
  BY <1>1, <1>2, <1>3, <1>4, <1>5
<1>8. Rise(g, a, c) <= (m + n) * CellSize
  <2>1. Rise(g, a, c) <= Rise(g, a, b) + Rise(g, b, c)
    BY <1>3, <1>4 DEF Rise
  <2>2. (m + n) * CellSize = m * CellSize + n * CellSize /\ m * CellSize \in Nat /\ n * CellSize \in Nat
    BY <1>1, Scaling, GridAssumption
  <2>3. Rise(g, a, c) \in Int /\ Rise(g, a, b) \in Int /\ Rise(g, b, c) \in Int
    BY <1>4, <1>5 DEF Rise
  <2> QED BY <1>2, <2>1, <2>2, <2>3
<1>9. Steps(g, a, c) <= m + n
  BY <1>1, <1>6, <1>7, <1>8, DistanceInSteps
<1>10. Steps(g, a, c) * CellSize <= m * CellSize + n * CellSize
  <2>1. Steps(g, a, c) \in Nat /\ Steps(g, a, c) * CellSize <= (m + n) * CellSize
    BY <1>1, <1>9, Scaling, DistanceInSteps, GridAssumption
  <2> QED BY <1>1, <2>1, Scaling, GridAssumption
<1>11. Distance(g, a, c) <= Distance(g, a, b) + Distance(g, b, c)
  BY <1>10, DistanceInSteps DEF m, n
<1>12. Distance(g, a, a) = 0
  <2>1. Abs(a[1] - a[1]) <= 0 /\ Abs(a[2] - a[2]) <= 0 /\ Rise(g, a, a) <= 0 * CellSize
    <3>1. \A i \in Int : Abs(i - i) = 0
      BY DEF Abs
    <3>2. 0 * CellSize = 0
      BY GridAssumption
    <3> QED BY <1>4, <3>1, <3>2 DEF Rise
  <2>2. Steps(g, a, a) <= 0 /\ Steps(g, a, a) \in Nat
    BY <2>1, DistanceInSteps
  <2>3. Steps(g, a, a) = 0 /\ 0 * CellSize = 0
    BY <2>2, GridAssumption
  <2> QED BY <2>3, DistanceInSteps
<1> QED BY <1>11, <1>12

(* A step costs whole cell sizes, and no less than the distance it covers. *)
LEMMA StepCostInSteps ==
  ASSUME NEW g \in Map, NEW e \in Entities, NEW from \in Cells, NEW to \in Cells,
         Fits(g, e, from), Fits(g, e, to), NEW mode, NEW pol \in Policy, to \in Neighbors(from, pol)
  PROVE  /\ \E k \in Nat \ {0} : StepCost(g, e, from, to, mode, pol) = k * CellSize
         /\ Distance(g, from, to) <= StepCost(g, e, from, to, mode, pol)
<1> DEFINE shape == g.at[e].shape
           rise(o) == Abs(g.land[Plus(to, o)].height - g.land[Plus(from, o)].height)
           f == [o \in shape |-> Ceil(rise(o), CellSize)]
           all == {1} \cup {f[o] : o \in shape}
           steps == Max(all)
           hard == /\ \E c \in Covers(g.at[e], to) : g.land[c].difficult
                   /\ ~(mode = "fly" /\ pol.flies)
           factor == IF hard THEN pol.difficult ELSE 1
<1>1. g.at[e] \in Placement /\ g.land \in [Cells -> Terrain]
  BY DEF Map
<1>2. IsFiniteSet(shape) /\ <<0, 0>> \in shape
  BY <1>1, FootprintIsFinite
<1>3. ASSUME NEW o \in shape PROVE rise(o) \in Nat /\ f[o] \in Nat
  <2>1. Plus(to, o) \in Cells /\ Plus(from, o) \in Cells
    BY DEF Fits, Covers
  <2>2. g.land[Plus(to, o)].height \in Nat /\ g.land[Plus(from, o)].height \in Nat
    BY <1>1, <2>1 DEF Terrain
  <2>3. rise(o) \in Nat
    BY <2>2 DEF Abs
  <2> QED BY <2>3, CeilIsNat, GridAssumption
<1>4. steps \in all /\ \A n \in all : steps >= n
  <2> HIDE DEF f, shape
  <2>1. 1 \in Nat
    OBVIOUS
  <2> QED BY <1>2, <1>3, <2>1, FamilyHasMax
<1>5. steps \in Nat /\ steps >= 1
  <2> HIDE DEF f, shape
  <2>1. steps \in Nat
    BY <1>3, <1>4
  <2> QED BY <1>4, <2>1
<1>6. all = {1} \cup {Ceil(r, CellSize) : r \in Rises(g, e, from, to)}
  BY DEF Rises
<1>7. pol.difficult \in Nat \ {0} /\ factor \in Nat \ {0}
  BY DEF Policy
<1>8. Rise(g, from, to) <= steps * CellSize
  <2>1. Plus(to, <<0, 0>>) = to /\ Plus(from, <<0, 0>>) = from
    BY DEF Plus, Cells
  <2>2. rise(<<0, 0>>) = Rise(g, from, to)
    BY <2>1 DEF Rise
  <2>3. Rise(g, from, to) \in Nat /\ Ceil(Rise(g, from, to), CellSize) \in all
    BY <1>2, <1>3, <2>2
  <2> HIDE DEF all, steps
  <2>4. Ceil(Rise(g, from, to), CellSize) <= steps
    <3>1. Ceil(Rise(g, from, to), CellSize) \in Nat
      BY <2>3, CeilIsNat, GridAssumption
    <3> QED BY <1>4, <1>5, <2>3, <3>1
  <2> QED BY <1>5, <2>3, <2>4, CeilIsLeast, GridAssumption
<1>9. from # to /\ Abs(to[1] - from[1]) <= 1 /\ Abs(to[2] - from[2]) <= 1
  BY DEF Neighbors
<1>10. StepCost(g, e, from, to, mode, pol) = steps * CellSize * factor
  <2> HIDE DEF all, factor
  <2>1. steps = Max({1} \cup {Ceil(r, CellSize) : r \in Rises(g, e, from, to)})
    BY <1>6
  <2> HIDE DEF steps
  <2> QED BY <1>9, <2>1 DEF StepCost, factor
<1> HIDE DEF steps, factor, all
<1>11. steps * factor \in Nat \ {0} /\ steps <= steps * factor
  <2> DEFINE n == factor - 1
  <2>1. n \in Nat /\ factor = n + 1
    BY <1>7
  <2>2. steps * n \in Nat
    BY <1>5, <2>1
  <2> HIDE DEF n
  <2>3. steps * factor = steps * n + steps
    BY <1>5, <2>1
  <2> QED BY <1>5, <2>2, <2>3
<1>12. StepCost(g, e, from, to, mode, pol) = (steps * factor) * CellSize
  BY <1>5, <1>7, <1>10, GridAssumption
<1>13. Steps(g, from, to) \in Nat /\ Steps(g, from, to) <= steps
  <2>1. /\ Abs(to[1] - from[1]) <= steps /\ Abs(to[2] - from[2]) <= steps
    <3>1. Abs(to[1] - from[1]) \in Int /\ Abs(to[2] - from[2]) \in Int
      BY DEF Cells, Abs
    <3> QED BY <1>5, <1>9, <3>1
  <2> QED BY <1>5, <1>8, <2>1, DistanceInSteps
<1>14. Distance(g, from, to) <= (steps * factor) * CellSize
  <2>1. Steps(g, from, to) <= steps * factor
    BY <1>5, <1>11, <1>13
  <2>2. Steps(g, from, to) * CellSize <= (steps * factor) * CellSize
    <3> DEFINE m == Steps(g, from, to)
               n == steps * factor
    <3>1. m \in Nat /\ n \in Nat /\ m <= n
      BY <1>11, <1>13, <2>1
    <3> HIDE DEF m, n
    <3>2. m * CellSize <= n * CellSize
      BY <3>1, Scaling, GridAssumption
    <3> QED BY <3>2 DEF m, n
  <2> QED BY <2>2, DistanceInSteps
<1> QED BY <1>11, <1>12, <1>14

-----------------------------------------------------------------------------
(* The rings of Within, which count what can be reached by its cost.       *)
LEMMA LegsInSteps ==
  ASSUME NEW g \in Map, NEW e \in Entities, NEW mode, NEW pol \in Policy,
         NEW l \in Legs(g, e, mode, pol)
  PROVE  /\ l.from \in Cells /\ l.to \in Cells /\ Fits(g, e, l.from) /\ Fits(g, e, l.to)
         /\ l.to \in Neighbors(l.from, pol) /\ StepIsLegal(g, e, l.from, l.to, mode, pol)
         /\ l.cost = StepCost(g, e, l.from, l.to, mode, pol)
         /\ Distance(g, l.from, l.to) <= l.cost
         /\ \E k \in Nat \ {0} : l.cost = k * CellSize /\ l.cost \div CellSize = k
<1>1. /\ l.from \in Cells /\ l.to \in Cells /\ l.from # l.to /\ Fits(g, e, l.from)
      /\ StepIsLegal(g, e, l.from, l.to, mode, pol)
      /\ l.cost = StepCost(g, e, l.from, l.to, mode, pol)
  BY DEF Legs, Fits
<1>2. l.to \in Neighbors(l.from, pol) /\ Enters(g, e, l.from, l.to, mode, pol)
  BY <1>1 DEF StepIsLegal
<1>3. Fits(g, e, l.to)
  BY <1>2 DEF Enters, TerrainAllows, Occupiable, Fits
<1>4. /\ \E k \in Nat \ {0} : l.cost = k * CellSize
      /\ Distance(g, l.from, l.to) <= l.cost
  BY <1>1, <1>2, <1>3, StepCostInSteps
<1>5. \A k \in Nat : (k * CellSize) \div CellSize = k
  BY Scaling, GridAssumption
<1> QED BY <1>1, <1>2, <1>3, <1>4, <1>5

RingsOf(g, e, mode, pol, budget, R) ==
  /\ R \in Seq(SUBSET Cells) /\ Len(R) = budget \div CellSize + 1
  /\ R[1] = {g.at[e].anchor}
  /\ \A n \in 1 .. budget \div CellSize :
       R[n + 1] = R[n] \cup
         {l.to : l \in {l \in Legs(g, e, mode, pol) :
                          /\ l.cost <= n * CellSize
                          /\ l.from \in R[n + 1 - (l.cost \div CellSize)]}}

LEMMA WithinUnfolds ==
  ASSUME NEW g \in Map, NEW e \in Entities, WellPlaced(g), NEW mode,
         NEW pol \in Policy, NEW budget \in Nat
  PROVE  RingsOf(g, e, mode, pol, budget, Within(g, e, mode, pol, budget))
<1> DEFINE legs == Legs(g, e, mode, pol)
           N == budget \div CellSize
           first == << {g.at[e].anchor} >>
           Next1(n, r) == r[n] \cup
                   {l.to : l \in {l \in legs : /\ l.cost <= n * CellSize
                                               /\ l.from \in r[n + 1 - (l.cost \div CellSize)]}}
           Grown(n, r) == Append(r, Next1(n, r))
           Lists == {r \in Seq(SUBSET Cells) : r # << >>}
           step == [r \in Lists |-> Grown(Len(r), r)]
           IsRings(F) == F = [n \in 0 .. N |-> IF n = 0 THEN first ELSE LET r == F[n - 1] IN Grown(n, r)]
           rings == CHOOSE F : IsRings(F)
<1>1. N \in Nat
  BY Quotient, GridAssumption
<1>2. first \in Lists /\ Len(first) = 1 /\ first[1] = {g.at[e].anchor}
  <2>1. g.at[e].anchor \in Cells
    BY PlacedInCells
  <2> DEFINE x == {g.at[e].anchor}
  <2>2. x \in SUBSET Cells
    BY <2>1
  <2> HIDE DEF x
  <2>3. <<x>> \in Seq(SUBSET Cells) /\ <<x>> # << >> /\ Len(<<x>>) = 1 /\ <<x>>[1] = x
    BY <2>2
  <2> QED BY <2>3 DEF x
<1>3. legs \subseteq [from : Cells, to : Cells, cost : {l.cost : l \in legs}]
  BY DEF Legs
<1>4. ASSUME NEW r \in Lists, NEW n, n = Len(r)
      PROVE  /\ Next1(n, r) \in SUBSET Cells /\ Grown(n, r) \in Lists
             /\ Len(Grown(n, r)) = n + 1 /\ Grown(n, r)[n + 1] = Next1(n, r)
             /\ \A i \in 1 .. n : Grown(n, r)[i] = r[i]
  <2>1. n \in Nat /\ n # 0 /\ r \in Seq(SUBSET Cells)
    BY <1>4
  <2>2. r[n] \in SUBSET Cells
    BY <1>4, <2>1
  <2>3. Next1(n, r) \in SUBSET Cells
    <3> HIDE DEF legs
    <3> QED BY <1>3, <2>2
  <2> DEFINE x == Next1(n, r)
  <2>4. x \in SUBSET Cells
    BY <2>3
  <2> HIDE DEF x
  <2>5. /\ Append(r, x) \in Seq(SUBSET Cells) /\ Append(r, x) # << >>
        /\ Len(Append(r, x)) = n + 1 /\ Append(r, x)[n + 1] = x
        /\ \A i \in 1 .. n : Append(r, x)[i] = r[i]
    BY <1>4, <2>1, <2>4
  <2> QED BY <2>4, <2>5 DEF x
<1>5. step \in [Lists -> Lists]
  <2> HIDE DEF Grown, Lists
  <2>1. \A r \in Lists : Grown(Len(r), r) \in Lists
    BY <1>4
  <2> QED BY <2>1
<1> HIDE DEF N
<1>6. \E F : IsRings(F)
  <2> HIDE DEF step, Lists, IsRings, first, Grown
  <2>1. PICK F : Iterates(F, Lists, first, step, N)
    BY <1>1, <1>2, <1>5, IterationExists
  <2>2. \A n \in 0 .. N : F[n] \in Lists /\ F[n] = IF n = 0 THEN first ELSE step[F[n - 1]]
    BY <2>1 DEF Iterates
  <2> DEFINE bad == {n \in Nat : n \in 0 .. N /\ Len(F[n]) # n + 1}
  <2>3. bad = {}
    <3> SUFFICES ASSUME bad # {} PROVE FALSE
      OBVIOUS
    <3>1. PICK n \in bad : \A j \in bad : n <= j
      BY LeastOf
    <3>2. n \in 0 .. N /\ n \in Nat /\ Len(F[n]) # n + 1
      OBVIOUS
    <3>3. n # 0
      <4> SUFFICES ASSUME n = 0 PROVE FALSE
        OBVIOUS
      <4>1. F[0] = first
        BY <1>1, <2>2
      <4> QED BY <1>2, <3>2, <4>1
    <3>4. n - 1 \in Nat /\ n - 1 \in 0 .. N /\ ~(n <= n - 1)
      BY <1>1, <3>2, <3>3
    <3>5. Len(F[n - 1]) = n
      <4>1. n - 1 \notin bad
        BY <3>1, <3>4
      <4> QED BY <3>2, <3>4, <4>1
    <3>6. F[n] = Grown(n, F[n - 1])
      BY <2>2, <3>2, <3>3, <3>4, <3>5 DEF step
    <3> QED BY <1>4, <2>2, <3>2, <3>4, <3>5, <3>6
  <2>4. ASSUME NEW n \in 0 .. N PROVE F[n] = IF n = 0 THEN first ELSE Grown(n, F[n - 1])
    <3>1. CASE n = 0
      BY <2>2, <3>1
    <3>2. CASE n # 0
      <4>1. n - 1 \in Nat /\ n - 1 \in 0 .. N /\ n \in Nat
        BY <1>1, <3>2
      <4>2. Len(F[n - 1]) = n
        BY <2>3, <4>1
      <4> QED BY <2>2, <3>2, <4>1, <4>2 DEF step
    <3> QED BY <3>1, <3>2
  <2>5. F = [n \in 0 .. N |-> F[n]]
    BY <2>1 DEF Iterates
  <2>6. IsRings(F)
    BY <2>4, <2>5 DEF IsRings
  <2> QED BY <2>6
<1>7. IsRings(rings)
  <2> HIDE DEF IsRings
  <2> QED BY <1>6
<1>8. Within(g, e, mode, pol, budget) = rings[N]
  BY DEF Within, N
<1> HIDE DEF rings, Lists, first
<1>9. \A n \in 0 .. N : rings[n] = IF n = 0 THEN first ELSE Grown(n, rings[n - 1])
  BY <1>7
<1> HIDE DEF IsRings
<1> DEFINE Good(n) ==
             /\ rings[n] \in Lists /\ Len(rings[n]) = n + 1
             /\ rings[n][1] = {g.at[e].anchor}
             /\ \A m \in 1 .. n : rings[n][m + 1] = Next1(m, rings[n])
           bad == {n \in Nat : n \in 0 .. N /\ ~Good(n)}
<1>10. bad = {}
  <2> SUFFICES ASSUME bad # {} PROVE FALSE
    OBVIOUS
  <2>1. PICK n \in bad : \A j \in bad : n <= j
    BY LeastOf
  <2>2. n \in 0 .. N /\ n \in Nat /\ ~Good(n)
    OBVIOUS
  <2>3. n # 0
    <3> SUFFICES ASSUME n = 0 PROVE Good(n)
      BY <2>2
    <3>1. rings[0] = first
      BY <1>1, <1>9
    <3> QED BY <1>2, <3>1
  <2>4. n - 1 \in Nat /\ n - 1 \in 0 .. N /\ ~(n <= n - 1)
    BY <1>1, <2>2, <2>3
  <2>5. Good(n - 1)
    BY <2>1, <2>4
  <2> DEFINE r == rings[n - 1]
             t == rings[n]
  <2>6. t = Grown(n, r)
    BY <1>9, <2>2, <2>3
  <2>7. r \in Lists /\ Len(r) = n /\ r[1] = {g.at[e].anchor}
    <3>1. (n - 1) + 1 = n
      BY <2>2
    <3> QED BY <2>5, <3>1
  <2>8. \A m \in 1 .. n - 1 : r[m + 1] = Next1(m, r)
    BY <2>5
  <2> HIDE DEF Good, r, t, Grown, Next1
  <2>9. /\ t \in Lists /\ Len(t) = n + 1 /\ t[n + 1] = Next1(n, r)
        /\ \A i \in 1 .. n : t[i] = r[i]
    BY <1>4, <2>6, <2>7
  <2>10. ASSUME NEW m \in 1 .. n PROVE Next1(m, t) = Next1(m, r)
    <3>1. t[m] = r[m]
      BY <2>9
    <3>2. ASSUME NEW l \in legs, l.cost <= m * CellSize
          PROVE  t[m + 1 - (l.cost \div CellSize)] = r[m + 1 - (l.cost \div CellSize)]
      <4>1. PICK k \in Nat \ {0} : l.cost = k * CellSize /\ l.cost \div CellSize = k
        BY LegsInSteps
      <4>2. m \in Nat /\ k <= m
        <5>1. m \in Nat
          BY <2>2
        <5>2. k * CellSize <= m * CellSize
          BY <3>2, <4>1
        <5> QED BY <5>1, <5>2, Scaling, GridAssumption
      <4>3. m + 1 - k \in 1 .. n
        BY <2>2, <4>2
      <4> QED BY <2>9, <4>1, <4>3
    <3> QED BY <3>1, <3>2 DEF Next1
  <2>11. ASSUME NEW m \in 1 .. n PROVE t[m + 1] = Next1(m, t)
    <3>1. CASE m = n
      BY <2>9, <2>10, <3>1
    <3>2. CASE m # n
      <4>1. m \in 1 .. n - 1 /\ m + 1 \in 1 .. n
        BY <2>2, <3>2
      <4> QED BY <2>8, <2>9, <2>10, <4>1
    <3> QED BY <3>1, <3>2
  <2>12. t[1] = {g.at[e].anchor}
    <3>1. 1 \in 1 .. n
      BY <2>2, <2>3
    <3> QED BY <2>7, <2>9, <3>1
  <2>13. Good(n)
    BY <2>9, <2>11, <2>12 DEF Good, t
  <2> QED BY <2>2, <2>13
<1>11. Good(N)
  <2>1. N \in 0 .. N /\ N \in Nat
    BY <1>1
  <2> HIDE DEF Good
  <2> QED BY <1>10, <2>1
<1> HIDE DEF rings
<1> QED BY <1>8, <1>11 DEF RingsOf, N, Lists

LEMMA RingsGrow ==
  ASSUME NEW g, NEW e, NEW mode, NEW pol, NEW budget \in Nat, NEW R,
         RingsOf(g, e, mode, pol, budget, R), NEW m \in Nat, NEW n \in Nat,
         m <= n, n <= budget \div CellSize
  PROVE  R[m + 1] \subseteq R[n + 1] /\ R[n + 1] \in SUBSET Cells
<1> DEFINE N == budget \div CellSize
           bad == {j \in Nat : m <= j /\ j <= N /\ ~(R[m + 1] \subseteq R[j + 1])}
<1>1. N \in Nat
  BY Quotient, GridAssumption
<1>2. \A j \in 1 .. N : R[j] \subseteq R[j + 1]
  BY DEF RingsOf
<1> HIDE DEF N
<1>3. bad = {}
  <2> SUFFICES ASSUME bad # {} PROVE FALSE
    OBVIOUS
  <2>1. PICK j \in bad : \A i \in bad : j <= i
    BY LeastOf
  <2>2. j \in Nat /\ m <= j /\ j <= N /\ ~(R[m + 1] \subseteq R[j + 1])
    OBVIOUS
  <2>3. j # m
    BY <2>2
  <2>4. j - 1 \in Nat /\ m <= j - 1 /\ j - 1 <= N /\ ~(j <= j - 1) /\ j \in 1 .. N /\ (j - 1) + 1 = j
    BY <1>1, <2>2, <2>3
  <2>5. R[m + 1] \subseteq R[(j - 1) + 1]
    BY <2>1, <2>4
  <2>6. R[m + 1] \subseteq R[j]
    BY <2>4, <2>5
  <2> QED BY <1>2, <2>2, <2>4, <2>6
<1>4. R[m + 1] \subseteq R[n + 1]
  <2>1. n \notin bad /\ n <= N
    BY <1>3 DEF N
  <2> QED BY <2>1
<1>5. R \in Seq(SUBSET Cells) /\ n + 1 \in 1 .. Len(R)
  BY <1>1 DEF RingsOf, N
<1> QED BY <1>4, <1>5

(* What is in a ring was there before, or is one leg from an earlier ring. *)
LEMMA RingsAreReached ==
  ASSUME NEW g \in Map, NEW e \in Entities, NEW mode, NEW pol \in Policy, NEW budget \in Nat,
         NEW R, RingsOf(g, e, mode, pol, budget, R),
         NEW n \in Nat, n <= budget \div CellSize, NEW c \in R[n + 1]
  PROVE  \/ n = 0 /\ c = g.at[e].anchor
         \/ n # 0 /\ c \in R[n]
         \/ \E l \in Legs(g, e, mode, pol), k \in 1 .. n :
              l.to = c /\ l.cost = k * CellSize /\ l.from \in R[n - k + 1]
<1>1. CASE n = 0
  <2>1. n + 1 = 1
    BY <1>1
  <2>2. c \in {g.at[e].anchor}
    BY <2>1 DEF RingsOf
  <2> QED BY <1>1, <2>2
<1>2. CASE n # 0 /\ c \notin R[n]
  <2>1. n \in 1 .. budget \div CellSize
    <3>1. budget \div CellSize \in Nat
      BY Quotient, GridAssumption
    <3> QED BY <1>2, <3>1
  <2>2. PICK l \in Legs(g, e, mode, pol) :
          l.to = c /\ l.cost <= n * CellSize /\ l.from \in R[n + 1 - (l.cost \div CellSize)]
    BY <1>2, <2>1 DEF RingsOf
  <2>3. PICK k \in Nat \ {0} : l.cost = k * CellSize /\ l.cost \div CellSize = k
    BY LegsInSteps
  <2>4. k <= n
    BY <2>2, <2>3, Scaling, GridAssumption
  <2>5. k \in 1 .. n /\ n + 1 - k = n - k + 1
    BY <2>3, <2>4
  <2> QED BY <2>2, <2>3, <2>5
<1> QED BY <1>1, <1>2

(* A leg from a ring ends in the ring of the cost of both.                 *)
LEMMA RingsAreClosed ==
  ASSUME NEW g \in Map, NEW e \in Entities, NEW mode, NEW pol \in Policy, NEW budget \in Nat,
         NEW R, RingsOf(g, e, mode, pol, budget, R),
         NEW l \in Legs(g, e, mode, pol), NEW k \in Nat \ {0}, l.cost = k * CellSize,
         NEW m \in Nat, l.from \in R[m + 1], m + k <= budget \div CellSize
  PROVE  l.to \in R[m + k + 1]
<1> DEFINE n == m + k
<1>1. budget \div CellSize \in Nat
  BY Quotient, GridAssumption
<1>2. n \in 1 .. budget \div CellSize /\ n \in Nat
  BY <1>1
<1>3. l.cost \div CellSize = k
  BY Scaling, GridAssumption
<1>4. k <= n
  OBVIOUS
<1>5. n + 1 - k = m + 1
  OBVIOUS
<1> HIDE DEF n
<1>6. l.cost <= n * CellSize
  BY <1>2, <1>4, Scaling, GridAssumption
<1>7. l.to \in R[n + 1]
  BY <1>2, <1>3, <1>5, <1>6 DEF RingsOf
<1> QED BY <1>7 DEF n

-----------------------------------------------------------------------------
(* What the loop of the search keeps true.                                 *)
Rings(s) == Within(board, s.who, s.mode, policy, s.budget)
Cost(s, c, d) == StepCost(board, s.who, c, d, s.mode, policy)
Legal(s, c, d) == StepIsLegal(board, s.who, c, d, s.mode, policy)

(* The cell's own entry still waits.                                       *)
Queued(s, c) == Entry(s, c, s.cost[c]) \in s.frontier

(* The body has run for the cell at its cost.                              *)
Settled(s, c) ==
  \A d \in Neighbors(c, policy) :
    Legal(s, c, d) /\ s.cost[c] + Cost(s, c, d) <= s.budget =>
      d \in DOMAIN s.cost /\ s.cost[d] <= s.cost[c] + Cost(s, c, d)

(* A cost is that of some path; came_from leads back along one that costs  *)
(* no more; and a cell that is not settled waits at its cost.              *)
Explored(s) ==
  LET start == board.at[s.who].anchor
  IN  /\ s.goal = None <=> s.kind = "reachable"
      /\ start \in DOMAIN s.cost /\ s.cost[start] = 0
      /\ \A c \in DOMAIN s.cost : \E n \in Nat :
           /\ n <= s.budget \div CellSize
           /\ s.cost[c] = n * CellSize /\ c \in Rings(s)[n + 1]
      /\ \A c \in DOMAIN s.cost \ {start} :
           /\ c \in Neighbors(s.from[c], policy) /\ Legal(s, s.from[c], c)
           /\ s.cost[s.from[c]] + Cost(s, s.from[c], c) <= s.cost[c]
      /\ \A p \in s.frontier : p = Entry(s, p.cell, p.cost) /\ s.cost[p.cell] <= p.cost
      /\ \A c \in DOMAIN s.cost : Queued(s, c) \/ Settled(s, c)

LEMMA SearchHasRings ==
  ASSUME SpatialInv, NEW s, SearchTyped(s)
  PROVE  RingsOf(board, s.who, s.mode, policy, s.budget, Rings(s))
<1>1. board \in Map /\ WellPlaced(board) /\ policy \in Policy
  BY SpatialAssumption DEF SpatialInv
<1>2. s.who \in Entities /\ s.budget \in Nat
  BY DEF SearchTyped
<1> QED BY <1>1, <1>2, WithinUnfolds DEF Rings

LEMMA BegunParts ==
  ASSUME NEW kind, NEW e, NEW mode, NEW goal, NEW budget, NEW t,
         t = Begun(kind, e, mode, goal, budget)
  PROVE  /\ t.kind = kind /\ t.who = e /\ t.mode = mode /\ t.goal = goal /\ t.budget = budget
         /\ t.frontier = {Entry(t, board.at[e].anchor, 0)}
         /\ DOMAIN t.cost = {board.at[e].anchor} /\ t.cost[board.at[e].anchor] = 0
<1> DEFINE s == [kind |-> kind, who |-> e, mode |-> mode, goal |-> goal,
                 budget |-> budget, frontier |-> {}, cost |-> << >>, from |-> << >>]
           start == board.at[e].anchor
           first == Entry(s, start, 0)
<1> HIDE DEF first
<1>1. t = [s EXCEPT !.frontier = {first}, !.cost = [c \in {start} |-> 0],
                    !.from = [c \in {start} |-> start]]
  BY DEF Begun, first
<1>2. /\ t.kind = kind /\ t.who = e /\ t.mode = mode /\ t.goal = goal /\ t.budget = budget
      /\ t.frontier = {first} /\ t.cost = [c \in {start} |-> 0]
      /\ t.from = [c \in {start} |-> start]
  BY <1>1
<1>3. s.goal = t.goal
  BY <1>2
<1> HIDE DEF s
<1>4. first = Entry(t, start, 0)
  BY <1>3 DEF first, Entry, Heuristic
<1>5. DOMAIN t.cost = {start} /\ t.cost[start] = 0
  BY <1>2
<1> QED BY <1>2, <1>4, <1>5

LEMMA BegunIsExplored ==
  ASSUME SpatialInv, NEW kind \in {"path", "reachable"}, NEW e \in Entities, NEW mode \in Modes,
         NEW goal \in Cells \cup {None}, NEW budget \in Nat, goal = None <=> kind = "reachable",
         NEW t, t = Begun(kind, e, mode, goal, budget)
  PROVE  Explored(t)
<1> DEFINE start == board.at[e].anchor
<1>1. /\ t.kind = kind /\ t.who = e /\ t.mode = mode /\ t.goal = goal /\ t.budget = budget
      /\ t.frontier = {Entry(t, start, 0)} /\ DOMAIN t.cost = {start} /\ t.cost[start] = 0
  BY BegunParts
<1>2. DOMAIN t.cost = {start} /\ t.cost[start] = 0
  BY <1>1
<1>3. SearchTyped(t)
  BY BegunIsTyped
<1>4. RingsOf(board, e, mode, policy, budget, Rings(t))
  BY <1>1, <1>3, SearchHasRings
<1> HIDE DEF start
<1>5. start \in Rings(t)[1]
  BY <1>4 DEF RingsOf, start
<1>6. 0 \in Nat /\ 0 <= budget \div CellSize /\ 0 * CellSize = 0 /\ 0 + 1 = 1
  BY Quotient, GridAssumption
<1>7. ASSUME NEW c \in DOMAIN t.cost
      PROVE  \E n \in Nat : n <= t.budget \div CellSize /\ t.cost[c] = n * CellSize /\ c \in Rings(t)[n + 1]
  BY <1>1, <1>2, <1>5, <1>6
<1>8. Entry(t, start, 0).cell = start /\ Entry(t, start, 0).cost = 0
  BY DEF Entry
<1>9. \A p \in t.frontier : p = Entry(t, p.cell, p.cost) /\ t.cost[p.cell] <= p.cost
  BY <1>1, <1>2, <1>8
<1>10. \A c \in DOMAIN t.cost : Queued(t, c)
  BY <1>1, <1>2 DEF Queued
<1>11. board.at[t.who].anchor = start
  BY <1>1 DEF start
<1> QED BY <1>1, <1>2, <1>7, <1>9, <1>10, <1>11 DEF Explored

LEMMA RelaxedParts ==
  ASSUME SpatialInv, NEW s, SearchTyped(s), NEW top \in s.frontier, NEW t, t = Relaxed(s, top)
  PROVE  /\ t.kind = s.kind /\ t.who = s.who /\ t.mode = s.mode /\ t.goal = s.goal
         /\ t.budget = s.budget
         /\ DOMAIN t.cost = DOMAIN s.cost \cup Bettered(s, top)
         /\ \A c \in Bettered(s, top) :
              t.cost[c] = top.cost + Cost(s, top.cell, c) /\ t.from[c] = top.cell
         /\ \A c \in DOMAIN s.cost \ Bettered(s, top) :
              t.cost[c] = s.cost[c] /\ t.from[c] = s.from[c]
         /\ t.frontier = (s.frontier \ {top}) \cup {Entry(t, c, t.cost[c]) : c \in Bettered(s, top)}
<1> DEFINE better == Bettered(s, top)
           now(c) == top.cost + Cost(s, top.cell, c)
           cells == DOMAIN s.cost \cup better
           added == {Entry(s, c, now(c)) : c \in better}
           cost == [c \in cells |-> IF c \in better THEN now(c) ELSE s.cost[c]]
           from == [c \in cells |-> IF c \in better THEN top.cell ELSE s.from[c]]
<1>1. t = [s EXCEPT !.frontier = (s.frontier \ {top}) \cup added, !.cost = cost, !.from = from]
  BY DEF Relaxed, Cost
<1> HIDE DEF added, cost, from
<1>2. /\ t.kind = s.kind /\ t.who = s.who /\ t.mode = s.mode /\ t.goal = s.goal
      /\ t.budget = s.budget /\ t.cost = cost /\ t.from = from
      /\ t.frontier = (s.frontier \ {top}) \cup added
  BY <1>1 DEF SearchTyped
<1> HIDE DEF better, now
<1>3. /\ DOMAIN t.cost = cells
      /\ \A c \in better : t.cost[c] = now(c) /\ t.from[c] = top.cell
      /\ \A c \in DOMAIN s.cost \ better : t.cost[c] = s.cost[c] /\ t.from[c] = s.from[c]
  BY <1>2 DEF cost, from
<1>4. \A c, n : Entry(t, c, n) = Entry(s, c, n)
  BY <1>2 DEF Entry, Heuristic
<1>5. added = {Entry(t, c, t.cost[c]) : c \in better}
  BY <1>3, <1>4 DEF added
<1> QED BY <1>2, <1>3, <1>5 DEF better, now

(* A legal step from a cell where the actor fits is a leg.                 *)
LEMMA StepsAreLegs ==
  ASSUME SpatialInv, NEW s, SearchTyped(s), NEW c \in DOMAIN s.cost, NEW d \in Cells,
         c # d, Legal(s, c, d)
  PROVE  /\ d \in Neighbors(c, policy) /\ Fits(board, s.who, d)
         /\ [from |-> c, to |-> d, cost |-> Cost(s, c, d)] \in Legs(board, s.who, s.mode, policy)
         /\ Distance(board, c, d) <= Cost(s, c, d)
         /\ \E k \in Nat \ {0} : Cost(s, c, d) = k * CellSize
<1> DEFINE l == [from |-> c, to |-> d, cost |-> Cost(s, c, d)]
<1>1. c \in Cells /\ Fits(board, s.who, c) /\ s.who \in Entities
  BY DEF SearchTyped
<1>2. l \in Legs(board, s.who, s.mode, policy)
  <2>1. <<c, d>> \in {p \in Cells \X Cells :
                        /\ p[1] # p[2]
                        /\ Covers(board.at[s.who], p[1]) \subseteq Cells
                        /\ StepIsLegal(board, s.who, p[1], p[2], s.mode, policy)}
    BY <1>1 DEF Legal, Fits
  <2>2. l = [from |-> <<c, d>>[1], to |-> <<c, d>>[2],
             cost |-> StepCost(board, s.who, <<c, d>>[1], <<c, d>>[2], s.mode, policy)]
    BY DEF Cost
  <2> HIDE DEF l
  <2> QED BY <2>1, <2>2 DEF Legs
<1>3. l.from = c /\ l.to = d /\ l.cost = Cost(s, c, d)
  OBVIOUS
<1> HIDE DEF l
<1>4. board \in Map /\ policy \in Policy
  BY SpatialAssumption DEF SpatialInv
<1>5. /\ Fits(board, s.who, d) /\ d \in Neighbors(c, policy)
      /\ Distance(board, c, d) <= Cost(s, c, d)
      /\ \E k \in Nat \ {0} : Cost(s, c, d) = k * CellSize
  BY <1>1, <1>2, <1>3, <1>4, LegsInSteps
<1> QED BY <1>2, <1>5 DEF l

LEMMA RelaxedIsExplored ==
  ASSUME SpatialInv, NEW s, SearchTyped(s), Explored(s), NEW top \in s.frontier,
         top.cost = s.cost[top.cell], NEW t, t = Relaxed(s, top)
  PROVE  Explored(t)
<1> DEFINE better == Bettered(s, top)
           x == top.cell
           D == DOMAIN s.cost
           start == board.at[s.who].anchor
           N == s.budget \div CellSize
<1>1. /\ t.kind = s.kind /\ t.who = s.who /\ t.mode = s.mode /\ t.goal = s.goal
      /\ t.budget = s.budget /\ DOMAIN t.cost = D \cup better
      /\ \A c \in better : t.cost[c] = top.cost + Cost(s, x, c) /\ t.from[c] = x
      /\ \A c \in D \ better : t.cost[c] = s.cost[c] /\ t.from[c] = s.from[c]
      /\ t.frontier = (s.frontier \ {top}) \cup {Entry(t, c, t.cost[c]) : c \in better}
  BY RelaxedParts
<1>2. /\ x \in D /\ D \subseteq Cells /\ s.budget \in Nat /\ \A c \in D : s.cost[c] \in Nat
      /\ s.who \in Entities /\ \A c \in D : s.from[c] \in D
  <2>1. PICK E \in SUBSET Cells : s.cost \in [E -> Nat]
    BY DEF SearchTyped
  <2>2. PICK F \in SUBSET Cells : s.from \in [F -> F]
    BY DEF SearchTyped
  <2>3. DOMAIN s.from = D
    BY DEF SearchTyped
  <2> QED BY <2>1, <2>2, <2>3 DEF SearchTyped
<1>3. N \in Nat
  BY <1>2, Quotient, GridAssumption
<1>4. RingsOf(board, s.who, s.mode, policy, s.budget, Rings(s)) /\ Rings(t) = Rings(s)
  BY <1>1, SearchHasRings DEF Rings
<1>5. /\ \A c, d : Cost(t, c, d) = Cost(s, c, d) /\ (Legal(t, c, d) <=> Legal(s, c, d))
      /\ \A c, n : Entry(t, c, n) = Entry(s, c, n)
  BY <1>1 DEF Cost, Legal, Entry, Heuristic
<1>6. /\ s.goal = None <=> s.kind = "reachable"
      /\ start \in D /\ s.cost[start] = 0
      /\ \A c \in D : \E n \in Nat : n <= N /\ s.cost[c] = n * CellSize /\ c \in Rings(s)[n + 1]
      /\ \A c \in D \ {start} :
           /\ c \in Neighbors(s.from[c], policy) /\ Legal(s, s.from[c], c)
           /\ s.cost[s.from[c]] + Cost(s, s.from[c], c) <= s.cost[c]
      /\ \A p \in s.frontier : p = Entry(s, p.cell, p.cost) /\ s.cost[p.cell] <= p.cost
      /\ \A c \in D : Queued(s, c) \/ Settled(s, c)
  BY DEF Explored
<1> DEFINE nowAt(c) == top.cost + Cost(s, x, c)
<1>7. ASSUME NEW c \in better
      PROVE  /\ c \in Neighbors(x, policy) /\ Legal(s, x, c) /\ c # x /\ c \in Cells
             /\ nowAt(c) <= s.budget /\ (c \in D => nowAt(c) < s.cost[c])
  BY DEF Bettered, Improves, Legal, Cost, Neighbors
<1>8. ASSUME NEW c \in Neighbors(x, policy), Legal(s, x, c), nowAt(c) <= s.budget, c \notin better
      PROVE  c \in D /\ ~(nowAt(c) < s.cost[c])
  BY <1>8 DEF Bettered, Improves, Legal, Cost
<1>9. ASSUME NEW c \in Cells, c # x, Legal(s, x, c)
      PROVE  /\ [from |-> x, to |-> c, cost |-> Cost(s, x, c)] \in Legs(board, s.who, s.mode, policy)
             /\ \E k \in Nat \ {0} : Cost(s, x, c) = k * CellSize
             /\ Cost(s, x, c) \in Nat
  <2>1. /\ [from |-> x, to |-> c, cost |-> Cost(s, x, c)] \in Legs(board, s.who, s.mode, policy)
        /\ \E k \in Nat \ {0} : Cost(s, x, c) = k * CellSize
    BY <1>2, <1>9, StepsAreLegs
  <2> QED BY <2>1, Scaling, GridAssumption
<1>20. ASSUME NEW c \in Cells, c # x, Legal(s, x, c) PROVE top.cost + Cost(s, x, c) \in Nat
  <2>1. top.cost \in Nat /\ Cost(s, x, c) \in Nat
    BY <1>2, <1>9, <1>20
  <2> QED BY <2>1
<1> HIDE DEF better, D, start, x, N
<1>10. top.cost = s.cost[x] /\ top.cost \in Nat
  BY <1>2 DEF x
<1>11. \A c \in D \cup better : t.cost[c] \in Nat
  <2> HIDE DEF nowAt
  <2>1. \A c \in better : nowAt(c) \in Nat
    BY <1>7, <1>20 DEF nowAt
  <2> QED BY <1>1, <1>2, <2>1 DEF nowAt
<1>12. \A c \in D : t.cost[c] <= s.cost[c]
  <2>1. ASSUME NEW c \in D PROVE t.cost[c] <= s.cost[c]
    <3>1. CASE c \in better
      <4>1. t.cost[c] < s.cost[c]
        BY <1>1, <1>7, <3>1
      <4> QED BY <1>2, <1>11, <4>1
    <3>2. CASE c \notin better
      BY <1>1, <1>2, <3>2
    <3> QED BY <3>1, <3>2
  <2> QED BY <2>1
<1>13. x \notin better /\ t.cost[x] = top.cost
  BY <1>1, <1>2, <1>7, <1>10
<1>14. start \notin better /\ t.cost[start] = 0
  <2>1. start \notin better
    <3> SUFFICES ASSUME start \in better PROVE FALSE
      OBVIOUS
    <3>1. t.cost[start] < 0 /\ t.cost[start] \in Nat
      BY <1>1, <1>6, <1>7, <1>11
    <3> QED BY <3>1
  <2> QED BY <1>1, <1>6, <2>1
(* Costs are those of paths.                                               *)
<1>15. ASSUME NEW c \in D \cup better
       PROVE  \E n \in Nat : n <= N /\ t.cost[c] = n * CellSize /\ c \in Rings(s)[n + 1]
  <2>1. CASE c \notin better
    BY <1>1, <1>6, <2>1
  <2>2. CASE c \in better
    <3>1. PICK m \in Nat : m <= N /\ s.cost[x] = m * CellSize /\ x \in Rings(s)[m + 1]
      BY <1>2, <1>6
    <3>2. c \in Cells /\ c # x /\ Legal(s, x, c)
      BY <1>7, <2>2
    <3>3. PICK k \in Nat \ {0} : Cost(s, x, c) = k * CellSize
      BY <1>9, <3>2
    <3>4. (m + k) * CellSize = m * CellSize + k * CellSize /\ m + k \in Nat
      BY Scaling, GridAssumption
    <3>5. t.cost[c] = (m + k) * CellSize
      BY <1>1, <1>10, <2>2, <3>1, <3>3, <3>4
    <3>6. t.cost[c] <= s.budget
      BY <1>1, <1>7, <2>2
    <3>7. m + k <= N
      <4> DEFINE n == m + k
      <4>1. n \in Nat /\ n * CellSize <= s.budget
        BY <3>4, <3>5, <3>6
      <4> HIDE DEF n
      <4>2. n <= N
        BY <1>2, <4>1, Quotient, GridAssumption DEF N
      <4> QED BY <4>2 DEF n
    <3>8. c \in Rings(s)[m + k + 1]
      <4> DEFINE l == [from |-> x, to |-> c, cost |-> Cost(s, x, c)]
      <4>1. l \in Legs(board, s.who, s.mode, policy) /\ l.from = x /\ l.to = c /\ l.cost = k * CellSize
        BY <1>9, <3>2, <3>3
      <4> HIDE DEF l
      <4>2. board \in Map /\ policy \in Policy
        BY SpatialAssumption DEF SpatialInv
      <4>3. l.to \in Rings(s)[m + k + 1]
        BY <1>2, <1>4, <3>1, <3>7, <4>1, <4>2, RingsAreClosed DEF N
      <4> QED BY <4>1, <4>3
    <3> QED BY <3>4, <3>5, <3>7, <3>8
  <2> QED BY <2>1, <2>2
(* came_from leads back.                                                   *)
<1>16. ASSUME NEW c \in (D \cup better) \ {start}
       PROVE  /\ c \in Neighbors(t.from[c], policy) /\ Legal(t, t.from[c], c)
              /\ t.cost[t.from[c]] + Cost(t, t.from[c], c) <= t.cost[c]
  <2>1. CASE c \in better
    <3>1. t.from[c] = x /\ t.cost[c] = top.cost + Cost(s, x, c)
      BY <1>1, <2>1
    <3>2. top.cost + Cost(s, x, c) \in Nat
      BY <1>11, <3>1
    <3> QED BY <1>5, <1>7, <1>13, <2>1, <3>1, <3>2
  <2>2. CASE c \notin better
    <3> DEFINE f == s.from[c]
    <3>1. f \in D /\ t.from[c] = f /\ t.cost[c] = s.cost[c] /\ c \in D
      BY <1>1, <1>2, <2>2
    <3>2. c \in Neighbors(f, policy) /\ Legal(s, f, c) /\ s.cost[f] + Cost(s, f, c) <= s.cost[c]
      BY <1>6, <3>1
    <3> HIDE DEF f
    <3>3. Cost(s, f, c) \in Nat
      <4>1. c # f /\ c \in Cells
        BY <3>2 DEF Neighbors
      <4>2. \E k \in Nat \ {0} : Cost(s, f, c) = k * CellSize
        BY <3>1, <3>2, <4>1, StepsAreLegs DEF D
      <4> QED BY <4>2, Scaling, GridAssumption
    <3>4. t.cost[f] <= s.cost[f] /\ t.cost[f] \in Nat /\ s.cost[f] \in Nat /\ s.cost[c] \in Nat
      BY <1>2, <1>11, <1>12, <3>1
    <3> QED BY <1>5, <3>1, <3>2, <3>3, <3>4
  <2> QED BY <2>1, <2>2
(* Entries never promise less than the cost known.                         *)
<1>17. ASSUME NEW p \in t.frontier
       PROVE  p = Entry(t, p.cell, p.cost) /\ t.cost[p.cell] <= p.cost
  <2>1. CASE p \in s.frontier
    <3>1. p.cell \in D /\ p.cost \in Nat
      BY <2>1 DEF SearchTyped, Waiting, D
    <3>2. p = Entry(s, p.cell, p.cost) /\ s.cost[p.cell] <= p.cost
      BY <1>6, <2>1
    <3> QED BY <1>2, <1>5, <1>11, <1>12, <3>1, <3>2
  <2>2. CASE p \notin s.frontier
    <3>1. PICK c \in better : p = Entry(t, c, t.cost[c])
      BY <1>1, <2>2
    <3>2. p.cell = c /\ p.cost = t.cost[c]
      BY <3>1 DEF Entry
    <3> QED BY <1>11, <3>1, <3>2
  <2> QED BY <2>1, <2>2
(* What is not settled waits.                                              *)
<1>18. ASSUME NEW c \in D \cup better PROVE Queued(t, c) \/ Settled(t, c)
  <2>1. CASE c \in better
    BY <1>1, <2>1 DEF Queued
  <2>2. CASE c = x
    <3> SUFFICES ASSUME NEW d \in Neighbors(x, policy), Legal(t, x, d),
                        t.cost[x] + Cost(t, x, d) <= t.budget
                 PROVE  d \in DOMAIN t.cost /\ t.cost[d] <= t.cost[x] + Cost(t, x, d)
      BY <2>2 DEF Settled
    <3>1. Legal(s, x, d) /\ nowAt(d) <= s.budget /\ t.cost[x] + Cost(t, x, d) = nowAt(d)
      BY <1>1, <1>5, <1>13
    <3>2. d \in Cells /\ d # x
      BY DEF Neighbors
    <3>3. nowAt(d) \in Nat
      BY <1>20, <3>1, <3>2
    <3>4. CASE d \in better
      BY <1>1, <3>1, <3>3, <3>4
    <3>5. CASE d \notin better
      <4>1. d \in D /\ ~(nowAt(d) < s.cost[d])
        BY <1>8, <3>1, <3>5
      <4>2. t.cost[d] = s.cost[d] /\ s.cost[d] \in Nat /\ d \in DOMAIN t.cost
        BY <1>1, <1>2, <3>5, <4>1
      <4> HIDE DEF nowAt
      <4> QED BY <3>1, <3>3, <4>1, <4>2
    <3> QED BY <3>4, <3>5
  <2>3. CASE c \notin better /\ c # x
    <3>1. c \in D /\ t.cost[c] = s.cost[c]
      BY <1>1, <2>3
    <3>2. CASE Queued(s, c)
      <4>1. Entry(s, c, s.cost[c]) \in s.frontier /\ Entry(s, c, s.cost[c]).cell = c
        BY <3>2 DEF Queued, Entry
      <4>2. Entry(s, c, s.cost[c]) # top
        BY <2>3, <4>1 DEF x
      <4>3. Entry(t, c, t.cost[c]) \in t.frontier
        BY <1>1, <1>5, <3>1, <4>1, <4>2
      <4> QED BY <4>3 DEF Queued
    <3>3. CASE Settled(s, c)
      <4> SUFFICES ASSUME NEW d \in Neighbors(c, policy), Legal(t, c, d),
                          t.cost[c] + Cost(t, c, d) <= t.budget
                   PROVE  d \in DOMAIN t.cost /\ t.cost[d] <= t.cost[c] + Cost(t, c, d)
        BY DEF Settled
      <4>1. d \in D /\ s.cost[d] <= s.cost[c] + Cost(s, c, d)
        BY <1>1, <1>5, <3>1, <3>3 DEF Settled, D
      <4>2. d \in Cells /\ d # c /\ Legal(s, c, d)
        BY <1>5 DEF Neighbors
      <4>3. Cost(s, c, d) \in Nat
        <5>1. \E k \in Nat \ {0} : Cost(s, c, d) = k * CellSize
          BY <3>1, <4>2, StepsAreLegs DEF D
        <5> QED BY <5>1, Scaling, GridAssumption
      <4>4. t.cost[d] <= s.cost[d] /\ t.cost[d] \in Nat /\ s.cost[d] \in Nat /\ s.cost[c] \in Nat
        BY <1>2, <1>11, <1>12, <3>1, <4>1
      <4> QED BY <1>1, <1>5, <3>1, <4>1, <4>3, <4>4
    <3> QED BY <1>6, <3>1, <3>2, <3>3
  <2> QED BY <2>1, <2>2, <2>3
<1>19. board.at[t.who].anchor = start /\ t.budget \div CellSize = N /\ start \in D \cup better
  BY <1>1, <1>6 DEF start, N
<1> QED BY <1>1, <1>4, <1>6, <1>14, <1>15, <1>16, <1>17, <1>18, <1>19 DEF Explored

(* A stale entry can be dropped.                                           *)
LEMMA DroppedIsExplored ==
  ASSUME SpatialInv, NEW s, SearchTyped(s), Explored(s), NEW top \in s.frontier,
         top.cost # s.cost[top.cell], NEW t, t = [s EXCEPT !.frontier = s.frontier \ {top}]
  PROVE  Explored(t)
<1>1. /\ t.kind = s.kind /\ t.who = s.who /\ t.mode = s.mode /\ t.goal = s.goal
      /\ t.budget = s.budget /\ t.cost = s.cost /\ t.from = s.from
      /\ t.frontier = s.frontier \ {top}
  BY DEF SearchTyped
<1>2. /\ \A c, d : Cost(t, c, d) = Cost(s, c, d) /\ (Legal(t, c, d) <=> Legal(s, c, d))
      /\ \A c, n : Entry(t, c, n) = Entry(s, c, n)
      /\ Rings(t) = Rings(s)
  BY <1>1 DEF Cost, Legal, Entry, Heuristic, Rings
<1>3. ASSUME NEW c \in DOMAIN s.cost, Queued(s, c) PROVE Queued(t, c)
  <2>1. Entry(s, c, s.cost[c]) \in s.frontier
    BY <1>3 DEF Queued
  <2>2. Entry(s, c, s.cost[c]).cell = c /\ Entry(s, c, s.cost[c]).cost = s.cost[c]
    BY DEF Entry
  <2>3. Entry(s, c, s.cost[c]) # top
    BY <2>2
  <2> QED BY <1>1, <1>2, <2>1, <2>3 DEF Queued
<1>4. ASSUME NEW c \in DOMAIN s.cost, Settled(s, c) PROVE Settled(t, c)
  BY <1>1, <1>2, <1>4 DEF Settled
<1>5. /\ t.goal = None <=> t.kind = "reachable"
      /\ board.at[t.who].anchor \in DOMAIN t.cost /\ t.cost[board.at[t.who].anchor] = 0
  BY <1>1 DEF Explored
<1>6. \A c \in DOMAIN t.cost : \E n \in Nat :
         n <= t.budget \div CellSize /\ t.cost[c] = n * CellSize /\ c \in Rings(t)[n + 1]
  BY <1>1, <1>2 DEF Explored
<1>7. ASSUME NEW c \in DOMAIN t.cost \ {board.at[t.who].anchor}
      PROVE  /\ c \in Neighbors(t.from[c], policy) /\ Legal(t, t.from[c], c)
             /\ t.cost[t.from[c]] + Cost(t, t.from[c], c) <= t.cost[c]
  <2>1. c \in DOMAIN s.cost \ {board.at[s.who].anchor} /\ t.from[c] = s.from[c]
    BY <1>1
  <2>2. /\ c \in Neighbors(s.from[c], policy) /\ Legal(s, s.from[c], c)
        /\ s.cost[s.from[c]] + Cost(s, s.from[c], c) <= s.cost[c]
    BY <2>1 DEF Explored
  <2> QED BY <1>1, <1>2, <2>1, <2>2
<1>8. ASSUME NEW p \in t.frontier
      PROVE  p = Entry(t, p.cell, p.cost) /\ t.cost[p.cell] <= p.cost
  <2>1. p \in s.frontier
    BY <1>1
  <2>2. p = Entry(s, p.cell, p.cost) /\ s.cost[p.cell] <= p.cost
    BY <2>1 DEF Explored
  <2> QED BY <1>1, <1>2, <2>2
<1>9. \A c \in DOMAIN t.cost : Queued(t, c) \/ Settled(t, c)
  BY <1>1, <1>3, <1>4 DEF Explored
<1> QED BY <1>5, <1>6, <1>7, <1>8, <1>9 DEF Explored

ExploredInv == search # None => Explored(search)

LEMMA ExploredStays ==
  ASSUME NEW s, Explored(s), search' = s, board' = board, policy' = policy
  PROVE  Explored(search)'
<1>1. Explored(search)' <=> Explored(s)
  BY DEF Explored, Queued, Settled, Rings, Cost, Legal, Entry, Heuristic
<1> QED BY <1>1

LEMMA ExploredInvStep == SpatialInv /\ ExploredInv /\ [SpatialNext]_spatial => ExploredInv'
<1> SUFFICES ASSUME SpatialInv, ExploredInv, [SpatialNext]_spatial PROVE ExploredInv'
  OBVIOUS
<1>1. ASSUME search' = None PROVE ExploredInv'
  BY <1>1 DEF ExploredInv
<1>2. ASSUME NEW s, Explored(s), search' = s, board' = board, policy' = policy PROVE ExploredInv'
  BY <1>2, ExploredStays DEF ExploredInv
<1>3. ASSUME NEW e \in Entities, NEW mode \in Modes, NEW goal \in Cells, NEW budget \in Budgets,
             AskPath(e, mode, goal, budget)
      PROVE  ExploredInv'
  <2>1. PICK s : s = Begun("path", e, mode, goal, Budget(e, mode, budget))
    OBVIOUS
  <2>2. /\ "path" \in {"path", "reachable"} /\ goal \in Cells \cup {None}
        /\ Budget(e, mode, budget) \in Nat /\ (goal = None <=> "path" = "reachable")
    BY BudgetIsNat, SpatialAssumption
  <2>3. Explored(s)
    BY <2>1, <2>2, BegunIsExplored
  <2> QED BY <1>2, <1>3, <2>1, <2>3 DEF AskPath
<1>4. ASSUME NEW e \in Entities, NEW mode \in Modes, NEW budget \in Budgets,
             AskReachable(e, mode, budget)
      PROVE  ExploredInv'
  <2>1. PICK s : s = Begun("reachable", e, mode, None, budget)
    OBVIOUS
  <2>2. /\ "reachable" \in {"path", "reachable"} /\ None \in Cells \cup {None}
        /\ budget \in Nat /\ (None = None <=> "reachable" = "reachable")
    BY <1>4, SpatialAssumption DEF AskReachable
  <2>3. Explored(s)
    BY <2>1, <2>2, BegunIsExplored
  <2> QED BY <1>2, <1>4, <2>1, <2>3 DEF AskReachable
<1>5. CASE Pop
  <2>1. search # None /\ ~Done(search) /\ SearchTyped(search) /\ Explored(search)
    BY <1>5 DEF Pop, SpatialInv, ExploredInv
  <2>2. search.frontier # {} /\ search.frontier \in SUBSET Waiting
    BY <2>1 DEF Done, SearchTyped
  <2>3. PICK s : s = search
    OBVIOUS
  <2>4. PICK top : top = Top(s)
    OBVIOUS
  <2>5. top \in s.frontier
    BY <2>2, <2>3, <2>4, TopIsWaiting
  <2>6. /\ board' = board /\ policy' = policy
        /\ search' = IF top.cost = s.cost[top.cell] THEN Relaxed(s, top)
                     ELSE [s EXCEPT !.frontier = s.frontier \ {top}]
    BY <1>5, <2>3, <2>4 DEF Pop
  <2>7. PICK t : t = IF top.cost = s.cost[top.cell] THEN Relaxed(s, top)
                     ELSE [s EXCEPT !.frontier = s.frontier \ {top}]
    OBVIOUS
  <2>8. SearchTyped(s) /\ Explored(s)
    BY <2>1, <2>3
  <2>9. Explored(t)
    <3>1. CASE top.cost = s.cost[top.cell]
      <4>1. t = Relaxed(s, top)
        BY <2>7, <3>1
      <4> QED BY <2>5, <2>8, <3>1, <4>1, RelaxedIsExplored
    <3>2. CASE top.cost # s.cost[top.cell]
      <4>1. t = [s EXCEPT !.frontier = s.frontier \ {top}]
        BY <2>7, <3>2
      <4> QED BY <2>5, <2>8, <3>2, <4>1, DroppedIsExplored
    <3> QED BY <3>1, <3>2
  <2>10. search' = t
    BY <2>6, <2>7
  <2> QED BY <1>2, <2>6, <2>9, <2>10
<1>6. CASE Move
  BY <1>1, <1>6 DEF Move
<1>7. CASE Answer
  BY <1>1, <1>7 DEF Answer
(* A step that leaves the search and the map alone.                        *)
<1>8. ASSUME UNCHANGED <<board, policy, search>> PROVE ExploredInv'
  <2>1. CASE search = None
    BY <1>1, <1>8, <2>1
  <2>2. CASE search # None
    <3>1. Explored(search)
      BY <2>2 DEF ExploredInv
    <3>2. PICK s : s = search
      OBVIOUS
    <3> QED BY <1>2, <1>8, <3>1, <3>2
  <2> QED BY <2>1, <2>2
<1>9. ASSUME NEW e \in Entities, NEW mode \in Modes, NEW budget \in Budgets,
             NEW path \in Proposals(e), Propose(e, mode, path, budget)
      PROVE  ExploredInv'
  BY <1>1, <1>9 DEF Propose
<1>10. CASE UNCHANGED spatial
  BY <1>8, <1>10 DEF spatial
<1> QED BY <1>3, <1>4, <1>5, <1>6, <1>7, <1>9, <1>10 DEF SpatialNext

-----------------------------------------------------------------------------
(* Whatever a ring holds is known at its cost, or a cell waits from which  *)
(* even the estimate would not come closer.                                *)
LEMMA RingsAreExplored ==
  ASSUME SpatialInv, NEW s, SearchTyped(s), Explored(s),
         NEW n \in Nat, n <= s.budget \div CellSize, NEW c \in Rings(s)[n + 1]
  PROVE  /\ c \in Cells
         /\ \/ c \in DOMAIN s.cost /\ s.cost[c] <= n * CellSize
            \/ \E o \in DOMAIN s.cost :
                 Queued(s, o) /\ s.cost[o] + Distance(board, o, c) <= n * CellSize
<1> DEFINE N == s.budget \div CellSize
           D == DOMAIN s.cost
           R == Rings(s)
           Known(m, d) ==
             \/ d \in D /\ s.cost[d] <= m * CellSize
             \/ \E o \in D : Queued(s, o) /\ s.cost[o] + Distance(board, o, d) <= m * CellSize
           bad == {m \in Nat : m <= N /\ \E d \in R[m + 1] : ~Known(m, d)}
<1>1. /\ s.budget \in Nat /\ D \subseteq Cells /\ s.who \in Entities
      /\ \A d \in D : s.cost[d] \in Nat
  <2>1. PICK E \in SUBSET Cells : s.cost \in [E -> Nat]
    BY DEF SearchTyped
  <2> QED BY <2>1 DEF SearchTyped
<1>2. N \in Nat
  BY <1>1, Quotient, GridAssumption
<1>3. board \in Map /\ WellPlaced(board) /\ policy \in Policy
  BY SpatialAssumption DEF SpatialInv
<1>4. RingsOf(board, s.who, s.mode, policy, s.budget, R)
  BY SearchHasRings
<1>5. \A m \in Nat : m <= N => R[m + 1] \in SUBSET Cells
  <2>1. ASSUME NEW m \in Nat, m <= N PROVE R[m + 1] \in SUBSET Cells
    <3>1. m <= m
      OBVIOUS
    <3> HIDE DEF R
    <3> QED BY <1>1, <1>4, <2>1, <3>1, RingsGrow
  <2> QED BY <2>1
<1>6. /\ board.at[s.who].anchor \in D /\ s.cost[board.at[s.who].anchor] = 0
      /\ \A d \in D : Queued(s, d) \/ Settled(s, d)
  BY DEF Explored
<1> HIDE DEF R, N, D
<1>7. bad = {}
  <2> SUFFICES ASSUME bad # {} PROVE FALSE
    OBVIOUS
  <2>1. PICK m \in bad : \A j \in bad : m <= j
    BY LeastOf
  <2>2. m \in Nat /\ m <= N
    OBVIOUS
  <2>3. PICK d \in R[m + 1] : ~Known(m, d)
    OBVIOUS
  <2>4. ASSUME NEW j \in Nat, j < m, NEW x \in R[j + 1] PROVE Known(j, x)
    <3>1. ~(m <= j) /\ j <= N
      BY <1>2, <2>2, <2>4
    <3>2. j \notin bad
      BY <2>1, <3>1
    <3> HIDE DEF Known
    <3> QED BY <2>4, <3>1, <3>2
  <2>5. d \in Cells /\ m * CellSize \in Nat
    BY <1>5, <2>2, <2>3, Scaling, GridAssumption
  <2>6. \/ m = 0 /\ d = board.at[s.who].anchor
        \/ m # 0 /\ d \in R[m]
        \/ \E l \in Legs(board, s.who, s.mode, policy), k \in 1 .. m :
             l.to = d /\ l.cost = k * CellSize /\ l.from \in R[m - k + 1]
    BY <1>1, <1>3, <1>4, <2>2, <2>3, RingsAreReached DEF N
  <2>7. CASE m = 0 /\ d = board.at[s.who].anchor
    BY <1>6, <2>3, <2>5, <2>7
  <2>8. CASE m # 0 /\ d \in R[m]
    <3>1. m - 1 \in Nat /\ m - 1 < m /\ (m - 1) + 1 = m
      BY <2>2, <2>8
    <3>2. Known(m - 1, d)
      <4>1. d \in R[(m - 1) + 1]
        BY <2>8, <3>1
      <4> QED BY <2>4, <3>1, <4>1
    <3>3. (m - 1) * CellSize \in Nat /\ (m - 1) * CellSize <= m * CellSize
      <4>1. m - 1 <= m
        BY <2>2
      <4> QED BY <2>2, <3>1, <4>1, Scaling, GridAssumption
    <3>4. \A o \in D : Distance(board, o, d) \in Nat
      BY <1>1, <1>3, <2>5, DistanceIsNat DEF D
    <3> DEFINE a == (m - 1) * CellSize
               b == m * CellSize
    <3>5. a \in Nat /\ b \in Nat /\ a <= b
      BY <2>5, <3>3
    <3>6. \/ d \in D /\ s.cost[d] <= a
          \/ \E o \in D : Queued(s, o) /\ s.cost[o] + Distance(board, o, d) <= a
      BY <3>2
    <3> HIDE DEF a, b
    <3>7. \A o \in D : s.cost[o] \in Nat /\ s.cost[o] + Distance(board, o, d) \in Nat
      BY <1>1, <3>4 DEF D
    <3>8. \/ d \in D /\ s.cost[d] <= b
          \/ \E o \in D : Queued(s, o) /\ s.cost[o] + Distance(board, o, d) <= b
      BY <3>5, <3>6, <3>7
    <3> QED BY <2>3, <3>8 DEF b
  <2>9. ASSUME NEW l \in Legs(board, s.who, s.mode, policy), NEW k \in 1 .. m,
               l.to = d, l.cost = k * CellSize, l.from \in R[m - k + 1]
        PROVE  FALSE
    <3> DEFINE j == m - k
               f == l.from
               a == j * CellSize
               w == l.cost
               b == m * CellSize
    <3>1. j \in Nat /\ j < m /\ k \in Nat /\ j + k = m
      BY <2>2
    <3>2. b = a + w /\ a \in Nat /\ w \in Nat /\ b \in Nat
      <4>1. (j + k) * CellSize = j * CellSize + k * CellSize /\ j * CellSize \in Nat /\ k * CellSize \in Nat
        <5> HIDE DEF j
        <5> QED BY <3>1, Scaling, GridAssumption
      <4>2. m * CellSize = j * CellSize + k * CellSize
        BY <3>1, <4>1
      <4> QED BY <2>5, <2>9, <4>1, <4>2
    <3>3. /\ f \in Cells /\ Fits(board, s.who, f) /\ d \in Neighbors(f, policy)
          /\ StepIsLegal(board, s.who, f, d, s.mode, policy)
          /\ w = StepCost(board, s.who, f, d, s.mode, policy)
          /\ Distance(board, f, d) <= w
      BY <1>1, <1>3, <2>9, LegsInSteps
    <3>4. \/ f \in D /\ s.cost[f] <= a
          \/ \E o \in D : Queued(s, o) /\ s.cost[o] + Distance(board, o, f) <= a
      <4>1. Known(j, f)
        BY <2>4, <2>9, <3>1
      <4> QED BY <4>1
    <3>5. Legal(s, f, d) /\ Cost(s, f, d) = w
      BY <3>3 DEF Legal, Cost
    <3> HIDE DEF a, b, f, w, j
    <3>6. Distance(board, f, d) \in Nat
      BY <1>3, <2>5, <3>3, DistanceIsNat
    <3>7. CASE f \in D /\ s.cost[f] <= a /\ Settled(s, f)
      <4>1. s.cost[f] \in Nat
        BY <1>1, <3>7 DEF D
      <4>2. b <= s.budget
        <5>1. m * CellSize <= s.budget
          BY <1>1, <2>2, Quotient, GridAssumption DEF N
        <5> QED BY <5>1 DEF b
      <4>3. s.cost[f] + Cost(s, f, d) <= s.budget
        BY <1>1, <3>2, <3>5, <3>7, <4>1, <4>2
      <4>4. d \in D /\ s.cost[d] <= s.cost[f] + Cost(s, f, d)
        BY <3>3, <3>5, <3>7, <4>3 DEF Settled, D
      <4>5. s.cost[d] \in Nat
        BY <1>1, <4>4 DEF D
      <4>6. s.cost[d] <= b
        BY <3>2, <3>5, <3>7, <4>1, <4>4, <4>5
      <4> QED BY <2>3, <4>4, <4>6 DEF b
    <3>8. CASE f \in D /\ s.cost[f] <= a /\ Queued(s, f)
      <4>1. s.cost[f] \in Nat
        BY <1>1, <3>8 DEF D
      <4>2. s.cost[f] + Distance(board, f, d) <= b
        BY <3>2, <3>3, <3>6, <3>8, <4>1
      <4> QED BY <2>3, <3>8, <4>2 DEF b
    <3>9. ASSUME NEW o \in D, Queued(s, o), s.cost[o] + Distance(board, o, f) <= a PROVE FALSE
      <4>1. o \in Cells /\ s.cost[o] \in Nat
        BY <1>1, <3>9 DEF D
      <4>2. /\ Distance(board, o, d) <= Distance(board, o, f) + Distance(board, f, d)
            /\ Distance(board, o, d) \in Nat /\ Distance(board, o, f) \in Nat
        BY <1>3, <2>5, <3>3, <4>1, DistanceTriangle, DistanceIsNat
      <4>3. s.cost[o] + Distance(board, o, d) <= b
        BY <3>2, <3>3, <3>6, <3>9, <4>1, <4>2
      <4> QED BY <2>3, <3>9, <4>3 DEF b
    <3> QED BY <1>6, <3>4, <3>7, <3>8, <3>9
  <2> QED BY <2>6, <2>7, <2>8, <2>9
<1>8. Known(n, c)
  <2>1. n \notin bad /\ n <= N
    BY <1>7 DEF N
  <2> HIDE DEF Known
  <2> QED BY <2>1 DEF R
<1>9. c \in Cells
  BY <1>5 DEF R, N
<1> QED BY <1>8, <1>9 DEF D

(* When the loop has ended, what was asked for is known at its least cost. *)
LEMMA DoneIsLeast ==
  ASSUME SpatialInv, NEW s, SearchTyped(s), Explored(s), Done(s),
         NEW n \in Nat, n <= s.budget \div CellSize, NEW c \in Rings(s)[n + 1],
         s.kind = "reachable" \/ c = s.goal
  PROVE  c \in DOMAIN s.cost /\ s.cost[c] <= n * CellSize
<1>1. /\ c \in Cells
      /\ \/ c \in DOMAIN s.cost /\ s.cost[c] <= n * CellSize
         \/ \E o \in DOMAIN s.cost :
              Queued(s, o) /\ s.cost[o] + Distance(board, o, c) <= n * CellSize
  BY RingsAreExplored
<1> SUFFICES ASSUME NEW o \in DOMAIN s.cost, Queued(s, o),
                    s.cost[o] + Distance(board, o, c) <= n * CellSize
             PROVE  c \in DOMAIN s.cost /\ s.cost[c] <= n * CellSize
  BY <1>1
<1> DEFINE top == Top(s)
           q == Entry(s, o, s.cost[o])
<1>2. q \in s.frontier
  BY DEF Queued
<1>3. s.frontier \in SUBSET Waiting /\ s.frontier # {}
  BY <1>2 DEF SearchTyped
<1>4. top \in s.frontier /\ \A p \in s.frontier \ {top} : Sooner(top, p)
  BY <1>3, TopIsWaiting
<1>5. top.cell = s.goal /\ top.cost = s.cost[s.goal] /\ top.cell \in DOMAIN s.cost /\ top \in Waiting
  BY <1>3, <1>4 DEF Done, SearchTyped
<1>6. s.goal \in Cells /\ s.goal # None
  BY <1>5, SpatialAssumption DEF Waiting
<1>7. s.kind # "reachable" /\ c = s.goal /\ c \in DOMAIN s.cost
  BY <1>5, <1>6 DEF Explored
<1>8. top = Entry(s, top.cell, top.cost)
  BY <1>4 DEF Explored
<1>9. board \in Map
  BY DEF SpatialInv
<1>10. s.cost[c] \in Nat
  BY <1>5, <1>7 DEF Waiting
<1>11. top.priority = s.cost[c]
  <2>1. top.priority = s.cost[c] + Distance(board, c, c)
    <3>1. Entry(s, top.cell, top.cost).priority = top.cost + Distance(board, top.cell, s.goal)
      BY <1>6 DEF Entry, Heuristic
    <3> QED BY <1>5, <1>7, <1>8, <3>1
  <2>2. Distance(board, c, c) = 0
    BY <1>1, <1>9, DistanceTriangle
  <2> QED BY <1>10, <2>1, <2>2
<1>12. q.priority = s.cost[o] + Distance(board, o, c)
  BY <1>6, <1>7 DEF Entry, Heuristic
<1>13. q \in Waiting /\ q.priority \in Nat
  BY <1>2, <1>3 DEF Waiting
<1> HIDE DEF top, q
<1>14. top.priority <= q.priority
  <2>1. CASE q = top
    BY <1>13, <2>1
  <2>2. CASE q # top
    <3>1. Sooner(top, q)
      BY <1>2, <1>4, <2>2
    <3> QED BY <1>10, <1>11, <1>13, <3>1 DEF Sooner
  <2> QED BY <2>1, <2>2
<1>15. n * CellSize \in Nat
  BY Scaling, GridAssumption
<1>16. s.cost[c] <= n * CellSize
  BY <1>10, <1>11, <1>12, <1>13, <1>14, <1>15
<1> QED BY <1>7, <1>16

(* The cost of a path, summed up a step at a time.                         *)
LEMMA PathCostUnfolds ==
  ASSUME NEW g, NEW e, NEW path, NEW mode, NEW pol, path \in Seq(Cells), path # << >>,
         \A k \in 1 .. Len(path) - 1 : StepCost(g, e, path[k], path[k + 1], mode, pol) \in Nat
  PROVE  \E F :
           /\ \A k \in 1 .. Len(path) :
                F[k] = IF k = 1 THEN 0
                       ELSE F[k - 1] + StepCost(g, e, path[k - 1], path[k], mode, pol)
           /\ PathCost(g, e, path, mode, pol) = F[Len(path)]
<1> DEFINE n == Len(path)
           more(k) == StepCost(g, e, path[k - 1], path[k], mode, pol)
           IsSum(F) == F = [k \in 1 .. n |-> IF k = 1 THEN 0 ELSE F[k - 1] + more(k)]
           sum == CHOOSE F : IsSum(F)
           S == Nat \X Nat
           first == <<1, 0>>
           step == [p \in S |-> <<p[1] + 1, p[2] + IF p[1] \in 1 .. n - 1 THEN more(p[1] + 1) ELSE 0>>]
<1>1. n \in Nat \ {0}
  OBVIOUS
<1>2. \A i \in 1 .. n - 1 : more(i + 1) \in Nat
  <2>1. ASSUME NEW i \in 1 .. n - 1 PROVE more(i + 1) \in Nat
    <3>1. (i + 1) - 1 = i
      BY <1>1
    <3> QED BY <3>1
  <2> QED BY <2>1
<1> HIDE DEF n, more
<1>3. first \in S /\ step \in [S -> S]
  <2>1. ASSUME NEW p \in S
        PROVE  <<p[1] + 1, p[2] + IF p[1] \in 1 .. n - 1 THEN more(p[1] + 1) ELSE 0>> \in S
    BY <1>2
  <2> QED BY <2>1
<1>4. \E F : IsSum(F)
  <2> HIDE DEF step, first, S, IsSum
  <2>1. PICK G : Iterates(G, S, first, step, n)
    BY <1>1, <1>3, IterationExists
  <2>2. \A k \in 0 .. n : G[k] \in S /\ G[k] = IF k = 0 THEN first ELSE step[G[k - 1]]
    BY <2>1 DEF Iterates
  <2>3. \A k \in 1 .. n : /\ G[k - 1] \in S /\ G[k] = step[G[k - 1]]
                          /\ G[k][1] = G[k - 1][1] + 1
                          /\ G[k][2] = G[k - 1][2] + IF G[k - 1][1] \in 1 .. n - 1
                                                       THEN more(G[k - 1][1] + 1) ELSE 0
    <3> SUFFICES ASSUME NEW k \in 1 .. n
                 PROVE  /\ G[k - 1] \in S /\ G[k] = step[G[k - 1]]
                        /\ G[k][1] = G[k - 1][1] + 1
                        /\ G[k][2] = G[k - 1][2] + IF G[k - 1][1] \in 1 .. n - 1
                                                     THEN more(G[k - 1][1] + 1) ELSE 0
      OBVIOUS
    <3>1. k \in 0 .. n /\ k # 0 /\ k - 1 \in 0 .. n
      BY <1>1
    <3>2. G[k - 1] \in S /\ G[k] = step[G[k - 1]]
      BY <2>2, <3>1
    <3> QED BY <3>2 DEF step
  <2> DEFINE bad == {k \in Nat : k \in 0 .. n /\ G[k][1] # k + 1}
  <2>4. bad = {}
    <3> SUFFICES ASSUME bad # {} PROVE FALSE
      OBVIOUS
    <3>1. PICK k \in bad : \A j \in bad : k <= j
      BY LeastOf
    <3>2. k \in Nat /\ k \in 0 .. n /\ G[k][1] # k + 1
      OBVIOUS
    <3>3. k # 0
      <4> SUFFICES ASSUME k = 0 PROVE FALSE
        OBVIOUS
      <4>1. G[0] = first
        BY <1>1, <2>2
      <4> QED BY <3>2, <4>1 DEF first
    <3>4. k \in 1 .. n /\ k - 1 \in Nat /\ k - 1 \in 0 .. n /\ ~(k <= k - 1)
      BY <1>1, <3>2, <3>3
    <3>5. G[k - 1][1] = k
      BY <3>1, <3>4
    <3> QED BY <2>3, <3>2, <3>4, <3>5
  <2> DEFINE F == [k \in 1 .. n |-> G[k - 1][2]]
  <2>5. ASSUME NEW k \in 1 .. n PROVE F[k] = IF k = 1 THEN 0 ELSE F[k - 1] + more(k)
    <3>1. CASE k = 1
      <4>1. F[1] = G[0][2] /\ G[0] = first
        BY <1>1, <2>2
      <4> QED BY <3>1, <4>1 DEF first
    <3>2. CASE k # 1
      <4>1. /\ k - 1 \in 1 .. n /\ k - 1 \in Nat /\ (k - 1) - 1 \in Nat /\ (k - 1) - 1 \in 0 .. n
            /\ k - 1 \in 1 .. n - 1 /\ (k - 1) + 1 = k /\ ((k - 1) - 1) + 1 = k - 1
        BY <1>1, <3>2
      <4>2. G[(k - 1) - 1][1] = k - 1
        BY <2>4, <4>1
      <4>3. G[k - 1][2] = G[(k - 1) - 1][2] + more(k)
        BY <2>3, <4>1, <4>2
      <4>4. F[k] = G[k - 1][2] /\ F[k - 1] = G[(k - 1) - 1][2]
        BY <4>1
      <4> HIDE DEF F
      <4> QED BY <3>2, <4>3, <4>4
    <3> QED BY <3>1, <3>2
  <2>6. F = [k \in 1 .. n |-> F[k]]
    OBVIOUS
  <2> HIDE DEF F
  <2>7. IsSum(F)
    BY <2>5, <2>6 DEF IsSum
  <2> QED BY <2>7
<1>5. IsSum(sum)
  <2> HIDE DEF IsSum
  <2> QED BY <1>4
<1>6. PathCost(g, e, path, mode, pol) = sum[n]
  BY DEF PathCost, n, more
<1>7. \A k \in 1 .. n : sum[k] = IF k = 1 THEN 0 ELSE sum[k - 1] + more(k)
  <2> HIDE DEF sum
  <2> QED BY <1>5
<1> HIDE DEF sum
<1> QED BY <1>6, <1>7 DEF n, more

(* A cell that is not the start costs more than the one before it.         *)
LEMMA BackIsCheaper ==
  ASSUME SpatialInv, NEW s, SearchTyped(s), Explored(s), NEW c \in DOMAIN s.cost,
         c # board.at[s.who].anchor
  PROVE  LET f == s.from[c]
         IN  /\ f \in DOMAIN s.cost /\ f # c /\ Legal(s, f, c) /\ c \in Cells
             /\ s.cost[f] \in Nat /\ s.cost[c] \in Nat /\ Cost(s, f, c) \in Nat
             /\ s.cost[f] < s.cost[c] /\ s.cost[f] + Cost(s, f, c) <= s.cost[c]
<1> DEFINE f == s.from[c]
<1>1. PICK E \in SUBSET Cells : s.cost \in [E -> Nat]
  BY DEF SearchTyped
<1>2. PICK F \in SUBSET Cells : s.from \in [F -> F]
  BY DEF SearchTyped
<1>3. E = DOMAIN s.cost /\ F = E /\ f \in E /\ s.cost[f] \in Nat /\ s.cost[c] \in Nat /\ c \in Cells
  BY <1>1, <1>2 DEF SearchTyped
<1>4. c \in Neighbors(f, policy) /\ Legal(s, f, c) /\ s.cost[f] + Cost(s, f, c) <= s.cost[c]
  BY DEF Explored
<1> HIDE DEF f
<1>5. f # c
  BY <1>4 DEF Neighbors
<1>6. PICK k \in Nat \ {0} : Cost(s, f, c) = k * CellSize
  BY <1>3, <1>4, <1>5, StepsAreLegs
<1>7. k * CellSize \in Nat /\ 1 * CellSize <= k * CellSize /\ 1 * CellSize = CellSize /\ CellSize > 0
  <2>1. 1 <= k /\ 1 \in Nat
    BY <1>6
  <2> QED BY <1>6, <2>1, Scaling, GridAssumption
<1>8. Cost(s, f, c) \in Nat /\ Cost(s, f, c) > 0
  BY <1>6, <1>7, GridAssumption
<1>9. s.cost[f] < s.cost[c]
  BY <1>3, <1>4, <1>8
<1> QED BY <1>3, <1>4, <1>5, <1>8, <1>9 DEF f

(* Going back ends at the start, because costs fall on the way.            *)
LEMMA PathLeadsBack ==
  ASSUME SpatialInv, NEW s, SearchTyped(s), Explored(s), NEW goal \in DOMAIN s.cost
  PROVE  LET p == PathTo(s, goal)
         IN  /\ p \in Seq(DOMAIN s.cost) /\ p # << >>
             /\ p[1] = board.at[s.who].anchor /\ p[Len(p)] = goal
             /\ \A j \in 1 .. Len(p) - 1 :
                  p[j] = s.from[p[j + 1]] /\ p[j + 1] # board.at[s.who].anchor
<1> DEFINE D == DOMAIN s.cost
           start == board.at[s.who].anchor
           n == Cardinality(Cells)
<1>1. D \in SUBSET Cells /\ s.from \in [D -> D] /\ \A c \in D : s.cost[c] \in Nat
  <2>1. PICK E \in SUBSET Cells : s.cost \in [E -> Nat]
    BY DEF SearchTyped
  <2>2. PICK F \in SUBSET Cells : s.from \in [F -> F]
    BY DEF SearchTyped
  <2>3. DOMAIN s.from = D
    BY DEF SearchTyped
  <2> QED BY <2>1, <2>2, <2>3
<1>2. PICK B : /\ \A k \in 0 .. n :
                    /\ B[k] \in Seq(D) /\ B[k] # << >>
                    /\ B[k] = IF k = 0 THEN <<goal>> ELSE Backward(s, B[k - 1])
               /\ PathTo(s, goal) = B[n]
  BY <1>1, PathToUnfolds
<1>3. n \in Nat /\ IsFiniteSet(Cells)
  BY CellsAreFinite
<1>4. \A c \in D : c # start => s.from[c] \in D /\ s.cost[s.from[c]] < s.cost[c]
  BY BackIsCheaper
<1>5. goal \in D
  OBVIOUS
<1> DEFINE Leads(q) == /\ q[Len(q)] = goal
                       /\ \A j \in 1 .. Len(q) - 1 : q[j] = s.from[q[j + 1]] /\ q[j + 1] # start
           Passed(k, q) == \E Y \in SUBSET D : /\ IsFiniteSet(Y) /\ Cardinality(Y) = k + 1
                                               /\ \A y \in Y : s.cost[q[1]] <= s.cost[y]
           Good(k) == Leads(B[k]) /\ (B[k][1] = start \/ Passed(k, B[k]))
           bad == {k \in Nat : k \in 0 .. n /\ ~Good(k)}
<1> HIDE DEF D, start, n
<1>6. bad = {}
  <2> SUFFICES ASSUME bad # {} PROVE FALSE
    OBVIOUS
  <2>1. PICK k \in bad : \A j \in bad : k <= j
    BY LeastOf
  <2>2. k \in Nat /\ k \in 0 .. n /\ ~Good(k)
    OBVIOUS
  <2>3. k # 0
    <3> SUFFICES ASSUME k = 0 PROVE Good(k)
      BY <2>2
    <3>1. B[k] = <<goal>>
      BY <1>2, <2>2
    <3>2. Len(B[k]) = 1 /\ B[k][1] = goal
      BY <3>1
    <3>3. Leads(B[k])
      BY <3>2
    <3>4. Passed(k, B[k])
      <4>1. {goal} \in SUBSET D /\ IsFiniteSet({goal}) /\ Cardinality({goal}) = 1
        BY <1>5, FS_Singleton
      <4>2. s.cost[goal] <= s.cost[goal]
        BY <1>1, <1>5
      <4> QED BY <3>2, <4>1, <4>2
    <3> QED BY <3>3, <3>4
  <2>4. k - 1 \in Nat /\ k - 1 \in 0 .. n /\ ~(k <= k - 1) /\ (k - 1) + 1 = k
    BY <1>3, <2>2, <2>3
  <2>5. Good(k - 1)
    <3> HIDE DEF Good
    <3> QED BY <2>1, <2>4
  <2> DEFINE q == B[k - 1]
             h == q[1]
             x == s.from[h]
  <2>6. /\ q \in Seq(D) /\ q # << >> /\ Leads(q) /\ (h = start \/ Passed(k - 1, q))
        /\ B[k] = Backward(s, q) /\ Head(q) = h /\ h \in D /\ Len(q) \in Nat \ {0}
    <3>1. q \in Seq(D) /\ q # << >>
      BY <1>2, <2>4
    <3>2. B[k] = Backward(s, q)
      BY <1>2, <2>2, <2>3
    <3>3. Leads(q) /\ (h = start \/ Passed(k - 1, q))
      BY <2>5
    <3> HIDE DEF q
    <3> QED BY <3>1, <3>2, <3>3
  <2>7. CASE h = start
    <3>1. B[k] = q
      BY <2>6, <2>7 DEF Backward, start
    <3>2. Leads(B[k]) /\ B[k][1] = start
      BY <2>6, <2>7, <3>1
    <3> QED BY <2>2, <3>2
  <2>8. CASE h # start
    <3>1. B[k] = <<x>> \o q
      BY <2>6, <2>8 DEF Backward, start
    <3>2. x \in D /\ s.cost[x] < s.cost[h] /\ s.cost[x] \in Nat /\ s.cost[h] \in Nat
      BY <1>1, <1>4, <2>6, <2>8
    <3>3. Passed(k - 1, q) /\ Leads(q)
      BY <2>6, <2>8
    <3>4. PICK Y \in SUBSET D : /\ IsFiniteSet(Y) /\ Cardinality(Y) = (k - 1) + 1
                                /\ \A y \in Y : s.cost[h] <= s.cost[y]
      BY <3>3
    <3> HIDE DEF q, h, Leads, Passed
    <3> DEFINE y0 == x
    <3>5. \A y \in Y : s.cost[y] \in Nat
      BY <1>1
    <3>6. x \notin Y
      BY <3>2, <3>4, <3>5
    <3>7. IsFiniteSet(Y \cup {x}) /\ Cardinality(Y \cup {x}) = k + 1
      <4>1. Cardinality(Y) = k
        BY <2>4, <3>4
      <4> HIDE DEF x
      <4> QED BY <3>4, <3>6, <4>1, FS_AddElement
    <3>8. B[k][1] = x /\ Len(B[k]) = Len(q) + 1 /\ \A j \in 1 .. Len(q) : B[k][j + 1] = q[j]
      <4> HIDE DEF x
      <4>1. <<x>> \in Seq(D) /\ Len(<<x>>) = 1 /\ <<x>>[1] = x
        BY <3>2
      <4> QED BY <2>6, <3>1, <3>2, <4>1
    <3>9. Passed(k, B[k])
      <4> DEFINE Z == Y \cup {x}
      <4>1. Z \in SUBSET D /\ IsFiniteSet(Z) /\ Cardinality(Z) = k + 1
        BY <3>2, <3>7
      <4>2. \A y \in Z : s.cost[B[k][1]] <= s.cost[y]
        BY <3>2, <3>4, <3>5, <3>8
      <4> HIDE DEF Z
      <4> QED BY <4>1, <4>2 DEF Passed
    <3>10. Leads(B[k])
      <4>1. B[k][Len(B[k])] = goal
        <5>1. Len(q) \in 1 .. Len(q)
          BY <2>6
        <5> QED BY <2>6, <3>3, <3>8, <5>1 DEF Leads
      <4>2. ASSUME NEW j \in 1 .. Len(B[k]) - 1
            PROVE  B[k][j] = s.from[B[k][j + 1]] /\ B[k][j + 1] # start
        <5>1. j \in 1 .. Len(q) /\ B[k][j + 1] = q[j]
          BY <2>6, <3>8
        <5>2. CASE j = 1
          <6>1. q[1] = h
            BY DEF h
          <6> QED BY <2>8, <3>8, <5>1, <5>2, <6>1
        <5>3. CASE j # 1
          <6>1. j - 1 \in 1 .. Len(q) - 1 /\ (j - 1) + 1 = j /\ j - 1 \in 1 .. Len(q)
            BY <2>6, <5>1, <5>3
          <6>2. B[k][j] = q[j - 1]
            BY <3>8, <6>1
          <6>3. q[j - 1] = s.from[q[j]] /\ q[j] # start
            BY <3>3, <6>1 DEF Leads
          <6> QED BY <5>1, <6>2, <6>3
        <5> QED BY <5>2, <5>3
      <4> QED BY <4>1, <4>2 DEF Leads
    <3> QED BY <2>2, <3>9, <3>10
  <2> QED BY <2>7, <2>8
<1>7. Good(n)
  <2>1. n \in Nat /\ n \in 0 .. n
    BY <1>3
  <2> HIDE DEF Good
  <2> QED BY <1>6, <2>1
<1>8. B[n][1] = start
  <2> SUFFICES ASSUME Passed(n, B[n]) PROVE FALSE
    BY <1>7
  <2>1. PICK Y \in SUBSET D : Cardinality(Y) = n + 1
    OBVIOUS
  <2>2. Y \in SUBSET Cells
    BY <1>1
  <2>3. Cardinality(Y) <= n
    BY <1>3, <2>2, FS_Subset DEF n
  <2> QED BY <1>3, <2>1, <2>3
<1>9. n \in 0 .. n
  BY <1>3
<1> QED BY <1>2, <1>7, <1>8, <1>9 DEF D, start

(* That path costs no more than the cell is known at, and its end is in    *)
(* the ring of its cost.                                                   *)
LEMMA PathIsPaid ==
  ASSUME SpatialInv, NEW s, SearchTyped(s), Explored(s), NEW goal \in DOMAIN s.cost
  PROVE  \E m \in Nat :
           /\ m <= s.budget \div CellSize /\ goal \in Rings(s)[m + 1]
           /\ PathCost(board, s.who, PathTo(s, goal), s.mode, policy) = m * CellSize
           /\ m * CellSize <= s.cost[goal]
<1> DEFINE D == DOMAIN s.cost
           start == board.at[s.who].anchor
           p == PathTo(s, goal)
           n == Len(p)
           N == s.budget \div CellSize
<1>1. /\ p \in Seq(D) /\ p # << >> /\ p[1] = start /\ p[n] = goal
      /\ \A j \in 1 .. n - 1 : p[j] = s.from[p[j + 1]] /\ p[j + 1] # start
  BY PathLeadsBack
<1>2. D \subseteq Cells /\ s.who \in Entities /\ s.budget \in Nat
  BY DEF SearchTyped
<1> HIDE DEF p
<1>3. p \in Seq(Cells) /\ n \in Nat \ {0} /\ \A j \in 1 .. n : p[j] \in D
  BY <1>1, <1>2
<1>4. ASSUME NEW j \in 1 .. n - 1
      PROVE  /\ p[j] \in D /\ p[j + 1] \in D /\ p[j + 1] \in Cells /\ p[j] # p[j + 1]
             /\ Legal(s, p[j], p[j + 1]) /\ Cost(s, p[j], p[j + 1]) \in Nat
             /\ s.cost[p[j + 1]] \in Nat /\ s.cost[p[j]] \in Nat
             /\ s.cost[p[j]] + Cost(s, p[j], p[j + 1]) <= s.cost[p[j + 1]]
  <2>1. j \in 1 .. n /\ j + 1 \in 1 .. n
    BY <1>3
  <2>2. p[j] = s.from[p[j + 1]] /\ p[j + 1] # start /\ p[j + 1] \in D
    BY <1>1, <1>3, <2>1
  <2> QED BY <1>3, <2>1, <2>2, BackIsCheaper
<1>5. PICK F :
        /\ \A k \in 1 .. n :
             F[k] = IF k = 1 THEN 0
                    ELSE F[k - 1] + StepCost(board, s.who, p[k - 1], p[k], s.mode, policy)
        /\ PathCost(board, s.who, p, s.mode, policy) = F[n]
  <2>1. \A k \in 1 .. Len(p) - 1 : StepCost(board, s.who, p[k], p[k + 1], s.mode, policy) \in Nat
    BY <1>4 DEF Cost
  <2> QED BY <1>1, <1>3, <2>1, PathCostUnfolds
<1>6. RingsOf(board, s.who, s.mode, policy, s.budget, Rings(s))
  BY SearchHasRings
<1>7. board \in Map /\ policy \in Policy
  BY SpatialAssumption DEF SpatialInv
<1>8. /\ start \in D /\ s.cost[start] = 0
      /\ \A c \in D : \E m \in Nat : m <= N /\ s.cost[c] = m * CellSize
  BY DEF Explored
<1> DEFINE Good(k) == \E m \in Nat : /\ m <= N /\ F[k] = m * CellSize /\ m * CellSize <= s.cost[p[k]]
                                     /\ p[k] \in Rings(s)[m + 1]
           bad == {k \in Nat : k \in 1 .. n /\ ~Good(k)}
<1> HIDE DEF n, N, D, start
<1>9. bad = {}
  <2> SUFFICES ASSUME bad # {} PROVE FALSE
    OBVIOUS
  <2>1. PICK k \in bad : \A j \in bad : k <= j
    BY LeastOf
  <2>2. k \in Nat /\ k \in 1 .. n /\ ~Good(k)
    OBVIOUS
  <2>3. k # 1
    <3> SUFFICES ASSUME k = 1 PROVE Good(k)
      BY <2>2
    <3>1. F[k] = 0 /\ p[k] = start
      BY <1>1, <1>5, <2>2
    <3>2. 0 \in Nat /\ 0 * CellSize = 0 /\ 0 <= N /\ 0 + 1 = 1
      BY <1>2, Quotient, GridAssumption DEF N
    <3>3. p[k] \in Rings(s)[1]
      BY <1>6, <3>1 DEF RingsOf, start
    <3>4. F[k] = 0 * CellSize /\ 0 * CellSize <= s.cost[p[k]]
      BY <1>8, <3>1, <3>2
    <3> QED BY <3>2, <3>3, <3>4
  <2> DEFINE j == k - 1
             x == p[j]
             c == p[k]
  <2>4. j \in 1 .. n - 1 /\ j \in Nat /\ j \in 1 .. n /\ ~(k <= j) /\ j + 1 = k
    BY <1>3, <2>2, <2>3 DEF n
  <2>5. Good(j)
    <3> HIDE DEF Good
    <3> QED BY <2>1, <2>4
  <2>6. PICK m \in Nat : m <= N /\ F[j] = m * CellSize /\ m * CellSize <= s.cost[x]
                         /\ x \in Rings(s)[m + 1]
    BY <2>5
  <2>7. /\ x \in D /\ c \in D /\ c \in Cells /\ x # c /\ Legal(s, x, c) /\ Cost(s, x, c) \in Nat
        /\ s.cost[c] \in Nat /\ s.cost[x] \in Nat /\ s.cost[x] + Cost(s, x, c) <= s.cost[c]
    <3>1. p[j + 1] = c
      BY <2>4
    <3> HIDE DEF j
    <3> QED BY <1>4, <2>4, <3>1
  <2>8. F[k] = F[j] + Cost(s, x, c)
    BY <1>5, <2>2, <2>3 DEF Cost
  <2> HIDE DEF j, x, c
  <2> DEFINE l == [from |-> x, to |-> c, cost |-> Cost(s, x, c)]
  <2>9. /\ l \in Legs(board, s.who, s.mode, policy)
        /\ \E i \in Nat \ {0} : Cost(s, x, c) = i * CellSize
    BY <2>7, StepsAreLegs DEF D
  <2>10. PICK i \in Nat \ {0} : Cost(s, x, c) = i * CellSize
    BY <2>9
  <2>11. l.from = x /\ l.to = c /\ l.cost = i * CellSize
    BY <2>10
  <2> HIDE DEF l
  <2> DEFINE u == m + i
  <2>12. u \in Nat /\ u * CellSize = m * CellSize + i * CellSize /\ m * CellSize \in Nat /\ i * CellSize \in Nat
    BY Scaling, GridAssumption
  <2> HIDE DEF u
  <2>13. F[k] = u * CellSize /\ u * CellSize <= s.cost[c]
    BY <2>6, <2>7, <2>8, <2>10, <2>12
  <2>14. u <= N
    <3>1. PICK w \in Nat : w <= N /\ s.cost[c] = w * CellSize
      BY <1>8, <2>7
    <3>2. u <= w
      BY <2>12, <2>13, <3>1, Scaling, GridAssumption
    <3>3. N \in Nat
      BY <1>2, Quotient, GridAssumption DEF N
    <3> QED BY <2>12, <3>1, <3>2, <3>3
  <2>15. c \in Rings(s)[u + 1]
    <3>1. m + i <= s.budget \div CellSize
      BY <2>14 DEF u, N
    <3>2. l.to \in Rings(s)[m + i + 1]
      BY <1>2, <1>6, <1>7, <2>6, <2>9, <2>11, <3>1, RingsAreClosed
    <3> QED BY <2>11, <3>2 DEF u
  <2>16. Good(k)
    <3>1. p[k] = c
      BY DEF c
    <3> QED BY <2>12, <2>13, <2>14, <2>15, <3>1
  <2> QED BY <2>2, <2>16
<1>10. Good(n)
  <2>1. n \in Nat /\ n \in 1 .. n
    BY <1>3 DEF n
  <2> HIDE DEF Good
  <2> QED BY <1>9, <2>1
<1> QED BY <1>1, <1>5, <1>10 DEF p, N, n

(* What is known of a cell at the end is the least it can cost.            *)
LEMMA KnownIsLeast ==
  ASSUME SpatialInv, NEW s, SearchTyped(s), Explored(s), Done(s),
         NEW c \in DOMAIN s.cost, s.kind = "reachable" \/ c = s.goal
  PROVE  s.cost[c] = Least(Rings(s), c) /\ c \in Rings(s)[Len(Rings(s))]
<1> DEFINE N == s.budget \div CellSize
           R == Rings(s)
           at == {i \in DOMAIN R : c \in R[i]}
<1>1. PICK n \in Nat : n <= N /\ s.cost[c] = n * CellSize /\ c \in R[n + 1]
  BY DEF Explored
<1>2. s.budget \in Nat /\ RingsOf(board, s.who, s.mode, policy, s.budget, R)
  BY SearchHasRings DEF SearchTyped
<1>3. N \in Nat
  BY <1>2, Quotient, GridAssumption
<1>4. \A m \in Nat : m <= N /\ c \in R[m + 1] => n <= m
  <2>1. ASSUME NEW m \in Nat, m <= N, c \in R[m + 1] PROVE n <= m
    <3>1. s.cost[c] <= m * CellSize
      BY <2>1, DoneIsLeast
    <3> QED BY <1>1, <3>1, Scaling, GridAssumption
  <2> QED BY <2>1
<1> HIDE DEF R
<1>5. R \in Seq(SUBSET Cells) /\ Len(R) = N + 1
  BY <1>2 DEF RingsOf
<1>6. DOMAIN R = 1 .. N + 1
  BY <1>3, <1>5
<1> HIDE DEF N
<1>7. n + 1 \in at /\ at \in SUBSET Nat
  BY <1>1, <1>3, <1>6
<1>8. \A i \in at : n + 1 <= i
  <2>1. ASSUME NEW i \in at PROVE n + 1 <= i
    <3>1. i - 1 \in Nat /\ i - 1 <= N /\ (i - 1) + 1 = i /\ c \in R[i] /\ i \in Nat
      BY <1>3, <1>6
    <3>2. n <= i - 1
      BY <1>4, <3>1
    <3> QED BY <3>1, <3>2
  <2> QED BY <2>1
<1> HIDE DEF at
<1>9. Min(at) = n + 1
  <2>1. Min(at) \in at /\ \A k \in at : Min(at) <= k
    BY <1>7, MinIsLeast
  <2>2. Min(at) \in Nat /\ Min(at) <= n + 1 /\ n + 1 <= Min(at)
    BY <1>7, <1>8, <2>1
  <2> QED BY <2>2
<1>10. Least(R, c) = CellSize * (Min(at) - 1)
  BY DEF Least, at
<1>11. CellSize * n = n * CellSize /\ (n + 1) - 1 = n
  BY GridAssumption
<1>12. Least(R, c) = s.cost[c]
  BY <1>1, <1>9, <1>10, <1>11
<1>13. c \in R[N + 1]
  <2>1. R[n + 1] \subseteq R[N + 1]
    <3>1. N <= s.budget \div CellSize
      BY <1>3 DEF N
    <3> QED BY <1>1, <1>2, <1>3, <3>1, RingsGrow
  <2> QED BY <1>1, <2>1
<1> QED BY <1>5, <1>12, <1>13 DEF R

(* find_path finds a path exactly when one fits the budget, and one that   *)
(* no other undercuts; reachable_cells lists all that fits it, each cell   *)
(* at its least cost.  Whatever the map, the terrain, the footprint, the   *)
(* mode, the policy and the budget: stopping at the first arrival and      *)
(* skipping stale entries loses nothing.                                   *)
THEOREM SearchesAreExact == SpatialSpec => []SearchIsExact
<1>1. SpatialInit => ExploredInv
  BY DEF SpatialInit, ExploredInv
<1>2. SpatialInv /\ ExploredInv => SearchIsExact
  <2> SUFFICES ASSUME SpatialInv, ExploredInv, search # None, Done(search)
               PROVE  LET rings == Rings(search)
                          near  == rings[Len(rings)]
                      IN  IF search.kind = "reachable"
                            THEN /\ DOMAIN search.cost = near
                                 /\ \A c \in near : search.cost[c] = Least(rings, c)
                            ELSE /\ Found(search) <=> search.goal \in near
                                 /\ Found(search) =>
                                      /\ search.cost[search.goal] = Least(rings, search.goal)
                                      /\ search.cost[search.goal] =
                                           PathCost(board, search.who, PathTo(search, search.goal),
                                                    search.mode, policy)
    BY DEF SearchIsExact, Rings
  <2>1. PICK s : s = search
    OBVIOUS
  <2>2. SearchTyped(s) /\ Explored(s) /\ Done(s)
    BY <2>1 DEF SpatialInv, ExploredInv
  <2> DEFINE R == Rings(s)
             N == s.budget \div CellSize
             near == R[Len(R)]
  <2>3. Len(R) = N + 1 /\ N \in Nat /\ N <= s.budget \div CellSize
    <3>1. s.budget \in Nat /\ RingsOf(board, s.who, s.mode, policy, s.budget, R)
      BY <2>2, SearchHasRings DEF SearchTyped
    <3>2. N \in Nat
      BY <3>1, Quotient, GridAssumption
    <3> QED BY <3>1, <3>2 DEF RingsOf
  <2>4. ASSUME NEW c \in near, s.kind = "reachable" \/ c = s.goal PROVE c \in DOMAIN s.cost
    <3>1. c \in R[N + 1]
      BY <2>3
    <3> HIDE DEF N
    <3> QED BY <2>2, <2>3, <2>4, <3>1, DoneIsLeast
  <2>5. ASSUME NEW c \in DOMAIN s.cost, s.kind = "reachable" \/ c = s.goal
        PROVE  s.cost[c] = Least(R, c) /\ c \in near
    BY <2>2, <2>5, KnownIsLeast
  <2>6. ASSUME Found(s), s.kind # "reachable"
        PROVE  s.cost[s.goal] = PathCost(board, s.who, PathTo(s, s.goal), s.mode, policy)
    <3>1. s.goal \in DOMAIN s.cost
      BY <2>6 DEF Found
    <3>2. PICK m \in Nat :
            /\ m <= N /\ s.goal \in R[m + 1]
            /\ PathCost(board, s.who, PathTo(s, s.goal), s.mode, policy) = m * CellSize
            /\ m * CellSize <= s.cost[s.goal]
      BY <2>2, <3>1, PathIsPaid
    <3>3. s.cost[s.goal] <= m * CellSize
      BY <2>2, <3>2, DoneIsLeast
    <3>4. m * CellSize \in Nat /\ s.cost[s.goal] \in Nat
      <4>1. m * CellSize \in Nat
        BY Scaling, GridAssumption
      <4>2. PICK E \in SUBSET Cells : s.cost \in [E -> Nat]
        BY <2>2 DEF SearchTyped
      <4> QED BY <3>1, <4>1, <4>2
    <3> QED BY <3>2, <3>3, <3>4
  <2> HIDE DEF R, N
  <2>7. Found(s) <=> s.goal \in DOMAIN s.cost
    BY DEF Found
  <2>8. CASE s.kind = "reachable"
    <3>1. DOMAIN s.cost = near
      BY <2>4, <2>5, <2>8
    <3> QED BY <2>1, <2>5, <2>8, <3>1 DEF R
  <2>9. CASE s.kind # "reachable"
    <3>1. Found(s) <=> s.goal \in near
      BY <2>4, <2>5, <2>7
    <3>2. Found(s) => /\ s.cost[s.goal] = Least(R, s.goal)
                      /\ s.cost[s.goal] =
                           PathCost(board, s.who, PathTo(s, s.goal), s.mode, policy)
      BY <2>5, <2>6, <2>7, <2>9
    <3> QED BY <2>1, <2>9, <3>1, <3>2 DEF R
  <2> QED BY <2>8, <2>9
<1> QED BY <1>1, <1>2, SpatialInvariant, ExploredInvStep, PTL DEF SpatialSpec

-----------------------------------------------------------------------------
(* The end of a search                                                     *)

(* What waits, and what may still come to wait: a cell, at less than it is *)
(* known to cost.                                                          *)
Ahead(s) ==
  s.frontier \cup
    {Entry(s, x[1], x[2]) : x \in {x \in Cells \X (0 .. s.budget) :
                                     x[1] \in DOMAIN s.cost => x[2] < s.cost[x[1]]}}

(* Every turn of the loop counts: what it adds was still ahead, and what it*)
(* pops never comes back.  So a search ends, however often cells are       *)
(* bettered and put on the heap again.                                     *)
EveryPopCounts ==
  [][Pop => Ahead(search') \subseteq Ahead(search) \ {Top(search)}]_spatial

(* The cells that may still come to wait, at less than they are known at.  *)
Later(s) ==
  {Entry(s, x[1], x[2]) : x \in {x \in Cells \X (0 .. s.budget) :
                                   x[1] \in DOMAIN s.cost => x[2] < s.cost[x[1]]}}

LEMMA LaterMembers ==
  ASSUME NEW s
  PROVE  /\ \A c \in Cells, n \in 0 .. s.budget :
              (c \in DOMAIN s.cost => n < s.cost[c]) => Entry(s, c, n) \in Later(s)
         /\ \A p \in Later(s) : \E c \in Cells, n \in 0 .. s.budget :
              p = Entry(s, c, n) /\ (c \in DOMAIN s.cost => n < s.cost[c])
<1>1. ASSUME NEW c \in Cells, NEW n \in 0 .. s.budget, c \in DOMAIN s.cost => n < s.cost[c]
      PROVE  Entry(s, c, n) \in Later(s)
  <2>1. <<c, n>> \in Cells \X (0 .. s.budget) /\ <<c, n>>[1] = c /\ <<c, n>>[2] = n
    OBVIOUS
  <2>2. <<c, n>> \in {x \in Cells \X (0 .. s.budget) : x[1] \in DOMAIN s.cost => x[2] < s.cost[x[1]]}
    BY <1>1, <2>1
  <2> QED BY <2>1, <2>2 DEF Later
<1>2. ASSUME NEW p \in Later(s)
      PROVE  \E c \in Cells, n \in 0 .. s.budget :
               p = Entry(s, c, n) /\ (c \in DOMAIN s.cost => n < s.cost[c])
  <2>1. PICK x \in Cells \X (0 .. s.budget) :
          p = Entry(s, x[1], x[2]) /\ (x[1] \in DOMAIN s.cost => x[2] < s.cost[x[1]])
    BY DEF Later
  <2>2. x[1] \in Cells /\ x[2] \in 0 .. s.budget
    OBVIOUS
  <2> QED BY <2>1, <2>2
<1> QED BY <1>1, <1>2

LEMMA AheadParts == ASSUME NEW s PROVE Ahead(s) = s.frontier \cup Later(s)
BY DEF Ahead, Later

(* The loop's body lets in nothing but what was still to come.             *)
LEMMA RelaxedIsBehind ==
  ASSUME SpatialInv, NEW s, SearchTyped(s), NEW top \in s.frontier,
         top.cost = s.cost[top.cell], NEW t, t = Relaxed(s, top)
  PROVE  Ahead(t) \subseteq Ahead(s) \ {top}
<1>1. /\ t.goal = s.goal /\ t.budget = s.budget
      /\ DOMAIN t.cost = DOMAIN s.cost \cup Bettered(s, top)
      /\ \A c \in Bettered(s, top) : t.cost[c] = top.cost + Cost(s, top.cell, c)
      /\ \A c \in DOMAIN s.cost \ Bettered(s, top) : t.cost[c] = s.cost[c]
      /\ t.frontier = (s.frontier \ {top}) \cup {Entry(t, c, t.cost[c]) : c \in Bettered(s, top)}
  BY RelaxedParts
<1>2. \A c, n : /\ Entry(t, c, n) = Entry(s, c, n)
                /\ Entry(s, c, n).cell = c /\ Entry(s, c, n).cost = n
  BY <1>1 DEF Entry, Heuristic
<1>3. /\ top.cell \in DOMAIN s.cost /\ s.budget \in Nat
      /\ \A c \in DOMAIN s.cost : s.cost[c] \in Nat
  <2>1. PICK D \in SUBSET Cells : s.cost \in [D -> Nat]
    BY DEF SearchTyped
  <2> QED BY <2>1 DEF SearchTyped
<1>4. ASSUME NEW c \in Bettered(s, top)
      PROVE  /\ c \in Cells /\ c # top.cell /\ t.cost[c] \in 0 .. s.budget
             /\ c \in DOMAIN s.cost => t.cost[c] < s.cost[c]
  <2>1. c \in Cells /\ t.cost[c] \in Nat
    BY <1>1, BetteredFit DEF Cost
  <2>2. c # top.cell /\ Improves(s, c, t.cost[c])
    BY <1>1 DEF Bettered, Neighbors, Cost
  <2> QED BY <1>3, <2>1, <2>2 DEF Improves
<1> SUFFICES ASSUME NEW p \in t.frontier \cup Later(t)
             PROVE  p \in s.frontier \cup Later(s) /\ p # top
  BY AheadParts
<1>5. CASE p \in s.frontier \ {top}
  BY <1>5
<1>6. CASE \E c \in Bettered(s, top) : p = Entry(t, c, t.cost[c])
  <2>1. PICK c \in Bettered(s, top) : p = Entry(s, c, t.cost[c])
    BY <1>2, <1>6
  <2>2. p \in Later(s)
    BY <1>4, <2>1, LaterMembers
  <2>3. p.cell = c
    BY <1>2, <2>1
  <2> QED BY <1>4, <2>2, <2>3
<1>7. CASE p \in Later(t)
  <2>1. PICK c \in Cells, n \in 0 .. s.budget :
          p = Entry(s, c, n) /\ (c \in DOMAIN t.cost => n < t.cost[c])
    BY <1>1, <1>2, <1>7, LaterMembers
  <2>2. n \in Nat /\ p.cell = c /\ p.cost = n
    BY <1>2, <1>3, <2>1
  <2>3. c \in DOMAIN s.cost => n < s.cost[c]
    <3>1. CASE c \in Bettered(s, top)
      BY <1>1, <1>3, <1>4, <2>1, <2>2, <3>1
    <3>2. CASE c \notin Bettered(s, top)
      BY <1>1, <2>1, <3>2
    <3> QED BY <3>1, <3>2
  <2>4. p \in Later(s)
    BY <2>1, <2>3, LaterMembers
  <2>5. p # top
    <3> SUFFICES ASSUME p = top PROVE FALSE
      OBVIOUS
    <3>1. c = top.cell /\ n = s.cost[c]
      BY <2>2
    <3> QED BY <1>3, <2>2, <2>3, <3>1
  <2> QED BY <2>4, <2>5
<1> QED BY <1>1, <1>5, <1>6, <1>7

(* A stale entry is dearer than the cell is known at, so it does not come  *)
(* back either.                                                            *)
LEMMA DroppedIsBehind ==
  ASSUME NEW s, SearchTyped(s), Explored(s), NEW top \in s.frontier,
         NEW t, t = [s EXCEPT !.frontier = s.frontier \ {top}]
  PROVE  Ahead(t) \subseteq Ahead(s) \ {top}
<1>1. t.goal = s.goal /\ t.budget = s.budget /\ t.cost = s.cost /\ t.frontier = s.frontier \ {top}
  BY DEF SearchTyped
<1>2. \A c, n : Entry(t, c, n) = Entry(s, c, n)
  BY <1>1 DEF Entry, Heuristic
<1>3. Later(t) = Later(s)
  BY <1>1, <1>2 DEF Later
<1>4. top \notin Later(s)
  <2> SUFFICES ASSUME top \in Later(s) PROVE FALSE
    OBVIOUS
  <2>1. PICK c \in Cells, n \in 0 .. s.budget :
          top = Entry(s, c, n) /\ (c \in DOMAIN s.cost => n < s.cost[c])
    BY LaterMembers
  <2>2. top.cell = c /\ top.cost = n
    BY <2>1 DEF Entry
  <2>3. top.cell \in DOMAIN s.cost /\ s.cost[top.cell] <= top.cost
    BY DEF Explored, SearchTyped
  <2>4. s.budget \in Nat /\ \A d \in DOMAIN s.cost : s.cost[d] \in Nat
    <3>1. PICK D \in SUBSET Cells : s.cost \in [D -> Nat]
      BY DEF SearchTyped
    <3> QED BY <3>1 DEF SearchTyped
  <2>5. n \in Nat /\ s.cost[c] \in Nat /\ n < s.cost[c] /\ s.cost[c] <= n
    BY <2>1, <2>2, <2>3, <2>4
  <2> QED BY <2>5
<1> QED BY <1>1, <1>3, <1>4, AheadParts

LEMMA PopIsBehind ==
  ASSUME SpatialInv, ExploredInv, Pop
  PROVE  Ahead(search') \subseteq Ahead(search) \ {Top(search)}
<1>1. search # None /\ ~Done(search) /\ SearchTyped(search) /\ Explored(search)
  BY DEF Pop, SpatialInv, ExploredInv
<1>2. search.frontier # {} /\ search.frontier \in SUBSET Waiting
  BY <1>1 DEF Done, SearchTyped
<1>3. PICK s : s = search
  OBVIOUS
<1>4. PICK top : top = Top(s)
  OBVIOUS
<1>5. SearchTyped(s) /\ Explored(s) /\ top \in s.frontier
  BY <1>1, <1>2, <1>3, <1>4, TopIsWaiting
<1>6. PICK t : t = IF top.cost = s.cost[top.cell] THEN Relaxed(s, top)
                   ELSE [s EXCEPT !.frontier = s.frontier \ {top}]
  OBVIOUS
<1>7. search' = t
  BY <1>3, <1>4, <1>6 DEF Pop
<1>8. Ahead(t) \subseteq Ahead(s) \ {top}
  <2>1. CASE top.cost = s.cost[top.cell]
    <3>1. t = Relaxed(s, top)
      BY <1>6, <2>1
    <3> QED BY <1>5, <2>1, <3>1, RelaxedIsBehind
  <2>2. CASE top.cost # s.cost[top.cell]
    <3>1. t = [s EXCEPT !.frontier = s.frontier \ {top}]
      BY <1>6, <2>2
    <3> QED BY <1>5, <3>1, DroppedIsBehind
  <2> QED BY <2>1, <2>2
<1> QED BY <1>3, <1>4, <1>7, <1>8

(* Whatever the map, the policy and the budget, an entry that find_path or *)
(* reachable_cells has popped is never pushed again, and what is pushed    *)
(* was still to come (movement.py's loops).                                *)
THEOREM SearchesWindDown == SpatialSpec => EveryPopCounts
<1>1. SpatialInv /\ ExploredInv /\ [SpatialNext]_spatial
        => [Pop => Ahead(search') \subseteq Ahead(search) \ {Top(search)}]_spatial
  BY PopIsBehind
<1>2. SpatialInit => ExploredInv
  BY DEF SpatialInit, ExploredInv
<1> QED BY <1>1, <1>2, SpatialInvariant, ExploredInvStep, PTL DEF SpatialSpec, EveryPopCounts

(* Every entry there is: the cells at the costs within the budget.         *)
AllEntries(s) == {Entry(s, x[1], x[2]) : x \in Cells \X (0 .. s.budget)}

(* Nothing is ever ahead of a search but these.                            *)
AheadInv == search # None => Ahead(search) \subseteq AllEntries(search)

LEMMA AheadStays ==
  ASSUME AheadInv, UNCHANGED <<board, search>>
  PROVE  AheadInv'
<1>1. search # None => (Ahead(search)' = Ahead(search) /\ AllEntries(search)' = AllEntries(search))
  BY DEF Ahead, AllEntries, Entry, Heuristic
<1> QED BY <1>1 DEF AheadInv

LEMMA BegunIsAhead ==
  ASSUME SpatialInv, NEW kind, NEW e \in Entities, NEW mode, NEW goal, NEW budget \in Nat,
         NEW s, s = Begun(kind, e, mode, goal, budget)
  PROVE  Ahead(s) \subseteq AllEntries(s)
<1> DEFINE start == board.at[e].anchor
<1>1. s.budget = budget /\ s.frontier = {Entry(s, start, 0)} /\ start \in Cells
  BY BegunParts, PlacedInCells DEF SpatialInv
<1>2. <<start, 0>> \in Cells \X (0 .. s.budget)
  BY <1>1
<1>3. Entry(s, <<start, 0>>[1], <<start, 0>>[2]) \in AllEntries(s)
  BY <1>2 DEF AllEntries
<1>4. Later(s) \subseteq AllEntries(s)
  BY DEF Later, AllEntries
<1> QED BY <1>1, <1>3, <1>4, AheadParts

LEMMA AheadInvStep ==
  SpatialInv /\ ExploredInv /\ AheadInv /\ [SpatialNext]_spatial => AheadInv'
<1> SUFFICES ASSUME SpatialInv, ExploredInv, AheadInv, [SpatialNext]_spatial PROVE AheadInv'
  OBVIOUS
<1>1. ASSUME search' = None PROVE AheadInv'
  BY <1>1 DEF AheadInv
<1>2. ASSUME NEW s, search' = s, board' = board, Ahead(s) \subseteq AllEntries(s)
      PROVE  AheadInv'
  <2>1. Ahead(search)' = Ahead(s) /\ AllEntries(search)' = AllEntries(s)
    BY <1>2 DEF Ahead, AllEntries, Entry, Heuristic
  <2> QED BY <1>2, <2>1 DEF AheadInv
<1>3. ASSUME NEW e \in Entities, NEW mode \in Modes, NEW goal \in Cells, NEW budget \in Budgets,
             AskPath(e, mode, goal, budget)
      PROVE  AheadInv'
  <2>1. PICK s : s = Begun("path", e, mode, goal, Budget(e, mode, budget))
    OBVIOUS
  <2>2. Ahead(s) \subseteq AllEntries(s)
    BY <2>1, BudgetIsNat, BegunIsAhead
  <2> QED BY <1>2, <1>3, <2>1, <2>2 DEF AskPath
<1>4. ASSUME NEW e \in Entities, NEW mode \in Modes, NEW budget \in Budgets,
             AskReachable(e, mode, budget)
      PROVE  AheadInv'
  <2>1. PICK s : s = Begun("reachable", e, mode, None, budget)
    OBVIOUS
  <2>2. budget \in Nat
    BY <1>4, SpatialAssumption DEF AskReachable
  <2>3. Ahead(s) \subseteq AllEntries(s)
    BY <2>1, <2>2, BegunIsAhead
  <2> QED BY <1>2, <1>4, <2>1, <2>3 DEF AskReachable
<1>5. CASE Pop
  <2>1. Ahead(search') \subseteq Ahead(search) /\ search # None /\ board' = board
    BY <1>5, PopIsBehind DEF Pop
  <2>2. AllEntries(search') = AllEntries(search)
    <3>1. search'.goal = search.goal /\ search'.budget = search.budget
      <4>1. PICK s : s = search
        OBVIOUS
      <4>2. SearchTyped(s) /\ ~Done(s)
        BY <1>5, <4>1 DEF Pop, SpatialInv
      <4>3. s.frontier # {} /\ s.frontier \in SUBSET Waiting
        BY <4>2 DEF Done, SearchTyped
      <4>4. PICK top : top = Top(s)
        OBVIOUS
      <4>5. top \in s.frontier
        BY <4>3, <4>4, TopIsWaiting
      <4>6. CASE top.cost = s.cost[top.cell]
        <5>1. search' = Relaxed(s, top)
          BY <1>5, <4>1, <4>4, <4>6 DEF Pop
        <5> QED BY <4>1, <4>2, <4>5, <5>1, RelaxedParts
      <4>7. CASE top.cost # s.cost[top.cell]
        <5>1. search' = [s EXCEPT !.frontier = s.frontier \ {top}]
          BY <1>5, <4>1, <4>4, <4>7 DEF Pop
        <5> QED BY <4>1, <4>2, <5>1 DEF SearchTyped
      <4> QED BY <4>6, <4>7
    <3> QED BY <3>1 DEF AllEntries, Entry, Heuristic
  <2>3. Ahead(search') \subseteq AllEntries(search')
    BY <2>1, <2>2 DEF AheadInv
  <2>4. PICK s : s = search'
    OBVIOUS
  <2> QED BY <1>2, <2>1, <2>3, <2>4
<1>6. CASE Move
  BY <1>1, <1>6 DEF Move
<1>7. CASE Answer
  BY <1>1, <1>7 DEF Answer
<1>8. ASSUME NEW e \in Entities, NEW mode \in Modes, NEW budget \in Budgets,
             NEW path \in Proposals(e), Propose(e, mode, path, budget)
      PROVE  AheadInv'
  BY <1>1, <1>8 DEF Propose
<1>9. CASE UNCHANGED spatial
  BY <1>9, AheadStays DEF spatial
<1> QED BY <1>3, <1>4, <1>5, <1>6, <1>7, <1>8, <1>9 DEF SpatialNext

LEMMA EntriesAreCounted ==
  ASSUME NEW s, s.budget \in Nat
  PROVE  /\ IsFiniteSet(AllEntries(s)) /\ Cardinality(AllEntries(s)) \in Nat
         /\ Cardinality(AllEntries(s)) <= Cardinality(Cells) * (s.budget + 1)
<1> DEFINE pairs == Cells \X (0 .. s.budget)
<1>1. IsFiniteSet(0 .. s.budget) /\ Cardinality(0 .. s.budget) = s.budget + 1
  BY FS_Interval
<1>2. IsFiniteSet(pairs) /\ Cardinality(pairs) = Cardinality(Cells) * (s.budget + 1)
  BY <1>1, CellsAreFinite, FS_Product
<1> DEFINE entry == [x \in pairs |-> Entry(s, x[1], x[2])]
<1>3. entry \in Surjection(pairs, AllEntries(s))
  BY DEF Surjection, AllEntries
<1> HIDE DEF entry
<1>4. IsFiniteSet(AllEntries(s)) /\ Cardinality(AllEntries(s)) <= Cardinality(pairs)
  BY <1>2, <1>3, FS_Surjection
<1> QED BY <1>2, <1>4, FS_CardinalityType

(* How long a search can take: it never has more entries ahead of it than  *)
(* the map has cells at whole costs within the budget, and each turn of    *)
(* its loop takes one of them (SearchesWindDown).                          *)
THEOREM SearchesAreShort ==
  SpatialSpec =>
    [](search # None =>
         /\ IsFiniteSet(Ahead(search))
         /\ Cardinality(Ahead(search)) <= Cardinality(Cells) * (search.budget + 1))
<1>1. SpatialInit => ExploredInv /\ AheadInv
  BY DEF SpatialInit, ExploredInv, AheadInv
<1>2. SpatialInv /\ AheadInv =>
        (search # None =>
           /\ IsFiniteSet(Ahead(search))
           /\ Cardinality(Ahead(search)) <= Cardinality(Cells) * (search.budget + 1))
  <2> SUFFICES ASSUME SpatialInv, AheadInv, search # None
               PROVE  /\ IsFiniteSet(Ahead(search))
                      /\ Cardinality(Ahead(search)) <= Cardinality(Cells) * (search.budget + 1)
    OBVIOUS
  <2>1. search.budget \in Nat /\ Ahead(search) \subseteq AllEntries(search)
    BY DEF SpatialInv, SearchTyped, AheadInv
  <2>2. PICK s : s = search
    OBVIOUS
  <2>3. /\ IsFiniteSet(AllEntries(s)) /\ Cardinality(AllEntries(s)) \in Nat
        /\ Cardinality(AllEntries(s)) <= Cardinality(Cells) * (s.budget + 1)
    BY <2>1, <2>2, EntriesAreCounted
  <2>4. /\ IsFiniteSet(Ahead(s)) /\ Cardinality(Ahead(s)) \in Nat
        /\ Cardinality(Ahead(s)) <= Cardinality(AllEntries(s))
    BY <2>1, <2>2, <2>3, FS_Subset, FS_CardinalityType
  <2>5. Cardinality(Cells) * (s.budget + 1) \in Nat
    <3>1. Cardinality(Cells) \in Nat /\ s.budget + 1 \in Nat
      BY <2>1, <2>2, CellsAreFinite
    <3>2. \A a, b \in Nat : a * b \in Nat
      OBVIOUS
    <3> QED BY <3>1, <3>2
  <2> QED BY <2>2, <2>3, <2>4, <2>5
<1> QED BY <1>1, <1>2, SpatialInvariant, ExploredInvStep, AheadInvStep, PTL DEF SpatialSpec

-----------------------------------------------------------------------------
(* Areas                                                                   *)
LEMMA SquareBounds ==
  ASSUME NEW n \in Int, NEW size \in Nat, n * n <= size * size
  PROVE  Abs(n) <= size
<1>1. SUFFICES ASSUME Abs(n) > size PROVE FALSE
  BY DEF Abs
<1>2. Abs(n) \in Nat /\ Abs(n) * Abs(n) = n * n /\ Abs(n) >= size + 1
  BY <1>1 DEF Abs
<1>3. \A a, b \in Nat : a >= b + 1 => a * a >= (b + 1) * (b + 1)
  OBVIOUS
<1>4. Abs(n) * Abs(n) >= (size + 1) * (size + 1)
  BY <1>2, <1>3
<1>5. (size + 1) * (size + 1) > size * size
  OBVIOUS
<1> QED BY <1>2, <1>4, <1>5

LEMMA SquareIsNat ==
  ASSUME NEW n \in Int
  PROVE  n * n \in Nat /\ (n # 0 => n * n > 0)
OBVIOUS

(* How far a cell is from another, along the axes: whole cell sizes, and   *)
(* none of them only when the cells are one.                               *)
LEMMA Offcuts ==
  ASSUME NEW g \in Map, NEW c \in Cells, NEW d \in Cells
  PROVE  /\ Dx(c, d) \in Int /\ Dy(c, d) \in Int /\ Dz(g, c, d) \in Int
         /\ d[1] - c[1] \in Int /\ d[2] - c[2] \in Int
         /\ Dx(c, d) = CellSize * (d[1] - c[1]) /\ Dy(c, d) = CellSize * (d[2] - c[2])
         /\ Dx(c, d) = 0 /\ Dy(c, d) = 0 <=> d = c
         /\ d = c => Dz(g, c, d) = 0
         /\ Dz(g, c, d) = 0 <=> g.land[d].height = g.land[c].height
<1>1. c = <<c[1], c[2]>> /\ d = <<d[1], d[2]>> /\ {c[1], c[2], d[1], d[2]} \subseteq Int
  BY DEF Cells
<1>2. g.land[c] \in Terrain /\ g.land[d] \in Terrain
  BY DEF Map
<1>3. g.land[c].height \in Int /\ g.land[d].height \in Int
  BY <1>2 DEF Terrain
<1>4. \A n \in Int : CellSize * n \in Int /\ (CellSize * n = 0 <=> n = 0)
  BY GridAssumption
<1>5. d[1] - c[1] = 0 /\ d[2] - c[2] = 0 <=> d = c
  BY <1>1
<1>6. d[1] - c[1] \in Int /\ d[2] - c[2] \in Int
  BY <1>1
<1>7. /\ Dx(c, d) \in Int /\ Dy(c, d) \in Int
      /\ Dx(c, d) = 0 /\ Dy(c, d) = 0 <=> d = c
  BY <1>4, <1>5, <1>6 DEF Dx, Dy
<1>8. /\ Dz(g, c, d) \in Int /\ (d = c => Dz(g, c, d) = 0)
      /\ Dz(g, c, d) = 0 <=> g.land[d].height = g.land[c].height
  BY <1>3 DEF Dz
<1> QED BY <1>6, <1>7, <1>8 DEF Dx, Dy

LEMMA CompassPoints ==
  ASSUME NEW dir \in Offsets \ {<<0, 0>>}
  PROVE  /\ dir = <<dir[1], dir[2]>> /\ dir[1] \in -1 .. 1 /\ dir[2] \in -1 .. 1
         /\ dir[1] # 0 \/ dir[2] # 0
         /\ Sq(dir[1]) + Sq(dir[2]) \in {1, 2}
<1>1. dir = <<dir[1], dir[2]>> /\ dir[1] \in -1 .. 1 /\ dir[2] \in -1 .. 1
  BY DEF Offsets
<1>2. dir[1] # 0 \/ dir[2] # 0
  BY <1>1
<1>3. \A a, b \in -1 .. 1 : a # 0 \/ b # 0 => a * a + b * b \in {1, 2}
  OBVIOUS
<1> QED BY <1>1, <1>2, <1>3 DEF Sq

(* A cone is a part of the sphere, and holds its origin.                   *)
LEMMA ConeInSphere ==
  ASSUME NEW g \in Map, NEW c \in Cells, NEW dir, NEW size \in Nat, NEW letIn
  PROVE  Cone(g, c, dir, size, letIn) \subseteq Sphere(g, c, size) /\ c \in Cone(g, c, dir, size, letIn)
<1>1. c \in Sphere(g, c, size)
  <2>1. Dx(c, c) = 0 /\ Dy(c, c) = 0 /\ Dz(g, c, c) = 0
    BY Offcuts
  <2>2. size * size \in Nat
    BY SquareIsNat
  <2> QED BY <2>1, <2>2 DEF Sphere, Sq
<1>2. c \in Cone(g, c, dir, size, letIn)
  BY DEF Cone
<1>3. Cone(g, c, dir, size, letIn) \subseteq Sphere(g, c, size)
  BY <1>1 DEF Cone, Sphere, Far
<1> QED BY <1>2, <1>3

(* What a cone asks of a cell other than its origin.                       *)
LEMMA InCone ==
  ASSUME NEW g, NEW c, NEW dir, NEW size, NEW letIn,
         NEW d \in Cone(g, c, dir, size, letIn), d # c
  PROVE  LET along == Dx(c, d) * dir[1] + Dy(c, d) * dir[2]
             needed == (Sq(Dx(c, d)) + Sq(Dy(c, d)) + Sq(Dz(g, c, d))) * (Sq(dir[1]) + Sq(dir[2]))
         IN  /\ d \in Cells /\ along > 0
             /\ \/ 2 * Sq(along) > needed
                \/ 2 * Sq(along) = needed /\ d \in ConeEdge(g, c, dir) \cap letIn
<1>1. d \in Cells /\ Along(c, d, dir) > 0
  BY DEF Cone
<1>2. \/ 2 * Sq(Along(c, d, dir)) > Far(g, c, d) * Norm(dir)
      \/ d \in ConeEdge(g, c, dir) \cap letIn
  BY DEF Cone
<1>3. d \in ConeEdge(g, c, dir) => 2 * Sq(Along(c, d, dir)) = Far(g, c, d) * Norm(dir)
  BY DEF ConeEdge
<1> QED BY <1>1, <1>2, <1>3, Zenon DEF Along, Far, Norm

(* On level ground some cone holds a cell of the sphere: the diagonal one  *)
(* of its quadrant, or the one along its axis.                             *)
LEMMA SomeConeHolds ==
  ASSUME NEW g \in Map, NEW c \in Cells, NEW size \in Nat,
         NEW d \in Sphere(g, c, size), g.land[d].height = g.land[c].height, NEW letIn
  PROVE  \E dir \in Offsets \ {<<0, 0>>} : d \in Cone(g, c, dir, size, letIn)
<1> DEFINE X == Dx(c, d)
           Y == Dy(c, d)
<1>1. /\ d \in Cells /\ X \in Int /\ Y \in Int /\ (X = 0 /\ Y = 0 <=> d = c)
      /\ Dz(g, c, d) = 0 /\ X * X + Y * Y + Dz(g, c, d) * Dz(g, c, d) <= size * size
  <2>1. d \in Cells /\ Sq(X) + Sq(Y) + Sq(Dz(g, c, d)) <= Sq(size)
    BY DEF Sphere
  <2> QED BY <2>1, Offcuts DEF Sq
<1> HIDE DEF X, Y
<1>2. CASE d = c
  <2>1. <<1, 0>> \in Offsets \ {<<0, 0>>}
    BY DEF Offsets
  <2> QED BY <1>2, <2>1, ConeInSphere
<1>3. CASE d # c
  <2> DEFINE dir == <<Sign(X), Sign(Y)>>
  <2>1. /\ dir \in Offsets \ {<<0, 0>>} /\ Sign(X) \in -1 .. 1 /\ Sign(Y) \in -1 .. 1
        /\ dir[1] = Sign(X) /\ dir[2] = Sign(Y)
    BY <1>1, <1>3 DEF Sign, Offsets
  <2>2. X * Sign(X) + Y * Sign(Y) > 0
    BY <1>1, <1>3 DEF Sign
  <2>3. 2 * ((X * Sign(X) + Y * Sign(Y)) * (X * Sign(X) + Y * Sign(Y)))
          > (X * X + Y * Y) * (Sign(X) * Sign(X) + Sign(Y) * Sign(Y))
    <3>1. /\ X * X \in Nat /\ Y * Y \in Nat
          /\ (X # 0 => X * X > 0) /\ (Y # 0 => Y * Y > 0)
      BY <1>1, SquareIsNat
    <3>2. CASE X = 0
      <4>1. Sign(X) = 0 /\ Sign(Y) * Sign(Y) = 1 /\ Sign(Y) \in Int
        BY <1>1, <1>3, <3>2 DEF Sign
      <4>2. (Y * Sign(Y)) * (Y * Sign(Y)) = Y * Y
        BY <1>1 DEF Sign
      <4> QED BY <1>1, <1>3, <3>1, <3>2, <4>1, <4>2
    <3>3. CASE Y = 0
      <4>1. Sign(Y) = 0 /\ Sign(X) * Sign(X) = 1 /\ Sign(X) \in Int
        BY <1>1, <1>3, <3>3 DEF Sign
      <4>2. (X * Sign(X)) * (X * Sign(X)) = X * X
        BY <1>1 DEF Sign
      <4> QED BY <1>1, <1>3, <3>1, <3>3, <4>1, <4>2
    <3>4. CASE X # 0 /\ Y # 0
      <4> DEFINE A == X * Sign(X)
                 B == Y * Sign(Y)
      <4>1. /\ A \in Nat /\ B \in Nat /\ A > 0 /\ B > 0
            /\ A * A = X * X /\ B * B = Y * Y
            /\ Sign(X) * Sign(X) = 1 /\ Sign(Y) * Sign(Y) = 1
        BY <1>1, <3>4 DEF Sign
      <4> HIDE DEF A, B
      <4>2. (A + B) * (A + B) = A * A + 2 * (A * B) + B * B
        BY <4>1
      <4>3. A * B > 0
        BY <4>1
      <4>4. (A + B) * (A + B) > X * X + Y * Y
        BY <4>1, <4>2, <4>3
      <4> QED BY <3>1, <4>1, <4>4 DEF A, B
    <3> QED BY <3>2, <3>3, <3>4
  <2> DEFINE along == X * dir[1] + Y * dir[2]
             far   == X * X + Y * Y + Dz(g, c, d) * Dz(g, c, d)
  <2>4. far = X * X + Y * Y /\ along = X * Sign(X) + Y * Sign(Y)
    BY <1>1, <2>1, SquareIsNat
  <2> HIDE DEF dir
  <2>5. /\ far <= size * size
        /\ along > 0 /\ 2 * (along * along) > far * (dir[1] * dir[1] + dir[2] * dir[2])
    BY <1>1, <2>1, <2>2, <2>3, <2>4
  <2>6. d \in Cone(g, c, dir, size, letIn)
    BY <1>1, <2>5 DEF Cone, Far, Along, Norm, Sq, X, Y
  <2> QED BY <2>1, <2>6
<1> QED BY <1>2, <1>3

(* Cones of opposite directions share their origin and nothing else.       *)
LEMMA ConesOpposed ==
  ASSUME NEW g \in Map, NEW c \in Cells, NEW size \in Nat,
         NEW dir \in Offsets \ {<<0, 0>>}, NEW letIn, NEW other
  PROVE  Cone(g, c, dir, size, letIn) \cap Cone(g, c, <<-dir[1], -dir[2]>>, size, other) = {c}
<1> DEFINE away == <<-dir[1], -dir[2]>>
<1> SUFFICES ASSUME NEW d \in Cone(g, c, dir, size, letIn) \cap Cone(g, c, away, size, other), d # c
             PROVE  FALSE
  BY ConeInSphere
<1>1. d \in Cone(g, c, dir, size, letIn) /\ d \in Cone(g, c, away, size, other)
  OBVIOUS
<1>2. dir[1] \in Int /\ dir[2] \in Int /\ away[1] = -dir[1] /\ away[2] = -dir[2]
  BY CompassPoints
<1> HIDE DEF away
<1>3. /\ d \in Cells /\ Dx(c, d) * dir[1] + Dy(c, d) * dir[2] > 0
      /\ Dx(c, d) * away[1] + Dy(c, d) * away[2] > 0
  BY <1>1, InCone
<1>4. Dx(c, d) \in Int /\ Dy(c, d) \in Int
  BY <1>3, Offcuts
<1>5. Dx(c, d) * away[1] + Dy(c, d) * away[2] = -(Dx(c, d) * dir[1] + Dy(c, d) * dir[2])
  BY <1>2, <1>4
<1>6. Dx(c, d) * dir[1] + Dy(c, d) * dir[2] \in Int
  BY <1>2, <1>4
<1> QED BY <1>3, <1>5, <1>6

(* Cones of directions a right angle apart share their origin, and where   *)
(* the ground is level a cell on the edge of both, if both let it in.      *)
LEMMA ConesTurned ==
  ASSUME NEW g \in Map, NEW c \in Cells, NEW size \in Nat,
         NEW dir \in Offsets \ {<<0, 0>>}, NEW letIn, NEW other,
         NEW d \in Cone(g, c, dir, size, letIn), d # c,
         d \in Cone(g, c, <<-dir[2], dir[1]>>, size, other)
  PROVE  /\ d \in ConeEdge(g, c, dir) \cap letIn
         /\ d \in ConeEdge(g, c, <<-dir[2], dir[1]>>) \cap other
<1> DEFINE away == <<-dir[2], dir[1]>>
           X == Dx(c, d)
           Y == Dy(c, d)
           Z == Dz(g, c, d)
           p == dir[1]
           q == dir[2]
           flat == X * X + Y * Y
           norm == p * p + q * q
           along(a, b) == X * a + Y * b
           far == flat + Z * Z
<1>1. away[1] = -q /\ away[2] = p
  OBVIOUS
<1>2. d \in Cone(g, c, away, size, other)
  OBVIOUS
<1> HIDE DEF away
<1>3. /\ d \in Cells
      /\ \/ 2 * (along(p, q) * along(p, q)) > far * norm
         \/ 2 * (along(p, q) * along(p, q)) = far * norm /\ d \in ConeEdge(g, c, dir) \cap letIn
  BY InCone, Zenon DEF Sq
<1>4. LET a == along(away[1], away[2])
          n == far * (away[1] * away[1] + away[2] * away[2])
      IN  \/ 2 * (a * a) > n
          \/ 2 * (a * a) = n /\ d \in ConeEdge(g, c, away) \cap other
  <2>1. ASSUME NEW to, d \in Cone(g, c, to, size, other)
        PROVE  LET a == X * to[1] + Y * to[2]
                   n == far * (to[1] * to[1] + to[2] * to[2])
               IN  \/ 2 * (a * a) > n
                   \/ 2 * (a * a) = n /\ d \in ConeEdge(g, c, to) \cap other
    BY <2>1, InCone, Zenon DEF Sq
  <2> HIDE DEF far, X, Y
  <2> QED BY <1>2, <2>1
<1>5. X \in Int /\ Y \in Int /\ Z \in Int
  BY <1>3, Offcuts
<1>6. p \in Int /\ q \in Int /\ norm \in {1, 2}
  BY CompassPoints DEF Sq
<1> HIDE DEF X, Y, Z, p, q
<1>7. (-q) * (-q) + p * p = norm
  BY <1>6
<1>8. along(p, q) * along(p, q) + along(-q, p) * along(-q, p) = flat * norm
  BY <1>5, <1>6
<1>9. /\ flat \in Nat /\ far >= flat /\ far \in Int
      /\ along(p, q) * along(p, q) \in Int /\ along(-q, p) * along(-q, p) \in Int
  <2>1. X * X \in Nat /\ Y * Y \in Nat /\ Z * Z \in Nat
    BY <1>5, SquareIsNat
  <2>2. along(p, q) \in Int /\ along(-q, p) \in Int
    BY <1>5, <1>6
  <2> QED BY <2>1, <2>2, SquareIsNat
<1>10. LET a == along(-q, p)
       IN  \/ 2 * (a * a) > far * norm
           \/ 2 * (a * a) = far * norm /\ d \in ConeEdge(g, c, away) \cap other
  BY <1>1, <1>4, <1>7
<1> DEFINE A == along(p, q) * along(p, q)
           B == along(-q, p) * along(-q, p)
<1>11. /\ A \in Int /\ B \in Int /\ A + B = flat * norm
       /\ 2 * A > far * norm \/ 2 * A = far * norm
       /\ 2 * B > far * norm \/ 2 * B = far * norm
  BY <1>3, <1>8, <1>9, <1>10
<1> HIDE DEF A, B, along, flat, norm, far
<1>12. ~(2 * A > far * norm) /\ ~(2 * B > far * norm)
  BY <1>6, <1>9, <1>11
<1> QED BY <1>3, <1>10, <1>12 DEF A, B, away, p, q

(* The line's edge lies within the cell: five feet across is less than a   *)
(* cell to either side, when a cell is four feet or more.                  *)
LEMMA NarrowBeam ==
  ASSUME NEW n \in Int, NEW norm \in {1, 2}, CellSize >= 4,
         4 * ((CellSize * n) * (CellSize * n)) <= 25 * norm
  PROVE  n = 0
<1> SUFFICES ASSUME n # 0 PROVE FALSE
  OBVIOUS
<1>1. Abs(n) \in Nat /\ Abs(n) >= 1 /\ Abs(n) * Abs(n) = n * n
  BY DEF Abs
<1>2. n * n >= 1
  BY SquareIsNat
<1>3. CellSize \in Nat /\ CellSize * CellSize >= 16
  <2>1. CellSize \in Nat
    BY GridAssumption
  <2>2. \A a \in Nat : a >= 4 => a * a >= 16
    OBVIOUS
  <2> QED BY <2>1, <2>2
<1>4. (CellSize * n) * (CellSize * n) = (CellSize * CellSize) * (n * n)
  BY <1>3
<1>5. \A a, b \in Nat : a >= 16 /\ b >= 1 => a * b >= 16
  OBVIOUS
<1>6. (CellSize * CellSize) * (n * n) >= 16
  BY <1>2, <1>3, <1>5, SquareIsNat
<1> QED BY <1>3, <1>4, <1>6

(* The steps ahead of a cell, in one of the eight directions.              *)
LEMMA StepsAhead ==
  ASSUME NEW c \in Cells, NEW d \in Cells, NEW dir \in Offsets \ {<<0, 0>>}
  PROVE  (\E k \in 0 .. Width + Height : d = Plus(c, <<k * dir[1], k * dir[2]>>))
         <=> LET x == d[1] - c[1]
                 y == d[2] - c[2]
             IN  x * dir[2] - y * dir[1] = 0 /\ x * dir[1] + y * dir[2] >= 0
<1> DEFINE x == d[1] - c[1]
           y == d[2] - c[2]
           p == dir[1]
           q == dir[2]
<1>1. /\ c[1] \in 0 .. Width - 1 /\ c[2] \in 0 .. Height - 1
      /\ d[1] \in 0 .. Width - 1 /\ d[2] \in 0 .. Height - 1
      /\ d = <<d[1], d[2]>>
  BY DEF Cells
<1>2. Width \in Nat /\ Height \in Nat
  BY GridAssumption
<1>3. p \in -1 .. 1 /\ q \in -1 .. 1 /\ (p # 0 \/ q # 0)
  BY CompassPoints
<1>4. /\ x \in Int /\ y \in Int /\ Abs(x) \in 0 .. Width + Height
      /\ Abs(y) \in 0 .. Width + Height
  BY <1>1, <1>2 DEF Abs
<1>5. \A k \in 0 .. Width + Height :
        d = Plus(c, <<k * p, k * q>>) <=> x = k * p /\ y = k * q
  <2> SUFFICES ASSUME NEW k \in 0 .. Width + Height
               PROVE  d = Plus(c, <<k * p, k * q>>) <=> x = k * p /\ y = k * q
    OBVIOUS
  <2>1. k * p \in Int /\ k * q \in Int
    BY <1>2, <1>3
  <2>2. Plus(c, <<k * p, k * q>>) = <<c[1] + k * p, c[2] + k * q>>
    <3>1. \A a, b \in Int : Plus(c, <<a, b>>) = <<c[1] + a, c[2] + b>>
      BY DEF Plus
    <3> HIDE DEF p, q
    <3> QED BY <2>1, <3>1
  <2> HIDE DEF p, q
  <2> QED BY <1>1, <2>1, <2>2
<1> HIDE DEF x, y, p, q
<1>6. ASSUME NEW k \in 0 .. Width + Height, x = k * p, y = k * q
      PROVE  x * q - y * p = 0 /\ x * p + y * q >= 0
  <2>1. k \in Nat
    BY <1>2
  <2>2. (k * p) * q - (k * q) * p = 0
    BY <1>3, <2>1
  <2>3. (k * p) * p + (k * q) * q = k * (p * p + q * q) /\ p * p + q * q \in Nat
    BY <1>3, <2>1
  <2>4. \A a, b \in Nat : a * b \in Nat
    OBVIOUS
  <2>5. k * (p * p + q * q) >= 0
    BY <2>1, <2>3, <2>4
  <2> QED BY <1>6, <2>2, <2>3, <2>5
<1>7. ASSUME x * q - y * p = 0, x * p + y * q >= 0
      PROVE  \E k \in 0 .. Width + Height : x = k * p /\ y = k * q
  <2> DEFINE k == IF p # 0 THEN Abs(x) ELSE Abs(y)
  <2>1. k \in 0 .. Width + Height
    BY <1>4
  <2>2. x = k * p /\ y = k * q
    <3>1. CASE p = 0
      <4>1. q = 1 \/ q = -1
        BY <1>3, <3>1
      <4> QED BY <1>4, <1>7, <3>1, <4>1 DEF Abs
    <3>2. CASE p = 1
      <4>1. q = 1 \/ q = -1 \/ q = 0
        BY <1>3
      <4> QED BY <1>4, <1>7, <3>2, <4>1 DEF Abs
    <3>3. CASE p = -1
      <4>1. q = 1 \/ q = -1 \/ q = 0
        BY <1>3
      <4>2. k = Abs(x) /\ x * p = -x /\ y * p = -y
        BY <1>4, <3>3
      <4>3. y = -(x * q) /\ y * q - x >= 0
        BY <1>3, <1>4, <1>7, <4>2
      <4>4. (y = -x /\ q = 1) \/ (y = x /\ q = -1) \/ (y = 0 /\ q = 0)
        BY <1>4, <4>1, <4>3
      <4>5. x <= 0
        BY <1>4, <4>3, <4>4
      <4>6. k = -x
        BY <1>4, <4>2, <4>5 DEF Abs
      <4> HIDE DEF k
      <4> QED BY <1>4, <3>3, <4>4, <4>6
    <3> QED BY <1>3, <3>1, <3>2, <3>3
  <2> QED BY <2>1, <2>2
<1>8. (\E k \in 0 .. Width + Height : d = Plus(c, <<k * p, k * q>>))
      <=> x * q - y * p = 0 /\ x * p + y * q >= 0
  BY <1>5, <1>6, <1>7
<1> QED BY <1>8 DEF x, y, p, q

(* On level ground the line is what the sphere of its length cuts out of   *)
(* the steps ahead.                                                        *)
LEMMA BeamIsAhead ==
  ASSUME NEW g \in Map, NEW c \in Cells, NEW size \in Nat, CellSize >= 4,
         NEW dir \in Offsets \ {<<0, 0>>},
         NEW d \in Cells, g.land[d].height = g.land[c].height
  PROVE  d \in Beam(g, c, dir, size)
         <=> /\ d \in Sphere(g, c, size)
             /\ \E k \in 0 .. Width + Height : d = Plus(c, <<k * dir[1], k * dir[2]>>)
<1> DEFINE x == d[1] - c[1]
           y == d[2] - c[2]
           p == dir[1]
           q == dir[2]
           s == CellSize
           norm == p * p + q * q
           along == (s * x) * p + (s * y) * q
           across == (s * x) * q - (s * y) * p
           n == x * p + y * q
           m == x * q - y * p
<1>1. x \in Int /\ y \in Int /\ Dx(c, d) = s * x /\ Dy(c, d) = s * y /\ Dz(g, c, d) = 0
  BY Offcuts
<1>2. p \in -1 .. 1 /\ q \in -1 .. 1 /\ norm \in {1, 2}
  BY CompassPoints DEF Sq
<1>3. s \in Nat /\ s >= 4
  BY GridAssumption
<1>4. d \in Sphere(g, c, size) <=> (s * x) * (s * x) + (s * y) * (s * y) <= size * size
  <2>1. d \in Sphere(g, c, size)
        <=> (s * x) * (s * x) + (s * y) * (s * y) + 0 * 0 <= size * size
    BY <1>1, Zenon DEF Sphere, Sq
  <2>2. (s * x) * (s * x) + (s * y) * (s * y) + 0 * 0
          = (s * x) * (s * x) + (s * y) * (s * y)
    <3>1. s * x \in Int /\ s * y \in Int
      BY <1>1, <1>3
    <3>2. \A a, b \in Int : a * a + b * b + 0 * 0 = a * a + b * b
      OBVIOUS
    <3> QED BY <3>1, <3>2
  <2> QED BY <2>1, <2>2
<1>5. d \in Beam(g, c, dir, size)
      <=> /\ along >= 0 /\ along * along <= (size * size) * norm
          /\ 4 * (across * across) <= 25 * norm
  <2>1. d \in Beam(g, c, dir, size)
        <=> /\ along >= 0 /\ along * along <= (size * size) * norm
            /\ 4 * (across * across + norm * (0 * 0)) <= 25 * norm
    BY <1>1, Zenon DEF Beam, Sq
  <2>2. across \in Int /\ norm \in Int
    BY <1>1, <1>2, <1>3
  <2>3. \A a, b \in Int : 4 * (a * a + b * (0 * 0)) = 4 * (a * a)
    OBVIOUS
  <2> HIDE DEF along, across, norm
  <2> QED BY <2>1, <2>2, <2>3
<1>6. (\E k \in 0 .. Width + Height : d = Plus(c, <<k * p, k * q>>)) <=> m = 0 /\ n >= 0
  BY StepsAhead
<1> HIDE DEF x, y, p, q, s
<1>7. n \in Int /\ m \in Int /\ along = s * n /\ across = s * m
  BY <1>1, <1>2, <1>3
<1>8. along >= 0 <=> n >= 0
  <2>1. \A a \in Nat, b \in Int : a >= 4 => (a * b >= 0 <=> b >= 0)
    OBVIOUS
  <2> HIDE DEF along, n
  <2> QED BY <1>3, <1>7, <2>1
<1>9. 4 * (across * across) <= 25 * norm <=> m = 0
  <2> HIDE DEF across, m, norm
  <2>1. ASSUME 4 * (across * across) <= 25 * norm PROVE m = 0
    BY <1>2, <1>3, <1>7, <2>1, NarrowBeam DEF s
  <2>2. ASSUME m = 0 PROVE 4 * (across * across) <= 25 * norm
    <3>1. across = 0
      BY <1>3, <1>7, <2>2
    <3> QED BY <1>2, <3>1
  <2> QED BY <2>1, <2>2
<1>10. ASSUME m = 0
       PROVE  along * along <= (size * size) * norm
              <=> (s * x) * (s * x) + (s * y) * (s * y) <= size * size
  <2> DEFINE flat == (s * x) * (s * x) + (s * y) * (s * y)
  <2>1. across = 0
    <3> HIDE DEF across, m
    <3> QED BY <1>3, <1>7, <1>10
  <2>2. along * along + across * across = flat * norm
    <3>1. s * x \in Int /\ s * y \in Int
      BY <1>1, <1>3
    <3>2. \A a, b \in Int : (a * p + b * q) * (a * p + b * q) + (a * q - b * p) * (a * q - b * p)
                              = (a * a + b * b) * (p * p + q * q)
      BY <1>2
    <3> QED BY <3>1, <3>2
  <2>3. flat \in Int /\ size * size \in Int /\ along * along \in Int
    <3>1. s * x \in Int /\ s * y \in Int /\ along \in Int
      BY <1>1, <1>2, <1>3
    <3> HIDE DEF along
    <3>2. \A a \in Int : a * a \in Int
      OBVIOUS
    <3>3. \A a, b \in Int : a + b \in Int
      OBVIOUS
    <3> QED BY <3>1, <3>2, <3>3
  <2> HIDE DEF flat, along, across, norm
  <2>4. along * along = flat * norm
    BY <2>1, <2>2, <2>3
  <2>5. \A a, b \in Int : a * norm <= b * norm <=> a <= b
    BY <1>2
  <2>6. along * along <= (size * size) * norm <=> flat <= size * size
    BY <2>3, <2>4, <2>5
  <2> QED BY <2>6 DEF flat
<1> HIDE DEF along, across, n, m, norm
<1>11. (\E k \in 0 .. Width + Height : d = Plus(c, <<k * dir[1], k * dir[2]>>))
       <=> m = 0 /\ n >= 0
  BY <1>6 DEF p, q
<1> QED BY <1>4, <1>5, <1>8, <1>9, <1>10, <1>11

(* Whoever is in a sphere is in the cube and the cylinder around it.       *)
LEMMA SphereInCube ==
  ASSUME NEW g \in Map, NEW c \in Cells, NEW size \in Nat
  PROVE  /\ Sphere(g, c, size) \subseteq Cube(g, c, 2 * size)
         /\ Sphere(g, c, size) \subseteq Cylinder(g, c, size, 2 * size)
<1> SUFFICES ASSUME NEW d \in Sphere(g, c, size)
             PROVE  d \in Cube(g, c, 2 * size) /\ d \in Cylinder(g, c, size, 2 * size)
  OBVIOUS
<1> DEFINE X == Dx(c, d)
           Y == Dy(c, d)
           Z == Dz(g, c, d)
<1>1. /\ d \in Cells /\ X \in Int /\ Y \in Int /\ Z \in Int
      /\ X * X + Y * Y + Z * Z <= size * size
  <2>1. d \in Cells /\ Sq(X) + Sq(Y) + Sq(Z) <= Sq(size)
    BY DEF Sphere
  <2> QED BY <2>1, Offcuts DEF Sq
<1> HIDE DEF X, Y, Z
<1>2. X * X \in Nat /\ Y * Y \in Nat /\ Z * Z \in Nat /\ size * size \in Nat
  BY <1>1, SquareIsNat
<1>3. /\ X * X <= size * size /\ Y * Y <= size * size /\ Z * Z <= size * size
      /\ X * X + Y * Y <= size * size
  BY <1>1, <1>2
<1>4. Abs(X) <= size /\ Abs(Y) <= size /\ Abs(Z) <= size
  BY <1>1, <1>3, SquareBounds
<1>5. 2 * Abs(X) <= 2 * size /\ 2 * Abs(Y) <= 2 * size /\ 2 * Abs(Z) <= 2 * size
  <2>1. Abs(X) \in Nat /\ Abs(Y) \in Nat /\ Abs(Z) \in Nat
    BY <1>1 DEF Abs
  <2> QED BY <1>4, <2>1
<1>6. d \in Cube(g, c, 2 * size)
  BY <1>1, <1>5, Zenon DEF Cube, X, Y, Z
<1>7. d \in Cylinder(g, c, size, 2 * size)
  BY <1>1, <1>3, <1>5, Zenon DEF Cylinder, Sq, X, Y, Z
<1> QED BY <1>6, <1>7

(* The areas of any map, around any cell and of any size, fit together as  *)
(* AreasAgree says, whatever rounding does on the edges of cones           *)
(* (areas.py's contains methods).  The line needs cells of four feet or    *)
(* more: it is five feet wide whatever the cells are, so on smaller ones   *)
(* it takes in cells beside those ahead.  Every map the game makes has     *)
(* cells of five (SquareGridSpace's default, vertical_slice.py,            *)
(* tactical_templates.py).                                                 *)
THEOREM AreasFitTogether ==
  CellSize >= 4 /\ SpatialSpec => []AreasAgree
<1> SUFFICES ASSUME CellSize >= 4 PROVE SpatialSpec => []AreasAgree
  OBVIOUS
<1>1. ASSUME SpatialInv PROVE AreasAgree
  <2> DEFINE around(c, size) == Sphere(board, c, size)
             level(c) == {d \in Cells : board.land[d].height = board.land[c].height}
             compass == Offsets \ {<<0, 0>>}
             ahead(c, dir) == {Plus(c, <<k * dir[1], k * dir[2]>>) : k \in 0 .. Width + Height}
             back(dir) == <<-dir[1], -dir[2]>>
             left(dir) == <<-dir[2], dir[1]>>
             edges(c, dir) == ConeEdge(board, c, dir) \cap ConeEdge(board, c, left(dir))
             cone(c, size, dir, letIn) == Cone(board, c, dir, size, letIn)
  <2>1. board \in Map /\ \A c \in Cells : \A size : Sphere(board, c, size) \subseteq Cells
    BY <1>1 DEF SpatialInv, Sphere
  <2> SUFFICES ASSUME NEW c \in Cells, NEW size \in Nat
               PROVE  /\ \A letIn \in Roundings :
                           /\ around(c, size) \cap level(c)
                                = level(c) \cap UNION {cone(c, size, dir, letIn) : dir \in compass}
                           /\ \A dir \in compass :
                                /\ cone(c, size, dir, letIn) \subseteq around(c, size)
                                /\ \A other \in Roundings :
                                     /\ cone(c, size, dir, letIn) \cap cone(c, size, back(dir), other) = {c}
                                     /\ cone(c, size, dir, letIn) \cap cone(c, size, left(dir), other)
                                          \subseteq {c} \cup (edges(c, dir) \cap letIn \cap other)
                      /\ \A dir \in compass :
                           Beam(board, c, dir, size) \cap level(c)
                             = around(c, size) \cap level(c) \cap ahead(c, dir)
                      /\ Caught(board, around(c, size))
                           \subseteq Caught(board, Cube(board, c, 2 * size))
                      /\ around(c, size) \subseteq Cylinder(board, c, size, 2 * size)
    <3>1. CellSize \in Nat /\ 2 * CellSize \in Nat /\ 3 * CellSize \in Nat
      BY GridAssumption
    <3>2. \A size \in {CellSize, 2 * CellSize, 3 * CellSize} : size \in Nat
      BY <3>1
    <3> QED BY <3>2, Zenon DEF AreasAgree
  <2>2. ASSUME NEW letIn \in Roundings
        PROVE  around(c, size) \cap level(c)
                 = level(c) \cap UNION {cone(c, size, dir, letIn) : dir \in compass}
    <3>1. ASSUME NEW d \in around(c, size) \cap level(c)
          PROVE  \E dir \in compass : d \in cone(c, size, dir, letIn)
      BY <2>1, SomeConeHolds
    <3>2. \A dir \in compass : cone(c, size, dir, letIn) \subseteq around(c, size)
      BY <2>1, ConeInSphere
    <3> HIDE DEF around, level, compass, cone
    <3> QED BY <3>1, <3>2
  <2>3. ASSUME NEW letIn \in Roundings, NEW dir \in compass
        PROVE  /\ cone(c, size, dir, letIn) \subseteq around(c, size)
               /\ \A other \in Roundings :
                    cone(c, size, dir, letIn) \cap cone(c, size, back(dir), other) = {c}
    BY <2>1, ConesOpposed, ConeInSphere
  <2>4. ASSUME NEW letIn \in Roundings, NEW dir \in compass, NEW other \in Roundings
        PROVE  cone(c, size, dir, letIn) \cap cone(c, size, left(dir), other)
                 \subseteq {c} \cup (edges(c, dir) \cap letIn \cap other)
    BY <2>1, ConesTurned
  <2>5. ASSUME NEW dir \in compass
        PROVE  Beam(board, c, dir, size) \cap level(c)
                 = around(c, size) \cap level(c) \cap ahead(c, dir)
    <3>1. ASSUME NEW d \in level(c)
          PROVE  d \in Beam(board, c, dir, size)
                 <=> d \in around(c, size) /\ d \in ahead(c, dir)
      <4>1. d \in Cells /\ board.land[d].height = board.land[c].height
        OBVIOUS
      <4>2. d \in Beam(board, c, dir, size)
            <=> /\ d \in Sphere(board, c, size)
                /\ \E k \in 0 .. Width + Height : d = Plus(c, <<k * dir[1], k * dir[2]>>)
        BY <1>1, <2>1, <4>1, BeamIsAhead
      <4> QED BY <4>2, Zenon
    <3> HIDE DEF around, level, ahead
    <3> QED BY <3>1
  <2>6. Caught(board, around(c, size)) \subseteq Caught(board, Cube(board, c, 2 * size))
    <3>1. around(c, size) \subseteq Cube(board, c, 2 * size)
      BY <2>1, SphereInCube
    <3> HIDE DEF around
    <3> QED BY <3>1, Zenon DEF Caught
  <2>7. around(c, size) \subseteq Cylinder(board, c, size, 2 * size)
    BY <2>1, SphereInCube
  <2> HIDE DEF around, level, compass, ahead, back, left, edges, cone
  <2> QED BY <2>2, <2>3, <2>4, <2>5, <2>6, <2>7
<1> QED BY <1>1, SpatialInvariant, PTL
=============================================================================
