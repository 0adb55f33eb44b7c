----------------------------- MODULE SliceProofs -----------------------------
(***************************************************************************)
(* Proofs about Slice for every cast, spell book and supply of slots, in   *)
(* three parts.  The bookkeeping of concentration and durations, and the   *)
(* end of a fight, need nothing about what a spell does to anybody: a      *)
(* fight is decided by who stands after a command, whatever it did.  What  *)
(* spells do to hit points and conditions stands on Combat's invariant,    *)
(* and for the effects that work one after another when a round ends on a  *)
(* least counterexample.                                                   *)
(***************************************************************************)
EXTENDS Slice, CombatProofs, SequenceTheorems, WellFoundedInduction

Focus == [spell : Spells, left : Nat \cup {None}] \cup {None}

(* The two properties need each other's shapes only: an effect that runs   *)
(* has rounds left and belongs to a definition with a duration.            *)
MagicShape ==
  /\ round \in Nat
  /\ focus \in [Actors -> Focus]
  /\ running \subseteq Effect
  /\ \A e \in running : e.left >= 1

MagicInv == MagicShape /\ ConcentrationAgrees /\ DurationsFollowRounds

(* The running effect of a concentration.                                  *)
Held(e) == e \in running /\ Book[e.spell].concentration

-----------------------------------------------------------------------------
(* Nobody who holds an effect has no concentration.                        *)
LEMMA HolderConcentrates ==
  ASSUME MagicShape, ConcentrationAgrees, NEW e, Held(e)
  PROVE  /\ e \in Effect
         /\ focus[e.caster] = [spell |-> e.spell, left |-> e.left]
         /\ focus[e.caster] # None
<1>1. e \in Effect
  BY DEF MagicShape, Held
<1>2. focus[e.caster] = [spell |-> e.spell, left |-> e.left]
  BY DEF ConcentrationAgrees, Held
<1>3. [spell |-> e.spell, left |-> e.left] \in [spell : Spells, left : Nat]
  BY <1>1 DEF Effect
<1> QED BY <1>1, <1>2, <1>3, SliceAssumption

(* A new concentration leaves its caster no other one.                     *)
LEMMA NothingElseHeld ==
  ASSUME MagicShape, ConcentrationAgrees, NEW a \in Actors, NEW s \in Spells,
         Book[s].concentration,
         NEW e \in running \ Replaced(a, s), Book[e.spell].concentration
  PROVE  e.caster # a
<1> SUFFICES ASSUME e.caster = a PROVE FALSE
  OBVIOUS
<1>1. focus[a] # None
  BY HolderConcentrates DEF Held
<1> QED BY <1>1 DEF Replaced

(* What a spell is aimed at, and touches, are combatants.                  *)
LEMMA TouchedAreActors ==
  ASSUME NEW a \in Actors, NEW s \in Spells, NEW targets \in Targets(a, s),
         NEW lucky \in SUBSET targets
  PROVE  Touched(s, targets, lucky) \subseteq Actors
<1>1. Book[s].reach \in {"self", "creature", "area", "point"}
  BY SliceAssumption DEF Definition
<1>2. targets \subseteq Actors
  BY <1>1 DEF Targets
<1> QED BY <1>2 DEF Touched

-----------------------------------------------------------------------------
(* Casting: what happens to focus and running.                             *)
Begun(a, s, touched) ==
  [spell |-> s, caster |-> a, targets |-> touched, left |-> Book[s].rounds,
   since |-> round]

Binding(a, s, touched) ==
  /\ focus' = IF Book[s].concentration
                THEN [focus EXCEPT ![a] = [spell |-> s, left |-> Book[s].rounds]]
                ELSE focus
  /\ running' = (running \ Replaced(a, s))
                  \cup (IF Lasts(s) /\ touched # {} THEN {Begun(a, s, touched)} ELSE {})
  /\ round' = round

LEMMA CastBinds ==
  ASSUME NEW a \in Actors, NEW s \in Spells, NEW level, NEW targets, NEW lucky,
         NEW amounts, Cast(a, s, level, targets, lucky, amounts)
  PROVE  \E touched \in SUBSET Actors : Binding(a, s, touched)
<1>1. targets \in Targets(a, s) /\ lucky \in SUBSET targets
  BY DEF Cast
<1> DEFINE touched == Touched(s, targets, lucky)
<1>2. touched \in SUBSET Actors
  BY <1>1, TouchedAreActors
<1>3. Binding(a, s, touched)
  BY DEF Cast, Binding, Begun
<1> HIDE DEF touched
<1> QED BY <1>2, <1>3

(* The effect that begins is well formed and has all its rounds left.      *)
LEMMA BegunIsFresh ==
  ASSUME MagicShape, NEW a \in Actors, NEW s \in Spells,
         NEW touched \in SUBSET Actors, Lasts(s)
  PROVE  /\ Book[s].rounds \in Nat /\ Book[s].rounds >= 1
         /\ Begun(a, s, touched) \in Effect
<1>1. Book[s].rounds \in (Nat \ {0}) \cup {None} /\ Book[s].rounds # None
  BY SliceAssumption DEF Definition, Lasts
<1>2. Book[s].rounds \in Nat /\ Book[s].rounds >= 1
  BY <1>1
<1> QED BY <1>2 DEF Begun, Effect, MagicShape

LEMMA BindingKeepsShape ==
  ASSUME MagicShape, NEW a \in Actors, NEW s \in Spells,
         NEW touched \in SUBSET Actors, Binding(a, s, touched)
  PROVE  MagicShape'
<1>1. round' \in Nat
  BY DEF MagicShape, Binding
<1>2. focus' \in [Actors -> Focus]
  <2>1. Book[s].rounds \in Nat \cup {None}
    BY SliceAssumption DEF Definition
  <2>2. [spell |-> s, left |-> Book[s].rounds] \in Focus
    BY <2>1 DEF Focus
  <2> QED BY <2>2 DEF MagicShape, Binding
<1>3. ASSUME NEW e \in running' PROVE e \in Effect /\ e.left >= 1
  <2>1. CASE e \in running
    BY <2>1 DEF MagicShape
  <2>2. CASE e \notin running
    <3>1. Lasts(s) /\ e = Begun(a, s, touched)
      BY <1>3, <2>2 DEF Binding
    <3>2. e.left = Book[s].rounds
      BY <3>1 DEF Begun
    <3> QED BY <3>1, <3>2, BegunIsFresh
  <2> QED BY <2>1, <2>2
<1> QED BY <1>1, <1>2, <1>3 DEF MagicShape

LEMMA BindingKeepsAgreement ==
  ASSUME MagicShape, ConcentrationAgrees, NEW a \in Actors, NEW s \in Spells,
         NEW touched \in SUBSET Actors, Binding(a, s, touched)
  PROVE  ConcentrationAgrees'
<1> DEFINE begun == Begun(a, s, touched)
<1>1. begun.spell = s /\ begun.caster = a /\ begun.left = Book[s].rounds
  BY DEF Begun
<1>2. running' \subseteq (running \ Replaced(a, s)) \cup {begun}
  BY DEF Binding
<1> HIDE DEF begun
<1> SUFFICES ASSUME NEW e \in running', Book[e.spell].concentration
             PROVE  /\ focus'[e.caster] = [spell |-> e.spell, left |-> e.left]
                    /\ \A f \in running' : f.caster = e.caster
                         /\ Book[f.spell].concentration => f = e
  BY DEF ConcentrationAgrees
<1>3. CASE ~Book[s].concentration
  <2>1. focus' = focus /\ e \in running
    BY <1>1, <1>2, <1>3 DEF Binding
  <2>2. ASSUME NEW f \in running', Book[f.spell].concentration PROVE f \in running
    BY <1>1, <1>2, <1>3, <2>2
  <2> QED BY <2>1, <2>2 DEF ConcentrationAgrees
<1>4. CASE Book[s].concentration
  <2>1. focus' = [focus EXCEPT ![a] = [spell |-> s, left |-> Book[s].rounds]]
    BY <1>4 DEF Binding
  <2>2. ASSUME NEW f \in running', Book[f.spell].concentration, f # begun
        PROVE  f \in running /\ f.caster \in Actors /\ f.caster # a
    BY <1>2, <1>4, <2>2, NothingElseHeld DEF MagicShape, Effect
  <2>3. CASE e = begun
    <3>1. focus'[a] = [spell |-> s, left |-> Book[s].rounds]
      BY <2>1 DEF MagicShape
    <3> QED BY <1>1, <2>2, <2>3, <3>1
  <2>4. CASE e # begun
    <3>1. focus'[e.caster] = focus[e.caster]
      BY <2>1, <2>2, <2>4 DEF MagicShape
    <3>2. \A f \in running' : f.caster = e.caster
            /\ Book[f.spell].concentration => f \in running
      BY <1>1, <2>2, <2>4
    <3> QED BY <2>2, <2>4, <3>1, <3>2 DEF ConcentrationAgrees
  <2> QED BY <2>3, <2>4
<1> QED BY <1>3, <1>4

LEMMA BindingKeepsDurations ==
  ASSUME MagicShape, DurationsFollowRounds, NEW a \in Actors, NEW s \in Spells,
         NEW touched \in SUBSET Actors, Binding(a, s, touched)
  PROVE  DurationsFollowRounds'
<1> SUFFICES ASSUME NEW e \in running'
             PROVE  e.left + (round' - e.since) = Book[e.spell].rounds
  BY DEF DurationsFollowRounds
<1>1. CASE e \in running
  BY <1>1 DEF DurationsFollowRounds, Binding
<1>2. CASE e \notin running
  <2>1. Lasts(s) /\ e = Begun(a, s, touched)
    BY <1>2 DEF Binding
  <2>2. e.left = Book[s].rounds /\ e.since = round /\ e.spell = s
    BY <2>1 DEF Begun
  <2> QED BY <2>1, <2>2, BegunIsFresh DEF MagicShape, Binding
<1> QED BY <1>1, <1>2

-----------------------------------------------------------------------------
(* The end of a round: every effect with a round to spare loses it.        *)
Aged(e) == [e EXCEPT !.left = @ - 1]

LEMMA AgedEffect ==
  ASSUME NEW e \in Effect
  PROVE  /\ Aged(e).spell = e.spell /\ Aged(e).caster = e.caster
         /\ Aged(e).since = e.since /\ Aged(e).left = e.left - 1
         /\ e.left > 1 => Aged(e) \in Effect /\ Aged(e).left >= 1
BY DEF Aged, Effect

LEMMA ContinuingIsAged ==
  ASSUME NEW x
  PROVE  x \in Continuing <=> \E e \in running : e.left > 1 /\ x = Aged(e)
BY DEF Continuing, Aged

LEMMA ContinuingShape ==
  ASSUME MagicShape, NEW x \in Continuing
  PROVE  x \in Effect /\ x.left >= 1
<1>1. PICK e \in running : e.left > 1 /\ x = Aged(e)
  BY ContinuingIsAged
<1> QED BY <1>1, AgedEffect DEF MagicShape

(* The concentrated effect of a caster is the only one it follows, so the  *)
(* code's first match is the effect itself.                                *)
LEMMA FollowsItsEffect ==
  ASSUME MagicShape, ConcentrationAgrees, NEW x \in Continuing,
         Book[x.spell].concentration
  PROVE  /\ x.caster \in Actors
         /\ Followed(x.caster) = [spell |-> x.spell, left |-> x.left]
         /\ \A y \in Continuing : y.caster = x.caster
              /\ Book[y.spell].concentration => y = x
<1>1. PICK e \in running : e.left > 1 /\ x = Aged(e)
  BY ContinuingIsAged
<1>2. e \in Effect /\ x.spell = e.spell /\ x.caster = e.caster
  BY <1>1, AgedEffect DEF MagicShape
<1>3. Held(e)
  BY <1>1, <1>2 DEF Held
<1>4. /\ focus[x.caster] = [spell |-> x.spell, left |-> e.left]
      /\ focus[x.caster] # None
  BY <1>2, <1>3, HolderConcentrates
<1>5. ASSUME NEW y \in Continuing, y.caster = x.caster, Book[y.spell].concentration
      PROVE  y = x
  <2>1. PICK f \in running : f.left > 1 /\ y = Aged(f)
    BY ContinuingIsAged
  <2>2. f.caster = e.caster /\ Book[f.spell].concentration
    BY <1>2, <1>5, <2>1, AgedEffect DEF MagicShape
  <2>3. f = e
    BY <1>3, <2>1, <2>2 DEF ConcentrationAgrees, Held
  <2> QED BY <1>1, <2>1, <2>3
<1>6. Mine(x.caster, Continuing) = {x}
  <2>1. x \in Mine(x.caster, Continuing)
    BY <1>4 DEF Mine
  <2>2. \A y \in Mine(x.caster, Continuing) : y = x
    BY <1>5 DEF Mine
  <2> QED BY <2>1, <2>2
<1>7. (CHOOSE y \in Mine(x.caster, Continuing) : TRUE) = x
  BY <1>6
<1>8. Followed(x.caster) = [focus[x.caster] EXCEPT !.left = x.left]
  BY <1>6, <1>7 DEF Followed
<1>9. Followed(x.caster) = [spell |-> x.spell, left |-> x.left]
  BY <1>4, <1>8
<1> QED BY <1>2, <1>5, <1>9 DEF Effect

LEMMA FollowedIsFocus ==
  ASSUME MagicShape, NEW c \in Actors
  PROVE  Followed(c) \in Focus
<1>1. CASE Mine(c, Continuing) # {}
  <2> DEFINE x == CHOOSE y \in Mine(c, Continuing) : TRUE
  <2>1. x \in Mine(c, Continuing)
    BY <1>1
  <2>2. Followed(c) = [focus[c] EXCEPT !.left = x.left]
    BY <1>1 DEF Followed
  <2> HIDE DEF x
  <2>3. focus[c] # None /\ x \in Continuing
    BY <2>1 DEF Mine
  <2>4. x.left \in Nat
    BY <2>3, ContinuingShape DEF Effect
  <2>5. focus[c] \in [spell : Spells, left : Nat \cup {None}]
    BY <2>3 DEF MagicShape, Focus
  <2> QED BY <2>2, <2>4, <2>5 DEF Focus
<1>2. CASE Mine(c, Continuing) = {}
  BY <1>2 DEF Followed, MagicShape, Focus
<1> QED BY <1>1, <1>2

(* What a round's end does to focus and running.                           *)
Ageing ==
  /\ running' = Continuing
  /\ focus' = [c \in Actors |-> Followed(c)]
  /\ round' = round + 1

LEMMA AgeingKeepsInvariant ==
  ASSUME MagicInv, Ageing
  PROVE  MagicInv'
<1>1. MagicShape'
  BY ContinuingShape, FollowedIsFocus DEF MagicInv, MagicShape, Ageing
<1>2. ConcentrationAgrees'
  <2> SUFFICES ASSUME NEW x \in Continuing, Book[x.spell].concentration
               PROVE  /\ focus'[x.caster] = [spell |-> x.spell, left |-> x.left]
                      /\ \A y \in Continuing : y.caster = x.caster
                           /\ Book[y.spell].concentration => y = x
    BY DEF ConcentrationAgrees, Ageing
  <2>1. x.caster \in Actors
    BY FollowsItsEffect DEF MagicInv
  <2>2. focus'[x.caster] = Followed(x.caster)
    BY <2>1 DEF Ageing
  <2> QED BY <2>2, FollowsItsEffect DEF MagicInv
<1>3. DurationsFollowRounds'
  <2> SUFFICES ASSUME NEW x \in Continuing
               PROVE  x.left + (round' - x.since) = Book[x.spell].rounds
    BY DEF DurationsFollowRounds, Ageing
  <2>1. PICK e \in running : e.left > 1 /\ x = Aged(e)
    BY ContinuingIsAged
  <2>2. e \in Effect /\ e.left + (round - e.since) = Book[e.spell].rounds
    BY <2>1 DEF MagicInv, MagicShape, DurationsFollowRounds
  <2>3. /\ x.spell = e.spell /\ x.since = e.since /\ x.left = e.left - 1
        /\ e.left \in Nat /\ e.since \in Nat
    BY <2>1, <2>2, AgedEffect DEF Effect
  <2>4. x.left + (round' - x.since) = e.left + (round - e.since)
    BY <2>3 DEF Ageing, MagicInv, MagicShape
  <2> QED BY <2>2, <2>3, <2>4
<1> QED BY <1>1, <1>2, <1>3 DEF MagicInv

-----------------------------------------------------------------------------
(* The end of a turn ages the effects exactly when the round is over.      *)
LEMMA TurnEndAges ==
  ASSUME MagicShape, NEW a, NEW roll, NEW amounts, EndTurnAndRound(a, roll, amounts)
  PROVE  Ageing \/ UNCHANGED <<focus, running, round>>
<1>1. PICK k \in 1 .. N :
        LET next  == (turn + k) % N
            b     == order[next]
            saved == IF DeathSaveDue(b) THEN Altered(Now, b, AfterDeathSave(vital[b], roll))
                     ELSE Now
        IN  /\ TurnStarts(next)
            /\ IF RoundIsOver(next) THEN AdvanceRound(saved, amounts)
               ELSE Become(saved) /\ UNCHANGED magic
  BY DEF EndTurnAndRound
<1> DEFINE next == (turn + k) % N
<1>2. round' = RoundAfter(next)
  BY <1>1 DEF TurnStarts
<1>3. IF RoundIsOver(next)
        THEN running' = Continuing /\ focus' = [c \in Actors |-> Followed(c)]
        ELSE UNCHANGED <<focus, running>>
  BY <1>1 DEF AdvanceRound, magic
<1> HIDE DEF next
<1>4. RoundAfter(next) \in {round, round + 1}
  BY DEF RoundAfter, MagicShape
<1>5. CASE RoundIsOver(next)
  <2>1. round' = round + 1
    BY <1>2, <1>4, <1>5 DEF RoundIsOver, MagicShape
  <2> QED BY <1>3, <1>5, <2>1 DEF Ageing
<1>6. CASE ~RoundIsOver(next)
  <2>1. round' = round
    BY <1>2, <1>4, <1>6 DEF RoundIsOver, MagicShape
  <2> QED BY <1>3, <1>6, <2>1
<1> QED BY <1>5, <1>6

LEMMA StillKeepsInvariant ==
  ASSUME MagicInv, UNCHANGED <<focus, running, round>>
  PROVE  MagicInv'
<1>1. MagicShape'
  BY DEF MagicInv, MagicShape
<1>2. ConcentrationAgrees'
  BY DEF MagicInv, ConcentrationAgrees
<1>3. DurationsFollowRounds'
  BY DEF MagicInv, DurationsFollowRounds
<1> QED BY <1>1, <1>2, <1>3 DEF MagicInv

LEMMA SliceStep ==
  ASSUME MagicInv, [SliceNext]_svars
  PROVE  MagicInv'
<1>1. ASSUME NEW a, NEW feet, MoveActor(a, feet) PROVE MagicInv'
  BY <1>1, StillKeepsInvariant DEF MoveActor, SpendMovement, magic
<1>2. ASSUME NEW a, NEW t, NEW outcome, NEW amount, NEW type,
             Attack(a, t, outcome, amount, type)
      PROVE  MagicInv'
  BY <1>2, StillKeepsInvariant DEF Attack, magic
<1>3. ASSUME NEW a \in Actors, NEW s \in Spells, NEW level, NEW targets, NEW lucky,
             NEW amounts, Cast(a, s, level, targets, lucky, amounts)
      PROVE  MagicInv'
  <2>1. PICK touched \in SUBSET Actors : Binding(a, s, touched)
    BY <1>3, CastBinds
  <2> QED BY <2>1, BindingKeepsShape, BindingKeepsAgreement, BindingKeepsDurations DEF MagicInv
<1>4. ASSUME NEW a, NEW roll, NEW amounts, EndTurnAndRound(a, roll, amounts)
      PROVE  MagicInv'
  BY <1>4, TurnEndAges, AgeingKeepsInvariant, StillKeepsInvariant DEF MagicInv
<1>5. CASE UNCHANGED svars
  BY <1>5, StillKeepsInvariant DEF svars, vars, magic
<1> QED BY <1>1, <1>2, <1>3, <1>4, <1>5 DEF SliceNext

LEMMA SliceStart == SliceInit => MagicInv
<1> SUFFICES ASSUME SliceInit PROVE MagicInv
  OBVIOUS
<1>1. round = 1 /\ running = {} /\ focus = [a \in Actors |-> None]
  BY DEF SliceInit
<1> QED BY <1>1 DEF MagicInv, MagicShape, Focus, ConcentrationAgrees, DurationsFollowRounds

LEMMA SliceInvariant == SliceSpec => []MagicInv
<1> QED BY SliceStart, SliceStep, PTL DEF SliceSpec

(* For any casters, spell book and slots: a caster has at most one running *)
(* concentration effect, and it agrees with what the caster concentrates   *)
(* on, spell and rounds, although the code keeps them in two places.       *)
THEOREM SliceConcentrationAgrees == SliceSpec => []ConcentrationAgrees
<1>1. MagicInv => ConcentrationAgrees
  BY DEF MagicInv
<1> QED BY <1>1, SliceInvariant, PTL

(* An effect runs for as many ends of a round as its definition has rounds,*)
(* whichever turns are passed over.                                        *)
THEOREM SliceDurationsFollowRounds == SliceSpec => []DurationsFollowRounds
<1>1. MagicInv => DurationsFollowRounds
  BY DEF MagicInv
<1> QED BY <1>1, SliceInvariant, PTL

-----------------------------------------------------------------------------
(* The end of a fight.  The teams are counted on the combatants as the     *)
(* command leaves them, so who is left need not be known from before.      *)
Decision ==
  /\ status \in {"active", "ended"}
  /\ EndedFightsHaveOneWinner

LEMMA StandingIsFinite ==
  ASSUME NEW v
  PROVE  IsFiniteSet(Standing(v))
<1> DEFINE alive == {a \in Actors : v[a].life # "dead"}
           team  == [a \in alive |-> Team[a]]
<1>1. IsFiniteSet(alive)
  BY FS_Subset, CombatAssumption
<1>2. Standing(v) = {Team[a] : a \in alive}
  BY DEF Standing
<1>3. team \in Surjection(alive, Standing(v))
  BY <1>2 DEF Surjection
<1> QED BY <1>1, <1>3, FS_Surjection

(* One team counted is one team, and it is that of a combatant.            *)
LEMMA OneTeamStands ==
  ASSUME NEW v, Cardinality(Standing(v)) = 1
  PROVE  \E team \in {Team[a] : a \in Actors} : Standing(v) = {team}
<1>1. PICK team : Standing(v) = {team}
  BY StandingIsFinite, FS_Singleton
<1>2. team \in {Team[a] : a \in Actors}
  BY <1>1 DEF Standing
<1> QED BY <1>1, <1>2

(* A blow or a spell ends the fight only for a winner.                     *)
LEMMA SettledHasWinner ==
  ASSUME status = "active", status' = Settled(vital')
  PROVE  Decision'
<1>1. CASE Cardinality(Standing(vital')) = 1
  <2>1. status' = "ended"
    BY <1>1 DEF Settled
  <2>2. \E team \in {Team[a] : a \in Actors} : Standing(vital') = {team}
    BY <1>1, OneTeamStands
  <2>3. EndedFightsHaveOneWinner'
    BY <2>2 DEF EndedFightsHaveOneWinner, Standing
  <2> QED BY <2>1, <2>3 DEF Decision
<1>2. CASE Cardinality(Standing(vital')) # 1
  BY <1>2 DEF Settled, Decision, EndedFightsHaveOneWinner
<1> QED BY <1>1, <1>2

LEMMA UndecidedGoesOn ==
  ASSUME status = "active", status' = status
  PROVE  Decision'
BY DEF Decision, EndedFightsHaveOneWinner

LEMMA DecisionStep ==
  ASSUME Decision, [SliceNext]_svars
  PROVE  Decision'
<1>1. ASSUME NEW a, NEW feet, MoveActor(a, feet) PROVE Decision'
  BY <1>1, UndecidedGoesOn DEF MoveActor, SpendMovement, CanAct, Current
<1>2. ASSUME NEW a, NEW t, NEW outcome, NEW amount, NEW type,
             Attack(a, t, outcome, amount, type)
      PROVE  Decision'
  BY <1>2, SettledHasWinner DEF Attack, CanUseAction, CanAct, Current
<1>3. ASSUME NEW a, NEW s, NEW level, NEW targets, NEW lucky, NEW amounts,
             Cast(a, s, level, targets, lucky, amounts)
      PROVE  Decision'
  BY <1>3, SettledHasWinner DEF Cast, CanUseAction, CanAct, Current
<1>4. ASSUME NEW a, NEW roll, NEW amounts, EndTurnAndRound(a, roll, amounts)
      PROVE  Decision'
  BY <1>4, UndecidedGoesOn DEF EndTurnAndRound, Current
<1>5. CASE UNCHANGED svars
  BY <1>5 DEF svars, vars, Decision, EndedFightsHaveOneWinner, Standing
<1> QED BY <1>1, <1>2, <1>3, <1>4, <1>5 DEF SliceNext

(* For any teams of any size: a fight that is over has exactly one team    *)
(* with a member that is not dead, and keeps it, so the victory the        *)
(* campaign records has a winner.                                          *)
THEOREM EndedFightsHaveAWinner == SliceSpec => []EndedFightsHaveOneWinner
<1>1. SliceInit => Decision
  BY DEF SliceInit, Decision, EndedFightsHaveOneWinner
<1>2. Decision => EndedFightsHaveOneWinner
  BY DEF Decision
<1> QED BY <1>1, <1>2, DecisionStep, PTL DEF SliceSpec

-----------------------------------------------------------------------------
(* What spells do to combatants.  The effects of a round's end work one    *)
(* after another, so their result is computed by recursion on how many     *)
(* have; what holds after each of them is shown by a least counterexample. *)
LEMMA LeastOf ==
  ASSUME NEW S \in SUBSET Nat, S # {}
  PROVE  \E m \in S : \A k \in S : m <= k
<1>1. PICK m \in S : \A k \in S : ~(<<k, m>> \in OpToRel(<, Nat))
  BY NatLessThanWellFounded, WFMin, Zenon
<1>2. ASSUME NEW k \in S PROVE m <= k
  <2>1. ~(k < m)
    BY <1>1 DEF OpToRel
  <2> QED BY <2>1
<1> QED BY <1>2

(* The combatants after the first k effects, for k up to n.                *)
IsRun(run, n, st, effects, amounts) ==
  run = [k \in 0 .. n |-> IF k = 0 THEN st
                          ELSE Ticked(run[k - 1], effects[k], amounts[effects[k]])]

LEMMA RunExists ==
  ASSUME NEW st, NEW effects, NEW amounts, NEW n \in Nat
  PROVE  \E run : IsRun(run, n, st, effects, amounts)
<1> DEFINE Has(m) == \E run : IsRun(run, m, st, effects, amounts)
           bad    == {m \in Nat : ~Has(m)}
<1> SUFFICES ASSUME bad # {} PROVE FALSE
  OBVIOUS
<1>1. PICK m \in bad : \A k \in bad : m <= k
  BY LeastOf
<1>2. m \in Nat /\ ~Has(m)
  OBVIOUS
<1>3. m # 0
  <2> DEFINE run == [k \in 0 .. 0 |-> st]
  <2>1. IsRun(run, 0, st, effects, amounts)
    BY DEF IsRun
  <2> QED BY <1>2, <2>1
<1>4. Has(m - 1)
  <2>1. m - 1 \in Nat /\ ~(m <= m - 1)
    BY <1>2, <1>3
  <2> QED BY <1>1, <2>1
<1>5. PICK run : IsRun(run, m - 1, st, effects, amounts)
  BY <1>4
<1> DEFINE Tick(r, k) == Ticked(r[k - 1], effects[k], amounts[effects[k]])
           more == [k \in 0 .. m |-> IF k = 0 THEN st ELSE Tick(run, k)]
<1>6. ASSUME NEW k \in 0 .. m, k # 0 PROVE more[k - 1] = run[k - 1]
  <2>1. k - 1 \in 0 .. (m - 1) /\ k - 1 \in 0 .. m
    BY <1>2, <1>6
  <2>2. run[k - 1] = IF k - 1 = 0 THEN st ELSE Tick(run, k - 1)
    BY <1>5, <2>1 DEF IsRun
  <2>3. more[k - 1] = IF k - 1 = 0 THEN st ELSE Tick(run, k - 1)
    BY <2>1
  <2> QED BY <2>2, <2>3
<1>7. \A k \in 0 .. m : (IF k = 0 THEN st ELSE Tick(run, k)) = IF k = 0 THEN st ELSE Tick(more, k)
  BY <1>6
<1>8. more = [k \in 0 .. m |-> IF k = 0 THEN st ELSE Tick(more, k)]
  BY <1>7
<1>9. IsRun(more, m, st, effects, amounts)
  BY <1>8 DEF IsRun
<1> QED BY <1>2, <1>9

(* So what AllTicked computes is the end of such a run.                    *)
LEMMA AllTickedIsRun ==
  ASSUME NEW st, NEW effects, NEW amounts, Len(effects) \in Nat
  PROVE  \E run : /\ IsRun(run, Len(effects), st, effects, amounts)
                  /\ AllTicked(st, effects, amounts) = run[Len(effects)]
<1> DEFINE upTo == CHOOSE run : IsRun(run, Len(effects), st, effects, amounts)
<1>1. IsRun(upTo, Len(effects), st, effects, amounts)
  BY RunExists
<1>2. AllTicked(st, effects, amounts) = upTo[Len(effects)]
  BY DEF AllTicked, IsRun
<1> HIDE DEF upTo
<1> QED BY <1>1, <1>2

(* Combatants as commands hand them on: of the right shape and sound.      *)
Roster == [vital : [Actors -> Vital], conds : [Actors -> SUBSET ConditionIds]]
Sane(st) == st \in Roster /\ \A a \in Actors : Sound(a, st.vital[a])

(* A spell may work on a target: one that hurts or heals, on the living.   *)
Workable(st, s, t) ==
  Book[s].effect \in {"damage", "healing"} => st.vital[t].life # "dead"

(* The condition a spell lays on its targets.                              *)
Laid(s) == IF Book[s].effect = "condition" THEN {Book[s].what} ELSE {}

LEMMA SyncedAddsNothing ==
  ASSUME NEW held \in SUBSET ConditionIds, NEW life
  PROVE  /\ Synced(held, life) \in SUBSET ConditionIds
         /\ Synced(held, life) \ {Unconscious} \subseteq held
BY CombatAssumption DEF Synced

(* What one effect makes of one target.                                    *)
LEMMA AppliedIsSound ==
  ASSUME NEW st, Sane(st), NEW s \in Spells, NEW t \in Actors, NEW amount \in Nat,
         Workable(st, s, t)
  PROVE  /\ Applied(st, s, t, amount).vital[t] \in Vital
         /\ Sound(t, Applied(st, s, t, amount).vital[t])
         /\ Applied(st, s, t, amount).conds[t] \in SUBSET ConditionIds
         /\ Applied(st, s, t, amount).conds[t] \ {Unconscious} \subseteq st.conds[t] \cup Laid(s)
<1> DEFINE v == st.vital[t]
           w == st.conds[t]
           goal(u, c) == /\ u \in Vital /\ Sound(t, u)
                         /\ c \in SUBSET ConditionIds
                         /\ c \ {Unconscious} \subseteq w \cup Laid(s)
<1>1. st \in Roster /\ v \in Vital /\ Sound(t, v) /\ w \in SUBSET ConditionIds
  BY DEF Sane, Roster
<1>2. Book[s].effect \in {"damage", "healing", "condition", "removal"}
  BY SliceAssumption DEF Definition
<1>3. ASSUME NEW u, u \in Vital, Sound(t, u), Applied(st, s, t, amount) = Altered(st, t, u)
      PROVE  goal(Applied(st, s, t, amount).vital[t], Applied(st, s, t, amount).conds[t])
  <2>1. Altered(st, t, u).vital[t] = u /\ Altered(st, t, u).conds[t] = Synced(w, u.life)
    BY <1>1 DEF Altered, Roster
  <2>2. Synced(w, u.life) \in SUBSET ConditionIds /\ Synced(w, u.life) \ {Unconscious} \subseteq w
    BY <1>1, SyncedAddsNothing
  <2> QED BY <1>3, <2>1, <2>2
<1>4. CASE Book[s].effect = "damage"
  <2> DEFINE hurt == AfterDamage(t, v, AdjustDamage(t, amount, Book[s].what), FALSE)
  <2>1. hurt \in Vital /\ Sound(t, hurt)
    BY <1>1, <1>4, AdjustedIsNat, DamageIsSound DEF Workable
  <2>2. Applied(st, s, t, amount) = Altered(st, t, hurt)
    BY <1>4 DEF Applied
  <2> HIDE DEF hurt
  <2> QED BY <1>3, <2>1, <2>2
<1>5. CASE Book[s].effect = "healing"
  <2> DEFINE healed == AfterHealing(t, v, amount)
  <2>1. healed \in Vital /\ Sound(t, healed)
    BY <1>1, <1>5, HealingIsSound DEF Workable
  <2>2. Applied(st, s, t, amount) = Altered(st, t, healed)
    BY <1>5 DEF Applied
  <2> HIDE DEF healed
  <2> QED BY <1>3, <2>1, <2>2
<1>6. CASE Book[s].effect = "condition"
  <2>1. Applied(st, s, t, amount) = [st EXCEPT !.conds[t] = @ \cup {Book[s].what}]
    BY <1>6 DEF Applied
  <2>2. Applied(st, s, t, amount).vital[t] = v
    BY <1>1, <2>1 DEF Roster
  <2>3. Applied(st, s, t, amount).conds[t] = w \cup {Book[s].what}
    BY <1>1, <2>1 DEF Roster
  <2>4. Book[s].what \in ConditionIds
    BY <1>6, SliceAssumption
  <2> QED BY <1>1, <1>6, <2>2, <2>3, <2>4 DEF Laid
<1>7. CASE Book[s].effect = "removal"
  <2>1. Applied(st, s, t, amount) = [st EXCEPT !.conds[t] = @ \ {Book[s].what}]
    BY <1>7 DEF Applied
  <2>2. Applied(st, s, t, amount).vital[t] = v
    BY <1>1, <2>1 DEF Roster
  <2>3. Applied(st, s, t, amount).conds[t] = w \ {Book[s].what}
    BY <1>1, <2>1 DEF Roster
  <2> QED BY <1>1, <2>2, <2>3
<1> QED BY <1>2, <1>4, <1>5, <1>6, <1>7

(* What it makes of all of its targets, and of everybody else.             *)
LEMMA AppliedToAllIsSane ==
  ASSUME NEW st, Sane(st), NEW s \in Spells, NEW targets, NEW amounts,
         \A t \in targets : amounts[t] \in Nat /\ Workable(st, s, t)
  PROVE  LET after == AppliedToAll(st, s, targets, amounts)
         IN  /\ Sane(after)
             /\ \A t \in Actors :
                  after.conds[t] \ {Unconscious}
                    \subseteq st.conds[t] \cup (IF t \in targets THEN Laid(s) ELSE {})
<1> DEFINE hit(t) == IF t \in targets THEN Applied(st, s, t, amounts[t]) ELSE st
           after  == AppliedToAll(st, s, targets, amounts)
<1>1. after = [vital |-> [t \in Actors |-> hit(t).vital[t]],
               conds |-> [t \in Actors |-> hit(t).conds[t]]]
  BY DEF AppliedToAll
<1>2. ASSUME NEW t \in Actors
      PROVE  /\ hit(t).vital[t] \in Vital /\ Sound(t, hit(t).vital[t])
             /\ hit(t).conds[t] \in SUBSET ConditionIds
             /\ hit(t).conds[t] \ {Unconscious}
                  \subseteq st.conds[t] \cup (IF t \in targets THEN Laid(s) ELSE {})
  <2>1. CASE t \in targets
    BY <2>1, AppliedIsSound
  <2>2. CASE t \notin targets
    BY <2>2 DEF Sane, Roster
  <2> QED BY <2>1, <2>2
<1> HIDE DEF hit, after
<1>3. /\ after.vital = [t \in Actors |-> hit(t).vital[t]]
      /\ after.conds = [t \in Actors |-> hit(t).conds[t]]
  BY <1>1
<1>4. after \in Roster
  BY <1>1, <1>2 DEF Roster
<1>5. \A t \in Actors : Sound(t, after.vital[t])
  BY <1>2, <1>3
<1>6. \A t \in Actors :
        after.conds[t] \ {Unconscious}
          \subseteq st.conds[t] \cup (IF t \in targets THEN Laid(s) ELSE {})
  BY <1>2, <1>3
<1> QED BY <1>4, <1>5, <1>6 DEF Sane, after

(* Each condition but unconsciousness has a spell among the effects.       *)
Explained(st, effects) ==
  \A t \in Actors : \A c \in st.conds[t] \ {Unconscious} :
    \E e \in effects : Binds(e, t) /\ Book[e.spell].what = c

(* Conditions that are lifted leave the rest as it is.                     *)
LEMMA LiftedIsSane ==
  ASSUME NEW st, Sane(st), NEW effects
  PROVE  LET freed == [st EXCEPT !.conds = Lifted(@, effects)]
         IN  /\ Sane(freed) /\ freed.vital = st.vital
             /\ \A t \in Actors :
                  /\ freed.conds[t] \subseteq st.conds[t]
                  /\ \A e \in effects : Binds(e, t) => Book[e.spell].what \notin freed.conds[t]
<1> DEFINE freed == [st EXCEPT !.conds = Lifted(@, effects)]
<1>1. st \in Roster
  BY DEF Sane
<1>2. freed.vital = st.vital /\ freed.conds = Lifted(st.conds, effects)
  BY <1>1 DEF Roster
<1>3. \A t \in Actors :
        /\ Lifted(st.conds, effects)[t] \subseteq st.conds[t]
        /\ \A e \in effects : Binds(e, t) => Book[e.spell].what \notin Lifted(st.conds, effects)[t]
  BY DEF Lifted
<1>4. Lifted(st.conds, effects) \in [Actors -> SUBSET ConditionIds]
  <2>1. \A t \in Actors : Lifted(st.conds, effects)[t] \in SUBSET ConditionIds
    BY <1>1, <1>3 DEF Roster
  <2> QED BY <2>1 DEF Lifted
<1>5. freed \in Roster
  BY <1>1, <1>4 DEF Roster
<1> HIDE DEF freed
<1>6. Sane(freed)
  BY <1>2, <1>5 DEF Sane
<1> QED BY <1>2, <1>3, <1>6 DEF freed

(* An effect of a round's end has its dice if it needs them.               *)
Ready(e, amounts) == e \in Effect /\ (Book[e.spell].ongoing => amounts \in [Actors -> Nat])

(* One effect at a round's end: if that was its last, its conditions go    *)
(* with it, those of other effects need them no more than before.          *)
LEMMA TickedIsSane ==
  ASSUME NEW st, Sane(st), NEW e, NEW amounts, Ready(e, amounts)
  PROVE  /\ Sane(Ticked(st, e, amounts))
         /\ \A effects : Explained(st, effects \cup {e}) =>
              Explained(Ticked(st, e, amounts), IF e.left > 1 THEN effects \cup {e} ELSE effects)
<1> DEFINE hurt  == AppliedToAll(st, e.spell, Struck(st, e), amounts)
           freed == [hurt EXCEPT !.conds = Lifted(@, {e})]
<1>1. e.spell \in Spells /\ e.targets \subseteq Actors /\ e.left \in Nat
  BY DEF Ready, Effect
<1>2. Struck(st, e) \subseteq e.targets
  BY DEF Struck
<1>3. \A t \in Struck(st, e) : amounts[t] \in Nat /\ Workable(st, e.spell, t)
  BY <1>1 DEF Struck, Ready, Workable
<1>4. /\ Sane(hurt)
      /\ \A t \in Actors :
           hurt.conds[t] \ {Unconscious}
             \subseteq st.conds[t] \cup (IF t \in Struck(st, e) THEN Laid(e.spell) ELSE {})
  BY <1>1, <1>3, AppliedToAllIsSane
<1>5. Ticked(st, e, amounts) = IF e.left <= 1 THEN freed ELSE hurt
  BY DEF Ticked
<1>6. \A t \in Actors : t \in Struck(st, e) => \A c \in Laid(e.spell) :
        Binds(e, t) /\ Book[e.spell].what = c
  BY <1>2 DEF Binds, Laid
<1>7. ASSUME NEW effects, Explained(st, effects \cup {e})
      PROVE  Explained(hurt, effects \cup {e})
  BY <1>4, <1>6, <1>7 DEF Explained
<1> HIDE DEF hurt
<1>8. /\ Sane(freed)
      /\ \A t \in Actors :
           /\ freed.conds[t] \subseteq hurt.conds[t]
           /\ Binds(e, t) => Book[e.spell].what \notin freed.conds[t]
  BY <1>4, LiftedIsSane
<1> HIDE DEF freed
<1>9. ASSUME NEW effects, Explained(hurt, effects \cup {e})
      PROVE  Explained(freed, effects)
  BY <1>8, <1>9 DEF Explained
<1>10. CASE e.left > 1
  <2>1. Ticked(st, e, amounts) = hurt
    BY <1>1, <1>5, <1>10
  <2> QED BY <1>4, <1>7, <1>10, <2>1
<1>11. CASE ~(e.left > 1)
  <2>1. Ticked(st, e, amounts) = freed
    BY <1>1, <1>5, <1>11
  <2> QED BY <1>7, <1>8, <1>9, <1>11, <2>1
<1> QED BY <1>10, <1>11

(* A round's end takes every running effect once, in some order.           *)
LEMMA OrderedOnce ==
  ASSUME IsFiniteSet(running), NEW effects \in SetToSeqs(running)
  PROVE  /\ Len(effects) \in Nat
         /\ \A k \in 1 .. Len(effects) : effects[k] \in running
         /\ \A e \in running : \E k \in 1 .. Len(effects) : effects[k] = e
<1> DEFINE n == Cardinality(running)
<1>1. n \in Nat
  BY FS_CardinalityType
<1>2. /\ effects \in [1 .. n -> running]
      /\ \A i, j \in 1 .. n : i # j => effects[i] # effects[j]
  BY DEF SetToSeqs
<1> HIDE DEF n
<1>3. effects \in Seq(running)
  BY <1>1, <1>2, SeqDef
<1>4. Len(effects) = n
  <2>1. DOMAIN effects = 1 .. n
    BY <1>2
  <2>2. Len(effects) \in Nat /\ DOMAIN effects = 1 .. Len(effects)
    BY <1>3, LenProperties
  <2> QED BY <1>1, <2>1, <2>2
<1>5. effects \in Injection(1 .. n, running)
  BY <1>2 DEF Injection, IsInjective
<1>6. IsFiniteSet(1 .. n) /\ Cardinality(1 .. n) = n
  BY <1>1, FS_Interval
<1>7. effects \in Surjection(1 .. n, running)
  BY <1>5, <1>6, FS_Injection DEF n
<1> QED BY <1>1, <1>2, <1>4, <1>7 DEF Surjection

LEMMA RoundIsSane ==
  ASSUME MagicShape, IsFiniteSet(running), NEW st, Sane(st),
         NEW effects \in SetToSeqs(running), NEW amounts,
         \A e \in running : Ready(e, amounts[e])
  PROVE  /\ Sane(AllTicked(st, effects, amounts))
         /\ Explained(st, running) => Explained(AllTicked(st, effects, amounts), Continuing)
<1> DEFINE n       == Len(effects)
           stays   == {e \in running : e.left > 1}
           todo(k) == {effects[j] : j \in (k + 1) .. n}
<1>1. n \in Nat /\ \A k \in 1 .. n : effects[k] \in running
  BY OrderedOnce
<1>2. running \subseteq todo(0)
  BY OrderedOnce
<1>3. PICK run : /\ IsRun(run, n, st, effects, amounts)
                 /\ AllTicked(st, effects, amounts) = run[n]
  BY <1>1, AllTickedIsRun
<1> DEFINE good(k) == /\ Sane(run[k])
                      /\ Explained(st, running) => Explained(run[k], stays \cup todo(k))
<1>4. good(0)
  <2>1. run[0] = st
    BY <1>1, <1>3 DEF IsRun
  <2> QED BY <1>2, <2>1 DEF Explained
<1>5. ASSUME NEW k \in 1 .. n, good(k - 1) PROVE good(k)
  <2> DEFINE e    == effects[k]
             rest == stays \cup todo(k)
  <2>1. run[k] = Ticked(run[k - 1], e, amounts[e])
    BY <1>1, <1>3 DEF IsRun
  <2>2. e \in running /\ Ready(e, amounts[e])
    BY <1>1
  <2>3. todo(k - 1) \subseteq todo(k) \cup {e}
    <3>1. ASSUME NEW j \in ((k - 1) + 1) .. n PROVE j \in (k + 1) .. n \/ j = k
      BY <1>1
    <3> QED BY <3>1
  <2>4. Explained(st, running) => Explained(run[k - 1], rest \cup {e})
    BY <1>5, <2>3 DEF Explained
  <2>5. (IF e.left > 1 THEN rest \cup {e} ELSE rest) = rest
    BY <2>2
  <2> HIDE DEF e, rest
  <2>6. Sane(run[k - 1])
    BY <1>5
  <2>7. Sane(run[k]) /\ (Explained(st, running) => Explained(run[k], rest))
    BY <2>1, <2>2, <2>4, <2>5, <2>6, TickedIsSane
  <2> QED BY <2>7 DEF rest
<1> HIDE DEF good
<1>6. good(n)
  <2> DEFINE bad == {k \in Nat : k <= n /\ ~good(k)}
  <2> SUFFICES ASSUME bad # {} PROVE FALSE
    BY <1>1
  <2>1. PICK k \in bad : \A j \in bad : k <= j
    BY LeastOf
  <2>2. k \in Nat /\ k <= n /\ ~good(k)
    OBVIOUS
  <2>3. k \in 1 .. n
    BY <1>1, <1>4, <2>2
  <2>4. k - 1 \in Nat /\ k - 1 <= n /\ ~(k <= k - 1)
    BY <1>1, <2>3
  <2>5. good(k - 1)
    BY <2>1, <2>4
  <2> QED BY <1>5, <2>2, <2>3, <2>5
<1>7. todo(n) = {}
  BY <1>1
<1>8. /\ Sane(run[n])
      /\ Explained(st, running) => Explained(run[n], stays)
  BY <1>6, <1>7 DEF good
<1>9. ASSUME NEW t, NEW e \in stays, Binds(e, t)
      PROVE  Aged(e) \in Continuing /\ Binds(Aged(e), t) /\ Aged(e).spell = e.spell
  <2>1. e \in Effect
    BY DEF MagicShape
  <2>2. Aged(e).targets = e.targets /\ Aged(e).spell = e.spell
    BY <2>1 DEF Aged, Effect
  <2> QED BY <1>9, <2>2, ContinuingIsAged DEF Binds
<1>10. Explained(run[n], stays) => Explained(run[n], Continuing)
  BY <1>9 DEF Explained
<1> QED BY <1>3, <1>8, <1>10

-----------------------------------------------------------------------------
(* The encounter of Combat under spells: its own invariant, the pools, and *)
(* effects that can be taken one after another.                            *)
Sturdy ==
  /\ IInv
  /\ status \in {"active", "ended"}
  /\ slots \in [Actors -> [Levels -> Nat]]
  /\ IsFiniteSet(running)

(* Every spell that lays a condition has a duration, as every shipped one. *)
TimedConditions == \A s \in Spells : Book[s].effect = "condition" => Book[s].rounds # None

LEMMA NowIsSane ==
  /\ IInv => Sane(Now)
  /\ ConditionsHaveASpell <=> Explained(Now, running)
BY DEF IInv, TypeOK, Sane, Roster, Now, ConditionsHaveASpell, Explained

(* What a command makes of the combatants, and what it leaves alone.       *)
LEMMA RebuiltKeepsIInv ==
  ASSUME Sturdy, NEW st, Sane(st), vital' = st.vital, conds' = st.conds,
         status' \in {"active", "ended"}, economy' \in [Actors -> Economy],
         turn' \in Places, round' \in Nat, UNCHANGED <<order, windows>>
  PROVE  IInv'
BY DEF Sturdy, IInv, TypeOK, Sane, Roster

LEMMA SettledStatus ==
  ASSUME status \in {"active", "ended"}, status' = Settled(vital')
  PROVE  status' \in {"active", "ended"}
BY DEF Settled

(* A strike.                                                               *)
LEMMA AttackKeepsSturdy ==
  ASSUME Sturdy, NEW a \in Actors, NEW t \in Actors,
         NEW outcome \in {"miss", "hit", "critical"}, NEW amount \in Amounts,
         NEW type \in DamageTypes, Attack(a, t, outcome, amount, type)
  PROVE  Sturdy' /\ (ConditionsHaveASpell => ConditionsHaveASpell')
<1>1. economy' \in [Actors -> Economy] /\ status' \in {"active", "ended"}
  BY SpentIsEconomy, SettledStatus DEF Attack, Sturdy
<1>2. /\ vital' \in [Actors -> Vital] /\ conds' \in [Actors -> SUBSET ConditionIds]
      /\ \A b \in Actors : Sound(b, vital'[b]) /\ conds'[b] \ {Unconscious} \subseteq conds[b]
  <2>1. CASE outcome = "miss"
    BY <2>1 DEF Attack, Sturdy, IInv, TypeOK
  <2>2. CASE outcome # "miss"
    <3>1. Harm(t, amount, type, outcome = "critical") /\ amount \in Nat
      BY <2>2, CombatAssumption DEF Attack
    <3>2. /\ vital' \in [Actors -> Vital] /\ conds' \in [Actors -> SUBSET ConditionIds]
          /\ \A b \in Actors : Sound(b, vital'[b])
      BY <3>1, HarmKeepsSound DEF Sturdy
    <3>3. \A b \in Actors : conds'[b] \ {Unconscious} \subseteq conds[b]
      BY <3>1, SyncedAddsNothing DEF Harm, ChangeVital, Sturdy, IInv, TypeOK
    <3> QED BY <3>2, <3>3
  <2> QED BY <2>1, <2>2
<1>3. UNCHANGED <<order, turn, round, windows, slots, focus, running>>
  BY DEF Attack, magic
<1>4. IInv'
  BY <1>1, <1>2, <1>3 DEF Sturdy, IInv, TypeOK
<1>5. ConditionsHaveASpell => ConditionsHaveASpell'
  BY <1>2, <1>3 DEF ConditionsHaveASpell
<1> QED BY <1>1, <1>3, <1>4, <1>5 DEF Sturdy

(* A move.                                                                 *)
LEMMA MoveKeepsSturdy ==
  ASSUME Sturdy, NEW a \in Actors, NEW feet \in Feet, MoveActor(a, feet)
  PROVE  Sturdy' /\ (ConditionsHaveASpell => ConditionsHaveASpell')
<1>1. SpendMovement(a, feet) /\ UNCHANGED magic
  BY DEF MoveActor
<1>2. Next
  BY <1>1 DEF Next, Move
<1>3. IInv'
  BY <1>2, StepSound DEF Sturdy
<1>4. UNCHANGED <<status, conds, slots, running>>
  BY <1>1 DEF SpendMovement, magic
<1> QED BY <1>3, <1>4 DEF Sturdy, ConditionsHaveASpell

(* A cast: whom it touches it may work on, with natural amounts.           *)
LEMMA HalvedIsNat ==
  ASSUME NEW s, NEW lucky, NEW amounts \in [Actors -> Amounts], NEW t \in Actors
  PROVE  Halved(s, lucky, amounts)[t] \in Nat
<1>1. amounts[t] \in Nat
  BY CombatAssumption
<1>2. \A n \in Nat : n \div 2 \in Nat
  OBVIOUS
<1> QED BY <1>1, <1>2 DEF Halved

LEMMA CastIsSane ==
  ASSUME Sturdy, NEW a \in Actors, NEW s \in Spells, NEW level, NEW targets, NEW lucky,
         NEW amounts \in [Actors -> Amounts], Cast(a, s, level, targets, lucky, amounts)
  PROVE  LET touched == Touched(s, targets, lucky)
             freed   == [Now EXCEPT !.conds = Lifted(@, Replaced(a, s))]
             hurt    == AppliedToAll(freed, s, touched, Halved(s, lucky, amounts))
         IN  /\ Sane(hurt)
             /\ \A t \in Actors : \A c \in hurt.conds[t] \ {Unconscious} :
                  \/ c \in conds[t] /\ \A e \in Replaced(a, s) :
                                         Binds(e, t) => Book[e.spell].what # c
                  \/ t \in touched /\ c \in Laid(s)
<1> DEFINE touched == Touched(s, targets, lucky)
           freed   == [Now EXCEPT !.conds = Lifted(@, Replaced(a, s))]
           halved  == Halved(s, lucky, amounts)
           hurt    == AppliedToAll(freed, s, touched, halved)
<1>1. touched \subseteq Actors
  <2>1. targets \in Targets(a, s) /\ lucky \in SUBSET targets
    BY DEF Cast
  <2> QED BY <2>1, TouchedAreActors
<1>2. Sane(Now)
  BY NowIsSane DEF Sturdy
<1>3. /\ Sane(freed) /\ freed.vital = Now.vital
      /\ \A t \in Actors :
           /\ freed.conds[t] \subseteq Now.conds[t]
           /\ \A e \in Replaced(a, s) : Binds(e, t) => Book[e.spell].what \notin freed.conds[t]
  BY <1>2, LiftedIsSane
<1>4. Now.vital = vital /\ Now.conds = conds
  BY DEF Now
<1>5. Book[s].effect \in {"damage", "healing"} => \A t \in touched : vital[t].life # "dead"
  BY DEF Cast
<1> HIDE DEF freed, touched, halved
<1>6. \A t \in touched : halved[t] \in Nat /\ Workable(freed, s, t)
  BY <1>1, <1>3, <1>4, <1>5, HalvedIsNat DEF Workable, halved
<1>7. /\ Sane(hurt)
      /\ \A t \in Actors :
           hurt.conds[t] \ {Unconscious}
             \subseteq freed.conds[t] \cup (IF t \in touched THEN Laid(s) ELSE {})
  BY <1>3, <1>6, AppliedToAllIsSane
<1> HIDE DEF hurt
<1>8. ASSUME NEW t \in Actors, NEW c \in hurt.conds[t] \ {Unconscious}
      PROVE  \/ c \in conds[t] /\ \A e \in Replaced(a, s) : Binds(e, t) => Book[e.spell].what # c
             \/ t \in touched /\ c \in Laid(s)
  <2>1. CASE c \in freed.conds[t]
    BY <1>3, <1>4, <2>1
  <2>2. CASE c \notin freed.conds[t]
    BY <1>7, <2>2
  <2> QED BY <2>1, <2>2
<1> QED BY <1>7, <1>8 DEF hurt, freed, touched, halved

LEMMA CastKeepsSturdy ==
  ASSUME MagicShape, Sturdy, NEW a \in Actors, NEW s \in Spells,
         NEW level \in Levels \cup {0}, NEW targets, NEW lucky,
         NEW amounts \in [Actors -> Amounts], Cast(a, s, level, targets, lucky, amounts)
  PROVE  Sturdy' /\ (TimedConditions /\ ConditionsHaveASpell => ConditionsHaveASpell')
<1> DEFINE touched == Touched(s, targets, lucky)
           freed   == [Now EXCEPT !.conds = Lifted(@, Replaced(a, s))]
           hurt    == AppliedToAll(freed, s, touched, Halved(s, lucky, amounts))
           begun   == Begun(a, s, touched)
           started == IF Lasts(s) /\ touched # {} THEN {begun} ELSE {}
<1>1. /\ Sane(hurt)
      /\ \A t \in Actors : \A c \in hurt.conds[t] \ {Unconscious} :
           \/ c \in conds[t] /\ \A e \in Replaced(a, s) : Binds(e, t) => Book[e.spell].what # c
           \/ t \in touched /\ c \in Laid(s)
  BY CastIsSane
<1>2. vital' = hurt.vital /\ conds' = hurt.conds
  BY DEF Cast, Become
<1>3. running' = (running \ Replaced(a, s)) \cup started
  BY DEF Cast, Begun
<1>4. economy' \in [Actors -> Economy] /\ status' \in {"active", "ended"}
  <2>1. economy' = Spent(a, "action") /\ status' = Settled(vital')
    BY DEF Cast
  <2> QED BY <2>1, SpentIsEconomy, SettledStatus DEF Sturdy
<1>5. UNCHANGED <<order, turn, round, windows>>
  BY DEF Cast
<1>6. slots' \in [Actors -> [Levels -> Nat]]
  <2>1. slots' = IF level = 0 THEN slots ELSE [slots EXCEPT ![a][level] = @ - 1]
    BY DEF Cast
  <2>2. CASE level = 0
    BY <2>1, <2>2 DEF Sturdy
  <2>3. CASE level # 0
    <3>1. level \in Levels /\ slots[a][level] \in Nat /\ slots[a][level] > 0
      BY <2>3 DEF Cast, HasSlot, Sturdy
    <3>2. slots[a][level] - 1 \in Nat
      BY <3>1
    <3> QED BY <2>1, <2>3, <3>1, <3>2 DEF Sturdy
  <2> QED BY <2>2, <2>3
<1>7. IsFiniteSet(running')
  <2>1. IsFiniteSet(running \ Replaced(a, s))
    BY FS_Subset DEF Sturdy
  <2>2. IsFiniteSet(started)
    BY FS_Singleton, FS_EmptySet
  <2> HIDE DEF started
  <2> QED BY <1>3, <2>1, <2>2, FS_Union
<1>8. begun.spell = s /\ begun.targets = touched
  BY DEF Begun
<1>9. ASSUME TimedConditions, ConditionsHaveASpell PROVE ConditionsHaveASpell'
  <2> HIDE DEF hurt, touched, begun
  <2>1. ASSUME NEW t \in Actors, NEW c \in hurt.conds[t] \ {Unconscious}
        PROVE  \E e \in running' : Binds(e, t) /\ Book[e.spell].what = c
    <3>1. CASE c \in conds[t] /\ \A e \in Replaced(a, s) : Binds(e, t) => Book[e.spell].what # c
      <4>1. PICK e \in running : Binds(e, t) /\ Book[e.spell].what = c
        BY <1>9, <2>1, <3>1 DEF ConditionsHaveASpell
      <4>2. e \in running'
        BY <1>3, <3>1, <4>1
      <4> QED BY <4>1, <4>2
    <3>2. CASE t \in touched /\ c \in Laid(s)
      <4>1. Book[s].effect = "condition" /\ Book[s].what = c
        BY <3>2 DEF Laid
      <4>2. begun \in running'
        BY <1>3, <1>9, <3>2, <4>1 DEF Lasts, TimedConditions
      <4>3. Binds(begun, t)
        BY <1>8, <3>2, <4>1 DEF Binds
      <4> QED BY <1>8, <4>1, <4>2, <4>3
    <3> QED BY <1>1, <2>1, <3>1, <3>2
  <2> QED BY <1>2, <2>1 DEF ConditionsHaveASpell, Binds
<1> HIDE DEF hurt
<1>10. IInv'
  <2>1. turn \in Places /\ round \in Nat
    BY DEF Sturdy, IInv, TypeOK
  <2> QED BY <1>1, <1>2, <1>4, <1>5, <2>1, RebuiltKeepsIInv
<1> QED BY <1>4, <1>6, <1>7, <1>9, <1>10 DEF Sturdy

(* The end of a turn, with the save of whoever is next.                    *)
LEMMA SavedIsSane ==
  ASSUME Sturdy, NEW b \in Actors, NEW roll \in SaveRolls
  PROVE  LET saved == IF DeathSaveDue(b) THEN Altered(Now, b, AfterDeathSave(vital[b], roll))
                      ELSE Now
         IN  Sane(saved) /\ \A t \in Actors : saved.conds[t] \ {Unconscious} \subseteq conds[t]
<1> DEFINE v == AfterDeathSave(vital[b], roll)
<1>1. Sane(Now) /\ Now.vital = vital /\ Now.conds = conds
  BY NowIsSane DEF Sturdy, Now
<1>2. CASE DeathSaveDue(b)
  <2>1. vital[b] \in Vital /\ Sound(b, vital[b]) /\ vital[b].life = "unconscious"
    BY <1>2 DEF Sturdy, IInv, TypeOK, DeathSaveDue
  <2>2. v \in Vital /\ Sound(b, v)
    BY <2>1, CombatAssumption, DeathSaveIsSound
  <2> HIDE DEF v
  <2>3. Now \in Roster
    BY <1>1 DEF Sane
  <2>4. /\ Altered(Now, b, v).vital = [vital EXCEPT ![b] = v]
        /\ Altered(Now, b, v).conds = [conds EXCEPT ![b] = Synced(@, v.life)]
    BY <1>1, <2>3 DEF Altered, Now
  <2>5. conds[b] \in SUBSET ConditionIds
    BY DEF Sturdy, IInv, TypeOK
  <2>6. Synced(conds[b], v.life) \in SUBSET ConditionIds
        /\ Synced(conds[b], v.life) \ {Unconscious} \subseteq conds[b]
    BY <2>5, SyncedAddsNothing
  <2>7. Altered(Now, b, v) \in Roster
    BY <2>2, <2>3, <2>6 DEF Altered, Now, Roster
  <2>8. \A a \in Actors : Sound(a, Altered(Now, b, v).vital[a])
    BY <2>2, <2>4 DEF Sturdy, IInv, TypeOK
  <2>9. \A t \in Actors : Altered(Now, b, v).conds[t] \ {Unconscious} \subseteq conds[t]
    BY <2>4, <2>6 DEF Sturdy, IInv, TypeOK
  <2> QED BY <1>2, <2>7, <2>8, <2>9 DEF Sane, v
<1>3. CASE ~DeathSaveDue(b)
  BY <1>1, <1>3
<1> QED BY <1>2, <1>3

(* What still runs after a round can still be taken one after another.     *)
LEMMA ContinuingIsFinite ==
  ASSUME IsFiniteSet(running)
  PROVE  IsFiniteSet(Continuing)
<1> DEFINE stays == {e \in running : e.left > 1}
           aged  == [e \in stays |-> Aged(e)]
<1>1. IsFiniteSet(stays)
  BY FS_Subset
<1>2. \A x : x \in Continuing <=> \E e \in stays : x = Aged(e)
  BY ContinuingIsAged
<1>3. aged \in Surjection(stays, Continuing)
  BY <1>2 DEF Surjection
<1> QED BY <1>1, <1>3, FS_Surjection

LEMMA TurnKeepsSturdy ==
  ASSUME MagicShape, Sturdy, NEW a \in Actors, NEW roll \in SaveRolls,
         NEW amounts \in [Ongoing -> [Actors -> Amounts]], EndTurnAndRound(a, roll, amounts)
  PROVE  Sturdy' /\ (ConditionsHaveASpell => ConditionsHaveASpell')
<1>1. PICK k \in 1 .. N :
        LET next  == (turn + k) % N
            b     == order[next]
            saved == IF DeathSaveDue(b) THEN Altered(Now, b, AfterDeathSave(vital[b], roll))
                     ELSE Now
        IN  /\ TurnStarts(next)
            /\ IF RoundIsOver(next) THEN AdvanceRound(saved, amounts)
               ELSE Become(saved) /\ UNCHANGED magic
  BY DEF EndTurnAndRound
<1> DEFINE next  == (turn + k) % N
           b     == order[next]
           saved == IF DeathSaveDue(b) THEN Altered(Now, b, AfterDeathSave(vital[b], roll))
                    ELSE Now
<1>2. /\ TurnStarts(next)
      /\ IF RoundIsOver(next) THEN AdvanceRound(saved, amounts)
         ELSE Become(saved) /\ UNCHANGED magic
  BY <1>1
<1>3. status = "active" /\ UNCHANGED <<status, order, windows>>
  BY DEF EndTurnAndRound, Current
<1>4. order \in Orders /\ turn \in Places /\ round \in Nat
  BY <1>3 DEF Sturdy, IInv, TypeOK
<1>5. next \in Places /\ b \in Actors
  BY <1>4, RotationStaysInOrder DEF Orders
<1>6. /\ Sane(saved)
      /\ \A t \in Actors : saved.conds[t] \ {Unconscious} \subseteq conds[t]
  BY <1>5, SavedIsSane
<1> HIDE DEF saved
<1>7. ConditionsHaveASpell => Explained(saved, running)
  BY <1>6 DEF ConditionsHaveASpell, Explained
<1>8. \A e \in running : Ready(e, amounts[e])
  <2> SUFFICES ASSUME NEW e \in running, Book[e.spell].ongoing
               PROVE  amounts[e] \in [Actors -> Nat]
    BY DEF MagicShape, Ready
  <2>1. amounts[e] \in [Actors -> Amounts]
    BY DEF Ongoing
  <2> QED BY <2>1, CombatAssumption
<1>9. economy' \in [Actors -> Economy]
  BY <1>2, <1>5, FreshIsEconomy DEF TurnStarts, Sturdy
<1>10. turn' \in Places /\ round' \in Nat
  BY <1>2, <1>4, <1>5 DEF TurnStarts, RoundAfter, Places
<1> HIDE DEF next, b
<1>11. ASSUME NEW st, Sane(st), Become(st) PROVE IInv'
  <2>1. vital' = st.vital /\ conds' = st.conds /\ status' \in {"active", "ended"}
    BY <1>3, <1>11 DEF Become
  <2> QED BY <1>3, <1>9, <1>10, <1>11, <2>1, RebuiltKeepsIInv
<1>12. ASSUME NEW st, Become(st), Explained(st, running') PROVE ConditionsHaveASpell'
  BY <1>12 DEF Become, Explained, ConditionsHaveASpell, Binds
<1>13. CASE RoundIsOver(next)
  <2>1. AdvanceRound(saved, amounts)
    BY <1>2, <1>13
  <2>2. PICK effects \in SetToSeqs(running) : Become(AllTicked(saved, effects, amounts))
    BY <2>1 DEF AdvanceRound
  <2>3. running' = Continuing /\ slots' = slots
    BY <2>1 DEF AdvanceRound
  <2>4. /\ Sane(AllTicked(saved, effects, amounts))
        /\ Explained(saved, running) =>
             Explained(AllTicked(saved, effects, amounts), Continuing)
    BY <1>6, <1>8, RoundIsSane DEF Sturdy
  <2>5. IInv'
    BY <1>11, <2>2, <2>4
  <2>6. ConditionsHaveASpell => ConditionsHaveASpell'
    BY <1>7, <1>12, <2>2, <2>3, <2>4
  <2>7. IsFiniteSet(running')
    BY <2>3, ContinuingIsFinite DEF Sturdy
  <2> QED BY <1>3, <2>3, <2>5, <2>6, <2>7 DEF Sturdy
<1>14. CASE ~RoundIsOver(next)
  <2>1. Become(saved) /\ running' = running /\ slots' = slots
    BY <1>2, <1>14 DEF magic
  <2>2. IInv'
    BY <1>6, <1>11, <2>1
  <2>3. ConditionsHaveASpell => ConditionsHaveASpell'
    BY <1>7, <1>12, <2>1
  <2> QED BY <1>3, <2>1, <2>2, <2>3 DEF Sturdy
<1> QED BY <1>13, <1>14

LEMMA SturdyStart == SliceInit => Sturdy /\ ConditionsHaveASpell
<1> SUFFICES ASSUME SliceInit PROVE Sturdy /\ ConditionsHaveASpell
  OBVIOUS
<1>1. PICK hp \in StartHP :
        vital = [a \in Actors |-> [hp |-> hp[a], temp |-> 0,
                                   life |-> "conscious", succ |-> 0, fail |-> 0]]
  BY DEF SliceInit
<1>2. \A a \in Actors : hp[a] \in Nat \ {0} /\ hp[a] <= MaxHP[a]
  BY CombatAssumption
<1>3. vital \in [Actors -> Vital]
  BY <1>1, <1>2 DEF Vital, LifeStates
<1>4. \A a \in Actors : Sound(a, vital[a])
  BY <1>1, <1>2 DEF Sound
<1>5. /\ status = "active" /\ conds = [a \in Actors |-> {}] /\ order \in Orders
      /\ turn = 0 /\ round = 1 /\ windows = {} /\ running = {}
      /\ slots = [a \in Actors |-> Pools]
  BY DEF SliceInit
<1>6. economy \in [Actors -> Economy]
  <2>1. \A a \in Actors : FreshTurn(a) \in Economy
    BY CombatAssumption DEF FreshTurn, Economy
  <2>2. [slots |-> {"reaction"}, movement |-> 0] \in Economy
    BY DEF Economy, Slots
  <2> QED BY <2>1, <2>2 DEF SliceInit
<1>7. IInv
  BY <1>3, <1>4, <1>5, <1>6, PlacesExist DEF IInv, TypeOK
<1>8. slots \in [Actors -> [Levels -> Nat]]
  BY <1>5, SliceAssumption
<1> QED BY <1>5, <1>7, <1>8, FS_EmptySet DEF Sturdy, ConditionsHaveASpell

LEMMA SturdyStep ==
  ASSUME MagicShape, Sturdy, [SliceNext]_svars
  PROVE  Sturdy' /\ (TimedConditions /\ ConditionsHaveASpell => ConditionsHaveASpell')
<1> DEFINE goal == Sturdy' /\ (TimedConditions /\ ConditionsHaveASpell => ConditionsHaveASpell')
<1>1. ASSUME NEW a \in Actors, NEW feet \in Feet, MoveActor(a, feet) PROVE goal
  BY <1>1, MoveKeepsSturdy
<1>2. ASSUME NEW a \in Actors, NEW t \in Actors, NEW outcome \in {"miss", "hit", "critical"},
             NEW amount \in Amounts, NEW type \in DamageTypes,
             Attack(a, t, outcome, amount, type)
      PROVE  goal
  BY <1>2, AttackKeepsSturdy
<1>3. ASSUME NEW a \in Actors, NEW s \in Spells, NEW level \in Levels \cup {0}, NEW targets,
             NEW lucky, NEW amounts \in [Actors -> Amounts],
             Cast(a, s, level, targets, lucky, amounts)
      PROVE  goal
  BY <1>3, CastKeepsSturdy
<1>4. ASSUME NEW a \in Actors, NEW roll \in SaveRolls,
             NEW amounts \in [Ongoing -> [Actors -> Amounts]], EndTurnAndRound(a, roll, amounts)
      PROVE  goal
  BY <1>4, TurnKeepsSturdy
<1>5. CASE UNCHANGED svars
  BY <1>5 DEF svars, vars, magic, Sturdy, IInv, TypeOK, ConditionsHaveASpell, Sound
<1> HIDE DEF goal
<1>6. ASSUME NEW a \in Actors, NEW s \in Spells, NEW level \in Levels \cup {0},
             \E targets \in Targets(a, s) : \E lucky \in SUBSET targets :
               \E amounts \in [Actors -> Amounts] : Cast(a, s, level, targets, lucky, amounts)
      PROVE  goal
  BY <1>3, <1>6
<1>7. CASE \E a \in Actors, feet \in Feet : MoveActor(a, feet)
  BY <1>1, <1>7 DEF goal
<1>8. CASE \E a, t \in Actors, outcome \in {"miss", "hit", "critical"},
             amount \in Amounts, type \in DamageTypes : Attack(a, t, outcome, amount, type)
  BY <1>2, <1>8 DEF goal
<1>9. CASE \E a \in Actors : CanUseAction(a) /\
             \E s \in Spells, level \in Levels \cup {0} :
               HasSlot(a, s, level) /\
               \E targets \in Targets(a, s) : \E lucky \in SUBSET targets :
                 \E amounts \in [Actors -> Amounts] : Cast(a, s, level, targets, lucky, amounts)
  BY <1>6, <1>9 DEF goal
<1>10. CASE \E a \in Actors : Current(a) /\
              \E roll \in SaveRolls, amounts \in [Ongoing -> [Actors -> Amounts]] :
                EndTurnAndRound(a, roll, amounts)
  BY <1>4, <1>10 DEF goal
<1> QED BY <1>5, <1>7, <1>8, <1>9, <1>10 DEF SliceNext, goal

(* The encounter inside a tactical session keeps the invariant of Combat,  *)
(* whatever spells, strikes and round ends do to it.                       *)
THEOREM SliceIsSturdy == SliceSpec => []Sturdy
BY SturdyStart, SturdyStep, SliceStart, SliceStep, PTL DEF SliceSpec, MagicInv

(* Every field of the encounter and of the spell state keeps its shape: no *)
(* pool is overdrawn, and what runs or is concentrated on has a round left.*)
THEOREM SliceIsTyped == SliceSpec => []SliceTypeOK
<1>1. Sturdy /\ MagicInv => SliceTypeOK
  BY DEF Sturdy, IInv, MagicInv, MagicShape, Focus, SliceTypeOK
<1> QED BY <1>1, SliceIsSturdy, SliceInvariant, PTL

(* No spell, strike or save builds a combatant the CombatantState          *)
(* constructor would refuse, in whatever order the effects of a round end  *)
(* reach it.                                                               *)
THEOREM SpellsLeaveSoundVitals == SliceSpec => []LifeMatchesHitPoints
<1>1. Sturdy => LifeMatchesHitPoints
  BY DEF Sturdy, IInv, Sound, LifeMatchesHitPoints
<1> QED BY <1>1, SliceIsSturdy, PTL

(* With any book in which conditions have a duration, whatever is cast     *)
(* over what, no condition outlives the spells that lay it.                *)
THEOREM NoConditionIsLeftBehind == TimedConditions /\ SliceSpec => []ConditionsHaveASpell
<1> SUFFICES ASSUME TimedConditions PROVE SliceSpec => []ConditionsHaveASpell
  OBVIOUS
<1>1. ASSUME MagicInv, Sturdy, ConditionsHaveASpell, [SliceNext]_svars
      PROVE  ConditionsHaveASpell'
  BY <1>1, SturdyStep DEF MagicInv
<1> QED BY <1>1, SturdyStart, SliceInvariant, SliceIsSturdy, PTL DEF SliceSpec
=============================================================================
