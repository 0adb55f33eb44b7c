-------------------------- MODULE CombatRefinement --------------------------
(***************************************************************************)
(* What the rotation promises, in encounters of any size, with any dice,   *)
(* damage, healing and deaths.  Combat implements Encounter: its commands  *)
(* are steps of the abstract encounter or leave it as it is.  And over the *)
(* ledgers of CombatHistory: turns and reactions are shared.               *)
(***************************************************************************)
EXTENDS CombatHistory, CombatProofs

(* Going round the order without the modulus.                              *)
LEMMA Wrap ==
  ASSUME NEW i \in Places, NEW k \in 1 .. N
  PROVE  (i + k) % N = IF i + k < N THEN i + k ELSE i + k - N
BY PlacesExist DEF Places

(* The places end_turn skips are those strictly between.                   *)
LEMMA SkippedPlaces ==
  ASSUME NEW k \in 1 .. N, turn \in Places,
         NEW q \in Promise!Between((turn + k) % N)
  PROVE  \E j \in 1 .. (k - 1) : (turn + j) % N = q
<1> DEFINE p == (turn + k) % N
<1>0. N \in Nat \ {0} /\ turn \in 0 .. (N - 1)
  BY PlacesExist DEF Places
<1>1. p = IF turn + k < N THEN turn + k ELSE turn + k - N
  BY Wrap
<1>2. CASE turn < q
  <2>1. q \in (turn + 1) .. (N - 1) /\ q - turn \in 1 .. (k - 1)
    BY <1>0, <1>1, <1>2 DEF Promise!Between
  <2>2. q - turn \in 1 .. N /\ turn + (q - turn) = q /\ q < N
    BY <1>0, <2>1
  <2>3. (turn + (q - turn)) % N = q
    BY <2>2, Wrap
  <2> QED BY <2>1, <2>3
<1>3. CASE ~(turn < q)
  <2>1. q \in 0 .. (N - 1) /\ p <= turn /\ q < p /\ turn + k >= N
    BY <1>0, <1>1, <1>3 DEF Promise!Between
  <2>2. q + N - turn \in 1 .. (k - 1) /\ q + N - turn \in 1 .. N
    BY <1>0, <1>1, <1>3, <2>1
  <2>3. (turn + (q + N - turn)) % N = q
    BY <1>0, <2>1, <2>2, Wrap
  <2> QED BY <2>2, <2>3
<1> QED BY <1>2, <1>3

(* Both modules mean the same initiative orders.                           *)
LEMMA SameOrders == Promise!Orders = Orders /\ Promise!Places = Places
BY DEF Promise!Orders, Promise!Places, Orders, Places

(* Damage takes a combatant only where Encounter lets a blow take it.      *)
LEMMA DamageWounds ==
  ASSUME IInv, NEW a \in Actors, vital[a].life # "dead",
         NEW amount \in Nat, NEW critical \in BOOLEAN
  PROVE  AfterDamage(a, vital[a], amount, critical).life \in Promise!Wounded(a)
<1> DEFINE v == vital[a]
           w == AfterDamage(a, v, amount, critical)
<1>1. v \in Vital /\ Sound(a, v)
  BY DEF IInv, TypeOK
<1>2. w \in Vital /\ Sound(a, w)
  BY <1>1, DamageIsSound
<1>3. Promise!Wounded(a) =
        IF ZeroHPRule[a] = "monster" THEN {"conscious", "dead"}
        ELSE CASE v.life = "conscious"   -> {"conscious", "unconscious", "dead"}
               [] v.life = "unconscious" -> {"unconscious", "dead"}
               [] v.life = "stable"      -> {"stable", "unconscious", "dead"}
               [] OTHER                  -> {"dead"}
  BY DEF Promise!Wounded
<1>4. v.hp = 0 => w.life \in {v.life, "unconscious", "dead"}
  BY <1>1 DEF AfterDamage, HitWhileDown, Resolved, Vital
<1>5. v.hp # 0 => w.life \in {v.life, "unconscious", "dead"}
  BY <1>1 DEF AfterDamage, Dropped, Resolved, Vital
<1>6. w.life \in {v.life, "unconscious", "dead"}
  BY <1>4, <1>5
<1>7. ZeroHPRule[a] = "monster" => w.life \in {"conscious", "dead"}
  BY <1>2 DEF Sound
<1> HIDE DEF v, w
<1>8. v.life \in {"conscious", "unconscious", "stable"}
  BY <1>1 DEF Vital, LifeStates, v
<1> QED BY <1>3, <1>6, <1>7, <1>8 DEF v, w

(* New vitals for one living combatant are a Wound or a Revive of it.      *)
LEMMA LifeStep ==
  ASSUME IInv, status = "active", NEW t \in Actors, vital[t].life # "dead",
         NEW v, ChangeVital(t, v), UNCHANGED <<status, order, turn, round>>,
         v.life \in Promise!Wounded(t) \cup {"conscious"}
  PROVE  Promise!Next
<1> DEFINE life == [a \in Actors |-> vital[a].life]
<1>1. [a \in Actors |-> vital'[a].life] = [life EXCEPT ![t] = v.life]
  BY DEF ChangeVital, IInv, TypeOK
<1>2. life[t] # "dead"
  OBVIOUS
<1>3. CASE v.life = "conscious"
  <2>1. Promise!Revive(t)
    BY <1>1, <1>2, <1>3 DEF Promise!Revive
  <2> QED BY <2>1 DEF Promise!Next
<1>4. CASE v.life \in Promise!Wounded(t)
  <2>1. Promise!Wound(t)
    BY <1>1, <1>2, <1>4 DEF Promise!Wound
  <2> QED BY <2>1 DEF Promise!Next
<1> QED BY <1>3, <1>4

LEMMA HarmStep ==
  ASSUME IInv, status = "active", NEW t \in Actors, NEW amount \in Nat, NEW type,
         NEW critical \in BOOLEAN, Harm(t, amount, type, critical),
         UNCHANGED <<status, order, turn, round>>
  PROVE  Promise!Next
<1> DEFINE v == AfterDamage(t, vital[t], AdjustDamage(t, amount, type), critical)
<1>1. vital[t].life # "dead" /\ ChangeVital(t, v)
  BY DEF Harm
<1>2. v.life \in Promise!Wounded(t)
  BY <1>1, AdjustedIsNat, DamageWounds
<1> HIDE DEF v
<1> QED BY <1>1, <1>2, LifeStep

(* end_turn passes the turn the way Encounter allows.                      *)
LEMMA EndTurnStep ==
  ASSUME IInv, NEW a \in Actors, NEW roll \in SaveRolls, EndTurn(a, roll)
  PROVE  Promise!Next
<1> DEFINE life == [c \in Actors |-> vital[c].life]
<1>1. PICK k \in 1 .. N :
        LET next == (turn + k) % N
            b    == order[next]
        IN  /\ NextLiving(k)
            /\ turn' = next
            /\ round' = RoundAfter(next)
            /\ IF DeathSaveDue(b)
                 THEN ChangeVital(b, AfterDeathSave(vital[b], roll))
                 ELSE UNCHANGED <<vital, conds>>
  BY DEF EndTurn, TurnStarts
<1> DEFINE p == (turn + k) % N
           b == order[p]
<1>2. status = "active" /\ order \in Orders /\ turn \in Places
      /\ UNCHANGED <<status, order>> /\ round \in Nat
  BY DEF EndTurn, Current, IInv, TypeOK
<1>3. p \in Places /\ b \in Actors
  BY <1>2, RotationStaysInOrder DEF Orders
<1>4. life[order[p]] # "dead"
  BY <1>1, <1>3 DEF NextLiving
<1>5. ASSUME NEW q \in Promise!Between(p)
      PROVE  life[order[q]] = "dead"
  <2>1. PICK j \in 1 .. (k - 1) : (turn + j) % N = q
    BY <1>2, <1>5, SkippedPlaces
  <2>2. j \in 1 .. N
    BY PlacesExist
  <2>3. order[q] \in Actors
    BY <1>2, <2>1, <2>2, RotationStaysInOrder DEF Orders
  <2>4. vital[order[q]].life = "dead"
    BY <1>1, <2>1 DEF NextLiving
  <2> QED BY <2>3, <2>4
<1>6. round' = IF p <= turn THEN round + 1 ELSE round
  BY <1>1, <1>2 DEF RoundAfter
<1>7. \/ [c \in Actors |-> vital'[c].life] = life
      \/ /\ life[b] = "unconscious"
         /\ \E state \in {"conscious", "stable", "dead"} :
              [c \in Actors |-> vital'[c].life] = [life EXCEPT ![b] = state]
  <2>1. CASE DeathSaveDue(b)
    <3> DEFINE v == AfterDeathSave(vital[b], roll)
    <3>1. ChangeVital(b, v) /\ vital[b].life = "unconscious" /\ vital[b] \in Vital
      BY <1>1, <1>3, <2>1 DEF DeathSaveDue, IInv, TypeOK
    <3>2. v.life \in {"conscious", "stable", "dead", vital[b].life}
      BY DEF AfterDeathSave, Resolved
    <3> HIDE DEF v, b
    <3>3. [c \in Actors |-> vital'[c].life] = [life EXCEPT ![b] = v.life]
      BY <1>3, <3>1 DEF ChangeVital, IInv, TypeOK
    <3>4. life[b] = "unconscious"
      BY <1>3, <3>1
    <3>5. CASE v.life = vital[b].life
      BY <1>3, <3>1, <3>3, <3>5
    <3> QED BY <3>2, <3>3, <3>4, <3>5
  <2>2. CASE ~DeathSaveDue(b)
    BY <1>1, <2>2
  <2> QED BY <2>1, <2>2
<1>8. turn' = p /\ p \in Promise!Places
  BY <1>1, <1>3, SameOrders
<1> HIDE DEF p
<1>9. Promise!PassTurn
  BY <1>2, <1>4, <1>5, <1>6, <1>7, <1>8 DEF Promise!PassTurn
<1> QED BY <1>9 DEF Promise!Next

LEMMA InitStep == Init => Promise!Init
<1> SUFFICES ASSUME Init PROVE Promise!Init
  OBVIOUS
<1>1. PICK hp \in StartHP, temp \in [Actors -> StartTemp] :
        vital = [a \in Actors |-> [hp |-> hp[a], temp |-> temp[a],
                                   life |-> "conscious", succ |-> 0, fail |-> 0]]
  BY DEF Init
<1>2. [a \in Actors |-> vital[a].life] = [a \in Actors |-> "conscious"]
  BY <1>1
<1> QED BY <1>2 DEF Init, Promise!Init

(* Every command is a step of Encounter or invisible to it.                *)
LEMMA StepOfPromise == IInv /\ [Next]_vars => [Promise!Next]_(Promise!vars)
<1> SUFFICES ASSUME IInv, [Next]_vars PROVE Promise!Next \/ UNCHANGED Promise!vars
  OBVIOUS
<1> DEFINE Same == UNCHANGED <<status, vital, order, turn, round>>
<1>1. Same => UNCHANGED Promise!vars
  BY DEF Promise!vars
<1>2. ASSUME NEW rolls \in [Actors -> InitiativeRolls], StartEncounter(rolls)
      PROVE  Promise!Next
  <2>1. Promise!Begin
    BY <1>2, SameOrders DEF StartEncounter, Promise!Begin
  <2> QED BY <2>1 DEF Promise!Next
<1>3. ASSUME NEW a \in Actors, NEW roll \in SaveRolls, EndTurn(a, roll)
      PROVE  Promise!Next
  BY <1>3, EndTurnStep
<1>4. ASSUME NEW a \in Actors, NEW t \in Actors, NEW slot \in Slots, NEW outcome,
             NEW amount \in Amounts, NEW type,
             PerformAttack(a, t, slot, outcome, amount, type)
      PROVE  Promise!Next \/ UNCHANGED Promise!vars
  <2>1. CASE outcome = "miss"
    BY <1>1, <1>4, <2>1 DEF PerformAttack
  <2>2. CASE outcome # "miss"
    <3>1. Harm(t, amount, type, outcome = "critical") /\ amount \in Nat
      BY <1>4, <2>2, CombatAssumption DEF PerformAttack
    <3>2. status = "active" /\ UNCHANGED <<status, order, turn, round>>
      BY <1>4 DEF PerformAttack, CanAct, Current
    <3> QED BY <3>1, <3>2, HarmStep
  <2> QED BY <2>1, <2>2
<1>5. ASSUME NEW t \in Actors, NEW amount \in Amounts, NEW type,
             NEW critical \in BOOLEAN, ApplyDamage(t, amount, type, critical)
      PROVE  Promise!Next
  <2>1. /\ Harm(t, amount, type, critical) /\ amount \in Nat
        /\ status = "active" /\ UNCHANGED <<status, order, turn, round>>
    BY <1>5, CombatAssumption DEF ApplyDamage
  <2> QED BY <2>1, HarmStep
<1>6. ASSUME NEW t \in Actors, NEW amount \in Amounts, Heal(t, amount)
      PROVE  Promise!Next
  <2> DEFINE v == AfterHealing(t, vital[t], amount)
  <2>1. /\ ChangeVital(t, v) /\ vital[t].life # "dead"
        /\ status = "active" /\ UNCHANGED <<status, order, turn, round>>
    BY <1>6 DEF Heal
  <2>2. v.life \in {"conscious", vital[t].life}
    BY DEF AfterHealing, Resolved
  <2>3. vital[t] \in Vital /\ Sound(t, vital[t])
    BY DEF IInv, TypeOK
  <2>4. vital[t].life \in Promise!Wounded(t)
    BY <2>1, <2>3 DEF Promise!Wounded, Vital, LifeStates, Sound
  <2> HIDE DEF v
  <2> QED BY <2>1, <2>2, <2>4, LifeStep
<1>7. ASSUME NEW t \in Actors, NEW amount \in Amounts, NEW takeNew,
             GrantTemporaryHp(t, amount, takeNew)
      PROVE  UNCHANGED Promise!vars
  <2> DEFINE temp == IF vital[t].temp = 0 \/ takeNew THEN amount ELSE vital[t].temp
  <2>1. vital' = [vital EXCEPT ![t].temp = temp]
    BY <1>7 DEF GrantTemporaryHp
  <2> HIDE DEF temp
  <2>2. [a \in Actors |-> vital'[a].life] = [a \in Actors |-> vital[a].life]
    BY <2>1 DEF IInv, TypeOK, Vital
  <2> QED BY <1>7, <2>2 DEF GrantTemporaryHp, Promise!vars
<1>8. ASSUME NEW t, NEW c, ApplyCondition(t, c) \/ RemoveCondition(t, c)
      PROVE  Same
  BY <1>8 DEF ApplyCondition, RemoveCondition
<1>9. ASSUME NEW a, NEW slot, SpendAction(a, slot) PROVE Same
  BY <1>9 DEF SpendAction
<1>10. ASSUME NEW a, React(a) \/ Move(a) PROVE Same
  BY <1>10 DEF React, Move, SpendReaction, SpendMovement
<1>11. WindowNext \/ UNCHANGED vars => Same
  BY DEF WindowNext, OpenReactionWindow, CloseReactionWindow, vars
<1>12. EndEncounter => Promise!Next
  <2>1. EndEncounter => Promise!Finish
    BY DEF EndEncounter, Promise!Finish
  <2> QED BY <2>1 DEF Promise!Next
<1> HIDE DEF Same
<1> QED BY <1>1, <1>2, <1>3, <1>4, <1>5, <1>6, <1>7, <1>8, <1>9, <1>10, <1>11, <1>12
        DEF Next, LifeNext, TurnNext, ActNext

(* Combat implements Encounter.                                            *)
THEOREM CombatKeepsPromise == Spec => KeepsPromise
BY InitStep, StepOfPromise, CombatInvariant, PTL DEF Spec, KeepsPromise, Promise!Spec

-----------------------------------------------------------------------------
(* What is proved of the ledgers needs what holds before the encounter     *)
(* starts, and that an unspent reaction is one that may still be used.     *)
Unspent(a) == IF "reaction" \in economy[a].slots THEN 1 ELSE 0

Ledgers ==
  /\ turns \in [Actors -> Nat] /\ reactions \in [Actors -> Nat]
  /\ status = "preparing" => \A a \in Actors : turns[a] = 0
Rationed == \A a \in Actors : reactions[a] + Unspent(a) <= turns[a] + 1

HInv == IInv /\ Ledgers /\ TurnsAreShared /\ Rationed

-----------------------------------------------------------------------------
(* The ledgers are written beside the steps of Combat and change none.     *)
LEMMA HistoryOnlyWatches == ASSUME [HNext]_hvars PROVE [Next]_vars
BY DEF HNext, Next, TurnNext, hvars

(* What no step of a turn, a reaction or a start does.                     *)
LEMMA OtherSteps ==
  ASSUME IInv, LifeNext \/ ActNext \/ WindowNext \/ EndEncounter \/ \E a \in Actors : Move(a)
  PROVE  /\ status' = "preparing" <=> status = "preparing"
         /\ UNCHANGED <<order, turn, round>>
         /\ \A a \in Actors : economy'[a].slots \subseteq economy[a].slots
<1> DEFINE Goal == /\ status' = "preparing" <=> status = "preparing"
                   /\ UNCHANGED <<order, turn, round>>
                   /\ \A a \in Actors : economy'[a].slots \subseteq economy[a].slots
<1>1. economy \in [Actors -> Economy] /\ windows \subseteq Window BY DEF IInv, TypeOK
<1>2. CASE LifeNext \/ EndEncounter
  BY <1>2 DEF LifeNext, EndEncounter, ApplyDamage, Heal, GrantTemporaryHp, ApplyCondition, RemoveCondition
<1>3. CASE WindowNext
  BY <1>3 DEF WindowNext, OpenReactionWindow, CloseReactionWindow
<1>4. ASSUME NEW a \in Actors, NEW slot, economy' = Spent(a, slot)
      PROVE  \A b \in Actors : economy'[b].slots \subseteq economy[b].slots
  BY <1>1, <1>4 DEF Spent, Economy
<1>5. CASE ActNext
  BY <1>4, <1>5 DEF ActNext, SpendAction, PerformAttack, CanAct, Current
<1>6. ASSUME NEW a \in Actors, NEW feet, SpendMovement(a, feet) PROVE Goal
  <2>1. \A b \in Actors : economy'[b].slots = economy[b].slots
    BY <1>1, <1>6 DEF SpendMovement, Economy
  <2> QED BY <1>6, <2>1 DEF SpendMovement, CanAct, Current
<1> QED BY <1>2, <1>3, <1>5, <1>6 DEF Move

(* The places passed over on the way from the turn to place p.             *)
Skipped(q, p) == IF turn < p THEN turn < q /\ q < p ELSE turn < q \/ q < p

(* end_turn, seen from the order: the turn goes to a place p whose         *)
(* combatant is alive, past places whose combatants are dead.              *)
LEMMA TurnPasses ==
  ASSUME IInv, NEW a \in Actors, NEW roll \in SaveRolls, EndTurn(a, roll)
  PROVE  \E p \in Places :
           /\ vital[order[p]].life # "dead"
           /\ \A q \in Places : Skipped(q, p) => vital[order[q]].life = "dead"
           /\ turn' = p /\ round' = IF p <= turn THEN round + 1 ELSE round
           /\ economy' = [economy EXCEPT ![order[p]] = FreshTurn(order[p])]
           /\ UNCHANGED <<status, order>> /\ status = "active"
<1>1. PICK k \in 1 .. N :
        /\ NextLiving(k)
        /\ TurnStarts((turn + k) % N)
  BY DEF EndTurn
<1> DEFINE p == (turn + k) % N
<1>2. /\ status = "active" /\ order \in Orders /\ turn \in Places
      /\ UNCHANGED <<status, order>> /\ round \in Nat
  BY DEF EndTurn, Current, IInv, TypeOK
<1>3. p \in Places BY <1>2, RotationStaysInOrder
<1>4. vital[order[p]].life # "dead" BY <1>1 DEF NextLiving
<1>5. ASSUME NEW q \in Promise!Between(p) PROVE vital[order[q]].life = "dead"
  <2>1. PICK j \in 1 .. (k - 1) : (turn + j) % N = q BY <1>2, <1>5, SkippedPlaces
  <2> QED BY <1>1, <2>1 DEF NextLiving
<1>6. /\ turn' = p /\ round' = IF p <= turn THEN round + 1 ELSE round
      /\ economy' = [economy EXCEPT ![order[p]] = FreshTurn(order[p])]
  BY <1>1, <1>2 DEF TurnStarts, RoundAfter
<1> HIDE DEF p
<1>7. ASSUME NEW q \in Places, Skipped(q, p)
      PROVE  q \in Promise!Between(p)
  BY <1>2, <1>3, <1>7, PlacesExist DEF Promise!Between, Places, Skipped
<1> QED BY <1>2, <1>3, <1>4, <1>5, <1>6, <1>7

(* The dead stay dead in every step of the history.                        *)
LEMMA AliveBefore ==
  ASSUME IInv, [HNext]_hvars, NEW a \in Actors, vital'[a].life # "dead"
  PROVE  vital[a].life # "dead"
BY HistoryOnlyWatches, DeadStayDead

(* A turn that begins is the combatant's next one: in the same round if    *)
(* its place comes after the turn's, in the next round if it does not.     *)
LEMMA PassingSharesTurns ==
  ASSUME HInv, IInv', [HNext]_hvars, NEW a \in Actors, NEW roll \in SaveRolls, EndTurn(a, roll),
         turns' = [turns EXCEPT ![order'[turn']] = @ + 1], UNCHANGED reactions
  PROVE  (Ledgers /\ TurnsAreShared /\ Rationed)'
<1> USE DEF HInv
<1>1. PICK p \in Places :
        /\ vital[order[p]].life # "dead"
        /\ \A q \in Places : Skipped(q, p) => vital[order[q]].life = "dead"
        /\ turn' = p /\ round' = IF p <= turn THEN round + 1 ELSE round
        /\ economy' = [economy EXCEPT ![order[p]] = FreshTurn(order[p])]
        /\ UNCHANGED <<status, order>> /\ status = "active"
  BY TurnPasses
<1>2. /\ order \in Orders /\ turn \in Places /\ round \in Nat /\ N \in Nat
      /\ economy \in [Actors -> Economy] /\ turns \in [Actors -> Nat] /\ reactions \in [Actors -> Nat]
  BY <1>1, PlacesExist DEF IInv, TypeOK, Ledgers
<1>3. \A q \in Places : order[q] \in Actors /\ (order[q] = order[p] => q = p)
  BY <1>2 DEF Orders
<1>4. turns' = [turns EXCEPT ![order[p]] = @ + 1] BY <1>1
<1>5. Ledgers' BY <1>1, <1>2, <1>3, <1>4 DEF Ledgers
<1>6. TurnsAreShared'
  <2> SUFFICES ASSUME NEW q \in Places, vital'[order'[q]].life # "dead"
               PROVE  turns'[order'[q]] = IF q <= turn' THEN round' ELSE round' - 1
    BY DEF TurnsAreShared
  <2>1. order'[q] = order[q] /\ order[q] \in Actors BY <1>1, <1>3
  <2>2. vital[order[q]].life # "dead" BY <2>1, AliveBefore
  <2>3. turns[order[q]] = IF q <= turn THEN round ELSE round - 1
    BY <1>1, <2>2 DEF TurnsAreShared
  <2>4. ~Skipped(q, p) BY <1>1, <2>2
  <2>5. q \in Int /\ p \in Int /\ turn \in Int BY <1>2 DEF Places
  <2>6. CASE q = p
    <3>1. turns'[order[q]] = turns[order[q]] + 1 BY <1>2, <1>3, <1>4, <2>6
    <3> QED BY <1>1, <1>2, <2>1, <2>3, <2>5, <2>6, <3>1
  <2>7. CASE q # p
    <3>1. turns'[order[q]] = turns[order[q]] BY <1>2, <1>3, <1>4, <2>7
    <3> QED BY <1>1, <1>2, <2>1, <2>3, <2>4, <2>5, <2>7, <3>1 DEF Skipped
  <2> QED BY <2>6, <2>7
<1>7. Rationed'
  <2> SUFFICES ASSUME NEW b \in Actors PROVE reactions'[b] + Unspent(b)' <= turns'[b] + 1
    BY DEF Rationed
  <2>1. reactions[b] + Unspent(b) <= turns[b] + 1 BY DEF Rationed
  <2>2. Unspent(b) \in {0, 1} /\ Unspent(b)' \in {0, 1} BY DEF Unspent
  <2>3. CASE b = order[p]
    <3>1. turns'[b] = turns[b] + 1 BY <1>2, <1>4, <2>3
    <3> QED BY <1>2, <2>1, <2>2, <3>1
  <2>4. CASE b # order[p]
    <3>1. turns'[b] = turns[b] /\ Unspent(b)' = Unspent(b)
      BY <1>1, <1>2, <1>4, <2>4 DEF Unspent
    <3> QED BY <2>1, <3>1
  <2> QED BY <2>3, <2>4
<1> QED BY <1>5, <1>6, <1>7

(* The encounter starts with one turn for the first in the order.          *)
LEMMA StartSharesTurns ==
  ASSUME HInv, IInv', NEW rolls \in [Actors -> InitiativeRolls], StartEncounter(rolls),
         turns' = [turns EXCEPT ![order'[turn']] = @ + 1], UNCHANGED reactions
  PROVE  (Ledgers /\ TurnsAreShared /\ Rationed)'
<1> USE DEF HInv
<1>1. PICK o \in Orders : order' = o /\ economy' = [economy EXCEPT ![o[0]] = FreshTurn(o[0])]
  BY DEF StartEncounter
<1>2. status = "preparing" /\ status' = "active" /\ turn' = 0 /\ round' = 1
  BY DEF StartEncounter
<1>3. /\ economy \in [Actors -> Economy] /\ turns \in [Actors -> Nat] /\ reactions \in [Actors -> Nat]
      /\ \A a \in Actors : turns[a] = 0
  BY <1>2 DEF IInv, TypeOK, Ledgers
<1>4. 0 \in Places /\ \A q \in Places : q \in Nat /\ o[q] \in Actors /\ (o[q] = o[0] => q = 0)
  BY PlacesExist DEF Orders, Places
<1>5. turns' = [turns EXCEPT ![o[0]] = 1]
  <2>1. order'[turn'] = o[0] /\ turns[o[0]] = 0 BY <1>1, <1>2, <1>3, <1>4
  <2>2. turns' = [turns EXCEPT ![o[0]] = turns[o[0]] + 1] BY <2>1
  <2> QED BY <2>1, <2>2
<1>6. Ledgers' BY <1>2, <1>3, <1>4, <1>5 DEF Ledgers
<1>7. TurnsAreShared'
  <2> SUFFICES ASSUME NEW q \in Places
               PROVE  turns'[order'[q]] = IF q <= turn' THEN round' ELSE round' - 1
    BY DEF TurnsAreShared
  <2>1. turns'[o[q]] = IF q = 0 THEN 1 ELSE 0 BY <1>3, <1>4, <1>5
  <2> QED BY <1>1, <1>2, <1>4, <2>1
<1>8. Rationed'
  <2> SUFFICES ASSUME NEW b \in Actors PROVE reactions'[b] + Unspent(b)' <= turns'[b] + 1
    BY DEF Rationed
  <2>1. reactions[b] + Unspent(b) <= turns[b] + 1 BY DEF Rationed
  <2>2. Unspent(b) \in {0, 1} /\ Unspent(b)' \in {0, 1} BY DEF Unspent
  <2>3. CASE b = o[0]
    <3>1. turns'[b] = turns[b] + 1 BY <1>3, <1>5, <2>3
    <3> QED BY <1>3, <2>1, <2>2, <3>1
  <2>4. CASE b # o[0]
    <3>1. turns'[b] = turns[b] /\ Unspent(b)' = Unspent(b)
      BY <1>1, <1>3, <1>5, <2>4 DEF Unspent
    <3> QED BY <2>1, <3>1
  <2> QED BY <2>3, <2>4
<1> QED BY <1>6, <1>7, <1>8

(* A reaction is spent from the slot its own turn has filled.              *)
LEMMA ReactingIsRationed ==
  ASSUME HInv, NEW a \in Actors, React(a), reactions' = [reactions EXCEPT ![a] = @ + 1], UNCHANGED turns
  PROVE  /\ Ledgers' /\ Rationed'
         /\ status # "preparing" /\ UNCHANGED <<status, order, turn, round>>
<1> USE DEF HInv
<1>1. /\ status = "active" /\ "reaction" \in economy[a].slots /\ economy' = Spent(a, "reaction")
      /\ UNCHANGED <<status, order, turn, round>>
  BY DEF React, SpendReaction
<1>2. /\ economy \in [Actors -> Economy] /\ turns \in [Actors -> Nat] /\ reactions \in [Actors -> Nat]
  BY DEF IInv, TypeOK, Ledgers
<1>3. Ledgers' BY <1>1, <1>2 DEF Ledgers
<1>4. ASSUME NEW b \in Actors PROVE reactions'[b] + Unspent(b)' <= turns'[b] + 1
  <2>1. reactions[b] + Unspent(b) <= turns[b] + 1 BY DEF Rationed
  <2>2. CASE b = a
    <3>1. Unspent(b) = 1 /\ Unspent(b)' = 0 /\ reactions'[b] = reactions[b] + 1
      BY <1>1, <1>2, <2>2 DEF Unspent, Spent, Economy
    <3> QED BY <1>2, <2>1, <3>1
  <2>3. CASE b # a
    <3>1. Unspent(b)' = Unspent(b) /\ reactions'[b] = reactions[b]
      BY <1>1, <1>2, <2>3 DEF Unspent, Spent
    <3> QED BY <2>1, <3>1
  <2> QED BY <2>2, <2>3
<1> QED BY <1>1, <1>3, <1>4 DEF Rationed

(* Steps that begin no turn and spend no reaction.                         *)
LEMMA RestKeepsLedgers ==
  ASSUME HInv, status' = "preparing" <=> status = "preparing", UNCHANGED <<turns, reactions>>,
         \A a \in Actors : economy'[a].slots \subseteq economy[a].slots
  PROVE  Ledgers' /\ Rationed'
<1> USE DEF HInv
<1>1. turns \in [Actors -> Nat] /\ reactions \in [Actors -> Nat] BY DEF Ledgers
<1>2. Ledgers' BY DEF Ledgers
<1>3. ASSUME NEW b \in Actors PROVE reactions'[b] + Unspent(b)' <= turns'[b] + 1
  <2>1. reactions[b] + Unspent(b) <= turns[b] + 1 BY DEF Rationed
  <2>2. Unspent(b) \in {0, 1} /\ Unspent(b)' \in {0, 1} /\ Unspent(b)' <= Unspent(b)
    BY <1>3 DEF Unspent
  <2>3. reactions[b] \in Nat /\ turns[b] \in Nat BY <1>1
  <2> QED BY <2>1, <2>2, <2>3
<1> QED BY <1>2, <1>3 DEF Rationed

(* While the turn stays where it is, only the dying leave the rotation.    *)
LEMMA SharedWhileTurnStays ==
  ASSUME HInv, [HNext]_hvars, status' = "preparing" <=> status = "preparing",
         UNCHANGED <<turns, order, turn, round>>
  PROVE  TurnsAreShared'
<1> SUFFICES ASSUME status' # "preparing", NEW q \in Places, vital'[order'[q]].life # "dead"
             PROVE  turns'[order'[q]] = IF q <= turn' THEN round' ELSE round' - 1
  BY DEF TurnsAreShared
<1>1. order[q] \in Actors BY DEF HInv, IInv, TypeOK, Orders
<1>2. vital[order[q]].life # "dead" BY <1>1, AliveBefore DEF HInv
<1> QED BY <1>2 DEF HInv, TurnsAreShared

LEMMA HistoryStep == HInv /\ [HNext]_hvars => HInv'
<1> SUFFICES ASSUME HInv, [HNext]_hvars PROVE HInv' OBVIOUS
<1>1. IInv' BY HistoryOnlyWatches, StepSound DEF HInv
<1>2. CASE \E rolls \in [Actors -> InitiativeRolls] :
             StartEncounter(rolls) /\ turns' = [turns EXCEPT ![order'[turn']] = @ + 1] /\ UNCHANGED reactions
  BY <1>1, <1>2, StartSharesTurns DEF HInv
<1>3. CASE \E a \in Actors, roll \in SaveRolls :
             EndTurn(a, roll) /\ turns' = [turns EXCEPT ![order'[turn']] = @ + 1] /\ UNCHANGED reactions
  BY <1>1, <1>3, PassingSharesTurns DEF HInv
<1>4. CASE /\ LifeNext \/ ActNext \/ WindowNext \/ EndEncounter \/ \E a \in Actors : Move(a)
           /\ UNCHANGED <<turns, reactions>>
  <2>1. IInv BY DEF HInv
  <2>2. /\ status' = "preparing" <=> status = "preparing"
        /\ UNCHANGED <<order, turn, round>>
        /\ \A a \in Actors : economy'[a].slots \subseteq economy[a].slots
    BY <1>4, <2>1, OtherSteps
  <2> QED BY <1>1, <1>4, <2>2, RestKeepsLedgers, SharedWhileTurnStays DEF HInv
<1>5. CASE \E a \in Actors :
             React(a) /\ reactions' = [reactions EXCEPT ![a] = @ + 1] /\ UNCHANGED turns
  <2>1. PICK a \in Actors :
          React(a) /\ reactions' = [reactions EXCEPT ![a] = @ + 1] /\ UNCHANGED turns
    BY <1>5
  <2>2. Ledgers' /\ Rationed' /\ UNCHANGED <<status, order, turn, round>> BY <2>1, ReactingIsRationed
  <2> QED BY <1>1, <2>1, <2>2, SharedWhileTurnStays DEF HInv
<1>6. CASE UNCHANGED hvars
  BY <1>1, <1>6, RestKeepsLedgers, SharedWhileTurnStays DEF HInv, hvars, vars
<1> QED BY <1>2, <1>3, <1>4, <1>5, <1>6 DEF HNext

LEMMA HistoryStarts == HInit => HInv
<1> SUFFICES ASSUME HInit PROVE HInv OBVIOUS
<1>1. IInv BY InitSound DEF HInit
<1>2. /\ status = "preparing" /\ \A a \in Actors : turns[a] = 0 /\ reactions[a] = 0
      /\ turns \in [Actors -> Nat] /\ reactions \in [Actors -> Nat]
  BY DEF HInit, Init
<1>3. Ledgers /\ TurnsAreShared BY <1>2 DEF Ledgers, TurnsAreShared
<1>4. Rationed BY <1>2 DEF Rationed, Unspent
<1> QED BY <1>1, <1>3, <1>4 DEF HInv

-----------------------------------------------------------------------------
(* The encounter and the ledgers beside it.                                *)
THEOREM HistoryInvariant == HSpec => []HInv
BY HistoryStarts, HistoryStep, PTL DEF HSpec

(* In round r whoever lives has begun r turns, or r - 1 if the rotation    *)
(* has yet to reach it, whoever was killed, revived or passed over.        *)
THEOREM EveryoneGetsTurns == HSpec => []TurnsAreShared
<1>1. HInv => TurnsAreShared BY DEF HInv
<1> QED BY <1>1, HistoryInvariant, PTL

(* One reaction between two turns of its own, however many windows name a  *)
(* combatant.                                                              *)
THEOREM OneReactionATurn == HSpec => []ReactionsAreRationed
<1>1. HInv => ReactionsAreRationed
  <2> SUFFICES ASSUME HInv, NEW a \in Actors PROVE reactions[a] <= turns[a] + 1
    BY DEF ReactionsAreRationed
  <2>1. reactions[a] + Unspent(a) <= turns[a] + 1 /\ reactions[a] \in Nat /\ turns[a] \in Nat
    BY DEF HInv, Rationed, Ledgers
  <2>2. Unspent(a) \in {0, 1} BY DEF Unspent
  <2> QED BY <2>1, <2>2
<1> QED BY <1>1, HistoryInvariant, PTL

(* The ledgers watch Combat: with them it does nothing it could not do     *)
(* without them, so what is proved of Combat holds here too.               *)
THEOREM HistoryIsCombat == HSpec => Spec
<1>1. HInit => Init BY DEF HInit
<1>2. [HNext]_hvars => [Next]_vars BY HistoryOnlyWatches
<1> QED BY <1>1, <1>2, PTL DEF HSpec, Spec

(* With or without the ledgers, the encounter implements its abstraction.  *)
THEOREM HistoryKeepsPromise == HSpec => KeepsPromise
BY HistoryIsCombat, CombatKeepsPromise, PTL
=============================================================================
