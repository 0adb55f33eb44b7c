---------------------------- MODULE CombatProofs ----------------------------
(***************************************************************************)
(* Theorems about Combat for every cast, every hit point maximum, every    *)
(* damage amount and every die roll.                                       *)
(***************************************************************************)
EXTENDS Combat, FiniteSetTheorems, TLAPS

(* What is true of one combatant's vitals between two commands.  The save  *)
(* counters belong to it: without "fewer than three failures while alive"  *)
(* a death save could not be shown to keep the counters in range, and      *)
(* without "no hit point when dead" nothing would keep the dead at zero.   *)
Sound(a, v) ==
  /\ v.hp <= MaxHP[a]
  /\ v.life = "conscious" <=> v.hp > 0
  /\ v.life \in {"conscious", "stable"} => v.succ = 0 /\ v.fail = 0
  /\ v.life = "unconscious" => v.succ < 3 /\ v.fail < 3
  /\ ZeroHPRule[a] = "monster" => v.life \in {"conscious", "dead"}

IInv ==
  /\ TypeOK
  /\ \A a \in Actors : Sound(a, vital[a])

-----------------------------------------------------------------------------
(* The combatants can be counted, so there is a first place in the order.  *)
LEMMA PlacesExist == N \in Nat \ {0} /\ 0 \in Places
<1>1. N \in Nat
  BY FS_CardinalityType, CombatAssumption DEF N
<1>2. N # 0
  BY FS_EmptySet, CombatAssumption DEF N
<1> QED BY <1>1, <1>2 DEF Places

(* AdjustDamage always yields a natural number.                            *)
LEMMA AdjustedIsNat ==
  ASSUME NEW a \in Actors, NEW amount \in Nat, NEW type
  PROVE  AdjustDamage(a, amount, type) \in Nat
BY DEF AdjustDamage

(* What a resolved event leaves is sound if its numbers are.               *)
LEMMA ResolvedIsSound ==
  ASSUME NEW a \in Actors, NEW v \in Vital, NEW hp \in Nat, NEW life \in LifeStates,
         NEW succ \in 0 .. 3, NEW fail \in 0 .. 3,
         hp <= MaxHP[a],
         life = "conscious" <=> hp > 0,
         life \in {"conscious", "stable"} => succ = 0 /\ fail = 0,
         life = "unconscious" => succ < 3 /\ fail < 3,
         ZeroHPRule[a] = "monster" => life \in {"conscious", "dead"}
  PROVE  /\ Resolved(v, hp, life, succ, fail) \in Vital
         /\ Sound(a, Resolved(v, hp, life, succ, fail))
<1>1. Resolved(v, hp, life, succ, fail) \in Vital
  BY DEF Resolved, Vital
<1>2. Sound(a, Resolved(v, hp, life, succ, fail))
  BY DEF Resolved, Sound
<1> QED BY <1>1, <1>2

(* The dead keep whatever their death-save track showed.                   *)
LEMMA DeadIsSound ==
  ASSUME NEW a \in Actors, NEW v \in Vital, NEW succ \in 0 .. 3, NEW fail \in 0 .. 3
  PROVE  /\ Resolved(v, 0, "dead", succ, fail) \in Vital
         /\ Sound(a, Resolved(v, 0, "dead", succ, fail))
<1>1. Resolved(v, 0, "dead", succ, fail) \in Vital
  BY DEF Resolved, Vital, LifeStates
<1>2. Sound(a, Resolved(v, 0, "dead", succ, fail))
  BY CombatAssumption DEF Resolved, Sound
<1> QED BY <1>1, <1>2

(* A blow to a combatant at 0 hit points.                                  *)
LEMMA HitWhileDownIsSound ==
  ASSUME NEW a \in Actors, NEW v \in Vital, Sound(a, v), v.life # "dead",
         v.hp = 0, NEW amount \in Nat, NEW critical \in BOOLEAN
  PROVE  /\ HitWhileDown(a, v, amount, critical) \in Vital
         /\ Sound(a, HitWhileDown(a, v, amount, critical))
<1> DEFINE fail == Failures(v, critical)
<1>1. /\ MaxHP[a] \in Nat \ {0} /\ ZeroHPRule[a] = "character"
      /\ "dead" \in LifeStates /\ "unconscious" \in LifeStates
  BY CombatAssumption DEF Sound, Vital, LifeStates
<1>2. v.succ \in 0 .. 3 /\ v.fail \in 0 .. 3 /\ v.succ < 3
  BY DEF Vital, Sound, LifeStates
<1>3. fail \in 0 .. 3
  BY <1>2 DEF Least, Failures
<1>4. CASE amount >= MaxHP[a]
  <2>1. HitWhileDown(a, v, amount, critical) = Resolved(v, 0, "dead", v.succ, v.fail)
    BY <1>4 DEF HitWhileDown
  <2> QED BY <1>1, <1>2, <2>1, DeadIsSound
<1>5. CASE ~(amount >= MaxHP[a]) /\ fail >= 3
  <2>1. HitWhileDown(a, v, amount, critical) = Resolved(v, 0, "dead", v.succ, fail)
    BY <1>1, <1>5 DEF HitWhileDown
  <2> HIDE DEF fail
  <2> QED BY ONLY <1>2, <1>3, <2>1, DeadIsSound, v \in Vital, a \in Actors
<1>6. CASE ~(amount >= MaxHP[a]) /\ ~(fail >= 3)
  <2>1. HitWhileDown(a, v, amount, critical)
          = Resolved(v, 0, "unconscious", v.succ, fail)
    BY <1>1, <1>6 DEF HitWhileDown
  <2>2. fail \in 0 .. 3 /\ fail < 3
    BY <1>3, <1>6
  <2>3. ZeroHPRule[a] # "monster" /\ 0 <= MaxHP[a]
    BY <1>1
  <2> HIDE DEF fail
  <2> QED BY ONLY <1>1, <1>2, <2>1, <2>2, <2>3, ResolvedIsSound, v \in Vital, a \in Actors
<1> QED BY <1>4, <1>5, <1>6

(* The blow that drops a conscious combatant.                              *)
LEMMA DroppedIsSound ==
  ASSUME NEW a \in Actors, NEW v \in Vital, Sound(a, v), v.life # "dead",
         NEW leftover \in Nat
  PROVE  Dropped(a, v, leftover) \in Vital /\ Sound(a, Dropped(a, v, leftover))
<1>1. /\ MaxHP[a] \in Nat \ {0} /\ ZeroHPRule[a] \in {"character", "monster"}
      /\ "dead" \in LifeStates /\ "unconscious" \in LifeStates
      /\ v.succ \in 0 .. 3 /\ v.fail \in 0 .. 3
  BY CombatAssumption DEF Vital, LifeStates
<1>2. CASE ZeroHPRule[a] = "monster" \/ leftover >= MaxHP[a]
  <2>1. Dropped(a, v, leftover) = Resolved(v, 0, "dead", v.succ, v.fail)
    BY <1>2 DEF Dropped
  <2> QED BY <1>1, <2>1, DeadIsSound
<1>3. CASE ~(ZeroHPRule[a] = "monster" \/ leftover >= MaxHP[a])
  <2>1. Dropped(a, v, leftover) = Resolved(v, 0, "unconscious", 0, 0)
    BY <1>3 DEF Dropped
  <2> QED BY <1>1, <1>3, <2>1, ResolvedIsSound
<1> QED BY <1>2, <1>3

(* Damage to a living combatant leaves sound vitals behind.                *)
LEMMA DamageIsSound ==
  ASSUME NEW a \in Actors, NEW v \in Vital, Sound(a, v), v.life # "dead",
         NEW amount \in Nat, NEW critical \in BOOLEAN
  PROVE  /\ AfterDamage(a, v, amount, critical) \in Vital
         /\ Sound(a, AfterDamage(a, v, amount, critical))
<1> DEFINE remaining == Excess(amount, v.temp)
           soaked    == [v EXCEPT !.temp = Excess(v.temp, amount)]
<1>1. remaining \in Nat /\ soaked \in Vital /\ Sound(a, soaked)
  BY DEF Excess, Vital, Sound, LifeStates
<1>2. soaked.hp = v.hp /\ soaked.life = v.life /\ v.hp \in Nat
  BY DEF Vital
<1>3. AfterDamage(a, v, amount, critical) =
        IF v.hp = 0
          THEN IF amount > 0 THEN HitWhileDown(a, soaked, amount, critical)
               ELSE soaked
        ELSE IF remaining >= v.hp THEN Dropped(a, soaked, remaining - v.hp)
        ELSE [soaked EXCEPT !.hp = v.hp - remaining]
  BY DEF AfterDamage
<1> HIDE DEF remaining, soaked
<1>4. CASE v.hp = 0
  BY <1>1, <1>2, <1>3, <1>4, HitWhileDownIsSound
<1>5. CASE v.hp > 0 /\ remaining >= v.hp
  <2>1. remaining - v.hp \in Nat
    BY <1>1, <1>2, <1>5
  <2> QED BY <1>1, <1>2, <1>3, <1>5, <2>1, DroppedIsSound
<1>6. CASE v.hp > 0 /\ ~(remaining >= v.hp)
  <2>1. AfterDamage(a, v, amount, critical) = [soaked EXCEPT !.hp = v.hp - remaining]
    BY <1>2, <1>3, <1>6
  <2>2. v.hp - remaining \in Nat \ {0} /\ v.hp - remaining <= v.hp
    BY <1>1, <1>2, <1>6
  <2>3. MaxHP[a] \in Nat
    BY CombatAssumption
  <2> QED BY <1>1, <1>2, <1>6, <2>1, <2>2, <2>3 DEF Vital, LifeStates, Sound
<1> QED BY <1>2, <1>4, <1>5, <1>6

(* So does healing one.                                                    *)
LEMMA HealingIsSound ==
  ASSUME NEW a \in Actors, NEW v \in Vital, Sound(a, v), v.life # "dead",
         NEW amount \in Nat
  PROVE  /\ AfterHealing(a, v, amount) \in Vital
         /\ Sound(a, AfterHealing(a, v, amount))
<1> DEFINE hp == Least(MaxHP[a], v.hp + amount)
<1>1. MaxHP[a] \in Nat \ {0} /\ hp \in Nat /\ hp <= MaxHP[a]
  BY CombatAssumption DEF Least, Vital
<1>2. CASE hp = 0
  BY <1>2 DEF AfterHealing
<1>3. CASE hp # 0
  <2>1. AfterHealing(a, v, amount) = Resolved(v, hp, "conscious", 0, 0)
    BY <1>3 DEF AfterHealing
  <2>2. "conscious" \in LifeStates /\ hp > 0
    BY <1>1, <1>3 DEF LifeStates
  <2> HIDE DEF hp
  <2> QED BY <1>1, <2>1, <2>2, ResolvedIsSound
<1> QED BY <1>2, <1>3

(* So does the death save of a dying character.                            *)
LEMMA DeathSaveIsSound ==
  ASSUME NEW a \in Actors, NEW v \in Vital, Sound(a, v),
         v.life = "unconscious", NEW roll \in 1 .. 20
  PROVE  /\ AfterDeathSave(v, roll) \in Vital
         /\ Sound(a, AfterDeathSave(v, roll))
<1> DEFINE fail == Least(3, v.fail + (IF roll = 1 THEN 2 ELSE 1))
           succ == Least(3, v.succ + 1)
<1>1. /\ MaxHP[a] \in Nat \ {0} /\ ZeroHPRule[a] # "monster"
      /\ v.succ \in 0 .. 3 /\ v.fail \in 0 .. 3 /\ v.succ < 3 /\ v.fail < 3
      /\ \A life \in {"conscious", "unconscious", "stable", "dead"} : life \in LifeStates
  BY CombatAssumption DEF Vital, LifeStates, Sound
<1>2. fail \in 0 .. 3 /\ succ \in 0 .. 3
  BY <1>1 DEF Least
<1>3. CASE roll = 20
  <2>1. AfterDeathSave(v, roll) = Resolved(v, 1, "conscious", 0, 0)
    BY <1>3 DEF AfterDeathSave
  <2> QED BY <1>1, <2>1, ResolvedIsSound
<1>4. CASE roll < 10 /\ fail = 3
  <2>1. AfterDeathSave(v, roll) = Resolved(v, 0, "dead", v.succ, fail)
    BY <1>4 DEF AfterDeathSave
  <2> QED BY <1>1, <1>2, <1>4, <2>1, DeadIsSound
<1>5. CASE roll < 10 /\ fail # 3
  <2>1. AfterDeathSave(v, roll) = Resolved(v, 0, "unconscious", v.succ, fail)
    BY <1>5 DEF AfterDeathSave
  <2>2. fail < 3
    BY <1>2, <1>5
  <2> HIDE DEF fail
  <2> QED BY <1>1, <1>2, <2>1, <2>2, ResolvedIsSound
<1>6. CASE roll >= 10 /\ roll # 20 /\ succ = 3
  <2>1. AfterDeathSave(v, roll) = Resolved(v, 0, "stable", 0, 0)
    BY <1>6 DEF AfterDeathSave
  <2> QED BY <1>1, <2>1, ResolvedIsSound
<1>7. CASE roll >= 10 /\ roll # 20 /\ succ # 3
  <2>1. AfterDeathSave(v, roll) = Resolved(v, 0, "unconscious", succ, v.fail)
    BY <1>7 DEF AfterDeathSave
  <2>2. succ < 3
    BY <1>2, <1>7
  <2> HIDE DEF succ
  <2> QED BY <1>1, <1>2, <2>1, <2>2, ResolvedIsSound
<1> QED BY <1>3, <1>4, <1>5, <1>6, <1>7

-----------------------------------------------------------------------------
(* The inductive invariant, step by step: a fresh encounter first.         *)
LEMMA InitSound == Init => IInv
<1> SUFFICES ASSUME Init PROVE IInv
  OBVIOUS
<1>1. PICK hp \in StartHP, temp \in [Actors -> StartTemp] :
        vital = [a \in Actors |-> [hp |-> hp[a], temp |-> temp[a],
                                   life |-> "conscious", succ |-> 0, fail |-> 0]]
  BY DEF Init
<1>2. \A a \in Actors : hp[a] \in Nat \ {0} /\ hp[a] <= MaxHP[a] /\ temp[a] \in Nat
  BY CombatAssumption
<1>3. vital \in [Actors -> Vital]
  BY <1>1, <1>2 DEF Vital, LifeStates
<1>4. \A a \in Actors : Sound(a, vital[a])
  BY <1>1, <1>2 DEF Sound
<1>5. TypeOK
  <2>1. conds \in [Actors -> SUBSET ConditionIds]
    BY CombatAssumption DEF Init
  <2>2. economy \in [Actors -> Economy]
    BY DEF Init, Economy, Slots
  <2> QED BY <1>3, <2>1, <2>2, PlacesExist DEF Init, TypeOK
<1> QED BY <1>4, <1>5 DEF IInv

(* Replacing one combatant's vitals by sound ones, as the damage, healing  *)
(* and death-save events do, keeps what the invariant says of all of them. *)
LEMMA ChangeVitalKeepsSound ==
  ASSUME IInv, NEW t \in Actors, NEW v \in Vital, Sound(t, v), ChangeVital(t, v)
  PROVE  /\ vital' \in [Actors -> Vital]
         /\ conds' \in [Actors -> SUBSET ConditionIds]
         /\ \A a \in Actors : Sound(a, vital'[a])
<1>1. vital' \in [Actors -> Vital] /\ \A a \in Actors : Sound(a, vital'[a])
  BY DEF IInv, TypeOK, ChangeVital
<1>2. Synced(conds[t], v.life) \in SUBSET ConditionIds
  BY CombatAssumption DEF IInv, TypeOK, Synced
<1> QED BY <1>1, <1>2 DEF IInv, TypeOK, ChangeVital

(* What damage from any source leaves behind is sound.                     *)
LEMMA HarmKeepsSound ==
  ASSUME IInv, NEW t \in Actors, NEW amount \in Nat, NEW type,
         NEW critical \in BOOLEAN, Harm(t, amount, type, critical)
  PROVE  /\ vital' \in [Actors -> Vital]
         /\ conds' \in [Actors -> SUBSET ConditionIds]
         /\ \A a \in Actors : Sound(a, vital'[a])
<1> DEFINE v == AfterDamage(t, vital[t], AdjustDamage(t, amount, type), critical)
<1>1. vital[t] \in Vital /\ Sound(t, vital[t]) /\ vital[t].life # "dead"
  BY DEF IInv, TypeOK, Harm
<1>2. v \in Vital /\ Sound(t, v)
  BY <1>1, AdjustedIsNat, DamageIsSound
<1>3. ChangeVital(t, v)
  BY DEF Harm
<1> HIDE DEF v
<1> QED BY <1>2, <1>3, ChangeVitalKeepsSound

(* Spending a slot leaves an economy behind.                               *)
LEMMA SpentIsEconomy ==
  ASSUME IInv, NEW a \in Actors, NEW slot
  PROVE  Spent(a, slot) \in [Actors -> Economy]
BY DEF IInv, TypeOK, Spent, Economy

(* So does beginning a turn.                                               *)
LEMMA FreshIsEconomy ==
  ASSUME IInv, NEW a \in Actors
  PROVE  [economy EXCEPT ![a] = FreshTurn(a)] \in [Actors -> Economy]
<1>1. FreshTurn(a) \in Economy
  BY CombatAssumption DEF FreshTurn, Economy
<1> QED BY <1>1 DEF IInv, TypeOK

(* The places end_turn computes are places of the order.                   *)
LEMMA RotationStaysInOrder ==
  ASSUME NEW i \in Places, NEW k \in 1 .. N
  PROVE  (i + k) % N \in Places
BY PlacesExist DEF Places

(* end_turn, with the rotation and the save or fresh turn it ends in.      *)
LEMMA EndTurnKeepsSound ==
  ASSUME IInv, NEW a \in Actors, NEW roll \in SaveRolls, EndTurn(a, roll)
  PROVE  IInv'
<1>1. PICK k \in 1 .. N :
        LET next == (turn + k) % N
            b    == order[next]
        IN  /\ NextLiving(k)
            /\ turn' = next
            /\ round' = RoundAfter(next)
            /\ round' <= MaxRound
            /\ economy' = [economy EXCEPT ![b] = FreshTurn(b)]
            /\ IF DeathSaveDue(b)
                 THEN ChangeVital(b, AfterDeathSave(vital[b], roll))
                 ELSE UNCHANGED <<vital, conds>>
  BY DEF EndTurn, TurnStarts
<1> DEFINE next == (turn + k) % N
           b    == order[next]
<1>2. status = "active" /\ order \in Orders /\ turn \in Places
      /\ UNCHANGED <<status, order, windows>>
  BY DEF EndTurn, Current, IInv, TypeOK
<1>3. next \in Places /\ b \in Actors
  BY <1>2, RotationStaysInOrder DEF Orders
<1>4. turn' \in Places /\ round' \in Nat
  BY <1>1, <1>3, <1>2 DEF IInv, TypeOK, Places, RoundAfter
<1>5. economy' \in [Actors -> Economy]
  BY <1>1, <1>3, FreshIsEconomy
<1>6. /\ vital' \in [Actors -> Vital]
      /\ conds' \in [Actors -> SUBSET ConditionIds]
      /\ \A c \in Actors : Sound(c, vital'[c])
  <2>1. CASE DeathSaveDue(b)
    <3>1. vital[b] \in Vital /\ Sound(b, vital[b]) /\ vital[b].life = "unconscious"
      BY <1>3, <2>1 DEF IInv, TypeOK, DeathSaveDue
    <3>2. roll \in 1 .. 20
      BY CombatAssumption
    <3>3. ChangeVital(b, AfterDeathSave(vital[b], roll))
      BY <1>1, <2>1
    <3> HIDE DEF b
    <3> QED BY <1>3, <3>1, <3>2, <3>3, DeathSaveIsSound, ChangeVitalKeepsSound
  <2>2. CASE ~DeathSaveDue(b)
    BY <1>1, <2>2 DEF IInv, TypeOK
  <2> QED BY <2>1, <2>2
<1> HIDE DEF next, b
<1> QED BY <1>2, <1>4, <1>5, <1>6 DEF IInv, TypeOK

(* No command of the runtime leaves the invariant.                         *)
LEMMA StepSound == IInv /\ [Next]_vars => IInv'
<1> SUFFICES ASSUME IInv, [Next]_vars PROVE IInv'
  OBVIOUS
<1> USE DEF IInv, TypeOK
<1>1. ASSUME NEW rolls \in [Actors -> InitiativeRolls], StartEncounter(rolls)
      PROVE  IInv'
  <2>1. PICK o \in Orders :
          order' = o /\ economy' = [economy EXCEPT ![o[0]] = FreshTurn(o[0])]
    BY <1>1 DEF StartEncounter
  <2>2. o[0] \in Actors
    BY PlacesExist DEF Orders
  <2>3. economy' \in [Actors -> Economy]
    BY <2>1, <2>2, FreshIsEconomy
  <2> QED BY <1>1, <2>1, <2>3, PlacesExist DEF StartEncounter
<1>2. ASSUME NEW a \in Actors, NEW slot \in Slots, SpendAction(a, slot)
      PROVE  IInv'
  <2>1. economy' \in [Actors -> Economy]
    BY <1>2, SpentIsEconomy DEF SpendAction
  <2> QED BY <1>2, <2>1 DEF SpendAction
<1>3. ASSUME NEW a \in Actors, NEW feet \in Feet, SpendMovement(a, feet)
      PROVE  IInv'
  <2>1. feet \in Nat /\ economy[a] \in Economy /\ feet <= economy[a].movement
    BY <1>3, CombatAssumption DEF SpendMovement
  <2>2. economy[a].movement - feet \in Nat
    BY <2>1 DEF Economy
  <2>3. economy' \in [Actors -> Economy]
    BY <1>3, <2>2 DEF SpendMovement, Economy
  <2> QED BY <1>3, <2>3 DEF SpendMovement
<1>4. ASSUME NEW a \in Actors, NEW roll \in SaveRolls, EndTurn(a, roll)
      PROVE  IInv'
  BY <1>4, EndTurnKeepsSound
<1>5. ASSUME NEW id \in WindowIds, NEW eligible \in SUBSET Actors,
             OpenReactionWindow(id, eligible)
      PROVE  IInv'
  BY <1>5 DEF OpenReactionWindow, Window
<1>6. ASSUME NEW id \in WindowIds, NEW a \in Actors, SpendReaction(id, a)
      PROVE  IInv'
  <2>1. economy' \in [Actors -> Economy]
    BY <1>6, SpentIsEconomy DEF SpendReaction
  <2> QED BY <1>6, <2>1 DEF SpendReaction
<1>7. ASSUME NEW id \in WindowIds, CloseReactionWindow(id)
      PROVE  IInv'
  BY <1>7 DEF CloseReactionWindow
<1>8. ASSUME NEW a \in Actors, NEW t \in Actors, NEW slot \in Slots,
             NEW outcome \in {"miss", "hit", "critical"}, NEW amount \in Amounts,
             NEW type \in DamageTypes, PerformAttack(a, t, slot, outcome, amount, type)
      PROVE  IInv'
  <2>1. economy' \in [Actors -> Economy]
    BY <1>8, SpentIsEconomy DEF PerformAttack
  <2>2. /\ vital' \in [Actors -> Vital]
        /\ conds' \in [Actors -> SUBSET ConditionIds]
        /\ \A c \in Actors : Sound(c, vital'[c])
    <3>1. CASE outcome = "miss"
      BY <1>8, <3>1 DEF PerformAttack
    <3>2. CASE outcome # "miss"
      <4>1. Harm(t, amount, type, outcome = "critical") /\ amount \in Nat
        BY <1>8, <3>2, CombatAssumption DEF PerformAttack
      <4> QED BY <4>1, HarmKeepsSound
    <3> QED BY <3>1, <3>2
  <2> QED BY <1>8, <2>1, <2>2 DEF PerformAttack
<1>9. ASSUME NEW t \in Actors, NEW amount \in Amounts, NEW type \in DamageTypes,
             NEW critical \in BOOLEAN, ApplyDamage(t, amount, type, critical)
      PROVE  IInv'
  <2>1. Harm(t, amount, type, critical) /\ amount \in Nat
    BY <1>9, CombatAssumption DEF ApplyDamage
  <2>2. /\ vital' \in [Actors -> Vital]
        /\ conds' \in [Actors -> SUBSET ConditionIds]
        /\ \A c \in Actors : Sound(c, vital'[c])
    BY <2>1, HarmKeepsSound
  <2> QED BY <1>9, <2>2 DEF ApplyDamage
<1>10. ASSUME NEW t \in Actors, NEW amount \in Amounts, Heal(t, amount)
       PROVE  IInv'
  <2>1. /\ vital[t] \in Vital /\ Sound(t, vital[t]) /\ vital[t].life # "dead"
        /\ amount \in Nat /\ ChangeVital(t, AfterHealing(t, vital[t], amount))
    BY <1>10, CombatAssumption DEF Heal
  <2>2. /\ vital' \in [Actors -> Vital]
        /\ conds' \in [Actors -> SUBSET ConditionIds]
        /\ \A c \in Actors : Sound(c, vital'[c])
    BY <2>1, HealingIsSound, ChangeVitalKeepsSound
  <2> QED BY <1>10, <2>2 DEF Heal
<1>11. ASSUME NEW t \in Actors, NEW amount \in Amounts, NEW takeNew \in BOOLEAN,
              GrantTemporaryHp(t, amount, takeNew)
       PROVE  IInv'
  <2> DEFINE temp == IF vital[t].temp = 0 \/ takeNew THEN amount ELSE vital[t].temp
  <2>1. temp \in Nat
    BY CombatAssumption DEF Vital
  <2>2. vital' = [vital EXCEPT ![t].temp = temp]
    BY <1>11 DEF GrantTemporaryHp
  <2> HIDE DEF temp
  <2>3. vital' \in [Actors -> Vital] /\ \A c \in Actors : Sound(c, vital'[c])
    BY <2>1, <2>2 DEF Vital, Sound
  <2> QED BY <1>11, <2>3 DEF GrantTemporaryHp
<1>12. ASSUME NEW t \in Actors, NEW c \in ManualConditions,
              ApplyCondition(t, c) \/ RemoveCondition(t, c)
       PROVE  IInv'
  <2>1. c \in ConditionIds
    BY CombatAssumption
  <2>2. CASE ApplyCondition(t, c)
    <3>1. conds' \in [Actors -> SUBSET ConditionIds]
      BY <2>1, <2>2 DEF ApplyCondition
    <3> QED BY <2>2, <3>1 DEF ApplyCondition
  <2>3. CASE RemoveCondition(t, c)
    <3>1. conds' \in [Actors -> SUBSET ConditionIds]
      BY <2>3 DEF RemoveCondition
    <3> QED BY <2>3, <3>1 DEF RemoveCondition
  <2> QED BY <1>12, <2>2, <2>3
<1>13. CASE EndEncounter
  BY <1>13 DEF EndEncounter
<1>14. CASE UNCHANGED vars
  BY <1>14 DEF vars
<1> QED BY <1>1, <1>2, <1>3, <1>4, <1>5, <1>6, <1>7, <1>8, <1>9, <1>10, <1>11,
           <1>12, <1>13, <1>14 DEF Next, LifeNext, TurnNext, ActNext, WindowNext, React, Move

(* The inductive invariant holds in every reachable state.                 *)
THEOREM CombatInvariant == Spec => []IInv
BY InitSound, StepSound, PTL DEF Spec

(* Every field keeps its shape; initiative and turn_index stay in step.    *)
THEOREM CombatTypeOK == Spec => []TypeOK
<1>1. IInv => TypeOK
  BY DEF IInv
<1> QED BY <1>1, CombatInvariant, PTL

(* No command ever builds a combatant its constructor would refuse.        *)
THEOREM CombatLifeMatchesHitPoints == Spec => []LifeMatchesHitPoints
<1>1. IInv => LifeMatchesHitPoints
  BY DEF IInv, LifeMatchesHitPoints, Sound
<1> QED BY <1>1, CombatInvariant, PTL

(* Death saves are counted only for dying characters.                      *)
THEOREM CombatDeathSaves == Spec => []DeathSavesOnlyWhileDying
<1>1. IInv => DeathSavesOnlyWhileDying
  BY DEF IInv, DeathSavesOnlyWhileDying, Sound
<1> QED BY <1>1, CombatInvariant, PTL

-----------------------------------------------------------------------------
(* A step changes the life of at most one combatant, and not a dead one's. *)
LEMMA DeadStayDead ==
  ASSUME IInv, [Next]_vars, NEW a \in Actors, vital[a].life = "dead"
  PROVE  vital'[a].life = "dead" /\ vital'[a].hp = 0
<1>1. vital[a] \in Vital /\ vital[a].hp = 0 /\ vital \in [Actors -> Vital]
  BY DEF IInv, TypeOK, Sound, Vital
<1>2. ASSUME NEW t \in Actors, NEW v, ChangeVital(t, v), vital[t].life # "dead"
      PROVE  vital'[a] = vital[a]
  BY <1>1, <1>2 DEF ChangeVital
<1>3. ASSUME NEW t \in Actors, NEW amount, NEW type, NEW critical,
             Harm(t, amount, type, critical)
      PROVE  vital'[a] = vital[a]
  BY <1>2, <1>3 DEF Harm
<1>4. CASE UNCHANGED vital
  BY <1>1, <1>4
<1>5. ASSUME NEW b \in Actors, NEW roll \in SaveRolls, EndTurn(b, roll)
      PROVE  vital'[a] = vital[a]
  <2>1. PICK k \in 1 .. N :
          IF DeathSaveDue(order[(turn + k) % N])
            THEN ChangeVital(order[(turn + k) % N],
                             AfterDeathSave(vital[order[(turn + k) % N]], roll))
            ELSE UNCHANGED <<vital, conds>>
    BY <1>5 DEF EndTurn
  <2>2. order[(turn + k) % N] \in Actors
    BY <1>5, RotationStaysInOrder DEF EndTurn, Current, IInv, TypeOK, Orders
  <2>3. CASE DeathSaveDue(order[(turn + k) % N])
    BY <1>2, <2>1, <2>2, <2>3 DEF DeathSaveDue
  <2>4. CASE ~DeathSaveDue(order[(turn + k) % N])
    BY <2>1, <2>4
  <2> QED BY <2>3, <2>4
<1>6. ASSUME NEW b \in Actors, NEW t \in Actors, NEW slot, NEW outcome,
             NEW amount, NEW type, PerformAttack(b, t, slot, outcome, amount, type)
      PROVE  vital'[a] = vital[a]
  BY <1>3, <1>6 DEF PerformAttack
<1>7. ASSUME NEW t \in Actors, NEW amount, NEW type, NEW critical,
             ApplyDamage(t, amount, type, critical)
      PROVE  vital'[a] = vital[a]
  BY <1>3, <1>7 DEF ApplyDamage
<1>8. ASSUME NEW t \in Actors, NEW amount, Heal(t, amount)
      PROVE  vital'[a] = vital[a]
  BY <1>2, <1>8 DEF Heal
<1>9. ASSUME NEW t \in Actors, NEW amount, NEW takeNew,
             GrantTemporaryHp(t, amount, takeNew)
      PROVE  vital'[a].life = "dead" /\ vital'[a].hp = 0
  <2> DEFINE temp == IF vital[t].temp = 0 \/ takeNew THEN amount ELSE vital[t].temp
  <2>1. vital' = [vital EXCEPT ![t].temp = temp]
    BY <1>9 DEF GrantTemporaryHp
  <2> HIDE DEF temp
  <2> QED BY <1>1, <2>1 DEF Vital
<1>10. ASSUME NEW rolls, StartEncounter(rolls) PROVE UNCHANGED vital
  BY <1>10 DEF StartEncounter
<1>11. ASSUME NEW b, NEW slot, SpendAction(b, slot) PROVE UNCHANGED vital
  BY <1>11 DEF SpendAction
<1>12. ASSUME NEW b \in Actors, React(b) \/ Move(b) PROVE UNCHANGED vital
  BY <1>12 DEF React, Move, SpendReaction, SpendMovement
<1>13. ASSUME NEW t, NEW c, ApplyCondition(t, c) \/ RemoveCondition(t, c)
       PROVE UNCHANGED vital
  BY <1>13 DEF ApplyCondition, RemoveCondition
<1>14. WindowNext \/ EndEncounter \/ UNCHANGED vars => UNCHANGED vital
  BY DEF WindowNext, OpenReactionWindow, CloseReactionWindow, EndEncounter, vars
<1>15. LifeNext => vital'[a].life = "dead" /\ vital'[a].hp = 0
  BY <1>1, <1>7, <1>8, <1>9, <1>13 DEF LifeNext
<1>16. TurnNext \/ (\E b \in Actors : React(b) \/ Move(b))
         => vital'[a] = vital[a]
  BY <1>5, <1>6, <1>11, <1>12 DEF TurnNext, ActNext
<1> QED BY <1>1, <1>10, <1>14, <1>15, <1>16 DEF Next

(* Death is final.                                                         *)
THEOREM CombatDeathIsFinal == Spec => DeathIsFinal
<1>1. IInv /\ [Next]_vars =>
        [\A a \in Actors :
           vital[a].life = "dead" => vital'[a].life = "dead" /\ vital'[a].hp = 0]_vars
  BY DeadStayDead
<1> QED BY <1>1, CombatInvariant, PTL DEF Spec, DeathIsFinal
=============================================================================
