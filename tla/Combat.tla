------------------------------- MODULE Combat -------------------------------
(***************************************************************************)
(* One tactical encounter: CombatRuntime (combat/runtime.py), the commands *)
(* that validate and resolve, together with apply_combat_event             *)
(* (combat/reducer.py), the reducer that turns their events into the next  *)
(* EncounterState.  An EncounterState is immutable and a command that      *)
(* raises ValidationError leaves the caller's state alone, so a command is *)
(* one action and its refusals are the action's guard.                     *)
(*                                                                         *)
(* Abstracted: dice (a roll is any value it can show), the armor class     *)
(* comparison (an attack misses, hits or is critical), ids and wording of  *)
(* events, and the event counter.                                          *)
(***************************************************************************)
EXTENDS Integers, FiniteSets

CONSTANTS
  Actors,            \* the combatants of the encounter
  MaxHP,             \* [Actors -> Nat \ {0}]: hit_points.maximum
  StartHP,           \* the [Actors -> 1 .. MaxHP] an encounter starts with
  StartTemp,         \* temporary hit points an actor may bring along
  ZeroHPRule,        \* [Actors -> {"character", "monster"}]
  WalkingSpeed,      \* [Actors -> Nat]: feet of movement per turn
  DexMod,            \* [Actors -> Int]: Dexterity modifier
  Rank,              \* [Actors -> Nat]: place of the id in lexical order
  DamageTypes,       \* damage-type ids
  Immune, Resistant, Vulnerable, \* [Actors -> SUBSET DamageTypes]
  ConditionIds,      \* the condition ids that occur
  Unconscious,       \* "condition:unconscious", kept by the reducer
  ManualConditions,  \* the conditions callers apply, remove or start with
  BlockedBy,         \* [ConditionIds -> SUBSET Blockable]: condition_rules
  WindowIds,         \* reaction window ids
  Amounts,           \* damage, healing and temporary hit points tried
  Feet,              \* movement costs tried
  InitiativeRolls,   \* d20 values initiative is tried with
  SaveRolls,         \* d20 values death saves are tried with
  MaxRound           \* bound: rounds explored

Slots     == {"action", "bonus_action", "reaction"}
Blockable == Slots \cup {"movement"}
N         == Cardinality(Actors)
Places    == 0 .. (N - 1)

ASSUME CombatAssumption ==
  /\ IsFiniteSet(Actors) /\ Actors # {}
  /\ MaxHP \in [Actors -> Nat \ {0}]
  /\ StartHP \subseteq [Actors -> Nat \ {0}] /\ StartTemp \subseteq Nat
  /\ \A hp \in StartHP, a \in Actors : hp[a] <= MaxHP[a]
  /\ ZeroHPRule \in [Actors -> {"character", "monster"}]
  /\ WalkingSpeed \in [Actors -> Nat]
  /\ DexMod \in [Actors -> Int]
  /\ Rank \in [Actors -> Nat]
  /\ \A a, b \in Actors : Rank[a] = Rank[b] => a = b
  /\ Immune \in [Actors -> SUBSET DamageTypes]
  /\ Resistant \in [Actors -> SUBSET DamageTypes]
  /\ Vulnerable \in [Actors -> SUBSET DamageTypes]
  /\ Unconscious \in ConditionIds /\ ManualConditions \subseteq ConditionIds
  /\ BlockedBy \in [ConditionIds -> SUBSET Blockable]
  /\ Amounts \subseteq Nat /\ Feet \subseteq Nat
  /\ InitiativeRolls \subseteq 1 .. 20 /\ SaveRolls \subseteq 1 .. 20
  /\ MaxRound \in Nat \ {0}

VARIABLES
  status,    \* EncounterStatus
  vital,     \* per combatant: hit points, life state and death saves
  conds,     \* per combatant: the ids of its conditions
  economy,   \* per combatant: unspent slots and movement
  order,     \* initiative order, place -> combatant (<<>> while preparing)
  turn,      \* turn_index
  round,     \* round_number
  windows    \* open reaction windows

vars == <<status, vital, conds, economy, order, turn, round, windows>>

LifeStates == {"conscious", "unconscious", "stable", "dead"}
Vital   == [hp : Nat, temp : Nat, life : LifeStates, succ : 0 .. 3, fail : 0 .. 3]
Economy == [slots : SUBSET Slots, movement : Nat]
Window  == [id : WindowIds, eligible : SUBSET Actors]
Orders  == {o \in [Places -> Actors] :
              /\ \A i, j \in Places : o[i] = o[j] => i = j
              /\ \A a \in Actors : \E i \in Places : o[i] = a}

Least(x, y)  == IF x < y THEN x ELSE y
Excess(x, y) == IF x > y THEN x - y ELSE 0

-----------------------------------------------------------------------------
(* Initiative: higher total, then higher Dexterity, then lexical id.       *)

Total(a, rolls) == rolls[a] + DexMod[a]

Before(a, b, rolls) ==
  \/ Total(a, rolls) > Total(b, rolls)
  \/ /\ Total(a, rolls) = Total(b, rolls)
     /\ \/ DexMod[a] > DexMod[b]
        \/ DexMod[a] = DexMod[b] /\ Rank[a] < Rank[b]

Sorted(o, rolls) ==
  \A i, j \in Places : i < j => Before(o[i], o[j], rolls)

-----------------------------------------------------------------------------
(* Damage, healing and death saves as functions of one combatant's vitals. *)

AdjustDamage(a, amount, type) ==
  LET halved == IF type \in Resistant[a] THEN amount \div 2 ELSE amount
  IN  IF type \in Immune[a] THEN 0
      ELSE IF type \in Vulnerable[a] THEN halved * 2 ELSE halved

(* The payload of damage.applied, healing.applied and death_save.resolved. *)
Resolved(v, hp, life, succ, fail) ==
  [hp |-> hp, temp |-> v.temp, life |-> life, succ |-> succ, fail |-> fail]

Failures_Uncapped(v, critical) == v.fail + (IF critical THEN 2 ELSE 1)  \* slip: no min(3, ...)
Failures(v, critical) == Least(3, v.fail + (IF critical THEN 2 ELSE 1))

(* Damage to a combatant that is already at 0 hit points: the whole        *)
(* adjusted amount counts, also what temporary hit points absorbed.        *)
HitWhileDown(a, v, amount, critical) ==
  LET fail == Failures(v, critical)
  IN  IF amount >= MaxHP[a] THEN Resolved(v, 0, "dead", v.succ, v.fail)
      ELSE IF ZeroHPRule[a] = "monster" THEN v
      ELSE Resolved(v, 0, IF fail >= 3 THEN "dead" ELSE "unconscious", v.succ, fail)

(* The blow that takes a combatant to 0 hit points.                        *)
Dropped(a, v, leftover) ==
  IF ZeroHPRule[a] = "monster" \/ leftover >= MaxHP[a]
    THEN Resolved(v, 0, "dead", v.succ, v.fail)
    ELSE Resolved(v, 0, "unconscious", 0, 0)

AfterDamage(a, v, amount, critical) ==
  LET remaining == Excess(amount, v.temp)
      soaked    == [v EXCEPT !.temp = Excess(v.temp, amount)]
  IN  IF v.hp = 0
        THEN IF amount > 0 THEN HitWhileDown(a, soaked, amount, critical)
             ELSE soaked
      ELSE IF remaining >= v.hp THEN Dropped(a, soaked, remaining - v.hp)
      ELSE [soaked EXCEPT !.hp = v.hp - remaining]

AfterHealing_Uncapped(a, v, amount) ==        \* slip: maximum ignored
  Resolved(v, v.hp + amount, IF v.hp + amount > 0 THEN "conscious" ELSE v.life, 0, 0)

AfterHealing(a, v, amount) ==
  LET hp == Least(MaxHP[a], v.hp + amount)
  IN  IF hp = 0 THEN v ELSE Resolved(v, hp, "conscious", 0, 0)

AfterDeathSave(v, roll) ==
  LET fail == Least(3, v.fail + (IF roll = 1 THEN 2 ELSE 1))
      succ == Least(3, v.succ + 1)
  IN  IF roll = 20 THEN Resolved(v, 1, "conscious", 0, 0)
      ELSE IF roll < 10
        THEN Resolved(v, 0, IF fail = 3 THEN "dead" ELSE v.life, v.succ, fail)
      ELSE IF succ = 3 THEN Resolved(v, 0, "stable", 0, 0)
      ELSE Resolved(v, 0, v.life, succ, v.fail)

(* _sync_unconscious_condition *)
Synced(held, life) ==
  (held \ {Unconscious})
    \cup (IF life \in {"unconscious", "stable"} THEN {Unconscious} ELSE {})

-----------------------------------------------------------------------------
(* Guards and updates shared by the commands.                              *)

Current(a) == status = "active" /\ order[turn] = a
CanAct(a)  == Current(a) /\ vital[a].life = "conscious"

Blocked(a, what) == \E c \in conds[a] : what \in BlockedBy[c]

Spent_Nothing(a, slot) == economy             \* slip: slot not consumed

Spent(a, slot) == [economy EXCEPT ![a].slots = @ \ {slot}]

FreshTurn(a) == [slots |-> Slots, movement |-> WalkingSpeed[a]]

(* damage.applied, healing.applied and death_save.resolved                 *)
ChangeVital(t, v) ==
  /\ vital' = [vital EXCEPT ![t] = v]
  /\ conds' = [conds EXCEPT ![t] = Synced(@, v.life)]

Harm(t, amount, type, critical) ==
  /\ vital[t].life # "dead"
  /\ ChangeVital(t, AfterDamage(t, vital[t], AdjustDamage(t, amount, type), critical))

-----------------------------------------------------------------------------
(* Commands.                                                               *)

StartEncounter(rolls) ==
  /\ status = "preparing"
  /\ status' = "active"
  /\ \E o \in Orders :
       /\ Sorted(o, rolls)
       /\ order' = o
       /\ economy' = [economy EXCEPT ![o[0]] = FreshTurn(o[0])]
  /\ turn' = 0
  /\ round' = 1
  /\ UNCHANGED <<vital, conds, windows>>

SpendAction(a, slot) ==
  /\ CanAct(a)
  /\ slot # "reaction"
  /\ ~Blocked(a, slot)
  /\ slot \in economy[a].slots
  /\ economy' = Spent(a, slot)
  /\ UNCHANGED <<status, vital, conds, order, turn, round, windows>>

SpendMovement(a, feet) ==
  /\ CanAct(a)
  /\ ~Blocked(a, "movement")
  /\ feet <= economy[a].movement
  /\ economy' = [economy EXCEPT ![a].movement = @ - feet]
  /\ UNCHANGED <<status, vital, conds, order, turn, round, windows>>

NextLiving_SkipsDowned(k) ==                  \* slip: dying actors lose turns
  LET alive(j) == vital[order[(turn + j) % N]].life = "conscious"
  IN  alive(k) /\ \A j \in 1 .. (k - 1) : ~alive(j)

(* _next_living_turn: the k-th place after the current one is the first    *)
(* whose combatant is not dead; the current place itself comes last.       *)
NextLiving(k) ==
  LET alive(j) == vital[order[(turn + j) % N]].life # "dead"
  IN  alive(k) /\ \A j \in 1 .. (k - 1) : ~alive(j)

RoundAfter_AtTop(next) ==                     \* slip: only at place 0
  round + (IF next = 0 THEN 1 ELSE 0)

RoundAfter(next) == round + (IF next <= turn THEN 1 ELSE 0)

DeathSaveDue(a) ==
  vital[a].life = "unconscious" /\ vital[a].hp = 0 /\ ZeroHPRule[a] = "character"

(* turn.started                                                            *)
TurnStarts(next) ==
  /\ turn' = next
  /\ round' = RoundAfter(next)
  /\ round' <= MaxRound
  /\ economy' = [economy EXCEPT ![order[next]] = FreshTurn(order[next])]

EndTurn(a, roll) ==
  /\ Current(a)
  /\ \E k \in 1 .. N :
       LET next == (turn + k) % N
           b    == order[next]
       IN  /\ NextLiving(k)
           /\ TurnStarts(next)
           /\ IF DeathSaveDue(b)
                THEN ChangeVital(b, AfterDeathSave(vital[b], roll))
                ELSE UNCHANGED <<vital, conds>>
  /\ UNCHANGED <<status, order, windows>>

OpenReactionWindow(id, eligible) ==
  /\ status = "active"
  /\ \A w \in windows : w.id # id
  /\ windows' = windows \cup {[id |-> id, eligible |-> eligible]}
  /\ UNCHANGED <<status, vital, conds, economy, order, turn, round>>

(* The window stays open and the actor stays eligible: only the slot goes. *)
SpendReaction(id, a) ==
  /\ status = "active"
  /\ \E w \in windows : w.id = id /\ a \in w.eligible
  /\ vital[a].life = "conscious"
  /\ ~Blocked(a, "reaction")
  /\ "reaction" \in economy[a].slots
  /\ economy' = Spent(a, "reaction")
  /\ UNCHANGED <<status, vital, conds, order, turn, round, windows>>

CloseReactionWindow(id) ==
  /\ \E w \in windows : w.id = id
  /\ windows' = {w \in windows : w.id # id}
  /\ UNCHANGED <<status, vital, conds, economy, order, turn, round>>

PerformAttack(a, t, slot, outcome, amount, type) ==
  /\ CanAct(a)
  /\ vital[t].life # "dead"
  /\ slot # "reaction"
  /\ ~Blocked(a, slot)
  /\ slot \in economy[a].slots
  /\ economy' = Spent(a, slot)
  /\ IF outcome = "miss"
       THEN UNCHANGED <<vital, conds>>
       ELSE Harm(t, amount, type, outcome = "critical")
  /\ UNCHANGED <<status, order, turn, round, windows>>

ApplyDamage(t, amount, type, critical) ==
  /\ status = "active"
  /\ Harm(t, amount, type, critical)
  /\ UNCHANGED <<status, economy, order, turn, round, windows>>

Heal_AlsoTheDead(t, amount) ==                \* slip: dead combatants healed
  /\ status = "active"
  /\ ChangeVital(t, AfterHealing(t, vital[t], amount))
  /\ UNCHANGED <<status, economy, order, turn, round, windows>>

Heal(t, amount) ==
  /\ status = "active"
  /\ vital[t].life # "dead"
  /\ ChangeVital(t, AfterHealing(t, vital[t], amount))
  /\ UNCHANGED <<status, economy, order, turn, round, windows>>

GrantTemporaryHp(t, amount, takeNew) ==
  /\ status = "active"
  /\ vital' = [vital EXCEPT ![t].temp =
                 IF @ = 0 \/ takeNew THEN amount ELSE @]
  /\ UNCHANGED <<status, conds, economy, order, turn, round, windows>>

ApplyCondition(t, c) ==
  /\ status = "active"
  /\ conds' = [conds EXCEPT ![t] = @ \cup {c}]
  /\ UNCHANGED <<status, vital, economy, order, turn, round, windows>>

RemoveCondition(t, c) ==
  /\ status = "active"
  /\ conds' = [conds EXCEPT ![t] = @ \ {c}]
  /\ UNCHANGED <<status, vital, economy, order, turn, round, windows>>

EndEncounter ==
  /\ status = "active"
  /\ status' = "ended"
  /\ windows' = {}
  /\ UNCHANGED <<vital, conds, economy, order, turn, round>>

-----------------------------------------------------------------------------
(* create_encounter wraps actors that may already be wounded, shielded by  *)
(* temporary hit points or under conditions; all start conscious.          *)
Init ==
  /\ status = "preparing"
  /\ \E hp \in StartHP, temp \in [Actors -> StartTemp] :
       vital = [a \in Actors |-> [hp |-> hp[a], temp |-> temp[a],
                                  life |-> "conscious", succ |-> 0, fail |-> 0]]
  /\ conds \in [Actors -> SUBSET ManualConditions]
  /\ economy = [a \in Actors |-> [slots |-> {"reaction"}, movement |-> 0]]
  /\ order = <<>>
  /\ turn = 0
  /\ round = 0
  /\ windows = {}

LifeNext ==
  \/ \E t \in Actors, amount \in Amounts :
       \/ \E type \in DamageTypes, critical \in BOOLEAN :
            ApplyDamage(t, amount, type, critical)
       \/ Heal(t, amount)
       \/ \E takeNew \in BOOLEAN : GrantTemporaryHp(t, amount, takeNew)
  \/ \E t \in Actors, c \in ManualConditions :
       ApplyCondition(t, c) \/ RemoveCondition(t, c)

ActNext ==
  \/ \E a \in Actors, slot \in Slots : SpendAction(a, slot)
  \/ \E a, t \in Actors, slot \in Slots, outcome \in {"miss", "hit", "critical"},
        amount \in Amounts, type \in DamageTypes :
       PerformAttack(a, t, slot, outcome, amount, type)

TurnNext == ActNext \/ \E a \in Actors, roll \in SaveRolls : EndTurn(a, roll)

WindowNext ==
  \/ \E id \in WindowIds, eligible \in SUBSET Actors : OpenReactionWindow(id, eligible)
  \/ \E id \in WindowIds : CloseReactionWindow(id)

React(a) == \E id \in WindowIds : SpendReaction(id, a)

Move(a) == \E feet \in Feet : SpendMovement(a, feet)

Next ==
  \/ \E rolls \in [Actors -> InitiativeRolls] : StartEncounter(rolls)
  \/ LifeNext
  \/ TurnNext
  \/ WindowNext
  \/ \E a \in Actors : React(a) \/ Move(a)
  \/ EndEncounter

Spec == Init /\ [][Next]_vars

-----------------------------------------------------------------------------
(* Every variable keeps the shape of its field; while the encounter runs   *)
(* the initiative holds each combatant once and turn_index points into it. *)
TypeOK ==
  /\ status \in {"preparing", "active", "ended"}
  /\ vital \in [Actors -> Vital]
  /\ conds \in [Actors -> SUBSET ConditionIds]
  /\ economy \in [Actors -> Economy]
  /\ IF status = "preparing" THEN order = <<>> ELSE order \in Orders
  /\ turn \in Places
  /\ round \in Nat
  /\ windows \subseteq Window

(* No sequence of commands builds a CombatantState its constructor refuses *)
(* (model.py: conscious needs a hit point, unconscious and stable have     *)
(* none, current <= maximum): a healing, damage or death-save event is     *)
(* never rejected by the reducer after its command accepted it.  Dead ones *)
(* have no hit point either.                                               *)
LifeMatchesHitPoints ==
  \A a \in Actors :
    /\ vital[a].hp <= MaxHP[a]
    /\ vital[a].life = "conscious" <=> vital[a].hp > 0

(* Death saves are counted only for a dying character: they are back at    *)
(* zero when it is conscious or stable, a third failure is death, never a  *)
(* state a command leaves alive, and a monster never lies dying.           *)
DeathSavesOnlyWhileDying ==
  \A a \in Actors :
    LET v == vital[a]
    IN  /\ v.life \in {"conscious", "stable"} => v.succ = 0 /\ v.fail = 0
        /\ v.life = "unconscious" => v.succ < 3 /\ v.fail < 3
        /\ ZeroHPRule[a] = "monster" => v.life \in {"conscious", "dead"}

(* Death is final: no command heals, wakes, stabilises or gives hit points *)
(* back to a dead combatant, whatever damage or healing races it.          *)
DeathIsFinal ==
  [][\A a \in Actors :
       vital[a].life = "dead" => vital'[a].life = "dead" /\ vital'[a].hp = 0]_vars

(* The encounter keeps the abstract promise of module Encounter: every     *)
(* command is one of its steps or changes nothing it can see.              *)
Promise == INSTANCE Encounter WITH
  Count    <- N,
  Monsters <- {a \in Actors : ZeroHPRule[a] = "monster"},
  life     <- [a \in Actors |-> vital[a].life]

KeepsPromise == Promise!Spec
=============================================================================
