-------------------------------- MODULE Slice --------------------------------
(***************************************************************************)
(* A tactical fight as the client plays it: SpellEnabledTacticalSession    *)
(* (spell_slice.py) around TacticalVerticalSliceSession (vertical_slice.py)*)
(* and SpellRuntime (spells/runtime.py).  A session command is checked by  *)
(* several runtimes in turn and keeps all of their results or none, so it  *)
(* is one action over the encounter of module Combat and the spell state.  *)
(*                                                                         *)
(* Abstracted: the grid (an area may cover anybody, and a strike or a      *)
(* spell may reach anybody), and spell attacks and saves to who is lucky.  *)
(* A spell has one effect, as every shipped one has.                       *)
(***************************************************************************)
EXTENDS Combat, SequencesExt

CONSTANTS
  Team,    \* [Actors -> team ids]: the team: tag
  Book,    \* [spell -> definition]: every caster knows and has prepared all
  Pools,   \* [slot level -> slots a caster starts with]
  None     \* Python's None

Spells == DOMAIN Book
Levels == DOMAIN Pools

Definition ==
  [level : Nat, resolution : {"automatic", "attack", "save"},
   reach : {"self", "creature", "area", "point"},
   effect : {"damage", "healing", "condition", "removal"},
   what : DamageTypes \cup ConditionIds \cup {None},  \* damage type or condition
   save : {"none", "half", "negates"}, ongoing : BOOLEAN,
   concentration : BOOLEAN, rounds : (Nat \ {0}) \cup {None}]

ASSUME SliceAssumption ==
  /\ Book \in [Spells -> Definition]
  /\ \A s \in Spells :
       /\ Book[s].ongoing => Book[s].rounds # None
       /\ Book[s].effect \in {"condition", "removal"} => Book[s].what \in ConditionIds
  /\ Pools \in [Levels -> Nat] /\ Levels \subseteq 1 .. 9
  /\ DOMAIN Team = Actors
  /\ None \notin Nat \cup [spell : Spells, left : Nat]

VARIABLES
  slots,    \* per caster and level: spell slots left
  focus,    \* per caster: the concentration [spell, left], or None
  running   \* active_effects, each with the round of its cast (history)

magic == <<slots, focus, running>>
svars == <<vars, magic>>

-----------------------------------------------------------------------------
(* Several changes of one command build on each other: they are functions  *)
(* of the combatants [vital, conds].                                       *)

Now == [vital |-> vital, conds |-> conds]

Become(st) == vital' = st.vital /\ conds' = st.conds

Altered(st, t, v) ==
  [vital |-> [st.vital EXCEPT ![t] = v],
   conds |-> [st.conds EXCEPT ![t] = Synced(@, v.life)]]

(* _apply_effect: one effect on one target.                                *)
Applied(st, s, t, amount) ==
  LET v == st.vital[t]
  IN  CASE Book[s].effect = "damage" ->
             Altered(st, t, AfterDamage(t, v, AdjustDamage(t, amount, Book[s].what), FALSE))
        [] Book[s].effect = "healing" -> Altered(st, t, AfterHealing(t, v, amount))
        [] Book[s].effect = "condition" -> [st EXCEPT !.conds[t] = @ \cup {Book[s].what}]
        [] Book[s].effect = "removal" -> [st EXCEPT !.conds[t] = @ \ {Book[s].what}]

(* The effect on each of distinct targets: none sees what it did to others.*)
AppliedToAll(st, s, targets, amounts) ==
  LET hit(t) == IF t \in targets THEN Applied(st, s, t, amounts[t]) ELSE st
  IN  [vital |-> [t \in Actors |-> hit(t).vital[t]],
       conds |-> [t \in Actors |-> hit(t).conds[t]]]

Binds(e, t) == Book[e.spell].effect = "condition" /\ t \in e.targets

Lifted_Never(held, effects) == held           \* slip: conditions outlive the spell

(* _remove_duration_conditions asks no other effect for the condition.     *)
Lifted(held, effects) ==
  [t \in Actors |->
     held[t] \ {Book[e.spell].what : e \in {e \in effects : Binds(e, t)}}]

Standing(v) == {Team[a] : a \in {a \in Actors : v[a].life # "dead"}}

Settled_WhenDowned(v) ==                      \* slip: the dying count as out
  IF Cardinality({Team[a] : a \in {a \in Actors : v[a].life = "conscious"}}) = 1
    THEN "ended" ELSE status

(* _winning_team, asked after an attack or a spell: a fight both teams     *)
(* have lost goes on.                                                      *)
Settled(v) == IF Cardinality(Standing(v)) = 1 THEN "ended" ELSE status

-----------------------------------------------------------------------------
(* Commands without magic                                                  *)

CanUseAction(a) == CanAct(a) /\ ~Blocked(a, "action") /\ "action" \in economy[a].slots

MoveActor(a, feet) == SpendMovement(a, feet) /\ UNCHANGED magic

Attack(a, t, outcome, amount, type) ==
  /\ CanUseAction(a)
  /\ vital[t].life # "dead"
  /\ economy' = Spent(a, "action")
  /\ IF outcome = "miss"
       THEN UNCHANGED <<vital, conds>>
       ELSE Harm(t, amount, type, outcome = "critical")
  /\ status' = Settled(vital')
  /\ UNCHANGED <<order, turn, round, windows, magic>>

-----------------------------------------------------------------------------
(* Casting                                                                 *)

Targets(a, s) ==
  CASE Book[s].reach = "self" -> {{a}}
    [] Book[s].reach = "creature" -> {{t} : t \in Actors}
    [] Book[s].reach = "area" -> SUBSET Actors
    [] Book[s].reach = "point" -> {{}}

HasSlot_Any(a, s, level) == level \in Levels  \* slip: an empty pool will do

(* _castability_reason and cast_level                                      *)
HasSlot(a, s, level) ==
  IF Book[s].level = 0 THEN level = 0
  ELSE level \in Levels /\ level >= Book[s].level /\ slots[a][level] > 0

(* Who the effect touches: those a spell attack hits, those who fail a     *)
(* save that negates, else every target.                                   *)
Touched(s, targets, lucky) ==
  CASE Book[s].resolution = "attack" -> lucky
    [] Book[s].resolution = "save" /\ Book[s].save = "negates" -> targets \ lucky
    [] OTHER -> targets

Halved(s, lucky, amounts) ==
  [t \in Actors |-> IF /\ Book[s].resolution = "save" /\ Book[s].save = "half"
                        /\ t \in lucky
                      THEN amounts[t] \div 2 ELSE amounts[t]]

Replaced_Nothing(a, s) == {}                  \* slip: the old spell runs on

(* The running effects a new concentration of the caster ends.             *)
Replaced(a, s) ==
  IF Book[s].concentration /\ focus[a] # None
    THEN {e \in running : e.caster = a /\ Book[e.spell].concentration}
    ELSE {}

Lasts(s) == Book[s].rounds # None /\ (Book[s].ongoing \/ Book[s].effect = "condition")

Cast(a, s, level, targets, lucky, amounts) ==
  LET touched == Touched(s, targets, lucky)
      freed   == [Now EXCEPT !.conds = Lifted(@, Replaced(a, s))]
      hurt    == AppliedToAll(freed, s, touched, Halved(s, lucky, amounts))
      begun   == [spell |-> s, caster |-> a, targets |-> touched,
                  left |-> Book[s].rounds, since |-> round]
  IN  /\ CanUseAction(a)
      /\ HasSlot(a, s, level)
      /\ targets \in Targets(a, s) /\ lucky \subseteq targets
      /\ Book[s].effect \in {"damage", "healing"} =>
           \A t \in touched : vital[t].life # "dead"
      /\ Become(hurt)
      /\ economy' = Spent(a, "action")
      /\ slots' = IF level = 0 THEN slots ELSE [slots EXCEPT ![a][level] = @ - 1]
      /\ focus' = IF Book[s].concentration
                    THEN [focus EXCEPT ![a] = [spell |-> s, left |-> Book[s].rounds]]
                    ELSE focus
      /\ running' = (running \ Replaced(a, s))
                      \cup (IF Lasts(s) /\ touched # {} THEN {begun} ELSE {})
      /\ status' = Settled(vital')
      /\ UNCHANGED <<order, turn, round, windows>>

-----------------------------------------------------------------------------
(* The end of a turn, and of a round                                       *)

Struck(st, e) ==
  IF Book[e.spell].ongoing
    THEN {t \in e.targets : st.vital[t].life # "dead"} ELSE {}

(* One active effect at a round's end: it works, and expires or ticks.     *)
Ticked(st, e, amounts) ==
  LET hurt == AppliedToAll(st, e.spell, Struck(st, e), amounts)
  IN  IF e.left <= 1 THEN [hurt EXCEPT !.conds = Lifted(@, {e})] ELSE hurt

(* The effects that roll dice at a round's end.                            *)
Ongoing == {e \in running : Book[e.spell].ongoing}

(* advance_round takes the effects in the lexical order of their ids,      *)
(* which is not that of their casts: any order stands for it.              *)
AllTicked(st, effects, amounts) ==
  LET upTo[k \in 0 .. Len(effects)] ==
        IF k = 0 THEN st ELSE Ticked(upTo[k - 1], effects[k], amounts[effects[k]])
  IN  upTo[Len(effects)]

Continuing == {[e EXCEPT !.left = @ - 1] : e \in {e \in running : e.left > 1}}

(* The effects of what a caster concentrates on.                           *)
Mine(c, effects) ==
  {e \in effects : /\ focus[c] # None /\ e.caster = c /\ e.spell = focus[c].spell
                   /\ Book[e.spell].concentration}

(* _sync_concentration_durations: a concentration whose spell touched      *)
(* nobody has no effect to follow and stays as it is.                      *)
Followed(c) ==
  LET mine == Mine(c, Continuing)
  IN  IF mine # {} THEN [focus[c] EXCEPT !.left = (CHOOSE e \in mine : TRUE).left]
      ELSE IF Mine(c, running) # {} THEN None ELSE focus[c]

AdvanceRound(st, amounts) ==
  /\ \E effects \in SetToSeqs(running) : Become(AllTicked(st, effects, amounts))
  /\ running' = Continuing
  /\ focus' = [c \in Actors |-> Followed(c)]
  /\ UNCHANGED slots

RoundIsOver_EveryTurn(next) == TRUE           \* slip: effects tick every turn
RoundIsOver(next) == RoundAfter(next) > round

(* Nobody asks here whether the fight is decided.                          *)
EndTurnAndRound(a, roll, amounts) ==
  /\ Current(a)
  /\ \E k \in 1 .. N :
       LET next  == (turn + k) % N
           b     == order[next]
           saved == IF DeathSaveDue(b) THEN Altered(Now, b, AfterDeathSave(vital[b], roll))
                    ELSE Now
       IN  /\ NextLiving(k)
           /\ TurnStarts(next)
           /\ IF RoundIsOver(next) THEN AdvanceRound(saved, amounts)
              ELSE Become(saved) /\ UNCHANGED magic
  /\ UNCHANGED <<status, order, windows>>

-----------------------------------------------------------------------------
(* create: the encounter is started at once, with nobody under a condition.*)
SliceInit ==
  /\ status = "active"
  /\ \E hp \in StartHP :
       vital = [a \in Actors |-> [hp |-> hp[a], temp |-> 0,
                                  life |-> "conscious", succ |-> 0, fail |-> 0]]
  /\ conds = [a \in Actors |-> {}]
  /\ order \in Orders
  /\ economy = [a \in Actors |-> IF a = order[0] THEN FreshTurn(a)
                                   ELSE [slots |-> {"reaction"}, movement |-> 0]]
  /\ turn = 0
  /\ round = 1
  /\ windows = {}
  /\ slots = [a \in Actors |-> Pools]
  /\ focus = [a \in Actors |-> None]
  /\ running = {}

SliceNext ==
  \/ \E a \in Actors, feet \in Feet : MoveActor(a, feet)
  \/ \E a, t \in Actors, outcome \in {"miss", "hit", "critical"},
        amount \in Amounts, type \in DamageTypes : Attack(a, t, outcome, amount, type)
  \/ \E a \in Actors : CanUseAction(a) /\
       \E s \in Spells, level \in Levels \cup {0} :
         HasSlot(a, s, level) /\
         \E targets \in Targets(a, s) : \E lucky \in SUBSET targets :
           \E amounts \in [Actors -> Amounts] : Cast(a, s, level, targets, lucky, amounts)
  \/ \E a \in Actors : Current(a) /\
       \E roll \in SaveRolls, amounts \in [Ongoing -> [Actors -> Amounts]] :
         EndTurnAndRound(a, roll, amounts)

SliceSpec == SliceInit /\ [][SliceNext]_svars

(* What tactical.actions tells the action bar about End Turn.              *)
OffersEndTurn(a) == CanAct(a)

-----------------------------------------------------------------------------
Effect ==
  [spell : Spells, caster : Actors, targets : SUBSET Actors, left : Nat, since : Nat]

(* Besides the encounter's own shape: no pool is overdrawn, and what is    *)
(* concentrated on or running has a round left.                            *)
SliceTypeOK ==
  /\ TypeOK
  /\ slots \in [Actors -> [Levels -> Nat]]
  /\ focus \in [Actors -> [spell : Spells, left : Nat \cup {None}] \cup {None}]
  /\ running \subseteq Effect
  /\ \A e \in running : e.left >= 1

(* A caster concentrates on one spell, and its running effect and the      *)
(* concentration, two copies of one countdown kept in different places,    *)
(* name the same spell and the same rounds left.                           *)
ConcentrationAgrees ==
  \A e \in {e \in running : Book[e.spell].concentration} :
    /\ focus[e.caster] = [spell |-> e.spell, left |-> e.left]
    /\ \A f \in running : f.caster = e.caster /\ Book[f.spell].concentration => f = e

(* No condition outlives its spell: a combatant under a spell's condition  *)
(* is a target of an effect that still runs, whatever was replaced, ran out*)
(* or was cast on top of it.                                               *)
ConditionsHaveASpell ==
  \A t \in Actors : \A c \in conds[t] \ {Unconscious} :
    \E e \in running : Binds(e, t) /\ Book[e.spell].what = c

(* An effect of n rounds runs for n ends of a round, one per round, however*)
(* turns were passed over because combatants died.                         *)
DurationsFollowRounds ==
  \A e \in running : e.left + (round - e.since) = Book[e.spell].rounds

(* A fight is over only when exactly one team still has a member that is   *)
(* not dead: its winner, which the campaign records, exists and is the only*)
(* one.                                                                    *)
EndedFightsHaveOneWinner ==
  status = "ended" => \E team \in {Team[a] : a \in Actors} : Standing(vital) = {team}

(* docs/V0.7_GODOT_VERTICAL_SLICE.md:125: tactical.actions "returns coarse *)
(* engine-side availability for the selected actor's Move, Strike, and End *)
(* Turn actions": whenever the engine would end the turn of the current    *)
(* actor, End Turn is available to it.                                     *)
EndTurnIsOffered ==
  \A a \in Actors :
    Current(a) /\ (\E k \in 1 .. N : NextLiving(k)) => OffersEndTurn(a)
=============================================================================
