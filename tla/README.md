# A TLA+ model of Godot DnD Simulator

The program is a tactical and campaign role-playing game in two halves. A
Python **engine** (`engine/src/godot_dnd_engine`) owns every rule and all state
that matters: it takes commands, applies them or refuses them, and numbers what
it did. A Godot **client** (`apps/godot-client`) shows that state, collects the
player's intentions and keeps the saved games. They talk over a local TCP
connection, one JSON message per line.

The modules here model the parts where the order of things decides whether the
game is right: turns and reactions, spells that outlast the turn they were cast
in, the connection that may be lost at any moment, the campaign with a fight
inside it, characters that are created and levelled over that connection, and
the save file that is replaced while the game may be killed. One part is a pure
algorithm that is easy to get almost right, the path search and the geometry of
the battle map. TLC checks the modules on small instances, and TLAPS proves most
of the safety properties TLC checks for every size.

Contents: [inventory](#inventory), [modules](#modules), [runs](#runs),
[bounds](#bounds), [fairness](#fairness), [proofs](#proofs),
[findings](#findings), [left out](#left-out), [plan](#plan).

## Inventory

Paths are relative to `engine/src/godot_dnd_engine/` (E) or
`apps/godot-client/` (G). `PROJECT.json` lists the same parts with their status,
and every hazard at its line.

| part | state | operations | what makes it correct |
|---|---|---|---|
| Combat (E `combat/`) | encounter: status, round, turn index, order; per combatant hit points, temporary hit points, life state, death saves, conditions, action economy; reaction windows | start, end_turn, spend, move, attack, damage, heal, temporary hit points, conditions, open/use/pass/close window, end | the dead stay dead, counters match the life state, each living combatant gets a turn a round and one reaction between its turns, the order is decided by the rolls alone |
| Simulation engine (E `engine.py`) | sequence, event log | handle | a command is applied at the sequence it was made for or not at all |
| Bridge host (E `client_bridge.py`) | one session per connection over the one engine | hello, command, query, preview, cancel | answers carry what the engine has really done |
| Engine bridge and transport (G `bridge/`) | readiness, pending requests with deadlines, last sequence, resync flag | connect, request, receive, expire, cancel, disconnect | late, lost and repeated messages never corrupt the mirror |
| Client state (G `state/`) | mirror of the authority, tracked requests, selection | ingest snapshot or events, submit, forget | the mirror is a true past of the engine; whatever waits, is waiting for something |
| Interaction controller (G `input/`) | mode, armed intent | arm, confirm, cancel | one submission per confirmation, the lock is always released |
| App shell (G `scenes/shell/`) | shell state, scene load | start, retry, shutdown, load | starting ends; playable means connected |
| World runtime (E `world/`) | area, flags, quests, inventory, purse, stock, equipment, dialogue, cleared encounters | start, travel, dialogue, interaction, buy, sell, equip, rest, complete_encounter | nothing is rewarded twice, nothing is worn that is not owned |
| World bridge (E `world_bridge.py`) | the fight bound to a gate, whether it has begun; offered actions | world commands, begin_encounter, fight commands, save, load | a victory counts once, for its own gate, and can always be recorded; what is offered is accepted |
| Save store (G `scenes/world/world_save_store.gd`) | three files a slot, busy flag, worker thread | save, load, list | a fault never costs the player the game saved last |
| Save panel (G `scenes/world/world_save_panel.gd`) | the query it waits for, the load it waits for, the command it sent | save (a snapshot over the bridge, then a write), load (a read, then a command), refresh, disconnect | whatever goes wrong between two halves, the panel becomes usable again |
| Spatial authority (E `spatial/`) | grid, placements, movement policy, event log | path, reachable cells, move, move by proposal, sight, cover, areas, threats | paths are legal, cheapest and within budget, sight is mutual, areas fit together, what one place calls threatened every other does |
| Character creator (E `character_creator/`, `character_bridge.py`) | the records made in this session | catalog, preview, create, level_up, level_up_choices | every record is legal at its level, keeps what it has, and its totals are those of its choices |
| Character creator view (G `scenes/character_creator/`) | draft, step, offers and picks of a level-up, requests out | edit, review, create, level up | what is confirmed is what was reviewed |
| Spells (E `spells/`, `spell_slice.py`) | per caster spell slots and a concentration; the running effects with their rounds left | preview, cast, advance_round, check_concentration, end_concentration | concentration, running effects and conditions agree, durations count rounds |
| Vertical slice (E `vertical_slice.py`, `spell_slice.py`) | encounter, grid, spell state, recent events; the action list | move, attack, cast_spell, end_turn | the fight ends when one team is left; the actions offered are those accepted |
| Rules, actors, importer, scenes, scripts | mostly values | mostly one-shot | arithmetic, validation |

**How they interact.** The client never changes a rule's state. A confirm builds
a command with the sequence the mirror shows; the bridge sends it, the host
session checks the sequence and lets the engine (or one of the slice, spell or
world sessions) apply it, and answers with events or a snapshot; the bridge
emits signals, which are synchronous calls, so the mirror, the coordinator, the
controller and the shell all change inside the handling of one message. The
world bridge owns a tactical session and lets it play a fight for a gate. Saving
takes a snapshot over the bridge, then hands text to the store, whose worker is
the only second thread in the client besides the engine's scene loader; loading
goes the other way round. The character creator previews a draft at every review
and creates it with a command, and the party of a campaign is picked from the
records it made.

**What is hard.** Answers that come after their deadline, on a connection the
client no longer uses, or after the engine was restarted; a scene load that ends
after the connection it was for; a confirm between two of these; world commands
while a fight is bound; a load in the middle of a campaign; file operations that
fail half way; damage, healing and saves on one combatant in any order; reaction
windows left open over a turn; a preview that answers for a draft the player has
changed since; a level-up sent twice; a search that is exact only while its
estimate is never too high.

## Modules

| module | models | state and actions |
|---|---|---|
| `Combat` | E `combat/` | One action per command of `CombatRuntime`; each takes the events it reduces as one step (`Harm`, `EndTurn`, ...). Dice are choices from small sets. |
| `Encounter` | what Combat promises | The abstract encounter: an order, whose turn it is, the round, who is dead. |
| `CombatHistory` | fairness between combatants | Combat with ledgers of turns taken and reactions used. |
| `Bridge` | host, transport, bridge, mirror, tracked requests | Two FIFO lines, the requests of lost connections, the pending set. A handler with all its subscribers is one action. |
| `Client` | shell and controller over `Bridge` | Each action is one of Bridge with what the shell and the controller make of its signal. |
| `World` | E `world/` | One action per world command; a state record that can be saved whole; what a campaign must satisfy to be loaded (`WellFormed...`). |
| `WorldBridge` | E `world_bridge.py` over `World` | Gating, the bound fight, save and load, and the actions it offers the client. |
| `SaveStore` | one slot of the save store | One action per file operation, each of which succeeds or fails; `Killed` at any point. |
| `SavePanel` | the panel over `SaveStore` | Every action of the store, and what the panel's handlers do with its signals, the bridge's answers, a disconnect and a focus that moves. |
| `Grid` | E `spatial/` geometry, visibility, areas, threats | Operators over a map: distances, footprints, step costs, the trace between two cells, sight, cover, cones, lines and spheres, reach. |
| `Spatial` | E `spatial/` movement, runtime, reducer over `Grid` | One pop of the search's frontier at a time; a move applies the event its answer carries. |
| `Characters` | E `character_creator/` | Create and level_up on the records, with every check of the catalog in its order. |
| `Creator` | the view and its connection over `Characters` | Edits, review, requests in flight; the service answers one at a time; an answer is heard or misses the view. |
| `Slice` | E `vertical_slice.py`, `spell_slice.py`, `spells/runtime.py` over `Combat` | One action per session command. A command is checked by several runtimes and keeps all their results or none, so it is one step over the encounter and the spell state. |
| `CombatProofs`, `CombatRefinement` | | Theorems about Combat; that Combat implements Encounter, and the history. |
| `SliceProofs`, `BridgeProofs`, `WorldProofs`, `SaveStoreProofs`, `SpatialProofs`, `CreatorProofs` | | Theorems about Slice, Bridge and Client, WorldBridge, SaveStore and SavePanel, Grid and Spatial, Characters and Creator. |
| `MCCombat`, `MCCombatHistory`, `MCSlice`, `MCBridge`, `MCClient`, `MCWorld`, `MCSpatial`, `MCCreator` | | Instances for TLC. |

Composition: `CombatHistory` extends `Combat`, which instantiates `Encounter` as
the specification it implements. `Slice` extends `Combat` too and uses its producers
of combatants and its turns. `Client` extends `Bridge`; `WorldBridge`
extends `World`, `SavePanel` extends `SaveStore`, `Spatial` extends `Grid` and
`Creator` extends `Characters`.

Some decisions a reader should know of:

* **Combat.** Attack rolls and damage dice reduce to an amount, a type and
  whether it was critical; the adjustment for immunity, resistance and
  vulnerability is computed. Conditions are a set of identifiers, of which
  `Unconscious` is kept in step with the life state as the code does.
* **Slice.** The grid is left out: an area may cover anybody and a strike or spell
  may reach anybody, so what the model allows includes what any map allows. A
  spell attack or save is the set of the lucky. Several changes of one
  command build on each other in a local encounter, so they are functions from
  combatants to combatants: each target of a spell for itself, and the running effects
  one after another, in any order (lexical by id in the code, unrelated to casts). A running
  effect carries the round of its cast, which the code does not keep.
* **Bridge.** The engine is the log of what it applied. Correlation ids are
  not modelled because the host echoes the request id. A deadline may pass at
  any moment. A host goes on reading what a lost connection still holds
  (`orphans`, of which only the commands matter), which is what makes a timed-out command
  apply.
* **Client.** The threaded scene load ends in a step of its own, so it can end
  in any shell state.
* **World.** Quests, flags, purse, stock and gear are modelled; the journal and
  the visited flags are not, nor are the RNG checkpoints. The model is played
  over a cut of the shipped campaign, to which the instance adds a reply that
  clears a flag a gate needs and a shop that trades a rewarded item, because
  the content allows both.
* **WorldBridge.** A fight is begun, then won, lost or abandoned for another;
  how it is fought is Combat's business. `records` are the characters the host knows,
  which `begin_encounter` needs of the whole party, and which a restart cuts down to the
  premade ones. `Offers...` are the entries the bridge computes for the client, written
  from that code and not from the guards; only for replies do the code's view and its
  handler share a test (`_choice_available`), and so do the model's. `won` and `kept`
  are histories nothing reads: the victories won in the campaign being played, and in
  the one that is saved.
* **Spatial.** The frontier is a set of entries taken in the order of the code's
  heap keys, which are total, so the search is deterministic. Distances are the
  grid's, and the trace is the code's integer walk with its tie rule. On the edge of a
  cone the code compares a rounded quotient with a rounded cosine, and what comes out
  depends on the size of the cells and the distance; which cells of the edge it lets in is a
  parameter (`letIn`), and properties quantify over it. Heights along a ray are exact
  where the code interpolates floats. A footprint is within a cell of its anchor
  (`Offsets`): two by two and three by three fit, larger ones do not.
* **Creator.** A draft is an identity, a set of choices and the ability scores;
  names, texts and appearance change nothing that is checked. The service keeps
  its records between connections; an answer carries what the view looks at.
  A level-up is offered, picked and sent in three steps.
* **SavePanel.** The panel's query is answered, fails or expires. Of the client's
  focus generation only "the answer is still wanted" is kept; one that came when
  it was not is remembered in `overlooked`, which nothing reads.
* **SaveStore.** A save is the number of the operation that wrote it; `Torn` is
  a file that was opened and not completely written. The ghost `faults` counts
  the failures and kills since the last save that was reported complete.

## Runs

| run | asks | distinct states |
|---|---|---|
| `combat_history` | Reactions, conditions, healing, plain and doubled damage, hits on the downed and lethal blows over whole turns: does everyone get a share (turns differ by at most one round, one reaction between turns), do life states and hit points agree, is death final, and does combat implement `Encounter`? | 1.6 M |
| `slice_fight` | Two casters who cast the five shipped spells on each other, strike, move and pass turns: do concentration, running effects, conditions and countdowns stay in step, and does a fight that ends have one winner? | 0.50 M |
| `slice_downed` | violation: see findings. | |
| `bridge_stream` | Reconnections, restarted engines, unasked events and another client, answers as events: do bridge and mirror, which filter the same batch against two copies of the sequence, stay in step, and is the mirror a true past? | 1.4 M |
| `client_play` | Two commands, deadlines, lost connections and restarted engines against the confirm button: one submission at a time, applied at most once, accepted only when it is shown, and nothing shown goes back. Every startup and every request settles (liveness). | 0.31 M, fair |
| `client_ready` | violation: see findings. | |
| `client_hang` | violation: see findings. | |
| `world_campaign` | A campaign in every order, with saves, loads and restarts: are victories earned, are trade and gear consistent, is every offer honoured? | 2.1 M |
| `world_restart` | violation: see findings. | |
| `save_panel` | Saves and loads with failing file operations, kills, lost connections and deadlines: is one fault survived, and does the panel free itself (liveness)? | 54 k, fair |
| `spatial_move` | Over many maps and two policies: is the search exact, do sight, areas and threats agree with their definitions, does no move end in a wall or on another? | 18 k, from 80 starts |
| `creator_form` | Edits, previews, creations and level-ups pressed at any time and more than once: is every record legal, and what is created what was reviewed? | 2.1 M |

What each property means is in the comment above it. The ones a reader may
want to argue about first:

* `TurnsAreShared` and `ReactionsAreRationed` relate ledgers over many steps to
  the rotation, the reset at a turn's beginning and the windows, none of which
  mention them.
* `MirrorIsGenuine`: what is shown of the running engine stands where that engine
  applied it, none of it missing, repeated or moved, and nothing of an older process
  follows it, also after any mixture of snapshots and event batches.
* `StartupEnds`: the shell does not stay between connecting and a scene, also if the engine
  process is replaced, unless the new process is behind what the mirror shows. Without the
  last clause it is `StartupSettles`, which is false (`client_hang`).
* `AppliedAtMostOnce`: a command retried after a timeout is in the log once,
  because its expected sequence is fixed when it is built.
* `ConcentrationAgrees`: the code keeps the rounds left of a concentration twice,
  in the caster and in the running effect, and brings them together only at a
  round's end; no sequence of casts, replacements and expiries leaves them apart.
* `ConditionsHaveASpell`: a condition a spell has laid on somebody goes with the last
  effect that could have laid it. The converse, that it stays while an effect runs,
  is false (see the observations).
* `EndedFightsHaveOneWinner`: the world bridge records a victory when the
  tactical session ends, and this is what entitles it to.
* `VictoriesAreEarned`: whatever gate is cleared, in play or in the saved game, a fight
  bound to it was won in the campaign as it is now, not in one a load or a restart has
  since undone.
* `VictoryCanBeRecorded`: once a bound fight is won, the world accepts the
  victory; so nothing the world allows during the fight may move the party or
  clear a flag the gate needs.
* `TradingNeverPays`: no sequence of buying, selling, interactions, saves and
  loads ends with more wealth than the rewards account for.
* `OffersAreHonoured`: whatever the bridge lists as available (travel, talk, each
  reply, interactions, encounters, trade, equipment, rest) is accepted by the handler;
  encounters as long as the host knows the party, for without that they are not (see the
  findings).
* `ThreatsAddUp`: whether a mover is threatened before a move, where it really stands, and
  after it differ by the entries and exits its event reports; so an accepted path must start
  where the mover is, and three ways of measuring reach must be one.
* `SearchIsExact`: the search stops at its first arrival and never takes up a cell
  it has not bettered; its answer is compared, for every map, mode and budget, with
  the cheapest legal walk, found ring by ring from the cells any path can reach.
* `SightIsMutual`: A sees B exactly when B sees A, although the trace is walked
  from one end and breaks its ties on the way.
* `AreasAgree`: on level ground the eight cones fill the sphere, opposite cones share only
  their origin and cones a right angle apart at most an edge that rounding let into both,
  and a line is what the sphere cuts out of its direction; four pieces of code with three
  ways of measuring.
* `RecordsAreLegal`, `BooksAgree`: whatever was sent, twice or with offers of an
  older level, a record's choices satisfy every rule that was checked when each was
  added, and its totals are those of its choices.
* `ReviewIsCurrent`: once every preview is in and the last was heard, Create is
  enabled in the review exactly if the draft is legal.
* `PanelFreesItself`: whatever a save or a load waits for comes to an end, unless
  an answer came when the focus had moved (see the observations).
* `OneFaultLosesNothing`: with at most one fault since the last reported save,
  that save or a newer one is readable.

Every property has a mutant in `PROJECT.json`: a plausible slip in one mapped
definition, written beside it (`Heuristic_Manhattan`, `Decided_AnyFight`, ...),
that the run detects.

## Bounds

* **Combat.** Two combatants, a character and a monster: rotation, skipping the
  dead, and both rules at zero hit points need two. Two hit points and an amount
  of 1, which the fighter's vulnerability to cold doubles and slashing leaves as it is, give
  damage that leaves, drops, kills outright who is down, and counts as one failed save or
  (critical) two, whatever was failed before; healing leaves a wound. Saves of 1, 10 and 20
  fail twice, succeed or wake. Two rounds let the rotation wrap. Movement is spent in
  `slice_fight`, and save tracks go over four rounds there; resistances, immunities and other
  amounts are met in the proofs, which are for any.
* **Slice.** A hero who makes death saves and a foe who does not, with 2 hit points,
  so that amounts 1 and 2 are a wound, a fall and an outright kill. Two slots of level 1
  for each: a concentration replaced, or two effects on one target. Four
  rounds outlast both durations (2 and 3). The book is the shipped one.
* **Bridge.** Four requests are a hello, a snapshot, a command and its retry (ids start
  again with a connection). One foreign command makes the client fall behind. Two engine processes are a
  restart; the first may have another client too. One orphan, a command of a lost connection,
  may still be read here, two in `client_play`. `MirrorsAreGenuine` and `MirrorsKeepUp` prove
  both properties of `bridge_stream` for any bounds. A known limit of the code shows here: the mirror
  outlives the engine and only sequence numbers are compared
  (`authoritative_mirror.gd:68`; nothing calls its `reset`), so what is shown may begin in
  an earlier process. No document says otherwise, and the host as it stands never pushes.
* **Client.** Two commands for the confirm button, two engine processes. `AcceptedIsShown` holds where a
  command is answered with a snapshot (the tactical sessions) and is checked there.
* **World.** Two areas, two conversations, two chained gates, one interaction,
  one item on sale for 28 coins, which are the 25 a party starts with and the 3 the
  interaction brings, and bought back for 4: a purse that is just enough, a stock that
  runs out, an item that is the last of its kind. One rest. The party is one hero the
  player created, so that a restart forgets its record.
* **SavePanel.** Four saves: one that is kept, two that go wrong, one that
  recovers. Faults, disconnects and loads are not bounded.
* **Spatial.** A 4 by 3 map, small enough to enumerate and large enough for a
  detour, a corner that is cut, a diagonal that alternates and a trace with a tie;
  a hero of one cell, an ogre of two, a pillar nobody moves. One cell of the middle and
  one beside it (or the same) are mud, wall, a step up or a tower. Budgets are two
  steps, or the speed: three or four. One move a session: the map after a move is one more map.
  Proposals start at the anchor or at a cell beside it. Rounding lets in no cell of the edge of a
  cone, or all; at multiples of five feet the code lets in none within 360 feet.
* **Creator.** One character, six choices on four steps, three levels: a
  requirement, a conflict that only the older choice declares, a group that
  must be met, training a level-up forgets, a bonus that carries a score past 30. Two
  requests out at once: a preview overtaken by an edit, a level-up pressed twice.

`CHECK_DEADLOCK FALSE` is used where the bounds stop the system: all rounds
played, all request ids used, the shell shut down.

## Fairness

* Requests: the bridge's `_process` expires what is past its deadline, so each
  pending request eventually expires unless it is answered (`WF` of `Expire`, per
  request).
* Startup: the transport reports that a connection was made or failed, and the
  engine's scene loader finishes or fails (`WF` of each), and the client's frame loop reads
  what has arrived (`WF` of `Hear`). Nothing is assumed of the host: it may never serve a
  request, and then the deadlines settle everything.
* Store and panel: the worker thread runs on and the deferred completion is called
  (`WF` of `FileStep \/ Signals`), and a query or a command is answered, refused or
  expired by the bridge's deadline (`WF` of `Answers`). Nothing is assumed of the
  player or the connection.

## Proofs

**Combat** (`CombatProofs`). For every set of actors, hit point maximum, damage
amount and roll, from `CombatAssumption` only:
`TypeOK`, `LifeMatchesHitPoints`, `DeathSavesOnlyWhileDying` are invariants and
`DeathIsFinal` holds of every step. `LifeMatchesHitPoints` is not inductive: that a
death save keeps the counters in 0..3 needs "fewer than three of each while
unconscious", that healing the dying clears them needs "no counters when
conscious", and that the dead stay at zero needs life and hit points to agree.
The inductive `IInv` is `TypeOK` and `Sound` for each combatant. The
functions that produce a combatant (damage, healing, save) each have a lemma, so
the step proof is one case per command that cites the lemma of its producer.

**Refinement** (`CombatRefinement`). Every step of Combat is a step of
`Encounter` or a stutter. The heart is `end_turn`: the k places it skips are
exactly the dead ones between the turn and the next living combatant,
and the round advances just when the index wraps.

**History** (`CombatRefinement`). The ledgers only watch, so a history is a Combat
behaviour (`HistoryIsCombat`) and implements `Encounter` too. `TurnsAreShared` and
`ReactionsAreRationed` are invariants for any number of combatants. The first needs
that nobody has had a turn before the encounter starts, and what the refinement shows of
`end_turn`: whoever it passes over is dead. The second is not inductive as it stands; what
is, is that the reactions of a combatant and the one it may still spend are together at
most one more than its turns (`Rationed`).

**Slice** (`SliceProofs`). For any casters, spell book, slots and amounts:

* `ConcentrationAgrees` and `DurationsFollowRounds`. The invariant joins the two to the
  shape of focus and running effects, because a new concentration is free of the old one
  only if whoever holds an effect is known to concentrate, and a caster's countdown
  follows the right effect only if it has one. Every command comes down to one
  of three changes: nothing, `Binding` (a cast) or `Ageing` (a round's end).
* `EndedFightsHaveOneWinner`, which needs nothing about spells at all.
* `SliceTypeOK` and `LifeMatchesHitPoints`, from Combat's invariant (`Sturdy`). At a
  round's end effects work one after another in any order, so what they
  leave behind is argued along the least effect that could leave something unsound.
* `ConditionsHaveASpell`, under `TimedConditions`: every spell that lays a condition has a
  duration. The five shipped ones have; one without would lay a condition no effect
  runs for, so the property is about the content too.

**Bridge and Client** (`BridgeProofs`). For any commands, any number of requests,
reconnections, engine processes and other clients, and whatever is pushed, lost
or expired: `MirrorIsGenuine`, `MirrorKeepsUp`, `AppliedAtMostOnce`, `OneConfirmAtATime`,
`ClientTypeOK` and `ShownNeverRegresses`. The layers of the invariant are:

* `BInv`, of the line: the entry of a command in the log is at the sequence the command
  expects, and every message on its way is part of what its process applied. From the
  first, a command is applied once; from the second, the mirror is genuine.
* `LInv`: request ids are not used twice on a connection, an answer fits the request it
  names, and a command was built on what was shown.
* `CInv`, of the client: a command on its way is the armed intent.
* `PInv`: where commands are answered with snapshots, what is accepted is shown.

A step of the client is a step of the line or none, so the line is proved once for both
specifications. `AcceptedIsShown` is proved for tactical hosts only, as it is checked:
an event answer may meet a gap in the mirror and be acknowledged unshown.

**World** (`WorldProofs`). For any content that `WorldAssumption` admits:
`WorldTypeOK`, `EquippedIsOwned`, `VictoryCanBeRecorded` and `VictoriesAreEarned`. Each
needs its counterpart for the saved game, because a load brings that back; the
gate of a bound fight stays open because every command that could close it, loads
included, is refused while the fight is bound, and a new process binds none.
`TradingNeverPays` is proved under `FairMarket`: a finite market in which no shop pays more
for an item than any shop takes for it. The shipped campaign satisfies it; the
constructors do not check it, and without it the property is false. Wealth is a sum over
the inventory, so its lemmas (a sum changes by what one item changes by) are proved by
least counterexample in the number of items.
`TalkCanBeLeft` is proved under `LeavableTalks`: every node belongs to one area and has a
way on (an answer nothing holds back, a conversation of its area that is always available,
or an interaction there that brings, for good, what an answer needs), and somebody in the
start area can always be talked to. The constructors check neither; the shipped campaign is
such content (the echo's answers wait for the survey lantern, which is in its own area
and whose flag nothing clears, and the warden can always be declined). The last
condition is needed because `world.start` takes the party to the start area without closing
a conversation. The invariant (`LInv`) is that the party is where it talks or where it
started, and that flags no answer clears stay, in play and in the saved game.

**SaveStore and SavePanel** (`SaveStoreProofs`). For any number of saves: no torn file is
read, and one fault loses nothing. `OneFaultLosesNothing` says nothing about the middle
of a replacement, so the invariant `Whereabouts` says for each stretch of it where
the reported save is: in the final file, then in the backup (with no fault so
far), then in neither file alone but as the newest save. `PanelUsesTheStore` shows that
every step of the panel is a step of the store or leaves it alone, which carries
both over to the panel.

**Spatial** (`SpatialProofs`). For maps of any size, any terrain, footprints within a cell
of the anchor, any speeds, budgets and policies:

* `SpatialTypeOK`: a map stays well placed and a search waits only on cells it has
  reached. The invariant (`SearchTyped`) adds that the actor fits wherever the search has
  been, without which step costs are not defined.
* `ThreatsAddUp`: an event keeps describing the map it led to (`EventInv`), a gap within
  reach and a threatened cell underfoot are one thing (`ReachIsTheZone`), and along any
  path the changes to yes less the changes to no are what the last differs from the first
  by (`ChangesAddUp`). The map before the move differs from it by where the mover stood
  alone (`OnlyTheMoverMoves`).
* `SightIsMutual`: the trace of `line_cells` never leaves the box between its ends nor
  strays from the straight line by half a step (`Near`); of two places in that
  band that are a step apart, each steps to the other's side (`StepStaysNear`), so the trace
  turned round is the same trace (`TraceIsSymmetric`). It also follows that the trace stays
  on the map, so the check the code makes for that never fails.
* `SearchIsExact`. The cells within reach are rings: ring n holds what a path of at most n
  cell sizes leads to, and rings grow and are closed under steps (`RingsGrow`,
  `RingsAreClosed`). That a search is exact when it ends is not inductive; the invariant
  (`Explored`) is that each known cell is in the ring of its cost and was come by from a
  cell known at that cost less the step, and either still waits at its cost or has all its
  steps taken. From that, whatever a ring holds is known at the ring's cost or a waiting cell
  stands before it whose priority is no higher (`RingsAreExplored`). The second cannot be
  when the goal is popped, because the estimate is a metric (`DistanceTriangle`) and never
  more than a step's cost (`StepCostInSteps`), both over heights and the grid at once. The path:
  costs fall strictly along `came_from`, so it leads back to the start within as many
  steps as there are cells, and its price telescopes (`PathLeadsBack`, `PathIsPaid`).
* `EveryPopCounts`: what is ahead of a search (the entries that wait, and every cell at less
  than it is known at) only shrinks, and by the popped entry each time. It is never more than
  one entry for each cell and cost (`SearchesAreShort`), so a search ends; that the loop is
  run until then is liveness and is not stated. What is pushed is also cheaper than any entry
  of its cell that waits (`Explored`), so none is pushed twice and the frontier may be a set.
* `AreasAgree`, from lemmas for any radius, any two cells and whatever of its edge
  a cone lets in: arithmetic on squares in eight directions. The alignments with two
  directions at a right angle have squares that add up to that of the distance on the flat
  (`ConesTurned`), so only a cell on the edge of both cones is half of it for each. The line
  needs `CellSize >= 4`: it is five feet wide whatever the
  cells are, so on smaller ones it takes in the neighbours of the cells ahead as well. The
  default of `SquareGridSpace` and both maps the game makes are five (`model.py:103`,
  `vertical_slice.py:666`, `tactical_templates.py:218`).

`SpatialAssumption` sets Python's `None` apart from numbers and cells, so that a search
without a goal is not one for a cell.

What `Grid` computes by a recursive function (the trace, a reconstructed path) is reached
by showing that the function exists (`IterationExists`) and following its values.

**Creator** (`CreatorProofs`). For any catalog and whatever drafts and level-ups are
sent: `RecordsAreLegal`, `BooksAgree` and `CharactersOnlyGrow` of the service
(`RecordsSpec`). The view over its connection implements that service
(`CreatorUsesTheService`), from the types of what is on the wire, so they hold of it too.
`ReviewIsCurrent` and `CreatorTypeOK` are of the view: the first follows from "the last
preview on its way in the review, or else the last one heard, is for the draft as it
is" (`Awaited`, `Settled`), with any number of requests on their way.

Only model-checked: all liveness (`StartupEnds`, `RequestsSettle`,
`PanelFreesItself`), which is beyond this prover, and `OffersAreHonoured`, which asks
what is `ENABLED`, a question it does not take either.

`DeathSavesOnlyWhileDying` and `EveryPopCounts` are proved and no run checks them.

## Findings

1. `client_ready`: the scene load ends without looking at what the shell has
   become. A connection lost during `LOADING` shows `ERROR`, and then `READY`
   with input enabled and no engine, contrary to `docs/GODOT_CLIENT_STATE_SHELL.md:146`.
2. `client_hang`: the mirror survives a reconnection and refuses a snapshot with
   a lower sequence, so after the engine process was replaced the shell waits in
   `SYNCHRONIZING` for a signal that is not emitted, with nothing pending and no
   retry button (`docs/GODOT_CLIENT_STATE_SHELL.md:138`).
3. `slice_downed`: the action list says End Turn is not available to a hero who is
   down (`vertical_slice.py:344`), although turns do pass to the downed, whose
   death saves are made there, and the engine would end such a turn. The button it
   disables is the only control that ends a turn
   (`apps/godot-client/ui/hud/tactical_hud.gd:107`), and
   `docs/V0.7_GODOT_VERTICAL_SLICE.md:125` promises engine-side availability.
4. `world_restart`: `begin_encounter` refuses a party the host has no record of
   (`world_bridge.py:582`), and `world.actions` shows the encounter as available with no
   reason against it. A restart knows only the premade heroes again (`world_bridge.py:658`), so
   a saved campaign with a hero the player created is loaded into that state; so is one
   started with a hero nobody made. `docs/V1.0_GODOT_RPG_COMPLETION.md:21-31` calls
   `world.actions` the authoritative source of the action column and its reasons.

Observations that no run reports, because no document contradicts them or
because one is enough:

* Two faults can lose a save: the backup that survived the first is deleted by
  the next save before it has been replaced.
* `begin_encounter` may replace a won fight that was not recorded; a fight in which
  nobody can attack or cast any more keeps the world frozen.
  `docs/V1.0_PLAYABLE_RPG.md` speaks of a fresh tactical session after a victory;
  the code makes it at the next begin, which comes to the same.
* A client behind the engine is told to "refresh and try again"
  (`client_bridge.py:87`) and nothing in it refreshes; a command that timed out
  after being applied is enough to get there.
* The damage of running effects at a round's end can decide a fight and nobody
  asks; if it kills everybody (as a cast may, too: the end is looked for, and one team must
  be left), no command is accepted again, though the round end
  is meant to work "without blocking combat progression"
  (`docs/V0.8_SPELL_RUNTIME.md:108`).
* Two effects may lay one condition on one target; when the first ends, the condition
  goes while the second still runs.
* A preview calls a damaging spell legal when a corpse is among its targets, and
  the cast refuses it.
* A concentration spell that touched nobody has no running effect, so the
  concentration never runs out by itself.
* `check_concentration` exists and is tested, and no session calls it: damage
  never breaks a concentration in play.
* Attacking oneself is accepted.
* A save panel whose snapshot (or its failure) arrives after the hovered actor, cell
  or another part of the focus has changed is not told: the client drops outcomes of
  an older generation, `_save_query_slot` stays set and the panel's buttons stay off
  until a disconnect. `docs/V1.0_GODOT_SAVE_LOAD.md` promises recovery for dropped
  connections only.
* `spatial/replay.py` takes no movement policy, so a session with another policy than the
  default cannot be reconstructed, which `docs/V0.6_SPATIAL_AUTHORITY.md:148` promises of
  `replay_spatial()` in general; no session uses another one.
* `find_actor_path` uses a given budget whatever the speed of the mode; cover takes the
  first ray that is free and so is not mutual between creatures of several cells;
  dead combatants go on blocking cells; a spell's point range ignores elevation; the revision a
  proposal was made for is recorded and not compared; `tactical.actions` and the
  attack preview do not look at conditions that block an action.
* Create stays enabled after a legal preview when the preview of a later draft is
  refused outright or its answer is dropped; the engine checks the draft again. A create
  whose answer is lost leaves a character the view cannot reach. An empty level-up that is
  confirmed twice levels twice. A level-up grants tags, spells and hit points but not the
  skills, items and ability bonuses of the choice, looks only at the conflicts the
  new choice declares, and is offered choices that conflict with each other.
* `world/serialization.py:53` names two exceptions that the module does not import:
  a load whose history raises there fails with a `NameError` in place of the refusal.

## Left out

* Framing, JSON, envelope validation, correlation ids: malformed input is refused
  before any state changes.
* Journal, visited flags, RNG checkpoints and the replayed history of a world
  save: the model saves whole states.
* `reload_tactical_scene`, which only tests call. The world view, which submits
  commands without the controller's lock and keeps only what it shows.
* Content is assumed to be sane: node ids unique, rewards not negative. That an item is not bought back for more than it is sold is assumed
  only where wealth is at stake (`FairMarket`), and that conversations have a way on
  only where leaving them is (`LeavableTalks`).
  `expected_sequence` only refuses, so World leaves it to Bridge.
* Before `world.start` the bridge lists interactions and encounters that the
  handlers refuse for want of a party; `OffersAreHonoured` starts with a party.
* A power failure that undoes file operations; other processes in the save
  directory.
* Of spells: definitions with several effects (none is shipped), selectors,
  `check_concentration` and `end_concentration` (no session calls them), the events
  of a cast, previews. Of the vertical slice: the grid, the path of a move, the
  window of recent events.
* Of the spatial authority: distances other than the grid's, cones of other widths
  than 90 degrees and directions off the compass, footprints of more than three by
  three, the serialized events. Of the
  creator: the catalog file, profile texts, schema pages, what `ActorState` refuses beyond the
  catalog's rules (two kits in one slot, an armour class above 1000), where the model admits
  more than the code. Of the save panel: labels and
  several slots.
* The rules runtime and the actors, which are values computed in one call; the dice and tick
  commands of the bare engine, which the client never sends; rules importer, scenes,
  camera, scripts and the editor add-on, which have no state the rest depends on.

## Plan

Order of work; what is done is marked.

1. Combat with its abstract encounter, history and proofs (done).
2. Bridge, then Client over it (done).
3. World, then WorldBridge over it (done).
4. SaveStore with its proofs (done).
5. `SavePanel` over `SaveStore` (done).
6. `Slice`: fights with spells over `Combat`, without the grid (done).
7. `SliceProofs`: concentration, durations, winners, types, hit points and conditions
   (done).
8. `Grid` and `Spatial`: search, sight and areas against reference definitions (done).
9. `Characters` and `Creator` (done).
10. `CreatorProofs`: the service for any draft (`RecordsSpec`), and the view over it (done).
11. `WorldProofs` (done).
12. `BridgeProofs`, for the line and the client (done).
13. `SpatialProofs`: well placed maps, threats, sight, the search and the areas (done).

Abstract specifications worth stating besides `Encounter`: a register that is
saved and read back (for SaveStore), and a log with a lagging reader (for Bridge).
