---------------------------- MODULE WorldBridge ----------------------------
(***************************************************************************)
(* The campaign behind the client bridge: WorldClientBridgeSession         *)
(* (world_bridge.py) passes world commands to the runtime of module World, *)
(* refuses most of them while a fight is on, binds a tactical fight to an  *)
(* encounter gate, records its victory, and saves and loads the campaign.  *)
(*                                                                         *)
(* The fight is reduced to its status and winner; Combat has the rest.     *)
(* Saved games are the one text the client keeps last.                     *)
(***************************************************************************)
EXTENDS World, FiniteSetsExt

CONSTANT Premade  \* the heroes _seed_premade_characters creates

VARIABLES
  active,   \* active_world_encounter_id
  fight,    \* the tactical session's [status, winner]
  records,  \* the heroes with a record in creator.records
  saved,    \* the snapshot the client saved last, or None
  won,      \* history: encounters whose fight the party has won in this campaign
  kept      \* history: what won was when the campaign was saved

session == <<active, fight, records>>
store   == <<saved, kept>>
vars    == <<world, session, store, won>>

Teams    == {"party", "foes", "demo"}
NewFight == [status |-> "active", winner |-> None]

BridgeInit ==
  /\ Init
  /\ active = None
  /\ fight = NewFight
  /\ records = Premade
  /\ saved = None
  /\ won = {} /\ kept = {}

-----------------------------------------------------------------------------
(* World commands.  BLOCKED_DURING_TACTICAL names all but world.start.     *)
Explores(command) == active = None /\ command /\ UNCHANGED <<session, store, won>>

(* No record is asked for of the heroes a campaign is started with.        *)
Starts  == \E p \in Parties : StartCampaign(p) /\ UNCHANGED <<session, store, won>>
Travels_DuringFights(a) == Travel(a) /\ UNCHANGED <<session, store, won>>   \* slip: not in the set
Travels(a) == Explores(Travel(a))
Talks(d)   == Explores(DialogueStart(d))
Answers(c) == Explores(DialogueChoose(c))
Rests      == Explores(Rest)
Buys(w, q)  == Explores(Buy(w, q))
Sells(w, q) == Explores(Sell(w, q))

(* _authoritative_interaction_bonus: the actor must be in the party; one   *)
(* without a record gets no bonus.                                         *)
Investigates(i) == party # {} /\ \E success \in BOOLEAN : Explores(ResolveInteraction(i, success))

(* _require_equipment_compatibility                                        *)
Equips(h, s, i) == s \in Fits[i] /\ Explores(Equip(h, s, i))

-----------------------------------------------------------------------------
(* Fights                                                                  *)

(* characters.create, at any time; Creator has what a record must be.      *)
CreatesHero(h) ==
  /\ h \notin records
  /\ records' = records \cup {h}
  /\ UNCHANGED <<world, active, fight, store, won>>

(* _require_gate_available, the bridge's own checks of a gate.             *)
GateAvailable(e) ==
  /\ Gates[e].area = area
  /\ e \notin cleared
  /\ Gates[e].needs \subseteq flags

(* _party_tactical_actors                                                  *)
PartyIsKnown == party # {} /\ party \subseteq records

(* A fight that has ended but is not recorded yet may be replaced.         *)
BeginEncounter(e) ==
  /\ GateAvailable(e)
  /\ active # None => fight.status = "ended"
  /\ PartyIsKnown
  /\ active' = e
  /\ fight' = NewFight
  /\ UNCHANGED <<world, records, store, won>>

(* The demonstration fight a host starts with is bound to no encounter.    *)
FightEnds(winner) ==
  /\ fight.status = "active"
  /\ (winner = "demo") = (active = None)
  /\ fight' = [status |-> "ended", winner |-> winner]
  /\ won' = IF winner = "party" THEN won \cup {active} ELSE won
  /\ UNCHANGED <<world, active, records, store>>

(* _require_tactical_victory, for a fight of this encounter that is over.  *)
Decided_AnyFight(e) == fight.status = "ended"         \* slip: the fight's encounter not compared
Decided(e) == active = e /\ fight.status = "ended"

RecordVictory(e) ==
  /\ Decided(e)
  /\ fight.winner = "party"
  /\ CompleteEncounter(e)
  /\ active' = None
  /\ UNCHANGED <<fight, records, store, won>>

(* A defeat is refused, and the refusal unbinds the fight.                 *)
RecordLoss(e) ==
  /\ Decided(e)
  /\ fight.winner # "party"
  /\ active' = None
  /\ UNCHANGED <<world, fight, records, store, won>>

-----------------------------------------------------------------------------
(* Saving, loading and the end of the process                              *)

(* world.save is a query and is answered at any time.                      *)
SaveWorld ==
  /\ saved' = Snapshot
  /\ kept' = won
  /\ UNCHANGED <<world, session, won>>

(* The characters are not part of a saved game.                            *)
LoadWorld ==
  /\ active = None
  /\ saved # None
  /\ Restore(saved)
  /\ won' = kept
  /\ UNCHANGED <<session, store>>

(* serve(): a new process starts with a new campaign, the demo fight and   *)
(* the premade heroes.                                                     *)
HostRestarts ==
  /\ Restore(NewGame)
  /\ active' = None
  /\ fight' = NewFight
  /\ records' = Premade
  /\ won' = {}
  /\ UNCHANGED store

(* WorldRuntime.handle_command                                             *)
Explore ==
  \/ Starts
  \/ \E a \in Area : Travels(a)
  \/ \E d \in Dialogue : Talks(d)
  \/ \E c \in Replies : Answers(c)
  \/ \E i \in Interaction : Investigates(i)
  \/ \E w \in Stock, q \in Quantities : Buys(w, q)
  \/ \E w \in Stock, q \in Quantities : Sells(w, q)
  \/ \E h \in Hero, s \in Slot, i \in Item : Equips(h, s, i)
  \/ Rests

Next ==
  \/ Explore
  \/ \E h \in Hero : CreatesHero(h)
  \/ \E e \in Encounter : BeginEncounter(e)
  \/ \E winner \in Teams : FightEnds(winner)
  \/ \E e \in Encounter : RecordVictory(e)
  \/ \E e \in Encounter : RecordLoss(e)
  \/ SaveWorld
  \/ LoadWorld
  \/ HostRestarts

Spec == BridgeInit /\ [][Next]_vars

-----------------------------------------------------------------------------
(* _world_actions_with_bridge_state: what the client shows as available    *)

OffersTravel(a) == a \in Actions.travel /\ talk = None /\ active = None

OffersDialogue(d) ==
  LET first == {c \in Replies : c.at = Dialogues[d].start} IN
  /\ active = None
  /\ Dialogues[d].area = area
  /\ first # {} => \E c \in first : c.needs \subseteq flags /\ c.forbids \cap flags = {}

OffersInteraction(i) == i \in Actions.interactions /\ i \notin solved /\ active = None

OffersEncounter(e) == e \in Actions.encounters /\ active = None

OffersRest == Actions.rest /\ active = None

OffersBuy(w) ==
  /\ w[1] \in Actions.shops /\ active = None
  /\ stock[w] = None \/ stock[w] > 0
  /\ Wares[w].buy <= currency

OffersSell(w) == w[1] \in Actions.shops /\ active = None /\ owned[w[2]] > 0

OffersSlots(i) == IF owned[i] >= 1 THEN Fits[i] ELSE {}

-----------------------------------------------------------------------------
(* Properties                                                              *)

States == [area : Area, party : Parties \cup {{}}, talk : Node \cup {None},
           flags : SUBSET Flag, quests : [DOMAIN Quests -> QuestStatus],
           solved : SUBSET Interaction, cleared : SUBSET Encounter,
           owned : [Item -> Nat], equipped : [Hero \X Slot -> Item \cup {None}],
           stock : [Stock -> Nat \cup {None}], currency : Nat, rests : Nat]

(* Every field keeps its shape.  Amounts never become negative: the        *)
(* integers restore_world_runtime would refuse in a saved game.            *)
WorldTypeOK ==
  /\ Snapshot \in States
  /\ active \in Encounter \cup {None}
  /\ fight \in [status : {"active", "ended"}, winner : Teams \cup {None}]
  /\ records \subseteq Hero \cup Premade
  /\ saved \in States \cup {None}
  /\ won \subseteq Encounter /\ kept \subseteq Encounter

(* Whatever happens between world.begin_encounter and the end of the       *)
(* fight, the gate the fight was begun for is still open, so a victory is  *)
(* never refused by the checks world.complete_encounter repeats.           *)
VictoryCanBeRecorded == active # None => party # {} /\ GateOpen(active)

(* Only an encounter whose own fight the party has won is cleared, and won *)
(* in this campaign: not through resent commands, other fights or defeats, *)
(* and not with a victory that a load or a restart has undone.             *)
VictoriesAreEarned == cleared \subseteq won

WornIsOwned(s) ==
  \A p \in Hero \X Slot : s.equipped[p] # None =>
    s.owned[s.equipped[p]] >= 1 /\ p[2] \in Fits[s.equipped[p]] /\ p[1] \in s.party

(* A hero wears only what the party still owns, in a slot it fits, after   *)
(* any order of trades, and so does every saved game.                      *)
EquippedIsOwned == WornIsOwned(Snapshot) /\ (saved # None => WornIsOwned(saved))

(* What an item fetches at the shop that pays most for it.                 *)
Resale(i) == Max({Wares[w].sell : w \in {v \in Stock : v[2] = i}} \cup {0})

Found(i) == Interactions[i].coins
            + IF Interactions[i].item = None THEN 0 ELSE Resale(Interactions[i].item)

(* Trading makes nobody rich: the purse and all that could be sold are     *)
(* never worth more than the 25 coins of the start and what interactions   *)
(* gave, counted once each, however often trades and saves are repeated.   *)
TradingNeverPays ==
  currency + MapThenSumSet(LAMBDA i : Resale(i) * owned[i], Item)
    <= Purse + MapThenSumSet(Found, solved)

(* The rows the client shows as available and the commands behind them are *)
(* computed by different code (but for replies, where both ask             *)
(* _choice_available): once the campaign is started, whatever is offered   *)
(* is accepted; a fight, if the host has the records of the party.         *)
OffersAreHonoured ==
  party # {} =>
    /\ \A a \in Area : OffersTravel(a) => ENABLED Travels(a)
    /\ \A d \in Dialogue : OffersDialogue(d) => ENABLED Talks(d)
    /\ \A i \in Interaction : OffersInteraction(i) => ENABLED Investigates(i)
    /\ party \subseteq records => \A e \in Encounter : OffersEncounter(e) => ENABLED BeginEncounter(e)
    /\ OffersRest /\ rests < MaxRests => ENABLED Rests
    /\ active = None => \A c \in DialogueView : ENABLED Answers(c)
    /\ \A w \in Stock : OffersBuy(w) => ENABLED Buys(w, 1)
    /\ \A w \in Stock : OffersSell(w) => ENABLED Sells(w, 1)
    /\ \A h \in party, i \in Item : active = None =>
         \A s \in OffersSlots(i) : ENABLED Equips(h, s, i)

(* What docs/V1.0_GODOT_RPG_COMPLETION.md says of world.actions without    *)
(* that condition: an encounter that is shown as available can be begun by *)
(* a party that has set out.  A restarted host has lost the characters of  *)
(* a party it loads.                                                       *)
OfferedEncountersBegin ==
  party # {} => \A e \in Encounter : OffersEncounter(e) => ENABLED BeginEncounter(e)

(* A conversation blocks travel and rest, so there is always a way on from *)
(* it: an answer, another conversation here, an interaction here that may  *)
(* bring the flag an answer needs, or the start of the campaign.           *)
TalkCanBeLeft ==
  talk # None /\ active = None =>
    \/ DialogueView # {}
    \/ \E d \in Dialogue : OffersDialogue(d)
    \/ \E i \in Interaction : OffersInteraction(i)
    \/ party = {}

=============================================================================
