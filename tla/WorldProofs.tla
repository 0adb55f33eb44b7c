---------------------------- MODULE WorldProofs ----------------------------
(***************************************************************************)
(* Proofs about WorldBridge, for any campaign content its assumptions      *)
(* admit: any areas, parties, dialogues, items, shops and encounter gates. *)
(*                                                                         *)
(* The inductive invariant is the type of the campaign and of the saved    *)
(* game, what is worn, the gate of the bound fight, and for the victories  *)
(* also what a saved game may bring back and what a fight that is over but *)
(* not yet recorded may add.  Two theorems are about content of a kind,    *)
(* named where it is needed: FairMarket and LeavableTalks.                 *)
(***************************************************************************)
EXTENDS WorldBridge, FiniteSetTheorems, WellFoundedInduction, TLAPS

(* The fields of a campaign, one by one: Snapshot is in States.            *)
Placed == area \in Area /\ party \in Parties \cup {{}} /\ talk \in Node \cup {None}
Progressed ==
  /\ flags \in SUBSET Flag /\ quests \in [DOMAIN Quests -> QuestStatus]
  /\ solved \in SUBSET Interaction /\ cleared \in SUBSET Encounter
Owned ==
  /\ owned \in [Item -> Nat] /\ equipped \in [Hero \X Slot -> Item \cup {None}]
  /\ stock \in [Stock -> Nat \cup {None}] /\ currency \in Nat /\ rests \in Nat
Bound ==
  /\ active \in Encounter \cup {None}
  /\ fight \in [status : {"active", "ended"}, winner : Teams \cup {None}]
  /\ records \subseteq Hero \cup Premade
  /\ won \subseteq Encounter /\ kept \subseteq Encounter
Stored == saved \in States \cup {None}

(* What is worn is owned, fits, and is on a hero of the party.             *)
Worn(item, has, members, p) == item # None => has[item] >= 1 /\ p[2] \in Fits[item] /\ p[1] \in members
Wearing == \A p \in Hero \X Slot : Worn(equipped[p], owned, party, p)
StoredWearing == saved # None => WornIsOwned(saved)

(* Who has won what: in the campaign, in the saved game by what was won    *)
(* when it was saved, and in a fight that is over but not recorded.        *)
Earned ==
  /\ cleared \subseteq won
  /\ saved # None => saved.cleared \subseteq kept
  /\ active # None /\ fight.status = "ended" /\ fight.winner = "party" => active \in won

Types == Placed /\ Progressed /\ Owned /\ Bound /\ Stored
IInv  == Types /\ Wearing /\ StoredWearing /\ VictoryCanBeRecorded /\ Earned

-----------------------------------------------------------------------------
(* A record of States has the types of its fields.                         *)
LEMMA StateFields ==
  ASSUME NEW s \in States
  PROVE  /\ s.area \in Area /\ s.party \in Parties \cup {{}} /\ s.talk \in Node \cup {None}
         /\ s.flags \in SUBSET Flag /\ s.quests \in [DOMAIN Quests -> QuestStatus]
         /\ s.solved \in SUBSET Interaction /\ s.cleared \in SUBSET Encounter
         /\ s.owned \in [Item -> Nat] /\ s.equipped \in [Hero \X Slot -> Item \cup {None}]
         /\ s.stock \in [Stock -> Nat \cup {None}] /\ s.currency \in Nat /\ s.rests \in Nat
BY DEF States

(* The snapshot of a campaign whose fields are typed is a state.           *)
LEMMA SnapshotIsState == Placed /\ Progressed /\ Owned => Snapshot \in States
BY DEF Placed, Progressed, Owned, Snapshot, States

(* What the snapshot of a campaign shows as worn is what is worn.          *)
LEMMA SnapshotWorn == Wearing <=> WornIsOwned(Snapshot)
BY DEF Wearing, Worn, WornIsOwned, Snapshot

(* A new campaign is a state in which nothing is worn or cleared.          *)
LEMMA NewGameIsState == NewGame \in States /\ WornIsOwned(NewGame) /\ NewGame.cleared = {}
<1>1. NewGame.area \in Area /\ NewGame.quests \in [DOMAIN Quests -> QuestStatus]
  BY WorldAssumption DEF NewGame, WellFormedCampaign
<1>2. NewGame.stock \in [Stock -> Nat \cup {None}]
  BY WorldAssumption DEF NewGame, WellFormedShops
<1>3. NewGame.owned \in [Item -> Nat] /\ NewGame.equipped \in [Hero \X Slot -> Item \cup {None}]
  BY DEF NewGame
<1>4. NewGame \in States
  BY <1>1, <1>2, <1>3 DEF NewGame, States, Purse
<1>5. WornIsOwned(NewGame)
  BY DEF WornIsOwned, NewGame
<1> QED BY <1>4, <1>5 DEF NewGame

(* Restoring a state brings back its types and what was worn in it.        *)
LEMMA RestoreTypes ==
  ASSUME NEW s \in States, WornIsOwned(s), Restore(s)
  PROVE  Placed' /\ Progressed' /\ Owned' /\ Wearing' /\ cleared' = s.cleared
<1>1. Placed' /\ Progressed' /\ Owned'
  BY StateFields DEF Restore, Placed, Progressed, Owned
<1>2. Wearing'
  BY DEF Restore, Wearing, Worn, WornIsOwned
<1> QED BY <1>1, <1>2 DEF Restore

-----------------------------------------------------------------------------
(* The commands of the campaign, one by one.                               *)
WorldSafe == Placed /\ Progressed /\ Owned /\ Wearing

LEMMA StartSafe ==
  ASSUME WorldSafe, NEW p \in Parties, StartCampaign(p)
  PROVE  WorldSafe' /\ cleared' = cleared
BY WorldAssumption DEF WorldSafe, Placed, Progressed, Owned, Wearing, Worn, StartCampaign, WellFormedCampaign,
                       progress, goods

LEMMA TravelSafe ==
  ASSUME WorldSafe, NEW a \in Area, Travel(a)
  PROVE  WorldSafe' /\ cleared' = cleared
BY DEF WorldSafe, Placed, Progressed, Owned, Wearing, Worn, Travel, progress, goods

LEMMA TalkSafe ==
  ASSUME WorldSafe, NEW d \in Dialogue, DialogueStart(d)
  PROVE  WorldSafe' /\ cleared' = cleared
<1>1. Dialogues[d].start \in Node
  BY WorldAssumption DEF WellFormedDialogues
<1> QED BY <1>1 DEF WorldSafe, Placed, Progressed, Owned, Wearing, Worn, DialogueStart, progress, goods

LEMMA ReplySafe ==
  ASSUME WorldSafe, NEW c \in Replies, DialogueChoose(c)
  PROVE  WorldSafe' /\ cleared' = cleared
<1>1. /\ c.next \in Node \cup {None} /\ c.sets \subseteq Flag
      /\ c.quest \in DOMAIN Quests \cup {None} /\ c.status \in QuestStatus
  <2>1. c \in [at : Node, next : Node \cup {None}, needs : SUBSET Flag,
               forbids : SUBSET Flag, sets : SUBSET Flag, clears : SUBSET Flag,
               quest : DOMAIN Quests \cup {None}, status : QuestStatus]
    BY WorldAssumption DEF WellFormedDialogues
  <2> QED BY <2>1
<1>2. quests' \in [DOMAIN Quests -> QuestStatus]
  BY <1>1 DEF WorldSafe, Progressed, DialogueChoose, ChoiceResolved
<1>3. Placed' /\ flags' \in SUBSET Flag
  BY <1>1 DEF WorldSafe, Placed, Progressed, DialogueChoose, ChoiceResolved
<1> QED BY <1>2, <1>3 DEF WorldSafe, Placed, Progressed, Owned, Wearing, Worn, DialogueChoose, goods

LEMMA InteractionSafe ==
  ASSUME WorldSafe, NEW i \in Interaction, NEW success \in BOOLEAN, ResolveInteraction(i, success)
  PROVE  WorldSafe' /\ cleared' = cleared
<1> DEFINE it == Interactions[i]
<1>1. /\ it.wins \subseteq Flag /\ it.fails \subseteq Flag
      /\ it.item \in Item \cup {None} /\ it.coins \in Nat
  BY WorldAssumption DEF WellFormedCampaign
<1>2. UNCHANGED <<area, party, talk, quests, cleared, equipped, stock, rests>>
  BY DEF ResolveInteraction, place
<1>3. flags' \in SUBSET Flag /\ solved' \in SUBSET Interaction /\ currency' \in Nat
  BY <1>1 DEF WorldSafe, Progressed, Owned, ResolveInteraction, InteractionResolved, Completed
<1>4. owned' \in [Item -> Nat] /\ \A j \in Item : owned'[j] >= owned[j]
  <2>1. CASE success /\ it.item # None
    <3>1. it.item \in Item /\ owned' = [owned EXCEPT ![it.item] = @ + 1]
      BY <1>1, <2>1 DEF ResolveInteraction, InteractionResolved
    <3> QED BY <3>1 DEF WorldSafe, Owned
  <2>2. CASE ~(success /\ it.item # None)
    <3>1. owned' = owned
      BY <2>2 DEF ResolveInteraction, InteractionResolved
    <3> QED BY <3>1 DEF WorldSafe, Owned
  <2> QED BY <2>1, <2>2
<1>5. Wearing'
  <2> SUFFICES ASSUME NEW p \in Hero \X Slot, equipped[p] # None
               PROVE  owned'[equipped[p]] >= 1 /\ p[2] \in Fits[equipped[p]] /\ p[1] \in party
    BY <1>2 DEF Wearing, Worn
  <2>1. equipped[p] \in Item /\ owned[equipped[p]] >= 1 /\ p[2] \in Fits[equipped[p]] /\ p[1] \in party
    BY DEF WorldSafe, Owned, Wearing, Worn
  <2> QED BY <2>1, <1>4 DEF WorldSafe, Owned
<1> QED BY <1>2, <1>3, <1>4, <1>5 DEF WorldSafe, Placed, Progressed, Owned

(* A trade that leaves no negative amount: what is sold out is taken off.  *)
LEMMA TradeSafe ==
  ASSUME WorldSafe, NEW w \in Stock, NEW more \in Int, NEW coins \in Int,
         owned[w[2]] + more >= 0, currency + coins >= 0, Traded(w[2], more, coins)
  PROVE  owned' \in [Item -> Nat] /\ currency' \in Nat /\ (party' = party => Wearing')
         /\ equipped' \in [Hero \X Slot -> Item \cup {None}]
<1> DEFINE item == w[2]
<1>1. item \in Item
  BY WorldAssumption DEF WellFormedShops
<1>2. owned' = [owned EXCEPT ![item] = owned[item] + more] /\ currency' = currency + coins
  BY DEF Traded
<1>3. owned' \in [Item -> Nat] /\ currency' \in Nat
  BY <1>1, <1>2 DEF WorldSafe, Owned
<1>4. equipped' = Unequipped(item, owned'[item])
  BY DEF Traded
<1>5. equipped' \in [Hero \X Slot -> Item \cup {None}]
  BY <1>4 DEF Unequipped, WorldSafe, Owned
<1>6. ASSUME party' = party PROVE Wearing'
  <2> SUFFICES ASSUME NEW p \in Hero \X Slot, equipped'[p] # None
               PROVE  owned'[equipped'[p]] >= 1 /\ p[2] \in Fits[equipped'[p]] /\ p[1] \in party
    BY <1>6 DEF Wearing, Worn
  <2>1. equipped'[p] = equipped[p] /\ (equipped[p] = item => owned'[item] > 0)
    BY <1>1, <1>3, <1>4 DEF Unequipped, WorldSafe, Owned
  <2>2. equipped[p] \in Item /\ owned[equipped[p]] >= 1 /\ p[2] \in Fits[equipped[p]] /\ p[1] \in party
    BY <2>1 DEF WorldSafe, Owned, Wearing, Worn
  <2>3. owned'[equipped[p]] >= 1
    BY <1>1, <1>2, <1>3, <2>1, <2>2 DEF WorldSafe, Owned
  <2> QED BY <2>1, <2>2, <2>3
<1> QED BY <1>3, <1>5, <1>6

LEMMA BuySafe ==
  ASSUME WorldSafe, NEW w \in Stock, NEW q \in Quantities, Buy(w, q)
  PROVE  WorldSafe' /\ cleared' = cleared
<1>1. q \in Nat \ {0} /\ w[2] \in Item /\ Wares[w].buy \in Nat
  BY WorldAssumption DEF WellFormedShops
<1>2. owned[w[2]] \in Nat /\ currency \in Nat /\ stock \in [Stock -> Nat \cup {None}]
  BY <1>1 DEF WorldSafe, Owned
<1>3. Wares[w].buy * q \in Nat
  BY <1>1
<1>4. Wares[w].buy * q <= currency /\ Traded(w[2], q, -(Wares[w].buy * q))
  BY DEF Buy, Affordable
<1>5. /\ q \in Int /\ -(Wares[w].buy * q) \in Int
      /\ owned[w[2]] + q >= 0 /\ currency + (-(Wares[w].buy * q)) >= 0
  BY <1>1, <1>2, <1>3, <1>4
<1>6. /\ owned' \in [Item -> Nat] /\ currency' \in Nat /\ (party' = party => Wearing')
      /\ equipped' \in [Hero \X Slot -> Item \cup {None}]
  BY <1>4, <1>5, TradeSafe
<1>7. stock' \in [Stock -> Nat \cup {None}]
  <2>1. CASE stock[w] = None
    BY <1>2, <2>1 DEF Buy
  <2>2. CASE stock[w] # None
    <3>1. stock[w] \in Nat /\ q <= stock[w] /\ stock' = [stock EXCEPT ![w] = stock[w] - q]
      BY <1>2, <2>2 DEF Buy
    <3>2. stock[w] - q \in Nat
      BY <1>1, <3>1
    <3> QED BY <1>2, <3>1, <3>2
  <2> QED BY <2>1, <2>2
<1>8. UNCHANGED <<area, party, talk, flags, quests, solved, cleared, rests>>
  BY DEF Buy, place, progress
<1> QED BY <1>6, <1>7, <1>8 DEF WorldSafe, Placed, Progressed, Owned

LEMMA SellSafe ==
  ASSUME WorldSafe, NEW w \in Stock, NEW q \in Quantities, Sell(w, q)
  PROVE  WorldSafe' /\ cleared' = cleared
<1>1. q \in Nat \ {0} /\ w[2] \in Item /\ Wares[w].sell \in Nat
  BY WorldAssumption DEF WellFormedShops
<1>2. owned[w[2]] \in Nat /\ currency \in Nat
  BY <1>1 DEF WorldSafe, Owned
<1>3. Wares[w].sell * q \in Nat
  BY <1>1
<1>4. q <= owned[w[2]] /\ Traded(w[2], -q, Wares[w].sell * q)
  BY DEF Sell
<1>5. /\ -q \in Int /\ Wares[w].sell * q \in Int
      /\ owned[w[2]] + (-q) >= 0 /\ currency + Wares[w].sell * q >= 0
  BY <1>1, <1>2, <1>3, <1>4
<1>6. /\ owned' \in [Item -> Nat] /\ currency' \in Nat /\ (party' = party => Wearing')
      /\ equipped' \in [Hero \X Slot -> Item \cup {None}]
  BY <1>4, <1>5, TradeSafe
<1>7. UNCHANGED <<area, party, talk, flags, quests, solved, cleared, stock, rests>>
  BY DEF Sell, place, progress
<1> QED BY <1>6, <1>7 DEF WorldSafe, Placed, Progressed, Owned

LEMMA EquipSafe ==
  ASSUME WorldSafe, NEW h \in Hero, NEW s \in Slot, NEW i \in Item, s \in Fits[i], Equip(h, s, i)
  PROVE  WorldSafe' /\ cleared' = cleared
<1>1. equipped' = [equipped EXCEPT ![<<h, s>>] = i] /\ h \in party /\ owned[i] >= 1
  BY DEF Equip
<1>2. UNCHANGED <<area, party, talk, flags, quests, solved, cleared, owned, stock, currency, rests>>
  BY DEF Equip, place, progress
<1>3. equipped' \in [Hero \X Slot -> Item \cup {None}]
  BY <1>1 DEF WorldSafe, Owned
<1>4. Wearing'
  <2> SUFFICES ASSUME NEW p \in Hero \X Slot PROVE Worn(equipped'[p], owned, party, p)
    BY <1>2 DEF Wearing
  <2>1. CASE p = <<h, s>>
    BY <1>1, <2>1 DEF Worn, WorldSafe, Owned
  <2>2. CASE p # <<h, s>>
    BY <1>1, <2>2 DEF Worn, WorldSafe, Owned, Wearing
  <2> QED BY <2>1, <2>2
<1> QED BY <1>2, <1>3, <1>4 DEF WorldSafe, Placed, Progressed, Owned

LEMMA RestSafe == WorldSafe /\ Rest => WorldSafe' /\ cleared' = cleared
BY DEF WorldSafe, Placed, Progressed, Owned, Wearing, Worn, Rest, place, progress, goods

(* No command of the campaign but world.complete_encounter, which only     *)
(* RecordVictory makes, changes what is cleared; and while a fight is      *)
(* bound, none gets through.                                               *)
LEMMA ExploreSafe ==
  ASSUME WorldSafe, Explore
  PROVE  /\ WorldSafe' /\ cleared' = cleared /\ UNCHANGED <<active, fight, records, saved, won, kept>>
         /\ active # None => party = {}
<1> USE DEF Explores, session, store
<1>1. CASE Starts
  <2>1. PICK p \in Parties : StartCampaign(p) /\ UNCHANGED <<session, store, won>>
    BY <1>1 DEF Starts
  <2> QED BY <2>1, StartSafe DEF StartCampaign
<1>2. ASSUME NEW a \in Area, Travels(a) PROVE WorldSafe' /\ cleared' = cleared /\ UNCHANGED <<session, store, won>> /\ active = None
  BY <1>2, TravelSafe DEF Travels
<1>3. ASSUME NEW d \in Dialogue, Talks(d) PROVE WorldSafe' /\ cleared' = cleared /\ UNCHANGED <<session, store, won>> /\ active = None
  BY <1>3, TalkSafe DEF Talks
<1>4. ASSUME NEW c \in Replies, Answers(c) PROVE WorldSafe' /\ cleared' = cleared /\ UNCHANGED <<session, store, won>> /\ active = None
  BY <1>4, ReplySafe DEF Answers
<1>5. ASSUME NEW i \in Interaction, Investigates(i) PROVE WorldSafe' /\ cleared' = cleared /\ UNCHANGED <<session, store, won>> /\ active = None
  BY <1>5, InteractionSafe DEF Investigates
<1>6. ASSUME NEW w \in Stock, NEW q \in Quantities, Buys(w, q) PROVE WorldSafe' /\ cleared' = cleared /\ UNCHANGED <<session, store, won>> /\ active = None
  BY <1>6, BuySafe DEF Buys
<1>7. ASSUME NEW w \in Stock, NEW q \in Quantities, Sells(w, q) PROVE WorldSafe' /\ cleared' = cleared /\ UNCHANGED <<session, store, won>> /\ active = None
  BY <1>7, SellSafe DEF Sells
<1>8. ASSUME NEW h \in Hero, NEW s \in Slot, NEW i \in Item, Equips(h, s, i)
      PROVE WorldSafe' /\ cleared' = cleared /\ UNCHANGED <<session, store, won>> /\ active = None
  BY <1>8, EquipSafe DEF Equips
<1>9. CASE Rests
  BY <1>9, RestSafe DEF Rests
<1> QED BY <1>1, <1>2, <1>3, <1>4, <1>5, <1>6, <1>7, <1>8, <1>9 DEF Explore

-----------------------------------------------------------------------------
(* A new process: a new campaign, the demonstration fight, nothing saved.  *)
LEMMA WorldInit == BridgeInit => IInv
<1> SUFFICES ASSUME BridgeInit PROVE IInv
  OBVIOUS
<1>1. Placed /\ Progressed /\ Owned
  BY NewGameIsState, StateFields DEF BridgeInit, Init, Placed, Progressed, Owned
<1>2. Wearing
  BY NewGameIsState DEF BridgeInit, Init, Wearing, Worn, WornIsOwned
<1>3. Bound /\ Stored /\ StoredWearing
  BY DEF BridgeInit, Bound, Stored, StoredWearing, NewFight
<1>4. VictoryCanBeRecorded /\ Earned
  BY NewGameIsState DEF BridgeInit, Init, VictoryCanBeRecorded, Earned
<1> QED BY <1>1, <1>2, <1>3, <1>4 DEF IInv, Types

(* No command, fight, saved game or restart breaks the invariant.          *)
LEMMA WorldStep == IInv /\ [Next]_vars => IInv'
<1> SUFFICES ASSUME IInv, [Next]_vars PROVE IInv'
  OBVIOUS
<1>0. WorldSafe /\ Bound /\ Stored /\ StoredWearing /\ VictoryCanBeRecorded /\ Earned
  BY DEF IInv, Types, WorldSafe
<1> DEFINE Goal == WorldSafe' /\ Bound' /\ Stored' /\ StoredWearing' /\ VictoryCanBeRecorded' /\ Earned'
<1> SUFFICES Goal
  BY DEF IInv, Types, WorldSafe
<1>1. CASE Explore
  <2>1. /\ WorldSafe' /\ cleared' = cleared /\ UNCHANGED <<active, fight, records, saved, won, kept>>
        /\ active # None => party = {}
    BY <1>0, <1>1, ExploreSafe
  <2>2. active' = None
    BY <1>0, <2>1 DEF VictoryCanBeRecorded
  <2>3. Bound' /\ Stored' /\ StoredWearing'
    BY <1>0, <2>1 DEF Bound, Stored, StoredWearing
  <2> QED BY <1>0, <2>1, <2>2, <2>3 DEF VictoryCanBeRecorded, Earned
<1>2. ASSUME NEW e \in Encounter, BeginEncounter(e) PROVE Goal
  <2>1. /\ UNCHANGED <<area, party, talk, flags, quests, solved, cleared, owned, equipped, stock, currency, rests>>
        /\ UNCHANGED <<records, saved, won, kept>> /\ active' = e /\ fight' = NewFight
        /\ party # {} /\ GateOpen(e)
    BY <1>2 DEF BeginEncounter, GateAvailable, GateOpen, PartyIsKnown, world, store, place, progress, goods
  <2>2. WorldSafe' /\ Stored' /\ StoredWearing'
    BY <1>0, <2>1 DEF WorldSafe, Placed, Progressed, Owned, Wearing, Worn, Stored, StoredWearing
  <2>3. Bound' /\ VictoryCanBeRecorded' /\ Earned'
    BY <1>0, <2>1 DEF Bound, NewFight, VictoryCanBeRecorded, GateOpen, Earned
  <2> QED BY <2>2, <2>3
<1>3. ASSUME NEW winner \in Teams, FightEnds(winner) PROVE Goal
  <2>1. /\ UNCHANGED <<area, party, talk, flags, quests, solved, cleared, owned, equipped, stock, currency, rests>>
        /\ UNCHANGED <<records, saved, kept, active>> /\ fight' = [status |-> "ended", winner |-> winner]
        /\ won' = IF winner = "party" THEN won \cup {active} ELSE won
    BY <1>3 DEF FightEnds, world, store, place, progress, goods
  <2>2. WorldSafe' /\ Stored' /\ StoredWearing' /\ VictoryCanBeRecorded'
    BY <1>0, <2>1 DEF WorldSafe, Placed, Progressed, Owned, Wearing, Worn, Stored, StoredWearing,
                      VictoryCanBeRecorded, GateOpen
  <2>3. winner = "party" => active \in Encounter
    BY <1>0, <1>3 DEF FightEnds, Bound
  <2>4. won \subseteq won' /\ won' \subseteq Encounter /\ (winner = "party" => active \in won')
    BY <1>0, <2>1, <2>3 DEF Bound
  <2>5. Bound'
    BY <1>0, <2>1, <2>4 DEF Bound
  <2>6. Earned'
    BY <1>0, <2>1, <2>4 DEF Earned
  <2> QED BY <2>2, <2>5, <2>6
<1>4. ASSUME NEW e \in Encounter, RecordVictory(e) PROVE Goal
  <2>1. /\ UNCHANGED <<area, party, talk, quests, solved, owned, equipped, stock, currency, rests>>
        /\ UNCHANGED <<records, saved, kept, fight, won>> /\ active' = None
        /\ cleared' = cleared \cup {e} /\ flags' = flags \cup Gates[e].sets
        /\ active = e /\ fight.status = "ended" /\ fight.winner = "party"
    BY <1>4 DEF RecordVictory, CompleteEncounter, Decided, store, place, goods
  <2>2. Gates[e].sets \subseteq Flag
    BY WorldAssumption DEF WellFormedCampaign
  <2>3. WorldSafe' /\ Stored' /\ StoredWearing' /\ VictoryCanBeRecorded' /\ Bound'
    BY <1>0, <2>1, <2>2 DEF WorldSafe, Placed, Progressed, Owned, Wearing, Worn, Stored, StoredWearing,
                      VictoryCanBeRecorded, Bound
  <2>4. e # None
    BY WorldAssumption
  <2>5. Earned'
    BY <1>0, <2>1, <2>4 DEF Earned
  <2> QED BY <2>3, <2>5
<1>5. ASSUME NEW e \in Encounter, RecordLoss(e) PROVE Goal
  BY <1>0, <1>5 DEF RecordLoss, world, store, place, progress, goods, WorldSafe, Placed, Progressed, Owned, Wearing, Worn,
                    Stored, StoredWearing, VictoryCanBeRecorded, Bound, Earned
<1>6. CASE SaveWorld
  <2>1. /\ UNCHANGED <<area, party, talk, flags, quests, solved, cleared, owned, equipped, stock, currency, rests>>
        /\ UNCHANGED <<active, fight, records, won>> /\ saved' = Snapshot /\ kept' = won
    BY <1>6 DEF SaveWorld, world, session, place, progress, goods
  <2>2. Snapshot \in States /\ WornIsOwned(Snapshot) /\ Snapshot.cleared = cleared
    BY <1>0, SnapshotIsState, SnapshotWorn DEF WorldSafe, Snapshot
  <2>3. Stored' /\ StoredWearing'
    BY <2>1, <2>2 DEF Stored, StoredWearing
  <2>4. WorldSafe' /\ VictoryCanBeRecorded' /\ Bound'
    BY <1>0, <2>1 DEF WorldSafe, Placed, Progressed, Owned, Wearing, Worn, VictoryCanBeRecorded, GateOpen, Bound
  <2>5. Earned'
    BY <1>0, <2>1, <2>2 DEF Earned
  <2> QED BY <2>3, <2>4, <2>5
<1>7. CASE LoadWorld
  <2>1. /\ active = None /\ Restore(saved) /\ saved # None /\ won' = kept
        /\ UNCHANGED <<active, fight, records, saved, kept>>
    BY <1>7 DEF LoadWorld, session, store
  <2>2. saved \in States /\ WornIsOwned(saved)
    BY <1>0, <2>1 DEF Stored, StoredWearing
  <2>3. WorldSafe' /\ cleared' = saved.cleared
    BY <2>1, <2>2, RestoreTypes DEF WorldSafe
  <2>4. Stored' /\ StoredWearing' /\ Bound' /\ VictoryCanBeRecorded'
    BY <1>0, <2>1 DEF Stored, StoredWearing, Bound, VictoryCanBeRecorded
  <2>5. Earned'
    BY <1>0, <2>1, <2>3 DEF Earned
  <2> QED BY <2>3, <2>4, <2>5
<1>8. CASE HostRestarts
  <2>1. /\ Restore(NewGame) /\ active' = None /\ fight' = NewFight /\ records' = Premade
        /\ won' = {} /\ UNCHANGED <<saved, kept>>
    BY <1>8 DEF HostRestarts, store
  <2>2. WorldSafe' /\ cleared' = {}
    BY <2>1, NewGameIsState, RestoreTypes DEF WorldSafe
  <2>3. Stored' /\ StoredWearing' /\ Bound' /\ VictoryCanBeRecorded'
    BY <1>0, <2>1 DEF Stored, StoredWearing, Bound, VictoryCanBeRecorded, NewFight
  <2>4. Earned'
    BY <1>0, <2>1, <2>2 DEF Earned
  <2> QED BY <2>2, <2>3, <2>4
<1>9. CASE UNCHANGED vars
  <2>1. /\ UNCHANGED <<area, party, talk, flags, quests, solved, cleared, owned, equipped, stock, currency, rests>>
        /\ UNCHANGED <<active, fight, records, saved, won, kept>>
    BY <1>9 DEF vars, world, session, store, place, progress, goods
  <2>2. WorldSafe' /\ Stored' /\ StoredWearing'
    BY <1>0, <2>1 DEF WorldSafe, Placed, Progressed, Owned, Wearing, Worn, Stored, StoredWearing
  <2>3. Bound' /\ VictoryCanBeRecorded' /\ Earned'
    BY <1>0, <2>1 DEF Bound, VictoryCanBeRecorded, GateOpen, Earned
  <2> QED BY <2>2, <2>3
<1>10. ASSUME NEW h \in Hero, CreatesHero(h) PROVE Goal
  <2>1. /\ UNCHANGED <<area, party, talk, flags, quests, solved, cleared, owned, equipped, stock, currency, rests>>
        /\ UNCHANGED <<active, fight, saved, won, kept>> /\ records' = records \cup {h}
    BY <1>10 DEF CreatesHero, world, store, place, progress, goods
  <2>2. WorldSafe' /\ Stored' /\ StoredWearing'
    BY <1>0, <2>1 DEF WorldSafe, Placed, Progressed, Owned, Wearing, Worn, Stored, StoredWearing
  <2>3. Bound' /\ VictoryCanBeRecorded' /\ Earned'
    BY <1>0, <2>1 DEF Bound, VictoryCanBeRecorded, GateOpen, Earned
  <2> QED BY <2>2, <2>3
<1> HIDE DEF Goal
<1> QED BY <1>1, <1>2, <1>3, <1>4, <1>5, <1>6, <1>7, <1>8, <1>9, <1>10 DEF Next

(* The invariant of every campaign, whatever its content.                  *)
THEOREM WorldInvariant == Spec => []IInv
BY WorldInit, WorldStep, PTL DEF Spec

(* Every field keeps its shape and no amount becomes negative: what        *)
(* restore_world_runtime asks of a saved game holds of every snapshot.     *)
THEOREM WorldIsTyped == Spec => []WorldTypeOK
<1>1. IInv => WorldTypeOK
  BY SnapshotIsState DEF IInv, Types, WorldTypeOK, Bound, Stored
<1> QED BY <1>1, WorldInvariant, PTL

(* The gate of a bound fight stays open until the fight is recorded, so a  *)
(* victory is never refused by the checks complete_encounter repeats.      *)
THEOREM VictoriesCanBeRecorded == Spec => []VictoryCanBeRecorded
<1>1. IInv => VictoryCanBeRecorded
  BY DEF IInv
<1> QED BY <1>1, WorldInvariant, PTL

(* No resent command, other fight, saved game or restart clears an         *)
(* encounter whose own fight the party has not won.                        *)
THEOREM OnlyWonEncountersAreCleared == Spec => []VictoriesAreEarned
<1>1. IInv => VictoriesAreEarned
  BY DEF IInv, Earned, VictoriesAreEarned
<1> QED BY <1>1, WorldInvariant, PTL

(* Nothing is worn, or saved as worn, that the party has sold or that does *)
(* not fit where it is worn.                                               *)
THEOREM NothingSoldIsWorn == Spec => []EquippedIsOwned
<1>1. IInv => EquippedIsOwned
  BY SnapshotWorn DEF IInv, StoredWearing, EquippedIsOwned
<1> QED BY <1>1, WorldInvariant, PTL
-----------------------------------------------------------------------------
(* Sums over finite sets.  The property adds up what is owned and what was *)
(* found with a fold that takes the elements in an order it chooses; what  *)
(* holds of such a sum is shown by a least counterexample in the size of   *)
(* the set.                                                                *)
LEMMA LeastOf ==
  ASSUME NEW S \in SUBSET Nat, S # {}
  PROVE  \E m \in S : \A k \in S : m <= k
<1>1. PICK m \in S : \A k \in S : ~(<<k, m>> \in OpToRel(<, Nat))
  BY NatLessThanWellFounded, WFMin, Zenon
<1>2. ASSUME NEW k \in S PROVE m <= k
  <2>1. ~(k < m)
    BY <1>1 DEF OpToRel
  <2> QED BY <2>1
<1> QED BY <1>2

Pick(s) == CHOOSE x \in s : TRUE

(* The sum of f over every subset of D, as the fold computes it.           *)
IsTotal(F, f, D) ==
  F = [s \in D |-> IF s = {} THEN 0 ELSE f[Pick(s)] + F[s \ {Pick(s)}]]

Small(S, k) == {s \in SUBSET S : Cardinality(s) <= k}

LEMMA PickLeaves ==
  ASSUME NEW s, IsFiniteSet(s), s # {}
  PROVE  /\ Pick(s) \in s /\ IsFiniteSet(s \ {Pick(s)})
         /\ Cardinality(s) \in Nat /\ Cardinality(s \ {Pick(s)}) \in Nat
         /\ Cardinality(s \ {Pick(s)}) = Cardinality(s) - 1
<1>1. Pick(s) \in s
  BY DEF Pick
<1> QED BY <1>1, FS_RemoveElement, FS_CardinalityType

LEMMA TotalExists ==
  ASSUME NEW S, IsFiniteSet(S), NEW f
  PROVE  \E F : IsTotal(F, f, SUBSET S)
<1> DEFINE Has(k) == \E F : IsTotal(F, f, Small(S, k))
           bad    == {k \in Nat : ~Has(k)}
<1>1. \A k \in Nat : Has(k)
  <2> SUFFICES ASSUME bad # {} PROVE FALSE
    OBVIOUS
  <2>1. PICK m \in bad : \A k \in bad : m <= k
    BY LeastOf
  <2>2. m \in Nat /\ ~Has(m)
    OBVIOUS
  <2>3. \A s \in Small(S, m) : /\ s \in SUBSET S /\ IsFiniteSet(s)
                               /\ Cardinality(s) \in Nat /\ Cardinality(s) <= m
    BY FS_Subset, FS_CardinalityType DEF Small
  <2>4. m # 0
    <3> SUFFICES ASSUME m = 0 PROVE FALSE
      OBVIOUS
    <3> DEFINE F == [s \in Small(S, 0) |-> 0]
    <3>1. \A s \in Small(S, 0) : s = {}
      BY <2>3, FS_EmptySet
    <3>2. IsTotal(F, f, Small(S, 0))
      BY <3>1 DEF IsTotal
    <3> QED BY <2>2, <3>2
  <2>5. Has(m - 1)
    <3>1. m - 1 \in Nat /\ ~(m <= m - 1)
      BY <2>2, <2>4
    <3> QED BY <2>1, <3>1
  <2>6. PICK G : IsTotal(G, f, Small(S, m - 1))
    BY <2>5
  <2> DEFINE Step(H, s) == f[Pick(s)] + H[s \ {Pick(s)}]
             F == [s \in Small(S, m) |-> IF s = {} THEN 0 ELSE Step(G, s)]
  <2>7. ASSUME NEW s \in Small(S, m), s # {} PROVE F[s \ {Pick(s)}] = G[s \ {Pick(s)}]
    <3> DEFINE r == s \ {Pick(s)}
    <3>1. s \in SUBSET S /\ IsFiniteSet(s) /\ Cardinality(s) \in Nat /\ Cardinality(s) <= m
      BY <2>3, <2>7
    <3>2. Cardinality(r) \in Nat /\ Cardinality(r) = Cardinality(s) - 1
      BY <3>1, <2>7, PickLeaves
    <3>3. Cardinality(r) \in Nat /\ Cardinality(r) <= m - 1 /\ r \in SUBSET S
      BY <2>2, <3>1, <3>2
    <3>4. r \in Small(S, m - 1) /\ r \in Small(S, m)
      BY <2>2, <3>3 DEF Small
    <3>5. G[r] = IF r = {} THEN 0 ELSE Step(G, r)
      BY <2>6, <3>4 DEF IsTotal
    <3>6. F[r] = IF r = {} THEN 0 ELSE Step(G, r)
      BY <3>4
    <3> QED BY <3>5, <3>6
  <2>8. \A s \in Small(S, m) : (IF s = {} THEN 0 ELSE Step(G, s)) = IF s = {} THEN 0 ELSE Step(F, s)
    BY <2>7
  <2>9. F = [s \in Small(S, m) |-> IF s = {} THEN 0 ELSE Step(F, s)]
    BY <2>8
  <2>10. IsTotal(F, f, Small(S, m))
    BY <2>9 DEF IsTotal
  <2> QED BY <2>2, <2>10
<1>2. Cardinality(S) \in Nat /\ Small(S, Cardinality(S)) = SUBSET S
  BY FS_CardinalityType, FS_Subset DEF Small
<1> QED BY <1>1, <1>2

(* Equal terms have equal sums, also as parts of different sets.           *)
LEMMA TotalsAgree ==
  ASSUME NEW S, NEW T, NEW f, NEW g, NEW F, NEW G, IsTotal(F, f, SUBSET S), IsTotal(G, g, SUBSET T),
         NEW u, u \subseteq S, u \subseteq T, IsFiniteSet(u), \A x \in u : f[x] = g[x]
  PROVE  F[u] = G[u]
<1> DEFINE bad == {k \in Nat : \E s \in SUBSET u : IsFiniteSet(s) /\ Cardinality(s) = k /\ F[s] # G[s]}
<1> SUFFICES ASSUME F[u] # G[u] PROVE FALSE
  OBVIOUS
<1>1. Cardinality(u) \in Nat /\ Cardinality(u) \in bad
  BY FS_CardinalityType
<1>2. PICK m \in bad : \A k \in bad : m <= k
  BY <1>1, LeastOf
<1>3. PICK s \in SUBSET u : IsFiniteSet(s) /\ Cardinality(s) = m /\ F[s] # G[s]
  BY <1>2
<1>4. /\ F[s] = IF s = {} THEN 0 ELSE f[Pick(s)] + F[s \ {Pick(s)}]
      /\ G[s] = IF s = {} THEN 0 ELSE g[Pick(s)] + G[s \ {Pick(s)}]
  BY DEF IsTotal
<1>5. s # {}
  BY <1>3, <1>4
<1>6. /\ Pick(s) \in s /\ IsFiniteSet(s \ {Pick(s)})
      /\ Cardinality(s) \in Nat /\ Cardinality(s \ {Pick(s)}) \in Nat
      /\ Cardinality(s \ {Pick(s)}) = Cardinality(s) - 1
  BY <1>3, <1>5, PickLeaves
<1>7. F[s \ {Pick(s)}] = G[s \ {Pick(s)}]
  <2> SUFFICES ASSUME F[s \ {Pick(s)}] # G[s \ {Pick(s)}] PROVE FALSE
    OBVIOUS
  <2>1. Cardinality(s \ {Pick(s)}) \in bad
    BY <1>6
  <2>2. m <= Cardinality(s \ {Pick(s)})
    BY <1>2, <2>1
  <2> QED BY <1>3, <1>6, <2>2
<1>8. f[Pick(s)] = g[Pick(s)]
  BY <1>6
<1> QED BY <1>3, <1>4, <1>5, <1>7, <1>8

(* Any element may be taken out first.                                     *)
LEMMA TotalSplits ==
  ASSUME NEW S, IsFiniteSet(S), NEW f, \A x \in S : f[x] \in Nat,
         NEW F, IsTotal(F, f, SUBSET S), NEW u \in SUBSET S
  PROVE  F[u] \in Nat /\ \A x \in u : F[u] = f[x] + F[u \ {x}]
<1> DEFINE Splits(s) == F[s] \in Nat /\ \A x \in s : F[s] = f[x] + F[s \ {x}]
           bad == {k \in Nat : \E s \in SUBSET S : Cardinality(s) = k /\ ~Splits(s)}
<1> SUFFICES ASSUME ~Splits(u) PROVE FALSE
  OBVIOUS
<1>1. \A s \in SUBSET S : IsFiniteSet(s) /\ Cardinality(s) \in Nat
  BY FS_Subset, FS_CardinalityType
<1>2. Cardinality(u) \in bad
  BY <1>1
<1>3. PICK m \in bad : \A k \in bad : m <= k
  BY <1>2, LeastOf
<1>4. PICK s \in SUBSET S : Cardinality(s) = m /\ ~Splits(s)
  BY <1>3
<1>5. \A r \in SUBSET S : F[r] = IF r = {} THEN 0 ELSE f[Pick(r)] + F[r \ {Pick(r)}]
  BY DEF IsTotal
<1>6. s # {}
  <2> SUFFICES ASSUME s = {} PROVE FALSE
    OBVIOUS
  <2>1. F[s] = 0
    BY <1>5
  <2> QED BY <1>4, <2>1
<1> DEFINE c == Pick(s)
<1>7. ASSUME NEW x \in s PROVE s \ {x} \in SUBSET S /\ Splits(s \ {x})
  <2>1. Cardinality(s \ {x}) = Cardinality(s) - 1 /\ Cardinality(s \ {x}) \in Nat
    BY <1>1, <1>7, FS_RemoveElement
  <2> SUFFICES ASSUME ~Splits(s \ {x}) PROVE FALSE
    OBVIOUS
  <2>2. Cardinality(s \ {x}) \in bad
    BY <2>1
  <2>3. m <= Cardinality(s \ {x})
    BY <1>3, <2>2
  <2> QED BY <1>1, <1>4, <2>1, <2>3
<1>8. c \in s
  BY <1>6 DEF Pick
<1>9. F[s] = f[c] + F[s \ {c}]
  BY <1>5, <1>6
<1>10. F[s] \in Nat
  <2>1. f[c] \in Nat /\ F[s \ {c}] \in Nat
    BY <1>7, <1>8
  <2> QED BY <1>9, <2>1
<1>11. ASSUME NEW x \in s PROVE F[s] = f[x] + F[s \ {x}]
  <2>1. CASE x = c
    BY <1>9, <2>1
  <2>2. CASE x # c
    <3>1. F[s \ {c}] = f[x] + F[(s \ {c}) \ {x}]
      BY <1>7, <1>8, <2>2
    <3>2. F[s \ {x}] = f[c] + F[(s \ {x}) \ {c}]
      BY <1>7, <1>8, <2>2
    <3>3. (s \ {c}) \ {x} = (s \ {x}) \ {c}
      OBVIOUS
    <3>4. F[(s \ {c}) \ {x}] \in Nat
      <4>1. s \ {c} \in SUBSET S /\ x \in s \ {c}
        BY <1>8, <2>2
      <4>2. Cardinality((s \ {c}) \ {x}) = Cardinality(s \ {c}) - 1
        BY <1>1, <4>1, FS_RemoveElement
      <4>3. Cardinality(s \ {c}) = Cardinality(s) - 1
        BY <1>1, <1>8, FS_RemoveElement
      <4>4. (s \ {c}) \ {x} \in SUBSET S
        OBVIOUS
      <4> SUFFICES ASSUME F[(s \ {c}) \ {x}] \notin Nat PROVE FALSE
        OBVIOUS
      <4>5. Cardinality((s \ {c}) \ {x}) \in bad
        BY <1>1, <4>4
      <4>6. m <= Cardinality((s \ {c}) \ {x})
        BY <1>3, <4>5
      <4> QED BY <1>1, <1>4, <4>2, <4>3, <4>4, <4>6
    <3>5. f[x] \in Nat /\ f[c] \in Nat
      BY <1>8
    <3> DEFINE rest == F[(s \ {c}) \ {x}]
    <3>6. F[s] = f[c] + (f[x] + rest) /\ F[s \ {x}] = f[c] + rest
      BY <1>9, <3>1, <3>2, <3>3
    <3> HIDE DEF rest, c
    <3>7. rest \in Nat
      BY <3>4 DEF rest
    <3>8. F[s] = f[x] + (f[c] + rest)
      BY <3>5, <3>6, <3>7
    <3> QED BY <3>6, <3>8
  <2> QED BY <2>1, <2>2
<1> QED BY <1>4, <1>10, <1>11

-----------------------------------------------------------------------------
(* Wealth.  What is owned, at what the best shop pays for it, and what the *)
(* interactions of a set have given.                                       *)
Worth(has)  == MapThenSumSet(LAMBDA i : Resale(i) * has[i], Item)
Gains(done) == MapThenSumSet(Found, done)

(* Content with finite lists, in which no shop pays more for an item than  *)
(* any shop takes for it.  The constructors do not check prices; the       *)
(* shipped campaign is such content.                                       *)
FairMarket ==
  /\ IsFiniteSet(Item) /\ IsFiniteSet(Stock) /\ IsFiniteSet(Interaction)
  /\ \A w, v \in Stock : w[2] = v[2] => Wares[v].sell <= Wares[w].buy

(* A finite price list has a highest price.                                *)
LEMMA HighestPrice ==
  ASSUME NEW W \in SUBSET Stock, IsFiniteSet(W)
  PROVE  \E m \in {Wares[w].sell : w \in W} \cup {0} :
           \A n \in {Wares[w].sell : w \in W} \cup {0} : m >= n
<1> DEFINE Prices(V) == {Wares[w].sell : w \in V} \cup {0}
           Tops(V) == \E m \in Prices(V) : \A n \in Prices(V) : m >= n
           bad == {k \in Nat : \E V \in SUBSET W : Cardinality(V) = k /\ ~Tops(V)}
<1> SUFFICES ASSUME ~Tops(W) PROVE FALSE
  OBVIOUS
<1>1. \A V \in SUBSET W : IsFiniteSet(V) /\ Cardinality(V) \in Nat
  BY FS_Subset, FS_CardinalityType
<1>2. Cardinality(W) \in bad
  BY <1>1
<1>3. PICK k \in bad : \A j \in bad : k <= j
  <2>1. bad \in SUBSET Nat /\ bad # {}
    BY <1>2
  <2> HIDE DEF bad
  <2> QED BY <2>1, LeastOf
<1>4. PICK V \in SUBSET W : Cardinality(V) = k /\ ~Tops(V)
  BY <1>3
<1>5. V # {}
  <2> SUFFICES ASSUME V = {} PROVE FALSE
    OBVIOUS
  <2>1. Prices(V) = {0}
    OBVIOUS
  <2> QED BY <1>4, <2>1
<1>6. PICK w \in V : TRUE
  BY <1>5
<1>7. Tops(V \ {w})
  <2>1. Cardinality(V \ {w}) = Cardinality(V) - 1 /\ Cardinality(V \ {w}) \in Nat
    BY <1>1, FS_RemoveElement
  <2> SUFFICES ASSUME ~Tops(V \ {w}) PROVE FALSE
    OBVIOUS
  <2>2. Cardinality(V \ {w}) \in bad
    <3> HIDE DEF Tops
    <3> QED BY <2>1
  <2>3. k <= Cardinality(V \ {w})
    BY <1>3, <2>2
  <2> QED BY <1>1, <1>4, <2>1, <2>3
<1>8. PICK m \in Prices(V \ {w}) : \A n \in Prices(V \ {w}) : m >= n
  BY <1>7
<1>9. \A v \in Stock : Wares[v].sell \in Nat
  BY WorldAssumption DEF WellFormedShops
<1>10. /\ m \in Nat /\ Wares[w].sell \in Nat
       /\ \A n \in Prices(V) : n \in Nat /\ (n = Wares[w].sell \/ n \in Prices(V \ {w}))
       /\ m \in Prices(V) /\ Wares[w].sell \in Prices(V)
  BY <1>9
<1>11. CASE m >= Wares[w].sell
  BY <1>4, <1>8, <1>10, <1>11
<1>12. CASE ~(m >= Wares[w].sell)
  <2>1. ASSUME NEW n \in Prices(V) PROVE Wares[w].sell >= n
    <3> HIDE DEF Prices
    <3>1. n \in Nat /\ (n = Wares[w].sell \/ m >= n)
      BY <1>8, <1>10, <2>1
    <3> QED BY <1>10, <1>12, <3>1
  <2> QED BY <1>4, <1>10, <2>1
<1> QED BY <1>11, <1>12

(* So Resale is what the best shop pays, and no shop sells for less.       *)
LEMMA ResaleBounds ==
  ASSUME FairMarket
  PROVE  /\ \A i \in Item : Resale(i) \in Nat
         /\ \A w \in Stock : Wares[w].sell <= Resale(w[2]) /\ Resale(w[2]) <= Wares[w].buy
<1>1. \A w \in Stock : Wares[w].sell \in Nat /\ Wares[w].buy \in Nat /\ w[2] \in Item
  BY WorldAssumption DEF WellFormedShops
<1>2. ASSUME NEW i \in Item
      PROVE  /\ Resale(i) \in {Wares[w].sell : w \in {v \in Stock : v[2] = i}} \cup {0}
             /\ \A n \in {Wares[w].sell : w \in {v \in Stock : v[2] = i}} \cup {0} : Resale(i) >= n
  <2> DEFINE W == {v \in Stock : v[2] = i}
             P == {Wares[w].sell : w \in W} \cup {0}
  <2>1. W \in SUBSET Stock /\ IsFiniteSet(W)
    BY FS_Subset DEF FairMarket
  <2>2. \E m \in P : \A n \in P : m >= n
    BY <2>1, HighestPrice
  <2>3. Resale(i) = CHOOSE m \in P : \A n \in P : m >= n
    BY DEF Resale, Max
  <2> HIDE DEF P
  <2>4. Resale(i) \in P /\ \A n \in P : Resale(i) >= n
    BY <2>2, <2>3
  <2> QED BY <2>4 DEF P
<1>3. \A i \in Item : Resale(i) \in Nat
  BY <1>1, <1>2
<1>4. ASSUME NEW w \in Stock PROVE Wares[w].sell <= Resale(w[2]) /\ Resale(w[2]) <= Wares[w].buy
  <2>1. w[2] \in Item /\ Wares[w].sell \in {Wares[v].sell : v \in {v \in Stock : v[2] = w[2]}} \cup {0}
    BY <1>1
  <2>2. Resale(w[2]) >= Wares[w].sell
    BY <1>2, <2>1
  <2>3. Resale(w[2]) = 0 \/ \E v \in Stock : v[2] = w[2] /\ Resale(w[2]) = Wares[v].sell
    BY <1>2, <2>1
  <2>4. Resale(w[2]) <= Wares[w].buy
    BY <1>1, <2>3 DEF FairMarket
  <2> QED BY <1>1, <1>3, <2>1, <2>2, <2>4
<1> QED BY <1>3, <1>4

(* Both sums are totals in the sense above.                                *)
LEMMA WorthIsTotal ==
  ASSUME FairMarket, NEW has
  PROVE  \E F : /\ IsTotal(F, [i \in Item |-> Resale(i) * has[i]], SUBSET Item)
                /\ Worth(has) = F[Item]
<1> DEFINE f == [i \in Item |-> Resale(i) * has[i]]
           iter == CHOOSE F : IsTotal(F, f, SUBSET Item)
<1>1. IsTotal(iter, f, SUBSET Item)
  BY TotalExists DEF FairMarket
<1>2. \A s \in SUBSET Item : s # {} => Pick(s) \in Item
  BY DEF Pick
<1>3. ASSUME NEW F
      PROVE  IsTotal(F, f, SUBSET Item)
             <=> F = [s \in SUBSET Item |-> IF s = {} THEN 0
                        ELSE Resale(Pick(s)) * has[Pick(s)] + F[s \ {Pick(s)}]]
  <2>1. \A s \in SUBSET Item : (IF s = {} THEN 0 ELSE f[Pick(s)] + F[s \ {Pick(s)}])
          = IF s = {} THEN 0 ELSE Resale(Pick(s)) * has[Pick(s)] + F[s \ {Pick(s)}]
    BY <1>2
  <2> QED BY <2>1 DEF IsTotal
<1>4. iter = CHOOSE F : F = [s \in SUBSET Item |-> IF s = {} THEN 0
                        ELSE Resale(Pick(s)) * has[Pick(s)] + F[s \ {Pick(s)}]]
  BY <1>3
<1>5. Worth(has) = iter[Item]
  BY <1>4 DEF Worth, MapThenSumSet, MapThenFoldSet, Pick
<1> HIDE DEF iter
<1> QED BY <1>1, <1>5

LEMMA GainsAreTotal ==
  ASSUME FairMarket, NEW done \in SUBSET Interaction
  PROVE  \E F : /\ IsTotal(F, [i \in Interaction |-> Found(i)], SUBSET done)
                /\ Gains(done) = F[done]
<1> DEFINE f == [i \in Interaction |-> Found(i)]
           iter == CHOOSE F : IsTotal(F, f, SUBSET done)
<1>1. IsTotal(iter, f, SUBSET done)
  BY TotalExists, FS_Subset DEF FairMarket
<1>2. \A s \in SUBSET done : s # {} => Pick(s) \in Interaction
  BY DEF Pick
<1>3. ASSUME NEW F
      PROVE  IsTotal(F, f, SUBSET done)
             <=> F = [s \in SUBSET done |-> IF s = {} THEN 0
                        ELSE Found(Pick(s)) + F[s \ {Pick(s)}]]
  <2>1. \A s \in SUBSET done : (IF s = {} THEN 0 ELSE f[Pick(s)] + F[s \ {Pick(s)}])
          = IF s = {} THEN 0 ELSE Found(Pick(s)) + F[s \ {Pick(s)}]
    BY <1>2
  <2> QED BY <2>1 DEF IsTotal
<1>4. iter = CHOOSE F : F = [s \in SUBSET done |-> IF s = {} THEN 0
                        ELSE Found(Pick(s)) + F[s \ {Pick(s)}]]
  BY <1>3
<1>5. Gains(done) = iter[done]
  BY <1>4 DEF Gains, MapThenSumSet, MapThenFoldSet, Pick
<1> HIDE DEF iter
<1> QED BY <1>1, <1>5

LEMMA GainsAreNat ==
  ASSUME FairMarket, NEW done \in SUBSET Interaction
  PROVE  Gains(done) \in Nat
<1> DEFINE f == [j \in Interaction |-> Found(j)]
<1>1. PICK F : IsTotal(F, f, SUBSET done) /\ Gains(done) = F[done]
  BY GainsAreTotal
<1>2. \A j \in Interaction : f[j] \in Nat
  <2>1. ASSUME NEW j \in Interaction
        PROVE  Interactions[j].coins \in Nat /\ Interactions[j].item \in Item \cup {None}
    BY WorldAssumption DEF WellFormedCampaign
  <2> QED BY <2>1, ResaleBounds DEF Found
<1>3. IsFiniteSet(done) /\ done \in SUBSET done
  BY FS_Subset DEF FairMarket
<1> HIDE DEF f
<1>4. \A j \in done : f[j] \in Nat
  BY <1>2
<1>5. F[done] \in Nat
  BY <1>1, <1>3, <1>4, TotalSplits
<1> QED BY <1>1, <1>5

(* More or less of one item changes the worth by just that much.           *)
LEMMA WorthChanges ==
  ASSUME FairMarket, NEW has \in [Item -> Nat], NEW i \in Item, NEW n \in Nat
  PROVE  \E rest \in Nat : /\ Worth(has) = Resale(i) * has[i] + rest
                           /\ Worth([has EXCEPT ![i] = n]) = Resale(i) * n + rest
<1> DEFINE then == [has EXCEPT ![i] = n]
           f == [j \in Item |-> Resale(j) * has[j]]
           g == [j \in Item |-> Resale(j) * then[j]]
<1>1. PICK F : IsTotal(F, f, SUBSET Item) /\ Worth(has) = F[Item]
  BY WorthIsTotal
<1>2. PICK G : IsTotal(G, g, SUBSET Item) /\ Worth(then) = G[Item]
  BY WorthIsTotal
<1>3. ASSUME NEW j \in Item PROVE f[j] \in Nat /\ g[j] \in Nat
  <2>1. Resale(j) \in Nat /\ has[j] \in Nat /\ then[j] \in Nat
    BY ResaleBounds
  <2> HIDE DEF then
  <2> QED BY <2>1
<1>4. F[Item] = f[i] + F[Item \ {i}] /\ G[Item] = g[i] + G[Item \ {i}] /\ F[Item \ {i}] \in Nat
  <2>1. \A j \in Item : f[j] \in Nat
    BY <1>3
  <2>2. \A j \in Item : g[j] \in Nat
    BY <1>3
  <2> HIDE DEF f, g
  <2>3. F[Item] = f[i] + F[Item \ {i}] /\ F[Item \ {i}] \in Nat
    BY <1>1, <2>1, TotalSplits DEF FairMarket
  <2>4. G[Item] = g[i] + G[Item \ {i}]
    BY <1>2, <2>2, TotalSplits DEF FairMarket
  <2> QED BY <2>3, <2>4
<1>5. F[Item \ {i}] = G[Item \ {i}]
  <2>1. \A j \in Item \ {i} : f[j] = g[j]
    OBVIOUS
  <2>2. IsFiniteSet(Item \ {i})
    BY FS_RemoveElement DEF FairMarket
  <2> DEFINE others == Item \ {i}
  <2>3. others \subseteq Item /\ IsFiniteSet(others) /\ \A j \in others : f[j] = g[j]
    BY <2>1, <2>2
  <2> HIDE DEF f, g, others
  <2>4. F[others] = G[others]
    BY <1>1, <1>2, <2>3, TotalsAgree
  <2> QED BY <2>4 DEF others
<1>6. f[i] = Resale(i) * has[i] /\ g[i] = Resale(i) * n
  OBVIOUS
<1> HIDE DEF f, g
<1> QED BY <1>1, <1>2, <1>4, <1>5, <1>6

(* Who owns nothing is worth nothing.                                      *)
LEMMA WorthOfNothing ==
  ASSUME FairMarket
  PROVE  Worth([i \in Item |-> 0]) = 0
<1> DEFINE none == [i \in Item |-> 0]
           f == [i \in Item |-> Resale(i) * none[i]]
           Z == [s \in SUBSET Item |-> 0]
<1>1. PICK F : IsTotal(F, f, SUBSET Item) /\ Worth(none) = F[Item]
  BY WorthIsTotal
<1>2. \A i \in Item : f[i] = 0
  BY ResaleBounds
<1> HIDE DEF f
<1>3. IsTotal(Z, f, SUBSET Item)
  <2>1. ASSUME NEW s \in SUBSET Item PROVE 0 = IF s = {} THEN 0 ELSE f[Pick(s)] + Z[s \ {Pick(s)}]
    <3>1. s # {} => f[Pick(s)] = 0
      BY <1>2 DEF Pick
    <3> QED BY <3>1
  <2> QED BY <2>1 DEF IsTotal
<1>4. F[Item] = Z[Item]
  BY <1>1, <1>3, TotalsAgree DEF FairMarket
<1> QED BY <1>1, <1>4

(* One more interaction is counted once.                                   *)
LEMMA GainsGrow ==
  ASSUME FairMarket, NEW done \in SUBSET Interaction, NEW i \in Interaction, i \notin done
  PROVE  Gains(done) \in Nat /\ Gains(done \cup {i}) = Gains(done) + Found(i) /\ Gains({}) = 0
<1> DEFINE f == [j \in Interaction |-> Found(j)]
           more == done \cup {i}
<1>1. PICK F : IsTotal(F, f, SUBSET done) /\ Gains(done) = F[done]
  BY GainsAreTotal
<1>2. PICK G : IsTotal(G, f, SUBSET more) /\ Gains(more) = G[more]
  BY GainsAreTotal
<1>3. \A j \in Interaction : Found(j) \in Nat
  <2>1. ASSUME NEW j \in Interaction
        PROVE  Interactions[j].coins \in Nat /\ Interactions[j].item \in Item \cup {None}
    BY WorldAssumption DEF WellFormedCampaign
  <2> QED BY <2>1, ResaleBounds DEF Found
<1>4. IsFiniteSet(done) /\ IsFiniteSet(more)
  BY FS_Subset DEF FairMarket
<1>5. \A j \in Interaction : f[j] = Found(j)
  OBVIOUS
<1> HIDE DEF f
<1>6. F[done] \in Nat
  BY <1>1, <1>3, <1>4, <1>5, TotalSplits
<1>7. G[more] = f[i] + G[more \ {i}]
  <2>1. (\A j \in more : f[j] \in Nat) /\ i \in more /\ more \in SUBSET more
    BY <1>3, <1>5
  <2> HIDE DEF more
  <2> QED BY <1>2, <1>4, <2>1, TotalSplits
<1>8. more \ {i} = done
  OBVIOUS
<1>9. G[done] = F[done]
  <2>1. done \subseteq done /\ done \subseteq more
    OBVIOUS
  <2> HIDE DEF more
  <2>2. \A j \in done : f[j] = f[j]
    OBVIOUS
  <2> QED BY <1>1, <1>2, <1>4, <2>1, <2>2, TotalsAgree
<1>10. Gains({}) = 0
  <2>1. PICK H : IsTotal(H, f, SUBSET {}) /\ Gains({}) = H[{}]
    BY GainsAreTotal DEF f
  <2> QED BY <2>1 DEF IsTotal
<1>11. Gains(more) = Found(i) + Gains(done)
  <2> HIDE DEF more
  <2> QED BY <1>1, <1>2, <1>5, <1>7, <1>8, <1>9
<1>12. Gains(done) \in Nat /\ Found(i) \in Nat
  BY <1>1, <1>3, <1>6
<1> QED BY <1>10, <1>11, <1>12

-----------------------------------------------------------------------------
(* The campaign and the saved game are both no richer than their solved    *)
(* interactions made them; a loaded game forgets what it has spent and     *)
(* what it has found together.                                             *)
Modest(coins, has, done) == coins + Worth(has) <= Purse + Gains(done)

TInv ==
  /\ IInv
  /\ Modest(currency, owned, solved)
  /\ saved # None => Modest(saved.currency, saved.owned, saved.solved)

LEMMA ModestMeans == TradingNeverPays <=> Modest(currency, owned, solved)
BY DEF TradingNeverPays, Modest, Worth, Gains

LEMMA WorthIsNat ==
  ASSUME FairMarket, NEW has \in [Item -> Nat]
  PROVE  Worth(has) \in Nat
<1> DEFINE f == [j \in Item |-> Resale(j) * has[j]]
<1>1. PICK F : IsTotal(F, f, SUBSET Item) /\ Worth(has) = F[Item]
  BY WorthIsTotal
<1>2. \A j \in Item : f[j] \in Nat
  BY ResaleBounds
<1> HIDE DEF f
<1>3. Item \in SUBSET Item /\ IsFiniteSet(Item)
  BY DEF FairMarket
<1>4. F[Item] \in Nat
  BY <1>1, <1>2, <1>3, TotalSplits
<1> QED BY <1>1, <1>4

(* A purchase costs at least what the goods are worth, and a sale brings   *)
(* at most that.                                                           *)
LEMMA TradeIsModest ==
  ASSUME FairMarket, WorldSafe, Modest(currency, owned, solved),
         NEW w \in Stock, NEW more \in Int, NEW coins \in Int,
         owned[w[2]] + more >= 0, coins + Resale(w[2]) * more <= 0,
         Traded(w[2], more, coins), solved' = solved
  PROVE  Modest(currency', owned', solved')
<1> DEFINE i == w[2]
           n == owned[i] + more
<1>1. i \in Item /\ owned \in [Item -> Nat] /\ currency \in Nat
  BY WorldAssumption DEF WellFormedShops, WorldSafe, Owned
<1>2. n \in Nat /\ owned[i] \in Nat
  BY <1>1
<1>3. owned' = [owned EXCEPT ![i] = n] /\ currency' = currency + coins
  BY DEF Traded
<1>4. PICK rest \in Nat : /\ Worth(owned) = Resale(i) * owned[i] + rest
                          /\ Worth([owned EXCEPT ![i] = n]) = Resale(i) * n + rest
  <2> HIDE DEF n, i
  <2> QED BY <1>1, <1>2, WorthChanges
<1>5. Resale(i) \in Nat
  BY <1>1, ResaleBounds
<1>6. Resale(i) * n = Resale(i) * owned[i] + Resale(i) * more
  BY <1>2, <1>5
<1>7. Purse + Gains(solved) \in Int
  <2>1. solved \in SUBSET Interaction
    BY DEF WorldSafe, Progressed
  <2> QED BY <2>1, GainsAreNat DEF Purse
<1>8. Resale(i) * owned[i] \in Int /\ Resale(i) * more \in Int
  BY <1>2, <1>5
<1> HIDE DEF n, i
<1>9. currency + (Resale(i) * owned[i] + rest) <= Purse + Gains(solved)
  BY <1>4 DEF Modest
<1>10. (currency + coins) + ((Resale(i) * owned[i] + Resale(i) * more) + rest) <= Purse + Gains(solved)
  BY <1>1, <1>4, <1>7, <1>8, <1>9 DEF i
<1> QED BY <1>3, <1>4, <1>6, <1>10 DEF Modest

LEMMA BuyIsModest ==
  ASSUME FairMarket, WorldSafe, Modest(currency, owned, solved),
         NEW w \in Stock, NEW q \in Quantities, Buy(w, q)
  PROVE  Modest(currency', owned', solved')
<1>1. q \in Nat /\ w[2] \in Item /\ Wares[w].buy \in Nat
  BY WorldAssumption DEF WellFormedShops
<1>2. Resale(w[2]) \in Nat /\ Resale(w[2]) <= Wares[w].buy
  BY <1>1, ResaleBounds
<1>3. Resale(w[2]) * q <= Wares[w].buy * q /\ Resale(w[2]) * q \in Nat /\ Wares[w].buy * q \in Nat
  BY <1>1, <1>2
<1>4. Traded(w[2], q, -(Wares[w].buy * q)) /\ solved' = solved
  BY DEF Buy, progress
<1>5. owned[w[2]] + q >= 0
  BY <1>1 DEF WorldSafe, Owned
<1>6. -(Wares[w].buy * q) \in Int /\ -(Wares[w].buy * q) + Resale(w[2]) * q <= 0 /\ q \in Int
  BY <1>1, <1>3
<1> QED BY <1>4, <1>5, <1>6, TradeIsModest

LEMMA SellIsModest ==
  ASSUME FairMarket, WorldSafe, Modest(currency, owned, solved),
         NEW w \in Stock, NEW q \in Quantities, Sell(w, q)
  PROVE  Modest(currency', owned', solved')
<1>1. q \in Nat /\ w[2] \in Item /\ Wares[w].sell \in Nat
  BY WorldAssumption DEF WellFormedShops
<1>2. Resale(w[2]) \in Nat /\ Wares[w].sell <= Resale(w[2])
  BY <1>1, ResaleBounds
<1>3. Wares[w].sell * q <= Resale(w[2]) * q /\ Resale(w[2]) * q \in Nat /\ Wares[w].sell * q \in Nat
  BY <1>1, <1>2
<1>4. Traded(w[2], -q, Wares[w].sell * q) /\ solved' = solved
  BY DEF Sell, progress
<1>5. owned[w[2]] + (-q) >= 0
  BY <1>1 DEF WorldSafe, Owned, Sell
<1>6. Resale(w[2]) * (-q) = -(Resale(w[2]) * q)
  BY <1>1, <1>2
<1>7. Wares[w].sell * q \in Int /\ Wares[w].sell * q + Resale(w[2]) * (-q) <= 0 /\ -q \in Int
  BY <1>1, <1>3, <1>6
<1> QED BY <1>4, <1>5, <1>7, TradeIsModest

(* What a success brings is counted among the gains; a failure, or a       *)
(* second try, brings nothing.                                             *)
LEMMA InteractionIsModest ==
  ASSUME FairMarket, WorldSafe, Modest(currency, owned, solved),
         NEW i \in Interaction, NEW success \in BOOLEAN, ResolveInteraction(i, success)
  PROVE  Modest(currency', owned', solved')
<1> DEFINE it == Interactions[i]
<1>1. it.item \in Item \cup {None} /\ it.coins \in Nat /\ None \notin Item
  BY WorldAssumption DEF WellFormedCampaign
<1>2. CASE ~success
  BY <1>2 DEF ResolveInteraction, InteractionResolved, Completed
<1>3. CASE success
  <2>1. /\ solved' = solved \cup {i} /\ i \notin solved /\ currency' = currency + it.coins
        /\ owned' = IF it.item # None THEN [owned EXCEPT ![it.item] = @ + 1] ELSE owned
    BY <1>3 DEF ResolveInteraction, InteractionResolved, Completed, Unsolved
  <2>2. solved \in SUBSET Interaction /\ owned \in [Item -> Nat] /\ currency \in Nat
    BY DEF WorldSafe, Progressed, Owned
  <2>3. Gains(solved') = Gains(solved) + Found(i) /\ Gains(solved) \in Nat
    BY <2>1, <2>2, GainsGrow
  <2>4. Worth(owned) \in Nat
    BY <2>2, WorthIsNat
  <2>5. CASE it.item = None
    <3>1. Found(i) = it.coins /\ owned' = owned
      BY <1>1, <2>1, <2>5 DEF Found
    <3>2. (currency + it.coins) + Worth(owned) <= Purse + (Gains(solved) + it.coins)
      BY <1>1, <2>2, <2>3, <2>4 DEF Modest, Purse
    <3> QED BY <2>1, <2>3, <3>1, <3>2 DEF Modest
  <2>6. CASE it.item # None
    <3> DEFINE x == it.item
    <3>1. x \in Item /\ Found(i) = it.coins + Resale(x) /\ Resale(x) \in Nat
      BY <1>1, <2>6, ResaleBounds DEF Found
    <3> HIDE DEF x
    <3>2. owned' = [owned EXCEPT ![x] = owned[x] + 1] /\ owned[x] \in Nat /\ owned[x] + 1 \in Nat
      BY <2>1, <2>2, <2>6, <3>1 DEF x
    <3>3. PICK rest \in Nat : /\ Worth(owned) = Resale(x) * owned[x] + rest
                              /\ Worth([owned EXCEPT ![x] = owned[x] + 1]) = Resale(x) * (owned[x] + 1) + rest
      BY <2>2, <3>1, <3>2, WorthChanges
    <3>4. Resale(x) * (owned[x] + 1) = Resale(x) * owned[x] + Resale(x) /\ Resale(x) * owned[x] \in Nat
      BY <3>1, <3>2
    <3>5. Worth(owned') = Worth(owned) + Resale(x)
      BY <3>1, <3>2, <3>3, <3>4
    <3>6. (currency + it.coins) + (Worth(owned) + Resale(x)) <= Purse + (Gains(solved) + (it.coins + Resale(x)))
      BY <1>1, <2>2, <2>3, <2>4, <3>1 DEF Modest, Purse
    <3> QED BY <2>1, <2>3, <3>1, <3>5, <3>6 DEF Modest
  <2> QED BY <2>5, <2>6
<1> QED BY <1>2, <1>3

(* No command of the campaign makes the party richer than it may be.       *)
LEMMA ExploreIsModest ==
  ASSUME FairMarket, WorldSafe, Modest(currency, owned, solved), Explore
  PROVE  Modest(currency', owned', solved')
<1> DEFINE Same == UNCHANGED <<owned, currency, solved>>
           Goal == Modest(currency', owned', solved')
<1> SUFFICES Goal
  OBVIOUS
<1>1. Same => Goal
  OBVIOUS
<1> HIDE DEF Goal
<1> USE DEF Explores, progress, goods
<1>2. CASE Starts
  <2>1. Same
    BY <1>2 DEF Starts, StartCampaign
  <2> QED BY <1>1, <2>1
<1>3. ASSUME NEW a \in Area, Travels(a) PROVE Same
  BY <1>3 DEF Travels, Travel
<1>4. ASSUME NEW d \in Dialogue, Talks(d) PROVE Same
  BY <1>4 DEF Talks, DialogueStart
<1>5. ASSUME NEW c \in Replies, Answers(c) PROVE Same
  BY <1>5 DEF Answers, DialogueChoose
<1>6. ASSUME NEW i \in Interaction, Investigates(i) PROVE Goal
  BY <1>6, InteractionIsModest DEF Investigates, Goal
<1>7. ASSUME NEW w \in Stock, NEW q \in Quantities, Buys(w, q) PROVE Goal
  BY <1>7, BuyIsModest DEF Buys, Goal
<1>8. ASSUME NEW w \in Stock, NEW q \in Quantities, Sells(w, q) PROVE Goal
  BY <1>8, SellIsModest DEF Sells, Goal
<1>9. ASSUME NEW h \in Hero, NEW s \in Slot, NEW i \in Item, Equips(h, s, i) PROVE Same
  BY <1>9 DEF Equips, Equip
<1>10. CASE Rests
  <2>1. Same
    BY <1>10 DEF Rests, Rest
  <2> QED BY <1>1, <2>1
<1> HIDE DEF Same
<1> QED BY <1>1, <1>2, <1>3, <1>4, <1>5, <1>6, <1>7, <1>8, <1>9, <1>10 DEF Explore

LEMMA NewGameIsModest ==
  ASSUME FairMarket
  PROVE  Modest(NewGame.currency, NewGame.owned, NewGame.solved)
<1>1. NewGame.currency = Purse /\ NewGame.owned = [i \in Item |-> 0] /\ NewGame.solved = {}
  BY DEF NewGame
<1>2. Gains({}) \in Nat
  BY GainsAreNat
<1> QED BY <1>1, <1>2, WorthOfNothing DEF Modest, Purse

LEMMA TradeInit == FairMarket /\ BridgeInit => TInv
<1> SUFFICES ASSUME FairMarket, BridgeInit PROVE TInv
  OBVIOUS
<1>1. IInv
  BY WorldInit
<1>2. Modest(NewGame.currency, NewGame.owned, NewGame.solved)
  BY NewGameIsModest
<1>3. Modest(currency, owned, solved) /\ saved = None
  BY <1>2 DEF BridgeInit, Init
<1> QED BY <1>1, <1>3 DEF TInv

LEMMA TradeStep == FairMarket /\ TInv /\ [Next]_vars => TInv'
<1> SUFFICES ASSUME FairMarket, TInv, [Next]_vars PROVE TInv'
  OBVIOUS
<1> DEFINE Here == Modest(currency, owned, solved)
           Saved == saved # None => Modest(saved.currency, saved.owned, saved.solved)
<1>1. IInv' /\ Here /\ Saved /\ WorldSafe
  BY WorldStep DEF TInv, IInv, Types, WorldSafe
<1> SUFFICES Here' /\ Saved'
  BY <1>1 DEF TInv
<1> HIDE DEF Here, Saved
<1>2. UNCHANGED <<currency, owned, solved>> => Here'
  BY <1>1 DEF Here
<1>3. UNCHANGED saved => Saved'
  BY <1>1 DEF Saved
<1> USE DEF world, session, store, progress, goods
<1>4. CASE Explore
  <2>1. UNCHANGED saved
    BY <1>1, <1>4, ExploreSafe
  <2>2. Here'
    BY <1>1, <1>4, ExploreIsModest DEF Here
  <2> QED BY <1>3, <2>1, <2>2
<1>5. ASSUME NEW e \in Encounter, BeginEncounter(e) PROVE UNCHANGED <<currency, owned, solved, saved>>
  BY <1>5 DEF BeginEncounter
<1>6. ASSUME NEW winner \in Teams, FightEnds(winner) PROVE UNCHANGED <<currency, owned, solved, saved>>
  BY <1>6 DEF FightEnds
<1>7. ASSUME NEW e \in Encounter, RecordVictory(e) PROVE UNCHANGED <<currency, owned, solved, saved>>
  BY <1>7 DEF RecordVictory, CompleteEncounter
<1>8. ASSUME NEW e \in Encounter, RecordLoss(e) PROVE UNCHANGED <<currency, owned, solved, saved>>
  BY <1>8 DEF RecordLoss
<1>9. CASE SaveWorld
  <2>1. UNCHANGED <<currency, owned, solved>> /\ saved' = Snapshot
    BY <1>9 DEF SaveWorld
  <2>2. Snapshot.currency = currency /\ Snapshot.owned = owned /\ Snapshot.solved = solved
    BY DEF Snapshot
  <2> QED BY <1>1, <1>2, <2>1, <2>2 DEF Here, Saved
<1>10. CASE LoadWorld
  <2>1. /\ saved # None /\ UNCHANGED saved
        /\ currency' = saved.currency /\ owned' = saved.owned /\ solved' = saved.solved
    BY <1>10 DEF LoadWorld, Restore
  <2> QED BY <1>1, <1>3, <2>1 DEF Here, Saved
<1>11. CASE HostRestarts
  <2>1. /\ UNCHANGED saved
        /\ currency' = NewGame.currency /\ owned' = NewGame.owned /\ solved' = NewGame.solved
    BY <1>11 DEF HostRestarts, Restore
  <2> QED BY <1>3, <2>1, NewGameIsModest DEF Here
<1>12. CASE UNCHANGED vars
  BY <1>2, <1>3, <1>12 DEF vars
<1>13. ASSUME NEW h \in Hero, CreatesHero(h) PROVE UNCHANGED <<currency, owned, solved, saved>>
  BY <1>13 DEF CreatesHero
<1> QED BY <1>2, <1>3, <1>4, <1>5, <1>6, <1>7, <1>8, <1>9, <1>10, <1>11, <1>12, <1>13 DEF Next

(* However often trades, saves, loads and restarts are repeated, and       *)
(* whatever the shops and the rewards: nobody ends with more than the      *)
(* 25 coins of the start and what the interactions gave, once each.        *)
THEOREM NobodyTradesUp == FairMarket /\ Spec => []TradingNeverPays
<1> SUFFICES ASSUME FairMarket PROVE Spec => []TradingNeverPays
  OBVIOUS
<1>1. BridgeInit => TInv
  BY TradeInit
<1>2. TInv /\ [Next]_vars => TInv'
  BY TradeStep
<1>3. TInv => TradingNeverPays
  BY ModestMeans DEF TInv
<1> QED BY <1>1, <1>2, <1>3, PTL DEF Spec

-----------------------------------------------------------------------------
(* Conversations.  What answers clear; an answer nothing holds back; a     *)
(* conversation that is always shown as available; and an interaction that *)
(* brings, for good, all that an answer needs.                             *)
Clearable == UNION {c.clears : c \in Replies}
Free(c)     == c.needs = {} /\ c.forbids = {}
Welcomes(d) ==
  LET first == {c \in Replies : c.at = Dialogues[d].start}
  IN  first # {} => \E c \in first : Free(c)
Brings(i, c) == c.forbids = {} /\ c.needs \subseteq Interactions[i].wins \ Clearable

(* home is the area of each node: its conversation's.                      *)
Homes(home) ==
  /\ \A d \in Dialogue : home[Dialogues[d].start] = Dialogues[d].area
  /\ \A c \in Replies : c.next # None => home[c.next] = home[c.at]

(* Every node has a way on: an answer nothing holds back, a conversation   *)
(* of its area that is always available, or an interaction of its area     *)
(* that brings what an answer needs.                                       *)
WaysOn(home) ==
  \A n \in Node :
    \/ \E c \in Replies : c.at = n /\ Free(c)
    \/ \E d \in Dialogue : Dialogues[d].area = home[n] /\ Welcomes(d)
    \/ \E i \in Interaction, c \in Replies :
         Interactions[i].area = home[n] /\ c.at = n /\ Brings(i, c)

(* Content in which each node belongs to one area and has a way on, and    *)
(* somebody in the start area can always be talked to, for world.start     *)
(* takes the party there with its conversation still open.  The            *)
(* constructors check none of this; the shipped campaign is such content.  *)
LeavableTalks ==
  /\ \E home \in [Node -> Area] : Homes(home) /\ WaysOn(home)
  /\ \E d \in Dialogue : Dialogues[d].area = Start /\ Welcomes(d)

(* The party is where it talks, or where it started; and what an           *)
(* interaction has brought for good is still there.                        *)
Near(home, where, node) == node # None => where = home[node] \/ where = Start
Kept(has, done) == \A i \in done : Interactions[i].wins \ Clearable \subseteq has

LInv(home) ==
  /\ IInv
  /\ Near(home, area, talk) /\ Kept(flags, solved)
  /\ saved # None => Near(home, saved.area, saved.talk) /\ Kept(saved.flags, saved.solved)

LEMMA ExploreStaysNear ==
  ASSUME NEW home \in [Node -> Area], Homes(home), WorldSafe, Explore, Near(home, area, talk)
  PROVE  Near(home, area, talk)'
<1> USE DEF Explores
<1>1. CASE Starts
  BY <1>1 DEF Starts, StartCampaign, Near
<1>2. ASSUME NEW a \in Area, Travels(a) PROVE Near(home, area, talk)'
  BY <1>2 DEF Travels, Travel, Near
<1>3. ASSUME NEW d \in Dialogue, Talks(d) PROVE Near(home, area, talk)'
  BY <1>3 DEF Talks, DialogueStart, Near, Homes
<1>4. ASSUME NEW c \in Replies, Answers(c) PROVE Near(home, area, talk)'
  <2>1. talk = c.at /\ talk' = c.next /\ area' = area
    BY <1>4 DEF Answers, DialogueChoose, ChoiceResolved
  <2>2. talk # None
    BY <2>1, WorldAssumption DEF WellFormedDialogues
  <2>3. c.next # None => home[c.next] = home[talk]
    BY <2>1 DEF Homes
  <2> QED BY <2>1, <2>2, <2>3 DEF Near
<1>5. ASSUME UNCHANGED place PROVE Near(home, area, talk)'
  BY <1>5 DEF place, Near
<1>6. ASSUME NEW i \in Interaction, Investigates(i) PROVE UNCHANGED place
  BY <1>6 DEF Investigates, ResolveInteraction
<1>7. ASSUME NEW w \in Stock, NEW q \in Quantities, Buys(w, q) PROVE UNCHANGED place
  BY <1>7 DEF Buys, Buy
<1>8. ASSUME NEW w \in Stock, NEW q \in Quantities, Sells(w, q) PROVE UNCHANGED place
  BY <1>8 DEF Sells, Sell
<1>9. ASSUME NEW h \in Hero, NEW s \in Slot, NEW i \in Item, Equips(h, s, i) PROVE UNCHANGED place
  BY <1>9 DEF Equips, Equip
<1>10. CASE Rests
  BY <1>5, <1>10 DEF Rests, Rest
<1> QED BY <1>1, <1>2, <1>3, <1>4, <1>5, <1>6, <1>7, <1>8, <1>9, <1>10 DEF Explore

LEMMA ExploreKeeps ==
  ASSUME WorldSafe, Explore, Kept(flags, solved)
  PROVE  Kept(flags, solved)'
<1> USE DEF Explores
<1>1. ASSUME UNCHANGED <<flags, solved>> PROVE Kept(flags, solved)'
  BY <1>1 DEF Kept
<1>2. CASE Starts
  BY <1>1, <1>2 DEF Starts, StartCampaign, progress
<1>3. ASSUME NEW a \in Area, Travels(a) PROVE UNCHANGED <<flags, solved>>
  BY <1>3 DEF Travels, Travel, progress
<1>4. ASSUME NEW d \in Dialogue, Talks(d) PROVE UNCHANGED <<flags, solved>>
  BY <1>4 DEF Talks, DialogueStart, progress
<1>5. ASSUME NEW c \in Replies, Answers(c) PROVE Kept(flags, solved)'
  <2>1. flags' = (flags \cup c.sets) \ c.clears /\ solved' = solved
    BY <1>5 DEF Answers, DialogueChoose, ChoiceResolved
  <2>2. c.clears \subseteq Clearable
    BY DEF Clearable
  <2> QED BY <2>1, <2>2 DEF Kept
<1>6. ASSUME NEW i \in Interaction, Investigates(i) PROVE Kept(flags, solved)'
  <2>1. PICK success \in BOOLEAN : InteractionResolved(i, success)
    BY <1>6 DEF Investigates, ResolveInteraction
  <2>2. flags \subseteq flags'
    BY <2>1 DEF InteractionResolved
  <2>3. solved' = solved \/ (solved' = solved \cup {i} /\ Interactions[i].wins \subseteq flags')
    BY <2>1 DEF InteractionResolved, Completed
  <2> QED BY <2>2, <2>3 DEF Kept
<1>7. ASSUME NEW w \in Stock, NEW q \in Quantities, Buys(w, q) PROVE UNCHANGED <<flags, solved>>
  BY <1>7 DEF Buys, Buy, progress
<1>8. ASSUME NEW w \in Stock, NEW q \in Quantities, Sells(w, q) PROVE UNCHANGED <<flags, solved>>
  BY <1>8 DEF Sells, Sell, progress
<1>9. ASSUME NEW h \in Hero, NEW s \in Slot, NEW i \in Item, Equips(h, s, i)
      PROVE  UNCHANGED <<flags, solved>>
  BY <1>9 DEF Equips, Equip, progress
<1>10. CASE Rests
  BY <1>1, <1>10 DEF Rests, Rest, progress
<1> QED BY <1>1, <1>2, <1>3, <1>4, <1>5, <1>6, <1>7, <1>8, <1>9, <1>10 DEF Explore

LEMMA TalkInit == ASSUME NEW home, BridgeInit PROVE LInv(home)
<1>1. IInv /\ talk = None /\ solved = {} /\ saved = None
  BY WorldInit DEF BridgeInit, Init, NewGame
<1> QED BY <1>1 DEF LInv, Near, Kept

LEMMA TalkStep ==
  ASSUME NEW home \in [Node -> Area], Homes(home), LInv(home), [Next]_vars
  PROVE  LInv(home)'
<1> DEFINE Here == Near(home, area, talk) /\ Kept(flags, solved)
           Saved == saved # None =>
                      Near(home, saved.area, saved.talk) /\ Kept(saved.flags, saved.solved)
<1>1. IInv' /\ Here /\ Saved /\ WorldSafe
  BY WorldStep DEF LInv, IInv, Types, WorldSafe
<1> SUFFICES Here' /\ Saved'
  BY <1>1 DEF LInv
<1>2. ASSUME UNCHANGED place, solved' = solved, flags \subseteq flags' PROVE Here'
  BY <1>1, <1>2 DEF place, Near, Kept
<1> HIDE DEF Here
<1>3. UNCHANGED saved => Saved'
  BY <1>1 DEF Near, Kept
<1> HIDE DEF Saved
<1> USE DEF store
<1>4. UNCHANGED world => Here'
  BY <1>2 DEF world, progress
<1>5. CASE Explore
  <2>1. UNCHANGED saved
    BY <1>1, <1>5, ExploreSafe
  <2>2. Here'
    BY <1>1, <1>5, ExploreStaysNear, ExploreKeeps DEF Here
  <2> QED BY <1>3, <2>1, <2>2
<1>6. ASSUME NEW e \in Encounter, BeginEncounter(e) PROVE UNCHANGED <<world, saved>>
  BY <1>6 DEF BeginEncounter
<1>7. ASSUME NEW winner \in Teams, FightEnds(winner) PROVE UNCHANGED <<world, saved>>
  BY <1>7 DEF FightEnds
<1>8. ASSUME NEW e \in Encounter, RecordVictory(e)
      PROVE  UNCHANGED <<place, solved, saved>> /\ flags \subseteq flags'
  BY <1>8 DEF RecordVictory, CompleteEncounter
<1>9. ASSUME NEW e \in Encounter, RecordLoss(e) PROVE UNCHANGED <<world, saved>>
  BY <1>9 DEF RecordLoss
<1>10. CASE SaveWorld
  <2>1. UNCHANGED world /\ saved' = Snapshot
    BY <1>10 DEF SaveWorld
  <2>2. /\ Snapshot.area = area /\ Snapshot.talk = talk
        /\ Snapshot.flags = flags /\ Snapshot.solved = solved
    BY DEF Snapshot
  <2> QED BY <1>1, <1>4, <2>1, <2>2 DEF Here, Saved, Near, Kept
<1>11. CASE LoadWorld
  <2>1. /\ saved # None /\ UNCHANGED saved
        /\ area' = saved.area /\ talk' = saved.talk
        /\ flags' = saved.flags /\ solved' = saved.solved
    BY <1>11 DEF LoadWorld, Restore
  <2> QED BY <1>1, <1>3, <2>1 DEF Here, Saved, Near, Kept
<1>12. CASE HostRestarts
  <2>1. UNCHANGED saved /\ talk' = None /\ solved' = {}
    BY <1>12 DEF HostRestarts, Restore, NewGame
  <2> QED BY <1>3, <2>1 DEF Here, Near, Kept
<1>13. CASE UNCHANGED vars
  BY <1>3, <1>4, <1>13 DEF vars
<1>14. ASSUME NEW h \in Hero, CreatesHero(h) PROVE UNCHANGED <<world, saved>>
  BY <1>14 DEF CreatesHero
<1> QED BY <1>2, <1>3, <1>4, <1>5, <1>6, <1>7, <1>8, <1>9, <1>10, <1>11, <1>12, <1>13, <1>14 DEF Next

LEMMA WelcomeIsOffered ==
  ASSUME NEW d \in Dialogue, Welcomes(d), Dialogues[d].area = area, active = None
  PROVE  OffersDialogue(d)
<1>1. \A c \in Replies : Free(c) => c.needs \subseteq flags /\ c.forbids \cap flags = {}
  BY DEF Free
<1> QED BY <1>1 DEF Welcomes, OffersDialogue

LEMMA NearMeansLeavable ==
  ASSUME NEW home \in [Node -> Area], Homes(home), WaysOn(home), LInv(home),
         NEW d \in Dialogue, Dialogues[d].area = Start, Welcomes(d)
  PROVE  TalkCanBeLeft
<1> SUFFICES ASSUME talk # None, active = None
             PROVE  \/ DialogueView # {}
                    \/ \E e \in Dialogue : OffersDialogue(e)
                    \/ \E i \in Interaction : OffersInteraction(i)
  BY DEF TalkCanBeLeft
<1>1. talk \in Node /\ (area = home[talk] \/ area = Start) /\ Kept(flags, solved)
  BY DEF LInv, IInv, Types, Placed, Near
<1>2. CASE area = Start
  BY <1>2, WelcomeIsOffered
<1>3. CASE area = home[talk]
  <2>1. ASSUME NEW c \in Replies, c.at = talk, Free(c) PROVE c \in DialogueView
    BY <2>1 DEF DialogueView, Free, ChoiceAvailable
  <2>2. ASSUME NEW e \in Dialogue, Dialogues[e].area = home[talk], Welcomes(e)
        PROVE  OffersDialogue(e)
    BY <1>3, <2>2, WelcomeIsOffered
  <2>3. ASSUME NEW i \in Interaction, NEW c \in Replies,
               Interactions[i].area = home[talk], c.at = talk, Brings(i, c)
        PROVE  c \in DialogueView \/ OffersInteraction(i)
    <3>1. CASE i \in solved
      BY <1>1, <2>3, <3>1 DEF Kept, Brings, DialogueView, ChoiceAvailable
    <3>2. CASE i \notin solved
      BY <1>3, <2>3, <3>2 DEF OffersInteraction, Actions
    <3> QED BY <3>1, <3>2
  <2>4. \/ \E c \in Replies : c.at = talk /\ Free(c)
        \/ \E e \in Dialogue : Dialogues[e].area = home[talk] /\ Welcomes(e)
        \/ \E i \in Interaction, c \in Replies :
             Interactions[i].area = home[talk] /\ c.at = talk /\ Brings(i, c)
    BY <1>1 DEF WaysOn
  <2> QED BY <2>1, <2>2, <2>3, <2>4
<1> QED BY <1>1, <1>2, <1>3

(* No order of talking, travelling, fighting, saving, loading and starting *)
(* leaves the party in a conversation it can do nothing about (travel and  *)
(* rest refuse while one is open, WorldRuntime.handle_command), whatever   *)
(* the campaign, as long as its content has the ways on of LeavableTalks.  *)
THEOREM NobodyIsTalkedInto == LeavableTalks /\ Spec => []TalkCanBeLeft
<1> SUFFICES ASSUME LeavableTalks PROVE Spec => []TalkCanBeLeft
  OBVIOUS
<1>1. PICK home \in [Node -> Area] : Homes(home) /\ WaysOn(home)
  BY DEF LeavableTalks
<1>2. PICK d \in Dialogue : Dialogues[d].area = Start /\ Welcomes(d)
  BY DEF LeavableTalks
<1>3. BridgeInit => LInv(home)
  BY TalkInit
<1>4. LInv(home) /\ [Next]_vars => LInv(home)'
  BY <1>1, TalkStep
<1>5. LInv(home) => TalkCanBeLeft
  BY <1>1, <1>2, NearMeansLeavable
<1> QED BY <1>3, <1>4, <1>5, PTL DEF Spec
=============================================================================
