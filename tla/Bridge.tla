------------------------------- MODULE Bridge -------------------------------
(***************************************************************************)
(* The line between the Godot client and the engine: EngineBridge          *)
(* (bridge/engine_bridge.gd) over a TCP transport, the ClientBridgeSession *)
(* that answers it (client_bridge.py) in front of one SimulationEngine,    *)
(* and the client state the bridge's signals feed: AuthoritativeMirror and *)
(* the pending requests of ClientStateCoordinator.                         *)
(*                                                                         *)
(* The engine's state is the log of the commands it has applied: its       *)
(* sequence is the log's length, event n is entry n, a snapshot is the     *)
(* whole log.  Signals are synchronous calls, so a handler and everything  *)
(* its subscribers do is one step.  A deadline may pass at any moment.     *)
(*                                                                         *)
(* Abstracted: message envelopes and their validation, correlation ids and *)
(* generations (the host echoes them), oversized frames (they end in a     *)
(* disconnect), and what a command does beyond taking the next number.     *)
(***************************************************************************)
EXTENDS Integers, Sequences, SequencesExt, FiniteSets

CONSTANTS
  Commands,      \* the command ids the client makes
  Foreign,       \* a command of another client of the same engine
  Tactical,      \* TRUE: commands are answered with a snapshot (tactical.*),
                 \* FALSE: with the events they caused
  Reconnecting,  \* TRUE: the transport may reopen a lost connection itself
  Pushes,        \* TRUE: the host may send authoritative.* unasked
  MayRefuse,     \* TRUE: the host may refuse the hello
  MaxRequests,   \* bound: request ids of one EngineBridge
  MaxForeign,    \* bound: foreign commands one engine process applies
  MaxForeignRuns, \* bound: the engine processes another client gets to use
  MaxRuns,       \* bound: engine processes started one after the other
  MaxPushes,     \* bound: unasked messages in flight
  MaxOrphans     \* bound: commands left behind in lost connections

ASSUME BridgeAssumption ==
  /\ {Foreign, "none"} \cap Commands = {}
  /\ {Tactical, Reconnecting, Pushes, MayRefuse} \subseteq BOOLEAN
  /\ {MaxRequests, MaxForeign, MaxForeignRuns, MaxRuns, MaxPushes, MaxOrphans} \subseteq Nat

VARIABLES
  engine,   \* [run, log]: which engine process, and what it has applied
  link,     \* the transport's connection: "down", "opening" or "up"
  uplink,   \* requests sent on the open connection and not yet read
  downlink, \* answers on the open connection, not yet read
  orphans,  \* commands of lost connections the host may still read
  bridge,   \* EngineBridge: ready, has, seq, resync
  pending,  \* EngineBridge._pending
  issued,   \* EngineBridge._request_counter
  tracked,  \* InteractionState._pending: ids the client waits for
  mirror,   \* AuthoritativeMirror: has, seq, base snapshot, event history
  expects,  \* expected_sequence of every command built, NotBuilt before
  acked     \* commands reported with command_completed(accepted)

hostVars == <<engine, orphans>>
wireVars == <<link, uplink, downlink>>
bridgeVars == <<bridge, pending, issued>>
clientVars == <<tracked, mirror, expects, acked>>
vars == <<hostVars, wireVars, bridgeVars, clientVars>>

Kinds == {"hello", "command", "snapshot", "resync", "preview", "cancel"}
Bodies == {"hello", "refused", "events", "snapshot", "preview", "rejected"}

NotBuilt == -1
NoCommand == "none"
NewBridge == [ready |-> FALSE, has |-> FALSE, seq |-> 0, resync |-> FALSE]
NewMirror == [has |-> FALSE, seq |-> 0, base |-> <<>>, events |-> <<>>]
Request == [id : Nat, kind : {"command"}, cmd : Commands]
                \cup [id : Nat, kind : Kinds \ {"command"}, cmd : {NoCommand}]
Entry == [cmd : Commands \cup {Foreign}, run : Nat]
Shown == mirror.base \o mirror.events   \* reconstruction_view
PendingIds == {r.id : r \in pending}

-----------------------------------------------------------------------------
(* The host: one ClientBridgeSession answers a connection's requests in     *)
(* the order they were sent.                                                *)

Answer(r, body, log, at) == [to |-> r.id, body |-> body, log |-> log, at |-> at]

Accepts_Unchecked(c) == TRUE
(* SimulationEngine and TacticalVerticalSliceSession refuse a command whose *)
(* expected_sequence is not the current one (SequenceError -> "conflict").  *)
Accepts(c) == expects[c] = Len(engine.log)

Applied(c) == Append(engine.log, [cmd |-> c, run |-> engine.run])

AnswerTo_BeforeApplied(r) ==
  CASE r.kind = "command" /\ ~Accepts(r.cmd) -> Answer(r, "rejected", <<>>, 0)
    [] r.kind = "command" /\ Accepts(r.cmd)  -> Answer(r, "snapshot", engine.log, 0)
    [] r.kind \in {"snapshot", "resync"}     -> Answer(r, "snapshot", engine.log, 0)
    [] r.kind = "preview" -> Answer(r, "preview", <<>>, 0)
    [] r.kind = "hello"   -> Answer(r, "hello", <<>>, 0)
AnswerTo(r) ==
  CASE r.kind = "command" /\ ~Accepts(r.cmd) -> Answer(r, "rejected", <<>>, 0)
    [] r.kind = "command" /\ Accepts(r.cmd) ->
         IF Tactical THEN Answer(r, "snapshot", Applied(r.cmd), 0)
                     ELSE Answer(r, "events", <<Last(Applied(r.cmd))>>, Len(engine.log) + 1)
    [] r.kind \in {"snapshot", "resync"} -> Answer(r, "snapshot", engine.log, 0)
    [] r.kind = "preview" -> Answer(r, IF Tactical THEN "preview" ELSE "rejected", <<>>, 0)
    [] r.kind = "hello" -> Answer(r, "hello", <<>>, 0)

(* What reading a request does to the engine: only a command that is       *)
(* accepted counts.                                                         *)
Executed(cmd) == IF cmd # NoCommand /\ Accepts(cmd)
                 THEN [engine EXCEPT !.log = Applied(cmd)] ELSE engine

(* The host reads and answers the next request; it may refuse a hello, and  *)
(* it reads a cancel notice without answering.                              *)
Serve ==
  /\ link = "up" /\ uplink # <<>>
  /\ LET r == Head(uplink) IN
       /\ engine' = Executed(r.cmd)
       /\ \/ r.kind # "cancel" /\ downlink' = Append(downlink, AnswerTo(r))
          \/ /\ r.kind = "hello" /\ MayRefuse
             /\ downlink' = Append(downlink, Answer(r, "refused", <<>>, 0))
          \/ r.kind = "cancel" /\ UNCHANGED downlink
  /\ uplink' = Tail(uplink)
  /\ UNCHANGED <<link, orphans, bridgeVars, clientVars>>

(* The host reads on from the buffer of a connection the client has lost.   *)
ServeOrphan ==
  /\ orphans # <<>>
  /\ engine' = Executed(Head(orphans)) /\ orphans' = Tail(orphans)
  /\ UNCHANGED <<wireVars, bridgeVars, clientVars>>

(* Another connection's command: nobody else is told about it.              *)
ForeignCommand ==
  /\ engine.run <= MaxForeignRuns
  /\ Len(SelectSeq(engine.log, LAMBDA e : e.cmd = Foreign)) < MaxForeign
  /\ engine' = [engine EXCEPT !.log = Applied(Foreign)]
  /\ UNCHANGED <<orphans, wireVars, bridgeVars, clientVars>>

(* Unasked authoritative.events and authoritative.snapshot: any slice of    *)
(* the log, so a batch may repeat or skip events.                           *)
Push ==
  /\ Pushes /\ link = "up" /\ engine.log # <<>>
  /\ Len(SelectSeq(downlink, LAMBDA m : m.to = 0)) < MaxPushes
  /\ \/ \E i \in 1 .. Len(engine.log) : \E j \in i .. Len(engine.log) :
          downlink' = Append(downlink, [to |-> 0, body |-> "events",
                                        log |-> SubSeq(engine.log, i, j), at |-> i])
     \/ downlink' = Append(downlink, [to |-> 0, body |-> "snapshot",
                                      log |-> engine.log, at |-> 0])
  /\ UNCHANGED <<link, uplink, hostVars, bridgeVars, clientVars>>

-----------------------------------------------------------------------------
(* Connections                                                              *)

(* The connection ends after its first k requests reached the host, which   *)
(* may still read them; every answer under way is lost.  Of these only the  *)
(* commands are kept: with nobody to answer, nothing comes of the others.   *)
Cut(k) ==
  /\ LET read == {i \in 1 .. k : uplink[i].kind = "command"} IN
       /\ Len(orphans) + Cardinality(read) <= MaxOrphans
       /\ \E nth \in [1 .. Cardinality(read) -> read] :
            /\ \A i, j \in DOMAIN nth : i < j => nth[i] < nth[j]
            /\ orphans' = orphans \o [i \in DOMAIN nth |-> uplink[nth[i]].cmd]
  /\ uplink' = <<>> /\ downlink' = <<>>

(* AppShell.start_bridge: the coordinator is unbound from the old bridge,   *)
(* which is shut down; a new EngineBridge and transport start connecting.   *)
Open ==
  /\ \E k \in 0 .. Len(uplink) : Cut(k)
  /\ link' = "opening"
  /\ bridge' = NewBridge /\ pending' = {} /\ issued' = 0 /\ tracked' = {}
  /\ UNCHANGED <<engine, mirror, expects, acked>>

(* A transport that reopens a lost connection under the same EngineBridge.  *)
Reopen ==
  /\ Reconnecting /\ link = "down" /\ link' = "opening"
  /\ UNCHANGED <<uplink, downlink, hostVars, bridgeVars, clientVars>>

(* _on_transport_connected: negotiate from the start.                       *)
Connected ==
  /\ link = "opening" /\ issued < MaxRequests
  /\ LET r == [id |-> issued + 1, kind |-> "hello", cmd |-> NoCommand] IN
       uplink' = <<r>> /\ pending' = pending \cup {r}
  /\ link' = "up" /\ issued' = issued + 1
  /\ bridge' = [bridge EXCEPT !.ready = FALSE]
  /\ UNCHANGED <<downlink, hostVars, clientVars>>

ConnectFails ==
  /\ link = "opening" /\ link' = "down"
  /\ UNCHANGED <<uplink, downlink, hostVars, bridgeVars, clientVars>>

(* _on_transport_disconnected and the coordinator's reaction to it: the     *)
(* client stops waiting, EngineBridge keeps its own pending requests.       *)
Disconnected == bridge' = [bridge EXCEPT !.ready = FALSE, !.resync = bridge.has]
                /\ tracked' = {}

Drop ==
  /\ link = "up" /\ link' = "down"
  /\ \E k \in 0 .. Len(uplink) : Cut(k)
  /\ Disconnected
  /\ UNCHANGED <<engine, pending, issued, mirror, expects, acked>>

(* The engine process ends and a new one starts from sequence 0.            *)
Restart ==
  /\ engine.run < MaxRuns
  /\ engine' = [run |-> engine.run + 1, log |-> <<>>]
  /\ orphans' = <<>> /\ uplink' = <<>> /\ downlink' = <<>>
  /\ IF link = "up" THEN link' = "down" /\ Disconnected
                    ELSE UNCHANGED <<link, bridge, tracked>>
  /\ UNCHANGED <<pending, issued, mirror, expects, acked>>

-----------------------------------------------------------------------------
(* What an answer or an unasked message does to the client's copies of the  *)
(* authoritative state.                                                     *)

LastOf(m) == m.at + Len(m.log) - 1
(* The events of m numbered n and up.                                       *)
EventsFrom(m, n) == SubSeq(m.log, n - m.at + 1, Len(m.log))

(* EngineBridge._ingest_snapshot may replace the state, never regress it.   *)
TakesSnapshot(m) == m.body = "snapshot" /\ (bridge.has => Len(m.log) >= bridge.seq)
(* EngineBridge._ingest_events: old events are skipped, and the first new   *)
(* one must be the next one.                                                *)
HasNews(m) == m.body = "events" /\ LastOf(m) > bridge.seq
Gap_Unnoticed(m) == FALSE
Gap(m) == HasNews(m) /\ m.at > bridge.seq + 1
TakesEvents(m) == HasNews(m) /\ ~Gap(m)

BridgeAfter(m) ==
  CASE TakesSnapshot(m) -> [bridge EXCEPT !.has = TRUE, !.seq = Len(m.log)]
    [] TakesEvents(m)   -> [bridge EXCEPT !.has = TRUE, !.seq = LastOf(m)]
    [] Gap(m)           -> [bridge EXCEPT !.resync = TRUE]
    [] OTHER            -> bridge

(* AuthoritativeMirror.ingest_snapshot and ingest_events, called with what  *)
(* the bridge let through.                                                  *)
MirrorTakesSnapshot_Older(m) == TakesSnapshot(m)
MirrorTakesSnapshot(m) == TakesSnapshot(m) /\ (mirror.has => Len(m.log) >= mirror.seq)
MirrorTakesEvents(m) ==
  /\ TakesEvents(m) /\ mirror.has /\ LastOf(m) > mirror.seq
  /\ bridge.seq <= mirror.seq /\ m.at <= mirror.seq + 1

MirrorAfter_HistoryKept(m) ==
  CASE MirrorTakesSnapshot(m) -> [mirror EXCEPT !.has = TRUE, !.seq = Len(m.log), !.base = m.log]
    [] MirrorTakesEvents(m)   ->
         [mirror EXCEPT !.seq = LastOf(m), !.events = @ \o EventsFrom(m, mirror.seq + 1)]
    [] OTHER                  -> mirror
MirrorAfter(m) ==
  CASE MirrorTakesSnapshot(m) ->
         [has |-> TRUE, seq |-> Len(m.log), base |-> m.log, events |-> <<>>]
    [] MirrorTakesEvents(m)   ->
         [mirror EXCEPT !.seq = LastOf(m), !.events = @ \o EventsFrom(m, mirror.seq + 1)]
    [] OTHER                  -> mirror

(* Whether the coordinator emits authoritative_changed.                     *)
Changes(m) ==
  \/ MirrorTakesSnapshot(m)
  \/ /\ TakesEvents(m) /\ mirror.has
     /\ bridge.seq <= mirror.seq \/ LastOf(m) <= mirror.seq

-----------------------------------------------------------------------------
(* EngineBridge._on_transport_message, one action per way it can end.       *)

Incoming(m) == link = "up" /\ downlink # <<>> /\ m = Head(downlink) /\ downlink' = Tail(downlink)

TakePush(m) ==
  /\ Incoming(m) /\ m.to = 0
  /\ bridge' = BridgeAfter(m) /\ mirror' = MirrorAfter(m)
  /\ UNCHANGED <<link, uplink, hostVars, pending, issued, tracked, expects, acked>>

IgnoreStale(m) ==
  /\ Incoming(m) /\ m.to # 0 /\ m.to \notin PendingIds
  /\ UNCHANGED <<link, uplink, hostVars, bridgeVars, clientVars>>

(* The subscriber of bridge_ready, AppShell, asks for the initial snapshot  *)
(* through the coordinator; then the bridge asks for its own resync.        *)
TakeHello(m, r) ==
  /\ Incoming(m) /\ r \in pending /\ m.to = r.id /\ r.kind = "hello" /\ m.body = "hello"
  /\ LET first  == [id |-> issued + 1, kind |-> "snapshot", cmd |-> NoCommand]
         second == [id |-> issued + 2, kind |-> "resync", cmd |-> NoCommand]
         asked  == IF bridge.resync THEN <<first, second>> ELSE <<first>>
     IN /\ issued + Len(asked) <= MaxRequests
        /\ issued' = issued + Len(asked)
        /\ uplink' = uplink \o asked
        /\ pending' = (pending \ {r}) \cup {asked[i] : i \in DOMAIN asked}
        /\ tracked' = tracked \cup {first.id}
  /\ bridge' = [bridge EXCEPT !.ready = TRUE]
  /\ UNCHANGED <<link, hostVars, mirror, expects, acked>>

TakeRefusal(m, r) ==
  /\ Incoming(m) /\ r \in pending /\ m.to = r.id /\ r.kind = "hello" /\ m.body = "refused"
  /\ pending' = pending \ {r} /\ bridge' = [bridge EXCEPT !.ready = FALSE]
  /\ UNCHANGED <<link, uplink, hostVars, issued, clientVars>>

(* An answer to a command, query or preview: the payload is ingested first, *)
(* then the outcome is reported.  A resync that was answered counts as done *)
(* even when its snapshot was not taken.                                    *)
TakeAnswer_AnyKind(m, r) ==
  /\ Incoming(m) /\ r \in pending /\ m.to = r.id /\ r.kind # "hello" /\ m.body # "rejected"
  /\ pending' = pending \ {r} /\ tracked' = tracked \ {r.id}
  /\ bridge' = BridgeAfter(m) /\ mirror' = MirrorAfter(m)
  /\ acked' = acked \cup {r.cmd}
  /\ UNCHANGED <<link, uplink, hostVars, issued, expects>>
TakeAnswer(m, r) ==
  /\ Incoming(m) /\ r \in pending /\ m.to = r.id /\ r.kind # "hello" /\ m.body # "rejected"
  /\ pending' = pending \ {r} /\ tracked' = tracked \ {r.id}
  /\ bridge' = IF r.kind = "resync" THEN [BridgeAfter(m) EXCEPT !.resync = FALSE]
                                    ELSE BridgeAfter(m)
  /\ mirror' = MirrorAfter(m)
  /\ acked' = IF r.kind = "command" THEN acked \cup {r.cmd} ELSE acked
  /\ UNCHANGED <<link, uplink, hostVars, issued, expects>>

TakeRejection(m, r) ==
  /\ Incoming(m) /\ r \in pending /\ m.to = r.id /\ m.body = "rejected"
  /\ pending' = pending \ {r} /\ tracked' = tracked \ {r.id}
  /\ UNCHANGED <<link, uplink, hostVars, bridge, issued, mirror, expects, acked>>

-----------------------------------------------------------------------------
(* The client's own calls                                                   *)

CanSubmit == bridge.ready /\ link = "up" /\ issued < MaxRequests

(* A request tracked by the bridge (_send_tracked) and by the coordinator.  *)
Track(kind, c) ==
  LET r == [id |-> issued + 1, kind |-> kind, cmd |-> c] IN
    /\ issued' = issued + 1 /\ uplink' = Append(uplink, r)
    /\ pending' = pending \cup {r} /\ tracked' = tracked \cup {r.id}

(* A scene makes a command against the state it shows.                      *)
Build(c) ==
  /\ expects[c] = NotBuilt /\ mirror.has
  /\ expects' = [expects EXCEPT ![c] = mirror.seq]
  /\ UNCHANGED <<hostVars, wireVars, bridgeVars, tracked, mirror, acked>>

(* A command is submitted for the first time, or again after a failure.     *)
Submit(c) ==
  /\ CanSubmit /\ expects[c] # NotBuilt
  /\ Track("command", c)
  /\ UNCHANGED <<link, downlink, hostVars, bridge, mirror, expects, acked>>

(* Queries and previews that answer with no authoritative state.            *)
Preview ==
  /\ CanSubmit
  /\ Track("preview", NoCommand)
  /\ UNCHANGED <<link, downlink, hostVars, bridge, mirror, expects, acked>>

(* ClientStateCoordinator.cancel_pending and EngineBridge.cancel_request;   *)
(* a disconnect has already emptied what the coordinator could cancel.      *)
Cancel(r) ==
  /\ r \in pending /\ r.id \in tracked
  /\ pending' = pending \ {r} /\ tracked' = tracked \ {r.id}
  /\ link = "up" /\ issued < MaxRequests /\ issued' = issued + 1
  /\ uplink' = Append(uplink, [id |-> issued + 1, kind |-> "cancel", cmd |-> NoCommand])
  /\ UNCHANGED <<link, downlink, hostVars, bridge, mirror, expects, acked>>

(* EngineBridge._expire_requests: the answer, if one comes, will be stale.  *)
Expire_Forgotten(r) ==
  /\ r \in pending /\ pending' = pending \ {r}
  /\ UNCHANGED <<wireVars, hostVars, bridge, issued, clientVars>>
Expire(r) ==
  /\ r \in pending /\ pending' = pending \ {r} /\ tracked' = tracked \ {r.id}
  /\ UNCHANGED <<wireVars, hostVars, bridge, issued, mirror, expects, acked>>

-----------------------------------------------------------------------------
Init ==
  /\ engine = [run |-> 1, log |-> <<>>] /\ orphans = <<>>
  /\ link = "down" /\ uplink = <<>> /\ downlink = <<>>
  /\ bridge = NewBridge /\ pending = {} /\ issued = 0
  /\ tracked = {} /\ mirror = NewMirror
  /\ expects = [c \in Commands |-> NotBuilt] /\ acked = {}

Host == Serve \/ ServeOrphan \/ ForeignCommand \/ Push \/ Restart

(* The message at the head of the connection is handled.                    *)
Receive == \E m \in {downlink[i] : i \in DOMAIN downlink} :
             \/ TakePush(m) \/ IgnoreStale(m)
             \/ \E r \in pending : \/ TakeHello(m, r) \/ TakeRefusal(m, r)
                                   \/ TakeAnswer(m, r) \/ TakeRejection(m, r)

Network == Open \/ Reopen \/ Connected \/ ConnectFails \/ Drop

User == Preview \/ \E c \in Commands : Build(c) \/ Submit(c)

Next == \/ Host \/ Network \/ Receive \/ User
        \/ \E r \in pending : Cancel(r) \/ Expire(r)

(* The host's loop and the client's _process keep running; the user, other  *)
(* clients and the network owe nothing.  A deadline that has passed is      *)
(* noticed on the next poll, whatever else is pending.                      *)
Fairness == /\ \A i \in 1 .. MaxRequests : WF_vars(\E r \in pending : r.id = i /\ Expire(r))
            /\ WF_vars(Receive) /\ WF_vars(Serve)

Spec == Init /\ [][Next]_vars
LiveSpec == Spec /\ Fairness
-----------------------------------------------------------------------------
(* Type invariant: every variable holds what its declaration says.          *)
TypeOK ==
  /\ engine \in [run : Nat, log : Seq(Entry)]
  /\ link \in {"down", "opening", "up"}
  /\ uplink \in Seq(Request) /\ orphans \in Seq(Commands)
  /\ downlink \in Seq([to : Nat, body : Bodies, log : Seq(Entry), at : Nat])
  /\ bridge \in [ready : BOOLEAN, has : BOOLEAN, seq : Nat, resync : BOOLEAN]
  /\ pending \subseteq Request /\ issued \in Nat /\ tracked \subseteq Nat
  /\ mirror \in [has : BOOLEAN, seq : Nat, base : Seq(Entry), events : Seq(Entry)]
  /\ expects \in [Commands -> Nat \cup {NotBuilt}] /\ acked \subseteq Commands

(* What the scenes rebuild, the mirror's snapshot followed by its events,   *)
(* is exactly mirror.seq commands long, and whatever of it the running      *)
(* engine process has applied stands where that process applied it: none    *)
(* missing, repeated or moved, whatever was lost, expired, resent, or       *)
(* pushed twice or with a hole.  Nothing of an earlier process follows      *)
(* something of a later one; so what comes from one process is a state that *)
(* process has been in.  (It may begin in an earlier process: the client    *)
(* compares sequence numbers only, and its mirror outlives the engine.)     *)
MirrorIsGenuine ==
  mirror.has =>
    /\ Len(Shown) = mirror.seq
    /\ \A i \in DOMAIN Shown :
         Shown[i].run = engine.run => i <= Len(engine.log) /\ Shown[i] = engine.log[i]
    /\ \A i, j \in DOMAIN Shown : i <= j => Shown[i].run <= Shown[j].run

(* EngineBridge and AuthoritativeMirror each keep a sequence and each       *)
(* refuse what does not fit their own; the bridge never counts as taken     *)
(* what the mirror, once it has a snapshot, did not show.                   *)
MirrorKeepsUp == bridge.has /\ mirror.has => bridge.seq <= mirror.seq

(* A command submitted again after a timeout, a cancellation or a lost      *)
(* connection, while an earlier copy may still be on its way, is applied at *)
(* most once: expected_sequence is the only guard against it.               *)
AppliedAtMostOnce ==
  \A i, j \in DOMAIN engine.log :
    engine.log[i].cmd = engine.log[j].cmd /\ engine.log[i].cmd # Foreign => i = j

(* When command_completed(accepted) is emitted, the mirror already shows    *)
(* the command: scenes re-read the mirror at that moment.                   *)
AcceptedIsShown ==
  [][\A c \in acked' \ acked : \E i \in DOMAIN Shown' : Shown'[i].cmd = c]_vars

(* The sequence a scene sees never goes back, across lost connections, new  *)
(* bridges and new engine processes.                                        *)
ShownNeverRegresses == [][mirror'.seq >= mirror.seq]_vars

(* Every request the client waits for is settled: answered, failed,         *)
(* cancelled, expired, or given up with its connection.                     *)
RequestsSettle == \A i \in 1 .. MaxRequests : i \in tracked ~> i \notin tracked
=============================================================================
