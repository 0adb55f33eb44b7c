---------------------------- MODULE BridgeProofs ----------------------------
(***************************************************************************)
(* Proofs about Bridge and Client, for every set of commands, every bound, *)
(* and hosts that push or reconnect.  A step of the client is a step of    *)
(* the bridge's own specification or a shutdown, so the invariant of the   *)
(* line (BInv) is proved once for both; the shell and the controller add   *)
(* CInv to it.                                                             *)
(***************************************************************************)
EXTENDS Client, FiniteSetTheorems, SequenceTheorems, TLAPS

(* Open and Shutdown do the same to the line and to the old bridge.         *)
Reset ==
  /\ \E k \in 0 .. Len(uplink) : Cut(k)
  /\ link' \in {"opening", "down"}
  /\ bridge' = NewBridge /\ pending' = {} /\ issued' = 0 /\ tracked' = {}
  /\ UNCHANGED <<engine, mirror, expects, acked>>

(* Taking what the host sent.                                               *)
Take(m, r) == TakeHello(m, r) \/ TakeRefusal(m, r) \/ TakeAnswer(m, r) \/ TakeRejection(m, r)

LineStep ==
  \/ Serve \/ ServeOrphan \/ ForeignCommand \/ Push \/ Restart
  \/ Reset \/ Reopen \/ Connected \/ ConnectFails \/ Drop
  \/ \E m \in {downlink[i] : i \in DOMAIN downlink} :
       TakePush(m) \/ IgnoreStale(m) \/ \E r \in pending : Take(m, r)
  \/ Preview \/ \E c \in Commands : Build(c) \/ Submit(c)
  \/ \E r \in pending : Cancel(r) \/ Expire(r)

Message == [to : Nat, body : Bodies, log : Seq(Entry), at : Nat]

(* What a message carries is what the running engine has applied.           *)
Current(m, log) ==
  /\ m.body = "events" =>
       /\ m.at >= 1 /\ LastOf(m) <= Len(log)
       /\ \A i \in DOMAIN m.log : m.log[i] = log[m.at + i - 1]
  /\ m.body = "snapshot" =>
       Len(m.log) <= Len(log) /\ \A i \in DOMAIN m.log : m.log[i] = log[i]

LogIsOwn ==
  \A i \in DOMAIN engine.log :
    /\ engine.log[i].run = engine.run
    /\ engine.log[i].cmd # Foreign => expects[engine.log[i].cmd] = i - 1
MessagesAreCurrent == \A n \in DOMAIN downlink : Current(downlink[n], engine.log)
NothingYet == /\ ~bridge.has => bridge.seq = 0
              /\ ~mirror.has => mirror.base = <<>> /\ mirror.events = <<>>
Genuine ==
  /\ Len(Shown) = mirror.seq
  /\ \A i \in DOMAIN Shown :
       /\ Shown[i].run <= engine.run
       /\ Shown[i].run = engine.run => i <= Len(engine.log) /\ Shown[i] = engine.log[i]
  /\ \A i, j \in DOMAIN Shown : i <= j => Shown[i].run <= Shown[j].run

BInv == TypeOK /\ LogIsOwn /\ MessagesAreCurrent /\ NothingYet /\ Genuine /\ MirrorKeepsUp

-----------------------------------------------------------------------------
(* A step of the client is a step of the line, or none.                     *)
LEMMA ClientSteps ==
  ASSUME intent \in Commands \cup {NoIntent}, [ClientNext]_allVars
  PROVE  LineStep \/ UNCHANGED vars
<1> USE DEF LineStep, Take, vars, hostVars, wireVars, bridgeVars, clientVars, allVars
<1>1. CASE Start BY <1>1 DEF Start, Open, Reset
<1>2. CASE Shutdown BY <1>2 DEF Shutdown, Reset
<1>3. CASE LinkOpens \/ LinkFails \/ LinkLost \/ EngineRestarts \/ HostServes \/ OthersAct
  BY <1>3 DEF LinkOpens, LinkFails, LinkLost, EngineRestarts, HostServes, OthersAct
<1>4. CASE Hear
  <2>1. PICK m \in {downlink[i] : i \in DOMAIN downlink} :
          Stale(m) \/ \E r \in pending : \/ Negotiated(m, r) \/ Incompatible(m, r)
                                         \/ Answered(m, r) \/ Rejected(m, r)
    BY <1>4 DEF Hear
  <2>2. CASE Stale(m) BY <2>2 DEF Stale
  <2>3. CASE \E r \in pending : \/ Negotiated(m, r) \/ Incompatible(m, r)
                                \/ Answered(m, r) \/ Rejected(m, r)
    BY <2>3 DEF Negotiated, Incompatible, Answered, Rejected
  <2> QED BY <2>1, <2>2, <2>3
<1>5. CASE LoadDone \/ LoadFails BY <1>5 DEF LoadDone, LoadFails
<1>6. CASE \E r \in pending : Expired(r) \/ CancelPreview(r)
  BY <1>6 DEF Expired, CancelPreview
<1>7. CASE (\E c \in Commands : Arm(c)) \/ Disarm \/ AskPreview
  BY <1>7 DEF Arm, Disarm, AskPreview
<1>8. CASE Confirm
  <2>1. Submit(intent) /\ intent # NoIntent BY <1>8 DEF Confirm
  <2>2. intent \in Commands BY <2>1
  <2> QED BY <2>1, <2>2
<1>9. CASE UNCHANGED allVars BY <1>9
<1> QED BY <1>1, <1>2, <1>3, <1>4, <1>5, <1>6, <1>7, <1>8, <1>9 DEF ClientNext
-----------------------------------------------------------------------------
(* Types                                                                    *)

(* No command is called "none", and another client's is not one of ours.    *)
LEMMA Names == Foreign \notin Commands /\ NoCommand \notin Commands
BY BridgeAssumption DEF NoCommand

LEMMA RequestFields ==
  ASSUME NEW r \in Request
  PROVE  /\ r.id \in Nat /\ r.kind \in Kinds /\ r.cmd \in Commands \cup {NoCommand}
         /\ r.kind = "command" <=> r.cmd \in Commands
BY Names DEF Request, Kinds

(* What is kept of a lost connection are commands, in the order sent.       *)
LEMMA CutKeepsCommands ==
  ASSUME TypeOK, NEW k \in 0 .. Len(uplink), Cut(k)
  PROVE  orphans' \in Seq(Commands) /\ uplink' = <<>> /\ downlink' = <<>>
<1> DEFINE read == {i \in 1 .. k : uplink[i].kind = "command"}
<1>1. uplink \in Seq(Request) /\ orphans \in Seq(Commands) BY DEF TypeOK
<1>2. Cardinality(read) \in Nat
  <2>1. IsFiniteSet(1 .. k) BY FS_Interval
  <2>2. IsFiniteSet(read) BY <2>1, FS_Subset
  <2> QED BY <2>2, FS_CardinalityType
<1>3. PICK nth \in [1 .. Cardinality(read) -> read] :
        orphans' = orphans \o [i \in DOMAIN nth |-> uplink[nth[i]].cmd]
  BY DEF Cut
<1>4. \A i \in read : uplink[i].cmd \in Commands
  <2> TAKE i \in read
  <2>1. uplink[i] \in Request /\ uplink[i].kind = "command" BY <1>1
  <2> QED BY <2>1, RequestFields
<1> DEFINE kept == [i \in DOMAIN nth |-> uplink[nth[i]].cmd]
<1> HIDE DEF read
<1>5. kept \in Seq(Commands)
  <2>1. kept \in [1 .. Cardinality(read) -> Commands] BY <1>3, <1>4
  <2> HIDE DEF kept
  <2> QED BY <1>2, <2>1
<1> HIDE DEF kept
<1>6. orphans' = orphans \o kept BY <1>3 DEF kept
<1>7. orphans' \in Seq(Commands) BY <1>1, <1>5, <1>6
<1> QED BY <1>7 DEF Cut

(* Reading a request leaves the engine as it was, or appends its command    *)
(* if it expects the engine's sequence.                                     *)
LEMMA ExecutedEffect ==
  ASSUME TypeOK, NEW c \in Commands \cup {NoCommand}
  PROVE  \/ Executed(c) = engine
         \/ /\ c \in Commands /\ Accepts(c)
            /\ Executed(c) = [run |-> engine.run, log |-> Applied(c)]
<1>1. engine \in [run : Nat, log : Seq(Entry)] BY DEF TypeOK
<1>2. CASE c # NoCommand /\ Accepts(c)
  BY <1>1, <1>2 DEF Executed
<1>3. CASE ~(c # NoCommand /\ Accepts(c)) BY <1>3 DEF Executed
<1> QED BY <1>2, <1>3

LEMMA AppliedType ==
  ASSUME TypeOK, NEW c \in Commands \cup {Foreign}
  PROVE  /\ Applied(c) \in Seq(Entry) /\ Len(Applied(c)) = Len(engine.log) + 1
         /\ \A i \in 1 .. Len(engine.log) : Applied(c)[i] = engine.log[i]
         /\ Applied(c)[Len(engine.log) + 1] = [cmd |-> c, run |-> engine.run]
<1>1. engine.log \in Seq(Entry) /\ [cmd |-> c, run |-> engine.run] \in Entry
  BY DEF TypeOK, Entry
<1> QED BY <1>1 DEF Applied

(* What the host answers, case by case.                                     *)
LEMMA Answers ==
  ASSUME NEW r, r.kind \in Kinds \ {"cancel"}
  PROVE  /\ r.kind = "command" /\ ~Accepts(r.cmd) =>
              AnswerTo(r) = Answer(r, "rejected", <<>>, 0)
         /\ r.kind = "command" /\ Accepts(r.cmd) /\ ~Tactical =>
              AnswerTo(r) = Answer(r, "events", <<Last(Applied(r.cmd))>>, Len(engine.log) + 1)
         /\ r.kind = "command" /\ Accepts(r.cmd) /\ Tactical =>
              AnswerTo(r) = Answer(r, "snapshot", Applied(r.cmd), 0)
         /\ r.kind \in {"snapshot", "resync"} =>
              AnswerTo(r) = Answer(r, "snapshot", engine.log, 0)
         /\ r.kind \in {"preview", "hello"} =>
              \E b \in {"preview", "rejected", "hello"} : AnswerTo(r) = Answer(r, b, <<>>, 0)
<1> USE DEF AnswerTo, Kinds
<1>1. CASE r.kind = "command"
  <2>1. ~Accepts(r.cmd) => AnswerTo(r) = Answer(r, "rejected", <<>>, 0) BY <1>1
  <2>2. Accepts(r.cmd) /\ ~Tactical =>
          AnswerTo(r) = Answer(r, "events", <<Last(Applied(r.cmd))>>, Len(engine.log) + 1)
    BY <1>1
  <2>3. Accepts(r.cmd) /\ Tactical => AnswerTo(r) = Answer(r, "snapshot", Applied(r.cmd), 0)
    BY <1>1
  <2> QED BY ONLY <1>1, <2>1, <2>2, <2>3
<1>2. CASE r.kind \in {"snapshot", "resync"} BY <1>2
<1>3. CASE r.kind = "preview"
  <2>1. AnswerTo(r) = Answer(r, IF Tactical THEN "preview" ELSE "rejected", <<>>, 0) BY <1>3
  <2>2. (IF Tactical THEN "preview" ELSE "rejected") \in {"preview", "rejected", "hello"} OBVIOUS
  <2> QED BY <1>3, <2>1, <2>2
<1>4. CASE r.kind = "hello"
  <2>1. AnswerTo(r) = Answer(r, "hello", <<>>, 0) BY <1>4
  <2> QED BY <1>4, <2>1
<1> QED BY <1>1, <1>2, <1>3, <1>4

LEMMA Taking ==
  ASSUME NEW m
  PROVE  /\ TakesSnapshot(m) => BridgeAfter(m) = [bridge EXCEPT !.has = TRUE, !.seq = Len(m.log)]
         /\ TakesEvents(m) => BridgeAfter(m) = [bridge EXCEPT !.has = TRUE, !.seq = LastOf(m)]
         /\ ~TakesSnapshot(m) /\ ~TakesEvents(m) =>
              BridgeAfter(m) \in {bridge, [bridge EXCEPT !.resync = TRUE]}
         /\ MirrorTakesSnapshot(m) =>
              MirrorAfter(m) = [has |-> TRUE, seq |-> Len(m.log), base |-> m.log, events |-> <<>>]
         /\ MirrorTakesEvents(m) =>
              MirrorAfter(m) = [mirror EXCEPT !.seq = LastOf(m),
                                              !.events = mirror.events \o EventsFrom(m, mirror.seq + 1)]
         /\ ~MirrorTakesSnapshot(m) /\ ~MirrorTakesEvents(m) => MirrorAfter(m) = mirror
<1> USE DEF BridgeAfter, MirrorAfter, MirrorTakesSnapshot, MirrorTakesEvents, TakesSnapshot,
            TakesEvents, HasNews
<1>1. CASE m.body = "snapshot"
  <2>1. ~TakesEvents(m) /\ ~MirrorTakesEvents(m) /\ ~Gap(m) BY <1>1 DEF Gap
  <2>2. CASE TakesSnapshot(m) BY <2>1, <2>2
  <2>3. CASE ~TakesSnapshot(m) BY <2>1, <2>3
  <2> QED BY <2>2, <2>3
<1>2. CASE m.body # "snapshot"
  <2>1. ~TakesSnapshot(m) /\ ~MirrorTakesSnapshot(m) BY <1>2
  <2>2. TakesEvents(m) => ~Gap(m) OBVIOUS
  <2> HIDE DEF TakesEvents, TakesSnapshot, MirrorTakesSnapshot
  <2>3. TakesEvents(m) => BridgeAfter(m) = [bridge EXCEPT !.has = TRUE, !.seq = LastOf(m)]
    BY <2>1, <2>2
  <2>4. ~TakesEvents(m) => BridgeAfter(m) \in {bridge, [bridge EXCEPT !.resync = TRUE]}
    BY <2>1, <2>2
  <2> QED BY <2>1, <2>3, <2>4
<1> QED BY <1>1, <1>2

LEMMA AnswerIsTyped ==
  ASSUME TypeOK, NEW r \in Request, r.kind # "cancel"
  PROVE  AnswerTo(r) \in Message
<1> USE DEF Message, Bodies, Answer
<1>0. r.id \in Nat /\ r.kind \in Kinds \ {"cancel"} BY RequestFields
<1>1. engine.log \in Seq(Entry) BY DEF TypeOK
<1>2. CASE r.kind = "command"
  <2>1. r.cmd \in Commands BY <1>2, RequestFields
  <2>2. Applied(r.cmd) \in Seq(Entry) /\ Len(Applied(r.cmd)) = Len(engine.log) + 1
    BY <2>1, AppliedType
  <2>3. <<Last(Applied(r.cmd))>> \in Seq(Entry) BY <1>1, <2>2 DEF Last
  <2>4. CASE ~Accepts(r.cmd)
    <3>1. AnswerTo(r) = Answer(r, "rejected", <<>>, 0) BY <1>0, <1>2, <2>4, Answers
    <3> QED BY <1>0, <3>1
  <2>5. CASE Accepts(r.cmd) /\ ~Tactical
    <3>1. AnswerTo(r) = Answer(r, "events", <<Last(Applied(r.cmd))>>, Len(engine.log) + 1)
      BY <1>0, <1>2, <2>5, Answers
    <3> QED BY <1>0, <1>1, <2>3, <3>1
  <2>6. CASE Accepts(r.cmd) /\ Tactical BY <1>0, <1>2, <2>2, <2>6, Answers
  <2> QED BY <2>4, <2>5, <2>6
<1>3. CASE r.kind \in {"snapshot", "resync"} BY <1>0, <1>1, <1>3, Answers
<1>4. CASE r.kind \in {"preview", "hello"}
  <2>1. PICK b \in {"preview", "rejected", "hello"} : AnswerTo(r) = Answer(r, b, <<>>, 0)
    BY <1>0, <1>4, Answers
  <2> QED BY <1>0, <2>1
<1> QED BY <1>0, <1>2, <1>3, <1>4 DEF Kinds

Copy == [ready : BOOLEAN, has : BOOLEAN, seq : Nat, resync : BOOLEAN]
Mirrored == [has : BOOLEAN, seq : Nat, base : Seq(Entry), events : Seq(Entry)]

LEMMA TakingIsTyped ==
  ASSUME TypeOK, NEW m \in Message, m.body = "events" => m.at >= 1
  PROVE  BridgeAfter(m) \in Copy /\ MirrorAfter(m) \in Mirrored
<1>1. bridge \in Copy /\ mirror \in Mirrored BY DEF TypeOK, Copy, Mirrored
<1>2. m.at \in Nat /\ m.log \in Seq(Entry) BY DEF Message
<1>3. BridgeAfter(m) \in Copy
  <2>1. CASE TakesSnapshot(m)
    <3>1. BridgeAfter(m) = [bridge EXCEPT !.has = TRUE, !.seq = Len(m.log)] BY <2>1, Taking
    <3>2. Len(m.log) \in Nat BY <1>2
    <3> QED BY <1>1, <3>1, <3>2 DEF Copy
  <2>2. CASE TakesEvents(m)
    <3>1. LastOf(m) \in Nat BY <1>1, <1>2, <2>2 DEF TakesEvents, HasNews, LastOf, Copy
    <3>2. BridgeAfter(m) = [bridge EXCEPT !.has = TRUE, !.seq = LastOf(m)] BY <2>2, Taking
    <3> QED BY <1>1, <3>1, <3>2 DEF Copy
  <2>3. CASE ~TakesSnapshot(m) /\ ~TakesEvents(m)
    <3>1. BridgeAfter(m) \in {bridge, [bridge EXCEPT !.resync = TRUE]} BY <2>3, Taking
    <3> QED BY <1>1, <3>1 DEF Copy
  <2> QED BY <2>1, <2>2, <2>3
<1>4. MirrorAfter(m) \in Mirrored
  <2>1. CASE MirrorTakesSnapshot(m)
    <3>1. MirrorAfter(m) = [has |-> TRUE, seq |-> Len(m.log), base |-> m.log, events |-> <<>>]
      BY <2>1, Taking
    <3> QED BY <1>2, <3>1 DEF Mirrored
  <2>2. CASE MirrorTakesEvents(m)
    <3>1. LastOf(m) \in Nat /\ m.at <= mirror.seq + 1
      BY <1>1, <1>2, <2>2 DEF MirrorTakesEvents, LastOf, Mirrored
    <3>2. EventsFrom(m, mirror.seq + 1) \in Seq(Entry)
      BY <1>1, <1>2, <3>1 DEF EventsFrom, Mirrored
    <3>3. mirror.events \o EventsFrom(m, mirror.seq + 1) \in Seq(Entry)
      BY <1>1, <3>2 DEF Mirrored
    <3> HIDE DEF EventsFrom, LastOf
    <3> QED BY <1>1, <2>2, <3>1, <3>3, Taking DEF Mirrored
  <2>3. CASE ~MirrorTakesSnapshot(m) /\ ~MirrorTakesEvents(m) BY <1>1, <2>3, Taking
  <2> QED BY <2>1, <2>2, <2>3
<1> QED BY <1>3, <1>4

LEMMA LineIsTyped ==
  ASSUME TypeOK, MessagesAreCurrent, LineStep \/ UNCHANGED vars
  PROVE  TypeOK'
<1> USE DEF hostVars, wireVars, bridgeVars, clientVars
<1>1. /\ engine \in [run : Nat, log : Seq(Entry)] /\ uplink \in Seq(Request)
      /\ orphans \in Seq(Commands) /\ downlink \in Seq(Message) /\ pending \subseteq Request
      /\ issued \in Nat /\ tracked \subseteq Nat /\ expects \in [Commands -> Nat \cup {NotBuilt}]
      /\ acked \subseteq Commands /\ bridge \in Copy /\ mirror \in Mirrored
  BY DEF TypeOK, Message, Copy, Mirrored
<1>2. NewBridge \in Copy BY DEF NewBridge, Copy
<1>3. ASSUME NEW c \in Commands \cup {NoCommand}
      PROVE  Executed(c) \in [run : Nat, log : Seq(Entry)]
  <2>1. CASE Executed(c) = engine BY <1>1, <2>1
  <2>2. CASE c \in Commands /\ Executed(c) = [run |-> engine.run, log |-> Applied(c)]
    <3>1. Applied(c) \in Seq(Entry) BY <2>2, AppliedType
    <3> QED BY <1>1, <2>2, <3>1
  <2> QED BY <2>1, <2>2, ExecutedEffect
<1>4. CASE Serve
  <2> DEFINE r == Head(uplink)
  <2>1. r \in Request /\ Tail(uplink) \in Seq(Request) BY <1>1, <1>4 DEF Serve
  <2>2. engine' \in [run : Nat, log : Seq(Entry)] BY <1>3, <1>4, <2>1, RequestFields DEF Serve
  <2>3. Answer(r, "refused", <<>>, 0) \in Message
    BY <2>1, RequestFields DEF Answer, Message, Bodies
  <2>4. r.kind # "cancel" => AnswerTo(r) \in Message BY <2>1, AnswerIsTyped
  <2>5. downlink' \in Seq(Message)
    <3>1. downlink' = downlink \/ \E m \in Message : downlink' = Append(downlink, m)
      BY <1>4, <2>3, <2>4 DEF Serve
    <3>2. CASE downlink' = downlink BY <1>1, <3>2
    <3>3. CASE \E m \in Message : downlink' = Append(downlink, m) BY <1>1, <3>3
    <3> QED BY <3>1, <3>2, <3>3
  <2> QED BY <1>1, <1>4, <2>1, <2>2, <2>5 DEF Serve, TypeOK, Message
<1>5. CASE ServeOrphan
  <2>1. Head(orphans) \in Commands /\ Tail(orphans) \in Seq(Commands) BY <1>1, <1>5 DEF ServeOrphan
  <2>2. engine' \in [run : Nat, log : Seq(Entry)] BY <1>3, <1>5, <2>1 DEF ServeOrphan
  <2> QED BY <1>1, <1>5, <2>1, <2>2 DEF ServeOrphan, TypeOK
<1>6. CASE ForeignCommand
  <2>1. Applied(Foreign) \in Seq(Entry) BY AppliedType
  <2> QED BY <1>1, <1>6, <2>1 DEF ForeignCommand, TypeOK
<1>7. CASE Push
  <2>1. ASSUME NEW i \in 1 .. Len(engine.log), NEW j \in i .. Len(engine.log)
        PROVE  [to |-> 0, body |-> "events", log |-> SubSeq(engine.log, i, j), at |-> i] \in Message
    <3>1. SubSeq(engine.log, i, j) \in Seq(Entry) BY <1>1
    <3> QED BY <3>1 DEF Message, Bodies
  <2>2. [to |-> 0, body |-> "snapshot", log |-> engine.log, at |-> 0] \in Message
    BY <1>1 DEF Message, Bodies
  <2>3. downlink' \in Seq(Message)
    <3>1. \E m \in Message : downlink' = Append(downlink, m) BY <1>7, <2>1, <2>2 DEF Push
    <3> QED BY <1>1, <3>1
  <2> QED BY <1>1, <1>7, <2>3 DEF Push, TypeOK, Message
<1>8. ASSUME Disconnected PROVE bridge' \in Copy /\ tracked' = {}
  BY <1>1, <1>8 DEF Disconnected, Copy
<1>9. CASE Restart
  <2>1. engine' \in [run : Nat, log : Seq(Entry)] /\ orphans' = <<>> /\ uplink' = <<>>
        /\ downlink' = <<>> /\ UNCHANGED <<pending, issued, mirror, expects, acked>>
    BY <1>1, <1>9 DEF Restart
  <2>2. CASE link = "up"
    <3>1. link' = "down" /\ bridge' \in Copy /\ tracked' = {} BY <1>8, <1>9, <2>2 DEF Restart
    <3> QED BY <1>1, <2>1, <3>1 DEF TypeOK, Message, Copy, Mirrored
  <2>3. CASE link # "up"
    <3>1. UNCHANGED <<link, bridge, tracked>> BY <1>9, <2>3 DEF Restart
    <3> QED BY <1>1, <2>1, <3>1 DEF TypeOK, Message, Copy, Mirrored
  <2> QED BY <2>2, <2>3
<1>10. CASE Reset
  <2>1. orphans' \in Seq(Commands) /\ uplink' = <<>> /\ downlink' = <<>>
    BY <1>10, CutKeepsCommands DEF Reset
  <2> QED BY <1>1, <1>2, <1>10, <2>1 DEF Reset, TypeOK, Copy
<1>11. CASE Drop
  <2>1. orphans' \in Seq(Commands) /\ uplink' = <<>> /\ downlink' = <<>>
    BY <1>11, CutKeepsCommands DEF Drop
  <2> QED BY <1>1, <1>8, <1>11, <2>1 DEF Drop, TypeOK, Copy
<1>12. CASE Reopen \/ ConnectFails
  <2>1. /\ link' \in {"down", "opening", "up"}
        /\ UNCHANGED <<uplink, downlink, engine, orphans, bridge, pending, issued>>
        /\ UNCHANGED <<tracked, mirror, expects, acked>>
    BY <1>12 DEF Reopen, ConnectFails
  <2> QED BY <1>1, <2>1 DEF TypeOK, Message, Copy, Mirrored
<1>13. CASE Connected
  <2>1. [id |-> issued + 1, kind |-> "hello", cmd |-> NoCommand] \in Request
    BY <1>1 DEF Request, Kinds
  <2>2. bridge' \in Copy BY <1>1, <1>13 DEF Connected, Copy
  <2> QED BY <1>1, <1>13, <2>1, <2>2 DEF Connected, TypeOK, Copy
<1>14. ASSUME NEW m \in {downlink[i] : i \in DOMAIN downlink},
              TakePush(m) \/ IgnoreStale(m) \/ \E r \in pending : Take(m, r)
       PROVE  TypeOK'
  <2>1. m \in Message /\ (m.body = "events" => m.at >= 1)
    BY <1>1 DEF MessagesAreCurrent, Current
  <2>2. BridgeAfter(m) \in Copy /\ MirrorAfter(m) \in Mirrored BY <2>1, TakingIsTyped
  <2>4. ASSUME Incoming(m) PROVE downlink' \in Seq(Message) BY <1>1, <2>4 DEF Incoming
  <2>5. CASE TakePush(m) BY <1>1, <2>2, <2>4, <2>5 DEF TakePush, TypeOK, Message, Copy, Mirrored
  <2>6. CASE IgnoreStale(m) BY <1>1, <2>4, <2>6 DEF IgnoreStale, TypeOK, Message
  <2>7. ASSUME NEW r \in pending, TakeHello(m, r) PROVE TypeOK'
    <3> DEFINE first  == [id |-> issued + 1, kind |-> "snapshot", cmd |-> NoCommand]
               second == [id |-> issued + 2, kind |-> "resync", cmd |-> NoCommand]
               asked == IF bridge.resync THEN <<first, second>> ELSE <<first>>
    <3>1. first \in Request /\ second \in Request /\ first.id = issued + 1
      BY <1>1 DEF Request, Kinds
    <3>2. /\ issued' = issued + Len(asked) /\ uplink' = uplink \o asked
          /\ pending' = (pending \ {r}) \cup {asked[i] : i \in DOMAIN asked}
          /\ tracked' = tracked \cup {first.id} /\ bridge' = [bridge EXCEPT !.ready = TRUE]
          /\ Incoming(m) /\ UNCHANGED <<link, engine, orphans, mirror, expects, acked>>
      BY <2>7 DEF TakeHello
    <3> HIDE DEF first, second
    <3>3. asked \in Seq(Request) BY <3>1
    <3> HIDE DEF asked
    <3>4. issued' \in Nat /\ uplink' \in Seq(Request) /\ pending' \subseteq Request
      BY <1>1, <3>2, <3>3
    <3>5. tracked' \subseteq Nat BY <1>1, <3>1, <3>2
    <3>6. bridge' \in Copy BY <1>1, <3>2 DEF Copy
    <3> QED BY <1>1, <2>4, <3>2, <3>4, <3>5, <3>6 DEF TypeOK, Message, Copy, Mirrored
  <2>8. ASSUME NEW r \in pending, TakeRefusal(m, r) PROVE TypeOK'
    <3>1. bridge' \in Copy BY <1>1, <2>8 DEF TakeRefusal, Copy
    <3> QED BY <1>1, <2>4, <2>8, <3>1 DEF TakeRefusal, TypeOK, Message, Copy
  <2>9. ASSUME NEW r \in pending, TakeAnswer(m, r) PROVE TypeOK'
    <3>1. bridge' \in Copy BY <2>2, <2>9 DEF TakeAnswer, Copy
    <3>2. r.kind = "command" => r.cmd \in Commands BY <1>1, RequestFields
    <3>3. acked' \subseteq Commands BY <1>1, <2>9, <3>2 DEF TakeAnswer
    <3> HIDE DEF hostVars
    <3> QED BY <1>1, <2>2, <2>4, <2>9, <3>1, <3>3
         DEF TakeAnswer, hostVars, TypeOK, Message, Copy, Mirrored
  <2>10. ASSUME NEW r \in pending, TakeRejection(m, r) PROVE TypeOK'
    BY <1>1, <2>4, <2>10 DEF TakeRejection, TypeOK, Message
  <2> QED BY <1>14, <2>5, <2>6, <2>7, <2>8, <2>9, <2>10 DEF Take
<1>15. CASE Preview
  <2>1. [id |-> issued + 1, kind |-> "preview", cmd |-> NoCommand] \in Request
    BY <1>1 DEF Request, Kinds
  <2> QED BY <1>1, <1>15, <2>1 DEF Preview, Track, TypeOK
<1>16. ASSUME NEW c \in Commands, Build(c) PROVE TypeOK'
  <2>1. expects' \in [Commands -> Nat \cup {NotBuilt}] BY <1>1, <1>16 DEF Build, Mirrored
  <2> QED BY <1>1, <1>16, <2>1 DEF Build, TypeOK
<1>17. ASSUME NEW c \in Commands, Submit(c) PROVE TypeOK'
  <2>1. [id |-> issued + 1, kind |-> "command", cmd |-> c] \in Request
    BY <1>1 DEF Request
  <2> QED BY <1>1, <1>17, <2>1 DEF Submit, Track, TypeOK
<1>18. ASSUME NEW r \in pending, Cancel(r) PROVE TypeOK'
  <2>1. [id |-> issued + 1, kind |-> "cancel", cmd |-> NoCommand] \in Request
    BY <1>1 DEF Request, Kinds
  <2>2. /\ uplink' = Append(uplink, [id |-> issued + 1, kind |-> "cancel", cmd |-> NoCommand])
        /\ pending' = pending \ {r} /\ tracked' = tracked \ {r.id} /\ issued' = issued + 1
        /\ UNCHANGED <<link, downlink, engine, orphans, bridge, mirror, expects, acked>>
    BY <1>18 DEF Cancel
  <2>3. uplink' \in Seq(Request) BY <1>1, <2>1, <2>2
  <2>4. issued' \in Nat BY <1>1, <2>2
  <2>5. pending' \subseteq Request BY <1>1, <2>2
  <2>6. tracked' \subseteq Nat BY <1>1, <2>2
  <2>7. UNCHANGED <<link, downlink, engine, orphans, bridge, mirror, expects, acked>> BY <2>2
  <2> QED BY <2>3, <2>4, <2>5, <2>6, <2>7 DEF TypeOK
<1>19. ASSUME NEW r \in pending, Expire(r) PROVE TypeOK'
  BY <1>1, <1>19 DEF Expire, TypeOK
<1>20. CASE UNCHANGED vars BY <1>20 DEF vars, TypeOK
<1> QED BY <1>4, <1>5, <1>6, <1>7, <1>9, <1>10, <1>11, <1>12, <1>13, <1>14, <1>15, <1>16,
           <1>17, <1>18, <1>19, <1>20 DEF LineStep

-----------------------------------------------------------------------------
(* What the engine has applied, and what is said of it on the connection    *)

(* What a step does to the engine and to the commands built.                *)
LEMMA EngineEffect ==
  ASSUME TypeOK, LineStep \/ UNCHANGED vars
  PROVE  \/ UNCHANGED <<engine, expects>>
         \/ /\ \E c \in Commands \cup {Foreign} :
                 /\ c \in Commands => Accepts(c)
                 /\ engine' = [run |-> engine.run, log |-> Applied(c)]
            /\ UNCHANGED expects
         \/ Restart
         \/ UNCHANGED <<engine, downlink, mirror>> /\ \E c \in Commands : Build(c)
<1> DEFINE Goal == \/ UNCHANGED <<engine, expects>>
                   \/ /\ \E c \in Commands \cup {Foreign} :
                           /\ c \in Commands => Accepts(c)
                           /\ engine' = [run |-> engine.run, log |-> Applied(c)]
                      /\ UNCHANGED expects
                   \/ Restart
                   \/ UNCHANGED <<engine, downlink, mirror>> /\ \E c \in Commands : Build(c)
<1> SUFFICES Goal OBVIOUS
<1> USE DEF vars, hostVars, wireVars, bridgeVars, clientVars
<1>1. CASE Serve
  <2>1. Head(uplink) \in Request BY <1>1 DEF Serve, TypeOK
  <2>2. engine' = Executed(Head(uplink).cmd) /\ UNCHANGED expects BY <1>1 DEF Serve
  <2> QED BY <2>1, <2>2, ExecutedEffect, RequestFields
<1>2. CASE ServeOrphan
  <2>1. Head(orphans) \in Commands BY <1>2 DEF ServeOrphan, TypeOK
  <2>2. engine' = Executed(Head(orphans)) /\ UNCHANGED expects BY <1>2 DEF ServeOrphan
  <2> QED BY <2>1, <2>2, ExecutedEffect
<1>3. CASE ForeignCommand
  <2>1. engine' = [run |-> engine.run, log |-> Applied(Foreign)] /\ UNCHANGED expects
    BY <1>3 DEF ForeignCommand, TypeOK
  <2> QED BY <2>1, Names
<1>4. CASE Restart BY <1>4
<1>5. CASE Push \/ Reset \/ Reopen \/ Connected \/ ConnectFails \/ Drop \/ Preview \/ UNCHANGED vars
  BY <1>5 DEF Push, Reset, Reopen, Connected, ConnectFails, Drop, Preview
<1>6. CASE \E m \in {downlink[i] : i \in DOMAIN downlink} :
             TakePush(m) \/ IgnoreStale(m) \/ \E r \in pending : Take(m, r)
  BY <1>6 DEF TakePush, IgnoreStale, Take, TakeHello, TakeRefusal, TakeAnswer, TakeRejection
<1>7. CASE \E c \in Commands : Build(c) BY <1>7 DEF Build
<1>8. CASE (\E c \in Commands : Submit(c)) \/ \E r \in pending : Cancel(r) \/ Expire(r)
  BY <1>8 DEF Submit, Cancel, Expire
<1> HIDE DEF Goal
<1> QED BY <1>1, <1>2, <1>3, <1>4, <1>5, <1>6, <1>7, <1>8 DEF LineStep

(* The log only grows while a process runs.                                 *)
Grows(old, new) ==
  Len(old) <= Len(new) /\ \A i \in 1 .. Len(old) : new[i] = old[i]

LEMMA EngineGrows ==
  ASSUME TypeOK, LineStep \/ UNCHANGED vars
  PROVE  Restart \/ (engine'.run = engine.run /\ Grows(engine.log, engine'.log))
<1>1. engine.log \in Seq(Entry) BY DEF TypeOK
<1>2. ASSUME NEW c \in Commands \cup {Foreign} PROVE Grows(engine.log, Applied(c))
  <2>1. /\ Len(Applied(c)) = Len(engine.log) + 1
        /\ \A i \in 1 .. Len(engine.log) : Applied(c)[i] = engine.log[i]
    BY AppliedType
  <2> QED BY <1>1, <2>1 DEF Grows
<1>3. Grows(engine.log, engine.log) BY <1>1 DEF Grows
<1>4. CASE UNCHANGED engine BY <1>3, <1>4
<1>5. CASE \E c \in Commands \cup {Foreign} : engine' = [run |-> engine.run, log |-> Applied(c)]
  BY <1>2, <1>5
<1> QED BY <1>4, <1>5, EngineEffect

(* Every command of ours stands where the sequence it expected put it.      *)
LEMMA LogStaysOwn ==
  ASSUME TypeOK, TypeOK', LogIsOwn, LineStep \/ UNCHANGED vars
  PROVE  LogIsOwn'
<1>1. engine.log \in Seq(Entry) /\ engine.run \in Nat /\ expects \in [Commands -> Nat \cup {NotBuilt}]
  BY DEF TypeOK
<1>2. CASE UNCHANGED <<engine, expects>> BY <1>2 DEF LogIsOwn
<1>3. ASSUME NEW c \in Commands \cup {Foreign}, c \in Commands => Accepts(c), UNCHANGED expects,
             engine' = [run |-> engine.run, log |-> Applied(c)]
      PROVE  LogIsOwn'
  <2> SUFFICES ASSUME NEW i \in DOMAIN engine.log'
               PROVE  /\ engine'.log[i].run = engine'.run
                      /\ engine'.log[i].cmd # Foreign => expects[engine'.log[i].cmd] = i - 1
    BY <1>3 DEF LogIsOwn
  <2>0. /\ Applied(c) \in Seq(Entry) /\ Len(Applied(c)) = Len(engine.log) + 1
        /\ \A n \in 1 .. Len(engine.log) : Applied(c)[n] = engine.log[n]
        /\ Applied(c)[Len(engine.log) + 1] = [cmd |-> c, run |-> engine.run]
    BY AppliedType
  <2>1. i \in 1 .. Len(engine.log) + 1 BY <1>1, <1>3, <2>0
  <2>2. CASE i \in 1 .. Len(engine.log)
    <3>1. engine'.log[i] = engine.log[i] /\ engine'.run = engine.run BY <1>3, <2>0, <2>2
    <3>2. i \in DOMAIN engine.log BY <1>1, <2>2
    <3> QED BY <3>1, <3>2 DEF LogIsOwn
  <2>3. CASE i = Len(engine.log) + 1
    <3>1. engine'.log[i] = [cmd |-> c, run |-> engine.run] BY <1>3, <2>0, <2>3
    <3>2. c # Foreign => expects[c] = Len(engine.log) BY <1>3 DEF Accepts
    <3> QED BY <1>1, <1>3, <2>3, <3>1, <3>2
  <2> QED BY <1>1, <2>1, <2>2, <2>3
<1>4. CASE Restart BY <1>4 DEF Restart, LogIsOwn
<1>5. ASSUME NEW c \in Commands, Build(c), UNCHANGED engine PROVE LogIsOwn'
  <2> SUFFICES ASSUME NEW i \in DOMAIN engine.log, engine.log[i].cmd # Foreign
               PROVE  expects'[engine.log[i].cmd] = i - 1
    BY <1>5 DEF LogIsOwn
  <2>1. engine.log[i] \in Entry /\ i \in Nat \ {0} BY <1>1
  <2>2. engine.log[i].cmd \in Commands BY <2>1 DEF Entry
  <2>3. expects[engine.log[i].cmd] = i - 1 BY DEF LogIsOwn
  <2>4. engine.log[i].cmd # c BY <1>5, <2>1, <2>3 DEF Build, NotBuilt
  <2> QED BY <1>1, <1>5, <2>2, <2>3, <2>4 DEF Build
<1> QED BY <1>2, <1>3, <1>4, <1>5, EngineEffect

LEMMA StaysCurrent ==
  ASSUME NEW m \in Message, NEW old \in Seq(Entry), NEW new \in Seq(Entry),
         Grows(old, new), Current(m, old)
  PROVE  Current(m, new)
<1>1. m.log \in Seq(Entry) /\ m.at \in Nat BY DEF Message
<1>2. CASE m.body = "events"
  <2>1. /\ m.at >= 1 /\ LastOf(m) <= Len(old)
        /\ \A i \in DOMAIN m.log : m.log[i] = old[m.at + i - 1]
    BY <1>2 DEF Current
  <2>2. Len(old) <= Len(new) /\ \A i \in 1 .. Len(old) : new[i] = old[i] BY DEF Grows
  <2>3. LastOf(m) <= Len(new) BY <1>1, <2>1, <2>2 DEF LastOf
  <2>4. ASSUME NEW i \in DOMAIN m.log PROVE m.log[i] = new[m.at + i - 1]
    <3>1. m.at + i - 1 \in 1 .. Len(old) BY <1>1, <2>1 DEF LastOf
    <3> QED BY <2>1, <2>2, <3>1
  <2> QED BY <1>2, <2>1, <2>3, <2>4 DEF Current
<1>3. CASE m.body = "snapshot"
  <2>1. Len(m.log) <= Len(old) /\ \A i \in DOMAIN m.log : m.log[i] = old[i]
    BY <1>3 DEF Current
  <2>2. Len(old) <= Len(new) /\ \A i \in 1 .. Len(old) : new[i] = old[i] BY DEF Grows
  <2>3. \A i \in DOMAIN m.log : i \in 1 .. Len(old) BY <1>1, <2>1
  <2> QED BY <1>1, <1>3, <2>1, <2>2, <2>3 DEF Current
<1> QED BY <1>2, <1>3 DEF Current

(* The host answers from the engine it has after the request.               *)
LEMMA AnswerIsCurrent ==
  ASSUME TypeOK, NEW r \in Request, r.kind # "cancel"
  PROVE  Current(AnswerTo(r), Executed(r.cmd).log)
<1> USE DEF Answer, Current
<1>0. r.kind \in Kinds \ {"cancel"} BY RequestFields
<1>1. engine.log \in Seq(Entry) BY DEF TypeOK
<1>2. CASE r.kind = "command" /\ Accepts(r.cmd)
  <2> DEFINE new == Applied(r.cmd)
  <2>1. r.cmd \in Commands BY <1>2, RequestFields
  <2>2. new \in Seq(Entry) /\ Len(new) = Len(engine.log) + 1 BY <2>1, AppliedType
  <2>3. Executed(r.cmd).log = new
    <3>1. r.cmd # NoCommand BY <2>1, Names
    <3>2. engine \in [run : Nat, log : Seq(Entry)] BY DEF TypeOK
    <3> QED BY <1>2, <3>1, <3>2 DEF Executed
  <2> HIDE DEF new
  <2>4. CASE Tactical
    <3>1. AnswerTo(r) = Answer(r, "snapshot", new, 0) BY <1>0, <1>2, <2>4, Answers DEF new
    <3> QED BY <2>2, <2>3, <3>1
  <2>5. CASE ~Tactical
    <3>1. AnswerTo(r) = Answer(r, "events", <<Last(new)>>, Len(engine.log) + 1)
      BY <1>0, <1>2, <2>5, Answers DEF new
    <3>2. Last(new) = new[Len(engine.log) + 1] BY <2>2 DEF Last
    <3> QED BY <1>1, <2>2, <2>3, <3>1, <3>2 DEF LastOf
  <2> QED BY <2>4, <2>5
<1>3. CASE r.kind = "command" /\ ~Accepts(r.cmd)
  <2>1. AnswerTo(r) = Answer(r, "rejected", <<>>, 0) BY <1>0, <1>3, Answers
  <2> QED BY <2>1
<1>4. CASE r.kind \in {"snapshot", "resync"}
  <2>1. r.cmd = NoCommand BY <1>4, RequestFields
  <2>2. Executed(r.cmd) = engine BY <2>1 DEF Executed
  <2>3. AnswerTo(r) = Answer(r, "snapshot", engine.log, 0) BY <1>0, <1>4, Answers
  <2> QED BY <1>1, <2>2, <2>3
<1>5. CASE r.kind \in {"preview", "hello"}
  <2>1. PICK b \in {"preview", "rejected", "hello"} : AnswerTo(r) = Answer(r, b, <<>>, 0)
    BY <1>0, <1>5, Answers
  <2> QED BY <2>1
<1> QED BY <1>0, <1>2, <1>3, <1>4, <1>5 DEF Kinds

(* What a step does to the answers under way.                               *)
LEMMA DownlinkEffect ==
  ASSUME TypeOK, LineStep \/ UNCHANGED vars
  PROVE  \/ downlink' = <<>>
         \/ downlink' = downlink
         \/ downlink # <<>> /\ downlink' = Tail(downlink)
         \/ \E m \in Message : Current(m, engine'.log) /\ downlink' = Append(downlink, m)
<1> DEFINE Goal == \/ downlink' = <<>>
                   \/ downlink' = downlink
                   \/ downlink # <<>> /\ downlink' = Tail(downlink)
                   \/ \E m \in Message : Current(m, engine'.log) /\ downlink' = Append(downlink, m)
<1> SUFFICES Goal OBVIOUS
<1>1. engine.log \in Seq(Entry) BY DEF TypeOK
<1>2. CASE Serve
  <2> DEFINE r == Head(uplink)
  <2>1. r \in Request BY <1>2 DEF Serve, TypeOK
  <2>2. engine' = Executed(r.cmd) BY <1>2 DEF Serve
  <2>3. CASE r.kind # "cancel" /\ downlink' = Append(downlink, AnswerTo(r))
    BY <2>1, <2>2, <2>3, AnswerIsTyped, AnswerIsCurrent
  <2>4. CASE downlink' = Append(downlink, Answer(r, "refused", <<>>, 0))
    <3>1. Answer(r, "refused", <<>>, 0) \in Message
      BY <2>1, RequestFields DEF Answer, Message, Bodies
    <3>2. Current(Answer(r, "refused", <<>>, 0), engine'.log) BY DEF Current, Answer
    <3> QED BY <2>4, <3>1, <3>2
  <2>5. CASE downlink' = downlink BY <2>5
  <2> QED BY <1>2, <2>3, <2>4, <2>5 DEF Serve
<1>3. CASE Push
  <2>1. engine' = engine BY <1>3 DEF Push, hostVars
  <2>2. ASSUME NEW i \in 1 .. Len(engine.log), NEW j \in i .. Len(engine.log)
        PROVE  LET m == [to |-> 0, body |-> "events", log |-> SubSeq(engine.log, i, j), at |-> i]
               IN  m \in Message /\ Current(m, engine.log)
    <3> DEFINE slice == SubSeq(engine.log, i, j)
    <3>1. /\ slice \in Seq(Entry) /\ Len(slice) = j - i + 1
          /\ \A n \in 1 .. j - i + 1 : slice[n] = engine.log[i + n - 1]
      BY <1>1
    <3> HIDE DEF slice
    <3>2. [to |-> 0, body |-> "events", log |-> slice, at |-> i] \in Message
      BY <3>1 DEF Message, Bodies
    <3>3. Current([to |-> 0, body |-> "events", log |-> slice, at |-> i], engine.log)
      BY <1>1, <3>1 DEF Current, LastOf
    <3> QED BY <3>2, <3>3 DEF slice
  <2>3. LET m == [to |-> 0, body |-> "snapshot", log |-> engine.log, at |-> 0]
        IN  m \in Message /\ Current(m, engine.log)
    BY <1>1 DEF Message, Bodies, Current
  <2> QED BY <1>3, <2>1, <2>2, <2>3 DEF Push
<1>4. CASE \E m \in {downlink[i] : i \in DOMAIN downlink} :
             TakePush(m) \/ IgnoreStale(m) \/ \E r \in pending : Take(m, r)
  BY <1>4 DEF TakePush, IgnoreStale, Take, TakeHello, TakeRefusal, TakeAnswer, TakeRejection, Incoming
<1>5. CASE Reset \/ Drop \/ Restart BY <1>5 DEF Reset, Drop, Restart, Cut
<1>6. CASE ServeOrphan \/ ForeignCommand \/ Reopen \/ Connected \/ ConnectFails \/ Preview \/ UNCHANGED vars
  BY <1>6 DEF ServeOrphan, ForeignCommand, Reopen, Connected, ConnectFails, Preview, vars, wireVars
<1>7. CASE (\E c \in Commands : Build(c) \/ Submit(c)) \/ \E r \in pending : Cancel(r) \/ Expire(r)
  BY <1>7 DEF Build, Submit, Cancel, Expire, wireVars
<1> HIDE DEF Goal
<1> QED BY <1>2, <1>3, <1>4, <1>5, <1>6, <1>7 DEF LineStep

LEMMA MessagesStayCurrent ==
  ASSUME TypeOK, TypeOK', MessagesAreCurrent, LineStep \/ UNCHANGED vars
  PROVE  MessagesAreCurrent'
<1>1. /\ downlink \in Seq(Message) /\ engine.log \in Seq(Entry)
      /\ downlink' \in Seq(Message) /\ engine'.log \in Seq(Entry)
  BY DEF TypeOK, Message
<1>2. CASE downlink' = <<>> BY <1>2 DEF MessagesAreCurrent
<1>3. CASE Restart BY <1>2, <1>3 DEF Restart
<1>4. CASE Grows(engine.log, engine'.log)
  <2>1. ASSUME NEW n \in DOMAIN downlink PROVE Current(downlink[n], engine'.log)
    <3>1. downlink[n] \in Message /\ Current(downlink[n], engine.log)
      BY <1>1 DEF MessagesAreCurrent
    <3> QED BY <1>1, <1>4, <3>1, StaysCurrent
  <2>2. CASE downlink' = downlink BY <2>1, <2>2 DEF MessagesAreCurrent
  <2>3. CASE downlink # <<>> /\ downlink' = Tail(downlink)
    <3>1. \A n \in DOMAIN downlink' : n + 1 \in DOMAIN downlink /\ downlink'[n] = downlink[n + 1]
      BY <1>1, <2>3
    <3> QED BY <2>1, <3>1 DEF MessagesAreCurrent
  <2>4. ASSUME NEW m \in Message, Current(m, engine'.log), downlink' = Append(downlink, m)
        PROVE  MessagesAreCurrent'
    <3>1. \A n \in DOMAIN downlink' : downlink'[n] = m \/ (n \in DOMAIN downlink /\ downlink'[n] = downlink[n])
      BY <1>1, <2>4
    <3> QED BY <2>1, <2>4, <3>1 DEF MessagesAreCurrent
  <2> QED BY <1>2, <2>2, <2>3, <2>4, DownlinkEffect
<1> QED BY <1>3, <1>4, EngineGrows

-----------------------------------------------------------------------------
(* The client's copies                                                      *)

SameCopies == UNCHANGED <<mirror, bridge.has, bridge.seq>>
Takes(m) == /\ mirror' = MirrorAfter(m)
            /\ bridge'.has = BridgeAfter(m).has /\ bridge'.seq = BridgeAfter(m).seq

LEMMA CopiesEffect ==
  ASSUME TypeOK, MessagesAreCurrent, LineStep \/ UNCHANGED vars
  PROVE  \/ SameCopies
         \/ bridge'.has = FALSE /\ bridge'.seq = 0 /\ mirror' = mirror
         \/ \E m \in Message : Current(m, engine.log) /\ Takes(m) /\ UNCHANGED engine
<1> DEFINE Goal == \/ SameCopies
                   \/ bridge'.has = FALSE /\ bridge'.seq = 0 /\ mirror' = mirror
                   \/ \E m \in Message : Current(m, engine.log) /\ Takes(m) /\ UNCHANGED engine
<1> SUFFICES Goal OBVIOUS
<1> USE DEF hostVars, wireVars, bridgeVars, clientVars, vars
<1>1. bridge \in Copy /\ downlink \in Seq(Message) BY DEF TypeOK, Copy, Message
<1>2. CASE Serve \/ ServeOrphan \/ ForeignCommand \/ Push \/ Reopen \/ ConnectFails \/ Preview \/ UNCHANGED vars
  BY <1>2 DEF SameCopies, Serve, ServeOrphan, ForeignCommand, Push, Reopen, ConnectFails, Preview
<1>3. CASE (\E c \in Commands : Build(c) \/ Submit(c)) \/ \E r \in pending : Cancel(r) \/ Expire(r)
  BY <1>3 DEF SameCopies, Build, Submit, Cancel, Expire
<1>4. CASE Reset BY <1>4 DEF Reset, NewBridge
<1>5. CASE Connected BY <1>1, <1>5 DEF Connected, SameCopies, Copy
<1>6. CASE Drop BY <1>1, <1>6 DEF Drop, Disconnected, SameCopies, Copy
<1>7. CASE Restart BY <1>1, <1>7 DEF Restart, Disconnected, SameCopies, Copy
<1>8. ASSUME NEW m \in {downlink[i] : i \in DOMAIN downlink},
             TakePush(m) \/ IgnoreStale(m) \/ \E r \in pending : Take(m, r)
      PROVE  Goal
  <2>1. m \in Message /\ Current(m, engine.log) /\ (m.body = "events" => m.at >= 1)
    BY <1>1 DEF MessagesAreCurrent, Current
  <2>2. BridgeAfter(m) \in Copy BY <2>1, TakingIsTyped
  <2>3. CASE TakePush(m) BY <2>1, <2>3 DEF TakePush, Takes
  <2>4. CASE IgnoreStale(m) BY <2>4 DEF IgnoreStale, SameCopies
  <2>5. ASSUME NEW r \in pending, TakeAnswer(m, r) PROVE Goal
    <3>1. Takes(m) /\ UNCHANGED engine BY <2>2, <2>5 DEF TakeAnswer, Takes, Copy
    <3> QED BY <2>1, <3>1
  <2>6. ASSUME NEW r \in pending, TakeHello(m, r) \/ TakeRefusal(m, r) \/ TakeRejection(m, r) PROVE Goal
    BY <1>1, <2>6 DEF TakeHello, TakeRefusal, TakeRejection, SameCopies, Copy
  <2> HIDE DEF Goal
  <2> QED BY <1>8, <2>3, <2>4, <2>5, <2>6 DEF Take
<1> HIDE DEF Goal
<1> QED BY <1>2, <1>3, <1>4, <1>5, <1>6, <1>7, <1>8 DEF LineStep

(* What the mirror shows, entry by entry.                                   *)
LEMMA ShownIs ==
  ASSUME NEW base \in Seq(Entry), NEW events \in Seq(Entry)
  PROVE  /\ base \o events \in Seq(Entry) /\ Len(base \o events) = Len(base) + Len(events)
         /\ \A i \in 1 .. Len(base) : (base \o events)[i] = base[i]
         /\ \A i \in Len(base) + 1 .. Len(base) + Len(events) :
              (base \o events)[i] = events[i - Len(base)]
OBVIOUS

LEMMA Suffix ==
  ASSUME NEW s \in Seq(Entry), NEW j \in 1 .. Len(s)
  PROVE  /\ SubSeq(s, j, Len(s)) \in Seq(Entry) /\ Len(SubSeq(s, j, Len(s))) = Len(s) - j + 1
         /\ \A i \in 1 .. Len(s) - j + 1 : SubSeq(s, j, Len(s))[i] = s[j + i - 1]
OBVIOUS

LEMMA Associates ==
  ASSUME NEW r \in Seq(Entry), NEW s \in Seq(Entry), NEW t \in Seq(Entry)
  PROVE  r \o (s \o t) = (r \o s) \o t
OBVIOUS

(* Events the mirror takes continue what it shows with entries of the       *)
(* running engine's log, at their own places.                               *)
LEMMA EventsContinue ==
  ASSUME TypeOK, Len(Shown) = mirror.seq,
         NEW m \in Message, Current(m, engine.log), MirrorTakesEvents(m)
  PROVE  LET new == mirror.base \o (mirror.events \o EventsFrom(m, mirror.seq + 1))
         IN  /\ Len(new) = LastOf(m) /\ LastOf(m) > mirror.seq /\ LastOf(m) <= Len(engine.log)
             /\ \A i \in 1 .. mirror.seq : new[i] = Shown[i]
             /\ \A i \in mirror.seq + 1 .. LastOf(m) : new[i] = engine.log[i]
<1> DEFINE seq  == mirror.seq
           more == EventsFrom(m, mirror.seq + 1)
           new == mirror.base \o (mirror.events \o more)
<1>1. /\ mirror.base \in Seq(Entry) /\ mirror.events \in Seq(Entry) /\ seq \in Nat
      /\ engine.log \in Seq(Entry)
  BY DEF TypeOK
<1>2. m.log \in Seq(Entry) /\ m.at \in Nat BY DEF Message
<1>3. m.body = "events"
  BY DEF MirrorTakesEvents, TakesEvents, HasNews
<1>4. /\ m.at >= 1 /\ LastOf(m) <= Len(engine.log) /\ LastOf(m) > seq /\ m.at <= seq + 1
      /\ \A i \in DOMAIN m.log : m.log[i] = engine.log[m.at + i - 1]
  BY <1>3 DEF Current, MirrorTakesEvents
<1>5. LastOf(m) = m.at + Len(m.log) - 1 BY DEF LastOf
<1> HIDE DEF seq
<1> DEFINE from == (seq + 1) - m.at + 1
<1>6. from \in 1 .. Len(m.log) /\ Len(m.log) - from + 1 = LastOf(m) - seq
  <2>1. seq \in Int /\ m.at \in Int /\ Len(m.log) \in Int BY <1>1, <1>2
  <2>2. m.at >= 1 /\ LastOf(m) > seq /\ m.at <= seq + 1 BY <1>4
  <2> QED BY ONLY <2>1, <2>2, <1>5
<1>7. more = SubSeq(m.log, from, Len(m.log))
  <2>1. more = SubSeq(m.log, (mirror.seq + 1) - m.at + 1, Len(m.log)) BY DEF EventsFrom
  <2> QED BY <2>1 DEF seq
<1> HIDE DEF from, more
<1>8. /\ more \in Seq(Entry) /\ Len(more) = LastOf(m) - seq
      /\ \A i \in 1 .. LastOf(m) - seq : more[i] = m.log[from + i - 1]
  BY <1>2, <1>6, <1>7, Suffix
<1>9. \A i \in 1 .. LastOf(m) - seq : more[i] = engine.log[seq + i]
  <2> SUFFICES ASSUME NEW i \in 1 .. LastOf(m) - seq PROVE more[i] = engine.log[seq + i]
    OBVIOUS
  <2>1. more[i] = m.log[from + i - 1] BY <1>8
  <2>2. from + i - 1 \in 1 .. Len(m.log) BY <1>1, <1>2, <1>5, <1>6
  <2>3. m.log[from + i - 1] = engine.log[m.at + (from + i - 1) - 1] BY <1>2, <1>4, <2>2
  <2>4. m.at + (from + i - 1) - 1 = seq + i BY <1>1, <1>2 DEF from
  <2> QED BY <2>1, <2>3, <2>4
<1>10. Shown \in Seq(Entry) /\ Len(Shown) = seq BY <1>1, ShownIs DEF Shown, seq
<1>11. new = Shown \o more BY <1>1, <1>8, Associates DEF Shown
<1> HIDE DEF new
<1>12. Len(new) = Len(Shown) + Len(more) /\ LastOf(m) \in Int
  BY <1>2, <1>5, <1>8, <1>10, <1>11, ShownIs
<1>13. Len(new) = LastOf(m) BY <1>1, <1>8, <1>10, <1>12
<1>14. \A i \in 1 .. seq : new[i] = Shown[i] BY <1>8, <1>10, <1>11, ShownIs
<1>15. ASSUME NEW i \in seq + 1 .. LastOf(m) PROVE new[i] = engine.log[i]
  <2>1. i - seq \in 1 .. LastOf(m) - seq /\ seq + (i - seq) = i BY <1>1, <1>12
  <2>2. i \in Len(Shown) + 1 .. Len(Shown) + Len(more) BY <1>1, <1>8, <1>10, <1>12
  <2>3. new[i] = more[i - seq] BY <1>8, <1>10, <1>11, <2>2, ShownIs
  <2> QED BY <1>9, <2>1, <2>3
<1> QED BY <1>4, <1>13, <1>14, <1>15 DEF new, seq, more

Copies == NothingYet /\ Genuine /\ MirrorKeepsUp

(* Taking a message that is current keeps the copies sound, and never sets  *)
(* the mirror back.                                                         *)
LEMMA TakingIsSound ==
  ASSUME TypeOK, LogIsOwn, Copies, NEW m \in Message, Current(m, engine.log), Takes(m),
         UNCHANGED engine
  PROVE  Copies' /\ mirror'.seq >= mirror.seq
<1>1. /\ bridge \in Copy /\ mirror \in Mirrored /\ engine.log \in Seq(Entry) /\ engine.run \in Nat
  BY DEF TypeOK, Copy, Mirrored
<1>2. m.log \in Seq(Entry) /\ m.at \in Nat BY DEF Message
<1>3. m.body = "events" => LastOf(m) \in Int /\ m.at >= 1 BY <1>2 DEF LastOf, Current
<1>4. ~mirror.has => mirror.seq = 0 /\ Shown = <<>>
  BY <1>1 DEF Copies, NothingYet, Genuine, Shown, Mirrored
<1>5. CASE MirrorTakesSnapshot(m)
  <2>1. m.body = "snapshot" /\ TakesSnapshot(m) /\ (mirror.has => Len(m.log) >= mirror.seq)
    BY <1>5 DEF MirrorTakesSnapshot, TakesSnapshot
  <2>2. mirror' = [has |-> TRUE, seq |-> Len(m.log), base |-> m.log, events |-> <<>>]
    BY <1>5, Taking DEF Takes
  <2>3. BridgeAfter(m) = [bridge EXCEPT !.has = TRUE, !.seq = Len(m.log)] BY <2>1, Taking
  <2>4. bridge'.has = TRUE /\ bridge'.seq = Len(m.log) BY <1>1, <2>3 DEF Takes, Copy
  <2>5. Shown' = m.log BY <1>2, <2>2 DEF Shown
  <2>6. Len(m.log) <= Len(engine.log) /\ \A i \in DOMAIN m.log : m.log[i] = engine.log[i]
    BY <2>1 DEF Current
  <2>7. Genuine'
    <3>1. \A i \in DOMAIN m.log : i \in DOMAIN engine.log BY <1>1, <1>2, <2>6
    <3>2. \A i \in DOMAIN m.log : m.log[i].run = engine.run BY <2>6, <3>1 DEF LogIsOwn
    <3>3. \A i \in DOMAIN m.log : i <= Len(engine.log) BY <1>1, <3>1
    <3>4. mirror'.seq = Len(m.log) BY <2>2
    <3> QED BY <1>1, <2>5, <2>6, <3>2, <3>3, <3>4 DEF Genuine
  <2>8. NothingYet' /\ MirrorKeepsUp' BY <1>2, <2>2, <2>4 DEF NothingYet, MirrorKeepsUp
  <2>9. mirror'.seq >= mirror.seq BY <1>1, <1>2, <1>4, <2>1, <2>2
  <2> QED BY <2>7, <2>8, <2>9 DEF Copies
<1>6. CASE MirrorTakesEvents(m)
  <2> DEFINE new == mirror.base \o (mirror.events \o EventsFrom(m, mirror.seq + 1))
  <2>1. TakesEvents(m) /\ mirror.has BY <1>6 DEF MirrorTakesEvents
  <2>2. /\ Len(new) = LastOf(m) /\ LastOf(m) > mirror.seq /\ LastOf(m) <= Len(engine.log)
        /\ \A i \in 1 .. mirror.seq : new[i] = Shown[i]
        /\ \A i \in mirror.seq + 1 .. LastOf(m) : new[i] = engine.log[i]
    BY <1>6, EventsContinue DEF Copies, Genuine
  <2>3. mirror' = [mirror EXCEPT !.seq = LastOf(m),
                                 !.events = mirror.events \o EventsFrom(m, mirror.seq + 1)]
    BY <1>6, Taking DEF Takes
  <2>4. /\ mirror'.seq = LastOf(m) /\ mirror'.has = mirror.has /\ mirror'.base = mirror.base
        /\ mirror'.events = mirror.events \o EventsFrom(m, mirror.seq + 1)
    BY <1>1, <2>3 DEF Mirrored
  <2>5. Shown' = new BY <2>4 DEF Shown
  <2>6. BridgeAfter(m) = [bridge EXCEPT !.has = TRUE, !.seq = LastOf(m)] BY <2>1, Taking
  <2>7. bridge'.has = TRUE /\ bridge'.seq = LastOf(m) BY <1>1, <2>6 DEF Takes, Copy
  <2>8. NothingYet' /\ MirrorKeepsUp'
    <3>1. m.body = "events" BY <2>1 DEF TakesEvents, HasNews
    <3>2. LastOf(m) <= LastOf(m) BY <1>3, <3>1
    <3> QED BY <2>1, <2>4, <2>7, <3>2 DEF NothingYet, MirrorKeepsUp
  <2>9. Shown \in Seq(Entry) /\ Len(Shown) = mirror.seq /\ mirror.seq \in Nat
    BY <1>1, ShownIs DEF Shown, Copies, Genuine, Mirrored
  <2>10. new \in Seq(Entry) /\ LastOf(m) \in Nat
    <3>1. mirror' \in Mirrored
      <4>1. m.body = "events" => m.at >= 1 BY <1>3
      <4> QED BY <4>1, TakingIsTyped DEF Takes
    <3> QED BY <2>4, <2>5, <3>1, ShownIs DEF Shown, Mirrored
  <2> HIDE DEF new
  <2>11. \A i \in 1 .. mirror.seq :
           /\ new[i].run <= engine.run
           /\ new[i].run = engine.run => i <= Len(engine.log) /\ new[i] = engine.log[i]
    BY <2>2, <2>9 DEF Copies, Genuine
  <2>12. \A i \in mirror.seq + 1 .. LastOf(m) :
           new[i] = engine.log[i] /\ new[i].run = engine.run /\ i <= Len(engine.log)
    <3> SUFFICES ASSUME NEW i \in mirror.seq + 1 .. LastOf(m)
                 PROVE  new[i] = engine.log[i] /\ new[i].run = engine.run /\ i <= Len(engine.log)
      OBVIOUS
    <3>1. i \in 1 .. Len(engine.log) BY <1>1, <2>2, <2>9, <2>10
    <3>2. i \in DOMAIN engine.log BY <1>1, <3>1
    <3>3. engine.log[i].run = engine.run BY <3>2 DEF LogIsOwn
    <3> QED BY <2>2, <3>1, <3>3
  <2>13. \A i \in DOMAIN new : i \in 1 .. mirror.seq \/ i \in mirror.seq + 1 .. LastOf(m)
    BY <2>2, <2>9, <2>10
  <2>14. ASSUME NEW i \in DOMAIN new, NEW j \in DOMAIN new, i <= j
         PROVE  new[i].run <= new[j].run
    <3>1. CASE j \in mirror.seq + 1 .. LastOf(m)
      <4>1. new[j].run = engine.run BY <2>12, <3>1
      <4>2. new[i].run <= engine.run
        <5>1. engine.run <= engine.run BY <1>1
        <5> QED BY <2>11, <2>12, <2>13, <5>1
      <4> QED BY <4>1, <4>2
    <3>2. CASE j \in 1 .. mirror.seq
      <4>1. i \in 1 .. mirror.seq BY <2>9, <2>10, <2>13, <2>14, <3>2
      <4>2. i \in DOMAIN Shown /\ j \in DOMAIN Shown BY <2>9, <3>2, <4>1
      <4>3. Shown[i].run <= Shown[j].run BY <2>14, <4>2 DEF Copies, Genuine
      <4> QED BY <2>2, <3>2, <4>1, <4>3
    <3> QED BY <2>13, <3>1, <3>2
  <2>15. \A i \in DOMAIN new :
           /\ new[i].run <= engine.run
           /\ new[i].run = engine.run => i <= Len(engine.log) /\ new[i] = engine.log[i]
    <3>1. engine.run <= engine.run BY <1>1
    <3> QED BY <2>11, <2>12, <2>13, <3>1
  <2>16. Genuine' BY <2>2, <2>4, <2>5, <2>14, <2>15 DEF Genuine
  <2>17. mirror'.seq >= mirror.seq BY <2>2, <2>4, <2>9, <2>10
  <2> QED BY <2>8, <2>16, <2>17 DEF Copies
<1>7. CASE ~MirrorTakesSnapshot(m) /\ ~MirrorTakesEvents(m)
  <2>1. mirror' = mirror BY <1>7, Taking DEF Takes
  <2>2. Genuine' BY <2>1 DEF Copies, Genuine, Shown
  <2>3. mirror'.seq >= mirror.seq BY <1>1, <2>1 DEF Mirrored
  <2>4. CASE TakesSnapshot(m)
    <3>1. BridgeAfter(m) = [bridge EXCEPT !.has = TRUE, !.seq = Len(m.log)] BY <2>4, Taking
    <3>2. bridge'.has = TRUE /\ bridge'.seq = Len(m.log) BY <1>1, <3>1 DEF Takes, Copy
    <3>3. mirror.has /\ ~(Len(m.log) >= mirror.seq) BY <1>7, <2>4 DEF MirrorTakesSnapshot
    <3>4. Len(m.log) <= mirror.seq BY <1>1, <1>2, <3>3 DEF Mirrored
    <3> QED BY <2>1, <2>2, <2>3, <3>2, <3>4 DEF Copies, NothingYet, MirrorKeepsUp
  <2>5. CASE TakesEvents(m)
    <3>1. BridgeAfter(m) = [bridge EXCEPT !.has = TRUE, !.seq = LastOf(m)] BY <2>5, Taking
    <3>2. bridge'.has = TRUE /\ bridge'.seq = LastOf(m) BY <1>1, <3>1 DEF Takes, Copy
    <3>3. m.body = "events" /\ ~(m.at > bridge.seq + 1) BY <2>5 DEF TakesEvents, HasNews, Gap
    <3>4. mirror.has => LastOf(m) <= mirror.seq
      <4> SUFFICES ASSUME mirror.has, LastOf(m) > mirror.seq PROVE FALSE
        BY <1>1, <1>3, <3>3 DEF Mirrored
      <4>1. bridge.seq <= mirror.seq
        BY <1>1 DEF Copies, NothingYet, MirrorKeepsUp, Copy, Mirrored
      <4>2. m.at <= mirror.seq + 1 BY <1>1, <1>2, <3>3, <4>1 DEF Copy, Mirrored
      <4> QED BY <1>7, <2>5, <4>1, <4>2 DEF MirrorTakesEvents
    <3> QED BY <2>1, <2>2, <2>3, <3>2, <3>4 DEF Copies, NothingYet, MirrorKeepsUp
  <2>6. CASE ~TakesSnapshot(m) /\ ~TakesEvents(m)
    <3>1. bridge'.has = bridge.has /\ bridge'.seq = bridge.seq
      <4>1. BridgeAfter(m) \in {bridge, [bridge EXCEPT !.resync = TRUE]} BY <2>6, Taking
      <4> QED BY <1>1, <4>1 DEF Takes, Copy
    <3> QED BY <2>1, <2>2, <2>3, <3>1 DEF Copies, NothingYet, MirrorKeepsUp
  <2> QED BY <2>4, <2>5, <2>6
<1> QED BY <1>5, <1>6, <1>7

(* The engine moving on under the copies leaves them sound.                 *)
LEMMA CopiesOutliveTheEngine ==
  ASSUME TypeOK, TypeOK', Copies, LineStep \/ UNCHANGED vars, mirror' = mirror
  PROVE  Genuine'
<1>1. /\ engine.log \in Seq(Entry) /\ engine.run \in Nat /\ engine'.run \in Nat
      /\ engine'.log \in Seq(Entry) /\ Shown \in Seq(Entry)
  BY ShownIs DEF TypeOK, Shown
<1>2. Shown' = Shown BY DEF Shown
<1>3. Genuine BY DEF Copies
<1>4. \A i \in DOMAIN Shown : Shown[i].run \in Nat /\ i \in Nat \ {0}
  <2>1. \A i \in DOMAIN Shown : Shown[i] \in Entry /\ i \in Nat \ {0} BY <1>1
  <2> QED BY <2>1 DEF Entry
<1>5. CASE Restart
  <2>1. engine'.run = engine.run + 1 BY <1>5 DEF Restart
  <2>2. \A i \in DOMAIN Shown : Shown[i].run < engine'.run BY <1>1, <1>3, <1>4, <2>1 DEF Genuine
  <2>3. \A i \in DOMAIN Shown : Shown[i].run <= engine'.run /\ Shown[i].run # engine'.run
    BY <1>1, <1>4, <2>2
  <2> QED BY <1>2, <1>3, <2>3 DEF Genuine
<1>6. CASE engine'.run = engine.run /\ Grows(engine.log, engine'.log)
  <2>1. Len(engine.log) <= Len(engine'.log)
        /\ \A i \in 1 .. Len(engine.log) : engine'.log[i] = engine.log[i]
    BY <1>6 DEF Grows
  <2>2. ASSUME NEW i \in DOMAIN Shown, Shown[i].run = engine'.run
        PROVE  i <= Len(engine'.log) /\ Shown[i] = engine'.log[i]
    <3>1. i <= Len(engine.log) /\ Shown[i] = engine.log[i] BY <1>3, <1>6, <2>2 DEF Genuine
    <3>2. i \in 1 .. Len(engine.log) BY <1>1, <1>4, <3>1
    <3> QED BY <1>1, <2>1, <3>1, <3>2
  <2> QED BY <1>2, <1>3, <1>6, <2>2 DEF Genuine
<1> QED BY <1>5, <1>6, EngineGrows

LEMMA LineKeepsBInv ==
  ASSUME BInv, LineStep \/ UNCHANGED vars
  PROVE  BInv' /\ mirror'.seq >= mirror.seq
<1> USE DEF BInv
<1>1. TypeOK' BY LineIsTyped
<1>2. LogIsOwn' BY <1>1, LogStaysOwn
<1>3. MessagesAreCurrent' BY <1>1, MessagesStayCurrent
<1>4. Copies BY DEF Copies
<1>5. mirror.seq \in Nat /\ bridge.seq \in Nat BY DEF TypeOK
<1>6. CASE SameCopies
  <2>1. Genuine' BY <1>1, <1>4, <1>6, CopiesOutliveTheEngine DEF SameCopies
  <2>2. NothingYet' /\ MirrorKeepsUp' BY <1>6 DEF SameCopies, NothingYet, MirrorKeepsUp
  <2> QED BY <1>1, <1>2, <1>3, <1>5, <1>6, <2>1, <2>2 DEF SameCopies
<1>7. CASE bridge'.has = FALSE /\ bridge'.seq = 0 /\ mirror' = mirror
  <2>1. Genuine' BY <1>1, <1>4, <1>7, CopiesOutliveTheEngine
  <2>2. NothingYet' /\ MirrorKeepsUp' BY <1>7 DEF NothingYet, MirrorKeepsUp
  <2> QED BY <1>1, <1>2, <1>3, <1>5, <1>7, <2>1, <2>2
<1>8. CASE \E m \in Message : Current(m, engine.log) /\ Takes(m) /\ UNCHANGED engine
  BY <1>1, <1>2, <1>3, <1>4, <1>8, TakingIsSound DEF Copies
<1> QED BY <1>6, <1>7, <1>8, CopiesEffect

LEMMA LineStarts == Init => BInv
<1> SUFFICES ASSUME Init PROVE BInv OBVIOUS
<1> USE DEF Init, NewBridge, NewMirror
<1>1. TypeOK BY DEF TypeOK, NotBuilt
<1>2. LogIsOwn BY DEF LogIsOwn
<1>3. MessagesAreCurrent BY DEF MessagesAreCurrent
<1>4. Copies BY DEF Copies, NothingYet, Genuine, MirrorKeepsUp, Shown
<1> QED BY <1>1, <1>2, <1>3, <1>4 DEF BInv, Copies

LEMMA BridgeSteps == ASSUME [Next]_vars PROVE LineStep \/ UNCHANGED vars
<1>1. CASE Open BY <1>1 DEF LineStep, Open, Reset
<1>2. CASE Host \/ (Network /\ ~Open) BY <1>2 DEF LineStep, Host, Network
<1>3. CASE Receive BY <1>3 DEF LineStep, Receive, Take
<1>4. CASE User \/ \E r \in pending : Cancel(r) \/ Expire(r) BY <1>4 DEF LineStep, User
<1> QED BY <1>1, <1>2, <1>3, <1>4 DEF Next

(* The invariant of the line, which the theorems below rest on: under Spec, *)
(* with any host, and under ClientSpec, with the whole client.              *)
THEOREM BridgeInvariant == Spec => []BInv
<1>1. ASSUME BInv, [Next]_vars PROVE BInv' BY <1>1, BridgeSteps, LineKeepsBInv
<1> QED BY <1>1, LineStarts, PTL DEF Spec

(* MirrorIsGenuine and MirrorKeepsUp follow from the copies' invariant.     *)
LEMMA CopiesAreGenuine == BInv => MirrorIsGenuine /\ MirrorKeepsUp
BY DEF BInv, Genuine, MirrorIsGenuine

(* Whatever was lost, expired, resent, or pushed twice or with a hole: what *)
(* the mirror shows of the running engine process stands where that process *)
(* applied it, and nothing of an older process follows it.                  *)
THEOREM MirrorsAreGenuine == Spec => []MirrorIsGenuine
BY BridgeInvariant, CopiesAreGenuine, PTL

(* The bridge never counts as taken what the mirror did not show.           *)
THEOREM MirrorsKeepUp == Spec => []MirrorKeepsUp
BY BridgeInvariant, CopiesAreGenuine, PTL

-----------------------------------------------------------------------------
(* Request ids                                                              *)

(* Ids are given once: a request on its way is the pending one of its id,   *)
(* if there is one, and nothing on its way has an id yet to be given.       *)
Numbered ==
  /\ \A r \in pending : r.id \in 1 .. issued
  /\ \A r, s \in pending : r.id = s.id => r = s
  /\ \A n \in DOMAIN uplink :
       uplink[n].id <= issued /\ \A r \in pending : r.id = uplink[n].id => r = uplink[n]
  /\ \A n \in DOMAIN downlink : downlink[n].to <= issued

(* A step asks some new requests, none as a rule, under the next ids.       *)
Asks(asked) ==
  /\ \A i \in DOMAIN asked : /\ asked[i].id = issued + i
                             /\ asked[i].kind = "command" => expects[asked[i].cmd] # NotBuilt
  /\ issued' = issued + Len(asked)
  /\ pending' \subseteq pending \cup {asked[i] : i \in DOMAIN asked}
  /\ uplink' = uplink \o asked \/ uplink' = asked
  /\ downlink' = <<>> \/ downlink' = downlink \/ (downlink # <<>> /\ downlink' = Tail(downlink))

LEMMA NumbersEffect ==
  ASSUME TypeOK, LineStep \/ UNCHANGED vars
  PROVE  Serve \/ Push \/ Reset \/ \E asked \in Seq(Request) : Asks(asked)
<1> DEFINE Goal == Serve \/ Push \/ Reset \/ \E asked \in Seq(Request) : Asks(asked)
<1> SUFFICES Goal OBVIOUS
<1>1. uplink \in Seq(Request) /\ downlink \in Seq(Message) /\ issued \in Nat /\ pending \subseteq Request
  BY DEF TypeOK, Message
<1>2. ASSUME UNCHANGED issued, pending' \subseteq pending, uplink' = uplink \/ uplink' = <<>>,
             downlink' = <<>> \/ downlink' = downlink \/ (downlink # <<>> /\ downlink' = Tail(downlink))
      PROVE  Goal
  <2>1. <<>> \in Seq(Request) /\ Len(<<>>) = 0 /\ uplink \o <<>> = uplink BY <1>1
  <2>2. Asks(<<>>) BY <1>1, <1>2, <2>1 DEF Asks
  <2> QED BY <2>1, <2>2
<1>3. ASSUME NEW r \in Request, r.id = issued + 1, issued' = issued + 1,
             r.kind = "command" => expects[r.cmd] # NotBuilt,
             pending' \subseteq pending \cup {r}, uplink' = <<r>> \/ uplink' = Append(uplink, r),
             UNCHANGED downlink
      PROVE  Goal
  <2>1. <<r>> \in Seq(Request) /\ Len(<<r>>) = 1 /\ DOMAIN <<r>> = {1} /\ <<r>>[1] = r OBVIOUS
  <2>2. uplink \o <<r>> = Append(uplink, r) BY <1>1
  <2>3. Asks(<<r>>) BY <1>1, <1>3, <2>1, <2>2 DEF Asks
  <2> QED BY <2>1, <2>3
<1> HIDE DEF Goal
<1> USE DEF hostVars, wireVars, bridgeVars, clientVars, vars
<1>4. CASE Serve \/ Push \/ Reset BY <1>4 DEF Goal
<1>5. CASE ServeOrphan \/ ForeignCommand \/ Reopen \/ ConnectFails \/ UNCHANGED vars
  BY <1>2, <1>5 DEF ServeOrphan, ForeignCommand, Reopen, ConnectFails
<1>6. CASE Restart \/ Drop BY <1>2, <1>6 DEF Restart, Drop, Cut
<1>7. CASE Connected
  <2>1. [id |-> issued + 1, kind |-> "hello", cmd |-> NoCommand] \in Request
    BY <1>1 DEF Request, Kinds
  <2> QED BY <1>3, <1>7, <2>1 DEF Connected
<1>8. CASE Preview
  <2>1. [id |-> issued + 1, kind |-> "preview", cmd |-> NoCommand] \in Request
    BY <1>1 DEF Request, Kinds
  <2> QED BY <1>3, <1>8, <2>1 DEF Preview, Track
<1>9. ASSUME NEW c \in Commands, Build(c) \/ Submit(c) PROVE Goal
  <2>1. [id |-> issued + 1, kind |-> "command", cmd |-> c] \in Request BY <1>1 DEF Request
  <2>2. CASE Build(c) BY <1>2, <2>2 DEF Build
  <2>3. CASE Submit(c) BY <1>3, <2>1, <2>3 DEF Submit, Track
  <2> QED BY <1>9, <2>2, <2>3
<1>10. ASSUME NEW r \in pending, Cancel(r) \/ Expire(r) PROVE Goal
  <2>1. [id |-> issued + 1, kind |-> "cancel", cmd |-> NoCommand] \in Request
    BY <1>1 DEF Request, Kinds
  <2>2. CASE Cancel(r) BY <1>3, <2>1, <2>2 DEF Cancel
  <2>3. CASE Expire(r) BY <1>2, <2>3 DEF Expire
  <2> QED BY <1>10, <2>2, <2>3
<1>11. ASSUME NEW m \in {downlink[i] : i \in DOMAIN downlink},
              TakePush(m) \/ IgnoreStale(m) \/ \E r \in pending : Take(m, r)
       PROVE  Goal
  <2>1. CASE TakePush(m) \/ IgnoreStale(m) BY <1>2, <2>1 DEF TakePush, IgnoreStale, Incoming
  <2>2. ASSUME NEW r \in pending, TakeRefusal(m, r) \/ TakeAnswer(m, r) \/ TakeRejection(m, r)
        PROVE  Goal
    BY <1>2, <2>2 DEF TakeRefusal, TakeAnswer, TakeRejection, Incoming
  <2>3. ASSUME NEW r \in pending, TakeHello(m, r) PROVE Goal
    <3> DEFINE first  == [id |-> issued + 1, kind |-> "snapshot", cmd |-> NoCommand]
               second == [id |-> issued + 2, kind |-> "resync", cmd |-> NoCommand]
               asked == IF bridge.resync THEN <<first, second>> ELSE <<first>>
    <3>1. /\ first \in Request /\ second \in Request /\ first.id = issued + 1
          /\ second.id = issued + 2 /\ first.kind # "command" /\ second.kind # "command"
      BY <1>1 DEF Request, Kinds
    <3>2. /\ issued' = issued + Len(asked) /\ uplink' = uplink \o asked
          /\ pending' = (pending \ {r}) \cup {asked[i] : i \in DOMAIN asked} /\ Incoming(m)
      BY <2>3 DEF TakeHello
    <3> HIDE DEF first, second
    <3>3. /\ asked \in Seq(Request)
          /\ \A i \in DOMAIN asked : asked[i].id = issued + i /\ asked[i].kind # "command"
      BY <3>1
    <3> HIDE DEF asked
    <3>4. Asks(asked) BY <3>2, <3>3 DEF Asks, Incoming
    <3> QED BY <3>3, <3>4 DEF Goal
  <2> QED BY <1>11, <2>1, <2>2, <2>3 DEF Take
<1> QED BY <1>4, <1>5, <1>6, <1>7, <1>8, <1>9, <1>10, <1>11 DEF LineStep

LEMMA StaysNumbered ==
  ASSUME TypeOK, TypeOK', Numbered, LineStep \/ UNCHANGED vars
  PROVE  Numbered'
<1>1. /\ uplink \in Seq(Request) /\ downlink \in Seq(Message) /\ issued \in Nat /\ pending \subseteq Request
      /\ uplink' \in Seq(Request) /\ downlink' \in Seq(Message) /\ issued' \in Nat /\ pending' \subseteq Request
  BY DEF TypeOK, Message
<1>2. CASE Reset BY <1>2 DEF Reset, Cut, Numbered
<1>3. CASE Push
  <2>1. /\ UNCHANGED <<pending, issued, uplink>>
        /\ \E m : m.to = 0 /\ downlink' = Append(downlink, m)
    BY <1>3 DEF Push, bridgeVars
  <2>2. \A n \in DOMAIN downlink' : downlink'[n].to <= issued BY <1>1, <2>1 DEF Numbered
  <2> QED BY <2>1, <2>2 DEF Numbered
<1>4. CASE Serve
  <2>1. UNCHANGED <<pending, issued>> /\ uplink # <<>> /\ uplink' = Tail(uplink)
    BY <1>4 DEF Serve, bridgeVars
  <2>2. \A n \in DOMAIN uplink' : n + 1 \in DOMAIN uplink /\ uplink'[n] = uplink[n + 1]
    BY <1>1, <2>1
  <2>3. Head(uplink) \in Request /\ Head(uplink).id <= issued BY <1>1, <2>1 DEF Numbered
  <2>4. downlink' = downlink \/ \E m : m.to = Head(uplink).id /\ downlink' = Append(downlink, m)
    <3>1. ASSUME NEW r \in Request, r.kind # "cancel" PROVE AnswerTo(r).to = r.id
      <4>1. r.kind \in Kinds \ {"cancel"} BY <3>1, RequestFields
      <4> QED BY <4>1, Answers DEF Answer, Kinds
    <3>2. Answer(Head(uplink), "refused", <<>>, 0).to = Head(uplink).id BY DEF Answer
    <3> QED BY <1>4, <2>3, <3>1, <3>2 DEF Serve
  <2>5. \A n \in DOMAIN downlink' : downlink'[n].to <= issued
    <3>1. CASE downlink' = downlink BY <3>1 DEF Numbered
    <3>2. ASSUME NEW m, m.to = Head(uplink).id, downlink' = Append(downlink, m)
          PROVE  \A n \in DOMAIN downlink' : downlink'[n].to <= issued
      <4>1. \A n \in DOMAIN downlink' : downlink'[n] = m \/ (n \in DOMAIN downlink /\ downlink'[n] = downlink[n])
        BY <1>1, <3>2
      <4> QED BY <2>3, <3>2, <4>1 DEF Numbered
    <3> QED BY <2>4, <3>1, <3>2
  <2> QED BY <2>1, <2>2, <2>5 DEF Numbered
<1>5. ASSUME NEW asked \in Seq(Request), Asks(asked) PROVE Numbered'
  <2> DEFINE New == {asked[i] : i \in DOMAIN asked}
  <2>1. issued' = issued + Len(asked) /\ issued <= issued' BY <1>1, <1>5 DEF Asks
  <2>2. \A r \in New : r.id \in issued + 1 .. issued' BY <1>1, <1>5, <2>1 DEF Asks
  <2>3. \A r \in pending : r.id \in 1 .. issued /\ r.id \in Nat BY <1>1 DEF Numbered
  <2>4. pending' \subseteq pending \cup New BY <1>5 DEF Asks
  <2>5. \A r, s \in New : r.id = s.id => r = s BY <1>1, <1>5 DEF Asks
  <2>6. \A n \in DOMAIN uplink' : uplink'[n] \in New \/ \E k \in DOMAIN uplink : uplink'[n] = uplink[k]
    <3>1. CASE uplink' = asked BY <3>1
    <3>2. CASE uplink' = uplink \o asked
      <4>1. \A n \in DOMAIN uplink' :
              \/ n \in DOMAIN uplink /\ uplink'[n] = uplink[n]
              \/ n - Len(uplink) \in DOMAIN asked /\ uplink'[n] = asked[n - Len(uplink)]
        BY <1>1, <3>2
      <4> QED BY <4>1
    <3> QED BY <1>5, <3>1, <3>2 DEF Asks
  <2>7. \A n \in DOMAIN downlink' : \E k \in DOMAIN downlink : downlink'[n] = downlink[k]
    <3>1. CASE downlink # <<>> /\ downlink' = Tail(downlink)
      <4>1. \A n \in DOMAIN downlink' : n + 1 \in DOMAIN downlink /\ downlink'[n] = downlink[n + 1]
        BY <1>1, <3>1
      <4> QED BY <4>1
    <3> QED BY <1>5, <3>1 DEF Asks
  <2>8. ASSUME NEW r \in New, NEW s \in pending PROVE r.id # s.id
    <3>1. r.id \in issued + 1 .. issued' BY <2>2
    <3>2. s.id \in 1 .. issued BY <2>3
    <3> HIDE DEF New
    <3> QED BY <1>1, <3>1, <3>2
  <2> HIDE DEF New
  <2>9. \A r \in pending' : r.id \in 1 .. issued' BY <1>1, <2>1, <2>2, <2>3, <2>4
  <2>10. \A r, s \in pending' : r.id = s.id => r = s BY <2>4, <2>5, <2>8 DEF Numbered
  <2>11. ASSUME NEW n \in DOMAIN uplink', NEW r \in pending'
         PROVE  uplink'[n].id <= issued' /\ (r.id = uplink'[n].id => r = uplink'[n])
    <3>1. CASE uplink'[n] \in New
      BY <1>1, <2>2, <2>4, <2>5, <2>8, <3>1
    <3>2. ASSUME NEW k \in DOMAIN uplink, uplink'[n] = uplink[k]
          PROVE  uplink'[n].id <= issued' /\ (r.id = uplink'[n].id => r = uplink'[n])
      <4>1. uplink[k].id \in Nat /\ uplink[k].id <= issued
        BY <1>1, RequestFields DEF Numbered
      <4>2. r \in New => r.id # uplink[k].id BY <1>1, <2>2, <4>1
      <4> QED BY <1>1, <2>1, <2>4, <3>2, <4>1, <4>2 DEF Numbered
    <3> QED BY <2>6, <3>1, <3>2
  <2>12. \A n \in DOMAIN uplink' : uplink'[n].id <= issued'
    <3>1. ASSUME NEW n \in DOMAIN uplink' PROVE uplink'[n].id <= issued'
      <4>1. CASE uplink'[n] \in New BY <1>1, <2>2, <4>1
      <4>2. ASSUME NEW k \in DOMAIN uplink, uplink'[n] = uplink[k] PROVE uplink'[n].id <= issued'
        <5>1. uplink[k].id \in Nat /\ uplink[k].id <= issued
          BY <1>1, RequestFields DEF Numbered
        <5> QED BY <1>1, <2>1, <4>2, <5>1
      <4> QED BY <2>6, <4>1, <4>2
    <3> QED BY <3>1
  <2>13. \A n \in DOMAIN downlink' : downlink'[n].to <= issued'
    <3>1. \A k \in DOMAIN downlink : downlink[k].to \in Nat /\ downlink[k].to <= issued
      <4>1. \A k \in DOMAIN downlink : downlink[k] \in Message BY <1>1
      <4> QED BY <4>1 DEF Message, Numbered
    <3> QED BY <1>1, <2>1, <2>7, <3>1
  <2> QED BY <2>9, <2>10, <2>11, <2>12, <2>13 DEF Numbered
<1> QED BY <1>2, <1>3, <1>4, <1>5, NumbersEffect

-----------------------------------------------------------------------------
(* Answers to commands                                                      *)

IsBuilt(r) == r.kind = "command" => expects[r.cmd] # NotBuilt
Sent == (\A r \in pending : IsBuilt(r)) /\ \A n \in DOMAIN uplink : IsBuilt(uplink[n])

(* The answer under way to a pending command says that it was applied where *)
(* it expected to be; a tactical host answers with the log up to there.     *)
Fits(m, r) ==
  m.to = r.id /\ r.kind = "command" /\ m.body # "rejected" =>
    /\ expects[r.cmd] + 1 \in DOMAIN engine.log /\ engine.log[expects[r.cmd] + 1].cmd = r.cmd
    /\ Tactical => m.body = "snapshot" /\ Len(m.log) = expects[r.cmd] + 1
AnswersFit == \A n \in DOMAIN downlink : \A r \in pending : Fits(downlink[n], r)

(* A command is built once.                                                 *)
LEMMA ExpectsAreKept ==
  ASSUME TypeOK, LineStep \/ UNCHANGED vars
  PROVE  \A c \in Commands : expects[c] # NotBuilt => expects'[c] = expects[c]
<1>1. expects \in [Commands -> Nat \cup {NotBuilt}] BY DEF TypeOK
<1>2. CASE Restart BY <1>2 DEF Restart
<1>3. CASE \E c \in Commands : Build(c) BY <1>1, <1>3 DEF Build
<1> QED BY <1>2, <1>3, EngineEffect

LEMMA StaysSent ==
  ASSUME TypeOK, TypeOK', Sent, LineStep \/ UNCHANGED vars
  PROVE  Sent'
<1>1. uplink \in Seq(Request) /\ pending \subseteq Request /\ expects \in [Commands -> Nat \cup {NotBuilt}]
  BY DEF TypeOK
<1>2. ASSUME NEW r \in Request, IsBuilt(r) PROVE IsBuilt(r)'
  <2>1. r.kind = "command" => r.cmd \in Commands BY RequestFields
  <2> QED BY <1>2, <2>1, ExpectsAreKept DEF IsBuilt
<1>3. CASE Reset BY <1>3 DEF Reset, Cut, Sent
<1>4. CASE Push
  <2>1. UNCHANGED <<pending, uplink, expects>> BY <1>4 DEF Push, bridgeVars, clientVars
  <2> QED BY <2>1 DEF Sent, IsBuilt
<1>5. CASE Serve
  <2>1. UNCHANGED <<pending, expects>> /\ uplink # <<>> /\ uplink' = Tail(uplink)
    BY <1>5 DEF Serve, bridgeVars, clientVars
  <2>2. \A n \in DOMAIN uplink' : n + 1 \in DOMAIN uplink /\ uplink'[n] = uplink[n + 1]
    BY <1>1, <2>1
  <2> QED BY <2>1, <2>2 DEF Sent, IsBuilt
<1>6. ASSUME NEW asked \in Seq(Request), Asks(asked) PROVE Sent'
  <2>1. \A i \in DOMAIN asked : asked[i] \in Request /\ IsBuilt(asked[i])
    BY <1>6 DEF Asks, IsBuilt
  <2>2. \A r \in pending : r \in Request /\ IsBuilt(r) BY <1>1 DEF Sent
  <2>3. \A n \in DOMAIN uplink : uplink[n] \in Request /\ IsBuilt(uplink[n]) BY <1>1 DEF Sent
  <2>4. \A r \in pending' : r \in Request /\ IsBuilt(r) BY <1>6, <2>1, <2>2 DEF Asks
  <2>5. \A n \in DOMAIN uplink' : uplink'[n] \in Request /\ IsBuilt(uplink'[n])
    <3>1. CASE uplink' = asked BY <2>1, <3>1
    <3>2. CASE uplink' = uplink \o asked
      <4>1. \A n \in DOMAIN uplink' :
              \/ n \in DOMAIN uplink /\ uplink'[n] = uplink[n]
              \/ n - Len(uplink) \in DOMAIN asked /\ uplink'[n] = asked[n - Len(uplink)]
        BY <1>1, <3>2
      <4> QED BY <2>1, <2>3, <4>1
    <3> QED BY <1>6, <3>1, <3>2 DEF Asks
  <2>6. \A r \in pending' : IsBuilt(r)' BY <1>2, <2>4
  <2>7. \A n \in DOMAIN uplink' : IsBuilt(uplink[n])'
    <3> SUFFICES ASSUME NEW n \in DOMAIN uplink' PROVE IsBuilt(uplink[n])' OBVIOUS
    <3>1. uplink'[n] \in Request /\ IsBuilt(uplink'[n]) BY <2>5
    <3>2. uplink'[n].kind = "command" => uplink'[n].cmd \in Commands BY <3>1, RequestFields
    <3> QED BY <3>1, <3>2, ExpectsAreKept DEF IsBuilt
  <2> QED BY <2>6, <2>7 DEF Sent
<1> QED BY <1>3, <1>4, <1>5, <1>6, NumbersEffect

LEMMA AnswersStayFit ==
  ASSUME TypeOK, TypeOK', Numbered, Sent, AnswersFit, LineStep \/ UNCHANGED vars
  PROVE  AnswersFit'
<1>1. /\ uplink \in Seq(Request) /\ downlink \in Seq(Message) /\ issued \in Nat /\ pending \subseteq Request
      /\ downlink' \in Seq(Message) /\ engine.log \in Seq(Entry) /\ engine'.log \in Seq(Entry)
      /\ expects \in [Commands -> Nat \cup {NotBuilt}]
  BY DEF TypeOK, Message
<1>2. CASE downlink' = <<>> BY <1>2 DEF AnswersFit
<1>3. CASE Reset BY <1>2, <1>3 DEF Reset, Cut
<1>4. CASE Restart BY <1>2, <1>4 DEF Restart
<1>5. CASE Grows(engine.log, engine'.log)
  <2>1. ASSUME NEW m \in Message, NEW r \in pending, Fits(m, r) PROVE Fits(m, r)'
    <3> SUFFICES ASSUME m.to = r.id, r.kind = "command", m.body # "rejected"
                 PROVE  /\ expects'[r.cmd] + 1 \in DOMAIN engine'.log
                        /\ engine'.log[expects'[r.cmd] + 1].cmd = r.cmd
                        /\ Tactical => m.body = "snapshot" /\ Len(m.log) = expects'[r.cmd] + 1
      BY DEF Fits
    <3>1. /\ expects[r.cmd] + 1 \in DOMAIN engine.log /\ engine.log[expects[r.cmd] + 1].cmd = r.cmd
          /\ Tactical => m.body = "snapshot" /\ Len(m.log) = expects[r.cmd] + 1
      BY <2>1 DEF Fits
    <3>2. r.cmd \in Commands /\ expects[r.cmd] # NotBuilt
      BY <1>1, RequestFields DEF Sent, IsBuilt
    <3>3. expects'[r.cmd] = expects[r.cmd] BY <3>2, ExpectsAreKept
    <3>4. /\ Len(engine.log) <= Len(engine'.log)
          /\ \A i \in 1 .. Len(engine.log) : engine'.log[i] = engine.log[i]
      BY <1>5 DEF Grows
    <3>5. expects[r.cmd] + 1 \in 1 .. Len(engine.log) BY <1>1, <3>1
    <3>6. expects[r.cmd] + 1 \in 1 .. Len(engine'.log) BY <1>1, <3>4, <3>5
    <3>7. engine'.log[expects[r.cmd] + 1] = engine.log[expects[r.cmd] + 1] BY <3>4, <3>5
    <3> QED BY <1>1, <3>1, <3>3, <3>6, <3>7
  <2>2. \A n \in DOMAIN downlink : downlink[n] \in Message BY <1>1
  <2>3. CASE Push
    <3>1. UNCHANGED pending /\ \E m \in Message : m.to = 0 /\ downlink' = Append(downlink, m)
      <4>1. \A i \in 1 .. Len(engine.log) : \A j \in i .. Len(engine.log) :
              [to |-> 0, body |-> "events", log |-> SubSeq(engine.log, i, j), at |-> i] \in Message
        <5> SUFFICES ASSUME NEW i \in 1 .. Len(engine.log), NEW j \in i .. Len(engine.log)
                     PROVE  [to |-> 0, body |-> "events", log |-> SubSeq(engine.log, i, j), at |-> i] \in Message
          OBVIOUS
        <5>1. SubSeq(engine.log, i, j) \in Seq(Entry) BY <1>1
        <5> QED BY <5>1 DEF Message, Bodies
      <4>2. [to |-> 0, body |-> "snapshot", log |-> engine.log, at |-> 0] \in Message
        BY <1>1 DEF Message, Bodies
      <4> QED BY <2>3, <4>1, <4>2 DEF Push, bridgeVars
    <3>2. PICK m \in Message : m.to = 0 /\ downlink' = Append(downlink, m) BY <3>1
    <3>3. \A r \in pending : r.id # 0 BY <1>1 DEF Numbered
    <3>4. \A r \in pending : Fits(m, r)' BY <3>2, <3>3 DEF Fits
    <3>5. \A n \in DOMAIN downlink' : downlink'[n] = m \/ (n \in DOMAIN downlink /\ downlink'[n] = downlink[n])
      BY <1>1, <3>2
    <3>6. \A n \in DOMAIN downlink : \A r \in pending : Fits(downlink[n], r)
      BY DEF AnswersFit
    <3> QED BY <2>1, <2>2, <3>1, <3>4, <3>5, <3>6 DEF AnswersFit, Fits
  <2>4. CASE Serve
    <3> DEFINE q == Head(uplink)
    <3>1. /\ UNCHANGED <<pending, expects>> /\ uplink # <<>> /\ engine' = Executed(q.cmd)
          /\ \/ q.kind # "cancel" /\ downlink' = Append(downlink, AnswerTo(q))
             \/ q.kind = "hello" /\ downlink' = Append(downlink, Answer(q, "refused", <<>>, 0))
             \/ downlink' = downlink
      BY <2>4 DEF Serve, bridgeVars, clientVars
    <3>2. /\ q \in Request /\ q.id \in Nat
          /\ \A r \in pending : r.id = q.id => r = q
      BY <1>1, <3>1, RequestFields DEF Numbered
    <3>3. ASSUME NEW m \in Message, downlink' = Append(downlink, m), \A r \in pending : Fits(m, r)'
          PROVE  AnswersFit'
      <4>1. \A n \in DOMAIN downlink' : downlink'[n] = m \/ (n \in DOMAIN downlink /\ downlink'[n] = downlink[n])
        BY <1>1, <3>3
      <4>2. \A n \in DOMAIN downlink : \A r \in pending : Fits(downlink[n], r)
        BY DEF AnswersFit
      <4> QED BY <2>1, <2>2, <3>1, <3>3, <4>1, <4>2 DEF AnswersFit, Fits
    <3> HIDE DEF q
    <3>4. CASE q.kind # "cancel" /\ downlink' = Append(downlink, AnswerTo(q))
      <4>1. AnswerTo(q) \in Message BY <3>2, <3>4, AnswerIsTyped
      <4>2. q.kind \in Kinds \ {"cancel"} BY <3>2, <3>4, RequestFields
      <4>3. ASSUME NEW r \in pending, AnswerTo(q).to = r.id, r.kind = "command",
                   AnswerTo(q).body # "rejected"
            PROVE  /\ expects[r.cmd] + 1 \in DOMAIN engine'.log
                   /\ engine'.log[expects[r.cmd] + 1].cmd = r.cmd
                   /\ Tactical => /\ AnswerTo(q).body = "snapshot"
                                  /\ Len(AnswerTo(q).log) = expects[r.cmd] + 1
        <5>1. AnswerTo(q).to = q.id BY <4>2, Answers DEF Answer, Kinds
        <5>2. r = q BY <3>2, <4>3, <5>1
        <5>3. Accepts(q.cmd) BY <4>2, <4>3, <5>2, Answers DEF Answer
        <5>4. q.cmd \in Commands BY <3>2, <4>3, <5>2, RequestFields
        <5>5. expects[q.cmd] = Len(engine.log) BY <5>3 DEF Accepts
        <5>6. q.cmd # NoCommand BY <5>4, Names
        <5>7. engine'.log = Applied(q.cmd)
          <6>1. engine \in [run : Nat, log : Seq(Entry)] BY DEF TypeOK
          <6> QED BY <3>1, <5>3, <5>6, <6>1 DEF Executed
        <5>8. /\ Len(engine'.log) = Len(engine.log) + 1
              /\ engine'.log[Len(engine.log) + 1] = [cmd |-> q.cmd, run |-> engine.run]
          BY <5>4, <5>7, AppliedType
        <5>9. Tactical => AnswerTo(q) = Answer(q, "snapshot", Applied(q.cmd), 0)
          BY <4>2, <4>3, <5>2, <5>3, Answers
        <5>10. Len(engine.log) + 1 \in DOMAIN engine'.log BY <1>1, <5>8
        <5> QED BY <5>2, <5>5, <5>7, <5>8, <5>9, <5>10 DEF Answer
      <4>4. PICK m \in Message : m = AnswerTo(q) BY <4>1
      <4>5. \A r \in pending : Fits(m, r)' BY <3>1, <4>3, <4>4 DEF Fits
      <4> QED BY <3>3, <3>4, <4>4, <4>5
    <3>5. CASE q.kind = "hello" /\ downlink' = Append(downlink, Answer(q, "refused", <<>>, 0))
      <4>1. Answer(q, "refused", <<>>, 0) \in Message BY <3>2 DEF Answer, Message, Bodies
      <4>2. \A r \in pending : r.id = q.id => r.kind # "command" BY <3>2, <3>5
      <4>3. PICK m \in Message : m = Answer(q, "refused", <<>>, 0) BY <4>1
      <4>4. m.to = q.id BY <4>3 DEF Answer
      <4>5. \A r \in pending : Fits(m, r)' BY <4>2, <4>4 DEF Fits
      <4> QED BY <3>3, <3>5, <4>3, <4>5
    <3>6. CASE downlink' = downlink
      <4>1. \A n \in DOMAIN downlink : \A r \in pending : Fits(downlink[n], r)
        BY DEF AnswersFit
      <4> QED BY <2>1, <2>2, <3>1, <3>6, <4>1 DEF AnswersFit, Fits
    <3> QED BY <3>1, <3>4, <3>5, <3>6
  <2>5. ASSUME NEW asked \in Seq(Request), Asks(asked) PROVE AnswersFit'
    <3>1. \A n \in DOMAIN downlink' : \E k \in DOMAIN downlink : downlink'[n] = downlink[k]
      <4>1. CASE downlink # <<>> /\ downlink' = Tail(downlink)
        <5>1. \A n \in DOMAIN downlink' : n + 1 \in DOMAIN downlink /\ downlink'[n] = downlink[n + 1]
          BY <1>1, <4>1
        <5> QED BY <5>1
      <4> QED BY <2>5, <4>1 DEF Asks
    <3>2. ASSUME NEW k \in DOMAIN downlink, NEW i \in DOMAIN asked
          PROVE  downlink[k].to # asked[i].id
      <4>1. downlink[k] \in Message /\ downlink[k].to <= issued BY <2>2 DEF Numbered
      <4>2. asked[i].id = issued + i /\ i \in Nat \ {0} BY <2>5 DEF Asks
      <4> QED BY <1>1, <4>1, <4>2 DEF Message
    <3>3. pending' \subseteq pending \cup {asked[i] : i \in DOMAIN asked} BY <2>5 DEF Asks
    <3>4. ASSUME NEW n \in DOMAIN downlink', NEW r \in pending'
          PROVE  downlink'[n].to = r.id /\ r.kind = "command" /\ downlink'[n].body # "rejected" =>
                   /\ expects'[r.cmd] + 1 \in DOMAIN engine'.log
                   /\ engine'.log[expects'[r.cmd] + 1].cmd = r.cmd
                   /\ Tactical => /\ downlink'[n].body = "snapshot"
                                  /\ Len(downlink'[n].log) = expects'[r.cmd] + 1
      <4>1. PICK k \in DOMAIN downlink : downlink'[n] = downlink[k] BY <3>1
      <4>2. CASE r \in pending
        <5>1. Fits(downlink[k], r) BY <4>2 DEF AnswersFit
        <5>2. downlink[k] \in Message BY <2>2
        <5>3. \A m \in Message : Fits(m, r) => Fits(m, r)' BY <2>1, <4>2
        <5> QED BY <4>1, <5>1, <5>2, <5>3 DEF Fits
      <4>3. CASE r \notin pending
        <5>1. PICK i \in DOMAIN asked : r = asked[i] BY <3>3, <4>3
        <5> QED BY <3>2, <4>1, <5>1
      <4> QED BY <4>2, <4>3
    <3> QED BY <3>4 DEF AnswersFit, Fits
  <2> QED BY <1>3, <2>3, <2>4, <2>5, NumbersEffect
<1> QED BY <1>4, <1>5, EngineGrows

(* Commands are built on something shown, and the mirror is never emptied.  *)
BuiltOnSight == \A c \in Commands : expects[c] # NotBuilt => mirror.has

LEMMA StaysBuiltOnSight ==
  ASSUME TypeOK, MessagesAreCurrent, BuiltOnSight, LineStep \/ UNCHANGED vars
  PROVE  BuiltOnSight'
<1>1. mirror \in Mirrored /\ expects \in [Commands -> Nat \cup {NotBuilt}] BY DEF TypeOK, Mirrored
<1>2. mirror.has => mirror'.has
  <2>1. ASSUME NEW m \in Message, mirror' = MirrorAfter(m) PROVE mirror.has => mirror'.has
    <3>1. CASE MirrorTakesSnapshot(m)
      <4>1. mirror' = [has |-> TRUE, seq |-> Len(m.log), base |-> m.log, events |-> <<>>]
        BY <2>1, <3>1, Taking
      <4> QED BY <4>1
    <3>2. CASE MirrorTakesEvents(m)
      <4>1. mirror' = [mirror EXCEPT !.seq = LastOf(m),
                                     !.events = mirror.events \o EventsFrom(m, mirror.seq + 1)]
        BY <2>1, <3>2, Taking
      <4> QED BY <1>1, <4>1 DEF Mirrored
    <3>3. CASE ~MirrorTakesSnapshot(m) /\ ~MirrorTakesEvents(m) BY <2>1, <3>3, Taking
    <3> QED BY <3>1, <3>2, <3>3
  <2> QED BY <2>1, CopiesEffect DEF SameCopies, Takes
<1>3. CASE \E c \in Commands : Build(c)
  BY <1>1, <1>2, <1>3 DEF Build, BuiltOnSight
<1>4. CASE UNCHANGED expects BY <1>2, <1>4 DEF BuiltOnSight
<1> QED BY <1>3, <1>4, EngineEffect DEF Restart

LInv == BInv /\ Numbered /\ Sent /\ AnswersFit /\ BuiltOnSight

LEMMA LineKeepsLInv ==
  ASSUME LInv, LineStep \/ UNCHANGED vars
  PROVE  LInv' /\ mirror'.seq >= mirror.seq
<1>1. BInv' /\ mirror'.seq >= mirror.seq BY LineKeepsBInv DEF LInv
<1>2. TypeOK /\ TypeOK' /\ MessagesAreCurrent BY <1>1 DEF LInv, BInv
<1> QED BY <1>1, <1>2, StaysNumbered, StaysSent, AnswersStayFit, StaysBuiltOnSight DEF LInv

-----------------------------------------------------------------------------
(* The client: types, and one confirm at a time                             *)

ShellTyped ==
  /\ shell \in ShellStates /\ loading \in BOOLEAN /\ cached \in BOOLEAN
  /\ intent \in Commands \cup {NoIntent}
  /\ notice \in {"none", "accepted", "rejected", "failed"}

Awaited(r) == r.kind = "command" /\ r.id \in tracked
OneIntent ==
  /\ \A r \in pending : Awaited(r) => r.cmd = intent
  /\ \A r, s \in pending : Awaited(r) /\ Awaited(s) => r = s

(* On a connection in use, the client waits for every pending command.      *)
Waiting == link # "down" => \A r \in pending : r.kind = "command" => r.id \in tracked

CInv == LInv /\ ShellTyped /\ OneIntent /\ Waiting

LEMMA ShellStaysTyped ==
  ASSUME ShellTyped, [ClientNext]_allVars
  PROVE  ShellTyped'
<1> USE DEF ShellTyped, ShellStates, NoIntent, shellVars, inputVars, allVars, AfterFailure
<1>1. CASE Start \/ LinkOpens \/ LinkFails \/ LinkLost \/ EngineRestarts \/ HostServes \/ OthersAct
  BY <1>1 DEF Start, LinkOpens, LinkFails, LinkLost, EngineRestarts, HostServes, OthersAct
<1>2. CASE LoadDone \/ LoadFails \/ Shutdown BY <1>2 DEF LoadDone, LoadFails, Shutdown
<1>3. ASSUME NEW m \in {downlink[i] : i \in DOMAIN downlink}, NEW r \in pending,
             \/ Stale(m) \/ Negotiated(m, r) \/ Incompatible(m, r) \/ Answered(m, r) \/ Rejected(m, r)
      PROVE  ShellTyped'
  <2>1. CASE Answered(m, r)
    <3>1. (shell' = shell /\ loading' = loading) \/ BeginLoad BY <2>1 DEF Answered
    <3>2. shell' \in ShellStates /\ loading' \in BOOLEAN BY <3>1 DEF BeginLoad
    <3> QED BY <2>1, <3>2 DEF Answered
  <2>2. CASE Rejected(m, r) BY <2>2 DEF Rejected
  <2>3. CASE Stale(m) \/ Negotiated(m, r) \/ Incompatible(m, r)
    BY <2>3 DEF Stale, Negotiated, Incompatible
  <2> QED BY <1>3, <2>1, <2>2, <2>3
<1>4. CASE Hear
  <2>1. CASE \E m \in {downlink[i] : i \in DOMAIN downlink} : Stale(m) BY <2>1 DEF Stale
  <2> QED BY <1>3, <1>4, <2>1 DEF Hear
<1>5. CASE \E r \in pending : Expired(r) \/ CancelPreview(r) BY <1>5 DEF Expired, CancelPreview
<1>6. CASE (\E c \in Commands : Arm(c)) \/ Confirm \/ Disarm \/ AskPreview
  BY <1>6 DEF Arm, Confirm, Disarm, AskPreview
<1>7. CASE UNCHANGED allVars BY <1>7
<1> QED BY <1>1, <1>2, <1>4, <1>5, <1>6, <1>7 DEF ClientNext

(* Steps that ask for nothing but queries keep the armed intent and what is *)
(* waited for, or give up requests.                                         *)
LEMMA KeepsOneIntent ==
  ASSUME OneIntent, Waiting, UNCHANGED intent, link' = link \/ link' = "down" \/ pending \cap pending' = {},
         \A r \in pending' : r \in pending \/ r.kind # "command",
         \A r \in pending \cap pending' : r.id \in tracked' <=> r.id \in tracked
  PROVE  OneIntent' /\ Waiting'
BY DEF OneIntent, Waiting, Awaited

LEMMA StaysOneIntent ==
  ASSUME LInv, ShellTyped, OneIntent, Waiting, [ClientNext]_allVars
  PROVE  OneIntent' /\ Waiting'
<1> USE DEF shellVars, inputVars, hostVars, wireVars, bridgeVars, clientVars
<1>1. /\ \A r \in pending : r \in Request /\ r.id \in Nat /\ r.id <= issued
      /\ \A r, s \in pending : r.id = s.id => r = s
      /\ issued \in Nat
  BY RequestFields DEF LInv, BInv, TypeOK, Numbered
<1>2. CASE Start \/ Shutdown
  BY <1>2 DEF Start, Shutdown, Open, OneIntent, Waiting
<1>3. CASE LinkOpens
  <2>1. \A r \in pending' : r \in pending \/ r.kind # "command" BY <1>3 DEF LinkOpens, Connected
  <2>2. UNCHANGED <<intent, tracked>> /\ link = "opening" BY <1>3 DEF LinkOpens, Connected
  <2> QED BY <2>1, <2>2 DEF OneIntent, Waiting, Awaited
<1>4. CASE LinkFails BY <1>4, KeepsOneIntent DEF LinkFails, ConnectFails
<1>5. CASE LinkLost
  <2>1. tracked' = {} /\ link' = "down" BY <1>5 DEF LinkLost, Drop, Disconnected
  <2> QED BY <2>1 DEF OneIntent, Waiting, Awaited
<1>6. CASE EngineRestarts
  <2>1. CASE link = "up"
    <3>1. tracked' = {} /\ link' = "down" BY <1>6, <2>1 DEF EngineRestarts, Restart, Disconnected
    <3> QED BY <3>1 DEF OneIntent, Waiting, Awaited
  <2>2. CASE link # "up"
    <3>1. UNCHANGED <<intent, pending, tracked, link>>
      BY <1>6, <2>2 DEF EngineRestarts, Restart
    <3> QED BY <3>1, KeepsOneIntent
  <2> QED BY <2>1, <2>2
<1>7. CASE HostServes \/ OthersAct \/ LoadDone \/ LoadFails
  <2>1. UNCHANGED <<intent, pending, tracked, link>>
    BY <1>7 DEF HostServes, OthersAct, LoadDone, LoadFails, Serve, ServeOrphan, ForeignCommand, vars
  <2> QED BY <2>1, KeepsOneIntent
<1>8. ASSUME NEW m \in {downlink[i] : i \in DOMAIN downlink}, Stale(m) PROVE OneIntent' /\ Waiting'
  <2>1. UNCHANGED <<intent, pending, tracked, link>> BY <1>8 DEF Stale, IgnoreStale
  <2> QED BY <2>1, KeepsOneIntent
<1>9. ASSUME NEW m \in {downlink[i] : i \in DOMAIN downlink}, NEW r \in pending, Negotiated(m, r)
      PROVE  OneIntent' /\ Waiting'
  <2> DEFINE first  == [id |-> issued + 1, kind |-> "snapshot", cmd |-> NoCommand]
             second == [id |-> issued + 2, kind |-> "resync", cmd |-> NoCommand]
             asked == IF bridge.resync THEN <<first, second>> ELSE <<first>>
  <2>1. /\ pending' = (pending \ {r}) \cup {asked[i] : i \in DOMAIN asked}
        /\ tracked' = tracked \cup {first.id} /\ UNCHANGED <<intent, link>>
    BY <1>9 DEF Negotiated, TakeHello
  <2>2. first.id = issued + 1 /\ \A i \in DOMAIN asked : asked[i].kind # "command" OBVIOUS
  <2> HIDE DEF asked, first, second
  <2>3. \A s \in pending : s.id \in tracked' <=> s.id \in tracked BY <1>1, <2>1, <2>2
  <2>4. \A s \in pending' : s \in pending \/ s.kind # "command" BY <2>1, <2>2
  <2> QED BY <2>1, <2>3, <2>4, KeepsOneIntent
<1>10. ASSUME NEW r \in pending, pending' = pending \ {r}, tracked' = tracked \ {r.id} \/ tracked' = tracked,
              UNCHANGED <<intent, link>>
       PROVE  OneIntent' /\ Waiting'
  <2>1. \A s \in pending \cap pending' : s.id \in tracked' <=> s.id \in tracked BY <1>1, <1>10
  <2> QED BY <1>10, <2>1, KeepsOneIntent
<1>11. ASSUME NEW m \in {downlink[i] : i \in DOMAIN downlink}, NEW r \in pending,
              Incompatible(m, r) \/ Rejected(m, r)
       PROVE  OneIntent' /\ Waiting'
  BY <1>10, <1>11 DEF Incompatible, Rejected, TakeRefusal, TakeRejection
<1>12. ASSUME NEW m \in {downlink[i] : i \in DOMAIN downlink}, NEW r \in pending, Answered(m, r)
       PROVE  OneIntent' /\ Waiting'
  <2>1. /\ pending' = pending \ {r} /\ tracked' = tracked \ {r.id} /\ UNCHANGED link /\ link = "up"
        /\ intent' = IF r.kind = "command" /\ r.cmd = intent THEN NoIntent ELSE intent
    BY <1>12 DEF Answered, TakeAnswer, Incoming
  <2>2. CASE r.kind = "command" /\ r.cmd = intent
    <3>1. Awaited(r) BY <2>1, <2>2 DEF Waiting, Awaited
    <3>2. \A s \in pending' : s \in pending /\ s # r BY <2>1
    <3>3. \A s \in pending' : ~Awaited(s) BY <3>1, <3>2 DEF OneIntent
    <3>4. \A s \in pending' : s.id \in tracked' => s.id \in tracked BY <2>1
    <3>5. \A s \in pending' : s.kind # "command"
      BY <2>1, <3>2, <3>3 DEF Waiting, Awaited
    <3> QED BY <3>5 DEF OneIntent, Waiting, Awaited
  <2>3. CASE ~(r.kind = "command" /\ r.cmd = intent) BY <1>10, <2>1, <2>3
  <2> QED BY <2>2, <2>3
<1>13. CASE Hear BY <1>8, <1>9, <1>11, <1>12, <1>13 DEF Hear
<1>14. ASSUME NEW r \in pending, Expired(r) PROVE OneIntent' /\ Waiting'
  BY <1>10, <1>14 DEF Expired, Expire
<1>15. ASSUME NEW r \in pending, CancelPreview(r) PROVE OneIntent' /\ Waiting'
  BY <1>10, <1>15 DEF CancelPreview, Cancel
<1>16. ASSUME ~Locked, UNCHANGED <<pending, tracked, link>> PROVE OneIntent' /\ Waiting'
  BY <1>16 DEF Locked, OneIntent, Waiting, Awaited
<1>17. CASE (\E c \in Commands : Arm(c)) \/ Disarm
  BY <1>16, <1>17 DEF Arm, Disarm, Build, vars
<1>18. CASE AskPreview
  <2> DEFINE new == [id |-> issued + 1, kind |-> "preview", cmd |-> NoCommand]
  <2>1. /\ pending' = pending \cup {new} /\ tracked' = tracked \cup {new.id}
        /\ UNCHANGED <<intent, link>>
    BY <1>18 DEF AskPreview, Preview, Track
  <2>2. new.kind # "command" /\ new.id = issued + 1 OBVIOUS
  <2> HIDE DEF new
  <2>3. \A s \in pending : s.id \in tracked' <=> s.id \in tracked BY <1>1, <2>1, <2>2
  <2>4. \A s \in pending' : s \in pending \/ s.kind # "command" BY <2>1, <2>2
  <2> QED BY <2>1, <2>3, <2>4, KeepsOneIntent
<1>19. CASE Confirm
  <2> DEFINE new == [id |-> issued + 1, kind |-> "command", cmd |-> intent]
  <2>1. /\ pending' = pending \cup {new} /\ tracked' = tracked \cup {new.id}
        /\ UNCHANGED <<intent, link>> /\ ~Locked /\ link = "up"
    BY <1>19 DEF Confirm, Submit, Track, CanSubmit
  <2>2. new.cmd = intent /\ new.id = issued + 1 OBVIOUS
  <2> HIDE DEF new
  <2>3. \A s \in pending : s.id \in tracked' <=> s.id \in tracked BY <1>1, <2>1, <2>2
  <2>4. \A s \in pending : s.kind # "command" BY <2>1 DEF Locked, Waiting
  <2>5. \A s \in pending' : s.kind = "command" => s = new BY <2>1, <2>4
  <2> QED BY <2>1, <2>2, <2>5 DEF OneIntent, Waiting, Awaited
<1>20. CASE UNCHANGED allVars
  BY <1>20, KeepsOneIntent DEF allVars, vars
<1> QED BY <1>2, <1>3, <1>4, <1>5, <1>6, <1>7, <1>13, <1>14, <1>15, <1>17, <1>18, <1>19, <1>20
        DEF ClientNext

-----------------------------------------------------------------------------
(* Accepted commands are shown                                              *)

(* What the mirror shows is all from the running engine process.            *)
Fresh == \A i \in DOMAIN Shown : Shown[i].run = engine.run

(* Input gets through to a connection only when the mirror has been         *)
(* refreshed on it, or the armed command was built on what is shown now (a  *)
(* scene load that ends on a later connection than it began on).            *)
Playing ==
  /\ loading => ~cached
  /\ shell = "READY" \/ intent # NoIntent => cached
  /\ shell = "READY" /\ link = "up" /\ bridge.ready /\ intent # NoIntent =>
       Fresh \/ mirror.seq <= expects[intent]

(* Then its answer is news to the mirror, or is about what it shows.        *)
Covered(r) == r.kind = "command" => Fresh \/ mirror.seq <= expects[r.cmd]
InFlight ==
  /\ \A n \in DOMAIN uplink : Covered(uplink[n])
  /\ \A n \in DOMAIN downlink : \A r \in pending : downlink[n].to = r.id => Covered(r)

OnlySnapshots == \A n \in DOMAIN downlink : downlink[n].body # "events"

PInv == Playing /\ InFlight /\ OnlySnapshots

(* What keeps what is in flight covered.                                    *)
LEMMA StaysInFlight ==
  ASSUME Sent, InFlight, OnlySnapshots,
         \A r \in pending \cup {uplink[n] : n \in DOMAIN uplink} :
           IsBuilt(r) /\ Covered(r) => Covered(r)',
         \A n \in DOMAIN uplink' : Covered(uplink[n])' \/ \E k \in DOMAIN uplink : uplink'[n] = uplink[k],
         \A r \in pending' : r \in pending \/ \A n \in DOMAIN downlink : downlink[n].to # r.id,
         \A n \in DOMAIN downlink' : \E k \in DOMAIN downlink : downlink'[n] = downlink[k]
  PROVE  InFlight' /\ OnlySnapshots'
<1>1. ASSUME NEW n \in DOMAIN uplink' PROVE Covered(uplink[n])'
  <2>1. CASE \E k \in DOMAIN uplink : uplink'[n] = uplink[k]
    <3>1. PICK k \in DOMAIN uplink : uplink'[n] = uplink[k] BY <2>1
    <3>2. IsBuilt(uplink[k]) /\ Covered(uplink[k]) BY DEF Sent, InFlight
    <3>3. PICK q \in {uplink[i] : i \in DOMAIN uplink} : q = uplink[k] OBVIOUS
    <3>4. Covered(q)' BY <3>2, <3>3
    <3> QED BY <3>1, <3>3, <3>4 DEF Covered
  <2>2. CASE Covered(uplink[n])' BY <2>2 DEF Covered
  <2> QED BY <2>1, <2>2
<1>2. ASSUME NEW n \in DOMAIN downlink', NEW r \in pending', downlink'[n].to = r.id
      PROVE  Covered(r)'
  <2>1. PICK k \in DOMAIN downlink : downlink'[n] = downlink[k] OBVIOUS
  <2>2. r \in pending BY <1>2, <2>1
  <2> QED BY <1>2, <2>1, <2>2 DEF Sent, InFlight
<1>3. OnlySnapshots' BY DEF OnlySnapshots
<1> QED BY <1>1, <1>2, <1>3 DEF InFlight

(* While the mirror and the engine process stay, so does what is covered.   *)
LEMMA Quiet ==
  ASSUME TypeOK, LineStep \/ UNCHANGED vars, mirror' = mirror, engine'.run = engine.run
  PROVE  /\ Fresh => Fresh'
         /\ \A r \in Request : IsBuilt(r) /\ Covered(r) => Covered(r)'
<1>1. Fresh => Fresh' BY DEF Fresh, Shown
<1>2. ASSUME NEW r \in Request, IsBuilt(r), Covered(r) PROVE Covered(r)'
  <2> SUFFICES ASSUME r.kind = "command" PROVE Fresh' \/ mirror'.seq <= expects'[r.cmd]
    BY DEF Covered
  <2>1. r.cmd \in Commands /\ expects[r.cmd] # NotBuilt BY <1>2, RequestFields DEF IsBuilt
  <2>2. expects'[r.cmd] = expects[r.cmd] BY <2>1, ExpectsAreKept
  <2> QED BY <1>1, <1>2, <2>2 DEF Covered
<1> QED BY <1>1, <1>2

LEMMA TakenIsFresh ==
  ASSUME TypeOK, LogIsOwn, NEW m \in Message, Current(m, engine.log), MirrorTakesSnapshot(m),
         mirror' = MirrorAfter(m), UNCHANGED engine
  PROVE  Fresh' /\ Shown' = m.log
<1>1. m.log \in Seq(Entry) /\ engine.log \in Seq(Entry) BY DEF Message, TypeOK
<1>2. m.body = "snapshot" BY DEF MirrorTakesSnapshot, TakesSnapshot
<1>3. Len(m.log) <= Len(engine.log) /\ \A i \in DOMAIN m.log : m.log[i] = engine.log[i]
  BY <1>2 DEF Current
<1>4. mirror' = [has |-> TRUE, seq |-> Len(m.log), base |-> m.log, events |-> <<>>] BY Taking
<1>5. Shown' = m.log BY <1>1, <1>4 DEF Shown
<1>6. \A i \in DOMAIN m.log : i \in DOMAIN engine.log BY <1>1, <1>3
<1>7. \A i \in DOMAIN m.log : m.log[i].run = engine.run BY <1>3, <1>6 DEF LogIsOwn
<1> QED BY <1>5, <1>7 DEF Fresh

(* Steps under which the connection is lost or not there.                   *)
LEMMA NothingInFlight ==
  ASSUME uplink' = <<>>, downlink' = <<>>
  PROVE  InFlight' /\ OnlySnapshots'
BY DEF InFlight, OnlySnapshots

LEMMA StaysPlayed ==
  ASSUME Tactical, CInv, CInv', PInv, [ClientNext]_allVars
  PROVE  PInv'
<1> USE DEF shellVars, inputVars, hostVars, wireVars, bridgeVars, clientVars
<1> DEFINE Goal == Playing' /\ InFlight' /\ OnlySnapshots'
<1> SUFFICES Goal BY DEF PInv
<1>1. /\ TypeOK /\ TypeOK' /\ LogIsOwn /\ MessagesAreCurrent /\ Numbered /\ Sent /\ ShellTyped
      /\ Playing /\ InFlight /\ OnlySnapshots /\ (LineStep \/ UNCHANGED vars)
  BY ClientSteps DEF CInv, LInv, BInv, PInv, ShellTyped
<1>2. /\ uplink \in Seq(Request) /\ downlink \in Seq(Message) /\ pending \subseteq Request
      /\ issued \in Nat /\ expects \in [Commands -> Nat \cup {NotBuilt}] /\ mirror \in Mirrored
  BY <1>1 DEF TypeOK, Message, Mirrored
<1>3. \A r \in pending \cup {uplink[n] : n \in DOMAIN uplink} : r \in Request BY <1>2
<1>4. \A r \in pending' : r \in pending \/ r.id > issued =>
        r \in pending \/ \A n \in DOMAIN downlink : downlink[n].to # r.id
  <2>1. \A n \in DOMAIN downlink : downlink[n].to \in Nat /\ downlink[n].to <= issued
    <3>1. \A n \in DOMAIN downlink : downlink[n] \in Message BY <1>2
    <3> QED BY <1>1, <3>1 DEF Numbered, Message
  <2>2. \A r \in pending' : r.id \in Nat BY <1>1, RequestFields DEF TypeOK
  <2> QED BY <1>2, <2>1, <2>2
<1>5. ASSUME downlink # <<>>, downlink' = Tail(downlink)
      PROVE  \A n \in DOMAIN downlink' : \E k \in DOMAIN downlink : downlink'[n] = downlink[k]
  <2>1. \A n \in DOMAIN downlink' : n + 1 \in DOMAIN downlink /\ downlink'[n] = downlink[n + 1]
    BY <1>2, <1>5
  <2> QED BY <2>1
(* the shell and the armed intent, the mirror and the commands as they were *)
<1>6. ASSUME UNCHANGED <<mirror, intent, loading, cached>>, engine'.run = engine.run,
             \A c \in Commands : expects'[c] = expects[c],
             shell' = "READY" /\ link' = "up" /\ bridge'.ready =>
               shell = "READY" /\ link = "up" /\ bridge.ready,
             shell' = "READY" => shell = "READY"
      PROVE  Playing'
  <2>1. Fresh => Fresh' BY <1>6 DEF Fresh, Shown
  <2>2. intent # NoIntent => intent \in Commands BY <1>1 DEF ShellTyped
  <2> QED BY <1>1, <1>6, <2>1, <2>2 DEF Playing
<1>7. CASE Start \/ LinkLost
  <2>1. uplink' = <<>> /\ downlink' = <<>> BY <1>7 DEF Start, LinkLost, Open, Drop, Cut
  <2>2. /\ shell' # "READY" /\ UNCHANGED <<mirror, intent, loading, cached, engine, expects>>
    BY <1>7 DEF Start, LinkLost, Open, Drop
  <2> QED BY <1>6, <2>1, <2>2, NothingInFlight
<1>8. CASE Shutdown
  <2>1. uplink' = <<>> /\ downlink' = <<>> BY <1>8 DEF Shutdown, Cut
  <2>2. shell' # "READY" /\ intent' = NoIntent /\ loading' = FALSE BY <1>8 DEF Shutdown
  <2> QED BY <2>1, <2>2, NothingInFlight DEF Playing
<1>9. CASE EngineRestarts
  <2>1. uplink' = <<>> /\ downlink' = <<>> BY <1>9 DEF EngineRestarts, Restart
  <2>2. link' # "up" /\ (shell' = "READY" => shell = "READY") /\ UNCHANGED <<intent, loading, cached>>
    BY <1>9 DEF EngineRestarts, Restart
  <2> QED BY <1>1, <2>1, <2>2, NothingInFlight DEF Playing
<1>10. ASSUME UNCHANGED <<mirror, engine, expects>>,
              \A n \in DOMAIN uplink' : Covered(uplink[n])' \/ \E k \in DOMAIN uplink : uplink'[n] = uplink[k],
              \A r \in pending' : r \in pending \/ r.id > issued,
              downlink' = downlink \/ (downlink # <<>> /\ downlink' = Tail(downlink))
       PROVE  InFlight' /\ OnlySnapshots'
  <2>1. \A r \in pending \cup {uplink[n] : n \in DOMAIN uplink} : IsBuilt(r) /\ Covered(r) => Covered(r)'
    BY <1>1, <1>3, <1>10, Quiet
  <2>2. \A n \in DOMAIN downlink' : \E k \in DOMAIN downlink : downlink'[n] = downlink[k]
    BY <1>5, <1>10
  <2>3. \A r \in pending' : r \in pending \/ \A n \in DOMAIN downlink : downlink[n].to # r.id
    BY <1>4, <1>10
  <2> QED BY <1>1, <1>10, <2>1, <2>2, <2>3, StaysInFlight
<1>11. CASE LinkOpens
  <2>1. /\ UNCHANGED <<mirror, engine, expects, downlink, shell, loading, cached, intent>>
        /\ bridge' = [bridge EXCEPT !.ready = FALSE]
        /\ \E r : /\ r.id = issued + 1 /\ r.kind = "hello"
                  /\ uplink' = <<r>> /\ pending' = pending \cup {r}
    BY <1>11 DEF LinkOpens, Connected
  <2>2. bridge'.ready = FALSE BY <1>1, <2>1 DEF TypeOK
  <2>3. Playing' BY <1>6, <2>1, <2>2
  <2>4. \A n \in DOMAIN uplink' : Covered(uplink[n])' BY <2>1 DEF Covered
  <2>5. \A r \in pending' : r \in pending \/ r.id > issued BY <1>2, <2>1
  <2> QED BY <1>10, <2>1, <2>3, <2>4, <2>5
<1>12. CASE LinkFails
  <2>1. /\ UNCHANGED <<mirror, engine, expects, uplink, downlink, pending, loading, cached, intent>>
        /\ link' = "down" /\ (shell' = "READY" => shell = "READY")
    BY <1>12 DEF LinkFails, ConnectFails, AfterFailure
  <2> QED BY <1>6, <1>10, <2>1
<1>13. CASE OthersAct
  <2>1. /\ UNCHANGED <<mirror, expects, uplink, downlink, pending, shell, link, bridge>>
        /\ UNCHANGED <<loading, cached, intent>> /\ engine' = [engine EXCEPT !.log = Applied(Foreign)]
    BY <1>13 DEF OthersAct, ForeignCommand
  <2>2. engine'.run = engine.run BY <1>1, <2>1 DEF TypeOK
  <2>3. \A r \in pending \cup {uplink[n] : n \in DOMAIN uplink} : IsBuilt(r) /\ Covered(r) => Covered(r)'
    BY <1>1, <1>3, <2>1, <2>2, Quiet
  <2> QED BY <1>1, <1>6, <2>1, <2>2, <2>3, StaysInFlight
<1>14. CASE HostServes
  <2>1. UNCHANGED <<mirror, expects, pending, shell, link, bridge, loading, cached, intent>>
    BY <1>14 DEF HostServes, Serve, ServeOrphan
  <2>2. engine'.run = engine.run
    <3>1. PICK c \in Commands \cup {NoCommand} : engine' = Executed(c)
      <4>1. CASE Serve
        <5>1. engine' = Executed(Head(uplink).cmd) /\ uplink # <<>> BY <4>1 DEF Serve
        <5>2. Head(uplink) \in Request BY <1>2, <5>1
        <5> QED BY <5>1, <5>2, RequestFields
      <4>2. CASE ServeOrphan
        <5>1. engine' = Executed(Head(orphans)) /\ orphans # <<>> BY <4>2 DEF ServeOrphan
        <5>2. Head(orphans) \in Commands BY <1>1, <5>1 DEF TypeOK
        <5> QED BY <5>1, <5>2
      <4> QED BY <1>14, <4>1, <4>2 DEF HostServes
    <3>2. engine \in [run : Nat, log : Seq(Entry)] BY <1>1 DEF TypeOK
    <3> QED BY <3>1, <3>2 DEF Executed
  <2>3. \A r \in pending \cup {uplink[n] : n \in DOMAIN uplink} : IsBuilt(r) /\ Covered(r) => Covered(r)'
    BY <1>1, <1>3, <2>1, <2>2, Quiet
  <2>4. Playing' BY <1>6, <2>1, <2>2
  <2>5. CASE ServeOrphan
    <3>1. UNCHANGED <<uplink, downlink>> BY <2>5 DEF ServeOrphan
    <3> QED BY <1>1, <2>1, <2>3, <2>4, <3>1, StaysInFlight
  <2>6. CASE Serve
    <3> DEFINE q == Head(uplink)
    <3>1. /\ uplink # <<>> /\ uplink' = Tail(uplink)
          /\ \/ q.kind # "cancel" /\ downlink' = Append(downlink, AnswerTo(q))
             \/ q.kind = "hello" /\ downlink' = Append(downlink, Answer(q, "refused", <<>>, 0))
             \/ downlink' = downlink
      BY <2>6 DEF Serve
    <3>2. /\ q \in Request /\ IsBuilt(q) /\ Covered(q) /\ q \in {uplink[n] : n \in DOMAIN uplink}
          /\ \A r \in pending : r.id = q.id => r = q
      BY <1>1, <1>2, <3>1 DEF Numbered, Sent, InFlight
    <3>3. \A n \in DOMAIN uplink' : \E k \in DOMAIN uplink : uplink'[n] = uplink[k]
      <4>1. \A n \in DOMAIN uplink' : n + 1 \in DOMAIN uplink /\ uplink'[n] = uplink[n + 1]
        BY <1>2, <3>1
      <4> QED BY <4>1
    <3> HIDE DEF q
    <3>4. PICK old \in {uplink[n] : n \in DOMAIN uplink} : old = q BY <3>2
    <3>5. Covered(old)' BY <2>3, <3>2, <3>4
    <3>6. \A r \in pending : r.id = q.id => r = old BY <3>2, <3>4
    <3>7. ASSUME NEW m, m.to = q.id, m.body # "events", downlink' = Append(downlink, m) PROVE Goal
      <4>1. \A n \in DOMAIN downlink' : downlink'[n] = m \/ (n \in DOMAIN downlink /\ downlink'[n] = downlink[n])
        BY <1>2, <3>7
      <4>2. \A n \in DOMAIN downlink' : downlink'[n].body # "events"
        BY <1>1, <3>7, <4>1 DEF OnlySnapshots
      <4>3. ASSUME NEW n \in DOMAIN downlink', NEW r \in pending, downlink'[n].to = r.id
            PROVE  Covered(r)'
        <5>1. CASE downlink'[n] = m BY <3>5, <3>6, <3>7, <4>3, <5>1
        <5>2. CASE n \in DOMAIN downlink /\ downlink'[n] = downlink[n]
          <6>1. IsBuilt(r) /\ Covered(r) BY <1>1, <4>3, <5>2 DEF Sent, InFlight
          <6> QED BY <2>3, <6>1
        <5> QED BY <4>1, <5>1, <5>2
      <4>4. ASSUME NEW n \in DOMAIN uplink' PROVE Covered(uplink[n])'
        <5>1. PICK k \in DOMAIN uplink : uplink'[n] = uplink[k] BY <3>3
        <5>2. IsBuilt(uplink[k]) /\ Covered(uplink[k]) BY <1>1 DEF Sent, InFlight
        <5>3. PICK s \in {uplink[i] : i \in DOMAIN uplink} : s = uplink[k] OBVIOUS
        <5>4. Covered(s)' BY <2>3, <5>2, <5>3
        <5> QED BY <5>1, <5>3, <5>4 DEF Covered
      <4> QED BY <2>1, <2>4, <4>2, <4>3, <4>4 DEF InFlight, OnlySnapshots
    <3>8. CASE q.kind # "cancel" /\ downlink' = Append(downlink, AnswerTo(q))
      <4>1. q.kind \in Kinds \ {"cancel"} BY <3>2, <3>8, RequestFields
      <4>2. AnswerTo(q).to = q.id /\ AnswerTo(q).body # "events" BY <4>1, Answers DEF Answer, Kinds
      <4> QED BY <3>7, <3>8, <4>2
    <3>9. CASE q.kind = "hello" /\ downlink' = Append(downlink, Answer(q, "refused", <<>>, 0))
      <4>1. /\ Answer(q, "refused", <<>>, 0).to = q.id
            /\ Answer(q, "refused", <<>>, 0).body # "events"
        BY DEF Answer
      <4> QED BY <3>7, <3>9, <4>1
    <3>10. CASE downlink' = downlink
      BY <1>1, <2>1, <2>3, <2>4, <3>3, <3>10, StaysInFlight
    <3> QED BY <3>1, <3>8, <3>9, <3>10
  <2> QED BY <1>14, <2>5, <2>6 DEF HostServes
<1>15. ASSUME NEW m \in {downlink[i] : i \in DOMAIN downlink}, Stale(m) PROVE Goal
  <2>1. /\ UNCHANGED <<mirror, engine, expects, uplink, pending, shell, link, bridge>>
        /\ UNCHANGED <<loading, cached, intent>> /\ downlink # <<>> /\ downlink' = Tail(downlink)
    BY <1>15 DEF Stale, IgnoreStale, Incoming
  <2> QED BY <1>6, <1>10, <2>1
<1>16. ASSUME NEW m \in {downlink[i] : i \in DOMAIN downlink}, NEW r \in pending, Negotiated(m, r)
       PROVE  Goal
  <2> DEFINE first  == [id |-> issued + 1, kind |-> "snapshot", cmd |-> NoCommand]
             second == [id |-> issued + 2, kind |-> "resync", cmd |-> NoCommand]
             asked == IF bridge.resync THEN <<first, second>> ELSE <<first>>
  <2>1. /\ pending' = (pending \ {r}) \cup {asked[i] : i \in DOMAIN asked} /\ uplink' = uplink \o asked
        /\ UNCHANGED <<mirror, engine, expects, loading, cached, intent>> /\ shell' = "SYNCHRONIZING"
        /\ downlink # <<>> /\ downlink' = Tail(downlink)
    BY <1>16 DEF Negotiated, TakeHello, Incoming
  <2>2. first \in Request /\ second \in Request BY <1>2 DEF Request, Kinds
  <2>3. \A i \in DOMAIN asked : asked[i].kind # "command" /\ asked[i].id > issued
    BY <1>2
  <2>4. asked \in Seq(Request)
    <3> HIDE DEF first, second
    <3> QED BY <2>2
  <2> HIDE DEF asked
  <2>5. \A s \in pending' : s \in pending \/ s.id > issued BY <2>1, <2>3
  <2>6. ASSUME NEW n \in DOMAIN uplink'
        PROVE  Covered(uplink[n])' \/ \E k \in DOMAIN uplink : uplink'[n] = uplink[k]
    <3>1. \/ n \in DOMAIN uplink /\ uplink'[n] = uplink[n]
          \/ n - Len(uplink) \in DOMAIN asked /\ uplink'[n] = asked[n - Len(uplink)]
      BY <1>2, <2>1, <2>4
    <3> QED BY <2>3, <3>1 DEF Covered
  <2> QED BY <1>6, <1>10, <2>1, <2>5, <2>6
<1>17. ASSUME NEW m \in {downlink[i] : i \in DOMAIN downlink}, NEW r \in pending,
              Incompatible(m, r) \/ Rejected(m, r)
       PROVE  Goal
  <2>1. /\ UNCHANGED <<mirror, engine, expects, uplink, link, loading, cached, intent>>
        /\ pending' = pending \ {r} /\ downlink # <<>> /\ downlink' = Tail(downlink)
        /\ \/ shell' = "INCOMPATIBLE"
           \/ UNCHANGED bridge /\ (shell' = "READY" => shell = "READY")
    BY <1>17 DEF Incompatible, Rejected, TakeRefusal, TakeRejection, Incoming, AfterFailure
  <2> QED BY <1>6, <1>10, <2>1
<1>18. ASSUME NEW m \in {downlink[i] : i \in DOMAIN downlink}, NEW r \in pending, Answered(m, r)
       PROVE  Goal
  <2>1. /\ UNCHANGED <<engine, expects, uplink, link, cached>> /\ mirror' = MirrorAfter(m)
        /\ pending' = pending \ {r} /\ downlink # <<>> /\ downlink' = Tail(downlink) /\ link = "up"
        /\ intent' = intent \/ intent' = NoIntent
        /\ \/ Changes(m) /\ BeginLoad
           \/ UNCHANGED <<shell, loading>>
    BY <1>18 DEF Answered, TakeAnswer, Incoming
  <2>2. m \in Message /\ Current(m, engine.log) /\ m.body # "events"
    BY <1>1, <1>2 DEF MessagesAreCurrent, OnlySnapshots
  <2>3. ~TakesEvents(m) /\ ~MirrorTakesEvents(m) BY <2>2 DEF TakesEvents, HasNews, MirrorTakesEvents
  <2>4. \A n \in DOMAIN downlink' : \E k \in DOMAIN downlink : downlink'[n] = downlink[k]
    BY <1>5, <2>1
  <2>5. loading' => ~cached' BY <1>1, <2>1 DEF BeginLoad, Playing, ShellTyped
  <2>6. shell' = "READY" \/ intent' # NoIntent => cached' BY <1>1, <2>1 DEF BeginLoad, Playing
  <2>7. CASE MirrorTakesSnapshot(m)
    <3>1. Fresh' BY <1>1, <2>1, <2>2, <2>7, TakenIsFresh
    <3>2. Playing' BY <2>5, <2>6, <3>1 DEF Playing
    <3>3. \A s \in pending \cup {uplink[n] : n \in DOMAIN uplink} : Covered(s)' BY <3>1 DEF Covered
    <3> QED BY <1>1, <2>1, <2>4, <3>2, <3>3, StaysInFlight
  <2>8. CASE ~MirrorTakesSnapshot(m)
    <3>1. mirror' = mirror BY <2>1, <2>3, <2>8, Taking
    <3>2. ~Changes(m) BY <2>3, <2>8 DEF Changes
    <3>3. \A s \in pending \cup {uplink[n] : n \in DOMAIN uplink} : IsBuilt(s) /\ Covered(s) => Covered(s)'
      BY <1>1, <1>3, <2>1, <3>1, Quiet
    <3>4. Fresh => Fresh' BY <2>1, <3>1 DEF Fresh, Shown
    <3>5. bridge'.ready = bridge.ready
      <4>1. BridgeAfter(m) \in Copy /\ bridge \in Copy
        BY <1>1, <2>2, TakingIsTyped DEF TypeOK, Copy
      <4>2. BridgeAfter(m).ready = bridge.ready
        <5>1. CASE TakesSnapshot(m)
          <6>1. BridgeAfter(m) = [bridge EXCEPT !.has = TRUE, !.seq = Len(m.log)] BY <5>1, Taking
          <6> QED BY <4>1, <6>1 DEF Copy
        <5>2. CASE ~TakesSnapshot(m)
          <6>1. BridgeAfter(m) \in {bridge, [bridge EXCEPT !.resync = TRUE]} BY <2>3, <5>2, Taking
          <6> QED BY <4>1, <6>1 DEF Copy
        <5> QED BY <5>1, <5>2
      <4> QED BY <1>18, <4>1, <4>2 DEF Answered, TakeAnswer, Copy
    <3>6. UNCHANGED shell BY <2>1, <3>2
    <3>7. Playing' BY <1>1, <2>1, <2>5, <2>6, <3>1, <3>4, <3>5, <3>6 DEF Playing
    <3> QED BY <1>1, <2>1, <2>4, <3>3, <3>7, StaysInFlight
  <2> QED BY <2>7, <2>8
<1>19. CASE Hear BY <1>15, <1>16, <1>17, <1>18, <1>19 DEF Hear
<1>20. CASE LoadDone \/ LoadFails
  <2>1. /\ UNCHANGED <<mirror, engine, expects, uplink, downlink, pending, link, bridge, intent>>
        /\ loading /\ ~loading' /\ (cached => cached') /\ (shell' = "READY" => cached')
    BY <1>20 DEF LoadDone, LoadFails, vars
  <2>2. intent = NoIntent BY <1>1, <2>1 DEF Playing
  <2>3. Playing' BY <2>1, <2>2 DEF Playing
  <2> QED BY <1>10, <2>1, <2>3
<1>21. ASSUME NEW r \in pending, Expired(r) PROVE Goal
  <2>1. /\ UNCHANGED <<mirror, engine, expects, uplink, downlink, link, bridge>>
        /\ UNCHANGED <<loading, cached, intent>> /\ pending' = pending \ {r}
        /\ (shell' = "READY" => shell = "READY")
    BY <1>21 DEF Expired, Expire, AfterFailure
  <2> QED BY <1>6, <1>10, <2>1
<1>22. ASSUME NEW r \in Request, r.id = issued + 1, r.kind # "command", uplink' = Append(uplink, r),
              pending' \subseteq pending \cup {r},
              UNCHANGED <<mirror, engine, expects, downlink, link, bridge, shell, loading, cached, intent>>
       PROVE  Goal
  <2>1. Playing' BY <1>6, <1>22
  <2>2. ASSUME NEW n \in DOMAIN uplink'
        PROVE  Covered(uplink[n])' \/ \E k \in DOMAIN uplink : uplink'[n] = uplink[k]
    <3>1. uplink'[n] = r \/ (n \in DOMAIN uplink /\ uplink'[n] = uplink[n]) BY <1>2, <1>22
    <3> QED BY <1>22, <3>1 DEF Covered
  <2>3. \A s \in pending' : s \in pending \/ s.id > issued BY <1>2, <1>22
  <2> QED BY <1>10, <1>22, <2>1, <2>2, <2>3
<1>23. CASE AskPreview
  <2>1. [id |-> issued + 1, kind |-> "preview", cmd |-> NoCommand] \in Request
    BY <1>2 DEF Request, Kinds
  <2> QED BY <1>22, <1>23, <2>1 DEF AskPreview, Preview, Track
<1>24. ASSUME NEW s \in pending, CancelPreview(s) PROVE Goal
  <2>1. [id |-> issued + 1, kind |-> "cancel", cmd |-> NoCommand] \in Request
    BY <1>2 DEF Request, Kinds
  <2> QED BY <1>22, <1>24, <2>1 DEF CancelPreview, Cancel
<1>25. ASSUME NEW c \in Commands, Arm(c) PROVE Goal
  <2>1. /\ UNCHANGED <<mirror, engine, uplink, downlink, pending, link, bridge, shell, loading, cached>>
        /\ intent' = c /\ expects' = [expects EXCEPT ![c] = mirror.seq] /\ shell = "READY"
    BY <1>25 DEF Arm, Build
  <2>2. expects'[intent'] = mirror'.seq /\ mirror'.seq \in Nat BY <1>2, <2>1 DEF Mirrored
  <2>3. Playing' BY <1>1, <2>1, <2>2 DEF Playing
  <2>4. \A r \in pending \cup {uplink[n] : n \in DOMAIN uplink} : IsBuilt(r) /\ Covered(r) => Covered(r)'
    BY <1>1, <1>3, <2>1, Quiet
  <2> QED BY <1>1, <2>1, <2>3, <2>4, StaysInFlight
<1>26. CASE Confirm
  <2>1. PICK r : /\ r.id = issued + 1 /\ r.cmd = intent /\ uplink' = Append(uplink, r)
                 /\ pending' = pending \cup {r}
    BY <1>26 DEF Confirm, Submit, Track
  <2>2. /\ UNCHANGED <<mirror, engine, expects, downlink, link, bridge, shell, loading, cached, intent>>
        /\ shell = "READY" /\ link = "up" /\ bridge.ready /\ intent # NoIntent
    BY <1>26 DEF Confirm, Submit, CanSubmit
  <2>3. Covered(r)
    BY <1>1, <2>1, <2>2 DEF Playing, Covered
  <2>4. Covered(r)' BY <2>2, <2>3 DEF Covered, Fresh, Shown
  <2>5. ASSUME NEW n \in DOMAIN uplink'
        PROVE  Covered(uplink[n])' \/ \E k \in DOMAIN uplink : uplink'[n] = uplink[k]
    <3>1. uplink'[n] = r \/ (n \in DOMAIN uplink /\ uplink'[n] = uplink[n]) BY <1>2, <2>1
    <3> QED BY <2>4, <3>1 DEF Covered
  <2>6. \A s \in pending' : s \in pending \/ s.id > issued BY <1>2, <2>1
  <2>7. Playing' BY <1>6, <2>2
  <2> QED BY <1>10, <2>2, <2>5, <2>6, <2>7
<1>27. CASE Disarm
  <2>1. /\ UNCHANGED <<mirror, engine, expects, uplink, downlink, pending, link, bridge, shell, loading, cached>>
        /\ intent' = NoIntent
    BY <1>27 DEF Disarm, vars
  <2>2. Playing' BY <1>1, <2>1 DEF Playing
  <2> QED BY <1>10, <2>1, <2>2
<1>28. CASE UNCHANGED allVars
  <2>1. UNCHANGED <<mirror, engine, expects, uplink, downlink, pending, link, bridge, shell, loading, cached, intent>>
    BY <1>28 DEF allVars, vars
  <2> QED BY <1>6, <1>10, <2>1
<1> HIDE DEF Goal
<1> QED BY <1>7, <1>8, <1>9, <1>11, <1>12, <1>13, <1>14, <1>19, <1>20, <1>21, <1>23, <1>24, <1>25,
           <1>26, <1>27, <1>28 DEF ClientNext

-----------------------------------------------------------------------------
(* The theorems of the client                                               *)

LEMMA ClientStarts == ClientInit => CInv /\ PInv
<1> SUFFICES ASSUME ClientInit PROVE CInv /\ PInv OBVIOUS
<1>1. Init /\ shell = "STARTUP" /\ loading = FALSE /\ cached = FALSE /\ intent = NoIntent /\ notice = "none"
  BY DEF ClientInit
<1>2. /\ uplink = <<>> /\ downlink = <<>> /\ pending = {} /\ issued = 0 /\ tracked = {} /\ link = "down"
      /\ \A c \in Commands : expects[c] = NotBuilt
  BY <1>1 DEF Init
<1>3. BInv BY <1>1, LineStarts
<1>4. Numbered /\ Sent /\ AnswersFit /\ BuiltOnSight
  BY <1>2 DEF Numbered, Sent, AnswersFit, BuiltOnSight
<1>5. ShellTyped BY <1>1 DEF ShellTyped, ShellStates
<1>6. OneIntent /\ Waiting BY <1>2 DEF OneIntent, Waiting
<1>7. PInv BY <1>1, <1>2 DEF PInv, Playing, InFlight, OnlySnapshots
<1> QED BY <1>3, <1>4, <1>5, <1>6, <1>7 DEF CInv, LInv

LEMMA ClientKeepsCInv ==
  ASSUME CInv, [ClientNext]_allVars
  PROVE  CInv' /\ mirror'.seq >= mirror.seq
<1>1. LineStep \/ UNCHANGED vars BY ClientSteps DEF CInv, ShellTyped
<1>2. LInv' /\ mirror'.seq >= mirror.seq BY <1>1, LineKeepsLInv DEF CInv
<1>3. ShellTyped' BY ShellStaysTyped DEF CInv
<1>4. OneIntent' /\ Waiting' BY StaysOneIntent DEF CInv
<1> QED BY <1>2, <1>3, <1>4 DEF CInv

(* The invariant of the whole client, for any host it may be connected to.  *)
THEOREM ClientInvariant == ClientSpec => []CInv
<1>1. ClientInit => CInv BY ClientStarts
<1>2. ASSUME CInv, [ClientNext]_allVars PROVE CInv' BY <1>2, ClientKeepsCInv
<1> QED BY <1>1, <1>2, PTL DEF ClientSpec

(* With a tactical host, what the player confirms is built on what the      *)
(* running engine has shown, or is ahead of it.                             *)
THEOREM PlayedOnWhatIsShown == Tactical /\ ClientSpec => []PInv
<1> SUFFICES ASSUME Tactical PROVE ClientSpec => []PInv OBVIOUS
<1>1. ClientInit => PInv BY ClientStarts
<1>2. ASSUME CInv, CInv', PInv, [ClientNext]_allVars PROVE PInv' BY <1>2, StaysPlayed
<1> QED BY <1>1, <1>2, ClientInvariant, PTL DEF ClientSpec

(* In the client too, the mirror shows the running engine's past, and the   *)
(* bridge is not ahead of it.                                               *)
COROLLARY ClientShowsThePast == ClientSpec => [](MirrorIsGenuine /\ MirrorKeepsUp)
<1>1. CInv => BInv BY DEF CInv, LInv
<1> QED BY <1>1, ClientInvariant, CopiesAreGenuine, PTL

(* The shell and the controller hold what their declarations say, and so    *)
(* does everything the line and the host hold.                              *)
THEOREM ClientIsTyped == ClientSpec => []ClientTypeOK
<1>1. CInv => ClientTypeOK BY DEF CInv, LInv, BInv, ShellTyped, ClientTypeOK
<1> QED BY <1>1, ClientInvariant, PTL

(* The command on its way is the armed one, and there is only one, through  *)
(* every order of confirms, cancels, losses, restarts and late answers.     *)
THEOREM OneConfirm == ClientSpec => []OneConfirmAtATime
<1>1. CInv => OneConfirmAtATime BY DEF CInv, OneIntent, Awaited, OneConfirmAtATime
<1> QED BY <1>1, ClientInvariant, PTL

(* However often a command is sent again, the engine's log holds it once:   *)
(* a command expects one sequence, and the log holds it at that place.      *)
LEMMA LogHoldsItOnce == BInv => AppliedAtMostOnce
<1> SUFFICES ASSUME BInv, NEW i \in DOMAIN engine.log, NEW j \in DOMAIN engine.log,
                    engine.log[i].cmd = engine.log[j].cmd, engine.log[i].cmd # Foreign
             PROVE  i = j
  BY DEF AppliedAtMostOnce
<1>1. engine.log \in Seq(Entry) BY DEF BInv, TypeOK
<1>2. expects[engine.log[i].cmd] = i - 1 /\ expects[engine.log[i].cmd] = j - 1
  BY DEF BInv, LogIsOwn
<1> QED BY <1>1, <1>2

(* A command sent again while an earlier copy may still be on its way is    *)
(* applied at most once: with any host under the bridge, and in the client. *)
THEOREM CommandsApplyOnce == (Spec => []AppliedAtMostOnce) /\ (ClientSpec => []AppliedAtMostOnce)
<1>1. CInv => BInv BY DEF CInv, LInv
<1>2. Spec => []AppliedAtMostOnce BY BridgeInvariant, LogHoldsItOnce, PTL
<1>3. ClientSpec => []AppliedAtMostOnce BY <1>1, ClientInvariant, LogHoldsItOnce, PTL
<1> QED BY <1>2, <1>3

(* The sequence a scene sees never goes back.                               *)
THEOREM ShownGoesForward == (Spec => ShownNeverRegresses) /\ (ClientSpec => ShownNeverRegresses)
<1>1. ASSUME BInv, [Next]_vars PROVE [mirror'.seq >= mirror.seq]_vars
  BY <1>1, BridgeSteps, LineKeepsBInv
<1>2. ASSUME CInv, [ClientNext]_allVars PROVE [mirror'.seq >= mirror.seq]_vars
  BY <1>2, ClientKeepsCInv
<1>3. Spec => ShownNeverRegresses BY <1>1, BridgeInvariant, PTL DEF Spec, ShownNeverRegresses
<1>4. ClientSpec => ShownNeverRegresses
  BY <1>2, ClientInvariant, PTL DEF ClientSpec, ShownNeverRegresses
<1> QED BY <1>3, <1>4

(* The answer that accepts a command is taken by the mirror, or the mirror  *)
(* is ahead of it, and then all it shows is from the running engine.        *)
LEMMA AnsweredIsShown ==
  ASSUME Tactical, CInv, PInv, NEW m \in {downlink[i] : i \in DOMAIN downlink},
         NEW r \in pending, Answered(m, r), r.kind = "command"
  PROVE  \E i \in DOMAIN Shown' : Shown'[i].cmd = r.cmd
<1> USE DEF hostVars, CInv, LInv, BInv, PInv
<1>1. /\ m.to = r.id /\ m.body # "rejected" /\ UNCHANGED engine /\ mirror' = MirrorAfter(m)
  BY DEF Answered, TakeAnswer
<1>2. PICK n \in DOMAIN downlink : m = downlink[n] OBVIOUS
<1>3. Fits(downlink[n], r) /\ Current(m, engine.log) BY <1>2 DEF AnswersFit, MessagesAreCurrent
<1> DEFINE p == expects[r.cmd] + 1
<1>4. /\ p \in DOMAIN engine.log /\ engine.log[p].cmd = r.cmd
      /\ m.body = "snapshot" /\ Len(m.log) = p
  BY <1>1, <1>2, <1>3 DEF Fits
<1>5. /\ downlink \in Seq(Message) /\ engine.log \in Seq(Entry) /\ r \in Request
      /\ mirror \in Mirrored /\ bridge \in Copy /\ expects \in [Commands -> Nat \cup {NotBuilt}]
  BY DEF TypeOK, Message, Mirrored, Copy
<1>6. m \in Message /\ r.cmd \in Commands /\ expects[r.cmd] # NotBuilt
  BY <1>2, <1>5, RequestFields DEF Sent, IsBuilt
<1>7. m.log \in Seq(Entry) /\ p \in Nat /\ p >= 1
  BY <1>4, <1>5, <1>6 DEF Message
<1>8. CASE MirrorTakesSnapshot(m)
  <2>1. Shown' = m.log BY <1>1, <1>3, <1>6, <1>8, TakenIsFresh
  <2>2. p \in DOMAIN m.log BY <1>4, <1>7
  <2>3. m.log[p] = engine.log[p] BY <1>3, <1>4, <2>2 DEF Current
  <2> QED BY <1>4, <2>1, <2>2, <2>3
<1>9. CASE ~MirrorTakesSnapshot(m)
  <2>1. ~TakesEvents(m) /\ ~MirrorTakesEvents(m) BY <1>4 DEF TakesEvents, HasNews, MirrorTakesEvents
  <2>2. mirror' = mirror BY <1>1, <1>9, <2>1, Taking
  <2>3. mirror.has BY <1>6 DEF BuiltOnSight
  <2>4. mirror.seq \in Nat /\ bridge.seq \in Nat BY <1>5 DEF Mirrored, Copy
  <2>5. p < mirror.seq
    <3>1. CASE TakesSnapshot(m) BY <1>4, <1>7, <1>9, <2>4, <3>1 DEF MirrorTakesSnapshot
    <3>2. CASE ~TakesSnapshot(m)
      <4>1. bridge.has /\ p < bridge.seq BY <1>4, <1>7, <2>4, <3>2 DEF TakesSnapshot
      <4>2. bridge.seq <= mirror.seq BY <2>3, <4>1 DEF MirrorKeepsUp
      <4> QED BY <1>7, <2>4, <4>1, <4>2
    <3> QED BY <3>1, <3>2
  <2>6. Covered(r) BY <1>1, <1>2 DEF InFlight
  <2>7. Fresh BY <1>5, <1>6, <2>4, <2>5, <2>6 DEF Covered
  <2>8. Shown \in Seq(Entry) /\ Len(Shown) = mirror.seq
    BY <1>5 DEF Shown, Mirrored, Genuine
  <2>9. p \in DOMAIN Shown BY <1>7, <2>4, <2>5, <2>8
  <2>10. Shown[p] = engine.log[p] BY <2>7, <2>9 DEF Fresh, Genuine
  <2>11. Shown' = Shown BY <2>2 DEF Shown
  <2> QED BY <1>4, <2>9, <2>10, <2>11
<1> QED BY <1>8, <1>9

(* No step but the answer that accepts it adds to the accepted commands.    *)
LEMMA OnlyAnswersAcknowledge ==
  ASSUME ShellTyped, [ClientNext]_allVars
  PROVE  \/ acked' = acked
         \/ \E m \in {downlink[i] : i \in DOMAIN downlink} : \E r \in pending :
              Answered(m, r) /\ r.kind = "command" /\ acked' = acked \cup {r.cmd}
<1> USE DEF hostVars, wireVars, bridgeVars, clientVars
<1>1. CASE Start \/ LinkOpens \/ LinkFails \/ LinkLost \/ EngineRestarts
  BY <1>1 DEF Start, LinkOpens, LinkFails, LinkLost, EngineRestarts,
              Open, Connected, ConnectFails, Drop, Restart
<1>2. CASE HostServes \/ OthersAct \/ LoadDone \/ LoadFails \/ Shutdown
  BY <1>2 DEF HostServes, OthersAct, LoadDone, LoadFails, Shutdown, Serve, ServeOrphan, ForeignCommand, vars
<1>3. CASE Hear
  <2>1. ASSUME NEW m \in {downlink[i] : i \in DOMAIN downlink}, Stale(m) PROVE acked' = acked
    BY <2>1 DEF Stale, IgnoreStale
  <2>2. ASSUME NEW m \in {downlink[i] : i \in DOMAIN downlink}, NEW r \in pending,
               Negotiated(m, r) \/ Incompatible(m, r) \/ Rejected(m, r)
        PROVE  acked' = acked
    BY <2>2 DEF Negotiated, Incompatible, Rejected, TakeHello, TakeRefusal, TakeRejection
  <2>3. ASSUME NEW m \in {downlink[i] : i \in DOMAIN downlink}, NEW r \in pending, Answered(m, r)
        PROVE  acked' = acked \/ (r.kind = "command" /\ acked' = acked \cup {r.cmd})
    BY <2>3 DEF Answered, TakeAnswer
  <2> QED BY <1>3, <2>1, <2>2, <2>3 DEF Hear
<1>4. CASE \E r \in pending : Expired(r) \/ CancelPreview(r)
  BY <1>4 DEF Expired, CancelPreview, Expire, Cancel
<1>5. CASE (\E c \in Commands : Arm(c)) \/ Confirm \/ Disarm \/ AskPreview
  BY <1>5 DEF Arm, Confirm, Disarm, AskPreview, Build, Submit, Preview, vars
<1>6. CASE UNCHANGED allVars BY <1>6 DEF allVars, vars
<1> QED BY <1>1, <1>2, <1>3, <1>4, <1>5, <1>6 DEF ClientNext

(* With a tactical host, whatever is reported accepted is on show when it   *)
(* is reported: the scenes re-read the mirror at that moment.               *)
THEOREM AcceptedCommandsAreShown == Tactical /\ ClientSpec => AcceptedIsShown
<1> SUFFICES ASSUME Tactical PROVE ClientSpec => AcceptedIsShown OBVIOUS
<1>1. ASSUME CInv, PInv, [ClientNext]_allVars
      PROVE  [\A c \in acked' \ acked : \E i \in DOMAIN Shown' : Shown'[i].cmd = c]_vars
  <2>1. CASE acked' = acked BY <2>1
  <2>2. CASE acked' # acked
    <3>1. PICK m \in {downlink[i] : i \in DOMAIN downlink}, r \in pending :
            Answered(m, r) /\ r.kind = "command" /\ acked' = acked \cup {r.cmd}
      BY <1>1, <2>2, OnlyAnswersAcknowledge DEF CInv
    <3>2. \E i \in DOMAIN Shown' : Shown'[i].cmd = r.cmd BY <1>1, <3>1, AnsweredIsShown
    <3>3. \A c \in acked' \ acked : c = r.cmd BY <3>1
    <3> QED BY <3>2, <3>3
  <2> QED BY <2>1, <2>2
<1> QED BY <1>1, ClientInvariant, PlayedOnWhatIsShown, PTL DEF ClientSpec, AcceptedIsShown
=============================================================================
