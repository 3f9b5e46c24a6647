------------------------- MODULE PaddedSessionTicks -------------------------
(* The invariant of a session is kept by its tasks, its events and its      *)
(* clock.                                                                   *)
EXTENDS PaddedSessionFacts

(* The events and the tasks of a stream.                                    *)

\* A step that touches what stream i has written at s, or its tasks there.
LEMMA LocalInv ==
    ASSUME TypeOK, TypeOK', SessionInv, NEW s \in Side, NEW i \in Ids, i \in live[s],
           UNCHANGED <<live, closed, connecting, lastId, controls, link>>,
           \A q \in Side, j \in Ids : q # s \/ j # i =>
               stream'[q][j] = stream[q][j] /\ worker'[q][j] = worker[q][j],
           SameOutput(s, i), SameInput(s, i), SameReady(s, i),
           writtenBy(s, i) <= writtenBy(s, i)',
           Credit(Peer(s), i)' /\ Backlog(s, i)',
           \A d \in OnWay(Peer(s)) : d.id = i => Spared(Peer(s), d)
    PROVE  SessionInv'
<1>1. \A q \in Side, j \in Ids : q # s \/ j # i => SameStream(q, j) /\ SameWorker(q, j)
  BY StreamKept, WorkerKept
<1>2. /\ \A q \in Side : OrderInv(q)'
      /\ \A q \in Side : \A d \in OnWay(q)' : d \in OnWay(q)
  BY SameQueue, Zenon DEF SessionInv
<1>3. IdInv' /\ \A q \in Side : Known(q) \subseteq Known(q)'
  <2>1. IdInv
    BY Zenon DEF SessionInv
  <2>2. \A j \in Ids : ready("client", j)' => ready("client", j)
    BY <1>1, Zenon DEF SameStream, SameReady, Side
  <2> QED BY <2>1, <2>2, LiveStep, Zenon
<1>4. ASSUME NEW q \in Side, NEW d \in OnWay(q)', d.id = i
      PROVE  Spared(q, d)
  <2>1. d \in OnWay(q)
    BY <1>2, Zenon
  <2>2. CellInv(q, d) /\ d \in Cell
    BY <2>1, WayType, Zenon DEF SessionInv, CellsInv
  <2>3. CASE q = Peer(s)
    BY <1>4, <2>1, <2>3, Zenon
  <2>4. CASE q = s
    <3>1. SameAcks(Peer(s), i)
      BY <1>1, Sides, Zenon DEF SameStream
    <3>2. /\ SameReady(s, d.id) /\ SameInput(s, d.id)
          /\ ackedTo(s, d.id)' = ackedTo(s, d.id) /\ SameAcks(Peer(s), d.id)
      BY <1>4, <3>1, Zenon DEF SameOutput
    <3> QED BY <2>2, <2>4, <3>2, SparedKept, Zenon
  <2> QED BY <2>3, <2>4, Sides, Zenon
<1>5. sentBy(s, i) <= sentBy(s, i)' /\ (sentEnd(s, i) => sentEnd(s, i)')
  <2>1. sentBy(s, i) \in Nat
    BY CountTypes, Zenon
  <2> QED BY <2>1 DEF SameOutput
<1>6. Credit(s, i)'
  BY <1>1, OtherStreams, Zenon
<1> QED BY <1>1, <1>2, <1>3, <1>4, <1>5, <1>6, OneStream, Zenon

\* An opener that gives up keeps the invariant.
LEMMA GiveUpInv ==
    ASSUME TypeOK, TypeOK', SessionInv, NEW i \in Ids, GiveUp(i)
    PROVE  SessionInv'
<1>1. "client" \in Side /\ Peer("client") \in Side
  BY Sides, Zenon DEF Side
<1>2. /\ i \in live["client"] /\ worker' = worker
      /\ UNCHANGED <<live, closed, connecting, lastId, controls, link>>
  BY Zenon DEF GiveUp
<1>3. OnlyStream("client", i, WithReply(stream["client"][i]))
  BY GiveUpEffect, Zenon DEF WithReply
<1>4. /\ SameOutput("client", i) /\ SameInput("client", i) /\ SameAcks("client", i)
      /\ SameReady("client", i)
      /\ \A q \in Side, j \in Ids : q # "client" \/ j # i => SameStream(q, j)
  BY <1>1, <1>3, ReplyStep, Zenon
<1>5. \A q \in Side, j \in Ids : q # "client" \/ j # i =>
          stream'[q][j] = stream[q][j] /\ worker'[q][j] = worker[q][j]
  BY <1>2, <1>3, Zenon DEF OnlyStream
<1>6. \A q \in Side, j \in Ids : SameWorker(q, j)
  BY <1>2, WorkerKept, Zenon
<1>7. /\ Credit(Peer("client"), i)' /\ Backlog("client", i)'
      /\ \A d \in OnWay(Peer("client")) : Spared(Peer("client"), d)
  BY <1>1, <1>4, <1>6, OtherStreams, Zenon
<1>8. writtenBy("client", i) <= writtenBy("client", i)'
  <2>1. writtenBy("client", i) \in Nat
    BY <1>1, CountTypes, Zenon
  <2> QED BY <1>4, <2>1 DEF SameAcks
<1> QED BY <1>1, <1>2, <1>4, <1>5, <1>7, <1>8, LocalInv, Zenon

\* What the writer task reports as written was received.
LEMMA ReportedReceived ==
    ASSUME TypeOK, SessionInv, NEW s \in Side, NEW i \in Ids, WrittenEvent(s, i)
    PROVE  writtenBy(s, i) + 1 <= gotBy(s, i) /\ writtenBy(s, i) + 1 <= receivedBy(s, i)
<1>1. writtenBy(s, i) \in Nat /\ gotBy(s, i) \in Nat /\ receivedBy(s, i) \in Nat
  BY CountTypes, Zenon
<1>2. writtenBy(s, i) + 1 <= gotBy(s, i)
  BY Zenon DEF WrittenEvent, writtenBy, gotBy
<1>3. gotBy(s, i) <= receivedBy(s, i)
  BY Zenon DEF SessionInv, Backlog
<1> QED BY <1>1, <1>2, <1>3

\* A Written event keeps the invariant (session.rs 486-490).
LEMMA WrittenInv ==
    ASSUME TypeOK, TypeOK', SessionInv, NEW s \in Side, NEW i \in Ids, WrittenEvent(s, i)
    PROVE  SessionInv'
<1> DEFINE p == Peer(s)
           n == writtenBy(s, i) + 1
<1>1. /\ i \in live[s] /\ worker' = worker
      /\ UNCHANGED <<live, closed, connecting, lastId, controls, link>>
  BY Zenon DEF WrittenEvent
<1>2. /\ writtenBy(s, i) \in Nat /\ gotBy(s, i) \in Nat /\ receivedBy(s, i) \in Nat
      /\ queueOf(s, i) \in Seq(Nat)
  BY CountTypes, Zenon
<1>3. n <= gotBy(s, i) /\ n <= receivedBy(s, i)
  BY ReportedReceived, Zenon
<1>4. PICK m \in Nat : m = n
  BY <1>2
<1>5. OnlyStream(s, i, WithWritten(stream[s][i], m))
  <2>1. stream[s][i].written + 1 <= stream[s][i].received
    BY <1>3, Zenon DEF writtenBy, receivedBy
  <2>2. m = stream[s][i].written + 1
    BY <1>4, Zenon DEF writtenBy
  <2> QED BY <2>1, <2>2, WrittenEffect, Zenon DEF WithWritten
<1> HIDE DEF p, n
<1>6. p \in Side /\ Peer(p) = s /\ p # s
  BY Sides, Zenon DEF p
<1>7. /\ SameOutput(s, i) /\ SameInput(s, i) /\ writtenBy(s, i)' = m /\ pendingAck(s, i)' = m
      /\ SameReady(s, i)
      /\ \A q \in Side, j \in Ids : q # s \/ j # i => SameStream(q, j)
  BY <1>5, WrittenStep, Zenon
<1>8. \A q \in Side, j \in Ids : q # s \/ j # i =>
          stream'[q][j] = stream[q][j] /\ worker'[q][j] = worker[q][j]
  BY <1>1, <1>5, Zenon DEF OnlyStream
<1>9. \A q \in Side, j \in Ids : SameWorker(q, j)
  BY <1>1, WorkerKept, Zenon
<1>10. writtenBy(s, i) < m /\ m <= gotBy(s, i) /\ m <= receivedBy(s, i)
  BY <1>2, <1>3, <1>4 DEF n
<1>11. Credit(p, i)'
  <2>1. Credit(p, i) /\ SameOutput(p, i)
    BY <1>6, <1>7, Zenon DEF SessionInv, SameStream
  <2>2. ackedTo(p, i) \in Nat
    BY <1>6, CountTypes, Zenon
  <2> QED BY <1>2, <1>6, <1>7, <1>10, <2>1, <2>2, SMTT(20) DEF Credit, SameOutput, SameInput
<1>12. Backlog(s, i)'
  <2>1. Backlog(s, i) /\ SameWorker(s, i)
    BY <1>9, Zenon DEF SessionInv
  <2> QED BY <1>7, <1>10, <2>1, Zenon DEF Backlog, SameWorker, SameInput
<1>13. ASSUME NEW d \in OnWay(p), d.id = i PROVE Spared(p, d)
  <2>1. CellInv(p, d) /\ d \in Cell
    BY <1>6, WayType, Zenon DEF SessionInv, CellsInv
  <2>2. d.n \in Nat
    BY <2>1, Zenon DEF Cell
  <2>3. SameStream(p, i)
    BY <1>6, <1>7, Zenon
  <2>4. d.cmd = "DataAck" => ackedTo(p, i) < d.n /\ d.n <= writtenBy(s, i)
    BY <1>6, <1>13, <2>1, Zenon DEF CellInv
  <2>5. d.cmd = "DataAck" => ackedTo(p, i)' < d.n /\ d.n < writtenBy(s, i)'
    BY <1>2, <1>7, <1>10, <2>2, <2>3, <2>4, SMTT(20) DEF SameStream, SameOutput
  <2> QED BY <1>6, <1>13, <2>1, <2>3, <2>5, Zenon DEF Spared, CellInv, SameStream, SameInput, SameReady
<1>14. writtenBy(s, i) <= writtenBy(s, i)'
  BY <1>2, <1>7, <1>10
<1> QED BY <1>1, <1>7, <1>8, <1>11, <1>12, <1>13, <1>14, LocalInv, Zenon DEF p

\* A step of a task that keeps the backlog of its stream keeps the invariant.
LEMMA WorkerInv ==
    ASSUME TypeOK, TypeOK', SessionInv, NEW s \in Side, NEW i \in Ids, i \in live[s],
           taskUnchanged,
           \A q \in Side, j \in Ids : q # s \/ j # i => worker'[q][j] = worker[q][j],
           Backlog(s, i)'
    PROVE  SessionInv'
<1>1. /\ UNCHANGED <<live, closed, connecting, lastId, controls, link>> /\ stream' = stream
  BY Zenon DEF taskUnchanged
<1>2. \A q \in Side, j \in Ids : SameStream(q, j)
  BY <1>1, StreamKept, Zenon
<1>3. \A q \in Side, j \in Ids : q # s \/ j # i => SameStream(q, j) /\ SameWorker(q, j)
  BY <1>2, WorkerKept, Zenon
<1>4. SameOutput(s, i) /\ SameInput(s, i) /\ SameAcks(s, i) /\ SameReady(s, i)
  BY <1>2, Zenon DEF SameStream
<1>5. /\ Credit(Peer(s), i)' /\ \A d \in OnWay(Peer(s)) : Spared(Peer(s), d)
  BY <1>3, <1>4, OtherStreams, Zenon
<1>6. writtenBy(s, i) <= writtenBy(s, i)'
  <2>1. writtenBy(s, i) \in Nat
    BY CountTypes, Zenon
  <2> QED BY <1>4, <2>1 DEF SameAcks
<1>7. \A q \in Side, j \in Ids : q # s \/ j # i =>
          stream'[q][j] = stream[q][j] /\ worker'[q][j] = worker[q][j]
  BY <1>1, Zenon
<1> QED BY <1>1, <1>4, <1>5, <1>6, <1>7, LocalInv, Zenon

\* Reading leaves the writer task alone.
LEMMA ReadInv ==
    ASSUME TypeOK, TypeOK', SessionInv, NEW s \in Side, NEW i \in Ids,
           Read(s, i) \/ \E how \in {"eof", "failed"} : ReadStops(s, i, how)
    PROVE  SessionInv'
<1>1. i \in live[s] /\ taskUnchanged /\ stream' = stream
  BY Zenon DEF Read, ReadStops, StreamTask, taskUnchanged
<1>2. SameWorker(s, i) /\ \A q \in Side, j \in Ids : q # s \/ j # i => worker'[q][j] = worker[q][j]
  <2>1. CASE Read(s, i)
    <3>1. worker[s][i].produced + 1 \in Nat
      BY RecordTypes
    <3>2. OnlyWorker(s, i, WithProduced(worker[s][i], worker[s][i].produced + 1))
      BY <2>1, TaskEffect, Zenon DEF WithProduced
    <3>3. SameWorker(s, i)
      BY <3>1, <3>2, ProducedStep, Zenon
    <3> QED BY <3>2, <3>3, Zenon DEF OnlyWorker
  <2>2. ASSUME NEW how \in {"eof", "failed"}, ReadStops(s, i, how)
        PROVE  SameWorker(s, i) /\ \A q \in Side, j \in Ids : q # s \/ j # i => worker'[q][j] = worker[q][j]
    <3>1. OnlyWorker(s, i, WithReader(worker[s][i], how))
      BY <2>2, TaskEffect, Zenon DEF WithReader
    <3>2. SameWorker(s, i)
      BY <3>1, ReaderStep, Zenon
    <3> QED BY <3>1, <3>2, Zenon DEF OnlyWorker
  <2> QED BY <2>1, <2>2, Zenon
<1>3. Backlog(s, i)'
  <2>1. Backlog(s, i)
    BY Zenon DEF SessionInv
  <2>2. SameStream(s, i)
    BY <1>1, StreamKept, Zenon
  <2> QED BY <1>2, <2>1, <2>2, BacklogKept, Zenon DEF SameStream
<1> QED BY <1>1, <1>2, <1>3, WorkerInv, Zenon

\* A task that has stopped writing leaves nothing to account for.
LEMMA StoppedInv ==
    ASSUME TypeOK, TypeOK', SessionInv, NEW s \in Side, NEW i \in Ids, i \in live[s],
           taskUnchanged,
           \A q \in Side, j \in Ids : q # s \/ j # i => worker'[q][j] = worker[q][j],
           gotBy(s, i)' = gotBy(s, i), ~writing(s, i)'
    PROVE  SessionInv'
<1>1. SameStream(s, i)
  BY StreamKept, Zenon DEF taskUnchanged
<1>2. Backlog(s, i)
  BY Zenon DEF SessionInv
<1>3. Backlog(s, i)'
  BY <1>1, <1>2, Zenon DEF Backlog, SameStream, SameInput, SameAcks
<1> QED BY <1>3, WorkerInv, Zenon

\* Taking a piece off the writer's queue leaves the end of the stream, if it
\* is there, behind all the rest.
LEMMA TakePiece ==
    ASSUME NEW q \in Seq(Nat), q # <<>>, NEW ended \in BOOLEAN, EndBehindAll(q, ended)
    PROVE  /\ Len(Tail(q)) = Len(q) - 1 /\ Len(q) \in Nat \ {0}
           /\ EndBehindAll(Tail(q), ended)
           /\ Head(q) # 0 => (ended => Len(q) > 1)
BY DEF EndBehindAll

\* Writing a piece, shutting down and failing to write keep the invariant
\* (session.rs 206-231).
LEMMA WriteInv ==
    ASSUME TypeOK, TypeOK', SessionInv, NEW s \in Side, NEW i \in Ids,
           Write(s, i) \/ WriteFails(s, i)
    PROVE  SessionInv'
<1>1. i \in live[s] /\ taskUnchanged
  BY Zenon DEF Write, WriteFails, StreamTask
<1>2. worker[s][i].incoming # <<>> /\ worker[s][i].writer = "writing"
  BY Zenon DEF Write, WriteFails
<1>3. worker[s][i].incoming \in Seq(Nat) /\ worker[s][i].got \in Seq(Nat)
  BY RecordTypes, Zenon
<1>4. CASE WriteFails(s, i)
  <2>1. <<>> \in Seq(Nat)
    OBVIOUS
  <2>2. OnlyWorker(s, i, WithFailed(worker[s][i], <<>>))
    BY <1>4, TaskEffect, Zenon DEF WithFailed
  <2>3. gotBy(s, i)' = gotBy(s, i) /\ ~writing(s, i)'
    BY <2>1, <2>2, FailedStep, Zenon
  <2>4. \A q \in Side, j \in Ids : q # s \/ j # i => worker'[q][j] = worker[q][j]
    BY <2>2, Zenon DEF OnlyWorker
  <2> QED BY <1>1, <2>3, <2>4, StoppedInv, Zenon
<1>5. CASE Write(s, i) /\ Head(worker[s][i].incoming) = 0
  <2>1. Tail(worker[s][i].incoming) \in Seq(Nat)
    BY <1>2, <1>3
  <2>2. OnlyWorker(s, i, WithShut(worker[s][i], Tail(worker[s][i].incoming)))
    BY <1>5, TaskEffect, Zenon DEF WithShut
  <2>3. gotBy(s, i)' = gotBy(s, i) /\ ~writing(s, i)'
    BY <2>1, <2>2, ShutStep, Zenon
  <2>4. \A q \in Side, j \in Ids : q # s \/ j # i => worker'[q][j] = worker[q][j]
    BY <2>2, Zenon DEF OnlyWorker
  <2> QED BY <1>1, <2>3, <2>4, StoppedInv, Zenon
<1>6. CASE Write(s, i) /\ Head(worker[s][i].incoming) # 0
  <2>1. PICK x, g : x = Tail(worker[s][i].incoming)
                    /\ g = Append(worker[s][i].got, Head(worker[s][i].incoming))
    BY Zenon
  <2>2. x \in Seq(Nat) /\ g \in Seq(Nat) /\ Len(g) = Len(worker[s][i].got) + 1
    BY <1>2, <1>3, <2>1
  <2>3. OnlyWorker(s, i, WithGot(worker[s][i], x, g))
    BY <1>6, <2>1, TaskEffect, Zenon DEF WithGot
  <2>4. queueOf(s, i)' = x /\ gotBy(s, i)' = Len(g) /\ writing(s, i)' = writing(s, i)
    BY <2>2, <2>3, GotStep, SMTT(20)
  <2>5. \A q \in Side, j \in Ids : q # s \/ j # i => worker'[q][j] = worker[q][j]
    BY <2>3, Zenon DEF OnlyWorker
  <2>6. /\ writtenBy(s, i) \in Nat /\ gotBy(s, i) \in Nat /\ receivedBy(s, i) \in Nat
        /\ receivedEnd(s, i) \in BOOLEAN /\ queueOf(s, i) \in Seq(Nat)
    BY CountTypes, Zenon
  <2>7. SameStream(s, i)
    BY <1>1, StreamKept, Zenon DEF taskUnchanged
  <2>8. Backlog(s, i) /\ writing(s, i)
    BY <1>2, Zenon DEF SessionInv, writing
  <2>9. /\ x = Tail(queueOf(s, i)) /\ queueOf(s, i) # <<>> /\ Head(queueOf(s, i)) # 0
        /\ Len(g) = gotBy(s, i) + 1
    BY <1>2, <1>6, <2>1, <2>2, Zenon DEF queueOf, gotBy
  <2>10. /\ gotBy(s, i) + Len(queueOf(s, i)) =
                receivedBy(s, i) + (IF receivedEnd(s, i) THEN 1 ELSE 0)
         /\ EndBehindAll(queueOf(s, i), receivedEnd(s, i))
    BY <2>8, Zenon DEF Backlog
  <2>11. /\ Len(x) = Len(queueOf(s, i)) - 1 /\ Len(queueOf(s, i)) \in Nat \ {0}
         /\ EndBehindAll(x, receivedEnd(s, i))
         /\ (receivedEnd(s, i) => Len(queueOf(s, i)) > 1)
    BY <2>6, <2>9, <2>10, TakePiece, Zenon
  <2>12. EndBehindAll(queueOf(s, i)', receivedEnd(s, i)')
    BY <2>4, <2>7, <2>11, Zenon DEF SameStream, SameInput
  <2>13. Len(queueOf(s, i)') = Len(queueOf(s, i)) - 1
    BY <2>4, <2>11, Zenon
  <2>14. /\ writtenBy(s, i) <= Len(g) /\ Len(g) <= receivedBy(s, i)
         /\ Len(g) + (Len(queueOf(s, i)) - 1) =
                receivedBy(s, i) + (IF receivedEnd(s, i) THEN 1 ELSE 0)
    <3>1. writtenBy(s, i) <= gotBy(s, i)
      BY <2>8, Zenon DEF Backlog
    <3>2. Len(queueOf(s, i)) \in Nat \ {0} /\ (receivedEnd(s, i) => Len(queueOf(s, i)) > 1)
      BY <2>11, Zenon
    <3>3. gotBy(s, i) + Len(queueOf(s, i)) =
              receivedBy(s, i) + (IF receivedEnd(s, i) THEN 1 ELSE 0)
      BY <2>10, Zenon
    <3>4. Len(g) = gotBy(s, i) + 1
      BY <2>9, Zenon
    <3>5. CASE receivedEnd(s, i)
      BY <2>6, <3>1, <3>2, <3>3, <3>4, <3>5, SMTT(20)
    <3>6. CASE ~receivedEnd(s, i)
      BY <2>6, <3>1, <3>2, <3>3, <3>4, <3>6, SMTT(20)
    <3> QED BY <3>5, <3>6, Zenon
  <2>15. /\ receivedBy(s, i)' = receivedBy(s, i) /\ receivedEnd(s, i)' = receivedEnd(s, i)
         /\ writtenBy(s, i)' = writtenBy(s, i)
    BY <2>7, Zenon DEF SameStream, SameInput, SameAcks
  <2>16. Backlog(s, i)'
    BY <2>4, <2>12, <2>13, <2>14, <2>15, Zenon DEF Backlog
  <2> QED BY <1>1, <2>5, <2>16, WorkerInv, Zenon
<1> QED BY <1>4, <1>5, <1>6, Zenon

-----------------------------------------------------------------------------
(* The clock ticks.                                                         *)

\* A control queue x is q and then cells that ask nothing of their receiver.
Extends(x, q) ==
    \E r \in Seq(Cell) : x = q \o r /\ \A c \in Queued(r) : Neutral(c)

\* After its write a tick moves streams from live to closed, and its resets
\* ask nothing of their receiver.
LEMMA AfterWriteEffect ==
    ASSUME TypeOK, IdInv, NEW s \in Side, NEW st \in [Ids -> Stream], NEW queue \in Seq(Cell),
           AfterWrite(s, st, queue)
    PROVE  /\ \A p \in Side : Known(p)' = Known(p) /\ live'[p] \cap closed'[p] = {}
           /\ UNCHANGED <<worker, connecting, lastId>>
           /\ stream'[s] = st /\ \A p \in Side : p # s => stream'[p] = stream[p]
           /\ \A p \in Side : p # s => controls'[p] = controls[p]
           /\ Extends(controls'[s], queue)
<1> DEFINE retired == {i \in live[s] : Retired(st[i])}
           cancelled == {i \in live[s] \ retired : st[i].reply = "dropped"}
<1>1. /\ live' = [live EXCEPT ![s] = @ \ (retired \cup cancelled)]
      /\ closed' = [closed EXCEPT ![s] = @ \cup retired \cup cancelled]
      /\ stream' = [stream EXCEPT ![s] = st]
      /\ UNCHANGED <<worker, connecting, lastId>>
  BY Zenon DEF AfterWrite
<1>2. PICK order \in Ascending(cancelled) :
          controls' = [controls EXCEPT ![s] =
              queue \o [k \in DOMAIN order |-> Control("SessionReset", order[k])]]
  BY Zenon DEF AfterWrite
<1>3. cancelled \subseteq live[s] /\ retired \subseteq live[s] /\ live[s] \subseteq Ids
  BY Zenon DEF TypeOK
<1> HIDE DEF retired, cancelled
<1>4. \A p \in Side : Known(p)' = Known(p) /\ live'[p] \cap closed'[p] = {}
  <2>1. live'[s] = live[s] \ (retired \cup cancelled) /\ closed'[s] = closed[s] \cup retired \cup cancelled
    BY <1>1, Zenon DEF TypeOK
  <2>2. live[s] \cap closed[s] = {}
    BY Zenon DEF IdInv
  <2>3. Known(s)' = Known(s) /\ live'[s] \cap closed'[s] = {}
    BY <1>3, <2>1, <2>2, Zenon DEF Known
  <2>4. ASSUME NEW p \in Side, p # s PROVE Known(p)' = Known(p) /\ live'[p] \cap closed'[p] = {}
    BY <1>1, <2>4, Zenon DEF Known, IdInv, TypeOK
  <2> QED BY <2>3, <2>4, Zenon
<1>5. /\ stream'[s] = st /\ \A p \in Side : p # s => stream'[p] = stream[p]
      /\ \A p \in Side : p # s => controls'[p] = controls[p]
  BY <1>1, <1>2, Zenon DEF TypeOK
<1>6. Extends(controls'[s], queue)
  <2>1. PICK n \in Nat : DOMAIN order = 1..n /\ \A k \in 1..n : order[k] \in cancelled
    BY <1>2, AscendingType, Zenon
  <2>2. PICK r : r = [k \in 1..n |-> Control("SessionReset", order[k])]
    BY Zenon
  <2>3. \A k \in 1..n : r[k] \in Cell /\ Neutral(r[k])
    BY <1>3, <2>1, <2>2, ResetCell, Zenon
  <2>4. r \in Seq(Cell) /\ Len(r) = n
    BY <2>2, <2>3
  <2>5. \A c \in Queued(r) : Neutral(c)
    BY <2>3, <2>4, Zenon DEF Queued
  <2>6. controls'[s] = queue \o r
    BY <1>2, <2>1, <2>2, Zenon DEF TypeOK
  <2> QED BY <2>4, <2>5, <2>6, Zenon DEF Extends
<1> QED BY <1>1, <1>4, <1>5, <1>6, Zenon

\* A tick that sends from its queue and then adds resets keeps the order of
\* what is on its way.
LEMMA SendExtended ==
    ASSUME NEW s \in Side, NEW l \in Seq(Cell), NEW q \in Seq(Cell),
           link'[s] = l, Extends(controls'[Peer(s)], q),
           InOrder(l), InOrder(q), \A c \in Queued(l), d \in Queued(q) : Before(c, d),
           \A c \in Queued(q) : c.cmd \notin {"Data", "DataAck", "End"}
    PROVE  OrderInv(s)' /\ \A c \in OnWay(s)' : c \in Queued(l) \cup Queued(q) \/ Neutral(c)
<1>1. PICK r \in Seq(Cell) : controls'[Peer(s)] = q \o r /\ \A c \in Queued(r) : Neutral(c)
  BY Zenon DEF Extends
<1>2. Queued(q \o r) = Queued(q) \cup Queued(r) /\ InOrder(q \o r)
  BY <1>1, PutNeutral, Zenon
<1>3. PICK x : x = q \o r
  BY Zenon
<1>4. \A c \in Queued(l), d \in Queued(x) : Before(c, d)
  BY <1>1, <1>2, <1>3, NeutralCells, Zenon
<1>5. \A c \in Queued(x) : c.cmd \notin {"Data", "DataAck", "End"}
  BY <1>1, <1>2, <1>3, Zenon DEF Neutral
<1>6. controls'[Peer(s)] = x /\ InOrder(x)
  BY <1>1, <1>2, <1>3, Zenon
<1>7. OrderInv(s)' /\ OnWay(s)' = Queued(l) \cup Queued(x)
  BY <1>4, <1>5, <1>6, Zenon DEF OrderInv, OnWay
<1> QED BY <1>1, <1>2, <1>3, <1>7, Zenon

\* The queue a tick selects from fits behind the cells under way.
LEMMA TickQueueOrder ==
    ASSUME TypeOK, SessionInv, NEW s \in Side
    PROVE  /\ TickQueue(s) \in Seq(Cell) /\ InOrder(TickQueue(s))
           /\ \A c \in Queued(TickQueue(s)) : c \in Queued(controls[s]) \/ Neutral(c)
           /\ \A c \in Queued(TickQueue(s)) : c.cmd \notin {"Data", "DataAck", "End"}
           /\ \A c \in Queued(link[Peer(s)]), d \in Queued(TickQueue(s)) : Before(c, d)
<1>1. TickQueue(s) \in Seq(Cell)
  BY TickQueueType, Zenon
<1>2. OrderInv(Peer(s)) /\ Peer(Peer(s)) = s
  BY Sides, Zenon DEF SessionInv
<1>3. CASE TickQueue(s) = controls[s]
  BY <1>1, <1>2, <1>3, Zenon DEF OrderInv
<1>4. CASE TickQueue(s) = <<Control("SessionFinish", 0)>>
  <2>1. PICK c : c = Control("SessionFinish", 0)
    BY Zenon
  <2>2. c.cmd = "SessionFinish"
    BY <2>1, ControlFields, Zenon
  <2>3. Neutral(c)
    BY <2>2, Zenon DEF Neutral
  <2>4. Queued(<<c>>) = {c} /\ InOrder(<<c>>)
    BY DEF Queued, InOrder
  <2>5. \A d : Before(d, c)
    BY <2>3, NeutralCells, Zenon
  <2> QED BY <1>1, <1>4, <2>1, <2>2, <2>3, <2>4, <2>5, Zenon
<1> QED BY <1>3, <1>4, Zenon DEF TickQueue

\* A tick that serves no stream.
LEMMA TickQuiet ==
    ASSUME TypeOK, TypeOK', SessionInv, NEW s \in Side, NEW queue \in Seq(Cell),
           AfterWrite(s, stream[s], queue), link'[s] = link[s], OrderInv(Peer(s))',
           \A c \in OnWay(Peer(s))' : c \in OnWay(Peer(s)) \/ Neutral(c)
    PROVE  SessionInv'
<1>1. IdInv /\ OrderInv(s) /\ Peer(s) \in Side /\ Peer(s) # s /\ stream[s] \in [Ids -> Stream]
  BY Sides, Zenon DEF SessionInv, TypeOK
<1>2. /\ \A p \in Side : Known(p)' = Known(p) /\ live'[p] \cap closed'[p] = {}
      /\ UNCHANGED <<worker, connecting, lastId>>
      /\ stream'[s] = stream[s] /\ \A p \in Side : p # s => stream'[p] = stream[p]
      /\ \A p \in Side : p # s => controls'[p] = controls[p]
  BY <1>1, AfterWriteEffect, Zenon
<1>3. \A p \in Side, j \in Ids : SameStream(p, j) /\ SameWorker(p, j)
  BY <1>2, StreamKept, WorkerKept, Zenon
<1>4. IdInv'
  <2>1. \A j \in Ids : ready("client", j)' => ready("client", j)
    BY <1>3, Zenon DEF SameStream, SameReady, Side
  <2>2. \A p \in Side, j \in Ids : stream'[p][j] = stream[p][j] /\ worker'[p][j] = worker[p][j]
    BY <1>2, Zenon
  <2> QED BY <1>1, <1>2, <2>1, <2>2, IdKept, Zenon
<1>5. Grows
  <2>1. lastId["client"] <= lastId'["client"] /\ lastId["exit"] <= lastId'["exit"]
    BY <1>2, LastIdTypes
  <2>2. \A p \in Side : Known(p) \subseteq Known(p)'
    BY <1>2, Zenon
  <2> QED BY <1>2, <1>3, <2>1, <2>2, QuietGrows, Zenon
<1>6. OrderInv(s)' /\ \A c \in OnWay(s)' : c \in OnWay(s)
  BY <1>1, <1>2, SameQueue, Zenon
<1>7. /\ \A p \in Side : OrderInv(p)'
      /\ \A p \in Side : \A c \in OnWay(p)' : c \in OnWay(p) \/ CellInv(p, c)'
  BY <1>6, NeutralKept, Sides, Zenon
<1> QED BY <1>3, <1>4, <1>5, <1>7, QuietStep, Zenon

\* A tick that sends a control cell, or a dummy, keeps the invariant
\* (session.rs 422-466).
LEMMA TickControlInv ==
    ASSUME TypeOK, TypeOK', SessionInv, NEW s \in Side, TickControl(s) \/ TickDummy(s)
    PROVE  SessionInv'
<1>1. PICK p, q : p = Peer(s) /\ q = TickQueue(s)
  BY Zenon
<1>2. p \in Side /\ p # s /\ Peer(p) = s /\ IdInv /\ stream[s] \in [Ids -> Stream]
  BY <1>1, Sides, Zenon DEF SessionInv, TypeOK
<1>3. /\ q \in Seq(Cell) /\ InOrder(q)
      /\ \A c \in Queued(q) : c \in Queued(controls[s]) \/ Neutral(c)
      /\ \A c \in Queued(q) : c.cmd \notin {"Data", "DataAck", "End"}
      /\ \A c \in Queued(link[p]), d \in Queued(q) : Before(c, d)
  BY <1>1, TickQueueOrder, Zenon
<1>4. link[p] \in Seq(Cell) /\ InOrder(link[p])
  BY <1>2, WayType, Zenon DEF SessionInv, OrderInv
<1>5. CASE TickControl(s)
  <2>1. /\ q # <<>> /\ link' = [link EXCEPT ![p] = Append(@, Head(q))]
        /\ AfterWrite(s, stream[s], Tail(q))
    BY <1>1, <1>5, Zenon DEF TickControl, Emit
  <2>2. PICK h, t, l : h = Head(q) /\ t = Tail(q) /\ l = Append(link[p], h)
    BY Zenon
  <2>3. h \in Cell /\ t \in Seq(Cell) /\ l \in Seq(Cell)
    BY <1>3, <1>4, <2>1, <2>2, SMTT(20)
  <2>4. link'[s] = link[s] /\ link'[p] = l
    BY <1>2, <2>1, <2>2, Zenon DEF TypeOK
  <2>5. Extends(controls'[s], t)
    BY <1>2, <2>1, <2>2, <2>3, AfterWriteEffect, Zenon
  <2>6. /\ Queued(t) \subseteq Queued(q) /\ h \in Queued(q)
        /\ InOrder(t) /\ \A c \in Queued(t) : Before(h, c)
    BY <1>3, <2>1, <2>2, TakeCell, Zenon
  <2>7. Queued(l) = Queued(link[p]) \cup {h} /\ InOrder(l)
    BY <1>3, <1>4, <2>2, <2>3, <2>6, PutCell, Zenon
  <2>8. /\ \A c \in Queued(l), d \in Queued(t) : Before(c, d)
        /\ \A c \in Queued(t) : c.cmd \notin {"Data", "DataAck", "End"}
    BY <1>3, <2>6, <2>7, Zenon
  <2>9. OrderInv(p)' /\ \A c \in OnWay(p)' : c \in Queued(l) \cup Queued(t) \/ Neutral(c)
    BY <1>2, <2>3, <2>4, <2>5, <2>6, <2>7, <2>8, SendExtended, Zenon
  <2>10. \A c \in OnWay(p)' : c \in OnWay(p) \/ Neutral(c)
    BY <1>2, <1>3, <2>6, <2>7, <2>9, Zenon DEF OnWay
  <2> QED BY <1>1, <2>1, <2>2, <2>3, <2>4, <2>9, <2>10, TickQuiet, Zenon
<1>6. CASE TickDummy(s)
  <2>1. q = <<>> /\ link' = link /\ AfterWrite(s, stream[s], q)
    BY <1>1, <1>6, Zenon DEF TickDummy
  <2>2. Extends(controls'[s], q)
    BY <1>2, <1>3, <2>1, AfterWriteEffect, Zenon
  <2>3. OrderInv(p)' /\ \A c \in OnWay(p)' : c \in Queued(link[p]) \cup Queued(q) \/ Neutral(c)
    BY <1>2, <1>3, <1>4, <2>1, <2>2, SendExtended, Zenon
  <2>4. \A c \in OnWay(p)' : c \in OnWay(p) \/ Neutral(c)
    BY <1>2, <1>3, <2>3, Zenon DEF OnWay
  <2> QED BY <1>1, <1>3, <2>1, <2>3, <2>4, TickQuiet, Zenon
<1> QED BY <1>5, <1>6, Zenon

\* A stream that may send is known to the peer.
LEMMA ReadyKnown ==
    ASSUME TypeOK, IdInv, NEW s \in Side, NEW i \in Ids, i \in live[s], ready(s, i)
    PROVE  i \in Known(Peer(s))
<1>1. CASE s = "client"
  BY <1>1, Zenon DEF IdInv, Peer
<1>2. CASE s = "exit"
  <2>1. lastId["client"] \in Nat /\ lastId["exit"] \in Nat /\ lastId["exit"] <= lastId["client"]
    BY LastIdTypes, Zenon DEF IdInv
  <2>2. i \in 1..lastId["exit"]
    BY <1>2, Zenon DEF IdInv, Known
  <2> QED BY <1>2, <2>1, <2>2 DEF IdInv, Peer
<1> QED BY <1>1, <1>2, Zenon DEF Side

\* A tick that sends cell c of stream i.
LEMMA SendStep ==
    ASSUME TypeOK, TypeOK', SessionInv, NEW s \in Side, NEW i \in Ids, i \in live[s],
           NEW c \in Cell, c.id = i, c.cmd \in {"Data", "DataAck", "End"}, Emit(s, c),
           NEW st \in [Ids -> Stream], AfterWrite(s, st, TickQueue(s)),
           \A j \in Ids : j # i => st[j] = stream[s][j],
           SameInput(s, i), SameReady(s, i), writtenBy(s, i)' = writtenBy(s, i),
           pendingAck(s, i)' \in {0, pendingAck(s, i)}, ackedTo(s, i)' = ackedTo(s, i),
           sentBy(s, i) <= sentBy(s, i)', sentEnd(s, i) => sentEnd(s, i)',
           Credit(s, i)' /\ Credit(Peer(s), i)',
           \A d \in OnWay(Peer(s)) : Before(d, c), CellInv(Peer(s), c)'
    PROVE  SessionInv'
<1>1. PICK p, q : p = Peer(s) /\ q = TickQueue(s)
  BY Zenon
<1>2. p \in Side /\ p # s /\ Peer(p) = s /\ Peer(s) = p /\ IdInv /\ OrderInv(s) /\ i \in Known(s)
  BY <1>1, Sides, Zenon DEF SessionInv, Known
<1>3. /\ q \in Seq(Cell) /\ InOrder(q)
      /\ \A d \in Queued(q) : d \in Queued(controls[s]) \/ Neutral(d)
      /\ \A d \in Queued(q) : d.cmd \notin {"Data", "DataAck", "End"}
      /\ \A d \in Queued(link[p]), e \in Queued(q) : Before(d, e)
  BY <1>1, TickQueueOrder, Zenon
<1>4. link[p] \in Seq(Cell) /\ InOrder(link[p])
  BY <1>2, WayType, Zenon DEF SessionInv, OrderInv
<1>5. /\ \A r \in Side : Known(r)' = Known(r) /\ live'[r] \cap closed'[r] = {}
      /\ UNCHANGED <<worker, connecting, lastId>>
      /\ stream'[s] = st /\ \A r \in Side : r # s => stream'[r] = stream[r]
      /\ \A r \in Side : r # s => controls'[r] = controls[r]
      /\ Extends(controls'[s], q)
  BY <1>1, <1>2, <1>3, AfterWriteEffect, Zenon
<1>6. PICK l : l = Append(link[p], c)
  BY Zenon
<1>7. l \in Seq(Cell) /\ link'[s] = link[s] /\ link'[p] = l
  BY <1>1, <1>2, <1>4, <1>6, SMTT(20) DEF TypeOK, Emit
<1>8. Queued(l) = Queued(link[p]) \cup {c} /\ InOrder(l)
  <2>1. \A d \in Queued(link[p]) : Before(d, c)
    BY <1>2, Zenon DEF OnWay
  <2> QED BY <1>4, <1>6, <2>1, PutCell, Zenon
<1>9. \A d \in Queued(l), e \in Queued(q) : Before(d, e)
  <2>1. \A e \in Queued(q) : Before(c, e)
    BY <1>3, Zenon DEF Before, Answer
  <2> QED BY <1>3, <1>8, <2>1, Zenon
<1>10. OrderInv(p)' /\ \A d \in OnWay(p)' : d \in Queued(l) \cup Queued(q) \/ Neutral(d)
  BY <1>2, <1>3, <1>5, <1>7, <1>8, <1>9, SendExtended, Zenon
<1>11. OrderInv(s)' /\ \A d \in OnWay(s)' : d \in OnWay(s)
  BY <1>2, <1>5, <1>7, SameQueue, Zenon
<1>12. \A r \in Side, j \in Ids : r # s \/ j # i =>
           stream'[r][j] = stream[r][j] /\ worker'[r][j] = worker[r][j]
  BY <1>5, Zenon
<1>13. \A r \in Side, j \in Ids : r # s \/ j # i => SameStream(r, j) /\ SameWorker(r, j)
  BY <1>12, StreamKept, WorkerKept, SMTT(20)
<1>14. IdInv'
  <2>1. \A j \in Ids : ready("client", j)' => ready("client", j)
    BY <1>13, Zenon DEF SameStream, SameReady, Side
  <2>2. \A r \in Side, j \in Ids : j \notin Known(r) =>
            stream'[r][j] = stream[r][j] /\ worker'[r][j] = worker[r][j]
    BY <1>2, <1>12
  <2> QED BY <1>2, <1>5, <2>1, <2>2, IdKept, Zenon
<1>15. Backlog(s, i)'
  <2>1. Backlog(s, i) /\ SameWorker(s, i)
    BY <1>5, WorkerKept, Zenon DEF SessionInv
  <2> QED BY <2>1, Zenon DEF Backlog, SameInput, SameWorker
<1>16. ASSUME NEW d \in OnWay(s), d.id = i PROVE Spared(s, d)
  <2>1. CellInv(s, d) /\ d \in Cell
    BY WayType, Zenon DEF SessionInv, CellsInv
  <2>2. SameAcks(p, i)
    BY <1>2, <1>13, Zenon DEF SameStream
  <2>3. /\ SameReady(s, d.id) /\ SameInput(s, d.id)
        /\ ackedTo(s, d.id)' = ackedTo(s, d.id) /\ SameAcks(Peer(s), d.id)
    BY <1>2, <1>16, <2>2, Zenon
  <2> QED BY <2>1, <2>3, SparedKept, Zenon
<1>17. ASSUME NEW d \in OnWay(p), d.id = i PROVE Spared(p, d)
  <2>1. CellInv(p, d)
    BY <1>2, Zenon DEF SessionInv, CellsInv
  <2>2. SameStream(p, i)
    BY <1>2, <1>13, Zenon
  <2>3. d.cmd = "DataAck" => (pendingAck(s, i)' # 0 => d.n < writtenBy(s, i)')
    BY <1>2, <1>17, <2>1, Zenon DEF CellInv
  <2> QED BY <1>2, <1>17, <2>1, <2>2, <2>3, Zenon
          DEF Spared, CellInv, SameStream, SameInput, SameReady, SameOutput
<1>18. \A d \in OnWay(p)' : (d \in OnWay(p) /\ (d.id = i => Spared(p, d))) \/ CellInv(p, d)'
  <2>1. \A d \in OnWay(p)' : d \in OnWay(p) \/ d = c \/ Neutral(d)
    BY <1>2, <1>3, <1>8, <1>10, Zenon DEF OnWay
  <2> QED BY <1>2, <1>17, <2>1, NeutralKept, Zenon
<1>19. /\ \A r \in Side : OrderInv(r)'
       /\ \A r \in Side : \A d \in OnWay(r)' :
              (d \in OnWay(r) /\ (d.id = i => Spared(r, d))) \/ CellInv(r, d)'
  BY <1>1, <1>10, <1>11, <1>16, <1>18, Sides, SMTT(20)
<1>20. writtenBy(s, i) <= writtenBy(s, i)'
  <2>1. writtenBy(s, i) \in Nat
    BY CountTypes, Zenon
  <2> QED BY <2>1
<1>21. (\A r \in Side : Known(r) \subseteq Known(r)') /\ connecting' = connecting /\ lastId' = lastId
  BY <1>5, Zenon
<1> QED BY <1>13, <1>14, <1>15, <1>19, <1>20, <1>21, OneStream, SMTT(20)

\* What the round robin finds at the stream it serves.
LEMMA ServedStream ==
    ASSUME TypeOK, NEW s \in Side, NEW i \in Ids, i \in Eligible(s)
    PROVE  /\ i \in live[s] /\ ready(s, i)
           /\ HasAck(s, i) => pendingAck(s, i) # 0
           /\ ~HasAck(s, i) => ~sentEnd(s, i) /\ sentBy(s, i) + 1 <= ackedTo(s, i) + WINDOW_CELLS
<1>1. i \in live[s] /\ stream[s][i].ready /\ (HasAck(s, i) \/ MaySend(s, i))
  BY Zenon DEF Eligible
<1>2. sentBy(s, i) \in Nat /\ ackedTo(s, i) \in Nat
  BY CountTypes, Zenon
<1>3. MaySend(s, i) => ~sentEnd(s, i) /\ sentBy(s, i) - ackedTo(s, i) < WINDOW_CELLS
  BY Zenon DEF MaySend, Available, sentEnd, sentBy, ackedTo
<1> QED BY <1>1, <1>2, <1>3, WindowAssumption, SMTT(20) DEF HasAck, pendingAck, ready

\* What a served stream sends, one case per kind of cell.
LEMMA ServeAck ==
    ASSUME TypeOK, TypeOK', SessionInv, NEW s \in Side, NEW i \in Ids, i \in live[s], ready(s, i),
           pendingAck(s, i) # 0, OnlyStream(s, i, WithAck(stream[s][i], 0)), worker' = worker,
           \A r \in Side : Known(r)' = Known(r),
           NEW c \in Cell, c.cmd = "DataAck", c.id = i, c.n = pendingAck(s, i)
    PROVE  /\ SameInput(s, i) /\ SameReady(s, i) /\ writtenBy(s, i)' = writtenBy(s, i)
           /\ pendingAck(s, i)' \in {0, pendingAck(s, i)} /\ ackedTo(s, i)' = ackedTo(s, i)
           /\ sentBy(s, i) <= sentBy(s, i)' /\ (sentEnd(s, i) => sentEnd(s, i)')
           /\ Credit(s, i)' /\ Credit(Peer(s), i)'
           /\ \A d \in OnWay(Peer(s)) : Before(d, c)
           /\ CellInv(Peer(s), c)'
<1>1. PICK p : p = Peer(s)
  BY Zenon
<1>2. p \in Side /\ p # s /\ Peer(p) = s /\ Peer(s) = p /\ IdInv
  BY <1>1, Sides, Zenon DEF SessionInv
<1>3. 0 \in Nat
  BY Zenon
<1>4. /\ SameOutput(s, i) /\ SameInput(s, i) /\ writtenBy(s, i)' = writtenBy(s, i)
      /\ pendingAck(s, i)' = 0 /\ SameReady(s, i)
      /\ \A r \in Side, j \in Ids : r # s \/ j # i => SameStream(r, j)
  BY <1>3, AckStep
<1>5. \A r \in Side, j \in Ids : SameWorker(r, j)
  BY WorkerKept, Zenon
<1>6. sentBy(s, i) \in Nat /\ writtenBy(s, i) \in Nat /\ ackedTo(p, i) \in Nat
  BY <1>2, CountTypes, Zenon
<1>7. Credit(p, i) /\ SameStream(p, i)
  BY <1>2, <1>4, Zenon DEF SessionInv
<1>8. c.n = writtenBy(s, i) /\ ackedTo(p, i) < c.n
  BY <1>2, <1>7, Zenon DEF Credit
<1>9. Credit(s, i)'
  BY <1>4, <1>5, OtherStreams, Zenon
<1>10. Credit(p, i)'
  BY <1>2, <1>4, <1>7, Zenon DEF Credit, SameStream, SameOutput, SameInput
<1>11. ASSUME NEW d \in OnWay(p) PROVE Before(d, c)
  <2>1. CellInv(p, d)
    BY <1>2, Zenon DEF SessionInv, CellsInv
  <2>2. d.id = i /\ d.cmd = "DataAck" => d.n < c.n
    BY <1>2, <1>8, <2>1, Zenon DEF CellInv
  <2> QED BY <2>2, Zenon DEF Before, Answer
<1>12. CellInv(p, c)'
  <2>1. i \in Known(p)'
    BY <1>1, <1>2, ReadyKnown, Zenon
  <2>2. ackedTo(p, i)' < c.n /\ c.n <= writtenBy(s, i)' /\ pendingAck(s, i)' = 0
    BY <1>4, <1>6, <1>7, <1>8, SMTT(20) DEF SameStream, SameOutput
  <2> QED BY <1>2, <2>1, <2>2, Zenon DEF CellInv, Answer
<1>13. sentBy(s, i) <= sentBy(s, i)' /\ (sentEnd(s, i) => sentEnd(s, i)') /\ ackedTo(s, i)' = ackedTo(s, i)
  BY <1>4, <1>6, SMTT(20) DEF SameOutput
<1> QED BY <1>1, <1>4, <1>9, <1>10, <1>11, <1>12, <1>13, Zenon

\* Sending a piece of data within the credit keeps what is known of its
\* stream (session.rs 447-448).
LEMMA ServeData ==
    ASSUME TypeOK, TypeOK', SessionInv, NEW s \in Side, NEW i \in Ids, i \in live[s], ready(s, i),
           ~sentEnd(s, i), sentBy(s, i) + 1 <= ackedTo(s, i) + WINDOW_CELLS,
           OnlyStream(s, i, WithCredit(stream[s][i], Sent(stream[s][i].window))), worker' = worker,
           \A r \in Side : Known(r)' = Known(r),
           NEW c \in Cell, c.cmd = "Data", c.id = i, c.n = sentBy(s, i) + 1
    PROVE  /\ SameInput(s, i) /\ SameReady(s, i) /\ writtenBy(s, i)' = writtenBy(s, i)
           /\ pendingAck(s, i)' \in {0, pendingAck(s, i)} /\ ackedTo(s, i)' = ackedTo(s, i)
           /\ sentBy(s, i) <= sentBy(s, i)' /\ (sentEnd(s, i) => sentEnd(s, i)')
           /\ Credit(s, i)' /\ Credit(Peer(s), i)'
           /\ \A d \in OnWay(Peer(s)) : Before(d, c)
           /\ CellInv(Peer(s), c)'
<1>1. PICK p, w : p = Peer(s) /\ w = Sent(stream[s][i].window)
  BY Zenon
<1>2. p \in Side /\ p # s /\ Peer(p) = s /\ Peer(s) = p /\ IdInv
  BY <1>1, Sides, Zenon DEF SessionInv
<1>3. /\ w \in Window /\ w.sent = sentBy(s, i) + 1 /\ w.acknowledged = ackedTo(s, i)
  <2>1. stream[s][i].window \in Window
    BY RecordTypes, Zenon
  <2> QED BY <1>1, <2>1 DEF Sent, Window, sentBy, ackedTo
<1>4. /\ sentBy(s, i)' = sentBy(s, i) + 1 /\ ackedTo(s, i)' = ackedTo(s, i)
      /\ sentEnd(s, i)' = sentEnd(s, i) /\ SameInput(s, i) /\ SameAcks(s, i) /\ SameReady(s, i)
      /\ \A r \in Side, j \in Ids : r # s \/ j # i => SameStream(r, j)
  BY <1>1, <1>3, CreditStep, SMTT(20)
<1>5. \A r \in Side, j \in Ids : SameWorker(r, j)
  BY WorkerKept, Zenon
<1>6. sentBy(s, i) \in Nat /\ ackedTo(s, i) \in Nat /\ receivedBy(p, i) \in Nat
  BY <1>2, CountTypes, Zenon
<1>7. Credit(s, i) /\ SameStream(p, i)
  BY <1>2, <1>4, Zenon DEF SessionInv
<1>8. receivedBy(p, i) <= sentBy(s, i) /\ ~receivedEnd(p, i)
  BY <1>2, <1>7, Zenon DEF Credit
<1>9. Credit(s, i)'
  <2>1. receivedBy(p, i)' <= sentBy(s, i)' /\ sentBy(s, i)' <= ackedTo(s, i)' + WINDOW_CELLS
    BY <1>4, <1>6, <1>7, <1>8, SMTT(20) DEF SameStream, SameInput
  <2>2. ~receivedEnd(p, i)'
    BY <1>7, <1>8, Zenon DEF SameStream, SameInput
  <2> QED BY <1>2, <1>4, <1>7, <2>1, <2>2, Zenon DEF Credit, SameStream, SameInput, SameAcks
<1>10. Credit(p, i)'
  BY <1>1, <1>4, <1>5, OtherStreams, Zenon
<1>11. ASSUME NEW d \in OnWay(p) PROVE Before(d, c)
  <2>1. CellInv(p, d) /\ d \in Cell
    BY <1>2, WayType, Zenon DEF SessionInv, CellsInv
  <2>2. d.n \in Nat
    BY <2>1, Zenon DEF Cell
  <2>3. d.id = i /\ d.cmd = "Data" => d.n <= sentBy(s, i)
    BY <1>2, <2>1, Zenon DEF CellInv
  <2>4. d.id = i => d.cmd # "End"
    BY <1>2, <2>1, Zenon DEF CellInv
  <2>5. d.id = i /\ d.cmd = "Data" => d.n < c.n
    BY <1>6, <2>2, <2>3, SMTT(20)
  <2> QED BY <2>4, <2>5, Zenon DEF Before, Answer
<1>12. CellInv(p, c)'
  <2>1. i \in Known(p)'
    BY <1>1, <1>2, ReadyKnown, Zenon
  <2>2. receivedBy(p, i)' < c.n /\ c.n <= sentBy(s, i)'
    BY <1>4, <1>6, <1>7, <1>8, SMTT(20) DEF SameStream, SameInput
  <2>3. ~receivedEnd(p, i)'
    BY <1>7, <1>8, Zenon DEF SameStream, SameInput
  <2> QED BY <1>2, <2>1, <2>2, <2>3, Zenon DEF CellInv, Answer
<1>13. sentBy(s, i) <= sentBy(s, i)' /\ (sentEnd(s, i) => sentEnd(s, i)')
  BY <1>4, <1>6, SMTT(20)
<1>14. writtenBy(s, i)' = writtenBy(s, i) /\ pendingAck(s, i)' = pendingAck(s, i)
  BY <1>4, Zenon DEF SameAcks
<1> QED BY <1>1, <1>4, <1>9, <1>10, <1>11, <1>12, <1>13, <1>14, Zenon

\* Sending the end of a stream keeps what is known of it (session.rs 449).
LEMMA ServeEnd ==
    ASSUME TypeOK, TypeOK', SessionInv, NEW s \in Side, NEW i \in Ids, i \in live[s], ready(s, i),
           ~sentEnd(s, i), OnlyStream(s, i, WithSentEnd(stream[s][i])), worker' = worker,
           \A r \in Side : Known(r)' = Known(r),
           NEW c \in Cell, c.cmd = "End", c.id = i
    PROVE  /\ SameInput(s, i) /\ SameReady(s, i) /\ writtenBy(s, i)' = writtenBy(s, i)
           /\ pendingAck(s, i)' \in {0, pendingAck(s, i)} /\ ackedTo(s, i)' = ackedTo(s, i)
           /\ sentBy(s, i) <= sentBy(s, i)' /\ (sentEnd(s, i) => sentEnd(s, i)')
           /\ Credit(s, i)' /\ Credit(Peer(s), i)'
           /\ \A d \in OnWay(Peer(s)) : Before(d, c)
           /\ CellInv(Peer(s), c)'
<1>1. PICK p : p = Peer(s)
  BY Zenon
<1>2. p \in Side /\ p # s /\ Peer(p) = s /\ Peer(s) = p /\ IdInv
  BY <1>1, Sides, Zenon DEF SessionInv
<1>3. /\ sentBy(s, i)' = sentBy(s, i) /\ ackedTo(s, i)' = ackedTo(s, i)
      /\ sentEnd(s, i)' /\ SameInput(s, i) /\ SameAcks(s, i) /\ SameReady(s, i)
      /\ \A r \in Side, j \in Ids : r # s \/ j # i => SameStream(r, j)
  BY SentEndStep, Zenon
<1>4. \A r \in Side, j \in Ids : SameWorker(r, j)
  BY WorkerKept, Zenon
<1>5. sentBy(s, i) \in Nat
  BY CountTypes, Zenon
<1>6. Credit(s, i) /\ SameStream(p, i)
  BY <1>2, <1>3, Zenon DEF SessionInv
<1>7. ~receivedEnd(p, i)
  BY <1>2, <1>6, Zenon DEF Credit
<1>8. Credit(s, i)'
  BY <1>2, <1>3, <1>6, Zenon DEF Credit, SameStream, SameInput, SameAcks
<1>9. Credit(p, i)'
  BY <1>1, <1>3, <1>4, OtherStreams, Zenon
<1>10. ASSUME NEW d \in OnWay(p) PROVE Before(d, c)
  <2>1. CellInv(p, d)
    BY <1>2, Zenon DEF SessionInv, CellsInv
  <2>2. d.id = i => d.cmd # "End"
    BY <1>2, <2>1, Zenon DEF CellInv
  <2> QED BY <2>2, Zenon DEF Before, Answer
<1>11. CellInv(p, c)'
  <2>1. i \in Known(p)'
    BY <1>1, <1>2, ReadyKnown, Zenon
  <2>2. ~receivedEnd(p, i)'
    BY <1>6, <1>7, Zenon DEF SameStream, SameInput
  <2> QED BY <1>2, <1>3, <2>1, <2>2, Zenon DEF CellInv, Answer
<1>12. sentBy(s, i) <= sentBy(s, i)'
  BY <1>3, <1>5
<1>13. writtenBy(s, i)' = writtenBy(s, i) /\ pendingAck(s, i)' = pendingAck(s, i)
  BY <1>3, Zenon DEF SameAcks
<1> QED BY <1>1, <1>3, <1>8, <1>9, <1>10, <1>11, <1>12, <1>13, Zenon

\* A tick that serves a stream keeps the invariant (session.rs 439-465).
LEMMA TickStreamInv ==
    ASSUME TypeOK, TypeOK', SessionInv, NEW s \in Side, TickStream(s)
    PROVE  SessionInv'
<1>1. PICK i \in Ids : /\ Selected(s, i) /\ Emit(s, StreamCell(s, i))
                       /\ AfterWrite(s, AfterServing(s, i), TickQueue(s))
  BY Zenon DEF TickStream
<1>2. PICK c, st : c = StreamCell(s, i) /\ st = AfterServing(s, i)
  BY Zenon
<1>3. /\ i \in live[s] /\ ready(s, i)
      /\ HasAck(s, i) => pendingAck(s, i) # 0
      /\ ~HasAck(s, i) => ~sentEnd(s, i) /\ sentBy(s, i) + 1 <= ackedTo(s, i) + WINDOW_CELLS
  BY <1>1, ServedStream, Zenon DEF Selected
<1>4. st \in [Ids -> Stream] /\ \A j \in Ids : j # i => st[j] = stream[s][j]
  <2>1. /\ AfterServing(s, i) \in [Ids -> Stream]
        /\ \A j \in Ids \ {i} : AfterServing(s, i)[j] = stream[s][j]
    BY ServingEffect, Zenon
  <2> QED BY <1>2, <2>1, Zenon
<1>5. /\ \A r \in Side : Known(r)' = Known(r)
      /\ worker' = worker /\ stream'[s] = st /\ \A r \in Side : r # s => stream'[r] = stream[r]
  BY <1>1, <1>2, <1>4, TickQueueType, AfterWriteEffect, Zenon DEF SessionInv
<1>6. OnlyStream(s, i, st[i])
  BY <1>4, <1>5, Zenon DEF OnlyStream, TypeOK
<1>7. /\ pendingAck(s, i) \in Nat /\ sentBy(s, i) \in Nat /\ i \in 0..MAX_IDS
  BY CountTypes, IdsType, Zenon
<1>8. /\ c \in Cell /\ c.id = i /\ c.cmd \in {"Data", "DataAck", "End"}
      /\ SameInput(s, i) /\ SameReady(s, i) /\ writtenBy(s, i)' = writtenBy(s, i)
      /\ pendingAck(s, i)' \in {0, pendingAck(s, i)} /\ ackedTo(s, i)' = ackedTo(s, i)
      /\ sentBy(s, i) <= sentBy(s, i)' /\ (sentEnd(s, i) => sentEnd(s, i)')
      /\ Credit(s, i)' /\ Credit(Peer(s), i)'
      /\ \A d \in OnWay(Peer(s)) : Before(d, c)
      /\ CellInv(Peer(s), c)'
  <2>1. CASE HasAck(s, i)
    <3>1. c = [cmd |-> "DataAck", id |-> i, n |-> pendingAck(s, i)]
      BY <1>2, <2>1, Zenon DEF StreamCell, pendingAck
    <3>2. c \in Cell /\ c.cmd = "DataAck" /\ c.id = i /\ c.n = pendingAck(s, i)
      BY <1>7, <3>1, Zenon DEF Cell, Commands, StreamCells
    <3>3. OnlyStream(s, i, WithAck(stream[s][i], 0))
      BY <1>2, <1>6, <2>1, ServingEffect, Zenon DEF WithAck
    <3> QED BY <1>3, <1>5, <2>1, <3>2, <3>3, ServeAck, Zenon
  <2>2. CASE ~HasAck(s, i) /\ HasData(s, i)
    <3>1. c = [cmd |-> "Data", id |-> i, n |-> sentBy(s, i) + 1]
      BY <1>2, <2>2, Zenon DEF StreamCell, sentBy
    <3>2. c \in Cell /\ c.cmd = "Data" /\ c.id = i /\ c.n = sentBy(s, i) + 1
      BY <1>7, <3>1, SMTT(20) DEF Cell, Commands, StreamCells
    <3>3. OnlyStream(s, i, WithCredit(stream[s][i], Sent(stream[s][i].window)))
      BY <1>2, <1>6, <2>2, ServingEffect, Zenon DEF WithCredit
    <3> QED BY <1>3, <1>5, <2>2, <3>2, <3>3, ServeData, Zenon
  <2>3. CASE ~HasAck(s, i) /\ ~HasData(s, i)
    <3>1. c = Control("End", i)
      BY <1>2, <2>3, Zenon DEF StreamCell
    <3>2. c \in Cell /\ c.cmd = "End" /\ c.id = i
      BY <1>7, <3>1, ControlType, ControlFields, Zenon DEF Commands, StreamCells
    <3>3. OnlyStream(s, i, WithSentEnd(stream[s][i]))
      BY <1>2, <1>6, <2>3, ServingEffect, Zenon DEF WithSentEnd
    <3> QED BY <1>3, <1>5, <2>3, <3>2, <3>3, ServeEnd, Zenon
  <2> QED BY <2>1, <2>2, <2>3, Zenon
<1> QED BY <1>1, <1>2, <1>3, <1>4, <1>8, SendStep, Zenon

\* The exit's last tick keeps the invariant (session.rs 425-431).
LEMMA TickFinishedInv ==
    ASSUME TypeOK, TypeOK', SessionInv, NEW s \in Side, TickFinished(s)
    PROVE  SessionInv'
<1>1. PICK p, c : p = Peer(s) /\ c = Control("SessionFinished", 0)
  BY Zenon
<1>2. p \in Side /\ p # s /\ Peer(p) = s /\ OrderInv(s) /\ OrderInv(p)
  BY <1>1, Sides, Zenon DEF SessionInv
<1>3. /\ UNCHANGED streamVars /\ controls' = controls /\ link' = [link EXCEPT ![p] = Append(@, c)]
  BY <1>1, Zenon DEF TickFinished, Emit
<1>4. Neutral(c) /\ c \in Cell
  BY <1>1, ControlFields, ControlType, SessionAssumption, SMTT(20) DEF Neutral, Commands
<1>5. link'[s] = link[s] /\ link'[p] = Append(link[p], c)
  BY <1>2, <1>3, Zenon DEF TypeOK
<1>6. OrderInv(s)' /\ \A d \in OnWay(s)' : d \in OnWay(s)
  BY <1>3, <1>2, <1>5, SameQueue, Zenon
<1>7. OrderInv(p)' /\ \A d \in OnWay(p)' : d \in OnWay(p) \/ Neutral(d)
  <2>1. link[p] \in Seq(Cell)
    BY <1>2, WayType, Zenon
  <2>2. Queued(Append(link[p], c)) = Queued(link[p]) \cup {c} /\ InOrder(Append(link[p], c))
    BY <1>2, <1>4, <2>1, PutCell, NeutralCells, Zenon DEF OrderInv
  <2>3. PICK l : l = Append(link[p], c)
    BY Zenon
  <2>4. \A d \in Queued(l), e \in Queued(controls[s]) : Before(d, e)
    BY <1>2, <1>4, <2>2, <2>3, NeutralCells, Zenon DEF OrderInv
  <2>5. OrderInv(p)' /\ OnWay(p)' = Queued(l) \cup Queued(controls[s])
    BY <1>2, <1>3, <1>5, <2>2, <2>3, <2>4, Zenon DEF OrderInv, OnWay
  <2> QED BY <1>2, <1>4, <2>2, <2>3, <2>5, Zenon DEF OnWay
<1> QED BY <1>1, <1>3, <1>6, <1>7, FixedStreams, Sides, Zenon
=============================================================================
