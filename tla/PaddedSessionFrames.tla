------------------------ MODULE PaddedSessionFrames -------------------------
(* The invariant of a session is kept by every cell that arrives and by     *)
(* every stream that is opened.                                             *)
EXTENDS PaddedSessionFacts

\* The next cell is never one the loop would blame on its peer.
LEMMA HeadVerdict ==
    ASSUME TypeOK, SessionInv, NEW s \in Side, link[s] # <<>>
    PROVE  Verdict(s, Head(link[s])) \notin {"unknown", "duplicate", "credit", "full", "ack", "written"}
<1>1. PICK c, i, p : c = Head(link[s]) /\ i = c.id /\ p = Peer(s)
  BY Zenon
<1>2. p \in Side /\ Peer(p) = s /\ Peer(s) = p
  BY <1>1, Sides, Zenon
<1>3. c \in Cell /\ CellInv(s, c)
  <2>1. link[s] \in Seq(Cell) /\ OnWay(s) \subseteq Cell
    BY WayType, Zenon
  <2>2. c \in OnWay(s)
    BY <1>1, <2>1, TakeCell, Zenon DEF OnWay
  <2> QED BY <2>1, <2>2, Zenon DEF SessionInv, CellsInv
<1>4. CASE c.cmd \notin StreamCells
  BY <1>1, <1>4, Zenon DEF Verdict
<1>5. CASE c.cmd \in StreamCells /\ i \in closed[s]
  BY <1>1, <1>5, Zenon DEF Verdict
<1>6. CASE c.cmd \in StreamCells /\ i \notin closed[s]
  <2>1. i \in live[s] /\ i \in Ids
    BY <1>1, <1>3, <1>6, Zenon DEF CellInv, Known, TypeOK
  <2>2. /\ Credit(p, i) /\ Backlog(s, i)
    BY <1>2, <2>1, Zenon DEF SessionInv
  <2>3. /\ receivedBy(s, i) \in Nat /\ writtenBy(s, i) \in Nat /\ gotBy(s, i) \in Nat
        /\ sentBy(p, i) \in Nat /\ ackedTo(p, i) \in Nat /\ ackedTo(s, i) \in Nat
        /\ sentBy(s, i) \in Nat /\ writtenBy(p, i) \in Nat /\ receivedBy(p, i) \in Nat
        /\ queueOf(s, i) \in Seq(Nat) /\ Len(queueOf(s, i)) \in Nat /\ c.n \in Nat
    BY <1>2, <1>3, <2>1, CountTypes, Zenon DEF Cell
  <2>4. receivedBy(s, i) <= writtenBy(s, i) + WINDOW_CELLS
    BY <1>2, <2>2, <2>3, WindowAssumption, SMTT(20) DEF Credit
  <2>5. ~receivedEnd(s, i) => TrySend(s, i) # "full"
    <3>1. ASSUME writing(s, i), ~receivedEnd(s, i) PROVE Len(queueOf(s, i)) <= QUEUE
      <4>1. gotBy(s, i) + Len(queueOf(s, i)) = receivedBy(s, i) /\ writtenBy(s, i) <= gotBy(s, i)
        BY <2>2, <2>3, <3>1 DEF Backlog
      <4>2. QUEUE = WINDOW_CELLS /\ WINDOW_CELLS \in Nat
        BY SessionAssumption, WindowAssumption
      <4>3. gotBy(s, i) + Len(queueOf(s, i)) <= gotBy(s, i) + WINDOW_CELLS
        BY <2>3, <2>4, <4>1, <4>2
      <4> QED BY <2>3, <4>2, <4>3
    <3>2. writing(s, i) /\ ~receivedEnd(s, i) => ~(Len(queueOf(s, i)) > QUEUE)
      BY <2>3, <3>1, SessionAssumption, WindowAssumption
    <3> QED BY <3>2, Zenon DEF TrySend, writing, queueOf
  <2>6. TrySend(s, i) \in {"ok", "full", "worker_gone"}
    BY Zenon DEF TrySend
  <2>7. CASE c.cmd = "Data"
    <3>1. receivedBy(s, i) < c.n /\ c.n <= sentBy(p, i) /\ ~receivedEnd(s, i)
      BY <1>1, <1>3, <2>7, Zenon DEF CellInv
    <3>2. ~(receivedBy(s, i) - writtenBy(s, i) >= WINDOW_CELLS)
      BY <1>2, <2>2, <2>3, <3>1, WindowAssumption, SMTT(20) DEF Credit
    <3>3. DataVerdict(s, i) \in {"premature", "ok", "worker_gone"}
      BY <2>5, <2>6, <3>1, <3>2, Zenon DEF DataVerdict, receivedBy, writtenBy, receivedEnd
    <3>4. Verdict(s, c) \in {"command", DataVerdict(s, i)}
      BY <1>1, <1>6, <2>1, <2>7, Zenon DEF Verdict
    <3> QED BY <1>1, <3>3, <3>4, Zenon
  <2>8. CASE c.cmd = "End"
    <3>1. ~receivedEnd(s, i)
      BY <1>1, <1>3, <2>8, Zenon DEF CellInv
    <3>2. EndVerdict(s, i) \in {"premature", "ok", "worker_gone"}
      BY <2>5, <2>6, <3>1, Zenon DEF EndVerdict, receivedEnd
    <3>3. Verdict(s, c) \in {"command", EndVerdict(s, i)}
      BY <1>1, <1>6, <2>1, <2>8, Zenon DEF Verdict
    <3> QED BY <1>1, <3>2, <3>3, Zenon
  <2>9. CASE c.cmd = "DataAck"
    <3>1. ackedTo(s, i) < c.n /\ c.n <= writtenBy(p, i)
      BY <1>1, <1>2, <1>3, <2>9, Zenon DEF CellInv
    <3>2. writtenBy(p, i) <= receivedBy(p, i) /\ receivedBy(p, i) <= sentBy(s, i)
      BY <1>2, <2>1, Zenon DEF SessionInv, Credit
    <3>3. ackedTo(s, i) < c.n /\ c.n <= sentBy(s, i)
      BY <2>3, <3>1, <3>2
    <3>4. AckVerdict(s, i, c.n) \in {"premature", "ok"}
      BY <3>3, Zenon DEF AckVerdict, ValidAck, ackedTo, sentBy
    <3>5. Verdict(s, c) \in {"command", AckVerdict(s, i, c.n)}
      BY <1>1, <1>6, <2>1, <2>9, Zenon DEF Verdict
    <3> QED BY <1>1, <3>4, <3>5, Zenon
  <2>10. CASE c.cmd \in Answer
    <3>1. ~ready(s, i)
      BY <1>1, <1>3, <2>10, Zenon DEF CellInv
    <3>2. AnswerVerdict(s, i) = "ok"
      BY <3>1, Zenon DEF AnswerVerdict, ready
    <3>3. Verdict(s, c) \in {"command", AnswerVerdict(s, i)}
      BY <1>1, <1>6, <2>1, <2>10, Zenon DEF Verdict, Answer
    <3> QED BY <1>1, <3>2, <3>3, Zenon
  <2> QED BY <1>6, <2>7, <2>8, <2>9, <2>10, Zenon DEF StreamCells, Answer
<1> QED BY <1>1, <1>4, <1>5, <1>6, Zenon

\* The writer's queue takes a piece of data, or the end.
LEMMA QueuePiece ==
    ASSUME NEW q \in Seq(Nat), NEW ended \in BOOLEAN, ~ended, EndBehindAll(q, ended)
    PROVE  /\ \A n \in Nat \ {0} : /\ EndBehindAll(Append(q, n), ended)
                                   /\ Len(Append(q, n)) = Len(q) + 1
           /\ EndBehindAll(Append(q, 0), TRUE) /\ Len(Append(q, 0)) = Len(q) + 1
BY SMTT(20) DEF EndBehindAll

\* A cell of stream i is taken off the link to s, and only the record of that
\* stream at s changes.
LEMMA FrameStep ==
    ASSUME TypeOK, TypeOK', SessionInv, NEW s \in Side, NEW i \in Ids, i \in live[s],
           link[s] # <<>>, link' = [link EXCEPT ![s] = Tail(@)], controls' = controls,
           UNCHANGED <<live, closed, connecting, lastId>>,
           \A q \in Side, j \in Ids : q # s \/ j # i =>
               stream'[q][j] = stream[q][j] /\ worker'[q][j] = worker[q][j],
           \A j \in Ids : ready("client", j)' => ready("client", j) \/ j \in Known("exit"),
           SameAcks(s, i), sentBy(s, i)' = sentBy(s, i), sentEnd(s, i)' = sentEnd(s, i),
           Credit(s, i)' /\ Credit(Peer(s), i)' /\ Backlog(s, i)',
           \A d \in Cell : d.id = i /\ CellInv(s, d) /\ Before(Head(link[s]), d) => Spared(s, d)
    PROVE  SessionInv'
<1>1. \A q \in Side, j \in Ids : q # s \/ j # i => SameStream(q, j) /\ SameWorker(q, j)
  BY StreamKept, WorkerKept
<1>2. /\ \A q \in Side : OrderInv(q)'
      /\ \A q \in Side : \A d \in OnWay(q)' : d \in OnWay(q)
      /\ \A d \in OnWay(s)' : Before(Head(link[s]), d)
  BY FrameInv, Zenon
<1>3. IdInv' /\ \A q \in Side : Known(q) \subseteq Known(q)'
  <2>1. IdInv
    BY Zenon DEF SessionInv
  <2> QED BY <2>1, LiveStep, Zenon
<1>4. ASSUME NEW q \in Side, NEW d \in OnWay(q)', d.id = i
      PROVE  Spared(q, d)
  <2>1. d \in OnWay(q)
    BY <1>2, Zenon
  <2>2. CellInv(q, d) /\ d \in Cell
    BY <2>1, WayType, Zenon DEF SessionInv, CellsInv
  <2>3. CASE q = Peer(s)
    BY <1>1, <2>1, <2>3, OtherStreams, Zenon
  <2>4. CASE q = s
    BY <1>2, <1>4, <2>2, <2>4, Zenon
  <2> QED BY <2>3, <2>4, Sides, Zenon
<1>5. sentBy(s, i) <= sentBy(s, i)' /\ writtenBy(s, i) <= writtenBy(s, i)'
  <2>1. sentBy(s, i) \in Nat /\ writtenBy(s, i) \in Nat
    BY CountTypes, Zenon
  <2> QED BY <2>1 DEF SameAcks
<1> QED BY <1>1, <1>2, <1>3, <1>4, <1>5, OneStream, SMTT(20)

\* Receiving a piece of data keeps the invariant (session.rs 538-544).
LEMMA DataInv ==
    ASSUME TypeOK, TypeOK', SessionInv, NEW s \in Side, Data(s)
    PROVE  SessionInv'
<1> DEFINE p == Peer(s)
<1>1. PICK c, i : c = Head(link[s]) /\ i = c.id
  BY Zenon
<1>2. /\ link[s] # <<>> /\ link' = [link EXCEPT ![s] = Tail(@)] /\ controls' = controls
      /\ UNCHANGED <<live, closed, connecting, lastId>>
  BY Zenon DEF Data, Accepts
<1>3. c \in Cell /\ CellInv(s, c) /\ c.cmd = "Data"
  BY <1>1, <1>2, FrameInv, Zenon DEF Data, Accepts
<1>4. c.n \in Nat /\ receivedBy(s, i) < c.n /\ c.n <= sentBy(p, i) /\ ~receivedEnd(s, i)
  BY <1>1, <1>3, Zenon DEF CellInv, Cell
<1> DEFINE x == Append(queueOf(s, i), c.n)
<1>5. /\ i \in Ids /\ i \in live[s]
      /\ OnlyStream(s, i, WithReceived(stream[s][i], receivedBy(s, i) + 1))
      /\ OnlyWorker(s, i, WithIncoming(worker[s][i], x))
  BY <1>1, DataEffect, Zenon DEF WithReceived, WithIncoming, receivedBy, queueOf
<1> HIDE DEF p, x
<1>6. p \in Side /\ Peer(p) = s /\ p # s
  BY Sides, Zenon DEF p
<1>7. /\ receivedBy(s, i) \in Nat /\ receivedBy(s, i) + 1 \in Nat /\ receivedEnd(s, i) \in BOOLEAN
      /\ writtenBy(s, i) \in Nat /\ gotBy(s, i) \in Nat
      /\ queueOf(s, i) \in Seq(Nat) /\ Len(queueOf(s, i)) \in Nat
      /\ sentBy(p, i) \in Nat
  BY <1>5, <1>6, CountTypes, SMTT(20)
<1>8. x \in Seq(Nat)
  BY <1>4, <1>7 DEF x
<1>9. /\ SameOutput(s, i) /\ SameAcks(s, i) /\ SameReady(s, i)
      /\ receivedBy(s, i)' = receivedBy(s, i) + 1 /\ receivedEnd(s, i)' = receivedEnd(s, i)
      /\ \A q \in Side, j \in Ids : q # s \/ j # i => SameStream(q, j)
  BY <1>5, <1>7, ReceivedStep
<1>10. /\ queueOf(s, i)' = x /\ gotBy(s, i)' = gotBy(s, i)
       /\ writing(s, i)' = writing(s, i)
       /\ \A q \in Side, j \in Ids : q # s \/ j # i => SameWorker(q, j)
  BY <1>5, <1>8, IncomingStep, Zenon
<1>11. \A q \in Side, j \in Ids : q # s \/ j # i =>
           stream'[q][j] = stream[q][j] /\ worker'[q][j] = worker[q][j]
  BY <1>5, Zenon DEF OnlyStream, OnlyWorker
<1>12. \A j \in Ids : ready("client", j)' => ready("client", j)
  BY <1>9, Zenon DEF SameStream, SameReady, Side
<1>13. Credit(s, i)'
  BY <1>5, <1>9, <1>10, OtherStreams, Zenon
<1>14. Credit(p, i)'
  <2>1. Credit(p, i) /\ SameOutput(p, i)
    BY <1>5, <1>6, <1>9, Zenon DEF SessionInv, SameStream
  <2>2. receivedBy(s, i) + 1 <= sentBy(p, i)
    BY <1>4, <1>7
  <2> QED BY <1>6, <1>7, <1>9, <2>1, <2>2, SMTT(20) DEF Credit, SameOutput, SameAcks
<1>15. Backlog(s, i)'
  <2>1. Backlog(s, i)
    BY <1>5, Zenon DEF SessionInv
  <2>2. /\ writtenBy(s, i)' <= gotBy(s, i)' /\ gotBy(s, i)' <= receivedBy(s, i)'
    BY <1>7, <1>9, <1>10, <2>1, SMTT(20) DEF Backlog, SameAcks
  <2>3. ASSUME writing(s, i)
        PROVE  /\ gotBy(s, i)' + Len(queueOf(s, i)') = receivedBy(s, i)'
               /\ EndBehindAll(queueOf(s, i)', receivedEnd(s, i)')
    <3>1. /\ gotBy(s, i) + Len(queueOf(s, i)) = receivedBy(s, i)
          /\ EndBehindAll(queueOf(s, i), receivedEnd(s, i))
      BY <1>4, <1>7, <2>1, <2>3, SMTT(20) DEF Backlog
    <3>2. c.n # 0
      BY <1>4, <1>7
    <3>3. receivedEnd(s, i) \in BOOLEAN /\ c.n \in Nat \ {0}
      BY <1>4, <1>7, <3>2, Zenon
    <3>4. EndBehindAll(x, receivedEnd(s, i)) /\ Len(x) = Len(queueOf(s, i)) + 1
      BY <1>4, <1>7, <3>1, <3>3, QueuePiece, Zenon DEF x
    <3>5. EndBehindAll(queueOf(s, i)', receivedEnd(s, i)')
      BY <1>9, <1>10, <3>4, Zenon
    <3>6. Len(queueOf(s, i)') = Len(queueOf(s, i)) + 1
      BY <1>10, <3>4, Zenon
    <3> QED BY <1>7, <1>9, <1>10, <3>1, <3>5, <3>6, SMTT(20)
  <2>4. ~receivedEnd(s, i)' /\ (writing(s, i)' => writing(s, i))
    BY <1>4, <1>9, <1>10, Zenon
  <2>5. receivedBy(s, i)' + (IF receivedEnd(s, i)' THEN 1 ELSE 0) = receivedBy(s, i)'
    BY <1>7, <1>9, <2>4
  <2> QED BY <2>2, <2>3, <2>4, <2>5, Zenon DEF Backlog
<1>16. ASSUME NEW d \in Cell, d.id = i, CellInv(s, d), Before(c, d)
       PROVE  Spared(s, d)
  <2>1. d.cmd = "Data" => c.n < d.n
    BY <1>1, <1>3, <1>16, Zenon DEF Before
  <2>2. d.n \in Nat
    BY Zenon DEF Cell
  <2>3. d.cmd = "Data" => receivedBy(s, i)' < d.n
    BY <1>4, <1>7, <1>9, <2>1, <2>2, SMTT(20)
  <2>4. SameAcks(p, i)
    BY <1>5, <1>6, <1>9, Zenon DEF SameStream
  <2> QED BY <1>9, <1>16, <2>3, <2>4, Zenon
          DEF Spared, CellInv, SameAcks, SameReady, SameOutput, p
<1>17. sentBy(s, i)' = sentBy(s, i) /\ sentEnd(s, i)' = sentEnd(s, i)
  BY <1>9, Zenon DEF SameOutput
<1> QED
  BY <1>1, <1>2, <1>5, <1>9, <1>11, <1>12, <1>13, <1>14, <1>15, <1>16, <1>17, FrameStep, Zenon DEF p

\* Receiving the end of a stream keeps the invariant (session.rs 546-552).
LEMMA EndInv ==
    ASSUME TypeOK, TypeOK', SessionInv, NEW s \in Side, End(s)
    PROVE  SessionInv'
<1> DEFINE p == Peer(s)
<1>1. PICK c, i : c = Head(link[s]) /\ i = c.id
  BY Zenon
<1>2. /\ link[s] # <<>> /\ link' = [link EXCEPT ![s] = Tail(@)] /\ controls' = controls
      /\ UNCHANGED <<live, closed, connecting, lastId>>
  BY Zenon DEF End, Accepts
<1>3. c \in Cell /\ CellInv(s, c) /\ c.cmd = "End"
  BY <1>1, <1>2, FrameInv, Zenon DEF End, Accepts
<1>4. ~receivedEnd(s, i) /\ sentEnd(p, i)
  BY <1>1, <1>3, Zenon DEF CellInv
<1> DEFINE x == Append(queueOf(s, i), 0)
<1>5. /\ i \in Ids /\ i \in live[s]
      /\ OnlyStream(s, i, WithReceivedEnd(stream[s][i]))
      /\ OnlyWorker(s, i, WithIncoming(worker[s][i], x))
  BY <1>1, EndEffect, Zenon DEF WithReceivedEnd, WithIncoming, queueOf
<1> HIDE DEF p, x
<1>6. p \in Side /\ Peer(p) = s /\ p # s
  BY Sides, Zenon DEF p
<1>7. /\ receivedBy(s, i) \in Nat /\ receivedEnd(s, i) \in BOOLEAN
      /\ writtenBy(s, i) \in Nat /\ gotBy(s, i) \in Nat
      /\ queueOf(s, i) \in Seq(Nat) /\ Len(queueOf(s, i)) \in Nat
  BY <1>5, <1>6, CountTypes, Zenon
<1>8. x \in Seq(Nat)
  BY <1>7 DEF x
<1>9. /\ SameOutput(s, i) /\ SameAcks(s, i) /\ SameReady(s, i)
      /\ receivedBy(s, i)' = receivedBy(s, i) /\ receivedEnd(s, i)' = TRUE
      /\ \A q \in Side, j \in Ids : q # s \/ j # i => SameStream(q, j)
  BY <1>5, ReceivedEndStep, Zenon
<1>10. /\ queueOf(s, i)' = x /\ gotBy(s, i)' = gotBy(s, i)
       /\ writing(s, i)' = writing(s, i)
       /\ \A q \in Side, j \in Ids : q # s \/ j # i => SameWorker(q, j)
  BY <1>5, <1>8, IncomingStep, Zenon
<1>11. \A q \in Side, j \in Ids : q # s \/ j # i =>
           stream'[q][j] = stream[q][j] /\ worker'[q][j] = worker[q][j]
  BY <1>5, Zenon DEF OnlyStream, OnlyWorker
<1>12. \A j \in Ids : ready("client", j)' => ready("client", j)
  BY <1>9, Zenon DEF SameStream, SameReady, Side
<1>13. Credit(s, i)'
  BY <1>5, <1>9, <1>10, OtherStreams, Zenon
<1>14. Credit(p, i)'
  <2>1. Credit(p, i) /\ SameOutput(p, i)
    BY <1>5, <1>6, <1>9, Zenon DEF SessionInv, SameStream
  <2> QED BY <1>4, <1>6, <1>9, <2>1, Zenon DEF Credit, SameOutput, SameAcks
<1>15. Backlog(s, i)'
  <2>1. Backlog(s, i)
    BY <1>5, Zenon DEF SessionInv
  <2>2. /\ writtenBy(s, i)' <= gotBy(s, i)' /\ gotBy(s, i)' <= receivedBy(s, i)'
    BY <1>7, <1>9, <1>10, <2>1, Zenon DEF Backlog, SameAcks
  <2>3. ASSUME writing(s, i)
        PROVE  /\ gotBy(s, i)' + Len(queueOf(s, i)') = receivedBy(s, i)' + 1
               /\ EndBehindAll(queueOf(s, i)', TRUE)
    <3>1. /\ gotBy(s, i) + Len(queueOf(s, i)) = receivedBy(s, i)
          /\ EndBehindAll(queueOf(s, i), receivedEnd(s, i))
      BY <1>4, <1>7, <2>1, <2>3, SMTT(20) DEF Backlog
    <3>2. EndBehindAll(x, TRUE) /\ Len(x) = Len(queueOf(s, i)) + 1
      BY <1>4, <1>7, <3>1, QueuePiece, Zenon DEF x
    <3>3. EndBehindAll(queueOf(s, i)', TRUE) /\ Len(queueOf(s, i)') = Len(queueOf(s, i)) + 1
      BY <1>10, <3>2, Zenon
    <3>4. gotBy(s, i)' = gotBy(s, i) /\ receivedBy(s, i)' = receivedBy(s, i)
      BY <1>9, <1>10, Zenon
    <3>5. Len(queueOf(s, i)') = Len(queueOf(s, i)) + 1
      BY <3>3, Zenon
    <3>6. gotBy(s, i) + Len(queueOf(s, i)) = receivedBy(s, i)
      BY <3>1, Zenon
    <3>7. gotBy(s, i)' + Len(queueOf(s, i)') = receivedBy(s, i)' + 1
      BY <1>7, <3>4, <3>5, <3>6
    <3> QED BY <3>3, <3>7, Zenon
  <2>4. receivedEnd(s, i)' = TRUE /\ (writing(s, i)' => writing(s, i))
    BY <1>9, <1>10, Zenon
  <2>5. receivedBy(s, i)' + (IF receivedEnd(s, i)' THEN 1 ELSE 0) = receivedBy(s, i)' + 1
    BY <2>4, Zenon
  <2> QED BY <2>2, <2>3, <2>4, <2>5, Zenon DEF Backlog
<1>16. ASSUME NEW d \in Cell, d.id = i, CellInv(s, d), Before(c, d)
       PROVE  Spared(s, d)
  <2>1. d.cmd \notin {"Data", "End"}
    BY <1>1, <1>3, <1>16, Zenon DEF Before
  <2>2. SameAcks(p, i)
    BY <1>5, <1>6, <1>9, Zenon DEF SameStream
  <2> QED BY <1>9, <1>16, <2>1, <2>2, Zenon
          DEF Spared, CellInv, SameAcks, SameReady, SameOutput, p
<1>17. sentBy(s, i)' = sentBy(s, i) /\ sentEnd(s, i)' = sentEnd(s, i)
  BY <1>9, Zenon DEF SameOutput
<1> QED
  BY <1>1, <1>2, <1>5, <1>9, <1>11, <1>12, <1>13, <1>14, <1>15, <1>16, <1>17, FrameStep, Zenon DEF p

\* Receiving an acknowledgement keeps the invariant (session.rs 545).
LEMMA AckInv ==
    ASSUME TypeOK, TypeOK', SessionInv, NEW s \in Side, DataAck(s)
    PROVE  SessionInv'
<1> DEFINE p == Peer(s)
<1>1. PICK c, i : c = Head(link[s]) /\ i = c.id
  BY Zenon
<1>2. /\ link[s] # <<>> /\ link' = [link EXCEPT ![s] = Tail(@)] /\ controls' = controls
      /\ UNCHANGED <<live, closed, connecting, lastId>> /\ worker' = worker
  BY Zenon DEF DataAck, Accepts
<1>3. c \in Cell /\ CellInv(s, c) /\ c.cmd = "DataAck"
  BY <1>1, <1>2, FrameInv, Zenon DEF DataAck, Accepts
<1>4. /\ c.n \in Nat /\ ackedTo(s, i) < c.n /\ c.n <= writtenBy(p, i)
      /\ pendingAck(p, i) # 0 => c.n < writtenBy(p, i)
  BY <1>1, <1>3, Zenon DEF CellInv, Cell
<1> DEFINE w == Acknowledge(stream[s][i].window, c.n)
<1>5. /\ i \in Ids /\ i \in live[s]
      /\ OnlyStream(s, i, WithCredit(stream[s][i], w))
  BY <1>1, AckEffect, Zenon DEF WithCredit
<1>6. p \in Side /\ Peer(p) = s /\ p # s
  BY Sides, Zenon
<1>7. w \in Window /\ w.sent = sentBy(s, i) /\ w.acknowledged = c.n
  <2>1. stream[s][i].window \in Window
    BY <1>5, RecordTypes, Zenon
  <2> QED BY <1>4, <2>1, Zenon DEF Acknowledge, Window, sentBy
<1> HIDE DEF p, w
<1>8. /\ sentBy(s, i) \in Nat /\ ackedTo(s, i) \in Nat /\ writtenBy(p, i) \in Nat
  BY <1>5, <1>6, CountTypes, Zenon
<1>9. /\ sentBy(s, i)' = w.sent /\ ackedTo(s, i)' = w.acknowledged
      /\ sentEnd(s, i)' = sentEnd(s, i) /\ SameInput(s, i) /\ SameAcks(s, i) /\ SameReady(s, i)
      /\ \A q \in Side, j \in Ids : q # s \/ j # i => SameStream(q, j)
  BY <1>5, <1>7, CreditStep
<1>10. \A q \in Side, j \in Ids : SameWorker(q, j)
  BY <1>2, WorkerKept, Zenon
<1>11. \A q \in Side, j \in Ids : q # s \/ j # i =>
           stream'[q][j] = stream[q][j] /\ worker'[q][j] = worker[q][j]
  BY <1>2, <1>5, Zenon DEF OnlyStream
<1>12. \A j \in Ids : ready("client", j)' => ready("client", j)
  BY <1>9, Zenon DEF SameStream, SameReady, Side
<1>13. Credit(p, i)' /\ Backlog(s, i)'
  BY <1>5, <1>9, <1>10, OtherStreams, Zenon DEF p
<1>14. Credit(s, i)'
  <2>1. Credit(s, i) /\ SameInput(p, i) /\ SameAcks(p, i)
    BY <1>5, <1>6, <1>9, Zenon DEF SessionInv, SameStream
  <2>2. sentBy(s, i) <= c.n + WINDOW_CELLS
    BY <1>4, <1>8, <2>1, WindowAssumption DEF Credit
  <2> QED BY <1>4, <1>7, <1>8, <1>9, <2>1, <2>2, Zenon DEF Credit, SameInput, SameAcks, p
<1>16. ASSUME NEW d \in Cell, d.id = i, CellInv(s, d), Before(c, d)
       PROVE  Spared(s, d)
  <2>1. d.cmd = "DataAck" => c.n < d.n
    BY <1>1, <1>3, <1>16, Zenon DEF Before
  <2>2. SameAcks(p, i)
    BY <1>5, <1>6, <1>9, Zenon DEF SameStream
  <2> QED BY <1>7, <1>9, <1>16, <2>1, <2>2, Zenon
          DEF Spared, CellInv, SameAcks, SameReady, SameInput, p
<1>17. sentBy(s, i)' = sentBy(s, i)
  BY <1>7, <1>9, Zenon
<1> QED
  BY <1>1, <1>2, <1>5, <1>9, <1>11, <1>12, <1>13, <1>14, <1>16, <1>17, FrameStep, Zenon DEF p

\* A side queues a neutral cell: what is on its way to the peer stays in
\* order.
LEMMA PushNeutral ==
    ASSUME TypeOK, SessionInv, NEW s \in Side, link'[Peer(s)] = link[Peer(s)],
           NEW r \in Cell, Neutral(r), controls'[s] = Append(controls[s], r)
    PROVE  OrderInv(Peer(s))' /\ \A c \in OnWay(Peer(s))' : c \in OnWay(Peer(s)) \/ Neutral(c)
<1>1. Peer(s) \in Side /\ Peer(Peer(s)) = s
  BY Sides, Zenon
<1>2. r.cmd \notin {"Data", "DataAck", "End"} /\ \A d \in OnWay(Peer(s)) : Before(d, r)
  BY NeutralCells, Zenon DEF Neutral
<1>3. OrderInv(Peer(s))
  BY <1>1, Zenon DEF SessionInv
<1>4. OrderInv(Peer(s))' /\ OnWay(Peer(s))' = OnWay(Peer(s)) \cup {r}
  BY <1>1, <1>2, <1>3, PushQueue, Zenon
<1> QED BY <1>4, Zenon

\* Closing a stream keeps it known.
LEMMA CloseKnown ==
    ASSUME TypeOK, IdInv, NEW s \in Side, NEW i \in Ids, Close(s, i)
    PROVE  /\ Known(s)' = Known(s) \cup {i} /\ Known(Peer(s))' = Known(Peer(s))
           /\ \A p \in Side : live'[p] \cap closed'[p] = {}
           /\ \A p \in Side : Known(p) \subseteq Known(p)'
<1>1. /\ live'[s] = live[s] \ {i} /\ closed'[s] = closed[s] \cup {i}
      /\ live'[Peer(s)] = live[Peer(s)] /\ closed'[Peer(s)] = closed[Peer(s)]
  BY Sides, Zenon DEF TypeOK, Close
<1>2. Known(s)' = Known(s) \cup {i} /\ Known(Peer(s))' = Known(Peer(s))
  BY <1>1, Zenon DEF Known
<1>3. \A p \in Side : live'[p] \cap closed'[p] = {}
  BY <1>1, Sides DEF IdInv
<1>4. \A p \in Side : Known(p) \subseteq Known(p)'
  BY <1>2, Sides, Zenon
<1> QED BY <1>2, <1>3, <1>4, Zenon

\* Closing and resetting a failed stream keeps the invariant (session.rs
\* 500-502).
LEMMA FailedInv ==
    ASSUME TypeOK, TypeOK', SessionInv, NEW s \in Side, NEW i \in Ids, FailedEvent(s, i)
    PROVE  SessionInv'
<1>1. /\ i \in live[s] /\ Close(s, i) /\ controls' = [controls EXCEPT ![s] = Append(@, Control("SessionReset", i))]
      /\ stream' = stream /\ worker' = worker /\ connecting' = connecting /\ lastId' = lastId
      /\ link' = link
  BY Zenon DEF FailedEvent, Push
<1>2. IdInv /\ Peer(s) \in Side
  BY Sides, Zenon DEF SessionInv
<1>3. /\ \A p \in Side : Known(p)' = Known(p)
      /\ \A p \in Side : live'[p] \cap closed'[p] = {}
  <2>1. Known(s)' = Known(s) /\ Known(Peer(s))' = Known(Peer(s))
    BY <1>1, <1>2, CloseKnown DEF Known
  <2> QED BY <1>1, <1>2, <2>1, CloseKnown, Sides, Zenon
<1>4. \A p \in Side, j \in Ids : SameStream(p, j) /\ SameWorker(p, j)
  BY <1>1, StreamsKept, Zenon
<1>5. IdInv'
  <2>1. \A j \in Ids : ready("client", j)' => ready("client", j)
    BY <1>4, Zenon DEF SameStream, SameReady, Side
  <2> QED BY <1>1, <1>2, <1>3, <2>1, IdKept, Zenon
<1>6. Grows
  BY <1>1, <1>3, <1>4, LastIdTypes, QuietGrows, SMTT(20)
<1>7. controls'[s] = Append(controls[s], Control("SessionReset", i))
      /\ controls'[Peer(s)] = controls[Peer(s)]
  BY <1>1, Sides, SMTT(20) DEF TypeOK
<1>8. OrderInv(Peer(s))' /\ \A c \in OnWay(Peer(s))' : c \in OnWay(Peer(s)) \/ Neutral(c)
  BY <1>1, <1>7, ResetCell, PushNeutral, Zenon
<1>9. OrderInv(s)' /\ OnWay(s)' = OnWay(s)
  BY <1>1, <1>7, SameQueue, Zenon DEF SessionInv
<1>10. /\ \A q \in Side : OrderInv(q)'
       /\ \A q \in Side : \A c \in OnWay(q)' : c \in OnWay(q) \/ CellInv(q, c)'
  BY <1>8, <1>9, Sides, NeutralKept, SMTT(20)
<1> QED BY <1>4, <1>5, <1>6, <1>10, QuietStep, Zenon

\* Closing a refused stream keeps the invariant (session.rs 532-537).
LEMMA RefusedInv ==
    ASSUME TypeOK, TypeOK', SessionInv, SessionRefused
    PROVE  SessionInv'
<1>1. PICK i : i = Head(link["client"]).id
  BY Zenon
<1>2. /\ "client" \in Side /\ "exit" \in Side /\ Peer("client") = "exit"
  BY Zenon DEF Side, Peer
<1>3. /\ Close("client", i) /\ controls' = controls /\ stream' = stream /\ worker' = worker
      /\ connecting' = connecting /\ lastId' = lastId
      /\ link["client"] # <<>> /\ link' = [link EXCEPT !["client"] = Tail(@)]
  BY <1>1, Zenon DEF SessionRefused, Accepts
<1>4. i \in live["client"] /\ i \in Ids
  BY <1>1, <1>2, AcceptedLive, Zenon DEF SessionRefused, Accepts, StreamCells
<1>5. IdInv
  BY Zenon DEF SessionInv
<1>6. /\ \A p \in Side : Known(p)' = Known(p)
      /\ \A p \in Side : live'[p] \cap closed'[p] = {}
  <2>1. Known("client")' = Known("client") /\ Known("exit")' = Known("exit")
    BY <1>2, <1>3, <1>4, <1>5, CloseKnown, SMTT(20) DEF Known
  <2> QED BY <1>2, <1>3, <1>4, <1>5, <2>1, CloseKnown, Zenon DEF Side
<1>7. \A p \in Side, j \in Ids : SameStream(p, j) /\ SameWorker(p, j)
  BY <1>3, StreamsKept, Zenon
<1>8. IdInv'
  <2>1. \A j \in Ids : ready("client", j)' => ready("client", j)
    BY <1>7, Zenon DEF SameStream, SameReady, Side
  <2> QED BY <1>3, <1>5, <1>6, <2>1, IdKept, Zenon
<1>9. Grows
  BY <1>3, <1>6, <1>7, LastIdTypes, QuietGrows, SMTT(20)
<1>10. /\ \A p \in Side : OrderInv(p)'
       /\ \A p \in Side : \A c \in OnWay(p)' : c \in OnWay(p)
  BY <1>2, <1>3, FrameInv, Zenon
<1> QED BY <1>7, <1>8, <1>9, <1>10, QuietStep, Zenon

\* Closing a stream, or a connection attempt, that the peer has reset keeps
\* the invariant (session.rs 553-556).
LEMMA ResetInv ==
    ASSUME TypeOK, TypeOK', SessionInv, NEW s \in Side, SessionReset(s)
    PROVE  SessionInv'
<1>1. PICK i : i = Head(link[s]).id
  BY Zenon
<1>2. "client" \in Side /\ "exit" \in Side /\ Peer(s) \in Side
  BY Sides, Zenon DEF Side
<1>3. /\ Close(s, i) /\ controls' = controls /\ stream' = stream /\ worker' = worker
      /\ connecting' = (IF s = "exit" THEN connecting \ {i} ELSE connecting) /\ lastId' = lastId
      /\ link[s] # <<>> /\ link' = [link EXCEPT ![s] = Tail(@)]
  BY <1>1, Zenon DEF SessionReset, Accepts
<1>4. i \in Ids /\ i \in 1..lastId[s]
  <2>1. Head(link[s]) \in Cell
    BY <1>3, HeadType, Zenon
  <2>2. i \in 0..MAX_IDS
    BY <1>1, <2>1, Zenon DEF Cell
  <2>3. Verdict(s, Head(link[s])) = "ok" /\ Head(link[s]).cmd = "SessionReset"
    BY Zenon DEF SessionReset, Accepts
  <2>4. Allowed(s, Head(link[s]))
    BY <2>3, Zenon DEF Verdict, StreamCells
  <2>5. i > 0 /\ i <= lastId[s]
    BY <1>1, <2>3, <2>4, Zenon DEF Allowed
  <2>6. lastId[s] \in 0..MAX_IDS
    BY Zenon DEF TypeOK
  <2> QED BY <2>2, <2>5, <2>6, SessionAssumption, SMTT(20) DEF Ids
<1>5. IdInv
  BY Zenon DEF SessionInv
<1>6. /\ Known(s)' = Known(s) \cup {i} /\ Known(Peer(s))' = Known(Peer(s))
      /\ \A p \in Side : live'[p] \cap closed'[p] = {}
      /\ \A p \in Side : Known(p) \subseteq Known(p)'
  BY <1>3, <1>4, <1>5, CloseKnown, Zenon
<1>7. \A p \in Side, j \in Ids : SameStream(p, j) /\ SameWorker(p, j)
  BY <1>3, StreamsKept, Zenon
<1>8. IdInv'
  <2>1. \A p \in Side : Known(p)' \subseteq 1..lastId'[p]
    <3>1. Known(s)' \subseteq 1..lastId[s]
      BY <1>4, <1>5, <1>6, Zenon DEF IdInv
    <3>2. Known(Peer(s))' \subseteq 1..lastId[Peer(s)]
      BY <1>2, <1>5, <1>6, Zenon DEF IdInv
    <3> QED BY <1>3, <3>1, <3>2, Sides, Zenon
  <2>2. (1..lastId["client"] \subseteq Known("client"))'
    BY <1>2, <1>3, <1>5, <1>6, Zenon DEF IdInv
  <2>3. connecting' \subseteq (1..lastId'["exit"]) \ Known("exit")'
    <3>1. CASE s = "exit"
      BY <1>3, <1>5, <1>6, <3>1, Zenon DEF IdInv
    <3>2. CASE s = "client"
      BY <1>3, <1>5, <1>6, <3>2, Zenon DEF IdInv, Peer
    <3> QED BY <3>1, <3>2, Zenon DEF Side
  <2>4. ASSUME NEW p \in Side, NEW j \in Ids, j \notin Known(p)' PROVE Fresh(p, j)'
    <3>1. Fresh(p, j)
      BY <1>5, <1>6, <2>4, Zenon DEF IdInv
    <3> QED BY <1>3, <3>1, Zenon DEF Fresh
  <2>5. \A j \in Ids : ready("client", j)' => j \in Known("exit")'
    BY <1>2, <1>5, <1>6, <1>7, Zenon DEF IdInv, SameStream, SameReady
  <2> QED BY <1>3, <1>5, <1>6, <2>1, <2>2, <2>3, <2>4, <2>5, Zenon DEF IdInv
<1>9. Grows
  BY <1>3, <1>6, <1>7, LastIdTypes, QuietGrows, SMTT(20)
<1>10. /\ \A p \in Side : OrderInv(p)'
       /\ \A p \in Side : \A c \in OnWay(p)' : c \in OnWay(p)
  BY <1>3, FrameInv, Zenon
<1> QED BY <1>7, <1>8, <1>9, <1>10, QuietStep, Zenon

\* Handing an opened stream over, or resetting it when its opener has given
\* up, keeps the invariant (session.rs 524-531).
LEMMA OpenedInv ==
    ASSUME TypeOK, TypeOK', SessionInv, SessionOpened
    PROVE  SessionInv'
<1>1. PICK c, i : c = Head(link["client"]) /\ i = c.id
  BY Zenon
<1>2. /\ "client" \in Side /\ "exit" \in Side /\ Peer("client") = "exit" /\ Peer("exit") = "client"
  BY Zenon DEF Side, Peer
<1>3. /\ worker' = worker /\ connecting' = connecting /\ lastId' = lastId
      /\ link["client"] # <<>> /\ link'["client"] = Tail(link["client"])
      /\ link'["exit"] = link["exit"] /\ c.cmd = "SessionOpened"
  BY <1>1, <1>2, Zenon DEF SessionOpened, Accepts, TypeOK
<1>4. /\ i \in Ids /\ i \in live["client"]
      /\ OnlyStream("client", i, WithReady(stream["client"][i]))
  BY <1>1, OpenedEffect, Zenon DEF WithReady
<1>5. \/ UNCHANGED <<live, closed, controls>>
      \/ Close("client", i) /\ Push("client", Control("SessionReset", i))
  BY <1>1, Zenon DEF SessionOpened
<1>6. IdInv /\ OrderInv("client") /\ OrderInv("exit")
  BY <1>2, Zenon DEF SessionInv
<1>7. /\ \A p \in Side : Known(p)' = Known(p)
      /\ \A p \in Side : live'[p] \cap closed'[p] = {}
  <2>1. CASE UNCHANGED <<live, closed, controls>>
    BY <1>6, <2>1, Zenon DEF Known, IdInv
  <2>2. CASE Close("client", i)
    <3>1. Known("client")' = Known("client") /\ Known("exit")' = Known("exit")
      BY <1>2, <1>4, <1>6, <2>2, CloseKnown, SMTT(20) DEF Known
    <3> QED BY <1>2, <1>4, <1>6, <2>2, <3>1, CloseKnown, Zenon DEF Side
  <2> QED BY <1>5, <2>1, <2>2, Zenon
<1>8. controls'["exit"] = controls["exit"]
  BY <1>2, <1>5, Zenon DEF Push, TypeOK
<1>9. /\ OrderInv("client")' /\ c \in OnWay("client")
      /\ \A d \in OnWay("client")' : d \in OnWay("client") /\ Before(c, d)
  BY <1>1, <1>2, <1>3, <1>6, <1>8, TakeQueue, Zenon
<1>10. /\ OrderInv("exit")' /\ \A d \in OnWay("exit")' : d \in OnWay("exit") \/ Neutral(d)
  <2>1. CASE controls' = controls
    BY <1>2, <1>3, <1>6, <2>1, SameQueue, Zenon
  <2>2. CASE Push("client", Control("SessionReset", i))
    <3>1. controls'["client"] = Append(controls["client"], Control("SessionReset", i))
      BY <1>2, <2>2, Zenon DEF Push, TypeOK
    <3> QED BY <1>2, <1>3, <1>4, <3>1, PushNeutral, ResetCell, Zenon
  <2> QED BY <1>5, <2>1, <2>2, Zenon
<1>11. i \in Known("exit")
  BY <1>1, <1>2, <1>3, <1>9, Zenon DEF SessionInv, CellsInv, CellInv
<1>12. /\ SameOutput("client", i) /\ SameInput("client", i) /\ SameAcks("client", i)
       /\ \A q \in Side, j \in Ids : q # "client" \/ j # i => SameStream(q, j)
  BY <1>2, <1>4, ReadyStep, Zenon
<1>13. \A q \in Side, j \in Ids : SameWorker(q, j)
  BY <1>3, WorkerKept, Zenon
<1>14. IdInv'
  <2>1. \A q \in Side, j \in Ids : j \notin Known(q) =>
            stream'[q][j] = stream[q][j] /\ worker'[q][j] = worker[q][j]
    BY <1>3, <1>4, Zenon DEF OnlyStream, Known
  <2>2. \A j \in Ids : ready("client", j)' => ready("client", j) \/ j \in Known("exit")
    BY <1>2, <1>11, <1>12, Zenon DEF SameStream, SameReady
  <2> QED BY <1>3, <1>6, <1>7, <2>1, <2>2, IdKept, Zenon
<1>15. Credit("client", i)' /\ Credit("exit", i)' /\ Backlog("client", i)'
  BY <1>2, <1>4, <1>12, <1>13, OtherStreams, Zenon
<1>16. sentBy("client", i) <= sentBy("client", i)' /\ writtenBy("client", i) <= writtenBy("client", i)'
       /\ (sentEnd("client", i) => sentEnd("client", i)')
  <2>1. sentBy("client", i) \in Nat /\ writtenBy("client", i) \in Nat
    BY <1>2, <1>4, CountTypes, Zenon
  <2> QED BY <1>12, <2>1 DEF SameOutput, SameAcks
<1>17. ASSUME NEW d \in OnWay("client")', d.id = i PROVE Spared("client", d)
  <2>1. CellInv("client", d) /\ d.cmd \notin Answer
    BY <1>1, <1>2, <1>3, <1>9, <1>17, Zenon DEF SessionInv, CellsInv, Before, Answer
  <2>2. SameAcks("exit", i)
    BY <1>2, <1>4, <1>12, Zenon DEF SameStream
  <2> QED BY <1>2, <1>12, <1>17, <2>1, <2>2, Zenon DEF Spared, CellInv, SameOutput, SameInput, SameAcks
<1>18. \A d \in OnWay("exit") : Spared("exit", d)
  BY <1>2, <1>4, <1>12, <1>13, OtherStreams, SMTT(20)
<1>19. \A q \in Side : OrderInv(q)'
  BY <1>9, <1>10, Zenon DEF Side
<1>20. \A q \in Side : \A d \in OnWay(q)' :
           (d \in OnWay(q) /\ (d.id = i => Spared(q, d))) \/ CellInv(q, d)'
  <2>1. \A d \in OnWay("exit")' : (d \in OnWay("exit") /\ Spared("exit", d)) \/ CellInv("exit", d)'
    BY <1>10, <1>18, NeutralKept, Zenon
  <2> QED BY <1>9, <1>17, <2>1, Zenon DEF Side
<1>21. \A q \in Side : Known(q) \subseteq Known(q)'
  BY <1>7, Zenon
<1> QED BY <1>2, <1>3, <1>4, <1>12, <1>13, <1>14, <1>15, <1>16, <1>19, <1>20, <1>21, OneStream, SMTT(20)

\* The exit may answer identifier i if nothing has answered it yet.
LEMMA PushAnswer ==
    ASSUME TypeOK, SessionInv, NEW i \in Ids, NEW cmd \in Answer,
           link'["client"] = link["client"],
           controls'["exit"] = Append(controls["exit"], Control(cmd, i)),
           \A d \in OnWay("client") : d.cmd \in Answer => d.id # i
    PROVE  OrderInv("client")' /\ OnWay("client")' = OnWay("client") \cup {Control(cmd, i)}
<1>1. "client" \in Side /\ Peer("client") = "exit" /\ OrderInv("client")
  BY Zenon DEF Side, Peer, SessionInv
<1>2. Control(cmd, i) \in Cell
  BY ControlType, IdsType, Zenon DEF Answer, Commands, StreamCells
<1>3. PICK c \in Cell : c = Control(cmd, i)
  BY <1>2, Zenon
<1>4. c.cmd \in Answer /\ c.id = i
  BY <1>3, ControlFields
<1>5. c.cmd \notin {"Data", "DataAck", "End"}
  BY <1>4, Zenon DEF Answer
<1>6. \A d \in OnWay("client") : Before(d, c)
  BY <1>4, <1>5, Zenon DEF Before
<1> QED BY <1>1, <1>3, <1>5, <1>6, PushQueue, Zenon

\* Starting or refusing a connection keeps the invariant (session.rs
\* 514-523).
LEMMA OpenInv ==
    ASSUME TypeOK, TypeOK', SessionInv, SessionOpen
    PROVE  SessionInv'
<1>1. PICK c, i : c = Head(link["exit"]) /\ i = c.id
  BY Zenon
<1>2. /\ "client" \in Side /\ "exit" \in Side /\ Peer("client") = "exit" /\ Peer("exit") = "client"
  BY Zenon DEF Side, Peer
<1>3. /\ stream' = stream /\ worker' = worker /\ live' = live /\ closed' = closed
      /\ lastId' = [lastId EXCEPT !["exit"] = i]
      /\ link["exit"] # <<>> /\ link' = [link EXCEPT !["exit"] = Tail(@)]
      /\ c.cmd = "SessionOpen"
  BY <1>1, Zenon DEF SessionOpen, Accepts
<1>4. /\ lastId'["exit"] = i /\ lastId'["client"] = lastId["client"]
      /\ link'["exit"] = Tail(link["exit"]) /\ link'["client"] = link["client"]
  BY <1>2, <1>3, SMTT(20) DEF TypeOK
<1>5. \/ Push("exit", Control("SessionRefused", i)) /\ connecting' = connecting
      \/ controls' = controls /\ connecting' = connecting \cup {i}
  BY <1>1, Zenon DEF SessionOpen
<1>6. i \in Ids /\ i > lastId["exit"]
  BY <1>1, OpenId, Zenon DEF SessionOpen
<1>7. IdInv /\ OrderInv("exit") /\ OrderInv("client")
  BY <1>2, Zenon DEF SessionInv
<1>8. controls'["client"] = controls["client"]
  BY <1>2, <1>5, Zenon DEF Push, TypeOK
<1>9. /\ OrderInv("exit")' /\ c \in OnWay("exit")
      /\ \A d \in OnWay("exit")' : d \in OnWay("exit")
  BY <1>1, <1>2, <1>3, <1>4, <1>7, <1>8, TakeQueue, Zenon
<1>10. i <= lastId["client"]
  BY <1>1, <1>2, <1>3, <1>9, Zenon DEF SessionInv, CellsInv, CellInv
<1>11. lastId["exit"] \in Nat /\ lastId["client"] \in Nat /\ i \in Nat \ {0}
  BY <1>6, LastIdTypes DEF Ids
<1>12. /\ i \notin Known("exit") /\ i \in Known("client") /\ i \notin connecting
       /\ ~ready("client", i)
  BY <1>2, <1>6, <1>7, <1>10, <1>11, SMTT(20) DEF IdInv
<1>13. \A p \in Side : Known(p)' = Known(p)
  BY <1>3, Zenon DEF Known
<1>14. \A p \in Side, j \in Ids : SameStream(p, j) /\ SameWorker(p, j)
  BY <1>3, StreamsKept, Zenon
<1>15. connecting' \subseteq connecting \cup {i}
  BY <1>5, Zenon
<1>16. IdInv'
  <2>1. \A p \in Side : Known(p)' \subseteq 1..lastId'[p] /\ live'[p] \cap closed'[p] = {}
    <3>1. Known("exit")' \subseteq 1..i
      BY <1>2, <1>6, <1>7, <1>11, <1>13, SMTT(20) DEF IdInv
    <3>2. Known("client")' \subseteq 1..lastId["client"]
      BY <1>2, <1>7, <1>13, Zenon DEF IdInv
    <3> QED BY <1>3, <1>4, <1>7, <3>1, <3>2, Zenon DEF IdInv, Side
  <2>2. 1..lastId'["client"] \subseteq Known("client")'
    BY <1>2, <1>4, <1>7, <1>13, Zenon DEF IdInv
  <2>3. lastId'["exit"] <= lastId'["client"]
    BY <1>4, <1>10, Zenon
  <2>4. connecting' \subseteq (1..lastId'["exit"]) \ Known("exit")'
    BY <1>2, <1>4, <1>6, <1>7, <1>11, <1>12, <1>13, <1>15, SMTT(20) DEF IdInv
  <2>5. \A p \in Side, j \in Ids : j \notin Known(p)' => Fresh(p, j)'
    BY <1>3, <1>7, <1>13, SMTT(20) DEF IdInv, Fresh
  <2>6. \A j \in Ids : ready("client", j)' => j \in Known("exit")'
    BY <1>2, <1>7, <1>13, <1>14, Zenon DEF IdInv, SameStream, SameReady
  <2> QED BY <2>1, <2>2, <2>3, <2>4, <2>5, <2>6, Zenon DEF IdInv
<1>17. Grows
  <2>1. \A j \in connecting' : j \in connecting \/ j > lastId["exit"]
    BY <1>6, <1>15, Zenon
  <2>2. lastId["client"] <= lastId'["client"] /\ lastId["exit"] <= lastId'["exit"]
    BY <1>4, <1>6, <1>11
  <2> QED BY <1>13, <1>14, <2>1, <2>2, QuietGrows, Zenon
<1>18. /\ OrderInv("client")'
       /\ \A d \in OnWay("client")' : d \in OnWay("client") \/ CellInv("client", d)'
  <2>1. CASE controls' = controls
    BY <1>2, <1>4, <1>7, <2>1, SameQueue, Zenon
  <2>2. CASE Push("exit", Control("SessionRefused", i)) /\ connecting' = connecting
    <3>1. controls'["exit"] = Append(controls["exit"], Control("SessionRefused", i))
      BY <1>2, <2>2, Zenon DEF Push, TypeOK
    <3>2. ASSUME NEW d \in OnWay("client"), d.cmd \in Answer PROVE d.id # i
      <4>1. d.id <= lastId["exit"]
        BY <1>2, <3>2, Zenon DEF SessionInv, CellsInv, CellInv
      <4> QED BY <1>6, <1>11, <4>1, SMTT(20)
    <3>3. "SessionRefused" \in Answer
      BY Zenon DEF Answer
    <3>4. OrderInv("client")' /\ OnWay("client")' = OnWay("client") \cup {Control("SessionRefused", i)}
      BY <1>4, <1>6, <3>1, <3>2, <3>3, PushAnswer, Zenon
    <3>5. PICK d : d = Control("SessionRefused", i)
      BY Zenon
    <3>6. d.cmd = "SessionRefused" /\ d.id = i
      BY <3>5, ControlFields, Zenon
    <3>7. i \in Known("client")' /\ ~ready("client", i)' /\ i <= lastId'["exit"] /\ i \notin connecting'
      BY <1>2, <1>4, <1>6, <1>11, <1>12, <1>13, <1>14, <2>2, SMTT(20) DEF SameStream, SameReady
    <3>8. CellInv("client", d)'
      BY <3>6, <3>7, Zenon DEF CellInv, Answer
    <3> QED BY <3>4, <3>5, <3>8, Zenon
  <2> QED BY <1>5, <2>1, <2>2, Zenon
<1>19. /\ \A p \in Side : OrderInv(p)'
       /\ \A p \in Side : \A d \in OnWay(p)' : d \in OnWay(p) \/ CellInv(p, d)'
  BY <1>9, <1>18, Zenon DEF Side
<1> QED BY <1>14, <1>16, <1>17, <1>19, QuietStep, Zenon

\* Attaching an identifier that is still fresh changes no record.
LEMMA AttachFresh ==
    ASSUME TypeOK, IdInv, NEW s \in Side, NEW i \in Ids, i \notin Known(s),
           stream' = [stream EXCEPT ![s][i] = NewStream(s = "exit")],
           worker' = [worker EXCEPT ![s][i] = NewWorker]
    PROVE  /\ \A p \in Side, j \in Ids : stream'[p][j] = stream[p][j] /\ worker'[p][j] = worker[p][j]
           /\ \A p \in Side, j \in Ids : SameStream(p, j) /\ SameWorker(p, j)
<1>1. stream[s][i] = NewStream(s = "exit") /\ worker[s][i] = NewWorker
  BY Zenon DEF IdInv, Fresh
<1>2. \A p \in Side, j \in Ids : stream'[p][j] = stream[p][j] /\ worker'[p][j] = worker[p][j]
  <2>1. stream[s][i] \in Stream /\ worker[s][i] \in Worker
    BY RecordTypes, Zenon
  <2>2. OnlyStream(s, i, stream[s][i]) /\ OnlyWorker(s, i, worker[s][i])
    BY <1>1, <2>1, UpdateStream, UpdateWorker, Zenon
  <2> QED BY <2>2, Zenon DEF OnlyStream, OnlyWorker
<1> QED BY <1>2, StreamKept, WorkerKept

\* Opening a stream at the client keeps the invariant (session.rs 467-484).
LEMMA OpenRequestInv ==
    ASSUME TypeOK, TypeOK', SessionInv, OpenRequest
    PROVE  SessionInv'
<1>1. PICK i : i = lastId["client"] + 1
  BY Zenon
<1>2. /\ "client" \in Side /\ "exit" \in Side /\ Peer("client") = "exit" /\ Peer("exit") = "client"
  BY Zenon DEF Side, Peer
<1>3. /\ lastId["client"] < MAX_IDS
      /\ lastId' = [lastId EXCEPT !["client"] = i]
      /\ live' = [live EXCEPT !["client"] = @ \cup {i}]
      /\ stream' = [stream EXCEPT !["client"][i] = NewStream(FALSE)]
      /\ worker' = [worker EXCEPT !["client"][i] = NewWorker]
      /\ Push("client", Control("SessionOpen", i))
      /\ closed' = closed /\ connecting' = connecting /\ link' = link
  BY <1>1, Zenon DEF OpenRequest, MayOpen
<1>4. IdInv /\ OrderInv("exit") /\ OrderInv("client")
  BY <1>2, Zenon DEF SessionInv
<1>5. lastId["client"] \in Nat /\ lastId["exit"] \in Nat
  BY LastIdTypes, Zenon
<1>6. i \in Ids /\ i \in Nat \ {0} /\ i > lastId["client"]
  BY <1>1, <1>3, <1>5, SessionAssumption, SMTT(20) DEF Ids
<1>7. i \notin Known("client")
  BY <1>2, <1>4, <1>5, <1>6, SMTT(20) DEF IdInv
<1>8. /\ \A p \in Side, j \in Ids : stream'[p][j] = stream[p][j] /\ worker'[p][j] = worker[p][j]
      /\ \A p \in Side, j \in Ids : SameStream(p, j) /\ SameWorker(p, j)
  <2>1. NewStream("client" = "exit") = NewStream(FALSE)
    BY Zenon DEF NewStream
  <2> QED BY <1>2, <1>3, <1>4, <1>6, <1>7, <2>1, AttachFresh, Zenon
<1>9. /\ lastId'["client"] = i /\ lastId'["exit"] = lastId["exit"]
      /\ controls'["client"] = Append(controls["client"], Control("SessionOpen", i))
      /\ controls'["exit"] = controls["exit"]
      /\ live'["client"] = live["client"] \cup {i} /\ live'["exit"] = live["exit"]
  BY <1>2, <1>3, SMTT(20) DEF TypeOK, Push
<1>10. Known("client")' = Known("client") \cup {i} /\ Known("exit")' = Known("exit")
  BY <1>3, <1>9, Zenon DEF Known
<1>11. IdInv'
  <2>1. \A p \in Side : Known(p)' \subseteq 1..lastId'[p] /\ live'[p] \cap closed'[p] = {}
    <3>1. Known("client")' \subseteq 1..i /\ live'["client"] \cap closed'["client"] = {}
      BY <1>2, <1>3, <1>4, <1>5, <1>6, <1>7, <1>9, <1>10, SMTT(20) DEF IdInv, Known
    <3>2. Known("exit")' \subseteq 1..lastId["exit"] /\ live'["exit"] \cap closed'["exit"] = {}
      BY <1>2, <1>3, <1>4, <1>9, <1>10, Zenon DEF IdInv
    <3> QED BY <1>9, <3>1, <3>2, Zenon DEF Side
  <2>2. 1..lastId'["client"] \subseteq Known("client")'
    BY <1>1, <1>4, <1>5, <1>9, <1>10, SMTT(20) DEF IdInv
  <2>3. lastId'["exit"] <= lastId'["client"]
    BY <1>1, <1>4, <1>5, <1>9, SMTT(20) DEF IdInv
  <2>4. connecting' \subseteq (1..lastId'["exit"]) \ Known("exit")'
    BY <1>3, <1>4, <1>9, <1>10, Zenon DEF IdInv
  <2>5. ASSUME NEW p \in Side, NEW j \in Ids, j \notin Known(p)' PROVE Fresh(p, j)'
    <3>1. Fresh(p, j)
      BY <1>4, <1>10, <2>5, Zenon DEF IdInv, Side
    <3> QED BY <1>8, <3>1, Zenon DEF Fresh
  <2>6. \A j \in Ids : ready("client", j)' => j \in Known("exit")'
    BY <1>2, <1>4, <1>8, <1>10, Zenon DEF IdInv, SameStream, SameReady
  <2> QED BY <2>1, <2>2, <2>3, <2>4, <2>5, <2>6, Zenon DEF IdInv
<1>12. Grows
  <2>1. \A p \in Side : Known(p) \subseteq Known(p)'
    BY <1>10, Zenon DEF Side
  <2>2. lastId["client"] <= lastId'["client"] /\ lastId["exit"] <= lastId'["exit"]
    BY <1>5, <1>6, <1>9, SMTT(20)
  <2> QED BY <1>3, <1>8, <2>1, <2>2, QuietGrows, Zenon
<1>13. OrderInv("client")' /\ \A d \in OnWay("client")' : d \in OnWay("client")
  BY <1>2, <1>3, <1>4, <1>9, SameQueue, Zenon
<1>14. /\ OrderInv("exit")'
       /\ \A d \in OnWay("exit")' : d \in OnWay("exit") \/ CellInv("exit", d)'
  <2>1. PICK c : c = Control("SessionOpen", i)
    BY Zenon
  <2>2. c.cmd = "SessionOpen" /\ c.id = i
    BY <2>1, ControlFields, Zenon
  <2>3. c \in Cell
    BY <1>6, <2>1, ControlType, IdsType, Zenon DEF Commands
  <2>4. \A d \in OnWay("exit") : Before(d, c)
    BY <2>2, Zenon DEF Before, Answer
  <2>5. OrderInv("exit")' /\ OnWay("exit")' = OnWay("exit") \cup {c}
    BY <1>2, <1>3, <1>4, <1>9, <2>1, <2>2, <2>3, <2>4, PushQueue, Zenon
  <2>6. CellInv("exit", c)'
    BY <1>6, <1>9, <2>2 DEF CellInv, StreamCells, Answer
  <2> QED BY <2>5, <2>6, Zenon
<1>15. /\ \A p \in Side : OrderInv(p)'
       /\ \A p \in Side : \A d \in OnWay(p)' : d \in OnWay(p) \/ CellInv(p, d)'
  BY <1>13, <1>14, Zenon DEF Side
<1> QED BY <1>8, <1>11, <1>12, <1>15, QuietStep, Zenon

\* The outcome of a connection attempt keeps the invariant (session.rs
\* 491-499).
LEMMA ConnectedInv ==
    ASSUME TypeOK, TypeOK', SessionInv, NEW i \in Ids, NEW accepted \in BOOLEAN,
           ConnectedEvent(i, accepted)
    PROVE  SessionInv'
<1>1. /\ "client" \in Side /\ "exit" \in Side /\ Peer("client") = "exit" /\ Peer("exit") = "client"
  BY Zenon DEF Side, Peer
<1>2. /\ i \in connecting /\ connecting' = connecting \ {i}
      /\ closed' = closed /\ lastId' = lastId /\ link' = link
  BY Zenon DEF ConnectedEvent
<1>3. IdInv /\ OrderInv("exit") /\ OrderInv("client")
  BY <1>1, Zenon DEF SessionInv
<1>4. lastId["client"] \in Nat /\ lastId["exit"] \in Nat /\ i \in Nat
  BY LastIdTypes DEF Ids
<1>5. /\ i \notin Known("exit") /\ i <= lastId["exit"] /\ i \in 1..lastId["exit"]
      /\ i \in Known("client") /\ ~ready("client", i)
  BY <1>2, <1>3, <1>4 DEF IdInv
<1>6. /\ \A p \in Side, j \in Ids : stream'[p][j] = stream[p][j] /\ worker'[p][j] = worker[p][j]
      /\ \A p \in Side, j \in Ids : SameStream(p, j) /\ SameWorker(p, j)
  <2>1. CASE accepted
    <3>1. /\ stream' = [stream EXCEPT !["exit"][i] = NewStream(TRUE)]
          /\ worker' = [worker EXCEPT !["exit"][i] = NewWorker]
      BY <2>1, Zenon DEF ConnectedEvent
    <3>2. NewStream("exit" = "exit") = NewStream(TRUE)
      BY Zenon DEF NewStream
    <3> QED BY <1>1, <1>3, <1>5, <3>1, <3>2, AttachFresh, Zenon
  <2>2. CASE ~accepted
    <3>1. stream' = stream /\ worker' = worker
      BY <2>2, Zenon DEF ConnectedEvent
    <3> QED BY <3>1, StreamsKept, Zenon
  <2> QED BY <2>1, <2>2, Zenon
<1>7. /\ live'["client"] = live["client"] /\ controls'["client"] = controls["client"]
      /\ live'["exit"] \in {live["exit"], live["exit"] \cup {i}}
      /\ accepted => live'["exit"] = live["exit"] \cup {i}
  <2>1. CASE accepted
    BY <1>1, <2>1, SMTT(20) DEF ConnectedEvent, Push, TypeOK
  <2>2. CASE ~accepted
    BY <1>1, <2>2, Zenon DEF ConnectedEvent, Push, TypeOK
  <2> QED BY <2>1, <2>2, Zenon
<1>8. /\ Known("client")' = Known("client")
      /\ Known("exit") \subseteq Known("exit")' /\ Known("exit")' \subseteq Known("exit") \cup {i}
      /\ accepted => i \in Known("exit")'
  BY <1>2, <1>7, Zenon DEF Known
<1>9. IdInv'
  <2>1. \A p \in Side : Known(p)' \subseteq 1..lastId'[p] /\ live'[p] \cap closed'[p] = {}
    <3>1. Known("exit")' \subseteq 1..lastId["exit"]
      BY <1>1, <1>3, <1>5, <1>8, Zenon DEF IdInv
    <3>2. live'["exit"] \cap closed["exit"] = {}
      BY <1>1, <1>3, <1>5, <1>7, SMTT(20) DEF IdInv, Known
    <3> QED BY <1>1, <1>2, <1>3, <1>7, <1>8, <3>1, <3>2, Zenon DEF IdInv, Side
  <2>2. 1..lastId'["client"] \subseteq Known("client")'
    BY <1>2, <1>3, <1>8, Zenon DEF IdInv
  <2>3. lastId'["exit"] <= lastId'["client"]
    BY <1>2, <1>3, Zenon DEF IdInv
  <2>4. connecting' \subseteq (1..lastId'["exit"]) \ Known("exit")'
    BY <1>2, <1>3, <1>8, Zenon DEF IdInv
  <2>5. ASSUME NEW p \in Side, NEW j \in Ids, j \notin Known(p)' PROVE Fresh(p, j)'
    <3>1. Fresh(p, j)
      BY <1>3, <1>8, <2>5, Zenon DEF IdInv, Side
    <3> QED BY <1>6, <3>1, Zenon DEF Fresh
  <2>6. \A j \in Ids : ready("client", j)' => j \in Known("exit")'
    BY <1>1, <1>3, <1>6, <1>8, Zenon DEF IdInv, SameStream, SameReady
  <2> QED BY <2>1, <2>2, <2>3, <2>4, <2>5, <2>6, Zenon DEF IdInv
<1>10. Grows
  <2>1. \A p \in Side : Known(p) \subseteq Known(p)'
    BY <1>8, Zenon DEF Side
  <2>2. lastId["client"] <= lastId'["client"] /\ lastId["exit"] <= lastId'["exit"]
    BY <1>2, <1>4
  <2>3. \A j \in connecting' : j \in connecting
    BY <1>2, Zenon
  <2> QED BY <1>6, <2>1, <2>2, <2>3, QuietGrows, Zenon
<1>11. OrderInv("exit")' /\ \A d \in OnWay("exit")' : d \in OnWay("exit")
  BY <1>1, <1>2, <1>3, <1>7, SameQueue, Zenon
<1>12. /\ OrderInv("client")'
       /\ \A d \in OnWay("client")' : d \in OnWay("client") \/ CellInv("client", d)'
  <2>1. PICK cmd \in Answer :
            /\ controls'["exit"] = Append(controls["exit"], Control(cmd, i))
            /\ cmd = "SessionOpened" => accepted
    <3>1. CASE accepted
      BY <1>1, <3>1, Zenon DEF ConnectedEvent, Push, TypeOK, Answer
    <3>2. CASE ~accepted
      BY <1>1, <3>2, Zenon DEF ConnectedEvent, Push, TypeOK, Answer
    <3> QED BY <3>1, <3>2, Zenon
  <2>2. \A d \in OnWay("client") : d.cmd \in Answer => d.id # i
    BY <1>1, <1>2, Zenon DEF SessionInv, CellsInv, CellInv
  <2>3. OrderInv("client")' /\ OnWay("client")' = OnWay("client") \cup {Control(cmd, i)}
    BY <1>2, <2>1, <2>2, PushAnswer, Zenon
  <2>4. PICK c : c = Control(cmd, i)
    BY Zenon
  <2>5. c.cmd = cmd /\ c.id = i
    BY <2>4, ControlFields, Zenon
  <2>6. i \in Known("client")' /\ ~ready("client", i)' /\ i <= lastId'["exit"] /\ i \notin connecting'
    BY <1>1, <1>2, <1>5, <1>6, <1>8, Zenon DEF SameStream, SameReady
  <2>7. CellInv("client", c)'
    BY <1>8, <2>1, <2>5, <2>6, Zenon DEF CellInv, Answer
  <2> QED BY <2>3, <2>4, <2>7, Zenon
<1>13. /\ \A p \in Side : OrderInv(p)'
       /\ \A p \in Side : \A d \in OnWay(p)' : d \in OnWay(p) \/ CellInv(p, d)'
  BY <1>11, <1>12, Zenon DEF Side
<1> QED BY <1>6, <1>9, <1>10, <1>13, QuietStep, Zenon

\* Every cell that arrives keeps the invariant (session.rs 504-561).
LEMMA FrameSessionInv ==
    ASSUME TypeOK, TypeOK', SessionInv, NEW s \in Side, Frame(s)
    PROVE  SessionInv'
<1>1. link[s] # <<>> /\ link' = [link EXCEPT ![s] = Tail(@)]
  BY FrameHead, Zenon
<1>2. CASE IgnoreCell(s) \/ RejectCell(s) \/ SessionFinish \/ SessionFinished
  <2>1. UNCHANGED streamVars /\ controls' = controls
    BY <1>2, Zenon DEF IgnoreCell, RejectCell, SessionFinish, SessionFinished
  <2> QED BY <1>1, <2>1, TakenInv, Zenon
<1>3. CASE SessionOpen \/ SessionOpened \/ SessionRefused
  BY <1>3, OpenInv, OpenedInv, RefusedInv, Zenon
<1>4. CASE Data(s) \/ DataAck(s) \/ End(s) \/ SessionReset(s)
  BY <1>4, DataInv, AckInv, EndInv, ResetInv, Zenon
<1> QED BY <1>2, <1>3, <1>4, Zenon DEF Frame
=============================================================================
