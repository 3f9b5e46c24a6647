------------------------ MODULE PaddedSessionFacts -------------------------
(* Facts the safety proof of PaddedSession rests on: what a step does to    *)
(* the counts of a stream, how queues of cells behave, and what is enough   *)
(* for a step to keep the invariant.                                        *)
EXTENDS PaddedSessionProofs, PaddedSessionInv

\* What a step leaves alone at one end of a stream.
SameOutput(s, i) ==
    /\ sentBy(s, i)' = sentBy(s, i) /\ ackedTo(s, i)' = ackedTo(s, i)
    /\ sentEnd(s, i)' = sentEnd(s, i)
SameInput(s, i) ==
    /\ receivedBy(s, i)' = receivedBy(s, i) /\ receivedEnd(s, i)' = receivedEnd(s, i)
SameAcks(s, i) ==
    /\ writtenBy(s, i)' = writtenBy(s, i) /\ pendingAck(s, i)' = pendingAck(s, i)
SameReady(s, i) == ready(s, i)' = ready(s, i)
SameWorker(s, i) ==
    /\ gotBy(s, i)' = gotBy(s, i) /\ queueOf(s, i)' = queueOf(s, i)
    /\ writing(s, i)' = writing(s, i)
SameStream(s, i) == SameOutput(s, i) /\ SameInput(s, i) /\ SameAcks(s, i) /\ SameReady(s, i)

\* The counts of a stream are numbers in a well typed state.
LEMMA CountTypes ==
    ASSUME TypeOK, NEW s \in Side, NEW i \in Ids
    PROVE  /\ sentBy(s, i) \in Nat /\ ackedTo(s, i) \in Nat
           /\ receivedBy(s, i) \in Nat /\ writtenBy(s, i) \in Nat /\ pendingAck(s, i) \in Nat
           /\ sentEnd(s, i) \in BOOLEAN /\ receivedEnd(s, i) \in BOOLEAN
           /\ ready(s, i) \in BOOLEAN
           /\ gotBy(s, i) \in Nat /\ queueOf(s, i) \in Seq(Nat) /\ Len(queueOf(s, i)) \in Nat
<1>1. worker[s][i].got \in Seq(Nat) /\ worker[s][i].incoming \in Seq(Nat)
  BY RecordTypes, Zenon
<1>2. \A q \in Seq(Nat) : Len(q) \in Nat
  OBVIOUS
<1> QED
  BY <1>1, <1>2, RecordTypes, Zenon
  DEF sentBy, ackedTo, receivedBy, writtenBy, pendingAck, sentEnd, receivedEnd, ready, gotBy, queueOf

\* A record that stays as it is keeps all its counts.
LEMMA StreamKept ==
    ASSUME NEW s, NEW i, stream'[s][i] = stream[s][i]
    PROVE  SameStream(s, i)
BY Zenon
DEF SameStream, SameOutput, SameInput, SameAcks, SameReady, sentBy, ackedTo, receivedBy, writtenBy,
    pendingAck, sentEnd, receivedEnd, ready

\* As StreamKept, for the worker record.
LEMMA WorkerKept ==
    ASSUME NEW s, NEW i, worker'[s][i] = worker[s][i]
    PROVE  SameWorker(s, i)
BY Zenon DEF SameWorker, gotBy, queueOf, writing

\* An assignment to one stream record shows in the counts of that stream
\* alone.
LEMMA StreamStep ==
    ASSUME NEW s \in Side, NEW i \in Ids, NEW r, OnlyStream(s, i, r)
    PROVE  /\ sentBy(s, i)' = r.window.sent /\ ackedTo(s, i)' = r.window.acknowledged
           /\ sentEnd(s, i)' = r.sentEnd
           /\ receivedBy(s, i)' = r.received /\ receivedEnd(s, i)' = r.receivedEnd
           /\ writtenBy(s, i)' = r.written /\ pendingAck(s, i)' = r.ack
           /\ ready(s, i)' = r.ready
           /\ \A p \in Side, j \in Ids : p # s \/ j # i => SameStream(p, j)
<1>1. stream'[s][i] = r
  BY Zenon DEF OnlyStream
<1>2. \A p \in Side, j \in Ids : p # s \/ j # i => SameStream(p, j)
  BY StreamKept, Zenon DEF OnlyStream
<1> QED
  BY <1>1, <1>2, Zenon DEF sentBy, ackedTo, receivedBy, writtenBy, pendingAck, sentEnd, receivedEnd,
                           ready

\* As StreamStep, for the worker record.
LEMMA WorkerStep ==
    ASSUME NEW s \in Side, NEW i \in Ids, NEW r, OnlyWorker(s, i, r)
    PROVE  /\ gotBy(s, i)' = Len(r.got) /\ queueOf(s, i)' = r.incoming
           /\ writing(s, i)' = (r.writer = "writing")
           /\ \A p \in Side, j \in Ids : p # s \/ j # i => SameWorker(p, j)
<1>1. worker'[s][i] = r
  BY Zenon DEF OnlyWorker
<1>2. \A p \in Side, j \in Ids : p # s \/ j # i => SameWorker(p, j)
  BY WorkerKept, Zenon DEF OnlyWorker
<1> QED BY <1>1, <1>2, Zenon DEF gotBy, queueOf, writing


-----------------------------------------------------------------------------
(* Queues of cells.                                                         *)

\* Cells about which nothing is promised.
Neutral(c) == c.cmd \in {"SessionReset", "SessionFinish", "SessionFinished"}

\* A neutral cell may stand anywhere among others.
LEMMA NeutralCells ==
    ASSUME NEW c, NEW d, Neutral(c) \/ Neutral(d)
    PROVE  Before(c, d)
BY Zenon DEF Neutral, Before, Answer

\* Taking the head off an ordered queue leaves an ordered queue behind it.
LEMMA TakeCell ==
    ASSUME NEW q \in Seq(Cell), q # <<>>
    PROVE  /\ Queued(Tail(q)) \subseteq Queued(q) /\ Head(q) \in Queued(q)
           /\ InOrder(q) => InOrder(Tail(q)) /\ \A c \in Queued(Tail(q)) : Before(Head(q), c)
<1>1. /\ Len(q) \in Nat /\ Len(q) > 0 /\ Len(Tail(q)) = Len(q) - 1 /\ Head(q) = q[1]
      /\ \A k \in 1..Len(Tail(q)) : Tail(q)[k] = q[k + 1]
  OBVIOUS
<1>2. \A k \in 1..Len(Tail(q)) : k + 1 \in 1..Len(q)
  BY <1>1
<1>3. Queued(Tail(q)) \subseteq Queued(q) /\ Head(q) \in Queued(q)
  BY <1>1, <1>2 DEF Queued
<1>4. ASSUME InOrder(q) PROVE InOrder(Tail(q))
  BY <1>1, <1>2, <1>4 DEF InOrder
<1>5. ASSUME InOrder(q), NEW c \in Queued(Tail(q)) PROVE Before(Head(q), c)
  <2>1. PICK k \in 1..Len(Tail(q)) : c = Tail(q)[k]
    BY <1>5, Zenon DEF Queued
  <2>2. c = q[k + 1] /\ k + 1 \in 1..Len(q) /\ 1 \in 1..Len(q) /\ 1 < k + 1
    BY <1>1, <1>2, <2>1
  <2> QED BY <1>1, <1>5, <2>2, Zenon DEF InOrder
<1> QED BY <1>3, <1>4, <1>5, Zenon

\* A cell that may stand behind all others extends an ordered queue.
LEMMA PutCell ==
    ASSUME NEW q \in Seq(Cell), NEW c \in Cell
    PROVE  /\ Queued(Append(q, c)) = Queued(q) \cup {c}
           /\ InOrder(q) /\ (\A d \in Queued(q) : Before(d, c)) => InOrder(Append(q, c))
<1>1. /\ Len(q) \in Nat /\ Len(Append(q, c)) = Len(q) + 1 /\ Append(q, c)[Len(q) + 1] = c
      /\ \A k \in 1..Len(q) : Append(q, c)[k] = q[k]
  OBVIOUS
<1>2. \A k \in 1..Len(q) + 1 : k \in 1..Len(q) \/ k = Len(q) + 1
  BY <1>1
<1>3. \A k \in 1..Len(q) : k \in 1..Len(q) + 1
  BY <1>1
<1>4. Queued(Append(q, c)) = Queued(q) \cup {c}
  BY <1>1, <1>2, <1>3 DEF Queued
<1>5. ASSUME InOrder(q), \A d \in Queued(q) : Before(d, c)
      PROVE  InOrder(Append(q, c))
  <2>1. ASSUME NEW j \in 1..Len(q) + 1, NEW k \in 1..Len(q) + 1, j < k
        PROVE  Before(Append(q, c)[j], Append(q, c)[k])
    <3>1. j \in 1..Len(q)
      BY <1>1, <2>1
    <3>2. CASE k \in 1..Len(q)
      BY <1>1, <1>5, <2>1, <3>1, <3>2, Zenon DEF InOrder
    <3>3. CASE k = Len(q) + 1
      BY <1>1, <1>5, <3>1, <3>3, Zenon DEF Queued
    <3> QED BY <1>2, <3>2, <3>3, Zenon
  <2> QED BY <1>1, <2>1, Zenon DEF InOrder
<1> QED BY <1>4, <1>5, Zenon

\* Neutral cells extend an ordered queue.
LEMMA PutNeutral ==
    ASSUME NEW q \in Seq(Cell), NEW r \in Seq(Cell), \A c \in Queued(r) : Neutral(c)
    PROVE  /\ Queued(q \o r) = Queued(q) \cup Queued(r)
           /\ InOrder(q) => InOrder(q \o r)
<1>1. /\ Len(q) \in Nat /\ Len(r) \in Nat /\ Len(q \o r) = Len(q) + Len(r)
      /\ \A k \in 1..Len(q) : (q \o r)[k] = q[k]
      /\ \A k \in 1..Len(r) : (q \o r)[Len(q) + k] = r[k]
  OBVIOUS
<1>2. \A k \in 1..Len(q) + Len(r) : k \in 1..Len(q) \/ \E m \in 1..Len(r) : k = Len(q) + m
  <2> TAKE k \in 1..Len(q) + Len(r)
  <2>1. CASE k > Len(q)
    <3>1. k - Len(q) \in 1..Len(r) /\ k = Len(q) + (k - Len(q))
      BY <1>1, <2>1
    <3> QED BY <3>1, Zenon
  <2> QED BY <1>1, <2>1
<1>3. /\ \A k \in 1..Len(q) : k \in 1..Len(q) + Len(r)
      /\ \A k \in 1..Len(r) : Len(q) + k \in 1..Len(q) + Len(r)
  BY <1>1
<1>4. Queued(q \o r) = Queued(q) \cup Queued(r)
  <2>1. ASSUME NEW k \in 1..Len(q) + Len(r) PROVE (q \o r)[k] \in Queued(q) \cup Queued(r)
    <3>1. CASE k \in 1..Len(q)
      BY <1>1, <3>1, Zenon DEF Queued
    <3>2. ASSUME NEW m \in 1..Len(r), k = Len(q) + m PROVE (q \o r)[k] \in Queued(r)
      BY <1>1, <3>2, Zenon DEF Queued
    <3> QED BY <1>2, <3>1, <3>2, Zenon
  <2>2. Queued(q) \subseteq Queued(q \o r)
    BY <1>1, <1>3, Zenon DEF Queued
  <2>3. Queued(r) \subseteq Queued(q \o r)
    BY <1>1, <1>3 DEF Queued
  <2> QED BY <1>1, <2>1, <2>2, <2>3, Zenon DEF Queued
<1>5. ASSUME InOrder(q), NEW j \in 1..Len(q) + Len(r), NEW k \in 1..Len(q) + Len(r), j < k
      PROVE  Before((q \o r)[j], (q \o r)[k])
  <2>1. CASE k \in 1..Len(q)
    <3>1. j \in 1..Len(q)
      BY <1>1, <1>5, <2>1
    <3> QED BY <1>1, <1>5, <2>1, <3>1, Zenon DEF InOrder
  <2>2. ASSUME NEW m \in 1..Len(r), k = Len(q) + m
        PROVE  Before((q \o r)[j], (q \o r)[k])
    <3>1. Neutral((q \o r)[k])
      BY <1>1, <2>2, Zenon DEF Queued
    <3> QED BY <3>1, NeutralCells, Zenon
  <2> QED BY <1>2, <2>1, <2>2, Zenon
<1> QED BY <1>1, <1>4, <1>5, Zenon DEF InOrder

-----------------------------------------------------------------------------
(* What the updates of a record do to the counts.                           *)

WithReceived(r, n) == [r EXCEPT !.received = n]

\* Counting a received piece leaves every other count as it is.
LEMMA ReceivedStep ==
    ASSUME TypeOK, NEW s \in Side, NEW i \in Ids, NEW n \in Nat,
           OnlyStream(s, i, WithReceived(stream[s][i], n))
    PROVE  /\ SameOutput(s, i) /\ receivedBy(s, i)' = n /\ receivedEnd(s, i)' = receivedEnd(s, i)
           /\ SameAcks(s, i) /\ SameReady(s, i)
           /\ \A p \in Side, j \in Ids : p # s \/ j # i => SameStream(p, j)
<1>fields. \A r \in Stream :
          /\ WithReceived(r, n).window = r.window /\ WithReceived(r, n).received = n
          /\ WithReceived(r, n).written = r.written /\ WithReceived(r, n).ack = r.ack
          /\ WithReceived(r, n).sentEnd = r.sentEnd
          /\ WithReceived(r, n).receivedEnd = r.receivedEnd /\ WithReceived(r, n).ready = r.ready
  BY Zenon DEF Stream, WithReceived
<1>1. stream[s][i] \in Stream
  BY RecordTypes, Zenon
<1> QED
  BY <1>1, <1>fields, StreamStep
  DEF SameOutput, SameAcks, SameReady, sentBy, ackedTo, receivedBy, writtenBy, pendingAck, sentEnd,
      receivedEnd, ready

WithCredit(r, w) == [r EXCEPT !.window = w]

\* Moving the window leaves every other count as it is.
LEMMA CreditStep ==
    ASSUME TypeOK, NEW s \in Side, NEW i \in Ids, NEW w \in Window,
           OnlyStream(s, i, WithCredit(stream[s][i], w))
    PROVE  /\ sentBy(s, i)' = w.sent /\ ackedTo(s, i)' = w.acknowledged
           /\ sentEnd(s, i)' = sentEnd(s, i) /\ SameInput(s, i) /\ SameAcks(s, i)
           /\ SameReady(s, i)
           /\ \A p \in Side, j \in Ids : p # s \/ j # i => SameStream(p, j)
<1>fields. \A r \in Stream :
          /\ WithCredit(r, w).window = w /\ WithCredit(r, w).received = r.received
          /\ WithCredit(r, w).written = r.written /\ WithCredit(r, w).ack = r.ack
          /\ WithCredit(r, w).sentEnd = r.sentEnd /\ WithCredit(r, w).receivedEnd = r.receivedEnd
          /\ WithCredit(r, w).ready = r.ready
  BY Zenon DEF Stream, WithCredit
<1>1. stream[s][i] \in Stream
  BY RecordTypes, Zenon
<1> QED
  BY <1>1, <1>fields, StreamStep
  DEF SameInput, SameAcks, SameReady, sentBy, ackedTo, receivedBy, writtenBy, pendingAck, sentEnd,
      receivedEnd, ready

WithReceivedEnd(r) == [r EXCEPT !.receivedEnd = TRUE]

\* Noting the end of the input leaves every other count as it is.
LEMMA ReceivedEndStep ==
    ASSUME TypeOK, NEW s \in Side, NEW i \in Ids,
           OnlyStream(s, i, WithReceivedEnd(stream[s][i]))
    PROVE  /\ SameOutput(s, i) /\ receivedBy(s, i)' = receivedBy(s, i) /\ receivedEnd(s, i)' = TRUE
           /\ SameAcks(s, i) /\ SameReady(s, i)
           /\ \A p \in Side, j \in Ids : p # s \/ j # i => SameStream(p, j)
<1>fields. \A r \in Stream :
          /\ WithReceivedEnd(r).window = r.window /\ WithReceivedEnd(r).received = r.received
          /\ WithReceivedEnd(r).written = r.written /\ WithReceivedEnd(r).ack = r.ack
          /\ WithReceivedEnd(r).sentEnd = r.sentEnd /\ WithReceivedEnd(r).receivedEnd = TRUE
          /\ WithReceivedEnd(r).ready = r.ready
  BY Zenon DEF Stream, WithReceivedEnd
<1>1. stream[s][i] \in Stream
  BY RecordTypes, Zenon
<1> DEFINE q == WithReceivedEnd(stream[s][i])
<1>2. OnlyStream(s, i, q)
  BY Zenon
<1>3. /\ q.window = stream[s][i].window
      /\ q.received = stream[s][i].received
      /\ q.written = stream[s][i].written
      /\ q.ack = stream[s][i].ack
      /\ q.sentEnd = stream[s][i].sentEnd
      /\ q.receivedEnd = TRUE
      /\ q.ready = stream[s][i].ready
  BY <1>1, <1>fields, Zenon
<1> HIDE DEF q
<1>4. /\ sentBy(s, i)' = q.window.sent /\ ackedTo(s, i)' = q.window.acknowledged
      /\ sentEnd(s, i)' = q.sentEnd
      /\ receivedBy(s, i)' = q.received /\ receivedEnd(s, i)' = q.receivedEnd
      /\ writtenBy(s, i)' = q.written /\ pendingAck(s, i)' = q.ack
      /\ ready(s, i)' = q.ready
      /\ \A p \in Side, j \in Ids : p # s \/ j # i => SameStream(p, j)
  BY <1>2, StreamStep, SMT
<1> QED
  BY <1>3, <1>4, Zenon
  DEF SameOutput, SameAcks, SameReady, sentBy, ackedTo, receivedBy, writtenBy, pendingAck, sentEnd,
      receivedEnd, ready

WithSentEnd(r) == [r EXCEPT !.sentEnd = TRUE]

\* Noting the end of the output leaves every other count as it is.
LEMMA SentEndStep ==
    ASSUME TypeOK, NEW s \in Side, NEW i \in Ids,
           OnlyStream(s, i, WithSentEnd(stream[s][i]))
    PROVE  /\ sentBy(s, i)' = sentBy(s, i) /\ ackedTo(s, i)' = ackedTo(s, i)
           /\ sentEnd(s, i)' = TRUE /\ SameInput(s, i) /\ SameAcks(s, i) /\ SameReady(s, i)
           /\ \A p \in Side, j \in Ids : p # s \/ j # i => SameStream(p, j)
<1>fields. \A r \in Stream :
          /\ WithSentEnd(r).window = r.window /\ WithSentEnd(r).received = r.received
          /\ WithSentEnd(r).written = r.written /\ WithSentEnd(r).ack = r.ack
          /\ WithSentEnd(r).sentEnd = TRUE /\ WithSentEnd(r).receivedEnd = r.receivedEnd
          /\ WithSentEnd(r).ready = r.ready
  BY Zenon DEF Stream, WithSentEnd
<1>1. stream[s][i] \in Stream
  BY RecordTypes, Zenon
<1> DEFINE q == WithSentEnd(stream[s][i])
<1>2. OnlyStream(s, i, q)
  BY Zenon
<1>3. /\ q.window = stream[s][i].window
      /\ q.received = stream[s][i].received
      /\ q.written = stream[s][i].written
      /\ q.ack = stream[s][i].ack
      /\ q.sentEnd = TRUE
      /\ q.receivedEnd = stream[s][i].receivedEnd
      /\ q.ready = stream[s][i].ready
  BY <1>1, <1>fields, Zenon
<1> HIDE DEF q
<1>4. /\ sentBy(s, i)' = q.window.sent /\ ackedTo(s, i)' = q.window.acknowledged
      /\ sentEnd(s, i)' = q.sentEnd
      /\ receivedBy(s, i)' = q.received /\ receivedEnd(s, i)' = q.receivedEnd
      /\ writtenBy(s, i)' = q.written /\ pendingAck(s, i)' = q.ack
      /\ ready(s, i)' = q.ready
      /\ \A p \in Side, j \in Ids : p # s \/ j # i => SameStream(p, j)
  BY <1>2, StreamStep, SMT
<1> QED
  BY <1>3, <1>4, Zenon
  DEF SameInput, SameAcks, SameReady, sentBy, ackedTo, receivedBy, writtenBy, pendingAck, sentEnd,
      receivedEnd, ready

WithAck(r, n) == [r EXCEPT !.ack = n]

\* Setting or clearing the pending acknowledgement leaves the rest as it is.
LEMMA AckStep ==
    ASSUME TypeOK, NEW s \in Side, NEW i \in Ids, NEW n \in Nat,
           OnlyStream(s, i, WithAck(stream[s][i], n))
    PROVE  /\ SameOutput(s, i) /\ SameInput(s, i) /\ writtenBy(s, i)' = writtenBy(s, i)
           /\ pendingAck(s, i)' = n /\ SameReady(s, i)
           /\ \A p \in Side, j \in Ids : p # s \/ j # i => SameStream(p, j)
<1>fields. \A r \in Stream :
          /\ WithAck(r, n).window = r.window /\ WithAck(r, n).received = r.received
          /\ WithAck(r, n).written = r.written /\ WithAck(r, n).ack = n
          /\ WithAck(r, n).sentEnd = r.sentEnd /\ WithAck(r, n).receivedEnd = r.receivedEnd
          /\ WithAck(r, n).ready = r.ready
  BY Zenon DEF Stream, WithAck
<1>1. stream[s][i] \in Stream
  BY RecordTypes, Zenon
<1> QED
  BY <1>1, <1>fields, StreamStep
  DEF SameOutput, SameInput, SameReady, sentBy, ackedTo, receivedBy, writtenBy, pendingAck, sentEnd,
      receivedEnd, ready

WithWritten(r, n) == [r EXCEPT !.written = n, !.ack = n]

\* Counting a written piece sets the acknowledgement and leaves the rest as
\* it is.
LEMMA WrittenStep ==
    ASSUME TypeOK, NEW s \in Side, NEW i \in Ids, NEW n \in Nat,
           OnlyStream(s, i, WithWritten(stream[s][i], n))
    PROVE  /\ SameOutput(s, i) /\ SameInput(s, i) /\ writtenBy(s, i)' = n /\ pendingAck(s, i)' = n
           /\ SameReady(s, i)
           /\ \A p \in Side, j \in Ids : p # s \/ j # i => SameStream(p, j)
<1>fields. \A r \in Stream :
          /\ WithWritten(r, n).window = r.window /\ WithWritten(r, n).received = r.received
          /\ WithWritten(r, n).written = n /\ WithWritten(r, n).ack = n
          /\ WithWritten(r, n).sentEnd = r.sentEnd
          /\ WithWritten(r, n).receivedEnd = r.receivedEnd /\ WithWritten(r, n).ready = r.ready
  BY Zenon DEF Stream, WithWritten
<1>1. stream[s][i] \in Stream
  BY RecordTypes, Zenon
<1> QED
  BY <1>1, <1>fields, StreamStep
  DEF SameOutput, SameInput, SameReady, sentBy, ackedTo, receivedBy, writtenBy, pendingAck, sentEnd,
      receivedEnd, ready

WithReply(r) == [r EXCEPT !.reply = "dropped"]

\* The opener's reply is not one of the counts.
LEMMA ReplyStep ==
    ASSUME TypeOK, NEW s \in Side, NEW i \in Ids,
           OnlyStream(s, i, WithReply(stream[s][i]))
    PROVE  /\ SameOutput(s, i) /\ SameInput(s, i) /\ SameAcks(s, i) /\ SameReady(s, i)
           /\ \A p \in Side, j \in Ids : p # s \/ j # i => SameStream(p, j)
<1>fields. \A r \in Stream :
          /\ WithReply(r).window = r.window /\ WithReply(r).received = r.received
          /\ WithReply(r).written = r.written /\ WithReply(r).ack = r.ack
          /\ WithReply(r).sentEnd = r.sentEnd /\ WithReply(r).receivedEnd = r.receivedEnd
          /\ WithReply(r).ready = r.ready
  BY Zenon DEF Stream, WithReply
<1>1. stream[s][i] \in Stream
  BY RecordTypes, Zenon
<1> QED
  BY <1>1, <1>fields, StreamStep
  DEF SameOutput, SameInput, SameAcks, SameReady, sentBy, ackedTo, receivedBy, writtenBy, pendingAck, sentEnd,
      receivedEnd, ready

WithReady(r) == [r EXCEPT !.ready = TRUE, !.reply = "none"]

\* A stream that becomes ready keeps its counts.
LEMMA ReadyStep ==
    ASSUME TypeOK, NEW s \in Side, NEW i \in Ids,
           OnlyStream(s, i, WithReady(stream[s][i]))
    PROVE  /\ SameOutput(s, i) /\ SameInput(s, i) /\ SameAcks(s, i) /\ ready(s, i)' = TRUE
           /\ \A p \in Side, j \in Ids : p # s \/ j # i => SameStream(p, j)
<1>fields. \A r \in Stream :
          /\ WithReady(r).window = r.window /\ WithReady(r).received = r.received
          /\ WithReady(r).written = r.written /\ WithReady(r).ack = r.ack
          /\ WithReady(r).sentEnd = r.sentEnd /\ WithReady(r).receivedEnd = r.receivedEnd
          /\ WithReady(r).ready = TRUE
  BY Zenon DEF Stream, WithReady
<1>1. stream[s][i] \in Stream
  BY RecordTypes, Zenon
<1> DEFINE q == WithReady(stream[s][i])
<1>2. OnlyStream(s, i, q)
  BY Zenon
<1>3. /\ q.window = stream[s][i].window
      /\ q.received = stream[s][i].received
      /\ q.written = stream[s][i].written
      /\ q.ack = stream[s][i].ack
      /\ q.sentEnd = stream[s][i].sentEnd
      /\ q.receivedEnd = stream[s][i].receivedEnd
      /\ q.ready = TRUE
  BY <1>1, <1>fields, Zenon
<1> HIDE DEF q
<1>4. /\ sentBy(s, i)' = q.window.sent /\ ackedTo(s, i)' = q.window.acknowledged
      /\ sentEnd(s, i)' = q.sentEnd
      /\ receivedBy(s, i)' = q.received /\ receivedEnd(s, i)' = q.receivedEnd
      /\ writtenBy(s, i)' = q.written /\ pendingAck(s, i)' = q.ack
      /\ ready(s, i)' = q.ready
      /\ \A p \in Side, j \in Ids : p # s \/ j # i => SameStream(p, j)
  BY <1>2, StreamStep, SMT
<1> QED
  BY <1>3, <1>4, Zenon
  DEF SameOutput, SameInput, SameAcks, sentBy, ackedTo, receivedBy, writtenBy, pendingAck, sentEnd,
      receivedEnd, ready

WithIncoming(r, x) == [r EXCEPT !.incoming = x]

\* Queueing for the writer task leaves what it has written as it is.
LEMMA IncomingStep ==
    ASSUME TypeOK, NEW s \in Side, NEW i \in Ids, NEW x \in Seq(Nat),
           OnlyWorker(s, i, WithIncoming(worker[s][i], x))
    PROVE  /\ queueOf(s, i)' = x /\ gotBy(s, i)' = gotBy(s, i) /\ writing(s, i)' = writing(s, i)
           /\ \A p \in Side, j \in Ids : p # s \/ j # i => SameWorker(p, j)
<1>fields. \A r \in Worker :
          /\ WithIncoming(r, x).incoming = x
          /\ WithIncoming(r, x).got = r.got
          /\ WithIncoming(r, x).writer = r.writer
  BY Zenon DEF Worker, WithIncoming
<1>1. worker[s][i] \in Worker
  BY RecordTypes, Zenon
<1> QED BY <1>1, <1>fields, WorkerStep DEF SameWorker, gotBy, queueOf, writing

WithGot(r, x, g) == [r EXCEPT !.incoming = x, !.got = g]

\* A piece that is written moves from the writer's queue to its socket.
LEMMA GotStep ==
    ASSUME TypeOK, NEW s \in Side, NEW i \in Ids, NEW x \in Seq(Nat), NEW g \in Seq(Nat),
           OnlyWorker(s, i, WithGot(worker[s][i], x, g))
    PROVE  /\ queueOf(s, i)' = x /\ gotBy(s, i)' = Len(g) /\ writing(s, i)' = writing(s, i)
           /\ \A p \in Side, j \in Ids : p # s \/ j # i => SameWorker(p, j)
<1>fields. \A r \in Worker :
          /\ WithGot(r, x, g).incoming = x
          /\ WithGot(r, x, g).got = g
          /\ WithGot(r, x, g).writer = r.writer
  BY Zenon DEF Worker, WithGot
<1>1. worker[s][i] \in Worker
  BY RecordTypes, Zenon
<1> QED BY <1>1, <1>fields, WorkerStep, SMTT(20) DEF SameWorker, gotBy, queueOf, writing

WithShut(r, x) == [r EXCEPT !.incoming = x, !.writer = "shut"]

\* A writer task that shuts its socket down is no longer writing.
LEMMA ShutStep ==
    ASSUME TypeOK, NEW s \in Side, NEW i \in Ids, NEW x \in Seq(Nat),
           OnlyWorker(s, i, WithShut(worker[s][i], x))
    PROVE  /\ queueOf(s, i)' = x /\ gotBy(s, i)' = gotBy(s, i) /\ writing(s, i)' = FALSE
           /\ \A p \in Side, j \in Ids : p # s \/ j # i => SameWorker(p, j)
<1>fields. \A r \in Worker :
          /\ WithShut(r, x).incoming = x
          /\ WithShut(r, x).got = r.got
          /\ WithShut(r, x).writer = "shut"
  BY Zenon DEF Worker, WithShut
<1>1. worker[s][i] \in Worker
  BY RecordTypes, Zenon
<1> QED BY <1>1, <1>fields, WorkerStep DEF SameWorker, gotBy, queueOf, writing

WithFailed(r, x) == [r EXCEPT !.incoming = x, !.writer = "failed"]

\* A writer task that fails is no longer writing.
LEMMA FailedStep ==
    ASSUME TypeOK, NEW s \in Side, NEW i \in Ids, NEW x \in Seq(Nat),
           OnlyWorker(s, i, WithFailed(worker[s][i], x))
    PROVE  /\ queueOf(s, i)' = x /\ gotBy(s, i)' = gotBy(s, i) /\ writing(s, i)' = FALSE
           /\ \A p \in Side, j \in Ids : p # s \/ j # i => SameWorker(p, j)
<1>fields. \A r \in Worker :
          /\ WithFailed(r, x).incoming = x
          /\ WithFailed(r, x).got = r.got
          /\ WithFailed(r, x).writer = "failed"
  BY Zenon DEF Worker, WithFailed
<1>1. worker[s][i] \in Worker
  BY RecordTypes, Zenon
<1> QED BY <1>1, <1>fields, WorkerStep DEF SameWorker, gotBy, queueOf, writing

WithProduced(r, n) == [r EXCEPT !.produced = n]

\* What the reader task queues does not show at the writer task.
LEMMA ProducedStep ==
    ASSUME TypeOK, NEW s \in Side, NEW i \in Ids, NEW n \in Nat,
           OnlyWorker(s, i, WithProduced(worker[s][i], n))
    PROVE  /\ SameWorker(s, i)
           /\ \A p \in Side, j \in Ids : p # s \/ j # i => SameWorker(p, j)
<1>fields. \A r \in Worker :
          /\ WithProduced(r, n).incoming = r.incoming
          /\ WithProduced(r, n).got = r.got
          /\ WithProduced(r, n).writer = r.writer
  BY Zenon DEF Worker, WithProduced
<1>1. worker[s][i] \in Worker
  BY RecordTypes, Zenon
<1> QED BY <1>1, <1>fields, WorkerStep DEF SameWorker, gotBy, queueOf, writing

WithReader(r, how) == [r EXCEPT !.reader = how]

\* Nor does the end of the reader task.
LEMMA ReaderStep ==
    ASSUME TypeOK, NEW s \in Side, NEW i \in Ids, NEW how \in {"eof", "failed"},
           OnlyWorker(s, i, WithReader(worker[s][i], how))
    PROVE  /\ SameWorker(s, i)
           /\ \A p \in Side, j \in Ids : p # s \/ j # i => SameWorker(p, j)
<1>fields. \A r \in Worker :
          /\ WithReader(r, how).incoming = r.incoming
          /\ WithReader(r, how).got = r.got
          /\ WithReader(r, how).writer = r.writer
  BY Zenon DEF Worker, WithReader
<1>1. worker[s][i] \in Worker
  BY RecordTypes, Zenon
<1> QED BY <1>1, <1>fields, WorkerStep DEF SameWorker, gotBy, queueOf, writing
-----------------------------------------------------------------------------
(* What the steps of a session have in common.                              *)

\* There are two sides, and each is the peer of the other.
LEMMA Sides ==
    ASSUME NEW s \in Side
    PROVE  /\ Peer(s) \in Side /\ Peer(Peer(s)) = s /\ Peer(s) # s
           /\ \A p \in Side : p = s \/ p = Peer(s)
BY Zenon DEF Side, Peer

\* As CountTypes, in the next state.
LEMMA CountTypesNext ==
    ASSUME TypeOK', NEW s \in Side, NEW i \in Ids
    PROVE  /\ sentBy(s, i)' \in Nat /\ ackedTo(s, i)' \in Nat
           /\ receivedBy(s, i)' \in Nat /\ writtenBy(s, i)' \in Nat /\ pendingAck(s, i)' \in Nat
           /\ sentEnd(s, i)' \in BOOLEAN /\ receivedEnd(s, i)' \in BOOLEAN
           /\ ready(s, i)' \in BOOLEAN
           /\ gotBy(s, i)' \in Nat /\ queueOf(s, i)' \in Seq(Nat) /\ Len(queueOf(s, i))' \in Nat
<1>1. stream'[s][i] \in Stream /\ worker'[s][i] \in Worker
  BY DEF TypeOK
<1>2. /\ stream'[s][i].window \in Window
      /\ stream'[s][i].received \in Nat /\ stream'[s][i].written \in Nat
      /\ stream'[s][i].ack \in Nat /\ stream'[s][i].sentEnd \in BOOLEAN
      /\ stream'[s][i].receivedEnd \in BOOLEAN /\ stream'[s][i].ready \in BOOLEAN
      /\ worker'[s][i].incoming \in Seq(Nat) /\ worker'[s][i].got \in Seq(Nat)
  BY <1>1, Zenon DEF Stream, Worker
<1>3. stream'[s][i].window.sent \in Nat /\ stream'[s][i].window.acknowledged \in Nat
  BY <1>2, Zenon DEF Window
<1>4. \A q \in Seq(Nat) : Len(q) \in Nat
  OBVIOUS
<1> QED
  BY <1>2, <1>3, <1>4, Zenon
  DEF sentBy, ackedTo, receivedBy, writtenBy, pendingAck, sentEnd, receivedEnd, ready, gotBy, queueOf

\* A step that takes nothing back.
Grows ==
    /\ \A p \in Side : Known(p) \subseteq Known(p)'
    /\ lastId["client"] <= lastId'["client"] /\ lastId["exit"] <= lastId'["exit"]
    /\ \A j \in connecting' : j \in connecting \/ j > lastId["exit"]
    /\ \A p \in Side, j \in Ids :
           /\ sentBy(p, j) <= sentBy(p, j)'
           /\ sentEnd(p, j) => sentEnd(p, j)'
           /\ writtenBy(p, j) <= writtenBy(p, j)'

\* A step that does not overtake the cell c on its way to s.
Spared(s, c) ==
    /\ c.cmd \in Answer => (ready(s, c.id)' => ready(s, c.id))
    /\ c.cmd = "Data" => receivedBy(s, c.id)' < c.n
    /\ c.cmd \in {"Data", "End"} => (receivedEnd(s, c.id)' => receivedEnd(s, c.id))
    /\ c.cmd = "DataAck" => /\ ackedTo(s, c.id)' < c.n
                            /\ pendingAck(Peer(s), c.id)' # 0 => c.n < writtenBy(Peer(s), c.id)'

\* What is known of a cell on its way stays known over a step that takes
\* nothing back and does not overtake it.
LEMMA CellKept ==
    ASSUME TypeOK, TypeOK', NEW s \in Side, NEW c \in Cell, CellInv(s, c), Grows, Spared(s, c)
    PROVE  CellInv(s, c)'
<1> DEFINE p == Peer(s)
           i == c.id
<1>1. p \in Side /\ "client" \in Side /\ "exit" \in Side
  BY Sides, Zenon DEF Side
<1>2. c.n \in Nat /\ i \in Nat /\ lastId["client"] \in Nat /\ lastId["exit"] \in Nat
      /\ lastId'["client"] \in Nat /\ lastId'["exit"] \in Nat
  BY <1>1, SessionAssumption DEF Cell, TypeOK
<1>3. c.cmd \in StreamCells => i \in Known(s) /\ i \in Ids
  BY Zenon DEF CellInv, TypeOK, Known
<1>4. (c.cmd \in StreamCells => c.id \in Known(s))'
  BY <1>3, Zenon DEF Grows
<1>5. (c.cmd = "SessionOpen" => c.id <= lastId["client"])'
  BY <1>2 DEF Grows, CellInv
<1>6. (c.cmd \in Answer => /\ s = "client" /\ ~ready(s, c.id)
                           /\ c.id <= lastId["exit"] /\ c.id \notin connecting)'
  <2> SUFFICES ASSUME c.cmd \in Answer
               PROVE  /\ s = "client" /\ ~ready(s, c.id)'
                      /\ c.id <= lastId'["exit"] /\ c.id \notin connecting'
    BY Zenon DEF Answer
  <2>1. s = "client" /\ ~ready(s, c.id) /\ c.id <= lastId["exit"] /\ c.id \notin connecting
    BY Zenon DEF CellInv
  <2>2. ~ready(s, c.id)'
    BY <2>1, Zenon DEF Spared
  <2>3. c.id <= lastId'["exit"] /\ c.id \notin connecting'
    BY <1>2, <2>1 DEF Grows
  <2> QED BY <2>1, <2>2, <2>3, Zenon
<1>7. (c.cmd = "SessionOpened" => c.id \in Known("exit"))'
  BY <1>1, Zenon DEF CellInv, Grows
<1>8. ASSUME c.cmd = "Data"
      PROVE  /\ receivedBy(s, i)' < c.n /\ c.n <= sentBy(p, i)'
             /\ ~receivedEnd(s, i)'
  <2>1. i \in Ids
    BY <1>3, <1>8, Zenon DEF StreamCells
  <2>2. sentBy(p, i) \in Nat /\ sentBy(p, i)' \in Nat /\ sentBy(p, i) <= sentBy(p, i)'
    BY <1>1, <2>1, CountTypes, CountTypesNext, Zenon DEF Grows
  <2>3. c.n <= sentBy(p, i) /\ ~receivedEnd(s, i)
    BY <1>8, Zenon DEF CellInv
  <2> QED BY <1>2, <1>8, <2>2, <2>3 DEF Spared
<1>9. ASSUME c.cmd = "End" PROVE ~receivedEnd(s, i)' /\ sentEnd(p, i)'
  <2>1. i \in Ids
    BY <1>3, <1>9, Zenon DEF StreamCells
  <2>2. ~receivedEnd(s, i) /\ sentEnd(p, i)
    BY <1>9, Zenon DEF CellInv
  <2> QED BY <1>1, <1>9, <2>1, <2>2, Zenon DEF Grows, Spared
<1>10. ASSUME c.cmd = "DataAck"
       PROVE  /\ ackedTo(s, i)' < c.n /\ c.n <= writtenBy(p, i)'
              /\ pendingAck(p, i)' # 0 => c.n < writtenBy(p, i)'
  <2>1. i \in Ids
    BY <1>3, <1>10, Zenon DEF StreamCells
  <2>2. /\ writtenBy(p, i) \in Nat /\ writtenBy(p, i)' \in Nat
        /\ writtenBy(p, i) <= writtenBy(p, i)'
    BY <1>1, <2>1, CountTypes, CountTypesNext, Zenon DEF Grows
  <2>3. c.n <= writtenBy(p, i)
    BY <1>10, Zenon DEF CellInv
  <2> QED BY <1>2, <1>10, <2>2, <2>3 DEF Spared
<1> QED BY <1>4, <1>5, <1>6, <1>7, <1>8, <1>9, <1>10, Zenon DEF CellInv

\* The credit of a direction rests on these counts alone.
LEMMA CreditKept ==
    ASSUME NEW s \in Side, NEW i \in Ids, Credit(s, i),
           SameOutput(s, i), SameInput(Peer(s), i), SameAcks(Peer(s), i)
    PROVE  Credit(s, i)'
BY Zenon DEF Credit, SameOutput, SameInput, SameAcks

\* The backlog of a writer rests on these counts alone.
LEMMA BacklogKept ==
    ASSUME NEW s \in Side, NEW i \in Ids, Backlog(s, i),
           SameInput(s, i), SameAcks(s, i), SameWorker(s, i)
    PROVE  Backlog(s, i)'
BY Zenon DEF Backlog, SameInput, SameAcks, SameWorker

\* A step that leaves the counts of a stream alone does not overtake its
\* cells.
LEMMA SparedKept ==
    ASSUME TypeOK, NEW s \in Side, NEW c \in Cell, CellInv(s, c),
           c.id \in Ids => /\ SameReady(s, c.id) /\ SameInput(s, c.id)
                           /\ ackedTo(s, c.id)' = ackedTo(s, c.id) /\ SameAcks(Peer(s), c.id)
    PROVE  Spared(s, c)
<1>1. c.cmd \in StreamCells => c.id \in Ids
  BY Zenon DEF CellInv, TypeOK, Known
<1>2. CASE c.cmd \notin StreamCells
  BY <1>2, Zenon DEF Spared, StreamCells, Answer
<1>3. CASE c.cmd \in StreamCells
  BY <1>1, <1>3, Zenon DEF Spared, CellInv, SameInput, SameAcks, SameReady
<1> QED BY <1>2, <1>3, Zenon

\* What is on its way are cells.
LEMMA WayType ==
    ASSUME TypeOK, NEW s \in Side
    PROVE  /\ OnWay(s) \subseteq Cell /\ link[s] \in Seq(Cell) /\ controls[Peer(s)] \in Seq(Cell)
           /\ Queued(link[s]) \subseteq Cell /\ Queued(controls[Peer(s)]) \subseteq Cell
<1>1. link[s] \in Seq(Cell) /\ controls[Peer(s)] \in Seq(Cell)
  BY Sides, Zenon DEF TypeOK
<1>2. \A q \in Seq(Cell) : Queued(q) \subseteq Cell
  BY DEF Queued
<1> QED BY <1>1, <1>2, Zenon DEF OnWay

\* As WayType, in the next state.
LEMMA WayTypeNext ==
    ASSUME TypeOK', NEW s \in Side
    PROVE  OnWay(s)' \subseteq Cell
<1>1. link'[s] \in Seq(Cell) /\ controls'[Peer(s)] \in Seq(Cell)
  BY Sides, Zenon DEF TypeOK
<1>2. \A q \in Seq(Cell) : Queued(q) \subseteq Cell
  BY DEF Queued
<1> QED BY <1>1, <1>2, Zenon DEF OnWay

\* Nothing has to be known of a neutral cell.
LEMMA NeutralKept ==
    ASSUME NEW s, NEW c, Neutral(c)
    PROVE  CellInv(s, c)'
BY Zenon DEF Neutral, CellInv, StreamCells, Answer

\* The invariant after a step, from its parts.
LEMMA StepInv ==
    ASSUME TypeOK, TypeOK', SessionInv, IdInv', Grows,
           \A s \in Side, i \in Ids : Credit(s, i)' /\ Backlog(s, i)',
           \A s \in Side : OrderInv(s)',
           \A s \in Side : \A c \in OnWay(s)' : (c \in OnWay(s) /\ Spared(s, c)) \/ CellInv(s, c)'
    PROVE  SessionInv'
<1>1. ASSUME NEW s \in Side, NEW c \in OnWay(s)'
      PROVE  CellInv(s, c)'
  <2>1. CASE c \in OnWay(s) /\ Spared(s, c)
    <3>1. CellInv(s, c) /\ c \in Cell
      BY <2>1, WayType, Zenon DEF SessionInv, CellsInv
    <3> QED BY <2>1, <3>1, CellKept, Zenon
  <2> QED BY <1>1, <2>1, Zenon
<1> QED BY <1>1, Zenon DEF SessionInv, CellsInv

\* A step that leaves all counts alone.
LEMMA QuietStep ==
    ASSUME TypeOK, TypeOK', SessionInv, IdInv', Grows,
           \A p \in Side, j \in Ids : SameStream(p, j) /\ SameWorker(p, j),
           \A s \in Side : OrderInv(s)',
           \A s \in Side : \A c \in OnWay(s)' : c \in OnWay(s) \/ CellInv(s, c)'
    PROVE  SessionInv'
<1>1. ASSUME NEW s \in Side, NEW i \in Ids PROVE Credit(s, i)' /\ Backlog(s, i)'
  <2>1. Peer(s) \in Side
    BY Sides, Zenon
  <2>2. Credit(s, i) /\ Backlog(s, i)
    BY Zenon DEF SessionInv
  <2> QED BY <2>1, <2>2, CreditKept, BacklogKept, Zenon DEF SameStream
<1>2. ASSUME NEW s \in Side, NEW c \in OnWay(s) PROVE Spared(s, c)
  <2>1. CellInv(s, c) /\ c \in Cell /\ Peer(s) \in Side
    BY Sides, WayType, Zenon DEF SessionInv, CellsInv
  <2> QED BY <2>1, SparedKept, Zenon DEF SameStream, SameOutput
<1> QED BY <1>1, <1>2, StepInv, Zenon

\* A step that leaves the counts alone and forgets no identifier takes
\* nothing back.
LEMMA QuietGrows ==
    ASSUME TypeOK, TypeOK', \A p \in Side, j \in Ids : SameStream(p, j),
           \A p \in Side : Known(p) \subseteq Known(p)',
           lastId["client"] <= lastId'["client"] /\ lastId["exit"] <= lastId'["exit"],
           \A j \in connecting' : j \in connecting \/ j > lastId["exit"]
    PROVE  Grows
<1>1. ASSUME NEW p \in Side, NEW j \in Ids
      PROVE  sentBy(p, j) <= sentBy(p, j)' /\ writtenBy(p, j) <= writtenBy(p, j)'
             /\ (sentEnd(p, j) => sentEnd(p, j)')
  <2>1. sentBy(p, j) \in Nat /\ writtenBy(p, j) \in Nat
    BY CountTypes, Zenon
  <2> QED BY <2>1 DEF SameStream, SameOutput, SameAcks
<1> QED BY <1>1, Zenon DEF Grows

\* What is known of the identifiers stays known while they stay what they
\* are.
LEMMA IdKept ==
    ASSUME TypeOK, IdInv, lastId' = lastId, connecting' = connecting,
           \A p \in Side : Known(p)' = Known(p) /\ live'[p] \cap closed'[p] = {},
           \A p \in Side, j \in Ids : j \notin Known(p) =>
               stream'[p][j] = stream[p][j] /\ worker'[p][j] = worker[p][j],
           \A j \in Ids : ready("client", j)' => ready("client", j) \/ j \in Known("exit")
    PROVE  IdInv'
<1>1. "client" \in Side /\ "exit" \in Side
  BY Zenon DEF Side
<1>2. ASSUME NEW p \in Side, NEW j \in Ids, j \notin Known(p) PROVE Fresh(p, j)'
  BY <1>2 DEF IdInv, Fresh
<1>3. \A j \in Ids : ready("client", j)' => j \in Known("exit")
  BY Zenon DEF IdInv
<1> QED BY <1>1, <1>2, <1>3 DEF IdInv

-----------------------------------------------------------------------------
(* The queues a step reads and writes.                                      *)

\* Queues that stay as they are stay ordered.
LEMMA SameQueue ==
    ASSUME NEW s \in Side, OrderInv(s), link'[s] = link[s],
           controls'[Peer(s)] = controls[Peer(s)]
    PROVE  OrderInv(s)' /\ OnWay(s)' = OnWay(s)
BY Zenon DEF OrderInv, OnWay

\* A side that takes its next cell off the circuit: the rest stays ordered,
\* behind it.
LEMMA TakeQueue ==
    ASSUME TypeOK, NEW s \in Side, OrderInv(s), link[s] # <<>>, link'[s] = Tail(link[s]),
           controls'[Peer(s)] = controls[Peer(s)]
    PROVE  /\ OrderInv(s)' /\ Head(link[s]) \in OnWay(s)
           /\ \A c \in OnWay(s)' : c \in OnWay(s) /\ Before(Head(link[s]), c)
<1>1. link[s] \in Seq(Cell)
  BY WayType, Zenon
<1>2. /\ Queued(Tail(link[s])) \subseteq Queued(link[s]) /\ Head(link[s]) \in Queued(link[s])
      /\ InOrder(Tail(link[s])) /\ \A c \in Queued(Tail(link[s])) : Before(Head(link[s]), c)
  BY <1>1, TakeCell, Zenon DEF OrderInv
<1> QED BY <1>2, Zenon DEF OrderInv, OnWay

\* The peer queues a control cell that may stand behind all that is on its
\* way.
LEMMA PushQueue ==
    ASSUME TypeOK, NEW s \in Side, OrderInv(s), link'[s] = link[s],
           NEW c \in Cell, controls'[Peer(s)] = Append(controls[Peer(s)], c),
           c.cmd \notin {"Data", "DataAck", "End"}, \A d \in OnWay(s) : Before(d, c)
    PROVE  OrderInv(s)' /\ OnWay(s)' = OnWay(s) \cup {c}
<1>1. controls[Peer(s)] \in Seq(Cell)
  BY WayType, Zenon
<1>2. /\ Queued(controls'[Peer(s)]) = Queued(controls[Peer(s)]) \cup {c}
      /\ InOrder(controls'[Peer(s)])
  BY <1>1, PutCell, Zenon DEF OrderInv, OnWay
<1> QED BY <1>2, Zenon DEF OrderInv, OnWay

\* A tick at the peer of s: the link becomes l and the control queue becomes
\* what the selection has left of it and the resets of cancelled streams.
-----------------------------------------------------------------------------
(* Steps that leave the streams alone.                                      *)

\* A step that assigns no record keeps all counts.
LEMMA StreamsKept ==
    ASSUME stream' = stream, worker' = worker
    PROVE  \A p \in Side, j \in Ids : SameStream(p, j) /\ SameWorker(p, j)
BY StreamKept, WorkerKept, Zenon

\* A step that leaves the streams alone and adds only neutral cells keeps the
\* invariant.
LEMMA FixedStreams ==
    ASSUME TypeOK, TypeOK', SessionInv, UNCHANGED streamVars,
           \A s \in Side : OrderInv(s)',
           \A s \in Side : \A c \in OnWay(s)' : c \in OnWay(s) \/ Neutral(c)
    PROVE  SessionInv'
<1>1. /\ live' = live /\ closed' = closed /\ stream' = stream /\ worker' = worker
      /\ connecting' = connecting /\ lastId' = lastId
  BY Zenon DEF streamVars
<1>2. \A p \in Side : Known(p)' = Known(p)
  BY <1>1, Zenon DEF Known
<1>3. \A p \in Side, j \in Ids : SameStream(p, j) /\ SameWorker(p, j)
  BY <1>1, StreamsKept, Zenon
<1>4. lastId["client"] <= lastId'["client"] /\ lastId["exit"] <= lastId'["exit"]
  <2>1. lastId["client"] \in Nat /\ lastId["exit"] \in Nat
    BY SessionAssumption DEF TypeOK, Side
  <2> QED BY <1>1, <2>1
<1>5. Grows
  BY <1>1, <1>2, <1>3, <1>4, QuietGrows, Zenon
<1>6. IdInv'
  <2>1. "client" \in Side /\ IdInv
    BY Zenon DEF Side, SessionInv
  <2>2. \A j \in Ids : ready("client", j)' => ready("client", j)
    BY <1>3, <2>1, Zenon DEF SameStream, SameReady
  <2>3. \A p \in Side : live'[p] \cap closed'[p] = {}
    BY <1>1, <2>1, Zenon DEF IdInv
  <2> QED BY <1>1, <1>2, <2>1, <2>2, <2>3, IdKept, Zenon
<1> QED BY <1>3, <1>5, <1>6, NeutralKept, QuietStep, Zenon

\* A step that touches neither streams nor cells keeps the invariant.
LEMMA IdleInv ==
    ASSUME TypeOK, TypeOK', SessionInv, UNCHANGED streamVars, link' = link, controls' = controls
    PROVE  SessionInv'
<1>1. \A s \in Side : OrderInv(s)' /\ OnWay(s)' = OnWay(s)
  BY SameQueue, Zenon DEF SessionInv
<1> QED BY <1>1, FixedStreams, Zenon

\* The other queue is not touched by a frame that pushes nothing.
LEMMA FrameInv ==
    ASSUME TypeOK, TypeOK', SessionInv, NEW s \in Side, link[s] # <<>>,
           link' = [link EXCEPT ![s] = Tail(@)], controls' = controls
    PROVE  /\ \A p \in Side : OrderInv(p)'
           /\ \A p \in Side : \A c \in OnWay(p)' : c \in OnWay(p)
           /\ \A c \in OnWay(s)' : Before(Head(link[s]), c)
           /\ Head(link[s]) \in OnWay(s) /\ Head(link[s]) \in Cell /\ CellInv(s, Head(link[s]))
<1>1. link'[s] = Tail(link[s]) /\ link'[Peer(s)] = link[Peer(s)]
  BY Sides DEF TypeOK
<1>2. /\ OrderInv(s)' /\ Head(link[s]) \in OnWay(s)
      /\ \A c \in OnWay(s)' : c \in OnWay(s) /\ Before(Head(link[s]), c)
  BY <1>1, TakeQueue, Zenon DEF SessionInv
<1>3. OrderInv(Peer(s))' /\ OnWay(Peer(s))' = OnWay(Peer(s))
  BY <1>1, Sides, SameQueue, Zenon DEF SessionInv
<1>4. Head(link[s]) \in Cell /\ CellInv(s, Head(link[s]))
  BY <1>2, WayType, Zenon DEF SessionInv, CellsInv
<1>5. ASSUME NEW p \in Side PROVE OrderInv(p)' /\ \A c \in OnWay(p)' : c \in OnWay(p)
  <2>1. CASE p = s
    BY <1>2, <2>1, Zenon
  <2>2. CASE p = Peer(s)
    BY <1>3, <2>2, Zenon
  <2> QED BY <2>1, <2>2, Sides, Zenon
<1> QED BY <1>2, <1>4, <1>5, Zenon

\* So does one that only takes a cell off the circuit (session.rs 511,
\* 557-559).
LEMMA TakenInv ==
    ASSUME TypeOK, TypeOK', SessionInv, NEW s \in Side, link[s] # <<>>,
           link' = [link EXCEPT ![s] = Tail(@)], controls' = controls, UNCHANGED streamVars
    PROVE  SessionInv'
BY FrameInv, FixedStreams, Zenon

-----------------------------------------------------------------------------
(* Steps that change one stream.                                            *)

\* A step at s that only touches the record of a live stream there.
LEMMA LiveStep ==
    ASSUME TypeOK, IdInv, UNCHANGED <<live, closed, connecting, lastId>>,
           NEW s \in Side, NEW i \in live[s],
           \A p \in Side, j \in Ids : p # s \/ j # i =>
               stream'[p][j] = stream[p][j] /\ worker'[p][j] = worker[p][j],
           \A j \in Ids : ready("client", j)' => ready("client", j) \/ j \in Known("exit")
    PROVE  IdInv' /\ \A p \in Side : Known(p) \subseteq Known(p)'
<1>1. \A p \in Side : Known(p)' = Known(p) /\ live'[p] \cap closed'[p] = {}
  BY Zenon DEF Known, IdInv
<1>2. \A p \in Side, j \in Ids : j \notin Known(p) =>
          stream'[p][j] = stream[p][j] /\ worker'[p][j] = worker[p][j]
  BY Zenon DEF Known
<1> QED BY <1>1, <1>2, IdKept, Zenon

\* The highest identifiers are numbers.
LEMMA LastIdTypes == TypeOK => lastId["client"] \in Nat /\ lastId["exit"] \in Nat
BY SessionAssumption DEF TypeOK, Side

\* Everything but stream i, in a step that only touches the counts of i at s.
LEMMA OtherStreams ==
    ASSUME TypeOK, SessionInv, NEW s \in Side, NEW i \in Ids,
           \A p \in Side, j \in Ids : p # s \/ j # i => SameStream(p, j) /\ SameWorker(p, j)
    PROVE  /\ \A p \in Side, j \in Ids : j # i => Credit(p, j)' /\ Backlog(p, j)'
           /\ Backlog(Peer(s), i)'
           /\ SameOutput(s, i) => Credit(s, i)'
           /\ SameInput(s, i) /\ SameAcks(s, i) => Credit(Peer(s), i)'
           /\ SameInput(s, i) /\ SameAcks(s, i) /\ SameWorker(s, i) => Backlog(s, i)'
           /\ \A p \in Side : \A c \in OnWay(p) : c.id # i => Spared(p, c)
           /\ SameAcks(s, i) => \A c \in OnWay(Peer(s)) : Spared(Peer(s), c)
<1>1. /\ Peer(s) \in Side /\ Peer(Peer(s)) = s /\ Peer(s) # s
      /\ \A p \in Side, j \in Ids : Credit(p, j) /\ Backlog(p, j)
      /\ \A p \in Side : Peer(p) \in Side
  BY Sides, Zenon DEF SessionInv
<1>2. ASSUME NEW p \in Side, NEW j \in Ids, j # i PROVE Credit(p, j)' /\ Backlog(p, j)'
  BY <1>1, <1>2, CreditKept, BacklogKept, Zenon DEF SameStream
<1>3. Backlog(Peer(s), i)'
  BY <1>1, BacklogKept, Zenon DEF SameStream
<1>4. SameOutput(s, i) => Credit(s, i)'
  BY <1>1, CreditKept, Zenon DEF SameStream
<1>5. SameInput(s, i) /\ SameAcks(s, i) => Credit(Peer(s), i)'
  BY <1>1, CreditKept, Zenon DEF SameStream
<1>6. SameInput(s, i) /\ SameAcks(s, i) /\ SameWorker(s, i) => Backlog(s, i)'
  BY <1>1, BacklogKept, Zenon
<1>7. \A p \in Side : \A c \in OnWay(p) : c \in Cell /\ CellInv(p, c)
  BY WayType, Zenon DEF SessionInv, CellsInv
<1>8. ASSUME NEW p \in Side, NEW c \in OnWay(p), c.id # i PROVE Spared(p, c)
  BY <1>1, <1>7, <1>8, SparedKept, Zenon DEF SameStream, SameOutput
<1>9. ASSUME SameAcks(s, i), NEW c \in OnWay(Peer(s)) PROVE Spared(Peer(s), c)
  BY <1>1, <1>7, <1>9, SparedKept DEF SameStream, SameOutput
<1> QED BY <1>2, <1>3, <1>4, <1>5, <1>6, <1>8, <1>9, Zenon

\* The invariant after a step that only touches the counts of stream i at s.
LEMMA OneStream ==
    ASSUME TypeOK, TypeOK', SessionInv, NEW s \in Side, NEW i \in Ids,
           \A p \in Side, j \in Ids : p # s \/ j # i => SameStream(p, j) /\ SameWorker(p, j),
           IdInv', \A p \in Side : Known(p) \subseteq Known(p)',
           connecting' = connecting, lastId' = lastId,
           sentBy(s, i) <= sentBy(s, i)' /\ writtenBy(s, i) <= writtenBy(s, i)',
           sentEnd(s, i) => sentEnd(s, i)',
           Credit(s, i)' /\ Credit(Peer(s), i)' /\ Backlog(s, i)',
           \A p \in Side : OrderInv(p)',
           \A p \in Side : \A c \in OnWay(p)' :
               (c \in OnWay(p) /\ (c.id = i => Spared(p, c))) \/ CellInv(p, c)'
    PROVE  SessionInv'
<1>1. ASSUME NEW p \in Side, NEW j \in Ids PROVE Credit(p, j)' /\ Backlog(p, j)'
  <2>1. CASE j # i
    BY <2>1, OtherStreams, Zenon
  <2>2. Credit(s, i)' /\ Backlog(s, i)' /\ Credit(Peer(s), i)' /\ Backlog(Peer(s), i)'
    BY OtherStreams, Zenon
  <2> QED BY <2>1, <2>2, Sides
<1>2. ASSUME NEW p \in Side, NEW j \in Ids
      PROVE  sentBy(p, j) <= sentBy(p, j)' /\ writtenBy(p, j) <= writtenBy(p, j)'
             /\ (sentEnd(p, j) => sentEnd(p, j)')
  <2>1. CASE p # s \/ j # i
    <3>1. SameStream(p, j) /\ sentBy(p, j) \in Nat /\ writtenBy(p, j) \in Nat
      BY <2>1, CountTypes, Zenon
    <3> QED BY <3>1 DEF SameStream, SameOutput, SameAcks
  <2> QED BY <2>1, Zenon
<1>3. lastId["client"] <= lastId'["client"] /\ lastId["exit"] <= lastId'["exit"]
  BY LastIdTypes
<1>4. Grows
  BY <1>2, <1>3, Zenon DEF Grows
<1>5. \A p \in Side : \A c \in OnWay(p) : c.id # i => Spared(p, c)
  BY OtherStreams
<1> QED BY <1>1, <1>4, <1>5, StepInv, Zenon

\* SessionReset is a neutral cell.
LEMMA ResetCell ==
    \A i \in Ids : Control("SessionReset", i) \in Cell /\ Neutral(Control("SessionReset", i))
BY SessionAssumption DEF Control, Cell, Commands, Neutral, Ids

\* The fields of a control cell.
LEMMA ControlFields ==
    ASSUME NEW cmd, NEW i
    PROVE  Control(cmd, i).cmd = cmd /\ Control(cmd, i).id = i
BY Zenon DEF Control
=============================================================================
