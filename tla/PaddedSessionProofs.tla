------------------------ MODULE PaddedSessionProofs ------------------------
(* Proofs about PaddedSession, for every value of its constants. *)
EXTENDS PaddedSession, TLAPS

\* There are two sides, and each is the peer of the other.
LEMMA PeerType == \A s \in Side : Peer(s) \in Side /\ Peer(s) # s /\ Peer(Peer(s)) = s
BY DEF Side, Peer

\* The state `run` starts from (session.rs 395-413) is well typed.
LEMMA InitTypeOK == Init => TypeOK
<1> SUFFICES ASSUME Init PROVE TypeOK
  OBVIOUS
<1> USE SessionAssumption, WindowAssumption
<1>1. \A b \in BOOLEAN : NewStream(b) \in Stream
  BY DEF NewStream, Stream, EmptyWindow, Window
<1>2. NewWorker \in Worker
  BY DEF NewWorker, Worker
<1>3. stream \in [Side -> [Ids -> Stream]] /\ worker \in [Side -> [Ids -> Worker]]
  BY <1>1, <1>2, Zenon DEF Init
<1>4. live \in [Side -> SUBSET Ids] /\ closed \in [Side -> SUBSET Ids] /\ connecting \in SUBSET Ids
  BY DEF Init
<1>5. lastId \in [Side -> 0..MAX_IDS] /\ cursor \in [Side -> 0..MAX_IDS]
  BY DEF Init
<1>6. controls \in [Side -> Seq(Cell)] /\ link \in [Side -> Seq(Cell)]
  BY DEF Init
<1>7. preferControl \in [Side -> BOOLEAN] /\ finishing \in BOOLEAN /\ peerFinish \in BOOLEAN
  BY Zenon DEF Init
<1>8. cells \in [Side -> 0..BUCKET-1] /\ clock \in [Side -> 0..2]
  BY DEF Init
<1>9. outcome \in [Side -> {"running", "ok"} \cup Errors]
  BY DEF Init
<1> QED
  BY <1>3, <1>4, <1>5, <1>6, <1>7, <1>8, <1>9 DEF TypeOK

\* A control cell is a cell.
LEMMA ControlType == \A cmd \in Commands, i \in 0..MAX_IDS : Control(cmd, i) \in Cell
BY DEF Control, Cell

\* Stream identifiers are positive; 0 is left for the session itself.
LEMMA IdsType == Ids \subseteq 0..MAX_IDS /\ Ids \subseteq Nat
BY SessionAssumption DEF Ids

\* The resets of a sweep are cells, and none of them belongs to a stream.
LEMMA AscendingType ==
    ASSUME NEW S, NEW order \in Ascending(S)
    PROVE  \E n \in Nat : DOMAIN order = 1..n /\ \A k \in 1..n : order[k] \in S
<1>1. PICK n \in 0..MAX_IDS : order \in [1..n -> S]
  BY DEF Ascending
<1> QED BY <1>1, SessionAssumption

\* Queueing a control cell keeps the control queues well typed.
LEMMA PushType ==
    ASSUME TypeOK, NEW s \in Side, NEW c \in Cell, Push(s, c)
    PROVE  controls' \in [Side -> Seq(Cell)]
BY DEF TypeOK, Push

\* Putting a cell on the circuit keeps the links well typed.
LEMMA EmitType ==
    ASSUME TypeOK, NEW s \in Side, NEW c \in Cell, Emit(s, c)
    PROVE  link' \in [Side -> Seq(Cell)]
BY PeerType DEF TypeOK, Emit

\* Noting activity keeps the clocks well typed.
LEMMA ActivityType ==
    ASSUME TypeOK, NEW s \in Side, Activity(s)
    PROVE  clock' \in [Side -> 0..2]
BY DEF TypeOK, Activity

\* The passage of time keeps the clocks well typed.
LEMMA TimeType ==
    ASSUME TypeOK, NEW s \in Side, TimePasses(s)
    PROVE  clock' \in [Side -> 0..2]
<1>1. clock \in [Side -> 0..2] /\ clock[s] < 2 /\ clock' = [clock EXCEPT ![s] = @ + 1]
  BY DEF TypeOK, TimePasses
<1>2. clock[s] \in 0..2
  BY <1>1
<1>3. clock[s] + 1 \in 0..2
  BY <1>1, <1>2
<1> QED BY <1>1, <1>3

\* A loop that ends has one of the known outcomes.
LEMMA FailType ==
    ASSUME TypeOK, NEW s \in Side, NEW why \in Errors \cup {"ok"}, Fail(s, why)
    PROVE  outcome' \in [Side -> {"running", "ok"} \cup Errors]
BY DEF TypeOK, Fail

\* Removing a stream from the map keeps both sets of identifiers well typed.
LEMMA CloseType ==
    ASSUME TypeOK, NEW s \in Side, NEW i \in Ids, Close(s, i)
    PROVE  live' \in [Side -> SUBSET Ids] /\ closed' \in [Side -> SUBSET Ids]
BY DEF TypeOK, Close

\* The next cell of a circuit is a cell, and so are those behind it.
LEMMA HeadType ==
    ASSUME TypeOK, NEW s \in Side, link[s] # <<>>
    PROVE  Head(link[s]) \in Cell /\ Tail(link[s]) \in Seq(Cell)
BY DEF TypeOK

\* The queue a tick selects from holds cells (session.rs 423-435).
LEMMA TickQueueType ==
    ASSUME TypeOK, NEW s \in Side
    PROVE  TickQueue(s) \in Seq(Cell)
<1>1. Control("SessionFinish", 0) \in Cell
  BY ControlType, SessionAssumption DEF Commands
<1> QED BY <1>1 DEF TickQueue, TypeOK

\* What a tick does after its write keeps the types (session.rs 456-465).
LEMMA AfterWriteType ==
    ASSUME TypeOK, NEW s \in Side, NEW st \in [Ids -> Stream], NEW queue \in Seq(Cell),
           AfterWrite(s, st, queue)
    PROVE  /\ stream' \in [Side -> [Ids -> Stream]] /\ live' \in [Side -> SUBSET Ids]
           /\ closed' \in [Side -> SUBSET Ids] /\ controls' \in [Side -> Seq(Cell)]
           /\ cells' \in [Side -> 0..BUCKET-1] /\ preferControl' \in [Side -> BOOLEAN]
           /\ finishing' \in BOOLEAN
<1> DEFINE retired == {i \in live[s] : Retired(st[i])}
           cancelled == {i \in live[s] \ retired : st[i].reply = "dropped"}
<1>1. retired \subseteq Ids /\ cancelled \subseteq Ids
  BY DEF TypeOK
<1>2. controls' \in [Side -> Seq(Cell)]
  <2>1. PICK order \in Ascending(cancelled) :
           controls' = [controls EXCEPT ![s] =
                   queue \o [k \in DOMAIN order |-> Control("SessionReset", order[k])]]
    BY Zenon DEF AfterWrite
  <2>2. PICK n \in Nat : DOMAIN order = 1..n /\ \A k \in 1..n : order[k] \in cancelled
    BY <1>1, <2>1, AscendingType
  <2>3. \A k \in 1..n : Control("SessionReset", order[k]) \in Cell
    BY <1>1, <2>2, ControlType, IdsType, Zenon DEF Commands
  <2>4. [k \in DOMAIN order |-> Control("SessionReset", order[k])] \in Seq(Cell)
    BY <2>2, <2>3
  <2> QED BY <2>1, <2>4 DEF TypeOK
<1>3. cells' \in [Side -> 0..BUCKET-1]
  <2>1. \A x \in 0..BUCKET-1 : (x + 1) % BUCKET \in 0..BUCKET-1
    BY SessionAssumption
  <2>2. cells \in [Side -> 0..BUCKET-1] /\ cells' = [cells EXCEPT ![s] = (cells[s] + 1) % BUCKET]
    BY Zenon DEF AfterWrite, TypeOK
  <2> QED BY <2>1, <2>2, Zenon
<1>4. stream' \in [Side -> [Ids -> Stream]]
  BY DEF AfterWrite, TypeOK
<1>5. live' \in [Side -> SUBSET Ids] /\ closed' \in [Side -> SUBSET Ids]
  BY <1>1 DEF AfterWrite, TypeOK
<1>6. preferControl' \in [Side -> BOOLEAN] /\ finishing' \in BOOLEAN
  BY DEF AfterWrite, TypeOK, StartsFinish, Idle, CanFinish
<1> QED BY <1>2, <1>3, <1>4, <1>5, <1>6

\* What `attach` makes is well typed (session.rs 196-268).
LEMMA NewTypes == NewStream(TRUE) \in Stream /\ NewStream(FALSE) \in Stream /\ NewWorker \in Worker
BY DEF NewStream, NewWorker, Stream, Worker, EmptyWindow, Window

\* Every branch of the frames handler takes the next cell off the circuit.
LEMMA FrameHead ==
    ASSUME TypeOK, NEW s \in Side, Frame(s)
    PROVE  /\ Running(s) /\ link[s] # <<>> /\ link' = [link EXCEPT ![s] = Tail(@)]
           /\ link' \in [Side -> Seq(Cell)] /\ Head(link[s]) \in Cell
<1>1. Running(s) /\ link[s] # <<>> /\ link' = [link EXCEPT ![s] = Tail(@)]
  BY Zenon DEF Frame, IgnoreCell, RejectCell, Accepts, Data, DataAck, End, SessionReset, SessionOpen,
         SessionFinish, SessionOpened, SessionRefused, SessionFinished
<1> QED BY <1>1, HeadType DEF TypeOK

\* A cell of a stream is accepted only for a stream in the map.
LEMMA AcceptedLive ==
    ASSUME TypeOK, NEW s \in Side, Accepts(s, Head(link[s]).cmd), Head(link[s]).cmd \in StreamCells
    PROVE  Head(link[s]).id \in live[s] /\ Head(link[s]).id \in Ids
<1>1. Head(link[s]).id \in live[s]
  BY DEF Accepts, Verdict
<1> QED BY <1>1 DEF TypeOK

\* The exit takes an identifier above all it has seen.
LEMMA OpenId ==
    ASSUME TypeOK, Accepts("exit", "SessionOpen")
    PROVE  Head(link["exit"]).id \in Ids /\ Head(link["exit"]).id > lastId["exit"]
<1>1. "exit" \in Side /\ lastId["exit"] \in Nat
  BY SessionAssumption DEF Side, TypeOK
<1>2. Head(link["exit"]).id \in 0..MAX_IDS
  BY <1>1, HeadType DEF Accepts, Cell
<1>3. Allowed("exit", Head(link["exit"])) /\ Head(link["exit"]).cmd = "SessionOpen"
  BY DEF Accepts, Verdict, StreamCells
<1>4. Head(link["exit"]).id > lastId["exit"]
  BY <1>3 DEF Allowed
<1> QED BY <1>1, <1>2, <1>4, SessionAssumption DEF Ids

\* The record of stream i at side s becomes r and no other record changes.
OnlyStream(s, i, r) ==
    /\ stream' \in [Side -> [Ids -> Stream]]
    /\ stream'[s][i] = r
    /\ \A p \in Side, j \in Ids : p # s \/ j # i => stream'[p][j] = stream[p][j]
OnlyWorker(s, i, r) ==
    /\ worker' \in [Side -> [Ids -> Worker]]
    /\ worker'[s][i] = r
    /\ \A p \in Side, j \in Ids : p # s \/ j # i => worker'[p][j] = worker[p][j]

\* Assigning one stream record changes that record alone.
LEMMA UpdateStream ==
    ASSUME TypeOK, NEW s \in Side, NEW i \in Ids, NEW r \in Stream,
           stream' = [stream EXCEPT ![s][i] = r]
    PROVE  OnlyStream(s, i, r)
BY DEF TypeOK, OnlyStream

\* Assigning one worker record changes that record alone.
LEMMA UpdateWorker ==
    ASSUME TypeOK, NEW s \in Side, NEW i \in Ids, NEW r \in Worker,
           worker' = [worker EXCEPT ![s][i] = r]
    PROVE  OnlyWorker(s, i, r)
BY DEF TypeOK, OnlyWorker

\* The fields of the records in a well typed state.
LEMMA RecordTypes ==
    ASSUME TypeOK, NEW s \in Side, NEW i \in Ids
    PROVE  /\ stream[s][i] \in Stream /\ worker[s][i] \in Worker
           /\ stream[s][i].window \in Window
           /\ stream[s][i].window.sent \in Nat /\ stream[s][i].window.acknowledged \in Nat
           /\ stream[s][i].received \in Nat /\ stream[s][i].written \in Nat
           /\ stream[s][i].ack \in Nat /\ stream[s][i].sentEnd \in BOOLEAN
           /\ stream[s][i].receivedEnd \in BOOLEAN /\ stream[s][i].ready \in BOOLEAN
           /\ worker[s][i].incoming \in Seq(Nat) /\ worker[s][i].got \in Seq(Nat)
           /\ worker[s][i].produced \in Nat
<1>1. stream[s][i] \in Stream /\ worker[s][i] \in Worker
  BY DEF TypeOK
<1> QED BY <1>1 DEF Stream, Worker, Window

\* Records keep their type under the updates the handlers make.
LEMMA SetReceived == \A r \in Stream, n \in Nat : [r EXCEPT !.received = n] \in Stream
BY DEF Stream

\* Records with one field replaced are still records of their kind.
LEMMA SetAck == \A r \in Stream, n \in Nat : [r EXCEPT !.ack = n] \in Stream
BY DEF Stream

\* As SetAck, for the window.
LEMMA SetWindow == \A r \in Stream, w \in Window : [r EXCEPT !.window = w] \in Stream
BY DEF Stream

\* As SetAck, for the end that was sent.
LEMMA SetSentEnd == \A r \in Stream : [r EXCEPT !.sentEnd = TRUE] \in Stream
BY Zenon DEF Stream

\* As SetAck, for the end that was received.
LEMMA SetReceivedEnd == \A r \in Stream : [r EXCEPT !.receivedEnd = TRUE] \in Stream
BY Zenon DEF Stream

\* The methods of the send window yield a window (flow.rs 16-34).
LEMMA WindowFields ==
    ASSUME NEW w \in Window, NEW n \in Nat
    PROVE  Sent(w) \in Window /\ Acknowledge(w, n) \in Window
BY DEF Window, Sent, Acknowledge

\* As SetAck, for what the reader task has queued.
LEMMA SetProduced == \A r \in Worker, n \in Nat : [r EXCEPT !.produced = n] \in Worker
BY DEF Worker

\* As SetAck, for the writer task's queue.
LEMMA SetIncoming == \A r \in Worker, q \in Seq(Nat) : [r EXCEPT !.incoming = q] \in Worker
BY Zenon DEF Worker

\* As SetAck, for a writer task that failed.
LEMMA SetFailed ==
    \A r \in Worker, q \in Seq(Nat) : [r EXCEPT !.incoming = q, !.writer = "failed"] \in Worker
BY Zenon DEF Worker

\* As SetAck, for a writer task that has shut its socket down.
LEMMA SetShut ==
    \A r \in Worker, q \in Seq(Nat) : [r EXCEPT !.incoming = q, !.writer = "shut"] \in Worker
BY Zenon DEF Worker

\* As SetAck, for a writer task that has written a piece.
LEMMA SetGot ==
    \A r \in Worker, q \in Seq(Nat), g \in Seq(Nat) :
        [r EXCEPT !.incoming = q, !.got = g] \in Worker
BY Zenon DEF Worker

\* A Written event changes the two counts of its stream (session.rs 486-490).
LEMMA WrittenEffect ==
    ASSUME TypeOK, NEW s \in Side, NEW i \in Ids, WrittenEvent(s, i),
           stream[s][i].written + 1 <= stream[s][i].received
    PROVE  OnlyStream(s, i, [stream[s][i] EXCEPT !.written = stream[s][i].written + 1,
                                                 !.ack = stream[s][i].written + 1])
<1> DEFINE count == stream[s][i].written + 1
           r == [stream[s][i] EXCEPT !.written = count, !.ack = count]
<1>1. stream[s][i] \in Stream /\ count \in Nat /\ stream[s][i].received \in Nat
  BY RecordTypes
<1>2. stream' = [stream EXCEPT ![s][i].written = count, ![s][i].ack = count]
  BY <1>1 DEF WrittenEvent
<1>3. stream \in [Side -> [Ids -> Stream]]
  BY DEF TypeOK
<1> HIDE DEF count
<1>4. stream' = [stream EXCEPT ![s][i] = r]
  BY <1>2, <1>3, Zenon
<1>5. r \in Stream
  BY <1>1, Zenon DEF Stream
<1> QED BY <1>4, <1>5, UpdateStream, Zenon DEF count

\* An opener that gives up changes its own stream alone.
LEMMA GiveUpEffect ==
    ASSUME TypeOK, NEW i \in Ids, GiveUp(i)
    PROVE  OnlyStream("client", i, [stream["client"][i] EXCEPT !.reply = "dropped"])
<1> DEFINE r == [stream["client"][i] EXCEPT !.reply = "dropped"]
<1>1. "client" \in Side /\ stream["client"][i] \in Stream
  BY RecordTypes DEF Side
<1>2. r \in Stream
  BY <1>1 DEF Stream
<1>3. stream' = [stream EXCEPT !["client"][i] = r]
  BY <1>1 DEF GiveUp, TypeOK
<1> QED BY <1>1, <1>2, <1>3, UpdateStream, Zenon

\* A Data cell is for a live stream and changes only that stream and the
\* queue of its writer task (session.rs 538-544).
LEMMA DataEffect ==
    ASSUME TypeOK, NEW s \in Side, Data(s), NEW i, i = Head(link[s]).id
    PROVE  /\ i \in Ids /\ i \in live[s]
           /\ OnlyStream(s, i, [stream[s][i] EXCEPT !.received = @ + 1])
           /\ OnlyWorker(s, i, [worker[s][i] EXCEPT !.incoming = Append(@, Head(link[s]).n)])
<1> DEFINE r == [stream[s][i] EXCEPT !.received = @ + 1]
           w == [worker[s][i] EXCEPT !.incoming = Append(@, Head(link[s]).n)]
<1>1. i \in live[s] /\ i \in Ids
  BY AcceptedLive, Zenon DEF Data, Accepts, StreamCells
<1>2. Head(link[s]).n \in Nat
  BY HeadType, Zenon DEF Data, Accepts, Cell
<1>3. /\ stream[s][i].received + 1 \in Nat
      /\ Append(worker[s][i].incoming, Head(link[s]).n) \in Seq(Nat)
  BY <1>1, <1>2, RecordTypes
<1>6. stream[s][i] \in Stream /\ worker[s][i] \in Worker
  BY <1>1, RecordTypes
<1>7. r \in Stream
  BY <1>3, <1>6, SetReceived, Zenon
<1>8. w \in Worker
  BY <1>3, <1>6, SetIncoming, Zenon
<1>4. stream' = [stream EXCEPT ![s][i] = r] /\ worker' = [worker EXCEPT ![s][i] = w]
  BY <1>1 DEF Data, TypeOK
<1> QED BY <1>1, <1>4, <1>7, <1>8, UpdateStream, UpdateWorker, Zenon

\* A DataAck cell is for a live stream and moves only its window (session.rs
\* 545).
LEMMA AckEffect ==
    ASSUME TypeOK, NEW s \in Side, DataAck(s), NEW i, i = Head(link[s]).id
    PROVE  /\ i \in Ids /\ i \in live[s]
           /\ OnlyStream(s, i, [stream[s][i] EXCEPT !.window = Acknowledge(@, Head(link[s]).n)])
<1> DEFINE r == [stream[s][i] EXCEPT !.window = Acknowledge(@, Head(link[s]).n)]
<1>1. i \in live[s] /\ i \in Ids
  BY AcceptedLive, Zenon DEF DataAck, Accepts, StreamCells
<1>2. stream[s][i] \in Stream /\ Head(link[s]) \in Cell
  BY <1>1, RecordTypes, HeadType DEF DataAck, Accepts
<1>3. r \in Stream
  BY <1>2, Zenon DEF Stream, Window, Acknowledge, Cell
<1>4. stream' = [stream EXCEPT ![s][i] = r]
  BY <1>1 DEF DataAck, TypeOK
<1> QED BY <1>1, <1>3, <1>4, UpdateStream, Zenon

\* An End cell is for a live stream and changes only that stream and the
\* queue of its writer task (session.rs 546-552).
LEMMA EndEffect ==
    ASSUME TypeOK, NEW s \in Side, End(s), NEW i, i = Head(link[s]).id
    PROVE  /\ i \in Ids /\ i \in live[s]
           /\ OnlyStream(s, i, [stream[s][i] EXCEPT !.receivedEnd = TRUE])
           /\ OnlyWorker(s, i, [worker[s][i] EXCEPT !.incoming = Append(@, 0)])
<1> DEFINE r == [stream[s][i] EXCEPT !.receivedEnd = TRUE]
           w == [worker[s][i] EXCEPT !.incoming = Append(@, 0)]
<1>1. i \in live[s] /\ i \in Ids
  BY AcceptedLive, Zenon DEF End, Accepts, StreamCells
<1>2. Append(worker[s][i].incoming, 0) \in Seq(Nat)
  BY <1>1, RecordTypes
<1>3. stream[s][i] \in Stream /\ worker[s][i] \in Worker
  BY <1>1, RecordTypes
<1>5. r \in Stream
  BY <1>3, SetReceivedEnd, Zenon
<1>6. w \in Worker
  BY <1>2, <1>3, SetIncoming, Zenon
<1>4. stream' = [stream EXCEPT ![s][i] = r] /\ worker' = [worker EXCEPT ![s][i] = w]
  BY <1>1 DEF End, TypeOK
<1> QED BY <1>1, <1>4, <1>5, <1>6, UpdateStream, UpdateWorker, Zenon

\* SessionOpened is for a live stream and makes only that one ready
\* (session.rs 524-531).
LEMMA OpenedEffect ==
    ASSUME TypeOK, SessionOpened, NEW i, i = Head(link["client"]).id
    PROVE  /\ i \in Ids /\ i \in live["client"]
           /\ OnlyStream("client", i, [stream["client"][i] EXCEPT !.ready = TRUE, !.reply = "none"])
<1> DEFINE r == [stream["client"][i] EXCEPT !.ready = TRUE, !.reply = "none"]
<1>1. i \in live["client"] /\ i \in Ids /\ "client" \in Side
  BY AcceptedLive, Zenon DEF SessionOpened, Accepts, StreamCells, Side
<1>2. stream["client"][i] \in Stream /\ stream \in [Side -> [Ids -> Stream]]
  BY <1>1, RecordTypes DEF TypeOK
<1>3. r \in Stream
  BY <1>2, Zenon DEF Stream
<1>4. stream' = [stream EXCEPT !["client"][i].ready = TRUE, !["client"][i].reply = "none"]
  BY Zenon DEF SessionOpened
<1>5. stream' = [stream EXCEPT !["client"][i] = r]
  BY <1>1, <1>2, <1>4, Zenon
<1> QED BY <1>1, <1>3, <1>5, UpdateStream, Zenon

\* Serving a stream changes that stream alone, in one of three ways
\* (session.rs 445-450).
LEMMA ServingEffect ==
    ASSUME TypeOK, NEW s \in Side, NEW i \in Ids
    PROVE  /\ AfterServing(s, i) \in [Ids -> Stream]
           /\ \A j \in Ids \ {i} : AfterServing(s, i)[j] = stream[s][j]
           /\ HasAck(s, i) => AfterServing(s, i)[i] = [stream[s][i] EXCEPT !.ack = 0]
           /\ ~HasAck(s, i) /\ HasData(s, i) =>
                  AfterServing(s, i)[i] = [stream[s][i] EXCEPT !.window = Sent(stream[s][i].window)]
           /\ ~HasAck(s, i) /\ ~HasData(s, i) =>
                  AfterServing(s, i)[i] = [stream[s][i] EXCEPT !.sentEnd = TRUE]
<1> DEFINE r == CASE HasAck(s, i) -> [stream[s][i] EXCEPT !.ack = 0]
                  [] ~HasAck(s, i) /\ HasData(s, i) ->
                         [stream[s][i] EXCEPT !.window = Sent(stream[s][i].window)]
                  [] OTHER -> [stream[s][i] EXCEPT !.sentEnd = TRUE]
<1>1. /\ stream[s] \in [Ids -> Stream] /\ stream[s][i] \in Stream
      /\ Sent(stream[s][i].window) \in Window
  BY RecordTypes, WindowFields DEF TypeOK
<1>2. AfterServing(s, i) = [stream[s] EXCEPT ![i] = r]
  BY DEF AfterServing
<1>3. HasAck(s, i) => r = [stream[s][i] EXCEPT !.ack = 0]
  OBVIOUS
<1>4. ~HasAck(s, i) /\ HasData(s, i) =>
        r = [stream[s][i] EXCEPT !.window = Sent(stream[s][i].window)]
  OBVIOUS
<1>5. ~HasAck(s, i) /\ ~HasData(s, i) => r = [stream[s][i] EXCEPT !.sentEnd = TRUE]
  OBVIOUS
<1> HIDE DEF r
<1>6. r \in Stream
  <2>1. CASE HasAck(s, i)
    BY <1>1, <1>3, <2>1, SetAck, Zenon
  <2>2. CASE ~HasAck(s, i) /\ HasData(s, i)
    BY <1>1, <1>4, <2>2, SetWindow, Zenon
  <2>3. CASE ~HasAck(s, i) /\ ~HasData(s, i)
    BY <1>1, <1>5, <2>3, SetSentEnd, Zenon
  <2> QED BY <2>1, <2>2, <2>3
<1> QED BY <1>1, <1>2, <1>3, <1>4, <1>5, <1>6, Zenon

\* Taking a piece off the writer's queue and handing it over keeps the types.
LEMMA TakeType ==
    ASSUME NEW q \in Seq(Nat), q # <<>>
    PROVE  Tail(q) \in Seq(Nat) /\ \A g \in Seq(Nat) : Append(g, Head(q)) \in Seq(Nat)
OBVIOUS

\* What each step of the two tasks does to the record of its stream
\* (session.rs 206-250).
LEMMA TaskEffect ==
    ASSUME TypeOK, NEW s \in Side, NEW i \in Ids
    PROVE  /\ Read(s, i) => OnlyWorker(s, i, [worker[s][i] EXCEPT !.produced = worker[s][i].produced + 1])
           /\ \A how \in {"eof", "failed"} : ReadStops(s, i, how) =>
                  OnlyWorker(s, i, [worker[s][i] EXCEPT !.reader = how])
           /\ WriteFails(s, i) =>
                  OnlyWorker(s, i, [worker[s][i] EXCEPT !.incoming = <<>>, !.writer = "failed"])
           /\ Write(s, i) /\ Head(worker[s][i].incoming) = 0 =>
                  OnlyWorker(s, i, [worker[s][i] EXCEPT !.incoming = Tail(worker[s][i].incoming),
                                                        !.writer = "shut"])
           /\ Write(s, i) /\ Head(worker[s][i].incoming) # 0 =>
                  OnlyWorker(s, i, [worker[s][i] EXCEPT !.incoming = Tail(worker[s][i].incoming),
                                !.got = Append(worker[s][i].got, Head(worker[s][i].incoming))])
<1> DEFINE w == worker[s][i]
<1>1. worker[s][i] \in Worker /\ worker \in [Side -> [Ids -> Worker]]
  BY DEF TypeOK
<1>2. ASSUME Read(s, i)
      PROVE  OnlyWorker(s, i, [worker[s][i] EXCEPT !.produced = worker[s][i].produced + 1])
  <2>1. [worker[s][i] EXCEPT !.produced = worker[s][i].produced + 1] \in Worker
    <3>1. worker[s][i].produced + 1 \in Nat
      BY RecordTypes
    <3> QED BY <1>1, <3>1, SetProduced, Zenon
  <2>2. worker' = [worker EXCEPT ![s][i] = [worker[s][i] EXCEPT !.produced = worker[s][i].produced + 1]]
    BY <1>1, <1>2 DEF Read
  <2> QED BY <2>1, <2>2, UpdateWorker, Zenon
<1>3. ASSUME NEW how \in {"eof", "failed"}, ReadStops(s, i, how)
      PROVE  OnlyWorker(s, i, [worker[s][i] EXCEPT !.reader = how])
  <2>1. [worker[s][i] EXCEPT !.reader = how] \in Worker
    BY <1>1, Zenon DEF Worker
  <2>2. worker' = [worker EXCEPT ![s][i] = [worker[s][i] EXCEPT !.reader = how]]
    BY <1>1, <1>3 DEF ReadStops
  <2> QED BY <2>1, <2>2, UpdateWorker, Zenon
<1>4. ASSUME WriteFails(s, i)
      PROVE  OnlyWorker(s, i, [worker[s][i] EXCEPT !.incoming = <<>>, !.writer = "failed"])
  <2>1. [worker[s][i] EXCEPT !.incoming = <<>>, !.writer = "failed"] \in Worker
    <3>1. <<>> \in Seq(Nat)
      OBVIOUS
    <3> QED BY <1>1, <3>1, SetFailed, Zenon
  <2>2. worker' = [worker EXCEPT ![s][i].incoming = <<>>, ![s][i].writer = "failed"]
    BY <1>4 DEF WriteFails
  <2>3. worker' = [worker EXCEPT ![s][i] =
                       [worker[s][i] EXCEPT !.incoming = <<>>, !.writer = "failed"]]
    BY <1>1, <2>2, Zenon
  <2> QED BY <2>1, <2>3, UpdateWorker, Zenon
<1>5. ASSUME Write(s, i), Head(w.incoming) = 0
      PROVE  OnlyWorker(s, i, [w EXCEPT !.incoming = Tail(w.incoming), !.writer = "shut"])
  <2>1. Tail(w.incoming) \in Seq(Nat)
    <3>1. w.incoming \in Seq(Nat) /\ w.incoming # <<>>
      BY <1>5, RecordTypes, Zenon DEF Write
    <3> QED BY <3>1, TakeType, Zenon
  <2>2. worker' = [worker EXCEPT ![s][i].incoming = Tail(w.incoming), ![s][i].writer = "shut"]
    BY <1>5, Zenon DEF Write
  <2>3. worker' = [worker EXCEPT ![s][i] =
                       [w EXCEPT !.incoming = Tail(w.incoming), !.writer = "shut"]]
    BY <1>1, <2>2, Zenon
  <2>4. [w EXCEPT !.incoming = Tail(w.incoming), !.writer = "shut"] \in Worker
    BY <1>1, <2>1, SetShut, Zenon
  <2> QED BY <2>3, <2>4, UpdateWorker, Zenon
<1>6. ASSUME Write(s, i), Head(w.incoming) # 0
      PROVE  OnlyWorker(s, i, [w EXCEPT !.incoming = Tail(w.incoming),
                                        !.got = Append(w.got, Head(w.incoming))])
  <2> DEFINE more == Append(w.got, Head(w.incoming))
  <2>1. Tail(w.incoming) \in Seq(Nat) /\ more \in Seq(Nat)
    <3>1. w.incoming \in Seq(Nat) /\ w.got \in Seq(Nat) /\ w.incoming # <<>>
      BY <1>6, RecordTypes, Zenon DEF Write
    <3> QED BY <3>1, TakeType, Zenon
  <2>2. worker' = [worker EXCEPT ![s][i].incoming = Tail(w.incoming), ![s][i].got = more]
    BY <1>1, <1>6, Zenon DEF Write
  <2>3. worker' = [worker EXCEPT ![s][i] =
                       [w EXCEPT !.incoming = Tail(w.incoming), !.got = more]]
    BY <1>1, <2>2, Zenon
  <2>4. [w EXCEPT !.incoming = Tail(w.incoming), !.got = more] \in Worker
    BY <1>1, <2>1, SetGot, Zenon
  <2> QED BY <2>3, <2>4, UpdateWorker, Zenon
<1> QED BY <1>2, <1>3, <1>4, <1>5, <1>6

\* Every step of a session, a stutter included, keeps the types.
LEMMA StepTypeOK == TypeOK /\ [Next]_vars => TypeOK'
<1> SUFFICES ASSUME TypeOK, [Next]_vars PROVE TypeOK'
  OBVIOUS
<1> USE IdsType
<1>1. ASSUME NEW s \in Side, NEW why \in Errors \cup {"ok"}, Fail(s, why),
             UNCHANGED <<streamVars, controls, tickVars, finishVars>>,
             link' \in [Side -> Seq(Cell)]
      PROVE  TypeOK'
  BY <1>1, FailType, Zenon DEF TypeOK, streamVars, tickVars, finishVars
<1>2. ASSUME NEW s \in Side, ControlBudget(s) \/ Abort(s) \/ Truncated(s) PROVE TypeOK'
  <2>1. link' \in [Side -> Seq(Cell)]
    BY <1>2 DEF ControlBudget, Abort, Truncated, TypeOK
  <2> QED BY <1>1, <1>2, <2>1 DEF ControlBudget, Abort, Truncated, Errors
<1>3. ASSUME NEW s \in Side, TimePasses(s) PROVE TypeOK'
  <2>1. clock' \in [Side -> 0..2]
    BY <1>3, TimeType
  <2> QED BY <1>3, <2>1 DEF TypeOK, TimePasses, streamVars, tickVars
<1>4. ASSUME NEW s \in Side, Tick(s) PROVE TypeOK'
  <2>1. CASE TickControl(s)
    <3>1. TickQueue(s) \in Seq(Cell) /\ TickQueue(s) # <<>>
      BY <2>1, TickQueueType DEF TickControl
    <3>2. Head(TickQueue(s)) \in Cell /\ Tail(TickQueue(s)) \in Seq(Cell)
      BY <3>1
    <3>3. link' \in [Side -> Seq(Cell)]
      BY <2>1, <3>2, EmitType DEF TickControl
    <3>4. stream[s] \in [Ids -> Stream]
      BY DEF TypeOK
    <3> QED BY <2>1, <3>2, <3>3, <3>4, AfterWriteType, Zenon DEF TypeOK, TickControl, AfterWrite
  <2>2. CASE TickStream(s)
    <3>1. PICK i \in Ids : /\ Selected(s, i)
                           /\ Emit(s, StreamCell(s, i))
                           /\ AfterWrite(s, AfterServing(s, i), TickQueue(s))
                           /\ cursor' = [cursor EXCEPT ![s] = i]
      BY <2>2, Zenon DEF TickStream
    <3>2. stream[s] \in [Ids -> Stream] /\ stream[s][i] \in Stream
      BY DEF TypeOK
    <3>3. StreamCell(s, i) \in Cell
      BY <3>2, ControlType DEF StreamCell, Cell, Stream, Window, Commands, StreamCells
    <3>4. AfterServing(s, i) \in [Ids -> Stream]
      BY ServingEffect, Zenon
    <3>5. link' \in [Side -> Seq(Cell)]
      BY <3>1, <3>3, EmitType
    <3>6. cursor' \in [Side -> 0..MAX_IDS]
      BY <3>1 DEF TypeOK
    <3> QED BY <3>1, <3>4, <3>5, <3>6, AfterWriteType, TickQueueType, Zenon DEF TypeOK, AfterWrite
  <2>3. CASE TickDummy(s)
    <3>1. stream[s] \in [Ids -> Stream] /\ <<>> \in Seq(Cell)
      BY DEF TypeOK
    <3> QED BY <2>3, <3>1, AfterWriteType, Zenon DEF TypeOK, TickDummy, AfterWrite
  <2>4. CASE TickFinished(s)
    <3>1. Control("SessionFinished", 0) \in Cell
      BY ControlType, SessionAssumption DEF Commands
    <3> QED BY <1>1, <2>4, <3>1, EmitType DEF TickFinished
  <2> QED BY <1>4, <2>1, <2>2, <2>3, <2>4 DEF Tick
<1>5. ASSUME OpenRequest PROVE TypeOK'
  <2>1. lastId["client"] + 1 \in Ids
    <3>1. lastId["client"] \in 0..MAX_IDS /\ lastId["client"] < MAX_IDS
      BY <1>5 DEF OpenRequest, MayOpen, TypeOK, Side
    <3> QED BY <3>1, SessionAssumption DEF Ids
  <2>2. NewStream(FALSE) \in Stream /\ NewWorker \in Worker
    BY NewTypes, Zenon
  <2>3. controls' \in [Side -> Seq(Cell)]
    BY <1>5, <2>1, ControlType, PushType, Zenon DEF OpenRequest, Side, Commands
  <2>4. clock' \in [Side -> 0..2]
    BY <1>5, ActivityType DEF OpenRequest, Side
  <2>5. stream' \in [Side -> [Ids -> Stream]] /\ worker' \in [Side -> [Ids -> Worker]]
    BY <1>5, <2>1, <2>2, Zenon DEF OpenRequest, TypeOK
  <2>6. live' \in [Side -> SUBSET Ids] /\ lastId' \in [Side -> 0..MAX_IDS]
    BY <1>5, <2>1, Zenon DEF OpenRequest, TypeOK
  <2> QED BY <1>5, <2>3, <2>4, <2>5, <2>6, Zenon DEF OpenRequest, TypeOK, tickVars
<1>6. ASSUME NEW i \in Ids, GiveUp(i) PROVE TypeOK'
  <2>1. stream' \in [Side -> [Ids -> Stream]]
    BY <1>6, GiveUpEffect, Zenon DEF OnlyStream
  <2> QED BY <1>6, <2>1, Zenon DEF GiveUp, TypeOK, tickVars, finishVars
<1>7. ASSUME NEW s \in Side, NEW i \in Ids, WrittenEvent(s, i) PROVE TypeOK'
  <2>1. stream' \in [Side -> [Ids -> Stream]]
    <3>1. CASE stream[s][i].written + 1 <= stream[s][i].received
      BY <1>7, <3>1, WrittenEffect, Zenon DEF OnlyStream
    <3>2. CASE ~(stream[s][i].written + 1 <= stream[s][i].received)
      <4>1. stream[s][i].written + 1 > stream[s][i].received
        BY <3>2, RecordTypes
      <4> QED BY <1>7, <4>1 DEF WrittenEvent, TypeOK
    <3> QED BY <3>1, <3>2
  <2>2. outcome' \in [Side -> {"running", "ok"} \cup Errors]
    BY <1>7, FailType DEF WrittenEvent, TypeOK, Errors
  <2> QED BY <1>7, <2>1, <2>2, Zenon DEF WrittenEvent, TypeOK, tickVars, finishVars
<1>8. ASSUME NEW i \in Ids, NEW accepted \in BOOLEAN, ConnectedEvent(i, accepted) PROVE TypeOK'
  <2>2. NewStream(TRUE) \in Stream /\ NewWorker \in Worker
    BY NewTypes, Zenon
  <2>3. controls' \in [Side -> Seq(Cell)]
    BY <1>8, ControlType, PushType, Zenon DEF ConnectedEvent, Side, Commands, StreamCells
  <2>5. stream' \in [Side -> [Ids -> Stream]] /\ worker' \in [Side -> [Ids -> Worker]]
    <3>1. CASE accepted
      <4>1. /\ stream' = [stream EXCEPT !["exit"][i] = NewStream(TRUE)]
            /\ worker' = [worker EXCEPT !["exit"][i] = NewWorker]
        BY <1>8, <3>1, Zenon DEF ConnectedEvent
      <4> QED BY <2>2, <4>1, UpdateStream, UpdateWorker, Zenon DEF Side, OnlyStream, OnlyWorker
    <3>2. CASE ~accepted
      BY <1>8, <3>2 DEF ConnectedEvent, TypeOK
    <3> QED BY <3>1, <3>2
  <2>6. live' \in [Side -> SUBSET Ids]
    <3>1. CASE accepted
      <4>1. live' = [live EXCEPT !["exit"] = @ \cup {i}]
        BY <1>8, <3>1 DEF ConnectedEvent
      <4> QED BY <4>1, Zenon DEF TypeOK
    <3>2. CASE ~accepted
      BY <1>8, <3>2 DEF ConnectedEvent, TypeOK
    <3> QED BY <3>1, <3>2
  <2>7. connecting' \in SUBSET Ids
    BY <1>8 DEF ConnectedEvent, TypeOK
  <2> QED BY <1>8, <2>3, <2>5, <2>6, <2>7, Zenon DEF ConnectedEvent, TypeOK, tickVars, finishVars
<1>9. ASSUME NEW s \in Side, NEW i \in Ids, FailedEvent(s, i) PROVE TypeOK'
  <2>1. controls' \in [Side -> Seq(Cell)]
    BY <1>9, ControlType, PushType, Zenon DEF FailedEvent, Commands
  <2> QED BY <1>9, <2>1, CloseType, Zenon DEF FailedEvent, TypeOK, tickVars, finishVars
<1>10. ASSUME NEW s \in Side, NEW i \in Ids, taskUnchanged,
              worker' \in [Side -> [Ids -> Worker]]
       PROVE  TypeOK'
  BY <1>10 DEF taskUnchanged, TypeOK, tickVars, finishVars
<1>11. ASSUME NEW s \in Side, NEW i \in Ids,
              \/ Read(s, i) \/ Write(s, i) \/ WriteFails(s, i)
              \/ \E how \in {"eof", "failed"} : ReadStops(s, i, how)
       PROVE  TypeOK'
  <2>1. worker' \in [Side -> [Ids -> Worker]]
    BY <1>11, TaskEffect, Zenon DEF OnlyWorker
  <2>2. taskUnchanged
    BY <1>11, Zenon DEF Read, Write, WriteFails, ReadStops
  <2> QED BY <1>10, <2>1, <2>2
<1>12. ASSUME NEW s \in Side, Frame(s) PROVE TypeOK'
  <2>1. /\ Running(s) /\ link[s] # <<>> /\ link' = [link EXCEPT ![s] = Tail(@)]
        /\ link' \in [Side -> Seq(Cell)] /\ Head(link[s]) \in Cell
    BY <1>12, FrameHead, Zenon
  <2>2. CASE IgnoreCell(s)
    BY <2>1, <2>2 DEF IgnoreCell, TypeOK, streamVars, tickVars, finishVars
  <2>3. CASE RejectCell(s)
    BY <1>1, <2>1, <2>3 DEF RejectCell
  <2>4. ASSUME Accepts(s, Head(link[s]).cmd), Head(link[s]).cmd \in StreamCells
        PROVE  Head(link[s]).id \in live[s] /\ Head(link[s]).id \in Ids
    BY <2>4, AcceptedLive
  <2>5. CASE Data(s)
    BY <2>1, <2>5, DataEffect, ActivityType, Zenon DEF OnlyStream, OnlyWorker, Data, TypeOK, tickVars
  <2>6. CASE DataAck(s)
    BY <2>1, <2>6, AckEffect, Zenon DEF OnlyStream, DataAck, TypeOK, tickVars, finishVars
  <2>7. CASE End(s)
    BY <2>1, <2>7, EndEffect, ActivityType, Zenon DEF OnlyStream, OnlyWorker, End, TypeOK, tickVars
  <2>8. CASE SessionReset(s)
    <3>1. Head(link[s]).id \in Ids
      BY <2>1, <2>8 DEF SessionReset, Accepts, Verdict, Allowed, StreamCells, Cell, Ids
    <3>2. connecting' \in SUBSET Ids
      BY <2>8, Zenon DEF SessionReset, TypeOK
    <3> QED BY <2>1, <2>8, <3>1, <3>2, CloseType, Zenon DEF SessionReset, TypeOK, tickVars, finishVars
  <2>9. CASE s = "exit" /\ SessionOpen
    <3>1. Head(link["exit"]).id \in Ids
      BY <2>9, OpenId, Zenon DEF SessionOpen
    <3>2. controls' \in [Side -> Seq(Cell)]
      BY <2>9, <3>1, ControlType, PushType, Zenon DEF SessionOpen, TypeOK, Commands, StreamCells
    <3>3. clock' \in [Side -> 0..2]
      BY <2>9, ActivityType DEF SessionOpen, TypeOK
    <3>4. lastId' \in [Side -> 0..MAX_IDS] /\ connecting' \in SUBSET Ids
      BY <2>9, <3>1, Zenon DEF SessionOpen, TypeOK
    <3> QED BY <2>1, <2>9, <3>2, <3>3, <3>4, Zenon DEF SessionOpen, TypeOK, tickVars
  <2>10. CASE s = "exit" /\ SessionFinish
    BY <2>1, <2>10, Zenon DEF SessionFinish, TypeOK, streamVars, tickVars
  <2>11. CASE s = "client" /\ SessionOpened
    <3>1. Head(link["client"]).id \in Ids
      BY <2>4, <2>11, Zenon DEF SessionOpened, Accepts, StreamCells
    <3>2. stream' \in [Side -> [Ids -> Stream]]
      BY <2>11, OpenedEffect, Zenon DEF OnlyStream
    <3>3. controls' \in [Side -> Seq(Cell)]
      BY <2>11, <3>1, ControlType, PushType, Zenon DEF SessionOpened, TypeOK, Commands
    <3>4. live' \in [Side -> SUBSET Ids] /\ closed' \in [Side -> SUBSET Ids]
      BY <2>11, <3>1, CloseType, Zenon DEF SessionOpened, TypeOK
    <3> QED BY <2>1, <2>11, <3>2, <3>3, <3>4, Zenon DEF SessionOpened, TypeOK, tickVars, finishVars
  <2>12. CASE s = "client" /\ SessionRefused
    <3>1. Head(link["client"]).id \in Ids
      BY <2>4, <2>12 DEF SessionRefused, Accepts, StreamCells
    <3> QED BY <2>1, <2>12, <3>1, CloseType, Zenon DEF SessionRefused, TypeOK, tickVars, finishVars
  <2>13. CASE s = "client" /\ SessionFinished
    BY <1>1, <2>1, <2>13 DEF SessionFinished
  <2> QED BY <1>12, <2>2, <2>3, <2>5, <2>6, <2>7, <2>8, <2>9, <2>10, <2>11, <2>12, <2>13, Zenon DEF Frame
<1>13. CASE UNCHANGED vars
  BY <1>13 DEF vars, streamVars, tickVars, finishVars, TypeOK
<1> QED
  BY <1>2, <1>3, <1>4, <1>5, <1>6, <1>7, <1>8, <1>9, <1>11, <1>12, <1>13 DEF Next

\* Type correctness: every variable of the two loops, their workers and the
\* circuit keeps the shape the code declares (session.rs 109-190, 395-413).
THEOREM TypeCorrect == Spec => []TypeOK
BY InitTypeOK, StepTypeOK, PTL DEF Spec
=============================================================================
