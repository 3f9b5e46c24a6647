--------------------------- MODULE PaddedSession ---------------------------
(***************************************************************************)
(* A padded onion session (onion/session.rs): the two actors that run the  *)
(* same loop `run`, one at the client and one at the exit, joined by the   *)
(* circuit, which delivers cells in order in each direction.               *)
(*                                                                         *)
(* Each loop owns a map of streams, a queue of control cells and a clock   *)
(* that lets it emit one cell per tick.  Around each stream run a reader   *)
(* task and a writer task (`attach`) that join it to the application at    *)
(* the client, and to the destination socket at the exit.                  *)
(*                                                                         *)
(* A dummy cell changes nothing at its receiver and is not put on the      *)
(* link.  Time is a phase per loop: the one-second warm-up, the session    *)
(* proper, and "enough age and idleness to finish".                        *)
(***************************************************************************)
EXTENDS SendWindow, Sequences, FiniteSets

CONSTANTS
    MAX_STREAMS,    \* streams a loop keeps at once
    MAX_IDS,        \* stream identifiers of a session
    QUEUE,          \* pieces the reader task may queue; the writer's queue has one more
    MAX_CONTROLS,   \* control cells a loop may have pending
    BUCKET,         \* a session finishes on a multiple of this many cells
    FixedWindow,    \* the fixed-window profile, whose finish ignores idleness
    MaxData,        \* bound: MaxData[s] pieces of data per stream read at side s
    Faults          \* bound: the mishaps of the environment that may happen

ASSUME SessionAssumption ==
    /\ MAX_STREAMS \in Nat \ {0} /\ MAX_IDS \in Nat \ {0} /\ MAX_CONTROLS \in Nat
    /\ QUEUE = WINDOW_CELLS  \* session.rs and flow.rs both say 32
    /\ BUCKET \in Nat \ {0} /\ FixedWindow \in BOOLEAN
    /\ MaxData \in [{"client", "exit"} -> Nat]
    /\ Faults \subseteq {"abort", "give_up", "read", "write"}

VARIABLES
    live,           \* live[s]: the keys of the map `streams`
    stream,         \* stream[s][i]: the value of that map
    worker,         \* worker[s][i]: the tasks of `attach` and the socket they serve
    closed,         \* closed[s]: identifiers of streams that were removed
    connecting,     \* exit only: destinations being connected
    lastId,         \* lastId[s]: highest identifier opened
    controls,       \* controls[s]: control cells waiting for a tick
    preferControl,  \* preferControl[s]: the tick's alternation
    cursor,         \* cursor[s]: the stream served last
    cells,          \* cells[s]: cells emitted, modulo BUCKET
    clock,          \* clock[s]: 0 warm-up, 1 running, 2 may finish
    finishing,      \* client only: SessionFinish was queued
    peerFinish,     \* exit only: SessionFinish was received
    outcome,        \* outcome[s]: "running", "ok", or why the loop ended
    link            \* link[s]: cells on their way to s

streamVars == <<live, stream, worker, closed, connecting, lastId>>
tickVars == <<preferControl, cursor, cells>>
finishVars == <<clock, finishing, peerFinish>>
vars == <<streamVars, controls, tickVars, finishVars, outcome, link>>

Side == {"client", "exit"}
Peer(s) == IF s = "client" THEN "exit" ELSE "client"
Ids == 1..MAX_IDS

StreamCells == {"Data", "DataAck", "End", "SessionOpened", "SessionRefused"}
Commands == StreamCells \cup
    {"SessionOpen", "SessionReset", "SessionFinish", "SessionFinished"}

\* A cell: `n` is the number of the piece of data it carries, or the
\* cumulative count of an acknowledgement, and 0 in the other cells.
Cell == [cmd : Commands, id : 0..MAX_IDS, n : Nat]
Control(cmd, i) == [cmd |-> cmd, id |-> i, n |-> 0]

\* Why a loop ended with an error: the code's messages, told apart by cause.
Errors == {"unknown", "premature", "duplicate", "credit", "full", "worker_gone",
           "ack", "written", "command", "controls", "truncated", "aborted"}

\* reply: the opener still waits, has given up, or was answered.
Stream == [window : Window, received : Nat, written : Nat, ack : Nat,
           sentEnd : BOOLEAN, receivedEnd : BOOLEAN, ready : BOOLEAN,
           reply : {"waiting", "dropped", "none"}]

\* produced: pieces the reader task has queued.  incoming: the writer task's
\* queue, where 0 stands for the end of the stream.  got: pieces written to
\* the socket.
Worker == [produced : Nat, reader : {"reading", "eof", "failed"},
           incoming : Seq(Nat), got : Seq(Nat), writer : {"writing", "shut", "failed"}]

\* The Stream `attach` returns; the client's waits for SessionOpened.
NewStream(isReady) ==
    [window |-> EmptyWindow, received |-> 0, written |-> 0, ack |-> 0,
     sentEnd |-> FALSE, receivedEnd |-> FALSE, ready |-> isReady,
     reply |-> IF isReady THEN "none" ELSE "waiting"]
NewWorker == [produced |-> 0, reader |-> "reading", incoming |-> <<>>, got |-> <<>>,
              writer |-> "writing"]

TypeOK ==
    /\ live \in [Side -> SUBSET Ids]
    /\ stream \in [Side -> [Ids -> Stream]]
    /\ worker \in [Side -> [Ids -> Worker]]
    /\ closed \in [Side -> SUBSET Ids]
    /\ connecting \in SUBSET Ids
    /\ lastId \in [Side -> 0..MAX_IDS]
    /\ controls \in [Side -> Seq(Cell)]
    /\ preferControl \in [Side -> BOOLEAN]
    /\ cursor \in [Side -> 0..MAX_IDS]
    /\ cells \in [Side -> 0..BUCKET-1]
    /\ clock \in [Side -> 0..2]
    /\ finishing \in BOOLEAN
    /\ peerFinish \in BOOLEAN
    /\ outcome \in [Side -> {"running", "ok"} \cup Errors]
    /\ link \in [Side -> Seq(Cell)]

Init ==
    /\ live = [s \in Side |-> {}]
    /\ stream = [s \in Side |-> [i \in Ids |-> NewStream(s = "exit")]]
    /\ worker = [s \in Side |-> [i \in Ids |-> NewWorker]]
    /\ closed = [s \in Side |-> {}]
    /\ connecting = {}
    /\ lastId = [s \in Side |-> 0]
    /\ controls = [s \in Side |-> <<>>]
    /\ preferControl = [s \in Side |-> FALSE]
    /\ cursor = [s \in Side |-> 0]
    /\ cells = [s \in Side |-> 0]
    /\ clock = [s \in Side |-> 0]
    /\ finishing = FALSE
    /\ peerFinish = FALSE
    /\ outcome = [s \in Side |-> "running"]
    /\ link = [s \in Side |-> <<>>]
-----------------------------------------------------------------------------
(* The top of the loop: it goes on unless the control budget is exceeded.  *)

Running(s) == outcome[s] = "running" /\ Len(controls[s]) <= MAX_CONTROLS

Fail(s, why) == outcome' = [outcome EXCEPT ![s] = why]

ControlBudget(s) ==
    /\ outcome[s] = "running" /\ Len(controls[s]) > MAX_CONTROLS
    /\ Fail(s, "controls")
    /\ UNCHANGED <<streamVars, controls, tickVars, finishVars, link>>

\* The 300 s lifetime, an I/O error or timeout of the circuit, or (at the
\* client) the last handle dropped.
Abort(s) ==
    /\ "abort" \in Faults
    /\ Running(s)
    /\ Fail(s, "aborted")
    /\ UNCHANGED <<streamVars, controls, tickVars, finishVars, link>>

\* `frames` yields nothing more once the peer's half of the circuit is gone.
Truncated(s) ==
    /\ Running(s) /\ link[s] = <<>> /\ outcome[Peer(s)] # "running"
    /\ Fail(s, "truncated")
    /\ UNCHANGED <<streamVars, controls, tickVars, finishVars, link>>

\* `activity = Instant::now()`
Activity(s) == clock' = [clock EXCEPT ![s] = IF @ = 2 /\ ~FixedWindow THEN 1 ELSE @]

TimePasses(s) ==
    /\ outcome[s] = "running" /\ clock[s] < 2
    /\ clock' = [clock EXCEPT ![s] = @ + 1]
    /\ UNCHANGED <<streamVars, controls, tickVars, finishing, peerFinish, outcome, link>>

Push(s, c) == controls' = [controls EXCEPT ![s] = Append(@, c)]

\* Bug variant: the identifier is not remembered.
CloseAndForget(s, i) == live' = [live EXCEPT ![s] = @ \ {i}] /\ UNCHANGED closed

\* Remove a stream from the map and remember that it was there.
Close(s, i) ==
    /\ live' = [live EXCEPT ![s] = @ \ {i}]
    /\ closed' = [closed EXCEPT ![s] = @ \cup {i}]
-----------------------------------------------------------------------------
(* The clock branch: one cell per tick, then streams are retired and swept. *)

Idle(s) ==
    /\ live[s] = {} /\ controls[s] = <<>>
    /\ s = "exit" => connecting = {}

CanFinish(s) == clock[s] = 2 /\ (cells[s] + 1) % BUCKET = 0

StartsFinish(s) == s = "client" /\ Idle(s) /\ CanFinish(s) /\ ~finishing

EndsSession(s) == s = "exit" /\ Idle(s) /\ CanFinish(s) /\ peerFinish

\* The control queue the tick selects from.
TickQueue(s) ==
    IF StartsFinish(s) THEN <<Control("SessionFinish", 0)>> ELSE controls[s]

\* `preferControl` is flipped first, so FALSE means this tick prefers controls.
ControlFirst(s) == ~preferControl[s] /\ TickQueue(s) # <<>>

HasLateAck(s, i) == stream[s][i].ack > 1

HasData(s, i) == worker[s][i].produced > stream[s][i].window.sent
HasAck(s, i) == stream[s][i].ack # 0
MaySend(s, i) == ~stream[s][i].sentEnd /\ Available(stream[s][i].window)

\* The streams the round robin would not skip.
Eligible(s) ==
    {i \in live[s] : /\ stream[s][i].ready
                     /\ \/ HasAck(s, i)
                        \/ MaySend(s, i) /\ (HasData(s, i) \/ worker[s][i].reader # "reading")}

\* The first of them after the cursor, in cyclic order.
Selected(s, i) ==
    /\ i \in Eligible(s)
    /\ \/ i > cursor[s] /\ \A j \in Eligible(s) : j > cursor[s] => i <= j
       \/ \A j \in Eligible(s) : j <= cursor[s] /\ i <= j

ServesStream(s) == ~ControlFirst(s) /\ clock[s] > 0 /\ Eligible(s) # {}

Retired(st) ==
    /\ st.sentEnd /\ st.receivedEnd /\ Drained(st.window)
    /\ st.received = st.written /\ st.ack = 0

\* The one ascending enumeration of a set of identifiers.
Ascending(S) ==
    {f \in UNION {[1..n -> S] : n \in 0..MAX_IDS} :
        /\ \A j, k \in DOMAIN f : j < k => f[j] < f[k]
        /\ \A i \in S : \E k \in DOMAIN f : f[k] = i}

\* What every tick does after its write: count the cell, retire the drained
\* streams, then reset the streams whose opener has given up.  `st` is the
\* map of streams and `queue` the control queue the selection has left.
AfterWrite(s, st, queue) ==
    LET retired == {i \in live[s] : Retired(st[i])}
        cancelled == {i \in live[s] \ retired : st[i].reply = "dropped"}
    IN  /\ stream' = [stream EXCEPT ![s] = st]
        /\ live' = [live EXCEPT ![s] = @ \ (retired \cup cancelled)]
        /\ closed' = [closed EXCEPT ![s] = @ \cup retired \cup cancelled]
        /\ \E order \in Ascending(cancelled) :
               controls' = [controls EXCEPT ![s] =
                   queue \o [k \in DOMAIN order |-> Control("SessionReset", order[k])]]
        /\ cells' = [cells EXCEPT ![s] = (@ + 1) % BUCKET]
        /\ preferControl' = [preferControl EXCEPT ![s] = ~@]
        /\ finishing' = (finishing \/ StartsFinish(s))
        /\ UNCHANGED <<worker, connecting, lastId, clock, peerFinish, outcome>>

Emit(s, c) == link' = [link EXCEPT ![Peer(s)] = Append(@, c)]

TickControl(s) ==
    /\ Running(s) /\ ~EndsSession(s)
    /\ ~ServesStream(s) /\ TickQueue(s) # <<>>
    /\ Emit(s, Head(TickQueue(s)))
    /\ AfterWrite(s, stream[s], Tail(TickQueue(s)))
    /\ UNCHANGED cursor

\* Bug variant: what was received, not what was written, is acknowledged.
StreamCellEager(s, i) ==
    LET st == stream[s][i]
    IN  CASE HasAck(s, i) -> [cmd |-> "DataAck", id |-> i, n |-> st.received]
          [] ~HasAck(s, i) /\ HasData(s, i) ->
                 [cmd |-> "Data", id |-> i, n |-> st.window.sent + 1]
          [] OTHER -> Control("End", i)

\* An acknowledgement first, else the next piece of data, else the end of
\* the stream once its reader has stopped and its queue is empty.
StreamCell(s, i) ==
    LET st == stream[s][i]
    IN  CASE HasAck(s, i) -> [cmd |-> "DataAck", id |-> i, n |-> st.ack]
          [] ~HasAck(s, i) /\ HasData(s, i) ->
                 [cmd |-> "Data", id |-> i, n |-> st.window.sent + 1]
          [] OTHER -> Control("End", i)

\* Bug variant: the acknowledgement is read and not taken.
AfterServingKeepsAck(s, i) ==
    [stream[s] EXCEPT ![i] =
        CASE HasAck(s, i) -> @
          [] ~HasAck(s, i) /\ HasData(s, i) -> [@ EXCEPT !.window = Sent(@)]
          [] OTHER -> [@ EXCEPT !.sentEnd = TRUE]]

AfterServing(s, i) ==
    [stream[s] EXCEPT ![i] =
        CASE HasAck(s, i) -> [@ EXCEPT !.ack = 0]
          [] ~HasAck(s, i) /\ HasData(s, i) -> [@ EXCEPT !.window = Sent(@)]
          [] OTHER -> [@ EXCEPT !.sentEnd = TRUE]]

TickStream(s) ==
    /\ Running(s) /\ ~EndsSession(s)
    /\ ServesStream(s)
    /\ \E i \in Ids :
           /\ Selected(s, i)
           /\ Emit(s, StreamCell(s, i))
           /\ AfterWrite(s, AfterServing(s, i), TickQueue(s))
           /\ cursor' = [cursor EXCEPT ![s] = i]

TickDummy(s) ==
    /\ Running(s) /\ ~EndsSession(s)
    /\ ~ServesStream(s) /\ TickQueue(s) = <<>>
    /\ AfterWrite(s, stream[s], <<>>)
    /\ UNCHANGED <<cursor, link>>

\* The exit answers SessionFinish and shuts the circuit down.
TickFinished(s) ==
    /\ Running(s) /\ EndsSession(s)
    /\ Emit(s, Control("SessionFinished", 0))
    /\ Fail(s, "ok")
    /\ UNCHANGED <<streamVars, controls, tickVars, finishVars>>

Tick(s) == TickControl(s) \/ TickStream(s) \/ TickDummy(s) \/ TickFinished(s)
-----------------------------------------------------------------------------
(* The opens branch, at the client.  A request over the stream or the       *)
(* identifier budget, or with an unusable target, is answered with an error *)
(* and changes nothing.                                                     *)

\* Bug variants: the identifier budget off by one; no stream budget; open
\* for business after SessionFinish.
MayOpenOneMore ==
    /\ ~finishing
    /\ Cardinality(live["client"]) < MAX_STREAMS /\ lastId["client"] <= MAX_IDS
MayOpenAnyNumber == ~finishing /\ lastId["client"] < MAX_IDS

MayOpen ==
    /\ ~finishing
    /\ Cardinality(live["client"]) < MAX_STREAMS /\ lastId["client"] < MAX_IDS

OpenRequest ==
    LET i == lastId["client"] + 1
    IN  /\ Running("client") /\ MayOpen
        /\ lastId' = [lastId EXCEPT !["client"] = i]
        /\ live' = [live EXCEPT !["client"] = @ \cup {i}]
        /\ stream' = [stream EXCEPT !["client"][i] = NewStream(FALSE)]
        /\ worker' = [worker EXCEPT !["client"][i] = NewWorker]
        /\ Push("client", Control("SessionOpen", i))
        /\ Activity("client")
        /\ UNCHANGED <<closed, connecting, tickVars, finishing, peerFinish, outcome, link>>

\* The opener's 30 s timeout, or its task dropped: the reply is closed.
GiveUp(i) ==
    /\ "give_up" \in Faults
    /\ Running("client") /\ i \in live["client"]
    /\ stream["client"][i].reply = "waiting"
    /\ stream' = [stream EXCEPT !["client"][i].reply = "dropped"]
    /\ UNCHANGED <<live, worker, closed, connecting, lastId, controls, tickVars, finishVars,
                   outcome, link>>
-----------------------------------------------------------------------------
(* The events branch.  Events of a stream that is gone are ignored.         *)

\* Written: one more piece has reached the socket, and earns an ack.
WrittenEvent(s, i) ==
    LET count == stream[s][i].written + 1
    IN  /\ Running(s) /\ i \in live[s]
        /\ count <= Len(worker[s][i].got)
        /\ IF count > stream[s][i].received
           THEN Fail(s, "written") /\ UNCHANGED stream
           ELSE /\ stream' = [stream EXCEPT ![s][i].written = count, ![s][i].ack = count]
                /\ UNCHANGED outcome
        /\ UNCHANGED <<live, worker, closed, connecting, lastId, controls, tickVars, finishVars,
                       link>>

\* Bug variant: a refusal is not passed on.
ConnectedEventSilent(i, accepted) ==
    /\ Running("exit") /\ i \in connecting
    /\ connecting' = connecting \ {i}
    /\ IF accepted
       THEN /\ live' = [live EXCEPT !["exit"] = @ \cup {i}]
            /\ stream' = [stream EXCEPT !["exit"][i] = NewStream(TRUE)]
            /\ worker' = [worker EXCEPT !["exit"][i] = NewWorker]
            /\ Push("exit", Control("SessionOpened", i))
       ELSE UNCHANGED <<live, stream, worker, controls>>
    /\ UNCHANGED <<closed, lastId, tickVars, finishVars, outcome, link>>

\* Connected: the destination answered (or refused, or was not permitted).
ConnectedEvent(i, accepted) ==
    /\ Running("exit") /\ i \in connecting
    /\ connecting' = connecting \ {i}
    /\ IF accepted
       THEN /\ live' = [live EXCEPT !["exit"] = @ \cup {i}]
            /\ stream' = [stream EXCEPT !["exit"][i] = NewStream(TRUE)]
            /\ worker' = [worker EXCEPT !["exit"][i] = NewWorker]
            /\ Push("exit", Control("SessionOpened", i))
       ELSE /\ Push("exit", Control("SessionRefused", i))
            /\ UNCHANGED <<live, stream, worker>>
    /\ UNCHANGED <<closed, lastId, tickVars, finishVars, outcome, link>>

\* Bug variant: the peer is not told.
FailedEventSilent(s, i) ==
    /\ Running(s) /\ i \in live[s]
    /\ \/ worker[s][i].reader = "failed"
       \/ worker[s][i].writer = "failed" /\ stream[s][i].written = Len(worker[s][i].got)
    /\ Close(s, i)
    /\ UNCHANGED <<stream, worker, connecting, lastId, controls, tickVars, finishVars, outcome, link>>

\* Failed: the writer task reports its own failure after its last Written.
FailedEvent(s, i) ==
    /\ Running(s) /\ i \in live[s]
    /\ \/ worker[s][i].reader = "failed"
       \/ worker[s][i].writer = "failed" /\ stream[s][i].written = Len(worker[s][i].got)
    /\ Close(s, i)
    /\ Push(s, Control("SessionReset", i))
    /\ UNCHANGED <<stream, worker, connecting, lastId, tickVars, finishVars, outcome, link>>
-----------------------------------------------------------------------------
(* The reader and writer tasks of `attach`.                                 *)

StreamTask(s, i) == Running(s) /\ i \in live[s] /\ stream[s][i].ready

taskUnchanged == UNCHANGED <<live, stream, closed, connecting, lastId, controls, tickVars,
                             finishVars, outcome, link>>

\* The application or the destination wrote something and it was queued.
Read(s, i) ==
    /\ StreamTask(s, i) /\ worker[s][i].reader = "reading"
    /\ worker[s][i].produced < MaxData[s]
    /\ worker[s][i].produced - stream[s][i].window.sent < QUEUE
    /\ worker' = [worker EXCEPT ![s][i].produced = @ + 1]
    /\ taskUnchanged

\* End of file, or (only on a real socket) a read error: the sending half of
\* the outgoing queue is dropped in both cases.
ReadStops(s, i, how) ==
    /\ StreamTask(s, i) /\ worker[s][i].reader = "reading"
    /\ how = "eof" \/ (how = "failed" /\ s = "exit" /\ "read" \in Faults)
    /\ worker' = [worker EXCEPT ![s][i].reader = how]
    /\ taskUnchanged

\* The writer task takes a piece and writes it, or shuts the socket down.
Write(s, i) ==
    /\ StreamTask(s, i) /\ worker[s][i].writer = "writing"
    /\ worker[s][i].incoming # <<>>
    /\ LET piece == Head(worker[s][i].incoming)
           rest == Tail(worker[s][i].incoming)
       IN  \/ /\ piece # 0
              /\ worker' = [worker EXCEPT ![s][i].incoming = rest, ![s][i].got = Append(@, piece)]
           \/ /\ piece = 0
              /\ worker' = [worker EXCEPT ![s][i].incoming = rest, ![s][i].writer = "shut"]
    /\ taskUnchanged

\* A write fails or times out: the task ends and drops its queue.
WriteFails(s, i) ==
    /\ "write" \in Faults
    /\ StreamTask(s, i) /\ worker[s][i].writer = "writing"
    /\ worker[s][i].incoming # <<>>
    /\ worker' = [worker EXCEPT ![s][i].incoming = <<>>, ![s][i].writer = "failed"]
    /\ taskUnchanged
-----------------------------------------------------------------------------
(* The frames branch.  Verdict is the code's judgement of the next cell:    *)
(* "ok" to act on it, "ignored" for a stream that was closed here, or the   *)
(* error that ends the session.                                             *)

\* `try_send` on the writer task's queue, of capacity QUEUE + 1.
TrySend(s, i) ==
    IF worker[s][i].writer # "writing" THEN "worker_gone"
    ELSE IF Len(worker[s][i].incoming) > QUEUE THEN "full"
    ELSE "ok"

DataVerdict(s, i) ==
    LET st == stream[s][i]
    IN  IF ~st.ready THEN "premature"
        ELSE IF st.receivedEnd THEN "duplicate"
        ELSE IF st.received - st.written >= WINDOW_CELLS THEN "credit"
        ELSE TrySend(s, i)

EndVerdict(s, i) ==
    LET st == stream[s][i]
    IN  IF ~st.ready THEN "premature"
        ELSE IF st.receivedEnd THEN "duplicate"
        ELSE TrySend(s, i)

AckVerdict(s, i, value) ==
    LET st == stream[s][i]
    IN  IF ~st.ready THEN "premature"
        ELSE IF ~ValidAck(st.window, value) THEN "ack"
        ELSE "ok"

\* SessionOpened and SessionRefused answer a stream that is not ready yet.
AnswerVerdict(s, i) == IF stream[s][i].ready THEN "duplicate" ELSE "ok"

\* The guards of the match arms.
Allowed(s, c) ==
    \/ c.cmd \in {"Data", "DataAck", "End"}
    \/ c.cmd \in {"SessionOpened", "SessionRefused"} /\ s = "client"
    \/ c.cmd = "SessionOpen" /\ s = "exit" /\ ~peerFinish /\ c.id > lastId[s] /\ c.id <= MAX_IDS
    \/ c.cmd = "SessionReset" /\ c.id > 0 /\ c.id <= lastId[s]
    \/ c.cmd = "SessionFinish" /\ s = "exit" /\ live[s] = {} /\ connecting = {} /\ ~peerFinish
    \/ c.cmd = "SessionFinished" /\ s = "client" /\ finishing

Verdict(s, c) ==
    IF c.cmd \in StreamCells /\ c.id \in closed[s] THEN "ignored"
    ELSE IF ~Allowed(s, c) THEN "command"
    ELSE IF c.cmd \notin StreamCells THEN "ok"
    ELSE IF c.id \notin live[s] THEN "unknown"
    ELSE CASE c.cmd = "Data" -> DataVerdict(s, c.id)
           [] c.cmd = "End" -> EndVerdict(s, c.id)
           [] c.cmd = "DataAck" -> AckVerdict(s, c.id, c.n)
           [] OTHER -> AnswerVerdict(s, c.id)

\* The next cell is taken off the circuit and found acceptable.
Accepts(s, cmd) ==
    /\ Running(s) /\ link[s] # <<>>
    /\ Head(link[s]).cmd = cmd
    /\ Verdict(s, Head(link[s])) = "ok"
    /\ link' = [link EXCEPT ![s] = Tail(@)]

IgnoreCell(s) ==
    /\ Running(s) /\ link[s] # <<>>
    /\ Verdict(s, Head(link[s])) = "ignored"
    /\ link' = [link EXCEPT ![s] = Tail(@)]
    /\ UNCHANGED <<streamVars, controls, tickVars, finishVars, outcome>>

RejectCell(s) ==
    /\ Running(s) /\ link[s] # <<>>
    /\ Verdict(s, Head(link[s])) \in Errors
    /\ Fail(s, Verdict(s, Head(link[s])))
    /\ link' = [link EXCEPT ![s] = Tail(@)]
    /\ UNCHANGED <<streamVars, controls, tickVars, finishVars>>

\* The exit refuses over its own stream budget, else starts to connect.
SessionOpen ==
    LET i == Head(link["exit"]).id
    IN  /\ Accepts("exit", "SessionOpen")
        /\ lastId' = [lastId EXCEPT !["exit"] = i]
        /\ IF Cardinality(live["exit"]) + Cardinality(connecting) >= MAX_STREAMS
           THEN /\ Push("exit", Control("SessionRefused", i))
                /\ UNCHANGED <<connecting, clock>>
           ELSE /\ connecting' = connecting \cup {i}
                /\ Activity("exit")
                /\ UNCHANGED controls
        /\ UNCHANGED <<live, stream, worker, closed, tickVars, finishing, peerFinish, outcome>>

\* The stream is handed to its opener, or reset if the opener has given up.
SessionOpened ==
    LET i == Head(link["client"]).id
    IN  /\ Accepts("client", "SessionOpened")
        /\ stream' = [stream EXCEPT !["client"][i].ready = TRUE, !["client"][i].reply = "none"]
        /\ IF stream["client"][i].reply = "waiting"
           THEN UNCHANGED <<live, closed, controls>>
           ELSE Close("client", i) /\ Push("client", Control("SessionReset", i))
        /\ UNCHANGED <<worker, connecting, lastId, tickVars, finishVars, outcome>>

SessionRefused ==
    /\ Accepts("client", "SessionRefused")
    /\ Close("client", Head(link["client"]).id)
    /\ UNCHANGED <<stream, worker, connecting, lastId, controls, tickVars, finishVars, outcome>>

Data(s) ==
    LET c == Head(link[s])
    IN  /\ Accepts(s, "Data")
        /\ stream' = [stream EXCEPT ![s][c.id].received = @ + 1]
        /\ worker' = [worker EXCEPT ![s][c.id].incoming = Append(@, c.n)]
        /\ Activity(s)
        /\ UNCHANGED <<live, closed, connecting, lastId, controls, tickVars, finishing,
                       peerFinish, outcome>>

DataAck(s) ==
    LET c == Head(link[s])
    IN  /\ Accepts(s, "DataAck")
        /\ stream' = [stream EXCEPT ![s][c.id].window = Acknowledge(@, c.n)]
        /\ UNCHANGED <<live, worker, closed, connecting, lastId, controls, tickVars,
                       finishVars, outcome>>

End(s) ==
    LET c == Head(link[s])
    IN  /\ Accepts(s, "End")
        /\ stream' = [stream EXCEPT ![s][c.id].receivedEnd = TRUE]
        /\ worker' = [worker EXCEPT ![s][c.id].incoming = Append(@, 0)]
        /\ Activity(s)
        /\ UNCHANGED <<live, closed, connecting, lastId, controls, tickVars, finishing,
                       peerFinish, outcome>>

\* Bug variant: the connection attempt is not aborted.
SessionResetKeepsAttempt(s) ==
    LET i == Head(link[s]).id
    IN  /\ Accepts(s, "SessionReset")
        /\ Close(s, i)
        /\ UNCHANGED <<stream, worker, connecting, lastId, controls, tickVars, finishVars, outcome>>

\* Also aborts a connection attempt; its Connected event would be ignored.
SessionReset(s) ==
    LET i == Head(link[s]).id
    IN  /\ Accepts(s, "SessionReset")
        /\ Close(s, i)
        /\ connecting' = IF s = "exit" THEN connecting \ {i} ELSE connecting
        /\ UNCHANGED <<stream, worker, lastId, controls, tickVars, finishVars, outcome>>

\* Bug variant: the client's wish to finish is not recorded.
SessionFinishForgotten ==
    /\ Accepts("exit", "SessionFinish")
    /\ UNCHANGED <<streamVars, controls, tickVars, finishVars, outcome>>

SessionFinish ==
    /\ Accepts("exit", "SessionFinish")
    /\ peerFinish' = TRUE
    /\ UNCHANGED <<streamVars, controls, tickVars, clock, finishing, outcome>>

SessionFinished ==
    /\ Accepts("client", "SessionFinished")
    /\ Fail("client", "ok")
    /\ UNCHANGED <<streamVars, controls, tickVars, finishVars>>

Frame(s) ==
    \/ IgnoreCell(s) \/ RejectCell(s)
    \/ Data(s) \/ DataAck(s) \/ End(s) \/ SessionReset(s)
    \/ s = "exit" /\ (SessionOpen \/ SessionFinish)
    \/ s = "client" /\ (SessionOpened \/ SessionRefused \/ SessionFinished)
-----------------------------------------------------------------------------
Next ==
    \/ \E s \in Side :
        \/ ControlBudget(s) \/ Abort(s) \/ Truncated(s) \/ TimePasses(s)
        \/ Tick(s) \/ Frame(s)
        \/ \E i \in Ids :
            \/ WrittenEvent(s, i) \/ FailedEvent(s, i)
            \/ Read(s, i) \/ Write(s, i) \/ WriteFails(s, i)
            \/ \E how \in {"eof", "failed"} : ReadStops(s, i, how)
    \/ OpenRequest
    \/ \E i \in Ids : GiveUp(i) \/ \E accepted \in BOOLEAN : ConnectedEvent(i, accepted)

Spec == Init /\ [][Next]_vars

\* What the runtime guarantees: `select!` polls its branches in random order, so
\* a branch that stays ready is taken; a write or a connection attempt ends,
\* by its timeout if not otherwise; time passes.  The users of the streams
\* (opening, reading, giving up) and the mishaps are under no obligation.
Fairness ==
    \A s \in Side :
        /\ WF_vars(Tick(s)) /\ WF_vars(Frame(s)) /\ WF_vars(TimePasses(s))
        /\ WF_vars(Truncated(s)) /\ WF_vars(ControlBudget(s))
        /\ \A i \in Ids :
            /\ WF_vars(WrittenEvent(s, i)) /\ WF_vars(FailedEvent(s, i))
            /\ WF_vars(Write(s, i) \/ WriteFails(s, i))
            /\ WF_vars(\E accepted \in BOOLEAN : ConnectedEvent(i, accepted))

FairSpec == Spec /\ Fairness
=============================================================================
