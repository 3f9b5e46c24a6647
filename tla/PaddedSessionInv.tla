-------------------------- MODULE PaddedSessionInv --------------------------
(***************************************************************************)
(* The main safety properties of PaddedSession and the inductive invariant *)
(* behind them: what the loops of a session, their workers and the cells   *)
(* between them know about each other at any time.                         *)
(***************************************************************************)
EXTENDS PaddedSession

\* Two loops that run this code never accuse each other: whatever the order
\* in which opens, data, acknowledgements, ends, cancellations, failures and
\* resets cross on the circuit, no cell finds its stream unknown, finished
\* twice, over its credit, over the queue of its writer, or acknowledges what
\* was not sent (session.rs 488-552).
NoFalseAccusation ==
    \A s \in Side : outcome[s] \notin {"unknown", "duplicate", "credit", "full", "ack", "written"}

\* "Writes earn cumulative credit only after destination/application delivery"
\* (docs/PADDED_SESSIONS.md): what a sender counts as acknowledged was written
\* to the socket at the other end (session.rs 213-219, 489, 545).
AckedIsDelivered ==
    \A s \in Side, i \in Ids :
        stream[s][i].window.acknowledged <= Len(worker[Peer(s)][i].got)
-----------------------------------------------------------------------------

\* The identifiers a loop remembers.
Known(s) == live[s] \cup closed[s]

\* What one end of a stream has counted.
sentBy(s, i) == stream[s][i].window.sent
ackedTo(s, i) == stream[s][i].window.acknowledged
receivedBy(s, i) == stream[s][i].received
writtenBy(s, i) == stream[s][i].written
pendingAck(s, i) == stream[s][i].ack
sentEnd(s, i) == stream[s][i].sentEnd
receivedEnd(s, i) == stream[s][i].receivedEnd
ready(s, i) == stream[s][i].ready
gotBy(s, i) == Len(worker[s][i].got)
queueOf(s, i) == worker[s][i].incoming
writing(s, i) == worker[s][i].writer = "writing"

(* The identifiers.  The client knows every identifier it has handed out;   *)
(* the exit follows it.  The record of an identifier a loop has not known   *)
(* yet is as `attach` will make it.                                         *)
Fresh(s, i) == stream[s][i] = NewStream(s = "exit") /\ worker[s][i] = NewWorker

IdInv ==
    /\ \A s \in Side : Known(s) \subseteq 1..lastId[s] /\ live[s] \cap closed[s] = {}
    /\ 1..lastId["client"] \subseteq Known("client")
    /\ lastId["exit"] <= lastId["client"]
    /\ connecting \subseteq (1..lastId["exit"]) \ Known("exit")
    /\ \A s \in Side, i \in Ids : i \notin Known(s) => Fresh(s, i)
    /\ \A i \in Ids : ready("client", i) => i \in Known("exit")

(* The credit of one direction of a stream, from side s to its peer: what   *)
(* is acknowledged was written there, what was written was received, what   *)
(* was received was sent, and the window bounds the whole chain.            *)
Credit(s, i) ==
    /\ ackedTo(s, i) <= writtenBy(Peer(s), i)
    /\ pendingAck(Peer(s), i) # 0 =>
           /\ pendingAck(Peer(s), i) = writtenBy(Peer(s), i)
           /\ ackedTo(s, i) < writtenBy(Peer(s), i)
    /\ writtenBy(Peer(s), i) <= receivedBy(Peer(s), i)
    /\ receivedBy(Peer(s), i) <= sentBy(s, i)
    /\ sentBy(s, i) <= ackedTo(s, i) + WINDOW_CELLS
    /\ receivedEnd(Peer(s), i) => sentEnd(s, i)

(* The writer task: what it has written and what waits in its queue add up  *)
(* to what was received; the end of the stream waits behind everything.     *)
EndBehindAll(q, ended) == \A k \in 1..Len(q) : q[k] = 0 <=> ended /\ k = Len(q)

Backlog(s, i) ==
    /\ writtenBy(s, i) <= gotBy(s, i) /\ gotBy(s, i) <= receivedBy(s, i)
    /\ writing(s, i) =>
           /\ gotBy(s, i) + Len(queueOf(s, i)) =
                  receivedBy(s, i) + (IF receivedEnd(s, i) THEN 1 ELSE 0)
           /\ EndBehindAll(queueOf(s, i), receivedEnd(s, i))

Answer == {"SessionOpened", "SessionRefused"}

(* A cell c on its way to s, or waiting at the peer of s to be sent.        *)
CellInv(s, c) ==
    /\ c.cmd \in StreamCells => c.id \in Known(s)
    /\ c.cmd = "SessionOpen" => c.id <= lastId["client"]
    /\ c.cmd \in Answer => /\ s = "client" /\ ~ready(s, c.id)
                           /\ c.id <= lastId["exit"] /\ c.id \notin connecting
    /\ c.cmd = "SessionOpened" => c.id \in Known("exit")
    /\ c.cmd = "Data" => /\ receivedBy(s, c.id) < c.n /\ c.n <= sentBy(Peer(s), c.id)
                         /\ ~receivedEnd(s, c.id)
    /\ c.cmd = "End" => ~receivedEnd(s, c.id) /\ sentEnd(Peer(s), c.id)
    /\ c.cmd = "DataAck" => /\ ackedTo(s, c.id) < c.n /\ c.n <= writtenBy(Peer(s), c.id)
                            /\ pendingAck(Peer(s), c.id) # 0 => c.n < writtenBy(Peer(s), c.id)

Queued(q) == {q[k] : k \in 1..Len(q)}
OnWay(s) == Queued(link[s]) \cup Queued(controls[Peer(s)])

(* A cell c ahead of a cell d: within a stream, data and acknowledgements   *)
(* count up, nothing follows the end, and one answer is enough.             *)
Before(c, d) ==
    c.id = d.id =>
        /\ c.cmd = d.cmd /\ c.cmd \in {"Data", "DataAck"} => c.n < d.n
        /\ ~(c.cmd = "End" /\ d.cmd \in {"Data", "End"})
        /\ ~(c.cmd \in Answer /\ d.cmd \in Answer)

InOrder(q) == \A j, k \in 1..Len(q) : j < k => Before(q[j], q[k])

CellsInv(s) == \A c \in OnWay(s) : CellInv(s, c)
OrderInv(s) ==
    /\ InOrder(link[s]) /\ InOrder(controls[Peer(s)])
    /\ \A c \in Queued(link[s]), d \in Queued(controls[Peer(s)]) : Before(c, d)
    /\ \A c \in Queued(controls[Peer(s)]) : c.cmd \notin {"Data", "DataAck", "End"}

(* What two loops know of each other is enough for every cell to be taken   *)
(* for what it is (session.rs 486-561): identifiers, credit, queues and the *)
(* cells between the loops always fit together.                             *)
SessionInv ==
    /\ IdInv
    /\ \A s \in Side, i \in Ids : Credit(s, i) /\ Backlog(s, i)
    /\ \A s \in Side : CellsInv(s) /\ OrderInv(s)
=============================================================================
