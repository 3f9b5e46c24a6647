------------------------- MODULE PaddedSessionProps -------------------------
(***************************************************************************)
(* Further properties of PaddedSession: what the two loops agree on, the   *)
(* service the session implements, what the documentation says of it, and  *)
(* liveness.                                                               *)
(***************************************************************************)
EXTENDS PaddedSessionInv

(* Safety.                                                                  *)

\* While a stream has no cell on its way or waiting at either end, the two
\* loops agree on it: a stream one of them keeps, and does not retire at its
\* next tick, is kept by the other.  So no cancellation, failure, refusal or
\* retirement leaves one end of a stream open for good (session.rs 462-465,
\* 494-501, 530, 554).
Quiet(i) == \A s \in Side :
    /\ outcome[s] = "running"
    /\ \A k \in DOMAIN link[s] : link[s][k].id # i
    /\ \A k \in DOMAIN controls[s] : controls[s][k].id # i
NoHalfOpenStream ==
    \A i \in Ids : Quiet(i) =>
        /\ \A s \in Side :
               i \in live[s] /\ stream[s][i].ready /\ ~Retired(stream[s][i]) => i \in live[Peer(s)]
        /\ i \in connecting <=> (i \in live["client"] /\ ~stream["client"][i].ready)


\* Neither loop keeps more than MAX_STREAMS streams, those still connecting
\* included (session.rs 469, 516).
StreamBudget ==
    /\ Cardinality(live["client"]) <= MAX_STREAMS
    /\ Cardinality(live["exit"] \cup connecting) <= MAX_STREAMS

\* An identifier that was closed at one end never comes back to life there,
\* not even through a connection that completes after the reset that aborted
\* it (session.rs 494, 514, 554).
ClosedForGood ==
    [][\A s \in Side : closed[s] \subseteq closed'[s] /\ closed'[s] \cap live'[s] = {}]_vars

\* A cell of a stream reaches the client after the SessionOpened that makes
\* the stream ready: the check at session.rs 540 is for "invalid credit", one of
\* the errors that "fail closed" (docs/PADDED_SESSIONS.md).
OpenedBeforeData == \A s \in Side : outcome[s] # "premature"

\* "Destination refusal or local stream failure resets that stream"
\* (docs/PADDED_SESSIONS.md): a writer task that failed does not end the
\* session (session.rs 500-502, 542, 550).
FailureStaysLocal == \A s \in Side : outcome[s] # "worker_gone"

\* "A finish handshake ends the session" (docs/PADDED_SESSIONS.md): the exit
\* does not take the client's SessionFinish for an invalid command
\* (session.rs 557-559).
FinishIsAccepted == outcome["exit"] # "command"

\* "local stream failure resets that stream" (docs/PADDED_SESSIONS.md): a
\* destination whose reading failed is not reported to the application as an
\* orderly end of its data (session.rs 247-248, 449).
EndMeansEof ==
    \A s \in Side, i \in Ids :
        worker[Peer(s)][i].writer = "shut" => worker[s][i].reader = "eof"

\* The stream service is implemented: pieces are delivered once, in order, and
\* a socket is shut down only after the last of them (session.rs 136-168,
\* 196-268, 446-450, 546-552).  A reader that failed counts as stopped.
Service == INSTANCE StreamService WITH
    sent <- [s \in Side |-> [i \in Ids |-> worker[s][i].produced]],
    stopped <- [s \in Side |-> [i \in Ids |-> worker[s][i].reader # "reading"]],
    got <- [s \in Side |-> [i \in Ids |-> worker[s][i].got]],
    shut <- [s \in Side |-> [i \in Ids |-> worker[s][i].writer = "shut"]]
-----------------------------------------------------------------------------
(* Liveness.                                                                *)

\* An opener is answered, or its stream or session is gone (session.rs 439-456,
\* 495-498, 524-537).
OpenAnswered ==
    \A i \in Ids :
        (i \in live["client"] /\ ~stream["client"][i].ready) ~>
            \/ i \notin live["client"] \/ stream["client"][i].ready
            \/ outcome["client"] # "running"


\* A stream whose two users have stopped sending is retired at both ends
\* (session.rs 462-463).
StreamRetires ==
    \A s \in Side, i \in Ids :
        (i \in live[s] /\ \A p \in Side : worker[p][i].reader # "reading") ~>
            (i \notin live[s] \/ outcome[s] # "running")

\* A finish handshake, once begun, ends the client's loop (session.rs 425-434,
\* 557-558).
FinishCompletes == finishing ~> outcome["client"] # "running"
=============================================================================
