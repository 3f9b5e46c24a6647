------------------------ MODULE PaddedSessionSafety -------------------------
(* The invariant of a session, and the safety it implies, as theorems.      *)
EXTENDS PaddedSessionFrames, PaddedSessionTicks

\* The invariant holds when the two loops start (session.rs 395-413).
LEMMA InitSessionInv == Init => SessionInv
<1> SUFFICES ASSUME Init PROVE SessionInv
  OBVIOUS
<1>1. TypeOK
  BY InitTypeOK
<1>2. \A s \in Side : Known(s) = {} /\ lastId[s] = 0 /\ link[s] = <<>> /\ controls[s] = <<>>
  BY DEF Init, Known
<1>3. \A s \in Side, i \in Ids : stream[s][i] = NewStream(s = "exit") /\ worker[s][i] = NewWorker
  BY Zenon DEF Init
<1>4. \A s \in Side, i \in Ids :
          /\ sentBy(s, i) = 0 /\ ackedTo(s, i) = 0 /\ receivedBy(s, i) = 0 /\ writtenBy(s, i) = 0
          /\ pendingAck(s, i) = 0 /\ ~receivedEnd(s, i)
  <2>1. \A s \in Side, i \in Ids :
            /\ stream[s][i].window = EmptyWindow /\ stream[s][i].received = 0
            /\ stream[s][i].written = 0 /\ stream[s][i].ack = 0 /\ ~stream[s][i].receivedEnd
    BY DEF Init, NewStream
  <2>2. EmptyWindow.sent = 0 /\ EmptyWindow.acknowledged = 0
    BY DEF EmptyWindow
  <2> QED BY <2>1, <2>2, Zenon DEF sentBy, ackedTo, receivedBy, writtenBy, pendingAck, receivedEnd
<1>5. \A s \in Side, i \in Ids : gotBy(s, i) = 0 /\ queueOf(s, i) = <<>>
  <2>1. Len(NewWorker.got) = 0 /\ NewWorker.incoming = <<>>
    BY DEF NewWorker
  <2> QED BY <1>3, <2>1, Zenon DEF gotBy, queueOf
<1>6. \A i \in Ids : ~ready("client", i)
  <2>1. \A i \in Ids : ~stream["client"][i].ready
    BY DEF Init, NewStream, Side
  <2> QED BY <2>1 DEF ready
<1>7. IdInv
  <2>1. connecting = {} /\ \A s \in Side : live[s] = {}
    BY DEF Init
  <2> QED BY <1>2, <1>3, <1>6, <2>1 DEF IdInv, Fresh, Side
<1>8. ASSUME NEW s \in Side, NEW i \in Ids PROVE Credit(s, i) /\ Backlog(s, i)
  <2>1. Credit(s, i)
    BY <1>4, Sides, WindowAssumption DEF Credit
  <2>2. Backlog(s, i)
    BY <1>4, <1>5 DEF Backlog, EndBehindAll
  <2> QED BY <2>1, <2>2
<1>9. ASSUME NEW s \in Side PROVE CellsInv(s) /\ OrderInv(s)
  <2>1. link[s] = <<>> /\ controls[Peer(s)] = <<>>
    BY <1>2, Sides
  <2>2. Queued(<<>>) = {} /\ InOrder(<<>>)
    BY DEF Queued, InOrder
  <2> QED BY <2>1, <2>2 DEF CellsInv, OrderInv, OnWay
<1> QED BY <1>7, <1>8, <1>9 DEF SessionInv

\* Every step of a session keeps the invariant.
LEMMA StepSessionInv == TypeOK /\ TypeOK' /\ SessionInv /\ [Next]_vars => SessionInv'
<1> SUFFICES ASSUME TypeOK, TypeOK', SessionInv, [Next]_vars PROVE SessionInv'
  OBVIOUS
<1>1. ASSUME NEW s \in Side, ControlBudget(s) \/ Abort(s) \/ Truncated(s) \/ TimePasses(s)
      PROVE  SessionInv'
  <2>1. UNCHANGED streamVars /\ link' = link /\ controls' = controls
    BY <1>1 DEF ControlBudget, Abort, Truncated, TimePasses
  <2> QED BY <2>1, IdleInv
<1>2. ASSUME NEW s \in Side, Tick(s) PROVE SessionInv'
  BY <1>2, TickControlInv, TickStreamInv, TickFinishedInv, Zenon DEF Tick
<1>3. ASSUME NEW s \in Side, Frame(s) PROVE SessionInv'
  BY <1>3, FrameSessionInv
<1>4. ASSUME NEW s \in Side, NEW i \in Ids, WrittenEvent(s, i) \/ FailedEvent(s, i)
      PROVE  SessionInv'
  BY <1>4, WrittenInv, FailedInv
<1>5. ASSUME NEW s \in Side, NEW i \in Ids,
             \/ Read(s, i) \/ Write(s, i) \/ WriteFails(s, i)
             \/ \E how \in {"eof", "failed"} : ReadStops(s, i, how)
      PROVE  SessionInv'
  BY <1>5, ReadInv, WriteInv, Zenon
<1>6. ASSUME OpenRequest PROVE SessionInv'
  BY <1>6, OpenRequestInv
<1>7. ASSUME NEW i \in Ids, GiveUp(i) \/ \E accepted \in BOOLEAN : ConnectedEvent(i, accepted)
      PROVE  SessionInv'
  BY <1>7, GiveUpInv, ConnectedInv, Zenon
<1>8. CASE UNCHANGED vars
  <2>1. UNCHANGED streamVars /\ link' = link /\ controls' = controls
    BY <1>8 DEF vars
  <2> QED BY <2>1, IdleInv
<1> QED BY <1>1, <1>2, <1>3, <1>4, <1>5, <1>6, <1>7, <1>8, Zenon DEF Next

\* From a state of the invariant no step finds fault with a cell of a loop
\* that runs this code (session.rs 486-552).
LEMMA StepAccusation ==
    TypeOK /\ SessionInv /\ NoFalseAccusation /\ [Next]_vars => NoFalseAccusation'
<1> SUFFICES ASSUME TypeOK, SessionInv, NoFalseAccusation, [Next]_vars PROVE NoFalseAccusation'
  OBVIOUS
<1> DEFINE Blame == {"unknown", "duplicate", "credit", "full", "ack", "written"}
<1>1. ASSUME NEW s \in Side, NEW why, why \notin Blame, Fail(s, why) PROVE NoFalseAccusation'
  BY <1>1 DEF NoFalseAccusation, Fail, TypeOK
<1>2. ASSUME outcome' = outcome PROVE NoFalseAccusation'
  BY <1>2 DEF NoFalseAccusation
<1>3. ASSUME NEW s \in Side, ControlBudget(s) \/ Abort(s) \/ Truncated(s) \/ TimePasses(s)
      PROVE  NoFalseAccusation'
  <2>1. outcome' = outcome \/ Fail(s, "controls") \/ Fail(s, "aborted") \/ Fail(s, "truncated")
    BY <1>3 DEF ControlBudget, Abort, Truncated, TimePasses
  <2> QED BY <1>1, <1>2, <2>1
<1>4. ASSUME NEW s \in Side, Tick(s) PROVE NoFalseAccusation'
  <2>1. outcome' = outcome \/ Fail(s, "ok")
    BY <1>4, Zenon DEF Tick, TickControl, TickStream, TickDummy, TickFinished, AfterWrite
  <2> QED BY <1>1, <1>2, <2>1
<1>5. ASSUME NEW s \in Side, Frame(s) PROVE NoFalseAccusation'
  <2>1. CASE RejectCell(s)
    <3>1. link[s] # <<>> /\ Fail(s, Verdict(s, Head(link[s])))
      BY <2>1 DEF RejectCell
    <3> QED BY <1>1, <3>1, HeadVerdict
  <2>2. CASE SessionFinished
    <3>1. Fail("client", "ok") /\ "client" \in Side
      BY <2>2 DEF SessionFinished, Side
    <3> QED BY <1>1, <3>1
  <2>3. CASE IgnoreCell(s) \/ Data(s) \/ DataAck(s) \/ End(s) \/ SessionReset(s)
    BY <1>2, <2>3 DEF IgnoreCell, Data, DataAck, End, SessionReset
  <2>4. CASE SessionOpen \/ SessionFinish \/ SessionOpened \/ SessionRefused
    BY <1>2, <2>4 DEF SessionOpen, SessionFinish, SessionOpened, SessionRefused
  <2> QED BY <1>5, <2>1, <2>2, <2>3, <2>4, Zenon DEF Frame
<1>6. ASSUME NEW s \in Side, NEW i \in Ids, WrittenEvent(s, i) PROVE NoFalseAccusation'
  <2>1. writtenBy(s, i) + 1 <= receivedBy(s, i)
    BY <1>6, ReportedReceived
  <2>2. writtenBy(s, i) \in Nat /\ receivedBy(s, i) \in Nat
    BY CountTypes
  <2>3. ~(writtenBy(s, i) + 1 > receivedBy(s, i))
    BY <2>1, <2>2
  <2>4. outcome' = outcome
    BY <1>6, <2>3, Zenon DEF WrittenEvent, writtenBy, receivedBy
  <2> QED BY <1>2, <2>4
<1>7. ASSUME NEW s \in Side, NEW i \in Ids,
             \/ FailedEvent(s, i) \/ Read(s, i) \/ Write(s, i) \/ WriteFails(s, i)
             \/ \E how \in {"eof", "failed"} : ReadStops(s, i, how)
      PROVE  NoFalseAccusation'
  BY <1>2, <1>7, Zenon DEF FailedEvent, Read, Write, WriteFails, ReadStops, taskUnchanged
<1>8. ASSUME OpenRequest PROVE NoFalseAccusation'
  BY <1>2, <1>8 DEF OpenRequest
<1>9. ASSUME NEW i \in Ids, GiveUp(i) \/ \E accepted \in BOOLEAN : ConnectedEvent(i, accepted)
      PROVE  NoFalseAccusation'
  BY <1>2, <1>9, Zenon DEF GiveUp, ConnectedEvent
<1>10. CASE UNCHANGED vars
  BY <1>2, <1>10 DEF vars
<1> QED
  BY <1>3, <1>4, <1>5, <1>6, <1>7, <1>8, <1>9, <1>10, Zenon DEF Next

\* The invariant implies that what is acknowledged was delivered.
LEMMA InvDelivered == TypeOK /\ SessionInv => AckedIsDelivered
<1> SUFFICES ASSUME TypeOK, SessionInv, NEW s \in Side, NEW i \in Ids
             PROVE  ackedTo(s, i) <= gotBy(Peer(s), i)
  BY DEF AckedIsDelivered, ackedTo, gotBy
<1>1. Peer(s) \in Side
  BY Sides
<1>2. ackedTo(s, i) <= writtenBy(Peer(s), i)
  BY DEF SessionInv, Credit
<1>3. writtenBy(Peer(s), i) <= gotBy(Peer(s), i)
  BY <1>1 DEF SessionInv, Backlog
<1>4. ackedTo(s, i) \in Nat /\ writtenBy(Peer(s), i) \in Nat /\ gotBy(Peer(s), i) \in Nat
  BY <1>1, CountTypes
<1> QED BY <1>2, <1>3, <1>4

\* The inductive invariant holds in every session: identifiers, credit,
\* writer queues and cells under way always fit together, whatever the number
\* of streams, the window and the mishaps (session.rs 386-565).
THEOREM SessionCorrect == Spec => []SessionInv
<1>1. Init => TypeOK /\ SessionInv
  BY InitTypeOK, InitSessionInv
<1>2. TypeOK /\ SessionInv /\ [Next]_vars => TypeOK' /\ SessionInv'
  BY StepTypeOK, StepSessionInv
<1> QED BY <1>1, <1>2, PTL DEF Spec

\* Two loops that run this code never accuse each other of breaking the
\* protocol: no cell of the peer is found unknown, repeated, over its credit,
\* over the queue or acknowledging too much (session.rs 486-552).
THEOREM NeverAccuses == Spec => []NoFalseAccusation
<1>1. Init => NoFalseAccusation
  BY DEF Init, NoFalseAccusation
<1>2. Spec => []TypeOK
  BY TypeCorrect
<1>3. Spec => []SessionInv
  BY SessionCorrect
<1> QED BY <1>1, <1>2, <1>3, StepAccusation, PTL DEF Spec

\* Credit follows delivery: what a sender counts as acknowledged has been
\* written to the socket at the other end (session.rs 213-219, 486-490, 545).
THEOREM CreditFollowsDelivery == Spec => []AckedIsDelivered
<1>1. Spec => []TypeOK
  BY TypeCorrect
<1>2. Spec => []SessionInv
  BY SessionCorrect
<1> QED BY <1>1, <1>2, InvDelivered, PTL
=============================================================================
