----------------------------- MODULE SendWindow -----------------------------
(***************************************************************************)
(* The per-stream credit counter of onion/flow.rs: cumulative              *)
(* acknowledgements over a window of WINDOW_CELLS data cells.  A window is *)
(* a record of two counters; the operators are the methods of the struct.  *)
(* The u32 counters are modelled as naturals: a session lives 300 seconds  *)
(* and sends at most one cell every 5 ms, so 2^32 is out of reach.         *)
(***************************************************************************)
EXTENDS Integers

CONSTANT WINDOW_CELLS

ASSUME WindowAssumption == WINDOW_CELLS \in Nat \ {0}

Window == [sent : Nat, acknowledged : Nat]

EmptyWindow == [sent |-> 0, acknowledged |-> 0]

Drained(w) == w.sent = w.acknowledged

Available(w) == w.sent - w.acknowledged < WINDOW_CELLS

\* `sent()`: the callers have checked Available.
Sent(w) == [w EXCEPT !.sent = @ + 1]

\* `acknowledge` refuses a value that is not news or was never earned.
ValidAck(w, value) == w.acknowledged < value /\ value <= w.sent

Acknowledge(w, value) == [w EXCEPT !.acknowledged = value]
=============================================================================
