--------------------------- MODULE MCPaddedSession ---------------------------
(* Model-checking instances of PaddedSession. *)
EXTENDS PaddedSessionProps
Upload3 == [s \in {"client", "exit"} |-> IF s = "client" THEN 3 ELSE 0]
Upload2 == [s \in {"client", "exit"} |-> IF s = "client" THEN 2 ELSE 0]
Both21 == [s \in {"client", "exit"} |-> IF s = "client" THEN 2 ELSE 1]
Upload1 == [s \in {"client", "exit"} |-> IF s = "client" THEN 1 ELSE 0]
NoData == [s \in {"client", "exit"} |-> 0]
Both11 == [s \in {"client", "exit"} |-> 1]
=============================================================================
