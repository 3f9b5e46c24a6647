--------------------------- MODULE StreamService ---------------------------
(***************************************************************************)
(* What a padded session promises the two users of a stream (the           *)
(* application and the destination), whatever cells carry it: in each      *)
(* direction a reliable, ordered, half-closable channel.  A user sees its  *)
(* input shut down only when its peer has stopped sending and everything   *)
(* the peer had sent has arrived.                                          *)
(***************************************************************************)
EXTENDS Integers, Sequences

CONSTANTS Side, Peer(_), Ids

VARIABLES
    sent,      \* sent[s][i]: pieces accepted from the user at side s of stream i
    stopped,   \* stopped[s][i]: that user sends no more
    got,       \* got[s][i]: the pieces handed to that user
    shut       \* shut[s][i]: that user was told that no more will come

serviceVars == <<sent, stopped, got, shut>>

Init ==
    /\ sent = [s \in Side |-> [i \in Ids |-> 0]]
    /\ stopped = [s \in Side |-> [i \in Ids |-> FALSE]]
    /\ got = [s \in Side |-> [i \in Ids |-> <<>>]]
    /\ shut = [s \in Side |-> [i \in Ids |-> FALSE]]

Accept(s, i) ==
    /\ ~stopped[s][i]
    /\ sent' = [sent EXCEPT ![s][i] = @ + 1]
    /\ UNCHANGED <<stopped, got, shut>>

Stop(s, i) ==
    /\ ~stopped[s][i]
    /\ stopped' = [stopped EXCEPT ![s][i] = TRUE]
    /\ UNCHANGED <<sent, got, shut>>

\* The next piece in order, while there is one.
Deliver(s, i) ==
    /\ ~shut[s][i]
    /\ Len(got[s][i]) < sent[Peer(s)][i]
    /\ got' = [got EXCEPT ![s][i] = Append(@, Len(@) + 1)]
    /\ UNCHANGED <<sent, stopped, shut>>

Shut(s, i) ==
    /\ ~shut[s][i]
    /\ stopped[Peer(s)][i] /\ Len(got[s][i]) = sent[Peer(s)][i]
    /\ shut' = [shut EXCEPT ![s][i] = TRUE]
    /\ UNCHANGED <<sent, stopped, got>>

Next == \E s \in Side, i \in Ids : Accept(s, i) \/ Stop(s, i) \/ Deliver(s, i) \/ Shut(s, i)

Spec == Init /\ [][Next]_serviceVars
=============================================================================
