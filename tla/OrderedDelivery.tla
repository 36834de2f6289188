--------------------------- MODULE OrderedDelivery ---------------------------
(***************************************************************************)
(* What the outgoing half of the remote control transport promises to the  *)
(* app server, without websockets, sequence numbers, segments or           *)
(* acknowledgements: the messages accepted for a stream reach the backend  *)
(* in the order in which they were accepted, none is skipped unless it     *)
(* exceeds the size limit, and each is handed over in the end.             *)
(***************************************************************************)
EXTENDS Naturals, Sequences

CONSTANTS
    Streams,    \* (client_id, stream_id) pairs
    Messages,
    TooLarge    \* the messages above the size limit

VARIABLES
    accepted,   \* the messages accepted for each stream, in order
    delivered   \* the number of the last message handed over

vars == << accepted, delivered >>

Init ==
    /\ accepted = [s \in Streams |-> << >>]
    /\ delivered = [s \in Streams |-> 0]

Accept(s) ==
    /\ \E m \in Messages : accepted' = [accepted EXCEPT ![s] = Append(@, m)]
    /\ UNCHANGED delivered

\* The first message after the last delivered one that is not too large.
IsNext(s, n) ==
    /\ n \in delivered[s] + 1 .. Len(accepted[s])
    /\ accepted[s][n] \notin TooLarge
    /\ \A k \in delivered[s] + 1 .. n - 1 : accepted[s][k] \in TooLarge

Deliver(s) ==
    /\ \E n \in 1..Len(accepted[s]) :
            /\ IsNext(s, n)
            /\ delivered' = [delivered EXCEPT ![s] = n]
    /\ UNCHANGED accepted

Next == \E s \in Streams : Accept(s) \/ Deliver(s)

\* In order and without gaps ...
Safety == Init /\ [][Next]_vars

\* ... and in the end.
Spec == Safety /\ \A s \in Streams : WF_vars(Deliver(s))
=============================================================================
