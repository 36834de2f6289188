---------------------------- MODULE RemoteDelivery ----------------------------
(***************************************************************************)
(* The outgoing half of the app server's remote control transport:         *)
(* app-server-transport/src/transport/remote_control/websocket.rs and      *)
(* segment.rs.                                                             *)
(*                                                                         *)
(* The client tasks put messages into one bounded queue.  The writer of    *)
(* the current websocket takes them, numbers them per stream, splits large *)
(* ones into segments, keeps every envelope in the outbound buffer and     *)
(* writes it.  The buffer and the numbers outlive the websocket: the       *)
(* writer of the next one first writes all that is still in the buffer.    *)
(* The backend acknowledges envelopes, which frees their place.            *)
(*                                                                         *)
(* A message is represented by the number of envelopes it is split into;   *)
(* 0 stands for one that exceeds REMOTE_CONTROL_REASSEMBLED_MAX_BYTES.     *)
(* Serialization does not fail.  The websocket delivers in order what it   *)
(* delivers; when it breaks, what is in flight is lost.  The buffer map is *)
(* resent in an arbitrary order of streams: streams have a wire each.      *)
(* The waiter of a completed write ignores its outcome and is left out.    *)
(***************************************************************************)
EXTENDS Naturals, Sequences, FiniteSets, FiniteSetsExt, Subsequences

CONSTANTS
    Streams,      \* (client_id, stream_id) pairs
    Capacity,     \* CHANNEL_CAPACITY, of the queue and of the buffer
    MaxSegments,  \* REMOTE_CONTROL_SEGMENT_COUNT_MAX
    MaxMessages,  \* bound on the messages sent
    MaxBreaks     \* bound on broken connections

ASSUME DeliveryAssumption ==
    /\ IsFiniteSet(Streams)
    /\ Capacity \in Nat \ {0}
    /\ MaxSegments \in Nat \ {0}
    /\ MaxMessages \in Nat
    /\ MaxBreaks \in Nat

Message == 0..MaxSegments

\* seq_id and segment_id; an envelope that is not a chunk counts as segment 0.
Envelope == [seq : Nat \ {0}, seg : Nat]

VARIABLES
    queue,   \* server_event_rx
    taken,   \* the messages numbered so far; next_seq_id is Len(taken[s]) + 1
    buffer,  \* buffer_by_stream
    used,    \* the watched counter of buffered envelopes
    writer,  \* what the writer of the websocket does; "down" without one
    todo,    \* what it is about to write
    wire,    \* written and not yet received
    got,     \* the envelopes the backend has received
    breaks   \* connections broken so far

vars == << queue, taken, buffer, used, writer, todo, wire, got, breaks >>

QueueEntry == [stream : Streams, message : Message]

TypeOK ==
    /\ queue \in Seq(QueueEntry)
    /\ taken \in [Streams -> Seq(Message)]
    /\ buffer \in [Streams -> Seq(Envelope)]
    /\ used \in Nat
    /\ writer \in {"down", "resending", "waiting", "writing"}
    /\ todo \in [Streams -> Seq(Envelope)]
    /\ wire \in [Streams -> Seq(Envelope)]
    /\ got \in [Streams -> SUBSET Envelope]
    /\ breaks \in 0..MaxBreaks

Nothing == [s \in Streams |-> << >>]

Init ==
    /\ queue = << >>
    /\ taken = Nothing
    /\ buffer = Nothing
    /\ used = 0
    /\ writer = "down"
    /\ todo = Nothing
    /\ wire = Nothing
    /\ got = [s \in Streams |-> {}]
    /\ breaks = 0

Queued(s) == Subsequence(queue, {i \in 1..Len(queue) : queue[i].stream = s})
Sent == Len(queue) + MapThenSumSet(LAMBDA s : Len(taken[s]), Streams)

-----------------------------------------------------------------------------
(* The app server's side of the queue *)

\* A client task sends a message or a pong; it waits while the queue is full.
Enqueue(s) ==
    /\ Sent < MaxMessages
    /\ Len(queue) < Capacity
    /\ \E m \in Message :
            queue' = Append(queue, [stream |-> s, message |-> m])
    /\ UNCHANGED << taken, buffer, used, writer, todo, wire, got, breaks >>

-----------------------------------------------------------------------------
(* run_server_writer_inner *)

\* A new websocket: its writer starts from a copy of the buffer.
Connect ==
    /\ writer = "down"
    /\ writer' = "resending"
    /\ todo' = buffer
    /\ UNCHANGED << queue, taken, buffer, used, wire, got, breaks >>

\* All that was buffered is written; the writer goes on to the queue.
StartServing ==
    /\ writer = "resending"
    /\ todo = Nothing
    /\ writer' = "waiting"
    /\ UNCHANGED << queue, taken, buffer, used, todo, wire, got, breaks >>

\* split_server_envelope_for_transport
Split(n, m) == [g \in 1..m |-> [seq |-> n, seg |-> g - 1]]

HasCapacity == used < Capacity

\* Mutant: the counter counts messages.
TakeCountsMessages ==
    /\ writer = "waiting"
    /\ HasCapacity
    /\ queue # << >>
    /\ LET s == Head(queue).stream
           envelopes == Split(Len(taken[s]) + 1, Head(queue).message)
       IN  /\ taken' = [taken EXCEPT ![s] = Append(@, Head(queue).message)]
           /\ buffer' = [buffer EXCEPT ![s] = @ \o envelopes]
           /\ used' = used + 1
           /\ todo' = [todo EXCEPT ![s] = envelopes]
    /\ queue' = Tail(queue)
    /\ writer' = IF todo' = Nothing THEN "waiting" ELSE "writing"
    /\ UNCHANGED << wire, got, breaks >>

\* Number the message, split it, buffer all its envelopes.
Take ==
    /\ writer = "waiting"
    /\ HasCapacity
    /\ queue # << >>
    /\ LET s == Head(queue).stream
           envelopes == Split(Len(taken[s]) + 1, Head(queue).message)
       IN  /\ taken' = [taken EXCEPT ![s] = Append(@, Head(queue).message)]
           /\ buffer' = [buffer EXCEPT ![s] = @ \o envelopes]
           /\ used' = used + Len(envelopes)
           /\ todo' = [todo EXCEPT ![s] = envelopes]
    /\ queue' = Tail(queue)
    /\ writer' = IF todo' = Nothing THEN "waiting" ELSE "writing"
    /\ UNCHANGED << wire, got, breaks >>

\* Mutant: the payloads are popped from the end.
WriteFromTheEnd(s) ==
    /\ writer \in {"resending", "writing"}
    /\ todo[s] # << >>
    /\ wire' = [wire EXCEPT ![s] = Append(@, todo[s][Len(todo[s])])]
    /\ todo' = [todo EXCEPT ![s] = SubSeq(@, 1, Len(@) - 1)]
    /\ writer' = IF writer = "writing" /\ todo' = Nothing
                 THEN "waiting" ELSE writer
    /\ UNCHANGED << queue, taken, buffer, used, got, breaks >>

\* One websocket_writer.send.
Write(s) ==
    /\ writer \in {"resending", "writing"}
    /\ todo[s] # << >>
    /\ wire' = [wire EXCEPT ![s] = Append(@, Head(todo[s]))]
    /\ todo' = [todo EXCEPT ![s] = Tail(@)]
    /\ writer' = IF writer = "writing" /\ todo' = Nothing
                 THEN "waiting" ELSE writer
    /\ UNCHANGED << queue, taken, buffer, used, got, breaks >>

\* The websocket fails, the reader ends or remote control is switched off:
\* both halves of the connection stop.
Break ==
    /\ writer # "down"
    /\ breaks < MaxBreaks
    /\ writer' = "down"
    /\ todo' = Nothing
    /\ wire' = Nothing
    /\ breaks' = breaks + 1
    /\ UNCHANGED << queue, taken, buffer, used, got >>

-----------------------------------------------------------------------------
(* The backend, and BoundedOutboundBuffer::ack *)

Receive(s) ==
    /\ wire[s] # << >>
    /\ got' = [got EXCEPT ![s] = @ \cup {Head(wire[s])}]
    /\ wire' = [wire EXCEPT ![s] = Tail(@)]
    /\ UNCHANGED << queue, taken, buffer, used, writer, todo, breaks >>

\* Mutant: the segment is left out of the comparison.
IsAckedBySeqOnly(e, cursor) == e.seq <= cursor.seq

\* Mutant: the acknowledged envelope itself is kept.
IsAckedExclusive(e, cursor) ==
    \/ e.seq < cursor.seq
    \/ e.seq = cursor.seq /\ e.seg < cursor.seg

\* Cursors are compared by number, then by segment.
IsAcked(e, cursor) ==
    \/ e.seq < cursor.seq
    \/ e.seq = cursor.seq /\ e.seg <= cursor.seg

\* What retain leaves of a stream's buffer.
Unacked(s, cursor) ==
    Subsequence(buffer[s], {i \in 1..Len(buffer[s]) : ~IsAcked(buffer[s][i], cursor)})

\* Mutant: an acknowledgement takes one off the counter whatever it removes.
AckCountsOne(s) ==
    /\ writer # "down"
    /\ \E cursor \in got[s] :
            buffer' = [buffer EXCEPT ![s] = Unacked(s, cursor)]
    /\ used' = used - 1
    /\ UNCHANGED << queue, taken, writer, todo, wire, got, breaks >>

\* The acknowledgement of an envelope that the backend has, maybe a late or
\* a repeated one.  One without segment_id stands for all segments: of a
\* split message the backend sends it once it has them all, which is the
\* acknowledgement of the last one.
Ack(s) ==
    /\ writer # "down"
    /\ \E cursor \in got[s] :
            LET kept == Unacked(s, cursor)
            IN  /\ buffer' = [buffer EXCEPT ![s] = kept]
                /\ used' = used - (Len(buffer[s]) - Len(kept))
    /\ UNCHANGED << queue, taken, writer, todo, wire, got, breaks >>

-----------------------------------------------------------------------------
Next ==
    \/ \E s \in Streams : Enqueue(s) \/ Write(s) \/ Receive(s) \/ Ack(s)
    \/ Connect \/ StartServing \/ Take \/ Break

Spec == Init /\ [][Next]_vars

\* run reconnects for as long as remote control is on, the writer task goes
\* on, and the backend reads and acknowledges what it reads.
Fairness ==
    /\ WF_vars(Connect) /\ WF_vars(StartServing) /\ WF_vars(Take)
    /\ \A s \in Streams :
            WF_vars(Write(s)) /\ WF_vars(Receive(s)) /\ WF_vars(Ack(s))

FairSpec == Spec /\ Fairness

-----------------------------------------------------------------------------
(* Properties *)

\* All envelopes ever put on stream s.
Numbered(s) ==
    UNION {{Split(n, taken[s][n])[g] : g \in 1..taken[s][n]} :
              n \in 1..Len(taken[s])}

\* An envelope leaves the buffer only after the backend has received it, so
\* a connection that breaks at any point loses nothing: what is not in the
\* buffer any more need not be sent again (BoundedOutboundBuffer::ack and the
\* resending of server_envelopes).
NothingUnreceivedIsForgotten ==
    \A s \in Streams : \A e \in Numbered(s) :
        e \in got[s] \/ \E i \in 1..Len(buffer[s]) : buffer[s][i] = e

Before(d, e) == d.seq < e.seq \/ (d.seq = e.seq /\ d.seg < e.seg)

\* The backend never sees a gap: when an envelope of a stream arrives, all
\* earlier ones have arrived, over however many connections, so that it can
\* acknowledge with a single cursor per stream.
NoGaps ==
    \A s \in Streams : \A e \in got[s] : \A d \in Numbered(s) :
        Before(d, e) => d \in got[s]

\* The places of a buffer of all streams.
Places(b) == UNION {{s} \X (1..Len(b[s])) : s \in Streams}

\* The counter that opens and closes the queue counts the buffered envelopes,
\* and a message that is split when one place is left makes the buffer exceed
\* its capacity by its other segments and no more.
BufferIsBounded ==
    /\ used = Cardinality(Places(buffer))
    /\ used < Capacity + MaxSegments

\* The numbers of the messages of which the backend has every envelope.
Complete(s) ==
    {n \in 1..Len(taken[s]) :
        /\ taken[s][n] > 0
        /\ \A g \in 1..taken[s][n] : Split(n, taken[s][n])[g] \in got[s]}

Accepted == [s \in Streams |->
    taken[s] \o [i \in 1..Len(Queued(s)) |-> Queued(s)[i].message]]
Delivered == [s \in Streams |-> Max(Complete(s) \cup {0})]

Abstract == INSTANCE OrderedDelivery WITH
    Messages <- Message, TooLarge <- {0},
    accepted <- Accepted, delivered <- Delivered

\* The transport implements OrderedDelivery: with connections that break at
\* any point, every message that is not too large is handed over once the
\* connections last, in order and without gaps (run_server_writer_inner).
ImplementsOrderedDelivery == Abstract!Spec
=============================================================================
