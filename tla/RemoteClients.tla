---------------------------- MODULE RemoteClients ----------------------------
(***************************************************************************)
(* The incoming half of the app server's remote control transport: the     *)
(* websocket reader (websocket.rs), the reassembly of segmented messages   *)
(* (segment.rs) and the table of virtual clients (client_tracker.rs) of    *)
(* app-server-transport/src/transport/remote_control.                      *)
(*                                                                         *)
(* The backend keeps one log of what the remote clients send to this       *)
(* server.  It delivers it in order over the current websocket and, after  *)
(* a reconnect, again from the subscribe cursor or from an earlier place:  *)
(* the code expects replayed envelopes.  An initialize message opens a     *)
(* connection of the app server for its stream, with an outbound task of   *)
(* its own; the task ends when it is cancelled or when the app server      *)
(* drops its end, and the reader then closes the client of the task's key. *)
(*                                                                         *)
(* Left out: clients without stream_id (marked for removal in the code),   *)
(* pings, whose answers are outgoing messages, and the payloads.  A chunk  *)
(* whose payload does not decode has the effect of one out of order.  The  *)
(* idle timeout may strike at any time.                                    *)
(***************************************************************************)
EXTENDS Naturals, Sequences, FiniteSets, Subsequences

CONSTANTS
    Clients,        \* ClientId
    Streams,        \* StreamId
    ClientOf,       \* the client of a stream
    MaxAssemblies,  \* REMOTE_CONTROL_SEGMENT_ASSEMBLY_MAX_COUNT
    MaxLog,         \* bound on the envelopes sent by the clients
    MaxBreaks       \* bound on broken websockets

ASSUME ClientsAssumption ==
    /\ ClientOf \in [Streams -> Clients]
    /\ MaxAssemblies \in Nat \ {0}
    /\ MaxLog \in Nat
    /\ MaxBreaks \in Nat

\* A message is sent whole or in two chunks.  A chunk that is too large or
\* has senseless numbers is not valid.
Kind == {"initialize", "message", "chunk", "closed"}
ClientEnvelope ==
    [stream : Streams, kind : Kind, seq : 1..MaxLog, seg : 0..1, valid : BOOLEAN]
Count == 2

\* seq_id of the message, next_segment_id; a client has at most one.
Assembly == [stream : Streams, seq : 1..MaxLog, next : 0..Count]

\* A connection of the app server.  opened is the place in the log of its
\* initialize message, got the seq_ids of the messages forwarded to it.
Connection ==
    [stream : Streams, opened : 1..MaxLog, open : BOOLEAN,
     task : {"running", "cancelled", "ended", "joined"}, got : Seq(1..MaxLog)]

VARIABLES
    log,         \* what the clients have sent, as the backend keeps it
    pos,         \* how much of it the current websocket has delivered
    cursor,      \* subscribe_cursor, as a place in the log
    up,          \* there is a websocket
    breaks,      \* websockets broken so far
    assemblies,  \* in the order of last_chunk_seen_at
    lastChunk,   \* last_completed_client_chunk_seq_id_by_stream; 0 is none
    clients,     \* connection_id of each known stream; 0 is none
    lastSeq,     \* its last_inbound_seq_id
    connections, \* indexed by connection_id
    stopped      \* the transport has been shut down

reader == << assemblies, lastChunk >>
tracker == << clients, lastSeq, connections >>
vars == << log, pos, cursor, up, breaks, reader, tracker, stopped >>

TypeOK ==
    /\ log \in Seq(ClientEnvelope)
    /\ pos \in 0..Len(log)
    /\ cursor \in 0..Len(log)
    /\ up \in BOOLEAN
    /\ breaks \in 0..MaxBreaks
    /\ assemblies \in Seq(Assembly)
    /\ Len(assemblies) <= MaxAssemblies
    /\ lastChunk \in [Streams -> 0..MaxLog]
    /\ clients \in [Streams -> 0..Len(connections)]
    /\ lastSeq \in [Streams -> 0..MaxLog]
    /\ connections \in Seq(Connection)
    /\ stopped \in BOOLEAN

Init ==
    /\ log = << >>
    /\ pos = 0
    /\ cursor = 0
    /\ up = FALSE
    /\ breaks = 0
    /\ assemblies = << >>
    /\ lastChunk = [s \in Streams |-> 0]
    /\ clients = [s \in Streams |-> 0]
    /\ lastSeq = [s \in Streams |-> 0]
    /\ connections = << >>
    /\ stopped = FALSE

-----------------------------------------------------------------------------
(* The remote clients and the backend *)

Seqs(s) == {log[i].seq : i \in {j \in 1..Len(log) : log[j].stream = s}}
NewSeq(s) == CHOOSE n \in 1..MaxLog :
    n \notin Seqs(s) /\ \A k \in 1..n - 1 : k \in Seqs(s)

\* The second chunk may follow when the first is the stream's last envelope.
OpenChunk(s) ==
    \E i \in 1..Len(log) :
        /\ log[i].stream = s /\ log[i].kind = "chunk" /\ log[i].seg = 0
        /\ \A j \in i + 1..Len(log) : log[j].stream # s

\* What is beyond pos has no effect on anybody, so the log need not grow while
\* a part of it is still to be delivered.
ClientSends(s) ==
    /\ Len(log) < MaxLog
    /\ pos = Len(log)
    /\ \E kind \in Kind, seg \in 0..1, valid \in BOOLEAN :
            /\ seg = 1 => kind = "chunk" /\ OpenChunk(s)
            /\ ~valid => kind = "chunk" /\ seg = 1
            /\ LET n == IF seg = 1 THEN NewSeq(s) - 1 ELSE NewSeq(s)
               IN  log' = Append(log, [stream |-> s, kind |-> kind, seq |-> n,
                                       seg |-> seg, valid |-> valid])
    /\ UNCHANGED << pos, cursor, up, breaks, reader, tracker, stopped >>

Break ==
    /\ up
    /\ breaks < MaxBreaks
    /\ up' = FALSE
    /\ breaks' = breaks + 1
    /\ UNCHANGED << log, pos, cursor, reader, tracker, stopped >>

\* A websocket that subscribes from the cursor.
Connect ==
    /\ ~up /\ ~stopped
    /\ up' = TRUE
    /\ pos' \in 0..cursor
    /\ UNCHANGED << log, cursor, breaks, reader, tracker, stopped >>

-----------------------------------------------------------------------------
(* ClientTracker *)

\* Mutant: the token is not cancelled.
CloseWithoutCancel(conns, S) ==
    [c \in 1..Len(conns) |->
        IF conns[c].stream \in S /\ clients[conns[c].stream] = c
        THEN [conns[c] EXCEPT !.open = FALSE] ELSE conns[c]]

\* The connections after close_client for the streams in S: the token is
\* cancelled and ConnectionClosed is sent.  The table entry goes with Forget.
Cancelled(task) == IF task = "running" THEN "cancelled" ELSE task

CloseClients(conns, S) ==
    [c \in 1..Len(conns) |->
        IF conns[c].stream \in S /\ clients[conns[c].stream] = c
        THEN [conns[c] EXCEPT !.open = FALSE, !.task = Cancelled(@)]
        ELSE conns[c]]

Forget(S) ==
    /\ clients' = [s \in Streams |-> IF s \in S THEN 0 ELSE clients[s]]
    /\ lastSeq' = [s \in Streams |-> IF s \in S THEN 0 ELSE lastSeq[s]]

\* handle_message of an initialize: an existing client of the stream is
\* closed, a new connection is opened, the message goes to it.
Initialize(s, n) ==
    /\ connections' = Append(CloseClients(connections, {s}),
           [stream |-> s, opened |-> pos + 1, open |-> TRUE,
            task |-> "running", got |-> << n >>])
    /\ clients' = [clients EXCEPT ![s] = Len(connections) + 1]
    /\ lastSeq' = [lastSeq EXCEPT ![s] = n]

Known(s) == clients[s] # 0

\* Mutant: only the very last message counts as a repetition.
SeenBeforeExactly(s, n) == lastSeq[s] = n

\* Mutant: lastSeq is taken for the next number to come.
SeenBeforeNext(s, n) == lastSeq[s] + 1 >= n

SeenBefore(s, n) == lastSeq[s] >= n

\* handle_message of any other message.
Message(s, n) ==
    \/ /\ Known(s) /\ ~SeenBefore(s, n)
       /\ connections' = [connections EXCEPT ![clients[s]].got = Append(@, n)]
       /\ lastSeq' = [lastSeq EXCEPT ![s] = n]
       /\ UNCHANGED clients
    \/ /\ ~Known(s) \/ SeenBefore(s, n)
       /\ UNCHANGED tracker

-----------------------------------------------------------------------------
(* run_websocket_reader_inner *)

\* The next envelope e of the log arrives.
Arrives(e) ==
    /\ up
    /\ pos < Len(log)
    /\ e = log[pos + 1]
    /\ pos' = pos + 1
    /\ UNCHANGED << log, up, breaks, stopped >>

Incoming == IF pos < Len(log) THEN {log[pos + 1]} ELSE {}

HandleInitialize ==
    \E e \in Incoming :
        /\ e.kind = "initialize"
        /\ Arrives(e)
        /\ cursor' = pos + 1
        /\ Initialize(e.stream, e.seq)
        /\ UNCHANGED reader

HandleMessage ==
    \E e \in Incoming :
        /\ e.kind = "message"
        /\ Arrives(e)
        /\ cursor' = pos + 1
        /\ Message(e.stream, e.seq)
        /\ UNCHANGED reader

SameClient(a, s) == ClientOf[a.stream] = ClientOf[s]
OfOthers(s) == Subsequence(assemblies,
    {i \in 1..Len(assemblies) : ~SameClient(assemblies[i], s)})
OfOtherStreams(S) == Subsequence(assemblies,
    {i \in 1..Len(assemblies) : assemblies[i].stream \notin S})
Current(s) == {assemblies[i] : i \in
                 {j \in 1..Len(assemblies) : SameClient(assemblies[j], s)}}

\* invalidate_stream and invalidate_client_message_stream
InvalidateStreams(S) ==
    /\ assemblies' = OfOtherStreams(S)
    /\ lastChunk' = [s \in Streams |-> IF s \in S THEN 0 ELSE lastChunk[s]]

HandleClosed ==
    \E e \in Incoming :
        /\ e.kind = "closed"
        /\ Arrives(e)
        /\ cursor' = pos + 1
        /\ connections' = CloseClients(connections, {e.stream})
        /\ Forget({e.stream})
        /\ InvalidateStreams({e.stream})

\* A chunk of a completed message, or one the assembly has already.
Ignored(e) ==
    \/ lastChunk[e.stream] >= e.seq
    \/ \E a \in Current(e.stream) :
            /\ a.stream = e.stream
            /\ e.seq < a.seq \/ (e.seq = a.seq /\ e.seg < a.next)

IgnoreChunk ==
    \E e \in Incoming :
        /\ e.kind = "chunk" /\ Ignored(e)
        /\ Arrives(e)
        /\ UNCHANGED << cursor, reader, tracker >>

\* An oversized or senseless chunk ends the assembly of its stream.
RejectChunk ==
    \E e \in Incoming :
        /\ e.kind = "chunk" /\ ~Ignored(e) /\ ~e.valid
        /\ Arrives(e)
        /\ assemblies' = OfOtherStreams({e.stream})
        /\ UNCHANGED << cursor, lastChunk, tracker >>

\* Mutant: no room is made for the new one.
EvictedWithoutRoom == SubSeq(assemblies,
    IF Len(assemblies) <= MaxAssemblies THEN 1
    ELSE Len(assemblies) - MaxAssemblies + 1, Len(assemblies))

\* evict_assemblies_if_full: the longest untouched ones go.
Evicted == SubSeq(assemblies,
    IF Len(assemblies) < MaxAssemblies THEN 1
    ELSE Len(assemblies) - MaxAssemblies + 2, Len(assemblies))

\* The other clients' assemblies once chunk e has a place.
Others(e) == IF Current(e.stream) = {} THEN Evicted ELSE OfOthers(e.stream)

\* The assembly chunk e meets: its client's, or a new one when there is none
\* or when it belongs to another stream.
Meets(e) ==
    IF \E a \in Current(e.stream) : a.stream = e.stream
    THEN CHOOSE a \in Current(e.stream) : TRUE
    ELSE [stream |-> e.stream, seq |-> e.seq, next |-> 0]

Fits(e) == Meets(e).seq = e.seq /\ Meets(e).next = e.seg

\* Another message began, or a chunk is missing: the assembly is dropped.
DropChunk ==
    \E e \in Incoming :
        /\ e.kind = "chunk" /\ ~Ignored(e) /\ e.valid /\ ~Fits(e)
        /\ Arrives(e)
        /\ assemblies' = Others(e)
        /\ UNCHANGED << cursor, lastChunk, tracker >>

\* Not the last chunk: the cursor stays.
KeepChunk ==
    \E e \in Incoming :
        /\ e.kind = "chunk" /\ ~Ignored(e) /\ e.valid /\ Fits(e)
        /\ e.seg + 1 < Count
        /\ Arrives(e)
        /\ assemblies' = Append(Others(e), [Meets(e) EXCEPT !.next = @ + 1])
        /\ UNCHANGED << cursor, lastChunk, tracker >>

\* The last chunk: the message goes on like one that was sent whole.
CompleteChunk ==
    \E e \in Incoming :
        /\ e.kind = "chunk" /\ ~Ignored(e) /\ e.valid /\ Fits(e)
        /\ e.seg + 1 = Count
        /\ Arrives(e)
        /\ assemblies' = Others(e)
        /\ lastChunk' = [lastChunk EXCEPT ![e.stream] = e.seq]
        /\ cursor' = pos + 1
        /\ Message(e.stream, e.seq)

Receive ==
    \/ HandleInitialize \/ HandleMessage \/ HandleClosed
    \/ IgnoreChunk \/ RejectChunk \/ DropChunk \/ KeepChunk \/ CompleteChunk

\* run_client_outbound returns: cancelled, or its channel was dropped.
TaskEnds(c) ==
    /\ connections[c].task \in {"running", "cancelled"}
    /\ connections' = [connections EXCEPT ![c].task = "ended"]
    /\ UNCHANGED << log, pos, cursor, up, breaks, reader, clients, lastSeq,
                    stopped >>

\* Mutant: the client of a task that ended by itself is not closed.
JoinOnly(c) ==
    /\ up
    /\ connections[c].task = "ended"
    /\ connections' = [connections EXCEPT ![c].task = "joined"]
    /\ InvalidateStreams({connections[c].stream})
    /\ UNCHANGED << log, pos, cursor, up, breaks, clients, lastSeq, stopped >>

\* The reader joins a task that has ended and closes the client of its key,
\* whichever connection that client has now.
BookkeepJoinSet(c) ==
    /\ up
    /\ connections[c].task = "ended"
    /\ LET s == connections[c].stream
           joined == [connections EXCEPT ![c].task = "joined"]
       IN  /\ connections' = CloseClients(joined, {s})
           /\ Forget({s})
           /\ InvalidateStreams({s})
    /\ UNCHANGED << log, pos, cursor, up, breaks, stopped >>

\* The idle sweep finds clients without activity for ten minutes.
CloseExpiredClients ==
    /\ up
    /\ \E S \in SUBSET {s \in Streams : Known(s)} \ {{}} :
            /\ connections' = CloseClients(connections, S)
            /\ Forget(S)
            /\ InvalidateStreams(S)
    /\ UNCHANGED << log, pos, cursor, up, breaks, stopped >>

\* run leaves its loop: all clients are closed and all tasks awaited.
Shutdown ==
    /\ ~stopped
    /\ stopped' = TRUE
    /\ up' = FALSE
    /\ LET closed == CloseClients(connections, Streams)
       IN  connections' = [c \in 1..Len(closed) |->
                              [closed[c] EXCEPT !.task = "joined"]]
    /\ Forget(Streams)
    /\ UNCHANGED << log, pos, cursor, breaks, reader >>

-----------------------------------------------------------------------------
Next ==
    \/ \E s \in Streams : ClientSends(s)
    \/ Break \/ Connect \/ Receive
    \/ \E c \in 1..Len(connections) : TaskEnds(c) \/ BookkeepJoinSet(c)
    \/ CloseExpiredClients
    \/ Shutdown

Spec == Init /\ [][Next]_vars

\* The run loop reconnects, the reader reads and joins, and a cancelled task
\* sees its token.
FairSpec ==
    /\ Spec
    /\ WF_vars(Connect)
    /\ WF_vars(Receive)
    /\ WF_vars(\E c \in 1..Len(connections) :
                  connections[c].task = "cancelled" /\ TaskEnds(c))
    /\ WF_vars(\E c \in 1..Len(connections) : BookkeepJoinSet(c))

-----------------------------------------------------------------------------
(* Properties *)

\* The app server and the tracker agree on which connections are open, and a
\* task that is neither cancelled nor over belongs to one of them: no closed
\* connection keeps a task that goes on sending (handle_message,
\* close_client).
OpenConnectionsAgree ==
    \A c \in 1..Len(connections) :
        /\ connections[c].open <=> clients[connections[c].stream] = c
        /\ connections[c].task = "running" => connections[c].open

\* Whatever the backend replays, a connection gets the messages of its stream
\* in the order in which they were sent, none twice (last_inbound_seq_id).
ForwardedInOrder ==
    \A c \in 1..Len(connections) : \A i, j \in 1..Len(connections[c].got) :
        i < j => connections[c].got[i] < connections[c].got[j]

\* No message that was sent whole is passed over: once the reader is beyond
\* it, an open connection of its stream that was opened before it has it.
NothingIsPassedOver ==
    \A c \in 1..Len(connections) : connections[c].open =>
        \A i \in connections[c].opened + 1 .. pos :
            log[i].stream = connections[c].stream /\ log[i].kind = "message" =>
                \E k \in 1..Len(connections[c].got) :
                    connections[c].got[k] = log[i].seq

\* A connection whose task is over is closed in the end, also when the
\* websocket breaks meanwhile (bookkeep_join_set).
EndedTaskIsClosed ==
    []<>(\A c \in 1..Len(connections) :
            connections[c].task \in {"ended", "joined"} => ~connections[c].open)

\* The end of a task closes the connection of that task and no other one.
TaskClosesItsOwnConnection ==
    [][\A c, d \in 1..Len(connections) :
          /\ connections[c].task = "ended" /\ connections'[c].task = "joined"
          /\ ~stopped'
          /\ connections[d].open /\ ~connections'[d].open
          => c = d]_vars
=============================================================================
