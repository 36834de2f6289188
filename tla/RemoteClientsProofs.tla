------------------------- MODULE RemoteClientsProofs -------------------------
(***************************************************************************)
(* Proofs about RemoteClients, for any number of clients, streams,         *)
(* envelopes and broken websockets: the table of virtual clients agrees    *)
(* with the connections of the app server, and a connection gets the       *)
(* messages of its stream in order, none twice, and none that was sent     *)
(* whole is passed over, whatever the backend replays.  The messages being *)
(* put together stay within their limit.                                   *)
(***************************************************************************)
EXTENDS RemoteClients, SubsequenceProofs

USE ClientsAssumption

-----------------------------------------------------------------------------
(* The inductive invariants.                                               *)

\* The types of the table and of the log; those of the reader, which the
\* table does not depend on, are ReaderOK below.
TableOK ==
    /\ log \in Seq(ClientEnvelope) /\ Len(log) <= MaxLog
    /\ pos \in 0..Len(log)
    /\ cursor \in 0..Len(log)
    /\ clients \in [Streams -> 0..Len(connections)]
    /\ lastSeq \in [Streams -> 0..MaxLog]
    /\ connections \in Seq(Connection)

\* The sequence numbers of a stream begin with 1, none is left out ...
NumbersAreDense ==
    \A s \in Streams : \A n \in Seqs(s) : \A m \in 1..n : m \in Seqs(s)

\* ... and they never fall.
NumbersAscend ==
    \A i, j \in 1..Len(log) :
        i <= j /\ log[i].stream = log[j].stream => log[i].seq <= log[j].seq

LogInv == NumbersAreDense /\ NumbersAscend

\* An entry of the table is a connection of its stream.
EntriesAreConnections ==
    \A s \in Streams : Known(s) => connections[clients[s]].stream = s

\* last_inbound_seq_id is the number of an envelope, and an upper bound of
\* what the connection got.
LastSeqIsSent ==
    \A s \in Streams : lastSeq[s] # 0 => lastSeq[s] \in Seqs(s)

GotUpToLastSeq ==
    \A c \in 1..Len(connections) : connections[c].open =>
        \A i \in 1..Len(connections[c].got) :
            connections[c].got[i] <= lastSeq[connections[c].stream]

\* Connection c has what envelope i brings.
Has(c, i) ==
    \E k \in 1..Len(connections[c].got) : connections[c].got[k] = log[i].seq

\* Whatever counts as seen before has been forwarded: a replayed message is
\* dropped rightly.
SeenIsForwarded ==
    \A c \in 1..Len(connections) : connections[c].open =>
        \A i \in connections[c].opened + 1 .. Len(log) :
            /\ log[i].stream = connections[c].stream
            /\ log[i].kind = "message"
            /\ SeenBefore(log[i].stream, log[i].seq)
            => Has(c, i)

\* Nothing is passed over before the subscribe cursor either, where the next
\* websocket may begin.
NothingBeforeCursor ==
    \A c \in 1..Len(connections) : connections[c].open =>
        \A i \in connections[c].opened + 1 .. cursor :
            log[i].stream = connections[c].stream /\ log[i].kind = "message" =>
                Has(c, i)

TrackerInv ==
    /\ EntriesAreConnections /\ OpenConnectionsAgree /\ LastSeqIsSent
    /\ ForwardedInOrder /\ GotUpToLastSeq
    /\ SeenIsForwarded /\ NothingIsPassedOver /\ NothingBeforeCursor

Inv == TableOK /\ LogInv /\ TrackerInv

-----------------------------------------------------------------------------
(* Sequence numbers                                                        *)

LEMMA LogEntry ==
    ASSUME TableOK, NEW i \in 1..Len(log)
    PROVE  /\ log[i] \in ClientEnvelope /\ log[i].stream \in Streams
           /\ log[i].seq \in 1..MaxLog /\ log[i].seq \in Nat
           /\ log[i].seq \in Seqs(log[i].stream)
  <1>1. log[i] \in ClientEnvelope
    BY ElementOfSeq DEF TableOK
  <1> QED
    BY <1>1 DEF ClientEnvelope, Seqs

\* There is always a number left for the next envelope of a stream, and it
\* is beyond all that were used.
LEMMA NewSeqFacts ==
    ASSUME TableOK, LogInv, NEW s \in Streams, Len(log) < MaxLog
    PROVE  /\ NewSeq(s) \in 1..MaxLog /\ NewSeq(s) \notin Seqs(s)
           /\ \A k \in 1..NewSeq(s) - 1 : k \in Seqs(s)
           /\ \A m \in Seqs(s) : m < NewSeq(s)
  <1> DEFINE free == {n \in 1..MaxLog : n \notin Seqs(s)}
             less == {ss \in Nat \X Nat : ss[1] < ss[2]}
  <1>0. Len(log) \in Nat
    BY LenProperties DEF TableOK
  <1>1. free # {}
    <2> SUFFICES ASSUME \A n \in 1..MaxLog : n \in Seqs(s)
                 PROVE  FALSE
      OBVIOUS
    <2> DEFINE place == [n \in 1..MaxLog |-> CHOOSE j \in 1..Len(log) :
                            log[j].stream = s /\ log[j].seq = n]
    <2>1. ASSUME NEW n \in 1..MaxLog
          PROVE  place[n] \in 1..Len(log) /\ log[place[n]].seq = n
      <3>1. \E j \in 1..Len(log) : log[j].stream = s /\ log[j].seq = n
        BY DEF Seqs
      <3> QED
        BY <3>1
    <2>2. place \in [1..MaxLog -> 1..Len(log)]
      BY <2>1
    <2> HIDE DEF place
    <2>3. /\ IsFiniteSet(1..MaxLog) /\ Cardinality(1..MaxLog) = MaxLog
          /\ IsFiniteSet(1..Len(log)) /\ Cardinality(1..Len(log)) = Len(log)
      <3>1. ASSUME NEW n \in Nat
            PROVE  IsFiniteSet(1..n) /\ Cardinality(1..n) = n
        <4>1. 1 \in Int /\ n \in Int
          OBVIOUS
        <4>2. /\ IsFiniteSet(1..n)
              /\ Cardinality(1..n) = IF 1 > n THEN 0 ELSE n - 1 + 1
          BY <4>1, FS_Interval, Zenon
        <4>3. (IF 1 > n THEN 0 ELSE n - 1 + 1) = n
          OBVIOUS
        <4> QED
          BY <4>2, <4>3
      <3> QED
        BY <1>0, <3>1
    <2>4. PICK x, y \in 1..MaxLog : x # y /\ place[x] = place[y]
      BY <2>2, <2>3, FS_PigeonHole
    <2> QED
      BY <2>1, <2>4
  <1>2. IsWellFoundedOn(less, Nat)
    BY NatLessThanWellFounded DEF OpToRel
  <1>3. \A x, y \in Nat : << y, x >> \in less <=> y < x
    OBVIOUS
  <1> HIDE DEF less
  <1>4. PICK n \in free : \A m \in free : ~(<< m, n >> \in less)
    <2>1. free \subseteq Nat
      OBVIOUS
    <2> HIDE DEF free
    <2>2. \E n \in free : \A m \in free : ~(<< m, n >> \in less)
      BY ONLY <1>1, <1>2, <2>1, WFMin, Zenon
    <2> QED
      BY <2>2
  <1>5. n \in 1..MaxLog /\ n \notin Seqs(s)
    OBVIOUS
  <1>6. ASSUME NEW k \in 1..n - 1 PROVE k \in Seqs(s)
    <2>1. k \in Nat /\ n \in Nat /\ k < n /\ k \in 1..MaxLog
      BY <1>5
    <2>2. << k, n >> \in less
      BY <1>3, <2>1, Zenon
    <2>3. k \notin free
      BY <1>4, <2>2
    <2> QED
      BY <2>1, <2>3
  <1>7. /\ NewSeq(s) \in 1..MaxLog /\ NewSeq(s) \notin Seqs(s)
        /\ \A k \in 1..NewSeq(s) - 1 : k \in Seqs(s)
    <2>1. \E m \in 1..MaxLog : m \notin Seqs(s) /\ \A k \in 1..m - 1 : k \in Seqs(s)
      BY <1>5, <1>6
    <2> QED
      BY <2>1, Zenon DEF NewSeq
  <1>8. ASSUME NEW m \in Seqs(s) PROVE m < NewSeq(s)
    <2>1. PICK i \in 1..Len(log) : log[i].stream = s /\ log[i].seq = m
      BY DEF Seqs
    <2>2. m \in 1..MaxLog
      BY <2>1, LogEntry
    <2>3. \A k \in 1..m : k \in Seqs(s)
      BY DEF LogInv, NumbersAreDense
    <2> QED
      BY <1>7, <2>2, <2>3
  <1> QED
    BY <1>7, <1>8

\* A new envelope goes to the end of the log with the next number, the second
\* chunk of a message with the number of the first.
LEMMA SentEnvelope ==
    ASSUME TableOK, LogInv, NEW s \in Streams, ClientSends(s)
    PROVE  \E e \in ClientEnvelope :
             /\ log' = Append(log, e) /\ e.stream = s
             /\ e.seq \in 1..MaxLog
             /\ \A m \in Seqs(s) : m <= e.seq
             /\ \A k \in 1..e.seq - 1 : k \in Seqs(s)
             /\ e.kind # "chunk" => e.seq \notin Seqs(s)
  <1>0. Len(log) < MaxLog
    BY DEF ClientSends
  <1> DEFINE new == NewSeq(s)
  <1>1. /\ new \in 1..MaxLog /\ new \notin Seqs(s)
        /\ \A k \in 1..new - 1 : k \in Seqs(s)
        /\ \A m \in Seqs(s) : m < new
    BY <1>0, NewSeqFacts
  <1>2. PICK kind \in Kind, seg \in 0..1, valid \in BOOLEAN :
          /\ seg = 1 => kind = "chunk" /\ OpenChunk(s)
          /\ log' = Append(log, [stream |-> s, kind |-> kind,
                                 seq |-> IF seg = 1 THEN new - 1 ELSE new,
                                 seg |-> seg, valid |-> valid])
    BY DEF ClientSends
  <1> HIDE DEF new
  <1>n. \A m \in Seqs(s) : m \in Nat \ {0}
    BY LogEntry DEF Seqs
  <1> DEFINE n == IF seg = 1 THEN new - 1 ELSE new
             e == [stream |-> s, kind |-> kind, seq |-> n,
                   seg |-> seg, valid |-> valid]
  <1>3. /\ n \in 1..MaxLog
        /\ \A m \in Seqs(s) : m <= n
        /\ \A k \in 1..n - 1 : k \in Seqs(s)
        /\ kind # "chunk" => n \notin Seqs(s)
    <2>1. CASE seg = 1
      <3>1. PICK i \in 1..Len(log) : log[i].stream = s
        BY <1>2, <2>1 DEF OpenChunk
      <3>2. log[i].seq \in Seqs(s)
        BY <3>1, LogEntry
      <3>3. new > 1
        BY <1>1, <1>n, <3>2
      <3> QED
        BY <1>1, <1>2, <1>n, <2>1, <3>3
    <2>2. CASE seg # 1
      BY <1>1, <1>n, <2>2
    <2> QED
      BY <2>1, <2>2
  <1>4. log' = Append(log, e)
    BY <1>2
  <1> HIDE DEF n
  <1>5. /\ e \in ClientEnvelope /\ e.stream = s /\ e.seq = n /\ e.kind = kind
    BY <1>3 DEF ClientEnvelope
  <1> HIDE DEF e
  <1> QED
    BY <1>3, <1>4, <1>5

LEMMA ClientSendsInv ==
    ASSUME Inv, NEW s \in Streams, ClientSends(s)
    PROVE  Inv'
  <1> USE DEF Inv
  <1>1. PICK e \in ClientEnvelope :
             /\ log' = Append(log, e) /\ e.stream = s
             /\ e.seq \in 1..MaxLog
             /\ \A m \in Seqs(s) : m <= e.seq
             /\ \A k \in 1..e.seq - 1 : k \in Seqs(s)
             /\ e.kind # "chunk" => e.seq \notin Seqs(s)
    BY SentEnvelope
  <1> DEFINE last == Len(log) + 1
  <1>2. /\ Len(log) \in Nat /\ Len(log) < MaxLog /\ pos = Len(log)
        /\ log' \in Seq(ClientEnvelope) /\ Len(log') = last
        /\ \A i \in 1..Len(log) : log'[i] = log[i]
        /\ log'[last] = e
        /\ UNCHANGED << pos, cursor, clients, lastSeq, connections >>
    BY <1>1, LenProperties, AppendProperties
       DEF ClientSends, TableOK, tracker
  <1>3. TableOK'
    BY <1>2 DEF TableOK
  <1>i. \A i \in 1..Len(log') : i \in 1..Len(log) \/ i = last
    BY <1>2
  <1>4. \A u, m : m \in Seqs(u) => m \in Seqs(u)'
    BY <1>2 DEF Seqs
  <1>5. e.seq \in Seqs(s)'
    BY <1>1, <1>2 DEF Seqs
  <1>6. NumbersAreDense'
    <2> SUFFICES ASSUME NEW u \in Streams, NEW n \in Seqs(u)', NEW m \in 1..n
                 PROVE  m \in Seqs(u)'
      BY DEF NumbersAreDense
    <2>1. CASE n \in Seqs(u)
      BY <1>4, <2>1 DEF LogInv, NumbersAreDense
    <2>2. CASE n \notin Seqs(u)
      <3>1. PICK i \in 1..Len(log') : log'[i].stream = u /\ log'[i].seq = n
        BY DEF Seqs
      <3>2. i = last
        BY <1>2, <1>i, <2>2, <3>1 DEF Seqs
      <3>3. u = s /\ n = e.seq
        BY <1>1, <1>2, <3>1, <3>2
      <3>4. m = e.seq \/ m \in 1..e.seq - 1
        BY <1>1, <3>3
      <3> QED
        BY <1>1, <1>4, <1>5, <3>3, <3>4
    <2> QED
      BY <2>1, <2>2
  <1>7. NumbersAscend'
    <2> SUFFICES ASSUME NEW i \in 1..Len(log'), NEW j \in 1..Len(log'), i <= j,
                        log'[i].stream = log'[j].stream
                 PROVE  log'[i].seq <= log'[j].seq
      BY DEF NumbersAscend
    <2>1. CASE i \in 1..Len(log) /\ j \in 1..Len(log)
      BY <1>2, <2>1 DEF LogInv, NumbersAscend
    <2>2. CASE i \in 1..Len(log) /\ j = last
      BY <1>1, <1>2, <2>2, LogEntry
    <2>3. CASE i = last
      BY <1>1, <1>2, <2>3
    <2> QED
      BY <1>i, <2>1, <2>2, <2>3
  <1>8. /\ EntriesAreConnections' /\ OpenConnectionsAgree' /\ ForwardedInOrder'
        /\ GotUpToLastSeq'
    BY <1>2 DEF TrackerInv, EntriesAreConnections, OpenConnectionsAgree,
                ForwardedInOrder, GotUpToLastSeq, Known
  <1>9. LastSeqIsSent'
    BY <1>2, <1>4 DEF TrackerInv, LastSeqIsSent
  <1>c. \A c \in 1..Len(connections) :
          connections[c].opened \in Nat /\ connections[c].stream \in Streams
    <2>1. \A c \in 1..Len(connections) : connections[c] \in Connection
      BY ElementOfSeq DEF TableOK
    <2> QED
      BY <2>1 DEF Connection
  <1>10. SeenIsForwarded'
    <2> SUFFICES ASSUME NEW c \in 1..Len(connections), connections[c].open,
                        NEW i \in connections[c].opened + 1 .. Len(log'),
                        log'[i].stream = connections[c].stream,
                        log'[i].kind = "message",
                        lastSeq[log'[i].stream] >= log'[i].seq
                 PROVE  Has(c, i)'
      BY <1>2 DEF SeenIsForwarded, SeenBefore
    <2>0. i \in 1..Len(log')
      BY <1>2, <1>c
    <2>1. CASE i \in 1..Len(log)
      <3>1. SeenIsForwarded
        BY DEF TrackerInv
      <3>2. connections[c].opened \in Nat /\ Len(log) \in Nat
        BY <1>c, <1>2
      <3>3. i \in connections[c].opened + 1 .. Len(log)
        BY <2>1, <3>2
      <3>4. log'[i] = log[i]
        BY <1>2, <2>1
      <3>5. Has(c, i)
        BY <3>1, <3>3, <3>4 DEF SeenIsForwarded, SeenBefore
      <3> QED
        BY <1>2, <3>4, <3>5 DEF Has
    <2>2. CASE i = last
      <3>1. lastSeq[s] >= e.seq /\ e.seq \notin Seqs(s)
        BY <1>1, <1>2, <2>2
      <3>2. lastSeq[s] \in 0..MaxLog
        BY DEF TableOK
      <3>3. lastSeq[s] \in Seqs(s)
        BY <1>1, <3>1, <3>2 DEF TrackerInv, LastSeqIsSent
      <3>4. lastSeq[s] <= e.seq
        BY <1>1, <3>3
      <3> QED
        BY <1>1, <3>1, <3>2, <3>3, <3>4
    <2> QED
      BY <1>i, <2>0, <2>1, <2>2
  <1>11. NothingIsPassedOver'
    <2> SUFFICES ASSUME NEW c \in 1..Len(connections), connections[c].open,
                        NEW i \in connections[c].opened + 1 .. pos,
                        log'[i].stream = connections[c].stream,
                        log'[i].kind = "message"
                 PROVE  \E k \in 1..Len(connections[c].got) :
                            connections[c].got[k] = log'[i].seq
      BY <1>2 DEF NothingIsPassedOver
    <2>1. i \in 1..Len(log)
      BY <1>2, <1>c
    <2> QED
      BY <1>2, <2>1 DEF TrackerInv, NothingIsPassedOver
  <1>12. NothingBeforeCursor'
    <2> SUFFICES ASSUME NEW c \in 1..Len(connections), connections[c].open,
                        NEW i \in connections[c].opened + 1 .. cursor,
                        log'[i].stream = connections[c].stream,
                        log'[i].kind = "message"
                 PROVE  Has(c, i)'
      BY <1>2 DEF NothingBeforeCursor
    <2>1. i \in 1..Len(log)
      BY <1>2, <1>c DEF TableOK
    <2>2. Has(c, i)
      BY <1>2, <2>1 DEF TrackerInv, NothingBeforeCursor
    <2> QED
      BY <1>2, <2>1, <2>2 DEF Has
  <1> QED
    BY <1>3, <1>6, <1>7, <1>8, <1>9, <1>10, <1>11, <1>12 DEF LogInv, TrackerInv

-----------------------------------------------------------------------------
(* The table of virtual clients                                            *)

LEMMA ConnectionFacts ==
    ASSUME TableOK, NEW c \in 1..Len(connections)
    PROVE  /\ connections[c] \in Connection
           /\ connections[c].stream \in Streams
           /\ connections[c].opened \in 1..MaxLog
           /\ connections[c].open \in BOOLEAN
           /\ connections[c].got \in Seq(1..MaxLog)
           /\ Len(connections[c].got) \in Nat
           /\ \A i \in 1..Len(connections[c].got) :
                connections[c].got[i] \in 1..MaxLog
  <1>1. connections[c] \in Connection
    BY ElementOfSeq DEF TableOK
  <1>2. connections[c].got \in Seq(1..MaxLog)
    BY <1>1 DEF Connection
  <1> QED
    BY <1>1, <1>2, LenProperties, ElementOfSeq DEF Connection

\* What close_client does to a connection: it is closed and its task is
\* cancelled; nothing else of it changes.
LEMMA ClosedConnection ==
    ASSUME NEW k \in Connection
    PROVE  LET new == [k EXCEPT !.open = FALSE, !.task = Cancelled(@)]
           IN  /\ new \in Connection /\ new.stream = k.stream
               /\ new.opened = k.opened /\ new.got = k.got
               /\ ~new.open /\ new.task # "running"
  <1> DEFINE shut == [k EXCEPT !.open = FALSE]
             new == [shut EXCEPT !.task = Cancelled(shut.task)]
  <1>1. /\ shut \in Connection /\ shut.stream = k.stream
        /\ shut.opened = k.opened /\ shut.got = k.got /\ ~shut.open
        /\ shut.task = k.task
    BY DEF Connection
  <1>2. [k EXCEPT !.open = FALSE, !.task = Cancelled(@)] = new
    BY <1>1
  <1>3. /\ Cancelled(shut.task) \in {"running", "cancelled", "ended", "joined"}
        /\ Cancelled(shut.task) # "running"
    BY <1>1 DEF Cancelled, Connection
  <1> HIDE DEF shut
  <1>4. new \in Connection
    BY <1>1, <1>3 DEF Connection
  <1>5. /\ new.stream = shut.stream /\ new.opened = shut.opened
        /\ new.got = shut.got /\ new.open = shut.open
        /\ new.task = Cancelled(shut.task)
    BY <1>1 DEF Connection
  <1> HIDE DEF new
  <1> QED
    BY <1>1, <1>2, <1>3, <1>4, <1>5

\* The connections after a step that closes those of the streams in S, by
\* their fields.
ClosesOnly(conns, S) ==
    /\ conns \in Seq(Connection) /\ Len(conns) = Len(connections)
    /\ \A c \in 1..Len(connections) :
        /\ conns[c].stream = connections[c].stream
        /\ conns[c].opened = connections[c].opened
        /\ conns[c].got = connections[c].got
        /\ conns[c].open <=> connections[c].open /\ connections[c].stream \notin S
        /\ conns[c].task = "running" => conns[c].open

\* close_client for the streams in S, when some tasks have changed before.
LEMMA CloseClientsFacts ==
    ASSUME TableOK, OpenConnectionsAgree, NEW S \in SUBSET Streams,
           NEW conns, ClosesOnly(conns, {})
    PROVE  ClosesOnly(CloseClients(conns, S), S)
  <1> DEFINE new == CloseClients(conns, S)
             n == Len(connections)
  <1>1. n \in Nat /\ Len(conns) = n /\ conns \in Seq(Connection)
    BY LenProperties DEF TableOK, ClosesOnly
  <1>2. ASSUME NEW c \in 1..n
        PROVE  /\ new[c] \in Connection
               /\ new[c].stream = connections[c].stream
               /\ new[c].opened = connections[c].opened
               /\ new[c].got = connections[c].got
               /\ new[c].open <=>
                    connections[c].open /\ connections[c].stream \notin S
               /\ new[c].task = "running" => new[c].open
    <2>1. /\ conns[c] \in Connection
          /\ conns[c].stream = connections[c].stream
          /\ conns[c].opened = connections[c].opened
          /\ conns[c].got = connections[c].got
          /\ conns[c].open <=> connections[c].open
          /\ conns[c].task = "running" => conns[c].open
      BY <1>1, ElementOfSeq DEF ClosesOnly
    <2>2. connections[c].open <=> clients[connections[c].stream] = c
      BY DEF OpenConnectionsAgree
    <2>3. CASE conns[c].stream \in S /\ clients[conns[c].stream] = c
      <3>1. new[c] = [conns[c] EXCEPT !.open = FALSE, !.task = Cancelled(@)]
        BY <1>1, <2>3 DEF CloseClients
      <3>2. /\ new[c] \in Connection /\ new[c].stream = conns[c].stream
            /\ new[c].opened = conns[c].opened /\ new[c].got = conns[c].got
            /\ ~new[c].open /\ new[c].task # "running"
        <4> DEFINE k == conns[c]
                   z == [k EXCEPT !.open = FALSE, !.task = Cancelled(@)]
        <4>1. k \in Connection
          BY <2>1
        <4> HIDE DEF k
        <4>2. /\ z \in Connection /\ z.stream = k.stream
              /\ z.opened = k.opened /\ z.got = k.got
              /\ ~z.open /\ z.task # "running"
          BY <4>1, ClosedConnection, Zenon
        <4>3. new[c] = z
          BY <3>1 DEF k
        <4> HIDE DEF z
        <4> QED
          BY <4>2, <4>3 DEF k
      <3> QED
        BY <2>1, <2>3, <3>2
    <2>4. CASE ~(conns[c].stream \in S /\ clients[conns[c].stream] = c)
      <3>1. new[c] = conns[c]
        BY <1>1, <2>4 DEF CloseClients
      <3> QED
        BY <2>1, <2>2, <2>4, <3>1
    <2> QED
      BY <2>3, <2>4
  <1>3. new \in Seq(Connection) /\ Len(new) = n
    <2>1. DOMAIN new = 1..n
      BY <1>1 DEF CloseClients
    <2>2. new = [c \in 1..n |-> new[c]]
      BY <1>1 DEF CloseClients
    <2> HIDE DEF new
    <2>3. new \in [1..n -> Connection]
      BY <1>2, <2>2
    <2> QED
      BY <1>1, <2>3
  <1> HIDE DEF new
  <1>4. ClosesOnly(new, S)
    BY <1>2, <1>3 DEF ClosesOnly
  <1> QED
    BY <1>4 DEF new

LEMMA NothingClosed ==
    ASSUME TableOK, OpenConnectionsAgree
    PROVE  ClosesOnly(connections, {})
  BY DEF TableOK, OpenConnectionsAgree, ClosesOnly

\* The effect of Forget on the table.
Forgets(S) ==
    /\ clients' \in [Streams -> 0..Len(connections)]
    /\ lastSeq' \in [Streams -> 0..MaxLog]
    /\ \A s \in Streams : /\ clients'[s] = IF s \in S THEN 0 ELSE clients[s]
                          /\ lastSeq'[s] = IF s \in S THEN 0 ELSE lastSeq[s]

LEMMA ForgetFacts ==
    ASSUME TableOK
    PROVE  /\ \A S \in SUBSET Streams : Forget(S) => Forgets(S)
           /\ UNCHANGED << clients, lastSeq >> => Forgets({})
  <1>1. Len(connections) \in Nat
    BY LenProperties DEF TableOK
  <1>2. ASSUME NEW S \in SUBSET Streams, Forget(S) PROVE Forgets(S)
    BY <1>1, <1>2 DEF Forget, Forgets, TableOK
  <1>3. ASSUME UNCHANGED << clients, lastSeq >> PROVE Forgets({})
    BY <1>3 DEF Forgets, TableOK
  <1> QED
    BY <1>2, <1>3

\* The next envelope is no message that an open connection still misses.
NothingNew ==
    \A c \in 1..Len(connections) :
        /\ connections[c].open /\ connections[c].opened <= pos
        /\ log[pos + 1].stream = connections[c].stream
        /\ log[pos + 1].kind = "message"
        => Has(c, pos + 1)

\* Every step that closes connections and forgets their streams, or changes
\* nothing of the table, keeps the invariant, as long as the reader does not
\* step over a message.
LEMMA ClosingInv ==
    ASSUME Inv, NEW S \in SUBSET Streams, UNCHANGED log,
           pos' \in 0..Len(log), cursor' \in {cursor, pos'},
           pos' <= pos \/ pos' <= cursor \/ (pos' = pos + 1 /\ NothingNew),
           ClosesOnly(connections', S), Forgets(S)
    PROVE  Inv'
  <1> USE DEF Inv
  <1> DEFINE n == Len(connections)
  <1>1. /\ n \in Nat /\ Len(connections') = n /\ Len(log) \in Nat
        /\ connections' \in Seq(Connection)
        /\ \A c \in 1..n :
             /\ connections'[c].stream = connections[c].stream
             /\ connections'[c].opened = connections[c].opened
             /\ connections'[c].got = connections[c].got
             /\ connections'[c].open <=>
                  connections[c].open /\ connections[c].stream \notin S
             /\ connections'[c].task = "running" => connections'[c].open
    BY LenProperties DEF TableOK, ClosesOnly
  <1>2. TableOK'
    BY <1>1 DEF TableOK, Forgets
  <1>3. LogInv'
    BY DEF LogInv, NumbersAreDense, NumbersAscend, Seqs
  <1>4. EntriesAreConnections'
    BY <1>1 DEF EntriesAreConnections, TrackerInv, Known, Forgets
  <1>5. OpenConnectionsAgree'
    <2> SUFFICES ASSUME NEW c \in 1..n
                 PROVE  connections'[c].open <=>
                          clients'[connections'[c].stream] = c
      BY <1>1 DEF OpenConnectionsAgree
    <2>1. connections[c].stream \in Streams
      BY ConnectionFacts
    <2>2. connections[c].open <=> clients[connections[c].stream] = c
      BY DEF TrackerInv, OpenConnectionsAgree
    <2> QED
      BY <1>1, <2>1, <2>2 DEF Forgets
  <1>6. LastSeqIsSent'
    BY DEF TrackerInv, LastSeqIsSent, Forgets, Seqs
  <1>7. ForwardedInOrder'
    BY <1>1 DEF TrackerInv, ForwardedInOrder
  <1>8. GotUpToLastSeq'
    <2> SUFFICES ASSUME NEW c \in 1..n, connections'[c].open,
                        NEW i \in 1..Len(connections[c].got)
                 PROVE  connections[c].got[i] <= lastSeq'[connections[c].stream]
      BY <1>1 DEF GotUpToLastSeq
    <2> QED
      BY <1>1, ConnectionFacts DEF TrackerInv, GotUpToLastSeq, Forgets
  <1>9. SeenIsForwarded'
    <2> SUFFICES ASSUME NEW c \in 1..n, connections'[c].open,
                        NEW i \in connections[c].opened + 1 .. Len(log),
                        log[i].stream = connections[c].stream,
                        log[i].kind = "message",
                        lastSeq'[log[i].stream] >= log[i].seq
                 PROVE  Has(c, i)'
      BY <1>1 DEF SeenIsForwarded, SeenBefore
    <2>1. lastSeq[log[i].stream] >= log[i].seq
      BY <1>1, ConnectionFacts DEF Forgets
    <2>2. Has(c, i)
      BY <1>1, <2>1 DEF TrackerInv, SeenIsForwarded, SeenBefore
    <2> QED
      BY <1>1, <2>2 DEF Has
  <1>10. NothingIsPassedOver'
    <2> SUFFICES ASSUME NEW c \in 1..n, connections'[c].open,
                        NEW i \in connections[c].opened + 1 .. pos',
                        log[i].stream = connections[c].stream,
                        log[i].kind = "message"
                 PROVE  \E k \in 1..Len(connections[c].got) :
                            connections[c].got[k] = log[i].seq
      BY SMTT(30), <1>1 DEF NothingIsPassedOver
    <2>1. /\ connections[c].opened \in Nat /\ pos \in Nat /\ pos' \in Nat
          /\ cursor \in Nat
      BY <1>1, ConnectionFacts DEF TableOK
    <2>2. CASE i \in connections[c].opened + 1 .. pos
      BY <1>1, <2>2 DEF TrackerInv, NothingIsPassedOver
    <2>3. CASE i \in connections[c].opened + 1 .. cursor
      BY <1>1, <2>3 DEF TrackerInv, NothingBeforeCursor, Has
    <2>4. CASE i = pos + 1 /\ NothingNew
      <3>1. NothingNew /\ connections[c].opened <= pos
        BY <2>1, <2>4
      <3> QED
        BY <1>1, <2>4, <3>1 DEF NothingNew, Has
    <2> QED
      BY <2>1, <2>2, <2>3, <2>4
  <1>11. NothingBeforeCursor'
    <2>1. CASE cursor' = pos'
      BY <1>10, <2>1 DEF NothingBeforeCursor, NothingIsPassedOver, Has
    <2>2. CASE cursor' = cursor
      BY <1>1, <2>2 DEF TrackerInv, NothingBeforeCursor, Has
    <2> QED
      BY <2>1, <2>2
  <1> QED
    BY <1>2, <1>3, <1>4, <1>5, <1>6, <1>7, <1>8, <1>9, <1>10, <1>11
       DEF TrackerInv

-----------------------------------------------------------------------------
(* A message goes to the connection of its stream                          *)

\* The connection that gets it keeps everything but got.
LEMMA GotConnection ==
    ASSUME NEW k \in Connection, NEW n \in 1..MaxLog
    PROVE  LET new == [k EXCEPT !.got = Append(@, n)]
           IN  /\ new \in Connection /\ new.stream = k.stream
               /\ new.opened = k.opened /\ new.got = Append(k.got, n)
               /\ new.open = k.open /\ new.task = k.task
  <1>1. k.got \in Seq(1..MaxLog)
    BY DEF Connection
  <1>2. Append(k.got, n) \in Seq(1..MaxLog)
    BY <1>1, AppendProperties
  <1> DEFINE g == Append(k.got, n)
             new == [k EXCEPT !.got = g]
  <1>3. [k EXCEPT !.got = Append(@, n)] = new
    OBVIOUS
  <1> HIDE DEF g
  <1>4. /\ new \in Connection /\ new.stream = k.stream
        /\ new.opened = k.opened /\ new.got = g
        /\ new.open = k.open /\ new.task = k.task
    BY <1>2 DEF Connection, g
  <1> HIDE DEF new
  <1> QED
    BY <1>3, <1>4 DEF g

\* The connections after connection k got n, by their fields.
Forwards(k, n) ==
    /\ connections' \in Seq(Connection) /\ Len(connections') = Len(connections)
    /\ \A c \in 1..Len(connections) :
        /\ connections'[c].stream = connections[c].stream
        /\ connections'[c].opened = connections[c].opened
        /\ connections'[c].open = connections[c].open
        /\ connections'[c].task = connections[c].task
        /\ c # k => connections'[c].got = connections[c].got
    /\ Len(connections'[k].got) = Len(connections[k].got) + 1
    /\ \A i \in 1..Len(connections[k].got) :
        connections'[k].got[i] = connections[k].got[i]
    /\ connections'[k].got[Len(connections[k].got) + 1] = n

LEMMA ForwardFacts ==
    ASSUME TableOK, NEW k \in 1..Len(connections), NEW n \in 1..MaxLog,
           connections' = [connections EXCEPT ![k].got = Append(@, n)]
    PROVE  Forwards(k, n)
  <1> DEFINE new == [connections[k] EXCEPT !.got = Append(@, n)]
             old == connections[k].got
  <1>1. /\ new \in Connection /\ new.stream = connections[k].stream
        /\ new.opened = connections[k].opened /\ new.got = Append(old, n)
        /\ new.open = connections[k].open /\ new.task = connections[k].task
    <2>1. connections[k] \in Connection
      BY ConnectionFacts
    <2> QED
      BY <2>1, GotConnection, Zenon
  <1>2. connections' = [connections EXCEPT ![k] = new]
    OBVIOUS
  <1>3. old \in Seq(1..MaxLog)
    BY ConnectionFacts
  <1> HIDE DEF new
  <1>4. /\ connections' \in Seq(Connection)
        /\ Len(connections') = Len(connections)
        /\ \A c \in 1..Len(connections) :
             connections'[c] = IF c = k THEN new ELSE connections[c]
    <2>1. connections \in Seq(Connection) /\ new \in Connection
      BY <1>1 DEF TableOK
    <2>2. connections' \in Seq(Connection) /\ Len(connections') = Len(connections)
      BY ONLY <1>2, <2>1, k \in 1..Len(connections), ExceptSeq, SMT
    <2>3. \A c \in 1..Len(connections) :
             connections'[c] = IF c = k THEN new ELSE connections[c]
      BY ONLY <1>2, <2>1, k \in 1..Len(connections), ExceptSeq, SMT
    <2> QED
      BY ONLY <2>2, <2>3
  <1> HIDE DEF old
  <1>5. /\ Len(Append(old, n)) = Len(old) + 1
        /\ \A i \in 1..Len(old) : Append(old, n)[i] = old[i]
        /\ Append(old, n)[Len(old) + 1] = n
    BY <1>3, AppendProperties
  <1>6. connections'[k].got = Append(old, n)
    BY <1>1, <1>4
  <1>7. /\ Len(connections'[k].got) = Len(connections[k].got) + 1
        /\ \A i \in 1..Len(connections[k].got) :
            connections'[k].got[i] = connections[k].got[i]
        /\ connections'[k].got[Len(connections[k].got) + 1] = n
    BY <1>5, <1>6 DEF old
  <1>8. ASSUME NEW c \in 1..Len(connections)
        PROVE  /\ connections'[c].stream = connections[c].stream
               /\ connections'[c].opened = connections[c].opened
               /\ connections'[c].open = connections[c].open
               /\ connections'[c].task = connections[c].task
               /\ c # k => connections'[c].got = connections[c].got
    BY <1>1, <1>4, Zenon
  <1> QED
    BY ONLY <1>4, <1>7, <1>8 DEF Forwards

\* handle_message of a message that is new for a known client.
ForwardStep(s, n) ==
    /\ pos < Len(log) /\ pos' = pos + 1 /\ cursor' = pos'
    /\ log[pos + 1].stream = s /\ log[pos + 1].seq = n
    /\ Known(s) /\ ~SeenBefore(s, n)
    /\ Forwards(clients[s], n)
    /\ lastSeq' = [lastSeq EXCEPT ![s] = n]
    /\ UNCHANGED << log, clients >>

LEMMA ForwardInv ==
    ASSUME Inv, NEW s, NEW n, ForwardStep(s, n)
    PROVE  Inv'
  <1> USE DEF Inv
  <1> DEFINE len == Len(connections)
  <1>a. PICK k : k = clients[s]
    OBVIOUS
  <1>b. /\ log' = log /\ clients' = clients /\ pos' = pos + 1
        /\ cursor' = pos'
    BY DEF ForwardStep
  <1> DEFINE old == connections[k].got
             m == Len(old)
  <1>0. /\ len \in Nat /\ Len(log) \in Nat /\ pos \in Nat
        /\ pos + 1 \in 1..Len(log) /\ s \in Streams
        /\ n \in 1..MaxLog /\ n \in Seqs(s)
    BY LenProperties, LogEntry DEF TableOK, ForwardStep
  <1>1. /\ k \in 1..len /\ connections[k].stream = s
        /\ lastSeq[s] \in 0..MaxLog /\ lastSeq[s] < n
    BY <1>0, <1>a
       DEF TrackerInv, EntriesAreConnections, Known, SeenBefore, TableOK,
           ForwardStep
  <1>2. \A c \in 1..len : connections[c].open /\ connections[c].stream = s
                            <=> c = k
    BY <1>0, <1>1, <1>a DEF TrackerInv, OpenConnectionsAgree
  <1>3. /\ connections' \in Seq(Connection) /\ Len(connections') = len
        /\ \A c \in 1..len : c # k => connections'[c].got = connections[c].got
    BY <1>a DEF ForwardStep, Forwards
  <1>4. /\ m \in Nat /\ Len(connections'[k].got) = m + 1
        /\ \A i \in 1..m : connections'[k].got[i] = old[i]
        /\ connections'[k].got[m + 1] = n
        /\ \A i \in 1..m : old[i] \in 1..MaxLog /\ old[i] < n
    <2>1. m \in Nat /\ \A i \in 1..m : old[i] \in 1..MaxLog
      BY <1>1, ConnectionFacts
    <2>2. \A i \in 1..m : old[i] <= lastSeq[s]
      BY <1>1, <1>2 DEF TrackerInv, GotUpToLastSeq
    <2>3. \A i \in 1..m : old[i] < n
      BY <1>0, <1>1, <2>1, <2>2
    <2>4. /\ Len(connections'[k].got) = m + 1
          /\ \A i \in 1..m : connections'[k].got[i] = old[i]
          /\ connections'[k].got[m + 1] = n
      BY <1>a, Zenon DEF ForwardStep, Forwards
    <2> QED
      BY <2>1, <2>3, <2>4
  <1>5. /\ lastSeq' \in [Streams -> 0..MaxLog] /\ lastSeq'[s] = n
        /\ \A u \in Streams : u # s => lastSeq'[u] = lastSeq[u]
    BY <1>0 DEF TableOK, ForwardStep
  <1>6. TableOK'
    BY <1>0, <1>3, <1>5, <1>b DEF TableOK
  <1>7. LogInv'
    BY <1>b DEF LogInv, NumbersAreDense, NumbersAscend, Seqs
  <1>s. \A c \in 1..len : /\ connections'[c].stream = connections[c].stream
                          /\ connections'[c].opened = connections[c].opened
                          /\ connections'[c].open = connections[c].open
                          /\ connections'[c].task = connections[c].task
                          /\ connections[c].stream \in Streams
                          /\ connections[c].opened \in Nat
    BY ConnectionFacts DEF ForwardStep, Forwards
  <1>8. EntriesAreConnections'
    BY <1>b, <1>s DEF EntriesAreConnections, TrackerInv, Known, TableOK
  <1>9. OpenConnectionsAgree'
    BY <1>3, <1>b, <1>s DEF TrackerInv, OpenConnectionsAgree
  <1>10. LastSeqIsSent'
    <2>1. \A u : Seqs(u)' = Seqs(u)
      BY <1>b DEF Seqs
    <2> QED
      BY <1>0, <1>5, <2>1 DEF TrackerInv, LastSeqIsSent
  <1>11. ForwardedInOrder'
    <2> SUFFICES ASSUME NEW c \in 1..len,
                        NEW i \in 1..Len(connections'[c].got),
                        NEW j \in 1..Len(connections'[c].got), i < j
                 PROVE  connections'[c].got[i] < connections'[c].got[j]
      BY <1>3 DEF ForwardedInOrder
    <2>1. CASE c # k
      BY <1>3, <2>1 DEF TrackerInv, ForwardedInOrder
    <2>2. CASE c = k
      <3>1. \A a, b \in 1..m : a < b => old[a] < old[b]
        BY <1>1 DEF TrackerInv, ForwardedInOrder
      <3>2. i \in 1..m
        BY <1>4, <2>2
      <3>3. j \in 1..m \/ j = m + 1
        BY <1>4, <2>2
      <3> QED
        BY <1>4, <2>2, <3>1, <3>2, <3>3
    <2> QED
      BY <2>1, <2>2
  <1>12. GotUpToLastSeq'
    <2> SUFFICES ASSUME NEW c \in 1..len, connections'[c].open,
                        NEW i \in 1..Len(connections'[c].got)
                 PROVE  connections'[c].got[i] <= lastSeq'[connections'[c].stream]
      BY <1>3 DEF GotUpToLastSeq
    <2>1. CASE c # k
      BY <1>2, <1>3, <1>5, <1>s, <2>1 DEF TrackerInv, GotUpToLastSeq
    <2>2. CASE c = k
      <3>1. i \in 1..m \/ i = m + 1
        BY <1>4, <2>2
      <3> QED
        <4>1. connections'[k].stream = s
          BY <1>1, <1>s
        <4>2. connections'[k].got[i] <= n
          <5>1. CASE i \in 1..m
            <6>1. /\ connections'[k].got[i] = old[i]
                  /\ old[i] \in 1..MaxLog /\ old[i] < n
              BY <1>4, <5>1, Zenon
            <6> QED
              BY <1>0, <6>1
          <5>2. CASE i = m + 1
            BY <1>0, <1>4, <5>2
          <5> QED
            BY <3>1, <5>1, <5>2
        <4> QED
          BY <1>5, <2>2, <4>1, <4>2
    <2> QED
      BY <2>1, <2>2
  <1>h. ASSUME NEW i, Has(k, i) PROVE Has(k, i)'
    BY <1>4, <1>b, <1>h DEF Has
  <1>n. ASSUME NEW i, log[i].seq = n PROVE Has(k, i)'
    BY <1>4, <1>b, <1>n DEF Has
  <1>p. ASSUME NEW i \in connections[k].opened + 1 .. pos,
               log[i].stream = s, log[i].kind = "message"
        PROVE  Has(k, i)
    BY <1>1, <1>2, <1>p DEF TrackerInv, NothingIsPassedOver, Has
  <1>13. SeenIsForwarded'
    <2> SUFFICES ASSUME NEW c \in 1..len, connections[c].open,
                        NEW i \in connections[c].opened + 1 .. Len(log),
                        log[i].stream = connections[c].stream,
                        log[i].kind = "message",
                        lastSeq'[log[i].stream] >= log[i].seq
                 PROVE  Has(c, i)'
      BY SMTT(30), <1>3, <1>b, <1>s DEF SeenIsForwarded, SeenBefore
    <2>0. i \in 1..Len(log) /\ log[i].seq \in Nat
      BY <1>0, <1>s, LogEntry
    <2>1. CASE c # k
      <3>1. log[i].stream # s /\ log[i].stream \in Streams
        BY <1>2, <1>s, <2>1
      <3>2. Has(c, i)
        BY <1>5, <3>1 DEF TrackerInv, SeenIsForwarded, SeenBefore
      <3> QED
        BY <1>3, <1>b, <2>1, <3>2 DEF Has
    <2>2. CASE c = k /\ i <= pos
      BY <1>0, <1>1, <1>s, <1>h, <1>p, <2>2
    <2>3. CASE c = k /\ ~(i <= pos)
      <3>1. log[pos + 1].seq <= log[i].seq
        BY <1>0, <1>1, <2>0, <2>3 DEF LogInv, NumbersAscend, ForwardStep
      <3>2. log[i].seq = n
        BY <1>0, <1>1, <1>5, <2>0, <2>3, <3>1 DEF ForwardStep
      <3> QED
        BY <1>n, <2>3, <3>2
    <2> QED
      BY <2>1, <2>2, <2>3
  <1>14. NothingIsPassedOver'
    <2> SUFFICES ASSUME NEW c \in 1..len, connections[c].open,
                        NEW i \in connections[c].opened + 1 .. pos + 1,
                        log[i].stream = connections[c].stream,
                        log[i].kind = "message"
                 PROVE  Has(c, i)'
      BY <1>3, <1>b, <1>s DEF NothingIsPassedOver, Has
    <2>1. CASE c # k
      <3>1. log[i].stream # s
        BY <1>2, <1>s, <2>1
      <3>2. i \in connections[c].opened + 1 .. pos
        BY <1>0, <1>s, <3>1 DEF ForwardStep
      <3>3. Has(c, i)
        BY <3>2 DEF TrackerInv, NothingIsPassedOver, Has
      <3> QED
        BY <1>3, <1>b, <2>1, <3>3 DEF Has
    <2>2. CASE c = k /\ i = pos + 1
      BY <1>n, <2>2 DEF ForwardStep
    <2>3. CASE c = k /\ i # pos + 1
      <3>1. i \in connections[k].opened + 1 .. pos
        BY <1>0, <1>s, <2>3
      <3> QED
        BY <1>1, <1>h, <1>p, <2>3, <3>1
    <2> QED
      BY <2>1, <2>2, <2>3
  <1>15. NothingBeforeCursor'
    BY <1>14, <1>b DEF NothingBeforeCursor, NothingIsPassedOver, Has
  <1> QED
    BY <1>6, <1>7, <1>8, <1>9, <1>10, <1>11, <1>12, <1>13, <1>14, <1>15
       DEF TrackerInv

-----------------------------------------------------------------------------
(* An initialize message opens a connection                                *)

\* The connections after an initialize, by their fields.
Opens(s, n) ==
    /\ connections' \in Seq(Connection)
    /\ Len(connections') = Len(connections) + 1
    /\ \A c \in 1..Len(connections) :
        /\ connections'[c].stream = connections[c].stream
        /\ connections'[c].opened = connections[c].opened
        /\ connections'[c].got = connections[c].got
        /\ connections'[c].open <=>
             connections[c].open /\ connections[c].stream # s
        /\ connections'[c].task = "running" => connections'[c].open
    /\ connections'[Len(connections) + 1] =
         [stream |-> s, opened |-> pos + 1, open |-> TRUE,
          task |-> "running", got |-> << n >>]

LEMMA OpenFacts ==
    ASSUME TableOK, OpenConnectionsAgree, pos < Len(log),
           NEW s \in Streams, NEW n \in 1..MaxLog, Initialize(s, n)
    PROVE  Opens(s, n)
  <1> DEFINE new == [stream |-> s, opened |-> pos + 1, open |-> TRUE,
                     task |-> "running", got |-> << n >>]
             closed == CloseClients(connections, {s})
  <1>1. ClosesOnly(closed, {s})
    <2>1. {s} \in SUBSET Streams
      OBVIOUS
    <2> QED
      BY <2>1, NothingClosed, CloseClientsFacts
  <1>2. connections' = Append(closed, new)
    BY DEF Initialize
  <1>3. new \in Connection
    <2>1. pos + 1 \in 1..MaxLog
      BY LenProperties DEF TableOK
    <2>2. << n >> \in Seq(1..MaxLog)
      OBVIOUS
    <2> QED
      BY <2>1, <2>2 DEF Connection
  <1> HIDE DEF new, closed
  <1>4. closed \in Seq(Connection) /\ Len(closed) = Len(connections)
    BY <1>1 DEF ClosesOnly
  <1>5. /\ connections' \in Seq(Connection)
        /\ Len(connections') = Len(connections) + 1
        /\ \A c \in 1..Len(connections) : connections'[c] = closed[c]
        /\ connections'[Len(connections) + 1] = new
    BY <1>2, <1>3, <1>4, AppendProperties
  <1>6. ASSUME NEW c \in 1..Len(connections)
        PROVE  /\ connections'[c].stream = connections[c].stream
               /\ connections'[c].opened = connections[c].opened
               /\ connections'[c].got = connections[c].got
               /\ connections'[c].open <=>
                    connections[c].open /\ connections[c].stream # s
               /\ connections'[c].task = "running" => connections'[c].open
    BY <1>1, <1>5 DEF ClosesOnly
  <1> QED
    BY ONLY <1>5, <1>6 DEF Opens, new

InitializeStep(s, n) ==
    /\ pos < Len(log) /\ pos' = pos + 1 /\ cursor' = pos'
    /\ log[pos + 1].stream = s /\ log[pos + 1].seq = n
    /\ Opens(s, n)
    /\ clients' = [clients EXCEPT ![s] = Len(connections) + 1]
    /\ lastSeq' = [lastSeq EXCEPT ![s] = n]
    /\ UNCHANGED log

LEMMA InitializeInv ==
    ASSUME Inv, NEW s, NEW n, InitializeStep(s, n)
    PROVE  Inv'
  <1> USE DEF Inv
  <1> DEFINE len == Len(connections)
             last == len + 1
  <1>b. log' = log /\ pos' = pos + 1 /\ cursor' = pos'
    BY DEF InitializeStep
  <1>0. /\ len \in Nat /\ Len(log) \in Nat /\ pos \in Nat
        /\ pos + 1 \in 1..Len(log) /\ s \in Streams
        /\ n \in 1..MaxLog /\ n \in Seqs(s)
    BY LenProperties, LogEntry DEF TableOK, InitializeStep
  <1>1. /\ connections' \in Seq(Connection) /\ Len(connections') = last
        /\ \A c \in 1..len :
             /\ connections'[c].stream = connections[c].stream
             /\ connections'[c].opened = connections[c].opened
             /\ connections'[c].got = connections[c].got
             /\ connections'[c].open <=>
                  connections[c].open /\ connections[c].stream # s
             /\ connections'[c].task = "running" => connections'[c].open
             /\ connections[c].stream \in Streams
             /\ connections[c].opened \in Nat
    BY ConnectionFacts DEF InitializeStep, Opens
  <1>2. /\ connections'[last].stream = s
        /\ connections'[last].opened = pos + 1
        /\ connections'[last].open
        /\ connections'[last].got = << n >>
    BY DEF InitializeStep, Opens
  <1>g. Len(connections'[last].got) = 1 /\ connections'[last].got[1] = n
    BY <1>2
  <1>3. /\ lastSeq' \in [Streams -> 0..MaxLog] /\ lastSeq'[s] = n
        /\ \A u \in Streams : u # s => lastSeq'[u] = lastSeq[u]
    BY <1>0 DEF TableOK, InitializeStep
  <1>4. /\ clients' \in [Streams -> 0..last] /\ clients'[s] = last
        /\ \A u \in Streams : u # s => clients'[u] = clients[u]
        /\ \A u \in Streams : clients[u] \in 0..len
    <2>1. clients \in [Streams -> 0..len]
      BY DEF TableOK
    <2> QED
      BY <1>0, <2>1 DEF InitializeStep
  <1>i. \A c \in 1..Len(connections') : c \in 1..len \/ c = last
    BY <1>0, <1>1
  <1>5. TableOK'
    BY <1>0, <1>1, <1>3, <1>4, <1>b DEF TableOK
  <1>6. LogInv'
    BY <1>b DEF LogInv, NumbersAreDense, NumbersAscend, Seqs
  <1>7. EntriesAreConnections'
    <2> SUFFICES ASSUME NEW u \in Streams, clients'[u] # 0
                 PROVE  connections'[clients'[u]].stream = u
      BY DEF EntriesAreConnections, Known
    <2>1. CASE u = s
      BY <1>2, <1>4, <2>1
    <2>2. CASE u # s
      <3>1. clients'[u] = clients[u] /\ clients[u] \in 1..len
        BY <1>0, <1>4, <2>2
      <3>2. connections[clients[u]].stream = u
        BY <3>1 DEF TrackerInv, EntriesAreConnections, Known
      <3> QED
        BY <1>1, <3>1, <3>2
    <2> QED
      BY <2>1, <2>2
  <1>8. OpenConnectionsAgree'
    <2> SUFFICES ASSUME NEW c \in 1..Len(connections')
                 PROVE  /\ connections'[c].open <=>
                             clients'[connections'[c].stream] = c
                        /\ connections'[c].task = "running" => connections'[c].open
      BY DEF OpenConnectionsAgree
    <2>1. CASE c = last
      BY <1>2, <1>4, <2>1
    <2>2. CASE c \in 1..len
      <3>1. connections[c].open <=> clients[connections[c].stream] = c
        BY <2>2 DEF TrackerInv, OpenConnectionsAgree
      <3>2. c # last
        BY <1>0, <2>2
      <3>3. CASE connections[c].stream = s
        BY <1>1, <1>4, <2>2, <3>2, <3>3
      <3>4. CASE connections[c].stream # s
        BY <1>1, <1>4, <2>2, <3>1, <3>4
      <3> QED
        BY <3>3, <3>4
    <2> QED
      BY <1>i, <2>1, <2>2
  <1>9. LastSeqIsSent'
    <2>1. \A u : Seqs(u)' = Seqs(u)
      BY <1>b DEF Seqs
    <2> QED
      BY <1>0, <1>3, <2>1 DEF TrackerInv, LastSeqIsSent
  <1>10. ForwardedInOrder'
    <2> SUFFICES ASSUME NEW c \in 1..Len(connections'),
                        NEW i \in 1..Len(connections'[c].got),
                        NEW j \in 1..Len(connections'[c].got), i < j
                 PROVE  connections'[c].got[i] < connections'[c].got[j]
      BY DEF ForwardedInOrder
    <2>1. CASE c = last
      BY <1>2, <2>1
    <2>2. CASE c \in 1..len
      BY <1>1, <2>2 DEF TrackerInv, ForwardedInOrder
    <2> QED
      BY <1>i, <2>1, <2>2
  <1>11. GotUpToLastSeq'
    <2> SUFFICES ASSUME NEW c \in 1..Len(connections'), connections'[c].open,
                        NEW i \in 1..Len(connections'[c].got)
                 PROVE  connections'[c].got[i] <= lastSeq'[connections'[c].stream]
      BY DEF GotUpToLastSeq
    <2>1. CASE c = last
      <3>1. i = 1
        <4>1. Len(connections'[c].got) = 1
          BY <1>g, <2>1
        <4> QED
          BY <4>1
      <3>2. connections'[last].got[1] <= lastSeq'[s]
        BY <1>0, <1>3, <1>g
      <3> QED
        BY <1>2, <2>1, <3>1, <3>2
    <2>2. CASE c \in 1..len
      BY <1>1, <1>3, <2>2 DEF TrackerInv, GotUpToLastSeq
    <2> QED
      BY <1>i, <2>1, <2>2
  <1>o. ASSUME NEW c \in 1..len, NEW i, Has(c, i) PROVE Has(c, i)'
    BY <1>1, <1>b, <1>o DEF Has
  <1>12. SeenIsForwarded'
    <2> SUFFICES ASSUME NEW c \in 1..Len(connections'), connections'[c].open,
                        NEW i \in connections'[c].opened + 1 .. Len(log),
                        log[i].stream = connections'[c].stream,
                        log[i].kind = "message",
                        lastSeq'[log[i].stream] >= log[i].seq
                 PROVE  Has(c, i)'
      BY <1>b DEF SeenIsForwarded, SeenBefore
    <2>1. CASE c = last
      <3>1. i \in 1..Len(log) /\ pos + 1 <= i
        BY <1>0, <1>2, <2>1
      <3>2. log[i].seq \in Nat /\ log[i].stream = s
        BY <1>2, <2>1, <3>1, LogEntry
      <3>3. log[pos + 1].seq <= log[i].seq
        BY <1>0, <3>1, <3>2 DEF LogInv, NumbersAscend, InitializeStep
      <3>4. log[i].seq = n
        BY <1>0, <1>3, <3>2, <3>3 DEF InitializeStep
      <3> QED
        BY <1>b, <1>g, <2>1, <3>4 DEF Has
    <2>2. CASE c \in 1..len
      <3>1. log[i].stream # s /\ log[i].stream \in Streams
        BY <1>1, <2>2
      <3>2. Has(c, i)
        BY <1>1, <1>3, <2>2, <3>1 DEF TrackerInv, SeenIsForwarded, SeenBefore
      <3> QED
        BY <1>o, <2>2, <3>2
    <2> QED
      BY <1>i, <2>1, <2>2
  <1>13. NothingIsPassedOver'
    <2> SUFFICES ASSUME NEW c \in 1..Len(connections'), connections'[c].open,
                        NEW i \in connections'[c].opened + 1 .. pos + 1,
                        log[i].stream = connections'[c].stream,
                        log[i].kind = "message"
                 PROVE  Has(c, i)'
      BY <1>b DEF NothingIsPassedOver, Has
    <2>1. CASE c = last
      BY <1>0, <1>2, <2>1
    <2>2. CASE c \in 1..len
      <3>1. log[i].stream # s
        BY <1>1, <2>2
      <3>2. i \in connections[c].opened + 1 .. pos
        BY <1>0, <1>1, <2>2, <3>1 DEF InitializeStep
      <3>3. Has(c, i)
        BY <1>1, <2>2, <3>2 DEF TrackerInv, NothingIsPassedOver, Has
      <3> QED
        BY <1>o, <2>2, <3>3
    <2> QED
      BY <1>i, <2>1, <2>2
  <1>14. NothingBeforeCursor'
    BY <1>13, <1>b DEF NothingBeforeCursor, NothingIsPassedOver, Has
  <1> QED
    BY <1>5, <1>6, <1>7, <1>8, <1>9, <1>10, <1>11, <1>12, <1>13, <1>14
       DEF TrackerInv

-----------------------------------------------------------------------------
(* The steps                                                               *)

\* A step of the reader that leaves the table alone.
LEMMA UnchangedTableInv ==
    ASSUME Inv, UNCHANGED << log, tracker >>, pos' \in 0..Len(log),
           cursor' \in {cursor, pos'},
           pos' <= pos \/ pos' <= cursor \/ (pos' = pos + 1 /\ NothingNew)
    PROVE  Inv'
  <1>1. UNCHANGED << clients, lastSeq >> /\ connections' = connections
    BY DEF tracker
  <1>2. Forgets({})
    BY <1>1, ForgetFacts DEF Inv
  <1>3. ClosesOnly(connections', {})
    BY <1>1, NothingClosed DEF Inv, TrackerInv
  <1> QED
    BY <1>2, <1>3, ClosingInv

\* What the reader knows of an envelope that arrives.
LEMMA ArrivalFacts ==
    ASSUME Inv, NEW e \in Incoming, Arrives(e)
    PROVE  /\ pos < Len(log) /\ e = log[pos + 1] /\ pos' = pos + 1
           /\ pos' \in 0..Len(log) /\ UNCHANGED log
           /\ e.stream \in Streams /\ e.seq \in 1..MaxLog
           /\ e.kind # "message" => NothingNew
  <1>1. /\ pos < Len(log) /\ e = log[pos + 1] /\ pos' = pos + 1 /\ UNCHANGED log
    BY DEF Arrives
  <1>2. Len(log) \in Nat /\ pos \in Nat
    BY LenProperties DEF Inv, TableOK
  <1>3. pos + 1 \in 1..Len(log)
    BY <1>1, <1>2
  <1>4. e.stream \in Streams /\ e.seq \in 1..MaxLog
    BY <1>1, <1>3, LogEntry DEF Inv
  <1> QED
    BY <1>1, <1>2, <1>3, <1>4 DEF NothingNew

\* handle_message of a message: it is forwarded, or there is no client, or the
\* connection has it already.
LEMMA MessageInv ==
    ASSUME Inv, NEW e \in Incoming, Arrives(e), cursor' = pos + 1,
           Message(e.stream, e.seq)
    PROVE  Inv'
  <1> DEFINE s == e.stream
             n == e.seq
  <1>1. /\ pos < Len(log) /\ e = log[pos + 1] /\ pos' = pos + 1
        /\ pos' \in 0..Len(log) /\ UNCHANGED log
        /\ s \in Streams /\ n \in 1..MaxLog
        /\ cursor' = pos'
    BY ArrivalFacts
  <1> HIDE DEF s, n
  <1>m. \/ /\ Known(s) /\ ~SeenBefore(s, n)
           /\ connections' = [connections EXCEPT ![clients[s]].got = Append(@, n)]
           /\ lastSeq' = [lastSeq EXCEPT ![s] = n]
           /\ UNCHANGED clients
        \/ (~Known(s) \/ SeenBefore(s, n)) /\ UNCHANGED tracker
    BY DEF Message, s, n
  <1>2. CASE ~Known(s) \/ SeenBefore(s, n)
    <2>1. UNCHANGED tracker
      BY <1>2, <1>m
    <2>2. NothingNew
      <3> SUFFICES ASSUME NEW c \in 1..Len(connections), connections[c].open,
                          connections[c].opened <= pos,
                          log[pos + 1].stream = connections[c].stream,
                          log[pos + 1].kind = "message"
                   PROVE  Has(c, pos + 1)
        BY DEF NothingNew
      <3>1. connections[c].stream = s
        BY <1>1 DEF s
      <3>2. Known(s)
        BY <3>1 DEF Inv, TrackerInv, OpenConnectionsAgree, Known
      <3>3. SeenBefore(log[pos + 1].stream, log[pos + 1].seq)
        BY <1>1, <1>2, <3>2 DEF s, n
      <3>4. pos + 1 \in connections[c].opened + 1 .. Len(log)
        BY SMTT(30), <1>1, ConnectionFacts, LenProperties DEF Inv, TableOK
      <3> QED
        BY <3>3, <3>4 DEF Inv, TrackerInv, SeenIsForwarded
    <2> QED
      BY <1>1, <2>1, <2>2, UnchangedTableInv
  <1>3. CASE Known(s) /\ ~SeenBefore(s, n)
    <2>1. /\ connections' = [connections EXCEPT ![clients[s]].got = Append(@, n)]
          /\ lastSeq' = [lastSeq EXCEPT ![s] = n]
          /\ UNCHANGED clients
      BY <1>3, <1>m
    <2>2. clients[s] \in 1..Len(connections)
      BY <1>1, <1>3, LenProperties DEF Inv, TableOK, Known
    <2>3. Forwards(clients[s], n)
      BY <1>1, <2>1, <2>2, ForwardFacts DEF Inv
    <2>4. log[pos + 1].stream = s /\ log[pos + 1].seq = n
      BY <1>1 DEF s, n
    <2>5. ForwardStep(s, n)
      BY <1>1, <1>3, <2>1, <2>3, <2>4 DEF ForwardStep
    <2> QED
      BY <2>5, ForwardInv
  <1> QED
    BY <1>2, <1>3

\* A step that closes the connections of S and forgets S.
LEMMA CloseStepInv ==
    ASSUME Inv, NEW S \in SUBSET Streams, UNCHANGED log,
           pos' \in 0..Len(log), cursor' \in {cursor, pos'},
           pos' <= pos \/ pos' <= cursor \/ (pos' = pos + 1 /\ NothingNew),
           connections' = CloseClients(connections, S), Forget(S)
    PROVE  Inv'
  <1>1. ClosesOnly(connections', S)
    BY NothingClosed, CloseClientsFacts DEF Inv, TrackerInv
  <1>2. Forgets(S)
    BY ForgetFacts DEF Inv
  <1> QED
    BY <1>1, <1>2, ClosingInv

LEMMA ReceiveInv ==
    ASSUME Inv, Receive
    PROVE  Inv'
  <1>1. CASE HandleInitialize
    <2>1. PICK e \in Incoming : /\ Arrives(e) /\ cursor' = pos + 1
                                /\ Initialize(e.stream, e.seq)
      BY <1>1 DEF HandleInitialize
    <2> DEFINE s == e.stream
               n == e.seq
    <2>2. /\ pos < Len(log) /\ e = log[pos + 1] /\ pos' = pos + 1
          /\ UNCHANGED log /\ s \in Streams /\ n \in 1..MaxLog
          /\ cursor' = pos'
      BY <2>1, ArrivalFacts
    <2>3. log[pos + 1].stream = s /\ log[pos + 1].seq = n
      BY <2>2
    <2>4. Initialize(s, n)
      BY <2>1
    <2> HIDE DEF s, n
    <2>5. Opens(s, n)
      BY <2>2, <2>4, OpenFacts DEF Inv, TrackerInv
    <2>6. InitializeStep(s, n)
      BY <2>2, <2>3, <2>4, <2>5 DEF InitializeStep, Initialize
    <2> QED
      BY <2>6, InitializeInv
  <1>2. CASE HandleMessage
    BY <1>2, MessageInv DEF HandleMessage
  <1>3. CASE HandleClosed
    <2>1. PICK e \in Incoming : /\ Arrives(e) /\ cursor' = pos + 1
                                /\ e.kind = "closed"
                                /\ connections' = CloseClients(connections, {e.stream})
                                /\ Forget({e.stream})
      BY <1>3 DEF HandleClosed
    <2>2. /\ pos' = pos + 1 /\ pos' \in 0..Len(log)
          /\ UNCHANGED log /\ {e.stream} \in SUBSET Streams
          /\ cursor' = pos' /\ NothingNew
      BY <2>1, ArrivalFacts
    <2> QED
      BY <2>1, <2>2, CloseStepInv
  <1>4. CASE IgnoreChunk \/ RejectChunk \/ DropChunk \/ KeepChunk
    <2>1. PICK e \in Incoming : /\ Arrives(e) /\ cursor' = cursor
                                /\ e.kind = "chunk" /\ UNCHANGED tracker
      BY <1>4 DEF IgnoreChunk, RejectChunk, DropChunk, KeepChunk
    <2>2. /\ pos' = pos + 1 /\ pos' \in 0..Len(log)
          /\ UNCHANGED log /\ cursor' = cursor /\ NothingNew
      BY <2>1, ArrivalFacts
    <2> QED
      BY <2>1, <2>2, UnchangedTableInv
  <1>5. CASE CompleteChunk
    BY <1>5, MessageInv DEF CompleteChunk
  <1> QED
    BY <1>1, <1>2, <1>3, <1>4, <1>5 DEF Receive

\* A change of a task leaves everything else of its connection.
LEMMA TaskConnection ==
    ASSUME NEW k \in Connection, NEW t \in {"ended", "joined"}
    PROVE  LET new == [k EXCEPT !.task = t]
           IN  /\ new \in Connection /\ new.stream = k.stream
               /\ new.opened = k.opened /\ new.got = k.got
               /\ new.open = k.open /\ new.task = t
  BY DEF Connection

LEMMA TaskFacts ==
    ASSUME TableOK, OpenConnectionsAgree, NEW c \in 1..Len(connections),
           NEW t \in {"ended", "joined"}
    PROVE  ClosesOnly([connections EXCEPT ![c].task = t], {})
  <1> DEFINE new == [connections[c] EXCEPT !.task = t]
             conns == [connections EXCEPT ![c] = new]
  <1>1. /\ new \in Connection /\ new.stream = connections[c].stream
        /\ new.opened = connections[c].opened /\ new.got = connections[c].got
        /\ new.open = connections[c].open /\ new.task = t
    <2>1. connections[c] \in Connection
      BY ConnectionFacts
    <2> QED
      BY <2>1, TaskConnection, Zenon
  <1>2. [connections EXCEPT ![c].task = t] = conns
    OBVIOUS
  <1> HIDE DEF new
  <1>3. connections \in Seq(Connection)
    BY DEF TableOK
  <1>4. conns \in Seq(Connection) /\ Len(conns) = Len(connections)
    BY ONLY <1>1, <1>3, c \in 1..Len(connections), ExceptSeq, SMT
  <1>5. \A d \in 1..Len(connections) :
           conns[d] = IF d = c THEN new ELSE connections[d]
    BY ONLY <1>1, <1>3, c \in 1..Len(connections), ExceptSeq, SMT
  <1> HIDE DEF conns
  <1>6. ASSUME NEW d \in 1..Len(connections)
        PROVE  /\ conns[d].stream = connections[d].stream
               /\ conns[d].opened = connections[d].opened
               /\ conns[d].got = connections[d].got
               /\ conns[d].open <=> connections[d].open
               /\ conns[d].task = "running" => conns[d].open
    <2>1. CASE d = c
      BY <1>1, <1>5, <2>1
    <2>2. CASE d # c
      BY <1>5, <2>2 DEF OpenConnectionsAgree
    <2> QED
      BY <2>1, <2>2
  <1>7. ClosesOnly(conns, {})
    BY <1>4, <1>6 DEF ClosesOnly
  <1> QED
    BY <1>2, <1>7

LEMMA ShutdownFacts ==
    ASSUME Inv, Shutdown
    PROVE  ClosesOnly(connections', Streams)
  <1> DEFINE closed == CloseClients(connections, Streams)
             n == Len(connections)
  <1>1. ClosesOnly(closed, Streams)
    BY NothingClosed, CloseClientsFacts DEF Inv, TrackerInv
  <1>2. connections' = [c \in 1..Len(closed) |-> [closed[c] EXCEPT !.task = "joined"]]
    BY DEF Shutdown
  <1> HIDE DEF closed
  <1>3. n \in Nat /\ Len(closed) = n /\ closed \in Seq(Connection)
    BY <1>1, LenProperties DEF ClosesOnly, Inv, TableOK
  <1>4. ASSUME NEW c \in 1..n
        PROVE  /\ connections'[c] \in Connection
               /\ connections'[c].stream = closed[c].stream
               /\ connections'[c].opened = closed[c].opened
               /\ connections'[c].got = closed[c].got
               /\ connections'[c].open = closed[c].open
               /\ connections'[c].task = "joined"
    <2>1. connections'[c] = [closed[c] EXCEPT !.task = "joined"]
      BY <1>2, <1>3
    <2>2. closed[c] \in Connection
      BY <1>3, ElementOfSeq
    <2>3. "joined" \in {"ended", "joined"}
      OBVIOUS
    <2> QED
      BY <2>1, <2>2, <2>3, TaskConnection, Zenon
  <1>5. connections' \in Seq(Connection) /\ Len(connections') = n
    <2>1. connections' \in [1..n -> Connection]
      BY <1>2, <1>3, <1>4
    <2> QED
      BY ONLY <1>3, <2>1
  <1> QED
    BY <1>1, <1>4, <1>5 DEF ClosesOnly

LEMMA NextInv ==
    ASSUME Inv, Next
    PROVE  Inv'
  <1>0. /\ Len(log) \in Nat /\ pos \in 0..Len(log) /\ cursor \in 0..Len(log)
        /\ pos <= pos
    BY LenProperties DEF Inv, TableOK
  <1>1. CASE \E s \in Streams : ClientSends(s)
    BY <1>1, ClientSendsInv
  <1>2. CASE Break
    BY <1>0, <1>2, UnchangedTableInv DEF Break
  <1>3. CASE Connect
    <2>1. /\ pos' \in 0..Len(log) /\ pos' <= cursor /\ cursor' = cursor
          /\ UNCHANGED << log, tracker >>
      BY <1>0, <1>3 DEF Connect
    <2> QED
      BY <2>1, UnchangedTableInv
  <1>4. CASE Receive
    BY <1>4, ReceiveInv
  <1>5. ASSUME NEW c \in 1..Len(connections), TaskEnds(c)
        PROVE  Inv'
    <2>1. ClosesOnly(connections', {})
      BY <1>5, TaskFacts DEF TaskEnds, Inv, TrackerInv
    <2>2. Forgets({})
      BY <1>5, ForgetFacts DEF TaskEnds, Inv
    <2> QED
      BY <1>0, <1>5, <2>1, <2>2, ClosingInv DEF TaskEnds
  <1>6. ASSUME NEW c \in 1..Len(connections), BookkeepJoinSet(c)
        PROVE  Inv'
    <2> DEFINE s == connections[c].stream
               joined == [connections EXCEPT ![c].task = "joined"]
    <2>1. connections' = CloseClients(joined, {s}) /\ Forget({s})
      BY <1>6 DEF BookkeepJoinSet
    <2>2. ClosesOnly(joined, {})
      BY TaskFacts DEF Inv, TrackerInv
    <2>3. {s} \in SUBSET Streams
      BY ConnectionFacts DEF Inv
    <2> HIDE DEF s, joined
    <2>4. ClosesOnly(connections', {s})
      BY <2>1, <2>2, <2>3, CloseClientsFacts DEF Inv, TrackerInv
    <2>5. Forgets({s})
      BY <2>1, <2>3, ForgetFacts DEF Inv
    <2> QED
      BY <1>0, <1>6, <2>3, <2>4, <2>5, ClosingInv DEF BookkeepJoinSet
  <1>7. CASE CloseExpiredClients
    <2>1. PICK S \in SUBSET Streams :
            connections' = CloseClients(connections, S) /\ Forget(S)
      BY <1>7 DEF CloseExpiredClients
    <2> QED
      BY <1>0, <1>7, <2>1, CloseStepInv DEF CloseExpiredClients
  <1>8. CASE Shutdown
    <2>1. ClosesOnly(connections', Streams)
      BY <1>8, ShutdownFacts
    <2>2. Forgets(Streams) /\ Streams \in SUBSET Streams
      BY <1>8, ForgetFacts DEF Shutdown, Inv
    <2> QED
      BY <1>0, <1>8, <2>1, <2>2, ClosingInv DEF Shutdown
  <1> QED
    BY <1>1, <1>2, <1>3, <1>4, <1>5, <1>6, <1>7, <1>8 DEF Next

LEMMA InitInv ==
    Init => Inv
  <1> SUFFICES ASSUME Init PROVE Inv
    OBVIOUS
  <1>1. /\ log = << >> /\ Len(log) = 0 /\ connections = << >>
        /\ Len(connections) = 0 /\ pos = 0 /\ cursor = 0
        /\ \A s \in Streams : clients[s] = 0 /\ lastSeq[s] = 0
    BY DEF Init
  <1>2. TableOK
    BY DEF Init, TableOK
  <1>3. LogInv
    BY <1>1 DEF LogInv, NumbersAreDense, NumbersAscend, Seqs
  <1>4. TrackerInv
    BY <1>1 DEF TrackerInv, EntriesAreConnections, OpenConnectionsAgree,
       LastSeqIsSent, ForwardedInOrder, GotUpToLastSeq, SeenIsForwarded,
       NothingIsPassedOver, NothingBeforeCursor, Known
  <1> QED
    BY <1>2, <1>3, <1>4 DEF Inv

LEMMA InvHolds ==
    Spec => []Inv
  <1>1. Inv /\ UNCHANGED vars => Inv'
    <2> SUFFICES ASSUME Inv, UNCHANGED vars PROVE Inv'
      OBVIOUS
    <2>1. /\ UNCHANGED << log, tracker >> /\ cursor' = cursor
          /\ pos' \in 0..Len(log) /\ pos' <= pos
      BY LenProperties DEF vars, Inv, TableOK
    <2> QED
      BY <2>1, UnchangedTableInv
  <1> QED
    BY <1>1, InitInv, NextInv, PTL DEF Spec

\* The app server and the tracker always agree on which connections are open,
\* and a running task belongs to an open connection (handle_message,
\* close_client): for any number of streams and whatever the backend replays.
THEOREM ConnectionsAgree ==
    Spec => []OpenConnectionsAgree
  BY InvHolds, PTL DEF Inv, TrackerInv

\* A connection gets the messages of its stream in the order in which they
\* were sent, none twice (last_inbound_seq_id).
THEOREM MessagesAreInOrder ==
    Spec => []ForwardedInOrder
  BY InvHolds, PTL DEF Inv, TrackerInv

\* No message that was sent whole is passed over, whatever is dropped as a
\* repetition after a reconnect (handle_message, subscribe_cursor).
THEOREM NoMessageIsPassedOver ==
    Spec => []NothingIsPassedOver
  BY InvHolds, PTL DEF Inv, TrackerInv

-----------------------------------------------------------------------------
(* The reader                                                              *)

ReaderOK ==
    /\ up \in BOOLEAN /\ stopped \in BOOLEAN /\ breaks \in 0..MaxBreaks
    /\ assemblies \in Seq(Assembly) /\ Len(assemblies) <= MaxAssemblies
    /\ lastChunk \in [Streams -> 0..MaxLog]

LEMMA AssembliesLeft ==
    ASSUME ReaderOK, NEW S
    PROVE  /\ OfOtherStreams(S) \in Seq(Assembly)
           /\ Len(OfOtherStreams(S)) <= MaxAssemblies
  <1> DEFINE P == {i \in 1..Len(assemblies) : assemblies[i].stream \notin S}
  <1>1. /\ assemblies \in Seq(Assembly) /\ Len(assemblies) <= MaxAssemblies
        /\ Len(assemblies) \in Nat /\ P \in SUBSET (1..Len(assemblies))
    BY LenProperties DEF ReaderOK
  <1>2. OfOtherStreams(S) = Subsequence(assemblies, P)
    BY DEF OfOtherStreams
  <1> HIDE DEF P
  <1>3. /\ Subsequence(assemblies, P) \in Seq(Assembly)
        /\ Len(Subsequence(assemblies, P)) \in Nat
        /\ Len(Subsequence(assemblies, P)) <= Len(assemblies)
    BY <1>1, SubsequenceFacts
  <1> QED
    BY <1>1, <1>2, <1>3

\* A chunk always finds room: the assembly of its client has left, or
\* evict_assemblies_if_full made a place.
LEMMA RoomForOne ==
    ASSUME ReaderOK, NEW e
    PROVE  /\ Others(e) \in Seq(Assembly)
           /\ Len(Others(e)) \in Nat /\ Len(Others(e)) < MaxAssemblies
  <1> DEFINE n == Len(assemblies)
             P == {i \in 1..n : ~SameClient(assemblies[i], e.stream)}
  <1>1. assemblies \in Seq(Assembly) /\ n <= MaxAssemblies /\ n \in Nat
    BY LenProperties DEF ReaderOK
  <1>2. CASE Current(e.stream) = {}
    <2>1. \A i \in 1..n : assemblies[i] \in Assembly
      BY <1>1, ElementOfSeq
    <2> DEFINE k == IF n < MaxAssemblies THEN 1 ELSE n - MaxAssemblies + 2
    <2>2. k \in Int /\ k >= 1 /\ n \in Int
      BY <1>1
    <2>3. Evicted = SubSeq(assemblies, k, n)
      BY DEF Evicted
    <2>4. (k <= n => n - k + 1 < MaxAssemblies /\ n - k + 1 \in Nat) /\ 0 < MaxAssemblies
      <3> HIDE DEF n
      <3>1. CASE n < MaxAssemblies
        <4>1. k = 1
          BY <3>1
        <4> HIDE DEF k
        <4> QED
          BY <1>1, <3>1, <4>1
      <3>2. CASE ~(n < MaxAssemblies)
        <4>1. n = MaxAssemblies
          BY <1>1, <3>2
        <4>2. k = 2
          BY <1>1, <3>2, <4>1
        <4> HIDE DEF k
        <4> QED
          BY <1>1, <4>1, <4>2
      <3> QED
        BY <3>1, <3>2
    <2> HIDE DEF k, n
    <2>5. \A i \in k..n : assemblies[i] \in Assembly
      BY <2>1, <2>2
    <2>6. /\ SubSeq(assemblies, k, n) \in Seq(Assembly)
          /\ Len(SubSeq(assemblies, k, n)) = IF k <= n THEN n - k + 1 ELSE 0
      BY <2>2, <2>5, SubSeqProperties
    <2>7. Others(e) = SubSeq(assemblies, k, n)
      BY <1>2, <2>3 DEF Others
    <2> QED
      BY <2>4, <2>6, <2>7
  <1>3. CASE Current(e.stream) # {}
    <2>1. PICK j \in 1..n : SameClient(assemblies[j], e.stream)
      BY <1>3 DEF Current
    <2>2. P \in SUBSET (1..n) /\ P # 1..n
      BY <2>1
    <2>3. Others(e) = Subsequence(assemblies, P)
      BY <1>3 DEF Others, OfOthers
    <2> HIDE DEF P
    <2>4. IsFiniteSet(1..n) /\ Cardinality(1..n) = n
      BY <1>1, Counting
    <2>5. Cardinality(P) < n
      <3>1. IsFiniteSet(P) /\ Cardinality(P) <= n /\ n # Cardinality(P)
        BY <2>2, <2>4, FS_Subset
      <3>2. Cardinality(P) \in Nat
        BY <3>1, FS_CardinalityType
      <3> HIDE DEF n
      <3> QED
        BY <1>1, <3>1, <3>2
    <2>6. /\ Subsequence(assemblies, P) \in Seq(Assembly)
          /\ Len(Subsequence(assemblies, P)) = Cardinality(P)
          /\ Len(Subsequence(assemblies, P)) \in Nat
      BY <1>1, <2>2, SubsequenceFacts
    <2> HIDE DEF n
    <2> QED
      BY <1>1, <2>3, <2>5, <2>6
  <1> QED
    BY <1>2, <1>3

LEMMA MeetsAssembly ==
    ASSUME ReaderOK, NEW e \in ClientEnvelope
    PROVE  Meets(e) \in Assembly
  <1>1. \A a \in Current(e.stream) : a \in Assembly
    BY ElementOfSeq DEF Current, ReaderOK
  <1>2. [stream |-> e.stream, seq |-> e.seq, next |-> 0] \in Assembly
    BY DEF Assembly, ClientEnvelope, Count
  <1>3. CASE \E a \in Current(e.stream) : a.stream = e.stream
    <2>1. Meets(e) = CHOOSE a \in Current(e.stream) : TRUE
      BY <1>3 DEF Meets
    <2>2. \E a \in Current(e.stream) : TRUE
      BY <1>3
    <2>3. Meets(e) \in Current(e.stream)
      BY <2>1, <2>2
    <2> QED
      BY <1>1, <2>3
  <1>4. CASE ~\E a \in Current(e.stream) : a.stream = e.stream
    BY <1>2, <1>4 DEF Meets
  <1> QED
    BY <1>3, <1>4

LEMMA ReaderKept ==
    ASSUME ReaderOK, UNCHANGED << up, stopped, breaks, lastChunk >>,
           assemblies' \in Seq(Assembly), Len(assemblies') <= MaxAssemblies
    PROVE  ReaderOK'
  BY DEF ReaderOK

LEMMA ReaderUnchanged ==
    ASSUME ReaderOK, UNCHANGED << up, stopped, breaks, reader >>
    PROVE  ReaderOK'
  BY DEF ReaderOK, reader

LEMMA ReaderInvalidates ==
    ASSUME ReaderOK, UNCHANGED << up, stopped, breaks >>, NEW S, InvalidateStreams(S)
    PROVE  ReaderOK'
  <1>1. assemblies' \in Seq(Assembly) /\ Len(assemblies') <= MaxAssemblies
    BY AssembliesLeft DEF InvalidateStreams
  <1>2. lastChunk' \in [Streams -> 0..MaxLog]
    BY DEF InvalidateStreams, ReaderOK
  <1> QED
    BY <1>1, <1>2 DEF ReaderOK

LEMMA ArrivedEnvelope ==
    ASSUME Inv, NEW e \in Incoming, Arrives(e)
    PROVE  /\ e \in ClientEnvelope /\ UNCHANGED << up, stopped, breaks >>
           /\ e.stream \in Streams /\ e.seq \in 1..MaxLog /\ e.seg \in 0..1
  <1>1. e = log[pos + 1] /\ pos < Len(log) /\ UNCHANGED << up, stopped, breaks >>
    BY DEF Arrives
  <1>2. pos + 1 \in 1..Len(log)
    BY <1>1, LenProperties DEF Inv, TableOK
  <1>3. e \in ClientEnvelope
    BY <1>1, <1>2, LogEntry DEF Inv
  <1> QED
    BY <1>1, <1>3 DEF ClientEnvelope

LEMMA ReceiveReader ==
    ASSUME Inv, ReaderOK, Receive
    PROVE  ReaderOK'
  <1>1. CASE HandleInitialize \/ HandleMessage \/ IgnoreChunk
    <2>1. PICK e \in Incoming : Arrives(e) /\ UNCHANGED reader
      BY <1>1 DEF HandleInitialize, HandleMessage, IgnoreChunk
    <2> QED
      BY <2>1, ArrivedEnvelope, ReaderUnchanged
  <1>2. CASE HandleClosed
    <2>1. PICK e \in Incoming : Arrives(e) /\ InvalidateStreams({e.stream})
      BY <1>2 DEF HandleClosed
    <2> QED
      BY <2>1, ArrivedEnvelope, ReaderInvalidates
  <1>3. CASE RejectChunk
    <2>1. PICK e \in Incoming :
             Arrives(e) /\ assemblies' = OfOtherStreams({e.stream}) /\ UNCHANGED lastChunk
      BY <1>3 DEF RejectChunk
    <2> QED
      BY <2>1, ArrivedEnvelope, AssembliesLeft, ReaderKept
  <1>4. CASE DropChunk
    <2>1. PICK e \in Incoming :
             Arrives(e) /\ assemblies' = Others(e) /\ UNCHANGED lastChunk
      BY <1>4 DEF DropChunk
    <2>2. assemblies' \in Seq(Assembly) /\ Len(assemblies') <= MaxAssemblies
      BY <2>1, RoomForOne
    <2> QED
      BY <2>1, <2>2, ArrivedEnvelope, ReaderKept
  <1>5. CASE KeepChunk
    <2>1. PICK e \in Incoming :
             /\ Arrives(e) /\ Fits(e) /\ e.seg + 1 < Count /\ UNCHANGED lastChunk
             /\ assemblies' = Append(Others(e), [Meets(e) EXCEPT !.next = Meets(e).next + 1])
      BY <1>5 DEF KeepChunk
    <2>2. e \in ClientEnvelope /\ e.seg \in 0..1
      BY <2>1, ArrivedEnvelope
    <2>3. Meets(e) \in Assembly /\ Meets(e).next = e.seg
      BY <2>1, <2>2, MeetsAssembly DEF Fits
    <2>4. Meets(e).next + 1 \in 0..Count
      BY <2>2, <2>3 DEF Count
    <2> DEFINE a == [Meets(e) EXCEPT !.next = Meets(e).next + 1]
    <2>5. a \in Assembly
      BY <2>3, <2>4 DEF Assembly
    <2>6. /\ Others(e) \in Seq(Assembly)
          /\ Len(Others(e)) \in Nat /\ Len(Others(e)) < MaxAssemblies
      BY RoomForOne
    <2> HIDE DEF a
    <2>7. Append(Others(e), a) \in Seq(Assembly)
          /\ Len(Append(Others(e), a)) = Len(Others(e)) + 1
      BY <2>5, <2>6, AppendProperties
    <2>8. assemblies' = Append(Others(e), a)
      BY <2>1 DEF a
    <2>9. assemblies' \in Seq(Assembly) /\ Len(assemblies') <= MaxAssemblies
      BY <2>6, <2>7, <2>8
    <2> QED
      BY <2>1, <2>9, ArrivedEnvelope, ReaderKept
  <1>6. CASE CompleteChunk
    <2>1. PICK e \in Incoming :
             /\ Arrives(e) /\ assemblies' = Others(e)
             /\ lastChunk' = [lastChunk EXCEPT ![e.stream] = e.seq]
      BY <1>6 DEF CompleteChunk
    <2>2. assemblies' \in Seq(Assembly) /\ Len(assemblies') <= MaxAssemblies
      BY <2>1, RoomForOne
    <2>3. /\ UNCHANGED << up, stopped, breaks >>
          /\ e.stream \in Streams /\ e.seq \in 1..MaxLog
      BY <2>1, ArrivedEnvelope
    <2>4. lastChunk' \in [Streams -> 0..MaxLog]
      BY <2>1, <2>3 DEF ReaderOK
    <2> QED
      BY <2>2, <2>3, <2>4 DEF ReaderOK
  <1> QED
    BY <1>1, <1>2, <1>3, <1>4, <1>5, <1>6 DEF Receive

LEMMA NextReader ==
    ASSUME Inv, ReaderOK, [Next]_vars
    PROVE  ReaderOK'
  <1>1. ASSUME NEW s \in Streams, ClientSends(s) PROVE ReaderOK'
    BY <1>1, ReaderUnchanged DEF ClientSends
  <1>2. CASE Break
    <2>1. up' \in BOOLEAN /\ UNCHANGED << stopped, reader >>
      BY <1>2 DEF Break
    <2>2. breaks' \in 0..MaxBreaks
      BY <1>2 DEF Break, ReaderOK
    <2> QED
      BY <2>1, <2>2 DEF ReaderOK, reader
  <1>3. CASE Connect
    BY <1>3 DEF Connect, ReaderOK, reader
  <1>4. CASE Receive
    BY <1>4, ReceiveReader
  <1>5. ASSUME NEW c \in 1..Len(connections), TaskEnds(c) PROVE ReaderOK'
    BY <1>5, ReaderUnchanged DEF TaskEnds
  <1>6. ASSUME NEW c \in 1..Len(connections), BookkeepJoinSet(c) PROVE ReaderOK'
    BY <1>6, ReaderInvalidates DEF BookkeepJoinSet
  <1>7. CASE CloseExpiredClients
    BY <1>7, ReaderInvalidates DEF CloseExpiredClients
  <1>8. CASE Shutdown
    BY <1>8 DEF Shutdown, ReaderOK, reader
  <1>9. CASE UNCHANGED vars
    BY <1>9, ReaderUnchanged DEF vars
  <1> QED
    BY <1>1, <1>2, <1>3, <1>4, <1>5, <1>6, <1>7, <1>8, <1>9 DEF Next

\* The types, and with them the two bounds of the incoming half: at most
\* REMOTE_CONTROL_SEGMENT_ASSEMBLY_MAX_COUNT messages are being put together
\* at any time, whoever sends the chunks (evict_assemblies_if_full), and the
\* table of clients refers to connections that exist (handle_message).
THEOREM TypeCorrect == Spec => []TypeOK
  <1>1. Init => ReaderOK
    <2> SUFFICES ASSUME Init PROVE ReaderOK
      OBVIOUS
    <2>1. assemblies \in Seq(Assembly) /\ Len(assemblies) <= MaxAssemblies
      BY EmptySeq DEF Init
    <2>2. lastChunk \in [Streams -> 0..MaxLog] /\ breaks \in 0..MaxBreaks
      BY DEF Init
    <2>3. up \in BOOLEAN /\ stopped \in BOOLEAN
      BY DEF Init
    <2> QED
      BY <2>1, <2>2, <2>3 DEF ReaderOK
  <1>2. Inv /\ ReaderOK => TypeOK
    BY DEF Inv, TableOK, ReaderOK, TypeOK
  <1> QED
    BY <1>1, <1>2, InvHolds, NextReader, PTL DEF Spec
=============================================================================
