--------------------------- MODULE ExecProcessProofs ---------------------------
(***************************************************************************)
(* Proofs about ExecProcess, for any number of streams, chunks, retained   *)
(* chunks and any capacity of the log: events are published in the order   *)
(* of their numbers although they arrive in any, and a consumer gets the   *)
(* chunks in order, each once, misses none but those that were dropped,    *)
(* and is told of the end after the last of them.                          *)
(***************************************************************************)
EXTENDS ExecProcess, SubsequenceProofs

USE ExecAssumption

-----------------------------------------------------------------------------
(* The inductive invariants                                                *)

\* The event with number n, as the server sends it.
Ev(n) == [kind |-> assigned[n], seq |-> n]
Genuine(e) == e.seq \in 1..Len(assigned) /\ e = Ev(e.seq)

Outputs == {n \in DOMAIN assigned : assigned[n] = "output"}
OpenStreams == {s \in Streams : task[s] \in {"run", "send"}}
One(b) == IF b THEN 1 ELSE 0

\* Every number is that of one event.  The process is closed by the last one,
\* after its exit and when no stream is open.
Numbering ==
    /\ proc.next = Len(assigned) + 1
    /\ Cardinality(Outputs) <= MaxChunks
    /\ Len(assigned) = Cardinality(Outputs) + One(proc.exit) + One(proc.closed)
    /\ proc.exit <=> task["exit"] # "run"
    /\ proc.open = Cardinality(OpenStreams)
    /\ proc.closed => proc.exit /\ proc.open = 0
    /\ \A n \in 1..Len(assigned) :
          assigned[n] = "closed" => proc.closed /\ n = Len(assigned)

\* The retained chunks ascend, the newest is among them, and all others have
\* been evicted.
Retention ==
    /\ \A i, j \in 1..Len(proc.output) : i < j => proc.output[i] < proc.output[j]
    /\ \A i \in 1..Len(proc.output) : proc.output[i] \in Outputs
    /\ \A n \in Outputs :
          \/ n \in evicted
          \/ \E i \in 1..Len(proc.output) : proc.output[i] = n
    /\ \A n \in Outputs :
          proc.output # << >> /\ n <= proc.output[Len(proc.output)]

ServerInv == Numbering /\ Retention

\* What is on its way to the log.
UnsentGenuine ==
    \A t \in Tasks : task[t] \in {"send", "sendClosed"} => Genuine(unsent[t])

InboxGenuine ==
    \A i \in 1..Len(inbox) : inbox[i] = Disconnected \/ Genuine(inbox[i])

PendingGenuine ==
    /\ \A e \in ordered.pending : Genuine(e) /\ e.seq > ordered.last
    /\ ordered.last <= Len(assigned)

InTransit == UnsentGenuine /\ InboxGenuine /\ PendingGenuine

\* The log has the events up to last_published_seq, one after the other.
Published ==
    /\ \A i \in 1..Len(log) : log[i] = Failed \/ Genuine(log[i])
    /\ \A i \in 1..Len(log) : log[i].seq <= ordered.last
    /\ \A n \in 1..ordered.last : \E i \in 1..Len(log) : log[i] = Ev(n)
    /\ \A i, j \in 1..Len(log) :
          i < j /\ log[i] # Failed /\ log[j] # Failed => log[i].seq < log[j].seq

\* What a consumer has received, or never will.
Settled == ReceivedSet \cup evicted \cup missed

\* The cursor is the number of an event, and it bounds what was received.
AtCursor ==
    /\ cursor <= Len(assigned)
    /\ \A i \in 1..Len(got) : got[i] <= cursor

\* The events to be replayed are the last ones before pos, and they are done
\* with before a consumer reads.
Position ==
    /\ pos <= Len(log) /\ Len(replay) <= pos
    /\ \A i \in 1..Len(replay) : replay[i] = log[pos - Len(replay) + i]
    /\ at \notin {"recv", "ended"} => replay = << >>
    /\ at \in {"register", "exec", "started", "subscribe"} => missed = {}

\* Whatever a receiving consumer has passed in the log is settled.
Passed ==
    at = "recv" =>
        \A j \in 1..pos - Len(replay) :
            log[j].kind = "output" => log[j].seq \in Settled

\* An answer brings the chunks between the cursor and its next_seq, but for
\* the evicted ones, and all that a lagging consumer has passed over.
Answer ==
    at = "answered" =>
        /\ reply.failure => reply.chunks = << >>
        /\ ~reply.failure =>
             /\ reply.next <= Len(assigned) + 1
             /\ \A i \in 1..Len(reply.chunks) :
                   cursor < reply.chunks[i] /\ reply.chunks[i] < reply.next
             /\ \A i, j \in 1..Len(reply.chunks) :
                   i < j => reply.chunks[i] < reply.chunks[j]
             /\ \A n \in Outputs : cursor < n /\ n < reply.next =>
                   \/ n \in evicted
                   \/ \E i \in 1..Len(reply.chunks) : reply.chunks[i] = n
             /\ \A j \in 1..pos : log[j].kind = "output" => log[j].seq < reply.next
             /\ reply.closed => proc.closed /\ \A n \in Outputs : n < reply.next

ConsumerInv ==
    /\ AtCursor /\ ReceivedInOrder /\ NothingElseIsLost /\ CloseIsFinal
    /\ Position /\ Passed /\ Answer

Inv == TypeOK /\ ServerInv /\ InTransit /\ Published /\ ConsumerInv

-----------------------------------------------------------------------------
(* Types, and what never changes                                           *)

TypeServer ==
    /\ entry \in {"none", "running", "gone"}
    /\ proc \in [next : 1..MaxSeq + 1, output : Seq(Seqs), exit : BOOLEAN,
                 open : 0..Cardinality(Streams), closed : BOOLEAN]
    /\ Len(proc.output) <= MaxRetained
    /\ task \in [Tasks -> {"run", "send", "close", "sendClosed", "done"}]
    /\ unsent \in [Tasks -> Event]
    /\ assigned \in Seq({"output", "exited", "closed"})
    /\ evicted \subseteq Seqs

TypeClient ==
    /\ inbox \in Seq(Event \cup {Disconnected})
    /\ broken \in BOOLEAN /\ latched \in BOOLEAN
    /\ reader \in {"run", "latched", "done"}
    /\ session \in {"none", "registered", "removed"}
    /\ ordered \in [last : 0..MaxSeq, pending : SUBSET Event]
    /\ log \in Seq(Event)
    /\ failure \in BOOLEAN /\ woken \in BOOLEAN

TypeConsumer ==
    /\ kind \in {"stream", "poll"}
    /\ at \in {"register", "exec", "started", "subscribe", "recv", "ask",
               "answered", "refused", "wait", "ended"}
    /\ replay \in Seq(Event) /\ Len(replay) <= Capacity
    /\ pos \in Nat
    /\ cursor \in 0..MaxSeq
    /\ reply \in Reply
    /\ got \in Seq(Seqs)
    /\ outcome \in {"none", "closed", "failed"}
    /\ missed \subseteq Seqs

LEMMA TypeParts == TypeOK <=> TypeServer /\ TypeClient /\ TypeConsumer
  BY DEF TypeOK, TypeServer, TypeClient, TypeConsumer

LEMMA Bounds ==
    /\ MaxSeq \in Nat /\ MaxSeq = MaxChunks + 2 /\ MaxChunks \in Nat
    /\ Seqs \subseteq Nat /\ \A n : n \in Seqs <=> n \in 1..MaxSeq
  BY DEF MaxSeq, Seqs

LEMMA ServerTypes ==
    ASSUME TypeServer
    PROVE  /\ proc.next \in Nat /\ proc.output \in Seq(Seqs)
           /\ Len(proc.output) \in Nat
           /\ \A i \in 1..Len(proc.output) : proc.output[i] \in Seqs
           /\ \A i \in 1..Len(proc.output) : proc.output[i] \in Nat
           /\ proc.exit \in BOOLEAN /\ proc.closed \in BOOLEAN
           /\ proc.open \in Nat
           /\ Len(assigned) \in Nat /\ DOMAIN assigned = 1..Len(assigned)
           /\ \A n \in 1..Len(assigned) :
                 assigned[n] \in {"output", "exited", "closed"}
           /\ Outputs \subseteq 1..Len(assigned)
           /\ IsFiniteSet(Outputs) /\ Cardinality(Outputs) \in Nat
  <1>1. /\ proc.next \in 1..MaxSeq + 1 /\ proc.output \in Seq(Seqs)
        /\ proc.exit \in BOOLEAN /\ proc.closed \in BOOLEAN
        /\ proc.open \in 0..Cardinality(Streams)
    BY DEF TypeServer
  <1>2. Cardinality(Streams) \in Nat
    BY FS_CardinalityType
  <1>3. /\ Len(proc.output) \in Nat
        /\ \A i \in 1..Len(proc.output) : proc.output[i] \in Seqs
    BY <1>1, LenProperties, ElementOfSeq
  <1>4. /\ Len(assigned) \in Nat /\ DOMAIN assigned = 1..Len(assigned)
        /\ \A n \in 1..Len(assigned) :
              assigned[n] \in {"output", "exited", "closed"}
    BY LenProperties, ElementOfSeq DEF TypeServer
  <1>5. Outputs \subseteq 1..Len(assigned)
    BY <1>4 DEF Outputs
  <1>6. IsFiniteSet(Outputs) /\ Cardinality(Outputs) \in Nat
    BY <1>4, <1>5, PlacesFinite
  <1> QED
    BY SMTT(30), <1>1, <1>2, <1>3, <1>4, <1>5, <1>6, Bounds

\* The server only adds to what it has numbered and evicted, and a closed
\* process gets no more events.
Growth ==
    /\ Len(assigned) <= Len(assigned')
    /\ \A n \in 1..Len(assigned) : n \in 1..Len(assigned') /\ assigned'[n] = assigned[n]
    /\ evicted \subseteq evicted'
    /\ proc.closed => assigned' = assigned /\ proc'.closed /\ proc'.exit

LEMMA GenuineKept ==
    ASSUME Growth, NEW e, Genuine(e)
    PROVE  Genuine(e)'
  BY DEF Growth, Genuine, Ev

LEMMA OutputsGrow ==
    ASSUME TypeServer, TypeServer', Growth
    PROVE  /\ \A n \in Outputs : n \in Outputs'
           /\ \A n \in Outputs' : n \in Outputs \/ n > Len(assigned)
           /\ \A n \in Outputs' : n <= Len(assigned) => n \in Outputs
  <1>1. /\ Len(assigned) \in Nat /\ DOMAIN assigned = 1..Len(assigned)
        /\ Len(assigned') \in Nat /\ DOMAIN assigned' = 1..Len(assigned')
    BY LenProperties DEF TypeServer
  <1> QED
    BY <1>1 DEF Outputs, Growth

-----------------------------------------------------------------------------
(* The server                                                              *)

LEMMA NumberStep ==
    ASSUME TypeServer, Numbering, NEW t \in Tasks,
           NEW k \in {"output", "exited", "closed"},
           NEW place \in {"send", "sendClosed"},
           Len(assigned) < MaxSeq, Number(t, k, place)
    PROVE  /\ unsent' \in [Tasks -> Event]
           /\ task' \in [Tasks -> {"run", "send", "close", "sendClosed", "done"}]
           /\ task' = [task EXCEPT ![t] = place]
           /\ assigned' \in Seq({"output", "exited", "closed"})
           /\ Len(assigned') = Len(assigned) + 1
           /\ \A n \in 1..Len(assigned) : assigned'[n] = assigned[n]
           /\ assigned'[Len(assigned) + 1] = k
           /\ proc.next = Len(assigned) + 1 /\ proc.next \in Seqs
           /\ Genuine(unsent[t])'
           /\ \A u \in Tasks : u # t => unsent'[u] = unsent[u]
           /\ k = "output" =>
                /\ Outputs' = Outputs \cup {proc.next} /\ proc.next \notin Outputs
                /\ Cardinality(Outputs') = Cardinality(Outputs) + 1
           /\ k # "output" => Outputs' = Outputs
  <1>0. /\ Len(assigned) \in Nat /\ DOMAIN assigned = 1..Len(assigned)
        /\ IsFiniteSet(Outputs) /\ Outputs \subseteq 1..Len(assigned)
    BY ServerTypes
  <1>1. proc.next = Len(assigned) + 1 /\ proc.next \in Seqs
    BY <1>0, Bounds DEF Numbering
  <1> DEFINE e == [kind |-> k, seq |-> proc.next]
  <1>2. e \in Event /\ e.kind = k /\ e.seq = proc.next
    BY <1>1 DEF Event
  <1>3. unsent' = [unsent EXCEPT ![t] = e] /\ task' = [task EXCEPT ![t] = place]
        /\ assigned' = Append(assigned, k)
    BY DEF Number
  <1>4. /\ assigned' \in Seq({"output", "exited", "closed"})
        /\ Len(assigned') = Len(assigned) + 1
        /\ \A n \in 1..Len(assigned) : assigned'[n] = assigned[n]
        /\ assigned'[Len(assigned) + 1] = k
    BY <1>3, AppendProperties DEF TypeServer
  <1>5. /\ unsent' \in [Tasks -> Event] /\ unsent'[t] = e
        /\ \A u \in Tasks : u # t => unsent'[u] = unsent[u]
    BY <1>2, <1>3 DEF TypeServer
  <1>6. task' \in [Tasks -> {"run", "send", "close", "sendClosed", "done"}]
    BY <1>3 DEF TypeServer
  <1>7. Genuine(unsent[t])'
    <2>1. e.seq \in 1..Len(assigned')
      BY <1>0, <1>1, <1>2, <1>4
    <2>2. e = [kind |-> assigned'[e.seq], seq |-> e.seq]
      BY <1>1, <1>2, <1>4
    <2> QED
      BY <1>5, <2>1, <2>2 DEF Genuine, Ev
  <1>8. DOMAIN assigned' = 1..Len(assigned) + 1
    BY <1>4, LenProperties
  <1>9. \A n : n \in 1..Len(assigned) + 1 <=> n \in 1..Len(assigned) \/ n = Len(assigned) + 1
    BY <1>0
  <1>10. Len(assigned) + 1 \notin Outputs
    BY <1>0
  <1>11. ASSUME k = "output"
         PROVE  /\ Outputs' = Outputs \cup {proc.next} /\ proc.next \notin Outputs
                /\ Cardinality(Outputs') = Cardinality(Outputs) + 1
    <2>1. \A n : n \in Outputs' <=> n \in Outputs \/ n = proc.next
      BY <1>0, <1>1, <1>4, <1>8, <1>9, <1>11 DEF Outputs
    <2>2. Outputs' = Outputs \cup {proc.next} /\ proc.next \notin Outputs
      BY <1>1, <1>10, <2>1
    <2> QED
      BY <1>0, <2>2, FS_AddElement
  <1>12. ASSUME k # "output" PROVE Outputs' = Outputs
    <2>1. \A n : n \in Outputs' <=> n \in Outputs
      BY <1>0, <1>4, <1>8, <1>9, <1>12 DEF Outputs
    <2>2. Outputs' \subseteq Outputs /\ Outputs \subseteq Outputs'
      BY <2>1
    <2> QED
      BY <2>2
  <1> HIDE DEF e
  <1> QED
    BY <1>1, <1>3, <1>4, <1>5, <1>6, <1>7, <1>11, <1>12

\* Which streams are open is left alone by all steps but StreamEnds.
LEMMA OpenKept ==
    ASSUME NEW t \in Tasks, NEW place, TypeServer, task' = [task EXCEPT ![t] = place],
           t \in Streams =>
             (task[t] \in {"run", "send"} <=> place \in {"run", "send"})
    PROVE  OpenStreams' = OpenStreams
  <1>1. \A s \in Streams : s \in Tasks
    BY DEF Tasks
  <1>2. \A s \in Streams :
           task'[s] \in {"run", "send"} <=> task[s] \in {"run", "send"}
    BY <1>1 DEF TypeServer
  <1> QED
    BY <1>2 DEF OpenStreams

LEMMA RoomForOne ==
    ASSUME TypeServer, Numbering,
           Cardinality(Outputs) < MaxChunks \/ ~proc.exit \/ ~proc.closed
    PROVE  Len(assigned) < MaxSeq
  <1>1. Cardinality(Outputs) \in Nat /\ Len(assigned) \in Nat
    BY ServerTypes
  <1> QED
    BY <1>1, Bounds DEF Numbering, One

\* One chunk is kept, and the oldest one goes if there are too many.
LEMMA RetainedFacts ==
    ASSUME TypeServer, NEW n \in Seqs
    PROVE  LET all == Append(proc.output, n)
               kept == Retained(all)
               old == Len(all) - Len(kept)
           IN  /\ kept \in Seq(Seqs) /\ Len(kept) <= MaxRetained
               /\ Len(kept) \in Nat \ {0} /\ old \in 0..1
               /\ Len(kept) + old = Len(proc.output) + 1
               /\ kept[Len(kept)] = n
               /\ \A i \in 1..Len(kept) - 1 : /\ i + old \in 1..Len(proc.output)
                                              /\ kept[i] = proc.output[i + old]
               /\ {all[i] : i \in 1..old} \subseteq Seqs
               /\ old = 1 => all[1] \in {all[i] : i \in 1..old}
               /\ old = 1 => Len(proc.output) > 0 /\ all[1] = proc.output[1]
  <1> DEFINE out == proc.output
             all == Append(out, n)
             kept == Retained(all)
             m == Len(out)
  <1>0. out \in Seq(Seqs) /\ m \in Nat /\ m <= MaxRetained
    BY ServerTypes DEF TypeServer
  <1>1. /\ all \in Seq(Seqs) /\ Len(all) = m + 1
        /\ \A i \in 1..m : all[i] = out[i]
        /\ all[m + 1] = n
    BY <1>0, AppendProperties
  <1>2. MaxRetained \in Nat /\ MaxRetained >= 1
    OBVIOUS
  <1> HIDE DEF all, out, m
  <1>3. \A i \in 1..m + 1 : all[i] \in Seqs
    BY <1>1, ElementOfSeq
  <1>4. CASE m + 1 > MaxRetained
    <2>1. kept = Tail(all) /\ all # << >>
      BY <1>0, <1>1, <1>4 DEF Retained
    <2>2. /\ kept \in Seq(Seqs) /\ Len(kept) = m
          /\ \A i \in 1..m : kept[i] = all[i + 1]
      BY <1>0, <1>1, <2>1, HeadTailProperties
    <2> HIDE DEF kept
    <2>3. m \in Nat \ {0} /\ m <= MaxRetained
      BY <1>0, <1>2, <1>4
    <2>4. kept[m] = n
      BY <1>1, <2>2, <2>3
    <2>5. \A i \in 1..m - 1 : i + 1 \in 1..m /\ kept[i] = out[i + 1]
      BY <1>1, <2>2, <2>3
    <2>6. Len(all) - Len(kept) = 1 /\ m - 1 + 1 = m
      BY <1>0, <1>1, <2>2
    <2>7. 1 \in 1..1 /\ \A i \in 1..1 : i \in 1..m + 1
      BY <2>3
    <2>8. 1 \in 1..m
      BY <2>3
    <2> QED
      BY <1>1, <1>3, <2>2, <2>3, <2>4, <2>5, <2>6, <2>7, <2>8 DEF m, out, all, kept
  <1>5. CASE ~(m + 1 > MaxRetained)
    <2>1. kept = all
      BY <1>1, <1>5 DEF Retained
    <2> HIDE DEF kept
    <2>2. Len(all) - Len(kept) = 0 /\ Len(kept) = m + 1
      BY <1>0, <1>1, <2>1
    <2>3. \A i \in 1..m + 1 - 1 : i + 0 \in 1..m /\ kept[i] = out[i + 0]
      BY <1>0, <1>1, <2>1
    <2>4. {all[i] : i \in 1..0} = {}
      OBVIOUS
    <2>5. m + 1 <= MaxRetained /\ m + 1 \in Nat \ {0} /\ m + 1 + 0 = m + 1
      BY <1>0, <1>2, <1>5
    <2> QED
      BY <1>1, <2>1, <2>2, <2>3, <2>4, <2>5 DEF m, out, all, kept
  <1> QED
    BY <1>4, <1>5

ServerStep == TypeServer' /\ ServerInv' /\ UnsentGenuine' /\ Growth

LEMMA StreamChunkStep ==
    ASSUME TypeServer, ServerInv, UnsentGenuine, NEW s \in Streams, StreamChunk(s)
    PROVE  ServerStep
  <1> DEFINE all == Append(proc.output, proc.next)
             kept == Retained(all)
             old == Len(all) - Len(kept)
             len == Len(assigned)
  <1>0. len \in Nat /\ Numbering /\ Retention /\ s \in Tasks /\ s # "exit"
    BY ServerTypes DEF ServerInv, Tasks
  <1>1. Cardinality(Outputs) < MaxChunks /\ task[s] = "run"
    BY DEF StreamChunk, Outputs
  <1>2. len < MaxSeq
    BY <1>0, <1>1, RoomForOne
  <1>3. Number(s, "output", "send")
    BY DEF StreamChunk
  <1>4. /\ unsent' \in [Tasks -> Event]
        /\ task' \in [Tasks -> {"run", "send", "close", "sendClosed", "done"}]
        /\ task' = [task EXCEPT ![s] = "send"]
        /\ assigned' \in Seq({"output", "exited", "closed"})
        /\ Len(assigned') = len + 1
        /\ \A n \in 1..len : assigned'[n] = assigned[n]
        /\ assigned'[len + 1] = "output"
        /\ proc.next = len + 1 /\ proc.next \in Seqs
        /\ Genuine(unsent[s])'
        /\ \A u \in Tasks : u # s => unsent'[u] = unsent[u]
        /\ Outputs' = Outputs \cup {proc.next} /\ proc.next \notin Outputs
        /\ Cardinality(Outputs') = Cardinality(Outputs) + 1
    BY <1>0, <1>2, <1>3, NumberStep
  <1>5. /\ proc' = [proc EXCEPT !.next = @ + 1, !.output = kept]
        /\ evicted' = evicted \cup {all[i] : i \in 1..old}
        /\ entry' = entry
    BY DEF StreamChunk
  <1>6. /\ kept \in Seq(Seqs) /\ Len(kept) <= MaxRetained
        /\ Len(kept) \in Nat \ {0} /\ old \in 0..1
        /\ Len(kept) + old = Len(proc.output) + 1
        /\ kept[Len(kept)] = proc.next
        /\ \A i \in 1..Len(kept) - 1 : /\ i + old \in 1..Len(proc.output)
                                       /\ kept[i] = proc.output[i + old]
        /\ {all[i] : i \in 1..old} \subseteq Seqs
        /\ old = 1 => all[1] \in {all[i] : i \in 1..old}
        /\ old = 1 => Len(proc.output) > 0 /\ all[1] = proc.output[1]
    BY <1>4, RetainedFacts
  <1> HIDE DEF all, kept, old, len
  <1>7. /\ proc'.next = proc.next + 1 /\ proc'.output = kept
        /\ proc'.exit = proc.exit /\ proc'.closed = proc.closed
        /\ proc'.open = proc.open
    BY <1>5 DEF TypeServer
  <1>8. TypeServer'
    <2>1. proc.next + 1 \in 1..MaxSeq + 1
      BY <1>0, <1>2, <1>4, Bounds
    <2>2. proc' \in [next : 1..MaxSeq + 1, output : Seq(Seqs), exit : BOOLEAN,
                     open : 0..Cardinality(Streams), closed : BOOLEAN]
      BY <1>5, <1>6, <2>1 DEF TypeServer
    <2> QED
      BY <1>4, <1>5, <1>6, <1>7, <2>2 DEF TypeServer
  <1>9. ~proc.closed
    <2>1. s \in OpenStreams /\ OpenStreams \subseteq Streams
      BY <1>1 DEF OpenStreams
    <2>2. IsFiniteSet(OpenStreams)
      BY <2>1, FS_Subset
    <2>3. Cardinality(OpenStreams) # 0
      BY <2>1, <2>2, FS_EmptySet
    <2> QED
      BY <1>0, <2>3 DEF Numbering
  <1>10. Growth
    BY <1>0, <1>4, <1>5, <1>9 DEF Growth, len
  <1>11. OpenStreams' = OpenStreams
    BY <1>0, <1>1, <1>4, OpenKept
  <1>12. Numbering'
    <2>1. Cardinality(Outputs) \in Nat
      BY ServerTypes
    <2>2. proc'.next = Len(assigned') + 1
      BY <1>0, <1>4, <1>7
    <2>3. /\ Cardinality(Outputs') <= MaxChunks
          /\ Len(assigned') =
                Cardinality(Outputs') + One(proc'.exit) + One(proc'.closed)
      BY <1>0, <1>1, <1>4, <1>7, <2>1 DEF Numbering, One, len
    <2>4. proc'.exit <=> task'["exit"] # "run"
      <3>1. task'["exit"] = task["exit"]
        BY <1>0, <1>4 DEF TypeServer, Tasks
      <3> QED
        BY <1>0, <1>7, <3>1 DEF Numbering
    <2>5. /\ proc'.open = Cardinality(OpenStreams')
          /\ proc'.closed => proc'.exit /\ proc'.open = 0
      BY <1>0, <1>7, <1>11 DEF Numbering
    <2>6. \A n \in 1..Len(assigned') : assigned'[n] # "closed"
      <3> TAKE n \in 1..Len(assigned')
      <3>1. n \in 1..len \/ n = len + 1
        BY <1>0, <1>4
      <3> QED
        BY <1>0, <1>4, <1>9, <3>1 DEF Numbering, len
    <2> QED
      BY <2>2, <2>3, <2>4, <2>5, <2>6 DEF Numbering, One
  <1>13. Retention'
    <2> DEFINE m == Len(proc.output)
               k == Len(kept)
    <2>0. /\ m \in Nat /\ k \in Nat \ {0} /\ old \in 0..1 /\ k + old = m + 1
          /\ \A i \in 1..m : proc.output[i] \in Nat
      BY <1>6, ServerTypes
    <2>1. \A i \in 1..k : i \in 1..k - 1 \/ i = k
      BY <2>0
    <2>2. \A i \in 1..m : proc.output[i] \in Outputs /\ proc.output[i] < proc.next
      <3>1. \A i \in 1..m : proc.output[i] \in Outputs
        BY <1>0 DEF Retention
      <3>2. \A n \in Outputs : n \in Nat /\ n <= len
        BY <1>0, ServerTypes DEF len
      <3> QED
        BY <1>0, <1>4, <3>1, <3>2
    <2>3. \A i, j \in 1..k : i < j => kept[i] < kept[j]
      <3> SUFFICES ASSUME NEW i \in 1..k, NEW j \in 1..k, i < j
                   PROVE  kept[i] < kept[j]
        OBVIOUS
      <3>1. i \in 1..k - 1
        BY <2>0
      <3>2. i + old \in 1..m /\ kept[i] = proc.output[i + old]
        BY <1>6, <3>1
      <3>3. CASE j = k
        BY <1>6, <2>2, <3>2, <3>3
      <3>4. CASE j \in 1..k - 1
        <4>1. j + old \in 1..m /\ kept[j] = proc.output[j + old] /\ i + old < j + old
          BY <1>6, <2>0, <3>4
        <4> QED
          BY <1>0, <3>2, <4>1 DEF Retention
      <3> QED
        BY <2>1, <3>3, <3>4
    <2>4. \A i \in 1..k : kept[i] \in Outputs'
      <3> TAKE i \in 1..k
      <3>1. CASE i = k
        BY <1>4, <1>6, <3>1
      <3>2. CASE i \in 1..k - 1
        BY <1>4, <1>6, <2>2, <3>2
      <3> QED
        BY <2>1, <3>1, <3>2
    <2>5. ASSUME NEW n \in Outputs'
          PROVE  n \in evicted' \/ \E i \in 1..k : kept[i] = n
      <3>1. CASE n = proc.next
        <4>1. k \in 1..k
          BY <2>0
        <4> QED
          BY <1>6, <3>1, <4>1
      <3>2. CASE n \in evicted
        BY <1>5, <3>2
      <3>3. ASSUME NEW i \in 1..m, proc.output[i] = n
            PROVE  n \in evicted' \/ \E j \in 1..k : kept[j] = n
        <4>1. CASE i - old = 0
          <5>1. old = 1 /\ i = 1
            BY <2>0, <4>1
          <5>2. all[1] = n /\ all[1] \in {all[j] : j \in 1..old}
            BY <1>6, <3>3, <5>1
          <5> QED
            BY <1>5, <5>2
        <4>2. CASE i - old # 0
          <5>1. i - old \in 1..k - 1 /\ i - old \in 1..k /\ i - old + old = i
            BY <2>0, <4>2
          <5> QED
            BY <1>6, <3>3, <5>1
        <4> QED
          BY <4>1, <4>2
      <3> QED
        BY <1>0, <1>4, <2>5, <3>1, <3>2, <3>3 DEF Retention
    <2>6. kept # << >> /\ \A n \in Outputs' : n <= kept[k]
      <3>1. \A n \in Outputs : n \in Nat /\ n <= len
        BY <1>0, ServerTypes DEF len
      <3>2. kept # << >>
        BY <1>6
      <3> QED
        BY <1>0, <1>4, <1>6, <3>1, <3>2
    <2> HIDE DEF k
    <2> QED
      BY <1>7, <2>3, <2>4, <2>5, <2>6 DEF Retention, k
  <1>14. UnsentGenuine'
    <2> SUFFICES ASSUME NEW u \in Tasks, task'[u] \in {"send", "sendClosed"}
                 PROVE  Genuine(unsent[u])'
      BY DEF UnsentGenuine
    <2>1. CASE u = s
      BY <1>4, <2>1
    <2>2. CASE u # s
      <3>1. task'[u] = task[u] /\ unsent'[u] = unsent[u]
        BY <1>4, <2>2 DEF TypeServer
      <3>2. Genuine(unsent[u])
        BY <3>1 DEF UnsentGenuine
      <3> QED
        BY <1>10, <3>1, <3>2 DEF Growth, Genuine, Ev
    <2> QED
      BY <2>1, <2>2
  <1> QED
    BY <1>8, <1>10, <1>12, <1>13, <1>14 DEF ServerStep, ServerInv

LEMMA UnsentKept ==
    ASSUME TypeServer, UnsentGenuine, Growth, NEW t \in Tasks, NEW place,
           task' = [task EXCEPT ![t] = place],
           \A u \in Tasks : u # t => unsent'[u] = unsent[u],
           place \in {"send", "sendClosed"} => Genuine(unsent[t])'
    PROVE  UnsentGenuine'
  <1> SUFFICES ASSUME NEW u \in Tasks, task'[u] \in {"send", "sendClosed"}
               PROVE  Genuine(unsent[u])'
    BY DEF UnsentGenuine
  <1>1. CASE u = t
    BY <1>1 DEF TypeServer
  <1>2. CASE u # t
    <2>1. task'[u] = task[u] /\ unsent'[u] = unsent[u]
      BY <1>2 DEF TypeServer
    <2>2. Genuine(unsent[u])
      BY <2>1 DEF UnsentGenuine
    <2> QED
      BY <2>1, <2>2 DEF Growth, Genuine, Ev
  <1> QED
    BY <1>1, <1>2

\* An event that is no output: the exit, or the end of everything.
LEMMA OtherEventStep ==
    ASSUME TypeServer, ServerInv, UnsentGenuine, NEW t \in Tasks,
           NEW k \in {"exited", "closed"}, NEW place \in {"send", "sendClosed"},
           Number(t, k, place),
           proc' = IF k = "exited" THEN [proc EXCEPT !.next = @ + 1, !.exit = TRUE]
                   ELSE [proc EXCEPT !.next = @ + 1, !.closed = TRUE],
           k = "exited" => t = "exit" /\ ~proc.exit,
           k = "closed" => ~proc.closed /\ proc.exit /\ proc.open = 0
                           /\ task[t] = "close" /\ place = "sendClosed",
           UNCHANGED << entry, evicted >>
    PROVE  ServerStep
  <1> DEFINE len == Len(assigned)
  <1>0. len \in Nat /\ Numbering /\ Retention /\ ~proc.closed
    BY ServerTypes DEF ServerInv, Numbering
  <1>1. len < MaxSeq
    BY <1>0, RoomForOne
  <1>2. /\ unsent' \in [Tasks -> Event]
        /\ task' \in [Tasks -> {"run", "send", "close", "sendClosed", "done"}]
        /\ task' = [task EXCEPT ![t] = place]
        /\ assigned' \in Seq({"output", "exited", "closed"})
        /\ Len(assigned') = len + 1
        /\ \A n \in 1..len : assigned'[n] = assigned[n]
        /\ assigned'[len + 1] = k
        /\ proc.next = len + 1 /\ proc.next \in Seqs
        /\ Genuine(unsent[t])'
        /\ \A u \in Tasks : u # t => unsent'[u] = unsent[u]
        /\ Outputs' = Outputs
    BY <1>0, <1>1, NumberStep
  <1>3. /\ proc'.next = proc.next + 1 /\ proc'.output = proc.output
        /\ proc'.exit = (proc.exit \/ k = "exited")
        /\ proc'.closed = (k = "closed")
        /\ proc'.open = proc.open
    BY <1>0 DEF TypeServer
  <1>4. TypeServer'
    <2>1. proc.next + 1 \in 1..MaxSeq + 1
      BY <1>0, <1>1, <1>2, Bounds
    <2>2. proc' \in [next : 1..MaxSeq + 1, output : Seq(Seqs), exit : BOOLEAN,
                     open : 0..Cardinality(Streams), closed : BOOLEAN]
      BY <2>1 DEF TypeServer
    <2> QED
      BY <1>2, <1>3, <2>2 DEF TypeServer
  <1>5. Growth
    BY <1>0, <1>2 DEF Growth
  <1>6. OpenStreams' = OpenStreams
    <2>1. t \in Streams => (task[t] \in {"run", "send"} <=> place \in {"run", "send"})
      OBVIOUS
    <2> QED
      BY <1>2, <2>1, OpenKept
  <1>7. Numbering'
    <2>1. Cardinality(Outputs) \in Nat
      BY ServerTypes
    <2>2. proc'.next = Len(assigned') + 1
      BY <1>0, <1>2, <1>3
    <2>3. /\ Cardinality(Outputs') <= MaxChunks
          /\ Len(assigned') =
                Cardinality(Outputs') + One(proc'.exit) + One(proc'.closed)
      BY <1>0, <1>2, <1>3, <2>1 DEF Numbering, One
    <2>4. proc'.exit <=> task'["exit"] # "run"
      <3>1. "exit" \in Tasks
        BY DEF Tasks
      <3> QED
        BY <1>0, <1>2, <1>3, <3>1 DEF Numbering, TypeServer
    <2>5. /\ proc'.open = Cardinality(OpenStreams')
          /\ proc'.closed => proc'.exit /\ proc'.open = 0
      BY <1>0, <1>3, <1>6 DEF Numbering
    <2>6. \A n \in 1..Len(assigned') :
             assigned'[n] = "closed" => proc'.closed /\ n = Len(assigned')
      <3> TAKE n \in 1..Len(assigned')
      <3>1. n \in 1..len \/ n = len + 1
        BY <1>0, <1>2
      <3> QED
        BY <1>0, <1>2, <1>3, <3>1 DEF Numbering
    <2> QED
      BY <2>2, <2>3, <2>4, <2>5, <2>6 DEF Numbering, One
  <1>8. Retention'
    BY <1>0, <1>2, <1>3 DEF Retention
  <1>9. UnsentGenuine'
    BY <1>2, <1>5, UnsentKept
  <1> QED
    BY <1>4, <1>5, <1>7, <1>8, <1>9 DEF ServerStep, ServerInv

LEMMA ExitsStep ==
    ASSUME TypeServer, ServerInv, UnsentGenuine, Exits
    PROVE  ServerStep
  <1>1. "exit" \in Tasks
    BY DEF Tasks
  <1>2. ~proc.exit
    BY DEF Exits, ServerInv, Numbering
  <1> QED
    BY <1>1, <1>2, OtherEventStep DEF Exits

\* The steps that number nothing.
LEMMA QuietStep ==
    ASSUME TypeServer, ServerInv, UnsentGenuine, TypeServer', NEW t \in Tasks, NEW place,
           task' = [task EXCEPT ![t] = place],
           place \notin {"send", "sendClosed"},
           t = "exit" => task[t] # "run" /\ place # "run",
           t \in Streams =>
             (task[t] \in {"run", "send"} <=> place \in {"run", "send"}),
           UNCHANGED << proc, assigned, evicted >>,
           \A u \in Tasks : u # t => unsent'[u] = unsent[u]
    PROVE  ServerStep
  <1>1. OpenStreams' = OpenStreams /\ Outputs' = Outputs
    BY OpenKept DEF Outputs
  <1>2. Growth
    BY DEF Growth, ServerInv, Numbering
  <1>3. UnsentGenuine'
    BY <1>2, UnsentKept
  <1>4. (task'["exit"] # "run") <=> (task["exit"] # "run")
    <2>1. "exit" \in Tasks
      BY DEF Tasks
    <2> QED
      BY <2>1 DEF TypeServer
  <1>5. Numbering'
    BY <1>1, <1>4 DEF ServerInv, Numbering
  <1>6. Retention'
    BY <1>1 DEF ServerInv, Retention
  <1> QED
    BY <1>2, <1>3, <1>5, <1>6 DEF ServerStep, ServerInv

LEMMA StreamEndsStep ==
    ASSUME TypeServer, ServerInv, UnsentGenuine, NEW s \in Streams, StreamEnds(s)
    PROVE  ServerStep
  <1>0. s \in Tasks /\ s # "exit" /\ "exit" \in Tasks /\ task[s] = "run"
    BY DEF Tasks, StreamEnds
  <1>1. /\ task' = [task EXCEPT ![s] = "close"]
        /\ proc' = [proc EXCEPT !.open = @ - 1]
        /\ UNCHANGED << entry, unsent, assigned, evicted >>
    BY DEF StreamEnds, history
  <1>2. /\ task'[s] = "close" /\ \A u \in Tasks : u # s => task'[u] = task[u]
        /\ task' \in [Tasks -> {"run", "send", "close", "sendClosed", "done"}]
    BY <1>0, <1>1 DEF TypeServer
  <1>3. OpenStreams' = OpenStreams \ {s} /\ s \in OpenStreams
    <2>1. \A u \in Streams : u \in Tasks
      BY DEF Tasks
    <2>2. \A u \in Streams : u \in OpenStreams' <=> u \in OpenStreams /\ u # s
      BY <1>0, <1>2, <2>1 DEF OpenStreams
    <2> QED
      BY <1>0, <2>2 DEF OpenStreams
  <1>4. /\ IsFiniteSet(OpenStreams) /\ Cardinality(OpenStreams) \in Nat
        /\ Cardinality(OpenStreams) <= Cardinality(Streams)
        /\ Cardinality(Streams) \in Nat
    <2>1. OpenStreams \subseteq Streams
      BY DEF OpenStreams
    <2>2. IsFiniteSet(OpenStreams) /\ Cardinality(OpenStreams) <= Cardinality(Streams)
      BY <2>1, FS_Subset
    <2> QED
      BY <2>2, FS_CardinalityType
  <1>5. Cardinality(OpenStreams') = Cardinality(OpenStreams) - 1
    BY <1>3, <1>4, FS_RemoveElement
  <1>6. Cardinality(OpenStreams) # 0
    BY <1>3, <1>4, FS_EmptySet
  <1>7. /\ proc'.open = proc.open - 1 /\ proc'.next = proc.next
        /\ proc'.output = proc.output /\ proc'.exit = proc.exit
        /\ proc'.closed = proc.closed
    BY <1>1 DEF TypeServer
  <1>8. proc.open = Cardinality(OpenStreams)
    BY DEF ServerInv, Numbering
  <1>9. TypeServer'
    <2>1. proc.open - 1 \in 0..Cardinality(Streams)
      BY <1>4, <1>6, <1>8
    <2>2. proc' \in [next : 1..MaxSeq + 1, output : Seq(Seqs), exit : BOOLEAN,
                     open : 0..Cardinality(Streams), closed : BOOLEAN]
      BY <1>1, <2>1 DEF TypeServer
    <2> QED
      BY <1>1, <1>2, <1>7, <2>2 DEF TypeServer
  <1>10. ~proc.closed
    BY <1>6, <1>8 DEF ServerInv, Numbering
  <1>11. Growth
    BY <1>1, <1>10 DEF Growth
  <1>12. Outputs' = Outputs /\ task'["exit"] = task["exit"]
    BY <1>0, <1>1, <1>2 DEF Outputs
  <1>13. Numbering'
    BY <1>1, <1>5, <1>7, <1>8, <1>10, <1>12 DEF ServerInv, Numbering
  <1>14. Retention'
    BY <1>1, <1>7, <1>12 DEF ServerInv, Retention
  <1>15. UnsentGenuine'
    BY <1>0, <1>1, <1>11, UnsentKept
  <1> QED
    BY <1>9, <1>11, <1>13, <1>14, <1>15 DEF ServerStep, ServerInv

LEMMA SendNotificationStep ==
    ASSUME TypeServer, ServerInv, UnsentGenuine, NEW t \in Tasks, SendNotification(t)
    PROVE  ServerStep
  <1> DEFINE place == IF task[t] = "sendClosed" THEN "done"
                      ELSE IF t = "exit" THEN "close" ELSE "run"
  <1>1. /\ task' = [task EXCEPT ![t] = place] /\ task[t] \in {"send", "sendClosed"}
        /\ unsent' = [unsent EXCEPT ![t] = Failed]
        /\ UNCHANGED << entry, proc, assigned, evicted >>
    BY DEF SendNotification, history
  <1>2. Failed \in Event
    BY DEF Failed, Event
  <1>3. TypeServer' /\ \A u \in Tasks : u # t => unsent'[u] = unsent[u]
    BY <1>1, <1>2 DEF TypeServer
  <1>4. /\ place \notin {"send", "sendClosed"}
        /\ t = "exit" => task[t] # "run" /\ place # "run"
    BY <1>1
  <1>5. CASE task[t] = "send"
    <2>1. t \in Streams => place = "run"
      BY <1>5
    <2> HIDE DEF place
    <2> QED
      BY <1>1, <1>3, <1>4, <1>5, <2>1, QuietStep
  <1>6. CASE task[t] = "sendClosed"
    <2>1. place = "done"
      BY <1>6
    <2> HIDE DEF place
    <2> QED
      BY <1>1, <1>3, <1>4, <1>6, <2>1, QuietStep
  <1> QED
    BY <1>1, <1>5, <1>6

LEMMA MaybeEmitClosedStep ==
    ASSUME TypeServer, ServerInv, UnsentGenuine, NEW t \in Tasks, MaybeEmitClosed(t)
    PROVE  ServerStep
  <1> DEFINE closes == ~proc.closed /\ proc.open = 0 /\ proc.exit
  <1>1. task[t] = "close" /\ UNCHANGED << entry, evicted >>
    BY DEF MaybeEmitClosed
  <1>2. CASE closes
    <2>1. /\ proc' = [proc EXCEPT !.next = @ + 1, !.closed = TRUE]
          /\ Number(t, "closed", "sendClosed")
      BY <1>2 DEF MaybeEmitClosed
    <2> QED
      BY <1>1, <1>2, <2>1, OtherEventStep
  <1>3. CASE ~closes
    <2>1. /\ task' = [task EXCEPT ![t] = "done"] /\ UNCHANGED << proc, unsent, assigned >>
      BY <1>3 DEF MaybeEmitClosed
    <2>2. TypeServer'
      BY <1>1, <2>1 DEF TypeServer
    <2> QED
      BY <1>1, <2>1, <2>2, QuietStep
  <1> QED
    BY <1>2, <1>3

LEMMA ServerUnchanged ==
    ASSUME TypeServer, ServerInv, UnsentGenuine, entry' \in {"none", "running", "gone"},
           UNCHANGED << proc, task, unsent, assigned, evicted >>
    PROVE  ServerStep
  <1>1. OpenStreams' = OpenStreams /\ Outputs' = Outputs
    BY DEF OpenStreams, Outputs
  <1>2. TypeServer'
    BY DEF TypeServer
  <1>3. Growth /\ UnsentGenuine'
    BY DEF Growth, UnsentGenuine, Genuine, Ev, ServerInv, Numbering
  <1>4. Numbering' /\ Retention'
    BY <1>1 DEF ServerInv, Numbering, Retention
  <1> QED
    BY <1>2, <1>3, <1>4 DEF ServerStep, ServerInv

-----------------------------------------------------------------------------
(* The client                                                              *)

LEMMA ClientTypes ==
    ASSUME TypeClient
    PROVE  /\ Len(inbox) \in Nat /\ Len(log) \in Nat
           /\ ordered.last \in 0..MaxSeq /\ ordered.last \in Nat
           /\ ordered.pending \subseteq Event
           /\ \A i \in 1..Len(log) : log[i] \in Event
           /\ \A i \in 1..Len(inbox) : inbox[i] \in Event \cup {Disconnected}
  BY LenProperties, ElementOfSeq, Bounds DEF TypeClient

LEMMA EventTypes ==
    /\ Failed \in Event /\ Failed.seq = 0 /\ Failed.kind = "failed"
    /\ \A e \in Event : e.seq \in 0..MaxSeq /\ e.seq \in Nat
    /\ \A e \in Event : e.kind \in {"output", "exited", "closed", "failed"}
    /\ \A e \in Event : e.kind = "failed" <=> e = Failed
  BY Bounds DEF Failed, Event

\* A genuine event is determined by its number, and it is not the failure.
LEMMA GenuineFacts ==
    ASSUME TypeServer, NEW e, Genuine(e)
    PROVE  /\ e.seq \in 1..Len(assigned) /\ e.seq \in Nat /\ e = Ev(e.seq)
           /\ e.kind = assigned[e.seq] /\ e.kind \in {"output", "exited", "closed"}
           /\ e # Failed /\ e # Disconnected
           /\ e.kind = "output" => e.seq \in Outputs
           /\ e.kind = "closed" /\ Numbering => proc.closed /\ e.seq = Len(assigned)
  <1>1. /\ Len(assigned) \in Nat /\ DOMAIN assigned = 1..Len(assigned)
        /\ \A n \in 1..Len(assigned) :
              assigned[n] \in {"output", "exited", "closed"}
    BY ServerTypes
  <1>2. e.seq \in 1..Len(assigned) /\ e = Ev(e.seq) /\ e.kind = assigned[e.seq]
    BY DEF Genuine, Ev
  <1>3. e.seq \in Nat /\ e.seq # 0
    BY <1>1, <1>2
  <1>4. Failed.seq = 0 /\ Disconnected.seq = 0
    BY DEF Failed, Disconnected
  <1> QED
    BY <1>1, <1>2, <1>3, <1>4 DEF Outputs, Numbering

\* publish_ordered_event gives out the events that follow the last one, with
\* no gap, and keeps the others.
LEMMA PublishFacts ==
    ASSUME TypeServer, TypeClient, PendingGenuine, NEW e \in Event, Genuine(e)
    PROVE  LET p == PublishOrdered(e)
           IN  /\ p.last \in 0..MaxSeq /\ ordered.last <= p.last
               /\ p.last <= Len(assigned)
               /\ p.pending \subseteq Event
               /\ \A h \in p.pending : Genuine(h) /\ h.seq > p.last
               /\ p.ready \in Seq(Event)
               /\ Len(p.ready) = p.last - ordered.last
               /\ \A i \in 1..Len(p.ready) : p.ready[i] = Ev(ordered.last + i)
  <1> DEFINE last == ordered.last
             held == ordered.pending \cup {e}
             Has(n) == \E h \in held : h.seq = n
             upto == CHOOSE n \in last..MaxSeq :
                        (\A i \in last + 1..n : Has(i)) /\ ~Has(n + 1)
             ready == [i \in 1..upto - last |-> CHOOSE h \in held : h.seq = last + i]
  <1>0. /\ last \in Nat /\ last <= MaxSeq /\ MaxSeq \in Nat /\ last <= Len(assigned)
        /\ Len(assigned) \in Nat /\ ordered.pending \subseteq Event
    BY ServerTypes, ClientTypes, Bounds DEF PendingGenuine
  <1>1. \A h \in held : /\ h \in Event /\ Genuine(h) /\ h.seq \in Nat
                        /\ h.seq <= MaxSeq /\ h.seq <= Len(assigned)
    <2> TAKE h \in held
    <2>1. h \in Event /\ Genuine(h)
      BY <1>0 DEF PendingGenuine
    <2>2. h.seq \in 0..MaxSeq /\ h.seq \in 1..Len(assigned)
      BY <2>1, EventTypes, GenuineFacts
    <2> QED
      BY <1>0, <2>1, <2>2
  <1>2. CASE e.seq <= last
    <2>1. PublishOrdered(e) =
             [last |-> last, pending |-> ordered.pending, ready |-> << >>]
      BY <1>2 DEF PublishOrdered
    <2>2. << >> \in Seq(Event) /\ Len(<< >>) = 0 /\ last - last = 0
      BY <1>0
    <2> QED
      BY <1>0, <2>1, <2>2 DEF PendingGenuine
  <1>3. CASE ~(e.seq <= last)
    <2>1. PublishOrdered(e) =
             [last |-> upto, pending |-> {h \in held : h.seq > upto}, ready |-> ready]
      BY <1>3 DEF PublishOrdered
    <2>2. \E n \in last..MaxSeq : (\A i \in last + 1..n : Has(i)) /\ ~Has(n + 1)
      <3> DEFINE T == {n \in Nat : last <= n /\ ~Has(n + 1)}
      <3>1. MaxSeq \in T /\ T \subseteq Nat
        BY <1>0, <1>1
      <3>2. PICK n \in T : \A m \in T : n <= m
        BY <3>1, LeastNumber
      <3>3. n \in last..MaxSeq /\ ~Has(n + 1)
        BY <1>0, <3>1, <3>2
      <3>4. ASSUME NEW i \in last + 1..n PROVE Has(i)
        <4>1. i - 1 \in Nat /\ last <= i - 1 /\ i - 1 < n /\ i - 1 + 1 = i
          BY <1>0, <3>3
        <4>2. i - 1 \notin T
          BY <1>0, <3>2, <3>3, <4>1
        <4> QED
          BY <4>1, <4>2
      <3> HIDE DEF T
      <3> QED
        BY <3>3, <3>4
    <2>3. upto \in last..MaxSeq /\ \A i \in last + 1..upto : Has(i)
      BY <2>2
    <2> HIDE DEF upto
    <2>4. upto \in Nat /\ last <= upto /\ upto <= MaxSeq /\ upto <= Len(assigned)
      <3>1. upto \in Nat /\ last <= upto /\ upto <= MaxSeq
        BY <1>0, <2>3
      <3>2. upto = last \/ Has(upto)
        BY <1>0, <2>3, <3>1
      <3> QED
        BY <1>0, <1>1, <3>1, <3>2
    <2>5. ASSUME NEW i \in 1..upto - last
          PROVE  ready[i] = Ev(last + i) /\ ready[i] \in Event
      <3>1. last + i \in last + 1..upto
        BY <1>0, <2>4
      <3>2. \E h \in held : h.seq = last + i
        BY <2>3, <3>1
      <3>3. ready[i] = CHOOSE h \in held : h.seq = last + i
        OBVIOUS
      <3> HIDE DEF held, ready
      <3>4. ready[i] \in held /\ ready[i].seq = last + i
        BY <3>2, <3>3
      <3>5. ready[i] = Ev(ready[i].seq)
        BY <1>1, <3>4 DEF Genuine
      <3> QED
        BY <1>1, <3>4, <3>5
    <2> DEFINE m == upto - last
    <2>6. m \in Nat
      BY <1>0, <2>4
    <2>7. ready \in Seq(Event) /\ Len(ready) = m
      <3>1. ready \in [1..m -> Event]
        BY <2>5
      <3> HIDE DEF ready, m
      <3> QED
        BY <2>6, <3>1
    <2> HIDE DEF ready
    <2>8. \A h \in {g \in held : g.seq > upto} : h \in Event /\ Genuine(h) /\ h.seq > upto
      BY <1>1
    <2> HIDE DEF held
    <2> QED
      BY <1>0, <2>1, <2>4, <2>5, <2>7, <2>8
  <1> QED
    BY <1>2, <1>3

LogGrows ==
    Len(log) <= Len(log') /\ \A i \in 1..Len(log) : log'[i] = log[i]

LEMMA PublishedKept ==
    ASSUME TypeServer, TypeClient, Growth, PendingGenuine, Published,
           UNCHANGED << ordered, log >>
    PROVE  PendingGenuine' /\ Published' /\ LogGrows
  <1>1. ordered.last \in Nat /\ Len(assigned) \in Nat /\ Len(log) \in Nat
    BY ServerTypes, ClientTypes
  <1>2. \A n \in 1..Len(assigned) : Ev(n)' = Ev(n)
    BY DEF Growth, Ev
  <1>3. \A x : Genuine(x) => Genuine(x)'
    BY GenuineKept
  <1>4. ordered.last <= Len(assigned) /\ Len(assigned) <= Len(assigned')
    BY DEF Growth, PendingGenuine
  <1>5. Len(assigned') >= ordered.last
    <2>1. CASE proc.closed
      BY <1>4, <2>1 DEF Growth
    <2> QED
      BY <1>1, <1>4 DEF Growth
  <1>6. PendingGenuine'
    BY <1>3, <1>5 DEF PendingGenuine
  <1>7. \A n \in 1..ordered.last : Ev(n)' = Ev(n)
    BY <1>1, <1>2, <1>4
  <1>8. Published'
    BY <1>3, <1>7 DEF Published
  <1> QED
    BY <1>1, <1>6, <1>8 DEF LogGrows

ClientInv == TypeClient /\ InboxGenuine /\ PendingGenuine /\ Published
ClientStep == ClientInv' /\ LogGrows

LEMMA LogPublishes ==
    ASSUME TypeServer, TypeClient, PendingGenuine, Published, NEW ready \in Seq(Event),
           UNCHANGED assigned, log' = log \o ready,
           ordered'.last = ordered.last + Len(ready),
           ordered'.last <= Len(assigned),
           \A i \in 1..Len(ready) : ready[i] = Ev(ordered.last + i)
    PROVE  Published' /\ LogGrows /\ log' \in Seq(Event)
  <1> DEFINE m == Len(log)
             last == ordered.last
             r == Len(ready)
  <1>0. m \in Nat /\ r \in Nat /\ last \in Nat /\ Len(assigned) \in Nat
    BY ServerTypes, ClientTypes, LenProperties
  <1>1. /\ log' \in Seq(Event) /\ Len(log') = m + r
        /\ \A i \in 1..m : log'[i] = log[i]
        /\ \A i \in 1..r : log'[m + i] = ready[i]
    <2>1. log \in Seq(Event)
      BY DEF TypeClient
    <2>2. /\ log \o ready \in Seq(Event) /\ Len(log \o ready) = m + r
          /\ \A i \in 1..m + r :
                (log \o ready)[i] = IF i <= m THEN log[i] ELSE ready[i - m]
      BY <2>1, ConcatProperties
    <2>3. \A i \in 1..m : i \in 1..m + r /\ i <= m
      BY <1>0
    <2>4. \A i \in 1..r : m + i \in 1..m + r /\ ~(m + i <= m) /\ m + i - m = i
      BY <1>0
    <2> QED
      BY <2>2, <2>3, <2>4
  <1>2. \A i \in 1..m + r : i \in 1..m \/ (i - m \in 1..r /\ m + (i - m) = i)
    BY <1>0
  <1>3. \A n \in 1..Len(assigned) : Ev(n)' = Ev(n) /\ Ev(n).seq = n
    BY DEF Ev
  <1>4. \A i \in 1..r : /\ last + i \in 1..Len(assigned) /\ last < last + i
                        /\ last + i <= last + r
    BY <1>0
  <1>5. \A x : Genuine(x) => Genuine(x)'
    BY DEF Genuine, Ev
  <1>6. \A i \in 1..r : /\ log'[m + i] = Ev(last + i) /\ log'[m + i].seq = last + i
                        /\ Genuine(log'[m + i])
    BY <1>1, <1>3, <1>4 DEF Genuine
  <1>7. \A i \in 1..m : /\ log'[i] = log[i] /\ log[i].seq \in Nat
                        /\ log[i].seq <= last
                        /\ log[i] = Failed \/ Genuine(log[i])
    BY <1>1, ClientTypes, EventTypes DEF Published
  <1> HIDE DEF m, r, last
  <1>8. \A i \in 1..Len(log') : log'[i] = Failed \/ Genuine(log'[i])
    <2> TAKE i \in 1..Len(log')
    <2>1. CASE i \in 1..m
      BY <1>7, <2>1
    <2>2. CASE i - m \in 1..r /\ m + (i - m) = i
      BY <1>6, <2>2
    <2> QED
      BY <1>1, <1>2, <2>1, <2>2
  <1>9. \A i \in 1..Len(log') : log'[i].seq <= last + r
    <2> TAKE i \in 1..Len(log')
    <2>1. CASE i \in 1..m
      <3>1. log'[i].seq \in Nat /\ log'[i].seq <= last
        BY <1>7, <2>1
      <3> QED
        BY <1>0, <3>1
    <2>2. CASE i - m \in 1..r /\ m + (i - m) = i
      BY <1>4, <1>6, <2>2
    <2> QED
      BY <1>1, <1>2, <2>1, <2>2
  <1>10. \A n \in 1..last + r : \E i \in 1..Len(log') : log'[i] = Ev(n)
    <2> TAKE n \in 1..last + r
    <2>1. CASE n \in 1..last
      <3>1. PICK i \in 1..m : log[i] = Ev(n)
        BY <2>1 DEF Published, m, last
      <3>2. i \in 1..Len(log')
        BY <1>0, <1>1
      <3> QED
        BY <1>1, <3>1, <3>2
    <2>2. CASE n \notin 1..last
      <3>1. n - last \in 1..r /\ last + (n - last) = n
        BY <1>0, <2>2
      <3>2. m + (n - last) \in 1..Len(log')
        BY <1>0, <1>1, <3>1
      <3> QED
        BY <1>6, <3>1, <3>2
    <2> QED
      BY <2>1, <2>2
  <1>11. ASSUME NEW i \in 1..Len(log'), NEW j \in 1..Len(log'), i < j,
                log'[i] # Failed, log'[j] # Failed
         PROVE  log'[i].seq < log'[j].seq
    <2>1. CASE i \in 1..m /\ j \in 1..m
      BY <1>7, <1>11, <2>1 DEF Published, m
    <2>2. CASE i \in 1..m /\ j - m \in 1..r /\ m + (j - m) = j
      <3>1. log'[i].seq \in Nat /\ log'[i].seq <= last
        BY <1>7, <2>2
      <3>2. j - m \in Nat /\ j - m >= 1
        BY <1>0, <2>2
      <3>3. log'[m + (j - m)].seq = last + (j - m)
        BY <1>6, <2>2
      <3>4. log'[j].seq = last + (j - m)
        BY <2>2, <3>3
      <3>5. \A a, b, c \in Nat : a <= b /\ c >= 1 => a < b + c
        OBVIOUS
      <3> DEFINE a == log'[i].seq
                 c == j - m
      <3>6. a \in Nat /\ a <= last /\ c \in Nat /\ c >= 1 /\ log'[j].seq = last + c
        BY <3>1, <3>2, <3>4
      <3> HIDE DEF a, c
      <3>7. a < log'[j].seq
        BY ONLY <1>0, <3>5, <3>6
      <3> QED
        BY <3>7 DEF a
    <2>3. CASE i - m \in 1..r /\ m + (i - m) = i /\ j - m \in 1..r /\ m + (j - m) = j
      <3>1. last + (i - m) < last + (j - m)
        BY <1>0, <1>11, <2>3
      <3> QED
        BY <1>6, <2>3, <3>1
    <2>4. CASE i - m \in 1..r /\ j \in 1..m
      BY <1>0, <1>11, <2>4
    <2> QED
      BY <1>1, <1>2, <2>1, <2>2, <2>3, <2>4
  <1>12. \A n \in 1..last + r : Ev(n)' = Ev(n)
    BY <1>0, <1>3 DEF last, r
  <1>13. Published'
    <2>1. ordered'.last = last + r
      BY DEF last, r
    <2>2. \A i \in 1..Len(log') : log'[i] = Failed \/ Genuine(log[i])'
      BY <1>5, <1>8 DEF Genuine, Ev
    <2> QED
      BY <1>9, <1>10, <1>11, <1>12, <2>1, <2>2 DEF Published
  <1>14. LogGrows
    BY <1>0, <1>1 DEF LogGrows, m
  <1> QED
    BY <1>1, <1>13, <1>14

LEMMA LogFails ==
    ASSUME TypeServer, TypeClient, PendingGenuine, Published,
           UNCHANGED << assigned, ordered >>,
           log' = log \/ log' = Append(log, Failed)
    PROVE  Published' /\ PendingGenuine' /\ LogGrows /\ log' \in Seq(Event)
  <1> DEFINE m == Len(log)
  <1>0. m \in Nat /\ log \in Seq(Event) /\ ordered.last \in Nat
        /\ Len(assigned) \in Nat
    BY ServerTypes, ClientTypes DEF TypeClient
  <1>1. \A x : (Genuine(x)' <=> Genuine(x)) /\ Ev(x)' = Ev(x)
    BY DEF Genuine, Ev
  <1>2. PendingGenuine'
    BY <1>1 DEF PendingGenuine
  <1>3. CASE log' = log
    <2>1. Published'
      BY <1>1, <1>3 DEF Published
    <2> QED
      BY <1>0, <1>2, <1>3, <2>1 DEF LogGrows
  <1>4. CASE log' = Append(log, Failed)
    <2>1. /\ log' \in Seq(Event) /\ Len(log') = m + 1
          /\ \A i \in 1..m : log'[i] = log[i]
          /\ log'[m + 1] = Failed
      BY <1>0, <1>4, AppendProperties, EventTypes
    <2>2. \A i \in 1..m + 1 : i \in 1..m \/ i = m + 1
      BY <1>0
    <2>3. \A i \in 1..m : i \in 1..m + 1
      BY <1>0
    <2>4. Failed.seq <= ordered.last
      BY <1>0, EventTypes
    <2> HIDE DEF m
    <2>5. \A i \in 1..Len(log') : log'[i] = Failed \/ Genuine(log[i])'
      BY <1>1, <2>1, <2>2 DEF Published, Genuine, Ev, m
    <2>6. \A i \in 1..Len(log') : log'[i].seq <= ordered.last
      BY <2>1, <2>2, <2>4 DEF Published, m
    <2>7. \A n \in 1..ordered.last : \E i \in 1..Len(log') : log'[i] = Ev(n)
      <3> TAKE n \in 1..ordered.last
      <3>1. PICK i \in 1..m : log[i] = Ev(n)
        BY DEF Published, m
      <3> QED
        BY <2>1, <2>3, <3>1
    <2>8. \A i, j \in 1..Len(log') :
             i < j /\ log'[i] # Failed /\ log'[j] # Failed => log'[i].seq < log'[j].seq
      <3> SUFFICES ASSUME NEW i \in 1..Len(log'), NEW j \in 1..Len(log'), i < j,
                          log'[i] # Failed, log'[j] # Failed
                   PROVE  log'[i].seq < log'[j].seq
        OBVIOUS
      <3>1. i \in 1..m /\ j \in 1..m
        BY <2>1, <2>2
      <3> QED
        BY <2>1, <3>1 DEF Published, m
    <2>9. Published'
      BY <1>1, <2>5, <2>6, <2>7, <2>8 DEF Published
    <2> QED
      BY <1>0, <1>2, <2>1, <2>9 DEF LogGrows, m
  <1> QED
    BY <1>3, <1>4

LEMMA InboxKept ==
    ASSUME Growth, InboxGenuine, UNCHANGED inbox
    PROVE  InboxGenuine'
  BY GenuineKept DEF InboxGenuine

LEMMA ClientUnchanged ==
    ASSUME TypeServer, ClientInv, Growth, UNCHANGED << inbox, ordered, log >>,
           TypeClient'
    PROVE  ClientStep
  <1>1. PendingGenuine' /\ Published' /\ LogGrows
    BY PublishedKept DEF ClientInv
  <1>2. InboxGenuine'
    BY InboxKept DEF ClientInv
  <1> QED
    BY <1>1, <1>2 DEF ClientInv, ClientStep

LEMMA SendToInbox ==
    ASSUME TypeServer, UnsentGenuine, ClientInv, Growth, NEW t \in Tasks,
           SendNotification(t)
    PROVE  ClientStep
  <1>1. /\ inbox' = Append(inbox, unsent[t]) /\ task[t] \in {"send", "sendClosed"}
        /\ UNCHANGED << broken, latched, reader, session, ordered, log, failure, woken >>
    BY DEF SendNotification, client
  <1>2. unsent[t] \in Event /\ Genuine(unsent[t])
    BY <1>1 DEF TypeServer, UnsentGenuine
  <1>3. inbox \in Seq(Event \cup {Disconnected}) /\ Len(inbox) \in Nat
    BY ClientTypes DEF ClientInv, TypeClient
  <1>4. /\ inbox' \in Seq(Event \cup {Disconnected}) /\ Len(inbox') = Len(inbox) + 1
        /\ \A i \in 1..Len(inbox) : inbox'[i] = inbox[i]
        /\ inbox'[Len(inbox) + 1] = unsent[t]
    BY <1>1, <1>2, <1>3, AppendProperties
  <1>5. TypeClient'
    BY <1>1, <1>4 DEF TypeClient, ClientInv
  <1>6. InboxGenuine'
    <2>1. \A i \in 1..Len(inbox') : i \in 1..Len(inbox) \/ i = Len(inbox) + 1
      BY <1>3, <1>4
    <2>2. \A i \in 1..Len(inbox') : inbox'[i] = Disconnected \/ Genuine(inbox'[i])
      BY <1>2, <1>4, <2>1 DEF InboxGenuine, ClientInv
    <2> QED
      BY <2>2, GenuineKept DEF InboxGenuine, Genuine, Ev, Growth
  <1>7. PendingGenuine' /\ Published' /\ LogGrows
    BY <1>1, PublishedKept DEF ClientInv
  <1> QED
    BY <1>5, <1>6, <1>7 DEF ClientInv, ClientStep

LEMMA TailOfInbox ==
    ASSUME TypeServer, ClientInv, inbox # << >>, inbox' = Tail(inbox), UNCHANGED assigned
    PROVE  /\ inbox' \in Seq(Event \cup {Disconnected}) /\ InboxGenuine'
           /\ Head(inbox) = inbox[1] /\ 1 \in 1..Len(inbox)
           /\ Head(inbox) # Disconnected => Head(inbox) \in Event /\ Genuine(Head(inbox))
  <1>1. inbox \in Seq(Event \cup {Disconnected}) /\ Len(inbox) \in Nat
    BY ClientTypes DEF ClientInv, TypeClient
  <1>2. /\ inbox' \in Seq(Event \cup {Disconnected}) /\ Len(inbox') = Len(inbox) - 1
        /\ \A i \in 1..Len(inbox) - 1 : inbox'[i] = inbox[i + 1]
        /\ Head(inbox) = inbox[1] /\ Len(inbox) # 0
    BY <1>1, HeadTailProperties, EmptySeq
  <1>3. 1 \in 1..Len(inbox) /\ \A i \in 1..Len(inbox) - 1 : i + 1 \in 1..Len(inbox)
    BY <1>1, <1>2
  <1>4. \A i \in 1..Len(inbox') : inbox'[i] = Disconnected \/ Genuine(inbox'[i])
    BY <1>2, <1>3 DEF ClientInv, InboxGenuine
  <1>5. InboxGenuine'
    BY <1>4 DEF InboxGenuine, Genuine, Ev
  <1>6. Head(inbox) \in Event \cup {Disconnected}
    BY <1>2, <1>3, ClientTypes DEF ClientInv
  <1> QED
    BY <1>2, <1>3, <1>5, <1>6 DEF ClientInv, InboxGenuine

LEMMA HandleNotificationStep ==
    ASSUME TypeServer, ClientInv, HandleNotification
    PROVE  ClientStep
  <1> DEFINE e == Head(inbox)
             p == PublishOrdered(e)
  <1>0. /\ inbox # << >> /\ e # Disconnected /\ inbox' = Tail(inbox)
        /\ UNCHANGED << broken, latched, reader, failure, assigned >>
    BY DEF HandleNotification, history
  <1>1. /\ inbox' \in Seq(Event \cup {Disconnected}) /\ InboxGenuine'
        /\ e \in Event /\ Genuine(e)
    BY <1>0, TailOfInbox
  <1>2. CASE session # "registered"
    <2>1. UNCHANGED << ordered, log, session, woken >>
      BY <1>2 DEF HandleNotification
    <2>2. TypeClient'
      BY <1>0, <1>1, <2>1 DEF ClientInv, TypeClient
    <2>3. Published' /\ PendingGenuine' /\ LogGrows
      BY <1>0, <2>1, LogFails DEF ClientInv
    <2> QED
      BY <1>1, <2>2, <2>3 DEF ClientInv, ClientStep
  <1>3. CASE session = "registered"
    <2>1. /\ ordered' = [last |-> p.last, pending |-> p.pending]
          /\ log' = log \o p.ready
          /\ session' \in {"removed", session} /\ woken' = TRUE
      BY <1>3 DEF HandleNotification
    <2>2. /\ p.last \in 0..MaxSeq /\ ordered.last <= p.last
          /\ p.last <= Len(assigned)
          /\ p.pending \subseteq Event
          /\ \A h \in p.pending : Genuine(h) /\ h.seq > p.last
          /\ p.ready \in Seq(Event)
          /\ Len(p.ready) = p.last - ordered.last
          /\ \A i \in 1..Len(p.ready) : p.ready[i] = Ev(ordered.last + i)
      BY <1>1, PublishFacts DEF ClientInv
    <2> HIDE DEF p, e
    <2>3. ordered'.last = p.last /\ ordered'.pending = p.pending
      BY <2>1
    <2>4. ordered'.last = ordered.last + Len(p.ready)
      <3>1. p.last \in Nat /\ ordered.last \in Nat
        BY <2>2, ClientTypes, Bounds DEF ClientInv
      <3> QED
        BY <2>2, <2>3, <3>1
    <2>5. Published' /\ LogGrows /\ log' \in Seq(Event)
      BY <1>0, <2>1, <2>2, <2>3, <2>4, LogPublishes DEF ClientInv
    <2>6. PendingGenuine'
      BY <1>0, <2>2, <2>3 DEF PendingGenuine, Genuine, Ev
    <2>7. TypeClient'
      <3>1. ordered' \in [last : 0..MaxSeq, pending : SUBSET Event]
        BY <2>1, <2>2
      <3> QED
        BY <1>0, <1>1, <2>1, <2>5, <3>1 DEF ClientInv, TypeClient
    <2> QED
      BY <1>1, <2>5, <2>6, <2>7 DEF ClientInv, ClientStep
  <1> QED
    BY <1>2, <1>3

LEMMA LatchDisconnectStep ==
    ASSUME TypeServer, ClientInv, LatchDisconnect
    PROVE  ClientStep
  <1>1. /\ inbox # << >> /\ inbox' = Tail(inbox)
        /\ latched' = TRUE /\ reader' = "latched"
        /\ UNCHANGED << broken, session, ordered, log, failure, woken, assigned >>
    BY DEF LatchDisconnect, history
  <1>2. inbox' \in Seq(Event \cup {Disconnected}) /\ InboxGenuine'
    BY <1>1, TailOfInbox
  <1>3. Published' /\ PendingGenuine' /\ LogGrows
    BY <1>1, LogFails DEF ClientInv
  <1>4. TypeClient'
    BY <1>1, <1>2 DEF ClientInv, TypeClient
  <1> QED
    BY <1>2, <1>3, <1>4 DEF ClientInv, ClientStep

LEMMA BreakStep ==
    ASSUME TypeServer, ClientInv, Break
    PROVE  ClientStep
  <1>1. PICK n \in 0..Len(inbox) :
             inbox' = Append(SubSeq(inbox, 1, n), Disconnected)
    BY DEF Break
  <1>2. /\ broken' = TRUE
        /\ UNCHANGED << latched, reader, session, ordered, log, failure, woken, assigned >>
    BY DEF Break, client, history
  <1> DEFINE E == Event \cup {Disconnected}
             front == SubSeq(inbox, 1, n)
  <1>3. inbox \in Seq(E) /\ Len(inbox) \in Nat /\ n \in Nat
    BY ClientTypes DEF ClientInv, TypeClient
  <1>4. front \in Seq(E) /\ Len(front) = n /\ \A i \in 1..n : front[i] = inbox[i]
    <2>1. \A i \in 1..n : i \in 1..Len(inbox) /\ inbox[i] \in E
      BY <1>3, ElementOfSeq
    <2>2. n \in 1 - 1..Len(inbox) /\ 1 \in 1..Len(inbox) + 1
      BY <1>3
    <2> HIDE DEF E
    <2>3. /\ front \in Seq(E)
          /\ Len(front) = n
          /\ \A i \in 1..n : front[i] = inbox[i]
      BY <1>3, <2>1, <2>2, SubSeqProperties
    <2> QED
      BY <2>3
  <1> HIDE DEF front
  <1>5. /\ inbox' \in Seq(E) /\ Len(inbox') = n + 1
        /\ \A i \in 1..n : inbox'[i] = inbox[i]
        /\ inbox'[n + 1] = Disconnected
    <2>1. inbox' = Append(front, Disconnected) /\ Disconnected \in E
      BY <1>1 DEF front
    <2> HIDE DEF E
    <2> QED
      BY <1>4, <2>1, AppendProperties
  <1>6. InboxGenuine'
    <2>1. \A i \in 1..n + 1 : i = n + 1 \/ (i \in 1..n /\ i \in 1..Len(inbox))
      BY <1>3
    <2>2. \A i \in 1..n + 1 : inbox'[i] = Disconnected \/ Genuine(inbox'[i])
      BY <1>5, <2>1 DEF ClientInv, InboxGenuine
    <2> QED
      BY <1>2, <1>5, <2>2 DEF InboxGenuine, Genuine, Ev
  <1>7. Published' /\ PendingGenuine' /\ LogGrows
    BY <1>2, LogFails DEF ClientInv
  <1>8. TypeClient'
    BY <1>2, <1>5 DEF ClientInv, TypeClient
  <1> QED
    BY <1>6, <1>7, <1>8 DEF ClientInv, ClientStep

\* The steps that may set the failure of the session.
LEMMA FailureStep ==
    ASSUME TypeServer, ClientInv, UNCHANGED << inbox, broken, ordered, assigned >>,
           reader' \in {"run", "latched", "done"},
           session' \in {"none", "registered", "removed"}, latched' \in BOOLEAN,
           SetFailure \/ UNCHANGED << failure, log, woken >>
    PROVE  ClientStep
  <1>1. log' = log \/ log' = Append(log, Failed)
    BY DEF SetFailure
  <1>2. Published' /\ PendingGenuine' /\ LogGrows /\ log' \in Seq(Event)
    BY <1>1, LogFails DEF ClientInv
  <1>3. InboxGenuine'
    BY DEF ClientInv, InboxGenuine, Genuine, Ev
  <1>4. TypeClient'
    BY <1>2 DEF ClientInv, TypeClient, SetFailure
  <1> QED
    BY <1>2, <1>3, <1>4 DEF ClientInv, ClientStep

-----------------------------------------------------------------------------
(* The consumer                                                            *)

LEMMA ConsumerTypes ==
    ASSUME TypeConsumer
    PROVE  /\ got \in Seq(Seqs) /\ Len(got) \in Nat /\ DOMAIN got = 1..Len(got)
           /\ \A i \in 1..Len(got) : got[i] \in Seqs /\ got[i] \in Nat
           /\ cursor \in Nat /\ cursor \in 0..MaxSeq /\ pos \in Nat
           /\ replay \in Seq(Event) /\ Len(replay) \in Nat
           /\ reply.chunks \in Seq(Seqs) /\ Len(reply.chunks) \in Nat
           /\ \A i \in 1..Len(reply.chunks) : reply.chunks[i] \in Nat
           /\ reply.next \in Nat \ {0} /\ reply.closed \in BOOLEAN
           /\ reply.failure \in BOOLEAN
  <1>1. /\ reply.chunks \in Seq(Seqs) /\ reply.next \in 1..MaxSeq + 1
        /\ reply.closed \in BOOLEAN /\ reply.failure \in BOOLEAN
    BY DEF TypeConsumer, Reply
  <1>2. reply.next \in Nat \ {0}
    BY <1>1, Bounds
  <1>3. /\ got \in Seq(Seqs) /\ replay \in Seq(Event) /\ pos \in Nat
        /\ cursor \in 0..MaxSeq
    BY DEF TypeConsumer
  <1>4. /\ Len(got) \in Nat /\ DOMAIN got = 1..Len(got) /\ Len(replay) \in Nat
        /\ Len(reply.chunks) \in Nat
    BY <1>1, <1>3, LenProperties
  <1>5. \A i \in 1..Len(got) : got[i] \in Seqs /\ got[i] \in Nat
    BY <1>3, ElementOfSeq, Bounds
  <1>6. \A i \in 1..Len(reply.chunks) : reply.chunks[i] \in Nat
    BY <1>1, ElementOfSeq, Bounds
  <1>7. cursor \in Nat
    BY <1>3, Bounds
  <1> QED
    BY <1>1, <1>2, <1>3, <1>4, <1>5, <1>6, <1>7

ConsumerStep == TypeConsumer' /\ ConsumerInv'

\* What was passed or settled stays so while the server numbers more events.
LEMMA OutputsSettled ==
    ASSUME TypeServer, TypeServer', Growth, AtCursor, TypeConsumer, NothingElseIsLost,
           UNCHANGED << cursor, got >>, missed \subseteq missed'
    PROVE  AtCursor' /\ NothingElseIsLost'
  <1>1. /\ cursor \in Nat /\ Len(assigned) \in Nat /\ Len(assigned') \in Nat
        /\ DOMAIN assigned' = 1..Len(assigned') /\ DOMAIN assigned = 1..Len(assigned)
    BY ServerTypes, ConsumerTypes, LenProperties DEF TypeServer
  <1>2. cursor <= Len(assigned) /\ Len(assigned) <= Len(assigned')
    BY DEF AtCursor, Growth
  <1>3. AtCursor'
    BY <1>1, <1>2 DEF AtCursor
  <1>4. ASSUME NEW n \in DOMAIN assigned', assigned'[n] = "output", n <= cursor
        PROVE  n \in ReceivedSet \cup evicted' \cup missed'
    <2>1. n \in 1..Len(assigned)
      BY <1>1, <1>2, <1>4
    <2>2. assigned[n] = "output" /\ n \in DOMAIN assigned
      BY <1>1, <1>4, <2>1 DEF Growth
    <2> QED
      BY <1>4, <2>2 DEF NothingElseIsLost, Growth
  <1>5. ReceivedSet' = ReceivedSet
    BY DEF ReceivedSet
  <1> QED
    BY <1>3, <1>4, <1>5 DEF NothingElseIsLost

LEMMA ConsumerUnchanged ==
    ASSUME TypeServer, TypeServer', ServerInv, TypeClient, TypeConsumer, ConsumerInv,
           Growth, LogGrows, UNCHANGED consumer
    PROVE  ConsumerStep
  <1>0. UNCHANGED << kind, at, replay, pos, cursor, reply, got, outcome, missed >>
    BY DEF consumer
  <1>1. /\ pos \in Nat /\ Len(log) \in Nat /\ Len(replay) \in Nat
        /\ reply.next \in Nat /\ Len(assigned) \in Nat /\ Len(assigned') \in Nat
        /\ Len(reply.chunks) \in Nat
    BY ServerTypes, ClientTypes, ConsumerTypes, LenProperties DEF TypeServer
  <1>2. TypeConsumer'
    BY <1>0 DEF TypeConsumer
  <1>3. AtCursor' /\ NothingElseIsLost'
    BY <1>0, OutputsSettled DEF ConsumerInv
  <1>4. ReceivedInOrder' /\ ReceivedSet' = ReceivedSet
    BY <1>0 DEF ConsumerInv, ReceivedInOrder, ReceivedSet
  <1>5. CloseIsFinal'
    BY <1>0 DEF ConsumerInv, CloseIsFinal, Growth
  <1>6. \A j \in 1..pos : log'[j] = log[j]
    BY <1>1 DEF ConsumerInv, Position, LogGrows
  <1>7. Position'
    <2>1. pos <= Len(log')
      <3>1. Len(log) <= Len(log') /\ pos <= Len(log)
        BY DEF ConsumerInv, Position, LogGrows
      <3> QED
        BY <1>1, <3>1
    <2>2. \A i \in 1..Len(replay) : pos - Len(replay) + i \in 1..pos
      BY <1>1 DEF ConsumerInv, Position
    <2> QED
      BY <1>0, <1>6, <2>1, <2>2 DEF ConsumerInv, Position
  <1>8. Passed'
    <2>1. Settled \subseteq Settled'
      BY <1>0, <1>4 DEF Settled, Growth
    <2>2. \A j \in 1..pos - Len(replay) : j \in 1..pos
      BY <1>1
    <2> QED
      BY <1>0, <1>6, <2>1, <2>2 DEF ConsumerInv, Passed
  <1>9. Answer'
    <2> SUFFICES ASSUME at = "answered", ~reply.failure PROVE Answer'
      BY <1>0 DEF Answer, ConsumerInv
    <2> DEFINE r == reply.next
    <2>1. /\ r <= Len(assigned) + 1
          /\ \A n \in Outputs : cursor < n /\ n < r =>
                \/ n \in evicted
                \/ \E i \in 1..Len(reply.chunks) : reply.chunks[i] = n
          /\ \A j \in 1..pos : log[j].kind = "output" => log[j].seq < r
          /\ reply.closed => proc.closed /\ \A n \in Outputs : n < r
      BY DEF ConsumerInv, Answer
    <2>2. r <= Len(assigned') + 1
      BY <1>1, <2>1 DEF Growth
    <2>3. \A n \in Outputs' : n < r => n \in Outputs
      <3>1. \A n \in Outputs' : n \in Nat
        BY <1>1, ServerTypes DEF Outputs, TypeServer
      <3>2. \A n \in Outputs' : n < r => n <= Len(assigned)
        BY <1>1, <2>1, <3>1
      <3> QED
        BY <3>2, OutputsGrow
    <2>4. reply.closed => proc'.closed /\ \A n \in Outputs' : n < r
      BY <2>1 DEF Growth, Outputs
    <2> QED
      BY <1>0, <1>6, <2>1, <2>2, <2>3, <2>4 DEF ConsumerInv, Answer, Growth
  <1> QED
    BY <1>2, <1>3, <1>4, <1>5, <1>7, <1>8, <1>9 DEF ConsumerInv, ConsumerStep

\* A consumer that goes on without having received anything, or gives up.
LEMMA ConsumerMoves ==
    ASSUME TypeServer, ServerInv, TypeClient, TypeConsumer, ConsumerInv, LogGrows,
           UNCHANGED << proc, assigned, evicted, kind, replay, cursor, got, missed >>,
           replay = << >>, reply' \in Reply, pos' \in Nat,
           pos' = pos \/ pos' <= Len(log), TypeServer',
           at' \in {"exec", "started", "subscribe", "ask", "answered", "refused",
                   "wait", "ended"},
           at' \in {"exec", "started", "subscribe"} =>
             at \in {"register", "exec", "started", "subscribe"},
           outcome' \in {outcome, "failed"}, Answer'
    PROVE  ConsumerStep
  <1>1. pos \in Nat /\ Len(log) \in Nat /\ Len(replay) = 0 /\ Len(replay') = 0
    BY ClientTypes, ConsumerTypes
  <1>2. Growth
    BY DEF Growth, ServerInv, Numbering
  <1>3. TypeConsumer'
    BY DEF TypeConsumer
  <1>4. AtCursor' /\ NothingElseIsLost'
    BY <1>2, OutputsSettled DEF ConsumerInv
  <1>5. ReceivedInOrder' /\ CloseIsFinal'
    BY DEF ConsumerInv, ReceivedInOrder, CloseIsFinal
  <1>6. pos' <= Len(log')
    <2>1. Len(log) <= Len(log') /\ pos <= Len(log)
      BY DEF ConsumerInv, Position, LogGrows
    <2> QED
      BY <1>1, <2>1
  <1>7. Position'
    <2>1. Len(replay') <= pos'
      BY <1>1
    <2>2. \A i \in 1..Len(replay') : replay'[i] = log'[pos' - Len(replay') + i]
      BY <1>1
    <2> QED
      BY <1>6, <2>1, <2>2 DEF ConsumerInv, Position
  <1>8. Passed'
    BY DEF Passed
  <1> QED
    BY <1>3, <1>4, <1>5, <1>7, <1>8 DEF ConsumerInv, ConsumerStep

LEMMA LogSame ==
    ASSUME TypeClient, UNCHANGED log
    PROVE  LogGrows
  BY ClientTypes DEF LogGrows

\* register_session, start_process, its failure and its answer, a read that is
\* refused, a wake and a lag.
LEMMA MoveSteps ==
    ASSUME TypeServer, ServerInv, TypeClient, TypeConsumer, ConsumerInv, TypeServer',
           \/ RegisterSession \/ StartProcess \/ StartFails \/ Started
           \/ ReadRefused \/ AwaitWake \/ ReceiveLagged
    PROVE  ConsumerStep
  <1>0. /\ UNCHANGED << proc, assigned, evicted, kind, replay, cursor, got, missed,
                        reply, log >>
        /\ at' \in {"exec", "started", "subscribe", "ask", "refused", "wait", "ended"}
        /\ at' \in {"exec", "started", "subscribe"} =>
             at \in {"register", "exec", "started", "subscribe"}
        /\ outcome' \in {outcome, "failed"}
        /\ at \notin {"recv", "ended"} \/ replay = << >>
    BY DEF RegisterSession, StartProcess, StartFails, Started, ReadRefused, AwaitWake,
           ReceiveLagged, Goto, End, server, client, history
  <1>1. pos' \in Nat /\ (pos' = pos \/ pos' <= Len(log))
    <2>1. CASE ReceiveLagged
      BY <2>1, ClientTypes, ConsumerTypes DEF ReceiveLagged
    <2>2. CASE ~ReceiveLagged
      BY <2>2, ConsumerTypes DEF RegisterSession, StartProcess, StartFails, Started,
         ReadRefused, AwaitWake
    <2> QED
      BY <2>1, <2>2
  <1>2. replay = << >>
    BY <1>0 DEF ConsumerInv, Position
  <1>3. Answer'
    BY <1>0 DEF Answer
  <1>4. reply' \in Reply /\ LogGrows
    BY <1>0, LogSame DEF TypeConsumer
  <1> QED
    BY <1>0, <1>1, <1>2, <1>3, <1>4, ConsumerMoves

\* exec_read answers with what is newer than the cursor.
LEMMA ServerReadStep ==
    ASSUME TypeServer, ServerInv, TypeClient, Published, TypeConsumer, ConsumerInv,
           TypeServer', ServerRead
    PROVE  ConsumerStep
  <1> DEFINE out == proc.output
             m == Len(out)
             P == {i \in 1..m : out[i] > cursor}
             sub == After(cursor)
             next == IF out # << >> /\ out[m] > cursor THEN out[m] + 1 ELSE proc.next
  <1>0. /\ UNCHANGED << proc, assigned, evicted, kind, replay, cursor, got, missed,
                        log, pos, outcome >>
        /\ at = "ask"
    BY DEF ServerRead, server, client, history
  <1>1. replay = << >>
    BY <1>0 DEF ConsumerInv, Position
  <1>2. /\ m \in Nat /\ out \in Seq(Seqs) /\ Len(assigned) \in Nat /\ cursor \in Nat
        /\ \A i \in 1..m : out[i] \in Nat
        /\ Outputs \subseteq 1..Len(assigned) /\ pos \in Nat /\ Len(log) \in Nat
        /\ Len(assigned) + 1 <= MaxSeq + 1 /\ MaxSeq \in Nat
        /\ proc.next = Len(assigned) + 1
    <2>1. proc.next \in 1..MaxSeq + 1 /\ MaxSeq \in Nat
      BY Bounds DEF TypeServer
    <2>2. proc.next = Len(assigned) + 1
      BY DEF ServerInv, Numbering
    <2>3. Len(assigned) + 1 <= MaxSeq + 1
      BY <2>1, <2>2
    <2> QED
      BY <2>1, <2>2, <2>3, ServerTypes, ConsumerTypes, ClientTypes
  <1>3. CASE entry # "running"
    <2>1. at' = "refused" /\ reply' = reply
      BY <1>3 DEF ServerRead, Goto
    <2>2. Answer' /\ reply' \in Reply
      BY <2>1 DEF Answer, TypeConsumer
    <2> QED
      BY <1>0, <1>1, <1>2, <2>1, <2>2, LogSame, ConsumerMoves
  <1>4. CASE entry = "running"
    <2>1. /\ reply' = [chunks |-> sub, next |-> next, closed |-> proc.closed,
                       failure |-> FALSE]
          /\ at' = "answered"
      BY <1>4 DEF ServerRead, Goto
    <2>2. /\ sub \in Seq(Seqs) /\ Len(sub) \in Nat
          /\ \A k \in 1..Len(sub) : Place(P, k) \in P /\ sub[k] = out[Place(P, k)]
          /\ \A k, l \in 1..Len(sub) : k < l => Place(P, k) < Place(P, l)
          /\ \A i \in P : \E k \in 1..Len(sub) : Place(P, k) = i
      <3>1. P \in SUBSET (1..m)
        OBVIOUS
      <3> HIDE DEF P, m, out
      <3>2. sub = Subsequence(out, P)
        BY DEF After, P, m, out
      <3> QED
        BY <1>2, <3>1, <3>2, SubsequenceFacts DEF m
    <2>3. /\ \A i, j \in 1..m : i < j => out[i] < out[j]
          /\ \A i \in 1..m : out[i] \in Outputs
          /\ \A n \in Outputs : n \in evicted \/ \E i \in 1..m : out[i] = n
          /\ \A n \in Outputs : out # << >> /\ n <= out[m]
      BY DEF ServerInv, Retention
    <2>4. \A i \in P : i \in 1..m /\ out[i] > cursor
      OBVIOUS
    <2>5. out # << >> => m \in 1..m
      BY <1>2, EmptySeq
    <2>6. /\ next \in Nat \ {0} /\ next <= Len(assigned) + 1
          /\ \A n \in Outputs : n < next
      <3>1. CASE out # << >> /\ out[m] > cursor
        <4>1. out[m] \in Outputs /\ out[m] \in Nat
          BY <1>2, <2>3, <2>5, <3>1
        <4>2. next = out[m] + 1
          BY <3>1
        <4> HIDE DEF next, out, m
        <4> QED
          BY <1>2, <2>3, <4>1, <4>2
      <3>2. CASE ~(out # << >> /\ out[m] > cursor)
        <4>1. next = Len(assigned) + 1
          BY <1>2, <3>2
        <4> HIDE DEF next
        <4> QED
          BY <1>2, <4>1
      <3> QED
        BY <3>1, <3>2
    <2> HIDE DEF sub, next, P, m, out
    <2>7. /\ reply'.chunks = sub /\ reply'.next = next /\ reply'.closed = proc.closed
          /\ ~reply'.failure
      BY <2>1
    <2>8. reply' \in Reply
      <3>1. next \in 1..MaxSeq + 1
        BY <1>2, <2>6
      <3>2. proc.closed \in BOOLEAN
        BY ServerTypes
      <3> QED
        BY <2>1, <2>2, <3>1, <3>2 DEF Reply
    <2>9. \A k \in 1..Len(sub) : cursor < sub[k] /\ sub[k] < next /\ sub[k] \in Nat
      <3> TAKE k \in 1..Len(sub)
      <3>1. Place(P, k) \in 1..m /\ out[Place(P, k)] > cursor
        BY <2>2, <2>4
      <3>2. out[Place(P, k)] \in Outputs /\ out[Place(P, k)] \in Nat
        BY <1>2, <2>3, <3>1
      <3> QED
        BY <1>2, <2>2, <2>6, <3>1, <3>2
    <2>10. \A k, l \in 1..Len(sub) : k < l => sub[k] < sub[l]
      BY <2>2, <2>3, <2>4
    <2>11. ASSUME NEW n \in Outputs, cursor < n, n \notin evicted
           PROVE  \E k \in 1..Len(sub) : sub[k] = n
      <3>1. PICK i \in 1..m : out[i] = n
        BY <2>3, <2>11
      <3>2. i \in P
        BY <1>2, <2>11, <3>1 DEF P
      <3> QED
        BY <2>2, <3>1, <3>2
    <2>12. \A j \in 1..pos : log[j].kind = "output" => log[j].seq < next
      <3> SUFFICES ASSUME NEW j \in 1..pos, log[j].kind = "output"
                   PROVE  log[j].seq < next
        OBVIOUS
      <3>1. j \in 1..Len(log)
        BY <1>2 DEF ConsumerInv, Position
      <3>2. Genuine(log[j])
        BY <3>1, EventTypes DEF Published
      <3>3. log[j].seq \in Outputs
        BY <3>2, GenuineFacts
      <3> QED
        BY <2>6, <3>3
    <2>13. Outputs' = Outputs
      BY <1>0 DEF Outputs
    <2>14. Answer'
      BY <1>0, <2>6, <2>7, <2>9, <2>10, <2>11, <2>12, <2>13 DEF Answer
    <2> QED
      BY <1>0, <1>1, <1>2, <2>1, <2>8, <2>14, LogSame, ConsumerMoves
  <1> QED
    BY <1>3, <1>4

LEMMA ReadFailsStep ==
    ASSUME TypeServer, ServerInv, ClientInv, TypeConsumer, ConsumerInv, TypeServer',
           ReadFails
    PROVE  ClientStep /\ ConsumerStep
  <1>0. /\ UNCHANGED << proc, assigned, evicted, kind, replay, cursor, got, missed,
                        pos, outcome, inbox, broken, ordered, reader, session >>
        /\ at = "ask" /\ at' = "answered" /\ reply' = FailureReply
        /\ latched' \in {latched, TRUE}
        /\ SetFailure \/ UNCHANGED << failure, log, woken >>
    BY DEF ReadFails, Goto, server, history
  <1>1. ClientStep
    BY <1>0, FailureStep DEF ClientInv, TypeClient
  <1>2. replay = << >> /\ pos \in Nat
    BY <1>0, ConsumerTypes DEF ConsumerInv, Position
  <1>3. /\ reply' \in Reply /\ reply'.failure /\ reply'.chunks = << >>
    <2>1. << >> \in Seq(Seqs) /\ 1 \in 1..MaxSeq + 1
      BY Bounds
    <2> QED
      BY <1>0, <2>1 DEF FailureReply, Reply
  <1>4. Answer'
    BY <1>3 DEF Answer
  <1>5. ConsumerStep
    BY <1>0, <1>1, <1>2, <1>3, <1>4, ConsumerMoves DEF ClientInv, ClientStep
  <1> QED
    BY <1>1, <1>5

\* What is received next is newer than all of it so far.
LEMMA GotGrows ==
    ASSUME TypeConsumer, AtCursor, ReceivedInOrder, NEW more \in Seq(Seqs),
           got' = got \o more, NEW c \in Nat, cursor <= c,
           \A i \in 1..Len(more) : cursor < more[i] /\ more[i] <= c,
           \A i, j \in 1..Len(more) : i < j => more[i] < more[j]
    PROVE  /\ got' \in Seq(Seqs) /\ ReceivedInOrder'
           /\ \A i \in 1..Len(got') : got'[i] <= c
           /\ ReceivedSet \subseteq ReceivedSet'
           /\ \A i \in 1..Len(more) : more[i] \in ReceivedSet'
  <1> DEFINE g == Len(got)
             m == Len(more)
  <1>0. /\ g \in Nat /\ m \in Nat /\ cursor \in Nat /\ got \in Seq(Seqs)
        /\ DOMAIN got = 1..g
        /\ \A i \in 1..g : got[i] \in Nat /\ got[i] <= cursor
        /\ \A i \in 1..m : more[i] \in Nat
    BY ConsumerTypes, LenProperties, ElementOfSeq, Bounds DEF AtCursor
  <1>1. /\ got' \in Seq(Seqs) /\ Len(got') = g + m /\ DOMAIN got' = 1..g + m
        /\ \A i \in 1..g : got'[i] = got[i]
        /\ \A i \in 1..m : got'[g + i] = more[i]
    <2>1. /\ got \o more \in Seq(Seqs) /\ Len(got \o more) = g + m
          /\ \A i \in 1..g + m :
                (got \o more)[i] = IF i <= g THEN got[i] ELSE more[i - g]
      BY <1>0, ConcatProperties
    <2>2. \A i \in 1..g : i \in 1..g + m /\ i <= g
      BY <1>0
    <2>3. \A i \in 1..m : g + i \in 1..g + m /\ ~(g + i <= g) /\ g + i - g = i
      BY <1>0
    <2> QED
      BY <2>1, <2>2, <2>3, LenProperties
  <1>2. \A i \in 1..g + m : i \in 1..g \/ (i - g \in 1..m /\ g + (i - g) = i)
    BY <1>0
  <1> HIDE DEF g, m
  <1>3. \A i \in 1..g + m : got'[i] <= c /\ got'[i] \in Nat
    <2> TAKE i \in 1..g + m
    <2>1. CASE i \in 1..g
      BY <1>0, <1>1, <2>1
    <2>2. CASE i - g \in 1..m /\ g + (i - g) = i
      <3>1. got'[g + (i - g)] = more[i - g]
        BY <1>1, <2>2
      <3>2. more[i - g] <= c /\ more[i - g] \in Nat
        BY <1>0, <2>2 DEF m
      <3> QED
        BY <2>2, <3>1, <3>2
    <2> QED
      BY <1>2, <2>1, <2>2
  <1>4. ASSUME NEW i \in 1..g + m, NEW j \in 1..g + m, i < j
        PROVE  got'[i] < got'[j]
    <2>1. CASE i \in 1..g /\ j \in 1..g
      <3>1. got[i] < got[j]
        BY <1>0, <1>4, <2>1 DEF ReceivedInOrder
      <3> QED
        BY <1>1, <2>1, <3>1
    <2>2. CASE i \in 1..g /\ j - g \in 1..m /\ g + (j - g) = j
      <3>1. got'[g + (j - g)] = more[j - g] /\ cursor < more[j - g]
        BY <1>1, <2>2 DEF m
      <3>2. /\ got'[i] <= cursor /\ got'[i] \in Nat /\ more[j - g] \in Nat
            /\ cursor \in Nat
        BY <1>0, <1>1, <2>2
      <3>3. got'[j] = more[j - g]
        BY <2>2, <3>1
      <3>4. \A a, b \in Nat : a <= cursor /\ cursor < b => a < b
        BY <1>0
      <3>5. got'[i] < more[j - g]
        BY <3>1, <3>2, <3>4
      <3> QED
        BY <3>3, <3>5
    <2>3. CASE i - g \in 1..m /\ g + (i - g) = i /\ j - g \in 1..m /\ g + (j - g) = j
      <3>1. i - g < j - g
        BY <1>0, <1>4, <2>3
      <3>2. more[i - g] < more[j - g]
        BY <2>3, <3>1 DEF m
      <3>3. got'[g + (i - g)] = more[i - g] /\ got'[g + (j - g)] = more[j - g]
        BY <1>1, <2>3
      <3>4. got'[i] = more[i - g] /\ got'[j] = more[j - g]
        BY <2>3, <3>3
      <3> QED
        BY <3>2, <3>4
    <2>4. CASE i - g \in 1..m /\ j \in 1..g
      BY <1>0, <1>4, <2>4
    <2> QED
      BY <1>2, <2>1, <2>2, <2>3, <2>4
  <1>5. ReceivedInOrder'
    BY <1>1, <1>4 DEF ReceivedInOrder
  <1>6. \A i \in 1..g : i \in DOMAIN got'
    BY <1>0, <1>1
  <1>7. \A i \in 1..m : g + i \in DOMAIN got'
    BY <1>0, <1>1
  <1>8. ReceivedSet \subseteq ReceivedSet' /\ \A i \in 1..m : more[i] \in ReceivedSet'
    BY <1>0, <1>1, <1>6, <1>7 DEF ReceivedSet
  <1> QED
    BY <1>1, <1>3, <1>5, <1>8 DEF m

\* An answer is taken.
LEMMA AcceptStep ==
    ASSUME TypeServer, ServerInv, TypeClient, Published, TypeConsumer, ConsumerInv,
           NEW place \in {"recv", "wait"}, Accept(place)
    PROVE  ConsumerStep
  <1> DEFINE chunks == reply.chunks
             c == IF reply.failure \/ reply.next - 1 < cursor THEN cursor
                  ELSE reply.next - 1
  <1>0. /\ UNCHANGED << proc, assigned, evicted, kind, replay, missed, pos, log >>
        /\ at = "answered" /\ got' = got \o chunks /\ cursor' = c
        /\ reply' = NoReply
        /\ \/ reply.failure /\ at' = "ended" /\ outcome' = "failed"
           \/ /\ ~reply.failure /\ reply.closed
              /\ at' = "ended" /\ outcome' = "closed"
           \/ /\ ~reply.failure /\ ~reply.closed
              /\ at' = place /\ outcome' = outcome
    BY DEF Accept, Goto, End, server, client, history
  <1>1. /\ cursor \in Nat /\ reply.next \in Nat \ {0} /\ chunks \in Seq(Seqs)
        /\ Len(chunks) \in Nat /\ Len(assigned) \in Nat /\ pos \in Nat
        /\ \A i \in 1..Len(chunks) : chunks[i] \in Nat
        /\ Outputs \subseteq 1..Len(assigned) /\ Len(log) \in Nat
        /\ DOMAIN assigned = 1..Len(assigned)
    BY ServerTypes, ConsumerTypes, ClientTypes
  <1>2. /\ reply.failure => chunks = << >>
        /\ ~reply.failure =>
             /\ reply.next <= Len(assigned) + 1
             /\ \A i \in 1..Len(chunks) : cursor < chunks[i] /\ chunks[i] < reply.next
             /\ \A i, j \in 1..Len(chunks) : i < j => chunks[i] < chunks[j]
             /\ \A n \in Outputs : cursor < n /\ n < reply.next =>
                   n \in evicted \/ \E i \in 1..Len(chunks) : chunks[i] = n
             /\ \A j \in 1..pos : log[j].kind = "output" => log[j].seq < reply.next
             /\ reply.closed => proc.closed /\ \A n \in Outputs : n < reply.next
    BY <1>0 DEF ConsumerInv, Answer
  <1>3. cursor <= Len(assigned) /\ replay = << >>
    BY <1>0 DEF ConsumerInv, AtCursor, Position
  <1>4. /\ c \in Nat /\ cursor <= c /\ c <= Len(assigned)
        /\ ~reply.failure => \A n \in Nat : n < reply.next => n <= c
        /\ ~reply.failure => \A n \in Nat : n <= c => n <= cursor \/ n < reply.next
        /\ reply.failure => c = cursor
    BY <1>1, <1>2, <1>3
  <1> HIDE DEF c, chunks
  <1>5. \A i \in 1..Len(chunks) : cursor < chunks[i] /\ chunks[i] <= c
    <2>1. CASE reply.failure
      BY <1>2, <2>1
    <2>2. CASE ~reply.failure
      BY <1>1, <1>2, <1>4, <2>2
    <2> QED
      BY <2>1, <2>2
  <1>6. \A i, j \in 1..Len(chunks) : i < j => chunks[i] < chunks[j]
    <2>1. CASE reply.failure
      BY <1>2, <2>1
    <2>2. CASE ~reply.failure
      BY <1>2, <2>2
    <2> QED
      BY <2>1, <2>2
  <1>7. /\ got' \in Seq(Seqs) /\ ReceivedInOrder'
        /\ \A i \in 1..Len(got') : got'[i] <= c
        /\ ReceivedSet \subseteq ReceivedSet'
        /\ \A i \in 1..Len(chunks) : chunks[i] \in ReceivedSet'
    BY <1>0, <1>1, <1>4, <1>5, <1>6, GotGrows DEF ConsumerInv
  <1>8. AtCursor'
    BY <1>0, <1>4, <1>7 DEF AtCursor
  <1>9. ASSUME NEW n \in Outputs, n <= c
        PROVE  n \in ReceivedSet' \cup evicted \cup missed
    <2>1. CASE n <= cursor
      <3>1. n \in ReceivedSet \cup evicted \cup missed
        BY <2>1 DEF ConsumerInv, NothingElseIsLost, Outputs
      <3> QED
        BY <1>7, <3>1
    <2>2. CASE ~(n <= cursor)
      <3>1. n \in Nat
        BY <1>1
      <3>2. ~reply.failure /\ cursor < n /\ n < reply.next
        BY <1>1, <1>4, <1>9, <2>2, <3>1
      <3> QED
        BY <1>2, <1>7, <3>2
    <2> QED
      BY <2>1, <2>2
  <1>10. NothingElseIsLost'
    BY <1>0, <1>9 DEF NothingElseIsLost, Outputs
  <1>11. CloseIsFinal'
    <2>1. CASE reply.failure
      BY <1>0, <2>1 DEF CloseIsFinal
    <2>2. CASE ~reply.failure /\ reply.closed
      <3>1. proc.closed /\ proc.exit
        BY <1>2, <2>2 DEF ServerInv, Numbering
      <3>2. \A n \in Outputs : n <= c
        BY <1>1, <1>2, <1>4, <2>2
      <3> QED
        BY <1>0, <3>1, <3>2 DEF CloseIsFinal, Outputs
    <2>3. CASE ~reply.failure /\ ~reply.closed
      <3> SUFFICES ASSUME outcome = "closed" PROVE CloseIsFinal'
        BY <1>0, <2>3 DEF CloseIsFinal
      <3>1. proc.closed /\ proc.exit /\ \A n \in Outputs : n <= cursor
        BY DEF ConsumerInv, CloseIsFinal, Outputs
      <3>2. \A n \in Outputs : n <= c
        BY <1>1, <1>4, <3>1
      <3> QED
        BY <1>0, <3>1, <3>2 DEF CloseIsFinal, Outputs
    <2> QED
      BY <2>1, <2>2, <2>3
  <1>12. Position' /\ Answer'
    <2>1. at' \in {"ended", "recv", "wait"}
      BY <1>0
    <2> QED
      BY <1>0, <1>3, <2>1 DEF ConsumerInv, Position, Answer
  <1>13. Passed'
    <2> SUFFICES ASSUME at' = "recv", NEW j \in 1..pos, log[j].kind = "output"
                 PROVE  log[j].seq \in ReceivedSet' \cup evicted \cup missed
      <3>1. Len(replay) = 0 /\ pos - 0 = pos
        BY <1>1, <1>3
      <3> QED
        BY <1>0, <3>1 DEF Passed, Settled
    <2>1. j \in 1..Len(log)
      BY <1>1 DEF ConsumerInv, Position
    <2>2. Genuine(log[j])
      BY <2>1, EventTypes DEF Published
    <2>3. log[j].seq \in Outputs /\ log[j].seq \in Nat
      BY <2>2, GenuineFacts
    <2>4. ~reply.failure
      BY <1>0
    <2>5. log[j].seq <= c
      BY <1>2, <1>4, <2>3, <2>4
    <2> QED
      BY <1>9, <2>3, <2>5
  <1>14. TypeConsumer'
    <2>1. c \in 0..MaxSeq
      <3>1. proc.next \in 1..MaxSeq + 1 /\ proc.next = Len(assigned) + 1 /\ MaxSeq \in Nat
        BY Bounds DEF TypeServer, ServerInv, Numbering
      <3> QED
        BY <1>1, <1>4, <3>1
    <2>2. NoReply \in Reply
      <3>1. << >> \in Seq(Seqs) /\ 1 \in 1..MaxSeq + 1
        BY Bounds
      <3> QED
        BY <3>1 DEF NoReply, Reply
    <2> QED
      BY <1>0, <1>7, <2>1, <2>2 DEF TypeConsumer
  <1> QED
    BY <1>7, <1>8, <1>10, <1>11, <1>12, <1>13, <1>14 DEF ConsumerInv, ConsumerStep

\* Subscribe: what the log has lost by then is missed, and no more.
LEMMA SubscribeStep ==
    ASSUME TypeServer, ServerInv, TypeClient, Published, TypeConsumer, ConsumerInv,
           TypeServer', Subscribe
    PROVE  ConsumerStep
  <1> DEFINE gone == IF Len(log) > Capacity THEN Len(log) - Capacity ELSE 0
             early == {j \in 1..gone : log[j].kind = "output"}
  <1>0. /\ UNCHANGED << proc, assigned, evicted, kind, cursor, reply, got, outcome, log >>
        /\ at = "subscribe" /\ at' = "recv" /\ pos' = Len(log)
        /\ replay' = SubSeq(log, gone + 1, Len(log))
        /\ missed' = {log[i].seq : i \in early}
    BY DEF Subscribe, Goto, server, client, history
  <1>1. /\ Len(log) \in Nat /\ log \in Seq(Event) /\ Len(assigned) \in Nat
        /\ \A i \in 1..Len(log) : log[i] \in Event
    BY ClientTypes, ServerTypes DEF TypeClient
  <1>2. /\ gone \in Nat /\ gone <= Len(log) /\ Len(log) - gone <= Capacity
        /\ Len(log) - gone \in Nat
    BY <1>1
  <1> HIDE DEF gone
  <1>3. /\ replay' \in Seq(Event) /\ Len(replay') = Len(log) - gone
        /\ \A i \in 1..Len(log) - gone : replay'[i] = log[gone + i]
    <2>1. \A i \in gone + 1..Len(log) : log[i] \in Event
      BY <1>1, <1>2
    <2>2. gone + 1 \in Int /\ Len(log) \in Int
      BY <1>1, <1>2
    <2>3. /\ replay' \in Seq(Event)
          /\ Len(replay') = IF gone + 1 <= Len(log) THEN Len(log) - (gone + 1) + 1 ELSE 0
          /\ \A i \in 1..Len(log) - (gone + 1) + 1 : replay'[i] = log[gone + 1 + i - 1]
      BY <1>0, <2>1, <2>2, SubSeqProperties
    <2>4. Len(log) - (gone + 1) + 1 = Len(log) - gone
      BY <1>1, <1>2
    <2>5. Len(replay') = Len(log) - gone
      BY <1>1, <1>2, <2>3
    <2>6. \A i \in 1..Len(log) - gone : gone + 1 + i - 1 = gone + i
      BY <1>1, <1>2
    <2> QED
      BY <2>3, <2>4, <2>5, <2>6
  <1>4. missed = {}
    BY <1>0 DEF ConsumerInv, Position
  <1>5. \A j \in early : j \in 1..Len(log) /\ log[j].seq \in Seqs
    <2> TAKE j \in early
    <2>1. j \in 1..Len(log) /\ log[j].kind = "output"
      BY <1>1, <1>2
    <2>2. log[j] # Failed /\ log[j] \in Event
      BY <1>1, <2>1, EventTypes
    <2> QED
      BY <2>1, <2>2 DEF Event, Failed
  <1>6. TypeConsumer'
    <2>1. missed' \subseteq Seqs
      BY <1>0, <1>5
    <2> QED
      BY <1>0, <1>1, <1>2, <1>3, <2>1 DEF TypeConsumer
  <1>7. Growth
    BY <1>0 DEF Growth, ServerInv, Numbering
  <1>8. AtCursor' /\ NothingElseIsLost'
    BY <1>0, <1>4, <1>7, OutputsSettled DEF ConsumerInv
  <1>9. ReceivedInOrder' /\ CloseIsFinal' /\ Answer'
    BY <1>0 DEF ConsumerInv, ReceivedInOrder, CloseIsFinal, Answer
  <1>10. pos' - Len(replay') = gone
    BY <1>0, <1>1, <1>2, <1>3
  <1>11. Position'
    <2>1. Len(replay') <= pos'
      BY <1>0, <1>1, <1>2, <1>3
    <2>2. \A i \in 1..Len(replay') : replay'[i] = log[pos' - Len(replay') + i]
      BY <1>3, <1>10
    <2>3. pos' <= Len(log')
      BY <1>0, <1>1
    <2>4. at' = "recv" /\ log' = log
      BY <1>0
    <2> QED
      BY <2>1, <2>2, <2>3, <2>4 DEF Position
  <1>12. Passed'
    <2>1. \A j \in 1..gone : log[j].kind = "output" => log[j].seq \in missed'
      BY <1>0
    <2> QED
      BY <1>0, <1>10, <2>1 DEF Passed, Settled
  <1> QED
    BY <1>6, <1>8, <1>9, <1>11, <1>12 DEF ConsumerInv, ConsumerStep

\* The next event of the log is taken, whether it is replayed or live: all
\* that have lower numbers are before it.
LEMMA TakeStep ==
    ASSUME TypeServer, ServerInv, TypeClient, Published, TypeConsumer, ConsumerInv,
           at = "recv", NEW k \in 1..Len(log), k = pos - Len(replay) + 1,
           TakeEvent(log[k]),
           UNCHANGED << proc, assigned, evicted, kind, reply, missed, log >>,
           replay' \in Seq(Event), Len(replay') <= Capacity, pos' \in Nat,
           pos' - Len(replay') = k, Position'
    PROVE  ConsumerStep
  <1> DEFINE e == log[k]
             c == IF e.seq > cursor THEN e.seq ELSE cursor
             takes == e.kind = "output" /\ e.seq > cursor
  <1>0. /\ cursor' = c
        /\ got' = IF takes THEN Append(got, e.seq) ELSE got
        /\ \/ e.kind = "closed" /\ at' = "ended" /\ outcome' = "closed"
           \/ e.kind = "failed" /\ at' = "ended" /\ outcome' = "failed"
           \/ e.kind \notin {"closed", "failed"} /\ at' = at /\ outcome' = outcome
    BY DEF TakeEvent, End
  <1>1. /\ cursor \in Nat /\ got \in Seq(Seqs) /\ Len(assigned) \in Nat
        /\ pos \in Nat /\ Len(replay) \in Nat /\ Len(log) \in Nat /\ k \in Nat
        /\ Outputs \subseteq 1..Len(assigned) /\ ordered.last \in Nat
        /\ DOMAIN assigned = 1..Len(assigned)
    <2>1. Len(log) \in Nat /\ ordered.last \in Nat
      BY ClientTypes
    <2>2. k \in Nat
      BY <2>1
    <2> QED
      BY <2>1, <2>2, ServerTypes, ConsumerTypes
  <1>2. e \in Event /\ e.seq \in Nat /\ (e = Failed \/ Genuine(e)) /\ e.seq <= ordered.last
    BY ClientTypes, EventTypes DEF Published
  <1>3. e.kind # "failed" => Genuine(e) /\ e.seq \in 1..Len(assigned) /\ e.seq \in Seqs
                             /\ e.kind = assigned[e.seq]
    <2> SUFFICES ASSUME e.kind # "failed"
                 PROVE  Genuine(e) /\ e.seq \in 1..Len(assigned) /\ e.seq \in Seqs
                        /\ e.kind = assigned[e.seq]
      OBVIOUS
    <2>1. Genuine(e)
      BY <1>2, EventTypes
    <2>2. e.seq \in 1..Len(assigned) /\ e.kind = assigned[e.seq]
      BY <2>1, GenuineFacts
    <2>3. e.seq \in 1..MaxSeq
      BY SMTT(30), <1>1, <1>2, <2>2, EventTypes, Bounds
    <2> QED
      BY <2>1, <2>2, <2>3, Bounds
  <1>4. e.kind = "failed" => e.seq = 0
    BY <1>2, EventTypes
  <1>5. cursor <= Len(assigned)
    BY DEF ConsumerInv, AtCursor
  <1>6. c \in Nat /\ cursor <= c /\ e.seq <= c /\ c <= Len(assigned)
    BY SMTT(30), <1>1, <1>2, <1>3, <1>4, <1>5
  <1>7. \A n \in Nat : n <= c => n <= cursor \/ (cursor < n /\ n <= e.seq)
    BY <1>1, <1>2
  <1> HIDE DEF c
  <1>8. /\ got' \in Seq(Seqs) /\ ReceivedInOrder'
        /\ \A i \in 1..Len(got') : got'[i] <= c
        /\ ReceivedSet \subseteq ReceivedSet'
        /\ takes => e.seq \in ReceivedSet'
    <2>1. CASE takes
      <3> DEFINE more == << e.seq >>
      <3>1. e.seq \in Seqs /\ cursor < e.seq /\ e.seq <= c
        BY <1>1, <1>2, <1>3, <1>6, <2>1
      <3>2. /\ more \in Seq(Seqs) /\ Len(more) = 1 /\ more[1] = e.seq
            /\ \A i \in 1..Len(more) : i = 1
        BY <3>1
      <3>3. got' = got \o more
        BY <1>0, <1>1, <2>1, <3>1, AppendIsConcat
      <3> HIDE DEF more, e
      <3>4. /\ \A i \in 1..Len(more) : cursor < more[i] /\ more[i] <= c
            /\ \A i, j \in 1..Len(more) : i < j => more[i] < more[j]
        <4>1. \A i, j \in 1..Len(more) : ~(i < j)
          BY <3>2
        <4> QED
          BY <3>1, <3>2, <4>1
      <3>5. /\ got' \in Seq(Seqs) /\ ReceivedInOrder'
            /\ \A i \in 1..Len(got') : got'[i] <= c
            /\ ReceivedSet \subseteq ReceivedSet'
            /\ \A i \in 1..Len(more) : more[i] \in ReceivedSet'
        BY <1>6, <3>2, <3>3, <3>4, GotGrows DEF ConsumerInv
      <3> QED
        BY <3>2, <3>5
    <2>2. CASE ~takes
      <3>1. got' = got
        BY <1>0, <2>2
      <3>2. \A i \in 1..Len(got) : got[i] <= c
        BY SMTT(30), <1>1, <1>6, ConsumerTypes DEF ConsumerInv, AtCursor
      <3> QED
        BY <1>1, <2>2, <3>1, <3>2 DEF ConsumerInv, ReceivedInOrder, ReceivedSet
    <2> QED
      BY <2>1, <2>2
  <1>9. \A j \in 1..k - 1 : log[j].kind = "output" =>
           log[j].seq \in ReceivedSet \cup evicted \cup missed
    <2>1. pos - Len(replay) = k - 1
      BY <1>1
    <2> QED
      BY <2>1 DEF ConsumerInv, Passed, Settled
  <1>10. ASSUME NEW n \in Outputs, n <= c
         PROVE  n \in ReceivedSet' \cup evicted \cup missed
    <2>0. n \in Nat /\ n \in 1..Len(assigned) /\ assigned[n] = "output"
      BY SMTT(30), <1>1 DEF Outputs
    <2>1. CASE n <= cursor
      <3>1. n \in ReceivedSet \cup evicted \cup missed
        BY <2>1 DEF ConsumerInv, NothingElseIsLost, Outputs
      <3> QED
        BY <1>8, <3>1
    <2>2. CASE cursor < n /\ n = e.seq
      <3>1. e.kind = "output" /\ e.seq > cursor
        BY SMTT(30), <1>1, <1>3, <1>4, <2>0, <2>2
      <3> QED
        BY <1>8, <2>2, <3>1
    <2>3. CASE cursor < n /\ n < e.seq
      <3>1. n \in 1..ordered.last
        BY SMTT(30), <1>1, <1>2, <2>0, <2>3
      <3>2. PICK i \in 1..Len(log) : log[i] = Ev(n)
        BY <3>1 DEF Published
      <3>3. log[i].seq = n /\ log[i].kind = "output"
        BY <2>0, <3>2 DEF Ev
      <3>4. log[i] # Failed /\ e # Failed
        <4>1. n # 0 /\ e.seq # 0 /\ Failed.seq = 0
          BY SMTT(30), <1>1, <1>2, <2>0, <2>3, EventTypes
        <4> QED
          BY <3>3, <4>1
      <3>5. ~(k < i) /\ k # i
        <4>1. k < i => e.seq < n
          BY <3>3, <3>4 DEF Published
        <4>2. ~(e.seq < n) /\ e.seq # n
          BY <1>2, <2>0, <2>3
        <4> QED
          BY <3>3, <4>1, <4>2
      <3>6. i \in 1..k - 1
        <4>1. i \in Nat /\ i >= 1 /\ k \in Nat
          BY <1>1
        <4>2. \A l \in Nat : l >= 1 /\ ~(k < l) /\ k # l => l \in 1..k - 1
          BY <4>1
        <4> QED
          BY <3>5, <4>1, <4>2
      <3> QED
        BY <1>8, <1>9, <3>3, <3>6
    <2> QED
      BY SMTT(30), <1>1, <1>2, <1>7, <1>10, <2>0, <2>1, <2>2, <2>3
  <1>11. NothingElseIsLost'
    BY <1>0, <1>10 DEF NothingElseIsLost, Outputs
  <1>12. AtCursor'
    BY <1>0, <1>6, <1>8 DEF AtCursor
  <1>13. CloseIsFinal'
    <2>1. CASE e.kind = "closed"
      <3>1. proc.closed /\ e.seq = Len(assigned) /\ proc.exit
        BY <1>3, <2>1, GenuineFacts DEF ServerInv, Numbering
      <3>2. \A n \in Outputs : n <= c
        BY <1>1, <1>6, <3>1
      <3> QED
        BY <1>0, <3>1, <3>2 DEF CloseIsFinal, Outputs
    <2>2. CASE e.kind = "failed"
      BY <1>0, <2>2 DEF CloseIsFinal
    <2>3. CASE e.kind \notin {"closed", "failed"}
      <3> SUFFICES ASSUME outcome = "closed" PROVE CloseIsFinal'
        BY <1>0, <2>3 DEF CloseIsFinal
      <3>1. proc.closed /\ proc.exit /\ \A n \in Outputs : n <= cursor
        BY DEF ConsumerInv, CloseIsFinal, Outputs
      <3>2. \A n \in Outputs : n <= c
        BY SMTT(30), <1>1, <1>6, <3>1
      <3> QED
        BY <1>0, <3>1, <3>2 DEF CloseIsFinal, Outputs
    <2> QED
      BY <2>1, <2>2, <2>3
  <1>14. Passed'
    <2>1. ASSUME NEW j \in 1..k, log[j].kind = "output"
          PROVE  log[j].seq \in ReceivedSet' \cup evicted \cup missed
      <3>1. CASE j \in 1..k - 1
        BY <1>8, <1>9, <2>1, <3>1
      <3>2. CASE j = k
        <4>1. e.seq \in Outputs /\ e.seq <= c
          BY <1>1, <1>3, <1>6, <2>1, <3>2 DEF Outputs
        <4> QED
          BY <1>10, <3>2, <4>1
      <3>3. j \in 1..k - 1 \/ j = k
        BY SMTT(30), <1>1
      <3> QED
        BY <3>1, <3>2, <3>3
    <2> QED
      BY <2>1 DEF Passed, Settled
  <1>15. TypeConsumer' /\ Answer'
    <2>1. c \in 0..MaxSeq
      <3>1. proc.next \in 1..MaxSeq + 1 /\ proc.next = Len(assigned) + 1 /\ MaxSeq \in Nat
        BY Bounds DEF TypeServer, ServerInv, Numbering
      <3> QED
        BY SMTT(30), <1>1, <1>6, <3>1
    <2> QED
      BY <1>0, <1>8, <2>1 DEF TypeConsumer, Answer
  <1> QED
    BY <1>8, <1>11, <1>12, <1>13, <1>14, <1>15 DEF ConsumerInv, ConsumerStep

LEMMA ReceiveReplayedStep ==
    ASSUME TypeServer, ServerInv, TypeClient, Published, TypeConsumer, ConsumerInv,
           ReceiveReplayed
    PROVE  ConsumerStep
  <1> DEFINE r == Len(replay)
             k == pos - r + 1
  <1>0. /\ at = "recv" /\ replay # << >> /\ TakeEvent(Head(replay))
        /\ replay' = Tail(replay)
        /\ UNCHANGED << proc, assigned, evicted, kind, pos, reply, missed, log >>
    BY DEF ReceiveReplayed, server, client, history
  <1>1. /\ replay \in Seq(Event) /\ r \in Nat /\ pos \in Nat /\ Len(log) \in Nat
        /\ r <= Capacity
    BY ConsumerTypes, ClientTypes DEF TypeConsumer
  <1>2. /\ r # 0 /\ replay' \in Seq(Event) /\ Len(replay') = r - 1
        /\ Head(replay) = replay[1]
        /\ \A i \in 1..r - 1 : replay'[i] = replay[i + 1]
    BY <1>0, <1>1, HeadTailProperties, EmptySeq
  <1>3. /\ pos <= Len(log) /\ r <= pos
        /\ \A i \in 1..r : replay[i] = log[pos - r + i]
    BY DEF ConsumerInv, Position
  <1>4. k \in 1..Len(log) /\ 1 \in 1..r /\ pos - (r - 1) = k /\ r - 1 <= Capacity
    BY <1>1, <1>2, <1>3
  <1>5. Head(replay) = log[k]
    BY <1>2, <1>3, <1>4
  <1>6. Position'
    <2>1. ASSUME NEW i \in 1..r - 1 PROVE replay'[i] = log[pos - (r - 1) + i]
      <3>1. i + 1 \in 1..r /\ pos - r + (i + 1) = pos - (r - 1) + i
        BY <1>1, <1>2
      <3>2. replay'[i] = log[pos - r + (i + 1)]
        BY <1>2, <1>3, <3>1
      <3> QED
        BY <3>1, <3>2
    <2>2. r - 1 <= pos
      BY <1>1, <1>2, <1>3
    <2>3. at' \in {"recv", "ended"}
      BY <1>0 DEF TakeEvent, End
    <2> HIDE DEF r
    <2> QED
      BY <1>0, <1>2, <1>3, <2>1, <2>2, <2>3 DEF Position
  <1>7. TakeEvent(log[k])
    BY <1>0, <1>5
  <1>8. pos' - Len(replay') = k /\ pos' \in Nat /\ Len(replay') <= Capacity
    BY <1>0, <1>1, <1>2, <1>4
  <1> QED
    BY <1>0, <1>2, <1>4, <1>6, <1>7, <1>8, TakeStep

LEMMA ReceiveLiveStep ==
    ASSUME TypeServer, ServerInv, TypeClient, Published, TypeConsumer, ConsumerInv,
           ReceiveLive
    PROVE  ConsumerStep
  <1>0. /\ at = "recv" /\ replay = << >> /\ TakeEvent(log[pos + 1])
        /\ pos < Len(log) /\ pos' = pos + 1
        /\ UNCHANGED << proc, assigned, evicted, kind, replay, reply, missed, log >>
    BY DEF ReceiveLive, server, client, history
  <1>1. /\ replay \in Seq(Event) /\ pos \in Nat /\ Len(log) \in Nat
        /\ Len(replay) = 0 /\ Len(replay') = 0 /\ Len(replay) <= Capacity
    BY <1>0, ConsumerTypes, ClientTypes DEF TypeConsumer
  <1>2. /\ pos + 1 \in 1..Len(log) /\ pos + 1 = pos - Len(replay) + 1
        /\ pos' - Len(replay') = pos + 1 /\ pos' \in Nat
    BY <1>0, <1>1
  <1>3. Position'
    <2>1. at' \in {"recv", "ended"}
      BY <1>0 DEF TakeEvent, End
    <2>2. pos' <= Len(log') /\ Len(replay') <= pos'
      BY <1>0, <1>1
    <2>3. \A i \in 1..Len(replay') : FALSE
      BY <1>1
    <2> QED
      BY <2>1, <2>2, <2>3 DEF Position
  <1>4. replay' \in Seq(Event) /\ Len(replay') <= Capacity
    BY <1>0, <1>1
  <1> QED
    BY <1>0, <1>2, <1>3, <1>4, TakeStep

-----------------------------------------------------------------------------
(* Every step                                                              *)

LEMMA InvParts ==
    Inv <=> TypeServer /\ ServerInv /\ UnsentGenuine /\ ClientInv /\ TypeConsumer
            /\ ConsumerInv
  BY TypeParts DEF Inv, InTransit, ClientInv

LEMMA InvNext ==
    ASSUME ServerStep, ClientStep, ConsumerStep
    PROVE  Inv'
  <1>1. TypeOK'
    BY DEF ServerStep, ClientStep, ClientInv, ConsumerStep, TypeOK, TypeServer,
           TypeClient, TypeConsumer
  <1> QED
    BY <1>1 DEF ServerStep, ClientStep, ClientInv, ConsumerStep, Inv, InTransit

LEMMA InitInv == Init => Inv
  <1> SUFFICES ASSUME Init PROVE Inv
    OBVIOUS
  <1> USE DEF Init
  <1>0. Cardinality(Streams) \in Nat /\ MaxSeq \in Nat
    BY FS_CardinalityType, Bounds
  <1>1. TypeServer
    <2>1. /\ 1 \in 1..MaxSeq + 1 /\ << >> \in Seq(Seqs) /\ Len(<< >>) = 0
          /\ Cardinality(Streams) \in 0..Cardinality(Streams)
          /\ << >> \in Seq({"output", "exited", "closed"}) /\ 0 <= MaxRetained
      BY <1>0
    <2>2. proc.output = << >> /\ Failed \in Event
      BY EventTypes
    <2> QED
      BY <2>1, <2>2 DEF TypeServer
  <1>2. TypeClient
    <2>1. << >> \in Seq(Event \cup {Disconnected}) /\ << >> \in Seq(Event) /\ 0 \in 0..MaxSeq
      BY <1>0
    <2>2. ordered \in [last : 0..MaxSeq, pending : SUBSET Event]
      BY <2>1
    <2> QED
      BY <2>1, <2>2 DEF TypeClient
  <1>3. TypeConsumer
    <2>1. 1 \in 1..MaxSeq + 1 /\ << >> \in Seq(Seqs) /\ << >> \in Seq(Event)
          /\ Len(<< >>) = 0 /\ 0 \in 0..MaxSeq /\ 0 <= Capacity
      BY <1>0
    <2>2. NoReply \in Reply
      BY <2>1 DEF NoReply, Reply
    <2> QED
      BY <2>1, <2>2 DEF TypeConsumer
  <1>4. Outputs = {} /\ Cardinality(Outputs) = 0 /\ Len(assigned) = 0
    <2>1. Outputs = {}
      BY DEF Outputs
    <2> QED
      BY <2>1, FS_EmptySet
  <1>5. OpenStreams = Streams
    BY DEF OpenStreams, Tasks
  <1>6. Numbering
    BY <1>4, <1>5 DEF Numbering, One, Tasks
  <1>7. Retention
    BY <1>4 DEF Retention
  <1>8. InTransit /\ Published
    BY <1>4 DEF InTransit, UnsentGenuine, InboxGenuine, PendingGenuine, Published
  <1>9. ConsumerInv
    BY <1>4 DEF ConsumerInv, AtCursor, ReceivedInOrder, NothingElseIsLost, CloseIsFinal,
                Position, Passed, Answer
  <1> QED
    BY <1>1, <1>2, <1>3, <1>6, <1>7, <1>8, <1>9, TypeParts DEF Inv, ServerInv

\* A step of the server that the client does not see.
LEMMA ServerStepSuffices ==
    ASSUME Inv, ServerStep, UNCHANGED << inbox, broken, client, consumer >>
    PROVE  Inv'
  <1>1. /\ TypeServer /\ ServerInv /\ ClientInv /\ TypeConsumer /\ ConsumerInv
        /\ TypeServer' /\ ServerInv' /\ UnsentGenuine' /\ Growth
    BY InvParts DEF ServerStep
  <1>2. TypeClient'
    BY <1>1 DEF ClientInv, TypeClient, client
  <1>3. ClientStep
    BY <1>1, <1>2, ClientUnchanged DEF client
  <1>4. ConsumerStep
    BY <1>1, <1>3, ConsumerUnchanged DEF ClientInv, ClientStep
  <1> QED
    BY <1>3, <1>4, InvNext

\* A step of the client that neither the server nor the consumer sees.
LEMMA ClientStepSuffices ==
    ASSUME Inv, ClientStep, UNCHANGED << server, consumer, history >>
    PROVE  Inv'
  <1>1. TypeServer /\ ServerInv /\ UnsentGenuine /\ ClientInv /\ TypeConsumer /\ ConsumerInv
    BY InvParts
  <1>2. ServerStep
    BY <1>1, ServerUnchanged DEF server, history, TypeServer
  <1>3. ConsumerStep
    BY <1>1, <1>2, ConsumerUnchanged DEF ClientInv, ClientStep, ServerStep
  <1> QED
    BY <1>2, <1>3, InvNext

\* A step of the consumer that the other two do not see.
LEMMA ConsumerStepSuffices ==
    ASSUME Inv, ConsumerStep, entry' \in {"none", "running", "gone"}, TypeClient',
           UNCHANGED << proc, task, unsent, assigned, evicted, inbox, ordered, log >>
    PROVE  Inv'
  <1>1. TypeServer /\ ServerInv /\ UnsentGenuine /\ ClientInv
    BY InvParts
  <1>2. ServerStep
    BY <1>1, ServerUnchanged
  <1>3. ClientStep
    BY <1>1, <1>2, ClientUnchanged DEF ServerStep
  <1> QED
    BY <1>2, <1>3, InvNext

\* One case for each action.
LEMMA InvStep == Inv /\ [Next]_vars => Inv'
  <1> SUFFICES ASSUME Inv, [Next]_vars PROVE Inv'
    OBVIOUS
  <1>0. /\ TypeServer /\ ServerInv /\ UnsentGenuine /\ ClientInv /\ TypeConsumer
        /\ ConsumerInv
    BY InvParts
  <1>0a. TypeClient /\ Published
    BY <1>0 DEF ClientInv
  <1>0b. Streams \subseteq Tasks /\ entry \in {"none", "running", "gone"}
    BY <1>0 DEF Tasks, TypeServer
  <1>1. ASSUME NEW s \in Streams, StreamChunk(s) PROVE Inv'
    <2>1. ServerStep
      BY <1>0, <1>1, StreamChunkStep
    <2> QED
      BY <1>1, <2>1, ServerStepSuffices DEF StreamChunk
  <1>2. ASSUME NEW s \in Streams, StreamEnds(s) PROVE Inv'
    <2>1. ServerStep
      BY <1>0, <1>2, StreamEndsStep
    <2> QED
      BY <1>2, <2>1, ServerStepSuffices DEF StreamEnds
  <1>3. ASSUME NEW t \in Tasks, SendNotification(t) PROVE Inv'
    <2>1. ServerStep
      BY <1>0, <1>3, SendNotificationStep
    <2>2. ClientStep
      BY <1>0, <1>3, <2>1, SendToInbox DEF ServerStep
    <2>3. ConsumerStep
      BY <1>0, <1>0a, <1>3, <2>1, <2>2, ConsumerUnchanged
         DEF ServerStep, ClientStep, SendNotification
    <2> QED
      BY <2>1, <2>2, <2>3, InvNext
  <1>4. ASSUME NEW t \in Tasks, MaybeEmitClosed(t) PROVE Inv'
    <2>1. ServerStep
      BY <1>0, <1>4, MaybeEmitClosedStep
    <2> QED
      BY <1>4, <2>1, ServerStepSuffices DEF MaybeEmitClosed
  <1>5. CASE Exits
    <2>1. ServerStep
      BY <1>0, <1>5, ExitsStep
    <2> QED
      BY <1>5, <2>1, ServerStepSuffices DEF Exits
  <1>6. CASE Forget
    <2>1. ServerStep
      BY <1>0, <1>6, ServerUnchanged DEF Forget, history
    <2> QED
      BY <1>6, <2>1, ServerStepSuffices DEF Forget
  <1>7. CASE Break
    BY <1>0, <1>7, BreakStep, ClientStepSuffices DEF Break
  <1>8. CASE HandleNotification
    BY <1>0, <1>8, HandleNotificationStep, ClientStepSuffices DEF HandleNotification
  <1>9. CASE LatchDisconnect
    BY <1>0, <1>9, LatchDisconnectStep, ClientStepSuffices DEF LatchDisconnect
  <1>10. CASE FailAllSessions
    <2>1. /\ UNCHANGED << inbox, broken, ordered, assigned, latched >> /\ reader' = "done"
          /\ session' \in {session, "removed"}
          /\ SetFailure \/ UNCHANGED << failure, log, woken >>
          /\ UNCHANGED << server, consumer, history >>
      BY <1>10 DEF FailAllSessions, history
    <2>2. ClientStep
      BY <1>0, <2>1, FailureStep DEF ClientInv, TypeClient
    <2> QED
      BY <2>1, <2>2, ClientStepSuffices
  <1>11. CASE DropProcess
    <2>1. /\ UNCHANGED << inbox, broken, ordered, assigned, latched, reader, failure, log,
                          woken, server, consumer, history >>
          /\ session' = "removed"
      BY <1>11 DEF DropProcess, history
    <2>2. ClientStep
      BY <1>0, <2>1, FailureStep DEF ClientInv, TypeClient
    <2> QED
      BY <2>1, <2>2, ClientStepSuffices
  <1>12. CASE \/ RegisterSession \/ StartProcess \/ StartFails \/ Started
              \/ ReadRefused \/ AwaitWake \/ ReceiveLagged
    <2>1. /\ UNCHANGED << proc, task, unsent, assigned, evicted, inbox, ordered, log >>
          /\ entry' \in {entry, "running"} /\ UNCHANGED << broken, reader, failure >>
          /\ session' \in {session, "registered", "removed"}
          /\ latched' \in {latched, latched \/ broken} /\ woken' \in {woken, FALSE}
      BY <1>12 DEF RegisterSession, StartProcess, StartFails, Started, ReadRefused,
         AwaitWake, ReceiveLagged, server, client, history
    <2>2. TypeServer' /\ TypeClient'
      <3>1. TypeServer'
        BY <1>0, <2>1 DEF TypeServer
      <3>2. latched' \in BOOLEAN /\ session' \in {"none", "registered", "removed"}
            /\ woken' \in BOOLEAN
        BY <1>0a, <2>1 DEF TypeClient
      <3> QED
        BY <1>0a, <2>1, <3>1, <3>2 DEF TypeClient
    <2>3. ConsumerStep
      BY <1>0, <1>0a, <1>12, <2>2, MoveSteps
    <2> QED
      BY <1>0b, <2>1, <2>2, <2>3, ConsumerStepSuffices
  <1>13. CASE ServerRead \/ Subscribe
    <2>1. UNCHANGED << entry, proc, task, unsent, assigned, evicted, inbox, broken, client >>
      BY <1>13 DEF ServerRead, Subscribe, server, history
    <2>2. TypeServer' /\ TypeClient'
      BY <1>0, <1>0a, <2>1 DEF TypeServer, TypeClient, client
    <2>3. ConsumerStep
      BY <1>0, <1>0a, <1>13, <2>2, ServerReadStep, SubscribeStep
    <2> QED
      BY <1>0b, <2>1, <2>2, <2>3, ConsumerStepSuffices DEF client
  <1>14. CASE ReadFails
    <2>1. UNCHANGED << entry, proc, task, unsent, assigned, evicted >>
      BY <1>14 DEF ReadFails, server, history
    <2>2. TypeServer'
      BY <1>0, <2>1 DEF TypeServer
    <2>3. ClientStep /\ ConsumerStep
      BY <1>0, <1>14, <2>2, ReadFailsStep
    <2>4. ServerStep
      BY <1>0, <1>0b, <2>1, ServerUnchanged
    <2> QED
      BY <2>3, <2>4, InvNext
  <1>15. CASE RecoverLagged \/ PollOutput
    <2>1. PICK place \in {"recv", "wait"} : Accept(place)
      BY <1>15 DEF RecoverLagged, PollOutput
    <2>2. UNCHANGED << entry, proc, task, unsent, assigned, evicted, inbox, broken, client >>
      BY <2>1 DEF Accept, server, history
    <2>3. TypeClient'
      BY <1>0a, <2>2 DEF TypeClient, client
    <2>4. ConsumerStep
      BY <1>0, <1>0a, <2>1, AcceptStep
    <2> QED
      BY <1>0b, <2>2, <2>3, <2>4, ConsumerStepSuffices DEF client
  <1>16. CASE ReceiveReplayed \/ ReceiveLive
    <2>1. UNCHANGED << entry, proc, task, unsent, assigned, evicted, inbox, broken, client >>
      BY <1>16 DEF ReceiveReplayed, ReceiveLive, server, history
    <2>2. TypeClient'
      BY <1>0a, <2>1 DEF TypeClient, client
    <2>3. ConsumerStep
      BY <1>0, <1>0a, <1>16, ReceiveReplayedStep, ReceiveLiveStep
    <2> QED
      BY <1>0b, <2>1, <2>2, <2>3, ConsumerStepSuffices DEF client
  <1>17. CASE UNCHANGED vars
    <2>1. UNCHANGED << server, inbox, broken, client, consumer, history >>
      BY <1>17 DEF vars
    <2>2. ServerStep
      BY <1>0, <1>0b, <2>1, ServerUnchanged DEF server, history
    <2> QED
      BY <2>1, <2>2, ServerStepSuffices
  <1> QED
    BY <1>1, <1>2, <1>3, <1>4, <1>5, <1>6, <1>7, <1>8, <1>9, <1>10, <1>11, <1>12,
       <1>13, <1>14, <1>15, <1>16, <1>17
       DEF Next, Serve, Reader, Start, Read, Receive

LEMMA AlwaysInv == Spec => []Inv
  BY InitInv, InvStep, PTL DEF Spec

\* The numbers in the log ascend and leave none out, so the k-th is k.
LEMMA InvPublishedInOrder == Inv => PublishedInOrder
  <1> SUFFICES ASSUME Inv PROVE PublishedInOrder
    OBVIOUS
  <1>0. TypeServer /\ TypeClient /\ Published /\ PendingGenuine
    BY InvParts DEF ClientInv
  <1> DEFINE P == {i \in 1..Len(log) : log[i] # Failed}
             sub == Numbered
             N == Len(sub)
             last == ordered.last
  <1>1. /\ log \in Seq(Event) /\ Len(log) \in Nat /\ last \in Nat
        /\ Len(assigned) \in Nat /\ last <= Len(assigned)
    BY <1>0, ClientTypes, ServerTypes DEF TypeClient, PendingGenuine
  <1>2. /\ sub \in Seq(Event) /\ N \in Nat /\ DOMAIN sub = 1..N
        /\ \A k \in 1..N : Place(P, k) \in P /\ sub[k] = log[Place(P, k)]
        /\ \A k, l \in 1..N : k < l => Place(P, k) < Place(P, l)
        /\ \A i \in P : \E k \in 1..N : Place(P, k) = i
    <2>1. P \in SUBSET (1..Len(log))
      OBVIOUS
    <2>2. sub = Subsequence(log, P)
      BY DEF Numbered
    <2> HIDE DEF P, sub
    <2>3. /\ sub \in Seq(Event) /\ N \in Nat
          /\ \A k \in 1..N : Place(P, k) \in P /\ sub[k] = log[Place(P, k)]
          /\ \A k, l \in 1..N : k < l => Place(P, k) < Place(P, l)
          /\ \A i \in P : \E k \in 1..N : Place(P, k) = i
      BY <1>1, <2>1, <2>2, SubsequenceFacts
    <2>4. DOMAIN sub = 1..N
      BY <2>3, LenProperties
    <2> QED
      BY <2>3, <2>4
  <1>3. \A i \in P : /\ i \in 1..Len(log) /\ log[i] # Failed /\ Genuine(log[i])
                      /\ log[i] = Ev(log[i].seq) /\ log[i].seq \in Nat /\ log[i].seq >= 1
                      /\ log[i].seq <= last
    <2> TAKE i \in P
    <2>1. i \in 1..Len(log) /\ log[i] # Failed
      OBVIOUS
    <2>2. Genuine(log[i]) /\ log[i].seq <= last
      BY <1>0, <2>1 DEF Published
    <2>3. log[i] = Ev(log[i].seq) /\ log[i].seq \in 1..Len(assigned)
      BY <1>0, <2>2, GenuineFacts
    <2> QED
      BY <1>1, <2>1, <2>2, <2>3
  <1>4. \A i, j \in P : i < j => log[i].seq < log[j].seq
    BY <1>0, <1>3 DEF Published
  <1>5. \A n \in 1..last : \E i \in P : log[i].seq = n
    <2> TAKE n \in 1..last
    <2>1. PICK i \in 1..Len(log) : log[i] = Ev(n)
      BY <1>0 DEF Published
    <2>2. log[i].seq = n /\ n # 0 /\ Failed.seq = 0
      BY <1>1, <2>1, EventTypes DEF Ev
    <2> QED
      BY <2>2
  <1> HIDE DEF P, sub, N, last
  <1>6. /\ \A k \in 1..N : /\ sub[k] = Ev(sub[k].seq) /\ sub[k].seq \in Nat
                             /\ sub[k].seq >= 1 /\ sub[k].seq <= last
        /\ \A k, l \in 1..N : k < l => sub[k].seq < sub[l].seq
        /\ \A n \in 1..last : \E k \in 1..N : sub[k].seq = n
    <2>1. \A k, l \in 1..N : k < l => sub[k].seq < sub[l].seq
      BY <1>2, <1>4
    <2>2. ASSUME NEW n \in 1..last PROVE \E k \in 1..N : sub[k].seq = n
      <3>1. PICK i \in P : log[i].seq = n
        BY <1>5
      <3>2. PICK k \in 1..N : Place(P, k) = i
        BY <1>2
      <3> QED
        BY <1>2, <3>1, <3>2
    <2> QED
      BY <1>2, <1>3, <2>1, <2>2
  <1>7. \A k \in 1..N : sub[k].seq = k
    <2> DEFINE Bad == {k \in Nat : k \in 1..N /\ sub[k].seq # k}
    <2> SUFFICES ASSUME Bad # {} PROVE FALSE
      BY <1>2
    <2>1. PICK k \in Bad : \A l \in Bad : k <= l
      BY LeastNumber
    <2>2. k \in Nat /\ k \in 1..N /\ sub[k].seq # k
      OBVIOUS
    <2>3. \A l \in 1..N : l < k => sub[l].seq = l
      <3>1. \A l \in 1..N : l < k => l \in Nat /\ ~(k <= l)
        BY <1>2, <2>2
      <3> QED
        BY <2>1, <3>1
    <2> HIDE DEF Bad
    <2>4. sub[k].seq >= k
      <3>1. CASE k = 1
        BY <1>6, <2>2, <3>1
      <3>2. CASE k # 1
        <4>1. k - 1 \in 1..N /\ k - 1 < k
          BY <1>2, <2>2, <3>2
        <4>2. sub[k - 1].seq = k - 1 /\ sub[k - 1].seq < sub[k].seq
          BY <1>6, <2>2, <2>3, <4>1
        <4> QED
          BY <1>6, <2>2, <4>2
      <3> QED
        BY <3>1, <3>2
    <2>5. sub[k].seq \in Nat /\ sub[k].seq <= last /\ k < sub[k].seq
      BY <1>6, <2>2, <2>4
    <2>6. k \in 1..last
      BY <1>1, <2>2, <2>5 DEF last
    <2>7. PICK l \in 1..N : sub[l].seq = k
      BY <1>6, <2>6
    <2>8. l \in Nat
      BY <1>2
    <2>9. CASE l < k
      BY <2>2, <2>3, <2>7, <2>8, <2>9
    <2>10. CASE l = k
      BY <2>2, <2>7, <2>10
    <2>11. CASE k < l
      <3>1. sub[k].seq < k
        BY <1>6, <2>2, <2>7, <2>11
      <3> QED
        BY <2>2, <2>5, <3>1
    <2> QED
      BY <2>2, <2>8, <2>9, <2>10, <2>11
  <1>8. N <= Len(assigned)
    <2>1. CASE N = 0
      BY <1>1, <2>1
    <2>2. CASE N # 0
      <3>1. N \in 1..N
        BY <1>2, <2>2
      <3>2. N <= last
        BY <1>6, <1>7, <3>1
      <3> QED
        BY <1>1, <1>2, <3>2 DEF last
    <2> QED
      BY <2>1, <2>2
  <1>9. \A k \in 1..N : sub[k] = Ev(k)
    BY <1>6, <1>7
  <1> QED
    BY <1>2, <1>8, <1>9 DEF PublishedInOrder, Ev, sub, N

-----------------------------------------------------------------------------
(* The theorems                                                            *)

\* Every variable of the server, the client and the consumer keeps its type;
\* the server retains no more than its limit and the replay is no longer than
\* the log (RETAINED_OUTPUT_BYTES_PER_PROCESS, PROCESS_EVENT_CHANNEL_CAPACITY).
THEOREM TypeCorrect == Spec => []TypeOK
  <1>1. Inv => TypeOK
    BY DEF Inv
  <1> QED
    BY <1>1, AlwaysInv, PTL

\* In whatever order the notifications arrive, and wherever the connection
\* ends, the log gets the events in the order of their numbers, without a gap
\* and as the server numbered them (publish_ordered_event).
THEOREM EventsArePublishedInOrder == Spec => []PublishedInOrder
  BY InvPublishedInOrder, AlwaysInv, PTL

\* Replay, live channel and reads together never give a consumer a chunk twice
\* or after a later one (should_accept_seq, recover_lagged_events).
THEOREM ChunksAreReceivedInOrder == Spec => []ReceivedInOrder
  <1>1. Inv => ReceivedInOrder
    BY DEF Inv, ConsumerInv
  <1> QED
    BY <1>1, AlwaysInv, PTL

\* A chunk below the cursor that the consumer did not get had been evicted by
\* the server, or was out of the log before the consumer subscribed
\* (recover_lagged_events, exec_read).
THEOREM OnlyDroppedChunksAreLost == Spec => []NothingElseIsLost
  <1>1. Inv => NothingElseIsLost
    BY DEF Inv, ConsumerInv
  <1> QED
    BY <1>1, AlwaysInv, PTL

\* The end is reported after the exit, after the last stream and after the
\* last chunk (maybe_emit_closed, the closed flag of exec_read).
THEOREM ClosingIsTheLastWord == Spec => []CloseIsFinal
  <1>1. Inv => CloseIsFinal
    BY DEF Inv, ConsumerInv
  <1> QED
    BY <1>1, AlwaysInv, PTL
=============================================================================
