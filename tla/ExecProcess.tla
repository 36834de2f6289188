----------------------------- MODULE ExecProcess -----------------------------
(***************************************************************************)
(* A process on a remote executor and the consumer of its output.          *)
(*                                                                         *)
(* On the server (exec-server/src/local_process.rs) three tasks, one per   *)
(* output stream and one that waits for the exit, number their events under *)
(* a lock and send the notifications after they have let go of it.  The    *)
(* client (client.rs, process.rs) puts the events in order again and       *)
(* publishes them in a bounded log.  One of two consumers follows: the MCP *)
(* transport (rmcp-client/src/executor_process_transport.rs) receives the  *)
(* events and falls back to reading when it lags; unified exec (core/src/  *)
(* unified_exec/process.rs) reads whenever it is woken.  The connection may *)
(* break at any time.  This client never reconnects, so what the server    *)
(* does after that reaches nobody and is left out.                         *)
(*                                                                         *)
(* A chunk of output is its number.  Chunks have one size, so the limits   *)
(* in bytes are numbers of chunks; the log is limited in events only.      *)
(***************************************************************************)
EXTENDS Naturals, Sequences, FiniteSets, Subsequences

CONSTANTS
    Streams,      \* stdout and stderr
    MaxChunks,    \* bound on the chunks the process writes
    MaxRetained,  \* RETAINED_OUTPUT_BYTES_PER_PROCESS, in chunks
    Capacity      \* PROCESS_EVENT_CHANNEL_CAPACITY

ASSUME ExecAssumption ==
    /\ IsFiniteSet(Streams)
    /\ "exit" \notin Streams
    /\ MaxChunks \in Nat
    /\ MaxRetained \in Nat \ {0}
    /\ Capacity \in Nat \ {0}

Tasks == Streams \cup {"exit"}
MaxSeq == MaxChunks + 2
Seqs == 1..MaxSeq

\* Failed has no number.
Event == [kind : {"output", "exited", "closed"}, seq : Seqs]
           \cup {[kind |-> "failed", seq |-> 0]}
Failed == [kind |-> "failed", seq |-> 0]

\* What arrives on the connection: notifications, then perhaps its end.
Disconnected == [kind |-> "disconnected", seq |-> 0]

\* ReadResponse.  A synthesized failure has no use for its next_seq.
Reply == [chunks : Seq(Seqs), next : 1..MaxSeq + 1, closed : BOOLEAN,
          failure : BOOLEAN]
NoReply == [chunks |-> << >>, next |-> 1, closed |-> FALSE, failure |-> FALSE]
FailureReply == [chunks |-> << >>, next |-> 1, closed |-> TRUE, failure |-> TRUE]

VARIABLES
    entry,      \* the server's entry for the process
    proc,       \* RunningProcess
    task,       \* where each server task is
    unsent,     \* the notification it is about to send
    inbox,      \* notifications on their way to the client's reader
    broken,     \* the connection is gone
    latched,    \* disconnected of the client
    reader,     \* where the client's reader task is
    session,    \* whether the session is registered
    ordered,    \* last_published_seq and the events held back
    log,        \* every event published
    failure,    \* failure of the session
    woken,      \* the wake channel has changed since it was last seen
    kind,       \* which consumer it is
    at,         \* where the consumer is
    replay,     \* events it has still to replay
    pos,        \* events of the log it has passed on the live channel
    cursor,     \* last_seq or after_seq
    reply,      \* the answer to its read
    got,        \* the chunks it has received
    outcome,    \* how it ended
    assigned,   \* history: the kinds of all events by number
    evicted,    \* history: chunks the server no longer retains
    missed      \* history: chunks published before the replay began

server == << entry, proc, task, unsent >>
history == << assigned, evicted >>
client == << latched, reader, session, ordered, log, failure, woken >>
consumer == << kind, at, replay, pos, cursor, reply, got, outcome, missed >>
vars == << server, inbox, broken, client, consumer, history >>

TypeOK ==
    /\ entry \in {"none", "running", "gone"}
    /\ proc \in [next : 1..MaxSeq + 1, output : Seq(Seqs), exit : BOOLEAN,
                 open : 0..Cardinality(Streams), closed : BOOLEAN]
    /\ Len(proc.output) <= MaxRetained
    /\ task \in [Tasks -> {"run", "send", "close", "sendClosed", "done"}]
    /\ unsent \in [Tasks -> Event]
    /\ inbox \in Seq(Event \cup {Disconnected})
    /\ broken \in BOOLEAN /\ latched \in BOOLEAN
    /\ reader \in {"run", "latched", "done"}
    /\ session \in {"none", "registered", "removed"}
    /\ ordered \in [last : 0..MaxSeq, pending : SUBSET Event]
    /\ log \in Seq(Event)
    /\ failure \in BOOLEAN /\ woken \in BOOLEAN
    /\ kind \in {"stream", "poll"}
    /\ at \in {"register", "exec", "started", "subscribe", "recv", "ask",
               "answered", "refused", "wait", "ended"}
    /\ replay \in Seq(Event) /\ Len(replay) <= Capacity
    /\ pos \in Nat
    /\ cursor \in 0..MaxSeq
    /\ reply \in Reply
    /\ got \in Seq(Seqs)
    /\ outcome \in {"none", "closed", "failed"}
    /\ assigned \in Seq({"output", "exited", "closed"})
    /\ evicted \subseteq Seqs /\ missed \subseteq Seqs

Init ==
    /\ entry = "none"
    /\ proc = [next |-> 1, output |-> << >>, exit |-> FALSE,
               open |-> Cardinality(Streams), closed |-> FALSE]
    /\ task = [t \in Tasks |-> "run"]
    /\ unsent = [t \in Tasks |-> Failed]
    /\ inbox = << >>
    /\ broken = FALSE /\ latched = FALSE
    /\ reader = "run"
    /\ session = "none"
    /\ ordered = [last |-> 0, pending |-> {}]
    /\ log = << >>
    /\ failure = FALSE /\ woken = FALSE
    /\ kind \in {"stream", "poll"}
    /\ at = "register"
    /\ replay = << >> /\ pos = 0 /\ cursor = 0
    /\ reply = NoReply
    /\ got = << >> /\ outcome = "none"
    /\ assigned = << >> /\ evicted = {} /\ missed = {}

-----------------------------------------------------------------------------
(* The server *)

Alive == entry = "running" /\ ~broken

\* Takes the next number for an event of task t, which is then to be sent.
Number(t, k, place) ==
    /\ unsent' = [unsent EXCEPT ![t] = [kind |-> k, seq |-> proc.next]]
    /\ assigned' = Append(assigned, k)
    /\ task' = [task EXCEPT ![t] = place]

\* Mutant: one chunk too many is kept.
RetainedOneMore(all) == IF Len(all) > MaxRetained + 1 THEN Tail(all) ELSE all

\* The oldest chunk gives way when the retained ones pass the limit.
Retained(all) == IF Len(all) > MaxRetained THEN Tail(all) ELSE all

\* stream_output: one chunk, under the lock.
StreamChunk(s) ==
    /\ Alive
    /\ task[s] = "run"
    /\ Cardinality({n \in DOMAIN assigned : assigned[n] = "output"}) < MaxChunks
    /\ Number(s, "output", "send")
    /\ LET all == Append(proc.output, proc.next)
       IN  /\ proc' = [proc EXCEPT !.next = @ + 1, !.output = Retained(all)]
           /\ evicted' = evicted \cup {all[i] : i \in 1..Len(all) - Len(Retained(all))}
    /\ UNCHANGED << entry, inbox, broken, client, consumer >>

\* finish_output_stream: the stream has ended.
StreamEnds(s) ==
    /\ Alive
    /\ task[s] = "run"
    /\ proc' = [proc EXCEPT !.open = @ - 1]
    /\ task' = [task EXCEPT ![s] = "close"]
    /\ UNCHANGED << entry, unsent, inbox, broken, client, consumer, history >>

\* watch_exit
Exits ==
    /\ Alive
    /\ task["exit"] = "run"
    /\ Number("exit", "exited", "send")
    /\ proc' = [proc EXCEPT !.next = @ + 1, !.exit = TRUE]
    /\ UNCHANGED << entry, inbox, broken, client, consumer, evicted >>

\* A task sends its notification.
SendNotification(t) ==
    /\ ~broken
    /\ task[t] \in {"send", "sendClosed"}
    /\ inbox' = Append(inbox, unsent[t])
    /\ task' = [task EXCEPT ![t] =
          IF task[t] = "sendClosed" THEN "done"
          ELSE IF t = "exit" THEN "close" ELSE "run"]
    /\ unsent' = [unsent EXCEPT ![t] = Failed]
    /\ UNCHANGED << entry, proc, broken, client, consumer, history >>

\* Mutant: the output streams are not waited for.
CloseOnExit(t) ==
    /\ Alive
    /\ task[t] = "close"
    /\ \/ /\ ~proc.closed /\ proc.exit
          /\ proc' = [proc EXCEPT !.next = @ + 1, !.closed = TRUE]
          /\ Number(t, "closed", "sendClosed")
       \/ /\ proc.closed \/ ~proc.exit
          /\ task' = [task EXCEPT ![t] = "done"]
          /\ UNCHANGED << proc, unsent, assigned >>
    /\ UNCHANGED << entry, inbox, broken, client, consumer, evicted >>

MaybeEmitClosed(t) ==
    /\ Alive
    /\ task[t] = "close"
    /\ LET closes == ~proc.closed /\ proc.open = 0 /\ proc.exit
       IN  \/ /\ closes
              /\ proc' = [proc EXCEPT !.next = @ + 1, !.closed = TRUE]
              /\ Number(t, "closed", "sendClosed")
           \/ /\ ~closes
              /\ task' = [task EXCEPT ![t] = "done"]
              /\ UNCHANGED << proc, unsent, assigned >>
    /\ UNCHANGED << entry, inbox, broken, client, consumer, evicted >>

\* A closed process is forgotten after EXITED_PROCESS_RETENTION.
Forget ==
    /\ Alive
    /\ proc.closed
    /\ entry' = "gone"
    /\ UNCHANGED << proc, task, unsent, inbox, broken, client, consumer, history >>

\* The transport fails, while that matters to the consumer: what has not
\* reached the client is lost.
Break ==
    /\ ~broken /\ at # "ended"
    /\ broken' = TRUE
    /\ \E n \in 0..Len(inbox) :
            inbox' = Append(SubSeq(inbox, 1, n), Disconnected)
    /\ UNCHANGED << server, client, consumer, history >>

-----------------------------------------------------------------------------
(* The client *)

\* Mutant: an event is published as soon as it arrives.
PublishAtOnce(e) ==
    IF e.seq <= ordered.last
    THEN [last |-> ordered.last, pending |-> {}, ready |-> << >>]
    ELSE [last |-> e.seq, pending |-> {}, ready |-> << e >>]

\* publish_ordered_event: e and what was waiting for it, if no earlier event
\* is missing.
PublishOrdered(e) ==
    LET held == ordered.pending \cup {e}
        Has(n) == \E h \in held : h.seq = n
        upto == CHOOSE n \in ordered.last..MaxSeq :
                    (\A i \in ordered.last + 1..n : Has(i)) /\ ~Has(n + 1)
    IN  IF e.seq <= ordered.last
        THEN [last |-> ordered.last, pending |-> ordered.pending, ready |-> << >>]
        ELSE [last |-> upto,
              pending |-> {h \in held : h.seq > upto},
              ready |-> [i \in 1..upto - ordered.last |->
                            CHOOSE h \in held : h.seq = ordered.last + i]]

\* handle_server_notification: the session is routed until its closed event
\* has been published, not until it has arrived.
HandleNotification ==
    /\ reader = "run"
    /\ inbox # << >> /\ Head(inbox) # Disconnected
    /\ inbox' = Tail(inbox)
    /\ \/ /\ session = "registered"
          /\ LET p == PublishOrdered(Head(inbox))
             IN  /\ ordered' = [last |-> p.last, pending |-> p.pending]
                 /\ log' = log \o p.ready
                 /\ session' = IF \E i \in DOMAIN p.ready : p.ready[i].kind = "closed"
                               THEN "removed" ELSE session
          /\ woken' = TRUE
       \/ /\ session # "registered"
          /\ UNCHANGED << ordered, log, session, woken >>
    /\ UNCHANGED << server, broken, latched, reader, failure, consumer, history >>

\* Mutant: the poller is not woken.
FailQuietly ==
    /\ failure' = TRUE
    /\ log' = IF failure THEN log ELSE Append(log, Failed)
    /\ UNCHANGED woken

SetFailure ==
    /\ failure' = TRUE
    /\ log' = IF failure THEN log ELSE Append(log, Failed)
    /\ woken' = TRUE

\* The reader comes to the end of the connection: record_disconnected ...
LatchDisconnect ==
    /\ reader = "run"
    /\ inbox # << >> /\ Head(inbox) = Disconnected
    /\ inbox' = Tail(inbox)
    /\ latched' = TRUE
    /\ reader' = "latched"
    /\ UNCHANGED << server, broken, session, ordered, log, failure, woken,
                    consumer, history >>

\* ... and fail_all_sessions.
FailAllSessions ==
    /\ reader = "latched"
    /\ reader' = "done"
    /\ \/ session = "registered" /\ session' = "removed" /\ SetFailure
       \/ session # "registered" /\ UNCHANGED << session, failure, log, woken >>
    /\ UNCHANGED << server, inbox, broken, latched, ordered, consumer, history >>

-----------------------------------------------------------------------------
(* Starting a process: RemoteProcess::start *)

Goto(place) == at' = place
End(how) == at' = "ended" /\ outcome' = how

\* register_session, before the server is asked: nothing of what the process
\* does is missed.
RegisterSession ==
    /\ at = "register"
    /\ \/ ~latched /\ session' = "registered" /\ Goto("exec") /\ UNCHANGED outcome
       \/ latched /\ End("failed") /\ UNCHANGED session
    /\ UNCHANGED << server, inbox, broken, latched, reader, ordered, log,
                    failure, woken, kind, replay, pos, cursor, reply, got,
                    missed, history >>

\* start_process on the server
StartProcess ==
    /\ at = "exec" /\ ~broken
    /\ entry' = "running"
    /\ Goto("started")
    /\ UNCHANGED << proc, task, unsent, inbox, broken, client, kind, replay,
                    pos, cursor, reply, got, outcome, missed, history >>

\* The process cannot be started, or the connection is lost before the answer.
StartFails ==
    /\ at \in {"exec", "started"}
    /\ at = "started" => broken
    /\ latched' = (latched \/ broken)
    /\ session' = "removed"
    /\ End("failed")
    /\ UNCHANGED << server, inbox, broken, reader, ordered, log, failure,
                    woken, kind, replay, pos, cursor, reply, got, missed, history >>

\* The answer arrives.  The poller subscribes to the wake channel, which takes
\* what it holds as seen, and reads at once.
Started ==
    /\ at = "started"
    /\ \/ kind = "stream" /\ Goto("subscribe") /\ UNCHANGED woken
       \/ kind = "poll" /\ Goto("ask") /\ woken' = FALSE
    /\ UNCHANGED << server, inbox, broken, latched, reader, session, ordered,
                    log, failure, kind, replay, pos, cursor, reply, got,
                    outcome, missed, history >>

-----------------------------------------------------------------------------
(* Reading: Session::read *)

\* The retained chunks that are newer than seq.
After(seq) ==
    Subsequence(proc.output, {i \in 1..Len(proc.output) : proc.output[i] > seq})

\* exec_read on the server
ServerRead ==
    /\ at = "ask" /\ ~failure /\ ~broken
    /\ \/ /\ entry = "running"
          /\ reply' = [chunks |-> After(cursor),
                       next |-> IF proc.output # << >>
                                   /\ proc.output[Len(proc.output)] > cursor
                                THEN proc.output[Len(proc.output)] + 1
                                ELSE proc.next,
                       closed |-> proc.closed, failure |-> FALSE]
          /\ Goto("answered")
       \/ entry # "running" /\ Goto("refused") /\ UNCHANGED reply
    /\ UNCHANGED << server, inbox, broken, client, kind, replay, pos, cursor,
                    got, outcome, missed, history >>

\* The session has failed, or fails now because the call does.
ReadFails ==
    /\ at = "ask"
    /\ \/ failure /\ UNCHANGED << latched, failure, log, woken >>
       \/ ~failure /\ broken /\ SetFailure /\ latched' = TRUE
    /\ reply' = FailureReply
    /\ Goto("answered")
    /\ UNCHANGED << server, inbox, broken, reader, session, ordered, kind,
                    replay, pos, cursor, got, outcome, missed, history >>

\* The consumer takes the chunks of the answer and goes on at place.
Accept(place) ==
    /\ at = "answered"
    /\ got' = got \o reply.chunks
    /\ cursor' = IF reply.failure \/ reply.next - 1 < cursor THEN cursor
                 ELSE reply.next - 1
    /\ \/ reply.failure /\ End("failed")
       \/ ~reply.failure /\ reply.closed /\ End("closed")
       \/ ~reply.failure /\ ~reply.closed /\ Goto(place) /\ UNCHANGED outcome
    /\ reply' = NoReply
    /\ UNCHANGED << server, inbox, broken, client, kind, replay, pos, missed,
                    history >>

\* recover_lagged_events
RecoverLagged == kind = "stream" /\ Accept("recv")

\* The loop of the output task of unified exec
PollOutput == kind = "poll" /\ Accept("wait")

ReadRefused ==
    /\ at = "refused"
    /\ End("failed")
    /\ UNCHANGED << server, inbox, broken, client, kind, replay, pos, cursor,
                    reply, got, missed, history >>

AwaitWake ==
    /\ at = "wait" /\ woken
    /\ woken' = FALSE
    /\ Goto("ask")
    /\ UNCHANGED << server, inbox, broken, latched, reader, session, ordered,
                    log, failure, kind, replay, pos, cursor, reply, got,
                    outcome, missed, history >>

-----------------------------------------------------------------------------
(* Receiving events: ExecutorProcessTransport *)

\* ExecProcessEventLog::subscribe: the events the log still has are replayed.
Subscribe ==
    /\ at = "subscribe"
    /\ LET gone == IF Len(log) > Capacity THEN Len(log) - Capacity ELSE 0
       IN  /\ replay' = SubSeq(log, gone + 1, Len(log))
           /\ missed' = {log[i].seq : i \in {j \in 1..gone : log[j].kind = "output"}}
    /\ pos' = Len(log)
    /\ Goto("recv")
    /\ UNCHANGED << server, inbox, broken, client, kind, cursor, reply, got,
                    outcome, history >>

\* Mutant: an event that a read has delivered already is taken again.
TakeAgain(e) ==
    /\ cursor' = IF e.seq > cursor THEN e.seq ELSE cursor
    /\ got' = IF e.kind = "output" THEN Append(got, e.seq) ELSE got
    /\ \/ e.kind = "closed" /\ End("closed")
       \/ e.kind = "failed" /\ End("failed")
       \/ e.kind \notin {"closed", "failed"} /\ UNCHANGED << at, outcome >>

TakeEvent(e) ==
    /\ cursor' = IF e.seq > cursor THEN e.seq ELSE cursor
    /\ got' = IF e.kind = "output" /\ e.seq > cursor THEN Append(got, e.seq)
                                                     ELSE got
    /\ \/ e.kind = "closed" /\ End("closed")
       \/ e.kind = "failed" /\ End("failed")
       \/ e.kind \notin {"closed", "failed"} /\ UNCHANGED << at, outcome >>

ReceiveReplayed ==
    /\ at = "recv" /\ replay # << >>
    /\ TakeEvent(Head(replay))
    /\ replay' = Tail(replay)
    /\ UNCHANGED << server, inbox, broken, client, kind, pos, reply, missed,
                    history >>

ReceiveLive ==
    /\ at = "recv" /\ replay = << >>
    /\ pos < Len(log) /\ Len(log) - pos <= Capacity
    /\ TakeEvent(log[pos + 1])
    /\ pos' = pos + 1
    /\ UNCHANGED << server, inbox, broken, client, kind, replay, reply, missed,
                    history >>

\* Mutant: the lost events are not asked for.
LagIgnored ==
    /\ at = "recv" /\ replay = << >>
    /\ Len(log) - pos > Capacity
    /\ pos' = Len(log) - Capacity
    /\ UNCHANGED << server, inbox, broken, client, kind, at, replay, cursor,
                    reply, got, outcome, missed, history >>

\* The live channel has dropped events: they are read from the server.
ReceiveLagged ==
    /\ at = "recv" /\ replay = << >>
    /\ Len(log) - pos > Capacity
    /\ pos' = Len(log) - Capacity
    /\ Goto("ask")
    /\ UNCHANGED << server, inbox, broken, client, kind, replay, cursor, reply,
                    got, outcome, missed, history >>

\* The handle is dropped: the session is unregistered.
DropProcess ==
    /\ at = "ended" /\ session = "registered"
    /\ session' = "removed"
    /\ UNCHANGED << server, inbox, broken, latched, reader, ordered, log,
                    failure, woken, consumer, history >>

-----------------------------------------------------------------------------
Serve(t) == SendNotification(t) \/ MaybeEmitClosed(t)
Reader == HandleNotification \/ LatchDisconnect \/ FailAllSessions
Start == RegisterSession \/ StartProcess \/ StartFails \/ Started
Read ==
    \/ ServerRead \/ ReadFails \/ ReadRefused
    \/ RecoverLagged \/ PollOutput \/ AwaitWake
Receive == Subscribe \/ ReceiveReplayed \/ ReceiveLive \/ ReceiveLagged

Next ==
    \/ \E s \in Streams : StreamChunk(s) \/ StreamEnds(s)
    \/ \E t \in Tasks : Serve(t)
    \/ Exits \/ Forget \/ Break
    \/ Reader \/ Start \/ Read \/ Receive \/ DropProcess

Spec == Init /\ [][Next]_vars

\* The tasks of both sides run; neither the process nor the network owes
\* anything.  There are finitely many such steps, so fairness to all of them
\* together is enough.
Run == (\E t \in Tasks : Serve(t)) \/ Reader \/ Start \/ Read \/ Receive
FairSpec == Spec /\ WF_vars(Run)

-----------------------------------------------------------------------------
(* Properties *)

\* Notifications arrive in any order and the connection may end after any of
\* them: what is published, leaving out the failure, is a prefix of what the
\* server has numbered (publish_ordered_event).
Numbered == Subsequence(log, {i \in 1..Len(log) : log[i] # Failed})
PublishedInOrder ==
    /\ Len(Numbered) <= Len(assigned)
    /\ \A i \in DOMAIN Numbered :
          Numbered[i] = [kind |-> assigned[i], seq |-> i]

\* No chunk reaches a consumer twice or out of order, whether it comes from
\* the replay, the live channel or a read (should_accept_seq, the cursors).
ReceivedInOrder ==
    \A i, j \in DOMAIN got : i < j => got[i] < got[j]

\* A consumer passes over a chunk only if the server has dropped it by now, or
\* the log had when the consumer subscribed (recover_lagged_events, exec_read).
ReceivedSet == {got[i] : i \in DOMAIN got}
NothingElseIsLost ==
    \A n \in DOMAIN assigned :
        assigned[n] = "output" /\ n <= cursor => n \in ReceivedSet \cup evicted \cup missed

\* A consumer that is told that the process has closed has passed all of its
\* output, and none will come (maybe_emit_closed, exec_read).
CloseIsFinal ==
    outcome = "closed" =>
        /\ proc.closed /\ proc.exit
        /\ \A n \in DOMAIN assigned : assigned[n] = "output" => n <= cursor

\* When the process and its streams have ended, or the connection is lost, the
\* consumer is told in the end, by an event, a wake or a failing call.
EveryConsumerEnds ==
    (proc.exit /\ proc.open = 0) \/ broken ~> outcome # "none"

\* "the process event log will replay anything that landed before this
\* subscriber was attached."
ReplayIsComplete == missed = {}

\* "queued process notifications stay ordered before disconnect": no event is
\* published after the failure.
FailureIsLast ==
    \A i \in DOMAIN log : log[i] = Failed => i = Len(log)
=============================================================================
