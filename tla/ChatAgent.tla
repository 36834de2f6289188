------------------------------ MODULE ChatAgent ------------------------------
(***************************************************************************)
(* The chat agent: the run loop of chat-agent-core and the desktop         *)
(* commands that start, cancel, resume and confirm its runs.               *)
(*                                                                         *)
(* A run has a record in the registry (shared state, cancelled flag, the   *)
(* request it was started with).  An execution is the task a command       *)
(* spawns: it works on its own copy of the run state and copies it into    *)
(* the shared one at every callback.  Executions interleave where the code *)
(* awaits the model, a tool or the registry, between reading the shared    *)
(* state and the first callback, and at the head of the loop; a resume or  *)
(* confirm command interleaves between its status check and its spawn.     *)
(*                                                                         *)
(* Left out: the text of thoughts, questions and observations, the events  *)
(* sent to the window, and the display fields awaiting_user_question,      *)
(* awaiting_tool_approval and error, which no decision reads.              *)
(***************************************************************************)
EXTENDS Integers, Sequences, FiniteSets, SequencesExt

CONSTANTS
  Runs,             \* run ids that may be started
  ThreadOf,         \* the thread of each run
  Handlers,         \* resume and confirm commands that may be under way at once
  Execs,            \* slots for executions alive at the same time (a bound)
  Tools,            \* read_file, search_code, edit_file and run_command actions
  Mutating,         \* the edit_file and run_command ones
  EditedFile,       \* the file an edit_file changes, NoFile for the others
  Files,
  Fingerprint,      \* Action::fingerprint, which distinct edits may share
  Policies,         \* access modes the user picks from
  MaxTurns, MaxIdentical, MaxFailures, MaxEdits, MaxParseRetries,
  MaxCommands,      \* bound on resume and confirm commands
  MaxSteps          \* bound on the steps of a run

AllPolicies == {"Auto", "OnRequest", "ReadOnly"}
NoFile == "no file"

ASSUME ConstantsAssumption ==
  /\ "none" \notin Runs
  /\ Mutating \subseteq Tools
  /\ Tools \cap {"ask_user", "finalize", "none"} = {}
  /\ NoFile \notin Files
  /\ EditedFile \in [Tools -> Files \cup {NoFile}]
  /\ \A t \in Tools : EditedFile[t] # NoFile => t \in Mutating
  /\ Policies \subseteq AllPolicies
  /\ {MaxTurns, MaxIdentical, MaxFailures, MaxEdits} \subseteq Nat
  /\ {MaxParseRetries, MaxCommands, MaxSteps} \subseteq Nat

Actions == Tools \cup {"ask_user", "finalize"}

\* A turn the planner returned; id numbers the mutating ones, 0 is any other.
NoTurn == [act |-> "none", id |-> 0]

VARIABLES
  registry,   \* runs with a record
  start,      \* progress of chat_agent_start_run for each run
  shared,     \* SharedRunState of each run
  cancelled,  \* its cancelled flag
  policy,     \* tool_approval_policy of the request it was started with
  cmd,        \* the resume and confirm commands under way
  ex,         \* the executions
  commands,   \* resume and confirm commands accepted so far
  access,     \* history: the access mode the user chose last for the run
  calls       \* history: what became of each mutating tool call

vars == <<registry, start, shared, cancelled, policy, cmd, ex, commands,
          access, calls>>

Statuses == {"Pending", "Preparing", "Planning", "Executing", "AwaitingUser",
             "AwaitingToolApproval", "Completed", "Cancelled"}
Awaiting == {"AwaitingUser", "AwaitingToolApproval"}

\* RunState::new
NewRunState == [status |-> "Pending", steps |-> <<>>, pending |-> NoTurn]

-----------------------------------------------------------------------------
(* Guardrails *)

NewGuardrails ==
  [turns |-> 0, last |-> "none", same |-> 0, fails |-> 0,
   edits |-> [f \in Files |-> 0]]

FingerprintOf(act) == IF act \in Tools THEN Fingerprint[act] ELSE act

EditsFile(act, f) == act \in Tools /\ EditedFile[act] = f

RecordTurn(g, act, ok) ==
  [turns |-> g.turns + 1,
   last  |-> FingerprintOf(act),
   same  |-> IF g.last = FingerprintOf(act) THEN g.same + 1 ELSE 1,
   fails |-> IF ok THEN 0 ELSE g.fails + 1,
   edits |-> [f \in Files |->
                IF EditsFile(act, f) THEN g.edits[f] + 1 ELSE g.edits[f]]]

TooManyEdits(g, act) ==
  \E f \in Files : EditsFile(act, f) /\ g.edits[f] >= MaxEdits

\* Forgets the limit on turns.
CheckNoMaxTurns(g, act) ==
  IF g.same >= MaxIdentical \/ g.fails >= MaxFailures \/ TooManyEdits(g, act)
  THEN "ask_user" ELSE act

\* Guardrails::check: the action that is taken instead of act, or act itself.
Check(g, act) ==
  CASE g.turns >= MaxTurns -> "finalize"
    [] g.turns < MaxTurns
       /\ (g.same >= MaxIdentical \/ g.fails >= MaxFailures
           \/ TooManyEdits(g, act)) -> "ask_user"
    [] OTHER -> act

\* A prompt that lets commands through.
EvaluateLax(act, p) ==
  IF p = "ReadOnly" /\ act \in Mutating THEN "DenyReadOnly" ELSE "Execute"

\* tool_approval::evaluate
Evaluate(act, p) ==
  CASE act \notin Mutating \/ p = "Auto" -> "Execute"
    [] act \in Mutating /\ p = "ReadOnly" -> "DenyReadOnly"
    [] act \in Mutating /\ p = "OnRequest" -> "PromptUser"

-----------------------------------------------------------------------------
(* State *)

IdleExec ==
  [pc |-> "idle", run |-> "none", kind |-> "run", approved |-> FALSE,
   policy |-> "OnRequest", st |-> NewRunState, g |-> NewGuardrails,
   attempt |-> 0, turn |-> NoTurn]

IdleCmd == [kind |-> "idle", run |-> "none", approved |-> FALSE,
            policy |-> "OnRequest"]

Spawned(kind, r, approved, p) ==
  [IdleExec EXCEPT !.pc = "spawned", !.kind = kind, !.run = r,
                   !.approved = approved, !.policy = p]

Init ==
  /\ registry = {}
  /\ start = [r \in Runs |-> "new"]
  /\ shared = [r \in Runs |-> NewRunState]
  /\ cancelled = [r \in Runs |-> FALSE]
  /\ policy = [r \in Runs |-> "OnRequest"]
  /\ cmd = [h \in Handlers |-> IdleCmd]
  /\ ex = [e \in Execs |-> IdleExec]
  /\ commands = 0
  /\ access = [r \in Runs |-> "OnRequest"]
  /\ calls = <<>>

-----------------------------------------------------------------------------
(* Commands *)

\* chat_agent_start_run up to cancel_in_flight_for_thread.
SupersedeRuns(r) ==
  /\ start[r] = "new"
  /\ start' = [start EXCEPT ![r] = "starting"]
  /\ cancelled' = [s \in Runs |->
       cancelled[s] \/ (s \in registry /\ ThreadOf[s] = ThreadOf[r])]
  /\ UNCHANGED <<registry, shared, policy, cmd, ex, commands, access, calls>>

\* The rest of it, after the delegate was resolved: insert and spawn.
InsertRun(r, e, p) ==
  /\ start[r] = "starting"
  /\ ex[e].pc = "idle"
  /\ start' = [start EXCEPT ![r] = "started"]
  /\ registry' = registry \cup {r}
  /\ shared' = [shared EXCEPT ![r] = NewRunState]
  /\ cancelled' = [cancelled EXCEPT ![r] = FALSE]
  /\ policy' = [policy EXCEPT ![r] = p]
  /\ access' = [access EXCEPT ![r] = p]
  /\ ex' = [ex EXCEPT ![e] = Spawned("run", r, FALSE, p)]
  /\ UNCHANGED <<cmd, commands, calls>>

CancelRun(r) ==
  /\ r \in registry
  /\ cancelled' = [cancelled EXCEPT ![r] = TRUE]
  /\ UNCHANGED <<registry, start, shared, policy, cmd, ex, commands, access, calls>>

Accept(h, c) ==
  /\ cmd[h].kind = "idle"
  /\ commands < MaxCommands
  /\ cmd' = [cmd EXCEPT ![h] = c]
  /\ commands' = commands + 1
  /\ cancelled' = [cancelled EXCEPT ![c.run] = FALSE]

\* chat_agent_resume_run up to its first await.  The user may send an access
\* mode with the answer; without one the request's own policy is used.
AcceptResume(h, r) ==
  /\ r \in registry
  /\ shared[r].status = "AwaitingUser"
  /\ \/ \E p \in Policies :
          /\ Accept(h, [kind |-> "resume", run |-> r, approved |-> FALSE,
                        policy |-> p])
          /\ access' = [access EXCEPT ![r] = p]
     \/ /\ Accept(h, [kind |-> "resume", run |-> r, approved |-> FALSE,
                      policy |-> policy[r]])
        /\ UNCHANGED access
  /\ UNCHANGED <<registry, start, shared, policy, ex, calls>>

\* The status is not looked at.
AcceptConfirmUnchecked(h, r, approved) ==
  /\ r \in registry
  /\ Accept(h, [kind |-> "confirm", run |-> r, approved |-> approved,
                policy |-> policy[r]])
  /\ calls' = IF approved /\ shared[r].pending # NoTurn
              THEN [calls EXCEPT ![shared[r].pending.id].approved = TRUE]
              ELSE calls
  /\ UNCHANGED <<registry, start, shared, policy, ex, access>>

\* chat_agent_confirm_tool up to its first await.  The user answers the call
\* that is pending now, and the runtime is built with the request's policy.
AcceptConfirm(h, r, approved) ==
  /\ r \in registry
  /\ shared[r].status = "AwaitingToolApproval"
  /\ Accept(h, [kind |-> "confirm", run |-> r, approved |-> approved,
                policy |-> policy[r]])
  /\ calls' = IF approved /\ shared[r].pending # NoTurn
              THEN [calls EXCEPT ![shared[r].pending.id].approved = TRUE]
              ELSE calls
  /\ UNCHANGED <<registry, start, shared, policy, ex, access>>

\* The rest of both commands, after the settings lock and the delegate.
SpawnCommand(h, e) ==
  LET c == cmd[h] IN
  /\ c.kind # "idle"
  /\ ex[e].pc = "idle"
  /\ shared' = [shared EXCEPT ![c.run].status = "Planning"]
  /\ ex' = [ex EXCEPT ![e] = Spawned(c.kind, c.run, c.approved, c.policy)]
  /\ cmd' = [cmd EXCEPT ![h] = IdleCmd]
  /\ UNCHANGED <<registry, start, cancelled, policy, commands, access, calls>>

-----------------------------------------------------------------------------
(* Executions *)

\* x with status s.
As(x, s) == [x EXCEPT !.st.status = s]

\* A step is recorded only when the tool succeeded.
CommitSuccesses(x, turn, ok) ==
  [x EXCEPT !.g = RecordTurn(x.g, turn.act, ok),
            !.st.steps = IF ok THEN Append(@, turn) ELSE @]

\* commit_turn
Commit(x, turn, ok) ==
  [x EXCEPT !.g = RecordTurn(x.g, turn.act, ok),
            !.st.steps = Append(@, turn)]

\* Entry of run_with_state: whatever was counted before is dropped.
Enter(x) ==
  [As(x, "Preparing") EXCEPT !.pc = "top", !.kind = "run", !.g = NewGuardrails]

\* e goes on as x, whose state the callback copies to the shared one.
Publish(e, x) ==
  /\ ex' = [ex EXCEPT ![e] = x]
  /\ shared' = [shared EXCEPT ![x.run] = x.st]

\* The task is over and the record stays: the run waits for its user.
Paused == IdleExec

\* handle_run_result said that the record is to go.
Finished(x) == [IdleExec EXCEPT !.pc = "removing", !.run = x.run]

\* The callback for x.st, then the end of the task.
PublishAndEnd(e, x, end) ==
  /\ ex' = [ex EXCEPT ![e] = end]
  /\ shared' = [shared EXCEPT ![x.run] = x.st]

\* An error: no callback ran, the record goes.
Fail(e) ==
  /\ ex' = [ex EXCEPT ![e] = Finished(ex[e])]
  /\ UNCHANGED shared

\* state.pending_turn.take()
TakePending(x) == [x EXCEPT !.turn = x.st.pending, !.st.pending = NoTurn]

\* A resumed task starts from an empty state.
ReadNothing(e) ==
  LET x == ex[e] IN
  /\ x.pc = "spawned"
  /\ ex' = [ex EXCEPT ![e] = [x EXCEPT !.pc = "begun"]]
  /\ UNCHANGED <<registry, start, shared, cancelled, policy, cmd, commands,
                 access, calls>>

\* First poll: a resumed task copies the shared state.  It is written back
\* only by the first callback, after the session and the spill directory.
ReadShared(e) ==
  LET x == ex[e] IN
  /\ x.pc = "spawned"
  /\ ex' = [ex EXCEPT ![e] =
       [x EXCEPT !.pc = "begun",
                 !.st = IF x.kind = "run" THEN NewRunState ELSE shared[x.run]]]
  /\ UNCHANGED <<registry, start, shared, cancelled, policy, cmd, commands,
                 access, calls>>

\* run and resume enter the loop.
BeginLoop(e) ==
  LET x == ex[e] IN
  /\ x.pc = "begun"
  /\ x.kind \in {"run", "resume"}
  /\ Publish(e, Enter(x))
  /\ UNCHANGED <<registry, start, cancelled, policy, cmd, commands, access, calls>>

\* confirm_pending_tool: resume_pending_tool up to the tool.
BeginPending(e) ==
  LET x == TakePending(ex[e]) IN
  /\ ex[e].pc = "begun"
  /\ ex[e].kind = "confirm"
  /\ \/ x.turn = NoTurn /\ Fail(e)
     \/ /\ x.turn # NoTurn
        /\ cancelled[x.run]
        /\ PublishAndEnd(e, As(x, "Cancelled"), Finished(x))
     \/ /\ x.turn # NoTurn
        /\ ~cancelled[x.run]
        /\ x.approved
        /\ Publish(e, [As(x, "Executing") EXCEPT !.pc = "executing"])
     \/ /\ x.turn # NoTurn
        /\ ~cancelled[x.run]
        /\ ~x.approved
        /\ Publish(e, Enter(Commit(x, x.turn, FALSE)))
  /\ UNCHANGED <<registry, start, cancelled, policy, cmd, commands, access, calls>>

\* Head of the loop.  At the bound MaxSteps an execution stands still, which
\* EveryExecutionEnds would report.
LoopTop(e) ==
  LET x == ex[e] IN
  /\ x.pc = "top"
  /\ \/ /\ cancelled[x.run]
        /\ PublishAndEnd(e, As(x, "Cancelled"), Finished(x))
     \/ /\ ~cancelled[x.run]
        /\ Len(x.st.steps) < MaxSteps
        /\ Publish(e, [As(x, "Planning") EXCEPT !.pc = "planning", !.attempt = 0])
  /\ UNCHANGED <<registry, start, cancelled, policy, cmd, commands, access, calls>>

\* The model call fails.
PlanFails(e) ==
  /\ ex[e].pc = "planning"
  /\ Fail(e)
  /\ UNCHANGED <<registry, start, cancelled, policy, cmd, commands, access, calls>>

\* Retries once more than it may.
PlanUnparsableOnceMore(e) ==
  LET x == ex[e] IN
  /\ x.pc = "planning"
  /\ \/ /\ x.attempt <= MaxParseRetries
        /\ ex' = [ex EXCEPT ![e].attempt = @ + 1]
        /\ UNCHANGED shared
     \/ /\ x.attempt > MaxParseRetries
        /\ PublishAndEnd(e, As(x, "AwaitingUser"), Finished(x))
  /\ UNCHANGED <<registry, start, cancelled, policy, cmd, commands, access, calls>>

\* The answer cannot be parsed; after the last retry the run is shown as
\* AwaitingUser but its outcome is Ok, which removes the record.
PlanUnparsable(e) ==
  LET x == ex[e] IN
  /\ x.pc = "planning"
  /\ \/ /\ x.attempt < MaxParseRetries
        /\ ex' = [ex EXCEPT ![e].attempt = @ + 1]
        /\ UNCHANGED shared
     \/ /\ x.attempt = MaxParseRetries
        /\ PublishAndEnd(e, As(x, "AwaitingUser"), Finished(x))
  /\ UNCHANGED <<registry, start, cancelled, policy, cmd, commands, access, calls>>

\* gate_tool_approval and what the loop does with its answer.
Gate(e, x, turn) ==
  LET gate == Evaluate(turn.act, x.policy) IN
  \/ /\ gate = "Execute"
     /\ Publish(e, [As(x, "Executing") EXCEPT !.pc = "executing", !.turn = turn])
  \/ /\ gate = "PromptUser"
     /\ PublishAndEnd(e, [As(x, "AwaitingToolApproval") EXCEPT !.st.pending = turn],
                      Paused)
  \/ /\ gate = "DenyReadOnly"
     /\ Publish(e, [As(Commit(x, turn, FALSE), "Planning") EXCEPT !.pc = "top"])

\* The model answers with an action: guardrails, then the approval gate.
Plan(e, answer) ==
  LET x    == ex[e]
      act  == Check(x.g, answer)
      turn == [act |-> act, id |-> IF act \in Mutating THEN Len(calls) + 1 ELSE 0]
  IN
  /\ x.pc = "planning"
  /\ Gate(e, x, turn)
  /\ calls' = IF act \in Mutating
              THEN Append(calls, [run |-> x.run, policy |-> x.policy,
                                  access |-> access[x.run],
                                  approved |-> FALSE, ran |-> 0, resent |-> FALSE])
              ELSE calls
  /\ UNCHANGED <<registry, start, cancelled, policy, cmd, commands, access>>

\* The tool has run; ran counts the executions of each mutating call.
Ran(turn) == IF turn.id = 0 THEN calls ELSE [calls EXCEPT ![turn.id].ran = @ + 1]

\* The connection broke under the request of call c, which ran n times.
Lost(c, n) == [c EXCEPT !.resent = TRUE, !.ran = @ + n]

Resent(turn, n) ==
  IF turn.id = 0 THEN calls ELSE [calls EXCEPT ![turn.id] = Lost(@, n)]

\* finish_with_action after its tool: a question pauses, an answer completes.
FinishWithAction(e, done) ==
  \/ /\ done.turn.act = "ask_user"
     /\ PublishAndEnd(e, As(done, "AwaitingUser"), Paused)
  \/ /\ done.turn.act = "finalize"
     /\ PublishAndEnd(e, As(done, "Completed"), Finished(done))

\* Requests to the executor are under way: the first, or the second.
AtTool == {"executing", "resent"}

\* Remote mode: the connection breaks while chat_agent_execute_tool waits for
\* its answer, and call_remote sends it once more on a new one.  The daemon may
\* have run the tool, or may still run it, which is counted here.
ToolResent(e) ==
  LET x == ex[e] IN
  /\ x.pc = "executing"
  /\ x.turn.act \in Tools
  /\ ex' = [ex EXCEPT ![e].pc = "resent"]
  /\ \E n \in {0, 1} : calls' = Resent(x.turn, n)
  /\ UNCHANGED <<registry, start, shared, cancelled, policy, cmd, commands, access>>

\* The executor answers, in the loop, in finish_with_action or in
\* resume_pending_tool (kind "confirm", first tool).
ToolReturns(e, ok) ==
  LET x    == ex[e]
      done == Commit(x, x.turn, ok)
  IN
  /\ x.pc \in AtTool
  /\ calls' = Ran(x.turn)
  /\ \/ /\ cancelled[x.run]
        /\ PublishAndEnd(e, As(x, "Cancelled"), Finished(x))
     \/ /\ ~cancelled[x.run]
        /\ FinishWithAction(e, done)
     \/ /\ ~cancelled[x.run]
        /\ x.turn.act \in Tools
        /\ x.kind = "confirm"
        /\ Publish(e, Enter(done))
     \/ /\ ~cancelled[x.run]
        /\ x.turn.act \in Tools
        /\ x.kind # "confirm"
        /\ Publish(e, [As(done, "Planning") EXCEPT !.pc = "top"])
  /\ UNCHANGED <<registry, start, cancelled, policy, cmd, commands, access>>

\* The executor fails, before or after the tool had its effect.
ToolFails(e) ==
  /\ ex[e].pc \in AtTool
  /\ ex[e].turn.act \in Tools
  /\ Fail(e)
  /\ calls' \in {calls, Ran(ex[e].turn)}
  /\ UNCHANGED <<registry, start, cancelled, policy, cmd, commands, access>>

\* registry.remove is skipped after an error.
RemoveNothing(e) ==
  /\ ex[e].pc = "removing"
  /\ ex' = [ex EXCEPT ![e] = IdleExec]
  /\ UNCHANGED <<registry, start, shared, cancelled, policy, cmd, commands, access, calls>>

\* registry.remove after a run that is over.
RemoveRun(e) ==
  /\ ex[e].pc = "removing"
  /\ registry' = registry \ {ex[e].run}
  /\ ex' = [ex EXCEPT ![e] = IdleExec]
  /\ UNCHANGED <<start, shared, cancelled, policy, cmd, commands, access, calls>>

-----------------------------------------------------------------------------

ExecStep(e) ==
  \/ ReadShared(e)
  \/ BeginLoop(e)
  \/ BeginPending(e)
  \/ LoopTop(e)
  \/ PlanFails(e)
  \/ PlanUnparsable(e)
  \/ \E act \in Actions : Plan(e, act)
  \/ \E ok \in BOOLEAN : ToolReturns(e, ok)
  \/ ToolResent(e)
  \/ ToolFails(e)
  \/ RemoveRun(e)

Next ==
  \/ \E r \in Runs :
       \/ SupersedeRuns(r)
       \/ \E e \in Execs, p \in Policies : InsertRun(r, e, p)
       \/ CancelRun(r)
  \/ \E h \in Handlers :
       \/ \E r \in Runs : AcceptResume(h, r)
       \/ \E r \in Runs, approved \in BOOLEAN : AcceptConfirm(h, r, approved)
       \/ \E e \in Execs : SpawnCommand(h, e)
  \/ \E e \in Execs : ExecStep(e)

Spec == Init /\ [][Next]_vars

\* A spawned task is polled, the model client and the tools return (the
\* shell has a timeout), and a command that was accepted goes on.
Fairness ==
  /\ \A e \in Execs : WF_vars(ExecStep(e))
  /\ \A h \in Handlers : WF_vars(\E e \in Execs : SpawnCommand(h, e))

FairSpec == Spec /\ Fairness

-----------------------------------------------------------------------------
(* Properties *)

Turn == [act : Actions, id : 0 .. Len(calls)] \cup {NoTurn}
RunState == [status : Statuses, steps : Seq(Turn \ {NoTurn}), pending : Turn]

Guardrail ==
  [turns : Nat, last : {FingerprintOf(a) : a \in Actions} \cup {"none"},
   same : Nat, fails : Nat, edits : [Files -> Nat]]

\* Type invariant of the registry, the commands and the executions.
TypeOK ==
  /\ registry \subseteq Runs
  /\ start \in [Runs -> {"new", "starting", "started"}]
  /\ shared \in [Runs -> RunState]
  /\ cancelled \in [Runs -> BOOLEAN]
  /\ policy \in [Runs -> AllPolicies]
  /\ cmd \in [Handlers -> [kind : {"idle", "resume", "confirm"},
                           run : Runs \cup {"none"}, approved : BOOLEAN,
                           policy : AllPolicies]]
  /\ ex \in [Execs -> [pc : {"idle", "spawned", "begun", "top", "planning",
                             "executing", "resent", "removing"},
                       run : Runs \cup {"none"},
                       kind : {"run", "resume", "confirm"},
                       approved : BOOLEAN, policy : AllPolicies,
                       st : RunState, g : Guardrail, attempt : 0 .. MaxParseRetries,
                       turn : Turn]]
  /\ commands \in 0 .. MaxCommands
  /\ access \in [Runs -> AllPolicies]
  /\ calls \in Seq([run : Runs, policy : AllPolicies, access : AllPolicies,
                    approved : BOOLEAN, ran : Nat, resent : BOOLEAN])

\* An edit or a command runs only in an execution with full access, or after
\* the user allowed that very call while it was pending; never read-only.
ToolsRunWithConsent ==
  \A i \in DOMAIN calls :
    calls[i].ran > 0 => \/ calls[i].policy = "Auto"
                        \/ calls[i].policy = "OnRequest" /\ calls[i].approved

\* "Allow once": an edit or a command that the model asked for runs once, or
\* twice when the connection to the daemon broke while it ran; neither answers
\* nor resumed tasks make it run again.
AllowOnce ==
  \A i \in DOMAIN calls : calls[i].ran <= IF calls[i].resent THEN 2 ELSE 1

\* A tool that runs without being asked about runs while full access is the
\* mode the user chose last, at the start or with an answer.
AccessModeIsHonoured ==
  \A i \in DOMAIN calls :
    calls[i].ran > 0 /\ ~calls[i].approved => calls[i].access = "Auto"

\* A registered run that does not wait for its user has a task working on it:
\* every way a task ends either leaves the run waiting or removes its record.
NoOrphanRun ==
  \A r \in registry :
    shared[r].status \in Awaiting \/ \E e \in Execs : ex[e].run = r

\* A run that is shown as waiting for the user can be answered: it has a record,
\* or a task that is still working on it.
AwaitingRunsAreResumable ==
  \A r \in Runs :
    shared[r].status \in Awaiting =>
      r \in registry \/ \E e \in Execs : ex[e].run = r

\* Every tool that ran is among the steps of a run that waits or completed, so
\* the next plan is made from a history that has it.
PausedRunsShowTheirEffects ==
  \A i \in DOMAIN calls :
    LET st == shared[calls[i].run] IN
    calls[i].ran > 0 /\ st.status \in Awaiting \cup {"Completed"} =>
      \E k \in DOMAIN st.steps : st.steps[k].id = i

\* A tool is not used with the same arguments more than MaxIdentical times in a
\* row within a run: the user is asked in between.
RepeatedActionAsksUser ==
  \A r \in Runs :
    LET steps == shared[r].steps IN
    \A k \in DOMAIN steps :
      steps[k].act \in Tools /\ k + MaxIdentical \in DOMAIN steps =>
        \E j \in k + 1 .. k + MaxIdentical :
          FingerprintOf(steps[j].act) # FingerprintOf(steps[k].act)

\* Two runs of one thread are not both live: the newer one supersedes the older.
OneLiveRunPerThread ==
  \A r, s \in registry :
    r # s /\ ThreadOf[r] = ThreadOf[s] => cancelled[r] \/ cancelled[s]

\* The steps shown for a run are only ever added to.
StepsAreKept ==
  [][\A r \in Runs : IsPrefix(shared[r].steps, shared'[r].steps)]_vars

\* Whatever the model answers, every task ends: the guardrails bound its turns.
EveryExecutionEnds ==
  \A e \in Execs : ex[e].pc # "idle" ~> ex[e].pc = "idle"

\* A cancelled run ends, unless the user takes the cancellation back.
CancelEndsTheRun ==
  \A r \in Runs :
    r \in registry /\ cancelled[r] ~> r \notin registry \/ ~cancelled[r]
=============================================================================
