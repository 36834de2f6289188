--------------------------- MODULE ChatAgentProofs ---------------------------
(***************************************************************************)
(* Proofs about ChatAgent, for any number of runs, executions, tools and   *)
(* turns: types and the absence of orphaned runs whatever commands         *)
(* overlap, and, as long as resume and confirm commands come one after the *)
(* other, the consent of the user for every edit and command.              *)
(***************************************************************************)
EXTENDS ChatAgent, SequenceTheorems, TLAPS

USE ConstantsAssumption DEF AtTool

-----------------------------------------------------------------------------
(* Types.  Turns carry the number of a call, so the types of states and    *)
(* executions depend on how many calls there are.                          *)

Phases == {"idle", "spawned", "begun", "top", "planning", "executing",
           "resent", "removing"}

TurnTo(n) == [act : Actions, id : 0 .. n] \cup {NoTurn}
StateTo(n) ==
  [status : Statuses, steps : Seq(TurnTo(n) \ {NoTurn}), pending : TurnTo(n)]
ExecTo(n) ==
  [pc : Phases, run : Runs \cup {"none"}, kind : {"run", "resume", "confirm"},
   approved : BOOLEAN, policy : AllPolicies, st : StateTo(n), g : Guardrail,
   attempt : 0 .. MaxParseRetries, turn : TurnTo(n)]
Command ==
  [kind : {"idle", "resume", "confirm"}, run : Runs \cup {"none"},
   approved : BOOLEAN, policy : AllPolicies]
Call == [run : Runs, policy : AllPolicies, access : AllPolicies,
         approved : BOOLEAN, ran : Nat, resent : BOOLEAN]

StateOf(s, steps, p) == [status |-> s, steps |-> steps, pending |-> p]

LEMMA StateFacts ==
  ASSUME NEW n \in Nat
  PROVE  /\ \A st \in StateTo(n) :
              /\ st = StateOf(st.status, st.steps, st.pending)
              /\ st.status \in Statuses /\ st.pending \in TurnTo(n)
              /\ st.steps \in Seq(TurnTo(n) \ {NoTurn})
         /\ \A s \in Statuses, q \in Seq(TurnTo(n) \ {NoTurn}), p \in TurnTo(n) :
              /\ StateOf(s, q, p) \in StateTo(n)
              /\ StateOf(s, q, p).status = s /\ StateOf(s, q, p).steps = q
              /\ StateOf(s, q, p).pending = p
  BY DEF StateTo, StateOf

LEMMA StateOfFields ==
  ASSUME NEW s, NEW q, NEW p
  PROVE  /\ StateOf(s, q, p).status = s /\ StateOf(s, q, p).steps = q
         /\ StateOf(s, q, p).pending = p
  BY DEF StateOf

\* Execution y goes on from x: same run, consent and policy.
Like(y, x, pc, kind, st, turn) ==
  /\ y.pc = pc /\ y.run = x.run /\ y.kind = kind /\ y.approved = x.approved
  /\ y.policy = x.policy /\ y.st = st /\ y.turn = turn

LEMMA ExecFacts ==
  ASSUME NEW n \in Nat, NEW x \in ExecTo(n)
  PROVE  /\ x.pc \in Phases /\ x.run \in Runs \cup {"none"}
         /\ x.kind \in {"run", "resume", "confirm"} /\ x.approved \in BOOLEAN
         /\ x.policy \in AllPolicies /\ x.st \in StateTo(n)
         /\ x.g \in Guardrail /\ x.attempt \in 0 .. MaxParseRetries
         /\ x.turn \in TurnTo(n)
  BY DEF ExecTo

\* Changes of single fields.
LEMMA SetField ==
  ASSUME NEW n \in Nat, NEW x \in ExecTo(n)
  PROVE  /\ \A v \in Phases : LET y == [x EXCEPT !.pc = v]
              IN  y \in ExecTo(n) /\ Like(y, x, v, x.kind, x.st, x.turn)
         /\ \A v \in {"run", "resume", "confirm"} : LET y == [x EXCEPT !.kind = v]
              IN  y \in ExecTo(n) /\ Like(y, x, x.pc, v, x.st, x.turn)
         /\ \A v \in StateTo(n) : LET y == [x EXCEPT !.st = v]
              IN  y \in ExecTo(n) /\ Like(y, x, x.pc, x.kind, v, x.turn)
         /\ \A v \in Guardrail : LET y == [x EXCEPT !.g = v]
              IN  y \in ExecTo(n) /\ Like(y, x, x.pc, x.kind, x.st, x.turn)
         /\ \A v \in 0 .. MaxParseRetries : LET y == [x EXCEPT !.attempt = v]
              IN  y \in ExecTo(n) /\ Like(y, x, x.pc, x.kind, x.st, x.turn)
         /\ \A v \in TurnTo(n) : LET y == [x EXCEPT !.turn = v]
              IN  y \in ExecTo(n) /\ Like(y, x, x.pc, x.kind, x.st, v)
  BY DEF ExecTo, Like

LEMMA AsFacts ==
  ASSUME NEW n \in Nat, NEW x \in ExecTo(n), NEW s \in Statuses
  PROVE  /\ As(x, s) \in ExecTo(n)
         /\ Like(As(x, s), x, x.pc, x.kind,
                 StateOf(s, x.st.steps, x.st.pending), x.turn)
  <1> DEFINE st == [x.st EXCEPT !.status = s]
  <1>1. x.st \in StateTo(n)
    BY ExecFacts
  <1>2. st = StateOf(s, x.st.steps, x.st.pending) /\ st \in StateTo(n)
    BY <1>1 DEF StateTo, StateOf
  <1>3. As(x, s) = [x EXCEPT !.st = st]
    BY DEF As
  <1> HIDE DEF st
  <1>4. /\ [x EXCEPT !.st = st] \in ExecTo(n)
        /\ Like([x EXCEPT !.st = st], x, x.pc, x.kind, st, x.turn)
    BY <1>2, SetField, Zenon
  <1> QED
    BY <1>2, <1>3, <1>4

LEMMA NewTypes ==
  ASSUME NEW n \in Nat
  PROVE  /\ NewRunState \in StateTo(n) /\ NewGuardrails \in Guardrail
         /\ NoTurn \in TurnTo(n)
         /\ IdleExec \in ExecTo(n) /\ IdleExec.pc = "idle" /\ IdleExec.run = "none"
  <1>1. NoTurn \in TurnTo(n) /\ << >> \in Seq(TurnTo(n) \ {NoTurn})
    BY DEF TurnTo
  <1>2. NewRunState \in StateTo(n)
    BY <1>1 DEF NewRunState, StateTo, Statuses
  <1>3. NewGuardrails \in Guardrail
    BY DEF NewGuardrails, Guardrail
  <1> QED
    BY <1>1, <1>2, <1>3 DEF IdleExec, ExecTo, Phases, AllPolicies

\* Changes of the fields that only a new execution sets.
Starts(y, pc, run, kind, approved, pol) ==
  /\ y.pc = pc /\ y.run = run /\ y.kind = kind /\ y.approved = approved
  /\ y.policy = pol

LEMMA SetStartField ==
  ASSUME NEW n \in Nat, NEW x \in ExecTo(n)
  PROVE  /\ \A v \in Runs \cup {"none"} : LET y == [x EXCEPT !.run = v]
              IN  y \in ExecTo(n) /\ Starts(y, x.pc, v, x.kind, x.approved, x.policy)
         /\ \A v \in BOOLEAN : LET y == [x EXCEPT !.approved = v]
              IN  y \in ExecTo(n) /\ Starts(y, x.pc, x.run, x.kind, v, x.policy)
         /\ \A v \in AllPolicies : LET y == [x EXCEPT !.policy = v]
              IN  y \in ExecTo(n) /\ Starts(y, x.pc, x.run, x.kind, x.approved, v)
  BY DEF ExecTo, Starts

LEMMA SpawnedFacts ==
  ASSUME NEW n \in Nat, NEW kind \in {"run", "resume", "confirm"}, NEW r \in Runs,
         NEW approved \in BOOLEAN, NEW p \in AllPolicies
  PROVE  LET y == Spawned(kind, r, approved, p)
         IN  /\ y \in ExecTo(n) /\ y.pc = "spawned" /\ y.run = r
             /\ y.kind = kind /\ y.approved = approved /\ y.policy = p
  <1> DEFINE a == [IdleExec EXCEPT !.pc = "spawned"]
             b == [a EXCEPT !.kind = kind]
             c == [b EXCEPT !.run = r]
             d == [c EXCEPT !.approved = approved]
             y == [d EXCEPT !.policy = p]
  <1>0. Spawned(kind, r, approved, p) = y
    BY DEF Spawned
  <1>1. a \in ExecTo(n) /\ a.pc = "spawned"
    <2>1. IdleExec \in ExecTo(n) /\ "spawned" \in Phases
      BY NewTypes DEF Phases
    <2>2. a \in ExecTo(n)
          /\ Like(a, IdleExec, "spawned", IdleExec.kind, IdleExec.st, IdleExec.turn)
      BY <2>1, SetField, Zenon
    <2> QED
      BY <2>2 DEF Like
  <1> HIDE DEF a
  <1>2. b \in ExecTo(n) /\ Like(b, a, a.pc, kind, a.st, a.turn)
    BY <1>1, SetField, Zenon
  <1> HIDE DEF b
  <1>3. c \in ExecTo(n) /\ Starts(c, b.pc, r, b.kind, b.approved, b.policy)
    <2>1. r \in Runs \cup {"none"}
      OBVIOUS
    <2> QED
      BY <1>2, <2>1, SetStartField, Zenon
  <1> HIDE DEF c
  <1>4. d \in ExecTo(n) /\ Starts(d, c.pc, c.run, c.kind, approved, c.policy)
    BY <1>3, SetStartField, Zenon
  <1> HIDE DEF d
  <1>5. y \in ExecTo(n) /\ Starts(y, d.pc, d.run, d.kind, d.approved, p)
    BY <1>4, SetStartField, Zenon
  <1> HIDE DEF y
  <1>6. /\ y.pc = "spawned" /\ y.run = r /\ y.kind = kind
        /\ y.approved = approved /\ y.policy = p
    BY <1>1, <1>2, <1>3, <1>4, <1>5 DEF Like, Starts
  <1> QED
    BY <1>0, <1>5, <1>6

LEMMA FinishedFacts ==
  ASSUME NEW n \in Nat, NEW x \in ExecTo(n)
  PROVE  /\ Finished(x) \in ExecTo(n) /\ Finished(x).pc = "removing"
         /\ Finished(x).run = x.run
  <1> DEFINE a == [IdleExec EXCEPT !.pc = "removing"]
             b == [a EXCEPT !.run = x.run]
  <1>0. Finished(x) = b
    BY DEF Finished
  <1>1. a \in ExecTo(n) /\ a.pc = "removing"
    <2>1. IdleExec \in ExecTo(n) /\ "removing" \in Phases
      BY NewTypes DEF Phases
    <2>2. a \in ExecTo(n)
          /\ Like(a, IdleExec, "removing", IdleExec.kind, IdleExec.st, IdleExec.turn)
      BY <2>1, SetField, Zenon
    <2> QED
      BY <2>2 DEF Like
  <1> HIDE DEF a
  <1>2. /\ b \in ExecTo(n)
        /\ Starts(b, a.pc, x.run, a.kind, a.approved, a.policy)
    <2>1. x.run \in Runs \cup {"none"}
      BY ExecFacts
    <2> QED
      BY <1>1, <2>1, SetStartField, Zenon
  <1> HIDE DEF b
  <1> QED
    BY <1>0, <1>1, <1>2 DEF Starts

LEMMA EnterFacts ==
  ASSUME NEW n \in Nat, NEW x \in ExecTo(n)
  PROVE  /\ Enter(x) \in ExecTo(n)
         /\ Like(Enter(x), x, "top", "run",
                 StateOf("Preparing", x.st.steps, x.st.pending), x.turn)
  <1> DEFINE a == As(x, "Preparing")
             b == [a EXCEPT !.pc = "top"]
             c == [b EXCEPT !.kind = "run"]
             d == [c EXCEPT !.g = NewGuardrails]
  <1>0. Enter(x) = d
    BY DEF Enter
  <1>1. /\ a \in ExecTo(n)
        /\ Like(a, x, x.pc, x.kind, StateOf("Preparing", x.st.steps, x.st.pending), x.turn)
    BY AsFacts DEF Statuses
  <1> HIDE DEF a
  <1>2. "top" \in Phases /\ NewGuardrails \in Guardrail
    BY NewTypes DEF Phases
  <1>3. b \in ExecTo(n) /\ Like(b, a, "top", a.kind, a.st, a.turn)
    BY <1>1, <1>2, SetField, Zenon
  <1> HIDE DEF b
  <1>4. c \in ExecTo(n) /\ Like(c, b, b.pc, "run", b.st, b.turn)
    BY <1>3, SetField, Zenon
  <1> HIDE DEF c
  <1>5. d \in ExecTo(n) /\ Like(d, c, c.pc, c.kind, c.st, c.turn)
    BY <1>2, <1>4, SetField, Zenon
  <1> HIDE DEF d
  <1> QED
    BY <1>0, <1>1, <1>3, <1>4, <1>5 DEF Like

LEMMA CommitFacts ==
  ASSUME NEW n \in Nat, NEW x \in ExecTo(n), NEW turn \in TurnTo(n) \ {NoTurn},
         NEW ok \in BOOLEAN
  PROVE  /\ Commit(x, turn, ok) \in ExecTo(n)
         /\ Like(Commit(x, turn, ok), x, x.pc, x.kind,
                 StateOf(x.st.status, Append(x.st.steps, turn), x.st.pending), x.turn)
  <1> DEFINE g == RecordTurn(x.g, turn.act, ok)
             q == Append(x.st.steps, turn)
             st == [x.st EXCEPT !.steps = q]
             a == [x EXCEPT !.g = g]
             b == [a EXCEPT !.st = st]
  <1>1. x.st \in StateTo(n) /\ x.g \in Guardrail
    BY ExecFacts
  <1>2. g \in Guardrail
    <2>1. turn.act \in Actions
      BY DEF TurnTo
    <2> QED
      BY <1>1, <2>1 DEF RecordTurn, Guardrail
  <1>3. q \in Seq(TurnTo(n) \ {NoTurn})
    BY <1>1, AppendProperties DEF StateTo
  <1>e. Commit(x, turn, ok) = [x EXCEPT !.g = g, !.st.steps = q]
    BY DEF Commit
  <1> HIDE DEF q, g
  <1>4. st = StateOf(x.st.status, q, x.st.pending) /\ st \in StateTo(n)
    BY <1>1, <1>3 DEF StateTo, StateOf
  <1>5. a \in ExecTo(n) /\ Like(a, x, x.pc, x.kind, x.st, x.turn)
    BY <1>2, SetField, Zenon
  <1>6. [x EXCEPT !.g = g, !.st.steps = q] = b
    BY <1>5 DEF Like
  <1> HIDE DEF a, st
  <1>7. b \in ExecTo(n) /\ Like(b, a, a.pc, a.kind, st, a.turn)
    BY <1>4, <1>5, SetField, Zenon
  <1> HIDE DEF b
  <1>8. Commit(x, turn, ok) = b
    BY <1>e, <1>6
  <1> QED
    BY <1>4, <1>5, <1>7, <1>8 DEF Like, q

LEMMA TakeFacts ==
  ASSUME NEW n \in Nat, NEW x \in ExecTo(n)
  PROVE  /\ TakePending(x) \in ExecTo(n)
         /\ Like(TakePending(x), x, x.pc, x.kind,
                 StateOf(x.st.status, x.st.steps, NoTurn), x.st.pending)
  <1> DEFINE st == [x.st EXCEPT !.pending = NoTurn]
             a == [x EXCEPT !.turn = x.st.pending]
             b == [a EXCEPT !.st = st]
  <1>1. x.st \in StateTo(n) /\ x.st.pending \in TurnTo(n) /\ NoTurn \in TurnTo(n)
    BY ExecFacts, NewTypes DEF StateTo
  <1>2. st = StateOf(x.st.status, x.st.steps, NoTurn) /\ st \in StateTo(n)
    BY <1>1 DEF StateTo, StateOf
  <1>3. a \in ExecTo(n) /\ Like(a, x, x.pc, x.kind, x.st, x.st.pending)
    BY <1>1, SetField, Zenon
  <1>4. TakePending(x) = b
    BY <1>3 DEF TakePending, Like
  <1> HIDE DEF a, st
  <1>5. b \in ExecTo(n) /\ Like(b, a, a.pc, a.kind, st, a.turn)
    BY <1>2, <1>3, SetField, Zenon
  <1> HIDE DEF b
  <1> QED
    BY <1>2, <1>3, <1>4, <1>5 DEF Like

-----------------------------------------------------------------------------
(* The type invariant.                                                     *)

Active(e) == ex[e].pc \notin {"idle", "removing"}
HasCommand(h) == cmd[h].kind # "idle"

\* Only an idle slot is without a run ...
ExecsHaveRuns ==
  \A e \in Execs : IF ex[e].pc = "idle" THEN ex[e].run = "none" ELSE ex[e].run \in Runs
\* ... and only an idle command.
CommandsHaveRuns == \A h \in Handlers : HasCommand(h) => cmd[h].run \in Runs
\* An execution that waits for a tool has a turn.
TurnsAreSet == \A e \in Execs : ex[e].pc \in AtTool => ex[e].turn # NoTurn

TypeInv == TypeOK /\ ExecsHaveRuns /\ CommandsHaveRuns /\ TurnsAreSet

\* TypeOK in terms of the sets above.
Typed ==
  /\ registry \subseteq Runs
  /\ start \in [Runs -> {"new", "starting", "started"}]
  /\ shared \in [Runs -> StateTo(Len(calls))]
  /\ cancelled \in [Runs -> BOOLEAN]
  /\ policy \in [Runs -> AllPolicies]
  /\ cmd \in [Handlers -> Command]
  /\ ex \in [Execs -> ExecTo(Len(calls))]
  /\ commands \in 0 .. MaxCommands
  /\ access \in [Runs -> AllPolicies]
  /\ calls \in Seq(Call)

LEMMA TypedIsTypeOK == (TypeOK <=> Typed) /\ (TypeOK' <=> Typed')
  <1>1. TypeOK <=> Typed
    BY DEF TypeOK, Typed, Turn, RunState, TurnTo, StateTo, ExecTo, Command, Call,
           Phases
  <1>2. TypeOK' <=> Typed'
    BY DEF TypeOK, Typed, Turn, RunState, TurnTo, StateTo, ExecTo, Command, Call,
           Phases
  <1> QED
    BY <1>1, <1>2

\* More calls leave room for everything there was.
LEMMA TypesGrow ==
  ASSUME NEW n \in Nat, NEW m \in Nat, n <= m
  PROVE  /\ TurnTo(n) \subseteq TurnTo(m)
         /\ StateTo(n) \subseteq StateTo(m)
         /\ ExecTo(n) \subseteq ExecTo(m)
  <1>1. TurnTo(n) \subseteq TurnTo(m)
    BY DEF TurnTo
  <1>2. Seq(TurnTo(n) \ {NoTurn}) \subseteq Seq(TurnTo(m) \ {NoTurn})
    BY <1>1
  <1>3. StateTo(n) \subseteq StateTo(m)
    BY <1>1, <1>2 DEF StateTo
  <1>4. ExecTo(n) \subseteq ExecTo(m)
    BY <1>1, <1>3 DEF ExecTo
  <1> QED
    BY <1>1, <1>3, <1>4

LEMMA InitType == Init => TypeInv
  <1> SUFFICES ASSUME Init PROVE TypeInv
    OBVIOUS
  <1>1. Len(calls) = 0 /\ calls \in Seq(Call)
    BY DEF Init
  <1>2. /\ NewRunState \in StateTo(Len(calls))
        /\ IdleExec \in ExecTo(Len(calls))
        /\ IdleExec.pc = "idle" /\ IdleExec.run = "none"
    BY <1>1, NewTypes
  <1>3. IdleCmd \in Command /\ IdleCmd.kind = "idle"
    BY DEF IdleCmd, Command, AllPolicies
  <1>4. Typed
    BY <1>1, <1>2, <1>3 DEF Init, Typed, AllPolicies
  <1>5. ExecsHaveRuns /\ CommandsHaveRuns /\ TurnsAreSet
    BY <1>2, <1>3 DEF Init, ExecsHaveRuns, CommandsHaveRuns, TurnsAreSet,
                      HasCommand
  <1> QED
    BY <1>4, <1>5, TypedIsTypeOK DEF TypeInv

-----------------------------------------------------------------------------
(* What the steps of an execution do to it and to the shared state.        *)

\* e goes on, with its state published ...
Becomes(e, pc, kind, st, turn) ==
  /\ \E y \in ExecTo(Len(calls')) :
       Like(y, ex[e], pc, kind, st, turn) /\ ex' = [ex EXCEPT ![e] = y]
  /\ st \in StateTo(Len(calls'))
  /\ shared' = [shared EXCEPT ![ex[e].run] = st]

\* ... or ends.
Ends(e, y, st) ==
  /\ y \in {IdleExec, Finished(ex[e])}
  /\ st \in StateTo(Len(calls'))
  /\ ex' = [ex EXCEPT ![e] = y]
  /\ shared' = [shared EXCEPT ![ex[e].run] = st]

LEMMA PublishEffect ==
  ASSUME NEW e, NEW n \in Nat, Len(calls') = n, ex[e] \in ExecTo(n),
         NEW y \in ExecTo(n), NEW pc, NEW kind, NEW st, NEW turn,
         Like(y, ex[e], pc, kind, st, turn)
  PROVE  /\ Publish(e, y) => Becomes(e, pc, kind, st, turn)
         /\ PublishAndEnd(e, y, IdleExec) => Ends(e, IdleExec, st)
         /\ PublishAndEnd(e, y, Finished(ex[e])) => Ends(e, Finished(ex[e]), st)
  <1>1. y.st = st /\ y.run = ex[e].run
    BY DEF Like
  <1>2. st \in StateTo(n)
    BY <1>1, ExecFacts
  <1> QED
    BY <1>1, <1>2 DEF Publish, PublishAndEnd, Becomes, Ends

LEMMA FailEffect ==
  ASSUME NEW e, Typed, Len(calls') = Len(calls), ex[e].run \in Runs, Fail(e)
  PROVE  Ends(e, Finished(ex[e]), shared[ex[e].run])
  BY DEF Fail, Ends, Typed

\* Executions with the same run are finished in the same way.
LEMMA FinishedRun ==
  ASSUME NEW x, NEW y, x.run = y.run
  PROVE  Finished(x) = Finished(y)
  BY DEF Finished

LEMMA ExecType ==
  ASSUME TypeInv, NEW e \in Execs
  PROVE  /\ Typed /\ Len(calls) \in Nat /\ ex[e] \in ExecTo(Len(calls))
         /\ ex[e].st \in StateTo(Len(calls)) /\ ex[e].turn \in TurnTo(Len(calls))
         /\ ex[e].pc # "idle" => ex[e].run \in Runs
  <1>1. Typed
    BY TypedIsTypeOK DEF TypeInv
  <1>2. Len(calls) \in Nat /\ ex[e] \in ExecTo(Len(calls))
    BY <1>1, LenProperties DEF Typed
  <1> QED
    BY <1>1, <1>2, ExecFacts DEF TypeInv, ExecsHaveRuns

LEMMA BeginLoopEffect ==
  ASSUME TypeInv, NEW e \in Execs, BeginLoop(e)
  PROVE  Becomes(e, "top", "run",
                 StateOf("Preparing", ex[e].st.steps, ex[e].st.pending), ex[e].turn)
  <1>1. Publish(e, Enter(ex[e])) /\ calls' = calls
    BY DEF BeginLoop
  <1>2. Len(calls) \in Nat /\ ex[e] \in ExecTo(Len(calls))
    BY ExecType
  <1>3. /\ Enter(ex[e]) \in ExecTo(Len(calls))
        /\ Like(Enter(ex[e]), ex[e], "top", "run",
                StateOf("Preparing", ex[e].st.steps, ex[e].st.pending), ex[e].turn)
    BY <1>2, EnterFacts
  <1> QED
    BY <1>1, <1>2, <1>3, PublishEffect

LEMMA BeginPendingEffect ==
  ASSUME TypeInv, NEW e \in Execs, BeginPending(e)
  PROVE  LET x == ex[e] IN
         \/ Ends(e, Finished(x), shared[x.run])
         \/ /\ x.st.pending # NoTurn
            /\ Ends(e, Finished(x), StateOf("Cancelled", x.st.steps, NoTurn))
         \/ /\ x.st.pending # NoTurn /\ x.approved
            /\ Becomes(e, "executing", "confirm",
                       StateOf("Executing", x.st.steps, NoTurn), x.st.pending)
         \/ /\ x.st.pending # NoTurn /\ ~x.approved
            /\ Becomes(e, "top", "run",
                       StateOf("Preparing", Append(x.st.steps, x.st.pending), NoTurn),
                       x.st.pending)
  <1> DEFINE x == TakePending(ex[e])
             n == Len(calls)
             pend == ex[e].st.pending
             q == ex[e].st.steps
  <1>1. /\ n \in Nat /\ ex[e] \in ExecTo(n) /\ Typed /\ ex[e].run \in Runs
        /\ ex[e].st \in StateTo(n) /\ ex[e].kind = "confirm" /\ calls' = calls
    BY ExecType DEF BeginPending
  <1>2. /\ x \in ExecTo(n)
        /\ Like(x, ex[e], ex[e].pc, ex[e].kind, StateOf(ex[e].st.status, q, NoTurn), pend)
    BY <1>1, TakeFacts
  <1>e. \/ x.turn = NoTurn /\ Fail(e)
        \/ /\ x.turn # NoTurn
           /\ PublishAndEnd(e, As(x, "Cancelled"), Finished(x))
        \/ /\ x.turn # NoTurn
           /\ x.approved
           /\ Publish(e, [As(x, "Executing") EXCEPT !.pc = "executing"])
        \/ /\ x.turn # NoTurn
           /\ ~x.approved
           /\ Publish(e, Enter(Commit(x, x.turn, FALSE)))
    BY DEF BeginPending
  <1> HIDE DEF x
  <1>3. /\ x.turn = pend /\ x.st = StateOf(ex[e].st.status, q, NoTurn)
        /\ x.st.steps = q /\ x.st.pending = NoTurn /\ x.run = ex[e].run
        /\ x.approved = ex[e].approved /\ x.policy = ex[e].policy
        /\ x.kind = "confirm"
    BY <1>1, <1>2 DEF Like, StateOf
  <1>4. CASE x.turn = NoTurn /\ Fail(e)
    BY <1>1, <1>4, FailEffect
  <1>5. CASE x.turn # NoTurn /\ PublishAndEnd(e, As(x, "Cancelled"), Finished(x))
    <2>1. Finished(x) = Finished(ex[e])
      BY <1>3, FinishedRun
    <2>2. /\ As(x, "Cancelled") \in ExecTo(n)
          /\ Like(As(x, "Cancelled"), x, x.pc, x.kind,
                  StateOf("Cancelled", x.st.steps, x.st.pending), x.turn)
      BY <1>1, <1>2, AsFacts DEF Statuses
    <2>3. Like(As(x, "Cancelled"), ex[e], x.pc, x.kind,
               StateOf("Cancelled", q, NoTurn), x.turn)
      BY <1>3, <2>2 DEF Like
    <2>4. Ends(e, Finished(ex[e]), StateOf("Cancelled", q, NoTurn))
      BY <1>1, <1>5, <2>1, <2>2, <2>3, PublishEffect
    <2> QED
      BY <1>3, <1>5, <2>4
  <1>6. CASE /\ x.turn # NoTurn /\ x.approved
             /\ Publish(e, [As(x, "Executing") EXCEPT !.pc = "executing"])
    <2> DEFINE a == As(x, "Executing")
               y == [a EXCEPT !.pc = "executing"]
    <2>1. /\ a \in ExecTo(n)
          /\ Like(a, x, x.pc, x.kind,
                  StateOf("Executing", x.st.steps, x.st.pending), x.turn)
      BY <1>1, <1>2, AsFacts DEF Statuses
    <2> HIDE DEF a
    <2>2. y \in ExecTo(n) /\ Like(y, a, "executing", a.kind, a.st, a.turn)
      <3>1. "executing" \in Phases
        BY DEF Phases
      <3> QED
        BY <1>1, <2>1, <3>1, SetField, Zenon
    <2>3. Publish(e, y)
      BY <1>6 DEF a
    <2> HIDE DEF y
    <2>4. Like(y, ex[e], "executing", "confirm", StateOf("Executing", q, NoTurn), pend)
      BY <1>3, <2>1, <2>2 DEF Like
    <2>5. Becomes(e, "executing", "confirm", StateOf("Executing", q, NoTurn), pend)
      BY <1>1, <2>2, <2>3, <2>4, PublishEffect
    <2> QED
      BY <1>3, <1>6, <2>5
  <1>7. CASE /\ x.turn # NoTurn /\ ~x.approved
             /\ Publish(e, Enter(Commit(x, x.turn, FALSE)))
    <2> DEFINE a == Commit(x, x.turn, FALSE)
               y == Enter(a)
    <2>1. x.turn \in TurnTo(n) \ {NoTurn}
      BY <1>1, <1>2, <1>7, ExecFacts
    <2>2. /\ a \in ExecTo(n)
          /\ Like(a, x, x.pc, x.kind,
                  StateOf(x.st.status, Append(x.st.steps, x.turn), x.st.pending), x.turn)
      BY <1>1, <1>2, <2>1, CommitFacts
    <2> HIDE DEF a
    <2>3. /\ y \in ExecTo(n)
          /\ Like(y, a, "top", "run", StateOf("Preparing", a.st.steps, a.st.pending), a.turn)
      BY <1>1, <2>2, EnterFacts
    <2>4. Publish(e, y)
      BY <1>7 DEF a
    <2> HIDE DEF y
    <2>5. a.st.steps = Append(q, pend) /\ a.st.pending = NoTurn
      <3>1. a.st = StateOf(x.st.status, Append(x.st.steps, x.turn), x.st.pending)
        BY <2>2 DEF Like
      <3> DEFINE st == a.st
                 v == Append(x.st.steps, x.turn)
      <3>2. st = StateOf(x.st.status, v, x.st.pending)
        BY <3>1
      <3> HIDE DEF st, v
      <3>3. st.steps = v /\ st.pending = x.st.pending
        BY <3>2, StateOfFields
      <3> QED
        BY <1>3, <3>3 DEF st, v
    <2>6. Like(y, ex[e], "top", "run", StateOf("Preparing", Append(q, pend), NoTurn), pend)
      BY <1>3, <2>2, <2>3, <2>5 DEF Like
    <2>7. Becomes(e, "top", "run", StateOf("Preparing", Append(q, pend), NoTurn), pend)
      BY <1>1, <2>3, <2>4, <2>6, PublishEffect
    <2> QED
      BY <1>3, <1>7, <2>7
  <1> QED
    BY <1>e, <1>4, <1>5, <1>6, <1>7

\* A new status, and for what goes on a new place.
LEMMA StatusEffect ==
  ASSUME NEW e, NEW n \in Nat, Len(calls') = n, ex[e] \in ExecTo(n),
         NEW x \in ExecTo(n), NEW st, NEW turn, x.run = ex[e].run,
         x.approved = ex[e].approved, x.policy = ex[e].policy, x.turn = turn,
         NEW s \in Statuses, st = StateOf(s, x.st.steps, x.st.pending)
  PROVE  /\ PublishAndEnd(e, As(x, s), IdleExec) => Ends(e, IdleExec, st)
         /\ PublishAndEnd(e, As(x, s), Finished(x)) => Ends(e, Finished(ex[e]), st)
         /\ \A pc \in Phases :
              Publish(e, [As(x, s) EXCEPT !.pc = pc]) => Becomes(e, pc, x.kind, st, turn)
  <1>1. As(x, s) \in ExecTo(n) /\ Like(As(x, s), x, x.pc, x.kind, st, turn)
    BY AsFacts
  <1>2. Like(As(x, s), ex[e], x.pc, x.kind, st, turn)
    BY <1>1 DEF Like
  <1>3. Finished(x) = Finished(ex[e])
    BY FinishedRun
  <1>4. /\ PublishAndEnd(e, As(x, s), IdleExec) => Ends(e, IdleExec, st)
        /\ PublishAndEnd(e, As(x, s), Finished(x)) => Ends(e, Finished(ex[e]), st)
    BY <1>1, <1>2, <1>3, PublishEffect
  <1>5. ASSUME NEW pc \in Phases, Publish(e, [As(x, s) EXCEPT !.pc = pc])
        PROVE  Becomes(e, pc, x.kind, st, turn)
    <2> DEFINE a == As(x, s)
               y == [a EXCEPT !.pc = pc]
    <2>0. a \in ExecTo(n) /\ Like(a, ex[e], x.pc, x.kind, st, turn)
      BY <1>1, <1>2
    <2>1. Publish(e, y)
      BY <1>5
    <2> HIDE DEF a
    <2>2. y \in ExecTo(n) /\ Like(y, a, pc, a.kind, a.st, a.turn)
      BY <2>0, SetField, Zenon
    <2> HIDE DEF y
    <2>3. Like(y, ex[e], pc, x.kind, st, turn)
      BY <2>0, <2>2 DEF Like
    <2> QED
      BY <2>1, <2>2, <2>3, PublishEffect
  <1> QED
    BY <1>4, <1>5

LEMMA LoopTopEffect ==
  ASSUME TypeInv, NEW e \in Execs, LoopTop(e)
  PROVE  LET x == ex[e] IN
         \/ Ends(e, Finished(x), StateOf("Cancelled", x.st.steps, x.st.pending))
         \/ Becomes(e, "planning", x.kind,
                    StateOf("Planning", x.st.steps, x.st.pending), x.turn)
  <1> DEFINE x == ex[e]
             n == Len(calls)
  <1>1. n \in Nat /\ x \in ExecTo(n) /\ calls' = calls
    BY ExecType DEF LoopTop
  <1>2. "Cancelled" \in Statuses /\ "Planning" \in Statuses /\ "planning" \in Phases
        /\ 0 \in 0 .. MaxParseRetries
    BY DEF Statuses, Phases
  <1>3. CASE PublishAndEnd(e, As(x, "Cancelled"), Finished(x))
    BY <1>1, <1>2, <1>3, StatusEffect
  <1>4. CASE Publish(e, [As(x, "Planning") EXCEPT !.pc = "planning", !.attempt = 0])
    <2> DEFINE a == As(x, "Planning")
               b == [a EXCEPT !.pc = "planning"]
               y == [b EXCEPT !.attempt = 0]
               st == StateOf("Planning", x.st.steps, x.st.pending)
    <2>1. a \in ExecTo(n) /\ Like(a, x, x.pc, x.kind, st, x.turn)
      BY <1>1, <1>2, AsFacts
    <2>2. Publish(e, y)
      BY <1>4
    <2> HIDE DEF a, st
    <2>3. b \in ExecTo(n) /\ Like(b, a, "planning", a.kind, a.st, a.turn)
      BY <1>1, <1>2, <2>1, SetField, Zenon
    <2> HIDE DEF b
    <2>4. y \in ExecTo(n) /\ Like(y, b, b.pc, b.kind, b.st, b.turn)
      BY <1>1, <1>2, <2>3, SetField, Zenon
    <2> HIDE DEF y
    <2>5. Like(y, x, "planning", x.kind, st, x.turn)
      BY <2>1, <2>3, <2>4 DEF Like
    <2>6. Becomes(e, "planning", x.kind, st, x.turn)
      BY <1>1, <2>2, <2>4, <2>5, PublishEffect
    <2> QED
      BY <2>6 DEF st
  <1> QED
    BY <1>3, <1>4 DEF LoopTop

LEMMA PlanUnparsableEffect ==
  ASSUME TypeInv, NEW e \in Execs, PlanUnparsable(e)
  PROVE  LET x == ex[e] IN
         \/ \E y \in ExecTo(Len(calls)) :
              /\ Like(y, x, x.pc, x.kind, x.st, x.turn)
              /\ ex' = [ex EXCEPT ![e] = y] /\ UNCHANGED shared
         \/ Ends(e, Finished(x), StateOf("AwaitingUser", x.st.steps, x.st.pending))
  <1> DEFINE x == ex[e]
             n == Len(calls)
  <1>1. n \in Nat /\ x \in ExecTo(n) /\ calls' = calls
    BY ExecType DEF PlanUnparsable
  <1>2. CASE /\ x.attempt < MaxParseRetries /\ ex' = [ex EXCEPT ![e].attempt = @ + 1]
             /\ UNCHANGED shared
    <2> DEFINE k == x.attempt + 1
               y == [x EXCEPT !.attempt = k]
    <2>1. k \in 0 .. MaxParseRetries
      BY <1>1, <1>2, ExecFacts
    <2>2. ex' = [ex EXCEPT ![e] = y]
      BY <1>2
    <2> HIDE DEF k
    <2>3. y \in ExecTo(n) /\ Like(y, x, x.pc, x.kind, x.st, x.turn)
      BY <1>1, <2>1, SetField, Zenon
    <2> HIDE DEF y
    <2> QED
      BY <1>2, <2>2, <2>3
  <1>3. CASE PublishAndEnd(e, As(x, "AwaitingUser"), Finished(x))
    <2>1. "AwaitingUser" \in Statuses
      BY DEF Statuses
    <2> QED
      BY <1>1, <1>3, <2>1, StatusEffect
  <1> QED
    BY <1>2, <1>3 DEF PlanUnparsable

\* What the loop does with a turn of the planner, by the answer of the gate.
Gated(e, turn) ==
  LET x == ex[e] IN
  \/ /\ turn.act \notin Mutating \/ x.policy = "Auto"
     /\ Becomes(e, "executing", x.kind,
                StateOf("Executing", x.st.steps, x.st.pending), turn)
  \/ /\ turn.act \in Mutating /\ x.policy = "OnRequest"
     /\ Ends(e, IdleExec, StateOf("AwaitingToolApproval", x.st.steps, turn))
  \/ Becomes(e, "top", x.kind,
             StateOf("Planning", Append(x.st.steps, turn), x.st.pending), x.turn)

LEMMA GateEffect ==
  ASSUME NEW e, NEW n \in Nat, Len(calls') = n, ex[e] \in ExecTo(n),
         NEW turn \in TurnTo(n) \ {NoTurn}, Gate(e, ex[e], turn)
  PROVE  Gated(e, turn)
  <1> DEFINE x == ex[e]
             gate == Evaluate(turn.act, x.policy)
  <1>1. x.policy \in AllPolicies /\ x.st \in StateTo(n)
    BY ExecFacts
  <1>2. /\ gate = "Execute" => turn.act \notin Mutating \/ x.policy = "Auto"
        /\ gate = "PromptUser" => turn.act \in Mutating /\ x.policy = "OnRequest"
    BY <1>1 DEF Evaluate, AllPolicies
  <1>3. {"Executing", "AwaitingToolApproval", "Planning"} \subseteq Statuses
        /\ "executing" \in Phases /\ "top" \in Phases
    BY DEF Statuses, Phases
  <1>4. CASE /\ gate = "Execute"
             /\ Publish(e, [As(x, "Executing") EXCEPT !.pc = "executing", !.turn = turn])
    <2> DEFINE a == As(x, "Executing")
               b == [a EXCEPT !.pc = "executing"]
               y == [b EXCEPT !.turn = turn]
               st == StateOf("Executing", x.st.steps, x.st.pending)
    <2>1. a \in ExecTo(n) /\ Like(a, x, x.pc, x.kind, st, x.turn)
      BY <1>3, AsFacts
    <2>2. Publish(e, y)
      BY <1>4
    <2> HIDE DEF a, st
    <2>3. b \in ExecTo(n) /\ Like(b, a, "executing", a.kind, a.st, a.turn)
      BY <1>3, <2>1, SetField, Zenon
    <2> HIDE DEF b
    <2>4. turn \in TurnTo(n)
      OBVIOUS
    <2>5. y \in ExecTo(n) /\ Like(y, b, b.pc, b.kind, b.st, turn)
      BY <2>3, <2>4, SetField, Zenon
    <2> HIDE DEF y
    <2>6. Like(y, x, "executing", x.kind, st, turn)
      BY <2>1, <2>3, <2>5 DEF Like
    <2>7. Becomes(e, "executing", x.kind, st, turn)
      BY <2>2, <2>5, <2>6, PublishEffect
    <2> QED
      BY <1>2, <1>4, <2>7 DEF st, Gated
  <1>5. CASE /\ gate = "PromptUser"
             /\ PublishAndEnd(e, [As(x, "AwaitingToolApproval") EXCEPT !.st.pending = turn],
                              Paused)
    <2> DEFINE a == As(x, "AwaitingToolApproval")
               st == [a.st EXCEPT !.pending = turn]
               y == [a EXCEPT !.st = st]
    <2>1. /\ a \in ExecTo(n)
          /\ Like(a, x, x.pc, x.kind,
                  StateOf("AwaitingToolApproval", x.st.steps, x.st.pending), x.turn)
      BY <1>3, AsFacts
    <2>2. PublishAndEnd(e, y, IdleExec)
      BY <1>5 DEF Paused
    <2> HIDE DEF a
    <2>3. a.st \in StateTo(n)
      BY <2>1, ExecFacts
    <2>4. /\ st = StateOf(a.st.status, a.st.steps, turn) /\ st \in StateTo(n)
          /\ a.st.status = "AwaitingToolApproval" /\ a.st.steps = x.st.steps
      BY <2>1, <2>3, StateOfFields DEF StateTo, StateOf, Like
    <2> HIDE DEF st
    <2>5. y \in ExecTo(n) /\ Like(y, a, a.pc, a.kind, st, a.turn)
      BY <2>1, <2>4, SetField, Zenon
    <2> HIDE DEF y
    <2>6. Like(y, x, a.pc, a.kind, st, a.turn)
      BY <2>1, <2>5 DEF Like
    <2>7. Ends(e, IdleExec, st)
      BY <2>2, <2>5, <2>6, PublishEffect
    <2> QED
      BY <1>2, <1>5, <2>4, <2>7 DEF Gated
  <1>6. CASE Publish(e, [As(Commit(x, turn, FALSE), "Planning") EXCEPT !.pc = "top"])
    <2> DEFINE a == Commit(x, turn, FALSE)
               st == StateOf("Planning", Append(x.st.steps, turn), x.st.pending)
    <2>1. /\ a \in ExecTo(n)
          /\ Like(a, x, x.pc, x.kind,
                  StateOf(x.st.status, Append(x.st.steps, turn), x.st.pending), x.turn)
      BY CommitFacts
    <2>2. Publish(e, [As(a, "Planning") EXCEPT !.pc = "top"])
      BY <1>6
    <2> HIDE DEF a
    <2>3. a.st = StateOf(x.st.status, Append(x.st.steps, turn), x.st.pending)
      BY <2>1 DEF Like
    <2>4. st = StateOf("Planning", a.st.steps, a.st.pending)
      BY <2>3, StateOfFields
    <2>5. /\ a.run = x.run /\ a.approved = x.approved /\ a.policy = x.policy
          /\ a.kind = x.kind /\ a.turn = x.turn
      BY <2>1 DEF Like
    <2> HIDE DEF st
    <2>6. Becomes(e, "top", a.kind, st, x.turn)
      BY <1>3, <2>1, <2>2, <2>4, <2>5, StatusEffect
    <2> QED
      BY <2>5, <2>6 DEF st, Gated
  <1> QED
    BY <1>4, <1>5, <1>6 DEF Gate

\* Changing a call, or one that is not there, leaves a sequence of calls.
LEMMA CallsExcept ==
  ASSUME NEW c \in Seq(Call), NEW i \in Nat
  PROVE  /\ \A v \in Call :
              /\ [c EXCEPT ![i] = v] \in Seq(Call)
              /\ Len([c EXCEPT ![i] = v]) = Len(c)
              /\ i \in 1 .. Len(c) => [c EXCEPT ![i] = v][i] = v
              /\ \A j \in 1 .. Len(c) : j # i => [c EXCEPT ![i] = v][j] = c[j]
         /\ i \notin 1 .. Len(c) =>
              /\ [c EXCEPT ![i].ran = @ + 1] = c
              /\ [c EXCEPT ![i].approved = TRUE] = c
         /\ i \in 1 .. Len(c) =>
              /\ [c[i] EXCEPT !.ran = @ + 1] \in Call
              /\ [c[i] EXCEPT !.approved = TRUE] \in Call
              /\ c[i] \in Call
  <1>1. Len(c) \in Nat /\ c \in [1 .. Len(c) -> Call] /\ DOMAIN c = 1 .. Len(c)
    BY LenProperties
  <1>2. ASSUME NEW v \in Call
        PROVE  /\ [c EXCEPT ![i] = v] \in Seq(Call)
               /\ Len([c EXCEPT ![i] = v]) = Len(c)
               /\ i \in 1 .. Len(c) => [c EXCEPT ![i] = v][i] = v
               /\ \A j \in 1 .. Len(c) : j # i => [c EXCEPT ![i] = v][j] = c[j]
    <2>1. CASE i \in 1 .. Len(c)
      BY <2>1, ExceptSeq
    <2>2. CASE i \notin 1 .. Len(c)
      <3>1. [c EXCEPT ![i] = v] = c
        BY <1>1, <2>2
      <3> QED
        BY <2>2, <3>1
    <2> QED
      BY <2>1, <2>2
  <1>3. i \notin 1 .. Len(c) =>
          /\ [c EXCEPT ![i].ran = @ + 1] = c
          /\ [c EXCEPT ![i].approved = TRUE] = c
    BY <1>1
  <1>4. i \in 1 .. Len(c) =>
          /\ [c[i] EXCEPT !.ran = @ + 1] \in Call
          /\ [c[i] EXCEPT !.approved = TRUE] \in Call
          /\ c[i] \in Call
    <2> SUFFICES ASSUME i \in 1 .. Len(c)
                 PROVE  /\ [c[i] EXCEPT !.ran = @ + 1] \in Call
                        /\ [c[i] EXCEPT !.approved = TRUE] \in Call
                        /\ c[i] \in Call
      OBVIOUS
    <2> DEFINE v == c[i]
    <2>1. v \in Call
      BY <1>1
    <2> HIDE DEF v
    <2>2. [v EXCEPT !.ran = @ + 1] \in Call
      <3> DEFINE k == v.ran + 1
      <3>1. k \in Nat
        BY <2>1 DEF Call
      <3> HIDE DEF k
      <3>2. [v EXCEPT !.ran = k] \in Call
        BY <2>1, <3>1 DEF Call
      <3> QED
        BY <3>2 DEF k
    <2>3. [v EXCEPT !.approved = TRUE] \in Call
      BY <2>1 DEF Call
    <2> QED
      BY <2>1, <2>2, <2>3 DEF v
  <1> QED
    BY <1>2, <1>3, <1>4

\* The call a mutating turn is recorded as.
NewCall(e) ==
  [run |-> ex[e].run, policy |-> ex[e].policy, access |-> access[ex[e].run],
   approved |-> FALSE, ran |-> 0, resent |-> FALSE]

LEMMA PlanEffect ==
  ASSUME TypeInv, NEW e \in Execs, NEW answer \in Actions, Plan(e, answer)
  PROVE  /\ calls' \in Seq(Call) /\ Len(calls') \in Nat /\ Len(calls) <= Len(calls')
         /\ \E turn \in TurnTo(Len(calls')) \ {NoTurn} :
              /\ Gated(e, turn)
              /\ \/ /\ turn.act \in Mutating /\ turn.id = Len(calls) + 1
                    /\ NewCall(e) \in Call /\ calls' = Append(calls, NewCall(e))
                 \/ turn.act \notin Mutating /\ turn.id = 0 /\ calls' = calls
  <1> DEFINE x == ex[e]
             act == Check(x.g, answer)
             k == IF act \in Mutating THEN Len(calls) + 1 ELSE 0
             turn == [act |-> act, id |-> k]
             n == Len(calls')
  <1>1. /\ Typed /\ Len(calls) \in Nat /\ x \in ExecTo(Len(calls)) /\ x.run \in Runs
    BY ExecType DEF Plan
  <1>2. act \in Actions
    BY DEF Check, Actions
  <1>3. Gate(e, x, turn)
        /\ calls' = IF act \in Mutating THEN Append(calls, NewCall(e)) ELSE calls
    BY DEF Plan, NewCall
  <1> HIDE DEF act
  <1>4. NewCall(e) \in Call
    BY <1>1, ExecFacts DEF NewCall, Call, Typed
  <1>5. /\ calls' \in Seq(Call) /\ n \in Nat /\ Len(calls) <= n /\ k \in 0 .. n
        /\ act \in Mutating => n = Len(calls) + 1
    <2>1. calls \in Seq(Call)
      BY <1>1 DEF Typed
    <2> HIDE DEF NewCall
    <2>2. CASE act \in Mutating
      BY <1>1, <1>3, <1>4, <2>1, <2>2, AppendProperties
    <2>3. CASE act \notin Mutating
      BY <1>1, <1>3, <2>1, <2>3
    <2> QED
      BY <2>2, <2>3
  <1> HIDE DEF k
  <1>6. turn \in TurnTo(n) \ {NoTurn}
    <2>1. "none" \notin Actions
      BY DEF Actions
    <2> QED
      BY <1>2, <1>5, <2>1 DEF TurnTo, NoTurn
  <1>7. x \in ExecTo(n)
    BY <1>1, <1>5, TypesGrow
  <1>8. turn.act = act /\ turn.id = k
    OBVIOUS
  <1> HIDE DEF turn
  <1>9. Gated(e, turn)
    BY <1>3, <1>5, <1>6, <1>7, GateEffect
  <1> HIDE DEF NewCall
  <1> QED
    BY <1>3, <1>4, <1>5, <1>6, <1>8, <1>9 DEF k

LEMMA LostFacts ==
  ASSUME NEW c \in Call, NEW n \in {0, 1}
  PROVE  /\ Lost(c, n) \in Call /\ Lost(c, n).run = c.run
         /\ Lost(c, n).policy = c.policy /\ Lost(c, n).approved = c.approved
         /\ Lost(c, n).resent /\ Lost(c, n).ran = c.ran + n
  <1> DEFINE k == c.ran + n
             d == [c EXCEPT !.resent = TRUE, !.ran = k]
  <1>1. k \in Nat
    BY DEF Call
  <1>2. Lost(c, n) = d
    BY DEF Lost
  <1> HIDE DEF k
  <1>3. /\ d \in Call /\ d.run = c.run /\ d.policy = c.policy
        /\ d.approved = c.approved /\ d.resent = TRUE /\ d.ran = k
    BY <1>1 DEF Call
  <1> HIDE DEF d
  <1> QED
    BY <1>2, <1>3 DEF k

\* A request that is lost marks its call, and may count it.
LEMMA ResentFacts ==
  ASSUME calls \in Seq(Call), NEW turn \in TurnTo(Len(calls)), NEW n \in {0, 1},
         calls' = Resent(turn, n)
  PROVE  /\ calls' \in Seq(Call) /\ Len(calls') = Len(calls)
         /\ \A j \in 1 .. Len(calls) : j # turn.id => calls'[j] = calls[j]
         /\ turn.id \in 1 .. Len(calls) => calls'[turn.id] = Lost(calls[turn.id], n)
  <1> DEFINE i == turn.id
             v == Lost(calls[i], n)
  <1>1. i \in Nat
    BY LenProperties DEF TurnTo, NoTurn
  <1>2. CASE i \in 1 .. Len(calls)
    <2>1. calls' = [calls EXCEPT ![i] = v]
      BY <1>1, <1>2 DEF Resent
    <2>2. v \in Call
      <3>1. calls[i] \in Call
        BY <1>2, ElementOfSeq
      <3> QED
        BY <3>1, LostFacts
    <2> HIDE DEF v
    <2>3. /\ [calls EXCEPT ![i] = v] \in Seq(Call)
          /\ Len([calls EXCEPT ![i] = v]) = Len(calls)
          /\ [calls EXCEPT ![i] = v][i] = v
          /\ \A j \in 1 .. Len(calls) : j # i => [calls EXCEPT ![i] = v][j] = calls[j]
      BY <1>1, <1>2, <2>2, CallsExcept
    <2> QED
      BY <2>1, <2>3 DEF v
  <1>3. CASE i \notin 1 .. Len(calls)
    <2>1. calls' = calls
      <3>1. Len(calls) \in Nat /\ calls \in [1 .. Len(calls) -> Call]
        BY LenProperties
      <3> QED
        BY <1>1, <1>3, <3>1 DEF Resent
    <2> QED
      BY <1>3, <2>1
  <1> QED
    BY <1>2, <1>3

\* A tool that returns counts its call.
LEMMA RanFacts ==
  ASSUME calls \in Seq(Call), NEW turn \in TurnTo(Len(calls)),
         calls' = Ran(turn) \/ calls' = calls
  PROVE  /\ calls' \in Seq(Call) /\ Len(calls') = Len(calls)
         /\ \A j \in 1 .. Len(calls) : j # turn.id => calls'[j] = calls[j]
         /\ turn.id \in 1 .. Len(calls) =>
              \/ calls'[turn.id] = calls[turn.id]
              \/ calls'[turn.id] = [calls[turn.id] EXCEPT !.ran = @ + 1]
  <1> DEFINE i == turn.id
             v == [calls[i] EXCEPT !.ran = @ + 1]
  <1>1. i \in Nat
    BY LenProperties DEF TurnTo, NoTurn
  <1>2. CASE calls' = calls
    BY <1>2
  <1>3. CASE i \in 1 .. Len(calls) /\ calls' = Ran(turn)
    <2>1. calls' = [calls EXCEPT ![i] = v]
      BY <1>1, <1>3 DEF Ran
    <2>2. v \in Call
      BY <1>1, <1>3, CallsExcept
    <2> HIDE DEF v
    <2>3. /\ [calls EXCEPT ![i] = v] \in Seq(Call)
          /\ Len([calls EXCEPT ![i] = v]) = Len(calls)
          /\ [calls EXCEPT ![i] = v][i] = v
          /\ \A j \in 1 .. Len(calls) : j # i => [calls EXCEPT ![i] = v][j] = calls[j]
      BY <1>1, <1>3, <2>2, CallsExcept
    <2> QED
      BY <2>1, <2>3 DEF v
  <1>4. CASE i \notin 1 .. Len(calls) /\ calls' = Ran(turn)
    <2>1. calls' = calls
      BY <1>1, <1>4, CallsExcept DEF Ran
    <2> QED
      BY <1>4, <2>1
  <1> QED
    BY <1>2, <1>3, <1>4

LEMMA ToolReturnsEffect ==
  ASSUME TypeInv, NEW e \in Execs, NEW ok \in BOOLEAN, ToolReturns(e, ok)
  PROVE  LET x == ex[e]
             q == Append(x.st.steps, x.turn)
         IN
         \/ Ends(e, Finished(x), StateOf("Cancelled", x.st.steps, x.st.pending))
         \/ Ends(e, IdleExec, StateOf("AwaitingUser", q, x.st.pending))
         \/ Ends(e, Finished(x), StateOf("Completed", q, x.st.pending))
         \/ Becomes(e, "top", "run", StateOf("Preparing", q, x.st.pending), x.turn)
         \/ Becomes(e, "top", x.kind, StateOf("Planning", q, x.st.pending), x.turn)
  <1> DEFINE x == ex[e]
             q == Append(x.st.steps, x.turn)
             done == Commit(x, x.turn, ok)
             n == Len(calls)
  <1>1. /\ Typed /\ n \in Nat /\ x \in ExecTo(n) /\ x.turn \in TurnTo(n) \ {NoTurn}
    BY ExecType DEF ToolReturns, TypeInv, TurnsAreSet
  <1>2. Len(calls') = n
    BY <1>1, RanFacts DEF ToolReturns, Typed
  <1>3. {"Cancelled", "AwaitingUser", "Completed", "Planning"} \subseteq Statuses
        /\ "top" \in Phases
    BY DEF Statuses, Phases
  <1>4. /\ done \in ExecTo(n)
        /\ Like(done, x, x.pc, x.kind, StateOf(x.st.status, q, x.st.pending), x.turn)
    BY <1>1, CommitFacts
  <1>5. \/ PublishAndEnd(e, As(x, "Cancelled"), Finished(x))
        \/ PublishAndEnd(e, As(done, "AwaitingUser"), IdleExec)
        \/ PublishAndEnd(e, As(done, "Completed"), Finished(done))
        \/ Publish(e, Enter(done))
        \/ Publish(e, [As(done, "Planning") EXCEPT !.pc = "top"])
    BY DEF ToolReturns, FinishWithAction, Paused
  <1> HIDE DEF done, q
  <1>6. /\ done.run = x.run /\ done.approved = x.approved /\ done.policy = x.policy
        /\ done.turn = x.turn /\ done.kind = x.kind
        /\ done.st.steps = q /\ done.st.pending = x.st.pending
    BY <1>4, StateOfFields DEF Like
  <1>7. CASE PublishAndEnd(e, As(x, "Cancelled"), Finished(x))
    BY <1>1, <1>2, <1>3, <1>7, StatusEffect
  <1>8. CASE PublishAndEnd(e, As(done, "AwaitingUser"), IdleExec)
    <2>1. Ends(e, IdleExec, StateOf("AwaitingUser", q, x.st.pending))
      BY <1>1, <1>2, <1>3, <1>4, <1>6, <1>8, StatusEffect
    <2> QED
      BY <2>1 DEF q
  <1>9. CASE PublishAndEnd(e, As(done, "Completed"), Finished(done))
    <2>1. Ends(e, Finished(x), StateOf("Completed", q, x.st.pending))
      BY <1>1, <1>2, <1>3, <1>4, <1>6, <1>9, StatusEffect
    <2> QED
      BY <2>1 DEF q
  <1>10. CASE Publish(e, Enter(done))
    <2>1. /\ Enter(done) \in ExecTo(n)
          /\ Like(Enter(done), done, "top", "run",
                  StateOf("Preparing", q, x.st.pending), x.turn)
      BY <1>1, <1>4, <1>6, EnterFacts
    <2>2. Like(Enter(done), x, "top", "run",
               StateOf("Preparing", q, x.st.pending), x.turn)
      BY <1>6, <2>1 DEF Like
    <2>3. Becomes(e, "top", "run", StateOf("Preparing", q, x.st.pending), x.turn)
      BY <1>1, <1>2, <1>10, <2>1, <2>2, PublishEffect
    <2> QED
      BY <2>3 DEF q
  <1>11. CASE Publish(e, [As(done, "Planning") EXCEPT !.pc = "top"])
    <2>1. Becomes(e, "top", x.kind, StateOf("Planning", q, x.st.pending), x.turn)
      BY <1>1, <1>2, <1>3, <1>4, <1>6, <1>11, StatusEffect
    <2> QED
      BY <2>1 DEF q
  <1> QED
    BY <1>5, <1>7, <1>8, <1>9, <1>10, <1>11

LEMMA ToolResentEffect ==
  ASSUME TypeInv, NEW e \in Execs, ToolResent(e)
  PROVE  /\ ex[e].pc = "executing" /\ ex[e].turn # NoTurn
         /\ UNCHANGED <<registry, start, shared, cancelled, policy, cmd, commands, access>>
         /\ \E n \in {0, 1} : calls' = Resent(ex[e].turn, n)
         /\ calls' \in Seq(Call) /\ Len(calls') = Len(calls)
         /\ \E y \in ExecTo(Len(calls)) :
              /\ Like(y, ex[e], "resent", ex[e].kind, ex[e].st, ex[e].turn)
              /\ ex' = [ex EXCEPT ![e] = y]
  <1> DEFINE x == ex[e]
             y == [x EXCEPT !.pc = "resent"]
  <1>1. /\ Typed /\ Len(calls) \in Nat /\ x \in ExecTo(Len(calls))
        /\ x.turn \in TurnTo(Len(calls)) /\ calls \in Seq(Call)
    BY ExecType DEF Typed
  <1>2. /\ x.pc = "executing" /\ ex' = [ex EXCEPT ![e] = y]
        /\ UNCHANGED <<registry, start, shared, cancelled, policy, cmd, commands, access>>
        /\ \E n \in {0, 1} : calls' = Resent(x.turn, n)
    BY DEF ToolResent
  <1>3. x.turn # NoTurn
    BY <1>2 DEF TypeInv, TurnsAreSet
  <1>4. calls' \in Seq(Call) /\ Len(calls') = Len(calls)
    BY <1>1, <1>2, ResentFacts
  <1>5. "resent" \in Phases
    BY DEF Phases
  <1> HIDE DEF x
  <1>6. y \in ExecTo(Len(calls)) /\ Like(y, x, "resent", x.kind, x.st, x.turn)
    BY <1>1, <1>5, SetField, Zenon
  <1> HIDE DEF y
  <1> QED
    BY <1>2, <1>3, <1>4, <1>6 DEF x

\* TypeInv after a step that changes one execution, in terms of what it becomes.
LEMMA ExecChanged ==
  ASSUME TypeInv, NEW e \in Execs, NEW y \in ExecTo(Len(calls')),
         ex' = [ex EXCEPT ![e] = y],
         IF y.pc = "idle" THEN y.run = "none" ELSE y.run \in Runs,
         y.pc \in AtTool => y.turn # NoTurn,
         calls' \in Seq(Call), Len(calls) <= Len(calls')
  PROVE  /\ ex' \in [Execs -> ExecTo(Len(calls'))] /\ ex'[e] = y
         /\ \A f \in Execs : f # e => ex'[f] = ex[f]
         /\ shared \in [Runs -> StateTo(Len(calls'))]
         /\ ExecsHaveRuns' /\ TurnsAreSet'
  <1>1. /\ Typed /\ Len(calls) \in Nat /\ Len(calls') \in Nat
    BY ExecType, LenProperties
  <1>2. /\ ExecTo(Len(calls)) \subseteq ExecTo(Len(calls'))
        /\ StateTo(Len(calls)) \subseteq StateTo(Len(calls'))
    BY <1>1, TypesGrow
  <1>3. ex' \in [Execs -> ExecTo(Len(calls'))] /\ shared \in [Runs -> StateTo(Len(calls'))]
    BY <1>1, <1>2 DEF Typed
  <1>4. ex'[e] = y /\ \A f \in Execs : f # e => ex'[f] = ex[f]
    BY <1>1 DEF Typed
  <1>5. ExecsHaveRuns' /\ TurnsAreSet'
    BY <1>4 DEF TypeInv, ExecsHaveRuns, TurnsAreSet
  <1> QED
    BY <1>3, <1>4, <1>5

\* TypeInv after the steps that only touch an execution, its run and the calls.
LEMMA EffectType ==
  ASSUME TypeInv, NEW e \in Execs, ex[e].pc # "idle",
         calls' \in Seq(Call), Len(calls) <= Len(calls'),
         UNCHANGED <<registry, start, cancelled, policy, cmd, commands, access>>
  PROVE  /\ \A pc \in Phases \ {"idle"} : \A kind, turn, st :
              Becomes(e, pc, kind, st, turn) /\ (pc \in AtTool => turn # NoTurn)
                => TypeInv'
         /\ \A y, st : Ends(e, y, st) => TypeInv'
  <1>1. /\ Typed /\ ex[e] \in ExecTo(Len(calls)) /\ ex[e].run \in Runs
        /\ Len(calls) \in Nat /\ Len(calls') \in Nat
    BY ExecType, LenProperties
  <1>x. ex[e] \in ExecTo(Len(calls'))
    BY <1>1, TypesGrow
  <1>2. CommandsHaveRuns'
    BY DEF TypeInv, CommandsHaveRuns, HasCommand
  <1>3. ASSUME NEW y \in ExecTo(Len(calls')), ex' = [ex EXCEPT ![e] = y],
               IF y.pc = "idle" THEN y.run = "none" ELSE y.run \in Runs,
               y.pc \in AtTool => y.turn # NoTurn,
               NEW st \in StateTo(Len(calls')),
               shared' = [shared EXCEPT ![ex[e].run] = st]
        PROVE  TypeInv'
    <2>1. /\ ex' \in [Execs -> ExecTo(Len(calls'))]
          /\ shared \in [Runs -> StateTo(Len(calls'))]
          /\ ExecsHaveRuns' /\ TurnsAreSet'
      BY <1>3, ExecChanged
    <2>2. shared' \in [Runs -> StateTo(Len(calls'))]
      BY <1>3, <2>1
    <2>3. Typed'
      BY <1>1, <2>1, <2>2 DEF Typed
    <2> QED
      BY <1>2, <2>1, <2>3, TypedIsTypeOK DEF TypeInv
  <1>4. ASSUME NEW pc \in Phases \ {"idle"}, NEW kind, NEW turn, NEW st,
               Becomes(e, pc, kind, st, turn), pc \in AtTool => turn # NoTurn
        PROVE  TypeInv'
    <2>1. PICK y \in ExecTo(Len(calls')) :
            Like(y, ex[e], pc, kind, st, turn) /\ ex' = [ex EXCEPT ![e] = y]
      BY <1>4 DEF Becomes
    <2>2. y.pc = pc /\ y.run = ex[e].run /\ y.turn = turn
      BY <2>1 DEF Like
    <2> QED
      BY <1>1, <1>3, <1>4, <2>1, <2>2 DEF Becomes
  <1>5. ASSUME NEW y, NEW st, Ends(e, y, st) PROVE TypeInv'
    <2>1. /\ y \in ExecTo(Len(calls')) /\ y.pc \notin AtTool
          /\ IF y.pc = "idle" THEN y.run = "none" ELSE y.run \in Runs
      BY <1>1, <1>x, <1>5, FinishedFacts, NewTypes DEF Ends
    <2> QED
      BY <1>3, <1>5, <2>1 DEF Ends
  <1> QED
    BY <1>4, <1>5

LEMMA ReadSharedEffect ==
  ASSUME TypeInv, NEW e \in Execs, ReadShared(e)
  PROVE  LET x == ex[e]
             st == IF x.kind = "run" THEN NewRunState ELSE shared[x.run]
         IN  \E y \in ExecTo(Len(calls)) :
               Like(y, x, "begun", x.kind, st, x.turn) /\ ex' = [ex EXCEPT ![e] = y]
  <1> DEFINE x == ex[e]
             n == Len(calls)
             st == IF x.kind = "run" THEN NewRunState ELSE shared[x.run]
             a == [x EXCEPT !.pc = "begun"]
             y == [a EXCEPT !.st = st]
  <1>1. /\ Typed /\ n \in Nat /\ x \in ExecTo(n) /\ x.run \in Runs
    BY ExecType DEF ReadShared
  <1>2. st \in StateTo(n) /\ "begun" \in Phases
    BY <1>1, NewTypes DEF Typed, Phases
  <1>3. ex' = [ex EXCEPT ![e] = y]
    BY DEF ReadShared
  <1> HIDE DEF st
  <1>4. a \in ExecTo(n) /\ Like(a, x, "begun", x.kind, x.st, x.turn)
    BY <1>1, <1>2, SetField, Zenon
  <1> HIDE DEF a
  <1>5. y \in ExecTo(n) /\ Like(y, a, a.pc, a.kind, st, a.turn)
    BY <1>1, <1>2, <1>4, SetField, Zenon
  <1> HIDE DEF y
  <1>6. Like(y, x, "begun", x.kind, st, x.turn)
    BY <1>4, <1>5 DEF Like
  <1> QED
    BY <1>3, <1>5, <1>6 DEF st

LEMMA ExecStepType ==
  ASSUME TypeInv, NEW e \in Execs, ExecStep(e)
  PROVE  TypeInv'
  <1>1. /\ Typed /\ Len(calls) \in Nat /\ ex[e] \in ExecTo(Len(calls))
        /\ calls \in Seq(Call) /\ ex[e].turn \in TurnTo(Len(calls))
    BY ExecType DEF Typed
  <1>2. "executing" \in Phases \ {"idle"} /\ "top" \in Phases \ {"idle"}
        /\ "planning" \in Phases \ {"idle"} /\ "begun" \in Phases \ {"idle"}
    BY DEF Phases
  <1>3. CASE ReadShared(e)
    <2>1. /\ ex[e].pc = "spawned" /\ ex[e].run \in Runs
          /\ UNCHANGED <<registry, start, shared, cancelled, policy, cmd, commands,
                         access, calls>>
      BY <1>3, ExecType DEF ReadShared
    <2>2. PICK y \in ExecTo(Len(calls)) :
            /\ y.pc = "begun" /\ y.run = ex[e].run /\ ex' = [ex EXCEPT ![e] = y]
      BY <1>3, ReadSharedEffect DEF Like
    <2>a. Len(calls) <= Len(calls') /\ calls' \in Seq(Call)
      BY <1>1, <2>1
    <2>b. y \in ExecTo(Len(calls'))
      BY <2>1
    <2>3. /\ ex' \in [Execs -> ExecTo(Len(calls'))] /\ ExecsHaveRuns' /\ TurnsAreSet'
      BY <2>1, <2>2, <2>a, <2>b, ExecChanged
    <2>4. Typed'
      BY <1>1, <2>1, <2>3 DEF Typed
    <2>5. CommandsHaveRuns'
      BY <2>1 DEF TypeInv, CommandsHaveRuns, HasCommand
    <2> QED
      BY <2>3, <2>4, <2>5, TypedIsTypeOK DEF TypeInv
  <1>4. CASE BeginLoop(e)
    <2>1. /\ ex[e].pc # "idle" /\ calls' = calls
          /\ UNCHANGED <<registry, start, cancelled, policy, cmd, commands, access>>
      BY <1>4 DEF BeginLoop
    <2> QED
      BY <1>1, <1>2, <1>4, <2>1, BeginLoopEffect, EffectType
  <1>5. CASE BeginPending(e)
    <2>1. /\ ex[e].pc # "idle" /\ calls' = calls
          /\ UNCHANGED <<registry, start, cancelled, policy, cmd, commands, access>>
      BY <1>5 DEF BeginPending
    <2> QED
      BY <1>1, <1>2, <1>5, <2>1, BeginPendingEffect, EffectType
  <1>6. CASE LoopTop(e)
    <2>1. /\ ex[e].pc # "idle" /\ calls' = calls
          /\ UNCHANGED <<registry, start, cancelled, policy, cmd, commands, access>>
      BY <1>6 DEF LoopTop
    <2> QED
      BY <1>1, <1>2, <1>6, <2>1, LoopTopEffect, EffectType
  <1>7. CASE PlanFails(e)
    <2>1. /\ ex[e].pc # "idle" /\ calls' = calls /\ Fail(e)
          /\ UNCHANGED <<registry, start, cancelled, policy, cmd, commands, access>>
      BY <1>7 DEF PlanFails
    <2>2. Ends(e, Finished(ex[e]), shared[ex[e].run])
      BY <1>1, <2>1, ExecType, FailEffect
    <2> QED
      BY <1>1, <2>1, <2>2, EffectType
  <1>8. CASE PlanUnparsable(e)
    <2>1. /\ ex[e].pc = "planning" /\ calls' = calls /\ ex[e].run \in Runs
          /\ UNCHANGED <<registry, start, cancelled, policy, cmd, commands, access>>
      BY <1>8, ExecType DEF PlanUnparsable
    <2>2. CASE Ends(e, Finished(ex[e]),
                    StateOf("AwaitingUser", ex[e].st.steps, ex[e].st.pending))
      BY <1>1, <2>1, <2>2, EffectType
    <2>3. ASSUME NEW y \in ExecTo(Len(calls)),
                 Like(y, ex[e], ex[e].pc, ex[e].kind, ex[e].st, ex[e].turn),
                 ex' = [ex EXCEPT ![e] = y], UNCHANGED shared
          PROVE  TypeInv'
      <3>1. y.pc = "planning" /\ y.run \in Runs
        BY <2>1, <2>3 DEF Like
      <3>a. Len(calls) <= Len(calls') /\ calls' \in Seq(Call)
        BY <1>1, <2>1
      <3>b. y \in ExecTo(Len(calls'))
        BY <2>1
      <3>2. /\ ex' \in [Execs -> ExecTo(Len(calls'))] /\ ExecsHaveRuns' /\ TurnsAreSet'
        BY <2>3, <3>1, <3>a, <3>b, ExecChanged
      <3>3. Typed'
        BY <1>1, <2>1, <2>3, <3>2 DEF Typed
      <3>4. CommandsHaveRuns'
        BY <2>1 DEF TypeInv, CommandsHaveRuns, HasCommand
      <3> QED
        BY <3>2, <3>3, <3>4, TypedIsTypeOK DEF TypeInv
    <2> QED
      BY <1>8, <2>2, <2>3, PlanUnparsableEffect
  <1>9. ASSUME NEW answer \in Actions, Plan(e, answer) PROVE TypeInv'
    <2>1. /\ ex[e].pc # "idle"
          /\ UNCHANGED <<registry, start, cancelled, policy, cmd, commands, access>>
      BY <1>9 DEF Plan
    <2>2. calls' \in Seq(Call) /\ Len(calls) <= Len(calls')
      BY <1>9, PlanEffect
    <2>3. PICK turn \in TurnTo(Len(calls')) \ {NoTurn} : Gated(e, turn)
      BY <1>9, PlanEffect
    <2> QED
      BY <1>2, <2>1, <2>2, <2>3, EffectType DEF Gated
  <1>10. ASSUME NEW ok \in BOOLEAN, ToolReturns(e, ok) PROVE TypeInv'
    <2>1. /\ ex[e].pc # "idle" /\ calls' = Ran(ex[e].turn)
          /\ UNCHANGED <<registry, start, cancelled, policy, cmd, commands, access>>
      BY <1>10 DEF ToolReturns
    <2>a. calls' \in Seq(Call) /\ Len(calls') = Len(calls)
      BY <1>1, <2>1, RanFacts
    <2>2. Len(calls) <= Len(calls')
      BY <1>1, <2>a
    <2> QED
      BY <1>2, <1>10, <2>1, <2>a, <2>2, ToolReturnsEffect, EffectType
  <1>11. CASE ToolFails(e)
    <2>1. /\ ex[e].pc # "idle" /\ (calls' = Ran(ex[e].turn) \/ calls' = calls) /\ Fail(e)
          /\ UNCHANGED <<registry, start, cancelled, policy, cmd, commands, access>>
      BY <1>11 DEF ToolFails
    <2>2. calls' \in Seq(Call) /\ Len(calls) = Len(calls')
      BY <1>1, <2>1, RanFacts
    <2>3. Ends(e, Finished(ex[e]), shared[ex[e].run])
      BY <1>1, <2>1, <2>2, ExecType, FailEffect
    <2> QED
      BY <1>1, <2>1, <2>2, <2>3, EffectType
  <1>13. CASE ToolResent(e)
    <2>1. /\ ex[e].pc = "executing" /\ ex[e].turn # NoTurn /\ ex[e].run \in Runs
          /\ UNCHANGED <<registry, start, shared, cancelled, policy, cmd, commands, access>>
          /\ calls' \in Seq(Call) /\ Len(calls') = Len(calls)
      BY <1>13, ToolResentEffect, ExecType
    <2>2. PICK y \in ExecTo(Len(calls)) :
            /\ Like(y, ex[e], "resent", ex[e].kind, ex[e].st, ex[e].turn)
            /\ ex' = [ex EXCEPT ![e] = y]
      BY <1>13, ToolResentEffect
    <2>3. y.pc = "resent" /\ y.run \in Runs /\ y.turn # NoTurn
      BY <2>1, <2>2 DEF Like
    <2>a. Len(calls) <= Len(calls')
      BY <1>1, <2>1
    <2>b. y \in ExecTo(Len(calls'))
      BY <2>1
    <2>4. /\ ex' \in [Execs -> ExecTo(Len(calls'))] /\ ExecsHaveRuns' /\ TurnsAreSet'
          /\ shared \in [Runs -> StateTo(Len(calls'))]
      BY <2>1, <2>2, <2>3, <2>a, <2>b, ExecChanged
    <2>5. Typed'
      BY <1>1, <2>1, <2>4 DEF Typed
    <2>6. CommandsHaveRuns'
      BY <2>1 DEF TypeInv, CommandsHaveRuns, HasCommand
    <2> QED
      BY <2>4, <2>5, <2>6, TypedIsTypeOK DEF TypeInv
  <1>12. CASE RemoveRun(e)
    <2>1. /\ ex' = [ex EXCEPT ![e] = IdleExec] /\ registry' \subseteq registry
          /\ UNCHANGED <<start, shared, cancelled, policy, cmd, commands, access, calls>>
      BY <1>12 DEF RemoveRun
    <2>2. /\ IdleExec \in ExecTo(Len(calls)) /\ IdleExec.pc = "idle"
          /\ IdleExec.run = "none"
      BY <1>1, NewTypes
    <2>a. Len(calls) <= Len(calls') /\ calls' \in Seq(Call)
      BY <1>1, <2>1
    <2>b. IdleExec \in ExecTo(Len(calls'))
      BY <2>1, <2>2
    <2>3. /\ ex' \in [Execs -> ExecTo(Len(calls'))] /\ ExecsHaveRuns' /\ TurnsAreSet'
      BY <2>1, <2>2, <2>a, <2>b, ExecChanged
    <2>4. Typed'
      BY <1>1, <2>1, <2>3 DEF Typed
    <2>5. CommandsHaveRuns'
      BY <2>1 DEF TypeInv, CommandsHaveRuns, HasCommand
    <2> QED
      BY <2>3, <2>4, <2>5, TypedIsTypeOK DEF TypeInv
  <1> QED
    BY <1>3, <1>4, <1>5, <1>6, <1>7, <1>8, <1>9, <1>10, <1>11, <1>12, <1>13
       DEF ExecStep

\* A command that is accepted.
LEMMA AcceptEffect ==
  ASSUME TypeInv, NEW h \in Handlers, NEW c \in Command, c.run \in Runs, Accept(h, c)
  PROVE  /\ cmd' \in [Handlers -> Command] /\ CommandsHaveRuns'
         /\ cmd'[h] = c /\ \A g \in Handlers : g # h => cmd'[g] = cmd[g]
         /\ commands' \in 0 .. MaxCommands
         /\ cancelled' \in [Runs -> BOOLEAN]
  <1>1. Typed
    BY TypedIsTypeOK DEF TypeInv
  <1>2. /\ cmd' \in [Handlers -> Command] /\ cmd'[h] = c
        /\ \A g \in Handlers : g # h => cmd'[g] = cmd[g]
    BY <1>1 DEF Accept, Typed
  <1>3. CommandsHaveRuns'
    BY <1>2 DEF TypeInv, CommandsHaveRuns, HasCommand
  <1>4. commands' \in 0 .. MaxCommands /\ cancelled' \in [Runs -> BOOLEAN]
    BY <1>1 DEF Accept, Typed
  <1> QED
    BY <1>2, <1>3, <1>4

\* The user answers the call that is pending.
LEMMA ConfirmEffect ==
  ASSUME TypeInv, NEW h \in Handlers, NEW r \in Runs, NEW approved \in BOOLEAN,
         AcceptConfirm(h, r, approved)
  PROVE  LET i == shared[r].pending.id IN
         /\ calls' \in Seq(Call) /\ Len(calls') = Len(calls) /\ i \in 0 .. Len(calls)
         /\ \A j \in 1 .. Len(calls) : j # i => calls'[j] = calls[j]
         /\ i \in 1 .. Len(calls) =>
              \/ ~(approved /\ shared[r].pending # NoTurn) /\ calls'[i] = calls[i]
              \/ calls'[i] = [calls[i] EXCEPT !.approved = TRUE]
  <1> DEFINE i == shared[r].pending.id
             v == [calls[i] EXCEPT !.approved = TRUE]
  <1>1. Typed /\ calls \in Seq(Call) /\ Len(calls) \in Nat
    BY TypedIsTypeOK, LenProperties DEF TypeInv, Typed
  <1>2. shared[r].pending \in TurnTo(Len(calls))
    BY <1>1 DEF Typed, StateTo
  <1>3. i \in 0 .. Len(calls)
    BY <1>1, <1>2 DEF TurnTo, NoTurn
  <1>4. CASE calls' = calls /\ ~(approved /\ shared[r].pending # NoTurn)
    BY <1>1, <1>3, <1>4
  <1>5. CASE calls' = [calls EXCEPT ![i].approved = TRUE]
    <2>1. CASE i \in 1 .. Len(calls)
      <3>1. calls' = [calls EXCEPT ![i] = v]
        BY <1>5
      <3>2. v \in Call
        <4>1. i \in Nat
          BY <1>1, <1>3
        <4> QED
          BY <1>1, <2>1, <4>1, CallsExcept, Zenon
      <3> HIDE DEF v
      <3>3. /\ [calls EXCEPT ![i] = v] \in Seq(Call)
            /\ Len([calls EXCEPT ![i] = v]) = Len(calls)
            /\ [calls EXCEPT ![i] = v][i] = v
            /\ \A j \in 1 .. Len(calls) : j # i => [calls EXCEPT ![i] = v][j] = calls[j]
        BY <1>1, <1>3, <2>1, <3>2, CallsExcept
      <3>4. /\ calls' \in Seq(Call) /\ Len(calls') = Len(calls) /\ calls'[i] = v
            /\ \A j \in 1 .. Len(calls) : j # i => calls'[j] = calls[j]
        BY <3>1, <3>3
      <3> QED
        BY <1>3, <3>4 DEF v
    <2>2. CASE i \notin 1 .. Len(calls)
      <3>1. calls' = calls
        BY <1>1, <1>3, <1>5, <2>2, CallsExcept
      <3> QED
        BY <1>1, <1>3, <2>2, <3>1
    <2> QED
      BY <2>1, <2>2
  <1> QED
    BY <1>4, <1>5 DEF AcceptConfirm

\* An execution is spawned for a command.
LEMMA SpawnEffect ==
  ASSUME TypeInv, NEW h \in Handlers, NEW e \in Execs, SpawnCommand(h, e)
  PROVE  LET c == cmd[h] IN
         /\ cmd'[h] = IdleCmd /\ cmd' \in [Handlers -> Command] /\ CommandsHaveRuns'
         /\ IdleCmd.kind = "idle"
         /\ \A g \in Handlers : g # h => cmd'[g] = cmd[g]
         /\ \E y \in ExecTo(Len(calls)) :
              /\ y.pc = "spawned" /\ y.run = c.run /\ y.kind = c.kind
              /\ y.approved = c.approved /\ y.policy = c.policy
              /\ ex' = [ex EXCEPT ![e] = y]
         /\ c.run \in Runs
         /\ LET st == StateOf("Planning", shared[c.run].steps, shared[c.run].pending)
            IN  st \in StateTo(Len(calls)) /\ shared' = [shared EXCEPT ![c.run] = st]
  <1> DEFINE c == cmd[h]
             s == shared[c.run]
             st == StateOf("Planning", s.steps, s.pending)
             y == Spawned(c.kind, c.run, c.approved, c.policy)
  <1>1. Typed /\ Len(calls) \in Nat
    BY ExecType
  <1>2. /\ c \in Command /\ c.run \in Runs /\ c.kind \in {"resume", "confirm"}
        /\ c.approved \in BOOLEAN /\ c.policy \in AllPolicies
    BY <1>1 DEF SpawnCommand, Typed, TypeInv, CommandsHaveRuns, HasCommand, Command
  <1>3. IdleCmd \in Command /\ IdleCmd.kind = "idle"
    BY DEF IdleCmd, Command, AllPolicies
  <1>4. /\ cmd'[h] = IdleCmd /\ cmd' \in [Handlers -> Command]
        /\ \A g \in Handlers : g # h => cmd'[g] = cmd[g]
    BY <1>1, <1>3 DEF SpawnCommand, Typed
  <1>5. CommandsHaveRuns'
    BY <1>3, <1>4 DEF TypeInv, CommandsHaveRuns, HasCommand
  <1>6. /\ y \in ExecTo(Len(calls)) /\ y.pc = "spawned" /\ y.run = c.run
        /\ y.kind = c.kind /\ y.approved = c.approved /\ y.policy = c.policy
    BY <1>1, <1>2, SpawnedFacts
  <1>7. ex' = [ex EXCEPT ![e] = y]
    BY DEF SpawnCommand
  <1>8. st \in StateTo(Len(calls)) /\ shared' = [shared EXCEPT ![c.run] = st]
    <2>1. s \in StateTo(Len(calls)) /\ "Planning" \in Statuses
      BY <1>1, <1>2 DEF Typed, Statuses
    <2>2. shared' = [shared EXCEPT ![c.run] = [s EXCEPT !.status = "Planning"]]
      BY DEF SpawnCommand
    <2>3. /\ [s EXCEPT !.status = "Planning"] = st
          /\ st \in StateTo(Len(calls))
      BY <2>1 DEF StateOf, StateTo
    <2> QED
      BY <2>2, <2>3
  <1> HIDE DEF y
  <1> QED
    BY <1>2, <1>3, <1>4, <1>5, <1>6, <1>7, <1>8

\* A run is inserted and spawned.
LEMMA InsertEffect ==
  ASSUME TypeInv, NEW r \in Runs, NEW e \in Execs, NEW p \in Policies, InsertRun(r, e, p)
  PROVE  /\ \E y \in ExecTo(Len(calls)) :
              /\ y.pc = "spawned" /\ y.run = r /\ y.kind = "run" /\ y.policy = p
              /\ ex' = [ex EXCEPT ![e] = y]
         /\ NewRunState \in StateTo(Len(calls)) /\ p \in AllPolicies
  <1> DEFINE y == Spawned("run", r, FALSE, p)
  <1>1. Len(calls) \in Nat /\ p \in AllPolicies
    BY ExecType
  <1>2. /\ y \in ExecTo(Len(calls)) /\ y.pc = "spawned" /\ y.run = r
        /\ y.kind = "run" /\ y.policy = p
    <2>1. PICK b \in BOOLEAN : b = FALSE
      OBVIOUS
    <2> DEFINE z == Spawned("run", r, b, p)
    <2>2. /\ z \in ExecTo(Len(calls)) /\ z.pc = "spawned" /\ z.run = r
          /\ z.kind = "run" /\ z.policy = p
      BY <1>1, SpawnedFacts
    <2>3. z = y
      BY <2>1
    <2> QED
      BY <2>2, <2>3
  <1>3. ex' = [ex EXCEPT ![e] = y]
    BY DEF InsertRun
  <1> HIDE DEF y
  <1> QED
    BY <1>1, <1>2, <1>3, NewTypes

LEMMA NextType == TypeInv /\ [Next]_vars => TypeInv'
  <1> SUFFICES ASSUME TypeInv, [Next]_vars PROVE TypeInv'
    OBVIOUS
  <1>1. Typed /\ ExecsHaveRuns /\ CommandsHaveRuns /\ TurnsAreSet
        /\ calls \in Seq(Call) /\ Len(calls) \in Nat
    BY TypedIsTypeOK, LenProperties DEF TypeInv, Typed
  <1>2. CASE UNCHANGED vars
    <2>1. Typed' /\ ExecsHaveRuns' /\ CommandsHaveRuns' /\ TurnsAreSet'
      BY <1>1, <1>2 DEF vars, Typed, ExecsHaveRuns, CommandsHaveRuns, TurnsAreSet,
                        HasCommand
    <2> QED
      BY <2>1, TypedIsTypeOK DEF TypeInv
  <1>3. ASSUME NEW r \in Runs, SupersedeRuns(r) PROVE TypeInv'
    <2>1. /\ start' \in [Runs -> {"new", "starting", "started"}]
          /\ cancelled' \in [Runs -> BOOLEAN]
          /\ UNCHANGED <<registry, shared, policy, cmd, ex, commands, access, calls>>
      BY <1>1, <1>3 DEF SupersedeRuns, Typed
    <2>2. Typed' /\ ExecsHaveRuns' /\ CommandsHaveRuns' /\ TurnsAreSet'
      BY <1>1, <2>1 DEF Typed, ExecsHaveRuns, CommandsHaveRuns, TurnsAreSet, HasCommand
    <2> QED
      BY <2>2, TypedIsTypeOK DEF TypeInv
  <1>4. ASSUME NEW r \in Runs, NEW e \in Execs, NEW p \in Policies, InsertRun(r, e, p)
        PROVE  TypeInv'
    <2>0. p \in AllPolicies
      OBVIOUS
    <2>1. /\ start' \in [Runs -> {"new", "starting", "started"}]
          /\ registry' \subseteq Runs
          /\ cancelled' \in [Runs -> BOOLEAN]
          /\ policy' \in [Runs -> AllPolicies] /\ access' \in [Runs -> AllPolicies]
          /\ UNCHANGED <<cmd, commands, calls>>
      BY <1>1, <1>4, <2>0 DEF InsertRun, Typed
    <2>2. PICK y \in ExecTo(Len(calls)) :
            y.pc = "spawned" /\ y.run = r /\ ex' = [ex EXCEPT ![e] = y]
      BY <1>4, InsertEffect
    <2>3. shared' \in [Runs -> StateTo(Len(calls'))]
      BY <1>1, <1>4, <2>1, InsertEffect DEF InsertRun, Typed
    <2>4. /\ Len(calls) <= Len(calls') /\ calls' \in Seq(Call)
          /\ y \in ExecTo(Len(calls'))
      BY <1>1, <2>1
    <2>5. /\ ex' \in [Execs -> ExecTo(Len(calls'))] /\ ExecsHaveRuns' /\ TurnsAreSet'
      BY <2>2, <2>4, ExecChanged
    <2>6. Typed' /\ CommandsHaveRuns'
      BY <1>1, <2>1, <2>3, <2>5 DEF Typed, CommandsHaveRuns, HasCommand
    <2> QED
      BY <2>5, <2>6, TypedIsTypeOK DEF TypeInv
  <1>5. ASSUME NEW r \in Runs, CancelRun(r) PROVE TypeInv'
    <2>1. /\ cancelled' \in [Runs -> BOOLEAN]
          /\ UNCHANGED <<registry, start, shared, policy, cmd, ex, commands, access, calls>>
      BY <1>1, <1>5 DEF CancelRun, Typed
    <2>2. Typed' /\ ExecsHaveRuns' /\ CommandsHaveRuns' /\ TurnsAreSet'
      BY <1>1, <2>1 DEF Typed, ExecsHaveRuns, CommandsHaveRuns, TurnsAreSet, HasCommand
    <2> QED
      BY <2>2, TypedIsTypeOK DEF TypeInv
  <1>6. ASSUME NEW h \in Handlers, NEW r \in Runs, AcceptResume(h, r) PROVE TypeInv'
    <2>1. PICK p \in AllPolicies :
            /\ Accept(h, [kind |-> "resume", run |-> r, approved |-> FALSE, policy |-> p])
            /\ access' \in [Runs -> AllPolicies]
      BY <1>1, <1>6 DEF AcceptResume, Typed
    <2> DEFINE c == [kind |-> "resume", run |-> r, approved |-> FALSE, policy |-> p]
    <2>2. c \in Command /\ c.run \in Runs
      BY DEF Command
    <2>3. Accept(h, c)
      BY <2>1
    <2> HIDE DEF c
    <2>4. /\ cmd' \in [Handlers -> Command] /\ CommandsHaveRuns'
          /\ commands' \in 0 .. MaxCommands /\ cancelled' \in [Runs -> BOOLEAN]
      BY <2>2, <2>3, AcceptEffect
    <2>5. UNCHANGED <<registry, start, shared, policy, ex, calls>>
      BY <1>6 DEF AcceptResume
    <2>6. Typed' /\ ExecsHaveRuns' /\ TurnsAreSet'
      BY <1>1, <2>1, <2>4, <2>5 DEF Typed, ExecsHaveRuns, TurnsAreSet
    <2> QED
      BY <2>4, <2>6, TypedIsTypeOK DEF TypeInv
  <1>7. ASSUME NEW h \in Handlers, NEW r \in Runs, NEW approved \in BOOLEAN,
               AcceptConfirm(h, r, approved)
        PROVE  TypeInv'
    <2> DEFINE c == [kind |-> "confirm", run |-> r, approved |-> approved,
                     policy |-> policy[r]]
    <2>2. c \in Command /\ c.run \in Runs
      BY <1>1 DEF Command, Typed
    <2>3. Accept(h, c)
      BY <1>7 DEF AcceptConfirm
    <2> HIDE DEF c
    <2>4. /\ cmd' \in [Handlers -> Command] /\ CommandsHaveRuns'
          /\ commands' \in 0 .. MaxCommands /\ cancelled' \in [Runs -> BOOLEAN]
      BY <2>2, <2>3, AcceptEffect
    <2>5. UNCHANGED <<registry, start, shared, policy, ex, access>>
      BY <1>7 DEF AcceptConfirm
    <2>6. calls' \in Seq(Call) /\ Len(calls') = Len(calls)
      BY <1>7, ConfirmEffect
    <2>7. Typed' /\ ExecsHaveRuns' /\ TurnsAreSet'
      BY <1>1, <2>4, <2>5, <2>6 DEF Typed, ExecsHaveRuns, TurnsAreSet
    <2> QED
      BY <2>4, <2>7, TypedIsTypeOK DEF TypeInv
  <1>8. ASSUME NEW h \in Handlers, NEW e \in Execs, SpawnCommand(h, e) PROVE TypeInv'
    <2>1. UNCHANGED <<registry, start, cancelled, policy, commands, access, calls>>
      BY <1>8 DEF SpawnCommand
    <2>2. PICK y \in ExecTo(Len(calls)) :
            y.pc = "spawned" /\ y.run \in Runs /\ ex' = [ex EXCEPT ![e] = y]
      BY <1>8, SpawnEffect
    <2>3. /\ cmd' \in [Handlers -> Command] /\ CommandsHaveRuns'
          /\ \E r \in Runs, st \in StateTo(Len(calls)) : shared' = [shared EXCEPT ![r] = st]
      BY <1>8, SpawnEffect
    <2>4. shared' \in [Runs -> StateTo(Len(calls))]
      BY <1>1, <2>3 DEF Typed
    <2>5. /\ Len(calls) <= Len(calls') /\ calls' \in Seq(Call)
          /\ y \in ExecTo(Len(calls')) /\ shared' \in [Runs -> StateTo(Len(calls'))]
      BY <1>1, <2>1, <2>4
    <2>6. /\ ex' \in [Execs -> ExecTo(Len(calls'))] /\ ExecsHaveRuns' /\ TurnsAreSet'
      BY <2>2, <2>5, ExecChanged
    <2>7. Typed'
      BY <1>1, <2>1, <2>3, <2>5, <2>6 DEF Typed
    <2> QED
      BY <2>3, <2>6, <2>7, TypedIsTypeOK DEF TypeInv
  <1> QED
    BY <1>2, <1>3, <1>4, <1>5, <1>6, <1>7, <1>8, ExecStepType DEF Next

\* The registry, the commands and the executions keep their types: a task that
\* waits for a tool has a turn, and every number a turn carries is that of a
\* call that was recorded.
THEOREM TypeCorrect == Spec => []TypeOK
  <1>1. TypeInv => TypeOK
    BY DEF TypeInv
  <1> QED
    BY <1>1, InitType, NextType, PTL DEF Spec

-----------------------------------------------------------------------------
(* No registered run is left alone.                                        *)

\* A step of an execution keeps its run, or leaves the run waiting.
LEMMA EffectOrphan ==
  ASSUME TypeInv, NoOrphanRun, NEW e \in Execs, registry' = registry,
         ex[e].pc # "idle", Len(calls') \in Nat
  PROVE  /\ \A pc, kind, turn, st : Becomes(e, pc, kind, st, turn) => NoOrphanRun'
         /\ \A st : Ends(e, Finished(ex[e]), st) => NoOrphanRun'
         /\ \A st : Ends(e, IdleExec, st) /\ st.status \in Awaiting => NoOrphanRun'
  <1>1. Typed /\ Len(calls) \in Nat /\ ex[e] \in ExecTo(Len(calls)) /\ ex[e].run \in Runs
    BY ExecType
  <1>2. ASSUME NEW y, ex' = [ex EXCEPT ![e] = y], NEW st,
               shared' = [shared EXCEPT ![ex[e].run] = st],
               y.run = ex[e].run \/ st.status \in Awaiting
        PROVE  NoOrphanRun'
    <2> SUFFICES ASSUME NEW r \in registry
                 PROVE  shared'[r].status \in Awaiting \/ \E f \in Execs : ex'[f].run = r
      BY DEF NoOrphanRun
    <2>1. ex'[e] = y /\ \A f \in Execs : f # e => ex'[f] = ex[f]
      BY <1>1, <1>2 DEF Typed
    <2>2. CASE r = ex[e].run
      <3>1. shared'[r] = st
        BY <1>1, <1>2, <2>2 DEF Typed
      <3> QED
        BY <1>2, <2>1, <2>2, <3>1
    <2>3. CASE r # ex[e].run
      <3>1. shared'[r] = shared[r]
        BY <1>1, <1>2, <2>3 DEF Typed
      <3> QED
        BY <2>1, <2>3, <3>1 DEF NoOrphanRun
    <2> QED
      BY <2>2, <2>3
  <1>3. ASSUME NEW pc, NEW kind, NEW turn, NEW st, Becomes(e, pc, kind, st, turn)
        PROVE  NoOrphanRun'
    <2>1. PICK y : Like(y, ex[e], pc, kind, st, turn) /\ ex' = [ex EXCEPT ![e] = y]
      BY <1>3 DEF Becomes
    <2>2. y.run = ex[e].run
      BY <2>1 DEF Like
    <2> QED
      BY <1>2, <1>3, <2>1, <2>2 DEF Becomes
  <1>4. ASSUME NEW st, Ends(e, Finished(ex[e]), st) PROVE NoOrphanRun'
    <2>1. Finished(ex[e]).run = ex[e].run
      BY <1>1, FinishedFacts
    <2> QED
      BY <1>2, <1>4, <2>1 DEF Ends
  <1>5. ASSUME NEW st, Ends(e, IdleExec, st), st.status \in Awaiting PROVE NoOrphanRun'
    BY <1>2, <1>5 DEF Ends
  <1> QED
    BY <1>3, <1>4, <1>5

LEMMA ExecStepOrphan ==
  ASSUME TypeInv, NoOrphanRun, NEW e \in Execs, ExecStep(e)
  PROVE  NoOrphanRun'
  <1>1. /\ Typed /\ Len(calls) \in Nat /\ calls \in Seq(Call)
        /\ ex[e].turn \in TurnTo(Len(calls)) /\ (ex[e].pc # "idle" => ex[e].run \in Runs)
    BY ExecType DEF Typed
  <1>2. ASSUME NEW y, ex' = [ex EXCEPT ![e] = y], y.run = ex[e].run,
               UNCHANGED <<registry, shared>>
        PROVE  NoOrphanRun'
    <2>1. ex'[e] = y /\ \A f \in Execs : f # e => ex'[f] = ex[f]
      BY <1>1, <1>2 DEF Typed
    <2>2. \A f \in Execs : ex'[f].run = ex[f].run
      BY <1>2, <2>1
    <2> QED
      BY <1>2, <2>2 DEF NoOrphanRun
  <1>3. CASE ReadShared(e)
    <2>1. PICK y : y.run = ex[e].run /\ ex' = [ex EXCEPT ![e] = y]
      BY <1>3, ReadSharedEffect DEF Like
    <2>2. UNCHANGED <<registry, shared>>
      BY <1>3 DEF ReadShared
    <2> QED
      BY <1>2, <2>1, <2>2
  <1>4. CASE BeginLoop(e)
    <2>1. ex[e].pc # "idle" /\ registry' = registry /\ Len(calls') \in Nat
      BY <1>1, <1>4 DEF BeginLoop
    <2> QED
      BY <1>4, <2>1, BeginLoopEffect, EffectOrphan
  <1>5. CASE BeginPending(e)
    <2>1. ex[e].pc # "idle" /\ registry' = registry /\ Len(calls') \in Nat
      BY <1>1, <1>5 DEF BeginPending
    <2> QED
      BY <1>5, <2>1, BeginPendingEffect, EffectOrphan
  <1>6. CASE LoopTop(e)
    <2>1. ex[e].pc # "idle" /\ registry' = registry /\ Len(calls') \in Nat
      BY <1>1, <1>6 DEF LoopTop
    <2> QED
      BY <1>6, <2>1, LoopTopEffect, EffectOrphan
  <1>7. CASE PlanFails(e)
    <2>1. /\ ex[e].pc # "idle" /\ registry' = registry /\ calls' = calls /\ Fail(e)
      BY <1>7 DEF PlanFails
    <2>2. Ends(e, Finished(ex[e]), shared[ex[e].run])
      BY <1>1, <2>1, FailEffect
    <2> QED
      BY <1>1, <2>1, <2>2, EffectOrphan
  <1>8. CASE PlanUnparsable(e)
    <2>1. ex[e].pc # "idle" /\ registry' = registry /\ Len(calls') \in Nat
      BY <1>1, <1>8 DEF PlanUnparsable
    <2>2. CASE Ends(e, Finished(ex[e]),
                    StateOf("AwaitingUser", ex[e].st.steps, ex[e].st.pending))
      BY <2>1, <2>2, EffectOrphan
    <2>3. ASSUME NEW y, Like(y, ex[e], ex[e].pc, ex[e].kind, ex[e].st, ex[e].turn),
                 ex' = [ex EXCEPT ![e] = y], UNCHANGED shared
          PROVE  NoOrphanRun'
      BY <1>2, <2>1, <2>3 DEF Like
    <2> QED
      BY <1>8, <2>2, <2>3, PlanUnparsableEffect
  <1>9. ASSUME NEW answer \in Actions, Plan(e, answer) PROVE NoOrphanRun'
    <2>1. ex[e].pc # "idle" /\ registry' = registry
      BY <1>9 DEF Plan
    <2>2. Len(calls') \in Nat
      BY <1>9, PlanEffect
    <2>3. PICK turn : Gated(e, turn)
      BY <1>9, PlanEffect
    <2>4. StateOf("AwaitingToolApproval", ex[e].st.steps, turn).status \in Awaiting
      BY DEF StateOf, Awaiting
    <2> QED
      BY <2>1, <2>2, <2>3, <2>4, EffectOrphan DEF Gated
  <1>10. ASSUME NEW ok \in BOOLEAN, ToolReturns(e, ok) PROVE NoOrphanRun'
    <2>1. ex[e].pc # "idle" /\ registry' = registry /\ calls' = Ran(ex[e].turn)
      BY <1>10 DEF ToolReturns
    <2>2. Len(calls') \in Nat
      BY <1>1, <2>1, RanFacts
    <2> DEFINE q == Append(ex[e].st.steps, ex[e].turn)
    <2>3. StateOf("AwaitingUser", q, ex[e].st.pending).status \in Awaiting
      BY DEF StateOf, Awaiting
    <2> QED
      BY <1>10, <2>1, <2>2, <2>3, ToolReturnsEffect, EffectOrphan
  <1>11. CASE ToolFails(e)
    <2>1. /\ ex[e].pc # "idle" /\ registry' = registry /\ Fail(e)
          /\ (calls' = Ran(ex[e].turn) \/ calls' = calls)
      BY <1>11 DEF ToolFails
    <2>2. Len(calls') = Len(calls)
      BY <1>1, <2>1, RanFacts
    <2>3. Ends(e, Finished(ex[e]), shared[ex[e].run])
      BY <1>1, <2>1, <2>2, FailEffect
    <2> QED
      BY <1>1, <2>1, <2>2, <2>3, EffectOrphan
  <1>13. CASE ToolResent(e)
    <2>1. PICK y : /\ Like(y, ex[e], "resent", ex[e].kind, ex[e].st, ex[e].turn)
                   /\ ex' = [ex EXCEPT ![e] = y]
      BY <1>13, ToolResentEffect
    <2>2. y.run = ex[e].run /\ UNCHANGED <<registry, shared>>
      BY <1>13, <2>1, ToolResentEffect DEF Like
    <2> QED
      BY <1>2, <2>1, <2>2
  <1>12. CASE RemoveRun(e)
    <2>1. /\ ex' = [ex EXCEPT ![e] = IdleExec] /\ registry' = registry \ {ex[e].run}
          /\ UNCHANGED shared
      BY <1>12 DEF RemoveRun
    <2>2. \A f \in Execs : f # e => ex'[f] = ex[f]
      BY <1>1, <2>1 DEF Typed
    <2> QED
      BY <2>1, <2>2 DEF NoOrphanRun
  <1> QED
    BY <1>3, <1>4, <1>5, <1>6, <1>7, <1>8, <1>9, <1>10, <1>11, <1>12, <1>13
       DEF ExecStep

\* A slot that is taken was idle, and an idle slot has no run to lose.
LEMMA TakenSlot ==
  ASSUME TypeInv, NEW e \in Execs, ex[e].pc = "idle", NEW y,
         ex' = [ex EXCEPT ![e] = y], NEW r \in Runs, NEW f \in Execs, ex[f].run = r
  PROVE  ex'[f].run = r
  <1>1. Typed /\ ex[e].run = "none"
    BY ExecType DEF TypeInv, ExecsHaveRuns
  <1>2. f # e
    BY <1>1
  <1> QED
    BY <1>1, <1>2 DEF Typed

\* Every registered run waits for its user or has a task working on it, whatever
\* commands, cancellations, model answers and tool failures overlap.
THEOREM NoRunIsOrphaned == Spec => []NoOrphanRun
  <1>1. Init => NoOrphanRun
    BY DEF Init, NoOrphanRun
  <1>2. TypeInv /\ NoOrphanRun /\ [Next]_vars => NoOrphanRun'
    <2> SUFFICES ASSUME TypeInv, NoOrphanRun, [Next]_vars PROVE NoOrphanRun'
      OBVIOUS
    <2>1. Typed
      BY TypedIsTypeOK DEF TypeInv
    <2>2. ASSUME UNCHANGED <<registry, shared, ex>> PROVE NoOrphanRun'
      BY <2>2 DEF NoOrphanRun
    <2>3. ASSUME NEW r \in Runs, NEW e \in Execs, NEW p \in Policies, InsertRun(r, e, p)
          PROVE  NoOrphanRun'
      <3>1. /\ registry' = registry \cup {r} /\ ex[e].pc = "idle"
            /\ shared' = [shared EXCEPT ![r] = NewRunState]
        BY <2>3 DEF InsertRun
      <3>2. PICK y : y.run = r /\ ex' = [ex EXCEPT ![e] = y]
        BY <2>3, InsertEffect
      <3>3. ex'[e].run = r
        BY <2>1, <3>2 DEF Typed
      <3>4. ASSUME NEW s \in registry, s # r
            PROVE  shared'[s].status \in Awaiting \/ \E f \in Execs : ex'[f].run = s
        <4>1. shared'[s] = shared[s] /\ s \in Runs
          BY <2>1, <3>1, <3>4 DEF Typed
        <4> QED
          BY <3>1, <3>2, <4>1, TakenSlot DEF NoOrphanRun
      <3> QED
        BY <3>1, <3>3, <3>4 DEF NoOrphanRun
    <2>4. ASSUME NEW h \in Handlers, NEW e \in Execs, SpawnCommand(h, e)
          PROVE  NoOrphanRun'
      <3> DEFINE r == cmd[h].run
      <3>1. /\ registry' = registry /\ ex[e].pc = "idle" /\ r \in Runs
            /\ \E st : shared' = [shared EXCEPT ![r] = st]
        BY <2>4, SpawnEffect DEF SpawnCommand
      <3>2. PICK y : y.run = r /\ ex' = [ex EXCEPT ![e] = y]
        BY <2>4, SpawnEffect
      <3>3. ex'[e].run = r
        BY <2>1, <3>2 DEF Typed
      <3>4. ASSUME NEW s \in registry, s # r
            PROVE  shared'[s].status \in Awaiting \/ \E f \in Execs : ex'[f].run = s
        <4>1. shared'[s] = shared[s] /\ s \in Runs
          BY <2>1, <3>1, <3>4 DEF Typed
        <4> QED
          BY <3>1, <3>2, <4>1, TakenSlot DEF NoOrphanRun
      <3> QED
        BY <3>1, <3>3, <3>4 DEF NoOrphanRun
    <2>5. CASE UNCHANGED vars
      BY <2>2, <2>5 DEF vars
    <2>6. ASSUME NEW r \in Runs, SupersedeRuns(r) \/ CancelRun(r) PROVE NoOrphanRun'
      BY <2>2, <2>6 DEF SupersedeRuns, CancelRun
    <2>7. ASSUME NEW h \in Handlers, NEW r \in Runs,
                 AcceptResume(h, r) \/ \E approved \in BOOLEAN : AcceptConfirm(h, r, approved)
          PROVE NoOrphanRun'
      BY <2>2, <2>7 DEF AcceptResume, AcceptConfirm
    <2> QED
      BY <2>3, <2>4, <2>5, <2>6, <2>7, ExecStepOrphan DEF Next
  <1> QED
    BY <1>1, <1>2, InitType, NextType, PTL DEF Spec

-----------------------------------------------------------------------------
(* Consent.  The rest holds as long as resume and confirm commands do not  *)
(* overlap: two confirmations that both find a call pending both run it.   *)

OneHandler == \A h, g \in Handlers : h = g

Working == {"Pending", "Preparing", "Planning", "Executing"}

\* No run has two tasks at work.
Solo ==
  \A e, f \in Execs : Active(e) /\ Active(f) /\ ex[e].run = ex[f].run => e = f

Consent(c) == c.policy = "Auto" \/ (c.policy = "OnRequest" /\ c.approved)

\* A task at work has the only copy of its run's state, the call the user was
\* asked about is pending only until a confirmation begins, and the call that is
\* executed has consent and did not run yet, except for a request that was lost.
ExecOK(e) ==
  LET x == ex[e]
      s == shared[x.run]
  IN  /\ s.status \in Working
      /\ x.pc # "spawned" => x.st = s
      /\ x.pc = "spawned" /\ x.kind = "run" => s = NewRunState
      /\ s.pending # NoTurn =>
           /\ x.pc \in {"spawned", "begun"} /\ x.kind = "confirm"
           /\ x.approved => calls[s.pending.id].approved
      /\ x.pc = "executing" /\ x.turn.id # 0 =>
           /\ calls[x.turn.id].run = x.run /\ calls[x.turn.id].ran = 0
           /\ Consent(calls[x.turn.id])
      /\ x.pc = "resent" /\ x.turn.id # 0 =>
           /\ calls[x.turn.id].run = x.run /\ calls[x.turn.id].ran \in {0, 1}
           /\ Consent(calls[x.turn.id]) /\ calls[x.turn.id].resent

\* A command under way is for a run that still waits, for the answered call.
CmdOK(h) ==
  LET c == cmd[h]
      s == shared[c.run]
  IN  /\ c.kind = "resume" => s.status = "AwaitingUser"
      /\ c.kind = "confirm" =>
           /\ s.status = "AwaitingToolApproval"
           /\ c.approved /\ s.pending # NoTurn => calls[s.pending.id].approved

NotStarted(r) ==
  /\ r \notin registry /\ shared[r] = NewRunState
  /\ \A e \in Execs : ex[e].run # r
  /\ \A h \in Handlers : HasCommand(h) => cmd[h].run # r
  /\ \A i \in DOMAIN calls : calls[i].run # r

\* A pending call is one of the run that had to be asked about and did not run.
PendingOK(r) ==
  /\ shared[r].status = "AwaitingUser" => shared[r].pending = NoTurn
  /\ shared[r].pending # NoTurn =>
       LET i == shared[r].pending.id
       IN  /\ i # 0 /\ calls[i].run = r /\ calls[i].ran = 0
           /\ calls[i].policy = "OnRequest"

Shown(i) ==
  \E k \in DOMAIN shared[calls[i].run].steps : shared[calls[i].run].steps[k].id = i

\* A run that failed or was cancelled: nothing works on it, nobody can answer it.
Dead(r) ==
  /\ shared[r].status \notin Awaiting \cup {"Completed"}
  /\ \A e \in Execs : Active(e) => ex[e].run # r

\* A call whose second request is under way.
InFlight(i) ==
  \E e \in Execs : /\ ex[e].pc = "resent" /\ ex[e].run = calls[i].run
                   /\ ex[e].turn.id = i

\* A call that may have run, and how often.
Allowed(c) ==
  /\ c.ran \in {0, 1, 2}
  /\ c.ran = 2 => c.resent
  /\ c.ran # 0 => Consent(c)

CallOK(i) ==
  /\ Allowed(calls[i])
  /\ calls[i].ran # 0 => Shown(i) \/ Dead(calls[i].run) \/ InFlight(i)

SoloInv ==
  /\ Solo
  /\ \A e \in Execs : Active(e) => ExecOK(e)
  /\ \A h \in Handlers : HasCommand(h) => CmdOK(h)
  /\ \A r \in Runs : start[r] # "started" => NotStarted(r)
  /\ \A r \in Runs : PendingOK(r)
  /\ \A i \in DOMAIN calls : CallOK(i)

\* What SoloInv says of one run.
RunOK(r) ==
  /\ \A e \in Execs : Active(e) /\ ex[e].run = r => ExecOK(e)
  /\ \A h \in Handlers : HasCommand(h) /\ cmd[h].run = r => CmdOK(h)
  /\ PendingOK(r)
  /\ \A i \in DOMAIN calls : calls[i].run = r => CallOK(i)

\* Calls of other runs than r stay as they are ...
CallsKept(r) ==
  \A j : \/ j \in DOMAIN calls /\ calls[j].run # r
         \/ j \in DOMAIN calls' /\ calls'[j].run # r
         => j \in DOMAIN calls /\ j \in DOMAIN calls' /\ calls'[j] = calls[j]

\* ... and so does everything else, in a step that is about r.
About(r) ==
  /\ \A f \in Execs : Active(f)' /\ ex'[f].run # r => ex'[f] = ex[f]
  /\ \A f \in Execs : Active(f) /\ ex[f].run # r => ex'[f] = ex[f]
  /\ \A f, g \in Execs : Active(f)' /\ Active(g)' /\ ex'[f].run = r /\ ex'[g].run = r
                           => f = g
  /\ \A f \in Execs : ex'[f].run = ex[f].run \/ ex'[f].run \in {r, "none"}
  /\ \A s \in Runs : s # r => shared'[s] = shared[s]
  /\ CallsKept(r)
  /\ \A h \in Handlers : HasCommand(h)' /\ cmd'[h].run # r => cmd'[h] = cmd[h]
  /\ \A s \in Runs : start'[s] # "started" => start[s] # "started" /\ s # r
  /\ registry' \subseteq registry \cup {r}

\* The pending call and the call of a turn are among the calls.
LEMMA IdTypes ==
  ASSUME TypeInv
  PROVE  /\ DOMAIN calls = 1 .. Len(calls) /\ Len(calls) \in Nat
         /\ \A r \in Runs : shared[r].pending.id \in 0 .. Len(calls)
         /\ \A e \in Execs : ex[e].turn.id \in 0 .. Len(calls)
  <1>1. Typed /\ Len(calls) \in Nat /\ DOMAIN calls = 1 .. Len(calls)
    BY TypedIsTypeOK, LenProperties DEF TypeInv, Typed
  <1>2. \A t \in TurnTo(Len(calls)) : t.id \in 0 .. Len(calls)
    BY <1>1 DEF TurnTo, NoTurn
  <1>3. \A r \in Runs : shared[r].pending \in TurnTo(Len(calls))
    BY <1>1 DEF Typed, StateTo
  <1>4. \A e \in Execs : ex[e].turn \in TurnTo(Len(calls))
    BY ExecType
  <1> QED
    BY <1>1, <1>2, <1>3, <1>4

\* A step about r keeps SoloInv if it keeps what SoloInv says of r.
LEMMA Elsewhere ==
  ASSUME TypeInv, TypeInv', SoloInv, NEW r \in Runs, About(r), RunOK(r)'
  PROVE  SoloInv'
  <1>t. Typed /\ Typed'
    BY TypedIsTypeOK DEF TypeInv
  <1>i. /\ DOMAIN calls = 1 .. Len(calls) /\ Len(calls) \in Nat
        /\ \A s \in Runs : shared[s].pending.id \in 0 .. Len(calls)
        /\ \A e \in Execs : ex[e].turn.id \in 0 .. Len(calls)
    BY IdTypes
  <1>j. \A i \in 0 .. Len(calls) : i # 0 /\ calls[i].run # r =>
          i \in DOMAIN calls' /\ calls'[i] = calls[i]
    BY <1>i DEF About, CallsKept
  <1>p. ASSUME NEW s \in Runs, s # r, shared[s].pending # NoTurn
        PROVE  calls'[shared[s].pending.id] = calls[shared[s].pending.id]
    BY <1>i, <1>j, <1>p DEF SoloInv, PendingOK
  <1>1. Solo'
    BY DEF About, SoloInv, Solo, Active
  <1>2. ASSUME NEW e \in Execs, Active(e)' PROVE ExecOK(e)'
    <2>1. CASE ex'[e].run = r
      BY <1>2, <2>1 DEF RunOK
    <2>2. CASE ex'[e].run # r
      <3>1. ex'[e] = ex[e] /\ Active(e)
        BY <1>2, <2>2 DEF About, Active
      <3>2. ex[e].run \in Runs /\ shared'[ex[e].run] = shared[ex[e].run]
        BY <2>2, <3>1, ExecType DEF Active, About
      <3>3. ExecOK(e)
        BY <3>1 DEF SoloInv
      <3>4. ex[e].pc \in AtTool /\ ex[e].turn.id # 0 =>
              calls'[ex[e].turn.id] = calls[ex[e].turn.id]
        BY <1>i, <1>j, <2>2, <3>1, <3>3 DEF ExecOK
      <3>5. shared[ex[e].run].pending # NoTurn =>
              calls'[shared[ex[e].run].pending.id] = calls[shared[ex[e].run].pending.id]
        BY <1>p, <2>2, <3>1, <3>2
      <3> QED
        BY <3>1, <3>2, <3>3, <3>4, <3>5 DEF ExecOK
    <2> QED
      BY <2>1, <2>2
  <1>3. ASSUME NEW h \in Handlers, HasCommand(h)' PROVE CmdOK(h)'
    <2>1. CASE cmd'[h].run = r
      BY <1>3, <2>1 DEF RunOK
    <2>2. CASE cmd'[h].run # r
      <3>1. cmd'[h] = cmd[h] /\ HasCommand(h)
        BY <1>3, <2>2 DEF About, HasCommand
      <3>2. cmd[h].run \in Runs /\ shared'[cmd[h].run] = shared[cmd[h].run]
        BY <2>2, <3>1 DEF About, TypeInv, CommandsHaveRuns
      <3>3. CmdOK(h)
        BY <3>1 DEF SoloInv
      <3>5. shared[cmd[h].run].pending # NoTurn =>
              calls'[shared[cmd[h].run].pending.id] = calls[shared[cmd[h].run].pending.id]
        BY <1>p, <2>2, <3>1, <3>2
      <3> QED
        BY <3>1, <3>2, <3>3, <3>5 DEF CmdOK
    <2> QED
      BY <2>1, <2>2
  <1>4. ASSUME NEW s \in Runs, start'[s] # "started" PROVE NotStarted(s)'
    <2>1. NotStarted(s) /\ s # r
      BY <1>4 DEF About, SoloInv
    <2>2. s \notin registry' /\ shared'[s] = NewRunState
      BY <2>1 DEF About, NotStarted
    <2>3. ASSUME NEW e \in Execs PROVE ex'[e].run # s
      BY <2>1 DEF About, NotStarted
    <2>4. ASSUME NEW h \in Handlers, HasCommand(h)' PROVE cmd'[h].run # s
      BY <2>1, <2>4 DEF About, NotStarted, HasCommand
    <2>5. ASSUME NEW i \in DOMAIN calls' PROVE calls'[i].run # s
      BY <2>1 DEF About, CallsKept, NotStarted
    <2> QED
      BY <2>2, <2>3, <2>4, <2>5 DEF NotStarted
  <1>5. ASSUME NEW s \in Runs PROVE PendingOK(s)'
    <2>1. CASE s = r
      BY <2>1 DEF RunOK
    <2>2. CASE s # r
      <3>1. shared'[s] = shared[s] /\ PendingOK(s)
        BY <2>2 DEF About, SoloInv
      <3> QED
        BY <1>p, <2>2, <3>1 DEF PendingOK
    <2> QED
      BY <2>1, <2>2
  <1>6. ASSUME NEW i \in DOMAIN calls' PROVE CallOK(i)'
    <2>1. CASE calls'[i].run = r
      BY <2>1 DEF RunOK
    <2>2. CASE calls'[i].run # r
      <3>1. i \in DOMAIN calls /\ calls'[i] = calls[i]
        BY <2>2 DEF About, CallsKept
      <3>2. CallOK(i)
        BY <3>1 DEF SoloInv
      <3>3. calls[i].run \in Runs
        <4>1. calls[i] \in Call
          BY <1>i, <1>t, <3>1, ElementOfSeq DEF Typed
        <4> QED
          BY <4>1 DEF Call
      <3>4. shared'[calls[i].run] = shared[calls[i].run]
        BY <2>2, <3>1, <3>3 DEF About
      <3>5. Shown(i) => Shown(i)'
        BY <3>1, <3>4 DEF Shown
      <3>6. Dead(calls[i].run) => Dead(calls[i].run)'
        BY <2>2, <3>1, <3>4 DEF Dead, About, Active
      <3>7. InFlight(i) => InFlight(i)'
        BY <2>2, <3>1 DEF InFlight, About, Active
      <3> QED
        BY <3>1, <3>2, <3>5, <3>6, <3>7 DEF CallOK
    <2> QED
      BY <2>1, <2>2
  <1> QED
    BY <1>1, <1>2, <1>3, <1>4, <1>5, <1>6 DEF SoloInv

-----------------------------------------------------------------------------
(* Steps of an execution keep SoloInv.                                     *)

\* What was in q is in qq, at the same place.
Keeps(q, qq) == \A k \in DOMAIN q : k \in DOMAIN qq /\ qq[k] = q[k]
Has(q, t) == \E k \in DOMAIN q : q[k] = t

LEMMA AppendKeeps ==
  ASSUME NEW S, NEW q \in Seq(S), NEW t \in S
  PROVE  Keeps(q, Append(q, t)) /\ Has(Append(q, t), t)
  <1>1. /\ Append(q, t) \in Seq(S) /\ Len(Append(q, t)) = Len(q) + 1
        /\ \A i \in 1 .. Len(q) : Append(q, t)[i] = q[i]
        /\ Append(q, t)[Len(q) + 1] = t
    BY AppendProperties
  <1>2. /\ Len(q) \in Nat /\ DOMAIN q = 1 .. Len(q)
        /\ DOMAIN Append(q, t) = 1 .. Len(Append(q, t))
    BY <1>1, LenProperties
  <1> DEFINE a == Append(q, t)
             n == Len(q)
  <1> HIDE DEF a
  <1>3. /\ DOMAIN a = 1 .. n + 1 /\ a[n + 1] = t /\ n \in Nat /\ DOMAIN q = 1 .. n
        /\ \A i \in 1 .. n : a[i] = q[i]
    BY <1>1, <1>2 DEF a
  <1> HIDE DEF n
  <1>4. Keeps(q, a) /\ Has(a, t)
    BY <1>3 DEF Keeps, Has
  <1> QED
    BY <1>4 DEF a

\* The run of a task at work is not answered.
LEMMA BusyRun ==
  ASSUME TypeInv, SoloInv, NEW e \in Execs, Active(e), NEW h \in Handlers, HasCommand(h)
  PROVE  cmd[h].run # ex[e].run
  <1>1. ExecOK(e) /\ CmdOK(h)
    BY DEF SoloInv
  <1>2. cmd[h].kind \in {"resume", "confirm"}
    BY TypedIsTypeOK DEF TypeInv, Typed, Command, HasCommand
  <1> QED
    BY <1>1, <1>2 DEF ExecOK, CmdOK, Working

\* e, at work for r, goes on or ends.
Works(e, r, y, st) ==
  /\ Active(e) /\ ex[e].run = r
  /\ ex' = [ex EXCEPT ![e] = y]
  /\ y.run = r \/ (y.run = "none" /\ y.pc = "idle")
  /\ shared' = [shared EXCEPT ![r] = st]
  /\ CallsKept(r)
  /\ UNCHANGED <<registry, start, cmd>>

LEMMA WorkIsAbout ==
  ASSUME TypeInv, SoloInv, NEW e \in Execs, NEW r \in Runs, NEW y, NEW st,
         Works(e, r, y, st)
  PROVE  /\ About(r) /\ shared'[r] = st /\ ex'[e] = y
         /\ \A f \in Execs : Active(f)' /\ ex'[f].run = r => f = e
         /\ \A h \in Handlers : HasCommand(h)' => cmd'[h].run # r
  <1>1. Typed
    BY TypedIsTypeOK DEF TypeInv
  <1>2. /\ ex'[e] = y /\ \A f \in Execs : f # e => ex'[f] = ex[f]
        /\ shared'[r] = st /\ \A s \in Runs : s # r => shared'[s] = shared[s]
    BY <1>1 DEF Works, Typed
  <1>3. \A f \in Execs : Active(f) /\ ex[f].run = r => f = e
    BY DEF Works, SoloInv, Solo
  <1>4. ASSUME NEW f \in Execs, Active(f)'
        PROVE  (ex'[f].run # r => ex'[f] = ex[f]) /\ (ex'[f].run = r => f = e)
    BY <1>2, <1>3, <1>4 DEF Works, Active
  <1>9. \A f \in Execs : Active(f) /\ ex[f].run # r => ex'[f] = ex[f]
    BY <1>2 DEF Works
  <1>5. ASSUME NEW f \in Execs PROVE ex'[f].run = ex[f].run \/ ex'[f].run \in {r, "none"}
    BY <1>2 DEF Works
  <1>6. ASSUME NEW s \in Runs, start'[s] # "started" PROVE start[s] # "started" /\ s # r
    BY <1>6 DEF Works, SoloInv, NotStarted
  <1>7. ASSUME NEW h \in Handlers, HasCommand(h)' PROVE cmd'[h] = cmd[h] /\ cmd'[h].run # r
    BY <1>7, BusyRun DEF Works, HasCommand
  <1>8. About(r)
    BY <1>2, <1>4, <1>5, <1>6, <1>7, <1>9 DEF About, Works
  <1> QED
    BY <1>2, <1>4, <1>7, <1>8

\* A call of the run that was shown stays so, as the steps are kept.
LEMMA OldCall ==
  ASSUME TypeInv, SoloInv, NEW e \in Execs, NEW r \in Runs, NEW y, NEW st,
         Works(e, r, y, st), Keeps(shared[r].steps, st.steps),
         NEW i \in DOMAIN calls, calls'[i] = calls[i], calls[i].run = r, ~InFlight(i)
  PROVE  CallOK(i)'
  <1>1. shared'[r] = st
    BY WorkIsAbout
  <1>2. CallOK(i) /\ ~Dead(r)
    BY DEF SoloInv, Works, Dead
  <1>3. Shown(i) => Shown(i)'
    BY <1>1 DEF Shown, Keeps
  <1> QED
    BY <1>2, <1>3 DEF CallOK

\* The steps shown for a run are only added to.
StepsKept == \A r \in Runs : Keeps(shared[r].steps, shared'[r].steps)

\* The calls of r are as before, or in order.
CallsOfRun(r) ==
  \A i \in DOMAIN calls' :
    calls'[i].run = r =>
      (i \in DOMAIN calls /\ calls'[i] = calls[i] /\ ~InFlight(i)) \/ CallOK(i)'

LEMMA WorkKeepsSolo ==
  ASSUME TypeInv, TypeInv', SoloInv, NEW e \in Execs, NEW r \in Runs, NEW y, NEW st,
         Works(e, r, y, st), Keeps(shared[r].steps, st.steps), CallsOfRun(r),
         Active(e)' => ExecOK(e)', PendingOK(r)'
  PROVE  SoloInv' /\ StepsKept
  <1>1. /\ About(r)
        /\ \A f \in Execs : Active(f)' /\ ex'[f].run = r => f = e
        /\ \A h \in Handlers : HasCommand(h)' => cmd'[h].run # r
    BY WorkIsAbout
  <1>2. \A i \in DOMAIN calls' : calls'[i].run = r => CallOK(i)'
    BY OldCall DEF CallsOfRun
  <1>3. RunOK(r)'
    BY <1>1, <1>2 DEF RunOK
  <1>4. SoloInv'
    BY <1>1, <1>3, Elsewhere
  <1>5. StepsKept
    BY WorkIsAbout DEF StepsKept, About, Keeps
  <1> QED
    BY <1>4, <1>5

\* The task goes on, with nothing pending.
LEMMA BecomesSolo ==
  ASSUME TypeInv, TypeInv', SoloInv, NEW e \in Execs, Active(e), NEW r \in Runs,
         ex[e].run = r, UNCHANGED <<registry, start, cmd>>, CallsKept(r), CallsOfRun(r),
         NEW pc \in {"top", "planning", "executing"}, NEW kind, NEW st, NEW turn,
         Becomes(e, pc, kind, st, turn), Keeps(shared[r].steps, st.steps),
         st.status \in Working, st.pending = NoTurn,
         pc = "executing" /\ turn.id # 0 =>
           /\ calls'[turn.id].run = r /\ calls'[turn.id].ran = 0
           /\ Consent(calls'[turn.id])
  PROVE  SoloInv' /\ StepsKept
  <1>1. PICK y : Like(y, ex[e], pc, kind, st, turn) /\ ex' = [ex EXCEPT ![e] = y]
    BY DEF Becomes
  <1>2. y.pc = pc /\ y.run = r /\ y.st = st /\ y.turn = turn
    BY <1>1 DEF Like
  <1>3. Works(e, r, y, st)
    BY <1>1, <1>2 DEF Works, Becomes
  <1>4. shared'[r] = st /\ ex'[e] = y
    BY <1>3, WorkIsAbout
  <1>5. ExecOK(e)'
    BY <1>2, <1>4 DEF ExecOK, Consent
  <1>6. PendingOK(r)'
    BY <1>4 DEF PendingOK
  <1> QED
    BY <1>3, <1>5, <1>6, WorkKeepsSolo

\* The task ends.
LEMMA EndsSolo ==
  ASSUME TypeInv, TypeInv', SoloInv, NEW e \in Execs, Active(e), NEW r \in Runs,
         ex[e].run = r, UNCHANGED <<registry, start, cmd>>, CallsKept(r), CallsOfRun(r),
         NEW y, NEW st, Ends(e, y, st), Keeps(shared[r].steps, st.steps), PendingOK(r)'
  PROVE  SoloInv' /\ StepsKept
  <1>1. /\ y.pc \in {"idle", "removing"}
        /\ y.run = r \/ (y.run = "none" /\ y.pc = "idle")
    BY ExecType, FinishedFacts, NewTypes DEF Ends
  <1>2. Works(e, r, y, st)
    BY <1>1 DEF Works, Ends
  <1>3. ex'[e] = y
    BY <1>2, WorkIsAbout
  <1>4. ~Active(e)'
    BY <1>1, <1>3 DEF Active
  <1> QED
    BY <1>2, <1>4, WorkKeepsSolo

\* What a task at work knows of its run.
LEMMA AtWork ==
  ASSUME TypeInv, SoloInv, NEW e \in Execs, Active(e), NEW r \in Runs, ex[e].run = r
  PROVE  /\ ExecOK(e) /\ PendingOK(r) /\ Len(calls) \in Nat
         /\ shared[r] \in StateTo(Len(calls))
         /\ shared[r].steps \in Seq(TurnTo(Len(calls)) \ {NoTurn})
         /\ shared[r].status \in Working
         /\ Keeps(shared[r].steps, shared[r].steps)
         /\ ex[e].pc # "spawned" =>
              ex[e].st = shared[r] /\ ex[e].st.steps = shared[r].steps
         /\ ex[e].pc \notin {"spawned", "begun"} \/ ex[e].kind # "confirm"
              => shared[r].pending = NoTurn
  <1>1. Typed /\ Len(calls) \in Nat
    BY ExecType
  <1>2. ExecOK(e) /\ PendingOK(r)
    BY DEF SoloInv
  <1>3. shared[r] \in StateTo(Len(calls))
    BY <1>1 DEF Typed
  <1>4. shared[r].steps \in Seq(TurnTo(Len(calls)) \ {NoTurn})
    BY <1>1, <1>3, StateFacts
  <1>5. /\ shared[r].status \in Working
        /\ ex[e].pc # "spawned" => ex[e].st = shared[r]
        /\ ex[e].pc \notin {"spawned", "begun"} \/ ex[e].kind # "confirm"
             => shared[r].pending = NoTurn
    BY <1>2 DEF ExecOK
  <1>6. Keeps(shared[r].steps, shared[r].steps)
    BY DEF Keeps
  <1> QED
    BY <1>1, <1>2, <1>3, <1>4, <1>5, <1>6

\* Only one request of a run is under way, by the task at work.
LEMMA FlightOf ==
  ASSUME SoloInv, NEW e \in Execs, Active(e), NEW r, ex[e].run = r,
         NEW i, calls[i].run = r, InFlight(i)
  PROVE  ex[e].pc = "resent" /\ ex[e].turn.id = i
  <1>1. PICK f \in Execs : ex[f].pc = "resent" /\ ex[f].run = r /\ ex[f].turn.id = i
    BY DEF InFlight
  <1>2. f = e
    BY <1>1 DEF SoloInv, Solo, Active
  <1> QED
    BY <1>1, <1>2

LEMMA SameCalls ==
  ASSUME calls' = calls, NEW r
  PROVE  CallsKept(r)
  BY DEF CallsKept

LEMMA CallsStay ==
  ASSUME SoloInv, NEW e \in Execs, Active(e), NEW r, ex[e].run = r, ex[e].pc # "resent",
         calls' = calls
  PROVE  CallsKept(r) /\ CallsOfRun(r)
  BY SameCalls, FlightOf DEF CallsOfRun

LEMMA EndsClean ==
  ASSUME TypeInv, TypeInv', SoloInv, NEW e \in Execs, Active(e), NEW r \in Runs,
         ex[e].run = r, UNCHANGED <<registry, start, cmd>>, CallsKept(r), CallsOfRun(r),
         NEW y, NEW st, Ends(e, y, st), Keeps(shared[r].steps, st.steps),
         st.pending = NoTurn
  PROVE  SoloInv' /\ StepsKept
  <1>1. shared'[r] = st
    BY TypedIsTypeOK DEF Ends, TypeInv, Typed
  <1>2. PendingOK(r)'
    BY <1>1 DEF PendingOK
  <1> QED
    BY <1>2, EndsSolo

LEMMA ReadSharedSolo ==
  ASSUME TypeInv, TypeInv', SoloInv, NEW e \in Execs, ReadShared(e)
  PROVE  SoloInv' /\ StepsKept
  <1>1. /\ ex[e].pc = "spawned" /\ Active(e) /\ ex[e].run \in Runs /\ Typed
        /\ UNCHANGED <<registry, start, shared, cmd, calls>>
    BY ExecType DEF ReadShared, Active
  <1>2. PICK r \in Runs : ex[e].run = r
    BY <1>1
  <1>3. PICK y : /\ y.pc = "begun" /\ y.run = r /\ y.kind = ex[e].kind
                 /\ y.approved = ex[e].approved
                 /\ y.st = IF ex[e].kind = "run" THEN NewRunState ELSE shared[r]
                 /\ ex' = [ex EXCEPT ![e] = y]
    BY <1>2, ReadSharedEffect DEF Like
  <1>4. /\ ExecOK(e) /\ PendingOK(r) /\ Keeps(shared[r].steps, shared[r].steps)
    BY <1>1, <1>2, AtWork
  <1>5. CallsKept(r) /\ CallsOfRun(r)
    BY <1>1, <1>2, CallsStay
  <1>6. Works(e, r, y, shared[r])
    BY <1>1, <1>2, <1>3, <1>5 DEF Works, Typed
  <1>7. shared'[r] = shared[r] /\ ex'[e] = y
    BY <1>6, WorkIsAbout
  <1>8. ExecOK(e)'
    BY <1>1, <1>2, <1>3, <1>4, <1>7 DEF ExecOK
  <1>9. PendingOK(r)'
    BY <1>1, <1>4 DEF PendingOK
  <1> QED
    BY <1>4, <1>5, <1>6, <1>8, <1>9, WorkKeepsSolo

LEMMA BeginLoopSolo ==
  ASSUME TypeInv, TypeInv', SoloInv, NEW e \in Execs, BeginLoop(e)
  PROVE  SoloInv' /\ StepsKept
  <1>1. /\ ex[e].pc = "begun" /\ Active(e) /\ ex[e].run \in Runs
        /\ ex[e].kind # "confirm" /\ UNCHANGED <<registry, start, cmd>> /\ calls' = calls
    BY ExecType DEF BeginLoop, Active
  <1>2. PICK r \in Runs : ex[e].run = r
    BY <1>1
  <1> DEFINE st == StateOf("Preparing", ex[e].st.steps, ex[e].st.pending)
  <1>3. /\ Keeps(shared[r].steps, ex[e].st.steps) /\ ex[e].st.pending = NoTurn
    BY <1>1, <1>2, AtWork
  <1>4. Becomes(e, "top", "run", st, ex[e].turn)
    BY BeginLoopEffect
  <1>5. st.steps = ex[e].st.steps /\ st.pending = NoTurn /\ st.status \in Working
    BY <1>3 DEF StateOf, Working
  <1>6. CallsKept(r) /\ CallsOfRun(r)
    BY <1>1, <1>2, CallsStay
  <1> HIDE DEF st
  <1> QED
    BY <1>1, <1>2, <1>3, <1>4, <1>5, <1>6, BecomesSolo

LEMMA BeginPendingSolo ==
  ASSUME TypeInv, TypeInv', SoloInv, NEW e \in Execs, BeginPending(e)
  PROVE  SoloInv' /\ StepsKept
  <1>1. /\ ex[e].pc = "begun" /\ Active(e) /\ ex[e].run \in Runs /\ Typed
        /\ UNCHANGED <<registry, start, cmd>> /\ calls' = calls
    BY ExecType DEF BeginPending, Active
  <1>2. PICK r \in Runs : ex[e].run = r
    BY <1>1
  <1> DEFINE x == ex[e]
             q == Append(x.st.steps, x.st.pending)
  <1>3. /\ x.st = shared[r] /\ Keeps(shared[r].steps, x.st.steps)
        /\ x.st.steps \in Seq(TurnTo(Len(calls)) \ {NoTurn})
        /\ x.st.pending \in TurnTo(Len(calls))
        /\ ExecOK(e) /\ PendingOK(r)
    BY <1>1, <1>2, AtWork, StateFacts
  <1>4. CallsKept(r) /\ CallsOfRun(r)
    BY <1>1, <1>2, CallsStay
  <1>5. CASE Ends(e, Finished(x), shared[x.run])
    <2>1. shared' = shared
      BY <1>1, <1>2, <1>5 DEF Ends, Typed
    <2>2. PendingOK(r)'
      BY <1>1, <1>3, <2>1 DEF PendingOK
    <2> QED
      BY <1>1, <1>2, <1>3, <1>4, <1>5, <2>2, EndsSolo
  <1>6. CASE Ends(e, Finished(x), StateOf("Cancelled", x.st.steps, NoTurn))
    <2> DEFINE st == StateOf("Cancelled", x.st.steps, NoTurn)
    <2>1. st.steps = x.st.steps /\ st.pending = NoTurn
      BY DEF StateOf
    <2> HIDE DEF st
    <2>2. Ends(e, Finished(x), st)
      BY <1>6 DEF st
    <2> QED
      BY <1>1, <1>2, <1>3, <1>4, <2>1, <2>2, EndsClean
  <1>7. CASE /\ x.st.pending # NoTurn /\ x.approved
             /\ Becomes(e, "executing", "confirm",
                        StateOf("Executing", x.st.steps, NoTurn), x.st.pending)
    <2> DEFINE st == StateOf("Executing", x.st.steps, NoTurn)
               turn == x.st.pending
    <2>1. st.steps = x.st.steps /\ st.pending = NoTurn /\ st.status \in Working
      BY DEF StateOf, Working
    <2> HIDE DEF st
    <2>2. Becomes(e, "executing", "confirm", st, turn)
      BY <1>7 DEF st
    <2>3. /\ calls'[turn.id].run = r /\ calls'[turn.id].ran = 0
          /\ Consent(calls'[turn.id])
      BY <1>1, <1>2, <1>3, <1>7 DEF ExecOK, PendingOK, Consent
    <2> HIDE DEF turn
    <2> QED
      BY <1>1, <1>2, <1>3, <1>4, <2>1, <2>2, <2>3, BecomesSolo
  <1>8. CASE /\ x.st.pending # NoTurn
             /\ Becomes(e, "top", "run", StateOf("Preparing", q, NoTurn), x.st.pending)
    <2>0. Keeps(x.st.steps, q)
      BY <1>3, <1>8, AppendKeeps
    <2> DEFINE st == StateOf("Preparing", q, NoTurn)
    <2> HIDE DEF q
    <2>1. st.steps = q /\ st.pending = NoTurn /\ st.status \in Working
      BY DEF StateOf, Working
    <2> HIDE DEF st
    <2>2. Becomes(e, "top", "run", st, x.st.pending)
      BY <1>8 DEF st
    <2>3. Keeps(shared[r].steps, st.steps)
      BY <1>3, <2>0, <2>1
    <2> QED
      BY <1>1, <1>2, <1>4, <2>1, <2>2, <2>3, BecomesSolo
  <1> QED
    BY <1>5, <1>6, <1>7, <1>8, BeginPendingEffect

LEMMA LoopTopSolo ==
  ASSUME TypeInv, TypeInv', SoloInv, NEW e \in Execs, LoopTop(e)
  PROVE  SoloInv' /\ StepsKept
  <1>1. /\ ex[e].pc = "top" /\ Active(e) /\ ex[e].run \in Runs
        /\ UNCHANGED <<registry, start, cmd>> /\ calls' = calls
    BY ExecType DEF LoopTop, Active
  <1>2. PICK r \in Runs : ex[e].run = r
    BY <1>1
  <1> DEFINE x == ex[e]
             a == StateOf("Cancelled", x.st.steps, x.st.pending)
             b == StateOf("Planning", x.st.steps, x.st.pending)
  <1>3. Keeps(shared[r].steps, x.st.steps) /\ x.st.pending = NoTurn
    BY <1>1, <1>2, AtWork
  <1>4. CallsKept(r) /\ CallsOfRun(r)
    BY <1>1, <1>2, CallsStay
  <1>5. Ends(e, Finished(x), a) \/ Becomes(e, "planning", x.kind, b, x.turn)
    BY LoopTopEffect
  <1>6. /\ a.steps = x.st.steps /\ a.pending = NoTurn
        /\ b.steps = x.st.steps /\ b.pending = NoTurn /\ b.status \in Working
    BY <1>3 DEF StateOf, Working
  <1> HIDE DEF a, b
  <1>7. CASE Ends(e, Finished(x), a)
    BY <1>1, <1>2, <1>3, <1>4, <1>6, <1>7, EndsClean
  <1>8. CASE Becomes(e, "planning", x.kind, b, x.turn)
    BY <1>1, <1>2, <1>3, <1>4, <1>6, <1>8, BecomesSolo
  <1> QED
    BY <1>5, <1>7, <1>8

\* A task that fails leaves the shared state as it was.
LEMMA FailSolo ==
  ASSUME TypeInv, TypeInv', SoloInv, NEW e \in Execs, NEW r \in Runs, ex[e].run = r,
         ex[e].pc \in {"planning", "executing", "resent"}, UNCHANGED <<registry, start, cmd>>,
         CallsKept(r), CallsOfRun(r), Len(calls') = Len(calls), Fail(e)
  PROVE  SoloInv' /\ StepsKept
  <1>1. Typed /\ Active(e)
    BY ExecType DEF Active
  <1>2. Keeps(shared[r].steps, shared[r].steps) /\ shared[r].pending = NoTurn
    BY <1>1, AtWork
  <1>3. Ends(e, Finished(ex[e]), shared[r])
    BY <1>1, FailEffect
  <1> QED
    BY <1>1, <1>2, <1>3, EndsClean

LEMMA PlanFailsSolo ==
  ASSUME TypeInv, TypeInv', SoloInv, NEW e \in Execs, PlanFails(e)
  PROVE  SoloInv' /\ StepsKept
  <1>1. /\ ex[e].pc = "planning" /\ Active(e) /\ ex[e].run \in Runs /\ Fail(e)
        /\ UNCHANGED <<registry, start, cmd>> /\ calls' = calls
    BY ExecType DEF PlanFails, Active
  <1>2. PICK r \in Runs : ex[e].run = r
    BY <1>1
  <1>3. CallsKept(r) /\ CallsOfRun(r)
    BY <1>1, <1>2, CallsStay
  <1> QED
    BY <1>1, <1>2, <1>3, FailSolo

LEMMA PlanUnparsableSolo ==
  ASSUME TypeInv, TypeInv', SoloInv, NEW e \in Execs, PlanUnparsable(e)
  PROVE  SoloInv' /\ StepsKept
  <1>1. /\ ex[e].pc = "planning" /\ Active(e) /\ ex[e].run \in Runs /\ Typed
        /\ UNCHANGED <<registry, start, cmd>> /\ calls' = calls
    BY ExecType DEF PlanUnparsable, Active
  <1>2. PICK r \in Runs : ex[e].run = r
    BY <1>1
  <1> DEFINE x == ex[e]
             a == StateOf("AwaitingUser", x.st.steps, x.st.pending)
  <1>3. /\ Keeps(shared[r].steps, x.st.steps) /\ x.st.pending = NoTurn
        /\ Keeps(shared[r].steps, shared[r].steps) /\ ExecOK(e) /\ PendingOK(r)
    BY <1>1, <1>2, AtWork
  <1>4. CallsKept(r) /\ CallsOfRun(r)
    BY <1>1, <1>2, CallsStay
  <1>5. CASE Ends(e, Finished(x), a)
    <2>1. a.steps = x.st.steps /\ a.pending = NoTurn
      BY <1>3 DEF StateOf
    <2> HIDE DEF a
    <2> QED
      BY <1>1, <1>2, <1>3, <1>4, <1>5, <2>1, EndsClean
  <1>6. ASSUME NEW y, Like(y, x, x.pc, x.kind, x.st, x.turn),
               ex' = [ex EXCEPT ![e] = y], UNCHANGED shared
        PROVE  SoloInv' /\ StepsKept
    <2>1. /\ y.pc = x.pc /\ y.run = r /\ y.kind = x.kind /\ y.st = x.st
          /\ y.turn = x.turn /\ y.approved = x.approved
      BY <1>2, <1>6 DEF Like
    <2>2. Works(e, r, y, shared[r])
      BY <1>1, <1>2, <1>4, <1>6, <2>1 DEF Works, Typed
    <2>3. shared'[r] = shared[r] /\ ex'[e] = y
      BY <2>2, WorkIsAbout
    <2>4. ExecOK(e)'
      BY <1>1, <1>2, <1>3, <2>1, <2>3 DEF ExecOK
    <2>5. PendingOK(r)'
      BY <1>1, <1>3, <1>6 DEF PendingOK
    <2> QED
      BY <1>3, <1>4, <2>2, <2>4, <2>5, WorkKeepsSolo
  <1> QED
    BY <1>5, <1>6, PlanUnparsableEffect

LEMMA PlanSolo ==
  ASSUME TypeInv, TypeInv', SoloInv, NEW e \in Execs, NEW answer \in Actions,
         Plan(e, answer)
  PROVE  SoloInv' /\ StepsKept
  <1>1. /\ ex[e].pc = "planning" /\ Active(e) /\ ex[e].run \in Runs /\ Typed
        /\ UNCHANGED <<registry, start, cmd>> /\ calls \in Seq(Call)
    BY ExecType DEF Plan, Active, Typed
  <1>2. PICK r \in Runs : ex[e].run = r
    BY <1>1
  <1> DEFINE x == ex[e]
             n == Len(calls)
  <1>3. /\ Keeps(shared[r].steps, x.st.steps) /\ x.st.pending = NoTurn
        /\ x.st = shared[r] /\ n \in Nat
        /\ x.st.steps \in Seq(TurnTo(n) \ {NoTurn})
    BY <1>1, <1>2, AtWork
  <1>4. PICK turn \in TurnTo(Len(calls')) \ {NoTurn} :
          /\ Gated(e, turn)
          /\ \/ /\ turn.act \in Mutating /\ turn.id = n + 1
                /\ NewCall(e) \in Call /\ calls' = Append(calls, NewCall(e))
             \/ turn.act \notin Mutating /\ turn.id = 0 /\ calls' = calls
    BY PlanEffect
  <1>5. Len(calls') \in Nat /\ n <= Len(calls')
    BY PlanEffect
  <1>6. /\ CallsKept(r) /\ CallsOfRun(r)
        /\ turn.id # 0 => /\ turn.act \in Mutating /\ calls'[turn.id].run = r
                          /\ calls'[turn.id].ran = 0
                          /\ calls'[turn.id].policy = x.policy
    <2>1. CASE turn.id = 0 /\ calls' = calls
      BY <1>1, <1>2, <2>1, CallsStay
    <2>2. CASE /\ turn.act \in Mutating /\ turn.id = n + 1
               /\ NewCall(e) \in Call /\ calls' = Append(calls, NewCall(e))
      <3> DEFINE c == NewCall(e)
      <3>1. c.run = r /\ c.ran = 0 /\ c.policy = x.policy
        BY <1>2 DEF NewCall
      <3> HIDE DEF c
      <3>2. /\ DOMAIN calls = 1 .. n /\ DOMAIN calls' = 1 .. n + 1
            /\ calls'[n + 1] = c /\ \A j \in 1 .. n : calls'[j] = calls[j]
        <4>1. c \in Call /\ calls' = Append(calls, c)
          BY <2>2 DEF c
        <4>2. /\ calls' \in Seq(Call) /\ Len(calls') = n + 1 /\ calls'[n + 1] = c
              /\ \A j \in 1 .. n : calls'[j] = calls[j]
          BY <1>1, <4>1, AppendProperties
        <4> QED
          BY <1>1, <4>2, LenProperties
      <3>3. CallsKept(r)
        BY <1>3, <3>1, <3>2 DEF CallsKept
      <3>4. ASSUME NEW i \in DOMAIN calls', i = n + 1 PROVE CallOK(i)'
        BY <3>1, <3>2, <3>4 DEF CallOK, Allowed
      <3>5. CallsOfRun(r)
        <4> SUFFICES ASSUME NEW i \in DOMAIN calls', calls'[i].run = r
                     PROVE  \/ i \in DOMAIN calls /\ calls'[i] = calls[i] /\ ~InFlight(i)
                            \/ CallOK(i)'
          BY DEF CallsOfRun
        <4>1. i \in 1 .. n \/ i = n + 1
          BY <1>3, <3>2
        <4>2. CASE i \in 1 .. n
          <5>1. calls'[i] = calls[i] /\ calls[i].run = r
            BY <3>2, <4>2
          <5>2. ~InFlight(i)
            BY <1>1, <1>2, <5>1, FlightOf
          <5> QED
            BY <3>2, <4>2, <5>1, <5>2
        <4> QED
          BY <3>4, <4>1, <4>2
      <3> QED
        BY <1>3, <2>2, <3>1, <3>2, <3>3, <3>5
    <2> QED
      BY <1>4, <2>1, <2>2
  <1>7. CASE /\ turn.act \notin Mutating \/ x.policy = "Auto"
             /\ Becomes(e, "executing", x.kind,
                        StateOf("Executing", x.st.steps, x.st.pending), turn)
    <2> DEFINE st == StateOf("Executing", x.st.steps, x.st.pending)
    <2>1. st.steps = x.st.steps /\ st.pending = NoTurn /\ st.status \in Working
      BY <1>3 DEF StateOf, Working
    <2> HIDE DEF st
    <2>2. Becomes(e, "executing", x.kind, st, turn)
      BY <1>7 DEF st
    <2>3. turn.id # 0 => /\ calls'[turn.id].run = r /\ calls'[turn.id].ran = 0
                         /\ Consent(calls'[turn.id])
      BY <1>6, <1>7 DEF Consent
    <2> QED
      BY <1>1, <1>2, <1>3, <1>6, <2>1, <2>2, <2>3, BecomesSolo
  <1>8. CASE /\ turn.act \in Mutating /\ x.policy = "OnRequest"
             /\ Ends(e, IdleExec, StateOf("AwaitingToolApproval", x.st.steps, turn))
    <2> DEFINE st == StateOf("AwaitingToolApproval", x.st.steps, turn)
    <2>1. st.steps = x.st.steps /\ st.pending = turn /\ st.status = "AwaitingToolApproval"
      BY DEF StateOf
    <2> HIDE DEF st
    <2>2. Ends(e, IdleExec, st)
      BY <1>8 DEF st
    <2>3. shared'[r] = st
      BY <1>1, <1>2, <2>2 DEF Ends, Typed
    <2>4. turn.id # 0
      BY <1>3, <1>4, <1>8
    <2>5. PendingOK(r)'
      BY <1>6, <1>8, <2>1, <2>3, <2>4 DEF PendingOK
    <2> QED
      BY <1>1, <1>2, <1>3, <1>6, <2>1, <2>2, <2>5, EndsSolo
  <1>9. CASE Becomes(e, "top", x.kind,
                     StateOf("Planning", Append(x.st.steps, turn), x.st.pending), x.turn)
    <2> DEFINE q == Append(x.st.steps, turn)
               st == StateOf("Planning", q, x.st.pending)
    <2>0. Keeps(x.st.steps, q)
      <3>1. TurnTo(n) \subseteq TurnTo(Len(calls'))
        BY <1>3, <1>5, TypesGrow
      <3>2. x.st.steps \in Seq(TurnTo(Len(calls')) \ {NoTurn})
        BY <1>3, <3>1
      <3> QED
        BY <3>2, AppendKeeps
    <2> HIDE DEF q
    <2>1. st.steps = q /\ st.pending = NoTurn /\ st.status \in Working
      BY <1>3 DEF StateOf, Working
    <2> HIDE DEF st
    <2>2. Becomes(e, "top", x.kind, st, x.turn)
      BY <1>9 DEF st, q
    <2>3. Keeps(shared[r].steps, st.steps)
      BY <1>3, <2>0, <2>1
    <2> QED
      BY <1>1, <1>2, <1>6, <2>1, <2>2, <2>3, BecomesSolo
  <1> QED
    BY <1>4, <1>7, <1>8, <1>9 DEF Gated

\* The call of a tool that ran had consent, and this was its first time or the
\* second after a lost request.
LEMMA RanCall ==
  ASSUME TypeInv, SoloInv, NEW e \in Execs, ex[e].pc \in AtTool, NEW r \in Runs,
         ex[e].run = r, calls' = Ran(ex[e].turn) \/ calls' = calls,
         NEW i, i = ex[e].turn.id
  PROVE  /\ CallsKept(r) /\ Len(calls') = Len(calls)
         /\ \A j \in DOMAIN calls' :
              \/ /\ j \in DOMAIN calls /\ calls'[j] = calls[j]
                 /\ calls[j].run = r => ~InFlight(j)
              \/ j = i /\ Allowed(calls'[j]) /\ calls'[j].run = r
  <1>1. /\ Typed /\ calls \in Seq(Call) /\ ex[e].turn \in TurnTo(Len(calls))
        /\ Len(calls) \in Nat /\ Active(e)
    BY ExecType DEF Typed, Active
  <1>2. /\ calls' \in Seq(Call) /\ Len(calls') = Len(calls)
        /\ \A j \in 1 .. Len(calls) : j # i => calls'[j] = calls[j]
        /\ i \in 1 .. Len(calls) =>
             calls'[i] = calls[i] \/ calls'[i] = [calls[i] EXCEPT !.ran = @ + 1]
    BY <1>1, RanFacts
  <1>3. DOMAIN calls = 1 .. Len(calls) /\ DOMAIN calls' = 1 .. Len(calls)
    BY <1>1, <1>2, LenProperties
  <1>4. ASSUME i \in 1 .. Len(calls)
        PROVE  calls[i].run = r /\ calls'[i].run = r /\ Allowed(calls'[i])
    <2> DEFINE c == calls[i]
               d == [c EXCEPT !.ran = @ + 1]
    <2>1. c \in Call
      BY <1>1, <1>4, ElementOfSeq
    <2>2. /\ c.run = r /\ c.ran \in {0, 1} /\ Consent(c)
          /\ c.ran = 1 => c.resent
      <3>1. ExecOK(e) /\ i # 0
        BY <1>1, <1>4 DEF SoloInv
      <3> QED
        BY <3>1 DEF ExecOK
    <2>3. calls'[i] = c \/ calls'[i] = d
      BY <1>2, <1>4
    <2> HIDE DEF c
    <2>4. Allowed(c)
      BY <2>2 DEF Allowed
    <2>5. /\ d.run = c.run /\ d.policy = c.policy /\ d.approved = c.approved
          /\ d.ran = c.ran + 1 /\ d.resent = c.resent
      BY <2>1 DEF Call
    <2> HIDE DEF d
    <2>6. Consent(d)
      BY <2>2, <2>5 DEF Consent
    <2>7. Allowed(d)
      BY <2>2, <2>5, <2>6 DEF Allowed
    <2> QED
      BY <2>2, <2>3, <2>4, <2>5, <2>7 DEF c
  <1>5. CallsKept(r)
    BY <1>2, <1>3, <1>4 DEF CallsKept
  <1>6. ASSUME NEW j, calls[j].run = r, j # i PROVE ~InFlight(j)
    BY <1>1, <1>6, FlightOf
  <1> QED
    BY <1>2, <1>3, <1>4, <1>5, <1>6

LEMMA ToolReturnsSolo ==
  ASSUME TypeInv, TypeInv', SoloInv, NEW e \in Execs, NEW ok \in BOOLEAN,
         ToolReturns(e, ok)
  PROVE  SoloInv' /\ StepsKept
  <1>1. /\ ex[e].pc \in AtTool /\ Active(e) /\ ex[e].run \in Runs /\ Typed
        /\ UNCHANGED <<registry, start, cmd>> /\ calls' = Ran(ex[e].turn)
        /\ ex[e].turn \in TurnTo(Len(calls)) \ {NoTurn}
    BY ExecType DEF ToolReturns, Active, TypeInv, TurnsAreSet
  <1>2. PICK r \in Runs : ex[e].run = r
    BY <1>1
  <1>i. PICK i : i = ex[e].turn.id
    OBVIOUS
  <1> DEFINE x == ex[e]
             q == Append(x.st.steps, x.turn)
  <1>3. /\ Keeps(shared[r].steps, x.st.steps) /\ x.st.pending = NoTurn
        /\ x.st = shared[r]
        /\ x.st.steps \in Seq(TurnTo(Len(calls)) \ {NoTurn})
    BY <1>1, <1>2, AtWork
  <1>4. /\ CallsKept(r)
        /\ \A j \in DOMAIN calls' :
             \/ /\ j \in DOMAIN calls /\ calls'[j] = calls[j]
                /\ calls[j].run = r => ~InFlight(j)
             \/ j = i /\ Allowed(calls'[j]) /\ calls'[j].run = r
    BY <1>1, <1>2, <1>i, RanCall
  <1>5. Keeps(x.st.steps, q) /\ \E k \in DOMAIN q : q[k].id = i
    <2>1. Keeps(x.st.steps, q) /\ Has(q, x.turn)
      BY <1>1, <1>3, AppendKeeps
    <2> HIDE DEF q
    <2> QED
      BY <1>i, <2>1 DEF Has
  <1> HIDE DEF q
  <1>6. CASE Ends(e, Finished(x), StateOf("Cancelled", x.st.steps, x.st.pending))
    <2> DEFINE st == StateOf("Cancelled", x.st.steps, x.st.pending)
    <2>1. st.steps = x.st.steps /\ st.pending = NoTurn /\ st.status = "Cancelled"
      BY <1>3 DEF StateOf
    <2> HIDE DEF st
    <2>2. Ends(e, Finished(x), st)
      BY <1>6 DEF st
    <2>3. shared'[r] = st /\ ex'[e].pc = "removing"
          /\ \A f \in Execs : f # e => ex'[f] = ex[f]
      BY <1>1, <1>2, <2>2, ExecType, FinishedFacts DEF Ends, Typed
    <2>4. Dead(r)'
      BY <1>1, <1>2, <2>1, <2>3 DEF Dead, Active, Awaiting, SoloInv, Solo
    <2>5. CallsOfRun(r)
      BY <1>4, <2>4 DEF CallsOfRun, CallOK
    <2> QED
      BY <1>1, <1>2, <1>3, <1>4, <2>1, <2>2, <2>5, EndsClean
  <1>7. ASSUME NEW st, shared'[r] = st, st.steps = q PROVE CallsOfRun(r)
    <2>1. ASSUME NEW j \in DOMAIN calls', j = i, calls'[j].run = r PROVE Shown(j)'
      BY <1>5, <1>7, <2>1 DEF Shown
    <2> QED
      BY <1>4, <2>1 DEF CallsOfRun, CallOK
  <1>8. ASSUME NEW y, NEW st, Ends(e, y, st), st.steps = q, st.pending = NoTurn
        PROVE  SoloInv' /\ StepsKept
    <2>1. shared'[r] = st
      BY <1>1, <1>2, <1>8 DEF Ends, Typed
    <2>2. CallsOfRun(r) /\ Keeps(shared[r].steps, st.steps)
      BY <1>3, <1>5, <1>7, <1>8, <2>1
    <2> QED
      BY <1>1, <1>2, <1>4, <1>8, <2>2, EndsClean
  <1>9. ASSUME NEW kind, NEW st, Becomes(e, "top", kind, st, x.turn), st.steps = q,
               st.pending = NoTurn, st.status \in Working
        PROVE  SoloInv' /\ StepsKept
    <2>1. shared'[r] = st
      BY <1>1, <1>2, <1>9 DEF Becomes, Typed
    <2>2. CallsOfRun(r) /\ Keeps(shared[r].steps, st.steps)
      BY <1>3, <1>5, <1>7, <1>9, <2>1
    <2> QED
      BY <1>1, <1>2, <1>4, <1>9, <2>2, BecomesSolo
  <1>10. /\ \A s : StateOf(s, q, x.st.pending).steps = q
                   /\ StateOf(s, q, x.st.pending).pending = NoTurn
                   /\ StateOf(s, q, x.st.pending).status = s
         /\ "Preparing" \in Working /\ "Planning" \in Working
    BY <1>3 DEF StateOf, Working
  <1>11. \/ Ends(e, Finished(x), StateOf("Cancelled", x.st.steps, x.st.pending))
         \/ Ends(e, IdleExec, StateOf("AwaitingUser", q, x.st.pending))
         \/ Ends(e, Finished(x), StateOf("Completed", q, x.st.pending))
         \/ Becomes(e, "top", "run", StateOf("Preparing", q, x.st.pending), x.turn)
         \/ Becomes(e, "top", x.kind, StateOf("Planning", q, x.st.pending), x.turn)
    BY ToolReturnsEffect DEF q
  <1> QED
    BY <1>6, <1>8, <1>9, <1>10, <1>11

LEMMA ToolFailsSolo ==
  ASSUME TypeInv, TypeInv', SoloInv, NEW e \in Execs, ToolFails(e)
  PROVE  SoloInv' /\ StepsKept
  <1>1. /\ ex[e].pc \in AtTool /\ Active(e) /\ ex[e].run \in Runs /\ Typed /\ Fail(e)
        /\ UNCHANGED <<registry, start, cmd>>
        /\ calls' = Ran(ex[e].turn) \/ calls' = calls
    BY ExecType DEF ToolFails, Active
  <1>2. PICK r \in Runs : ex[e].run = r
    BY <1>1
  <1>i. PICK i : i = ex[e].turn.id
    OBVIOUS
  <1>3. shared[r].status \in Working
    BY <1>1, <1>2, AtWork
  <1>4. /\ CallsKept(r) /\ Len(calls') = Len(calls)
        /\ \A j \in DOMAIN calls' :
             \/ /\ j \in DOMAIN calls /\ calls'[j] = calls[j]
                /\ calls[j].run = r => ~InFlight(j)
             \/ j = i /\ Allowed(calls'[j]) /\ calls'[j].run = r
    BY <1>1, <1>2, <1>i, RanCall
  <1>5. Dead(r)'
    <2>1. shared' = shared /\ ex'[e].pc = "removing"
          /\ \A f \in Execs : f # e => ex'[f] = ex[f]
      BY <1>1, ExecType, FinishedFacts DEF Fail, Typed
    <2> QED
      BY <1>1, <1>2, <1>3, <2>1 DEF Dead, Active, Awaiting, Working, SoloInv, Solo
  <1>6. CallsOfRun(r)
    BY <1>4, <1>5 DEF CallsOfRun, CallOK
  <1> QED
    BY <1>1, <1>2, <1>4, <1>6, FailSolo

LEMMA ToolResentSolo ==
  ASSUME TypeInv, TypeInv', SoloInv, NEW e \in Execs, ToolResent(e)
  PROVE  SoloInv' /\ StepsKept
  <1>1. /\ ex[e].pc = "executing" /\ Active(e) /\ ex[e].run \in Runs /\ Typed
        /\ UNCHANGED <<registry, start, shared, cmd>> /\ calls \in Seq(Call)
        /\ ex[e].turn \in TurnTo(Len(calls)) /\ Len(calls) \in Nat
    BY ExecType, ToolResentEffect DEF Active, Typed
  <1>2. PICK r \in Runs : ex[e].run = r
    BY <1>1
  <1>i. PICK i : i = ex[e].turn.id
    OBVIOUS
  <1> DEFINE x == ex[e]
  <1>3. PICK y : /\ y.pc = "resent" /\ y.run = r /\ y.kind = x.kind /\ y.st = x.st
                 /\ y.turn = x.turn /\ y.approved = x.approved
                 /\ ex' = [ex EXCEPT ![e] = y]
    BY <1>2, ToolResentEffect DEF Like
  <1>4. PICK n \in {0, 1} : calls' = Resent(x.turn, n)
    BY ToolResentEffect
  <1>5. /\ Len(calls') = Len(calls) /\ calls' \in Seq(Call)
        /\ \A j \in 1 .. Len(calls) : j # i => calls'[j] = calls[j]
        /\ i \in 1 .. Len(calls) => calls'[i] = Lost(calls[i], n)
    BY <1>1, <1>4, <1>i, ResentFacts
  <1>6. /\ DOMAIN calls = 1 .. Len(calls) /\ DOMAIN calls' = 1 .. Len(calls)
        /\ i \in 0 .. Len(calls)
    BY <1>1, <1>5, <1>i, LenProperties, IdTypes
  <1>7. /\ ExecOK(e) /\ PendingOK(r) /\ Keeps(shared[r].steps, shared[r].steps)
        /\ shared[r].pending = NoTurn
    BY <1>1, <1>2, AtWork
  <1>8. ASSUME i # 0
        PROVE  /\ calls[i].run = r /\ calls'[i].run = r /\ calls'[i].ran \in {0, 1}
               /\ Consent(calls'[i]) /\ calls'[i].resent
    <2>1. calls[i].run = r /\ calls[i].ran = 0 /\ Consent(calls[i])
      BY <1>1, <1>2, <1>7, <1>8, <1>i DEF ExecOK
    <2>2. calls[i] \in Call /\ i \in 1 .. Len(calls)
      BY <1>1, <1>6, <1>8, ElementOfSeq
    <2>3. /\ calls'[i].run = calls[i].run /\ calls'[i].policy = calls[i].policy
          /\ calls'[i].approved = calls[i].approved
          /\ calls'[i].resent /\ calls'[i].ran = calls[i].ran + n
      BY <1>5, <2>2, LostFacts
    <2> QED
      BY <2>1, <2>3 DEF Consent
  <1>9. CallsKept(r)
    BY <1>5, <1>6, <1>8 DEF CallsKept
  <1>10. Works(e, r, y, shared[r])
    BY <1>1, <1>2, <1>3, <1>9 DEF Works, Typed
  <1>11. shared'[r] = shared[r] /\ ex'[e] = y
    BY <1>10, WorkIsAbout
  <1>12. CallsOfRun(r)
    <2> SUFFICES ASSUME NEW j \in DOMAIN calls', calls'[j].run = r
                 PROVE  \/ j \in DOMAIN calls /\ calls'[j] = calls[j] /\ ~InFlight(j)
                        \/ CallOK(j)'
      BY DEF CallsOfRun
    <2>1. CASE j # i
      <3>1. calls'[j] = calls[j] /\ j \in DOMAIN calls
        BY <1>5, <1>6, <2>1
      <3>2. ~InFlight(j)
        BY <1>1, <1>2, <3>1, FlightOf
      <3> QED
        BY <3>1, <3>2
    <2>2. CASE j = i
      <3>1. InFlight(j)'
        BY <1>3, <1>11, <1>i, <2>2 DEF InFlight
      <3>2. Allowed(calls[j])'
        BY <1>6, <1>8, <2>2 DEF Allowed
      <3> QED
        BY <3>1, <3>2 DEF CallOK
    <2> QED
      BY <2>1, <2>2
  <1>13. ExecOK(e)'
    BY <1>1, <1>2, <1>3, <1>7, <1>8, <1>11, <1>i DEF ExecOK
  <1>14. PendingOK(r)'
    BY <1>7, <1>11 DEF PendingOK
  <1> QED
    BY <1>7, <1>10, <1>12, <1>13, <1>14, WorkKeepsSolo

LEMMA RemoveRunSolo ==
  ASSUME TypeInv, TypeInv', SoloInv, NEW e \in Execs, RemoveRun(e)
  PROVE  SoloInv' /\ StepsKept
  <1>1. /\ ex[e].pc = "removing" /\ ex[e].run \in Runs /\ Typed
        /\ UNCHANGED <<start, shared, cmd, calls>> /\ registry' \subseteq registry
        /\ ex' = [ex EXCEPT ![e] = IdleExec]
    BY ExecType DEF RemoveRun
  <1>2. /\ ex'[e].pc = "idle" /\ ex'[e].run = "none" /\ ~Active(e) /\ ~Active(e)'
        /\ \A f \in Execs : f # e => ex'[f] = ex[f]
    BY <1>1, NewTypes DEF Typed, Active
  <1>3. \A f \in Execs : Active(f)' => ex'[f] = ex[f] /\ Active(f)
    BY <1>2 DEF Active
  <1>4. Solo'
    BY <1>3 DEF Solo, SoloInv
  <1>5. ASSUME NEW f \in Execs, Active(f)' PROVE ExecOK(f)'
    <2>1. ExecOK(f) /\ ex'[f] = ex[f]
      BY <1>3, <1>5 DEF SoloInv
    <2> QED
      BY <1>1, <2>1 DEF ExecOK
  <1>6. ASSUME NEW h \in Handlers, HasCommand(h)' PROVE CmdOK(h)'
    BY <1>1, <1>6 DEF SoloInv, CmdOK, HasCommand
  <1>7. ASSUME NEW s \in Runs, start'[s] # "started" PROVE NotStarted(s)'
    <2>1. NotStarted(s)
      BY <1>1, <1>7 DEF SoloInv
    <2>2. \A f \in Execs : ex'[f].run # s
      BY <1>2, <2>1 DEF NotStarted
    <2> QED
      BY <1>1, <2>1, <2>2 DEF NotStarted, HasCommand
  <1>8. ASSUME NEW s \in Runs PROVE PendingOK(s)'
    BY <1>1 DEF SoloInv, PendingOK
  <1>9. ASSUME NEW i \in DOMAIN calls' PROVE CallOK(i)'
    <2>1. CallOK(i)
      BY <1>1 DEF SoloInv
    <2>2. Shown(i) => Shown(i)'
      BY <1>1 DEF Shown
    <2>3. Dead(calls[i].run) => Dead(calls[i].run)'
      BY <1>1, <1>3 DEF Dead
    <2>4. InFlight(i) => InFlight(i)'
      BY <1>1, <1>2 DEF InFlight
    <2> QED
      BY <1>1, <2>1, <2>2, <2>3, <2>4 DEF CallOK
  <1>10. StepsKept
    BY <1>1 DEF StepsKept, Keeps
  <1> QED
    BY <1>4, <1>5, <1>6, <1>7, <1>8, <1>9, <1>10 DEF SoloInv

-----------------------------------------------------------------------------
(* Commands keep SoloInv.                                                  *)

LEMMA InitSolo == Init => SoloInv
  <1> SUFFICES ASSUME Init PROVE SoloInv
    OBVIOUS
  <1>1. /\ IdleExec.pc = "idle" /\ IdleExec.run = "none" /\ IdleCmd.kind = "idle"
        /\ NewRunState.status = "Pending" /\ NewRunState.pending = NoTurn
        /\ DOMAIN calls = {}
    BY DEF Init, IdleExec, IdleCmd, NewRunState
  <1>2. /\ \A e \in Execs : ~Active(e) /\ ex[e].run = "none"
        /\ \A h \in Handlers : ~HasCommand(h)
    BY <1>1 DEF Init, Active, HasCommand
  <1>3. \A r \in Runs : NotStarted(r) /\ PendingOK(r)
    BY <1>1, <1>2 DEF Init, NotStarted, PendingOK
  <1> QED
    BY <1>1, <1>2, <1>3 DEF SoloInv, Solo

\* Nothing happens but that a run begins to start.
LEMMA StillSolo ==
  ASSUME SoloInv, UNCHANGED <<registry, shared, cmd, ex, calls>>,
         \A s \in Runs : start'[s] # "started" => start[s] # "started"
  PROVE  SoloInv' /\ StepsKept
  <1>1. Solo'
    BY DEF SoloInv, Solo, Active
  <1>2. ASSUME NEW e \in Execs, Active(e)' PROVE ExecOK(e)'
    BY <1>2 DEF SoloInv, Active, ExecOK
  <1>3. ASSUME NEW h \in Handlers, HasCommand(h)' PROVE CmdOK(h)'
    BY <1>3 DEF SoloInv, HasCommand, CmdOK
  <1>4. ASSUME NEW s \in Runs, start'[s] # "started" PROVE NotStarted(s)'
    BY <1>4 DEF SoloInv, HasCommand, NotStarted
  <1>5. ASSUME NEW s \in Runs PROVE PendingOK(s)'
    BY DEF SoloInv, PendingOK
  <1>6. ASSUME NEW i \in DOMAIN calls' PROVE CallOK(i)'
    BY DEF SoloInv, CallOK, Shown, Dead, Active, InFlight
  <1>7. StepsKept
    BY DEF StepsKept, Keeps
  <1> QED
    BY <1>1, <1>2, <1>3, <1>4, <1>5, <1>6, <1>7 DEF SoloInv

LEMMA InsertRunSolo ==
  ASSUME TypeInv, TypeInv', SoloInv, NEW r \in Runs, NEW e \in Execs, NEW p \in Policies,
         InsertRun(r, e, p)
  PROVE  SoloInv' /\ StepsKept
  <1>1. /\ NotStarted(r) /\ ex[e].pc = "idle" /\ UNCHANGED <<cmd, calls>>
        /\ start' = [start EXCEPT ![r] = "started"] /\ registry' = registry \cup {r}
        /\ shared' = [shared EXCEPT ![r] = NewRunState]
    BY DEF InsertRun, SoloInv
  <1>2. PICK y : /\ y.pc = "spawned" /\ y.run = r /\ y.kind = "run"
                 /\ ex' = [ex EXCEPT ![e] = y]
    BY InsertEffect
  <1>3. Typed
    BY TypedIsTypeOK DEF TypeInv
  <1>4. /\ ex'[e] = y /\ \A f \in Execs : f # e => ex'[f] = ex[f]
        /\ shared'[r] = NewRunState /\ \A s \in Runs : s # r => shared'[s] = shared[s]
        /\ \A s \in Runs : start'[s] # "started" => start[s] # "started" /\ s # r
    BY <1>1, <1>2, <1>3 DEF Typed
  <1>5. \A f \in Execs : ex'[f].run = r => f = e
    BY <1>1, <1>4 DEF NotStarted
  <1>6. ASSUME NEW f \in Execs
        PROVE  /\ Active(f)' /\ ex'[f].run # r => ex'[f] = ex[f]
               /\ Active(f) => ex'[f] = ex[f]
               /\ ex'[f].run = ex[f].run \/ ex'[f].run \in {r, "none"}
    BY <1>1, <1>2, <1>4 DEF Active
  <1>7. About(r)
    BY <1>1, <1>4, <1>5, <1>6, SameCalls DEF About
  <1>8. NewRunState.pending = NoTurn /\ NewRunState.status = "Pending"
    BY DEF NewRunState
  <1>9. ExecOK(e)' /\ PendingOK(r)'
    BY <1>2, <1>4, <1>8 DEF ExecOK, PendingOK, Working
  <1>10. /\ \A h \in Handlers : HasCommand(h)' => cmd'[h].run # r
         /\ \A i \in DOMAIN calls' : calls'[i].run # r
    BY <1>1 DEF NotStarted, HasCommand
  <1>11. RunOK(r)'
    BY <1>5, <1>9, <1>10 DEF RunOK
  <1>12. StepsKept
    <2>1. shared[r] = NewRunState
      BY <1>1 DEF NotStarted
    <2> QED
      BY <1>4, <2>1 DEF StepsKept, Keeps
  <1> QED
    BY <1>7, <1>11, <1>12, Elsewhere

\* A run with a record has been started.
LEMMA Registered ==
  ASSUME SoloInv, NEW r \in Runs, r \in registry, NEW s \in Runs, start[s] # "started"
  PROVE  s # r
  BY DEF SoloInv, NotStarted

LEMMA AcceptResumeSolo ==
  ASSUME OneHandler, TypeInv, TypeInv', SoloInv, NEW h \in Handlers, NEW r \in Runs,
         AcceptResume(h, r)
  PROVE  SoloInv' /\ StepsKept
  <1>1. /\ r \in registry /\ shared[r].status = "AwaitingUser" /\ Typed
        /\ UNCHANGED <<registry, start, shared, ex, calls>>
    BY TypedIsTypeOK DEF AcceptResume, TypeInv
  <1>2. PICK c : c.kind = "resume" /\ c.run = r /\ cmd' = [cmd EXCEPT ![h] = c]
    BY DEF AcceptResume, Accept
  <1>3. cmd'[h] = c /\ \A g \in Handlers : g = h
    BY <1>1, <1>2 DEF Typed, OneHandler
  <1>4. ASSUME NEW f \in Execs, Active(f)' PROVE ExecOK(f)'
    BY <1>1, <1>4 DEF SoloInv, Active, ExecOK
  <1>5. About(r)
    <2>1. \A f, g \in Execs : Active(f)' /\ Active(g)' /\ ex'[f].run = r /\ ex'[g].run = r
                                => f = g
      BY <1>1 DEF SoloInv, Solo, Active
    <2>2. \A g \in Handlers : HasCommand(g)' /\ cmd'[g].run # r => cmd'[g] = cmd[g]
      BY <1>2, <1>3
    <2>3. \A s \in Runs : start'[s] # "started" => start[s] # "started" /\ s # r
      BY <1>1, Registered
    <2> QED
      BY <1>1, <2>1, <2>2, <2>3, SameCalls DEF About
  <1>6. ASSUME NEW g \in Handlers PROVE CmdOK(g)'
    BY <1>1, <1>2, <1>3 DEF CmdOK
  <1>7. PendingOK(r)'
    BY <1>1 DEF SoloInv, PendingOK
  <1>8. ASSUME NEW i \in DOMAIN calls' PROVE CallOK(i)'
    BY <1>1 DEF SoloInv, CallOK, Shown, Dead, Active, InFlight
  <1>9. RunOK(r)'
    BY <1>4, <1>6, <1>7, <1>8 DEF RunOK
  <1>10. StepsKept
    BY <1>1 DEF StepsKept, Keeps
  <1> QED
    BY <1>5, <1>9, <1>10, Elsewhere

LEMMA AcceptConfirmSolo ==
  ASSUME OneHandler, TypeInv, TypeInv', SoloInv, NEW h \in Handlers, NEW r \in Runs,
         NEW approved \in BOOLEAN, AcceptConfirm(h, r, approved)
  PROVE  SoloInv' /\ StepsKept
  <1>1. /\ r \in registry /\ shared[r].status = "AwaitingToolApproval" /\ Typed
        /\ UNCHANGED <<registry, start, shared, ex>> /\ calls \in Seq(Call)
    BY TypedIsTypeOK DEF AcceptConfirm, TypeInv, Typed
  <1>2. PICK c : /\ c.kind = "confirm" /\ c.run = r /\ c.approved = approved
                 /\ cmd' = [cmd EXCEPT ![h] = c]
    BY DEF AcceptConfirm, Accept
  <1>3. cmd'[h] = c /\ \A g \in Handlers : g = h
    BY <1>1, <1>2 DEF Typed, OneHandler
  <1>i. PICK i : i = shared[r].pending.id
    OBVIOUS
  <1>n. PICK n \in Nat : n = Len(calls)
    BY IdTypes
  <1>4. /\ DOMAIN calls = 1 .. n /\ DOMAIN calls' = 1 .. n /\ i \in 0 .. n
        /\ \A j \in 1 .. n : j # i => calls'[j] = calls[j]
        /\ i \in 1 .. n =>
             \/ ~(approved /\ shared[r].pending # NoTurn) /\ calls'[i] = calls[i]
             \/ calls'[i] = [calls[i] EXCEPT !.approved = TRUE]
    BY SMTT(30), <1>1, <1>i, <1>n, ConfirmEffect, LenProperties
  <1>5. /\ PendingOK(r)
        /\ shared[r].pending # NoTurn =>
             /\ i \in 1 .. n /\ calls[i].run = r /\ calls[i].ran = 0
             /\ calls[i].policy = "OnRequest"
        /\ shared[r].pending = NoTurn => i = 0
    BY <1>4, <1>i DEF SoloInv, PendingOK, NoTurn
  <1>6. i \in 1 .. n =>
          /\ calls'[i].run = r /\ calls'[i].ran = 0 /\ calls'[i].policy = "OnRequest"
          /\ approved => calls'[i].approved
    <2> SUFFICES ASSUME i \in 1 .. n
                 PROVE  /\ calls'[i].run = r /\ calls'[i].ran = 0
                        /\ calls'[i].policy = "OnRequest"
                        /\ approved => calls'[i].approved
      OBVIOUS
    <2>1. shared[r].pending # NoTurn
      BY <1>5
    <2>2. CASE ~approved /\ calls'[i] = calls[i]
      BY <1>5, <2>1, <2>2
    <2>3. CASE calls'[i] = [calls[i] EXCEPT !.approved = TRUE]
      <3> DEFINE d == calls[i]
                 dd == [d EXCEPT !.approved = TRUE]
      <3>1. d \in Call
        BY <1>1, <1>n, ElementOfSeq
      <3>2. d.run = r /\ d.ran = 0 /\ d.policy = "OnRequest"
        BY <1>5, <2>1
      <3> HIDE DEF d
      <3>3. /\ dd.run = r /\ dd.ran = 0 /\ dd.policy = "OnRequest" /\ dd.approved
        BY <3>1, <3>2 DEF Call
      <3>4. calls'[i] = dd
        BY <2>3 DEF d
      <3> QED
        BY <3>3, <3>4
    <2> QED
      BY <1>4, <2>1, <2>2, <2>3
  <1>7. CallsKept(r)
    BY <1>4, <1>5, <1>6 DEF CallsKept
  <1>8. ASSUME NEW f \in Execs, Active(f), ex[f].run = r PROVE FALSE
    BY <1>1, <1>8 DEF SoloInv, ExecOK, Working
  <1>9. \A f \in Execs : ~(Active(f)' /\ ex'[f].run = r)
    BY <1>1, <1>8 DEF Active
  <1>10. About(r)
    <2>1. \A g \in Handlers : HasCommand(g)' /\ cmd'[g].run # r => cmd'[g] = cmd[g]
      BY <1>2, <1>3
    <2>2. \A s \in Runs : start'[s] # "started" => start[s] # "started" /\ s # r
      BY <1>1, Registered
    <2> QED
      BY <1>1, <1>7, <1>9, <2>1, <2>2 DEF About
  <1>11. ASSUME NEW g \in Handlers PROVE CmdOK(g)'
    BY <1>1, <1>2, <1>3, <1>5, <1>6, <1>i DEF CmdOK
  <1>12. PendingOK(r)'
    BY <1>1, <1>5, <1>6, <1>i DEF PendingOK
  <1>13. ASSUME NEW j \in DOMAIN calls' PROVE CallOK(j)'
    <2>1. CASE j = i
      BY <1>4, <1>6, <2>1 DEF CallOK, Allowed
    <2>2. CASE j # i
      <3>1. calls'[j] = calls[j] /\ CallOK(j)
        BY <1>4, <2>2 DEF SoloInv
      <3> QED
        BY <1>1, <3>1 DEF CallOK, Shown, Dead, Active, InFlight
    <2> QED
      BY <2>1, <2>2
  <1>14. RunOK(r)'
    BY <1>9, <1>11, <1>12, <1>13 DEF RunOK
  <1>15. StepsKept
    BY <1>1 DEF StepsKept, Keeps
  <1> QED
    BY <1>10, <1>14, <1>15, Elsewhere

LEMMA SpawnCommandSolo ==
  ASSUME OneHandler, TypeInv, TypeInv', SoloInv, NEW h \in Handlers, NEW e \in Execs,
         SpawnCommand(h, e)
  PROVE  SoloInv' /\ StepsKept
  <1>1. /\ Typed /\ HasCommand(h) /\ ex[e].pc = "idle" /\ cmd[h].run \in Runs
        /\ UNCHANGED <<registry, start, calls>>
    BY TypedIsTypeOK, SpawnEffect DEF SpawnCommand, TypeInv, HasCommand
  <1>2. PICK r \in Runs : cmd[h].run = r
    BY <1>1
  <1>3. PICK y : /\ y.pc = "spawned" /\ y.run = r /\ y.kind = cmd[h].kind
                 /\ y.approved = cmd[h].approved /\ ex' = [ex EXCEPT ![e] = y]
    BY <1>2, SpawnEffect
  <1>4. \A g \in Handlers : ~HasCommand(g)'
    BY SpawnEffect DEF OneHandler, HasCommand
  <1> DEFINE st == StateOf("Planning", shared[r].steps, shared[r].pending)
  <1>5. shared' = [shared EXCEPT ![r] = st]
    BY <1>2, SpawnEffect
  <1>6. st.status \in Working /\ st.steps = shared[r].steps /\ st.pending = shared[r].pending
        /\ st.status # "AwaitingUser"
    BY DEF StateOf, Working
  <1> HIDE DEF st
  <1>7. /\ ex'[e] = y /\ \A f \in Execs : f # e => ex'[f] = ex[f]
        /\ shared'[r] = st /\ \A s \in Runs : s # r => shared'[s] = shared[s]
    BY <1>1, <1>3, <1>5 DEF Typed
  <1>8. CmdOK(h) /\ PendingOK(r) /\ cmd[h].kind \in {"resume", "confirm"}
    BY <1>1, <1>2 DEF SoloInv, Typed, Command, HasCommand
  <1>9. ASSUME NEW f \in Execs, Active(f) PROVE ex[f].run # r
    BY <1>1, <1>2, <1>9, BusyRun
  <1>10. \A f \in Execs : Active(f)' /\ ex'[f].run = r => f = e
    BY <1>7, <1>9 DEF Active
  <1>11. About(r)
    <2>1. ASSUME NEW f \in Execs
          PROVE  /\ Active(f)' /\ ex'[f].run # r => ex'[f] = ex[f]
                 /\ Active(f) => ex'[f] = ex[f]
                 /\ ex'[f].run = ex[f].run \/ ex'[f].run \in {r, "none"}
      BY <1>1, <1>3, <1>7 DEF Active
    <2>2. \A s \in Runs : start'[s] # "started" => start[s] # "started" /\ s # r
      BY <1>1, <1>2 DEF SoloInv, NotStarted
    <2> QED
      BY <1>1, <1>4, <1>7, <1>10, <2>1, <2>2, SameCalls DEF About
  <1>12. ExecOK(e)'
    <2>1. shared[r].pending # NoTurn =>
            /\ cmd[h].kind = "confirm"
            /\ cmd[h].approved => calls[shared[r].pending.id].approved
      BY <1>2, <1>8 DEF CmdOK, PendingOK
    <2> QED
      BY <1>1, <1>3, <1>6, <1>7, <1>8, <2>1 DEF ExecOK
  <1>13. PendingOK(r)'
    BY <1>1, <1>6, <1>7, <1>8 DEF PendingOK
  <1>14. ASSUME NEW i \in DOMAIN calls', calls'[i].run = r PROVE CallOK(i)'
    <2>1. CallOK(i) /\ ~Dead(r)
      BY <1>1, <1>2, <1>8 DEF SoloInv, CmdOK, Dead, Awaiting
    <2>2. Shown(i) => Shown(i)'
      BY <1>1, <1>6, <1>7, <1>14 DEF Shown
    <2>3. ~InFlight(i)
      BY <1>1, <1>9, <1>14 DEF InFlight, Active
    <2> QED
      BY <1>1, <1>14, <2>1, <2>2, <2>3 DEF CallOK
  <1>15. RunOK(r)'
    BY <1>4, <1>10, <1>12, <1>13, <1>14 DEF RunOK
  <1>16. StepsKept
    BY <1>6, <1>7 DEF StepsKept, Keeps
  <1> QED
    BY <1>11, <1>15, <1>16, Elsewhere

LEMMA NextSolo ==
  ASSUME OneHandler, TypeInv, TypeInv', SoloInv, [Next]_vars
  PROVE  SoloInv' /\ StepsKept
  <1>1. CASE UNCHANGED vars
    BY <1>1, StillSolo DEF vars
  <1>2. ASSUME NEW r \in Runs, SupersedeRuns(r) PROVE SoloInv' /\ StepsKept
    <2>1. \A s \in Runs : start'[s] # "started" => start[s] # "started"
      BY <1>2, TypedIsTypeOK DEF SupersedeRuns, TypeInv, Typed
    <2> QED
      BY <1>2, <2>1, StillSolo DEF SupersedeRuns
  <1>3. ASSUME NEW r \in Runs, CancelRun(r) PROVE SoloInv' /\ StepsKept
    BY <1>3, StillSolo DEF CancelRun
  <1>4. ASSUME NEW e \in Execs, ExecStep(e) PROVE SoloInv' /\ StepsKept
    BY <1>4, ReadSharedSolo, BeginLoopSolo, BeginPendingSolo, LoopTopSolo, PlanFailsSolo,
       PlanUnparsableSolo, PlanSolo, ToolReturnsSolo, ToolResentSolo, ToolFailsSolo, RemoveRunSolo
       DEF ExecStep
  <1> QED
    BY <1>1, <1>2, <1>3, <1>4, InsertRunSolo, AcceptResumeSolo, AcceptConfirmSolo,
       SpawnCommandSolo DEF Next

-----------------------------------------------------------------------------
(* The theorems for commands that do not overlap.                          *)

LEMMA CallsInOrder ==
  ASSUME TypeInv, SoloInv
  PROVE  ToolsRunWithConsent /\ AllowOnce /\ PausedRunsShowTheirEffects
  <1>1. \A i \in DOMAIN calls : CallOK(i)
    BY DEF SoloInv
  <1>2. ToolsRunWithConsent /\ AllowOnce
    BY <1>1 DEF ToolsRunWithConsent, AllowOnce, CallOK, Allowed, Consent
  <1>3. ASSUME NEW i \in DOMAIN calls, calls[i].ran > 0,
               shared[calls[i].run].status \in Awaiting \cup {"Completed"}
        PROVE  Shown(i)
    <2>1. ~InFlight(i)
      <3>1. ASSUME NEW e \in Execs, ex[e].pc = "resent", ex[e].run = calls[i].run
            PROVE  FALSE
        BY <1>3, <3>1 DEF SoloInv, Active, ExecOK, Working, Awaiting
      <3> QED
        BY <3>1 DEF InFlight
    <2> QED
      BY <1>1, <1>3, <2>1 DEF CallOK, Allowed, Dead
  <1> QED
    BY <1>2, <1>3 DEF PausedRunsShowTheirEffects, Shown

LEMMA Solos == OneHandler /\ Spec => [](OneHandler /\ TypeInv /\ SoloInv)
  <1>1. OneHandler /\ Init => OneHandler /\ TypeInv /\ SoloInv
    BY InitType, InitSolo
  <1>2. OneHandler /\ TypeInv /\ SoloInv /\ [Next]_vars
          => OneHandler' /\ TypeInv' /\ SoloInv'
    <2>1. OneHandler => OneHandler'
      BY DEF OneHandler
    <2> QED
      BY <2>1, NextType, NextSolo
  <1> QED
    BY <1>1, <1>2, PTL DEF Spec

\* An edit or a command runs only with full access, or after the user allowed
\* that very call while it was pending: of the copies of a run's state that
\* commands and tasks hold, only one is ever acted on.
THEOREM ToolsHaveConsent == OneHandler /\ Spec => []ToolsRunWithConsent
  BY Solos, CallsInOrder, PTL

\* An edit or command the model asked for runs once, or twice when its request
\* was sent again after a disconnect: a confirmation takes the pending call out
\* of the state before the tool starts.
THEOREM AllowedOnce == OneHandler /\ Spec => []AllowOnce
  BY Solos, CallsInOrder, PTL

\* Whatever ran is among the steps of a run that waits or completed, so the next
\* plan is made from a history that has it.
THEOREM EffectsAreShown == OneHandler /\ Spec => []PausedRunsShowTheirEffects
  BY Solos, CallsInOrder, PTL

LEMMA KeptIsPrefix ==
  ASSUME NEW S, NEW T, NEW q \in Seq(S), NEW qq \in Seq(T), Keeps(q, qq)
  PROVE  IsPrefix(q, qq)
  <1>1. Len(q) \in Nat /\ Len(qq) \in Nat /\ DOMAIN q = 1 .. Len(q)
        /\ DOMAIN qq = 1 .. Len(qq)
    BY LenProperties
  <1>2. Len(q) <= Len(qq)
    BY <1>1 DEF Keeps
  <1>3. \A k \in 1 .. Len(q) : qq[k] = q[k]
    BY <1>1 DEF Keeps
  <1>4. SubSeq(q, 1, Len(q)) = SubSeq(qq, 1, Len(q))
    BY <1>1, <1>2, <1>3
  <1> QED
    BY <1>2, <1>4 DEF IsPrefix

\* The steps shown for a run are only ever added to: a task copies its own state
\* over the shared one, and it is never an older one.
THEOREM StepsOnlyGrow == OneHandler /\ Spec => StepsAreKept
  <1> DEFINE Grows == \A r \in Runs : IsPrefix(shared[r].steps, shared'[r].steps)
  <1>1. OneHandler /\ TypeInv /\ SoloInv /\ [Next]_vars => [Grows]_vars
    <2> SUFFICES ASSUME OneHandler, TypeInv, SoloInv, Next PROVE Grows
      OBVIOUS
    <2>1. TypeInv' /\ StepsKept
      BY NextType, NextSolo
    <2>2. Typed /\ Typed' /\ Len(calls) \in Nat /\ Len(calls') \in Nat
      BY <2>1, TypedIsTypeOK, LenProperties DEF TypeInv, Typed
    <2>3. ASSUME NEW r \in Runs
          PROVE  /\ shared[r].steps \in Seq(TurnTo(Len(calls)) \ {NoTurn})
                 /\ shared'[r].steps \in Seq(TurnTo(Len(calls')) \ {NoTurn})
      <3>1. shared[r] \in StateTo(Len(calls)) /\ shared'[r] \in StateTo(Len(calls'))
        BY <2>2 DEF Typed
      <3> QED
        BY <2>2, <3>1, StateFacts
    <2> QED
      BY <2>1, <2>3, KeptIsPrefix DEF StepsKept
  <1> QED
    BY <1>1, Solos, PTL DEF Spec, StepsAreKept
=============================================================================
