------------------------------- MODULE Runner -------------------------------
(***************************************************************************)
(* runner.py: _execute and _shutdown, the life of one trial.  The event    *)
(* loop is seen from outside: one action per callback it executes, which   *)
(* one is left open (EventLoop has the details).  A task is runnable if    *)
(* the loop holds a callback or a timer for it, blocked otherwise; plain   *)
(* callbacks belong to no task, and nothing cancels them.                  *)
(***************************************************************************)
EXTENDS Integers, FiniteSets

CONSTANTS
    Task, Main,     \* tasks alive at a time; the one that runs the scenario
    MaxSteps,       \* scenario budget
    CleanupLimit,   \* cap on teardown steps (10_000 in the code)
    MaxGenerators,  \* bound: asynchronous generators open at a time
    Oracles         \* number of oracles

ASSUME RunnerAssumption ==
    /\ Main \in Task /\ IsFiniteSet(Task)
    /\ MaxSteps \in Nat \ {0} /\ CleanupLimit \in Nat \ {0}
    /\ MaxGenerators \in Nat /\ Oracles \in Nat

VARIABLES
    stage,         \* what _execute is doing, see Stages
    running,       \* inside run_until_complete
    hook,          \* oracles whose hook of this stage was called
    runnable,      \* pending tasks the loop can run
    blocked,       \* pending tasks that wait for somebody
    callbacks,     \* the loop holds plain callbacks or timers of the program
    failed,        \* done tasks whose exception nobody has observed yet
    joining,       \* the tasks _join_cancelled waits for
    generators,    \* open asynchronous generators
    stuck,         \* aclose of a generator waits for somebody
    steps, cleanupSteps,
    exceptions,    \* loop.exceptions is not empty
    finding,       \* a FAILURE finding was recorded
    error,         \* the local variable error, by class
    unswept,       \* history: pending tasks that were left by the scenario, or
                   \* started by the cleanup before it comes to the executor
    loose,         \* history: a task failed that nobody awaits or joins
    interrupted    \* history: KeyboardInterrupt or SystemExit was raised

controlVars == <<stage, running, hook>>
taskVars    == <<runnable, blocked, callbacks, failed>>
cleanVars   == <<joining, generators, stuck, unswept>>
countVars   == <<steps, cleanupSteps>>
verdictVars == <<exceptions, finding, error, loose, interrupted>>
vars == <<controlVars, taskVars, cleanVars, countVars, verdictVars>>

Stages == {"on_start", "main", "on_finish", "sweep", "generators", "resweep",
           "executor", "close", "done"}

\* "loop": Deadlock, an exhausted budget or a bad choice; "control":
\* KeyboardInterrupt or SystemExit; "background": an exception nobody observed.
ErrorClasses == {"none", "scenario", "invalid", "loop", "oracle", "control", "background"}

pending == runnable \cup blocked

----------------------------------------------------------------------------
(* Errors *)

\* Mutants: an interrupt does not displace an earlier error; the last error
\* displaces every other.
FirstOnly(caught) == IF error = "none" THEN caught ELSE error
LastOnly(caught) == caught

\* What becomes of error when caught is raised after the main run.
Preferred(caught) ==
    IF error = "none" \/ caught = "control" THEN caught ELSE error

Interrupts(caught) == interrupted' = (interrupted \/ caught = "control")

\* Mutant: exceptions are collected before the verdicts only.
CollectOnce(unobserved) ==
    /\ failed' = {}
    /\ exceptions' = (exceptions \/ (stage # "close" /\ unobserved # {}))

\* collect_task_errors
Collect(unobserved) ==
    /\ failed' = {}
    /\ exceptions' = (exceptions \/ unobserved # {})

\* The main run is over: with a value or an abort ("none"), or by an exception.
\* Oracles are asked for a verdict unless the process is to end.
LeaveMain(caught, unobserved) ==
    /\ error' = caught /\ Interrupts(caught)
    /\ Collect(unobserved)
    /\ stage' = "on_finish" /\ running' = FALSE
    /\ hook' = IF caught \in {"control", "invalid"} THEN Oracles ELSE 0

\* An exception ends _shutdown: what it had left to do is not done.
LeaveShutdown(caught, unobserved) ==
    /\ error' = Preferred(caught) /\ Interrupts(caught)
    /\ failed' = unobserved
    /\ stage' = "close" /\ running' = FALSE
    /\ UNCHANGED <<hook, exceptions>>

\* An exception leaves run_until_complete.
LeaveRun(caught, unobserved) ==
    IF stage = "main" THEN LeaveMain(caught, unobserved)
                      ELSE LeaveShutdown(caught, unobserved)

----------------------------------------------------------------------------
(* Before the run *)

OnStart ==
    /\ stage = "on_start" /\ hook < Oracles
    /\ hook' = hook + 1
    /\ UNCHANGED <<stage, running, taskVars, cleanVars, countVars, verdictVars>>

OnStartRaises(caught) ==
    /\ stage = "on_start" /\ hook < Oracles
    /\ LeaveMain(caught, failed)
    /\ UNCHANGED <<runnable, blocked, callbacks, cleanVars, countVars, finding, loose>>

CreateMain ==
    /\ stage = "on_start" /\ hook = Oracles
    /\ stage' = "main" /\ running' = TRUE
    /\ runnable' = {Main}
    /\ UNCHANGED <<hook, blocked, callbacks, failed, cleanVars, countVars, verdictVars>>

----------------------------------------------------------------------------
(* Callbacks executed by the loop *)

\* Mutant: teardown is not bounded.
Unbounded == stage = "main" => steps < MaxSteps

WithinBudget ==
    IF stage = "main" THEN steps < MaxSteps ELSE cleanupSteps < CleanupLimit

Capped(n, limit) == IF n < limit THEN n + 1 ELSE n

Count ==
    IF stage = "main"
    THEN steps' = Capped(steps, MaxSteps) /\ UNCHANGED cleanupSteps
    ELSE cleanupSteps' = Capped(cleanupSteps, CleanupLimit) /\ UNCHANGED steps

\* A generator opened before shutdown_asyncgens takes its snapshot, be it by a
\* cancelled task, is closed by it.  Those opened later are beyond this model.
MayOpen == stage \in {"main", "sweep"} /\ generators < MaxGenerators

Opens == generators' \in {generators} \cup (IF MayOpen THEN {generators + 1} ELSE {})

\* What user code may do to tasks in one callback, whoever executes it: create
\* some and wake others.  If it is a step of a task, ran = {that task}, and the
\* step says what becomes of it.
UserCode(ran, becomes) ==
    \E woken \in SUBSET blocked,
       spawned \in SUBSET (Task \ (pending \cup failed \cup joining \cup {Main})) :
       /\ runnable' = (runnable \ ran) \cup woken \cup spawned
                          \cup (IF becomes = "runnable" THEN ran ELSE {})
       /\ blocked' = (blocked \ woken) \cup (IF becomes = "blocked" THEN ran ELSE {})
       /\ unswept' = (unswept \ (IF becomes \in {"runnable", "blocked"} THEN {} ELSE ran))
                         \cup (IF stage \in {"sweep", "generators", "resweep"} THEN spawned
                                                                         ELSE {})

\* A step of task t: it goes on, waits, fails with an exception that the program
\* does not look at, or ends in another way.  A cancelled task may do all of this.
TaskSteps(t, becomes) ==
    /\ running /\ t \in runnable /\ WithinBudget /\ Count
    /\ UserCode({t}, becomes) /\ Opens
    /\ callbacks' \in {callbacks, TRUE}
    /\ failed' = failed \cup (IF becomes = "failed" THEN {t} ELSE {})
    /\ loose' = (loose \/ (becomes = "failed" /\ t \notin joining))
    /\ stuck' \in {stuck, FALSE}
    /\ UNCHANGED <<controlVars, joining, exceptions, finding, error, interrupted>>

\* A plain callback or timer, which may leave others; what it raises goes to the
\* exception handler.
CallbackRuns ==
    /\ running /\ callbacks /\ WithinBudget /\ Count
    /\ UserCode({}, "done") /\ Opens
    /\ callbacks' \in BOOLEAN
    /\ stuck' \in {stuck, FALSE}
    /\ exceptions' \in {exceptions, TRUE}
    /\ UNCHANGED <<controlVars, failed, joining, finding, error, loose, interrupted>>

\* KeyboardInterrupt or SystemExit leaves the loop: out of a plain callback (ran is
\* empty), or out of a task, which has it as its exception.
Interrupt(ran) ==
    /\ running /\ WithinBudget /\ Count
    /\ UserCode(ran, "failed")
    /\ callbacks' \in {callbacks, TRUE}
    /\ LeaveRun("control", failed \cup ran)
    /\ UNCHANGED <<joining, generators, stuck, finding, loose>>

TaskInterrupts(t) == t \in runnable /\ Interrupt({t})

CallbackInterrupts == callbacks /\ Interrupt({})

\* The runner's own coroutine, or the callback that stops the loop, can run.
RunnerRuns ==
    CASE stage = "main"                -> Main \notin pending
      [] stage \in {"sweep", "resweep"} -> joining \cap pending = {}
      [] stage = "generators"          -> ~stuck
      [] OTHER                         -> stage = "executor"

\* Deadlock, an exhausted step budget, or the RuntimeError of a loop that a
\* callback stopped; while the scenario is recorded also TimeBudgetExceeded,
\* ReplayMismatch and the choice of a bad index.
LoopRaises ==
    /\ running
    /\ \/ runnable = {} /\ ~callbacks /\ ~RunnerRuns
       \/ ~WithinBudget /\ (runnable # {} \/ callbacks \/ RunnerRuns)
       \/ stage = "main" \/ cleanupSteps > 0
    /\ LeaveRun("loop", failed)
    /\ UNCHANGED <<runnable, blocked, callbacks, cleanVars, countVars, finding, loose>>

\* step_hook or compact_hook, after any step of the scenario: a FAILURE finding
\* aborts the run, an oracle that raises ends it.
HookAborts ==
    /\ running /\ stage = "main" /\ steps > 0 /\ Oracles > 0
    /\ finding' = TRUE
    /\ LeaveMain("none", failed)
    /\ UNCHANGED <<runnable, blocked, callbacks, cleanVars, countVars, loose>>

HookRaises(caught) ==
    /\ running /\ stage = "main" /\ steps > 0 /\ Oracles > 0
    /\ LeaveMain(caught, failed)
    /\ UNCHANGED <<runnable, blocked, callbacks, cleanVars, countVars, finding, loose>>

\* run_until_complete(main) returns and observes the result of main: a value,
\* an exception or CancelledError, or the misuse of trial, which leaves no task.
MainReturns ==
    /\ running /\ stage = "main" /\ RunnerRuns /\ WithinBudget /\ Count
    /\ \E caught \in IF Main \notin failed THEN {"none", "scenario"}
                     ELSE IF pending # {} THEN {"scenario"} ELSE {"scenario", "invalid"} :
           LeaveMain(caught, failed \ {Main})
    /\ UNCHANGED <<runnable, blocked, callbacks, cleanVars, finding, loose>>

----------------------------------------------------------------------------
(* After the run: verdicts, then _shutdown *)

OnFinish(caught) ==
    /\ stage = "on_finish" /\ hook < Oracles
    /\ hook' = hook + 1
    /\ IF caught = "none"
       THEN finding' \in {finding, TRUE} /\ UNCHANGED error
       ELSE error' = Preferred(caught) /\ UNCHANGED finding
    /\ Interrupts(caught)
    /\ UNCHANGED <<stage, running, taskVars, cleanVars, countVars, exceptions, loose>>

BeginShutdown ==
    /\ stage = "on_finish" /\ hook = Oracles
    /\ stage' = "sweep"
    /\ unswept' = pending
    /\ UNCHANGED <<running, hook, taskVars, joining, generators, stuck, countVars,
                   verdictVars>>

\* Mutant: there is no second sweep.
LeftOnce == IF stage = "sweep" THEN pending ELSE {}

\* What a sweep still has to cancel.
Left == pending

\* while pending: every pending task is cancelled, and joined by gather.
CancelAndJoin ==
    /\ stage \in {"sweep", "resweep"} /\ ~running /\ Left # {}
    /\ running' = TRUE
    /\ joining' = Left
    /\ runnable' = pending /\ blocked' = {}
    /\ UNCHANGED <<stage, hook, callbacks, failed, generators, stuck, unswept, countVars,
                   verdictVars>>

SweepEnds ==
    /\ stage \in {"sweep", "resweep"} /\ ~running /\ Left = {}
    /\ stage' = IF stage = "sweep" THEN "generators" ELSE "executor"
    /\ running' = TRUE
    /\ UNCHANGED <<hook, taskVars, cleanVars, countVars, verdictVars>>

\* gather(return_exceptions=True) has observed the exceptions of its tasks.
JoinReturns ==
    /\ stage \in {"sweep", "resweep"} /\ running /\ RunnerRuns /\ WithinBudget /\ Count
    /\ running' = FALSE
    /\ failed' = failed \ joining
    /\ joining' = {}
    /\ UNCHANGED <<stage, hook, runnable, blocked, callbacks, generators, stuck, unswept,
                   verdictVars>>

\* shutdown_asyncgens awaits aclose() of the next generator, whose finally blocks
\* are user code: it returns, raises (reported to the exception handler), goes on
\* later or waits for somebody.
CloseGenerator(how) ==
    /\ stage = "generators" /\ running /\ RunnerRuns /\ WithinBudget /\ Count
    /\ generators > 0
    /\ UserCode({}, "done")
    /\ callbacks' \in {callbacks, TRUE}
    /\ generators' = IF how \in {"closed", "raised"} THEN generators - 1 ELSE generators
    /\ exceptions' = (exceptions \/ how = "raised")
    /\ stuck' = (how = "waits")
    /\ UNCHANGED <<controlVars, failed, joining, finding, error, loose, interrupted>>

GeneratorInterrupts ==
    /\ stage = "generators" /\ RunnerRuns /\ generators > 0
    /\ Interrupt({})

GeneratorsReturn ==
    /\ stage = "generators" /\ running /\ RunnerRuns /\ WithinBudget /\ Count
    /\ generators = 0
    /\ stage' = "resweep" /\ running' = FALSE
    /\ UNCHANGED <<hook, taskVars, cleanVars, verdictVars>>

ExecutorReturns ==
    /\ stage = "executor" /\ running /\ WithinBudget /\ Count
    /\ stage' = "close" /\ running' = FALSE
    /\ UNCHANGED <<hook, taskVars, cleanVars, verdictVars>>

\* The loop is closed, and the Trial built or the exception raised.
Close ==
    /\ stage = "close"
    /\ stage' = "done"
    /\ Collect(failed)
    /\ error' = IF error = "none" /\ exceptions' THEN "background" ELSE error
    /\ UNCHANGED <<running, hook, runnable, blocked, callbacks, cleanVars, countVars, finding,
                   loose, interrupted>>

----------------------------------------------------------------------------
Init ==
    /\ stage = "on_start" /\ running = FALSE /\ hook = 0
    /\ runnable = {} /\ blocked = {} /\ callbacks = FALSE /\ failed = {}
    /\ joining = {} /\ generators = 0 /\ stuck = FALSE /\ unswept = {}
    /\ steps = 0 /\ cleanupSteps = 0
    /\ exceptions = FALSE /\ finding = FALSE /\ error = "none"
    /\ loose = FALSE /\ interrupted = FALSE

LoopStep ==
    \/ \E t \in Task : TaskInterrupts(t)
    \/ \E t \in Task, becomes \in {"runnable", "blocked", "done", "failed"} :
           TaskSteps(t, becomes)
    \/ CallbackRuns \/ CallbackInterrupts
    \/ LoopRaises

MainRun ==
    \/ OnStart \/ CreateMain \/ HookAborts \/ MainReturns
    \/ \E caught \in {"oracle", "control"} : OnStartRaises(caught) \/ HookRaises(caught)

Shutdown ==
    \/ \E caught \in {"none", "oracle", "control"} : OnFinish(caught)
    \/ BeginShutdown
    \/ CancelAndJoin \/ JoinReturns \/ SweepEnds
    \/ \E how \in {"closed", "raised", "later", "waits"} : CloseGenerator(how)
    \/ GeneratorInterrupts \/ GeneratorsReturn \/ ExecutorReturns
    \/ Close

Next == MainRun \/ LoopStep \/ Shutdown

\* One thread, and callbacks that return: as long as there is a next step, it
\* is taken.
Spec == Init /\ [][Next]_vars /\ WF_vars(Next)

----------------------------------------------------------------------------
(* Properties *)

\* The variables have their types.
TypeOK ==
    /\ stage \in Stages /\ running \in BOOLEAN /\ hook \in 0..Oracles
    /\ runnable \subseteq Task /\ blocked \subseteq Task /\ failed \subseteq Task
    /\ callbacks \in BOOLEAN /\ loose \in BOOLEAN
    /\ joining \subseteq Task /\ unswept \subseteq Task
    /\ generators \in 0..MaxGenerators /\ stuck \in BOOLEAN
    /\ steps \in 0..MaxSteps /\ cleanupSteps \in 0..CleanupLimit
    /\ exceptions \in BOOLEAN /\ finding \in BOOLEAN /\ interrupted \in BOOLEAN
    /\ error \in ErrorClasses

\* KeyboardInterrupt and SystemExit always reach the caller of trial, wherever
\* they are raised: in a hook, the scenario, a verdict or the cleanup, and
\* whatever was raised before.
InterruptPropagates == stage = "done" /\ interrupted => error = "control"

\* The first error of a trial is the one it reports: what goes wrong later, in
\* verdicts and cleanup, displaces it only if it must end the process.
FirstErrorReported ==
    [][error # "none" /\ error' # error => error' = "control"]_vars

\* No exception is lost between the two collections: once a task has failed that
\* nobody awaits and no sweep was joining, be it left over, started by a cancelled
\* task or by a generator as it was closed, the trial does not pass.  What gather
\* joins may fail unseen.
FailureReported == stage = "done" /\ loose => error # "none"

\* A trial without an error has cleaned up: every task the scenario left was
\* cancelled and joined, and so was every task started by those or by generators
\* as they were closed; and every generator is closed.
PassingTrialIsClean ==
    stage = "done" /\ error = "none" => unswept = {} /\ generators = 0

\* Every trial ends, whatever its tasks do when they are cancelled.
Terminates == <>(stage = "done")

=============================================================================
