----------------------------- MODULE EventLoop -----------------------------
(***************************************************************************)
(* ChaosEventLoop (loop.py) and VirtualClock (clock.py): the replacement   *)
(* of asyncio's _run_once that executes one callback per call, the one the *)
(* scheduler picks, and moves virtual time only when nothing is runnable.  *)
(*                                                                         *)
(* The scenario is any program: while a callback runs it may call          *)
(* call_soon, call_at, Handle.cancel and stop, finish the awaited future,  *)
(* return or raise.  Handles are numbered in creation order, so the number *)
(* of a timer also orders it as _OrderedTimer.order does.                  *)
(***************************************************************************)
EXTENDS Integers, FiniteSets, Sequences, SequencesExt

CONSTANTS
    MaxHandles,    \* bound: callbacks a behaviour may create
    MaxWhen,       \* bound: largest timer deadline
    MaxRuns,       \* bound: calls of run_until_complete
    MaxSteps,      \* max_steps of the loop
    TimeLimit,     \* max_time of the clock: {} for None, {t} for t
    CleanupLimit,  \* cap on teardown steps (10_000 in the code)
    Fifo,          \* TRUE: the Fifo scheduler; FALSE: any scheduler
    StopPhases     \* when user code calls stop(): "before" the first run, or
                   \* in a callback of the "scenario" or of the "cleanup"

ASSUME ConstantsAssumption ==
    /\ MaxHandles \in Nat /\ MaxWhen \in Nat /\ MaxRuns \in Nat
    /\ MaxSteps \in Nat \ {0}
    /\ TimeLimit \subseteq Nat /\ \A s, t \in TimeLimit : s = t
    /\ CleanupLimit \in Nat \ {0}
    /\ Fifo \in BOOLEAN
    /\ StopPhases \subseteq {"before", "scenario", "cleanup"}

VARIABLES
    created,         \* handles constructed so far: 1..created
    kind, when,      \* per handle: what it is; the deadline of a timer
    cancelled,       \* handles with _cancelled set
    ready,           \* _ready, the deque of runnable handles
    scheduled,       \* _scheduled, the timer heap
    armed,           \* timers whose own _scheduled flag is set
    cancelledCount,  \* _timer_cancelled_count
    stopping,        \* _stopping
    turnPending,     \* _turn_pending: handles of the current timer turn
    recording,       \* _recording: scenario phase, not cleanup
    steps,           \* _steps
    cleanupSteps,    \* _cleanup_steps
    now,             \* VirtualClock.now
    maxTime,         \* VirtualClock.max_time
    pc,              \* where control is
    current,         \* _current_handle, 0 for None
    future,          \* the future run_until_complete waits for
    runs,            \* calls of run_until_complete so far
    outcome,         \* how the latest run_until_complete ended
    ran              \* history: handles whose callback was started

handleVars == <<created, kind, when>>
timerVars  == <<scheduled, armed, cancelledCount>>
clockVars  == <<now, maxTime>>
budgetVars == <<recording, steps, cleanupSteps, ran>>
runVars    == <<future, runs, outcome>>
vars == <<handleVars, cancelled, ready, timerVars, stopping, turnPending,
          budgetVars, clockVars, pc, current, runVars>>

Handle   == 1..MaxHandles
Errors   == {"Deadlock", "TimeBudget", "StepBudget", "BadChoice",
             "Interrupt", "Abort"}
Outcomes == {"none", "returned", "stopped"} \cup Errors

----------------------------------------------------------------------------
(* The queues *)

Live(S) == S \ cancelled

\* The order of the timer heap: deadline, then registration.
Before(t, u) == when[t] < when[u] \/ (when[t] = when[u] /\ t < u)

\* The sequences that list the set S once each, in the order Precedes.
Listings(S, Precedes(_, _)) ==
    {p \in [1..Cardinality(S) -> S] :
        /\ \A x \in S : \E i \in DOMAIN p : p[i] = x
        /\ \A i, j \in DOMAIN p : i < j => Precedes(p[i], p[j])}

\* Mutant: cancelled handles are offered to the scheduler too.
CandidatesWithCancelled == DOMAIN ready

\* Raw indices of the runnable handles of _ready.
Candidates == {i \in DOMAIN ready : ready[i] \notin cancelled}

\* The raw indices the scheduler may return.
Selectable ==
    IF Fifo \/ ~recording
    THEN {i \in Candidates : \A j \in Candidates : i <= j}
    ELSE Candidates

\* Mutant: cancelled handles keep a turn open.
TurnEmpty == turnPending = {}

\* No handle of the current turn is left to run: timers may be promoted.
TurnExhausted == Live(turnPending) = {}

Phase == CASE ~recording -> "cleanup"
           [] recording /\ pc = "idle" /\ runs = 0 -> "before"
           [] recording /\ pc = "idle" /\ runs > 0 -> "after"
           [] OTHER -> "scenario"

----------------------------------------------------------------------------
(* Calls made by scenario callbacks, and by the runner between two runs *)

InUserCode == pc \in {"idle", "callback"}

NewHandle(k, w) ==
    /\ created < MaxHandles
    /\ created' = created + 1
    /\ kind' = [kind EXCEPT ![created + 1] = k]
    /\ when' = [when EXCEPT ![created + 1] = w]

CallSoon ==
    /\ InUserCode
    /\ NewHandle("soon", 0)
    /\ ready' = Append(ready, created + 1)
    /\ UNCHANGED <<cancelled, timerVars, stopping, turnPending, budgetVars,
                   clockVars, pc, current, runVars>>

CallAt(w) ==
    /\ InUserCode
    /\ NewHandle("timer", w)
    /\ armed' = armed \cup {created + 1}
    /\ scheduled' = scheduled \cup {created + 1}
    /\ UNCHANGED <<cancelled, ready, cancelledCount, stopping, turnPending,
                   budgetVars, clockVars, pc, current, runVars>>

\* Handle.cancel; TimerHandle.cancel also notifies the loop while armed.
\* The completion callback is never handed out, so nobody can cancel it.
Cancel(h) ==
    /\ InUserCode
    /\ h \in (1..created) \ cancelled
    /\ kind[h] # "completion"
    /\ cancelled' = cancelled \cup {h}
    /\ cancelledCount' = cancelledCount + (IF h \in armed THEN 1 ELSE 0)
    /\ UNCHANGED <<handleVars, ready, scheduled, armed, stopping, turnPending,
                   budgetVars, clockVars, pc, current, runVars>>

\* loop.stop() called by user code.
UserStop ==
    /\ InUserCode /\ Phase \in StopPhases
    /\ stopping' = TRUE
    /\ UNCHANGED <<handleVars, cancelled, ready, timerVars, turnPending,
                   budgetVars, clockVars, pc, current, runVars>>

\* The awaited future gets its result: its done callback, the one that will
\* stop the loop, is put in the ready queue.
CompleteFuture ==
    /\ pc = "callback" /\ future = "pending"
    /\ future' = "done"
    /\ NewHandle("completion", 0)
    /\ ready' = Append(ready, created + 1)
    /\ UNCHANGED <<cancelled, timerVars, stopping, turnPending, budgetVars,
                   clockVars, pc, current, runs, outcome>>

----------------------------------------------------------------------------
(* run_until_complete and the way out of it *)

RunUntilComplete ==
    /\ pc = "idle" /\ outcome \in {"none", "returned"}
    /\ runs < MaxRuns /\ (recording => runs = 0)
    /\ pc' = "run_once"
    /\ runs' = runs + 1
    /\ future' = "pending"
    /\ outcome' = "none"
    /\ UNCHANGED <<handleVars, cancelled, ready, timerVars, stopping,
                   turnPending, budgetVars, clockVars, current>>

\* run_forever's finally clause: the exception or the break leaves the loop.
Leave(how) ==
    /\ pc' = "idle"
    /\ stopping' = FALSE
    /\ current' = 0
    /\ future' = "none"
    /\ outcome' = how
    /\ UNCHANGED runs

Break == Leave(IF future = "done" THEN "returned" ELSE "stopped")

----------------------------------------------------------------------------
(* _prepare_turn *)

\* Mutant: the cancelled timers at the head of the heap are not dropped.
NoDeadHeads == {}

\* Cancelled timers at the head of the heap: dropped before time may move.
DeadHeads ==
    {t \in scheduled \cap cancelled : \A u \in Live(scheduled) : Before(t, u)}

\* The deadline to sleep to: only when nothing is runnable and no stop is due.
WakeUp ==
    IF Live(ToSet(ready)) = {} /\ ~stopping
    THEN {when[t] : t \in {u \in scheduled \ DeadHeads :
                             \A v \in scheduled \ DeadHeads :
                                 u = v \/ Before(u, v)}}
    ELSE {}

OverBudget == \E w \in WakeUp, m \in maxTime : w > now /\ w > m

\* VirtualClock.advance_to
AdvancedTime == IF \E w \in WakeUp : w > now
                THEN CHOOSE w \in WakeUp : w > now ELSE now

\* Mutant: _ready.clear() whether or not a live handle is left.
PurgedAlways == << >>

\* A queue with only cancelled handles is emptied.
Purged == IF Live(ToSet(ready)) = {} THEN << >> ELSE ready

\* Mutant: timers are promoted by every _run_once, not at turn boundaries.
NeedsTurnAlways == pc = "run_once"

NeedsTurn == pc = "run_once" /\ TurnExhausted

\* Mutant: a timer within one tick of its deadline is taken for due.
DueEarly == {t \in scheduled \ DeadHeads : when[t] <= AdvancedTime + 1}

\* The timers popped because their deadline has come.
Due == {t \in scheduled \ DeadHeads : when[t] <= AdvancedTime}

\* Mutant: a promoted timer keeps its _scheduled flag.
PromoteStillArmed(promoted) ==
    /\ scheduled' = (scheduled \ DeadHeads) \ Due
    /\ armed' = armed \ DeadHeads
    /\ cancelledCount' =
           cancelledCount - Cardinality(DeadHeads) - Cardinality(Due \cap cancelled)
    /\ ready' = Purged \o promoted
    /\ turnPending' = Live(ToSet(Purged \o promoted))

\* Due timers leave the heap; the live ones go to the end of the ready queue.
Promote(promoted) ==
    /\ scheduled' = (scheduled \ DeadHeads) \ Due
    /\ armed' = (armed \ DeadHeads) \ Due
    /\ cancelledCount' =
           cancelledCount - Cardinality(DeadHeads) - Cardinality(Due \cap cancelled)
    /\ ready' = Purged \o promoted
    /\ turnPending' = Live(ToSet(Purged \o promoted))

PrepareTurn ==
    /\ NeedsTurn /\ ~OverBudget
    /\ now' = AdvancedTime
    /\ \E promoted \in Listings(Live(Due), Before) : Promote(promoted)
    /\ pc' = "select"
    /\ UNCHANGED <<handleVars, cancelled, stopping, budgetVars, maxTime,
                   current, runVars>>

\* advance_to raises; what was dropped so far stays dropped.
TimeBudgetExceeded ==
    /\ NeedsTurn /\ OverBudget
    /\ scheduled' = scheduled \ DeadHeads
    /\ armed' = armed \ DeadHeads
    /\ cancelledCount' = cancelledCount - Cardinality(DeadHeads)
    /\ ready' = Purged
    /\ Leave("TimeBudget")
    /\ UNCHANGED <<handleVars, cancelled, turnPending, budgetVars, clockVars>>

----------------------------------------------------------------------------
(* _run_once, once the turn is prepared or still has handles *)

AtSelect == pc = "select" \/ (pc = "run_once" /\ ~TurnExhausted)

queueVars == <<handleVars, cancelled, ready, timerVars, turnPending, clockVars>>

NothingRunnable ==
    /\ AtSelect /\ Candidates = {}
    /\ IF stopping THEN Break ELSE Leave("Deadlock")
    /\ UNCHANGED <<queueVars, budgetVars>>

StepBudgetExceeded ==
    /\ AtSelect /\ Candidates # {} /\ recording /\ steps >= MaxSteps
    /\ Leave("StepBudget")
    /\ UNCHANGED <<queueVars, budgetVars>>

CleanupBudgetExceeded ==
    /\ AtSelect /\ Candidates # {} /\ ~recording /\ cleanupSteps >= CleanupLimit
    /\ cleanupSteps' = cleanupSteps + 1
    /\ Leave("StepBudget")
    /\ UNCHANGED <<queueVars, recording, steps, ran>>

\* choose raises (a strict Replay) or returns an index out of range.
ChooseFails ==
    /\ AtSelect /\ Candidates # {} /\ recording /\ steps < MaxSteps /\ ~Fifo
    /\ Leave("BadChoice")
    /\ UNCHANGED <<queueVars, budgetVars>>

\* Mutant: the handle is deleted at its position among the candidates.
DequeueCandidate(i) ==
    /\ ready' = RemoveAt(ready, Cardinality({j \in Candidates : j <= i}))
    /\ turnPending' = turnPending \ {ready[i]}

\* Mutant: the handle stays in the current turn.
DequeueKeepsTurn(i) ==
    /\ ready' = RemoveAt(ready, i)
    /\ turnPending' = turnPending

\* The chosen handle leaves the queue and the turn, whatever its position.
Dequeue(i) ==
    /\ ready' = RemoveAt(ready, i)
    /\ turnPending' = turnPending \ {ready[i]}

\* A completion callback does nothing but stop the loop.
RunOnce(i) ==
    /\ AtSelect /\ i \in Selectable
    /\ IF recording
       THEN steps < MaxSteps /\ steps' = steps + 1 /\ UNCHANGED cleanupSteps
       ELSE cleanupSteps < CleanupLimit /\ cleanupSteps' = cleanupSteps + 1
            /\ UNCHANGED steps
    /\ Dequeue(i)
    /\ ran' = ran \cup {ready[i]}
    /\ current' = ready[i]
    /\ pc' = "callback"
    /\ stopping' = (stopping \/ kind[ready[i]] = "completion")
    /\ UNCHANGED <<handleVars, cancelled, timerVars, recording, clockVars, runVars>>

----------------------------------------------------------------------------
(* The callback ends *)

\* Normal end: step_hook and observe accept, _run_once returns, and
\* run_forever breaks if a stop was requested.
CallbackReturns ==
    /\ pc = "callback"
    /\ IF stopping
       THEN Break
       ELSE /\ pc' = "run_once"
            /\ current' = 0
            /\ UNCHANGED <<stopping, runVars>>
    /\ UNCHANGED <<queueVars, budgetVars>>

\* KeyboardInterrupt or SystemExit out of the callback (Handle._run turns
\* every other exception into a call of the exception handler).
CallbackInterrupts ==
    /\ pc = "callback" /\ kind[current] # "completion"
    /\ Leave("Interrupt")
    /\ UNCHANGED <<queueVars, budgetVars>>

\* step_hook, compact_hook or observe raises after the callback.
HookAborts ==
    /\ pc = "callback" /\ recording
    /\ Leave("Abort")
    /\ UNCHANGED <<queueVars, budgetVars>>

----------------------------------------------------------------------------
(* begin_shutdown and close *)

Follows(g, h) ==
    \E i, j \in DOMAIN ready : i < j /\ ready[i] = g /\ ready[j] = h

\* Mutant: begin_shutdown leaves the completion callback in the queue.
KeptAll == ToSet(ready)

\* What begin_shutdown keeps of the ready queue.
Kept == {h \in ToSet(ready) : kind[h] # "completion"}

BeginShutdown ==
    /\ pc = "idle" /\ recording
    /\ recording' = FALSE
    /\ maxTime' = {}
    /\ turnPending' = {}
    /\ ready' \in Listings(Kept, Follows)
    /\ outcome' = "none"
    /\ UNCHANGED <<handleVars, cancelled, timerVars, stopping, steps, cleanupSteps,
                   ran, now, pc, current, future, runs>>

Close ==
    /\ pc = "idle" /\ ~recording
    /\ pc' = "closed"
    /\ ready' = << >>
    /\ scheduled' = {}
    /\ UNCHANGED <<handleVars, cancelled, armed, cancelledCount, stopping,
                   turnPending, budgetVars, clockVars, current, runVars>>

----------------------------------------------------------------------------
Init ==
    /\ created = 0
    /\ kind = [h \in Handle |-> "soon"] /\ when = [h \in Handle |-> 0]
    /\ cancelled = {} /\ ready = << >>
    /\ scheduled = {} /\ armed = {} /\ cancelledCount = 0
    /\ stopping = FALSE /\ turnPending = {}
    /\ recording = TRUE /\ steps = 0 /\ cleanupSteps = 0 /\ ran = {}
    /\ now = 0 /\ maxTime = TimeLimit
    /\ pc = "idle" /\ current = 0
    /\ future = "none" /\ runs = 0 /\ outcome = "none"

UserCall ==
    \/ CallSoon
    \/ \E w \in 0..MaxWhen : CallAt(w)
    \/ \E h \in Handle : Cancel(h)
    \/ UserStop
    \/ CompleteFuture

LoopStep ==
    \/ PrepareTurn \/ TimeBudgetExceeded
    \/ NothingRunnable \/ StepBudgetExceeded \/ CleanupBudgetExceeded
    \/ ChooseFails
    \/ \E i \in DOMAIN ready : RunOnce(i)

CallbackEnd == CallbackReturns \/ CallbackInterrupts \/ HookAborts

Lifecycle == RunUntilComplete \/ BeginShutdown \/ Close

Next == UserCall \/ LoopStep \/ CallbackEnd \/ Lifecycle

Spec == Init /\ [][Next]_vars

----------------------------------------------------------------------------
(* Properties *)

HandleTypes ==
    /\ created \in 0..MaxHandles
    /\ kind \in [Handle -> {"soon", "timer", "completion"}]
    /\ when \in [Handle -> 0..MaxWhen]
    /\ ready \in Seq(1..created)
    /\ cancelled \subseteq 1..created /\ scheduled \subseteq 1..created
    /\ armed \subseteq 1..created /\ turnPending \subseteq 1..created
    /\ ran \subseteq 1..created
    /\ current \in 0..created

CounterTypes ==
    /\ cancelledCount \in Int
    /\ steps \in 0..MaxSteps
    /\ cleanupSteps \in 0..(CleanupLimit + 1)
    /\ now \in 0..MaxWhen
    /\ runs \in 0..MaxRuns

ControlTypes ==
    /\ stopping \in BOOLEAN /\ recording \in BOOLEAN
    /\ maxTime \in SUBSET Nat
    /\ pc \in {"idle", "run_once", "select", "callback", "closed"}
    /\ future \in {"none", "pending", "done"}
    /\ outcome \in Outcomes

\* Every variable has its type.
TypeOK == HandleTypes /\ CounterTypes /\ ControlTypes

\* A callback is at one place only: once in the ready queue, in the timer heap
\* or already started.  Deleting by candidate position instead of raw index,
\* or promoting a timer without popping it, would run a callback twice.
OnePlace ==
    /\ \A i, j \in DOMAIN ready : ready[i] = ready[j] => i = j
    /\ ToSet(ready) \cap scheduled = {}
    /\ ran \cap (ToSet(ready) \cup scheduled) = {}

\* No callback is lost: one that was neither cancelled nor started still waits
\* in a queue, through every purge of dead handles, timer promotion and the
\* rebuilding of the queue in begin_shutdown (which may drop only the
\* completion callback of the finished scenario).
NoLostCallback ==
    pc # "closed" =>
        \A h \in Live(1..created) \ ran :
            \/ h \in ToSet(ready) \cup scheduled
            \/ kind[h] = "completion" /\ ~recording

\* The loop's own account of its timers is exact: a timer's _scheduled flag says
\* whether it is in the heap, and _timer_cancelled_count is the number of
\* cancelled timers in the heap, whether they are cancelled before or after
\* promotion and whichever loop pops them.
TimerAccounting ==
    pc # "closed" =>
        /\ armed = scheduled
        /\ cancelledCount = Cardinality(scheduled \cap cancelled)

\* A turn never waits for a handle that left the ready queue: otherwise timers
\* would never be promoted again and the loop would report a false Deadlock.
TurnInReady == pc # "closed" => Live(turnPending) \subseteq ToSet(ready)

\* A timer callback never starts before its deadline in virtual time.
NeverEarly ==
    pc = "callback" /\ kind[current] = "timer" => when[current] <= now

\* A completion callback left behind by an aborted run never stops another run:
\* the one that runs is that of the future now awaited (begin_shutdown).
NoStaleStop ==
    pc = "callback" /\ kind[current] = "completion" => future = "done"

\* Virtual time moves only when nothing is runnable and no stop is due, exactly
\* to the earliest live deadline (a cancelled timer never moves it), and not
\* past max_time while the scenario is recorded.
TimeMovesOnlyWhenIdle ==
    [][now' # now =>
          /\ now' > now /\ Live(ToSet(ready)) = {} /\ ~stopping
          /\ \E t \in Live(scheduled) : now' = when[t]
          /\ \A t \in Live(scheduled) : when[t] >= now'
          /\ recording => \A m \in TimeLimit : now' <= m]_vars

\* The loop gives up only for the reason it states: Deadlock when no callback
\* and no timer is live, TimeBudgetExceeded when nothing is runnable and every
\* live timer lies past max_time.
GivesUpHonestly ==
    [][/\ outcome' = "Deadlock" /\ outcome # "Deadlock" =>
              Live(ToSet(ready)) = {} /\ Live(scheduled) = {}
       /\ outcome' = "TimeBudget" /\ outcome # "TimeBudget" =>
              /\ Live(ToSet(ready)) = {} /\ Live(scheduled) # {} /\ recording
              /\ \A t \in Live(scheduled), m \in TimeLimit : when[t] > m]_vars

=============================================================================
