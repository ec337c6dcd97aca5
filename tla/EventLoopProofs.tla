-------------------------- MODULE EventLoopProofs --------------------------
(***************************************************************************)
(* Proofs about EventLoop, and of its refinement of LoopContract, for      *)
(* every value of the constants.                                           *)
(***************************************************************************)
EXTENDS LoopImplementsContract, FifoLoop, QueueLemmas, FiniteSetTheorems

----------------------------------------------------------------------------
(* The inductive invariant *)

\* The cap on cleanup steps is overrun at most once: it ends the last run.
CleanupCap ==
    /\ recording => cleanupSteps = 0
    /\ cleanupSteps > CleanupLimit =>
           pc \in {"idle", "closed"} /\ outcome = "StepBudget"

\* max_time bounds the clock while the scenario is recorded, never afterwards.
ClockLimit == maxTime = IF recording THEN TimeLimit ELSE {}

\* A timer that left the heap by promotion was due.
TimersDue ==
    /\ \A h \in ToSet(ready) \cup ran : kind[h] = "timer" => when[h] <= now
    /\ pc = "callback" => current \in ran

\* A prepared turn with nothing to run means that no timer is left either.
TurnPrepared ==
    pc = "select" /\ Live(ToSet(ready)) = {} /\ ~stopping => Live(scheduled) = {}

Inv ==
    /\ TypeOK /\ CleanupCap /\ ClockLimit
    /\ OnePlace /\ NoLostCallback /\ TurnInReady
    /\ TimerAccounting
    /\ TimersDue /\ TurnPrepared

\* Reading a queue.
LEMMA ReadySet ==
    ASSUME HandleTypes
    PROVE  /\ ToSet(ready) \subseteq 1..created
           /\ DOMAIN ready = 1..Len(ready) /\ Len(ready) \in Nat
           /\ \A i \in DOMAIN ready : ready[i] \in ToSet(ready)
<1>1. ready \in Seq(1..created)
  BY DEF HandleTypes
<1>2. /\ DOMAIN ready = 1..Len(ready) /\ Len(ready) \in Nat
      /\ \A i \in 1..Len(ready) : ready[i] \in 1..created
  BY <1>1, LenProperties, ElementOfSeq
<1> QED BY <1>2 DEF ToSet

\* A listing of a finite set of handles is a sequence of exactly its elements.
LEMMA ListingElements ==
    ASSUME NEW S, NEW T, S \subseteq T, IsFiniteSet(S),
           NEW p \in [1..Cardinality(S) -> S],
           \A x \in S : \E i \in DOMAIN p : p[i] = x
    PROVE  /\ p \in Seq(T)
           /\ ToSet(p) = S
<1>1. Cardinality(S) \in Nat
  BY FS_CardinalityType
<1>2. p \in [1..Cardinality(S) -> T]
  OBVIOUS
<1>3. p \in Seq(T)
  BY <1>1, <1>2
<1> QED BY <1>3 DEF ToSet

\* Finitely many handles exist.
LEMMA HandlesFinite ==
    ASSUME created \in Nat, NEW S, S \subseteq 1..created
    PROVE  IsFiniteSet(S)
<1>1. IsFiniteSet(1..created)
  BY FS_Interval
<1> QED BY <1>1, FS_Subset

\* The initial state is well typed.
LEMMA TypeInit == Init => TypeOK
<1> SUFFICES ASSUME Init PROVE TypeOK
  OBVIOUS
<1>1. HandleTypes
  <2>1. << >> \in Seq(1..0)
    BY EmptySeq
  <2>2. ready \in Seq(1..created)
    BY <2>1 DEF Init
  <2> QED BY <2>2, ConstantsAssumption DEF Init, HandleTypes
<1>2. CounterTypes
  BY ConstantsAssumption DEF Init, CounterTypes
<1>3. ControlTypes
  BY ConstantsAssumption, Zenon DEF Init, ControlTypes, Outcomes
<1> QED BY <1>1, <1>2, <1>3 DEF TypeOK


\* The disjuncts of Next, for the proofs by cases below.  The actions that end
\* a run or touch only its control state leave every queue as it is.
Quiet ==
    /\ UNCHANGED <<created, kind, when, cancelled, ready, scheduled, armed,
                   cancelledCount, turnPending, now, maxTime, recording, steps, ran>>
    /\ \/ UserStop \/ NothingRunnable \/ StepBudgetExceeded
       \/ CleanupBudgetExceeded \/ ChooseFails \/ CallbackReturns
       \/ CallbackInterrupts \/ HookAborts \/ RunUntilComplete

\* The actions that leave handles, queues, timers and the clock alone.
LEMMA QuietActions ==
    UserStop \/ NothingRunnable \/ StepBudgetExceeded \/ CleanupBudgetExceeded
      \/ ChooseFails \/ CallbackReturns \/ CallbackInterrupts \/ HookAborts
      \/ RunUntilComplete
    => Quiet
<1>1. UserStop => Quiet
  BY DEF UserStop, Quiet, handleVars, timerVars, clockVars, budgetVars
<1>2. NothingRunnable => Quiet
  BY DEF NothingRunnable, Quiet, queueVars, handleVars, timerVars, clockVars, budgetVars
<1>3. StepBudgetExceeded => Quiet
  BY DEF StepBudgetExceeded, Quiet, queueVars, handleVars, timerVars, clockVars, budgetVars
<1>4. CleanupBudgetExceeded => Quiet
  BY DEF CleanupBudgetExceeded, Quiet, queueVars, handleVars, timerVars, clockVars
<1>5. ChooseFails => Quiet
  BY DEF ChooseFails, Quiet, queueVars, handleVars, timerVars, clockVars, budgetVars
<1>6. CallbackReturns => Quiet
  BY DEF CallbackReturns, Quiet, queueVars, handleVars, timerVars, clockVars, budgetVars
<1>7. CallbackInterrupts => Quiet
  BY DEF CallbackInterrupts, Quiet, queueVars, handleVars, timerVars, clockVars, budgetVars
<1>8. HookAborts => Quiet
  BY DEF HookAborts, Quiet, queueVars, handleVars, timerVars, clockVars, budgetVars
<1>9. RunUntilComplete => Quiet
  BY DEF RunUntilComplete, Quiet, handleVars, timerVars, clockVars, budgetVars
<1> QED BY <1>1, <1>2, <1>3, <1>4, <1>5, <1>6, <1>7, <1>8, <1>9

\* A step of the loop, split into its actions.
LEMMA NextCases ==
    ASSUME Next
    PROVE  \/ CallSoon \/ CompleteFuture
           \/ \E w \in 0..MaxWhen : CallAt(w)
           \/ \E h \in Handle : Cancel(h)
           \/ PrepareTurn \/ TimeBudgetExceeded
           \/ \E i \in DOMAIN ready : RunOnce(i)
           \/ BeginShutdown \/ Close
           \/ Quiet
BY QuietActions DEF Next, UserCall, LoopStep, CallbackEnd, Lifecycle


\* A new handle leaves the others as they are.
LEMMA NewHandleTypes ==
    ASSUME HandleTypes, NEW k \in {"soon", "timer", "completion"},
           NEW w \in 0..MaxWhen, NewHandle(k, w)
    PROVE  /\ created' = created + 1 /\ created' \in 0..MaxHandles
           /\ created + 1 \in Handle /\ created + 1 \notin 1..created
           /\ 1..created' = (1..created) \cup {created + 1}
           /\ kind' \in [Handle -> {"soon", "timer", "completion"}]
           /\ when' \in [Handle -> 0..MaxWhen]
           /\ kind'[created + 1] = k /\ when'[created + 1] = w
           /\ \A h \in 1..created : kind'[h] = kind[h] /\ when'[h] = when[h]
<1>1. created \in Nat /\ created' = created + 1 /\ created' \in 0..MaxHandles
  BY ConstantsAssumption DEF HandleTypes, NewHandle
<1>2. created + 1 \in Handle /\ created + 1 \notin 1..created
  BY <1>1, ConstantsAssumption DEF Handle
<1>3. 1..created' = (1..created) \cup {created + 1}
  BY <1>1
<1>4. 1..created \subseteq Handle
  <2>1. created \in 0..MaxHandles
    BY DEF HandleTypes
  <2> QED BY <2>1, ConstantsAssumption DEF Handle
<1> QED BY <1>1, <1>2, <1>3, <1>4 DEF HandleTypes, NewHandle

\* One more handle at the end of the ready queue.
LEMMA NewReady ==
    ASSUME HandleTypes, created' = created + 1, created + 1 \notin 1..created,
           1..created' = (1..created) \cup {created + 1},
           ready' = Append(ready, created + 1)
    PROVE  /\ ready' \in Seq(1..created')
           /\ ToSet(ready)' = ToSet(ready) \cup {created + 1}
           /\ (\A i, j \in DOMAIN ready : ready[i] = ready[j] => i = j) =>
                  \A i, j \in DOMAIN ready' : ready'[i] = ready'[j] => i = j
<1>1. ready \in Seq(1..created')
  BY SeqMonotonic DEF HandleTypes
<1>2. created + 1 \notin ToSet(ready)
  BY ReadySet
<1> QED BY <1>1, <1>2, AppendElements

\* The order of the heap is irreflexive.
LEMMA BeforeIrreflexive ==
    ASSUME NEW t \in Int, when[t] \in Int
    PROVE  ~Before(t, t)
BY DEF Before

\* What is due was in the heap.
LEMMA DueTimers ==
    ASSUME HandleTypes
    PROVE  /\ Due \subseteq scheduled /\ Live(Due) \subseteq Due
           /\ Live(Due) \subseteq 1..created /\ created \in Nat
<1>1. Due \subseteq scheduled /\ Live(Due) \subseteq Due
  BY DEF Due, Live
<1>2. scheduled \subseteq 1..created /\ created \in Nat
  BY ConstantsAssumption DEF HandleTypes
<1> QED BY <1>1, <1>2

\* The promoted timers are a queue of those that are due and live.
LEMMA PromotedTimers ==
    ASSUME HandleTypes, NEW promoted \in Listings(Live(Due), Before)
    PROVE  /\ promoted \in Seq(1..created) /\ ToSet(promoted) = Live(Due)
           /\ \A i, j \in DOMAIN promoted : promoted[i] = promoted[j] => i = j
<1>1. /\ promoted \in [1..Cardinality(Live(Due)) -> Live(Due)]
      /\ \A x \in Live(Due) : \E i \in DOMAIN promoted : promoted[i] = x
      /\ \A i, j \in DOMAIN promoted : i < j => Before(promoted[i], promoted[j])
  BY DEF Listings
<1>2. Live(Due) \subseteq 1..created /\ created \in Nat
  BY DueTimers
<1>3. IsFiniteSet(Live(Due))
  BY <1>2, HandlesFinite
<1>4. promoted \in Seq(1..created) /\ ToSet(promoted) = Live(Due)
  BY <1>1, <1>2, <1>3, ListingElements
<1>5. \A i, j \in DOMAIN promoted : promoted[i] = promoted[j] => i = j
  <2> SUFFICES ASSUME NEW i \in DOMAIN promoted, NEW j \in DOMAIN promoted,
                      promoted[i] = promoted[j], i # j
               PROVE  FALSE
    OBVIOUS
  <2>1. Cardinality(Live(Due)) \in Nat
    BY <1>3, FS_CardinalityType
  <2>2. i \in Int /\ j \in Int
    BY <1>1, <2>1
  <2>3. promoted[i] \in Int /\ when[promoted[i]] \in Int
    <3>1. promoted[i] \in 1..created
      BY <1>1, <1>2
    <3>2. promoted[i] \in Handle
      BY <3>1, ConstantsAssumption DEF HandleTypes, Handle
    <3>3. when[promoted[i]] \in 0..MaxWhen
      BY <3>2 DEF HandleTypes
    <3> QED BY <1>2, <3>1, <3>3, ConstantsAssumption
  <2>4. Before(promoted[i], promoted[i])
    <3>1. CASE i < j
      BY <1>1, <3>1
    <3>2. CASE j < i
      BY <1>1, <3>2
    <3>3. i < j \/ j < i
      BY <2>2
    <3> QED BY <3>1, <3>2, <3>3
  <2> QED BY <2>3, <2>4, BeforeIrreflexive
<1> QED BY <1>4, <1>5

\* Preparing a turn: what is promoted is a set of live timers that are due, and
\* the queue it is appended to is the old one or, if that has no live handle,
\* the empty one.
LEMMA PrepareTurnQueues ==
    ASSUME HandleTypes, NEW promoted \in Listings(Live(Due), Before), Promote(promoted)
    PROVE  /\ ready' \in Seq(1..created)
           /\ ToSet(ready)' = ToSet(Purged) \cup Live(Due)
           /\ turnPending' = Live(ToSet(Purged) \cup Live(Due))
           /\ (/\ ToSet(ready) \cap scheduled = {}
               /\ \A i, j \in DOMAIN ready : ready[i] = ready[j] => i = j) =>
                  \A i, j \in DOMAIN ready' : ready'[i] = ready'[j] => i = j
<1>1. promoted \in Seq(1..created) /\ ToSet(promoted) = Live(Due)
  BY PromotedTimers
<1>2. \A i, j \in DOMAIN promoted : promoted[i] = promoted[j] => i = j
  BY PromotedTimers
<1>3. Purged \in Seq(1..created) /\ ToSet(Purged) \subseteq ToSet(ready)
  <2>1. << >> \in Seq(1..created) /\ ToSet(<< >>) = {}
    BY EmptySeq DEF ToSet
  <2> QED BY <2>1 DEF Purged, HandleTypes
<1>4. /\ ready' = Purged \o promoted
      /\ turnPending' = Live(ToSet(Purged \o promoted))
  BY DEF Promote
<1>5. /\ Purged \o promoted \in Seq(1..created)
      /\ ToSet(Purged \o promoted) = ToSet(Purged) \cup Live(Due)
  BY <1>1, <1>3, ConcatElements
<1>6. ASSUME ToSet(ready) \cap scheduled = {},
             \A i, j \in DOMAIN ready : ready[i] = ready[j] => i = j
      PROVE  \A i, j \in DOMAIN ready' : ready'[i] = ready'[j] => i = j
  <2>1. ToSet(Purged) \cap ToSet(promoted) = {}
    BY <1>1, <1>3, <1>6 DEF Live, Due
  <2>2. \A i, j \in DOMAIN Purged : Purged[i] = Purged[j] => i = j
    BY <1>6 DEF Purged
  <2> QED BY <1>1, <1>2, <1>3, <1>4, <2>1, <2>2, ConcatElements
<1>7. ToSet(ready)' = ToSet(ready')
  BY DEF ToSet
<1> QED BY <1>4, <1>5, <1>6, <1>7

\* advance_to never moves the clock back, nor beyond the deadlines that exist.
LEMMA ClockAdvance ==
    ASSUME HandleTypes, CounterTypes
    PROVE  /\ AdvancedTime \in 0..MaxWhen
           /\ AdvancedTime >= now
           /\ AdvancedTime # now => AdvancedTime \in WakeUp /\ AdvancedTime > now
<1>1. now \in 0..MaxWhen /\ MaxWhen \in Nat
  BY ConstantsAssumption DEF CounterTypes
<1>2. \A t \in scheduled : t \in Handle /\ when[t] \in 0..MaxWhen
  BY ConstantsAssumption DEF HandleTypes, Handle
<1>3. WakeUp \subseteq 0..MaxWhen
  BY <1>2 DEF WakeUp
<1>4. CASE \E w \in WakeUp : w > now
  <2>1. AdvancedTime \in WakeUp /\ AdvancedTime > now
    BY <1>4 DEF AdvancedTime
  <2> QED BY <1>1, <1>3, <2>1
<1>5. CASE ~ \E w \in WakeUp : w > now
  BY <1>1, <1>5 DEF AdvancedTime
<1> QED BY <1>4, <1>5

\* The whole effect of _prepare_turn on queues and clock.
LEMMA PrepareTurnEffect ==
    ASSUME HandleTypes, PrepareTurn
    PROVE  /\ pc = "run_once" /\ pc' = "select" /\ TurnExhausted /\ ~OverBudget
           /\ now' = AdvancedTime
           /\ scheduled' = (scheduled \ DeadHeads) \ Due
           /\ armed' = (armed \ DeadHeads) \ Due
           /\ cancelledCount' =
                  cancelledCount - Cardinality(DeadHeads) - Cardinality(Due \cap cancelled)
           /\ ready' \in Seq(1..created)
           /\ ToSet(ready)' = ToSet(Purged) \cup Live(Due)
           /\ turnPending' = Live(ToSet(Purged) \cup Live(Due))
           /\ (/\ ToSet(ready) \cap scheduled = {}
               /\ \A i, j \in DOMAIN ready : ready[i] = ready[j] => i = j) =>
                  \A i, j \in DOMAIN ready' : ready'[i] = ready'[j] => i = j
           /\ UNCHANGED <<created, kind, when, cancelled, stopping, recording, steps,
                          cleanupSteps, ran, maxTime, current, future, runs, outcome>>
<1>1. PICK promoted \in Listings(Live(Due), Before) : Promote(promoted)
  BY DEF PrepareTurn
<1>2. /\ ready' \in Seq(1..created)
      /\ ToSet(ready)' = ToSet(Purged) \cup Live(Due)
      /\ turnPending' = Live(ToSet(Purged) \cup Live(Due))
      /\ (/\ ToSet(ready) \cap scheduled = {}
          /\ \A i, j \in DOMAIN ready : ready[i] = ready[j] => i = j) =>
             \A i, j \in DOMAIN ready' : ready'[i] = ready'[j] => i = j
  BY <1>1, PrepareTurnQueues
<1>3. /\ scheduled' = (scheduled \ DeadHeads) \ Due
      /\ armed' = (armed \ DeadHeads) \ Due
      /\ cancelledCount' =
             cancelledCount - Cardinality(DeadHeads) - Cardinality(Due \cap cancelled)
  BY <1>1 DEF Promote
<1>4. /\ pc = "run_once" /\ pc' = "select" /\ TurnExhausted /\ ~OverBudget
      /\ now' = AdvancedTime
      /\ UNCHANGED <<created, kind, when, cancelled, stopping, recording, steps,
                     cleanupSteps, ran, maxTime, current, future, runs, outcome>>
  BY DEF PrepareTurn, NeedsTurn, handleVars, budgetVars, runVars
<1> QED BY <1>2, <1>3, <1>4

\* What begin_shutdown leaves in the ready queue.
LEMMA BeginShutdownQueue ==
    ASSUME HandleTypes, BeginShutdown
    PROVE  /\ ready' \in Seq(1..created)
           /\ ToSet(ready)' = {h \in ToSet(ready) : kind[h] # "completion"}
           /\ (\A i, j \in DOMAIN ready : ready[i] = ready[j] => i = j) =>
                  \A i, j \in DOMAIN ready' : ready'[i] = ready'[j] => i = j
<1> DEFINE kept == {h \in ToSet(ready) : kind[h] # "completion"}
<1>1. /\ ready' \in [1..Cardinality(kept) -> kept]
      /\ \A x \in kept : \E i \in DOMAIN ready' : ready'[i] = x
      /\ \A i, j \in DOMAIN ready' : i < j => Follows(ready'[i], ready'[j])
  BY DEF BeginShutdown, Listings, Kept
<1>2. kept \subseteq 1..created /\ created \in Nat
  BY ReadySet DEF HandleTypes
<1>3. IsFiniteSet(kept)
  BY <1>2, HandlesFinite
<1> HIDE DEF kept
<1>4. ready' \in Seq(1..created) /\ ToSet(ready') = kept
  BY <1>1, <1>2, <1>3, ListingElements
<1>5. ASSUME \A i, j \in DOMAIN ready : ready[i] = ready[j] => i = j,
             NEW i \in DOMAIN ready', NEW j \in DOMAIN ready', ready'[i] = ready'[j], i # j
      PROVE  FALSE
  <2>1. Cardinality(kept) \in Nat
    BY <1>3, FS_CardinalityType
  <2>2. i \in Int /\ j \in Int
    BY <1>1, <2>1
  <2>3. Follows(ready'[i], ready'[i])
    <3>1. CASE i < j
      BY <1>1, <1>5, <3>1
    <3>2. CASE j < i
      BY <1>1, <1>5, <3>2
    <3>3. i < j \/ j < i
      BY <2>2, <1>5
    <3> QED BY <3>1, <3>2, <3>3
  <2>4. PICK k, l \in DOMAIN ready : k < l /\ ready[k] = ready[l]
    BY <2>3 DEF Follows
  <2>5. k = l /\ k \in Int
    BY <1>5, <2>4, ReadySet
  <2> QED BY <2>4, <2>5
<1>6. ToSet(ready)' = ToSet(ready')
  BY DEF ToSet
<1> QED BY <1>4, <1>5, <1>6 DEF kept

\* The timers a preparation pops are finitely many.
LEMMA PoppedTimers ==
    ASSUME HandleTypes
    PROVE  /\ IsFiniteSet(scheduled)
           /\ IsFiniteSet(DeadHeads) /\ Cardinality(DeadHeads) \in Nat
           /\ IsFiniteSet(Due \cap cancelled) /\ Cardinality(Due \cap cancelled) \in Nat
<1>1. IsFiniteSet(scheduled)
  BY HandlesFinite, DueTimers DEF HandleTypes
<1>2. DeadHeads \subseteq scheduled /\ Due \cap cancelled \subseteq scheduled
  BY DueTimers DEF DeadHeads
<1>3. IsFiniteSet(DeadHeads) /\ IsFiniteSet(Due \cap cancelled)
  BY <1>1, <1>2, FS_Subset
<1> QED BY <1>1, <1>3, FS_CardinalityType

----------------------------------------------------------------------------
(* Type correctness *)

\* Every action keeps handles, queues and timers well typed.
LEMMA HandleTypesStep ==
    ASSUME HandleTypes, CounterTypes, [Next]_vars
    PROVE  HandleTypes'
<1> USE DEF HandleTypes
<1>1. CASE CallSoon
  <2>1. NewHandle("soon", 0) /\ ready' = Append(ready, created + 1)
        /\ UNCHANGED <<cancelled, scheduled, armed, turnPending, ran, current>>
    BY <1>1 DEF CallSoon, timerVars, budgetVars
  <2> QED BY <2>1, NewHandleTypes, NewReady, ConstantsAssumption
<1>2. CASE CompleteFuture
  <2>1. NewHandle("completion", 0) /\ ready' = Append(ready, created + 1)
        /\ UNCHANGED <<cancelled, scheduled, armed, turnPending, ran, current>>
    BY <1>2 DEF CompleteFuture, timerVars, budgetVars
  <2>2. /\ created' \in 0..MaxHandles /\ created' = created + 1
        /\ created + 1 \notin 1..created
        /\ 1..created' = (1..created) \cup {created + 1}
        /\ kind' \in [Handle -> {"soon", "timer", "completion"}]
        /\ when' \in [Handle -> 0..MaxWhen]
    BY <2>1, NewHandleTypes, ConstantsAssumption
  <2>3. ready' \in Seq(1..created')
    BY <2>1, <2>2, NewReady
  <2> QED BY <2>1, <2>2, <2>3
<1>3. ASSUME NEW w \in 0..MaxWhen, CallAt(w)
      PROVE  HandleTypes'
  <2>1. /\ NewHandle("timer", w) /\ armed' = armed \cup {created + 1}
        /\ scheduled' = scheduled \cup {created + 1}
        /\ UNCHANGED <<cancelled, ready, turnPending, ran, current>>
    BY <1>3 DEF CallAt, budgetVars
  <2>2. /\ created' \in 0..MaxHandles /\ created' = created + 1
        /\ 1..created' = (1..created) \cup {created + 1}
        /\ kind' \in [Handle -> {"soon", "timer", "completion"}]
        /\ when' \in [Handle -> 0..MaxWhen]
    BY <2>1, NewHandleTypes
  <2>3. ready' \in Seq(1..created')
    BY <2>1, <2>2, SeqMonotonic
  <2> QED BY <2>1, <2>2, <2>3
<1>4. ASSUME NEW h \in Handle, Cancel(h)
      PROVE  HandleTypes'
  BY <1>4 DEF Cancel, handleVars, budgetVars
<1>5. CASE PrepareTurn
  <2>1. ToSet(Purged) \cup Live(Due) \subseteq 1..created
    <3>1. ToSet(Purged) \subseteq ToSet(ready)
      BY DEF Purged, ToSet
    <3> QED BY <3>1, ReadySet, DueTimers
  <2>2. Live(ToSet(Purged) \cup Live(Due)) \subseteq 1..created
    BY <2>1 DEF Live
  <2> QED BY <1>5, <2>2, PrepareTurnEffect
<1>6. CASE TimeBudgetExceeded
  <2>1. Purged \in Seq(1..created)
    BY EmptySeq DEF Purged
  <2>2. /\ ready' = Purged /\ scheduled' = scheduled \ DeadHeads
        /\ armed' = armed \ DeadHeads /\ current' = 0
        /\ UNCHANGED <<created, kind, when, cancelled, turnPending, ran>>
    BY <1>6 DEF TimeBudgetExceeded, Leave, handleVars, budgetVars
  <2>3. current' \in 0..created'
    BY <2>2, DueTimers
  <2> QED BY <2>1, <2>2, <2>3
<1>7. ASSUME NEW i \in DOMAIN ready, RunOnce(i)
      PROVE  HandleTypes'
  <2>1. /\ ready' = RemoveAt(ready, i) /\ turnPending' = turnPending \ {ready[i]}
        /\ ran' = ran \cup {ready[i]} /\ current' = ready[i]
        /\ UNCHANGED <<created, kind, when, cancelled, scheduled, armed>>
    BY <1>7 DEF RunOnce, Dequeue, handleVars, timerVars
  <2>2. RemoveAt(ready, i) \in Seq(1..created)
    BY RemoveAtPositions
  <2>3. ready[i] \in 1..created /\ ready[i] \in 0..created
    BY ReadySet
  <2>4. turnPending' \subseteq 1..created /\ ran' \subseteq 1..created
    BY <2>1, <2>3
  <2> QED BY <2>1, <2>2, <2>3, <2>4
<1>8. CASE BeginShutdown
  <2>1. UNCHANGED <<created, kind, when, cancelled, scheduled, armed, ran, current>>
        /\ turnPending' = {}
    BY <1>8 DEF BeginShutdown, handleVars, timerVars
  <2> QED BY <1>8, <2>1, BeginShutdownQueue
<1>9. CASE Close
  BY <1>9, EmptySeq DEF Close, handleVars, budgetVars
<1>10. CASE Quiet
  <2>1. current' \in {0, current}
    BY <1>10 DEF Quiet, UserStop, NothingRunnable, StepBudgetExceeded,
          CleanupBudgetExceeded, ChooseFails, CallbackReturns, CallbackInterrupts,
          HookAborts, RunUntilComplete, Leave, Break
  <2> QED BY <1>10, <2>1 DEF Quiet
<1>11. CASE UNCHANGED vars
  BY <1>11 DEF vars, handleVars, timerVars, budgetVars
<1> QED BY <1>1, <1>2, <1>3, <1>4, <1>5, <1>6, <1>7, <1>8, <1>9, <1>10, <1>11, NextCases

\* Every action keeps the counters in their ranges.
LEMMA CounterTypesStep ==
    ASSUME HandleTypes, CounterTypes, ControlTypes, CleanupCap, [Next]_vars
    PROVE  CounterTypes'
<1> USE DEF CounterTypes
<1>1. CASE CallSoon
  BY <1>1 DEF CallSoon, timerVars, budgetVars, clockVars, runVars
<1>2. CASE CompleteFuture
  BY <1>2 DEF CompleteFuture, timerVars, budgetVars, clockVars
<1>3. ASSUME NEW w \in 0..MaxWhen, CallAt(w)
      PROVE  CounterTypes'
  BY <1>3 DEF CallAt, budgetVars, clockVars, runVars
<1>4. ASSUME NEW h \in Handle, Cancel(h)
      PROVE  CounterTypes'
  BY <1>4 DEF Cancel, budgetVars, clockVars, runVars
<1>5. CASE PrepareTurn
  <2>1. Cardinality(DeadHeads) \in Int /\ Cardinality(Due \cap cancelled) \in Int
    BY PoppedTimers
  <2>2. now' \in 0..MaxWhen
    BY <1>5, PrepareTurnEffect, ClockAdvance
  <2> QED BY <1>5, <2>1, <2>2, PrepareTurnEffect
<1>6. CASE TimeBudgetExceeded
  <2>1. Cardinality(DeadHeads) \in Int
    BY PoppedTimers
  <2> QED BY <1>6, <2>1 DEF TimeBudgetExceeded, Leave, budgetVars, clockVars
<1>7. ASSUME NEW i \in DOMAIN ready, RunOnce(i)
      PROVE  CounterTypes'
  BY <1>7, ConstantsAssumption DEF RunOnce, timerVars, clockVars, runVars
<1>8. CASE BeginShutdown
  BY <1>8 DEF BeginShutdown, timerVars
<1>9. CASE Close
  BY <1>9 DEF Close, budgetVars, clockVars, runVars
<1>10. CASE Quiet
  <2>1. runs' \in 0..MaxRuns
    BY <1>10, ConstantsAssumption DEF Quiet, UserStop, NothingRunnable, StepBudgetExceeded,
          CleanupBudgetExceeded, ChooseFails, CallbackReturns, CallbackInterrupts,
          HookAborts, RunUntilComplete, Leave, Break, runVars
  <2>2. cleanupSteps' \in 0..(CleanupLimit + 1)
    <3>1. CASE CleanupBudgetExceeded
      BY <3>1, ConstantsAssumption
      DEF CleanupBudgetExceeded, CleanupCap, AtSelect, ControlTypes
    <3>2. CASE ~CleanupBudgetExceeded
      BY <1>10, <3>2 DEF Quiet, UserStop, NothingRunnable, StepBudgetExceeded, ChooseFails,
          CallbackReturns, CallbackInterrupts, HookAborts, RunUntilComplete, budgetVars
    <3> QED BY <3>1, <3>2
  <2> QED BY <1>10, <2>1, <2>2 DEF Quiet
<1>11. CASE UNCHANGED vars
  BY <1>11 DEF vars, timerVars, budgetVars, clockVars, runVars
<1> QED BY <1>1, <1>2, <1>3, <1>4, <1>5, <1>6, <1>7, <1>8, <1>9, <1>10, <1>11, NextCases

\* Every action keeps the control state well typed.
LEMMA ControlTypesStep ==
    ASSUME ControlTypes, [Next]_vars
    PROVE  ControlTypes'
<1> USE DEF ControlTypes
<1>1. CASE CallSoon
  BY <1>1 DEF CallSoon, budgetVars, clockVars, runVars
<1>2. CASE CompleteFuture
  BY <1>2 DEF CompleteFuture, budgetVars, clockVars
<1>3. ASSUME NEW w \in 0..MaxWhen, CallAt(w)
      PROVE  ControlTypes'
  BY <1>3 DEF CallAt, budgetVars, clockVars, runVars
<1>4. ASSUME NEW h \in Handle, Cancel(h)
      PROVE  ControlTypes'
  BY <1>4 DEF Cancel, budgetVars, clockVars, runVars
<1>5. CASE PrepareTurn
  BY <1>5 DEF PrepareTurn, budgetVars, runVars
<1>6. CASE TimeBudgetExceeded
  BY <1>6 DEF TimeBudgetExceeded, Leave, budgetVars, clockVars, Outcomes, Errors
<1>7. ASSUME NEW i \in DOMAIN ready, RunOnce(i)
      PROVE  ControlTypes'
  BY <1>7 DEF RunOnce, clockVars, runVars
<1>8. CASE BeginShutdown
  BY <1>8 DEF BeginShutdown, Outcomes
<1>9. CASE Close
  BY <1>9 DEF Close, budgetVars, clockVars, runVars
<1>10. CASE Quiet
  <2>1. UNCHANGED <<recording, maxTime>>
    BY <1>10 DEF Quiet
  <2>2. /\ stopping' \in BOOLEAN /\ future' \in {"none", "pending", "done"}
        /\ pc' \in {"idle", "run_once", "select", "callback", "closed"}
        /\ outcome' \in Outcomes
    BY <1>10 DEF Quiet, UserStop, NothingRunnable, StepBudgetExceeded,
          CleanupBudgetExceeded, ChooseFails, CallbackReturns, CallbackInterrupts,
          HookAborts, RunUntilComplete, Leave, Break, runVars, Outcomes, Errors
  <2> QED BY <2>1, <2>2
<1>11. CASE UNCHANGED vars
  BY <1>11 DEF vars, budgetVars, clockVars, runVars
<1> QED BY <1>1, <1>2, <1>3, <1>4, <1>5, <1>6, <1>7, <1>8, <1>9, <1>10, <1>11, NextCases

\* Purging removes cancelled handles only, and all or nothing.
LEMMA PurgedSet ==
    /\ ToSet(Purged) \subseteq ToSet(ready)
    /\ Live(ToSet(Purged)) = Live(ToSet(ready))
    /\ Live(ToSet(ready)) # {} => Purged = ready
<1>1. ToSet(<< >>) = {}
  BY DEF ToSet
<1> QED BY <1>1 DEF Purged, Live

----------------------------------------------------------------------------
(* The queues *)

\* Every action keeps a callback at one place.
LEMMA OnePlaceStep ==
    ASSUME HandleTypes, OnePlace, [Next]_vars
    PROVE  OnePlace'
<1> USE DEF OnePlace
<1>1. ASSUME NEW k \in {"soon", "timer", "completion"}, NEW w \in 0..MaxWhen,
             NewHandle(k, w), ready' = Append(ready, created + 1),
             UNCHANGED <<scheduled, ran>>
      PROVE  OnePlace'
  <2>1. /\ created' = created + 1 /\ created + 1 \notin 1..created
        /\ 1..created' = (1..created) \cup {created + 1}
    BY <1>1, NewHandleTypes
  <2>2. /\ ToSet(ready)' = ToSet(ready) \cup {created + 1}
        /\ \A i, j \in DOMAIN ready' : ready'[i] = ready'[j] => i = j
    BY <1>1, <2>1, NewReady
  <2>3. created + 1 \notin scheduled /\ created + 1 \notin ran
    BY <2>1 DEF HandleTypes
  <2> QED BY <1>1, <2>2, <2>3
<1>2. CASE CallSoon
  BY <1>1, <1>2, ConstantsAssumption DEF CallSoon, timerVars, budgetVars
<1>3. CASE CompleteFuture
  <2>1. "completion" \in {"soon", "timer", "completion"} /\ 0 \in 0..MaxWhen
    BY ConstantsAssumption
  <2>2. /\ NewHandle("completion", 0) /\ ready' = Append(ready, created + 1)
        /\ UNCHANGED <<scheduled, ran>>
    BY <1>3 DEF CompleteFuture, timerVars, budgetVars
  <2> QED BY <1>1, <2>1, <2>2
<1>4. ASSUME NEW w \in 0..MaxWhen, CallAt(w)
      PROVE  OnePlace'
  <2>1. /\ NewHandle("timer", w) /\ scheduled' = scheduled \cup {created + 1}
        /\ UNCHANGED <<ready, ran>>
    BY <1>4 DEF CallAt, budgetVars
  <2>2. created + 1 \notin 1..created
    BY <2>1, NewHandleTypes
  <2>3. created + 1 \notin ToSet(ready) /\ created + 1 \notin ran
    BY <2>2, ReadySet DEF HandleTypes
  <2> QED BY <2>1, <2>3 DEF ToSet
<1>5. ASSUME NEW h \in Handle, Cancel(h)
      PROVE  OnePlace'
  BY <1>5 DEF Cancel, budgetVars, ToSet
<1>6. CASE PrepareTurn
  <2>1. /\ scheduled' = (scheduled \ DeadHeads) \ Due /\ ran' = ran
        /\ ToSet(ready)' = ToSet(Purged) \cup Live(Due)
        /\ \A i, j \in DOMAIN ready' : ready'[i] = ready'[j] => i = j
    BY <1>6, PrepareTurnEffect
  <2>2. ToSet(Purged) \subseteq ToSet(ready)
    BY PurgedSet
  <2> QED BY <2>1, <2>2, DueTimers
<1>7. CASE TimeBudgetExceeded
  <2>1. ready' = Purged /\ scheduled' = scheduled \ DeadHeads /\ ran' = ran
    BY <1>7 DEF TimeBudgetExceeded, budgetVars
  <2>2. /\ ToSet(Purged) \subseteq ToSet(ready)
        /\ \A i, j \in DOMAIN Purged : Purged[i] = Purged[j] => i = j
    BY PurgedSet DEF Purged
  <2>3. ToSet(ready)' = ToSet(ready')
    BY DEF ToSet
  <2> QED BY <2>1, <2>2, <2>3
<1>8. ASSUME NEW i \in DOMAIN ready, RunOnce(i)
      PROVE  OnePlace'
  <2>1. /\ ready' = RemoveAt(ready, i) /\ ran' = ran \cup {ready[i]}
        /\ scheduled' = scheduled
    BY <1>8 DEF RunOnce, Dequeue, timerVars
  <2>2. /\ ToSet(RemoveAt(ready, i)) = ToSet(ready) \ {ready[i]}
        /\ \A j, k \in DOMAIN RemoveAt(ready, i) :
               RemoveAt(ready, i)[j] = RemoveAt(ready, i)[k] => j = k
    BY RemoveAtElements DEF HandleTypes
  <2>3. ready[i] \in ToSet(ready) /\ ToSet(ready)' = ToSet(ready')
    BY DEF ToSet
  <2> QED BY <2>1, <2>2, <2>3
<1>9. CASE BeginShutdown
  <2>1. UNCHANGED <<scheduled, ran>>
    BY <1>9 DEF BeginShutdown, timerVars
  <2> QED BY <1>9, <2>1, BeginShutdownQueue
<1>10. CASE Close
  <2>1. ready' = << >> /\ scheduled' = {} /\ ran' = ran
    BY <1>10 DEF Close, budgetVars
  <2>2. ToSet(ready)' = {} /\ DOMAIN ready' = {}
    BY <2>1 DEF ToSet
  <2> QED BY <2>1, <2>2
<1>11. CASE Quiet
  BY <1>11 DEF Quiet, ToSet
<1>12. CASE UNCHANGED vars
  BY <1>12 DEF vars, timerVars, budgetVars, ToSet
<1> QED BY <1>2, <1>3, <1>4, <1>5, <1>6, <1>7, <1>8, <1>9, <1>10, <1>11, <1>12, NextCases

\* No action loses a callback.
LEMMA NoLostCallbackStep ==
    ASSUME HandleTypes, OnePlace, NoLostCallback, ControlTypes, [Next]_vars
    PROVE  NoLostCallback'
<1> USE DEF NoLostCallback, Live
<1>1. ASSUME NEW k \in {"soon", "timer", "completion"}, NEW w \in 0..MaxWhen,
             NewHandle(k, w), ready' = Append(ready, created + 1), InUserCode,
             UNCHANGED <<scheduled, ran, cancelled, recording>>
      PROVE  NoLostCallback'
  <2>1. /\ created' = created + 1 /\ created + 1 \notin 1..created
        /\ 1..created' = (1..created) \cup {created + 1}
        /\ \A h \in 1..created : kind'[h] = kind[h]
    BY <1>1, NewHandleTypes
  <2>2. ToSet(ready)' = ToSet(ready) \cup {created + 1}
    BY <1>1, <2>1, NewReady
  <2> QED BY <1>1, <2>1, <2>2 DEF InUserCode
<1>2. CASE CallSoon
  BY <1>1, <1>2, ConstantsAssumption DEF CallSoon, timerVars, budgetVars
<1>3. CASE CompleteFuture
  <2>1. "completion" \in {"soon", "timer", "completion"} /\ 0 \in 0..MaxWhen
    BY ConstantsAssumption
  <2>2. /\ NewHandle("completion", 0) /\ ready' = Append(ready, created + 1)
        /\ InUserCode /\ UNCHANGED <<scheduled, ran, cancelled, recording>>
    BY <1>3 DEF CompleteFuture, timerVars, budgetVars, InUserCode
  <2> QED BY <1>1, <2>1, <2>2
<1>4. ASSUME NEW w \in 0..MaxWhen, CallAt(w)
      PROVE  NoLostCallback'
  <2>1. /\ NewHandle("timer", w) /\ scheduled' = scheduled \cup {created + 1}
        /\ InUserCode /\ UNCHANGED <<ready, ran, cancelled, recording>>
    BY <1>4 DEF CallAt, budgetVars
  <2>2. /\ 1..created' = (1..created) \cup {created + 1}
        /\ \A h \in 1..created : kind'[h] = kind[h]
    BY <2>1, NewHandleTypes
  <2>3. ToSet(ready)' = ToSet(ready)
    BY <2>1 DEF ToSet
  <2> QED BY <2>1, <2>2, <2>3 DEF InUserCode
<1>5. ASSUME NEW h \in Handle, Cancel(h)
      PROVE  NoLostCallback'
  BY <1>5 DEF Cancel, handleVars, budgetVars, InUserCode, ToSet
<1>6. CASE PrepareTurn
  <2>1. /\ scheduled' = (scheduled \ DeadHeads) \ Due
        /\ ToSet(ready)' = ToSet(Purged) \cup Live(Due) /\ pc = "run_once"
        /\ UNCHANGED <<created, kind, cancelled, ran, recording>>
    BY <1>6, PrepareTurnEffect
  <2> QED BY <2>1, PurgedSet DEF DeadHeads
<1>7. CASE TimeBudgetExceeded
  <2>1. /\ ready' = Purged /\ scheduled' = scheduled \ DeadHeads /\ pc = "run_once"
        /\ UNCHANGED <<created, kind, cancelled, ran, recording>>
    BY <1>7 DEF TimeBudgetExceeded, budgetVars, NeedsTurn, handleVars
  <2>2. ToSet(ready)' = ToSet(ready')
    BY DEF ToSet
  <2> QED BY <2>1, <2>2, PurgedSet DEF DeadHeads
<1>8. ASSUME NEW i \in DOMAIN ready, RunOnce(i)
      PROVE  NoLostCallback'
  <2>1. /\ ready' = RemoveAt(ready, i) /\ ran' = ran \cup {ready[i]}
        /\ AtSelect /\ UNCHANGED <<scheduled, created, kind, cancelled, recording>>
    BY <1>8 DEF RunOnce, Dequeue, timerVars, handleVars
  <2>2. ToSet(RemoveAt(ready, i)) = ToSet(ready) \ {ready[i]}
    BY RemoveAtElements DEF HandleTypes, OnePlace
  <2>3. ToSet(ready)' = ToSet(ready')
    BY DEF ToSet
  <2> QED BY <2>1, <2>2, <2>3 DEF AtSelect
<1>9. CASE BeginShutdown
  <2>1. /\ pc = "idle" /\ recording' = FALSE
        /\ UNCHANGED <<created, kind, cancelled, scheduled, ran>>
    BY <1>9 DEF BeginShutdown, timerVars, handleVars
  <2>2. ToSet(ready)' = {h \in ToSet(ready) : kind[h] # "completion"}
    BY <1>9, BeginShutdownQueue
  <2> QED BY <2>1, <2>2
<1>10. CASE Close
  BY <1>10 DEF Close
<1>11. CASE Quiet
  <2>1. pc # "closed"
    BY <1>11 DEF Quiet, UserStop, NothingRunnable, StepBudgetExceeded,
          CleanupBudgetExceeded, ChooseFails, CallbackReturns, CallbackInterrupts,
          HookAborts, RunUntilComplete, InUserCode, AtSelect
  <2> QED BY <1>11, <2>1 DEF Quiet, ToSet
<1>12. CASE UNCHANGED vars
  BY <1>12 DEF vars, handleVars, timerVars, budgetVars, ToSet
<1> QED BY <1>2, <1>3, <1>4, <1>5, <1>6, <1>7, <1>8, <1>9, <1>10, <1>11, <1>12, NextCases

\* The heap has a head: some timer comes before all others.
LEMMA EarliestTimer ==
    ASSUME HandleTypes, NEW S, S \subseteq 1..created, S # {}
    PROVE  \E t \in S : \A v \in S : t = v \/ Before(t, v)
<1>1. \A t \in S : t \in Nat /\ when[t] \in Nat
  BY ConstantsAssumption DEF HandleTypes, Handle
<1>2. PICK w \in {when[t] : t \in S} : \A d \in {when[t] : t \in S} : w <= d
  BY <1>1, LeastNat
<1>3. PICK t \in {u \in S : when[u] = w} : \A v \in {u \in S : when[u] = w} : t <= v
  BY <1>1, <1>2, LeastNat
<1>4. ASSUME NEW v \in S PROVE t = v \/ Before(t, v)
  BY <1>1, <1>2, <1>3 DEF Before
<1> QED BY <1>3, <1>4

\* Where the loop sleeps to: the earliest live deadline, never a cancelled one.
LEMMA WakeUpDeadline ==
    ASSUME HandleTypes, NEW w \in WakeUp
    PROVE  /\ Live(ToSet(ready)) = {} /\ ~stopping
           /\ \E t \in Live(scheduled) : w = when[t]
           /\ \A t \in Live(scheduled) : w <= when[t]
<1>1. Live(ToSet(ready)) = {} /\ ~stopping
  BY DEF WakeUp
<1>2. PICK t \in scheduled \ DeadHeads :
          w = when[t] /\ \A v \in scheduled \ DeadHeads : t = v \/ Before(t, v)
  BY <1>1 DEF WakeUp
<1>3. Live(scheduled) \subseteq scheduled \ DeadHeads
  BY DEF Live, DeadHeads
<1>4. t \in Live(scheduled)
  BY <1>2, <1>3 DEF Live, DeadHeads
<1>5. \A u \in scheduled : u \in Int /\ when[u] \in Int
  BY ConstantsAssumption DEF HandleTypes, Handle
<1>6. ASSUME NEW u \in Live(scheduled) PROVE w <= when[u]
  BY <1>2, <1>3, <1>4, <1>5 DEF Before, Live
<1> QED BY <1>1, <1>2, <1>4, <1>6

\* If nothing can run, no stop is due and a live timer exists, the loop sleeps.
LEMMA WakeUpExists ==
    ASSUME HandleTypes, Live(ToSet(ready)) = {}, ~stopping, Live(scheduled) # {}
    PROVE  WakeUp # {}
<1>1. scheduled \ DeadHeads # {} /\ scheduled \ DeadHeads \subseteq 1..created
  BY DEF Live, DeadHeads, HandleTypes
<1>2. \E t \in scheduled \ DeadHeads : \A v \in scheduled \ DeadHeads : t = v \/ Before(t, v)
  BY <1>1, EarliestTimer
<1> QED BY <1>2 DEF WakeUp

\* Every action keeps the open turn inside the ready queue.
LEMMA TurnInReadyStep ==
    ASSUME HandleTypes, OnePlace, TurnInReady, [Next]_vars
    PROVE  TurnInReady'
<1> USE DEF TurnInReady, Live
<1>1. ASSUME NEW k \in {"soon", "timer", "completion"}, NEW w \in 0..MaxWhen,
             NewHandle(k, w), ready' = Append(ready, created + 1), InUserCode,
             UNCHANGED <<turnPending, cancelled>>
      PROVE  TurnInReady'
  <2>1. /\ created' = created + 1 /\ created + 1 \notin 1..created
        /\ 1..created' = (1..created) \cup {created + 1}
    BY <1>1, NewHandleTypes
  <2>2. ToSet(ready)' = ToSet(ready) \cup {created + 1}
    BY <1>1, <2>1, NewReady
  <2> QED BY <1>1, <2>2 DEF InUserCode
<1>2. CASE CallSoon
  BY <1>1, <1>2, ConstantsAssumption DEF CallSoon
<1>3. CASE CompleteFuture
  <2>1. "completion" \in {"soon", "timer", "completion"} /\ 0 \in 0..MaxWhen
    BY ConstantsAssumption
  <2>2. /\ NewHandle("completion", 0) /\ ready' = Append(ready, created + 1)
        /\ InUserCode /\ UNCHANGED <<turnPending, cancelled>>
    BY <1>3 DEF CompleteFuture, InUserCode
  <2> QED BY <1>1, <2>1, <2>2
<1>4. ASSUME NEW w \in 0..MaxWhen, CallAt(w)
      PROVE  TurnInReady'
  BY <1>4 DEF CallAt, InUserCode, ToSet
<1>5. ASSUME NEW h \in Handle, Cancel(h)
      PROVE  TurnInReady'
  BY <1>5 DEF Cancel, InUserCode, ToSet
<1>6. CASE PrepareTurn
  BY <1>6, PrepareTurnEffect
<1>7. CASE TimeBudgetExceeded
  <2>1. turnPending' = turnPending /\ cancelled' = cancelled /\ TurnExhausted
    BY <1>7 DEF TimeBudgetExceeded, NeedsTurn
  <2> QED BY <2>1 DEF TurnExhausted
<1>8. ASSUME NEW i \in DOMAIN ready, RunOnce(i)
      PROVE  TurnInReady'
  <2>1. /\ ready' = RemoveAt(ready, i) /\ turnPending' = turnPending \ {ready[i]}
        /\ AtSelect /\ cancelled' = cancelled
    BY <1>8 DEF RunOnce, Dequeue
  <2>2. ToSet(RemoveAt(ready, i)) = ToSet(ready) \ {ready[i]}
    BY RemoveAtElements DEF HandleTypes, OnePlace
  <2>3. ToSet(ready)' = ToSet(ready')
    BY DEF ToSet
  <2> QED BY <2>1, <2>2, <2>3 DEF AtSelect
<1>9. CASE BeginShutdown
  BY <1>9 DEF BeginShutdown
<1>10. CASE Close
  BY <1>10 DEF Close
<1>11. CASE Quiet
  <2>1. pc # "closed"
    BY <1>11 DEF Quiet, UserStop, NothingRunnable, StepBudgetExceeded,
          CleanupBudgetExceeded, ChooseFails, CallbackReturns, CallbackInterrupts,
          HookAborts, RunUntilComplete, InUserCode, AtSelect
  <2> QED BY <1>11, <2>1 DEF Quiet, ToSet
<1>12. CASE UNCHANGED vars
  BY <1>12 DEF vars, ToSet
<1> QED BY <1>2, <1>3, <1>4, <1>5, <1>6, <1>7, <1>8, <1>9, <1>10, <1>11, <1>12, NextCases

\* Every action keeps the deadlines of runnable timers in the past.
LEMMA TimersDueStep ==
    ASSUME HandleTypes, CounterTypes, OnePlace, TimersDue, [Next]_vars
    PROVE  TimersDue'
<1> USE DEF TimersDue
<1>0. ToSet(ready) \cup ran \subseteq 1..created
  BY ReadySet DEF HandleTypes
<1>1. ASSUME NEW k \in {"soon", "timer", "completion"}, NEW w \in 0..MaxWhen, k # "timer",
             NewHandle(k, w), ready' = Append(ready, created + 1),
             UNCHANGED <<ran, now, pc, current>>
      PROVE  TimersDue'
  <2>1. /\ created' = created + 1 /\ created + 1 \notin 1..created
        /\ 1..created' = (1..created) \cup {created + 1}
        /\ kind'[created + 1] = k
        /\ \A h \in 1..created : kind'[h] = kind[h] /\ when'[h] = when[h]
    BY <1>1, NewHandleTypes
  <2>2. ToSet(ready)' = ToSet(ready) \cup {created + 1}
    BY <1>1, <2>1, NewReady
  <2> QED BY <1>0, <1>1, <2>1, <2>2
<1>2. CASE CallSoon
  BY <1>1, <1>2, ConstantsAssumption DEF CallSoon, budgetVars, clockVars
<1>3. CASE CompleteFuture
  <2>1. "completion" \in {"soon", "timer", "completion"} /\ 0 \in 0..MaxWhen
    BY ConstantsAssumption
  <2>2. /\ NewHandle("completion", 0) /\ ready' = Append(ready, created + 1)
        /\ UNCHANGED <<ran, now, pc, current>>
    BY <1>3 DEF CompleteFuture, budgetVars, clockVars
  <2> QED BY <1>1, <2>1, <2>2
<1>4. ASSUME NEW w \in 0..MaxWhen, CallAt(w)
      PROVE  TimersDue'
  <2>1. NewHandle("timer", w) /\ UNCHANGED <<ready, ran, now, pc, current>>
    BY <1>4 DEF CallAt, budgetVars, clockVars
  <2>2. \A h \in 1..created : kind'[h] = kind[h] /\ when'[h] = when[h]
    BY <2>1, NewHandleTypes
  <2>3. ToSet(ready)' = ToSet(ready)
    BY <2>1 DEF ToSet
  <2> QED BY <1>0, <2>1, <2>2, <2>3
<1>5. ASSUME NEW h \in Handle, Cancel(h)
      PROVE  TimersDue'
  BY <1>5 DEF Cancel, handleVars, budgetVars, clockVars, ToSet
<1>6. CASE PrepareTurn
  <2>1. /\ ToSet(ready)' = ToSet(Purged) \cup Live(Due) /\ pc' = "select"
        /\ now' = AdvancedTime /\ UNCHANGED <<ran, kind, when>>
    BY <1>6, PrepareTurnEffect
  <2>2. now' \in Int /\ now \in Int /\ now <= now'
    BY <2>1, ClockAdvance, ConstantsAssumption DEF CounterTypes
  <2>3. \A h \in Live(Due) : when[h] <= now'
    BY <2>1 DEF Due, Live
  <2>4. \A h \in ToSet(Purged) \cup ran : kind[h] = "timer" => when[h] <= now
    BY PurgedSet
  <2>5. \A h \in ToSet(Purged) \cup ran : when[h] \in Int
    BY <1>0, PurgedSet, ConstantsAssumption DEF HandleTypes, Handle
  <2>6. \A h \in ToSet(Purged) \cup ran : kind[h] = "timer" => when[h] <= now'
    BY <2>2, <2>4, <2>5
  <2> QED BY <2>1, <2>3, <2>6
<1>7. CASE TimeBudgetExceeded
  <2>1. ready' = Purged /\ pc' = "idle" /\ UNCHANGED <<ran, kind, when, now>>
    BY <1>7 DEF TimeBudgetExceeded, Leave, handleVars, budgetVars, clockVars
  <2>2. ToSet(ready)' = ToSet(ready')
    BY DEF ToSet
  <2> QED BY <2>1, <2>2, PurgedSet
<1>8. ASSUME NEW i \in DOMAIN ready, RunOnce(i)
      PROVE  TimersDue'
  <2>1. /\ ready' = RemoveAt(ready, i) /\ ran' = ran \cup {ready[i]}
        /\ current' = ready[i] /\ UNCHANGED <<kind, when, now>>
    BY <1>8 DEF RunOnce, Dequeue, handleVars, clockVars
  <2>2. ToSet(RemoveAt(ready, i)) = ToSet(ready) \ {ready[i]}
    BY RemoveAtElements DEF HandleTypes, OnePlace
  <2>3. ready[i] \in ToSet(ready) /\ ToSet(ready)' = ToSet(ready')
    BY DEF ToSet
  <2> QED BY <2>1, <2>2, <2>3
<1>9. CASE BeginShutdown
  <2>1. UNCHANGED <<kind, when, ran, now, pc, current>>
    BY <1>9 DEF BeginShutdown, handleVars
  <2> QED BY <1>9, <2>1, BeginShutdownQueue
<1>10. CASE Close
  <2>1. ready' = << >> /\ pc' = "closed" /\ UNCHANGED <<kind, when, ran, now>>
    BY <1>10 DEF Close, handleVars, budgetVars, clockVars
  <2>2. ToSet(ready)' = {}
    BY <2>1 DEF ToSet
  <2> QED BY <2>1, <2>2
<1>11. CASE Quiet
  <2>1. pc' = "callback" => pc = "callback" /\ current' = current
    BY <1>11 DEF Quiet, UserStop, NothingRunnable, StepBudgetExceeded,
          CleanupBudgetExceeded, ChooseFails, CallbackReturns, CallbackInterrupts,
          HookAborts, RunUntilComplete, Leave, Break
  <2> QED BY <1>11, <2>1 DEF Quiet, ToSet
<1>12. CASE UNCHANGED vars
  BY <1>12 DEF vars, handleVars, budgetVars, clockVars, ToSet
<1> QED BY <1>2, <1>3, <1>4, <1>5, <1>6, <1>7, <1>8, <1>9, <1>10, <1>11, <1>12, NextCases

\* After _prepare_turn either something can run, or a stop is due, or no live
\* timer is left: time was advanced to the earliest one and promoted it.
LEMMA TurnPreparedStep ==
    ASSUME HandleTypes, CounterTypes, TurnPrepared, [Next]_vars
    PROVE  TurnPrepared'
<1>1. CASE PrepareTurn
  <2> SUFFICES ASSUME Live(ToSet(ready))' = {}, ~stopping, Live(scheduled)' # {}
               PROVE  FALSE
    BY <1>1, PrepareTurnEffect DEF TurnPrepared
  <2>1. /\ ToSet(ready)' = ToSet(Purged) \cup Live(Due) /\ cancelled' = cancelled
        /\ scheduled' = (scheduled \ DeadHeads) \ Due
    BY <1>1, PrepareTurnEffect
  <2>2. Live(ToSet(Purged)) = {} /\ Live(Due) = {} /\ Live(scheduled) # {}
    BY <2>1 DEF Live
  <2>3. Live(ToSet(ready)) = {}
    BY <2>2, PurgedSet
  <2>4. PICK w \in WakeUp : TRUE
    BY <2>2, <2>3, WakeUpExists
  <2>5. \A t \in Live(scheduled) : t \in scheduled \ DeadHeads /\ when[t] \in Int
    BY ConstantsAssumption DEF Live, DeadHeads, HandleTypes, Handle
  <2>6. now \in Int /\ AdvancedTime \in Int /\ AdvancedTime >= now
    BY ClockAdvance, ConstantsAssumption DEF CounterTypes
  <2>7. PICK t \in Live(scheduled) : when[t] <= AdvancedTime
    <3>1. CASE AdvancedTime # now
      BY <2>5, <3>1, ClockAdvance, WakeUpDeadline
    <3>2. CASE AdvancedTime = now
      <4>1. ~(w > now)
        BY <2>5, <2>6, <3>2 DEF AdvancedTime
      <4>2. PICK t \in Live(scheduled) : w = when[t]
        BY WakeUpDeadline
      <4> QED BY <2>5, <2>6, <3>2, <4>1, <4>2
    <3> QED BY <3>1, <3>2
  <2>8. t \in Live(Due)
    BY <2>5, <2>7 DEF Due, Live
  <2> QED BY <2>2, <2>8
<1>2. CASE UNCHANGED vars
  BY <1>2 DEF vars, timerVars, TurnPrepared, Live, ToSet
<1>3. CASE Next /\ ~PrepareTurn
  <2>1. pc' # "select"
    <3>1. CASE Quiet
      BY <3>1 DEF Quiet, UserStop, NothingRunnable, StepBudgetExceeded,
          CleanupBudgetExceeded, ChooseFails, CallbackReturns, CallbackInterrupts,
          HookAborts, RunUntilComplete, Leave, Break, InUserCode
    <3>2. CASE CallSoon \/ CompleteFuture \/ (\E w \in 0..MaxWhen : CallAt(w))
                 \/ (\E h \in Handle : Cancel(h))
      BY <3>2 DEF CallSoon, CompleteFuture, CallAt, Cancel, InUserCode
    <3>3. CASE TimeBudgetExceeded \/ (\E i \in DOMAIN ready : RunOnce(i))
                 \/ BeginShutdown \/ Close
      BY <3>3 DEF TimeBudgetExceeded, RunOnce, BeginShutdown, Close, Leave
    <3> QED BY <1>3, <3>1, <3>2, <3>3, NextCases
  <2> QED BY <2>1 DEF TurnPrepared
<1> QED BY <1>1, <1>2, <1>3

\* Every action keeps max_time that of the scenario while recording.
LEMMA ClockLimitStep ==
    ASSUME ClockLimit, [Next]_vars
    PROVE  ClockLimit'
<1> USE DEF ClockLimit
<1>1. CASE BeginShutdown
  BY <1>1 DEF BeginShutdown
<1>2. CASE Quiet
  BY <1>2 DEF Quiet
<1>3. CASE CallSoon \/ CompleteFuture \/ (\E w \in 0..MaxWhen : CallAt(w))
           \/ (\E h \in Handle : Cancel(h))
  BY <1>3 DEF CallSoon, CompleteFuture, CallAt, Cancel, budgetVars, clockVars
<1>4. CASE PrepareTurn \/ TimeBudgetExceeded \/ (\E i \in DOMAIN ready : RunOnce(i))
           \/ Close
  BY <1>4 DEF PrepareTurn, TimeBudgetExceeded, RunOnce, Close, budgetVars, clockVars
<1>5. CASE UNCHANGED vars
  BY <1>5 DEF vars, budgetVars, clockVars
<1> QED BY <1>1, <1>2, <1>3, <1>4, <1>5, NextCases

\* Every action keeps the cleanup counter at most one past its cap.
LEMMA CleanupCapStep ==
    ASSUME CounterTypes, CleanupCap, [Next]_vars
    PROVE  CleanupCap'
<1> USE DEF CleanupCap
<1>0. cleanupSteps \in Int /\ CleanupLimit \in Nat
  BY ConstantsAssumption DEF CounterTypes
<1>1. CASE CallSoon
  BY <1>1 DEF CallSoon, budgetVars, runVars
<1>2. CASE CompleteFuture
  BY <1>2 DEF CompleteFuture, budgetVars
<1>3. ASSUME NEW w \in 0..MaxWhen, CallAt(w)
      PROVE  CleanupCap'
  BY <1>3 DEF CallAt, budgetVars, runVars
<1>4. ASSUME NEW h \in Handle, Cancel(h)
      PROVE  CleanupCap'
  BY <1>4 DEF Cancel, budgetVars, runVars
<1>5. CASE PrepareTurn
  BY <1>5 DEF PrepareTurn, NeedsTurn, budgetVars, runVars
<1>6. CASE TimeBudgetExceeded
  BY <1>6 DEF TimeBudgetExceeded, NeedsTurn, budgetVars
<1>7. ASSUME NEW i \in DOMAIN ready, RunOnce(i)
      PROVE  CleanupCap'
  <2>1. /\ recording' = recording /\ AtSelect
        /\ \/ recording /\ cleanupSteps' = cleanupSteps
           \/ ~recording /\ cleanupSteps < CleanupLimit /\ cleanupSteps' = cleanupSteps + 1
    BY <1>7 DEF RunOnce
  <2>2. ~(cleanupSteps' > CleanupLimit)
    BY <1>0, <2>1 DEF AtSelect
  <2> QED BY <2>1, <2>2
<1>8. CASE BeginShutdown
  <2>1. recording /\ ~recording' /\ cleanupSteps' = cleanupSteps
    BY <1>8 DEF BeginShutdown
  <2>2. ~(cleanupSteps' > CleanupLimit)
    BY <1>0, <2>1
  <2> QED BY <2>1, <2>2
<1>9. CASE Close
  BY <1>9 DEF Close, budgetVars, runVars
<1>10. CASE CleanupBudgetExceeded
  BY <1>10 DEF CleanupBudgetExceeded, Leave
<1>11. CASE Quiet /\ ~CleanupBudgetExceeded
  <2>1. recording' = recording /\ cleanupSteps' = cleanupSteps
    BY <1>11 DEF Quiet, UserStop, NothingRunnable, StepBudgetExceeded, ChooseFails,
          CallbackReturns, CallbackInterrupts, HookAborts, RunUntilComplete, budgetVars
  <2>2. CASE cleanupSteps > CleanupLimit
    \* The only quiet step left then is stop(), called between runs.
    <3>1. pc \in {"idle", "closed"} /\ outcome = "StepBudget"
      BY <2>2
    <3>2. UserStop
      BY <1>11, <3>1 DEF Quiet, NothingRunnable, StepBudgetExceeded, ChooseFails,
            CallbackReturns, CallbackInterrupts, HookAborts, RunUntilComplete, AtSelect
    <3> QED BY <2>1, <3>1, <3>2 DEF UserStop, runVars
  <2>3. CASE ~(cleanupSteps > CleanupLimit)
    BY <2>1, <2>3
  <2> QED BY <2>2, <2>3
<1>12. CASE UNCHANGED vars
  BY <1>12 DEF vars, budgetVars, runVars
<1> QED BY <1>1, <1>2, <1>3, <1>4, <1>5, <1>6, <1>7, <1>8, <1>9, <1>10, <1>11, <1>12, NextCases

\* Counting cancelled timers after some set of popped timers left the heap.
LEMMA CancelledAfterPop ==
    ASSUME HandleTypes, NEW P, P \subseteq scheduled
    PROVE  Cardinality((scheduled \ P) \cap cancelled)
             = Cardinality(scheduled \cap cancelled) - Cardinality(P \cap cancelled)
<1>1. IsFiniteSet(scheduled \cap cancelled)
  BY PoppedTimers, FS_Intersection
<1>2. Cardinality((scheduled \cap cancelled) \ (P \cap cancelled))
        = Cardinality(scheduled \cap cancelled)
          - Cardinality((scheduled \cap cancelled) \cap (P \cap cancelled))
  BY <1>1, FS_Difference
<1>3. /\ (scheduled \cap cancelled) \ (P \cap cancelled) = (scheduled \ P) \cap cancelled
      /\ (scheduled \cap cancelled) \cap (P \cap cancelled) = P \cap cancelled
  OBVIOUS
<1> QED BY <1>2, <1>3

\* Every action keeps the count of cancelled timers exact.
LEMMA TimerAccountingStep ==
    ASSUME HandleTypes, CounterTypes, TimerAccounting, [Next]_vars
    PROVE  TimerAccounting'
<1> USE DEF TimerAccounting
<1>0. created + 1 \notin 1..created
  BY DueTimers
<1>1. CASE CallSoon \/ CompleteFuture
  BY <1>1 DEF CallSoon, CompleteFuture, InUserCode, timerVars
<1>2. ASSUME NEW w \in 0..MaxWhen, CallAt(w)
      PROVE  TimerAccounting'
  <2>1. /\ pc # "closed" /\ armed' = armed \cup {created + 1}
        /\ scheduled' = scheduled \cup {created + 1}
        /\ UNCHANGED <<cancelled, cancelledCount>>
    BY <1>2 DEF CallAt, InUserCode
  <2>2. scheduled' \cap cancelled' = scheduled \cap cancelled
    BY <1>0, <2>1 DEF HandleTypes
  <2> QED BY <2>1, <2>2
<1>3. ASSUME NEW h \in Handle, Cancel(h)
      PROVE  TimerAccounting'
  <2>1. /\ pc # "closed" /\ h \notin cancelled /\ cancelled' = cancelled \cup {h}
        /\ cancelledCount' = cancelledCount + (IF h \in armed THEN 1 ELSE 0)
        /\ UNCHANGED <<armed, scheduled>>
    BY <1>3 DEF Cancel, InUserCode
  <2>2. IsFiniteSet(scheduled \cap cancelled)
    BY PoppedTimers, FS_Intersection
  <2>3. CASE h \in scheduled
    <3>1. scheduled' \cap cancelled' = (scheduled \cap cancelled) \cup {h}
      BY <2>1, <2>3
    <3>2. Cardinality((scheduled \cap cancelled) \cup {h}) = Cardinality(scheduled \cap cancelled) + 1
      BY <2>1, <2>2, FS_AddElement
    <3> QED BY <2>1, <2>3, <3>1, <3>2
  <2>4. CASE h \notin scheduled
    <3>1. scheduled' \cap cancelled' = scheduled \cap cancelled
      BY <2>1, <2>4
    <3>2. cancelledCount' = cancelledCount
      BY <2>1, <2>4 DEF CounterTypes
    <3> QED BY <2>1, <3>1, <3>2
  <2> QED BY <2>3, <2>4
<1>4. CASE PrepareTurn
  <2>1. /\ pc = "run_once" /\ cancelled' = cancelled
        /\ scheduled' = (scheduled \ DeadHeads) \ Due
        /\ armed' = (armed \ DeadHeads) \ Due
        /\ cancelledCount' =
               cancelledCount - Cardinality(DeadHeads) - Cardinality(Due \cap cancelled)
    BY <1>4, PrepareTurnEffect
  <2> DEFINE popped == DeadHeads \cup (Due \cap cancelled)
  <2>2. popped \subseteq scheduled /\ popped \cap cancelled = popped
    BY DueTimers DEF DeadHeads
  <2>3. scheduled' \cap cancelled' = (scheduled \ popped) \cap cancelled
    BY <2>1
  <2>4. Cardinality(popped) = Cardinality(DeadHeads) + Cardinality(Due \cap cancelled)
    <3>1. DeadHeads \cap (Due \cap cancelled) = {}
      BY DEF Due
    <3>2. Cardinality(popped) = Cardinality(DeadHeads) + Cardinality(Due \cap cancelled)
                                - Cardinality(DeadHeads \cap (Due \cap cancelled))
      BY PoppedTimers, FS_Union
    <3>3. Cardinality(DeadHeads \cap (Due \cap cancelled)) = 0
      BY <3>1, FS_EmptySet
    <3>4. Cardinality(DeadHeads) \in Nat /\ Cardinality(Due \cap cancelled) \in Nat
      BY PoppedTimers
    <3> HIDE DEF popped
    <3> QED BY <3>2, <3>3, <3>4
  <2>5. Cardinality((scheduled \ popped) \cap cancelled)
          = Cardinality(scheduled \cap cancelled) - Cardinality(popped)
    BY <2>2, CancelledAfterPop
  <2> HIDE DEF popped
  <2>6. cancelledCount' = Cardinality(scheduled' \cap cancelled')
    <3>1. Cardinality(DeadHeads) \in Nat /\ Cardinality(Due \cap cancelled) \in Nat
      BY PoppedTimers
    <3>2. cancelledCount \in Int /\ cancelledCount = Cardinality(scheduled \cap cancelled)
      BY <2>1 DEF CounterTypes
    <3>3. Cardinality(scheduled' \cap cancelled')
            = cancelledCount - (Cardinality(DeadHeads) + Cardinality(Due \cap cancelled))
      BY <2>3, <2>4, <2>5, <3>2
    <3> QED BY <2>1, <3>1, <3>2, <3>3
  <2> QED BY <2>1, <2>6
<1>5. CASE TimeBudgetExceeded
  <2>1. /\ pc = "run_once" /\ cancelled' = cancelled
        /\ scheduled' = scheduled \ DeadHeads /\ armed' = armed \ DeadHeads
        /\ cancelledCount' = cancelledCount - Cardinality(DeadHeads)
    BY <1>5 DEF TimeBudgetExceeded, NeedsTurn
  <2>2. DeadHeads \subseteq scheduled /\ DeadHeads \cap cancelled = DeadHeads
    BY DEF DeadHeads
  <2>3. Cardinality((scheduled \ DeadHeads) \cap cancelled)
          = Cardinality(scheduled \cap cancelled) - Cardinality(DeadHeads)
    BY <2>2, CancelledAfterPop
  <2> QED BY <2>1, <2>3
<1>6. ASSUME NEW i \in DOMAIN ready, RunOnce(i)
      PROVE  TimerAccounting'
  BY <1>6 DEF RunOnce, AtSelect, timerVars
<1>7. CASE BeginShutdown \/ Close
  BY <1>7 DEF BeginShutdown, Close, timerVars
<1>8. CASE Quiet
  <2>1. pc # "closed"
    BY <1>8 DEF Quiet, UserStop, NothingRunnable, StepBudgetExceeded,
          CleanupBudgetExceeded, ChooseFails, CallbackReturns, CallbackInterrupts,
          HookAborts, RunUntilComplete, InUserCode, AtSelect
  <2> QED BY <1>8, <2>1 DEF Quiet
<1>9. CASE UNCHANGED vars
  BY <1>9 DEF vars, timerVars
<1> QED BY <1>1, <1>2, <1>3, <1>4, <1>5, <1>6, <1>7, <1>8, <1>9, NextCases

----------------------------------------------------------------------------
(* The theorems *)

\* The inductive invariant holds initially.
LEMMA InvInit == Init => Inv
<1> SUFFICES ASSUME Init PROVE Inv
  OBVIOUS
<1>1. TypeOK
  BY TypeInit
<1>2. CleanupCap /\ ClockLimit
  BY ConstantsAssumption DEF Init, CleanupCap, ClockLimit
<1>3. /\ ToSet(ready) = {} /\ DOMAIN ready = {} /\ scheduled = {} /\ ran = {}
      /\ 1..created = {} /\ turnPending = {} /\ armed = {} /\ cancelledCount = 0
      /\ pc = "idle"
  BY DEF Init, ToSet
<1>4. OnePlace /\ NoLostCallback /\ TurnInReady /\ TimersDue /\ TurnPrepared
  BY <1>3 DEF OnePlace, NoLostCallback, TurnInReady, TimersDue, TurnPrepared, Live
<1>5. TimerAccounting
  <2>1. scheduled \cap cancelled = {}
    BY <1>3
  <2> QED BY <1>3, <2>1, FS_EmptySet DEF TimerAccounting
<1> QED BY <1>1, <1>2, <1>4, <1>5 DEF Inv

\* The inductive invariant is preserved by every step.
LEMMA InvStep == Inv /\ [Next]_vars => Inv'
<1> SUFFICES ASSUME Inv, [Next]_vars PROVE Inv'
  OBVIOUS
<1>1. /\ HandleTypes /\ CounterTypes /\ ControlTypes /\ CleanupCap /\ ClockLimit
      /\ OnePlace /\ NoLostCallback /\ TurnInReady /\ TimerAccounting
      /\ TimersDue /\ TurnPrepared
  BY DEF Inv, TypeOK
<1>2. TypeOK'
  BY <1>1, HandleTypesStep, CounterTypesStep, ControlTypesStep DEF TypeOK
<1>3. CleanupCap' /\ ClockLimit'
  BY <1>1, CleanupCapStep, ClockLimitStep
<1>4. OnePlace' /\ NoLostCallback' /\ TurnInReady'
  BY <1>1, OnePlaceStep, NoLostCallbackStep, TurnInReadyStep
<1>5. TimerAccounting' /\ TimersDue' /\ TurnPrepared'
  BY <1>1, TimerAccountingStep, TimersDueStep, TurnPreparedStep
<1> QED BY <1>2, <1>3, <1>4, <1>5 DEF Inv

\* The strengthening is inductive: every reachable state of the loop satisfies
\* it, for any number of handles, any deadlines, budgets and scheduler.
THEOREM InvAlways == Spec => []Inv
<1>1. Init => Inv
  BY InvInit
<1>2. Inv /\ [Next]_vars => Inv'
  BY InvStep
<1> QED BY <1>1, <1>2, PTL DEF Spec

\* Every variable of the loop keeps its type, whatever the constants are.
THEOREM TypeCorrect == Spec => []TypeOK
<1>1. Inv => TypeOK
  BY DEF Inv
<1> QED BY <1>1, InvAlways, PTL

\* No callback is ever in two places or executed twice.
THEOREM OnePlaceAlways == Spec => []OnePlace
<1>1. Inv => OnePlace
  BY DEF Inv
<1> QED BY <1>1, InvAlways, PTL

\* No callback is ever lost before it ran or was cancelled.
THEOREM NoLostCallbackAlways == Spec => []NoLostCallback
<1>1. Inv => NoLostCallback
  BY DEF Inv
<1> QED BY <1>1, InvAlways, PTL

\* The loop's count of cancelled timers is always exact.
THEOREM TimerAccountingAlways == Spec => []TimerAccounting
<1>1. Inv => TimerAccounting
  BY DEF Inv
<1> QED BY <1>1, InvAlways, PTL

\* The current turn never waits for a handle that is no longer queued.
THEOREM TurnInReadyAlways == Spec => []TurnInReady
<1>1. Inv => TurnInReady
  BY DEF Inv
<1> QED BY <1>1, InvAlways, PTL

\* No timer callback starts before its deadline.
THEOREM NeverEarlyAlways == Spec => []NeverEarly
<1>1. Inv => NeverEarly
  BY DEF Inv, TimersDue, NeverEarly
<1> QED BY <1>1, InvAlways, PTL

----------------------------------------------------------------------------
(* The action properties *)

\* Only _prepare_turn moves the clock.
LEMMA ClockMovers ==
    ASSUME [Next]_vars, now' # now
    PROVE  PrepareTurn
<1>1. CASE UNCHANGED vars
  BY <1>1 DEF vars, clockVars
<1>2. CASE Quiet
  BY <1>2 DEF Quiet
<1>3. CASE CallSoon \/ CompleteFuture \/ (\E w \in 0..MaxWhen : CallAt(w))
  BY <1>3 DEF CallSoon, CompleteFuture, CallAt, clockVars
<1>4. CASE (\E h \in Handle : Cancel(h)) \/ TimeBudgetExceeded
             \/ (\E i \in DOMAIN ready : RunOnce(i))
  BY <1>4 DEF Cancel, TimeBudgetExceeded, RunOnce, clockVars
<1>5. CASE BeginShutdown \/ Close
  BY <1>5 DEF BeginShutdown, Close, clockVars
<1> QED BY <1>1, <1>2, <1>3, <1>4, <1>5, NextCases

\* Virtual time moves only while the loop is idle, and exactly to the earliest
\* live deadline within max_time.
THEOREM TimeMovesOnlyWhenIdleAlways == Spec => TimeMovesOnlyWhenIdle
<1>1. ASSUME Inv, [Next]_vars, now' # now
      PROVE  /\ now' > now /\ Live(ToSet(ready)) = {} /\ ~stopping
             /\ \E t \in Live(scheduled) : now' = when[t]
             /\ \A t \in Live(scheduled) : when[t] >= now'
             /\ recording => \A m \in TimeLimit : now' <= m
  <2>1. HandleTypes /\ CounterTypes /\ ClockLimit
    BY <1>1 DEF Inv, TypeOK
  <2>2. PrepareTurn
    BY <1>1, ClockMovers
  <2>3. now' = AdvancedTime /\ ~OverBudget
    BY <2>2 DEF PrepareTurn
  <2>4. now' \in WakeUp /\ now' > now /\ now' \in Nat
    <3>1. AdvancedTime # now => AdvancedTime \in WakeUp /\ AdvancedTime > now
      BY <2>1, ClockAdvance
    <3>2. AdvancedTime \in 0..MaxWhen
      BY <2>1, ClockAdvance
    <3> QED BY <1>1, <2>3, <3>1, <3>2, ConstantsAssumption
  <2>5. /\ Live(ToSet(ready)) = {} /\ ~stopping
        /\ \E t \in Live(scheduled) : now' = when[t]
        /\ \A t \in Live(scheduled) : now' <= when[t]
    BY <2>1, <2>4, WakeUpDeadline
  <2>6. \A t \in Live(scheduled) : when[t] \in Nat
    BY <2>1, ConstantsAssumption DEF HandleTypes, Handle, Live
  <2>7. ASSUME recording, NEW m \in TimeLimit PROVE now' <= m
    <3>1. m \in maxTime /\ m \in Nat
      BY <2>1, <2>7, ConstantsAssumption DEF ClockLimit
    <3>2. ~(now' > m)
      BY <2>3, <2>4, <3>1 DEF OverBudget
    <3> QED BY <2>4, <3>1, <3>2
  <2>8. \A t \in Live(scheduled) : when[t] >= now'
    BY <2>4, <2>5, <2>6
  <2> QED BY <2>4, <2>5, <2>7, <2>8
<1> QED BY <1>1, InvAlways, PTL DEF Spec, TimeMovesOnlyWhenIdle

\* A queue has a candidate unless none of its handles is live.
LEMMA NoCandidates ==
    ASSUME HandleTypes, Candidates = {}
    PROVE  Live(ToSet(ready)) = {}
BY DEF Candidates, Live, ToSet

\* Which actions end a run for want of work or of time.
LEMMA GivingUp ==
    ASSUME [Next]_vars, outcome' # outcome, outcome' \in {"Deadlock", "TimeBudget"}
    PROVE  \/ NothingRunnable /\ ~stopping /\ outcome' = "Deadlock"
           \/ TimeBudgetExceeded /\ outcome' = "TimeBudget"
<1>1. CASE UNCHANGED vars
  BY <1>1 DEF vars, runVars
<1>2. CASE UserCall
  BY <1>2 DEF UserCall, CallSoon, CallAt, Cancel, UserStop, CompleteFuture, runVars
<1>3. CASE PrepareTurn
  BY <1>3 DEF PrepareTurn, runVars
<1>4. CASE TimeBudgetExceeded
  BY <1>4 DEF TimeBudgetExceeded, Leave
<1>5. CASE NothingRunnable
  BY <1>5 DEF NothingRunnable, Break, Leave
<1>6. CASE StepBudgetExceeded \/ CleanupBudgetExceeded \/ ChooseFails
  BY <1>6 DEF StepBudgetExceeded, CleanupBudgetExceeded, ChooseFails, Leave
<1>7. CASE \E i \in DOMAIN ready : RunOnce(i)
  BY <1>7 DEF RunOnce, runVars
<1>8. CASE CallbackEnd
  BY <1>8 DEF CallbackEnd, CallbackReturns, CallbackInterrupts, HookAborts,
              Break, Leave, runVars
<1>9. CASE Lifecycle
  BY <1>9 DEF Lifecycle, RunUntilComplete, BeginShutdown, Close, runVars
<1> QED BY <1>1, <1>2, <1>3, <1>4, <1>5, <1>6, <1>7, <1>8, <1>9 DEF Next, LoopStep

\* Deadlock and TimeBudgetExceeded are raised only for what they state.
THEOREM GivesUpHonestlyAlways == Spec => GivesUpHonestly
<1>1. ASSUME Inv, [Next]_vars, outcome' = "Deadlock", outcome # "Deadlock"
      PROVE  Live(ToSet(ready)) = {} /\ Live(scheduled) = {}
  <2>1. HandleTypes /\ TurnInReady /\ TurnPrepared
    BY <1>1 DEF Inv, TypeOK
  <2>2. NothingRunnable /\ ~stopping
    BY <1>1, GivingUp
  <2>3. AtSelect /\ Live(ToSet(ready)) = {}
    BY <2>1, <2>2, NoCandidates DEF NothingRunnable
  <2>4. CASE pc = "select"
    BY <2>1, <2>2, <2>3, <2>4 DEF TurnPrepared
  <2>5. CASE pc = "run_once" /\ ~TurnExhausted
    BY <2>1, <2>3, <2>5 DEF TurnInReady, TurnExhausted, Live
  <2> QED BY <2>3, <2>4, <2>5 DEF AtSelect
<1>2. ASSUME Inv, [Next]_vars, outcome' = "TimeBudget", outcome # "TimeBudget"
      PROVE  /\ Live(ToSet(ready)) = {} /\ Live(scheduled) # {} /\ recording
             /\ \A t \in Live(scheduled), m \in TimeLimit : when[t] > m
  <2>1. HandleTypes /\ ClockLimit
    BY <1>2 DEF Inv, TypeOK
  <2>2. OverBudget
    BY <1>2, GivingUp DEF TimeBudgetExceeded
  <2>3. PICK w \in WakeUp, limit \in maxTime : w > now /\ w > limit
    BY <2>2 DEF OverBudget
  <2>4. /\ Live(ToSet(ready)) = {} /\ \E t \in Live(scheduled) : w = when[t]
        /\ \A t \in Live(scheduled) : w <= when[t]
    BY <2>1, WakeUpDeadline
  <2>5. recording /\ limit \in TimeLimit
    BY <2>1 DEF ClockLimit
  <2>6. \A m \in TimeLimit : m = limit /\ m \in Nat
    BY <2>5, ConstantsAssumption
  <2>7. \A t \in Live(scheduled) : when[t] \in Nat
    BY <2>1, ConstantsAssumption DEF HandleTypes, Handle, Live
  <2>8. w \in Nat
    BY <2>4, <2>7
  <2>9. \A t \in Live(scheduled), m \in TimeLimit : when[t] > m
    BY <2>3, <2>4, <2>6, <2>7, <2>8
  <2> QED BY <2>4, <2>5, <2>9
<1> QED BY <1>1, <1>2, InvAlways, PTL DEF Spec, GivesUpHonestly

----------------------------------------------------------------------------
(* Whose stop it is: the completion callback of the awaited future *)

\* The completion callbacks still queued.
Completions == {h \in ToSet(ready) : kind[h] = "completion"}

\* At most one completion callback is queued, and while a run is on it belongs to
\* the future awaited by it.  An aborted scenario may leave one behind, but no run
\* starts before begin_shutdown has removed it; in the cleanup only the completion
\* of the awaited future stops the loop.
StopOwner ==
    /\ \A h \in scheduled : kind[h] # "completion"
    /\ \A g, h \in Completions : g = h
    /\ pc \in {"run_once", "select", "callback"} =>
           /\ runs # 0 /\ future \in {"pending", "done"}
           /\ future = "pending" => Completions = {}
           /\ ~recording /\ stopping => future = "done" /\ Completions = {}
    /\ pc = "idle" =>
           /\ ~stopping
           /\ recording /\ runs = 0 => Completions = {}
           /\ ~recording /\ outcome \in {"none", "returned"} => Completions = {}
    /\ NoStaleStop

\* A new handle that is no completion callback adds none.
LEMMA CompletionsAfterNew ==
    ASSUME HandleTypes, NEW k \in {"soon", "timer", "completion"},
           NEW w \in 0..MaxWhen, NewHandle(k, w)
    PROVE  /\ ready' = Append(ready, created + 1) =>
                  Completions' = Completions \cup
                                 (IF k = "completion" THEN {created + 1} ELSE {})
           /\ ready' = ready => Completions' = Completions
           /\ \A h \in 1..created : kind'[h] = kind[h]
<1>1. /\ created' = created + 1 /\ created + 1 \notin 1..created
      /\ 1..created' = (1..created) \cup {created + 1}
      /\ kind'[created + 1] = k /\ \A h \in 1..created : kind'[h] = kind[h]
  BY NewHandleTypes
<1>2. ToSet(ready) \subseteq 1..created
  BY ReadySet
<1>3. ASSUME ready' = Append(ready, created + 1)
      PROVE  Completions' = Completions \cup
                            (IF k = "completion" THEN {created + 1} ELSE {})
  <2>1. ToSet(ready)' = ToSet(ready) \cup {created + 1}
    BY <1>1, <1>3, NewReady
  <2> QED BY <1>1, <1>2, <2>1 DEF Completions
<1>4. ASSUME ready' = ready PROVE Completions' = Completions
  <2>1. ToSet(ready)' = ToSet(ready)
    BY <1>4 DEF ToSet
  <2> QED BY <1>1, <1>2, <2>1 DEF Completions
<1> QED BY <1>1, <1>3, <1>4

\* Every action keeps the ownership of the stop, when stop() is called by
\* callbacks of the scenario only.
LEMMA StopOwnerStep ==
    ASSUME StopPhases \subseteq {"scenario"}, Inv, StopOwner, [Next]_vars
    PROVE  StopOwner'
<1> USE DEF StopOwner, NoStaleStop
<1>0. /\ HandleTypes /\ ControlTypes /\ OnePlace
      /\ pc = "callback" => current \in 1..created
      /\ ToSet(ready) \subseteq 1..created
  BY ReadySet DEF Inv, TypeOK, TimersDue, HandleTypes
<1>1. CASE CallSoon
  <2>1. /\ NewHandle("soon", 0) /\ ready' = Append(ready, created + 1)
        /\ UNCHANGED <<scheduled, stopping, recording, pc, current, future, runs, outcome>>
    BY <1>1 DEF CallSoon, timerVars, budgetVars, runVars
  <2>2. Completions' = Completions /\ \A h \in 1..created : kind'[h] = kind[h]
    BY <1>0, <2>1, CompletionsAfterNew, ConstantsAssumption
  <2> QED BY <1>0, <2>1, <2>2 DEF HandleTypes
<1>2. CASE CompleteFuture
  <2>1. /\ NewHandle("completion", 0) /\ ready' = Append(ready, created + 1)
        /\ pc = "callback" /\ future = "pending" /\ future' = "done"
        /\ UNCHANGED <<scheduled, stopping, recording, pc, current, runs, outcome>>
    BY <1>2 DEF CompleteFuture, timerVars, budgetVars
  <2>2. "completion" \in {"soon", "timer", "completion"} /\ 0 \in 0..MaxWhen
    BY ConstantsAssumption
  <2>3. /\ Completions' = Completions \cup {created + 1}
        /\ \A h \in 1..created : kind'[h] = kind[h]
    BY <1>0, <2>1, <2>2, CompletionsAfterNew
  <2>4. Completions' = {created + 1} /\ ~(~recording /\ stopping)
    BY <2>1, <2>3
  <2> QED BY <1>0, <2>1, <2>3, <2>4 DEF HandleTypes
<1>3. ASSUME NEW w \in 0..MaxWhen, CallAt(w)
      PROVE  StopOwner'
  <2>1. /\ NewHandle("timer", w) /\ ready' = ready
        /\ scheduled' = scheduled \cup {created + 1}
        /\ UNCHANGED <<stopping, recording, pc, current, future, runs, outcome>>
    BY <1>3 DEF CallAt, budgetVars, runVars
  <2>2. Completions' = Completions /\ \A h \in 1..created : kind'[h] = kind[h]
    BY <1>0, <2>1, CompletionsAfterNew
  <2>3. kind'[created + 1] = "timer"
    BY <1>0, <2>1, NewHandleTypes
  <2>4. \A h \in scheduled' : kind'[h] # "completion"
    BY <1>0, <2>1, <2>2, <2>3 DEF HandleTypes
  <2> QED BY <1>0, <2>1, <2>2, <2>4
<1>4. ASSUME NEW h \in Handle, Cancel(h)
      PROVE  StopOwner'
  <2>1. UNCHANGED <<kind, ready, scheduled, stopping, recording, pc, current,
                    future, runs, outcome>>
    BY <1>4 DEF Cancel, handleVars, budgetVars, runVars
  <2>2. Completions' = Completions
    BY <2>1 DEF Completions, ToSet
  <2> QED BY <2>1, <2>2
<1>5. CASE PrepareTurn
  <2>1. /\ pc = "run_once" /\ pc' = "select"
        /\ scheduled' = (scheduled \ DeadHeads) \ Due
        /\ ToSet(ready)' = ToSet(Purged) \cup Live(Due)
        /\ UNCHANGED <<kind, stopping, recording, future, runs>>
    BY <1>0, <1>5, PrepareTurnEffect
  <2>2. Completions' \subseteq Completions
    BY <1>0, <2>1, PurgedSet, DueTimers DEF Completions
  <2> QED BY <2>1, <2>2
<1>6. CASE TimeBudgetExceeded
  <2>1. /\ pc = "run_once" /\ pc' = "idle" /\ ready' = Purged
        /\ scheduled' = scheduled \ DeadHeads /\ ~stopping'
        /\ outcome' = "TimeBudget" /\ UNCHANGED <<kind, runs, recording>>
    BY <1>6 DEF TimeBudgetExceeded, NeedsTurn, Leave, handleVars, budgetVars
  <2>2. ToSet(ready)' \subseteq ToSet(ready)
    BY <2>1, PurgedSet DEF ToSet
  <2>3. Completions' \subseteq Completions
    BY <2>1, <2>2 DEF Completions
  <2> QED BY <2>1, <2>3 DEF Inv, TypeOK
<1>7. ASSUME NEW i \in DOMAIN ready, RunOnce(i)
      PROVE  StopOwner'
  <2>1. /\ pc \in {"run_once", "select"} /\ pc' = "callback" /\ current' = ready[i]
        /\ ready' = RemoveAt(ready, i)
        /\ stopping' = (stopping \/ kind[ready[i]] = "completion")
        /\ UNCHANGED <<kind, scheduled, recording, future, runs>>
    BY <1>7 DEF RunOnce, AtSelect, Dequeue, handleVars, timerVars, runVars
  <2>2. ToSet(RemoveAt(ready, i)) = ToSet(ready) \ {ready[i]}
    BY <1>0, RemoveAtElements DEF HandleTypes, OnePlace
  <2>3. ready[i] \in ToSet(ready) /\ ToSet(ready)' = ToSet(ready')
    BY DEF ToSet
  <2>4. Completions' = Completions \ {ready[i]}
    BY <2>1, <2>2, <2>3 DEF Completions
  <2>5. kind[ready[i]] = "completion" => future = "done" /\ Completions' = {}
    BY <2>1, <2>3, <2>4 DEF Completions
  <2>6. ~recording /\ stopping' => future = "done" /\ Completions' = {}
    BY <1>0, <2>1, <2>4, <2>5 DEF ControlTypes
  <2> QED BY <2>1, <2>4, <2>5, <2>6
<1>8. CASE BeginShutdown
  <2>1. /\ pc = "idle" /\ pc' = "idle" /\ recording' = FALSE
        /\ UNCHANGED <<kind, scheduled, stopping>>
    BY <1>8 DEF BeginShutdown, handleVars, timerVars
  <2>2. ToSet(ready)' = {h \in ToSet(ready) : kind[h] # "completion"}
    BY <1>0, <1>8, BeginShutdownQueue
  <2>3. Completions' = {}
    BY <2>1, <2>2 DEF Completions
  <2> QED BY <2>1, <2>3
<1>9. CASE Close
  <2>1. pc' = "closed" /\ ready' = << >> /\ scheduled' = {}
    BY <1>9 DEF Close
  <2>2. Completions' = {}
    BY <2>1 DEF Completions, ToSet
  <2> QED BY <2>1, <2>2
<1>10. CASE Quiet
  <2>1. Completions' = Completions /\ UNCHANGED <<kind, scheduled, recording>>
    BY <1>10 DEF Quiet, Completions, ToSet
  <2>2. CASE UserStop
    <3>0. runs = 0 \/ runs > 0
      BY ConstantsAssumption DEF Inv, TypeOK, CounterTypes
    <3>1. pc = "callback" /\ recording /\ UNCHANGED <<pc, current, future, runs>>
      BY <2>2, <3>0 DEF UserStop, InUserCode, Phase, runVars
    <3> QED BY <2>1, <3>1
  <2>3. CASE RunUntilComplete
    <3>1. /\ pc = "idle" /\ pc' = "run_once" /\ future' = "pending"
          /\ runs' = runs + 1 /\ stopping' = stopping
          /\ (recording => runs = 0) /\ outcome \in {"none", "returned"}
      BY <2>3 DEF RunUntilComplete
    <3>2. runs' # 0
      BY <3>1 DEF Inv, TypeOK, CounterTypes
    <3>3. ~stopping' /\ Completions' = {}
      BY <1>0, <2>1, <3>1 DEF ControlTypes
    <3> QED BY <2>1, <3>1, <3>2, <3>3
  <2>4. CASE CallbackReturns /\ ~stopping
    <3>1. /\ pc = "callback" /\ pc' = "run_once"
          /\ UNCHANGED <<stopping, future, runs, outcome>>
      BY <2>4 DEF CallbackReturns, runVars
    <3> QED BY <2>1, <3>1
  <2>5. CASE \/ NothingRunnable \/ StepBudgetExceeded \/ CleanupBudgetExceeded
             \/ ChooseFails \/ (CallbackReturns /\ stopping) \/ CallbackInterrupts
             \/ HookAborts
    <3>1. /\ pc \in {"run_once", "select", "callback"} /\ pc' = "idle"
          /\ ~stopping' /\ runs' = runs
      BY <2>5 DEF NothingRunnable, StepBudgetExceeded, CleanupBudgetExceeded,
            ChooseFails, CallbackReturns, CallbackInterrupts, HookAborts, AtSelect,
            Break, Leave
    <3>2. \/ stopping
          \/ outcome' \notin {"none", "returned"}
      BY <2>5 DEF NothingRunnable, StepBudgetExceeded, CleanupBudgetExceeded,
            ChooseFails, CallbackReturns, CallbackInterrupts, HookAborts, Leave
    <3> QED BY <2>1, <3>1, <3>2
  <2> QED BY <1>10, <2>2, <2>3, <2>4, <2>5 DEF Quiet
<1>11. CASE UNCHANGED vars
  <2>1. UNCHANGED <<kind, ready, scheduled, stopping, recording, pc, current,
                    future, runs, outcome>>
    BY <1>11 DEF vars, handleVars, timerVars, budgetVars, runVars
  <2>2. Completions' = Completions
    BY <2>1 DEF Completions, ToSet
  <2> QED BY <2>1, <2>2
<1> QED BY <1>1, <1>2, <1>3, <1>4, <1>5, <1>6, <1>7, <1>8, <1>9, <1>10, <1>11, NextCases

\* A completion callback left behind by an aborted run never stops another run,
\* as long as stop() is called by callbacks of the scenario only.
THEOREM NoStaleStopAlways ==
    ASSUME StopPhases \subseteq {"scenario"}
    PROVE  Spec => []NoStaleStop
<1>1. Init => StopOwner
  BY DEF Init, StopOwner, NoStaleStop, Completions, ToSet
<1>2. StopOwner /\ Inv /\ [Next]_vars => StopOwner'
  BY StopOwnerStep
<1>3. StopOwner => NoStaleStop
  BY DEF StopOwner
<1> QED BY <1>1, <1>2, <1>3, InvAlways, PTL DEF Spec

----------------------------------------------------------------------------
(* The contract *)

\* What the contract sees besides the queues: a deadline is a timer's, and nobody
\* is active but the callback being executed.
ContractView ==
    /\ \A h \in Handle : kind[h] # "timer" => when[h] = 0
    /\ pc # "callback" => current = 0

\* Where a handle is, given that it is at one place.
Place(h) ==
    IF h \notin 1..created THEN "unborn"
    ELSE IF h \in ran THEN "started"
    ELSE IF h \in cancelled THEN "revoked"
    ELSE IF h \in ToSet(ready) THEN "runnable"
    ELSE IF h \in scheduled THEN "waiting" ELSE "dropped"

\* What a handle is in the contract follows from its place.
LEMMA AbstractedPlace ==
    ASSUME HandleTypes, OnePlace, NEW h \in Handle
    PROVE  Abstracted(h) = Place(h)
<1>1. /\ ran \subseteq 1..created /\ scheduled \subseteq 1..created
      /\ ToSet(ready) \subseteq 1..created
      /\ ToSet(ready) \cap scheduled = {} /\ ran \cap (ToSet(ready) \cup scheduled) = {}
  BY ReadySet DEF HandleTypes, OnePlace
<1>2. \A x, S : x \in Live(S) <=> x \in S /\ x \notin cancelled
  BY DEF Live
<1>3. (h <= created <=> h \in 1..created) /\ (h > created <=> h \notin 1..created)
  <2>1. created \in Nat /\ h \in Nat /\ 1 <= h
    BY ConstantsAssumption DEF HandleTypes, Handle
  <2> QED BY <2>1
<1>4. CASE h \notin 1..created
  BY <1>1, <1>2, <1>3, <1>4 DEF Abstracted, Place
<1>5. CASE h \in ran
  BY <1>1, <1>2, <1>3, <1>5 DEF Abstracted, Place
<1>6. CASE h \in 1..created /\ h \notin ran /\ h \in cancelled
  BY <1>1, <1>2, <1>3, <1>6 DEF Abstracted, Place
<1>7. CASE h \in 1..created /\ h \notin ran /\ h \notin cancelled /\ h \in ToSet(ready)
  BY <1>1, <1>2, <1>3, <1>7 DEF Abstracted, Place
<1>8. CASE h \in 1..created /\ h \notin ran /\ h \notin cancelled /\ h \notin ToSet(ready)
            /\ h \in scheduled
  BY <1>1, <1>2, <1>3, <1>8 DEF Abstracted, Place
<1>9. CASE h \in 1..created /\ h \notin ran /\ h \notin cancelled /\ h \notin ToSet(ready)
            /\ h \notin scheduled
  BY <1>1, <1>2, <1>3, <1>9 DEF Abstracted, Place
<1> QED BY <1>4, <1>5, <1>6, <1>7, <1>8, <1>9

\* Every action keeps the view: only call_at sets a deadline, and leaving the loop
\* or a callback forgets the handle.
LEMMA ContractViewStep ==
    ASSUME HandleTypes, ContractView, [Next]_vars
    PROVE  ContractView'
<1> USE DEF ContractView
<1>1. ASSUME NEW k \in {"soon", "timer", "completion"}, NEW w \in 0..MaxWhen,
             NewHandle(k, w), k # "timer" => w = 0, UNCHANGED <<pc, current>>
      PROVE  ContractView'
  <2>1. /\ created + 1 \in Handle /\ kind \in [Handle -> {"soon", "timer", "completion"}]
        /\ when \in [Handle -> 0..MaxWhen]
    BY <1>1, NewHandleTypes DEF HandleTypes
  <2>2. /\ kind' = [kind EXCEPT ![created + 1] = k] /\ when' = [when EXCEPT ![created + 1] = w]
    BY <1>1 DEF NewHandle
  <2> QED BY <1>1, <2>1, <2>2
<1>2. CASE CallSoon
  BY <1>1, <1>2, ConstantsAssumption DEF CallSoon
<1>3. CASE CompleteFuture
  BY <1>1, <1>3, ConstantsAssumption DEF CompleteFuture
<1>4. ASSUME NEW w \in 0..MaxWhen, CallAt(w)
      PROVE  ContractView'
  BY <1>1, <1>4 DEF CallAt
<1>5. ASSUME NEW h \in Handle, Cancel(h)
      PROVE  ContractView'
  BY <1>5 DEF Cancel, handleVars
<1>6. CASE PrepareTurn
  BY <1>6 DEF PrepareTurn, NeedsTurn, handleVars
<1>7. CASE TimeBudgetExceeded
  BY <1>7 DEF TimeBudgetExceeded, Leave, handleVars
<1>8. ASSUME NEW i \in DOMAIN ready, RunOnce(i)
      PROVE  ContractView'
  BY <1>8 DEF RunOnce, handleVars
<1>9. CASE BeginShutdown
  BY <1>9 DEF BeginShutdown, handleVars
<1>10. CASE Close
  BY <1>10 DEF Close, handleVars
<1>11. CASE Quiet
  <2>1. UNCHANGED <<kind, when>>
    BY <1>11 DEF Quiet
  <2>2. \/ UNCHANGED <<pc, current>>
        \/ current' = 0
        \/ pc = "idle" /\ current' = current
    BY <1>11 DEF Quiet, UserStop, NothingRunnable, StepBudgetExceeded, CleanupBudgetExceeded,
          ChooseFails, CallbackReturns, CallbackInterrupts, HookAborts, RunUntilComplete,
          Break, Leave
  <2> QED BY <2>1, <2>2
<1>12. CASE UNCHANGED vars
  BY <1>12 DEF vars, handleVars
<1> QED BY <1>2, <1>3, <1>4, <1>5, <1>6, <1>7, <1>8, <1>9, <1>10, <1>11, <1>12, NextCases

\* A new handle: runnable at once, or a timer that waits for its deadline.
LEMMA ContractRegister ==
    ASSUME HandleTypes,
           \A h \in Handle : Abstracted(h) = Place(h),
           (\A h \in Handle : Abstracted(h) = Place(h))',
           NEW k \in {"soon", "timer", "completion"}, NEW w \in 0..MaxWhen, NewHandle(k, w),
           k # "timer" => w = 0, UNCHANGED <<cancelled, ran, now, current>>,
           \/ /\ k # "timer" /\ scheduled' = scheduled
              /\ ToSet(ready)' = ToSet(ready) \cup {created + 1}
           \/ /\ k = "timer" /\ scheduled' = scheduled \cup {created + 1}
              /\ ToSet(ready)' = ToSet(ready)
    PROVE  Contract!CNext
<1> DEFINE st == IF k = "timer" THEN "waiting" ELSE "runnable"
<1>0. PICK c \in Handle : c = created + 1
  BY NewHandleTypes
<1>1. /\ created' = c /\ c \notin 1..created /\ 1..created' = (1..created) \cup {c}
  BY <1>0, NewHandleTypes
<1>2. when' = [when EXCEPT ![c] = w]
  BY <1>0 DEF NewHandle
<1>3. /\ c \notin cancelled /\ c \notin ran /\ c \notin scheduled /\ c \notin ToSet(ready)
  BY <1>1, ReadySet DEF HandleTypes
<1>4. \A h \in Handle : Abstracted(h)' = Place(h)'
  OBVIOUS
<1>5. Abstracted(c) = "unborn" /\ Abstracted(c)' = st
  BY <1>0, <1>1, <1>3, <1>4 DEF Place
<1>6. ASSUME NEW h \in Handle, h # c PROVE Abstracted(h)' = Abstracted(h)
  BY <1>0, <1>1, <1>3, <1>4, <1>6 DEF Place
<1>7. Contract!Register(c, w, st)
  <2> HIDE DEF st
  <2>1. st = "runnable" => w = 0
    BY DEF st
  <2> QED BY <1>1, <1>2, <1>5, <1>6, <2>1 DEF Contract!Register
<1>8. st \in {"waiting", "runnable"}
  OBVIOUS
<1> HIDE DEF st
<1> QED BY <1>1, <1>7, <1>8 DEF Contract!CNext


\* Preparing a turn wakes the timers that are due, after the time to the earliest
\* deadline if nothing can run.
LEMMA ContractWake ==
    ASSUME Inv, ContractView,
           \A h \in Handle : Abstracted(h) = Place(h),
           (\A h \in Handle : Abstracted(h) = Place(h))',
           PrepareTurn
    PROVE  Contract!CNext
<1>0. HandleTypes /\ CounterTypes /\ OnePlace
  BY DEF Inv, TypeOK
<1>1. /\ pc = "run_once" /\ now' = AdvancedTime
      /\ scheduled' = (scheduled \ DeadHeads) \ Due
      /\ ToSet(ready)' = ToSet(Purged) \cup Live(Due)
      /\ UNCHANGED <<created, when, cancelled, ran, current>>
  BY <1>0, PrepareTurnEffect
<1>2. /\ ToSet(Purged) \subseteq ToSet(ready)
      /\ Live(ToSet(Purged)) = Live(ToSet(ready))
  BY PurgedSet
<1>3. \A x, S : x \in Live(S) <=> x \in S /\ x \notin cancelled
  BY DEF Live
<1>4. /\ DeadHeads \subseteq cancelled /\ Due \subseteq scheduled
      /\ \A t : t \in Due <=> t \in scheduled /\ t \notin DeadHeads /\ when[t] <= now'
  BY <1>1 DEF DeadHeads, Due
<1>5. current = 0
  BY <1>1 DEF ContractView
<1>6. /\ ran \subseteq 1..created /\ scheduled \subseteq 1..created
      /\ ToSet(ready) \subseteq 1..created
      /\ ToSet(ready) \cap scheduled = {} /\ ran \cap (ToSet(ready) \cup scheduled) = {}
  BY <1>0, ReadySet DEF HandleTypes, OnePlace
<1>7. \A h \in Handle : Abstracted(h) = Place(h) /\ Abstracted(h)' = Place(h)'
  OBVIOUS
<1>8. \A h \in Handle : Abstracted(h) = "waiting" <=> h \in scheduled /\ h \notin cancelled
  BY <1>6, <1>7 DEF Place
<1>9. \A h \in Handle : Abstracted(h) = "runnable" <=> h \in ToSet(ready) /\ h \notin cancelled
  BY <1>6, <1>7 DEF Place
<1>10. ASSUME NEW h \in Handle
       PROVE  Abstracted(h)' = IF Abstracted(h) = "waiting" /\ when[h] <= now'
                               THEN "runnable" ELSE Abstracted(h)
  <2>1. CASE h \notin 1..created \/ h \in ran \/ h \in cancelled
    BY <1>1, <1>6, <1>7, <2>1 DEF Place
  <2>2. CASE h \in 1..created /\ h \notin ran /\ h \notin cancelled
    <3>1. h \in ToSet(Purged) <=> h \in ToSet(ready)
      BY <1>2, <1>3, <2>2
    <3>2. h \in Due <=> h \in scheduled /\ when[h] <= now'
      BY <1>4, <2>2
    <3>3. h \in ToSet(ready)' <=> h \in ToSet(ready) \/ h \in Due
      BY <1>1, <1>3, <2>2, <3>1
    <3>4. h \in scheduled' <=> h \in scheduled /\ h \notin Due
      BY <1>1, <1>4, <2>2
    <3> QED BY <1>1, <1>6, <1>7, <2>2, <3>2, <3>3, <3>4 DEF Place
  <2> QED BY <2>1, <2>2
<1>11. now' # now =>
          /\ \A h \in Handle : Abstracted(h) # "runnable"
          /\ now' > now
          /\ \E h \in Handle : Abstracted(h) = "waiting" /\ now' = when[h]
          /\ \A h \in Handle : Abstracted(h) = "waiting" => now' <= when[h]
  <2> SUFFICES ASSUME now' # now
               PROVE  /\ \A h \in Handle : Abstracted(h) # "runnable"
                      /\ now' > now
                      /\ \E h \in Handle : Abstracted(h) = "waiting" /\ now' = when[h]
                      /\ \A h \in Handle : Abstracted(h) = "waiting" => now' <= when[h]
    OBVIOUS
  <2>1. now' \in WakeUp /\ now' > now
    BY <1>0, <1>1, ClockAdvance
  <2>2. /\ Live(ToSet(ready)) = {}
        /\ \E t \in Live(scheduled) : now' = when[t]
        /\ \A t \in Live(scheduled) : now' <= when[t]
    BY <1>0, <2>1, WakeUpDeadline
  <2>3. 1..created \subseteq Handle
    BY <1>0, ConstantsAssumption DEF HandleTypes, Handle
  <2> QED BY <1>3, <1>6, <1>8, <1>9, <2>1, <2>2, <2>3
<1>12. Contract!Wake
  BY <1>1, <1>5, <1>10, <1>11 DEF Contract!Wake, Contract!With
<1> QED BY <1>12 DEF Contract!CNext

\* Starting a callback: it was runnable and, if it is a timer's, due.
LEMMA ContractStart ==
    ASSUME Inv, ContractView,
           \A h \in Handle : Abstracted(h) = Place(h),
           (\A h \in Handle : Abstracted(h) = Place(h))',
           NEW i \in DOMAIN ready, RunOnce(i)
    PROVE  Contract!CNext
<1>0. HandleTypes /\ CounterTypes /\ OnePlace /\ TimersDue
  BY DEF Inv, TypeOK
<1>1. /\ pc \in {"run_once", "select"} /\ ready[i] \notin cancelled
      /\ ready' = RemoveAt(ready, i)
      /\ ran' = ran \cup {ready[i]} /\ current' = ready[i]
      /\ UNCHANGED <<created, when, cancelled, scheduled, now>>
  BY DEF RunOnce, AtSelect, Selectable, Candidates, Dequeue, handleVars, timerVars, clockVars
<1>2. PICK c \in Handle : c = ready[i]
  <2>1. ready[i] \in 1..created
    BY <1>0, ReadySet
  <2> QED BY <1>0, <2>1, ConstantsAssumption DEF HandleTypes, Handle
<1>3. /\ ran \subseteq 1..created /\ scheduled \subseteq 1..created
      /\ ToSet(ready) \subseteq 1..created /\ c \in ToSet(ready)
      /\ ToSet(ready) \cap scheduled = {} /\ ran \cap (ToSet(ready) \cup scheduled) = {}
  BY <1>0, <1>2, ReadySet DEF HandleTypes, OnePlace
<1>4. \A h \in Handle : Abstracted(h) = Place(h) /\ Abstracted(h)' = Place(h)'
  OBVIOUS
<1>5. ToSet(ready)' = ToSet(ready) \ {c}
  <2>1. ready \in Seq(1..created)
    BY <1>0 DEF HandleTypes
  <2>2. \A k, l \in DOMAIN ready : ready[k] = ready[l] => k = l
    BY <1>0 DEF OnePlace
  <2>3. ToSet(RemoveAt(ready, i)) = ToSet(ready) \ {ready[i]}
    BY <2>1, <2>2, RemoveAtElements
  <2> QED BY <1>1, <1>2, <2>3 DEF ToSet
<1>6. current = 0 /\ c # 0
  BY <1>1, ConstantsAssumption DEF ContractView, Handle
<1>7. Abstracted(c) = "runnable" /\ Abstracted(c)' = "started"
  BY <1>1, <1>2, <1>3, <1>4 DEF Place
<1>8. ASSUME NEW h \in Handle, h # c PROVE Abstracted(h)' = Abstracted(h)
  BY <1>1, <1>2, <1>3, <1>4, <1>5, <1>8 DEF Place
<1>9. when[c] <= now
  <2>1. CASE kind[c] = "timer"
    BY <1>0, <1>3, <2>1 DEF TimersDue
  <2>2. CASE kind[c] # "timer"
    <3>1. when[c] = 0 /\ now \in Nat
      BY <1>0, <2>2, ConstantsAssumption DEF ContractView, CounterTypes
    <3> QED BY <3>1
  <2> QED BY <2>1, <2>2
<1>10. Contract!Start(c)
  BY <1>1, <1>2, <1>6, <1>7, <1>8, <1>9 DEF Contract!Start
<1> QED BY <1>10 DEF Contract!CNext


\* Cancelling a handle revokes it, unless its callback was started before.
LEMMA ContractRevoke ==
    ASSUME Inv,
           \A h \in Handle : Abstracted(h) = Place(h),
           (\A h \in Handle : Abstracted(h) = Place(h))',
           NEW c \in Handle, Cancel(c)
    PROVE  Contract!CNext \/ UNCHANGED Contract!cvars
<1>1. /\ c \in 1..created /\ c \notin cancelled /\ cancelled' = cancelled \cup {c}
      /\ UNCHANGED <<created, when, ready, scheduled, ran, now, current>>
  BY DEF Cancel, handleVars, budgetVars, clockVars
<1>2. ToSet(ready)' = ToSet(ready)
  BY <1>1 DEF ToSet
<1>3. \A h \in Handle : Abstracted(h) = Place(h) /\ Abstracted(h)' = Place(h)'
  OBVIOUS
<1>4. ASSUME NEW h \in Handle, h # c \/ c \in ran PROVE Abstracted(h)' = Abstracted(h)
  BY <1>1, <1>2, <1>3, <1>4 DEF Place
<1>5. CASE c \in ran
  BY <1>1, <1>4, <1>5 DEF Contract!cvars
<1>6. CASE c \notin ran
  <2>1. Abstracted(c) \in {"waiting", "runnable", "dropped"} /\ Abstracted(c)' = "revoked"
    BY <1>1, <1>3, <1>6 DEF Place
  <2>2. Contract!Revoke(c)
    BY <1>1, <1>4, <2>1 DEF Contract!Revoke
  <2> QED BY <2>2 DEF Contract!CNext
<1> QED BY <1>5, <1>6

\* Shutting down forgets callbacks: the completion callback of the scenario, and
\* all that is left when the loop is closed.
LEMMA ContractForget ==
    ASSUME Inv, ContractView,
           \A h \in Handle : Abstracted(h) = Place(h),
           (\A h \in Handle : Abstracted(h) = Place(h))',
           BeginShutdown \/ Close
    PROVE  Contract!CNext
<1>0. HandleTypes /\ OnePlace
  BY DEF Inv, TypeOK
<1>1. /\ pc = "idle"
      /\ UNCHANGED <<created, when, cancelled, ran, now, current>>
  BY DEF BeginShutdown, Close, handleVars, budgetVars, clockVars
<1>2. ToSet(ready)' \subseteq ToSet(ready) /\ scheduled' \subseteq scheduled
  <2>1. CASE BeginShutdown
    <3>1. scheduled' = scheduled
      BY <2>1 DEF BeginShutdown, timerVars
    <3> QED BY <1>0, <2>1, <3>1, BeginShutdownQueue
  <2>2. CASE Close
    BY <2>2 DEF Close, ToSet
  <2> QED BY <2>1, <2>2
<1>3. current = 0
  BY <1>1 DEF ContractView
<1>4. ToSet(ready) \cap scheduled = {}
  BY <1>0 DEF OnePlace
<1>5. \A h \in Handle : Abstracted(h) = Place(h) /\ Abstracted(h)' = Place(h)'
  OBVIOUS
<1>6. ASSUME NEW h \in Handle
      PROVE  \/ Abstracted(h)' = Abstracted(h)
             \/ Abstracted(h) \in {"waiting", "runnable"} /\ Abstracted(h)' = "dropped"
  BY <1>1, <1>2, <1>4, <1>5 DEF Place
<1> DEFINE gone == {h \in Handle : Abstracted(h)' # Abstracted(h)}
<1>7. PICK D \in SUBSET Handle : D = gone
  OBVIOUS
<1>8. \A h \in D : Abstracted(h) \in {"waiting", "runnable"}
  BY <1>6, <1>7
<1>9. \A h \in Handle : Abstracted(h)' = IF h \in D THEN "dropped" ELSE Abstracted(h)
  BY <1>6, <1>7
<1> HIDE DEF gone
<1>10. Contract!Forget
  <2>1. D \in SUBSET (Contract!With("runnable") \cup Contract!With("waiting"))
    BY <1>8 DEF Contract!With
  <2>2. [h \in Handle |-> Abstracted(h)]'
            = [h \in Handle |-> IF h \in D THEN "dropped" ELSE [g \in Handle |-> Abstracted(g)][h]]
    BY <1>9
  <2> QED BY <1>1, <1>3, <2>1, <2>2 DEF Contract!Forget
<1> QED BY <1>10 DEF Contract!CNext

\* The other actions move no handle; a callback ends, or nothing happens at all.
LEMMA ContractQuiet ==
    ASSUME Inv, ContractView, ContractView',
           \A h \in Handle : Abstracted(h) = Place(h),
           (\A h \in Handle : Abstracted(h) = Place(h))',
           Quiet \/ TimeBudgetExceeded \/ UNCHANGED vars
    PROVE  Contract!CNext \/ UNCHANGED Contract!cvars
<1>1. UNCHANGED <<created, when, cancelled, ran, now>>
  BY DEF Quiet, TimeBudgetExceeded, handleVars, budgetVars, clockVars, vars
<1>2. Live(ToSet(ready))' = Live(ToSet(ready)) /\ Live(scheduled)' = Live(scheduled)
  <2>1. CASE Quiet \/ UNCHANGED vars
    <3>1. UNCHANGED <<ready, scheduled, cancelled>>
      BY <2>1 DEF Quiet, vars, timerVars
    <3> QED BY <3>1 DEF Live, ToSet
  <2>2. CASE TimeBudgetExceeded
    <3>1. ready' = Purged /\ scheduled' = scheduled \ DeadHeads /\ cancelled' = cancelled
      BY <2>2 DEF TimeBudgetExceeded
    <3>2. Live(ToSet(ready))' = ToSet(Purged) \ cancelled
      BY <3>1 DEF Live, ToSet
    <3>3. Live(scheduled)' = (scheduled \ DeadHeads) \ cancelled
      BY <3>1 DEF Live
    <3>4. DeadHeads \subseteq cancelled
      BY DEF DeadHeads
    <3>5. ToSet(Purged) \ cancelled = Live(ToSet(ready))
      BY PurgedSet DEF Live
    <3> QED BY <3>2, <3>3, <3>4, <3>5 DEF Live
  <2> QED BY <2>1, <2>2
<1>3. \A h \in Handle : Abstracted(h)' = Abstracted(h)
  <2>1. \A h \in Handle : Abstracted(h) = Place(h) /\ Abstracted(h)' = Place(h)'
    OBVIOUS
  <2>2. \A h : h \notin cancelled =>
            /\ h \in ToSet(ready)' <=> h \in ToSet(ready)
            /\ h \in scheduled' <=> h \in scheduled
    BY <1>1, <1>2 DEF Live
  <2> QED BY <1>1, <2>1, <2>2 DEF Place
<1>4. current' = current \/ current' = 0
  BY DEF Quiet, TimeBudgetExceeded, UserStop, NothingRunnable, StepBudgetExceeded,
         CleanupBudgetExceeded, ChooseFails, CallbackReturns, CallbackInterrupts, HookAborts,
         RunUntilComplete, Break, Leave, vars
<1>5. CASE current' = current
  BY <1>1, <1>3, <1>5 DEF Contract!cvars
<1>6. CASE current' = 0 /\ current # 0
  <2>1. Contract!Finish
    BY <1>1, <1>3, <1>6 DEF Contract!Finish
  <2> QED BY <2>1 DEF Contract!CNext
<1> QED BY <1>4, <1>5, <1>6

\* Every step of the loop is a step of the contract, or invisible to it.
LEMMA ContractStep ==
    ASSUME Inv, ContractView, ContractView',
           \A h \in Handle : Abstracted(h) = Place(h),
           (\A h \in Handle : Abstracted(h) = Place(h))',
           [Next]_vars
    PROVE  Contract!CNext \/ UNCHANGED Contract!cvars
<1>0. HandleTypes
  BY DEF Inv, TypeOK
<1>1. CASE CallSoon
  <2>1. /\ NewHandle("soon", 0) /\ ready' = Append(ready, created + 1)
        /\ UNCHANGED <<cancelled, scheduled, ran, now, current>>
    BY <1>1 DEF CallSoon, timerVars, budgetVars, clockVars
  <2>2. "soon" \in {"soon", "timer", "completion"} /\ 0 \in 0..MaxWhen
    BY ConstantsAssumption
  <2>3. ToSet(ready)' = ToSet(ready) \cup {created + 1}
    BY <1>0, <2>1, <2>2, NewHandleTypes, NewReady
  <2> QED BY <1>0, <2>1, <2>2, <2>3, ContractRegister
<1>2. CASE CompleteFuture
  <2>1. /\ NewHandle("completion", 0) /\ ready' = Append(ready, created + 1)
        /\ UNCHANGED <<cancelled, scheduled, ran, now, current>>
    BY <1>2 DEF CompleteFuture, timerVars, budgetVars, clockVars
  <2>2. "completion" \in {"soon", "timer", "completion"} /\ 0 \in 0..MaxWhen
    BY ConstantsAssumption
  <2>3. ToSet(ready)' = ToSet(ready) \cup {created + 1}
    BY <1>0, <2>1, <2>2, NewHandleTypes, NewReady
  <2> QED BY <1>0, <2>1, <2>2, <2>3, ContractRegister
<1>3. ASSUME NEW w \in 0..MaxWhen, CallAt(w)
      PROVE  Contract!CNext
  <2>1. /\ NewHandle("timer", w) /\ scheduled' = scheduled \cup {created + 1}
        /\ UNCHANGED <<cancelled, ready, ran, now, current>>
    BY <1>3 DEF CallAt, budgetVars, clockVars
  <2>2. ToSet(ready)' = ToSet(ready)
    BY <2>1 DEF ToSet
  <2> QED BY <1>0, <2>1, <2>2, ContractRegister
<1>4. CASE \E h \in Handle : Cancel(h)
  BY <1>4, ContractRevoke
<1>5. CASE PrepareTurn
  BY <1>5, ContractWake
<1>6. CASE \E i \in DOMAIN ready : RunOnce(i)
  BY <1>6, ContractStart
<1>7. CASE BeginShutdown \/ Close
  BY <1>7, ContractForget
<1>8. CASE Quiet \/ TimeBudgetExceeded \/ UNCHANGED vars
  BY <1>8, ContractQuiet
<1> QED BY <1>1, <1>2, <1>3, <1>4, <1>5, <1>6, <1>7, <1>8, NextCases

\* The loop implements LoopContract: whatever the scheduler chooses and however a
\* run ends, a callback is started at most once, never after it was cancelled, a
\* timer never early, and virtual time passes only while nothing can run.
THEOREM LoopKeepsContract == Spec => ImplementsContract
<1>1. Init => Contract!CInit /\ ContractView
  <2> SUFFICES ASSUME Init
               PROVE  Contract!CInit /\ ContractView
    OBVIOUS
  <2>1. \A h \in Handle : Abstracted(h) = "unborn"
    BY ConstantsAssumption DEF Init, Abstracted, Handle, Live, ToSet
  <2>2. Contract!CInit
    BY <2>1 DEF Init, Contract!CInit
  <2>3. ContractView
    BY DEF Init, ContractView
  <2> QED BY <2>2, <2>3
<1>2. Inv /\ ContractView /\ [Next]_vars => ContractView'
  BY ContractViewStep DEF Inv, TypeOK
<1>3. Inv => \A h \in Handle : Abstracted(h) = Place(h)
  BY AbstractedPlace DEF Inv, TypeOK
<1>4. /\ Inv /\ ContractView /\ ContractView' /\ [Next]_vars
      /\ (\A h \in Handle : Abstracted(h) = Place(h))
      /\ (\A h \in Handle : Abstracted(h) = Place(h))'
      => [Contract!CNext]_(Contract!cvars)
  BY ContractStep
<1> QED BY <1>1, <1>2, <1>3, <1>4, InvAlways, PTL
    DEF Spec, ImplementsContract, Contract!CSpec


----------------------------------------------------------------------------
(* Queues with dead handles *)

Distinct(q) == \A i, j \in DOMAIN q : q[i] = q[j] => i = j

\* p is what is left of q without the dead handles.
Lists(p, q, dead) == p \in Listings(ToSet(q) \ dead, LAMBDA g, h : InOrder(q, g, h))

\* In a queue without repetitions, no two handles precede each other.
LEMMA OrderAsymmetric ==
    ASSUME NEW n \in Nat, NEW q \in Seq(1..n), Distinct(q), NEW g, NEW h,
           InOrder(q, g, h), InOrder(q, h, g)
    PROVE  FALSE
<1>1. DOMAIN q \subseteq Int
  OBVIOUS
<1>2. PICK i \in DOMAIN q, j \in DOMAIN q : i < j /\ q[i] = g /\ q[j] = h
  BY DEF InOrder
<1>3. PICK k \in DOMAIN q, l \in DOMAIN q : k < l /\ q[k] = h /\ q[l] = g
  BY DEF InOrder
<1>4. i = l /\ j = k
  BY <1>2, <1>3 DEF Distinct
<1> QED BY <1>1, <1>2, <1>3, <1>4

\* A sequence without repetitions is as long as its set of elements is large.
LEMMA DistinctLength ==
    ASSUME NEW n \in Nat, NEW p \in Seq(1..n), Distinct(p)
    PROVE  Cardinality(ToSet(p)) = Len(p)
<1>1. DOMAIN p = 1..Len(p) /\ Len(p) \in Nat
  OBVIOUS
<1>2. p \in Surjection(1..Len(p), ToSet(p)) /\ p \in Injection(1..Len(p), ToSet(p))
  BY <1>1 DEF Surjection, Injection, IsInjective, ToSet, Distinct
<1>3. IsFiniteSet(1..Len(p)) /\ Cardinality(1..Len(p)) = Len(p)
  <2>1. \A m \in Nat : IsFiniteSet(1..m) /\ Cardinality(1..m) = m
    BY FS_Interval
  <2> QED BY <1>1, <2>1
<1> QED BY <1>2, <1>3, FS_Surjection

\* What a listing is, as a sequence.
LEMMA ListFacts ==
    ASSUME NEW n \in Nat, NEW q \in Seq(1..n), Distinct(q), NEW dead, NEW p, Lists(p, q, dead)
    PROVE  /\ p \in Seq(1..n) /\ ToSet(p) = ToSet(q) \ dead /\ Distinct(p)
           /\ Len(p) = Cardinality(ToSet(p))
           /\ \A i, j \in DOMAIN p : i < j => InOrder(q, p[i], p[j])
<1> DEFINE S == ToSet(q) \ dead
<1>1. /\ p \in [1..Cardinality(S) -> S]
      /\ \A x \in S : \E i \in DOMAIN p : p[i] = x
      /\ \A i, j \in DOMAIN p : i < j => InOrder(q, p[i], p[j])
  BY DEF Lists, Listings
<1>2. S \subseteq 1..n
  BY DEF ToSet
<1>3. IsFiniteSet(S)
  BY <1>2, FS_Interval, FS_Subset
<1> HIDE DEF S
<1>4. p \in Seq(1..n) /\ ToSet(p) = S
  BY <1>1, <1>2, <1>3, ListingElements
<1>5. ASSUME NEW i \in DOMAIN p, NEW j \in DOMAIN p, p[i] = p[j], i < j
      PROVE  FALSE
  BY <1>1, <1>5, OrderAsymmetric
<1>6. Distinct(p)
  <2>1. DOMAIN p \subseteq Int
    BY <1>4
  <2> QED BY <1>5, <2>1 DEF Distinct
<1> QED BY <1>1, <1>4, <1>6, DistinctLength DEF S

\* And what makes a sequence a listing.
LEMMA ListIntro ==
    ASSUME NEW n \in Nat, NEW q, NEW dead, NEW p \in Seq(1..n),
           ToSet(p) = ToSet(q) \ dead, Distinct(p),
           \A i, j \in DOMAIN p : i < j => InOrder(q, p[i], p[j])
    PROVE  Lists(p, q, dead)
<1>1. Len(p) = Cardinality(ToSet(p))
  BY DistinctLength
<1>2. p \in [1..Len(p) -> ToSet(p)] /\ \A x \in ToSet(p) : \E i \in DOMAIN p : p[i] = x
  BY DEF ToSet
<1> QED BY <1>1, <1>2 DEF Lists, Listings

\* A queue has one listing only.
LEMMA ListUnique ==
    ASSUME NEW n \in Nat, NEW q \in Seq(1..n), Distinct(q), NEW dead,
           NEW p, Lists(p, q, dead), NEW r, Lists(r, q, dead)
    PROVE  p = r
<1>1. /\ p \in Seq(1..n) /\ ToSet(p) = ToSet(q) \ dead /\ Distinct(p)
      /\ Len(p) = Cardinality(ToSet(p))
      /\ \A i, j \in DOMAIN p : i < j => InOrder(q, p[i], p[j])
  BY ListFacts
<1>2. /\ r \in Seq(1..n) /\ ToSet(r) = ToSet(q) \ dead /\ Distinct(r)
      /\ Len(r) = Cardinality(ToSet(r))
      /\ \A i, j \in DOMAIN r : i < j => InOrder(q, r[i], r[j])
  BY ListFacts
<1>3. Len(p) = Len(r) /\ Len(p) \in Nat /\ DOMAIN p = 1..Len(p) /\ DOMAIN r = 1..Len(p)
  BY <1>1, <1>2
<1> DEFINE D == {i \in 1..Len(p) : p[i] # r[i]}
<1>4. ASSUME D # {} PROVE FALSE
  <2>1. PICK k \in D : \A i \in D : k <= i
    <3>1. D \subseteq Nat
      BY <1>3
    <3> HIDE DEF D
    <3> QED BY <1>4, <3>1, LeastNat
  <2>2. p[k] \in ToSet(r) /\ r[k] \in ToSet(p)
    BY <1>1, <1>2, <1>3 DEF ToSet
  <2>3. PICK a \in DOMAIN p, b \in DOMAIN p : r[a] = p[k] /\ p[b] = r[k]
    BY <1>3, <2>2 DEF ToSet
  <2>4. \A i \in DOMAIN p : i < k => p[i] = r[i]
    BY <1>3, <2>1
  <2>5. a # k /\ b # k
    BY <2>1, <2>3
  <2>6. ~(a < k) /\ ~(b < k)
    BY <1>1, <1>2, <1>3, <2>1, <2>3, <2>4, <2>5 DEF Distinct
  <2>7. k < a /\ k < b
    BY <1>3, <2>1, <2>5, <2>6
  <2>8. InOrder(q, r[k], p[k]) /\ InOrder(q, p[k], r[k])
    BY <1>1, <1>2, <1>3, <2>1, <2>3, <2>7
  <2> QED BY <2>8, OrderAsymmetric
<1>5. \A i \in 1..Len(p) : p[i] = r[i]
  BY <1>4
<1> QED BY <1>1, <1>2, <1>3, <1>5, SeqEqual

\* So Runnable is the listing.
LEMMA RunnableIs ==
    ASSUME NEW n \in Nat, NEW q \in Seq(1..n), Distinct(q), NEW dead,
           NEW p, Lists(p, q, dead)
    PROVE  Runnable(q, dead) = p
<1>1. Lists(Runnable(q, dead), q, dead)
  BY DEF Lists, Runnable
<1> QED BY <1>1, ListUnique


\* The order of a queue that grows at its end.
LEMMA OrderConcat ==
    ASSUME NEW n \in Nat, NEW q \in Seq(1..n), NEW r \in Seq(1..n), NEW g, NEW h,
           InOrder(q, g, h) \/ InOrder(r, g, h) \/ (g \in ToSet(q) /\ h \in ToSet(r))
    PROVE  InOrder(q \o r, g, h)
<1> DEFINE c == q \o r
<1>1. /\ DOMAIN q = 1..Len(q) /\ DOMAIN r = 1..Len(r) /\ Len(q) \in Nat /\ Len(r) \in Nat
      /\ DOMAIN c = 1..(Len(q) + Len(r))
      /\ \A j \in 1..(Len(q) + Len(r)) : c[j] = IF j <= Len(q) THEN q[j] ELSE r[j - Len(q)]
  BY ConcatProperties
<1> SUFFICES InOrder(c, g, h)
  OBVIOUS
<1> HIDE DEF c
<1>2. \A j \in DOMAIN q : j \in DOMAIN c /\ c[j] = q[j]
  BY <1>1
<1>3. ASSUME NEW j \in DOMAIN r
      PROVE  Len(q) + j \in DOMAIN c /\ c[Len(q) + j] = r[j]
  BY <1>1
<1>4. CASE InOrder(q, g, h)
  BY <1>2, <1>4 DEF InOrder
<1>5. CASE InOrder(r, g, h)
  <2>1. PICK i \in DOMAIN r, j \in DOMAIN r : i < j /\ r[i] = g /\ r[j] = h
    BY <1>5 DEF InOrder
  <2>2. Len(q) + i < Len(q) + j
    BY <1>1, <2>1
  <2> QED BY <1>3, <2>1, <2>2 DEF InOrder
<1>6. CASE g \in ToSet(q) /\ h \in ToSet(r)
  <2>1. PICK i \in DOMAIN q, j \in DOMAIN r : q[i] = g /\ r[j] = h
    BY <1>6 DEF ToSet
  <2>2. i < Len(q) + j
    BY <1>1, <2>1
  <2> QED BY <1>2, <1>3, <2>1, <2>2 DEF InOrder
<1> QED BY <1>4, <1>5, <1>6

\* The order of a queue that loses an element.
LEMMA OrderRemove ==
    ASSUME NEW n \in Nat, NEW q \in Seq(1..n), NEW i \in DOMAIN q, NEW g, NEW h,
           InOrder(q, g, h), g # q[i], h # q[i]
    PROVE  InOrder(RemoveAt(q, i), g, h)
<1> DEFINE r == RemoveAt(q, i)
           at(k) == IF k < i THEN k ELSE k - 1
<1>1. /\ DOMAIN q = 1..Len(q) /\ Len(q) \in Nat /\ DOMAIN r = 1..(Len(q) - 1)
      /\ \A j \in 1..(Len(q) - 1) : r[j] = IF j < i THEN q[j] ELSE q[j + 1]
  BY RemoveAtPositions, LenProperties
<1> HIDE DEF r
<1>2. PICK k \in DOMAIN q, l \in DOMAIN q : k < l /\ q[k] = g /\ q[l] = h
  BY DEF InOrder
<1>3. k # i /\ l # i
  BY <1>2
<1>4. at(k) \in DOMAIN r /\ at(l) \in DOMAIN r /\ at(k) < at(l)
  BY <1>1, <1>2, <1>3
<1>5. r[at(k)] = g /\ r[at(l)] = h
  BY <1>1, <1>2, <1>3, <1>4
<1> QED BY <1>4, <1>5 DEF InOrder, r

\* New handles at the end of the queue.
LEMMA ListConcat ==
    ASSUME NEW n \in Nat, NEW q \in Seq(1..n), Distinct(q), NEW dead, NEW p, Lists(p, q, dead),
           NEW r \in Seq(1..n), Distinct(r), ToSet(r) \cap ToSet(q) = {}, ToSet(r) \cap dead = {},
           \A i, j \in DOMAIN r : i < j => InOrder(r, r[i], r[j])
    PROVE  Lists(p \o r, q \o r, dead)
<1>1. /\ p \in Seq(1..n) /\ ToSet(p) = ToSet(q) \ dead /\ Distinct(p)
      /\ \A i, j \in DOMAIN p : i < j => InOrder(q, p[i], p[j])
  BY ListFacts
<1>2. /\ p \o r \in Seq(1..n) /\ ToSet(p \o r) = ToSet(p) \cup ToSet(r) /\ Distinct(p \o r)
      /\ ToSet(q \o r) = ToSet(q) \cup ToSet(r)
  <2>1. ToSet(p) \cap ToSet(r) = {}
    BY <1>1
  <2>2. p \o r \in Seq(1..n) /\ ToSet(p \o r) = ToSet(p) \cup ToSet(r)
    BY <1>1, ConcatElements
  <2>3. Distinct(p \o r)
    BY <1>1, <2>1, ConcatElements DEF Distinct
  <2>4. ToSet(q \o r) = ToSet(q) \cup ToSet(r)
    BY ConcatElements
  <2> QED BY <2>2, <2>3, <2>4
<1>3. ToSet(p \o r) = ToSet(q \o r) \ dead
  BY <1>1, <1>2
<1>4. /\ DOMAIN p = 1..Len(p) /\ DOMAIN r = 1..Len(r) /\ Len(p) \in Nat /\ Len(r) \in Nat
      /\ DOMAIN (p \o r) = 1..(Len(p) + Len(r))
      /\ \A j \in 1..(Len(p) + Len(r)) : (p \o r)[j] = IF j <= Len(p) THEN p[j] ELSE r[j - Len(p)]
  BY <1>1, ConcatProperties
<1>5. ASSUME NEW i \in DOMAIN (p \o r), NEW j \in DOMAIN (p \o r), i < j
      PROVE  InOrder(q \o r, (p \o r)[i], (p \o r)[j])
  <2>1. CASE j <= Len(p)
    <3>1. i \in DOMAIN p /\ j \in DOMAIN p /\ (p \o r)[i] = p[i] /\ (p \o r)[j] = p[j]
      BY <1>4, <1>5, <2>1
    <3> QED BY <1>1, <1>5, <3>1, OrderConcat
  <2>2. CASE i > Len(p)
    <3>1. /\ i - Len(p) \in DOMAIN r /\ j - Len(p) \in DOMAIN r /\ i - Len(p) < j - Len(p)
          /\ (p \o r)[i] = r[i - Len(p)] /\ (p \o r)[j] = r[j - Len(p)]
      BY <1>4, <1>5, <2>2
    <3>2. InOrder(r, r[i - Len(p)], r[j - Len(p)])
      BY <3>1
    <3> QED BY <3>1, <3>2, OrderConcat
  <2>3. CASE i <= Len(p) /\ j > Len(p)
    <3>1. /\ i \in DOMAIN p /\ j - Len(p) \in DOMAIN r
          /\ (p \o r)[i] = p[i] /\ (p \o r)[j] = r[j - Len(p)]
      BY <1>4, <1>5, <2>3
    <3>2. (p \o r)[i] \in ToSet(q) /\ (p \o r)[j] \in ToSet(r)
      BY <1>1, <3>1 DEF ToSet
    <3> QED BY <3>2, OrderConcat
  <2> QED BY <1>4, <2>1, <2>2, <2>3
<1> QED BY <1>2, <1>3, <1>5, ListIntro

\* One new handle, as _ready.append does.
LEMMA ListAppend ==
    ASSUME NEW n \in Nat, NEW q \in Seq(1..n), Distinct(q), NEW dead, NEW p, Lists(p, q, dead),
           NEW c \in 1..n, c \notin ToSet(q), c \notin dead
    PROVE  Lists(Append(p, c), Append(q, c), dead)
<1>1. p \in Seq(1..n)
  BY ListFacts
<1>2. <<c>> \in Seq(1..n) /\ Distinct(<<c>>) /\ ToSet(<<c>>) = {c} /\ DOMAIN <<c>> = {1}
  BY DEF Distinct, ToSet
<1>3. Append(p, c) = p \o <<c>> /\ Append(q, c) = q \o <<c>>
  BY <1>1, AppendIsConcat
<1>4. \A i, j \in DOMAIN <<c>> : i < j => InOrder(<<c>>, <<c>>[i], <<c>>[j])
  BY <1>2
<1> DEFINE r == <<c>>
<1>5. /\ r \in Seq(1..n) /\ Distinct(r) /\ ToSet(r) \cap ToSet(q) = {} /\ ToSet(r) \cap dead = {}
      /\ \A i, j \in DOMAIN r : i < j => InOrder(r, r[i], r[j])
  BY <1>2, <1>4
<1> HIDE DEF r
<1>6. Lists(p \o r, q \o r, dead)
  BY <1>5, ListConcat
<1> QED BY <1>3, <1>6 DEF r

\* A runnable handle is cancelled: it stays in the queue and leaves the listing.
LEMMA ListDrop ==
    ASSUME NEW n \in Nat, NEW q \in Seq(1..n), Distinct(q), NEW dead, NEW p, Lists(p, q, dead),
           NEW i \in DOMAIN p
    PROVE  Lists(RemoveAt(p, i), q, dead \cup {p[i]})
<1>1. /\ p \in Seq(1..n) /\ ToSet(p) = ToSet(q) \ dead /\ Distinct(p)
      /\ \A j, k \in DOMAIN p : j < k => InOrder(q, p[j], p[k])
  BY ListFacts
<1> DEFINE r == RemoveAt(p, i)
<1>2. r \in Seq(1..n) /\ ToSet(r) = ToSet(p) \ {p[i]} /\ Distinct(r)
  BY <1>1, RemoveAtElements DEF Distinct
<1>3. /\ DOMAIN p = 1..Len(p) /\ Len(p) \in Nat /\ DOMAIN r = 1..(Len(p) - 1)
      /\ \A j \in 1..(Len(p) - 1) : r[j] = IF j < i THEN p[j] ELSE p[j + 1]
  BY <1>1, RemoveAtPositions
<1> HIDE DEF r
<1>4. ASSUME NEW j \in DOMAIN r, NEW k \in DOMAIN r, j < k
      PROVE  InOrder(q, r[j], r[k])
  <2> DEFINE at(m) == IF m < i THEN m ELSE m + 1
  <2>1. /\ at(j) \in DOMAIN p /\ at(k) \in DOMAIN p /\ at(j) < at(k)
        /\ r[j] = p[at(j)] /\ r[k] = p[at(k)]
    BY <1>3, <1>4
  <2> QED BY <1>1, <2>1
<1>5. ToSet(r) = ToSet(q) \ (dead \cup {p[i]})
  BY <1>1, <1>2
<1>6. Lists(r, q, dead \cup {p[i]})
  BY <1>2, <1>4, <1>5, ListIntro
<1> QED BY <1>6 DEF r

\* The first live handle leaves the queue: it was the head of the listing.
LEMMA ListTake ==
    ASSUME NEW n \in Nat, NEW q \in Seq(1..n), Distinct(q), NEW dead, NEW p, Lists(p, q, dead),
           NEW i \in DOMAIN q, q[i] \notin dead,
           \A j \in DOMAIN q : q[j] \notin dead => i <= j
    PROVE  /\ Len(p) > 0 /\ p[1] = q[i]
           /\ Lists(Tail(p), RemoveAt(q, i), dead)
<1>1. /\ p \in Seq(1..n) /\ ToSet(p) = ToSet(q) \ dead /\ Distinct(p)
      /\ \A j, k \in DOMAIN p : j < k => InOrder(q, p[j], p[k])
      /\ DOMAIN p = 1..Len(p) /\ Len(p) \in Nat
  BY ListFacts
<1>2. PICK k \in DOMAIN p : p[k] = q[i]
  BY <1>1 DEF ToSet
<1>3. k = 1
  <2> SUFFICES ASSUME 1 < k PROVE FALSE
    BY <1>1
  <2>1. 1 \in DOMAIN p /\ InOrder(q, p[1], q[i])
    <3>1. 1 \in DOMAIN p
      BY <1>1, <1>2
    <3>2. InOrder(q, p[1], p[k])
      BY <1>1, <3>1
    <3> QED BY <1>2, <3>1, <3>2
  <2>2. PICK a \in DOMAIN q, b \in DOMAIN q : a < b /\ q[a] = p[1] /\ q[b] = q[i]
    BY <2>1 DEF InOrder
  <2>3. p[1] \in ToSet(p)
    BY <2>1 DEF ToSet
  <2>4. b = i /\ q[a] \notin dead
    BY <1>1, <2>2, <2>3 DEF Distinct
  <2>5. DOMAIN q \subseteq Int
    OBVIOUS
  <2> QED BY <2>2, <2>4, <2>5
<1>4. Len(p) > 0 /\ p[1] = q[i] /\ 1 \in DOMAIN p
  BY <1>1, <1>2, <1>3
<1> DEFINE r == RemoveAt(p, k)
           s == RemoveAt(q, i)
<1>5. /\ r \in Seq(1..n) /\ Len(r) = Len(p) - 1 /\ DOMAIN r = 1..(Len(p) - 1)
      /\ \A j \in 1..(Len(p) - 1) : r[j] = p[j + 1]
  <2>1. /\ r \in Seq(1..n) /\ Len(r) = Len(p) - 1
        /\ \A j \in 1..(Len(p) - 1) : r[j] = IF j < k THEN p[j] ELSE p[j + 1]
    BY <1>1, RemoveAtPositions
  <2>2. \A j \in 1..(Len(p) - 1) : ~(j < k)
    BY <1>1, <1>3
  <2> HIDE DEF r
  <2> QED BY <2>1, <2>2, LenProperties
<1>6. Tail(p) = r
  <2>1. /\ Tail(p) \in Seq(1..n) /\ Len(Tail(p)) = Len(p) - 1
        /\ \A j \in 1..(Len(p) - 1) : Tail(p)[j] = p[j + 1]
    BY <1>1, <1>4
  <2> DEFINE t == Tail(p)
  <2>2. t \in Seq(1..n) /\ Len(t) = Len(r) /\ \A j \in 1..Len(t) : t[j] = r[j]
    BY <1>5, <2>1
  <2> HIDE DEF r, t
  <2>3. t = r
    BY <1>5, <2>2, SeqEqual
  <2> QED BY <2>3 DEF t
<1>7. r \in Seq(1..n) /\ ToSet(r) = ToSet(p) \ {p[1]} /\ Distinct(r)
  <2>1. r \in Seq(1..n) /\ ToSet(r) = ToSet(p) \ {p[k]} /\ Distinct(r)
    BY <1>1, RemoveAtElements DEF Distinct
  <2> QED BY <1>3, <2>1
<1>8. ToSet(s) = ToSet(q) \ {q[i]}
  BY RemoveAtElements DEF Distinct
<1> HIDE DEF r, s
<1>9. ASSUME NEW j \in DOMAIN r, NEW l \in DOMAIN r, j < l
      PROVE  InOrder(s, r[j], r[l])
  <2>1. InOrder(q, r[j], r[l])
    <3>1. j \in 1..(Len(p) - 1) /\ l \in 1..(Len(p) - 1)
      BY <1>5
    <3>2. j + 1 \in DOMAIN p /\ l + 1 \in DOMAIN p /\ j + 1 < l + 1
      <4>1. Len(p) \in Nat /\ DOMAIN p = 1..Len(p)
        BY <1>1
      <4> QED BY <1>9, <3>1, <4>1
    <3>3. r[j] = p[j + 1] /\ r[l] = p[l + 1]
      BY <1>5, <3>1
    <3> QED BY <1>1, <3>2, <3>3
  <2>2. r[j] # q[i] /\ r[l] # q[i]
    BY <1>4, <1>7 DEF ToSet
  <2> QED BY <2>1, <2>2, OrderRemove DEF s
<1>10. ToSet(r) = ToSet(s) \ dead
  BY <1>1, <1>4, <1>7, <1>8
<1>11. Lists(r, s, dead)
  BY <1>7, <1>9, <1>10, ListIntro
<1> QED BY <1>4, <1>6, <1>11 DEF s


\* What comes first in the queue comes first in its listing: a set of live handles
\* that precede all other live handles is the head of the listing.
LEMMA ListHead ==
    ASSUME NEW n \in Nat, NEW q \in Seq(1..n), Distinct(q), NEW dead, NEW p, Lists(p, q, dead),
           NEW P, P \subseteq ToSet(p), \A g \in P, h \in ToSet(p) \ P : InOrder(q, g, h)
    PROVE  /\ Cardinality(P) \in Nat /\ IsFiniteSet(P)
           /\ \A i \in DOMAIN p : p[i] \in P <=> i <= Cardinality(P)
<1>1. /\ p \in Seq(1..n) /\ Distinct(p) /\ DOMAIN p = 1..Len(p) /\ Len(p) \in Nat
      /\ \A i, j \in DOMAIN p : i < j => InOrder(q, p[i], p[j])
  BY ListFacts
<1> DEFINE J == {i \in DOMAIN p : p[i] \in P}
           R == {i \in DOMAIN p : p[i] \notin P}
<1>2. ASSUME NEW i \in R, NEW j \in J, i < j PROVE FALSE
  <2>1. InOrder(q, p[i], p[j])
    BY <1>1, <1>2
  <2>2. InOrder(q, p[j], p[i])
    BY DEF ToSet
  <2> QED BY <2>1, <2>2, OrderAsymmetric
<1>3. \E m \in Nat : J = 1..m
  <2>1. CASE R = {}
    <3>1. J = 1..Len(p)
      BY <1>1, <2>1
    <3> QED BY <1>1, <3>1
  <2>2. CASE R # {}
    <3>1. R \subseteq Nat /\ J \subseteq 1..Len(p) /\ R \cup J = 1..Len(p) /\ R \cap J = {}
      BY <1>1
    <3> HIDE DEF R, J
    <3>2. PICK k \in R : \A i \in R : k <= i
      BY <2>2, <3>1, LeastNat
    <3>3. \A j \in J : j < k
      BY <1>1, <1>2, <3>1, <3>2
    <3>4. k \in 1..Len(p)
      BY <3>1
    <3>5. ASSUME NEW j \in 1..(k - 1) PROVE j \in J
      <4>1. j \in 1..Len(p) /\ ~(k <= j)
        BY <1>1, <3>4
      <4> QED BY <3>1, <3>2, <4>1
    <3>6. \A j \in J : j \in 1..(k - 1)
      <4>1. \A j \in J : j \in 1..Len(p)
        BY <3>1
      <4> QED BY <1>1, <3>3, <3>4, <4>1
    <3>7. J = 1..(k - 1)
      BY <3>5, <3>6, Zenon
    <3>8. k - 1 \in Nat
      BY <3>4
    <3> QED BY <3>7, <3>8
  <2> QED BY <2>1, <2>2
<1>4. PICK m \in Nat : J = 1..m
  BY <1>3
<1>5. IsFiniteSet(J) /\ Cardinality(J) = m
  <2>1. \A k \in Nat : IsFiniteSet(1..k) /\ Cardinality(1..k) = k
    BY FS_Interval
  <2> QED BY <1>4, <2>1
<1>6. IsFiniteSet(P) /\ Cardinality(P) = Cardinality(J)
  <2> DEFINE f == [i \in J |-> p[i]]
  <2>1. f \in Surjection(J, P) /\ f \in Injection(J, P)
    BY <1>1 DEF Surjection, Injection, IsInjective, ToSet, Distinct
  <2> HIDE DEF f
  <2> QED BY <1>5, <2>1, FS_Surjection
<1>7. \A i \in DOMAIN p : i \in J <=> i <= m
  BY <1>1, <1>4
<1> QED BY <1>5, <1>6, <1>7

----------------------------------------------------------------------------
(* The Fifo scheduler follows asyncio *)

\* Seen as asyncio's queue, while the scenario runs: the live handles have an order,
\* those of the open turn come first in it, and a prepared turn holds all of them.
FifoView ==
    /\ pc # "callback" <=> current = 0
    /\ \A h \in Handle \ (1..created) : when[h] = 0
    /\ recording =>
           /\ pc # "closed"
           /\ Lists(Runnable(ready, cancelled), ready, cancelled)
           /\ \A g \in Live(turnPending), h \in Live(ToSet(ready)) \ turnPending :
                  InOrder(ready, g, h)
           /\ pc = "select" => Live(ToSet(ready)) \subseteq turnPending

\* The next state's listing is that of the next state's queue.
LEMMA NextRunnable == Runnable(ready, cancelled)' = Runnable(ready', cancelled')
BY DEF Runnable, Listings, InOrder, ToSet

\* So is the view of the next state.
LEMMA NextView ==
    ASSUME pc' # "callback" <=> current' = 0,
           \A h \in Handle \ (1..created') : when'[h] = 0,
           recording' =>
               /\ pc' # "closed"
               /\ Lists(Runnable(ready', cancelled'), ready', cancelled')
               /\ \A g \in turnPending' \ cancelled', h \in ToSet(ready') \ cancelled' :
                      h \notin turnPending' => InOrder(ready', g, h)
               /\ pc' = "select" => ToSet(ready') \ cancelled' \subseteq turnPending'
    PROVE  FifoView'
<1>1. Lists(Runnable(ready, cancelled), ready, cancelled)'
          = Lists(Runnable(ready', cancelled'), ready', cancelled')
  BY DEF Lists, Runnable, Listings, InOrder, ToSet
<1>2. \A g, h : InOrder(ready, g, h)' = InOrder(ready', g, h)
  BY DEF InOrder
<1>3. ToSet(ready)' = ToSet(ready')
  BY DEF ToSet
<1> QED BY <1>1, <1>2, <1>3 DEF FifoView, Live

\* The operators of the instance are those of its environment.
LEMMA SameOperators ==
    /\ \A s : Stock!ToSet(s) = ToSet(s)
    /\ \A s, i : Stock!RemoveAt(s, i) = RemoveAt(s, i)
    /\ \A S : Stock!Cardinality(S) = Cardinality(S)
BY DEF Stock!ToSet, ToSet, Stock!RemoveAt, RemoveAt, Stock!Cardinality, Cardinality

\* The view is about what the invariant calls the queue.
LEMMA ViewListing ==
    ASSUME Inv, FifoView, recording
    PROVE  /\ created \in Nat /\ ready \in Seq(1..created) /\ Distinct(ready)
           /\ Lists(Runnable(ready, cancelled), ready, cancelled)
           /\ Runnable(ready, cancelled) \in Seq(1..created)
           /\ ToSet(Runnable(ready, cancelled)) = Live(ToSet(ready))
           /\ Live(turnPending) \subseteq Live(ToSet(ready))
           /\ Cardinality(Live(turnPending)) \in Nat /\ IsFiniteSet(Live(turnPending))
           /\ \A i \in DOMAIN Runnable(ready, cancelled) :
                  Runnable(ready, cancelled)[i] \in turnPending
                      <=> i <= Cardinality(Live(turnPending))
<1> DEFINE Q == Runnable(ready, cancelled)
<1>1. created \in Nat /\ ready \in Seq(1..created) /\ Distinct(ready)
  BY ConstantsAssumption DEF Inv, TypeOK, HandleTypes, OnePlace, Distinct
<1>2. /\ Lists(Q, ready, cancelled)
      /\ \A g \in Live(turnPending), h \in Live(ToSet(ready)) \ turnPending :
             InOrder(ready, g, h)
  BY DEF FifoView
<1>3. pc # "closed"
  BY DEF FifoView
<1>4. Live(turnPending) \subseteq Live(ToSet(ready))
  BY <1>3 DEF Inv, TurnInReady, Live
<1> HIDE DEF Q
<1>5. Q \in Seq(1..created) /\ ToSet(Q) = Live(ToSet(ready))
  BY <1>1, <1>2, ListFacts DEF Live
<1>6. \A g \in Live(turnPending), h \in ToSet(Q) \ Live(turnPending) : InOrder(ready, g, h)
  BY <1>2, <1>5 DEF Live
<1>7. /\ Cardinality(Live(turnPending)) \in Nat /\ IsFiniteSet(Live(turnPending))
      /\ \A i \in DOMAIN Q : Q[i] \in Live(turnPending) <=> i <= Cardinality(Live(turnPending))
  BY <1>1, <1>2, <1>4, <1>5, <1>6, ListHead
<1>8. \A i \in DOMAIN Q : Q[i] \in Live(turnPending) <=> Q[i] \in turnPending
  BY <1>5 DEF ToSet, Live
<1> QED BY <1>1, <1>2, <1>4, <1>5, <1>7, <1>8 DEF Q


\* A callback enqueued by the scenario, or by the future it completes.
LEMMA FifoEnqueue ==
    ASSUME Inv, FifoView, recording, NEW k \in {"soon", "completion"}, NewHandle(k, 0),
           ready' = Append(ready, created + 1),
           UNCHANGED <<cancelled, scheduled, turnPending, recording, now, pc, current>>,
           pc # "select"
    PROVE  FifoView' /\ Stock!SNext
<1> DEFINE Q == Runnable(ready, cancelled)
           c == created + 1
<1>1. /\ created \in Nat /\ ready \in Seq(1..created) /\ Distinct(ready) /\ Lists(Q, ready, cancelled)
      /\ Q \in Seq(1..created) /\ ToSet(Q) = Live(ToSet(ready))
      /\ Live(turnPending) \subseteq Live(ToSet(ready))
  BY ViewListing
<1>2. /\ created' = c /\ c \in Handle /\ c \notin 1..created /\ 1..c = (1..created) \cup {c}
      /\ when' = [when EXCEPT ![c] = 0] /\ when \in [Handle -> 0..MaxWhen]
  <2>1. HandleTypes /\ 0 \in 0..MaxWhen
    BY ConstantsAssumption DEF Inv, TypeOK, HandleTypes
  <2> QED BY <2>1, NewHandleTypes DEF NewHandle, HandleTypes
<1>3. ToSet(ready) \subseteq 1..created /\ cancelled \subseteq 1..created /\ scheduled \subseteq 1..created
  BY ReadySet DEF Inv, TypeOK, HandleTypes
<1>4. ready \in Seq(1..c) /\ ready' \in Seq(1..c) /\ Distinct(ready') /\ ToSet(ready') = ToSet(ready) \cup {c}
  <2>1. c \in 1..c /\ c \notin ToSet(ready)
    BY <1>2, <1>3
  <2>2. ready \in Seq(1..c)
    <3>1. 1..created \subseteq 1..c
      BY <1>2
    <3> HIDE DEF c
    <3> QED BY <1>1, <3>1, SeqMonotonic
  <2>3. ready' = Append(ready, c)
    OBVIOUS
  <2> HIDE DEF c
  <2>4. ready' \in Seq(1..c) /\ ToSet(ready') = ToSet(ready) \cup {c}
    BY <2>1, <2>2, <2>3, AppendElements
  <2>5. Distinct(ready')
    BY <1>1, <2>1, <2>2, <2>3, AppendElements DEF Distinct
  <2> QED BY <2>2, <2>4, <2>5
<1>5. Lists(Append(Q, c), ready', cancelled)
  <2>1. c \in Nat /\ c \in 1..c /\ c \notin ToSet(ready) /\ c \notin cancelled
    BY <1>1, <1>2, <1>3
  <2> HIDE DEF Q, c
  <2> QED BY <1>1, <1>4, <2>1, ListAppend DEF c
<1>6. Runnable(ready', cancelled') = Append(Q, c)
  <2>1. c \in Nat
    BY <1>1
  <2> HIDE DEF Q, c
  <2> QED BY <1>4, <1>5, <2>1, RunnableIs
<1>7. when' = when
  BY <1>2, <1>3 DEF FifoView
<1>8. Stock!Enqueue(c)
  <2>1. c \notin ToSet(Q) /\ c \notin Live(scheduled)
    BY <1>1, <1>2, <1>3 DEF Live
  <2>2. Q' = Append(Q, c)
    BY <1>6, NextRunnable
  <2>3. UNCHANGED <<Live(turnPending), Live(scheduled), Cardinality(Live(turnPending))>>
    BY DEF Live
  <2> HIDE DEF c
  <2> QED BY <1>7, <2>1, <2>2, <2>3, SameOperators DEF Stock!Enqueue, Stock!Known
<1>9. FifoView'
  <2>1. Lists(Runnable(ready', cancelled'), ready', cancelled')
    BY <1>5, <1>6
  <2>2. ASSUME NEW g \in turnPending \ cancelled, NEW h \in ToSet(ready') \ cancelled,
               h \notin turnPending
        PROVE  InOrder(ready', g, h)
    <3> DEFINE r == <<c>>
    <3>1. ready' = ready \o r /\ r \in Seq(1..c) /\ ToSet(r) = {c}
      BY <1>1, <1>2, <1>4, AppendIsConcat DEF ToSet
    <3>2. g \in ToSet(ready)
      BY <1>1 DEF Live
    <3>3. h = c \/ InOrder(ready, g, h)
      BY <1>4, <2>2 DEF FifoView, Live
    <3>4. c \in Nat
      BY <1>1
    <3> HIDE DEF c, r
    <3>5. InOrder(ready \o r, g, h)
      BY <1>4, <3>1, <3>2, <3>3, <3>4, OrderConcat
    <3> QED BY <3>1, <3>5
  <2>3. pc' # "callback" <=> current' = 0
    BY DEF FifoView
  <2>4. \A h \in Handle \ (1..created') : when'[h] = 0
    BY <1>2, <1>7 DEF FifoView
  <2>5. pc' # "closed" /\ pc' # "select"
    BY DEF FifoView
  <2> QED BY <2>1, <2>2, <2>3, <2>4, <2>5, NextView
<1> QED BY <1>2, <1>8, <1>9 DEF Stock!SNext


\* A step that leaves the queue, and what is cancelled in it, leaves the view.
LEMMA SameQueue ==
    ASSUME FifoView, recording, UNCHANGED <<ready, cancelled, turnPending>>,
           pc' # "callback" <=> current' = 0, pc' # "closed", pc' = "select" => pc = "select",
           \A h \in Handle \ (1..created') : when'[h] = 0
    PROVE  FifoView' /\ UNCHANGED <<Runnable(ready, cancelled), Cardinality(Live(turnPending))>>
<1>1. UNCHANGED <<Runnable(ready, cancelled), Cardinality(Live(turnPending))>>
  BY NextRunnable DEF Live
<1>2. FifoView'
  BY NextView DEF FifoView, Live
<1> QED BY <1>1, <1>2

\* A timer armed by the scenario.
LEMMA FifoArm ==
    ASSUME Inv, FifoView, recording, NEW w \in 0..MaxWhen, CallAt(w)
    PROVE  FifoView' /\ Stock!SNext
<1> DEFINE Q == Runnable(ready, cancelled)
           c == created + 1
<1>1. /\ NewHandle("timer", w) /\ scheduled' = scheduled \cup {c} /\ pc \in {"idle", "callback"}
      /\ UNCHANGED <<cancelled, ready, turnPending, recording, now, pc, current>>
  BY DEF CallAt, InUserCode, clockVars, budgetVars
<1>2. /\ created' = c /\ c \in Handle /\ c \notin 1..created /\ 1..c = (1..created) \cup {c}
      /\ when' = [when EXCEPT ![c] = w] /\ when \in [Handle -> 0..MaxWhen]
  BY <1>1, NewHandleTypes DEF Inv, TypeOK, HandleTypes, NewHandle
<1>3. ToSet(ready) \subseteq 1..created /\ cancelled \subseteq 1..created /\ scheduled \subseteq 1..created
  BY ReadySet DEF Inv, TypeOK, HandleTypes
<1>4. FifoView' /\ UNCHANGED <<Q, Cardinality(Live(turnPending))>>
  <2>1. pc' # "callback" <=> current' = 0
    BY <1>1 DEF FifoView
  <2>2. \A h \in Handle \ (1..created') : when'[h] = 0
    BY <1>2 DEF FifoView
  <2>3. pc' # "closed" /\ pc' # "select"
    BY <1>1
  <2> QED BY <1>1, <2>1, <2>2, <2>3, SameQueue
<1>5. Stock!Arm(c, w)
  <2>1. c \notin ToSet(Q) /\ c \notin Live(scheduled)
    BY <1>2, <1>3, ViewListing DEF Live
  <2>2. Live(scheduled)' = Live(scheduled) \cup {c}
    BY <1>1, <1>2, <1>3 DEF Live
  <2> HIDE DEF c, Q
  <2>3. UNCHANGED <<now, current # 0>>
    BY <1>1
  <2> QED BY <1>2, <1>4, <2>1, <2>2, <2>3, SameOperators DEF Stock!Arm, Stock!Known, Q
<1> QED BY <1>2, <1>4, <1>5 DEF Stock!SNext

\* A cancelled callback is withdrawn, a cancelled timer disarmed, and a handle that
\* has run or was never queued changes nothing asyncio could see.
LEMMA FifoCancel ==
    ASSUME Inv, FifoView, recording, NEW h \in Handle, Cancel(h)
    PROVE  FifoView' /\ [Stock!SNext]_(Stock!svars)
<1> DEFINE Q == Runnable(ready, cancelled)
           P == Live(turnPending)
<1>1. /\ cancelled' = cancelled \cup {h} /\ h \notin cancelled /\ pc \in {"idle", "callback"}
      /\ UNCHANGED <<created, when, ready, scheduled, turnPending, recording, now, pc, current>>
  BY DEF Cancel, InUserCode, handleVars, clockVars, budgetVars
<1>2. /\ created \in Nat /\ ready \in Seq(1..created) /\ Distinct(ready) /\ Lists(Q, ready, cancelled)
      /\ Q \in Seq(1..created) /\ ToSet(Q) = Live(ToSet(ready))
      /\ P \subseteq Live(ToSet(ready)) /\ Cardinality(P) \in Nat /\ IsFiniteSet(P)
      /\ \A i \in DOMAIN Q : Q[i] \in turnPending <=> i <= Cardinality(P)
  BY ViewListing
<1>3. P' = P \ {h} /\ Live(scheduled)' = Live(scheduled) \ {h}
  BY <1>1 DEF Live
<1>4. ASSUME NEW r, Lists(r, ready, cancelled')
      PROVE  FifoView' /\ Q' = r
  <2>1. Runnable(ready', cancelled') = r
    BY <1>1, <1>2, <1>4, RunnableIs
  <2>2. FifoView'
    BY <1>1, <1>4, <2>1, NextView DEF FifoView, Live
  <2> QED BY <2>1, <2>2, NextRunnable
<1>5. CASE h \in ToSet(ready)
  <2>1. PICK i \in DOMAIN Q : Q[i] = h
    BY <1>1, <1>2, <1>5 DEF Live, ToSet
  <2> HIDE DEF Q
  <2>2. Lists(RemoveAt(Q, i), ready, cancelled')
    BY <1>1, <1>2, <2>1, ListDrop
  <2>3. FifoView' /\ Q' = RemoveAt(Q, i)
    BY <1>4, <2>2
  <2>4. Cardinality(P') = IF i <= Cardinality(P) THEN Cardinality(P) - 1 ELSE Cardinality(P)
    <3>1. h \in P <=> i <= Cardinality(P)
      BY <1>1, <1>2, <2>1 DEF Live
    <3> HIDE DEF P
    <3> QED BY <1>2, <1>3, <3>1, FS_RemoveElement
  <2>5. Live(scheduled)' = Live(scheduled)
    BY <1>3, <1>5 DEF Inv, OnePlace, Live
  <2>6. Stock!Withdraw(i)
    <3>1. Cardinality(P)' = Cardinality(P')
      OBVIOUS
    <3> QED BY <1>1, <2>3, <2>4, <2>5, <3>1, SameOperators DEF Stock!Withdraw, Q
  <2> QED BY <2>1, <2>3, <2>6 DEF Stock!SNext, Q
<1>6. CASE h \notin ToSet(ready)
  <2>1. Lists(Q, ready, cancelled')
    <3>1. ToSet(ready) \ cancelled' = ToSet(ready) \ cancelled
      BY <1>1, <1>6
    <3> HIDE DEF Q
    <3> QED BY <1>2, <3>1 DEF Lists
  <2>2. FifoView' /\ Q' = Q
    BY <1>4, <2>1
  <2>3. P' = P
    BY <1>2, <1>3, <1>6 DEF Live
  <2>4. CASE h \in scheduled
    <3>1. h \in Live(scheduled) /\ UNCHANGED Cardinality(P)
      BY <1>1, <2>3, <2>4 DEF Live
    <3>2. Stock!Disarm(h)
      BY <1>1, <1>3, <2>2, <3>1 DEF Stock!Disarm
    <3> QED BY <2>2, <3>2 DEF Stock!SNext
  <2>5. CASE h \notin scheduled
    <3>1. UNCHANGED <<Live(scheduled), Cardinality(P)>>
      BY <1>3, <2>3, <2>5 DEF Live
    <3>2. UNCHANGED Stock!svars
      BY <1>1, <2>2, <3>1 DEF Stock!svars
    <3> QED BY <2>2, <3>2
  <2> QED BY <2>4, <2>5
<1> QED BY <1>5, <1>6


\* The callback Fifo picks is asyncio's next one: the head of the queue, and of the
\* open turn.
LEMMA FifoExecute ==
    ASSUME Fifo, Inv, FifoView, recording, NEW i \in DOMAIN ready, RunOnce(i)
    PROVE  FifoView' /\ Stock!SNext
<1> DEFINE Q == Runnable(ready, cancelled)
           P == Live(turnPending)
<1>1. /\ i \in Candidates /\ \A j \in Candidates : i <= j
      /\ pc = "select" \/ (pc = "run_once" /\ P # {})
      /\ ready' = RemoveAt(ready, i) /\ turnPending' = turnPending \ {ready[i]}
      /\ current' = ready[i] /\ pc' = "callback"
      /\ UNCHANGED <<created, when, cancelled, scheduled, recording, now>>
  BY DEF RunOnce, Selectable, AtSelect, TurnExhausted, Dequeue, handleVars, timerVars, clockVars
<1>2. /\ created \in Nat /\ ready \in Seq(1..created) /\ Distinct(ready) /\ Lists(Q, ready, cancelled)
      /\ Q \in Seq(1..created) /\ ToSet(Q) = Live(ToSet(ready))
      /\ P \subseteq Live(ToSet(ready)) /\ Cardinality(P) \in Nat /\ IsFiniteSet(P)
      /\ \A j \in DOMAIN Q : Q[j] \in turnPending <=> j <= Cardinality(P)
  BY ViewListing
<1>3. /\ ready[i] \notin cancelled /\ ready[i] \in ToSet(ready) /\ ready[i] \in 1..created
      /\ \A j \in DOMAIN ready : ready[j] \notin cancelled => i <= j
  BY <1>1, <1>2 DEF Candidates, ToSet
<1>4. Len(Q) > 0 /\ Q[1] = ready[i] /\ Lists(Tail(Q), ready', cancelled)
  <2> HIDE DEF Q
  <2> QED BY <1>1, <1>2, <1>3, ListTake
<1>5. ready' \in Seq(1..created) /\ ToSet(ready') = ToSet(ready) \ {ready[i]} /\ Distinct(ready')
  BY <1>1, <1>2, RemoveAtElements DEF Distinct
<1>6. Runnable(ready', cancelled') = Tail(Q)
  <2> HIDE DEF Q
  <2> QED BY <1>1, <1>2, <1>4, <1>5, RunnableIs
<1>7. ready[i] \in P
  <2>1. CASE pc = "select"
    BY <1>3, <2>1 DEF FifoView, Live
  <2>2. CASE P # {}
    <3>1. Cardinality(P) # 0
      BY <1>2, <2>2, FS_EmptySet
    <3>2. 1 \in DOMAIN Q /\ 1 <= Cardinality(P)
      BY <1>2, <1>4, <3>1
    <3> QED BY <1>2, <1>3, <1>4, <3>2 DEF Live
  <2> QED BY <1>1, <2>1, <2>2
<1>8. Cardinality(P') = Cardinality(P) - 1 /\ Cardinality(P) > 0
  <2>1. P' = P \ {ready[i]} /\ P # {}
    BY <1>1, <1>7 DEF Live
  <2> HIDE DEF P
  <2>2. Cardinality(P \ {ready[i]}) = Cardinality(P) - 1
    BY <1>2, <1>7, FS_RemoveElement
  <2>3. Cardinality(P) # 0
    BY <1>2, <2>1, FS_EmptySet
  <2> QED BY <1>2, <2>1, <2>2, <2>3
<1>9. Stock!ExecuteHead
  <2>1. current = 0 /\ current' # 0
    BY <1>1, <1>3 DEF FifoView
  <2>2. Q' = Tail(Q)
    BY <1>6, NextRunnable
  <2>3. UNCHANGED Live(scheduled) /\ Cardinality(P)' = Cardinality(P')
    BY <1>1 DEF Live
  <2> QED BY <1>1, <1>8, <2>1, <2>2, <2>3 DEF Stock!ExecuteHead
<1>10. FifoView'
  <2>1. pc' # "callback" <=> current' = 0
    BY <1>1, <1>3
  <2>2. \A h \in Handle \ (1..created') : when'[h] = 0
    BY <1>1 DEF FifoView
  <2>3. ASSUME NEW g \in turnPending' \ cancelled', NEW h \in ToSet(ready') \ cancelled',
               h \notin turnPending'
        PROVE  InOrder(ready', g, h)
    <3>1. InOrder(ready, g, h) /\ g # ready[i] /\ h # ready[i]
      BY <1>1, <1>5, <2>3 DEF FifoView, Live
    <3> QED BY <1>1, <1>2, <3>1, OrderRemove
  <2> QED BY <1>1, <1>4, <1>6, <2>1, <2>2, <2>3, NextView
<1> QED BY <1>9, <1>10 DEF Stock!SNext

\* Emptying a queue of dead handles is invisible.
LEMMA ListPurged ==
    ASSUME NEW p, Lists(p, ready, cancelled)
    PROVE  Lists(p, Purged, cancelled)
<1>1. CASE Purged = ready
  BY <1>1
<1>2. CASE Purged # ready
  <2>1. ToSet(ready) \ cancelled = {} /\ Purged = << >>
    BY <1>2 DEF Purged, Live
  <2>2. ToSet(Purged) \ cancelled = {}
    BY <2>1 DEF ToSet
  <2>3. p \in [1..Cardinality({}) -> {}] /\ Cardinality({}) = 0
    BY <2>1, FS_EmptySet DEF Lists, Listings
  <2>4. DOMAIN p = {}
    BY <2>3
  <2> QED BY <2>2, <2>3, <2>4 DEF Lists, Listings
<1> QED BY <1>1, <1>2

\* What only controls the runs, and a run given up for lack of time, is not seen;
\* the end of a callback is.
LEMMA FifoQuiet ==
    ASSUME Inv, FifoView, recording, Quiet \/ TimeBudgetExceeded \/ UNCHANGED vars
    PROVE  FifoView' /\ [Stock!SNext]_(Stock!svars)
<1>1. CASE Quiet
  <2>1. UNCHANGED <<created, when, cancelled, ready, scheduled, turnPending, now, recording>>
    BY <1>1 DEF Quiet
  <2>2. \/ UNCHANGED <<pc, current>>
        \/ current' = 0 /\ pc' \in {"idle", "run_once"}
        \/ pc = "idle" /\ pc' = "run_once" /\ current' = current
    BY <1>1 DEF Quiet, UserStop, NothingRunnable, StepBudgetExceeded, CleanupBudgetExceeded,
          ChooseFails, CallbackReturns, CallbackInterrupts, HookAborts, RunUntilComplete,
          Break, Leave
  <2>3. /\ pc' # "callback" <=> current' = 0
        /\ pc' # "closed" /\ (pc' = "select" => pc = "select")
        /\ \A h \in Handle \ (1..created') : when'[h] = 0
    BY <2>1, <2>2 DEF FifoView
  <2>4. FifoView' /\ UNCHANGED <<Runnable(ready, cancelled), Cardinality(Live(turnPending))>>
    BY <2>1, <2>3, SameQueue
  <2>5. UNCHANGED Live(scheduled)
    BY <2>1 DEF Live
  <2>6. CASE (current' # 0) = (current # 0)
    BY <2>1, <2>4, <2>5, <2>6 DEF Stock!svars
  <2>7. CASE current # 0 /\ current' = 0
    <3>1. Stock!Executed
      BY <2>1, <2>4, <2>5, <2>7 DEF Stock!Executed
    <3> QED BY <2>4, <3>1 DEF Stock!SNext
  <2> QED BY <2>2, <2>6, <2>7
<1>2. CASE TimeBudgetExceeded
  <2>1. /\ pc = "run_once" /\ Live(turnPending) = {} /\ pc' = "idle" /\ current' = 0
        /\ scheduled' = scheduled \ DeadHeads /\ ready' = Purged
        /\ UNCHANGED <<created, when, cancelled, turnPending, now, recording>>
    BY <1>2 DEF TimeBudgetExceeded, NeedsTurn, TurnExhausted, Leave, handleVars, clockVars, budgetVars
  <2>2. current = 0
    BY <2>1 DEF FifoView
  <2> DEFINE Q == Runnable(ready, cancelled)
  <2>3. created \in Nat /\ ready \in Seq(1..created) /\ Distinct(ready) /\ Lists(Q, ready, cancelled)
    BY ViewListing
  <2> HIDE DEF Q
  <2>4. ready' \in Seq(1..created) /\ Distinct(ready') /\ Lists(Q, ready', cancelled')
    <3>1. << >> \in Seq(1..created) /\ Distinct(<< >>)
      BY EmptySeq DEF Distinct
    <3>2. Purged \in Seq(1..created) /\ Distinct(Purged)
      BY <2>3, <3>1 DEF Purged
    <3> QED BY <2>1, <2>3, <3>2, ListPurged
  <2>5. Runnable(ready', cancelled') = Q
    BY <2>3, <2>4, RunnableIs
  <2>6. FifoView'
    BY <2>1, <2>4, <2>5, NextView DEF FifoView, Live
  <2>7. Live(scheduled)' = Live(scheduled)
    BY <2>1 DEF Live, DeadHeads
  <2>8. UNCHANGED <<Q, Cardinality(Live(turnPending))>>
    BY <2>1, <2>5, NextRunnable DEF Live, Q
  <2> QED BY <2>1, <2>2, <2>6, <2>7, <2>8 DEF Stock!svars, Q
<1>3. CASE UNCHANGED vars
  <2>1. UNCHANGED <<created, when, cancelled, ready, scheduled, turnPending, now, recording, pc, current>>
    BY <1>3 DEF vars, handleVars, timerVars, budgetVars, clockVars
  <2>2. FifoView' /\ UNCHANGED <<Runnable(ready, cancelled), Cardinality(Live(turnPending))>>
    BY <2>1, SameQueue DEF FifoView
  <2>3. UNCHANGED Live(scheduled)
    BY <2>1 DEF Live
  <2> QED BY <2>1, <2>2, <2>3 DEF Stock!svars
<1> QED BY <1>1, <1>2, <1>3


\* asyncio's time when its next iteration starts.
IterationTime ==
    IF Runnable(ready, cancelled) = << >>
          /\ \E t \in Live(scheduled) : /\ when[t] > now
                                        /\ \A u \in Live(scheduled) : when[t] <= when[u]
    THEN CHOOSE d \in {when[t] : t \in Live(scheduled)} : \A u \in Live(scheduled) : d <= when[u]
    ELSE now

\* Unless a stop is due, the loop sleeps to it.
LEMMA SameTime ==
    ASSUME Inv, FifoView, recording
    PROVE  \/ AdvancedTime = IterationTime
           \/ /\ AdvancedTime = now /\ Runnable(ready, cancelled) = << >>
              /\ \A t \in Live(scheduled) : when[t] > now
<1> DEFINE Q == Runnable(ready, cancelled)
           First(t) == \A u \in Live(scheduled) : when[t] <= when[u]
<1>1. /\ HandleTypes /\ CounterTypes /\ now \in Int
      /\ \A t \in Live(scheduled) : when[t] \in Int
  BY ConstantsAssumption DEF Inv, TypeOK, HandleTypes, CounterTypes, Live, Handle
<1>2. /\ AdvancedTime >= now
      /\ AdvancedTime # now => AdvancedTime \in WakeUp /\ AdvancedTime > now
  BY <1>1, ClockAdvance
<1>3. Q = << >> <=> Live(ToSet(ready)) = {}
  <2>1. Q \in Seq(1..created) /\ ToSet(Q) = Live(ToSet(ready))
    BY ViewListing
  <2> HIDE DEF Q
  <2>2. Q = << >> <=> DOMAIN Q = {}
    BY <2>1
  <2> QED BY <2>1, <2>2 DEF ToSet
<1>4. CASE ~(Q = << >> /\ \E t \in Live(scheduled) : when[t] > now /\ First(t))
  <2>1. ASSUME AdvancedTime # now PROVE FALSE
    <3>1. AdvancedTime \in WakeUp /\ AdvancedTime > now
      BY <1>2, <2>1
    <3>2. /\ Live(ToSet(ready)) = {}
          /\ \E t \in Live(scheduled) : AdvancedTime = when[t]
          /\ \A u \in Live(scheduled) : AdvancedTime <= when[u]
      BY <1>1, <3>1, WakeUpDeadline
    <3> QED BY <1>3, <1>4, <3>1, <3>2
  <2>2. IterationTime = now
    BY <1>4 DEF IterationTime
  <2> QED BY <2>1, <2>2
<1>5. ASSUME Q = << >>, NEW t \in Live(scheduled), when[t] > now, First(t), stopping
      PROVE  AdvancedTime = now /\ \A u \in Live(scheduled) : when[u] > now
  <2>1. WakeUp = {}
    BY <1>5 DEF WakeUp
  <2> QED BY <1>1, <1>2, <1>5, <2>1
<1>6. ASSUME Q = << >>, NEW t \in Live(scheduled), when[t] > now, First(t), ~stopping
      PROVE  AdvancedTime = IterationTime
  <2>1. PICK w \in WakeUp : TRUE
    BY <1>1, <1>3, <1>6, WakeUpExists
  <2>2. /\ \E u \in Live(scheduled) : w = when[u]
        /\ \A u \in Live(scheduled) : w <= when[u]
    BY <1>1, WakeUpDeadline
  <2>3. w > now
    BY <1>1, <1>6, <2>2
  <2>4. AdvancedTime \in WakeUp
    BY <2>3 DEF AdvancedTime
  <2>5. /\ \E u \in Live(scheduled) : AdvancedTime = when[u]
        /\ \A u \in Live(scheduled) : AdvancedTime <= when[u]
    BY <1>1, <2>4, WakeUpDeadline
  <2> DEFINE Deadlines == {when[u] : u \in Live(scheduled)}
  <2>6. /\ AdvancedTime \in Deadlines
        /\ \A d \in Deadlines : (\A u \in Live(scheduled) : d <= when[u]) => d = AdvancedTime
    BY <1>1, <2>5
  <2>7. (CHOOSE d \in Deadlines : \A u \in Live(scheduled) : d <= when[u]) = AdvancedTime
    BY <2>5, <2>6
  <2>8. IterationTime = CHOOSE d \in Deadlines : \A u \in Live(scheduled) : d <= when[u]
    BY <1>6 DEF IterationTime
  <2> QED BY <2>7, <2>8
<1> QED BY <1>4, <1>5, <1>6

\* Preparing a turn is the start of an iteration: the timers due move behind the
\* runnable callbacks, and all that are runnable then belong to the iteration.
LEMMA FifoIteration ==
    ASSUME Inv, FifoView, recording, PrepareTurn
    PROVE  FifoView' /\ [Stock!SNext]_(Stock!svars)
<1> DEFINE Q == Runnable(ready, cancelled)
           due == Live(Due)
<1>1. PICK promoted \in Listings(due, Before) : Promote(promoted)
  BY DEF PrepareTurn
<1>2. /\ pc = "run_once" /\ pc' = "select" /\ Live(turnPending) = {} /\ now' = AdvancedTime
      /\ scheduled' = (scheduled \ DeadHeads) \ Due
      /\ ready' = Purged \o promoted /\ turnPending' = Live(ToSet(Purged \o promoted))
      /\ UNCHANGED <<created, when, cancelled, recording, current>>
  BY <1>1 DEF PrepareTurn, Promote, NeedsTurn, TurnExhausted, handleVars, budgetVars
<1>3. HandleTypes /\ CounterTypes /\ scheduled \subseteq 1..created
  BY DEF Inv, TypeOK, HandleTypes
<1>4. /\ promoted \in Seq(1..created) /\ ToSet(promoted) = due /\ Distinct(promoted)
      /\ \A i, j \in DOMAIN promoted : i < j => InOrder(promoted, promoted[i], promoted[j])
  BY <1>3, PromotedTimers DEF Distinct, InOrder
<1>5. /\ promoted \in [1..Cardinality(due) -> due]
      /\ \A i, j \in DOMAIN promoted : i < j => Before(promoted[i], promoted[j])
  BY DEF Listings
<1>6. /\ created \in Nat /\ ready \in Seq(1..created) /\ Distinct(ready) /\ Lists(Q, ready, cancelled)
      /\ Q \in Seq(1..created) /\ ToSet(Q) = Live(ToSet(ready))
  BY ViewListing
<1>7. /\ Purged \in Seq(1..created) /\ Distinct(Purged) /\ Lists(Q, Purged, cancelled)
      /\ ToSet(Purged) \subseteq ToSet(ready)
  <2>1. << >> \in Seq(1..created) /\ Distinct(<< >>)
    BY EmptySeq DEF Distinct
  <2>2. Purged \in Seq(1..created) /\ Distinct(Purged)
    BY <1>6, <2>1 DEF Purged
  <2> HIDE DEF Q
  <2> QED BY <1>6, <2>2, ListPurged, PurgedSet
<1>8. ToSet(promoted) \cap ToSet(Purged) = {} /\ ToSet(promoted) \cap cancelled = {}
  BY <1>4, <1>7, DueTimers, <1>3 DEF Inv, OnePlace, Live
<1>9. /\ ready' \in Seq(1..created) /\ Distinct(ready') /\ Lists(Q \o promoted, ready', cancelled')
      /\ Q \o promoted \in Seq(1..created) /\ Len(Q \o promoted) = Cardinality(Live(turnPending'))
  <2> HIDE DEF Q, due
  <2>1. Purged \o promoted \in Seq(1..created) /\ Distinct(Purged \o promoted)
    BY <1>4, <1>7, <1>8, ConcatElements DEF Distinct
  <2>2. Lists(Q \o promoted, Purged \o promoted, cancelled)
    BY <1>4, <1>6, <1>7, <1>8, ListConcat
  <2>3. /\ Q \o promoted \in Seq(1..created)
        /\ ToSet(Q \o promoted) = Live(ToSet(Purged \o promoted))
        /\ Len(Q \o promoted) = Cardinality(ToSet(Q \o promoted))
    <3> DEFINE c == Purged \o promoted
               p == Q \o promoted
    <3>1. c \in Seq(1..created) /\ Distinct(c) /\ Lists(p, c, cancelled)
      BY <2>1, <2>2
    <3> HIDE DEF c, p
    <3>2. p \in Seq(1..created) /\ ToSet(p) = ToSet(c) \ cancelled /\ Len(p) = Cardinality(ToSet(p))
      BY <1>6, <3>1, ListFacts
    <3> QED BY <3>2 DEF Live, c, p
  <2>4. Live(turnPending') = turnPending'
    BY <1>2 DEF Live
  <2> QED BY <1>2, <2>1, <2>2, <2>3, <2>4
<1>10. Runnable(ready', cancelled') = Q \o promoted
  <2> HIDE DEF Q
  <2> QED BY <1>6, <1>9, RunnableIs
<1>11. FifoView'
  <2>1. pc' # "callback" <=> current' = 0
    BY <1>2 DEF FifoView
  <2>2. \A h \in Handle \ (1..created') : when'[h] = 0
    BY <1>2 DEF FifoView
  <2>3. ToSet(ready') \ cancelled' \subseteq turnPending'
    BY <1>2 DEF Live
  <2> QED BY <1>2, <1>9, <1>10, <2>1, <2>2, <2>3, NextView
<1>12. Q' = Q \o promoted
  BY <1>10, NextRunnable
<1>13. /\ Live(scheduled)' = Live(scheduled) \ due
       /\ due = {t \in Live(scheduled) : when[t] <= now'}
  BY <1>2 DEF Live, Due, DeadHeads
<1>14. Cardinality(Live(turnPending)) = 0 /\ Cardinality(Live(turnPending))' = Len(Q')
  <2>1. Cardinality(Live(turnPending)) = 0
    BY <1>2, FS_EmptySet
  <2>2. Cardinality(Live(turnPending))' = Cardinality(Live(turnPending'))
    BY <1>2 DEF Live
  <2> HIDE DEF Q
  <2> QED BY <1>9, <1>12, <2>1, <2>2
<1>15. current = 0 /\ current' = 0
  BY <1>2 DEF FifoView
<1>16. CASE AdvancedTime = IterationTime
  <2>1. \A i, j \in DOMAIN promoted : i < j => when[promoted[i]] <= when[promoted[j]]
    <3>1. \A h \in due : when[h] \in Int
      BY <1>3, DueTimers, ConstantsAssumption DEF HandleTypes, Handle
    <3>2. \A i \in DOMAIN promoted : when[promoted[i]] \in Int
      BY <1>5, <3>1
    <3>3. ASSUME NEW i \in DOMAIN promoted, NEW j \in DOMAIN promoted, i < j
          PROVE  when[promoted[i]] <= when[promoted[j]]
      <4>1. Before(promoted[i], promoted[j])
        BY <1>5, <3>3
      <4>2. when[promoted[i]] \in Int /\ when[promoted[j]] \in Int
        BY <3>2
      <4>3. when[promoted[i]] < when[promoted[j]] \/ when[promoted[i]] = when[promoted[j]]
        BY <4>1 DEF Before
      <4> QED BY <4>2, <4>3
    <3> QED BY <3>3
  <2>2. Stock!Iteration
    <3> DEFINE D == {t \in Live(scheduled) : when[t] <= now'}
    <3>1. now' = IterationTime
      BY <1>2, <1>16
    <3>2. Live(scheduled)' = Live(scheduled) \ D
      BY <1>13
    <3>3. promoted \in [1..Cardinality(D) -> D] /\ ToSet(promoted) = D
      <4>1. due = D
        BY <1>13
      <4> HIDE DEF D, due
      <4> QED BY <1>4, <1>5, <4>1
    <3>4. /\ promoted \in [1..Stock!Cardinality(D) -> D] /\ Stock!ToSet(promoted) = D
          /\ \A i, j \in DOMAIN promoted : i < j => when[promoted[i]] <= when[promoted[j]]
          /\ Q' = Q \o promoted
      BY <1>12, <2>1, <3>3, SameOperators
    <3>5. /\ Cardinality(Live(turnPending)) = 0 /\ ~(current # 0) /\ ~(current' # 0)
          /\ Cardinality(Live(turnPending))' = Len(Q') /\ when' = when
          /\ (current' # 0) = (current # 0)
      BY <1>2, <1>14, <1>15
    <3>6. \E order \in [1..Stock!Cardinality(D) -> D] :
              /\ Stock!ToSet(order) = D
              /\ \A i, j \in DOMAIN order : i < j => when[order[i]] <= when[order[j]]
              /\ Q' = Q \o order
      BY <3>4, Zenon
    <3> QED BY <3>1, <3>2, <3>5, <3>6, Zenon DEF Stock!Iteration, IterationTime
  <2> QED BY <1>11, <2>2 DEF Stock!SNext
<1>17. CASE AdvancedTime = now /\ Q = << >> /\ \A t \in Live(scheduled) : when[t] > now
  <2>1. now \in Int /\ \A t \in Live(scheduled) : when[t] \in Int
    BY <1>3, ConstantsAssumption DEF HandleTypes, CounterTypes, Live, Handle
  <2>2. due = {}
    BY <1>2, <1>13, <1>17, <2>1
  <2>3. promoted = << >>
    <3>1. DOMAIN promoted = {}
      BY <1>4, <2>2 DEF ToSet
    <3> QED BY <1>4, <3>1
  <2>4. Q' = << >> /\ Len(<< >>) = 0
    BY <1>12, <1>17, <2>3
  <2>5. UNCHANGED <<Q, Live(scheduled), Cardinality(Live(turnPending)), when, now, current # 0>>
    BY <1>2, <1>13, <1>14, <1>15, <1>17, <2>2, <2>4
  <2>6. UNCHANGED Stock!svars
    BY <2>5 DEF Stock!svars
  <2> QED BY <1>11, <2>6
<1> QED BY <1>16, <1>17, SameTime

\* Whatever a step does, a callback is current exactly while it is executed.
LEMMA CurrentStep ==
    ASSUME HandleTypes, FifoView, [Next]_vars
    PROVE  /\ pc' # "callback" <=> current' = 0
           /\ \A h \in Handle \ (1..created') : when'[h] = 0
<1> DEFINE Fresh == \A h \in Handle \ (1..created) : when[h] = 0
<1>1. (pc # "callback" <=> current = 0) /\ Fresh
  BY DEF FifoView
<1>2. ASSUME NEW k \in {"soon", "timer", "completion"}, NEW w \in 0..MaxWhen,
             NewHandle(k, w), UNCHANGED <<pc, current>>
      PROVE  (pc' # "callback" <=> current' = 0) /\ Fresh'
  <2>1. /\ created' = created + 1 /\ created + 1 \in Handle
        /\ 1..created' = (1..created) \cup {created + 1}
        /\ when' = [when EXCEPT ![created + 1] = w] /\ when \in [Handle -> 0..MaxWhen]
    BY <1>2, NewHandleTypes DEF NewHandle, HandleTypes
  <2> QED BY <1>1, <1>2, <2>1
<1>3. CASE CallSoon
  BY <1>2, <1>3, ConstantsAssumption DEF CallSoon
<1>4. CASE CompleteFuture
  BY <1>2, <1>4, ConstantsAssumption DEF CompleteFuture
<1>5. ASSUME NEW w \in 0..MaxWhen, CallAt(w)
      PROVE  (pc' # "callback" <=> current' = 0) /\ Fresh'
  BY <1>2, <1>5 DEF CallAt
<1>6. CASE \E h \in Handle : Cancel(h)
  BY <1>1, <1>6 DEF Cancel, handleVars
<1>7. CASE PrepareTurn
  BY <1>1, <1>7 DEF PrepareTurn, NeedsTurn, handleVars
<1>8. CASE TimeBudgetExceeded
  BY <1>1, <1>8 DEF TimeBudgetExceeded, Leave, handleVars
<1>9. ASSUME NEW i \in DOMAIN ready, RunOnce(i)
      PROVE  (pc' # "callback" <=> current' = 0) /\ Fresh'
  <2>1. ready[i] # 0
    BY ReadySet DEF HandleTypes
  <2> QED BY <1>1, <1>9, <2>1 DEF RunOnce, handleVars
<1>10. CASE BeginShutdown \/ Close
  BY <1>1, <1>10 DEF BeginShutdown, Close, handleVars
<1>11. CASE Quiet
  <2>1. UNCHANGED <<created, when>>
    BY <1>11 DEF Quiet
  <2>2. \/ UNCHANGED <<pc, current>>
        \/ current' = 0 /\ pc' \in {"idle", "run_once"}
        \/ pc = "idle" /\ pc' = "run_once" /\ current' = current
    BY <1>11 DEF Quiet, UserStop, NothingRunnable, StepBudgetExceeded, CleanupBudgetExceeded,
          ChooseFails, CallbackReturns, CallbackInterrupts, HookAborts, RunUntilComplete,
          Break, Leave
  <2> QED BY <1>1, <2>1, <2>2
<1>12. CASE UNCHANGED vars
  BY <1>1, <1>12 DEF vars, handleVars
<1> QED BY <1>3, <1>4, <1>5, <1>6, <1>7, <1>8, <1>9, <1>10, <1>11, <1>12, NextCases

\* While the scenario runs, every step is one asyncio could take, or is invisible.
LEMMA FifoStep ==
    ASSUME Fifo, Inv, FifoView, [Next]_vars
    PROVE  FifoView' /\ [recording' => Stock!SNext]_(Stock!svars)
<1>1. CASE ~recording'
  <2>1. FifoView'
    BY <1>1, CurrentStep, NextView DEF Inv, TypeOK
  <2> QED BY <1>1, <2>1
<1>2. CASE recording'
  <2>1. recording /\ ~BeginShutdown /\ ~Close
    <3>1. ~BeginShutdown /\ (Quiet \/ UNCHANGED vars => recording)
      BY <1>2 DEF BeginShutdown, Quiet, vars, budgetVars
    <3>2. recording
      BY <1>2, <3>1, NextCases DEF CallSoon, CompleteFuture, CallAt, Cancel, PrepareTurn,
            TimeBudgetExceeded, RunOnce, Close, budgetVars
    <3> QED BY <3>1, <3>2 DEF Close
  <2>2. CASE CallSoon
    BY <2>1, <2>2, FifoEnqueue DEF CallSoon, InUserCode, timerVars, budgetVars, clockVars
  <2>3. CASE CompleteFuture
    BY <2>1, <2>3, FifoEnqueue DEF CompleteFuture, timerVars, budgetVars, clockVars
  <2>4. CASE \E w \in 0..MaxWhen : CallAt(w)
    BY <2>1, <2>4, FifoArm
  <2>5. CASE \E h \in Handle : Cancel(h)
    BY <2>1, <2>5, FifoCancel
  <2>6. CASE PrepareTurn
    BY <2>1, <2>6, FifoIteration
  <2>7. CASE \E i \in DOMAIN ready : RunOnce(i)
    BY <2>1, <2>7, FifoExecute
  <2>8. CASE Quiet \/ TimeBudgetExceeded \/ UNCHANGED vars
    BY <2>1, <2>8, FifoQuiet
  <2> QED BY <2>1, <2>2, <2>3, <2>4, <2>5, <2>6, <2>7, <2>8, NextCases
<1> QED BY <1>1, <1>2

\* Under the Fifo scheduler, and until the loop is left, exactly the callbacks asyncio
\* would execute are executed, in its order, however many handles, timers and steps
\* there are: one callback per _run_once makes no observable difference.
THEOREM FifoFollowsAsyncioAlways ==
    ASSUME Fifo
    PROVE  Spec => FifoFollowsAsyncio
<1>1. Init => FifoView /\ Stock!SInit
  <2> SUFFICES ASSUME Init PROVE FifoView /\ Stock!SInit
    OBVIOUS
  <2>1. /\ ready \in Seq(1..created) /\ Distinct(ready) /\ ToSet(ready) = {} /\ DOMAIN ready = {}
        /\ ready = << >> /\ created \in Nat
    BY EmptySeq DEF Init, Distinct, ToSet
  <2>2. Lists(ready, ready, cancelled)
    BY <2>1, ListIntro
  <2>3. Runnable(ready, cancelled) = << >>
    BY <2>1, <2>2, RunnableIs
  <2>4. FifoView
    BY <2>1, <2>2, <2>3 DEF Init, FifoView, Live
  <2>5. Cardinality(Live(turnPending)) = 0 /\ Live(scheduled) = {}
    BY FS_EmptySet DEF Init, Live
  <2>6. Stock!SInit
    BY <2>3, <2>5 DEF Init, Stock!SInit
  <2> QED BY <2>4, <2>6
<1>2. Inv /\ FifoView /\ [Next]_vars => FifoView'
  BY FifoStep
<1>3. Inv /\ FifoView /\ [Next]_vars => [recording' => Stock!SNext]_(Stock!svars)
  BY FifoStep
<1> QED BY <1>1, <1>2, <1>3, InvAlways, PTL DEF Spec, FifoFollowsAsyncio

=============================================================================
