---------------------------- MODULE RunnerProofs ----------------------------
(***************************************************************************)
(* Proofs about Runner, for every value of its constants.                  *)
(***************************************************************************)
EXTENDS Runner, TLAPS

\* A task is in one state at a time, and there is none before the run.
OneState ==
    /\ runnable \cap blocked = {} /\ failed \cap pending = {}
    /\ stage = "on_start" => blocked = {} /\ failed = {}

\* What holds of the tasks and generators to be cleaned up, stage by stage.
Sweeping ==
    /\ unswept \subseteq pending
    /\ stage \in {"on_start", "main", "on_finish", "executor"} => unswept = {}
    /\ stage \in {"resweep", "executor"} => generators = 0
    /\ stage \in {"close", "done"} /\ error = "none" => unswept = {} /\ generators = 0

\* What holds of the errors seen so far.
Verdict ==
    /\ interrupted => error = "control"
    /\ stage \in {"on_start", "main"} => error = "none"
    /\ loose /\ error = "none" => exceptions \/ failed \ joining # {}
    /\ FailureReported

\* The stages that run the loop.
Control ==
    /\ running => stage \in {"main", "sweep", "generators", "resweep", "executor"}
    /\ stage = "main" => running

Inv == TypeOK /\ Control /\ OneState /\ Sweeping /\ Verdict

\* The inductive invariant holds initially.
LEMMA InvInit == Init => Inv
<1> SUFFICES ASSUME Init PROVE Inv
  OBVIOUS
<1>1. /\ stage \in Stages /\ error \in ErrorClasses
      /\ running \in BOOLEAN /\ stuck \in BOOLEAN /\ exceptions \in BOOLEAN
      /\ finding \in BOOLEAN /\ interrupted \in BOOLEAN
      /\ callbacks \in BOOLEAN /\ loose \in BOOLEAN
  BY Zenon DEF Init, Stages, ErrorClasses
<1>2. /\ hook \in 0..Oracles /\ generators \in 0..MaxGenerators
      /\ steps \in 0..MaxSteps /\ cleanupSteps \in 0..CleanupLimit
  BY RunnerAssumption DEF Init
<1>3. TypeOK
  BY <1>1, <1>2 DEF Init, TypeOK
<1>4. Control /\ OneState /\ Sweeping /\ Verdict
  BY DEF Init, Control, OneState, Sweeping, Verdict, FailureReported, pending
<1> QED BY <1>3, <1>4 DEF Inv

\* An error is displaced only by an interrupt, and never by nothing.
LEMMA PreferredError ==
    ASSUME error \in ErrorClasses,
           NEW caught \in {"scenario", "invalid", "loop", "oracle", "control"}
    PROVE  /\ Preferred(caught) \in ErrorClasses \ {"none"}
           /\ error # "none" /\ Preferred(caught) # error => Preferred(caught) = "control"
           /\ error = "control" \/ caught = "control" => Preferred(caught) = "control"
BY DEF Preferred, ErrorClasses

\* Leaving the main run.
LEMMA LeaveMainEffect ==
    ASSUME Inv, NEW caught \in {"none", "scenario", "invalid", "loop", "oracle", "control"},
           NEW unobserved \in SUBSET Task, stage \in {"on_start", "main"},
           LeaveMain(caught, unobserved)
    PROVE  /\ stage' = "on_finish" /\ running' = FALSE /\ hook' \in 0..Oracles
           /\ error' = caught /\ error' \in ErrorClasses /\ error = "none"
           /\ interrupted' \in BOOLEAN /\ (interrupted' => error' = "control")
           /\ failed' = {} /\ exceptions' \in BOOLEAN
<1>1. error = "none" /\ ~interrupted
  BY DEF Inv, Verdict
<1>2. caught \in ErrorClasses
  BY DEF ErrorClasses
<1> QED BY <1>1, <1>2, RunnerAssumption DEF LeaveMain, Interrupts, Collect, Inv, TypeOK

\* Leaving the cleanup.
LEMMA LeaveShutdownEffect ==
    ASSUME Inv, NEW caught \in {"loop", "control"},
           NEW unobserved \in SUBSET Task, LeaveShutdown(caught, unobserved)
    PROVE  /\ stage' = "close" /\ running' = FALSE /\ hook' = hook
           /\ error' \in ErrorClasses \ {"none"}
           /\ error # "none" /\ error' # error => error' = "control"
           /\ interrupted' \in BOOLEAN /\ (interrupted' => error' = "control")
           /\ failed' = unobserved /\ exceptions' = exceptions
<1>1. error \in ErrorClasses /\ interrupted \in BOOLEAN /\ (interrupted => error = "control")
  BY DEF Inv, TypeOK, Verdict
<1>2. error' = Preferred(caught)
  BY DEF LeaveShutdown
<1> QED BY <1>1, <1>2, PreferredError DEF LeaveShutdown, Interrupts


\* The property FirstErrorReported of one step.
Displaced == error # "none" /\ error' # error => error' = "control"

\* Steps inside the loop: the budgets are kept, the tasks stay tasks.
LEMMA CountTypes ==
    ASSUME TypeOK, Count
    PROVE  steps' \in 0..MaxSteps /\ cleanupSteps' \in 0..CleanupLimit
BY RunnerAssumption DEF TypeOK, Count, Capped

\* User code leaves the tasks tasks, each in one state, and loses none it has to
\* account for.
LEMMA UserCodeEffect ==
    ASSUME TypeOK, OneState, Sweeping,
           NEW ran \in SUBSET runnable, NEW becomes \in {"runnable", "blocked", "done", "failed"},
           UserCode(ran, becomes)
    PROVE  /\ runnable' \subseteq Task /\ blocked' \subseteq Task
           /\ runnable' \cap blocked' = {} /\ failed \cap pending' = {}
           /\ becomes \in {"done", "failed"} => ran \cap pending' = {}
           /\ unswept' \subseteq Task /\ unswept' \subseteq pending'
           /\ stage \in {"main", "executor"} => unswept' = {}
<1>1. PICK woken \in SUBSET blocked,
           spawned \in SUBSET (Task \ (pending \cup failed \cup joining \cup {Main})) :
          /\ runnable' = (runnable \ ran) \cup woken \cup spawned
                             \cup (IF becomes = "runnable" THEN ran ELSE {})
          /\ blocked' = (blocked \ woken) \cup (IF becomes = "blocked" THEN ran ELSE {})
          /\ unswept' = (unswept \ (IF becomes \in {"runnable", "blocked"} THEN {} ELSE ran))
                            \cup (IF stage \in {"sweep", "generators", "resweep"} THEN spawned
                                                                                  ELSE {})
  BY DEF UserCode
<1>2. /\ runnable \subseteq Task /\ blocked \subseteq Task /\ unswept \subseteq pending
      /\ runnable \cap blocked = {} /\ failed \cap (runnable \cup blocked) = {}
      /\ spawned \subseteq Task
      /\ spawned \cap runnable = {} /\ spawned \cap blocked = {} /\ spawned \cap failed = {}
  BY DEF TypeOK, OneState, Sweeping, pending
<1>3. CASE becomes = "runnable"
  BY <1>1, <1>2, <1>3 DEF pending, Sweeping
<1>4. CASE becomes = "blocked"
  BY <1>1, <1>2, <1>4 DEF pending, Sweeping
<1>5. CASE becomes \in {"done", "failed"}
  <2>1. /\ runnable' = (runnable \ ran) \cup woken \cup spawned
        /\ blocked' = blocked \ woken
        /\ unswept' = (unswept \ ran)
                          \cup (IF stage \in {"sweep", "generators", "resweep"} THEN spawned
                                                                                ELSE {})
    BY <1>1, <1>5
  <2>2. pending' = runnable' \cup blocked' /\ pending = runnable \cup blocked
    BY DEF pending
  <2>3. /\ unswept' \subseteq pending' /\ unswept' \subseteq Task
        /\ stage \in {"main", "executor"} => unswept' = {}
    BY <1>2, <2>1, <2>2 DEF Sweeping
  <2> QED BY <1>2, <2>1, <2>2, <2>3
<1> QED BY <1>3, <1>4, <1>5

\* An exception that leaves run_until_complete, in the scenario or in cleanup.
LEMMA LeaveRunStep ==
    ASSUME Inv, NEW caught \in {"loop", "control"}, NEW unobserved \in SUBSET Task,
           LeaveRun(caught, unobserved), running,
           runnable' \subseteq Task, blocked' \subseteq Task, callbacks' \in BOOLEAN,
           runnable' \cap blocked' = {}, unobserved \cap pending' = {},
           unswept' \subseteq Task, unswept' \subseteq pending',
           stage = "main" => unswept' = {},
           UNCHANGED <<joining, generators, stuck, finding, loose>>,
           steps' \in 0..MaxSteps, cleanupSteps' \in 0..CleanupLimit
    PROVE  Inv' /\ Displaced
<1>1. TypeOK /\ Sweeping /\ Verdict
  BY DEF Inv
<1>2. CASE stage = "main"
  <2>1. LeaveMain(caught, unobserved)
    BY <1>2 DEF LeaveRun
  <2>2. /\ stage' = "on_finish" /\ running' = FALSE /\ hook' \in 0..Oracles
        /\ error' \in ErrorClasses /\ error = "none" /\ error' = caught
        /\ interrupted' \in BOOLEAN /\ (interrupted' => error' = "control")
        /\ failed' = {} /\ exceptions' \in BOOLEAN
    BY <1>2, <2>1, LeaveMainEffect
  <2>3. TypeOK'
    BY <1>1, <2>2 DEF TypeOK, Stages
  <2>4. Sweeping' /\ OneState'
    BY <1>1, <1>2, <2>2 DEF Sweeping, OneState
  <2>5. Verdict' /\ Displaced
    BY <2>2 DEF Verdict, FailureReported, Displaced
  <2>6. Control'
    BY <2>2 DEF Control
  <2> QED BY <2>3, <2>4, <2>5, <2>6 DEF Inv
<1>3. CASE stage # "main"
  <2>1. LeaveShutdown(caught, unobserved)
    BY <1>3 DEF LeaveRun
  <2>2. /\ stage' = "close" /\ running' = FALSE /\ hook' = hook
        /\ error' \in ErrorClasses \ {"none"}
        /\ error # "none" /\ error' # error => error' = "control"
        /\ interrupted' \in BOOLEAN /\ (interrupted' => error' = "control")
        /\ failed' = unobserved /\ exceptions' = exceptions
    BY <2>1, LeaveShutdownEffect
  <2>3. TypeOK'
    BY <1>1, <2>2 DEF TypeOK, Stages
  <2>4. Sweeping' /\ OneState'
    BY <1>1, <2>2 DEF Sweeping, OneState
  <2>5. Verdict' /\ Displaced
    BY <2>2 DEF Verdict, FailureReported, Displaced
  <2>6. Control'
    BY <2>2 DEF Control
  <2> QED BY <2>3, <2>4, <2>5, <2>6 DEF Inv
<1> QED BY <1>2, <1>3

\* An interrupt out of a task, a plain callback or a generator being closed.
LEMMA InterruptStep ==
    ASSUME Inv, NEW ran \in SUBSET runnable, Interrupt(ran)
    PROVE  Inv' /\ Displaced
<1>1. TypeOK /\ OneState /\ Sweeping
  BY DEF Inv
<1>2. /\ UserCode(ran, "failed") /\ LeaveRun("control", failed \cup ran) /\ running /\ Count
      /\ callbacks' \in {callbacks, TRUE}
      /\ UNCHANGED <<joining, generators, stuck, finding, loose>>
  BY DEF Interrupt
<1>3. steps' \in 0..MaxSteps /\ cleanupSteps' \in 0..CleanupLimit
  BY <1>1, <1>2, CountTypes
<1>4. /\ runnable' \subseteq Task /\ blocked' \subseteq Task
      /\ runnable' \cap blocked' = {} /\ failed \cap pending' = {} /\ ran \cap pending' = {}
      /\ unswept' \subseteq Task /\ unswept' \subseteq pending'
      /\ stage = "main" => unswept' = {}
  BY <1>1, <1>2, UserCodeEffect
<1>5. failed \cup ran \in SUBSET Task /\ (failed \cup ran) \cap pending' = {}
  BY <1>1, <1>4 DEF TypeOK
<1>6. callbacks' \in BOOLEAN
  BY <1>1, <1>2 DEF TypeOK
<1> QED BY <1>2, <1>3, <1>4, <1>5, <1>6, LeaveRunStep

\* Steps of the event loop preserve the invariant.
LEMMA LoopStepPreserves ==
    ASSUME Inv, LoopStep
    PROVE  Inv' /\ Displaced
<1>1. TypeOK /\ Control /\ OneState /\ Sweeping /\ Verdict
  BY DEF Inv
<1>2. ASSUME NEW t \in Task, TaskInterrupts(t)
      PROVE  Inv' /\ Displaced
  <2>1. {t} \in SUBSET runnable /\ Interrupt({t})
    BY <1>2 DEF TaskInterrupts
  <2> QED BY <2>1, InterruptStep
<1>3. CASE CallbackInterrupts
  <2>1. {} \in SUBSET runnable /\ Interrupt({})
    BY <1>3 DEF CallbackInterrupts
  <2> QED BY <2>1, InterruptStep
<1>4. CASE LoopRaises
  <2>1. /\ LeaveRun("loop", failed) /\ running
        /\ runnable' = runnable /\ blocked' = blocked /\ unswept' = unswept
        /\ callbacks' = callbacks
        /\ UNCHANGED <<joining, generators, stuck, finding, loose, steps, cleanupSteps>>
    BY <1>4 DEF LoopRaises, cleanVars, countVars
  <2>2. /\ failed \in SUBSET Task /\ runnable' \subseteq Task /\ blocked' \subseteq Task
        /\ steps' \in 0..MaxSteps /\ cleanupSteps' \in 0..CleanupLimit
        /\ unswept' \subseteq Task /\ callbacks' \in BOOLEAN
    BY <1>1, <2>1 DEF TypeOK
  <2>3. /\ unswept' \subseteq pending' /\ runnable' \cap blocked' = {}
        /\ failed \cap pending' = {} /\ (stage = "main" => unswept' = {})
    BY <1>1, <2>1 DEF Sweeping, OneState, pending
  <2> QED BY <2>1, <2>2, <2>3, LeaveRunStep
<1>5. ASSUME NEW ran \in SUBSET runnable,
             NEW becomes \in {"runnable", "blocked", "done", "failed"},
             running, UserCode(ran, becomes), Opens, Count,
             callbacks' \in BOOLEAN, stuck' \in BOOLEAN, exceptions' \in {exceptions, TRUE},
             failed' = failed \cup (IF becomes = "failed" THEN ran ELSE {}),
             loose' = loose \/ (loose' = TRUE /\ failed' \ joining # {}),
             UNCHANGED <<controlVars, joining, finding, error, interrupted>>
      PROVE  Inv' /\ Displaced
  <2>1. /\ runnable' \subseteq Task /\ blocked' \subseteq Task
        /\ runnable' \cap blocked' = {} /\ failed \cap pending' = {}
        /\ becomes = "failed" => ran \cap pending' = {}
        /\ unswept' \subseteq Task /\ unswept' \subseteq pending'
        /\ stage \in {"main", "executor"} => unswept' = {}
    BY <1>1, <1>5, UserCodeEffect
  <2>2. steps' \in 0..MaxSteps /\ cleanupSteps' \in 0..CleanupLimit
    BY <1>1, <1>5, CountTypes
  <2>3. generators' \in 0..MaxGenerators
    BY <1>1, <1>5, RunnerAssumption DEF TypeOK, Opens, MayOpen
  <2>4. stage' = stage /\ running' = running /\ hook' = hook /\ joining' = joining
        /\ finding' = finding /\ error' = error /\ interrupted' = interrupted
    BY <1>5 DEF controlVars
  <2>5. failed' \subseteq Task /\ failed' \cap pending' = {} /\ failed \subseteq failed'
    BY <1>1, <1>5, <2>1 DEF TypeOK
  <2>6. exceptions' \in BOOLEAN /\ loose' \in BOOLEAN
    BY <1>1, <1>5 DEF TypeOK
  <2>7. TypeOK'
    BY <1>1, <1>5, <2>1, <2>2, <2>3, <2>4, <2>5, <2>6 DEF TypeOK
  <2>8. stage \in {"main", "sweep", "generators", "resweep", "executor"}
    BY <1>1, <1>5 DEF Control
  <2>9. Control' /\ OneState'
    BY <1>1, <2>1, <2>4, <2>5, <2>8 DEF Control, OneState
  <2>10. Sweeping'
    <3>1. stage \in {"resweep", "executor"} => generators' = generators
      BY <1>5 DEF Opens, MayOpen
    <3> QED BY <1>1, <2>1, <2>4, <2>8, <3>1 DEF Sweeping
  <2>11. loose' /\ error' = "none" => exceptions' \/ failed' \ joining' # {}
    <3>1. loose /\ error = "none" => exceptions \/ failed \ joining # {}
      BY <1>1 DEF Verdict
    <3>2. exceptions => exceptions'
      BY <1>5
    <3> QED BY <1>5, <2>4, <2>5, <3>1, <3>2
  <2>12. Verdict' /\ Displaced
    BY <1>1, <2>4, <2>8, <2>11 DEF Verdict, FailureReported, Displaced
  <2> QED BY <2>7, <2>9, <2>10, <2>12 DEF Inv
<1>6. ASSUME NEW t \in Task, NEW becomes \in {"runnable", "blocked", "done", "failed"},
             TaskSteps(t, becomes)
      PROVE  Inv' /\ Displaced
  <2>1. /\ running /\ {t} \in SUBSET runnable /\ UserCode({t}, becomes) /\ Opens /\ Count
        /\ callbacks' \in {callbacks, TRUE} /\ stuck' \in {stuck, FALSE}
        /\ failed' = failed \cup (IF becomes = "failed" THEN {t} ELSE {})
        /\ loose' = (loose \/ (becomes = "failed" /\ t \notin joining))
        /\ UNCHANGED <<controlVars, joining, exceptions, finding, error, interrupted>>
    BY <1>6 DEF TaskSteps
  <2>2. callbacks' \in BOOLEAN /\ stuck' \in BOOLEAN /\ exceptions' \in {exceptions, TRUE}
    BY <1>1, <2>1 DEF TypeOK
  <2>3. becomes = "failed" /\ t \notin joining => failed' \ joining # {}
    BY <2>1
  <2>4. loose' = loose \/ (loose' = TRUE /\ failed' \ joining # {})
    BY <1>1, <2>1, <2>3 DEF TypeOK
  <2> QED BY <1>5, <2>1, <2>2, <2>4
<1>7. CASE CallbackRuns
  <2>1. /\ running /\ {} \in SUBSET runnable /\ UserCode({}, "done") /\ Opens /\ Count
        /\ callbacks' \in BOOLEAN /\ stuck' \in {stuck, FALSE}
        /\ exceptions' \in {exceptions, TRUE}
        /\ failed' = failed /\ loose' = loose
        /\ UNCHANGED <<controlVars, joining, finding, error, interrupted>>
    BY <1>7 DEF CallbackRuns
  <2>2. stuck' \in BOOLEAN
    BY <1>1, <2>1 DEF TypeOK
  <2>3. failed' = failed \cup (IF "done" = "failed" THEN {} ELSE {})
    BY <2>1
  <2>4. loose' = loose \/ (loose' = TRUE /\ failed' \ joining # {})
    BY <2>1
  <2>5. "done" \in {"runnable", "blocked", "done", "failed"}
    OBVIOUS
  <2> QED BY <1>5, <2>1, <2>2, <2>3, <2>4, <2>5
<1> QED BY <1>2, <1>3, <1>4, <1>6, <1>7 DEF LoopStep

\* Hooks and ends of the main run preserve the invariant.
LEMMA MainRunPreserves ==
    ASSUME Inv, MainRun
    PROVE  Inv' /\ Displaced
<1>1. TypeOK /\ Control /\ OneState /\ Sweeping /\ Verdict
  BY DEF Inv
<1>2. CASE OnStart
  <2>1. /\ stage = "on_start" /\ hook' = hook + 1 /\ hook < Oracles
        /\ UNCHANGED <<stage, running, taskVars, cleanVars, countVars, verdictVars>>
    BY <1>2 DEF OnStart
  <2>2. hook' \in 0..Oracles
    BY <1>1, <2>1, RunnerAssumption DEF TypeOK
  <2> QED BY <1>1, <2>1, <2>2 DEF Inv, TypeOK, Control, OneState, Sweeping, Verdict, FailureReported,
          Displaced, taskVars, cleanVars, countVars, verdictVars, pending
<1>3. CASE CreateMain
  <2>1. /\ stage = "on_start" /\ stage' = "main" /\ running' = TRUE
        /\ runnable' = {Main}
        /\ UNCHANGED <<hook, blocked, callbacks, failed, cleanVars, countVars, verdictVars>>
    BY <1>3 DEF CreateMain
  <2>2. runnable' \subseteq Task /\ stage' \in Stages /\ running' \in BOOLEAN
    BY <2>1, RunnerAssumption DEF Stages
  <2>3. TypeOK'
    BY <1>1, <2>1, <2>2 DEF TypeOK, cleanVars, countVars, verdictVars
  <2>4. Control' /\ OneState' /\ Sweeping' /\ Verdict' /\ Displaced
    BY <1>1, <2>1 DEF Control, OneState, Sweeping, Verdict, FailureReported, Displaced,
       cleanVars, verdictVars, pending
  <2> QED BY <2>3, <2>4 DEF Inv
<1>4. ASSUME NEW caught \in {"none", "scenario", "invalid", "loop", "oracle", "control"},
             NEW unobserved \in SUBSET Task, LeaveMain(caught, unobserved),
             stage \in {"on_start", "main"}, finding' \in BOOLEAN,
             steps' \in 0..MaxSteps, cleanupSteps' \in 0..CleanupLimit,
             caught = "none" => unobserved = failed,
             UNCHANGED <<runnable, blocked, callbacks, cleanVars, loose>>
      PROVE  Inv' /\ Displaced
  <2>1. /\ stage' = "on_finish" /\ running' = FALSE /\ hook' \in 0..Oracles
        /\ error' \in ErrorClasses /\ error = "none" /\ error' = caught
        /\ interrupted' \in BOOLEAN /\ (interrupted' => error' = "control")
        /\ failed' = {} /\ exceptions' \in BOOLEAN
    BY <1>4, LeaveMainEffect
  <2>2. TypeOK'
    BY <1>1, <1>4, <2>1 DEF TypeOK, Stages, cleanVars
  <2>3. Control' /\ OneState' /\ Sweeping' /\ Displaced
    BY <1>1, <1>4, <2>1 DEF Control, OneState, Sweeping, Displaced, cleanVars, pending
  <2>4. exceptions' = (exceptions \/ unobserved # {})
    BY <1>4 DEF LeaveMain, Collect
  <2>5. loose' /\ error' = "none" => exceptions'
    <3>1. exceptions => exceptions'
      BY <2>4
    <3>2. unobserved # {} => exceptions'
      BY <2>4
    <3>3. loose => exceptions \/ failed # {}
      <4>1. loose /\ error = "none" => exceptions \/ failed \ joining # {}
        BY <1>1 DEF Verdict
      <4>2. error = "none"
        BY <2>1
      <4> QED BY <4>1, <4>2
    <3>4. loose' = loose
      BY <1>4, Zenon
    <3>5. error' = "none" => unobserved = failed
      BY <1>4, <2>1
    <3> QED BY <3>1, <3>2, <3>3, <3>4, <3>5
  <2>6. Verdict'
    BY <2>1, <2>5 DEF Verdict, FailureReported
  <2> QED BY <2>2, <2>3, <2>6 DEF Inv
<1>5. failed \in SUBSET Task /\ failed \ {Main} \in SUBSET Task
  BY <1>1 DEF TypeOK
<1>6. ASSUME UNCHANGED countVars
      PROVE  steps' \in 0..MaxSteps /\ cleanupSteps' \in 0..CleanupLimit
  BY <1>1, <1>6 DEF TypeOK, countVars
<1>7. CASE HookAborts
  <2>1. "none" \in {"none", "scenario", "invalid", "loop", "oracle", "control"}
    OBVIOUS
  <2>2. /\ LeaveMain("none", failed) /\ stage \in {"on_start", "main"} /\ finding' \in BOOLEAN
        /\ UNCHANGED <<runnable, blocked, callbacks, cleanVars, loose>> /\ UNCHANGED countVars
    BY <1>7 DEF HookAborts
  <2> QED BY <1>4, <1>5, <1>6, <2>1, <2>2
<1>8. ASSUME NEW caught \in {"oracle", "control"}, OnStartRaises(caught) \/ HookRaises(caught)
      PROVE  Inv' /\ Displaced
  <2>1. caught \in {"none", "scenario", "invalid", "loop", "oracle", "control"}
    OBVIOUS
  <2>2. /\ LeaveMain(caught, failed) /\ stage \in {"on_start", "main"} /\ finding' = finding
        /\ UNCHANGED <<runnable, blocked, callbacks, cleanVars, loose>> /\ UNCHANGED countVars
    BY <1>8 DEF OnStartRaises, HookRaises
  <2>3. finding' \in BOOLEAN
    BY <1>1, <2>2 DEF TypeOK
  <2> QED BY <1>4, <1>5, <1>6, <2>1, <2>2, <2>3
<1>9. CASE MainReturns
  <2>1. PICK caught \in {"none", "scenario", "invalid"} :
            LeaveMain(caught, failed \ {Main}) /\ (caught = "none" => Main \notin failed)
    BY <1>9 DEF MainReturns
  <2>2. /\ (caught = "none" => failed \ {Main} = failed)
        /\ stage \in {"on_start", "main"} /\ finding' = finding /\ Count
        /\ UNCHANGED <<runnable, blocked, callbacks, cleanVars, loose>>
    BY <1>9, <2>1 DEF MainReturns
  <2>3. finding' \in BOOLEAN /\ steps' \in 0..MaxSteps /\ cleanupSteps' \in 0..CleanupLimit
    BY <1>1, <2>2, CountTypes DEF TypeOK
  <2> QED BY <1>4, <1>5, <2>1, <2>2, <2>3
<1> QED BY <1>2, <1>3, <1>7, <1>8, <1>9 DEF MainRun

\* Verdicts, cleanup and close preserve the invariant.
LEMMA ShutdownPreserves ==
    ASSUME Inv, Shutdown
    PROVE  Inv' /\ Displaced
<1>1. TypeOK /\ Control /\ OneState /\ Sweeping /\ Verdict
  BY DEF Inv
<1>2. ASSUME NEW caught \in {"none", "oracle", "control"}, OnFinish(caught)
      PROVE  Inv' /\ Displaced
  <2>1. /\ stage = "on_finish" /\ hook < Oracles /\ hook' = hook + 1
        /\ UNCHANGED <<stage, running, taskVars, cleanVars, countVars, exceptions, loose>>
        /\ interrupted' = (interrupted \/ caught = "control")
    BY <1>2 DEF OnFinish, Interrupts
  <2>2. hook' \in 0..Oracles
    BY <1>1, <2>1, RunnerAssumption DEF TypeOK
  <2>3. /\ error' \in ErrorClasses /\ finding' \in BOOLEAN
        /\ Displaced /\ (interrupted' => error' = "control")
    <3>1. error \in ErrorClasses /\ finding \in BOOLEAN /\ (interrupted => error = "control")
      BY <1>1 DEF TypeOK, Verdict
    <3>2. CASE caught = "none"
      BY <1>2, <2>1, <3>1, <3>2 DEF OnFinish, Displaced
    <3>3. CASE caught # "none"
      <4>1. error' = Preferred(caught) /\ finding' = finding
        BY <1>2, <3>3 DEF OnFinish
      <4> QED BY <2>1, <3>1, <3>3, <4>1, PreferredError DEF Displaced
    <3> QED BY <3>2, <3>3
  <2>4. interrupted' \in BOOLEAN
    BY <1>1, <2>1, Zenon DEF TypeOK
  <2>5. TypeOK'
    BY <1>1, <2>1, <2>2, <2>3, <2>4 DEF TypeOK, taskVars, cleanVars, countVars
  <2>6. Control' /\ OneState' /\ Sweeping'
    BY <1>1, <2>1, <2>3 DEF Control, OneState, Sweeping, Displaced, pending, taskVars, cleanVars
  <2>7. error' = "none" => error = "none"
    BY <2>3 DEF Displaced
  <2>8. Verdict'
    BY <1>1, <2>1, <2>3, <2>7 DEF Verdict, FailureReported, taskVars, cleanVars
  <2> QED BY <2>3, <2>5, <2>6, <2>8 DEF Inv
<1>3. CASE BeginShutdown
  <2>1. /\ stage = "on_finish" /\ stage' = "sweep" /\ unswept' = pending
        /\ UNCHANGED <<running, hook, taskVars, joining, generators, stuck, countVars,
                       verdictVars>>
    BY <1>3 DEF BeginShutdown
  <2>2. TypeOK'
    BY <1>1, <2>1 DEF TypeOK, Stages, pending, taskVars, countVars, verdictVars
  <2> QED BY <1>1, <2>1, <2>2 DEF Inv, Control, OneState, Sweeping, Verdict, FailureReported,
          Displaced, pending, taskVars, verdictVars
<1>4. CASE CancelAndJoin
  <2>1. /\ stage \in {"sweep", "resweep"} /\ running' = TRUE
        /\ joining' = pending /\ runnable' = pending /\ blocked' = {}
        /\ UNCHANGED <<stage, hook, callbacks, failed, generators, stuck, unswept, countVars,
                       verdictVars>>
    BY <1>4 DEF CancelAndJoin, Left
  <2>2. TypeOK'
    BY <1>1, <2>1 DEF TypeOK, pending, countVars, verdictVars
  <2> QED BY <1>1, <2>1, <2>2 DEF Inv, Control, OneState, Sweeping, Verdict, FailureReported,
          Displaced, pending, verdictVars
<1>5. CASE SweepEnds
  <2>1. /\ stage \in {"sweep", "resweep"} /\ pending = {} /\ running' = TRUE
        /\ stage' = IF stage = "sweep" THEN "generators" ELSE "executor"
        /\ UNCHANGED <<hook, taskVars, cleanVars, countVars, verdictVars>>
    BY <1>5 DEF SweepEnds, Left
  <2>2. TypeOK'
    BY <1>1, <2>1 DEF TypeOK, Stages, taskVars, cleanVars, countVars, verdictVars
  <2> QED BY <1>1, <2>1, <2>2 DEF Inv, Control, OneState, Sweeping, Verdict, FailureReported,
          Displaced, pending, taskVars, cleanVars, verdictVars
<1>6. CASE JoinReturns
  <2>1. /\ stage \in {"sweep", "resweep"} /\ running' = FALSE /\ Count
        /\ failed' = failed \ joining /\ joining' = {}
        /\ UNCHANGED <<stage, hook, runnable, blocked, callbacks, generators, stuck, unswept,
                       verdictVars>>
    BY <1>6 DEF JoinReturns
  <2>2. steps' \in 0..MaxSteps /\ cleanupSteps' \in 0..CleanupLimit
    BY <1>1, <2>1, CountTypes
  <2>3. TypeOK'
    BY <1>1, <2>1, <2>2 DEF TypeOK, verdictVars
  <2> QED BY <1>1, <2>1, <2>3 DEF Inv, Control, OneState, Sweeping, Verdict, FailureReported,
          Displaced, pending, verdictVars
<1>7. ASSUME NEW how \in {"closed", "raised", "later", "waits"}, CloseGenerator(how)
      PROVE  Inv' /\ Displaced
  <2>1. /\ stage = "generators" /\ running /\ Count /\ generators > 0
        /\ {} \in SUBSET runnable /\ UserCode({}, "done")
        /\ callbacks' \in {callbacks, TRUE}
        /\ generators' = IF how \in {"closed", "raised"} THEN generators - 1 ELSE generators
        /\ exceptions' = (exceptions \/ how = "raised")
        /\ stuck' = (how = "waits")
        /\ UNCHANGED <<controlVars, failed, joining, finding, error, loose, interrupted>>
    BY <1>7 DEF CloseGenerator
  <2>2. steps' \in 0..MaxSteps /\ cleanupSteps' \in 0..CleanupLimit
    BY <1>1, <2>1, CountTypes
  <2>3. generators' \in 0..MaxGenerators
    BY <1>1, <2>1, RunnerAssumption DEF TypeOK
  <2>4. exceptions' \in BOOLEAN /\ stuck' \in BOOLEAN
    BY <1>1, <2>1, Zenon DEF TypeOK
  <2>5. callbacks' \in BOOLEAN
    BY <1>1, <2>1 DEF TypeOK
  <2>6. "done" \in {"runnable", "blocked", "done", "failed"}
    OBVIOUS
  <2>7. /\ runnable' \subseteq Task /\ blocked' \subseteq Task
        /\ runnable' \cap blocked' = {} /\ failed \cap pending' = {}
        /\ unswept' \subseteq Task /\ unswept' \subseteq pending'
    BY <1>1, <2>1, <2>6, UserCodeEffect
  <2>8. TypeOK'
    BY <1>1, <2>1, <2>2, <2>3, <2>4, <2>5, <2>7 DEF TypeOK, controlVars
  <2>9. Control' /\ OneState' /\ Sweeping' /\ Displaced
    BY <1>1, <2>1, <2>7 DEF Control, OneState, Sweeping, Displaced, controlVars
  <2>10. exceptions => exceptions'
    BY <2>1
  <2>11. Verdict'
    BY <1>1, <2>1, <2>10 DEF Verdict, FailureReported, controlVars
  <2> QED BY <2>8, <2>9, <2>11 DEF Inv
<1>8. CASE GeneratorInterrupts
  <2>1. {} \in SUBSET runnable /\ Interrupt({})
    BY <1>8 DEF GeneratorInterrupts
  <2> QED BY <2>1, InterruptStep
<1>9. CASE GeneratorsReturn
  <2>1. /\ stage = "generators" /\ stage' = "resweep" /\ running' = FALSE
        /\ generators = 0 /\ Count
        /\ UNCHANGED <<hook, taskVars, cleanVars, verdictVars>>
    BY <1>9 DEF GeneratorsReturn
  <2>2. steps' \in 0..MaxSteps /\ cleanupSteps' \in 0..CleanupLimit
    BY <1>1, <2>1, CountTypes
  <2>3. TypeOK'
    BY <1>1, <2>1, <2>2 DEF TypeOK, Stages, taskVars, cleanVars, verdictVars
  <2> QED BY <1>1, <2>1, <2>3 DEF Inv, Control, OneState, Sweeping, Verdict, FailureReported,
          Displaced, pending, taskVars, cleanVars, verdictVars
<1>10. CASE ExecutorReturns
  <2>1. /\ stage = "executor" /\ stage' = "close" /\ running' = FALSE /\ Count
        /\ UNCHANGED <<hook, taskVars, cleanVars, verdictVars>>
    BY <1>10 DEF ExecutorReturns
  <2>2. steps' \in 0..MaxSteps /\ cleanupSteps' \in 0..CleanupLimit
    BY <1>1, <2>1, CountTypes
  <2>3. TypeOK'
    BY <1>1, <2>1, <2>2 DEF TypeOK, Stages, taskVars, cleanVars, verdictVars
  <2> QED BY <1>1, <2>1, <2>3 DEF Inv, Control, OneState, Sweeping, Verdict, FailureReported,
          Displaced, pending, taskVars, cleanVars, verdictVars
<1>11. CASE Close
  <2>1. /\ stage = "close" /\ stage' = "done" /\ failed' = {}
        /\ exceptions' = (exceptions \/ failed # {})
        /\ error' = IF error = "none" /\ exceptions' THEN "background" ELSE error
        /\ UNCHANGED <<running, hook, runnable, blocked, callbacks, cleanVars, countVars, finding,
                       loose, interrupted>>
    BY <1>11 DEF Close, Collect
  <2>2. exceptions' \in BOOLEAN
    BY <1>1, <2>1, Zenon DEF TypeOK
  <2>3. error' \in ErrorClasses
    BY <1>1, <2>1 DEF TypeOK, ErrorClasses
  <2>4. TypeOK'
    BY <1>1, <2>1, <2>2, <2>3 DEF TypeOK, Stages, cleanVars, countVars
  <2>5. exceptions' => error' # "none"
    BY <2>1
  <2>6. error' = "none" => error = "none"
    BY <2>1
  <2>7. Control' /\ OneState' /\ Sweeping'
    BY <1>1, <2>1, <2>6 DEF Control, OneState, Sweeping, pending, cleanVars
  <2>8. error' = "none" => ~loose'
    <3>1. failed \ joining # {} => exceptions'
      BY <2>1
    <3>2. exceptions => exceptions'
      BY <2>1
    <3> QED BY <1>1, <2>1, <2>5, <2>6, <3>1, <3>2 DEF Verdict
  <2>9. Verdict' /\ Displaced
    BY <1>1, <2>1, <2>8 DEF Verdict, FailureReported, Displaced
  <2> QED BY <2>4, <2>7, <2>9 DEF Inv
<1> QED BY <1>2, <1>3, <1>4, <1>5, <1>6, <1>7, <1>8, <1>9, <1>10, <1>11 DEF Shutdown

\* Every step preserves the invariant and displaces no error but by an interrupt.
LEMMA InvStep == Inv /\ [Next]_vars => Inv' /\ Displaced
<1> SUFFICES ASSUME Inv, [Next]_vars PROVE Inv' /\ Displaced
  OBVIOUS
<1>1. CASE Next
  BY <1>1, MainRunPreserves, LoopStepPreserves, ShutdownPreserves DEF Next
<1>2. CASE UNCHANGED vars
  <2>1. UNCHANGED <<controlVars, taskVars, cleanVars, countVars, verdictVars>>
    BY <1>2 DEF vars
  <2> QED BY <2>1 DEF Inv, TypeOK, Control, OneState, Sweeping, Verdict, FailureReported, Displaced,
          pending, controlVars, taskVars, cleanVars, countVars, verdictVars
<1> QED BY <1>1, <1>2

\* The inductive invariant holds in every state of a trial: it ties what is left to
\* clean up, and the errors seen so far, to the stage _execute has reached.
THEOREM InvAlways == Spec => []Inv
<1>1. Inv /\ [Next]_vars => Inv'
  BY InvStep
<1> QED BY InvInit, <1>1, PTL DEF Spec

\* Every reachable state of a trial is well typed; in particular neither budget
\* is ever overrun, and the count of open generators is never negative.
THEOREM TypeCorrect == Spec => []TypeOK
<1>1. Inv => TypeOK
  BY DEF Inv
<1> QED BY InvAlways, <1>1, PTL

\* A KeyboardInterrupt or SystemExit raised anywhere in a trial is what the
\* caller of trial gets, for every number of tasks and oracles.
THEOREM InterruptPropagatesAlways == Spec => []InterruptPropagates
<1>1. Inv => InterruptPropagates
  BY DEF Inv, Verdict, InterruptPropagates
<1> QED BY InvAlways, <1>1, PTL

\* The exception of a task that nobody awaits and no sweep joins never ends in a
\* passing trial, whichever task fails in whichever phase.
THEOREM FailureReportedAlways == Spec => []FailureReported
<1>1. Inv => FailureReported
  BY DEF Inv, Verdict
<1> QED BY InvAlways, <1>1, PTL

\* A trial without an error has cancelled and joined what the scenario left and
\* what was started while that and the generators were closed, and every generator.
THEOREM PassingTrialIsCleanAlways == Spec => []PassingTrialIsClean
<1>1. Inv => PassingTrialIsClean
  BY DEF Inv, Sweeping, PassingTrialIsClean
<1> QED BY InvAlways, <1>1, PTL

\* The first error is the one reported, unless an interrupt displaces it.
THEOREM FirstErrorReportedAlways == Spec => FirstErrorReported
<1>1. Inv /\ [Next]_vars => [error # "none" /\ error' # error => error' = "control"]_vars
  BY InvStep DEF Displaced
<1> QED BY InvAlways, <1>1, PTL DEF Spec, FirstErrorReported

=============================================================================
