------------------------------ MODULE Oracles ------------------------------
(***************************************************************************)
(* What a trial observes: the trace its loop records, the oracles called   *)
(* at its start, after each of its callbacks and at its end, and the       *)
(* invariants, given with the oracles or registered by the scenario.       *)
(*                                                                         *)
(* The scenario may run any callback, register any invariant, make any     *)
(* predicate true, false or raise, and end in any way.  How errors win     *)
(* over one another, and the cleanup itself, are the matter of Runner.     *)
(***************************************************************************)
EXTENDS Naturals, Sequences, SequencesExt, FiniteSets

CONSTANTS
    Choice,         \* what a recorded step tells: the task, the choice
    Setups,         \* the arguments of trial
    MaxInvariants,  \* bound: invariants of a trial
    MaxSteps        \* bound: callbacks of a scenario

Severity == {"failure", "warning"}
Kind     == {"defaults", "custom", "invariant"}

\* explicit: oracles were given; of the invariants only the severity matters.
\* leaks: the severity TaskLeak was made with.
Setup == [explicit : BOOLEAN, oracles : Seq(Kind), configured : Seq(Severity),
          args : Seq(Severity), record : BOOLEAN, leaks : Severity]

ASSUME OraclesAssumption ==
    /\ Setups \subseteq Setup
    /\ MaxInvariants \in Nat /\ MaxSteps \in Nat
    /\ \A s \in Setups : Len(s.configured) + Len(s.args) <= MaxInvariants

VARIABLES
    setup,       \* the arguments
    stage,       \* of the trial
    next,        \* the oracle whose hook is called next
    recording,   \* ChaosEventLoop._recording
    active,      \* _Registration.active
    trace,       \* Trace.steps, or its rows
    invariants,  \* InvariantOracle._invariants
    warned,      \* InvariantOracle._warned
    findings,    \* what the hooks have found, in any order
    aborted,     \* a hook has found a failure
    error,       \* of the trial
    ended,       \* main is done, tasks are pending, errors were captured
    result,      \* of the trial: the error, the findings and the trace it returns
    executed,    \* history: the callbacks the scenario executed
    streak,      \* history: for how many steps each invariant has been violated
    offended,    \* history: a failure was seen by a hook
    seen         \* history: on_step calls of the custom oracle

vars == <<setup, stage, next, recording, active, trace, invariants, warned,
          findings, aborted, error, ended, result, executed, streak, offended, seen>>

observations == <<recording, active, trace, invariants, warned, findings>>
history      == <<executed, streak, offended, seen>>

None == "none"
Interrupts == {"interrupt", "invalid"}     \* raised to the caller, without verdicts
Control == {"deadlock", "steps", "time"}   \* CONTROL_ERRORS

----------------------------------------------------------------------------
(* Which oracles, and what the loop records for them *)

Selected ==
    LET base == IF setup.explicit THEN setup.oracles ELSE <<"defaults", "invariant">>
    IN IF setup.args # << >> /\ "invariant" \notin ToSet(base)
       THEN Append(base, "invariant") ELSE base

Has(kind) == kind \in ToSet(Selected)

\* Mutant: a custom oracle is forgotten when no full trace is asked for.
RecordOnly == setup.record

\* A full trace is recorded for an oracle that may look at it.
FullHooks == setup.record \/ Has("custom")

\* record and record_compact.
Traced(c) == Append(trace, c)

----------------------------------------------------------------------------
(* InvariantOracle.check *)

Predicate == {"holds", "violated", "raises", "interrupts"}

\* Mutant: the first violated invariant is returned, whatever its severity.
DecisiveAny(p, sevs) == {i \in DOMAIN p : p[i] # "holds"}

\* The invariants at which check returns or raises at once.
Decisive(p, sevs) ==
    {i \in DOMAIN p : p[i] \in {"raises", "interrupts"} \/ (p[i] = "violated" /\ sevs[i] = "failure")}

Least(S) == CHOOSE i \in S : \A j \in S : i <= j

\* Mutant: the first violated warning is looked at, reported before or not.
FreshFirst(p, sevs) ==
    LET bad == {i \in DOMAIN p : p[i] = "violated" /\ sevs[i] = "warning"}
    IN IF bad = {} THEN {} ELSE {Least(bad)} \ warned

\* The warning to report if no predicate decides: the first one violated and not
\* yet reported.  As a set of at most one.
Fresh(p, sevs) ==
    LET bad == {i \in DOMAIN p : /\ p[i] = "violated" /\ sevs[i] = "warning" /\ i \notin warned
                                 /\ \A j \in Decisive(p, sevs) : i < j}
    IN IF bad = {} THEN {} ELSE {Least(bad)}

Finding(oracle, severity, about) == [oracle |-> oracle, severity |-> severity, about |-> about]

\* The other answers of a hook: nothing, or an exception (a fault of the oracle or
\* an interrupt).
Nothing   == Finding("none", "none", 0)
Raised(e) == Finding("none", e, 0)

\* What check answers: nothing, a finding, or the exception it lets through.
Check(p, sevs) ==
    IF Decisive(p, sevs) # {}
    THEN LET i == Least(Decisive(p, sevs))
         IN CASE p[i] = "interrupts" -> Raised("interrupt")
              [] p[i] = "raises"     -> Finding("invariant", "failure", i)
              [] p[i] = "violated"   -> Finding("invariant", sevs[i], i)
    ELSE IF Fresh(p, sevs) # {}
         THEN Finding("invariant", "warning", Least(Fresh(p, sevs)))
         ELSE Nothing

----------------------------------------------------------------------------
(* One trial *)

\* The run is left, with an error or an abort of a hook.
Stop(err, abort) ==
    /\ stage' = "stopped" /\ error' = err /\ aborted' = abort /\ next' = 1
    /\ \E d, l, c \in BOOLEAN :
           /\ ended' = [outcome |-> err, done |-> d, leftover |-> l, captured |-> c]
           /\ err \in Control \/ stage = "starting" => ~d
           /\ err = "exception" \/ (err = None /\ ~abort) => d

Continue == UNCHANGED <<stage, error, aborted, ended>>

\* InvariantOracle.configured, of the copy made of the caller's oracle.
Configured == (IF setup.explicit THEN setup.configured ELSE << >>) \o setup.args

OnStart ==
    /\ stage = "starting" /\ next \in DOMAIN Selected
    /\ IF Selected[next] = "invariant"
       THEN invariants' = Configured /\ warned' = {}
       ELSE UNCHANGED <<invariants, warned>>
    /\ \/ next' = next + 1 /\ Continue
       \/ Selected[next] = "custom" /\ (Stop("oracle", FALSE) \/ Stop("interrupt", FALSE))
    /\ UNCHANGED <<setup, recording, active, trace, findings, result>>
    /\ UNCHANGED history

CreateMain ==
    /\ stage = "starting" /\ next \notin DOMAIN Selected
    /\ stage' = "running"
    /\ UNCHANGED <<setup, next, aborted, error, ended, result>>
    /\ UNCHANGED observations /\ UNCHANGED history

\* The invariants after a callback that may have called invariant().
Registered(sevs) ==
    \/ sevs = invariants
    \/ /\ active /\ Has("invariant") /\ Len(invariants) < MaxInvariants
       /\ \E s \in Severity : sevs = Append(invariants, s)

\* What a custom oracle may answer.
Anything == {Nothing, Raised("oracle"), Raised("interrupt")}
            \cup {Finding("custom", s, 0) : s \in Severity}

\* What the oracle may answer to on_step.
Answers(kind, p, sevs) ==
    CASE kind = "defaults"  -> {Nothing}
      [] kind = "custom"    -> Anything
      [] kind = "invariant" -> {Check(p, sevs)}

Found(answer) == answer.severity \in Severity

\* Mutant: a warning ends the round, too.
StopsAtAny(answer) == answer # Nothing

\* call_hook, step_hook and compact_hook: a failure aborts the run, an
\* exception of a hook or an interrupt ends it.
Stops(answer) == answer.severity \notin {"none", "warning"}

\* The oracles asked after a callback: without a full trace, only the invariants.
Hooked ==
    IF FullHooks THEN Selected
    ELSE [k \in 1..Cardinality({j \in DOMAIN Selected : Selected[j] = "invariant"}) |-> "invariant"]

\* The hooks called: all, or those up to the first that stops the run.
Called(answers) ==
    LET stops == {k \in DOMAIN answers : Stops(answers[k])}
    IN IF stops = {} THEN answers ELSE SubSeq(answers, 1, Least(stops))

\* The callback itself raised a KeyboardInterrupt: no hook is called.
Interrupted(c) ==
    /\ trace' = Traced(c) /\ executed' = Append(executed, c)
    /\ Stop("interrupt", FALSE)
    /\ UNCHANGED <<invariants, warned, findings, streak, offended, seen>>

Observed(c) ==
    \E sevs \in {invariants} \cup {Append(invariants, s) : s \in Severity} :
    \E p \in [DOMAIN sevs -> Predicate] :
        /\ Registered(sevs)
        /\ invariants' = sevs
        /\ trace' = Traced(c) /\ executed' = Append(executed, c)
        /\ \E answers \in {f \in [DOMAIN Hooked -> UNION {Answers(k, p, sevs) : k \in Kind}] :
                              \A k \in DOMAIN f : f[k] \in Answers(Hooked[k], p, sevs)} :
               LET called == Called(answers)
                   asked  == {Hooked[k] : k \in DOMAIN called}
                   last   == IF called = << >> THEN Nothing ELSE called[Len(called)]
               IN /\ findings' = findings \cup {answer \in ToSet(called) : Found(answer)}
                  /\ warned' = warned \cup (IF "invariant" \in asked THEN Fresh(p, sevs) ELSE {})
                  /\ seen' = IF "custom" \in asked THEN seen + 1 ELSE seen
                  /\ IF ~Stops(last) THEN Continue /\ UNCHANGED next
                     ELSE IF Found(last) THEN Stop(None, TRUE) ELSE Stop(last.severity, FALSE)
        /\ offended' = (offended \/ \E i \in DOMAIN p :
                            p[i] = "raises" \/ (p[i] = "violated" /\ sevs[i] = "failure"))
        /\ streak' = [i \in 1..MaxInvariants |->
                          IF i \in DOMAIN p /\ p[i] = "violated"
                          THEN IF streak[i] < MaxInvariants THEN streak[i] + 1 ELSE streak[i]
                          ELSE 0]

\* A callback of the scenario: recorded before it runs, observed after it.
Step ==
    /\ stage = "running" /\ recording /\ Len(executed) < MaxSteps
    /\ \E c \in Choice : Observed(c) \/ Interrupted(c)
    /\ UNCHANGED <<setup, recording, active, result>>

\* main returns, raises, or the loop gives up.
End ==
    /\ stage = "running"
    /\ \E err \in {None, "exception", "invalid", "interrupt"} \cup Control : Stop(err, FALSE)
    /\ UNCHANGED <<setup, result>>
    /\ UNCHANGED observations /\ UNCHANGED history

\* Outcome.completed
Completed == ended.done /\ ~aborted /\ error \notin Control

\* Mutant: every error is an unhandled exception.
UnhandledAny == error # None

\* UnhandledException.on_finish leaves the control errors to the other oracles.
Unhandled == error # None /\ error \notin Control

When(condition, oracle, severity) ==
    IF condition THEN {Finding(oracle, severity, 0)} ELSE {}

\* on_finish of the oracles about the error of the run.
OutcomeVerdicts ==
    When(Unhandled, "unhandled_exception", "failure")
    \cup When(error = "deadlock", "deadlock", "failure")
    \cup When(error = "steps", "livelock", "failure")
    \cup When(error = "time", "time_budget", "failure")

\* on_finish of UnretrievedException and of TaskLeak, which looks at tasks left by a
\* run that completed only.
LeakVerdicts ==
    When(ended.captured, "unretrieved_exception", "failure")
    \cup When(Completed /\ ended.leftover, "task_leak", setup.leaks)

\* The verdicts on one outcome, oracle after oracle, whether it was started or
\* not; none if the run was interrupted.
OnFinish ==
    /\ stage = "stopped" /\ error \notin Interrupts
    /\ \E answers \in [DOMAIN Selected -> Anything] :
           /\ \A k \in DOMAIN answers : Selected[k] # "custom" => answers[k] = Nothing
           /\ findings' = findings \cup {answer \in ToSet(answers) : Found(answer)}
                 \cup (IF Has("defaults") THEN OutcomeVerdicts \cup LeakVerdicts ELSE {})
           /\ error' = IF Raised("interrupt") \in ToSet(answers) THEN "interrupt"
                       ELSE IF error = None /\ Raised("oracle") \in ToSet(answers) THEN "oracle" ELSE error
    /\ stage' = "judged"
    /\ UNCHANGED <<setup, next, recording, active, trace, invariants, warned, aborted,
                   ended, result>>
    /\ UNCHANGED history

\* _reset closes the registration, begin_shutdown the recording.
BeginShutdown ==
    /\ stage = "judged" \/ (stage = "stopped" /\ error \in Interrupts)
    /\ stage' = "cleanup" /\ active' = FALSE /\ recording' = FALSE
    /\ UNCHANGED <<setup, next, trace, invariants, warned, findings,
                   aborted, error, ended, result>>
    /\ UNCHANGED history

\* A callback of the cleanup: a cancelled task of the scenario, which may break
\* an invariant or try to register one.  It is observed if the loop records.
CleanupStep ==
    /\ stage = "cleanup" /\ Len(trace) < MaxSteps
    /\ \E c \in Choice : trace' = IF recording THEN Traced(c) ELSE trace
    /\ \E sevs \in {invariants} \cup {Append(invariants, s) : s \in Severity} :
           Registered(sevs) /\ invariants' = sevs
    /\ UNCHANGED <<setup, stage, next, recording, active, warned, findings,
                   aborted, error, ended, result>>
    /\ UNCHANGED history

\* The trial is returned, or an interrupt raised.  The error of a background
\* task counts when there is no other; the trace is compacted unless asked for.
Close ==
    /\ stage = "cleanup"
    /\ stage' = "closed"
    /\ \E late \in BOOLEAN :
           result' = IF error \in Interrupts THEN [kind |-> "raised"]
                     ELSE [kind |-> "trial",
                           error |-> IF error = None /\ (ended.captured \/ late)
                                     THEN "background" ELSE error,
                           trace |-> trace, findings |-> findings]
    /\ UNCHANGED <<setup, next, aborted, error, ended>>
    /\ UNCHANGED observations /\ UNCHANGED history

Init ==
    /\ setup \in Setups
    /\ stage = "starting" /\ next = 1
    /\ recording = TRUE /\ active = TRUE
    /\ trace = << >> /\ invariants = << >> /\ warned = {} /\ findings = {}
    /\ aborted = FALSE /\ error = None /\ result = [kind |-> "none"]
    /\ ended = [outcome |-> None, done |-> FALSE, leftover |-> FALSE, captured |-> FALSE]
    /\ executed = << >> /\ offended = FALSE /\ seen = 0
    /\ streak = [i \in 1..MaxInvariants |-> 0]

Next == OnStart \/ CreateMain \/ Step \/ End \/ OnFinish \/ BeginShutdown \/ CleanupStep \/ Close

Spec == Init /\ [][Next]_vars

----------------------------------------------------------------------------
(* Properties *)

Ok == result.kind = "trial" /\ result.error = None
      /\ \A f \in result.findings : f.severity = "warning"

\* The variables have their types; a reported warning is one, and an aborted run
\* has the failure that aborted it.
TypeOK ==
    /\ setup \in Setups
    /\ stage \in {"starting", "running", "stopped", "judged", "cleanup", "closed"}
    /\ next \in 1..(Len(Selected) + 1)
    /\ recording \in BOOLEAN /\ active \in BOOLEAN /\ aborted \in BOOLEAN /\ offended \in BOOLEAN
    /\ trace \in Seq(Choice) /\ executed \in Seq(Choice)
    /\ invariants \in Seq(Severity) /\ Len(invariants) <= MaxInvariants
    /\ warned \subseteq {i \in DOMAIN invariants : invariants[i] = "warning"}
    /\ \A f \in findings : f.severity \in Severity
    /\ aborted => \E f \in findings : f.severity = "failure"
    /\ seen \in 0..MaxSteps

\* A trial that passes never saw an invariant of severity FAILURE violated, or
\* any predicate raise, after any of its callbacks: no warning, earlier or later
\* in the list, no earlier report and no leaner recording hides a failure.
OkMeansHeld == Ok => ~offended

\* One new warning is reported per step, so a transient one may be lost; one that
\* lasts for as many steps as there are invariants is always reported.
PersistentWarningReported ==
    stage = "running" =>
        \A i \in DOMAIN invariants :
            invariants[i] = "warning" /\ streak[i] >= Len(invariants) =>
                Finding("invariant", "warning", i) \in findings

Primary == {"unhandled_exception", "deadlock", "livelock", "time_budget"}

\* However a trial of the default oracles ends, its outcome has one explanation:
\* one oracle of the four for an error, none for a run that returned; and a run
\* the hooks aborted has a failure of theirs, but no leak and no error.
OneVerdict ==
    stage \in {"judged", "closed"} /\ Has("defaults") /\ ended.outcome \notin Interrupts =>
        /\ Cardinality({f \in findings : f.oracle \in Primary})
               = IF ended.outcome = None THEN 0 ELSE 1
        /\ aborted => \A f \in findings : f.oracle \notin Primary \cup {"task_leak"}

\* What is observed is what the scenario executed: the trace a trial returns holds
\* every callback, the one that failed included, and none of the cleanup, so that
\* its decisions replay the run; and a custom oracle has looked at every callback
\* of a run that goes on, also when the caller wants no trace.
ObservedAsExecuted ==
    /\ stage \in {"running", "stopped"} => trace = executed
    /\ result.kind = "trial" => result.trace = executed
    /\ stage = "running" /\ Has("custom") => seen = Len(executed)

=============================================================================
