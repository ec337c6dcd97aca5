------------------------------ MODULE Commands ------------------------------
(***************************************************************************)
(* cli/main.py: one invocation of the command line on a corpus, besides    *)
(* fuzz the commands run, replay and shrink, which try one schedule or the *)
(* stored ones and answer with an exit code.  pytest_plugin.py: a test     *)
(* asked for one seed or one list of decisions.                            *)
(*                                                                         *)
(* A schedule comes from the corpus (the signature of its entry), from a   *)
(* file or from a seed.  A strict replay stops where a lenient one notes   *)
(* its divergence; both are a replay that was not faithful.                *)
(***************************************************************************)
EXTENDS Fuzz

VARIABLES
    command,  \* the command, or None before main has parsed it
    options,  \* --forget of replay; whether shrink keeps its result
    asked,    \* the schedules asked for
    waiting,  \* those still to be tried
    rows,     \* the trials made, by the origin of their schedule
    code      \* the exit code so far

commandVars == <<command, options, asked, waiting, rows, code>>
allVars     == <<vars, commandVars>>
untouched   == <<verdict, initial, seeds, queue, diverged, failing, fresh, stopped, todo, stage>>

None     == "none"
Unstored == {"file", "seed"}
Origins  == Signature \cup Unstored

\* What a process may exit with; "running" until then.
Clean       == 0
Failed      == 1
Misused     == 2
Unloadable  == 3
Internal    == 4
Unknown     == 5
Interrupted == 130

----------------------------------------------------------------------------
(* Trials of given schedules *)

Stored == {g \in Signature : store[g] # Nothing}

\* A trial of a schedule: a seed is always followed, a recording may not be.
TrialOf(o) ==
    {t \in Replay :
        /\ t.sigs \in FailuresOf(t.made)
        /\ o = "seed" => t.faithful
        /\ o \in Signature /\ t.faithful => t.made \in MadeOf(initial[o])}

\* A mismatch tells nothing, whatever the trial came to.
Status(t) ==
    IF ~t.faithful THEN Unknown ELSE IF t.sigs = {} THEN Clean ELSE Failed

\* Mutants: the last schedule decides; the codes are added up.
LastOnly(before, status) == status
AddedUp(before, status)  == before + status

\* The exit code of several replays is the largest.
Combined(before, status) == IF before < status THEN status ELSE before

\* KeyboardInterrupt, SystemExit, a factory that makes no coroutine and whatever else
\* leaves trial end with nothing but the exit code that main gives them.
TrialRaises ==
    /\ command \in {"run", "replay", "shrink"} /\ waiting # {}
    /\ code' \in {Interrupted, Unloadable, Internal}
    /\ command' = "exit"
    /\ UNCHANGED <<untouched, store, replays, options, asked, waiting, rows>>

----------------------------------------------------------------------------
(* The command line *)

Start(c, origins) ==
    /\ stage = "load" /\ command = None
    /\ command' = c /\ asked' = origins /\ waiting' = origins
    /\ UNCHANGED <<untouched, store, replays, rows, code>>

StartFuzz == Start("fuzz", {}) /\ UNCHANGED options

\* One schedule, Fifo or Random
StartRun == Start("run", {"seed"}) /\ UNCHANGED options

\* --corpus-all, --corpus-entry, --decisions or --seed
StartReplay ==
    /\ \E origins \in {Stored} \cup {{o} : o \in Stored \cup Unstored} :
          origins # {} /\ Start("replay", origins)
    /\ options' \in BOOLEAN
    /\ options' => asked' \subseteq Signature

\* --corpus-entry, --decisions or --seed
StartShrink ==
    /\ \E o \in Stored \cup Unstored : Start("shrink", {o})
    /\ options' \in BOOLEAN

\* --chaos-decisions and --chaos-seed
StartTest == (\E o \in Unstored : Start("test", {o})) /\ UNCHANGED options

\* Nothing is done: a wrong combination of arguments, a scenario, file or entry
\* that cannot be loaded.
Refuse ==
    /\ stage = "load" /\ command = None
    /\ command' = "exit" /\ code' \in {Misused, Unloadable}
    /\ UNCHANGED <<untouched, store, replays, options, asked, waiting, rows>>

Tried(o, t) ==
    /\ waiting' = waiting \ {o}
    /\ rows' = rows \cup {[origin |-> o, trial |-> t]}
    /\ replays' = IF o \in Signature THEN [replays EXCEPT ![o] = {t}] ELSE replays

\* The next schedule, in the order of Corpus.load.  With --forget an entry that
\* was replayed faithfully and passed is deleted.
ReplayRow ==
    /\ command = "replay"
    /\ \E o \in waiting : \E t \in TrialOf(o) :
          /\ o \in Signature =>
                \A h \in waiting : Deviations(initial[o]) <= Deviations(initial[h])
          /\ Tried(o, t)
          /\ code' = Combined(code, Status(t))
          /\ store' = IF options /\ Status(t) = Clean THEN Forget(store, o) ELSE store
    /\ UNCHANGED <<untouched, command, options, asked>>

Exit ==
    /\ command \in {"replay", "run"} /\ waiting = {}
    /\ command' = "exit"
    /\ UNCHANGED <<untouched, store, replays, options, asked, waiting, rows, code>>

\* _run
RunTrial ==
    /\ command = "run"
    /\ \E o \in waiting : \E t \in TrialOf(o) :
          Tried(o, t) /\ code' = IF t.sigs = {} THEN Clean ELSE Failed
    /\ UNCHANGED <<untouched, store, command, options, asked>>

\* A strict replay that left its recording has raised an error, or has decisions
\* left: the test fails.
TestTrial ==
    /\ command = "test"
    /\ \E o \in waiting : \E t \in TrialOf(o) :
          Tried(o, t) /\ code' = IF t.faithful /\ t.sigs = {} THEN Clean ELSE Failed
    /\ command' = "tested"
    /\ UNCHANGED <<untouched, store, options, asked>>

\* Mutant: whatever fails is minimised, also another failure than the entry's.
AnyFailure(o, t) == t.sigs

\* The failures that shrink may be asked to minimise.
Targets(o, t) == IF o \in Signature THEN t.sigs \cap {o} ELSE t.sigs

\* _shrink.  The search may end without a verified result, not reproduce the failure
\* or be interrupted.
ShrinkSchedule ==
    /\ command = "shrink"
    /\ \E o \in waiting : \E t \in TrialOf(o) :
          /\ Tried(o, t)
          /\ \/ /\ Status(t) # Failed \/ Targets(o, t) = {}
                /\ code' = IF Status(t) = Failed THEN Unknown ELSE Status(t)
                /\ UNCHANGED store
             \/ /\ Status(t) = Failed /\ Targets(o, t) # {}
                /\ code' = Failed
                /\ \E g \in Targets(o, t) : \E minimal \in 0..t.made :
                      /\ Flaky \/ g \in verdict[minimal]
                      /\ store' \in {store, IF options THEN Record(store, {g}, minimal) ELSE store}
             \/ /\ Status(t) = Failed /\ Targets(o, t) # {}
                /\ code' \in {Unknown, Interrupted} /\ UNCHANGED store
    /\ command' = "exit"
    /\ UNCHANGED <<untouched, options, asked>>

FuzzStep == command = "fuzz" /\ Next /\ UNCHANGED commandVars

CommandInit ==
    /\ Init
    /\ command = None /\ options = FALSE
    /\ asked = {} /\ waiting = {} /\ rows = {} /\ code = Clean

CommandNext ==
    \/ StartFuzz \/ FuzzStep \/ StartRun \/ RunTrial \/ StartReplay \/ ReplayRow
    \/ StartShrink \/ ShrinkSchedule \/ StartTest \/ TestTrial
    \/ TrialRaises \/ Refuse \/ Exit

CommandSpec == CommandInit /\ [][CommandNext]_allVars

----------------------------------------------------------------------------
(* Properties *)

Row == [origin : Origins, trial : Replay]

\* The variables have their types; a schedule is tried once.
CommandsTypeOK ==
    /\ TypeOK
    /\ command \in {None, "fuzz", "run", "replay", "shrink", "test", "tested", "exit"}
    /\ options \in BOOLEAN /\ rows \subseteq Row
    /\ waiting \subseteq asked /\ asked \subseteq Origins
    /\ \A row \in rows : row.origin \in asked \ waiting
    /\ Cardinality(rows) = Cardinality(asked \ waiting)
    /\ code \in {Clean, Failed, Misused, Unloadable, Internal, Unknown, Interrupted}

\* A command that exits with 0, or a test that passes, has tried every schedule it
\* was asked for, each was followed to its end and none failed; a command that
\* exits with 1 followed them all and has seen a failure.  A schedule that was
\* not followed never passes for either, however many others of the command were.
CodeTells ==
    /\ command \in {"exit", "tested"} /\ code = Clean =>
           /\ asked = {row.origin : row \in rows}
           /\ \A row \in rows : row.trial.faithful /\ row.trial.sigs = {}
    /\ command = "exit" /\ code = Failed =>
           /\ asked = {row.origin : row \in rows}
           /\ \A row \in rows : row.trial.faithful
           /\ \E row \in rows : row.trial.sigs # {}

\* Minimising a stored failure may only replace its own entry, by one that was seen
\* to fail with the same signature; a schedule that passes, diverges or now fails
\* in another way leaves the corpus alone.
ShrinkKeepsToEntry ==
    asked \cap Signature # {} =>
        \A h \in Signature :
            /\ h \notin asked => store[h] = initial[h]
            /\ store[h] \notin {Nothing, initial[h]} => \E r \in replays[h] : r.faithful /\ h \in r.sigs

=============================================================================
