-------------------------------- MODULE Fuzz --------------------------------
(***************************************************************************)
(* fuzz.py: a session replays the stored failures of a scenario, then runs *)
(* fresh seeds, recording every failure in the corpus and forgetting what  *)
(* passes; the buckets are shrunk and recorded again, and the session is   *)
(* reported by the pytest plugin or by the command line.                   *)
(*                                                                         *)
(* The corpus (corpus.py) is one exemplar per signature; the session is    *)
(* its only writer and its writes succeed.  A schedule is its position in  *)
(* the order of corpus._rank.  The scenario may have been changed since a  *)
(* failure was stored.  Within the session the same schedule fails in the  *)
(* same way, or in any way if the scenario is flaky.                       *)
(***************************************************************************)
EXTENDS Integers, FiniteSets

CONSTANTS
    Signature,  \* what tells two bugs apart
    Nothing,    \* no entry
    MaxRank,    \* bound: schedules are 0..MaxRank, the simplest first
    Trials,     \* trials: at most as many fresh seeds
    FailFast,   \* fail_fast
    Shrink,     \* shrink
    Flaky       \* the scenario is not deterministic, or its tasks have moved

ASSUME FuzzAssumption ==
    /\ MaxRank \in Nat /\ Nothing \notin 0..MaxRank
    /\ Trials \in Nat /\ FailFast \in BOOLEAN /\ Shrink \in BOOLEAN /\ Flaky \in BOOLEAN

Schedule == 0..MaxRank

\* Two schedules at a time have the same number of deviations.
Deviations(s) == s \div 2

VARIABLES
    verdict,   \* the failures of each schedule of a deterministic scenario
    initial,   \* the corpus before the session
    seeds,     \* how many of the fresh seeds the session has: seeds may hold fewer
    store,     \* the corpus: a schedule or Nothing by signature
    queue,     \* signatures whose loaded entry is still to be replayed
    replays,   \* what the entries replayed came to, by signature
    diverged,  \* corpus_diverged
    failing,   \* failures: the trials that failed
    fresh,     \* fresh_trials_run
    stopped,   \* stopped_early
    todo,      \* buckets still to be shrunk
    stage      \* what the session is doing, at last its outcome

sessionVars == <<queue, replays, diverged, failing, fresh, stopped, todo>>
vars == <<verdict, initial, seeds, store, sessionVars, stage>>

Outcomes == {"passed", "failed", "unknown", "assertion", "raised"}

----------------------------------------------------------------------------
(* The corpus *)

\* Mutant: an entry is never replaced.
RecordNew(st, sigs, s) ==
    [g \in Signature |-> IF g \in sigs /\ st[g] = Nothing THEN s ELSE st[g]]

\* Corpus.record for every finding of a trial: the better exemplar is kept.
Record(st, sigs, s) ==
    [g \in Signature |->
        IF g \in sigs /\ (st[g] = Nothing \/ s < st[g]) THEN s ELSE st[g]]

\* Corpus.forget
Forget(st, g) == [st EXCEPT ![g] = Nothing]

----------------------------------------------------------------------------
(* Trials *)

\* The failures that a trial with the schedule may have.
FailuresOf(made) == IF Flaky THEN SUBSET Signature ELSE {verdict[made]}

\* A faithful replay may still make other choices: where a task has moved to
\* another position, and after the end of the recording.
MadeOf(asked) == IF Flaky THEN Schedule ELSE {asked}

\* accept
Accept(st, made, sigs) ==
    /\ store' = Record(st, sigs, made)
    /\ failing' = IF sigs = {} THEN failing
                               ELSE failing \cup {[made |-> made, sigs |-> sigs]}
    /\ stopped' = IF FailFast /\ sigs # {} THEN "fail_fast" ELSE stopped

\* Mutant: the last seed is left out.
SeedsButLast == fresh + 1 < seeds

\* islice(source, trials) has another seed.
SeedsLeft == fresh < seeds

\* timed_out, at the load and between two trials
TimeOut ==
    /\ stage \in {"load", "corpus", "fresh"} /\ stopped = "none"
    /\ stage = "corpus" => queue # {}
    /\ stage = "fresh" => SeedsLeft
    /\ stopped' = "time_budget"
    /\ stage' = IF stage = "load" THEN "corpus" ELSE stage
    /\ UNCHANGED <<verdict, initial, seeds, store, queue, replays, diverged, failing, fresh, todo>>

Load ==
    /\ stage = "load"
    /\ queue' = {g \in Signature : store[g] # Nothing}
    /\ stage' = "corpus"
    /\ UNCHANGED <<verdict, initial, seeds, store, replays, diverged, failing, fresh, stopped, todo>>

\* Mutant: an entry whose own failure is not seen is forgotten.
ClearedUnlessSeen(replay, g) == g \notin replay.sigs

\* The replay shows that the stored failure is gone.
Cleared(replay, g) == replay.sigs = {}

\* The replay followed the recorded schedule to its end.
Faithful(replay) == replay.faithful

Replay == [made: Schedule, sigs: SUBSET Signature, faithful: BOOLEAN]

ReplayEntry ==
    /\ stage = "corpus" /\ stopped = "none"
    /\ \E g \in queue :
          /\ \A h \in queue : Deviations(initial[g]) <= Deviations(initial[h])
          /\ queue' = queue \ {g}
          /\ \E replay \in Replay :
                /\ replay.sigs \in FailuresOf(replay.made)
                /\ replay.faithful => replay.made \in MadeOf(initial[g])
                /\ replays' = [replays EXCEPT ![g] = {replay}]
                /\ IF Faithful(replay)
                   THEN /\ Accept(IF Cleared(replay, g) THEN Forget(store, g) ELSE store,
                                  replay.made, replay.sigs)
                        /\ UNCHANGED diverged
                   ELSE /\ diverged' = diverged + 1
                        /\ UNCHANGED <<store, failing, stopped>>
    /\ UNCHANGED <<verdict, initial, seeds, fresh, todo, stage>>

CorpusEnds ==
    /\ stage = "corpus" /\ (queue = {} \/ stopped # "none")
    /\ stage' = "fresh"
    /\ UNCHANGED <<verdict, initial, seeds, store, sessionVars>>

FreshTrial ==
    /\ stage = "fresh" /\ stopped = "none" /\ SeedsLeft
    /\ fresh' = fresh + 1
    /\ \E made \in Schedule : \E sigs \in FailuresOf(made) : Accept(store, made, sigs)
    /\ UNCHANGED <<verdict, initial, seeds, queue, replays, diverged, todo, stage>>

\* The search was stopped, or there is no seed left; "trials" if it made them all.
FreshEnds ==
    /\ stage = "fresh" /\ (stopped # "none" \/ ~SeedsLeft)
    /\ stopped' = IF stopped = "none" /\ fresh = Trials THEN "trials" ELSE stopped
    /\ todo' = IF Shrink THEN UNION {run.sigs : run \in failing} ELSE {}
    /\ stage' = "shrink"
    /\ UNCHANGED <<verdict, initial, seeds, store, queue, replays, diverged, failing, fresh>>

\* A KeyboardInterrupt of a trial leaves fuzz.
Raise ==
    /\ \/ stage = "corpus" /\ queue # {}
       \/ stage = "fresh" /\ SeedsLeft
    /\ stopped = "none"
    /\ stage' = "raised"
    /\ UNCHANGED <<verdict, initial, seeds, store, sessionVars>>

----------------------------------------------------------------------------
(* Shrinking and reporting *)

\* Trials with the signature, of the fewest deviations: bucket_failures
Exemplars(g) ==
    {run \in failing :
        /\ g \in run.sigs
        /\ \A other \in failing :
              g \in other.sigs => Deviations(run.made) <= Deviations(other.made)}

\* A verified result is recorded; the budget, shared by the buckets, may not allow
\* one, and a scenario that does not reproduce has none.
ShrinkBucket ==
    /\ stage = "shrink"
    /\ \E g \in todo :
          /\ todo' = todo \ {g}
          /\ \/ \E run \in Exemplars(g) :
                   \E minimal \in {s \in 0..run.made : Flaky \/ g \in verdict[s]} :
                      store' = Record(store, {g}, minimal)
             \/ UNCHANGED store
    /\ UNCHANGED <<verdict, initial, seeds, queue, replays, diverged, failing, fresh, stopped, stage>>

\* FuzzResult.ok
Ok == failing = {} /\ diverged = 0

\* pytest_pyfunc_call: a failing test names the exemplar of its first bucket
PluginReports ==
    /\ stage = "shrink" /\ todo = {}
    /\ stage' = IF Ok THEN "passed" ELSE IF failing # {} THEN "failed" ELSE "assertion"
    /\ UNCHANGED <<verdict, initial, seeds, store, sessionVars>>

\* The exit code of the command: 5, 1 or 0
CommandReports ==
    /\ stage = "shrink" /\ todo = {}
    /\ stage' = IF diverged > 0 THEN "unknown" ELSE IF Ok THEN "passed" ELSE "failed"
    /\ UNCHANGED <<verdict, initial, seeds, store, sessionVars>>

----------------------------------------------------------------------------

Init ==
    /\ verdict \in IF Flaky THEN {[s \in Schedule |-> {}]} ELSE [Schedule -> SUBSET Signature]
    /\ initial \in [Signature -> Schedule \cup {Nothing}]
    /\ seeds \in 0..Trials
    /\ store = initial /\ queue = {} /\ replays = [g \in Signature |-> {}]
    /\ diverged = 0 /\ failing = {} /\ fresh = 0 /\ stopped = "none"
    /\ todo = {} /\ stage = "load"

Next ==
    \/ TimeOut \/ Load \/ ReplayEntry \/ CorpusEnds \/ FreshTrial \/ FreshEnds \/ Raise
    \/ ShrinkBucket \/ PluginReports \/ CommandReports

Spec == Init /\ [][Next]_vars

----------------------------------------------------------------------------
(* Properties *)

Run == [made: Schedule, sigs: SUBSET Signature]

\* The variables have their types.
TypeOK ==
    /\ {initial, store} \subseteq [Signature -> Schedule \cup {Nothing}]
    /\ \A g \in queue : initial[g] # Nothing /\ replays[g] = {}
    /\ diverged \in 0..Cardinality({g \in Signature : \E r \in replays[g] : ~r.faithful})
    /\ failing \subseteq Run /\ seeds \in 0..Trials /\ fresh \in 0..seeds /\ todo \subseteq Signature
    /\ stopped \in {"none", "time_budget", "fail_fast", "trials"}
    /\ stage \in {"load", "corpus", "fresh", "shrink"} \cup Outcomes

\* Every bug this session has seen is in the corpus at its end, at least as simple
\* as any trial of the session showed it: nothing recorded is lost again to a
\* replay of an older entry, to a worse exemplar or to shrinking.
FailuresKept ==
    stage \in Outcomes =>
        \A run \in failing : \A g \in run.sigs : store[g] # Nothing /\ store[g] <= run.made

\* Old evidence is given up only for a replay that followed it faithfully and
\* passed: not for a diverged replay, for another failure, or for an entry that was
\* never replayed; otherwise it is only ever replaced by a simpler exemplar.
OldEvidenceKept ==
    \A g \in Signature :
        initial[g] # Nothing /\ (store[g] = Nothing \/ store[g] > initial[g]) =>
            \E r \in replays[g] : r.faithful /\ r.sigs = {}

\* A test or command that passes has replayed every stored failure, each one
\* faithfully and without any failure, and tried every seed there was, unless time
\* ran out: no stored bug goes unseen in a green run, and none stops early.
PassedIsClean ==
    stage = "passed" =>
        /\ failing = {}
        /\ \A g \in Signature : \A r \in replays[g] : r.faithful /\ r.sigs = {}
        /\ stopped # "time_budget" =>
              /\ \A g \in Signature : initial[g] # Nothing => replays[g] # {}
              /\ fresh = seeds

\* "assert run is not None": a test that does not pass has a failing trial to
\* report (pytest_plugin.py:290).
FailedHasExemplar == stage # "assertion"

=============================================================================
