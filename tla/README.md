# A verification of chaosloop in TLA+

chaosloop runs a coroutine under a deterministic event loop: every callback is a
scheduling decision, time is virtual, and a failing schedule can be replayed and
shrunk. This directory holds TLA+ modules translated from its source, TLC
configurations that check them on small instances, and TLAPS proofs of what
matters most for every instance. Paths below are relative to the repository.

## 1. Inventory

| Component | State it keeps | Operations | Who talks to it | What makes it correct |
|---|---|---|---|---|
| Event loop, `src/chaosloop/loop.py`, `clock.py` | ready deque, timer heap, current turn, cancelled-timer count, stop flag, step and cleanup budgets, virtual time | `call_soon`, `call_at`, cancel, `stop`, `_prepare_turn`, `_run_once`, `begin_shutdown`, `run_until_complete`, `close` | the scheduler chooses; scenario callbacks call back in; the runner starts and ends it | no callback lost, doubled or early; time moves only when idle, to the earliest live deadline; Deadlock and TimeBudgetExceeded only when true; nothing stale stops the cleanup |
| Schedulers, `schedulers/` | Fifo: its decisions. Random: its generator. Replay: recorded decisions and identities, position, divergences | `choose`, `observe` | called by the loop before each callback | Fifo is asyncio's order; a replay of an unchanged scenario is the recording; a divergence is never silent |
| Trial runner, `runner.py` | error, findings, the stage of one trial | `_execute`, `_shutdown`, oracle hooks | owns the loop; oracles are called by hooks; fuzz and shrink call `trial` | interrupts propagate, first error kept, no exception lost, everything left is cleaned, every trial ends |
| Trace, `trace.py`, `runtime.py` | steps recorded, full or compact | `record`, `decisions`, `task_ids`, `digest`, JSONL | written by the loop, read by Replay, shrink, diff | compact and full traces agree; parallel vectors |
| Oracles, `oracles/`, `invariants.py` | invariants registered, warnings given | `on_start`, `on_step`, `check`, `on_finish` | the runner's hooks; scenarios register invariants | one verdict per kind of end; a warning never hides a failure; no registration outside the trial |
| Shrinker, `shrink.py` | cache of verdicts, shared budget, best schedule | four phases, verification before and after | calls `trial` with Replay | result reproduces the finding and never ranks above the original; ends; reserve kept for the verification |
| Corpus, `corpus.py` | one file per failure signature | `record`, `forget`, `load`, `prune` | fuzz, command line; several processes | a file is always whole; the better exemplar stays |
| Fuzzer, `fuzz.py` | result counters, corpus snapshot | corpus replay, fresh seeds, buckets, shrink | trial, corpus, shrink | an entry is forgotten only if its own replay passed |
| pytest plugin, `pytest_plugin.py`, and command line, `cli/` | the schedules asked for, exit code, rows | `run`, `fuzz`, `replay`, `shrink`, a test of one schedule | everything above; the corpus | the verdict shown is the verdict computed; only what was asked for is changed in the corpus |
| doctor, `cli/doctor.py`; diff, `diff.py` | none | probes in subprocesses; rendering of two traces | command line | not modelled, see 6 |

Hard behaviour: the loop is single-threaded, so interleaving means the order of
callbacks, and the calls each of them makes back into the loop; a run may be left
at any callback (interrupt, abort by an oracle, exhausted budget, deadlock,
`stop()`) with its queues as they are, and the cleanup then runs the same loop
again; cleanup executes arbitrary user code too; replay must survive edits of
the scenario; the corpus is shared by processes that may crash. `PROJECT.json`
lists each such hazard at its line.

## 2. Modules and how they correspond to the code

| Module | Models |
|---|---|
| `EventLoop` | the loop and the clock, one action per call, handler or outcome of `_run_once` |
| `LoopContract` | abstract: what a virtual-time loop promises to callbacks |
| `LoopImplementsContract` | the refinement mapping, property `ImplementsContract` |
| `StockLoop` | abstract: asyncio's own `_run_once` with a virtual clock (external code) |
| `FifoLoop` | EventLoop under Fifo mapped to `StockLoop` |
| `Replay` | `schedulers/replay.py` against a recording and a scenario that may have been edited |
| `Runner` | `_execute` and `_shutdown` of `runner.py` |
| `Shrink` | `shrink.py`: search, cache, budget, verification |
| `Oracles` | what a trial records and observes: the trace, the hooks, `oracles/` and `invariants.py` |
| `Corpus` | `corpus.py`: the files of one scenario, shared by processes that may fail or be killed |
| `CorpusStore` | abstract: the store that `Corpus` implements |
| `Fuzz` | a session of `fuzz.py` over the corpus, and the verdict of the plugin and of `chaosloop fuzz` |
| `Commands` | one invocation of `fuzz`, `run`, `replay` or `shrink`, or a test of one schedule, composed with `Fuzz` |
| `QueueLemmas` | facts on sequences and least numbers the proofs cite |
| `EventLoopProofs`, `ReplayProofs`, `RunnerProofs`, `OraclesProofs`, `ShrinkProofs`, `CorpusProofs`, `CommandsProofs` | the theorems, those of `Fuzz` among the last |
| `MC*` | the instances TLC checks |

The exact lines of every definition are in `PROJECT.json` under `map`. A
definition whose comment begins with "Mutant" is a wrong version of the one that
follows it; each property of each passing run has one that violates it.

**EventLoop.** The variables are the attributes of `ChaosEventLoop` and
`BaseEventLoop` by name (`ready`, `scheduled`, `turnPending`, `stopping`,
`cancelledCount`, `recording`, ...), `now` and `maxTime` are the clock's, and `pc`
is where control is: `idle` between two runs, `run_once` between two callbacks of
`run_forever`, `select` in a `_run_once` whose turn is prepared, `callback` inside
a handle, `closed` in the end. A handle is a number, in the order of creation, which
is also the tie-break of `_OrderedTimer`. `_run_once` is one step: the turn is
prepared (dead heads dropped, purge, wake-up, promotion), the budget is tested and
a handle is dequeued, or one of `Deadlock`, `TimeBudgetExceeded`,
`StepBudgetExceeded`, a bad choice, an interrupt or an abort leaves the run. While
a callback runs, user code may call `call_soon`, `call_at`, `cancel` and `stop`,
complete the awaited future, return or raise. The scheduler is any function of the
candidates (`Selectable`), so Random and every schedule a Replay may force are
covered; `Fifo` restricts it. asyncio's part of the loop (`call_soon`,
`Handle.cancel`, `run_forever`) is not under `src/` and is marked external.

**LoopContract, StockLoop.** The first says what callbacks may rely on whatever
the scheduler does; `LoopImplementsContract` reads a callback's status off the
queues. The second is asyncio's iteration: all due timers are promoted and the
whole batch executed; `FifoLoop` maps a timer turn of `EventLoop` to a batch.

**Replay.** First a trace is recorded (`log`), then the same or an edited
scenario is driven by `choose`. As long as every choice executed the recorded
callback the queues are those of the recording; after that, anything. The five
outcomes of `choose` (followed, drift, absent, out of range, exhausted) and strict
mode are there; a step is its queue of identities and the choice.

**Runner.** `stage` is the position in `_execute`: `on_start`, `main`,
`on_finish`, the phases of `_shutdown` (`sweep`, `generators`, `resweep`,
`executor`), `close`. The loop is seen from outside: tasks are runnable or blocked,
a step of a task may spawn, wake, cancel-suppress, fail or interrupt. User code runs
in every phase, also in the cleanup, and may do the same to tasks whoever executes it
(`UserCode`): a task being cancelled, a plain callback or timer that belongs to no task
and that nothing cancels (`CallbackRuns`), and the `finally` block of a generator that
`aclose` resumes (`CloseGenerator`). What the last two start after the first sweep has
ended is what the second one is for. Oracles are opaque: they return, report a finding,
raise, or interrupt. `error` is the local variable of that name by class. A generator
may be opened by the scenario and by what runs in the first sweep (`MayOpen`), before
`shutdown_asyncgens` takes its snapshot. Two history variables only serve the
properties: `unswept`, the pending tasks that the cleanup has to end, and `loose`, that
a task has failed which nobody awaits and no sweep was joining.

**Oracles.** The other half of `runner.py`: which oracles a trial has (`Selected`),
which of them are called after each callback (`Hooked`: all, or with the lean
recording the invariants only), in order, up to the first that stops the run
(`Called`), and what `on_finish` makes of the end (`OutcomeVerdicts`,
`LeakVerdicts`). `Check` is `InvariantOracle.check`: predicates are read in order,
a raised predicate and a violated failure return at once, the first violated
warning not yet reported is kept for the end. The scenario registers invariants
as long as the registration is active. Findings are a set: the order of the list
and how often an equal finding is in it are not told apart. `trace` is what the loop records; the
variables marked history say what was really executed, violated and called.

**Shrink.** A deterministic scenario is a tree that the search unfolds: `world`
holds the runs executed, a new run may be anything that agrees with them. Each
loop of the four phases is a pair of actions, one round and its end; `_accept`
and `__call__` are `Accept` and `Propose`, `_rank` is the order `Simpler`. The clock may run out at any moment
(`TimePasses`).

**Fuzz.** A schedule is its position in `corpus._rank`; the corpus is one
exemplar or `Nothing` per signature. The source has `seeds` fresh seeds, `trials` or
fewer. Replays, fresh trials and buckets being
shrunk are actions, `Ok` is `FuzzResult.ok`, and the outcome is what the plugin
or the command makes of it.

**Commands.** `Start...` picks the command and the schedules it was asked for
(entries, a file, a seed), one action tries each of them, and `code` is the exit
code of `main`, the one for an internal error included (`TrialRaises`). `replay --forget` deletes entries, `shrink` may replace its own.
The corpus and the answers of a trial are those of `Fuzz`; its session is the
command `fuzz`.

**Corpus, CorpusStore.** `file` maps each signature to what its `.json` file holds:
an exemplar, nothing, or something `_read` rejects. A `record` is four steps with
other processes between them: read and compare, open a temporary file, write it,
replace the entry. Each may fail; `Crash` ends a process anywhere. `load` and
`prune` list the directory, then read file by file, then forget entry by entry.
`CorpusStore` keeps, of each process, only the decision to write; there the
temporary files, failures and crashes are gone.

Composition: `LoopImplementsContract` and `FifoLoop` compose the loop with the
abstract loops. `Runner` uses of the loop what `EventLoopProofs` establishes: a
callback runs at most once, a run ends for the reason it states. `Shrink` uses of
`Replay` that a positional run follows what is in range and that a faithful
replay of a deterministic scenario is the same run. `Oracles` takes from `Runner`
that an error of the run is kept, and gives it the findings it may report. `Fuzz` uses of `Shrink` that a
verified result has the signature asked for and does not rank above its original,
and is for one process what `CorpusStore` is for several.

## 3. What TLC checks

| Run | Properties | Instance and why it is large enough |
|---|---|---|
| `event_loop` | `OnePlace`, `NoLostCallback`, `TimerAccounting`, `TurnInReady`, `NeverEarly`, `NoStaleStop`, `TimeMovesOnlyWhenIdle`, `GivesUpHonestly`, `ImplementsContract` | four handles, deadlines up to 2 with `max_time` 1, a recorded run and a cleanup run, three steps in each. Four handles are a completion callback, a callback that acts, its victim and a bystander or second timer; the limit lies between two deadlines |
| `fifo_equivalence` | `FifoFollowsAsyncio` | Fifo, four handles, five steps, one run, no time limit: two timers due together beside callbacks queued by callbacks |
| `fifo_stop` | `StopEndsIteration`, violated | the same; see section 5 |
| `replay` | `FaithfulReplay`, `NoSilentDivergence`, `AcceptedReplay` | by identity without duplicates and by position with them, strict and lenient; two tasks and callbacks without a task, queues up to 3, recordings up to 2 steps, edited or not: a second step is reached after each outcome of the first |
| `replay_duplicates` | `FaithfulReplay`, violated | unedited scenario, identities that occur twice in a queue; see section 5 |
| `runner` | `InterruptPropagates`, `FailureReported`, `PassingTrialIsClean`, `FirstErrorReported`, `Terminates` | three tasks alive at a time, plain callbacks, four scenario and seven cleanup steps, one generator, one oracle: a trial passes in which the first sweep joins a task, the generator it opened starts another as it is closed, and the second sweep joins that, all before the cap |
| `oracles` | `OkMeansHeld`, `PersistentWarningReported`, `OneVerdict`, `ObservedAsExecuted`, `TypeOK` | each selection of oracles (the defaults, a custom one on either side of the invariants, none), up to two invariants of either severity and three callbacks: a warning beside a failure in both orders, one reported and then lasting, one registered on the way |
| `shrink` | `CacheSound`, `BestIsProven`, `ReserveKept`, `NeverAccused`, `Converged`, `Terminates`, `TypeOK` | all deterministic scenarios of up to three steps with one or three candidates each, every budget up to six replays, spans of width 2 and 1, two prefixes below the boundary. Three candidates give a value with two lower ones; runs become longer and shorter than the request |
| `corpus` | `NeverTorn`, `BetterUnlessRaced`, `PruneKeepsBest`, `ImplementsStore` | two processes, two signatures, exemplars that differ in deviations and in the rest of the rank, `keep` 1, any initial directory. Two processes are a writer and whoever disturbs it |
| `fuzz` | `FailuresKept`, `OldEvidenceKept`, `PassedIsClean`, `CodeTells`, `ShrinkKeepsToEntry`, `CommandsTypeOK` | every command; two signatures, four schedules of two deviation counts, two trials and a source of up to two seeds, `fail_fast` and shrinking, a flaky scenario (any trial may answer anything) |
| `fuzz_all` | `FailuresKept`, violated | deterministic scenario, neither `fail_fast` nor shrinking; see section 5 |
| `fuzz_diverged` | `FailedHasExemplar`, violated | deterministic scenario; see section 5 |

What they show, in a sentence each: cancelling, stopping and aborting at any point
neither loses, doubles nor anticipates a callback, and the loop gives up only for a
true reason (`event_loop`); a program that relies on asyncio's order sees it under
Fifo until the loop is left (`fifo_equivalence`); a replay that reports no
divergence and no unused decision ran the recorded callbacks, and perhaps more after
them (`replay`); a trial that passes has cleaned up the scenario and its own cleanup
and lost no failure, one that fails reports the first error, one that
is interrupted is interrupted (`runner`), and one that passes saw no invariant of
severity FAILURE violated after any callback (`oracles`); the shrinker never accepts what it did
not execute, never blames a deterministic scenario and stops only where no step
of `lower_each` helps (`shrink`); half an entry is never read, and a better exemplar
is lost to a worse one only in a race or when it cannot be read (`corpus`); a green
session has replayed every stored failure cleanly and, like them, tried every seed
unless time ran out, an exit code 0 or 1 is backed by
faithful trials of everything asked for, and shrinking one entry leaves the others
alone (`fuzz`).

The type invariants of `EventLoop`, `Replay`, `Runner` and `Corpus` are proved
(section 4) and not checked again by TLC.

Every constant commented "bound" cuts the state space only. The others are
parameters of the code (`MaxSteps`, `TimeLimit`, `CleanupLimit`, `MaxReplays`,
`SpanLimit`, `LookBack`, `Strict`, `FailFast`, ...), given small values so that
each limit is reached. Deadlock checking is off in every run: all of these
systems end (a closed loop, a finished trial, replay, search or session).

**Fairness.** Only `Runner` and `Shrink` assume any, and only for `Terminates`:
weak fairness of the program's own steps. Both are one thread of straight Python
code; `Runner` thereby assumes that every callback of the scenario returns, which
the code assumes too (a callback that never returns hangs the process), and not
that tasks finish: only the budgets and the cap of the cleanup end a trial. In
`Shrink` the clock is not fair, so the search ends even if time never runs out.
The other specifications are safety only.

## 4. What is proved

For every value of the constants that satisfies the `ASSUME` of the module:

| Module | Theorems | Argument |
|---|---|---|
| `EventLoopProofs` | `InvAlways`, `TypeCorrect`, `OnePlaceAlways`, `NoLostCallbackAlways`, `TimerAccountingAlways`, `TurnInReadyAlways`, `NeverEarlyAlways`, `TimeMovesOnlyWhenIdleAlways`, `GivesUpHonestlyAlways` | the inductive invariant `Inv` |
| | `NoStaleStopAlways` | `StopOwner`, beside `Inv` |
| | `LoopKeepsContract` | the refinement of `LoopContract`, from `Inv` and `ContractView` |
| | `FifoFollowsAsyncioAlways` | the refinement of `StockLoop` under Fifo, from `Inv` and `FifoView` |
| `ReplayProofs` | `TypeCorrect`, `FaithfulReplayAlways`, `NoSilentDivergenceAlways`, `AcceptedReplayAlways` | `Faithful` and the notes kept of each step |
| `RunnerProofs` | `InvAlways`, `TypeCorrect`, `InterruptPropagatesAlways`, `FailureReportedAlways`, `PassingTrialIsCleanAlways`, `FirstErrorReportedAlways` | `Inv` = types, `Control`, `OneState`, `Sweeping`, `Verdict` |
| `OraclesProofs` | `TrialInvAlways`, `OraclesTypeCorrect`, `OkMeansHeldAlways`, `PersistentWarningAlways`, `OneVerdictAlways`, `ObservedAsExecutedAlways` | `TrialInv` = types, `Endings`, `FailureNoted`, `Faithful`, `WarningsCome`, `Verdicts`, `Returned` |
| `ShrinkProofs` | `SearchInvAlways`, `ShrinkTypeCorrect`, `CacheSoundAlways`, `BestIsProvenAlways`, `ReserveKeptAlways`, `NeverAccusedAlways`, `NeverWorseAlways` | `SearchInv`, and `Deterministic` |
| | `ConvergeInvAlways`, `ConvergedAlways` | `ConvergeInv` = `SearchInv`, `Canonical`, `PassCovers`, `AllTried` |
| `CorpusProofs` | `InvAlways`, `TypeCorrect`, `NeverTornAlways`, `BetterUnlessRacedAlways`, `ImplementsStoreAlways` | `Inv`: types, what a temporary file holds at each step, and why each committed writer may write |
| | `PruneKeepsBestAlways` | `SiftKnows`, beside `Inv` |
| `CommandsProofs` | `CommandsInvAlways`, `CommandsTypeCorrect`, `OldEvidenceAlways`, `PassedIsCleanAlways`, `CodeTellsAlways`, `ShrinkKeepsToEntryAlways` | `CommandsInv`: types, `Phases`, `SessionKnows`, `CommandKnows` |
| | `FailuresKeptAlways` | `FailuresStored`, beside `CommandsInv` |

Five theorems assume more than their module does, each for a reason the code has:

| Theorem | Assumes | Because |
|---|---|---|
| `NoStaleStopAlways` | `StopPhases \subseteq {"scenario"}` | `begin_shutdown` guards against what the scenario left, not against a `stop()` of the cleanup itself (section 6) |
| `FifoFollowsAsyncioAlways` | `Fifo` | it is about the Fifo scheduler; the others promise no order |
| `FaithfulReplayAlways` | `~Duplicates \/ ~Identities` | the run `replay_duplicates` is the counterexample |
| `FailuresKeptAlways` | `FailFast` | the run `fuzz_all` is the counterexample |
| `CommandsTypeCorrect` | `IsFiniteSet(Signature)` | the type invariant counts rows and diverged entries |

*Event loop.* None of the properties is inductive alone. `OnePlace` and
`NoLostCallback` need each other (a handle taken from a queue is where the other
says it is), `NeverEarly` needs `TimersDue` (a promoted timer is due, and time does
not go back), `GivesUpHonestly` needs `TurnPrepared` and `ClockLimit` (what the
turn holds when the loop decides that nothing can run), and `TimerAccounting` needs
`OnePlace` to know that a popped timer leaves nothing behind. `Inv` is their
conjunction. Each conjunct has a step lemma over all of `Next`; `PrepareTurnEffect`
says once what the preparation of a turn does to the queues, and `NextCases` and
`QuietActions` split the next-state relation. The action properties follow from
`Inv` and the few actions that move the clock (`ClockMovers`) or give up
(`GivingUp`). `QueueLemmas` holds the facts about removal, append and
concatenation of sequences and about least elements of sets of naturals.

`NoStaleStopAlways` has an invariant of its own, `StopOwner`: at most one completion
callback is queued at a time, while a run is on it belongs to the future awaited by
it, and no run of the cleanup starts before `begin_shutdown` removed the one an
aborted run left. `LoopKeepsContract` maps each step: a call of user code to
`Register` or `Revoke`, the preparation of a turn to `Wake`, a dequeue to `Start`,
`begin_shutdown` and `close` to `Forget`, the rest to stuttering. What makes it go through is
`OnePlace`: the status the mapping reads off the queues (`Place`) is a function of
where the handle is, and each step lemma says which handles changed place.

`FifoFollowsAsyncioAlways` maps the live handles of the ready queue, in their order
(`Runnable`), to asyncio's queue, and the live handles of the open turn to the part of
it that belongs to the iteration. `FifoView` is what makes it inductive: the live
handles have an order (the queue never repeats one, `OnePlace`), those of the open turn
come first in it, and a turn just prepared holds all of them. So the handle Fifo picks,
the first live one, is the head of asyncio's queue and of its iteration
(`FifoExecute`), a cancellation takes from the iteration exactly when the handle stands
in its part (`ListHead`, `FifoCancel`), and a turn is prepared just when the iteration is
used up (`FifoIteration`). The one place where the two differ without being seen is a
`stop()` before the first turn: `StockLoop`, which knows of no stop, may sleep where this
loop does not, and then nothing is due (`SameTime`). The `List...` lemmas say what appending, cancelling,
taking the head and emptying a dead queue do to its live part.

*Replay.* `AcceptedReplayAlways` is about the recording only: a scenario that goes on
after its end is noted as a soft exhaustion and still accepted. That no two candidates of a step have one task's identity, or the replay
is positional, is an assumption of `FaithfulReplayAlways` only. The invariant says
that the replay is a prefix of the recording as long as the scenario is unedited.

*Runner.* `Control` ties `stage` to what may be running and `OneState` says that a task
is runnable, blocked or failed and never two of them. `Sweeping` says which tasks and
generators may be left at each stage: `unswept` is part of what is pending, so a sweep
that finds nothing pending has ended all of it, and a cleanup that fails jumps to `close`
with an error; only then may anything be left. User code can break this in every phase, so
`UserCodeEffect` says once what it does to the tasks, whoever runs it: it starts only
tasks that were not there, and ends none but the one that runs. `Verdict` follows a
failure: an interrupt is in `error` at once, and a loose exception is in `error`,
collected, or still in the hands of a task that no sweep joins, through every stage up to
the last collection. That a joined task takes its exception with it is why `loose`
excludes them: `gather` observes it.

*Oracles.* `CalledPrefix` says which oracles a callback reaches, `CheckTells` what
`InvariantOracle.check` answers: a decisive violation is never passed over, and if
there is none, the first warning not yet given is given. From the second comes
`WarningsCome`, on which `PersistentWarningAlways` rests: a warning not yet given has
lasted for no more steps than there are warnings before it that were given, so it
is given after at most as many steps as there are invariants. `OneVerdictAlways`
counts the findings of the outcome oracles (`OneExplains`); that they judge once,
after the run, is `Verdicts`.

*Shrinker.* Everything rests on `Deterministic`: of two runs of one scenario that
follow one request, the first choice that differed would follow equal choices, among
as many candidates, so there is none. Hence the canonical prefix of a run, which the
cache takes for it without executing it, is that run (`FollowPrefix`), the guard's
replay is the failing run (`OriginalReproduces`), and what the cache says of a
schedule and of what came of it agree (`EvidenceOfResult`); `SearchInv` needs the
cache closed under this (`CacheKnows`). The reserve is not inductive as it stands: an
improvement from the cache costs nothing, and between two values tried at one
position the budget is not looked at, which is why `ReserveHeld` also speaks of
`rung`. For `Converged`, `PassCovers` says that a pass of `lower_each` makes the
schedule only simpler, in an order that is strict (`SimplerIrreflexive`,
`SimplerTransitive`), so that a pass that ends as it began never changed it and has
tried everything behind its cursor on just that schedule; and `Canonical` that
`truncate` finds the canonical original in the cache, so that no zero is left at
the end.

*Corpus.* A file that is about to replace an entry is the whole exemplar of its job
(`NeverTorn`); a process that has decided to write, was able to read and was not
raced since, holds an exemplar better than the stored one (`BetterUnlessRaced`).
`ImplementsStoreAlways` maps each step: `Proceed` to `Decide` or `DecideUnread`,
`Replace` to `Put`, a failure or a crash to `GiveUp`, an unlink to `Remove`, the
rest to stuttering. `PruneKeepsBestAlways` rests on what a prune that nobody disturbed
knows (`SiftKnows`): what it read is stored until it forgets it, and it forgets only
entries in excess. Of those one comes first (`FirstInExcess`); the entries before it,
at least `keep`, are not in excess, so they are still stored, and rank no worse than
any forgotten one (`KeepRemain`).

*Commands.* `RecordEffect` and `ForgetEffect` say that `Corpus.record` never loses an
entry or makes one worse and that `forget` takes one only. `SessionKnows` says that a
session replays every entry before the first fresh seed, and tries every seed before it
is reported (`SeedsTried`), unless it was stopped; that one stopped by `fail_fast` has a
failure, so that a green one was stopped by nothing but time; and that a replay not
counted as diverged was faithful. `CommandKnows` says that until a command ends its code
is what its rows say (`CombinedTells`: the maximum of two codes is clean only if both
are, and a failure only if one is and neither is worse, so that a divergence hides a
failure and never the other way round). `FailuresKeptAlways`: with `fail_fast` the first
failure ends the replays, so no older entry that passes is forgotten after it.

Only model-checked: `Terminates` of `Runner` and of `Shrink`, which is out of the
prover's reach as all liveness under fairness is; and the four properties of section 5,
which do not hold. Two of those are proved under the assumption that excludes the
disagreement (`FaithfulReplayAlways`, `FailuresKeptAlways`).

## 5. Disagreements found

- `fifo_stop`: `tests/test_equivalence.py` compares Fifo with asyncio. When the
  awaited future completes, asyncio executes the rest of the batch before
  `run_forever` leaves; this loop leaves after the completion callback.
- `replay_duplicates`: two candidates with one task's identity (a queued
  `task.cancel` beside the task's next step) make the replay of an unchanged
  scenario execute the wrong one, with a soft drift note only. That the first of them is
  taken is pinned by `tests/test_replay_identity.py`; it is the fidelity promised of a
  recorded trace that it breaks.
- `fuzz_all`: in a session that goes on after failures and does not shrink, an
  older entry that passes makes the session forget a signature it has itself just
  seen failing.
- `fuzz_diverged`: the plugin asserts that a failing session has a failing trial;
  a session with nothing but a diverged corpus replay has none.

Details and quotations are in `PROJECT.json` under `findings`. One more was met and
is not a run: `docs/cli.md` lists exit code 3 for a strict replay that mismatches,
where `_replay` answers 5 for every mismatch and `tests/test_cli_commands.py`
expects 5; `Commands` follows the code.

## 6. Limits

- `NoStaleStop` is checked with `stop()` called by the scenario. A `stop()` from
  a task being cancelled in the cleanup is outside what `begin_shutdown` guards.
- `Runner` opens asynchronous generators in the scenario and the first sweep. One
  first iterated while `shutdown_asyncgens` works on its snapshot, or later, is
  dropped by `_generators.clear()` unclosed; the code promises nothing of it. Nor does it
  of a task that a plain callback starts while the executor is shut down, after the
  second sweep: such a task stays pending, and `PassingTrialIsClean` does not cover it.
- `Runner` and `Oracles` share no state: the first knows of an oracle only that it
  may report, raise or interrupt, the second of the cleanup only that it executes
  callbacks.
- `Shrink` supposes a deterministic scenario without two candidates of one task,
  so that replay by task (guard and verification) is replay by position.
- `Fuzz` and `Commands` are the only writers of their corpus, its writes succeed and
  its entries are valid; `Corpus` is about the other cases. Two entries of equal
  deviation count are replayed in either order, in the code in that of their
  signatures.
- In `Corpus` hashed file names are distinct, and a file is valid or not: the JSON of
  an entry and the checks of its fields are not modelled.
- Not modelled, because they change no state of the system or are formats: labels,
  rendering, JSON and JSONL, digests, frame inspection, Random's generator, argument
  and schedule-file parsing, pytest's configuration and reporting, doctor's
  subprocess probes, and the alignment of two traces (difflib's).

## 7. Plan

Done: the loop and its contract, replay, one trial, its oracles, the shrinker, the
corpus and its store, the fuzzing session and the commands.

Proofs: every invariant, action property and refinement that the passing runs check
is proved; liveness stays with TLC.

Models that could be added: `Turns`, what a timer turn owes to timers that fall due
meanwhile, with the fairness of the scheduler stated and the starvation a scheduler
may cause; generators opened during their own shutdown.
