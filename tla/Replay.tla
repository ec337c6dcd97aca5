------------------------------- MODULE Replay -------------------------------
(***************************************************************************)
(* schedulers/replay.py: a recorded schedule is applied to a second run of *)
(* the scenario, by task identity where one was recorded and by candidate  *)
(* position otherwise.                                                     *)
(*                                                                         *)
(* A scenario is deterministic: as long as every choice executed the       *)
(* callback of the recording, the loop offers the candidates it offered    *)
(* then, and ends where it ended.  After the first other choice, or when   *)
(* the scenario was edited since, it may offer anything.  Positions count  *)
(* from 1 here, from 0 in the code.                                        *)
(***************************************************************************)
EXTENDS Integers, Sequences, FiniteSets

CONSTANTS
    Task,        \* identities of tasks
    NoTask,      \* identity of a callback that no task owns (None)
    MaxQueue,    \* bound: candidates offered at a time
    MaxLength,   \* bound: steps of the recording and of the replay
    Setting,     \* of each mode: how the replay is made, what the scenario offers
    Edits        \* whether the scenario may have changed: a set of Booleans

\* The task of a callback is found in its bound method, so that a queued
\* task.cancel has the identity of the task just as its next step has.
Queue == UNION {[1..n -> Task \cup {NoTask}] : n \in 1..MaxQueue}

ASSUME ReplayAssumption ==
    /\ NoTask \notin Task
    /\ MaxQueue \in Nat /\ MaxLength \in Nat
    /\ \A m \in DOMAIN Setting :
           Setting[m] \in [strict : BOOLEAN, byTask : BOOLEAN, offers : SUBSET Queue]
    /\ Edits \subseteq BOOLEAN

VARIABLES
    mode,         \* the setting of this replay, in DOMAIN Setting
    phase,        \* "recording", "replaying", "finished" or "mismatch"
    log,          \* the trace recorded: of each step, the queue and the choice
    edited,       \* the scenario is not the recorded one any more
    executed,     \* the trace of the replay; its choices are Replay._made
    divergences   \* Replay._divergences

vars == <<mode, phase, log, edited, executed, divergences>>

Strict     == Setting[mode].strict    \* Replay(strict=True)
Identities == Setting[mode].byTask    \* Replay.from_trace, not from_decisions
Offers     == Setting[mode].offers    \* the queues of the scenario, edited or not

\* No task owns two callbacks of the queue.
Distinct(q) == \A i, j \in DOMAIN q : q[i] = q[j] /\ q[i] # NoTask => i = j

Step == {s \in [queue : Queue, chosen : 1..MaxQueue] : s.chosen \in DOMAIN s.queue}

\* The identity of the callback a step executed.
Ran(s) == s.queue[s.chosen]

----------------------------------------------------------------------------
(* The recording *)

Record ==
    /\ phase = "recording" /\ Len(log) < MaxLength
    /\ \E s \in Step : s.queue \in Offers /\ log' = Append(log, s)
    /\ UNCHANGED <<mode, phase, edited, executed, divergences>>

StartReplay ==
    /\ phase = "recording"
    /\ phase' = "replaying"
    /\ edited' \in Edits
    /\ UNCHANGED <<mode, log, executed, divergences>>

----------------------------------------------------------------------------
(* The replay *)

position == Len(executed)

\* The replayed scenario has done exactly what the recorded one did so far.
Same == /\ ~edited /\ position <= Len(log)
        /\ \A k \in 1..position : executed[k] = log[k]

\* The candidate tuples the loop may offer next: none if the scenario is over.
Offered ==
    IF ~Same THEN Offers
    ELSE IF position < Len(log) THEN {log[position + 1].queue} ELSE {}

\* Mutant: a missing task is a soft divergence.
AbsentIsSoft == {"range"}

\* Divergence.hard
Hard == {"absent", "range"}

Note(kind) == Append(divergences, [step |-> position, kind |-> kind])

\* choose returns: the loop executes the callback chosen.
Return(queue, i) ==
    /\ executed' = Append(executed, [queue |-> queue, chosen |-> i])
    /\ UNCHANGED <<mode, phase, log, edited>>

\* A hard divergence: ReplayMismatch in strict mode, the first candidate otherwise.
Fallback(queue, kind) ==
    /\ divergences' = Note(kind)
    /\ IF Strict
       THEN phase' = "mismatch" /\ UNCHANGED <<mode, log, edited, executed>>
       ELSE Return(queue, 1)

Requested == log[position + 1].chosen

\* Mutant: the identities lag one decision behind.
RequestedTaskLagging ==
    IF Identities /\ position > 0 THEN Ran(log[position]) ELSE NoTask

\* The identity to follow, NoTask when only the position is known.
RequestedTask == IF Identities THEN Ran(log[position + 1]) ELSE NoTask

OfTask(queue, task) == {i \in DOMAIN queue : queue[i] = task}

First(S) == CHOOSE i \in S : \A j \in S : i <= j

InRange(queue) == Requested \in DOMAIN queue

Exhausted(queue) ==
    /\ position >= Len(log)
    /\ divergences' = Note("exhausted")
    /\ Return(queue, 1)

FollowTask(queue) ==
    /\ position < Len(log) /\ RequestedTask # NoTask
    /\ OfTask(queue, RequestedTask) # {}
    /\ LET found == First(OfTask(queue, RequestedTask))
       IN /\ divergences' = IF found = Requested THEN divergences ELSE Note("drift")
          /\ Return(queue, found)

TaskAbsent(queue) ==
    /\ position < Len(log) /\ RequestedTask # NoTask
    /\ OfTask(queue, RequestedTask) = {}
    /\ Fallback(queue, "absent")

FollowPosition(queue) ==
    /\ position < Len(log) /\ RequestedTask = NoTask
    /\ InRange(queue)
    /\ Return(queue, Requested)
    /\ UNCHANGED divergences

PositionOutOfRange(queue) ==
    /\ position < Len(log) /\ RequestedTask = NoTask
    /\ ~InRange(queue)
    /\ Fallback(queue, "range")

Choose(queue) ==
    \/ Exhausted(queue)
    \/ FollowTask(queue) \/ TaskAbsent(queue)
    \/ FollowPosition(queue) \/ PositionOutOfRange(queue)

ReplayStep ==
    /\ phase = "replaying" /\ position < MaxLength
    /\ \E queue \in Offered : Choose(queue)

ScenarioEnds ==
    /\ phase = "replaying"
    /\ Same => position = Len(log)
    /\ phase' = "finished"
    /\ UNCHANGED <<mode, log, edited, executed, divergences>>

Init ==
    /\ mode \in DOMAIN Setting
    /\ phase = "recording"
    /\ log = << >> /\ executed = << >> /\ divergences = << >>
    /\ edited = FALSE

Next == Record \/ StartReplay \/ ReplayStep \/ ScenarioEnds

Spec == Init /\ [][Next]_vars

----------------------------------------------------------------------------
(* Properties *)

\* The variables have their types.
TypeOK ==
    /\ mode \in DOMAIN Setting
    /\ phase \in {"recording", "replaying", "finished", "mismatch"}
    /\ log \in Seq(Step) /\ executed \in Seq(Step)
    /\ edited \in BOOLEAN
    /\ divergences \in Seq([step : 0..MaxLength, kind : Hard \cup {"drift", "exhausted"}])

diverged == \E n \in DOMAIN divergences : divergences[n].kind \in Hard

\* Mutant: the last unused decision is not counted.
remainingButLast == IF position + 1 < Len(log) THEN Len(log) - position - 1 ELSE 0

\* Recorded decisions that were not used.
remaining == IF position < Len(log) THEN Len(log) - position ELSE 0

\* A recording of the same scenario replays itself: the same callbacks in the
\* same order, to the end, with no divergence noted and no decision unused.
FaithfulReplay ==
    ~edited => /\ Same /\ divergences = << >> /\ phase # "mismatch"
               /\ phase = "finished" => executed = log

\* The replay of an edited scenario never executes another task than the one
\* recorded at that step without a hard divergence noted for the step.
NoSilentDivergence ==
    Identities =>
        \A k \in 1..position :
            k <= Len(log) /\ Ran(log[k]) \notin {NoTask, Ran(executed[k])} =>
                \E n \in DOMAIN divergences :
                    divergences[n].kind \in Hard /\ divergences[n].step = k - 1

\* The step ran what was recorded: the recorded task, or the recorded position.
Followed(k) ==
    IF Identities /\ Ran(log[k]) # NoTask
    THEN Ran(executed[k]) = Ran(log[k])
    ELSE executed[k].chosen = log[k].chosen

\* A replay that is accepted, neither diverged nor with decisions left, has used up
\* the recording and ran a callback for every step of it: the recorded task's, or
\* the one at the recorded position.  The scenario may go on after that: each such
\* step is a soft exhaustion, which is accepted.
AcceptedReplay ==
    phase = "finished" /\ ~diverged /\ remaining = 0 =>
        position >= Len(log) /\ \A k \in DOMAIN log : Followed(k)

=============================================================================
