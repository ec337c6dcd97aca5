---------------------------- MODULE LoopContract ----------------------------
(***************************************************************************)
(* What an event loop with virtual time promises to the callbacks          *)
(* registered with it, whatever order the scheduler prefers: a callback is *)
(* started at most once, never after it was revoked, a timer never before  *)
(* its deadline, and time passes only when nobody could run.  Queues,      *)
(* turns, budgets and the scheduler are not part of the promise.           *)
(***************************************************************************)
EXTENDS Integers

CONSTANTS Callback,   \* callbacks that may be registered
          Time        \* instants of virtual time

VARIABLES
    status,    \* of each callback, see Status
    deadline,  \* earliest instant at which a callback may start
    time,      \* virtual time
    active     \* the callbacks being executed: none or one

cvars == <<status, deadline, time, active>>

Status == {"unborn", "waiting", "runnable", "started", "revoked", "dropped"}

With(st) == {c \in Callback : status[c] = st}

CInit ==
    /\ status = [c \in Callback |-> "unborn"]
    /\ deadline = [c \in Callback |-> 0]
    /\ time = 0
    /\ active = {}

\* A new callback: runnable at once, or waiting for its deadline.
Register(c, d, st) ==
    /\ status[c] = "unborn"
    /\ st = "runnable" => d = 0
    /\ status' = [status EXCEPT ![c] = st]
    /\ deadline' = [deadline EXCEPT ![c] = d]
    /\ UNCHANGED <<time, active>>

Revoke(c) ==
    /\ status[c] \in {"waiting", "runnable", "dropped"}
    /\ status' = [status EXCEPT ![c] = "revoked"]
    /\ UNCHANGED <<deadline, time, active>>

\* Nobody runs: every timer that is due becomes runnable.  Time passes first,
\* to the earliest deadline, if nobody could run.
Wake ==
    /\ active = {}
    /\ \/ time' = time
       \/ /\ With("runnable") = {}
          /\ time' > time
          /\ \E c \in With("waiting") : time' = deadline[c]
          /\ \A c \in With("waiting") : time' <= deadline[c]
    /\ status' = [c \in Callback |->
                    IF c \in With("waiting") /\ deadline[c] <= time'
                    THEN "runnable" ELSE status[c]]
    /\ UNCHANGED <<deadline, active>>

Start(c) ==
    /\ active = {}
    /\ status[c] = "runnable"
    /\ deadline[c] <= time
    /\ status' = [status EXCEPT ![c] = "started"]
    /\ active' = {c}
    /\ UNCHANGED <<deadline, time>>

Finish ==
    /\ active # {}
    /\ active' = {}
    /\ UNCHANGED <<status, deadline, time>>

\* The loop is shut down: it may forget callbacks, but only between runs.
Forget ==
    /\ active = {}
    /\ \E D \in SUBSET (With("runnable") \cup With("waiting")) :
           status' = [c \in Callback |-> IF c \in D THEN "dropped" ELSE status[c]]
    /\ UNCHANGED <<deadline, time, active>>

CNext ==
    \/ \E c \in Callback, d \in Time, st \in {"waiting", "runnable"} : Register(c, d, st)
    \/ \E c \in Callback : Revoke(c) \/ Start(c)
    \/ Wake \/ Finish \/ Forget

CSpec == CInit /\ [][CNext]_cvars

=============================================================================
