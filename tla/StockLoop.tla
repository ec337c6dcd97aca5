----------------------------- MODULE StockLoop -----------------------------
(***************************************************************************)
(* The order in which asyncio's own BaseEventLoop executes callbacks, with *)
(* its clock replaced by a virtual one.  An iteration moves the due timers *)
(* behind the runnable callbacks and then executes all that were runnable  *)
(* at that moment, in queue order; a callback enqueued meanwhile waits for *)
(* the next iteration.  Cancelled callbacks are simply not there.          *)
(***************************************************************************)
EXTENDS Integers, FiniteSets, Sequences, SequencesExt

CONSTANTS Callback, Time

VARIABLES
    queue,     \* runnable callbacks
    batch,     \* how many at the head of queue belong to this iteration
    timers,    \* armed timers
    deadline,  \* when a timer is due
    clock,     \* virtual time
    busy       \* a callback is being executed

svars == <<queue, batch, timers, deadline, clock, busy>>

Known == ToSet(queue) \cup timers

SInit ==
    /\ queue = << >> /\ batch = 0
    /\ timers = {} /\ deadline = [c \in Callback |-> 0]
    /\ clock = 0 /\ busy = FALSE

Enqueue(c) ==
    /\ c \notin Known
    /\ queue' = Append(queue, c)
    /\ UNCHANGED <<batch, timers, deadline, clock, busy>>

Arm(c, d) ==
    /\ c \notin Known
    /\ timers' = timers \cup {c}
    /\ deadline' = [deadline EXCEPT ![c] = d]
    /\ UNCHANGED <<queue, batch, clock, busy>>

Disarm(c) ==
    /\ c \in timers
    /\ timers' = timers \ {c}
    /\ UNCHANGED <<queue, batch, deadline, clock, busy>>

Withdraw(i) ==
    /\ queue' = RemoveAt(queue, i)
    /\ batch' = IF i <= batch THEN batch - 1 ELSE batch
    /\ UNCHANGED <<timers, deadline, clock, busy>>

\* Start of an iteration.  asyncio's heap leaves ties between equal deadlines
\* open: any order of them will do.
Iteration ==
    /\ batch = 0 /\ ~busy
    /\ clock' = IF queue = << >> /\ \E t \in timers : deadline[t] > clock
                                 /\ \A u \in timers : deadline[t] <= deadline[u]
                THEN CHOOSE d \in {deadline[t] : t \in timers} :
                         \A u \in timers : d <= deadline[u]
                ELSE clock
    /\ LET due == {t \in timers : deadline[t] <= clock'}
       IN /\ timers' = timers \ due
          /\ \E order \in [1..Cardinality(due) -> due] :
                /\ ToSet(order) = due
                /\ \A i, j \in DOMAIN order :
                       i < j => deadline[order[i]] <= deadline[order[j]]
                /\ queue' = queue \o order
    /\ batch' = Len(queue')
    /\ UNCHANGED <<deadline, busy>>

ExecuteHead ==
    /\ batch > 0 /\ ~busy
    /\ queue' = Tail(queue)
    /\ batch' = batch - 1
    /\ busy' = TRUE
    /\ UNCHANGED <<timers, deadline, clock>>

Executed ==
    /\ busy
    /\ busy' = FALSE
    /\ UNCHANGED <<queue, batch, timers, deadline, clock>>

SNext ==
    \/ \E c \in Callback : Enqueue(c) \/ Disarm(c) \/ \E d \in Time : Arm(c, d)
    \/ \E i \in DOMAIN queue : Withdraw(i)
    \/ Iteration \/ ExecuteHead \/ Executed

SSpec == SInit /\ [][SNext]_svars

=============================================================================
