------------------------------ MODULE FifoLoop ------------------------------
(***************************************************************************)
(* EventLoop under the Fifo scheduler, compared with asyncio's own loop:   *)
(* the comparison tests/test_equivalence.py makes on a dozen scenarios.    *)
(***************************************************************************)
EXTENDS EventLoop

InOrder(q, g, h) == \E i, j \in DOMAIN q : i < j /\ q[i] = g /\ q[j] = h

\* The live handles of a ready queue, in its order.
Runnable(q, dead) ==
    CHOOSE p \in Listings(ToSet(q) \ dead, LAMBDA g, h : InOrder(q, g, h)) : TRUE

Stock == INSTANCE StockLoop
    WITH Callback <- Handle,
         Time     <- 0..MaxWhen,
         queue    <- Runnable(ready, cancelled),
         batch    <- Cardinality(Live(turnPending)),
         timers   <- Live(scheduled),
         deadline <- when,
         clock    <- now,
         busy     <- current # 0

\* While the scenario runs, the Fifo scheduler executes exactly the callbacks
\* asyncio would, in its order, timers promoted at its batch boundaries, until
\* the loop is left: one callback per _run_once makes no observable difference.
FifoFollowsAsyncio ==
    Stock!SInit /\ [][recording' => Stock!SNext]_(Stock!svars)

\* asyncio notices a stop at the end of an iteration: a run that returns has
\* executed every callback of the iteration in which the stop was requested.
StopEndsIteration ==
    [][recording /\ pc = "callback" /\ outcome' = "returned" =>
          Live(turnPending) = {}]_vars

=============================================================================
