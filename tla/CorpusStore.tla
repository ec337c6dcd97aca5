---------------------------- MODULE CorpusStore ----------------------------
(***************************************************************************)
(* What a corpus promises to the processes that share it: of each failure  *)
(* at most one exemplar, always a whole one.  A process that records looks *)
(* at the stored exemplar once and decides; what others store in between   *)
(* is not looked at again.                                                 *)
(***************************************************************************)
EXTENDS Naturals

CONSTANTS Proc, Signature, Entry, Nothing

VARIABLES
    store,     \* of each signature, the exemplar or Nothing
    pending,   \* of each process, the record it decided to make, or Nothing
    unread     \* processes that decided without having read what is stored

svars == <<store, pending, unread>>

\* _rank: deviations from FIFO first, then everything else that is compared.
Better(e, f) ==
    \/ e.deviations < f.deviations
    \/ e.deviations = f.deviations /\ e.rest < f.rest

SInit == /\ store \in [Signature -> Entry \cup {Nothing}]
         /\ pending = [p \in Proc |-> Nothing]
         /\ unread = {}

Decide(p, s, e) ==
    /\ pending[p] = Nothing
    /\ store[s] # Nothing => Better(e, store[s])
    /\ pending' = [pending EXCEPT ![p] = [sig |-> s, entry |-> e]]
    /\ UNCHANGED <<store, unread>>

\* An exemplar that cannot be read counts as none.
DecideUnread(p, s, e) ==
    /\ pending[p] = Nothing
    /\ pending' = [pending EXCEPT ![p] = [sig |-> s, entry |-> e]]
    /\ unread' = unread \cup {p}
    /\ UNCHANGED store

Drop(p) ==
    /\ pending[p] # Nothing
    /\ pending' = [pending EXCEPT ![p] = Nothing]
    /\ unread' = unread \ {p}

Put(p) == Drop(p) /\ store' = [store EXCEPT ![pending[p].sig] = pending[p].entry]

\* The write failed, or the process died.
GiveUp(p) == Drop(p) /\ UNCHANGED store

Remove(s) ==
    /\ store' = [store EXCEPT ![s] = Nothing]
    /\ UNCHANGED <<pending, unread>>

SNext == \/ \E p \in Proc : Put(p) \/ GiveUp(p)
         \/ \E p \in Proc, s \in Signature, e \in Entry : Decide(p, s, e) \/ DecideUnread(p, s, e)
         \/ \E s \in Signature : Remove(s)

SSpec == SInit /\ [][SNext]_svars

=============================================================================
