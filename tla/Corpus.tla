------------------------------- MODULE Corpus -------------------------------
(***************************************************************************)
(* corpus.py: the files of one scenario under .chaosloop/failures, shared  *)
(* by processes (a pytest run, a fuzz session, a developer's replay) that  *)
(* take no lock.  One file per signature, replaced atomically; any call    *)
(* may fail with an OSError, and any process may be killed.                *)
(*                                                                         *)
(* A signature is its number in the order of the signatures.  The file of  *)
(* a killed process's temporary name stays behind, but no glob of *.json   *)
(* finds it, so it is not kept here.                                       *)
(***************************************************************************)
EXTENDS Naturals, FiniteSets

CONSTANTS
    Proc,          \* processes sharing the directory
    MaxSignature,  \* bound: signatures of the scenario
    Entry,         \* exemplars, by what _rank tells apart
    Keep,          \* prune(keep=...)
    NoFile,        \* no such file
    Corrupt        \* a file _read rejects

Signature == 1..MaxSignature

ASSUME CorpusAssumption ==
    /\ MaxSignature \in Nat /\ Keep \in Nat
    /\ Entry \subseteq [deviations : Nat, rest : Nat]
    /\ NoFile \notin Entry /\ Corrupt \notin Entry /\ NoFile # Corrupt
    /\ NoFile \notin [sig : Signature, entry : Entry]

VARIABLES
    file,     \* of each signature, the content of its .json file
    pc,       \* of each process, where it is
    job,      \* of a process that records, the signature and the exemplar
    temp,     \* of a process that records, the content of its temporary file
    paths,    \* of a process that loads, the files listed and not yet read
    loaded,   \* of a process that loads, the content read of each file
    victims,  \* of a process that prunes, the signatures still to forget
    blind,    \* processes whose read of the stored exemplar failed
    raced     \* history: of each process, files others changed since it began

vars == <<file, pc, job, temp, paths, loaded, victims, blind, raced>>

Content == Entry \cup {NoFile, Corrupt}
Nowhere == [s \in Signature |-> NoFile]
NoJob   == NoFile

\* _rank: deviations from FIFO first, then everything else that is compared.
Better(e, f) ==
    \/ e.deviations < f.deviations
    \/ e.deviations = f.deviations /\ e.rest < f.rest

\* Another process's file operation is not noticed by those at work.
Disturb(p, s) ==
    raced' = [q \in Proc |-> IF q # p /\ pc[q] # "idle" THEN raced[q] \cup {s} ELSE raced[q]]

\* The process is idle again and holds nothing.
Finish(p) ==
    /\ pc' = [pc EXCEPT ![p] = "idle"]
    /\ job' = [job EXCEPT ![p] = NoJob]
    /\ temp' = [temp EXCEPT ![p] = NoFile]
    /\ paths' = [paths EXCEPT ![p] = {}]
    /\ loaded' = [loaded EXCEPT ![p] = Nowhere]
    /\ victims' = [victims EXCEPT ![p] = {}]
    /\ blind' = blind \ {p}

----------------------------------------------------------------------------
(* record *)

Record(p) ==
    /\ pc[p] = "idle"
    /\ \E s \in Signature, e \in Entry : job' = [job EXCEPT ![p] = [sig |-> s, entry |-> e]]
    /\ pc' = [pc EXCEPT ![p] = "checking"]
    /\ raced' = [raced EXCEPT ![p] = {}]
    /\ UNCHANGED <<file, temp, paths, loaded, victims, blind>>

\* Mutant: the stored exemplar is not compared with the new one.
NeverWorthless(p) == FALSE

\* The stored exemplar is at least as good: record returns False.
Worthless(p) == /\ file[job[p].sig] \in Entry
                /\ ~Better(job[p].entry, file[job[p].sig])

Decline(p) ==
    /\ pc[p] = "checking" /\ Worthless(p)
    /\ Finish(p)
    /\ UNCHANGED <<file, raced>>

\* No file, a corrupt one, a worse one, or one that could not be read.
Proceed(p) ==
    /\ pc[p] = "checking"
    /\ \/ ~Worthless(p) /\ UNCHANGED blind
       \/ file[job[p].sig] # NoFile /\ blind' = blind \cup {p}
    /\ pc' = [pc EXCEPT ![p] = "opening"]
    /\ UNCHANGED <<file, job, temp, paths, loaded, victims, raced>>

\* Mutant: the entry is written in place.
OpenInPlace(p) ==
    /\ pc[p] = "opening"
    /\ file' = [file EXCEPT ![job[p].sig] = Corrupt]
    /\ pc' = [pc EXCEPT ![p] = "writing"]
    /\ Disturb(p, job[p].sig)
    /\ UNCHANGED <<job, temp, paths, loaded, victims, blind>>

Open(p) ==
    /\ pc[p] = "opening"
    /\ temp' = [temp EXCEPT ![p] = Corrupt]
    /\ pc' = [pc EXCEPT ![p] = "writing"]
    /\ UNCHANGED <<file, job, paths, loaded, victims, blind, raced>>

\* Dumped, flushed and synchronised.
Write(p) ==
    /\ pc[p] = "writing"
    /\ temp' = [temp EXCEPT ![p] = job[p].entry]
    /\ pc' = [pc EXCEPT ![p] = "replacing"]
    /\ UNCHANGED <<file, job, paths, loaded, victims, blind, raced>>

\* Mutant: replaced before the dump is complete.
ReplaceEarly(p) ==
    /\ pc[p] \in {"writing", "replacing"}
    /\ file' = [file EXCEPT ![job[p].sig] = temp[p]]
    /\ Disturb(p, job[p].sig)
    /\ Finish(p)

Replace(p) ==
    /\ pc[p] = "replacing"
    /\ file' = [file EXCEPT ![job[p].sig] = temp[p]]
    /\ Disturb(p, job[p].sig)
    /\ Finish(p)

\* An OSError on the way: record returns False and removes the temporary file.
Fail(p) ==
    /\ pc[p] \in {"checking", "opening", "writing", "replacing"}
    /\ Finish(p)
    /\ UNCHANGED <<file, raced>>

----------------------------------------------------------------------------
(* load, forget and prune *)

\* Both list the directory first.
List(p) ==
    /\ pc[p] = "idle"
    /\ \E purpose \in {"loading", "sifting"} : pc' = [pc EXCEPT ![p] = purpose]
    /\ paths' = [paths EXCEPT ![p] = {s \in Signature : file[s] # NoFile}]
    /\ raced' = [raced EXCEPT ![p] = {}]
    /\ UNCHANGED <<file, job, temp, loaded, victims, blind>>

\* Read in the order of hashed names: any order.  A file that is corrupt, gone
\* or unreadable is skipped with a warning.
Read(p) ==
    /\ pc[p] \in {"loading", "sifting"}
    /\ \E s \in paths[p] :
           /\ paths' = [paths EXCEPT ![p] = @ \ {s}]
           /\ loaded' = [loaded EXCEPT ![p][s] = IF file[s] \in Entry THEN file[s] ELSE NoFile]
    /\ UNCHANGED <<file, pc, job, temp, victims, blind, raced>>

Loaded(p) == {s \in Signature : loaded[p][s] \in Entry}

\* Mutant: in the order of the signatures alone.
BeforeBySignature(p, s, t) == s < t

\* The order of load: by deviations, then signature.
Before(p, s, t) ==
    LET d == loaded[p][s].deviations
        f == loaded[p][t].deviations
    IN d < f \/ (d = f /\ s < t)

\* The entries of prune's load after the first keep.
Excess(p) == {s \in Loaded(p) : Cardinality({t \in Loaded(p) : Before(p, t, s)}) >= Keep}

\* All read: what is replayed next is up to the caller, prune has its victims.
EndLoad(p) ==
    /\ pc[p] = "loading" /\ paths[p] = {}
    /\ pc' = [pc EXCEPT ![p] = "replaying"]
    /\ UNCHANGED <<file, job, temp, paths, loaded, victims, blind, raced>>

EndSift(p) ==
    /\ pc[p] = "sifting" /\ paths[p] = {}
    /\ victims' = [victims EXCEPT ![p] = Excess(p)]
    /\ pc' = [pc EXCEPT ![p] = "pruning"]
    /\ UNCHANGED <<file, job, temp, paths, loaded, blind, raced>>

\* forget: the file goes, whatever it holds now; or an OSError keeps it.
Unlink(p, s) ==
    \/ /\ file' = [file EXCEPT ![s] = NoFile]
       /\ IF file[s] # NoFile THEN Disturb(p, s) ELSE UNCHANGED raced
    \/ file[s] # NoFile /\ UNCHANGED <<file, raced>>

\* fuzz and the command line forget an entry whose replay passed.
Retire(p) ==
    /\ pc[p] = "replaying"
    /\ \E s \in Loaded(p) :
           /\ Unlink(p, s)
           /\ loaded' = [loaded EXCEPT ![p][s] = NoFile]
    /\ UNCHANGED <<pc, job, temp, paths, victims, blind>>

Leave(p) ==
    /\ pc[p] = "replaying" \/ (pc[p] = "pruning" /\ victims[p] = {})
    /\ Finish(p)
    /\ UNCHANGED <<file, raced>>

Prune(p) ==
    /\ pc[p] = "pruning"
    /\ \E s \in victims[p] :
           /\ \A t \in victims[p] : ~Before(p, t, s)
           /\ Unlink(p, s)
           /\ victims' = [victims EXCEPT ![p] = @ \ {s}]
    /\ UNCHANGED <<pc, job, temp, paths, loaded, blind>>

\* Killed: the temporary file stays, under a name nobody reads.
Crash(p) ==
    /\ pc[p] # "idle"
    /\ Finish(p)
    /\ UNCHANGED <<file, raced>>

----------------------------------------------------------------------------

\* Any directory a former version, or a careless edit, may have left.
Init ==
    /\ file \in [Signature -> Content]
    /\ pc = [p \in Proc |-> "idle"]
    /\ job = [p \in Proc |-> NoJob] /\ temp = [p \in Proc |-> NoFile]
    /\ paths = [p \in Proc |-> {}] /\ victims = [p \in Proc |-> {}]
    /\ loaded = [p \in Proc |-> Nowhere]
    /\ blind = {} /\ raced = [p \in Proc |-> {}]

Next ==
    \E p \in Proc :
        \/ Record(p) \/ Decline(p) \/ Proceed(p) \/ Open(p) \/ Write(p) \/ Replace(p) \/ Fail(p)
        \/ List(p) \/ Read(p) \/ EndLoad(p) \/ EndSift(p) \/ Retire(p) \/ Prune(p) \/ Leave(p)
        \/ Crash(p)

Spec == Init /\ [][Next]_vars

----------------------------------------------------------------------------
(* Properties *)

\* A record that has decided to write.
Committed == {"opening", "writing", "replacing"}

Recording == Committed \cup {"checking"}

\* The variables have their types.
TypeOK ==
    /\ file \in [Signature -> Content]
    /\ pc \in [Proc -> Recording \cup {"idle", "loading", "sifting", "replaying", "pruning"}]
    /\ job \in [Proc -> [sig : Signature, entry : Entry] \cup {NoJob}]
    /\ \A p \in Proc : job[p] # NoJob <=> pc[p] \in Recording
    /\ temp \in [Proc -> Content]
    /\ paths \in [Proc -> SUBSET Signature]
    /\ loaded \in [Proc -> [Signature -> Entry \cup {NoFile}]]
    /\ victims \in [Proc -> SUBSET Signature]
    /\ \A p \in Proc : victims[p] \subseteq Loaded(p)
    /\ blind \subseteq Proc
    /\ raced \in [Proc -> SUBSET Signature]

\* A file that is about to replace an entry is complete, so that no crash and no
\* failed write, between whatever steps, leaves part of an entry to be loaded.
NeverTorn ==
    [][\A s \in Signature : file'[s] = Corrupt => file[s] = Corrupt]_file

\* "Keep the better exemplar": a worse one replaces a better one only if another
\* process changed the file after this one compared, or it could not be read.
BetterUnlessRaced ==
    [][\A p \in Proc : \A s \in Signature :
           /\ pc[p] = "replacing" /\ job[p].sig = s
           /\ file[s] \in Entry /\ file'[s] # file[s] /\ file'[s] \in Entry
           /\ p \notin blind /\ s \notin raced[p] /\ pc'[p] = "idle"
           => Better(file'[s], file[s])]_vars

\* An entry that an undisturbed prune forgets is one of too many: when it ends,
\* keep entries that rank no worse than each forgotten one are still stored.
PruneKeepsBest ==
    [][\A p \in Proc :
           pc[p] = "pruning" /\ victims[p] = {} /\ pc'[p] = "idle" /\ raced[p] = {} =>
               \A t \in Loaded(p) : file[t] = NoFile =>
                   Cardinality({s \in Loaded(p) : /\ file[s] \in Entry
                                                  /\ loaded[p][s].deviations
                                                       <= loaded[p][t].deviations}) >= Keep]_vars

Store == INSTANCE CorpusStore
    WITH Nothing <- NoFile,
         store   <- [s \in Signature |-> IF file[s] \in Entry THEN file[s] ELSE NoFile],
         pending <- [p \in Proc |-> IF pc[p] \in Committed
                                    THEN job[p] ELSE NoFile],
         unread  <- blind

\* Temporary files, torn writes, I/O errors and crashes are invisible: seen
\* through load, the directory is the store of CorpusStore.
ImplementsStore == Store!SSpec

=============================================================================
