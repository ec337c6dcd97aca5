---------------------------- MODULE CorpusProofs ----------------------------
(***************************************************************************)
(* Proofs about Corpus, for any number of processes, signatures and        *)
(* exemplars.                                                              *)
(***************************************************************************)
EXTENDS Corpus, QueueLemmas, FiniteSetTheorems

\* Why a replace is sound: what a committed record compared with is what it
\* replaces, unless the file was disturbed or never read.
Compared ==
    \A p \in Proc :
        /\ pc[p] \in Committed /\ p \notin blind
        /\ job[p].sig \notin raced[p] /\ file[job[p].sig] \in Entry
        => Better(job[p].entry, file[job[p].sig])

Ready == \A p \in Proc : pc[p] = "replacing" => temp[p] = job[p].entry

Tidy ==
    /\ \A p \in Proc : victims[p] # {} => pc[p] = "pruning"
    /\ \A p \in blind : pc[p] \in Committed

Inv == TypeOK /\ Tidy /\ Ready /\ Compared

\* The initial directory satisfies the invariant, whatever it holds.
LEMMA InitInv == Init => Inv
<1> SUFFICES ASSUME Init PROVE Inv
  OBVIOUS
<1>1. TypeOK
  BY CorpusAssumption DEF Init, TypeOK, Content, Nowhere, NoJob, Loaded, Recording, Committed, Signature
<1>2. Tidy /\ Ready /\ Compared
  BY DEF Init, Tidy, Ready, Compared, Committed
<1> QED BY <1>1, <1>2 DEF Inv

\* What a process that finishes leaves behind is well typed.
LEMMA FinishTyped ==
    ASSUME Inv, NEW p \in Proc, Finish(p), file' = file, raced' = raced
    PROVE  Inv'
<1> USE DEF Inv, Finish
<1>1. TypeOK'
  BY CorpusAssumption DEF TypeOK, Content, Nowhere, NoJob, Loaded, Recording, Committed, Signature
<1>2. Tidy'
  BY DEF TypeOK, Tidy, Committed
<1>3. Ready' /\ Compared'
  BY DEF TypeOK, Ready, Compared, Committed
<1> QED BY <1>1, <1>2, <1>3

\* Removing or leaving a file keeps the invariant, when nothing else changes
\* but a loaded entry or a victim of a process that holds no record.
LEMMA UnlinkTyped ==
    ASSUME Inv, NEW p \in Proc, NEW s \in Signature, Unlink(p, s),
           pc[p] \notin Recording, UNCHANGED <<pc, job, temp, paths, blind>>,
           loaded' \in [Proc -> [Signature -> Entry \cup {NoFile}]],
           victims' \in [Proc -> SUBSET Signature],
           \A q \in Proc : victims'[q] \subseteq Loaded(q)',
           \A q \in Proc : victims'[q] \subseteq victims[q]
    PROVE  Inv'
<1> USE DEF Inv, Unlink, Disturb
<1>1. file' \in [Signature -> Content] /\ raced' \in [Proc -> SUBSET Signature]
  <2>1. file \in [Signature -> Content] /\ raced \in [Proc -> SUBSET Signature]
    BY DEF TypeOK
  <2>2. file' = file \/ file' = [file EXCEPT ![s] = NoFile]
    OBVIOUS
  <2>3. file' \in [Signature -> Content]
    BY <2>1, <2>2 DEF Content
  <2>4. raced' = raced \/ raced' = [q \in Proc |-> IF q # p /\ pc[q] # "idle"
                                                  THEN raced[q] \cup {s} ELSE raced[q]]
    OBVIOUS
  <2>5. raced' \in [Proc -> SUBSET Signature]
    BY <2>1, <2>4
  <2> QED BY <2>3, <2>5
<1>2. TypeOK'
  BY <1>1 DEF TypeOK
<1>3. Tidy'
  <2>1. ASSUME NEW q \in Proc, victims'[q] # {} PROVE pc'[q] = "pruning"
    <3>1. victims[q] # {}
      BY <2>1
    <3> QED BY <3>1 DEF Tidy
  <2>2. \A q \in blind' : pc'[q] \in Committed
    BY DEF Tidy
  <2> QED BY <2>1, <2>2 DEF Tidy
<1>4. Ready'
  BY DEF Ready
<1>5. Compared'
  <2> SUFFICES ASSUME NEW q \in Proc, pc[q] \in Committed, q \notin blind,
                      job[q].sig \notin raced'[q], file'[job[q].sig] \in Entry
               PROVE  Better(job[q].entry, file'[job[q].sig])
    BY DEF Compared
  <2>1. q # p /\ pc[q] # "idle"
    BY DEF Recording, Committed
  <2>2. job[q].sig \in Signature
    BY DEF TypeOK, Recording, NoJob
  <2>3. job[q].sig \notin raced[q] /\ file[job[q].sig] = file'[job[q].sig]
    BY <2>1, <2>2, CorpusAssumption DEF TypeOK
  <2> QED BY <2>3 DEF Compared
<1> QED BY <1>2, <1>3, <1>4, <1>5

\* Every step of every process keeps the invariant.
LEMMA StepInv ==
    ASSUME Inv, [Next]_vars
    PROVE  Inv'
<1>1. CASE UNCHANGED vars
  BY <1>1 DEF vars, Inv, TypeOK, Tidy, Ready, Compared, Loaded
<1>2. ASSUME NEW p \in Proc, Record(p) PROVE Inv'
  <2>1. PICK s \in Signature, e \in Entry : job' = [job EXCEPT ![p] = [sig |-> s, entry |-> e]]
    BY <1>2 DEF Record
  <2> DEFINE j == [sig |-> s, entry |-> e]
  <2>3. j \in [sig : Signature, entry : Entry] /\ job' = [job EXCEPT ![p] = j]
    BY <2>1
  <2>4. j # NoJob
    <3>1. NoJob \notin [sig : Signature, entry : Entry]
      BY CorpusAssumption DEF NoJob
    <3> QED BY <3>1, <2>3
  <2> HIDE DEF j
  <2>5. TypeOK'
    BY <1>2, <2>3, <2>4 DEF Record, Inv, TypeOK, Loaded, Recording, Committed
  <2>2. Tidy' /\ Ready' /\ Compared'
    BY <1>2 DEF Record, Inv, TypeOK, Tidy, Ready, Compared, Committed
  <2> QED BY <2>5, <2>2 DEF Inv
<1>3. ASSUME NEW p \in Proc, Decline(p) PROVE Inv'
  BY <1>3, FinishTyped DEF Decline
<1>4. ASSUME NEW p \in Proc, Proceed(p) PROVE Inv'
  <2>1. TypeOK'
    BY <1>4 DEF Proceed, Inv, TypeOK, Loaded, Recording, Committed
  <2>2. Tidy' /\ Ready'
    BY <1>4 DEF Proceed, Inv, TypeOK, Tidy, Ready, Committed
  <2>3. Compared'
    <3> SUFFICES ASSUME NEW q \in Proc, pc'[q] \in Committed, q \notin blind',
                        job[q].sig \notin raced[q], file[job[q].sig] \in Entry
                 PROVE  Better(job[q].entry, file[job[q].sig])
      BY <1>4 DEF Compared, Proceed
    <3>1. CASE q = p
      BY <1>4, <3>1 DEF Proceed, Worthless
    <3>2. CASE q # p
      BY <1>4, <3>2 DEF Proceed, Inv, TypeOK, Compared
    <3> QED BY <3>1, <3>2
  <2> QED BY <2>1, <2>2, <2>3 DEF Inv
<1>5. ASSUME NEW p \in Proc, Open(p) PROVE Inv'
  <2>1. TypeOK'
    BY <1>5 DEF Open, Inv, TypeOK, Loaded, Recording, Committed, Content
  <2>2. Tidy' /\ Ready' /\ Compared'
    BY <1>5 DEF Open, Inv, TypeOK, Tidy, Ready, Compared, Committed
  <2> QED BY <2>1, <2>2 DEF Inv
<1>6. ASSUME NEW p \in Proc, Write(p) PROVE Inv'
  <2>1. job[p].entry \in Content
    BY <1>6 DEF Write, Inv, TypeOK, Recording, Committed, Content, NoJob
  <2>2. TypeOK'
    BY <1>6, <2>1 DEF Write, Inv, TypeOK, Loaded, Recording, Committed
  <2>3. Tidy' /\ Ready' /\ Compared'
    BY <1>6 DEF Write, Inv, TypeOK, Tidy, Ready, Compared, Committed
  <2> QED BY <2>2, <2>3 DEF Inv
<1>7. ASSUME NEW p \in Proc, Replace(p) PROVE Inv'
  <2> USE <1>7 DEF Replace, Finish, Disturb, Inv
  <2>1. TypeOK'
    BY CorpusAssumption
       DEF TypeOK, Content, Nowhere, NoJob, Loaded, Recording, Committed, Signature
  <2>2. Tidy' /\ Ready'
    BY DEF TypeOK, Tidy, Ready, Committed
  <2>3. Compared'
    <3> SUFFICES ASSUME NEW q \in Proc, pc'[q] \in Committed, q \notin blind',
                        job'[q].sig \notin raced'[q], file'[job'[q].sig] \in Entry
                 PROVE  Better(job'[q].entry, file'[job'[q].sig])
      BY DEF Compared
    <3>1. q # p /\ pc[q] \in Committed /\ pc[q] # "idle" /\ job'[q] = job[q] /\ q \notin blind
      BY DEF TypeOK, Committed
    <3>2. job[q].sig \in Signature /\ job[q].sig # job[p].sig /\ job[q].sig \notin raced[q]
      BY <3>1 DEF TypeOK, Recording, NoJob
    <3>3. file'[job[q].sig] = file[job[q].sig]
      BY <3>2 DEF TypeOK
    <3> QED BY <3>1, <3>2, <3>3 DEF Compared
  <2> QED BY <2>1, <2>2, <2>3
<1>8. ASSUME NEW p \in Proc, Fail(p) PROVE Inv'
  BY <1>8, FinishTyped DEF Fail
<1>9. ASSUME NEW p \in Proc, List(p) PROVE Inv'
  <2>1. TypeOK'
    BY <1>9 DEF List, Inv, TypeOK, Loaded, Recording, Committed
  <2>2. Tidy' /\ Ready' /\ Compared'
    BY <1>9 DEF List, Inv, TypeOK, Tidy, Ready, Compared, Committed
  <2> QED BY <2>1, <2>2 DEF Inv
<1>10. ASSUME NEW p \in Proc, Read(p) PROVE Inv'
  <2>1. PICK s \in paths[p] :
           /\ paths' = [paths EXCEPT ![p] = @ \ {s}]
           /\ loaded' = [loaded EXCEPT ![p][s] = IF file[s] \in Entry THEN file[s] ELSE NoFile]
    BY <1>10 DEF Read
  <2>2. s \in Signature /\ paths' \in [Proc -> SUBSET Signature]
    BY <2>1 DEF Inv, TypeOK
  <2>3. loaded' \in [Proc -> [Signature -> Entry \cup {NoFile}]]
    BY <2>1, <2>2 DEF Inv, TypeOK
  <2>4. \A q \in Proc : victims[q] \subseteq Loaded(q)'
    <3>1. ASSUME NEW q \in Proc, q # p PROVE victims[q] \subseteq Loaded(q)'
      BY <2>1, <3>1 DEF Inv, TypeOK, Loaded
    <3>2. victims[p] = {}
      BY <1>10 DEF Read, Inv, Tidy
    <3> QED BY <3>1, <3>2
  <2>5. TypeOK'
    BY <1>10, <2>2, <2>3, <2>4 DEF Read, Inv, TypeOK
  <2>6. Tidy' /\ Ready' /\ Compared'
    BY <1>10 DEF Read, Inv, Tidy, Ready, Compared
  <2> QED BY <2>5, <2>6 DEF Inv
<1>11. ASSUME NEW p \in Proc, EndLoad(p) PROVE Inv'
  <2>1. TypeOK'
    BY <1>11 DEF EndLoad, Inv, TypeOK, Loaded, Recording, Committed
  <2>2. Tidy' /\ Ready' /\ Compared'
    BY <1>11 DEF EndLoad, Inv, TypeOK, Tidy, Ready, Compared, Committed
  <2> QED BY <2>1, <2>2 DEF Inv
<1>12. ASSUME NEW p \in Proc, EndSift(p) PROVE Inv'
  <2>1. Excess(p) \subseteq Loaded(p) /\ Loaded(p) \subseteq Signature
    BY DEF Excess, Loaded
  <2>2. TypeOK'
    BY <1>12, <2>1 DEF EndSift, Inv, TypeOK, Loaded, Recording, Committed
  <2>3. Tidy' /\ Ready' /\ Compared'
    BY <1>12 DEF EndSift, Inv, TypeOK, Tidy, Ready, Compared, Committed
  <2> QED BY <2>2, <2>3 DEF Inv
<1>13. ASSUME NEW p \in Proc, Retire(p) PROVE Inv'
  <2>1. PICK s \in Loaded(p) :
           Unlink(p, s) /\ loaded' = [loaded EXCEPT ![p][s] = NoFile]
    BY <1>13 DEF Retire
  <2>2. s \in Signature
    BY <2>1 DEF Loaded
  <2>3. loaded' \in [Proc -> [Signature -> Entry \cup {NoFile}]]
    BY <2>1, <2>2 DEF Inv, TypeOK
  <2>4. \A q \in Proc : victims[q] \subseteq Loaded(q)'
    <3>1. ASSUME NEW q \in Proc, q # p PROVE victims[q] \subseteq Loaded(q)'
      BY <2>1, <3>1 DEF Inv, TypeOK, Loaded
    <3>2. victims[p] = {}
      BY <1>13 DEF Retire, Inv, Tidy
    <3> QED BY <3>1, <3>2
  <2>5. pc[p] \notin Recording
    BY <1>13 DEF Retire, Recording, Committed
  <2>6. victims' = victims /\ victims \in [Proc -> SUBSET Signature]
        /\ UNCHANGED <<pc, job, temp, paths, blind>>
    BY <1>13 DEF Retire, Inv, TypeOK
  <2> QED BY <2>1, <2>2, <2>3, <2>4, <2>5, <2>6, UnlinkTyped
<1>14. ASSUME NEW p \in Proc, Prune(p) PROVE Inv'
  <2>1. PICK s \in victims[p] :
           Unlink(p, s) /\ victims' = [victims EXCEPT ![p] = @ \ {s}]
    BY <1>14 DEF Prune
  <2>2. s \in Signature /\ victims' \in [Proc -> SUBSET Signature]
        /\ \A q \in Proc : victims'[q] \subseteq victims[q]
    BY <2>1 DEF Inv, TypeOK
  <2>3. UNCHANGED <<pc, job, temp, paths, loaded, blind>> /\ pc[p] \notin Recording
    BY <1>14 DEF Prune, Recording, Committed
  <2>4. \A q \in Proc : victims'[q] \subseteq Loaded(q)'
    BY <2>2, <2>3 DEF Inv, TypeOK, Loaded
  <2>5. loaded' \in [Proc -> [Signature -> Entry \cup {NoFile}]]
    BY <2>3 DEF Inv, TypeOK
  <2> QED BY <2>1, <2>2, <2>3, <2>4, <2>5, UnlinkTyped
<1>15. ASSUME NEW p \in Proc, Leave(p) PROVE Inv'
  BY <1>15, FinishTyped DEF Leave
<1>16. ASSUME NEW p \in Proc, Crash(p) PROVE Inv'
  BY <1>16, FinishTyped DEF Crash
<1> QED BY <1>1, <1>2, <1>3, <1>4, <1>5, <1>6, <1>7, <1>8, <1>9, <1>10, <1>11, <1>12, <1>13,
           <1>14, <1>15, <1>16 DEF Next

\* The inductive invariant holds whatever the processes do, crash or fail at.
THEOREM InvAlways == Spec => []Inv
<1>1. Inv /\ [Next]_vars => Inv'
  BY StepInv
<1> QED BY <1>1, InitInv, PTL DEF Spec

\* Every variable of the corpus keeps its type.
THEOREM TypeCorrect == Spec => []TypeOK
<1>1. Inv => TypeOK
  BY DEF Inv
<1> QED BY <1>1, InvAlways, PTL

----------------------------------------------------------------------------
(* Action properties *)

\* Which files a step may change, and to what.
LEMMA FileEffect ==
    ASSUME Inv, [Next]_vars, NEW s \in Signature, file'[s] # file[s]
    PROVE  \/ file'[s] = NoFile
           \/ \E p \in Proc : Replace(p) /\ job[p].sig = s /\ file'[s] = job[p].entry
<1>1. file \in [Signature -> Content]
  BY DEF Inv, TypeOK
<1>2. PICK p \in Proc : \/ Replace(p)
                        \/ \E t \in Signature : Unlink(p, t)
  <2>1. ASSUME NEW q \in Proc, Retire(q) PROVE \E t \in Signature : Unlink(q, t)
    BY <2>1 DEF Retire, Loaded
  <2>2. ASSUME NEW q \in Proc, Prune(q) PROVE \E t \in Signature : Unlink(q, t)
    BY <2>2 DEF Prune, Inv, TypeOK
  <2> QED BY <2>1, <2>2 DEF Next, vars, Record, Decline, Proceed, Open, Write, Fail, List, Read,
             EndLoad, EndSift, Leave, Crash
<1>3. CASE Replace(p)
  <2>1. pc[p] = "replacing" /\ file' = [file EXCEPT ![job[p].sig] = temp[p]]
    BY <1>3 DEF Replace
  <2>2. job[p].sig = s /\ file'[s] = temp[p]
    BY <1>1, <2>1
  <2>3. temp[p] = job[p].entry
    BY <2>1 DEF Inv, Ready
  <2> QED BY <1>3, <2>2, <2>3
<1>4. CASE \E t \in Signature : Unlink(p, t)
  <2>1. PICK t \in Signature : Unlink(p, t)
    BY <1>4
  <2>2. file' = [file EXCEPT ![t] = NoFile] \/ file' = file
    BY <2>1 DEF Unlink
  <2> QED BY <1>1, <2>2
<1> QED BY <1>2, <1>3, <1>4

\* No step, not even one that fails or is cut off by a crash, leaves a file that
\* load would find broken.
THEOREM NeverTornAlways == Spec => NeverTorn
<1>1. Inv /\ [Next]_vars => [\A s \in Signature : file'[s] = Corrupt => file[s] = Corrupt]_file
  <2> SUFFICES ASSUME Inv, [Next]_vars, NEW s \in Signature, file'[s] = Corrupt, file[s] # Corrupt
               PROVE  FALSE
    OBVIOUS
  <2>1. file'[s] # NoFile
    BY CorpusAssumption
  <2>2. PICK p \in Proc : Replace(p) /\ file'[s] = job[p].entry
    BY <2>1, FileEffect
  <2>3. job[p].entry \in Entry
    BY <2>2 DEF Replace, Inv, TypeOK, Recording, Committed, NoJob
  <2> QED BY <2>2, <2>3, CorpusAssumption
<1> QED BY <1>1, InvAlways, PTL DEF NeverTorn, Spec

\* Without a race and without a read error, an exemplar gives way to a strictly
\* better one only.
THEOREM BetterUnlessRacedAlways == Spec => BetterUnlessRaced
<1> DEFINE A == \A p \in Proc : \A s \in Signature :
                   /\ pc[p] = "replacing" /\ job[p].sig = s
                   /\ file[s] \in Entry /\ file'[s] # file[s] /\ file'[s] \in Entry
                   /\ p \notin blind /\ s \notin raced[p] /\ pc'[p] = "idle"
                   => Better(file'[s], file[s])
<1>1. Inv /\ [Next]_vars => [A]_vars
  <2> SUFFICES ASSUME Inv, [Next]_vars, NEW p \in Proc, NEW s \in Signature,
                      pc[p] = "replacing", job[p].sig = s,
                      file[s] \in Entry, file'[s] # file[s], file'[s] \in Entry,
                      p \notin blind, s \notin raced[p], pc'[p] = "idle"
               PROVE  Better(file'[s], file[s])
    OBVIOUS
  <2>1. PICK q \in Proc : Replace(q) /\ job[q].sig = s /\ file'[s] = job[q].entry
    BY FileEffect, CorpusAssumption
  <2>2. q = p
    BY <2>1 DEF Replace, Finish, Inv, TypeOK
  <2> QED BY <2>1, <2>2 DEF Inv, Compared, Committed
<1> QED BY <1>1, InvAlways, PTL DEF BetterUnlessRaced, Spec

----------------------------------------------------------------------------
(* Refinement *)

stored   == [s \in Signature |-> IF file[s] \in Entry THEN file[s] ELSE NoFile]
intended == [p \in Proc |-> IF pc[p] \in Committed THEN job[p] ELSE NoFile]

\* What a step of a process amounts to for those who only load.
LEMMA StoreStep ==
    ASSUME Inv, Next
    PROVE  Store!SNext \/ UNCHANGED <<stored, intended, blind>>
<1> DEFINE Drops(p) == /\ intended' = [intended EXCEPT ![p] = NoFile]
                       /\ blind' = blind \ {p}
<1>1. ASSUME NEW p \in Proc, Finish(p)
      PROVE  Drops(p) /\ (pc[p] \notin Committed => UNCHANGED <<intended, blind>>)
  <2>1. /\ pc' = [pc EXCEPT ![p] = "idle"] /\ job' = [job EXCEPT ![p] = NoJob]
        /\ blind' = blind \ {p}
    BY <1>1 DEF Finish
  <2>2. Drops(p)
    BY <2>1 DEF intended, Committed, Inv, TypeOK
  <2>3. pc[p] \notin Committed => UNCHANGED <<intended, blind>>
    BY <2>1 DEF intended, Committed, Inv, TypeOK, Tidy
  <2> QED BY <2>2, <2>3
<1>2. ASSUME NEW p \in Proc, pc[p] \in Committed
      PROVE  intended[p] = job[p] /\ job[p] # NoFile
             /\ job[p] \in [sig : Signature, entry : Entry]
  BY <1>2 DEF intended, Inv, TypeOK, Recording, NoJob
<1>3. ASSUME NEW p \in Proc, Finish(p), UNCHANGED file
      PROVE  Store!SNext \/ UNCHANGED <<stored, intended, blind>>
  <2>1. UNCHANGED stored
    BY <1>3 DEF stored
  <2>2. CASE pc[p] \in Committed
    <3>1. Store!GiveUp(p)
      BY <1>1, <1>2, <1>3, <2>1, <2>2 DEF Store!GiveUp, Store!Drop, stored, intended
    <3> QED BY <3>1 DEF Store!SNext
  <2>3. CASE pc[p] \notin Committed
    BY <1>1, <1>3, <2>1, <2>3
  <2> QED BY <2>2, <2>3
<1>4. ASSUME NEW p \in Proc, NEW s \in Signature, Unlink(p, s),
             UNCHANGED <<pc, job, blind>>
      PROVE  Store!SNext \/ UNCHANGED <<stored, intended, blind>>
  <2>1. UNCHANGED <<intended, blind>>
    BY <1>4 DEF intended
  <2>2. CASE file' = [file EXCEPT ![s] = NoFile]
    <3>1. stored' = [stored EXCEPT ![s] = NoFile]
      BY <2>2, CorpusAssumption DEF stored, Inv, TypeOK
    <3>2. Store!Remove(s)
      BY <2>1, <3>1 DEF Store!Remove, stored, intended
    <3> QED BY <3>2 DEF Store!SNext
  <2>3. CASE file' = file
    BY <2>1, <2>3 DEF stored
  <2> QED BY <1>4, <2>2, <2>3 DEF Unlink
<1>5. PICK p \in Proc :
        \/ Record(p) \/ Decline(p) \/ Proceed(p) \/ Open(p) \/ Write(p) \/ Replace(p) \/ Fail(p)
        \/ List(p) \/ Read(p) \/ EndLoad(p) \/ EndSift(p) \/ Retire(p) \/ Prune(p) \/ Leave(p)
        \/ Crash(p)
  BY DEF Next
<1>6. CASE Proceed(p)
  <2>1. /\ pc[p] = "checking" /\ pc' = [pc EXCEPT ![p] = "opening"]
        /\ UNCHANGED <<file, job>>
        /\ job[p] \in [sig : Signature, entry : Entry]
    BY <1>6 DEF Proceed, Inv, TypeOK, Recording, NoJob
  <2>2. PICK s \in Signature, e \in Entry : job[p] = [sig |-> s, entry |-> e]
    BY <2>1
  <2>3. /\ intended[p] = NoFile /\ intended' = [intended EXCEPT ![p] = [sig |-> s, entry |-> e]]
        /\ UNCHANGED stored
    BY <2>1, <2>2 DEF intended, stored, Committed, Inv, TypeOK
  <2>4. CASE blind' = blind \cup {p}
    <3>1. Store!DecideUnread(p, s, e)
      BY <2>3, <2>4 DEF Store!DecideUnread, stored, intended
    <3> QED BY <3>1 DEF Store!SNext
  <2>5. CASE ~Worthless(p) /\ UNCHANGED blind
    <3>1. stored[s] # NoFile => Better(e, stored[s])
      BY <2>2, <2>5 DEF Worthless, stored
    <3>2. Store!Decide(p, s, e)
      BY <2>3, <2>5, <3>1 DEF Store!Decide, Store!Better, Better, stored, intended
    <3> QED BY <3>2 DEF Store!SNext
  <2> QED BY <1>6, <2>4, <2>5 DEF Proceed
<1>7. CASE Replace(p)
  <2>1. /\ pc[p] \in Committed /\ Finish(p)
        /\ file' = [file EXCEPT ![job[p].sig] = job[p].entry]
    BY <1>7 DEF Replace, Committed, Inv, Ready
  <2>2. stored' = [stored EXCEPT ![job[p].sig] = job[p].entry]
    BY <1>2, <2>1 DEF stored, Inv, TypeOK
  <2>3. Store!Put(p)
    BY <1>1, <1>2, <2>1, <2>2 DEF Store!Put, Store!Drop, stored, intended
  <2> QED BY <2>3 DEF Store!SNext
<1>8. CASE Retire(p)
  BY <1>4, <1>8 DEF Retire, Loaded
<1>9. CASE Prune(p)
  BY <1>4, <1>9 DEF Prune, Inv, TypeOK
<1>10. CASE Decline(p) \/ Fail(p) \/ Leave(p) \/ Crash(p)
  BY <1>3, <1>10 DEF Decline, Fail, Leave, Crash
<1>11. CASE Record(p) \/ Open(p) \/ Write(p) \/ List(p) \/ Read(p) \/ EndLoad(p) \/ EndSift(p)
  <2>1. UNCHANGED <<file, blind>>
    BY <1>11 DEF Record, Open, Write, List, Read, EndLoad, EndSift
  <2>2. UNCHANGED intended
    <3>1. CASE Record(p)
      BY <3>1 DEF Record, intended, Committed, Inv, TypeOK
    <3>2. CASE Open(p) \/ Write(p)
      BY <3>2 DEF Open, Write, intended, Committed, Inv, TypeOK
    <3>3. CASE List(p) \/ Read(p) \/ EndLoad(p) \/ EndSift(p)
      BY <3>3 DEF List, Read, EndLoad, EndSift, intended, Committed, Inv, TypeOK
    <3> QED BY <1>11, <3>1, <3>2, <3>3
  <2> QED BY <2>1, <2>2 DEF stored
<1> QED BY <1>5, <1>6, <1>7, <1>8, <1>9, <1>10, <1>11

\* Seen through load, the directory is the abstract store, for any number of
\* processes and whatever crashes and I/O errors happen.
THEOREM ImplementsStoreAlways == Spec => ImplementsStore
<1>1. Init => Store!SInit
  BY DEF Init, Store!SInit, Committed
<1>2. Inv /\ [Next]_vars => [Store!SNext]_(Store!svars)
  <2> SUFFICES ASSUME Inv, [Next]_vars PROVE Store!SNext \/ UNCHANGED <<stored, intended, blind>>
    BY DEF Store!svars, stored, intended
  <2>1. CASE Next
    BY <2>1, StoreStep
  <2>2. CASE UNCHANGED vars
    BY <2>2 DEF vars, stored, intended
  <2> QED BY <2>1, <2>2
<1> QED BY <1>1, <1>2, InvAlways, PTL DEF ImplementsStore, Store!SSpec, Spec


----------------------------------------------------------------------------
(* Prune *)

\* What an undisturbed prune knows of the directory: the entries it has read are
\* stored until it forgets them, and it forgets only those in excess.
SiftKnows(p) ==
    /\ pc[p] \in {"idle"} \cup Recording => loaded[p] = Nowhere
    /\ pc[p] = "sifting" /\ raced[p] = {} => \A s \in Loaded(p) : file[s] \in Entry
    /\ pc[p] = "pruning" =>
           /\ victims[p] \subseteq Excess(p)
           /\ raced[p] = {} => \A s \in Loaded(p) \ Excess(p) : file[s] \in Entry

\* The step of one process.
Step(p) ==
    \/ Record(p) \/ Decline(p) \/ Proceed(p) \/ Open(p) \/ Write(p) \/ Replace(p) \/ Fail(p)
    \/ List(p) \/ Read(p) \/ EndLoad(p) \/ EndSift(p) \/ Retire(p) \/ Prune(p) \/ Leave(p)
    \/ Crash(p)

\* Another process keeps what it holds, and any file that changed is in its history.
LEMMA OthersStay ==
    ASSUME Inv, NEW p \in Proc, Step(p), NEW r \in Proc, r # p
    PROVE  /\ pc'[r] = pc[r] /\ loaded'[r] = loaded[r] /\ victims'[r] = victims[r]
           /\ pc[r] # "idle" /\ raced'[r] = {} =>
                  raced[r] = {} /\ \A s \in Signature : file'[s] = file[s]
<1>1. /\ pc \in [Proc -> Recording \cup {"idle", "loading", "sifting", "replaying", "pruning"}]
      /\ loaded \in [Proc -> [Signature -> Entry \cup {NoFile}]]
      /\ victims \in [Proc -> SUBSET Signature] /\ raced \in [Proc -> SUBSET Signature]
      /\ file \in [Signature -> Content]
  BY DEF Inv, TypeOK
<1>2. pc'[r] = pc[r] /\ loaded'[r] = loaded[r] /\ victims'[r] = victims[r]
  BY <1>1 DEF Step, Record, Decline, Proceed, Open, Write, Replace, Fail, List, Read, EndLoad,
         EndSift, Retire, Prune, Leave, Crash, Finish
<1>3. ASSUME pc[r] # "idle", raced'[r] = {}, NEW s \in Signature, Disturb(p, s)
      PROVE  FALSE
  BY <1>3 DEF Disturb
<1>4. ASSUME pc[r] # "idle", raced'[r] = {}, NEW s \in Signature, Unlink(p, s)
      PROVE  raced[r] = {} /\ \A t \in Signature : file'[t] = file[t]
  BY <1>1, <1>3, <1>4 DEF Unlink
<1>5. ASSUME pc[r] # "idle", raced'[r] = {}
      PROVE  raced[r] = {} /\ \A t \in Signature : file'[t] = file[t]
  <2>1. CASE Replace(p)
    <3>1. job[p].sig \in Signature
      BY <2>1 DEF Replace, Inv, TypeOK, Recording, Committed, NoJob
    <3> QED BY <1>3, <1>5, <2>1, <3>1 DEF Replace
  <2>2. CASE Retire(p)
    BY <1>4, <1>5, <2>2 DEF Retire, Loaded
  <2>3. CASE Prune(p)
    <3>1. victims[p] \subseteq Signature
      BY <1>1
    <3> QED BY <1>4, <1>5, <2>3, <3>1 DEF Prune
  <2>4. CASE file' = file /\ (raced' = raced \/ raced' = [raced EXCEPT ![p] = {}])
    BY <1>1, <1>5, <2>4
  <2> QED BY <2>1, <2>2, <2>3, <2>4 DEF Step, Record, Decline, Proceed, Open, Write, Fail,
             List, Read, EndLoad, EndSift, Leave, Crash
<1> QED BY <1>2, <1>5

\* Nor does its own step surprise it.
LEMMA OwnStep ==
    ASSUME Inv, NEW p \in Proc, SiftKnows(p), Step(p)
    PROVE  SiftKnows(p)'
<1>1. /\ pc \in [Proc -> Recording \cup {"idle", "loading", "sifting", "replaying", "pruning"}]
      /\ loaded \in [Proc -> [Signature -> Entry \cup {NoFile}]]
      /\ victims \in [Proc -> SUBSET Signature] /\ raced \in [Proc -> SUBSET Signature]
      /\ file \in [Signature -> Content] /\ paths \in [Proc -> SUBSET Signature]
  BY DEF Inv, TypeOK
<1>2. NoFile \notin Entry
  BY CorpusAssumption
<1>3. CASE Decline(p) \/ Replace(p) \/ Fail(p) \/ Leave(p) \/ Crash(p)
  <2>1. pc'[p] = "idle" /\ loaded'[p] = Nowhere
    BY <1>1, <1>3 DEF Decline, Replace, Fail, Leave, Crash, Finish
  <2> QED BY <2>1 DEF SiftKnows
<1>4. CASE Record(p) \/ Proceed(p) \/ Open(p) \/ Write(p)
  <2>1. pc'[p] \in Recording /\ pc[p] \in {"idle"} \cup Recording /\ loaded' = loaded
    BY <1>1, <1>4 DEF Record, Proceed, Open, Write, Recording, Committed
  <2>2. pc'[p] \notin {"sifting", "pruning"}
    BY <2>1 DEF Recording, Committed
  <2> QED BY <2>1, <2>2 DEF SiftKnows
<1>5. CASE List(p)
  <2>1. pc[p] = "idle" /\ pc'[p] \in {"loading", "sifting"} /\ loaded' = loaded
    BY <1>1, <1>5 DEF List
  <2>2. Loaded(p)' = {}
    BY <1>2, <2>1 DEF SiftKnows, Loaded, Nowhere
  <2> QED BY <2>1, <2>2 DEF SiftKnows, Recording, Committed
<1>6. CASE Read(p)
  <2>1. PICK s \in Signature :
            loaded' = [loaded EXCEPT ![p][s] = IF file[s] \in Entry THEN file[s] ELSE NoFile]
    BY <1>1, <1>6 DEF Read
  <2>2. pc[p] \in {"loading", "sifting"} /\ UNCHANGED <<file, pc, raced>>
    BY <1>6 DEF Read
  <2>3. \A t \in Signature :
            loaded'[p][t] = IF t = s THEN IF file[s] \in Entry THEN file[s] ELSE NoFile
                                     ELSE loaded[p][t]
    BY <1>1, <2>1
  <2>4. \A t \in Loaded(p)' : t \in Loaded(p) \/ file[t] \in Entry
    BY <1>2, <2>3 DEF Loaded
  <2> QED BY <2>2, <2>4 DEF SiftKnows, Recording, Committed
<1>7. CASE EndLoad(p) \/ Retire(p)
  <2>1. pc'[p] = "replaying"
    BY <1>1, <1>7 DEF EndLoad, Retire
  <2> QED BY <2>1 DEF SiftKnows, Recording, Committed
<1>8. CASE EndSift(p)
  <2>1. /\ pc[p] = "sifting" /\ pc'[p] = "pruning" /\ victims'[p] = Excess(p)
        /\ UNCHANGED <<file, loaded, raced>>
    BY <1>1, <1>8 DEF EndSift
  <2>2. Excess(p)' = Excess(p) /\ Loaded(p)' = Loaded(p)
    BY <2>1 DEF Excess, Loaded, Before
  <2> QED BY <2>1, <2>2 DEF SiftKnows, Recording, Committed
<1>9. CASE Prune(p)
  <2>1. PICK s \in victims[p] : Unlink(p, s) /\ victims' = [victims EXCEPT ![p] = @ \ {s}]
    BY <1>9 DEF Prune
  <2>2. pc[p] = "pruning" /\ UNCHANGED <<pc, loaded>>
    BY <1>9 DEF Prune
  <2>3. Excess(p)' = Excess(p) /\ Loaded(p)' = Loaded(p)
    BY <2>2 DEF Excess, Loaded, Before
  <2>4. s \in Excess(p) /\ victims'[p] \subseteq Excess(p)
    BY <1>1, <2>1, <2>2 DEF SiftKnows
  <2>5. raced'[p] = raced[p]
    BY <1>1, <2>1 DEF Unlink, Disturb
  <2>6. \A t \in Signature \ {s} : file'[t] = file[t]
    BY <1>1, <2>1 DEF Unlink
  <2>7. \A t \in Loaded(p) \ Excess(p) : t \in Signature \ {s}
    BY <2>4 DEF Loaded
  <2> QED BY <2>2, <2>3, <2>4, <2>5, <2>6, <2>7 DEF SiftKnows, Recording, Committed
<1> QED BY <1>3, <1>4, <1>5, <1>6, <1>7, <1>8, <1>9 DEF Step

LEMMA SiftStep ==
    ASSUME Inv, [Next]_vars, \A p \in Proc : SiftKnows(p)
    PROVE  (\A p \in Proc : SiftKnows(p))'
<1> SUFFICES ASSUME NEW r \in Proc PROVE SiftKnows(r)'
  OBVIOUS
<1>1. CASE UNCHANGED vars
  BY <1>1 DEF vars, SiftKnows, Loaded, Excess, Before
<1>2. ASSUME NEW p \in Proc, Step(p) PROVE SiftKnows(r)'
  <2>1. CASE r = p
    BY <1>2, <2>1, OwnStep
  <2>2. CASE r # p
    <3>1. /\ pc'[r] = pc[r] /\ loaded'[r] = loaded[r] /\ victims'[r] = victims[r]
          /\ pc[r] # "idle" /\ raced'[r] = {} =>
                 raced[r] = {} /\ \A s \in Signature : file'[s] = file[s]
      BY <1>2, <2>2, OthersStay
    <3>2. Loaded(r)' = Loaded(r) /\ Excess(r)' = Excess(r)
      BY <3>1 DEF Loaded, Excess, Before
    <3>3. Loaded(r) \subseteq Signature
      BY DEF Loaded
    <3> QED BY <3>1, <3>2, <3>3 DEF SiftKnows
  <2> QED BY <2>1, <2>2
<1> QED BY <1>1, <1>2 DEF Next, Step


\* Among the entries in excess one comes first: the least signature of those
\* with the fewest deviations.
LEMMA FirstInExcess ==
    ASSUME Inv, NEW p \in Proc, Excess(p) # {}
    PROVE  \E s \in Excess(p) : \A t \in Excess(p) : ~Before(p, t, s)
<1> DEFINE dev(s) == loaded[p][s].deviations
           D == {n \in Nat : \E s \in Excess(p) : dev(s) = n}
<1>1. \A s \in Excess(p) : s \in Nat /\ dev(s) \in Nat
  BY CorpusAssumption DEF Excess, Loaded, Signature
<1>2. PICK d \in D : \A n \in D : d <= n
  BY <1>1, LeastNat
<1> DEFINE S == {n \in Nat : n \in Excess(p) /\ dev(n) = d}
<1>3. PICK s \in S : \A n \in S : s <= n
  BY <1>1, <1>2, LeastNat
<1>4. ASSUME NEW t \in Excess(p) PROVE ~Before(p, t, s)
  <2>1. dev(t) \in D /\ d <= dev(t)
    BY <1>1, <1>2
  <2>2. dev(t) = d => s <= t
    BY <1>1, <1>3
  <2> QED BY <1>1, <1>2, <1>3, <2>1, <2>2 DEF Before
<1> QED BY <1>3, <1>4

\* A prune that ends undisturbed leaves, of every entry it forgot, keep entries
\* that rank no worse.
LEMMA KeepRemain ==
    ASSUME Inv, NEW p \in Proc, SiftKnows(p),
           pc[p] = "pruning", raced[p] = {},
           NEW t \in Loaded(p), file[t] = NoFile
    PROVE  Cardinality({s \in Loaded(p) : /\ file[s] \in Entry
                                          /\ loaded[p][s].deviations
                                               <= loaded[p][t].deviations}) >= Keep
<1> DEFINE dev(s) == loaded[p][s].deviations
           Left == {s \in Loaded(p) : file[s] \in Entry /\ dev(s) <= dev(t)}
<1>1. t \in Excess(p)
  BY CorpusAssumption DEF SiftKnows
<1>2. PICK f \in Excess(p) : \A u \in Excess(p) : ~Before(p, u, f)
  BY <1>1, FirstInExcess
<1> DEFINE Ahead == {s \in Loaded(p) : Before(p, s, f)}
<1>3. \A s \in Loaded(p) : s \in Nat /\ dev(s) \in Nat
  BY CorpusAssumption DEF Loaded, Signature
<1>4. f \in Loaded(p) /\ Cardinality(Ahead) >= Keep
  BY DEF Excess
<1>5. dev(f) <= dev(t)
  BY <1>1, <1>2, <1>3, <1>4 DEF Before
<1>6. Ahead \subseteq Left
  <2> SUFFICES ASSUME NEW s \in Ahead PROVE s \in Left
    OBVIOUS
  <2>1. s \notin Excess(p)
    BY <1>2
  <2>2. file[s] \in Entry
    BY <2>1 DEF SiftKnows
  <2>3. dev(s) <= dev(f)
    BY <1>3, <1>4 DEF Before
  <2> QED BY <1>3, <1>4, <1>5, <2>2, <2>3
<1>7. IsFiniteSet(Left)
  <2>1. IsFiniteSet(Signature)
    BY CorpusAssumption, FS_Interval DEF Signature
  <2>2. Left \subseteq Signature
    BY DEF Loaded
  <2> QED BY <2>1, <2>2, FS_Subset
<1>8. Cardinality(Ahead) <= Cardinality(Left) /\ Cardinality(Ahead) \in Nat
  BY <1>6, <1>7, FS_Subset, FS_CardinalityType
<1>9. Cardinality(Left) \in Nat
  BY <1>7, FS_CardinalityType
<1>10. Cardinality(Left) >= Keep
  <2> HIDE DEF Ahead, Left
  <2> QED BY <1>4, <1>8, <1>9, CorpusAssumption
<1> QED BY <1>10

\* corpus.prune forgets in the order of rank and keeps the best: what an
\* undisturbed call removed was one of too many.
THEOREM PruneKeepsBestAlways == Spec => PruneKeepsBest
<1> DEFINE Known == \A p \in Proc : SiftKnows(p)
<1>1. Init => Known
  BY DEF Init, SiftKnows, Loaded
<1>2. Inv /\ Known /\ [Next]_vars => Known'
  BY SiftStep
<1>3. Inv /\ Known /\ [Next]_vars =>
        [\A p \in Proc :
           pc[p] = "pruning" /\ victims[p] = {} /\ pc'[p] = "idle" /\ raced[p] = {} =>
               \A t \in Loaded(p) : file[t] = NoFile =>
                   Cardinality({s \in Loaded(p) : /\ file[s] \in Entry
                                                  /\ loaded[p][s].deviations
                                                       <= loaded[p][t].deviations}) >= Keep]_vars
  BY KeepRemain
<1> HIDE DEF Known
<1> QED BY <1>1, <1>2, <1>3, InvAlways, PTL DEF Spec, PruneKeepsBest

=============================================================================
