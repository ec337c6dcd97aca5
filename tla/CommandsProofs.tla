--------------------------- MODULE CommandsProofs ---------------------------
(***************************************************************************)
(* Proofs about Fuzz and Commands: one invocation of chaosloop on a corpus *)
(* of any size, for every value of the constants.                          *)
(***************************************************************************)
EXTENDS Commands, FiniteSetTheorems, TLAPS

----------------------------------------------------------------------------
(* The inductive invariant *)

\* Types, without the two counts of CommandsTypeOK.
SessionTypes ==
    /\ verdict \in [Schedule -> SUBSET Signature]
    /\ initial \in [Signature -> Schedule \cup {Nothing}]
    /\ store \in [Signature -> Schedule \cup {Nothing}]
    /\ queue \subseteq Signature /\ replays \in [Signature -> SUBSET Replay]
    /\ diverged \in Nat /\ failing \subseteq Run
    /\ seeds \in 0..Trials /\ fresh \in 0..seeds /\ todo \subseteq Signature
    /\ stopped \in {"none", "time_budget", "fail_fast", "trials"}
    /\ stage \in {"load", "corpus", "fresh", "shrink"} \cup Outcomes

CommandTypes ==
    /\ command \in {None, "fuzz", "run", "replay", "shrink", "test", "tested", "exit"}
    /\ options \in BOOLEAN
    /\ asked \subseteq Origins /\ waiting \subseteq asked /\ rows \subseteq Row
    /\ asked \ waiting = {row.origin : row \in rows}
    /\ code \in {Clean, Failed, Misused, Unloadable, Internal, Unknown, Interrupted}

\* Which half of the state a command uses: only fuzz has a session, only the
\* others try schedules that were asked for.  What still waits is untried.
Phases ==
    /\ command \in {None, "fuzz"} => asked = {}
    /\ command # "fuzz" => stage = "load" /\ failing = {} /\ queue = {} /\ diverged = 0
    /\ command \in {None, "fuzz"} /\ stage = "load" =>
           store = initial /\ \A g \in Signature : replays[g] = {}
    /\ \A g \in queue : initial[g] # Nothing /\ replays[g] = {}
    /\ \A o \in waiting \cap Signature : replays[o] = {}

\* A failure stops the session under fail_fast; each reason to stop has its stages.
StopReason ==
    /\ FailFast /\ failing # {} => stopped # "none"
    /\ stopped = "fail_fast" => failing # {}
    /\ stopped = "trials" => stage \notin {"load", "corpus", "fresh"}

\* A replay without a counted divergence was faithful, and one that was faithful
\* has passed if no trial failed.
ReplaysKnown ==
    command = "fuzz" =>
        \A g \in Signature : \A r \in replays[g] :
            /\ diverged = 0 => r.faithful
            /\ failing = {} /\ r.faithful => r.sigs = {}

\* Unless the session was stopped, every stored failure is replayed before the
\* first fresh seed.
ReplaysFirst ==
    /\ stage = "corpus" /\ stopped = "none" =>
           \A g \in Signature : initial[g] # Nothing => g \in queue \/ replays[g] # {}
    /\ stage \in {"fresh", "shrink"} /\ stopped \in {"none", "trials"} =>
           \A g \in Signature : initial[g] # Nothing => replays[g] # {}

\* Unless the session was stopped, every seed is tried before it is reported.
SeedsTried == stage = "shrink" /\ stopped \in {"none", "trials"} => fresh = seeds

SessionKnows == StopReason /\ ReplaysKnown /\ ReplaysFirst /\ SeedsTried /\ PassedIsClean

\* The corpus holds every failure of the session so far.
FailuresStored ==
    \A run \in failing : \A g \in run.sigs : store[g] # Nothing /\ store[g] <= run.made

\* The exit code so far says what the rows so far say.
CodeOfRows ==
    /\ code = Clean => \A row \in rows : row.trial.faithful /\ row.trial.sigs = {}
    /\ code = Failed => /\ \A row \in rows : row.trial.faithful
                        /\ \E row \in rows : row.trial.sigs # {}

\* Until a command ends its exit code is that of the rows.
CodeSoFar ==
    command \in {None, "run", "replay", "shrink", "test"} =>
        CodeOfRows /\ code \in {Clean, Failed, Unknown}

\* The commands of one schedule have it still before them; run may have it behind.
AskedFor ==
    /\ command = "run" => asked = {"seed"}
    /\ command \in {"shrink", "test"} => waiting = asked /\ \E o \in Origins : asked = {o}
    /\ command = "replay" /\ options => asked \subseteq Signature

\* Before shrink ends nothing is stored, and replay only forgets what it was asked
\* to try.
StoreSoFar ==
    /\ command \in {None, "run", "shrink", "test"} => store = initial
    /\ command = "replay" =>
           \A h \in Signature : \/ store[h] = initial[h]
                                \/ h \in asked /\ store[h] = Nothing

CommandKnows == CodeSoFar /\ AskedFor /\ StoreSoFar /\ CodeTells /\ ShrinkKeepsToEntry

CommandsInv ==
    SessionTypes /\ CommandTypes /\ Phases /\ SessionKnows /\ OldEvidenceKept /\ CommandKnows

----------------------------------------------------------------------------
(* The corpus *)

Stores == [Signature -> Schedule \cup {Nothing}]

\* Nothing is no schedule; schedules are numbers.
LEMMA Schedules ==
    /\ Nothing \notin Schedule /\ Schedule \subseteq Int
    /\ \A s \in Schedule : 0..s \subseteq Schedule
BY FuzzAssumption DEF Schedule

\* Corpus.record never loses an entry and never makes one worse.
LEMMA RecordEffect ==
    ASSUME NEW st \in Stores, NEW sigs \in SUBSET Signature, NEW s \in Schedule
    PROVE  /\ Record(st, sigs, s) \in Stores
           /\ \A g \in Signature \ sigs : Record(st, sigs, s)[g] = st[g]
           /\ \A g \in sigs : /\ Record(st, sigs, s)[g] # Nothing
                              /\ Record(st, sigs, s)[g] <= s
           /\ \A g \in Signature : st[g] # Nothing =>
                  /\ Record(st, sigs, s)[g] # Nothing
                  /\ Record(st, sigs, s)[g] <= st[g]
<1>1. /\ \A g \in Signature : st[g] \in Schedule \cup {Nothing}
      /\ s \in Schedule /\ s \in Int /\ s # Nothing
  BY Schedules DEF Stores
<1>2. \A g \in Signature :
          Record(st, sigs, s)[g] =
              IF g \in sigs /\ (st[g] = Nothing \/ s < st[g]) THEN s ELSE st[g]
  BY DEF Record
<1>3. Record(st, sigs, s) \in Stores
  BY <1>1 DEF Record, Stores
<1>4. \A g \in Signature : st[g] # Nothing => st[g] \in Int
  BY <1>1, Schedules
<1> QED BY <1>1, <1>2, <1>3, <1>4

\* Corpus.forget removes one entry and leaves the others.
LEMMA ForgetEffect ==
    ASSUME NEW st \in Stores, NEW g \in Signature
    PROVE  /\ Forget(st, g) \in Stores /\ Forget(st, g)[g] = Nothing
           /\ \A h \in Signature \ {g} : Forget(st, g)[h] = st[h]
BY DEF Forget, Stores

----------------------------------------------------------------------------
(* What the actions do to the session *)

Starting == StartFuzz \/ StartRun \/ StartReplay \/ StartShrink \/ StartTest

\* The steps of a session that try nothing and store nothing.
Bookkeeping ==
    TimeOut \/ Load \/ CorpusEnds \/ FreshEnds \/ Raise \/ PluginReports \/ CommandReports

\* A step of the command line, split into its actions.
LEMMA CommandCases ==
    ASSUME CommandNext
    PROVE  \/ Starting \/ RunTrial \/ ReplayRow \/ ShrinkSchedule \/ TestTrial
           \/ TrialRaises \/ Refuse \/ Exit
           \/ /\ command = "fuzz" /\ UNCHANGED commandVars
              /\ Bookkeeping \/ ReplayEntry \/ FreshTrial \/ ShrinkBucket
BY DEF CommandNext, FuzzStep, Next, Starting, Bookkeeping

\* One replay of a stored entry: unless it diverged, its failures are recorded,
\* and the entry is forgotten first when there are none.
LEMMA ReplayEntryEffect ==
    ASSUME SessionTypes, ReplayEntry
    PROVE  \E g \in queue, r \in Replay :
              /\ stage = "corpus" /\ stopped = "none"
              /\ queue' = queue \ {g}
              /\ replays' = [replays EXCEPT ![g] = {r}]
              /\ UNCHANGED <<verdict, initial, seeds, fresh, todo, stage>>
              /\ \/ /\ ~r.faithful /\ diverged' = diverged + 1
                    /\ UNCHANGED <<store, failing, stopped>>
                 \/ /\ r.faithful /\ r.sigs = {} /\ diverged' = diverged
                    /\ store' \in Stores /\ store'[g] = Nothing
                    /\ \A h \in Signature \ {g} : store'[h] = store[h]
                    /\ UNCHANGED <<failing, stopped>>
                 \/ /\ r.faithful /\ r.sigs # {} /\ diverged' = diverged
                    /\ store' = Record(store, r.sigs, r.made)
                    /\ failing' = failing \cup {[made |-> r.made, sigs |-> r.sigs]}
                    /\ stopped' = IF FailFast THEN "fail_fast" ELSE stopped
<1>1. PICK g \in queue, r \in Replay :
          /\ queue' = queue \ {g}
          /\ replays' = [replays EXCEPT ![g] = {r}]
          /\ IF r.faithful
             THEN /\ Accept(IF r.sigs = {} THEN Forget(store, g) ELSE store, r.made, r.sigs)
                  /\ UNCHANGED diverged
             ELSE diverged' = diverged + 1 /\ UNCHANGED <<store, failing, stopped>>
  BY DEF ReplayEntry, Faithful, Cleared
<1>2. /\ stage = "corpus" /\ stopped = "none"
      /\ UNCHANGED <<verdict, initial, seeds, fresh, todo, stage>>
  BY DEF ReplayEntry
<1>3. r.made \in Schedule /\ r.sigs \in SUBSET Signature /\ g \in Signature /\ store \in Stores
  BY DEF Replay, SessionTypes, Stores
<1>4. CASE ~r.faithful
  BY <1>1, <1>2, <1>4
<1>5. CASE r.faithful /\ r.sigs = {}
  <2>1. /\ store' = Record(Forget(store, g), {}, r.made)
        /\ UNCHANGED <<failing, stopped, diverged>>
    BY <1>1, <1>5 DEF Accept
  <2>2. Forget(store, g) \in Stores
    BY <1>3, ForgetEffect
  <2> DEFINE left == Forget(store, g)
  <2>3. {} \in SUBSET Signature /\ \A h \in Signature : h \in Signature \ {}
    OBVIOUS
  <2> HIDE DEF left
  <2>4. /\ Record(left, {}, r.made) \in Stores
        /\ \A h \in Signature : Record(left, {}, r.made)[h] = left[h]
    BY <1>3, <2>2, <2>3, RecordEffect DEF left
  <2>5. /\ store' \in Stores /\ store'[g] = Nothing
        /\ \A h \in Signature \ {g} : store'[h] = store[h]
    BY <1>3, <2>1, <2>4, ForgetEffect DEF left
  <2>6. queue' = queue \ {g} /\ replays' = [replays EXCEPT ![g] = {r}]
    BY <1>1
  <2>7. diverged' = diverged /\ UNCHANGED <<failing, stopped>>
    BY <2>1
  <2> QED BY <1>2, <1>5, <2>5, <2>6, <2>7
<1>6. CASE r.faithful /\ r.sigs # {}
  <2>1. /\ store' = Record(store, r.sigs, r.made) /\ UNCHANGED diverged
        /\ failing' = failing \cup {[made |-> r.made, sigs |-> r.sigs]}
        /\ stopped' = IF FailFast THEN "fail_fast" ELSE stopped
    BY <1>1, <1>6 DEF Accept
  <2> QED BY <1>1, <1>2, <1>6, <2>1
<1> QED BY <1>4, <1>5, <1>6

\* One fresh trial: its failures are recorded.
LEMMA FreshTrialEffect ==
    ASSUME SessionTypes, FreshTrial
    PROVE  \E made \in Schedule, sigs \in SUBSET Signature :
              /\ stage = "fresh" /\ stopped = "none"
              /\ fresh' = fresh + 1 /\ fresh < seeds
              /\ UNCHANGED <<verdict, initial, seeds, queue, replays, diverged, todo, stage>>
              /\ store' = Record(store, sigs, made)
              /\ \/ sigs = {} /\ UNCHANGED <<failing, stopped>>
                 \/ /\ sigs # {}
                    /\ failing' = failing \cup {[made |-> made, sigs |-> sigs]}
                    /\ stopped' = IF FailFast THEN "fail_fast" ELSE stopped
<1>1. PICK made \in Schedule : \E sigs \in FailuresOf(made) : Accept(store, made, sigs)
  BY DEF FreshTrial
<1>2. PICK sigs \in FailuresOf(made) : Accept(store, made, sigs)
  BY <1>1
<1>3. sigs \in SUBSET Signature
  BY DEF FailuresOf, SessionTypes
<1> QED BY <1>2, <1>3 DEF FreshTrial, SeedsLeft, Accept

\* One bucket shrunk: what is recorded is one simpler exemplar, or nothing.
LEMMA ShrinkBucketEffect ==
    ASSUME SessionTypes, ShrinkBucket
    PROVE  /\ stage = "shrink" /\ todo' \subseteq todo
           /\ UNCHANGED <<verdict, initial, seeds, queue, replays, diverged, failing, fresh,
                          stopped, stage>>
           /\ \/ UNCHANGED store
              \/ \E sigs \in SUBSET Signature, s \in Schedule : store' = Record(store, sigs, s)
<1>1. PICK g \in todo :
          /\ todo' = todo \ {g}
          /\ \/ \E run \in Exemplars(g) :
                   \E minimal \in {s \in 0..run.made : Flaky \/ g \in verdict[s]} :
                      store' = Record(store, {g}, minimal)
             \/ UNCHANGED store
  BY DEF ShrinkBucket
<1>2. ASSUME NEW run \in Exemplars(g), NEW minimal \in 0..run.made,
             store' = Record(store, {g}, minimal)
      PROVE  \E sigs \in SUBSET Signature, s \in Schedule : store' = Record(store, sigs, s)
  <2>1. run.made \in Schedule
    BY DEF Exemplars, SessionTypes, Run
  <2>2. minimal \in Schedule /\ {g} \in SUBSET Signature
    BY <2>1, Schedules DEF SessionTypes
  <2> QED BY <1>2, <2>2
<1> QED BY <1>1, <1>2 DEF ShrinkBucket

----------------------------------------------------------------------------
(* Types *)

\* A trial has a schedule, failures and a verdict on its faithfulness.
LEMMA TrialFields ==
    ASSUME NEW t \in Replay
    PROVE  t.made \in Schedule /\ t.sigs \in SUBSET Signature /\ t.faithful \in BOOLEAN
BY DEF Replay

\* The steps outside a session leave it alone, except for the corpus and the replays.
LEMMA Outside ==
    ASSUME Starting \/ RunTrial \/ ReplayRow \/ ShrinkSchedule \/ TestTrial
             \/ TrialRaises \/ Refuse \/ Exit
    PROVE  UNCHANGED <<verdict, initial, seeds, queue, diverged, failing, fresh, stopped, todo,
                       stage>>
BY DEF Starting, StartFuzz, StartRun, StartReplay, StartShrink, StartTest, Start, RunTrial,
       ReplayRow, ShrinkSchedule, TestTrial, TrialRaises, Refuse, Exit, untouched

\* Those that try no schedule change neither.
LEMMA OutsideIdle ==
    ASSUME Starting \/ TrialRaises \/ Refuse \/ Exit
    PROVE  UNCHANGED <<store, replays, rows>>
BY DEF Starting, StartFuzz, StartRun, StartReplay, StartShrink, StartTest, Start,
       TrialRaises, Refuse, Exit

\* The row of a schedule that was tried.
LEMMA TriedTypes ==
    ASSUME SessionTypes, CommandTypes, NEW o \in waiting, NEW t \in Replay, Tried(o, t)
    PROVE  /\ replays' \in [Signature -> SUBSET Replay]
           /\ \A g \in Signature : replays'[g] = IF g = o THEN {t} ELSE replays[g]
           /\ rows' \subseteq Row /\ waiting' \subseteq asked
           /\ rows' = rows \cup {[origin |-> o, trial |-> t]}
           /\ asked \ waiting' = {row.origin : row \in rows'}
<1>1. o \in Origins /\ [origin |-> o, trial |-> t] \in Row
  BY DEF CommandTypes, Row
<1>2. /\ replays' \in [Signature -> SUBSET Replay]
      /\ \A g \in Signature : replays'[g] = IF g = o THEN {t} ELSE replays[g]
  BY DEF Tried, SessionTypes
<1>3. /\ rows' = rows \cup {[origin |-> o, trial |-> t]} /\ waiting' = waiting \ {o}
  BY DEF Tried
<1>4. {row.origin : row \in rows'} = {row.origin : row \in rows} \cup {o}
  <2> DEFINE new == [origin |-> o, trial |-> t]
  <2>1. new.origin = o /\ rows' = rows \cup {new}
    BY <1>3
  <2> HIDE DEF new
  <2> QED BY <2>1
<1>5. asked \ waiting' = (asked \ waiting) \cup {o}
  BY <1>3 DEF CommandTypes
<1> QED BY <1>1, <1>2, <1>3, <1>4, <1>5 DEF CommandTypes

\* What a command does to the corpus.
LEMMA CommandStores ==
    ASSUME SessionTypes, CommandTypes,
           RunTrial \/ ReplayRow \/ ShrinkSchedule \/ TestTrial
    PROVE  \E o \in waiting, t \in Replay :
              /\ t \in TrialOf(o) /\ Tried(o, t)
              /\ \/ UNCHANGED store
                 \/ /\ ReplayRow /\ options /\ t.faithful /\ t.sigs = {}
                    /\ store' = Forget(store, o)
                 \/ /\ ShrinkSchedule /\ t.faithful
                    /\ \E g \in Targets(o, t) : \E s \in Schedule :
                          store' = Record(store, {g}, s)
<1>1. CASE RunTrial \/ TestTrial
  <2>1. PICK o \in waiting : \E t \in TrialOf(o) : Tried(o, t)
    BY <1>1 DEF RunTrial, TestTrial
  <2>2. UNCHANGED store
    BY <1>1 DEF RunTrial, TestTrial
  <2> QED BY <2>1, <2>2 DEF TrialOf
<1>2. CASE ReplayRow
  <2>1. PICK o \in waiting : \E t \in TrialOf(o) :
            /\ Tried(o, t)
            /\ store' = IF options /\ Status(t) = Clean THEN Forget(store, o) ELSE store
    BY <1>2 DEF ReplayRow
  <2>2. PICK t \in TrialOf(o) :
            /\ Tried(o, t)
            /\ store' = IF options /\ Status(t) = Clean THEN Forget(store, o) ELSE store
    BY <2>1
  <2>3. Status(t) = Clean => t.faithful /\ t.sigs = {}
    BY DEF Status, Clean, Failed, Unknown
  <2> QED BY <1>2, <2>2, <2>3 DEF TrialOf
<1>3. CASE ShrinkSchedule
  <2>1. PICK o \in waiting, t \in Replay :
            /\ t \in TrialOf(o) /\ Tried(o, t)
            /\ \/ UNCHANGED store
               \/ /\ Status(t) = Failed
                  /\ \E g \in Targets(o, t) : \E minimal \in 0..t.made :
                        store' \in {store, IF options THEN Record(store, {g}, minimal) ELSE store}
    BY <1>3 DEF ShrinkSchedule, TrialOf
  <2>2. t.made \in Schedule
    BY TrialFields
  <2>3. 0..t.made \subseteq Schedule
    BY <2>2, Schedules
  <2>4. Status(t) = Failed => t.faithful
    BY DEF Status, Failed, Unknown
  <2> QED BY <1>3, <2>1, <2>2, <2>3, <2>4
<1> QED BY <1>1, <1>2, <1>3

\* Nothing changes.
LEMMA Stuttering ==
    ASSUME UNCHANGED allVars
    PROVE  UNCHANGED <<verdict, initial, seeds, store, queue, replays, diverged, failing, fresh,
                       stopped, todo, stage, command, options, asked, waiting, rows, code>>
BY DEF allVars, vars, sessionVars, commandVars

\* Every step keeps the types of the session.
LEMMA SessionTypesStep ==
    ASSUME SessionTypes, CommandTypes, CommandKnows, [CommandNext]_allVars
    PROVE  SessionTypes'
<1>1. CASE Starting \/ TrialRaises \/ Refuse \/ Exit
  BY <1>1, Outside, OutsideIdle DEF SessionTypes
<1>2. CASE RunTrial \/ ReplayRow \/ ShrinkSchedule \/ TestTrial
  <2>1. PICK o \in waiting, t \in Replay :
              /\ t \in TrialOf(o) /\ Tried(o, t)
              /\ \/ UNCHANGED store
                 \/ /\ ReplayRow /\ options /\ t.faithful /\ t.sigs = {}
                    /\ store' = Forget(store, o)
                 \/ /\ ShrinkSchedule /\ t.faithful
                    /\ \E g \in Targets(o, t) : \E s \in Schedule :
                          store' = Record(store, {g}, s)
    BY <1>2, CommandStores
  <2>2. replays' \in [Signature -> SUBSET Replay]
    BY <2>1, TriedTypes
  <2>3. store' \in Stores
    <3>1. store \in Stores
      BY DEF SessionTypes, Stores
    <3>2. ASSUME store' = Forget(store, o) PROVE store' \in Stores
      BY <3>1, <3>2 DEF Forget, Stores
    <3>3. ASSUME NEW g \in Targets(o, t), NEW s \in Schedule, store' = Record(store, {g}, s)
          PROVE  store' \in Stores
      <4>1. {g} \in SUBSET Signature
        BY <2>1, TrialFields DEF Targets
      <4> QED BY <3>1, <3>3, <4>1, RecordEffect
    <3> QED BY <2>1, <3>1, <3>2, <3>3
  <2> QED BY <1>2, <2>2, <2>3, Outside DEF SessionTypes, Stores
<1>3. CASE Bookkeeping
  <2>1. UNCHANGED <<verdict, initial, seeds, store, replays, diverged, failing, fresh>>
    BY <1>3 DEF Bookkeeping, TimeOut, Load, CorpusEnds, FreshEnds, Raise, PluginReports,
          CommandReports, sessionVars
  <2>2. queue' \subseteq Signature
    BY <1>3 DEF Bookkeeping, TimeOut, Load, CorpusEnds, FreshEnds, Raise, PluginReports,
          CommandReports, sessionVars, SessionTypes
  <2>3. todo' \subseteq Signature
    <3>1. UNION {run.sigs : run \in failing} \subseteq Signature
      BY DEF SessionTypes, Run
    <3> QED BY <1>3, <3>1 DEF Bookkeeping, TimeOut, Load, CorpusEnds, FreshEnds, Raise,
              PluginReports, CommandReports, sessionVars, SessionTypes
  <2>4. stopped' \in {"none", "time_budget", "fail_fast", "trials"}
    BY <1>3 DEF Bookkeeping, TimeOut, Load, CorpusEnds, FreshEnds, Raise, PluginReports,
          CommandReports, sessionVars, SessionTypes
  <2>5. stage' \in {"load", "corpus", "fresh", "shrink"} \cup Outcomes
    BY <1>3 DEF Bookkeeping, TimeOut, Load, CorpusEnds, FreshEnds, Raise, PluginReports,
          CommandReports, SessionTypes, Outcomes
  <2> QED BY <2>1, <2>2, <2>3, <2>4, <2>5 DEF SessionTypes
<1>4. CASE ReplayEntry
  <2>1. PICK g \in queue, r \in Replay :
              /\ stage = "corpus" /\ stopped = "none"
              /\ queue' = queue \ {g}
              /\ replays' = [replays EXCEPT ![g] = {r}]
              /\ UNCHANGED <<verdict, initial, seeds, fresh, todo, stage>>
              /\ \/ /\ ~r.faithful /\ diverged' = diverged + 1
                    /\ UNCHANGED <<store, failing, stopped>>
                 \/ /\ r.faithful /\ r.sigs = {} /\ diverged' = diverged
                    /\ store' \in Stores /\ store'[g] = Nothing
                    /\ \A h \in Signature \ {g} : store'[h] = store[h]
                    /\ UNCHANGED <<failing, stopped>>
                 \/ /\ r.faithful /\ r.sigs # {} /\ diverged' = diverged
                    /\ store' = Record(store, r.sigs, r.made)
                    /\ failing' = failing \cup {[made |-> r.made, sigs |-> r.sigs]}
                    /\ stopped' = IF FailFast THEN "fail_fast" ELSE stopped
    BY <1>4, ReplayEntryEffect
  <2>2. store \in Stores /\ r.made \in Schedule /\ r.sigs \in SUBSET Signature
    BY TrialFields DEF SessionTypes, Stores
  <2>3. Record(store, r.sigs, r.made) \in Stores
    BY <2>2, RecordEffect
  <2>4. store' \in Stores
    BY <2>1, <2>2, <2>3
  <2>5. [made |-> r.made, sigs |-> r.sigs] \in Run
    BY <2>2 DEF Run
  <2>6. failing' \subseteq Run /\ diverged' \in Nat
    BY <2>1, <2>5 DEF SessionTypes
  <2>7. replays' \in [Signature -> SUBSET Replay] /\ queue' \subseteq Signature
    BY <2>1 DEF SessionTypes
  <2>8. stopped' \in {"none", "time_budget", "fail_fast", "trials"}
    BY <2>1 DEF SessionTypes
  <2> QED BY <2>1, <2>4, <2>6, <2>7, <2>8 DEF SessionTypes, Stores
<1>5. CASE FreshTrial
  <2>1. PICK made \in Schedule, sigs \in SUBSET Signature :
              /\ stage = "fresh" /\ stopped = "none"
              /\ fresh' = fresh + 1 /\ fresh < seeds
              /\ UNCHANGED <<verdict, initial, seeds, queue, replays, diverged, todo, stage>>
              /\ store' = Record(store, sigs, made)
              /\ \/ sigs = {} /\ UNCHANGED <<failing, stopped>>
                 \/ /\ sigs # {}
                    /\ failing' = failing \cup {[made |-> made, sigs |-> sigs]}
                    /\ stopped' = IF FailFast THEN "fail_fast" ELSE stopped
    BY <1>5, FreshTrialEffect
  <2>2. store' \in Stores
    BY <2>1, RecordEffect DEF SessionTypes, Stores
  <2>3. failing' \subseteq Run /\ stopped' \in {"none", "time_budget", "fail_fast", "trials"}
    <3>1. [made |-> made, sigs |-> sigs] \in Run
      BY DEF Run
    <3> QED BY <2>1, <3>1 DEF SessionTypes
  <2>4. fresh' \in 0..seeds
    BY <2>1, FuzzAssumption DEF SessionTypes
  <2> QED BY <2>1, <2>2, <2>3, <2>4 DEF SessionTypes, Stores
<1>6. CASE ShrinkBucket
  <2>1. /\ todo' \subseteq todo
        /\ UNCHANGED <<verdict, initial, seeds, queue, replays, diverged, failing, fresh,
                       stopped, stage>>
        /\ \/ UNCHANGED store
           \/ \E sigs \in SUBSET Signature, s \in Schedule : store' = Record(store, sigs, s)
    BY <1>6, ShrinkBucketEffect
  <2>2. store \in Stores
    BY DEF SessionTypes, Stores
  <2>3. store' \in Stores
    BY <2>1, <2>2, RecordEffect
  <2>4. todo' \subseteq Signature
    BY <2>1 DEF SessionTypes
  <2> QED BY <2>1, <2>3, <2>4 DEF SessionTypes, Stores
<1>7. CASE UNCHANGED allVars
  BY <1>7, Stuttering DEF SessionTypes
<1> QED BY <1>1, <1>2, <1>3, <1>4, <1>5, <1>6, <1>7, CommandCases

\* A session leaves the other half alone.
LEMMA SessionOnly ==
    ASSUME UNCHANGED commandVars
    PROVE  UNCHANGED <<command, options, asked, waiting, rows, code>>
BY DEF commandVars

\* A command starts with the schedules it is asked for, none of them tried.
LEMMA StartEffect ==
    ASSUME CommandTypes, Phases, Starting
    PROVE  /\ stage = "load" /\ command = None
           /\ waiting' = asked' /\ rows = {} /\ code' = code
           /\ \/ command' = "fuzz" /\ asked' = {} /\ options' = options
              \/ command' = "run" /\ asked' = {"seed"} /\ options' = options
              \/ /\ command' = "replay" /\ options' \in BOOLEAN
                 /\ asked' = Stored \/ \E o \in Stored \cup Unstored : asked' = {o}
                 /\ options' => asked' \subseteq Signature
              \/ /\ command' = "shrink" /\ options' \in BOOLEAN
                 /\ \E o \in Stored \cup Unstored : asked' = {o}
              \/ command' = "test" /\ options' = options /\ \E o \in Unstored : asked' = {o}
<1>1. command = None /\ stage = "load" /\ waiting' = asked' /\ code' = code
  BY DEF Starting, StartFuzz, StartRun, StartReplay, StartShrink, StartTest, Start
<1>2. rows = {}
  BY <1>1 DEF CommandTypes, Phases
<1>3. CASE StartFuzz
  BY <1>1, <1>2, <1>3 DEF StartFuzz, Start
<1>4. CASE StartRun
  BY <1>1, <1>2, <1>4 DEF StartRun, Start
<1>5. CASE StartReplay
  <2>1. PICK origins \in {Stored} \cup {{o} : o \in Stored \cup Unstored} :
            Start("replay", origins)
    BY <1>5 DEF StartReplay
  <2>2. asked' = origins /\ command' = "replay"
    BY <2>1 DEF Start
  <2> QED BY <1>1, <1>2, <1>5, <2>2 DEF StartReplay
<1>6. CASE StartShrink
  BY <1>1, <1>2, <1>6 DEF StartShrink, Start
<1>7. CASE StartTest
  BY <1>1, <1>2, <1>7 DEF StartTest, Start
<1> QED BY <1>3, <1>4, <1>5, <1>6, <1>7 DEF Starting

\* Every step keeps the types of the command and tries a schedule once.
LEMMA CommandTypesStep ==
    ASSUME SessionTypes, CommandTypes, Phases, CommandKnows, [CommandNext]_allVars
    PROVE  CommandTypes'
<1>1. CASE Starting
  <2>1. Stored \cup Unstored \subseteq Origins /\ "seed" \in Origins
    BY DEF Stored, Unstored, Origins
  <2>2. asked' \subseteq Origins /\ options' \in BOOLEAN
    BY <1>1, <2>1, StartEffect DEF CommandTypes
  <2>3. /\ asked' \ waiting' = {} /\ {row.origin : row \in rows'} = {} /\ rows' = {}
        /\ waiting' = asked' /\ code' = code
    BY <1>1, StartEffect, OutsideIdle
  <2>4. command' \in {None, "fuzz", "run", "replay", "shrink", "test", "tested", "exit"}
    BY <1>1, StartEffect
  <2> QED BY <2>2, <2>3, <2>4 DEF CommandTypes
<1>2. CASE TrialRaises \/ Refuse \/ Exit
  <2>1. /\ rows' = rows /\ UNCHANGED <<options, asked, waiting>> /\ command' = "exit"
        /\ code' \in {code, Misused, Unloadable, Internal, Interrupted}
    BY <1>2 DEF TrialRaises, Refuse, Exit
  <2> QED BY <2>1 DEF CommandTypes
<1>3. CASE RunTrial \/ ReplayRow \/ ShrinkSchedule \/ TestTrial
  <2>1. PICK o \in waiting, t \in Replay : Tried(o, t)
    BY <1>3, CommandStores
  <2>2. /\ rows' \subseteq Row /\ waiting' \subseteq asked
        /\ asked \ waiting' = {row.origin : row \in rows'}
    BY <2>1, TriedTypes
  <2>3. asked' = asked /\ options' = options /\ command' \in {command, "tested", "exit"}
    BY <1>3 DEF RunTrial, ReplayRow, ShrinkSchedule, TestTrial
  <2>4. code' \in {Clean, Failed, Misused, Unloadable, Internal, Unknown, Interrupted}
    <3>1. \A u \in Replay : Status(u) \in {Clean, Failed, Unknown}
      BY DEF Status
    <3>2. \A u \in Replay : Combined(code, Status(u)) \in {code, Status(u)}
      BY DEF Combined
    <3>3. \A x \in waiting : TrialOf(x) \subseteq Replay
      BY DEF TrialOf
    <3>4. CASE RunTrial
      BY <3>4 DEF RunTrial
    <3>5. CASE TestTrial
      BY <3>5 DEF TestTrial
    <3>6. CASE ReplayRow
      <4>1. \E x \in waiting : \E u \in TrialOf(x) : code' = Combined(code, Status(u))
        BY <3>6 DEF ReplayRow
      <4> QED BY <3>1, <3>2, <3>3, <4>1 DEF CommandTypes
    <3>7. CASE ShrinkSchedule
      <4>1. \E x \in waiting : \E u \in TrialOf(x) :
                code' \in {Unknown, Status(u), Failed, Interrupted}
        BY <3>7 DEF ShrinkSchedule
      <4> QED BY <3>1, <3>3, <4>1
    <3> QED BY <1>3, <3>4, <3>5, <3>6, <3>7
  <2> QED BY <2>2, <2>3, <2>4 DEF CommandTypes
<1>4. CASE UNCHANGED commandVars
  BY <1>4, SessionOnly DEF CommandTypes
<1>5. CASE UNCHANGED allVars
  BY <1>5, Stuttering DEF CommandTypes
<1> QED BY <1>1, <1>2, <1>3, <1>4, <1>5, CommandCases

\* Every step keeps the two halves apart, and what waits untried.
LEMMA PhasesStep ==
    ASSUME SessionTypes, CommandTypes, Phases, CommandKnows, [CommandNext]_allVars
    PROVE  Phases'
<1> USE DEF Phases
<1>1. CASE Starting
  <2>1. /\ stage = "load" /\ command = None /\ waiting' = asked'
        /\ command' # None /\ (command' = "fuzz" => asked' = {})
    BY <1>1, StartEffect DEF None
  <2>2. /\ store = initial /\ \A g \in Signature : replays[g] = {}
        /\ failing = {} /\ queue = {} /\ diverged = 0
    BY <2>1 DEF None
  <2> QED BY <1>1, <2>1, <2>2, Outside, OutsideIdle
<1>2. CASE TrialRaises \/ Refuse \/ Exit
  <2>1. command' = "exit" /\ UNCHANGED waiting /\ command # "fuzz"
    BY <1>2 DEF TrialRaises, Refuse, Exit, None
  <2> QED BY <1>2, <2>1, Outside, OutsideIdle DEF None
<1>3. CASE RunTrial \/ ReplayRow \/ ShrinkSchedule \/ TestTrial
  <2>1. PICK o \in waiting, t \in Replay : Tried(o, t)
    BY <1>3, CommandStores
  <2>2. \A g \in Signature : replays'[g] = IF g = o THEN {t} ELSE replays[g]
    BY <2>1, TriedTypes
  <2>3. waiting' = waiting \ {o}
    BY <2>1 DEF Tried
  <2>4. command \notin {None, "fuzz"} /\ command' \notin {None, "fuzz"}
    BY <1>3 DEF RunTrial, ReplayRow, ShrinkSchedule, TestTrial, None
  <2> QED BY <1>3, <2>2, <2>3, <2>4, Outside
<1>4. CASE command = "fuzz" /\ UNCHANGED commandVars /\ Bookkeeping
  <2>1. UNCHANGED <<initial, store, replays>> /\ stage' # "load"
    BY <1>4 DEF Bookkeeping, TimeOut, Load, CorpusEnds, FreshEnds, Raise, PluginReports,
          CommandReports, sessionVars
  <2>2. \/ queue' = queue
        \/ stage = "load" /\ queue' = {g \in Signature : store[g] # Nothing}
    BY <1>4 DEF Bookkeeping, TimeOut, Load, CorpusEnds, FreshEnds, Raise, PluginReports,
          CommandReports, sessionVars
  <2> QED BY <1>4, <2>1, <2>2, SessionOnly
<1>5. CASE command = "fuzz" /\ UNCHANGED commandVars /\ ReplayEntry
  <2>1. PICK g \in queue, r \in Replay :
              /\ stage = "corpus" /\ queue' = queue \ {g}
              /\ replays' = [replays EXCEPT ![g] = {r}] /\ UNCHANGED <<initial, stage>>
    BY <1>5, ReplayEntryEffect
  <2>2. asked = {} /\ waiting = {}
    BY <1>5 DEF CommandTypes
  <2> QED BY <1>5, <2>1, <2>2, SessionOnly DEF SessionTypes
<1>6. CASE command = "fuzz" /\ UNCHANGED commandVars /\ (FreshTrial \/ ShrinkBucket)
  <2>1. stage # "load" /\ UNCHANGED <<initial, queue, replays, stage>>
    BY <1>6 DEF FreshTrial, ShrinkBucket
  <2> QED BY <1>6, <2>1, SessionOnly
<1>7. CASE UNCHANGED allVars
  BY <1>7, Stuttering
<1> QED BY <1>1, <1>2, <1>3, <1>4, <1>5, <1>6, <1>7, CommandCases

----------------------------------------------------------------------------
(* The evidence *)

\* Recording failures gives up no evidence.
LEMMA RecordKeepsEvidence ==
    ASSUME SessionTypes, OldEvidenceKept, NEW sigs \in SUBSET Signature, NEW s \in Schedule,
           store' = Record(store, sigs, s), UNCHANGED <<initial, replays>>
    PROVE  OldEvidenceKept'
<1>1. store \in Stores /\ initial \in Stores
  BY DEF SessionTypes, Stores
<1>2. SUFFICES ASSUME NEW g \in Signature, initial[g] # Nothing,
                      store'[g] = Nothing \/ store'[g] > initial[g]
               PROVE  \E r \in replays[g] : r.faithful /\ r.sigs = {}
  BY DEF OldEvidenceKept
<1>3. store[g] = Nothing \/ store[g] > initial[g]
  <2>1. SUFFICES ASSUME store[g] # Nothing PROVE store[g] > initial[g]
    OBVIOUS
  <2>2. store'[g] # Nothing /\ store'[g] <= store[g] /\ store' \in Stores
    BY <1>1, <2>1, RecordEffect
  <2>3. store[g] \in Int /\ store'[g] \in Int /\ initial[g] \in Int
    BY <1>1, <1>2, <2>1, <2>2, Schedules DEF Stores
  <2> QED BY <1>2, <2>2, <2>3
<1> QED BY <1>2, <1>3 DEF OldEvidenceKept

\* What becomes of the entries that were not replayed, and of the one that was.
LEMMA EvidenceAfterTrial ==
    ASSUME SessionTypes, OldEvidenceKept, NEW o \in Origins, NEW t \in Replay,
           o \in Signature => replays[o] = {},
           \A g \in Signature : replays'[g] = IF g = o THEN {t} ELSE replays[g],
           initial' = initial,
           \/ store' = store
           \/ /\ t.faithful /\ t.sigs = {}
              /\ \A h \in Signature \ {o} : store'[h] = store[h]
           \/ \E sigs \in SUBSET Signature, s \in Schedule : store' = Record(store, sigs, s)
    PROVE  OldEvidenceKept'
<1>1. store \in Stores /\ initial \in Stores
  BY DEF SessionTypes, Stores
<1>2. SUFFICES ASSUME NEW g \in Signature, initial[g] # Nothing,
                      store'[g] = Nothing \/ store'[g] > initial[g]
               PROVE  \E r \in replays'[g] : r.faithful /\ r.sigs = {}
  BY DEF OldEvidenceKept
<1>3. CASE store[g] = Nothing \/ store[g] > initial[g]
  <2>1. \E r \in replays[g] : r.faithful /\ r.sigs = {}
    BY <1>2, <1>3 DEF OldEvidenceKept
  <2> QED BY <2>1
<1>4. CASE store[g] # Nothing /\ ~(store[g] > initial[g])
  <2>1. store[g] \in Int /\ initial[g] \in Int
    BY <1>1, <1>2, <1>4, Schedules DEF Stores
  <2>2. ASSUME NEW sigs \in SUBSET Signature, NEW s \in Schedule, store' = Record(store, sigs, s)
        PROVE  FALSE
    <3>1. store'[g] # Nothing /\ store'[g] <= store[g] /\ store' \in Stores
      BY <1>1, <1>4, <2>2, RecordEffect
    <3>2. store'[g] \in Int
      BY <3>1, Schedules DEF Stores
    <3> QED BY <1>2, <1>4, <2>1, <3>1, <3>2
  <2>3. t.faithful /\ t.sigs = {} /\ g = o
    BY <1>2, <1>4, <2>2
  <2> QED BY <2>3
<1> QED BY <1>3, <1>4

\* Every step keeps the old evidence, unless a faithful replay has passed.
LEMMA OldEvidenceStep ==
    ASSUME SessionTypes, CommandTypes, Phases, CommandKnows, OldEvidenceKept,
           [CommandNext]_allVars
    PROVE  OldEvidenceKept'
<1>1. CASE Starting \/ TrialRaises \/ Refuse \/ Exit
  BY <1>1, Outside, OutsideIdle DEF OldEvidenceKept
<1>2. CASE RunTrial \/ ReplayRow \/ ShrinkSchedule \/ TestTrial
  <2>1. PICK o \in waiting, t \in Replay :
              /\ t \in TrialOf(o) /\ Tried(o, t)
              /\ \/ UNCHANGED store
                 \/ /\ ReplayRow /\ options /\ t.faithful /\ t.sigs = {}
                    /\ store' = Forget(store, o)
                 \/ /\ ShrinkSchedule /\ t.faithful
                    /\ \E g \in Targets(o, t) : \E s \in Schedule :
                          store' = Record(store, {g}, s)
    BY <1>2, CommandStores
  <2>2. \A g \in Signature : replays'[g] = IF g = o THEN {t} ELSE replays[g]
    BY <2>1, TriedTypes
  <2>3. o \in Origins /\ (o \in Signature => replays[o] = {}) /\ initial' = initial
    BY <1>2, Outside DEF CommandTypes, Phases
  <2>4. ASSUME ReplayRow, options, store' = Forget(store, o)
        PROVE  \A h \in Signature \ {o} : store'[h] = store[h]
    BY <2>4 DEF Forget, SessionTypes
  <2>5. ASSUME NEW g \in Targets(o, t), NEW s \in Schedule, store' = Record(store, {g}, s)
        PROVE  \E sigs \in SUBSET Signature, r \in Schedule : store' = Record(store, sigs, r)
    <3>1. {g} \in SUBSET Signature
      BY <2>1, TrialFields DEF Targets
    <3> QED BY <2>5, <3>1
  <2>6. \/ store' = store
        \/ /\ t.faithful /\ t.sigs = {}
           /\ \A h \in Signature \ {o} : store'[h] = store[h]
        \/ \E sigs \in SUBSET Signature, s \in Schedule : store' = Record(store, sigs, s)
    BY <2>1, <2>4, <2>5
  <2> QED BY <2>1, <2>2, <2>3, <2>6, EvidenceAfterTrial
<1>3. CASE Bookkeeping
  BY <1>3 DEF Bookkeeping, TimeOut, Load, CorpusEnds, FreshEnds, Raise, PluginReports,
        CommandReports, sessionVars, OldEvidenceKept
<1>4. CASE ReplayEntry
  <2>1. PICK g \in queue, r \in Replay :
              /\ replays' = [replays EXCEPT ![g] = {r}] /\ initial' = initial
              /\ \/ UNCHANGED store
                 \/ /\ r.faithful /\ r.sigs = {}
                    /\ \A h \in Signature \ {g} : store'[h] = store[h]
                 \/ store' = Record(store, r.sigs, r.made)
    BY <1>4, ReplayEntryEffect
  <2>2. g \in Signature /\ g \in Origins /\ replays[g] = {}
    BY DEF SessionTypes, Phases, Origins
  <2>3. \A h \in Signature : replays'[h] = IF h = g THEN {r} ELSE replays[h]
    BY <2>1 DEF SessionTypes
  <2>4. r.made \in Schedule /\ r.sigs \in SUBSET Signature
    BY TrialFields
  <2>5. \/ store' = store
        \/ /\ r.faithful /\ r.sigs = {}
           /\ \A h \in Signature \ {g} : store'[h] = store[h]
        \/ \E sigs \in SUBSET Signature, s \in Schedule : store' = Record(store, sigs, s)
    BY <2>1, <2>4
  <2> QED BY <2>1, <2>2, <2>3, <2>5, EvidenceAfterTrial
<1>5. CASE FreshTrial
  <2>1. \E made \in Schedule, sigs \in SUBSET Signature :
            store' = Record(store, sigs, made) /\ UNCHANGED <<initial, replays>>
    BY <1>5, FreshTrialEffect
  <2> QED BY <2>1, RecordKeepsEvidence
<1>6. CASE ShrinkBucket
  <2>1. /\ UNCHANGED <<initial, replays>>
        /\ \/ UNCHANGED store
           \/ \E sigs \in SUBSET Signature, s \in Schedule : store' = Record(store, sigs, s)
    BY <1>6, ShrinkBucketEffect
  <2>2. CASE UNCHANGED store
    BY <2>1, <2>2 DEF OldEvidenceKept
  <2> QED BY <2>1, <2>2, RecordKeepsEvidence
<1>7. CASE UNCHANGED allVars
  BY <1>7, Stuttering DEF OldEvidenceKept
<1> QED BY <1>1, <1>2, <1>3, <1>4, <1>5, <1>6, <1>7, CommandCases

----------------------------------------------------------------------------
(* The failures of a session *)

\* Recording failures loses none that is stored, and stores those of the trial.
LEMMA RecordStoresFailures ==
    ASSUME SessionTypes, FailuresStored, NEW sigs \in SUBSET Signature, NEW s \in Schedule,
           store' = Record(store, sigs, s),
           failing' \subseteq failing \cup {[made |-> s, sigs |-> sigs]}
    PROVE  FailuresStored'
<1>1. store \in Stores
  BY DEF SessionTypes, Stores
<1>2. store' \in Stores
  BY <1>1, RecordEffect
<1>3. SUFFICES ASSUME NEW run \in failing', NEW g \in run.sigs
               PROVE  store'[g] # Nothing /\ store'[g] <= run.made
  BY DEF FailuresStored
<1>4. CASE run \in failing
  <2>1. store[g] # Nothing /\ store[g] <= run.made /\ g \in Signature /\ run.made \in Schedule
    BY <1>4 DEF FailuresStored, SessionTypes, Run
  <2>2. store'[g] # Nothing /\ store'[g] <= store[g]
    BY <1>1, <2>1, RecordEffect
  <2>3. store[g] \in Int /\ store'[g] \in Int /\ run.made \in Int
    BY <1>1, <1>2, <2>1, <2>2, Schedules DEF Stores
  <2> QED BY <2>1, <2>2, <2>3
<1>5. CASE run = [made |-> s, sigs |-> sigs]
  BY <1>1, <1>5, RecordEffect
<1> QED BY <1>3, <1>4, <1>5

\* Under fail_fast nothing is forgotten once something has failed.
LEMMA FailuresStoredStep ==
    ASSUME FailFast, SessionTypes, CommandTypes, Phases, SessionKnows, FailuresStored,
           [CommandNext]_allVars
    PROVE  FailuresStored'
<1>1. CASE Starting \/ TrialRaises \/ Refuse \/ Exit
  BY <1>1, Outside, OutsideIdle DEF FailuresStored
<1>2. CASE RunTrial \/ ReplayRow \/ ShrinkSchedule \/ TestTrial
  <2>1. command # "fuzz"
    BY <1>2 DEF RunTrial, ReplayRow, ShrinkSchedule, TestTrial
  <2>2. failing' = {}
    BY <1>2, <2>1, Outside DEF Phases
  <2> QED BY <2>2 DEF FailuresStored
<1>3. CASE Bookkeeping
  BY <1>3 DEF Bookkeeping, TimeOut, Load, CorpusEnds, FreshEnds, Raise, PluginReports,
        CommandReports, sessionVars, FailuresStored
<1>4. CASE ReplayEntry
  <2>1. PICK g \in queue, r \in Replay :
              /\ stopped = "none"
              /\ \/ UNCHANGED failing
                 \/ /\ store' = Record(store, r.sigs, r.made)
                    /\ failing' = failing \cup {[made |-> r.made, sigs |-> r.sigs]}
    BY <1>4, ReplayEntryEffect
  <2>2. failing = {}
    BY <2>1 DEF SessionKnows, StopReason
  <2>3. CASE UNCHANGED failing
    BY <2>2, <2>3 DEF FailuresStored
  <2> QED BY <2>1, <2>3, TrialFields, RecordStoresFailures
<1>5. CASE FreshTrial
  <2>1. \E made \in Schedule, sigs \in SUBSET Signature :
            /\ store' = Record(store, sigs, made)
            /\ failing' \subseteq failing \cup {[made |-> made, sigs |-> sigs]}
    BY <1>5, FreshTrialEffect
  <2> QED BY <2>1, RecordStoresFailures
<1>6. CASE ShrinkBucket
  <2>1. /\ UNCHANGED failing
        /\ \/ UNCHANGED store
           \/ \E sigs \in SUBSET Signature, s \in Schedule : store' = Record(store, sigs, s)
    BY <1>6, ShrinkBucketEffect
  <2>2. CASE UNCHANGED store
    BY <2>1, <2>2 DEF FailuresStored
  <2>3. ASSUME NEW sigs \in SUBSET Signature, NEW s \in Schedule, store' = Record(store, sigs, s)
        PROVE  FailuresStored'
    <3>1. failing' \subseteq failing \cup {[made |-> s, sigs |-> sigs]}
      BY <2>1
    <3> QED BY <2>3, <3>1, RecordStoresFailures
  <2> QED BY <2>1, <2>2, <2>3
<1>7. CASE UNCHANGED allVars
  BY <1>7, Stuttering DEF FailuresStored
<1> QED BY <1>1, <1>2, <1>3, <1>4, <1>5, <1>6, <1>7, CommandCases

\* What a session knows only depends on the session.
LEMMA SessionKnowsUnchanged ==
    ASSUME SessionKnows,
           UNCHANGED <<initial, seeds, replays, diverged, failing, fresh, queue, stopped, stage>>,
           command' = "fuzz" /\ command # "fuzz" => \A g \in Signature : replays[g] = {}
    PROVE  SessionKnows'
<1>1. StopReason' /\ ReplaysFirst' /\ SeedsTried'
  BY DEF SessionKnows, StopReason, ReplaysFirst, SeedsTried
<1>2. ReplaysKnown'
  BY DEF SessionKnows, ReplaysKnown
<1>3. PassedIsClean'
  BY DEF SessionKnows, PassedIsClean
<1> QED BY <1>1, <1>2, <1>3 DEF SessionKnows

\* The steps that neither try nor store anything.
LEMMA SessionKnowsBookkeeping ==
    ASSUME SessionTypes, Phases, SessionKnows, command = "fuzz", command' = command,
           Bookkeeping
    PROVE  SessionKnows'
<1> USE DEF SessionKnows
<1>0. UNCHANGED <<initial, seeds, replays, diverged, failing, fresh>>
  BY DEF Bookkeeping, TimeOut, Load, CorpusEnds, FreshEnds, Raise, PluginReports,
         CommandReports, sessionVars
<1>1. ReplaysKnown'
  BY <1>0 DEF ReplaysKnown
<1>2. CASE TimeOut
  <2>1. stopped' = "time_budget" /\ stage' # "passed"
    BY <1>2 DEF TimeOut
  <2> QED BY <1>0, <1>1, <2>1 DEF StopReason, ReplaysFirst, SeedsTried, PassedIsClean
<1>3. CASE Load
  <2>1. /\ store = initial /\ stage = "load" /\ stage' = "corpus" /\ stopped' = stopped
        /\ queue' = {g \in Signature : store[g] # Nothing}
    BY <1>3 DEF Load, Phases
  <2>2. StopReason'
    BY <1>0, <2>1 DEF StopReason
  <2>3. ReplaysFirst' /\ SeedsTried' /\ PassedIsClean'
    BY <1>0, <2>1 DEF ReplaysFirst, SeedsTried, PassedIsClean
  <2> QED BY <1>1, <2>2, <2>3
<1>4. CASE CorpusEnds
  <2>1. /\ stage = "corpus" /\ stage' = "fresh" /\ stopped' = stopped
        /\ queue = {} \/ stopped # "none"
    BY <1>4 DEF CorpusEnds, sessionVars
  <2>2. StopReason' /\ SeedsTried' /\ PassedIsClean'
    BY <1>0, <2>1 DEF StopReason, SeedsTried, PassedIsClean
  <2>3. ReplaysFirst'
    BY <1>0, <2>1 DEF ReplaysFirst, StopReason
  <2> QED BY <1>1, <2>2, <2>3
<1>5. CASE FreshEnds
  <2>1. /\ stage = "fresh" /\ stage' = "shrink"
        /\ stopped' = stopped \/ (stopped = "none" /\ stopped' = "trials")
        /\ stopped # "none" \/ ~(fresh < seeds)
    BY <1>5 DEF FreshEnds, SeedsLeft
  <2>2. StopReason' /\ PassedIsClean'
    BY <1>0, <2>1 DEF StopReason, PassedIsClean
  <2>3. ReplaysFirst'
    BY <1>0, <2>1 DEF ReplaysFirst
  <2>4. stopped = "none" => fresh = seeds
    BY <2>1, FuzzAssumption DEF SessionTypes
  <2>5. stopped # "trials"
    BY <2>1 DEF StopReason
  <2>6. SeedsTried'
    BY <1>0, <2>1, <2>4, <2>5 DEF SeedsTried
  <2> QED BY <1>1, <2>2, <2>3, <2>6
<1>6. CASE Raise
  <2>1. stage \in {"corpus", "fresh"} /\ stage' = "raised" /\ stopped' = stopped
    BY <1>6 DEF Raise, sessionVars
  <2> QED BY <1>0, <1>1, <2>1 DEF StopReason, ReplaysFirst, SeedsTried, PassedIsClean
<1>7. CASE PluginReports \/ CommandReports
  <2>1. /\ stage = "shrink" /\ stopped' = stopped
        /\ stage' \in {"passed", "failed", "assertion", "unknown"}
        /\ stage' = "passed" => failing = {} /\ diverged = 0
    BY <1>7 DEF PluginReports, CommandReports, Ok, sessionVars
  <2>2. StopReason' /\ ReplaysFirst' /\ SeedsTried'
    BY <1>0, <2>1 DEF StopReason, ReplaysFirst, SeedsTried
  <2>3. ASSUME stage' = "passed" PROVE PassedIsClean'
    <3>1. failing = {} /\ diverged = 0 /\ stopped # "fail_fast"
      BY <2>1, <2>3 DEF StopReason
    <3>2. stopped # "time_budget" =>
              /\ \A g \in Signature : initial[g] # Nothing => replays[g] # {}
              /\ fresh = seeds
      BY <2>1, <3>1 DEF SessionTypes, ReplaysFirst, SeedsTried
    <3>3. \A g \in Signature : \A r \in replays[g] : r.faithful /\ r.sigs = {}
      BY <3>1 DEF ReplaysKnown
    <3> QED BY <1>0, <2>1, <3>1, <3>2, <3>3 DEF PassedIsClean
  <2>4. stage' # "passed" => PassedIsClean'
    BY DEF PassedIsClean
  <2> QED BY <1>1, <2>2, <2>3, <2>4
<1> QED BY <1>2, <1>3, <1>4, <1>5, <1>6, <1>7 DEF Bookkeeping

\* Every step keeps what a session knows.
LEMMA SessionKnowsStep ==
    ASSUME SessionTypes, CommandTypes, Phases, SessionKnows, [CommandNext]_allVars
    PROVE  SessionKnows'
<1> USE DEF SessionKnows
<1>1. CASE Starting
  <2>1. UNCHANGED <<initial, seeds, replays, diverged, failing, fresh, queue, stopped, stage>>
    BY <1>1, Outside, OutsideIdle
  <2>2. command = None /\ stage = "load"
    BY <1>1, StartEffect
  <2>3. \A g \in Signature : replays[g] = {}
    BY <2>2 DEF Phases
  <2> QED BY <2>1, <2>3, SessionKnowsUnchanged
<1>2. CASE TrialRaises \/ Refuse \/ Exit
  <2>1. UNCHANGED <<initial, seeds, replays, diverged, failing, fresh, queue, stopped, stage>>
    BY <1>2, Outside, OutsideIdle
  <2>2. command' # "fuzz"
    BY <1>2 DEF TrialRaises, Refuse, Exit
  <2> QED BY <2>1, <2>2, SessionKnowsUnchanged
<1>3. CASE RunTrial \/ ReplayRow \/ ShrinkSchedule \/ TestTrial
  <2>1. command # "fuzz" /\ command' # "fuzz"
    BY <1>3 DEF RunTrial, ReplayRow, ShrinkSchedule, TestTrial
  <2>2. stage' = "load" /\ stage = "load" /\ UNCHANGED <<failing, stopped>>
    BY <1>3, <2>1, Outside DEF Phases
  <2> QED BY <2>1, <2>2 DEF StopReason, ReplaysKnown, ReplaysFirst, SeedsTried, PassedIsClean
<1>4. CASE command = "fuzz" /\ UNCHANGED commandVars /\ Bookkeeping
  BY <1>4, SessionOnly, SessionKnowsBookkeeping
<1>5. CASE command = "fuzz" /\ UNCHANGED commandVars /\ ReplayEntry
  <2>1. PICK g \in queue, r \in Replay :
              /\ stage = "corpus" /\ stopped = "none"
              /\ queue' = queue \ {g}
              /\ replays' = [replays EXCEPT ![g] = {r}]
              /\ UNCHANGED <<initial, stage>>
              /\ \/ /\ ~r.faithful /\ diverged' = diverged + 1
                    /\ UNCHANGED <<failing, stopped>>
                 \/ /\ r.faithful /\ r.sigs = {} /\ diverged' = diverged
                    /\ UNCHANGED <<failing, stopped>>
                 \/ /\ r.faithful /\ r.sigs # {} /\ diverged' = diverged
                    /\ failing' = failing \cup {[made |-> r.made, sigs |-> r.sigs]}
                    /\ stopped' = IF FailFast THEN "fail_fast" ELSE stopped
    BY <1>5, ReplayEntryEffect
  <2>2. \A h \in Signature : replays'[h] = IF h = g THEN {r} ELSE replays[h]
    BY <2>1 DEF SessionTypes
  <2>3. diverged' = 0 => diverged = 0 /\ r.faithful
    BY <2>1 DEF SessionTypes
  <2>4. failing' = {} => failing = {} /\ (r.faithful => r.sigs = {})
    BY <2>1
  <2>5. StopReason'
    BY <2>1 DEF StopReason
  <2>6. ReplaysKnown'
    BY <1>5, <2>2, <2>3, <2>4 DEF ReplaysKnown
  <2>7. ReplaysFirst'
    BY <2>1, <2>2 DEF ReplaysFirst
  <2>8. SeedsTried' /\ PassedIsClean'
    BY <2>1 DEF SeedsTried, PassedIsClean
  <2> QED BY <2>5, <2>6, <2>7, <2>8
<1>6. CASE command = "fuzz" /\ UNCHANGED commandVars /\ FreshTrial
  <2>1. PICK made \in Schedule, sigs \in SUBSET Signature :
              /\ stage = "fresh" /\ stopped = "none"
              /\ UNCHANGED <<initial, replays, diverged, stage>>
              /\ \/ UNCHANGED <<failing, stopped>>
                 \/ /\ failing' = failing \cup {[made |-> made, sigs |-> sigs]}
                    /\ stopped' = IF FailFast THEN "fail_fast" ELSE stopped
    BY <1>6, FreshTrialEffect
  <2>2. failing' = {} => failing = {}
    BY <2>1
  <2>3. StopReason'
    BY <2>1 DEF StopReason
  <2>4. ReplaysKnown'
    BY <1>6, <2>1, <2>2 DEF ReplaysKnown
  <2>5. ReplaysFirst' /\ SeedsTried' /\ PassedIsClean'
    BY <2>1 DEF ReplaysFirst, SeedsTried, PassedIsClean
  <2> QED BY <2>3, <2>4, <2>5
<1>7. CASE command = "fuzz" /\ UNCHANGED commandVars /\ ShrinkBucket
  <2>1. UNCHANGED <<initial, seeds, replays, diverged, failing, fresh, queue, stopped, stage>>
    BY <1>7, ShrinkBucketEffect
  <2> QED BY <1>7, <2>1, SessionKnowsUnchanged
<1>8. CASE UNCHANGED allVars
  BY <1>8, Stuttering, SessionKnowsUnchanged
<1> QED BY <1>1, <1>2, <1>3, <1>4, <1>5, <1>6, <1>7, <1>8, CommandCases

----------------------------------------------------------------------------
(* The exit code, and the corpus under the other commands *)

\* A trial of a single schedule makes the only row.
LEMMA OnlyRow ==
    ASSUME CommandTypes, NEW o \in waiting, NEW t \in Replay, Tried(o, t), asked = {o}
    PROVE  rows' = {[origin |-> o, trial |-> t]} /\ asked = {row.origin : row \in rows'}
<1>1. {row.origin : row \in rows} = {}
  BY DEF CommandTypes
<1>2. rows = {}
  BY <1>1
<1>3. rows' = {[origin |-> o, trial |-> t]}
  BY <1>2 DEF Tried
<1> DEFINE new == [origin |-> o, trial |-> t]
<1>4. new.origin = o /\ rows' = {new}
  BY <1>3
<1> HIDE DEF new
<1> QED BY <1>3, <1>4

\* What the exit code of a trial says.
LEMMA StatusTells ==
    ASSUME NEW t \in Replay
    PROVE  /\ Status(t) \in {Clean, Failed, Unknown}
           /\ Status(t) = Clean => t.faithful /\ t.sigs = {}
           /\ Status(t) = Failed => t.faithful /\ t.sigs # {}
BY DEF Status, Clean, Failed, Unknown

\* The largest code of several rows: one more row does not hide another.
LEMMA CombinedTells ==
    ASSUME CodeOfRows, code \in {Clean, Failed, Unknown}, NEW o, NEW t \in Replay,
           rows' = rows \cup {[origin |-> o, trial |-> t]},
           code' = Combined(code, Status(t))
    PROVE  CodeOfRows' /\ code' \in {Clean, Failed, Unknown}
<1> DEFINE new == [origin |-> o, trial |-> t]
<1>1. new.trial = t /\ rows' = rows \cup {new}
  OBVIOUS
<1> HIDE DEF new
<1>2. /\ code' \in {Clean, Failed, Unknown}
      /\ code' = Clean => code = Clean /\ Status(t) = Clean
      /\ code' = Failed => /\ code = Failed \/ Status(t) = Failed
                           /\ code # Unknown /\ Status(t) # Unknown
  BY StatusTells DEF Combined, Clean, Failed, Unknown
<1>3. code = Clean => \A row \in rows : row.trial.faithful /\ row.trial.sigs = {}
  BY DEF CodeOfRows
<1>4. code = Failed => /\ \A row \in rows : row.trial.faithful
                       /\ \E row \in rows : row.trial.sigs # {}
  BY DEF CodeOfRows
<1>5. ASSUME code' = Clean
      PROVE  \A row \in rows' : row.trial.faithful /\ row.trial.sigs = {}
  BY <1>1, <1>2, <1>3, <1>5, StatusTells
<1>6. ASSUME code' = Failed
      PROVE  /\ \A row \in rows' : row.trial.faithful
             /\ \E row \in rows' : row.trial.sigs # {}
  <2>1. t.faithful /\ \A row \in rows : row.trial.faithful
    BY <1>2, <1>3, <1>4, <1>6, StatusTells
  <2>2. CASE code = Failed
    BY <1>1, <1>4, <2>1, <2>2
  <2>3. CASE Status(t) = Failed
    BY <1>1, <2>1, <2>3, StatusTells
  <2> QED BY <1>2, <1>6, <2>2, <2>3
<1> QED BY <1>2, <1>5, <1>6 DEF CodeOfRows

\* Commands that leave the corpus as they found it disturb no entry.
LEMMA StoreUntouched ==
    ASSUME store' = initial'
    PROVE  ShrinkKeepsToEntry'
BY DEF ShrinkKeepsToEntry

\* Every step keeps the account of the rows and of the corpus.
LEMMA CommandKnowsStep ==
    ASSUME SessionTypes, CommandTypes, Phases, CommandKnows, [CommandNext]_allVars
    PROVE  CommandKnows'
<1> USE DEF CommandKnows
<1>1. CASE Starting
  <2>1. /\ command = None /\ stage = "load" /\ rows' = rows /\ code' = code
        /\ UNCHANGED <<store, initial>> /\ waiting' = asked'
    BY <1>1, StartEffect, Outside, OutsideIdle
  <2>2. store' = initial'
    BY <2>1 DEF StoreSoFar
  <2>3. CodeSoFar'
    BY <2>1 DEF CodeSoFar, CodeOfRows
  <2>4. AskedFor'
    BY <1>1, <2>1, StartEffect DEF AskedFor, Origins, Stored
  <2>5. CodeTells'
    BY <1>1, StartEffect DEF CodeTells
  <2> QED BY <2>2, <2>3, <2>4, <2>5, StoreUntouched DEF StoreSoFar
<1>2. CASE TrialRaises \/ Refuse \/ Exit
  <2>1. /\ command' = "exit" /\ UNCHANGED <<asked, rows, store, replays, initial>>
    BY <1>2, Outside, OutsideIdle DEF TrialRaises, Refuse, Exit
  <2>2. CodeSoFar' /\ AskedFor' /\ StoreSoFar'
    BY <2>1 DEF CodeSoFar, AskedFor, StoreSoFar, None
  <2>3. ShrinkKeepsToEntry'
    BY <2>1 DEF ShrinkKeepsToEntry
  <2>4. CASE TrialRaises \/ Refuse
    <3>1. code' \notin {Clean, Failed}
      BY <2>4 DEF TrialRaises, Refuse, Clean, Failed, Misused, Unloadable, Internal, Interrupted
    <3> QED BY <2>1, <2>2, <2>3, <3>1 DEF CodeTells
  <2>5. CASE Exit
    <3>1. code' = code /\ waiting = {} /\ CodeOfRows
      BY <2>5 DEF Exit, CodeSoFar
    <3>2. asked = {row.origin : row \in rows}
      BY <3>1 DEF CommandTypes
    <3>3. CodeTells'
      BY <2>1, <3>1, <3>2 DEF CodeTells, CodeOfRows
    <3> QED BY <2>2, <2>3, <3>3
  <2> QED BY <1>2, <2>4, <2>5
<1>3. CASE RunTrial
  <2>1. PICK o \in waiting : \E t \in TrialOf(o) :
            Tried(o, t) /\ code' = IF t.sigs = {} THEN Clean ELSE Failed
    BY <1>3 DEF RunTrial
  <2>2. PICK t \in TrialOf(o) :
            Tried(o, t) /\ code' = IF t.sigs = {} THEN Clean ELSE Failed
    BY <2>1
  <2>3. /\ command = "run" /\ command' = "run" /\ asked' = asked
        /\ UNCHANGED <<store, initial>>
    BY <1>3 DEF RunTrial, untouched
  <2>4. asked = {o} /\ o = "seed"
    BY <2>3 DEF AskedFor, CommandTypes
  <2>5. t \in Replay /\ t.faithful
    BY <2>4 DEF TrialOf
  <2>6. rows' = {[origin |-> o, trial |-> t]}
    BY <2>2, <2>4, <2>5, OnlyRow
  <2>7. CodeSoFar'
    BY <2>2, <2>5, <2>6 DEF CodeSoFar, CodeOfRows, Clean, Failed, Unknown
  <2>8. store' = initial'
    BY <2>3 DEF StoreSoFar
  <2>9. AskedFor' /\ StoreSoFar' /\ CodeTells'
    BY <2>3, <2>4, <2>8 DEF AskedFor, StoreSoFar, CodeTells, None
  <2> QED BY <2>7, <2>8, <2>9, StoreUntouched
<1>4. CASE ReplayRow
  <2>1. PICK o \in waiting : \E t \in TrialOf(o) :
            /\ Tried(o, t) /\ code' = Combined(code, Status(t))
            /\ store' = IF options /\ Status(t) = Clean THEN Forget(store, o) ELSE store
    BY <1>4 DEF ReplayRow
  <2>2. PICK t \in TrialOf(o) :
            /\ Tried(o, t) /\ code' = Combined(code, Status(t))
            /\ store' = IF options /\ Status(t) = Clean THEN Forget(store, o) ELSE store
    BY <2>1
  <2>3. /\ command = "replay" /\ command' = "replay" /\ asked' = asked
        /\ options' = options /\ initial' = initial
    BY <1>4 DEF ReplayRow, untouched
  <2>4. t \in Replay /\ rows' = rows \cup {[origin |-> o, trial |-> t]}
    BY <2>2 DEF TrialOf, Tried
  <2>5. CodeOfRows' /\ code' \in {Clean, Failed, Unknown}
    BY <2>2, <2>3, <2>4, CombinedTells DEF CodeSoFar
  <2>6. ASSUME NEW h \in Signature
        PROVE  store'[h] = initial'[h] \/ (h \in asked' /\ store'[h] = Nothing)
    <3>1. store[h] = initial[h] \/ (h \in asked /\ store[h] = Nothing)
      BY <2>3 DEF StoreSoFar
    <3>2. o \in asked /\ (store' = store \/ store' = Forget(store, o))
      BY <2>2 DEF CommandTypes
    <3>3. store'[h] = store[h] \/ (h = o /\ store'[h] = Nothing)
      BY <3>2 DEF Forget, SessionTypes
    <3> QED BY <2>3, <3>1, <3>2, <3>3
  <2>7. ShrinkKeepsToEntry'
    BY <2>6 DEF ShrinkKeepsToEntry
  <2> QED BY <2>3, <2>5, <2>6, <2>7 DEF CodeSoFar, AskedFor, StoreSoFar, CodeTells, None
<1>5. CASE TestTrial
  <2>1. PICK o \in waiting : \E t \in TrialOf(o) :
            Tried(o, t) /\ code' = IF t.faithful /\ t.sigs = {} THEN Clean ELSE Failed
    BY <1>5 DEF TestTrial
  <2>2. PICK t \in TrialOf(o) :
            Tried(o, t) /\ code' = IF t.faithful /\ t.sigs = {} THEN Clean ELSE Failed
    BY <2>1
  <2>3. /\ command = "test" /\ command' = "tested" /\ asked' = asked
        /\ UNCHANGED <<store, initial>>
    BY <1>5 DEF TestTrial, untouched
  <2>4. asked = {o} /\ t \in Replay
    BY <2>3 DEF AskedFor, TrialOf
  <2>5. rows' = {[origin |-> o, trial |-> t]} /\ asked = {row.origin : row \in rows'}
    BY <2>2, <2>4, OnlyRow
  <2>6. code' = Clean => \A row \in rows' : row.trial.faithful /\ row.trial.sigs = {}
    BY <2>2, <2>5 DEF Clean, Failed
  <2>7. CodeTells'
    BY <2>3, <2>5, <2>6 DEF CodeTells
  <2>8. store' = initial'
    BY <2>3 DEF StoreSoFar
  <2> QED BY <2>3, <2>7, <2>8, StoreUntouched DEF CodeSoFar, AskedFor, StoreSoFar, None
<1>6. CASE ShrinkSchedule
  <2>1. PICK o \in waiting : \E t \in TrialOf(o) :
          /\ Tried(o, t)
          /\ \/ /\ code' = (IF Status(t) = Failed THEN Unknown ELSE Status(t))
                /\ UNCHANGED store
             \/ /\ Status(t) = Failed /\ code' = Failed
                /\ \E g \in Targets(o, t) : \E minimal \in 0..t.made :
                      store' \in {store, IF options THEN Record(store, {g}, minimal) ELSE store}
             \/ code' \in {Unknown, Interrupted} /\ UNCHANGED store
    BY <1>6 DEF ShrinkSchedule
  <2>2. PICK t \in TrialOf(o) :
          /\ Tried(o, t)
          /\ \/ /\ code' = (IF Status(t) = Failed THEN Unknown ELSE Status(t))
                /\ UNCHANGED store
             \/ /\ Status(t) = Failed /\ code' = Failed
                /\ \E g \in Targets(o, t) : \E minimal \in 0..t.made :
                      store' \in {store, IF options THEN Record(store, {g}, minimal) ELSE store}
             \/ code' \in {Unknown, Interrupted} /\ UNCHANGED store
    BY <2>1
  <2>3. /\ command = "shrink" /\ command' = "exit" /\ asked' = asked /\ initial' = initial
    BY <1>6 DEF ShrinkSchedule, untouched
  <2>4. asked = {o} /\ t \in Replay /\ store = initial
    BY <2>3 DEF AskedFor, TrialOf, StoreSoFar
  <2>5. rows' = {[origin |-> o, trial |-> t]} /\ asked = {row.origin : row \in rows'}
    BY <2>2, <2>4, OnlyRow
  <2>6. code' = Clean => Status(t) = Clean
    BY <2>2 DEF Clean, Failed, Unknown, Interrupted
  <2>7. code' = Failed => Status(t) = Failed
    BY <2>2 DEF Clean, Failed, Unknown, Interrupted
  <2>8. CodeTells'
    BY <2>3, <2>4, <2>5, <2>6, <2>7, StatusTells DEF CodeTells, Clean, Failed
  <2>9. ASSUME o \in Signature, NEW h \in Signature
        PROVE  /\ h \notin asked' => store'[h] = initial'[h]
               /\ store'[h] \notin {Nothing, initial'[h]} =>
                      \E r \in replays'[h] : r.faithful /\ h \in r.sigs
    <3>1. CASE store' = store
      BY <2>3, <2>4, <3>1
    <3>2. CASE store' # store
      <4>1. PICK g \in Targets(o, t), minimal \in 0..t.made :
                Status(t) = Failed /\ store' = Record(store, {g}, minimal)
        BY <2>2, <3>2
      <4>2. g = o /\ o \in t.sigs /\ t.faithful
        BY <2>4, <2>9, <4>1, StatusTells DEF Targets
      <4>3. h # o => store'[h] = store[h]
        BY <4>1, <4>2 DEF Record
      <4>4. replays'[o] = {t}
        BY <2>2, <2>4, <2>9, TriedTypes
      <4> QED BY <2>3, <2>4, <4>2, <4>3, <4>4
    <3> QED BY <3>1, <3>2
  <2>10. ShrinkKeepsToEntry'
    BY <2>3, <2>4, <2>9 DEF ShrinkKeepsToEntry
  <2> QED BY <2>3, <2>8, <2>10 DEF CodeSoFar, AskedFor, StoreSoFar, None
<1>7. CASE command = "fuzz" /\ UNCHANGED commandVars
  <2>1. command' = "fuzz" /\ asked' = {}
    BY <1>7, SessionOnly DEF Phases
  <2> QED BY <2>1 DEF CodeSoFar, AskedFor, StoreSoFar, CodeTells, ShrinkKeepsToEntry, None
<1>8. CASE UNCHANGED allVars
  BY <1>8, Stuttering DEF CodeSoFar, CodeOfRows, AskedFor, StoreSoFar, CodeTells,
        ShrinkKeepsToEntry
<1> QED BY <1>1, <1>2, <1>3, <1>4, <1>5, <1>6, <1>7, <1>8, CommandCases

----------------------------------------------------------------------------
(* The theorems *)

\* The inductive invariant holds when main starts.
LEMMA CommandsInvInit == CommandInit => CommandsInv
<1> SUFFICES ASSUME CommandInit PROVE CommandsInv
  OBVIOUS
<1> USE DEF CommandInit, Init
<1>1. verdict \in [Schedule -> SUBSET Signature]
  <2>1. CASE Flaky
    BY <2>1
  <2>2. CASE ~Flaky
    BY <2>2
  <2> QED BY <2>1, <2>2
<1>2. SessionTypes
  BY <1>1, FuzzAssumption DEF SessionTypes
<1>3. CommandTypes /\ Phases
  BY DEF CommandTypes, Phases
<1>4. SessionKnows
  BY DEF SessionKnows, StopReason, ReplaysKnown, ReplaysFirst, SeedsTried, PassedIsClean
<1>5. CommandKnows
  BY DEF CommandKnows, CodeSoFar, CodeOfRows, AskedFor, StoreSoFar, CodeTells,
         ShrinkKeepsToEntry, None, Clean, Failed, Unknown
<1>6. OldEvidenceKept
  <2>1. \A g \in Signature : initial[g] # Nothing => initial[g] \in Int
    BY Schedules
  <2> QED BY <2>1 DEF OldEvidenceKept
<1> QED BY <1>2, <1>3, <1>4, <1>5, <1>6 DEF CommandsInv

\* The inductive invariant is preserved by every step.
LEMMA CommandsInvStep == CommandsInv /\ [CommandNext]_allVars => CommandsInv'
BY SessionTypesStep, CommandTypesStep, PhasesStep, SessionKnowsStep, OldEvidenceStep,
   CommandKnowsStep DEF CommandsInv

\* Every reachable state of an invocation satisfies the strengthening, whatever
\* the corpus, the scenario and the options of the session are.
THEOREM CommandsInvAlways == CommandSpec => []CommandsInv
BY CommandsInvInit, CommandsInvStep, PTL DEF CommandSpec

\* Old evidence is given up only for a replay that followed it faithfully and passed.
THEOREM OldEvidenceAlways == CommandSpec => []OldEvidenceKept
<1>1. CommandsInv => OldEvidenceKept
  BY DEF CommandsInv
<1> QED BY <1>1, CommandsInvAlways, PTL

\* A session that passes has seen no failure, and, unless time ran out, has replayed
\* every stored failure faithfully and tried every seed there was.
THEOREM PassedIsCleanAlways == CommandSpec => []PassedIsClean
<1>1. CommandsInv => PassedIsClean
  BY DEF CommandsInv, SessionKnows
<1> QED BY <1>1, CommandsInvAlways, PTL

\* The exit codes 0 and 1 say what the trials of the command have shown.
THEOREM CodeTellsAlways == CommandSpec => []CodeTells
<1>1. CommandsInv => CodeTells
  BY DEF CommandsInv, CommandKnows
<1> QED BY <1>1, CommandsInvAlways, PTL

\* Minimising a stored failure replaces no other entry, and its own only by
\* evidence of the same failure.
THEOREM ShrinkKeepsToEntryAlways == CommandSpec => []ShrinkKeepsToEntry
<1>1. CommandsInv => ShrinkKeepsToEntry
  BY DEF CommandsInv, CommandKnows
<1> QED BY <1>1, CommandsInvAlways, PTL

\* A session that stops at its first failure has every failure it saw in the
\* corpus at its end.  Without fail_fast a later replay may forget one again.
THEOREM FailuresKeptAlways ==
    ASSUME FailFast
    PROVE  CommandSpec => []FailuresKept
<1>1. CommandInit => FailuresStored
  BY DEF CommandInit, Init, FailuresStored
<1>2. FailuresStored /\ CommandsInv /\ [CommandNext]_allVars => FailuresStored'
  BY FailuresStoredStep DEF CommandsInv
<1>3. FailuresStored => FailuresKept
  BY DEF FailuresStored, FailuresKept
<1> QED BY <1>1, <1>2, <1>3, CommandsInvAlways, PTL DEF CommandSpec

----------------------------------------------------------------------------
(* The counts of the type invariant, for finitely many signatures *)

\* The entries whose replay was not faithful.
Diverged == {g \in Signature : \E r \in replays[g] : ~r.faithful}

Counts ==
    /\ diverged <= Cardinality(Diverged)
    /\ IsFiniteSet(rows) /\ Cardinality(rows) = Cardinality(asked \ waiting)

\* There are finitely many origins of a schedule, and so of everything counted.
LEMMA FiniteOrigins ==
    ASSUME IsFiniteSet(Signature)
    PROVE  /\ \A S \in SUBSET Origins : IsFiniteSet(S)
           /\ \A S \in SUBSET Signature : IsFiniteSet(S) /\ Cardinality(S) \in Nat
<1>1. IsFiniteSet({"file"}) /\ IsFiniteSet({"seed"})
  BY FS_Singleton
<1>2. IsFiniteSet({"file"} \cup {"seed"})
  BY <1>1, FS_Union
<1>3. Unstored = {"file"} \cup {"seed"}
  BY DEF Unstored
<1>4. IsFiniteSet(Origins)
  BY <1>2, <1>3, FS_Union DEF Origins
<1> QED BY <1>4, FS_Subset, FS_CardinalityType

\* A schedule that is tried adds one row, and one to what no longer waits.
LEMMA OneMoreRow ==
    ASSUME IsFiniteSet(Signature), CommandTypes, IsFiniteSet(rows),
           Cardinality(rows) = Cardinality(asked \ waiting),
           NEW o \in waiting, NEW t \in Replay, Tried(o, t)
    PROVE  IsFiniteSet(rows') /\ Cardinality(rows') = Cardinality(asked \ waiting')
<1> DEFINE new == [origin |-> o, trial |-> t]
<1>1. new.origin = o /\ rows' = rows \cup {new} /\ waiting' = waiting \ {o}
  BY DEF Tried
<1> HIDE DEF new
<1>2. new \notin rows
  BY <1>1 DEF CommandTypes
<1>3. IsFiniteSet(rows') /\ Cardinality(rows') = Cardinality(rows) + 1
  BY <1>1, <1>2, FS_AddElement
<1>4. asked \ waiting' = (asked \ waiting) \cup {o} /\ o \notin asked \ waiting
  BY <1>1 DEF CommandTypes
<1>5. IsFiniteSet(asked \ waiting)
  BY FiniteOrigins DEF CommandTypes
<1>6. Cardinality((asked \ waiting) \cup {o}) = Cardinality(asked \ waiting) + 1
  BY <1>4, <1>5, FS_AddElement
<1> QED BY <1>3, <1>4, <1>6

\* Every step keeps the counts.
LEMMA CountsStep ==
    ASSUME IsFiniteSet(Signature), SessionTypes, CommandTypes, Phases, Counts,
           [CommandNext]_allVars
    PROVE  Counts'
<1> USE DEF Counts
<1>0. Cardinality(Diverged) \in Nat /\ Diverged' \subseteq Signature /\ diverged \in Nat
  BY FiniteOrigins DEF Diverged, SessionTypes
<1>1. CASE Starting
  <2>1. diverged' = diverged /\ Diverged' = Diverged
    BY <1>1, Outside, OutsideIdle DEF Diverged
  <2>2. rows' = {} /\ asked' \ waiting' = {}
    BY <1>1, StartEffect, OutsideIdle
  <2> QED BY <2>1, <2>2, FS_EmptySet
<1>2. CASE TrialRaises \/ Refuse \/ Exit
  <2>1. diverged' = diverged /\ Diverged' = Diverged /\ UNCHANGED <<asked, waiting, rows>>
    BY <1>2, Outside, OutsideIdle DEF Diverged, TrialRaises, Refuse, Exit
  <2> QED BY <2>1
<1>3. CASE RunTrial \/ ReplayRow \/ ShrinkSchedule \/ TestTrial
  <2>1. PICK o \in waiting, t \in Replay : Tried(o, t)
    BY <1>3, CommandStores
  <2>2. IsFiniteSet(rows') /\ Cardinality(rows') = Cardinality(asked \ waiting')
    BY <2>1, OneMoreRow
  <2>3. asked' = asked /\ command # "fuzz"
    BY <1>3 DEF RunTrial, ReplayRow, ShrinkSchedule, TestTrial
  <2>4. diverged' = 0
    BY <1>3, <2>3, Outside DEF Phases
  <2>5. Cardinality(Diverged') \in Nat
    BY <1>0, FiniteOrigins
  <2> QED BY <2>2, <2>3, <2>4, <2>5
<1>4. CASE UNCHANGED commandVars /\ (Bookkeeping \/ FreshTrial \/ ShrinkBucket)
  <2>1. UNCHANGED <<replays, diverged>>
    BY <1>4 DEF Bookkeeping, TimeOut, Load, CorpusEnds, FreshEnds, Raise, PluginReports,
          CommandReports, FreshTrial, ShrinkBucket, sessionVars
  <2>2. Diverged' = Diverged
    BY <2>1 DEF Diverged
  <2> QED BY <1>4, <2>1, <2>2, SessionOnly
<1>5. CASE UNCHANGED commandVars /\ ReplayEntry
  <2>1. PICK g \in queue, r \in Replay :
              /\ replays' = [replays EXCEPT ![g] = {r}]
              /\ \/ ~r.faithful /\ diverged' = diverged + 1
                 \/ r.faithful /\ diverged' = diverged
    BY <1>5, ReplayEntryEffect
  <2>2. g \in Signature /\ replays[g] = {} /\ g \notin Diverged
    BY DEF SessionTypes, Phases, Diverged
  <2>3. \A h \in Signature : replays'[h] = IF h = g THEN {r} ELSE replays[h]
    BY <2>1 DEF SessionTypes
  <2>4. CASE r.faithful
    <3>1. Diverged' = Diverged
      BY <2>2, <2>3, <2>4 DEF Diverged
    <3> QED BY <1>5, <2>1, <2>4, <3>1, SessionOnly
  <2>5. CASE ~r.faithful
    <3>1. Diverged' = Diverged \cup {g}
      BY <2>2, <2>3, <2>5 DEF Diverged
    <3>2. IsFiniteSet(Diverged)
      BY FiniteOrigins DEF Diverged
    <3>3. Cardinality(Diverged \cup {g}) = Cardinality(Diverged) + 1
      BY <2>2, <3>2, FS_AddElement
    <3> QED BY <1>0, <1>5, <2>1, <2>5, <3>1, <3>3, SessionOnly
  <2> QED BY <2>4, <2>5
<1>6. CASE UNCHANGED allVars
  BY <1>6, Stuttering DEF Diverged
<1> QED BY <1>1, <1>2, <1>3, <1>4, <1>5, <1>6, CommandCases

\* Every variable of an invocation keeps its type; a schedule is tried once, and a
\* divergence counted once.  Finitely many signatures make the counts meaningful.
THEOREM CommandsTypeCorrect ==
    ASSUME IsFiniteSet(Signature)
    PROVE  CommandSpec => []CommandsTypeOK
<1>1. CommandInit => Counts
  <2> SUFFICES ASSUME CommandInit PROVE Counts
    OBVIOUS
  <2>1. rows = {} /\ asked \ waiting = {} /\ Diverged = {} /\ diverged = 0
    BY DEF CommandInit, Init, Diverged
  <2> QED BY <2>1, FS_EmptySet DEF Counts
<1>2. Counts /\ CommandsInv /\ [CommandNext]_allVars => Counts'
  BY CountsStep DEF CommandsInv
<1>3. Counts /\ CommandsInv => CommandsTypeOK
  <2> SUFFICES ASSUME Counts, CommandsInv PROVE CommandsTypeOK
    OBVIOUS
  <2>1. SessionTypes /\ CommandTypes /\ Phases
    BY DEF CommandsInv
  <2>2. Cardinality(Diverged) \in Nat
    BY FiniteOrigins DEF Diverged
  <2>3. diverged \in 0..Cardinality(Diverged)
    BY <2>1, <2>2 DEF SessionTypes, Counts
  <2>4. TypeOK
    BY <2>1, <2>3 DEF TypeOK, SessionTypes, Phases, Diverged
  <2>5. \A row \in rows : row.origin \in asked \ waiting
    BY <2>1 DEF CommandTypes
  <2> QED BY <2>1, <2>4, <2>5 DEF CommandsTypeOK, CommandTypes, Counts
<1> QED BY <1>1, <1>2, <1>3, CommandsInvAlways, PTL DEF CommandSpec

=============================================================================
