---------------------------- MODULE ReplayProofs ----------------------------
(***************************************************************************)
(* Proofs about Replay, for every value of its constants.                  *)
(***************************************************************************)
EXTENDS Replay, QueueLemmas

\* A choice is a position of the queue it was made in.
LEMMA StepFields ==
    ASSUME NEW s \in Step
    PROVE  /\ s.queue \in Queue /\ s.chosen \in DOMAIN s.queue
           /\ s.chosen \in 1..MaxQueue
           /\ s = [queue |-> s.queue, chosen |-> s.chosen]
BY DEF Step

\* The positions of a queue.
LEMMA QueueDomain ==
    ASSUME NEW q \in Queue
    PROVE  \E n \in 1..MaxQueue : DOMAIN q = 1..n
BY DEF Queue

\* What a mode says: the flags are Booleans, the scenario offers queues.
LEMMA SettingFields ==
    ASSUME TypeOK
    PROVE  Strict \in BOOLEAN /\ Identities \in BOOLEAN /\ Offers \subseteq Queue
BY ReplayAssumption DEF TypeOK, Strict, Identities, Offers

\* The candidates offered are a queue of the scenario.
LEMMA OfferedQueues ==
    ASSUME TypeOK
    PROVE  Offered \subseteq Queue
<1>1. CASE Same /\ position < Len(log)
  <2>1. position + 1 \in 1..Len(log)
    BY <1>1 DEF TypeOK, position
  <2>2. log[position + 1] \in Step
    BY <2>1 DEF TypeOK
  <2> QED BY <1>1, <2>2, StepFields DEF Offered
<1>2. CASE ~(Same /\ position < Len(log))
  BY <1>2, SettingFields DEF Offered
<1> QED BY <1>1, <1>2

\* What every way to answer a request amounts to: an entry of the replay's trace
\* and at most one divergence, or a mismatch that leaves the trace as it was.
LEMMA ChoiceEffect ==
    ASSUME TypeOK, phase = "replaying", NEW queue \in Queue, Choose(queue)
    PROVE  /\ UNCHANGED <<mode, log, edited>>
           /\ \/ /\ phase' = phase
                 /\ \E i \in DOMAIN queue :
                        executed' = Append(executed, [queue |-> queue, chosen |-> i])
              \/ phase' = "mismatch" /\ executed' = executed
           /\ \/ divergences' = divergences
              \/ \E kind \in Hard \cup {"drift", "exhausted"} : divergences' = Note(kind)
<1>1. 1 \in DOMAIN queue
  BY QueueDomain, ReplayAssumption
<1>2. CASE Exhausted(queue)
  BY <1>1, <1>2 DEF Exhausted, Return
<1>3. CASE FollowTask(queue)
  <2> DEFINE S == OfTask(queue, RequestedTask)
  <2>1. PICK n \in 1..MaxQueue : DOMAIN queue = 1..n
    BY QueueDomain
  <2>2. S \subseteq 1..n /\ S # {} /\ n \in Nat
    BY <1>3, <2>1, ReplayAssumption DEF FollowTask, OfTask
  <2>3. First(S) \in S
    <3>1. \E i \in S : \A j \in S : i <= j
      BY <2>2, LeastNat
    <3> QED BY <3>1 DEF First
  <2>4. First(S) \in DOMAIN queue
    BY <2>1, <2>2, <2>3
  <2>5. /\ divergences' = (IF First(S) = Requested THEN divergences ELSE Note("drift"))
        /\ Return(queue, First(S))
    BY <1>3 DEF FollowTask
  <2> QED BY <2>4, <2>5 DEF Return
<1>4. CASE TaskAbsent(queue)
  BY <1>1, <1>4 DEF TaskAbsent, Fallback, Return, Hard
<1>5. CASE FollowPosition(queue)
  BY <1>5 DEF FollowPosition, InRange, Return
<1>6. CASE PositionOutOfRange(queue)
  BY <1>1, <1>6 DEF PositionOutOfRange, Fallback, Return, Hard
<1> QED BY <1>2, <1>3, <1>4, <1>5, <1>6 DEF Choose

\* Every step keeps the replay well typed.
LEMMA TypeStep ==
    ASSUME TypeOK, [Next]_vars
    PROVE  TypeOK'
<1> USE DEF TypeOK
<1>1. CASE Record
  <2>1. PICK s \in Step : log' = Append(log, s)
    BY <1>1 DEF Record
  <2>2. log' \in Seq(Step)
    BY <2>1, AppendProperties
  <2> QED BY <1>1, <2>2 DEF Record
<1>2. CASE StartReplay
  BY <1>2, ReplayAssumption DEF StartReplay
<1>3. CASE ReplayStep
  <2>1. PICK queue \in Queue : Choose(queue)
    BY <1>3, OfferedQueues DEF ReplayStep
  <2>2. phase = "replaying" /\ position \in 0..MaxLength
    BY <1>3, ReplayAssumption DEF ReplayStep, position
  <2>3. /\ UNCHANGED <<mode, log, edited>>
        /\ \/ /\ phase' = phase
              /\ \E i \in DOMAIN queue :
                     executed' = Append(executed, [queue |-> queue, chosen |-> i])
           \/ phase' = "mismatch" /\ executed' = executed
        /\ \/ divergences' = divergences
           \/ \E kind \in Hard \cup {"drift", "exhausted"} : divergences' = Note(kind)
    BY <2>1, <2>2, ChoiceEffect
  <2>4. executed' \in Seq(Step)
    <3>1. ASSUME NEW i \in DOMAIN queue
          PROVE  [queue |-> queue, chosen |-> i] \in Step
      <4>1. MaxQueue \in Nat
        BY ReplayAssumption
      <4>2. i \in 1..MaxQueue
        BY <4>1, QueueDomain
      <4> QED BY <4>2 DEF Step
    <3>2. ASSUME NEW i \in DOMAIN queue,
                 executed' = Append(executed, [queue |-> queue, chosen |-> i])
          PROVE  executed' \in Seq(Step)
      <4> DEFINE s == [queue |-> queue, chosen |-> i]
      <4>1. s \in Step /\ executed \in Seq(Step)
        BY <3>1
      <4> HIDE DEF s
      <4> QED BY <3>2, <4>1, AppendProperties DEF s
    <3>3. executed' = executed => executed' \in Seq(Step)
      OBVIOUS
    <3> QED BY <2>3, <3>2, <3>3
  <2>5. divergences' \in Seq([step : 0..MaxLength, kind : Hard \cup {"drift", "exhausted"}])
    <3> DEFINE D == [step : 0..MaxLength, kind : Hard \cup {"drift", "exhausted"}]
    <3>1. ASSUME NEW kind \in Hard \cup {"drift", "exhausted"}, divergences' = Note(kind)
          PROVE  divergences' \in Seq(D)
      <4> DEFINE d == [step |-> position, kind |-> kind]
      <4>1. d \in D /\ divergences \in Seq(D) /\ divergences' = Append(divergences, d)
        BY <2>2, <3>1 DEF Note
      <4> HIDE DEF d, D
      <4> QED BY <4>1, AppendProperties
    <3>2. divergences' = divergences => divergences' \in Seq(D)
      OBVIOUS
    <3> QED BY <2>3, <3>1, <3>2
  <2> QED BY <2>2, <2>3, <2>4, <2>5
<1>4. CASE ScenarioEnds
  BY <1>4 DEF ScenarioEnds
<1>5. CASE UNCHANGED vars
  BY <1>5 DEF vars
<1> QED BY <1>1, <1>2, <1>3, <1>4, <1>5 DEF Next

\* The initial state is well typed.
LEMMA TypeInit == Init => TypeOK
BY EmptySeq DEF Init, TypeOK

\* Every variable of the replay keeps its type, whatever was recorded.
THEOREM TypeCorrect == Spec => []TypeOK
<1>1. TypeOK /\ [Next]_vars => TypeOK'
  BY TypeStep
<1> QED BY <1>1, TypeInit, PTL DEF Spec

----------------------------------------------------------------------------
(* Fidelity of the replay of one's own recording *)

Faithful ==
    /\ FaithfulReplay
    /\ \A k \in DOMAIN log : log[k].queue \in Offers
    /\ phase = "recording" => executed = << >> /\ divergences = << >> /\ ~edited

\* Offered the recorded queue, choose picks the recorded callback, provided no
\* other candidate has its identity (or identities are not used).
LEMMA FaithfulChoice ==
    ASSUME TypeOK, Same, position < Len(log),
           Identities => Distinct(log[position + 1].queue),
           Choose(log[position + 1].queue)
    PROVE  /\ executed' = Append(executed, log[position + 1])
           /\ UNCHANGED <<phase, log, edited, divergences>>
<1> DEFINE s == log[position + 1]
<1>1. s \in Step /\ position + 1 \in 1..Len(log)
  <2>1. position + 1 \in 1..Len(log)
    BY DEF TypeOK, position
  <2> QED BY <2>1 DEF TypeOK
<1>2. /\ s.queue \in Queue /\ s.chosen \in DOMAIN s.queue
      /\ s = [queue |-> s.queue, chosen |-> s.chosen]
  BY <1>1, StepFields
<1>3. Choose(s.queue) /\ Requested = s.chosen
  BY DEF Requested
<1>4. position < Len(log) /\ ~(position >= Len(log))
  BY DEF TypeOK, position
<1> HIDE DEF s
<1>5. CASE FollowTask(s.queue)
  <2>1. Identities /\ RequestedTask # NoTask /\ RequestedTask = s.queue[s.chosen]
    BY <1>5 DEF FollowTask, RequestedTask, Ran, s
  <2>2. \A i, j \in DOMAIN s.queue :
            s.queue[i] = s.queue[j] /\ s.queue[i] # NoTask => i = j
    BY <2>1 DEF Distinct, s
  <2>3. OfTask(s.queue, RequestedTask) = {s.chosen}
    BY <1>2, <2>1, <2>2 DEF OfTask
  <2>4. First({s.chosen}) = s.chosen
    <3>1. s.chosen \in Int
      BY <1>2, QueueDomain
    <3> QED BY <3>1 DEF First
  <2>5. divergences' = divergences /\ Return(s.queue, s.chosen)
    BY <1>3, <1>5, <2>3, <2>4 DEF FollowTask
  <2> QED BY <1>2, <2>5 DEF Return, s
<1>6. CASE FollowPosition(s.queue)
  <2>1. Return(s.queue, s.chosen) /\ divergences' = divergences
    BY <1>3, <1>6 DEF FollowPosition
  <2> QED BY <1>2, <2>1 DEF Return, s
<1>7. ~Exhausted(s.queue)
  BY <1>4 DEF Exhausted
<1>8. ~TaskAbsent(s.queue)
  <2>1. ASSUME TaskAbsent(s.queue) PROVE FALSE
    <3>1. RequestedTask = s.queue[s.chosen]
      BY <2>1 DEF TaskAbsent, RequestedTask, Ran, s
    <3> QED BY <1>2, <2>1, <3>1 DEF TaskAbsent, OfTask
  <2> QED BY <2>1
<1>9. ~PositionOutOfRange(s.queue)
  BY <1>2, <1>3 DEF PositionOutOfRange, InRange
<1> QED BY <1>3, <1>5, <1>6, <1>7, <1>8, <1>9 DEF Choose

\* The strengthening of FaithfulReplay holds initially.
LEMMA FaithfulInit == Init => Faithful
BY DEF Init, Faithful, FaithfulReplay, Same, position

\* Every step of the replay keeps it faithful.
LEMMA FaithfulStep ==
    ASSUME TypeOK, Faithful, [Next]_vars,
           \A m \in DOMAIN Setting :
               Setting[m].byTask => \A q \in Setting[m].offers : Distinct(q)
    PROVE  Faithful'
<1> USE DEF Faithful, FaithfulReplay
<1>1. CASE Record
  <2>1. /\ phase' = "recording" /\ executed' = << >> /\ divergences' = << >> /\ ~edited'
    BY <1>1 DEF Record
  <2>2. log' \in Seq(Step)
    BY <1>1, TypeStep DEF TypeOK, Next
  <2>3. Same'
    BY <2>1, <2>2 DEF Same, position
  <2>4. PICK s \in Step : s.queue \in Offers /\ log' = Append(log, s)
    BY <1>1 DEF Record
  <2>5. UNCHANGED Offers
    BY <1>1 DEF Record, Offers
  <2>6. \A k \in DOMAIN log' : log'[k].queue \in Offers
    BY <2>4, AppendProperties DEF TypeOK
  <2> QED BY <2>1, <2>3, <2>5, <2>6
<1>2. CASE StartReplay
  <2>1. UNCHANGED <<log, executed, divergences>> /\ phase' = "replaying" /\ ~edited
    BY <1>2 DEF StartReplay
  <2>2. Same /\ divergences = << >>
    BY <2>1
  <2>3. UNCHANGED Offers
    BY <1>2 DEF StartReplay, Offers
  <2> QED BY <2>1, <2>2, <2>3 DEF Same, position
<1>3. CASE ReplayStep
  <2> SUFFICES ASSUME ~edited'
               PROVE  Same' /\ divergences' = << >> /\ phase' = "replaying"
    <3>1. /\ phase = "replaying" /\ phase' # "recording" /\ phase' # "finished"
          /\ UNCHANGED <<edited, log, mode>>
      BY <1>3, OfferedQueues, ChoiceEffect DEF ReplayStep
    <3>2. UNCHANGED Offers
      BY <3>1 DEF Offers
    <3> QED BY <3>1, <3>2 DEF Same
  <2>1. PICK queue \in Offered : Choose(queue)
    BY <1>3 DEF ReplayStep
  <2>2. phase = "replaying" /\ UNCHANGED edited
    BY <1>3, <2>1, OfferedQueues, ChoiceEffect DEF ReplayStep
  <2>3. Same /\ divergences = << >>
    BY <2>2
  <2>4. position < Len(log) /\ queue = log[position + 1].queue
    BY <2>1, <2>3 DEF Offered
  <2>5. executed' = Append(executed, log[position + 1]) /\ UNCHANGED <<phase, log, divergences>>
    <3>1. log[position + 1].queue \in Offers
      BY <2>4 DEF TypeOK, position
    <3>2. Identities => Distinct(log[position + 1].queue)
      BY <3>1 DEF Identities, Offers, TypeOK
    <3> QED BY <2>1, <2>3, <2>4, <3>2, FaithfulChoice
  <2>6. /\ executed \in Seq(Step) /\ log[position + 1] \in Step
        /\ position \in Nat /\ Len(log) \in Nat /\ position + 1 \in 1..Len(log)
    BY <2>4 DEF TypeOK, position
  <2>7. /\ Len(executed') = position + 1 /\ executed'[position + 1] = log[position + 1]
        /\ \A k \in 1..position : executed'[k] = executed[k]
    BY <2>5, <2>6, AppendProperties DEF position
  <2>8. \A k \in 1..(position + 1) : executed'[k] = log[k]
    BY <2>3, <2>6, <2>7 DEF Same
  <2>9. Same'
    BY <2>2, <2>4, <2>5, <2>6, <2>7, <2>8 DEF Same, position
  <2> QED BY <2>2, <2>3, <2>5, <2>9
<1>4. CASE ScenarioEnds
  <2>1. UNCHANGED <<log, edited, executed, divergences>> /\ phase' = "finished"
    BY <1>4 DEF ScenarioEnds
  <2>2. ASSUME ~edited PROVE executed = log
    <3>1. Same /\ position = Len(log)
      BY <1>4, <2>2 DEF ScenarioEnds
    <3> QED BY <3>1, SeqEqual DEF Same, position, TypeOK
  <2>3. UNCHANGED Offers
    BY <1>4 DEF ScenarioEnds, Offers
  <2> QED BY <2>1, <2>2, <2>3 DEF Same, position
<1>5. CASE UNCHANGED vars
  BY <1>5 DEF vars, Same, position, Offers
<1> QED BY <1>1, <1>2, <1>3, <1>4, <1>5 DEF Next

\* The replay of a recording of the same scenario executes the same callbacks
\* to the end and notes nothing, whatever the scenario offers: by position
\* always, by identity as long as no task has two callbacks in a queue.
THEOREM FaithfulReplayAlways ==
    ASSUME \A m \in DOMAIN Setting :
               Setting[m].byTask => \A q \in Setting[m].offers : Distinct(q)
    PROVE  Spec => []FaithfulReplay
<1>1. TypeOK /\ Faithful /\ [Next]_vars => Faithful'
  BY FaithfulStep
<1>2. Faithful => FaithfulReplay
  BY DEF Faithful
<1> QED BY <1>1, <1>2, FaithfulInit, TypeCorrect, PTL DEF Spec

----------------------------------------------------------------------------
(* No silent divergence *)

Flagged(k) ==
    \E n \in DOMAIN divergences :
        divergences[n].kind \in Hard /\ divergences[n].step = k - 1

\* A step that runs another identity than the one requested notes an absence.
LEMMA ChoiceNoted ==
    ASSUME TypeOK, phase = "replaying", Identities,
           NEW queue \in Queue, Choose(queue), executed' # executed
    PROVE  \E i \in DOMAIN queue :
              /\ executed' = Append(executed, [queue |-> queue, chosen |-> i])
              /\ position + 1 <= Len(log) =>
                     \/ Ran(log[position + 1]) \in {NoTask, queue[i]}
                     \/ divergences' = Note("absent")
<1>1. 1 \in DOMAIN queue
  BY QueueDomain, ReplayAssumption
<1>2. RequestedTask = Ran(log[position + 1])
  BY DEF RequestedTask
<1>3. position \in Nat /\ Len(log) \in Nat
  BY DEF TypeOK, position
<1>4. CASE Exhausted(queue)
  <2>1. ~(position + 1 <= Len(log))
    BY <1>3, <1>4 DEF Exhausted
  <2> QED BY <1>1, <1>4, <2>1 DEF Exhausted, Return
<1>5. CASE FollowTask(queue)
  <2> DEFINE S == OfTask(queue, RequestedTask)
  <2>1. PICK n \in 1..MaxQueue : DOMAIN queue = 1..n
    BY QueueDomain
  <2>2. S \subseteq 1..n /\ S # {} /\ n \in Nat
    BY <1>5, <2>1, ReplayAssumption DEF FollowTask, OfTask
  <2>3. First(S) \in S
    <3>1. \E i \in S : \A j \in S : i <= j
      BY <2>2, LeastNat
    <3> QED BY <3>1 DEF First
  <2>4. First(S) \in DOMAIN queue /\ queue[First(S)] = RequestedTask
    BY <2>3 DEF OfTask
  <2>5. executed' = Append(executed, [queue |-> queue, chosen |-> First(S)])
    BY <1>5 DEF FollowTask, Return
  <2> QED BY <1>2, <2>4, <2>5
<1>6. CASE TaskAbsent(queue)
  BY <1>1, <1>6 DEF TaskAbsent, Fallback, Return
<1>7. CASE FollowPosition(queue)
  BY <1>2, <1>7 DEF FollowPosition, InRange, Return
<1>8. CASE PositionOutOfRange(queue)
  BY <1>1, <1>2, <1>8 DEF PositionOutOfRange, Fallback, Return
<1> QED BY <1>4, <1>5, <1>6, <1>7, <1>8 DEF Choose

\* A note, once made, stays.
LEMMA NotesStay ==
    ASSUME TypeOK, NEW kind, divergences' = divergences \/ divergences' = Note(kind),
           NEW k, Flagged(k)
    PROVE  Flagged(k)'
<1>1. PICK n \in DOMAIN divergences :
          divergences[n].kind \in Hard /\ divergences[n].step = k - 1
  BY DEF Flagged
<1>2. CASE divergences' = divergences
  BY <1>1, <1>2 DEF Flagged
<1>3. CASE divergences' = Note(kind)
  <2>1. \E D : divergences \in Seq(D)
    BY DEF TypeOK
  <2>2. n \in 1..Len(divergences) /\ Len(divergences) \in Nat
    BY <1>1, <2>1
  <2>3. n \in DOMAIN divergences' /\ divergences'[n] = divergences[n]
    BY <1>3, <2>1, <2>2 DEF Note
  <2> QED BY <1>1, <2>3 DEF Flagged
<1> QED BY <1>2, <1>3

Noted ==
    /\ phase = "recording" => executed = << >>
    /\ Identities =>
           \A k \in 1..position :
               k <= Len(log) /\ Ran(log[k]) \notin {NoTask, Ran(executed[k])} => Flagged(k)

\* Every step that executes another task notes a hard divergence.
LEMMA NotedStep ==
    ASSUME TypeOK, Noted, [Next]_vars
    PROVE  Noted'
<1> USE DEF Noted
<1>1. CASE Record
  BY <1>1 DEF Record, position, Identities
<1>2. CASE StartReplay
  BY <1>2 DEF StartReplay, position, Identities
<1>3. CASE ReplayStep
  <2>1. PICK queue \in Queue : Choose(queue)
    BY <1>3, OfferedQueues DEF ReplayStep
  <2>2. phase = "replaying"
    BY <1>3 DEF ReplayStep
  <2>3. log' = log /\ phase' # "recording" /\ UNCHANGED Identities
    BY <2>1, <2>2, ChoiceEffect DEF Identities
  <2>4. PICK kind : divergences' = divergences \/ divergences' = Note(kind)
    BY <2>1, <2>2, ChoiceEffect
  <2>5. \A k : Flagged(k) => Flagged(k)'
    BY <2>4, NotesStay
  <2>6. CASE executed' = executed
    BY <2>3, <2>5, <2>6 DEF position
  <2>7. CASE executed' # executed
    <3> SUFFICES ASSUME Identities, NEW k \in 1..position', k <= Len(log),
                        Ran(log[k]) \notin {NoTask, Ran(executed'[k])}
                 PROVE  Flagged(k)'
      BY <2>3
    <3>1. PICK i \in DOMAIN queue :
             /\ executed' = Append(executed, [queue |-> queue, chosen |-> i])
             /\ position + 1 <= Len(log) =>
                    \/ Ran(log[position + 1]) \in {NoTask, queue[i]}
                    \/ divergences' = Note("absent")
      BY <2>1, <2>2, <2>7, ChoiceNoted
    <3> DEFINE s == [queue |-> queue, chosen |-> i]
    <3>2. Ran(s) = queue[i]
      BY DEF Ran
    <3>3. executed \in Seq(Step) /\ position \in Nat
      BY DEF TypeOK, position
    <3>4. executed' = Append(executed, s)
      BY <3>1
    <3> HIDE DEF s
    <3>5. /\ position' = position + 1 /\ executed'[position + 1] = s
          /\ \A j \in 1..position : executed'[j] = executed[j]
      BY <3>3, <3>4 DEF position
    <3>6. CASE k \in 1..position
      <4>1. Flagged(k)
        BY <3>5, <3>6
      <4> QED BY <2>5, <4>1
    <3>7. CASE k = position + 1
      <4>1. divergences' = Note("absent")
        BY <3>1, <3>2, <3>5, <3>7
      <4>2. \E D : divergences \in Seq(D)
        BY DEF TypeOK
      <4>3. /\ Len(divergences) + 1 \in DOMAIN divergences'
            /\ divergences'[Len(divergences) + 1] = [step |-> position, kind |-> "absent"]
        BY <4>1, <4>2 DEF Note
      <4>4. k - 1 = position /\ "absent" \in Hard
        BY <3>3, <3>7 DEF Hard
      <4> QED BY <4>3, <4>4 DEF Flagged
    <3> QED BY <3>3, <3>5, <3>6, <3>7
  <2> QED BY <2>6, <2>7
<1>4. CASE ScenarioEnds
  BY <1>4 DEF ScenarioEnds, position, Flagged, Identities
<1>5. CASE UNCHANGED vars
  BY <1>5 DEF vars, position, Flagged, Identities
<1> QED BY <1>1, <1>2, <1>3, <1>4, <1>5 DEF Next

\* Even of an edited scenario, an identity replay never runs another task than
\* the one recorded for the step without a hard divergence for that step.
THEOREM NoSilentDivergenceAlways == Spec => []NoSilentDivergence
<1>1. Init => Noted
  BY DEF Init, Noted, position
<1>2. TypeOK /\ Noted /\ [Next]_vars => Noted'
  BY NotedStep
<1>3. Noted => NoSilentDivergence
  BY DEF Noted, NoSilentDivergence, Flagged
<1> QED BY <1>1, <1>2, <1>3, TypeCorrect, PTL DEF Spec

----------------------------------------------------------------------------
(* What an accepted replay ran *)

\* A step either follows the recording or notes a hard divergence.
LEMMA ChoiceFollows ==
    ASSUME TypeOK, phase = "replaying",
           NEW queue \in Queue, Choose(queue), executed' # executed
    PROVE  \E i \in DOMAIN queue :
              /\ executed' = Append(executed, [queue |-> queue, chosen |-> i])
              /\ position + 1 <= Len(log) =>
                     \/ \E kind \in Hard : divergences' = Note(kind)
                     \/ IF Identities /\ Ran(log[position + 1]) # NoTask
                        THEN queue[i] = Ran(log[position + 1])
                        ELSE i = log[position + 1].chosen
<1>1. 1 \in DOMAIN queue
  BY QueueDomain, ReplayAssumption
<1>2. /\ Requested = log[position + 1].chosen
      /\ RequestedTask = IF Identities THEN Ran(log[position + 1]) ELSE NoTask
  BY DEF Requested, RequestedTask
<1>3. position \in Nat /\ Len(log) \in Nat
  BY DEF TypeOK, position
<1>4. CASE Exhausted(queue)
  <2>1. ~(position + 1 <= Len(log))
    BY <1>3, <1>4 DEF Exhausted
  <2> QED BY <1>1, <1>4, <2>1 DEF Exhausted, Return
<1>5. CASE FollowTask(queue)
  <2> DEFINE S == OfTask(queue, RequestedTask)
  <2>1. PICK n \in 1..MaxQueue : DOMAIN queue = 1..n
    BY QueueDomain
  <2>2. S \subseteq 1..n /\ S # {} /\ n \in Nat
    BY <1>5, <2>1, ReplayAssumption DEF FollowTask, OfTask
  <2>3. First(S) \in S
    <3>1. \E i \in S : \A j \in S : i <= j
      BY <2>2, LeastNat
    <3> QED BY <3>1 DEF First
  <2>4. First(S) \in DOMAIN queue /\ queue[First(S)] = RequestedTask
    BY <2>3 DEF OfTask
  <2>5. executed' = Append(executed, [queue |-> queue, chosen |-> First(S)])
    BY <1>5 DEF FollowTask, Return
  <2>6. RequestedTask # NoTask
    BY <1>5 DEF FollowTask
  <2> QED BY <1>2, <2>4, <2>5, <2>6
<1>6. CASE TaskAbsent(queue)
  BY <1>1, <1>6 DEF TaskAbsent, Fallback, Return, Hard
<1>7. CASE FollowPosition(queue)
  BY <1>2, <1>7 DEF FollowPosition, InRange, Return
<1>8. CASE PositionOutOfRange(queue)
  BY <1>1, <1>8 DEF PositionOutOfRange, Fallback, Return, Hard
<1> QED BY <1>4, <1>5, <1>6, <1>7, <1>8 DEF Choose

Followable ==
    /\ phase = "recording" => executed = << >>
    /\ ~diverged => \A k \in 1..position : k <= Len(log) => Followed(k)

\* A hard divergence, once noted, stays.
LEMMA DivergedStays ==
    ASSUME TypeOK, NEW kind, divergences' = divergences \/ divergences' = Note(kind), diverged
    PROVE  diverged'
<1>1. PICK n \in DOMAIN divergences : divergences[n].kind \in Hard
  BY DEF diverged
<1>2. CASE divergences' = divergences
  BY <1>1, <1>2 DEF diverged
<1>3. CASE divergences' = Note(kind)
  <2>1. \E D : divergences \in Seq(D)
    BY DEF TypeOK
  <2>2. n \in DOMAIN divergences' /\ divergences'[n] = divergences[n]
    BY <1>1, <1>3, <2>1 DEF Note
  <2> QED BY <1>1, <2>2 DEF diverged
<1> QED BY <1>2, <1>3

\* Every step of a replay that has not diverged follows the recording.
LEMMA FollowableStep ==
    ASSUME TypeOK, Followable, [Next]_vars
    PROVE  Followable'
<1> USE DEF Followable
<1>1. CASE Record
  BY <1>1 DEF Record, position, Followed, Identities
<1>2. CASE StartReplay
  BY <1>2 DEF StartReplay, position, Followed, Identities
<1>3. CASE ReplayStep
  <2>1. PICK queue \in Queue : Choose(queue)
    BY <1>3, OfferedQueues DEF ReplayStep
  <2>2. phase = "replaying"
    BY <1>3 DEF ReplayStep
  <2>3. log' = log /\ phase' # "recording" /\ UNCHANGED Identities
    BY <2>1, <2>2, ChoiceEffect DEF Identities
  <2>4. PICK kind : divergences' = divergences \/ divergences' = Note(kind)
    BY <2>1, <2>2, ChoiceEffect
  <2>5. diverged => diverged'
    BY <2>4, DivergedStays
  <2>6. CASE executed' = executed
    BY <2>3, <2>5, <2>6 DEF position, Followed
  <2>7. CASE executed' # executed
    <3> SUFFICES ASSUME ~diverged', NEW k \in 1..position', k <= Len(log)
                 PROVE  Followed(k)'
      BY <2>3
    <3>1. PICK i \in DOMAIN queue :
             /\ executed' = Append(executed, [queue |-> queue, chosen |-> i])
             /\ position + 1 <= Len(log) =>
                    \/ \E kd \in Hard : divergences' = Note(kd)
                    \/ IF Identities /\ Ran(log[position + 1]) # NoTask
                       THEN queue[i] = Ran(log[position + 1])
                       ELSE i = log[position + 1].chosen
      BY <2>1, <2>2, <2>7, ChoiceFollows
    <3> DEFINE s == [queue |-> queue, chosen |-> i]
    <3>2. Ran(s) = queue[i] /\ s.chosen = i
      BY DEF Ran
    <3>3. executed \in Seq(Step) /\ position \in Nat
      BY DEF TypeOK, position
    <3>4. executed' = Append(executed, s)
      BY <3>1
    <3> HIDE DEF s
    <3>5. /\ position' = position + 1 /\ executed'[position + 1] = s
          /\ \A j \in 1..position : executed'[j] = executed[j]
      BY <3>3, <3>4 DEF position
    <3>6. CASE k \in 1..position
      <4>1. Followed(k)
        BY <2>5, <3>6
      <4> QED BY <2>3, <3>5, <3>6, <4>1 DEF Followed
    <3>7. CASE k = position + 1
      <4>1. ASSUME NEW kd \in Hard, divergences' = Note(kd)
            PROVE  FALSE
        <5>1. \E D : divergences \in Seq(D)
          BY DEF TypeOK
        <5>2. /\ Len(divergences) + 1 \in DOMAIN divergences'
              /\ divergences'[Len(divergences) + 1].kind = kd
          BY <4>1, <5>1 DEF Note
        <5> QED BY <4>1, <5>2 DEF diverged
      <4>2. IF Identities /\ Ran(log[position + 1]) # NoTask
            THEN queue[i] = Ran(log[position + 1])
            ELSE i = log[position + 1].chosen
        BY <3>1, <3>7, <4>1
      <4>3. executed'[k] = s
        BY <3>5, <3>7
      <4> QED BY <2>3, <3>2, <3>7, <4>2, <4>3 DEF Followed, Ran
    <3> QED BY <3>3, <3>5, <3>6, <3>7
  <2> QED BY <2>6, <2>7
<1>4. CASE ScenarioEnds
  BY <1>4 DEF ScenarioEnds, position, Followed, Identities, diverged
<1>5. CASE UNCHANGED vars
  BY <1>5 DEF vars, position, Followed, Identities, diverged
<1> QED BY <1>1, <1>2, <1>3, <1>4, <1>5 DEF Next

\* Whatever became of the scenario, a replay that ends without a hard
\* divergence and without a decision left ran, for every step of the recording,
\* the recorded task, or the callback at the recorded position.  Steps after the
\* end of the recording are not excluded.
THEOREM AcceptedReplayAlways == Spec => []AcceptedReplay
<1>1. Init => Followable
  BY DEF Init, Followable, position
<1>2. TypeOK /\ Followable /\ [Next]_vars => Followable'
  BY FollowableStep
<1>3. TypeOK /\ Followable => AcceptedReplay
  <2> SUFFICES ASSUME TypeOK, Followable, ~diverged, remaining = 0
               PROVE  position >= Len(log) /\ \A k \in DOMAIN log : Followed(k)
    BY DEF AcceptedReplay
  <2>1. position \in Nat /\ Len(log) \in Nat /\ DOMAIN log = 1..Len(log)
    BY DEF TypeOK, position
  <2>2. position >= Len(log)
    <3>1. CASE position < Len(log)
      <4>1. Len(log) - position = 0
        BY <3>1 DEF remaining
      <4> QED BY <2>1, <3>1, <4>1
    <3>2. CASE ~(position < Len(log))
      BY <2>1, <3>2
    <3> QED BY <3>1, <3>2
  <2> QED BY <2>1, <2>2 DEF Followable
<1> QED BY <1>1, <1>2, <1>3, TypeCorrect, PTL DEF Spec

=============================================================================
