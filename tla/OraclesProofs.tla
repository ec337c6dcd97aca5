---------------------------- MODULE OraclesProofs ----------------------------
(***************************************************************************)
(* Proofs about Oracles: any selection of oracles, any number of steps and *)
(* of invariants.                                                          *)
(***************************************************************************)
EXTENDS Oracles, QueueLemmas, FiniteSetTheorems

----------------------------------------------------------------------------
(* The inductive invariant *)

\* The trial is still with its scenario, or still to be judged.
Going    == stage \in {"starting", "running"}
Unjudged == stage \in {"starting", "running", "stopped"}

Types ==
    /\ setup \in Setups /\ next \in 1..(Len(Selected) + 1)
    /\ stage \in {"starting", "running", "stopped", "judged", "cleanup", "closed"}
    /\ recording \in BOOLEAN /\ active \in BOOLEAN /\ aborted \in BOOLEAN /\ offended \in BOOLEAN
    /\ trace \in Seq(Choice)
    /\ invariants \in Seq(Severity) /\ Len(invariants) <= MaxInvariants
    /\ warned \subseteq {i \in DOMAIN invariants : invariants[i] = "warning"}
    /\ \A f \in findings : f.severity \in Severity
    /\ streak \in [1..MaxInvariants -> Nat] /\ seen \in Nat
    /\ Has("invariant") \/ invariants = << >>

\* How the run ended: with an error, an abort, or because main returned.
Endings ==
    /\ Going => error = None /\ ~aborted
    /\ stage = "stopped" => ended.outcome = error
    /\ aborted => ended.outcome = None /\ \E f \in findings : f.severity = "failure"

\* A failure that was seen left a finding, or the error that came with it.
FailureNoted == offended => error # None \/ \E f \in findings : f.severity = "failure"

\* The trace is the run: recording stops before the cleanup begins.
Faithful ==
    /\ trace = executed /\ seen <= Len(executed) /\ Len(executed) <= MaxSteps
    /\ stage \in {"cleanup", "closed"} => ~recording
    /\ stage \in {"starting", "running"} /\ Has("custom") => seen = Len(executed)

\* While the run goes on no invariant is decisive, and one whose warning was not
\* reported has been violated for at most as many steps as warnings before it.
WarningsCome ==
    Going =>
        /\ stage = "starting" => warned = {}
        /\ \A i \in warned : Finding("invariant", "warning", i) \in findings
        /\ \A i \in (1..MaxInvariants) \ warned : streak[i] <= Cardinality(warned \cap 1..(i - 1))

\* The verdicts on the outcome are given once, all of them, after the run.
Verdicts ==
    /\ Unjudged => \A f \in findings : f.oracle \in {"custom", "invariant"}
    /\ ~Unjudged /\ Has("defaults") /\ ended.outcome \notin Interrupts =>
           /\ Cardinality({f \in findings : f.oracle \in Primary})
                  = IF ended.outcome = None THEN 0 ELSE 1
           /\ aborted => \A f \in findings : f.oracle \notin Primary \cup {"task_leak"}

\* What the trial returns is what was observed.
Returned ==
    /\ stage # "closed" => result = [kind |-> "none"]
    /\ stage = "closed" => result.kind \in {"raised", "trial"}
    /\ result.kind = "trial" => /\ result.findings = findings /\ result.trace = trace
                                /\ result.error = None => error = None

TrialInv ==
    Types /\ Endings /\ FailureNoted /\ Faithful /\ WarningsCome /\ Verdicts /\ Returned

----------------------------------------------------------------------------
(* The operators *)

\* The oracles of a trial are a sequence of the three kinds.
LEMMA SelectedType ==
    ASSUME setup \in Setups
    PROVE  /\ Selected \in Seq(Kind) /\ Len(Selected) \in Nat
           /\ DOMAIN Selected = 1..Len(Selected)
           /\ \A j \in DOMAIN Selected : Selected[j] \in Kind
<1> DEFINE base == IF setup.explicit THEN setup.oracles ELSE <<"defaults", "invariant">>
<1>1. setup \in Setup
  BY OraclesAssumption
<1>2. base \in Seq(Kind)
  <2>1. setup.oracles \in Seq(Kind)
    BY <1>1 DEF Setup
  <2>2. <<"defaults", "invariant">> \in Seq(Kind)
    BY DEF Kind
  <2> QED BY <2>1, <2>2
<1>3. Append(base, "invariant") \in Seq(Kind)
  BY <1>2, AppendProperties DEF Kind
<1>4. Selected \in Seq(Kind)
  BY <1>2, <1>3 DEF Selected
<1> QED BY <1>4, LenProperties

\* A kind is selected when one of the oracles is of it.
LEMMA HasAt ==
    ASSUME NEW kind
    PROVE  Has(kind) <=> \E j \in DOMAIN Selected : Selected[j] = kind
BY DEF Has, ToSet

\* The arguments do not change, and with them the oracles.
LEMMA SameOracles ==
    ASSUME setup' = setup
    PROVE  Selected' = Selected /\ \A kind : Has(kind)' = Has(kind)
BY DEF Selected, Has, ToSet

\* The oracles asked after a callback are of the kinds selected; those that look
\* at a run, custom ones and invariants, are asked.
LEMMA HookedKinds ==
    ASSUME setup \in Setups
    PROVE  \E n \in Nat :
               /\ DOMAIN Hooked = 1..n /\ \A k \in 1..n : Hooked[k] \in Kind
               /\ \A k \in 1..n : Has(Hooked[k])
               /\ Has("invariant") => \E k \in 1..n : Hooked[k] = "invariant"
               /\ Has("custom") => \E k \in 1..n : Hooked[k] = "custom"
<1>1. CASE FullHooks
  <2>1. Hooked = Selected
    BY <1>1 DEF Hooked
  <2> QED BY <2>1, SelectedType, HasAt
<1>2. CASE ~FullHooks
  <2> DEFINE at == {j \in DOMAIN Selected : Selected[j] = "invariant"}
             n  == Cardinality(at)
  <2>1. IsFiniteSet(1..Len(Selected)) /\ at \in SUBSET (1..Len(Selected))
    BY SelectedType, FS_Interval
  <2>2. IsFiniteSet(at)
    BY <2>1, FS_Subset
  <2>3. n \in Nat
    BY <2>2, FS_CardinalityType
  <2>4. Hooked = [k \in 1..n |-> "invariant"]
    BY <1>2 DEF Hooked
  <2>5. Has("invariant") => n # 0
    BY <2>2, FS_EmptySet, HasAt
  <2>6. ~Has("custom")
    BY <1>2 DEF FullHooks
  <2>7. n # 0 => Has("invariant")
    BY <2>2, FS_EmptySet, HasAt
  <2> HIDE DEF n
  <2>8. n # 0 => 1 \in 1..n
    BY <2>3
  <2>9. \A k \in 1..n : n # 0
    BY <2>3
  <2>10. Hooked \in [1..n -> {"invariant"}]
    BY <2>4
  <2>11. "invariant" \in Kind
    BY DEF Kind
  <2>12. DOMAIN Hooked = 1..n /\ \A k \in 1..n : Hooked[k] = "invariant"
    BY <2>10
  <2> QED BY <2>3, <2>5, <2>6, <2>7, <2>8, <2>9, <2>11, <2>12
<1> QED BY <1>1, <1>2

\* Least is the least element.
LEMMA LeastElement ==
    ASSUME NEW S, S \subseteq Nat, S # {}
    PROVE  Least(S) \in S /\ \A j \in S : Least(S) <= j
BY LeastNat DEF Least

\* The hooks called are the first of those asked; if the last one called does not
\* stop the run, all were called and none stops it.
LEMMA CalledPrefix ==
    ASSUME NEW n \in Nat, NEW T, NEW answers \in [1..n -> T]
    PROVE  LET called == Called(answers)
               last   == IF called = << >> THEN Nothing ELSE called[Len(called)]
           IN /\ Len(called) \in 0..n /\ DOMAIN called = 1..Len(called)
              /\ \A k \in 1..Len(called) : called[k] = answers[k]
              /\ Stops(last) => Len(called) # 0 /\ last = called[Len(called)]
              /\ ~Stops(last) => called = answers /\ \A k \in 1..n : ~Stops(answers[k])
<1> DEFINE called == Called(answers)
           last   == IF called = << >> THEN Nothing ELSE called[Len(called)]
           stops  == {k \in DOMAIN answers : Stops(answers[k])}
<1>1. ~Stops(Nothing)
  BY DEF Stops, Nothing, Finding
<1>2. DOMAIN answers = 1..n /\ answers \in Seq(T) /\ Len(answers) = n
  BY SeqDef, LenProperties
<1>3. CASE stops = {}
  <2>1. called = answers
    BY <1>3 DEF Called
  <2>2. \A k \in 1..n : ~Stops(answers[k])
    BY <1>2, <1>3
  <2>3. ~Stops(last)
    <3>1. CASE called = << >>
      BY <1>1, <3>1
    <3>2. CASE called # << >>
      <4>1. Len(called) \in 1..n /\ last = called[Len(called)]
        BY <1>2, <2>1, <3>2, EmptySeq
      <4> HIDE DEF last
      <4> QED BY <2>1, <2>2, <4>1
    <3> QED BY <3>1, <3>2
  <2> HIDE DEF last
  <2> QED BY <1>2, <2>1, <2>2, <2>3 DEF last
<1>4. CASE stops # {}
  <2>1. stops \subseteq Nat
    BY <1>2
  <2>2. Least(stops) \in stops
    BY <1>4, <2>1, LeastElement
  <2>3. Least(stops) \in 1..n /\ Stops(answers[Least(stops)])
    BY <1>2, <2>2
  <2>4. called = SubSeq(answers, 1, Least(stops))
    BY <1>4 DEF Called
  <2> HIDE DEF stops
  <2>5. /\ called \in Seq(T) /\ Len(called) = Least(stops)
        /\ \A k \in 1..Least(stops) : called[k] = answers[k]
    <3>1. \A k \in 1..Least(stops) : answers[k] \in T
      BY <2>3
    <3> DEFINE m == Least(stops)
    <3> HIDE DEF m
    <3>2. /\ SubSeq(answers, 1, m) \in Seq(T)
          /\ Len(SubSeq(answers, 1, m)) = IF 1 <= m THEN m - 1 + 1 ELSE 0
          /\ \A k \in 1..(m - 1 + 1) : SubSeq(answers, 1, m)[k] = answers[1 + k - 1]
      BY <2>3, <3>1, SubSeqProperties DEF m
    <3>3. m \in 1..n /\ called = SubSeq(answers, 1, m)
      BY <2>3, <2>4 DEF m
    <3>4. /\ called \in Seq(T) /\ Len(called) = m
          /\ \A k \in 1..m : called[k] = answers[k]
      BY <3>2, <3>3
    <3> QED BY <3>4 DEF m
  <2>6. called # << >> /\ DOMAIN called = 1..Len(called)
    BY <2>3, <2>5, LenProperties
  <2>7. last = answers[Least(stops)]
    BY <2>3, <2>5, <2>6
  <2> HIDE DEF called
  <2>8. Stops(last)
    BY <2>3, <2>7
  <2> QED BY <2>3, <2>5, <2>6, <2>8 DEF called
<1> QED BY <1>3, <1>4


\* What check answers: never a warning where a predicate decides; the first of the
\* warnings not yet reported where none does.
LEMMA CheckTells ==
    ASSUME NEW sevs \in Seq(Severity), NEW p \in [DOMAIN sevs -> Predicate],
           NEW answer, answer = Check(p, sevs)
    PROVE  /\ Found(answer) => answer.oracle = "invariant"
           /\ ~Stops(answer) => Decisive(p, sevs) = {}
           /\ Decisive(p, sevs) = {} /\ Fresh(p, sevs) # {} =>
                  answer = Finding("invariant", "warning", Least(Fresh(p, sevs)))
<1>1. Len(sevs) \in Nat /\ DOMAIN sevs = 1..Len(sevs) /\ \A i \in DOMAIN sevs : sevs[i] \in Severity
  BY LenProperties
<1>2. CASE Decisive(p, sevs) # {}
  <2> DEFINE i == Least(Decisive(p, sevs))
  <2>1. Decisive(p, sevs) \subseteq Nat
    BY <1>1 DEF Decisive
  <2>2. i \in Decisive(p, sevs)
    BY <1>2, <2>1, LeastElement
  <2> HIDE DEF i
  <2>3. \/ p[i] = "raises" \/ p[i] = "interrupts"
        \/ p[i] = "violated" /\ sevs[i] = "failure"
    BY <2>2 DEF Decisive
  <2>4. answer = CASE p[i] = "interrupts" -> Raised("interrupt")
                   [] p[i] = "raises"     -> Finding("invariant", "failure", i)
                   [] p[i] = "violated"   -> Finding("invariant", sevs[i], i)
    BY <1>2 DEF Check, i
  <2>5. \/ answer = Raised("interrupt")
        \/ answer = Finding("invariant", "failure", i)
    BY <2>3, <2>4
  <2> QED BY <1>2, <2>5 DEF Found, Stops, Raised, Finding, Severity
<1>3. CASE Decisive(p, sevs) = {}
  <2>1. answer = IF Fresh(p, sevs) # {}
                 THEN Finding("invariant", "warning", Least(Fresh(p, sevs))) ELSE Nothing
    BY <1>3 DEF Check
  <2> QED BY <1>3, <2>1 DEF Found, Nothing, Finding, Severity
<1> QED BY <1>2, <1>3

\* Whatever finding a hook answers, it is one of a custom oracle or an invariant.
LEMMA FoundByWhom ==
    ASSUME NEW sevs \in Seq(Severity), NEW p \in [DOMAIN sevs -> Predicate],
           NEW kind \in Kind, NEW answer \in Answers(kind, p, sevs), Found(answer)
    PROVE  answer.severity \in Severity /\ answer.oracle \in {"custom", "invariant"}
<1>1. answer.severity \in Severity
  BY DEF Found
<1>2. CASE kind = "invariant"
  <2>1. answer = Check(p, sevs)
    BY <1>2 DEF Answers
  <2> QED BY <1>1, <2>1, CheckTells
<1>3. CASE kind = "custom"
  BY <1>1, <1>3 DEF Answers, Anything, Nothing, Raised, Finding, Severity
<1>4. CASE kind = "defaults"
  BY <1>1, <1>4 DEF Answers, Nothing, Finding, Severity
<1> QED BY <1>2, <1>3, <1>4 DEF Kind

\* Registering an invariant leaves those before it, and their number, as they are.
LEMMA RegisteredKeeps ==
    ASSUME invariants \in Seq(Severity), Len(invariants) <= MaxInvariants,
           Has("invariant") \/ invariants = << >>,
           NEW sevs, Registered(sevs)
    PROVE  /\ sevs \in Seq(Severity) /\ Len(sevs) <= MaxInvariants
           /\ DOMAIN invariants \subseteq DOMAIN sevs
           /\ \A i \in DOMAIN invariants : sevs[i] = invariants[i]
           /\ Has("invariant") \/ sevs = << >>
<1>1. Len(invariants) \in Nat /\ DOMAIN invariants = 1..Len(invariants)
  BY LenProperties
<1>2. CASE sevs = invariants
  BY <1>2
<1>3. CASE Has("invariant") /\ Len(invariants) < MaxInvariants
           /\ \E s \in Severity : sevs = Append(invariants, s)
  <2>1. PICK s \in Severity : sevs = Append(invariants, s)
    BY <1>3
  <2>2. /\ sevs \in Seq(Severity) /\ Len(sevs) = Len(invariants) + 1
        /\ \A i \in 1..Len(invariants) : sevs[i] = invariants[i]
    BY <2>1, AppendProperties
  <2>3. DOMAIN sevs = 1..Len(sevs)
    BY <2>2, LenProperties
  <2> QED BY <1>1, <1>3, <2>2, <2>3, OraclesAssumption
<1> QED BY <1>2, <1>3 DEF Registered


\* How a callback leaves a run that goes on, and one it ends.
GoesOn(p) ==
    /\ UNCHANGED <<stage, error, aborted, ended, next>>
    /\ Has("invariant") =>
           /\ Decisive(p, invariants') = {} /\ warned' = warned \cup Fresh(p, invariants')
           /\ Fresh(p, invariants') # {} =>
                  Finding("invariant", "warning", Least(Fresh(p, invariants'))) \in findings'
    /\ Has("custom") => seen' = seen + 1

Ends ==
    /\ stage' = "stopped" /\ next' = 1 /\ ended'.outcome = error'
    /\ \/ error' = None /\ aborted' = TRUE /\ \E f \in findings' : f.severity = "failure"
       \/ error' # None /\ aborted' = FALSE

\* What was noted of the invariants violated by the predicates' answers.
Judged(p) ==
    /\ offended' = (offended \/ \E i \in DOMAIN p :
                        p[i] = "raises" \/ (p[i] = "violated" /\ invariants'[i] = "failure"))
    /\ streak' = [i \in 1..MaxInvariants |->
                      IF i \in DOMAIN p /\ p[i] = "violated"
                      THEN IF streak[i] < MaxInvariants THEN streak[i] + 1 ELSE streak[i]
                      ELSE 0]

\* An observed callback: the hooks called find what is found, and the run goes on
\* only if all of them were called and none stops it.
LEMMA ObservedEffect ==
    ASSUME Types, stage = "running", setup' = setup, NEW c, Observed(c)
    PROVE  \E p \in [DOMAIN invariants' -> Predicate] :
               /\ Registered(invariants')
               /\ trace' = Traced(c) /\ executed' = Append(executed, c)
               /\ findings \subseteq findings'
               /\ \A f \in findings' \ findings :
                      f.severity \in Severity /\ f.oracle \in {"custom", "invariant"}
               /\ warned' \subseteq warned \cup Fresh(p, invariants')
               /\ seen' \in {seen, seen + 1}
               /\ Judged(p) /\ (GoesOn(p) \/ Ends)
<1> DEFINE may(sevs, p) == {f \in [DOMAIN Hooked -> UNION {Answers(k, p, sevs) : k \in Kind}] :
                              \A k \in DOMAIN f : f[k] \in Answers(Hooked[k], p, sevs)}
           lastof(called) == IF called = << >> THEN Nothing ELSE called[Len(called)]
           asked(called) == {Hooked[k] : k \in DOMAIN called}
           noted(sevs, p, answers) ==
               /\ Registered(sevs)
               /\ invariants' = sevs
               /\ trace' = Traced(c) /\ executed' = Append(executed, c)
               /\ findings' = findings \cup {answer \in ToSet(Called(answers)) : Found(answer)}
               /\ warned' = warned \cup
                      (IF "invariant" \in asked(Called(answers)) THEN Fresh(p, sevs) ELSE {})
               /\ seen' = IF "custom" \in asked(Called(answers)) THEN seen + 1 ELSE seen
               /\ IF ~Stops(lastof(Called(answers))) THEN Continue /\ UNCHANGED next
                  ELSE IF Found(lastof(Called(answers))) THEN Stop(None, TRUE)
                  ELSE Stop(lastof(Called(answers)).severity, FALSE)
               /\ offended' = (offended \/ \E i \in DOMAIN p :
                                   p[i] = "raises" \/ (p[i] = "violated" /\ sevs[i] = "failure"))
               /\ streak' = [i \in 1..MaxInvariants |->
                                 IF i \in DOMAIN p /\ p[i] = "violated"
                                 THEN IF streak[i] < MaxInvariants THEN streak[i] + 1 ELSE streak[i]
                                 ELSE 0]
<1>a. PICK sevs \in {invariants} \cup {Append(invariants, s) : s \in Severity} :
        \E p \in [DOMAIN sevs -> Predicate] : \E answers \in may(sevs, p) : noted(sevs, p, answers)
  BY DEF Observed
<1>b. PICK p \in [DOMAIN sevs -> Predicate] :
        \E answers \in may(sevs, p) : noted(sevs, p, answers)
  BY <1>a
<1>1. PICK answers \in may(sevs, p) : noted(sevs, p, answers)
  BY <1>b
<1> DEFINE called == Called(answers)
           last   == lastof(called)
<1>2. PICK n \in Nat :
        /\ DOMAIN Hooked = 1..n /\ \A k \in 1..n : Hooked[k] \in Kind
        /\ \A k \in 1..n : Has(Hooked[k])
        /\ Has("invariant") => \E k \in 1..n : Hooked[k] = "invariant"
        /\ Has("custom") => \E k \in 1..n : Hooked[k] = "custom"
  BY HookedKinds DEF Types
<1>3. /\ answers \in [1..n -> UNION {Answers(k, p, sevs) : k \in Kind}]
      /\ \A k \in 1..n : answers[k] \in Answers(Hooked[k], p, sevs)
  BY <1>2
<1>4. /\ Len(called) \in 0..n /\ DOMAIN called = 1..Len(called)
      /\ \A k \in 1..Len(called) : called[k] = answers[k]
      /\ Stops(last) => Len(called) # 0 /\ last = called[Len(called)]
      /\ ~Stops(last) => called = answers /\ \A k \in 1..n : ~Stops(answers[k])
  BY <1>3, CalledPrefix
<1>5. /\ Registered(sevs) /\ invariants' = sevs
      /\ trace' = Traced(c) /\ executed' = Append(executed, c)
      /\ findings' = findings \cup {answer \in ToSet(called) : Found(answer)}
      /\ warned' = warned \cup
             (IF "invariant" \in asked(called) THEN Fresh(p, sevs) ELSE {})
      /\ seen' = IF "custom" \in asked(called) THEN seen + 1 ELSE seen
      /\ ~Stops(last) => Continue /\ UNCHANGED next
      /\ Stops(last) => IF Found(last) THEN Stop(None, TRUE) ELSE Stop(last.severity, FALSE)
      /\ Judged(p)
  BY <1>1 DEF Judged
<1>6. sevs \in Seq(Severity) /\ (Has("invariant") \/ sevs = << >>)
  BY <1>5, RegisteredKeeps DEF Types
<1>7. p \in [DOMAIN invariants' -> Predicate]
  BY <1>5
<1> HIDE DEF may, called, last, asked, noted
<1>8. \A f \in findings' \ findings :
          f.severity \in Severity /\ f.oracle \in {"custom", "invariant"}
  <2> SUFFICES ASSUME NEW f \in findings', f \notin findings
               PROVE  f.severity \in Severity /\ f.oracle \in {"custom", "invariant"}
    OBVIOUS
  <2>1. f \in ToSet(called) /\ Found(f)
    BY <1>5
  <2>2. PICK k \in 1..Len(called) : f = called[k]
    BY <1>4, <2>1 DEF ToSet
  <2>3. k \in 1..n /\ f \in Answers(Hooked[k], p, sevs)
    BY <1>3, <1>4, <2>2
  <2> QED BY <1>2, <1>6, <2>1, <2>3, FoundByWhom
<1>9. GoesOn(p) \/ Ends
  <2>1. CASE ~Stops(last)
    <3>1. called = answers /\ DOMAIN called = 1..n /\ \A k \in 1..n : ~Stops(answers[k])
      BY <1>3, <1>4, <2>1
    <3>2. UNCHANGED <<stage, error, aborted, ended, next>>
      BY <1>5, <2>1 DEF Continue
    <3>3. Has("custom") => seen' = seen + 1
      BY <1>2, <1>5, <3>1 DEF asked
    <3>4. ASSUME Has("invariant")
          PROVE  /\ Decisive(p, sevs) = {} /\ warned' = warned \cup Fresh(p, sevs)
                 /\ Fresh(p, sevs) # {} =>
                        Finding("invariant", "warning", Least(Fresh(p, sevs))) \in findings'
      <4>1. PICK k \in 1..n : Hooked[k] = "invariant"
        BY <1>2, <3>4
      <4>2. answers[k] = Check(p, sevs) /\ ~Stops(answers[k])
        BY <1>3, <3>1, <4>1 DEF Answers
      <4>3. Decisive(p, sevs) = {}
        BY <1>6, <4>2, CheckTells
      <4>4. warned' = warned \cup Fresh(p, sevs)
        BY <1>5, <3>1, <4>1 DEF asked
      <4>5. ASSUME Fresh(p, sevs) # {}
            PROVE  Finding("invariant", "warning", Least(Fresh(p, sevs))) \in findings'
        <5>1. answers[k] = Finding("invariant", "warning", Least(Fresh(p, sevs)))
          BY <1>6, <4>2, <4>3, <4>5, CheckTells
        <5>2. Found(answers[k])
          BY <5>1 DEF Found, Finding, Severity
        <5>3. answers[k] \in ToSet(called)
          BY <3>1 DEF ToSet
        <5> QED BY <1>5, <5>1, <5>2, <5>3
      <4> QED BY <4>3, <4>4, <4>5
    <3> QED BY <1>5, <3>2, <3>3, <3>4 DEF GoesOn
  <2>2. CASE Stops(last)
    <3>1. last \in ToSet(called)
      BY <1>4, <2>2 DEF ToSet
    <3>2. CASE Found(last)
      <4>1. last.severity = "failure" /\ last \in findings'
        BY <1>5, <2>2, <3>1, <3>2 DEF Found, Stops, Severity
      <4>2. Stop(None, TRUE)
        BY <1>5, <2>2, <3>2
      <4> QED BY <4>1, <4>2 DEF Ends, Stop
    <3>3. CASE ~Found(last)
      <4>1. Stop(last.severity, FALSE)
        BY <1>5, <2>2, <3>3
      <4>2. last.severity # None
        BY <2>2 DEF Stops, None
      <4> QED BY <4>1, <4>2 DEF Ends, Stop
    <3> QED BY <3>2, <3>3
  <2> QED BY <2>1, <2>2
<1>10. warned' \subseteq warned \cup Fresh(p, invariants') /\ seen' \in {seen, seen + 1}
  BY <1>5
<1> QED BY <1>5, <1>7, <1>8, <1>9, <1>10

----------------------------------------------------------------------------
(* The invariant is inductive, action by action *)

\* The number of warnings reported before an invariant, which is what WarningsCome
\* counts; when the first one not reported comes before it, the number grows.
LEMMA ReportedBefore ==
    ASSUME Types, NEW i \in Nat, NEW l \in Nat
    PROVE  /\ Cardinality(warned \cap 1..(i - 1)) \in Nat
           /\ Cardinality(warned \cap 1..(i - 1)) <= i
           /\ i # 0 => Cardinality(warned \cap 1..(i - 1)) < i
           /\ l \in 1..(i - 1) /\ l \notin warned =>
                  Cardinality((warned \cup {l}) \cap 1..(i - 1))
                      = Cardinality(warned \cap 1..(i - 1)) + 1
<1> DEFINE before == warned \cap 1..(i - 1)
<1>1. /\ IsFiniteSet(1..(i - 1))
      /\ Cardinality(1..(i - 1)) = IF 1 > i - 1 THEN 0 ELSE i - 1 - 1 + 1
  BY FS_Interval
<1>2. before \in SUBSET (1..(i - 1))
  OBVIOUS
<1>3. IsFiniteSet(before) /\ Cardinality(before) <= Cardinality(1..(i - 1))
  BY <1>1, <1>2, FS_Subset
<1>4. Cardinality(before) \in Nat
  BY <1>3, FS_CardinalityType
<1>5. ASSUME l \in 1..(i - 1), l \notin warned
      PROVE  Cardinality((warned \cup {l}) \cap 1..(i - 1)) = Cardinality(before) + 1
  <2>1. (warned \cup {l}) \cap 1..(i - 1) = before \cup {l}
    BY <1>5
  <2>2. l \notin before
    BY <1>5
  <2> QED BY <1>3, <2>1, <2>2, FS_AddElement
<1> HIDE DEF before
<1>6. Cardinality(before) <= i /\ (i # 0 => Cardinality(before) < i)
  BY <1>1, <1>3, <1>4
<1> QED BY <1>4, <1>5, <1>6 DEF before

\* The bounds are numbers.
LEMMA Bounds == MaxInvariants \in Nat /\ MaxSteps \in Nat
BY OraclesAssumption

\* The warnings at the start: none, and no invariant was violated yet.
LEMMA TrialInit ==
    Init => TrialInv
<1> SUFFICES ASSUME Init
             PROVE  TrialInv
  OBVIOUS
<1>1. Types
  <2>1. Len(Selected) \in Nat
    BY SelectedType DEF Init
  <2>2. << >> \in Seq(Choice) /\ << >> \in Seq(Severity) /\ Len(<< >>) = 0
    BY EmptySeq
  <2>3. /\ setup \in Setups /\ next \in 1..(Len(Selected) + 1)
        /\ stage \in {"starting", "running", "stopped", "judged", "cleanup", "closed"}
    BY <2>1 DEF Init
  <2>6. /\ recording \in BOOLEAN /\ active \in BOOLEAN /\ aborted \in BOOLEAN
        /\ offended \in BOOLEAN
    BY Zenon DEF Init
  <2>4. /\ trace \in Seq(Choice) /\ invariants \in Seq(Severity) /\ Len(invariants) <= MaxInvariants
        /\ warned = {} /\ findings = {} /\ invariants = << >>
    BY <2>2, Bounds DEF Init
  <2>5. streak \in [1..MaxInvariants -> Nat] /\ seen \in Nat
    BY DEF Init
  <2> QED BY <2>3, <2>4, <2>5, <2>6 DEF Types
<1>2. Endings /\ FailureNoted /\ Verdicts /\ Returned
  BY DEF Init, Endings, FailureNoted, Verdicts, Returned, Unjudged, Going
<1>4. Faithful
  <2>1. trace = << >> /\ executed = << >> /\ seen = 0 /\ stage = "starting" /\ Len(<< >>) = 0
    BY EmptySeq DEF Init
  <2> QED BY <2>1, Bounds DEF Faithful
<1>3. WarningsCome
  BY <1>1, ReportedBefore, Bounds DEF Init, WarningsCome, Going
<1> QED BY <1>1, <1>2, <1>4, <1>3 DEF TrialInv

\* Nothing of a trial is changed by a stuttering step.
LEMMA TrialStutter ==
    ASSUME TrialInv, UNCHANGED vars
    PROVE  TrialInv'
<1>1. /\ Selected' = Selected /\ \A kind : Has(kind)' = Has(kind)
  BY SameOracles DEF vars
<1> QED BY <1>1 DEF vars, TrialInv, Types, Endings, FailureNoted, Faithful, WarningsCome,
       Verdicts, Returned, Going, Unjudged

\* The configured invariants, as many as the bound allows.
LEMMA ConfiguredType ==
    ASSUME setup \in Setups
    PROVE  Configured \in Seq(Severity) /\ Len(Configured) <= MaxInvariants
<1>1. /\ setup.configured \in Seq(Severity) /\ setup.args \in Seq(Severity)
      /\ Len(setup.configured) + Len(setup.args) <= MaxInvariants
  BY OraclesAssumption DEF Setup
<1>2. << >> \in Seq(Severity) /\ Len(<< >>) = 0
  BY EmptySeq
<1> DEFINE given == IF setup.explicit THEN setup.configured ELSE << >>
<1>3. given \in Seq(Severity) /\ Len(given) \in Nat /\ Len(given) <= Len(setup.configured)
  BY <1>1, <1>2, LenProperties
<1>4. Configured = given \o setup.args
  BY DEF Configured
<1> HIDE DEF given
<1>5. Configured \in Seq(Severity) /\ Len(Configured) = Len(given) + Len(setup.args)
  BY <1>1, <1>3, <1>4, ConcatProperties
<1>6. Len(setup.args) \in Nat /\ Len(setup.configured) \in Nat
  BY <1>1, LenProperties
<1>7. Len(given) + Len(setup.args) <= MaxInvariants
  <2>1. \A a, b, c, m \in Nat : a <= b /\ b + c <= m => a + c <= m
    OBVIOUS
  <2> QED BY <1>1, <1>3, <1>6, <2>1, Bounds
<1> QED BY <1>5, <1>7

\* A hook of on_start: the invariants are registered, or the trial stops.
LEMMA OnStartKeeps ==
    ASSUME TrialInv, OnStart
    PROVE  TrialInv'
<1> USE DEF TrialInv
<1>1. /\ setup' = setup /\ Selected' = Selected /\ \A kind : Has(kind)' = Has(kind)
      /\ stage = "starting" /\ next \in DOMAIN Selected
      /\ UNCHANGED <<recording, active, trace, findings, result, executed, streak, offended, seen>>
  BY SameOracles DEF OnStart, history
<1>2. \/ stage' = stage /\ next' = next + 1 /\ UNCHANGED <<error, aborted, ended>>
      \/ /\ stage' = "stopped" /\ next' = 1 /\ error' \in {"oracle", "interrupt"}
         /\ aborted' = FALSE /\ ended'.outcome = error'
  BY DEF OnStart, Continue, Stop
<1>3. Len(Selected) \in Nat /\ DOMAIN Selected = 1..Len(Selected)
  BY SelectedType DEF Types
<1>4. /\ invariants' \in Seq(Severity) /\ Len(invariants') <= MaxInvariants
      /\ Has("invariant") \/ invariants' = << >>
      /\ warned' = {}
  <2>1. CASE Selected[next] = "invariant"
    <3>1. invariants' = Configured /\ warned' = {} /\ Has("invariant")
      BY <1>1, <2>1, HasAt DEF OnStart
    <3> QED BY <3>1, ConfiguredType DEF Types
  <2>2. CASE Selected[next] # "invariant"
    BY <1>1, <2>2 DEF OnStart, Types, WarningsCome, Going
  <2> QED BY <2>1, <2>2
<1>5. Types'
  <2>1. next' \in 1..(Len(Selected) + 1)
    BY <1>1, <1>2, <1>3
  <2> QED BY <1>1, <1>2, <1>4, <2>1 DEF Types
<1>6. Endings' /\ FailureNoted' /\ Faithful' /\ Verdicts' /\ Returned'
  BY <1>1, <1>2 DEF Endings, FailureNoted, Faithful, Verdicts, Returned, Going, Unjudged, None
<1>7. WarningsCome'
  <2>1. \A i \in 1..MaxInvariants : streak'[i] <= Cardinality(warned' \cap 1..(i - 1))
    <3>1. warned = {}
      BY <1>1 DEF WarningsCome, Going
    <3> QED BY <1>1, <1>4, <3>1 DEF WarningsCome, Going
  <2> QED BY <1>4, <2>1 DEF WarningsCome
<1> QED BY <1>5, <1>6, <1>7

\* The hooks are done, the run begins.
LEMMA CreateMainKeeps ==
    ASSUME TrialInv, CreateMain
    PROVE  TrialInv'
<1>1. /\ setup' = setup /\ Selected' = Selected /\ \A kind : Has(kind)' = Has(kind)
      /\ stage = "starting" /\ stage' = "running"
      /\ UNCHANGED <<next, aborted, error, ended, result, recording, active, trace, invariants,
                     warned, findings, executed, streak, offended, seen>>
  BY SameOracles DEF CreateMain, observations, history
<1> QED BY <1>1 DEF TrialInv, Types, Endings, FailureNoted, Faithful, WarningsCome,
       Verdicts, Returned, Going, Unjudged

\* The run ends by itself, with or without an error.
LEMMA EndKeeps ==
    ASSUME TrialInv, End
    PROVE  TrialInv'
<1>1. /\ setup' = setup /\ Selected' = Selected /\ \A kind : Has(kind)' = Has(kind)
      /\ stage = "running" /\ stage' = "stopped" /\ next' = 1
      /\ aborted' = FALSE /\ ended'.outcome = error'
      /\ UNCHANGED <<result, recording, active, trace, invariants,
                     warned, findings, executed, streak, offended, seen>>
  BY SameOracles DEF End, Stop, observations, history
<1>2. Len(Selected) \in Nat
  BY SelectedType DEF TrialInv, Types
<1>3. Types'
  <2>1. next' \in 1..(Len(Selected) + 1)
    BY <1>1, <1>2
  <2>3. aborted' \in BOOLEAN
    BY <1>1, Zenon
  <2>2. stage' \in {"starting", "running", "stopped", "judged", "cleanup", "closed"}
    BY <1>1
  <2> QED BY <1>1, <2>1, <2>2, <2>3 DEF TrialInv, Types
<1>4. Endings' /\ FailureNoted' /\ Faithful'
  BY <1>1 DEF TrialInv, Endings, FailureNoted, Faithful, Going
<1>5. WarningsCome' /\ Verdicts' /\ Returned'
  BY <1>1 DEF TrialInv, WarningsCome, Verdicts, Returned, Going, Unjudged
<1> QED BY <1>3, <1>4, <1>5 DEF TrialInv


\* What both kinds of callbacks leave alone, and the callback they record.
LEMMA StepEffect ==
    ASSUME TrialInv, Step
    PROVE  /\ setup' = setup /\ Selected' = Selected /\ (\A kind : Has(kind)' = Has(kind))
           /\ stage = "running" /\ recording /\ Len(executed) < MaxSteps
           /\ UNCHANGED <<recording, active, result>>
           /\ \E c \in Choice :
                  /\ Observed(c) \/ Interrupted(c)
                  /\ trace' = executed' /\ trace' \in Seq(Choice)
                  /\ Len(executed) \in Nat /\ Len(executed') = Len(executed) + 1
<1>1. PICK c \in Choice : Observed(c) \/ Interrupted(c)
  BY DEF Step
<1>2. trace' = Append(trace, c) /\ executed' = Append(executed, c)
  BY <1>1 DEF Observed, Interrupted, Traced
<1>3. trace = executed /\ trace \in Seq(Choice)
  BY DEF TrialInv, Faithful, Types
<1>4. /\ trace' = executed' /\ trace' \in Seq(Choice)
      /\ Len(executed) \in Nat /\ Len(executed') = Len(executed) + 1
  BY <1>2, <1>3, AppendProperties, LenProperties
<1>5. setup' = setup /\ Selected' = Selected /\ \A kind : Has(kind)' = Has(kind)
  BY SameOracles DEF Step
<1> QED BY <1>1, <1>4, <1>5 DEF Step

\* A callback that raised a KeyboardInterrupt: the run is over, the trace whole.
LEMMA InterruptedKeeps ==
    ASSUME TrialInv, Step, NEW c \in Choice, Interrupted(c)
    PROVE  TrialInv'
<1>1. /\ setup' = setup /\ Selected' = Selected /\ \A kind : Has(kind)' = Has(kind)
      /\ stage = "running" /\ Len(executed) < MaxSteps
      /\ UNCHANGED <<recording, active, result>>
      /\ trace' = executed' /\ trace' \in Seq(Choice)
      /\ Len(executed) \in Nat /\ Len(executed') = Len(executed) + 1
  BY StepEffect
<1>2. /\ UNCHANGED <<invariants, warned, findings, streak, offended, seen>>
      /\ stage' = "stopped" /\ next' = 1
      /\ error' = "interrupt" /\ aborted' = FALSE /\ ended'.outcome = error'
  BY DEF Interrupted, Stop
<1>3. Types'
  <2>1. Len(Selected) \in Nat
    BY SelectedType DEF TrialInv, Types
  <2>2. next' \in 1..(Len(Selected) + 1)
    BY <1>1, <1>2, <2>1
  <2>3. aborted' \in BOOLEAN
    BY <1>2, Zenon
  <2>4. stage' \in {"starting", "running", "stopped", "judged", "cleanup", "closed"}
    BY <1>2
  <2> QED BY <1>1, <1>2, <2>2, <2>3, <2>4 DEF TrialInv, Types
<1>4. Endings' /\ FailureNoted' /\ WarningsCome'
  BY <1>1, <1>2 DEF TrialInv, Endings, FailureNoted, WarningsCome, Going, None
<1>5. Faithful'
  BY <1>1, <1>2, Bounds DEF TrialInv, Types, Faithful
<1>6. Verdicts' /\ Returned'
  BY <1>1, <1>2 DEF TrialInv, Verdicts, Returned, Unjudged
<1> QED BY <1>3, <1>4, <1>5, <1>6 DEF TrialInv

\* An observed callback, which the run may outlive: only if no predicate decides
\* does it, and then the number of the warnings reported before a violated one
\* grows with the number of steps for which it has been violated.
LEMMA ObservedKeeps ==
    ASSUME TrialInv, Step, NEW c \in Choice, Observed(c)
    PROVE  TrialInv'
<1>1. /\ setup' = setup /\ Selected' = Selected /\ \A kind : Has(kind)' = Has(kind)
      /\ stage = "running" /\ Len(executed) < MaxSteps
      /\ UNCHANGED <<recording, active, result>>
      /\ trace' = executed' /\ trace' \in Seq(Choice)
      /\ Len(executed) \in Nat /\ Len(executed') = Len(executed) + 1
  BY StepEffect
<1>2. PICK p \in [DOMAIN invariants' -> Predicate] :
               /\ Registered(invariants')
               /\ findings \subseteq findings'
               /\ \A f \in findings' \ findings :
                      f.severity \in Severity /\ f.oracle \in {"custom", "invariant"}
               /\ warned' \subseteq warned \cup Fresh(p, invariants')
               /\ seen' \in {seen, seen + 1}
               /\ Judged(p) /\ (GoesOn(p) \/ Ends)
  BY <1>1, ObservedEffect DEF TrialInv
<1>3. /\ invariants' \in Seq(Severity) /\ Len(invariants') <= MaxInvariants
      /\ DOMAIN invariants \subseteq DOMAIN invariants'
      /\ \A i \in DOMAIN invariants : invariants'[i] = invariants[i]
      /\ Has("invariant") \/ invariants' = << >>
  BY <1>2, RegisteredKeeps DEF TrialInv, Types
<1>4. /\ DOMAIN invariants' = 1..Len(invariants') /\ Len(invariants') \in Nat
      /\ \A i \in DOMAIN invariants' : i \in 1..MaxInvariants /\ invariants'[i] \in Severity
  BY <1>3, LenProperties, Bounds
<1> DEFINE bad == {i \in DOMAIN p : /\ p[i] = "violated" /\ invariants'[i] = "warning"
                                    /\ i \notin warned
                                    /\ \A j \in Decisive(p, invariants') : i < j}
<1>5. Fresh(p, invariants') = IF bad = {} THEN {} ELSE {Least(bad)}
  BY DEF Fresh
<1>6. bad \subseteq Nat /\ bad \subseteq DOMAIN invariants'
  BY <1>4
<1>7. \A i \in Fresh(p, invariants') : i \in bad
  BY <1>5, <1>6, LeastElement
<1> HIDE DEF bad
<1>8. Types'
  <2>1. /\ Len(Selected) \in Nat /\ next \in 1..(Len(Selected) + 1)
        /\ stage \in {"starting", "running", "stopped", "judged", "cleanup", "closed"}
        /\ aborted \in BOOLEAN
    BY SelectedType DEF TrialInv, Types
  <2>2. next' \in 1..(Len(Selected) + 1)
    BY <1>1, <1>2, <2>1 DEF GoesOn, Ends
  <2>3. aborted' \in BOOLEAN
    <3>1. aborted' = aborted \/ aborted' = TRUE \/ aborted' = FALSE
      BY <1>2 DEF GoesOn, Ends
    <3> QED BY <2>1, <3>1, Zenon
  <2>4. stage' \in {"starting", "running", "stopped", "judged", "cleanup", "closed"}
    BY <1>2, <2>1 DEF GoesOn, Ends
  <2>5. warned' \subseteq {i \in DOMAIN invariants' : invariants'[i] = "warning"}
    BY <1>2, <1>3, <1>7 DEF TrialInv, Types, bad
  <2>6. \A f \in findings' : f.severity \in Severity
    BY <1>2 DEF TrialInv, Types
  <2>7. streak' \in [1..MaxInvariants -> Nat]
    BY <1>2, Bounds DEF TrialInv, Types, Judged
  <2>8. offended' \in BOOLEAN
    BY <1>2 DEF TrialInv, Types, Judged
  <2>9. seen' \in Nat
    BY <1>2 DEF TrialInv, Types
  <2> QED BY <1>1, <1>3, <2>2, <2>3, <2>4, <2>5, <2>6, <2>7, <2>8, <2>9 DEF TrialInv, Types
<1>9. Endings'
  BY <1>1, <1>2 DEF TrialInv, Endings, Going, GoesOn, Ends, None
<1>10. FailureNoted'
  <2>1. CASE offended
    BY <1>1, <1>2, <2>1 DEF TrialInv, FailureNoted, Endings, Going
  <2>2. CASE ~offended
    <3>1. CASE GoesOn(p)
      <4>1. Has("invariant") => Decisive(p, invariants') = {}
        BY <3>1 DEF GoesOn
      <4>2. DOMAIN p = DOMAIN invariants'
        OBVIOUS
      <4>3. ~\E i \in DOMAIN p :
               p[i] = "raises" \/ (p[i] = "violated" /\ invariants'[i] = "failure")
        BY <1>3, <1>4, <4>1, <4>2, EmptySeq DEF Decisive
      <4> QED BY <1>2, <2>2, <4>3 DEF FailureNoted, Judged
    <3>2. CASE Ends
      BY <3>2 DEF FailureNoted, Ends
    <3> QED BY <1>2, <3>1, <3>2
  <2> QED BY <2>1, <2>2
<1>11. Faithful'
  <2>1. seen' <= Len(executed') /\ Len(executed') <= MaxSteps
    BY <1>1, <1>2, Bounds DEF TrialInv, Types, Faithful
  <2>2. stage' \in {"starting", "running"} /\ Has("custom") => seen' = Len(executed')
    BY <1>1, <1>2 DEF TrialInv, Types, Faithful, GoesOn, Ends
  <2>3. stage' \notin {"cleanup", "closed"}
    BY <1>1, <1>2 DEF GoesOn, Ends
  <2> QED BY <1>1, <2>1, <2>2, <2>3 DEF Faithful
<1>12. WarningsCome'
  <2>1. CASE Ends
    BY <2>1 DEF Ends, WarningsCome, Going
  <2>2. CASE GoesOn(p)
    <3>1. CASE Has("invariant")
      <4>1. /\ Decisive(p, invariants') = {} /\ warned' = warned \cup Fresh(p, invariants')
            /\ Fresh(p, invariants') # {} =>
                   Finding("invariant", "warning", Least(Fresh(p, invariants'))) \in findings'
        BY <2>2, <3>1 DEF GoesOn
      <4>2. \A i \in warned' : Finding("invariant", "warning", i) \in findings'
        <5> SUFFICES ASSUME NEW i \in warned'
                     PROVE  Finding("invariant", "warning", i) \in findings'
          OBVIOUS
        <5>1. CASE i \in warned
          BY <1>1, <1>2, <5>1 DEF TrialInv, WarningsCome, Going
        <5>2. CASE i \in Fresh(p, invariants')
          <6>1. Fresh(p, invariants') = {i} /\ i \in Nat
            BY <1>5, <1>6, <1>7, <5>2
          <6>2. Least(Fresh(p, invariants')) = i
            BY <6>1, LeastElement
          <6> QED BY <4>1, <5>2, <6>2
        <5> QED BY <4>1, <5>1, <5>2
      <4>3. ASSUME NEW i \in (1..MaxInvariants) \ warned'
            PROVE  streak'[i] <= Cardinality(warned' \cap 1..(i - 1))
        <5>1. i \in Nat /\ i \in (1..MaxInvariants) \ warned
          BY <4>1, Bounds
        <5>2. streak[i] \in Nat /\ streak[i] <= Cardinality(warned \cap 1..(i - 1))
          BY <1>1, <5>1 DEF TrialInv, Types, WarningsCome, Going
        <5>3. CASE i \in DOMAIN p /\ p[i] = "violated"
          <6>1. i \in bad
            <7>1. invariants'[i] = "warning"
              BY <1>4, <4>1, <5>3 DEF Decisive, Severity
            <7> QED BY <4>1, <5>1, <5>3, <7>1 DEF bad
          <6> DEFINE l == Least(bad)
          <6>2. l \in bad /\ l <= i
            BY <1>6, <6>1, LeastElement
          <6>3. Fresh(p, invariants') = {l}
            BY <1>5, <6>1
          <6>4. l \in DOMAIN invariants' /\ l \notin warned
            BY <1>6, <6>2 DEF bad
          <6>5. warned' = warned \cup {l}
            BY <4>1, <6>3
          <6> HIDE DEF l
          <6>6. l \in Nat /\ l \in 1..(i - 1)
            BY <1>4, <5>1, <6>2, <6>4, <6>5
          <6>7. /\ Cardinality(warned \cap 1..(i - 1)) \in Nat
                /\ Cardinality(warned' \cap 1..(i - 1))
                       = Cardinality(warned \cap 1..(i - 1)) + 1
            BY <5>1, <6>4, <6>5, <6>6, ReportedBefore DEF TrialInv
          <6>8. streak'[i] = IF streak[i] < MaxInvariants THEN streak[i] + 1 ELSE streak[i]
            BY <1>2, <5>1, <5>3 DEF Judged
          <6> QED BY <5>2, <6>7, <6>8
        <5>4. CASE ~(i \in DOMAIN p /\ p[i] = "violated")
          <6>1. streak'[i] = 0
            BY <1>2, <5>1, <5>4 DEF Judged
          <6>2. Cardinality(warned' \cap 1..(i - 1)) \in Nat
            <7>1. IsFiniteSet(1..(i - 1)) /\ warned' \cap 1..(i - 1) \in SUBSET (1..(i - 1))
              BY <5>1, FS_Interval
            <7> QED BY <7>1, FS_Subset, FS_CardinalityType
          <6> QED BY <6>1, <6>2
        <5> QED BY <5>3, <5>4
      <4>4. stage' = "running"
        BY <1>1, <2>2 DEF GoesOn
      <4> QED BY <4>2, <4>3, <4>4 DEF WarningsCome
    <3>2. CASE ~Has("invariant")
      <4>1. invariants' = << >> /\ DOMAIN p = {}
        BY <1>3, <1>4, <3>2, EmptySeq
      <4>2. warned' = {} /\ warned = {}
        BY <1>8, <4>1, <1>3 DEF Types, TrialInv
      <4>3. \A i \in 1..MaxInvariants : streak'[i] = 0
        BY <1>2, <4>1 DEF Judged
      <4>4. \A i \in 1..MaxInvariants : streak'[i] <= Cardinality(warned' \cap 1..(i - 1))
        <5>1. \A i : warned' \cap 1..(i - 1) = {}
          BY <4>2
        <5> QED BY <4>3, <5>1, FS_EmptySet
      <4> QED BY <4>2, <4>4 DEF WarningsCome
    <3> QED BY <3>1, <3>2
  <2> QED BY <1>2, <2>1, <2>2
<1>13. Verdicts'
  <2>1. Unjudged'
    BY <1>1, <1>2 DEF Unjudged, GoesOn, Ends
  <2> QED BY <1>1, <1>2, <2>1 DEF TrialInv, Verdicts, Unjudged
<1>14. Returned'
  <2>1. stage' # "closed"
    BY <1>1, <1>2 DEF GoesOn, Ends
  <2> QED BY <1>1, <2>1 DEF TrialInv, Returned
<1> QED BY <1>8, <1>9, <1>10, <1>11, <1>12, <1>13, <1>14 DEF TrialInv


\* The oracles about the outcome do not disagree: one speaks if there was an error,
\* none if there was not.
LEMMA OneExplains ==
    /\ \A f \in OutcomeVerdicts : f.oracle \in Primary /\ f.severity = "failure"
    /\ error = None => OutcomeVerdicts = {}
    /\ error # None => \E f : OutcomeVerdicts = {f}
<1>1. \A oracle \in Primary : Finding(oracle, "failure", 0).oracle \in Primary
          /\ Finding(oracle, "failure", 0).severity = "failure"
  BY DEF Finding
<1>2. CASE error = None
  BY <1>2 DEF OutcomeVerdicts, When, Unhandled, None
<1>3. CASE error = "deadlock"
  BY <1>1, <1>3 DEF OutcomeVerdicts, When, Unhandled, None, Control, Primary
<1>4. CASE error = "steps"
  BY <1>1, <1>4 DEF OutcomeVerdicts, When, Unhandled, None, Control, Primary
<1>5. CASE error = "time"
  BY <1>1, <1>5 DEF OutcomeVerdicts, When, Unhandled, None, Control, Primary
<1>6. CASE error # None /\ error \notin Control
  BY <1>1, <1>6 DEF OutcomeVerdicts, When, Unhandled, None, Control, Primary
<1> QED BY <1>2, <1>3, <1>4, <1>5, <1>6 DEF Control

\* The verdicts on leaks are not about the error, and a task is a leak of a run
\* that was not aborted only.
LEMMA LeaksApart ==
    ASSUME setup \in Setups
    PROVE  /\ \A f \in LeakVerdicts : f.severity \in Severity
                  /\ f.oracle \in {"unretrieved_exception", "task_leak"}
           /\ aborted => \A f \in LeakVerdicts : f.oracle # "task_leak"
<1>1. setup.leaks \in Severity
  BY OraclesAssumption DEF Setup
<1> QED BY <1>1 DEF LeakVerdicts, When, Completed, Finding, Severity

\* The verdicts: what the hooks found before is joined by one explanation at most.
LEMMA OnFinishKeeps ==
    ASSUME TrialInv, OnFinish
    PROVE  TrialInv'
<1>1. /\ setup' = setup /\ Selected' = Selected /\ \A kind : Has(kind)' = Has(kind)
      /\ stage = "stopped" /\ stage' = "judged" /\ error \notin Interrupts
      /\ UNCHANGED <<next, recording, active, trace, invariants, warned, aborted,
                     ended, result, executed, streak, offended, seen>>
  BY SameOracles DEF OnFinish, history
<1> DEFINE verdicts == IF Has("defaults") THEN OutcomeVerdicts \cup LeakVerdicts ELSE {}
<1>2. PICK answers \in [DOMAIN Selected -> Anything] :
        /\ findings' = findings \cup {answer \in ToSet(answers) : Found(answer)} \cup verdicts
        /\ error' = IF Raised("interrupt") \in ToSet(answers) THEN "interrupt"
                    ELSE IF error = None /\ Raised("oracle") \in ToSet(answers)
                         THEN "oracle" ELSE error
  BY DEF OnFinish
<1> DEFINE custom == {answer \in ToSet(answers) : Found(answer)}
<1>3. \A f \in custom : f.severity \in Severity /\ f.oracle = "custom"
  <2> SUFFICES ASSUME NEW f \in custom
               PROVE  f.severity \in Severity /\ f.oracle = "custom"
    OBVIOUS
  <2>1. f \in Anything /\ f.severity \in Severity
    BY DEF ToSet, Found
  <2> QED BY <2>1 DEF Anything, Nothing, Raised, Finding, Severity
<1>4. findings' = findings \cup custom \cup verdicts
  BY <1>2
<1>5. error # None => error' # None
  BY <1>2 DEF None
<1>6. \A f \in verdicts : f.severity \in Severity
  BY OneExplains, LeaksApart DEF TrialInv, Types, Severity
<1> HIDE DEF custom
<1>7. Types'
  <2>1. \A f \in findings' : f.severity \in Severity
    BY <1>3, <1>4, <1>6 DEF TrialInv, Types
  <2>2. stage' \in {"starting", "running", "stopped", "judged", "cleanup", "closed"}
    BY <1>1
  <2> QED BY <1>1, <2>1, <2>2 DEF TrialInv, Types
<1>8. Endings' /\ FailureNoted'
  BY <1>1, <1>4, <1>5 DEF TrialInv, Endings, FailureNoted, Going
<1>9. Faithful' /\ WarningsCome' /\ Returned'
  BY <1>1 DEF TrialInv, Faithful, WarningsCome, Returned, Going
<1>10. Verdicts'
  <2> SUFFICES ASSUME Has("defaults")
               PROVE  /\ Cardinality({f \in findings' : f.oracle \in Primary})
                             = IF ended.outcome = None THEN 0 ELSE 1
                      /\ aborted => \A f \in findings' : f.oracle \notin Primary \cup {"task_leak"}
    BY <1>1 DEF Verdicts, Unjudged
  <2>1. \A f \in findings \cup custom \cup LeakVerdicts : f.oracle \notin Primary
    <3>1. \A f \in findings : f.oracle \in {"custom", "invariant"}
      BY <1>1 DEF TrialInv, Verdicts, Unjudged
    <3> QED BY <1>3, <3>1, LeaksApart DEF TrialInv, Types, Primary
  <2>2. findings' = findings \cup custom \cup OutcomeVerdicts \cup LeakVerdicts
    BY <1>4
  <2>3. {f \in findings' : f.oracle \in Primary} = OutcomeVerdicts
    BY <2>1, <2>2, OneExplains
  <2>4. ended.outcome = error
    BY <1>1 DEF TrialInv, Endings
  <2>5. Cardinality(OutcomeVerdicts) = IF ended.outcome = None THEN 0 ELSE 1
    BY <2>4, OneExplains, FS_EmptySet, FS_Singleton
  <2>6. ASSUME aborted
        PROVE  \A f \in findings' : f.oracle \notin Primary \cup {"task_leak"}
    <3>1. OutcomeVerdicts = {}
      BY <1>1, <2>6, <2>4, OneExplains DEF TrialInv, Endings
    <3>2. \A f \in findings : f.oracle # "task_leak"
      BY <1>1 DEF TrialInv, Verdicts, Unjudged
    <3>3. \A f \in LeakVerdicts : f.oracle # "task_leak"
      BY <2>6, LeaksApart DEF TrialInv, Types
    <3> QED BY <1>3, <2>1, <2>2, <3>1, <3>2, <3>3
  <2> QED BY <2>3, <2>5, <2>6
<1> QED BY <1>7, <1>8, <1>9, <1>10 DEF TrialInv

\* Recording and registration end before the cleanup begins.
LEMMA BeginShutdownKeeps ==
    ASSUME TrialInv, BeginShutdown
    PROVE  TrialInv'
<1>1. /\ setup' = setup /\ Selected' = Selected /\ \A kind : Has(kind)' = Has(kind)
      /\ stage = "judged" \/ (stage = "stopped" /\ error \in Interrupts)
      /\ stage' = "cleanup" /\ active' = FALSE /\ recording' = FALSE
      /\ UNCHANGED <<next, trace, invariants, warned, findings, aborted, error,
                     ended, result, executed, streak, offended, seen>>
  BY SameOracles DEF BeginShutdown, history
<1>2. Types'
  <2>1. recording' \in BOOLEAN /\ active' \in BOOLEAN
    BY <1>1, Zenon
  <2>2. stage' \in {"starting", "running", "stopped", "judged", "cleanup", "closed"}
    BY <1>1
  <2> QED BY <1>1, <2>1, <2>2 DEF TrialInv, Types
<1>3. Endings' /\ FailureNoted' /\ WarningsCome' /\ Returned'
  BY <1>1 DEF TrialInv, Endings, FailureNoted, WarningsCome, Returned, Going
<1>4. Faithful'
  BY <1>1 DEF TrialInv, Faithful
<1>5. Verdicts'
  BY <1>1 DEF TrialInv, Endings, Verdicts, Unjudged
<1> QED BY <1>2, <1>3, <1>4, <1>5 DEF TrialInv

\* Nothing is recorded in the cleanup.
LEMMA CleanupStepKeeps ==
    ASSUME TrialInv, CleanupStep
    PROVE  TrialInv'
<1>1. /\ setup' = setup /\ Selected' = Selected /\ \A kind : Has(kind)' = Has(kind)
      /\ stage = "cleanup" /\ stage' = stage
      /\ UNCHANGED <<next, recording, active, warned, findings, aborted, error,
                     ended, result, executed, streak, offended, seen>>
  BY SameOracles DEF CleanupStep, history
<1>2. trace' = trace
  BY <1>1 DEF CleanupStep, TrialInv, Faithful
<1>3. Registered(invariants')
  BY DEF CleanupStep
<1>4. /\ invariants' \in Seq(Severity) /\ Len(invariants') <= MaxInvariants
      /\ DOMAIN invariants \subseteq DOMAIN invariants'
      /\ \A i \in DOMAIN invariants : invariants'[i] = invariants[i]
      /\ Has("invariant") \/ invariants' = << >>
  BY <1>3, RegisteredKeeps DEF TrialInv, Types
<1>5. Types'
  <2>1. warned' \subseteq {i \in DOMAIN invariants' : invariants'[i] = "warning"}
    BY <1>1, <1>4 DEF TrialInv, Types
  <2> QED BY <1>1, <1>2, <1>4, <2>1 DEF TrialInv, Types
<1>6. Endings' /\ FailureNoted' /\ Faithful' /\ WarningsCome' /\ Returned'
  BY <1>1, <1>2 DEF TrialInv, Endings, FailureNoted, Faithful, WarningsCome, Returned, Going
<1>7. Verdicts'
  BY <1>1 DEF TrialInv, Verdicts, Unjudged
<1> QED BY <1>5, <1>6, <1>7 DEF TrialInv

\* What is returned is what was observed; no verdict on the error is lost.
LEMMA CloseKeeps ==
    ASSUME TrialInv, Close
    PROVE  TrialInv'
<1>1. /\ setup' = setup /\ Selected' = Selected /\ \A kind : Has(kind)' = Has(kind)
      /\ stage = "cleanup" /\ stage' = "closed"
      /\ UNCHANGED <<next, aborted, error, ended, recording, active, trace, invariants,
                     warned, findings, executed, streak, offended, seen>>
  BY SameOracles DEF Close, observations, history
<1>2. Types'
  <2>1. stage' \in {"starting", "running", "stopped", "judged", "cleanup", "closed"}
    BY <1>1
  <2> QED BY <1>1, <2>1 DEF TrialInv, Types
<1>3. Endings' /\ FailureNoted' /\ Faithful' /\ WarningsCome'
  BY <1>1 DEF TrialInv, Endings, FailureNoted, Faithful, WarningsCome, Going
<1>4. Verdicts'
  BY <1>1 DEF TrialInv, Verdicts, Unjudged
<1>5. Returned'
  <2>1. PICK late \in BOOLEAN :
           result' = IF error \in Interrupts THEN [kind |-> "raised"]
                     ELSE [kind |-> "trial",
                           error |-> IF error = None /\ (ended.captured \/ late)
                                     THEN "background" ELSE error,
                           trace |-> trace, findings |-> findings]
    BY DEF Close
  <2>2. CASE error \in Interrupts
    BY <1>1, <2>1, <2>2 DEF Returned
  <2>3. CASE error \notin Interrupts
    <3>1. /\ result'.kind = "trial" /\ result'.findings = findings /\ result'.trace = trace
          /\ result'.error = None => error = None
      BY <2>1, <2>3 DEF None
    <3> QED BY <1>1, <3>1 DEF Returned
  <2> QED BY <2>2, <2>3
<1> QED BY <1>2, <1>3, <1>4, <1>5 DEF TrialInv

----------------------------------------------------------------------------
(* The theorems *)

\* Every step of a trial keeps the invariant.
LEMMA TrialStep ==
    ASSUME TrialInv, [Next]_vars
    PROVE  TrialInv'
<1>1. CASE OnStart
  BY <1>1, OnStartKeeps
<1>2. CASE CreateMain
  BY <1>2, CreateMainKeeps
<1>3. CASE Step
  BY <1>3, StepEffect, ObservedKeeps, InterruptedKeeps
<1>4. CASE End
  BY <1>4, EndKeeps
<1>5. CASE OnFinish
  BY <1>5, OnFinishKeeps
<1>6. CASE BeginShutdown
  BY <1>6, BeginShutdownKeeps
<1>7. CASE CleanupStep
  BY <1>7, CleanupStepKeeps
<1>8. CASE Close
  BY <1>8, CloseKeeps
<1>9. CASE UNCHANGED vars
  BY <1>9, TrialStutter
<1> QED BY <1>1, <1>2, <1>3, <1>4, <1>5, <1>6, <1>7, <1>8, <1>9 DEF Next

\* In every trial, whatever its oracles, its invariants and its scenario: what was
\* recorded, found and returned hangs together as the parts of TrialInv say.
THEOREM TrialInvAlways == Spec => []TrialInv
<1>1. Init => TrialInv
  BY TrialInit
<1>2. TrialInv /\ [Next]_vars => TrialInv'
  BY TrialStep
<1> QED BY <1>1, <1>2, PTL DEF Spec

\* The variables of a trial have their types, the warnings reported are warnings,
\* and an aborted run has the failure that aborted it.
THEOREM OraclesTypeCorrect == Spec => []TypeOK
<1>1. TrialInv => TypeOK
  <2> SUFFICES ASSUME TrialInv
               PROVE  TypeOK
    OBVIOUS
  <2>1. executed \in Seq(Choice) /\ seen \in 0..MaxSteps
    <3>1. /\ trace = executed /\ trace \in Seq(Choice) /\ seen \in Nat
          /\ seen <= Len(executed) /\ Len(executed) <= MaxSteps
      BY DEF TrialInv, Types, Faithful
    <3>2. Len(executed) \in Nat
      BY <3>1, LenProperties
    <3> QED BY <3>1, <3>2, Bounds
  <2> QED BY <2>1 DEF TrialInv, Types, Endings, TypeOK
<1> QED BY <1>1, TrialInvAlways, PTL

\* A trial that passes never saw an invariant of severity FAILURE violated, or any
\* predicate raise: with any oracles in any order, any number of invariants and
\* whatever was reported before.
THEOREM OkMeansHeldAlways == Spec => []OkMeansHeld
<1>1. TrialInv => OkMeansHeld
  BY DEF TrialInv, FailureNoted, Returned, OkMeansHeld, Ok
<1> QED BY <1>1, TrialInvAlways, PTL

\* A warning that lasts for as many steps as there are invariants is reported,
\* however many others were violated in the same steps.
THEOREM PersistentWarningAlways == Spec => []PersistentWarningReported
<1>1. TrialInv => PersistentWarningReported
  <2> SUFFICES ASSUME TrialInv, stage = "running", NEW i \in DOMAIN invariants,
                      invariants[i] = "warning", streak[i] >= Len(invariants)
               PROVE  Finding("invariant", "warning", i) \in findings
    BY DEF PersistentWarningReported
  <2>1. /\ DOMAIN invariants = 1..Len(invariants) /\ Len(invariants) \in Nat
        /\ Len(invariants) <= MaxInvariants
    BY LenProperties DEF TrialInv, Types
  <2>2. i \in 1..MaxInvariants /\ i \in Nat /\ i # 0 /\ i <= Len(invariants)
    BY <2>1, Bounds
  <2>3. streak[i] \in Nat
    BY <2>2 DEF TrialInv, Types
  <2>4. CASE i \in warned
    BY <2>4 DEF TrialInv, WarningsCome, Going
  <2>5. CASE i \notin warned
    <3>1. streak[i] <= Cardinality(warned \cap 1..(i - 1))
      BY <2>2, <2>5 DEF TrialInv, WarningsCome, Going
    <3>2. /\ Cardinality(warned \cap 1..(i - 1)) \in Nat
          /\ Cardinality(warned \cap 1..(i - 1)) < i
      BY <2>2, ReportedBefore DEF TrialInv
    <3> QED BY <2>1, <2>2, <2>3, <3>1, <3>2
  <2> QED BY <2>4, <2>5
<1> QED BY <1>1, TrialInvAlways, PTL

\* The outcome of a trial of the default oracles has one explanation if it is an
\* error and none if it is not; an aborted run has no leak and no error besides.
THEOREM OneVerdictAlways == Spec => []OneVerdict
<1>1. TrialInv => OneVerdict
  BY DEF TrialInv, Verdicts, OneVerdict, Unjudged
<1> QED BY <1>1, TrialInvAlways, PTL

\* The trace is what the scenario executed, to the callback and without the
\* cleanup, and a custom oracle has looked at every callback of a run that goes on.
THEOREM ObservedAsExecutedAlways == Spec => []ObservedAsExecuted
<1>1. TrialInv => ObservedAsExecuted
  BY DEF TrialInv, Faithful, Returned, ObservedAsExecuted
<1> QED BY <1>1, TrialInvAlways, PTL

=============================================================================
