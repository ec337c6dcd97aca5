---------------------------- MODULE ShrinkProofs ----------------------------
(***************************************************************************)
(* Proofs about Shrink: runs of any length, steps of any width, any budget *)
(* of replays, and a search that may be cut short anywhere.                *)
(***************************************************************************)
EXTENDS Shrink, QueueLemmas, FiniteSetTheorems

----------------------------------------------------------------------------
(* The inductive invariant *)

Widest == Max(Widths \cup {0})

\* A schedule a run of the scenario can come to.
IsSchedule(d) ==
    d \in Seq(Nat) /\ Len(d) <= MaxLength /\ \A k \in 1..Len(d) : d[k] <= Widest

\* A run: every decision is one of the candidates of its step.
IsRun(r) ==
    \E n \in 0..MaxLength :
        /\ r.widths \in [1..n -> Widths] /\ r.made \in [1..n -> Nat]
        /\ \A k \in 1..n : r.made[k] < r.widths[k]

Types ==
    /\ stage \in Stages /\ late \in BOOLEAN /\ stopped \in BOOLEAN /\ verified \in BOOLEAN
    /\ used \in 0..MaxReplays
    /\ IsSchedule(original) /\ IsSchedule(best) /\ IsSchedule(before)
    /\ rung \in -1..Widest /\ at \in Nat /\ limit \in 0..MaxLength /\ span \in Nat
    /\ stage = "bisect" => limit = Len(best)

\* The runs executed are runs of one scenario, among them the original.
OneScenario ==
    /\ \A r \in world : IsRun(r)
    /\ \A r, s \in world : SameScenario(r, s)
    /\ \E r \in world : r.made = original /\ r.hit

\* Sound, and with an entry for every schedule that an entry came to.
CacheKnows ==
    /\ CacheSound
    /\ \A key \in DOMAIN cache : cache[key].decisions \in DOMAIN cache

\* Until the search begins the best schedule is the original, and nothing is known
\* before the guard.
Beginning ==
    /\ stage \in {"guard", "baseline"} => best = original /\ rung = -1
    /\ stage = "guard" => DOMAIN cache = {}

\* Whatever improved the schedule left a replay, and so did the first value tried
\* at a position, after which the budget is not looked at until the next one.
ReserveHeld ==
    stage \notin {"done", "error"} /\ (best # original \/ rung # -1) =>
        late \/ used < MaxReplays

SearchInv ==
    /\ Types /\ OneScenario /\ CacheKnows /\ Beginning
    /\ BestIsProven /\ ReserveHeld /\ NeverAccused

----------------------------------------------------------------------------
(* Numbers and schedules *)

LEMMA Limits ==
    /\ MaxLength \in Nat /\ MaxReplays \in Nat /\ SpanLimit \in Nat /\ LookBack \in Nat
    /\ \A w \in Widths : w \in Nat /\ 0 < w
BY ShrinkAssumption

\* The greatest and the least of numbers within bounds.
LEMMA MaxOf ==
    ASSUME NEW S, S \subseteq Nat, S # {}, NEW n \in Nat, \A x \in S : x <= n
    PROVE  Max(S) \in S /\ \A x \in S : x <= Max(S)
<1> DEFINE T == {n - x : x \in S}
<1>1. T \subseteq Nat /\ T # {}
  <2>1. \A x \in S : x \in Nat /\ n - x \in Nat
    OBVIOUS
  <2> QED BY <2>1
<1>2. PICK t \in T : \A y \in T : t <= y
  BY <1>1, LeastNat
<1>3. PICK m \in S : t = n - m
  BY <1>2
<1>4. \A x \in S : m >= x
  BY <1>2, <1>3
<1> QED BY <1>3, <1>4 DEF Max

LEMMA MinOf ==
    ASSUME NEW S, S \subseteq Nat, S # {}
    PROVE  Min(S) \in S /\ \A x \in S : Min(S) <= x
BY LeastNat DEF Min

\* A finite set of numbers is bounded: otherwise some element of a listing would be
\* the first one beyond every bound.
LEMMA FiniteBound ==
    ASSUME NEW S, S \subseteq Nat, IsFiniteSet(S)
    PROVE  \E n \in Nat : \A x \in S : x <= n
<1> DEFINE m == Cardinality(S)
<1>1. m \in Nat /\ ExistsBijection(1..m, S)
  BY FS_CardinalityType
<1>2. PICK f \in [1..m -> S] : \A x \in S : \E k \in 1..m : f[k] = x
  BY <1>1 DEF ExistsBijection, Bijection, Surjection
<1> HIDE DEF m
<1>3. \A k \in 1..m : f[k] \in Nat
  BY <1>2
<1> DEFINE Bounds(k) == {n \in Nat : \A j \in 1..k : f[j] <= n}
           bad == {k \in 0..m : Bounds(k) = {}}
<1>4. ASSUME NEW k \in bad, \A j \in bad : k <= j
      PROVE  FALSE
  <2>1. k \in 0..m /\ k \in Nat /\ Bounds(k) = {}
    BY <1>1
  <2>2. k # 0
    <3>1. 0 \in Bounds(0)
      OBVIOUS
    <3> QED BY <2>1, <3>1
  <2>3. k - 1 \in 0..m /\ k - 1 \in Nat /\ ~(k <= k - 1)
    BY <1>1, <2>1, <2>2
  <2>4. Bounds(k - 1) # {}
    BY <1>4, <2>3
  <2>5. PICK n \in Nat : \A j \in 1..(k - 1) : f[j] <= n
    BY <2>4
  <2>6. k \in 1..m /\ f[k] \in Nat
    BY <1>1, <1>3, <2>1, <2>2
  <2> HIDE DEF bad
  <2>7. ASSUME NEW j \in 1..k
        PROVE  f[j] <= n + f[k]
    <3>1. CASE j = k
      BY <2>6, <3>1
    <3>2. CASE j # k
      <4>1. j \in 1..(k - 1) /\ j \in 1..m
        BY <1>1, <2>1, <3>2
      <4>2. f[j] <= n /\ f[j] \in Nat
        BY <1>3, <2>5, <4>1
      <4> QED BY <2>6, <4>2
    <3> QED BY <3>1, <3>2
  <2>8. n + f[k] \in Bounds(k)
    BY <2>6, <2>7
  <2> QED BY <2>1, <2>8
<1>5. bad \subseteq Nat
  BY <1>1
<1>6. bad = {}
  <2> HIDE DEF bad
  <2> QED BY <1>4, <1>5, LeastNat
<1>7. m \in 0..m
  BY <1>1
<1>8. Bounds(m) # {}
  BY <1>6, <1>7
<1>9. PICK n \in Nat : \A j \in 1..m : f[j] <= n
  BY <1>8
<1> QED BY <1>2, <1>9

\* The widest step.
LEMMA WidestType ==
    Widest \in Nat /\ \A w \in Widths : w <= Widest
<1>1. IsFiniteSet(Widths \cup {0}) /\ Widths \cup {0} \subseteq Nat
  BY ShrinkAssumption, FS_AddElement
<1>2. PICK n \in Nat : \A x \in Widths \cup {0} : x <= n
  BY <1>1, FiniteBound
<1> QED BY <1>1, <1>2, MaxOf DEF Widest

\* The first part of a schedule.
LEMMA FirstPart ==
    ASSUME NEW d \in Seq(Nat), NEW m \in 0..Len(d)
    PROVE  /\ SubSeq(d, 1, m) \in Seq(Nat) /\ Len(SubSeq(d, 1, m)) = m
           /\ DOMAIN SubSeq(d, 1, m) = 1..m
           /\ \A k \in 1..m : SubSeq(d, 1, m)[k] = d[k]
<1>1. Len(d) \in Nat /\ \A k \in 1..Len(d) : d[k] \in Nat
  BY LenProperties
<1>2. \A k \in 1..m : d[k] \in Nat
  BY <1>1
<1>3. /\ SubSeq(d, 1, m) \in Seq(Nat)
      /\ Len(SubSeq(d, 1, m)) = IF 1 <= m THEN m - 1 + 1 ELSE 0
      /\ \A k \in 1..(m - 1 + 1) : SubSeq(d, 1, m)[k] = d[1 + k - 1]
  BY <1>1, <1>2, SubSeqProperties
<1>4. Len(SubSeq(d, 1, m)) = m /\ \A k \in 1..m : SubSeq(d, 1, m)[k] = d[k]
  BY <1>1, <1>3
<1> QED BY <1>3, <1>4, LenProperties

\* The canonical schedule: what is cut off is zero.
LEMMA PrefixFacts ==
    ASSUME NEW d \in Seq(Nat)
    PROVE  \E m \in 0..Len(d) :
               /\ Prefix(d) = SubSeq(d, 1, m)
               /\ \A k \in (m + 1)..Len(d) : d[k] = 0
               /\ m # 0 => d[m] # 0
<1> DEFINE S == Nonzero(d) \cup {0}
           m == Max(S)
<1>1. Len(d) \in Nat /\ DOMAIN d = 1..Len(d)
  BY LenProperties
<1>2. S \subseteq 0..Len(d) /\ 0 \in S
  BY <1>1 DEF Nonzero
<1>3. m \in S /\ \A x \in S : x <= m
  <2>1. S \subseteq Nat /\ S # {} /\ \A x \in S : x <= Len(d)
    BY <1>1, <1>2
  <2> HIDE DEF S
  <2> QED BY <1>1, <2>1, MaxOf
<1>4. Prefix(d) = SubSeq(d, 1, m)
  BY DEF Prefix
<1>5. m \in 0..Len(d)
  BY <1>2, <1>3
<1> HIDE DEF m
<1>6. \A k \in (m + 1)..Len(d) : d[k] = 0
  BY <1>1, <1>3, <1>5 DEF Nonzero
<1>7. m # 0 => d[m] # 0
  BY <1>3 DEF Nonzero
<1> QED BY <1>4, <1>5, <1>6, <1>7

\* A function on the first n numbers is a sequence of that length.
LEMMA AsSequence ==
    ASSUME NEW S, NEW n \in Nat, NEW f \in [1..n -> S]
    PROVE  f \in Seq(S) /\ Len(f) = n
<1>1. f \in Seq(S)
  OBVIOUS
<1> QED BY <1>1, LenProperties

----------------------------------------------------------------------------
(* Runs *)

\* What a run is, with its schedule as a sequence.
LEMMA RunFacts ==
    ASSUME NEW r, IsRun(r)
    PROVE  /\ r.made \in Seq(Nat) /\ IsSchedule(r.made)
           /\ DOMAIN r.made = 1..Len(r.made) /\ DOMAIN r.widths = 1..Len(r.made)
           /\ \A k \in 1..Len(r.made) : r.widths[k] \in Nat /\ r.made[k] < r.widths[k]
<1>1. PICK n \in 0..MaxLength :
          /\ r.widths \in [1..n -> Widths] /\ r.made \in [1..n -> Nat]
          /\ \A k \in 1..n : r.made[k] < r.widths[k]
  BY DEF IsRun
<1>2. n \in Nat /\ n <= MaxLength
  BY Limits
<1>3. r.made \in Seq(Nat) /\ Len(r.made) = n
  BY <1>1, <1>2, AsSequence
<1>4. \A k \in 1..n : r.widths[k] \in Nat /\ r.widths[k] <= Widest
  BY <1>1, Limits, WidestType
<1>5. \A k \in 1..n : r.made[k] <= Widest
  BY <1>1, <1>4, WidestType
<1> QED BY <1>1, <1>2, <1>3, <1>4, <1>5 DEF IsSchedule

\* The canonical schedule is a prefix, is as short, and is itself canonical.
LEMMA PrefixSchedule ==
    ASSUME NEW d, IsSchedule(d)
    PROVE  IsSchedule(Prefix(d)) /\ IsPrefix(Prefix(d), d)
<1>1. d \in Seq(Nat) /\ Len(d) \in Nat
  BY LenProperties DEF IsSchedule
<1>2. PICK m \in 0..Len(d) : Prefix(d) = SubSeq(d, 1, m)
  BY <1>1, PrefixFacts
<1>3. /\ Prefix(d) \in Seq(Nat) /\ Len(Prefix(d)) = m
      /\ \A k \in 1..m : Prefix(d)[k] = d[k]
  BY <1>1, <1>2, FirstPart
<1>4. IsSchedule(Prefix(d))
  BY <1>1, <1>3, Limits DEF IsSchedule
<1>5. SubSeq(Prefix(d), 1, m) = Prefix(d)
  <2>1. m \in 0..Len(Prefix(d))
    BY <1>1, <1>3
  <2>2. /\ SubSeq(Prefix(d), 1, m) \in Seq(Nat) /\ Len(SubSeq(Prefix(d), 1, m)) = m
        /\ \A k \in 1..m : SubSeq(Prefix(d), 1, m)[k] = Prefix(d)[k]
    BY <1>3, <2>1, FirstPart
  <2> QED BY <1>3, <2>2, SeqEqual
<1> QED BY <1>1, <1>2, <1>3, <1>4, <1>5 DEF IsPrefix

\* Replayed by its canonical schedule a run is the same: what was cut off are the
\* choices a lenient replay makes by itself.
LEMMA FollowPrefix ==
    ASSUME NEW r, IsRun(r)
    PROVE  Follow(Prefix(r.made), r.widths) = r.made
<1>1. /\ r.made \in Seq(Nat) /\ DOMAIN r.made = 1..Len(r.made)
      /\ DOMAIN r.widths = 1..Len(r.made) /\ Len(r.made) \in Nat
      /\ \A k \in 1..Len(r.made) : r.widths[k] \in Nat /\ r.made[k] < r.widths[k]
  BY RunFacts, LenProperties
<1>2. PICK m \in 0..Len(r.made) :
          /\ Prefix(r.made) = SubSeq(r.made, 1, m)
          /\ \A k \in (m + 1)..Len(r.made) : r.made[k] = 0
  BY <1>1, PrefixFacts
<1>3. DOMAIN Prefix(r.made) = 1..m /\ \A k \in 1..m : Prefix(r.made)[k] = r.made[k]
  BY <1>1, <1>2, FirstPart
<1>4. ASSUME NEW k \in 1..Len(r.made)
      PROVE  Follow(Prefix(r.made), r.widths)[k] = r.made[k]
  <2>1. CASE k <= m
    BY <1>1, <1>3, <2>1 DEF Follow
  <2>2. CASE ~(k <= m)
    <3>1. k \in (m + 1)..Len(r.made) /\ k \notin 1..m
      BY <1>1, <2>2
    <3> QED BY <1>1, <1>2, <1>3, <3>1 DEF Follow
  <2> QED BY <2>1, <2>2
<1>5. DOMAIN Follow(Prefix(r.made), r.widths) = 1..Len(r.made)
  BY <1>1 DEF Follow
<1>6. Follow(Prefix(r.made), r.widths)
          = [k \in 1..Len(r.made) |-> Follow(Prefix(r.made), r.widths)[k]]
  BY <1>1 DEF Follow
<1>7. r.made = [k \in 1..Len(r.made) |-> r.made[k]]
  <2>1. r.made \in [1..Len(r.made) -> Nat]
    BY <1>1, LenProperties
  <2> QED BY <2>1
<1> QED BY <1>4, <1>6, <1>7

\* A run follows its own schedule.
LEMMA FollowItself ==
    ASSUME NEW r, IsRun(r)
    PROVE  Follow(r.made, r.widths) = r.made
<1>1. /\ DOMAIN r.made = 1..Len(r.made) /\ DOMAIN r.widths = 1..Len(r.made)
      /\ r.made \in [1..Len(r.made) -> Nat]
      /\ \A k \in 1..Len(r.made) : r.made[k] < r.widths[k]
  BY RunFacts, LenProperties
<1>2. Follow(r.made, r.widths) = [k \in 1..Len(r.made) |-> r.made[k]]
  BY <1>1 DEF Follow
<1> QED BY <1>1, <1>2

\* A scenario is deterministic: a request is one run.  The first choice that differed
\* would follow equal choices, among as many candidates, from the same request.
LEMMA Deterministic ==
    ASSUME NEW r, NEW s, NEW request, IsRun(r), IsRun(s), SameScenario(r, s),
           r.made = Follow(request, r.widths), s.made = Follow(request, s.widths)
    PROVE  r = s
<1>1. /\ r.made \in Seq(Nat) /\ DOMAIN r.made = 1..Len(r.made) /\ Len(r.made) \in Nat
      /\ s.made \in Seq(Nat) /\ DOMAIN s.made = 1..Len(s.made) /\ Len(s.made) \in Nat
      /\ DOMAIN r.widths = 1..Len(r.made) /\ DOMAIN s.widths = 1..Len(s.made)
  BY RunFacts, LenProperties
<1>2. PICK n \in Nat : n <= Len(r.made) /\ n <= Len(s.made)
                       /\ (n = Len(r.made) \/ n = Len(s.made))
  <2>1. CASE Len(r.made) <= Len(s.made)
    BY <1>1, <2>1
  <2>2. CASE ~(Len(r.made) <= Len(s.made))
    BY <1>1, <2>2
  <2> QED BY <2>1, <2>2
<1> DEFINE differing == {k \in 1..n : r.made[k] # s.made[k]}
<1>3. ASSUME NEW m \in 0..n, \A k \in 1..m : r.made[k] = s.made[k]
      PROVE  SubSeq(r.made, 1, m) = SubSeq(s.made, 1, m)
  <2>1. m \in 0..Len(r.made) /\ m \in 0..Len(s.made)
    BY <1>1, <1>2
  <2>2. /\ SubSeq(r.made, 1, m) \in Seq(Nat) /\ Len(SubSeq(r.made, 1, m)) = m
        /\ \A k \in 1..m : SubSeq(r.made, 1, m)[k] = r.made[k]
    BY <1>1, <2>1, FirstPart
  <2>3. /\ SubSeq(s.made, 1, m) \in Seq(Nat) /\ Len(SubSeq(s.made, 1, m)) = m
        /\ \A k \in 1..m : SubSeq(s.made, 1, m)[k] = s.made[k]
    BY <1>1, <2>1, FirstPart
  <2>4. \A k \in 1..Len(SubSeq(r.made, 1, m)) :
            SubSeq(r.made, 1, m)[k] = SubSeq(s.made, 1, m)[k]
    BY <1>3, <2>2, <2>3
  <2> QED BY <2>2, <2>3, <2>4, SeqEqual
<1>4. ASSUME NEW k \in differing, \A j \in differing : k <= j
      PROVE  FALSE
  <2>1. k \in 1..n /\ k \in Nat /\ k - 1 \in 0..n
    BY <1>2
  <2>2. \A j \in 1..(k - 1) : r.made[j] = s.made[j]
    <3> TAKE j \in 1..(k - 1)
    <3>1. j \in 1..n /\ ~(k <= j)
      BY <1>2, <2>1
    <3> QED BY <1>4, <3>1
  <2>3. SubSeq(r.made, 1, k - 1) = SubSeq(s.made, 1, k - 1)
    BY <1>3, <2>1, <2>2
  <2>4. k \in DOMAIN r.made /\ k \in DOMAIN s.made
        /\ k \in DOMAIN r.widths /\ k \in DOMAIN s.widths
    BY <1>1, <1>2, <2>1
  <2>5. r.widths[k] = s.widths[k]
    BY <2>3, <2>4 DEF SameScenario
  <2>6. Follow(request, r.widths)[k] = Follow(request, s.widths)[k]
    BY <2>4, <2>5 DEF Follow
  <2> QED BY <1>4, <2>6
<1>5. differing = {}
  <2>1. differing \subseteq Nat
    BY <1>2
  <2> HIDE DEF differing
  <2> QED BY <1>4, <2>1, LeastNat
<1>6. SubSeq(r.made, 1, n) = SubSeq(s.made, 1, n)
  BY <1>2, <1>3, <1>5
<1>7. IsPrefix(r.made, s.made) \/ IsPrefix(s.made, r.made)
  BY <1>1, <1>2, <1>6 DEF IsPrefix
<1> QED BY <1>7 DEF SameScenario

\* A replay may come to any run that fits the scenario, and the runs executed are
\* still runs of one scenario.
LEMMA RunOf ==
    ASSUME OneScenario, NEW request \in Seq(Nat), NEW run \in RunsOf(request)
    PROVE  /\ IsRun(run) /\ run.made = Follow(request, run.widths)
           /\ \A s \in world : SameScenario(run, s) /\ SameScenario(s, run)
<1>1. PICK w \in Shapes, h \in BOOLEAN :
          run = [made |-> Follow(request, w), widths |-> w, hit |-> h]
  BY DEF RunsOf
<1>2. \A s \in world : SameScenario(run, s)
  BY DEF RunsOf
<1>3. PICK n \in 0..MaxLength : w \in [1..n -> Widths]
  BY <1>1 DEF Shapes
<1>4. n \in Nat /\ DOMAIN w = 1..n /\ \A k \in 1..n : w[k] \in Nat /\ 0 < w[k]
  BY <1>3, Limits
<1>5. DOMAIN request = 1..Len(request) /\ \A k \in 1..Len(request) : request[k] \in Nat
  BY LenProperties
<1>6. \A k \in 1..n : Follow(request, w)[k] \in Nat /\ Follow(request, w)[k] < w[k]
  BY <1>4, <1>5 DEF Follow
<1>7. Follow(request, w) \in [1..n -> Nat]
  <2>1. Follow(request, w) = [k \in 1..n |-> Follow(request, w)[k]]
    BY <1>4 DEF Follow
  <2> QED BY <1>6, <2>1
<1>8. IsRun(run)
  BY <1>1, <1>3, <1>6, <1>7 DEF IsRun
<1>9. ASSUME NEW s \in world PROVE SameScenario(s, run)
  <2>1. SameScenario(run, s)
    BY <1>2
  <2> QED BY <2>1 DEF SameScenario
<1> QED BY <1>1, <1>2, <1>8, <1>9

LEMMA ScenarioGrows ==
    ASSUME OneScenario, NEW request \in Seq(Nat), NEW run \in RunsOf(request),
           world' = world \cup {run}, original' = original
    PROVE  OneScenario'
<1>1. IsRun(run) /\ \A s \in world : SameScenario(run, s) /\ SameScenario(s, run)
  BY RunOf
<1>2. SameScenario(run, run)
  BY DEF SameScenario
<1>3. \A r, s \in world' : SameScenario(r, s)
  BY <1>1, <1>2 DEF OneScenario
<1>4. \A r \in world' : IsRun(r)
  BY <1>1 DEF OneScenario
<1>5. \E r \in world' : r.made = original' /\ r.hit
  BY DEF OneScenario
<1> QED BY <1>3, <1>4, <1>5 DEF OneScenario

\* The original is a schedule, and its replay is the failing run itself.
LEMMA OriginalReproduces ==
    ASSUME OneScenario, NEW run \in RunsOf(original)
    PROVE  /\ original \in Seq(Nat)
           /\ run \in world /\ run.hit /\ run.made = original /\ Faithful(original, run)
<1>1. PICK r \in world : r.made = original /\ r.hit
  BY DEF OneScenario
<1>2. IsRun(r) /\ original \in Seq(Nat)
  BY <1>1, RunFacts DEF OneScenario
<1>3. IsRun(run) /\ run.made = Follow(original, run.widths) /\ SameScenario(run, r)
  BY <1>1, <1>2, RunOf
<1>4. Follow(original, r.widths) = original
  BY <1>1, <1>2, FollowItself
<1>5. run = r
  BY <1>1, <1>2, <1>3, <1>4, Deterministic
<1>6. Len(original) \in Nat
  BY <1>2, LenProperties
<1> QED BY <1>1, <1>2, <1>5, <1>6 DEF Faithful, IsPrefix

----------------------------------------------------------------------------
(* The cache *)

\* What the cache knows of a schedule is what it knows of the schedule that came of
\* it: the two replays are one run.
LEMMA EvidenceOfResult ==
    ASSUME OneScenario, CacheKnows, NEW key \in DOMAIN cache,
           NEW d, d = cache[key].decisions
    PROVE  /\ IsSchedule(d) /\ d \in DOMAIN cache
           /\ cache[d].decisions = d /\ cache[d].interesting = cache[key].interesting
<1>1. PICK r \in world : r = cache[key].digest /\ cache[key] = Evidence(r)
  BY DEF CacheKnows, CacheSound
<1>2. d = Prefix(r.made) /\ cache[key].interesting = r.hit
  BY <1>1 DEF Evidence
<1>3. d \in DOMAIN cache
  BY DEF CacheKnows
<1>4. PICK s \in world : s = cache[d].digest /\ cache[d] = Evidence(s)
                         /\ Follow(d, s.widths) = s.made
  BY <1>3 DEF CacheKnows, CacheSound
<1>5. IsRun(r) /\ IsRun(s) /\ SameScenario(r, s)
  BY DEF OneScenario
<1>6. Follow(d, r.widths) = r.made
  BY <1>2, <1>5, FollowPrefix
<1>7. r = s
  BY <1>4, <1>5, <1>6, Deterministic
<1>8. IsSchedule(d)
  BY <1>2, <1>5, RunFacts, PrefixSchedule
<1>9. cache[d].decisions = Prefix(s.made) /\ cache[d].interesting = s.hit
  BY <1>4 DEF Evidence
<1> QED BY <1>2, <1>3, <1>7, <1>8, <1>9

\* Remembering a replay of the request keeps every other entry and leaves no
\* schedule without the entry it describes.
LEMMA RememberedKnows ==
    ASSUME CacheKnows, NEW request, NEW run, IsRun(run),
           run.made = Follow(request, run.widths),
           run \in world', world \subseteq world', cache' = Remembered(request, run)
    PROVE  /\ CacheKnows'
           /\ DOMAIN cache' = DOMAIN cache \cup {request, Prefix(run.made)}
           /\ cache'[request] = Evidence(run)
           /\ \A key \in DOMAIN cache : key # request => cache'[key] = cache[key]
<1>1. /\ DOMAIN cache' = DOMAIN cache \cup {request, Prefix(run.made)}
      /\ \A key \in DOMAIN cache' :
             cache'[key] = IF key = request \/ key \notin DOMAIN cache
                           THEN Evidence(run) ELSE cache[key]
  BY DEF Remembered
<1>2. Evidence(run).digest = run /\ Evidence(run).decisions = Prefix(run.made)
  BY DEF Evidence
<1>3. Follow(Prefix(run.made), run.widths) = run.made
  BY FollowPrefix
<1>4. ASSUME NEW key \in DOMAIN cache'
      PROVE  /\ cache'[key] = Evidence(cache'[key].digest)
             /\ cache'[key].digest \in world'
             /\ Follow(key, cache'[key].digest.widths) = cache'[key].digest.made
             /\ cache'[key].decisions \in DOMAIN cache'
  <2>1. CASE key = request \/ key \notin DOMAIN cache
    <3>1. cache'[key] = Evidence(run) /\ key \in {request, Prefix(run.made)}
      BY <1>1, <2>1
    <3> QED BY <1>1, <1>2, <1>3, <3>1
  <2>2. CASE key # request /\ key \in DOMAIN cache
    <3>1. cache'[key] = cache[key]
      BY <1>1, <2>2
    <3>2. /\ cache[key] = Evidence(cache[key].digest) /\ cache[key].digest \in world
          /\ Follow(key, cache[key].digest.widths) = cache[key].digest.made
          /\ cache[key].decisions \in DOMAIN cache
      BY <2>2 DEF CacheKnows, CacheSound
    <3> QED BY <1>1, <3>1, <3>2
  <2> QED BY <2>1, <2>2
<1>5. CacheKnows'
  BY <1>4 DEF CacheKnows, CacheSound
<1>6. cache'[request] = Evidence(run)
  BY <1>1
<1> QED BY <1>1, <1>5, <1>6

----------------------------------------------------------------------------
(* Proposals *)

\* The best schedule is one whose verdict can be looked up.
BestKnown ==
    best # original =>
        best \in DOMAIN cache /\ cache[best].interesting /\ cache[best].decisions = best

\* What holds of the search whatever it is doing.
Findings ==
    /\ IsSchedule(best) /\ used \in 0..MaxReplays /\ stopped \in BOOLEAN
    /\ OneScenario /\ CacheKnows /\ BestKnown

\* A proposal accepts what the cache describes, or nothing; it asks for a replay only
\* when another one would be left.
LEMMA ProposeEffect ==
    ASSUME Findings, NEW candidate \in Seq(Nat), Propose(candidate), original' = original
    PROVE  /\ Findings'
           /\ used' = used \/ (used' < MaxReplays /\ ~late)
<1> USE DEF Findings
<1>1. CASE candidate \in DOMAIN cache /\ Accept(candidate, cache[candidate])
           /\ UNCHANGED <<world, cache, used, stopped>>
  <2>1. PICK d : d = cache[candidate].decisions
    OBVIOUS
  <2>2. /\ IsSchedule(d) /\ d \in DOMAIN cache
        /\ cache[d].decisions = d /\ cache[d].interesting = cache[candidate].interesting
    BY <1>1, <2>1, EvidenceOfResult
  <2>3. best' = best \/ (best' = d /\ cache[candidate].interesting)
    BY <1>1, <2>1 DEF Accept
  <2>4. IsSchedule(best') /\ BestKnown'
    BY <1>1, <2>2, <2>3 DEF BestKnown
  <2>5. OneScenario' /\ CacheKnows'
    BY <1>1 DEF OneScenario, CacheKnows, CacheSound
  <2> QED BY <1>1, <2>4, <2>5
<1>2. CASE UNCHANGED <<world, cache, used, best>> /\ stopped' = TRUE
  <2>1. OneScenario' /\ CacheKnows' /\ BestKnown'
    BY <1>2 DEF OneScenario, CacheKnows, CacheSound, BestKnown
  <2> QED BY <1>2, <2>1
<1>3. ASSUME candidate \notin DOMAIN cache, Available(Reserve), used' = used + 1,
             NEW run \in RunsOf(candidate), world' = world \cup {run},
             cache' = Remembered(candidate, run), Accept(candidate, Evidence(run)),
             stopped' = stopped
      PROVE  Findings' /\ used' < MaxReplays /\ ~late
  <2>1. OneScenario'
    BY <1>3, ScenarioGrows
  <2>2. IsRun(run) /\ run.made = Follow(candidate, run.widths)
    BY <1>3, RunOf
  <2>3. /\ CacheKnows' /\ DOMAIN cache' = DOMAIN cache \cup {candidate, Prefix(run.made)}
        /\ \A key \in DOMAIN cache : cache'[key] = cache[key]
    BY <1>3, <2>2, RememberedKnows
  <2>4. PICK d : d = Prefix(run.made)
    OBVIOUS
  <2>5. Evidence(run).decisions = d /\ Evidence(run).interesting = run.hit
    BY <2>4 DEF Evidence
  <2>6. IsSchedule(d)
    BY <2>2, <2>4, RunFacts, PrefixSchedule
  <2>7. cache'[d] = Evidence(run)
    <3>1. CASE d = candidate \/ d \notin DOMAIN cache
      BY <1>3, <2>4, <3>1 DEF Remembered
    <3>2. CASE d # candidate /\ d \in DOMAIN cache
      <4>1. PICK s \in world : cache[d] = Evidence(s) /\ Follow(d, s.widths) = s.made
        BY <3>2 DEF CacheKnows, CacheSound
      <4>2. IsRun(s) /\ SameScenario(run, s)
        BY <1>3, RunOf DEF OneScenario
      <4>3. Follow(d, run.widths) = run.made
        BY <2>2, <2>4, FollowPrefix
      <4>4. run = s
        BY <2>2, <4>1, <4>2, <4>3, Deterministic
      <4> QED BY <2>3, <3>2, <4>1, <4>4
    <3> QED BY <3>1, <3>2
  <2>8. best' = best \/ (best' = d /\ run.hit)
    BY <1>3, <2>5 DEF Accept
  <2>9. IsSchedule(best') /\ BestKnown'
    BY <2>3, <2>4, <2>5, <2>6, <2>7, <2>8 DEF BestKnown
  <2>10. used' \in 0..MaxReplays /\ used' < MaxReplays /\ ~late
    BY <1>3, Limits DEF Available, Reserve
  <2> QED BY <1>3, <2>1, <2>3, <2>9, <2>10
<1>4. \/ candidate \in DOMAIN cache /\ Accept(candidate, cache[candidate])
         /\ UNCHANGED <<world, cache, used, stopped>>
      \/ UNCHANGED <<world, cache, used, best>> /\ stopped' = TRUE
      \/ /\ candidate \notin DOMAIN cache /\ Available(Reserve) /\ used' = used + 1
         /\ \E run \in RunsOf(candidate) :
               /\ world' = world \cup {run}
               /\ cache' = Remembered(candidate, run)
               /\ Accept(candidate, Evidence(run))
         /\ stopped' = stopped
  BY DEF Propose
<1> QED BY <1>1, <1>2, <1>3, <1>4

----------------------------------------------------------------------------
(* The steps *)

\* What the search keeps of the cursor, with a replay left if there is an improvement.
Cursor ==
    /\ stage \in Stages \ {"guard", "baseline", "error"}
    /\ IsSchedule(before) /\ rung \in -1..Widest
    /\ at \in Nat /\ limit \in 0..MaxLength /\ span \in Nat
    /\ stage = "bisect" => limit = Len(best)
    /\ ReserveHeld

LEMMA SearchParts ==
    /\ SearchInv /\ stage \notin {"guard", "baseline"} =>
           Findings /\ Cursor /\ late \in BOOLEAN /\ verified \in BOOLEAN /\ IsSchedule(original)
    /\ Findings /\ Cursor /\ late \in BOOLEAN /\ verified \in BOOLEAN /\ IsSchedule(original) =>
           SearchInv /\ stage \notin {"guard", "baseline"}
BY DEF SearchInv, Types, Findings, Cursor, Beginning, BestIsProven, BestKnown, NeverAccused

\* The next phase starts with a fresh cursor.
LEMMA EnterCursor ==
    ASSUME NEW next \in Stages \ {"guard", "baseline", "error"}, Enter(next),
           IsSchedule(best'),
           next # "done" /\ best' # original' => late' \/ used' < MaxReplays
    PROVE  Cursor'
<1>1. best' \in Seq(Nat) /\ Len(best') \in Nat /\ Len(best') <= MaxLength
  BY LenProperties DEF IsSchedule
<1>2. /\ stage' = next /\ limit' = Len(best') /\ rung' = -1 /\ before' = best'
      /\ at' = IF next = "below" THEN Max({0, Len(best') - LookBack}) ELSE 0
      /\ span' = IF next = "zero" THEN Min({Len(best'), SpanLimit}) ELSE 0
  BY DEF Enter
<1>3. ASSUME NEW x \in Int PROVE Max({0, x}) \in Nat
  <2>1. CASE x \in Nat
    <3>1. x <= x /\ 0 <= x
      BY <2>1
    <3> QED BY <2>1, <3>1, MaxOf
  <2>2. CASE x < 0
    <3>1. \A y \in {0, x} : 0 >= y
      BY <1>3, <2>2
    <3>2. Max({0, x}) \in {0, x} /\ \A y \in {0, x} : Max({0, x}) >= y
      BY <3>1 DEF Max
    <3> QED BY <1>3, <2>2, <3>2
  <2> QED BY <1>3, <2>1, <2>2
<1>4. at' \in Nat
  <2>1. Len(best') - LookBack \in Int
    BY <1>1, Limits
  <2> QED BY <1>2, <1>3, <2>1
<1>5. span' \in Nat
  <2>1. {Len(best'), SpanLimit} \subseteq Nat
    BY <1>1, Limits
  <2>2. Min({Len(best'), SpanLimit}) \in Nat
    BY <2>1, MinOf
  <2> QED BY <1>2, <2>2
<1>6. rung' \in -1..Widest /\ limit' \in 0..MaxLength
  BY <1>1, <1>2, WidestType, Limits
<1>7. ReserveHeld'
  BY <1>2 DEF ReserveHeld
<1> QED BY <1>1, <1>2, <1>4, <1>5, <1>6, <1>7 DEF Cursor

\* The data of the search, where a step proposes nothing.
LEMMA FindingsStay ==
    ASSUME Findings, UNCHANGED <<world, best, cache, used, stopped, original>>
    PROVE  Findings'
BY DEF Findings, OneScenario, CacheKnows, CacheSound, BestKnown

\* What a schedule is as a sequence.
LEMMA ScheduleType ==
    ASSUME NEW d, IsSchedule(d)
    PROVE  /\ d \in Seq(Nat) /\ Len(d) \in 0..MaxLength /\ DOMAIN d = 1..Len(d)
           /\ \A k \in 1..Len(d) : d[k] \in 0..Widest
BY LenProperties, ElementOfSeq, Limits, WidestType DEF IsSchedule

LEMMA ZeroSpanStep ==
    ASSUME Findings, Cursor, ZeroSpan
    PROVE  Findings' /\ Cursor'
<1>1. /\ stage = "zero" /\ ~Stop /\ span >= 1
      /\ UNCHANGED <<stage, limit, span, rung, before, late, original>> /\ at' = at + span
      /\ \/ Propose(Zeroed(best, at, span))
         \/ UNCHANGED <<best, world, cache, used, stopped>>
  BY DEF ZeroSpan, Fixed
<1>2. Zeroed(best, at, span) \in Seq(Nat)
  <2>1. /\ DOMAIN best = 1..Len(best) /\ Len(best) \in Nat
        /\ \A k \in 1..Len(best) : best[k] \in Nat
    BY ScheduleType, WidestType DEF Findings
  <2>2. Zeroed(best, at, span) \in [1..Len(best) -> Nat]
    BY <2>1 DEF Zeroed
  <2> QED BY <2>1, <2>2, AsSequence
<1>3. Findings' /\ (used' = used \/ used' < MaxReplays)
  BY <1>1, <1>2, ProposeEffect, FindingsStay
<1>4. used < MaxReplays
  BY <1>1, Limits DEF Stop, Available, Findings
<1>5. ReserveHeld'
  BY <1>1, <1>3, <1>4 DEF ReserveHeld
<1>6. at' \in Nat
  BY <1>1 DEF Cursor
<1> QED BY <1>1, <1>3, <1>5, <1>6 DEF Cursor

LEMMA HalveSpanStep ==
    ASSUME Findings, Cursor, HalveSpan
    PROVE  Findings' /\ Cursor'
<1>1. /\ stage = "zero" /\ span' = span \div 2 /\ at' = 0 /\ limit' = Len(best)
      /\ UNCHANGED <<world, best, cache, used, stopped, stage, rung, before, late, original>>
  BY DEF HalveSpan, Fixed
<1>2. Findings'
  BY <1>1, FindingsStay
<1>3. span' \in Nat /\ limit' \in 0..MaxLength
  BY <1>1, ScheduleType DEF Cursor, Findings
<1>4. ReserveHeld'
  BY <1>1 DEF ReserveHeld, Cursor
<1> QED BY <1>1, <1>2, <1>3, <1>4 DEF Cursor

\* The phases that end without a proposal.
LEMMA PhaseEnds ==
    ASSUME Findings, Cursor, stage # "done",
           NEW next \in Stages \ {"guard", "baseline", "error", "done"},
           UNCHANGED <<world, best, cache, used, stopped, late, original>>, Enter(next)
    PROVE  Findings' /\ Cursor'
<1>1. Findings'
  BY FindingsStay
<1>2. stage \notin {"done", "error"}
  BY DEF Cursor
<1>3. best' # original' => late' \/ used' < MaxReplays
  BY <1>2 DEF Cursor, ReserveHeld
<1>4. IsSchedule(best')
  BY <1>1 DEF Findings
<1> QED BY <1>1, <1>3, <1>4, EnterCursor

\* The values a decision may be lowered to.
LEMMA RungsType ==
    ASSUME IsSchedule(best), at \in Nat, at < Len(best)
    PROVE  /\ best[at + 1] \in 0..Widest /\ at + 1 \in 1..Len(best)
           /\ Rungs \subseteq 0..(Widest - 1)
           /\ Rungs = {s \in {0, 1, best[at + 1] \div 2, best[at + 1] - 1} :
                          0 <= s /\ s < best[at + 1] /\ s > rung}
<1>1. Len(best) \in Nat /\ at + 1 \in 1..Len(best)
  BY ScheduleType
<1>2. best[at + 1] \in 0..Widest
  BY <1>1, ScheduleType
<1>3. Rungs = {s \in {0, 1, best[at + 1] \div 2, best[at + 1] - 1} :
                  0 <= s /\ s < best[at + 1] /\ s > rung}
  BY DEF Rungs
<1>4. best[at + 1] \in Nat /\ best[at + 1] <= Widest /\ Widest \in Nat
  BY <1>2, WidestType
<1>5. ASSUME NEW s \in Rungs PROVE s \in 0..(Widest - 1)
  <2>1. s \in {0, 1, best[at + 1] \div 2, best[at + 1] - 1} /\ 0 <= s /\ s < best[at + 1]
    BY <1>3
  <2>2. s \in Int
    BY <1>4, <2>1
  <2> QED BY <1>4, <2>1, <2>2
<1> QED BY <1>1, <1>2, <1>3, <1>5

LEMMA LowerOneStep ==
    ASSUME Findings, Cursor, LowerOne
    PROVE  Findings' /\ Cursor'
<1>1. /\ Lowering /\ InPass /\ Rungs # {}
      /\ Propose([best EXCEPT ![at + 1] = Min(Rungs)])
      /\ \/ best' # best /\ at' = at + 1 /\ rung' = -1
         \/ rung' = Min(Rungs) /\ at' = at
      /\ UNCHANGED <<stage, limit, span, before, late, original>>
  BY DEF LowerOne, Fixed
<1>2. stage \in {"lower", "lower again"} /\ at \in Nat /\ at < Len(best)
  BY <1>1 DEF Lowering, InPass, Cursor
<1>3. IsSchedule(best) /\ best \in Seq(Nat) /\ used \in Nat
  BY ScheduleType, Limits DEF Findings
<1>4. PICK m : m = Min(Rungs)
  OBVIOUS
<1>5. at + 1 \in 1..Len(best) /\ Rungs \subseteq 0..(Widest - 1)
  BY <1>2, <1>3, RungsType
<1>6. m \in 0..(Widest - 1)
  <2>1. Rungs \subseteq Nat
    BY <1>5, WidestType
  <2>2. Min(Rungs) \in Rungs
    BY <1>1, <2>1, MinOf
  <2> QED BY <1>4, <1>5, <2>2
<1>7. m \in Nat /\ m <= Widest
  BY <1>6, WidestType
<1>8. [best EXCEPT ![at + 1] = m] \in Seq(Nat)
  BY <1>3, <1>5, <1>7, ExceptSeq
<1>9. Findings' /\ (used' = used \/ used' < MaxReplays)
  BY <1>1, <1>4, <1>8, ProposeEffect
<1>10. late \/ used < MaxReplays
  <2>1. CASE rung = -1
    BY <1>1, <1>3, <2>1, Limits DEF InPass, Stop, Available
  <2>2. CASE rung # -1
    BY <1>2, <2>2 DEF Cursor, ReserveHeld
  <2> QED BY <2>1, <2>2
<1>11. ReserveHeld'
  BY <1>1, <1>9, <1>10 DEF ReserveHeld
<1>12. at' \in Nat
  <2>1. at' = at + 1 \/ at' = at
    BY <1>1
  <2>2. at \in Nat
    BY <1>2
  <2> QED BY <2>1, <2>2
<1>13. rung' \in -1..Widest
  <2>1. -1 \in -1..Widest /\ m \in -1..Widest
    BY <1>7, WidestType
  <2>2. rung' = -1 \/ rung' = m
    BY <1>1, <1>4
  <2> QED BY <2>1, <2>2
<1> QED BY <1>1, <1>2, <1>9, <1>11, <1>12, <1>13 DEF Cursor

LEMMA NextPositionStep ==
    ASSUME Findings, Cursor, NextPosition
    PROVE  Findings' /\ Cursor'
<1>1. /\ stage \in {"lower", "lower again"} /\ at' = at + 1 /\ rung' = -1
      /\ UNCHANGED <<world, best, cache, used, stopped, stage, limit, span, before, late,
                     original>>
  BY DEF NextPosition, Fixed, Lowering
<1>2. Findings'
  BY <1>1, FindingsStay
<1>3. at' \in Nat /\ rung' \in -1..Widest
  <2>1. -1 \in -1..Widest
    BY WidestType
  <2>2. at \in Nat /\ at' = at + 1
    BY <1>1 DEF Cursor
  <2>3. at' \in Nat
    BY <2>2
  <2> QED BY <1>1, <2>1, <2>3
<1>4. ReserveHeld'
  BY <1>1 DEF ReserveHeld, Cursor
<1> QED BY <1>1, <1>2, <1>3, <1>4 DEF Cursor

LEMMA CanonicaliseStep ==
    ASSUME Findings, Cursor, Canonicalise
    PROVE  Findings' /\ Cursor'
<1>1. /\ stage = "truncate" /\ Enter("bisect")
      /\ UNCHANGED <<late, original>>
      /\ \/ ~Stop /\ Propose(Prefix(best))
         \/ UNCHANGED <<best, world, cache, used, stopped>>
  BY DEF Canonicalise, Fixed
<1>2. Prefix(best) \in Seq(Nat)
  BY PrefixSchedule DEF Findings, IsSchedule
<1>3. CASE ~Stop /\ Propose(Prefix(best))
  <2>1. Findings' /\ (used' = used \/ used' < MaxReplays)
    BY <1>1, <1>2, <1>3, ProposeEffect
  <2>2. used < MaxReplays
    BY <1>3, Limits DEF Stop, Available, Findings
  <2>3. late' \/ used' < MaxReplays
    BY <2>1, <2>2
  <2>4. IsSchedule(best')
    BY <2>1 DEF Findings
  <2> QED BY <1>1, <2>1, <2>3, <2>4, EnterCursor DEF Stages
<1>4. CASE UNCHANGED <<best, world, cache, used, stopped>>
  BY <1>1, <1>4, PhaseEnds DEF Stages
<1> QED BY <1>1, <1>3, <1>4

\* Proposing a first part of the best schedule.
LEMMA ProposeFirstPart ==
    ASSUME Findings, NEW m \in 0..Len(best), Propose(SubSeq(best, 1, m)),
           ~Stop, UNCHANGED <<late, original>>
    PROVE  Findings' /\ (late' \/ used' < MaxReplays)
<1>1. SubSeq(best, 1, m) \in Seq(Nat)
  BY ScheduleType, FirstPart DEF Findings
<1>2. Findings' /\ (used' = used \/ used' < MaxReplays)
  BY <1>1, ProposeEffect
<1>3. used < MaxReplays
  BY Limits DEF Stop, Available, Findings
<1> QED BY <1>2, <1>3

LEMMA BisectStep ==
    ASSUME Findings, Cursor, Bisect
    PROVE  Findings' /\ Cursor'
<1>1. /\ stage = "bisect" /\ ~Stop /\ at < limit /\ Propose(SubSeq(best, 1, Middle))
      /\ UNCHANGED <<stage, span, rung, before, late, original>>
  BY DEF Bisect, Fixed
<1>2. \/ best' # best /\ limit' = Len(best') /\ at' = at
      \/ best' = best /\ at' = Middle + 1 /\ limit' = limit
  BY DEF Bisect
<1>3. limit = Len(best) /\ at \in Nat /\ limit \in Nat
  BY <1>1, ScheduleType DEF Cursor, Findings
<1>4. Middle \in Nat /\ Middle \in 0..Len(best)
  BY <1>1, <1>3 DEF Middle
<1>5. Findings' /\ (late' \/ used' < MaxReplays)
  BY <1>1, <1>4, ProposeFirstPart
<1>6. Len(best') \in 0..MaxLength
  BY <1>5, ScheduleType DEF Findings
<1>7. limit' \in 0..MaxLength /\ limit' = Len(best')
  BY <1>2, <1>3, <1>6
<1>8. at' \in Nat
  <2>1. at' = at \/ at' = Middle + 1
    BY <1>2
  <2>2. at \in Nat /\ Middle \in Nat
    BY <1>3, <1>4
  <2> QED BY <2>1, <2>2
<1>9. ReserveHeld'
  BY <1>5 DEF ReserveHeld
<1> QED BY <1>1, <1>5, <1>7, <1>8, <1>9 DEF Cursor

LEMMA LookBelowStep ==
    ASSUME Findings, Cursor, LookBelow
    PROVE  Findings' /\ Cursor'
<1>1. /\ stage = "below" /\ ~Stop /\ Propose(SubSeq(best, 1, Min({at, Len(best)})))
      /\ UNCHANGED <<stage, limit, span, rung, before, late, original>> /\ at' = at + 1
  BY DEF LookBelow, Fixed
<1>2. at \in Nat /\ Len(best) \in Nat
  BY ScheduleType DEF Cursor, Findings
<1>3. Min({at, Len(best)}) \in 0..Len(best)
  <2>1. {at, Len(best)} \subseteq Nat
    BY <1>2
  <2>2. Min({at, Len(best)}) \in {at, Len(best)} /\ Min({at, Len(best)}) <= Len(best)
    BY <2>1, MinOf
  <2> QED BY <1>2, <2>2
<1>4. Findings' /\ (late' \/ used' < MaxReplays)
  BY <1>1, <1>3, ProposeFirstPart
<1>5. at' \in Nat
  <2>1. at' = at + 1
    BY <1>1
  <2> QED BY <1>2, <2>1
<1>6. ReserveHeld'
  BY <1>4 DEF ReserveHeld
<1> QED BY <1>1, <1>4, <1>5, <1>6 DEF Cursor

\* The steps of the search proper.
LEMMA SearchStep ==
    ASSUME Findings, Cursor,
           \/ ZeroSpan \/ HalveSpan \/ ZeroEnds \/ LowerOne \/ NextPosition \/ PassEnds
           \/ Canonicalise \/ Bisect \/ BisectEnds \/ LookBelow \/ BelowEnds
    PROVE  Findings' /\ Cursor' /\ UNCHANGED <<late, original, verified>>
<1>1. UNCHANGED <<late, original, verified>>
  BY DEF ZeroSpan, HalveSpan, ZeroEnds, LowerOne, NextPosition, PassEnds, Canonicalise,
         Bisect, BisectEnds, LookBelow, BelowEnds, Fixed
<1>2. CASE ZeroEnds
  BY <1>1, <1>2, PhaseEnds DEF ZeroEnds, Stages
<1>3. CASE PassEnds
  <2>1. PICK next : next = IF ~LastPass THEN stage
                           ELSE IF stage = "lower" THEN "truncate" ELSE "final"
    OBVIOUS
  <2>2. stage \in {"lower", "lower again"} /\ Enter(next)
        /\ UNCHANGED <<world, best, cache, used, stopped>>
    BY <1>3, <2>1 DEF PassEnds, Lowering
  <2>3. next \in Stages \ {"guard", "baseline", "error", "done"}
    BY <2>1, <2>2 DEF Stages
  <2> QED BY <1>1, <2>2, <2>3, PhaseEnds
<1>4. CASE BisectEnds
  BY <1>1, <1>4, PhaseEnds DEF BisectEnds, Stages
<1>5. CASE BelowEnds
  BY <1>1, <1>5, PhaseEnds DEF BelowEnds, Stages
<1> QED BY <1>1, <1>2, <1>3, <1>4, <1>5, ZeroSpanStep, HalveSpanStep, LowerOneStep,
           NextPositionStep, CanonicaliseStep, BisectStep, LookBelowStep

----------------------------------------------------------------------------
(* The entry and the verification *)

LEMMA InitHolds == Init => SearchInv
<1> SUFFICES ASSUME Init PROVE SearchInv
  OBVIOUS
<1>1. PICK w \in Shapes :
          /\ original \in [DOMAIN w -> 0..MaxLength + Widest]
          /\ \A k \in DOMAIN original : original[k] < w[k]
          /\ world = {[made |-> original, widths |-> w, hit |-> TRUE]}
  BY DEF Init, Widest
<1>2. PICK n \in 0..MaxLength : w \in [1..n -> Widths]
  BY DEF Shapes
<1>3. original \in [1..n -> Nat] /\ \A k \in 1..n : original[k] < w[k]
  <2>1. DOMAIN w = 1..n /\ DOMAIN original = 1..n
    BY <1>1, <1>2
  <2>2. original \in [1..n -> 0..MaxLength + Widest]
    BY <1>1, <2>1
  <2>3. 0..MaxLength + Widest \subseteq Nat
    BY Limits, WidestType
  <2> QED BY <1>1, <2>1, <2>2, <2>3
<1>4. PICK r : r = [made |-> original, widths |-> w, hit |-> TRUE]
  OBVIOUS
<1>5. r.made = original /\ r.widths = w /\ r.hit /\ world = {r}
  BY <1>1, <1>4
<1>6. IsRun(r)
  BY <1>2, <1>3, <1>5 DEF IsRun
<1>7. IsSchedule(original)
  BY <1>5, <1>6, RunFacts
<1>8. OneScenario
  <2>1. SameScenario(r, r)
    BY DEF SameScenario
  <2> QED BY <1>5, <1>6, <2>1 DEF OneScenario
<1>9. /\ best = original /\ before = original /\ DOMAIN cache = {}
      /\ used \in 0..MaxReplays /\ late = FALSE /\ stopped = FALSE
      /\ stage = "guard" /\ at = 0 /\ limit = 0 /\ span = 0 /\ rung = -1
      /\ verified = FALSE
  BY DEF Init
<1>10. Types
  <2>1. -1 \in -1..Widest /\ 0 \in 0..MaxLength
    BY Limits, WidestType
  <2> QED BY <1>7, <1>9, <2>1 DEF Types, Stages
<1> QED BY <1>8, <1>9, <1>10 DEF SearchInv, CacheKnows, CacheSound, Beginning,
           BestIsProven, ReserveHeld, NeverAccused

LEMMA GuardStep ==
    ASSUME SearchInv, Guard
    PROVE  SearchInv'
<1>1. PICK run \in RunsOf(original) :
          \/ /\ verified' = TRUE /\ cache' = Remembered(original, run)
             /\ stage' = "baseline"
          \/ ~(Faithful(original, run) /\ run \in world /\ run.hit)
  BY DEF Guard
<1>2. /\ run \in world /\ run.hit /\ run.made = original /\ Faithful(original, run)
      /\ original \in Seq(Nat)
  BY OriginalReproduces DEF SearchInv
<1>3. /\ verified' = TRUE /\ cache' = Remembered(original, run) /\ stage' = "baseline"
  BY <1>1, <1>2
<1>4. /\ stage = "guard" /\ used < MaxReplays /\ used' = used + 1 /\ best = original
      /\ UNCHANGED <<world, original, best, late, stopped, cursorVars>>
  <2>1. stage = "guard" /\ Available(0) /\ used' = used + 1
        /\ UNCHANGED <<world, original, best, late, stopped, cursorVars>>
    BY DEF Guard
  <2>2. used < MaxReplays
    BY <2>1, Limits DEF SearchInv, Types, Available
  <2> QED BY <2>1, <2>2 DEF SearchInv, Beginning
<1>5. IsRun(run) /\ run.made = Follow(original, run.widths)
  BY <1>2, RunOf DEF SearchInv
<1>6. CacheKnows'
  BY <1>2, <1>3, <1>4, <1>5, RememberedKnows DEF SearchInv
<1>7. OneScenario'
  BY <1>4 DEF SearchInv, OneScenario
<1>8. used' \in 0..MaxReplays
  BY <1>4, Limits DEF SearchInv, Types
<1>9. Types'
  BY <1>3, <1>4, <1>8 DEF SearchInv, Types, Stages, cursorVars
<1>10. best' = original' /\ rung' = -1
  BY <1>4 DEF SearchInv, Beginning, cursorVars
<1> QED BY <1>3, <1>6, <1>7, <1>9, <1>10 DEF SearchInv, Beginning, BestIsProven,
           ReserveHeld, NeverAccused

LEMMA BaselineStep ==
    ASSUME SearchInv, Baseline
    PROVE  SearchInv'
<1>1. /\ stage = "baseline" /\ best' = best /\ Enter("zero") /\ stopped' = stopped
      /\ UNCHANGED <<late, original, verified>>
  BY DEF Baseline, Fixed
<1>2. best = original /\ used \in 0..MaxReplays /\ IsSchedule(best)
  BY <1>1 DEF SearchInv, Beginning, Types
<1>3. OneScenario' /\ CacheKnows' /\ used' \in 0..MaxReplays
  <2>1. CASE UNCHANGED <<used, world, cache>>
    BY <1>1, <1>2, <2>1 DEF SearchInv, OneScenario, CacheKnows, CacheSound
  <2>2. ASSUME Available(1), used' = used + 1, NEW run \in RunsOf(<< >>),
               world' = world \cup {run}, cache' = Remembered(<< >>, run)
        PROVE  OneScenario' /\ CacheKnows' /\ used' \in 0..MaxReplays
    <3>1. << >> \in Seq(Nat)
      OBVIOUS
    <3>2. OneScenario'
      BY <1>1, <2>2, <3>1, ScenarioGrows DEF SearchInv
    <3>3. IsRun(run) /\ run.made = Follow(<< >>, run.widths)
      BY <2>2, <3>1, RunOf DEF SearchInv
    <3>4. CacheKnows'
      BY <2>2, <3>3, RememberedKnows DEF SearchInv
    <3>5. used' \in 0..MaxReplays
      BY <1>2, <2>2, Limits DEF Available
    <3> QED BY <3>2, <3>4, <3>5
  <2> QED BY <2>1, <2>2 DEF Baseline
<1>4. IsSchedule(best') /\ best' = original'
  BY <1>1, <1>2
<1>5. Cursor'
  BY <1>1, <1>4, EnterCursor DEF Stages
<1> QED BY <1>1, <1>3, <1>4, <1>5 DEF SearchInv, Types, Cursor, Beginning, BestIsProven,
           NeverAccused

LEMMA VerifyStep ==
    ASSUME SearchInv, Verify
    PROVE  SearchInv'
<1>1. /\ stage = "final" /\ best # original /\ Available(0) /\ used' = used + 1
      /\ UNCHANGED <<original, best, cache, late, stopped, cursorVars, verified>>
  BY DEF Verify
<1>2. PICK run \in RunsOf(best) :
          /\ world' = world \cup {run}
          /\ stage' = IF Faithful(best, run) /\ run = cache[best].digest /\ run.hit
                      THEN "done" ELSE "error"
  BY DEF Verify
<1>3. Findings /\ Cursor /\ best \in Seq(Nat)
  BY <1>1, SearchParts DEF Findings, IsSchedule
<1>4. best \in DOMAIN cache /\ cache[best].interesting /\ cache[best].decisions = best
  BY <1>1, <1>3 DEF Findings, BestKnown
<1>5. PICK s \in world : s = cache[best].digest /\ cache[best] = Evidence(s)
                         /\ Follow(best, s.widths) = s.made
  BY <1>3, <1>4 DEF Findings, CacheKnows, CacheSound
<1>6. IsRun(s) /\ IsRun(run) /\ SameScenario(run, s) /\ run.made = Follow(best, run.widths)
  BY <1>3, RunOf DEF Findings, OneScenario
<1>7. run = s
  BY <1>5, <1>6, Deterministic
<1>8. run.hit /\ Faithful(best, run)
  <2>1. best = Prefix(s.made) /\ s.hit
    BY <1>4, <1>5 DEF Evidence
  <2>2. IsPrefix(Prefix(s.made), s.made)
    BY <1>6, RunFacts, PrefixSchedule
  <2> QED BY <1>7, <2>1, <2>2 DEF Faithful
<1>9. stage' = "done"
  BY <1>2, <1>5, <1>7, <1>8
<1>10. OneScenario'
  BY <1>1, <1>2, <1>3, ScenarioGrows DEF Findings
<1>11. CacheKnows'
  <2>1. world \subseteq world'
    BY <1>2
  <2> QED BY <1>1, <1>3, <2>1 DEF Findings, CacheKnows, CacheSound
<1>12. used' \in 0..MaxReplays
  BY <1>1, <1>3, Limits DEF Findings, Available
<1>13. Types'
  BY <1>1, <1>9, <1>12 DEF SearchInv, Types, Stages, cursorVars
<1>14. BestIsProven'
  BY <1>1, <1>4 DEF BestIsProven
<1> QED BY <1>9, <1>10, <1>11, <1>13, <1>14 DEF SearchInv, Beginning, ReserveHeld,
           NeverAccused

\* The steps that end the search or only take time.
LEMMA EndStep ==
    ASSUME SearchInv, GuardUnaffordable \/ Unchanged \/ Unaffordable \/ TimePasses
    PROVE  SearchInv'
<1>1. /\ UNCHANGED <<world, original, cache, used, stopped, cursorVars, verified>>
      /\ \/ stage' = "done" /\ late' = late /\ (best' = best \/ best' = original)
            /\ (stage = "guard" \/ stage = "final")
         \/ stage' = stage /\ late' = TRUE /\ best' = best
            /\ stage \notin {"done", "error"}
  BY DEF GuardUnaffordable, Unchanged, Unaffordable, TimePasses, budgetVars
<1>2. IsSchedule(best') /\ late' \in BOOLEAN /\ stage' \in Stages
  BY <1>1 DEF SearchInv, Types, Stages
<1>3. stage' = "bisect" => limit' = Len(best')
  BY <1>1 DEF SearchInv, Types, cursorVars
<1>4. Types'
  BY <1>1, <1>2, <1>3 DEF SearchInv, Types, cursorVars
<1>5. OneScenario' /\ CacheKnows'
  BY <1>1 DEF SearchInv, OneScenario, CacheKnows, CacheSound
<1>6. Beginning'
  BY <1>1 DEF SearchInv, Beginning, cursorVars
<1>7. BestIsProven'
  BY <1>1 DEF SearchInv, BestIsProven, Beginning
<1>8. ReserveHeld' /\ NeverAccused'
  BY <1>1 DEF SearchInv, ReserveHeld, NeverAccused, cursorVars
<1> QED BY <1>4, <1>5, <1>6, <1>7, <1>8 DEF SearchInv

LEMMA NextHolds == SearchInv /\ [Next]_vars => SearchInv'
<1> SUFFICES ASSUME SearchInv, [Next]_vars PROVE SearchInv'
  OBVIOUS
<1>1. CASE \/ ZeroSpan \/ HalveSpan \/ ZeroEnds \/ LowerOne \/ NextPosition \/ PassEnds
           \/ Canonicalise \/ Bisect \/ BisectEnds \/ LookBelow \/ BelowEnds
  <2>1. stage \notin {"guard", "baseline"}
    BY <1>1 DEF ZeroSpan, HalveSpan, ZeroEnds, LowerOne, NextPosition, PassEnds, Lowering,
           Canonicalise, Bisect, BisectEnds, LookBelow, BelowEnds
  <2>2. Findings /\ Cursor /\ late \in BOOLEAN /\ verified \in BOOLEAN /\ IsSchedule(original)
    BY <2>1, SearchParts
  <2>3. Findings' /\ Cursor' /\ UNCHANGED <<late, original, verified>>
    BY <1>1, <2>2, SearchStep
  <2> QED BY <2>2, <2>3 DEF SearchInv, Types, Findings, Cursor, Beginning, BestIsProven,
             BestKnown, NeverAccused
<1>2. CASE GuardUnaffordable \/ Unchanged \/ Unaffordable \/ TimePasses
  BY <1>2, EndStep
<1>3. CASE UNCHANGED vars
  BY <1>3 DEF vars, budgetVars, cursorVars, SearchInv, Types, OneScenario, CacheKnows,
         CacheSound, Beginning, BestIsProven, ReserveHeld, NeverAccused
<1> QED BY <1>1, <1>2, <1>3, GuardStep, BaselineStep, VerifyStep DEF Next, Search

----------------------------------------------------------------------------
(* Convergence *)

\* The step that lowered decision k to s was tried, and would not help.
Tried(k, s) ==
    LET candidate == [best EXCEPT ![k] = s]
    IN /\ candidate \in DOMAIN cache
       /\ cache[candidate].interesting => ~Simpler(cache[candidate].decisions, best)

LowerValues(k) ==
    {s \in 0..Widest : s \in {0, 1, best[k] \div 2, best[k] - 1} /\ s < best[k]}

\* Once the guard has run the canonical original has an entry, so truncate accepts it
\* from the cache; from then on the best schedule is canonical.
Canonical ==
    /\ stage \notin {"guard", "done", "error"} => original \in DOMAIN cache
    /\ stage \in {"bisect", "below", "lower again", "final"} /\ ~Stop => best = Prefix(best)

\* In a pass of lower_each the schedule only gets simpler, so one that ends as it began
\* was never changed, and everything behind the cursor was tried on that very schedule.
PassCovers ==
    Lowering =>
        /\ limit = Len(before) /\ (best = before \/ Simpler(best, before))
        /\ best = before /\ ~Stop =>
              \A k \in DOMAIN best : \A s \in LowerValues(k) :
                  k <= at \/ (k = at + 1 /\ s <= rung) => Tried(k, s)

AllTried ==
    stage = "final" /\ ~Stop =>
        \A k \in DOMAIN best : \A s \in LowerValues(k) : Tried(k, s)

ConvergeInv == SearchInv /\ Canonical /\ PassCovers /\ AllTried

\* The numbers a rank is made of.
LEMMA RankType ==
    ASSUME NEW d, IsSchedule(d)
    PROVE  Cardinality(Nonzero(d)) \in Nat /\ Total(d) \in Nat /\ Len(d) \in Nat
<1>1. /\ Len(d) \in Nat /\ DOMAIN d = 1..Len(d)
      /\ \A k \in 1..Len(d) : d[k] \in Nat /\ d[k] <= Widest
  BY ScheduleType, WidestType
<1>2. IsFiniteSet(1..Len(d)) /\ IsFiniteSet(1..Widest)
  BY <1>1, WidestType, FS_Interval
<1>3. Cardinality(Nonzero(d)) \in Nat
  <2>1. Nonzero(d) \in SUBSET (1..Len(d))
    BY <1>1 DEF Nonzero
  <2> QED BY <1>2, <2>1, FS_Subset, FS_CardinalityType
<1>4. Total(d) \in Nat
  <2>1. PICK points : points = UNION {{k} \X (1..d[k]) : k \in DOMAIN d}
    OBVIOUS
  <2>2. points \subseteq (1..Len(d)) \X (1..Widest)
    <3> SUFFICES ASSUME NEW k \in 1..Len(d), NEW v \in 1..d[k]
                 PROVE  v \in 1..Widest
      BY <1>1, <2>1
    <3> QED BY <1>1, WidestType
  <2>3. IsFiniteSet((1..Len(d)) \X (1..Widest))
    BY <1>2, FS_Product
  <2>4. Cardinality(points) \in Nat
    BY <2>2, <2>3, FS_Subset, FS_CardinalityType
  <2> QED BY <2>1, <2>4 DEF Total
<1> QED BY <1>1, <1>3, <1>4

\* The order of _rank is strict: nothing is simpler than itself, and what is simpler
\* than something simpler is simpler.
LEMMA SimplerIrreflexive ==
    ASSUME NEW d, IsSchedule(d)
    PROVE  ~Simpler(d, d)
<1>1. Cardinality(Nonzero(d)) \in Nat /\ Total(d) \in Nat /\ Len(d) \in Nat
  BY RankType
<1>2. ~LexBefore(d, d)
  <2>1. \A k \in DOMAIN d : d[k] \in Nat
    BY ScheduleType, WidestType
  <2> QED BY <2>1 DEF LexBefore
<1> QED BY <1>1, <1>2 DEF Simpler

LEMMA LexTransitive ==
    ASSUME NEW a, NEW b, NEW c, IsSchedule(a), IsSchedule(b), IsSchedule(c),
           Len(a) = Len(b), Len(b) = Len(c), LexBefore(a, b), LexBefore(b, c)
    PROVE  LexBefore(a, c)
<1>1. /\ Len(a) \in Nat /\ DOMAIN a = 1..Len(a) /\ DOMAIN b = 1..Len(a)
      /\ \A k \in 1..Len(a) : a[k] \in Nat /\ b[k] \in Nat /\ c[k] \in Nat
  BY ScheduleType, WidestType
<1>2. PICK i \in 1..Len(a) : a[i] < b[i] /\ \A j \in 1..(i - 1) : a[j] = b[j]
  BY <1>1 DEF LexBefore
<1>3. PICK k \in 1..Len(a) : b[k] < c[k] /\ \A j \in 1..(k - 1) : b[j] = c[j]
  BY <1>1 DEF LexBefore
<1>4. CASE i <= k
  <2>1. a[i] < c[i]
    <3>1. CASE i = k
      BY <1>1, <1>2, <1>3, <3>1
    <3>2. CASE i # k
      <4>1. i \in 1..(k - 1)
        BY <1>1, <1>4, <3>2
      <4> QED BY <1>2, <1>3, <4>1
    <3> QED BY <3>1, <3>2
  <2>2. ASSUME NEW j \in 1..(i - 1) PROVE a[j] = c[j]
    <3>1. j \in 1..(k - 1)
      BY <1>1, <1>4
    <3> QED BY <1>2, <1>3, <3>1
  <2> QED BY <1>1, <2>1, <2>2 DEF LexBefore
<1>5. CASE k < i
  <2>1. k \in 1..(i - 1)
    BY <1>1, <1>5
  <2>2. a[k] < c[k]
    BY <1>2, <1>3, <2>1
  <2>3. ASSUME NEW j \in 1..(k - 1) PROVE a[j] = c[j]
    <3>1. j \in 1..(i - 1)
      BY <1>1, <1>5
    <3> QED BY <1>2, <1>3, <3>1
  <2> QED BY <1>1, <2>2, <2>3 DEF LexBefore
<1> QED BY <1>1, <1>4, <1>5

LEMMA SimplerTransitive ==
    ASSUME NEW a, NEW b, NEW c, IsSchedule(a), IsSchedule(b), IsSchedule(c),
           Simpler(a, b), Simpler(b, c)
    PROVE  Simpler(a, c)
<1>1. /\ Cardinality(Nonzero(a)) \in Nat /\ Total(a) \in Nat /\ Len(a) \in Nat
      /\ Cardinality(Nonzero(b)) \in Nat /\ Total(b) \in Nat /\ Len(b) \in Nat
      /\ Cardinality(Nonzero(c)) \in Nat /\ Total(c) \in Nat /\ Len(c) \in Nat
  BY RankType
<1>2. Len(a) = Len(b) /\ Len(b) = Len(c) /\ LexBefore(a, b) /\ LexBefore(b, c)
          => LexBefore(a, c)
  BY LexTransitive
<1> QED BY <1>1, <1>2 DEF Simpler

\* The canonical schedule deviates where the schedule does, by as much, so that it is
\* simpler or the same; and it is its own canonical schedule.
LEMMA PrefixSimpler ==
    ASSUME NEW d, IsSchedule(d)
    PROVE  Prefix(d) = d \/ Simpler(Prefix(d), d)
<1>1. d \in Seq(Nat) /\ Len(d) \in Nat /\ DOMAIN d = 1..Len(d)
  BY ScheduleType
<1>2. PICK m \in 0..Len(d) :
          Prefix(d) = SubSeq(d, 1, m) /\ \A k \in (m + 1)..Len(d) : d[k] = 0
  BY <1>1, PrefixFacts
<1>3. PICK p : p = Prefix(d)
  OBVIOUS
<1>4. /\ p \in Seq(Nat) /\ Len(p) = m /\ DOMAIN p = 1..m
      /\ \A k \in 1..m : p[k] = d[k]
  BY <1>1, <1>2, <1>3, FirstPart
<1>5. \A k \in 1..Len(d) : k \notin 1..m => d[k] = 0
  BY <1>1, <1>2
<1>6. 1..m \subseteq 1..Len(d)
  BY <1>1
<1>7. Nonzero(p) = Nonzero(d)
  BY <1>1, <1>4, <1>5, <1>6 DEF Nonzero
<1>8. Total(p) = Total(d)
  <2>1. PICK below : below = UNION {{k} \X (1..p[k]) : k \in DOMAIN p}
    OBVIOUS
  <2>2. PICK under : under = UNION {{k} \X (1..d[k]) : k \in DOMAIN d}
    OBVIOUS
  <2>3. \A k \in 1..Len(d) : k \notin 1..m => {k} \X (1..d[k]) = {}
    BY <1>5
  <2>4. \A k \in 1..m : {k} \X (1..p[k]) = {k} \X (1..d[k])
    BY <1>4
  <2>5. ASSUME NEW x \in below PROVE x \in under
    <3>1. PICK k \in DOMAIN p : x \in {k} \X (1..p[k])
      BY <2>1
    <3>2. k \in DOMAIN d /\ x \in {k} \X (1..d[k])
      BY <1>1, <1>4, <1>6, <2>4, <3>1, Zenon
    <3> QED BY <2>2, <3>2
  <2>6. ASSUME NEW x \in under PROVE x \in below
    <3>1. PICK k \in DOMAIN d : x \in {k} \X (1..d[k])
      BY <2>2
    <3>2. k \in DOMAIN p /\ x \in {k} \X (1..p[k])
      BY <1>1, <1>4, <2>3, <2>4, <3>1, Zenon
    <3> QED BY <2>1, <3>2
  <2>7. below = under
    BY <2>5, <2>6
  <2>8. Total(p) = Cardinality(below) /\ Total(d) = Cardinality(under)
    BY <2>1, <2>2, Zenon DEF Total
  <2> QED BY <2>7, <2>8
<1>9. CASE m = Len(d)
  <2>1. \A k \in 1..Len(p) : p[k] = d[k]
    BY <1>4
  <2>2. p = d
    BY <1>1, <1>4, <1>9, <2>1, SeqEqual
  <2> QED BY <1>3, <2>2
<1>10. CASE m # Len(d)
  <2>1. Len(p) < Len(d)
    <3>1. Len(d) \in Nat /\ Len(p) = m
      BY <1>1, <1>4
    <3> QED BY <1>10, <3>1
  <2> QED BY <1>3, <1>7, <1>8, <2>1 DEF Simpler
<1> QED BY <1>9, <1>10

LEMMA PrefixCanonical ==
    ASSUME NEW d, IsSchedule(d)
    PROVE  Prefix(Prefix(d)) = Prefix(d)
<1>1. d \in Seq(Nat) /\ Len(d) \in Nat
  BY ScheduleType
<1>2. PICK m \in 0..Len(d) : Prefix(d) = SubSeq(d, 1, m) /\ (m # 0 => d[m] # 0)
  BY <1>1, PrefixFacts
<1>3. PICK p : p = Prefix(d)
  OBVIOUS
<1>4. p \in Seq(Nat) /\ Len(p) = m /\ \A k \in 1..m : p[k] = d[k]
  BY <1>1, <1>2, <1>3, FirstPart
<1>5. PICK n \in 0..m : Prefix(p) = SubSeq(p, 1, n) /\ \A k \in (n + 1)..m : p[k] = 0
  BY <1>4, PrefixFacts
<1>6. n = m
  <2> SUFFICES ASSUME n # m PROVE FALSE
    OBVIOUS
  <2>1. m \in (n + 1)..m /\ m \in 1..m /\ m # 0
    BY <1>1
  <2> QED BY <1>2, <1>4, <1>5, <2>1
<1>7. /\ Prefix(p) \in Seq(Nat) /\ Len(Prefix(p)) = m
      /\ \A k \in 1..m : Prefix(p)[k] = p[k]
  BY <1>4, <1>5, <1>6, FirstPart
<1>8. Prefix(p) = p
  BY <1>4, <1>7, SeqEqual
<1> QED BY <1>3, <1>8

\* The canonical schedule of a replay stays as it is.
LEMMA EvidenceCanonical ==
    ASSUME NEW run, IsRun(run)
    PROVE  Prefix(Evidence(run).decisions) = Evidence(run).decisions
BY RunFacts, PrefixCanonical DEF Evidence

LEMMA KnownCanonical ==
    ASSUME OneScenario, CacheKnows, NEW key \in DOMAIN cache
    PROVE  Prefix(cache[key].decisions) = cache[key].decisions
<1>1. PICK run \in world : cache[key] = Evidence(run)
  BY DEF CacheKnows, CacheSound
<1> QED BY <1>1, EvidenceCanonical DEF OneScenario

\* The cache forgets nothing and the budget does not come back.
Onward ==
    /\ DOMAIN cache \subseteq DOMAIN cache'
    /\ \A key \in DOMAIN cache : cache'[key] = cache[key]
    /\ ~Stop' => ~Stop

\* A proposal leaves the best schedule or makes it simpler, and canonical; if it leaves
\* it and the budget is not spent, the verdict on the candidate is known and is no help.
LEMMA ProposeTells ==
    ASSUME Findings, NEW candidate \in Seq(Nat), Propose(candidate),
           original' = original, late' = late
    PROVE  /\ Onward
           /\ best' = best \/ (Simpler(best', best) /\ Prefix(best') = best')
           /\ ~Stop' /\ best' = best =>
                 /\ candidate \in DOMAIN cache'
                 /\ cache'[candidate].interesting =>
                        ~Simpler(cache'[candidate].decisions, best')
<1>1. IsSchedule(best) /\ OneScenario /\ CacheKnows /\ used \in Nat /\ ~Simpler(best, best)
  BY Limits, SimplerIrreflexive DEF Findings
<1>2. CASE candidate \in DOMAIN cache /\ Accept(candidate, cache[candidate])
           /\ UNCHANGED <<world, cache, used, stopped>>
  <2>1. Prefix(cache[candidate].decisions) = cache[candidate].decisions
    BY <1>1, <1>2, KnownCanonical
  <2>2. Onward
    BY <1>2 DEF Onward, Stop, Available
  <2>3. best' = best \/ (Simpler(best', best) /\ Prefix(best') = best')
    BY <1>2, <2>1 DEF Accept
  <2>4. best' = best /\ cache[candidate].interesting
            => ~Simpler(cache[candidate].decisions, best)
    BY <1>1, <1>2 DEF Accept
  <2> QED BY <1>2, <2>2, <2>3, <2>4
<1>3. CASE UNCHANGED <<world, cache, used, best>> /\ stopped' = TRUE
  BY <1>3 DEF Onward, Stop, Available
<1>4. ASSUME candidate \notin DOMAIN cache, used' = used + 1,
             NEW run \in RunsOf(candidate), world' = world \cup {run},
             cache' = Remembered(candidate, run), Accept(candidate, Evidence(run)),
             stopped' = stopped
      PROVE  /\ Onward
             /\ best' = best \/ (Simpler(best', best) /\ Prefix(best') = best')
             /\ best' = best =>
                   /\ candidate \in DOMAIN cache'
                   /\ cache'[candidate].interesting =>
                          ~Simpler(cache'[candidate].decisions, best')
  <2>1. IsRun(run) /\ run.made = Follow(candidate, run.widths)
    BY <1>1, <1>4, RunOf
  <2>2. /\ DOMAIN cache' = DOMAIN cache \cup {candidate, Prefix(run.made)}
        /\ cache'[candidate] = Evidence(run)
        /\ \A key \in DOMAIN cache : cache'[key] = cache[key]
    BY <1>1, <1>4, <2>1, RememberedKnows
  <2>3. Prefix(Evidence(run).decisions) = Evidence(run).decisions
    BY <2>1, EvidenceCanonical
  <2>4. ~Stop' => ~Stop
    BY <1>1, <1>4, Limits DEF Stop, Available
  <2>5. Onward
    BY <2>2, <2>4 DEF Onward
  <2>6. best' = best \/ (Simpler(best', best) /\ Prefix(best') = best')
    BY <1>4, <2>3 DEF Accept
  <2>7. best' = best /\ Evidence(run).interesting
            => ~Simpler(Evidence(run).decisions, best)
    BY <1>1, <1>4 DEF Accept
  <2> QED BY <2>2, <2>5, <2>6, <2>7
<1>5. \/ candidate \in DOMAIN cache /\ Accept(candidate, cache[candidate])
         /\ UNCHANGED <<world, cache, used, stopped>>
      \/ UNCHANGED <<world, cache, used, best>> /\ stopped' = TRUE
      \/ /\ candidate \notin DOMAIN cache /\ used' = used + 1
         /\ \E run \in RunsOf(candidate) :
               /\ world' = world \cup {run}
               /\ cache' = Remembered(candidate, run)
               /\ Accept(candidate, Evidence(run))
         /\ stopped' = stopped
  BY DEF Propose
<1> QED BY <1>2, <1>3, <1>4, <1>5

\* A proposal keeps the best schedule canonical, and once its own canonical schedule is
\* proposed it is.
LEMMA StaysCanonical ==
    ASSUME Findings, NEW candidate \in Seq(Nat), Propose(candidate),
           original' = original, late' = late, Canonical,
           stage \notin {"guard", "done", "error", "truncate"}
    PROVE  stage' = stage => Canonical'
<1>1. /\ Onward
      /\ best' = best \/ (Simpler(best', best) /\ Prefix(best') = best')
  BY ProposeTells
<1> QED BY <1>1 DEF Canonical, Onward

LEMMA BecomesCanonical ==
    ASSUME Findings, Propose(Prefix(best)), original \in DOMAIN cache,
           original' = original, late' = late
    PROVE  /\ Onward
           /\ ~Stop' => Prefix(best') = best'
<1>1. IsSchedule(best) /\ Prefix(best) \in Seq(Nat) /\ OneScenario /\ CacheKnows
  BY PrefixSchedule DEF Findings, IsSchedule
<1>2. /\ Onward
      /\ best' = best \/ (Simpler(best', best) /\ Prefix(best') = best')
      /\ ~Stop' /\ best' = best =>
            /\ Prefix(best) \in DOMAIN cache'
            /\ cache'[Prefix(best)].interesting =>
                   ~Simpler(cache'[Prefix(best)].decisions, best')
  BY <1>1, ProposeTells
<1>3. ASSUME ~Stop', best' = best PROVE Prefix(best) = best
  <2>1. CASE best # original
    BY <1>1, <2>1, KnownCanonical DEF Findings, BestKnown
  <2>2. CASE best = original
    <3>1. PICK s \in world : cache[original] = Evidence(s)
                             /\ Follow(original, s.widths) = s.made
      BY <1>1 DEF CacheKnows, CacheSound
    <3>2. PICK r \in world : r.made = original /\ r.hit
      BY <1>1 DEF OneScenario
    <3>3. Follow(original, r.widths) = r.made
      BY <1>1, <3>2, FollowItself DEF OneScenario
    <3>4. s = r
      <4>1. IsRun(s) /\ IsRun(r) /\ SameScenario(s, r)
        BY <1>1 DEF OneScenario
      <4> QED BY <3>1, <3>3, <4>1, Deterministic
    <3>5. PICK d : d = cache[original].decisions
      OBVIOUS
    <3>6. d = Prefix(best) /\ cache[original].interesting
      BY <2>2, <3>1, <3>2, <3>4, <3>5 DEF Evidence
    <3>7. d \in DOMAIN cache /\ cache[d].decisions = d /\ cache[d].interesting
      BY <1>1, <3>5, <3>6, EvidenceOfResult
    <3>8. cache'[d] = cache[d]
      BY <1>2, <3>7 DEF Onward
    <3>9. ~Simpler(Prefix(best), best)
      BY <1>2, <1>3, <3>6, <3>7, <3>8
    <3> QED BY <1>1, <3>9, PrefixSimpler
  <2> QED BY <2>1, <2>2
<1> QED BY <1>2, <1>3

\* A pass begins with nothing behind the cursor.
LEMMA FreshPass ==
    ASSUME NEW next, Enter(next), IsSchedule(best')
    PROVE  PassCovers'
<1>1. /\ limit' = Len(before') /\ best' = before'
      /\ next # "below" => at' = 0 /\ rung' = -1
      /\ stage' = next
  BY DEF Enter
<1>2. DOMAIN best' = 1..Len(best') /\ Len(best') \in Nat
  BY ScheduleType
<1>3. ASSUME Lowering', NEW k \in DOMAIN best', NEW s \in LowerValues(k)',
             k <= at' \/ (k = at' + 1 /\ s <= rung')
      PROVE  FALSE
  <2>1. at' = 0 /\ rung' = -1
    BY <1>1, <1>3 DEF Lowering
  <2>2. k \in Nat /\ k >= 1 /\ s \in Nat
    BY <1>2, WidestType DEF LowerValues
  <2> QED BY <1>3, <2>1, <2>2
<1> QED BY <1>1, <1>3 DEF PassCovers

\* What was tried stays tried, as long as the best schedule stays.
LEMMA TriedStays ==
    ASSUME Onward, best' = best, NEW k, NEW s, Tried(k, s)
    PROVE  Tried(k, s)'
BY DEF Tried, Onward

LEMMA LowerOneCovers ==
    ASSUME Findings, Cursor, PassCovers, LowerOne
    PROVE  PassCovers' /\ Onward
           /\ (best' = best \/ (Simpler(best', best) /\ Prefix(best') = best'))
<1>1. /\ Lowering /\ InPass /\ Rungs # {}
      /\ Propose([best EXCEPT ![at + 1] = Min(Rungs)])
      /\ best' # best \/ (rung' = Min(Rungs) /\ at' = at)
      /\ UNCHANGED <<stage, limit, span, before, late, original>>
  BY DEF LowerOne, Fixed
<1>2. IsSchedule(best) /\ best \in Seq(Nat) /\ IsSchedule(before)
  BY ScheduleType DEF Findings, Cursor
<1>3. at \in Nat
  BY DEF Cursor
<1>4. at < Len(best)
  BY <1>1 DEF InPass
<1>5. /\ at + 1 \in 1..Len(best) /\ Rungs \subseteq 0..(Widest - 1)
      /\ Rungs = {s \in {0, 1, best[at + 1] \div 2, best[at + 1] - 1} :
                     0 <= s /\ s < best[at + 1] /\ s > rung}
  BY <1>2, <1>3, <1>4, RungsType
<1>6. PICK m : m = Min(Rungs)
  OBVIOUS
<1>7. m \in Nat /\ m \in Rungs /\ \A s \in Rungs : m <= s
  <2>1. Rungs \subseteq Nat
    BY <1>5, WidestType
  <2> QED BY <1>1, <1>6, <2>1, MinOf
<1>8. PICK candidate : candidate = [best EXCEPT ![at + 1] = m]
  OBVIOUS
<1>9. candidate \in Seq(Nat)
  BY <1>2, <1>5, <1>7, <1>8, ExceptSeq
<1>10. Propose(candidate) /\ original' = original /\ late' = late
  BY <1>1, <1>6, <1>8
<1>11. /\ Onward
       /\ best' = best \/ (Simpler(best', best) /\ Prefix(best') = best')
       /\ ~Stop' /\ best' = best =>
             /\ candidate \in DOMAIN cache'
             /\ cache'[candidate].interesting =>
                    ~Simpler(cache'[candidate].decisions, best')
  BY <1>9, <1>10, ProposeTells
<1>12. IsSchedule(best')
  BY <1>9, <1>10, ProposeEffect DEF Findings
<1>13. /\ limit = Len(before) /\ (best = before \/ Simpler(best, before))
       /\ best = before /\ ~Stop =>
             \A k \in DOMAIN best : \A s \in LowerValues(k) :
                 k <= at \/ (k = at + 1 /\ s <= rung) => Tried(k, s)
  BY <1>1 DEF PassCovers
<1>14. best' = before \/ Simpler(best', before)
  BY <1>2, <1>11, <1>12, <1>13, SimplerTransitive
<1>15. ASSUME best' = before, ~Stop', NEW k \in DOMAIN best, NEW s \in LowerValues(k),
              k <= at' \/ (k = at' + 1 /\ s <= rung')
       PROVE  Tried(k, s)'
  <2>1. best' = best
    <3>1. ~Simpler(before, before)
      BY <1>2, SimplerIrreflexive
    <3> QED BY <1>2, <1>11, <1>12, <1>13, <1>15, <3>1, SimplerTransitive
  <2>2. rung' = m /\ at' = at /\ best = before /\ ~Stop
    BY <1>1, <1>6, <1>11, <1>15, <2>1 DEF Onward
  <2>3. CASE k <= at \/ (k = at + 1 /\ s <= rung)
    BY <1>11, <1>13, <2>1, <2>2, <2>3, TriedStays
  <2>4. CASE ~(k <= at \/ (k = at + 1 /\ s <= rung))
    <3>1. k = at + 1 /\ s <= m /\ ~(s <= rung)
      BY <1>15, <2>2, <2>4
    <3>2. s \in {0, 1, best[at + 1] \div 2, best[at + 1] - 1} /\ s < best[at + 1]
          /\ s \in Nat
      BY <3>1, WidestType DEF LowerValues
    <3>3. rung \in Int
      BY WidestType DEF Cursor
    <3>4. s > rung /\ 0 <= s
      BY <3>1, <3>2, <3>3
    <3>5. s \in Rungs
      BY <1>5, <3>2, <3>4
    <3>6. s = m
      <4>1. m <= s
        BY <1>7, <3>5
      <4> QED BY <1>7, <3>1, <3>2, <4>1
    <3>7. /\ candidate \in DOMAIN cache'
          /\ cache'[candidate].interesting =>
                 ~Simpler(cache'[candidate].decisions, best')
      BY <1>11, <1>15, <2>1
    <3>8. candidate = [best' EXCEPT ![k] = s]
      BY <1>8, <2>1, <3>1, <3>6
    <3> QED BY <3>7, <3>8 DEF Tried
  <2> QED BY <2>3, <2>4
<1>16. ASSUME best' = before', ~Stop', NEW k \in DOMAIN best', NEW s \in LowerValues(k)',
              k <= at' \/ (k = at' + 1 /\ s <= rung')
       PROVE  Tried(k, s)'
  <2>1. best' = before
    BY <1>1, <1>16
  <2>2. best' = best
    <3>1. ~Simpler(before, before)
      BY <1>2, SimplerIrreflexive
    <3> QED BY <1>2, <1>11, <1>12, <1>13, <2>1, <3>1, SimplerTransitive
  <2>3. k \in DOMAIN best /\ s \in LowerValues(k)
    BY <1>16, <2>2 DEF LowerValues
  <2> QED BY <1>15, <1>16, <2>1, <2>3
<1>17. PassCovers'
  BY <1>1, <1>13, <1>14, <1>16 DEF PassCovers
<1> QED BY <1>11, <1>17

LEMMA NextPositionCovers ==
    ASSUME Findings, Cursor, PassCovers, NextPosition
    PROVE  PassCovers'
<1>1. /\ Lowering /\ InPass /\ Rungs = {} /\ at' = at + 1 /\ rung' = -1
      /\ UNCHANGED <<best, cache, used, late, stopped, stage, limit, before>>
  BY DEF NextPosition, Fixed
<1>2. IsSchedule(best)
  BY DEF Findings
<1>3. at \in Nat
  BY DEF Cursor
<1>4. at < Len(best)
  BY <1>1 DEF InPass
<1>5. Rungs = {s \in {0, 1, best[at + 1] \div 2, best[at + 1] - 1} :
                  0 <= s /\ s < best[at + 1] /\ s > rung}
  BY <1>2, <1>3, <1>4, RungsType
<1>6. rung \in Int
  BY WidestType DEF Cursor
<1>7. /\ limit = Len(before) /\ (best = before \/ Simpler(best, before))
      /\ best = before /\ ~Stop =>
            \A k \in DOMAIN best : \A s \in LowerValues(k) :
                k <= at \/ (k = at + 1 /\ s <= rung) => Tried(k, s)
  BY <1>1 DEF PassCovers
<1>8. ASSUME best = before, ~Stop, NEW k \in DOMAIN best, NEW s \in LowerValues(k),
             k <= at' \/ (k = at' + 1 /\ s <= rung')
      PROVE  Tried(k, s)
  <2>1. s \in Nat /\ k \in Nat
    BY <1>2, ScheduleType, WidestType DEF LowerValues
  <2>2. k <= at \/ k = at + 1
    <3>1. ~(s <= rung')
      BY <1>1, <2>1
    <3>2. k <= at + 1
      BY <1>1, <1>8, <3>1
    <3> QED BY <1>3, <2>1, <3>2
  <2>3. CASE k <= at
    BY <1>7, <1>8, <2>3
  <2>4. CASE k = at + 1
    <3>1. s \in {0, 1, best[at + 1] \div 2, best[at + 1] - 1} /\ s < best[at + 1]
      BY <2>4 DEF LowerValues
    <3>2. ~(s > rung)
      BY <1>1, <1>5, <2>1, <3>1
    <3>3. s <= rung
      BY <1>6, <2>1, <3>2
    <3> QED BY <1>7, <1>8, <2>4, <3>3
  <2> QED BY <2>2, <2>3, <2>4
<1>9. Stop' = Stop /\ DOMAIN best' = DOMAIN best
  BY <1>1 DEF Stop, Available
<1>10. ASSUME NEW k, NEW s
       PROVE  LowerValues(k)' = LowerValues(k) /\ Tried(k, s)' = Tried(k, s)
  BY <1>1 DEF LowerValues, Tried
<1> QED BY <1>1, <1>7, <1>8, <1>9, <1>10 DEF PassCovers

\* A pass that ends with the budget unspent and the schedule it began with has gone
\* through all of it.
LEMMA LastPassCovers ==
    ASSUME Findings, Cursor, PassCovers, PassEnds
    PROVE  AllTried'
<1>1. /\ Lowering /\ ~InPass /\ best' = best /\ cache' = cache
      /\ UNCHANGED <<used, late, stopped>>
      /\ stage' = "final" => LastPass
  BY DEF PassEnds, Lowering, Enter, Fixed
<1>2. IsSchedule(best) /\ at \in Nat
  BY DEF Findings, Cursor
<1>3. ASSUME stage' = "final", ~Stop', NEW k \in DOMAIN best', NEW s \in LowerValues(k)'
      PROVE  Tried(k, s)'
  <2>1. ~Stop
    BY <1>1, <1>3 DEF Stop, Available
  <2>2. best = before /\ limit = Len(before)
    BY <1>1, <1>3, <2>1 DEF LastPass, PassCovers
  <2>3. ~(at < Len(best))
    BY <1>1, <2>1, <2>2 DEF InPass
  <2>4. k \in DOMAIN best /\ s \in LowerValues(k)
    BY <1>1, <1>3 DEF LowerValues
  <2>5. k <= at
    <3>1. k \in 1..Len(best) /\ Len(best) \in Nat
      BY <1>2, <2>4, ScheduleType
    <3> QED BY <1>2, <2>3, <3>1
  <2>6. Tried(k, s)
    BY <1>1, <2>1, <2>2, <2>4, <2>5 DEF PassCovers
  <2> QED BY <1>1, <2>6 DEF Tried
<1> QED BY <1>3 DEF AllTried

\* The steps that begin or end the search.
LEMMA EntryConverges ==
    ASSUME ConvergeInv,
           \/ GuardUnaffordable \/ Guard \/ Baseline \/ Unchanged \/ Unaffordable \/ Verify
           \/ TimePasses
    PROVE  Canonical' /\ PassCovers' /\ AllTried'
<1>1. CASE GuardUnaffordable \/ Unchanged \/ Unaffordable \/ Verify
  <2>1. stage' \in {"done", "error"}
    BY <1>1 DEF GuardUnaffordable, Unchanged, Unaffordable, Verify
  <2> QED BY <2>1 DEF Canonical, PassCovers, AllTried, Lowering
<1>2. CASE Guard
  <2>1. /\ stage' = "error" \/ (stage' = "baseline" /\ original \in DOMAIN cache')
        /\ original' = original
    BY <1>2 DEF Guard, Remembered
  <2> QED BY <2>1 DEF Canonical, PassCovers, AllTried, Lowering
<1>3. CASE Baseline
  <2>1. stage = "baseline" /\ stage' = "zero" /\ original' = original
        /\ DOMAIN cache \subseteq DOMAIN cache'
    BY <1>3 DEF Baseline, Enter, Fixed, Remembered
  <2>2. original \in DOMAIN cache
    BY <2>1 DEF ConvergeInv, Canonical
  <2> QED BY <2>1, <2>2 DEF Canonical, PassCovers, AllTried, Lowering
<1>4. CASE TimePasses
  <2>1. /\ stage' = stage /\ late' = TRUE
        /\ UNCHANGED <<original, best, cache, before, at, limit, rung>>
    BY <1>4 DEF TimePasses, cursorVars
  <2>2. Stop'
    BY <2>1 DEF Stop, Available
  <2>3. Lowering' = Lowering
    BY <2>1 DEF Lowering
  <2> QED BY <2>1, <2>2, <2>3 DEF ConvergeInv, Canonical, PassCovers, AllTried
<1> QED BY <1>1, <1>2, <1>3, <1>4

\* The steps of the search.
LEMMA SearchConverges ==
    ASSUME ConvergeInv, Findings, Cursor,
           \/ ZeroSpan \/ HalveSpan \/ ZeroEnds \/ LowerOne \/ NextPosition \/ PassEnds
           \/ Canonicalise \/ Bisect \/ BisectEnds \/ LookBelow \/ BelowEnds
    PROVE  Canonical' /\ PassCovers' /\ AllTried'
<1>1. /\ IsSchedule(best) /\ IsSchedule(best') /\ original' = original /\ late' = late
      /\ Canonical /\ PassCovers
  BY SearchStep DEF Findings, ConvergeInv
<1>2. best \in Seq(Nat) /\ Len(best) \in Nat
  BY <1>1, ScheduleType
<1>3. ASSUME UNCHANGED <<best, cache, used, stopped>>
      PROVE  Stop' = Stop
  BY <1>1, <1>3 DEF Stop, Available
<1>4. CASE ZeroSpan
  <2>1. stage = "zero" /\ stage' = "zero" /\ original \in DOMAIN cache
    BY <1>1, <1>4 DEF ZeroSpan, Canonical
  <2>2. DOMAIN cache \subseteq DOMAIN cache'
    BY <1>4 DEF ZeroSpan, Propose, Remembered
  <2> QED BY <1>1, <2>1, <2>2 DEF Canonical, PassCovers, AllTried, Lowering
<1>5. CASE HalveSpan \/ ZeroEnds
  <2>1. /\ stage = "zero" /\ original \in DOMAIN cache /\ cache' = cache
        /\ stage' \in {"zero", "lower"}
        /\ stage' = "lower" => Enter("lower")
    <3>1. CASE HalveSpan
      BY <1>1, <3>1 DEF HalveSpan, Canonical
    <3>2. CASE ZeroEnds
      <4>1. Enter("lower") /\ stage = "zero" /\ cache' = cache
        BY <3>2 DEF ZeroEnds
      <4>2. stage' = "lower"
        BY <4>1 DEF Enter
      <4> QED BY <1>1, <4>1, <4>2 DEF Canonical
    <3> QED BY <1>5, <3>1, <3>2
  <2>2. PassCovers'
    BY <1>1, <2>1, FreshPass DEF PassCovers, Lowering
  <2> QED BY <1>1, <2>1, <2>2 DEF Canonical, AllTried
<1>6. CASE LowerOne
  <2>1. /\ PassCovers' /\ Onward
        /\ best' = best \/ (Simpler(best', best) /\ Prefix(best') = best')
    BY <1>1, <1>6, LowerOneCovers
  <2>2. stage' = stage /\ stage \in {"lower", "lower again"}
    BY <1>6 DEF LowerOne, Lowering
  <2> QED BY <1>1, <2>1, <2>2 DEF Canonical, AllTried, Onward
<1>7. CASE NextPosition
  <2>1. PassCovers'
    BY <1>1, <1>7, NextPositionCovers
  <2>2. /\ stage' = stage /\ stage \in {"lower", "lower again"}
        /\ UNCHANGED <<best, cache, used, stopped>>
    BY <1>7 DEF NextPosition, Lowering
  <2> QED BY <1>1, <1>3, <2>1, <2>2 DEF Canonical, AllTried
<1>8. CASE PassEnds
  <2>1. PICK next : next = IF ~LastPass THEN stage
                           ELSE IF stage = "lower" THEN "truncate" ELSE "final"
    OBVIOUS
  <2>2. stage \in {"lower", "lower again"} /\ Enter(next) /\ stage' = next
        /\ UNCHANGED <<best, cache, used, stopped>>
    BY <1>8, <2>1 DEF PassEnds, Lowering, Enter
  <2>3. PassCovers'
    BY <1>1, <2>2, FreshPass
  <2>4. AllTried'
    BY <1>1, <1>8, LastPassCovers
  <2>5. next = stage \/ next = "truncate" \/ (next = "final" /\ stage = "lower again")
    BY <2>1, <2>2
  <2>6. Canonical'
    BY <1>1, <1>3, <2>2, <2>5 DEF Canonical
  <2> QED BY <2>3, <2>4, <2>6
<1>9. CASE Canonicalise
  <2>1. /\ stage = "truncate" /\ stage' = "bisect" /\ original \in DOMAIN cache
        /\ \/ Propose(Prefix(best))
           \/ /\ best = << >> \/ Stop
              /\ UNCHANGED <<best, world, cache, used, stopped>>
    BY <1>1, <1>9 DEF Canonicalise, Enter, Canonical
  <2>2. CASE Propose(Prefix(best))
    <3>1. Onward /\ (~Stop' => Prefix(best') = best')
      BY <1>1, <2>1, <2>2, BecomesCanonical
    <3> QED BY <1>1, <2>1, <3>1 DEF Canonical, PassCovers, AllTried, Lowering, Onward
  <2>3. CASE (best = << >> \/ Stop) /\ UNCHANGED <<best, world, cache, used, stopped>>
    <3>1. best = << >> => Prefix(best) = best
      <4>1. PICK m \in 0..Len(best) : Prefix(best) = SubSeq(best, 1, m)
        BY <1>2, PrefixFacts
      <4>2. Prefix(best) \in Seq(Nat) /\ Len(Prefix(best)) = m
        BY <1>2, <4>1, FirstPart
      <4> QED BY <1>2, <4>2, EmptySeq
    <3> QED BY <1>1, <1>3, <2>1, <2>3, <3>1 DEF Canonical, PassCovers, AllTried, Lowering
  <2> QED BY <2>1, <2>2, <2>3
<1>10. CASE Bisect
  <2>1. /\ stage = "bisect" /\ stage' = stage /\ at < limit
        /\ Propose(SubSeq(best, 1, Middle))
    BY <1>10 DEF Bisect
  <2>2. SubSeq(best, 1, Middle) \in Seq(Nat)
    <3>1. limit = Len(best)
      BY <2>1 DEF Cursor
    <3>2. at \in Nat
      BY DEF Cursor
    <3>3. Middle \in 0..Len(best)
      BY <1>2, <2>1, <3>1, <3>2 DEF Middle
    <3> QED BY <1>2, <3>3, FirstPart
  <2>3. Canonical'
    BY <1>1, <2>1, <2>2, StaysCanonical
  <2> QED BY <2>1, <2>3 DEF PassCovers, AllTried, Lowering
<1>11. CASE LookBelow
  <2>1. /\ stage = "below" /\ stage' = stage
        /\ Propose(SubSeq(best, 1, Min({at, Len(best)})))
    BY <1>11 DEF LookBelow
  <2>2. SubSeq(best, 1, Min({at, Len(best)})) \in Seq(Nat)
    <3>1. at \in Nat
      BY DEF Cursor
    <3>2. {at, Len(best)} \subseteq Nat
      BY <1>2, <3>1
    <3>3. Min({at, Len(best)}) \in {at, Len(best)} /\ Min({at, Len(best)}) <= Len(best)
      BY <3>2, MinOf
    <3>4. Min({at, Len(best)}) \in 0..Len(best)
      BY <1>2, <3>1, <3>3
    <3> QED BY <1>2, <3>4, FirstPart
  <2>3. Canonical'
    BY <1>1, <2>1, <2>2, StaysCanonical
  <2> QED BY <2>1, <2>3 DEF PassCovers, AllTried, Lowering
<1>12. CASE BisectEnds \/ BelowEnds
  <2>1. /\ UNCHANGED <<best, cache, used, stopped>>
        /\ stage \in {"bisect", "below"} /\ stage' \in {"below", "lower again"}
        /\ Enter(stage')
    BY <1>12 DEF BisectEnds, BelowEnds, Enter
  <2>2. PassCovers'
    BY <1>1, <2>1, FreshPass
  <2> QED BY <1>1, <1>3, <2>1, <2>2 DEF Canonical, AllTried
<1> QED BY <1>4, <1>5, <1>6, <1>7, <1>8, <1>9, <1>10, <1>11, <1>12

----------------------------------------------------------------------------
(* The theorems *)

\* The inductive invariant: shrink.py's search with its cache and its budget.
THEOREM SearchInvAlways == Spec => []SearchInv
<1>1. Init => SearchInv
  BY InitHolds
<1>2. SearchInv /\ [Next]_vars => SearchInv'
  BY NextHolds
<1> QED BY <1>1, <1>2, PTL DEF Spec

\* The variables have their types, and guard, search and verification together never
\* make more replays than ShrinkBudget.max_replays.
THEOREM ShrinkTypeCorrect == Spec => []TypeOK
<1>1. SearchInv => TypeOK
  BY DEF SearchInv, Types, TypeOK, Widest, IsSchedule
<1> QED BY <1>1, SearchInvAlways, PTL

\* A verdict of _Search.cache is what a replay of that schedule would be, in the
\* entries for canonical prefixes too that nobody requested.
THEOREM CacheSoundAlways == Spec => []CacheSound
<1>1. SearchInv => CacheSound
  BY DEF SearchInv, CacheKnows
<1> QED BY <1>1, SearchInvAlways, PTL

\* shrink looks the best schedule up in the cache before it verifies it, and finds the
\* evidence of a run that took just that schedule and hit the finding.
THEOREM BestIsProvenAlways == Spec => []BestIsProven
<1>1. SearchInv => BestIsProven
  BY DEF SearchInv
<1> QED BY <1>1, SearchInvAlways, PTL

\* The reserve of one replay that _Search.__call__ asks for is enough: the improved
\* schedule can be verified unless the time is up.
THEOREM ReserveKeptAlways == Spec => []ReserveKept
<1>1. SearchInv => ReserveKept
  BY Limits DEF SearchInv, ReserveHeld, Types, ReserveKept, Available
<1> QED BY <1>1, SearchInvAlways, PTL

\* On a deterministic scenario neither the guard nor the final verification of shrink
\* can fail.
THEOREM NeverAccusedAlways == Spec => []NeverAccused
<1>1. SearchInv => NeverAccused
  BY DEF SearchInv
<1> QED BY <1>1, SearchInvAlways, PTL

\* The invariant under which the search converges.
THEOREM ConvergeInvAlways == Spec => []ConvergeInv
<1>1. Init => ConvergeInv
  <2>1. Init => Canonical /\ PassCovers /\ AllTried
    BY DEF Init, Canonical, PassCovers, AllTried, Lowering
  <2> QED BY <2>1, InitHolds DEF ConvergeInv
<1>2. ConvergeInv /\ [Next]_vars => ConvergeInv'
  <2> SUFFICES ASSUME ConvergeInv, [Next]_vars PROVE ConvergeInv'
    OBVIOUS
  <2>1. SearchInv'
    BY NextHolds DEF ConvergeInv
  <2>2. CASE \/ ZeroSpan \/ HalveSpan \/ ZeroEnds \/ LowerOne \/ NextPosition \/ PassEnds
             \/ Canonicalise \/ Bisect \/ BisectEnds \/ LookBelow \/ BelowEnds
    <3>1. stage \notin {"guard", "baseline"}
      BY <2>2 DEF ZeroSpan, HalveSpan, ZeroEnds, LowerOne, NextPosition, PassEnds,
             Lowering, Canonicalise, Bisect, BisectEnds, LookBelow, BelowEnds
    <3>2. Findings /\ Cursor
      BY <3>1, SearchParts DEF ConvergeInv
    <3> QED BY <2>1, <2>2, <3>2, SearchConverges DEF ConvergeInv
  <2>3. CASE UNCHANGED vars
    <3>1. Stop' = Stop /\ Lowering' = Lowering
      BY <2>3 DEF vars, budgetVars, cursorVars, Stop, Available, Lowering
    <3>2. Canonical' /\ AllTried'
      BY <2>3, <3>1 DEF vars, budgetVars, cursorVars, ConvergeInv, Canonical, AllTried,
             Tried, LowerValues
    <3>3. PassCovers'
      BY <2>3, <3>1 DEF vars, budgetVars, cursorVars, ConvergeInv, PassCovers, Tried,
             LowerValues
    <3> QED BY <2>1, <3>2, <3>3 DEF ConvergeInv
  <2> QED BY <2>1, <2>2, <2>3, EntryConverges DEF ConvergeInv, Next, Search
<1> QED BY <1>1, <1>2, PTL DEF Spec

\* Unless it is cut short, shrink ends at a schedule without zeros at its end, on which
\* none of the lower values lower_each tries at any position hits the finding with a
\* simpler run: the last pass went through all of them on just that schedule.
THEOREM ConvergedAlways == Spec => []Converged
<1>1. ConvergeInv => Converged
  BY DEF ConvergeInv, Canonical, AllTried, Tried, LowerValues, Converged, Widest
<1> QED BY <1>1, ConvergeInvAlways, PTL

\* The best schedule is the original or comes before it in the order of _rank.
NeverWorse == best = original \/ Simpler(best, original)

\* Whatever the search tries, in whatever phase it is cut short, and whether or not the
\* verification can be afforded, shrink returns the original or a schedule that _rank
\* puts before it.
THEOREM NeverWorseAlways == Spec => []NeverWorse
<1>1. Init => NeverWorse
  BY DEF Init, NeverWorse
<1>2. SearchInv /\ SearchInv' /\ NeverWorse /\ [Next]_vars => NeverWorse'
  <2> SUFFICES ASSUME SearchInv, SearchInv', NeverWorse, [Next]_vars PROVE NeverWorse'
    OBVIOUS
  <2>1. IsSchedule(original) /\ IsSchedule(best) /\ IsSchedule(best')
    BY DEF SearchInv, Types
  <2>2. original' = original
    BY DEF Next, Search, GuardUnaffordable, Guard, Baseline, ZeroSpan, HalveSpan, ZeroEnds,
           LowerOne, NextPosition, PassEnds, Canonicalise, Bisect, BisectEnds, LookBelow,
           BelowEnds, Unchanged, Unaffordable, Verify, TimePasses, Fixed, vars
  <2>3. \/ best' = best \/ best' = original
        \/ \E candidate : Propose(candidate)
    BY DEF Next, Search, GuardUnaffordable, Guard, Baseline, ZeroSpan, HalveSpan, ZeroEnds,
           LowerOne, NextPosition, PassEnds, Canonicalise, Bisect, BisectEnds, LookBelow,
           BelowEnds, Unchanged, Unaffordable, Verify, TimePasses, vars
  <2>4. ASSUME NEW candidate, Propose(candidate)
        PROVE  best' = best \/ Simpler(best', best)
    BY <2>4 DEF Propose, Accept
  <2>5. Simpler(best', best) /\ Simpler(best, original) => Simpler(best', original)
    BY <2>1, SimplerTransitive
  <2> QED BY <2>2, <2>3, <2>4, <2>5 DEF NeverWorse
<1> QED BY <1>1, <1>2, SearchInvAlways, PTL DEF Spec

=============================================================================
