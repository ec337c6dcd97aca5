------------------------------- MODULE Shrink -------------------------------
(***************************************************************************)
(* shrink.py: the bounded greedy search for a simpler schedule that still  *)
(* produces the pinned finding, its cache of verdicts, its budget and the  *)
(* verification of the result.                                             *)
(*                                                                         *)
(* A deterministic scenario is a tree: the choices made so far determine   *)
(* how many candidates the next step offers, whether there is a next step, *)
(* and at its end whether the run hits the finding.  The tree is unfolded  *)
(* as the search executes runs: world holds those executed.  Scenarios     *)
(* with state that outlives a trial are outside this, and so are steps     *)
(* that offer two candidates of one task, on which a replay by task goes   *)
(* astray (module Replay).                                                 *)
(***************************************************************************)
EXTENDS Integers, Sequences, FiniteSets, SequencesExt, FiniteSetsExt

CONSTANTS
    MaxLength,   \* bound: steps of a run
    Widths,      \* bound: numbers of candidates a step may offer
    MaxReplays,  \* ShrinkBudget.max_replays
    SpanLimit,   \* widest span that is zeroed (256 in the code)
    LookBack     \* prefixes tried below the boundary (8 in the code)

ASSUME ShrinkAssumption ==
    /\ MaxLength \in Nat /\ Widths \subseteq Nat \ {0} /\ IsFiniteSet(Widths)
    /\ MaxReplays \in Nat /\ SpanLimit \in Nat \ {0} /\ LookBack \in Nat

VARIABLES
    world,      \* the runs executed so far
    original,   \* decisions of the failing trial
    best,       \* best schedule so far
    before,     \* best when the pass of lower_each started
    cache,      \* _Search.cache: evidence by requested schedule
    used,       \* ShrinkBudget.replays_used
    late,       \* the wall clock has passed max_seconds
    stopped,    \* _Search.stopped
    stage,      \* what shrink is doing, see Stages
    at, limit,  \* position and end of the range being gone through
    span,       \* width of the spans being zeroed
    rung,       \* last lower value tried at this position, -1 for none
    verified    \* result: the best schedule was verified

budgetVars == <<used, late, stopped>>
cursorVars == <<at, limit, span, rung, before>>
vars == <<world, original, best, cache, budgetVars, stage, cursorVars, verified>>

Stages == {"guard", "baseline", "zero", "lower", "truncate", "bisect", "below",
           "lower again", "final", "done", "error"}

----------------------------------------------------------------------------
(* Schedules *)

Nonzero(d) == {k \in DOMAIN d : d[k] # 0}

\* Mutant: the last decision that matters is dropped too.
PrefixTooShort(d) == SubSeq(d, 1, Max(Nonzero(d) \cup {1}) - 1)

\* The canonical schedule: without the zeros at its end.
Prefix(d) == SubSeq(d, 1, Max(Nonzero(d) \cup {0}))

\* The sum of the decisions, as the number of points below the graph.
Total(d) == Cardinality(UNION {{k} \X (1..d[k]) : k \in DOMAIN d})

LexBefore(d, e) ==
    \E k \in DOMAIN d : d[k] < e[k] /\ \A j \in 1..(k - 1) : d[j] = e[j]

\* The order of _rank: deviations, sum, length, then lexicographic.
Simpler(d, e) ==
    \/ Cardinality(Nonzero(d)) < Cardinality(Nonzero(e))
    \/ /\ Cardinality(Nonzero(d)) = Cardinality(Nonzero(e))
       /\ \/ Total(d) < Total(e)
          \/ Total(d) = Total(e) /\ Len(d) < Len(e)
          \/ Total(d) = Total(e) /\ Len(d) = Len(e) /\ LexBefore(d, e)

----------------------------------------------------------------------------
(* Runs *)

Shapes == UNION {[1..n -> Widths] : n \in 0..MaxLength}

\* A positional, lenient replay: position where it is in range, zero elsewhere.
Follow(request, widths) ==
    [k \in DOMAIN widths |->
        IF k \in DOMAIN request /\ request[k] < widths[k] THEN request[k] ELSE 0]

\* Two runs are of one scenario: as long as they make the same choices they see
\* the same number of candidates, and the same run has the same verdict.
SameScenario(r, s) ==
    /\ IsPrefix(r.made, s.made) \/ IsPrefix(s.made, r.made) => r = s
    /\ \A k \in DOMAIN r.made \cap DOMAIN s.made :
          SubSeq(r.made, 1, k - 1) = SubSeq(s.made, 1, k - 1) => r.widths[k] = s.widths[k]

\* What a trial of the request may turn out to be.
RunsOf(request) ==
    {r \in {[made |-> Follow(request, w), widths |-> w, hit |-> h] :
               w \in Shapes, h \in BOOLEAN} :
        \A s \in world : SameScenario(r, s)}

\* The digest tells any two runs apart.
Evidence(run) ==
    [interesting |-> run.hit, decisions |-> Prefix(run.made), digest |-> run]

\* A strict replay diverges if a decision is out of range and leaves decisions
\* unused if the run is shorter.
Faithful(request, run) == IsPrefix(request, run.made)

\* remember: the verdict is kept for the request and for the canonical prefix of
\* what was executed, unless that has a verdict already.
Remembered(request, run) ==
    [key \in DOMAIN cache \cup {request, Prefix(run.made)} |->
        IF key = request \/ key \notin DOMAIN cache THEN Evidence(run) ELSE cache[key]]

----------------------------------------------------------------------------
(* The budget *)

\* Mutant: the limit itself may still be spent.
AvailableAtLimit(reserve) == used + reserve <= MaxReplays /\ ~late

Available(reserve) == used + reserve < MaxReplays /\ ~late

\* _stop
Stop == ~Available(0) \/ stopped

\* The wall clock is read whenever the budget is.
TimePasses ==
    /\ stage \notin {"done", "error"} /\ ~late
    /\ late' = TRUE
    /\ UNCHANGED <<world, original, best, cache, used, stopped, stage, cursorVars, verified>>

----------------------------------------------------------------------------
(* Proposals *)

\* Mutant: a proposal that hits the finding is accepted as it was requested.
AcceptRequested(candidate, evidence) ==
    best' = IF evidence.interesting /\ Simpler(candidate, best) THEN candidate ELSE best

\* _accept: the ACTUAL schedule of the proposal, if it is simpler.
Accept(candidate, evidence) ==
    best' = IF evidence.interesting /\ Simpler(evidence.decisions, best)
            THEN evidence.decisions ELSE best

\* Mutant: the search may use the replay meant for the verification.
NoReserve == 0

Reserve == 1

\* _Search.__call__ and _accept
Propose(candidate) ==
    \/ /\ candidate \in DOMAIN cache
       /\ Accept(candidate, cache[candidate])
       /\ UNCHANGED <<world, cache, used, stopped>>
    \/ /\ candidate \notin DOMAIN cache /\ ~Available(Reserve)
       /\ stopped' = TRUE
       /\ UNCHANGED <<world, cache, used, best>>
    \/ /\ candidate \notin DOMAIN cache /\ Available(Reserve)
       /\ used' = used + 1
       /\ \E run \in RunsOf(candidate) :
             /\ world' = world \cup {run}
             /\ cache' = Remembered(candidate, run)
             /\ Accept(candidate, Evidence(run))
       /\ UNCHANGED stopped

Enter(next) ==
    /\ stage' = next
    /\ at' = IF next = "below" THEN Max({0, Len(best') - LookBack}) ELSE 0
    /\ limit' = Len(best')
    /\ span' = IF next = "zero" THEN Min({Len(best'), SpanLimit}) ELSE 0
    /\ rung' = -1
    /\ before' = best'

\* Whatever proposes changes neither of these.
Fixed == UNCHANGED <<late, original, verified>>

----------------------------------------------------------------------------
(* Entry: the original must reproduce; FIFO is the baseline *)

GuardUnaffordable ==
    /\ stage = "guard" /\ ~Available(0)
    /\ stage' = "done"
    /\ UNCHANGED <<world, original, best, cache, budgetVars, cursorVars, verified>>

Guard ==
    /\ stage = "guard" /\ Available(0)
    /\ used' = used + 1
    /\ \E run \in RunsOf(original) :
          IF Faithful(original, run) /\ run \in world /\ run.hit
          THEN /\ verified' = TRUE /\ cache' = Remembered(original, run)
               /\ stage' = "baseline"
          ELSE stage' = "error" /\ UNCHANGED <<verified, cache>>
    /\ UNCHANGED <<world, original, best, late, stopped, cursorVars>>

Baseline ==
    /\ stage = "baseline"
    /\ IF Available(1)
       THEN /\ used' = used + 1
            /\ \E run \in RunsOf(<< >>) :
                  /\ world' = world \cup {run}
                  /\ cache' = Remembered(<< >>, run)
       ELSE UNCHANGED <<used, world, cache>>
    /\ UNCHANGED best /\ Enter("zero")
    /\ UNCHANGED stopped /\ Fixed

----------------------------------------------------------------------------
(* Phase A, zero_spans *)

Zeroed(d, from, width) ==
    [k \in DOMAIN d |-> IF k \in (from + 1)..(from + width) THEN 0 ELSE d[k]]

ZeroSpan ==
    /\ stage = "zero" /\ ~Stop /\ at < limit /\ span >= 1
    /\ IF Zeroed(best, at, span) # best
       THEN Propose(Zeroed(best, at, span))
       ELSE UNCHANGED <<best, world, cache, used, stopped>>
    /\ at' = at + span
    /\ UNCHANGED <<stage, limit, span, rung, before>> /\ Fixed

HalveSpan ==
    /\ stage = "zero" /\ ~Stop /\ at >= limit /\ span >= 1
    /\ span' = span \div 2
    /\ at' = 0 /\ limit' = Len(best)
    /\ UNCHANGED <<world, best, cache, used, stopped, stage, rung, before>> /\ Fixed

ZeroEnds ==
    /\ stage = "zero" /\ (Stop \/ span = 0)
    /\ UNCHANGED <<world, best, cache, used, stopped>>
    /\ Enter("lower") /\ Fixed

----------------------------------------------------------------------------
(* Phases B and D, lower_each *)

Lowering == stage \in {"lower", "lower again"}

InPass == at < limit /\ at < Len(best) /\ (rung = -1 => ~Stop)

\* Mutant: zero is left out, for zero_spans has tried it.
RungsAboveZero == LET value == best[at + 1]
                  IN {s \in {1, value \div 2, value - 1} : 1 <= s /\ s < value /\ s > rung}

\* The lower values still to try at this position.
Rungs == LET value == best[at + 1]
         IN {s \in {0, 1, value \div 2, value - 1} : 0 <= s /\ s < value /\ s > rung}

LowerOne ==
    /\ Lowering /\ InPass /\ Rungs # {}
    /\ Propose([best EXCEPT ![at + 1] = Min(Rungs)])
    /\ IF best' # best THEN at' = at + 1 /\ rung' = -1
                       ELSE rung' = Min(Rungs) /\ UNCHANGED at
    /\ UNCHANGED <<stage, limit, span, before>> /\ Fixed

NextPosition ==
    /\ Lowering /\ InPass /\ Rungs = {}
    /\ at' = at + 1 /\ rung' = -1
    /\ UNCHANGED <<world, best, cache, used, stopped, stage, limit, span, before>> /\ Fixed

\* Mutant: passes that improve nothing are repeated.
LastAtStop == Stop

\* The pass improved nothing, or may not be repeated.
LastPass == best = before \/ Stop

PassEnds ==
    /\ Lowering /\ ~InPass
    /\ UNCHANGED <<world, best, cache, used, stopped>>
    /\ Enter(IF ~LastPass THEN stage ELSE IF stage = "lower" THEN "truncate" ELSE "final")
    /\ Fixed

----------------------------------------------------------------------------
(* Phase C, truncate *)

Canonicalise ==
    /\ stage = "truncate"
    /\ IF best # << >> /\ ~Stop THEN Propose(Prefix(best))
                                ELSE UNCHANGED <<best, world, cache, used, stopped>>
    /\ Enter("bisect") /\ Fixed

Middle == (at + limit) \div 2

Bisect ==
    /\ stage = "bisect" /\ ~Stop /\ at < limit
    /\ Propose(SubSeq(best, 1, Middle))
    /\ IF best' # best THEN limit' = Len(best') /\ UNCHANGED at
                       ELSE at' = Middle + 1 /\ UNCHANGED limit
    /\ UNCHANGED <<stage, span, rung, before>> /\ Fixed

BisectEnds ==
    /\ stage = "bisect" /\ (Stop \/ at >= limit)
    /\ UNCHANGED <<world, best, cache, used, stopped>>
    /\ Enter("below") /\ Fixed

LookBelow ==
    /\ stage = "below" /\ ~Stop /\ at < limit
    /\ Propose(SubSeq(best, 1, Min({at, Len(best)})))
    /\ at' = at + 1
    /\ UNCHANGED <<stage, limit, span, rung, before>> /\ Fixed

BelowEnds ==
    /\ stage = "below" /\ (Stop \/ at >= limit)
    /\ UNCHANGED <<world, best, cache, used, stopped>>
    /\ Enter("lower again") /\ Fixed

----------------------------------------------------------------------------
(* The final verification *)

Unchanged ==
    /\ stage = "final" /\ best = original
    /\ stage' = "done"
    /\ UNCHANGED <<world, original, best, cache, budgetVars, cursorVars, verified>>

Unaffordable ==
    /\ stage = "final" /\ best # original /\ ~Available(0)
    /\ best' = original
    /\ stage' = "done"
    /\ UNCHANGED <<world, original, cache, budgetVars, cursorVars, verified>>

Verify ==
    /\ stage = "final" /\ best # original /\ Available(0)
    /\ used' = used + 1
    /\ \E run \in RunsOf(best) :
          /\ world' = world \cup {run}
          /\ stage' = IF Faithful(best, run) /\ run = cache[best].digest /\ run.hit
                      THEN "done" ELSE "error"
    /\ UNCHANGED <<original, best, cache, late, stopped, cursorVars, verified>>

----------------------------------------------------------------------------
\* The failing trial is a run of the scenario; others may have used the budget.
Init ==
    /\ \E w \in Shapes :
          /\ original \in {d \in [DOMAIN w -> 0..MaxLength + Max(Widths \cup {0})] :
                             \A k \in DOMAIN d : d[k] < w[k]}
          /\ world = {[made |-> original, widths |-> w, hit |-> TRUE]}
    /\ best = original /\ before = original /\ cache = << >>
    /\ used \in 0..MaxReplays /\ late = FALSE /\ stopped = FALSE
    /\ stage = "guard" /\ at = 0 /\ limit = 0 /\ span = 0 /\ rung = -1
    /\ verified = FALSE

Search ==
    \/ GuardUnaffordable \/ Guard \/ Baseline
    \/ ZeroSpan \/ HalveSpan \/ ZeroEnds
    \/ LowerOne \/ NextPosition \/ PassEnds
    \/ Canonicalise \/ Bisect \/ BisectEnds \/ LookBelow \/ BelowEnds
    \/ Unchanged \/ Unaffordable \/ Verify

Next == Search \/ TimePasses

\* One thread: the search goes on as long as it has a step.
Spec == Init /\ [][Next]_vars /\ WF_vars(Search)

----------------------------------------------------------------------------
(* Properties *)

\* The variables have their types, and the replays made never exceed the budget,
\* verification and guard included.
TypeOK ==
    /\ stage \in Stages /\ late \in BOOLEAN /\ stopped \in BOOLEAN /\ verified \in BOOLEAN
    /\ used \in 0..MaxReplays
    /\ \A d \in {original, best, before} : Len(d) <= MaxLength
    /\ rung \in -1..Max(Widths \cup {0}) /\ at \in Nat /\ limit \in 0..MaxLength

\* "It is safe to reuse its verdict": whatever way a schedule got its entry in the
\* cache, requested or as the canonical prefix of what another request came to, a
\* replay of that schedule is the run the entry describes.
CacheSound ==
    \A key \in DOMAIN cache :
        /\ cache[key] = Evidence(cache[key].digest)
        /\ cache[key].digest \in world
        /\ Follow(key, cache[key].digest.widths) = cache[key].digest.made

\* From the first proposal to the lookup before the verification, the best
\* schedule is the original or one that the cache holds as executed just so and as
\* hitting the finding: the lookup finds it, and no untested schedule is a result.
BestIsProven ==
    stage \notin {"guard", "baseline", "error"} /\ best # original =>
        /\ best \in DOMAIN cache
        /\ cache[best].interesting /\ cache[best].decisions = best

\* The replay reserved for the verification is there when the search is over,
\* whatever the search and its predecessors used: only the clock can take it.
ReserveKept ==
    stage = "final" /\ best # original /\ ~late => Available(0)

\* A scenario that is deterministic, as all of a world is, is never reported as
\* one that did not reproduce.
NeverAccused == stage # "error"

\* A search that was not cut short ends where no step of lower_each helps: no
\* single decision lowered to one of the values tried hits the finding with a
\* simpler run, and no zero is left at the end.
Converged ==
    stage = "final" /\ ~Stop =>
        /\ best = Prefix(best)
        /\ \A k \in DOMAIN best, s \in 0..Max(Widths \cup {0}) :
              s \in {0, 1, best[k] \div 2, best[k] - 1} /\ s < best[k] =>
                LET candidate == [best EXCEPT ![k] = s]
                IN /\ candidate \in DOMAIN cache
                   /\ cache[candidate].interesting =>
                         ~Simpler(cache[candidate].decisions, best)

\* The search comes to an end, though each pass of lower_each that improves
\* anything is followed by another.
Terminates == <>(stage \in {"done", "error"})

=============================================================================
