---------------------------- MODULE QueueLemmas ----------------------------
(***************************************************************************)
(* Facts about queues represented as sequences without repetitions: what   *)
(* appending, concatenating and deleting by index do to their elements;    *)
(* and the least element of a set of numbers.                              *)
(***************************************************************************)
EXTENDS Integers, Sequences, SequencesExt, SequenceTheorems,
        WellFoundedInduction, TLAPS

\* Removing one position of a queue: the elements before it stay in place, the
\* others move up by one (del _ready[index]).
LEMMA RemoveAtPositions ==
    ASSUME NEW S, NEW s \in Seq(S), NEW i \in DOMAIN s
    PROVE  /\ RemoveAt(s, i) \in Seq(S)
           /\ Len(RemoveAt(s, i)) = Len(s) - 1
           /\ \A j \in 1..(Len(s) - 1) :
                  RemoveAt(s, i)[j] = IF j < i THEN s[j] ELSE s[j + 1]
<1> DEFINE left == SubSeq(s, 1, i - 1)
           right == SubSeq(s, i + 1, Len(s))
<1>1. /\ Len(s) \in Nat /\ i \in 1..Len(s)
      /\ \A j \in 1..Len(s) : s[j] \in S
  BY LenProperties, ElementOfSeq
<1>2. /\ left \in Seq(S) /\ Len(left) = i - 1
      /\ \A j \in 1..(i - 1) : left[j] = s[j]
  <2>1. \A j \in 1..(i - 1) : s[j] \in S
    BY <1>1
  <2>2. /\ SubSeq(s, 1, i - 1) \in Seq(S)
        /\ Len(SubSeq(s, 1, i - 1)) = IF 1 <= i - 1 THEN i - 1 - 1 + 1 ELSE 0
        /\ \A j \in 1..(i - 1 - 1 + 1) : SubSeq(s, 1, i - 1)[j] = s[1 + j - 1]
    BY <1>1, <2>1, SubSeqProperties
  <2> QED BY <1>1, <2>2
<1>3. /\ right \in Seq(S) /\ Len(right) = Len(s) - i
      /\ \A j \in 1..(Len(s) - i) : right[j] = s[i + j]
  <2>1. \A j \in (i + 1)..Len(s) : s[j] \in S
    BY <1>1
  <2>2. /\ SubSeq(s, i + 1, Len(s)) \in Seq(S)
        /\ Len(SubSeq(s, i + 1, Len(s)))
               = IF i + 1 <= Len(s) THEN Len(s) - (i + 1) + 1 ELSE 0
        /\ \A j \in 1..(Len(s) - (i + 1) + 1) :
               SubSeq(s, i + 1, Len(s))[j] = s[i + 1 + j - 1]
    BY <1>1, <2>1, SubSeqProperties
  <2> QED BY <1>1, <2>2
<1>4. /\ left \o right \in Seq(S)
      /\ Len(left \o right) = Len(left) + Len(right)
      /\ \A j \in 1..(Len(left) + Len(right)) : (left \o right)[j] =
             IF j <= Len(left) THEN left[j] ELSE right[j - Len(left)]
  BY <1>2, <1>3, ConcatProperties
<1>5. RemoveAt(s, i) = left \o right
  BY DEF RemoveAt
<1> HIDE DEF left, right
<1>6. ASSUME NEW j \in 1..(Len(s) - 1)
      PROVE  (left \o right)[j] = IF j < i THEN s[j] ELSE s[j + 1]
  <2>1. CASE j < i
    BY <1>1, <1>2, <1>3, <1>4, <2>1
  <2>2. CASE j >= i
    <3>1. (left \o right)[j] = right[j - (i - 1)]
      <4>1. j \in 1..(Len(left) + Len(right)) /\ ~(j <= Len(left))
        BY <1>1, <1>2, <1>3, <2>2
      <4>2. (left \o right)[j] = right[j - Len(left)]
        BY <1>4, <4>1
      <4> QED BY <1>2, <4>2
    <3>2. j - (i - 1) \in 1..(Len(s) - i) /\ i + (j - (i - 1)) = j + 1
      BY <1>1, <2>2
    <3>3. right[j - (i - 1)] = s[i + (j - (i - 1))]
      BY <1>3, <3>2
    <3>4. ~(j < i)
      BY <1>1, <2>2
    <3> QED BY <3>1, <3>2, <3>3, <3>4
  <2>3. j < i \/ j >= i
    BY <1>1
  <2> QED BY <2>1, <2>2, <2>3
<1>7. Len(left \o right) = Len(s) - 1
  BY <1>1, <1>2, <1>3, <1>4
<1> QED BY <1>4, <1>5, <1>6, <1>7

\* A queue without repetitions loses exactly the element removed.
LEMMA RemoveAtElements ==
    ASSUME NEW S, NEW s \in Seq(S), NEW i \in DOMAIN s,
           \A j, k \in DOMAIN s : s[j] = s[k] => j = k
    PROVE  /\ RemoveAt(s, i) \in Seq(S)
           /\ ToSet(RemoveAt(s, i)) = ToSet(s) \ {s[i]}
           /\ \A j, k \in DOMAIN RemoveAt(s, i) :
                  RemoveAt(s, i)[j] = RemoveAt(s, i)[k] => j = k
<1> DEFINE r == RemoveAt(s, i)
<1>1. /\ r \in Seq(S) /\ Len(r) = Len(s) - 1
      /\ \A j \in 1..(Len(s) - 1) : r[j] = IF j < i THEN s[j] ELSE s[j + 1]
  BY RemoveAtPositions
<1>2. /\ DOMAIN s = 1..Len(s) /\ Len(s) \in Nat
      /\ DOMAIN r = 1..(Len(s) - 1)
  BY <1>1, LenProperties
<1> HIDE DEF r
<1>3. \A j, k \in DOMAIN r : r[j] = r[k] => j = k
  BY <1>1, <1>2
<1>4. ToSet(r) \subseteq ToSet(s) \ {s[i]}
  BY <1>1, <1>2 DEF ToSet
<1>5. ASSUME NEW x \in ToSet(s) \ {s[i]} PROVE x \in ToSet(r)
  <2>1. PICK j \in DOMAIN s : s[j] = x /\ j # i
    BY DEF ToSet
  <2>2. CASE j < i
    BY <1>1, <1>2, <2>1, <2>2 DEF ToSet
  <2>3. CASE j > i
    <3>1. j - 1 \in DOMAIN r /\ r[j - 1] = s[j]
      BY <1>1, <1>2, <2>1, <2>3
    <3> QED BY <2>1, <3>1 DEF ToSet
  <2> QED BY <1>2, <2>1, <2>2, <2>3
<1> QED BY <1>1, <1>3, <1>4, <1>5 DEF r

\* Appending a new element to a queue without repetitions.
LEMMA AppendElements ==
    ASSUME NEW S, NEW s \in Seq(S), NEW x \in S
    PROVE  /\ Append(s, x) \in Seq(S)
           /\ ToSet(Append(s, x)) = ToSet(s) \cup {x}
           /\ (/\ x \notin ToSet(s)
               /\ \A j, k \in DOMAIN s : s[j] = s[k] => j = k) =>
                  \A j, k \in DOMAIN Append(s, x) :
                      Append(s, x)[j] = Append(s, x)[k] => j = k
<1> DEFINE a == Append(s, x)
<1>1. /\ a \in Seq(S) /\ Len(a) = Len(s) + 1
      /\ \A j \in 1..Len(s) : a[j] = s[j]
      /\ a[Len(s) + 1] = x
  BY AppendProperties
<1>2. /\ DOMAIN s = 1..Len(s) /\ Len(s) \in Nat
      /\ DOMAIN a = 1..(Len(s) + 1)
  BY <1>1, LenProperties
<1> HIDE DEF a
<1>3. ToSet(a) = ToSet(s) \cup {x}
  BY <1>1, <1>2 DEF ToSet
<1>4. ASSUME x \notin ToSet(s), \A j, k \in DOMAIN s : s[j] = s[k] => j = k
      PROVE  \A j, k \in DOMAIN a : a[j] = a[k] => j = k
  BY <1>1, <1>2, <1>4 DEF ToSet
<1> QED BY <1>1, <1>3, <1>4 DEF a

\* Concatenating two queues without repetitions that have nothing in common.
LEMMA ConcatElements ==
    ASSUME NEW S, NEW s \in Seq(S), NEW t \in Seq(S)
    PROVE  /\ s \o t \in Seq(S)
           /\ ToSet(s \o t) = ToSet(s) \cup ToSet(t)
           /\ (/\ ToSet(s) \cap ToSet(t) = {}
               /\ \A j, k \in DOMAIN s : s[j] = s[k] => j = k
               /\ \A j, k \in DOMAIN t : t[j] = t[k] => j = k) =>
                  \A j, k \in DOMAIN (s \o t) : (s \o t)[j] = (s \o t)[k] => j = k
<1> DEFINE c == s \o t
<1>1. /\ c \in Seq(S) /\ Len(c) = Len(s) + Len(t)
      /\ \A j \in 1..(Len(s) + Len(t)) :
             c[j] = IF j <= Len(s) THEN s[j] ELSE t[j - Len(s)]
  BY ConcatProperties
<1>2. /\ DOMAIN s = 1..Len(s) /\ Len(s) \in Nat
      /\ DOMAIN t = 1..Len(t) /\ Len(t) \in Nat
      /\ DOMAIN c = 1..(Len(s) + Len(t))
  BY <1>1, LenProperties
<1> HIDE DEF c
<1>3. ToSet(c) \subseteq ToSet(s) \cup ToSet(t)
  <2> SUFFICES ASSUME NEW j \in DOMAIN c PROVE c[j] \in ToSet(s) \cup ToSet(t)
    BY DEF ToSet
  <2>1. CASE j <= Len(s)
    BY <1>1, <1>2, <2>1 DEF ToSet
  <2>2. CASE j > Len(s)
    <3>1. j - Len(s) \in DOMAIN t /\ c[j] = t[j - Len(s)]
      BY <1>1, <1>2, <2>2
    <3> QED BY <3>1 DEF ToSet
  <2> QED BY <1>2, <2>1, <2>2
<1>4. ToSet(s) \subseteq ToSet(c)
  BY <1>1, <1>2 DEF ToSet
<1>5. ASSUME NEW j \in DOMAIN t PROVE t[j] \in ToSet(c)
  <2>1. Len(s) + j \in DOMAIN c /\ c[Len(s) + j] = t[j]
    BY <1>1, <1>2
  <2> QED BY <2>1 DEF ToSet
<1>6. ASSUME ToSet(s) \cap ToSet(t) = {},
             \A j, k \in DOMAIN s : s[j] = s[k] => j = k,
             \A j, k \in DOMAIN t : t[j] = t[k] => j = k,
             NEW j \in DOMAIN c, NEW k \in DOMAIN c, c[j] = c[k]
      PROVE  j = k
  <2>1. CASE j <= Len(s) /\ k <= Len(s)
    BY <1>1, <1>2, <1>6, <2>1
  <2>2. CASE j > Len(s) /\ k > Len(s)
    <3>1. /\ j - Len(s) \in DOMAIN t /\ c[j] = t[j - Len(s)]
          /\ k - Len(s) \in DOMAIN t /\ c[k] = t[k - Len(s)]
      BY <1>1, <1>2, <2>2
    <3>2. j - Len(s) = k - Len(s)
      BY <1>6, <3>1
    <3> QED BY <1>2, <3>2
  <2>3. CASE j <= Len(s) /\ k > Len(s)
    <3>1. c[j] \in ToSet(s)
      BY <1>1, <1>2, <2>3 DEF ToSet
    <3>2. k - Len(s) \in DOMAIN t /\ c[k] = t[k - Len(s)]
      BY <1>1, <1>2, <2>3
    <3>3. c[k] \in ToSet(t)
      BY <3>2 DEF ToSet
    <3> QED BY <1>6, <3>1, <3>3
  <2>4. CASE j > Len(s) /\ k <= Len(s)
    <3>1. c[k] \in ToSet(s)
      BY <1>1, <1>2, <2>4 DEF ToSet
    <3>2. j - Len(s) \in DOMAIN t /\ c[j] = t[j - Len(s)]
      BY <1>1, <1>2, <2>4
    <3>3. c[j] \in ToSet(t)
      BY <3>2 DEF ToSet
    <3> QED BY <1>6, <3>1, <3>3
  <2> QED BY <1>2, <2>1, <2>2, <2>3, <2>4
<1>7. ToSet(c) = ToSet(s) \cup ToSet(t)
  BY <1>3, <1>4, <1>5 DEF ToSet
<1> QED BY <1>1, <1>6, <1>7 DEF c

\* A nonempty set of natural numbers has a least element.
LEMMA LeastNat ==
    ASSUME NEW T, T \subseteq Nat, T # {}
    PROVE  \E x \in T : \A y \in T : x <= y
<1>1. PICK x \in T : \A y \in T : ~(<<y, x>> \in OpToRel(<, Nat))
  BY NatLessThanWellFounded, WFMin
<1>2. \A y \in T : ~(y < x)
  BY <1>1 DEF OpToRel
<1> QED BY <1>2

=============================================================================
