------------------------------- MODULE Maxima -------------------------------
(***************************************************************************)
(* The greatest of a set of integers with a bound, for the proofs that     *)
(* need it: BufferedMergerProofs and ReplayWriterProofs.                   *)
(***************************************************************************)
EXTENDS FiniteSetsExt, WellFoundedInduction, TLAPS

\* A relation that contains < has no minimal element in a set of numbers but
\* its least one.
LEMMA LeastOfRelation ==
    ASSUME NEW T, T \subseteq Nat, NEW R,
           \E x \in T : \A y \in T : ~ (<<y, x>> \in R),
           \A x, y \in Nat : y < x => <<y, x>> \in R
    PROVE  \E x \in T : \A y \in T : x <= y
<1>1. PICK x \in T : \A y \in T : ~ (<<y, x>> \in R)
  OBVIOUS
<1>2. ASSUME NEW y \in T PROVE x <= y
  <2>1. x \in Nat /\ y \in Nat
    OBVIOUS
  <2>2. ~ (y < x)
    BY <1>1, <2>1, Zenon
  <2> QED
    BY <2>1, <2>2
<1> QED
  BY <1>2

\* A set of natural numbers that is not empty has a least element.
LEMMA LeastNatural ==
    ASSUME NEW T, T \subseteq Nat, T # {}
    PROVE  \E x \in T : \A y \in T : x <= y
<1>1. \E x \in T : \A y \in T : ~ (<<y, x>> \in OpToRel(<, Nat))
  BY NatLessThanWellFounded, WFMin, Zenon
<1>2. \A x, y \in Nat : y < x => <<y, x>> \in OpToRel(<, Nat)
  BY DEF OpToRel
<1> QED
  BY <1>1, <1>2, LeastOfRelation, Zenon

\* Max of FiniteSetsExt is the greatest element of a set that has a bound: the
\* cursor of a release (redundancy/merger.rs), the id a recording resumes at and the
\* entries of its index known to be on disk (replay/writer.rs).
LEMMA BoundedMax ==
    ASSUME NEW S, NEW b \in Int, S \subseteq Int, S # {}, \A v \in S : v <= b
    PROVE  Max(S) \in S /\ \A v \in S : v <= Max(S)
<1> DEFINE T == {b - v : v \in S}
<1>1. T \subseteq Nat /\ T # {}
  OBVIOUS
<1>2. PICK x \in T : \A y \in T : x <= y
  BY <1>1, LeastNatural
<1>3. PICK m \in S : x = b - m
  BY <1>2
<1>4. ASSUME NEW v \in S PROVE v <= m
  <2>1. b - v \in T
    OBVIOUS
  <2>2. x <= b - v
    BY <1>2, <2>1
  <2> QED
    BY <1>3, <2>2
<1>5. \E z \in S : \A v \in S : z >= v
  BY <1>4
<1> QED
  BY <1>5 DEF Max

\* And Min the least: where the gaps of a release begin.
LEMMA BoundedMin ==
    ASSUME NEW S, NEW b \in Int, S \subseteq Int, S # {}, \A v \in S : b <= v
    PROVE  Min(S) \in S /\ \A v \in S : Min(S) <= v
<1> DEFINE T == {v - b : v \in S}
<1>1. T \subseteq Nat /\ T # {}
  <2>1. \A v \in S : v - b \in Nat
    OBVIOUS
  <2> QED BY <2>1
<1>2. PICK x \in T : \A y \in T : x <= y
  BY <1>1, LeastNatural
<1>3. PICK m \in S : x = m - b
  BY <1>2
<1>4. ASSUME NEW v \in S PROVE m <= v
  <2>1. v - b \in T
    OBVIOUS
  <2>2. x <= v - b
    BY <1>2, <2>1
  <2> QED
    BY <1>3, <2>2
<1>5. \E z \in S : \A v \in S : z <= v
  BY <1>4
<1> QED
  BY <1>5 DEF Min

\* The numbers from the least to the greatest of a set.
LEMMA Spanned ==
    ASSUME NEW S, NEW a \in Int, NEW b \in Int, S \subseteq a .. b, S # {}, NEW v
    PROVE  v \in Min(S) .. Max(S) <=> v \in Int /\ \E x, y \in S : x <= v /\ v <= y
<1>1. S \subseteq Int /\ \A x \in S : a <= x /\ x <= b
  OBVIOUS
<1>2. PICK lo \in Int : lo = Min(S) /\ lo \in S /\ \A x \in S : lo <= x
  BY <1>1, BoundedMin
<1>3. PICK hi \in Int : hi = Max(S) /\ hi \in S /\ \A x \in S : x <= hi
  BY <1>1, BoundedMax
<1>4. v \in lo .. hi <=> v \in Int /\ \E x, y \in S : x <= v /\ v <= y
  BY <1>1, <1>2, <1>3
<1> QED
  BY <1>2, <1>3, <1>4
=============================================================================
