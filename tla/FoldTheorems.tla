--------------------------- MODULE FoldTheorems ---------------------------
(***************************************************************************)
(* Facts that the proofs about several parts need.  A theorem cannot take  *)
(* an operator for a parameter here, so induction is stated with the set   *)
(* of the values for which something holds.                                *)
(***************************************************************************)
EXTENDS Naturals, FiniteSets, FiniteSetsExt, FiniteSetTheorems,
  NaturalsInduction, WellFoundedInduction, TLAPS

\* The induction that the set of the good numbers is all of them.
LEMMA SetOfNaturals ==
  ASSUME NEW Good, 0 \in Good, \A n \in Nat : n \in Good => n + 1 \in Good
  PROVE  Nat \subseteq Good
<1> SUFFICES ASSUME Nat \ Good # {} PROVE FALSE
  OBVIOUS
<1>1. PICK n \in Nat \ Good : \A m \in Nat \ Good : <<m, n>> \notin OpToRel(<, Nat)
  BY NatLessThanWellFounded, WFMin
<1>2. n # 0 /\ n - 1 \in Nat /\ n - 1 < n
  OBVIOUS
<1>3. n - 1 \in Good
  BY <1>1, <1>2 DEF OpToRel
<1>4. (n - 1) + 1 \in Good /\ (n - 1) + 1 = n
  BY <1>2, <1>3
<1> QED BY <1>4

\* The same for the subsets of a finite set.
LEMMA SetOfSubsets ==
  ASSUME NEW S, IsFiniteSet(S), NEW Good,
         \A s \in SUBSET S : (\A x \in s : s \ {x} \in Good) => s \in Good
  PROVE  SUBSET S \subseteq Good
<1> SUFFICES ASSUME (SUBSET S) \ Good # {} PROVE FALSE
  OBVIOUS
<1>1. SUBSET S \subseteq FiniteSubsetsOf(S)
  BY FS_Subset DEF FiniteSubsetsOf
<1>2. PICK s \in (SUBSET S) \ Good :
        \A t \in (SUBSET S) \ Good : <<t, s>> \notin StrictSubsetOrdering(S)
  BY <1>1, FS_StrictSubsetOrderingWellFounded, WFMin
<1>3. ASSUME NEW x \in s PROVE s \ {x} \in Good
  <2>1. <<s \ {x}, s>> \in StrictSubsetOrdering(S)
    BY DEF StrictSubsetOrdering
  <2> QED BY <1>2, <2>1
<1> QED BY <1>2, <1>3

\* A fold that takes the elements of a set as `ch` chooses them has a value for
\* each subset: the function that MapThenFoldSet defines by recursion exists.
FoldsBy(g, S, ch, base, h) ==
  g = [s \in SUBSET S |-> IF s = {} THEN base ELSE h[<<ch[s], g[s \ {ch[s]}]>>]]

\* Such a function exists for every finite set.
LEMMA FoldExists ==
  ASSUME NEW S, IsFiniteSet(S), NEW ch, \A s \in (SUBSET S) \ {{}} : ch[s] \in s,
         NEW base, NEW h
  PROVE  \E g : FoldsBy(g, S, ch, base, h)
<1> DEFINE Small(n) == {s \in SUBSET S : Cardinality(s) <= n}
           Step(g, s) == IF s = {} THEN base ELSE h[<<ch[s], g[s \ {ch[s]}]>>]
           Up(n) == \E g : g = [s \in Small(n) |-> Step(g, s)]
           Good == {n \in Nat : Up(n)}
<1>0. \A s \in SUBSET S : /\ IsFiniteSet(s) /\ Cardinality(s) \in Nat
                          /\ Cardinality(s) = 0 <=> s = {}
  BY FS_Subset, FS_CardinalityType, FS_EmptySet
<1>a. ASSUME NEW s \in SUBSET S, s # {}
      PROVE  /\ s \ {ch[s]} \in SUBSET S
             /\ Cardinality(s \ {ch[s]}) = Cardinality(s) - 1
  BY <1>0, <1>a, FS_RemoveElement
<1>1. 0 \in Good
  <2> DEFINE g == [s \in Small(0) |-> base]
  <2>1. Small(0) = {{}}
    BY <1>0
  <2> HIDE DEF Small
  <2>2. g = [s \in Small(0) |-> Step(g, s)]
    BY <2>1
  <2> QED BY <2>2
<1>2. ASSUME NEW n \in Nat, n \in Good PROVE n + 1 \in Good
  <2>1. PICK f : f = [s \in Small(n) |-> Step(f, s)]
    BY <1>2
  <2> DEFINE g == [s \in Small(n + 1) |-> Step(f, s)]
  <2>2. ASSUME NEW s \in Small(n + 1), s # {}
        PROVE  g[s \ {ch[s]}] = f[s \ {ch[s]}]
    <3>1. s \ {ch[s]} \in Small(n) /\ s \ {ch[s]} \in Small(n + 1)
      BY <1>0, <1>a, <2>2
    <3> HIDE DEF Small
    <3>2. f[s \ {ch[s]}] = Step(f, s \ {ch[s]})
      BY <2>1, <3>1
    <3>3. g[s \ {ch[s]}] = Step(f, s \ {ch[s]})
      BY <3>1
    <3> QED BY <3>2, <3>3
  <2>3. ASSUME NEW s \in Small(n + 1) PROVE Step(g, s) = Step(f, s)
    <3> HIDE DEF Small, g
    <3> QED BY <2>2
  <2>4. g = [s \in Small(n + 1) |-> Step(g, s)]
    <3>1. \A s \in Small(n + 1) : Step(g, s) = Step(f, s)
      BY <2>3
    <3>2. g = [s \in Small(n + 1) |-> Step(f, s)]
      OBVIOUS
    <3> HIDE DEF Step, Small, g
    <3> QED BY <3>1, <3>2
  <2>5. Up(n + 1)
    BY <2>4
  <2> HIDE DEF Up
  <2> QED BY <2>5
<1>3. Cardinality(S) \in Good
  <2> HIDE DEF Good
  <2> QED BY <1>1, <1>2, SetOfNaturals, FS_CardinalityType
<1>4. Small(Cardinality(S)) = SUBSET S
  BY FS_Subset
<1>5. PICK g : g = [s \in Small(Cardinality(S)) |-> Step(g, s)]
  BY <1>3
<1>6. g = [s \in SUBSET S |-> Step(g, s)]
  <2> HIDE DEF Small, Step
  <2> QED BY <1>4, <1>5
<1> QED BY <1>6 DEF FoldsBy

\* A fold from the left takes the largest index of those it has to do first.
LEMMA MaxIsMember ==
  ASSUME NEW n \in Nat, NEW S \in SUBSET (1..n), S # {}
  PROVE  Max(S) \in S
<1> DEFINE Good == {k \in Nat : \A T \in SUBSET (1..k) : T # {} => \E x \in T : \A y \in T : x >= y}
<1>1. 0 \in Good
  <2>1. 1..0 = {}
    OBVIOUS
  <2> QED BY <2>1
<1>2. ASSUME NEW k \in Nat, k \in Good PROVE k + 1 \in Good
  <2>1. ASSUME NEW T \in SUBSET (1..(k + 1)), T # {}
        PROVE  \E x \in T : \A y \in T : x >= y
    <3>1. CASE k + 1 \in T
      BY <3>1
    <3>2. CASE k + 1 \notin T
      <4>1. T \in SUBSET (1..k)
        BY <3>2
      <4> QED BY <1>2, <2>1, <4>1
    <3> QED BY <3>1, <3>2
  <2> QED BY <2>1
<1>3. n \in Good
  <2> HIDE DEF Good
  <2> QED BY <1>1, <1>2, SetOfNaturals
<1>4. \E x \in S : \A y \in S : x >= y
  BY <1>3
<1> QED BY <1>4 DEF Max

\* The sets that a fold from the left goes through.
LEMMA LeftSteps ==
  /\ 1..0 = {}
  /\ \A k \in Nat : /\ 1..(k + 1) # {} /\ Max(1..(k + 1)) = k + 1
                   /\ (1..(k + 1)) \ {k + 1} = 1..k
<1>1. ASSUME NEW k \in Nat PROVE Max(1..(k + 1)) = k + 1
  <2>1. k + 1 \in 1..(k + 1) /\ \A y \in 1..(k + 1) : k + 1 >= y
    OBVIOUS
  <2>2. \A x \in 1..(k + 1) : x >= k + 1 => x = k + 1
    OBVIOUS
  <2>3. Max(1..(k + 1)) \in 1..(k + 1) /\ Max(1..(k + 1)) >= k + 1
    BY <2>1 DEF Max
  <2> QED BY <2>2, <2>3
<1>2. 1..0 = {}
  OBVIOUS
<1>3. ASSUME NEW k \in Nat PROVE k + 1 \in 1..(k + 1) /\ (1..(k + 1)) \ {k + 1} = 1..k
  <2>1. \A i \in Int : (i \in 1..(k + 1) /\ i # k + 1) <=> i \in 1..k
    OBVIOUS
  <2> QED BY <2>1
<1> QED BY <1>1, <1>2, <1>3

\* The values of a fold from the left whose steps stay in a set.
FoldsLeftBy(g, n, A, base, h) ==
  /\ g = [S \in SUBSET (1..n) |-> g[S]]
  /\ g[{}] = base /\ \A S \in SUBSET (1..n) : g[S] \in A
  /\ \A S \in (SUBSET (1..n)) \ {{}} : g[S] = h[<<Max(S), g[S \ {Max(S)}]>>]

\* They exist, and stay in the set.
LEMMA LeftFoldExists ==
  ASSUME NEW A, NEW base \in A, NEW n \in Nat, NEW h, \A i \in 1..n, a \in A : h[<<i, a>>] \in A
  PROVE  \E g : FoldsLeftBy(g, n, A, base, h)
<1> DEFINE ch == [S \in SUBSET (1..n) |-> Max(S)]
<1>1. \A S \in (SUBSET (1..n)) \ {{}} : ch[S] \in S /\ ch[S] = Max(S)
  BY MaxIsMember
<1>2. IsFiniteSet(1..n)
  BY FS_Interval
<1> HIDE DEF ch
<1>3. PICK g : FoldsBy(g, 1..n, ch, base, h)
  BY <1>1, <1>2, FoldExists
<1>4. g = [S \in SUBSET (1..n) |-> g[S]] /\ g[{}] = base
  BY <1>3 DEF FoldsBy
<1>5. \A S \in (SUBSET (1..n)) \ {{}} : g[S] = h[<<Max(S), g[S \ {Max(S)}]>>]
  BY <1>1, <1>3 DEF FoldsBy
<1> DEFINE Good == {S \in SUBSET (1..n) : g[S] \in A}
<1>6. ASSUME NEW S \in SUBSET (1..n), \A x \in S : S \ {x} \in Good PROVE S \in Good
  <2>1. CASE S = {}
    BY <1>4, <2>1
  <2>2. CASE S # {}
    <3>1. Max(S) \in S
      BY <2>2, MaxIsMember
    <3>2. Max(S) \in 1..n /\ g[S \ {Max(S)}] \in A
      BY <1>6, <3>1
    <3>3. g[S] \in A
      BY <1>5, <2>2, <3>2
    <3> QED BY <3>3
  <2> QED BY <2>1, <2>2
<1>7. SUBSET (1..n) \subseteq Good
  <2> HIDE DEF Good
  <2> QED BY <1>2, <1>6, SetOfSubsets
<1> QED BY <1>4, <1>5, <1>7 DEF FoldsLeftBy
=============================================================================
