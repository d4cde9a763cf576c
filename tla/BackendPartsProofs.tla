------------------------ MODULE BackendPartsProofs ------------------------
(***************************************************************************)
(* Proofs about the backend's parts beside the issuance and the claims:    *)
(* the hosted transport and the served copies, for every number of         *)
(* processes, merchants, requests and calls.                               *)
(***************************************************************************)
EXTENDS HostedTransport, ServedCopies, SequenceTheorems, FunctionTheorems,
  FoldTheorems

-----------------------------------------------------------------------------
(***************************************************************************)
(* HostedTransport.  That what is recorded is held by someone is not       *)
(* inductive alone: a list is merged from what was recorded when the state *)
(* was found, so what is merged has to be held as well, and a batch has to *)
(* be empty when it takes over what was read.                              *)
(***************************************************************************)
\* Records of a read of a merchant's transfers.
Readings == [at : {"idle", "asking", "found", "saving", "done"},
             page : Seq(Hashes), merged : Seq(Hashes), events : Seq(Hashes)]
\* Where a read has no events.
HoldsNone == {"idle", "asking", "found"}
\* Hashes that are in the queue or that a process is about to add.
Held == added \cup UNION {AboutToAdd(p) : p \in Pollers}

\* The types.
HostedShapeOK ==
  /\ paidTo \in [Shops -> Nat] /\ \A m \in Shops : paidTo[m] <= Len(TxHashOf[m])
  /\ seenTxHashes \in [Shops -> Seq(Hashes)]
  /\ reading \in [Pollers -> [Shops -> Readings]]
  /\ polling \in [Pollers -> {"idle", "reading", "rejected", "adding"}]
  /\ toAdd \in [Pollers -> Seq(Hashes)] /\ added \subseteq Hashes
  /\ losses \in 0..MaxLosses

\* Without a loss no poll is rejected and no batch dropped.
NoneDropped ==
  \A p \in Pollers :
    /\ polling[p] # "rejected" /\ (polling[p] # "adding" => toAdd[p] = <<>>)
    /\ \A m \in Shops : reading[p][m].at \in HoldsNone => reading[p][m].events = <<>>

\* What is recorded, or about to be, is held by someone.
RecordedIsHeld ==
  /\ \A m \in Shops : ToSet(seenTxHashes[m]) \subseteq Held
  /\ \A p \in Pollers, m \in Shops : ToSet(reading[p][m].merged) \subseteq Held

\* The inductive invariant.
HostedInv ==
  /\ HostedShapeOK
  /\ losses = 0 => NoneDropped /\ RecordedIsHeld

-----------------------------------------------------------------------------
\* Sequences of hashes.
LEMMA ToSetMembers ==
  ASSUME NEW S, NEW s \in Seq(S)
  PROVE  /\ ToSet(s) \subseteq S
         /\ \A x : x \in ToSet(s) <=> \E i \in 1..Len(s) : s[i] = x
BY LenProperties, ElementOfSeq DEF ToSet

\* An empty sequence has no elements,
LEMMA ToSetEmpty == ToSet(<<>>) = {}
BY DEF ToSet

\* two have the elements of both,
LEMMA ToSetConcat ==
  ASSUME NEW S, NEW s \in Seq(S), NEW t \in Seq(S)
  PROVE  s \o t \in Seq(S) /\ ToSet(s \o t) = ToSet(s) \cup ToSet(t)
<1>1. /\ s \o t \in Seq(S) /\ Len(s \o t) = Len(s) + Len(t) /\ Len(s) \in Nat /\ Len(t) \in Nat
      /\ \A i \in 1..(Len(s) + Len(t)) : (s \o t)[i] = IF i <= Len(s) THEN s[i] ELSE t[i - Len(s)]
  BY ConcatProperties, LenProperties
<1>2. ASSUME NEW x \in ToSet(s \o t) PROVE x \in ToSet(s) \cup ToSet(t)
  <2>1. PICK i \in 1..(Len(s) + Len(t)) : (s \o t)[i] = x
    BY <1>1, <1>2, ToSetMembers
  <2>2. i <= Len(s) => i \in 1..Len(s) /\ x = s[i]
    BY <1>1, <2>1
  <2>3. ~(i <= Len(s)) => i - Len(s) \in 1..Len(t) /\ x = t[i - Len(s)]
    BY <1>1, <2>1
  <2> QED BY <2>2, <2>3, ToSetMembers
<1>3. ASSUME NEW x \in ToSet(s) PROVE x \in ToSet(s \o t)
  <2>1. PICK i \in 1..Len(s) : s[i] = x
    BY <1>3, ToSetMembers
  <2>2. i \in 1..(Len(s) + Len(t)) /\ (s \o t)[i] = x
    BY <1>1, <2>1
  <2> QED BY <1>1, <2>2, ToSetMembers
<1>4. ASSUME NEW x \in ToSet(t) PROVE x \in ToSet(s \o t)
  <2>1. PICK i \in 1..Len(t) : t[i] = x
    BY <1>4, ToSetMembers
  <2>2. /\ Len(s) + i \in 1..(Len(s) + Len(t)) /\ ~(Len(s) + i <= Len(s))
        /\ (Len(s) + i) - Len(s) = i
    BY <1>1
  <2>3. (s \o t)[Len(s) + i] = x
    BY <1>1, <2>1, <2>2
  <2> QED BY <1>1, <2>2, <2>3, ToSetMembers
<1> QED BY <1>1, <1>2, <1>3, <1>4

\* one more has one more,
LEMMA ToSetAppend ==
  ASSUME NEW S, NEW s \in Seq(S), NEW x \in S
  PROVE  Append(s, x) \in Seq(S) /\ ToSet(Append(s, x)) = ToSet(s) \cup {x}
<1>1. /\ Append(s, x) \in Seq(S) /\ Len(Append(s, x)) = Len(s) + 1 /\ Len(s) \in Nat
      /\ \A i \in 1..Len(s) : Append(s, x)[i] = s[i]
      /\ Append(s, x)[Len(s) + 1] = x
  BY AppendProperties, LenProperties
<1>2. \A i \in 1..(Len(s) + 1) : i \in 1..Len(s) \/ i = Len(s) + 1
  BY <1>1
<1>3. \A i \in 1..Len(s) : i \in 1..(Len(s) + 1)
  BY <1>1
<1>4. Len(s) + 1 \in 1..(Len(s) + 1)
  BY <1>1
<1> DEFINE more == Append(s, x)
<1>5. more \in Seq(S) /\ Len(more) = Len(s) + 1
  BY <1>1
<1>6. \A y : y \in ToSet(s) <=> \E i \in 1..Len(s) : s[i] = y
  BY ToSetMembers
<1>8. more[Len(s) + 1] = x /\ \A i \in 1..Len(s) : more[i] = s[i]
  BY <1>1
<1> HIDE DEF more
<1>9. \A y : y \in ToSet(more) <=> \E i \in 1..(Len(s) + 1) : more[i] = y
  BY <1>5, ToSetMembers
<1>7. \A y : y \in ToSet(more) <=> y \in ToSet(s) \cup {x}
  BY <1>2, <1>3, <1>4, <1>6, <1>8, <1>9
<1> QED BY <1>1, <1>7 DEF more

\* a part has some,
LEMMA ToSetSubSeq ==
  ASSUME NEW S, NEW s \in Seq(S), NEW a \in Nat \ {0}, NEW b \in Nat, b <= Len(s)
  PROVE  SubSeq(s, a, b) \in Seq(S) /\ ToSet(SubSeq(s, a, b)) \subseteq ToSet(s)
<1>0. Len(s) \in Nat
  BY LenProperties
<1>1. \A i \in a..b : i \in 1..Len(s) /\ s[i] \in S
  BY <1>0, ElementOfSeq
<1>2. /\ SubSeq(s, a, b) \in Seq(S) /\ Len(SubSeq(s, a, b)) = IF a <= b THEN b - a + 1 ELSE 0
      /\ \A i \in 1..(b - a + 1) : SubSeq(s, a, b)[i] = s[a + i - 1]
  BY <1>1, SubSeqProperties
<1>3. ASSUME NEW x \in ToSet(SubSeq(s, a, b)) PROVE x \in ToSet(s)
  <2>1. PICK i \in 1..Len(SubSeq(s, a, b)) : SubSeq(s, a, b)[i] = x
    BY <1>2, <1>3, ToSetMembers
  <2>2. i \in 1..(b - a + 1) /\ a + i - 1 \in a..b
    BY <1>2
  <2> QED BY <1>1, <1>2, <2>1, <2>2, ToSetMembers
<1> QED BY <1>2, <1>3

\* and so has the end.
LEMMA ToSetLastN ==
  ASSUME NEW S, NEW s \in Seq(S), NEW n \in Nat
  PROVE  LastN(s, n) \in Seq(S) /\ ToSet(LastN(s, n)) \subseteq ToSet(s)
<1> DEFINE a == IF Len(s) > n THEN Len(s) - n + 1 ELSE 1
<1>1. Len(s) \in Nat /\ a \in Nat \ {0}
  BY LenProperties
<1>2. LastN(s, n) = SubSeq(s, a, Len(s))
  BY DEF LastN
<1> HIDE DEF a
<1> QED BY <1>1, <1>2, ToSetSubSeq

\* A page turned round is a page.
LEMMA ReverseIsSeq == ASSUME NEW S, NEW s \in Seq(S) PROVE Reverse(s) \in Seq(S)
<1>1. Len(s) \in Nat
  BY LenProperties
<1>2. \A i \in 1..Len(s) : (Len(s) - i) + 1 \in 1..Len(s)
  BY <1>1
<1>3. \A i \in 1..Len(s) : s[(Len(s) - i) + 1] \in S
  BY <1>2, ElementOfSeq
<1> DEFINE r == [i \in 1..Len(s) |-> s[(Len(s) - i) + 1]]
<1>4. r \in [1..Len(s) -> S]
  BY <1>3
<1> HIDE DEF r
<1>5. r \in Seq(S)
  BY <1>1, <1>4
<1> QED BY <1>5 DEF r, Reverse

-----------------------------------------------------------------------------
\* The folds of the model: what each of them has taken after k elements.
EventsBy(g, page, seen) ==
  g = [S \in SUBSET DOMAIN page |->
        IF S = {} THEN <<>>
        ELSE LET i == Max(S)
             IN IF IsNewEvent(page[i], seen) THEN Append(g[S \ {i}], page[i]) ELSE g[S \ {i}]]

\* The function that the fold of NewHashes defines by recursion exists.
LEMMA EventsExist == ASSUME NEW page \in Seq(Hashes), NEW seen PROVE \E g : EventsBy(g, page, seen)
<1> DEFINE n == Len(page)
           Step(i, a) == IF IsNewEvent(page[i], seen) THEN Append(a, page[i]) ELSE a
           h == [q \in (1..n) \X Seq(Hashes) |-> Step(q[1], q[2])]
<1>1. n \in Nat /\ DOMAIN page = 1..n /\ \A i \in 1..n : page[i] \in Hashes
  BY LenProperties, ElementOfSeq
<1>2. <<>> \in Seq(Hashes)
  BY EmptySeq
<1> HIDE DEF n
<1>3. \A i \in 1..n, a \in Seq(Hashes) : h[<<i, a>>] = Step(i, a) /\ Step(i, a) \in Seq(Hashes)
  BY <1>1, AppendProperties
<1> HIDE DEF h, Step
<1>3a. PICK g : FoldsLeftBy(g, n, Seq(Hashes), <<>>, h)
  BY <1>1, <1>2, <1>3, LeftFoldExists
<1>4. /\ g = [S \in SUBSET (1..n) |-> g[S]]
      /\ g[{}] = <<>> /\ \A S \in SUBSET (1..n) : g[S] \in Seq(Hashes)
      /\ \A S \in (SUBSET (1..n)) \ {{}} : g[S] = h[<<Max(S), g[S \ {Max(S)}]>>]
  BY <1>3a DEF FoldsLeftBy
<1>5. ASSUME NEW S \in SUBSET (1..n), S # {} PROVE g[S] = Step(Max(S), g[S \ {Max(S)}])
  <2>1. Max(S) \in 1..n
    BY <1>1, <1>5, MaxIsMember
  <2> QED BY <1>3, <1>4, <1>5, <2>1
<1> DEFINE f == [S \in SUBSET (1..n) |-> IF S = {} THEN <<>> ELSE Step(Max(S), g[S \ {Max(S)}])]
<1>6. \A S \in SUBSET (1..n) : f[S] = g[S]
  BY <1>4, <1>5
<1>7. f = [S \in SUBSET (1..n) |-> f[S]]
  OBVIOUS
<1>8. g = f
  <2> HIDE DEF f
  <2> QED BY <1>4, <1>6, <1>7
<1> QED BY <1>1, <1>8 DEF EventsBy, Step

\* New hashes are a sequence of hashes.
LEMMA NewHashesAreSeq ==
  ASSUME NEW page \in Seq(Hashes), NEW seen
  PROVE  NewHashes(page, seen) \in Seq(Hashes)
<1> DEFINE n == Len(page)
           g == CHOOSE f : EventsBy(f, page, seen)
<1>1. n \in Nat /\ DOMAIN page = 1..n /\ \A i \in 1..n : page[i] \in Hashes
  BY LenProperties, ElementOfSeq
<1>2. NewHashes(page, seen) = g[1..n]
  BY <1>1 DEF NewHashes, FoldLeft, MapThenFoldSet, EventsBy
<1>3. EventsBy(g, page, seen)
  BY EventsExist
<1> HIDE DEF g, n
<1>4. /\ g[{}] = <<>>
      /\ \A S \in SUBSET (1..n) : S # {} =>
           g[S] = IF IsNewEvent(page[Max(S)], seen) THEN Append(g[S \ {Max(S)}], page[Max(S)])
                  ELSE g[S \ {Max(S)}]
  BY <1>1, <1>3 DEF EventsBy
<1> DEFINE Good == {k \in Nat : k <= n => g[1..k] \in Seq(Hashes)}
<1>5. 0 \in Good
  <2>1. g[1..0] = <<>> /\ <<>> \in Seq(Hashes)
    BY <1>4, LeftSteps, EmptySeq
  <2> QED BY <2>1
<1>6. ASSUME NEW k \in Nat, k \in Good PROVE k + 1 \in Good
  <2>1. SUFFICES ASSUME k + 1 <= n PROVE g[1..(k + 1)] \in Seq(Hashes)
    OBVIOUS
  <2>2. 1..(k + 1) \in SUBSET (1..n) /\ k <= n /\ k + 1 \in 1..n
    BY <1>1, <2>1
  <2>3. g[1..(k + 1)] = IF IsNewEvent(page[k + 1], seen) THEN Append(g[1..k], page[k + 1]) ELSE g[1..k]
    <3> DEFINE S == 1..(k + 1)
    <3>1. S # {} /\ Max(S) = k + 1 /\ S \ {k + 1} = 1..k
      BY LeftSteps
    <3>2. S \in SUBSET (1..n)
      BY <2>2
    <3> HIDE DEF S
    <3>3. g[S] = IF IsNewEvent(page[k + 1], seen) THEN Append(g[1..k], page[k + 1]) ELSE g[1..k]
      BY <1>4, <3>1, <3>2
    <3> QED BY <3>3 DEF S
  <2>4. g[1..k] \in Seq(Hashes) /\ page[k + 1] \in Hashes
    BY <1>1, <1>6, <2>2
  <2> QED BY <2>3, <2>4, AppendProperties
<1>7. n \in Good
  <2> HIDE DEF Good
  <2> QED BY <1>1, <1>5, <1>6, SetOfNaturals
<1> QED BY <1>1, <1>2, <1>7

\* What Distinct has kept of the elements at some indices.
DistinctBy(g, s) ==
  g = [S \in SUBSET DOMAIN s |->
        IF S = {} THEN <<>>
        ELSE LET i == Max(S)
             IN IF Contains(g[S \ {i}], s[i]) THEN g[S \ {i}] ELSE Append(g[S \ {i}], s[i])]

\* The function that the fold of Distinct defines by recursion exists.
LEMMA DistinctExist == ASSUME NEW s \in Seq(Hashes) PROVE \E g : DistinctBy(g, s)
<1> DEFINE n == Len(s)
           Step(i, a) == IF Contains(a, s[i]) THEN a ELSE Append(a, s[i])
           h == [q \in (1..n) \X Seq(Hashes) |-> Step(q[1], q[2])]
<1>1. n \in Nat /\ DOMAIN s = 1..n /\ \A i \in 1..n : s[i] \in Hashes
  BY LenProperties, ElementOfSeq
<1>2. <<>> \in Seq(Hashes)
  BY EmptySeq
<1> HIDE DEF n
<1>3. \A i \in 1..n, a \in Seq(Hashes) : h[<<i, a>>] = Step(i, a) /\ Step(i, a) \in Seq(Hashes)
  BY <1>1, AppendProperties
<1> HIDE DEF h, Step
<1>4. PICK g : FoldsLeftBy(g, n, Seq(Hashes), <<>>, h)
  BY <1>1, <1>2, <1>3, LeftFoldExists
<1>5. /\ g = [S \in SUBSET (1..n) |-> g[S]]
      /\ g[{}] = <<>> /\ \A S \in SUBSET (1..n) : g[S] \in Seq(Hashes)
      /\ \A S \in (SUBSET (1..n)) \ {{}} : g[S] = h[<<Max(S), g[S \ {Max(S)}]>>]
  BY <1>4 DEF FoldsLeftBy
<1>6. ASSUME NEW S \in SUBSET (1..n), S # {} PROVE g[S] = Step(Max(S), g[S \ {Max(S)}])
  <2>1. Max(S) \in 1..n
    BY <1>1, <1>6, MaxIsMember
  <2> QED BY <1>3, <1>5, <1>6, <2>1
<1> DEFINE f == [S \in SUBSET (1..n) |-> IF S = {} THEN <<>> ELSE Step(Max(S), g[S \ {Max(S)}])]
<1>7. \A S \in SUBSET (1..n) : f[S] = g[S]
  BY <1>5, <1>6
<1>8. f = [S \in SUBSET (1..n) |-> f[S]]
  OBVIOUS
<1>9. g = f
  <2> HIDE DEF f
  <2> QED BY <1>5, <1>7, <1>8
<1> QED BY <1>1, <1>9 DEF DistinctBy, Step

\* Distinct adds no element.
LEMMA DistinctKeeps ==
  ASSUME NEW s \in Seq(Hashes)
  PROVE  Distinct(s) \in Seq(Hashes) /\ ToSet(Distinct(s)) \subseteq ToSet(s)
<1> DEFINE n == Len(s)
           g == CHOOSE f : DistinctBy(f, s)
<1>1. /\ n \in Nat /\ DOMAIN s = 1..n
      /\ \A i \in 1..n : s[i] \in Hashes /\ s[i] \in ToSet(s)
  BY LenProperties, ElementOfSeq DEF ToSet
<1>2. Distinct(s) = g[1..n]
  BY <1>1 DEF Distinct, FoldLeft, MapThenFoldSet, DistinctBy
<1>3. DistinctBy(g, s)
  BY DistinctExist
<1> HIDE DEF g, n
<1>4. /\ g[{}] = <<>>
      /\ \A S \in SUBSET (1..n) : S # {} =>
           g[S] = IF Contains(g[S \ {Max(S)}], s[Max(S)]) THEN g[S \ {Max(S)}]
                  ELSE Append(g[S \ {Max(S)}], s[Max(S)])
  BY <1>1, <1>3 DEF DistinctBy
<1> DEFINE Kept(a) == a \in Seq(Hashes) /\ ToSet(a) \subseteq ToSet(s)
           Good == {k \in Nat : k <= n => Kept(g[1..k])}
<1>5. 0 \in Good
  <2>1. g[1..0] = <<>> /\ <<>> \in Seq(Hashes)
    BY <1>4, LeftSteps, EmptySeq
  <2> QED BY <2>1, ToSetEmpty
<1>6. ASSUME NEW k \in Nat, k \in Good PROVE k + 1 \in Good
  <2>1. SUFFICES ASSUME k + 1 <= n PROVE Kept(g[1..(k + 1)])
    OBVIOUS
  <2>2. 1..(k + 1) \in SUBSET (1..n) /\ k <= n /\ k + 1 \in 1..n
    BY <1>1, <2>1
  <2>3. g[1..(k + 1)] = IF Contains(g[1..k], s[k + 1]) THEN g[1..k] ELSE Append(g[1..k], s[k + 1])
    <3> DEFINE S == 1..(k + 1)
    <3>1. S # {} /\ Max(S) = k + 1 /\ S \ {k + 1} = 1..k
      BY LeftSteps
    <3>2. S \in SUBSET (1..n)
      BY <2>2
    <3> HIDE DEF S
    <3>3. g[S] = IF Contains(g[1..k], s[k + 1]) THEN g[1..k] ELSE Append(g[1..k], s[k + 1])
      BY <1>4, <3>1, <3>2
    <3> QED BY <3>3 DEF S
  <2>4. Kept(g[1..k]) /\ s[k + 1] \in Hashes /\ s[k + 1] \in ToSet(s)
    BY <1>1, <1>6, <2>2
  <2>5. Kept(Append(g[1..k], s[k + 1]))
    BY <2>4, ToSetAppend
  <2> QED BY <2>3, <2>4, <2>5
<1>7. n \in Good
  <2> HIDE DEF Good
  <2> QED BY <1>1, <1>5, <1>6, SetOfNaturals
<1>8. Kept(g[1..n])
  BY <1>1, <1>7
<1> QED BY <1>2, <1>8

\* What a poll hands over is all that was read for every merchant.
FlatBy(g, p, order) ==
  g = [S \in SUBSET DOMAIN order |->
        IF S = {} THEN <<>>
        ELSE LET i == Max(S) IN g[S \ {i}] \o reading[p][order[i]].events]

\* The function that the fold of ReadEvents defines by recursion exists.
LEMMA FlatExist ==
  ASSUME NEW p, NEW n \in Nat, NEW order \in [1..n -> Shops],
         \A m \in Shops : reading[p][m].events \in Seq(Hashes)
  PROVE  \E g : FlatBy(g, p, order)
<1> DEFINE Step(i, a) == a \o reading[p][order[i]].events
           h == [q \in (1..n) \X Seq(Hashes) |-> Step(q[1], q[2])]
<1>2. <<>> \in Seq(Hashes)
  BY EmptySeq
<1>3. \A i \in 1..n, a \in Seq(Hashes) : h[<<i, a>>] = Step(i, a) /\ Step(i, a) \in Seq(Hashes)
  <2>1. \A i \in 1..n : reading[p][order[i]].events \in Seq(Hashes)
    OBVIOUS
  <2> QED BY <2>1, ConcatProperties
<1> HIDE DEF h, Step
<1>4. PICK g : FoldsLeftBy(g, n, Seq(Hashes), <<>>, h)
  BY <1>2, <1>3, LeftFoldExists
<1>5. /\ g = [S \in SUBSET (1..n) |-> g[S]]
      /\ g[{}] = <<>> /\ \A S \in SUBSET (1..n) : g[S] \in Seq(Hashes)
      /\ \A S \in (SUBSET (1..n)) \ {{}} : g[S] = h[<<Max(S), g[S \ {Max(S)}]>>]
  BY <1>4 DEF FoldsLeftBy
<1>6. ASSUME NEW S \in SUBSET (1..n), S # {} PROVE g[S] = Step(Max(S), g[S \ {Max(S)}])
  <2>1. Max(S) \in 1..n
    BY <1>6, MaxIsMember
  <2> QED BY <1>3, <1>5, <1>6, <2>1
<1> DEFINE f == [S \in SUBSET (1..n) |-> IF S = {} THEN <<>> ELSE Step(Max(S), g[S \ {Max(S)}])]
<1>7. \A S \in SUBSET (1..n) : f[S] = g[S]
  BY <1>5, <1>6
<1>8. f = [S \in SUBSET (1..n) |-> f[S]]
  OBVIOUS
<1>9. g = f
  <2> HIDE DEF f
  <2> QED BY <1>5, <1>7, <1>8
<1>10. DOMAIN order = 1..n
  OBVIOUS
<1> QED BY <1>9, <1>10 DEF FlatBy, Step

\* SetToSeq lists every merchant.
LEMMA OrderOfShops ==
  \E n \in Nat : /\ SetToSeq(Shops) \in [1..n -> Shops]
               /\ \A m \in Shops : \E i \in 1..n : SetToSeq(Shops)[i] = m
<1> DEFINE n == Cardinality(Shops)
<1>1. IsFiniteSet(Shops)
  BY HostedAssumption
<1>2. n \in Nat /\ ExistsBijection(1..n, Shops)
  BY <1>1, FS_CardinalityType
<1> HIDE DEF n
<1>3. PICK b \in [1..n -> Shops] : IsInjective(b)
  BY <1>2 DEF ExistsBijection, Bijection, Injection
<1> DEFINE order == SetToSeq(Shops)
<1>4. order \in [1..n -> Shops] /\ IsInjective(order)
  BY <1>3 DEF SetToSeq, n
<1> HIDE DEF order
<1>5. order \in Injection(1..n, Shops)
  BY <1>4 DEF Injection
<1>6. Cardinality(1..n) = n
  BY <1>2, FS_Interval
<1>7. order \in Surjection(1..n, Shops)
  BY <1>1, <1>5, <1>6, FS_Injection DEF n
<1> QED BY <1>2, <1>4, <1>7 DEF order, Surjection

\* The events of every merchant are among those of the poll.
LEMMA ReadEventsAreAll ==
  ASSUME NEW p, \A m \in Shops : reading[p][m].events \in Seq(Hashes)
  PROVE  /\ ReadEvents(p) \in Seq(Hashes)
         /\ \A m \in Shops : ToSet(reading[p][m].events) \subseteq ToSet(ReadEvents(p))
<1> DEFINE order == SetToSeq(Shops)
           g == CHOOSE f : FlatBy(f, p, order)
<1>1. PICK n \in Nat : order \in [1..n -> Shops] /\ \A m \in Shops : \E i \in 1..n : order[i] = m
  BY OrderOfShops
<1>2. ReadEvents(p) = g[DOMAIN order]
  BY DEF ReadEvents, FoldLeft, MapThenFoldSet, FlatBy
<1> HIDE DEF order
<1>3. FlatBy(g, p, order)
  BY <1>1, FlatExist
<1> HIDE DEF g
<1>4. DOMAIN order = 1..n /\ \A i \in 1..n : order[i] \in Shops
  BY <1>1
<1>5. /\ g[{}] = <<>>
      /\ \A S \in SUBSET (1..n) : S # {} =>
           g[S] = g[S \ {Max(S)}] \o reading[p][order[Max(S)]].events
  BY <1>3, <1>4 DEF FlatBy
<1> DEFINE Flat(k, a) == /\ a \in Seq(Hashes)
                         /\ \A i \in 1..k : ToSet(reading[p][order[i]].events) \subseteq ToSet(a)
           Good == {k \in Nat : k <= n => Flat(k, g[1..k])}
<1>6. 0 \in Good
  <2>1. g[1..0] = <<>> /\ <<>> \in Seq(Hashes)
    BY <1>5, LeftSteps, EmptySeq
  <2> QED BY <2>1, LeftSteps
<1>7. ASSUME NEW k \in Nat, k \in Good PROVE k + 1 \in Good
  <2>1. SUFFICES ASSUME k + 1 <= n PROVE Flat(k + 1, g[1..(k + 1)])
    OBVIOUS
  <2> DEFINE events == reading[p][order[k + 1]].events
  <2>2. 1..(k + 1) \in SUBSET (1..n) /\ k <= n /\ k + 1 \in 1..n
    BY <2>1
  <2>3. g[1..(k + 1)] = g[1..k] \o events
    <3> DEFINE S == 1..(k + 1)
    <3>1. S # {} /\ Max(S) = k + 1 /\ S \ {k + 1} = 1..k
      BY LeftSteps
    <3>2. S \in SUBSET (1..n)
      BY <2>2
    <3> HIDE DEF S
    <3>3. g[S] = g[1..k] \o events
      BY <1>5, <3>1, <3>2
    <3> QED BY <3>3 DEF S
  <2>4. Flat(k, g[1..k])
    BY <1>7, <2>2
  <2>5. events \in Seq(Hashes)
    BY <1>4, <2>2
  <2> HIDE DEF events
  <2>6. /\ g[1..k] \o events \in Seq(Hashes)
        /\ ToSet(g[1..k] \o events) = ToSet(g[1..k]) \cup ToSet(events)
    BY <2>4, <2>5, ToSetConcat
  <2>7. \A i \in 1..(k + 1) : i \in 1..k \/ i = k + 1
    OBVIOUS
  <2> QED BY <2>3, <2>4, <2>6, <2>7 DEF events
<1>8. n \in Good
  <2> HIDE DEF Good
  <2> QED BY <1>6, <1>7, SetOfNaturals
<1>9. Flat(n, g[1..n])
  BY <1>8
<1> QED BY <1>1, <1>2, <1>4, <1>9

-----------------------------------------------------------------------------
\* A page is a sequence of hashes.
LEMMA UsdtTransfersAreSeq ==
  ASSUME HostedShapeOK, NEW m \in Shops
  PROVE  UsdtTransfers(m) \in Seq(Hashes)
<1>1. TxHashOf[m] \in Seq(Hashes)
  <2>1. TxHashOf[m] \in Seq(ToSet(TxHashOf[m])) /\ ToSet(TxHashOf[m]) \subseteq Hashes
    BY HostedAssumption DEF Hashes
  <2> QED BY <2>1, SeqMonotonic
<1>2. paidTo[m] \in Nat /\ paidTo[m] <= Len(TxHashOf[m])
  BY DEF HostedShapeOK
<1>3. SubSeq(TxHashOf[m], 1, paidTo[m]) \in Seq(Hashes)
  BY <1>1, <1>2, ToSetSubSeq
<1>4. LastN(SubSeq(TxHashOf[m], 1, paidTo[m]), PageLimit) \in Seq(Hashes)
  BY <1>3, ToSetLastN, HostedAssumption
<1> QED BY <1>4, ReverseIsSeq DEF UsdtTransfers

\* What is saved was recorded before or is among the events.
LEMMA MergedIsKnown ==
  ASSUME NEW page \in Seq(Hashes), NEW seen \in Seq(Hashes)
  PROVE  /\ Merged(page, seen) \in Seq(Hashes)
         /\ ToSet(Merged(page, seen)) \subseteq ToSet(seen) \cup ToSet(NewHashes(page, seen))
<1> DEFINE both == seen \o NewHashes(page, seen)
           n == IF page = <<>> THEN 1 ELSE Len(page)
<1>1. NewHashes(page, seen) \in Seq(Hashes)
  BY NewHashesAreSeq
<1>2. both \in Seq(Hashes) /\ ToSet(both) = ToSet(seen) \cup ToSet(NewHashes(page, seen))
  BY <1>1, ToSetConcat
<1>3. n \in Nat
  BY LenProperties
<1>4. Merged(page, seen) = LastN(both, n)
  BY DEF Merged
<1> HIDE DEF both, n
<1> QED BY <1>2, <1>3, <1>4, ToSetLastN

\* Who holds a hash.
HeldByOne(x) ==
  \/ x \in added
  \/ \E p \in Pollers : \/ x \in ToSet(toAdd[p])
                       \/ \E m \in Shops : x \in ToSet(reading[p][m].events)

\* A hash is held if it is in the queue or some process has it.
LEMMA HeldMembers ==
  /\ \A x : x \in Held <=> HeldByOne(x)
  /\ \A x : x \in Held' <=> HeldByOne(x)'
BY DEF Held, AboutToAdd, HeldByOne

\* A read that is none, or over without events, has no events.
LEMMA NoReading ==
  /\ NotReading \in Readings /\ NotReading.events = <<>> /\ NotReading.merged = <<>>
  /\ NotReading.at \in HoldsNone
  /\ Finished \in Readings /\ Finished.events = <<>> /\ Finished.merged = <<>>
  /\ [NotReading EXCEPT !.at = "asking"] \in Readings
  /\ [NotReading EXCEPT !.at = "asking"].events = <<>>
  /\ [NotReading EXCEPT !.at = "asking"].merged = <<>>
<1>1. <<>> \in Seq(Hashes)
  BY EmptySeq
<1> QED BY <1>1 DEF NotReading, Finished, Readings, HoldsNone

\* Nothing is recorded.
LEMMA HostedInitially == HostedInit => HostedInv
<1> SUFFICES ASSUME HostedInit PROVE HostedInv
  OBVIOUS
<1>1. <<>> \in Seq(Hashes)
  BY EmptySeq
<1>2. \A m \in Shops : Len(TxHashOf[m]) \in Nat
  BY HostedAssumption, LenProperties
<1>3. HostedShapeOK
  BY <1>1, <1>2, NoReading, HostedAssumption DEF HostedInit, HostedShapeOK
<1>4. NoneDropped
  BY NoReading DEF HostedInit, NoneDropped
<1>5. RecordedIsHeld
  BY NoReading, ToSetEmpty DEF HostedInit, RecordedIsHeld
<1> QED BY <1>3, <1>4, <1>5 DEF HostedInv

\* Every failed call and crash is counted.
LEMMA LossCounts ==
  ASSUME HostedShapeOK
  PROVE  /\ May(TRUE) => losses' \in 0..MaxLosses /\ losses' # 0
         /\ May(FALSE) => losses' = losses
BY HostedAssumption DEF HostedShapeOK, May

\* A payment reaches the chain.
LEMMA PayKeeps ==
  ASSUME HostedInv, NEW m \in Shops, Pay(m)
  PROVE  HostedInv'
<1>1. Len(TxHashOf[m]) \in Nat /\ paidTo \in [Shops -> Nat]
  BY HostedAssumption, LenProperties DEF HostedInv, HostedShapeOK
<1>2. paidTo' \in [Shops -> Nat] /\ \A n \in Shops : paidTo'[n] <= Len(TxHashOf[n])
  BY <1>1 DEF Pay, HostedInv, HostedShapeOK
<1>3. UNCHANGED <<seenTxHashes, reading, polling, toAdd, added, losses>>
  BY DEF Pay
<1>4. HostedShapeOK'
  BY <1>2, <1>3 DEF HostedInv, HostedShapeOK
<1>5. UNCHANGED <<NoneDropped, RecordedIsHeld>>
  BY <1>3 DEF NoneDropped, RecordedIsHeld, Held, AboutToAdd
<1> QED BY <1>3, <1>4, <1>5 DEF HostedInv

\* A poll starts with no events.
LEMMA PollKeeps ==
  ASSUME HostedInv, NEW p \in Pollers, Poll(p)
  PROVE  HostedInv'
<1> DEFINE asking == [NotReading EXCEPT !.at = "asking"]
<1>1. HostedShapeOK'
  BY NoReading DEF Poll, HostedInv, HostedShapeOK
<1>2. ASSUME losses' = 0 PROVE NoneDropped' /\ RecordedIsHeld'
  <2>1. NoneDropped /\ RecordedIsHeld /\ UNCHANGED <<seenTxHashes, toAdd, added>>
    BY <1>2 DEF HostedInv, Poll
  <2>2. \A q \in Pollers, m \in Shops :
          /\ reading'[q][m] = IF q = p THEN asking ELSE reading[q][m]
          /\ reading'[q][m].events = reading[q][m].events
    BY NoReading DEF Poll, HostedInv, HostedShapeOK
  <2>3. \A q \in Pollers : polling'[q] = IF q = p THEN "reading" ELSE polling[q]
    BY DEF Poll, HostedInv, HostedShapeOK
  <2>4. NoneDropped'
    BY <2>1, <2>2, <2>3, NoReading DEF NoneDropped, Poll
  <2>5. \A x \in Held : x \in Held'
    BY <2>1, <2>2, HeldMembers DEF HeldByOne
  <2>6. \A q \in Pollers, m \in Shops :
          reading'[q][m].merged = reading[q][m].merged \/ reading'[q][m].merged = <<>>
    BY <2>2, NoReading
  <2>7. RecordedIsHeld'
    BY <2>1, <2>5, <2>6, ToSetEmpty DEF RecordedIsHeld
  <2> QED BY <2>4, <2>7
<1> QED BY <1>1, <1>2 DEF HostedInv

\* A step of one read that keeps its events, and saves and merges what is held.
LEMMA ReadStepKeeps ==
  ASSUME HostedInv, NEW p \in Pollers, NEW m \in Shops, NEW new \in Readings,
         reading' = [reading EXCEPT ![p][m] = new], UNCHANGED <<paidTo, polling, toAdd, added, losses>>,
         seenTxHashes' \in [Shops -> Seq(Hashes)],
         losses = 0 => /\ new.at \in HoldsNone => new.events = <<>>
                       /\ ToSet(reading[p][m].events) \subseteq ToSet(new.events)
                       /\ ToSet(new.merged) \subseteq Held \cup ToSet(new.events)
                       /\ \A n \in Shops : ToSet(seenTxHashes'[n]) \subseteq Held
  PROVE  HostedInv'
<1>1. HostedShapeOK
  BY DEF HostedInv
<1>2. /\ reading' \in [Pollers -> [Shops -> Readings]] /\ reading'[p][m] = new
      /\ \A q \in Pollers, n \in Shops : ~(q = p /\ n = m) => reading'[q][n] = reading[q][n]
  BY <1>1 DEF HostedShapeOK
<1>3. HostedShapeOK'
  BY <1>1, <1>2 DEF HostedShapeOK
<1>4. ASSUME losses' = 0 PROVE NoneDropped' /\ RecordedIsHeld'
  <2>1. NoneDropped /\ RecordedIsHeld /\ losses = 0
    BY <1>4 DEF HostedInv
  <2>2. NoneDropped'
    BY <1>2, <2>1 DEF NoneDropped
  <2>3. \A q \in Pollers, n \in Shops : ToSet(reading[q][n].events) \subseteq ToSet(reading'[q][n].events)
    BY <1>2, <2>1
  <2>4. \A x \in Held : x \in Held'
    BY <2>3, HeldMembers DEF HeldByOne
  <2>5. \A x \in ToSet(new.events) : x \in Held'
    BY <1>2, HeldMembers DEF HeldByOne
  <2>6. \A q \in Pollers, n \in Shops : ToSet(reading'[q][n].merged) \subseteq Held'
    BY <1>2, <2>1, <2>4, <2>5 DEF RecordedIsHeld
  <2> QED BY <2>1, <2>2, <2>4, <2>6 DEF RecordedIsHeld
<1> QED BY <1>3, <1>4 DEF HostedInv

\* The API answers or fails.
LEMMA AnswerKeeps ==
  ASSUME HostedInv, NEW p \in Pollers, NEW m \in Shops, AnswerTransfers(p, m)
  PROVE  HostedInv'
<1> DEFINE old == reading[p][m]
           found == [old EXCEPT !.at = "found", !.page = UsdtTransfers(m)]
<1>1. /\ HostedShapeOK /\ old \in Readings /\ old.at = "asking"
      /\ UNCHANGED <<paidTo, seenTxHashes, polling, toAdd, added, losses>>
      /\ seenTxHashes' \in [Shops -> Seq(Hashes)]
  BY DEF HostedInv, HostedShapeOK, AnswerTransfers
<1>2. losses = 0 => /\ old.events = <<>> /\ ToSet(old.merged) \subseteq Held
                    /\ \A n \in Shops : ToSet(seenTxHashes'[n]) \subseteq Held
  BY <1>1 DEF HostedInv, NoneDropped, RecordedIsHeld, HoldsNone
<1>3. reading' = [reading EXCEPT ![p][m] = found] \/ reading' = [reading EXCEPT ![p][m] = Finished]
  BY <1>1 DEF AnswerTransfers, HostedShapeOK
<1>4. found \in Readings /\ found.events = old.events /\ found.merged = old.merged
  BY <1>1, UsdtTransfersAreSeq DEF Readings
<1> HIDE DEF old, found
<1>5. CASE reading' = [reading EXCEPT ![p][m] = found]
  BY <1>1, <1>2, <1>4, <1>5, ReadStepKeeps DEF old
<1>6. CASE reading' = [reading EXCEPT ![p][m] = Finished]
  BY <1>1, <1>2, <1>6, ReadStepKeeps, NoReading, ToSetEmpty DEF old
<1> QED BY <1>3, <1>5, <1>6

\* What is merged was recorded, or is among the events found.
LEMMA FindStateKeeps ==
  ASSUME HostedInv, NEW p \in Pollers, NEW m \in Shops, FindState(p, m)
  PROVE  HostedInv'
<1> DEFINE old == reading[p][m]
           seen == Distinct(seenTxHashes[m])
           events == NewHashes(old.page, seen)
           new == [at |-> "saving", page |-> <<>>, merged |-> Merged(old.page, seen), events |-> events]
<1>1. /\ HostedShapeOK /\ old \in Readings /\ old.at = "found" /\ old.page \in Seq(Hashes)
      /\ UNCHANGED <<paidTo, seenTxHashes, polling, toAdd, added, losses>>
      /\ seenTxHashes' \in [Shops -> Seq(Hashes)] /\ seenTxHashes[m] \in Seq(Hashes)
  BY DEF HostedInv, HostedShapeOK, FindState, Readings
<1>2. seen \in Seq(Hashes) /\ ToSet(seen) \subseteq ToSet(seenTxHashes[m])
  BY <1>1, DistinctKeeps
<1>3. reading' = [reading EXCEPT ![p][m] = new] \/ reading' = [reading EXCEPT ![p][m] = Finished]
  BY DEF FindState
<1>4. events \in Seq(Hashes) /\ new.at = "saving" /\ new.events = events /\ new.merged = Merged(old.page, seen)
  BY <1>1, NewHashesAreSeq
<1>5. losses = 0 => /\ old.events = <<>> /\ ToSet(seenTxHashes[m]) \subseteq Held
                    /\ \A n \in Shops : ToSet(seenTxHashes'[n]) \subseteq Held
  BY <1>1 DEF HostedInv, NoneDropped, RecordedIsHeld, HoldsNone
<1> HIDE DEF seen
<1>6. /\ Merged(old.page, seen) \in Seq(Hashes)
      /\ ToSet(Merged(old.page, seen)) \subseteq ToSet(seen) \cup ToSet(events)
  BY <1>1, <1>2, MergedIsKnown
<1>7. new \in Readings
  BY <1>4, <1>6, EmptySeq DEF Readings
<1> HIDE DEF old, events, new
<1>8. CASE reading' = [reading EXCEPT ![p][m] = new]
  <2>1. losses = 0 => /\ new.at \in HoldsNone => new.events = <<>>
                      /\ ToSet(reading[p][m].events) \subseteq ToSet(new.events)
                      /\ ToSet(new.merged) \subseteq Held \cup ToSet(new.events)
    BY <1>2, <1>4, <1>5, <1>6, ToSetEmpty DEF old, HoldsNone
  <2> QED BY <1>1, <1>5, <1>7, <1>8, <2>1, ReadStepKeeps
<1>9. CASE reading' = [reading EXCEPT ![p][m] = Finished]
  BY <1>1, <1>5, <1>9, ReadStepKeeps, NoReading, ToSetEmpty DEF old
<1> QED BY <1>3, <1>8, <1>9

\* What is saved was merged before, and is still held.
LEMMA SaveStateKeeps ==
  ASSUME HostedInv, NEW p \in Pollers, NEW m \in Shops, SaveState(p, m)
  PROVE  HostedInv'
<1> DEFINE old == reading[p][m]
           new == [old EXCEPT !.at = "done", !.merged = <<>>]
<1>1. /\ HostedShapeOK /\ old \in Readings /\ old.merged \in Seq(Hashes)
      /\ UNCHANGED <<paidTo, polling, toAdd, added, losses>>
      /\ seenTxHashes' = [seenTxHashes EXCEPT ![m] = old.merged]
  BY DEF HostedInv, HostedShapeOK, SaveState, Readings
<1>2. reading' = [reading EXCEPT ![p][m] = new]
  BY <1>1 DEF SaveState, HostedShapeOK
<1>3. new \in Readings /\ new.at = "done" /\ new.events = old.events /\ new.merged = <<>>
  BY <1>1, EmptySeq DEF Readings
<1> HIDE DEF new
<1>4. /\ seenTxHashes' \in [Shops -> Seq(Hashes)]
      /\ losses = 0 => \A n \in Shops : ToSet(seenTxHashes'[n]) \subseteq Held
  BY <1>1 DEF HostedInv, HostedShapeOK, RecordedIsHeld
<1> HIDE DEF old
<1>5. losses = 0 => /\ new.at \in HoldsNone => new.events = <<>>
                    /\ ToSet(reading[p][m].events) \subseteq ToSet(new.events)
                    /\ ToSet(new.merged) \subseteq Held \cup ToSet(new.events)
  BY <1>3, ToSetEmpty DEF old, HoldsNone
<1> QED BY <1>1, <1>2, <1>3, <1>4, <1>5, ReadStepKeeps

\* A failed call of Mongo is a loss,
LEMMA RejectKeeps ==
  ASSUME HostedInv, NEW p \in Pollers, NEW m \in Shops, Reject(p, m)
  PROVE  HostedInv'
<1>1. HostedShapeOK /\ losses' \in 0..MaxLosses /\ losses' # 0
  BY LossCounts DEF HostedInv, Reject
<1>2. HostedShapeOK'
  BY <1>1, NoReading DEF HostedShapeOK, Reject
<1> QED BY <1>1, <1>2 DEF HostedInv

\* and so is a crash.
LEMMA CrashPollerKeeps ==
  ASSUME HostedInv, NEW p \in Pollers, CrashPoller(p)
  PROVE  HostedInv'
<1>1. HostedShapeOK /\ losses' \in 0..MaxLosses /\ losses' # 0
  BY LossCounts DEF HostedInv, CrashPoller
<1>2. HostedShapeOK'
  BY <1>1, NoReading, EmptySeq DEF HostedShapeOK, CrashPoller
<1> QED BY <1>1, <1>2 DEF HostedInv

\* The events go over to the batch, which was empty.
LEMMA EndReadKeeps ==
  ASSUME HostedInv, NEW p \in Pollers, EndRead(p)
  PROVE  HostedInv'
<1>0. \A q \in Pollers, m \in Shops : reading[q][m].events \in Seq(Hashes)
  BY DEF HostedInv, HostedShapeOK, Readings
<1>1. /\ ReadEvents(p) \in Seq(Hashes)
      /\ \A m \in Shops : ToSet(reading[p][m].events) \subseteq ToSet(ReadEvents(p))
  BY <1>0, ReadEventsAreAll
<1>2. HostedShapeOK'
  BY <1>1, NoReading, EmptySeq DEF HostedInv, HostedShapeOK, EndRead
<1>3. ASSUME losses' = 0 PROVE NoneDropped' /\ RecordedIsHeld'
  <2>1. /\ NoneDropped /\ RecordedIsHeld /\ polling[p] = "reading" /\ toAdd[p] = <<>>
        /\ UNCHANGED <<seenTxHashes, added>>
    BY <1>3 DEF HostedInv, EndRead, NoneDropped
  <2>2. \A q \in Pollers : /\ polling'[q] = IF q = p THEN "adding" ELSE polling[q]
                          /\ toAdd'[q] = IF q = p THEN ReadEvents(p) ELSE toAdd[q]
    BY <2>1 DEF EndRead, HostedInv, HostedShapeOK
  <2>3. \A q \in Pollers, m \in Shops : reading'[q][m] = IF q = p THEN NotReading ELSE reading[q][m]
    BY DEF EndRead, HostedInv, HostedShapeOK
  <2>4. NoneDropped'
    BY <2>1, <2>2, <2>3, NoReading DEF NoneDropped
  <2>5. ASSUME NEW x \in Held PROVE x \in Held'
    <3>1. CASE x \in added
      BY <2>1, <3>1, HeldMembers DEF HeldByOne
    <3>2. ASSUME NEW q \in Pollers, x \in ToSet(toAdd[q]) PROVE x \in Held'
      BY <2>1, <2>2, <3>2, HeldMembers, ToSetEmpty DEF HeldByOne
    <3>3. ASSUME NEW q \in Pollers, NEW m \in Shops, x \in ToSet(reading[q][m].events) PROVE x \in Held'
      <4>1. CASE q = p
        BY <1>1, <2>2, <3>3, <4>1, HeldMembers DEF HeldByOne
      <4>2. CASE q # p
        BY <2>3, <3>3, <4>2, HeldMembers DEF HeldByOne
      <4> QED BY <4>1, <4>2
    <3> QED BY <2>5, <3>1, <3>2, <3>3, HeldMembers DEF HeldByOne
  <2>6. \A q \in Pollers, m \in Shops :
          reading'[q][m].merged = reading[q][m].merged \/ reading'[q][m].merged = <<>>
    BY <2>3, NoReading
  <2>7. RecordedIsHeld'
    BY <2>1, <2>5, <2>6, ToSetEmpty DEF RecordedIsHeld
  <2> QED BY <2>4, <2>7
<1> QED BY <1>2, <1>3 DEF HostedInv

\* What leaves the batch is in the queue.
LEMMA AddToQueueKeeps ==
  ASSUME HostedInv, NEW p \in Pollers, AddToQueue(p)
  PROVE  HostedInv'
<1> DEFINE first == Head(toAdd[p])
           rest == Tail(toAdd[p])
<1>0. HostedShapeOK /\ toAdd[p] \in Seq(Hashes) /\ toAdd[p] # <<>>
  BY DEF HostedInv, HostedShapeOK, AddToQueue
<1>1. /\ first \in Hashes /\ rest \in Seq(Hashes)
      /\ \A x : x \in ToSet(toAdd[p]) => x = first \/ x \in ToSet(rest)
  <2>1. /\ first \in Hashes /\ rest \in Seq(Hashes) /\ Len(rest) = Len(toAdd[p]) - 1
        /\ \A i \in 1..Len(rest) : rest[i] = toAdd[p][i + 1]
        /\ first = toAdd[p][1] /\ Len(toAdd[p]) \in Nat \ {0}
    BY <1>0, HeadTailProperties, EmptySeq
  <2> HIDE DEF first, rest
  <2>2. ASSUME NEW x \in ToSet(toAdd[p]), x # first PROVE x \in ToSet(rest)
    <3>1. PICK i \in 1..Len(toAdd[p]) : toAdd[p][i] = x
      BY <1>0, <2>2, ToSetMembers
    <3>2. i # 1
      BY <2>1, <2>2, <3>1
    <3>3. i - 1 \in 1..Len(rest) /\ (i - 1) + 1 = i
      BY <2>1, <3>2
    <3>4. rest[i - 1] = x
      BY <2>1, <3>1, <3>3
    <3> QED BY <2>1, <3>3, <3>4, ToSetMembers
  <2> QED BY <2>1, <2>2
<1>2. CASE /\ added' = added \cup {first} /\ toAdd' = [toAdd EXCEPT ![p] = rest] /\ May(FALSE)
           /\ UNCHANGED <<paidTo, seenTxHashes, reading, polling>>
  <2> HIDE DEF first, rest
  <2>1. losses' = losses
    BY <1>0, <1>2, LossCounts
  <2>2. HostedShapeOK'
    BY <1>0, <1>1, <1>2, <2>1 DEF HostedShapeOK
  <2>3. \A q \in Pollers : toAdd'[q] = IF q = p THEN rest ELSE toAdd[q]
    BY <1>0, <1>2 DEF HostedShapeOK
  <2>4. \A x \in Held : x \in Held'
    BY <1>1, <1>2, <2>3, HeldMembers DEF HeldByOne
  <2>5. polling[p] = "adding"
    BY DEF AddToQueue
  <2>6. NoneDropped => NoneDropped'
    BY <1>2, <2>3, <2>5 DEF NoneDropped
  <2>7. RecordedIsHeld => RecordedIsHeld'
    BY <1>2, <2>4 DEF RecordedIsHeld
  <2> QED BY <2>1, <2>2, <2>6, <2>7 DEF HostedInv
<1>3. CASE /\ toAdd' = [toAdd EXCEPT ![p] = <<>>] /\ UNCHANGED added /\ May(TRUE)
           /\ UNCHANGED <<paidTo, seenTxHashes, reading, polling>>
  <2>1. losses' \in 0..MaxLosses /\ losses' # 0
    BY <1>0, <1>3, LossCounts
  <2>2. HostedShapeOK'
    BY <1>0, <1>3, <2>1, EmptySeq DEF HostedShapeOK
  <2> QED BY <2>1, <2>2 DEF HostedInv
<1> QED BY <1>0, <1>2, <1>3 DEF AddToQueue, HostedShapeOK

\* A batch that is done is empty.
LEMMA EndPollKeeps ==
  ASSUME HostedInv, NEW p \in Pollers, EndPoll(p)
  PROVE  HostedInv'
<1>1. HostedShapeOK'
  BY DEF HostedInv, HostedShapeOK, EndPoll
<1>2. /\ toAdd[p] = <<>> /\ UNCHANGED <<seenTxHashes, reading, toAdd, added, losses>>
      /\ \A q \in Pollers : polling'[q] = IF q = p THEN "idle" ELSE polling[q]
  BY DEF HostedInv, HostedShapeOK, EndPoll
<1>3. NoneDropped => NoneDropped'
  BY <1>2 DEF NoneDropped
<1>4. UNCHANGED RecordedIsHeld
  BY <1>2 DEF RecordedIsHeld, Held, AboutToAdd
<1> QED BY <1>1, <1>2, <1>3, <1>4 DEF HostedInv

\* Every step keeps the invariant.
LEMMA HostedNextKeeps ==
  ASSUME HostedInv, [HostedNext]_pollVars
  PROVE  HostedInv'
<1>1. CASE HostedNext
  BY <1>1, PayKeeps, PollKeeps, EndReadKeeps, AddToQueueKeeps, EndPollKeeps, CrashPollerKeeps,
     AnswerKeeps, RejectKeeps, FindStateKeeps, SaveStateKeeps DEF HostedNext
<1>2. CASE UNCHANGED pollVars
  BY <1>2 DEF pollVars, HostedInv, HostedShapeOK, NoneDropped, RecordedIsHeld, Held, AboutToAdd
<1> QED BY <1>1, <1>2

\* The inductive invariant holds in every reachable state.
LEMMA HostedInvariant == HostedSpec => []HostedInv
BY HostedInitially, HostedNextKeeps, PTL DEF HostedSpec

\* Every variable of the hosted transport keeps its type.
THEOREM HostedTypeCorrect == HostedSpec => []HostedTypeOK
<1>1. HostedInv => HostedTypeOK
  BY DEF HostedInv, HostedShapeOK, HostedTypeOK, Readings
<1> QED BY <1>1, HostedInvariant, PTL

\* A transaction that is recorded as seen is in the queue or about to be added
\* to it (wdk-indexer-transfer.adapter.ts saves the cursor before the transfers
\* are enqueued), for every number of merchants and processes polling side by
\* side, as long as no call has failed and no process has died.
THEOREM SeenIsHeld == HostedSpec => []SeenIsDispatched
<1>1. HostedInv => SeenIsDispatched
  BY DEF HostedInv, RecordedIsHeld, Held, SeenIsDispatched
<1> QED BY <1>1, HostedInvariant, PTL

-----------------------------------------------------------------------------
(***************************************************************************)
(* ServedCopies.  Behind "no older answer" is that a call of the price     *)
(* source is alone for its quote from its beginning to its end, so that    *)
(* what it brings is no older than any answer given meanwhile.             *)
(***************************************************************************)
\* Records of calls of the price source, of requests for a quote and of requests for transfers.
UpcallStates == [of : Quotes \cup {NoCall}, at : {"none", "asked", "read"}, answer : QuoteAnswers]
CallerStates == [of : Quotes \cup {NoCall}, joined : Upcalls \cup {NoCall}, cached : QuoteAnswers]
\* Records of a copy in the memory of a process.
Cached == [copy : QuoteAnswers, fresh : BOOLEAN]
LookupStates == [of : Pages \cup {NoCall}, at : {"none", "live", "store", "copy"},
                 tries : 0..Tries, version : Versions]

\* One call at a time for a quote, which somebody waits for: the copy is stale
\* until it ends, and what the call has read is no older.
CallIsAlone == \A f \in Upcalls :
  upcall[f] # NoUpcall =>
    /\ upcall[f].at # "none" /\ upcall[f].of \in Quotes
    /\ inFlight[upcall[f].of] = f /\ ~cache[upcall[f].of].fresh
    /\ upcall[f].at = "read" => /\ cache[upcall[f].of].copy.version <= upcall[f].answer.version
                                /\ upcall[f].answer.version <= source
    /\ \E r \in Callers : caller[r].joined = f

\* `inFlight` holds the call that is pending for a quote, and no other is.
InFlightIsCall == \A q \in Quotes :
  inFlight[q] # NoCall => upcall[inFlight[q]].of = q

\* The copy that a request found is still there when its call ends.
CallersWait == \A r \in Callers :
  caller[r].joined # NoCall =>
    /\ caller[r].of \in Quotes /\ upcall[caller[r].joined].of = caller[r].of
    /\ caller[r].cached = cache[caller[r].of].copy

\* What was answered last is the copy.
QuotedIsCopy == \A q \in Quotes :
  quoted[q] = cache[q].copy /\ cache[q].copy.version <= source

\* What was listed is in Redis, and what will be stored is something.
ListedIsStored ==
  /\ ~redisFailed => \A k \in Pages : listed[k] # 0 => redis[k] # 0
  /\ \A l \in Lookups : /\ lookup[l].at # "none" => lookup[l].of \in Pages
                        /\ lookup[l].at = "store" => lookup[l].version # 0

\* What holds of the quotes.
QuotesInv == CallIsAlone /\ InFlightIsCall /\ CallersWait /\ QuotedIsCopy
\* The inductive invariant.
CopiesInv == CopiesTypeOK /\ QuotesInv /\ ListedIsStored

\* The values that stand for no call and no copy have their types.
LEMMA NothingIsTyped ==
  /\ NoUpcall \in UpcallStates /\ NoUpcall.at = "none" /\ NoUpcall.of = NoCall
  /\ NoCaller \in CallerStates /\ NoCaller.joined = NoCall
  /\ NoLookup \in LookupStates /\ NoLookup.at = "none"
  /\ NoAnswer \in QuoteAnswers /\ NoAnswer.version = 0 /\ NoAnswer.version <= 1
  /\ Spot \in Quotes /\ \A v \in Versions : v \in Nat /\ v <= v /\ v >= v
<1>1. NoAnswer \in QuoteAnswers /\ NoAnswer.version = 0 /\ NoAnswer.version <= 1
  BY CopiesAssumption DEF NoAnswer, QuoteAnswers, Versions
<1>2. 0 \in Versions /\ \A v \in Versions : v \in Nat /\ v <= v /\ v >= v
  BY CopiesAssumption DEF Versions
<1> QED BY <1>1, <1>2, CopiesAssumption DEF NoUpcall, NoCaller, NoLookup, UpcallStates, CallerStates, LookupStates, Quotes

\* An answer that is repeated is no worse.
LEMMA SameIsNoWorse ==
  ASSUME CopiesTypeOK, NEW q \in Quotes, quoted'[q] = quoted[q]
  PROVE  QuoteIsNoWorse(q)
<1>1. quoted[q] \in QuoteAnswers /\ quoted[q].version \in Versions
  BY DEF CopiesTypeOK, Cached, QuoteAnswers
<1> QED BY <1>1, NothingIsTyped DEF QuoteIsNoWorse

\* A process starts with no copies and no calls.
LEMMA CopiesInitially == CopiesInit => CopiesInv
<1> SUFFICES ASSUME CopiesInit PROVE CopiesInv
  OBVIOUS
<1>1. CopiesTypeOK
  <2>1. 0 \in Versions /\ 1 \in Versions \ {0}
    BY CopiesAssumption DEF Versions
  <2> QED BY <2>1, NothingIsTyped DEF CopiesInit, CopiesTypeOK, UpcallStates, CallerStates, LookupStates, Cached
<1>2. QuotesInv
  BY NothingIsTyped, CopiesAssumption DEF CopiesInit, QuotesInv, CallIsAlone, InFlightIsCall, CallersWait, QuotedIsCopy
<1>3. ListedIsStored
  BY NothingIsTyped DEF CopiesInit, ListedIsStored
<1> QED BY <1>1, <1>2, <1>3 DEF CopiesInv

\* A request answers from the copy, joins the pending call or begins one.
LEMMA AskQuoteKeeps ==
  ASSUME CopiesTypeOK, QuotesInv, NEW r \in Callers, NEW q \in Quotes, AskQuote(r, q)
  PROVE  CopiesTypeOK' /\ QuotesInv' /\ \A p \in Quotes : QuoteIsNoWorse(p)
<1> USE NothingIsTyped, CopiesAssumption
<1>0. /\ upcall \in [Upcalls -> UpcallStates] /\ caller \in [Callers -> CallerStates]
      /\ inFlight \in [Quotes -> Upcalls \cup {NoCall}] /\ quoted \in [Quotes -> QuoteAnswers]
      /\ cache \in [Quotes -> Cached]
      /\ caller[r].joined = NoCall
  BY DEF AskQuote, CopiesTypeOK, UpcallStates, CallerStates, Cached
<1>1. CASE /\ cache[q].fresh
           /\ quoted' = [quoted EXCEPT ![q] = cache[q].copy]
           /\ UNCHANGED <<inFlight, upcall, caller>>
  <2>1. quoted' = quoted
    BY <1>0, <1>1 DEF QuotesInv, QuotedIsCopy
  <2>2. UNCHANGED <<source, cache, redis, lookup, listed, redisFailed>>
    BY DEF AskQuote, listVars
  <2>3. CopiesTypeOK'
    BY <1>1, <2>1, <2>2 DEF CopiesTypeOK, Cached
  <2>4. QuotesInv'
    BY <1>1, <2>1, <2>2 DEF QuotesInv, CallIsAlone, InFlightIsCall, CallersWait, QuotedIsCopy
  <2> QED BY <2>1, <2>3, <2>4, SameIsNoWorse
<1>2. CASE ~cache[q].fresh /\ UNCHANGED quoted
  <2>1. PICK f \in JoinableCalls(q) :
          /\ caller' = [caller EXCEPT ![r] = [of |-> q, joined |-> f, cached |-> cache[q].copy]]
          /\ inFlight' = [inFlight EXCEPT ![q] = f]
          /\ upcall' = IF f \in NewCalls
                       THEN [upcall EXCEPT ![f] = [of |-> q, at |-> "asked", answer |-> NoAnswer]]
                       ELSE upcall
    BY <1>1, <1>2 DEF AskQuote
  <2>2. UNCHANGED <<source, cache, quoted, redis, lookup, listed, redisFailed>>
    BY <1>2 DEF AskQuote, listVars
  <2>3. f \in Upcalls /\ f # NoCall
    BY <1>0 DEF JoinableCalls, NewCalls
  <2> DEFINE mine == [of |-> q, joined |-> f, cached |-> cache[q].copy]
             asked == [of |-> q, at |-> "asked", answer |-> NoAnswer]
  <2>4. mine \in CallerStates /\ mine.of = q /\ mine.joined = f /\ mine.cached = cache[q].copy
    BY <1>0, <2>3 DEF CallerStates, Cached
  <2>5. asked \in UpcallStates /\ asked.of = q /\ asked.at = "asked" /\ asked # NoUpcall
    BY DEF UpcallStates, NoUpcall
  <2>6. caller' = [caller EXCEPT ![r] = mine]
    BY <2>1
  <2>7. upcall' = IF f \in NewCalls THEN [upcall EXCEPT ![f] = asked] ELSE upcall
    BY <2>1
  <2> HIDE DEF mine, asked
  <2>8. CopiesTypeOK'
    BY <1>0, <2>1, <2>2, <2>3, <2>4, <2>5, <2>6, <2>7 DEF CopiesTypeOK, Cached, UpcallStates, CallerStates
  <2>9. CASE f \in NewCalls
    <3>1. upcall[f] = NoUpcall
      BY <2>9 DEF NewCalls
    <3>2. inFlight[q] = NoCall
      BY <1>0, <2>9, <3>1 DEF JoinableCalls, NewCalls, QuotesInv, InFlightIsCall
    <3>3. \A p \in Callers : caller[p].joined # f
      BY <2>3, <3>1 DEF QuotesInv, CallersWait
    <3>4. \A g \in Upcalls : upcall[g].of # q
      BY <1>0, <3>2 DEF QuotesInv, CallIsAlone
    <3>5. CallIsAlone'
      BY <1>0, <1>2, <2>1, <2>2, <2>3, <2>4, <2>5, <2>6, <2>7, <2>9, <3>3, <3>4 DEF QuotesInv, CallIsAlone
    <3>6. InFlightIsCall' /\ CallersWait' /\ QuotedIsCopy'
      BY <1>0, <2>1, <2>2, <2>3, <2>4, <2>5, <2>6, <2>7, <2>9, <3>1, <3>3, <3>4 DEF QuotesInv, InFlightIsCall, CallersWait, QuotedIsCopy
    <3> QED BY <2>8, <3>5, <3>6, <2>2, SameIsNoWorse DEF QuotesInv
  <2>10. CASE f \notin NewCalls
    <3>1. inFlight[q] = f /\ upcall[f].of = q /\ upcall' = upcall /\ inFlight' = inFlight
      BY <1>0, <2>1, <2>3, <2>10 DEF JoinableCalls, QuotesInv, InFlightIsCall
    <3>2. CallIsAlone'
      BY <1>0, <2>2, <2>3, <2>4, <2>6, <3>1 DEF QuotesInv, CallIsAlone
    <3>3. InFlightIsCall' /\ CallersWait' /\ QuotedIsCopy'
      BY <1>0, <2>2, <2>3, <2>4, <2>6, <3>1 DEF QuotesInv, InFlightIsCall, CallersWait, QuotedIsCopy
    <3> QED BY <2>8, <3>2, <3>3, <2>2, SameIsNoWorse DEF QuotesInv
  <2> QED BY <2>9, <2>10
<1> QED BY <1>1, <1>2 DEF AskQuote

\* A call ends with an answer that is no older than the copy was.
LEMMA EndUpcallKeeps ==
  ASSUME CopiesTypeOK, QuotesInv, NEW f \in Upcalls, upcall[f] # NoUpcall, NEW answers,
         EndUpcall(f, answers),
         cache' \in [Quotes -> Cached],
         cache'[upcall[f].of].copy.version <= source,
         cache[upcall[f].of].copy.version <= cache'[upcall[f].of].copy.version,
         answers = {cache'[upcall[f].of].copy},
         \/ cache'[upcall[f].of].copy = cache[upcall[f].of].copy
         \/ upcall[f].at = "read" /\ cache'[upcall[f].of].copy = upcall[f].answer,
         \A p \in Quotes \ {upcall[f].of} : cache'[p] = cache[p]
  PROVE  CopiesTypeOK' /\ QuotesInv' /\ \A p \in Quotes : QuoteIsNoWorse(p)
<1> USE NothingIsTyped, CopiesAssumption
<1> DEFINE q == upcall[f].of
<1>0. /\ upcall \in [Upcalls -> UpcallStates] /\ caller \in [Callers -> CallerStates]
      /\ inFlight \in [Quotes -> Upcalls \cup {NoCall}] /\ quoted \in [Quotes -> QuoteAnswers]
      /\ cache \in [Quotes -> Cached]
      /\ q \in Quotes /\ inFlight[q] = f
  BY DEF CopiesTypeOK, Cached, UpcallStates, CallerStates, QuotesInv, CallIsAlone
<1>1. /\ inFlight' = [inFlight EXCEPT ![q] = NoCall] /\ upcall' = [upcall EXCEPT ![f] = NoUpcall]
      /\ caller' = [r \in Callers |-> IF caller[r].joined = f THEN NoCaller ELSE caller[r]]
      /\ quoted' = [quoted EXCEPT ![q] = Worst(answers)]
      /\ UNCHANGED <<source, redis, lookup, listed, redisFailed>>
  BY DEF EndUpcall, Waiting, listVars
<1> HIDE DEF q
<1>2. cache'[q].copy \in QuoteAnswers /\ cache'[q].copy.version \in Versions
  BY <1>0 DEF Cached, QuoteAnswers
<1>3. Worst(answers) = cache'[q].copy
  <2>1. NoBetter(cache'[q].copy, cache'[q].copy)
    BY DEF NoBetter
  <2> QED BY <2>1 DEF Worst, q
<1>4. CopiesTypeOK'
  BY <1>0, <1>1, <1>2, <1>3 DEF CopiesTypeOK, Cached, UpcallStates, CallerStates
<1>5. \A g \in Upcalls : upcall[g].of = q => g = f
  BY <1>0 DEF QuotesInv, CallIsAlone
<1>6. \A r \in Callers : caller[r].joined \in Upcalls /\ caller[r].joined # f => caller[r].of # q
  BY <1>0, <1>5 DEF QuotesInv, CallersWait
<1>7. CallIsAlone'
  BY <1>0, <1>1, <1>5 DEF QuotesInv, CallIsAlone, q
<1>8. InFlightIsCall'
  BY <1>0, <1>1 DEF QuotesInv, InFlightIsCall, q
<1>9. CallersWait'
  BY <1>0, <1>1, <1>6 DEF QuotesInv, CallersWait, q, CallerStates
<1>10. QuotedIsCopy'
  BY <1>0, <1>1, <1>3 DEF QuotesInv, QuotedIsCopy, q
<1>11. \A p \in Quotes \ {q} : QuoteIsNoWorse(p)
  BY <1>0, <1>1, SameIsNoWorse
<1>12. QuoteIsNoWorse(q)
  <2>1. quoted[q] = cache[q].copy /\ quoted'[q] = cache'[q].copy
    BY <1>0, <1>1, <1>3 DEF QuotesInv, QuotedIsCopy
  <2>2. CASE cache'[q].copy = cache[q].copy
    BY <1>0, <2>1, <2>2, SameIsNoWorse
  <2>3. CASE upcall[f].at = "read" /\ cache'[q].copy = upcall[f].answer
    <3>1. cache[q].copy.version \in Versions
      BY <1>0 DEF Cached, QuoteAnswers
    <3>2. quoted'[q].version >= quoted[q].version
      BY <1>2, <2>1, <3>1, NothingIsTyped DEF q
    <3>3. quoted'[q].whole \/ LeftOut(q)
      BY <2>1, <2>3 DEF LeftOut, q
    <3> QED BY <3>2, <3>3 DEF QuoteIsNoWorse
  <2> QED BY <2>2, <2>3 DEF q
<1> QED BY <1>4, <1>7, <1>8, <1>9, <1>10, <1>11, <1>12 DEF QuotesInv

\* A call goes on or ends.
LEMMA UpcallStepKeeps ==
  ASSUME CopiesTypeOK, QuotesInv, NEW f \in Upcalls, CoinGeckoReads(f) \/ Fetched(f) \/ FetchFails(f)
  PROVE  CopiesTypeOK' /\ QuotesInv' /\ \A p \in Quotes : QuoteIsNoWorse(p)
<1> USE NothingIsTyped, CopiesAssumption
<1>0. /\ upcall \in [Upcalls -> UpcallStates] /\ caller \in [Callers -> CallerStates]
      /\ source \in Versions /\ cache \in [Quotes -> Cached]
      /\ upcall[f] # NoUpcall /\ upcall[f].of \in Quotes /\ quoted \in [Quotes -> QuoteAnswers]
  BY DEF CopiesTypeOK, Cached, UpcallStates, CallerStates, Cached, QuotesInv, CallIsAlone, CoinGeckoReads, Fetched, FetchFails
<1>1. CASE CoinGeckoReads(f)
  <2>0. PICK whole \in BOOLEAN :
          upcall' = [upcall EXCEPT ![f].at = "read", ![f].answer = [version |-> source, whole |-> whole]]
    BY <1>1 DEF CoinGeckoReads
  <2> DEFINE got == [version |-> source, whole |-> whole]
             read == [upcall[f] EXCEPT !.at = "read", !.answer = got]
  <2>a. got \in QuoteAnswers /\ got.version = source
    BY <1>0 DEF QuoteAnswers
  <2>2. upcall' = [upcall EXCEPT ![f] = read]
    BY <2>0
  <2> HIDE DEF got
  <2>1. read \in UpcallStates /\ read.of = upcall[f].of /\ read.at = "read" /\ read.answer.version = source
    BY <1>0, <2>a DEF UpcallStates
  <2> HIDE DEF read
  <2>3. UNCHANGED <<source, cache, inFlight, caller, quoted, redis, lookup, listed, redisFailed>>
    BY <1>1 DEF CoinGeckoReads, listVars
  <2>4. CopiesTypeOK'
    BY <1>0, <2>1, <2>2, <2>3 DEF CopiesTypeOK, Cached, UpcallStates
  <2>5. \A g \in Upcalls : upcall'[g].of = upcall[g].of /\ (g # f => upcall'[g] = upcall[g])
    BY <1>0, <2>1, <2>2
  <2>6. CallIsAlone'
    BY <1>0, <2>1, <2>2, <2>3, <2>5 DEF QuotesInv, CallIsAlone, QuotedIsCopy
  <2>7. InFlightIsCall' /\ CallersWait' /\ QuotedIsCopy'
    BY <1>0, <2>1, <2>3, <2>5 DEF QuotesInv, InFlightIsCall, CallersWait, QuotedIsCopy, CopiesTypeOK
  <2> QED BY <2>3, <2>4, <2>6, <2>7, SameIsNoWorse DEF QuotesInv
<1>2. CASE Fetched(f)
  <2> DEFINE copy == [copy |-> upcall[f].answer, fresh |-> TRUE]
  <2>1. copy \in Cached /\ copy.copy = upcall[f].answer
    BY <1>0 DEF UpcallStates, Cached
  <2>2. cache' = [cache EXCEPT ![upcall[f].of] = copy] /\ EndUpcall(f, {upcall[f].answer}) /\ upcall[f].at = "read"
    BY <1>2 DEF Fetched
  <2> HIDE DEF copy
  <2>3. /\ cache[upcall[f].of].copy.version <= upcall[f].answer.version /\ upcall[f].answer.version <= source
    BY <1>0, <2>2 DEF QuotesInv, CallIsAlone
  <2> QED BY <1>0, <2>1, <2>2, <2>3, EndUpcallKeeps
<1>3. CASE FetchFails(f)
  <2> DEFINE answers == {StaleFor(r) : r \in Waiting(f)}
  <2>1. PICK r \in Callers : caller[r].joined = f
    BY <1>0 DEF QuotesInv, CallIsAlone
  <2>2. \A p \in Waiting(f) : StaleFor(p) = cache[upcall[f].of].copy
    BY <1>0 DEF Waiting, StaleFor, QuotesInv, CallersWait
  <2>3. answers = {cache[upcall[f].of].copy}
    BY <2>1, <2>2 DEF Waiting
  <2>4. EndUpcall(f, answers) /\ cache' = cache
    BY <1>3 DEF FetchFails
  <2> HIDE DEF answers
  <2>5. /\ cache[upcall[f].of].copy.version <= source
        /\ cache[upcall[f].of].copy.version <= cache[upcall[f].of].copy.version
    BY <1>0 DEF QuotesInv, QuotedIsCopy, Cached, QuoteAnswers
  <2> QED BY <1>0, <2>3, <2>4, <2>5, EndUpcallKeeps
<1> QED BY <1>1, <1>2, <1>3

\* Time passes for a copy.
LEMMA CopyStepKeeps ==
  ASSUME CopiesTypeOK, QuotesInv, SourceChanges \/ \E q \in Quotes : Expire(q)
  PROVE  CopiesTypeOK' /\ QuotesInv' /\ \A p \in Quotes : QuoteIsNoWorse(p)
<1> USE NothingIsTyped, CopiesAssumption
<1>0. /\ source \in Versions /\ cache \in [Quotes -> Cached]
      /\ quoted \in [Quotes -> QuoteAnswers] /\ upcall \in [Upcalls -> UpcallStates]
  BY DEF CopiesTypeOK, Cached, UpcallStates, Cached
<1>1. CASE SourceChanges
  <2>1. /\ source' = source + 1 /\ source' \in Versions \ {0}
        /\ UNCHANGED <<cache, inFlight, upcall, caller, quoted, redis, lookup, listed, redisFailed>>
    BY <1>0, <1>1 DEF SourceChanges, quoteVars, listVars, Versions
  <2>2. CopiesTypeOK'
    BY <2>1 DEF CopiesTypeOK, Cached
  <2>3. \A v \in Versions : v <= source => v <= source'
    BY <1>0, <2>1
  <2>4. CallIsAlone'
    BY <1>0, <2>1, <2>3 DEF QuotesInv, CallIsAlone, UpcallStates, QuoteAnswers
  <2>5. InFlightIsCall' /\ CallersWait' /\ QuotedIsCopy'
    BY <1>0, <2>1, <2>3 DEF QuotesInv, InFlightIsCall, CallersWait, QuotedIsCopy, Cached, QuoteAnswers
  <2> QED BY <2>1, <2>2, <2>4, <2>5, SameIsNoWorse DEF QuotesInv
<1>2. ASSUME NEW q \in Quotes, Expire(q)
      PROVE  CopiesTypeOK' /\ QuotesInv' /\ \A p \in Quotes : QuoteIsNoWorse(p)
  <2>1. /\ cache' = [cache EXCEPT ![q] = [cache[q] EXCEPT !.fresh = FALSE]]
        /\ UNCHANGED <<source, inFlight, upcall, caller, quoted, redis, lookup, listed, redisFailed>>
    BY <1>2 DEF Expire, listVars
  <2> DEFINE stale == [cache[q] EXCEPT !.fresh = FALSE]
  <2>a. stale \in Cached /\ stale.copy = cache[q].copy /\ ~stale.fresh
    BY <1>0 DEF Cached
  <2>b. cache' = [cache EXCEPT ![q] = stale]
    BY <2>1
  <2> HIDE DEF stale
  <2>2. /\ cache' \in [Quotes -> Cached]
        /\ \A p \in Quotes : cache'[p].copy = cache[p].copy
        /\ \A p \in Quotes : ~cache[p].fresh => ~cache'[p].fresh
    BY <1>0, <2>a, <2>b
  <2>3. CopiesTypeOK'
    BY <2>1, <2>2 DEF CopiesTypeOK, Cached
  <2>4. CallIsAlone'
    BY <2>1, <2>2 DEF QuotesInv, CallIsAlone
  <2>5. InFlightIsCall' /\ CallersWait' /\ QuotedIsCopy'
    BY <2>1, <2>2 DEF QuotesInv, InFlightIsCall, CallersWait, QuotedIsCopy
  <2> QED BY <2>1, <2>3, <2>4, <2>5, SameIsNoWorse DEF QuotesInv
<1> QED BY <1>1, <1>2
\* A request for transfers goes on.
LEMMA LookupKeeps ==
  ASSUME CopiesTypeOK, ListedIsStored, UNCHANGED <<source, quoteVars>>,
         NEW l \in Lookups, NEW new \in LookupStates,
         lookup' = [lookup EXCEPT ![l] = new],
         new.at # "none" => new.of \in Pages,
         new.at = "store" => new.version # 0,
         redis' \in [Pages -> Versions], listed' \in [Pages -> Versions],
         redisFailed' \in BOOLEAN,
         ~redisFailed' => \A k \in Pages : listed'[k] # 0 => redis'[k] # 0
  PROVE  CopiesTypeOK' /\ ListedIsStored'
<1>1. CopiesTypeOK'
  BY DEF CopiesTypeOK, Cached, LookupStates, quoteVars
<1>2. ListedIsStored'
  BY DEF ListedIsStored, CopiesTypeOK, LookupStates
<1> QED BY <1>1, <1>2

\* A request for transfers goes through the live API, the store and its copy.
LEMMA ListStepKeeps ==
  ASSUME CopiesTypeOK, ListedIsStored, NEW l \in Lookups,
         \/ FetchLive(l) \/ FetchLiveFails(l) \/ StoreCopy(l) \/ ReadCopy(l)
         \/ \E k \in Pages : AskTransfers(l, k)
  PROVE  /\ CopiesTypeOK' /\ ListedIsStored' /\ UNCHANGED <<source, quoteVars>>
         /\ \A k \in Pages : listed[k] # 0 /\ ~redisFailed' => listed'[k] # 0
<1> USE NothingIsTyped, CopiesAssumption
<1>0. /\ lookup \in [Lookups -> LookupStates] /\ source \in Versions \ {0}
      /\ redis \in [Pages -> Versions] /\ listed \in [Pages -> Versions] /\ redisFailed \in BOOLEAN
      /\ lookup[l].at # "none" => lookup[l].of \in Pages
      /\ ~redisFailed => \A k \in Pages : listed[k] # 0 => redis[k] # 0
  BY DEF CopiesTypeOK, Cached, LookupStates, ListedIsStored
<1>a. 0 \in Versions
  BY DEF Versions
<1>1. ASSUME NEW k \in Pages, AskTransfers(l, k)
      PROVE  /\ CopiesTypeOK' /\ ListedIsStored' /\ UNCHANGED <<source, quoteVars>>
             /\ \A p \in Pages : listed[p] # 0 /\ ~redisFailed' => listed'[p] # 0
  <2> DEFINE new == [of |-> k, at |-> "live", tries |-> 1, version |-> 0]
  <2>1. new \in LookupStates /\ new.at = "live" /\ new.of = k
    BY <1>a DEF LookupStates
  <2>2. lookup' = [lookup EXCEPT ![l] = new] /\ UNCHANGED <<source, quoteVars, redis, listed, redisFailed>>
    BY <1>1 DEF AskTransfers
  <2> HIDE DEF new
  <2> QED BY <1>0, <2>1, <2>2, LookupKeeps
<1>2. CASE FetchLive(l)
  <2> DEFINE read == [lookup[l] EXCEPT !.version = source]
             answered == [lookup[l] EXCEPT !.at = "store"]
             new == IF lookup[l].version = 0 THEN read ELSE answered
  <2>1. read \in LookupStates /\ read.at = "live" /\ read.of = lookup[l].of
    BY <1>0, <1>2 DEF LookupStates, FetchLive
  <2>2. answered \in LookupStates /\ answered.of = lookup[l].of /\ answered.version = lookup[l].version
    BY <1>0 DEF LookupStates
  <2>3. lookup' = [lookup EXCEPT ![l] = new] /\ UNCHANGED <<source, quoteVars, redis, listed, redisFailed>>
    BY <1>2 DEF FetchLive
  <2>4. lookup[l].of \in Pages
    BY <1>0, <1>2 DEF FetchLive
  <2> HIDE DEF read, answered
  <2>5. /\ new \in LookupStates /\ new.of \in Pages
        /\ new.at = "store" => new.version # 0
    BY <2>1, <2>2, <2>4
  <2> HIDE DEF new
  <2> QED BY <1>0, <2>3, <2>5, LookupKeeps
<1>3. CASE FetchLiveFails(l)
  <2> DEFINE n == lookup[l].tries + 1
             again == [lookup[l] EXCEPT !.tries = n, !.version = 0]
             last == [lookup[l] EXCEPT !.at = "copy", !.version = 0]
             new == IF lookup[l].tries < Tries THEN again ELSE last
  <2>a. lookup[l].tries < Tries => n \in 0..Tries
    BY <1>0 DEF LookupStates
  <2>1. lookup[l].tries < Tries => again \in LookupStates
    <3> HIDE DEF n
    <3> QED BY <1>0, <1>a, <2>a DEF LookupStates
  <2>2. again.at = "live" /\ again.of = lookup[l].of
    BY <1>0, <1>3 DEF LookupStates, FetchLiveFails
  <2>3. last \in LookupStates /\ last.of = lookup[l].of /\ last.at = "copy"
    BY <1>0, <1>a DEF LookupStates
  <2>4. lookup' = [lookup EXCEPT ![l] = new] /\ UNCHANGED <<source, quoteVars, redis, listed, redisFailed>>
    <3>1. lookup' = [lookup EXCEPT ![l] = IF @.tries < Tries THEN again ELSE last]
      BY <1>3 DEF FetchLiveFails
    <3> QED BY <1>0, <1>3, <3>1 DEF FetchLiveFails
  <2>5. lookup[l].of \in Pages
    BY <1>0, <1>3 DEF FetchLiveFails
  <2> HIDE DEF again, last
  <2>6. new \in LookupStates /\ new.of \in Pages /\ new.at # "store"
    BY <2>1, <2>2, <2>3, <2>5
  <2> HIDE DEF new
  <2> QED BY <1>0, <2>4, <2>6, LookupKeeps
<1>4. CASE StoreCopy(l)
  <2> DEFINE k == lookup[l].of
             stored == [redis EXCEPT ![k] = lookup[l].version]
             failed == [lookup[l] EXCEPT !.at = "copy", !.version = 0]
  <2>1. k \in Pages /\ lookup[l].version \in Versions \ {0}
    BY <1>0, <1>4 DEF StoreCopy, LookupStates, ListedIsStored
  <2>2. stored \in [Pages -> Versions]
    BY <1>0, <2>1
  <2>3. failed \in LookupStates /\ failed.of = k /\ failed.at = "copy"
    BY <1>0, <1>a DEF LookupStates
  <2>4. UNCHANGED <<source, quoteVars>>
    BY <1>4 DEF StoreCopy
  <2>5. CASE redis' = stored /\ AnswerList(l, lookup[l].version) /\ UNCHANGED redisFailed
    <3>1. /\ listed' = [listed EXCEPT ![k] = lookup[l].version]
          /\ lookup' = [lookup EXCEPT ![l] = NoLookup]
      BY <2>5 DEF AnswerList
    <3>2. listed' \in [Pages -> Versions] /\ \A p \in Pages : p # k => listed'[p] = listed[p] /\ redis'[p] = redis[p]
      BY <1>0, <2>1, <2>5, <3>1
    <3>3. listed'[k] # 0 /\ redis'[k] # 0
      BY <1>0, <2>1, <2>5, <3>1
    <3> HIDE DEF k, stored
    <3> QED BY <1>0, <2>2, <2>4, <2>5, <3>1, <3>2, <3>3, LookupKeeps
  <2>6. CASE redis' \in {redis, stored} /\ redisFailed' = TRUE /\ UNCHANGED listed
             /\ lookup' = [lookup EXCEPT ![l].at = "copy", ![l].version = 0]
    <3>1. lookup' = [lookup EXCEPT ![l] = failed]
      BY <1>0, <2>6
    <3>2. redis' \in [Pages -> Versions] /\ listed' \in [Pages -> Versions] /\ redisFailed'
      BY <1>0, <2>2, <2>6
    <3> HIDE DEF failed, k, stored
    <3>3. redisFailed' \in BOOLEAN /\ (~redisFailed' => \A p \in Pages : listed'[p] # 0 => redis'[p] # 0)
      BY <2>6
    <3>4. CopiesTypeOK' /\ ListedIsStored'
      BY <2>1, <2>3, <2>4, <3>1, <3>2, <3>3, LookupKeeps
    <3> QED BY <2>4, <2>6, <3>4
  <2> QED BY <1>4, <2>5, <2>6 DEF StoreCopy
<1>5. CASE ReadCopy(l)
  <2> DEFINE k == lookup[l].of
  <2>1. k \in Pages /\ UNCHANGED <<source, quoteVars, redis>>
    BY <1>0, <1>5 DEF ReadCopy
  <2>2. PICK v \in {redis[k], 0} : /\ listed' = [listed EXCEPT ![k] = v]
                                  /\ lookup' = [lookup EXCEPT ![l] = NoLookup]
                                  /\ \/ v = redis[k] /\ redisFailed' = redisFailed
                                     \/ redisFailed' = TRUE
    BY <1>5 DEF ReadCopy, AnswerList
  <2>3. listed' \in [Pages -> Versions] /\ \A p \in Pages : p # k => listed'[p] = listed[p]
    BY <1>0, <1>a, <2>1, <2>2
  <2>4. ~redisFailed' => listed'[k] = redis[k] /\ ~redisFailed
    BY <1>0, <2>1, <2>2
  <2>5. redisFailed' \in BOOLEAN
    BY <1>0, <2>2
  <2> HIDE DEF k
  <2>6. ~redisFailed' => \A p \in Pages : listed'[p] # 0 => redis'[p] # 0
    BY <1>0, <2>1, <2>3, <2>4
  <2> QED BY <1>0, <2>1, <2>2, <2>3, <2>4, <2>5, <2>6, LookupKeeps
<1> QED BY <1>1, <1>2, <1>3, <1>4, <1>5

\* A copy expires in Redis, which then is no longer as good as it was.
LEMMA CopyExpiresKeeps ==
  ASSUME CopiesTypeOK, ListedIsStored, NEW k \in Pages, CopyExpires(k)
  PROVE  /\ CopiesTypeOK' /\ ListedIsStored' /\ redisFailed' = TRUE
         /\ UNCHANGED <<source, quoteVars>>
<1>1. 0 \in Versions
  BY CopiesAssumption DEF Versions
<1>2. /\ redis' = [redis EXCEPT ![k] = 0] /\ redisFailed' = TRUE
      /\ UNCHANGED <<source, quoteVars, lookup, listed>>
  BY DEF CopyExpires
<1>3. CopiesTypeOK'
  BY <1>1, <1>2 DEF CopiesTypeOK, Cached, quoteVars
<1> QED BY <1>2, <1>3 DEF ListedIsStored

\* Every step keeps the invariant.
LEMMA CopiesNextKeeps ==
  ASSUME CopiesInv, [CopiesNext]_copyVars
  PROVE  /\ CopiesInv'
         /\ \A q \in Quotes : QuoteIsNoWorse(q)
         /\ \A k \in Pages : listed[k] # 0 /\ ~redisFailed' => listed'[k] # 0
<1> USE DEF CopiesInv
<1>2. ASSUME UNCHANGED <<source, quoteVars>>
      PROVE  QuotesInv' /\ \A q \in Quotes : QuoteIsNoWorse(q)
  BY <1>2, SameIsNoWorse DEF quoteVars, QuotesInv, CallIsAlone, InFlightIsCall, CallersWait, QuotedIsCopy
<1>3. ASSUME UNCHANGED listVars
      PROVE  /\ ListedIsStored'
             /\ \A k \in Pages : listed[k] # 0 /\ ~redisFailed' => listed'[k] # 0
  BY <1>3 DEF listVars, ListedIsStored
<1>4. ASSUME NEW r \in Callers, NEW q \in Quotes, AskQuote(r, q)
      PROVE  UNCHANGED listVars
  BY <1>4 DEF AskQuote
<1>5. CASE SourceChanges \/ \E q \in Quotes : Expire(q)
  <2>1. UNCHANGED listVars
    BY <1>5 DEF SourceChanges, Expire
  <2> QED BY <1>3, <1>5, <2>1, CopyStepKeeps
<1>6. ASSUME NEW f \in Upcalls, CoinGeckoReads(f) \/ Fetched(f) \/ FetchFails(f)
      PROVE  UNCHANGED listVars
  BY <1>6 DEF CoinGeckoReads, Fetched, FetchFails, EndUpcall
<1>7. CASE QuotesNext
  BY <1>3, <1>4, <1>5, <1>6, <1>7, AskQuoteKeeps, UpcallStepKeeps DEF QuotesNext
<1>8. CASE ListsNext
  BY <1>2, <1>5, <1>8, ListStepKeeps, CopyExpiresKeeps DEF ListsNext
<1>9. CASE UNCHANGED copyVars
  <2>1. CopiesTypeOK'
    BY <1>9 DEF copyVars, quoteVars, listVars, CopiesTypeOK
  <2> QED BY <1>2, <1>3, <1>9, <2>1 DEF copyVars
<1> QED BY <1>7, <1>8, <1>9 DEF CopiesNext

\* The inductive invariant holds in every reachable state.
LEMMA CopiesInvariant == CopiesSpec => []CopiesInv
<1> QED BY CopiesInitially, CopiesNextKeeps, PTL DEF CopiesSpec

\* Every variable of the served copies keeps its type.
THEOREM CopiesTypeCorrect == CopiesSpec => []CopiesTypeOK
<1>1. CopiesInv => CopiesTypeOK
  BY DEF CopiesInv
<1> QED BY <1>1, CopiesInvariant, PTL

\* A process never quotes an older answer of CoinGecko after a newer one, nor
\* an error after any, and a price once quoted is missing only because CoinGecko left
\* it out of a later answer (prices.service.ts); transfers that were listed are listed
\* again (token-transfers.service.ts), as long as Redis has not failed.  An action
\* property that ties what was answered last to the copies and to the calls under way.
THEOREM AnswersGetNoWorse == CopiesSpec => NoWorseThanBefore
<1> DEFINE Better == /\ \A q \in Quotes : QuoteIsNoWorse(q)
                     /\ \A k \in Pages : listed[k] # 0 /\ ~redisFailed' => listed'[k] # 0
<1>1. ASSUME CopiesInv, [CopiesNext]_copyVars
      PROVE  [Better]_copyVars
  BY <1>1, CopiesNextKeeps
<1> QED BY <1>1, CopiesInvariant, PTL DEF CopiesSpec, NoWorseThanBefore
=============================================================================
