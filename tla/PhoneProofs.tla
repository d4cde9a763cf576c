---------------------------- MODULE PhoneProofs ----------------------------
(***************************************************************************)
(* Proofs about the parts of the app, for every number of users, values,   *)
(* screens, wallets, payments and coupons.                                 *)
(***************************************************************************)
EXTENDS AppLock, SecureStorage, Payment, Redeem, AddressSync, WalletScreens, Motion,
  SequenceTheorems, FoldTheorems

-----------------------------------------------------------------------------
(***************************************************************************)
(* AppLock.  The property is about the step that opens the home screen and *)
(* the user whom the last decision was about; the invariant has to say the *)
(* same of the decisions still in flight, each of which may yet be the     *)
(* last.                                                                   *)
(***************************************************************************)
\* Since the sign-in every decision in flight is about the user who signed in,
\* and an app that is open was opened by one of them or by a prompt.
DecisionsAreOwn ==
  lockUser # Nobody /\ ~stray =>
    /\ \A s \in Slots : deciding[s].pc # "none" => deciding[s].for = lockUser
    /\ checked /\ ~locked => basis = lockUser

\* The inductive invariant.
LockInv == LockTypeOK /\ DecisionsAreOwn

\* A record of a decision.
Decisions == [for : People \cup {Nobody}, pc : {"none", "asked", "read"}, wallet : BOOLEAN]

\* At the launch nothing is decided.
LEMMA LockInitially == LockInit => LockInv
<1> SUFFICES ASSUME LockInit PROVE LockInv
  OBVIOUS
<1>1. NoDecision \in Decisions
  BY DEF NoDecision, Decisions
<1> QED BY <1>1 DEF LockInit, LockInv, LockTypeOK, DecisionsAreOwn, Decisions

\* A decision that is asked for takes a free slot.
LEMMA DecisionIsAsked ==
  ASSUME LockTypeOK, NEW u \in People, ApplyLockDecision(u)
  PROVE  /\ deciding' \in [Slots -> Decisions]
         /\ \A s \in Slots : \/ deciding'[s] = deciding[s]
                             \/ deciding'[s].for = u
BY DEF ApplyLockDecision, LockTypeOK, Decisions

\* Every step keeps the invariant; a sign-in is what has to forget the decisions in flight.
LEMMA LockNextKeeps ==
  ASSUME LockInv, [LockNext]_lockVars
  PROVE  LockInv'
<1> USE DEF LockInv
<1>0. deciding \in [Slots -> Decisions]
  BY DEF LockTypeOK, Decisions
<1>1. CASE UserAppears
  <2>1. PICK u \in People : lockUser' = u /\ ApplyLockDecision(u)
    BY <1>1 DEF UserAppears
  <2>2. /\ deciding' \in [Slots -> Decisions]
        /\ \A s \in Slots : deciding'[s] = deciding[s] \/ deciding'[s].for = u
    BY <2>1, DecisionIsAsked
  <2>3. LockTypeOK'
    BY <1>1, <2>1, <2>2 DEF UserAppears, LockTypeOK, CheckedAtSignIn, Decisions
  <2>4. DecisionsAreOwn'
    BY <1>1, <2>1, <2>2 DEF UserAppears, DecisionsAreOwn, CheckedAtSignIn
  <2> QED BY <2>3, <2>4
<1>2. CASE UserLeaves
  BY <1>2 DEF UserLeaves, LockTypeOK, DecisionsAreOwn
<1>3. ASSUME NEW s \in Slots, HasLocalWallet(s) PROVE LockInv'
  <2>1. deciding' = [deciding EXCEPT ![s] = [deciding[s] EXCEPT !.pc = "read", !.wallet = deciding[s].for \in hasSeed]]
    BY <1>3 DEF HasLocalWallet
  <2> DEFINE w == deciding[s].for \in hasSeed
             read == [deciding[s] EXCEPT !.pc = "read", !.wallet = w]
  <2>b. w \in BOOLEAN
    OBVIOUS
  <2> HIDE DEF w
  <2>a. read \in Decisions /\ read.for = deciding[s].for
    BY <1>0, <2>b DEF Decisions
  <2> HIDE DEF read
  <2>2. deciding' \in [Slots -> Decisions] /\ \A q \in Slots : deciding'[q].for = deciding[q].for
    BY <1>0, <2>1, <2>a DEF read, w
  <2>3. \A q \in Slots : deciding'[q].pc # "none" => deciding[q].pc # "none"
    BY <1>0, <1>3, <2>1 DEF HasLocalWallet
  <2> QED BY <1>3, <2>2, <2>3 DEF HasLocalWallet, LockTypeOK, DecisionsAreOwn, Decisions
<1>4. ASSUME NEW s \in Slots, Decide(s) PROVE LockInv'
  <2>1. deciding[s].pc # "none" /\ deciding[s].for \in People \cup {Nobody} /\ locked' \in BOOLEAN
    BY <1>0, <1>4 DEF Decide, Decisions
  <2>2. NoDecision \in Decisions /\ NoDecision.pc = "none"
    BY DEF NoDecision, Decisions
  <2>3. LockTypeOK'
    BY <1>0, <1>4, <2>1, <2>2 DEF Decide, LockTypeOK, Decisions
  <2>4. DecisionsAreOwn'
    BY <1>0, <1>4, <2>1, <2>2 DEF Decide, DecisionsAreOwn
  <2> QED BY <2>3, <2>4
<1>5. CASE ComeBack
  <2>1. CASE UNCHANGED deciding
    BY <1>5, <2>1 DEF ComeBack, LockTypeOK, DecisionsAreOwn
  <2>2. CASE lockUser # Nobody /\ ApplyLockDecision(lockUser)
    <3>1. lockUser \in People
      BY <2>2 DEF LockTypeOK
    <3>2. /\ deciding' \in [Slots -> Decisions]
          /\ \A s \in Slots : deciding'[s] = deciding[s] \/ deciding'[s].for = lockUser
      BY <2>2, <3>1, DecisionIsAsked
    <3> QED BY <1>5, <3>2 DEF ComeBack, LockTypeOK, DecisionsAreOwn, Decisions
  <2> QED BY <1>5, <2>1, <2>2 DEF ComeBack
<1>6. CASE GoToBackground \/ Unlock \/ EndUnlock \/ OpenHome
  <2>1. CASE GoToBackground \/ Unlock
    <3>1. LockTypeOK'
      BY <2>1 DEF GoToBackground, Unlock, LockTypeOK
    <3>2. DecisionsAreOwn'
      BY <2>1 DEF GoToBackground, Unlock, DecisionsAreOwn
    <3> QED BY <3>1, <3>2
  <2>2. CASE EndUnlock
    <3>1. LockTypeOK'
      BY <2>2 DEF EndUnlock, LockTypeOK
    <3>2. DecisionsAreOwn'
      BY <2>2 DEF EndUnlock, DecisionsAreOwn
    <3> QED BY <3>1, <3>2
  <2>3. CASE OpenHome
    BY <2>3 DEF OpenHome, LockTypeOK, DecisionsAreOwn
  <2> QED BY <1>6, <2>1, <2>2, <2>3
<1>7. CASE UNCHANGED lockVars
  BY <1>7 DEF lockVars, LockTypeOK, DecisionsAreOwn
<1> QED BY <1>1, <1>2, <1>3, <1>4, <1>5, <1>6, <1>7 DEF LockNext

\* The inductive invariant holds in every reachable state.
LEMMA LockInvariant == LockSpec => []LockInv
<1> QED BY LockInitially, LockNextKeeps, PTL DEF LockSpec

\* Every variable of the lock keeps its type.
THEOREM LockTypeCorrect == LockSpec => []LockTypeOK
<1>1. LockInv => LockTypeOK
  BY DEF LockInv
<1> QED BY <1>1, LockInvariant, PTL

\* Home is opened only on a decision about the user who is signed in, or a
\* prompt they have answered (hooks/useAppLockBiometrics.ts, hooks/useWalletBootstrap.ts),
\* in a session during which no decision of an earlier one was under way.
THEOREM HomeIsDecided == LockSpec => HomeWaitsForDecision
<1>1. ASSUME LockInv, [LockNext]_lockVars
      PROVE  [(opened' /\ ~opened /\ ~stray) => basis = lockUser]_lockVars
  <2>1. CASE OpenHome
    BY <1>1, <2>1 DEF LockInv, OpenHome, DecisionsAreOwn
  <2>2. CASE ~OpenHome
    BY <1>1, <2>2 DEF LockNext, lockVars, UserAppears, UserLeaves, HasLocalWallet, Decide,
       GoToBackground, ComeBack, Unlock, EndUnlock
  <2> QED BY <2>1, <2>2
<1> QED BY <1>1, LockInvariant, PTL DEF LockSpec, HomeWaitsForDecision

-----------------------------------------------------------------------------
(***************************************************************************)
(* SecureStorage.  What can be read now does not say what can be read      *)
(* after the calls in flight; the invariant names all the stores ahead.    *)
(***************************************************************************)
\* What an entry may hold.
Values == Blobs \cup {Missing}
\* Values that need chunks.
ChunkedBlobs == {v \in Blobs : ChunksOf[v] > 0}
\* The heads and the calls that setItem and removeItem make.
HeadsInUse == {Direct(v) : v \in Values} \cup {Header(ChunksOf[v]) : v \in ChunkedBlobs}
CallsInUse == {SetHead(h) : h \in HeadsInUse} \cup {SetChunk(v, i) : v \in Values, i \in Indices}
\* The entries of the platform's store.
Disks == [head : HeadsInUse, chunk : [Indices -> Pieces]]

\* The platform's store, before and after it performs a call.
Now == [head |-> head, chunk |-> chunk]
After(disk, call) ==
  [head |-> IF call.to = "head" THEN call.head ELSE disk.head,
   chunk |-> IF call.to = "chunk" THEN [disk.chunk EXCEPT ![call.piece.at] = call.piece] ELSE disk.chunk]

\* getItem of a store.
ReadOf(disk) ==
  IF disk.head.is = "value" THEN disk.head.value
  ELSE LET parts == {disk.chunk[i].value : i \in 0..(disk.head.count - 1)}
       IN IF Missing \in parts THEN Missing
          ELSE IF \E v \in Blobs : parts = {v} /\ ChunksOf[v] = disk.head.count
               THEN CHOOSE v \in Blobs : parts = {v}
               ELSE Torn

\* What the store will go through as it performs the calls made so far.
Ahead(disks, now, made) ==
  /\ disks \in [0..Len(made) -> Disks] /\ disks[0] = now
  /\ \A k \in 1..Len(made) : disks[k] = After(disks[k - 1], made[k])

\* The calls made so far leave the last value set, or its chunks under a header
\* that is still to be written.
LeavesLast(disk, inFlight, last) ==
  IF inFlight = <<>> THEN ReadOf(disk) = last
  ELSE /\ last = inFlight[Len(inFlight)]
       /\ \A i \in 0..(ChunksOf[last] - 1) : disk.chunk[i].value = last

\* The types.
StorageShapeOK ==
  /\ Now \in Disks /\ calls \in Seq(CallsInUse) /\ writes \in Seq(ChunkedBlobs)
  /\ lastSet \in Blobs \cup {Missing, Torn} /\ mayRead \subseteq Blobs \cup {Missing, Torn}
  /\ mixing \in BOOLEAN /\ overtaken \in BOOLEAN

\* The inductive invariant: the calls in flight take the store from what it is
\* to what was set last, through states each of which can be read.
StorageInv ==
  /\ StorageShapeOK /\ lastSet \in mayRead
  /\ \E disks :
       /\ Ahead(disks, Now, calls)
       /\ ~overtaken => LeavesLast(disks[Len(calls)], writes, lastSet)
       /\ ~overtaken /\ ~mixing => /\ Len(writes) <= 1
                                   /\ \A k \in 0..Len(calls) : ReadOf(disks[k]) \in mayRead

-----------------------------------------------------------------------------
\* getItem reads the store as it is.
LEMMA GetItemReadsNow == GetItem = ReadOf(Now)
BY DEF GetItem, ReadOf, Now

\* The calls have the types that the model gives them.
LEMMA ShapesAreTyped ==
  /\ 0 \in Indices /\ HeadsInUse \subseteq Heads
  /\ \A v \in Values, i \in Indices : Chunk(v, i) \in Pieces
  /\ \A c \in CallsInUse : c.head \in Heads /\ c.piece \in Pieces /\ c.to \in {"head", "chunk"}
  /\ \A v \in ChunkedBlobs : 0..(ChunksOf[v] - 1) \subseteq Indices /\ ChunksOf[v] \in Nat
  /\ Missing \notin Blobs /\ Torn \notin Blobs /\ Missing # Torn
<1>1. /\ ChunksOf \in [Blobs -> Nat] /\ \E v \in Blobs : ChunksOf[v] > 0
      /\ Missing \notin Blobs /\ Torn \notin Blobs /\ Missing # Torn
  BY StorageAssumption DEF Missing, Torn
<1>2. 0 \in Indices
  BY <1>1 DEF Indices
<1>3. \A v \in ChunkedBlobs : 0..(ChunksOf[v] - 1) \subseteq Indices /\ ChunksOf[v] \in Nat
  BY <1>1 DEF Indices, ChunkedBlobs
<1>4. HeadsInUse \subseteq Heads
  BY <1>3 DEF HeadsInUse, Heads, Direct, Header, Values
<1>5. \A v \in Values, i \in Indices : Chunk(v, i) \in Pieces
  BY DEF Chunk, Pieces, Values
<1>6. Direct(Missing) \in HeadsInUse
  BY DEF HeadsInUse, Values
<1>7. \A c \in CallsInUse : c.head \in Heads /\ c.piece \in Pieces /\ c.to \in {"head", "chunk"}
  <2>1. ASSUME NEW h \in HeadsInUse
        PROVE  SetHead(h).head \in Heads /\ SetHead(h).piece \in Pieces /\ SetHead(h).to \in {"head", "chunk"}
    BY <1>2, <1>4, <1>5 DEF SetHead, Values
  <2>2. ASSUME NEW v \in Values, NEW i \in Indices
        PROVE  /\ SetChunk(v, i).head \in Heads /\ SetChunk(v, i).piece \in Pieces
               /\ SetChunk(v, i).to \in {"head", "chunk"}
    BY <1>4, <1>5, <1>6 DEF SetChunk
  <2> QED BY <2>1, <2>2 DEF CallsInUse
<1> QED BY <1>1, <1>2, <1>3, <1>4, <1>5, <1>7

\* The invariant implies the types.
LEMMA StorageTypes == StorageInv => StorageTypeOK
<1> SUFFICES ASSUME StorageInv PROVE StorageTypeOK
  OBVIOUS
<1>1. head \in Heads /\ chunk \in [Indices -> Pieces]
  BY ShapesAreTyped DEF StorageInv, StorageShapeOK, Now, Disks
<1>2. \A k \in DOMAIN calls : calls[k] \in CallsInUse
  BY ElementOfSeq, LenProperties DEF StorageInv, StorageShapeOK
<1>3. \A k \in DOMAIN writes : writes[k] \in Blobs
  BY ElementOfSeq, LenProperties DEF StorageInv, StorageShapeOK, ChunkedBlobs
<1> QED BY <1>1, <1>2, <1>3, ShapesAreTyped DEF StorageTypeOK, StorageInv, StorageShapeOK

\* One call, on one entry.
LEMMA AfterSetHead ==
  ASSUME NEW disk \in Disks, NEW h \in HeadsInUse
  PROVE  /\ After(disk, SetHead(h)) \in Disks /\ After(disk, SetHead(h)).head = h
         /\ After(disk, SetHead(h)).chunk = disk.chunk
BY DEF After, SetHead, Disks

\* One call on one chunk.
LEMMA AfterSetChunk ==
  ASSUME NEW disk \in Disks, NEW v \in Values, NEW i \in Indices
  PROVE  /\ After(disk, SetChunk(v, i)) \in Disks /\ After(disk, SetChunk(v, i)).head = disk.head
         /\ After(disk, SetChunk(v, i)).chunk = [disk.chunk EXCEPT ![i] = Chunk(v, i)]
<1>1. Chunk(v, i) \in Pieces /\ Chunk(v, i).at = i
  BY ShapesAreTyped DEF Chunk
<1> QED BY <1>1 DEF After, SetChunk, Disks

\* A call leaves a store.
LEMMA AfterIsDisk == \A disk \in Disks, c \in CallsInUse : After(disk, c) \in Disks
<1>1. \A disk \in Disks, h \in HeadsInUse : After(disk, SetHead(h)) \in Disks
  BY AfterSetHead
<1>2. \A disk \in Disks, v \in Values, i \in Indices : After(disk, SetChunk(v, i)) \in Disks
  BY AfterSetChunk
<1> QED BY <1>1, <1>2 DEF CallsInUse

\* A value is read as it was stored.
LEMMA DirectReads ==
  ASSUME NEW v \in Values, NEW disk, disk.head = Direct(v)
  PROVE  ReadOf(disk) = v
BY DEF ReadOf, Direct

\* A value in chunks is read as it was stored.
LEMMA ChunkedReads ==
  ASSUME NEW v \in ChunkedBlobs, NEW disk, disk.head = Header(ChunksOf[v]),
         \A i \in 0..(ChunksOf[v] - 1) : disk.chunk[i].value = v
  PROVE  ReadOf(disk) = v
<1> DEFINE parts == {disk.chunk[i].value : i \in 0..(disk.head.count - 1)}
<1>1. disk.head.is = "header" /\ disk.head.count = ChunksOf[v] /\ ChunksOf[v] \in Nat \ {0}
  BY ShapesAreTyped DEF Header, ChunkedBlobs
<1>2. parts = {v}
  <2>1. 0 \in 0..(ChunksOf[v] - 1)
    BY <1>1
  <2> QED BY <1>1, <2>1
<1> HIDE DEF parts
<1>3. v \in Blobs /\ Missing \notin parts
  BY <1>2, ShapesAreTyped DEF ChunkedBlobs
<1>4. (CHOOSE u \in Blobs : parts = {u}) = v
  BY <1>2, <1>3
<1> QED BY <1>1, <1>2, <1>3, <1>4 DEF ReadOf, parts

\* What is read is a value, nothing or torn.
LEMMA ReadTyped == \A disk \in Disks : ReadOf(disk) \in Blobs \cup {Missing, Torn}
<1> SUFFICES ASSUME NEW disk \in Disks PROVE ReadOf(disk) \in Blobs \cup {Missing, Torn}
  OBVIOUS
<1>1. disk.head \in HeadsInUse
  BY DEF Disks
<1>2. disk.head.is = "value" => disk.head.value \in Values
  BY <1>1 DEF HeadsInUse, Direct, Header
<1>3. ASSUME NEW parts, \E v \in Blobs : parts = {v} PROVE (CHOOSE v \in Blobs : parts = {v}) \in Blobs
  BY <1>3
<1> QED BY <1>2, <1>3 DEF ReadOf, Values

\* What a call more adds to what lies ahead.
OneAhead(more, disks, now, made, c) ==
  /\ Ahead(more, now, Append(made, c))
  /\ \A k \in 0..Len(made) : more[k] = disks[k]
  /\ more[Len(made) + 1] = After(disks[Len(made)], c)
  /\ disks[Len(made)] \in Disks /\ Len(Append(made, c)) = Len(made) + 1

\* A call more leads to one store more.
LEMMA OneMore ==
  ASSUME NEW now, NEW made \in Seq(CallsInUse), NEW c \in CallsInUse,
         NEW disks, Ahead(disks, now, made)
  PROVE  \E more : OneAhead(more, disks, now, made, c)
<1> DEFINE L == Len(made)
           more == [k \in 0..(L + 1) |-> IF k = L + 1 THEN After(disks[L], c) ELSE disks[k]]
<1>1. /\ L \in Nat /\ Len(Append(made, c)) = L + 1
      /\ \A k \in 1..L : Append(made, c)[k] = made[k]
      /\ Append(made, c)[L + 1] = c
  BY LenProperties, AppendProperties
<1>2. /\ disks \in [0..L -> Disks] /\ disks[0] = now /\ \A k \in 1..L : disks[k] = After(disks[k - 1], made[k])
  BY DEF Ahead
<1> HIDE DEF L
<1>3. disks[L] \in Disks /\ After(disks[L], c) \in Disks
  BY <1>1, <1>2, AfterIsDisk
<1>4. more \in [0..(L + 1) -> Disks] /\ more[0] = now
  BY <1>1, <1>2, <1>3
<1>5. \A k \in 0..L : more[k] = disks[k]
  BY <1>1
<1>6. more[L + 1] = After(disks[L], c)
  BY <1>1
<1> HIDE DEF more
<1>7. ASSUME NEW k \in 1..(L + 1) PROVE more[k] = After(more[k - 1], Append(made, c)[k])
  <2>1. CASE k = L + 1
    BY <1>1, <1>5, <1>6, <2>1
  <2>2. CASE k # L + 1
    <3>1. k \in 1..L /\ k \in 0..L /\ k - 1 \in 0..L
      BY <1>1, <2>2
    <3> QED BY <1>1, <1>2, <1>5, <3>1
  <2> QED BY <2>1, <2>2
<1>8. Ahead(more, now, Append(made, c))
  BY <1>1, <1>4, <1>7 DEF Ahead
<1> QED BY <1>1, <1>3, <1>5, <1>6, <1>8 DEF L, OneAhead

\* The chunks of a value, one call each.
ChunkCalls(v, n) == [k \in 1..n |-> SetChunk(v, k - 1)]
\* A store with the first n chunks of a value in place of its own.
Overwritten(disk, v, n) ==
  [head |-> disk.head, chunk |-> [i \in Indices |-> IF i < n THEN Chunk(v, i) ELSE disk.chunk[i]]]

\* There are entries for n chunks.
Fits(n) == n \in Nat /\ 0..(n - 1) \subseteq Indices

\* Chunk by chunk.
LEMMA OverwritesOne ==
  ASSUME NEW disk \in Disks, NEW v \in Values, NEW n \in Nat
  PROVE  /\ Overwritten(disk, v, n) \in Disks /\ Overwritten(disk, v, 0) = disk
         /\ n \in Indices => After(Overwritten(disk, v, n), SetChunk(v, n)) = Overwritten(disk, v, n + 1)
<1>1. Overwritten(disk, v, n) \in Disks
  BY ShapesAreTyped DEF Overwritten, Disks
<1>2. Indices \subseteq Nat
  BY DEF Indices
<1>3. Overwritten(disk, v, 0) = disk
  BY <1>2 DEF Overwritten, Disks
<1>4. ASSUME n \in Indices
      PROVE  After(Overwritten(disk, v, n), SetChunk(v, n)) = Overwritten(disk, v, n + 1)
  <2> DEFINE chunks == [i \in Indices |-> IF i < n THEN Chunk(v, i) ELSE disk.chunk[i]]
             further == [i \in Indices |-> IF i < n + 1 THEN Chunk(v, i) ELSE disk.chunk[i]]
             a == After(Overwritten(disk, v, n), SetChunk(v, n))
  <2>1. [chunks EXCEPT ![n] = Chunk(v, n)] = further
    <3>1. \A i \in Indices : (i < n + 1) <=> (i < n \/ i = n)
      BY <1>2
    <3> QED BY <1>4, <3>1
  <2>2. Overwritten(disk, v, n).head = disk.head /\ Overwritten(disk, v, n).chunk = chunks
    BY DEF Overwritten
  <2>3. a \in Disks /\ a.head = disk.head /\ a.chunk = [chunks EXCEPT ![n] = Chunk(v, n)]
    BY <1>1, <1>4, <2>2, AfterSetChunk
  <2>4. a = [head |-> a.head, chunk |-> a.chunk]
    BY <2>3 DEF Disks
  <2> HIDE DEF a
  <2>5. a = [head |-> disk.head, chunk |-> further]
    BY <2>1, <2>3, <2>4
  <2> QED BY <2>5 DEF Overwritten, a
<1> QED BY <1>1, <1>3, <1>4

\* What the chunks of a value add to what lies ahead.
ChunksAhead(more, disks, now, made, v, n) ==
  /\ Ahead(more, now, made \o ChunkCalls(v, n))
  /\ made \o ChunkCalls(v, n) \in Seq(CallsInUse)
  /\ Len(made \o ChunkCalls(v, n)) = Len(made) + n /\ disks[Len(made)] \in Disks
  /\ \A k \in 0..Len(made) : more[k] = disks[k]
  /\ \A k \in Len(made)..(Len(made) + n) :
       more[k] = Overwritten(disks[Len(made)], v, k - Len(made))

\* n calls more lead to n stores more.
LEMMA MoreChunks ==
  ASSUME NEW now, NEW made \in Seq(CallsInUse), NEW disks, Ahead(disks, now, made),
         NEW v \in Values, NEW n, Fits(n)
  PROVE  \E more : ChunksAhead(more, disks, now, made, v, n)
<1> DEFINE L == Len(made)
           add == ChunkCalls(v, n)
           all == made \o add
           more == [k \in 0..(L + n) |-> IF k <= L THEN disks[k] ELSE Overwritten(disks[L], v, k - L)]
<1>0. n \in Nat /\ 0..(n - 1) \subseteq Indices
  BY DEF Fits
<1>1. /\ add \in Seq(CallsInUse) /\ Len(add) = n /\ \A k \in 1..n : add[k] = SetChunk(v, k - 1)
  <2>1. \A k \in 1..n : SetChunk(v, k - 1) \in CallsInUse
    BY <1>0 DEF CallsInUse
  <2>2. add \in [1..n -> CallsInUse]
    BY <2>1 DEF ChunkCalls
  <2>3. add \in Seq(CallsInUse)
    BY <1>0, <2>2
  <2>4. Len(add) = n
    BY <1>0, <2>2, <2>3, LenProperties
  <2>5. \A k \in 1..n : add[k] = SetChunk(v, k - 1)
    BY DEF ChunkCalls
  <2> HIDE DEF add
  <2> QED BY <2>3, <2>4, <2>5
<1> HIDE DEF add
<1>2. /\ L \in Nat /\ all \in Seq(CallsInUse) /\ Len(all) = L + n
      /\ \A k \in 1..L : all[k] = made[k]
      /\ \A k \in 1..n : all[L + k] = add[k]
  <2>1. L \in Nat
    BY LenProperties
  <2>2. /\ all \in Seq(CallsInUse) /\ Len(all) = L + n
        /\ \A k \in 1..(L + n) : all[k] = IF k <= L THEN made[k] ELSE add[k - L]
    BY <1>0, <1>1, ConcatProperties
  <2> HIDE DEF L, all
  <2>3. \A k \in 1..L : all[k] = made[k]
    BY <1>0, <2>1, <2>2
  <2>4. ASSUME NEW k \in 1..n PROVE all[L + k] = add[k]
    <3>1. L + k \in 1..(L + n) /\ ~(L + k <= L) /\ (L + k) - L = k
      BY <1>0, <2>1
    <3> QED BY <2>2, <3>1
  <2> QED BY <2>1, <2>2, <2>3, <2>4
<1>3. /\ disks \in [0..L -> Disks] /\ disks[0] = now /\ \A k \in 1..L : disks[k] = After(disks[k - 1], made[k])
  BY DEF Ahead
<1> HIDE DEF L, all
<1>4. disks[L] \in Disks
  BY <1>2, <1>3
<1>5. \A k \in 0..L : more[k] = disks[k]
  BY <1>0, <1>2
<1>6. ASSUME NEW j \in 0..n PROVE more[L + j] = Overwritten(disks[L], v, j)
  <2>1. CASE j = 0
    BY <1>0, <1>2, <1>4, <1>5, <2>1, OverwritesOne
  <2>2. CASE j # 0
    <3>1. L + j \in 0..(L + n) /\ ~(L + j <= L) /\ (L + j) - L = j
      BY <1>0, <1>2, <2>2
    <3> QED BY <3>1
  <2> QED BY <2>1, <2>2
<1>7. more \in [0..(L + n) -> Disks] /\ more[0] = now
  <2>1. \A j \in 0..n : Overwritten(disks[L], v, j) \in Disks
    BY <1>0, <1>4, OverwritesOne
  <2>2. ASSUME NEW k \in 0..(L + n), ~(k <= L) PROVE Overwritten(disks[L], v, k - L) \in Disks
    <3>1. k - L \in 0..n
      BY <1>0, <1>2, <2>2
    <3> QED BY <2>1, <3>1
  <2>3. \A k \in 0..(L + n) : k <= L => disks[k] \in Disks
    BY <1>0, <1>2, <1>3
  <2>4. \A k \in 0..(L + n) : (IF k <= L THEN disks[k] ELSE Overwritten(disks[L], v, k - L)) \in Disks
    BY <2>2, <2>3
  <2>5. 0 \in 0..(L + n) /\ 0 <= L
    BY <1>0, <1>2
  <2> QED BY <1>3, <2>4, <2>5
<1> HIDE DEF more
<1>8. ASSUME NEW k \in 1..(L + n) PROVE more[k] = After(more[k - 1], all[k])
  <2>1. CASE k <= L
    <3>1. k \in 1..L /\ k \in 0..L /\ k - 1 \in 0..L
      BY <1>2, <2>1
    <3> QED BY <1>2, <1>3, <1>5, <3>1
  <2>2. CASE ~(k <= L)
    <3> DEFINE j == k - L - 1
    <3>1. j \in 0..(n - 1) /\ j \in 0..n /\ j + 1 \in 1..n /\ j + 1 \in 0..n /\ j \in Nat
          /\ L + (j + 1) = k /\ L + j = k - 1 /\ (j + 1) - 1 = j
      BY <1>0, <1>2, <2>2
    <3> HIDE DEF j
    <3>2. all[k] = SetChunk(v, j)
      BY <1>1, <1>2, <3>1
    <3>3. more[k] = Overwritten(disks[L], v, j + 1) /\ more[k - 1] = Overwritten(disks[L], v, j)
      BY <1>6, <3>1
    <3>4. j \in Indices
      BY <1>0, <3>1
    <3> QED BY <1>4, <3>1, <3>2, <3>3, <3>4, OverwritesOne
  <2> QED BY <2>1, <2>2
<1>9. Ahead(more, now, all)
  BY <1>2, <1>7, <1>8 DEF Ahead
<1>10. ASSUME NEW k \in L..(L + n) PROVE more[k] = Overwritten(disks[L], v, k - L)
  <2>1. k - L \in 0..n /\ L + (k - L) = k
    BY <1>0, <1>2
  <2> QED BY <1>6, <2>1
<1> QED BY <1>2, <1>4, <1>5, <1>9, <1>10 DEF L, all, add, ChunksAhead

-----------------------------------------------------------------------------
\* A store that has a value as its head is read without its chunks.
LEMMA ChunksAreUnread ==
  ASSUME NEW disk \in Disks, disk.head.is = "value", NEW v \in Values, NEW n \in Nat
  PROVE  ReadOf(Overwritten(disk, v, n)) = ReadOf(disk)
BY DEF Overwritten, ReadOf

\* No header is there or on its way if none was there and none is called for.
LEMMA NoHeaderAhead ==
  ASSUME NEW disks, NEW now, NEW made \in Seq(CallsInUse), Ahead(disks, now, made),
         now.head.is = "value", \A k \in DOMAIN made : made[k].head.is # "header"
  PROVE  \A k \in 0..Len(made) : disks[k].head.is = "value"
<1>0. /\ Len(made) \in Nat /\ DOMAIN made = 1..Len(made) /\ \A k \in 1..Len(made) : made[k] \in CallsInUse
      /\ disks[0] = now /\ \A k \in 1..Len(made) : disks[k] = After(disks[k - 1], made[k])
  BY LenProperties, ElementOfSeq DEF Ahead
<1> DEFINE Good == {n \in Nat : n <= Len(made) => disks[n].head.is = "value"}
<1>1. 0 \in Good
  BY <1>0
<1>2. ASSUME NEW n \in Nat, n \in Good PROVE n + 1 \in Good
  <2>1. CASE n + 1 <= Len(made)
    <3>1. n + 1 \in 1..Len(made) /\ (n + 1) - 1 = n /\ n <= Len(made)
      BY <1>0, <2>1
    <3>2. disks[n + 1] = After(disks[n], made[n + 1]) /\ made[n + 1] \in CallsInUse
      BY <1>0, <3>1
    <3>3. made[n + 1].head.is = "value"
      BY <1>0, <3>1, <3>2, ShapesAreTyped DEF Heads
    <3>4. disks[n].head.is = "value"
      BY <1>2, <3>1
    <3>5. disks[n + 1].head.is = "value"
      BY <3>2, <3>3, <3>4 DEF After
    <3> QED BY <3>5
  <2> QED BY <2>1
<1>3. Nat \subseteq Good
  <2> HIDE DEF Good
  <2> QED BY <1>1, <1>2, SetOfNaturals
<1>4. \A n \in Nat : n <= Len(made) => disks[n].head.is = "value"
  BY <1>3
<1> QED BY <1>0, <1>4

\* The store is empty.
LEMMA StorageInitially == StorageInit => StorageInv
<1> SUFFICES ASSUME StorageInit PROVE StorageInv
  OBVIOUS
<1>1. Now \in Disks /\ Now.head = Direct(Missing)
  <2>1. Direct(Missing) \in HeadsInUse
    BY DEF HeadsInUse, Values
  <2>2. \A i \in Indices : Chunk(Missing, i) \in Pieces
    BY ShapesAreTyped DEF Values
  <2> QED BY <2>1, <2>2 DEF StorageInit, Now, Disks
<1>2. ReadOf(Now) = Missing
  BY <1>1, DirectReads DEF Values
<1>3. calls = <<>> /\ writes = <<>> /\ Len(<<>>) = 0 /\ calls \in Seq(CallsInUse) /\ writes \in Seq(ChunkedBlobs)
  BY EmptySeq DEF StorageInit
<1> DEFINE disks == [k \in 0..0 |-> Now]
<1>4. disks \in [0..0 -> Disks] /\ disks[0] = Now
  BY <1>1
<1>5. StorageShapeOK
  BY <1>1, <1>3 DEF StorageShapeOK, StorageInit
<1> HIDE DEF disks
<1>6. Ahead(disks, Now, calls) /\ disks[Len(calls)] = Now
  BY <1>3, <1>4 DEF Ahead
<1>7. \A k \in 0..Len(calls) : disks[k] = Now
  BY <1>3, <1>4
<1>8. LeavesLast(disks[Len(calls)], writes, lastSet) /\ Len(writes) <= 1
      /\ \A k \in 0..Len(calls) : ReadOf(disks[k]) \in mayRead
  BY <1>2, <1>3, <1>6, <1>7 DEF LeavesLast, StorageInit
<1> QED BY <1>5, <1>6, <1>8 DEF StorageInv, StorageInit

\* Nothing is ahead of a store that is at rest or has just been launched.
LEMMA NothingAhead ==
  ASSUME Now' \in Disks, calls' = <<>>, writes' = <<>>,
         lastSet' \in Blobs \cup {Missing, Torn}, mixing' \in BOOLEAN, overtaken' \in BOOLEAN,
         mayRead' = {lastSet'}, ~overtaken' => ReadOf(Now') = lastSet'
  PROVE  StorageInv'
<1> DEFINE disks == [k \in 0..0 |-> Now']
<1>1. disks \in [0..0 -> Disks] /\ disks[0] = Now'
  OBVIOUS
<1>2. Len(<<>>) = 0 /\ <<>> \in Seq(CallsInUse) /\ <<>> \in Seq(ChunkedBlobs)
  BY EmptySeq
<1> HIDE DEF disks
<1>3. /\ disks \in [0..Len(calls') -> Disks] /\ disks[0] = Now' /\ Len(calls') = 0
      /\ \A k \in 1..Len(calls') : disks[k] = After(disks[k - 1], calls'[k])
  BY <1>1, <1>2
<1>4. \A k \in 0..Len(calls') : disks[k] = Now'
  BY <1>1, <1>3
<1>5. ~overtaken' => LeavesLast(disks[Len(calls')], writes', lastSet')
  BY <1>3 DEF LeavesLast
<1>6. ~overtaken' => Len(writes') <= 1 /\ \A k \in 0..Len(calls') : ReadOf(disks[k]) \in mayRead'
  BY <1>2, <1>4
<1>7. StorageShapeOK'
  BY <1>2 DEF StorageShapeOK
<1> QED BY <1>3, <1>5, <1>6, <1>7 DEF StorageInv, Ahead

\* setItem.  A value stored directly replaces what is read at once; the chunks
\* of another change nothing that is read as long as no header is there or on
\* its way (~mixing).
LEMMA SetItemKeeps ==
  ASSUME StorageInv, NEW v \in Blobs, SetItem(v)
  PROVE  StorageInv'
<1>0. /\ StorageShapeOK /\ calls \in Seq(CallsInUse) /\ writes \in Seq(ChunkedBlobs) /\ Now \in Disks
      /\ ChunksOf[v] \in Nat /\ v \in Values
  BY StorageAssumption DEF StorageInv, StorageShapeOK, Values
<1>1. PICK disks :
       /\ Ahead(disks, Now, calls)
       /\ ~overtaken => LeavesLast(disks[Len(calls)], writes, lastSet)
       /\ ~overtaken /\ ~mixing => /\ Len(writes) <= 1
                                   /\ \A k \in 0..Len(calls) : ReadOf(disks[k]) \in mayRead
  BY DEF StorageInv
<1> DEFINE L == Len(calls)
<1>2. L \in Nat
  BY <1>0, LenProperties
<1>3. /\ Now' = Now /\ lastSet' = v /\ mayRead' = mayRead \cup {v}
      /\ mixing' = (mixing \/ (ChunksOf[v] > 0 /\ Chunked))
      /\ overtaken' = (overtaken \/ (ChunksOf[v] = 0 /\ writes # <<>>))
      /\ calls' = calls \o FirstCalls(v)
      /\ writes' = IF ChunksOf[v] = 0 THEN writes ELSE Append(writes, v)
  BY DEF SetItem, Now
<1>4. CASE ChunksOf[v] = 0
  <2> DEFINE c == SetHead(Direct(v))
  <2>1. Direct(v) \in HeadsInUse /\ c \in CallsInUse
    BY <1>0 DEF HeadsInUse, CallsInUse
  <2>2. calls' = Append(calls, c) /\ UNCHANGED writes
    BY <1>0, <1>3, <1>4, <2>1, AppendIsConcat DEF FirstCalls
  <2> HIDE DEF c
  <2>2a. PICK more : OneAhead(more, disks, Now, calls, c)
    BY <1>0, <1>1, <2>1, OneMore
  <2>3. /\ Ahead(more, Now, calls') /\ Len(calls') = L + 1 /\ calls' \in Seq(CallsInUse)
        /\ \A k \in 0..L : more[k] = disks[k]
        /\ more[L + 1] = After(disks[L], c) /\ disks[L] \in Disks
    BY <1>0, <2>1, <2>2, <2>2a, AppendProperties DEF OneAhead
  <2>4. ReadOf(more[L + 1]) = v
    BY <1>0, <2>1, <2>3, AfterSetHead, DirectReads DEF c
  <2>5. StorageShapeOK'
    BY <1>0, <1>3, <2>2, <2>3 DEF StorageShapeOK
  <2>6. ~overtaken' => LeavesLast(more[Len(calls')], writes', lastSet')
    BY <1>3, <1>4, <2>2, <2>3, <2>4 DEF LeavesLast
  <2>7. ASSUME ~overtaken', ~mixing'
        PROVE  Len(writes') <= 1 /\ \A k \in 0..Len(calls') : ReadOf(more[k]) \in mayRead'
    <3>1. Len(writes') <= 1 /\ \A k \in 0..L : ReadOf(more[k]) \in mayRead'
      BY <1>1, <1>3, <2>2, <2>3, <2>7
    <3>2. ReadOf(more[L + 1]) \in mayRead'
      BY <1>3, <2>4
    <3>3. \A k \in 0..(L + 1) : k \in 0..L \/ k = L + 1
      BY <1>2
    <3> QED BY <2>3, <3>1, <3>2, <3>3
  <2> QED BY <1>3, <2>3, <2>5, <2>6, <2>7 DEF StorageInv
<1>5. CASE ChunksOf[v] # 0
  <2> DEFINE n == ChunksOf[v]
  <2>1. v \in ChunkedBlobs /\ 0..(n - 1) \subseteq Indices
    BY <1>0, <1>5, ShapesAreTyped DEF ChunkedBlobs
  <2>2. calls' = calls \o ChunkCalls(v, n) /\ writes' = Append(writes, v)
    BY <1>3, <1>5 DEF FirstCalls, ChunkCalls
  <2>2a. PICK more : ChunksAhead(more, disks, Now, calls, v, n)
    <3>1. Fits(n)
      BY <1>0, <2>1 DEF Fits
    <3> HIDE DEF n
    <3> QED BY <1>0, <1>1, <3>1, MoreChunks
  <2>3.
        /\ Ahead(more, Now, calls') /\ Len(calls') = L + n /\ calls' \in Seq(CallsInUse)
        /\ \A k \in 0..L : more[k] = disks[k]
        /\ \A k \in L..(L + n) : more[k] = Overwritten(disks[L], v, k - L)
        /\ disks[L] \in Disks
    BY <2>2, <2>2a DEF ChunksAhead
  <2>4. /\ writes' \in Seq(ChunkedBlobs) /\ writes' # <<>> /\ Len(writes') = Len(writes) + 1
        /\ writes'[Len(writes')] = v
    BY <1>0, <2>1, <2>2, AppendProperties
  <2>5. StorageShapeOK'
    BY <1>0, <1>3, <2>3, <2>4 DEF StorageShapeOK
  <2>6. LeavesLast(more[Len(calls')], writes', lastSet')
    <3>1. L + n \in L..(L + n) /\ (L + n) - L = n
      BY <1>0, <1>2
    <3>2. more[Len(calls')] = Overwritten(disks[L], v, n)
      BY <2>3, <3>1
    <3>3. ASSUME NEW i \in 0..(n - 1) PROVE more[Len(calls')].chunk[i].value = v
      <4>1. i \in Indices /\ i < n
        BY <1>0, <2>1
      <4> QED BY <3>2, <4>1 DEF Overwritten, Chunk
    <3> QED BY <1>3, <2>4, <3>3 DEF LeavesLast
  <2>7. ASSUME ~overtaken', ~mixing'
        PROVE  Len(writes') <= 1 /\ \A k \in 0..Len(calls') : ReadOf(more[k]) \in mayRead'
    <3>0. ChunksOf[v] > 0
      BY <1>0, <1>5
    <3>1. ~mixing /\ ~Chunked /\ ~overtaken
      BY <1>3, <2>7, <3>0
    <3>2. head.is # "header" /\ writes = <<>> /\ \A k \in DOMAIN calls : calls[k].head.is # "header"
      BY <3>1 DEF Chunked
    <3>3. Now.head.is = "value"
      BY <1>0, <3>2, ShapesAreTyped DEF Now, Disks, Heads
    <3>4. disks[L].head.is = "value"
      BY <1>0, <1>1, <1>2, <3>2, <3>3, NoHeaderAhead
    <3>5. \A k \in 0..L : ReadOf(more[k]) \in mayRead'
      BY <1>1, <1>3, <2>3, <3>1
    <3>6. ASSUME NEW k \in L..(L + n) PROVE ReadOf(more[k]) \in mayRead'
      <4>1. k - L \in Nat /\ L \in 0..L
        BY <1>0, <1>2
      <4>2. ReadOf(more[k]) = ReadOf(disks[L])
        BY <1>0, <2>3, <3>4, <4>1, ChunksAreUnread
      <4> QED BY <1>1, <1>3, <3>1, <4>1, <4>2
    <3>7. Len(writes') <= 1
      BY <2>4, <3>2, EmptySeq
    <3>8. \A k \in 0..(L + n) : k \in 0..L \/ k \in L..(L + n)
      BY <1>0, <1>2
    <3> QED BY <2>3, <3>5, <3>6, <3>7, <3>8
  <2> QED BY <1>3, <2>3, <2>5, <2>6, <2>7 DEF StorageInv
<1> QED BY <1>4, <1>5

\* removeItem writes over the head first, so that the chunks are unread.
LEMMA RemoveItemKeeps ==
  ASSUME StorageInv, RemoveItem
  PROVE  StorageInv'
<1> DEFINE c == SetHead(Direct(Missing))
           n == head.count
<1>0. /\ StorageShapeOK /\ Now \in Disks /\ calls = <<>> /\ writes = <<>> /\ Now' = Now
      /\ lastSet' = Missing /\ mayRead' = mayRead \cup {Missing} /\ UNCHANGED <<writes, mixing, overtaken>>
      /\ calls' = <<c>> \o ChunkCalls(Missing, n) /\ Missing \in Values
  BY DEF StorageInv, StorageShapeOK, RemoveItem, Now, ChunkCalls, Values
<1>1. n \in Nat /\ 0..(n - 1) \subseteq Indices
  <2>1. head \in HeadsInUse
    BY <1>0 DEF Now, Disks
  <2>2. ASSUME NEW v \in Values, head = Direct(v) PROVE n \in Nat /\ 0..(n - 1) \subseteq Indices
    <3>1. n = 0
      BY <2>2 DEF Direct
    <3> HIDE DEF n
    <3> QED BY <3>1
  <2>3. ASSUME NEW v \in ChunkedBlobs, head = Header(ChunksOf[v]) PROVE n \in Nat /\ 0..(n - 1) \subseteq Indices
    <3>1. n = ChunksOf[v]
      BY <2>3 DEF Header
    <3> HIDE DEF n
    <3> QED BY <3>1, ShapesAreTyped
  <2> QED BY <2>1, <2>2, <2>3 DEF HeadsInUse
<1> HIDE DEF n
<1>2. c \in CallsInUse /\ Direct(Missing) \in HeadsInUse
  BY DEF HeadsInUse, CallsInUse, Values
<1>3. PICK disks :
       /\ Ahead(disks, Now, <<>>)
       /\ ~overtaken /\ ~mixing => \A k \in 0..0 : ReadOf(disks[k]) \in mayRead
  BY <1>0, EmptySeq DEF StorageInv
<1>4. disks[0] = Now /\ Len(<<>>) = 0 /\ <<>> \in Seq(CallsInUse) /\ Append(<<>>, c) = <<c>>
  BY <1>3, EmptySeq DEF Ahead
<1> HIDE DEF c
<1>5. PICK one : /\ Ahead(one, Now, <<c>>) /\ Len(<<c>>) = 1 /\ one[0] = Now /\ one[1] = After(Now, c)
  <2>1. PICK more : OneAhead(more, disks, Now, <<>>, c)
    BY <1>2, <1>3, <1>4, OneMore
  <2> QED BY <1>4, <2>1 DEF OneAhead
<1>6. <<c>> \in Seq(CallsInUse)
  BY <1>2
<1>6a. PICK more : ChunksAhead(more, one, Now, <<c>>, Missing, n)
  <2>1. Fits(n)
    BY <1>1 DEF Fits
  <2> QED BY <1>0, <1>5, <1>6, <2>1, MoreChunks
<1>7.
      /\ Ahead(more, Now, calls') /\ Len(calls') = 1 + n /\ calls' \in Seq(CallsInUse)
      /\ \A k \in 0..1 : more[k] = one[k]
      /\ \A k \in 1..(1 + n) : more[k] = Overwritten(one[1], Missing, k - 1)
      /\ one[1] \in Disks
  BY <1>0, <1>5, <1>6a DEF ChunksAhead
<1>8. one[1].head = Direct(Missing) /\ one[1].head.is = "value" /\ ReadOf(one[1]) = Missing
  <2>1. one[1].head = Direct(Missing)
    BY <1>0, <1>2, <1>5, AfterSetHead DEF c
  <2> QED BY <1>0, <2>1, DirectReads DEF Direct
<1>9. ASSUME NEW k \in 1..(1 + n) PROVE ReadOf(more[k]) = Missing
  <2>1. k - 1 \in Nat
    BY <1>1
  <2> QED BY <1>0, <1>7, <1>8, <2>1, ChunksAreUnread
<1>10. StorageShapeOK'
  BY <1>0, <1>7 DEF StorageShapeOK
<1>11. LeavesLast(more[Len(calls')], writes', lastSet')
  <2>1. 1 + n \in 1..(1 + n)
    BY <1>1
  <2> QED BY <1>0, <1>7, <1>9, <2>1 DEF LeavesLast
<1>12. ASSUME ~overtaken', ~mixing'
       PROVE  Len(writes') <= 1 /\ \A k \in 0..Len(calls') : ReadOf(more[k]) \in mayRead'
  <2>1. ReadOf(more[0]) \in mayRead'
    BY <1>0, <1>3, <1>4, <1>5, <1>7, <1>12
  <2>2. \A k \in 1..(1 + n) : ReadOf(more[k]) \in mayRead'
    BY <1>0, <1>9
  <2>3. \A k \in 0..(1 + n) : k = 0 \/ k \in 1..(1 + n)
    BY <1>1
  <2> QED BY <1>0, <1>7, <2>1, <2>2, <2>3, EmptySeq
<1> QED BY <1>0, <1>7, <1>10, <1>11, <1>12 DEF StorageInv

\* The platform goes on to the next of the stores ahead.
LEMMA PerformKeeps ==
  ASSUME StorageInv, Perform
  PROVE  StorageInv'
<1>0. /\ StorageShapeOK /\ Now \in Disks /\ calls \in Seq(CallsInUse) /\ calls # <<>> /\ lastSet \in mayRead
      /\ calls' = Tail(calls) /\ UNCHANGED <<writes, lastSet, overtaken>> /\ Now' = After(Now, Head(calls))
      /\ Rest(Tail(calls), writes)
  BY DEF StorageInv, StorageShapeOK, Perform, Now, After
<1>1. PICK disks :
       /\ Ahead(disks, Now, calls)
       /\ ~overtaken => LeavesLast(disks[Len(calls)], writes, lastSet)
       /\ ~overtaken /\ ~mixing => /\ Len(writes) <= 1
                                   /\ \A k \in 0..Len(calls) : ReadOf(disks[k]) \in mayRead
  BY DEF StorageInv
<1> DEFINE L == Len(calls) - 1
           less == [k \in 0..L |-> disks[k + 1]]
<1>2. /\ L \in Nat /\ Len(calls) = L + 1 /\ Len(calls') = L /\ calls' \in Seq(CallsInUse)
      /\ \A k \in 1..L : calls'[k] = calls[k + 1]
      /\ Head(calls) = calls[1]
  BY <1>0, HeadTailProperties, EmptySeq, LenProperties
<1> HIDE DEF L
<1>3. /\ disks \in [0..(L + 1) -> Disks] /\ disks[0] = Now
      /\ \A k \in 1..(L + 1) : disks[k] = After(disks[k - 1], calls[k])
  BY <1>1, <1>2 DEF Ahead
<1>4. \A k \in 0..L : less[k] = disks[k + 1] /\ k + 1 \in 0..(L + 1)
  BY <1>2
<1>5. less \in [0..L -> Disks]
  BY <1>3, <1>4
<1> HIDE DEF less
<1>6. less[0] = Now'
  <2>1. 1 \in 1..(L + 1) /\ 1 - 1 = 0 /\ 0 + 1 = 1 /\ 0 \in 0..L
    BY <1>2
  <2> QED BY <1>0, <1>2, <1>3, <1>4, <2>1
<1>7. ASSUME NEW k \in 1..L PROVE less[k] = After(less[k - 1], calls'[k])
  <2>1. k + 1 \in 1..(L + 1) /\ (k + 1) - 1 = k /\ (k - 1) + 1 = k /\ k - 1 \in 0..L /\ k \in 0..L
    BY <1>2
  <2> QED BY <1>2, <1>3, <1>4, <2>1
<1>8. Ahead(less, Now', calls')
  BY <1>2, <1>5, <1>6, <1>7 DEF Ahead
<1>9. less[L] = disks[Len(calls)] /\ Now' \in Disks
  <2>1. L \in 0..L /\ 0 \in 0..L
    BY <1>2
  <2> QED BY <1>2, <1>4, <1>5, <1>6, <2>1
<1>10. ~overtaken' => LeavesLast(less[Len(calls')], writes', lastSet')
  BY <1>0, <1>1, <1>2, <1>9
<1>11. CASE calls' = <<>> /\ writes = <<>>
  <2>1. Len(calls') = 0
    BY <1>11, EmptySeq
  <2>2. ~overtaken' => ReadOf(Now') = lastSet'
    BY <1>0, <1>2, <1>6, <1>10, <1>11, <2>1 DEF LeavesLast
  <2>3. mayRead' = {lastSet'} /\ mixing' \in BOOLEAN
    BY <1>0, <1>11 DEF Rest, StorageShapeOK
  <2> QED BY <1>0, <1>9, <1>11, <2>2, <2>3, NothingAhead DEF StorageShapeOK
<1>12. CASE ~(calls' = <<>> /\ writes = <<>>)
  <2>1. UNCHANGED mayRead /\ (mixing' <=> mixing) /\ mixing' \in BOOLEAN
    BY <1>0, <1>12 DEF Rest, StorageShapeOK
  <2>2. StorageShapeOK' /\ lastSet' \in mayRead'
    BY <1>0, <1>2, <1>9, <2>1 DEF StorageShapeOK
  <2>3. ASSUME ~overtaken', ~mixing'
        PROVE  Len(writes') <= 1 /\ \A k \in 0..Len(calls') : ReadOf(less[k]) \in mayRead'
    BY <1>0, <1>1, <1>2, <1>4, <2>1, <2>3
  <2> QED BY <1>8, <1>10, <2>2, <2>3 DEF StorageInv
<1> QED BY <1>11, <1>12

\* The header of a chunked value comes after all its chunks.
LEMMA WriteHeaderKeeps ==
  ASSUME StorageInv, WriteHeader
  PROVE  StorageInv'
<1> DEFINE v == Head(writes)
           c == SetHead(Header(ChunksOf[v]))
           L == Len(calls)
           W == Len(writes)
<1>0. /\ StorageShapeOK /\ Now \in Disks /\ calls \in Seq(CallsInUse) /\ writes \in Seq(ChunkedBlobs)
      /\ writes # <<>> /\ lastSet \in mayRead /\ Now' = Now
      /\ calls' = Append(calls, c) /\ writes' = Tail(writes)
      /\ UNCHANGED <<lastSet, mayRead, mixing, overtaken>>
  BY DEF StorageInv, StorageShapeOK, WriteHeader, Now
<1>1. PICK disks :
       /\ Ahead(disks, Now, calls)
       /\ ~overtaken => LeavesLast(disks[Len(calls)], writes, lastSet)
       /\ ~overtaken /\ ~mixing => /\ Len(writes) <= 1
                                   /\ \A k \in 0..Len(calls) : ReadOf(disks[k]) \in mayRead
  BY DEF StorageInv
<1>2. /\ v \in ChunkedBlobs /\ W \in Nat \ {0} /\ writes' \in Seq(ChunkedBlobs) /\ Len(writes') = W - 1
      /\ \A k \in 1..(W - 1) : writes'[k] = writes[k + 1]
      /\ v = writes[1] /\ L \in Nat
  BY <1>0, HeadTailProperties, EmptySeq, LenProperties
<1>3. Header(ChunksOf[v]) \in HeadsInUse /\ c \in CallsInUse
  <2> HIDE DEF v
  <2>1. Header(ChunksOf[v]) \in HeadsInUse
    BY <1>2 DEF HeadsInUse
  <2>2. SetHead(Header(ChunksOf[v])) \in CallsInUse
    BY <2>1 DEF CallsInUse
  <2> QED BY <2>1, <2>2
<1> HIDE DEF v, c, W
<1>3a. PICK more : OneAhead(more, disks, Now, calls, c)
  BY <1>0, <1>1, <1>3, OneMore
<1>4. /\ Ahead(more, Now, calls') /\ Len(calls') = L + 1 /\ calls' \in Seq(CallsInUse)
      /\ \A k \in 0..L : more[k] = disks[k]
      /\ more[L + 1] = After(disks[L], c) /\ disks[L] \in Disks
  BY <1>0, <1>3, <1>3a, AppendProperties DEF OneAhead
<1>5. more[L + 1].head = Header(ChunksOf[v]) /\ more[L + 1].chunk = disks[L].chunk
  BY <1>3, <1>4, AfterSetHead DEF c
<1>6. ~overtaken => /\ lastSet = writes[W]
                    /\ \A i \in 0..(ChunksOf[lastSet] - 1) : more[L + 1].chunk[i].value = lastSet
  BY <1>0, <1>1, <1>5 DEF LeavesLast, W
\* The last write in flight is the one whose header is written now.
<1>7. ~overtaken /\ W = 1 => ReadOf(more[L + 1]) = lastSet
  BY <1>2, <1>5, <1>6, ChunkedReads
<1>8. ~overtaken' => LeavesLast(more[Len(calls')], writes', lastSet')
  <2>1. CASE W = 1
    <3>1. writes' = <<>>
      BY <1>2, <2>1, EmptySeq
    <3> QED BY <1>0, <1>4, <1>7, <2>1, <3>1 DEF LeavesLast
  <2>2. CASE W # 1
    <3>1. W - 1 \in 1..(W - 1) /\ (W - 1) + 1 = W /\ W - 1 # 0
      BY <1>2, <2>2
    <3>2. writes' # <<>> /\ writes'[Len(writes')] = writes[W]
      BY <1>2, <3>1, EmptySeq
    <3> QED BY <1>0, <1>4, <1>6, <3>2 DEF LeavesLast
  <2> QED BY <2>1, <2>2
<1>9. ASSUME ~overtaken', ~mixing'
      PROVE  Len(writes') <= 1 /\ \A k \in 0..Len(calls') : ReadOf(more[k]) \in mayRead'
  <2>1. W = 1 /\ ~overtaken /\ ~mixing
    BY <1>0, <1>1, <1>2, <1>9 DEF W
  <2>2. ReadOf(more[L + 1]) \in mayRead'
    BY <1>0, <1>7, <2>1
  <2>3. \A k \in 0..L : ReadOf(more[k]) \in mayRead'
    BY <1>0, <1>1, <1>4, <2>1
  <2>4. \A k \in 0..(L + 1) : k \in 0..L \/ k = L + 1
    BY <1>2
  <2>5. Len(writes') <= 1
    BY <1>2, <2>1
  <2> QED BY <1>4, <2>2, <2>3, <2>4, <2>5
<1>10. StorageShapeOK' /\ lastSet' \in mayRead'
  BY <1>0, <1>2, <1>4 DEF StorageShapeOK
<1> QED BY <1>0, <1>4, <1>8, <1>9, <1>10 DEF StorageInv

\* A launch takes what it reads as the value set last.
LEMMA RestartKeeps ==
  ASSUME StorageInv, RestartApp
  PROVE  StorageInv'
<1>1. /\ Now' = Now /\ Now \in Disks /\ calls' = <<>> /\ writes' = <<>> /\ overtaken' = FALSE
      /\ lastSet' = ReadOf(Now) /\ mayRead' = {ReadOf(Now)} /\ mixing' \in BOOLEAN
  BY GetItemReadsNow DEF RestartApp, Now, StorageInv, StorageShapeOK
<1>2. lastSet' \in Blobs \cup {Missing, Torn}
  BY <1>1, ReadTyped
<1> QED BY <1>1, <1>2, NothingAhead

\* Every step keeps the invariant.
LEMMA StorageNextKeeps ==
  ASSUME StorageInv, [StorageNext]_storageVars
  PROVE  StorageInv'
<1>1. CASE StorageNext
  BY <1>1, SetItemKeeps, RemoveItemKeeps, PerformKeeps, WriteHeaderKeeps, RestartKeeps DEF StorageNext
<1>2. CASE UNCHANGED storageVars
  <2>1. UNCHANGED <<Now, calls, writes, lastSet, mayRead, mixing, overtaken>>
    BY <1>2 DEF storageVars, Now
  <2> QED BY <2>1 DEF StorageInv, StorageShapeOK
<1> QED BY <1>1, <1>2

\* The inductive invariant holds in every reachable state.
LEMMA StorageInvariant == StorageSpec => []StorageInv
BY StorageInitially, StorageNextKeeps, PTL DEF StorageSpec

\* Every variable of the storage keeps its type.
THEOREM StorageTypeCorrect == StorageSpec => []StorageTypeOK
BY StorageTypes, StorageInvariant, PTL

\* If the app died now, what it would read is a whole value that was there or
\* has been set (stores/secureStorage.ts: chunks first, the header after them),
\* for every number of values, of chunks up to ten and of writes in flight.
THEOREM WholeValueIsRead == StorageSpec => []ReadsWholeValue
<1>1. StorageInv => ReadsWholeValue
  <2> SUFFICES ASSUME StorageInv, ~mixing, ~overtaken PROVE GetItem \in mayRead
    BY DEF ReadsWholeValue
  <2>1. PICK disks : Ahead(disks, Now, calls) /\ \A k \in 0..Len(calls) : ReadOf(disks[k]) \in mayRead
    BY DEF StorageInv
  <2>2. 0 \in 0..Len(calls) /\ disks[0] = Now
    BY <2>1, LenProperties DEF Ahead, StorageInv, StorageShapeOK
  <2> QED BY <2>1, <2>2, GetItemReadsNow
<1> QED BY <1>1, StorageInvariant, PTL

-----------------------------------------------------------------------------
(***************************************************************************)
(* Payment.  What is sent is what the form held when it was reviewed, so   *)
(* the invariant follows a value from the form through the review.         *)
(***************************************************************************)
\* Records of a transfer.
TransferStates == [phase : {"none", "auth", "sending"}, review : Reviews, raw : Nat, here : BOOLEAN]

\* What the form let through.
Reviewed(r) ==
  /\ IsValidAddress(r.recipient, NetworkOf[r.asset])
  /\ r.of = r.asset

\* The base units of an amount, of which less than one is cut off.
CutToGrain(amount, raw, chosen) ==
  raw * GrainOf[chosen] <= amount /\ amount < (raw + 1) * GrainOf[chosen]

\* The type invariant, with the transfers as a function.
PayStateOK == PayTypeOK /\ transfers \in [1..MaxPayments -> TransferStates]

\* An amount in the form was entered for the asset in the form.
AmountIsOfAsset == draft.amount # 0 => amountFor = draft.asset

\* What is under way was reviewed, and is to be sent as it was reviewed.
TransfersAreReviewed ==
  /\ sendScreen = "confirm" => Reviewed(review)
  /\ \A t \in 1..MaxPayments :
       /\ transfers[t].phase # "none" => Reviewed(transfers[t].review)
       /\ transfers[t].phase = "sending" =>
            CutToGrain(transfers[t].review.amount, transfers[t].raw, transfers[t].review.asset)

\* The picker and the contact form of the send flow know the network.
PickerHasNetwork ==
  sendScreen \in {"picker", "add"} => sendNetwork \in {NetworkOf[a] : a \in Assets}

\* The inductive invariant.
PayInv == PayStateOK /\ AmountIsOfAsset /\ TransfersAreReviewed /\ PickerHasNetwork

\* Records of the form and of what a screen hands over.
Drafts == [asset : Assets, recipient : Addresses \cup {NoAddress}, amount : Amounts \cup {0}]
Handovers == [address : Addresses \cup {NoAddress}, amount : Amounts \cup {0}]
\* The networks of the assets that are sent.
AssetNetworks == {NetworkOf[a] : a \in Assets}

-----------------------------------------------------------------------------
\* humanAmountToRaw loses less than a base unit.
LEMMA RawIsCut ==
  ASSUME NEW chosen \in Assets, NEW amount \in Amounts \cup {0}
  PROVE  /\ HumanAmountToRaw(amount, chosen) \in Nat
         /\ CutToGrain(amount, HumanAmountToRaw(amount, chosen), chosen)
<1>1. \A n \in Nat, g \in Nat \ {0} :
        /\ n \div g \in Nat
        /\ (n \div g) * g <= n /\ n < ((n \div g) + 1) * g
  OBVIOUS
<1>2. amount \in Nat /\ GrainOf[chosen] \in Nat \ {0}
  <2>1. GrainOf \in [Assets -> Nat \ {0}] /\ Amounts \subseteq Nat
    BY PayAssumption
  <2> QED BY <2>1
<1> QED BY <1>1, <1>2 DEF HumanAmountToRaw, CutToGrain

\* The form as it is opened.
LEMMA EmptyForm == EmptyDraft \in Drafts /\ Nothing \in Handovers /\ EmptyDraft.amount = 0
BY PayAssumption DEF EmptyDraft, Nothing, Drafts, Handovers

\* A transfer that is none.
LEMMA EmptyReview ==
  NoReview \in Reviews /\ NoTransfer \in TransferStates /\ NoTransfer.phase = "none"
BY PayAssumption DEF NoReview, Reviews, NoTransfer, TransferStates

\* Nothing is entered and nothing under way.
LEMMA PayInitially == PayInit => PayInv
<1> SUFFICES ASSUME PayInit PROVE PayInv
  OBVIOUS
<1>1. transfers \in [1..MaxPayments -> TransferStates] /\ \A t \in 1..MaxPayments : transfers[t].phase = "none"
  BY EmptyReview DEF PayInit
<1>2. PayTypeOK
  BY <1>1, EmptyForm, EmptyReview, PayAssumption
  DEF PayInit, PayTypeOK, Screens, Drafts, Handovers, TransferStates
<1>3. TransfersAreReviewed
  BY <1>1 DEF PayInit, TransfersAreReviewed
<1> QED BY <1>1, <1>2, <1>3, EmptyForm DEF PayInit, PayInv, PayStateOK, AmountIsOfAsset, PickerHasNetwork

\* Its members state by state.
LEMMA PayTypes ==
  ASSUME PayInv
  PROVE  /\ sendScreen \in Screens /\ draft \in Drafts /\ handed \in Handovers
         /\ sendNetwork \in AssetNetworks \cup {""} /\ form \in ContactNetworks
         /\ contacts \in SUBSET Contacts /\ review \in Reviews /\ spinner \in BOOLEAN
         /\ transfers \in [1..MaxPayments -> TransferStates] /\ amountFor \in Assets
BY DEF PayInv, PayStateOK, PayTypeOK, Drafts, Handovers, AssetNetworks

\* A step on the form and its neighbours starts no transfer and changes none.
LEMMA FormKeeps ==
  ASSUME PayInv, UNCHANGED <<transfers, review>>, spinner' \in BOOLEAN,
         sendScreen' \in Screens, sendScreen' = "confirm" => sendScreen = "confirm",
         draft' \in Drafts, handed' \in Handovers, amountFor' \in Assets, AmountIsOfAsset',
         sendNetwork' \in AssetNetworks \cup {""}, form' \in ContactNetworks,
         contacts' \in SUBSET Contacts, PickerHasNetwork'
  PROVE  PayInv'
<1>1. PayStateOK'
  BY DEF PayInv, PayStateOK, PayTypeOK, Drafts, Handovers, AssetNetworks
<1>2. TransfersAreReviewed'
  BY DEF PayInv, TransfersAreReviewed
<1> QED BY <1>1, <1>2 DEF PayInv

\* A step of one transfer.
LEMMA TransferKeeps ==
  ASSUME PayInv, NEW t \in 1..MaxPayments, NEW new \in TransferStates,
         transfers' = [transfers EXCEPT ![t] = new], spinner' \in BOOLEAN,
         new.phase # "none" => Reviewed(new.review),
         new.phase = "sending" => CutToGrain(new.review.amount, new.raw, new.review.asset),
         UNCHANGED <<sendScreen, payForm, payBook, review>>
  PROVE  PayInv'
<1>1. transfers' \in [1..MaxPayments -> TransferStates]
  BY PayTypes
<1>2. PayStateOK'
  BY <1>1 DEF PayInv, PayStateOK, PayTypeOK, payForm, payBook, TransferStates
<1>3. \A u \in 1..MaxPayments : transfers'[u] = IF u = t THEN new ELSE transfers[u]
  BY PayTypes
<1>4. TransfersAreReviewed'
  BY <1>3 DEF PayInv, TransfersAreReviewed
<1> QED BY <1>2, <1>4 DEF PayInv, AmountIsOfAsset, PickerHasNetwork, payForm, payBook

\* A screen left takes its mark off the transfers in flight, and nothing else.
LEMMA LeftKeeps ==
  ASSUME PayInv
  PROVE  /\ Left \in [1..MaxPayments -> TransferStates]
         /\ \A t \in 1..MaxPayments : /\ Left[t].phase = transfers[t].phase
                                      /\ Left[t].review = transfers[t].review
                                      /\ Left[t].raw = transfers[t].raw
BY PayTypes DEF Left, TransferStates

\* The review is closed with what it showed.
LEMMA ReviewCloses ==
  ASSUME PayInv, sendScreen' \in {"home", "send"}, review' = NoReview, spinner' = FALSE,
         transfers' \in [1..MaxPayments -> TransferStates],
         \A t \in 1..MaxPayments :
           transfers'[t].phase # "none" => /\ transfers'[t].phase = transfers[t].phase
                                           /\ transfers'[t].review = transfers[t].review
                                           /\ transfers'[t].raw = transfers[t].raw,
         draft' \in Drafts, handed' \in Handovers, amountFor' \in Assets, AmountIsOfAsset', UNCHANGED payBook
  PROVE  PayInv'
<1>1. PayStateOK'
  BY EmptyReview DEF PayInv, PayStateOK, PayTypeOK, Screens, Drafts, Handovers, payBook, TransferStates
<1>2. TransfersAreReviewed'
  BY DEF PayInv, TransfersAreReviewed
<1> QED BY <1>1, <1>2 DEF PayInv, PickerHasNetwork

\* The form takes what another screen hands it.
LEMMA ReturnKeeps ==
  ASSUME PayInv, NEW code \in Handovers, Return(code)
  PROVE  PayInv'
<1>0. /\ draft \in Drafts /\ amountFor \in Assets /\ AmountIsOfAsset
  BY PayTypes DEF PayInv
<1> DEFINE recipient == IF code # handed /\ code.address # NoAddress THEN code.address ELSE draft.recipient
           amount == IF code # handed /\ code.amount # 0 THEN code.amount ELSE draft.amount
<1>1. recipient \in Addresses \cup {NoAddress} /\ amount \in Amounts \cup {0}
  BY <1>0 DEF Drafts, Handovers
<1>2. draft' = [draft EXCEPT !.recipient = recipient, !.amount = amount]
  BY DEF Return
<1>3. /\ amountFor' = draft.asset \/ (amountFor' = amountFor /\ amount = draft.amount)
      /\ handed' = code /\ sendScreen' = "send" /\ sendNetwork' = "" /\ UNCHANGED <<form, contacts, payRun>>
  BY DEF Return
<1> HIDE DEF recipient, amount
<1>4. draft' \in Drafts /\ draft'.asset = draft.asset /\ draft'.amount = amount /\ draft.asset \in Assets
  BY <1>0, <1>1, <1>2 DEF Drafts
<1>5. AmountIsOfAsset' /\ amountFor' \in Assets
  BY <1>0, <1>3, <1>4 DEF AmountIsOfAsset
<1> QED BY <1>3, <1>4, <1>5, PayTypes, FormKeeps DEF PickerHasNetwork, Screens, payRun

\* The address book offers addresses,
LEMMA OfferedIsAddress == ASSUME PayInv PROVE Offered \subseteq Addresses
BY PayTypes, PayAssumption DEF Offered, Contacts

\* a code has an address and an amount,
LEMMA CodesAreHandovers == \A qr \in Codes : ParseMerchantQR(qr) \in Handovers
BY PayAssumption DEF ParseMerchantQR, Handovers

\* and every network has a network of contacts.
LEMMA ToContactNetworkIsOne == \A n : ToContactNetwork(n) \in ContactNetworks
BY PayAssumption DEF ToContactNetwork

\* Every step keeps the invariant.
LEMMA PayNextKeeps ==
  ASSUME PayInv, [PayNext]_payVars
  PROVE  PayInv'
<1>0. /\ sendScreen \in Screens /\ draft \in Drafts /\ handed \in Handovers
      /\ sendNetwork \in AssetNetworks \cup {""} /\ form \in ContactNetworks
      /\ contacts \in SUBSET Contacts /\ review \in Reviews /\ spinner \in BOOLEAN
      /\ transfers \in [1..MaxPayments -> TransferStates] /\ amountFor \in Assets
      /\ AmountIsOfAsset /\ TransfersAreReviewed /\ PickerHasNetwork
      /\ draft.asset \in Assets
  BY PayTypes DEF PayInv, Drafts
<1>1. CASE OpenSend
  BY <1>0, <1>1, FormKeeps DEF OpenSend, payForm, payBook, payRun, AmountIsOfAsset, PickerHasNetwork, Screens
<1>2. CASE TypeRecipient
  <2>1. PICK a \in Addresses \cup {NoAddress} : draft' = [draft EXCEPT !.recipient = a]
    BY <1>2 DEF TypeRecipient
  <2>2. draft' \in Drafts /\ draft'.asset = draft.asset /\ draft'.amount = draft.amount
    BY <1>0, <2>1 DEF Drafts
  <2>3. UNCHANGED <<sendScreen, handed, amountFor, payBook, payRun>>
    BY <1>2 DEF TypeRecipient
  <2> QED BY <1>0, <2>2, <2>3, FormKeeps DEF payBook, payRun, AmountIsOfAsset, PickerHasNetwork
<1>3. ASSUME NEW n \in Amounts \cup {0}, PutAmount(n) PROVE PayInv'
  <2>1. draft' \in Drafts /\ draft'.asset = draft.asset
    BY <1>0, <1>3 DEF PutAmount, Drafts
  <2>2. amountFor' = draft.asset /\ UNCHANGED <<sendScreen, handed, payBook, payRun>>
    BY <1>3 DEF PutAmount
  <2> QED BY <1>0, <2>1, <2>2, FormKeeps DEF payBook, payRun, AmountIsOfAsset, PickerHasNetwork
<1>4. ASSUME NEW chosen \in Assets, SelectAsset(chosen) PROVE PayInv'
  <2> DEFINE amount == AmountAfterSwitch(chosen)
  <2>1. amount \in Amounts \cup {0} /\ (amount # 0 => amount = draft.amount /\ chosen = draft.asset)
    BY <1>0 DEF AmountAfterSwitch, Drafts
  <2>2. /\ draft' = [draft EXCEPT !.asset = chosen, !.amount = amount]
        /\ UNCHANGED <<sendScreen, handed, amountFor, payBook, payRun>>
    BY <1>4 DEF SelectAsset
  <2> HIDE DEF amount
  <2>3. draft' \in Drafts /\ draft'.asset = chosen /\ draft'.amount = amount
    BY <1>0, <2>1, <2>2 DEF Drafts
  <2> QED BY <1>0, <2>1, <2>2, <2>3, FormKeeps DEF payBook, payRun, AmountIsOfAsset, PickerHasNetwork
<1>5. CASE OpenScan
  BY <1>0, <1>5, FormKeeps DEF OpenScan, payForm, payBook, payRun, AmountIsOfAsset, PickerHasNetwork, Screens
<1>6. CASE Scan
  BY <1>6, CodesAreHandovers, ReturnKeeps DEF Scan
<1>7. CASE OpenPicker
  <2>1. sendNetwork' \in AssetNetworks
    BY <1>0, <1>7 DEF OpenPicker, AssetNetworks
  <2> QED BY <1>0, <1>7, <2>1, FormKeeps
          DEF OpenPicker, payForm, payRun, AmountIsOfAsset, PickerHasNetwork, Screens, AssetNetworks
<1>8. CASE SelectContact
  <2>1. PICK a \in Addresses : Return([address |-> a, amount |-> 0])
    BY <1>8, OfferedIsAddress DEF SelectContact
  <2>2. [address |-> a, amount |-> 0] \in Handovers
    BY DEF Handovers
  <2> QED BY <2>1, <2>2, ReturnKeeps
<1>9. CASE OpenAddContact
  <2>1. form' \in ContactNetworks
    BY <1>9, ToContactNetworkIsOne DEF OpenAddContact
  <2> QED BY <1>0, <1>9, <2>1, FormKeeps
          DEF OpenAddContact, payForm, payRun, AmountIsOfAsset, PickerHasNetwork, Screens
<1>10. CASE ChooseNetwork
  BY <1>0, <1>10, FormKeeps DEF ChooseNetwork, payForm, payRun, AmountIsOfAsset, PickerHasNetwork
<1>11. CASE SaveContact
  <2>1. PICK a \in Addresses : contacts' = contacts \cup {[address |-> a, network |-> form]}
    BY <1>11 DEF SaveContact
  <2>2. [address |-> a, network |-> form] \in Contacts
    BY <1>0 DEF Contacts
  <2>3. contacts' \in SUBSET Contacts
    BY <1>0, <2>1, <2>2
  <2>4. form' \in ContactNetworks
    BY <1>11, PayAssumption DEF SaveContact
  <2> QED BY <1>0, <1>11, <2>3, <2>4, FormKeeps
          DEF SaveContact, payForm, payRun, AmountIsOfAsset, PickerHasNetwork, Screens
<1>12. CASE ManageContacts
  BY <1>0, <1>12, FormKeeps DEF ManageContacts, payForm, payRun, AmountIsOfAsset, PickerHasNetwork, Screens
<1>13. CASE RemoveContact
  BY <1>0, <1>13, FormKeeps DEF RemoveContact, payForm, payRun, AmountIsOfAsset, PickerHasNetwork
<1>14. CASE Back
  <2>1. CASE /\ sendScreen = "send" /\ sendScreen' = "home" /\ CloseForm
             /\ UNCHANGED <<payBook, payRun>>
    BY <1>0, <2>1, EmptyForm, PayAssumption, FormKeeps
    DEF CloseForm, payBook, payRun, AmountIsOfAsset, PickerHasNetwork, Screens
  <2>2. CASE /\ sendScreen' = "send" /\ sendNetwork' = ""
             /\ UNCHANGED <<payForm, form, contacts, payRun>>
    BY <1>0, <2>2, FormKeeps DEF payForm, payRun, AmountIsOfAsset, PickerHasNetwork, Screens
  <2>3. CASE /\ \/ sendScreen = "add" /\ sendScreen' = "picker"
                \/ sendScreen = "book-add" /\ sendScreen' = "book"
             /\ form' = "evm"
             /\ UNCHANGED <<payForm, sendNetwork, contacts, payRun>>
    BY <1>0, <2>3, PayAssumption, FormKeeps DEF payForm, payRun, AmountIsOfAsset, PickerHasNetwork, Screens
  <2>4. CASE /\ sendScreen = "confirm" /\ sendScreen' = "send"
             /\ transfers' = Left /\ spinner' = FALSE /\ review' = NoReview
             /\ UNCHANGED <<payForm, payBook>>
    BY <1>0, <2>4, LeftKeeps, ReviewCloses DEF payForm, AmountIsOfAsset
  <2> QED BY <1>14, <2>1, <2>2, <2>3, <2>4 DEF Back
<1>15. CASE HandleContinue
  <2>1. /\ Validates /\ sendScreen' = "confirm" /\ spinner' = FALSE
        /\ review' = [asset |-> draft.asset, recipient |-> draft.recipient,
                      amount |-> draft.amount, of |-> amountFor]
        /\ UNCHANGED <<payForm, payBook, transfers>>
    BY <1>15 DEF HandleContinue
  <2>2. review' \in Reviews
    BY <1>0, <2>1 DEF Reviews, Drafts
  <2>3. draft.amount # 0
    BY <2>1 DEF Validates
  <2>4. Reviewed(review')
    BY <1>0, <2>1, <2>3 DEF Reviewed, Validates, AmountIsOfAsset
  <2>5. PayStateOK'
    BY <2>1, <2>2 DEF PayInv, PayStateOK, PayTypeOK, Screens, payForm, payBook
  <2>6. TransfersAreReviewed'
    BY <1>0, <2>1, <2>4 DEF TransfersAreReviewed
  <2> QED BY <1>0, <2>1, <2>5, <2>6 DEF PayInv, AmountIsOfAsset, PickerHasNetwork, payForm, payBook
<1>16. ASSUME NEW t \in 1..MaxPayments, HandleConfirm(t) PROVE PayInv'
  <2> DEFINE new == [phase |-> "auth", review |-> review, raw |-> 0, here |-> TRUE]
  <2>1. new \in TransferStates /\ new.phase = "auth" /\ new.review = review
    BY <1>0 DEF TransferStates
  <2>2. Reviewed(review)
    BY <1>0, <1>16 DEF HandleConfirm, ShowsConfirm, TransfersAreReviewed
  <2>3. /\ transfers' = [transfers EXCEPT ![t] = new] /\ UNCHANGED <<sendScreen, payForm, payBook, review, spinner>>
    BY <1>16 DEF HandleConfirm
  <2> HIDE DEF new
  <2> QED BY <1>0, <2>1, <2>2, <2>3, TransferKeeps
<1>17. ASSUME NEW t \in 1..MaxPayments, Deny(t) \/ SendFails(t) PROVE PayInv'
  <2>1. /\ transfers' = [transfers EXCEPT ![t] = NoTransfer] /\ spinner' \in BOOLEAN
        /\ UNCHANGED <<sendScreen, payForm, payBook, review>>
    BY <1>0, <1>17 DEF Deny, SendFails
  <2> QED BY <2>1, EmptyReview, TransferKeeps
<1>18. ASSUME NEW t \in 1..MaxPayments, Approve(t) PROVE PayInv'
  <2> DEFINE r == transfers[t].review
             raw == HumanAmountToRaw(r.amount, r.asset)
             new == [transfers[t] EXCEPT !.phase = "sending", !.raw = raw]
  <2>1. transfers[t] \in TransferStates /\ Reviewed(r) /\ r \in Reviews /\ transfers[t].here \in BOOLEAN
    BY <1>0, <1>18 DEF Approve, TransfersAreReviewed, TransferStates
  <2>2. raw \in Nat /\ CutToGrain(r.amount, raw, r.asset)
    BY <2>1, RawIsCut DEF Reviews
  <2>3. /\ transfers' = [transfers EXCEPT ![t] = new] /\ spinner' = (spinner \/ transfers[t].here)
        /\ UNCHANGED <<sendScreen, payForm, payBook, review>>
    BY <1>0, <1>18 DEF Approve
  <2> HIDE DEF raw
  <2>4. new \in TransferStates /\ new.phase = "sending" /\ new.review = r /\ new.raw = raw
    BY <2>1, <2>2 DEF TransferStates
  <2> HIDE DEF new, r
  <2>5. spinner' \in BOOLEAN
    BY <1>0, <2>1, <2>3
  <2> QED BY <2>1, <2>2, <2>3, <2>4, <2>5, TransferKeeps
<1>19. ASSUME NEW t \in 1..MaxPayments, Sent(t) PROVE PayInv'
  <2>1. /\ transfers' = [Left EXCEPT ![t] = NoTransfer] /\ spinner' = FALSE /\ review' = NoReview
        /\ sendScreen' = "home" /\ CloseForm /\ UNCHANGED payBook
    BY <1>19 DEF Sent
  <2>2. /\ transfers' \in [1..MaxPayments -> TransferStates]
        /\ \A u \in 1..MaxPayments : transfers'[u] = IF u = t THEN NoTransfer ELSE Left[u]
    BY <2>1, LeftKeeps, EmptyReview
  <2> QED BY <2>1, <2>2, LeftKeeps, EmptyReview, EmptyForm, PayAssumption, ReviewCloses
          DEF CloseForm, AmountIsOfAsset
<1>20. CASE UNCHANGED payVars
  BY <1>0, <1>20, FormKeeps DEF payVars, payForm, payBook, payRun, AmountIsOfAsset, PickerHasNetwork
<1> QED BY <1>1, <1>2, <1>3, <1>4, <1>5, <1>6, <1>7, <1>8, <1>9, <1>10, <1>11, <1>12, <1>13, <1>14,
           <1>15, <1>16, <1>17, <1>18, <1>19, <1>20 DEF PayNext, TypeAmount, UseMax

\* The inductive invariant holds in every reachable state.
LEMMA PayInvariant == PaySpec => []PayInv
BY PayInitially, PayNextKeeps, PTL DEF PaySpec

\* Every variable of a payment keeps its type.
THEOREM PayTypeCorrect == PaySpec => []PayTypeOK
<1>1. PayInv => PayTypeOK
  BY DEF PayInv, PayStateOK
<1> QED BY <1>1, PayInvariant, PTL

\* What is sent is what the user entered and reviewed
\* (app/(wallet)/send/index.tsx): the asset, the recipient and the amount, which
\* humanAmountToRaw cuts by less than a base unit, whatever scanning, contacts and
\* changes of the asset went through the form before.
THEOREM SentIsWhatWasEntered == PaySpec => []SentAsEntered
<1>1. PayInv => SentAsEntered
  <2> SUFFICES ASSUME PayInv, NEW t \in 1..MaxPayments, transfers[t].phase = "sending"
               PROVE  LET r == transfers[t].review
                      IN /\ IsValidAddress(r.recipient, NetworkOf[r.asset]) /\ r.of = r.asset
                         /\ transfers[t].raw * GrainOf[r.asset] <= r.amount
                         /\ r.amount < (transfers[t].raw + 1) * GrainOf[r.asset]
    BY PayTypes DEF SentAsEntered
  <2> QED BY DEF PayInv, TransfersAreReviewed, Reviewed, CutToGrain
<1> QED BY <1>1, PayInvariant, PTL

\* A contact saved for the preselected network matches it.
LEMMA PreselectedMatches ==
  ASSUME NEW n \in AssetNetworks
  PROVE  ContactMatchesNetwork(ToContactNetwork(n), n)
<1>1. n \in EvmNetworks \cup (ContactNetworks \ {"evm"}) /\ "evm" \notin EvmNetworks
  <2>1. NetworkOf \in [Assets -> EvmNetworks \cup (ContactNetworks \ {"evm"})] /\ "evm" \notin EvmNetworks
    BY PayAssumption
  <2> QED BY <2>1 DEF AssetNetworks
<1> QED BY <1>1 DEF ToContactNetwork, ContactMatchesNetwork, IsEvmNetwork

\* A contact saved from the send flow for the network that is preselected
\* is offered by the picker it was opened from (utils/addressBook.ts).  It rests
\* on every network of an asset being one that contacts have, which PayAssumption
\* says.
THEOREM SavedIsOffered == PaySpec => SavedContactIsOffered
<1> DEFINE Saved == \A c \in Contacts :
       (sendScreen = "add" /\ c \in contacts' \ contacts /\ c.network = ToContactNetwork(sendNetwork))
         => sendScreen' = "picker" /\ c.address \in Offered'
<1>1. PayInv /\ [PayNext]_payVars => [Saved]_payVars
  <2> SUFFICES ASSUME PayInv, PayNext, NEW c \in Contacts, sendScreen = "add",
                      c \in contacts' \ contacts, c.network = ToContactNetwork(sendNetwork)
               PROVE  sendScreen' = "picker" /\ c.address \in Offered'
    OBVIOUS
  <2>1. SaveContact
    BY DEF PayNext, OpenSend, TypeRecipient, TypeAmount, UseMax, PutAmount, SelectAsset, OpenScan, Scan,
           OpenPicker, SelectContact, OpenAddContact, ChooseNetwork, ManageContacts, RemoveContact, Back,
           HandleContinue, HandleConfirm, ShowsConfirm, Deny, Approve, Sent, SendFails, payBook, payForm
  <2>2. sendScreen' = "picker" /\ UNCHANGED sendNetwork
    BY <2>1 DEF SaveContact
  <2>3. ContactMatchesNetwork(c.network, sendNetwork)
    BY PreselectedMatches DEF PayInv, PickerHasNetwork, AssetNetworks
  <2> QED BY <2>2, <2>3 DEF Offered
<1> QED BY <1>1, PayInvariant, PTL DEF PaySpec, SavedContactIsOffered

-----------------------------------------------------------------------------
(***************************************************************************)
(* Redeem.  ToldIsGone is about the list on screen and says nothing of the *)
(* answer that replaces it; the invariant adds that an answer on its way   *)
(* was read after all that the user was told, which the refetch at the end *)
(* of a claim sees to.                                                     *)
(***************************************************************************)
\* Records of a query and of a claim.
Lists == [status : {"pending", "success", "error"}, data : Answers,
          fetch : {"none", "sent", "read"}, answer : Answers]
ClaimStates == [coupon : Offers \cup {NoOffer}, at : {"none", "sent", "done", "refused"},
                observed : BOOLEAN]

\* What the user was told is paid, which is final; and so is what a claim that
\* succeeded will tell.
ToldIsPaid ==
  /\ \A c \in told : redeemed[c] = "paid"
  /\ \A k \in 1..MaxClaims :
       /\ claims[k].at # "none" => claims[k].coupon \in Offers
       /\ claims[k].at = "done" => redeemed[claims[k].coupon] = "paid"

\* An answer on its way was read after all that the user was told, and so was
\* the list when none is.
AnswersAreLater ==
  /\ lists["available"].fetch = "read" => lists["available"].answer \cap told = {}
  /\ lists["available"].fetch = "none" /\ lists["available"].status = "success"
       => lists["available"].data \cap told = {}

\* The inductive invariant.
RedeemInv == RedeemTypeOK /\ ToldIsPaid /\ AnswersAreLater

\* Nothing has been read and nobody told anything.
LEMMA RedeemInitially == RedeemInit => RedeemInv
<1> SUFFICES ASSUME RedeemInit PROVE RedeemInv
  OBVIOUS
<1>1. NewList \in Lists /\ NewList.status = "pending" /\ NewList.fetch = "none"
  BY DEF NewList, Lists, Answers
<1>2. NoClaim \in ClaimStates /\ NoClaim.at = "none"
  BY DEF NoClaim, ClaimStates
<1>3. RedeemTypeOK
  BY <1>1, <1>2 DEF RedeemInit, RedeemTypeOK, ClosedScreen, Tabs, Lists, ClaimStates
<1> QED BY <1>1, <1>2, <1>3 DEF RedeemInit, RedeemInv, ToldIsPaid, AnswersAreLater, Tabs

\* A query goes on, while nobody is told anything.
LEMMA ListKeeps ==
  ASSUME RedeemInv, NEW t \in Tabs, NEW new \in Lists,
         lists' = [lists EXCEPT ![t] = new], UNCHANGED <<redeemed, claims, told>>,
         cashback' \in [mounted : BOOLEAN, tab : Tabs, pending : Offers \cup {NoOffer}, disabled : BOOLEAN],
         t = "available" =>
           /\ new.fetch = "read" => new.answer \cap told = {}
           /\ new.fetch = "none" /\ new.status = "success" => new.data \cap told = {}
  PROVE  RedeemInv'
<1>1. RedeemTypeOK'
  BY DEF RedeemInv, RedeemTypeOK, Lists
<1>2. ToldIsPaid'
  BY DEF RedeemInv, ToldIsPaid
<1>3. AnswersAreLater'
  BY DEF RedeemInv, RedeemTypeOK, AnswersAreLater, Tabs, Lists
<1> QED BY <1>1, <1>2, <1>3 DEF RedeemInv

\* A query that is asked has the type of one.
LEMMA FetchesAreLists ==
  ASSUME NEW l \in Lists
  PROVE  /\ Fetch(l) \in Lists /\ Refetch(l) \in Lists
         /\ Refetch(l).fetch = "sent" /\ Fetch(l).fetch # "none"
         /\ Fetch(l).fetch = "read" => Fetch(l) = l
BY DEF Fetch, Refetch, Lists, Answers

\* Every step keeps the invariant.
LEMMA RedeemNextKeeps ==
  ASSUME RedeemInv, [RedeemNext]_redeemVars
  PROVE  RedeemInv'
<1> DEFINE Screen == [mounted : BOOLEAN, tab : Tabs, pending : Offers \cup {NoOffer}, disabled : BOOLEAN]
<1>0. /\ lists \in [Tabs -> Lists] /\ claims \in [1..MaxClaims -> ClaimStates]
      /\ cashback \in Screen /\ redeemed \in [Offers -> {"no", "marked", "paid"}]
      /\ cashback.tab \in Tabs /\ "available" \in Tabs /\ ClosedScreen \in Screen
  BY DEF RedeemInv, RedeemTypeOK, Lists, ClaimStates, Tabs, ClosedScreen
<1>a. \A k \in 1..MaxClaims :
        /\ Unobserved[k] \in ClaimStates /\ Unobserved[k].at = claims[k].at
        /\ Unobserved[k].coupon = claims[k].coupon
  BY <1>0 DEF Unobserved, ClaimStates
<1>b. Unobserved \in [1..MaxClaims -> ClaimStates]
  BY <1>0, <1>a DEF Unobserved
<1>1. CASE OpenCashback
  <2>1. cashback' \in Screen
    BY <1>0, <1>1 DEF OpenCashback
  <2>2. lists' = [lists EXCEPT !["available"] = Fetch(lists["available"])] /\ UNCHANGED <<redeemed, claims, told>>
    BY <1>1 DEF OpenCashback
  <2> HIDE DEF Screen
  <2> QED BY <1>0, <2>1, <2>2, FetchesAreLists, ListKeeps DEF RedeemInv, AnswersAreLater, Screen
<1>2. CASE CloseCashback
  <2>1. cashback' \in Screen /\ claims' = Unobserved /\ UNCHANGED <<redeemed, lists, told>>
    BY <1>0, <1>2 DEF CloseCashback
  <2>2. RedeemTypeOK'
    BY <1>b, <2>1 DEF RedeemInv, RedeemTypeOK, ClaimStates
  <2> QED BY <1>a, <2>1, <2>2 DEF RedeemInv, ToldIsPaid, AnswersAreLater
<1>3. CASE SwitchTab
  <2>1. PICK t \in Tabs : /\ cashback' = [cashback EXCEPT !.tab = t]
                          /\ lists' = [lists EXCEPT ![t] = Fetch(lists[t])]
                          /\ UNCHANGED <<redeemed, claims, told>>
    BY <1>3 DEF SwitchTab
  <2>2. cashback' \in Screen
    BY <1>0, <2>1
  <2> HIDE DEF Screen
  <2> QED BY <1>0, <2>1, <2>2, FetchesAreLists, ListKeeps DEF RedeemInv, AnswersAreLater, Screen
<1>4. CASE RetryList
  <2> HIDE DEF Screen
  <2> QED BY <1>0, <1>4, FetchesAreLists, ListKeeps DEF RetryList, Screen
<1>5. ASSUME NEW t \in Tabs, ReadList(t) PROVE RedeemInv'
  <2> DEFINE new == [lists[t] EXCEPT !.fetch = "read", !.answer = FindByUser(t)]
  <2>1. FindByUser(t) \in Answers /\ t = "available" => FindByUser(t) \cap told = {}
    BY DEF FindByUser, Answers, RedeemInv, ToldIsPaid
  <2>2. FindByUser(t) \in Answers
    BY DEF FindByUser, Answers
  <2>3. new \in Lists /\ new.fetch = "read" /\ new.answer = FindByUser(t)
    <3>1. ASSUME NEW answer \in Answers, NEW l \in Lists
          PROVE  LET read == [l EXCEPT !.fetch = "read", !.answer = answer]
                 IN read \in Lists /\ read.fetch = "read" /\ read.answer = answer
      BY DEF Lists
    <3> QED BY <1>0, <2>2, <3>1
  <2>4. lists' = [lists EXCEPT ![t] = new] /\ UNCHANGED <<redeemed, cashback, claims, told>>
    BY <1>5 DEF ReadList
  <2> HIDE DEF new, Screen
  <2> QED BY <1>0, <2>1, <2>2, <2>3, <2>4, ListKeeps DEF Screen
<1>6. ASSUME NEW t \in Tabs, DeliverList(t) PROVE RedeemInv'
  <2> DEFINE answered == [NewList EXCEPT !.status = "success", !.data = lists[t].answer]
             failed == [NewList EXCEPT !.status = "error", !.data = lists[t].data]
  <2>1. /\ answered \in Lists /\ answered.fetch = "none" /\ answered.data = lists[t].answer
        /\ failed \in Lists /\ failed.fetch = "none" /\ failed.status = "error"
    BY <1>0 DEF NewList, Lists, Answers
  <2>2. /\ UNCHANGED <<redeemed, cashback, claims, told>>
        /\ \/ lists[t].fetch = "read" /\ lists' = [lists EXCEPT ![t] = answered]
           \/ lists' = [lists EXCEPT ![t] = failed]
    BY <1>6 DEF DeliverList
  <2> HIDE DEF answered, failed, Screen
  <2> QED BY <1>0, <2>1, <2>2, ListKeeps DEF Screen, RedeemInv, AnswersAreLater
<1>7. CASE Render
  <2>1. cashback' \in Screen /\ UNCHANGED <<redeemed, lists, claims, told>>
    BY <1>0, <1>7 DEF Render
  <2> QED BY <2>1 DEF RedeemInv, RedeemTypeOK, ToldIsPaid, AnswersAreLater
<1>8. ASSUME NEW c \in Offers, NEW k \in 1..MaxClaims, HandleClaim(c, k) PROVE RedeemInv'
  <2> DEFINE new == [coupon |-> c, at |-> "sent", observed |-> TRUE]
  <2>1. new \in ClaimStates /\ new.at = "sent" /\ new.coupon = c
    BY DEF ClaimStates
  <2>2. cashback' \in Screen /\ claims' = [Unobserved EXCEPT ![k] = new] /\ UNCHANGED <<redeemed, lists, told>>
    BY <1>0, <1>8 DEF HandleClaim
  <2> HIDE DEF new
  <2>3. RedeemTypeOK'
    BY <1>b, <2>1, <2>2 DEF RedeemInv, RedeemTypeOK, ClaimStates
  <2> QED BY <1>a, <1>b, <2>1, <2>2, <2>3 DEF RedeemInv, ToldIsPaid, AnswersAreLater
<1>9. ASSUME NEW k \in 1..MaxClaims, ClaimCoupon(k) PROVE RedeemInv'
  <2> DEFINE c == claims[k].coupon
  <2>1. c \in Offers /\ UNCHANGED <<cashback, lists, told>> /\ claims[k].at = "sent"
    BY <1>9 DEF ClaimCoupon, RedeemInv, ToldIsPaid
  <2>2. /\ redeemed' \in [Offers -> {"no", "marked", "paid"}]
        /\ \A o \in Offers : redeemed[o] = "paid" => redeemed'[o] = "paid"
    BY <1>0, <1>9, <2>1 DEF ClaimCoupon
  <2>3. \/ claims' = claims
        \/ claims' = [claims EXCEPT ![k].at = "refused"]
        \/ claims' = [claims EXCEPT ![k].at = "done"] /\ redeemed'[c] = "paid"
    BY <1>9 DEF ClaimCoupon
  <2>4. /\ claims' \in [1..MaxClaims -> ClaimStates]
        /\ \A j \in 1..MaxClaims : claims'[j].coupon = claims[j].coupon
        /\ \A j \in 1..MaxClaims : claims'[j].at # claims[j].at => j = k /\ claims'[j].at \in {"done", "refused"}
        /\ claims'[k].at = "done" => redeemed'[c] = "paid"
    <3> DEFINE ended(at) == [claims[k] EXCEPT !.at = at]
    <3>1. \A at \in {"done", "refused"} :
            ended(at) \in ClaimStates /\ ended(at).at = at /\ ended(at).coupon = c
      BY <1>0 DEF ClaimStates
    <3>2. \/ claims' = claims
          \/ claims' = [claims EXCEPT ![k] = ended("refused")]
          \/ claims' = [claims EXCEPT ![k] = ended("done")] /\ redeemed'[c] = "paid"
      BY <2>3
    <3> HIDE DEF ended
    <3> QED BY <1>0, <2>1, <3>1, <3>2
  <2>5. RedeemTypeOK'
    BY <2>1, <2>2, <2>4 DEF RedeemInv, RedeemTypeOK, ClaimStates
  <2>6. \A o \in told : o \in Offers
    BY DEF RedeemInv, RedeemTypeOK
  <2>7. ToldIsPaid'
    BY <2>1, <2>2, <2>4, <2>6 DEF RedeemInv, ToldIsPaid
  <2> QED BY <2>1, <2>5, <2>7 DEF RedeemInv, AnswersAreLater
<1>10. ASSUME NEW k \in 1..MaxClaims, EndClaim(k) PROVE RedeemInv'
  <2>1. /\ claims' = [claims EXCEPT ![k] = NoClaim] /\ UNCHANGED redeemed
        /\ claims[k].coupon \in Offers
    BY <1>10 DEF EndClaim, RedeemInv, ToldIsPaid
  <2>2. /\ claims' \in [1..MaxClaims -> ClaimStates]
        /\ \A j \in 1..MaxClaims : claims'[j] = claims[j] \/ claims'[j].at = "none"
    BY <1>0, <2>1 DEF NoClaim, ClaimStates
  <2>3. cashback' \in Screen
    BY <1>0, <1>10 DEF EndClaim
  <2>4. CASE UNCHANGED <<lists, told>>
    BY <2>1, <2>2, <2>3, <2>4 DEF RedeemInv, RedeemTypeOK, ToldIsPaid, AnswersAreLater, ClaimStates
  <2>5. CASE /\ claims[k].at = "done"
             /\ lists' = [lists EXCEPT ![cashback.tab] = Refetch(lists[cashback.tab])]
             /\ told' = IF cashback.tab = "available" THEN told \cup {claims[k].coupon} ELSE told
    <3>1. /\ lists' \in [Tabs -> Lists]
          /\ lists'["available"] = IF cashback.tab = "available" THEN Refetch(lists["available"])
                                   ELSE lists["available"]
      BY <1>0, <2>5, FetchesAreLists
    <3>2. told' \subseteq Offers /\ \A c \in told' : redeemed'[c] = "paid"
      BY <2>1, <2>5 DEF RedeemInv, RedeemTypeOK, ToldIsPaid
    <3>3. RedeemTypeOK'
      BY <2>1, <2>2, <2>3, <3>1, <3>2 DEF RedeemInv, RedeemTypeOK, ClaimStates, Lists
    <3>4. ToldIsPaid'
      BY <2>1, <2>2, <3>2 DEF RedeemInv, ToldIsPaid
    <3>5. AnswersAreLater'
      BY <1>0, <2>5, <3>1, FetchesAreLists DEF RedeemInv, AnswersAreLater
    <3> QED BY <3>3, <3>4, <3>5 DEF RedeemInv
  <2> QED BY <1>10, <2>4, <2>5 DEF EndClaim
<1>11. CASE UNCHANGED redeemVars
  BY <1>11 DEF redeemVars, RedeemInv, RedeemTypeOK, ToldIsPaid, AnswersAreLater
<1> QED BY <1>1, <1>2, <1>3, <1>4, <1>5, <1>6, <1>7, <1>8, <1>9, <1>10, <1>11 DEF RedeemNext

\* The inductive invariant holds in every reachable state.
LEMMA RedeemInvariant == RedeemSpec => []RedeemInv
<1> QED BY RedeemInitially, RedeemNextKeeps, PTL DEF RedeemSpec

\* Every variable of the cashback screen keeps its type.
THEOREM RedeemTypeCorrect == RedeemSpec => []RedeemTypeOK
<1>1. RedeemInv => RedeemTypeOK
  BY DEF RedeemInv
<1> QED BY <1>1, RedeemInvariant, PTL

\* A coupon of which the user was told that it is redeemed is not offered
\* again (app/(wallet)/cashback/index.tsx): an answer that was read before the
\* claim cannot arrive after the refetch that the claim has begun.
THEOREM RedeemedIsGone == RedeemSpec => []ToldIsGone
<1>1. RedeemInv => ToldIsGone
  BY DEF RedeemInv, AnswersAreLater, ToldIsGone, Shown, CouponList
<1> QED BY <1>1, RedeemInvariant, PTL

-----------------------------------------------------------------------------
(***************************************************************************)
(* AddressSync.  An update replaces a wallet's addresses by those read     *)
(* before and the run's own, and another screen may have written           *)
(* meanwhile; the invariant says what a run must know so that its update   *)
(* drops nothing.                                                          *)
(***************************************************************************)
\* What useAppNodeWalletSync of a screen may be doing.
SyncStates ==
  [mounted : BOOLEAN, enabled : BOOLEAN, status : Statuses4, at : Calls \cup {"none"},
   known : SUBSET Networks, read : SUBSET Networks, synced : SUBSET Networks,
   attempt : 0..(MaxAttempts - 1)]

\* All networks that some wallet of the user has at the app-node.
Registered == UNION ToSet(appNode)

\* A run is about some address.  One that updates a wallet found an address
\* there, and one of its own missing; of two networks that leaves none out, so
\* that nothing another screen wrote meanwhile is overwritten.
RunKnowsEnough(s) ==
  /\ s.at # "none" => s.known # {}
  /\ s.at = "update" => s.read \cup s.known = Networks

\* No wallet is without a network.
WalletsAreFilled == \A k \in DOMAIN appNode : appNode[k] # {}

\* The inductive invariant.
SyncInv ==
  /\ SyncTypeOK /\ WalletsAreFilled /\ SyncedIsRegistered
  /\ \A v \in Views : /\ RunKnowsEnough(sync[v])
                      /\ sync[v].at = "update" => appNode # <<>>

-----------------------------------------------------------------------------
\* A run has an attempt to begin with.
LEMMA FirstAttempt == 0 \in 0..(MaxAttempts - 1)
BY SyncAssumption

\* A run that begins has the type of one.
LEMMA NewSyncIsState ==
  ASSUME NEW enabled \in BOOLEAN
  PROVE  LET s == [NewSync EXCEPT !.mounted = TRUE, !.enabled = enabled]
         IN /\ NewSync \in SyncStates /\ NewSync.at = "none" /\ NewSync.synced = {}
            /\ s \in SyncStates /\ s.at = "none" /\ s.synced = {}
BY FirstAttempt DEF NewSync, SyncStates, Statuses4, Calls

\* The effect begins a run or does nothing.
LEMMA EffectBeginsRun ==
  ASSUME NEW s \in SyncStates, NEW known \in SUBSET Networks, RunKnowsEnough(s)
  PROVE  /\ Effect(s, known) \in SyncStates /\ RunKnowsEnough(Effect(s, known))
         /\ Effect(s, known).synced = s.synced
         /\ Effect(s, known).at = "update" => s.at = "update"
<1> DEFINE t == [s EXCEPT !.at = "connect", !.status = "syncing", !.known = known, !.attempt = 0]
<1>1. t \in SyncStates /\ t.synced = s.synced /\ t.at = "connect" /\ t.known = known
  BY FirstAttempt DEF SyncStates, Statuses4, Calls
<1> HIDE DEF t
<1>2. Effect(s, known) = s \/ (Effect(s, known) = t /\ known # {})
  BY DEF Effect, t
<1> QED BY <1>1, <1>2 DEF RunKnowsEnough

\* A run that is over has none but added keys.
LEMMA RunEnds ==
  ASSUME NEW s \in SyncStates, RunKnowsEnough(s), s.at # "none"
  PROVE  /\ FailedRun(s) \in SyncStates /\ FailedRun(s).synced = s.synced
         /\ RunKnowsEnough(FailedRun(s)) /\ FailedRun(s).at # "update"
         /\ SyncedRun(s) \in SyncStates /\ SyncedRun(s).synced = s.synced \cup s.known
         /\ SyncedRun(s).at = "none"
<1>1. ASSUME NEW status \in Statuses4
      PROVE  Over(s, status) \in SyncStates /\ Over(s, status).synced = s.synced /\ Over(s, status).at = "none"
  BY FirstAttempt DEF Over, SyncStates, Calls
<1>2. "error" \in Statuses4 /\ "done" \in Statuses4
  BY DEF Statuses4
<1>3. s.attempt + 1 < MaxAttempts =>
        /\ Again(s) \in SyncStates /\ Again(s).synced = s.synced
        /\ Again(s).at = "connect" /\ Again(s).known = s.known
  <2> DEFINE n == s.attempt + 1
  <2>1. s.attempt + 1 < MaxAttempts => n \in 0..(MaxAttempts - 1)
    BY SyncAssumption DEF SyncStates
  <2> HIDE DEF n
  <2>2. n \in 0..(MaxAttempts - 1) =>
          LET t == [s EXCEPT !.at = "connect", !.read = {}, !.attempt = n]
          IN t \in SyncStates /\ t.synced = s.synced /\ t.at = "connect" /\ t.known = s.known
    BY DEF SyncStates, Calls
  <2> QED BY <2>1, <2>2 DEF Again, n
<1>4. \/ FailedRun(s) = Again(s) /\ s.attempt + 1 < MaxAttempts
      \/ FailedRun(s) = Over(s, "error")
  BY DEF FailedRun
<1>5. SyncedRun(s) = [Over(s, "done") EXCEPT !.synced = s.synced \cup s.known]
  BY <1>1, <1>2 DEF SyncedRun
<1>6. s.synced \cup s.known \in SUBSET Networks
  BY DEF SyncStates
<1>7. /\ SyncedRun(s) \in SyncStates /\ SyncedRun(s).synced = s.synced \cup s.known
      /\ SyncedRun(s).at = "none"
  <2> DEFINE o == Over(s, "done")
             all == s.synced \cup s.known
  <2>1. o \in SyncStates /\ o.at = "none" /\ all \in SUBSET Networks
    BY <1>1, <1>2, <1>6
  <2> HIDE DEF o, all
  <2>2. LET t == [o EXCEPT !.synced = all] IN t \in SyncStates /\ t.synced = all /\ t.at = "none"
    BY <2>1 DEF SyncStates
  <2> QED BY <1>5, <2>2 DEF o, all
<1> QED BY <1>1, <1>2, <1>3, <1>4, <1>7 DEF RunKnowsEnough

\* A wallet that is added or filled takes nothing away.
LEMMA RegisteredGrows ==
  ASSUME appNode \in Seq(SUBSET Networks), NEW w \in SUBSET Networks
  PROVE  /\ UNION ToSet(Append(appNode, w)) = Registered \cup w
         /\ appNode # <<>> => /\ 1 \in DOMAIN appNode /\ appNode[1] \in SUBSET Networks
                              /\ appNode[1] \subseteq Registered
<1>1. /\ DOMAIN appNode = 1..Len(appNode) /\ Len(appNode) \in Nat
      /\ appNode # <<>> => Len(appNode) # 0
  BY LenProperties, EmptySeq
<1>2. /\ DOMAIN Append(appNode, w) = 1..(Len(appNode) + 1)
      /\ \A k \in 1..Len(appNode) : Append(appNode, w)[k] = appNode[k]
      /\ Append(appNode, w)[Len(appNode) + 1] = w
  BY AppendProperties, LenProperties
<1>3. ToSet(Append(appNode, w)) = ToSet(appNode) \cup {w}
  BY <1>1, <1>2 DEF ToSet
<1>4. appNode # <<>> => 1 \in DOMAIN appNode
  BY <1>1
<1>5. appNode # <<>> => appNode[1] \in ToSet(appNode) /\ appNode[1] \in SUBSET Networks
  BY <1>1, <1>4, ElementOfSeq DEF ToSet
<1> QED BY <1>3, <1>4, <1>5 DEF Registered
-----------------------------------------------------------------------------
\* At the launch no screen believes anything.
LEMMA SyncInitially == SyncInit => SyncInv
<1> SUFFICES ASSUME SyncInit PROVE SyncInv
  OBVIOUS
<1>1. NewSync \in SyncStates /\ NewSync.at = "none" /\ NewSync.synced = {}
  BY NewSyncIsState
<1>2. /\ appNode \in Seq(SUBSET Networks) /\ Len(appNode) <= MaxWallets
      /\ WalletsAreFilled
  <2>1. CASE appNode = <<>>
    BY <2>1, SyncAssumption, EmptySeq DEF WalletsAreFilled
  <2>2. ASSUME NEW w \in SUBSET Networks, w # {}, appNode = <<w>> PROVE /\ appNode \in Seq(SUBSET Networks) /\ Len(appNode) <= MaxWallets
                                                                 /\ WalletsAreFilled
    <3>1. appNode \in Seq(SUBSET Networks) /\ Len(appNode) = 1 /\ appNode[1] = w
      BY <2>2
    <3>2. DOMAIN appNode = 1..1
      BY <3>1, LenProperties
    <3> QED BY <2>2, <3>1, <3>2, SyncAssumption DEF WalletsAreFilled
  <2>3. appNode = <<>> \/ \E w \in SUBSET Networks : w # {} /\ appNode = <<w>>
    BY DEF SyncInit
  <2> QED BY <2>1, <2>2, <2>3
<1> QED BY <1>1, <1>2 DEF SyncInit, SyncInv, SyncTypeOK, SyncStates, SyncedIsRegistered, RunKnowsEnough

\* A step of one screen, after which nothing is registered that was not before or else.
LEMMA ScreenKeeps ==
  ASSUME SyncInv, NEW v \in Views, NEW new \in SyncStates,
         sync' = [sync EXCEPT ![v] = new], RunKnowsEnough(new), UNCHANGED resolved,
         appNode' \in Seq(SUBSET Networks), Len(appNode') <= MaxWallets, WalletsAreFilled',
         appNode # <<>> \/ new.at = "update" => appNode' # <<>>,
         Registered \subseteq Registered', new.synced \subseteq Registered',
         query' \in [loaded : BOOLEAN, failed : BOOLEAN, fetching : BOOLEAN]
  PROVE  SyncInv'
<1>1. SyncTypeOK'
  BY DEF SyncInv, SyncTypeOK, SyncStates
<1>2. SyncedIsRegistered'
  BY DEF SyncInv, SyncTypeOK, SyncStates, SyncedIsRegistered, Registered
<1>3. \A u \in Views : sync'[u] = IF u = v THEN new ELSE sync[u]
  BY DEF SyncInv, SyncTypeOK
<1> QED BY <1>1, <1>2, <1>3 DEF SyncInv

\* A step of one screen that leaves the app-node alone.
LEMMA LocalKeeps ==
  ASSUME SyncInv, NEW v \in Views, NEW new \in SyncStates,
         sync' = [sync EXCEPT ![v] = new], RunKnowsEnough(new), UNCHANGED <<resolved, appNode>>,
         new.at = "update" => appNode # <<>>, new.synced \subseteq Registered,
         query' \in [loaded : BOOLEAN, failed : BOOLEAN, fetching : BOOLEAN]
  PROVE  SyncInv'
<1>1. WalletsAreFilled' /\ Registered' = Registered
  BY DEF SyncInv, WalletsAreFilled, Registered
<1> QED BY <1>1, ScreenKeeps DEF SyncInv, SyncTypeOK

\* Every step keeps the invariant.
LEMMA SyncNextKeeps ==
  ASSUME SyncInv, [SyncNext]_syncVars
  PROVE  SyncInv'
<1> DEFINE Queries == [loaded : BOOLEAN, failed : BOOLEAN, fetching : BOOLEAN]
<1>0. /\ sync \in [Views -> SyncStates] /\ query \in Queries /\ resolved \subseteq Networks
      /\ appNode \in Seq(SUBSET Networks) /\ Len(appNode) <= MaxWallets
      /\ WalletsAreFilled
      /\ \A v \in Views : /\ RunKnowsEnough(sync[v]) /\ sync[v].synced \subseteq Registered
                          /\ sync[v].at = "update" => appNode # <<>>
  BY DEF SyncInv, SyncTypeOK, SyncStates, SyncedIsRegistered, Registered
<1>a. Fetching(query) \in Queries
  <2>1. query.failed \in BOOLEAN /\ query.loaded \in BOOLEAN
    BY <1>0
  <2> DEFINE f == query.failed /\ query.loaded
  <2>2. f \in BOOLEAN
    OBVIOUS
  <2> HIDE DEF f
  <2>3. [query EXCEPT !.fetching = TRUE, !.failed = f] \in Queries
    BY <1>0, <2>2
  <2> QED BY <2>3 DEF Fetching, f
<1>b. ASSUME NEW v \in Views, FetchWhenDone(v) PROVE query' \in Queries
  BY <1>0, <1>a, <1>b DEF FetchWhenDone
<1>c. ASSUME NEW s PROVE Handed(s, resolved) \in SUBSET Networks
  BY <1>0 DEF Handed
<1>d. ASSUME NEW v \in Views
      PROVE  /\ sync[v] \in SyncStates /\ sync[v].known \in SUBSET Networks
             /\ sync[v].read \in SUBSET Networks /\ sync[v].synced \in SUBSET Networks
  BY <1>0 DEF SyncStates
<1> HIDE DEF Queries
<1>1. ASSUME NEW v \in Views, Mount(v) PROVE SyncInv'
  <2>1. PICK enabled \in BOOLEAN :
          LET s == [NewSync EXCEPT !.mounted = TRUE, !.enabled = enabled]
          IN sync' = [sync EXCEPT ![v] = Effect(s, Handed(s, resolved))]
    BY <1>1 DEF Mount, HistorySupported
  <2> DEFINE s == [NewSync EXCEPT !.mounted = TRUE, !.enabled = enabled]
  <2>2. s \in SyncStates /\ s.at = "none" /\ s.synced = {}
    BY NewSyncIsState
  <2>3. sync' = [sync EXCEPT ![v] = Effect(s, Handed(s, resolved))] /\ UNCHANGED <<resolved, appNode, query>>
    BY <1>1, <2>1 DEF Mount
  <2> HIDE DEF s
  <2>4. RunKnowsEnough(s)
    BY <2>2 DEF RunKnowsEnough
  <2> QED BY <1>0, <1>c, <2>2, <2>3, <2>4, EffectBeginsRun, LocalKeeps DEF Queries
<1>2. ASSUME NEW v \in Views, Unmount(v) PROVE SyncInv'
  <2> DEFINE s == [sync[v] EXCEPT !.mounted = FALSE]
  <2>1. /\ s \in SyncStates /\ s.at = sync[v].at /\ s.known = sync[v].known
        /\ s.read = sync[v].read /\ s.synced = sync[v].synced
    BY <1>d DEF SyncStates
  <2>2. sync' = [sync EXCEPT ![v] = s] /\ UNCHANGED <<resolved, appNode, query>>
    BY <1>2 DEF Unmount
  <2> HIDE DEF s
  <2> QED BY <1>0, <2>1, <2>2, LocalKeeps DEF Queries, RunKnowsEnough
<1>3. ASSUME NEW n \in Networks, Resolve(n) PROVE SyncInv'
  <2>1. /\ resolved' \subseteq Networks /\ UNCHANGED <<appNode, query>>
        /\ sync' = [v \in Views |-> IF sync[v].mounted THEN Effect(sync[v], Handed(sync[v], resolved'))
                                    ELSE sync[v]]
    BY <1>0, <1>3 DEF Resolve
  <2>2. ASSUME NEW v \in Views
        PROVE  /\ sync'[v] \in SyncStates /\ RunKnowsEnough(sync'[v])
               /\ sync'[v].synced = sync[v].synced
               /\ sync'[v].at = "update" => sync[v].at = "update"
    <3>1. Handed(sync[v], resolved') \in SUBSET Networks
      BY <2>1 DEF Handed
    <3> QED BY <1>0, <2>1, <3>1, EffectBeginsRun
  <2>3. SyncTypeOK'
    BY <1>0, <2>1, <2>2 DEF SyncTypeOK, SyncStates, Queries
  <2> QED BY <1>0, <2>1, <2>2, <2>3 DEF SyncInv, WalletsAreFilled, SyncedIsRegistered, Registered
<1>4. ASSUME NEW v \in Views, Connect(v) PROVE SyncInv'
  <2> DEFINE looking == [sync[v] EXCEPT !.at = "look"]
  <2>1. /\ sync' = [sync EXCEPT ![v] = looking] \/ sync' = [sync EXCEPT ![v] = FailedRun(sync[v])]
        /\ UNCHANGED <<resolved, appNode, query>> /\ sync[v].at = "connect"
    BY <1>4 DEF Connect
  <2>2. /\ looking \in SyncStates /\ looking.at = "look" /\ looking.known = sync[v].known
        /\ looking.synced = sync[v].synced
    BY <1>d DEF SyncStates, Calls
  <2> HIDE DEF looking
  <2>3. RunKnowsEnough(looking)
    BY <1>0, <2>1, <2>2 DEF RunKnowsEnough
  <2> QED BY <1>0, <1>d, <2>1, <2>2, <2>3, RunEnds, LocalKeeps DEF Queries
<1>5. ASSUME NEW v \in Views, Look(v) PROVE SyncInv'
  <2> DEFINE s == sync[v]
             creating == [s EXCEPT !.at = "create"]
             updating == [s EXCEPT !.at = "update", !.read = appNode[1]]
  <2>1. /\ s.at = "look" /\ UNCHANGED <<resolved, appNode>> /\ query' \in Queries
        /\ \/ sync' = [sync EXCEPT ![v] = FailedRun(s)]
           \/ appNode = <<>> /\ sync' = [sync EXCEPT ![v] = creating]
           \/ appNode # <<>> /\ MissesAny(s.known, appNode[1]) /\ sync' = [sync EXCEPT ![v] = updating]
           \/ appNode # <<>> /\ ~MissesAny(s.known, appNode[1]) /\ sync' = [sync EXCEPT ![v] = SyncedRun(s)]
    BY <1>5, <1>b DEF Look
  <2>2. s \in SyncStates /\ RunKnowsEnough(s) /\ s.synced \subseteq Registered
    BY <1>0
  <2> HIDE DEF s
  <2>3. /\ creating \in SyncStates /\ creating.at = "create" /\ creating.known = s.known
        /\ creating.synced = s.synced
    BY <2>2 DEF SyncStates, Calls
  <2>4. RunKnowsEnough(creating)
    BY <2>1, <2>2, <2>3 DEF RunKnowsEnough
  <2>5. appNode # <<>> => /\ appNode[1] \in SUBSET Networks /\ appNode[1] # {}
                          /\ appNode[1] \subseteq Registered
    BY <1>0, RegisteredGrows DEF WalletsAreFilled
  <2>6. appNode # <<>> =>
          /\ updating \in SyncStates /\ updating.at = "update" /\ updating.known = s.known
          /\ updating.read = appNode[1] /\ updating.synced = s.synced
    BY <2>2, <2>5 DEF SyncStates, Calls
  <2>7. appNode # <<>> /\ MissesAny(s.known, appNode[1]) => RunKnowsEnough(updating)
    <3>1. s.known \in SUBSET Networks
      BY <2>2 DEF SyncStates
    <3> QED BY <2>1, <2>2, <2>5, <2>6, <3>1, SyncAssumption DEF RunKnowsEnough, MissesAny
  <2>8. appNode # <<>> /\ ~MissesAny(s.known, appNode[1]) => s.known \subseteq Registered
    BY <2>5 DEF MissesAny
  <2> HIDE DEF creating, updating
  <2>9. CASE sync' = [sync EXCEPT ![v] = FailedRun(s)]
    BY <1>0, <2>1, <2>2, <2>9, RunEnds, LocalKeeps DEF Queries
  <2>10. CASE appNode = <<>> /\ sync' = [sync EXCEPT ![v] = creating]
    BY <2>1, <2>2, <2>3, <2>4, <2>10, LocalKeeps DEF Queries
  <2>11. CASE appNode # <<>> /\ MissesAny(s.known, appNode[1]) /\ sync' = [sync EXCEPT ![v] = updating]
    BY <2>1, <2>2, <2>6, <2>7, <2>11, LocalKeeps DEF Queries
  <2>12. CASE appNode # <<>> /\ ~MissesAny(s.known, appNode[1]) /\ sync' = [sync EXCEPT ![v] = SyncedRun(s)]
    <3>1. /\ SyncedRun(s) \in SyncStates /\ SyncedRun(s).at = "none"
          /\ SyncedRun(s).synced = s.synced \cup s.known
      BY <2>1, <2>2, RunEnds
    <3> QED BY <2>1, <2>2, <2>8, <2>12, <3>1, LocalKeeps DEF Queries, RunKnowsEnough
  <2> QED BY <2>1, <2>9, <2>10, <2>11, <2>12
<1>6. ASSUME NEW v \in Views, CreateAppNodeWallet(v) PROVE SyncInv'
  <2> DEFINE s == sync[v]
  <2>1. /\ s.at = "create" /\ UNCHANGED resolved /\ query' \in Queries
        /\ \/ /\ Len(appNode) < MaxWallets /\ appNode' = Append(appNode, s.known)
              /\ \E t \in {SyncedRun(s), FailedRun(s)} : sync' = [sync EXCEPT ![v] = t]
           \/ sync' = [sync EXCEPT ![v] = FailedRun(s)] /\ UNCHANGED appNode
    BY <1>6, <1>b DEF CreateAppNodeWallet
  <2>2. /\ s \in SyncStates /\ RunKnowsEnough(s) /\ s.synced \subseteq Registered
        /\ s.known \in SUBSET Networks /\ s.known # {}
    BY <1>0, <1>d, <2>1 DEF RunKnowsEnough
  <2> HIDE DEF s
  <2>3. /\ FailedRun(s) \in SyncStates /\ FailedRun(s).synced = s.synced
        /\ RunKnowsEnough(FailedRun(s)) /\ FailedRun(s).at # "update"
        /\ SyncedRun(s) \in SyncStates /\ SyncedRun(s).synced = s.synced \cup s.known
        /\ SyncedRun(s).at = "none" /\ RunKnowsEnough(SyncedRun(s))
    BY <2>1, <2>2, RunEnds DEF RunKnowsEnough
  <2>4. CASE sync' = [sync EXCEPT ![v] = FailedRun(s)] /\ UNCHANGED appNode
    BY <2>1, <2>2, <2>3, <2>4, LocalKeeps DEF Queries
  <2>5. CASE /\ Len(appNode) < MaxWallets /\ appNode' = Append(appNode, s.known)
             /\ \E t \in {SyncedRun(s), FailedRun(s)} : sync' = [sync EXCEPT ![v] = t]
    <3>1. /\ appNode' \in Seq(SUBSET Networks) /\ appNode' # <<>> /\ Len(appNode') = Len(appNode) + 1
          /\ \A k \in 1..Len(appNode) : appNode'[k] = appNode[k]
          /\ appNode'[Len(appNode) + 1] = s.known
      BY <1>0, <2>2, <2>5, AppendProperties
    <3>2. /\ DOMAIN appNode' = 1..Len(appNode') /\ DOMAIN appNode = 1..Len(appNode) /\ Len(appNode) \in Nat
      BY <1>0, <3>1, LenProperties
    <3>3. WalletsAreFilled'
      BY <1>0, <2>2, <3>1, <3>2 DEF WalletsAreFilled
    <3>4. Len(appNode') <= MaxWallets
      BY <2>5, <3>1, <3>2, SyncAssumption
    <3>5. Registered' = Registered \cup s.known
      BY <1>0, <2>2, <2>5, RegisteredGrows DEF Registered
    <3>6. PICK t \in {SyncedRun(s), FailedRun(s)} : sync' = [sync EXCEPT ![v] = t]
      BY <2>5
    <3> QED BY <2>1, <2>2, <2>3, <3>1, <3>3, <3>4, <3>5, <3>6, ScreenKeeps DEF Queries
  <2> QED BY <2>1, <2>4, <2>5
<1>7. ASSUME NEW v \in Views, UpdateAppNodeWallet(v) PROVE SyncInv'
  <2> DEFINE s == sync[v]
  <2>1. /\ s.at = "update" /\ UNCHANGED resolved /\ query' \in Queries
        /\ \/ /\ \E w \in {s.read \cup s.known, s.read \cup s.known \cup appNode[1]} :
                   appNode' = [appNode EXCEPT ![1] = w]
              /\ \E t \in {SyncedRun(s), FailedRun(s)} : sync' = [sync EXCEPT ![v] = t]
           \/ sync' = [sync EXCEPT ![v] = FailedRun(s)] /\ UNCHANGED appNode
    BY <1>7, <1>b DEF UpdateAppNodeWallet
  <2>2. /\ s \in SyncStates /\ RunKnowsEnough(s) /\ s.synced \subseteq Registered
        /\ s.known \in SUBSET Networks /\ s.known # {} /\ s.synced \in SUBSET Networks
        /\ s.read \cup s.known = Networks /\ appNode # <<>>
    BY <1>0, <1>d, <2>1 DEF RunKnowsEnough
  <2> HIDE DEF s
  <2>3. /\ FailedRun(s) \in SyncStates /\ FailedRun(s).synced = s.synced
        /\ RunKnowsEnough(FailedRun(s)) /\ FailedRun(s).at # "update"
        /\ SyncedRun(s) \in SyncStates /\ SyncedRun(s).synced = s.synced \cup s.known
        /\ SyncedRun(s).at = "none" /\ RunKnowsEnough(SyncedRun(s))
    BY <2>1, <2>2, RunEnds DEF RunKnowsEnough
  <2>4. CASE sync' = [sync EXCEPT ![v] = FailedRun(s)] /\ UNCHANGED appNode
    BY <1>0, <2>1, <2>2, <2>3, <2>4, LocalKeeps DEF Queries
  <2>5. CASE /\ appNode' = [appNode EXCEPT ![1] = Networks]
             /\ \E t \in {SyncedRun(s), FailedRun(s)} : sync' = [sync EXCEPT ![v] = t]
    <3>1. DOMAIN appNode = 1..Len(appNode) /\ 1 \in 1..Len(appNode)
      BY <1>0, <2>2, RegisteredGrows, LenProperties
    <3>2. /\ appNode' \in Seq(SUBSET Networks) /\ Len(appNode') = Len(appNode)
          /\ \A k \in 1..Len(appNode) : appNode'[k] = IF k = 1 THEN Networks ELSE appNode[k]
      BY <1>0, <2>5, <3>1, ExceptSeq
    <3>3. DOMAIN appNode' = 1..Len(appNode)
      BY <3>1, <2>5
    <3>4. WalletsAreFilled' /\ appNode' # <<>>
      BY <1>0, <2>2, <3>1, <3>2, <3>3 DEF WalletsAreFilled
    <3>5. Networks \in ToSet(appNode')
      BY <3>1, <3>2, <3>3 DEF ToSet
    <3>6. Networks \subseteq Registered'
      BY <3>5 DEF Registered
    <3>7. Registered \subseteq Networks
      BY <1>0, <3>1, ElementOfSeq DEF Registered, ToSet
    <3>8. PICK t \in {SyncedRun(s), FailedRun(s)} : sync' = [sync EXCEPT ![v] = t]
      BY <2>5
    <3> QED BY <1>0, <2>1, <2>2, <2>3, <3>2, <3>4, <3>6, <3>7, <3>8, ScreenKeeps DEF Queries
  <2>6. appNode[1] \in SUBSET Networks
    BY <1>0, <2>2, RegisteredGrows
  <2> QED BY <2>1, <2>2, <2>4, <2>5, <2>6
<1>8. CASE EndFetch
  <2>1. UNCHANGED <<resolved, sync, appNode>> /\ query' \in Queries
    BY <1>0, <1>8 DEF EndFetch, Queries
  <2> QED BY <2>1 DEF SyncInv, SyncTypeOK, WalletsAreFilled, SyncedIsRegistered, Queries
<1>9. ASSUME NEW v \in Views, TapRetry(v) \/ PullToRefresh(v) PROVE SyncInv'
  <2>1. CASE UNCHANGED <<resolved, appNode, sync>> /\ query' = Fetching(query)
    BY <1>a, <2>1 DEF SyncInv, SyncTypeOK, WalletsAreFilled, SyncedIsRegistered, Queries
  <2>2. CASE /\ sync' = [sync EXCEPT ![v] = Effect(sync[v], Handed(sync[v], resolved))]
             /\ UNCHANGED <<resolved, appNode, query>>
    <3> DEFINE new == Effect(sync[v], Handed(sync[v], resolved))
    <3>1. /\ new \in SyncStates /\ RunKnowsEnough(new) /\ new.synced = sync[v].synced
          /\ new.at = "update" => sync[v].at = "update"
      BY <1>0, <1>c, EffectBeginsRun
    <3>2. sync' = [sync EXCEPT ![v] = new] /\ UNCHANGED <<resolved, appNode, query>>
      BY <2>2
    <3> HIDE DEF new
    <3> QED BY <1>0, <3>1, <3>2, LocalKeeps DEF Queries
  <2> QED BY <1>9, <2>1, <2>2 DEF TapRetry, PullToRefresh
<1>10. CASE UNCHANGED syncVars
  BY <1>10 DEF syncVars, SyncInv, SyncTypeOK, WalletsAreFilled, SyncedIsRegistered
<1> QED BY <1>1, <1>2, <1>3, <1>4, <1>5, <1>6, <1>7, <1>8, <1>9, <1>10 DEF SyncNext, SyncStep

\* The inductive invariant holds in every reachable state.
LEMMA SyncInvariant == SyncSpec => []SyncInv
<1> QED BY SyncInitially, SyncNextKeeps, PTL DEF SyncSpec

\* Every variable of the sync keeps its type.
THEOREM SyncTypeCorrect == SyncSpec => []SyncTypeOK
<1>1. SyncInv => SyncTypeOK
  BY DEF SyncInv
<1> QED BY <1>1, SyncInvariant, PTL

\* An address that a screen marked as synced is at the app-node
\* (hooks/useAppNodeWalletSync.ts), also when two screens run the effect at the
\* same time and one overwrites what the other has read.  It rests on there being
\* two networks, which SyncAssumption says.
THEOREM BelievedIsRegistered == SyncSpec => []SyncedIsRegistered
<1>1. SyncInv => SyncedIsRegistered
  BY DEF SyncInv
<1> QED BY <1>1, SyncInvariant, PTL

-----------------------------------------------------------------------------
(***************************************************************************)
(* WalletScreens.  That a second reading is due cannot be seen from the    *)
(* figures; the invariant ties the timer to the wallet's status and, once  *)
(* it has run out, says of every query under way whether its answer will   *)
(* do as the second reading, and of figures that they have been read.      *)
(***************************************************************************)
\* Records of the dashboard.
Homes ==
  [status : {"loading", "ready", "error"}, timer : BOOLEAN, ran : BOOLEAN,
   settled : BOOLEAN, refreshing : BOOLEAN, filter : {"all", "mainnet", "testnet"}]
\* Records of a query of balances.
Balances ==
  [figure : Fetches, fetch : Fetches, missed : {"no", "joined", "failed"}, data : [Coins -> Figures]]
\* Records of a query of prices over time.
SeriesStates ==
  [status : {"pending", "success", "error"}, fetching : BOOLEAN, points : {"none", "empty", "some"}]

\* The timer of the settled refetch has been set at most once the wallet is
\* ready, and then it runs or has run out.
SettledRefetchIsDue(h) ==
  /\ h.ran => h.status = "ready"
  /\ h.status = "ready" => h.timer \/ h.settled

\* A query that needs no second reading, has it under way, or has missed it.
Reread(b) ==
  /\ b.fetch = "early" => b.missed # "no"
  /\ b.figure = "early" => b.fetch = "late" \/ b.missed # "no"

\* No source is known before it has been read, and a price is 1 or unknown.
FiguresAreRead ==
  /\ \A s \in Sources : balances[s].figure = "none" => balances[s].data = NoFigures
  /\ quotes.data \in [Coins -> {1, Unknown}]

\* The status of what has been fetched.
SeriesIsKept(d) == d.status = "pending" => d.points = "none"

\* The inductive invariant.
ScreensInv ==
  /\ ScreensTypeOK
  /\ SettledRefetchIsDue(home)
  /\ home.settled => \A s \in Sources : Reread(balances[s])
  /\ FiguresAreRead
  /\ \A k \in Keys : SeriesIsKept(series[k])

-----------------------------------------------------------------------------
\* It implies the types.
LEMMA ScreensTypes ==
  ASSUME ScreensInv
  PROVE  /\ home \in Homes /\ balances \in [Sources -> Balances]
         /\ quotes \in [answered : BOOLEAN, data : [Coins -> Figures]]
         /\ asset \in [coin : Coins \cup {NoCoin}, range : Ranges]
         /\ series \in [Keys -> SeriesStates]
BY DEF ScreensInv, ScreensTypeOK, Homes, Balances, SeriesStates

\* A render keeps the timer and the settled refetch together.
LEMMA RenderKeeps ==
  ASSUME NEW after \in Homes, home \in Homes, SettledRefetchIsDue(home),
         after.ran = home.ran, after.status = home.status => SettledRefetchIsDue(after),
         home.status = "ready" => after.status = "ready"
  PROVE  /\ AfterRender(after) \in Homes /\ SettledRefetchIsDue(AfterRender(after))
         /\ AfterRender(after).settled = after.settled
<1> DEFINE off == [after EXCEPT !.timer = FALSE]
           on == [after EXCEPT !.timer = TRUE, !.ran = TRUE]
<1>1. /\ off \in Homes /\ off.status = after.status /\ off.ran = after.ran
      /\ off.settled = after.settled
  BY DEF Homes
<1>2. /\ on \in Homes /\ on.status = after.status /\ on.timer
      /\ on.settled = after.settled
  BY DEF Homes
<1>3. AfterRender(after) = IF home.status = after.status THEN after
                           ELSE IF after.status # "ready" \/ after.ran THEN off ELSE on
  BY DEF AfterRender, Changes
<1> HIDE DEF off, on
<1> QED BY <1>1, <1>2, <1>3 DEF SettledRefetchIsDue

\* Both screens start with nothing read.
LEMMA ScreensInitially == ScreensInit => ScreensInv
<1> SUFFICES ASSUME ScreensInit PROVE ScreensInv
  OBVIOUS
<1>1. NoFigures \in [Coins -> {1, Unknown}] /\ NoFigures \in [Coins -> Figures]
  BY DEF NoFigures, Figures
<1>2. NewSeries \in SeriesStates /\ SeriesIsKept(NewSeries)
  BY DEF NewSeries, SeriesStates, SeriesIsKept
<1>3. /\ balances \in [Sources -> Balances] /\ \A s \in Sources : balances[s].data = NoFigures
  BY <1>1 DEF ScreensInit, Balances, Fetches
<1>4. series \in [Keys -> SeriesStates] /\ \A k \in Keys : SeriesIsKept(series[k])
  BY <1>2 DEF ScreensInit
<1>5. /\ home \in Homes /\ home.status = "loading" /\ ~home.ran /\ ~home.settled
  BY DEF ScreensInit, Homes
<1>6. /\ DOMAIN waits = {} /\ quotes \in [answered : BOOLEAN, data : [Coins -> Figures]]
      /\ quotes.data = NoFigures /\ asset \in [coin : Coins \cup {NoCoin}, range : Ranges]
  BY <1>1, ScreensAssumption DEF ScreensInit
<1>7. ScreensTypeOK
  BY <1>3, <1>4, <1>5, <1>6 DEF ScreensTypeOK, Homes, Balances, SeriesStates
<1> QED BY <1>1, <1>2, <1>3, <1>4, <1>5, <1>6, <1>7 DEF ScreensInv, SettledRefetchIsDue, FiguresAreRead

\* A step of the dashboard.
LEMMA HomeKeeps ==
  ASSUME ScreensInv, UNCHANGED assetVars, home' \in Homes, SettledRefetchIsDue(home'),
         home'.settled => \A s \in Sources : Reread(balances'[s]),
         DOMAIN waits' \subseteq Refreshers, \A r \in DOMAIN waits' : waits'[r] \subseteq Sources,
         balances' \in [Sources -> Balances], quotes' \in [answered : BOOLEAN, data : [Coins -> Figures]],
         FiguresAreRead'
  PROVE  ScreensInv'
<1>1. ScreensTypeOK'
  BY DEF ScreensInv, ScreensTypeOK, Homes, Balances, assetVars
<1> QED BY <1>1 DEF ScreensInv, assetVars

\* A step of the dashboard keeps it,
LEMMA HomeNextKeeps ==
  ASSUME ScreensInv, HomeNext, UNCHANGED assetVars
  PROVE  ScreensInv'
<1> DEFINE Quotes4 == [answered : BOOLEAN, data : [Coins -> Figures]]
           WaitsOK == DOMAIN waits \subseteq Refreshers /\ \A r \in DOMAIN waits : waits[r] \subseteq Sources
<1>0. /\ home \in Homes /\ balances \in [Sources -> Balances] /\ quotes \in Quotes4 /\ WaitsOK
      /\ SettledRefetchIsDue(home) /\ (home.settled => \A s \in Sources : Reread(balances[s]))
      /\ FiguresAreRead
  BY ScreensTypes DEF ScreensInv, ScreensTypeOK
\* A step after which the dashboard is rendered.
<1>b. ASSUME NEW after \in Homes, home' = AfterRender(after), after.ran = home.ran,
             after.status = home.status => SettledRefetchIsDue(after),
             home.status = "ready" => after.status = "ready"
      PROVE  home' \in Homes /\ SettledRefetchIsDue(home') /\ home'.settled = after.settled
  BY <1>0, <1>b, RenderKeeps
\* One that concerns no query.
<1>c. ASSUME NEW after \in Homes, home' = AfterRender(after), after.ran = home.ran,
             after.status = home.status => SettledRefetchIsDue(after),
             home.status = "ready" => after.status = "ready",
             after.settled = home.settled, UNCHANGED <<balances, quotes>>,
             DOMAIN waits' \subseteq Refreshers, \A r \in DOMAIN waits' : waits'[r] \subseteq Sources
      PROVE  ScreensInv'
  <2>1. home' \in Homes /\ SettledRefetchIsDue(home') /\ home'.settled = home.settled
    BY <1>b, <1>c
  <2>2. FiguresAreRead'
    BY <1>0, <1>c DEF FiguresAreRead
  <2>3. home'.settled => \A s \in Sources : Reread(balances'[s])
    BY <1>0, <1>c, <2>1
  <2>4. balances' \in [Sources -> Balances] /\ quotes' \in Quotes4
    BY <1>0, <1>c
  <2> QED BY <1>c, <2>1, <2>2, <2>3, <2>4, HomeKeeps
\* The timer's call of handleRefresh, or the user's.
<1>d. ASSUME NEW r \in Refreshers, NEW h \in Homes, HandleRefresh(r, h), h.ran = home.ran,
             h.status = home.status, SettledRefetchIsDue(h),
             h.settled => r = "settled" \/ home.settled
      PROVE  ScreensInv'
  <2> DEFINE after == [h EXCEPT !.refreshing = TRUE]
  <2>1. /\ after \in Homes /\ after.ran = h.ran /\ after.status = h.status
        /\ after.timer = h.timer /\ after.settled = h.settled
    BY DEF Homes
  <2>2. home' = AfterRender(after) /\ UNCHANGED quotes
    BY <1>d DEF HandleRefresh
  <2> HIDE DEF after
  <2>3. home' \in Homes /\ SettledRefetchIsDue(home') /\ home'.settled = h.settled
    <3>1. SettledRefetchIsDue(after)
      BY <1>d, <2>1 DEF SettledRefetchIsDue
    <3> QED BY <1>b, <1>d, <2>1, <2>2, <3>1
  <2>4. /\ DOMAIN waits' = DOMAIN waits \cup {r}
        /\ \A q \in DOMAIN waits' : waits'[q] \subseteq Sources
    <3>1. waits' = [q \in DOMAIN waits \cup {r} |->
                     IF q = r THEN Sources ELSE {s \in waits[q] : AwaitsFirst(s)}]
      BY <1>d DEF HandleRefresh
    <3> QED BY <1>0, <3>1
  <2> DEFINE begun == [s \in Sources |-> [balances[s] EXCEPT !.fetch = FetchBegun(h)]]
             joined == [s \in Sources |-> [balances[s] EXCEPT !.missed = "joined"]]
  <2>5. FetchBegun(h) \in Fetches /\ (h.settled => FetchBegun(h) = "late") /\ FetchBegun(h) # "none"
    BY DEF FetchBegun, Fetches
  <2>6. ASSUME NEW s \in Sources
        PROVE  /\ begun[s] \in Balances /\ begun[s].figure = balances[s].figure
               /\ begun[s].fetch = FetchBegun(h)
               /\ begun[s].missed = balances[s].missed /\ begun[s].data = balances[s].data
               /\ joined[s] \in Balances /\ joined[s].figure = balances[s].figure
               /\ joined[s].fetch = balances[s].fetch
               /\ joined[s].missed = "joined" /\ joined[s].data = balances[s].data
    <3> HIDE DEF FetchBegun
    <3>1. balances[s] \in Balances
      BY <1>0
    <3> QED BY <2>5, <3>1 DEF Balances
  <2>7. balances' = [s \in Sources |->
          IF ~AwaitsFirst(s) THEN begun[s] ELSE IF r = "settled" THEN joined[s] ELSE balances[s]]
    BY <1>d DEF HandleRefresh
  <2> HIDE DEF begun, joined
  <2>8. /\ balances' \in [Sources -> Balances]
        /\ \A s \in Sources : balances'[s].figure = balances[s].figure /\ balances'[s].data = balances[s].data
    BY <1>0, <2>6, <2>7
  <2>9. ASSUME home'.settled, NEW s \in Sources PROVE Reread(balances'[s])
    <3>1. CASE ~AwaitsFirst(s)
      BY <2>3, <2>5, <2>6, <2>7, <2>9, <3>1 DEF Reread
    <3>2. CASE AwaitsFirst(s) /\ r = "settled"
      BY <2>6, <2>7, <3>2 DEF Reread
    <3>3. CASE AwaitsFirst(s) /\ r # "settled"
      BY <1>0, <1>d, <2>3, <2>7, <2>9, <3>3
    <3> QED BY <3>1, <3>2, <3>3
  <2>10. FiguresAreRead'
    BY <1>0, <2>2, <2>8 DEF FiguresAreRead
  <2>11. DOMAIN waits' \subseteq Refreshers /\ quotes' \in Quotes4
    BY <1>0, <2>2, <2>4
  <2> QED BY <2>3, <2>4, <2>8, <2>9, <2>10, <2>11, HomeKeeps
<1> HIDE DEF Quotes4
<1>1. CASE Bootstrap
  <2>1. PICK s \in {"loading", "ready", "error"} :
          home.status # "ready" /\ s # home.status /\ home' = AfterRender([home EXCEPT !.status = s])
    BY <1>1 DEF Bootstrap
  <2> DEFINE after == [home EXCEPT !.status = s]
  <2>2. /\ after \in Homes /\ after.ran = home.ran /\ after.status = s
        /\ after.settled = home.settled
    BY <1>0 DEF Homes
  <2>3. home' = AfterRender(after) /\ UNCHANGED <<waits, balances, quotes>>
    BY <1>1, <2>1 DEF Bootstrap
  <2> HIDE DEF after
  <2> QED BY <1>0, <1>c, <2>1, <2>2, <2>3
<1>2. CASE ChooseFilter
  <2>1. PICK f \in {"all", "mainnet", "testnet"} : home' = AfterRender([home EXCEPT !.filter = f])
    BY <1>2 DEF ChooseFilter
  <2> DEFINE after == [home EXCEPT !.filter = f]
  <2>2. /\ after \in Homes /\ after.ran = home.ran /\ after.status = home.status
        /\ after.timer = home.timer /\ after.settled = home.settled
    BY <1>0 DEF Homes
  <2>3. home' = AfterRender(after) /\ UNCHANGED <<waits, balances, quotes>>
    BY <1>2, <2>1 DEF ChooseFilter
  <2> HIDE DEF after
  <2>4. SettledRefetchIsDue(after)
    BY <1>0, <2>2 DEF SettledRefetchIsDue
  <2> QED BY <1>0, <1>c, <2>2, <2>3, <2>4
<1>3. CASE SettledRefetch
  <2> DEFINE h == [home EXCEPT !.timer = FALSE, !.settled = TRUE]
  <2>1. /\ h \in Homes /\ h.ran = home.ran /\ h.status = home.status /\ h.settled
    BY <1>0 DEF Homes
  <2>2. HandleRefresh("settled", h)
    BY <1>3 DEF SettledRefetch
  <2> HIDE DEF h
  <2> QED BY <1>0, <1>d, <2>1, <2>2 DEF Refreshers, SettledRefetchIsDue
<1>4. CASE PullToRefreshHome
  BY <1>0, <1>4, <1>d DEF PullToRefreshHome, Refreshers
<1>5. CASE GetPrices
  <2>1. /\ quotes' \in Quotes4 /\ quotes'.data \in [Coins -> {1, Unknown}]
        /\ UNCHANGED <<home, waits, balances>>
    <3>1. PICK data \in [Coins -> {1, Unknown}] : quotes' = [answered |-> TRUE, data |-> data]
      BY <1>0, <1>5 DEF GetPrices, FiguresAreRead
    <3>2. data \in [Coins -> Figures]
      BY DEF Figures
    <3> QED BY <1>5, <3>1, <3>2 DEF GetPrices, Quotes4
  <2>2. FiguresAreRead'
    BY <1>0, <2>1 DEF FiguresAreRead
  <2> QED BY <1>0, <2>1, <2>2, HomeKeeps DEF Quotes4
<1>6. ASSUME NEW r \in Refreshers, EndRefresh(r) PROVE ScreensInv'
  <2> DEFINE after == [home EXCEPT !.refreshing = FALSE]
  <2>1. /\ after \in Homes /\ after.ran = home.ran /\ after.status = home.status
        /\ after.timer = home.timer /\ after.settled = home.settled
    BY <1>0 DEF Homes
  <2>2. /\ home' = AfterRender(after) /\ UNCHANGED <<balances, quotes>>
        /\ waits' = [q \in DOMAIN waits \ {r} |-> waits[q]]
    BY <1>6 DEF EndRefresh
  <2> HIDE DEF after
  <2>3. SettledRefetchIsDue(after)
    BY <1>0, <2>1 DEF SettledRefetchIsDue
  <2>4. DOMAIN waits' \subseteq Refreshers /\ \A q \in DOMAIN waits' : waits'[q] \subseteq Sources
    BY <1>0, <2>2
  <2> QED BY <1>c, <2>1, <2>2, <2>3, <2>4
<1>7. ASSUME NEW s \in Sources, FetchAgain(s) PROVE ScreensInv'
  <2> DEFINE b == [balances[s] EXCEPT !.fetch = FetchBegun(home)]
  <2>1. balances' = [balances EXCEPT ![s] = b] /\ UNCHANGED <<home, waits, quotes>>
    BY <1>7 DEF FetchAgain
  <2>2. balances[s] \in Balances
    BY <1>0
  <2>3. FetchBegun(home) \in Fetches /\ (home.settled => FetchBegun(home) = "late")
    BY DEF FetchBegun, Fetches
  <2>4. /\ b \in Balances /\ b.figure = balances[s].figure /\ b.data = balances[s].data
        /\ b.fetch = FetchBegun(home)
    <3> HIDE DEF FetchBegun
    <3> QED BY <2>2, <2>3 DEF Balances
  <2> HIDE DEF b
  <2>5. balances' \in [Sources -> Balances] /\ \A t \in Sources : balances'[t] = IF t = s THEN b ELSE balances[t]
    BY <1>0, <2>1, <2>4
  <2>6. ASSUME home'.settled, NEW t \in Sources PROVE Reread(balances'[t])
    <3>1. Reread(balances[t]) /\ (t = s => b.fetch = "late")
      BY <1>0, <2>1, <2>3, <2>4, <2>6
    <3> QED BY <2>5, <3>1 DEF Reread
  <2>7. FiguresAreRead'
    BY <1>0, <2>1, <2>4, <2>5 DEF FiguresAreRead
  <2> QED BY <1>0, <2>1, <2>5, <2>6, <2>7, HomeKeeps DEF Quotes4
<1>8. ASSUME NEW s \in Sources, EndBalances(s) PROVE ScreensInv'
  <2> DEFINE mine == {c \in Coins : SourceOf[c] = s}
             ended == [balances[s] EXCEPT !.fetch = "none"]
             failed == [ended EXCEPT !.missed = "failed"]
             read(got) == [c \in Coins |-> IF c \in mine THEN got[c] ELSE Unknown]
             with(data) == [ended EXCEPT !.figure = balances[s].fetch, !.data = data]
  <2>1. /\ balances[s].fetch # "none"
        /\ \/ \E got \in [mine -> Figures] : balances' = [balances EXCEPT ![s] = with(read(got))]
           \/ balances' = [balances EXCEPT ![s] = IF balances[s].fetch = "late" THEN failed ELSE ended]
        /\ waits' = [q \in DOMAIN waits |-> waits[q] \ {s}] /\ UNCHANGED <<home, quotes>>
    BY <1>8 DEF EndBalances
  <2>2. balances[s] \in Balances
    BY <1>0
  <2>3. /\ ended \in Balances /\ ended.figure = balances[s].figure /\ ended.data = balances[s].data
        /\ ended.fetch = "none" /\ ended.missed = balances[s].missed
    BY <2>2 DEF Balances, Fetches
  <2>4. \A got \in [mine -> Figures] : read(got) \in [Coins -> Figures]
    BY DEF Figures
  <2> HIDE DEF ended, read, mine
  <2>5. ASSUME NEW data \in [Coins -> Figures]
        PROVE  /\ with(data) \in Balances /\ with(data).figure = balances[s].fetch
               /\ with(data).fetch = "none" /\ with(data).missed = balances[s].missed
    BY <2>2, <2>3 DEF Balances
  <2>6. /\ failed \in Balances /\ failed.figure = balances[s].figure /\ failed.data = balances[s].data
        /\ failed.missed = "failed"
    BY <2>3 DEF Balances
  <2> HIDE DEF with, failed
  <2>7. PICK b \in Balances :
          /\ balances' = [balances EXCEPT ![s] = b]
          /\ \/ b.figure = balances[s].fetch /\ b.fetch = "none" /\ b.missed = balances[s].missed
             \/ b.figure = balances[s].figure /\ b.data = balances[s].data /\ b.missed = "failed"
             \/ /\ b.figure = balances[s].figure /\ b.data = balances[s].data
                /\ balances[s].fetch # "late" /\ b.fetch = "none" /\ b.missed = balances[s].missed
    BY <2>1, <2>3, <2>4, <2>5, <2>6
  <2>8. balances' \in [Sources -> Balances] /\ \A t \in Sources : balances'[t] = IF t = s THEN b ELSE balances[t]
    BY <1>0, <2>7
  <2>9. ASSUME home'.settled, NEW t \in Sources PROVE Reread(balances'[t])
    <3>1. Reread(balances[t]) /\ Reread(balances[s])
      BY <1>0, <2>1, <2>9
    <3>2. Reread(b)
      BY <2>1, <2>2, <2>7, <3>1 DEF Reread, Balances, Fetches
    <3> QED BY <2>8, <3>1, <3>2
  <2>10. FiguresAreRead'
    BY <1>0, <2>1, <2>7, <2>8 DEF FiguresAreRead
  <2>11. DOMAIN waits' = DOMAIN waits /\ \A q \in DOMAIN waits' : waits'[q] \subseteq Sources
    BY <1>0, <2>1
  <2> QED BY <1>0, <2>1, <2>8, <2>9, <2>10, <2>11, HomeKeeps DEF Quotes4
<1> QED BY <1>1, <1>2, <1>3, <1>4, <1>5, <1>6, <1>7, <1>8 DEF HomeNext

\* A step of the screen of an asset.
LEMMA AssetKeeps ==
  ASSUME ScreensInv, UNCHANGED homeVars, asset' \in [coin : Coins \cup {NoCoin}, range : Ranges],
         series' \in [Keys -> SeriesStates], \A k \in Keys : SeriesIsKept(series'[k])
  PROVE  ScreensInv'
<1>1. ScreensTypeOK'
  BY DEF ScreensInv, ScreensTypeOK, SeriesStates, homeVars
<1> QED BY <1>1 DEF ScreensInv, FiguresAreRead, homeVars

\* An observed query stays one.
LEMMA ObserveKeeps ==
  ASSUME ScreensInv, NEW coin \in Coins, NEW range \in Ranges, Observe(coin, range)
  PROVE  /\ series' \in [Keys -> SeriesStates] /\ \A k \in Keys : SeriesIsKept(series'[k])
         /\ LET k == QueryKey(coin, range)
            IN k \in Keys /\ (series[k].points # "none" => /\ series'[k].points = series[k].points
                                                         /\ series'[k].status = series[k].status)
<1> DEFINE k == QueryKey(coin, range)
           status == IF series[k].points = "none" THEN "pending" ELSE series[k].status
           new == [series[k] EXCEPT !.fetching = TRUE, !.status = status]
<1>1. series \in [Keys -> SeriesStates] /\ k \in Keys /\ \A q \in Keys : SeriesIsKept(series[q])
  BY ScreensTypes DEF QueryKey, Keys, ScreensInv
<1> HIDE DEF k
<1>2. series' = series \/ series' = [series EXCEPT ![k] = new]
  BY <1>1 DEF Observe, k
<1>3. /\ series[k] \in SeriesStates /\ status \in {"pending", "success", "error"}
      /\ series[k].points # "none" => status = series[k].status
  BY <1>1 DEF SeriesStates
<1> HIDE DEF status
<1>4. new \in SeriesStates /\ new.status = status /\ new.points = series[k].points
  BY <1>3 DEF SeriesStates
<1> HIDE DEF new
<1>5. SeriesIsKept(new)
  BY <1>1, <1>3, <1>4 DEF SeriesIsKept
<1>6. /\ series' \in [Keys -> SeriesStates] /\ \A q \in Keys : SeriesIsKept(series'[q])
      /\ series[k].points # "none" => /\ series'[k].points = series[k].points
                                      /\ series'[k].status = series[k].status
  BY <1>1, <1>2, <1>3, <1>4, <1>5
<1> QED BY <1>1, <1>6 DEF k

\* and so does a step of the screen of an asset.
LEMMA AssetNextKeeps ==
  ASSUME ScreensInv, AssetNext, UNCHANGED homeVars
  PROVE  ScreensInv'
<1>0. /\ asset \in [coin : Coins \cup {NoCoin}, range : Ranges] /\ series \in [Keys -> SeriesStates]
      /\ asset.range \in Ranges /\ (asset.coin # NoCoin => asset.coin \in Coins)
      /\ \A q \in Keys : SeriesIsKept(series[q])
  BY ScreensTypes DEF ScreensInv
<1>1. ASSUME NEW c \in Coins, OpenAsset(c) PROVE ScreensInv'
  <2>1. asset' \in [coin : Coins \cup {NoCoin}, range : Ranges] /\ Observe(c, FirstRange) /\ FirstRange \in Ranges
    BY <1>1, ScreensAssumption DEF OpenAsset
  <2> QED BY <2>1, ObserveKeeps, AssetKeeps
<1>2. ASSUME NEW r \in Ranges, SetRange(r) PROVE ScreensInv'
  <2>1. /\ asset' \in [coin : Coins \cup {NoCoin}, range : Ranges]
        /\ asset.coin \in Coins /\ Observe(asset.coin, r)
    BY <1>0, <1>2 DEF SetRange
  <2> QED BY <2>1, ObserveKeeps, AssetKeeps
<1>3. CASE CloseAsset
  <2>1. asset' \in [coin : Coins \cup {NoCoin}, range : Ranges] /\ UNCHANGED series
    BY <1>0, <1>3 DEF CloseAsset
  <2> QED BY <1>0, <2>1, AssetKeeps
<1>4. CASE RetryChart
  <2>1. asset.coin \in Coins /\ Observe(asset.coin, asset.range) /\ UNCHANGED asset
    BY <1>0, <1>4 DEF RetryChart
  <2> QED BY <1>0, <2>1, ObserveKeeps, AssetKeeps
<1>5. ASSUME NEW k \in Keys, EndSeries(k) PROVE ScreensInv'
  <2> DEFINE got(points) == [status |-> "success", fetching |-> FALSE, points |-> points]
             failed == [series[k] EXCEPT !.status = "error", !.fetching = FALSE]
  <2>1. /\ UNCHANGED asset
        /\ \/ \E points \in {"empty", "some"} : series' = [series EXCEPT ![k] = got(points)]
           \/ series' = [series EXCEPT ![k] = failed]
    BY <1>0, <1>5 DEF EndSeries
  <2>2. /\ failed \in SeriesStates /\ SeriesIsKept(failed)
        /\ \A points \in {"empty", "some"} : got(points) \in SeriesStates /\ SeriesIsKept(got(points))
    BY <1>0 DEF SeriesStates, SeriesIsKept
  <2> HIDE DEF got, failed
  <2>3. series' \in [Keys -> SeriesStates] /\ \A q \in Keys : SeriesIsKept(series'[q])
    BY <1>0, <2>1, <2>2
  <2> QED BY <1>0, <2>1, <2>3, AssetKeeps
<1> QED BY <1>1, <1>2, <1>3, <1>4, <1>5 DEF AssetNext

\* The inductive invariant holds in every reachable state.
LEMMA ScreensInvariant == ScreensSpec => []ScreensInv
<1>1. ScreensInv /\ [ScreensNext]_screenVars => ScreensInv'
  <2>1. ScreensInv /\ UNCHANGED screenVars => ScreensInv'
    BY DEF screenVars, homeVars, assetVars, ScreensInv, ScreensTypeOK, FiguresAreRead
  <2> QED BY <2>1, HomeNextKeeps, AssetNextKeeps DEF ScreensNext
<1> QED BY <1>1, ScreensInitially, PTL DEF ScreensSpec

\* Every variable of the two screens keeps its type.
THEOREM ScreensTypeCorrect == ScreensSpec => []ScreensTypeOK
<1>1. ScreensInv => ScreensTypeOK
  BY DEF ScreensInv
<1> QED BY <1>1, ScreensInvariant, PTL

\* Once the dashboard's timer has run out, a figure asked for before that is
\* shown only until a newer answer comes, unless the query was still in its first fetch
\* or the newer one failed ((tabs)/index.tsx): whatever is tapped,
\* answered and refreshed meanwhile, for any number of coins and of queries.
THEOREM EarlyFiguresFollow == ScreensSpec => []EarlyFiguresAreReread
<1>1. ScreensInv => EarlyFiguresAreReread
  BY DEF ScreensInv, EarlyFiguresAreReread, SettledRefetchIsDue, Reread
<1> QED BY <1>1, ScreensInvariant, PTL

\* A range of an asset's chart that was fetched is drawn at once when the user
\* flips back to it, also while it is fetched again (hooks/usePriceHistory.ts), unless
\* its last fetch failed.
THEOREM RangesAreDrawn == ScreensSpec => FetchedRangeIsDrawn
<1> DEFINE Drawn ==
      LET s == series[QueryKey(asset.coin, asset'.range)]
      IN asset'.coin = asset.coin /\ asset'.range # asset.range
           /\ s.points = "some" /\ s.status # "error"
         => PriceChart' = "chart"
<1>1. ASSUME ScreensInv, AssetNext PROVE Drawn
  <2>1. CASE \E r \in Ranges : SetRange(r)
    <3>1. PICK r \in Ranges : SetRange(r)
      BY <2>1
    <3> DEFINE k == QueryKey(asset.coin, r)
    <3>2. /\ asset.coin \in Coins /\ Observe(asset.coin, r)
          /\ asset'.coin = asset.coin /\ asset'.range = r
      BY <1>1, <3>1, ScreensTypes DEF SetRange
    <3>3. /\ k \in Keys /\ series[k] \in SeriesStates /\ SeriesIsKept(series[k])
          /\ series[k].points # "none" => /\ series'[k].points = series[k].points
                                          /\ series'[k].status = series[k].status
      BY <1>1, <3>2, ObserveKeeps, ScreensTypes DEF ScreensInv
    <3>4. PriceChart' = IF series'[k].status = "pending" /\ series'[k].fetching THEN "skeleton"
                        ELSE IF series'[k].status = "error" THEN "error"
                        ELSE IF series'[k].points = "empty" THEN "no data" ELSE "chart"
      <4> HIDE DEF k
      <4>1. QueryKey(asset'.coin, asset'.range) = k
        BY <3>2 DEF k
      <4> QED BY <4>1 DEF PriceChart, HistoryLoading, HasMarketData
    <3> HIDE DEF k
    <3>5. series[k].points = "some" /\ series[k].status # "error" => PriceChart' = "chart"
      BY <3>3, <3>4 DEF SeriesIsKept
    <3> QED BY <3>2, <3>5 DEF k
  <2>2. CASE \E c \in Coins : OpenAsset(c)
    <3>1. PICK c \in Coins : OpenAsset(c)
      BY <2>2
    <3>2. asset'.coin # asset.coin
      BY <3>1, ScreensAssumption DEF OpenAsset
    <3> QED BY <3>2
  <2>3. CASE CloseAsset \/ RetryChart \/ \E k \in Keys : EndSeries(k)
    <3>1. asset'.range = asset.range
      BY <1>1, <2>3, ScreensTypes DEF CloseAsset, RetryChart, EndSeries
    <3> QED BY <3>1
  <2> QED BY <1>1, <2>1, <2>2, <2>3 DEF AssetNext
<1>2. ScreensInv /\ [ScreensNext]_screenVars => [Drawn]_screenVars
  <2>1. UNCHANGED assetVars => asset' = asset
    BY DEF assetVars
  <2> QED BY <1>1, <2>1 DEF ScreensNext
<1>3. FetchedRangeIsDrawn <=> [][Drawn]_screenVars
  BY PTL DEF FetchedRangeIsDrawn
<1> QED BY <1>2, <1>3, ScreensInvariant, PTL DEF ScreensSpec

-----------------------------------------------------------------------------
\* What a coin is worth when it is known, and where that comes from.
LEMMA ValuedFigures ==
  ASSUME ScreensInv, NEW c \in Valued
  PROVE  /\ Fiat(c) \in Nat
         /\ Fiat(c) = 0 => /\ c \in Coins /\ balances[SourceOf[c]].figure # "none" /\ BalanceByAssetId(c) = 0
                           /\ quotes.data[c] # Unknown
<1>1. /\ c \in Coins /\ SourceOf[c] \in Sources
      /\ BalanceByAssetId(c) # Unknown /\ quotes.data[c] # Unknown
      /\ Fiat(c) = BalanceByAssetId(c) * quotes.data[c]
  BY DEF Valued, Fiat, ComputeFiatValue, Sources
<1>2. quotes.data[c] = 1
  BY <1>1 DEF ScreensInv, FiguresAreRead
<1>3. BalanceByAssetId(c) \in {0, 1}
  BY <1>1, ScreensTypes DEF Balances, Figures, BalanceByAssetId
<1>4. balances[SourceOf[c]].figure # "none"
  <2>1. balances[SourceOf[c]].figure = "none" => BalanceByAssetId(c) = Unknown
    BY <1>1 DEF ScreensInv, FiguresAreRead, BalanceByAssetId, NoFigures
  <2> QED BY <1>1, <2>1
<1> QED BY <1>1, <1>2, <1>3, <1>4

\* The sum over the coins of a set, taken in any order: MapThenSumSet's.
SumsBy(g) ==
  g = [s \in SUBSET Valued |->
        IF s = {} THEN 0 ELSE LET x == CHOOSE y \in s : TRUE IN Fiat(x) + g[s \ {x}]]

\* The coins that have a value are finitely many.
LEMMA ValuedIsFinite == IsFiniteSet(Valued)
BY ScreensAssumption, FS_Subset DEF Valued

\* The function that MapThenSumSet defines by recursion exists.
LEMMA SumExists == ASSUME ScreensInv PROVE \E g : SumsBy(g)
<1> DEFINE ch == [s \in SUBSET Valued |-> CHOOSE y \in s : TRUE]
           h == [p \in Valued \X Nat |-> Fiat(p[1]) + p[2]]
<1>1. \A s \in (SUBSET Valued) \ {{}} : ch[s] \in s
  OBVIOUS
<1>2. PICK g : FoldsBy(g, Valued, ch, 0, h)
  <2> HIDE DEF ch, h
  <2> QED BY <1>1, ValuedIsFinite, FoldExists
<1>3. \A s \in SUBSET Valued : g[s] = IF s = {} THEN 0 ELSE h[<<ch[s], g[s \ {ch[s]}]>>]
  BY <1>2 DEF FoldsBy
<1> DEFINE Good == {s \in SUBSET Valued : g[s] \in Nat}
<1>4. ASSUME NEW s \in SUBSET Valued, \A x \in s : s \ {x} \in Good PROVE s \in Good
  <2>1. CASE s = {}
    <3>1. g[s] = 0
      BY <1>3, <2>1
    <3> QED BY <2>1, <3>1
  <2>2. CASE s # {}
    <3>1. ch[s] \in Valued /\ g[s \ {ch[s]}] \in Nat
      <4>1. ch[s] \in s
        BY <1>1, <2>2
      <4> HIDE DEF ch
      <4> QED BY <1>4, <4>1
    <3>2. \A x \in Valued, n \in Nat : h[<<x, n>>] = Fiat(x) + n
      OBVIOUS
    <3>3. h[<<ch[s], g[s \ {ch[s]}]>>] = Fiat(ch[s]) + g[s \ {ch[s]}]
      <4> HIDE DEF ch, h
      <4> QED BY <3>1, <3>2
    <3>4. Fiat(ch[s]) \in Nat
      BY <3>1, ValuedFigures
    <3> HIDE DEF ch, h
    <3> QED BY <1>3, <2>2, <3>1, <3>3, <3>4
  <2> QED BY <2>1, <2>2
<1>5. \A s \in SUBSET Valued : g[s] \in Nat
  <2> HIDE DEF Good
  <2>1. SUBSET Valued \subseteq Good
    BY <1>4, ValuedIsFinite, SetOfSubsets
  <2> QED BY <2>1 DEF Good
<1>6. ASSUME NEW s \in SUBSET Valued, s # {}
      PROVE  g[s] = LET x == CHOOSE y \in s : TRUE IN Fiat(x) + g[s \ {x}]
  <2>1. ch[s] = CHOOSE y \in s : TRUE
    OBVIOUS
  <2>2. ch[s] \in Valued /\ g[s \ {ch[s]}] \in Nat
    <3>1. ch[s] \in s
      BY <1>1, <1>6
    <3> HIDE DEF ch
    <3> QED BY <1>5, <3>1
  <2>3. h[<<ch[s], g[s \ {ch[s]}]>>] = Fiat(ch[s]) + g[s \ {ch[s]}]
    <3> HIDE DEF ch
    <3> QED BY <2>2
  <2> HIDE DEF h
  <2> QED BY <1>3, <1>6, <2>1, <2>3
<1>7. g = [s \in SUBSET Valued |->
            IF s = {} THEN 0 ELSE LET x == CHOOSE y \in s : TRUE IN Fiat(x) + g[s \ {x}]]
  <2> DEFINE f == [s \in SUBSET Valued |->
            IF s = {} THEN 0 ELSE LET x == CHOOSE y \in s : TRUE IN Fiat(x) + g[s \ {x}]]
  <2>1. g = [s \in SUBSET Valued |-> g[s]]
    BY <1>2 DEF FoldsBy
  <2>2. \A s \in SUBSET Valued : f[s] = g[s]
    BY <1>3, <1>6
  <2>3. f = [s \in SUBSET Valued |-> f[s]]
    OBVIOUS
  <2> HIDE DEF f
  <2>4. f = g
    BY <2>1, <2>2, <2>3
  <2> QED BY <2>4 DEF f
<1> QED BY <1>7 DEF SumsBy

\* A sum of naturals that is 0 is one of zeros.
LEMMA SumOfZeros ==
  ASSUME ScreensInv
  PROVE  MapThenSumSet(Fiat, Valued) = 0 => \A c \in Valued : Fiat(c) = 0
<1> DEFINE g == CHOOSE f : SumsBy(f)
<1>1. MapThenSumSet(Fiat, Valued) = g[Valued]
  BY DEF MapThenSumSet, MapThenFoldSet, SumsBy
<1>2. SumsBy(g)
  BY SumExists
<1> HIDE DEF g
<1>3. \A s \in SUBSET Valued :
        g[s] = IF s = {} THEN 0 ELSE LET x == CHOOSE y \in s : TRUE IN Fiat(x) + g[s \ {x}]
  BY <1>2 DEF SumsBy
<1> DEFINE Good == {s \in SUBSET Valued : g[s] \in Nat /\ (g[s] = 0 => \A c \in s : Fiat(c) = 0)}
<1>4. ASSUME NEW s \in SUBSET Valued, \A x \in s : s \ {x} \in Good PROVE s \in Good
  <2>1. CASE s = {}
    <3>1. g[s] = 0
      BY <1>3, <2>1
    <3> QED BY <2>1, <3>1
  <2>2. CASE s # {}
    <3> DEFINE x == CHOOSE y \in s : TRUE
    <3>1. x \in s
      BY <2>2
    <3>2. g[s] = Fiat(x) + g[s \ {x}]
      BY <1>3, <2>2
    <3> HIDE DEF x
    <3>3. s \ {x} \in Good /\ Fiat(x) \in Nat
      BY <1>4, <3>1, ValuedFigures
    <3> QED BY <3>1, <3>2, <3>3
  <2> QED BY <2>1, <2>2
<1>5. Valued \in Good
  <2> HIDE DEF Good
  <2> QED BY <1>4, ValuedIsFinite, SetOfSubsets
<1> QED BY <1>1, <1>5

\* A total of zero is not shown for want of figures (hooks/useAssetBalances.ts,
\* components/balance/buildAssetRows.ts): some coin's balance was read, is 0 and has
\* a price.  The sum is taken over any finite set of coins.
THEOREM ZeroIsRead == ScreensSpec => []UnknownIsNotZero
<1>1. ScreensInv => UnknownIsNotZero
  <2> SUFFICES ASSUME ScreensInv, TotalFiat = 0
               PROVE  \E c \in Coins : /\ balances[SourceOf[c]].figure # "none" /\ BalanceByAssetId(c) = 0
                                       /\ quotes.data[c] # Unknown
    BY DEF UnknownIsNotZero
  <2>1. Valued # {} /\ MapThenSumSet(Fiat, Valued) = 0
    BY DEF TotalFiat, Unknown
  <2>2. PICK c \in Valued : Fiat(c) = 0
    BY <2>1, SumOfZeros
  <2> QED BY <2>2, ValuedFigures
<1> QED BY <1>1, ScreensInvariant, PTL

-----------------------------------------------------------------------------
(***************************************************************************)
(* Motion.  At rest says nothing of a value on its way; the invariant says *)
(* of every animation under way where it will end.                         *)
(***************************************************************************)
\* What an animated value does that is to stay at a place: it is there, or
\* it is on its way there.
Settles(v, place) ==
  (v.slide = "none" /\ v.at = place) \/ (v.slide = "settle" /\ v.aim = place)

\* A finger, or a layout that is still to come, may have left an open sheet
\* anywhere; otherwise it is where its details end or on the way.
SheetFollows ==
  /\ ~sheet.rendered => selected = NoDetail /\ offset.slide = "none" /\ ~sheet.held
  /\ selected # NoDetail =>
       /\ sheet.rendered /\ displayed = selected /\ offset.slide # "leave"
       /\ ~sheet.held /\ sheet.height = HeightOf[displayed] => Settles(offset, sheet.height)

\* The highlight is at the tab that is shown, or on its way to it.
HighlightFollows ==
  itemLayouts[focused] # 0 => Settles(highlight, itemLayouts[focused])

\* The inductive invariant.
MotionInv == MotionTypeOK /\ SheetFollows /\ HighlightFollows

-----------------------------------------------------------------------------
\* Where the sheet can be.
Places == Heights \cup {Below, Adrift}

\* A value that is put somewhere settles there,
LEMMA AtSettles ==
  ASSUME NEW S, NEW place \in S
  PROVE  At(place) \in Animated(S) /\ At(place).slide = "none" /\ Settles(At(place), place)
BY DEF Animated, At, Settles

\* and so does one that begins to slide,
LEMMA SlideToSettles ==
  ASSUME NEW S, NEW v \in Animated(S), NEW place \in S
  PROVE  /\ SlideTo(v, place) \in Animated(S) /\ SlideTo(v, place).slide = "settle"
         /\ Settles(SlideTo(v, place), place)
BY DEF Animated, SlideTo, Settles

\* and one that goes on sliding.
LEMMA ArrivedSettles ==
  ASSUME NEW S, NEW v \in Animated(S), v.slide # "none"
  PROVE  /\ Arrived(v) \in Animated(S) /\ Arrived(v).slide = "none"
         /\ \A aim : Settles(v, aim) => Settles(Arrived(v), aim)
<1>1. v.aim \in S
  BY DEF Animated
<1>2. Arrived(v) \in Animated(S) /\ Arrived(v).slide = "none" /\ Arrived(v).at = v.aim
  BY <1>1 DEF Animated, At, Arrived
<1> QED BY <1>2 DEF Settles

\* The three ways in which the sheet moves keep its type.
LEMMA SheetValues ==
  ASSUME MotionTypeOK
  PROVE  /\ \A d \in Details : HeightOf[d] \in Heights /\ HeightOf[d] \in Nat /\ HeightOf[d] # 0
         /\ Heights \cup {0} \subseteq Places /\ Below \in Places /\ Adrift \in Places
         /\ sheet.rendered \in BOOLEAN /\ sheet.held \in BOOLEAN /\ sheet.height \in Heights \cup {0}
         /\ sheet.height \in Nat
         /\ selected # NoDetail => selected \in Details
         /\ displayed # NoDetail => displayed \in Details
BY MotionAssumption DEF MotionTypeOK, Heights, Places, Below

\* Nothing is shown and nothing moves.
LEMMA MotionInitially == MotionInit => MotionInv
<1> SUFFICES ASSUME MotionInit PROVE MotionInv
  OBVIOUS
<1>1. At(Below) \in Animated(Places) /\ At(0) \in Animated(Frames) /\ At(Below).slide = "none"
  BY DEF At, Animated, Places, Frames
<1>2. MotionTypeOK
  <2>1. sheet \in [rendered : BOOLEAN, height : Heights \cup {0}, held : BOOLEAN]
    BY DEF MotionInit
  <2>2. itemLayouts \in [BarTabs -> Frames]
    BY DEF MotionInit, Frames
  <2> QED BY <1>1, <2>1, <2>2 DEF MotionInit, MotionTypeOK, BarTabs, Places
<1>3. SheetFollows /\ HighlightFollows
  BY <1>1 DEF MotionInit, SheetFollows, HighlightFollows, BarTabs
<1> QED BY <1>2, <1>3 DEF MotionInv

\* A step of the sheet.
LEMMA SheetKeeps ==
  ASSUME MotionInv, UNCHANGED barVars,
         selected' \in Details \cup {NoDetail}, displayed' \in Details \cup {NoDetail},
         sheet' \in [rendered : BOOLEAN, height : Heights \cup {0}, held : BOOLEAN],
         offset' \in Animated(Places), SheetFollows'
  PROVE  MotionInv'
<1>1. MotionTypeOK'
  BY DEF MotionInv, MotionTypeOK, barVars, Places
<1>2. HighlightFollows'
  BY DEF MotionInv, HighlightFollows, barVars
<1> QED BY <1>1, <1>2 DEF MotionInv

\* A step of the tab bar.
LEMMA BarKeeps ==
  ASSUME MotionInv, UNCHANGED sheetVars, focused' \in BarTabs, wide' \in BOOLEAN,
         itemLayouts' \in [BarTabs -> Frames], highlight' \in Animated(Frames), HighlightFollows'
  PROVE  MotionInv'
<1>1. MotionTypeOK'
  BY DEF MotionInv, MotionTypeOK, sheetVars
<1>2. SheetFollows'
  BY DEF MotionInv, SheetFollows, sheetVars
<1> QED BY <1>1, <1>2 DEF MotionInv

\* The effect of the tab bar sends the highlight to the tab.
LEMMA HighlightKeepsUp ==
  ASSUME MotionInv, NEW layouts \in [BarTabs -> Frames], NEW t \in BarTabs, FollowActive(layouts, t)
  PROVE  /\ highlight' \in Animated(Frames)
         /\ layouts[t] # 0 => Settles(highlight', layouts[t])
<1>1. /\ highlight \in Animated(Frames) /\ layouts[t] \in Frames
      /\ itemLayouts[focused] # 0 => Settles(highlight, itemLayouts[focused])
  BY DEF MotionInv, MotionTypeOK, HighlightFollows
<1> QED BY <1>1, AtSettles, SlideToSettles DEF FollowActive

\* Every step keeps the invariant.
LEMMA MotionNextKeeps ==
  ASSUME MotionInv, [MotionNext]_motionVars
  PROVE  MotionInv'
<1> DEFINE Sheets == [rendered : BOOLEAN, height : Heights \cup {0}, held : BOOLEAN]
<1>0. /\ MotionTypeOK /\ SheetFollows /\ HighlightFollows
      /\ sheet \in Sheets /\ offset \in Animated(Places)
      /\ selected \in Details \cup {NoDetail} /\ displayed \in Details \cup {NoDetail}
      /\ focused \in BarTabs /\ wide \in BOOLEAN /\ itemLayouts \in [BarTabs -> Frames]
      /\ highlight \in Animated(Frames)
  BY DEF MotionInv, MotionTypeOK, Places
<1>a. ASSUME NEW height \in Heights, SlideIn(height)
      PROVE  offset' \in Animated(Places) /\ Settles(offset', height) /\ offset'.slide = "settle"
  <2>1. height \in Places /\ height > 0
    BY MotionAssumption DEF Places, Heights
  <2>2. /\ SlideTo(offset, height) \in Animated(Places) /\ Settles(SlideTo(offset, height), height)
        /\ SlideTo(offset, height).slide = "settle"
    BY <1>0, <2>1, SlideToSettles
  <2> QED BY <1>a, <2>1, <2>2 DEF SlideIn
<1>b. ASSUME NEW rendered \in BOOLEAN, NEW held \in BOOLEAN, NEW height \in Heights \cup {0}
      PROVE  LET r == [sheet EXCEPT !.rendered = rendered]
                 h == [sheet EXCEPT !.held = held]
                 t == [sheet EXCEPT !.height = height]
                 g == [sheet EXCEPT !.rendered = rendered, !.held = held]
             IN /\ r \in Sheets /\ r.rendered = rendered /\ r.held = sheet.held /\ r.height = sheet.height
                /\ h \in Sheets /\ h.rendered = sheet.rendered /\ h.held = held /\ h.height = sheet.height
                /\ t \in Sheets /\ t.rendered = sheet.rendered /\ t.held = sheet.held /\ t.height = height
                /\ g \in Sheets /\ g.rendered = rendered /\ g.held = held /\ g.height = sheet.height
  BY <1>0
<1>c. ASSUME OnClose
      PROVE  /\ selected' = NoDetail /\ offset' \in Animated(Places)
             /\ ~sheet.rendered => UNCHANGED offset
  BY <1>0, <1>c DEF OnClose, SheetFollows, Animated, Places
<1> HIDE DEF Sheets
<1>1. ASSUME NEW d \in Details, TapRow(d) PROVE MotionInv'
  <2>1. /\ selected' = d /\ displayed' = d /\ UNCHANGED barVars /\ ~sheet.rendered
        /\ sheet' \in Sheets /\ sheet'.rendered /\ sheet'.height = sheet.height /\ sheet'.held = sheet.held
        /\ SlideIn(sheet.height)
    BY <1>1, <1>b, SheetValues, <1>0 DEF TapRow
  <2>2. ~sheet.held /\ offset.slide = "none"
    BY <1>0, <2>1 DEF SheetFollows
  <2>3. CASE sheet.height = 0
    <3>1. UNCHANGED offset
      BY <2>1, <2>3 DEF SlideIn
    <3>2. HeightOf[d] # 0
      BY <1>0, SheetValues
    <3>3. SheetFollows'
      BY <2>1, <2>2, <2>3, <3>1, <3>2 DEF SheetFollows
    <3> QED BY <1>0, <2>1, <3>1, <3>3, SheetKeeps DEF Sheets
  <2>4. CASE sheet.height \in Heights
    <3>1. offset' \in Animated(Places) /\ Settles(offset', sheet.height) /\ offset'.slide = "settle"
      BY <1>a, <2>1, <2>4
    <3>2. SheetFollows'
      BY <2>1, <3>1 DEF SheetFollows, Settles
    <3> QED BY <2>1, <3>1, <3>2, SheetKeeps DEF Sheets
  <2> QED BY <1>0, <2>3, <2>4, SheetValues
<1>2. CASE HandleLayout
  <2>1. /\ sheet.rendered /\ displayed \in Details /\ UNCHANGED <<selected, displayed, barVars>>
        /\ sheet' = [sheet EXCEPT !.height = HeightOf[displayed]]
        /\ IF selected # NoDetail THEN SlideIn(sheet'.height) ELSE UNCHANGED offset
    BY <1>0, <1>2, SheetValues DEF HandleLayout
  <2>2. /\ sheet' \in Sheets /\ sheet'.height = HeightOf[displayed] /\ sheet'.height \in Heights
        /\ sheet'.rendered /\ sheet'.held = sheet.held
    <3>1. HeightOf[displayed] \in Heights
      BY <1>0, <2>1, SheetValues
    <3> QED BY <1>0, <1>b, <2>1, <3>1, SheetValues
  <2>3. CASE selected # NoDetail
    <3>1. offset' \in Animated(Places) /\ Settles(offset', sheet'.height) /\ offset'.slide = "settle"
      BY <1>a, <2>1, <2>2, <2>3
    <3>2. SheetFollows'
      BY <1>0, <2>1, <2>2, <2>3, <3>1 DEF SheetFollows, Settles
    <3> QED BY <1>0, <2>1, <2>2, <3>1, <3>2, SheetKeeps DEF Sheets
  <2>4. CASE selected = NoDetail
    <3>1. SheetFollows' /\ UNCHANGED offset
      BY <2>1, <2>2, <2>4 DEF SheetFollows
    <3> QED BY <1>0, <2>1, <2>2, <3>1, SheetKeeps DEF Sheets
  <2> QED BY <2>3, <2>4
<1>3. CASE PressBackdrop
  <2>1. sheet.rendered /\ OnClose /\ UNCHANGED <<displayed, sheet, barVars>>
    BY <1>3 DEF PressBackdrop
  <2>2. SheetFollows'
    BY <1>c, <2>1 DEF SheetFollows
  <2> QED BY <1>0, <1>c, <2>1, <2>2, SheetKeeps DEF Sheets
<1>4. CASE Drag
  <2>1. /\ sheet.rendered /\ sheet' = [sheet EXCEPT !.held = TRUE] /\ offset' \in {offset, At(Adrift)}
        /\ UNCHANGED <<selected, displayed, barVars>>
    BY <1>4 DEF Drag
  <2>2. sheet' \in Sheets /\ sheet'.rendered /\ sheet'.held
    BY <1>0, <1>b, <2>1, SheetValues
  <2>3. At(Adrift) \in Animated(Places) /\ At(Adrift).slide = "none"
    BY <1>0, AtSettles, SheetValues
  <2>4. SheetFollows'
    BY <1>0, <2>1, <2>2, <2>3 DEF SheetFollows
  <2> QED BY <1>0, <2>1, <2>2, <2>3, <2>4, SheetKeeps DEF Sheets
<1>5. CASE Release
  <2>1. /\ sheet.held /\ sheet' = [sheet EXCEPT !.held = FALSE] /\ UNCHANGED <<displayed, barVars>>
        /\ \/ OnClose
           \/ offset' = SlideTo(offset, sheet.height) /\ UNCHANGED selected
    BY <1>5 DEF Release
  <2>2. /\ sheet' \in Sheets /\ sheet'.rendered = sheet.rendered /\ ~sheet'.held
        /\ sheet'.height = sheet.height /\ sheet.rendered
    BY <1>0, <1>b, <2>1, SheetValues DEF SheetFollows
  <2>3. CASE OnClose
    <3>1. SheetFollows'
      BY <1>c, <2>2, <2>3 DEF SheetFollows
    <3> QED BY <1>0, <1>c, <2>1, <2>2, <2>3, <3>1, SheetKeeps DEF Sheets
  <2>4. CASE offset' = SlideTo(offset, sheet.height) /\ UNCHANGED selected
    <3>1. /\ offset' \in Animated(Places) /\ Settles(offset', sheet.height)
          /\ offset'.slide = "settle"
      <4>1. sheet.height \in Places
        BY <1>0, SheetValues
      <4>2. /\ SlideTo(offset, sheet.height) \in Animated(Places)
            /\ Settles(SlideTo(offset, sheet.height), sheet.height)
            /\ SlideTo(offset, sheet.height).slide = "settle"
        BY <1>0, <4>1, SlideToSettles
      <4> QED BY <2>4, <4>2
    <3>2. SheetFollows'
      BY <1>0, <2>1, <2>2, <2>4, <3>1 DEF SheetFollows
    <3> QED BY <1>0, <2>1, <2>2, <2>4, <3>1, <3>2, SheetKeeps DEF Sheets
  <2> QED BY <2>1, <2>3, <2>4
<1>6. CASE EndSlide
  <2>1. /\ offset.slide # "none" /\ offset' = Arrived(offset) /\ UNCHANGED <<selected, displayed, barVars>>
        /\ sheet' = IF offset.slide = "leave" THEN [sheet EXCEPT !.rendered = FALSE, !.held = FALSE] ELSE sheet
    BY <1>6 DEF EndSlide
  <2>2. /\ offset' \in Animated(Places) /\ offset'.slide = "none"
        /\ \A aim : Settles(offset, aim) => Settles(offset', aim)
    BY <1>0, <2>1, ArrivedSettles
  <2>3. CASE offset.slide = "leave"
    <3>1. sheet' \in Sheets /\ ~sheet'.rendered /\ ~sheet'.held
      BY <1>0, <1>b, <2>1, <2>3, SheetValues
    <3>2. SheetFollows'
      BY <1>0, <2>1, <2>2, <2>3, <3>1 DEF SheetFollows
    <3> QED BY <1>0, <2>1, <2>2, <3>1, <3>2, SheetKeeps DEF Sheets
  <2>4. CASE offset.slide # "leave"
    <3>1. UNCHANGED sheet
      BY <2>1, <2>4
    <3>2. SheetFollows'
      BY <1>0, <2>1, <2>2, <3>1 DEF SheetFollows
    <3> QED BY <1>0, <2>1, <2>2, <3>1, <3>2, SheetKeeps DEF Sheets
  <2> QED BY <2>3, <2>4
<1>7. ASSUME NEW t \in BarTabs, OnItemLayout(t) PROVE MotionInv'
  <2>1. /\ itemLayouts' = [itemLayouts EXCEPT ![t] = FrameOf(t)] /\ UNCHANGED <<focused, wide, sheetVars>>
        /\ FollowActive(itemLayouts', focused)
    BY <1>7 DEF OnItemLayout
  <2>2. FrameOf(t) \in Frames
    BY DEF FrameOf, Frames
  <2>3. itemLayouts' \in [BarTabs -> Frames]
    BY <1>0, <2>1, <2>2
  <2>4. highlight' \in Animated(Frames) /\ HighlightFollows'
    BY <1>0, <2>1, <2>3, HighlightKeepsUp DEF HighlightFollows
  <2> QED BY <1>0, <2>1, <2>3, <2>4, BarKeeps
<1>8. ASSUME NEW t \in BarTabs, OnTabPress(t) PROVE MotionInv'
  <2>1. focused' = t /\ FollowActive(itemLayouts, t) /\ UNCHANGED <<wide, itemLayouts, sheetVars>>
    BY <1>8 DEF OnTabPress
  <2>2. highlight' \in Animated(Frames) /\ HighlightFollows'
    BY <1>0, <2>1, HighlightKeepsUp DEF HighlightFollows
  <2> QED BY <1>0, <2>1, <2>2, BarKeeps
<1>9. CASE LayOutAgain
  <2>1. wide' \in BOOLEAN /\ UNCHANGED <<focused, itemLayouts, highlight, sheetVars>>
    BY <1>0, <1>9 DEF LayOutAgain
  <2> QED BY <1>0, <2>1, BarKeeps DEF HighlightFollows
<1>10. CASE EndSpring
  <2>1. highlight.slide # "none" /\ highlight' = Arrived(highlight) /\ UNCHANGED <<focused, wide, itemLayouts, sheetVars>>
    BY <1>10 DEF EndSpring
  <2>3. /\ highlight' \in Animated(Frames) /\ \A aim : Settles(highlight, aim) => Settles(highlight', aim)
    BY <1>0, <2>1, ArrivedSettles
  <2>4. HighlightFollows'
    BY <1>0, <2>1, <2>3 DEF HighlightFollows
  <2> QED BY <1>0, <2>1, <2>3, <2>4, BarKeeps
<1>11. CASE UNCHANGED motionVars
  BY <1>11 DEF motionVars, sheetVars, barVars, MotionInv, MotionTypeOK, SheetFollows, HighlightFollows
<1> QED BY <1>1, <1>2, <1>3, <1>4, <1>5, <1>6, <1>7, <1>8, <1>9, <1>10, <1>11 DEF MotionNext

\* The inductive invariant holds in every reachable state.
LEMMA MotionInvariant == MotionSpec => []MotionInv
BY MotionInitially, MotionNextKeeps, PTL DEF MotionSpec

\* Every variable of what moves keeps its type.
THEOREM MotionTypeCorrect == MotionSpec => []MotionTypeOK
<1>1. MotionInv => MotionTypeOK
  BY DEF MotionInv
<1> QED BY <1>1, MotionInvariant, PTL

\* What moves comes to rest where it belongs (components/BottomSheet.tsx,
\* components/navigation/GlassTabBar.tsx): an animation that has ended left the
\* sheet and the highlight in the place that the last decision about them asked
\* for, whatever it cut short.
THEOREM MotionRests == MotionSpec => []RestsInPlace
<1>1. MotionInv => RestsInPlace
  BY DEF MotionInv, SheetFollows, HighlightFollows, Settles, RestsInPlace
<1> QED BY <1>1, MotionInvariant, PTL
=============================================================================
