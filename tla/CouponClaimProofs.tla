------------------------- MODULE CouponClaimProofs -------------------------
(***************************************************************************)
(* Proofs about CouponClaim, for every number of claims, processes,        *)
(* coupons and users: its types; who owns a coupon and whose coupon is     *)
(* paid; who is in the treasury's section and who releases its lock; what  *)
(* is paid for a coupon, and that redeeming implements CouponLedger.  What *)
(* is said about payouts assumes that a broadcast the node has no record of*)
(* stays off the chain (~LateArrival).                                     *)
(***************************************************************************)
EXTENDS CouponClaim, SequenceTheorems, TLAPS

-----------------------------------------------------------------------------
(***************************************************************************)
(* Type correctness.  A claim inside the locked section is the head of its *)
(* process's queue; that makes taking the tail well defined, so the two    *)
(* are proved together.                                                    *)
(***************************************************************************)
HeadOfQueue == \A k \in Claims :
  pc[k] \in Section => Queue(k) # <<>> /\ Head(Queue(k)) = k

TypeInv == TypeOK /\ HeadOfQueue

\* The initial state has the declared types and nobody in the section.
LEMMA InitTypeInv == Init => TypeInv
  BY ClaimAssumption
  DEF Init, TypeInv, TypeOK, HeadOfQueue, Section, Owning, Labels, Outcomes,
      TxStates

\* Joining a queue does not change who is first in it.
LEMMA HeadAppend ==
  ASSUME NEW q \in Seq(Claims), NEW k \in Claims
  PROVE  Append(q, k) # <<>> /\ (q # <<>> => Head(Append(q, k)) = Head(q))
<1>1. /\ Append(q, k) \in Seq(Claims) /\ Len(Append(q, k)) = Len(q) + 1
      /\ \A i \in 1..Len(q) : Append(q, k)[i] = q[i]
  BY AppendProperties
<1>2. Append(q, k) # <<>>
  BY AppendProperties
<1>3. ASSUME q # <<>> PROVE Head(Append(q, k)) = Head(q)
  <2>1. 1 \in 1..Len(q)
    BY <1>3
  <2>2. QED  BY <1>1, <1>2, <1>3, <2>1
<1>4. QED  BY <1>2, <1>3

\* The labels, listed.
LEMMA LabelList == Labels =
  {"lookup", "swap", "enqueue", "acquire", "giveBack", "populate", "undoBuild",
   "record", "broadcast", "verify", "undoSend", "release", "confirm", "done"}
  BY DEF Labels, Owning, Section

\* A claim moves between labels.
LEMMA GotoType ==
  ASSUME TypeOK, NEW k \in Claims, NEW label \in Labels, Goto(k, label)
  PROVE  pc' \in [Claims -> Labels]
  BY DEF TypeOK, Goto

\* A result ends a claim or leaves the locked section.
LEMMA ResultType ==
  ASSUME TypeOK, NEW k \in Claims, NEW result \in Outcomes,
         End(k, result) \/ Leave(k, result)
  PROVE  pc' \in [Claims -> Labels] /\ outcome' \in [Claims -> Outcomes]
<1>1. "done" \in Labels /\ "release" \in Labels
  BY LabelList
<1>2. pc' \in [Claims -> Labels]
  BY <1>1, GotoType DEF End, Leave
<1>3. outcome' \in [Claims -> Outcomes]
  BY DEF End, Leave, TypeOK
<1>4. QED  BY <1>2, <1>3

\* Leaving the head of the process's queue leaves a queue of claims.
LEMMA ReleaseLocalType ==
  ASSUME TypeOK, NEW k \in Claims, Queue(k) # <<>>, ReleaseLocal(k)
  PROVE  localTreasuryQueue' \in [Instances -> Seq(Claims)]
<1>1. instanceOf[k] \in Instances /\ Queue(k) \in Seq(Claims)
  BY DEF TypeOK, Queue
<1>2. Tail(Queue(k)) \in Seq(Claims)
  BY <1>1
<1>3. localTreasuryQueue' =
        [localTreasuryQueue EXCEPT ![instanceOf[k]] = Tail(Queue(k))]
  BY DEF ReleaseLocal, Queue
<1>4. QED  BY <1>1, <1>2, <1>3 DEF TypeOK

\* What the node does with a transaction leaves the chain well typed.
LEMMA MempoolType ==
  ASSUME TypeOK, NEW k \in Claims,
         \/ Accept(k) \/ Refuse(k)
         \/ txState' = [txState EXCEPT ![k] = "flight"] /\ UNCHANGED pendingNonce
  PROVE  txState' \in [Claims -> TxStates] /\ pendingNonce' \in Nat
<1>. "mempool" \in TxStates /\ "lost" \in TxStates /\ "flight" \in TxStates
  BY DEF TxStates
<1>1. CASE Accept(k)
  <2>1. pendingNonce' \in Nat
    BY <1>1 DEF Accept, TypeOK
  <2>2. txState' \in [Claims -> TxStates]
    BY <1>1 DEF Accept, TypeOK
  <2>3. QED  BY <2>1, <2>2
<1>2. CASE Refuse(k)
  BY <1>2 DEF Refuse, TypeOK
<1>3. CASE txState' = [txState EXCEPT ![k] = "flight"] /\ UNCHANGED pendingNonce
  BY <1>3 DEF TypeOK
<1>4. QED  BY <1>1, <1>2, <1>3

\* Every step keeps the types.
LEMMA NextTypeOK == TypeInv /\ [Next]_vars => TypeOK'
<1>. SUFFICES ASSUME TypeOK, HeadOfQueue, [Next]_vars PROVE TypeOK'
  BY DEF TypeInv
<1>. USE DEF coupons, request, serialization, chain
<1>1. ASSUME NEW k \in Claims, Lookup(k) PROVE TypeOK'
  <2>1. "swap" \in Labels /\ "rejected" \in Outcomes
    BY LabelList DEF Outcomes
  <2>2. pc' \in [Claims -> Labels] /\ outcome' \in [Claims -> Outcomes]
    BY <1>1, <2>1, GotoType, ResultType DEF Lookup, TypeOK
  <2>3. QED  BY <1>1, <2>2 DEF Lookup, TypeOK
<1>2. ASSUME NEW k \in Claims, CompareAndSwap(k) PROVE TypeOK'
  <2>1. "enqueue" \in Labels /\ "rejected" \in Outcomes /\ "error" \in Outcomes
    BY LabelList DEF Outcomes
  <2>2. pc' \in [Claims -> Labels] /\ outcome' \in [Claims -> Outcomes]
    BY <1>2, <2>1, GotoType, ResultType DEF CompareAndSwap, TypeOK
  <2>3. redeemed' \in [Coupons -> BOOLEAN]
    BY <1>2 DEF CompareAndSwap, TypeOK
  <2>4. QED  BY <1>2, <2>2, <2>3 DEF CompareAndSwap, TypeOK
<1>3. ASSUME NEW k \in Claims, EnterLocalQueue(k) PROVE TypeOK'
  <2>1. "acquire" \in Labels
    BY LabelList DEF Outcomes
  <2>2. pc' \in [Claims -> Labels] /\ outcome' \in [Claims -> Outcomes]
    BY <1>3, <2>1, GotoType, ResultType DEF EnterLocalQueue, TypeOK
  <2>3. localTreasuryQueue' \in [Instances -> Seq(Claims)]
    BY <1>3 DEF EnterLocalQueue, TypeOK
  <2>4. QED  BY <1>3, <2>2, <2>3 DEF EnterLocalQueue, TypeOK
<1>4. ASSUME NEW k \in Claims, AcquireLock(k) PROVE TypeOK'
  <2>1. "populate" \in Labels /\ "giveBack" \in Labels
    BY LabelList
  <2>2. pc' \in [Claims -> Labels]
    BY <1>4, <2>1, GotoType DEF AcquireLock, TypeOK
  <2>3. tries' \in [Claims -> Nat]
    <3>1. PICK n \in Nat : tries' = [tries EXCEPT ![k] = n]
      BY <1>4 DEF AcquireLock, TypeOK
    <3>2. QED  BY <3>1 DEF TypeOK
  <2>4. localTreasuryQueue' \in [Instances -> Seq(Claims)]
    <3>1. localTreasuryQueue' = localTreasuryQueue \/ ReleaseLocal(k)
      BY <1>4 DEF AcquireLock
    <3>2. Queue(k) # <<>>
      BY <1>4 DEF AcquireLock
    <3>3. QED  BY <3>1, <3>2, ReleaseLocalType DEF TypeOK
  <2>5. lock' \in Claims \cup {None}
    BY <1>4 DEF AcquireLock, TypeOK
  <2>6. QED  BY <1>4, <2>2, <2>3, <2>4, <2>5 DEF AcquireLock, TypeOK
<1>5. ASSUME NEW k \in Claims, GiveBack(k) PROVE TypeOK'
  <2>1. "retry" \in Outcomes /\ "error" \in Outcomes
    BY LabelList DEF Outcomes
  <2>2. pc' \in [Claims -> Labels] /\ outcome' \in [Claims -> Outcomes]
    BY <1>5, <2>1, GotoType, ResultType DEF GiveBack, TypeOK
  <2>3. redeemed' \in [Coupons -> BOOLEAN]
    BY <1>5 DEF GiveBack, TypeOK
  <2>4. QED  BY <1>5, <2>2, <2>3 DEF GiveBack, TypeOK
<1>6. ASSUME NEW k \in Claims, BuildAndSign(k) PROVE TypeOK'
  <2>1. "record" \in Labels /\ "undoBuild" \in Labels
    BY LabelList DEF Outcomes
  <2>2. pc' \in [Claims -> Labels] /\ outcome' \in [Claims -> Outcomes]
    BY <1>6, <2>1, GotoType, ResultType DEF BuildAndSign, TypeOK
  <2>3. nonce' \in [Claims -> Nat]
    BY <1>6 DEF BuildAndSign, TransactionCount, TypeOK
  <2>4. txState' \in [Claims -> TxStates]
    BY <1>6 DEF BuildAndSign, TypeOK, TxStates
  <2>5. QED  BY <1>6, <2>2, <2>3, <2>4 DEF BuildAndSign, TypeOK
<1>7. ASSUME NEW k \in Claims, UndoBuild(k) PROVE TypeOK'
  <2>1. "retry" \in Outcomes /\ "error" \in Outcomes
    BY LabelList DEF Outcomes
  <2>2. pc' \in [Claims -> Labels] /\ outcome' \in [Claims -> Outcomes]
    BY <1>7, <2>1, GotoType, ResultType DEF UndoBuild, TypeOK
  <2>3. redeemed' \in [Coupons -> BOOLEAN]
    BY <1>7 DEF UndoBuild, TypeOK
  <2>4. QED  BY <1>7, <2>2, <2>3 DEF UndoBuild, TypeOK
<1>8. ASSUME NEW k \in Claims, RecordHash(k) PROVE TypeOK'
  <2>1. "broadcast" \in Labels /\ "error" \in Outcomes
    BY LabelList DEF Outcomes
  <2>2. pc' \in [Claims -> Labels] /\ outcome' \in [Claims -> Outcomes]
    BY <1>8, <2>1, GotoType, ResultType DEF RecordHash, TypeOK
  <2>3. redemptionTxHash' \in [Coupons -> Claims \cup {None}]
    BY <1>8 DEF RecordHash, TypeOK
  <2>4. QED  BY <1>8, <2>2, <2>3 DEF RecordHash, TypeOK
<1>9. ASSUME NEW k \in Claims, Broadcast(k) PROVE TypeOK'
  <2>1. "release" \in Labels /\ "verify" \in Labels
    BY LabelList DEF Outcomes
  <2>2. pc' \in [Claims -> Labels] /\ outcome' \in [Claims -> Outcomes]
    BY <1>9, <2>1, GotoType, ResultType DEF Broadcast, AfterFailedBroadcast, TypeOK
  <2>3. txState' \in [Claims -> TxStates] /\ pendingNonce' \in Nat
    BY <1>9, MempoolType DEF Broadcast
  <2>4. QED  BY <1>9, <2>2, <2>3 DEF Broadcast, TypeOK
<1>10. ASSUME NEW k \in Claims, VerifyBroadcast(k) PROVE TypeOK'
  <2>1. "undoSend" \in Labels /\ "error" \in Outcomes
    BY LabelList DEF Outcomes
  <2>2. pc' \in [Claims -> Labels] /\ outcome' \in [Claims -> Outcomes]
    BY <1>10, <2>1, GotoType, ResultType DEF VerifyBroadcast, TypeOK
  <2>3. tries' \in [Claims -> Nat]
    <3>1. PICK n \in Nat : tries' = [tries EXCEPT ![k] = n]
      BY <1>10 DEF VerifyBroadcast, TypeOK
    <3>2. QED  BY <3>1 DEF TypeOK
  <2>4. noRecord' \in [Claims -> BOOLEAN]
    BY <1>10 DEF VerifyBroadcast, TypeOK
  <2>5. QED  BY <1>10, <2>2, <2>3, <2>4 DEF VerifyBroadcast, TypeOK
<1>11. ASSUME NEW k \in Claims, UndoSend(k) PROVE TypeOK'
  <2>1. "retry" \in Outcomes /\ "error" \in Outcomes
    BY LabelList DEF Outcomes
  <2>2. pc' \in [Claims -> Labels] /\ outcome' \in [Claims -> Outcomes]
    BY <1>11, <2>1, GotoType, ResultType DEF UndoSend, TypeOK
  <2>3. redeemed' \in [Coupons -> BOOLEAN]
    BY <1>11 DEF UndoSend, TypeOK
  <2>4. redemptionTxHash' \in [Coupons -> Claims \cup {None}]
    BY <1>11 DEF UndoSend, TypeOK
  <2>5. QED  BY <1>11, <2>2, <2>3, <2>4 DEF UndoSend, TypeOK
<1>12. ASSUME NEW k \in Claims, ReleaseLock(k) PROVE TypeOK'
  <2>1. "confirm" \in Labels /\ "done" \in Labels
    BY LabelList
  <2>2. pc' \in [Claims -> Labels]
    BY <1>12, <2>1, GotoType DEF ReleaseLock, TypeOK
  <2>3. Queue(k) # <<>>
    BY <1>12 DEF ReleaseLock, HeadOfQueue, Section
  <2>4. localTreasuryQueue' \in [Instances -> Seq(Claims)]
    BY <1>12, <2>3, ReleaseLocalType DEF ReleaseLock
  <2>5. lock' \in Claims \cup {None}
    BY <1>12 DEF ReleaseLock, CompareAndDelete, TypeOK
  <2>6. QED  BY <1>12, <2>2, <2>4, <2>5 DEF ReleaseLock, TypeOK
<1>13. ASSUME NEW k \in Claims, Confirm(k) PROVE TypeOK'
  <2>1. "paid" \in Outcomes /\ "error" \in Outcomes
    BY LabelList DEF Outcomes
  <2>2. pc' \in [Claims -> Labels] /\ outcome' \in [Claims -> Outcomes]
    BY <1>13, <2>1, GotoType, ResultType DEF Confirm, TypeOK
  <2>3. QED  BY <1>13, <2>2 DEF Confirm, TypeOK
<1>14. ASSUME NEW k \in Claims, Mine(k) PROVE TypeOK'
  BY <1>14 DEF Mine, TxStates, TypeOK
<1>15. ASSUME NEW k \in Claims, Arrive(k) PROVE TypeOK'
  <2>1. txState' \in [Claims -> TxStates] /\ pendingNonce' \in Nat
    BY <1>15, MempoolType DEF Arrive
  <2>2. QED  BY <1>15, <2>1 DEF Arrive, TypeOK
<1>16. CASE LockExpires
  BY <1>16 DEF LockExpires, TypeOK
<1>17. ASSUME NEW u \in Users, NEW w \in Wallets, LinkOrphanedCoupons(u, w)
       PROVE TypeOK'
  BY <1>17 DEF LinkOrphanedCoupons, TypeOK
<1>18. ASSUME NEW i \in Instances, Crash(i) PROVE TypeOK'
  BY <1>18, LabelList DEF Crash, Outcomes, TypeOK
<1>19. CASE UNCHANGED vars
  BY <1>19 DEF vars, TypeOK
<1>20. QED
  BY <1>1, <1>2, <1>3, <1>4, <1>5, <1>6, <1>7, <1>8, <1>9, <1>10, <1>11, <1>12,
     <1>13, <1>14, <1>15, <1>16, <1>17, <1>18, <1>19 DEF Next, ClaimStep

\* Every step keeps the claim that works under the lock at the head of its
\* process's queue.
LEMMA NextHeadOfQueue == TypeInv /\ [Next]_vars => HeadOfQueue'
<1>. SUFFICES ASSUME TypeInv, [Next]_vars PROVE HeadOfQueue'
  OBVIOUS
<1>. USE DEF TypeInv, TypeOK, HeadOfQueue, Section, Owning, Labels, Outcomes,
             TxStates, coupons, request, serialization, chain, Goto, End, Leave,
             Queue
<1>1. ASSUME NEW k \in Claims, Lookup(k) PROVE HeadOfQueue'
  BY <1>1 DEF Lookup
<1>2. ASSUME NEW k \in Claims, CompareAndSwap(k) PROVE HeadOfQueue'
  BY <1>2 DEF CompareAndSwap
<1>3. ASSUME NEW k \in Claims, EnterLocalQueue(k) PROVE HeadOfQueue'
  <2>. DEFINE q == localTreasuryQueue[instanceOf[k]]
  <2>1. q \in Seq(Claims) /\ localTreasuryQueue'[instanceOf[k]] = Append(q, k)
    BY <1>3 DEF EnterLocalQueue
  <2>2. Append(q, k) # <<>> /\ (q # <<>> => Head(Append(q, k)) = Head(q))
    BY <2>1, HeadAppend
  <2>3. \A j \in Claims : instanceOf[j] # instanceOf[k]
          => localTreasuryQueue'[instanceOf[j]] = localTreasuryQueue[instanceOf[j]]
    BY <1>3 DEF EnterLocalQueue
  <2>4. \A j \in Claims : pc'[j] \in Section => pc[j] \in Section
    BY <1>3 DEF EnterLocalQueue
  <2>5. instanceOf' = instanceOf
    BY <1>3 DEF EnterLocalQueue
  <2>6. QED  BY <2>1, <2>2, <2>3, <2>4, <2>5
<1>4. ASSUME NEW k \in Claims, AcquireLock(k) PROVE HeadOfQueue'
  <2>1. Queue(k) # <<>> /\ Head(Queue(k)) = k /\ instanceOf' = instanceOf
    BY <1>4 DEF AcquireLock
  <2>2. CASE localTreasuryQueue' = localTreasuryQueue
    <3>1. \A j \in Claims : pc'[j] \in Section => j = k \/ pc[j] \in Section
      BY <1>4 DEF AcquireLock
    <3>2. QED  BY <2>1, <2>2, <3>1
  <2>3. CASE ReleaseLocal(k) /\ Goto(k, "giveBack")
    <3>1. \A j \in Claims : pc'[j] \in Section => j # k /\ pc[j] \in Section
      BY <2>3
    <3>2. \A j \in Claims : pc[j] \in Section /\ instanceOf[j] = instanceOf[k]
            => j = k
      BY <2>1
    <3>3. \A j \in Claims : instanceOf[j] # instanceOf[k]
            => localTreasuryQueue'[instanceOf[j]] = localTreasuryQueue[instanceOf[j]]
      BY <2>3 DEF ReleaseLocal
    <3>4. QED  BY <2>1, <3>1, <3>2, <3>3
  <2>4. QED  BY <1>4, <2>2, <2>3 DEF AcquireLock
<1>5. ASSUME NEW k \in Claims, GiveBack(k) PROVE HeadOfQueue'
  BY <1>5 DEF GiveBack
<1>6. ASSUME NEW k \in Claims, BuildAndSign(k) PROVE HeadOfQueue'
  BY <1>6 DEF BuildAndSign, TransactionCount
<1>7. ASSUME NEW k \in Claims, UndoBuild(k) PROVE HeadOfQueue'
  BY <1>7 DEF UndoBuild
<1>8. ASSUME NEW k \in Claims, RecordHash(k) PROVE HeadOfQueue'
  BY <1>8 DEF RecordHash
<1>9. ASSUME NEW k \in Claims, Broadcast(k) PROVE HeadOfQueue'
  BY <1>9 DEF Broadcast, Accept, Refuse, AfterFailedBroadcast
<1>10. ASSUME NEW k \in Claims, VerifyBroadcast(k) PROVE HeadOfQueue'
  BY <1>10 DEF VerifyBroadcast, ProvenAbsent
<1>11. ASSUME NEW k \in Claims, UndoSend(k) PROVE HeadOfQueue'
  BY <1>11 DEF UndoSend
<1>12. ASSUME NEW k \in Claims, ReleaseLock(k) PROVE HeadOfQueue'
  BY <1>12 DEF ReleaseLock, CompareAndDelete, ReleaseLocal
<1>13. ASSUME NEW k \in Claims, Confirm(k) PROVE HeadOfQueue'
  BY <1>13 DEF Confirm
<1>14. ASSUME NEW k \in Claims, Mine(k) PROVE HeadOfQueue'
  BY <1>14 DEF Mine
<1>15. ASSUME NEW k \in Claims, Arrive(k) PROVE HeadOfQueue'
  BY <1>15 DEF Arrive, Accept, Refuse
<1>16. CASE LockExpires
  BY <1>16 DEF LockExpires
<1>17. ASSUME NEW u \in Users, NEW w \in Wallets, LinkOrphanedCoupons(u, w)
       PROVE HeadOfQueue'
  BY <1>17 DEF LinkOrphanedCoupons
<1>18. ASSUME NEW i \in Instances, Crash(i) PROVE HeadOfQueue'
  BY <1>18 DEF Crash
<1>19. CASE UNCHANGED vars
  BY <1>19 DEF vars
<1>20. QED
  BY <1>1, <1>2, <1>3, <1>4, <1>5, <1>6, <1>7, <1>8, <1>9, <1>10, <1>11, <1>12,
     <1>13, <1>14, <1>15, <1>16, <1>17, <1>18, <1>19 DEF Next, ClaimStep

\* The type invariant of the model: no sequence of steps takes a variable
\* out of its declared set.
THEOREM TypeCorrect == Spec => []TypeOK
<1>1. TypeInv => TypeOK
  BY DEF TypeInv
<1>2. QED
  BY <1>1, InitTypeInv, NextTypeOK, NextHeadOfQueue, PTL DEF Spec, TypeInv

-----------------------------------------------------------------------------
(***************************************************************************)
(* What a step does to a coupon's owner, in three shapes.                  *)
(***************************************************************************)
TakesCoupon(k) ==
  /\ pc[k] = "swap"
  /\ ~redeemed[couponOf[k]]
  /\ redeemed' = [redeemed EXCEPT ![couponOf[k]] = TRUE]

WorksOnCoupon(k) ==
  /\ pc'[k] \in Owning => pc[k] \in Owning
  /\ redeemed' = redeemed

GivesCouponBack(k) ==
  /\ pc[k] \in {"giveBack", "undoBuild", "undoSend"}
  /\ pc'[k] \notin Owning
  /\ redeemed' = [redeemed EXCEPT ![couponOf[k]] = FALSE]

\* The owning labels, and those that are not.
LEMMA OwningList ==
  /\ Owning = {"enqueue", "acquire", "giveBack", "populate", "undoBuild",
               "record", "broadcast", "verify", "undoSend"}
  /\ \A l \in {"lookup", "swap", "release", "confirm", "done"} : l \notin Owning
  BY DEF Owning, Section

\* A claim moves no other claim and takes, works on or gives back its coupon.
LEMMA OwnershipShapes ==
  ASSUME TypeOK, NEW k \in Claims, ClaimStep(k)
  PROVE  /\ UNCHANGED request
         /\ \A j \in Claims \ {k} : pc'[j] = pc[j]
         /\ TakesCoupon(k) \/ WorksOnCoupon(k) \/ GivesCouponBack(k)
<1>. USE OwningList DEF TypeOK, Goto, End, Leave, coupons, request
<1>1. CASE Lookup(k)
  BY <1>1 DEF Lookup, WorksOnCoupon
<1>2. CASE CompareAndSwap(k)
  BY <1>2 DEF CompareAndSwap, MatchesUnredeemed, TakesCoupon, WorksOnCoupon
<1>3. CASE EnterLocalQueue(k)
  BY <1>3 DEF EnterLocalQueue, WorksOnCoupon
<1>4. CASE AcquireLock(k)
  BY <1>4 DEF AcquireLock, WorksOnCoupon
<1>5. CASE GiveBack(k)
  BY <1>5 DEF GiveBack, GivesCouponBack, WorksOnCoupon
<1>6. CASE BuildAndSign(k)
  BY <1>6 DEF BuildAndSign, WorksOnCoupon
<1>7. CASE UndoBuild(k)
  BY <1>7 DEF UndoBuild, GivesCouponBack, WorksOnCoupon
<1>8. CASE RecordHash(k)
  BY <1>8 DEF RecordHash, WorksOnCoupon
<1>9. CASE Broadcast(k)
  BY <1>9 DEF Broadcast, AfterFailedBroadcast, WorksOnCoupon
<1>10. CASE VerifyBroadcast(k)
  BY <1>10 DEF VerifyBroadcast, WorksOnCoupon
<1>11. CASE UndoSend(k)
  BY <1>11 DEF UndoSend, GivesCouponBack, WorksOnCoupon
<1>12. CASE ReleaseLock(k)
  BY <1>12 DEF ReleaseLock, WorksOnCoupon
<1>13. CASE Confirm(k)
  BY <1>13 DEF Confirm, WorksOnCoupon
<1>14. QED
  BY <1>1, <1>2, <1>3, <1>4, <1>5, <1>6, <1>7, <1>8, <1>9, <1>10, <1>11, <1>12,
     <1>13 DEF ClaimStep

\* The steps that are no claim's own.
Surroundings ==
  \/ \E k \in Claims : Mine(k) \/ Arrive(k)
  \/ LockExpires
  \/ \E u \in Users, w \in Wallets : LinkOrphanedCoupons(u, w)
  \/ \E i \in Instances : Crash(i)

\* A step is a claim's own or one of its surroundings.
LEMMA NextCases == Next => Surroundings \/ \E k \in Claims : ClaimStep(k)
  BY DEF Next, Surroundings

\* The surroundings move a claim nowhere but to its end, and mark no coupon.
LEMMA SurroundingsShape ==
  ASSUME TypeOK, Surroundings \/ UNCHANGED vars
  PROVE  /\ UNCHANGED <<request, redeemed, redemptionTxHash>>
         /\ \A j \in Claims : pc'[j] = pc[j] \/ pc'[j] = "done"
<1>. USE DEF TypeOK, coupons, request
<1>1. ASSUME NEW k \in Claims, Mine(k) \/ Arrive(k)
      PROVE  UNCHANGED <<request, redeemed, redemptionTxHash, pc>>
  BY <1>1 DEF Mine, Arrive
<1>2. CASE LockExpires
  BY <1>2 DEF LockExpires
<1>3. ASSUME NEW u \in Users, NEW w \in Wallets, LinkOrphanedCoupons(u, w)
      PROVE  UNCHANGED <<request, redeemed, redemptionTxHash, pc>>
  BY <1>3 DEF LinkOrphanedCoupons
<1>4. ASSUME NEW i \in Instances, Crash(i)
      PROVE  /\ UNCHANGED <<request, redeemed, redemptionTxHash>>
             /\ \A j \in Claims : pc'[j] = pc[j] \/ pc'[j] = "done"
  BY <1>4 DEF Crash
<1>5. CASE UNCHANGED vars
  BY <1>5 DEF vars
<1>6. QED  BY <1>1, <1>2, <1>3, <1>4, <1>5 DEF Surroundings

\* Every step keeps a coupon's owner alone with it.
LEMMA NextOneOwner == TypeOK /\ OneOwner /\ [Next]_vars => OneOwner'
<1>. SUFFICES ASSUME TypeOK, OneOwner, [Next]_vars PROVE OneOwner'
  OBVIOUS
<1>1. ASSUME NEW k \in Claims, ClaimStep(k) PROVE OneOwner'
  <2>. /\ couponOf' = couponOf /\ couponOf \in [Claims -> Coupons]
       /\ redeemed \in [Coupons -> BOOLEAN]
       /\ \A j \in Claims \ {k} : pc'[j] = pc[j]
    BY <1>1, OwnershipShapes DEF request, TypeOK
  <2>1. CASE TakesCoupon(k)
    BY <2>1 DEF TakesCoupon, OneOwner
  <2>2. CASE WorksOnCoupon(k)
    BY <2>2 DEF WorksOnCoupon, OneOwner
  <2>3. CASE GivesCouponBack(k)
    BY <2>3, OwningList DEF GivesCouponBack, OneOwner
  <2>4. QED  BY <1>1, <2>1, <2>2, <2>3, OwnershipShapes
<1>2. CASE Surroundings \/ UNCHANGED vars
  <2>1. /\ couponOf' = couponOf /\ redeemed' = redeemed
        /\ \A j \in Claims : pc'[j] \in Owning => pc[j] \in Owning
    BY <1>2, SurroundingsShape, OwningList DEF request
  <2>2. QED  BY <2>1 DEF OneOwner
<1>3. QED  BY <1>1, <1>2, NextCases

\* A claim owns its coupon alone from the compare-and-swap until the coupon's
\* fate is settled, for every number of claims, processes and coupons: the
\* findOneAndUpdate filter excludes a second winner, and only an owner gives
\* the coupon back.
THEOREM OwnerIsAlone == Spec => []OneOwner
<1>1. Init => OneOwner
  BY OwningList DEF Init, OneOwner
<1>2. QED
  BY <1>1, TypeCorrect, NextOneOwner, PTL DEF Spec

-----------------------------------------------------------------------------
(***************************************************************************)
(* The treasury's section.  OneInSection is inductive when the TTL cannot  *)
(* run out under a working claim; LockReleasedByHolder needs no such       *)
(* assumption and no invariant.                                            *)
(***************************************************************************)
HoldsLock == \A k \in Claims : pc[k] \in Section => lock = k

\* The labels of the locked section, and those outside it.
LEMMA SectionList ==
  /\ \A l \in {"populate", "undoBuild", "record", "broadcast", "verify",
                "undoSend", "release"} : l \in Section
  /\ \A l \in {"lookup", "swap", "enqueue", "acquire", "giveBack", "confirm",
                "done"} : l \notin Section
  BY DEF Section

\* A claim enters the section with a free lock, stays in it without touching
\* the lock, or is outside it after the step and leaves others' locks alone.
LEMMA SectionShapes ==
  ASSUME TypeOK, NEW k \in Claims, ClaimStep(k)
  PROVE  \/ lock = None /\ lock' = k
         \/ lock' = lock /\ (pc'[k] \in Section => pc[k] \in Section)
         \/ pc[k] = "release" /\ pc'[k] \notin Section /\ lock = k /\ lock' = None
<1>. USE SectionList DEF TypeOK, Goto, End, Leave, serialization
<1>1. CASE Lookup(k)
  BY <1>1 DEF Lookup
<1>2. CASE CompareAndSwap(k)
  BY <1>2 DEF CompareAndSwap
<1>3. CASE EnterLocalQueue(k)
  BY <1>3 DEF EnterLocalQueue
<1>4. CASE AcquireLock(k)
  BY <1>4 DEF AcquireLock, KeyIsFree
<1>5. CASE GiveBack(k)
  BY <1>5 DEF GiveBack
<1>6. CASE BuildAndSign(k)
  BY <1>6 DEF BuildAndSign
<1>7. CASE UndoBuild(k)
  BY <1>7 DEF UndoBuild
<1>8. CASE RecordHash(k)
  BY <1>8 DEF RecordHash
<1>9. CASE Broadcast(k)
  BY <1>9 DEF Broadcast, AfterFailedBroadcast
<1>10. CASE VerifyBroadcast(k)
  BY <1>10 DEF VerifyBroadcast
<1>11. CASE UndoSend(k)
  BY <1>11 DEF UndoSend
<1>12. CASE ReleaseLock(k)
  BY <1>12 DEF ReleaseLock, CompareAndDelete
<1>13. CASE Confirm(k)
  BY <1>13 DEF Confirm
<1>14. QED
  BY <1>1, <1>2, <1>3, <1>4, <1>5, <1>6, <1>7, <1>8, <1>9, <1>10, <1>11, <1>12,
     <1>13 DEF ClaimStep

\* The surroundings change the lock only when its TTL runs out.
LEMMA SurroundingsLock ==
  ASSUME Surroundings \/ UNCHANGED vars
  PROVE  lock' = lock \/ (LockExpires /\ lock' = None /\ pc' = pc)
<1>. USE DEF serialization
<1>1. ASSUME NEW k \in Claims, Mine(k) \/ Arrive(k) PROVE lock' = lock
  BY <1>1 DEF Mine, Arrive
<1>2. CASE LockExpires
  BY <1>2 DEF LockExpires
<1>3. ASSUME NEW u \in Users, NEW w \in Wallets, LinkOrphanedCoupons(u, w)
      PROVE  lock' = lock
  BY <1>3 DEF LinkOrphanedCoupons
<1>4. ASSUME NEW i \in Instances, Crash(i) PROVE lock' = lock
  BY <1>4 DEF Crash
<1>5. CASE UNCHANGED vars
  BY <1>5 DEF vars
<1>6. QED  BY <1>1, <1>2, <1>3, <1>4, <1>5 DEF Surroundings

\* Whoever works in the section keeps holding the lock.
LEMMA NextHoldsLock ==
  ~TtlMayElapse /\ TypeOK /\ HoldsLock /\ [Next]_vars => HoldsLock'
<1>. SUFFICES ASSUME ~TtlMayElapse, TypeOK, HoldsLock, [Next]_vars
              PROVE  HoldsLock'
  OBVIOUS
<1>1. ASSUME NEW k \in Claims, ClaimStep(k) PROVE HoldsLock'
  <2>. \A j \in Claims \ {k} : pc'[j] = pc[j]
    BY <1>1, OwnershipShapes
  <2>1. CASE lock = None /\ lock' = k
    BY <2>1, ClaimAssumption DEF HoldsLock
  <2>2. CASE lock' = lock /\ (pc'[k] \in Section => pc[k] \in Section)
    BY <2>2 DEF HoldsLock
  <2>3. CASE pc'[k] \notin Section /\ lock = k
    BY <2>3 DEF HoldsLock
  <2>4. QED  BY <1>1, <2>1, <2>2, <2>3, SectionShapes
<1>2. CASE Surroundings \/ UNCHANGED vars
  <2>1. \A j \in Claims : pc'[j] \in Section => pc[j] \in Section
    BY <1>2, SurroundingsShape, SectionList
  <2>2. CASE lock' = lock
    BY <2>1, <2>2 DEF HoldsLock
  <2>3. CASE LockExpires /\ pc' = pc
    <3>1. lock \in Claims /\ pc[lock] \notin Section
      BY <2>3 DEF LockExpires, TypeOK
    <3>2. \A j \in Claims : pc[j] \notin Section
      BY <3>1 DEF HoldsLock
    <3>3. QED  BY <2>1, <3>2 DEF HoldsLock
  <2>4. QED  BY <1>2, <2>2, <2>3, SurroundingsLock
<1>3. QED  BY <1>1, <1>2, NextCases

\* While the locked section fits the TTL, two claims of any two processes are
\* never between reading the treasury's nonce and having broadcast with it.
THEOREM SectionIsExclusive == ~TtlMayElapse /\ Spec => []TreasuryExclusive
<1>1. Init => HoldsLock
  BY SectionList DEF Init, HoldsLock
<1>2. HoldsLock => TreasuryExclusive
  BY DEF HoldsLock, TreasuryExclusive
<1>3. CASE TtlMayElapse
  BY <1>3
<1>4. CASE ~TtlMayElapse
  <2>1. TypeOK /\ HoldsLock /\ [Next]_vars => HoldsLock'
    BY <1>4, NextHoldsLock
  <2>2. Spec => []TreasuryExclusive
    BY <1>1, <1>2, <2>1, TypeCorrect, PTL DEF Spec
  <2>3. QED  BY <2>2
<1>5. QED  BY <1>3, <1>4

\* The lock leaves a claim's hands by its own compare-and-delete or by the
\* TTL, also when locks expire under their holders.
THEOREM OnlyHolderReleases == Spec => LockReleasedByHolder
<1>1. TypeOK /\ [Next]_vars =>
        [lock' # lock => \/ lock = None
                         \/ LockExpires
                         \/ pc[lock] = "release" /\ pc'[lock] # "release"]_vars
  <2>. SUFFICES ASSUME TypeOK, [Next]_vars, lock' # lock, lock # None,
                       ~LockExpires
                PROVE  pc[lock] = "release" /\ pc'[lock] # "release"
    OBVIOUS
  <2>1. PICK k \in Claims : ClaimStep(k)
    BY NextCases, SurroundingsLock
  <2>2. QED  BY <2>1, SectionShapes, SectionList
<1>2. QED  BY <1>1, TypeCorrect, PTL DEF Spec, LockReleasedByHolder

-----------------------------------------------------------------------------
(***************************************************************************)
(* Whose coupon is paid.                                                   *)
(***************************************************************************)
Sent == OnChain \cup {"flight"}
PaysItsUser == \A k \in Claims :
  pc[k] = "swap" \/ pc[k] \in Owning \/ txState[k] \in Sent
    => userId[couponOf[k]] = userOf[k]

\* The states of a transaction that a node may yet include, or has included.
LEMMA SentList ==
  /\ \A s \in {"mempool", "mined", "reverted"} : s \in OnChain /\ s \in Sent
  /\ \A s \in {"none", "signed", "lost"} : s \notin OnChain /\ s \notin Sent
  /\ "flight" \in Sent /\ "flight" \notin OnChain
  BY DEF Sent, OnChain

\* The node's answer sends no transaction but the one it is asked about.
LEMMA AcceptShape ==
  ASSUME TypeOK, NEW k \in Claims, Accept(k) \/ Refuse(k)
  PROVE  \A j \in Claims \ {k} : txState'[j] = txState[j]
                                \/ (txState[j] = "mempool" /\ txState'[j] = "lost")
  BY DEF Accept, Refuse, TypeOK

\* A claim sends a transaction only from the broadcast, which it reaches
\* owning the coupon; it starts to own the coupon from the swap, which it
\* reaches when the coupon is its user's.
LEMMA PayerShapes ==
  ASSUME TypeOK, NEW k \in Claims, ClaimStep(k)
  PROVE  /\ userId' = userId
         /\ pc'[k] = "swap" \/ pc'[k] \in Owning =>
              \/ pc[k] = "swap" \/ pc[k] \in Owning
              \/ userId[couponOf[k]] = userOf[k]
         /\ \A j \in Claims : txState'[j] \in Sent =>
              txState[j] \in Sent \/ (j = k /\ pc[k] \in Owning)
<1>. USE OwningList, SentList DEF TypeOK, Goto, End, Leave, coupons, chain
<1>1. CASE Lookup(k)
  BY <1>1 DEF Lookup, BelongsTo
<1>2. CASE CompareAndSwap(k)
  BY <1>2 DEF CompareAndSwap
<1>3. CASE EnterLocalQueue(k)
  BY <1>3 DEF EnterLocalQueue
<1>4. CASE AcquireLock(k)
  BY <1>4 DEF AcquireLock
<1>5. CASE GiveBack(k)
  BY <1>5 DEF GiveBack
<1>6. CASE BuildAndSign(k)
  BY <1>6 DEF BuildAndSign
<1>7. CASE UndoBuild(k)
  BY <1>7 DEF UndoBuild
<1>8. CASE RecordHash(k)
  BY <1>8 DEF RecordHash
<1>9. CASE Broadcast(k)
  <2>1. \A j \in Claims : txState'[j] \in Sent => txState[j] \in Sent \/ j = k
    BY <1>9, AcceptShape DEF Broadcast
  <2>2. QED  BY <1>9, <2>1 DEF Broadcast
<1>10. CASE VerifyBroadcast(k)
  BY <1>10 DEF VerifyBroadcast
<1>11. CASE UndoSend(k)
  BY <1>11 DEF UndoSend
<1>12. CASE ReleaseLock(k)
  BY <1>12 DEF ReleaseLock
<1>13. CASE Confirm(k)
  BY <1>13 DEF Confirm
<1>14. QED
  BY <1>1, <1>2, <1>3, <1>4, <1>5, <1>6, <1>7, <1>8, <1>9, <1>10, <1>11, <1>12,
     <1>13 DEF ClaimStep

\* The surroundings give no user's coupon to another one and send nothing.
LEMMA SurroundingsPayer ==
  ASSUME TypeOK, Surroundings \/ UNCHANGED vars
  PROVE  /\ \A c \in Coupons : userId[c] # None => userId'[c] = userId[c]
         /\ \A j \in Claims : txState'[j] \in Sent => txState[j] \in Sent
<1>. USE SentList DEF TypeOK, coupons, chain
<1>1. ASSUME NEW k \in Claims, Mine(k)
      PROVE  /\ userId' = userId
             /\ \A j \in Claims : txState'[j] \in Sent => txState[j] \in Sent
  BY <1>1 DEF Mine
<1>2. ASSUME NEW k \in Claims, Arrive(k)
      PROVE  /\ userId' = userId
             /\ \A j \in Claims : txState'[j] \in Sent => txState[j] \in Sent
  BY <1>2, AcceptShape DEF Arrive
<1>3. CASE LockExpires
  BY <1>3 DEF LockExpires
<1>4. ASSUME NEW u \in Users, NEW w \in Wallets, LinkOrphanedCoupons(u, w)
      PROVE  /\ \A c \in Coupons : userId[c] # None => userId'[c] = userId[c]
             /\ txState' = txState
  BY <1>4 DEF LinkOrphanedCoupons
<1>5. ASSUME NEW i \in Instances, Crash(i)
      PROVE  userId' = userId /\ txState' = txState
  BY <1>5 DEF Crash
<1>6. CASE UNCHANGED vars
  BY <1>6 DEF vars
<1>7. QED  BY <1>1, <1>2, <1>3, <1>4, <1>5, <1>6 DEF Surroundings

\* Every step keeps a coupon under payment, or paid, with the user who asked.
LEMMA NextPaysItsUser == TypeOK /\ PaysItsUser /\ [Next]_vars => PaysItsUser'
<1>. SUFFICES ASSUME TypeOK, PaysItsUser, [Next]_vars PROVE PaysItsUser'
  OBVIOUS
<1>1. ASSUME NEW k \in Claims, ClaimStep(k) PROVE PaysItsUser'
  <2>1. couponOf' = couponOf /\ userOf' = userOf
    BY <1>1, OwnershipShapes DEF request
  <2>2. \A j \in Claims \ {k} : pc'[j] = pc[j]
    BY <1>1, OwnershipShapes
  <2>3. QED  BY <1>1, <2>1, <2>2, PayerShapes DEF PaysItsUser
<1>2. CASE Surroundings \/ UNCHANGED vars
  <2>1. couponOf' = couponOf /\ userOf' = userOf
    BY <1>2, SurroundingsShape DEF request
  <2>2. \A j \in Claims : pc'[j] = pc[j] \/ pc'[j] = "done"
    BY <1>2, SurroundingsShape
  <2>3. \A j \in Claims : /\ couponOf[j] \in Coupons /\ userOf[j] \in Users
                          /\ userOf[j] # None
    BY ClaimAssumption DEF TypeOK
  <2>4. "done" # "swap" /\ "done" \notin Owning
    BY OwningList
  <2>5. QED
    BY <1>2, <2>1, <2>2, <2>3, <2>4, SurroundingsPayer DEF PaysItsUser
<1>3. QED  BY <1>1, <1>2, NextCases

\* Every transfer on the chain was asked for by the user whose coupon it is,
\* whatever wallet registrations come between the claim's read of the coupon
\* and the payment.
THEOREM OnlyOwnerIsPaid == Spec => []OwnerPaid
<1>1. Init => PaysItsUser
  BY OwningList, SentList DEF Init, PaysItsUser
<1>2. PaysItsUser => OwnerPaid
  BY SentList DEF PaysItsUser, OwnerPaid, Sent
<1>3. QED
  BY <1>1, <1>2, TypeCorrect, NextPaysItsUser, PTL DEF Spec

-----------------------------------------------------------------------------
(***************************************************************************)
(* The inductive invariant.  PayoutRecorded alone is not inductive: that a *)
(* rollback never hits a paid coupon depends on the owner being the only   *)
(* one who may have paid for it, on its hash being in place before it      *)
(* pays, and on its not having paid where it rolls back.                   *)
(***************************************************************************)
\* Where a claim has not sent its transaction, or knows that it did not go.
Quiet == {"lookup", "swap", "enqueue", "acquire", "giveBack", "populate",
          "undoBuild", "record", "broadcast", "undoSend"}
Stamped == {"broadcast", "verify", "undoSend"}

NothingInFlight == \A k \in Claims : txState[k] # "flight"
QuietIsUnpaid == \A k \in Claims : pc[k] \in Quiet => txState[k] \notin OnChain
StampedHasHash == \A k \in Claims :
  pc[k] \in Stamped => redemptionTxHash[couponOf[k]] = k
OnlyOwnerPaid == \A k, j \in Claims :
  /\ pc[k] \in Owning
  /\ couponOf[j] = couponOf[k]
  /\ txState[j] \in OnChain
  => j = k
RetryIsOver == \A k \in Claims : outcome[k] = "retry" =>
  pc[k] \in {"release", "done"} /\ txState[k] \notin OnChain

PayoutInv ==
  /\ TypeOK
  /\ OneOwner
  /\ NothingInFlight
  /\ QuietIsUnpaid
  /\ StampedHasHash
  /\ OnlyOwnerPaid
  /\ PayoutRecorded
  /\ RetryIsOver

\* Nothing is claimed, sent or paid at first.
LEMMA InitPayoutInv == Init => PayoutInv
<1>. SUFFICES ASSUME Init PROVE PayoutInv
  OBVIOUS
<1>1. TypeOK
  BY InitTypeInv DEF TypeInv
<1>2. \A k \in Claims : pc[k] = "lookup" /\ txState[k] = "none" /\ outcome[k] = "none"
  BY DEF Init
<1>3. QED
  BY <1>1, <1>2, OwningList, SentList
  DEF PayoutInv, OneOwner, NothingInFlight, QuietIsUnpaid, Stamped,
      StampedHasHash, OnlyOwnerPaid, PayoutRecorded, RetryIsOver

-----------------------------------------------------------------------------
(***************************************************************************)
(* What one step does to transactions, hashes and outcomes.                *)
(***************************************************************************)
\* A claim puts its transaction on the chain from "broadcast" only, and is
\* not where it would roll back unless it is not on the chain.
LEMMA ChainShapes ==
  ASSUME TypeOK, ~LateArrival, NothingInFlight, QuietIsUnpaid,
         NEW k \in Claims, ClaimStep(k)
  PROVE  /\ \A j \in Claims : /\ txState'[j] # "flight"
                              /\ txState'[j] \in OnChain =>
                                   \/ txState[j] \in OnChain
                                   \/ j = k /\ pc[k] = "broadcast"
                              /\ txState'[j] = "mined" <=> txState[j] = "mined"
         /\ pc'[k] \in Quiet => txState'[k] \notin OnChain
<1>. USE SentList DEF TypeOK, NothingInFlight, QuietIsUnpaid, Quiet, Goto, End,
                      Leave, chain
<1>1. CASE Lookup(k)
  BY <1>1 DEF Lookup
<1>2. CASE CompareAndSwap(k)
  BY <1>2 DEF CompareAndSwap
<1>3. CASE EnterLocalQueue(k)
  BY <1>3 DEF EnterLocalQueue
<1>4. CASE AcquireLock(k)
  BY <1>4 DEF AcquireLock
<1>5. CASE GiveBack(k)
  BY <1>5 DEF GiveBack
<1>6. CASE BuildAndSign(k)
  BY <1>6 DEF BuildAndSign
<1>7. CASE UndoBuild(k)
  BY <1>7 DEF UndoBuild
<1>8. CASE RecordHash(k)
  BY <1>8 DEF RecordHash
<1>9. CASE Broadcast(k)
  <2>1. pc[k] = "broadcast" /\ pc'[k] \in {"release", "verify"}
    BY <1>9 DEF Broadcast, AfterFailedBroadcast
  <2>2. Accept(k) \/ Refuse(k)
    BY <1>9 DEF Broadcast
  <2>3. txState'[k] \in {"mempool", "lost"} /\ txState[k] # "mined"
    BY <2>1, <2>2 DEF Accept, Refuse
  <2>4. QED  BY <2>1, <2>2, <2>3, AcceptShape
<1>10. CASE VerifyBroadcast(k)
  BY <1>10 DEF VerifyBroadcast, ProvenAbsent
<1>11. CASE UndoSend(k)
  BY <1>11 DEF UndoSend
<1>12. CASE ReleaseLock(k)
  BY <1>12 DEF ReleaseLock
<1>13. CASE Confirm(k)
  BY <1>13 DEF Confirm
<1>14. QED
  BY <1>1, <1>2, <1>3, <1>4, <1>5, <1>6, <1>7, <1>8, <1>9, <1>10, <1>11, <1>12,
     <1>13 DEF ClaimStep

\* A claim writes its coupon's hash when it records it and when it rolls its
\* broadcast back, both as the owner and before it is on the chain.
LEMMA HashShapes ==
  ASSUME TypeOK, NEW k \in Claims, ClaimStep(k)
  PROVE  \/ /\ redemptionTxHash' = redemptionTxHash
            /\ pc'[k] \in Stamped => pc[k] \in Stamped
         \/ /\ pc[k] = "record"
            /\ redemptionTxHash' = [redemptionTxHash EXCEPT ![couponOf[k]] = k]
         \/ /\ pc[k] = "undoSend" /\ pc'[k] = "release"
            /\ redemptionTxHash' = [redemptionTxHash EXCEPT ![couponOf[k]] = None]
<1>. USE DEF TypeOK, Goto, End, Leave, coupons, Stamped
<1>1. CASE Lookup(k)
  BY <1>1 DEF Lookup
<1>2. CASE CompareAndSwap(k)
  BY <1>2 DEF CompareAndSwap
<1>3. CASE EnterLocalQueue(k)
  BY <1>3 DEF EnterLocalQueue
<1>4. CASE AcquireLock(k)
  BY <1>4 DEF AcquireLock
<1>5. CASE GiveBack(k)
  BY <1>5 DEF GiveBack
<1>6. CASE BuildAndSign(k)
  BY <1>6 DEF BuildAndSign
<1>7. CASE UndoBuild(k)
  BY <1>7 DEF UndoBuild
<1>8. CASE RecordHash(k)
  BY <1>8 DEF RecordHash
<1>9. CASE Broadcast(k)
  BY <1>9 DEF Broadcast
<1>10. CASE VerifyBroadcast(k)
  BY <1>10 DEF VerifyBroadcast
<1>11. CASE UndoSend(k)
  BY <1>11 DEF UndoSend
<1>12. CASE ReleaseLock(k)
  BY <1>12 DEF ReleaseLock
<1>13. CASE Confirm(k)
  BY <1>13 DEF Confirm
<1>14. QED
  BY <1>1, <1>2, <1>3, <1>4, <1>5, <1>6, <1>7, <1>8, <1>9, <1>10, <1>11, <1>12,
     <1>13 DEF ClaimStep

\* "retry" is answered only from the three rollbacks, and is final.
LEMMA RetryShapes ==
  ASSUME TypeOK, RetryIsOver, NEW k \in Claims, ClaimStep(k)
  PROVE  /\ \A j \in Claims \ {k} : outcome'[j] = outcome[j]
         /\ outcome'[k] = "retry" =>
              /\ pc'[k] \in {"release", "done"}
              /\ txState' = txState
              /\ pc[k] \in {"giveBack", "undoBuild", "undoSend"}
                   \/ outcome[k] = "retry"
<1>. USE DEF TypeOK, RetryIsOver, Goto, End, Leave, chain
<1>1. CASE Lookup(k)
  BY <1>1 DEF Lookup
<1>2. CASE CompareAndSwap(k)
  BY <1>2 DEF CompareAndSwap
<1>3. CASE EnterLocalQueue(k)
  BY <1>3 DEF EnterLocalQueue
<1>4. CASE AcquireLock(k)
  BY <1>4 DEF AcquireLock
<1>5. CASE GiveBack(k)
  BY <1>5 DEF GiveBack
<1>6. CASE BuildAndSign(k)
  BY <1>6 DEF BuildAndSign
<1>7. CASE UndoBuild(k)
  BY <1>7 DEF UndoBuild
<1>8. CASE RecordHash(k)
  BY <1>8 DEF RecordHash
<1>9. CASE Broadcast(k)
  BY <1>9 DEF Broadcast
<1>10. CASE VerifyBroadcast(k)
  BY <1>10 DEF VerifyBroadcast
<1>11. CASE UndoSend(k)
  BY <1>11 DEF UndoSend
<1>12. CASE ReleaseLock(k)
  BY <1>12 DEF ReleaseLock
<1>13. CASE Confirm(k)
  BY <1>13 DEF Confirm
<1>14. QED
  BY <1>1, <1>2, <1>3, <1>4, <1>5, <1>6, <1>7, <1>8, <1>9, <1>10, <1>11, <1>12,
     <1>13 DEF ClaimStep

\* The surroundings put nothing new on the chain and say "retry" to nobody.
LEMMA SurroundingsChain ==
  ASSUME TypeOK, NothingInFlight, Surroundings \/ UNCHANGED vars
  PROVE  \A j \in Claims :
           /\ txState'[j] # "flight"
           /\ txState'[j] \in OnChain => txState[j] \in OnChain
           /\ outcome'[j] = "retry" =>
                outcome[j] = "retry" /\ (pc'[j] = pc[j] \/ pc'[j] = "done")
<1>. USE SentList DEF TypeOK, NothingInFlight, chain
<1>1. ASSUME NEW k \in Claims, Mine(k)
      PROVE  /\ pc' = pc /\ outcome' = outcome
             /\ \A j \in Claims : /\ txState'[j] # "flight"
                                  /\ txState'[j] \in OnChain => txState[j] \in OnChain
  BY <1>1 DEF Mine
<1>2. ASSUME NEW k \in Claims, Arrive(k) PROVE FALSE
  BY <1>2 DEF Arrive
<1>3. CASE LockExpires
  BY <1>3 DEF LockExpires
<1>4. ASSUME NEW u \in Users, NEW w \in Wallets, LinkOrphanedCoupons(u, w)
      PROVE  UNCHANGED <<pc, outcome, txState>>
  BY <1>4 DEF LinkOrphanedCoupons
<1>5. ASSUME NEW i \in Instances, Crash(i)
      PROVE  /\ txState' = txState
             /\ \A j \in Claims : outcome'[j] = "retry" =>
                  outcome[j] = "retry" /\ (pc'[j] = pc[j] \/ pc'[j] = "done")
  BY <1>5 DEF Crash
<1>6. CASE UNCHANGED vars
  BY <1>6 DEF vars
<1>7. QED  BY <1>1, <1>2, <1>3, <1>4, <1>5, <1>6 DEF Surroundings

-----------------------------------------------------------------------------
(***************************************************************************)
(* The invariant is inductive.                                             *)
(***************************************************************************)
\* A claim's own step.
LEMMA ClaimPayoutInv ==
  ASSUME ~LateArrival, PayoutInv, NEW k \in Claims, ClaimStep(k)
  PROVE  /\ NothingInFlight' /\ QuietIsUnpaid' /\ StampedHasHash'
         /\ OnlyOwnerPaid' /\ PayoutRecorded' /\ RetryIsOver'
<1>. /\ TypeOK /\ OneOwner /\ NothingInFlight /\ QuietIsUnpaid /\ StampedHasHash
     /\ OnlyOwnerPaid /\ PayoutRecorded /\ RetryIsOver
  BY DEF PayoutInv
<1>. DEFINE c == couponOf[k]
<1>1. /\ couponOf' = couponOf /\ couponOf \in [Claims -> Coupons]
      /\ redeemed \in [Coupons -> BOOLEAN]
      /\ redemptionTxHash \in [Coupons -> Claims \cup {None}]
  BY OwnershipShapes DEF request, TypeOK
<1>2. \A j \in Claims \ {k} : pc'[j] = pc[j]
  BY OwnershipShapes
<1>3. /\ \A j \in Claims : txState'[j] \in OnChain =>
           txState[j] \in OnChain \/ (j = k /\ pc[k] = "broadcast")
      /\ pc'[k] \in Quiet => txState'[k] \notin OnChain
  BY ChainShapes
<1>4. NothingInFlight'
  BY ChainShapes DEF NothingInFlight
<1>5. ASSUME NEW j \in Claims, pc'[j] \in Quiet PROVE txState'[j] \notin OnChain
  <2>1. CASE j = k
    BY <1>3, <1>5, <2>1
  <2>2. CASE j # k
    BY <1>2, <1>3, <1>5, <2>2 DEF QuietIsUnpaid
  <2>3. QED  BY <2>1, <2>2
<1>6. ASSUME NEW o \in Claims, NEW j \in Claims, pc'[o] \in Owning,
             couponOf[j] = couponOf[o], txState'[j] \in OnChain
      PROVE  j = o
  <2>1. CASE txState[j] \in OnChain /\ pc[o] \in Owning
    BY <1>6, <2>1 DEF OnlyOwnerPaid
  <2>2. CASE txState[j] \in OnChain /\ pc[o] \notin Owning
    <3>1. o = k /\ TakesCoupon(k)
      BY <1>2, <1>6, <2>2, OwnershipShapes DEF WorksOnCoupon, GivesCouponBack
    <3>2. ~redeemed[couponOf[j]]
      BY <1>6, <3>1 DEF TakesCoupon
    <3>3. QED  BY <2>2, <3>2 DEF PayoutRecorded
  <2>3. CASE txState[j] \notin OnChain
    <3>1. j = k /\ pc[k] \in Owning
      BY <1>3, <1>6, <2>3, OwningList
    <3>2. CASE o = k
      BY <3>1, <3>2
    <3>3. CASE o # k
      BY <1>2, <1>6, <3>1, <3>3 DEF OneOwner
    <3>4. QED  BY <3>2, <3>3
  <2>4. QED  BY <2>1, <2>2, <2>3
\* Nobody else's payout is on the coupon a claim writes to.
<1>7. ASSUME NEW j \in Claims, couponOf[j] = c, txState'[j] \in OnChain,
             pc[k] \in {"giveBack", "undoBuild", "record", "undoSend"}
      PROVE  FALSE
  <2>1. txState[j] \in OnChain /\ pc[k] \in Owning
    BY <1>3, <1>7, OwningList
  <2>2. j = k
    BY <1>7, <2>1 DEF OnlyOwnerPaid
  <2>3. QED  BY <1>7, <2>1, <2>2 DEF QuietIsUnpaid, Quiet
<1>8. ASSUME NEW j \in Claims, txState'[j] \in OnChain
      PROVE  redeemed'[couponOf[j]] /\ redemptionTxHash'[couponOf[j]] = j
  <2>1. redeemed[couponOf[j]] /\ redemptionTxHash[couponOf[j]] = j
    <3>1. CASE txState[j] \in OnChain
      BY <3>1 DEF PayoutRecorded
    <3>2. CASE j = k /\ pc[k] = "broadcast"
      BY <3>2, OwningList DEF OneOwner, StampedHasHash, Stamped
    <3>3. QED  BY <1>3, <1>8, <3>1, <3>2
  <2>2. couponOf[j] \in Coupons /\ c \in Coupons
    BY <1>1
  <2>3. redeemed'[couponOf[j]]
    <3>1. CASE TakesCoupon(k)
      BY <1>1, <2>1, <2>2, <3>1 DEF TakesCoupon
    <3>2. CASE WorksOnCoupon(k)
      BY <2>1, <3>2 DEF WorksOnCoupon
    <3>3. CASE GivesCouponBack(k)
      <4>1. couponOf[j] # c
        BY <1>7, <1>8, <3>3 DEF GivesCouponBack
      <4>2. QED  BY <1>1, <2>1, <2>2, <3>3, <4>1 DEF GivesCouponBack
    <3>4. QED  BY <3>1, <3>2, <3>3, OwnershipShapes
  <2>4. redemptionTxHash'[couponOf[j]] = j
    <3>1. CASE redemptionTxHash' = redemptionTxHash
      BY <2>1, <3>1
    <3>2. CASE pc[k] \in {"record", "undoSend"}
      <4>1. couponOf[j] # c
        BY <1>7, <1>8, <3>2
      <4>2. redemptionTxHash'[couponOf[j]] = redemptionTxHash[couponOf[j]]
        BY <1>1, <2>2, <4>1, HashShapes
      <4>3. QED  BY <2>1, <4>2
    <3>3. QED  BY <3>1, <3>2, HashShapes
  <2>5. QED  BY <2>3, <2>4
<1>9. ASSUME NEW j \in Claims, pc'[j] \in Stamped
      PROVE  redemptionTxHash'[couponOf[j]] = j
  <2>1. couponOf[j] \in Coupons /\ c \in Coupons
    BY <1>1
  <2>2. CASE redemptionTxHash' = redemptionTxHash /\ pc[j] \in Stamped
    BY <2>2 DEF StampedHasHash
  <2>3. CASE j = k /\ pc[k] = "record"
    BY <1>1, <1>9, <2>1, <2>3, HashShapes DEF Stamped
  <2>4. CASE j # k /\ pc[k] \in {"record", "undoSend"}
    <3>1. pc[j] \in Stamped /\ pc[j] \in Owning /\ pc[k] \in Owning
      BY <1>2, <1>9, <2>4, OwningList DEF Stamped
    <3>2. couponOf[j] # c
      BY <2>4, <3>1 DEF OneOwner
    <3>3. redemptionTxHash'[couponOf[j]] = redemptionTxHash[couponOf[j]]
      BY <1>1, <2>1, <3>2, HashShapes
    <3>4. QED  BY <3>1, <3>3 DEF StampedHasHash
  <2>5. "release" \notin Stamped
    BY DEF Stamped
  <2>6. QED  BY <1>2, <1>9, <2>2, <2>3, <2>4, <2>5, HashShapes
<1>10. ASSUME NEW j \in Claims, outcome'[j] = "retry"
       PROVE  pc'[j] \in {"release", "done"} /\ txState'[j] \notin OnChain
  <2>1. CASE j = k
    <3>1. txState[k] \notin OnChain
      BY <1>10, <2>1, RetryShapes DEF RetryIsOver, QuietIsUnpaid, Quiet
    <3>2. QED  BY <1>10, <2>1, <3>1, RetryShapes
  <2>2. CASE j # k
    BY <1>2, <1>3, <1>10, <2>2, RetryShapes DEF RetryIsOver
  <2>3. QED  BY <2>1, <2>2
<1>11. QuietIsUnpaid'
  BY <1>5 DEF QuietIsUnpaid
<1>12. StampedHasHash'
  BY <1>1, <1>9 DEF StampedHasHash
<1>13. OnlyOwnerPaid'
  BY <1>1, <1>6 DEF OnlyOwnerPaid
<1>14. PayoutRecorded'
  BY <1>1, <1>8 DEF PayoutRecorded
<1>15. RetryIsOver'
  BY <1>10 DEF RetryIsOver
<1>16. QED  BY <1>4, <1>11, <1>12, <1>13, <1>14, <1>15

\* Every step keeps the invariant.
LEMMA NextPayoutInv ==
  ~LateArrival /\ PayoutInv /\ TypeOK' /\ OneOwner' /\ [Next]_vars => PayoutInv'
<1>. SUFFICES ASSUME ~LateArrival, PayoutInv, TypeOK', OneOwner', [Next]_vars
              PROVE  PayoutInv'
  OBVIOUS
<1>1. ASSUME NEW k \in Claims, ClaimStep(k) PROVE PayoutInv'
  BY <1>1, ClaimPayoutInv DEF PayoutInv
<1>2. CASE Surroundings \/ UNCHANGED vars
  <2>1. /\ couponOf' = couponOf /\ redeemed' = redeemed
        /\ redemptionTxHash' = redemptionTxHash
        /\ \A j \in Claims : pc'[j] = pc[j] \/ pc'[j] = "done"
    BY <1>2, SurroundingsShape DEF PayoutInv, request
  <2>2. "done" \notin Owning /\ "done" \notin Quiet /\ "done" \notin Stamped
    BY OwningList DEF Quiet, Stamped
  <2>3. NothingInFlight'
    BY <1>2, SurroundingsChain DEF PayoutInv, NothingInFlight
  <2>4. QuietIsUnpaid'
    BY <1>2, <2>1, <2>2, SurroundingsChain DEF PayoutInv, QuietIsUnpaid
  <2>5. StampedHasHash'
    BY <2>1, <2>2 DEF PayoutInv, StampedHasHash
  <2>6. OnlyOwnerPaid'
    BY <1>2, <2>1, <2>2, SurroundingsChain DEF PayoutInv, OnlyOwnerPaid
  <2>7. PayoutRecorded'
    BY <1>2, <2>1, SurroundingsChain DEF PayoutInv, PayoutRecorded
  <2>8. RetryIsOver'
    BY <1>2, SurroundingsChain DEF PayoutInv, RetryIsOver
  <2>9. QED
    BY <2>3, <2>4, <2>5, <2>6, <2>7, <2>8 DEF PayoutInv
<1>3. QED  BY <1>1, <1>2, NextCases

\* The invariant holds in every behaviour.
LEMMA PayoutInvHolds == ~LateArrival /\ Spec => []PayoutInv
<1>1. CASE LateArrival
  BY <1>1
<1>2. CASE ~LateArrival
  <2>1. PayoutInv /\ TypeOK' /\ OneOwner' /\ [Next]_vars => PayoutInv'
    BY <1>2, NextPayoutInv
  <2>2. Spec => []PayoutInv
    BY <2>1, InitPayoutInv, TypeCorrect, OwnerIsAlone, PTL DEF Spec
  <2>3. QED  BY <2>2
<1>3. QED  BY <1>1, <1>2

\* Whatever reached the chain for a coupon is the transaction whose hash the
\* coupon holds, through every order of claims, crashes and lost answers.
THEOREM PayoutsAreRecorded == ~LateArrival /\ Spec => []PayoutRecorded
<1>1. PayoutInv => PayoutRecorded
  BY DEF PayoutInv
<1>2. QED  BY <1>1, PayoutInvHolds, PTL

\* No coupon is paid twice.
THEOREM NoDoublePayout == ~LateArrival /\ Spec => []PaidAtMostOnce
<1>1. PayoutInv => PaidAtMostOnce
  BY SentList DEF PayoutInv, PayoutRecorded, PaidAtMostOnce, Payouts
<1>2. QED  BY <1>1, PayoutInvHolds, PTL

\* A user who is told to retry has nothing on the chain for that request.
THEOREM RetryHasNoPayout == ~LateArrival /\ Spec => []RetryIsSafe
<1>1. PayoutInv => RetryIsSafe
  BY DEF PayoutInv, RetryIsOver, RetryIsSafe
<1>2. QED  BY <1>1, PayoutInvHolds, PTL

-----------------------------------------------------------------------------
(***************************************************************************)
(* Redeeming implements the ledger, under the mapping of CouponClaim.      *)
(***************************************************************************)
LEMMA LedgerStep ==
  ~LateArrival /\ PayoutInv /\ [Next]_vars
    => [Ledger!LedgerNext]_<<{c \in Coupons : redeemed[c]},
                             [c \in Coupons |-> Payouts(c)]>>
<1>. SUFFICES ASSUME ~LateArrival, PayoutInv, [Next]_vars
              PROVE  [Ledger!LedgerNext]_<<{c \in Coupons : redeemed[c]},
                                           [c \in Coupons |-> Payouts(c)]>>
  OBVIOUS
<1>. DEFINE reserved == {c \in Coupons : redeemed[c]}
            payouts == [c \in Coupons |-> Payouts(c)]
<1>. /\ TypeOK /\ OneOwner /\ NothingInFlight /\ QuietIsUnpaid
     /\ OnlyOwnerPaid /\ PayoutRecorded
  BY DEF PayoutInv
<1>1. ASSUME NEW k \in Claims, ClaimStep(k)
      PROVE  Ledger!LedgerNext \/ UNCHANGED <<reserved, payouts>>
  <2>. DEFINE c == couponOf[k]
  <2>1. couponOf' = couponOf /\ c \in Coupons /\ redeemed \in [Coupons -> BOOLEAN]
    BY <1>1, OwnershipShapes DEF request, TypeOK
  <2>2. \A d \in Coupons : Payouts(d)' = Payouts(d)
    BY <1>1, <2>1, ChainShapes DEF Payouts
  <2>3. payouts' = payouts
    BY <2>2
  <2>4. CASE TakesCoupon(k)
    <3>1. c \notin reserved /\ reserved' = reserved \cup {c}
      BY <2>1, <2>4 DEF TakesCoupon
    <3>2. QED  BY <2>1, <2>3, <3>1 DEF Ledger!LedgerNext, Ledger!Reserve
  <2>5. CASE WorksOnCoupon(k)
    BY <2>3, <2>5 DEF WorksOnCoupon
  <2>6. CASE GivesCouponBack(k)
    <3>1. pc[k] \in Owning /\ pc[k] \in Quiet
      BY <2>6, OwningList DEF GivesCouponBack, Quiet
    <3>2. c \in reserved /\ reserved' = reserved \ {c}
      BY <2>1, <2>6, <3>1 DEF GivesCouponBack, OneOwner
    <3>3. Payouts(c) = {}
      BY <3>1, SentList DEF Payouts, OnlyOwnerPaid, QuietIsUnpaid
    <3>4. payouts[c] = {}
      BY <2>1, <3>3
    <3>5. QED
      BY <2>1, <2>3, <3>2, <3>4 DEF Ledger!LedgerNext, Ledger!GiveBackCoupon
  <2>7. QED  BY <1>1, <2>4, <2>5, <2>6, OwnershipShapes
<1>2. ASSUME NEW k \in Claims, Mine(k)
      PROVE  Ledger!LedgerNext \/ UNCHANGED <<reserved, payouts>>
  <2>. DEFINE c == couponOf[k]
  <2>1. /\ couponOf' = couponOf /\ redeemed' = redeemed /\ c \in Coupons
        /\ txState \in [Claims -> TxStates] /\ txState[k] = "mempool"
    BY <1>2 DEF Mine, coupons, request, TypeOK
  <2>2. reserved' = reserved
    BY <2>1
  <2>3. CASE txState' = [txState EXCEPT ![k] = "mined"]
    <3>1. c \in reserved /\ redemptionTxHash[c] = k
      BY <2>1, SentList DEF PayoutRecorded
    <3>2. Payouts(c) = {}
      BY <2>1, <3>1, SentList DEF Payouts, PayoutRecorded
    <3>3. \A d \in Coupons : Payouts(d)' = IF d = c THEN {k} ELSE Payouts(d)
      BY <2>1, <2>3, <3>2 DEF Payouts
    <3>4. payouts[c] = {} /\ payouts' = [payouts EXCEPT ![c] = {k}]
      BY <2>1, <3>2, <3>3
    <3>5. QED
      BY <2>1, <2>2, <3>1, <3>4 DEF Ledger!LedgerNext, Ledger!Pay
  <2>4. CASE txState' = [txState EXCEPT ![k] = "reverted"]
    <3>1. \A d \in Coupons : Payouts(d)' = Payouts(d)
      BY <2>1, <2>4 DEF Payouts
    <3>2. QED  BY <2>2, <3>1
  <2>5. QED  BY <1>2, <2>3, <2>4 DEF Mine
<1>3. ASSUME \/ \E k \in Claims : Arrive(k)
             \/ LockExpires
             \/ \E u \in Users, w \in Wallets : LinkOrphanedCoupons(u, w)
             \/ \E i \in Instances : Crash(i)
             \/ UNCHANGED vars
      PROVE  UNCHANGED <<reserved, payouts>>
  <2>1. UNCHANGED <<redeemed, couponOf, txState>>
    BY <1>3 DEF Arrive, NothingInFlight, LockExpires, LinkOrphanedCoupons, Crash,
                vars, coupons, request, chain
  <2>2. QED  BY <2>1 DEF Payouts
<1>4. QED  BY <1>1, <1>2, <1>3, NextCases DEF Surroundings

\* Claims with all their waiting, failing and crashing behave as the ledger:
\* a coupon is reserved, given back only unpaid, and paid once for good.
THEOREM RedeemingImplementsLedger == ~LateArrival /\ Spec => ImplementsLedger
<1>1. Init => Ledger!LedgerInit
  <2>. SUFFICES ASSUME Init PROVE Ledger!LedgerInit
    OBVIOUS
  <2>1. \A c \in Coupons : ~redeemed[c]
    BY DEF Init
  <2>2. \A c \in Coupons : Payouts(c) = {}
    BY DEF Init, Payouts
  <2>3. QED  BY <2>1, <2>2 DEF Ledger!LedgerInit
<1>2. CASE LateArrival
  BY <1>2
<1>3. CASE ~LateArrival
  <2>1. PayoutInv /\ [Next]_vars
          => [Ledger!LedgerNext]_<<{c \in Coupons : redeemed[c]},
                                   [c \in Coupons |-> Payouts(c)]>>
    BY <1>3, LedgerStep
  <2>2. Spec => []PayoutInv
    BY <1>3, PayoutInvHolds
  <2>3. QED
    BY <1>1, <2>1, <2>2, PTL DEF Spec, ImplementsLedger, Ledger!LedgerSpec
<1>4. QED  BY <1>2, <1>3

-----------------------------------------------------------------------------
(***************************************************************************)
(* Nonces.  In the section the claim's nonce stays the pending one, since  *)
(* nobody else broadcasts meanwhile; so an accepted transfer is never      *)
(* replaced.                                                               *)
(***************************************************************************)
NonceIsPending == \A k \in Claims :
  /\ pc[k] \in {"record", "broadcast"} => nonce[k] = pendingNonce
  /\ txState[k] = "mempool" => nonce[k] < pendingNonce

\* A claim signs with the pending nonce at "populate", uses it up at
\* "broadcast" and leaves nonces alone elsewhere.
LEMMA NonceShapes ==
  ASSUME TypeOK, ~LateArrival, NonceIsPending, NEW k \in Claims, ClaimStep(k)
  PROVE  \/ /\ UNCHANGED <<nonce, pendingNonce, txState>>
            /\ pc'[k] \in {"record", "broadcast"} => pc[k] = "record"
         \/ /\ pc[k] = "populate" /\ pendingNonce' = pendingNonce
            /\ \/ /\ nonce' = [nonce EXCEPT ![k] = pendingNonce]
                  /\ txState' = [txState EXCEPT ![k] = "signed"]
               \/ nonce' = nonce /\ txState' = txState /\ pc'[k] = "undoBuild"
         \/ /\ pc[k] = "broadcast" /\ pc'[k] \notin {"record", "broadcast"}
            /\ nonce' = nonce
            /\ \/ /\ pendingNonce' = pendingNonce + 1
                  /\ txState' = [txState EXCEPT ![k] = "mempool"]
               \/ /\ pendingNonce' = pendingNonce
                  /\ txState' = [txState EXCEPT ![k] = "lost"]
<1>. USE DEF TypeOK, Goto, End, Leave, chain
<1>1. CASE Lookup(k)
  BY <1>1 DEF Lookup
<1>2. CASE CompareAndSwap(k)
  BY <1>2 DEF CompareAndSwap
<1>3. CASE EnterLocalQueue(k)
  BY <1>3 DEF EnterLocalQueue
<1>4. CASE AcquireLock(k)
  BY <1>4 DEF AcquireLock
<1>5. CASE GiveBack(k)
  BY <1>5 DEF GiveBack
<1>6. CASE BuildAndSign(k)
  BY <1>6 DEF BuildAndSign, TransactionCount
<1>7. CASE UndoBuild(k)
  BY <1>7 DEF UndoBuild
<1>8. CASE RecordHash(k)
  BY <1>8 DEF RecordHash
<1>9. CASE Broadcast(k)
  <2>1. nonce[k] = pendingNonce /\ pc[k] = "broadcast" /\ nonce' = nonce
    BY <1>9 DEF Broadcast, NonceIsPending
  <2>2. \A old \in Claims : ~(txState[old] = "mempool" /\ nonce[old] = nonce[k])
    BY <2>1 DEF NonceIsPending
  <2>3. pc'[k] \in {"release", "verify"} /\ (Accept(k) \/ Refuse(k))
    BY <1>9 DEF Broadcast, AfterFailedBroadcast
  <2>4. QED  BY <2>1, <2>2, <2>3 DEF Accept, Refuse
<1>10. CASE VerifyBroadcast(k)
  BY <1>10 DEF VerifyBroadcast
<1>11. CASE UndoSend(k)
  BY <1>11 DEF UndoSend
<1>12. CASE ReleaseLock(k)
  BY <1>12 DEF ReleaseLock
<1>13. CASE Confirm(k)
  BY <1>13 DEF Confirm
<1>14. QED
  BY <1>1, <1>2, <1>3, <1>4, <1>5, <1>6, <1>7, <1>8, <1>9, <1>10, <1>11, <1>12,
     <1>13 DEF ClaimStep

\* The surroundings use up no nonce and take nothing accepted back.
LEMMA SurroundingsNonce ==
  ASSUME TypeOK, NothingInFlight, Surroundings \/ UNCHANGED vars
  PROVE  /\ UNCHANGED <<nonce, pendingNonce>>
         /\ \A j \in Claims :
              /\ txState'[j] = "mempool" => txState[j] = "mempool"
              /\ txState[j] \in OnChain => txState'[j] \in OnChain
<1>. USE SentList DEF TypeOK, chain
<1>1. ASSUME NEW k \in Claims, Mine(k)
      PROVE  /\ UNCHANGED <<nonce, pendingNonce>>
             /\ \A j \in Claims :
                  /\ txState'[j] = "mempool" => txState[j] = "mempool"
                  /\ txState[j] \in OnChain => txState'[j] \in OnChain
  BY <1>1 DEF Mine
<1>2. ASSUME NEW k \in Claims, Arrive(k) PROVE FALSE
  BY <1>2 DEF Arrive, NothingInFlight
<1>3. CASE LockExpires
  BY <1>3 DEF LockExpires
<1>4. ASSUME NEW u \in Users, NEW w \in Wallets, LinkOrphanedCoupons(u, w)
      PROVE  UNCHANGED <<nonce, pendingNonce, txState>>
  BY <1>4 DEF LinkOrphanedCoupons
<1>5. ASSUME NEW i \in Instances, Crash(i)
      PROVE  UNCHANGED <<nonce, pendingNonce, txState>>
  BY <1>5 DEF Crash
<1>6. CASE UNCHANGED vars
  BY <1>6 DEF vars
<1>7. QED  BY <1>1, <1>2, <1>3, <1>4, <1>5, <1>6 DEF Surroundings

\* Every step keeps the nonces of the section pending.
LEMMA NextNonceIsPending ==
  ~LateArrival /\ PayoutInv /\ TreasuryExclusive /\ NonceIsPending /\ [Next]_vars
    => NonceIsPending'
<1>. SUFFICES ASSUME ~LateArrival, PayoutInv, TreasuryExclusive, NonceIsPending,
                     [Next]_vars
              PROVE  NonceIsPending'
  OBVIOUS
<1>. /\ TypeOK /\ NothingInFlight /\ QuietIsUnpaid
  BY DEF PayoutInv
<1>. pendingNonce \in Nat /\ nonce \in [Claims -> Nat]
     /\ txState \in [Claims -> TxStates]
  BY DEF TypeOK
<1>1. ASSUME NEW k \in Claims, ClaimStep(k) PROVE NonceIsPending'
  <2>1. \A j \in Claims \ {k} : pc'[j] = pc[j]
    BY <1>1, OwnershipShapes
  <2>2. CASE /\ UNCHANGED <<nonce, pendingNonce, txState>>
             /\ pc'[k] \in {"record", "broadcast"} => pc[k] = "record"
    BY <2>1, <2>2 DEF NonceIsPending
  <2>3. CASE /\ pc[k] = "populate" /\ pendingNonce' = pendingNonce
             /\ nonce' = [nonce EXCEPT ![k] = pendingNonce]
             /\ txState' = [txState EXCEPT ![k] = "signed"]
    BY <2>1, <2>3 DEF NonceIsPending
  <2>4. CASE /\ pc[k] = "populate" /\ pendingNonce' = pendingNonce
             /\ nonce' = nonce /\ txState' = txState /\ pc'[k] = "undoBuild"
    BY <2>1, <2>4 DEF NonceIsPending
  <2>5. CASE /\ pc[k] = "broadcast" /\ pc'[k] \notin {"record", "broadcast"}
             /\ nonce' = nonce
             /\ pendingNonce' = pendingNonce + 1
             /\ txState' = [txState EXCEPT ![k] = "mempool"]
    <3>1. \A j \in Claims : pc'[j] \notin {"record", "broadcast"}
      BY <2>1, <2>5, SectionList DEF TreasuryExclusive
    <3>2. nonce[k] < pendingNonce'
      BY <2>5 DEF NonceIsPending
    <3>3. QED  BY <2>5, <3>1, <3>2 DEF NonceIsPending
  <2>6. CASE /\ pc[k] = "broadcast" /\ pc'[k] \notin {"record", "broadcast"}
             /\ nonce' = nonce /\ pendingNonce' = pendingNonce
             /\ txState' = [txState EXCEPT ![k] = "lost"]
    BY <2>1, <2>6 DEF NonceIsPending
  <2>7. QED  BY <1>1, <2>2, <2>3, <2>4, <2>5, <2>6, NonceShapes
<1>2. CASE Surroundings \/ UNCHANGED vars
  <2>1. \A j \in Claims : pc'[j] = pc[j] \/ pc'[j] = "done"
    BY <1>2, SurroundingsShape
  <2>2. QED  BY <1>2, <2>1, SurroundingsNonce DEF NonceIsPending
<1>3. QED  BY <1>1, <1>2, NextCases

\* While the locked section fits the TTL, a transfer the node has accepted is
\* never displaced by a later one with the same nonce.
THEOREM AcceptedStays ==
  ~LateArrival /\ ~TtlMayElapse /\ Spec => NoTransferDisplaced
<1>1. Init => NonceIsPending
  BY DEF Init, NonceIsPending
<1>2. CASE LateArrival \/ TtlMayElapse
  BY <1>2
<1>3. CASE ~LateArrival /\ ~TtlMayElapse
  <2>1. PayoutInv /\ TreasuryExclusive /\ NonceIsPending /\ [Next]_vars
          => NonceIsPending'
    BY <1>3, NextNonceIsPending
  <2>2. PayoutInv /\ NonceIsPending /\ [Next]_vars =>
          [\A k \in Claims : txState[k] \in OnChain => txState'[k] \in OnChain]_vars
    <3>. SUFFICES ASSUME PayoutInv, NonceIsPending, [Next]_vars,
                         NEW j \in Claims, txState[j] \in OnChain
                  PROVE  txState'[j] \in OnChain
      OBVIOUS
    <3>. TypeOK /\ NothingInFlight /\ QuietIsUnpaid
      BY DEF PayoutInv
    <3>1. ASSUME NEW k \in Claims, ClaimStep(k) PROVE txState'[j] \in OnChain
      <4>1. CASE txState' = txState
        BY <4>1
      <4>2. CASE pc[k] \in {"populate", "broadcast"}
        <5>1. j # k
          BY <4>2 DEF QuietIsUnpaid, Quiet
        <5>2. QED  BY <1>3, <3>1, <4>2, <5>1, NonceShapes DEF TypeOK
      <4>3. QED  BY <1>3, <3>1, <4>1, <4>2, NonceShapes
    <3>2. CASE Surroundings \/ UNCHANGED vars
      BY <3>2, SurroundingsNonce
    <3>3. QED  BY <3>1, <3>2, NextCases
  <2>3. Spec => []PayoutInv /\ []TreasuryExclusive
    BY <1>3, PayoutInvHolds, SectionIsExclusive
  <2>4. QED
    BY <1>1, <2>1, <2>2, <2>3, PTL DEF Spec, NoTransferDisplaced
<1>4. QED  BY <1>2, <1>3
=============================================================================
