---------------------------- MODULE CouponClaim ----------------------------
(***************************************************************************)
(* Redeeming a cashback coupon: CouponsService.claimCoupon and everything  *)
(* it awaits (apps/backend/src/coupons/coupons.service.ts).                *)
(*                                                                         *)
(* A claim is one HTTP request.  It marks the coupon redeemed with a       *)
(* compare-and-swap in Mongo, waits its turn in a queue of its own Node    *)
(* process, takes a Redis lock shared by all processes, signs a treasury   *)
(* transfer with the pending nonce, records the hash, broadcasts, and      *)
(* gives the coupon back only when it believes nothing was sent.           *)
(*                                                                         *)
(* Every `await` of the code ends a step: what one claim read before it    *)
(* can be stale after it.  A process may crash between any two steps.  A   *)
(* call to Mongo or to Redis may be executed and still be reported failed. *)
(***************************************************************************)
EXTENDS Naturals, Sequences

CONSTANTS
  Claims,            \* claim requests; a claim signs at most one transaction,
                     \* which is named by the claim
  Instances,         \* backend processes behind the load balancer
  Coupons,
  Users,
  Wallets,           \* wallet addresses that paid a merchant
  PayerAddress,      \* the wallet whose payment earned a coupon
  None,              \* null in Mongo, a missing key in Redis
  AcquireAttempts,   \* TREASURY_LOCK_ACQUIRE_ATTEMPTS
  VerifyAttempts,    \* BROADCAST_VERIFY_ATTEMPTS
  TtlMayElapse,      \* can the lock's TTL run out while its holder works?
  LateArrival,       \* can a transaction reach the chain after the broadcast
                     \* was reported failed and the node had no record of it?
  MaxCrashes         \* bound on the crashes of a behaviour

ASSUME ClaimAssumption ==
  /\ PayerAddress \in [Coupons -> Wallets]
  /\ None \notin Claims \cup Users
  /\ AcquireAttempts \in Nat \ {0}
  /\ VerifyAttempts \in Nat \ {0}
  /\ TtlMayElapse \in BOOLEAN
  /\ LateArrival \in BOOLEAN
  /\ MaxCrashes \in Nat

VARIABLES
  \* the coupons collection
  userId, redeemed, redemptionTxHash,
  \* each claim request: what it asks for, where it runs, how far it got
  couponOf, userOf, instanceOf, pc, outcome, tries, noRecord,
  \* localTreasuryQueue of each process, and the Redis key
  localTreasuryQueue, lock,
  \* the chain, as the treasury's RPC node reports it
  txState, nonce, pendingNonce, minedNonce,
  crashes

coupons == <<userId, redeemed, redemptionTxHash>>
request == <<couponOf, userOf, instanceOf>>
serialization == <<localTreasuryQueue, lock>>
chain == <<txState, nonce, pendingNonce, minedNonce>>
vars == <<coupons, request, pc, outcome, tries, noRecord, serialization,
          chain, crashes>>

(***************************************************************************)
(* What a claim does next.                                                 *)
(***************************************************************************)
\* Inside withTreasuryLock, from the lock's token to its release.
Section == {"populate", "undoBuild", "record", "broadcast", "verify",
            "undoSend", "release"}
\* Won the compare-and-swap and has not yet settled the coupon's fate.
Owning == {"enqueue", "acquire", "giveBack"} \cup (Section \ {"release"})
Labels == {"lookup", "swap", "confirm", "done"} \cup Owning \cup Section

\* "retry": the user is told the transfer failed and to try again.
Outcomes == {"none", "rejected", "retry", "error", "paid", "crashed"}

\* signed: known to the claim only; flight: sent, invisible so far;
\* lost: never reached a node, was refused, or was replaced.
TxStates == {"none", "signed", "lost", "flight", "mempool", "mined", "reverted"}
OnChain == {"mempool", "mined", "reverted"}

TypeOK ==
  /\ userId \in [Coupons -> Users \cup {None}]
  /\ redeemed \in [Coupons -> BOOLEAN]
  /\ redemptionTxHash \in [Coupons -> Claims \cup {None}]
  /\ couponOf \in [Claims -> Coupons]
  /\ userOf \in [Claims -> Users]
  /\ instanceOf \in [Claims -> Instances]
  /\ pc \in [Claims -> Labels]
  /\ outcome \in [Claims -> Outcomes]
  /\ tries \in [Claims -> Nat]
  /\ noRecord \in [Claims -> BOOLEAN]
  /\ localTreasuryQueue \in [Instances -> Seq(Claims)]
  /\ lock \in Claims \cup {None}
  /\ txState \in [Claims -> TxStates]
  /\ nonce \in [Claims -> Nat]
  /\ pendingNonce \in Nat
  /\ minedNonce \in Nat
  /\ crashes \in Nat

Init ==
  /\ userId \in [Coupons -> Users \cup {None}]
  /\ redeemed = [c \in Coupons |-> FALSE]
  /\ redemptionTxHash = [c \in Coupons |-> None]
  /\ couponOf \in [Claims -> Coupons]
  /\ userOf \in [Claims -> Users]
  /\ instanceOf \in [Claims -> Instances]
  /\ pc = [k \in Claims |-> "lookup"]
  /\ outcome = [k \in Claims |-> "none"]
  /\ tries = [k \in Claims |-> 0]
  /\ noRecord = [k \in Claims |-> FALSE]
  /\ localTreasuryQueue = [i \in Instances |-> <<>>]
  /\ lock = None
  /\ txState = [k \in Claims |-> "none"]
  /\ nonce = [k \in Claims |-> 0]
  /\ pendingNonce = 0
  /\ minedNonce = 0
  /\ crashes = 0

Goto(k, label) == pc' = [pc EXCEPT ![k] = label]
End(k, result) == /\ Goto(k, "done")
                  /\ outcome' = [outcome EXCEPT ![k] = result]
\* withTreasuryLock's finally blocks: the result is known, the lock is not
\* released yet.  A result of "none" is a transaction to wait for.
Leave(k, result) == /\ Goto(k, "release")
                    /\ outcome' = [outcome EXCEPT ![k] = result]
Queue(k) == localTreasuryQueue[instanceOf[k]]
ReleaseLocalIfSent(k) == localTreasuryQueue' =
  IF pc[k] = "release" /\ outcome[k] = "none"
  THEN [localTreasuryQueue EXCEPT ![instanceOf[k]] = Tail(@)]
  ELSE localTreasuryQueue
ReleaseLocal(k) == localTreasuryQueue' =
  [localTreasuryQueue EXCEPT ![instanceOf[k]] = Tail(@)]

-----------------------------------------------------------------------------
(***************************************************************************)
(* claimCoupon, up to the queue.                                           *)
(***************************************************************************)

BelongsOrOrphan(c, u) == userId[c] \in {u, None}
BelongsTo(c, u) == userId[c] = u

\* The checks on what was read.  The first disjunct is also an unknown
\* user, a user without a wallet, or an unknown code.
Lookup(k) ==
  /\ pc[k] = "lookup"
  /\ LET c == couponOf[k]
     IN  \/ End(k, "rejected")
         \/ /\ ~redeemed[c]
            /\ BelongsTo(c, userOf[k])
            /\ Goto(k, "swap")
            /\ UNCHANGED outcome
  /\ UNCHANGED <<coupons, request, tries, noRecord, serialization, chain, crashes>>

\* The filter of the compare-and-swap; without it every update would match.
MatchesAny(c) == TRUE
MatchesUnredeemed(c) == ~redeemed[c]

\* findOneAndUpdate({_id, redeemed: false}, {redeemed: true}).
CompareAndSwap(k) ==
  /\ pc[k] = "swap"
  /\ LET c == couponOf[k]
     IN  \/ ~MatchesUnredeemed(c) /\ End(k, "rejected") /\ UNCHANGED redeemed
         \/ /\ MatchesUnredeemed(c)
            /\ redeemed' = [redeemed EXCEPT ![c] = TRUE]
            /\ \/ Goto(k, "enqueue") /\ UNCHANGED outcome
               \/ End(k, "error")    \* executed, the answer was lost
         \/ UNCHANGED redeemed /\ End(k, "error")
  /\ UNCHANGED <<userId, redemptionTxHash, request, tries, noRecord,
                 serialization, chain, crashes>>

\* The synchronous head of withTreasuryLock.
EnterLocalQueue(k) ==
  /\ pc[k] = "enqueue"
  /\ localTreasuryQueue' =
       [localTreasuryQueue EXCEPT ![instanceOf[k]] = Append(@, k)]
  /\ Goto(k, "acquire")
  /\ UNCHANGED <<coupons, request, outcome, tries, noRecord, lock, chain, crashes>>

-----------------------------------------------------------------------------
(***************************************************************************)
(* acquireDistributedTreasuryLock and releaseDistributedTreasuryLock.      *)
(***************************************************************************)

\* NX, and what a plain SET would do.
KeyIsIgnored == TRUE
KeyIsFree == lock = None

\* One SET NX PX.  A reported Redis error may hide a SET that was executed:
\* the key then stays until its TTL.
AcquireLock(k) ==
  /\ pc[k] = "acquire"
  /\ Queue(k) # <<>> /\ Head(Queue(k)) = k
  /\ \/ /\ KeyIsFree
        /\ lock' = k
        /\ tries' = [tries EXCEPT ![k] = 0]
        /\ Goto(k, "populate")
        /\ UNCHANGED localTreasuryQueue
     \/ /\ ~KeyIsFree
        /\ tries[k] + 1 < AcquireAttempts
        /\ tries' = [tries EXCEPT ![k] = @ + 1]
        /\ UNCHANGED <<pc, localTreasuryQueue, lock>>
     \/ \* the attempts are used up, or Redis reported an error
        /\ lock' = lock \/ (lock = None /\ lock' = k)
        /\ ReleaseLocal(k)
        /\ Goto(k, "giveBack")
        /\ UNCHANGED tries
  /\ UNCHANGED <<coupons, request, outcome, noRecord, chain, crashes>>

\* The TTL runs out.  Unless TtlMayElapse, the locked section is always
\* shorter than the TTL, so only a lock nobody works under expires.
LockExpires ==
  /\ lock # None
  /\ TtlMayElapse \/ pc[lock] \notin Section
  /\ lock' = None
  /\ UNCHANGED <<coupons, request, pc, outcome, tries, noRecord,
                 localTreasuryQueue, chain, crashes>>

PlainDelete(k) == None
CompareAndDelete(k) == IF lock = k THEN None ELSE lock

\* Compare-and-delete, or a Redis error that is logged and ignored; then
\* the process's own queue moves on.
ReleaseLock(k) ==
  /\ pc[k] = "release"
  /\ \/ lock' = CompareAndDelete(k)
     \/ lock' = lock
  /\ ReleaseLocal(k)
  /\ Goto(k, IF outcome[k] = "none" THEN "confirm" ELSE "done")
  /\ UNCHANGED <<coupons, request, outcome, tries, noRecord, chain, crashes>>

\* claimCoupon's catch of TreasuryLockUnavailableError.  As in the other two
\* rollbacks, the update is executed or not, and "error" is its own failure.
GiveBack(k) ==
  /\ pc[k] = "giveBack"
  /\ \/ /\ redeemed' = [redeemed EXCEPT ![couponOf[k]] = FALSE]
        /\ End(k, "retry") \/ End(k, "error")
     \/ redeemed' = redeemed /\ End(k, "error")
  /\ UNCHANGED <<userId, redemptionTxHash, request, tries, noRecord,
                 serialization, chain, crashes>>

-----------------------------------------------------------------------------
(***************************************************************************)
(* buildSignAndBroadcast.                                                  *)
(***************************************************************************)

\* getTransactionCount with the tags 'latest' and 'pending'.
LatestCount == minedNonce
TransactionCount == pendingNonce

\* Reads the pending nonce and signs.  Either part may fail.
BuildAndSign(k) ==
  /\ pc[k] = "populate"
  /\ \/ /\ nonce' = [nonce EXCEPT ![k] = TransactionCount]
        /\ txState' = [txState EXCEPT ![k] = "signed"]
        /\ Goto(k, "record")
     \/ Goto(k, "undoBuild") /\ UNCHANGED <<nonce, txState>>
  /\ UNCHANGED <<coupons, request, outcome, tries, noRecord, serialization,
                 pendingNonce, minedNonce, crashes>>

UndoBuild(k) ==
  /\ pc[k] = "undoBuild"
  /\ \/ /\ redeemed' = [redeemed EXCEPT ![couponOf[k]] = FALSE]
        /\ Leave(k, "retry") \/ Leave(k, "error")
     \/ redeemed' = redeemed /\ Leave(k, "error")
  /\ UNCHANGED <<userId, redemptionTxHash, request, tries, noRecord,
                 serialization, chain, crashes>>

\* A write error swallowed instead of thrown.
RecordHashUnchecked(k) ==
  /\ pc[k] = "record"
  /\ \/ redemptionTxHash' = [redemptionTxHash EXCEPT ![couponOf[k]] = k]
     \/ UNCHANGED redemptionTxHash
  /\ Goto(k, "broadcast")
  /\ UNCHANGED <<userId, redeemed, request, outcome, tries, noRecord,
                 serialization, chain, crashes>>

\* The hash is stored before the broadcast.  If the write is reported
\* failed the error leaves the locked section and nothing is sent.
RecordHash(k) ==
  /\ pc[k] = "record"
  /\ \/ /\ redemptionTxHash' = [redemptionTxHash EXCEPT ![couponOf[k]] = k]
        /\ \/ Goto(k, "broadcast") /\ UNCHANGED outcome
           \/ Leave(k, "error")
     \/ UNCHANGED redemptionTxHash /\ Leave(k, "error")
  /\ UNCHANGED <<userId, redeemed, request, tries, noRecord, serialization,
                 chain, crashes>>

\* The node takes a transaction whose nonce is the next one.  One whose
\* nonce is taken is refused, or replaces the waiting one.
Accept(k) ==
  \/ /\ nonce[k] = pendingNonce
     /\ pendingNonce' = pendingNonce + 1
     /\ txState' = [txState EXCEPT ![k] = "mempool"]
  \/ \E old \in Claims \ {k} :
       /\ txState[old] = "mempool" /\ nonce[old] = nonce[k]
       /\ txState' = [txState EXCEPT ![old] = "lost", ![k] = "mempool"]
       /\ UNCHANGED pendingNonce

Refuse(k) == /\ txState' = [txState EXCEPT ![k] = "lost"]
             /\ UNCHANGED pendingNonce

\* Where a failed broadcast leads; the wrong turn gives the coupon back unasked.
UndoAtOnce == "undoSend"
AfterFailedBroadcast == "verify"

\* sendTransaction: accepted and answered; or reported failed, the
\* transaction being accepted, lost, or still on its way.
Broadcast(k) ==
  /\ pc[k] = "broadcast"
  /\ \/ Accept(k) /\ Goto(k, "release")
     \/ Accept(k) /\ Goto(k, AfterFailedBroadcast)
     \/ Refuse(k) /\ Goto(k, AfterFailedBroadcast)
     \/ /\ LateArrival
        /\ txState' = [txState EXCEPT ![k] = "flight"]
        /\ Goto(k, AfterFailedBroadcast)
        /\ UNCHANGED pendingNonce
  /\ UNCHANGED <<coupons, request, outcome, tries, noRecord, serialization,
                 nonce, minedNonce, crashes>>

\* The verdict of the last round: FALSE to roll back, NULL to keep the coupon.
NotSeenMeansAbsent(absent) == TRUE
ProvenAbsent(absent) == absent

\* One round of wasTransactionBroadcast and the decision after it: the node
\* knows the transaction, has no record of it (NoSuchElementError), or could
\* not be asked.  Only the last round's kind of failure decides.
VerifyBroadcast(k) ==
  /\ pc[k] = "verify"
  /\ \/ /\ txState[k] \in OnChain
        /\ Leave(k, "error")
        /\ UNCHANGED <<tries, noRecord>>
     \/ \E absent \in BOOLEAN :
          /\ absent => txState[k] \notin OnChain
          /\ noRecord' = [noRecord EXCEPT ![k] = absent]
          /\ tries' = [tries EXCEPT ![k] = @ + 1]
          /\ IF tries[k] + 1 < VerifyAttempts THEN UNCHANGED <<pc, outcome>>
             ELSE IF ProvenAbsent(absent) THEN Goto(k, "undoSend") /\ UNCHANGED outcome
             ELSE Leave(k, "error")
  /\ UNCHANGED <<coupons, request, serialization, chain, crashes>>

UndoSend(k) ==
  /\ pc[k] = "undoSend"
  /\ \/ /\ redeemed' = [redeemed EXCEPT ![couponOf[k]] = FALSE]
        /\ redemptionTxHash' = [redemptionTxHash EXCEPT ![couponOf[k]] = None]
        /\ Leave(k, "retry") \/ Leave(k, "error")
     \/ UNCHANGED <<redeemed, redemptionTxHash>> /\ Leave(k, "error")
  /\ UNCHANGED <<userId, request, tries, noRecord, serialization, chain, crashes>>

\* waitForTransaction, outside the lock.
Confirm(k) ==
  /\ pc[k] = "confirm"
  /\ \/ txState[k] = "mined" /\ End(k, "paid")
     \/ End(k, "error")
  /\ UNCHANGED <<coupons, request, tries, noRecord, serialization, chain, crashes>>

-----------------------------------------------------------------------------
(***************************************************************************)
(* The surroundings: the chain, wallet registration, crashes.              *)
(***************************************************************************)

\* An update that writes the address where the user's id belongs.
LinkWallet(u, w) ==
  /\ userId' = [c \in Coupons |->
       IF PayerAddress[c] = w /\ userId[c] = None THEN w ELSE userId[c]]
  /\ UNCHANGED <<redeemed, redemptionTxHash, request, pc, outcome, tries,
                 noRecord, serialization, chain, crashes>>

\* linkOrphanedCoupons: one updateMany.
LinkOrphanedCoupons(u, w) ==
  /\ userId' = [c \in Coupons |->
       IF PayerAddress[c] = w /\ userId[c] = None THEN u ELSE userId[c]]
  /\ UNCHANGED <<redeemed, redemptionTxHash, request, pc, outcome, tries,
                 noRecord, serialization, chain, crashes>>

Mine(k) ==
  /\ txState[k] = "mempool"
  /\ nonce[k] = minedNonce
  /\ \E result \in {"mined", "reverted"} :
       txState' = [txState EXCEPT ![k] = result]
  /\ minedNonce' = minedNonce + 1
  /\ UNCHANGED <<coupons, request, pc, outcome, tries, noRecord,
                 serialization, nonce, pendingNonce, crashes>>

\* A transaction whose broadcast was reported failed gets through, or not.
Arrive(k) ==
  /\ txState[k] = "flight"
  /\ Accept(k) \/ Refuse(k)
  /\ UNCHANGED <<coupons, request, pc, outcome, tries, noRecord,
                 serialization, nonce, minedNonce, crashes>>

\* A process dies with its requests and its queue; Mongo, Redis and the
\* chain keep what they have.  A new process serves later requests.
Crash(i) ==
  LET dead == {k \in Claims : instanceOf[k] = i /\ pc[k] \notin {"lookup", "done"}}
  IN  /\ crashes < MaxCrashes
      /\ dead # {}
      /\ crashes' = crashes + 1
      /\ pc' = [k \in Claims |-> IF k \in dead THEN "done" ELSE pc[k]]
      /\ outcome' = [k \in Claims |-> IF k \in dead THEN "crashed" ELSE outcome[k]]
      /\ localTreasuryQueue' = [localTreasuryQueue EXCEPT ![i] = <<>>]
      /\ UNCHANGED <<coupons, request, tries, noRecord, lock, chain>>

ClaimStep(k) ==
  \/ Lookup(k) \/ CompareAndSwap(k) \/ EnterLocalQueue(k)
  \/ AcquireLock(k) \/ GiveBack(k) \/ BuildAndSign(k) \/ UndoBuild(k)
  \/ RecordHash(k) \/ Broadcast(k) \/ VerifyBroadcast(k) \/ UndoSend(k)
  \/ ReleaseLock(k) \/ Confirm(k)

Next ==
  \/ \E k \in Claims : ClaimStep(k) \/ Mine(k) \/ Arrive(k)
  \/ LockExpires
  \/ \E u \in Users, w \in Wallets : LinkOrphanedCoupons(u, w)
  \/ \E i \in Instances : Crash(i)

Spec == Init /\ [][Next]_vars

\* A request keeps running while its process lives, since each call it
\* awaits is answered or fails.  Nothing is assumed of the chain, of
\* registrations, of crashes, or of the expiry of a key that Redis holds.
Fairness == \A k \in Claims : WF_vars(ClaimStep(k))
FairSpec == Spec /\ Fairness

-----------------------------------------------------------------------------
(***************************************************************************)
(* Properties.                                                             *)
(***************************************************************************)

\* Between winning the compare-and-swap and settling the coupon a claim is
\* alone with it, so the rollbacks, which filter by _id only, never undo
\* another claim's work.
OneOwner == \A k \in Claims : pc[k] \in Owning =>
  /\ redeemed[couponOf[k]]
  /\ \A other \in Claims : 
       pc[other] \in Owning /\ couponOf[other] = couponOf[k] => other = k

Payouts(c) == {k \in Claims : couponOf[k] = c /\ txState[k] = "mined"}

\* No sequence of claims, retries, crashes and lost answers pays a coupon
\* twice.
PaidAtMostOnce == \A c \in Coupons : \A k1, k2 \in Payouts(c) : k1 = k2

\* Whatever reached the chain for a coupon is the transaction whose hash the
\* coupon holds, and the coupon is redeemed.  So a redeemed coupon without a
\* hash was never paid, and a coupon that can be claimed was not paid.
PayoutRecorded == \A k \in Claims : txState[k] \in OnChain =>
  /\ redeemed[couponOf[k]]
  /\ redemptionTxHash[couponOf[k]] = k

\* A transfer goes out only for a request of the user the coupon belongs to,
\* and registrations do not move it to someone else afterwards.
OwnerPaid == \A k \in Claims :
  txState[k] \in OnChain => userId[couponOf[k]] = userOf[k]

\* Two claims never both populate or sign before either has broadcast.
TreasuryExclusive == \A k1, k2 \in Claims :
  pc[k1] \in Section /\ pc[k2] \in Section => k1 = k2

\* A transfer the node has accepted is never displaced by a later one that
\* fetched the same pending nonce.
NoTransferDisplaced == [][\A k \in Claims :
  txState[k] \in OnChain => txState'[k] \in OnChain]_vars

\* "please retry" is said only when no transaction of this claim exists on
\* the chain, now or later: wasTransactionBroadcast says false when it is
\* "safe to treat as not sent".
RetryIsSafe == \A k \in Claims :
  outcome[k] = "retry" => txState[k] \notin OnChain

\* "redeemed: true guarantees redeemedAt and redemptionTxHash are non-null",
\* says findRedeemedByUser of the coupons it lists.
RedeemedHasHash == \A c \in Coupons : redeemed[c] => redemptionTxHash[c] # None

\* The Redis key leaves a claim's hands by its own release or by the TTL:
\* a lock that expired and was taken again is not deleted from under its
\* new holder.
LockReleasedByHolder == [][
  lock' # lock => \/ lock = None
                  \/ LockExpires
                  \/ pc[lock] = "release" /\ pc'[lock] # "release"]_vars

\* A request that was read ends, whatever the other claims, crashes and the
\* queue in front of it do, and also when a process died with the lock and
\* the key stays.
ClaimEnds == \A k \in Claims : pc[k] # "lookup" ~> pc[k] = "done"

\* Redeeming implements the ledger.
Ledger == INSTANCE CouponLedger WITH
  Transfers <- Claims,
  reserved <- {c \in Coupons : redeemed[c]},
  payouts <- [c \in Coupons |-> Payouts(c)]
ImplementsLedger == Ledger!LedgerSpec
=============================================================================
