--------------------------- MODULE CouponIssuance ---------------------------
(***************************************************************************)
(* From a payment seen on the chain to a coupon that has an owner: the     *)
(* Redis stream consumer, the Bull queue and its processor                 *)
(* (apps/backend/src/modules/indexer), and the registration of a wallet    *)
(* address, which adopts coupons issued before it (apps/backend/src/       *)
(* wallets, users, coupons).                                               *)
(*                                                                         *)
(* Every backend process runs one consumer loop and one queue worker.  An  *)
(* `await` ends a step.  A call to Mongo or Redis may be executed and      *)
(* still be reported failed.                                               *)
(***************************************************************************)
EXTENDS Naturals, FiniteSets

CONSTANTS
  Messages,      \* entries of the Redis stream, one per transaction seen
  Carries,       \* the transfers grouped in a message
  Transfers,
  TxOf,          \* a transfer's transaction hash
  PayerOf,       \* a transfer's sender
  ToMerchant,    \* transfers to a configured merchant
  AboveFloor,    \* transfers that reach minPayoutUsdtRaw
  Wallets,
  Users,
  Devices,       \* installations of the app; each has one user and one wallet
  UserOf, WalletOf,
  Instances,     \* backend processes
  None,          \* null
  MaxStalledCount, \* how often Bull gives a stalled job to another worker
  MaxErrors,     \* bounds on the failed calls and on the crashes of a
  MaxCrashes     \* behaviour

Txs == {TxOf[e] : e \in Transfers}
\* A job is a transfer of a message; a message seen again makes new jobs.
Jobs == {j \in Messages \X Transfers : j[2] \in Carries[j[1]]}

ASSUME IssuanceAssumption ==
  /\ Carries \in [Messages -> SUBSET Transfers]
  /\ PayerOf \in [Transfers -> Wallets]
  /\ DOMAIN TxOf = Transfers
  /\ ToMerchant \subseteq Transfers /\ AboveFloor \subseteq Transfers
  /\ UserOf \in [Devices -> Users]
  /\ WalletOf \in [Devices -> Wallets]
  /\ None \notin Users \cup Wallets \cup Instances \cup Jobs
  /\ MaxStalledCount \in Nat
  /\ MaxErrors \in Nat /\ MaxCrashes \in Nat

VARIABLES
  \* the stream, and our consumer group on it
  unpublished, stream, group,
  \* each process's consumer loop, and its worker: the job, where it is and
  \* the user it read
  phase, batch, worker,
  \* Bull's record of each job: its state, who has its lock, its stalls
  job, holder, stalls,
  \* the coupons collection, by transaction hash
  copies, payer, owner,
  \* the users collection, who ever held which wallet, registrations
  wallet, held, registration,
  errors, crashes

streamVars == <<unpublished, stream, group>>
consumerVars == <<phase, batch>>
queueVars == <<job, holder, stalls>>
bounds == <<errors, crashes>>
coupons == <<copies, payer, owner>>
users == <<wallet, held, registration>>
vars == <<streamVars, consumerVars, worker, queueVars, coupons, users, bounds>>

Idle == [job |-> None, step |-> "idle", user |-> None]
Runs == {Idle} \cup
  [job : Jobs, step : {"find", "create", "complete", "fail"}, user : Users \cup {None}]

TypeOK ==
  /\ unpublished \subseteq Messages /\ stream \subseteq Messages
  /\ group \in BOOLEAN
  /\ phase \in [Instances -> {"boot", "read", "enqueue"}]
  /\ batch \in [Instances -> SUBSET Jobs]
  /\ worker \in [Instances -> Runs]
  /\ job \in [Jobs -> {"none", "waiting", "active", "completed", "failed"}]
  /\ holder \in [Jobs -> Instances \cup {None}]
  /\ stalls \in [Jobs -> 0..MaxStalledCount]
  /\ copies \in [Txs -> Nat]
  /\ payer \in [Txs -> Wallets \cup {None}]
  /\ owner \in [Txs -> Users \cup {None}]
  /\ wallet \in [Users -> Wallets \cup {None}]
  /\ held \subseteq Users \X Wallets
  /\ registration \in [Devices -> {"idle", "update", "link"}]
  /\ errors \in 0..MaxErrors /\ crashes \in 0..MaxCrashes

Init ==
  /\ unpublished = Messages /\ stream = {} /\ group = FALSE
  /\ phase = [i \in Instances |-> "boot"]
  /\ batch = [i \in Instances |-> {}]
  /\ worker = [i \in Instances |-> Idle]
  /\ job = [j \in Jobs |-> "none"]
  /\ holder = [j \in Jobs |-> None]
  /\ stalls = [j \in Jobs |-> 0]
  /\ copies = [t \in Txs |-> 0]
  /\ payer = [t \in Txs |-> None]
  /\ owner = [t \in Txs |-> None]
  /\ wallet = [u \in Users |-> None]
  /\ held = {}
  /\ registration = [d \in Devices |-> "idle"]
  /\ errors = 0 /\ crashes = 0

\* A call is answered, or reported failed.
Answered == UNCHANGED bounds
Failed == errors < MaxErrors /\ errors' = errors + 1 /\ UNCHANGED crashes

-----------------------------------------------------------------------------
(***************************************************************************)
(* The stream and the consumer loop.                                       *)
(***************************************************************************)

\* The indexer appends a message; indexer-processor deletes it, for every
\* consumer group, once it has processed it itself.
Publish(m) ==
  /\ m \in unpublished
  /\ unpublished' = unpublished \ {m}
  /\ stream' = stream \cup {m}
  /\ UNCHANGED <<group, consumerVars, worker, queueVars, coupons, users, bounds>>

DeletedByIndexer(m) ==
  /\ m \in stream
  /\ stream' = stream \ {m}
  /\ UNCHANGED <<unpublished, group, consumerVars, worker, queueVars, coupons,
                 users, bounds>>

\* XGROUP CREATE at "$": what was in the stream before is not delivered.  A
\* failure is logged, and not tried again before the next boot.
EnsureConsumerGroup(i) ==
  /\ phase[i] = "boot"
  /\ phase' = [phase EXCEPT ![i] = "read"]
  /\ \/ /\ group' = TRUE
        /\ stream' = IF group THEN stream ELSE {}
        /\ Answered
     \/ UNCHANGED <<group, stream>> /\ Failed
  /\ UNCHANGED <<unpublished, batch, worker, queueVars, coupons, users>>

\* Reading without the group's cursor, and with it.
KeepsDelivered(delivered) == stream
DropsDelivered(delivered) == stream \ delivered

\* One XREADGROUP and its XACK.  Entries delivered to a consumer are never
\* asked for again, whether or not they were acknowledged, so an answer that
\* is lost takes them with it.
Read(i) ==
  /\ phase[i] = "read" /\ group /\ stream # {}
  /\ stream' = DropsDelivered(stream)
  /\ \/ LET new == {j \in Jobs : j[1] \in stream /\ j[2] \in ToMerchant}
        IN  /\ batch' = [batch EXCEPT ![i] = new]
            /\ phase' = [phase EXCEPT ![i] = IF new = {} THEN "read" ELSE "enqueue"]
            /\ Answered
     \/ UNCHANGED consumerVars /\ Failed
  /\ UNCHANGED <<unpublished, group, worker, queueVars, coupons, users>>

\* One queue.add.  When it is reported failed, the rest of the batch is gone.
Enqueue(i) ==
  /\ phase[i] = "enqueue"
  /\ \E j \in batch[i] :
       \/ /\ job' = [job EXCEPT ![j] = "waiting"]
          /\ batch' = [batch EXCEPT ![i] = @ \ {j}]
          /\ phase' = [phase EXCEPT ![i] = IF batch[i] = {j} THEN "read" ELSE @]
          /\ Answered
       \/ /\ job' = job \/ job' = [job EXCEPT ![j] = "waiting"]
          /\ batch' = [batch EXCEPT ![i] = {}]
          /\ phase' = [phase EXCEPT ![i] = "read"]
          /\ Failed
  /\ UNCHANGED <<streamVars, worker, holder, stalls, coupons, users>>

-----------------------------------------------------------------------------
(***************************************************************************)
(* The queue and the processor.  Bull is not configured, so it has its     *)
(* defaults: one job at a time for a worker, one attempt for a job.        *)
(***************************************************************************)
Step(i, s) == worker' = [worker EXCEPT ![i].step = s]

Take(i, j) ==
  /\ worker[i] = Idle /\ job[j] = "waiting"
  /\ worker' = [worker EXCEPT ![i] = [job |-> j, step |-> "find", user |-> None]]
  /\ job' = [job EXCEPT ![j] = "active"]
  /\ holder' = [holder EXCEPT ![j] = i]
  /\ UNCHANGED <<streamVars, consumerVars, stalls, coupons, users, bounds>>

EarnsCoupon(e) == e \in ToMerchant /\ e \in AboveFloor

\* A sender nobody registered: drop the payment, or issue an orphan.
DropIfUnknown == "complete"
IssueIfUnknown == "create"

\* The checks of handle, then findByWalletAddress.
FindPayer(i) ==
  /\ worker[i].step = "find"
  /\ LET e == worker[i].job[2]
         holders == {u \in Users : wallet[u] = PayerOf[e]}
     IN  \/ ~EarnsCoupon(e) /\ Step(i, "complete") /\ Answered
         \/ /\ EarnsCoupon(e) /\ Answered
            /\ IF holders = {} THEN Step(i, IssueIfUnknown)
               ELSE \E u \in holders :
                 worker' = [worker EXCEPT ![i].step = "create", ![i].user = u]
         \/ EarnsCoupon(e) /\ Step(i, "fail") /\ Failed
  /\ UNCHANGED <<streamVars, consumerVars, queueVars, coupons, users>>

\* The unique index on txHash, and a collection without it.
NotIndexed(t) == TRUE
IsFirst(t) == copies[t] = 0

\* The sender's address written where its user's id belongs.
InsertSender(t, e, u) ==
  /\ copies' = [copies EXCEPT ![t] = @ + 1]
  /\ payer' = [payer EXCEPT ![t] = PayerOf[e]]
  /\ owner' = [owner EXCEPT ![t] = PayerOf[e]]

Insert(t, e, u) ==
  /\ copies' = [copies EXCEPT ![t] = @ + 1]
  /\ payer' = [payer EXCEPT ![t] = PayerOf[e]]
  /\ owner' = [owner EXCEPT ![t] = u]

\* couponModel.create with the user read before; a duplicate is skipped, any
\* other error is thrown.
CreateCoupon(i) ==
  /\ worker[i].step = "create"
  /\ LET e == worker[i].job[2]
         t == TxOf[e]
     IN  \/ IsFirst(t) /\ Insert(t, e, worker[i].user) /\ Step(i, "complete") /\ Answered
         \/ ~IsFirst(t) /\ UNCHANGED coupons /\ Step(i, "complete") /\ Answered
         \/ IsFirst(t) /\ Insert(t, e, worker[i].user) /\ Step(i, "fail") /\ Failed
         \/ UNCHANGED coupons /\ Step(i, "fail") /\ Failed
  /\ UNCHANGED <<streamVars, consumerVars, queueVars, users>>

\* Bull records the end of a run, unless the job's lock has gone to another.
Settle(i) ==
  /\ worker[i].step \in {"complete", "fail"}
  /\ LET j == worker[i].job
         end == IF worker[i].step = "complete" THEN "completed" ELSE "failed"
     IN  job' = IF holder[j] = i THEN [job EXCEPT ![j] = end] ELSE job
  /\ worker' = [worker EXCEPT ![i] = Idle]
  /\ UNCHANGED <<streamVars, consumerVars, holder, stalls, coupons, users, bounds>>

\* A job whose lock was not renewed, because its process is dead or only too
\* busy, goes back to the queue; stalled too often, it fails.
Abandoned(j) == job[j] = "active" /\ worker[holder[j]].job # j
Stall(j) ==
  /\ job[j] = "active"
  /\ IF stalls[j] < MaxStalledCount
     THEN /\ job' = [job EXCEPT ![j] = "waiting"]
          /\ stalls' = [stalls EXCEPT ![j] = @ + 1]
     ELSE job' = [job EXCEPT ![j] = "failed"] /\ UNCHANGED stalls
  /\ holder' = [holder EXCEPT ![j] = None]
  /\ UNCHANGED <<streamVars, consumerVars, worker, coupons, users, bounds>>

\* A process dies and is started again; its batch is lost, its job stalls.
Crash(i) ==
  /\ crashes < MaxCrashes /\ crashes' = crashes + 1
  /\ phase' = [phase EXCEPT ![i] = "boot"]
  /\ batch' = [batch EXCEPT ![i] = {}]
  /\ worker' = [worker EXCEPT ![i] = Idle]
  /\ UNCHANGED <<streamVars, queueVars, coupons, users, errors>>

-----------------------------------------------------------------------------
(***************************************************************************)
(* PUT /wallets/address: registerAddress.                                  *)
(***************************************************************************)
LinkFirst == "link"
FindOrCreateFirst == "update"

\* The app registers its address whenever it is opened.
Register(d) ==
  /\ registration[d] = "idle"
  /\ registration' = [registration EXCEPT ![d] = FindOrCreateFirst]
  /\ UNCHANGED <<streamVars, consumerVars, worker, queueVars, coupons, wallet,
                 held, bounds>>

\* The unique index on walletAddress.
IsTaken(d) == \E u \in Users \ {UserOf[d]} : wallet[u] = WalletOf[d]

\* Linking only on a change of address, and always.
LinkIfChanged(d) == IF wallet[UserOf[d]] = WalletOf[d] THEN "idle" ELSE "link"
LinkAlways(d) == "link"

UpdateWalletAddress(d) ==
  /\ registration[d] = "update"
  /\ LET written == /\ wallet' = [wallet EXCEPT ![UserOf[d]] = WalletOf[d]]
                    /\ held' = held \cup {<<UserOf[d], WalletOf[d]>>}
         then(s) == registration' = [registration EXCEPT ![d] = s]
     IN  \/ IsTaken(d) /\ UNCHANGED <<wallet, held>> /\ then("idle") /\ Answered
         \/ ~IsTaken(d) /\ written /\ then(LinkAlways(d)) /\ Answered
         \/ ~IsTaken(d) /\ written /\ then("idle") /\ Failed
         \/ UNCHANGED <<wallet, held>> /\ then("idle") /\ Failed
  /\ UNCHANGED <<streamVars, consumerVars, worker, queueVars, coupons>>

\* The filter of linkOrphanedCoupons, without and with `userId: null`.
PaidFrom(t, w) == payer[t] = w
IsOrphanOf(t, w) == payer[t] = w /\ owner[t] = None

LinkOrphanedCoupons(d) ==
  /\ registration[d] = "link"
  /\ registration' = [registration EXCEPT ![d] = "idle"]
  /\ LET linked == [t \in Txs |->
           IF IsOrphanOf(t, WalletOf[d]) THEN UserOf[d] ELSE owner[t]]
     IN  \/ owner' = linked /\ Answered
         \/ (owner' = linked \/ owner' = owner) /\ Failed
  /\ UNCHANGED <<streamVars, consumerVars, worker, queueVars, copies, payer,
                 wallet, held>>

-----------------------------------------------------------------------------
ConsumerStep(i) == EnsureConsumerGroup(i) \/ Read(i) \/ Enqueue(i)
RunStep(i) == FindPayer(i) \/ CreateCoupon(i) \/ Settle(i)
DeviceStep(d) == Register(d) \/ UpdateWalletAddress(d) \/ LinkOrphanedCoupons(d)

Next ==
  \/ \E m \in Messages : Publish(m) \/ DeletedByIndexer(m)
  \/ \E i \in Instances : ConsumerStep(i) \/ RunStep(i) \/ Crash(i)
  \/ \E i \in Instances, j \in Jobs : Take(i, j)
  \/ \E j \in Jobs : Stall(j)
  \/ \E d \in Devices : DeviceStep(d)

Spec == Init /\ [][Next]_vars

\* Processes run, Bull hands out waiting jobs and reclaims abandoned ones,
\* and the app is opened again and again.  Nothing is assumed of the stream.
Fairness ==
  /\ \A i \in Instances : WF_vars(ConsumerStep(i)) /\ WF_vars(RunStep(i))
  /\ \A j \in Jobs : /\ WF_vars(\E i \in Instances : Take(i, j))
                     /\ WF_vars(Abandoned(j) /\ Stall(j))
  /\ \A d \in Devices : WF_vars(DeviceStep(d))
FairSpec == Spec /\ Fairness

-----------------------------------------------------------------------------
(***************************************************************************)
(* Properties.                                                             *)
(***************************************************************************)

\* One coupon per transaction, although a job may run twice at once, a
\* transaction may carry several transfers and a failed insert may have been
\* executed.
OneCouponPerTx == \A t \in Txs : copies[t] <= 1

\* What a consumer is about to enqueue was not enqueued before and is in no
\* other process's hands.
BatchesAreFresh == \A i \in Instances : \A j \in batch[i] :
  /\ job[j] = "none"
  /\ \A other \in Instances \ {i} : j \notin batch[other]

\* A coupon belongs to nobody but a user who had registered the wallet that
\* paid, however registrations and the processor's stale read interleave.
OwnerHeldPayer == \A t \in Txs :
  owner[t] # None => <<owner[t], payer[t]>> \in held

\* A coupon that has an owner keeps it, also when the wallet changes hands.
OwnerIsKept == [][\A t \in Txs : owner[t] # None => owner'[t] = owner[t]]_vars

\* A coupon issued as an orphan, because its payer registered between the
\* processor's read and its insert, is adopted by a later registration.
OrphansAreAdopted == \A d \in Devices, t \in Txs :
  (/\ payer[t] = WalletOf[d]
   /\ wallet[UserOf[d]] = WalletOf[d])
    ~> (owner[t] # None \/ wallet[UserOf[d]] # WalletOf[d])

\* A run of the job failed, or it stalled once more than Bull allows.
GivenUp(j) == job[j] = "failed" /\ (errors > 0 \/ stalls[j] = MaxStalledCount)

\* A transfer that reached the queue gets its transaction a coupon, although
\* workers stall, processes crash and the job runs again, or twice at once.
\* Only a call that failed, or MaxStalledCount + 1 stalls, can prevent it, and
\* then Bull has the job among the failed: none is lost, and none ends as
\* completed without its coupon.
QueuedIsIssuedOrFailed == \A j \in Jobs :
  (job[j] # "none" /\ EarnsCoupon(j[2])) ~> (copies[TxOf[j[2]]] > 0 \/ GivenUp(j))

\* A transfer that reached the queue gets its transaction a coupon.  The
\* README of the backend says that this survives unexpected errors, which
\* "are rethrown so Bull retries with backoff".
QueuedIsIssued == \A j \in Jobs :
  (job[j] # "none" /\ EarnsCoupon(j[2])) ~> copies[TxOf[j[2]]] > 0
=============================================================================
