------------------------ MODULE CouponIssuanceProofs ------------------------
(***************************************************************************)
(* Proofs about CouponIssuance, for every number of messages, transfers,   *)
(* processes, users, devices, failed calls and crashes.                    *)
(***************************************************************************)
EXTENDS CouponIssuance, TLAPS

-----------------------------------------------------------------------------
(***************************************************************************)
(* Type correctness.                                                       *)
(***************************************************************************)
Steps == {"find", "create", "complete", "fail"}

\* What a job carries is a transfer with a sender and a transaction.
LEMMA JobParts ==
  ASSUME NEW j \in Jobs
  PROVE  /\ j[1] \in Messages /\ j[2] \in Transfers
         /\ PayerOf[j[2]] \in Wallets /\ TxOf[j[2]] \in Txs
  BY IssuanceAssumption DEF Jobs, Txs

\* A worker that is not idle has a job and perhaps a user.
LEMMA RunParts ==
  ASSUME TypeOK, NEW i \in Instances, worker[i].step \in Steps
  PROVE  /\ worker[i] \in [job : Jobs, step : Steps, user : Users \cup {None}]
         /\ worker[i].job \in Jobs /\ worker[i].user \in Users \cup {None}
  BY DEF TypeOK, Runs, Idle, Steps

\* Moving a run to another step leaves a run.
LEMMA StepType ==
  ASSUME TypeOK, NEW i \in Instances, worker[i].step \in Steps,
         NEW s \in Steps, Step(i, s)
  PROVE  worker' \in [Instances -> Runs]
<1>1. [worker[i] EXCEPT !.step = s] \in Runs
  BY RunParts DEF Runs, Steps
<1>2. worker' = [worker EXCEPT ![i] = [worker[i] EXCEPT !.step = s]]
  BY DEF Step
<1>3. QED  BY <1>1, <1>2 DEF TypeOK

\* Counting an error or a crash stays within the bounds.
LEMMA BoundsType ==
  ASSUME TypeOK, Answered \/ Failed
  PROVE  errors' \in 0..MaxErrors /\ crashes' \in 0..MaxCrashes
  BY IssuanceAssumption DEF TypeOK, Answered, Failed, bounds

\* Every step keeps the types.
LEMMA NextTypeOK == TypeOK /\ [Next]_vars => TypeOK'
<1>. SUFFICES ASSUME TypeOK, [Next]_vars PROVE TypeOK'
  OBVIOUS
<1>. USE DEF streamVars, consumerVars, queueVars, coupons, users, bounds
<1>1. ASSUME NEW m \in Messages, Publish(m) \/ DeletedByIndexer(m) PROVE TypeOK'
  BY <1>1 DEF Publish, DeletedByIndexer, TypeOK
<1>2. ASSUME NEW i \in Instances, EnsureConsumerGroup(i) PROVE TypeOK'
  <2>1. errors' \in 0..MaxErrors /\ crashes' \in 0..MaxCrashes
    BY <1>2, BoundsType DEF EnsureConsumerGroup
  <2>2. QED  BY <1>2, <2>1 DEF EnsureConsumerGroup, TypeOK
<1>3. ASSUME NEW i \in Instances, Read(i) PROVE TypeOK'
  <2>1. errors' \in 0..MaxErrors /\ crashes' \in 0..MaxCrashes
    BY <1>3, BoundsType DEF Read
  <2>2. phase' \in [Instances -> {"boot", "read", "enqueue"}]
    BY <1>3 DEF Read, TypeOK
  <2>3. batch' \in [Instances -> SUBSET Jobs]
    BY <1>3 DEF Read, TypeOK
  <2>4. stream' \subseteq Messages
    BY <1>3 DEF Read, DropsDelivered, TypeOK
  <2>5. QED  BY <1>3, <2>1, <2>2, <2>3, <2>4 DEF Read, TypeOK
<1>4. ASSUME NEW i \in Instances, Enqueue(i) PROVE TypeOK'
  <2>1. errors' \in 0..MaxErrors /\ crashes' \in 0..MaxCrashes
    BY <1>4, BoundsType DEF Enqueue
  <2>2. phase' \in [Instances -> {"boot", "read", "enqueue"}]
    BY <1>4 DEF Enqueue, TypeOK
  <2>3. batch' \in [Instances -> SUBSET Jobs]
    BY <1>4 DEF Enqueue, TypeOK
  <2>4. job' \in [Jobs -> {"none", "waiting", "active", "completed", "failed"}]
    BY <1>4 DEF Enqueue, TypeOK
  <2>5. QED  BY <1>4, <2>1, <2>2, <2>3, <2>4 DEF Enqueue, TypeOK
<1>5. ASSUME NEW i \in Instances, NEW j \in Jobs, Take(i, j) PROVE TypeOK'
  <2>1. [job |-> j, step |-> "find", user |-> None] \in Runs
    BY DEF Runs
  <2>2. worker' \in [Instances -> Runs]
    BY <1>5, <2>1 DEF Take, TypeOK
  <2>3. QED  BY <1>5, <2>2 DEF Take, TypeOK
<1>6. ASSUME NEW i \in Instances, FindPayer(i) PROVE TypeOK'
  <2>1. errors' \in 0..MaxErrors /\ crashes' \in 0..MaxCrashes
    BY <1>6, BoundsType DEF FindPayer
  <2>2. worker[i].step \in Steps
    BY <1>6 DEF FindPayer, Steps
  <2>3. worker' \in [Instances -> Runs]
    <3>1. CASE \E s \in Steps : Step(i, s)
      BY <2>2, <3>1, StepType
    <3>2. ASSUME NEW u \in Users,
                 worker' = [worker EXCEPT ![i].step = "create", ![i].user = u]
          PROVE  worker' \in [Instances -> Runs]
      <4>1. [worker[i] EXCEPT !.step = "create", !.user = u] \in Runs
        BY <2>2, RunParts DEF Runs, Steps
      <4>2. worker' =
              [worker EXCEPT ![i] = [worker[i] EXCEPT !.step = "create", !.user = u]]
        BY <3>2 DEF TypeOK
      <4>3. QED  BY <4>1, <4>2 DEF TypeOK
    <3>3. QED  BY <1>6, <3>1, <3>2 DEF FindPayer, IssueIfUnknown, Steps
  <2>4. QED  BY <1>6, <2>1, <2>3 DEF FindPayer, TypeOK
<1>7. ASSUME NEW i \in Instances, CreateCoupon(i) PROVE TypeOK'
  <2>. DEFINE e == worker[i].job[2]
  <2>1. errors' \in 0..MaxErrors /\ crashes' \in 0..MaxCrashes
    BY <1>7, BoundsType DEF CreateCoupon
  <2>2. worker[i].step \in Steps
    BY <1>7 DEF CreateCoupon, Steps
  <2>3. worker' \in [Instances -> Runs]
    BY <1>7, <2>2, StepType DEF CreateCoupon, Steps
  <2>4. PayerOf[e] \in Wallets /\ TxOf[e] \in Txs /\ worker[i].user \in Users \cup {None}
    BY <2>2, RunParts, JobParts
  <2>5. UNCHANGED coupons \/ Insert(TxOf[e], e, worker[i].user)
    BY <1>7 DEF CreateCoupon
  <2>6. /\ copies' \in [Txs -> Nat]
        /\ payer' \in [Txs -> Wallets \cup {None}]
        /\ owner' \in [Txs -> Users \cup {None}]
    BY <2>4, <2>5 DEF Insert, TypeOK
  <2>7. QED  BY <1>7, <2>1, <2>3, <2>6 DEF CreateCoupon, TypeOK
<1>8. ASSUME NEW i \in Instances, Settle(i) PROVE TypeOK'
  <2>1. worker' \in [Instances -> Runs]
    BY <1>8 DEF Settle, Runs, TypeOK
  <2>2. job' \in [Jobs -> {"none", "waiting", "active", "completed", "failed"}]
    BY <1>8 DEF Settle, TypeOK
  <2>3. QED  BY <1>8, <2>1, <2>2 DEF Settle, TypeOK
<1>9. ASSUME NEW i \in Instances, Crash(i) PROVE TypeOK'
  <2>1. worker' \in [Instances -> Runs]
    BY <1>9 DEF Crash, Runs, TypeOK
  <2>2. crashes' \in 0..MaxCrashes
    BY <1>9, IssuanceAssumption DEF Crash, TypeOK
  <2>3. QED  BY <1>9, <2>1, <2>2 DEF Crash, TypeOK
<1>10. ASSUME NEW j \in Jobs, Stall(j) PROVE TypeOK'
  <2>1. stalls' \in [Jobs -> 0..MaxStalledCount]
    BY <1>10, IssuanceAssumption DEF Stall, TypeOK
  <2>2. job' \in [Jobs -> {"none", "waiting", "active", "completed", "failed"}]
    BY <1>10 DEF Stall, TypeOK
  <2>3. QED  BY <1>10, <2>1, <2>2 DEF Stall, TypeOK
<1>11. ASSUME NEW d \in Devices, Register(d) PROVE TypeOK'
  BY <1>11 DEF Register, FindOrCreateFirst, TypeOK
<1>12. ASSUME NEW d \in Devices, UpdateWalletAddress(d) PROVE TypeOK'
  <2>1. errors' \in 0..MaxErrors /\ crashes' \in 0..MaxCrashes
    BY <1>12, BoundsType DEF UpdateWalletAddress
  <2>2. UserOf[d] \in Users /\ WalletOf[d] \in Wallets
    BY IssuanceAssumption
  <2>3. wallet' \in [Users -> Wallets \cup {None}] /\ held' \subseteq Users \X Wallets
    BY <1>12, <2>2 DEF UpdateWalletAddress, TypeOK
  <2>4. registration' \in [Devices -> {"idle", "update", "link"}]
    BY <1>12 DEF UpdateWalletAddress, LinkAlways, TypeOK
  <2>5. QED  BY <1>12, <2>1, <2>3, <2>4 DEF UpdateWalletAddress, TypeOK
<1>13. ASSUME NEW d \in Devices, LinkOrphanedCoupons(d) PROVE TypeOK'
  <2>1. errors' \in 0..MaxErrors /\ crashes' \in 0..MaxCrashes
    BY <1>13, BoundsType DEF LinkOrphanedCoupons
  <2>2. owner' \in [Txs -> Users \cup {None}]
    <3>. DEFINE linked == [t \in Txs |->
                  IF IsOrphanOf(t, WalletOf[d]) THEN UserOf[d] ELSE owner[t]]
    <3>1. UserOf[d] \in Users /\ owner \in [Txs -> Users \cup {None}]
      BY IssuanceAssumption DEF TypeOK
    <3>2. linked \in [Txs -> Users \cup {None}]
      BY <3>1
    <3>3. owner' = linked \/ owner' = owner
      BY <1>13 DEF LinkOrphanedCoupons
    <3>4. QED  BY <3>1, <3>2, <3>3
  <2>3. QED  BY <1>13, <2>1, <2>2 DEF LinkOrphanedCoupons, TypeOK
<1>14. CASE UNCHANGED vars
  BY <1>14 DEF vars, TypeOK
<1>15. QED
  BY <1>1, <1>2, <1>3, <1>4, <1>5, <1>6, <1>7, <1>8, <1>9, <1>10, <1>11, <1>12,
     <1>13, <1>14 DEF Next, ConsumerStep, RunStep, DeviceStep

\* No sequence of steps takes a variable out of its declared set.
THEOREM TypeCorrect == Spec => []TypeOK
<1>1. ASSUME Init PROVE TypeOK
  <2>1. worker \in [Instances -> Runs]
    BY <1>1 DEF Init, Runs
  <2>2. errors \in 0..MaxErrors /\ crashes \in 0..MaxCrashes
    BY <1>1, IssuanceAssumption DEF Init
  <2>3. stalls \in [Jobs -> 0..MaxStalledCount]
    BY <1>1, IssuanceAssumption DEF Init
  <2>4. QED  BY <1>1, <2>1, <2>2, <2>3 DEF Init, TypeOK
<1>2. QED  BY <1>1, NextTypeOK, PTL DEF Spec

-----------------------------------------------------------------------------
(***************************************************************************)
(* Who owns a coupon.  What a registration or a run of the processor has   *)
(* read may be stale when it writes; it stays true that the user held the  *)
(* wallet, and that is what the invariant carries from the read to the     *)
(* write.                                                                  *)
(***************************************************************************)
WalletIsHeld == \A u \in Users : wallet[u] # None => <<u, wallet[u]>> \in held
LinkerHeld == \A d \in Devices :
  registration[d] = "link" => <<UserOf[d], WalletOf[d]>> \in held
ReadIsHeld == \A i \in Instances :
  worker[i].step \in Steps /\ worker[i].user # None
    => <<worker[i].user, PayerOf[worker[i].job[2]]>> \in held
NothingBeforeInsert == \A t \in Txs :
  copies[t] = 0 => payer[t] = None /\ owner[t] = None

OwnerInv ==
  /\ WalletIsHeld
  /\ LinkerHeld
  /\ ReadIsHeld
  /\ NothingBeforeInsert
  /\ OneCouponPerTx
  /\ OwnerHeldPayer

\* A step writes no coupon, inserts the first coupon of a transaction for a
\* run, or gives the orphans of a device's wallet to its user.
CouponsKept == UNCHANGED coupons
Inserts(i) ==
  LET e == worker[i].job[2]
  IN  /\ worker[i].step = "create"
      /\ copies[TxOf[e]] = 0
      /\ Insert(TxOf[e], e, worker[i].user)
Adopts(d) ==
  /\ registration[d] = "link"
  /\ UNCHANGED <<copies, payer>>
  /\ owner' = [t \in Txs |->
       IF payer[t] = WalletOf[d] /\ owner[t] = None THEN UserOf[d] ELSE owner[t]]

\* Those are all the writes of a coupon.
LEMMA CouponShapes ==
  ASSUME TypeOK, [Next]_vars
  PROVE  \/ CouponsKept
         \/ \E i \in Instances : Inserts(i)
         \/ \E d \in Devices : Adopts(d)
<1>. USE DEF CouponsKept, coupons
<1>1. ASSUME NEW m \in Messages, Publish(m) \/ DeletedByIndexer(m) PROVE CouponsKept
  BY <1>1 DEF Publish, DeletedByIndexer
<1>2. ASSUME NEW i \in Instances, ConsumerStep(i) \/ Crash(i) PROVE CouponsKept
  BY <1>2 DEF ConsumerStep, EnsureConsumerGroup, Read, Enqueue, Crash
<1>3. ASSUME NEW i \in Instances, FindPayer(i) \/ Settle(i) PROVE CouponsKept
  BY <1>3 DEF FindPayer, Settle
<1>4. ASSUME NEW i \in Instances, CreateCoupon(i) PROVE CouponsKept \/ Inserts(i)
  BY <1>4 DEF CreateCoupon, IsFirst, Inserts
<1>5. ASSUME NEW i \in Instances, NEW j \in Jobs, Take(i, j) PROVE CouponsKept
  BY <1>5 DEF Take
<1>6. ASSUME NEW j \in Jobs, Stall(j) PROVE CouponsKept
  BY <1>6 DEF Stall
<1>7. ASSUME NEW d \in Devices, Register(d) \/ UpdateWalletAddress(d)
      PROVE  CouponsKept
  BY <1>7 DEF Register, UpdateWalletAddress
<1>8. ASSUME NEW d \in Devices, LinkOrphanedCoupons(d) PROVE CouponsKept \/ Adopts(d)
  BY <1>8 DEF LinkOrphanedCoupons, IsOrphanOf, Adopts
<1>9. CASE UNCHANGED vars
  BY <1>9 DEF vars
<1>10. QED
  BY <1>1, <1>2, <1>3, <1>4, <1>5, <1>6, <1>7, <1>8, <1>9
  DEF Next, RunStep, DeviceStep

\* A step keeps the users as they are, moves a device to its update or away
\* from it, or writes the wallet of a device's user.
LEMMA UserShapes ==
  ASSUME TypeOK, [Next]_vars
  PROVE  \/ UNCHANGED users
         \/ \E d \in Devices, s \in {"idle", "update", "link"} :
              /\ registration' = [registration EXCEPT ![d] = s]
              /\ \/ s # "link" /\ UNCHANGED <<wallet, held>>
                 \/ /\ wallet' = [wallet EXCEPT ![UserOf[d]] = WalletOf[d]]
                    /\ held' = held \cup {<<UserOf[d], WalletOf[d]>>}
<1>. DEFINE Goal == \/ UNCHANGED users
                    \/ \E d \in Devices, s \in {"idle", "update", "link"} :
                         /\ registration' = [registration EXCEPT ![d] = s]
                         /\ \/ s # "link" /\ UNCHANGED <<wallet, held>>
                            \/ /\ wallet' = [wallet EXCEPT ![UserOf[d]] = WalletOf[d]]
                               /\ held' = held \cup {<<UserOf[d], WalletOf[d]>>}
<1>. USE DEF users
<1>1. ASSUME NEW m \in Messages, Publish(m) \/ DeletedByIndexer(m) PROVE Goal
  BY <1>1 DEF Publish, DeletedByIndexer
<1>2. ASSUME NEW i \in Instances, ConsumerStep(i) \/ Crash(i) PROVE Goal
  BY <1>2 DEF ConsumerStep, EnsureConsumerGroup, Read, Enqueue, Crash
<1>3. ASSUME NEW i \in Instances, RunStep(i) PROVE Goal
  BY <1>3 DEF RunStep, FindPayer, CreateCoupon, Settle
<1>4. ASSUME NEW i \in Instances, NEW j \in Jobs, Take(i, j) PROVE Goal
  BY <1>4 DEF Take
<1>5. ASSUME NEW j \in Jobs, Stall(j) PROVE Goal
  BY <1>5 DEF Stall
<1>6. ASSUME NEW d \in Devices, Register(d) PROVE Goal
  BY <1>6 DEF Register, FindOrCreateFirst
<1>7. ASSUME NEW d \in Devices, UpdateWalletAddress(d) PROVE Goal
  BY <1>7 DEF UpdateWalletAddress, LinkAlways
<1>8. ASSUME NEW d \in Devices, LinkOrphanedCoupons(d) PROVE Goal
  BY <1>8 DEF LinkOrphanedCoupons
<1>9. CASE UNCHANGED vars
  BY <1>9 DEF vars
<1>10. QED
  BY <1>1, <1>2, <1>3, <1>4, <1>5, <1>6, <1>7, <1>8, <1>9 DEF Next, DeviceStep

\* A run after a step had its user and job before, has just started without a
\* user, or has just read who holds the payer's wallet.
LEMMA RunShapes ==
  ASSUME TypeOK, [Next]_vars
  PROVE  \A i \in Instances : worker'[i].step \in Steps /\ worker'[i].user # None =>
           /\ worker'[i].user \in Users
           /\ worker[i].step \in Steps
           /\ worker'[i].job = worker[i].job
           /\ \/ worker'[i].user = worker[i].user
              \/ wallet[worker'[i].user] = PayerOf[worker[i].job[2]]
<1>. SUFFICES ASSUME NEW i \in Instances,
                     worker'[i].step \in Steps, worker'[i].user # None
              PROVE  /\ worker'[i].user \in Users
                     /\ worker[i].step \in Steps
                     /\ worker'[i].job = worker[i].job
                     /\ \/ worker'[i].user = worker[i].user
                        \/ wallet[worker'[i].user] = PayerOf[worker[i].job[2]]
  OBVIOUS
<1>. DEFINE Goal == /\ worker'[i].user \in Users
                    /\ worker[i].step \in Steps
                    /\ worker'[i].job = worker[i].job
                    /\ \/ worker'[i].user = worker[i].user
                       \/ wallet[worker'[i].user] = PayerOf[worker[i].job[2]]
<1>1. CASE worker'[i] = worker[i]
  BY <1>1, RunParts
<1>2. ASSUME NEW s \in Steps, Step(i, s), worker[i].step \in Steps PROVE Goal
  <2>1. worker'[i].job = worker[i].job /\ worker'[i].user = worker[i].user
    BY <1>2, RunParts DEF Step, TypeOK
  <2>2. QED  BY <1>2, <2>1, RunParts
<1>3. CASE FindPayer(i)
  <2>. DEFINE e == worker[i].job[2]
  <2>1. worker[i].step \in Steps
    BY <1>3 DEF FindPayer, Steps
  <2>2. ASSUME NEW u \in Users, wallet[u] = PayerOf[e],
               worker' = [worker EXCEPT ![i].step = "create", ![i].user = u]
        PROVE  Goal
    <3>1. worker'[i].job = worker[i].job /\ worker'[i].user = u
      BY <2>1, <2>2, RunParts DEF TypeOK
    <3>2. QED  BY <2>1, <2>2, <3>1
  <2>3. CASE \E s \in Steps : Step(i, s)
    BY <1>2, <2>1, <2>3
  <2>4. QED  BY <1>3, <2>2, <2>3 DEF FindPayer, IssueIfUnknown, Steps
<1>4. CASE CreateCoupon(i)
  <2>1. worker[i].step \in Steps /\ \E s \in Steps : Step(i, s)
    BY <1>4 DEF CreateCoupon, Steps
  <2>2. QED  BY <1>2, <2>1
<1>5. ASSUME NEW j \in Jobs, Take(i, j) PROVE FALSE
  BY <1>5 DEF Take, TypeOK
<1>6. CASE Settle(i) \/ Crash(i)
  BY <1>6 DEF Settle, Crash, Idle, TypeOK
<1>7. ASSUME NEW o \in Instances \ {i},
             RunStep(o) \/ Crash(o) \/ \E j \in Jobs : Take(o, j)
      PROVE  worker'[i] = worker[i]
  BY <1>7 DEF RunStep, FindPayer, CreateCoupon, Settle, Crash, Take, Step, TypeOK
<1>8. ASSUME NEW o \in Instances, ConsumerStep(o) PROVE worker' = worker
  BY <1>8 DEF ConsumerStep, EnsureConsumerGroup, Read, Enqueue
<1>9. ASSUME NEW m \in Messages, Publish(m) \/ DeletedByIndexer(m)
      PROVE  worker' = worker
  BY <1>9 DEF Publish, DeletedByIndexer
<1>10. ASSUME NEW j \in Jobs, Stall(j) PROVE worker' = worker
  BY <1>10 DEF Stall
<1>11. ASSUME NEW d \in Devices, DeviceStep(d) PROVE worker' = worker
  BY <1>11 DEF DeviceStep, Register, UpdateWalletAddress, LinkOrphanedCoupons
<1>12. ASSUME UNCHANGED vars PROVE worker' = worker
  BY <1>12 DEF vars
<1>13. ASSUME NEW o \in Instances,
              RunStep(o) \/ Crash(o) \/ \E j \in Jobs : Take(o, j)
       PROVE  Goal
  <2>1. CASE o = i
    BY <1>13, <2>1, <1>3, <1>4, <1>5, <1>6 DEF RunStep
  <2>2. CASE o # i
    BY <1>13, <2>2, <1>1, <1>7
  <2>3. QED  BY <2>1, <2>2
<1>14. CASE worker' = worker
  BY <1>1, <1>14
<1>15. QED
  BY <1>8, <1>9, <1>10, <1>11, <1>12, <1>13, <1>14 DEF Next

\* Every step keeps the invariant.
LEMMA NextOwnerInv == TypeOK /\ TypeOK' /\ OwnerInv /\ [Next]_vars => OwnerInv'
<1>. SUFFICES ASSUME TypeOK, TypeOK', OwnerInv, [Next]_vars PROVE OwnerInv'
  OBVIOUS
<1>. WalletIsHeld /\ LinkerHeld /\ ReadIsHeld /\ NothingBeforeInsert
     /\ OneCouponPerTx /\ OwnerHeldPayer
  BY DEF OwnerInv
<1>1. held \subseteq held'
  BY UserShapes DEF users
<1>2. WalletIsHeld'
  <2>1. CASE UNCHANGED users
    BY <2>1 DEF users, WalletIsHeld
  <2>2. CASE UNCHANGED <<wallet, held>>
    BY <2>2 DEF WalletIsHeld
  <2>3. ASSUME NEW d \in Devices,
               wallet' = [wallet EXCEPT ![UserOf[d]] = WalletOf[d]],
               held' = held \cup {<<UserOf[d], WalletOf[d]>>}
        PROVE  WalletIsHeld'
    BY <2>3, IssuanceAssumption DEF WalletIsHeld, TypeOK
  <2>4. QED  BY <2>1, <2>2, <2>3, UserShapes
<1>3. LinkerHeld'
  <2>1. CASE UNCHANGED users
    BY <2>1 DEF users, LinkerHeld
  <2>2. ASSUME NEW d \in Devices, NEW s \in {"idle", "update"},
               registration' = [registration EXCEPT ![d] = s]
        PROVE  LinkerHeld'
    BY <1>1, <2>2 DEF LinkerHeld, TypeOK
  <2>3. ASSUME NEW d \in Devices, NEW s \in {"idle", "update", "link"},
               registration' = [registration EXCEPT ![d] = s],
               held' = held \cup {<<UserOf[d], WalletOf[d]>>}
        PROVE  LinkerHeld'
    BY <1>1, <2>3 DEF LinkerHeld, TypeOK
  <2>4. QED  BY <2>1, <2>2, <2>3, UserShapes
<1>4. ReadIsHeld'
  <2>. SUFFICES ASSUME NEW i \in Instances,
                       worker'[i].step \in Steps, worker'[i].user # None
                PROVE  <<worker'[i].user, PayerOf[worker'[i].job[2]]>> \in held
    BY <1>1 DEF ReadIsHeld
  <2>. DEFINE e == worker[i].job[2]
  <2>1. /\ worker'[i].user \in Users /\ worker[i].step \in Steps
        /\ worker'[i].job = worker[i].job
    BY RunShapes
  <2>2. CASE worker'[i].user = worker[i].user
    BY <2>1, <2>2 DEF ReadIsHeld
  <2>3. CASE wallet[worker'[i].user] = PayerOf[e]
    <3>1. PayerOf[e] \in Wallets /\ None \notin Wallets
      BY <2>1, RunParts, JobParts, IssuanceAssumption
    <3>2. QED  BY <2>1, <2>3, <3>1 DEF WalletIsHeld
  <2>4. QED  BY <2>2, <2>3, RunShapes
<1>5. NothingBeforeInsert' /\ OneCouponPerTx' /\ OwnerHeldPayer'
  <2>1. CASE CouponsKept
    BY <1>1, <2>1
    DEF CouponsKept, coupons, NothingBeforeInsert, OneCouponPerTx, OwnerHeldPayer
  <2>2. ASSUME NEW i \in Instances, Inserts(i)
        PROVE  NothingBeforeInsert' /\ OneCouponPerTx' /\ OwnerHeldPayer'
    <3>. DEFINE e == worker[i].job[2]
                t == TxOf[e]
    <3>1. worker[i].step \in Steps
      BY <2>2 DEF Inserts, Steps
    <3>2. t \in Txs /\ worker[i].user \in Users \cup {None}
      BY <3>1, RunParts, JobParts
    <3>3. worker[i].user # None => <<worker[i].user, PayerOf[e]>> \in held
      BY <3>1 DEF ReadIsHeld
    <3>4. /\ copies[t] = 0 /\ copies' = [copies EXCEPT ![t] = copies[t] + 1]
          /\ payer' = [payer EXCEPT ![t] = PayerOf[e]]
          /\ owner' = [owner EXCEPT ![t] = worker[i].user]
      BY <2>2 DEF Inserts, Insert
    <3>5. /\ copies \in [Txs -> Nat] /\ payer \in [Txs -> Wallets \cup {None}]
          /\ owner \in [Txs -> Users \cup {None}]
      BY DEF TypeOK
    <3>6. NothingBeforeInsert'
      BY <3>2, <3>4, <3>5 DEF NothingBeforeInsert
    <3>7. OneCouponPerTx'
      BY <3>2, <3>4, <3>5 DEF OneCouponPerTx
    <3>8. OwnerHeldPayer'
      BY <1>1, <3>2, <3>3, <3>4, <3>5 DEF OwnerHeldPayer
    <3>9. QED  BY <3>6, <3>7, <3>8
  <2>3. ASSUME NEW d \in Devices, Adopts(d)
        PROVE  NothingBeforeInsert' /\ OneCouponPerTx' /\ OwnerHeldPayer'
    <3>1. <<UserOf[d], WalletOf[d]>> \in held
      BY <2>3 DEF Adopts, LinkerHeld
    <3>2. WalletOf[d] # None /\ copies' = copies /\ payer' = payer
      BY <2>3, IssuanceAssumption DEF Adopts
    <3>3. \A t \in Txs : owner'[t] =
            IF payer[t] = WalletOf[d] /\ owner[t] = None THEN UserOf[d] ELSE owner[t]
      BY <2>3 DEF Adopts
    <3>4. NothingBeforeInsert' /\ OneCouponPerTx'
      BY <3>2, <3>3 DEF NothingBeforeInsert, OneCouponPerTx
    <3>5. OwnerHeldPayer'
      BY <1>1, <3>1, <3>2, <3>3 DEF OwnerHeldPayer
    <3>6. QED  BY <3>4, <3>5
  <2>4. QED  BY <2>1, <2>2, <2>3, CouponShapes
<1>6. QED  BY <1>2, <1>3, <1>4, <1>5 DEF OwnerInv

\* The invariant holds in every behaviour.
LEMMA OwnerInvHolds == Spec => []OwnerInv
<1>1. Init => OwnerInv
  BY DEF Init, OwnerInv, WalletIsHeld, LinkerHeld, ReadIsHeld, Idle, Steps,
         NothingBeforeInsert, OneCouponPerTx, OwnerHeldPayer
<1>2. QED  BY <1>1, TypeCorrect, NextOwnerInv, PTL DEF Spec

\* No transaction gets two coupons, whatever runs twice or fails half-way.
THEOREM NoSecondCoupon == Spec => []OneCouponPerTx
<1>1. OwnerInv => OneCouponPerTx
  BY DEF OwnerInv
<1>2. QED  BY <1>1, OwnerInvHolds, PTL

\* A coupon is only ever owned by a user who had registered the paying wallet.
THEOREM OwnerHadTheWallet == Spec => []OwnerHeldPayer
<1>1. OwnerInv => OwnerHeldPayer
  BY DEF OwnerInv
<1>2. QED  BY <1>1, OwnerInvHolds, PTL

\* A coupon that has an owner keeps it.
THEOREM OwnersStay == Spec => OwnerIsKept
<1>1. TypeOK /\ OwnerInv /\ [Next]_vars =>
        [\A t \in Txs : owner[t] # None => owner'[t] = owner[t]]_vars
  <2>. SUFFICES ASSUME TypeOK, OwnerInv, [Next]_vars,
                       NEW t \in Txs, owner[t] # None
                PROVE  owner'[t] = owner[t]
    OBVIOUS
  <2>1. CASE CouponsKept
    BY <2>1 DEF CouponsKept, coupons
  <2>2. ASSUME NEW i \in Instances, Inserts(i) PROVE owner'[t] = owner[t]
    <3>1. t # TxOf[worker[i].job[2]]
      BY <2>2 DEF Inserts, OwnerInv, NothingBeforeInsert
    <3>2. QED  BY <2>2, <3>1 DEF Inserts, Insert, TypeOK
  <2>3. ASSUME NEW d \in Devices, Adopts(d) PROVE owner'[t] = owner[t]
    BY <2>3 DEF Adopts
  <2>4. QED  BY <2>1, <2>2, <2>3, CouponShapes
<1>2. QED  BY <1>1, TypeCorrect, OwnerInvHolds, PTL DEF Spec, OwnerIsKept

-----------------------------------------------------------------------------
(***************************************************************************)
(* The stream is handed out once: a message still in the stream has no     *)
(* job yet and is in nobody's batch.                                       *)
(***************************************************************************)
Undelivered == unpublished \cup stream
PublishedOnce == unpublished \cap stream = {}
UndeliveredIsUntouched == \A j \in Jobs : j[1] \in Undelivered =>
  job[j] = "none" /\ \A i \in Instances : j \notin batch[i]
OnlyJobsAreHeld == \A j \in Jobs : job[j] = "none" => holder[j] = None

StreamInv ==
  /\ PublishedOnce
  /\ UndeliveredIsUntouched
  /\ OnlyJobsAreHeld
  /\ BatchesAreFresh

\* Nothing but an enqueueing process makes a job, and it makes one of its
\* batch.
LEMMA JobShapes ==
  ASSUME TypeOK, OnlyJobsAreHeld, [Next]_vars
  PROVE  /\ OnlyJobsAreHeld'
         /\ \/ \A j \in Jobs : job[j] = "none" => job'[j] = "none"
            \/ \E i \in Instances : Enqueue(i)
<1>. DEFINE NoNewJob == \A j \in Jobs : job[j] = "none" => job'[j] = "none"
            Kept == UNCHANGED <<job, holder>>
<1>. USE DEF streamVars, consumerVars, queueVars
<1>1. ASSUME NEW m \in Messages, Publish(m) \/ DeletedByIndexer(m) PROVE Kept
  BY <1>1 DEF Publish, DeletedByIndexer
<1>2. ASSUME NEW i \in Instances, EnsureConsumerGroup(i) \/ Read(i) PROVE Kept
  BY <1>2 DEF EnsureConsumerGroup, Read
<1>3. ASSUME NEW i \in Instances, FindPayer(i) \/ CreateCoupon(i) \/ Crash(i)
      PROVE  Kept
  BY <1>3 DEF FindPayer, CreateCoupon, Crash
<1>4. ASSUME NEW d \in Devices, DeviceStep(d) PROVE Kept
  BY <1>4 DEF DeviceStep, Register, UpdateWalletAddress, LinkOrphanedCoupons
<1>5. ASSUME UNCHANGED vars PROVE Kept
  BY <1>5 DEF vars
<1>6. CASE Kept
  BY <1>6 DEF OnlyJobsAreHeld
<1>7. ASSUME NEW i \in Instances, Enqueue(i) PROVE OnlyJobsAreHeld'
  <2>1. PICK j \in Jobs : job' \in {job, [job EXCEPT ![j] = "waiting"]}
    BY <1>7 DEF Enqueue, TypeOK
  <2>2. holder' = holder
    BY <1>7 DEF Enqueue
  <2>3. QED  BY <2>1, <2>2 DEF OnlyJobsAreHeld, TypeOK
<1>8. ASSUME NEW i \in Instances, NEW j \in Jobs, Take(i, j)
      PROVE  OnlyJobsAreHeld' /\ NoNewJob
  BY <1>8 DEF Take, OnlyJobsAreHeld, TypeOK
<1>9. ASSUME NEW i \in Instances, Settle(i) PROVE OnlyJobsAreHeld' /\ NoNewJob
  <2>1. worker[i].job \in Jobs /\ i # None
    BY <1>9, RunParts, IssuanceAssumption DEF Settle, Steps
  <2>2. job[worker[i].job] = "none" => job' = job
    BY <1>9, <2>1 DEF Settle, OnlyJobsAreHeld
  <2>3. NoNewJob
    BY <1>9, <2>1, <2>2 DEF Settle, TypeOK
  <2>4. \A j \in Jobs : job'[j] = "none" => job[j] = "none"
    BY <1>9, <2>1 DEF Settle, TypeOK
  <2>5. QED  BY <1>9, <2>3, <2>4 DEF Settle, OnlyJobsAreHeld
<1>10. ASSUME NEW j \in Jobs, Stall(j) PROVE OnlyJobsAreHeld' /\ NoNewJob
  BY <1>10 DEF Stall, OnlyJobsAreHeld, TypeOK
<1>11. QED
  BY <1>1, <1>2, <1>3, <1>4, <1>5, <1>6, <1>7, <1>8, <1>9, <1>10
  DEF Next, ConsumerStep, RunStep

\* A step other than a read or an enqueue delivers nothing and fills no batch.
LEMMA StreamShapes ==
  ASSUME TypeOK, PublishedOnce, [Next]_vars
  PROVE  /\ PublishedOnce' /\ Undelivered' \subseteq Undelivered
         /\ \/ \A i \in Instances : batch'[i] \subseteq batch[i]
            \/ \E i \in Instances : Read(i)
<1>. DEFINE Smaller == \A i \in Instances : batch'[i] \subseteq batch[i]
            Kept == UNCHANGED <<unpublished, stream, batch>>
<1>. USE DEF streamVars, consumerVars, queueVars, PublishedOnce, Undelivered
<1>1. ASSUME NEW m \in Messages, Publish(m) \/ DeletedByIndexer(m)
      PROVE  PublishedOnce' /\ Undelivered' \subseteq Undelivered /\ batch' = batch
  BY <1>1 DEF Publish, DeletedByIndexer
<1>2. ASSUME NEW i \in Instances, EnsureConsumerGroup(i)
      PROVE  PublishedOnce' /\ Undelivered' \subseteq Undelivered /\ batch' = batch
  BY <1>2 DEF EnsureConsumerGroup
<1>3. ASSUME NEW i \in Instances, Read(i)
      PROVE  PublishedOnce' /\ Undelivered' \subseteq Undelivered
  BY <1>3 DEF Read, DropsDelivered
<1>4. ASSUME NEW i \in Instances, Enqueue(i)
      PROVE  UNCHANGED <<unpublished, stream>> /\ Smaller
  <2>1. UNCHANGED <<unpublished, stream>>
    BY <1>4 DEF Enqueue
  <2>2. \E b \in SUBSET batch[i] : batch' = [batch EXCEPT ![i] = b]
    BY <1>4 DEF Enqueue, TypeOK
  <2>3. QED  BY <2>1, <2>2 DEF TypeOK
<1>5. ASSUME NEW i \in Instances, Crash(i)
      PROVE  UNCHANGED <<unpublished, stream>> /\ Smaller
  BY <1>5 DEF Crash, TypeOK
<1>6. ASSUME NEW i \in Instances, RunStep(i) PROVE Kept
  BY <1>6 DEF RunStep, FindPayer, CreateCoupon, Settle
<1>7. ASSUME NEW i \in Instances, NEW j \in Jobs, Take(i, j) PROVE Kept
  BY <1>7 DEF Take
<1>8. ASSUME NEW j \in Jobs, Stall(j) PROVE Kept
  BY <1>8 DEF Stall
<1>9. ASSUME NEW d \in Devices, DeviceStep(d) PROVE Kept
  BY <1>9 DEF DeviceStep, Register, UpdateWalletAddress, LinkOrphanedCoupons
<1>10. ASSUME UNCHANGED vars PROVE Kept
  BY <1>10 DEF vars
<1>11. QED
  BY <1>1, <1>2, <1>3, <1>4, <1>5, <1>6, <1>7, <1>8, <1>9, <1>10
  DEF Next, ConsumerStep

\* Every step keeps the batches fresh.
LEMMA NextStreamInv == TypeOK /\ StreamInv /\ [Next]_vars => StreamInv'
<1>. SUFFICES ASSUME TypeOK, StreamInv, [Next]_vars PROVE StreamInv'
  OBVIOUS
<1>. PublishedOnce /\ UndeliveredIsUntouched /\ OnlyJobsAreHeld /\ BatchesAreFresh
  BY DEF StreamInv
<1>. DEFINE NoNewJob == \A j \in Jobs : job[j] = "none" => job'[j] = "none"
            Smaller == \A i \in Instances : batch'[i] \subseteq batch[i]
<1>1. PublishedOnce' /\ OnlyJobsAreHeld' /\ Undelivered' \subseteq Undelivered
  BY JobShapes, StreamShapes
<1>2. ASSUME NoNewJob, Smaller PROVE UndeliveredIsUntouched' /\ BatchesAreFresh'
  <2>1. UndeliveredIsUntouched'
    BY <1>1, <1>2 DEF UndeliveredIsUntouched
  <2>2. BatchesAreFresh'
    <3>. SUFFICES ASSUME NEW i \in Instances, NEW j \in batch'[i],
                         NEW o \in Instances \ {i}
                  PROVE  job'[j] = "none" /\ j \notin batch'[o]
      <4>1. \A i \in Instances : \A j \in batch'[i] : job'[j] = "none"
        BY <1>2 DEF BatchesAreFresh, TypeOK
      <4>2. QED  BY <4>1 DEF BatchesAreFresh
    <3>1. j \in batch[i] /\ j \in Jobs
      BY <1>2 DEF TypeOK
    <3>2. QED  BY <1>2, <3>1 DEF BatchesAreFresh
  <2>3. QED  BY <2>1, <2>2
<1>3. ASSUME NEW i \in Instances, Read(i)
      PROVE  UndeliveredIsUntouched' /\ BatchesAreFresh'
  <2>. DEFINE new == {j \in Jobs : j[1] \in stream /\ j[2] \in ToMerchant}
  <2>1. stream' = {} /\ UNCHANGED <<unpublished, job>>
    BY <1>3 DEF Read, DropsDelivered, queueVars
  <2>2. CASE batch' = batch
    BY <1>2, <2>1, <2>2
  <2>3. CASE batch' = [batch EXCEPT ![i] = new]
    <3>1. \A j \in new : job[j] = "none" /\ \A o \in Instances : j \notin batch[o]
      BY DEF UndeliveredIsUntouched, Undelivered
    <3>2. /\ \A o \in Instances \ {i} : batch'[o] = batch[o]
          /\ batch'[i] = new
      BY <2>3 DEF TypeOK
    <3>3. BatchesAreFresh'
      BY <2>1, <3>1, <3>2 DEF BatchesAreFresh
    <3>4. \A j \in new : j[1] \notin Undelivered'
      BY <2>1 DEF PublishedOnce, Undelivered
    <3>5. UndeliveredIsUntouched'
      BY <1>1, <2>1, <3>2, <3>4 DEF UndeliveredIsUntouched
    <3>6. QED  BY <3>3, <3>5
  <2>4. QED  BY <1>3, <2>2, <2>3 DEF Read, consumerVars
<1>4. ASSUME NEW i \in Instances, Enqueue(i)
      PROVE  UndeliveredIsUntouched' /\ BatchesAreFresh'
  <2>1. CASE job' = job
    <3>1. Smaller
      <4>1. \E b \in SUBSET batch[i] : batch' = [batch EXCEPT ![i] = b]
        BY <1>4 DEF Enqueue, TypeOK
      <4>2. QED  BY <4>1 DEF TypeOK
    <3>2. QED  BY <1>2, <2>1, <3>1
  <2>2. ASSUME NEW j \in batch[i], NEW b \in SUBSET (batch[i] \ {j}),
               job' = [job EXCEPT ![j] = "waiting"],
               batch' = [batch EXCEPT ![i] = b]
        PROVE  UndeliveredIsUntouched' /\ BatchesAreFresh'
    <3>1. j \in Jobs /\ j[1] \notin Undelivered
      BY DEF TypeOK, UndeliveredIsUntouched
    <3>2. /\ \A o \in Instances : batch'[o] \subseteq batch[o] /\ j \notin batch'[o]
          /\ \A k \in Jobs \ {j} : job'[k] = job[k]
      BY <2>2, <3>1 DEF TypeOK, BatchesAreFresh
    <3>3. UndeliveredIsUntouched'
      BY <1>1, <3>1, <3>2 DEF UndeliveredIsUntouched
    <3>4. \A o \in Instances : batch'[o] \subseteq Jobs \ {j}
      BY <3>2 DEF TypeOK
    <3>5. BatchesAreFresh'
      BY <3>2, <3>4 DEF BatchesAreFresh
    <3>6. QED  BY <3>3, <3>5
  <2>3. QED
    <3>1. PICK j \in batch[i] :
            /\ job' \in {job, [job EXCEPT ![j] = "waiting"]}
            /\ \/ batch' = [batch EXCEPT ![i] = {}]
               \/ batch' = [batch EXCEPT ![i] = batch[i] \ {j}]
      BY <1>4 DEF Enqueue
    <3>2. \E b \in SUBSET (batch[i] \ {j}) : batch' = [batch EXCEPT ![i] = b]
      BY <3>1
    <3>3. QED  BY <2>1, <2>2, <3>1, <3>2
<1>5. UndeliveredIsUntouched' /\ BatchesAreFresh'
  <2>1. CASE \E i \in Instances : Read(i)
    BY <1>3, <2>1
  <2>2. CASE \E i \in Instances : Enqueue(i)
    BY <1>4, <2>2
  <2>3. QED  BY <1>2, <2>1, <2>2, JobShapes, StreamShapes
<1>6. QED  BY <1>1, <1>5 DEF StreamInv

\* No two processes, and no process twice, put the same job on the queue.
THEOREM NothingIsReadTwice == Spec => []BatchesAreFresh
<1>1. Init => StreamInv
  BY DEF Init, StreamInv, PublishedOnce, UndeliveredIsUntouched, OnlyJobsAreHeld,
         BatchesAreFresh
<1>2. StreamInv => BatchesAreFresh
  BY DEF StreamInv
<1>3. QED  BY <1>1, <1>2, TypeCorrect, NextStreamInv, PTL DEF Spec
=============================================================================
