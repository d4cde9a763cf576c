---------------------------- MODULE PartsProofs ----------------------------
(***************************************************************************)
(* The parts side by side.  What MCParts checks of a part is checked of    *)
(* the part's own specification: a behaviour of PartsSpec is, seen through *)
(* the variables of any part, one of that part.                            *)
(***************************************************************************)
EXTENDS MCParts, CouponIssuanceProofs, BackendPartsProofs, PhoneProofs

-----------------------------------------------------------------------------
\* A step of the parts is a step of each of the backend's, or leaves it alone;
LEMMA BackendSteps ==
  ASSUME [PartsNext]_allVars
  PROVE  [Next]_vars /\ [HostedNext]_pollVars /\ [CopiesNext]_copyVars
BY DEF PartsNext, allVars, backendRest, CopiesNext

\* so it is of the parts that keep the user's account,
LEMMA AccountSteps ==
  ASSUME [PartsNext]_allVars
  PROVE  /\ [LockNext]_lockVars /\ [StorageNext]_storageVars /\ [PayNext]_payVars
         /\ [RedeemNext]_redeemVars /\ [SyncNext]_syncVars
BY DEF PartsNext, allVars, phoneRest, accountVars

\* and of those that show it.
LEMMA ScreenSteps ==
  ASSUME [PartsNext]_allVars
  PROVE  [ScreensNext]_screenVars /\ [MotionNext]_motionVars
BY DEF PartsNext, allVars, phoneRest, screenVars, ScreensNext
-----------------------------------------------------------------------------
\* A behaviour of the parts is one of each part's specification, of which the
\* theorems about the parts then hold.  Of AddressSync and Motion it is one
\* without fairness: while another part runs, none of their steps is taken.
THEOREM PartsAreParts ==
  PartsSpec => /\ Spec /\ HostedSpec /\ CopiesSpec
               /\ LockSpec /\ StorageSpec /\ PaySpec /\ RedeemSpec
               /\ SyncInit /\ [][SyncNext]_syncVars
               /\ ScreensSpec
               /\ MotionInit /\ [][MotionNext]_motionVars
<1>1. PartsInit => /\ Init /\ HostedInit /\ CopiesInit
                   /\ LockInit /\ StorageInit /\ PayInit /\ RedeemInit
                   /\ SyncInit /\ ScreensInit /\ MotionInit
  BY DEF PartsInit
<1>2. PartsSpec => [][Next]_vars /\ [][HostedNext]_pollVars /\ [][CopiesNext]_copyVars
  BY BackendSteps, PTL DEF PartsSpec
<1>3. PartsSpec => /\ [][LockNext]_lockVars /\ [][StorageNext]_storageVars /\ [][PayNext]_payVars
                   /\ [][RedeemNext]_redeemVars /\ [][SyncNext]_syncVars
  BY AccountSteps, PTL DEF PartsSpec
<1>4. PartsSpec => [][ScreensNext]_screenVars /\ [][MotionNext]_motionVars
  BY ScreenSteps, PTL DEF PartsSpec
<1> QED
  BY <1>1, <1>2, <1>3, <1>4
  DEF PartsSpec, Spec, HostedSpec, CopiesSpec, LockSpec, StorageSpec, PaySpec, RedeemSpec, ScreensSpec

\* The variables of the part that runs keep their types (as those at rest do).
THEOREM PartsTypeCorrect == PartsSpec => []PartsTypeOK
<1>1. PartsSpec => []TypeOK /\ []HostedTypeOK /\ []CopiesTypeOK
  BY PartsAreParts, TypeCorrect, HostedTypeCorrect, CopiesTypeCorrect
<1>2. PartsSpec => []LockTypeOK /\ []StorageTypeOK /\ []PayTypeOK /\ []RedeemTypeOK
  BY PartsAreParts, LockTypeCorrect, StorageTypeCorrect, PayTypeCorrect, RedeemTypeCorrect
<1>3. PartsSpec => []SyncTypeOK
  <2>1. SyncInv => SyncTypeOK
    BY DEF SyncInv
  <2> QED BY <2>1, PartsAreParts, SyncInitially, SyncNextKeeps, PTL
<1>4. PartsSpec => []ScreensTypeOK
  BY PartsAreParts, ScreensTypeCorrect
<1>5. PartsSpec => []MotionTypeOK
  <2>1. MotionInv => MotionTypeOK
    BY DEF MotionInv
  <2> QED BY <2>1, PartsAreParts, MotionInitially, MotionNextKeeps, PTL
<1>6. /\ TypeOK /\ HostedTypeOK /\ CopiesTypeOK /\ LockTypeOK /\ StorageTypeOK
      /\ PayTypeOK /\ RedeemTypeOK /\ SyncTypeOK /\ ScreensTypeOK /\ MotionTypeOK
      => PartsTypeOK
  BY DEF PartsTypeOK
<1> QED BY <1>1, <1>2, <1>3, <1>4, <1>5, <1>6, PTL
=============================================================================
