------------------------------ MODULE AppLock ------------------------------
(***************************************************************************)
(* The app lock (apps/rn-wdk-exercise/hooks/useAppLockBiometrics.ts and    *)
(* components/AppLockOverlay.tsx, over stores/appLockStore.ts): a decision *)
(* for each user who signs in and for each return after a long absence,    *)
(* and the bootstrap of the Home screen, which waits for it.               *)
(*                                                                         *)
(* A decision asks the device and WDK, and nothing cancels it.             *)
(***************************************************************************)
EXTENDS Naturals, FiniteSets

CONSTANTS
  People,         \* those who sign in on the phone
  MaxDecisions    \* bound: decisions in flight

Nobody == ""

\* A user id is no empty text.
ASSUME LockAssumption == Nobody \notin People

VARIABLES
  lockUser,   \* useAuthStore's userId
  locked, checked,
  deciding,   \* applyLockDecision's in flight, in slots
  inFront,    \* the app is active; otherwise in the background
  verifying,  \* unlock waits for the prompt
  opened,     \* Home's bootstrapRan
  hasSeed,    \* people whose wallet WDK has on the phone
  basis,      \* history: whom the last decision or prompt that left the app open was about
  stray       \* history: a decision of an earlier session was in flight when somebody signed in

lockVars == <<lockUser, locked, checked, deciding, inFront, verifying, opened, hasSeed, basis, stray>>

Slots == 1..MaxDecisions
NoDecision == [for |-> Nobody, pc |-> "none", wallet |-> FALSE]

LockTypeOK ==
  /\ lockUser \in People \cup {Nobody} /\ basis \in People \cup {Nobody}
  /\ locked \in BOOLEAN /\ checked \in BOOLEAN /\ inFront \in BOOLEAN
  /\ verifying \in BOOLEAN /\ opened \in BOOLEAN /\ stray \in BOOLEAN
  /\ hasSeed \subseteq People
  /\ deciding \in [Slots -> [for : People \cup {Nobody}, pc : {"none", "asked", "read"}, wallet : BOOLEAN]]

\* A process starts without a user; the persisted one is read afterwards.
LockInit ==
  /\ lockUser = Nobody /\ basis = Nobody
  /\ locked = FALSE /\ checked = TRUE
  /\ deciding = [s \in Slots |-> NoDecision]
  /\ inFront = TRUE /\ verifying = FALSE /\ opened = FALSE /\ stray = FALSE
  /\ hasSeed \in SUBSET People

ApplyLockDecision(user) ==
  \E s \in Slots :
    /\ deciding[s].pc = "none"
    /\ deciding' = [deciding EXCEPT ![s] = [for |-> user, pc |-> "asked", wallet |-> FALSE]]

\* CheckedAtSignIn without setChecked(false).
CheckedAsBefore == checked
CheckedAtSignIn == FALSE

\* The effect of a new userId, read back from the storage or signed in.
UserAppears ==
  /\ lockUser = Nobody
  /\ \E u \in People : lockUser' = u /\ ApplyLockDecision(u)
  /\ checked' = CheckedAtSignIn
  /\ stray' = (\E s \in Slots : deciding[s].pc # "none")
  /\ basis' = Nobody
  /\ UNCHANGED <<locked, inFront, verifying, opened, hasSeed>>

\* Logout, or a refresh that failed; Home is unmounted.
UserLeaves ==
  /\ lockUser # Nobody /\ lockUser' = Nobody
  /\ checked' = TRUE /\ locked' = FALSE
  /\ opened' = FALSE /\ basis' = Nobody
  /\ UNCHANGED <<deciding, inFront, verifying, hasSeed, stray>>

HasLocalWallet(s) ==
  /\ deciding[s].pc = "asked"
  /\ deciding' = [deciding EXCEPT ![s].pc = "read", ![s].wallet = deciding[s].for \in hasSeed]
  /\ UNCHANGED <<lockUser, locked, checked, inFront, verifying, opened, hasSeed, basis, stray>>

\* Promise.all's then and catch: available is the device's answer.
Decide(s) ==
  /\ \/ /\ deciding[s].pc = "read"
        /\ \E available \in BOOLEAN : locked' = (available /\ deciding[s].wallet)
     \/ deciding[s].pc # "none" /\ locked' = TRUE
  /\ checked' = TRUE
  /\ basis' = IF locked' THEN basis ELSE deciding[s].for
  /\ deciding' = [deciding EXCEPT ![s] = NoDecision]
  /\ UNCHANGED <<lockUser, inFront, verifying, opened, hasSeed, stray>>

GoToBackground ==
  /\ inFront /\ inFront' = FALSE
  /\ UNCHANGED <<lockUser, locked, checked, deciding, verifying, opened, hasSeed, basis, stray>>

\* Back before or after RELOCK_GRACE_MS.
ComeBack ==
  /\ ~inFront /\ inFront' = TRUE
  /\ \/ UNCHANGED deciding
     \/ lockUser # Nobody /\ ApplyLockDecision(lockUser)
  /\ UNCHANGED <<lockUser, locked, checked, verifying, opened, hasSeed, basis, stray>>

\* By the overlay, once, or by its button.
Unlock ==
  /\ locked /\ ~verifying /\ inFront
  /\ verifying' = TRUE
  /\ UNCHANGED <<lockUser, locked, checked, deciding, inFront, opened, hasSeed, basis, stray>>

EndUnlock ==
  /\ verifying /\ verifying' = FALSE
  /\ \/ locked' = FALSE /\ basis' = lockUser
     \/ UNCHANGED <<locked, basis>>
  /\ UNCHANGED <<lockUser, checked, deciding, inFront, opened, hasSeed, stray>>

\* useWalletBootstrap's effect, after which a wallet may be there.
OpenHome ==
  /\ lockUser # Nobody /\ ~opened /\ checked /\ ~locked
  /\ opened' = TRUE
  /\ hasSeed' \in {hasSeed, hasSeed \cup {lockUser}}
  /\ UNCHANGED <<lockUser, locked, checked, deciding, inFront, verifying, basis, stray>>

LockNext ==
  \/ UserAppears \/ UserLeaves
  \/ \E s \in Slots : HasLocalWallet(s) \/ Decide(s)
  \/ GoToBackground \/ ComeBack
  \/ Unlock \/ EndUnlock \/ OpenHome

LockSpec == LockInit /\ [][LockNext]_lockVars

(***************************************************************************)
(* Home opens a user's wallet only after a decision or a prompt about that *)
(* very user: "our lock screen is always the single source of truth"       *)
(* (hooks/useWalletBootstrap.ts:21).  Left out are users who signed in     *)
(* while a decision of an earlier session was in flight, which the hook    *)
(* does not cancel.                                                        *)
(***************************************************************************)
HomeWaitsForDecision ==
  [][(opened' /\ ~opened /\ ~stray) => basis = lockUser]_lockVars
=============================================================================
