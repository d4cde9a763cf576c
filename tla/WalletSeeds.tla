---------------------------- MODULE WalletSeeds ----------------------------
(***************************************************************************)
(* The seeds of one user on several phones (apps/rn-wdk-exercise): the     *)
(* wallet the Home screen opens or creates (hooks/useWalletBootstrap.ts),  *)
(* backing it up to the platform's cloud and to the server                 *)
(* (hooks/useSeedBackup.ts), restoring it from the cloud                   *)
(* (wallet-setup/restore-cloud.tsx) or from a phrase (restore.tsx), and    *)
(* the guards around WDK's operations (hooks/useWalletData.ts).            *)
(*                                                                         *)
(* A step is what runs between two answers of WDK, the cloud or the        *)
(* server.  What is in flight goes on when its screen is left.  A call may *)
(* take effect and nevertheless be reported failed, which is also what a   *)
(* killed app leaves behind.                                               *)
(***************************************************************************)
EXTENDS Naturals, FiniteSets

CONSTANTS
  Devices,
  Seeds,       \* the seeds WDK may generate or the user may type in
  Uploads,     \* the backups made in a behaviour
  Restores,    \* the restores that may be in flight at once
  ReadsBack,   \* Android reads the cloud's copy back before it posts it
  None         \* null

\* A ciphertext: its seed, and the upload that encrypted it, since the salt
\* is random.
Copies == [seed : Seeds, of : Uploads]

ASSUME WalletSeedsAssumption ==
  /\ ReadsBack \in BOOLEAN
  /\ None \notin Seeds \cup Copies \cup Devices

VARIABLES
  wallet,      \* the seed WDK stores on each device, or None
  status,      \* useWalletBootstrap of the Home screen
  rescue,      \* the restore-cloud screen
  mnemonic,    \* the phrase the backup screen holds
  upload,      \* each backupToCloud
  restore,     \* each restoreWallet in flight
  cloud,       \* the file in the user's iCloud or Google Drive
  server,      \* the backend's copy
  torn         \* devices whose wallet was deleted to be replaced, and was not

phone == <<wallet, status, rescue, mnemonic, restore, torn>>
copies == <<upload, cloud, server>>
vars == <<phone, copies>>

\* "loading" is told apart by the call it waits for.
Loading == {"checking", "asking", "creating", "opening"}
Statuses == Loading \cup {"idle", "ready", "needs-cloud-restore", "error"}

RescueStates == [at : {"closed", "open", "prompt"}, missing : {"no", "yes"},
                 notFound : {"no", "yes"}, found : Copies \cup {None}]

UploadStates ==
  [pc : {"unused", "failed"}, copy : {None}, sent : {None}, alone : {"no"}]
  \cup [pc : {"cloud", "read", "done"}, copy : Copies, sent : {None}, alone : {"no", "yes"}]
  \cup [pc : {"post"}, copy : Copies, sent : Copies, alone : {"no", "yes"}]

RestoreStates ==
  [pc : {"idle"}, device : {None}, seed : {None}, screen : {"left"}]
  \cup [pc : {"try", "delete", "again"}, device : Devices, seed : Seeds,
        screen : {"cloud", "phrase", "left"}]

TypeOK ==
  /\ wallet \in [Devices -> Seeds \cup {None}]
  /\ status \in [Devices -> Statuses]
  /\ rescue \in [Devices -> RescueStates]
  /\ mnemonic \in [Devices -> Seeds \cup {None}]
  /\ upload \in [Uploads -> UploadStates]
  /\ restore \in [Restores -> RestoreStates]
  /\ cloud \in Copies \cup {None} /\ server \in Copies \cup {None}
  /\ torn \subseteq Devices

Closed == [at |-> "closed", missing |-> "no", notFound |-> "no", found |-> None]
NoUpload == [pc |-> "unused", copy |-> None, sent |-> None, alone |-> "no"]
NoRestore == [pc |-> "idle", device |-> None, seed |-> None, screen |-> "left"]

Init ==
  /\ wallet = [d \in Devices |-> None]
  /\ status = [d \in Devices |-> "idle"]
  /\ rescue = [d \in Devices |-> Closed]
  /\ mnemonic = [d \in Devices |-> None]
  /\ upload = [u \in Uploads |-> NoUpload]
  /\ restore = [r \in Restores |-> NoRestore]
  /\ cloud = None /\ server = None /\ torn = {}

-----------------------------------------------------------------------------
(***************************************************************************)
(* WDK's stored wallets.                                                   *)
(***************************************************************************)

Store(d, seed) == /\ wallet' = [wallet EXCEPT ![d] = seed]
                  /\ torn' = torn \ {d}

\* The seeds that are somewhere.
Known == {wallet[d] : d \in Devices} \cup {mnemonic[d] : d \in Devices}
  \cup {restore[r].seed : r \in Restores}
  \cup {copy.seed : copy \in ({cloud, server} \cup {upload[u].copy : u \in Uploads}
                                       \cup {rescue[d].found : d \in Devices}) \ {None}}

\* createWallet of WDK, which refuses to replace a wallet; a generated
\* seed is one that is nowhere yet.
Generate(d) == \E seed \in Seeds \ Known : Store(d, seed)

\* Replacing an existing wallet, as safeRestoreWallet does, and unlocking it
\* instead, which changes nothing stored.
CreateOver(d) == Generate(d)
SafeCreateWallet(d) ==
  \/ wallet[d] = None /\ Generate(d)
  \/ wallet[d] # None /\ UNCHANGED <<wallet, torn>>

Becomes(d, new) == status' = [status EXCEPT ![d] = new]

-----------------------------------------------------------------------------
(***************************************************************************)
(* useWalletBootstrap.                                                     *)
(***************************************************************************)

\* The effect, once WDK is up and the app is unlocked; and retry.
StartBootstrap(d) ==
  /\ status[d] \in {"idle", "error"}
  /\ Becomes(d, "checking")
  /\ UNCHANGED <<wallet, rescue, mnemonic, restore, torn, copies>>

\* Every call of runBootstrap may fail.
BootstrapFails(d) ==
  /\ status[d] \in Loading
  /\ Becomes(d, "error")
  /\ UNCHANGED <<wallet, rescue, mnemonic, restore, torn, copies>>

\* hasLocalWallet is answered.
CheckLocalWallet(d) ==
  /\ status[d] = "checking"
  /\ Becomes(d, IF wallet[d] # None THEN "opening" ELSE "asking")
  /\ UNCHANGED <<wallet, rescue, mnemonic, restore, torn, copies>>

\* The server's copy, which upsertBackup replaces.
HasBackupForUser == server # None
UpsertBackup(ciphertext) == server' = ciphertext

\* getWalletBackupExists is answered.
AskForBackup(d) ==
  /\ status[d] = "asking"
  /\ Becomes(d, IF HasBackupForUser THEN "needs-cloud-restore" ELSE "creating")
  /\ UNCHANGED <<wallet, rescue, mnemonic, restore, torn, copies>>

\* What runBootstrap makes of a createWallet that throws: the error is
\* lost, or shown.
ErrorLost == "ready"
ErrorShown == "error"

\* createWallet returns, or throws and may have stored the seed.
CreateWallet(d) ==
  /\ status[d] = "creating"
  /\ \/ SafeCreateWallet(d) /\ Becomes(d, "ready")
     \/ SafeCreateWallet(d) /\ Becomes(d, ErrorShown)
     \/ UNCHANGED <<wallet, torn>> /\ Becomes(d, ErrorShown)
  /\ UNCHANGED <<rescue, mnemonic, restore, copies>>

\* unlock is answered.  WDK refuses to unlock a wallet it does not have.
OpenWallet(d) ==
  /\ status[d] = "opening" /\ wallet[d] # None
  /\ Becomes(d, "ready")
  /\ UNCHANGED <<wallet, rescue, mnemonic, restore, torn, copies>>

\* The user signs out and in again: Home is mounted anew, what is in flight
\* goes on.
SignInAgain(d) ==
  /\ status[d] = "ready"
  /\ Becomes(d, "idle")
  /\ rescue' = [rescue EXCEPT ![d] = Closed]
  /\ mnemonic' = [mnemonic EXCEPT ![d] = None]
  /\ UNCHANGED <<wallet, restore, torn, copies>>

\* The app is killed and launched again.  Its calls have ended before, with
\* or without effect.
Relaunch(d) ==
  /\ \A r \in Restores : restore[r].device # d
  /\ status[d] \notin {"idle", "creating"}
  /\ Becomes(d, "idle")
  /\ rescue' = [rescue EXCEPT ![d] = Closed]
  /\ mnemonic' = [mnemonic EXCEPT ![d] = None]
  /\ UNCHANGED <<wallet, restore, torn, copies>>

-----------------------------------------------------------------------------
(***************************************************************************)
(* The backup screen and useSeedBackup.                                    *)
(***************************************************************************)

\* The user reveals the phrase, or leaves the screen.
Reveal(d) ==
  /\ status[d] = "ready"
  /\ mnemonic' = [mnemonic EXCEPT ![d] = IF @ = None THEN wallet[d] ELSE None]
  /\ mnemonic' # mnemonic
  /\ UNCHANGED <<wallet, status, rescue, restore, torn, copies>>

\* backupToCloud, up to the first call that sends the ciphertext.  `alone`
\* says that no other upload runs with this one or has begun after it.
StartUpload(u, d) ==
  /\ mnemonic[d] # None /\ upload[u].pc = "unused"
  /\ upload' = [v \in Uploads |->
       IF v = u
       THEN [pc |-> "cloud", copy |-> [seed |-> mnemonic[d], of |-> u], sent |-> None,
             alone |-> IF \E w \in Uploads : upload[w].pc \in {"cloud", "read", "post"}
                       THEN "no" ELSE "yes"]
       ELSE [upload[v] EXCEPT !.alone = "no"]]
  /\ UNCHANGED <<phone, cloud, server>>

Goes(u, new) == upload' = [upload EXCEPT ![u] = new]

\* With a ciphertext to post, and with its copies where they belong.
Posting(u, ciphertext) == [upload[u] EXCEPT !.pc = "post", !.sent = ciphertext]
Done(u) == [upload[u] EXCEPT !.pc = "done", !.sent = None]

\* An error of createCloudBackup, or of postWalletBackup, ends the upload;
\* what would be if it was ignored.
GoOn(u) == Posting(u, upload[u].copy)
Succeed(u) == Done(u)
GiveUp(u) == [NoUpload EXCEPT !.pc = "failed"]

\* createCloudBackup ends.
WriteCloud(u) ==
  /\ upload[u].pc = "cloud"
  /\ \/ /\ cloud' = upload[u].copy
        /\ Goes(u, IF ReadsBack THEN [upload[u] EXCEPT !.pc = "read"]
                   ELSE Posting(u, upload[u].copy))
     \/ cloud' \in {cloud, upload[u].copy} /\ Goes(u, GiveUp(u))
  /\ UNCHANGED <<phone, server>>

\* getCloudCiphertext ends; restoreFromCloudBackup makes null of any error.
ReadBack(u) ==
  /\ upload[u].pc = "read"
  /\ \/ cloud # None /\ Goes(u, Posting(u, cloud))
     \/ Goes(u, GiveUp(u))
  /\ UNCHANGED <<phone, cloud, server>>

\* postWalletBackup ends.
PostBackup(u) ==
  /\ upload[u].pc = "post"
  /\ \/ UpsertBackup(upload[u].sent) /\ Goes(u, Done(u))
     \/ (UpsertBackup(upload[u].sent) \/ UNCHANGED server) /\ Goes(u, GiveUp(u))
  /\ UNCHANGED <<phone, cloud>>

-----------------------------------------------------------------------------
(***************************************************************************)
(* The restore screens and safeRestoreWallet.                              *)
(***************************************************************************)

Shows(d, new) == rescue' = [rescue EXCEPT ![d] = new]

\* The screen opens, from the menu or by Home's redirect.  Its effect learns
\* whether there is a wallet on the device, or cannot tell.
OpenRescue(d) ==
  /\ status[d] \in {"ready", "needs-cloud-restore"} /\ rescue[d].at = "closed"
  /\ \E missing \in {"no", IF wallet[d] = None THEN "yes" ELSE "no"} :
       Shows(d, [Closed EXCEPT !.at = "open", !.missing = missing])
  /\ UNCHANGED <<wallet, status, mnemonic, restore, torn, copies>>

\* handleRestore: a copy is found, or none, or the cloud cannot be read.
LookInCloud(d) ==
  /\ rescue[d].at # "closed"
  /\ \/ cloud # None
        /\ Shows(d, [rescue[d] EXCEPT !.at = "prompt", !.notFound = "no", !.found = cloud])
     \/ Shows(d, [rescue[d] EXCEPT !.notFound = "yes"])
  /\ UNCHANGED <<wallet, status, mnemonic, restore, torn, copies>>

Begin(r, d, seed, screen) == restore' = [restore EXCEPT ![r] =
  [pc |-> "try", device |-> d, seed |-> seed, screen |-> screen]]

\* What decryptMnemonic yields, and what the copy holds as it stands.
Encrypted(copy) == copy
DecryptMnemonic(copy) == copy.seed

\* completeRestore with the right passphrase, up to restoreWallet.
SubmitPassphrase(r, d) ==
  /\ rescue[d].at = "prompt" /\ rescue[d].found # None /\ restore[r].pc = "idle"
  /\ Begin(r, d, DecryptMnemonic(rescue[d].found), "cloud")
  /\ Shows(d, [rescue[d] EXCEPT !.at = "open"])
  /\ UNCHANGED <<wallet, status, mnemonic, torn, copies>>

\* With a wrong one, without a ciphertext, or Cancel.
ClosePrompt(d) ==
  /\ rescue[d].at = "prompt"
  /\ Shows(d, [rescue[d] EXCEPT !.at = "open", !.found = None])
  /\ UNCHANGED <<wallet, status, mnemonic, restore, torn, copies>>

\* handleStartFresh.  A new wallet brings the user back to Home.
ShowStartFresh(d) ==
  rescue[d].at = "open" /\ rescue[d].missing = "yes" /\ rescue[d].notFound = "yes"

StartFresh(d) ==
  /\ ShowStartFresh(d)
  /\ SafeCreateWallet(d)
  /\ \/ Becomes(d, "idle") /\ Shows(d, Closed)
     \/ UNCHANGED <<status, rescue>>
  /\ UNCHANGED <<mnemonic, restore, copies>>

\* The user goes back to the menu.  A restore in flight loses its screen.
CloseRescue(d) ==
  /\ status[d] = "ready" /\ rescue[d].at # "closed"
  /\ Shows(d, Closed)
  /\ restore' = [r \in Restores |->
       IF restore[r].device = d THEN [restore[r] EXCEPT !.screen = "left"] ELSE restore[r]]
  /\ UNCHANGED <<wallet, status, mnemonic, torn, copies>>

\* handleRestore of the phrase screen, up to restoreWallet.
RestorePhrase(r, d, seed) ==
  /\ status[d] = "ready" /\ restore[r].pc = "idle"
  /\ Begin(r, d, seed, "phrase")
  /\ UNCHANGED <<wallet, status, rescue, mnemonic, torn, copies>>

\* A restore ends.  completeRestore forgets the ciphertext; after a success
\* the user is brought back to a Home that starts anew.
EndRestore(r, d, success) ==
  /\ restore' = [restore EXCEPT ![r] = NoRestore]
  /\ IF success /\ status[d] \in {"ready", "needs-cloud-restore"}
     THEN Becomes(d, "idle") /\ Shows(d, Closed)
     ELSE /\ UNCHANGED status
          /\ IF restore[r].screen = "cloud"
             THEN Shows(d, [rescue[d] EXCEPT !.found = None]) ELSE UNCHANGED rescue

\* restoreWallet of WDK stores the seed, reports that a wallet exists, or
\* fails, in which case it may have stored it.
TryRestore(r, d) ==
  /\ restore[r].pc = "try"
  /\ \/ /\ wallet[d] = None
        /\ Store(d, restore[r].seed)
        /\ \E success \in BOOLEAN : EndRestore(r, d, success)
     \/ /\ wallet[d] # None
        /\ restore' = [restore EXCEPT ![r].pc = "delete"]
        /\ UNCHANGED <<wallet, torn, status, rescue>>
     \/ UNCHANGED <<wallet, torn>> /\ EndRestore(r, d, FALSE)
  /\ UNCHANGED <<mnemonic, copies>>

\* deleteWallet.
DeleteWallet(r, d) ==
  /\ restore[r].pc = "delete"
  /\ \/ /\ wallet' = [wallet EXCEPT ![d] = None] /\ torn' = torn \cup {d}
        /\ \/ /\ restore' = [restore EXCEPT ![r].pc = "again"]
              /\ UNCHANGED <<status, rescue>>
           \/ EndRestore(r, d, FALSE)
     \/ UNCHANGED <<wallet, torn>> /\ EndRestore(r, d, FALSE)
  /\ UNCHANGED <<mnemonic, copies>>

\* The second restoreWallet, whose errors are not looked at any more.
RestoreAgain(r, d) ==
  /\ restore[r].pc = "again"
  /\ \/ /\ wallet[d] = None
        /\ Store(d, restore[r].seed)
        /\ \E success \in BOOLEAN : EndRestore(r, d, success)
     \/ UNCHANGED <<wallet, torn>> /\ EndRestore(r, d, FALSE)
  /\ UNCHANGED <<mnemonic, copies>>

-----------------------------------------------------------------------------
Bootstrap(d) == StartBootstrap(d) \/ BootstrapFails(d) \/ CheckLocalWallet(d)
  \/ AskForBackup(d) \/ CreateWallet(d) \/ OpenWallet(d) \/ SignInAgain(d) \/ Relaunch(d)

Rescue(d) == OpenRescue(d) \/ LookInCloud(d) \/ ClosePrompt(d) \/ StartFresh(d)
  \/ CloseRescue(d)

Upload(u) == WriteCloud(u) \/ ReadBack(u) \/ PostBackup(u)

Restore(r, d) == restore[r].device = d
  /\ (TryRestore(r, d) \/ DeleteWallet(r, d) \/ RestoreAgain(r, d))

Next ==
  \/ \E d \in Devices : Bootstrap(d) \/ Rescue(d) \/ Reveal(d)
  \/ \E u \in Uploads : Upload(u) \/ \E d \in Devices : StartUpload(u, d)
  \/ \E r \in Restores, d \in Devices :
       \/ SubmitPassphrase(r, d) \/ Restore(r, d)
       \/ \E seed \in Seeds : RestorePhrase(r, d, seed)

Spec == Init /\ [][Next]_vars

-----------------------------------------------------------------------------
(***************************************************************************)
(* Properties.                                                             *)
(***************************************************************************)

\* A stored seed is replaced or deleted only by a restore that the user
\* asked for on that phone, whatever Home creates meanwhile.
NoSilentReplacement == [][\A d \in Devices :
  wallet[d] # None /\ wallet'[d] # wallet[d]
    => \E r \in Restores : restore[r].device = d /\ restore[r].pc = "delete"]_vars

\* Whoever is sent to the cloud's copy because the server has one finds one,
\* on whichever phone and however the uploads ended.
RescueIsPossible ==
  /\ server # None => cloud # None
  /\ \A d \in Devices : status[d] = "needs-cloud-restore" => cloud # None

\* A backup that was reported as done is what cloud and server hold, unless
\* another upload ran at the same time or has begun since.
ReportedIsStored == \A u \in Uploads :
  upload[u].pc = "done" /\ upload[u].alone = "yes"
    => cloud = upload[u].copy /\ server = upload[u].copy

\* Home shows a wallet that is there, unless a restore deleted it and then
\* failed.
ReadyHasWallet == \A d \in Devices :
  status[d] = "ready" /\ wallet[d] = None => d \in torn

\* The new wallet is offered only when "the device's native cloud storage
\* has none to offer" (the comment at restore-cloud.tsx:116).
FreshIsLastResort == \A d \in Devices : ShowStartFresh(d) => cloud = None
=============================================================================
