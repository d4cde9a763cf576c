------------------------- MODULE WalletSeedsProofs -------------------------
(***************************************************************************)
(* Theorems about WalletSeeds, for any number of phones, seeds, uploads    *)
(* and restores, with and without reading back.                            *)
(***************************************************************************)
EXTENDS WalletSeeds, TLAPS

Active == {"cloud", "read", "post"}

\* No other upload runs beside one that is alone.
AloneIsAlone == \A u, v \in Uploads :
  u # v /\ upload[u].alone = "yes" => upload[v].pc \notin Active

\* The cloud is written before the server is, and keeps the copy of an
\* upload that is alone, from which it also was read back.
CloudComesFirst ==
  /\ server # None => cloud # None
  /\ \A u \in Uploads : upload[u].pc \in {"read", "post"} => cloud # None
  /\ \A u \in Uploads :
       upload[u].alone = "yes" /\ upload[u].pc \in {"read", "post", "done"}
         => cloud = upload[u].copy
  /\ \A u \in Uploads :
       upload[u].alone = "yes" /\ upload[u].pc = "post" => upload[u].sent = upload[u].copy

CopiesInv == CloudComesFirst /\ AloneIsAlone /\ ReportedIsStored /\ RescueIsPossible

SeedsInv == TypeOK /\ CopiesInv /\ ReadyHasWallet

-----------------------------------------------------------------------------
\* What a step of the uploads, which leaves the phones alone, has to show.
LEMMA CopiesStep ==
  ASSUME SeedsInv, UNCHANGED phone, upload' \in [Uploads -> UploadStates],
         cloud' \in Copies \cup {None}, server' \in Copies \cup {None},
         CloudComesFirst', AloneIsAlone', ReportedIsStored', cloud # None => cloud' # None
  PROVE  SeedsInv'
BY DEF SeedsInv, CopiesInv, TypeOK, phone, ReadyHasWallet, RescueIsPossible, CloudComesFirst

\* What a step of a phone, which leaves the copies alone, has to show.
LEMMA PhoneStep ==
  ASSUME SeedsInv, UNCHANGED copies, TypeOK', ReadyHasWallet',
         \A d \in Devices : status'[d] = "needs-cloud-restore" =>
           status[d] = "needs-cloud-restore" \/ server # None
  PROVE  SeedsInv'
<1> USE DEF SeedsInv, CopiesInv, copies
<1>1. CloudComesFirst' /\ AloneIsAlone' /\ ReportedIsStored'
  BY DEF CloudComesFirst, AloneIsAlone, ReportedIsStored
<1>2. RescueIsPossible'
  BY DEF RescueIsPossible
<1> QED BY <1>1, <1>2

\* At the start there are no wallets and no copies.
LEMMA SeedsInit == Init => SeedsInv
<1> SUFFICES ASSUME Init PROVE SeedsInv
  OBVIOUS
<1>1. NoUpload \in UploadStates /\ NoRestore \in RestoreStates /\ Closed \in RescueStates
  BY DEF NoUpload, NoRestore, Closed, UploadStates, RestoreStates, RescueStates
<1>2. TypeOK
  BY <1>1 DEF Init, TypeOK, Statuses
<1>3. CopiesInv
  BY DEF Init, CopiesInv, CloudComesFirst, AloneIsAlone, ReportedIsStored,
         RescueIsPossible, NoUpload
<1>4. ReadyHasWallet
  BY DEF Init, ReadyHasWallet
<1> QED BY <1>2, <1>3, <1>4 DEF SeedsInv

-----------------------------------------------------------------------------
\* What a record of an upload in each place looks like.
LEMMA UploadRecords ==
  ASSUME NEW x \in UploadStates
  PROVE  /\ x.pc \in {"cloud", "read", "post", "done"} => x.copy \in Copies
         /\ x.pc = "post" => x.sent \in Copies
         /\ x.alone = "yes" => x.pc \notin {"unused", "failed"}
         /\ [x EXCEPT !.alone = "no"] \in UploadStates
         /\ x.pc = "cloud" => [x EXCEPT !.pc = "read"] \in UploadStates
         /\ x.pc = "post" => [x EXCEPT !.pc = "done", !.sent = None] \in UploadStates
         /\ \A c \in Copies : x.pc \in {"cloud", "read"} =>
              [x EXCEPT !.pc = "post", !.sent = c] \in UploadStates
BY DEF UploadStates
-----------------------------------------------------------------------------
\* A new upload is alone if no other is active, and no other stays alone.
LEMMA StartUploadKeeps ==
  ASSUME SeedsInv, NEW u \in Uploads, NEW d \in Devices, StartUpload(u, d)
  PROVE  SeedsInv'
<1> USE DEF StartUpload
<1> DEFINE copy == [seed |-> mnemonic[d], of |-> u]
<1>1. TypeOK /\ CopiesInv
  BY DEF SeedsInv
<1>2. copy \in Copies /\ copy # None
  BY <1>1, WalletSeedsAssumption DEF TypeOK, Copies
<1>3. ASSUME NEW v \in Uploads
      PROVE  upload'[v] \in UploadStates
  <2>1. CASE v = u
    <3>1. \A a \in {"no", "yes"} :
            [pc |-> "cloud", copy |-> copy, sent |-> None, alone |-> a] \in UploadStates
      BY <1>2 DEF UploadStates
    <3> QED BY <3>1, <2>1
  <2>2. CASE v # u
    <3>1. upload[v] \in UploadStates
      BY <1>1 DEF TypeOK
    <3> QED BY <2>2, <3>1, UploadRecords
  <2> QED BY <2>1, <2>2
<1>4. upload' \in [Uploads -> UploadStates]
  BY <1>3
<1>5. \A v \in Uploads : v # u => upload'[v].alone = "no" /\ upload'[v].pc = upload[v].pc
  <2> SUFFICES ASSUME NEW v \in Uploads, v # u
               PROVE  upload'[v].alone = "no" /\ upload'[v].pc = upload[v].pc
    OBVIOUS
  <2>1. upload[v] \in UploadStates /\ upload'[v] = [upload[v] EXCEPT !.alone = "no"]
    BY <1>1 DEF TypeOK
  <2> QED BY <2>1 DEF UploadStates
<1>6. /\ upload'[u].pc = "cloud"
      /\ upload'[u].alone = "yes" => \A v \in Uploads : upload[v].pc \notin Active
  BY DEF Active
<1>7. AloneIsAlone'
  BY <1>5, <1>6 DEF AloneIsAlone
<1>8. CloudComesFirst' /\ ReportedIsStored'
  BY <1>1, <1>5, <1>6 DEF CloudComesFirst, ReportedIsStored, CopiesInv
<1> QED BY <1>1, <1>4, <1>7, <1>8, CopiesStep DEF TypeOK

\* What a step of one upload may turn it into, and the two copies with it.
LEMMA UploadStep ==
  ASSUME SeedsInv, UNCHANGED phone, NEW u \in Uploads, NEW new \in UploadStates,
         upload' = [upload EXCEPT ![u] = new], upload[u].pc \in Active,
         new.pc = "failed" \/ new.alone = upload[u].alone,
         new.pc \in {"read", "post", "done", "failed"},
         cloud' \in Copies \cup {None}, server' \in Copies \cup {None},
         cloud' # cloud => cloud' # None /\ upload[u].pc = "cloud",
         server' # None => cloud' # None,
         server' # server => upload[u].pc = "post",
         new.pc \in {"read", "post"} => cloud' # None,
         new.alone = "yes" /\ new.pc \in {"read", "post", "done"} => cloud' = new.copy,
         new.alone = "yes" /\ new.pc = "post" => new.sent = new.copy,
         new.alone = "yes" /\ new.pc = "done" => server' = new.copy
  PROVE  SeedsInv'
<1>1. TypeOK /\ CopiesInv
  BY DEF SeedsInv
<1>2. /\ upload'[u] = new /\ upload' \in [Uploads -> UploadStates]
      /\ \A v \in Uploads : v # u => upload'[v] = upload[v] /\ upload[v].alone = "no"
  <2>1. \A v \in Uploads : v # u => upload[v].alone # "yes"
    BY <1>1 DEF CopiesInv, AloneIsAlone
  <2>2. \A v \in Uploads : upload[v].alone \in {"no", "yes"}
    BY <1>1 DEF TypeOK, UploadStates
  <2> QED BY <1>1, <2>1, <2>2 DEF TypeOK
<1>3. new.pc = "failed" => new.alone = "no"
  BY DEF UploadStates
<1>4. AloneIsAlone'
  BY <1>1, <1>2, <1>3 DEF CopiesInv, AloneIsAlone, Active
<1>5. CloudComesFirst'
  BY <1>1, <1>2, <1>3 DEF CopiesInv, CloudComesFirst
<1>6. ReportedIsStored'
  BY <1>1, <1>2, <1>3 DEF CopiesInv, ReportedIsStored
<1>7. cloud # None => cloud' # None
  OBVIOUS
<1> QED BY <1>2, <1>4, <1>5, <1>6, <1>7, CopiesStep

\* Writing the cloud, reading it back, posting.
LEMMA UploadKeeps ==
  ASSUME SeedsInv, NEW u \in Uploads, Upload(u)
  PROVE  SeedsInv'
<1> USE DEF Goes
<1> DEFINE x == upload[u]
<1>1. /\ TypeOK /\ CopiesInv /\ x \in UploadStates /\ GiveUp(u) \in UploadStates
      /\ GiveUp(u).pc = "failed" /\ GiveUp(u).alone = "no"
      /\ cloud \in Copies \cup {None} /\ server \in Copies \cup {None}
      /\ None \notin Copies
  BY WalletSeedsAssumption DEF SeedsInv, TypeOK, GiveUp, NoUpload, UploadStates
<1>2. CASE WriteCloud(u)
  <2> USE <1>2 DEF WriteCloud
  <2>1. x.pc = "cloud" /\ x.copy \in Copies /\ x.pc \in Active
    BY <1>1, UploadRecords DEF Active
  <2>2. CASE Goes(u, GiveUp(u))
    <3>1. cloud' \in {cloud, x.copy} /\ server' = server /\ UNCHANGED phone
      BY <2>1, <2>2
    <3>2. server' # None => cloud' # None
      BY <1>1, <2>1, <3>1 DEF CopiesInv, CloudComesFirst
    <3> QED BY <1>1, <2>1, <2>2, <3>1, <3>2, UploadStep
  <2>3. CASE cloud' = x.copy /\ ReadsBack /\ Goes(u, [x EXCEPT !.pc = "read"])
    <3> DEFINE new == [x EXCEPT !.pc = "read"]
    <3>1. new \in UploadStates
      BY <1>1, <2>1, UploadRecords
    <3>2. new.pc = "read" /\ new.alone = x.alone /\ new.copy = x.copy
      BY <1>1 DEF UploadStates
    <3> HIDE DEF new
    <3> QED BY <1>1, <2>1, <2>3, <3>1, <3>2, UploadStep DEF new
  <2>4. CASE cloud' = x.copy /\ Goes(u, Posting(u, x.copy))
    <3> DEFINE new == Posting(u, x.copy)
    <3>1. new \in UploadStates
      BY <1>1, <2>1, UploadRecords DEF Posting
    <3>2. new.pc = "post" /\ new.alone = x.alone /\ new.copy = x.copy /\ new.sent = x.copy
      BY <1>1 DEF UploadStates, Posting
    <3> HIDE DEF new
    <3> QED BY <1>1, <2>1, <2>4, <3>1, <3>2, UploadStep DEF new
  <2> QED BY <2>2, <2>3, <2>4
<1>3. CASE ReadBack(u)
  <2> USE <1>3 DEF ReadBack
  <2>1. x.pc = "read" /\ x.copy \in Copies /\ x.pc \in Active /\ cloud # None
    BY <1>1, UploadRecords DEF Active, CopiesInv, CloudComesFirst
  <2>2. x.alone = "yes" => cloud = x.copy
    BY <1>1, <2>1 DEF CopiesInv, CloudComesFirst
  <2>3. CASE Goes(u, GiveUp(u))
    BY <1>1, <2>1, <2>3, UploadStep
  <2>4. CASE Goes(u, Posting(u, cloud))
    <3> DEFINE new == Posting(u, cloud)
    <3>1. new \in UploadStates
      BY <1>1, <2>1, UploadRecords DEF Posting
    <3>2. new.pc = "post" /\ new.alone = x.alone /\ new.copy = x.copy /\ new.sent = cloud
      BY <1>1 DEF UploadStates, Posting
    <3> HIDE DEF new
    <3> QED BY <1>1, <2>1, <2>2, <2>4, <3>1, <3>2, UploadStep DEF new
  <2> QED BY <2>3, <2>4
<1>4. CASE PostBackup(u)
  <2> USE <1>4 DEF PostBackup, UpsertBackup
  <2>1. /\ x.pc = "post" /\ x.copy \in Copies /\ x.sent \in Copies
        /\ x.pc \in Active /\ cloud # None
    BY <1>1, UploadRecords DEF Active, CopiesInv, CloudComesFirst
  <2>2. x.alone = "yes" => cloud = x.copy /\ x.sent = x.copy
    BY <1>1, <2>1 DEF CopiesInv, CloudComesFirst
  <2>3. CASE Goes(u, GiveUp(u)) /\ server' \in {server, x.sent}
    BY <1>1, <2>1, <2>3, UploadStep
  <2>4. CASE Goes(u, Done(u)) /\ server' = x.sent
    <3> DEFINE new == Done(u)
    <3>1. new \in UploadStates
      BY <1>1, <2>1, UploadRecords DEF Done
    <3>2. new.pc = "done" /\ new.alone = x.alone /\ new.copy = x.copy
      BY <1>1 DEF UploadStates, Done
    <3> HIDE DEF new
    <3> QED BY <1>1, <2>1, <2>2, <2>4, <3>1, <3>2, UploadStep DEF new
  <2> QED BY <2>3, <2>4
<1> QED BY <1>2, <1>3, <1>4 DEF Upload

-----------------------------------------------------------------------------
\* What the screen's record may turn into.
LEMMA RescueRecords ==
  ASSUME NEW x \in RescueStates
  PROVE  /\ Closed \in RescueStates
         /\ \A m \in {"no", "yes"} : [Closed EXCEPT !.at = "open", !.missing = m] \in RescueStates
         /\ \A c \in Copies :
              [x EXCEPT !.at = "prompt", !.notFound = "no", !.found = c] \in RescueStates
         /\ [x EXCEPT !.notFound = "yes"] \in RescueStates
         /\ [x EXCEPT !.at = "open"] \in RescueStates
         /\ [x EXCEPT !.at = "open", !.found = None] \in RescueStates
         /\ [x EXCEPT !.found = None] \in RescueStates
         /\ x.found \in Copies \cup {None}
BY DEF RescueStates, Closed

\* And the record of a restore.
LEMMA RestoreRecords ==
  ASSUME NEW x \in RestoreStates
  PROVE  /\ NoRestore \in RestoreStates
         /\ x.pc # "idle" => /\ x.seed \in Seeds /\ x.device \in Devices
                             /\ \A p \in {"delete", "again"} : [x EXCEPT !.pc = p] \in RestoreStates
         /\ x.device \in Devices => [x EXCEPT !.screen = "left"] \in RestoreStates
<1>1. NoRestore \in RestoreStates
  BY DEF RestoreStates, NoRestore
<1>2. CASE x.pc = "idle"
  BY <1>1, <1>2, WalletSeedsAssumption DEF RestoreStates
<1>3. CASE x.pc # "idle"
  <2>1. x \in [pc : {"try", "delete", "again"}, device : Devices, seed : Seeds,
               screen : {"cloud", "phrase", "left"}]
    BY <1>3 DEF RestoreStates
  <2> QED BY <1>1, <2>1 DEF RestoreStates
<1> QED BY <1>2, <1>3

\* createWallet leaves a wallet and changes none that was there.
LEMMA CreateStores ==
  ASSUME SeedsInv, NEW d \in Devices, SafeCreateWallet(d)
  PROVE  /\ wallet' \in [Devices -> Seeds \cup {None}] /\ torn' \subseteq Devices
         /\ wallet'[d] # None
         /\ \A e \in Devices : wallet[e] # None \/ e # d => wallet'[e] = wallet[e]
         /\ torn' \in {torn, torn \ {d}}
BY WalletSeedsAssumption DEF SeedsInv, TypeOK, SafeCreateWallet, Generate, Store

\* The bootstrap of Home.
LEMMA BootstrapKeeps ==
  ASSUME SeedsInv, NEW d \in Devices, Bootstrap(d)
  PROVE  SeedsInv'
<1> USE DEF Becomes
<1>1. TypeOK /\ ReadyHasWallet /\ Closed \in RescueStates
  BY DEF SeedsInv, RescueStates, Closed
<1>2. UNCHANGED copies
  BY DEF Bootstrap, StartBootstrap, BootstrapFails, CheckLocalWallet, AskForBackup,
         CreateWallet, OpenWallet, SignInAgain, Relaunch
<1>3. CASE CreateWallet(d)
  <2> USE <1>3 DEF CreateWallet
  <2>1. status'[d] \in {"ready", "error"} /\ status' = [status EXCEPT ![d] = status'[d]]
    BY <1>1 DEF TypeOK, ErrorShown
  <2>2. CASE SafeCreateWallet(d)
    <3>1. TypeOK'
      BY <1>1, <1>2, <2>1, <2>2, CreateStores DEF TypeOK, Statuses, copies
    <3>2. ReadyHasWallet'
      BY <1>1, <2>1, <2>2, CreateStores DEF ReadyHasWallet, TypeOK
    <3>3. \A e \in Devices : status'[e] = "needs-cloud-restore" => status[e] = "needs-cloud-restore"
      BY <1>1, <2>1 DEF TypeOK
    <3> QED BY <1>2, <3>1, <3>2, <3>3, PhoneStep
  <2>3. CASE UNCHANGED <<wallet, torn>> /\ Becomes(d, "error")
    BY <1>1, <1>2, <2>3, PhoneStep DEF TypeOK, Statuses, copies, ReadyHasWallet
  <2> QED BY <2>2, <2>3 DEF ErrorShown
<1>4. CASE SignInAgain(d) \/ Relaunch(d)
  BY <1>1, <1>2, <1>4, PhoneStep
     DEF SignInAgain, Relaunch, TypeOK, Statuses, copies, ReadyHasWallet
<1>5. CASE StartBootstrap(d) \/ BootstrapFails(d) \/ CheckLocalWallet(d) \/ OpenWallet(d)
  BY <1>1, <1>2, <1>5, PhoneStep
     DEF StartBootstrap, BootstrapFails, CheckLocalWallet, OpenWallet,
         TypeOK, Statuses, Loading, copies, ReadyHasWallet
<1>6. CASE AskForBackup(d)
  BY <1>1, <1>2, <1>6, PhoneStep
     DEF AskForBackup, HasBackupForUser, TypeOK, Statuses, Loading, copies, ReadyHasWallet
<1> QED BY <1>3, <1>4, <1>5, <1>6 DEF Bootstrap

\* The restore-cloud screen and the backup screen.
LEMMA ScreenKeeps ==
  ASSUME SeedsInv, NEW d \in Devices, Rescue(d) \/ Reveal(d)
  PROVE  SeedsInv'
<1> USE DEF Becomes, Shows
<1>1. /\ TypeOK /\ ReadyHasWallet /\ Closed \in RescueStates /\ rescue[d] \in RescueStates
      /\ rescue \in [Devices -> RescueStates]
  BY DEF SeedsInv, TypeOK, RescueStates, Closed
<1>2. UNCHANGED copies
  BY DEF Rescue, Reveal, OpenRescue, LookInCloud, ClosePrompt, StartFresh, CloseRescue
<1>3. CASE OpenRescue(d) \/ LookInCloud(d) \/ ClosePrompt(d)
  <2>1. UNCHANGED <<wallet, status, mnemonic, restore, torn>>
    BY <1>3 DEF OpenRescue, LookInCloud, ClosePrompt
  <2>2. rescue' \in [Devices -> RescueStates]
    <3>1. CASE OpenRescue(d)
      <4>1. PICK m \in {"no", "yes"} :
              rescue' = [rescue EXCEPT ![d] = [Closed EXCEPT !.at = "open", !.missing = m]]
        BY <3>1 DEF OpenRescue
      <4> QED BY <1>1, <4>1, RescueRecords
    <3>2. CASE LookInCloud(d)
      <4>1. PICK new \in RescueStates : rescue' = [rescue EXCEPT ![d] = new]
        <5>1. CASE cloud # None /\ Shows(d, [rescue[d] EXCEPT !.at = "prompt", !.notFound = "no",
                                                             !.found = cloud])
          <6>1. cloud \in Copies
            BY <1>1, <5>1 DEF TypeOK
          <6> QED BY <1>1, <5>1, <6>1, RescueRecords
        <5>2. CASE Shows(d, [rescue[d] EXCEPT !.notFound = "yes"])
          BY <1>1, <5>2, RescueRecords
        <5> QED BY <3>2, <5>1, <5>2 DEF LookInCloud
      <4> QED BY <1>1, <4>1
    <3>3. CASE ClosePrompt(d)
      BY <1>1, <3>3, RescueRecords DEF ClosePrompt
    <3> QED BY <1>3, <3>1, <3>2, <3>3
  <2> QED BY <1>1, <1>2, <2>1, <2>2, PhoneStep DEF TypeOK, copies, ReadyHasWallet
<1>4. CASE StartFresh(d)
  <2>1. /\ SafeCreateWallet(d) /\ UNCHANGED <<mnemonic, restore>>
        /\ \/ status' = [status EXCEPT ![d] = "idle"] /\ rescue' = [rescue EXCEPT ![d] = Closed]
           \/ UNCHANGED <<status, rescue>>
    BY <1>4 DEF StartFresh
  <2>2. TypeOK'
    BY <1>1, <1>2, <2>1, CreateStores DEF TypeOK, Statuses, copies
  <2>3. ReadyHasWallet'
    BY <1>1, <2>1, CreateStores DEF ReadyHasWallet, TypeOK
  <2>4. \A e \in Devices : status'[e] = "needs-cloud-restore" => status[e] = "needs-cloud-restore"
    BY <1>1, <2>1 DEF TypeOK
  <2> QED BY <1>2, <2>2, <2>3, <2>4, PhoneStep
<1>5. CASE CloseRescue(d)
  <2>1. restore' \in [Restores -> RestoreStates]
    <3>1. \A r \in Restores : restore[r] \in RestoreStates
      BY <1>1 DEF TypeOK
    <3>2. \A r \in Restores : restore[r].device = d =>
            [restore[r] EXCEPT !.screen = "left"] \in RestoreStates
      BY <3>1, RestoreRecords
    <3> QED BY <1>5, <3>1, <3>2 DEF CloseRescue
  <2>2. UNCHANGED <<wallet, status, mnemonic, torn>> /\ rescue' = [rescue EXCEPT ![d] = Closed]
    BY <1>5 DEF CloseRescue
  <2> QED BY <1>1, <1>2, <2>1, <2>2, PhoneStep DEF TypeOK, copies, ReadyHasWallet
<1>6. CASE Reveal(d)
  <2>1. /\ mnemonic' \in [Devices -> Seeds \cup {None}]
        /\ UNCHANGED <<wallet, status, rescue, restore, torn>>
    BY <1>1, <1>6 DEF Reveal, TypeOK
  <2> QED BY <1>1, <1>2, <2>1, PhoneStep DEF TypeOK, copies, ReadyHasWallet
<1> QED BY <1>3, <1>4, <1>5, <1>6 DEF Rescue

-----------------------------------------------------------------------------
\* Beginning a restore, from the cloud's copy or from a phrase.
LEMMA BeginKeeps ==
  ASSUME SeedsInv, NEW r \in Restores, NEW d \in Devices,
         SubmitPassphrase(r, d) \/ \E seed \in Seeds : RestorePhrase(r, d, seed)
  PROVE  SeedsInv'
<1>1. TypeOK /\ ReadyHasWallet /\ rescue[d] \in RescueStates
  BY DEF SeedsInv, TypeOK
<1>2. PICK seed \in Seeds, screen \in {"cloud", "phrase"} : Begin(r, d, seed, screen)
  <2>1. CASE SubmitPassphrase(r, d)
    <3>1. rescue[d].found \in Copies
      BY <1>1, <2>1, RescueRecords DEF SubmitPassphrase
    <3>2. DecryptMnemonic(rescue[d].found) \in Seeds
      BY <3>1 DEF DecryptMnemonic, Copies
    <3> QED BY <2>1, <3>2 DEF SubmitPassphrase
  <2>2. CASE \E seed \in Seeds : RestorePhrase(r, d, seed)
    BY <2>2 DEF RestorePhrase
  <2> QED BY <2>1, <2>2
<1>3. restore' \in [Restores -> RestoreStates]
  <2>1. [pc |-> "try", device |-> d, seed |-> seed, screen |-> screen] \in RestoreStates
    BY DEF RestoreStates
  <2> QED BY <1>1, <1>2, <2>1 DEF Begin, TypeOK
<1>4. rescue' \in [Devices -> RescueStates]
  BY <1>1, RescueRecords DEF SubmitPassphrase, RestorePhrase, Shows, TypeOK
<1>5. UNCHANGED <<wallet, status, mnemonic, torn, copies>>
  BY DEF SubmitPassphrase, RestorePhrase
<1> QED BY <1>1, <1>3, <1>4, <1>5, PhoneStep DEF TypeOK, copies, ReadyHasWallet

\* The end of a restore touches the wallet's screens only.
LEMMA EndRestoreTypes ==
  ASSUME SeedsInv, NEW r \in Restores, NEW d \in Devices, NEW success \in BOOLEAN,
         EndRestore(r, d, success)
  PROVE  /\ restore' \in [Restores -> RestoreStates]
         /\ rescue' \in [Devices -> RescueStates]
         /\ status' = status \/ status' = [status EXCEPT ![d] = "idle"]
<1>1. TypeOK /\ rescue[d] \in RescueStates
  BY DEF SeedsInv, TypeOK
<1>2. NoRestore \in RestoreStates /\ Closed \in RescueStates
      /\ [rescue[d] EXCEPT !.found = None] \in RescueStates
  BY <1>1, RescueRecords DEF NoRestore, RestoreStates
<1> QED BY <1>1, <1>2 DEF EndRestore, TypeOK, Becomes, Shows

\* restoreWallet, deleteWallet, restoreWallet once more.
LEMMA RestoreKeeps ==
  ASSUME SeedsInv, NEW r \in Restores, NEW d \in Devices, Restore(r, d)
  PROVE  SeedsInv'
<1>1. /\ TypeOK /\ ReadyHasWallet /\ restore[r] \in RestoreStates
      /\ restore[r].pc # "idle" /\ restore[r].seed \in Seeds
      /\ \A p \in {"delete", "again"} : [restore[r] EXCEPT !.pc = p] \in RestoreStates
  <2>1. TypeOK /\ ReadyHasWallet /\ restore[r] \in RestoreStates
    BY DEF SeedsInv, TypeOK
  <2>2. restore[r].pc # "idle"
    BY DEF Restore, TryRestore, DeleteWallet, RestoreAgain
  <2> QED BY <2>1, <2>2, RestoreRecords
<1>2. UNCHANGED copies /\ UNCHANGED mnemonic
  BY DEF Restore, TryRestore, DeleteWallet, RestoreAgain
<1>3. /\ restore' \in [Restores -> RestoreStates]
      /\ rescue' \in [Devices -> RescueStates]
      /\ status' = status \/ status' = [status EXCEPT ![d] = "idle"]
  <2>1. CASE \E success \in BOOLEAN : EndRestore(r, d, success)
    BY <2>1, EndRestoreTypes
  <2>2. CASE /\ \E p \in {"delete", "again"} : restore' = [restore EXCEPT ![r].pc = p]
             /\ UNCHANGED <<status, rescue>>
    BY <1>1, <2>2 DEF TypeOK
  <2> QED BY <2>1, <2>2 DEF Restore, TryRestore, DeleteWallet, RestoreAgain
<1>4. \/ wallet[d] = None /\ Store(d, restore[r].seed)
      \/ wallet' = [wallet EXCEPT ![d] = None] /\ torn' = torn \cup {d}
      \/ UNCHANGED <<wallet, torn>>
  BY DEF Restore, TryRestore, DeleteWallet, RestoreAgain
<1>5. TypeOK'
  <2>1. status' \in [Devices -> Statuses]
    BY <1>1, <1>3 DEF TypeOK, Statuses
  <2>2. wallet' \in [Devices -> Seeds \cup {None}] /\ torn' \subseteq Devices
    BY <1>1, <1>4 DEF TypeOK, Store
  <2> QED BY <1>1, <1>2, <1>3, <2>1, <2>2 DEF TypeOK, copies
<1>6. ReadyHasWallet'
  <2>1. \A e \in Devices : status'[e] = "ready" => status[e] = "ready"
    BY <1>1, <1>3 DEF TypeOK
  <2>2. \A e \in Devices : wallet'[e] = None /\ wallet[e] # None => e \in torn'
    BY <1>1, <1>4, WalletSeedsAssumption DEF TypeOK, Store
  <2>3. \A e \in Devices : wallet'[e] = None /\ e \in torn => e \in torn'
    BY <1>1, <1>4, WalletSeedsAssumption DEF TypeOK, Store
  <2> QED BY <1>1, <2>1, <2>2, <2>3 DEF ReadyHasWallet
<1>7. \A e \in Devices : status'[e] = "needs-cloud-restore" => status[e] = "needs-cloud-restore"
  BY <1>1, <1>3 DEF TypeOK
<1> QED BY <1>2, <1>5, <1>6, <1>7, PhoneStep

\* Every step keeps the invariant.
LEMMA SeedsNext ==
  ASSUME SeedsInv, [Next]_vars
  PROVE  SeedsInv'
<1>1. CASE UNCHANGED vars
  BY <1>1 DEF vars, phone, copies, SeedsInv, CopiesInv, TypeOK, CloudComesFirst, AloneIsAlone,
              ReportedIsStored, RescueIsPossible, ReadyHasWallet
<1>2. CASE Next
  <2>1. ASSUME NEW d \in Devices, Bootstrap(d) \/ Rescue(d) \/ Reveal(d)
        PROVE  SeedsInv'
    BY <2>1, BootstrapKeeps, ScreenKeeps
  <2>2. ASSUME NEW u \in Uploads, Upload(u) \/ \E d \in Devices : StartUpload(u, d)
        PROVE  SeedsInv'
    BY <2>2, UploadKeeps, StartUploadKeeps
  <2>3. ASSUME NEW r \in Restores, NEW d \in Devices,
               \/ SubmitPassphrase(r, d) \/ Restore(r, d)
               \/ \E seed \in Seeds : RestorePhrase(r, d, seed)
        PROVE  SeedsInv'
    BY <2>3, BeginKeeps, RestoreKeeps
  <2> QED BY <1>2, <2>1, <2>2, <2>3 DEF Next
<1> QED BY <1>1, <1>2

\* The invariant holds in every reachable state.
LEMMA SeedsInvariant == Spec => []SeedsInv
BY SeedsInit, SeedsNext, PTL DEF Spec

-----------------------------------------------------------------------------
\* Screens, uploads and restores are in states of the code.
THEOREM TypeCorrect == Spec => []TypeOK
<1>1. SeedsInv => TypeOK
  BY DEF SeedsInv
<1> QED BY <1>1, SeedsInvariant, PTL

\* Where the server has a copy the cloud has one, so that whom Home sends to
\* the cloud finds a backup.
THEOREM SentToABackup == Spec => []RescueIsPossible
<1>1. SeedsInv => RescueIsPossible
  BY DEF SeedsInv, CopiesInv
<1> QED BY <1>1, SeedsInvariant, PTL

\* A backup that was reported done, and beside or after which no other ran,
\* is what both copies are.
THEOREM BackupsAreStored == Spec => []ReportedIsStored
<1>1. SeedsInv => ReportedIsStored
  BY DEF SeedsInv, CopiesInv
<1> QED BY <1>1, SeedsInvariant, PTL

\* Home is ready without a wallet only after a restore that failed half-way.
THEOREM HomeHasWallet == Spec => []ReadyHasWallet
<1>1. SeedsInv => ReadyHasWallet
  BY DEF SeedsInv
<1> QED BY <1>1, SeedsInvariant, PTL

\* Whatever Home, the rescue and several restores do at once, a stored seed
\* goes only where the user asked for another.
THEOREM SeedsStay == Spec => NoSilentReplacement
<1> DEFINE Kept == \A d \in Devices : wallet[d] # None /\ wallet'[d] # wallet[d]
      => \E r \in Restores : restore[r].device = d /\ restore[r].pc = "delete"
<1>1. SeedsInv /\ [Next]_vars => [Kept]_vars
  <2> SUFFICES ASSUME SeedsInv, Next, NEW d \in Devices,
                      wallet[d] # None, wallet'[d] # wallet[d]
               PROVE  \E r \in Restores : restore[r].device = d /\ restore[r].pc = "delete"
    OBVIOUS
  <2>1. wallet \in [Devices -> Seeds \cup {None}]
    BY DEF SeedsInv, TypeOK
  <2>2. ASSUME NEW e \in Devices, Bootstrap(e) \/ Rescue(e) \/ Reveal(e)
        PROVE  FALSE
    <3>1. SafeCreateWallet(e) \/ UNCHANGED wallet
      BY <2>2 DEF Bootstrap, StartBootstrap, BootstrapFails, CheckLocalWallet, AskForBackup,
                  CreateWallet, OpenWallet, SignInAgain, Relaunch, Rescue, OpenRescue,
                  LookInCloud, ClosePrompt, StartFresh, CloseRescue, Reveal
    <3> QED BY <3>1, CreateStores
  <2>3. ASSUME NEW u \in Uploads, Upload(u) \/ \E e \in Devices : StartUpload(u, e)
        PROVE  FALSE
    BY <2>3 DEF Upload, WriteCloud, ReadBack, PostBackup, StartUpload, phone
  <2>4. ASSUME NEW r \in Restores, NEW e \in Devices,
               \/ SubmitPassphrase(r, e) \/ Restore(r, e)
               \/ \E seed \in Seeds : RestorePhrase(r, e, seed)
        PROVE  e = d /\ restore[r].device = d /\ restore[r].pc = "delete"
    <3>1. Restore(r, e)
      BY <2>4 DEF SubmitPassphrase, RestorePhrase
    <3>2. CASE DeleteWallet(r, e)
      BY <2>1, <3>1, <3>2 DEF DeleteWallet, Restore
    <3>3. CASE TryRestore(r, e) \/ RestoreAgain(r, e)
      BY <2>1, <3>3 DEF TryRestore, RestoreAgain, Store
    <3> QED BY <3>1, <3>2, <3>3 DEF Restore
  <2> QED BY <2>2, <2>3, <2>4 DEF Next
<1> QED BY <1>1, SeedsInvariant, PTL DEF Spec, NoSilentReplacement
=============================================================================
