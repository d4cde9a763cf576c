---------------------------- MODULE AddressSync ----------------------------
(***************************************************************************)
(* The transaction history of the phone                                    *)
(* (apps/rn-wdk-exercise/hooks/useFilteredTransactionHistory.ts): each of  *)
(* the screens that show it registers the wallet's addresses with the      *)
(* app-node (hooks/useAppNodeWalletSync.ts) and, once that is done, asks   *)
(* for the transfers (hooks/useTransactionHistory.ts), under one query.    *)
(*                                                                         *)
(* A step ends at an answer of the app-node.  A call that is reported      *)
(* failed may have taken effect.  What is in flight goes on when its       *)
(* screen is left.                                                         *)
(***************************************************************************)
EXTENDS Naturals, Sequences, SequencesExt

CONSTANTS
  Networks,    \* the keys of AppNodeWalletAddresses
  Views,       \* screens with a history: the History tab, an asset's
  MaxAttempts, \* RETRY_DELAYS_MS.length + 1
  MaxWallets   \* bound: wallets the app-node has for the user

\* The hook knows two networks (useAppNodeWalletSync.ts:51).
ASSUME SyncAssumption ==
  /\ \E ethereum, bitcoin \in Networks : Networks = {ethereum, bitcoin}
  /\ MaxAttempts \in Nat \ {0} /\ MaxWallets \in Nat \ {0}

VARIABLES
  resolved,    \* networks whose address useWallet has loaded
  sync,        \* useAppNodeWalletSync of each screen
  appNode,     \* the user's wallets there, each the networks it has
  query        \* useTransactionHistory, shared by key

syncVars == <<resolved, sync, appNode, query>>

Calls == {"connect", "look", "create", "update"}
Statuses4 == {"idle", "syncing", "done", "error"}
NewSync == [mounted |-> FALSE, enabled |-> FALSE, status |-> "idle", at |-> "none", known |-> {}, read |-> {}, synced |-> {}, attempt |-> 0]

SyncTypeOK ==
  /\ resolved \subseteq Networks
  /\ sync \in [Views -> [mounted : BOOLEAN, enabled : BOOLEAN, status : Statuses4, at : Calls \cup {"none"},
                         known : SUBSET Networks, read : SUBSET Networks, synced : SUBSET Networks,
                         attempt : 0..(MaxAttempts - 1)]]
  /\ appNode \in Seq(SUBSET Networks) /\ Len(appNode) <= MaxWallets
  /\ query \in [loaded : BOOLEAN, failed : BOOLEAN, fetching : BOOLEAN]

\* The app-node may know the user from another launch.
SyncInit ==
  /\ resolved = {} /\ sync = [v \in Views |-> NewSync]
  /\ appNode \in {<<>>} \cup {<<w>> : w \in (SUBSET Networks) \ {{}}}
  /\ query = [loaded |-> FALSE, failed |-> FALSE, fetching |-> FALSE]

\* The effect of useAppNodeWalletSync, with the addresses known to it.
Effect(s, known) ==
  IF known = {} \/ s.at # "none" \/ known \subseteq s.synced THEN s
  ELSE [s EXCEPT !.at = "connect", !.status = "syncing", !.known = known, !.attempt = 0]

\* The addresses that the screen hands over.
Handed(s, addresses) == IF s.enabled THEN addresses ELSE {}

\* The History tab covers every network; an asset may be none that the indexer
\* watches (isHistorySupportedNetwork, isHistorySupportedAsset).
HistorySupported(v) == IF v = "history" THEN {TRUE} ELSE BOOLEAN

Mount(v) ==
  /\ ~sync[v].mounted /\ sync[v].at = "none"
  /\ \E enabled \in HistorySupported(v) :
       LET s == [NewSync EXCEPT !.mounted = TRUE, !.enabled = enabled]
       IN sync' = [sync EXCEPT ![v] = Effect(s, Handed(s, resolved))]
  /\ UNCHANGED <<resolved, appNode, query>>

Unmount(v) ==
  /\ sync[v].mounted
  /\ sync' = [sync EXCEPT ![v].mounted = FALSE]
  /\ UNCHANGED <<resolved, appNode, query>>

Resolve(n) ==
  /\ n \notin resolved /\ resolved' = resolved \cup {n}
  /\ sync' = [v \in Views |-> IF sync[v].mounted THEN Effect(sync[v], Handed(sync[v], resolved')) ELSE sync[v]]
  /\ UNCHANGED <<appNode, query>>

\* What a run has read goes with it.
Over(s, status) == [s EXCEPT !.at = "none", !.status = status, !.known = {}, !.read = {}, !.attempt = 0]
Again(s) == [s EXCEPT !.at = "connect", !.read = {}, !.attempt = @ + 1]

\* FailedRun with <= for <.
FailedRunLate(s) == IF s.attempt + 1 <= MaxAttempts THEN Again(s) ELSE Over(s, "error")
\* runWithRetries: the run starts again, or it is over.
FailedRun(s) == IF s.attempt + 1 < MaxAttempts THEN Again(s) ELSE Over(s, "error")

SyncedRun(s) == [Over(s, "done") EXCEPT !.synced = @ \cup s.known]

\* A query that has no data is pending again.
Fetching(q) == [q EXCEPT !.fetching = TRUE, !.failed = @ /\ q.loaded]

\* The transfers are asked for as soon as the query is enabled.
FetchWhenDone(v) ==
  query' = IF sync'[v].status = "done" /\ sync'[v].mounted THEN Fetching(query) ELSE query

Connect(v) ==
  /\ sync[v].at = "connect"
  /\ \E s \in {[sync[v] EXCEPT !.at = "look"], FailedRun(sync[v])} : sync' = [sync EXCEPT ![v] = s]
  /\ UNCHANGED <<resolved, appNode, query>>

\* MissesAny with every for some.
MissesAll(known, existing) == \A n \in known : n \notin existing
MissesAny(known, existing) == \E n \in known : n \notin existing

\* getAppNodeUserWallet gives the first wallet.
Look(v) ==
  /\ sync[v].at = "look"
  /\ LET s == sync[v]
         found == IF appNode = <<>> THEN [s EXCEPT !.at = "create"]
                  ELSE IF MissesAny(s.known, appNode[1]) THEN [s EXCEPT !.at = "update", !.read = appNode[1]]
                  ELSE SyncedRun(s)
     IN \E t \in {found, FailedRun(s)} : sync' = [sync EXCEPT ![v] = t]
  /\ FetchWhenDone(v)
  /\ UNCHANGED <<resolved, appNode>>

CreateAppNodeWallet(v) ==
  /\ sync[v].at = "create"
  /\ \/ /\ Len(appNode) < MaxWallets
        /\ appNode' = Append(appNode, sync[v].known)
        /\ \E t \in {SyncedRun(sync[v]), FailedRun(sync[v])} : sync' = [sync EXCEPT ![v] = t]
     \/ /\ sync' = [sync EXCEPT ![v] = FailedRun(sync[v])]
        /\ UNCHANGED appNode
  /\ FetchWhenDone(v)
  /\ UNCHANGED resolved

\* Whether PATCH merges or replaces is not known (utils/appNodeApi.ts:53).
UpdateAppNodeWallet(v) ==
  /\ sync[v].at = "update"
  /\ LET payload == sync[v].read \cup sync[v].known
     IN \/ /\ \E w \in {payload, payload \cup appNode[1]} : appNode' = [appNode EXCEPT ![1] = w]
           /\ \E t \in {SyncedRun(sync[v]), FailedRun(sync[v])} : sync' = [sync EXCEPT ![v] = t]
        \/ /\ sync' = [sync EXCEPT ![v] = FailedRun(sync[v])]
           /\ UNCHANGED appNode
  /\ FetchWhenDone(v)
  /\ UNCHANGED resolved

SyncStep(v) == Connect(v) \/ Look(v) \/ CreateAppNodeWallet(v) \/ UpdateAppNodeWallet(v)

\* The backend's answer, after the query's own retries.
EndFetch ==
  /\ query.fetching
  /\ \E failed \in BOOLEAN :
       query' = [loaded |-> query.loaded \/ ~failed, failed |-> failed, fetching |-> FALSE]
  /\ UNCHANGED <<resolved, sync, appNode>>

\* What the History tab shows.
Content(s) ==
  IF s.status = "syncing" \/ (s.status = "done" /\ query.fetching /\ ~query.loaded) THEN "skeleton"
  ELSE IF s.status = "error" \/ query.failed THEN "error"
  ELSE "list"

\* What the screen of an asset shows: the query is the other screens' too, so
\* that its error comes before what is said of an asset without a history.
HistoryEmptyState(s) ==
  IF Content(s) # "list" THEN Content(s)
  ELSE IF ~s.enabled THEN "unsupported"
  ELSE IF s.status = "done" /\ query.loaded THEN "list" ELSE "empty"

OffersRetry(v) ==
  "error" = IF v = "history" THEN Content(sync[v]) ELSE HistoryEmptyState(sync[v])

\* The retry of whichever failed.
TapRetry(v) ==
  /\ sync[v].mounted /\ OffersRetry(v)
  /\ IF sync[v].status = "error"
     THEN sync' = [sync EXCEPT ![v] = Effect(sync[v], Handed(sync[v], resolved))] /\ UNCHANGED query
     ELSE query' = Fetching(query) /\ UNCHANGED sync
  /\ UNCHANGED <<resolved, appNode>>

\* The History tab has the gesture.
PullToRefresh(v) ==
  /\ v = "history" /\ sync[v].mounted /\ Content(sync[v]) = "list"
  /\ query' = Fetching(query)
  /\ UNCHANGED <<resolved, sync, appNode>>

SyncNext ==
  \/ \E v \in Views : Mount(v) \/ Unmount(v) \/ SyncStep(v) \/ TapRetry(v) \/ PullToRefresh(v)
  \/ \E n \in Networks : Resolve(n)
  \/ EndFetch

\* The app-node or the client's time limit answers every call.
SyncSpec == SyncInit /\ [][SyncNext]_syncVars /\ \A v \in Views : WF_syncVars(SyncStep(v))

(***************************************************************************)
(* What a screen believes registered is: a network in syncedKeys has its   *)
(* address in a wallet of the user's, whichever calls failed, were done    *)
(* again or only reported failed, and whatever another screen registered   *)
(* meanwhile.                                                              *)
(***************************************************************************)
SyncedIsRegistered ==
  \A v \in Views : sync[v].synced \subseteq UNION ToSet(appNode)

(***************************************************************************)
(* "This re-syncs whenever a *new* address key appears, not just once on   *)
(* mount, since e.g. bitcoin can resolve after ethereum"                   *)
(* (hooks/useAppNodeWalletSync.ts:36): the address of a network that has   *)
(* resolved is registered, or the screen shows that it failed, or is left. *)
(***************************************************************************)
ResolvedIsSynced ==
  \A v \in Views, n \in Networks :
    (sync[v].mounted /\ n \in Handed(sync[v], resolved))
      ~> (n \in sync[v].synced \/ sync[v].status = "error" \/ ~sync[v].mounted)
=============================================================================
