--------------------------- MODULE HostedTransport ---------------------------
(***************************************************************************)
(* The transport of a deployment without an indexer of its own: the        *)
(* consumer polls Tether's hosted API for each merchant                    *)
(* (apps/backend/src/modules/indexer/adapters/                             *)
(* wdk-indexer-transfer.adapter.ts) and enqueues what it has not seen.     *)
(*                                                                         *)
(* Every `await` ends a step.  The merchants of a poll are read side by    *)
(* side; one whose state cannot be read or saved rejects the whole poll,   *)
(* while the others go on and save theirs.                                 *)
(***************************************************************************)
EXTENDS Naturals, Sequences, SequencesExt

CONSTANTS
  Pollers,      \* backend processes
  Shops,        \* merchantAddresses
  TxHashOf,     \* Shops -> the hashes of the payments to it, oldest first
  Malformed,    \* hashes of items that lack a field or fail validation
  NewestFirst,  \* the order of a page, which the API does not document
  PageLimit,    \* the `limit` of a poll
  MaxLosses     \* bound: failed calls and crashes

ASSUME HostedAssumption ==
  /\ IsFiniteSet(Shops) /\ \A m \in Shops : TxHashOf[m] \in Seq(ToSet(TxHashOf[m]))
  /\ NewestFirst \in BOOLEAN /\ PageLimit \in Nat \ {0} /\ MaxLosses \in Nat

VARIABLES
  paidTo,        \* Shops -> how many of its payments are on the chain
  seenTxHashes,  \* the collection indexer_states
  reading,       \* readForMerchant of each process, [at, page, merged, events]
  polling,       \* where a process's poll is
  toAdd,         \* the events it has still to add to the queue
  added,         \* history: the hashes added to the queue
  losses         \* failed calls of Mongo or the queue, and crashes, so far

pollVars == <<paidTo, seenTxHashes, reading, polling, toAdd, added, losses>>

Hashes == UNION {ToSet(TxHashOf[m]) : m \in Shops}
NotReading == [at |-> "idle", page |-> <<>>, merged |-> <<>>, events |-> <<>>]
Finished == [NotReading EXCEPT !.at = "done"]

HostedTypeOK ==
  /\ paidTo \in [Shops -> Nat] /\ losses \in 0..MaxLosses
  /\ \A m \in Shops : seenTxHashes[m] \in Seq(Hashes)
  /\ \A p \in Pollers, m \in Shops :
       /\ reading[p][m].at \in {"idle", "asking", "found", "saving", "done"}
       /\ \A f \in {"page", "merged", "events"} : reading[p][m][f] \in Seq(Hashes)
  /\ polling \in [Pollers -> {"idle", "reading", "rejected", "adding"}]
  /\ toAdd \in [Pollers -> Seq(Hashes)] /\ added \subseteq Hashes

HostedInit ==
  /\ paidTo = [m \in Shops |-> 0] /\ seenTxHashes = [m \in Shops |-> <<>>]
  /\ reading = [p \in Pollers |-> [m \in Shops |-> NotReading]]
  /\ polling = [p \in Pollers |-> "idle"] /\ toAdd = [p \in Pollers |-> <<>>]
  /\ added = {} /\ losses = 0

LastN(s, n) == SubSeq(s, IF Len(s) > n THEN Len(s) - n + 1 ELSE 1, Len(s))

\* [...new Set(s)]
Distinct(s) ==
  FoldLeft(LAMBDA kept, h : IF Contains(kept, h) THEN kept ELSE Append(kept, h), <<>>, s)

\* getUsdtTransfers: the latest payments, PageLimit at most.
UsdtTransfers(m) ==
  LET page == LastN(SubSeq(TxHashOf[m], 1, paidTo[m]), PageLimit)
  IN IF NewestFirst THEN Reverse(page) ELSE page

\* toTransferEvent makes no event of some items.
IsNewEvent(h, seen) == h \notin Malformed /\ ~Contains(seen, h)
IsNewItem(h, seen) == ~Contains(seen, h)

NewHashes(page, seen) ==
  FoldLeft(LAMBDA events, h : IF IsNewEvent(h, seen) THEN Append(events, h) ELSE events, <<>>, page)
NewItems(page, seen) == SelectSeq(page, LAMBDA h : IsNewItem(h, seen))

\* Hashes of items that became no event are recorded too.
MergedItems(page, seen) ==
  LastN(seen \o NewItems(page, seen), IF page = <<>> THEN 1 ELSE Len(page))
\* newHashes is that of the events; a page of none is kept as one.
Merged(page, seen) ==
  LastN(seen \o NewHashes(page, seen), IF page = <<>> THEN 1 ELSE Len(page))

Pay(m) ==
  /\ paidTo[m] < Len(TxHashOf[m])
  /\ paidTo' = [paidTo EXCEPT ![m] = @ + 1]
  /\ UNCHANGED <<seenTxHashes, reading, polling, toAdd, added, losses>>

Poll(p) ==
  /\ polling[p] = "idle"
  /\ \A m \in Shops : reading[p][m] = NotReading
  /\ polling' = [polling EXCEPT ![p] = "reading"]
  /\ reading' = [reading EXCEPT ![p] = [m \in Shops |-> [NotReading EXCEPT !.at = "asking"]]]
  /\ UNCHANGED <<paidTo, seenTxHashes, toAdd, added, losses>>

May(loss) == IF loss THEN losses < MaxLosses /\ losses' = losses + 1 ELSE UNCHANGED losses

\* The API's answer, or its failure, which counts as no events.
AnswerTransfers(p, m) ==
  /\ reading[p][m].at = "asking"
  /\ \/ reading' = [reading EXCEPT ![p][m].at = "found", ![p][m].page = UsdtTransfers(m)]
     \/ reading' = [reading EXCEPT ![p][m] = Finished]
  /\ UNCHANGED <<paidTo, seenTxHashes, polling, toAdd, added, losses>>

\* Mongo rejects: Promise.all rejects at once, the other merchants go on.
Reject(p, m) ==
  /\ reading[p][m].at \in {"found", "saving"}
  /\ reading' = [reading EXCEPT ![p][m] = NotReading]
  /\ polling' = [polling EXCEPT ![p] = "rejected"]
  /\ May(TRUE)
  /\ UNCHANGED <<paidTo, seenTxHashes, toAdd, added>>

\* Nothing is saved when nothing is new.
FindState(p, m) ==
  LET seen == Distinct(seenTxHashes[m])
      page == reading[p][m].page
      events == NewHashes(page, seen)
  IN /\ reading[p][m].at = "found"
     /\ reading' = [reading EXCEPT ![p][m] =
          IF events = <<>> THEN Finished
          ELSE [at |-> "saving", page |-> <<>>, merged |-> Merged(page, seen), events |-> events]]
     /\ UNCHANGED <<paidTo, seenTxHashes, polling, toAdd, added, losses>>

\* findOneAndUpdate sets the list that was merged when the state was found.
SaveState(p, m) ==
  /\ reading[p][m].at = "saving"
  /\ seenTxHashes' = [seenTxHashes EXCEPT ![m] = reading[p][m].merged]
  /\ reading' = [reading EXCEPT ![p][m].at = "done", ![p][m].merged = <<>>]
  /\ UNCHANGED <<paidTo, polling, toAdd, added, losses>>

ReadEnds(p) == \A m \in Shops : reading[p][m].at \in {"idle", "done"}

\* results.flat()
ReadEvents(p) ==
  FoldLeft(LAMBDA all, m : all \o reading[p][m].events, <<>>, SetToSeq(Shops))

\* Nothing of a poll that was rejected is enqueued.
EndRead(p) ==
  /\ polling[p] \in {"reading", "rejected"} /\ ReadEnds(p)
  /\ toAdd' = [toAdd EXCEPT ![p] =
       IF polling[p] = "rejected" THEN <<>> ELSE ReadEvents(p)]
  /\ reading' = [reading EXCEPT ![p] = [m \in Shops |-> NotReading]]
  /\ polling' = [polling EXCEPT ![p] = "adding"]
  /\ UNCHANGED <<paidTo, seenTxHashes, added, losses>>

\* queue.add; when it fails the rest of the batch is dropped.
AddToQueue(p) ==
  /\ polling[p] = "adding" /\ toAdd[p] # <<>>
  /\ \/ /\ added' = added \cup {Head(toAdd[p])}
        /\ toAdd' = [toAdd EXCEPT ![p] = Tail(@)] /\ May(FALSE)
     \/ toAdd' = [toAdd EXCEPT ![p] = <<>>] /\ UNCHANGED added /\ May(TRUE)
  /\ UNCHANGED <<paidTo, seenTxHashes, reading, polling>>

EndPoll(p) ==
  /\ polling[p] = "adding" /\ toAdd[p] = <<>>
  /\ polling' = [polling EXCEPT ![p] = "idle"]
  /\ UNCHANGED <<paidTo, seenTxHashes, reading, toAdd, added, losses>>

CrashPoller(p) ==
  /\ polling[p] # "idle" /\ May(TRUE)
  /\ polling' = [polling EXCEPT ![p] = "idle"] /\ toAdd' = [toAdd EXCEPT ![p] = <<>>]
  /\ reading' = [reading EXCEPT ![p] = [m \in Shops |-> NotReading]]
  /\ UNCHANGED <<paidTo, seenTxHashes, added>>

HostedNext ==
  \/ \E m \in Shops : Pay(m)
  \/ \E p \in Pollers :
       \/ Poll(p) \/ EndRead(p) \/ AddToQueue(p) \/ EndPoll(p) \/ CrashPoller(p)
       \/ \E m \in Shops : AnswerTransfers(p, m) \/ Reject(p, m) \/ FindState(p, m) \/ SaveState(p, m)

HostedSpec == HostedInit /\ [][HostedNext]_pollVars

(***************************************************************************)
(* The cursor is saved before the transfers are enqueued                   *)
(* (wdk-indexer-transfer.adapter.ts:73-82), so a call that fails or a      *)
(* crash in between loses them for good.  Nothing else does: without one,  *)
(* a hash that is recorded as seen is in the queue, or a process that read *)
(* it is about to add it, however the polls of the processes overlap.      *)
(***************************************************************************)
AboutToAdd(p) ==
  ToSet(toAdd[p]) \cup UNION {ToSet(reading[p][m].events) : m \in Shops}

SeenIsDispatched ==
  losses = 0 =>
    \A m \in Shops : ToSet(seenTxHashes[m]) \subseteq added \cup UNION {AboutToAdd(p) : p \in Pollers}
=============================================================================
