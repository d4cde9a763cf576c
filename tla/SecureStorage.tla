--------------------------- MODULE SecureStorage ---------------------------
(***************************************************************************)
(* The storage under the session's store                                   *)
(* (apps/rn-wdk-exercise/stores/secureStorage.ts): a value too large for   *)
(* one entry of the platform's secure store is split into chunks under a   *)
(* header.  Every setter of stores/authStore.ts sets an item and waits for *)
(* nothing, so that writes overlap, and the app may die at any moment.     *)
(*                                                                         *)
(* The platform performs calls one by one in the order they were made.     *)
(***************************************************************************)
EXTENDS Naturals, Sequences

CONSTANTS
  Blobs,       \* the values that are set
  ChunksOf,    \* Blobs -> the chunks a value needs, 0 for one stored directly
  MaxWrites,   \* bound: setItems of chunked values in flight, each of another value
  MaxCalls     \* bound: when no more is set

ASSUME StorageAssumption ==
  /\ ChunksOf \in [Blobs -> Nat] /\ \E v \in Blobs : ChunksOf[v] > 0
  /\ "missing" \notin Blobs /\ "torn" \notin Blobs

VARIABLES
  head,        \* the entry `name`: [is, value], or a header [is, count]
  chunk,       \* the entries `name`.i
  calls,       \* calls of the platform not yet performed
  writes,      \* setItems of chunked values in flight, in the order they were made
  lastSet,     \* the store's state, as persist has set it last
  mayRead,     \* history: values that were set since the storage was last at rest, and the one before
  mixing,      \* history: chunks of two values may be there together
  overtaken    \* history: a value stored directly was set under a chunked write

storageVars == <<head, chunk, calls, writes, lastSet, mayRead, mixing, overtaken>>

Missing == "missing"
Torn == "torn"
Indices == UNION {0..(ChunksOf[v] - 1) : v \in Blobs}
Direct(v) == [is |-> "value", value |-> v, count |-> 0]
Header(n) == [is |-> "header", value |-> Missing, count |-> n]
Chunk(v, i) == [value |-> v, at |-> i]
Heads == [is : {"value", "header"}, value : Blobs \cup {Missing}, count : Nat]
Pieces == [value : Blobs \cup {Missing}, at : Indices]

StorageTypeOK ==
  /\ head \in Heads
  /\ chunk \in [Indices -> Pieces]
  /\ \A k \in DOMAIN calls : calls[k].head \in Heads /\ calls[k].piece \in Pieces /\ calls[k].to \in {"head", "chunk"}
  /\ \A k \in DOMAIN writes : writes[k] \in Blobs
  /\ lastSet \in Blobs \cup {Missing, Torn}
  /\ mayRead \subseteq Blobs \cup {Missing, Torn}
  /\ mixing \in BOOLEAN /\ overtaken \in BOOLEAN

StorageInit ==
  /\ head = Direct(Missing)
  /\ chunk = [i \in Indices |-> Chunk(Missing, i)]
  /\ calls = <<>> /\ writes = <<>>
  /\ lastSet = Missing /\ mayRead = {Missing}
  /\ mixing = FALSE /\ overtaken = FALSE

\* getItem, with the chunks put together.
GetItem ==
  IF head.is = "value" THEN head.value
  ELSE LET parts == {chunk[i].value : i \in 0..(head.count - 1)}
       IN IF Missing \in parts THEN Missing
          ELSE IF \E v \in Blobs : parts = {v} /\ ChunksOf[v] = head.count
               THEN CHOOSE v \in Blobs : parts = {v}
               ELSE Torn

SetHead(h) == [to |-> "head", head |-> h, piece |-> Chunk(Missing, 0)]
SetChunk(v, i) == [to |-> "chunk", head |-> Direct(Missing), piece |-> Chunk(v, i)]

\* FirstCalls with the header in front of the chunks.
HeaderFirst(v) ==
  IF ChunksOf[v] = 0 THEN <<SetHead(Direct(v))>>
  ELSE <<SetHead(Header(ChunksOf[v]))>> \o [k \in 1..ChunksOf[v] |-> SetChunk(v, k - 1)]
\* What setItem calls before it waits.
FirstCalls(v) ==
  IF ChunksOf[v] = 0 THEN <<SetHead(Direct(v))>>
  ELSE [k \in 1..ChunksOf[v] |-> SetChunk(v, k - 1)]

\* A chunked value is there or on its way.
Chunked ==
  \/ head.is = "header" \/ writes # <<>>
  \/ \E k \in DOMAIN calls : calls[k].head.is = "header"

SetItem(v) ==
  /\ Len(writes) < MaxWrites /\ Len(calls) < MaxCalls
  /\ \A k \in DOMAIN writes : writes[k] # v
  /\ calls' = calls \o FirstCalls(v)
  /\ writes' = IF ChunksOf[v] = 0 THEN writes
               ELSE Append(writes, v)
  /\ lastSet' = v /\ mayRead' = mayRead \cup {v}
  /\ mixing' = (mixing \/ (ChunksOf[v] > 0 /\ Chunked))
  /\ overtaken' = (overtaken \/ (ChunksOf[v] = 0 /\ writes # <<>>))
  /\ UNCHANGED <<head, chunk>>

\* removeItem, which nothing calls while a write is in flight.
RemoveItem ==
  /\ calls = <<>> /\ writes = <<>> /\ GetItem # Missing
  /\ calls' = <<SetHead(Direct(Missing))>>
              \o [k \in 1..head.count |-> SetChunk(Missing, k - 1)]
  /\ lastSet' = Missing /\ mayRead' = mayRead \cup {Missing}
  /\ UNCHANGED <<head, chunk, writes, mixing, overtaken>>

\* Only the last value set can be read once nothing is in flight.
Rest(restCalls, restWrites) ==
  LET rest == restCalls = <<>> /\ restWrites = <<>>
  IN /\ mayRead' = IF rest THEN {lastSet} ELSE mayRead
     /\ mixing' = (mixing /\ ~rest)

\* The platform performs a call.
Perform ==
  /\ calls # <<>>
  /\ LET call == Head(calls)
     IN /\ head' = IF call.to = "head" THEN call.head ELSE head
        /\ chunk' = IF call.to = "chunk" THEN [chunk EXCEPT ![call.piece.at] = call.piece] ELSE chunk
  /\ calls' = Tail(calls)
  /\ Rest(Tail(calls), writes)
  /\ UNCHANGED <<writes, lastSet, overtaken>>

\* Promise.all is fulfilled: the header is written, after the chunks.
WriteHeader ==
  /\ writes # <<>>
  /\ \A k \in DOMAIN calls : calls[k].to = "chunk" => calls[k].piece.value # Head(writes)
  /\ calls' = Append(calls, SetHead(Header(ChunksOf[Head(writes)])))
  /\ writes' = Tail(writes)
  /\ UNCHANGED <<head, chunk, lastSet, mayRead, mixing, overtaken>>

\* The app dies and is launched again: the store starts with what it reads.
RestartApp ==
  /\ calls' = <<>> /\ writes' = <<>>
  /\ lastSet' = GetItem /\ mayRead' = {GetItem}
  /\ mixing' = (GetItem = Torn) /\ overtaken' = FALSE
  /\ UNCHANGED <<head, chunk>>

StorageNext ==
  \/ \E v \in Blobs : SetItem(v)
  \/ RemoveItem \/ Perform \/ WriteHeader \/ RestartApp

StorageSpec == StorageInit /\ [][StorageNext]_storageVars

(***************************************************************************)
(* If the app died now, what it read would be a whole value: the one that  *)
(* was there or one that has been set since, and the last one set if       *)
(* nothing is in flight.  Left out are writes of a chunked value over      *)
(* another, and a value stored directly that was set under a chunked       *)
(* write, whose header then overwrites it.                                 *)
(***************************************************************************)
ReadsWholeValue == mixing \/ overtaken \/ GetItem \in mayRead

=============================================================================
