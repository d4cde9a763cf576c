----------------------------- MODULE ServedCopies -----------------------------
(***************************************************************************)
(* What the backend answers with a copy of, when it cannot be had live:    *)
(* prices and price series, copied in the memory of a process              *)
(* (apps/backend/src/prices/prices.service.ts), and the token transfers of *)
(* a user, copied in Redis                                                 *)
(* (apps/backend/src/wdk-app-node/token-transfers.service.ts).             *)
(*                                                                         *)
(* Data is its version: how often the source had changed when it was read. *)
(* An answer of CoinGecko is whole when it has the price looked at, or     *)
(* the points of the series.  What it leaves out the process caches and    *)
(* answers as null, or as an empty series.                                 *)
(* Requests for an unknown symbol, or for one without a market, ask nobody *)
(* and are left out.                                                       *)
(***************************************************************************)
EXTENDS Naturals, FiniteSets

CONSTANTS
  Spot, Charts,  \* what is cached: all spot prices, and each `id:range`
  Callers,       \* requests for prices
  Upcalls,       \* calls of CoinGecko in flight
  Pages,         \* user:limit:skip of a request for transfers
  Lookups,       \* requests for transfers
  Tries,         \* SERVER_RETRY_DELAYS_MS.length + 1
  MaxVersion     \* bound: how often a source changes

Quotes == {Spot} \cup Charts
NoCall == "none"
Versions == 0..MaxVersion   \* 0: nothing, an error
QuoteAnswers == [version : Versions, whole : BOOLEAN]
NoAnswer == [version |-> 0, whole |-> FALSE]

ASSUME CopiesAssumption ==
  /\ NoCall \notin Quotes \cup Upcalls \cup Pages
  /\ MaxVersion \in Nat \ {0} /\ Tries \in Nat \ {0}

VARIABLES
  source,      \* the version that CoinGecko and the app-node have
  cache,       \* Quotes -> [copy, fresh]
  inFlight,    \* Quotes -> the call that new requests join
  upcall,      \* Upcalls -> [of, at, answer]
  caller,      \* Callers -> [of, joined, cached]
  quoted,      \* history: what was answered last, the worst of what was answered together
  redis,       \* Pages -> the version stored
  lookup,      \* Lookups -> [of, at, tries, version]
  listed,      \* history: the version last answered
  redisFailed  \* history: a call of Redis failed or a copy expired

quoteVars == <<cache, inFlight, upcall, caller, quoted>>
listVars == <<redis, lookup, listed, redisFailed>>
copyVars == <<source, quoteVars, listVars>>

NoUpcall == [of |-> NoCall, at |-> "none", answer |-> NoAnswer]
NoCaller == [of |-> NoCall, joined |-> NoCall, cached |-> NoAnswer]
NoLookup == [of |-> NoCall, at |-> "none", tries |-> 0, version |-> 0]

CopiesTypeOK ==
  /\ source \in Versions \ {0}
  /\ cache \in [Quotes -> [copy : QuoteAnswers, fresh : BOOLEAN]]
  /\ inFlight \in [Quotes -> Upcalls \cup {NoCall}]
  /\ upcall \in [Upcalls -> [of : Quotes \cup {NoCall}, at : {"none", "asked", "read"},
                             answer : QuoteAnswers]]
  /\ caller \in [Callers -> [of : Quotes \cup {NoCall}, joined : Upcalls \cup {NoCall},
                             cached : QuoteAnswers]]
  /\ quoted \in [Quotes -> QuoteAnswers]
  /\ redis \in [Pages -> Versions] /\ listed \in [Pages -> Versions]
  /\ lookup \in [Lookups -> [of : Pages \cup {NoCall}, at : {"none", "live", "store", "copy"},
                             tries : 0..Tries, version : Versions]]
  /\ redisFailed \in BOOLEAN

CopiesInit ==
  /\ source = 1
  /\ cache = [q \in Quotes |-> [copy |-> NoAnswer, fresh |-> FALSE]]
  /\ inFlight = [q \in Quotes |-> NoCall] /\ upcall = [f \in Upcalls |-> NoUpcall]
  /\ caller = [r \in Callers |-> NoCaller] /\ quoted = [q \in Quotes |-> NoAnswer]
  /\ redis = [k \in Pages |-> 0] /\ lookup = [l \in Lookups |-> NoLookup]
  /\ listed = [k \in Pages |-> 0] /\ redisFailed = FALSE

SourceChanges ==
  /\ source < MaxVersion /\ source' = source + 1
  /\ UNCHANGED <<quoteVars, listVars>>

------------------------------------------------------------------------------
(* getPrices and getPriceHistory *)

NewCalls == {f \in Upcalls : upcall[f] = NoUpcall}
\* Each request makes a call of its own.
OwnCalls(q) == NewCalls
\* The calls a request may wait for: the one in flight, or a new one.
JoinableCalls(q) == IF inFlight[q] # NoCall THEN {inFlight[q]} ELSE NewCalls

AskQuote(r, q) ==
  /\ caller[r] = NoCaller
  /\ \/ /\ cache[q].fresh
        /\ quoted' = [quoted EXCEPT ![q] = cache[q].copy]
        /\ UNCHANGED <<inFlight, upcall, caller>>
     \/ /\ ~cache[q].fresh
        /\ \E f \in JoinableCalls(q) :
             /\ caller' = [caller EXCEPT ![r] = [of |-> q, joined |-> f, cached |-> cache[q].copy]]
             /\ inFlight' = [inFlight EXCEPT ![q] = f]
             /\ upcall' = IF f \in NewCalls
                          THEN [upcall EXCEPT ![f] = [of |-> q, at |-> "asked", answer |-> NoAnswer]]
                          ELSE upcall
        /\ UNCHANGED quoted
  /\ UNCHANGED <<source, cache, listVars>>

CoinGeckoReads(f) ==
  /\ upcall[f].at = "asked"
  /\ \E whole \in BOOLEAN :
       upcall' = [upcall EXCEPT ![f].at = "read", ![f].answer = [version |-> source, whole |-> whole]]
  /\ UNCHANGED <<source, cache, inFlight, caller, quoted, listVars>>

Expire(q) ==
  /\ cache[q].fresh
  /\ cache' = [cache EXCEPT ![q].fresh = FALSE]
  /\ UNCHANGED <<source, inFlight, upcall, caller, quoted, listVars>>

\* What a request answers when its call has failed: getPrices the copy there
\* is now, getPriceHistory the one there was when it began.
StaleFor(r) == IF caller[r].of = Spot THEN cache[Spot].copy ELSE caller[r].cached

Waiting(f) == {r \in Callers : caller[r].joined = f}
NoBetter(a, b) == a.version < b.version \/ (a.version = b.version /\ (a.whole => b.whole))
Worst(answers) == CHOOSE a \in answers : \A b \in answers : NoBetter(a, b)

\* The call ends, and all that wait for it answer: `finally` comes first.
EndUpcall(f, answers) ==
  LET q == upcall[f].of
  IN /\ inFlight' = [inFlight EXCEPT ![q] = NoCall]
     /\ upcall' = [upcall EXCEPT ![f] = NoUpcall]
     /\ caller' = [r \in Callers |-> IF r \in Waiting(f) THEN NoCaller ELSE caller[r]]
     /\ quoted' = [quoted EXCEPT ![q] = Worst(answers)]
     /\ UNCHANGED <<source, listVars>>

Fetched(f) ==
  LET q == upcall[f].of
  IN /\ upcall[f].at = "read"
     /\ cache' = [cache EXCEPT ![q] = [copy |-> upcall[f].answer, fresh |-> TRUE]]
     /\ EndUpcall(f, {upcall[f].answer})

FetchFails(f) ==
  /\ upcall[f].at # "none"
  /\ EndUpcall(f, {StaleFor(r) : r \in Waiting(f)})
  /\ UNCHANGED cache

------------------------------------------------------------------------------
(* getTokenTransfers *)

AskTransfers(l, k) ==
  /\ lookup[l] = NoLookup
  /\ lookup' = [lookup EXCEPT ![l] = [of |-> k, at |-> "live", tries |-> 1, version |-> 0]]
  /\ UNCHANGED <<source, quoteVars, redis, listed, redisFailed>>

FetchLive(l) ==
  /\ lookup[l].at = "live"
  /\ lookup' = [lookup EXCEPT ![l] =
       IF lookup[l].version = 0 THEN [@ EXCEPT !.version = source] ELSE [@ EXCEPT !.at = "store"]]
  /\ UNCHANGED <<source, quoteVars, redis, listed, redisFailed>>

FetchLiveFails(l) ==
  /\ lookup[l].at = "live"
  /\ lookup' = [lookup EXCEPT ![l] =
       IF @.tries < Tries THEN [@ EXCEPT !.tries = lookup[l].tries + 1, !.version = 0]
       ELSE [@ EXCEPT !.at = "copy", !.version = 0]]
  /\ UNCHANGED <<source, quoteVars, redis, listed, redisFailed>>

AnswerList(l, version) ==
  /\ listed' = [listed EXCEPT ![lookup[l].of] = version]
  /\ lookup' = [lookup EXCEPT ![l] = NoLookup]

\* A write that is reported failed, stored or not, takes the live answer with it.
StoreCopy(l) ==
  LET stored == [redis EXCEPT ![lookup[l].of] = lookup[l].version]
  IN /\ lookup[l].at = "store"
     /\ \/ redis' = stored /\ AnswerList(l, lookup[l].version) /\ UNCHANGED redisFailed
        \/ /\ redis' \in {redis, stored} /\ redisFailed' = TRUE
           /\ lookup' = [lookup EXCEPT ![l].at = "copy", ![l].version = 0] /\ UNCHANGED listed
     /\ UNCHANGED <<source, quoteVars>>

ReadCopy(l) ==
  /\ lookup[l].at = "copy"
  /\ \/ AnswerList(l, redis[lookup[l].of]) /\ UNCHANGED redisFailed
     \/ AnswerList(l, 0) /\ redisFailed' = TRUE
  /\ UNCHANGED <<source, quoteVars, redis>>

CopyExpires(k) ==
  /\ redis[k] # 0
  /\ redis' = [redis EXCEPT ![k] = 0] /\ redisFailed' = TRUE
  /\ UNCHANGED <<source, quoteVars, lookup, listed>>

QuotesNext ==
  \/ SourceChanges
  \/ \E r \in Callers, q \in Quotes : AskQuote(r, q)
  \/ \E q \in Quotes : Expire(q)
  \/ \E f \in Upcalls : CoinGeckoReads(f) \/ Fetched(f) \/ FetchFails(f)

ListsNext ==
  \/ SourceChanges
  \/ \E l \in Lookups : FetchLive(l) \/ FetchLiveFails(l) \/ StoreCopy(l) \/ ReadCopy(l)
  \/ \E l \in Lookups, k \in Pages : AskTransfers(l, k)
  \/ \E k \in Pages : CopyExpires(k)

CopiesNext == QuotesNext \/ ListsNext

CopiesSpec == CopiesInit /\ [][CopiesNext]_copyVars

\* CoinGecko has answered a call of this process, without the price or points.
LeftOut(q) == \E f \in Upcalls :
  upcall[f].of = q /\ upcall[f].at = "read" /\ ~upcall[f].answer.whole

QuoteIsNoWorse(q) ==
  /\ quoted'[q].version >= quoted[q].version
  /\ quoted[q].whole => quoted'[q].whole \/ LeftOut(q)

(***************************************************************************)
(* QuoteAnswers do not get worse.  A process never quotes an older answer of    *)
(* CoinGecko after a newer one, nor an error after any; and a price, once  *)
(* quoted, is quoted as missing only because CoinGecko left it out of a    *)
(* later answer, never because a call failed or a copy expired, although   *)
(* requests share calls and wait for them (prices.service.ts:82-188).  A   *)
(* page of transfers that was answered is answered again, if perhaps with  *)
(* an older list, as long as Redis does its part                           *)
(* (token-transfers.service.ts:48-65).                                     *)
(***************************************************************************)
NoWorseThanBefore ==
  [][/\ \A q \in Quotes : QuoteIsNoWorse(q)
     /\ \A k \in Pages : listed[k] # 0 /\ ~redisFailed' => listed'[k] # 0]_copyVars
==============================================================================
