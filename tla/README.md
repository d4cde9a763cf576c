# Verification of the UTL cashback wallet

A user pays a merchant with USDT from a wallet in the phone app
(`apps/rn-wdk-exercise`).  An indexer sees the payment and publishes it; the
backend (`apps/backend`, NestJS, several processes behind a load balancer)
turns it into a *coupon*; the user redeems the coupon and the backend pays the
cashback out of its treasury account on the chain.  What must not go wrong is
what involves money and several actors: that one payment gives one coupon, that
the coupon belongs to whoever paid, and that it is paid out once.  Beside it
stand the sign-in session that every call of the app goes through, and the seed
of the user's wallet with its copies in the cloud and on the server.  That core
is modelled in most detail.  Around it are
smaller parts that share no state with each other: the transport of a deployment
without an indexer, the copies the backend serves, and on the phone the lock, the
secure storage, a payment, the cashback screen, the registration of addresses
and the screens themselves.  Everything is checked with TLC on small instances,
and what is said about safety is proved with TLAPS for any number of requests,
processes, coupons, users, screens and values.

## Inventory

| part of the system | state | operations | what is hard | what makes it correct |
|---|---|---|---|---|
| coupon redemption (`coupons/coupons.service.ts`) | coupons in Mongo; a promise queue per process; a Redis lock; the treasury's nonce on the chain | `claimCoupon`, `linkOrphanedCoupons` | several processes, crashes, the lock's TTL, answers lost by Mongo, Redis and the RPC node | a coupon is paid at most once and to its owner; a payout is recorded; "please retry" is only said when nothing was sent; transfers do not displace each other; requests end |
| stream consumer (`modules/indexer/consumers`, `adapters/redis-stream-…`) | the consumer group's cursor, the batch in memory | the read-enqueue loop | two processes on a group, entries deleted by another service, acknowledging before enqueueing | nothing is enqueued twice |
| transfer processor (`processors/transfer.processor.ts`) | Bull's jobs in Redis, coupons | `handle` | a stalled job runs twice, a job that throws, a stale read of the users | one coupon per transaction; a queued payment gets its coupon |
| wallet registration (`wallets`, `users`) | users with their wallet address | `registerAddress`, `upsertBackup` | a registration that stops half-way, wallets that change hands, races with the processor | only who held the wallet owns the coupon, and keeps it; orphans are adopted |
| hosted transport (`adapters/wdk-indexer-…`) | a cursor per merchant in Mongo | `read`, and the consumer's dispatch | the cursor is saved before the dispatch; overlapping polls; pages | without a failure nothing is recorded as seen that is not on its way to the queue |
| price cache (`prices`) | in the memory of a process: prices, histories, the calls under way | `getPrices`, `getPriceHistory` | shared calls, late and failing ones, copies that expire while requests wait | an answer never gets older, nor does a price go missing but by an answer without it |
| token-transfer proxy (`wdk-app-node`) | Redis: a last good copy per page | `getTokenTransfers` | retries, failing reads and writes of the copy | what was listed once is listed again |
| sign-in session (app: `utils/api.ts`, `useCognito`, `authStore`, `settings.tsx`) | user and tokens in memory, the shared refresh, requests | request, 401 and refresh, sign-in, logout | concurrent 401s, a refresh that ends after logout or in the next user's session, late exchanges of a code | one refresh at a time; a retry has a newer token; tokens of one user, the signed-in one; a logout stays one |
| secure storage (app: `secureStorage.ts`) | persisted stores, in chunks under a header | `getItem`, `setItem`, `removeItem` | overlapping writes, a crash between chunks | a value read back is one that was written |
| seeds and backup (app: `useWalletBootstrap`, `useSeedBackup`, `useWalletData`, `cloudBackup.ts`, `wallet-setup/*`) | the seed on the device, the encrypted copies in the cloud and on the server | open, create, reveal, back up, restore, start afresh | copies written one after the other, calls that take effect and are reported failed, a restore that goes on when its screen is left | no seed is replaced silently; who is sent to a backup finds it; a reported backup is what is stored |
| app lock (app: `useAppLockBiometrics`, `AppLockOverlay`, `appLockStore`) | locked, checked, and for whom | decide, lock, unlock | decisions that overtake each other, a change of user during one | no wallet opens before a decision about its own user |
| app-node address sync (app: `useAppNodeWalletSync`, `useFilteredTransactionHistory`) | the app-node's record, the networks known to be synced, the query of transfers | sync, retry, refresh | two screens that sync at once, calls only reported failed, an address that resolves during a sync | what is believed registered is; every address is registered in the end |
| payment and address book (app: `send/*`, `address-book/*`) | the form, what camera and contacts hand it, the review, transfers in flight, contacts | type, pick, scan, select a token, review, confirm | inputs in any order, two taps, results that arrive after the screen has gone | what is sent is valid on its chain and was entered for that token |
| cashback screen (app: `cashback`, `useCoupons`) | two lists, the claim under way | open, switch, claim, refresh | lists read before a claim and delivered after it | a coupon reported as redeemed is not offered again |
| balances and charts (app: `(tabs)/index.tsx`, `asset/[id].tsx`) | queries of balances, prices and price series, a timer | refresh, select a range | several queries of which some fail, overlapping refreshes, late answers | unknown is not shown as zero; early figures are read again; what was drawn is drawn again |
| motion (app: `BottomSheet`, `GlassTabBar`) | what is shown, positions under animation | open, close, drag, measure | events during an animation cancel it | things rest where the state says, and what is closed goes |
| helpers (app: `balance.ts`, `merchantQR.ts`, `addressBook.ts`, `seedEncryption.ts`) | none | unit conversion, parsing | precision, boundaries | part of the actions that call them |
| authentication, merchants, health, configuration (backend) | none beyond the environment | | | |
| presentation (app), infrastructure, contracts, scripts, load tests | | | | |

How they interact: the WDK indexer appends messages to a Redis stream → the
consumer of some backend process reads them and adds Bull jobs → a worker of
some process looks up the payer in `users` and inserts into `coupons` → a
registration (`PUT /wallets/address`, sent by the app whenever it is opened)
writes `users` and adopts orphaned `coupons` → `POST /coupons/claim`
redeems one and pays it.  These parts share Mongo, two Redis instances and the
treasury account, and nothing else; every process runs every part.  The app's
parts meet in the signed-in user: the session sets it, the lock decides for it,
Home opens its wallet after the decision, and the screens behind Home read its
balances, transfers and coupons.

`PROJECT.json` lists the components with their status, and under `hazards` what
is hard to test, each at its line with the property that covers it.

## Modules

| module | what it is |
|---|---|
| `CouponClaim` | redeeming coupons: requests, processes, the lock, the chain |
| `CouponLedger` | what redeeming promises: a coupon is reserved, paid once, or given back unpaid |
| `MCCouponClaim` | instances of `CouponClaim` for TLC |
| `CouponClaimProofs` | types, who owns a coupon, the treasury section and its lock, payouts, retries and the refinement of `CouponLedger`: theorems |
| `CouponIssuance` | stream, consumers, queue, processor, registrations |
| `MCCouponIssuance` | instances of `CouponIssuance` for TLC |
| `CouponIssuanceProofs` | types, ownership and delivery: theorems |
| `Session` | the app's tokens: requests, the shared refresh, sign-in, logout |
| `MCSession` | instances of `Session` for TLC |
| `SessionProofs` | types, the refresh, whose tokens: theorems |
| `WalletSeeds` | the seeds of a user's phones and their copies: bootstrap, backup, restore |
| `MCWalletSeeds` | instances of `WalletSeeds` for TLC |
| `WalletSeedsProofs` | types and what becomes of seeds and copies: theorems |
| `HostedTransport` | the polling adapter, its cursors, and the dispatch |
| `ServedCopies` | prices and transfers answered with a copy when the source fails |
| `AppLock` | the lock's decisions and the Home screen that waits for them |
| `SecureStorage`, `MCSecureStorage` | values in chunks under a header, and an instance |
| `AddressSync` | registering addresses with the app-node, and the transfers' query |
| `Payment` | the form, the address book, the review and the transfers in flight |
| `Redeem` | the cashback screen over the backend's answers |
| `WalletScreens` | the dashboard's balances and total, an asset's chart |
| `Motion`, `MCMotion` | the sheet and the tab bar's highlight, and an instance |
| `MCParts` | these nine and `CouponIssuance`, side by side for one run |
| `BackendPartsProofs` | `HostedTransport` and `ServedCopies`: theorems |
| `PhoneProofs` | `AppLock`, `SecureStorage`, `Payment`, `Redeem`, `AddressSync`, `WalletScreens`, `Motion`: theorems |
| `FoldTheorems` | induction over finite sets, and what a fold over a set or a sequence computes: lemmas for both |
| `PartsProofs` | that a behaviour of `MCParts` is one of each part: theorems |

In all models an action is the code between two `await`s, and a call to Mongo
or Redis may be executed and nevertheless be reported failed.  `map` in
`PROJECT.json` gives the lines behind each definition.  Definitions that stand
before the one the model uses and are not used themselves (`MatchesAny`,
`KeyIsIgnored`, `NotIndexed`, …) are plausible bugs; with one of them in place
the property named in `mutants` fails.

### CouponClaim

`pc[k]` follows the request `k` through `claimCoupon`:

    lookup → swap → enqueue → acquire → populate → record → broadcast → release → confirm → done
                               ↓           ↓          ↓         ↓           ↑
                            giveBack    undoBuild     └───────  │  ─────────┤
                               ↓           └──────────────────  │  ─────────┤
                              done                           verify → undoSend

`userId`, `redeemed`, `redemptionTxHash` are the coupon's fields;
`localTreasuryQueue` is the promise chain of a process and `lock` the Redis key
with its token; `txState`, `nonce`, `pendingNonce`, `minedNonce` are the chain as
the treasury's node reports it.  A claim signs at most one transaction, so a
transaction is named by its claim.  The environment mines, refuses, replaces a
transaction by another of the same nonce, lets the TTL run out, crashes a
process and registers wallets at any time.

Decisions worth knowing:
- The reads before the compare-and-swap (user, coupon) are one step: a user's
  record only grows and a coupon's owner never changes once set, which
  `CouponIssuance` shows (`OwnerIsKept`).  What may change in between is
  `redeemed`, and that the swap tests again.
- A transaction in the node's mempool is visible to that node.  It may be mined,
  reverted, or replaced by one with the same nonce; eviction is not modelled.
- `TtlMayElapse` says whether the locked section may outlast the 120 s TTL.  The
  code's comment argues that it does not; what still holds if it does is the
  question of the run `claim_overrun`.
- `LateArrival` says whether a transaction can reach the chain after the node
  was asked and had no record of it.

### CouponIssuance

`stream`, `group`: the Redis stream since our cursor.  `phase`, `batch`: the
consumer loop of each process.  `worker`, `job`, `holder`, `stalls`: Bull.
`copies`, `payer`, `owner`: the coupons collection by transaction hash (`copies`
counts the documents, so that the unique index is something to be shown).
`wallet`, `held`, `registration`: users, and who ever held which wallet.

- XREADGROUP and XACK are one step: the failure of an XACK is only logged and
  pending entries are never asked for, so it changes nothing.  The code reads at
  most 200 entries; the model reads the backlog.  A batch is a set: the order of
  its `queue.add`s is the message's order in the code, any order here.
- Bull is external and has its defaults, as `registerQueue` and `forRootAsync`
  set no option: one job at a time per worker, one attempt, a stalled job
  is handed out once more.  The stalled worker goes on, which is what makes two
  runs of a job overlap.
- `findOrCreate` and the request are one step (`Register`), since a user without
  a wallet has no effect on anything modelled.  A process that dies during a
  registration is a failed call.

### Session

`request[r]` follows a call of `api`:

    idle → sent → done | failed
             ↓ 401
          refused → waiting → sent (once more) | failed

`refresh[r]` is the refresh token that the refresh begun by `r` sent,
`refreshPromise` the promise the interceptor shares; the store is `userId`,
`accessToken`, `refreshToken`.  `exchange` holds the sign-ins whose
authorization code is being exchanged, `logout` each tap on Logout with the
token it read before its first `await`.  Cognito is external: `issued`,
`expired` and `revoked` say which tokens there are and which it still takes.

- JavaScript runs to completion and promise callbacks that wait for nothing run
  before the next event, so that a step is everything between two answers: the
  end of a refresh clears `refreshPromise` *and* sends the waiting requests
  again, with the token the store has then.
- Id tokens live equally long, so they expire in the order of their issue and
  one number, `expired`, says which are dead.
- `overtaken` is a history variable: whether the signed-in user ever changed
  while a refresh was pending.  No step depends on it.  The code has no guard
  against such a refresh, which is what `session_logout` shows; `SessionIsOwn`
  says that this is the only way to have another's tokens.
- What is persisted, and with it the restart of the app, belongs to
  `SecureStorage`.  `screen` stands for the routes: `auth` or one of
  the screens behind sign-in.

### WalletSeeds

`wallet[d]` is the seed WDK stores on phone `d`; `status[d]` is the status of
`useWalletBootstrap`, its `loading` told apart by the call that is awaited:

    idle → checking → opening ──────────────→ ready
              └─────→ asking → creating ─────→ ready
                        └────→ needs-cloud-restore          (any call → error)

`rescue[d]` is the restore-cloud screen, `mnemonic[d]` what the backup screen
has revealed.  An upload goes `cloud → read → post → done`, the middle one on
Android only (`ReadsBack`); a restore `try → delete → again`.  `cloud` and
`server` are the two copies of the ciphertext, which carries its upload as the
salt is random.

- One user with several phones that share the cloud account and the backend:
  another user has other keys everywhere.  The registration of the address
  is in `CouponIssuance`.
- A call to WDK, the cloud or the server takes effect and succeeds, takes effect
  and is reported failed, or does neither.  A killed app leaves nothing else
  behind, so that `Relaunch` may require that calls have ended.
- WDK is external: `createWallet` and `restoreWallet` refuse to replace a
  wallet, as the code's test for "already exists" says; a generated seed is one that is
  nowhere yet.  Android's sign-in stands before the upload and may only
  prevent it.
- Nobody deletes the cloud's file outside the app; the app itself never does.
- After a successful restore Home starts anew, unless it is still bootstrapping:
  then what it awaits decides.
- The phases of a restore outlive the screen they began on; `CloseRescue`
  only detaches them.  `alone` (no other upload ran with this one or has begun
  since) and `torn` (a wallet was deleted to be replaced, and was not) are
  history variables: no step depends on them.

### The smaller parts

`HostedTransport`.  `polling[p]` is the poll of a process (`idle → reading →
adding → idle`, or `rejected`), `reading[p][m]` `readForMerchant` of one
merchant (`asking → found → saving → done`).  A merchant whose state cannot be
read or saved rejects the poll at once while the others go on and save, so that
their transfers are recorded and never enqueued: `losses` counts such calls and
crashes, and `SeenIsDispatched` says that nothing else loses a transfer.

`ServedCopies`.  Data is its version, 0 for none.  An answer of CoinGecko is
`whole` when it has the price or points one looks at; one that lacks them takes
the place of the copy all the same, as the code wants it, and is quoted as null
or an empty series.  `inFlight[q]` is the call
that requests for `q` join; `quoted` and `listed` remember what was answered
last.  `finally` clears the call before those who waited for it answer.

`AppLock`.  `deciding` holds the `applyLockDecision`s under way, each for the
user it began with; nothing cancels one.  `basis` remembers whom the last decision
or prompt that left the app open was about.  `stray` marks a session that began
while a decision of an earlier one was under way: the code lets that decision
open or lock the new session, and the property leaves it out.

`SecureStorage`.  The platform performs `calls` one by one; `writes` are the
`setItem`s that wait for their chunks.  `mixing` and `overtaken` mark the two
cases in which the code does tear or lose a value: a chunked value over another
one, and a short value set under a chunked write, whose header then replaces it.

`AddressSync`.  `sync[v]` follows a screen's run (`connect → look → create` or
`update`) with `known` and `read`, the addresses it began with and those the
app-node had; `query` is the one query of transfers that both screens observe,
so that a failure under one screen shows under the other, also for an asset
whose history is not supported.  Whether the app-node's PATCH merges addresses
or replaces them cannot be seen from here; both are possible steps.

`Payment`.  `draft` is the form, `handed` the parameters that scanner and picker
give it, whose effect runs only when they change; `review` is what the confirm
screen was opened with.  An amount counts units of the last digit that may be
typed and `GrainOf` says how many of them make a base unit, so that the cut of
`humanAmountToRaw` is a division.  Transfers go on when their screen is left.
Two taps before the prompt is answered start two transfers: the code lets them.

`Redeem`.  `lists[t]` is a query: what it has, whether a fetch is `sent`, or
`read` at the backend and on its way.  `Refetch` gives up the fetch under way
(`invalidateQueries`), `Fetch` joins it.  The backend is its answers; what
happens behind them is `CouponClaim`.

`WalletScreens`.  Two machines.  `home` is the dashboard with the timer of its
second refresh, `balances` the queries by source, `waits` the refreshes and what
each waits for; `Hero` is what the total shows.  A query's `figure` and `fetch`
say whether what it has, and what is under way, was asked for before the timer ran out
(`early`) or not (`late`).  A refetch begins a new fetch, except that TanStack
Query joins a query's first one: then the early answer stays, which `missed`
records (see Findings).  `asset` and `series` are the
screen of an asset and the queries of its chart, by key.  A series outlives the
refetch that fails, its query's status does not (see Findings).

`Motion`.  A value under animation is `[at, aim, slide]`; assigning it ends the
animation under way, which then reports that it has not finished.  That is how
a drag during the slide-out leaves a closed sheet mounted (`sheet_stuck`).

`MCParts` composes them as a sum: `part` picks the one that moves, and the
others stay in an initial state.  A state of the run is a state of one part, so
that the run has as many states as the parts have together, and checks what each
would check alone.

## Runs

| run | expects | what it shows | bounds |
|---|---|---|---|
| `claim` | pass | ownership, payouts, recording, exclusion, safe retry, and `CouponLedger` as a refinement | 3 claims, 2 coupons, 2 users, 2 processes, 1 crash |
| `claim_overrun` | pass | what survives an overrun TTL and late transactions; requests end, also behind the lock of a process that died | 2 claims, 2 coupons, 2 processes, 1 crash, `TtlMayElapse`, `LateArrival` |
| `claim_hash` | violation | a redeemed coupon may have no hash, against the comment at `coupons.service.ts:385` | 2 claims, 1 coupon |
| `ownership` | pass | who owns a coupon, that it is kept, that orphans are adopted, that a queued payment becomes a coupon unless a call failed or its job stalled more often than Bull allows | 2 users, 3 phones, 2 wallets, 1 payment, 1 failed call, 2 crashes |
| `queue_retry` | violation | one failed call and a queued payment has no coupon, against the README's "Bull retries with backoff" | 1 process, 1 payment, 1 failed call |
| `session` | pass | one refresh at a time, retries with newer tokens, whose tokens the store has, every request ends | 2 users, 2 requests, 1 tap on Logout at a time, 3 tokens |
| `session_logout` | violation | a refresh that ends after logout puts tokens back, against the comment at `useCognito.ts:94` that logout clears the local state "regardless" | 1 user, 1 request, 1 tap, 2 tokens |
| `seeds` | pass | no seed is replaced but by a restore, who is sent to a backup finds it, a reported backup is stored, Home has its wallet | 1 phone, 3 seeds, 2 uploads, 1 restore at a time, Android |
| `seeds_rescue` | violation | "Start a New Wallet" is offered when the cloud could only not be read, against the comment at `restore-cloud.tsx:116` that it "has none to offer" | 1 phone, 2 seeds, 1 upload |
| `parts` | pass | one coupon per transaction, nothing enqueued twice, and the properties of the smaller parts | below |
| `sync_missed` | violation | an address that resolves during a sync is never registered, against the comment at `useAppNodeWalletSync.ts:36` | 1 screen, 2 networks |
| `sheet_stuck` | violation | a sheet dragged while it slides out stays over the screen, against the comment at `BottomSheet.tsx:39` | 2 heights |

The parts of `parts`, with what the run says of each:

| part | properties | bounds |
|---|---|---|
| issuance | `OneCouponPerTx`, `BatchesAreFresh` | 2 processes, 2 transactions, one with two payments and one with no transfer to a merchant, one failed call or crash |
| hosted | `SeenIsDispatched` | 2 processes, 2 merchants, 3 payments and a malformed item, pages of 2, one failed call or crash |
| quotes, lists | `NoWorseThanBefore` | 3 requests and 2 calls for the spot prices and a chart; 2 requests for a page; 3 versions |
| lock | `HomeWaitsForDecision` | 2 users, 2 decisions at once |
| storage | `ReadsWholeValue` | values of 0, 0, 2 and 3 chunks, 2 chunked writes at once, crashes at any time |
| pay | `SentAsEntered`, `SavedContactIsOffered` | 2 tokens on 2 chains, 2 addresses, 1 contact, 2 transfers at once |
| redeem | `ToldIsGone` | 1 coupon, 2 claims at once |
| sync | `SyncedIsRegistered` | 2 screens, 2 networks, 2 attempts, 2 wallets at the app-node |
| home, asset | `EarlyFiguresAreReread`, `UnknownIsNotZero`, `FetchedRangeIsDrawn` | 2 coins of 2 queries, 2 ranges |
| motion | `RestsInPlace` | 2 heights, 2 tabs, 2 layouts |

Why the bounds are enough.  Every rule of `CouponClaim` that tests two claims
against each other (the swap, the lock, the nonce) is about a pair; a third
claim lets one wait in a queue while two others meet, and the two coupons
separate "same coupon" from "same treasury".  `AcquireAttempts` is 2 (the code:
120) because only "another attempt is left" and "none is left" differ, and
`VerifyAttempts` 2 or 3 (the code: 3) because only the last round's answer
decides.  In `CouponClaim`
crashes are bounded because each needs one to show its effect and none resets
anything; the theorems have no such bound.  In
`CouponIssuance` a job is run at most `MaxStalledCount + 1` times and two
processes are enough for two of its runs to overlap; a transaction with two
payments and another with one separate "same transaction" from "same message".
One crash cannot use up a job's stalls: `ownership` therefore allows
`MaxStalledCount + 1` of them, so that its job may end as
failed with no call having failed, and `QueuedIsIssuedOrFailed` names that case
(`GivenUp`).  More crashes would find the job ended, or nothing queued yet.

In `Session` two requests meet at one refresh (one
begins it, one joins it or comes just after its end), a request may be used
again and again, and three tokens allow a sign-in, a refresh of it and the
sign-in of another user, or a refresh that outlasts a session and the next one.

In `WalletSeeds` two uploads are what can cross, and three seeds let the wallet,
a copy of it and a phrase typed in differ.  A restore is in flight any number of
times, one after the other.  The theorems are about any number of phones,
uploads and overlapping restores, on iOS and Android.

In the smaller parts two of each actor are what can meet, and three where one
has to come between two (`Callers`).  `Tries` of the proxy is the code's 3,
`MaxAttempts` of the sync 2 (the code: 3, as in `sync_missed`), since only "another
attempt is left" and "none is left" differ.  A page of 2 is overrun by 3 payments,
as one of 20 is by 21.  One crash or failed call is what `SeenIsDispatched` excuses, so more
would excuse no more; the issuance with failed calls *and* crashes is in `ownership`.  Grains of 1 and 2
tell an amount that fits the token's digits from one that is cut.

Deadlock is not checked where the system really stops: when all requests are
answered and nothing is left in the mempool, when the stream is used up and
no device is left to register, or when a part of `parts` has reached its bounds.

Fairness.  `CouponClaim`: a request's next step, while its process lives,
since every call it awaits returns or fails by its timeout.  Nothing of the
key's expiry, which no property needs: a claim gives up waiting for the lock by
itself.  Nothing of the chain, of crashes, of
registrations.  `CouponIssuance`: the loops and workers of the processes, Bull's
taking of waiting jobs and its recovery of abandoned ones, and a device's
registration, which the app repeats whenever it is opened.  Nothing of the
stream.  `Session`: an answer to each request and to each refresh, which the
platform's network timeout guarantees if nothing else does, and the interceptor
itself.  Nothing of the user or of the expiry of tokens.  `AddressSync`: the
calls of a run, which the client's time limit ends.  `Motion`: the end of an
animation, and of a drag, as fingers are lifted.  `WalletSeeds` and the other
parts state safety only and have none: whether a call of WDK or the cloud ever
ends is not in the app's hands.

## Proofs

All theorems are about every value of the constants: any number of claims,
processes, coupons, users, messages, transfers, crashes, failed calls, requests
of the app, taps, tokens, phones, uploads, restores, screens, values and coins.
What they assume of the constants is named in the module that declares them
(`ClaimAssumption`, `HostedAssumption`, …) and evaluated by TLC in the runs; where
it says more than that a bound is a number, the table below names the code.
Every safety invariant and action property of the passing runs is stated by a
theorem.

*Claims.*  `TypeCorrect` first.  `OwnerIsAlone` is inductive with the types
alone: between the swap and the settlement `redeemed` stays true, so that no
other swap can succeed.  `SectionIsExclusive` needs that whoever is in the
section holds the lock, which fails if the TTL can run out: `~TtlMayElapse` is its
assumption.  `OnlyHolderReleases` has none.  The payouts need more: `PayoutInv` in
`CouponClaimProofs` says, for each place a claim can be, what the chain may know
of its transaction, what the coupon records, and that a coupon not owned by a
claim and not redeemed has no transaction that could still be paid.  From it follow `PayoutsAreRecorded`,
`NoDoublePayout`, `RetryHasNoPayout` and the refinement
`RedeemingImplementsLedger`, all under `~LateArrival`: with a transaction that
arrives after the node had no record of it, "please retry" is said of a transfer
that happens.  `AcceptedStays` adds `~TtlMayElapse`.

*Issuance.*  `OwnerInv` carries a fact from a read to the write it justifies:
that a user held the wallet at some time (`held`) is stable, though `wallet` is
not; so the processor's stale `user` and a registration on its way to link have
it, and the coupon gets it.  `NothingBeforeInsert` says a transaction without a
coupon has neither payer nor owner.  From these `NoSecondCoupon`,
`OwnerHadTheWallet`, `OwnersStay`.  `StreamInv` says that what is still in the
stream has no job and is in no batch, and gives `NothingIsReadTwice`.

*Session.*  `SessionInv` adds three parts to the properties.  `RefreshIsOwn`:
the refresh token that was sent is of the same user as the tokens in the store,
or the session was overtaken.  `NothingFromTheFuture`: every token seen anywhere
was issued before, so that the one a refresh brings is newer than any that was
refused.  `CountsItsSendings`: a request goes out at most twice.  The heart is
`SettleKeeps`, which the three ends of a refresh share.

*Seeds.*  `CloudComesFirst` is the invariant behind `SentToABackup`: an upload
that is past the cloud, and a server's copy, imply a copy in the cloud, and no
step takes that away.  For `BackupsAreStored` one has to know that an upload
that is still `alone` excludes every other from being on its way
(`AloneIsAlone`), and what it has written so far.  `HomeHasWallet` is inductive with the
types; `SeedsStay` follows from them.

*Hosted transport.*  `SeenIsHeld`: without a failure, what a cursor records is
in the queue or in the hands of a process that will put it there (`Held`).  Not
inductive: processes that poll at the same time overwrite each other's record,
and a list merged before one of the writes is written after it.  `RecordedIsHeld`
therefore says the same of the lists still to be saved, and `NoneDropped` that
no batch is lost while nothing fails: a process has no events of its last poll
left when it takes over those of the next.  The loops of the code over hashes
are folds, and what they compute is proved in `FoldTheorems` and in the lemmas
about `Distinct`, `NewHashes` and `ReadEvents`.

*Served copies.*  `AnswersGetNoWorse` compares an answer with the last one.  Behind
it is that a call of the price source is alone for its quote from its beginning
to its end (`CallIsAlone`), so that the copy is stale all the while and what the call
brings is no older; that a request that joined finds the copy it came for
(`CallersWait`); and that what was answered last is the copy (`QuotedIsCopy`), so
that neither a failed call nor an expired copy takes a price away.  An answer
without the price does, and the theorem says that nothing else does.

*Lock.*  `DecisionsAreOwn`: after a sign-in every decision in flight is about the
user who signed in.  The property is about the one step that opens Home.

*Secure storage.*  `WholeValueIsRead` is about what can be read now, which does
not say what can be read once the calls in flight have been performed.
`StorageInv` claims the existence of all the stores ahead, one after each call,
and that each of them reads as one of the values that may be read.  A `setItem` extends
them one call at a time (`OneAhead`) or chunk by chunk (`ChunksAhead`).  The two
cases in which the code does tear or lose a value, `mixing` and `overtaken`, are
excluded as in the run.

*Payment.*  `SentIsWhatWasEntered` carries a fact through three places: the amount
in the form is of the asset in the form (`AmountIsOfAsset`), the review is a form
that passed, and the transfers are reviews (`TransfersAreReviewed`), with the
conversion cut by less than a base unit (`RawIsCut`, integer division).  `SavedIsOffered`
needs that the picker knows the network of an asset (`PickerHasNetwork`).

*Cashback screen.*  `AnswersAreLater`: an answer on its way was read after all that
the user was told, because the claim that tells them begins a new fetch and
gives up the old one.

*Address sync.*  `RunKnowsEnough`: a run that updates found an address at the
app-node and has one it missed, so that of two networks none is left out and
nothing another screen wrote meanwhile can be overwritten.  That is all that
keeps `SyncedIsRegistered`; see Findings.

*Screens.*  `EarlyFiguresFollow` needs that the timer runs or has run out once the
wallet is ready (`SettledRefetchIsDue`), and that from then on no early fetch is
under way but a query's first (`Reread`), whatever renders and refreshes came
in between.  `RangesAreDrawn` needs that a series that is there is not pending
(`SeriesIsKept`).  `ZeroIsRead` is about a sum: amounts
are not negative, so a sum of 0 has no other summands (`SumOfZeros`), over any
finite set of coins.

*Motion.*  `MotionInv` says of a value under animation where it will come to rest
(`Settles`), which is what an interruption has to restore.

*Composition.*  `PartsAreParts`: a behaviour of `MCParts` is, seen through the
variables of a part, one of that part's specification.  What the run `parts`
finds of a part is what it would find of the part alone, and the theorems about
the parts hold of it; `PartsTypeCorrect` is the one the run itself states.

The prover has no induction over an arbitrary predicate.  `FoldTheorems` states it
with the set of the values for which something holds (`SetOfNaturals`,
`SetOfSubsets`), by which the function behind a fold is shown to exist
(`FoldExists`, `LeftFoldExists`); what a fold computes follows one step at a time.

| assumption | what in the code justifies it |
|---|---|
| `ClaimAssumption`, `IssuanceAssumption`, `SessionAssumption`, `WalletSeedsAssumption`, `LockAssumption` | sets are what their names say, and a value that stands for "none" is no member of them; at least one attempt |
| `HostedAssumption` | finitely many merchants (`config/blockchain.config.ts:22`), each with a sequence of transfers |
| `CopiesAssumption` | a key of a map is not the value for "no call"; at least one try |
| `StorageAssumption` | values need any number of chunks, and some value needs chunks at all |
| `PayAssumption` | a token has one network, an EVM chain or one that contacts have (`CONTACT_NETWORK_OPTIONS`, `utils/addressBook.ts:44`), and a number of digits; merchants and codes give addresses |
| `SyncAssumption` | two networks, as the effect reads `ethereum` and `bitcoin` of its addresses (`useAppNodeWalletSync.ts:49`) |
| `ScreensAssumption` | finitely many coins (`config/assets.ts`), none of which stands for none; the range selected first is one |
| `MotionAssumption` | a sheet with details has a height |

Only model-checked: liveness (`ClaimEnds`, `OrphansAreAdopted`,
`QueuedIsIssuedOrFailed`, `RequestsEnd`), which is out of the prover's reach,
and with it whatever depends on fairness.

## Findings

The six `violation` runs; `PROJECT.json` quotes the comments they contradict.
Seen while modelling and not checked by a run:

- Privacy mode "masks every amount in the app (hero, rows, history)"
  (`stores/settingsStore.ts:6`); the balance on the screen of an asset
  (`asset/[id].tsx:89`) and the amounts of transfers (`TransferRow`,
  `TransferDetailModal`) are not masked.
- The dashboard's delayed refetch "catches" a first fetch that "can silently
  succeed with a stale/zero value" (`(tabs)/index.tsx:59`).  A first fetch that takes
  more than the two seconds is not caught: the refetch joins it, and its figure stays until
  the query's own interval has passed.  `EarlyFiguresAreReread` excepts it
  (`missed = "joined"`); without the exception TLC finds it violated.
- "Flipping the selector back to an already-fetched range renders instantly from
  cache" (`usePriceHistory.ts:4`).  If the series was fetched again in the background
  and that failed, the query keeps the series with status `error`, and
  `PriceChart.tsx:65` shows the error before it looks at the points.  `FetchedRangeIsDrawn`
  excepts it (`s.status # "error"`); without the exception TLC finds it violated.
- The queries of the app are keyed without the user (`hooks/useCoupons.ts:9`) and
  the query client is not cleared at logout, so that the next user on the phone
  is first shown the lists of the last one.
- `SyncedIsRegistered` holds because there are two networks: a run that updates
  has then read or brings all of them, and there is nothing left to overwrite.
  With a third network in `Networks` TLC finds two screens of which one drops what the
  other has registered (`useAppNodeWalletSync.ts:74` computes the update from
  what was read before).
- That a contact saved in the picker "is guaranteed to appear back" there
  (`utils/addressBook.ts:52`) rests on `CONTACT_NETWORK_OPTIONS` naming every
  network of an asset that is not an EVM chain; nothing in the code ties the two lists.
- The seed is cleared from the clipboard "only … if the clipboard still holds" it
  (`wallet-setup/backup.tsx:83`); what is copied between that reading and the
  clearing is cleared too.

Hazards for which the code makes no promise, and which therefore have no
property: a claim whose verdict stays unknown (`coupons.service.ts:244`) or whose
transaction leaves the mempool; payments lost before the queue
(`redis-stream-transfer.adapter.ts:79`, `transfer-consumer.service.ts:70`); pages
that are too short for what happened between two polls; a session ended by a
refresh that failed for want of a network (`utils/api.ts:39`); one user's request
retried with the next user's token (`utils/api.ts:59`); a second tap on "Confirm &
Send" (`send/confirm.tsx:84`).

## Not modelled, and the plan

What is left to prove: the steps of the liveness properties that are not
themselves temporal, such as that a claim always has a next step while its
process lives, or that an abandoned job has a worker that may take it, each as an
invariant of the specification.

Left out for good: authentication, merchants and health, which have no state;
the look of the app, its wording, onboarding and the screen that shows an
address; deployment, contracts, scripts and load tests.  Of the modelled parts:
the arithmetic of cashback and of fiat values beyond known, zero and not zero;
the names of contacts; which transfers a direction chip leaves visible; eviction
from a mempool; what Cognito, Bull, WDK, TanStack Query and the native modules do
inside.
