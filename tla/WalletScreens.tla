--------------------------- MODULE WalletScreens ---------------------------
(***************************************************************************)
(* The screens that show what the wallet holds: the dashboard              *)
(* (apps/rn-wdk-exercise/app/(wallet)/(tabs)/index.tsx), whose balances    *)
(* come from several queries (hooks/useAssetBalances.ts) and whose prices  *)
(* come from another, and the screen of one asset with its chart           *)
(* (app/(wallet)/asset/[id].tsx, components/asset/PriceChart.tsx).  The    *)
(* two are separate here.                                                  *)
(*                                                                         *)
(* An amount is 0, 1 or unknown.  The queries are TanStack Query's: a      *)
(* refetch gives up the fetch under way when there is data, and else joins *)
(* it; data outlives a fetch that fails.  A fetch of balances is early or  *)
(* late: asked for before, or when or after, the dashboard's timer ran     *)
(* out.                                                                    *)
(***************************************************************************)
EXTENDS Naturals, FiniteSetsExt

CONSTANTS
  Coins,      \* ALL_ASSET_CONFIGS
  SourceOf,   \* Coins -> the query that reads its balance
  Charted,    \* coins whose price history CoinGecko has
  Ranges,     \* PRICE_HISTORY_RANGES
  FirstRange  \* the first of them

NoCoin == "none"

ASSUME ScreensAssumption == IsFiniteSet(Coins) /\ NoCoin \notin Coins /\ FirstRange \in Ranges

VARIABLES
  home,       \* DashboardScreen, with its timer and settledRefetchRan
  waits,      \* handleRefresh calls under way -> the queries they wait for
  balances,   \* the queries of useAssetBalances: when their figures were asked for, and
              \* those under way; history: why a late fetch has not replaced an early one
  quotes,     \* usePrices: [answered, data], answered when its first fetch has ended
  asset,      \* AssetDetailScreen: [coin, range]
  series      \* usePriceHistory, by key: [status, fetching, points]

homeVars == <<home, waits, balances, quotes>>
assetVars == <<asset, series>>
screenVars == <<homeVars, assetVars>>

Unknown == 9   \* null, undefined, or a result without success
Sources == {SourceOf[c] : c \in Coins}
Refreshers == {"settled", "pull"}  \* who called handleRefresh: the timer or the user
Figures == {0, 1, Unknown}
NoFigures == [c \in Coins |-> Unknown]
Keys == Coins \X Ranges
Fetches == {"none", "early", "late"}
NewSeries == [status |-> "pending", fetching |-> FALSE, points |-> "none"]

ScreensTypeOK ==
  /\ home \in [status : {"loading", "ready", "error"}, timer : BOOLEAN, ran : BOOLEAN,
               settled : BOOLEAN, refreshing : BOOLEAN, filter : {"all", "mainnet", "testnet"}]
  /\ DOMAIN waits \subseteq Refreshers /\ \A r \in DOMAIN waits : waits[r] \subseteq Sources
  /\ balances \in [Sources -> [figure : Fetches, fetch : Fetches, missed : {"no", "joined", "failed"},
                               data : [Coins -> Figures]]]
  /\ quotes \in [answered : BOOLEAN, data : [Coins -> Figures]]
  /\ asset \in [coin : Coins \cup {NoCoin}, range : Ranges]
  /\ series \in [Keys -> [status : {"pending", "success", "error"}, fetching : BOOLEAN,
                          points : {"none", "empty", "some"}]]

ScreensInit ==
  /\ home = [status |-> "loading", timer |-> FALSE, ran |-> FALSE, settled |-> FALSE,
             refreshing |-> FALSE, filter |-> "all"]
  /\ waits = <<>>
  /\ balances = [s \in Sources |-> [figure |-> "none", fetch |-> "early", missed |-> "no", data |-> NoFigures]]
  /\ quotes = [answered |-> FALSE, data |-> NoFigures]
  /\ asset = [coin |-> NoCoin, range |-> FirstRange]
  /\ series = [k \in Keys |-> NewSeries]

(* The dashboard. *)

BalanceByAssetId(c) == balances[SourceOf[c]].data[c]

ComputeFiatValue(amount, price) ==
  IF amount = Unknown \/ price = Unknown THEN Unknown ELSE amount * price

Fiat(c) == ComputeFiatValue(BalanceByAssetId(c), quotes.data[c])
Valued == {c \in Coins : Fiat(c) # Unknown}

\* TotalFiat that starts from 0.
SumOfRows == MapThenSumSet(Fiat, Valued)
TotalFiat == IF Valued = {} THEN Unknown ELSE MapThenSumSet(Fiat, Valued)

\* A query that isLoading.
AwaitsFirst(s) == balances[s].fetch # "none" /\ balances[s].figure = "none"
IsLoading == \E s \in Sources : AwaitsFirst(s)
HasAnyBalance == \E s \in Sources : balances[s].figure # "none"
Hero ==
  IF (~quotes.answered \/ (IsLoading /\ ~HasAnyBalance)) /\ TotalFiat = Unknown THEN "skeleton"
  ELSE IF TotalFiat = Unknown THEN "dash" ELSE "total"

\* The dependencies of the effect with the timer, had refetchAll no useCallback.
ChangesWithRender(before, after) == before # after
Changes(before, after) == before.status # after.status

\* The clean-up and the effect that follow a render.
AfterRender(after) ==
  IF ~Changes(home, after) THEN after
  ELSE IF after.status # "ready" \/ after.ran THEN [after EXCEPT !.timer = FALSE]
  ELSE [after EXCEPT !.timer = TRUE, !.ran = TRUE]

\* useWalletBootstrap comes to an end, or is tried again.
Bootstrap ==
  /\ \/ home.status = "loading" /\ \E s \in {"ready", "error"} : home' = AfterRender([home EXCEPT !.status = s])
     \/ home.status = "error" /\ home' = AfterRender([home EXCEPT !.status = "loading"])
  /\ UNCHANGED <<waits, balances, quotes>>

ChooseFilter ==
  /\ home.status = "ready"
  /\ \E f \in {"all", "mainnet", "testnet"} \ {home.filter} : home' = AfterRender([home EXCEPT !.filter = f])
  /\ UNCHANGED <<waits, balances, quotes>>

FetchBegun(h) == IF h.settled THEN "late" ELSE "early"

\* A first fetch is joined.  Another one is given up, and lets go those who
\* waited for it.
HandleRefresh(r, after) ==
  /\ r \notin DOMAIN waits
  /\ waits' = [q \in DOMAIN waits \cup {r} |->
                IF q = r THEN Sources ELSE {s \in waits[q] : AwaitsFirst(s)}]
  /\ balances' = [s \in Sources |->
       IF ~AwaitsFirst(s) THEN [balances[s] EXCEPT !.fetch = FetchBegun(after)]
       ELSE IF r = "settled" THEN [balances[s] EXCEPT !.missed = "joined"]
       ELSE balances[s]]
  /\ home' = AfterRender([after EXCEPT !.refreshing = TRUE])
  /\ UNCHANGED quotes

SettledRefetch == home.timer /\ HandleRefresh("settled", [home EXCEPT !.timer = FALSE, !.settled = TRUE])
PullToRefreshHome ==
  /\ home.status = "ready" /\ ~home.refreshing /\ ~(IsLoading /\ ~HasAnyBalance)
  /\ HandleRefresh("pull", home)

\* One of the calls has all its answers: its finally.
EndRefresh(r) ==
  /\ r \in DOMAIN waits /\ waits[r] = {}
  /\ waits' = [q \in DOMAIN waits \ {r} |-> waits[q]]
  /\ home' = AfterRender([home EXCEPT !.refreshing = FALSE])
  /\ UNCHANGED <<balances, quotes>>

\* refetchInterval.
FetchAgain(s) ==
  /\ balances[s].fetch = "none"
  /\ balances' = [balances EXCEPT ![s].fetch = FetchBegun(home)]
  /\ UNCHANGED <<home, waits, quotes>>

\* A query ends: with a balance, or none, for each of its coins, or in an error.
EndBalances(s) ==
  /\ balances[s].fetch # "none"
  /\ LET mine == {c \in Coins : SourceOf[c] = s}
         ended == [balances[s] EXCEPT !.fetch = "none"]
     IN \/ \E got \in [mine -> Figures] :
             balances' = [balances EXCEPT ![s] =
               [ended EXCEPT !.figure = balances[s].fetch,
                             !.data = [c \in Coins |-> IF c \in mine THEN got[c] ELSE Unknown]]]
        \/ balances' = [balances EXCEPT ![s] =
             IF balances[s].fetch = "late" THEN [ended EXCEPT !.missed = "failed"] ELSE ended]
  /\ waits' = [q \in DOMAIN waits |-> waits[q] \ {s}]
  /\ UNCHANGED <<home, quotes>>

GetPrices ==
  /\ \E data \in [Coins -> {1, Unknown}] \cup {quotes.data} : quotes' = [answered |-> TRUE, data |-> data]
  /\ UNCHANGED <<home, waits, balances>>

HomeNext ==
  \/ Bootstrap \/ ChooseFilter \/ SettledRefetch \/ PullToRefreshHome \/ GetPrices
  \/ \E r \in Refreshers : EndRefresh(r)
  \/ \E s \in Sources : FetchAgain(s) \/ EndBalances(s)

(* The screen of an asset. *)

QueryKey(coin, range) == <<coin, range>>

\* What is not loaded is fetched, and data may have become stale; a failure is
\* forgotten only if there is no data.
Observe(coin, range) ==
  LET k == QueryKey(coin, range)
      fetched == [series EXCEPT ![k].fetching = TRUE,
                                ![k].status = IF series[k].points = "none" THEN "pending" ELSE @]
  IN series' \in IF series[k].points # "none" THEN {series, fetched} ELSE {fetched}

OpenAsset(c) ==
  /\ asset.coin = NoCoin
  /\ asset' = [coin |-> c, range |-> FirstRange] /\ Observe(c, FirstRange)

CloseAsset ==
  /\ asset.coin # NoCoin
  /\ asset' = [asset EXCEPT !.coin = NoCoin] /\ UNCHANGED series

HasMarketData == LET s == series[QueryKey(asset.coin, asset.range)]
                 IN s.points # "empty"

SetRange(r) ==
  /\ asset.coin # NoCoin /\ r # asset.range /\ HasMarketData
  /\ asset' = [asset EXCEPT !.range = r] /\ Observe(asset.coin, r)

\* isLoading taken for isFetching.
IsFetching(s) == s.fetching
HistoryLoading(s) == s.status = "pending" /\ s.fetching

PriceChart ==
  LET s == series[QueryKey(asset.coin, asset.range)]
  IN IF HistoryLoading(s) THEN "skeleton"
     ELSE IF s.status = "error" THEN "error"
     ELSE IF ~HasMarketData THEN "no data" ELSE "chart"

RetryChart ==
  /\ asset.coin # NoCoin /\ PriceChart = "error"
  /\ Observe(asset.coin, asset.range) /\ UNCHANGED asset

\* The backend's answer; CoinGecko may have left the points out.
EndSeries(k) ==
  /\ series[k].fetching
  /\ \/ \E points \in IF k[1] \in Charted THEN {"empty", "some"} ELSE {"empty"} :
          series' = [series EXCEPT ![k] = [status |-> "success", fetching |-> FALSE, points |-> points]]
     \/ series' = [series EXCEPT ![k].status = "error", ![k].fetching = FALSE]
  /\ UNCHANGED asset

AssetNext ==
  \/ \E c \in Coins : OpenAsset(c)
  \/ \E r \in Ranges : SetRange(r)
  \/ CloseAsset \/ RetryChart
  \/ \E k \in Keys : EndSeries(k)

ScreensNext == (HomeNext /\ UNCHANGED assetVars) \/ (AssetNext /\ UNCHANGED homeVars)

ScreensSpec == ScreensInit /\ [][ScreensNext]_screenVars

(***************************************************************************)
(* Once the wallet is ready and the timer has run out, a figure that was   *)
(* asked for earlier is shown only until the newer answer comes, whatever  *)
(* is tapped, answered and refreshed meanwhile ((tabs)/index.tsx:43-64).   *)
(* No render loses the timer, and no early fetch under way stands in for   *)
(* the second reading, with the exceptions that `missed` records: the      *)
(* reading failed, or the query was still in its first fetch, which the    *)
(* refetch joins without beginning another.                                *)
(***************************************************************************)
EarlyFiguresAreReread ==
  home.status = "ready" /\ ~home.timer =>
    \A s \in Sources : balances[s].figure = "early" =>
      balances[s].fetch = "late" \/ balances[s].missed # "no"

(***************************************************************************)
(* "flipping the selector back to an already-fetched range renders         *)
(* instantly from cache" (hooks/usePriceHistory.ts:4), also while a stale  *)
(* series is fetched again; unless its last fetch failed, which puts an    *)
(* error in the place of the series that is still there.                   *)
(***************************************************************************)
FetchedRangeIsDrawn ==
  [][LET s == series[QueryKey(asset.coin, asset'.range)]
     IN asset'.coin = asset.coin /\ asset'.range # asset.range
          /\ s.points = "some" /\ s.status # "error"
        => PriceChart' = "chart"]_screenVars

(***************************************************************************)
(* A figure that is not known is not shown as zero, "which would read as   *)
(* 'your money is gone'" (components/balance/buildAssetRows.ts:38): a      *)
(* total of 0 is one of coins that were read as 0 and have a price.        *)
(***************************************************************************)
UnknownIsNotZero ==
  Hero = "total" /\ TotalFiat = 0 =>
    \E c \in Coins : /\ balances[SourceOf[c]].figure # "none" /\ BalanceByAssetId(c) = 0
                     /\ quotes.data[c] # Unknown
=============================================================================
