------------------------------- MODULE Redeem -------------------------------
(***************************************************************************)
(* The cashback screen (apps/rn-wdk-exercise/app/(wallet)/cashback): the   *)
(* coupons of the user, open and claimed, as two queries read them         *)
(* (hooks/useCoupons.ts), and the button that claims one.  The backend is  *)
(* seen through its answers (apps/backend/src/coupons/                     *)
(* coupons.controller.ts); CouponClaim models what happens in there.       *)
(*                                                                         *)
(* A query reads when the backend answers, and its answer may be a long    *)
(* time on its way; the button is disabled when the screen has rendered.   *)
(***************************************************************************)
EXTENDS Naturals, FiniteSets

CONSTANTS
  Offers,     \* the user's coupons
  MaxClaims   \* bound: claims in flight

Tabs == {"available", "claimed"}
NoOffer == ""

VARIABLES
  redeemed,   \* Offers -> "no", "marked" or "paid" at the backend
  cashback,   \* the screen: [mounted, tab, pending, disabled]
  lists,      \* the queries, by tab
  claims,     \* claims in flight
  told        \* history: claims reported on the tab of open coupons

redeemVars == <<redeemed, cashback, lists, claims, told>>

Answers == SUBSET Offers
NoClaim == [coupon |-> NoOffer, at |-> "none", observed |-> FALSE]
NewList == [status |-> "pending", data |-> {}, fetch |-> "none", answer |-> {}]
ClosedScreen == [mounted |-> FALSE, tab |-> "available", pending |-> NoOffer, disabled |-> FALSE]

RedeemTypeOK ==
  /\ redeemed \in [Offers -> {"no", "marked", "paid"}]
  /\ cashback \in [mounted : BOOLEAN, tab : Tabs, pending : Offers \cup {NoOffer}, disabled : BOOLEAN]
  /\ lists \in [Tabs -> [status : {"pending", "success", "error"}, data : Answers,
                         fetch : {"none", "sent", "read"}, answer : Answers]]
  /\ claims \in [1..MaxClaims -> [coupon : Offers \cup {NoOffer}, at : {"none", "sent", "done", "refused"},
                                  observed : BOOLEAN]]
  /\ told \subseteq Offers

RedeemInit ==
  /\ redeemed \in [Offers -> {"no", "paid"}]
  /\ cashback = ClosedScreen /\ lists = [t \in Tabs |-> NewList]
  /\ claims = [k \in 1..MaxClaims |-> NoClaim] /\ told = {}

\* findUnredeemedByUser and findRedeemedByUser.
FindByUser(tab) == {c \in Offers : (redeemed[c] = "no") = (tab = "available")}

\* A query that becomes enabled joins the fetch that is in flight.
Fetch(l) == IF l.fetch = "none" THEN [l EXCEPT !.fetch = "sent"] ELSE l
\* Refetch that joins it.
RefetchJoined(l) == Fetch(l)
\* invalidateQueries gives up the fetch that is in flight.
Refetch(l) == [l EXCEPT !.fetch = "sent", !.answer = {}]

OpenCashback ==
  /\ ~cashback.mounted
  /\ cashback' = [ClosedScreen EXCEPT !.mounted = TRUE]
  /\ lists' = [lists EXCEPT !["available"] = Fetch(@)]
  /\ UNCHANGED <<redeemed, claims, told>>

\* The callbacks of mutate are lost with the screen.
Unobserved == [k \in DOMAIN claims |-> [claims[k] EXCEPT !.observed = FALSE]]

CloseCashback ==
  /\ cashback.mounted
  /\ cashback' = ClosedScreen /\ claims' = Unobserved
  /\ UNCHANGED <<redeemed, lists, told>>

SwitchTab ==
  /\ cashback.mounted
  /\ \E t \in Tabs \ {cashback.tab} :
       /\ cashback' = [cashback EXCEPT !.tab = t]
       /\ lists' = [lists EXCEPT ![t] = Fetch(@)]
  /\ UNCHANGED <<redeemed, claims, told>>

\* What CouponList renders: skeleton, retry, or the items.
CouponList(l) ==
  IF l.status = "success" THEN l.data ELSE {}

Shown(tab) == IF cashback.mounted /\ cashback.tab = tab THEN CouponList(lists[tab]) ELSE {}

RetryList ==
  /\ cashback.mounted /\ lists[cashback.tab].status = "error"
  /\ lists' = [lists EXCEPT ![cashback.tab] = Refetch(@)]
  /\ UNCHANGED <<redeemed, cashback, claims, told>>

ReadList(t) ==
  /\ lists[t].fetch = "sent"
  /\ lists' = [lists EXCEPT ![t].fetch = "read", ![t].answer = FindByUser(t)]
  /\ UNCHANGED <<redeemed, cashback, claims, told>>

DeliverList(t) ==
  /\ \/ /\ lists[t].fetch = "read"
        /\ lists' = [lists EXCEPT ![t] = [NewList EXCEPT !.status = "success", !.data = lists[t].answer]]
     \/ /\ lists[t].fetch # "none"
        /\ lists' = [lists EXCEPT ![t] = [NewList EXCEPT !.status = "error", !.data = lists[t].data]]
  /\ UNCHANGED <<redeemed, cashback, claims, told>>

Render ==
  /\ cashback.mounted
  /\ cashback' = [cashback EXCEPT !.disabled = (cashback.pending # NoOffer)]
  /\ UNCHANGED <<redeemed, lists, claims, told>>

\* A second tap may come before the first has been rendered; its mutation is
\* the one that is observed.
HandleClaim(c, k) ==
  /\ c \in Shown("available") /\ ~cashback.disabled
  /\ claims[k].at = "none"
  /\ cashback' = [cashback EXCEPT !.pending = c]
  /\ claims' = [Unobserved EXCEPT ![k] = [coupon |-> c, at |-> "sent", observed |-> TRUE]]
  /\ UNCHANGED <<redeemed, lists, told>>

\* claimCoupon marks the coupon and then pays it; it may fail in between, or
\* give the coupon back.
ClaimCoupon(k) ==
  LET c == claims[k].coupon
  IN /\ claims[k].at = "sent"
     /\ \/ redeemed[c] = "no" /\ redeemed' = [redeemed EXCEPT ![c] = "marked"] /\ UNCHANGED claims
        \/ redeemed[c] # "no" /\ claims' = [claims EXCEPT ![k].at = "refused"] /\ UNCHANGED redeemed
        \/ /\ redeemed[c] = "marked"
           /\ redeemed' \in {[redeemed EXCEPT ![c] = "no"], [redeemed EXCEPT ![c] = "paid"]}
           /\ claims' = [claims EXCEPT ![k].at = IF redeemed'[c] = "paid" THEN "done" ELSE "refused"]
     /\ UNCHANGED <<cashback, lists, told>>

\* onSuccess and onError.  An answer that is lost is an error.
EndClaim(k) ==
  /\ claims[k].at \in {"done", "refused"}
  /\ claims' = [claims EXCEPT ![k] = NoClaim]
  /\ IF ~claims[k].observed THEN UNCHANGED <<cashback, lists, told>>
     ELSE /\ cashback' = [cashback EXCEPT !.pending = NoOffer]
          /\ \/ /\ claims[k].at = "done"
                /\ lists' = [lists EXCEPT ![cashback.tab] = Refetch(@)]
                /\ told' = IF cashback.tab = "available" THEN told \cup {claims[k].coupon} ELSE told
             \/ UNCHANGED <<lists, told>>
  /\ UNCHANGED redeemed

RedeemNext ==
  \/ OpenCashback \/ CloseCashback \/ SwitchTab \/ RetryList \/ Render
  \/ \E t \in Tabs : ReadList(t) \/ DeliverList(t)
  \/ \E k \in 1..MaxClaims : ClaimCoupon(k) \/ EndClaim(k) \/ \E c \in Offers : HandleClaim(c, k)

RedeemSpec == RedeemInit /\ [][RedeemNext]_redeemVars

(***************************************************************************)
(* A coupon of which the user was told that it is redeemed is not offered  *)
(* again by an answer that was read before: once nothing more is on its    *)
(* way, the list shows none of them (cashback/index.tsx:107).  A claim     *)
(* that is reported while the other tab shows is left out: the fetch in    *)
(* flight is then neither given up nor followed by another.                *)
(***************************************************************************)
ToldIsGone ==
  lists["available"].fetch = "none" => told \cap Shown("available") = {}
=============================================================================
