---------------------------- MODULE CouponLedger ----------------------------
(***************************************************************************)
(* What redeeming promises, without requests, locks, nonces or failures:   *)
(* a coupon is reserved, and while it is reserved it may be given back or  *)
(* paid by one transaction; once paid it stays reserved and is never paid  *)
(* again.  The state is what Mongo and the chain hold for good.            *)
(***************************************************************************)
CONSTANTS Coupons, Transfers

VARIABLES
  reserved,   \* coupons marked redeemed
  payouts     \* the transfers that paid a coupon, on the chain

LedgerTypeOK == /\ reserved \in SUBSET Coupons
                /\ payouts \in [Coupons -> SUBSET Transfers]

LedgerInit == /\ reserved = {}
              /\ payouts = [c \in Coupons |-> {}]

Reserve(c) == /\ c \notin reserved
              /\ reserved' = reserved \cup {c}
              /\ UNCHANGED payouts

GiveBackCoupon(c) == /\ c \in reserved
                     /\ payouts[c] = {}
                     /\ reserved' = reserved \ {c}
                     /\ UNCHANGED payouts

Pay(c, t) == /\ c \in reserved
             /\ payouts[c] = {}
             /\ payouts' = [payouts EXCEPT ![c] = {t}]
             /\ UNCHANGED reserved

LedgerNext == \E c \in Coupons :
  Reserve(c) \/ GiveBackCoupon(c) \/ \E t \in Transfers : Pay(c, t)

LedgerSpec == LedgerInit /\ [][LedgerNext]_<<reserved, payouts>>
=============================================================================
