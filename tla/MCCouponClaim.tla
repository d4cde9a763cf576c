--------------------------- MODULE MCCouponClaim ---------------------------
EXTENDS CouponClaim, TLC

\* Both coupons were earned by the same wallet.
OnePayer == [c \in Coupons |-> CHOOSE w \in Wallets : TRUE]

Symmetry == Permutations(Claims) \cup Permutations(Instances)
              \cup Permutations(Coupons) \cup Permutations(Users)
=============================================================================
