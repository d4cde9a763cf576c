-------------------------- MODULE MCCouponIssuance --------------------------
(***************************************************************************)
(* Instances of CouponIssuance for TLC.                                    *)
(***************************************************************************)
EXTENDS CouponIssuance, TLC

CONSTANTS m1, m2, a1, a2, b1, txA, txB, w1, w2, alice, bob, phoneA, phoneA2, phoneB

\* txA pays two merchants, from two wallets; txB pays one.
MCCarries == (m1 :> {a1, a2}) @@ (m2 :> {b1})
MCTxOf == (a1 :> txA) @@ (a2 :> txA) @@ (b1 :> txB)
MCPayerOf == (a1 :> w1) @@ (a2 :> w2) @@ (b1 :> w1)

\* One transfer, for the runs about wallets.
OneCarries == m1 :> {a1}
OneTxOf == a1 :> txA
OnePayerOf == a1 :> w1

\* Alice has the paying wallet on one phone and another wallet on a second;
\* Bob has imported the paying wallet too.
MCUserOf == (phoneA :> alice) @@ (phoneA2 :> alice) @@ (phoneB :> bob)
MCWalletOf == (phoneA :> w1) @@ (phoneA2 :> w2) @@ (phoneB :> w1)
NoDevices == <<>>
=============================================================================
