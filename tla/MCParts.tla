------------------------------ MODULE MCParts ------------------------------
(***************************************************************************)
(* The parts that share no state with each other, side by side for TLC: a  *)
(* behaviour is one of the `part` that it starts with, and the others rest *)
(* in their initial states.  The backend's are the issuance of coupons,    *)
(* the hosted transport and the served copies; the phone's are the lock,   *)
(* the secure storage, a payment, the cashback screen, the address sync,   *)
(* the screens of balances and charts, and what moves on a screen.         *)
(***************************************************************************)
EXTENDS MCCouponIssuance, HostedTransport, ServedCopies,
  AppLock, MCSecureStorage, Payment, Redeem, AddressSync,
  WalletScreens, MCMotion

CONSTANT MaxFaults  \* bound: failed calls and crashes of a behaviour of the issuance

VARIABLE part

Parts == {"issuance", "hosted", "quotes", "lists", "lock", "storage", "pay", "redeem", "sync",
          "home", "asset", "motion"}
backendRest == <<pollVars, copyVars>>
accountVars == <<lockVars, storageVars, payVars, redeemVars, syncVars>>
phoneRest == <<accountVars, screenVars, motionVars>>
allVars == <<vars, backendRest, phoneRest, part>>

PartsInit ==
  /\ part \in Parts
  /\ Init /\ HostedInit /\ CopiesInit
  /\ LockInit /\ StorageInit /\ PayInit /\ RedeemInit /\ SyncInit /\ ScreensInit /\ MotionInit
  \* of a part with several initial states, one where it rests
  /\ part # "lock" => hasSeed = {}
  /\ part # "redeem" => redeemed = [c \in Offers |-> "no"]
  /\ part # "sync" => appNode = <<>>

PartsNext ==
  /\ UNCHANGED part
  /\ \/ part = "issuance" /\ Next /\ errors' + crashes' <= MaxFaults
        /\ UNCHANGED <<backendRest, phoneRest>>
     \/ part = "hosted" /\ HostedNext
        /\ UNCHANGED <<vars, copyVars, phoneRest>>
     \/ part = "quotes" /\ QuotesNext
        /\ UNCHANGED <<vars, pollVars, phoneRest>>
     \/ part = "lists" /\ ListsNext
        /\ UNCHANGED <<vars, pollVars, phoneRest>>
     \/ part = "lock" /\ LockNext
        /\ UNCHANGED <<vars, backendRest, storageVars, payVars, redeemVars, syncVars,
                       screenVars, motionVars>>
     \/ part = "storage" /\ StorageNext
        /\ UNCHANGED <<vars, backendRest, lockVars, payVars, redeemVars, syncVars,
                       screenVars, motionVars>>
     \/ part = "pay" /\ PayNext
        /\ UNCHANGED <<vars, backendRest, lockVars, storageVars, redeemVars, syncVars,
                       screenVars, motionVars>>
     \/ part = "redeem" /\ RedeemNext
        /\ UNCHANGED <<vars, backendRest, lockVars, storageVars, payVars, syncVars,
                       screenVars, motionVars>>
     \/ part = "sync" /\ SyncNext
        /\ UNCHANGED <<vars, backendRest, lockVars, storageVars, payVars, redeemVars,
                       screenVars, motionVars>>
     \/ part = "home" /\ HomeNext
        /\ UNCHANGED <<vars, backendRest, accountVars, assetVars, motionVars>>
     \/ part = "asset" /\ AssetNext
        /\ UNCHANGED <<vars, backendRest, accountVars, homeVars, motionVars>>
     \/ part = "motion" /\ MotionNext
        /\ UNCHANGED <<vars, backendRest, accountVars, screenVars>>

PartsSpec == PartsInit /\ [][PartsNext]_allVars

\* The type invariants of the parts.
PartsTypeOK ==
  /\ part = "issuance" => TypeOK
  /\ part = "hosted" => HostedTypeOK
  /\ part \in {"quotes", "lists"} => CopiesTypeOK
  /\ part = "lock" => LockTypeOK
  /\ part = "storage" => StorageTypeOK
  /\ part = "pay" => PayTypeOK
  /\ part = "redeem" => RedeemTypeOK
  /\ part = "sync" => SyncTypeOK
  /\ part \in {"home", "asset"} => ScreensTypeOK
  /\ part = "motion" => MotionTypeOK

\* A transaction that pays both merchants, an item without a field.
PaymentsTo == ("shopA" :> <<"h1", "bad", "h2">>) @@ ("shopB" :> <<"h2">>)

Chains == ("arb" :> "arbitrum") @@ ("btc" :> "bitcoin")
Grains == ("arb" :> 2) @@ ("btc" :> 1)
Kinds == ("x" :> "evm") @@ ("b" :> "bitcoin")
\* Two coins whose balances come from different queries.
QueryOf == ("eth" :> "evm") @@ ("btc" :> "bitcoin")
QrCodes == {[form |-> "uri", path |-> "x", to |-> "", amount |-> 3],
            [form |-> "plain", path |-> "b", to |-> "", amount |-> 0]}
=============================================================================
