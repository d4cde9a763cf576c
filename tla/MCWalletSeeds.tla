--------------------------- MODULE MCWalletSeeds ---------------------------
(* Instances of WalletSeeds for TLC. *)
EXTENDS WalletSeeds, TLC

CONSTANTS d1, d2, s1, s2, s3, u1, u2, r1, r2

\* Seeds and uploads are interchangeable, and so are phones.
Symmetries == Permutations(Devices) \cup Permutations(Seeds) \cup Permutations(Uploads)
  \cup Permutations(Restores)
=============================================================================
