-------------------------- MODULE MCSecureStorage --------------------------
(* Instances of SecureStorage for TLC. *)
EXTENDS SecureStorage, TLC

\* Two values that fit an entry, one of two chunks and one of three.
ChunksNeeded == ("s" :> 0) @@ ("t" :> 0) @@ ("m" :> 2) @@ ("l" :> 3)
=============================================================================
