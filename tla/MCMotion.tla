------------------------------ MODULE MCMotion ------------------------------
(* Instances of Motion for TLC. *)
EXTENDS Motion, TLC

\* A transfer whose explorer link makes its details higher than the other's.
DetailHeights == ("short" :> 1) @@ ("tall" :> 2)
=============================================================================
