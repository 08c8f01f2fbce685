------------------------------ MODULE MCUpper ------------------------------
(* The clients of one daemon for model checking Upper.tla.                 *)
EXTENDS Upper

CONSTANTS r, p, s

\* A routing daemon, a ping program and a program of another type.
Three == {r, p, s}
ThreeKind == (r :> "routing") @@ (p :> "ping") @@ (s :> "other")
=============================================================================
