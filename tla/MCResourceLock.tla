--------------------------- MODULE MCResourceLock ---------------------------
(* Instances of ResourceLock for TLC. *)
EXTENDS ResourceLock, TLC

CONSTANTS w1, w2, w3, w4, e1, e2, e3

\* Two workers in one engine and one in each of two others.
MCEngine == w1 :> e1 @@ w2 :> e2 @@ w3 :> e3 @@ w4 :> e2
=============================================================================
