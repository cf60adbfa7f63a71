---------------------------- MODULE MCStackLock ----------------------------
(* Instances of StackLock for TLC. *)
EXTENDS StackLock, TLC

CONSTANTS r1, r2, r3, r4,   \* requests
          e1, e2, e3        \* engines

Of(f) == [r \in Requests |-> f[r]]

\* A deletion with an operation to stop in its own engine and one in another.
StopEngine == Of(r1 :> e1 @@ r2 :> e1 @@ r3 :> e2)
StopKind == Of(r1 :> "check" @@ r2 :> "delete" @@ r3 :> "update")

\* An update and its cancellation, and two engines that start.
ResetEngine == Of(r1 :> e1 @@ r2 :> e2 @@ r3 :> e2 @@ r4 :> e3)
ResetKind == Of(r1 :> "update" @@ r2 :> "cancel" @@ r3 :> "reset" @@ r4 :> "reset")
=============================================================================
