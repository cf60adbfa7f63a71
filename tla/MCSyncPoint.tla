---------------------------- MODULE MCSyncPoint ----------------------------
(* An instance of SyncPoint for TLC. *)
EXTENDS SyncPoint, TLC

CONSTANTS c1, c2, c3, c4, c5,   \* calls
          a, b, d, self,        \* keys
          v1, v2                \* values

\* Predecessors b and d report once; a is checked twice and reports other
\* data the second time; the node itself is re-triggered, which reports
\* under its own key.
TheCalls == {c1, c2, c3, c4, c5}
TheKey == c1 :> a @@ c2 :> b @@ c3 :> d @@ c4 :> a @@ c5 :> self
TheData == c1 :> v1 @@ c2 :> v1 @@ c3 :> v2 @@ c4 :> v2 @@ c5 :> v1
=============================================================================
