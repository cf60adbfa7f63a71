---------------------------- MODULE MCScheduler ----------------------------
(* Instances of Scheduler for TLC.                                           *)
EXTENDS Scheduler, TLC

CONSTANTS a, b, c, d

\* A diamond, two chains that are independent of each other, and a task that
\* requires another both directly and through a third.
MCTrees ==
    { a :> {} @@ b :> {a} @@ c :> {a} @@ d :> {b, c},
      a :> {} @@ b :> {a} @@ c :> {} @@ d :> {c},
      a :> {} @@ b :> {a} @@ c :> {a, b} @@ d :> {c} }

MCGroups == [reverse : BOOLEAN, aggregate : BOOLEAN, grace : BOOLEAN]
=============================================================================
