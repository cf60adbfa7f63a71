---------------------------- MODULE ResourceLock ----------------------------
(***************************************************************************)
(* The lock of one resource row in heat's convergence engine               *)
(* (Resource._acquire() and _release() in heat/engine/resource.py,         *)
(* _try_steal_engine_lock() in worker.py, resource_update() in             *)
(* db/sqlalchemy/api.py).  The column engine_id is the lock; acquire and   *)
(* release read the row and then write it on the condition that engine_id  *)
(* is the expected one and atomic_key the one that was read.  A worker     *)
(* that is refused looks whether the engine in the row still answers and,  *)
(* if it does not, clears engine_id, this time unconditionally.            *)
(*                                                                         *)
(* What the holder does with the resource is module Convergence; here      *)
(* every read and every write of the lock's columns is a step of its own.  *)
(***************************************************************************)
EXTENDS Naturals

CONSTANTS Workers, Engines, Engine,  \* the engine each worker runs in
          None,
          Slow,        \* live engines that may answer the liveness call too late
          MaxChecks,   \* bound on the checks of this resource
          MaxTouches   \* bound on writes of other columns

ASSUME LockAssumption ==
    /\ Engine \in [Workers -> Engines]
    /\ None \notin Engines
    /\ Slow \subseteq Engines
    /\ MaxChecks \in Nat /\ MaxTouches \in Nat

VARIABLES row,      \* exists, engine_id and atomic_key of the resource row
          pc,       \* where each worker stands
          key,      \* the atomic_key a worker has read, or written last
          seen,     \* the engine_id a thief has read
          dead,     \* engines that have crashed; a restart gets a new id
          checks,   \* checks started so far
          touches,  \* writes of other columns so far
          robbed    \* history: a live engine has lost its lock to a thief

vars == <<row, pc, key, seen, dead, checks, touches, robbed>>

PC == {"idle", "read", "cas", "held", "unlock", "in_progress", "probe", "steal",
       "crashed"}

Init ==
    /\ row = [exists |-> TRUE, engine |-> None, atomic_key |-> 0]
    /\ pc = [w \in Workers |-> "idle"]
    /\ key = [w \in Workers |-> 0]
    /\ seen = [w \in Workers |-> Engine[w]]
    /\ dead = {}
    /\ checks = 0
    /\ touches = 0
    /\ robbed = FALSE

Goto(w, l) == pc' = [pc EXCEPT ![w] = l]

-----------------------------------------------------------------------------
\* A check_resource message reaches a worker, which sets out to lock the row.
Begin(w) ==
    /\ pc[w] = "idle"
    /\ checks < MaxChecks
    /\ checks' = checks + 1
    /\ Goto(w, "read")
    /\ UNCHANGED <<row, key, seen, dead, touches, robbed>>

\* _acquire(): get_obj(), which raises NotFound when the row is gone.
AcquireRead(w) ==
    /\ pc[w] = "read"
    /\ IF row.exists
       THEN Goto(w, "cas") /\ key' = [key EXCEPT ![w] = row.atomic_key]
       ELSE Goto(w, "idle") /\ UNCHANGED key
    /\ UNCHANGED <<row, seen, dead, checks, touches, robbed>>

\* resource_update(): the row has the expected engine_id and atomic_key.
Matches(w, expected_engine_id) ==
    row.exists /\ row.engine = expected_engine_id /\ row.atomic_key = key[w]

\* Mutant: resource_update() does not filter on engine_id.
AcquireAnyway(w) ==
    /\ pc[w] = "cas"
    /\ row.exists /\ row.atomic_key = key[w]
    /\ row' = [row EXCEPT !.engine = Engine[w], !.atomic_key = key[w] + 1]
    /\ key' = [key EXCEPT ![w] = key[w] + 1]
    /\ Goto(w, "held")
    /\ UNCHANGED <<seen, dead, checks, touches, robbed>>

\* _acquire(): select_and_update() writes the row.
AcquireWrite(w) ==
    /\ pc[w] = "cas"
    /\ Matches(w, None)
    /\ row' = [row EXCEPT !.engine = Engine[w], !.atomic_key = key[w] + 1]
    /\ key' = [key EXCEPT ![w] = key[w] + 1]
    /\ Goto(w, "held")
    /\ UNCHANGED <<seen, dead, checks, touches, robbed>>

\* _acquire(): select_and_update() matches no row, UpdateInProgress.
AcquireRefused(w) ==
    /\ pc[w] = "cas"
    /\ ~Matches(w, None)
    /\ Goto(w, "in_progress")
    /\ UNCHANGED <<row, key, seen, dead, checks, touches, robbed>>

\* _release(): get_obj().
ReleaseRead(w) ==
    /\ pc[w] = "held"
    /\ IF row.exists
       THEN Goto(w, "unlock") /\ key' = [key EXCEPT ![w] = row.atomic_key]
       ELSE Goto(w, "idle") /\ UNCHANGED key
    /\ UNCHANGED <<row, seen, dead, checks, touches, robbed>>

\* Mutant: expected_engine_id is left at its default.
ReleaseExpectsNone(w) ==
    /\ pc[w] = "unlock"
    /\ row' = IF Matches(w, None)
              THEN [row EXCEPT !.engine = None, !.atomic_key = key[w] + 1]
              ELSE row
    /\ Goto(w, "idle")
    /\ UNCHANGED <<key, seen, dead, checks, touches, robbed>>

\* _release(): select_and_update(); a failure is only logged.
ReleaseWrite(w) ==
    /\ pc[w] = "unlock"
    /\ row' = IF Matches(w, Engine[w])
              THEN [row EXCEPT !.engine = None, !.atomic_key = key[w] + 1]
              ELSE row
    /\ Goto(w, "idle")
    /\ UNCHANGED <<key, seen, dead, checks, touches, robbed>>

\* destroy() under the lock: the row goes, and the lock with it.
Destroy(w) ==
    /\ pc[w] = "held"
    /\ row' = [row EXCEPT !.exists = FALSE]
    /\ Goto(w, "idle")
    /\ UNCHANGED <<key, seen, dead, checks, touches, robbed>>

-----------------------------------------------------------------------------
\* Mutant: the test for None is missing.
StealReadUnchecked(w) ==
    /\ pc[w] = "in_progress"
    /\ IF row.exists /\ row.engine # Engine[w]
       THEN Goto(w, "probe") /\ seen' = [seen EXCEPT ![w] = row.engine]
       ELSE Goto(w, "idle") /\ UNCHANGED seen
    /\ UNCHANGED <<row, key, dead, checks, touches, robbed>>

\* _try_steal_engine_lock(): whose lock is it?  Nobody's, or this engine's
\* own, is not stolen: the check is dropped.
StealRead(w) ==
    /\ pc[w] = "in_progress"
    /\ IF row.exists /\ row.engine \notin {None, Engine[w]}
       THEN Goto(w, "probe") /\ seen' = [seen EXCEPT ![w] = row.engine]
       ELSE Goto(w, "idle") /\ UNCHANGED seen
    /\ UNCHANGED <<row, key, dead, checks, touches, robbed>>

\* is_alive(): the engine answers, the check is dropped.
ProbeAnswered(w) ==
    /\ pc[w] = "probe"
    /\ seen[w] \notin dead
    /\ Goto(w, "idle")
    /\ UNCHANGED <<row, key, seen, dead, checks, touches, robbed>>

\* is_alive(): MessagingTimeout.
ProbeTimesOut(w) ==
    /\ pc[w] = "probe"
    /\ seen[w] \in dead \cup Slow
    /\ Goto(w, "steal")
    /\ UNCHANGED <<row, key, seen, dead, checks, touches, robbed>>

\* update_and_save({'engine_id': None}).  The message is then cast again,
\* which is another Begin.
Steal(w) ==
    /\ pc[w] = "steal"
    /\ row' = IF row.exists THEN [row EXCEPT !.engine = None] ELSE row
    /\ robbed' = (robbed \/ (row.exists /\ row.engine \notin dead \cup {None}))
    /\ Goto(w, "idle")
    /\ UNCHANGED <<key, seen, dead, checks, touches>>

-----------------------------------------------------------------------------
\* Mutant: a write of other columns does not mind the lock.
TouchAnyway ==
    /\ row.exists
    /\ touches < MaxTouches
    /\ touches' = touches + 1
    /\ row' = [row EXCEPT !.atomic_key = @ + 1]
    /\ UNCHANGED <<pc, key, seen, dead, checks, robbed>>

\* set_needed_by(), _update_replacement_data() and the metadata of software
\* deployments write the unlocked row through resource_update() as well.
Touch ==
    /\ row.exists /\ row.engine = None
    /\ touches < MaxTouches
    /\ touches' = touches + 1
    /\ row' = [row EXCEPT !.atomic_key = @ + 1]
    /\ UNCHANGED <<pc, key, seen, dead, checks, robbed>>

\* An engine dies with all its workers; its lock stays.
Crash(e) ==
    /\ e \notin dead
    /\ dead' = dead \cup {e}
    /\ pc' = [w \in Workers |-> IF Engine[w] = e THEN "crashed" ELSE pc[w]]
    /\ UNCHANGED <<row, key, seen, checks, touches, robbed>>

Step(w) ==
    \/ Begin(w) \/ AcquireRead(w) \/ AcquireWrite(w) \/ AcquireRefused(w)
    \/ ReleaseRead(w) \/ ReleaseWrite(w) \/ Destroy(w)
    \/ StealRead(w) \/ ProbeAnswered(w) \/ ProbeTimesOut(w) \/ Steal(w)

Next == (\E w \in Workers : Step(w)) \/ Touch \/ (\E e \in Engines : Crash(e))

Spec == Init /\ [][Next]_vars

-----------------------------------------------------------------------------
\* The columns and the locals of the workers keep their types; a thief only
\* ever asks a real engine whether it is alive.
TypeOK ==
    /\ row \in [exists : BOOLEAN, engine : Engines \cup {None}, atomic_key : Nat]
    /\ pc \in [Workers -> PC]
    /\ key \in [Workers -> Nat]
    /\ seen \in [Workers -> Engines]
    /\ dead \subseteq Engines
    /\ checks \in Nat /\ touches \in Nat /\ robbed \in BOOLEAN

Holds(w) == pc[w] \in {"held", "unlock"}

\* Two workers never act on the resource at the same time.
Exclusive == \A w, v \in Workers : Holds(w) /\ Holds(v) => w = v

\* The compare-and-swap is right: exclusion is lost only through a theft
\* that takes the lock of a live engine away.
ExclusiveUnlessRobbed == ~robbed => Exclusive

\* _release() succeeds: nothing moves atomic_key while the row is locked, so
\* its read and its write may be regarded as one step.
UnlockNeverFails ==
    ~robbed => \A w \in Workers : pc[w] = "unlock" => Matches(w, Engine[w])

\* No lock is left behind: a row in the name of a live engine has a worker
\* of that engine that holds the lock, whatever thefts there have been.
LockHasHolder ==
    row.exists /\ row.engine \notin dead \cup {None} =>
        \E w \in Workers : Engine[w] = row.engine /\ Holds(w)

\* The release of one of those holders will match: it has the row's key.
LockHasOwner ==
    row.exists /\ row.engine \notin dead \cup {None} =>
        \E w \in Workers : /\ Engine[w] = row.engine /\ Holds(w)
                           /\ key[w] = row.atomic_key

\* The workers of a dead engine have stopped.
DeadHaveStopped == \A w \in Workers : Engine[w] \in dead => pc[w] = "crashed"

\* Who holds the lock is the one the row names.
HolderIsRecorded ==
    ~robbed => \A w \in Workers : Holds(w) => Matches(w, Engine[w])

\* The inductive invariant of ResourceLock.
LockInv ==
    TypeOK /\ LockHasOwner /\ DeadHaveStopped /\ HolderIsRecorded /\ ExclusiveUnlessRobbed

\* The lock of a live engine is given back by a worker of that engine (or
\* goes with the row), never taken by another.
LiveEngineKeepsLock ==
    [][row.exists /\ row'.exists /\ row.engine \notin dead \cup {None}
         => \/ row'.engine = row.engine
            \/ \E w \in Workers : Engine[w] = row.engine /\ pc[w] = "unlock"
                                  /\ pc'[w] = "idle"]_vars
=============================================================================
