---------------------------- MODULE SyncBarrier ----------------------------
(***************************************************************************)
(* What heat's sync_point.sync() promises to the convergence workers, with *)
(* the database row, its atomic_key and the retry loop abstracted away: a  *)
(* call hands over its input in one indivisible step, and in that same     *)
(* step learns whether it is a call that has to propagate, together with   *)
(* the data to propagate.                                                  *)
(***************************************************************************)
CONSTANTS Calls,          \* the invocations of sync() on one sync point
          Keys,           \* graph keys (resource id, is_update) of senders
          Values,         \* what a sender hands over
          Absent,         \* "this key is not in input_data"
          Key,            \* the sender key of each call
          Data,           \* the value each call hands over
          Predecessors    \* the keys the sync point waits for

VARIABLES open,       \* FALSE once the sync point has been deleted
          collected,  \* the input handed over so far
          status,     \* what each call has come to
          result      \* the input each call saw when it handed over its own

barrierVars == <<open, collected, status, result>>

Nothing == [k \in Keys |-> Absent]

Status == {"calling", "waiting", "ready", "propagated", "refused",
           "crashed", "lost"}

Complete(d) == \A k \in Predecessors : d[k] # Absent

BarrierInit ==
    /\ open = TRUE
    /\ collected = Nothing
    /\ status = [c \in Calls |-> "calling"]
    /\ result = [c \in Calls |-> Nothing]

\* The call contributes its input and sees the input as of that instant.
Contribute(c) ==
    /\ open
    /\ status[c] = "calling"
    /\ collected' = [collected EXCEPT ![Key[c]] = Data[c]]
    /\ result' = [result EXCEPT ![c] = collected']
    /\ status' = [status EXCEPT ![c] =
                     IF Complete(collected') THEN "ready" ELSE "waiting"]
    /\ UNCHANGED open

\* A call whose input completed the barrier starts the dependent check.
Propagate(c) ==
    /\ status[c] = "ready"
    /\ status' = [status EXCEPT ![c] = "propagated"]
    /\ UNCHANGED <<open, collected, result>>

\* The sync point has been deleted under the call.
Refuse(c) ==
    /\ ~open
    /\ status[c] = "calling"
    /\ status' = [status EXCEPT ![c] = "refused"]
    /\ UNCHANGED <<open, collected, result>>

\* The engine that runs the call dies, before the call has handed over its
\* input or between that and the propagation it owed.
Die(c) ==
    /\ status[c] \in {"calling", "ready"}
    /\ status' = [status EXCEPT ![c] =
                     IF status[c] = "ready" THEN "lost" ELSE "crashed"]
    /\ UNCHANGED <<open, collected, result>>

Close ==
    /\ open
    /\ open' = FALSE
    /\ UNCHANGED <<collected, status, result>>

BarrierNext ==
    \/ Close
    \/ \E c \in Calls : Contribute(c) \/ Propagate(c) \/ Refuse(c) \/ Die(c)

BarrierSpec == BarrierInit /\ [][BarrierNext]_barrierVars
=============================================================================
