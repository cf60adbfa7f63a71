----------------------------- MODULE SyncPoint -----------------------------
(***************************************************************************)
(* The synchronisation point of heat's convergence engine                  *)
(* (heat/engine/sync_point.py over the sync_point table): one row, which   *)
(* concurrent calls of sync() read, merge their input into and write back  *)
(* with a compare-and-swap on atomic_key, retrying until a write wins.     *)
(* The call whose write makes the input cover all predecessors propagates. *)
(*                                                                         *)
(* Calls is the set of invocations made during one traversal.  Two calls   *)
(* may have the same key (a resource that was re-triggered is checked, and *)
(* reports, twice) and a key need not be a predecessor (a re-trigger       *)
(* reports under the key of the resource itself).                          *)
(***************************************************************************)
EXTENDS Naturals, FiniteSets

CONSTANTS Calls, Keys, Values, Absent, Key, Data, Predecessors

ASSUME ConstantsAssumption ==
    /\ Key \in [Calls -> Keys]
    /\ Data \in [Calls -> Values]
    /\ Predecessors \subseteq Keys
    /\ Absent \notin Values

VARIABLES row,    \* the row of the sync_point table
          pc,     \* where each call stands
          local   \* sync_point.atomic_key and input_data in each call

vars == <<row, pc, local>>

InputData == [Keys -> Values \cup {Absent}]

NoInput == [k \in Keys |-> Absent]

PC == {"get", "update", "waiting", "ready", "propagated", "notfound",
       "crashed", "lost"}

\* create(): the row exists before the first check of the traversal is cast.
Init ==
    /\ row = [exists |-> TRUE, atomic_key |-> 0, input_data |-> NoInput]
    /\ pc = [c \in Calls |-> "get"]
    /\ local = [c \in Calls |-> [atomic_key |-> 0, input_data |-> NoInput]]

-----------------------------------------------------------------------------
\* Mutant: the caller's input replaces what the row already holds.
GetReplacing(c) ==
    /\ pc[c] = "get"
    /\ row.exists
    /\ local' = [local EXCEPT ![c] =
          [atomic_key |-> row.atomic_key,
           input_data |-> [k \in {Key[c]} |-> Data[c]]]]
    /\ pc' = [pc EXCEPT ![c] = "update"]
    /\ UNCHANGED row

\* get() and the merge of the caller's input into the local copy.
Get(c) ==
    /\ pc[c] = "get"
    /\ row.exists
    /\ local' = [local EXCEPT ![c] =
          [atomic_key |-> row.atomic_key,
           input_data |-> [row.input_data EXCEPT ![Key[c]] = Data[c]]]]
    /\ pc' = [pc EXCEPT ![c] = "update"]
    /\ UNCHANGED row

\* get() finds no row: SyncPointNotFound leaves sync().
GetNotFound(c) ==
    /\ pc[c] = "get"
    /\ ~row.exists
    /\ pc' = [pc EXCEPT ![c] = "notfound"]
    /\ UNCHANGED <<row, local>>

\* Mutant: the caller takes "some input of every kind" for all the input.
WaitingForAny(c) ==
    IF \E k \in Predecessors : local[c].input_data[k] # Absent THEN {}
    ELSE Predecessors

\* Mutant: the caller's own input is left out of the decision.
WaitingBeforeMerge(c) ==
    {k \in Predecessors : local[c].input_data[k] = Absent \/ k = Key[c]}

waiting(c) == {k \in Predecessors : local[c].input_data[k] = Absent}

\* Mutant: the UPDATE statement does not filter on atomic_key.
UpdateUnconditional(c) ==
    /\ pc[c] = "update"
    /\ row.exists
    /\ row' = [row EXCEPT !.input_data = local[c].input_data,
                          !.atomic_key = local[c].atomic_key + 1]
    /\ pc' = [pc EXCEPT ![c] = IF waiting(c) = {} THEN "ready" ELSE "waiting"]
    /\ UNCHANGED local

\* update_input_data() finds the row at the atomic_key that was read.
Update(c) ==
    /\ pc[c] = "update"
    /\ row.exists
    /\ row.atomic_key = local[c].atomic_key
    /\ row' = [row EXCEPT !.input_data = local[c].input_data,
                          !.atomic_key = local[c].atomic_key + 1]
    /\ pc' = [pc EXCEPT ![c] = IF waiting(c) = {} THEN "ready" ELSE "waiting"]
    /\ UNCHANGED local

\* Mutant: the loop repeats the write without reading the row again.
UpdateLostNoReread(c) ==
    /\ pc[c] = "update"
    /\ ~row.exists \/ row.atomic_key # local[c].atomic_key
    /\ UNCHANGED vars

\* update_input_data() matches no row: the while loop reads again.
UpdateLost(c) ==
    /\ pc[c] = "update"
    /\ ~row.exists \/ row.atomic_key # local[c].atomic_key
    /\ pc' = [pc EXCEPT ![c] = "get"]
    /\ UNCHANGED <<row, local>>

\* propagate(entity_id, serialize_input_data(input_data))
Propagate(c) ==
    /\ pc[c] = "ready"
    /\ pc' = [pc EXCEPT ![c] = "propagated"]
    /\ UNCHANGED <<row, local>>

\* delete_all(): a newer traversal, or the end of this one, drops the row.
DeleteAll ==
    /\ row.exists
    /\ row' = [row EXCEPT !.exists = FALSE]
    /\ UNCHANGED <<pc, local>>

\* The engine that runs the call dies; the cast it was serving is not
\* redelivered.  "lost" is the window between the write and propagate().
Crash(c) ==
    /\ pc[c] \in {"get", "update", "ready"}
    /\ pc' = [pc EXCEPT ![c] = IF pc[c] = "ready" THEN "lost" ELSE "crashed"]
    /\ UNCHANGED <<row, local>>

Sync(c) == Get(c) \/ GetNotFound(c) \/ Update(c) \/ UpdateLost(c) \/ Propagate(c)

Next == DeleteAll \/ (\E c \in Calls : Sync(c) \/ Crash(c))

Spec == Init /\ [][Next]_vars

\* A call that is running keeps running: sync() is straight-line code in a
\* greenthread of a live engine.  Crashes and deletions are not fair.
Fairness == \A c \in Calls : WF_vars(Sync(c))

FairSpec == Spec /\ Fairness

-----------------------------------------------------------------------------
\* The row and the local copies keep their shape: input_data always has a
\* value, or Absent, for each of the keys.
TypeOK ==
    /\ row \in [exists : BOOLEAN, atomic_key : Nat, input_data : InputData]
    /\ pc \in [Calls -> PC]
    /\ local \in [Calls -> [atomic_key : Nat, input_data : InputData]]

Written(c) == pc[c] \in {"waiting", "ready", "propagated", "lost"}

Fired(c) == pc[c] \in {"ready", "propagated", "lost"}

\* No lost update: the compare-and-swap on atomic_key never lets a call
\* overwrite the input another call has stored.
NoLostInput == \A c \in Calls : Written(c) => row.input_data[Key[c]] # Absent

\* A dependent check starts only with the data of every predecessor, and
\* with values that senders of that very key handed over.
PropagatesWithEveryInput ==
    \A c \in Calls : Fired(c) =>
        \A k \in Predecessors :
            \E d \in Calls : Key[d] = k /\ local[c].input_data[k] = Data[d]

\* The last of the predecessors to report always propagates: once every
\* predecessor key has been reported, some call has propagated, is about
\* to, or died between its write and propagate().
NobodyForgetsToPropagate ==
    (\A k \in Predecessors : \E c \in Calls : Key[c] = k /\ Written(c))
        /\ (\E c \in Calls : Written(c))
    => \E c \in Calls : Fired(c)

\* c is the only report of a predecessor.
Sole(c) == Key[c] \in Predecessors /\ \A d \in Calls : Key[d] = Key[c] => d = c

\* Of the predecessors that report once, one at most starts the dependent
\* check, whoever else reports, and how often: a resource is not checked
\* twice in a traversal unless a predecessor was.
PropagatesAtMostOnce ==
    \A c, d \in Calls : Fired(c) /\ Fired(d) /\ Sole(c) /\ Sole(d) => c = d

\* Every call that still intends to write works on a copy that is as old as
\* the atomic_key it carries: equal keys mean that nothing was written
\* since it read the row.  This is what the compare-and-swap relies on.
CopyAgreesWithKey ==
    \A c \in Calls : pc[c] = "update" =>
        /\ local[c].atomic_key <= row.atomic_key
        /\ local[c].atomic_key = row.atomic_key =>
              local[c].input_data = [row.input_data EXCEPT ![Key[c]] = Data[c]]

\* What the row holds for a key was written by a call of that key.
InputHasSender ==
    \A k \in Keys : row.input_data[k] # Absent =>
        \E c \in Calls : Key[c] = k /\ Written(c) /\ row.input_data[k] = Data[c]

\* A call that has to propagate saw the input of all predecessors, and the
\* row still has it.
FiredIsComplete ==
    \A c \in Calls : Fired(c) =>
        \A k \in Predecessors :
            local[c].input_data[k] # Absent /\ row.input_data[k] # Absent

\* A complete row that somebody wrote has been noticed by its writer.
CompleteIsNoticed ==
    (\A k \in Predecessors : row.input_data[k] # Absent)
        /\ (\E c \in Calls : Written(c))
    => \E c \in Calls : Fired(c)

\* The inductive invariant of SyncPoint.
SyncInv ==
    /\ TypeOK
    /\ CopyAgreesWithKey
    /\ NoLostInput
    /\ InputHasSender
    /\ PropagatesWithEveryInput
    /\ FiredIsComplete
    /\ CompleteIsNoticed
    /\ PropagatesAtMostOnce

\* Input only accumulates while the row exists: no step takes a key back.
InputAccumulates ==
    [][\A k \in Keys : row.input_data[k] # Absent => row'.input_data[k] # Absent]_vars

\* If nobody crashes and the traversal is not superseded, the dependent
\* check is started in the end.
EventuallyPropagates ==
    \/ <>(~row.exists)
    \/ <>(\E c \in Calls : pc[c] \in {"crashed", "lost"})
    \/ ~(\A k \in Predecessors : \E c \in Calls : Key[c] = k)
    \/ <>(\E c \in Calls : pc[c] = "propagated")

-----------------------------------------------------------------------------
\* The refinement mapping: the winning write is the instant of the call.
Outcome == [c \in Calls |->
    CASE pc[c] \in {"get", "update"} -> "calling"
      [] pc[c] = "notfound" -> "refused"
      [] OTHER -> pc[c]]

Result == [c \in Calls |-> IF Written(c) THEN local[c].input_data ELSE NoInput]

Barrier == INSTANCE SyncBarrier WITH
    open <- row.exists, collected <- row.input_data,
    status <- Outcome, result <- Result

\* sync() behaves as one indivisible hand-over (SyncBarrier).
ImplementsBarrier == Barrier!BarrierSpec
=============================================================================
