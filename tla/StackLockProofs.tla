-------------------------- MODULE StackLockProofs --------------------------
(***************************************************************************)
(* Proofs about StackLock, for any set of requests, engines and kinds.     *)
(***************************************************************************)
EXTENDS StackLock, TLAPS

\* Nobody owns the lock, no engine has died.
LEMMA StackLockInitially == Init => StackLockInv
  BY DEF Init, StackLockInv, PC, DeadHaveStopped, OwnerIsRecorded, OneOperation, Owns, At

\* What a step of request r does to the other requests: nothing.
Moves(r) ==
    /\ pc' \in [Requests -> PC]
    /\ \A q \in Requests : q # r => pc'[q] = pc[q]

\* A step that leaves the lock and its owners alone.
LEMMA LockUntouched ==
    ASSUME StackLockInv, NEW r \in Requests, Moves(r), pc[r] # "crashed",
           Owns(r)' => Owns(r), lock' = lock, dead' = dead, lost' = lost
    PROVE  StackLockInv'
<1>1. \A q \in Requests : Owns(q)' => Owns(q)
  BY DEF Moves, Owns
<1>2. DeadHaveStopped'
  BY DEF StackLockInv, DeadHaveStopped, At, Moves
<1>3. OwnerIsRecorded'
  BY <1>1 DEF StackLockInv, OwnerIsRecorded
<1>4. OneOperation'
  BY <1>1 DEF StackLockInv, OneOperation
<1> QED
  BY <1>2, <1>3, <1>4 DEF StackLockInv, Moves

\* A request that nobody keeps from it takes the lock.
LEMMA LockTaken ==
    ASSUME StackLockInv, NEW r \in Requests, Moves(r), pc[r] # "crashed",
           lock' = Engine[r], dead' = dead,
           ~lost' => ~lost /\ \A q \in Requests : q # r => ~Owns(q)
    PROVE  StackLockInv'
<1>1. \A q \in Requests : q # r => (Owns(q)' <=> Owns(q))
  BY DEF Moves, Owns
<1>2. DeadHaveStopped'
  BY DEF StackLockInv, DeadHaveStopped, At, Moves
<1>3. OwnerIsRecorded'
  BY <1>1 DEF OwnerIsRecorded
<1>4. OneOperation'
  BY <1>1 DEF OneOperation
<1> QED
  BY <1>2, <1>3, <1>4 DEF StackLockInv, Moves

\* The owner gives the lock up; whether the row is still its own does not
\* matter, and neither whether it is deleted.
LEMMA LockReleased ==
    ASSUME StackLockInv, NEW r \in Requests, Moves(r), Owns(r), ~Owns(r)',
           dead' = dead, lost' = lost
    PROVE  StackLockInv'
<1>1. \A q \in Requests : Owns(q)' => q # r /\ Owns(q)
  BY DEF Moves, Owns
<1>2. DeadHaveStopped'
  BY DEF StackLockInv, DeadHaveStopped, At, Moves, Owns
<1>3. ~lost => \A q \in Requests : ~Owns(q)'
  BY <1>1 DEF StackLockInv, OneOperation
<1>4. OwnerIsRecorded' /\ OneOperation'
  BY <1>3 DEF OwnerIsRecorded, OneOperation
<1> QED
  BY <1>2, <1>4 DEF StackLockInv, Moves

\* Every step keeps the inductive invariant.
LEMMA StackLockInductive ==
    ASSUME StackLockInv, [Next]_vars
    PROVE  StackLockInv'
<1> USE DEF At
<1>1. ASSUME NEW r \in Requests, Arrive(r) PROVE StackLockInv'
  <2>1. Moves(r) /\ pc[r] # "crashed" /\ ~Owns(r)'
    BY <1>1 DEF Arrive, Goto, Moves, Owns, PC, StackLockInv
  <2> QED
    BY <1>1, <2>1, LockUntouched DEF Arrive
<1>2. ASSUME NEW r \in Requests, TryGet(r) PROVE StackLockInv'
  <2>1. Moves(r) /\ pc[r] # "crashed" /\ ~Owns(r)'
    BY <1>2 DEF TryGet, Goto, Moves, Owns, PC, StackLockInv
  <2> QED
    BY <1>2, <2>1, LockUntouched DEF TryGet
<1>3. ASSUME NEW r \in Requests, Get(r) PROVE StackLockInv'
  <2>1. Moves(r) /\ pc[r] # "crashed" /\ ~Owns(r)'
    BY <1>3 DEF Get, Goto, Moves, Owns, PC, StackLockInv
  <2> QED
    BY <1>3, <2>1, LockUntouched DEF Get
<1>4. ASSUME NEW r \in Requests, ProbeAnswered(r) PROVE StackLockInv'
  <2>1. Moves(r) /\ pc[r] # "crashed" /\ ~Owns(r)'
    BY <1>4 DEF ProbeAnswered, Goto, Moves, Owns, PC, StackLockInv
  <2> QED
    BY <1>4, <2>1, LockUntouched DEF ProbeAnswered
<1>5. ASSUME NEW r \in Requests, ProbeTimesOut(r) PROVE StackLockInv'
  <2>1. Moves(r) /\ pc[r] # "crashed" /\ ~Owns(r)'
    BY <1>5 DEF ProbeTimesOut, Goto, Moves, Owns, PC, StackLockInv
  <2> QED
    BY <1>5, <2>1, LockUntouched DEF ProbeTimesOut
<1>6. ASSUME NEW r \in Requests, StealRetry(r) PROVE StackLockInv'
  <2>1. Moves(r) /\ pc[r] # "crashed" /\ ~Owns(r)'
    BY <1>6 DEF StealRetry, Goto, Moves, Owns, PC, StackLockInv
  <2> QED
    BY <1>6, <2>1, LockUntouched DEF StealRetry
<1>7. ASSUME NEW r \in Requests, StealRefused(r) PROVE StackLockInv'
  <2>1. Moves(r) /\ pc[r] # "crashed" /\ ~Owns(r)'
    BY <1>7 DEF StealRefused, Goto, Moves, Owns, PC, StackLockInv
  <2> QED
    BY <1>7, <2>1, LockUntouched DEF StealRefused
<1>8. ASSUME NEW r \in Requests, StopCall(r) PROVE StackLockInv'
  <2>1. Moves(r) /\ pc[r] # "crashed" /\ ~Owns(r)'
    BY <1>8 DEF StopCall, Goto, Moves, Owns, PC, StackLockInv
  <2> QED
    BY <1>8, <2>1, LockUntouched DEF StopCall
<1>9. ASSUME NEW r \in Requests, Stopped(r) PROVE StackLockInv'
  <2>1. Moves(r) /\ pc[r] # "crashed" /\ ~Owns(r)'
    BY <1>9 DEF Stopped, Goto, Moves, Owns, PC, StackLockInv
  <2> QED
    BY <1>9, <2>1, LockUntouched DEF Stopped
<1>10. ASSUME NEW r \in Requests, StopTimesOut(r) PROVE StackLockInv'
  <2>1. Moves(r) /\ pc[r] # "crashed" /\ ~Owns(r)'
    BY <1>10 DEF StopTimesOut, Goto, Moves, Owns, PC, StackLockInv
  <2> QED
    BY <1>10, <2>1, LockUntouched DEF StopTimesOut
<1>11. ASSUME NEW r \in Requests, Reload(r) PROVE StackLockInv'
  <2>1. Moves(r) /\ pc[r] # "crashed" /\ ~Owns(r)'
    BY <1>11 DEF Reload, Goto, Moves, Owns, PC, StackLockInv
  <2> QED
    BY <1>11, <2>1, LockUntouched DEF Reload
<1>12. ASSUME NEW r \in Requests, Start(r) PROVE StackLockInv'
  <2>1. Moves(r) /\ pc[r] # "crashed" /\ Owns(r)
    BY <1>12 DEF Start, Goto, Moves, Owns, PC, StackLockInv
  <2> QED
    BY <1>12, <2>1, LockUntouched DEF Start
<1>13. ASSUME NEW r \in Requests, Begin(r) PROVE StackLockInv'
  <2>1. Moves(r) /\ pc[r] # "crashed" /\ Owns(r)
    BY <1>13 DEF Begin, BeginTask, BeginUpdate, BeginDelete, SetToFailed, Becomes,
               Goto, Moves, Owns, PC, StackLockInv
  <2> QED
    BY <1>13, <2>1, LockUntouched DEF Begin, BeginTask, BeginUpdate, BeginDelete,
       SetToFailed, Becomes
<1>14. ASSUME NEW r \in Requests, Finish(r) PROVE StackLockInv'
  <2>1. Moves(r) /\ pc[r] # "crashed" /\ Owns(r)
    BY <1>14 DEF Finish, FinishTask, FinishDelete, Becomes, Goto, Moves, Owns, PC, StackLockInv
  <2> QED
    BY <1>14, <2>1, LockUntouched DEF Finish, FinishTask, FinishDelete, Becomes
<1>15. ASSUME NEW r \in Requests, Die(r) PROVE StackLockInv'
  <2>1. Moves(r) /\ pc[r] # "crashed" /\ Owns(r)
    BY <1>15 DEF Die, Goto, Moves, Owns, PC, StackLockInv
  <2> QED
    BY <1>15, <2>1, LockUntouched DEF Die
<1>16. ASSUME NEW r \in Requests, Insert(r) PROVE StackLockInv'
  <2>1. Moves(r) /\ pc[r] # "crashed" /\ ~Owns(r)
    BY <1>16 DEF Insert, Goto, Moves, Owns, PC, StackLockInv
  <2>2. CASE lock = None
    <3>1. lock' = Engine[r] /\ dead' = dead /\ lost' = lost
      BY <1>16, <2>2 DEF Insert
    <3>2. ~lost => \A q \in Requests : ~Owns(q)
      BY <2>2, StackLockAssumption DEF StackLockInv, OwnerIsRecorded
    <3> QED
      BY <2>1, <3>1, <3>2, LockTaken
  <2>3. CASE lock # None
    <3>1. lock' = lock /\ dead' = dead /\ lost' = lost
      BY <1>16, <2>3 DEF Insert
    <3>2. ~Owns(r)'
      BY <1>16, <2>3 DEF Insert, Goto, Owns, StackLockInv
    <3> QED
      BY <2>1, <3>1, <3>2, LockUntouched
  <2> QED
    BY <2>2, <2>3
<1>17. ASSUME NEW r \in Requests, Unwind(r) PROVE StackLockInv'
  <2>1. Moves(r) /\ pc[r] # "crashed" /\ ~Owns(r) /\ ~Owns(r)'
    BY <1>17 DEF Unwind, Goto, Moves, Owns, PC, StackLockInv
  <2>2. dead' = dead /\ (lost' <=> (lost \/ lock = Engine[r]))
    BY <1>17 DEF Unwind
  <2>3. ~lost' => ~lost /\ lock' = lock
    BY <1>17, <2>2 DEF Unwind
  <2>4. \A q \in Requests : Owns(q)' => Owns(q)
    BY <2>1 DEF Moves, Owns
  <2>5. DeadHaveStopped'
    BY <2>1, <2>2 DEF StackLockInv, DeadHaveStopped, Moves
  <2>6. OwnerIsRecorded' /\ OneOperation'
    BY <2>3, <2>4 DEF StackLockInv, OwnerIsRecorded, OneOperation
  <2> QED
    BY <2>1, <2>5, <2>6 DEF StackLockInv, Moves
<1>18. ASSUME NEW r \in Requests, Steal(r) PROVE StackLockInv'
  <2>1. Moves(r) /\ pc[r] # "crashed"
    BY <1>18 DEF Steal, Goto, Moves, PC, StackLockInv
  <2>2. lock' = Engine[r] /\ dead' = dead /\ lock = seen[r]
    BY <1>18 DEF Steal
  <2>3. ~lost' => ~lost /\ seen[r] \in dead
    BY <1>18 DEF Steal
  <2>4. ~lost' => \A q \in Requests : ~Owns(q)
    BY <2>2, <2>3 DEF StackLockInv, OwnerIsRecorded, DeadHaveStopped, Owns
  <2> QED
    BY <2>1, <2>2, <2>3, <2>4, LockTaken
<1>19. ASSUME NEW r \in Requests, StartReset(r) PROVE StackLockInv'
  <2>1. Moves(r) /\ pc[r] # "crashed" /\ Owns(r) /\ dead' = dead /\ lost' = lost
    BY <1>19 DEF StartReset, Goto, Moves, Owns, PC, StackLockInv
  <2>2. CASE stack.live /\ stack.status = "IN_PROGRESS"
    BY <1>19, <2>1, <2>2, LockUntouched DEF StartReset
  <2>3. CASE ~(stack.live /\ stack.status = "IN_PROGRESS")
    <3>1. ~Owns(r)'
      BY <1>19, <2>3 DEF StartReset, Goto, Owns, StackLockInv
    <3> QED
      BY <2>1, <3>1, LockReleased
  <2> QED
    BY <2>2, <2>3
<1>20. ASSUME NEW r \in Requests, ReturnLocked(r) PROVE StackLockInv'
  <2>1. Moves(r) /\ Owns(r) /\ ~Owns(r)' /\ dead' = dead /\ lost' = lost
    BY <1>20 DEF ReturnLocked, Goto, Moves, Owns, PC, StackLockInv
  <2> QED
    BY <2>1, LockReleased
<1>21. ASSUME NEW r \in Requests, End(r) PROVE StackLockInv'
  <2>1. Moves(r) /\ Owns(r) /\ ~Owns(r)' /\ dead' = dead /\ lost' = lost
    BY <1>21 DEF End, Goto, Moves, Owns, PC, StackLockInv
  <2> QED
    BY <2>1, LockReleased
<1>22. ASSUME NEW e \in Engines, Crash(e) PROVE StackLockInv'
  <2>1. /\ pc' \in [Requests -> PC] /\ lock' = lock /\ lost' = lost
        /\ \A q \in Requests : Owns(q)' => Owns(q)
    BY <1>22 DEF Crash, StackLockInv, PC, Owns
  <2>2. DeadHaveStopped'
    BY <1>22 DEF Crash, StackLockInv, DeadHaveStopped
  <2>3. OwnerIsRecorded' /\ OneOperation'
    BY <2>1 DEF StackLockInv, OwnerIsRecorded, OneOperation
  <2> QED
    BY <2>1, <2>2, <2>3 DEF StackLockInv
<1>23. CASE UNCHANGED vars
  BY <1>23 DEF vars, StackLockInv, DeadHaveStopped, OwnerIsRecorded, OneOperation, Owns
<1> QED
  BY <1>1, <1>2, <1>3, <1>4, <1>5, <1>6, <1>7, <1>8, <1>9, <1>10, <1>11, <1>12, <1>13,
     <1>14, <1>15, <1>16, <1>17, <1>18, <1>19, <1>20, <1>21, <1>22, <1>23 DEF Next, Step

\* The inductive invariant holds: the row names the owner of the lock until
\* a live engine loses it.
THEOREM StackLockInvariant == Spec => []StackLockInv
<1>1. StackLockInv /\ [Next]_vars => StackLockInv'
  BY StackLockInductive
<1> QED
  BY <1>1, StackLockInitially, PTL DEF Spec

\* acquire(), with its insertion and its theft, is mutual exclusion: two
\* operations run on one stack only after a live engine has lost its lock.
THEOREM OperationsExclude == Spec => []OneOperation
<1>1. StackLockInv => OneOperation
  BY DEF StackLockInv
<1> QED
  BY <1>1, StackLockInvariant, PTL

-----------------------------------------------------------------------------
\* Who changes the row of the stack is an owner that takes a step.
LEMMA WriterIsOwner ==
    ASSUME StackLockInv, Next, stack' # stack
    PROVE  \E r \in Requests : Owns(r) /\ pc'[r] # pc[r]
<1> USE DEF At, Goto, StackLockInv, Owns
<1>1. ASSUME NEW r \in Requests, Begin(r) PROVE Owns(r) /\ pc'[r] # pc[r]
  BY <1>1 DEF Begin, BeginTask, BeginUpdate, BeginDelete, SetToFailed, Becomes
<1>2. ASSUME NEW r \in Requests, Finish(r) PROVE Owns(r) /\ pc'[r] # pc[r]
  BY <1>2 DEF Finish, FinishTask, FinishDelete, Becomes
<1>3. ASSUME NEW r \in Requests, Die(r) PROVE Owns(r) /\ pc'[r] # pc[r]
  BY <1>3 DEF Die
<1>4. ASSUME NEW r \in Requests, End(r) PROVE Owns(r) /\ pc'[r] # pc[r]
  BY <1>4 DEF End
<1>5. ASSUME NEW r \in Requests,
             Arrive(r) \/ TryGet(r) \/ Get(r) \/ Insert(r) \/ Unwind(r) \/ ProbeAnswered(r)
             \/ ProbeTimesOut(r) \/ Steal(r) \/ StealRetry(r) \/ StealRefused(r)
             \/ StopCall(r) \/ Stopped(r) \/ StopTimesOut(r) \/ Reload(r)
             \/ Start(r) \/ StartReset(r) \/ ReturnLocked(r)
      PROVE  FALSE
  BY <1>5 DEF Arrive, TryGet, Get, Insert, Unwind, ProbeAnswered, ProbeTimesOut, Steal,
     StealRetry, StealRefused, StopCall, Stopped, StopTimesOut, Reload, Start, StartReset, ReturnLocked
<1>6. ASSUME NEW e \in Engines, Crash(e) PROVE FALSE
  BY <1>6 DEF Crash
<1> QED
  BY <1>1, <1>2, <1>3, <1>4, <1>5, <1>6 DEF Next, Step

\* The state of the stack is written under the lock only.
THEOREM WritesAreOwned == Spec => OnlyOwnerWrites
<1>1. ASSUME StackLockInv, [Next]_vars, stack' # stack, ~lost
      PROVE  \E r \in Requests : Owns(r) /\ lock = Engine[r] /\ pc'[r] # pc[r]
  <2>1. PICK r \in Requests : Owns(r) /\ pc'[r] # pc[r]
    BY <1>1, WriterIsOwner DEF vars
  <2>2. lock = Engine[r]
    BY <1>1, <2>1 DEF StackLockInv, OwnerIsRecorded
  <2> QED
    BY <2>1, <2>2
<1>2. StackLockInv /\ [Next]_vars =>
        [stack' # stack /\ ~lost =>
           \E r \in Requests : Owns(r) /\ lock = Engine[r] /\ pc'[r] # pc[r]]_vars
  BY <1>1
<1> QED
  BY <1>2, StackLockInvariant, PTL DEF Spec, OnlyOwnerWrites

-----------------------------------------------------------------------------
\* The initial state has the types.
LEMMA TypesInitially == Init => TypeOK
<1> SUFFICES ASSUME Init PROVE TypeOK
  OBVIOUS
<1>1. StateOf(stack) \in State
  BY DEF Init, StateOf, State, Actions, Statuses
<1>2. obj \in [Requests -> State]
  BY <1>1 DEF Init
<1>3. stack \in [live : BOOLEAN, action : Actions, status : Statuses]
  BY DEF Init, Actions, Statuses
<1> QED
  BY <1>2, <1>3, StackLockAssumption DEF Init, TypeOK, PC

\* What a step writes to the object of a request, and from there to the row of
\* the stack, is a state.
LEMMA SetStateTyped ==
    ASSUME TypeOK, NEW r \in Requests, NEW s \in State, NEW persist, SetState(r, s, persist)
    PROVE  /\ obj' \in [Requests -> State]
           /\ stack' \in [live : BOOLEAN, action : Actions, status : Statuses]
  BY DEF TypeOK, SetState, State

\* The steps of the handlers keep the types.
LEMMA HandlerTyped ==
    ASSUME TypeOK, NEW r \in Requests,
           Arrive(r) \/ TryGet(r) \/ Get(r) \/ ProbeAnswered(r) \/ ProbeTimesOut(r)
           \/ StealRetry(r) \/ StealRefused(r) \/ StopCall(r) \/ Stopped(r)
           \/ StopTimesOut(r) \/ Reload(r) \/ Start(r) \/ StartReset(r) \/ ReturnLocked(r)
           \/ Insert(r)
    PROVE  TypeOK'
<1> USE StackLockAssumption DEF TypeOK, Goto, At
<1>1. CASE Arrive(r)
  <2>1. StateOf(stack) \in State
    BY DEF StateOf, State
  <2>2. obj' \in [Requests -> State]
    BY <1>1, <2>1 DEF Arrive
  <2> QED
    BY <1>1, <2>2 DEF Arrive, PC
<1>2. CASE TryGet(r)
  BY <1>2 DEF TryGet, PC
<1>3. CASE Get(r)
  BY <1>3 DEF Get, PC
<1>4. CASE ProbeAnswered(r)
  BY <1>4 DEF ProbeAnswered, PC, locals
<1>5. CASE ProbeTimesOut(r)
  BY <1>5 DEF ProbeTimesOut, PC, locals
<1>6. CASE StealRetry(r)
  BY <1>6 DEF StealRetry, PC
<1>7. CASE StealRefused(r)
  BY <1>7 DEF StealRefused, PC, locals
<1>8. CASE StopCall(r)
  BY <1>8 DEF StopCall, PC
<1>9. CASE Stopped(r)
  BY <1>9 DEF Stopped, PC, locals
<1>10. CASE StopTimesOut(r)
  BY <1>10 DEF StopTimesOut, PC, locals
<1>11. CASE Reload(r)
  BY <1>11 DEF Reload, StateOf, State, PC
<1>12. CASE Start(r)
  BY <1>12 DEF Start, PC
<1>13. CASE StartReset(r)
  BY <1>13 DEF StartReset, StateOf, State, PC
<1>14. CASE ReturnLocked(r)
  BY <1>14 DEF ReturnLocked, PC, locals
<1>15. CASE Insert(r)
  BY <1>15 DEF Insert, PC, locals
<1> QED
  BY <1>1, <1>2, <1>3, <1>4, <1>5, <1>6, <1>7, <1>8, <1>9, <1>10, <1>11, <1>12, <1>13,
     <1>14, <1>15

\* Losing the lock is a truth value.
LEMMA LossTyped ==
    ASSUME TypeOK, NEW r \in Requests, Unwind(r) \/ Steal(r)
    PROVE  TypeOK'
<1>1. lost' \in BOOLEAN
  BY DEF Unwind, Steal
<1>2. CASE Unwind(r)
  BY <1>1, <1>2, StackLockAssumption DEF Unwind, TypeOK, Goto, PC, locals
<1>3. CASE Steal(r)
  BY <1>1, <1>3, StackLockAssumption DEF Steal, TypeOK, Goto, PC, locals
<1> QED
  BY <1>2, <1>3

\* The steps of the threads keep the types.
LEMMA ThreadTyped ==
    ASSUME TypeOK, NEW r \in Requests, Begin(r) \/ Finish(r) \/ Die(r) \/ End(r)
    PROVE  TypeOK'
<1> USE DEF At
<1>1. ASSUME NEW action \in Actions, NEW status \in Statuses, NEW l \in PC,
             Becomes(r, action, status, l)
      PROVE  TypeOK'
  <2>1. [action |-> action, status |-> status] \in State
    BY DEF State
  <2>2. /\ obj' \in [Requests -> State]
        /\ stack' \in [live : BOOLEAN, action : Actions, status : Statuses]
    BY <1>1, <2>1, SetStateTyped DEF Becomes
  <2> QED
    BY <1>1, <2>2 DEF Becomes, TypeOK, Goto
<1>2. CASE Begin(r)
  <2> USE DEF Actions, Statuses, PC
  <2>1. CASE BeginTask(r)
    BY <1>1, <2>1 DEF BeginTask
  <2>2. CASE BeginUpdate(r)
    <3>1. CASE stack.live
      BY <1>1, <2>2, <3>1 DEF BeginUpdate
    <3>2. CASE ~stack.live
      BY <1>1, <2>2, <3>2 DEF BeginUpdate
    <3> QED
      BY <3>1, <3>2
  <2>3. CASE BeginDelete(r)
    BY <1>1, <2>3 DEF BeginDelete
  <2>4. CASE SetToFailed(r)
    <3>1. obj[r].action \in Actions
      BY DEF TypeOK, State
    <3> QED
      BY <1>1, <2>4, <3>1 DEF SetToFailed
  <2> QED
    BY <1>2, <2>1, <2>2, <2>3, <2>4 DEF Begin
<1>3. CASE FinishTask(r)
  BY <1>1, <1>3 DEF FinishTask, TypeOK, State, Statuses, PC
<1>4. CASE FinishDelete(r)
  <2>1. [action |-> "DELETE", status |-> "COMPLETE"] \in State
    BY DEF State, Actions, Statuses
  <2>2. obj' \in [Requests -> State]
    BY <1>4, <2>1 DEF FinishDelete, TypeOK
  <2>3. stack' \in [live : BOOLEAN, action : Actions, status : Statuses]
    BY <1>4 DEF FinishDelete, Actions, Statuses
  <2> QED
    BY <1>4, <2>2, <2>3 DEF FinishDelete, TypeOK, Goto, PC
<1>5. CASE Die(r)
  <2>1. [action |-> obj[r].action, status |-> "FAILED"] \in State
    BY DEF TypeOK, State, Statuses
  <2>2. /\ obj' \in [Requests -> State]
        /\ stack' \in [live : BOOLEAN, action : Actions, status : Statuses]
    BY <1>5, <2>1, SetStateTyped DEF Die, TypeOK
  <2> QED
    BY <1>5, <2>2 DEF Die, TypeOK, Goto, PC
<1>6. CASE End(r)
  BY <1>6 DEF End, TypeOK, State, Goto, PC
<1> QED
  BY <1>2, <1>3, <1>4, <1>5, <1>6 DEF Finish

\* The lock, the stack and the locals of every request keep their types; a
\* request probes, stops and robs only engines that exist.
THEOREM StackLockTypes == Spec => []TypeOK
<1>1. TypeOK /\ [Next]_vars => TypeOK'
  <2> SUFFICES ASSUME TypeOK, [Next]_vars PROVE TypeOK'
    OBVIOUS
  <2>1. ASSUME NEW e \in Engines, Crash(e) PROVE TypeOK'
    BY <2>1 DEF Crash, TypeOK, PC
  <2>2. CASE UNCHANGED vars
    BY <2>2 DEF vars, TypeOK
  <2> QED
    BY <2>1, <2>2, HandlerTyped, LossTyped, ThreadTyped DEF Next, Step
<1> QED
  BY <1>1, TypesInitially, PTL DEF Spec

-----------------------------------------------------------------------------
\* The request r has the lock of its engine, or had it and has returned with it.
Has(r) == Owns(r) \/ At(r, "kept")

\* A request that keeps, gives back or takes the lock keeps LockHasThread: the
\* witness for the lock of another engine is untouched by its step.
LEMMA WitnessStays ==
    ASSUME TypeOK, LockHasThread, NEW r \in Requests, Moves(r),
           dead' = dead, stack'.live => stack.live,
           \/ lock' = Engine[r] /\ Has(r)'
           \/ lock' = None
           \/ lock' = lock /\ (Has(r) => Has(r)' \/ lock # Engine[r] \/ ~stack'.live)
    PROVE  LockHasThread'
<1> SUFFICES ASSUME stack'.live, lock' \notin dead \cup {None}
             PROVE  \E q \in Requests : Engine[q] = lock' /\ Has(q)'
  BY DEF LockHasThread, Has
<1>1. CASE lock' = Engine[r] /\ Has(r)'
  BY <1>1
<1>2. CASE lock' = lock /\ (Has(r) => Has(r)' \/ lock # Engine[r] \/ ~stack'.live)
  <2>1. PICK q \in Requests : Engine[q] = lock /\ Has(q)
    BY <1>2 DEF LockHasThread, Has
  <2>2. q # r => Has(q)'
    BY <2>1 DEF Moves, Has, Owns, At
  <2> QED
    BY <1>2, <2>1, <2>2
<1> QED
  BY <1>1, <1>2

\* Every step of a request is of one of the three kinds.
LEMMA StepKeepsWitness ==
    ASSUME TypeOK, LockHasThread, NEW r \in Requests, Arrive(r) \/ Step(r)
    PROVE  LockHasThread'
<1> USE DEF At, Goto, TypeOK, PC, Has, Owns, Moves, locals
<1>1. Moves(r) /\ dead' = dead
  <2>1. TypeOK'
    BY HandlerTyped, LossTyped, ThreadTyped DEF Step
  <2> QED
    BY <2>1 DEF Arrive, Step, TryGet, Get, Insert, Unwind, ProbeAnswered, ProbeTimesOut, Steal,
     StealRetry, StealRefused, StopCall, Stopped, StopTimesOut, Reload, Start, StartReset,
     ReturnLocked, Begin, BeginTask, BeginUpdate, BeginDelete, SetToFailed, Finish,
     FinishTask, FinishDelete, Becomes, Die, End
<1>2. CASE Arrive(r) \/ TryGet(r) \/ Get(r) \/ ProbeAnswered(r) \/ ProbeTimesOut(r)
           \/ StealRetry(r) \/ StealRefused(r) \/ StopCall(r) \/ Stopped(r)
           \/ StopTimesOut(r) \/ Reload(r)
  <2>1. lock' = lock /\ stack' = stack /\ ~Has(r)
    BY <1>2 DEF Arrive, TryGet, Get, ProbeAnswered, ProbeTimesOut, StealRetry, StealRefused,
       StopCall, Stopped, StopTimesOut, Reload
  <2> QED
    BY <1>1, <2>1, WitnessStays
<1>3. CASE Insert(r) \/ Steal(r) \/ Unwind(r)
  <2>1. /\ stack' = stack /\ ~Has(r)
        /\ lock' = lock \/ lock' = None \/ (lock' = Engine[r] /\ Has(r)')
    BY <1>3 DEF Insert, Steal, Unwind
  <2> QED
    BY <1>1, <2>1, WitnessStays
<1>4. CASE Start(r) \/ ReturnLocked(r)
  <2>1. lock' = lock /\ stack' = stack /\ Has(r)'
    BY <1>4 DEF Start, ReturnLocked
  <2> QED
    BY <1>1, <2>1, WitnessStays
<1>5. CASE StartReset(r)
  <2>1. /\ stack' = stack
        /\ lock' = None \/ (lock' = lock /\ (Has(r)' \/ lock # Engine[r]))
    BY <1>5 DEF StartReset
  <2> QED
    BY <1>1, <2>1, WitnessStays
<1>6. CASE Begin(r) \/ Finish(r) \/ Die(r)
  <2>1. lock' = lock /\ Has(r)' /\ (stack'.live => stack.live)
    BY <1>6 DEF Begin, BeginTask, BeginUpdate, BeginDelete, SetToFailed, Finish, FinishTask,
       FinishDelete, Becomes, Die, SetState
  <2> QED
    BY <1>1, <2>1, WitnessStays
<1>7. CASE End(r)
  <2>1. /\ stack'.live = stack.live
        /\ \/ lock' = None
           \/ lock' = lock /\ (lock # Engine[r] \/ ~stack.live)
    BY <1>7 DEF End
  <2> QED
    BY <1>1, <2>1, WitnessStays
<1> QED
  BY <1>2, <1>3, <1>4, <1>5, <1>6, <1>7 DEF Step

\* The link of a thread, its exception handlers and reset_stack_status() leave no
\* lock without an owner on a stack that exists, whatever has been stolen.
THEOREM NoStackLockIsLeftBehind == Spec => []LockHasThread
<1>1. Init => LockHasThread
  BY DEF Init, LockHasThread
<1>2. TypeOK /\ LockHasThread /\ [Next]_vars => LockHasThread'
  <2> SUFFICES ASSUME TypeOK, LockHasThread, [Next]_vars PROVE LockHasThread'
    OBVIOUS
  <2>1. ASSUME NEW e \in Engines, Crash(e) PROVE LockHasThread'
    BY <2>1, StackLockAssumption DEF Crash, LockHasThread, Owns, At, TypeOK
  <2>2. CASE UNCHANGED vars
    BY <2>2 DEF vars, LockHasThread, Owns, At
  <2> QED
    BY <2>1, <2>2, StepKeepsWitness DEF Next
<1> QED
  BY <1>1, <1>2, StackLockTypes, PTL DEF Spec
=============================================================================
