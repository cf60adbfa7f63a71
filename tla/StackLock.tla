----------------------------- MODULE StackLock -----------------------------
(***************************************************************************)
(* The lock under which heat's engines operate on a stack outside the      *)
(* convergence engine (heat/engine/stack_lock.py, ThreadGroupManager and   *)
(* the request handlers of service.py, stack_lock_* in                     *)
(* db/sqlalchemy/api.py).  The lock is a row of the stack_lock table with  *)
(* the id of the engine.  A request acquires it and starts a thread; the   *)
(* end of the thread, however it comes, releases it.  A request may steal  *)
(* the lock of an engine that does not answer, a deletion stops the thread *)
(* that has the lock, and an engine that starts resets the stacks that     *)
(* dead engines have left IN_PROGRESS.                                     *)
(***************************************************************************)
CONSTANTS Requests,
          Engines, Engine,   \* the engine that serves each request
          Kind,              \* what each request asks for
          None,
          Slow               \* live engines that may answer too late

\* "check" stands for the operations whose final state is stored together
\* with the release of the lock (CREATE, CHECK, SUSPEND, RESUME, SNAPSHOT).
Kinds == {"check", "update", "delete", "reset", "cancel", "export"}

ASSUME StackLockAssumption ==
    /\ Engine \in [Requests -> Engines]
    /\ Kind \in [Requests -> Kinds]
    /\ None \notin Engines
    /\ Slow \subseteq Engines

VARIABLES lock,     \* engine_id in the stack_lock row, None if there is no row
          stack,    \* the row of the stack
          pc,       \* where each request, or the thread it has started, stands
          obj,      \* action and status of the Stack object of each request
          seen,     \* lock_engine_id of each request
          retry,    \* requests that may call acquire() once more
          group,    \* requests whose thread is in its engine's ThreadGroup
          killed,   \* requests whose thread has been killed
          dead,     \* engines that have crashed; a restart gets a new id
          lost      \* history: a live engine has lost the lock of a thread

vars == <<lock, stack, pc, obj, seen, retry, group, killed, dead, lost>>

locals == <<obj, seen, retry, group, killed>>

PC == {"idle", "try_get", "try_insert", "stop_probe", "stop_call", "stopping",
       "reload", "get", "insert", "unwind", "probe", "steal", "acquired",
       "started", "running", "ending", "done", "kept", "crashed"}

Actions == {"CHECK", "UPDATE", "DELETE"}

Statuses == {"IN_PROGRESS", "COMPLETE", "FAILED"}

State == [action : Actions, status : Statuses]

StateOf(s) == [action |-> s.action, status |-> s.status]

Init ==
    /\ lock = None
    /\ stack = [live |-> TRUE, action |-> "CHECK", status |-> "COMPLETE"]
    /\ pc = [r \in Requests |-> "idle"]
    /\ obj = [r \in Requests |-> StateOf(stack)]
    /\ seen = [r \in Requests |-> Engine[r]]
    /\ retry = {r \in Requests : Kind[r] # "reset"}
    /\ group = {}
    /\ killed = {}
    /\ dead = {}
    /\ lost = FALSE

At(r, l) == pc[r] = l

Goto(r, l) == pc' = [pc EXCEPT ![r] = l]

-----------------------------------------------------------------------------
(* The handlers up to the lock.                                            *)

Accepted(r) ==
    /\ stack.live
    /\ Kind[r] = "update" => stack.action # "DELETE"
    /\ Kind[r] = "reset" => stack.status = "IN_PROGRESS"
    /\ Kind[r] = "cancel" => StateOf(stack) = [action |-> "UPDATE", status |-> "IN_PROGRESS"]

\* A request comes in and loads the stack.
Arrive(r) ==
    /\ At(r, "idle")
    /\ IF Accepted(r)
       THEN /\ Goto(r, IF Kind[r] \in {"delete", "cancel"} THEN "try_get" ELSE "get")
            /\ obj' = [obj EXCEPT ![r] = StateOf(stack)]
       ELSE Goto(r, "done") /\ UNCHANGED obj
    /\ UNCHANGED <<lock, stack, seen, retry, group, killed, dead, lost>>

\* Mutant: the answer "no lock" is remembered as the engine to stop.
TryGetUnchecked(r) ==
    /\ At(r, "try_get")
    /\ seen' = [seen EXCEPT ![r] = lock]
    /\ Goto(r, IF lock = None THEN "try_insert"
               ELSE IF Kind[r] = "cancel" THEN "done"
               ELSE IF lock = Engine[r] THEN "stop_call" ELSE "stop_probe")
    /\ UNCHANGED <<lock, stack, obj, retry, group, killed, dead, lost>>

\* try_acquire(), stack_lock_create(): read the row.  A deletion goes on to
\* stop whoever has the lock, a cancellation sends its message and is done.
TryGet(r) ==
    /\ At(r, "try_get")
    /\ seen' = [seen EXCEPT ![r] = IF lock = None THEN @ ELSE lock]
    /\ Goto(r, IF lock = None THEN "try_insert"
               ELSE IF Kind[r] = "cancel" THEN "done"
               ELSE IF lock = Engine[r] THEN "stop_call" ELSE "stop_probe")
    /\ UNCHANGED <<lock, stack, obj, retry, group, killed, dead, lost>>

\* acquire(), stack_lock_create(): read the row.  A lock of this engine is
\* ActionInProgress, another engine is asked whether it is alive.
Get(r) ==
    /\ At(r, "get")
    /\ seen' = [seen EXCEPT ![r] = IF lock = None THEN @ ELSE lock]
    /\ Goto(r, IF lock = None THEN "insert"
               ELSE IF lock = Engine[r] THEN "done" ELSE "probe")
    /\ UNCHANGED <<lock, stack, obj, retry, group, killed, dead, lost>>

\* Mutant: the table has no primary key, the second row is accepted.
InsertAgain(r) ==
    /\ pc[r] \in {"insert", "try_insert"}
    /\ lock' = Engine[r]
    /\ Goto(r, "acquired")
    /\ UNCHANGED <<locals, stack, dead, lost>>

\* stack_lock_create(): insert the row.  A row that has come in between is
\* a duplicate key, an exception that thread_lock() and try_thread_lock()
\* answer with release(); a cancellation has no such handler.
Insert(r) ==
    /\ pc[r] \in {"insert", "try_insert"}
    /\ IF lock = None
       THEN lock' = Engine[r] /\ Goto(r, "acquired")
       ELSE UNCHANGED lock /\ Goto(r, IF Kind[r] = "cancel" THEN "done" ELSE "unwind")
    /\ UNCHANGED <<locals, stack, dead, lost>>

\* release() after an exception.
Unwind(r) ==
    /\ At(r, "unwind")
    /\ lock' = IF lock = Engine[r] THEN None ELSE lock
    /\ lost' = (lost \/ lock = Engine[r])
    /\ Goto(r, "done")
    /\ UNCHANGED <<locals, stack, dead>>

\* engine_alive(): the engine answers; the request is refused, or asks the
\* engine to stop.
ProbeAnswered(r) ==
    /\ pc[r] \in {"probe", "stop_probe"}
    /\ seen[r] \notin dead
    /\ Goto(r, IF At(r, "probe") THEN "done" ELSE "stop_call")
    /\ UNCHANGED <<locals, lock, stack, dead, lost>>

\* engine_alive(): MessagingTimeout; the lock is stale.
ProbeTimesOut(r) ==
    /\ pc[r] \in {"probe", "stop_probe"}
    /\ seen[r] \in dead \cup Slow
    /\ Goto(r, IF At(r, "probe") THEN "steal" ELSE "reload")
    /\ UNCHANGED <<locals, lock, stack, dead, lost>>

\* Mutant: the UPDATE statement does not filter on the old engine_id.
StealAnyway(r) ==
    /\ At(r, "steal")
    /\ lock' = Engine[r]
    /\ lost' = (lost \/ (lock = seen[r] /\ seen[r] \notin dead))
    /\ Goto(r, "acquired")
    /\ UNCHANGED <<locals, stack, dead>>

\* stack_lock_steal() finds the row as it was.
Steal(r) ==
    /\ At(r, "steal") /\ lock = seen[r]
    /\ lock' = Engine[r]
    /\ lost' = (lost \/ seen[r] \notin dead)
    /\ Goto(r, "acquired")
    /\ UNCHANGED <<locals, stack, dead>>

\* The row was gone: acquire(retry=False).
StealRetry(r) ==
    /\ At(r, "steal") /\ lock = None /\ r \in retry
    /\ retry' = retry \ {r}
    /\ Goto(r, "get")
    /\ UNCHANGED <<lock, stack, obj, seen, group, killed, dead, lost>>

\* Another engine was first, or the row was gone again: ActionInProgress.
StealRefused(r) ==
    /\ At(r, "steal") /\ lock # seen[r]
    /\ Goto(r, "done")
    /\ UNCHANGED <<locals, lock, stack, dead, lost>>

-----------------------------------------------------------------------------
(* delete_stack() when it has not got the lock at once.                    *)

\* ThreadGroupManager.stop() in engine seen[r]: the threads of the group are
\* killed, and the group is forgotten.
StopCall(r) ==
    /\ At(r, "stop_call")
    /\ IF seen[r] \notin dead
       THEN LET victims == {q \in group : Engine[q] = seen[r]}
            IN /\ killed' = killed \cup victims
               /\ group' = group \ victims
               /\ Goto(r, "stopping")
       ELSE Goto(r, "done") /\ UNCHANGED <<killed, group>>
    /\ UNCHANGED <<lock, stack, obj, seen, retry, dead, lost>>

\* stop() returns when the threads it has killed have released the lock.
Stopped(r) ==
    /\ At(r, "stopping") /\ seen[r] \notin dead
    /\ \A q \in killed : Engine[q] = seen[r] => At(q, "done")
    /\ Goto(r, "reload")
    /\ UNCHANGED <<locals, lock, stack, dead, lost>>

\* _remote_call(): MessagingTimeout, StopActionFailed.
StopTimesOut(r) ==
    /\ At(r, "stopping") /\ seen[r] # Engine[r]
    /\ Goto(r, "done")
    /\ UNCHANGED <<locals, lock, stack, dead, lost>>

\* Load the stack again, then start_with_lock().
Reload(r) ==
    /\ At(r, "reload")
    /\ Goto(r, IF stack.live THEN "get" ELSE "done")
    /\ obj' = [obj EXCEPT ![r] = StateOf(stack)]
    /\ UNCHANGED <<lock, stack, seen, retry, group, killed, dead, lost>>

-----------------------------------------------------------------------------
(* The thread.                                                             *)

\* start_with_acquired_lock().
Start(r) ==
    /\ At(r, "acquired") /\ Kind[r] \in {"check", "update", "delete"}
    /\ Goto(r, "started")
    /\ group' = group \cup {r}
    /\ UNCHANGED <<lock, stack, obj, seen, retry, killed, dead, lost>>

\* reset_stack_status() looks at the stack once more, and unlocks it if its
\* operation has ended or it is gone.
StartReset(r) ==
    /\ At(r, "acquired") /\ Kind[r] = "reset"
    /\ IF stack.live /\ stack.status = "IN_PROGRESS"
       THEN /\ Goto(r, "started")
            /\ group' = group \cup {r}
            /\ obj' = [obj EXCEPT ![r] = StateOf(stack)]
            /\ UNCHANGED lock
       ELSE /\ lock' = IF lock = Engine[r] THEN None ELSE lock
            /\ Goto(r, "done") /\ UNCHANGED <<group, obj>>
    /\ UNCHANGED <<stack, seen, retry, killed, dead, lost>>

\* export_stack() and stack_cancel_update() return with the lock, which
\* nothing releases then.
ReturnLocked(r) ==
    /\ At(r, "acquired") /\ Kind[r] \in {"cancel", "export"}
    /\ Goto(r, "kept")
    /\ UNCHANGED <<locals, lock, stack, dead, lost>>

\* The object's state becomes s; it is stored, if the stack still exists,
\* when persist says so.
SetState(r, s, persist) ==
    /\ obj' = [obj EXCEPT ![r] = s]
    /\ stack' = IF persist /\ stack.live
                THEN [stack EXCEPT !.action = s.action, !.status = s.status] ELSE stack

\* Mutant: only IN_PROGRESS is stored.
PersistedInProgress(s) == s.status = "IN_PROGRESS"

\* state_set() stores IN_PROGRESS, and any status of these actions.
Persisted(s) == s.status = "IN_PROGRESS" \/ s.action \in {"UPDATE", "DELETE"}

\* A step of the thread of request r: the object gets this state, and the
\* thread goes on to l.
Becomes(r, action, status, l) ==
    LET s == [action |-> action, status |-> status]
    IN /\ r \notin killed
       /\ SetState(r, s, Persisted(s))
       /\ Goto(r, l)
       /\ UNCHANGED <<lock, seen, retry, group, killed, dead, lost>>

\* stack_task() starts.
BeginTask(r) ==
    At(r, "started") /\ Kind[r] = "check" /\ Becomes(r, "CHECK", "IN_PROGRESS", "running")

\* update_task() refuses a stack that was IN_PROGRESS when it was loaded, and
\* ends with an error if the stack is gone.
BeginUpdate(r) ==
    /\ At(r, "started") /\ Kind[r] = "update"
    /\ IF obj[r].status = "IN_PROGRESS"
       THEN Becomes(r, "UPDATE", "FAILED", "ending")
       ELSE Becomes(r, "UPDATE", "IN_PROGRESS", IF stack.live THEN "running" ELSE "ending")

\* Stack.delete() starts.
BeginDelete(r) ==
    At(r, "started") /\ Kind[r] = "delete" /\ Becomes(r, "DELETE", "IN_PROGRESS", "running")

\* set_stack_and_resource_to_failed().
SetToFailed(r) ==
    At(r, "started") /\ Kind[r] = "reset" /\ Becomes(r, obj[r].action, "FAILED", "ending")

Begin(r) == BeginTask(r) \/ BeginUpdate(r) \/ BeginDelete(r) \/ SetToFailed(r)

\* The operation ends, one way or the other; a cancelled update ends here too.
FinishTask(r) ==
    /\ At(r, "running")
    /\ \E status \in {"COMPLETE", "FAILED"} :
          /\ Kind[r] = "delete" => status = "FAILED"
          /\ Becomes(r, obj[r].action, status, "ending")

\* A deletion that succeeds deletes the stack.
FinishDelete(r) ==
    /\ At(r, "running") /\ Kind[r] = "delete" /\ r \notin killed
    /\ obj' = [obj EXCEPT ![r] = [action |-> "DELETE", status |-> "COMPLETE"]]
    /\ stack' = [live |-> FALSE, action |-> "DELETE", status |-> "COMPLETE"]
    /\ Goto(r, "ending")
    /\ UNCHANGED <<lock, seen, retry, group, killed, dead, lost>>

Finish(r) == FinishTask(r) \/ FinishDelete(r)

\* Mutant: a thread that is killed does not run its links.
DieSilently(r) ==
    /\ r \in killed /\ pc[r] \in {"started", "running"}
    /\ Goto(r, "done")
    /\ UNCHANGED <<locals, lock, stack, dead, lost>>

\* GreenletExit in the thread: reset_state_on_error() and update_task() set
\* FAILED; a thread that has not begun just ends.
Die(r) ==
    LET s == [action |-> obj[r].action, status |-> "FAILED"]
    IN /\ r \in killed /\ pc[r] \in {"started", "running"}
       /\ IF At(r, "running") THEN SetState(r, s, Persisted(s)) ELSE UNCHANGED <<obj, stack>>
       /\ Goto(r, "ending")
       /\ UNCHANGED <<lock, seen, retry, group, killed, dead, lost>>

\* Mutant: a thread that stores its state leaves the lock.
EndKeepsLock(r) ==
    /\ At(r, "ending")
    /\ IF obj[r].action \in {"UPDATE", "DELETE"}
       THEN lock' = (IF lock = Engine[r] THEN None ELSE lock) /\ UNCHANGED stack
       ELSE /\ UNCHANGED lock
            /\ stack' = [stack EXCEPT !.action = obj[r].action, !.status = obj[r].status]
    /\ Goto(r, "done")
    /\ group' = group \ {r}
    /\ UNCHANGED <<obj, seen, retry, killed, dead, lost>>

\* The release() linked to the thread: with the state of the object, if its
\* action calls for it and the stack exists, or the lock alone.
End(r) ==
    LET release == IF lock = Engine[r] THEN None ELSE lock
    IN /\ At(r, "ending")
       /\ IF obj[r].action \in {"UPDATE", "DELETE"}
          THEN lock' = release /\ UNCHANGED stack
          ELSE IF stack.live
          THEN /\ lock' = release
               /\ stack' = [stack EXCEPT !.action = obj[r].action, !.status = obj[r].status]
          ELSE UNCHANGED <<lock, stack>>
       /\ Goto(r, "done")
       /\ group' = group \ {r}
       /\ UNCHANGED <<obj, seen, retry, killed, dead, lost>>

\* An engine dies with the threads in it; the lock stays.
Crash(e) ==
    /\ e \notin dead
    /\ dead' = dead \cup {e}
    /\ pc' = [r \in Requests |-> IF Engine[r] = e THEN "crashed" ELSE pc[r]]
    /\ group' = {r \in group : Engine[r] # e}
    /\ UNCHANGED <<lock, stack, obj, seen, retry, killed, lost>>

Step(r) ==
    \/ TryGet(r) \/ Get(r) \/ Insert(r) \/ Unwind(r)
    \/ ProbeAnswered(r) \/ ProbeTimesOut(r)
    \/ Steal(r) \/ StealRetry(r) \/ StealRefused(r)
    \/ StopCall(r) \/ Stopped(r) \/ StopTimesOut(r) \/ Reload(r)
    \/ Start(r) \/ StartReset(r) \/ ReturnLocked(r)
    \/ Begin(r) \/ Finish(r) \/ Die(r) \/ End(r)

Next == (\E r \in Requests : Arrive(r) \/ Step(r)) \/ (\E e \in Engines : Crash(e))

Spec == Init /\ [][Next]_vars

\* A handler and the thread it starts keep running in a live engine, and an
\* operation ends (its tasks have a timeout).  Requests and crashes are free.
Fairness == \A r \in Requests : WF_vars(Step(r))

FairSpec == Spec /\ Fairness

-----------------------------------------------------------------------------
\* The rows and the locals of the requests keep their types; a request only
\* ever probes, stops or robs a real engine.
TypeOK ==
    /\ lock \in Engines \cup {None}
    /\ stack \in [live : BOOLEAN, action : Actions, status : Statuses]
    /\ pc \in [Requests -> PC]
    /\ obj \in [Requests -> State]
    /\ seen \in [Requests -> Engines]
    /\ retry \subseteq Requests /\ group \subseteq Requests /\ killed \subseteq Requests
    /\ dead \subseteq Engines
    /\ lost \in BOOLEAN

\* The request, or its thread, has acquired the lock and not yet released it.
Owns(r) == pc[r] \in {"acquired", "started", "running", "ending"}

\* Two operations never run on a stack at the same time, as long as no live
\* engine has lost its lock.
OneOperation == ~lost => \A r, q \in Requests : Owns(r) /\ Owns(q) => r = q

\* The requests of a dead engine have stopped.
DeadHaveStopped == \A r \in Requests : Engine[r] \in dead => At(r, "crashed")

\* Who owns the lock is in the row.
OwnerIsRecorded == ~lost => \A r \in Requests : Owns(r) => lock = Engine[r]

\* The inductive invariant of StackLock.
StackLockInv ==
    /\ pc \in [Requests -> PC]
    /\ DeadHaveStopped
    /\ OwnerIsRecorded
    /\ OneOperation

\* No thread leaves a lock behind: the lock of a live engine on a stack that
\* exists belongs to a request of that engine, whose end will release it,
\* or to an export or a cancellation that has returned with it.
LockHasThread ==
    stack.live /\ lock \notin dead \cup {None} =>
        \E r \in Requests : Engine[r] = lock /\ (Owns(r) \/ At(r, "kept"))

\* What the database says of the stack is changed only by the request that
\* has the lock, as long as no live engine has lost it.
OnlyOwnerWrites ==
    [][stack' # stack /\ ~lost =>
         \E r \in Requests : Owns(r) /\ lock = Engine[r] /\ pc'[r] # pc[r]]_vars

\* The lock goes when the request that acquired it gives it up, and not at
\* the hands of another.
ReleasedByOwner ==
    [][lock # None /\ lock' = None => \E r \in Requests : Owns(r) /\ ~Owns(r)']_vars

\* A stack that exists can be operated on again in the end: its lock does
\* not stay with a live engine.
LockIsGivenBack == <>[](~stack.live \/ lock \in dead \cup {None})

\* An engine that starts, and finds the stack IN_PROGRESS under the lock of
\* a dead engine, gets the stack out of that state, or somebody else does,
\* unless the engine that takes over dies in its turn, or a cancellation
\* takes the lock and keeps it.
AbandonedIsReset ==
    \A r \in Requests, e \in Engines :
        (/\ Kind[r] = "reset" /\ At(r, "get")
         /\ lock = e /\ e \in dead /\ stack.status = "IN_PROGRESS")
            ~> \/ stack.status # "IN_PROGRESS" \/ ~stack.live
               \/ At(r, "crashed") \/ lost \/ lock \in dead \ {e}
               \/ \E q \in Requests : At(q, "kept")
=============================================================================
