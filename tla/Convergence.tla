---------------------------- MODULE Convergence ----------------------------
(***************************************************************************)
(* Heat's convergence engine (heat/engine/stack.py, resource.py,           *)
(* worker.py): a stack operation stores a new traversal in the stack row,  *)
(* computes the graph of resource checks, creates a sync point per node    *)
(* and casts a check_resource message for each leaf.  Workers in any       *)
(* engine serve the messages: load the resource, lock its row, act on the  *)
(* physical resource, unlock, and report to the sync points of the         *)
(* dependent nodes.  The last root to report marks the stack complete.     *)
(* Operations and the rollbacks that failures trigger run concurrently;    *)
(* each supersedes the traversal before it.                                *)
(*                                                                         *)
(* A step is one database transaction, or several that no other step can   *)
(* tell apart.  Sync points are used through the atomic hand-over that     *)
(* module SyncPoint is shown to implement; unlocking a resource is one     *)
(* step, which module ResourceLock justifies.                              *)
(***************************************************************************)
EXTENDS Integers, FiniteSets, Functions

CONSTANTS Names,        \* resource names
          Tmpls,        \* ids of stored templates, positive integers
          EmptyTmpl,    \* the id of an empty template, in Tmpls
          TmplNames,    \* the names each template defines
          TmplRequires, \* [template -> [name -> names it requires]]
          TmplProps,    \* [template -> [name -> its properties]]
          Replacing,    \* names whose type replaces on a property change
          DisableRollback,
          Patient,      \* requests made only when the stack has settled
          Ops,          \* threads that serve user requests
          Op,           \* what each requests: [action, tmpl]
          Creator,      \* the member of Ops that creates the stack
          Workers,      \* check_resource handlers that run at a time
          Engines, Engine,   \* the engine each thread runs in
          FaultKinds, MaxFaults  \* which faults happen, and how many in all

None == 0

Threads == Ops \cup Workers

ASSUME ConvergenceAssumption ==
    /\ Tmpls \subseteq Nat \ {0} /\ EmptyTmpl \in Tmpls
    /\ TmplNames \in [Tmpls -> SUBSET Names] /\ TmplNames[EmptyTmpl] = {}
    /\ TmplRequires \in [Tmpls -> [Names -> SUBSET Names]]
    /\ \A t \in Tmpls : \A n \in TmplNames[t] : TmplRequires[t][n] \subseteq TmplNames[t]
    /\ IsFiniteSet(Names)
    /\ Replacing \subseteq Names /\ DisableRollback \in BOOLEAN /\ Patient \subseteq Ops
    /\ Creator \in Ops /\ Ops \cap Workers = {}
    /\ Op \in [Ops -> [action : {"CREATE", "UPDATE", "DELETE"}, tmpl : Tmpls]]
    /\ \A o \in Ops : Op[o].action = "CREATE" <=> o = Creator
    /\ Engine \in [Threads -> Engines] /\ None \notin Engines
    /\ FaultKinds \subseteq {"fail", "timeout", "late", "crash"}
    /\ MaxFaults \in Nat

VARIABLES stack,     \* the row of the stack table
          rsrc,      \* the resource table: a function on the ids of its rows
          nextId,    \* the autoincrement of the resource table
          nextTrav,  \* stands for uuid generation: traversals never used before
          sp,        \* sync points: [traversal -> [node -> input_data]]
          casts,     \* check_resource messages not yet consumed
          phys,      \* row ids whose physical resource exists
          th,        \* the threads
          dead,      \* engines that have crashed
          faults     \* faults so far

vars == <<stack, rsrc, nextId, nextTrav, sp, casts, phys, th, dead, faults>>

db == <<stack, rsrc, nextId, nextTrav, sp, casts>>

-----------------------------------------------------------------------------
(* Dependency graphs.  A node is <<resource id, is_update>>.               *)

NoGraph == [nodes |-> {}, edges |-> {}]

graphPreds(g, n) == {e[2] : e \in {x \in g.edges : x[1] = n}}

required_by(g, n) == {e[1] : e \in {x \in g.edges : x[2] = n}}

\* Mutant: the traversal starts at the wrong end of the graph.
LeavesAreRoots(g) == {n \in g.nodes : required_by(g, n) = {}}

leaves(g) == {n \in g.nodes : graphPreds(g, n) = {}}

roots(g) == {n \in g.nodes : required_by(g, n) = {}}

\* Mutant: a cleanup waits for the update of the same resource only.
NoCleanupOrder(t, current, ext) ==
    LET update == {<<current[n], TRUE>> : n \in TmplNames[t]}
    IN [nodes |-> update \cup {<<i, FALSE>> : i \in DOMAIN ext},
        edges |->
          (UNION {{<<<<current[n], TRUE>>, <<current[m], TRUE>>>> :
                     m \in TmplRequires[t][n]} : n \in TmplNames[t]})
          \cup {<<<<i, FALSE>>, <<i, TRUE>>>> :
                     i \in {j \in DOMAIN ext : <<j, TRUE>> \in update}}]

\* _compute_convg_dependencies(): current maps the names of template t to
\* row ids, ext is the resource table as it was before new rows were stored.
convg_deps(t, current, ext) ==
    LET update == {<<current[n], TRUE>> : n \in TmplNames[t]}
        cleanup == {<<i, FALSE>> : i \in DOMAIN ext}
    IN [nodes |-> update \cup cleanup,
        edges |->
          (UNION {{<<<<current[n], TRUE>>, <<current[m], TRUE>>>> :
                     m \in TmplRequires[t][n]} : n \in TmplNames[t]})
          \cup (UNION {{<<<<r, FALSE>>, <<i, FALSE>>>> :
                     r \in (ext[i].requires \cup {ext[i].replaces}) \cap DOMAIN ext} :
                     i \in DOMAIN ext})
          \cup {<<<<i, FALSE>>, <<i, TRUE>>>> :
                     i \in {j \in DOMAIN ext : <<j, TRUE>> \in update}}]

\* _get_best_existing_rsrc_db(): rows of the template that is being applied
\* come first, then rows of the previous template, then any row of that name.
\* Within a rank the order of a dict decides.
best_existing(n, t, prev, ext) ==
    LET named == {i \in DOMAIN ext : ext[i].name = n}
        current == {i \in named : ext[i].tmpl = t}
        previous == {i \in named : ext[i].tmpl = prev}
    IN IF current # {} THEN current
       ELSE IF previous # {} THEN previous ELSE named

\* A row as _store() and make_replacement() insert it.
NewRow(n, t, requires, replaces) ==
    [name |-> n, action |-> "INIT", status |-> "COMPLETE", tmpl |-> t,
     engine |-> None, atomic_key |-> 0, requires |-> requires,
     replaces |-> replaces, replaced_by |-> None]

-----------------------------------------------------------------------------
(* Threads.  rs and st are the Resource and Stack objects a thread has     *)
(* loaded; they go stale as others write the rows.                         *)

NoMsg == [id |-> None, trav |-> 0, upd |-> FALSE, data |-> {}]
NoStack == [live |-> FALSE, trav |-> 0, action |-> "CREATE",
            status |-> "IN_PROGRESS", tmpl |-> EmptyTmpl, prev |-> None,
            deps |-> NoGraph]
NoRs == NewRow("", None, {}, None)
NoGoal == [action |-> "CREATE", tmpl |-> EmptyTmpl]

Idle == [pc |-> "idle", msg |-> NoMsg, rs |-> NoRs, st |-> NoStack,
         goal |-> NoGoal, old |-> 0, key |-> 0, out |-> "none"]

\* The handler returns, or an exception leaves it.
Return(w) ==
    th' = [th EXCEPT ![w] = [Idle EXCEPT !.pc = IF w \in Ops THEN "finished" ELSE "idle"]]

Goto(w, pc) == th' = [th EXCEPT ![w].pc = pc]

Alive(w) == Engine[w] \notin dead

At(w, pc) == Alive(w) /\ th[w].pc = pc

Fault(kind) == kind \in FaultKinds /\ faults < MaxFaults /\ faults' = faults + 1

\* Stack.store() and select_and_update(): the row is written if it still
\* has the traversal the writer expects; a deleted stack raises NotFound.
Current(exp) == stack.live /\ stack.trav = exp

\* Stack.store(): the object st is written whole.
Store(st, exp) == stack' = IF Current(exp) THEN st ELSE stack

\* Stack.state_set(): only action and status are written.
StateSet(st) ==
    stack' = IF Current(st.trav)
             THEN [stack EXCEPT !.action = st.action, !.status = st.status] ELSE stack

\* Whatever a thread writes into a resource row; a row that is gone is only
\* logged (_store_or_update).
WriteRow(id, f) ==
    rsrc' = IF id \in DOMAIN rsrc THEN [rsrc EXCEPT ![id] = f] ELSE rsrc

\* state_set() on a resource stores the object's fields, stale or not; the
\* columns of the lock are not among them.
Stored(w, rs) == [rs EXCEPT !.engine = rsrc[th[w].msg.id].engine,
                            !.atomic_key = rsrc[th[w].msg.id].atomic_key]

\* select_and_update() of a row that has the expected engine_id: every write
\* it makes advances atomic_key.
Bumped(row) == [row EXCEPT !.atomic_key = @ + 1]

merge(d, key, v) == {p \in d : p[1] # key} \cup {<<key, v>>}

senders(d) == {p[1] : p \in d}

StackNode == <<None, TRUE>>

Cast(id, trav, upd, data) ==
    [id |-> id, trav |-> trav, upd |-> upd, data |-> IF upd THEN data ELSE {}]

Init ==
    /\ stack = [NoStack EXCEPT !.live = TRUE, !.tmpl = Op[Creator].tmpl]
    /\ rsrc = << >>
    /\ nextId = 1
    /\ nextTrav = 1
    /\ sp = << >>
    /\ casts = {}
    /\ phys = {}
    /\ th = [w \in Threads |->
               IF w = Creator
               THEN [Idle EXCEPT !.pc = "store1", !.st = stack, !.goal = Op[w]]
               ELSE Idle]
    /\ dead = {}
    /\ faults = 0

-----------------------------------------------------------------------------
(* Stack operations: converge_stack() and rollback().                      *)

\* No operation is in progress and no thread or message is left over.
Settled ==
    /\ ~stack.live \/ stack.status # "IN_PROGRESS"
    /\ casts = {}
    /\ \A w \in Threads : th[w].pc \in {"idle", "finished", "crashed"}

\* Mutant: an update is accepted while the stack is being deleted.
RequestUnchecked(o) ==
    /\ At(o, "idle")
    /\ o \in Patient => Settled
    /\ IF stack.live
       THEN th' = [th EXCEPT ![o] = [Idle EXCEPT !.pc = "store1", !.st = stack,
                                                 !.goal = Op[o]]]
       ELSE Return(o)
    /\ UNCHANGED <<db, phys, dead, faults>>

\* What update_stack() asks of the stack before it goes on.
updatable == stack.action # "DELETE"

\* delete_stack(), or update_stack(), up to converge_stack().
Request(o) ==
    /\ At(o, "idle")
    /\ o \in Patient => Settled
    /\ IF stack.live /\ (Op[o].action = "UPDATE" => updatable)
       THEN th' = [th EXCEPT ![o] = [Idle EXCEPT !.pc = "store1", !.st = stack,
                                                 !.goal = Op[o]]]
       ELSE Return(o)
    /\ UNCHANGED <<db, phys, dead, faults>>

\* converge_stack() up to the first store().
StoreTraversal(w) ==
    LET st == th[w].st
        goal == th[w].goal
        new == [st EXCEPT !.trav = nextTrav, !.action = goal.action,
                          !.status = "IN_PROGRESS", !.tmpl = goal.tmpl,
                          !.prev = IF goal.action = "CREATE" THEN @ ELSE st.tmpl]
    IN /\ At(w, "store1")
       /\ nextTrav' = nextTrav + 1
       /\ Store(new, st.trav)
       /\ IF Current(st.trav)
          THEN th' = [th EXCEPT ![w].st = new, ![w].old = st.trav, ![w].pc = "delete_prev"]
          ELSE Return(w)
       /\ UNCHANGED <<rsrc, nextId, sp, casts, phys, dead, faults>>

\* sync_point.delete_all() for the previous traversal.
DeletePrevSyncPoints(w) ==
    /\ At(w, "delete_prev")
    /\ sp' = Restrict(sp, DOMAIN sp \ {th[w].old})
    /\ Goto(w, "resources")
    /\ UNCHANGED <<stack, rsrc, nextId, nextTrav, casts, phys, dead, faults>>

\* _update_or_store_resources() and _compute_convg_dependencies().  Only the
\* compare-and-swap of set_needed_by() is kept of the needed_by column.
UpdateOrStoreResources(w) ==
    LET st == th[w].st
        names == TmplNames[st.tmpl]
        best == [n \in names |-> best_existing(n, st.tmpl, st.prev, rsrc)]
        new == {n \in names : best[n] = {}}
        ids == nextId .. (nextId + Cardinality(new) - 1)
        fresh == CHOOSE f \in [new -> ids] : IsInjective(f)
    IN /\ At(w, "resources")
       /\ \E current \in [names -> DOMAIN rsrc \cup ids] :
             /\ \A n \in names : IF n \in new THEN current[n] = fresh[n]
                                 ELSE current[n] \in best[n]
             /\ rsrc' = [i \in DOMAIN rsrc \cup ids |->
                           IF i \in DOMAIN rsrc
                           THEN IF i \in Range(current) /\ rsrc[i].engine = None
                                THEN Bumped(rsrc[i]) ELSE rsrc[i]
                           ELSE NewRow(CHOOSE n \in new : fresh[n] = i, st.tmpl, {}, None)]
             /\ th' = [th EXCEPT ![w].st.deps = convg_deps(st.tmpl, current, rsrc),
                                 ![w].pc = "store2"]
       /\ nextId' = nextId + Cardinality(new)
       /\ UNCHANGED <<stack, nextTrav, sp, casts, phys, dead, faults>>

\* The second store(), which makes the graph of the traversal visible.
StoreDeps(w) ==
    /\ At(w, "store2")
    /\ Store(th[w].st, th[w].st.trav)
    /\ IF Current(th[w].st.trav) THEN Goto(w, "trigger") ELSE Return(w)
    /\ UNCHANGED <<rsrc, nextId, nextTrav, sp, casts, phys, dead, faults>>

\* Create the sync points and cast the leaves, or complete at once.
TriggerLeaves(w) ==
    LET st == th[w].st
    IN /\ At(w, "trigger")
       /\ sp' = [t \in DOMAIN sp \cup {st.trav} |->
                   IF t = st.trav
                   THEN [n \in st.deps.nodes \cup {StackNode} |-> {}] ELSE sp[t]]
       /\ casts' = casts \cup {Cast(n[1], st.trav, n[2], {}) : n \in leaves(st.deps)}
       /\ IF st.deps.nodes = {} THEN Goto(w, "complete") ELSE Return(w)
       /\ UNCHANGED <<stack, rsrc, nextId, nextTrav, phys, dead, faults>>

\* Mutant: a stack without a previous template has nothing to roll back to.
RollbackToNothing(w) ==
    LET st == th[w].st
    IN /\ At(w, "rollback")
       /\ IF Current(st.trav)
          THEN /\ th' = [th EXCEPT ![w].goal = [action |-> "ROLLBACK", tmpl |-> st.prev],
                                   ![w].st.prev = None, ![w].pc = "store1"]
               /\ stack' = [st EXCEPT !.prev = None]
          ELSE Return(w) /\ UNCHANGED stack
       /\ UNCHANGED <<rsrc, nextId, nextTrav, sp, casts, phys, dead, faults>>

\* Mutant: the rollback starts from the stack as it is by now.
RollbackReloads(w) ==
    LET st == stack
        goal == [action |-> "ROLLBACK",
                 tmpl |-> IF st.prev = None THEN EmptyTmpl ELSE st.prev]
    IN /\ At(w, "rollback")
       /\ stack' = [st EXCEPT !.prev = None]
       /\ th' = [th EXCEPT ![w].goal = goal, ![w].st = [st EXCEPT !.prev = None],
                           ![w].pc = "store1"]
       /\ UNCHANGED <<rsrc, nextId, nextTrav, sp, casts, phys, dead, faults>>

\* rollback(): forget the previous template, then converge to it.
Rollback(w) ==
    LET st == th[w].st
        goal == [action |-> "ROLLBACK",
                 tmpl |-> IF st.prev = None THEN EmptyTmpl ELSE st.prev]
    IN /\ At(w, "rollback")
       /\ IF st.prev = None THEN UNCHANGED stack
          ELSE Store([st EXCEPT !.prev = None], st.trav)
       /\ IF st.prev = None \/ Current(st.trav)
          THEN th' = [th EXCEPT ![w].goal = goal, ![w].st.prev = None, ![w].pc = "store1"]
          ELSE Return(w)
       /\ UNCHANGED <<rsrc, nextId, nextTrav, sp, casts, phys, dead, faults>>

\* Mutant: the state is stored whatever traversal is current.
MarkCompleteUnconditional(w) ==
    LET st == [th[w].st EXCEPT !.status = "COMPLETE"]
    IN /\ At(w, "complete")
       /\ stack' = [stack EXCEPT !.action = st.action, !.status = "COMPLETE"]
       /\ IF st.action # "ROLLBACK"
          THEN th' = [th EXCEPT ![w].st = st, ![w].pc = "purge"]
          ELSE Return(w)
       /\ UNCHANGED <<rsrc, nextId, nextTrav, sp, casts, phys, dead, faults>>

\* mark_complete() up to purge_db(); state_set() reports no success for a
\* ROLLBACK although it has stored the state.
MarkComplete(w) ==
    LET st == [th[w].st EXCEPT !.status = "COMPLETE"]
    IN /\ At(w, "complete")
       /\ StateSet(st)
       /\ IF Current(st.trav) /\ st.action # "ROLLBACK"
          THEN th' = [th EXCEPT ![w].st = st, ![w].pc = "purge"]
          ELSE Return(w)
       /\ UNCHANGED <<rsrc, nextId, nextTrav, sp, casts, phys, dead, faults>>

\* purge_db(): drop the reference to the previous template ...
PurgeTemplate(w) ==
    LET st == th[w].st
        drop == st.prev # None /\ st.status # "FAILED"
    IN /\ At(w, "purge")
       /\ IF drop THEN Store([st EXCEPT !.prev = None], st.trav) ELSE UNCHANGED stack
       /\ IF drop /\ ~Current(st.trav) THEN Return(w) ELSE Goto(w, "purge_points")
       /\ UNCHANGED <<rsrc, nextId, nextTrav, sp, casts, phys, dead, faults>>

\* Mutant: the sync points stay.
PurgeKeepsSyncPoints(w) ==
    LET st == th[w].st
        gone == st.action = "DELETE" /\ st.status = "COMPLETE"
    IN /\ At(w, "purge_points")
       /\ stack' = IF gone THEN [stack EXCEPT !.live = FALSE] ELSE stack
       /\ rsrc' = IF gone /\ stack.live THEN << >> ELSE rsrc
       /\ Return(w)
       /\ UNCHANGED <<sp, nextId, nextTrav, casts, phys, dead, faults>>

\* ... then the sync points and, after a DELETE, the stack and its resources.
PurgeSyncPoints(w) ==
    LET st == th[w].st
        gone == st.action = "DELETE" /\ st.status = "COMPLETE"
    IN /\ At(w, "purge_points")
       /\ sp' = Restrict(sp, DOMAIN sp \ {st.trav})
       /\ stack' = IF gone THEN [stack EXCEPT !.live = FALSE] ELSE stack
       /\ rsrc' = IF gone /\ stack.live THEN << >> ELSE rsrc
       /\ Return(w)
       /\ UNCHANGED <<nextId, nextTrav, casts, phys, dead, faults>>

-----------------------------------------------------------------------------
(* check_resource().                                                       *)

\* Resource.load() finds the row of the resource and its stack.
loadable(m) == m.id \in DOMAIN rsrc /\ stack.live

\* Take a message, load the resource and the stack, and decide whether the
\* message still matters.
Receive(w, m) ==
    /\ w \in Workers /\ At(w, "idle")
    /\ m \in casts /\ casts' = casts \ {m}
    /\ IF \/ ~loadable(m) \/ m.trav # stack.trav
          \/ m.upd /\ rsrc[m.id].replaced_by # None /\ rsrc[m.id].tmpl # stack.tmpl
       THEN Return(w)
       ELSE th' = [th EXCEPT ![w] = [Idle EXCEPT !.pc = "acquire", !.msg = m,
                                                 !.rs = rsrc[m.id], !.st = stack]]
    /\ UNCHANGED <<stack, rsrc, nextId, nextTrav, sp, phys, dead, faults>>

\* An operation in progress may run out of time at any moment.
has_timed_out == stack.status = "IN_PROGRESS" /\ Fault("late")

\* The stack has timed out when the message is served.
ReceiveLate(w, m) ==
    /\ w \in Workers /\ At(w, "idle")
    /\ m \in casts /\ casts' = casts \ {m}
    /\ loadable(m) /\ m.trav = stack.trav
    /\ has_timed_out
    /\ th' = [th EXCEPT ![w] = [Idle EXCEPT !.pc = "fail", !.st = stack,
                                            !.out = "timeout"]]
    /\ UNCHANGED <<stack, rsrc, nextId, nextTrav, sp, phys, dead>>

\* _acquire() reads the row; a row that is gone raises NotFound.
AcquireRead(w) ==
    LET id == th[w].msg.id
    IN /\ At(w, "acquire")
       /\ IF id \in DOMAIN rsrc
          THEN th' = [th EXCEPT ![w].key = rsrc[id].atomic_key, ![w].pc = "cas"]
          ELSE Return(w)
       /\ UNCHANGED <<db, phys, dead, faults>>

\* Mutant: the UPDATE statement does not filter on engine_id.
AcquireAnyway(w) ==
    LET id == th[w].msg.id
    IN /\ At(w, "cas")
       /\ IF id \in DOMAIN rsrc /\ rsrc[id].atomic_key = th[w].key
          THEN /\ rsrc' = [rsrc EXCEPT ![id] = [Bumped(@) EXCEPT !.engine = Engine[w]]]
               /\ th' = [th EXCEPT ![w].key = 0, ![w].pc = "begin"]
          ELSE /\ th' = [th EXCEPT ![w].key = 0, ![w].pc = "in_progress"]
               /\ UNCHANGED rsrc
       /\ UNCHANGED <<stack, nextId, nextTrav, sp, casts, phys, dead, faults>>

\* _acquire() writes the row if it is unlocked and as it was read, or raises
\* UpdateInProgress.
Acquire(w) ==
    LET id == th[w].msg.id
    IN /\ At(w, "cas")
       /\ IF /\ id \in DOMAIN rsrc
             /\ rsrc[id].engine = None /\ rsrc[id].atomic_key = th[w].key
          THEN /\ rsrc' = [rsrc EXCEPT ![id] = [Bumped(@) EXCEPT !.engine = Engine[w]]]
               /\ th' = [th EXCEPT ![w].key = 0, ![w].pc = "begin"]
          ELSE /\ th' = [th EXCEPT ![w].key = 0, ![w].pc = "in_progress"]
               /\ UNCHANGED rsrc
       /\ UNCHANGED <<stack, nextId, nextTrav, sp, casts, phys, dead, faults>>

\* The ids of the resources that reported to this check.
reported(w) == {p[2] : p \in th[w].msg.data} \ {None}

\* The object after create_convergence() or update_convergence() has given
\* it the template and the requirements of this check.
Claimed(w) == [th[w].rs EXCEPT !.tmpl = th[w].st.tmpl, !.requires = reported(w)]

\* Under the lock, no action on the physical resource is due: leave with
\* the object rs and the result out.
SkipTo(w, rs, out) ==
    /\ th' = [th EXCEPT ![w].rs = rs, ![w].out = out, ![w].pc = "release"]
    /\ UNCHANGED rsrc

\* Under the lock, _action_recorder() stores (action, IN_PROGRESS).
StartAction(w, rs, action) ==
    LET rs2 == [rs EXCEPT !.action = action, !.status = "IN_PROGRESS"]
    IN /\ th' = [th EXCEPT ![w].rs = rs2, ![w].pc = "handler"]
       /\ WriteRow(th[w].msg.id, Stored(w, rs2))

\* create(): only a resource in (INIT, COMPLETE) is created.
BeginCreate(w) ==
    /\ At(w, "begin") /\ th[w].msg.upd /\ th[w].rs.action = "INIT"
    /\ IF th[w].rs.status = "COMPLETE"
       THEN StartAction(w, Claimed(w), "CREATE")
       ELSE SkipTo(w, Claimed(w), "failed")
    /\ UNCHANGED <<stack, nextId, nextTrav, sp, casts, phys, dead, faults>>

\* Mutant: a resource that failed is created again in place.
UpdateRecreates(w) ==
    LET rs == th[w].rs
        same == TmplProps[rs.tmpl][rs.name] = TmplProps[th[w].st.tmpl][rs.name]
    IN /\ At(w, "begin") /\ th[w].msg.upd /\ rs.action # "INIT"
       /\ \/ rs.status = "FAILED" /\ StartAction(w, Claimed(w), "CREATE")
          \/ rs.status # "FAILED" /\ same /\ SkipTo(w, Claimed(w), "done")
          \/ rs.status # "FAILED" /\ ~same /\ StartAction(w, rs, "UPDATE")
       /\ UNCHANGED <<stack, nextId, nextTrav, sp, casts, phys, dead, faults>>

\* Mutant: a resource that failed is looked at like any other.
FailureIgnored(rs, tmpl) ==
    IF TmplProps[rs.tmpl][rs.name] = TmplProps[tmpl][rs.name] THEN "no" ELSE "yes"

\* _needs_update(): a resource that failed is replaced, one whose properties
\* are the same is left alone.
needs_update(rs, tmpl) ==
    CASE rs.status = "FAILED" -> "replace"
      [] rs.status # "FAILED" /\ TmplProps[rs.tmpl][rs.name] = TmplProps[tmpl][rs.name] -> "no"
      [] OTHER -> "yes"

\* update() up to handle_update().
BeginUpdate(w) ==
    LET rs == th[w].rs
        needed == needs_update(rs, th[w].st.tmpl)
    IN /\ At(w, "begin") /\ th[w].msg.upd /\ rs.action # "INIT"
       /\ \/ needed = "replace" /\ SkipTo(w, rs, "replace")
          \/ needed = "no" /\ SkipTo(w, Claimed(w), "done")
          \/ needed = "yes" /\ StartAction(w, rs, "UPDATE")
       /\ UNCHANGED <<stack, nextId, nextTrav, sp, casts, phys, dead, faults>>

\* Mutant: the check for a resource that is deleted looks at the status only.
CleanupSkipsComplete(w) ==
    LET rs == th[w].rs
    IN /\ At(w, "begin") /\ ~th[w].msg.upd
       /\ IF rs.tmpl = th[w].st.tmpl THEN SkipTo(w, rs, "done")
          ELSE IF rs.status = "COMPLETE"
          THEN Goto(w, "destroy") /\ UNCHANGED rsrc
          ELSE StartAction(w, rs, "DELETE")
       /\ UNCHANGED <<stack, nextId, nextTrav, sp, casts, phys, dead, faults>>

\* delete() has nothing to do for a resource that is deleted, or that was
\* never created.
nothing_to_delete(rs) ==
    rs.action = "INIT" \/ (rs.action = "DELETE" /\ rs.status = "COMPLETE")

\* delete_convergence() up to handle_delete(): a resource of the current
\* template stays.
BeginCleanup(w) ==
    LET rs == th[w].rs
    IN /\ At(w, "begin") /\ ~th[w].msg.upd
       /\ IF rs.tmpl = th[w].st.tmpl THEN SkipTo(w, rs, "done")
          ELSE IF nothing_to_delete(rs) THEN Goto(w, "destroy") /\ UNCHANGED rsrc
          ELSE StartAction(w, rs, "DELETE")
       /\ UNCHANGED <<stack, nextId, nextTrav, sp, casts, phys, dead, faults>>

\* The handler succeeds and _action_recorder() stores (action, COMPLETE).
\* A property that cannot be updated in place raises UpdateReplace instead,
\* which leaves the row IN_PROGRESS.
HandlerDone(w) ==
    LET t == th[w]
        id == t.msg.id
        done == [t.rs EXCEPT !.status = "COMPLETE"]
        claimed == [Claimed(w) EXCEPT !.status = "COMPLETE"]
    IN /\ At(w, "handler")
       /\ \/ /\ t.rs.action = "CREATE"
             /\ phys' = phys \cup {id}
             /\ WriteRow(id, Stored(w, done))
             /\ th' = [th EXCEPT ![w].rs = done, ![w].out = "done", ![w].pc = "release"]
          \/ /\ t.rs.action = "UPDATE" /\ t.rs.name \in Replacing
             /\ th' = [th EXCEPT ![w].out = "replace", ![w].pc = "release"]
             /\ UNCHANGED <<rsrc, phys>>
          \/ /\ t.rs.action = "UPDATE" /\ t.rs.name \notin Replacing
             /\ WriteRow(id, Stored(w, done))
             /\ th' = [th EXCEPT ![w].rs = claimed, ![w].out = "done", ![w].pc = "release"]
             /\ UNCHANGED phys
          \/ /\ t.rs.action = "DELETE"
             /\ phys' = phys \ {id}
             /\ WriteRow(id, Stored(w, done))
             /\ th' = [th EXCEPT ![w].rs = done, ![w].pc = "destroy"]
       /\ UNCHANGED <<stack, nextId, nextTrav, sp, casts, dead, faults>>

\* The handler fails or runs into the timeout of its TaskRunner, and the
\* state becomes (action, FAILED).  A create that fails half-way leaves a
\* physical resource behind.
HandlerFails(w, kind) ==
    LET t == th[w]
        failed == [t.rs EXCEPT !.status = "FAILED"]
        claimed == [Claimed(w) EXCEPT !.status = "FAILED"]
    IN /\ At(w, "handler")
       /\ kind \in {"fail", "timeout"} /\ Fault(kind)
       /\ WriteRow(t.msg.id, Stored(w, failed))
       /\ th' = [th EXCEPT ![w].pc = "release",
                   ![w].out = IF kind = "fail" THEN "failed" ELSE "timeout",
                   ![w].rs = IF t.rs.action = "UPDATE" /\ kind = "fail"
                             THEN claimed ELSE failed]
       /\ phys' \in IF t.rs.action = "CREATE" THEN {phys, phys \cup {t.msg.id}}
                    ELSE {phys}
       /\ UNCHANGED <<stack, nextId, nextTrav, sp, casts, dead>>

\* The end of destroy(): the row goes, and its replacement, if it belongs to
\* the current template and nobody has locked it, no longer replaces anything.
Destroy(w) ==
    LET t == th[w]
        r == t.rs.replaced_by
        left == Restrict(rsrc, DOMAIN rsrc \ {t.msg.id})
    IN /\ At(w, "destroy")
       /\ rsrc' = IF r \in DOMAIN left /\ left[r].tmpl = t.st.tmpl
                        /\ left[r].engine = None
                  THEN [left EXCEPT ![r] = [Bumped(@) EXCEPT !.replaces = None]]
                  ELSE left
       /\ Goto(w, "propagate")
       /\ UNCHANGED <<stack, nextId, nextTrav, sp, casts, phys, dead, faults>>

\* Mutant: an exception leaves the row locked.
ReleaseWhenDone(w) ==
    LET t == th[w]
        id == t.msg.id
    IN /\ At(w, "release")
       /\ IF id \notin DOMAIN rsrc
          THEN Return(w) /\ UNCHANGED rsrc
          ELSE /\ rsrc' = IF rsrc[id].engine = Engine[w] /\ t.out = "done"
                          THEN [rsrc EXCEPT ![id] = [Bumped(@) EXCEPT
                                  !.engine = None, !.tmpl = t.rs.tmpl,
                                  !.requires = t.rs.requires]]
                          ELSE rsrc
               /\ Goto(w, CASE t.out = "done" -> "propagate"
                            [] t.out = "replace" -> "replace"
                            [] t.out = "failed" -> "fail"
                            [] t.out = "timeout" -> "reload")
       /\ UNCHANGED <<stack, nextId, nextTrav, sp, casts, phys, dead, faults>>

\* Resource._release(), and where _do_check_resource() goes from there.
Release(w) ==
    LET t == th[w]
        id == t.msg.id
    IN /\ At(w, "release")
       /\ IF id \notin DOMAIN rsrc
          THEN Return(w) /\ UNCHANGED rsrc
          ELSE /\ rsrc' = IF rsrc[id].engine = Engine[w]
                          THEN [rsrc EXCEPT ![id] = [Bumped(@) EXCEPT
                                  !.engine = None, !.tmpl = t.rs.tmpl,
                                  !.requires = t.rs.requires]]
                          ELSE rsrc
               /\ Goto(w, CASE t.out = "done" -> "propagate"
                            [] t.out = "replace" -> "replace"
                            [] t.out = "failed" -> "fail"
                            [] t.out = "timeout" -> "reload")
       /\ UNCHANGED <<stack, nextId, nextTrav, sp, casts, phys, dead, faults>>

\* make_replacement() and the cast for the replacement.
Replace(w) ==
    LET t == th[w]
        id == t.msg.id
        new == NewRow(t.rs.name, t.st.tmpl, t.rs.requires, id)
        replaced == [rsrc[id] EXCEPT !.status = "COMPLETE", !.replaced_by = nextId]
    IN /\ At(w, "replace")
       /\ nextId' = nextId + 1
       /\ rsrc' = [i \in DOMAIN rsrc \cup {nextId} |->
                     IF i = nextId THEN new ELSE IF i = id THEN replaced ELSE rsrc[i]]
       /\ casts' = IF id \in DOMAIN rsrc
                   THEN casts \cup {Cast(nextId, t.msg.trav, TRUE, t.msg.data)} ELSE casts
       /\ Return(w)
       /\ UNCHANGED <<stack, nextTrav, sp, phys, dead, faults>>

-----------------------------------------------------------------------------
(* UpdateInProgress: take the lock of a dead engine away, or give up.      *)

\* Mutant: the test for None is the wrong way round, nothing is stolen.
NeverSteal(w) ==
    /\ At(w, "in_progress")
    /\ Return(w)
    /\ UNCHANGED <<db, phys, dead, faults>>

\* _try_steal_engine_lock() up to is_alive().
TrySteal(w) ==
    LET id == th[w].msg.id
    IN /\ At(w, "in_progress")
       /\ IF /\ id \in DOMAIN rsrc
             /\ rsrc[id].engine \notin {None, Engine[w]}
             /\ rsrc[id].engine \in dead
          THEN Goto(w, "steal") ELSE Return(w)
       /\ UNCHANGED <<db, phys, dead, faults>>

\* update_and_save({'engine_id': None}), whoever has the lock by now.
Steal(w) ==
    LET id == th[w].msg.id
    IN /\ At(w, "steal")
       /\ IF id \in DOMAIN rsrc
          THEN Goto(w, "mark_failed") /\ rsrc' = [rsrc EXCEPT ![id].engine = None]
          ELSE Return(w) /\ UNCHANGED rsrc
       /\ UNCHANGED <<stack, nextId, nextTrav, sp, casts, phys, dead, faults>>

\* The state becomes FAILED and the message is cast once more.
MarkFailed(w) ==
    LET t == th[w]
    IN /\ At(w, "mark_failed")
       /\ WriteRow(t.msg.id, Stored(w, [t.rs EXCEPT !.status = "FAILED"]))
       /\ casts' = casts \cup {t.msg}
       /\ Return(w)
       /\ UNCHANGED <<stack, nextId, nextTrav, sp, phys, dead, faults>>

-----------------------------------------------------------------------------
(* Failure.                                                                *)

\* _handle_failure(): the state of the stack becomes FAILED if this
\* traversal is still the current one; then roll back or clean up.
HandleFailure(w) ==
    LET t == th[w]
        st == [t.st EXCEPT !.status = "FAILED"]
        updated == Current(st.trav) /\ st.action # "ROLLBACK"
    IN /\ At(w, "fail")
       /\ StateSet(st)
       /\ \/ /\ updated /\ ~DisableRollback /\ st.action \in {"CREATE", "UPDATE"}
             /\ th' = [th EXCEPT ![w].st = st, ![w].pc = "rollback"]
          \/ /\ updated /\ (DisableRollback \/ st.action \notin {"CREATE", "UPDATE"})
             /\ th' = [th EXCEPT ![w].st = st, ![w].pc = "purge"]
          \/ ~updated /\ t.out = "failed" /\ Goto(w, "retrigger")
          \/ ~updated /\ t.out # "failed" /\ Return(w)
       /\ UNCHANGED <<rsrc, nextId, nextTrav, sp, casts, phys, dead, faults>>

\* Mutant: a timeout is never reported to the stack.
TimeoutForgotten(w) ==
    /\ At(w, "reload")
    /\ Return(w)
    /\ UNCHANGED <<db, phys, dead, faults>>

\* scheduler.Timeout: look at the stack again before failing it.
ReloadAfterTimeout(w) ==
    /\ At(w, "reload")
    /\ IF Current(th[w].msg.trav)
       THEN th' = [th EXCEPT ![w].st = stack, ![w].pc = "fail"]
       ELSE Return(w)
    /\ UNCHANGED <<db, phys, dead, faults>>

\* Mutant: a missing sync point just ends the check.
RetriggerDropped(w) ==
    /\ At(w, "retrigger")
    /\ Return(w)
    /\ UNCHANGED <<db, phys, dead, faults>>

\* Reload the stack; if a newer traversal has taken over, report this
\* resource to its own node there (_retrigger_check_resource).
Retrigger(w) ==
    LET t == th[w]
        own == <<t.msg.id, t.msg.upd>>
        key == IF t.msg.upd /\ own \notin stack.deps.nodes
               THEN <<t.msg.id, FALSE>> ELSE own
        due == /\ stack.live /\ stack.trav # t.msg.trav
               /\ key \in stack.deps.nodes
               /\ stack.trav \in DOMAIN sp
               /\ key \in DOMAIN sp[stack.trav]
        data == merge(sp[stack.trav][key], key, None)
    IN /\ At(w, "retrigger")
       /\ IF due
          THEN /\ sp' = [sp EXCEPT ![stack.trav][key] = data]
               /\ casts' = IF graphPreds(stack.deps, key) \subseteq senders(data)
                           THEN casts \cup {Cast(key[1], stack.trav, key[2], data)}
                           ELSE casts
          ELSE UNCHANGED <<sp, casts>>
       /\ Return(w)
       /\ UNCHANGED <<stack, rsrc, nextId, nextTrav, phys, dead, faults>>

-----------------------------------------------------------------------------
(* _initiate_propagate_resource(): report to every dependent node and, as  *)
(* a root, to the sync point of the stack.                                 *)

\* Mutant: a replacement reports for itself.
OwnKey(w) == <<th[w].msg.id, th[w].msg.upd>>

\* The node this check stands for: a replacement impersonates the resource
\* it replaces.
graph_key(w) ==
    LET t == th[w]
    IN IF <<t.msg.id, t.msg.upd>> \notin t.st.deps.nodes /\ t.rs.replaces # None
       THEN <<t.rs.replaces, t.msg.upd>> ELSE <<t.msg.id, t.msg.upd>>

\* The node check_stack_complete() looks for among the roots.
stack_sender(w) == <<th[w].msg.id, th[w].msg.upd>>

Propagate(w) ==
    LET t == th[w]
        g == t.st.deps
        key == graph_key(w)
        next == required_by(g, key)
        targets == next \cup (IF stack_sender(w) \in roots(g) THEN {StackNode} ELSE {})
        found == t.msg.trav \in DOMAIN sp
        points == sp[t.msg.trav]
        data(n) == merge(points[n],
                         IF n = StackNode THEN stack_sender(w) ELSE key,
                         IF n[2] /\ n # StackNode THEN t.msg.id ELSE None)
        ready == {n \in next : graphPreds(g, n) \subseteq senders(data(n))}
    IN /\ At(w, "propagate")
       /\ IF key \notin g.nodes \/ targets = {}
          THEN Return(w) /\ UNCHANGED <<sp, casts>>
          ELSE IF ~found
          THEN Goto(w, "retrigger") /\ UNCHANGED <<sp, casts>>
          ELSE /\ sp' = [sp EXCEPT ![t.msg.trav] =
                           [n \in DOMAIN points |-> IF n \in targets THEN data(n)
                                                    ELSE points[n]]]
               /\ casts' = casts \cup {Cast(n[1], t.msg.trav, n[2], data(n)) : n \in ready}
               /\ IF StackNode \in targets /\ roots(g) \subseteq senders(data(StackNode))
                  THEN Goto(w, "complete") ELSE Return(w)
       /\ UNCHANGED <<stack, rsrc, nextId, nextTrav, phys, dead, faults>>

-----------------------------------------------------------------------------
\* An engine dies: what its threads were doing is lost, its locks stay.
Crash(e) ==
    /\ e \in Engines \ dead
    /\ Fault("crash")
    /\ dead' = dead \cup {e}
    /\ th' = [w \in Threads |-> IF Engine[w] = e THEN [Idle EXCEPT !.pc = "crashed"]
                                ELSE th[w]]
    /\ UNCHANGED <<db, phys>>

ConvergeStep(w) ==
    \/ StoreTraversal(w) \/ DeletePrevSyncPoints(w)
    \/ UpdateOrStoreResources(w) \/ StoreDeps(w) \/ TriggerLeaves(w)
    \/ Rollback(w) \/ MarkComplete(w) \/ PurgeTemplate(w) \/ PurgeSyncPoints(w)

CheckStep(w) ==
    \/ AcquireRead(w) \/ Acquire(w) \/ BeginCreate(w) \/ BeginUpdate(w) \/ BeginCleanup(w)
    \/ HandlerDone(w) \/ (\E k \in {"fail", "timeout"} : HandlerFails(w, k))
    \/ Destroy(w) \/ Release(w) \/ Replace(w)
    \/ TrySteal(w) \/ Steal(w) \/ MarkFailed(w)
    \/ HandleFailure(w) \/ ReloadAfterTimeout(w) \/ Retrigger(w) \/ Propagate(w)

Next ==
    \/ \E o \in Ops : Request(o)
    \/ \E w \in Threads : ConvergeStep(w) \/ CheckStep(w)
    \/ \E w \in Workers, m \in casts : Receive(w, m) \/ ReceiveLate(w, m)
    \/ \E e \in Engines : Crash(e)

Spec == Init /\ [][Next]_vars

\* A thread of a live engine keeps running, a handler returns in the end
\* (its TaskRunner has a timeout), and the message queue delivers.  Requests
\* and faults are not fair.
Fairness ==
    /\ \A w \in Threads : WF_vars(ConvergeStep(w) \/ CheckStep(w))
    /\ WF_vars(\E w \in Workers, m \in casts : Receive(w, m))

FairSpec == Spec /\ Fairness
-----------------------------------------------------------------------------
(* Properties.                                                             *)

Holding(w) == Alive(w) /\ th[w].pc \in {"begin", "handler", "release", "destroy"}

Acting(w, action) == At(w, "handler") /\ th[w].rs.action = action

Actions == {"INIT", "CREATE", "UPDATE", "DELETE", "ROLLBACK"}

Statuses == {"IN_PROGRESS", "COMPLETE", "FAILED"}

\* What the ids and traversals handed out so far can be built into.
Ids == 1 .. (nextId - 1)

Travs == 0 .. (nextTrav - 1)

Nodes == Ids \X BOOLEAN

Data == SUBSET (Nodes \X (Ids \cup {None}))

Graphs == {g \in [nodes : SUBSET Nodes, edges : SUBSET (Nodes \X Nodes)] :
             g.edges \subseteq g.nodes \X g.nodes}

Stacks == [live : BOOLEAN, trav : Travs, action : Actions \ {"INIT"}, status : Statuses,
           tmpl : Tmpls, prev : Tmpls \cup {None}, deps : Graphs]

Rows == [name : Names, action : Actions \ {"ROLLBACK"}, status : Statuses, tmpl : Tmpls,
         engine : Engines \cup {None}, atomic_key : Nat, requires : SUBSET Ids,
         replaces : Ids \cup {None}, replaced_by : Ids \cup {None}]

Msgs == [id : Ids, trav : Travs, upd : BOOLEAN, data : Data]

\* A check has its message and its resource loaded as long as these are due.
Checks == {"acquire", "cas", "begin", "handler", "release", "destroy", "propagate",
           "replace", "in_progress", "steal", "mark_failed"}

Pcs == Checks \cup {"idle", "finished", "crashed", "store1", "delete_prev", "resources",
                    "store2", "trigger", "complete", "rollback", "purge", "purge_points",
                    "fail", "reload", "retrigger"}

ThreadStates ==
    [pc : Pcs, msg : Msgs \cup {NoMsg}, rs : Rows \cup {NoRs}, st : Stacks,
     goal : [action : Actions \ {"INIT"}, tmpl : Tmpls], old : Travs, key : Nat,
     out : {"none", "done", "replace", "failed", "timeout"}]

\* Rows, messages and the objects threads hold have the fields and the
\* ranges the code gives them, and name only rows and traversals that have
\* existed; a goal always names a stored template.
TypeOK ==
    /\ nextId \in Nat \ {0} /\ nextTrav \in Nat \ {0} /\ stack \in Stacks
    /\ rsrc \in [DOMAIN rsrc -> Rows] /\ DOMAIN rsrc \subseteq Ids
    /\ DOMAIN sp \subseteq Travs /\ phys \subseteq Ids /\ casts \subseteq Msgs
    /\ \A t \in DOMAIN sp : /\ sp[t] \in [DOMAIN sp[t] -> Data]
                            /\ StackNode \in DOMAIN sp[t]
                            /\ DOMAIN sp[t] \subseteq Nodes \cup {StackNode}
    /\ th \in [Threads -> ThreadStates]
    /\ \A w \in Threads : th[w].pc \in Checks =>
          th[w].msg # NoMsg /\ th[w].rs # NoRs /\ (th[w].pc = "release" => th[w].out # "none")
    /\ dead \subseteq Engines /\ faults \in 0 .. MaxFaults

\* Row i is what template t says of its resource, and the resource exists.  In
\* a rollback only the latter is sure: a check under way for the traversal that
\* failed goes on, and may act on the row after the rollback has been there.
InService(i, t) ==
    /\ i \in DOMAIN rsrc \cap phys
    /\ stack.action # "ROLLBACK" => rsrc[i].tmpl = t /\ rsrc[i].status = "COMPLETE"

\* A resource is created or updated only after everything its template
\* definition requires is in service under that same template.
CreatedAfterRequirements ==
    \A w \in Workers :
        (Acting(w, "CREATE") \/ Acting(w, "UPDATE")) /\ Current(th[w].st.trav) =>
        \A n \in TmplRequires[th[w].st.tmpl][th[w].rs.name] :
            \E i \in reported(w) : InService(i, th[w].st.tmpl) /\ rsrc[i].name = n

\* Except in a rollback, a physical resource is deleted only after the ones
\* that require it.  Checks under way for the traversal that failed add
\* requirements that the graph of the rollback does not have, and change rows
\* that it has passed.
DeletedAfterDependents ==
    \A w \in Workers : Acting(w, "DELETE") /\ th[w].st.action # "ROLLBACK" =>
        \A j \in DOMAIN rsrc \cap phys : th[w].msg.id \notin rsrc[j].requires

\* A stack that is COMPLETE, but for a rollback, has in service exactly one
\* resource for each name of its template, whatever has failed before.
CompleteMeansInService ==
    stack.live /\ stack.status = "COMPLETE" /\ stack.action # "ROLLBACK" =>
        \A n \in TmplNames[stack.tmpl] : \E i \in DOMAIN rsrc :
            {j \in DOMAIN rsrc : InService(j, stack.tmpl) /\ rsrc[j].name = n} = {i}

\* heat forgets a resource (drops its row) only when the physical resource is
\* gone: nothing is leaked in the cloud.  Two kinds of rows are excepted: what
\* a rollback drops, and rows replaced after their deletion failed.
RowsOutliveResources ==
    [][stack.action # "ROLLBACK" => \A i \in DOMAIN rsrc \ DOMAIN rsrc' :
         i \in phys => rsrc[i].action = "DELETE" /\ rsrc[i].replaced_by # None]_vars

\* handle_create() runs at most once for a row; a second run would overwrite
\* the reference to the first physical resource.
CreatedOnce == \A w \in Workers : Acting(w, "CREATE") => th[w].msg.id \notin phys

\* Two workers never act on one resource at the same time.
LockIsExclusive ==
    \A w, v \in Workers : w # v /\ Holding(w) /\ Holding(v) => th[w].msg.id # th[v].msg.id

\* A lock in the name of a live engine has a thread that will release it:
\* no path out of a check leaves the row locked.
LocksHaveHolders ==
    \A i \in DOMAIN rsrc : rsrc[i].engine \notin dead \cup {None} =>
        \E w \in Workers : Engine[w] = rsrc[i].engine /\ Holding(w) /\ th[w].msg.id = i

\* An operation in progress becomes COMPLETE only when every root of the graph
\* of the traversal that is current at that moment has reported.
CompleteIsEarned ==
    [][stack.status = "IN_PROGRESS" /\ stack'.status = "COMPLETE" =>
         \/ stack.deps.nodes = {}
         \/ /\ stack.trav \in DOMAIN sp
            /\ roots(stack.deps) \subseteq senders(sp[stack.trav][StackNode])]_vars

\* A rollback takes the place of a create or update that has ended: never of
\* an operation that the user has asked for in the meantime and that is in
\* progress, nor of a deletion, however late it is stored.
RollbackFollows ==
    [][stack.action # "ROLLBACK" /\ stack'.action = "ROLLBACK" =>
         stack.status # "IN_PROGRESS" /\ stack.action \in {"CREATE", "UPDATE"}]_vars

\* Once a deletion is accepted nothing else takes its place: neither an
\* update that was being prepared, nor the rollback of a failed one.
DeleteIsFinal == [][stack.action = "DELETE" => stack'.action = "DELETE"]_vars

\* When a stack has settled no sync point is left in the database, but for
\* those of a rollback, which are purged by the operation after it.
NoSyncPointsLeft ==
    Settled => DOMAIN sp \subseteq (IF stack.action = "ROLLBACK" THEN {stack.trav} ELSE {})

\* Every operation comes to an end: the stack does not stay IN_PROGRESS with
\* nobody working on it.
Settles == <>[]Settled

\* A worker that runs into the lock of a dead engine gets rid of it.
DeadLockIsBroken ==
    \A w \in Workers :
        (/\ At(w, "in_progress") /\ th[w].msg.id \in DOMAIN rsrc
         /\ rsrc[th[w].msg.id].engine \in dead)
            ~> \A i \in DOMAIN rsrc : rsrc[i].engine \notin dead
=============================================================================
