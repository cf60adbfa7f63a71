------------------------- MODULE ConvergenceProofs -------------------------
(***************************************************************************)
(* What holds of the convergence engine for any templates, requests,       *)
(* workers, engines and faults: the lock of a resource always has a holder *)
(* and, until an engine dies, only one; a deletion is final; a stack       *)
(* becomes COMPLETE only when every root of its graph has reported.        *)
(*                                                                         *)
(* And what holds when the operations on a stack follow one another: no    *)
(* engine dies, a request waits until the stack has settled, and a         *)
(* failure, if there is any, is not rolled back.  The checks of a          *)
(* traversal run concurrently, fail and time out.  Whatever runs serves    *)
(* the current traversal (SeqInv); each resource has one check, and a      *)
(* check keeps the rows in order (OrderInv, of which module                *)
(* ConvergenceOrderProofs shows that all other steps keep it too).         *)
(***************************************************************************)
EXTENDS Convergence, FiniteSetTheorems, TLAPS

\* Requests never serve messages.
WorkersCheck ==
    \A w \in Threads : th[w].pc \in Checks \cup {"fail", "reload", "retrigger"} => w \in Workers

-----------------------------------------------------------------------------
(* Locks.                                                                    *)

\* A lock that a live worker has taken is in its name until it gives it back,
\* and nobody is about to steal.
HoldersAreNamed ==
    \A w \in Workers : Holding(w) /\ th[w].msg.id \in DOMAIN rsrc =>
        rsrc[th[w].msg.id].engine = Engine[w]

NobodySteals == \A w \in Threads : th[w].pc # "steal"

LockInv ==
    /\ LocksHaveHolders
    /\ dead = {} => LockIsExclusive /\ HoldersAreNamed /\ NobodySteals

-----------------------------------------------------------------------------
(* Traversals.  What holds of a thread x, given the stack s and the sync     *)
(* points p.                                                                 *)

\* A traversal belongs to one operation.
OneAction(x, s) == x.st.trav = s.trav => x.st.action = s.action

\* The thread is going to roll a traversal back.
RollbackDue(x) == x.pc = "rollback" \/ (x.pc = "store1" /\ x.goal.action = "ROLLBACK")

\* What is about to take the place of a traversal is a deletion, or that
\* traversal is not one; and only a creation or an update is rolled back.
DeletionStays(x) ==
    /\ x.pc = "store1" /\ x.goal.action # "DELETE" => x.st.action # "DELETE"
    /\ RollbackDue(x) => x.st.action \in {"CREATE", "UPDATE"}

\* The thread has stored a traversal and not yet cast its first messages.
Launches(x) == x.pc \in {"delete_prev", "resources", "store2", "trigger"}

\* The thread uses the graph it has loaded.
UsesGraph(x) ==
    x.pc \in Checks \cup {"fail", "trigger", "complete", "rollback", "purge", "purge_points"}

\* The graph of a traversal does not change once it is launched.
GraphAgrees(x, s) == UsesGraph(x) /\ x.st.trav = s.trav => x.st.deps = s.deps

\* The sync points of a traversal are those of its graph.
PointsMatch(st, p) ==
    st.trav \in DOMAIN p => DOMAIN p[st.trav] = st.deps.nodes \cup {StackNode}

\* A check serves a message of the traversal it has loaded.
ChecksOwn(x) == x.pc \in Checks => x.msg.trav = x.st.trav

\* After the end of an operation its traversal is no longer in progress.
EndIsStored(x, s) ==
    RollbackDue(x) \/ x.pc \in {"purge", "purge_points"} =>
        /\ x.st.status # "IN_PROGRESS"
        /\ x.st.trav = s.trav => s.status # "IN_PROGRESS"

\* Every root of the graph of the current traversal has reported.
Earned(s, p) ==
    \/ s.deps.nodes = {}
    \/ s.trav \in DOMAIN p /\ roots(s.deps) \subseteq senders(p[s.trav][StackNode])

\* Whoever is about to complete the current traversal has seen the roots report.
HasEarned(x, s, p) ==
    x.pc = "complete" /\ x.st.trav = s.trav /\ s.status = "IN_PROGRESS" => Earned(s, p)

ThreadOK(x, s, p) ==
    /\ OneAction(x, s) /\ DeletionStays(x) /\ GraphAgrees(x, s)
    /\ UsesGraph(x) => PointsMatch(x.st, p)
    /\ ChecksOwn(x) /\ EndIsStored(x, s) /\ HasEarned(x, s, p)

\* The traversal x has stored, as long as nobody else can know of it.
Unlaunched(x, s, p, msgs) ==
    /\ x.old < x.st.trav /\ x.st.trav <= s.trav /\ x.st.trav \notin DOMAIN p
    /\ x.st.status = "IN_PROGRESS"
    /\ \A m \in msgs : m.trav # x.st.trav

\* Whoever else has loaded it is about to replace it, by request of a user.
Apart(y, trav) ==
    y.msg.trav # trav /\ (y.st.trav = trav => y.pc = "store1" /\ y.goal.action # "ROLLBACK")

LaunchIsPrivate ==
    \A w \in Threads : Launches(th[w]) =>
        /\ Unlaunched(th[w], stack, sp, casts)
        /\ \A v \in Threads \ {w} : Apart(th[v], th[w].st.trav)

TravInv ==
    /\ TypeOK /\ WorkersCheck /\ th[Creator].pc # "idle" /\ LaunchIsPrivate
    /\ stack.trav = 0 => stack.action = "CREATE"
    /\ PointsMatch(stack, sp)
    /\ \A w \in Threads : ThreadOK(th[w], stack, sp)

-----------------------------------------------------------------------------
(* Types.                                                                    *)

\* Ids and traversals are only ever added.
Growing ==
    /\ nextId \in Nat \ {0} /\ nextTrav \in Nat \ {0}
    /\ nextId' \in Nat \ {0} /\ nextTrav' \in Nat \ {0}
    /\ nextId <= nextId' /\ nextTrav <= nextTrav'

\* What was made of them keeps its type.
LEMMA TypesGrow ==
    ASSUME Growing
    PROVE  /\ Ids \subseteq Ids' /\ Travs \subseteq Travs' /\ Nodes \subseteq Nodes'
           /\ Data \subseteq Data' /\ Graphs \subseteq Graphs' /\ Stacks \subseteq Stacks'
           /\ Rows \subseteq Rows' /\ Msgs \subseteq Msgs' /\ ThreadStates \subseteq ThreadStates'
<1>1. Ids \subseteq Ids' /\ Travs \subseteq Travs'
  <2>1. \A a, b \in Nat : a <= b => 1 .. (a - 1) \subseteq 1 .. (b - 1) /\ 0 .. (a - 1) \subseteq 0 .. (b - 1)
    OBVIOUS
  <2>2. /\ nextId \in Nat /\ nextId' \in Nat /\ nextId <= nextId'
        /\ nextTrav \in Nat /\ nextTrav' \in Nat /\ nextTrav <= nextTrav'
    BY DEF Growing
  <2> QED
    BY <2>1, <2>2 DEF Ids, Travs
<1>2. Nodes \subseteq Nodes'
  BY <1>1 DEF Nodes
<1>3. Data \subseteq Data' /\ Graphs \subseteq Graphs'
  BY <1>1, <1>2 DEF Data, Graphs
<1>4. Stacks \subseteq Stacks' /\ Rows \subseteq Rows' /\ Msgs \subseteq Msgs'
  BY <1>1, <1>3 DEF Stacks, Rows, Msgs
<1> QED
  BY <1>1, <1>2, <1>3, <1>4 DEF ThreadStates

\* Most steps add nothing.
LEMMA TypesStay ==
    ASSUME UNCHANGED <<nextId, nextTrav>>
    PROVE  /\ Ids' = Ids /\ Travs' = Travs /\ Nodes' = Nodes
           /\ Data' = Data /\ Graphs' = Graphs /\ Stacks' = Stacks
           /\ Rows' = Rows /\ Msgs' = Msgs /\ ThreadStates' = ThreadStates
<1>1. Ids' = Ids /\ Travs' = Travs
  BY DEF Ids, Travs
<1>2. Nodes' = Nodes /\ Data' = Data /\ Graphs' = Graphs
  BY <1>1 DEF Nodes, Data, Graphs
<1>3. Stacks' = Stacks /\ Rows' = Rows /\ Msgs' = Msgs
  BY <1>1, <1>2 DEF Stacks, Rows, Msgs
<1> QED
  BY <1>1, <1>2, <1>3 DEF ThreadStates

\* A thread that checks a resource has its message and its row.
CheckOK(x) ==
    x.pc \in Checks => x.msg # NoMsg /\ x.rs # NoRs /\ (x.pc = "release" => x.out # "none")

\* The other variables.
StoreOK ==
    /\ nextId \in Nat \ {0} /\ nextTrav \in Nat \ {0} /\ stack \in Stacks
    /\ rsrc \in [DOMAIN rsrc -> Rows] /\ DOMAIN rsrc \subseteq Ids
    /\ DOMAIN sp \subseteq Travs /\ phys \subseteq Ids /\ casts \subseteq Msgs
    /\ \A t \in DOMAIN sp : /\ sp[t] \in [DOMAIN sp[t] -> Data]
                            /\ StackNode \in DOMAIN sp[t]
                            /\ DOMAIN sp[t] \subseteq Nodes \cup {StackNode}
    /\ dead \subseteq Engines /\ faults \in 0 .. MaxFaults

\* TypeOK, the threads apart.
LEMMA TypeParts ==
    TypeOK <=> /\ StoreOK /\ th \in [Threads -> ThreadStates]
               /\ \A w \in Threads : CheckOK(th[w])
  BY DEF TypeOK, StoreOK, CheckOK

\* One thread moves.
LEMMA MoveTyped ==
    ASSUME TypeOK, Growing, NEW w \in Threads, NEW x \in ThreadStates', CheckOK(x),
           th' = [th EXCEPT ![w] = x]
    PROVE  th' \in [Threads -> ThreadStates'] /\ \A v \in Threads : CheckOK(th'[v])
  BY TypesGrow, TypeParts

\* The fields of a thread.
LEMMA ThreadFields ==
    ASSUME TypeOK, NEW w \in Threads
    PROVE  /\ th[w] \in ThreadStates
           /\ th[w].msg \in Msgs \cup {NoMsg} /\ th[w].rs \in Rows \cup {NoRs}
           /\ th[w].st \in Stacks /\ th[w].old \in Travs /\ th[w].key \in Nat
           /\ th[w].goal \in [action : Actions \ {"INIT"}, tmpl : Tmpls]
           /\ th[w].pc \in Checks => th[w].msg \in Msgs /\ th[w].rs \in Rows
           /\ th[w].pc = "release" => th[w].out \in {"done", "replace", "failed", "timeout"}
<1>1. th[w] \in ThreadStates /\ CheckOK(th[w])
  BY TypeParts
<1>2. "release" \in Checks
  BY DEF Checks
<1> QED
  BY <1>1, <1>2 DEF ThreadStates, CheckOK

\* A thread object with one field replaced.
LEMMA ThreadField ==
    ASSUME NEW x \in ThreadStates
    PROVE  /\ \A pc \in Pcs : [x EXCEPT !.pc = pc] \in ThreadStates
           /\ \A st \in Stacks : [x EXCEPT !.st = st] \in ThreadStates
           /\ \A rs \in Rows : [x EXCEPT !.rs = rs] \in ThreadStates
           /\ \A key \in Nat : [x EXCEPT !.key = key] \in ThreadStates
           /\ \A old \in Travs : [x EXCEPT !.old = old] \in ThreadStates
           /\ \A out \in {"none", "done", "replace", "failed", "timeout"} :
                 [x EXCEPT !.out = out] \in ThreadStates
           /\ \A goal \in [action : Actions \ {"INIT"}, tmpl : Tmpls] :
                 [x EXCEPT !.goal = goal] \in ThreadStates
<1>1. \A pc \in Pcs : [x EXCEPT !.pc = pc] \in ThreadStates
  BY DEF ThreadStates
<1>2. \A st \in Stacks : [x EXCEPT !.st = st] \in ThreadStates
  BY DEF ThreadStates
<1>3. \A rs \in Rows : [x EXCEPT !.rs = rs] \in ThreadStates
  BY DEF ThreadStates
<1>4. \A key \in Nat : [x EXCEPT !.key = key] \in ThreadStates
  BY DEF ThreadStates
<1>5. \A old \in Travs : [x EXCEPT !.old = old] \in ThreadStates
  BY DEF ThreadStates
<1>6. \A out \in {"none", "done", "replace", "failed", "timeout"} :
          [x EXCEPT !.out = out] \in ThreadStates
  BY DEF ThreadStates
<1>7. \A goal \in [action : Actions \ {"INIT"}, tmpl : Tmpls] :
          [x EXCEPT !.goal = goal] \in ThreadStates
  BY DEF ThreadStates
<1> QED
  BY <1>1, <1>2, <1>3, <1>4, <1>5, <1>6, <1>7

\* The thread that has nothing to do.
LEMMA IdleTyped ==
    ASSUME nextId \in Nat \ {0}, nextTrav \in Nat \ {0}
    PROVE  /\ Idle \in ThreadStates /\ NoStack \in Stacks
           /\ \A pc \in {"idle", "finished", "crashed"} :
                 /\ [Idle EXCEPT !.pc = pc] \in ThreadStates
                 /\ CheckOK([Idle EXCEPT !.pc = pc])
<1>1. 0 \in Travs /\ EmptyTmpl \in Tmpls
  BY ConvergenceAssumption DEF Travs
<1>2. NoGraph \in Graphs
  BY DEF NoGraph, Graphs
<1>3. NoStack \in Stacks
  BY <1>1, <1>2 DEF NoStack, Stacks, Actions, Statuses
<1>4. NoGoal \in [action : Actions \ {"INIT"}, tmpl : Tmpls]
  BY <1>1 DEF NoGoal, Actions
<1>5. Idle \in ThreadStates
  BY <1>1, <1>3, <1>4 DEF Idle, ThreadStates, Pcs
<1>6. ASSUME NEW pc \in {"idle", "finished", "crashed"}
      PROVE  /\ [Idle EXCEPT !.pc = pc] \in ThreadStates
             /\ CheckOK([Idle EXCEPT !.pc = pc])
  <2>1. pc \in Pcs /\ pc \notin Checks
    BY DEF Pcs, Checks
  <2>2. [Idle EXCEPT !.pc = pc].pc = pc
    BY DEF Idle
  <2> QED
    BY <1>5, <2>1, <2>2, ThreadField DEF CheckOK
<1> QED
  BY <1>3, <1>5, <1>6

\* All threads are typed after a step.
ThreadsTyped == th \in [Threads -> ThreadStates] /\ \A w \in Threads : CheckOK(th[w])

\* A thread returns, or goes on with the objects it has.
LEMMA ReturnTyped ==
    ASSUME TypeOK, Growing, NEW w \in Threads, Return(w)
    PROVE  ThreadsTyped'
<1>1. PICK pc \in {"idle", "finished", "crashed"} : th' = [th EXCEPT ![w] = [Idle EXCEPT !.pc = pc]]
  BY DEF Return
<1>2. [Idle EXCEPT !.pc = pc] \in ThreadStates' /\ CheckOK([Idle EXCEPT !.pc = pc])
  BY <1>1, IdleTyped, TypesGrow DEF Growing
<1> QED
  BY <1>1, <1>2, MoveTyped DEF ThreadsTyped

\* A thread goes on with what it has.
LEMMA GotoTyped ==
    ASSUME TypeOK, Growing, NEW w \in Threads, NEW pc \in Pcs, Goto(w, pc),
           pc \in Checks => th[w].pc \in Checks,
           pc = "release" => th[w].out # "none"
    PROVE  ThreadsTyped'
<1> DEFINE x == [th[w] EXCEPT !.pc = pc]
<1>1. th[w] \in ThreadStates /\ CheckOK(th[w])
  BY TypeParts
<1>2. x \in ThreadStates /\ x.pc = pc /\ x.msg = th[w].msg /\ x.rs = th[w].rs /\ x.out = th[w].out
  BY <1>1, ThreadField DEF ThreadStates
<1>3. th' = [th EXCEPT ![w] = x]
  BY TypeParts DEF Goto
<1>4. CheckOK(x)
  BY <1>1, <1>2 DEF CheckOK
<1> HIDE DEF x
<1> QED
  BY <1>2, <1>3, <1>4, MoveTyped, TypesGrow DEF ThreadsTyped

\* A step that adds no id and no traversal.
LEMMA NothingAdded ==
    ASSUME TypeOK, UNCHANGED <<nextId, nextTrav>>
    PROVE  /\ Growing /\ ThreadStates' = ThreadStates /\ Stacks' = Stacks /\ Rows' = Rows
           /\ Msgs' = Msgs /\ Data' = Data /\ Nodes' = Nodes /\ Ids' = Ids /\ Travs' = Travs
  BY TypesStay DEF Growing, TypeOK

\* The writes to the row of the stack.
LEMMA StackWritten ==
    ASSUME NEW st \in Stacks, stack \in Stacks, NEW exp
    PROVE  /\ Store(st, exp) => stack' \in Stacks
           /\ StateSet(st) => stack' \in Stacks
<1>1. [stack EXCEPT !.action = st.action, !.status = st.status] \in Stacks
  BY DEF Stacks
<1> QED
  BY <1>1 DEF Store, StateSet

\* A stack object whose fields change.
LEMMA StackField ==
    ASSUME NEW st \in Stacks
    PROVE  /\ \A status \in Statuses : [st EXCEPT !.status = status] \in Stacks
           /\ \A deps \in Graphs : [st EXCEPT !.deps = deps] \in Stacks
           /\ [st EXCEPT !.prev = None] \in Stacks
           /\ [st EXCEPT !.live = FALSE] \in Stacks
<1>1. \A status \in Statuses : [st EXCEPT !.status = status] \in Stacks
  BY DEF Stacks
<1>2. \A deps \in Graphs : [st EXCEPT !.deps = deps] \in Stacks
  BY DEF Stacks
<1>3. [st EXCEPT !.prev = None] \in Stacks /\ [st EXCEPT !.live = FALSE] \in Stacks
  BY DEF Stacks
<1> QED
  BY <1>1, <1>2, <1>3

\* The other variables keep their types when they do not change.
LEMMA RequestTyped ==
    ASSUME TypeOK, NEW o \in Ops, Request(o)
    PROVE  TypeOK'
<1>1. UNCHANGED <<stack, rsrc, nextId, nextTrav, sp, casts, phys, dead, faults>> /\ o \in Threads
  BY DEF Request, db, Threads
<1>2. StoreOK' /\ Growing
  BY <1>1, NothingAdded, TypesStay DEF StoreOK, TypeOK
<1>3. ASSUME th' = [th EXCEPT ![o] = [Idle EXCEPT !.pc = "store1", !.st = stack, !.goal = Op[o]]]
      PROVE  ThreadsTyped'
  <2> DEFINE x == [Idle EXCEPT !.pc = "store1", !.st = stack, !.goal = Op[o]]
  <2>1. Op[o] \in [action : Actions \ {"INIT"}, tmpl : Tmpls]
    BY ConvergenceAssumption DEF Actions
  <2>2. "store1" \in Pcs /\ "store1" \notin Checks /\ stack \in Stacks
    BY DEF Pcs, Checks, TypeOK
  <2>3. Idle \in ThreadStates
    BY IdleTyped DEF TypeOK
  <2>4. x \in ThreadStates
    BY <2>1, <2>2, <2>3 DEF ThreadStates
  <2>5. x.pc = "store1"
    BY DEF Idle
  <2> HIDE DEF x
  <2>6. CheckOK(x) /\ x \in ThreadStates'
    BY <1>1, <2>2, <2>4, <2>5, NothingAdded DEF CheckOK
  <2> QED
    BY <1>1, <1>2, <1>3, <2>6, MoveTyped DEF ThreadsTyped, x
<1>4. ThreadsTyped'
  BY <1>1, <1>2, <1>3, ReturnTyped DEF Request
<1> QED
  BY <1>2, <1>4 DEF TypeOK, StoreOK, ThreadsTyped, CheckOK

\* StoreTraversal keeps the types.
LEMMA StoreTraversalTyped ==
    ASSUME TypeOK, NEW w \in Threads, StoreTraversal(w)
    PROVE  TypeOK'
<1> DEFINE st == th[w].st
           goal == th[w].goal
           new == [st EXCEPT !.trav = nextTrav, !.action = goal.action, !.status = "IN_PROGRESS",
                             !.tmpl = goal.tmpl,
                             !.prev = IF goal.action = "CREATE" THEN @ ELSE st.tmpl]
           x == [th[w] EXCEPT !.st = new, !.old = st.trav, !.pc = "delete_prev"]
<1>1. /\ nextTrav' = nextTrav + 1 /\ Store(new, st.trav)
      /\ IF Current(st.trav) THEN th' = [th EXCEPT ![w] = x] ELSE Return(w)
      /\ UNCHANGED <<rsrc, nextId, sp, casts, phys, dead, faults>>
  BY TypeParts DEF StoreTraversal
<1>2. Growing /\ nextTrav \in Travs' /\ nextId \in Nat /\ stack \in Stacks
  BY <1>1 DEF Growing, TypeOK, Travs
<1>3. /\ st \in Stacks' /\ goal \in [action : Actions \ {"INIT"}, tmpl : Tmpls]
      /\ st.trav \in Travs' /\ th[w] \in ThreadStates'
  BY <1>2, ThreadFields, TypesGrow DEF Stacks
<1>4. new \in Stacks'
  BY <1>2, <1>3 DEF Stacks, Statuses
<1> HIDE DEF new
<1>5. x \in ThreadStates'
  BY <1>3, <1>4 DEF ThreadStates, Pcs
<1>6. x.pc \notin Checks
  BY <1>3 DEF ThreadStates, Checks
<1> HIDE DEF x
<1>7. ThreadsTyped'
  BY <1>1, <1>2, <1>5, <1>6, MoveTyped, ReturnTyped DEF ThreadsTyped, CheckOK
<1>8. stack' \in Stacks'
  BY <1>1, <1>2, <1>4, TypesGrow DEF Store
<1>9. StoreOK'
  BY <1>1, <1>2, <1>8, TypesGrow DEF StoreOK, TypeOK, Growing
<1> QED
  BY <1>7, <1>9 DEF TypeOK, StoreOK, ThreadsTyped, CheckOK

\* The ids the new names get.
Fresh(S, a) == CHOOSE f \in [S -> a .. (a + Cardinality(S) - 1)] : IsInjective(f)

\* As many ids as there are new names: each id goes to one of them.
LEMMA FreshIds ==
    ASSUME NEW S, IsFiniteSet(S), NEW a \in Nat
    PROVE  \A i \in a .. (a + Cardinality(S) - 1) : \E n \in S : Fresh(S, a)[n] = i
<1> DEFINE ids == a .. (a + Cardinality(S) - 1)
<1>1. Cardinality(S) \in Nat
  BY FS_CardinalityType
<1>2. IsFiniteSet(ids) /\ Cardinality(ids) = Cardinality(S)
  <2>1. a \in Int /\ a + Cardinality(S) - 1 \in Int
    BY <1>1
  <2>2. IsFiniteSet(ids) /\ Cardinality(ids) = IF a > a + Cardinality(S) - 1 THEN 0
                                                ELSE (a + Cardinality(S) - 1) - a + 1
    BY <2>1, FS_Interval
  <2> QED
    BY <1>1, <2>2
<1>3. Fresh(S, a) = CHOOSE f \in [S -> ids] : IsInjective(f)
  BY DEF Fresh
<1> HIDE DEF ids
<1>4. \E f \in [S -> ids] : IsInjective(f)
  BY <1>2, FS_SameCardinalityBij DEF ExistsBijection, Bijection, Injection
<1>5. Fresh(S, a) \in [S -> ids] /\ IsInjective(Fresh(S, a))
  BY <1>3, <1>4
<1>6. Fresh(S, a) \in Surjection(S, ids)
  BY <1>2, <1>5, FS_Injection DEF Injection
<1>7. \A i \in ids : \E n \in S : Fresh(S, a)[n] = i
  BY <1>6 DEF Surjection
<1> QED
  BY <1>7 DEF ids

\* The graph of a traversal joins its own nodes, which are the ids it is given.
LEMMA GraphTyped ==
    ASSUME NEW t \in Tmpls, NEW I, NEW current \in [TmplNames[t] -> I], NEW ext, DOMAIN ext \subseteq I
    PROVE  LET g == convg_deps(t, current, ext)
           IN  /\ g \in [nodes : SUBSET (I \X BOOLEAN), edges : SUBSET ((I \X BOOLEAN) \X (I \X BOOLEAN))]
               /\ g.edges \subseteq g.nodes \X g.nodes
<1> DEFINE update == {<<current[n], TRUE>> : n \in TmplNames[t]}
           cleanup == {<<i, FALSE>> : i \in DOMAIN ext}
           nodes == update \cup cleanup
           e1 == UNION {{<<<<current[n], TRUE>>, <<current[m], TRUE>>>> :
                     m \in TmplRequires[t][n]} : n \in TmplNames[t]}
           e2 == UNION {{<<<<r, FALSE>>, <<i, FALSE>>>> :
                     r \in (ext[i].requires \cup {ext[i].replaces}) \cap DOMAIN ext} :
                     i \in DOMAIN ext}
           e3 == {<<<<i, FALSE>>, <<i, TRUE>>>> :
                     i \in {j \in DOMAIN ext : <<j, TRUE>> \in update}}
<1>5. convg_deps(t, current, ext) = [nodes |-> nodes, edges |-> e1 \cup e2 \cup e3]
  BY DEF convg_deps
<1>1. nodes \subseteq I \X BOOLEAN
  <2>1. \A n \in TmplNames[t] : <<current[n], TRUE>> \in I \X BOOLEAN
    OBVIOUS
  <2>2. \A i \in DOMAIN ext : <<i, FALSE>> \in I \X BOOLEAN
    OBVIOUS
  <2> QED
    BY <2>1, <2>2
<1>6. /\ \A n \in TmplNames[t] : <<current[n], TRUE>> \in nodes
      /\ \A i \in DOMAIN ext : <<i, FALSE>> \in nodes
      /\ update \subseteq nodes
  OBVIOUS
<1> HIDE DEF nodes
<1> HIDE DEF update
<1>2. e1 \subseteq nodes \X nodes
  <2>1. \A n \in TmplNames[t] : TmplRequires[t][n] \subseteq TmplNames[t]
    BY ConvergenceAssumption
  <2> SUFFICES ASSUME NEW e \in e1 PROVE e \in nodes \X nodes
    OBVIOUS
  <2>2. PICK S \in {{<<<<current[n], TRUE>>, <<current[m], TRUE>>>> :
                     m \in TmplRequires[t][n]} : n \in TmplNames[t]} : e \in S
    OBVIOUS
  <2>3. PICK n \in TmplNames[t] : S = {<<<<current[n], TRUE>>, <<current[m], TRUE>>>> :
                     m \in TmplRequires[t][n]}
    OBVIOUS
  <2>4. PICK m \in TmplRequires[t][n] : e = <<<<current[n], TRUE>>, <<current[m], TRUE>>>>
    BY <2>2, <2>3
  <2> QED
    BY <1>6, <2>1, <2>4
<1>3. e2 \subseteq nodes \X nodes
  <2> SUFFICES ASSUME NEW e \in e2 PROVE e \in nodes \X nodes
    OBVIOUS
  <2> DEFINE R(i) == (ext[i].requires \cup {ext[i].replaces}) \cap DOMAIN ext
  <2>1. PICK S \in {{<<<<r, FALSE>>, <<i, FALSE>>>> : r \in R(i)} : i \in DOMAIN ext} : e \in S
    OBVIOUS
  <2>2. \A i : R(i) \subseteq DOMAIN ext
    OBVIOUS
  <2> HIDE DEF R
  <2>3. PICK i \in DOMAIN ext : S = {<<<<r, FALSE>>, <<i, FALSE>>>> : r \in R(i)}
    OBVIOUS
  <2>4. PICK r \in R(i) : e = <<<<r, FALSE>>, <<i, FALSE>>>>
    BY <2>1, <2>3
  <2> QED
    BY <1>6, <2>2, <2>4
<1>4. e3 \subseteq nodes \X nodes
  <2> SUFFICES ASSUME NEW e \in e3 PROVE e \in nodes \X nodes
    OBVIOUS
  <2>1. PICK i \in {j \in DOMAIN ext : <<j, TRUE>> \in update} : e = <<<<i, FALSE>>, <<i, TRUE>>>>
    OBVIOUS
  <2> QED
    BY <1>6, <2>1
<1> HIDE DEF e1, e2, e3
<1> QED
  BY <1>1, <1>2, <1>3, <1>4, <1>5

\* What the fields of rows may become.
LEMMA RowField ==
    ASSUME NEW row \in Rows
    PROVE  /\ Bumped(row) \in Rows
           /\ \A engine \in Engines \cup {None} : [row EXCEPT !.engine = engine] \in Rows
           /\ \A status \in Statuses : [row EXCEPT !.status = status] \in Rows
           /\ \A action \in Actions \ {"ROLLBACK"} : [row EXCEPT !.action = action] \in Rows
           /\ \A id \in Ids \cup {None} : [row EXCEPT !.replaces = id] \in Rows
           /\ \A id \in Ids : [row EXCEPT !.replaced_by = id] \in Rows
           /\ \A tmpl \in Tmpls : [row EXCEPT !.tmpl = tmpl] \in Rows
           /\ \A S \in SUBSET Ids : [row EXCEPT !.requires = S] \in Rows
<1>1. Bumped(row) \in Rows
  BY DEF Rows, Bumped
<1>2. \A engine \in Engines \cup {None} : [row EXCEPT !.engine = engine] \in Rows
  BY DEF Rows
<1>3. \A status \in Statuses : [row EXCEPT !.status = status] \in Rows
  BY DEF Rows
<1>4. \A action \in Actions \ {"ROLLBACK"} : [row EXCEPT !.action = action] \in Rows
  BY DEF Rows
<1>5. \A id \in Ids \cup {None} : [row EXCEPT !.replaces = id] \in Rows
  BY DEF Rows
<1>6. \A id \in Ids : [row EXCEPT !.replaced_by = id] \in Rows
  BY DEF Rows
<1>7. \A tmpl \in Tmpls : [row EXCEPT !.tmpl = tmpl] \in Rows
  BY DEF Rows
<1>8. \A S \in SUBSET Ids : [row EXCEPT !.requires = S] \in Rows
  BY DEF Rows
<1> QED
  BY <1>1, <1>2, <1>3, <1>4, <1>5, <1>6, <1>7, <1>8

\* A new row.
LEMMA NewRowTyped ==
    ASSUME NEW n \in Names, NEW t \in Tmpls, NEW S \in SUBSET Ids, NEW id \in Ids \cup {None}
    PROVE  NewRow(n, t, S, id) \in Rows
  BY DEF NewRow, Rows, Actions, Statuses

\* What the step of UpdateOrStoreResources() chooses.
LEMMA ResourcesStored ==
    ASSUME TypeOK, NEW w \in Threads, UpdateOrStoreResources(w)
    PROVE  \E ids \in SUBSET Nat : \E current \in [TmplNames[th[w].st.tmpl] -> DOMAIN rsrc \cup ids] :
             /\ nextId' \in Nat /\ nextId <= nextId' /\ ids = nextId .. (nextId' - 1)
             /\ DOMAIN rsrc' = DOMAIN rsrc \cup ids
             /\ rsrc' = [i \in DOMAIN rsrc \cup ids |-> rsrc'[i]]
             /\ \A i \in DOMAIN rsrc : rsrc'[i] \in {rsrc[i], Bumped(rsrc[i])}
             /\ \A i \in ids : \E n \in Names : rsrc'[i] = NewRow(n, th[w].st.tmpl, {}, None)
             /\ th' = [th EXCEPT ![w].st.deps = convg_deps(th[w].st.tmpl, current, rsrc),
                                 ![w].pc = "store2"]
<1> DEFINE t == th[w].st.tmpl
           names == TmplNames[t]
           best == [n \in names |-> best_existing(n, t, th[w].st.prev, rsrc)]
           new == {n \in names : best[n] = {}}
           ids == nextId .. (nextId + Cardinality(new) - 1)
           fresh == CHOOSE f \in [new -> ids] : IsInjective(f)
<1>1. t \in Tmpls /\ names \subseteq Names
  BY ThreadFields, ConvergenceAssumption DEF Stacks
<1>2. new \subseteq Names /\ IsFiniteSet(new)
  BY <1>1, FS_Subset, ConvergenceAssumption
<1>3. PICK current \in [names -> DOMAIN rsrc \cup ids] :
        /\ rsrc' = [i \in DOMAIN rsrc \cup ids |->
                           IF i \in DOMAIN rsrc
                           THEN IF i \in Range(current) /\ rsrc[i].engine = None
                                THEN Bumped(rsrc[i]) ELSE rsrc[i]
                           ELSE NewRow(CHOOSE n \in new : fresh[n] = i, t, {}, None)]
        /\ th' = [th EXCEPT ![w].st.deps = convg_deps(t, current, rsrc), ![w].pc = "store2"]
  BY DEF UpdateOrStoreResources
<1>4. nextId' = nextId + Cardinality(new) /\ nextId \in Nat /\ Cardinality(new) \in Nat
  BY <1>2, FS_CardinalityType DEF UpdateOrStoreResources, TypeOK
<1> HIDE DEF new
<1>5. \A i \in ids : \E n \in new : fresh[n] = i
  <2>1. IsFiniteSet(new) /\ nextId \in Nat
    BY <1>2, <1>4
  <2> QED
    BY <2>1, FreshIds DEF Fresh
<1>6. ids \in SUBSET Nat /\ ids = nextId .. (nextId' - 1) /\ nextId <= nextId' /\ nextId' \in Nat
  BY <1>4
<1>7. ids \cap DOMAIN rsrc = {}
  BY <1>4 DEF TypeOK, Ids
<1> HIDE DEF ids, fresh
<1>8. \A i \in ids : (CHOOSE n \in new : fresh[n] = i) \in Names
  BY <1>2, <1>5
<1>9. \A i \in ids : \E n \in Names : rsrc'[i] = NewRow(n, t, {}, None)
  BY <1>3, <1>7, <1>8
<1>10. /\ \A i \in DOMAIN rsrc : rsrc'[i] \in {rsrc[i], Bumped(rsrc[i])}
       /\ DOMAIN rsrc' = DOMAIN rsrc \cup ids
       /\ rsrc' = [i \in DOMAIN rsrc \cup ids |-> rsrc'[i]]
  BY <1>3
<1> QED
  BY <1>3, <1>6, <1>9, <1>10

\* UpdateOrStoreResources keeps the types.
LEMMA UpdateOrStoreResourcesTyped ==
    ASSUME TypeOK, NEW w \in Threads, UpdateOrStoreResources(w)
    PROVE  TypeOK'
<1>1. PICK ids \in SUBSET Nat : \E current \in [TmplNames[th[w].st.tmpl] -> DOMAIN rsrc \cup ids] :
             /\ nextId' \in Nat /\ nextId <= nextId' /\ ids = nextId .. (nextId' - 1)
             /\ DOMAIN rsrc' = DOMAIN rsrc \cup ids
             /\ rsrc' = [i \in DOMAIN rsrc \cup ids |-> rsrc'[i]]
             /\ \A i \in DOMAIN rsrc : rsrc'[i] \in {rsrc[i], Bumped(rsrc[i])}
             /\ \A i \in ids : \E n \in Names : rsrc'[i] = NewRow(n, th[w].st.tmpl, {}, None)
             /\ th' = [th EXCEPT ![w].st.deps = convg_deps(th[w].st.tmpl, current, rsrc),
                                 ![w].pc = "store2"]
  BY ResourcesStored
<1>11. PICK current \in [TmplNames[th[w].st.tmpl] -> DOMAIN rsrc \cup ids] :
         th' = [th EXCEPT ![w].st.deps = convg_deps(th[w].st.tmpl, current, rsrc),
                          ![w].pc = "store2"]
  BY <1>1
<1>2. UNCHANGED <<stack, nextTrav, sp, casts, phys, dead, faults>> /\ Growing
  <2>1. UNCHANGED <<stack, nextTrav, sp, casts, phys, dead, faults>>
    BY DEF UpdateOrStoreResources
  <2>2. nextId \in Nat \ {0} /\ nextTrav \in Nat \ {0}
    BY DEF TypeOK
  <2>3. nextId' \in Nat /\ nextId <= nextId'
    BY <1>1
  <2> QED
    BY <2>1, <2>2, <2>3 DEF Growing
<1>3. DOMAIN rsrc \subseteq Ids' /\ ids \subseteq Ids' /\ th[w].st.tmpl \in Tmpls
  BY <1>1, <1>2, TypesGrow, ThreadFields DEF TypeOK, Ids, Stacks, Growing
<1>4. rsrc' \in [DOMAIN rsrc' -> Rows'] /\ DOMAIN rsrc' \subseteq Ids'
  <2>1. \A i \in DOMAIN rsrc : rsrc'[i] \in Rows'
    BY <1>1, <1>2, RowField, TypesGrow DEF TypeOK
  <2>2. \A i \in ids : rsrc'[i] \in Rows'
    BY <1>1, <1>2, <1>3, NewRowTyped, TypesGrow
  <2> QED
    BY <1>1, <1>3, <2>1, <2>2
<1> DEFINE deps == convg_deps(th[w].st.tmpl, current, rsrc)
           x == [th[w] EXCEPT !.st.deps = deps, !.pc = "store2"]
<1>5. deps \in Graphs'
  <2>1. current \in [TmplNames[th[w].st.tmpl] -> Ids'] /\ DOMAIN rsrc \subseteq Ids'
    BY <1>3
  <2> QED
    BY <1>3, <2>1, GraphTyped DEF Graphs, Nodes
<1> HIDE DEF deps
<1>6. th[w] \in ThreadStates' /\ "store2" \in Pcs /\ "store2" \notin Checks
  BY <1>2, ThreadFields, TypesGrow DEF Pcs, Checks
<1>7. [th[w].st EXCEPT !.deps = deps] \in Stacks'
  BY <1>5, <1>6 DEF ThreadStates, Stacks
<1>8. x \in ThreadStates' /\ x.pc = "store2"
  BY <1>6, <1>7 DEF ThreadStates
<1>9. th' = [th EXCEPT ![w] = x]
  BY <1>11, TypeParts DEF deps
<1> HIDE DEF x
<1>10. ThreadsTyped'
  BY <1>2, <1>6, <1>8, <1>9, MoveTyped DEF ThreadsTyped, CheckOK
<1> QED
  BY <1>2, <1>4, <1>10, TypesGrow DEF TypeOK, ThreadsTyped, CheckOK, Growing

\* What the lemmas on steps leave to put together.
LEMMA TypesTogether == StoreOK' /\ ThreadsTyped' => TypeOK'
  BY DEF TypeOK, StoreOK, ThreadsTyped, CheckOK

\* A thread goes on with another object for the stack or the resource.
LEMMA WithStack ==
    ASSUME TypeOK, Growing, NEW w \in Threads, NEW st \in Stacks', NEW pc \in Pcs \ Checks,
           th' = [th EXCEPT ![w].st = st, ![w].pc = pc]
    PROVE  ThreadsTyped'
<1> DEFINE x == [th[w] EXCEPT !.st = st, !.pc = pc]
<1>1. th[w] \in ThreadStates'
  BY ThreadFields, TypesGrow
<1>2. x \in ThreadStates' /\ x.pc = pc
  BY <1>1 DEF ThreadStates
<1>3. th' = [th EXCEPT ![w] = x]
  BY TypeParts
<1> HIDE DEF x
<1> QED
  BY <1>2, <1>3, MoveTyped DEF ThreadsTyped, CheckOK

\* A thread goes on with another object for the resource and a result.
LEMMA WithResource ==
    ASSUME TypeOK, Growing, NEW w \in Threads, th[w].pc \in Checks, NEW rs \in Rows',
           NEW out \in {"none", "done", "replace", "failed", "timeout"},
           NEW pc \in Pcs, pc = "release" => out # "none",
           th' = [th EXCEPT ![w] = [th[w] EXCEPT !.rs = rs, !.out = out, !.pc = pc]]
    PROVE  ThreadsTyped'
<1> DEFINE x == [th[w] EXCEPT !.rs = rs, !.out = out, !.pc = pc]
<1>1. th[w] \in ThreadStates' /\ CheckOK(th[w])
  BY TypesGrow, TypeParts
<1>2. x \in ThreadStates' /\ x.pc = pc /\ x.rs = rs /\ x.out = out /\ x.msg = th[w].msg
  <2> DEFINE y == [th[w] EXCEPT !.rs = rs]
             z == [y EXCEPT !.out = out]
  <2>1. y \in ThreadStates' /\ y.rs = rs /\ y.msg = th[w].msg
    BY <1>1 DEF ThreadStates
  <2> HIDE DEF y
  <2>2. z \in ThreadStates' /\ z.out = out /\ z.rs = rs /\ z.msg = th[w].msg
    BY <2>1 DEF ThreadStates
  <2> HIDE DEF z
  <2>3. /\ [z EXCEPT !.pc = pc] \in ThreadStates' /\ [z EXCEPT !.pc = pc].pc = pc
        /\ [z EXCEPT !.pc = pc].out = out /\ [z EXCEPT !.pc = pc].rs = rs
        /\ [z EXCEPT !.pc = pc].msg = th[w].msg
    BY <2>2 DEF ThreadStates
  <2>4. x = [z EXCEPT !.pc = pc]
    BY DEF y, z
  <2> HIDE DEF x
  <2> QED
    BY <2>3, <2>4
<1> HIDE DEF x
<1>3. rs # NoRs
  <2>1. rs.tmpl \in Tmpls
    BY DEF Rows
  <2>2. NoRs.tmpl = 0
    BY DEF NoRs, NewRow, None
  <2>3. 0 \notin Tmpls
    BY ConvergenceAssumption
  <2> QED
    BY <2>1, <2>2, <2>3
<1>4. CheckOK(x)
  BY <1>1, <1>2, <1>3 DEF CheckOK
<1> QED
  BY <1>2, <1>4, MoveTyped DEF ThreadsTyped, x

\* Where a thread can be.
LEMMA PcsOf ==
    /\ Pcs \ Checks = {"idle", "finished", "crashed", "store1", "delete_prev", "resources",
                       "store2", "trigger", "complete", "rollback", "purge", "purge_points",
                       "fail", "reload", "retrigger"}
    /\ Checks \subseteq Pcs
  BY DEF Pcs, Checks

\* DeletePrevSyncPoints keeps the types.
LEMMA DeletePrevSyncPointsTyped ==
    ASSUME TypeOK, NEW w \in Threads, DeletePrevSyncPoints(w)
    PROVE  TypeOK'
<1>1. /\ UNCHANGED <<stack, rsrc, nextId, nextTrav, casts, phys, dead, faults>>
      /\ sp' = Restrict(sp, DOMAIN sp \ {th[w].old}) /\ Goto(w, "resources")
  BY DEF DeletePrevSyncPoints
<1>2. ThreadsTyped'
  BY <1>1, NothingAdded, GotoTyped, PcsOf
<1>3. StoreOK'
  BY <1>1, TypesStay DEF StoreOK, TypeOK, Restrict
<1> QED
  BY <1>2, <1>3, TypesTogether

\* StoreDeps keeps the types.
LEMMA StoreDepsTyped ==
    ASSUME TypeOK, NEW w \in Threads, StoreDeps(w)
    PROVE  TypeOK'
<1>1. /\ UNCHANGED <<rsrc, nextId, nextTrav, sp, casts, phys, dead, faults>>
      /\ Store(th[w].st, th[w].st.trav) /\ (Goto(w, "trigger") \/ Return(w))
  BY DEF StoreDeps
<1>2. ThreadsTyped'
  BY <1>1, NothingAdded, GotoTyped, ReturnTyped, PcsOf
<1>3. stack' \in Stacks
  BY <1>1, ThreadFields, StackWritten DEF TypeOK
<1>4. StoreOK'
  BY <1>1, <1>3, TypesStay DEF StoreOK, TypeOK
<1> QED
  BY <1>2, <1>4, TypesTogether

\* Messages as the steps cast them.
LEMMA CastTyped ==
    ASSUME NEW id \in Ids, NEW t \in Travs, NEW upd \in BOOLEAN, NEW data \in Data
    PROVE  Cast(id, t, upd, data) \in Msgs
  BY DEF Cast, Msgs, Data

\* TriggerLeaves keeps the types.
LEMMA TriggerLeavesTyped ==
    ASSUME TypeOK, NEW w \in Threads, TriggerLeaves(w)
    PROVE  TypeOK'
<1> DEFINE st == th[w].st
           N == st.deps.nodes
<1>1. /\ UNCHANGED <<stack, rsrc, nextId, nextTrav, phys, dead, faults>>
      /\ Goto(w, "complete") \/ Return(w)
      /\ sp' = [t \in DOMAIN sp \cup {st.trav} |->
                   IF t = st.trav THEN [n \in N \cup {StackNode} |-> {}] ELSE sp[t]]
      /\ casts' = casts \cup {Cast(n[1], st.trav, n[2], {}) : n \in leaves(st.deps)}
  BY DEF TriggerLeaves
<1>2. ThreadsTyped'
  BY <1>1, NothingAdded, GotoTyped, ReturnTyped, PcsOf
<1>3. st.trav \in Travs /\ N \subseteq Nodes
  BY ThreadFields DEF Stacks, Graphs
<1>4. casts' \subseteq Msgs
  <2>1. \A n \in leaves(st.deps) : n \in Nodes
    BY <1>3 DEF leaves
  <2>2. \A n \in leaves(st.deps) : Cast(n[1], st.trav, n[2], {}) \in Msgs
    BY <1>3, <2>1, CastTyped DEF Nodes, Data
  <2> HIDE DEF st
  <2>3. casts \subseteq Msgs
    BY DEF TypeOK
  <2> QED
    BY <1>1, <2>2, <2>3
<1> HIDE DEF N, st
<1>5. /\ DOMAIN sp' \subseteq Travs
      /\ \A t \in DOMAIN sp' : /\ sp'[t] \in [DOMAIN sp'[t] -> Data]
                               /\ StackNode \in DOMAIN sp'[t]
                               /\ DOMAIN sp'[t] \subseteq Nodes \cup {StackNode}
  <2>1. [n \in N \cup {StackNode} |-> {}] \in [N \cup {StackNode} -> Data]
    BY DEF Data
  <2> QED
    BY <1>1, <1>3, <2>1 DEF TypeOK
<1>6. StoreOK'
  BY <1>1, <1>4, <1>5, TypesStay DEF StoreOK, TypeOK
<1> QED
  BY <1>2, <1>6, TypesTogether

\* Rollback keeps the types.
LEMMA RollbackTyped ==
    ASSUME TypeOK, NEW w \in Threads, Rollback(w)
    PROVE  TypeOK'
<1> DEFINE st == th[w].st
           new == [st EXCEPT !.prev = None]
           goal == [action |-> "ROLLBACK",
                    tmpl |-> IF st.prev = None THEN EmptyTmpl ELSE st.prev]
           x == [th[w] EXCEPT !.goal = goal, !.st.prev = None, !.pc = "store1"]
<1>1. /\ UNCHANGED <<rsrc, nextId, nextTrav, sp, casts, phys, dead, faults>>
      /\ UNCHANGED stack \/ Store(new, st.trav)
      /\ th' = [th EXCEPT ![w] = x] \/ Return(w)
  BY TypeParts DEF Rollback
<1>2. st \in Stacks /\ new \in Stacks
  BY ThreadFields, StackField
<1>3. stack' \in Stacks
  BY <1>1, <1>2, StackWritten DEF TypeOK
<1>4. goal \in [action : Actions \ {"INIT"}, tmpl : Tmpls]
  BY <1>2, ConvergenceAssumption DEF Stacks, Actions
<1>5. x \in ThreadStates /\ x.pc = "store1"
  <2>1. th[w] \in ThreadStates /\ "store1" \in Pcs
    BY ThreadFields, PcsOf
  <2> HIDE DEF goal
  <2> QED
    BY <1>2, <1>4, <2>1 DEF ThreadStates
<1> HIDE DEF x
<1>6. ThreadsTyped'
  <2>1. CheckOK(x)
    BY <1>5, PcsOf DEF CheckOK
  <2> QED
    BY <1>1, <1>5, <2>1, NothingAdded, MoveTyped, ReturnTyped DEF ThreadsTyped
<1>7. StoreOK'
  BY <1>1, <1>3, TypesStay DEF StoreOK, TypeOK
<1> QED
  BY <1>6, <1>7, TypesTogether

\* MarkComplete keeps the types.
LEMMA MarkCompleteTyped ==
    ASSUME TypeOK, NEW w \in Threads, MarkComplete(w)
    PROVE  TypeOK'
<1> DEFINE st == [th[w].st EXCEPT !.status = "COMPLETE"]
<1>1. /\ UNCHANGED <<rsrc, nextId, nextTrav, sp, casts, phys, dead, faults>>
      /\ StateSet(st)
      /\ th' = [th EXCEPT ![w].st = st, ![w].pc = "purge"] \/ Return(w)
  BY DEF MarkComplete
<1>2. st \in Stacks
  BY ThreadFields, StackField DEF Statuses
<1> HIDE DEF st
<1>3. stack' \in Stacks
  BY <1>1, <1>2, StackWritten DEF TypeOK
<1>4. ThreadsTyped'
  BY <1>1, <1>2, NothingAdded, WithStack, ReturnTyped, PcsOf
<1>5. StoreOK'
  BY <1>1, <1>3, TypesStay DEF StoreOK, TypeOK
<1> QED
  BY <1>4, <1>5, TypesTogether

\* PurgeTemplate keeps the types.
LEMMA PurgeTemplateTyped ==
    ASSUME TypeOK, NEW w \in Threads, PurgeTemplate(w)
    PROVE  TypeOK'
<1> DEFINE st == [th[w].st EXCEPT !.prev = None]
<1>1. /\ UNCHANGED <<rsrc, nextId, nextTrav, sp, casts, phys, dead, faults>>
      /\ UNCHANGED stack \/ Store(st, th[w].st.trav)
      /\ Goto(w, "purge_points") \/ Return(w)
  BY DEF PurgeTemplate
<1>2. st \in Stacks
  BY ThreadFields, StackField
<1> HIDE DEF st
<1>3. stack' \in Stacks
  BY <1>1, <1>2, StackWritten DEF TypeOK
<1>4. ThreadsTyped'
  BY <1>1, NothingAdded, GotoTyped, ReturnTyped, PcsOf
<1>5. StoreOK'
  BY <1>1, <1>3, TypesStay DEF StoreOK, TypeOK
<1> QED
  BY <1>4, <1>5, TypesTogether

\* PurgeSyncPoints keeps the types.
LEMMA PurgeSyncPointsTyped ==
    ASSUME TypeOK, NEW w \in Threads, PurgeSyncPoints(w)
    PROVE  TypeOK'
<1>1. /\ UNCHANGED <<nextId, nextTrav, casts, phys, dead, faults>>
      /\ sp' = Restrict(sp, DOMAIN sp \ {th[w].st.trav})
      /\ stack' = [stack EXCEPT !.live = FALSE] \/ UNCHANGED stack
      /\ rsrc' = << >> \/ UNCHANGED rsrc
      /\ Return(w)
  BY DEF PurgeSyncPoints
<1>2. ThreadsTyped'
  BY <1>1, NothingAdded, ReturnTyped
<1>3. stack' \in Stacks
  BY <1>1, StackField DEF TypeOK
<1>4. rsrc' \in [DOMAIN rsrc' -> Rows] /\ DOMAIN rsrc' \subseteq Ids
  <2>1. << >> \in [DOMAIN << >> -> Rows] /\ DOMAIN << >> \subseteq Ids
    OBVIOUS
  <2> QED
    BY <1>1, <2>1 DEF TypeOK
<1>5. StoreOK'
  BY <1>1, <1>3, <1>4, TypesStay DEF StoreOK, TypeOK, Restrict
<1> QED
  BY <1>2, <1>5, TypesTogether

\* A row is not the absence of one, nor is a message.
LEMMA RealThings ==
    ASSUME nextId \in Nat \ {0}
    PROVE  /\ \A rs \in Rows : rs # NoRs
           /\ \A m \in Msgs : m # NoMsg
<1>1. 0 \notin Tmpls /\ 0 \notin Ids
  BY ConvergenceAssumption DEF Ids
<1>2. NoRs.tmpl = 0 /\ NoMsg.id = 0
  BY DEF NoRs, NewRow, None, NoMsg
<1>3. \A rs \in Rows : rs.tmpl \in Tmpls
  BY DEF Rows
<1>4. \A m \in Msgs : m.id \in Ids
  BY DEF Msgs
<1> QED
  BY <1>1, <1>2, <1>3, <1>4

\* Receive keeps the types.
LEMMA ReceiveTyped ==
    ASSUME TypeOK, NEW w \in Workers, NEW m \in casts, Receive(w, m)
    PROVE  TypeOK'
<1> DEFINE x == [Idle EXCEPT !.pc = "acquire", !.msg = m, !.rs = rsrc[m.id], !.st = stack]
<1>1. /\ UNCHANGED <<stack, rsrc, nextId, nextTrav, sp, phys, dead, faults>>
      /\ casts' = casts \ {m}
      /\ (loadable(m) /\ th' = [th EXCEPT ![w] = x]) \/ Return(w)
  BY DEF Receive
<1>2. ASSUME loadable(m) PROVE x \in ThreadStates' /\ CheckOK(x)
  <2>1. m \in Msgs /\ rsrc[m.id] \in Rows /\ stack \in Stacks /\ nextId \in Nat \ {0}
    BY <1>2 DEF TypeOK, loadable
  <2>2. m # NoMsg /\ rsrc[m.id] # NoRs
    BY <2>1, RealThings
  <2>3. Idle \in ThreadStates /\ "acquire" \in Pcs
    BY IdleTyped DEF TypeOK, Pcs, Checks
  <2> DEFINE y1 == [Idle EXCEPT !.pc = "acquire"]
             y2 == [y1 EXCEPT !.msg = m]
             y3 == [y2 EXCEPT !.rs = rsrc[m.id]]
  <2>4. x = [y3 EXCEPT !.st = stack]
    OBVIOUS
  <2> HIDE DEF x
  <2>5. y1 \in ThreadStates /\ y1.pc = "acquire"
    BY <2>3 DEF ThreadStates
  <2> HIDE DEF y1
  <2>8. y2 \in ThreadStates /\ y2.pc = "acquire" /\ y2.msg = m
    BY <2>1, <2>5 DEF ThreadStates
  <2> HIDE DEF y2
  <2>9. y3 \in ThreadStates /\ y3.pc = "acquire" /\ y3.msg = m /\ y3.rs = rsrc[m.id]
    BY <2>1, <2>8 DEF ThreadStates
  <2> HIDE DEF y3
  <2>6. x \in ThreadStates /\ x.pc = "acquire" /\ x.msg = m /\ x.rs = rsrc[m.id]
    BY <2>1, <2>4, <2>9 DEF ThreadStates
  <2>7. CheckOK(x)
    BY <2>2, <2>6 DEF CheckOK
  <2> QED
    BY <1>1, <2>6, <2>7, NothingAdded
<1> HIDE DEF x
<1>3. ThreadsTyped'
  BY <1>1, <1>2, NothingAdded, MoveTyped, ReturnTyped DEF ThreadsTyped, Threads
<1>4. StoreOK'
  BY <1>1, TypesStay DEF StoreOK, TypeOK
<1> QED
  BY <1>3, <1>4, TypesTogether

\* ReceiveLate keeps the types.
LEMMA ReceiveLateTyped ==
    ASSUME TypeOK, NEW w \in Workers, NEW m \in casts, ReceiveLate(w, m)
    PROVE  TypeOK'
<1> DEFINE x == [Idle EXCEPT !.pc = "fail", !.st = stack, !.out = "timeout"]
<1>1. /\ UNCHANGED <<stack, rsrc, nextId, nextTrav, sp, phys, dead>>
      /\ casts' = casts \ {m} /\ th' = [th EXCEPT ![w] = x]
      /\ faults < MaxFaults /\ faults' = faults + 1
  BY DEF ReceiveLate, has_timed_out, Fault
<1>2. x \in ThreadStates' /\ CheckOK(x)
  <2>1. stack \in Stacks
    BY DEF TypeOK
  <2>3. Idle \in ThreadStates /\ "fail" \in Pcs /\ "fail" \notin Checks
    BY IdleTyped, PcsOf DEF TypeOK
  <2> DEFINE y1 == [Idle EXCEPT !.pc = "fail"]
             y2 == [y1 EXCEPT !.st = stack]
  <2>4. x = [y2 EXCEPT !.out = "timeout"]
    OBVIOUS
  <2> HIDE DEF x
  <2>5. y1 \in ThreadStates /\ y1.pc = "fail"
    BY <2>3 DEF ThreadStates
  <2> HIDE DEF y1
  <2>8. y2 \in ThreadStates /\ y2.pc = "fail"
    BY <2>1, <2>5 DEF ThreadStates
  <2> HIDE DEF y2
  <2>6. x \in ThreadStates /\ x.pc = "fail"
    BY <2>4, <2>8 DEF ThreadStates
  <2>7. CheckOK(x)
    BY <2>3, <2>6 DEF CheckOK
  <2> QED
    BY <1>1, <2>6, <2>7, NothingAdded
<1> HIDE DEF x
<1>3. ThreadsTyped'
  BY <1>1, <1>2, NothingAdded, MoveTyped DEF ThreadsTyped, Threads
<1>4. faults' \in 0 .. MaxFaults
  BY <1>1, ConvergenceAssumption DEF TypeOK
<1>5. StoreOK'
  BY <1>1, <1>4, TypesStay DEF StoreOK, TypeOK
<1> QED
  BY <1>3, <1>5, TypesTogether

\* AcquireRead keeps the types.
LEMMA AcquireReadTyped ==
    ASSUME TypeOK, NEW w \in Threads, AcquireRead(w)
    PROVE  TypeOK'
<1> DEFINE id == th[w].msg.id
           x == [th[w] EXCEPT !.key = rsrc[id].atomic_key, !.pc = "cas"]
<1>1. /\ UNCHANGED <<stack, rsrc, nextId, nextTrav, sp, casts, phys, dead, faults>>
      /\ (id \in DOMAIN rsrc /\ th' = [th EXCEPT ![w] = x]) \/ Return(w)
      /\ th[w].pc = "acquire"
  BY TypeParts DEF AcquireRead, db, At
<1>2. ASSUME id \in DOMAIN rsrc PROVE x \in ThreadStates /\ CheckOK(x)
  <2>1. th[w] \in ThreadStates /\ CheckOK(th[w])
    BY TypeParts
  <2>2. rsrc[id].atomic_key \in Nat
    BY <1>2 DEF TypeOK, Rows
  <2>3. x \in ThreadStates /\ x.pc = "cas" /\ x.msg = th[w].msg /\ x.rs = th[w].rs
    BY <2>1, <2>2 DEF ThreadStates, Pcs, Checks
  <2> HIDE DEF x
  <2> QED
    BY <1>1, <2>1, <2>3 DEF CheckOK, Checks
<1> HIDE DEF x
<1>3. ThreadsTyped'
  BY <1>1, <1>2, NothingAdded, MoveTyped, ReturnTyped DEF ThreadsTyped
<1>4. StoreOK'
  BY <1>1, TypesStay DEF StoreOK, TypeOK
<1> QED
  BY <1>3, <1>4, TypesTogether

\* A row is replaced by another.
LEMMA RowsWritten ==
    ASSUME rsrc \in [DOMAIN rsrc -> Rows], NEW id, NEW row \in Rows,
           id \in DOMAIN rsrc => rsrc' = [rsrc EXCEPT ![id] = row],
           id \notin DOMAIN rsrc => rsrc' = rsrc
    PROVE  rsrc' \in [DOMAIN rsrc' -> Rows] /\ DOMAIN rsrc' = DOMAIN rsrc
  OBVIOUS

\* Acquire keeps the types.
LEMMA AcquireTyped ==
    ASSUME TypeOK, NEW w \in Threads, Acquire(w)
    PROVE  TypeOK'
<1> DEFINE id == th[w].msg.id
           row == [Bumped(rsrc[id]) EXCEPT !.engine = Engine[w]]
<1>1. /\ UNCHANGED <<stack, nextId, nextTrav, sp, casts, phys, dead, faults>>
      /\ th[w].pc = "cas"
      /\ \/ id \in DOMAIN rsrc /\ rsrc' = [rsrc EXCEPT ![id] = row]
         \/ UNCHANGED rsrc
      /\ \E pc \in {"begin", "in_progress"} :
            th' = [th EXCEPT ![w] = [th[w] EXCEPT !.key = 0, !.pc = pc]]
  BY TypeParts DEF Acquire, At
<1>2. PICK pc \in {"begin", "in_progress"} :
         th' = [th EXCEPT ![w] = [th[w] EXCEPT !.key = 0, !.pc = pc]]
  BY <1>1
<1> DEFINE x == [th[w] EXCEPT !.key = 0, !.pc = pc]
<1>3. x \in ThreadStates /\ CheckOK(x)
  <2>1. th[w] \in ThreadStates /\ CheckOK(th[w]) /\ pc \in Checks /\ pc \in Pcs
    BY TypeParts, PcsOf DEF Checks
  <2>2. x \in ThreadStates /\ x.pc = pc /\ x.msg = th[w].msg /\ x.rs = th[w].rs
    BY <2>1 DEF ThreadStates
  <2> HIDE DEF x
  <2> QED
    BY <1>1, <2>1, <2>2 DEF CheckOK, Checks
<1> HIDE DEF x
<1>4. ThreadsTyped'
  BY <1>1, <1>2, <1>3, NothingAdded, MoveTyped DEF ThreadsTyped, x
<1>5. rsrc' \in [DOMAIN rsrc' -> Rows] /\ DOMAIN rsrc' = DOMAIN rsrc
  <2>1. ASSUME id \in DOMAIN rsrc PROVE row \in Rows
    <3>1. rsrc[id] \in Rows /\ Engine[w] \in Engines
      BY <2>1, ConvergenceAssumption DEF TypeOK
    <3>2. Bumped(rsrc[id]) \in Rows
      BY <3>1, RowField
    <3> QED
      BY <3>1, <3>2, RowField
  <2> HIDE DEF row
  <2> QED
    BY <1>1, <2>1 DEF TypeOK
<1>6. StoreOK'
  BY <1>1, <1>5, TypesStay DEF StoreOK, TypeOK
<1> QED
  BY <1>4, <1>6, TypesTogether

\* A thread goes on with another object for the resource.
LEMMA WithRow ==
    ASSUME TypeOK, Growing, NEW w \in Threads, th[w].pc \in Checks, NEW rs \in Rows',
           NEW pc \in Pcs, pc # "release",
           th' = [th EXCEPT ![w] = [th[w] EXCEPT !.rs = rs, !.pc = pc]]
    PROVE  ThreadsTyped'
<1> DEFINE x == [th[w] EXCEPT !.rs = rs, !.pc = pc]
<1>1. th[w] \in ThreadStates' /\ CheckOK(th[w])
  BY TypesGrow, TypeParts
<1>2. x \in ThreadStates' /\ x.pc = pc /\ x.rs = rs /\ x.msg = th[w].msg
  BY <1>1 DEF ThreadStates
<1> HIDE DEF x
<1>3. rs # NoRs
  <2>1. rs.tmpl \in Tmpls
    BY DEF Rows
  <2>2. NoRs.tmpl = 0 /\ 0 \notin Tmpls
    BY ConvergenceAssumption DEF NoRs, NewRow, None
  <2> QED
    BY <2>1, <2>2
<1>4. CheckOK(x)
  BY <1>1, <1>2, <1>3 DEF CheckOK
<1> QED
  BY <1>2, <1>4, MoveTyped DEF ThreadsTyped, x

\* The object as the check claims it.
LEMMA ClaimedTyped ==
    ASSUME TypeOK, NEW w \in Threads, th[w].pc \in Checks
    PROVE  reported(w) \subseteq Ids /\ Claimed(w) \in Rows
<1>1. th[w].msg \in Msgs /\ th[w].rs \in Rows /\ th[w].st \in Stacks
  BY ThreadFields
<1>2. reported(w) \subseteq Ids
  BY <1>1 DEF Msgs, Data, reported
<1>3. th[w].st.tmpl \in Tmpls
  BY <1>1 DEF Stacks
<1>4. [th[w].rs EXCEPT !.tmpl = th[w].st.tmpl] \in Rows
  BY <1>1, <1>3, RowField
<1>5. [[th[w].rs EXCEPT !.tmpl = th[w].st.tmpl] EXCEPT !.requires = reported(w)] \in Rows
  BY <1>2, <1>4, RowField
<1> QED
  BY <1>2, <1>5 DEF Claimed

\* Writing a row of the resource table.
LEMMA WriteRowTyped ==
    ASSUME TypeOK, NEW w \in Threads, NEW rs \in Rows, WriteRow(th[w].msg.id, Stored(w, rs))
    PROVE  rsrc' \in [DOMAIN rsrc' -> Rows] /\ DOMAIN rsrc' = DOMAIN rsrc
<1>1. ASSUME th[w].msg.id \in DOMAIN rsrc PROVE Stored(w, rs) \in Rows
  BY <1>1 DEF TypeOK, Rows, Stored
<1> QED
  BY <1>1 DEF WriteRow, TypeOK

\* Storing that an action is in progress.
LEMMA StartActionTyped ==
    ASSUME TypeOK, UNCHANGED <<stack, nextId, nextTrav, sp, casts, phys, dead, faults>>,
           NEW w \in Threads, th[w].pc = "begin", NEW rs \in Rows,
           NEW action \in {"CREATE", "UPDATE", "DELETE"}, StartAction(w, rs, action)
    PROVE  TypeOK'
<1> DEFINE rs2 == [rs EXCEPT !.action = action, !.status = "IN_PROGRESS"]
<1>1. /\ th' = [th EXCEPT ![w] = [th[w] EXCEPT !.rs = rs2, !.pc = "handler"]]
      /\ WriteRow(th[w].msg.id, Stored(w, rs2))
  BY TypeParts DEF StartAction
<1>2. rs2 \in Rows
  BY DEF Rows, Actions, Statuses
<1> HIDE DEF rs2
<1>3. ThreadsTyped'
  <2>1. Growing /\ rs2 \in Rows' /\ "handler" \in Pcs /\ th[w].pc \in Checks
    BY <1>2, NothingAdded DEF Pcs, Checks
  <2> QED
    BY <1>1, <2>1, WithRow, Zenon
<1>4. StoreOK'
  BY <1>1, <1>2, WriteRowTyped, TypesStay DEF StoreOK, TypeOK
<1> QED
  BY <1>3, <1>4, TypesTogether

\* Leaving without an action.
LEMMA SkipToTyped ==
    ASSUME TypeOK, UNCHANGED <<stack, nextId, nextTrav, sp, casts, phys, dead, faults>>,
           NEW w \in Threads, th[w].pc = "begin", NEW rs \in Rows,
           NEW out \in {"done", "replace", "failed"}, SkipTo(w, rs, out)
    PROVE  TypeOK'
<1>1. /\ th' = [th EXCEPT ![w] = [th[w] EXCEPT !.rs = rs, !.out = out, !.pc = "release"]]
      /\ UNCHANGED rsrc
  BY TypeParts DEF SkipTo
<1>3. ThreadsTyped'
  <2>1. Growing /\ rs \in Rows' /\ "release" \in Pcs /\ th[w].pc \in Checks
    BY NothingAdded DEF Pcs, Checks
  <2>2. out \in {"none", "done", "replace", "failed", "timeout"} /\ out # "none"
    OBVIOUS
  <2> QED
    BY <1>1, <2>1, <2>2, WithResource, Zenon
<1>4. StoreOK'
  BY <1>1, TypesStay DEF StoreOK, TypeOK
<1> QED
  BY <1>3, <1>4, TypesTogether

\* The action that a check chooses.
LEMMA BeginTyped ==
    ASSUME TypeOK, NEW w \in Threads, BeginCreate(w) \/ BeginUpdate(w) \/ BeginCleanup(w)
    PROVE  TypeOK'
<1>1. /\ th[w].pc = "begin" /\ th[w].pc \in Checks
      /\ UNCHANGED <<stack, nextId, nextTrav, sp, casts, phys, dead, faults>>
  BY DEF BeginCreate, BeginUpdate, BeginCleanup, At, Checks
<1>2. th[w].rs \in Rows /\ Claimed(w) \in Rows
  BY <1>1, ThreadFields, ClaimedTyped
<1>3. CASE BeginCreate(w)
  BY <1>1, <1>2, <1>3, StartActionTyped, SkipToTyped DEF BeginCreate
<1>4. CASE BeginUpdate(w)
  BY <1>1, <1>2, <1>4, StartActionTyped, SkipToTyped DEF BeginUpdate
<1>5. CASE BeginCleanup(w)
  <2>1. ASSUME Goto(w, "destroy"), UNCHANGED rsrc PROVE TypeOK'
    <3>1. "destroy" \in Pcs
      BY DEF Pcs, Checks
    <3>2. ThreadsTyped'
      BY <1>1, <2>1, <3>1, NothingAdded, GotoTyped
    <3>3. StoreOK'
      BY <1>1, <2>1, TypesStay DEF StoreOK, TypeOK
    <3> QED
      BY <3>2, <3>3, TypesTogether
  <2> QED
    BY <1>1, <1>2, <1>5, <2>1, StartActionTyped, SkipToTyped DEF BeginCleanup
<1> QED
  BY <1>3, <1>4, <1>5

\* HandlerDone keeps the types.
LEMMA HandlerDoneTyped ==
    ASSUME TypeOK, NEW w \in Threads, HandlerDone(w)
    PROVE  TypeOK'
<1> DEFINE done == [th[w].rs EXCEPT !.status = "COMPLETE"]
           claimed == [Claimed(w) EXCEPT !.status = "COMPLETE"]
           id == th[w].msg.id
<1>1. /\ th[w].pc = "handler" /\ th[w].pc \in Checks
      /\ UNCHANGED <<stack, nextId, nextTrav, sp, casts, dead, faults>>
  BY DEF HandlerDone, At, Checks
<1>2. /\ done \in Rows /\ claimed \in Rows /\ th[w].rs \in Rows /\ id \in Ids /\ phys \subseteq Ids
      /\ "release" \in Pcs /\ "destroy" \in Pcs
  BY <1>1, ThreadFields, ClaimedTyped, RowField DEF Statuses, Msgs, TypeOK, Pcs, Checks
<1>3. \/ /\ phys' = phys \cup {id} /\ WriteRow(id, Stored(w, done))
         /\ th' = [th EXCEPT ![w] = [th[w] EXCEPT !.rs = done, !.out = "done", !.pc = "release"]]
      \/ /\ th' = [th EXCEPT ![w] = [th[w] EXCEPT !.out = "replace", !.pc = "release"]]
         /\ UNCHANGED <<rsrc, phys>>
      \/ /\ WriteRow(id, Stored(w, done)) /\ UNCHANGED phys
         /\ th' = [th EXCEPT ![w] = [th[w] EXCEPT !.rs = claimed, !.out = "done", !.pc = "release"]]
      \/ /\ phys' = phys \ {id} /\ WriteRow(id, Stored(w, done))
         /\ th' = [th EXCEPT ![w] = [th[w] EXCEPT !.rs = done, !.pc = "destroy"]]
  BY TypeParts DEF HandlerDone
<1> HIDE DEF done, claimed
<1>4. ThreadsTyped'
  <2>1. ASSUME th' = [th EXCEPT ![w] = [th[w] EXCEPT !.out = "replace", !.pc = "release"]]
        PROVE  ThreadsTyped'
    <3> DEFINE x == [th[w] EXCEPT !.out = "replace", !.pc = "release"]
    <3>1. th[w] \in ThreadStates /\ CheckOK(th[w])
      BY TypeParts
    <3>2. /\ x \in ThreadStates /\ x.pc = "release" /\ x.rs = th[w].rs /\ x.out = "replace"
          /\ x.msg = th[w].msg
      BY <1>2, <3>1 DEF ThreadStates
    <3>3. th' = [th EXCEPT ![w] = x]
      BY <2>1
    <3> HIDE DEF x
    <3>4. CheckOK(x)
      BY <1>1, <3>1, <3>2 DEF CheckOK
    <3> QED
      BY <1>1, <3>2, <3>3, <3>4, NothingAdded, MoveTyped DEF ThreadsTyped
  <2>2. Growing /\ done \in Rows' /\ claimed \in Rows'
    BY <1>1, <1>2, NothingAdded
  <2>3. ASSUME NEW rs \in Rows',
               th' = [th EXCEPT ![w] = [th[w] EXCEPT !.rs = rs, !.out = "done", !.pc = "release"]]
        PROVE  ThreadsTyped'
    <3>1. "done" \in {"none", "done", "replace", "failed", "timeout"} /\ "done" # "none"
      OBVIOUS
    <3> QED
      BY <1>1, <1>2, <2>2, <2>3, <3>1, WithResource, Zenon
  <2>4. ASSUME NEW rs \in Rows',
               th' = [th EXCEPT ![w] = [th[w] EXCEPT !.rs = rs, !.pc = "destroy"]]
        PROVE  ThreadsTyped'
    <3>1. "destroy" # "release"
      OBVIOUS
    <3> QED
      BY <1>1, <1>2, <2>2, <2>4, <3>1, WithRow, Zenon
  <2> QED
    BY <1>3, <2>1, <2>2, <2>3, <2>4, Zenon
<1>5. phys' \subseteq Ids /\ rsrc' \in [DOMAIN rsrc' -> Rows] /\ DOMAIN rsrc' = DOMAIN rsrc
  BY <1>2, <1>3, WriteRowTyped DEF TypeOK
<1>6. StoreOK'
  BY <1>1, <1>5, TypesStay DEF StoreOK, TypeOK
<1> QED
  BY <1>4, <1>6, TypesTogether

\* HandlerFails keeps the types.
LEMMA HandlerFailsTyped ==
    ASSUME TypeOK, NEW w \in Threads, NEW kind \in {"fail", "timeout"}, HandlerFails(w, kind)
    PROVE  TypeOK'
<1> DEFINE failed == [th[w].rs EXCEPT !.status = "FAILED"]
           claimed == [Claimed(w) EXCEPT !.status = "FAILED"]
           id == th[w].msg.id
<1>1. /\ th[w].pc = "handler" /\ th[w].pc \in Checks
      /\ UNCHANGED <<stack, nextId, nextTrav, sp, casts, dead>>
      /\ faults < MaxFaults /\ faults' = faults + 1
  BY DEF HandlerFails, At, Checks, Fault
<1>2. /\ failed \in Rows /\ claimed \in Rows /\ th[w].rs \in Rows /\ id \in Ids /\ phys \subseteq Ids
      /\ "release" \in Pcs
  BY <1>1, ThreadFields, ClaimedTyped, RowField DEF Statuses, Msgs, TypeOK, Pcs, Checks
<1>3. /\ phys' \in {phys, phys \cup {id}} /\ WriteRow(id, Stored(w, failed))
      /\ \E rs \in {failed, claimed}, out \in {"failed", "timeout"} :
            th' = [th EXCEPT ![w] = [th[w] EXCEPT !.pc = "release", !.out = out, !.rs = rs]]
  <2>1. phys' \in {phys, phys \cup {id}} /\ WriteRow(id, Stored(w, failed))
    BY DEF HandlerFails
  <2>2. th' = [th EXCEPT ![w].pc = "release",
                   ![w].out = IF kind = "fail" THEN "failed" ELSE "timeout",
                   ![w].rs = IF th[w].rs.action = "UPDATE" /\ kind = "fail" THEN claimed ELSE failed]
    BY DEF HandlerFails
  <2> HIDE DEF failed, claimed
  <2> DEFINE out == IF kind = "fail" THEN "failed" ELSE "timeout"
             rs == IF th[w].rs.action = "UPDATE" /\ kind = "fail" THEN claimed ELSE failed
  <2>3. out \in {"failed", "timeout"} /\ rs \in {failed, claimed}
    OBVIOUS
  <2>4. th' = [th EXCEPT ![w] = [th[w] EXCEPT !.pc = "release", !.out = out, !.rs = rs]]
    BY <2>2, TypeParts
  <2> HIDE DEF out, rs
  <2> QED
    BY <2>1, <2>3, <2>4
<1> HIDE DEF failed, claimed
<1>4. PICK rs \in {failed, claimed}, out \in {"failed", "timeout"} :
         th' = [th EXCEPT ![w] = [th[w] EXCEPT !.pc = "release", !.out = out, !.rs = rs]]
  BY <1>3
<1>5. [th[w] EXCEPT !.pc = "release", !.out = out, !.rs = rs]
      = [th[w] EXCEPT !.rs = rs, !.out = out, !.pc = "release"]
  <2>1. th[w] \in ThreadStates
    BY TypeParts
  <2> QED
    BY <2>1 DEF ThreadStates
<1>6. ThreadsTyped'
  <2>1. Growing /\ rs \in Rows'
    BY <1>1, <1>2, NothingAdded
  <2>2. out \in {"none", "done", "replace", "failed", "timeout"} /\ out # "none"
    OBVIOUS
  <2>3. th' = [th EXCEPT ![w] = [th[w] EXCEPT !.rs = rs, !.out = out, !.pc = "release"]]
    BY <1>4, <1>5, Zenon
  <2> QED
    BY <1>1, <1>2, <2>1, <2>2, <2>3, WithResource, Zenon
<1>7. phys' \subseteq Ids /\ rsrc' \in [DOMAIN rsrc' -> Rows] /\ DOMAIN rsrc' = DOMAIN rsrc
  BY <1>2, <1>3, WriteRowTyped DEF TypeOK
<1>8. faults' \in 0 .. MaxFaults
  BY <1>1, ConvergenceAssumption DEF TypeOK
<1>9. StoreOK'
  BY <1>1, <1>7, <1>8, TypesStay DEF StoreOK, TypeOK
<1> QED
  BY <1>6, <1>9, TypesTogether

\* Destroy keeps the types.
LEMMA DestroyTyped ==
    ASSUME TypeOK, NEW w \in Threads, Destroy(w)
    PROVE  TypeOK'
<1> DEFINE r == th[w].rs.replaced_by
           left == Restrict(rsrc, DOMAIN rsrc \ {th[w].msg.id})
           row == [Bumped(left[r]) EXCEPT !.replaces = None]
<1>1. /\ UNCHANGED <<stack, nextId, nextTrav, sp, casts, phys, dead, faults>>
      /\ th[w].pc = "destroy" /\ Goto(w, "propagate")
      /\ rsrc' = left \/ (r \in DOMAIN left /\ rsrc' = [left EXCEPT ![r] = row])
  BY DEF Destroy, At
<1>2. ThreadsTyped'
  BY <1>1, NothingAdded, GotoTyped DEF Pcs, Checks
<1>3. left \in [DOMAIN left -> Rows] /\ DOMAIN left \subseteq Ids
  BY DEF TypeOK, Restrict
<1> HIDE DEF left
<1>4. ASSUME r \in DOMAIN left PROVE row \in Rows
  <2>1. Bumped(left[r]) \in Rows
    BY <1>3, <1>4, RowField
  <2>2. None \in Ids \cup {None}
    OBVIOUS
  <2> QED
    BY <2>1, <2>2, RowField
<1> HIDE DEF row, r
<1>5. rsrc' \in [DOMAIN rsrc' -> Rows] /\ DOMAIN rsrc' \subseteq Ids
  BY <1>1, <1>3, <1>4
<1>6. StoreOK'
  BY <1>1, <1>5, TypesStay DEF StoreOK, TypeOK
<1> QED
  BY <1>2, <1>6, TypesTogether

\* Release keeps the types.
LEMMA ReleaseTyped ==
    ASSUME TypeOK, NEW w \in Threads, Release(w)
    PROVE  TypeOK'
<1> DEFINE id == th[w].msg.id
           row == [Bumped(rsrc[id]) EXCEPT !.engine = None, !.tmpl = th[w].rs.tmpl,
                                           !.requires = th[w].rs.requires]
           next == CASE th[w].out = "done" -> "propagate"
                     [] th[w].out = "replace" -> "replace"
                     [] th[w].out = "failed" -> "fail"
                     [] th[w].out = "timeout" -> "reload"
<1>1. /\ UNCHANGED <<stack, nextId, nextTrav, sp, casts, phys, dead, faults>>
      /\ th[w].pc = "release"
      /\ Return(w) \/ Goto(w, next)
      /\ UNCHANGED rsrc \/ (id \in DOMAIN rsrc /\ rsrc' = [rsrc EXCEPT ![id] = row])
  BY DEF Release, At
<1>2. /\ th[w].pc \in Checks /\ th[w].rs \in Rows
      /\ th[w].out \in {"done", "replace", "failed", "timeout"}
  BY <1>1, ThreadFields DEF Checks
<1>3. next \in {"propagate", "replace", "fail", "reload"}
  BY <1>2
<1> HIDE DEF next
<1>4. ThreadsTyped'
  <2>1. next \in Pcs /\ next # "release"
    BY <1>3 DEF Pcs, Checks
  <2> QED
    BY <1>1, <1>2, <2>1, NothingAdded, GotoTyped, ReturnTyped
<1>5. ASSUME id \in DOMAIN rsrc PROVE row \in Rows
  <2> DEFINE y1 == [Bumped(rsrc[id]) EXCEPT !.engine = None]
             y2 == [y1 EXCEPT !.tmpl = th[w].rs.tmpl]
  <2>1. y1 \in Rows
    BY <1>5, RowField DEF TypeOK
  <2>2. th[w].rs.tmpl \in Tmpls /\ th[w].rs.requires \in SUBSET Ids
    BY <1>2 DEF Rows
  <2>3. row = [y2 EXCEPT !.requires = th[w].rs.requires]
    OBVIOUS
  <2> HIDE DEF y1, row
  <2>4. y2 \in Rows
    BY <2>1, <2>2, RowField
  <2> HIDE DEF y2
  <2> QED
    BY <2>2, <2>3, <2>4, RowField
<1> HIDE DEF row
<1>6. rsrc' \in [DOMAIN rsrc' -> Rows] /\ DOMAIN rsrc' = DOMAIN rsrc
  BY <1>1, <1>5 DEF TypeOK
<1>7. StoreOK'
  BY <1>1, <1>6, TypesStay DEF StoreOK, TypeOK
<1> QED
  BY <1>4, <1>7, TypesTogether

\* Replace keeps the types.
LEMMA ReplaceTyped ==
    ASSUME TypeOK, NEW w \in Threads, Replace(w)
    PROVE  TypeOK'
<1> DEFINE id == th[w].msg.id
           new == NewRow(th[w].rs.name, th[w].st.tmpl, th[w].rs.requires, id)
           replaced == [rsrc[id] EXCEPT !.status = "COMPLETE", !.replaced_by = nextId]
           cast == Cast(nextId, th[w].msg.trav, TRUE, th[w].msg.data)
<1>1. /\ UNCHANGED <<stack, nextTrav, sp, phys, dead, faults>>
      /\ nextId' = nextId + 1 /\ At(w, "replace") /\ Return(w)
      /\ rsrc' = [i \in DOMAIN rsrc \cup {nextId} |->
                    IF i = nextId THEN new ELSE IF i = id THEN replaced ELSE rsrc[i]]
      /\ casts' = IF id \in DOMAIN rsrc THEN casts \cup {cast} ELSE casts
  BY DEF Replace
<1> HIDE DEF new, replaced, cast
<1>2. Growing /\ nextId \in Ids' /\ nextId \notin DOMAIN rsrc
  <2>1. nextId \in Nat \ {0} /\ nextTrav \in Nat \ {0} /\ DOMAIN rsrc \subseteq 1 .. (nextId - 1)
    BY DEF TypeOK, Ids
  <2>2. nextId' = nextId + 1 /\ nextTrav' = nextTrav
    BY <1>1
  <2> QED
    BY <2>1, <2>2 DEF Growing, Ids
<1>3. th[w].msg \in Msgs' /\ th[w].rs \in Rows' /\ th[w].st \in Stacks' /\ id \in Ids'
  <2>1. th[w].pc \in Checks
    BY <1>1 DEF At, Checks
  <2>2. th[w].msg \in Msgs /\ th[w].rs \in Rows /\ th[w].st \in Stacks
    BY <2>1, ThreadFields
  <2>3. th[w].msg \in Msgs' /\ th[w].rs \in Rows' /\ th[w].st \in Stacks'
    BY <1>2, <2>2, TypesGrow
  <2> QED
    BY <2>3 DEF Msgs
<1>4. ThreadsTyped'
  BY <1>1, <1>2, ReturnTyped
<1>5. new \in Rows'
  <2>1. /\ th[w].rs.name \in Names /\ th[w].st.tmpl \in Tmpls
        /\ th[w].rs.requires \in SUBSET Ids' /\ id \in Ids' \cup {None}
    BY <1>3 DEF Rows, Stacks
  <2> QED
    BY <2>1 DEF NewRow, Rows, Actions, Statuses, new
<1>6. cast \in Msgs'
  <2>1. th[w].msg.trav \in Travs' /\ th[w].msg.data \in Data'
    BY <1>3 DEF Msgs
  <2> QED
    BY <1>2, <2>1 DEF Msgs, Cast, cast
<1>7. \A i \in DOMAIN rsrc : rsrc[i] \in Rows'
  BY <1>2, TypesGrow DEF TypeOK
<1>8. rsrc' \in [DOMAIN rsrc' -> Rows'] /\ DOMAIN rsrc' \subseteq Ids'
  <2>1. DOMAIN rsrc \cup {nextId} \subseteq Ids'
    BY <1>2, TypesGrow DEF TypeOK
  <2>2. ASSUME id \in DOMAIN rsrc PROVE replaced \in Rows'
    <3> DEFINE y == [rsrc[id] EXCEPT !.status = "COMPLETE"]
    <3>1. y \in Rows'
      BY <1>7, <2>2 DEF Rows, Statuses
    <3>2. replaced = [y EXCEPT !.replaced_by = nextId]
      BY DEF replaced
    <3> HIDE DEF y
    <3> QED
      BY <1>2, <3>1, <3>2 DEF Rows
  <2> DEFINE f(i) == IF i = nextId THEN new ELSE IF i = id THEN replaced ELSE rsrc[i]
  <2>3. \A i \in DOMAIN rsrc \cup {nextId} : f(i) \in Rows'
    BY <1>5, <1>7, <2>2
  <2>5. rsrc' = [i \in DOMAIN rsrc \cup {nextId} |-> f(i)]
    BY <1>1
  <2> HIDE DEF f
  <2>4. rsrc' \in [DOMAIN rsrc \cup {nextId} -> Rows']
    BY <2>3, <2>5
  <2> QED
    BY <2>1, <2>4
<1>9. casts' \subseteq Msgs'
  BY <1>1, <1>2, <1>6, TypesGrow DEF TypeOK
<1>10. StoreOK'
  BY <1>1, <1>2, <1>8, <1>9, TypesGrow DEF StoreOK, TypeOK, Growing
<1> QED
  BY <1>4, <1>10, TypesTogether

\* TrySteal keeps the types.
LEMMA TryStealTyped ==
    ASSUME TypeOK, NEW w \in Threads, TrySteal(w)
    PROVE  TypeOK'
<1>1. /\ UNCHANGED <<stack, rsrc, nextId, nextTrav, sp, casts, phys, dead, faults>>
      /\ th[w].pc = "in_progress" /\ (Goto(w, "steal") \/ Return(w))
  BY DEF TrySteal, At, db
<1>2. ThreadsTyped'
  BY <1>1, NothingAdded, GotoTyped, ReturnTyped DEF Pcs, Checks
<1>3. StoreOK'
  BY <1>1, TypesStay DEF StoreOK, TypeOK
<1> QED
  BY <1>2, <1>3, TypesTogether

\* Steal keeps the types.
LEMMA StealTyped ==
    ASSUME TypeOK, NEW w \in Threads, Steal(w)
    PROVE  TypeOK'
<1> DEFINE id == th[w].msg.id
<1>1. /\ UNCHANGED <<stack, nextId, nextTrav, sp, casts, phys, dead, faults>>
      /\ th[w].pc = "steal" /\ (Goto(w, "mark_failed") \/ Return(w))
      /\ UNCHANGED rsrc \/ (id \in DOMAIN rsrc /\ rsrc' = [rsrc EXCEPT ![id] = [rsrc[id] EXCEPT !.engine = None]])
  BY DEF Steal, At, TypeOK
<1>2. ThreadsTyped'
  BY <1>1, NothingAdded, GotoTyped, ReturnTyped DEF Pcs, Checks
<1>3. rsrc' \in [DOMAIN rsrc' -> Rows] /\ DOMAIN rsrc' = DOMAIN rsrc
  <2>1. ASSUME id \in DOMAIN rsrc PROVE [rsrc[id] EXCEPT !.engine = None] \in Rows
    BY <2>1, RowField DEF TypeOK
  <2> QED
    BY <1>1, <2>1 DEF TypeOK
<1>4. StoreOK'
  BY <1>1, <1>3, TypesStay DEF StoreOK, TypeOK
<1> QED
  BY <1>2, <1>4, TypesTogether

\* MarkFailed keeps the types.
LEMMA MarkFailedTyped ==
    ASSUME TypeOK, NEW w \in Threads, MarkFailed(w)
    PROVE  TypeOK'
<1> DEFINE rs == [th[w].rs EXCEPT !.status = "FAILED"]
<1>1. /\ UNCHANGED <<stack, nextId, nextTrav, sp, phys, dead, faults>>
      /\ th[w].pc = "mark_failed" /\ Return(w) /\ WriteRow(th[w].msg.id, Stored(w, rs))
      /\ casts' = casts \cup {th[w].msg}
  BY DEF MarkFailed, At
<1>2. th[w].msg \in Msgs /\ th[w].rs \in Rows
  BY <1>1, ThreadFields DEF Checks
<1>3. rs \in Rows
  BY <1>2, RowField DEF Statuses
<1> HIDE DEF rs
<1>4. ThreadsTyped'
  BY <1>1, NothingAdded, ReturnTyped
<1>5. rsrc' \in [DOMAIN rsrc' -> Rows] /\ DOMAIN rsrc' = DOMAIN rsrc
  BY <1>1, <1>3, WriteRowTyped
<1>6. StoreOK'
  BY <1>1, <1>2, <1>5, TypesStay DEF StoreOK, TypeOK
<1> QED
  BY <1>4, <1>6, TypesTogether

\* HandleFailure keeps the types.
LEMMA HandleFailureTyped ==
    ASSUME TypeOK, NEW w \in Threads, HandleFailure(w)
    PROVE  TypeOK'
<1> DEFINE st == [th[w].st EXCEPT !.status = "FAILED"]
<1>1. /\ UNCHANGED <<rsrc, nextId, nextTrav, sp, casts, phys, dead, faults>>
      /\ StateSet(st)
      /\ \/ \E pc \in {"rollback", "purge"} : th' = [th EXCEPT ![w].st = st, ![w].pc = pc]
         \/ Goto(w, "retrigger") \/ Return(w)
  BY DEF HandleFailure
<1>2. st \in Stacks
  BY ThreadFields, StackField DEF Statuses
<1> HIDE DEF st
<1>3. stack' \in Stacks
  BY <1>1, <1>2, StackWritten DEF TypeOK
<1>4. ThreadsTyped'
  <2>1. st \in Stacks' /\ Growing
    BY <1>1, <1>2, NothingAdded
  <2>2. ASSUME NEW pc \in {"rollback", "purge"}, th' = [th EXCEPT ![w].st = st, ![w].pc = pc]
        PROVE  ThreadsTyped'
    BY <2>1, <2>2, WithStack, PcsOf
  <2> QED
    BY <1>1, <2>1, <2>2, GotoTyped, ReturnTyped, PcsOf
<1>5. StoreOK'
  BY <1>1, <1>3, TypesStay DEF StoreOK, TypeOK
<1> QED
  BY <1>4, <1>5, TypesTogether

\* ReloadAfterTimeout keeps the types.
LEMMA ReloadAfterTimeoutTyped ==
    ASSUME TypeOK, NEW w \in Threads, ReloadAfterTimeout(w)
    PROVE  TypeOK'
<1>1. /\ UNCHANGED <<stack, rsrc, nextId, nextTrav, sp, casts, phys, dead, faults>>
      /\ th' = [th EXCEPT ![w].st = stack, ![w].pc = "fail"] \/ Return(w)
  BY DEF ReloadAfterTimeout, db
<1>2. ThreadsTyped'
  <2>1. Growing /\ stack \in Stacks' /\ "fail" \in Pcs \ Checks
    BY <1>1, NothingAdded, PcsOf DEF TypeOK
  <2> QED
    BY <1>1, <2>1, WithStack, ReturnTyped
<1>3. StoreOK'
  BY <1>1, TypesStay DEF StoreOK, TypeOK
<1> QED
  BY <1>2, <1>3, TypesTogether

\* What a merge leaves.
LEMMA MergeTyped ==
    ASSUME NEW d \in Data, NEW key \in Nodes, NEW v \in Ids \cup {None}
    PROVE  merge(d, key, v) \in Data
  BY DEF merge, Data

\* What a report leaves of the sync points.
LEMMA RetriggerTyped ==
    ASSUME TypeOK, NEW w \in Threads, Retrigger(w)
    PROVE  TypeOK'
<1> DEFINE own == <<th[w].msg.id, th[w].msg.upd>>
           key == IF th[w].msg.upd /\ own \notin stack.deps.nodes
                  THEN <<th[w].msg.id, FALSE>> ELSE own
           due == /\ stack.live /\ stack.trav # th[w].msg.trav
                  /\ key \in stack.deps.nodes
                  /\ stack.trav \in DOMAIN sp
                  /\ key \in DOMAIN sp[stack.trav]
           data == merge(sp[stack.trav][key], key, None)
           cast == Cast(key[1], stack.trav, key[2], data)
<1>1. /\ UNCHANGED <<stack, rsrc, nextId, nextTrav, phys, dead, faults>>
      /\ Return(w)
      /\ \/ /\ due /\ sp' = [sp EXCEPT ![stack.trav][key] = data]
            /\ casts' \in {casts, casts \cup {cast}}
         \/ UNCHANGED <<sp, casts>>
  BY DEF Retrigger
<1>2. ASSUME due
      PROVE  /\ key \in Nodes /\ data \in Data /\ cast \in Msgs
             /\ sp[stack.trav] \in [DOMAIN sp[stack.trav] -> Data]
  <2>1. /\ key \in stack.deps.nodes /\ stack.trav \in DOMAIN sp
        /\ key \in DOMAIN sp[stack.trav]
    BY <1>2
  <2> HIDE DEF key
  <2>2. key \in Nodes /\ stack.trav \in Travs /\ sp[stack.trav] \in [DOMAIN sp[stack.trav] -> Data]
    BY <2>1 DEF TypeOK, Stacks, Graphs
  <2>3. sp[stack.trav][key] \in Data
    BY <2>1, <2>2
  <2>4. data \in Data
    BY <2>2, <2>3, MergeTyped
  <2> HIDE DEF data
  <2>5. cast \in Msgs
    BY <2>2, <2>4, CastTyped DEF Nodes
  <2> QED
    BY <2>2, <2>4, <2>5
<1> HIDE DEF data, cast, key
<1>3. ThreadsTyped'
  BY <1>1, NothingAdded, ReturnTyped
<1>4. casts' \subseteq Msgs
  BY <1>1, <1>2 DEF TypeOK
<1>5. /\ DOMAIN sp' \subseteq Travs
      /\ \A t \in DOMAIN sp' : /\ sp'[t] \in [DOMAIN sp'[t] -> Data]
                               /\ StackNode \in DOMAIN sp'[t]
                               /\ DOMAIN sp'[t] \subseteq Nodes \cup {StackNode}
  <2>1. ASSUME due, sp' = [sp EXCEPT ![stack.trav][key] = data]
        PROVE  /\ DOMAIN sp' = DOMAIN sp
               /\ \A t \in DOMAIN sp : t # stack.trav => sp'[t] = sp[t]
               /\ sp'[stack.trav] = [sp[stack.trav] EXCEPT ![key] = data]
    BY <2>1
  <2>2. ASSUME due PROVE [sp[stack.trav] EXCEPT ![key] = data] \in [DOMAIN sp[stack.trav] -> Data]
    BY <1>2, <2>2
  <2>3. ASSUME due, sp' = [sp EXCEPT ![stack.trav][key] = data]
        PROVE  sp'[stack.trav] \in [DOMAIN sp[stack.trav] -> Data]
               /\ DOMAIN sp'[stack.trav] = DOMAIN sp[stack.trav]
    BY <2>1, <2>2, <2>3
  <2> QED
    BY <1>1, <2>1, <2>3 DEF TypeOK
<1>6. StoreOK'
  BY <1>1, <1>4, <1>5, TypesStay DEF StoreOK, TypeOK
<1> QED
  BY <1>3, <1>6, TypesTogether

\* Propagate keeps the types.
LEMMA PropagateTyped ==
    ASSUME TypeOK, NEW w \in Threads, ThreadOK(th[w], stack, sp), Propagate(w)
    PROVE  TypeOK'
<1> DEFINE g == th[w].st.deps
           key == graph_key(w)
           next == required_by(g, key)
           targets == next \cup (IF stack_sender(w) \in roots(g) THEN {StackNode} ELSE {})
           points == sp[th[w].msg.trav]
           data(n) == merge(points[n],
                         IF n = StackNode THEN stack_sender(w) ELSE key,
                         IF n[2] /\ n # StackNode THEN th[w].msg.id ELSE None)
           ready == {n \in next : graphPreds(g, n) \subseteq senders(data(n))}
           report == [n \in DOMAIN points |-> IF n \in targets THEN data(n) ELSE points[n]]
           news == {Cast(n[1], th[w].msg.trav, n[2], data(n)) : n \in ready}
<1>1. /\ UNCHANGED <<stack, rsrc, nextId, nextTrav, phys, dead, faults>>
      /\ th[w].pc = "propagate"
      /\ Return(w) \/ Goto(w, "retrigger") \/ Goto(w, "complete")
      /\ \/ UNCHANGED <<sp, casts>>
         \/ /\ key \in g.nodes /\ th[w].msg.trav \in DOMAIN sp
            /\ sp' = [sp EXCEPT ![th[w].msg.trav] = report]
            /\ casts' = casts \cup news
  BY DEF Propagate, At
<1>2. th[w].msg \in Msgs /\ th[w].st \in Stacks /\ g \in Graphs
  <2>1. th[w].msg \in Msgs /\ th[w].st \in Stacks
    BY <1>1, ThreadFields DEF Checks
  <2> QED
    BY <2>1 DEF Stacks
<1>3. stack_sender(w) \in Nodes /\ th[w].msg.id \in Ids /\ th[w].msg.trav \in Travs
  BY <1>2 DEF Msgs, stack_sender, Nodes
<1>4. ASSUME key \in g.nodes, th[w].msg.trav \in DOMAIN sp
      PROVE  /\ DOMAIN report = DOMAIN points /\ report \in [DOMAIN points -> Data]
             /\ news \subseteq Msgs
  <2>1. points \in [DOMAIN points -> Data]
    BY <1>4 DEF TypeOK
  <2>2. key \in Nodes
    BY <1>2, <1>4 DEF Graphs
  <2>3. DOMAIN points = g.nodes \cup {StackNode}
    BY <1>1, <1>4 DEF ThreadOK, PointsMatch, ChecksOwn, UsesGraph, Checks
  <2>4. next \subseteq g.nodes /\ g.nodes \subseteq Nodes
    BY <1>2 DEF Graphs, required_by
  <2> HIDE DEF points, key, g
  <2>5. \A n \in DOMAIN points : data(n) \in Data
    BY <1>3, <2>1, <2>2, MergeTyped
  <2>6. ready \subseteq next
    OBVIOUS
  <2> HIDE DEF data, ready, next, targets
  <2>7. \A n \in ready : Cast(n[1], th[w].msg.trav, n[2], data(n)) \in Msgs
    <3> SUFFICES ASSUME NEW n \in ready PROVE Cast(n[1], th[w].msg.trav, n[2], data(n)) \in Msgs
      OBVIOUS
    <3>1. n \in Nodes /\ data(n) \in Data
      BY <2>3, <2>4, <2>5, <2>6
    <3>2. n[1] \in Ids /\ n[2] \in BOOLEAN
      BY <3>1 DEF Nodes
    <3> QED
      BY <1>3, <3>1, <3>2, CastTyped
  <2> QED
    BY <2>1, <2>5, <2>7
<1> HIDE DEF report, news, key, g
<1>5. ThreadsTyped'
  BY <1>1, NothingAdded, GotoTyped, ReturnTyped, PcsOf
<1>6. casts' \subseteq Msgs
  BY <1>1, <1>4 DEF TypeOK
<1>7. /\ DOMAIN sp' \subseteq Travs
      /\ \A t \in DOMAIN sp' : /\ sp'[t] \in [DOMAIN sp'[t] -> Data]
                               /\ StackNode \in DOMAIN sp'[t]
                               /\ DOMAIN sp'[t] \subseteq Nodes \cup {StackNode}
  BY <1>1, <1>4 DEF TypeOK
<1>8. StoreOK'
  BY <1>1, <1>6, <1>7, TypesStay DEF StoreOK, TypeOK
<1> QED
  BY <1>5, <1>8, TypesTogether

\* Crash keeps the types.
LEMMA CrashTyped ==
    ASSUME TypeOK, NEW e \in Engines, Crash(e)
    PROVE  TypeOK'
<1> DEFINE x == [Idle EXCEPT !.pc = "crashed"]
<1>1. /\ UNCHANGED <<stack, rsrc, nextId, nextTrav, sp, casts, phys>>
      /\ dead' = dead \cup {e} /\ faults < MaxFaults /\ faults' = faults + 1
      /\ th' = [w \in Threads |-> IF Engine[w] = e THEN x ELSE th[w]]
  BY DEF Crash, Fault, db
<1>2. x \in ThreadStates /\ CheckOK(x)
  BY IdleTyped DEF TypeOK
<1> HIDE DEF x
<1>3. ThreadsTyped'
  BY <1>1, <1>2, NothingAdded, TypeParts DEF ThreadsTyped
<1>4. faults' \in 0 .. MaxFaults
  BY <1>1, ConvergenceAssumption DEF TypeOK
<1>5. StoreOK'
  BY <1>1, <1>4, TypesStay DEF StoreOK, TypeOK
<1> QED
  BY <1>3, <1>5, TypesTogether

\* The state in which the first thread is about to create the stack.
LEMMA TypesInitially == Init => TypeOK
<1> SUFFICES ASSUME Init PROVE TypeOK
  OBVIOUS
<1> DEFINE st == [NoStack EXCEPT !.live = TRUE, !.tmpl = Op[Creator].tmpl]
           x == [Idle EXCEPT !.pc = "store1", !.st = stack, !.goal = Op[Creator]]
           y(w) == [Idle EXCEPT !.pc = "store1", !.st = stack, !.goal = Op[w]]
<1>1. /\ stack = st /\ rsrc = << >> /\ nextId = 1 /\ nextTrav = 1 /\ sp = << >>
      /\ casts = {} /\ phys = {} /\ dead = {} /\ faults = 0
      /\ th = [w \in Threads |-> IF w = Creator THEN y(w) ELSE Idle]
  BY Zenon DEF Init
<1>10. y(Creator) = x
  OBVIOUS
<1>2. Op[Creator] \in [action : Actions \ {"INIT"}, tmpl : Tmpls] /\ MaxFaults \in Nat
  BY ConvergenceAssumption DEF Actions
<1> HIDE DEF st, x, y
<1>3. Idle \in ThreadStates /\ NoStack \in Stacks
  BY <1>1, IdleTyped
<1>4. stack \in Stacks
  <2>1. st \in Stacks
    BY <1>2, <1>3 DEF Stacks, st
  <2> QED
    BY <1>1, <2>1
<1>5. x \in ThreadStates /\ x.pc = "store1"
  BY <1>2, <1>3, <1>4 DEF ThreadStates, Pcs, x
<1>6. Idle.pc = "idle"
  BY DEF Idle
<1>7. th \in [Threads -> ThreadStates] /\ \A w \in Threads : CheckOK(th[w])
  BY <1>1, <1>10, <1>3, <1>5, <1>6 DEF CheckOK, Checks
<1>8. << >> = [i \in {} |-> i]
  OBVIOUS
<1>9. StoreOK
  BY <1>1, <1>2, <1>4, <1>8 DEF StoreOK
<1> QED
  BY <1>7, <1>9, TypeParts

\* Types are kept by every step, as long as the sync points match the graph.
LEMMA TypesKept ==
    ASSUME TypeOK, \A w \in Threads : ThreadOK(th[w], stack, sp), [Next]_vars
    PROVE  TypeOK'
<1>1. CASE UNCHANGED vars
  BY <1>1, NothingAdded, TypesStay DEF vars, TypeOK
<1>2. ASSUME NEW o \in Ops, Request(o) PROVE TypeOK'
  BY <1>2, RequestTyped
<1>3. ASSUME NEW w \in Threads, ConvergeStep(w) PROVE TypeOK'
  BY <1>3, StoreTraversalTyped, DeletePrevSyncPointsTyped, UpdateOrStoreResourcesTyped, StoreDepsTyped,
     TriggerLeavesTyped, RollbackTyped, MarkCompleteTyped, PurgeTemplateTyped, PurgeSyncPointsTyped
     DEF ConvergeStep
<1>4. ASSUME NEW w \in Threads, CheckStep(w) PROVE TypeOK'
  BY <1>4, AcquireReadTyped, AcquireTyped, BeginTyped, HandlerDoneTyped, HandlerFailsTyped, DestroyTyped,
     ReleaseTyped, ReplaceTyped, TryStealTyped, StealTyped, MarkFailedTyped, HandleFailureTyped,
     ReloadAfterTimeoutTyped, RetriggerTyped, PropagateTyped
     DEF CheckStep
<1>5. ASSUME NEW w \in Workers, NEW m \in casts, Receive(w, m) \/ ReceiveLate(w, m) PROVE TypeOK'
  BY <1>5, ReceiveTyped, ReceiveLateTyped
<1>6. ASSUME NEW e \in Engines, Crash(e) PROVE TypeOK'
  BY <1>6, CrashTyped
<1> QED
  BY <1>1, <1>2, <1>3, <1>4, <1>5, <1>6 DEF Next
-----------------------------------------------------------------------------
(* Steps and traversals.                                                     *)

\* Two states of a thread with the same message, stack, goal and old traversal.
SameObjects(x, y) == x.st = y.st /\ x.msg = y.msg /\ x.goal = y.goal /\ x.old = y.old

\* Where a thread is after Goto and after Return.
LEMMA GoneTo ==
    ASSUME TypeOK, NEW w \in Threads, NEW pc \in Pcs, Goto(w, pc)
    PROVE  \E x : th' = [th EXCEPT ![w] = x] /\ x.pc = pc /\ SameObjects(x, th[w])
<1> DEFINE x == [th[w] EXCEPT !.pc = pc]
<1>1. th[w] \in ThreadStates
  BY TypeParts
<1>2. x.pc = pc /\ SameObjects(x, th[w])
  BY <1>1 DEF ThreadStates, SameObjects
<1>3. th' = [th EXCEPT ![w] = x]
  BY TypeParts DEF Goto
<1> HIDE DEF x
<1> QED
  BY <1>2, <1>3

\* A thread that has returned has no message and no stack.
Returned(w, x) ==
    /\ x.pc \in {"idle", "finished"} /\ (w \in Ops => x.pc = "finished")
    /\ x.st = NoStack /\ x.msg = NoMsg

\* That is what Return() leaves.
LEMMA HasReturned ==
    ASSUME NEW w \in Threads, Return(w)
    PROVE  \E x : th' = [th EXCEPT ![w] = x] /\ Returned(w, x)
<1> DEFINE x == [Idle EXCEPT !.pc = IF w \in Ops THEN "finished" ELSE "idle"]
<1>1. th' = [th EXCEPT ![w] = x]
  BY DEF Return
<1>2. Returned(w, x)
  BY DEF Returned, Idle
<1> HIDE DEF x
<1> QED
  BY <1>1, <1>2

\* What the database does to a thread y when its stack becomes s2 and its sync
\* points p2: the traversal of y keeps its operation, its graph and its nodes,
\* and does not go back to be in progress.
Agrees(y, s, p, s2, p2) ==
    /\ y.st.trav = s2.trav =>
          /\ y.st.trav = s.trav /\ s2.action = s.action
          /\ y.pc # "store1" =>
                /\ s2.deps = s.deps
                /\ s2.status = "IN_PROGRESS" /\ Earned(s, p) => Earned(s2, p2)
          /\ y.pc # "store1" \/ RollbackDue(y) =>
                (s2.status = "IN_PROGRESS" => s.status = "IN_PROGRESS")
    /\ y.pc # "store1" /\ y.st.trav \in DOMAIN p2 =>
          y.st.trav \in DOMAIN p /\ DOMAIN p2[y.st.trav] = DOMAIN p[y.st.trav]

\* A thread keeps what holds of it when the database changes under it in such a way.
LEMMA OthersKeep ==
    ASSUME NEW y, NEW s, NEW p, NEW s2, NEW p2,
           ThreadOK(y, s, p), Agrees(y, s, p, s2, p2)
    PROVE  ThreadOK(y, s2, p2)
<1>1. OneAction(y, s2) /\ DeletionStays(y) /\ ChecksOwn(y)
  BY DEF ThreadOK, Agrees, OneAction
<1>2. UsesGraph(y) => y.pc # "store1"
  BY DEF UsesGraph, Checks
<1>3. GraphAgrees(y, s2) /\ (UsesGraph(y) => PointsMatch(y.st, p2))
  BY <1>2 DEF ThreadOK, Agrees, GraphAgrees, PointsMatch
<1>4. EndIsStored(y, s2)
  BY DEF ThreadOK, Agrees, EndIsStored, RollbackDue
<1>5. HasEarned(y, s2, p2)
  BY DEF ThreadOK, Agrees, HasEarned
<1> QED
  BY <1>1, <1>3, <1>4, <1>5 DEF ThreadOK

\* What a step of w does to the database is fine with the other threads.
DatabaseKeeps(w) ==
    /\ stack.trav <= stack'.trav /\ (stack'.trav = 0 => stack'.action = "CREATE")
    /\ PointsMatch(stack', sp')
    /\ \A v \in Threads \ {w} :
          /\ Agrees(th[v], stack, sp, stack', sp')
          /\ Launches(th[v]) => /\ th[v].st.trav \notin DOMAIN sp'
                               /\ \A m \in casts' : m.trav # th[v].st.trav

\* The thread w steps to x.
LEMMA StepKeeps ==
    ASSUME TravInv, TypeOK', NEW w \in Threads, NEW x, th' = [th EXCEPT ![w] = x],
           DatabaseKeeps(w), ThreadOK(x, stack', sp'),
           x.pc \in Checks \cup {"fail", "reload", "retrigger"} => w \in Workers,
           w = Creator => x.pc # "idle",
           Launches(x) => /\ Unlaunched(x, stack', sp', casts')
                          /\ \A v \in Threads \ {w} : Apart(th[v], x.st.trav),
           \A v \in Threads \ {w} : Launches(th[v]) => Apart(x, th[v].st.trav)
    PROVE  TravInv'
<1>1. /\ th' \in [Threads -> ThreadStates'] /\ th'[w] = x
      /\ \A v \in Threads \ {w} : th'[v] = th[v]
  BY TypeParts DEF TravInv, TypeOK
<1>2. WorkersCheck' /\ th'[Creator].pc # "idle"
  BY <1>1, ConvergenceAssumption DEF TravInv, WorkersCheck, Threads
<1>3. \A v \in Threads : ThreadOK(th'[v], stack', sp')
  BY <1>1, OthersKeep DEF TravInv, DatabaseKeeps
<1>4. LaunchIsPrivate'
  <2> SUFFICES ASSUME NEW v \in Threads, Launches(th'[v])
               PROVE  /\ Unlaunched(th'[v], stack', sp', casts')
                      /\ \A u \in Threads \ {v} : Apart(th'[u], th'[v].st.trav)
    BY DEF LaunchIsPrivate
  <2>1. CASE v = w
    BY <1>1, <2>1
  <2>2. CASE v # w
    <3>1. Launches(th[v]) /\ th'[v] = th[v]
      BY <1>1, <2>2
    <3>2. /\ Unlaunched(th[v], stack, sp, casts)
          /\ \A u \in Threads \ {v} : Apart(th[u], th[v].st.trav)
      BY <3>1 DEF TravInv, LaunchIsPrivate
    <3>3. th[v].st.trav \in Nat /\ stack.trav \in Nat /\ stack'.trav \in Nat
      BY ThreadFields DEF TravInv, TypeOK, Stacks, Travs
    <3>4. th[v].st.trav <= stack'.trav
      BY <3>2, <3>3 DEF Unlaunched, DatabaseKeeps
    <3>5. Unlaunched(th[v], stack', sp', casts')
      BY <2>2, <3>1, <3>2, <3>4 DEF Unlaunched, DatabaseKeeps
    <3> QED
      BY <1>1, <2>2, <3>1, <3>2, <3>5
  <2> QED
    BY <2>1, <2>2
<1> QED
  BY <1>2, <1>3, <1>4 DEF TravInv, DatabaseKeeps

\* A thread without a stack has nothing to answer for.
LEMMA ReturnedOK ==
    ASSUME NEW w, NEW x, Returned(w, x), NEW s, NEW p, s.trav = 0 => s.action = "CREATE"
    PROVE  /\ ThreadOK(x, s, p) /\ ~Launches(x)
           /\ x.pc \notin Checks \cup {"fail", "reload", "retrigger"}
<1>1. /\ x.pc \notin Checks \cup {"fail", "trigger", "complete", "rollback", "purge", "purge_points",
                                  "store1", "reload", "retrigger", "delete_prev", "resources", "store2"}
      /\ x.st.trav = 0 /\ x.st.action = "CREATE"
  BY DEF Returned, Checks, NoStack
<1> QED
  BY <1>1 DEF ThreadOK, OneAction, DeletionStays, RollbackDue, GraphAgrees, UsesGraph, ChecksOwn,
     EndIsStored,
              HasEarned, Launches

\* A launched traversal has a number above 0.
LEMMA LaunchFacts ==
    ASSUME TravInv, NEW v \in Threads, Launches(th[v])
    PROVE  /\ th[v].st.trav \in Nat \ {0} /\ th[v].st.trav \notin DOMAIN sp
           /\ th[v].st.trav <= stack.trav /\ th[v].old < th[v].st.trav
           /\ th[v].st.status = "IN_PROGRESS"
           /\ \A m \in casts : m.trav # th[v].st.trav
           /\ \A u \in Threads \ {v} : Apart(th[u], th[v].st.trav)
<1>1. th[v].st.trav \in Nat /\ th[v].old \in Nat
  BY ThreadFields DEF TravInv, TypeOK, Stacks, Travs
<1>2. /\ Unlaunched(th[v], stack, sp, casts)
      /\ \A u \in Threads \ {v} : Apart(th[u], th[v].st.trav)
  BY DEF TravInv, LaunchIsPrivate
<1> QED
  BY <1>1, <1>2 DEF Unlaunched

\* The thread w returns.
LEMMA ReturnKeeps ==
    ASSUME TravInv, TypeOK', NEW w \in Threads, Return(w), DatabaseKeeps(w)
    PROVE  TravInv'
<1>1. PICK x : th' = [th EXCEPT ![w] = x] /\ Returned(w, x)
  BY HasReturned
<1>2. /\ ThreadOK(x, stack', sp') /\ ~Launches(x)
      /\ x.pc \notin Checks \cup {"fail", "reload", "retrigger"}
  BY <1>1, ReturnedOK DEF DatabaseKeeps
<1>3. w = Creator => x.pc # "idle"
  BY <1>1, ConvergenceAssumption DEF Returned
<1>4. ASSUME NEW v \in Threads, Launches(th[v]) PROVE Apart(x, th[v].st.trav)
  <2>1. x.msg.trav = 0 /\ x.st.trav = 0
    BY <1>1 DEF Returned, NoMsg, NoStack
  <2> QED
    BY <1>4, <2>1, LaunchFacts DEF Apart
<1> QED
  BY <1>1, <1>2, <1>3, <1>4, StepKeeps

\* Steps that do not write the stack or the sync points, and cast for the
\* traversal of the check only.
Quiet(w) ==
    /\ UNCHANGED <<stack, sp>>
    /\ \A m \in casts' : m \in casts \/ m.trav = th[w].msg.trav
    /\ \/ Return(w)
       \/ \E x : /\ th' = [th EXCEPT ![w] = x] /\ SameObjects(x, th[w])
                 /\ th[w].pc \in Checks
                 /\ x.pc \in Checks \cup {"fail", "reload", "retrigger"}

\* Such steps keep the invariant.
LEMMA QuietKeeps ==
    ASSUME TravInv, TypeOK', NEW w \in Threads, Quiet(w)
    PROVE  TravInv'
<1>1. /\ UNCHANGED <<stack, sp>>
      /\ \A m \in casts' : m \in casts \/ m.trav = th[w].msg.trav
  BY DEF Quiet
<1>2. /\ stack.trav <= stack'.trav /\ (stack'.trav = 0 => stack'.action = "CREATE")
      /\ PointsMatch(stack', sp')
  BY <1>1 DEF TravInv, TypeOK, Stacks, Travs
<1>3. DatabaseKeeps(w)
  <2> SUFFICES ASSUME NEW v \in Threads \ {w}
               PROVE  /\ Agrees(th[v], stack, sp, stack', sp')
                      /\ Launches(th[v]) => /\ th[v].st.trav \notin DOMAIN sp'
                                           /\ \A m \in casts' : m.trav # th[v].st.trav
    BY <1>2 DEF DatabaseKeeps
  <2>1. Agrees(th[v], stack, sp, stack', sp')
    BY <1>1 DEF Agrees
  <2> QED
    BY <1>1, <2>1, LaunchFacts DEF Apart
<1>5. CASE Return(w)
  BY <1>3, <1>5, ReturnKeeps
<1>6. ASSUME NEW x, th' = [th EXCEPT ![w] = x], SameObjects(x, th[w]), th[w].pc \in Checks,
             x.pc \in Checks \cup {"fail", "reload", "retrigger"}
      PROVE  TravInv'
  <2>1. ThreadOK(th[w], stack, sp) /\ UsesGraph(th[w]) /\ th[w].pc # "store1" /\ w \in Workers
    BY <1>6 DEF TravInv, UsesGraph, WorkersCheck, Checks
  <2>2. /\ x.pc \notin {"store1", "rollback", "purge", "purge_points", "complete", "idle",
                        "delete_prev", "resources", "store2", "trigger"}
        /\ x.st = th[w].st /\ x.msg = th[w].msg
    BY <1>6 DEF Checks, SameObjects
  <2>3. ThreadOK(x, stack', sp')
    BY <1>1, <1>6, <2>1, <2>2 DEF ThreadOK, OneAction, DeletionStays, RollbackDue, GraphAgrees,
       ChecksOwn,
                                  EndIsStored, HasEarned
  <2>4. ~Launches(x)
    BY <2>2 DEF Launches
  <2>5. \A v \in Threads \ {w} : Launches(th[v]) => Apart(x, th[v].st.trav)
    BY <2>1, <2>2, LaunchFacts DEF Apart
  <2> QED
    BY <1>3, <1>6, <2>1, <2>2, <2>3, <2>4, <2>5, StepKeeps
<1> QED
  BY <1>5, <1>6 DEF Quiet

\* The steps of a check on its resource.
CheckWorks(w) ==
    \/ AcquireRead(w) \/ Acquire(w) \/ BeginCreate(w) \/ BeginUpdate(w) \/ BeginCleanup(w)
    \/ HandlerDone(w) \/ (\E k \in {"fail", "timeout"} : HandlerFails(w, k))
    \/ Destroy(w) \/ Release(w) \/ Replace(w) \/ TrySteal(w) \/ Steal(w) \/ MarkFailed(w)

\* All of them are such steps.
LEMMA CheckIsQuiet ==
    ASSUME TypeOK, NEW w \in Threads, CheckWorks(w)
    PROVE  Quiet(w)
<1> DEFINE Due == {"fail", "reload", "retrigger"}
           Goes(x) == /\ th' = [th EXCEPT ![w] = x] /\ SameObjects(x, th[w])
                      /\ x.pc \in Checks \cup Due
<1>1. th[w] \in ThreadStates /\ th = [v \in Threads |-> th[v]]
  BY TypeParts
<1>2. /\ UNCHANGED <<stack, sp>> /\ th[w].pc \in Checks
      /\ Replace(w) \/ MarkFailed(w) \/ UNCHANGED casts
  <2> DEFINE fact == /\ UNCHANGED <<stack, sp>> /\ th[w].pc \in Checks
                     /\ Replace(w) \/ MarkFailed(w) \/ UNCHANGED casts
  <2>1. AcquireRead(w) \/ TrySteal(w) => fact
    BY DEF AcquireRead, TrySteal, At, db, Checks
  <2>2. Acquire(w) \/ Steal(w) \/ Release(w) => fact
    BY DEF Acquire, Steal, Release, At, Checks
  <2>3. BeginCreate(w) \/ BeginUpdate(w) \/ BeginCleanup(w) => fact
    BY DEF BeginCreate, BeginUpdate, BeginCleanup, At, Checks
  <2>4. HandlerDone(w) \/ (\E k \in {"fail", "timeout"} : HandlerFails(w, k)) => fact
    BY DEF HandlerDone, HandlerFails, At, Checks
  <2>5. Destroy(w) => fact
    BY DEF Destroy, At, Checks
  <2>6. Replace(w) \/ MarkFailed(w) => fact
    <3>1. Replace(w) \/ MarkFailed(w) => UNCHANGED <<stack, sp>>
      BY DEF Replace, MarkFailed
    <3> QED
      BY <3>1 DEF Replace, MarkFailed, At, Checks
  <2> QED
    BY <2>1, <2>2, <2>3, <2>4, <2>5, <2>6 DEF CheckWorks
<1>3. \A m \in casts' : m \in casts \/ m.trav = th[w].msg.trav
  BY <1>2 DEF Replace, MarkFailed, Cast
<1>4. ASSUME NEW pc \in Checks \cup Due, Goto(w, pc) PROVE \E x : Goes(x)
  <2>1. pc \in Pcs
    BY <1>4 DEF Pcs, Checks
  <2> QED
    BY <1>4, <2>1, GoneTo
<1>5. ASSUME AcquireRead(w) PROVE Return(w) \/ \E x : Goes(x)
  <2> DEFINE x == [th[w] EXCEPT !.key = rsrc[th[w].msg.id].atomic_key, !.pc = "cas"]
  <2>1. Return(w) \/ th' = [th EXCEPT ![w] = x]
    BY <1>1, <1>5 DEF AcquireRead
  <2>2. SameObjects(x, th[w]) /\ x.pc \in Checks
    BY <1>1 DEF ThreadStates, SameObjects, Checks
  <2> HIDE DEF x
  <2> QED
    BY <2>1, <2>2
<1>6. ASSUME Acquire(w) PROVE \E x : Goes(x)
  <2> DEFINE x(pc) == [th[w] EXCEPT !.key = 0, !.pc = pc]
  <2>1. \E pc \in {"begin", "in_progress"} : th' = [th EXCEPT ![w] = x(pc)]
    BY <1>1, <1>6 DEF Acquire
  <2>2. \A pc \in {"begin", "in_progress"} : SameObjects(x(pc), th[w]) /\ x(pc).pc \in Checks
    BY <1>1 DEF ThreadStates, SameObjects, Checks
  <2> HIDE DEF x
  <2> QED
    BY <2>1, <2>2
<1>7. ASSUME NEW rs, NEW out, SkipTo(w, rs, out) PROVE \E x : Goes(x)
  <2> DEFINE x == [th[w] EXCEPT !.rs = rs, !.out = out, !.pc = "release"]
  <2>1. th' = [th EXCEPT ![w] = x]
    BY <1>1, <1>7 DEF SkipTo
  <2>2. SameObjects(x, th[w]) /\ x.pc \in Checks
    BY <1>1 DEF ThreadStates, SameObjects, Checks
  <2> HIDE DEF x
  <2> QED
    BY <2>1, <2>2
<1>8. ASSUME NEW rs, NEW action, StartAction(w, rs, action) PROVE \E x : Goes(x)
  <2> DEFINE rs2 == [rs EXCEPT !.action = action, !.status = "IN_PROGRESS"]
  <2>1. th' = [th EXCEPT ![w].rs = rs2, ![w].pc = "handler"]
    BY <1>8 DEF StartAction
  <2> HIDE DEF rs2
  <2> DEFINE x == [th[w] EXCEPT !.rs = rs2, !.pc = "handler"]
  <2>2. th' = [th EXCEPT ![w] = x]
    BY <1>1, <2>1
  <2>3. SameObjects(x, th[w]) /\ x.pc \in Checks
    BY <1>1 DEF ThreadStates, SameObjects, Checks
  <2> HIDE DEF x
  <2> QED
    BY <2>2, <2>3
<1>9. ASSUME BeginCreate(w) \/ BeginUpdate(w) \/ BeginCleanup(w) PROVE \E x : Goes(x)
  <2>1. Goto(w, "destroy") => \E x : Goes(x)
    BY <1>4 DEF Checks
  <2>2. \/ Goto(w, "destroy") \/ (\E rs, out : SkipTo(w, rs, out))
        \/ \E rs, action : StartAction(w, rs, action)
    BY <1>9, Zenon DEF BeginCreate, BeginUpdate, BeginCleanup
  <2> QED
    BY <1>7, <1>8, <2>1, <2>2
<1>10. ASSUME NEW rs, NEW out, NEW pc \in {"release", "destroy"},
              \/ th' = [th EXCEPT ![w].rs = rs, ![w].out = out, ![w].pc = pc]
              \/ th' = [th EXCEPT ![w].out = out, ![w].pc = pc]
              \/ th' = [th EXCEPT ![w].rs = rs, ![w].pc = pc]
              \/ th' = [th EXCEPT ![w].pc = pc, ![w].out = out, ![w].rs = rs]
       PROVE  \E x : Goes(x)
  <2> DEFINE a == [th[w] EXCEPT !.rs = rs, !.out = out, !.pc = pc]
             b == [th[w] EXCEPT !.out = out, !.pc = pc]
             c == [th[w] EXCEPT !.rs = rs, !.pc = pc]
  <2>1. \E x \in {a, b, c} : th' = [th EXCEPT ![w] = x]
    BY <1>1, <1>10
  <2>3. SameObjects(a, th[w]) /\ a.pc \in Checks
    BY <1>1, <1>10 DEF ThreadStates, SameObjects, Checks
  <2>4. SameObjects(b, th[w]) /\ b.pc \in Checks
    BY <1>1, <1>10 DEF ThreadStates, SameObjects, Checks
  <2>5. SameObjects(c, th[w]) /\ c.pc \in Checks
    BY <1>1, <1>10 DEF ThreadStates, SameObjects, Checks
  <2> HIDE DEF a, b, c
  <2> QED
    BY <2>1, <2>3, <2>4, <2>5
<1>11. ASSUME HandlerDone(w) PROVE \E x : Goes(x)
  <2> DEFINE done == [th[w].rs EXCEPT !.status = "COMPLETE"]
             claimed == [Claimed(w) EXCEPT !.status = "COMPLETE"]
  <2>1. \/ th' = [th EXCEPT ![w].rs = done, ![w].out = "done", ![w].pc = "release"]
        \/ th' = [th EXCEPT ![w].out = "replace", ![w].pc = "release"]
        \/ th' = [th EXCEPT ![w].rs = claimed, ![w].out = "done", ![w].pc = "release"]
        \/ th' = [th EXCEPT ![w].rs = done, ![w].pc = "destroy"]
    BY <1>11, Zenon DEF HandlerDone
  <2> HIDE DEF done, claimed
  <2> QED
    BY <1>10, <2>1, Zenon
<1>12. ASSUME NEW kind, HandlerFails(w, kind) PROVE \E x : Goes(x)
  <2> DEFINE rs == IF th[w].rs.action = "UPDATE" /\ kind = "fail"
                   THEN [Claimed(w) EXCEPT !.status = "FAILED"]
                   ELSE [th[w].rs EXCEPT !.status = "FAILED"]
             out == IF kind = "fail" THEN "failed" ELSE "timeout"
  <2>1. th' = [th EXCEPT ![w].pc = "release", ![w].out = out, ![w].rs = rs]
    BY <1>12, Zenon DEF HandlerFails
  <2> HIDE DEF rs, out
  <2> QED
    BY <1>10, <2>1, Zenon
<1>13. ASSUME Release(w) PROVE Return(w) \/ \E x : Goes(x)
  <2>1. th[w].out \in {"done", "replace", "failed", "timeout"}
    BY <1>13, ThreadFields DEF Release, At
  <2>2. \/ Return(w)
        \/ \E pc \in {"propagate", "replace", "fail", "reload"} : Goto(w, pc)
    BY <1>13, <2>1 DEF Release
  <2> QED
    BY <1>4, <2>2 DEF Checks
<1>14. ASSUME Destroy(w) \/ TrySteal(w) \/ Steal(w) PROVE Return(w) \/ \E x : Goes(x)
  <2>1. Return(w) \/ \E pc \in {"propagate", "steal", "mark_failed"} : Goto(w, pc)
    BY <1>14, Zenon DEF Destroy, TrySteal, Steal
  <2> QED
    BY <1>4, <2>1 DEF Checks
<1>15. Return(w) \/ \E x : Goes(x)
  BY <1>5, <1>6, <1>9, <1>11, <1>12, <1>13, <1>14 DEF CheckWorks, Replace, MarkFailed
<1> QED
  BY <1>2, <1>3, <1>15 DEF Quiet

\* A step that at most ends the operation of the current traversal.
LEMMA EndKeeps ==
    ASSUME TravInv, NEW w \in Threads, UNCHANGED <<sp, casts>>,
           \/ stack' = stack
           \/ /\ stack'.trav = stack.trav /\ stack'.action = stack.action
              /\ stack'.deps = stack.deps /\ stack'.status # "IN_PROGRESS"
    PROVE  DatabaseKeeps(w)
<1>1. /\ stack.trav <= stack'.trav /\ (stack'.trav = 0 => stack'.action = "CREATE")
      /\ PointsMatch(stack', sp')
  BY DEF TravInv, TypeOK, Stacks, Travs, PointsMatch
<1>2. ASSUME NEW v \in Threads \ {w}
      PROVE  /\ Agrees(th[v], stack, sp, stack', sp')
             /\ Launches(th[v]) => /\ th[v].st.trav \notin DOMAIN sp'
                                  /\ \A m \in casts' : m.trav # th[v].st.trav
  BY LaunchFacts DEF Agrees, Earned
<1> QED
  BY <1>1, <1>2 DEF DatabaseKeeps

\* Request keeps what holds of traversals.
LEMMA RequestKeeps ==
    ASSUME TravInv, TypeOK', NEW o \in Ops, Request(o)
    PROVE  TravInv'
<1>1. UNCHANGED <<stack, sp, casts>> /\ th[o].pc = "idle" /\ o \in Threads
  BY DEF Request, At, db, Threads
<1>2. DatabaseKeeps(o)
  BY <1>1, EndKeeps
<1>3. CASE Return(o)
  BY <1>1, <1>2, <1>3, ReturnKeeps
<1> DEFINE x == [Idle EXCEPT !.pc = "store1", !.st = stack, !.goal = Op[o]]
<1>4. CASE th' = [th EXCEPT ![o] = x] /\ (Op[o].action = "UPDATE" => updatable)
  <2>1. x.pc = "store1" /\ x.st = stack /\ x.goal = Op[o] /\ x.msg = NoMsg
    BY DEF Idle
  <2>2. Op[o].action \in {"UPDATE", "DELETE"}
    <3>1. o # Creator
      BY <1>1 DEF TravInv
    <3> QED
      BY <3>1, ConvergenceAssumption
  <2> HIDE DEF x
  <2>3. DeletionStays(x)
    BY <1>4, <2>1, <2>2 DEF DeletionStays, RollbackDue, updatable
  <2>4. ThreadOK(x, stack', sp')
    BY <1>1, <2>1, <2>2, <2>3 DEF ThreadOK, OneAction, GraphAgrees, UsesGraph, ChecksOwn,
                                  EndIsStored, RollbackDue, HasEarned, Checks
  <2>5. ~Launches(x) /\ x.pc \notin Checks \cup {"fail", "reload", "retrigger"} /\ x.pc # "idle"
    BY <2>1 DEF Launches, Checks
  <2>6. \A v \in Threads \ {o} : Launches(th[v]) => Apart(x, th[v].st.trav)
    BY <2>1, <2>2, LaunchFacts DEF Apart, NoMsg
  <2> QED
    BY <1>1, <1>2, <1>4, <2>4, <2>5, <2>6, StepKeeps
<1> QED
  BY <1>3, <1>4 DEF Request

\* StoreTraversal keeps what holds of traversals.
LEMMA StoreTraversalKeeps ==
    ASSUME TravInv, TypeOK', NEW w \in Threads, StoreTraversal(w)
    PROVE  TravInv'
<1> DEFINE st == th[w].st
           goal == th[w].goal
           new == [st EXCEPT !.trav = nextTrav, !.action = goal.action, !.status = "IN_PROGRESS",
                             !.tmpl = goal.tmpl,
                             !.prev = IF goal.action = "CREATE" THEN @ ELSE st.tmpl]
           x == [th[w] EXCEPT !.st = new, !.old = st.trav, !.pc = "delete_prev"]
<1>1. /\ th[w] \in ThreadStates /\ st \in Stacks /\ stack \in Stacks
      /\ th = [v \in Threads |-> th[v]]
      /\ nextTrav \in Nat \ {0} /\ nextTrav \notin DOMAIN sp
      /\ stack.trav \in Nat /\ stack.trav < nextTrav
  BY TypeParts, ThreadFields DEF TravInv, TypeOK, Travs, Stacks
<1>2. ASSUME NEW v \in Threads
      PROVE  /\ th[v].st.trav \in Nat /\ th[v].st.trav < nextTrav
             /\ th[v].msg.trav \in Nat /\ th[v].msg.trav < nextTrav
  <2>1. th[v].st \in Stacks /\ th[v].msg \in Msgs \cup {NoMsg}
    BY ThreadFields DEF TravInv
  <2> QED
    BY <1>1, <2>1 DEF Stacks, Msgs, Travs, NoMsg
<1>3. \A m \in casts : m.trav # nextTrav
  BY <1>1 DEF TravInv, TypeOK, Msgs, Travs
<1>4. new.trav = nextTrav /\ new.status = "IN_PROGRESS" /\ new.action = goal.action
  BY <1>1 DEF Stacks
<1> HIDE DEF new
<1>5. x.st = new /\ x.old = st.trav /\ x.pc = "delete_prev" /\ x.msg = th[w].msg
  BY <1>1 DEF ThreadStates
<1>6. /\ UNCHANGED <<sp, casts>>
      /\ \/ stack' = stack /\ Return(w)
         \/ stack' = new /\ th' = [th EXCEPT ![w] = x]
  BY <1>1 DEF StoreTraversal, Store, new
<1> HIDE DEF x
<1>7. CASE stack' = stack /\ Return(w)
  BY <1>6, <1>7, EndKeeps, ReturnKeeps
<1>8. CASE stack' = new /\ th' = [th EXCEPT ![w] = x]
  <2>1. DatabaseKeeps(w)
    <3>1. \A v \in Threads : Agrees(th[v], stack, sp, stack', sp')
      BY <1>2, <1>4, <1>6, <1>8 DEF Agrees
    <3>2. stack.trav <= stack'.trav /\ stack'.trav # 0 /\ PointsMatch(stack', sp')
      BY <1>1, <1>4, <1>6, <1>8 DEF PointsMatch
    <3> QED
      BY <1>6, <3>1, <3>2, LaunchFacts DEF DatabaseKeeps
  <2>2. ThreadOK(x, stack', sp')
    BY <1>1, <1>4, <1>5, <1>6, <1>8 DEF ThreadOK, OneAction, DeletionStays, RollbackDue,
       GraphAgrees, UsesGraph,
       PointsMatch, ChecksOwn, EndIsStored, HasEarned, Checks
  <2>3. x.pc \notin Checks \cup {"fail", "reload", "retrigger", "idle"}
    BY <1>5 DEF Checks
  <2>4. Unlaunched(x, stack', sp', casts')
    BY <1>1, <1>2, <1>3, <1>4, <1>5, <1>6, <1>8 DEF Unlaunched
  <2>5. \A v \in Threads \ {w} : Apart(th[v], x.st.trav)
    BY <1>2, <1>4, <1>5 DEF Apart
  <2>6. \A v \in Threads \ {w} : Launches(th[v]) => Apart(x, th[v].st.trav)
    BY <1>2, <1>4, <1>5, LaunchFacts DEF Apart
  <2> QED
    BY <1>8, <2>1, <2>2, <2>3, <2>4, <2>5, <2>6, StepKeeps
<1> QED
  BY <1>6, <1>7, <1>8

\* A launch goes on, to x.
LEMMA LaunchGoesOn ==
    ASSUME TravInv, TypeOK', NEW w \in Threads, Launches(th[w]), DatabaseKeeps(w),
           UNCHANGED casts, th[w].st.trav \notin DOMAIN sp',
           NEW x, th' = [th EXCEPT ![w] = x], Launches(x), x.old = th[w].old, x.msg = th[w].msg,
           x.st.trav = th[w].st.trav, x.st.action = th[w].st.action,
           x.st.status = th[w].st.status, ThreadOK(x, stack', sp')
    PROVE  TravInv'
<1>1. x.pc \notin Checks \cup {"fail", "reload", "retrigger", "idle", "store1"}
  BY DEF Launches, Checks
<1>2. th[w].st.trav \in Nat /\ stack.trav \in Nat /\ stack'.trav \in Nat
  BY LaunchFacts DEF TravInv, TypeOK, Stacks, Travs
<1>3. stack.trav <= stack'.trav /\ th[w].st.trav <= stack.trav /\ th[w].old < th[w].st.trav
      /\ th[w].st.status = "IN_PROGRESS" /\ \A m \in casts : m.trav # th[w].st.trav
  BY LaunchFacts DEF DatabaseKeeps
<1>4. th[w].st.trav <= stack'.trav
  BY <1>2, <1>3
<1>5. Unlaunched(x, stack', sp', casts')
  BY <1>3, <1>4 DEF Unlaunched
<1>6. \A v \in Threads \ {w} : Apart(th[v], x.st.trav)
  BY LaunchFacts
<1>7. th[w].pc # "store1"
  BY DEF Launches
<1>8. \A v \in Threads \ {w} : Launches(th[v]) => Apart(x, th[v].st.trav)
  BY <1>7, LaunchFacts DEF Apart
<1> QED
  BY <1>1, <1>5, <1>6, <1>8, StepKeeps

\* DeletePrevSyncPoints keeps what holds of traversals.
LEMMA DeletePrevSyncPointsKeeps ==
    ASSUME TravInv, TypeOK', NEW w \in Threads, DeletePrevSyncPoints(w)
    PROVE  TravInv'
<1>1. /\ UNCHANGED <<stack, casts>> /\ th[w].pc = "delete_prev" /\ Goto(w, "resources")
      /\ sp' = Restrict(sp, DOMAIN sp \ {th[w].old})
  BY DEF DeletePrevSyncPoints, At
<1>2. Launches(th[w]) /\ "resources" \in Pcs
  BY <1>1 DEF Launches, Pcs
<1>3. PICK x : th' = [th EXCEPT ![w] = x] /\ x.pc = "resources" /\ SameObjects(x, th[w])
  BY <1>1, <1>2, GoneTo DEF TravInv
<1>4. /\ DOMAIN sp' = DOMAIN sp \ {th[w].old}
      /\ \A t \in DOMAIN sp' : sp'[t] = sp[t]
  BY <1>1 DEF Restrict
<1>5. th[w].old # stack.trav
  <2>1. th[w].old \in Nat /\ stack.trav \in Nat /\ th[w].st.trav \in Nat
    BY ThreadFields DEF TravInv, TypeOK, Stacks, Travs
  <2> QED
    BY <1>2, <2>1, LaunchFacts
<1>6. Earned(stack, sp) => Earned(stack, sp')
  BY <1>4, <1>5 DEF Earned
<1>7. DatabaseKeeps(w)
  <2>1. stack.trav <= stack'.trav /\ (stack'.trav = 0 => stack'.action = "CREATE")
    BY <1>1 DEF TravInv, TypeOK, Stacks, Travs
  <2>3. PointsMatch(stack', sp')
    <3>1. PointsMatch(stack, sp)
      BY DEF TravInv
    <3> QED
      BY <1>1, <1>4, <3>1 DEF PointsMatch
  <2>2. \A v \in Threads \ {w} : Agrees(th[v], stack, sp, stack', sp')
    BY <1>1, <1>4, <1>6 DEF Agrees
  <2> QED
    BY <1>1, <1>4, <2>1, <2>2, <2>3, LaunchFacts DEF DatabaseKeeps
<1>8. ThreadOK(x, stack', sp') /\ Launches(x)
  <2>1. ThreadOK(th[w], stack, sp)
    BY DEF TravInv
  <2> QED
    BY <1>1, <1>3, <2>1 DEF ThreadOK, OneAction, DeletionStays, RollbackDue, GraphAgrees,
       UsesGraph, Launches,
       ChecksOwn, EndIsStored, HasEarned, Checks, SameObjects
<1> QED
  BY <1>1, <1>2, <1>3, <1>4, <1>7, <1>8, LaunchFacts, LaunchGoesOn DEF SameObjects

\* UpdateOrStoreResources keeps what holds of traversals.
LEMMA UpdateOrStoreResourcesKeeps ==
    ASSUME TravInv, TypeOK', NEW w \in Threads, UpdateOrStoreResources(w)
    PROVE  TravInv'
<1>1. /\ UNCHANGED <<stack, sp, casts>> /\ th[w].pc = "resources"
      /\ \E deps : th' = [th EXCEPT ![w].st.deps = deps, ![w].pc = "store2"]
  BY Zenon DEF UpdateOrStoreResources, At
<1>2. PICK deps : th' = [th EXCEPT ![w].st.deps = deps, ![w].pc = "store2"]
  BY <1>1
<1> DEFINE st == [th[w].st EXCEPT !.deps = deps]
           x == [th[w] EXCEPT !.st = st, !.pc = "store2"]
<1>3. /\ th[w] \in ThreadStates /\ th[w].st \in Stacks /\ th = [v \in Threads |-> th[v]]
      /\ Launches(th[w])
  BY <1>1, TypeParts, ThreadFields DEF TravInv, Launches
<1>4. th' = [th EXCEPT ![w] = x]
  BY <1>2, <1>3
<1>5. /\ st.trav = th[w].st.trav /\ st.action = th[w].st.action /\ st.status = th[w].st.status
  BY <1>3 DEF Stacks
<1> HIDE DEF st
<1>6. x.pc = "store2" /\ x.st = st /\ x.old = th[w].old /\ x.msg = th[w].msg
  BY <1>3 DEF ThreadStates
<1> HIDE DEF x
<1>7. ThreadOK(x, stack', sp') /\ Launches(x)
  <2>1. OneAction(th[w], stack)
    BY DEF TravInv, ThreadOK
  <2> QED
    BY <1>1, <1>5, <1>6, <2>1 DEF ThreadOK, OneAction, DeletionStays, RollbackDue, GraphAgrees,
       UsesGraph, Launches,
       ChecksOwn, EndIsStored, HasEarned, Checks
<1>8. DatabaseKeeps(w) /\ th[w].st.trav \notin DOMAIN sp'
  BY <1>1, <1>3, EndKeeps, LaunchFacts
<1> QED
  BY <1>1, <1>3, <1>4, <1>5, <1>6, <1>7, <1>8, LaunchGoesOn

\* StoreDeps keeps what holds of traversals.
LEMMA StoreDepsKeeps ==
    ASSUME TravInv, TypeOK', NEW w \in Threads, StoreDeps(w)
    PROVE  TravInv'
<1> DEFINE st == th[w].st
<1>1. /\ UNCHANGED <<sp, casts>> /\ th[w].pc = "store2"
      /\ \/ stack' = stack /\ Return(w)
         \/ Current(st.trav) /\ stack' = st /\ Goto(w, "trigger")
  BY DEF StoreDeps, Store, At
<1>2. Launches(th[w]) /\ "trigger" \in Pcs
  BY <1>1 DEF Launches, Pcs
<1>3. CASE stack' = stack /\ Return(w)
  BY <1>1, <1>3, EndKeeps, ReturnKeeps
<1>4. CASE Current(st.trav) /\ stack' = st /\ Goto(w, "trigger")
  <2>1. /\ stack'.trav = stack.trav /\ stack'.action = stack.action
        /\ stack'.trav \notin DOMAIN sp /\ stack'.trav \in Nat \ {0}
    BY <1>2, <1>4, LaunchFacts DEF TravInv, ThreadOK, OneAction, Current
  <2>2. \A v \in Threads \ {w} : th[v].st.trav = stack'.trav =>
           th[v].pc = "store1" /\ th[v].goal.action # "ROLLBACK"
    BY <1>2, <1>4, LaunchFacts DEF Apart
  <2>3. DatabaseKeeps(w)
    <3>1. \A v \in Threads \ {w} : Agrees(th[v], stack, sp, stack', sp')
      BY <1>1, <2>1, <2>2 DEF Agrees, RollbackDue
    <3>2. stack.trav <= stack'.trav /\ stack'.trav # 0 /\ PointsMatch(stack', sp')
      BY <1>1, <2>1 DEF PointsMatch
    <3> QED
      BY <1>1, <3>1, <3>2, LaunchFacts DEF DatabaseKeeps
  <2>4. PICK x : th' = [th EXCEPT ![w] = x] /\ x.pc = "trigger" /\ SameObjects(x, th[w])
    BY <1>2, <1>4, GoneTo DEF TravInv
  <2>5. ThreadOK(x, stack', sp') /\ Launches(x)
    BY <1>1, <1>4, <2>1, <2>4 DEF ThreadOK, OneAction, DeletionStays, RollbackDue, GraphAgrees,
       UsesGraph, Launches,
       PointsMatch, ChecksOwn, EndIsStored, HasEarned, Checks, SameObjects
  <2> QED
    BY <1>1, <1>2, <1>4, <2>1, <2>3, <2>4, <2>5, LaunchGoesOn DEF SameObjects
<1> QED
  BY <1>1, <1>3, <1>4

\* A thread goes on with the traversal it has, launched.
LEMMA GoesOn ==
    ASSUME TravInv, TypeOK', NEW w \in Threads, th[w].pc # "store1", DatabaseKeeps(w),
           NEW x, th' = [th EXCEPT ![w] = x], x.msg.trav = th[w].msg.trav,
           x.st.trav = th[w].st.trav, ~Launches(x), x.pc # "idle",
           x.pc \in Checks \cup {"fail", "reload", "retrigger"} => w \in Workers,
           ThreadOK(x, stack', sp')
    PROVE  TravInv'
<1>1. \A v \in Threads \ {w} : Launches(th[v]) => Apart(x, th[v].st.trav)
  BY LaunchFacts DEF Apart
<1> QED
  BY <1>1, StepKeeps

\* TriggerLeaves keeps what holds of traversals.
LEMMA TriggerLeavesKeeps ==
    ASSUME TravInv, TypeOK', NEW w \in Threads, TriggerLeaves(w)
    PROVE  TravInv'
<1> DEFINE st == th[w].st
           points == [n \in st.deps.nodes \cup {StackNode} |-> {}]
           news == {Cast(n[1], st.trav, n[2], {}) : n \in leaves(st.deps)}
<1>1. /\ UNCHANGED stack /\ th[w].pc = "trigger"
      /\ sp' = [t \in DOMAIN sp \cup {st.trav} |-> IF t = st.trav THEN points ELSE sp[t]]
      /\ casts' = casts \cup news
      /\ \/ st.deps.nodes = {} /\ Goto(w, "complete")
         \/ Return(w)
  BY DEF TriggerLeaves, At
<1>2. /\ DOMAIN sp' = DOMAIN sp \cup {st.trav}
      /\ DOMAIN sp'[st.trav] = st.deps.nodes \cup {StackNode}
      /\ \A t \in DOMAIN sp : t # st.trav => sp'[t] = sp[t]
  BY <1>1
<1>3. \A m \in casts' : m \in casts \/ m.trav = st.trav
  BY <1>1 DEF Cast
<1> HIDE DEF points, news
<1>4. Launches(th[w]) /\ UsesGraph(th[w]) /\ th[w].pc # "store1" /\ "complete" \in Pcs
  BY <1>1 DEF Launches, UsesGraph, Pcs
<1>5. st.trav = stack.trav => st.deps = stack.deps
  BY <1>4 DEF TravInv, ThreadOK, GraphAgrees
<1>6. \A v \in Threads \ {w} : th[v].st.trav = st.trav => th[v].pc = "store1"
  BY <1>4, LaunchFacts DEF Apart
<1>7. DatabaseKeeps(w)
  <2>1. stack.trav <= stack'.trav /\ (stack'.trav = 0 => stack'.action = "CREATE")
    BY <1>1 DEF TravInv, TypeOK, Stacks, Travs
  <2>2. PointsMatch(stack', sp')
    <3>1. PointsMatch(stack, sp)
      BY DEF TravInv
    <3> QED
      BY <1>1, <1>2, <1>5, <3>1 DEF PointsMatch
  <2>3. ASSUME NEW v \in Threads \ {w} PROVE Agrees(th[v], stack, sp, stack', sp')
    <3>1. CASE th[v].st.trav = st.trav
      BY <1>1, <1>6, <3>1 DEF Agrees
    <3>2. CASE th[v].st.trav # st.trav
      <4>1. th[v].st.trav = stack.trav => (Earned(stack, sp) => Earned(stack, sp'))
        BY <1>2, <3>2 DEF Earned
      <4> QED
        BY <1>1, <1>2, <3>2, <4>1 DEF Agrees
    <3> QED
      BY <3>1, <3>2
  <2>4. ASSUME NEW v \in Threads \ {w}, Launches(th[v])
        PROVE  /\ th[v].st.trav \notin DOMAIN sp'
               /\ \A m \in casts' : m.trav # th[v].st.trav
    <3>1. th[v].st.trav # st.trav
      BY <1>6, <2>4 DEF Launches
    <3> QED
      BY <1>2, <1>3, <2>4, <3>1, LaunchFacts
  <2> QED
    BY <2>1, <2>2, <2>3, <2>4 DEF DatabaseKeeps
<1>8. CASE Return(w)
  BY <1>7, <1>8, ReturnKeeps
<1>9. CASE st.deps.nodes = {} /\ Goto(w, "complete")
  <2>1. PICK x : th' = [th EXCEPT ![w] = x] /\ x.pc = "complete" /\ SameObjects(x, th[w])
    BY <1>4, <1>9, GoneTo DEF TravInv
  <2>2. x.st = st /\ x.msg = th[w].msg
    BY <2>1 DEF SameObjects
  <2>3. OneAction(th[w], stack)
    BY DEF TravInv, ThreadOK
  <2>4. ThreadOK(x, stack', sp')
    BY <1>1, <1>2, <1>5, <1>9, <2>1, <2>2, <2>3 DEF ThreadOK, OneAction, DeletionStays,
       RollbackDue, GraphAgrees,
       PointsMatch, ChecksOwn, EndIsStored, HasEarned, Earned, Checks
  <2>5. ~Launches(x) /\ x.pc \notin Checks \cup {"fail", "reload", "retrigger", "idle"}
    BY <2>1 DEF Launches, Checks
  <2> QED
    BY <1>4, <1>7, <2>1, <2>2, <2>4, <2>5, GoesOn
<1> QED
  BY <1>1, <1>8, <1>9

\* A row that the thread w writes back: what it has loaded of the traversal is
\* what the row says of it.
LEMMA WrittenBack ==
    ASSUME TravInv, NEW w \in Threads, th[w].st.trav = stack.trav
    PROVE  /\ th[w].st.action = stack.action
           /\ UsesGraph(th[w]) => th[w].st.deps = stack.deps
           /\ th[w].pc \in {"rollback", "purge", "purge_points"} => th[w].st.status # "IN_PROGRESS"
  BY DEF TravInv, ThreadOK, OneAction, GraphAgrees, EndIsStored, RollbackDue

\* Rollback keeps what holds of traversals.
LEMMA RollbackKeeps ==
    ASSUME TravInv, TypeOK', NEW w \in Threads, Rollback(w)
    PROVE  TravInv'
<1> DEFINE st == th[w].st
           st2 == [st EXCEPT !.prev = None]
           goal == [action |-> "ROLLBACK", tmpl |-> IF st.prev = None THEN EmptyTmpl ELSE st.prev]
<1>1. /\ UNCHANGED <<sp, casts>> /\ th[w].pc = "rollback"
      /\ stack' = stack \/ (Current(st.trav) /\ stack' = st2)
      /\ \/ Return(w)
         \/ th' = [th EXCEPT ![w].goal = goal, ![w].st.prev = None, ![w].pc = "store1"]
  BY Zenon DEF Rollback, Store, At
<1> HIDE DEF goal
<1>2. th[w] \in ThreadStates /\ st \in Stacks /\ th = [v \in Threads |-> th[v]]
  BY TypeParts, ThreadFields DEF TravInv
<1>3. /\ st2.trav = st.trav /\ st2.action = st.action /\ st2.deps = st.deps
      /\ st2.status = st.status
  BY <1>2 DEF Stacks
<1>4. UsesGraph(th[w]) /\ th[w].pc # "store1"
  BY <1>1 DEF UsesGraph
<1>5. \/ stack' = stack
      \/ /\ stack'.trav = stack.trav /\ stack'.action = stack.action
         /\ stack'.deps = stack.deps /\ stack'.status # "IN_PROGRESS"
  BY <1>1, <1>3, <1>4, WrittenBack DEF Current
<1>6. DatabaseKeeps(w)
  BY <1>1, <1>5, EndKeeps
<1>7. CASE Return(w)
  BY <1>6, <1>7, ReturnKeeps
<1>8. CASE th' = [th EXCEPT ![w].goal = goal, ![w].st.prev = None, ![w].pc = "store1"]
  <2> DEFINE x == [th[w] EXCEPT !.goal = goal, !.st = st2, !.pc = "store1"]
  <2>1. th' = [th EXCEPT ![w] = x]
    BY <1>2, <1>8
  <2> HIDE DEF st2
  <2>2. x.pc = "store1" /\ x.st = st2 /\ x.msg = th[w].msg
    BY <1>2 DEF ThreadStates
  <2> HIDE DEF x
  <2>3. /\ st.action \in {"CREATE", "UPDATE"} /\ OneAction(th[w], stack)
        /\ st.status # "IN_PROGRESS" /\ (st.trav = stack.trav => stack.status # "IN_PROGRESS")
    BY <1>1 DEF TravInv, ThreadOK, DeletionStays, EndIsStored, RollbackDue
  <2>4. ThreadOK(x, stack', sp')
    BY <1>3, <1>5, <2>2, <2>3 DEF ThreadOK, OneAction, DeletionStays, RollbackDue, GraphAgrees,
       UsesGraph,
       ChecksOwn, EndIsStored, HasEarned, Checks
  <2>5. ~Launches(x) /\ x.pc \notin Checks \cup {"fail", "reload", "retrigger", "idle"}
    BY <2>2 DEF Launches, Checks
  <2> QED
    BY <1>3, <1>4, <1>6, <2>1, <2>2, <2>4, <2>5, GoesOn
<1> QED
  BY <1>1, <1>7, <1>8

\* A thread stores a final status and goes on with it, or returns.
LEMMA StatusKeeps ==
    ASSUME TravInv, TypeOK', NEW w \in Threads, UNCHANGED <<sp, casts>>, UsesGraph(th[w]),
           NEW status \in {"COMPLETE", "FAILED"}, NEW pc \in {"purge", "rollback"},
           StateSet([th[w].st EXCEPT !.status = status]),
           pc = "rollback" => th[w].st.action \in {"CREATE", "UPDATE"},
           \/ Return(w)
           \/ Goto(w, "retrigger") /\ w \in Workers
           \/ /\ Current(th[w].st.trav)
              /\ th' = [th EXCEPT ![w].st = [th[w].st EXCEPT !.status = status], ![w].pc = pc]
    PROVE  TravInv'
<1> DEFINE st == [th[w].st EXCEPT !.status = status]
<1>1. /\ th[w] \in ThreadStates /\ th[w].st \in Stacks /\ stack \in Stacks
      /\ th = [v \in Threads |-> th[v]]
  BY TypeParts, ThreadFields DEF TravInv, TypeOK
<1>2. /\ st.trav = th[w].st.trav /\ st.action = th[w].st.action /\ st.deps = th[w].st.deps
      /\ st.status = status /\ status # "IN_PROGRESS"
  BY <1>1 DEF Stacks
<1>3. \/ stack' = stack /\ ~Current(st.trav)
      \/ /\ stack'.trav = stack.trav /\ stack'.action = stack.action
         /\ stack'.deps = stack.deps /\ stack'.status # "IN_PROGRESS"
  <2>1. StateSet(st)
    OBVIOUS
  <2> HIDE DEF st
  <2>2. CASE Current(st.trav)
    <3>1. stack' = [stack EXCEPT !.action = st.action, !.status = st.status]
      BY <2>1, <2>2 DEF StateSet
    <3>2. st.action = stack.action
      BY <1>2, <2>2, WrittenBack DEF Current
    <3> QED
      BY <1>1, <1>2, <3>1, <3>2 DEF Stacks
  <2> QED
    BY <2>1, <2>2 DEF StateSet
<1>4. DatabaseKeeps(w)
  BY <1>3, EndKeeps
<1>5. CASE Return(w)
  BY <1>4, <1>5, ReturnKeeps
<1>6. ThreadOK(th[w], stack, sp) /\ th[w].pc # "store1"
  BY DEF TravInv, UsesGraph, Checks
<1>7. CASE Goto(w, "retrigger") /\ w \in Workers
  <2>1. "retrigger" \in Pcs
    BY DEF Pcs
  <2>2. PICK x : th' = [th EXCEPT ![w] = x] /\ x.pc = "retrigger" /\ SameObjects(x, th[w])
    BY <1>7, <2>1, GoneTo DEF TravInv
  <2>3. ThreadOK(x, stack', sp')
    BY <1>3, <1>6, <2>2 DEF ThreadOK, OneAction, DeletionStays, RollbackDue, GraphAgrees,
       UsesGraph, ChecksOwn,
       EndIsStored, HasEarned, Checks, SameObjects
  <2>4. ~Launches(x) /\ x.pc # "idle"
    BY <2>2 DEF Launches
  <2> QED
    BY <1>4, <1>6, <1>7, <2>2, <2>3, <2>4, GoesOn DEF SameObjects
<1>8. CASE /\ Current(th[w].st.trav)
           /\ th' = [th EXCEPT ![w].st = st, ![w].pc = pc]
  <2> DEFINE x == [th[w] EXCEPT !.st = st, !.pc = pc]
  <2>1. th' = [th EXCEPT ![w] = x]
    BY <1>1, <1>8
  <2> HIDE DEF st
  <2>2. x.pc = pc /\ x.st = st /\ x.msg = th[w].msg
    BY <1>1 DEF ThreadStates
  <2> HIDE DEF x
  <2>3. /\ stack'.trav = stack.trav /\ stack'.action = stack.action
        /\ stack'.deps = stack.deps /\ stack'.status # "IN_PROGRESS"
    BY <1>2, <1>3, <1>8
  <2>4. ThreadOK(x, stack', sp')
    BY <1>2, <1>6, <2>2, <2>3 DEF ThreadOK, OneAction, DeletionStays, RollbackDue, GraphAgrees,
       PointsMatch,
       ChecksOwn, EndIsStored, HasEarned, Checks
  <2>5. ~Launches(x) /\ x.pc \notin Checks \cup {"fail", "reload", "retrigger", "idle"}
    BY <2>2 DEF Launches, Checks
  <2> QED
    BY <1>2, <1>4, <1>6, <2>1, <2>2, <2>4, <2>5, GoesOn
<1> QED
  BY <1>5, <1>7, <1>8

\* MarkComplete keeps what holds of traversals.
LEMMA MarkCompleteKeeps ==
    ASSUME TravInv, TypeOK', NEW w \in Threads, MarkComplete(w)
    PROVE  TravInv'
<1> DEFINE st == [th[w].st EXCEPT !.status = "COMPLETE"]
<1>1. st.trav = th[w].st.trav
  BY ThreadFields DEF TravInv, Stacks
<1>2. /\ UNCHANGED <<sp, casts>> /\ th[w].pc = "complete" /\ StateSet(st)
      /\ \/ Return(w)
         \/ Current(st.trav) /\ th' = [th EXCEPT ![w].st = st, ![w].pc = "purge"]
  BY Zenon DEF MarkComplete, At
<1>3. UsesGraph(th[w])
  BY <1>2 DEF UsesGraph
<1>4. "COMPLETE" \in {"COMPLETE", "FAILED"} /\ "purge" \in {"purge", "rollback"} /\ "purge" # "rollback"
  OBVIOUS
<1> QED
  BY <1>1, <1>2, <1>3, <1>4, StatusKeeps, Zenon

\* HandleFailure keeps what holds of traversals.
LEMMA HandleFailureKeeps ==
    ASSUME TravInv, TypeOK', NEW w \in Threads, HandleFailure(w)
    PROVE  TravInv'
<1> DEFINE st == [th[w].st EXCEPT !.status = "FAILED"]
<1>1. st.trav = th[w].st.trav /\ st.action = th[w].st.action
  BY ThreadFields DEF TravInv, Stacks
<1>2. /\ UNCHANGED <<sp, casts>> /\ th[w].pc = "fail" /\ StateSet(st)
      /\ \/ Return(w)
         \/ Goto(w, "retrigger")
         \/ \E pc \in {"purge", "rollback"} :
               /\ Current(st.trav) /\ (pc = "rollback" => st.action \in {"CREATE", "UPDATE"})
               /\ th' = [th EXCEPT ![w].st = st, ![w].pc = pc]
  <2>1. UNCHANGED <<sp, casts>> /\ th[w].pc = "fail" /\ StateSet(st)
    BY Zenon DEF HandleFailure, At
  <2>2. \/ Return(w)
        \/ Goto(w, "retrigger")
        \/ /\ Current(st.trav) /\ st.action \in {"CREATE", "UPDATE"}
           /\ th' = [th EXCEPT ![w].st = st, ![w].pc = "rollback"]
        \/ Current(st.trav) /\ th' = [th EXCEPT ![w].st = st, ![w].pc = "purge"]
    BY Zenon DEF HandleFailure
  <2>3. "purge" # "rollback"
    OBVIOUS
  <2> QED
    BY <2>1, <2>2, <2>3, Zenon
<1>3. UsesGraph(th[w]) /\ w \in Workers
  BY <1>2 DEF UsesGraph, TravInv, WorkersCheck
<1>4. st.action \in {"CREATE", "UPDATE"} => th[w].st.action \in {"CREATE", "UPDATE"}
  BY <1>1
<1>5. "FAILED" \in {"COMPLETE", "FAILED"} /\ "purge" \in {"purge", "rollback"} /\ "purge" # "rollback"
  OBVIOUS
<1>6. CASE Return(w) \/ Goto(w, "retrigger")
  BY <1>2, <1>3, <1>5, <1>6, StatusKeeps, Zenon
<1>7. ASSUME NEW pc \in {"purge", "rollback"}, Current(st.trav),
             pc = "rollback" => st.action \in {"CREATE", "UPDATE"},
             th' = [th EXCEPT ![w].st = st, ![w].pc = pc]
      PROVE  TravInv'
  BY <1>1, <1>2, <1>3, <1>4, <1>5, <1>7, StatusKeeps, Zenon
<1> QED
  BY <1>2, <1>6, <1>7, Zenon

\* PurgeTemplate keeps what holds of traversals.
LEMMA PurgeTemplateKeeps ==
    ASSUME TravInv, TypeOK', NEW w \in Threads, PurgeTemplate(w)
    PROVE  TravInv'
<1> DEFINE st2 == [th[w].st EXCEPT !.prev = None]
<1>1. /\ UNCHANGED <<sp, casts>> /\ th[w].pc = "purge"
      /\ stack' = stack \/ (Current(th[w].st.trav) /\ stack' = st2)
      /\ Return(w) \/ Goto(w, "purge_points")
  BY Zenon DEF PurgeTemplate, Store, At
<1>2. /\ st2.trav = th[w].st.trav /\ st2.action = th[w].st.action /\ st2.deps = th[w].st.deps
      /\ st2.status = th[w].st.status
  BY ThreadFields DEF Stacks, TravInv
<1> HIDE DEF st2
<1>3. UsesGraph(th[w]) /\ th[w].pc # "store1" /\ "purge_points" \in Pcs
  BY <1>1 DEF UsesGraph, Pcs
<1>4. \/ stack' = stack
      \/ /\ stack'.trav = stack.trav /\ stack'.action = stack.action
         /\ stack'.deps = stack.deps /\ stack'.status # "IN_PROGRESS"
  BY <1>1, <1>2, <1>3, WrittenBack DEF Current
<1>5. DatabaseKeeps(w)
  BY <1>1, <1>4, EndKeeps
<1>6. CASE Return(w)
  BY <1>5, <1>6, ReturnKeeps
<1>7. CASE Goto(w, "purge_points")
  <2>1. PICK x : th' = [th EXCEPT ![w] = x] /\ x.pc = "purge_points" /\ SameObjects(x, th[w])
    BY <1>3, <1>7, GoneTo DEF TravInv
  <2>2. ThreadOK(th[w], stack, sp)
    BY DEF TravInv
  <2>3. ThreadOK(x, stack', sp')
    BY <1>1, <1>3, <1>4, <2>1, <2>2 DEF ThreadOK, OneAction, DeletionStays, RollbackDue, GraphAgrees,
       ChecksOwn, EndIsStored, HasEarned, Checks, SameObjects
  <2>4. ~Launches(x) /\ x.pc \notin Checks \cup {"fail", "reload", "retrigger", "idle"}
    BY <2>1 DEF Launches, Checks
  <2> QED
    BY <1>3, <1>5, <2>1, <2>3, <2>4, GoesOn DEF SameObjects
<1> QED
  BY <1>1, <1>6, <1>7

\* PurgeSyncPoints keeps what holds of traversals.
LEMMA PurgeSyncPointsKeeps ==
    ASSUME TravInv, TypeOK', NEW w \in Threads, PurgeSyncPoints(w)
    PROVE  TravInv'
<1>1. /\ UNCHANGED casts /\ th[w].pc = "purge_points" /\ Return(w)
      /\ sp' = Restrict(sp, DOMAIN sp \ {th[w].st.trav})
      /\ stack' \in {stack, [stack EXCEPT !.live = FALSE]}
  BY DEF PurgeSyncPoints, At
<1>2. /\ stack'.trav = stack.trav /\ stack'.action = stack.action
      /\ stack'.deps = stack.deps /\ stack'.status = stack.status
  BY <1>1 DEF TravInv, TypeOK, Stacks
<1>3. /\ DOMAIN sp' = DOMAIN sp \ {th[w].st.trav}
      /\ \A t \in DOMAIN sp' : sp'[t] = sp[t]
  BY <1>1 DEF Restrict
<1>4. th[w].st.trav = stack.trav => stack.status # "IN_PROGRESS"
  BY <1>1 DEF TravInv, ThreadOK, EndIsStored
<1>5. stack.status = "IN_PROGRESS" /\ Earned(stack, sp) => Earned(stack', sp')
  BY <1>2, <1>3, <1>4 DEF Earned
<1>6. DatabaseKeeps(w)
  <2>1. stack.trav <= stack'.trav /\ (stack'.trav = 0 => stack'.action = "CREATE")
    BY <1>2 DEF TravInv, TypeOK, Stacks, Travs
  <2>2. PointsMatch(stack', sp')
    <3>1. PointsMatch(stack, sp)
      BY DEF TravInv
    <3> QED
      BY <1>2, <1>3, <3>1 DEF PointsMatch
  <2>3. \A v \in Threads \ {w} : Agrees(th[v], stack, sp, stack', sp')
    BY <1>2, <1>3, <1>5 DEF Agrees
  <2> QED
    BY <1>1, <1>3, <2>1, <2>2, <2>3, LaunchFacts DEF DatabaseKeeps
<1> QED
  BY <1>1, <1>6, ReturnKeeps

\* A worker loads the stack: its traversal has been launched.
LEMMA LoadKeeps ==
    ASSUME TravInv, TypeOK', NEW w \in Threads, w \in Workers, UNCHANGED <<stack, sp>>,
           casts' \subseteq casts,
           NEW x, th' = [th EXCEPT ![w] = x], x.st = stack, x.pc \in {"acquire", "fail"},
           x.pc = "acquire" => x.msg.trav = stack.trav,
           \A v \in Threads \ {w} : Launches(th[v]) =>
               x.msg.trav # th[v].st.trav /\ stack.trav # th[v].st.trav
    PROVE  TravInv'
<1>1. DatabaseKeeps(w)
  <2>1. /\ stack.trav <= stack'.trav /\ (stack'.trav = 0 => stack'.action = "CREATE")
        /\ PointsMatch(stack', sp')
    BY DEF TravInv, TypeOK, Stacks, Travs
  <2>2. \A v \in Threads \ {w} : Agrees(th[v], stack, sp, stack', sp')
    BY DEF Agrees
  <2> QED
    BY <2>1, <2>2, LaunchFacts DEF DatabaseKeeps
<1>2. ThreadOK(x, stack', sp')
  <2>1. PointsMatch(stack, sp)
    BY DEF TravInv
  <2> QED
    BY <2>1 DEF ThreadOK, OneAction, DeletionStays, RollbackDue, GraphAgrees, ChecksOwn, EndIsStored,
                HasEarned, Checks
<1>3. ~Launches(x) /\ x.pc # "idle"
  BY DEF Launches
<1>4. \A v \in Threads \ {w} : Launches(th[v]) => Apart(x, th[v].st.trav)
  BY DEF Apart
<1> QED
  BY <1>1, <1>2, <1>3, <1>4, StepKeeps

\* Receive keeps what holds of traversals.
LEMMA ReceiveKeeps ==
    ASSUME TravInv, TypeOK', NEW w \in Workers, NEW m \in casts, Receive(w, m) \/ ReceiveLate(w, m)
    PROVE  TravInv'
<1> DEFINE x == [Idle EXCEPT !.pc = "acquire", !.msg = m, !.rs = rsrc[m.id], !.st = stack]
           y == [Idle EXCEPT !.pc = "fail", !.st = stack, !.out = "timeout"]
<1>1. /\ UNCHANGED <<stack, sp>> /\ casts' \subseteq casts /\ w \in Threads
      /\ \/ Return(w)
         \/ m.trav = stack.trav /\ th' = [th EXCEPT ![w] = x]
         \/ m.trav = stack.trav /\ th' = [th EXCEPT ![w] = y]
  BY DEF Receive, ReceiveLate, Threads
<1>2. /\ x.pc = "acquire" /\ x.st = stack /\ x.msg = m
      /\ y.pc = "fail" /\ y.st = stack /\ y.msg.trav = 0
  BY DEF Idle, NoMsg
<1> HIDE DEF x, y
<1>3. ASSUME m.trav = stack.trav, NEW v \in Threads, Launches(th[v])
      PROVE  m.trav # th[v].st.trav /\ stack.trav # th[v].st.trav /\ y.msg.trav # th[v].st.trav
  BY <1>2, <1>3, LaunchFacts
<1>4. CASE Return(w)
  BY <1>1, <1>4, QuietKeeps DEF Quiet
<1>5. CASE m.trav = stack.trav /\ th' = [th EXCEPT ![w] = x]
  <2>1. \A v \in Threads \ {w} : Launches(th[v]) =>
           x.msg.trav # th[v].st.trav /\ stack.trav # th[v].st.trav
    BY <1>2, <1>3, <1>5
  <2> QED
    BY <1>1, <1>2, <1>5, <2>1, LoadKeeps
<1>6. CASE m.trav = stack.trav /\ th' = [th EXCEPT ![w] = y]
  <2>1. \A v \in Threads \ {w} : Launches(th[v]) =>
           y.msg.trav # th[v].st.trav /\ stack.trav # th[v].st.trav
    BY <1>3, <1>6
  <2> QED
    BY <1>1, <1>2, <1>6, <2>1, LoadKeeps
<1> QED
  BY <1>1, <1>4, <1>5, <1>6

\* ReloadAfterTimeout keeps what holds of traversals.
LEMMA ReloadAfterTimeoutKeeps ==
    ASSUME TravInv, TypeOK', NEW w \in Threads, ReloadAfterTimeout(w)
    PROVE  TravInv'
<1> DEFINE x == [th[w] EXCEPT !.st = stack, !.pc = "fail"]
<1>1. /\ th[w] \in ThreadStates /\ th = [v \in Threads |-> th[v]]
  BY TypeParts DEF TravInv
<1>2. /\ UNCHANGED <<stack, sp, casts>> /\ th[w].pc = "reload"
      /\ \/ Return(w)
         \/ Current(th[w].msg.trav) /\ th' = [th EXCEPT ![w] = x]
  BY <1>1 DEF ReloadAfterTimeout, At, db
<1>3. x.pc = "fail" /\ x.st = stack /\ x.msg = th[w].msg /\ w \in Workers
  BY <1>1, <1>2 DEF ThreadStates, TravInv, WorkersCheck
<1> HIDE DEF x
<1>4. CASE Return(w)
  BY <1>2, <1>4, QuietKeeps DEF Quiet
<1>5. CASE Current(th[w].msg.trav) /\ th' = [th EXCEPT ![w] = x]
  <2>1. \A v \in Threads \ {w} : Launches(th[v]) =>
           x.msg.trav # th[v].st.trav /\ stack.trav # th[v].st.trav
    BY <1>3, <1>5, LaunchFacts DEF Apart, Current
  <2> QED
    BY <1>2, <1>3, <1>5, <2>1, LoadKeeps
<1> QED
  BY <1>2, <1>4, <1>5

\* A report to sync points of a traversal that is launched: the nodes stay, and
\* what has reported to the stack stays too.
LEMMA ReportKeeps ==
    ASSUME TravInv, NEW w \in Threads, NEW trav \in DOMAIN sp, UNCHANGED stack,
           DOMAIN sp' = DOMAIN sp, \A t \in DOMAIN sp : t # trav => sp'[t] = sp[t],
           DOMAIN sp'[trav] = DOMAIN sp[trav],
           senders(sp[trav][StackNode]) \subseteq senders(sp'[trav][StackNode]),
           \A m \in casts' : m \in casts \/ m.trav = trav
    PROVE  DatabaseKeeps(w)
<1>1. stack.trav <= stack'.trav /\ (stack'.trav = 0 => stack'.action = "CREATE")
  BY DEF TravInv, TypeOK, Stacks, Travs
<1>2. PointsMatch(stack', sp')
  <2>1. PointsMatch(stack, sp)
    BY DEF TravInv
  <2> QED
    BY <2>1 DEF PointsMatch
<1>3. Earned(stack, sp) => Earned(stack', sp')
  BY DEF Earned
<1>4. \A v \in Threads \ {w} : Agrees(th[v], stack, sp, stack', sp')
  BY <1>3 DEF Agrees
<1>5. ASSUME NEW v \in Threads \ {w}, Launches(th[v])
      PROVE  /\ th[v].st.trav \notin DOMAIN sp'
             /\ \A m \in casts' : m.trav # th[v].st.trav
  BY <1>5, LaunchFacts
<1> QED
  BY <1>1, <1>2, <1>4, <1>5 DEF DatabaseKeeps

\* Retrigger keeps what holds of traversals.
LEMMA RetriggerKeeps ==
    ASSUME TravInv, TypeOK', NEW w \in Threads, Retrigger(w)
    PROVE  TravInv'
<1> DEFINE own == <<th[w].msg.id, th[w].msg.upd>>
           key == IF th[w].msg.upd /\ own \notin stack.deps.nodes
                  THEN <<th[w].msg.id, FALSE>> ELSE own
           data == merge(sp[stack.trav][key], key, None)
           cast == Cast(key[1], stack.trav, key[2], data)
<1>1. /\ UNCHANGED stack /\ Return(w)
      /\ \/ UNCHANGED <<sp, casts>>
         \/ /\ key \in stack.deps.nodes /\ stack.trav \in DOMAIN sp
            /\ sp' = [sp EXCEPT ![stack.trav][key] = data]
            /\ casts' \in {casts, casts \cup {cast}}
  BY DEF Retrigger
<1>2. cast.trav = stack.trav
  BY DEF Cast
<1> HIDE DEF key, data, cast
<1>3. CASE UNCHANGED <<sp, casts>>
  BY <1>1, <1>3, QuietKeeps DEF Quiet
<1>4. CASE /\ key \in stack.deps.nodes /\ stack.trav \in DOMAIN sp
           /\ sp' = [sp EXCEPT ![stack.trav][key] = data]
           /\ casts' \in {casts, casts \cup {cast}}
  <2>1. key # StackNode
    <3>2. stack.deps \in Graphs
      BY DEF TravInv, TypeOK, Stacks
    <3>1. key \in Nodes
      BY <1>4, <3>2 DEF Graphs
    <3>3. key[1] \in Ids
      BY <3>1 DEF Nodes
    <3>4. nextId \in Nat => 0 \notin Ids
      BY DEF Ids
    <3>5. StackNode[1] = 0
      BY DEF StackNode, None
    <3> QED
      BY <3>3, <3>4, <3>5 DEF TravInv, TypeOK
  <2>2. /\ DOMAIN sp' = DOMAIN sp /\ \A t \in DOMAIN sp : t # stack.trav => sp'[t] = sp[t]
        /\ DOMAIN sp'[stack.trav] = DOMAIN sp[stack.trav]
        /\ sp'[stack.trav][StackNode] = sp[stack.trav][StackNode]
    <3> DEFINE f == [sp[stack.trav] EXCEPT ![key] = data]
    <3>1. sp' = [sp EXCEPT ![stack.trav] = f]
      BY <1>4
    <3>2. StackNode \in DOMAIN sp[stack.trav]
      BY <1>4 DEF TravInv, TypeOK
    <3>3. DOMAIN f = DOMAIN sp[stack.trav] /\ f[StackNode] = sp[stack.trav][StackNode]
      BY <2>1, <3>2
    <3> HIDE DEF f
    <3> QED
      BY <1>4, <3>1, <3>3
  <2>3. DatabaseKeeps(w)
    BY <1>1, <1>2, <1>4, <2>2, ReportKeeps
  <2> QED
    BY <1>1, <2>3, ReturnKeeps
<1> QED
  BY <1>1, <1>3, <1>4

\* Nobody's report is lost when another one is added.
LEMMA MergeSenders ==
    ASSUME NEW d, NEW key, NEW v
    PROVE  senders(d) \subseteq senders(merge(d, key, v))
<1>1. <<key, v>>[1] = key
  OBVIOUS
<1> QED
  BY <1>1 DEF senders, merge

\* Propagate keeps what holds of traversals.
LEMMA PropagateKeeps ==
    ASSUME TravInv, TypeOK', NEW w \in Threads, Propagate(w)
    PROVE  TravInv'
<1> DEFINE g == th[w].st.deps
           trav == th[w].msg.trav
           key == graph_key(w)
           next == required_by(g, key)
           targets == next \cup (IF stack_sender(w) \in roots(g) THEN {StackNode} ELSE {})
           points == sp[trav]
           data(n) == merge(points[n],
                         IF n = StackNode THEN stack_sender(w) ELSE key,
                         IF n[2] /\ n # StackNode THEN th[w].msg.id ELSE None)
           ready == {n \in next : graphPreds(g, n) \subseteq senders(data(n))}
           report == [n \in DOMAIN points |-> IF n \in targets THEN data(n) ELSE points[n]]
           news == {Cast(n[1], trav, n[2], data(n)) : n \in ready}
           earned == StackNode \in targets /\ roots(g) \subseteq senders(data(StackNode))
<1>1. /\ UNCHANGED stack /\ th[w].pc = "propagate"
      /\ \/ UNCHANGED <<sp, casts>> /\ (Return(w) \/ Goto(w, "retrigger"))
         \/ /\ trav \in DOMAIN sp /\ sp' = [sp EXCEPT ![trav] = report]
            /\ casts' = casts \cup news
            /\ Return(w) \/ (earned /\ Goto(w, "complete"))
  BY Zenon DEF Propagate, At
<1>2. \A m \in news : m.trav = trav
  <2>1. \A n : Cast(n[1], trav, n[2], data(n)).trav = trav
    BY DEF Cast
  <2> QED
    BY <2>1, Zenon
<1>3. senders(points[StackNode]) \subseteq senders(data(StackNode))
  BY MergeSenders
<1> HIDE DEF data, news, key
<1>4. /\ th[w].pc \in Checks /\ "retrigger" \in Pcs /\ "complete" \in Pcs
      /\ UsesGraph(th[w]) /\ th[w].pc # "store1" /\ trav = th[w].st.trav
      /\ trav = stack.trav => g = stack.deps
  BY <1>1 DEF Checks, Pcs, UsesGraph, TravInv, ThreadOK, ChecksOwn, GraphAgrees
<1>5. CASE UNCHANGED <<sp, casts>> /\ (Return(w) \/ Goto(w, "retrigger"))
  <2>1. Goto(w, "retrigger") =>
           \E x : /\ th' = [th EXCEPT ![w] = x] /\ x.pc = "retrigger" /\ SameObjects(x, th[w])
    BY <1>4, GoneTo DEF TravInv
  <2> QED
    BY <1>1, <1>4, <1>5, <2>1, QuietKeeps DEF Quiet
<1>6. CASE /\ trav \in DOMAIN sp /\ sp' = [sp EXCEPT ![trav] = report]
           /\ casts' = casts \cup news
           /\ Return(w) \/ (earned /\ Goto(w, "complete"))
  <2>1. StackNode \in DOMAIN points
    BY <1>6 DEF TravInv, TypeOK
  <2>2. /\ DOMAIN sp' = DOMAIN sp /\ \A t \in DOMAIN sp : t # trav => sp'[t] = sp[t]
        /\ sp'[trav] = report
    BY <1>6
  <2>3. /\ DOMAIN report = DOMAIN points
        /\ report[StackNode] = IF StackNode \in targets THEN data(StackNode) ELSE points[StackNode]
    BY <2>1
  <2> HIDE DEF report, targets
  <2>4. DatabaseKeeps(w)
    <3>1. senders(sp[trav][StackNode]) \subseteq senders(sp'[trav][StackNode])
      BY <1>3, <2>2, <2>3
    <3>2. \A m \in casts' : m \in casts \/ m.trav = trav
      BY <1>2, <1>6
    <3> QED
      BY <1>1, <1>6, <2>2, <2>3, <3>1, <3>2, ReportKeeps
  <2>5. CASE Return(w)
    BY <2>4, <2>5, ReturnKeeps
  <2>6. CASE earned /\ Goto(w, "complete")
    <3>1. PICK x : th' = [th EXCEPT ![w] = x] /\ x.pc = "complete" /\ SameObjects(x, th[w])
      BY <1>4, <2>6, GoneTo DEF TravInv
    <3>2. ThreadOK(th[w], stack, sp)
      BY DEF TravInv
    <3>3. trav = stack.trav => Earned(stack', sp')
      BY <1>1, <1>4, <1>6, <2>2, <2>3, <2>6 DEF Earned
    <3>4. HasEarned(x, stack', sp')
      BY <1>1, <1>4, <3>1, <3>3 DEF HasEarned, SameObjects
    <3>5. PointsMatch(x.st, sp')
      BY <1>4, <1>6, <2>2, <2>3, <3>1, <3>2 DEF ThreadOK, PointsMatch, SameObjects
    <3>6. ThreadOK(x, stack', sp')
      BY <1>1, <1>4, <3>1, <3>2, <3>4, <3>5 DEF ThreadOK, OneAction, DeletionStays, RollbackDue,
         GraphAgrees,
         ChecksOwn, EndIsStored, Checks, SameObjects
    <3>7. ~Launches(x) /\ x.pc \notin Checks \cup {"fail", "reload", "retrigger", "idle"}
      BY <3>1 DEF Launches, Checks
    <3> QED
      BY <1>4, <2>4, <3>1, <3>6, <3>7, GoesOn DEF SameObjects
  <2> QED
    BY <1>6, <2>5, <2>6
<1> QED
  BY <1>1, <1>5, <1>6

\* Crash keeps what holds of traversals.
LEMMA CrashKeeps ==
    ASSUME TravInv, TypeOK', NEW e \in Engines, Crash(e)
    PROVE  TravInv'
<1> DEFINE x == [Idle EXCEPT !.pc = "crashed"]
<1>1. /\ UNCHANGED <<stack, sp, casts>>
      /\ th' = [w \in Threads |-> IF Engine[w] = e THEN x ELSE th[w]]
  BY DEF Crash, db
<1>2. x.pc = "crashed" /\ x.st = NoStack /\ x.msg = NoMsg
  BY DEF Idle
<1> HIDE DEF x
<1>3. \A w \in Threads : th'[w] = x \/ th'[w] = th[w]
  BY <1>1
<1>4. x.pc \notin Checks \cup {"fail", "trigger", "complete", "rollback", "purge", "purge_points",
                              "store1", "reload", "retrigger", "delete_prev", "resources", "store2"}
  BY <1>2 DEF Checks
<1>5. ThreadOK(x, stack, sp) /\ ~Launches(x)
  BY <1>2, <1>4 DEF TravInv, ThreadOK, OneAction, DeletionStays, RollbackDue, GraphAgrees,
     UsesGraph, ChecksOwn,
     EndIsStored, HasEarned, Launches, NoStack
<1>6. \A w \in Threads : ThreadOK(th'[w], stack', sp')
  BY <1>1, <1>3, <1>5 DEF TravInv
<1>7. WorkersCheck' /\ th'[Creator].pc # "idle"
  <2>1. Creator \in Threads
    BY ConvergenceAssumption DEF Threads
  <2> QED
    BY <1>2, <1>3, <1>4, <2>1 DEF TravInv, WorkersCheck
<1>8. LaunchIsPrivate'
  <2> SUFFICES ASSUME NEW v \in Threads, Launches(th'[v])
               PROVE  /\ Unlaunched(th'[v], stack', sp', casts')
                      /\ \A u \in Threads \ {v} : Apart(th'[u], th'[v].st.trav)
    BY DEF LaunchIsPrivate
  <2>1. th'[v] = th[v] /\ Launches(th[v])
    BY <1>3, <1>5
  <2>2. Apart(x, th[v].st.trav)
    BY <1>2, <2>1, LaunchFacts DEF Apart, NoStack, NoMsg
  <2>3. Unlaunched(th[v], stack, sp, casts)
    BY <2>1 DEF TravInv, LaunchIsPrivate
  <2> QED
    BY <1>1, <1>3, <2>1, <2>2, <2>3, LaunchFacts
<1> QED
  BY <1>1, <1>6, <1>7, <1>8 DEF TravInv

\* Before the first traversal is stored.
LEMMA TravInitially == Init => TravInv
<1> SUFFICES ASSUME Init PROVE TravInv
  OBVIOUS
<1> DEFINE st == [NoStack EXCEPT !.live = TRUE, !.tmpl = Op[Creator].tmpl]
           x(w) == [Idle EXCEPT !.pc = "store1", !.st = stack, !.goal = Op[w]]
<1>1. /\ stack = st /\ sp = << >> /\ casts = {}
      /\ th = [w \in Threads |-> IF w = Creator THEN x(w) ELSE Idle]
  BY Zenon DEF Init
<1>2. st.trav = 0 /\ st.action = "CREATE"
  BY DEF NoStack
<1>3. x(Creator).pc = "store1" /\ x(Creator).st = stack /\ x(Creator).goal.action = "CREATE"
  BY ConvergenceAssumption DEF Idle
<1>4. Idle.pc = "idle" /\ Idle.st.trav = 0 /\ Idle.st.action = "CREATE"
  BY DEF Idle, NoStack
<1>5. << >> = [i \in {} |-> i]
  OBVIOUS
<1> HIDE DEF st, x
<1>6. TypeOK
  BY TypesInitially
<1>7. \A w \in Threads : \/ th[w].pc = "store1" /\ th[w].st = stack /\ th[w].goal.action = "CREATE"
                         \/ th[w] = Idle
  BY <1>1, <1>3
<1>8. Creator \in Threads /\ th[Creator].pc = "store1"
  BY <1>1, <1>3, ConvergenceAssumption DEF Threads
<1>9. WorkersCheck /\ LaunchIsPrivate
  BY <1>4, <1>7 DEF WorkersCheck, LaunchIsPrivate, Launches, Checks
<1>10. PointsMatch(stack, sp)
  BY <1>1, <1>5 DEF PointsMatch
<1>11. \A w \in Threads : ThreadOK(th[w], stack, sp)
  <2> SUFFICES ASSUME NEW w \in Threads PROVE ThreadOK(th[w], stack, sp)
    OBVIOUS
  <2>1. th[w].pc \in {"idle", "store1"} /\ OneAction(th[w], stack) /\ th[w].st.action = "CREATE"
    BY <1>1, <1>2, <1>4, <1>7 DEF OneAction
  <2>2. ~RollbackDue(th[w])
    BY <1>4, <1>7 DEF RollbackDue
  <2> QED
    BY <2>1, <2>2 DEF ThreadOK, DeletionStays, GraphAgrees, UsesGraph, ChecksOwn, EndIsStored,
                      HasEarned, Checks
<1> QED
  BY <1>1, <1>2, <1>6, <1>8, <1>9, <1>10, <1>11 DEF TravInv

\* Every step keeps what holds of traversals.
LEMMA TravStep == TravInv /\ [Next]_vars => TravInv'
<1> SUFFICES ASSUME TravInv, [Next]_vars PROVE TravInv'
  OBVIOUS
<1>1. TypeOK'
  BY TypesKept DEF TravInv
<1>2. CASE UNCHANGED vars
  BY <1>2 DEF vars, TravInv, TypeOK, WorkersCheck, LaunchIsPrivate, Ids, Travs, Nodes, Data, Graphs,
     Stacks, Rows, Msgs, ThreadStates
<1>3. ASSUME NEW o \in Ops, Request(o) PROVE TravInv'
  BY <1>1, <1>3, RequestKeeps
<1>4. ASSUME NEW w \in Threads, ConvergeStep(w) PROVE TravInv'
  BY <1>1, <1>4, StoreTraversalKeeps, DeletePrevSyncPointsKeeps, UpdateOrStoreResourcesKeeps,
     StoreDepsKeeps, TriggerLeavesKeeps, RollbackKeeps, MarkCompleteKeeps, PurgeTemplateKeeps,
     PurgeSyncPointsKeeps DEF ConvergeStep
<1>5. ASSUME NEW w \in Threads, CheckStep(w) PROVE TravInv'
  <2>1. \/ CheckWorks(w) \/ HandleFailure(w) \/ ReloadAfterTimeout(w) \/ Retrigger(w) \/ Propagate(w)
    BY <1>5 DEF CheckStep, CheckWorks
  <2>2. CheckWorks(w) => Quiet(w)
    BY CheckIsQuiet DEF TravInv
  <2> QED
    BY <1>1, <2>1, <2>2, QuietKeeps, HandleFailureKeeps, ReloadAfterTimeoutKeeps, RetriggerKeeps,
       PropagateKeeps
<1>6. ASSUME NEW w \in Workers, NEW m \in casts, Receive(w, m) \/ ReceiveLate(w, m) PROVE TravInv'
  BY <1>1, <1>6, ReceiveKeeps
<1>7. ASSUME NEW e \in Engines, Crash(e) PROVE TravInv'
  BY <1>1, <1>7, CrashKeeps
<1> QED
  BY <1>2, <1>3, <1>4, <1>5, <1>6, <1>7 DEF Next

\* What holds of traversals, in every state.
THEOREM TraversalInvariant == Spec => []TravInv
  BY TravInitially, TravStep, PTL DEF Spec

\* Rows, messages and the objects that threads hold name only ids and
\* traversals that were handed out, whatever the templates are.
THEOREM ConvergenceTypes == Spec => []TypeOK
<1>1. TravInv => TypeOK
  BY DEF TravInv
<1> QED
  BY <1>1, TraversalInvariant, PTL
-----------------------------------------------------------------------------
(* What a step may do to the stack.                                          *)

\* A write to the row of the stack is allowed.
Allowed ==
    /\ stack.action = "DELETE" => stack'.action = "DELETE"
    /\ stack.status = "IN_PROGRESS" /\ stack'.status = "COMPLETE" => Earned(stack, sp)
    /\ stack.action # "ROLLBACK" /\ stack'.action = "ROLLBACK" =>
          stack.status # "IN_PROGRESS" /\ stack.action \in {"CREATE", "UPDATE"}

\* Every step keeps to it.
LEMMA StackWrites ==
    ASSUME TravInv, [Next]_vars
    PROVE  Allowed
<1>1. CASE UNCHANGED stack
  BY <1>1 DEF Allowed
<1>2. ASSUME NEW w \in Threads, StoreTraversal(w) PROVE Allowed
  <2> DEFINE st == th[w].st
             goal == th[w].goal
             new == [st EXCEPT !.trav = nextTrav, !.action = goal.action, !.status = "IN_PROGRESS",
                               !.tmpl = goal.tmpl,
                               !.prev = IF goal.action = "CREATE" THEN @ ELSE st.tmpl]
  <2>1. new.action = goal.action /\ new.status = "IN_PROGRESS"
    BY ThreadFields DEF TravInv, Stacks
  <2>2. /\ st.trav = stack.trav /\ goal.action # "DELETE" => stack.action # "DELETE"
        /\ st.trav = stack.trav /\ goal.action = "ROLLBACK" =>
              stack.status # "IN_PROGRESS" /\ stack.action \in {"CREATE", "UPDATE"}
    BY <1>2 DEF StoreTraversal, At, TravInv, ThreadOK, DeletionStays, EndIsStored, RollbackDue,
       OneAction
  <2>3. stack' = IF Current(st.trav) THEN new ELSE stack
    BY <1>2 DEF StoreTraversal, Store
  <2> HIDE DEF new
  <2> QED
    BY <2>1, <2>2, <2>3 DEF Allowed, Current
<1>3. ASSUME NEW w \in Threads, StoreDeps(w) PROVE Allowed
  <2>1. th[w].st.status = "IN_PROGRESS"
    BY <1>3, LaunchFacts DEF StoreDeps, At, Launches
  <2>2. stack' = IF Current(th[w].st.trav) THEN th[w].st ELSE stack
    BY <1>3 DEF StoreDeps, Store
  <2> QED
    BY <2>1, <2>2, WrittenBack DEF Allowed, Current
<1>4. ASSUME NEW w \in Threads, Rollback(w) \/ PurgeTemplate(w) PROVE Allowed
  <2> DEFINE st2 == [th[w].st EXCEPT !.prev = None]
  <2>1. /\ th[w].pc \in {"rollback", "purge"}
        /\ stack' = stack \/ (Current(th[w].st.trav) /\ stack' = st2)
    BY <1>4, Zenon DEF Rollback, PurgeTemplate, Store, At
  <2>2. st2.action = th[w].st.action /\ st2.status = th[w].st.status
    BY ThreadFields DEF TravInv, Stacks
  <2> HIDE DEF st2
  <2>3. th[w].st.trav = stack.trav => stack.status # "IN_PROGRESS"
    BY <2>1 DEF TravInv, ThreadOK, EndIsStored, RollbackDue
  <2> QED
    BY <2>1, <2>2, <2>3, WrittenBack DEF Allowed, Current
<1>5. ASSUME NEW w \in Threads, MarkComplete(w) \/ HandleFailure(w) PROVE Allowed
  <2> DEFINE st(status) == [th[w].st EXCEPT !.status = status]
  <2>1. \/ th[w].pc = "complete" /\ StateSet(st("COMPLETE"))
        \/ StateSet(st("FAILED"))
    BY <1>5, Zenon DEF MarkComplete, HandleFailure, At
  <2>2. \A status : /\ st(status).action = th[w].st.action /\ st(status).status = status
                    /\ st(status).trav = th[w].st.trav
    BY ThreadFields DEF TravInv, Stacks
  <2> HIDE DEF st
  <2>3. th[w].pc = "complete" /\ th[w].st.trav = stack.trav /\ stack.status = "IN_PROGRESS"
            => Earned(stack, sp)
    BY DEF TravInv, ThreadOK, HasEarned
  <2>4. ASSUME NEW status, StateSet(st(status))
        PROVE  \/ stack' = stack
               \/ /\ th[w].st.trav = stack.trav /\ stack'.status = status
                  /\ stack'.action = stack.action
    <3>1. stack \in Stacks
      BY DEF TravInv, TypeOK
    <3>2. Current(st(status).trav) =>
             /\ stack' = [stack EXCEPT !.action = st(status).action, !.status = st(status).status]
             /\ th[w].st.trav = stack.trav
      BY <2>2, <2>4 DEF StateSet, Current
    <3>3. ~Current(st(status).trav) => stack' = stack
      BY <2>4 DEF StateSet
    <3>4. CASE Current(st(status).trav)
      <4>1. th[w].st.action = stack.action /\ st(status).action = stack.action
            /\ st(status).status = status
        BY <2>2, <3>2, <3>4, WrittenBack
      <4>2. stack'.action = st(status).action /\ stack'.status = st(status).status
        BY <3>1, <3>2, <3>4 DEF Stacks
      <4> QED
        BY <3>2, <3>4, <4>1, <4>2
    <3> QED
      BY <3>3, <3>4
  <2> QED
    BY <2>1, <2>3, <2>4 DEF Allowed
<1>6. ASSUME NEW w \in Threads, PurgeSyncPoints(w) PROVE Allowed
  <2>1. stack \in Stacks /\ stack' \in {stack, [stack EXCEPT !.live = FALSE]}
    BY <1>6 DEF PurgeSyncPoints, TravInv, TypeOK
  <2> QED
    BY <2>1 DEF Allowed, Stacks
<1>7. ASSUME NEW w \in Threads, CheckStep(w) PROVE UNCHANGED stack \/ HandleFailure(w)
  <2>1. CheckWorks(w) => UNCHANGED stack
    BY CheckIsQuiet DEF Quiet, TravInv
  <2>2. ReloadAfterTimeout(w) => UNCHANGED stack
    BY DEF ReloadAfterTimeout, db
  <2>3. Retrigger(w) => UNCHANGED stack
    BY DEF Retrigger
  <2>4. Propagate(w) => UNCHANGED stack
    BY DEF Propagate
  <2> QED
    BY <1>7, <2>1, <2>2, <2>3, <2>4 DEF CheckStep, CheckWorks
<1>8. ASSUME NEW w \in Threads, ConvergeStep(w) PROVE Allowed
  <2>1. DeletePrevSyncPoints(w) \/ TriggerLeaves(w) => UNCHANGED stack
    BY DEF DeletePrevSyncPoints, TriggerLeaves
  <2>2. UpdateOrStoreResources(w) => UNCHANGED stack
    BY Zenon DEF UpdateOrStoreResources
  <2> QED
    BY <1>1, <1>2, <1>3, <1>4, <1>5, <1>6, <1>8, <2>1, <2>2 DEF ConvergeStep
<1>9. ASSUME NEW o \in Ops, Request(o) PROVE UNCHANGED stack
  BY <1>9 DEF Request, db
<1>10. ASSUME NEW w \in Workers, NEW m \in casts, Receive(w, m) \/ ReceiveLate(w, m)
       PROVE  UNCHANGED stack
  BY <1>10 DEF Receive, ReceiveLate
<1>11. ASSUME NEW e \in Engines, Crash(e) PROVE UNCHANGED stack
  BY <1>11 DEF Crash, db
<1>12. CASE UNCHANGED vars
  BY <1>1, <1>12 DEF vars
<1> QED
  BY <1>1, <1>5, <1>7, <1>8, <1>9, <1>10, <1>11, <1>12 DEF Next

\* Neither an update that is being prepared, nor a rollback, nor a worker that
\* stores a state it has loaded earlier takes the place of a deletion.
THEOREM DeletionIsFinal == Spec => DeleteIsFinal
<1>1. TravInv /\ [Next]_vars => [stack.action = "DELETE" => stack'.action = "DELETE"]_vars
  BY StackWrites DEF Allowed
<1> QED
  BY <1>1, TraversalInvariant, PTL DEF Spec, DeleteIsFinal

\* A stack in progress becomes COMPLETE only when every root of the graph of the
\* traversal in its row has reported.
THEOREM CompletionIsEarned == Spec => CompleteIsEarned
<1> DEFINE step == stack.status = "IN_PROGRESS" /\ stack'.status = "COMPLETE" =>
                     \/ stack.deps.nodes = {}
                     \/ /\ stack.trav \in DOMAIN sp
                        /\ roots(stack.deps) \subseteq senders(sp[stack.trav][StackNode])
<1>1. TravInv /\ [Next]_vars => [step]_vars
  BY StackWrites DEF Allowed, Earned
<1> QED
  BY <1>1, TraversalInvariant, PTL DEF Spec, CompleteIsEarned

\* A rollback takes the place of a creation or an update that has ended, neither
\* of an operation in progress nor of a deletion, whatever users request
\* meanwhile and engines die.
THEOREM RollbackWaits == Spec => RollbackFollows
<1>1. TravInv /\ [Next]_vars =>
        [stack.action # "ROLLBACK" /\ stack'.action = "ROLLBACK" =>
            stack.status # "IN_PROGRESS" /\ stack.action \in {"CREATE", "UPDATE"}]_vars
  BY StackWrites DEF Allowed
<1> QED
  BY <1>1, TraversalInvariant, PTL DEF Spec, RollbackFollows
-----------------------------------------------------------------------------
(* Steps and locks.                                                          *)

\* The steps of a check that hold the lock of the resource.
Locked == {"begin", "handler", "release", "destroy"}

\* Only w moves, to pc, with its message.
MovesTo(w, pc) ==
    /\ \A v \in Threads \ {w} : th'[v] = th[v]
    /\ th'[w].pc = pc /\ th'[w].msg = th[w].msg

\* The ways in which a thread that goes on is written.
LEMMA MoveForms ==
    ASSUME TypeOK, NEW w \in Threads, NEW pc
    PROVE  /\ Goto(w, pc) => MovesTo(w, pc)
           /\ \A st : th' = [th EXCEPT ![w].st = st, ![w].pc = pc] => MovesTo(w, pc)
           /\ \A key : th' = [th EXCEPT ![w].key = key, ![w].pc = pc] => MovesTo(w, pc)
           /\ \A rs : th' = [th EXCEPT ![w].rs = rs, ![w].pc = pc] => MovesTo(w, pc)
           /\ \A out : th' = [th EXCEPT ![w].out = out, ![w].pc = pc] => MovesTo(w, pc)
           /\ \A rs, out : th' = [th EXCEPT ![w].rs = rs, ![w].out = out, ![w].pc = pc]
                 => MovesTo(w, pc)
           /\ \A rs, out : th' = [th EXCEPT ![w].pc = pc, ![w].out = out, ![w].rs = rs]
                 => MovesTo(w, pc)
<1>1. th[w] \in ThreadStates /\ th = [v \in Threads |-> th[v]]
  BY TypeParts
<1>2. ASSUME NEW x, th' = [th EXCEPT ![w] = x], x.pc = pc, x.msg = th[w].msg
      PROVE  MovesTo(w, pc)
  BY <1>1, <1>2 DEF MovesTo
<1>3. Goto(w, pc) => MovesTo(w, pc)
  <2> DEFINE x == [th[w] EXCEPT !.pc = pc]
  <2>1. Goto(w, pc) => th' = [th EXCEPT ![w] = x]
    BY <1>1 DEF Goto
  <2>2. x.pc = pc /\ x.msg = th[w].msg
    BY <1>1 DEF ThreadStates
  <2> HIDE DEF x
  <2> QED
    BY <1>2, <2>1, <2>2
<1>4. ASSUME NEW st, th' = [th EXCEPT ![w].st = st, ![w].pc = pc] PROVE MovesTo(w, pc)
  <2> DEFINE x == [th[w] EXCEPT !.st = st, !.pc = pc]
  <2>1. th' = [th EXCEPT ![w] = x]
    BY <1>1, <1>4
  <2>2. x.pc = pc /\ x.msg = th[w].msg
    BY <1>1 DEF ThreadStates
  <2> HIDE DEF x
  <2> QED
    BY <1>2, <2>1, <2>2
<1>6. ASSUME NEW key, th' = [th EXCEPT ![w].key = key, ![w].pc = pc] PROVE MovesTo(w, pc)
  <2> DEFINE x == [th[w] EXCEPT !.key = key, !.pc = pc]
  <2>1. th' = [th EXCEPT ![w] = x]
    BY <1>1, <1>6
  <2>2. x.pc = pc /\ x.msg = th[w].msg
    BY <1>1 DEF ThreadStates
  <2> HIDE DEF x
  <2> QED
    BY <1>2, <2>1, <2>2
<1>7. ASSUME NEW rs, th' = [th EXCEPT ![w].rs = rs, ![w].pc = pc] PROVE MovesTo(w, pc)
  <2> DEFINE x == [th[w] EXCEPT !.rs = rs, !.pc = pc]
  <2>1. th' = [th EXCEPT ![w] = x]
    BY <1>1, <1>7
  <2>2. x.pc = pc /\ x.msg = th[w].msg
    BY <1>1 DEF ThreadStates
  <2> HIDE DEF x
  <2> QED
    BY <1>2, <2>1, <2>2
<1>8. ASSUME NEW out, th' = [th EXCEPT ![w].out = out, ![w].pc = pc] PROVE MovesTo(w, pc)
  <2> DEFINE x == [th[w] EXCEPT !.out = out, !.pc = pc]
  <2>1. th' = [th EXCEPT ![w] = x]
    BY <1>1, <1>8
  <2>2. x.pc = pc /\ x.msg = th[w].msg
    BY <1>1 DEF ThreadStates
  <2> HIDE DEF x
  <2> QED
    BY <1>2, <2>1, <2>2
<1>9. ASSUME NEW rs, NEW out,
             \/ th' = [th EXCEPT ![w].rs = rs, ![w].out = out, ![w].pc = pc]
             \/ th' = [th EXCEPT ![w].pc = pc, ![w].out = out, ![w].rs = rs]
      PROVE  MovesTo(w, pc)
  <2> DEFINE x == [th[w] EXCEPT !.rs = rs, !.out = out, !.pc = pc]
  <2>1. th' = [th EXCEPT ![w] = x]
    BY <1>1, <1>9
  <2>2. x.pc = pc /\ x.msg = th[w].msg
    BY <1>1 DEF ThreadStates
  <2> HIDE DEF x
  <2> QED
    BY <1>2, <2>1, <2>2
<1> QED
  BY <1>3, <1>4, <1>6, <1>7, <1>8, <1>9, Zenon

\* The thread w leaves, or goes where no lock is held.
LeavesLock(w) ==
    /\ \A v \in Threads \ {w} : th'[v] = th[v]
    /\ th'[w].pc \notin Locked \cup {"steal"}

\* A thread that returns leaves.
LEMMA ReturnLeaves ==
    ASSUME TypeOK, NEW w \in Threads, Return(w)
    PROVE  LeavesLock(w)
<1>1. PICK x : th' = [th EXCEPT ![w] = x] /\ Returned(w, x)
  BY HasReturned
<1>2. th'[w] = x /\ \A v \in Threads \ {w} : th'[v] = th[v]
  BY <1>1 DEF TypeOK
<1> QED
  BY <1>1, <1>2 DEF LeavesLock, Returned, Locked

\* So does one that goes on elsewhere.
LEMMA MoveLeaves ==
    ASSUME NEW w \in Threads, NEW pc, MovesTo(w, pc), pc \notin Locked \cup {"steal"}
    PROVE  LeavesLock(w)
  BY DEF MovesTo, LeavesLock

\* A row keeps its lock, or is new and unlocked.
EnginesStay ==
    \A i \in DOMAIN rsrc' :
        \/ i \in DOMAIN rsrc /\ rsrc'[i].engine = rsrc[i].engine
        \/ i \notin Ids /\ rsrc'[i].engine = None

\* A worker that holds a lock.
LEMMA HoldingIs ==
    ASSUME TypeOK, WorkersCheck, NEW w \in Threads, th[w].pc \in Locked
    PROVE  w \in Workers /\ th[w].msg.id \in Ids
<1>1. th[w].pc \in Checks
  BY DEF Locked, Checks
<1>2. th[w].msg \in Msgs
  BY <1>1, ThreadFields
<1> QED
  BY <1>1, <1>2 DEF WorkersCheck, Msgs

\* Steps that take no lock and give none away.
LEMMA LocksStay ==
    ASSUME TypeOK, WorkersCheck, LockInv, NEW w \in Threads, UNCHANGED dead, EnginesStay,
           \/ LeavesLock(w) /\ th[w].pc \notin Locked
           \/ \E pc \in Locked : MovesTo(w, pc) /\ th[w].pc \in Locked
    PROVE  LockInv'
<1>1. /\ \A v \in Threads \ {w} : th'[v] = th[v]
      /\ th'[w].pc \in Locked <=> th[w].pc \in Locked
      /\ th[w].pc \in Locked => th'[w].msg = th[w].msg
      /\ th'[w].pc # "steal"
  BY DEF LeavesLock, MovesTo, Locked
<1>2. \A v \in Workers : /\ Holding(v)' <=> Holding(v)
                         /\ Holding(v) => th'[v].msg = th[v].msg
  BY <1>1 DEF Holding, Alive, Locked, Threads
<1>3. LocksHaveHolders'
  <2> SUFFICES ASSUME NEW i \in DOMAIN rsrc', rsrc'[i].engine \notin dead \cup {None}
               PROVE  \E v \in Workers : Engine[v] = rsrc'[i].engine /\ Holding(v)' /\ th'[v].msg.id = i
    BY DEF LocksHaveHolders
  <2>1. i \in DOMAIN rsrc /\ rsrc'[i].engine = rsrc[i].engine
    BY DEF EnginesStay
  <2> QED
    BY <1>2, <2>1 DEF LockInv, LocksHaveHolders
<1>4. ASSUME dead' = {} PROVE LockIsExclusive' /\ HoldersAreNamed' /\ NobodySteals'
  <2>1. LockIsExclusive /\ HoldersAreNamed /\ NobodySteals
    BY <1>4 DEF LockInv
  <2>2. LockIsExclusive'
    BY <1>2, <2>1 DEF LockIsExclusive
  <2>3. HoldersAreNamed'
    <3> SUFFICES ASSUME NEW v \in Workers, Holding(v), th'[v].msg.id \in DOMAIN rsrc'
                 PROVE  rsrc'[th'[v].msg.id].engine = Engine[v]
      BY <1>2 DEF HoldersAreNamed
    <3>1. v \in Threads /\ th[v].pc \in Locked
      BY DEF Holding, Locked, Threads
    <3>2. th[v].msg.id \in Ids /\ th'[v].msg = th[v].msg
      BY <1>2, <3>1, HoldingIs
    <3> QED
      BY <2>1, <3>2 DEF HoldersAreNamed, EnginesStay
  <2>4. NobodySteals'
    BY <1>1, <2>1 DEF NobodySteals
  <2> QED
    BY <2>2, <2>3, <2>4
<1> QED
  BY <1>3, <1>4 DEF LockInv

\* The rows that a step writes without touching the columns of the lock.
LEMMA RowWritten ==
    ASSUME NEW w, NEW rs, WriteRow(th[w].msg.id, Stored(w, rs)), TypeOK, rs \in Rows
    PROVE  EnginesStay
<1> DEFINE id == th[w].msg.id
           row == Stored(w, rs)
<1>1. rsrc' = IF id \in DOMAIN rsrc THEN [rsrc EXCEPT ![id] = row] ELSE rsrc
  BY DEF WriteRow
<1>2. row.engine = rsrc[id].engine
  BY DEF Stored, Rows
<1> HIDE DEF row
<1> QED
  BY <1>1, <1>2 DEF EnginesStay

\* Operations on the stack, failures and reports are not done under a lock.
LEMMA OperationLeaves ==
    ASSUME TypeOK, NEW w \in Threads,
           \/ ConvergeStep(w) \/ HandleFailure(w) \/ ReloadAfterTimeout(w) \/ Retrigger(w)
           \/ Propagate(w)
    PROVE  th[w].pc \notin Locked /\ UNCHANGED dead /\ LeavesLock(w)
<1> DEFINE Free == {"delete_prev", "resources", "store2", "trigger", "store1", "complete", "rollback",
                    "purge", "purge_points", "fail", "reload", "retrigger"}
           Moves == Return(w) \/ \E pc \in Free : MovesTo(w, pc)
<1>1. ASSUME Moves PROVE LeavesLock(w)
  <2>1. \A pc \in Free : pc \notin Locked \cup {"steal"}
    BY DEF Locked
  <2> QED
    BY <1>1, <2>1, ReturnLeaves, MoveLeaves
<1>2. StoreTraversal(w) => Moves
  <2> DEFINE st == th[w].st
             goal == th[w].goal
             new == [st EXCEPT !.trav = nextTrav, !.action = goal.action, !.status = "IN_PROGRESS",
                               !.tmpl = goal.tmpl,
                               !.prev = IF goal.action = "CREATE" THEN @ ELSE st.tmpl]
             x == [th[w] EXCEPT !.st = new, !.old = st.trav, !.pc = "delete_prev"]
  <2>1. th[w] \in ThreadStates /\ th = [v \in Threads |-> th[v]]
    BY TypeParts
  <2> HIDE DEF new
  <2>2. StoreTraversal(w) => Return(w) \/ th' = [th EXCEPT ![w] = x]
    BY <2>1 DEF StoreTraversal, new
  <2>3. x.pc = "delete_prev" /\ x.msg = th[w].msg
    BY <2>1 DEF ThreadStates
  <2> HIDE DEF x
  <2>4. th' = [th EXCEPT ![w] = x] => MovesTo(w, "delete_prev")
    BY <2>1, <2>3 DEF MovesTo
  <2> QED
    BY <2>2, <2>4
<1>3. DeletePrevSyncPoints(w) \/ StoreDeps(w) \/ TriggerLeaves(w) => Moves
  BY MoveForms, Zenon DEF DeletePrevSyncPoints, StoreDeps, TriggerLeaves
<1>4. UpdateOrStoreResources(w) => Moves
  <2>1. UpdateOrStoreResources(w) =>
           \E deps : th' = [th EXCEPT ![w].st.deps = deps, ![w].pc = "store2"]
    BY Zenon DEF UpdateOrStoreResources
  <2>2. ASSUME NEW deps, th' = [th EXCEPT ![w].st.deps = deps, ![w].pc = "store2"]
        PROVE  th' = [th EXCEPT ![w].st = [th[w].st EXCEPT !.deps = deps], ![w].pc = "store2"]
    BY <2>2, TypeParts
  <2> QED
    BY <2>1, <2>2, MoveForms, Zenon
<1>5. Rollback(w) => Moves
  <2> DEFINE goal == [action |-> "ROLLBACK",
                      tmpl |-> IF th[w].st.prev = None THEN EmptyTmpl ELSE th[w].st.prev]
             x == [th[w] EXCEPT !.goal = goal, !.st.prev = None, !.pc = "store1"]
  <2>1. Rollback(w) =>
           \/ Return(w)
           \/ th' = [th EXCEPT ![w].goal = goal, ![w].st.prev = None, ![w].pc = "store1"]
    BY Zenon DEF Rollback
  <2>2. ASSUME th' = [th EXCEPT ![w].goal = goal, ![w].st.prev = None, ![w].pc = "store1"]
        PROVE  MovesTo(w, "store1")
    <3>1. th[w] \in ThreadStates /\ th = [v \in Threads |-> th[v]]
      BY TypeParts
    <3> HIDE DEF goal
    <3>2. th' = [th EXCEPT ![w] = x]
      BY <2>2, <3>1
    <3>3. x.pc = "store1" /\ x.msg = th[w].msg
      BY <3>1 DEF ThreadStates
    <3> HIDE DEF x
    <3> QED
      BY <3>1, <3>2, <3>3 DEF MovesTo
  <2> QED
    BY <2>1, <2>2, Zenon
<1>6. MarkComplete(w) \/ HandleFailure(w) \/ ReloadAfterTimeout(w) => Moves
  BY MoveForms, Zenon DEF MarkComplete, HandleFailure, ReloadAfterTimeout
<1>7. PurgeTemplate(w) \/ PurgeSyncPoints(w) \/ Retrigger(w) \/ Propagate(w) => Moves
  BY MoveForms, Zenon DEF PurgeTemplate, PurgeSyncPoints, Retrigger, Propagate
<1>8. th[w].pc \notin Locked /\ UNCHANGED dead
  <2>1. DeletePrevSyncPoints(w) \/ StoreTraversal(w) \/ StoreDeps(w) \/ TriggerLeaves(w)
           => th[w].pc \notin Locked /\ UNCHANGED dead
    BY DEF DeletePrevSyncPoints, StoreTraversal, StoreDeps, TriggerLeaves, At, Locked
  <2>2. UpdateOrStoreResources(w) => th[w].pc = "resources" /\ UNCHANGED dead
    BY Zenon DEF UpdateOrStoreResources, At
  <2>3. Rollback(w) => th[w].pc = "rollback" /\ UNCHANGED dead
    BY Zenon DEF Rollback, At
  <2>4. MarkComplete(w) => th[w].pc = "complete" /\ UNCHANGED dead
    BY Zenon DEF MarkComplete, At
  <2>5. HandleFailure(w) => th[w].pc = "fail" /\ UNCHANGED dead
    BY Zenon DEF HandleFailure, At
  <2>6. ReloadAfterTimeout(w) => th[w].pc = "reload" /\ UNCHANGED dead
    BY DEF ReloadAfterTimeout, At
  <2>7. PurgeTemplate(w) \/ PurgeSyncPoints(w) => th[w].pc \in {"purge", "purge_points"} /\ UNCHANGED dead
    BY Zenon DEF PurgeTemplate, PurgeSyncPoints, At
  <2>8. Retrigger(w) => th[w].pc = "retrigger" /\ UNCHANGED dead
    BY Zenon DEF Retrigger, At
  <2>9. Propagate(w) => th[w].pc = "propagate" /\ UNCHANGED dead
    BY Zenon DEF Propagate, At
  <2> QED
    BY <2>1, <2>2, <2>3, <2>4, <2>5, <2>6, <2>7, <2>8, <2>9 DEF ConvergeStep, Locked
<1> HIDE DEF Moves
<1> QED
  BY <1>1, <1>2, <1>3, <1>4, <1>5, <1>6, <1>7, <1>8 DEF ConvergeStep

\* They leave the locks of the resource table as they are.
LEMMA OperationKeepsEngines ==
    ASSUME TypeOK, NEW w \in Threads,
           \/ ConvergeStep(w) \/ HandleFailure(w) \/ ReloadAfterTimeout(w) \/ Retrigger(w)
           \/ Propagate(w)
    PROVE  EnginesStay
<1>1. CASE UNCHANGED rsrc
  BY <1>1 DEF EnginesStay
<1>2. CASE UpdateOrStoreResources(w)
  <2> DEFINE names == TmplNames[th[w].st.tmpl]
             best == [n \in names |-> best_existing(n, th[w].st.tmpl, th[w].st.prev, rsrc)]
             new == {n \in names : best[n] = {}}
             ids == nextId .. (nextId + Cardinality(new) - 1)
             fresh == CHOOSE f \in [new -> ids] : IsInjective(f)
             row(i) == NewRow(CHOOSE n \in new : fresh[n] = i, th[w].st.tmpl, {}, None)
             same(i, S) == IF i \in S /\ rsrc[i].engine = None THEN Bumped(rsrc[i]) ELSE rsrc[i]
  <2>1. \E S : rsrc' = [i \in DOMAIN rsrc \cup ids |-> IF i \in DOMAIN rsrc THEN same(i, S) ELSE row(i)]
    BY <1>2, Zenon DEF UpdateOrStoreResources
  <2>2. \A i : row(i).engine = None
    BY DEF NewRow
  <2>3. \A i \in DOMAIN rsrc : \A S : same(i, S).engine = rsrc[i].engine
    BY DEF Bumped, TypeOK, Rows
  <2> HIDE DEF row, same, new
  <2>4. \A i \in ids : i \notin Ids
    BY DEF Ids, TypeOK
  <2> QED
    BY <2>1, <2>2, <2>3, <2>4 DEF EnginesStay
<1>3. CASE PurgeSyncPoints(w)
  <2>1. rsrc' \in {rsrc, << >>}
    BY <1>3 DEF PurgeSyncPoints
  <2>2. DOMAIN << >> = {}
    OBVIOUS
  <2> QED
    BY <2>1, <2>2 DEF EnginesStay
<1>4. StoreTraversal(w) \/ DeletePrevSyncPoints(w) \/ StoreDeps(w) \/ TriggerLeaves(w) => UNCHANGED rsrc
  BY DEF StoreTraversal, DeletePrevSyncPoints, StoreDeps, TriggerLeaves
<1>5. Rollback(w) \/ MarkComplete(w) \/ PurgeTemplate(w) \/ HandleFailure(w) => UNCHANGED rsrc
  BY Zenon DEF Rollback, MarkComplete, PurgeTemplate, HandleFailure
<1>6. ReloadAfterTimeout(w) \/ Retrigger(w) \/ Propagate(w) => UNCHANGED rsrc
  <2>1. ReloadAfterTimeout(w) => UNCHANGED rsrc
    BY DEF ReloadAfterTimeout, db
  <2> QED
    BY <2>1, Zenon DEF Retrigger, Propagate
<1> QED
  BY <1>1, <1>2, <1>3, <1>4, <1>5, <1>6 DEF ConvergeStep

\* Under the lock, rows and threads move on.
LEMMA BeginHolds ==
    ASSUME TypeOK, NEW w \in Threads, BeginCreate(w) \/ BeginUpdate(w) \/ BeginCleanup(w)
    PROVE  /\ th[w].pc \in Locked /\ UNCHANGED dead /\ EnginesStay
           /\ \E pc \in Locked : MovesTo(w, pc)
<1>1. th[w].pc = "begin" /\ UNCHANGED dead
  BY DEF BeginCreate, BeginUpdate, BeginCleanup, At
<1>2. th[w].rs \in Rows /\ th[w].msg \in Msgs /\ th[w].st \in Stacks
  BY <1>1, ThreadFields DEF Checks
<1>3. Claimed(w) \in Rows
  <2>1. reported(w) \in SUBSET Ids /\ th[w].st.tmpl \in Tmpls
    <3>1. th[w].msg.data \in Data
      BY <1>2 DEF Msgs
    <3> QED
      BY <1>2, <3>1 DEF reported, Data, Stacks
  <2> QED
    BY <1>2, <2>1 DEF Claimed, Rows
<1>4. \/ Goto(w, "destroy") /\ UNCHANGED rsrc
      \/ \E rs, out : SkipTo(w, rs, out)
      \/ \E rs \in Rows, action \in {"CREATE", "UPDATE", "DELETE"} : StartAction(w, rs, action)
  BY <1>2, <1>3, Zenon DEF BeginCreate, BeginUpdate, BeginCleanup
<1>5. CASE Goto(w, "destroy") /\ UNCHANGED rsrc
  <2>1. EnginesStay
    BY <1>5 DEF EnginesStay
  <2>2. MovesTo(w, "destroy")
    BY <1>5, MoveForms, Zenon
  <2> QED
    BY <1>1, <2>1, <2>2 DEF Locked
<1>6. ASSUME NEW rs, NEW out, SkipTo(w, rs, out) PROVE MovesTo(w, "release") /\ EnginesStay
  <2>1. th' = [th EXCEPT ![w].rs = rs, ![w].out = out, ![w].pc = "release"] /\ UNCHANGED rsrc
    BY <1>6 DEF SkipTo
  <2>2. MovesTo(w, "release")
    BY <2>1, MoveForms, Zenon
  <2> QED
    BY <2>1, <2>2 DEF EnginesStay
<1>7. ASSUME NEW rs \in Rows, NEW action \in {"CREATE", "UPDATE", "DELETE"}, StartAction(w, rs, action)
      PROVE  MovesTo(w, "handler") /\ EnginesStay
  <2> DEFINE rs1 == [rs EXCEPT !.action = action]
             rs2 == [rs EXCEPT !.action = action, !.status = "IN_PROGRESS"]
  <2>1. th' = [th EXCEPT ![w].rs = rs2, ![w].pc = "handler"] /\ WriteRow(th[w].msg.id, Stored(w, rs2))
    BY <1>7 DEF StartAction
  <2>2. rs1 \in Rows
    BY RowField DEF Actions
  <2>3. rs2 = [rs1 EXCEPT !.status = "IN_PROGRESS"]
    OBVIOUS
  <2> HIDE DEF rs1, rs2
  <2>4. rs2 \in Rows
    BY <2>2, <2>3, RowField DEF Statuses
  <2>5. MovesTo(w, "handler")
    BY <2>1, MoveForms, Zenon
  <2> QED
    BY <2>1, <2>4, <2>5, RowWritten
<1>8. "release" \in Locked /\ "handler" \in Locked /\ "begin" \in Locked
  BY DEF Locked
<1> QED
  BY <1>1, <1>4, <1>5, <1>6, <1>7, <1>8

\* The end of a handler is still under the lock.
LEMMA HandlerHolds ==
    ASSUME TypeOK, NEW w \in Threads,
           HandlerDone(w) \/ \E k \in {"fail", "timeout"} : HandlerFails(w, k)
    PROVE  /\ th[w].pc \in Locked /\ UNCHANGED dead /\ EnginesStay
           /\ \E pc \in Locked : MovesTo(w, pc)
<1> DEFINE rs(status) == [th[w].rs EXCEPT !.status = status]
           claimed(status) == [Claimed(w) EXCEPT !.status = status]
<1>1. th[w].pc = "handler" /\ UNCHANGED dead
  BY DEF HandlerDone, HandlerFails, At
<1>2. th[w].rs \in Rows
  BY <1>1, ThreadFields DEF Checks
<1>3. rs("COMPLETE") \in Rows /\ rs("FAILED") \in Rows
  BY <1>2, RowField DEF Statuses
<1>4. /\ UNCHANGED rsrc \/ \E status \in {"COMPLETE", "FAILED"} :
                              WriteRow(th[w].msg.id, Stored(w, rs(status)))
      /\ MovesTo(w, "release") \/ MovesTo(w, "destroy")
  <2>1. HandlerDone(w) =>
          /\ UNCHANGED rsrc \/ WriteRow(th[w].msg.id, Stored(w, rs("COMPLETE")))
          /\ \/ th' = [th EXCEPT ![w].rs = rs("COMPLETE"), ![w].out = "done", ![w].pc = "release"]
             \/ th' = [th EXCEPT ![w].out = "replace", ![w].pc = "release"]
             \/ th' = [th EXCEPT ![w].rs = claimed("COMPLETE"), ![w].out = "done", ![w].pc = "release"]
             \/ th' = [th EXCEPT ![w].rs = rs("COMPLETE"), ![w].pc = "destroy"]
    BY Zenon DEF HandlerDone
  <2>2. ASSUME NEW k, HandlerFails(w, k)
        PROVE  /\ WriteRow(th[w].msg.id, Stored(w, rs("FAILED")))
               /\ MovesTo(w, "release")
    <3>1. /\ WriteRow(th[w].msg.id, Stored(w, rs("FAILED")))
          /\ \E r, out : th' = [th EXCEPT ![w].pc = "release", ![w].out = out, ![w].rs = r]
      BY <2>2, Zenon DEF HandlerFails
    <3>2. \A r, out : th' = [th EXCEPT ![w].pc = "release", ![w].out = out, ![w].rs = r]
             => MovesTo(w, "release")
      BY MoveForms, Zenon
    <3> QED
      BY <3>1, <3>2, Zenon
  <2> HIDE DEF rs, claimed
  <2>4. HandlerDone(w) => MovesTo(w, "release") \/ MovesTo(w, "destroy")
    <3>1. \A r, out : th' = [th EXCEPT ![w].rs = r, ![w].out = out, ![w].pc = "release"]
             => MovesTo(w, "release")
      BY MoveForms, Zenon
    <3>2. th' = [th EXCEPT ![w].out = "replace", ![w].pc = "release"] => MovesTo(w, "release")
      BY MoveForms, Zenon
    <3>3. \A r : th' = [th EXCEPT ![w].rs = r, ![w].pc = "destroy"] => MovesTo(w, "destroy")
      BY MoveForms, Zenon
    <3> QED
      BY <2>1, <3>1, <3>2, <3>3, Zenon
  <2>3. "COMPLETE" \in {"COMPLETE", "FAILED"} /\ "FAILED" \in {"COMPLETE", "FAILED"}
    OBVIOUS
  <2> QED
    BY <2>1, <2>2, <2>3, <2>4, Zenon
<1> HIDE DEF rs
<1>5. EnginesStay
  <2>1. UNCHANGED rsrc => EnginesStay
    BY DEF EnginesStay
  <2> QED
    BY <1>3, <1>4, <2>1, RowWritten
<1> QED
  BY <1>1, <1>4, <1>5 DEF Locked

\* The steps of a check that hold no lock.
LEMMA CheckLeaves ==
    ASSUME TypeOK, NEW w \in Threads,
           \/ AcquireRead(w) \/ Replace(w) \/ MarkFailed(w)
           \/ TrySteal(w) /\ dead = {}
    PROVE  /\ th[w].pc \notin Locked /\ UNCHANGED dead /\ EnginesStay /\ LeavesLock(w)
<1>1. CASE AcquireRead(w)
  <2>1. /\ th[w].pc = "acquire" /\ UNCHANGED <<dead, rsrc>>
        /\ Return(w) \/ \E key : th' = [th EXCEPT ![w].key = key, ![w].pc = "cas"]
    BY <1>1, Zenon DEF AcquireRead, At, db
  <2>2. Return(w) \/ MovesTo(w, "cas")
    BY <2>1, MoveForms, Zenon
  <2> QED
    BY <2>1, <2>2, ReturnLeaves, MoveLeaves DEF Locked, EnginesStay
<1>2. CASE TrySteal(w) /\ dead = {}
  <2>1. /\ th[w].pc = "in_progress" /\ UNCHANGED <<dead, rsrc>> /\ Return(w)
    BY <1>2 DEF TrySteal, At, db
  <2> QED
    BY <2>1, ReturnLeaves DEF Locked, EnginesStay
<1>3. CASE Replace(w)
  <2> DEFINE id == th[w].msg.id
             new == NewRow(th[w].rs.name, th[w].st.tmpl, th[w].rs.requires, id)
             replaced == [rsrc[id] EXCEPT !.status = "COMPLETE", !.replaced_by = nextId]
  <2>1. /\ th[w].pc = "replace" /\ UNCHANGED dead /\ Return(w)
        /\ rsrc' = [i \in DOMAIN rsrc \cup {nextId} |->
                      IF i = nextId THEN new ELSE IF i = id THEN replaced ELSE rsrc[i]]
    BY <1>3 DEF Replace, At
  <2>2. new.engine = None
    BY DEF NewRow
  <2>3. id \in DOMAIN rsrc => replaced.engine = rsrc[id].engine
    BY DEF TypeOK, Rows
  <2> HIDE DEF new, replaced
  <2>4. nextId \notin Ids
    BY DEF TypeOK, Ids
  <2>5. EnginesStay
    BY <2>1, <2>2, <2>3, <2>4 DEF EnginesStay
  <2> QED
    BY <2>1, <2>5, ReturnLeaves DEF Locked
<1>4. CASE MarkFailed(w)
  <2> DEFINE rs == [th[w].rs EXCEPT !.status = "FAILED"]
  <2>1. /\ th[w].pc = "mark_failed" /\ UNCHANGED dead /\ Return(w)
        /\ WriteRow(th[w].msg.id, Stored(w, rs))
    BY <1>4, Zenon DEF MarkFailed, At
  <2>2. th[w].rs \in Rows
    BY <2>1, ThreadFields DEF Checks
  <2>3. rs \in Rows
    BY <2>2, RowField DEF Statuses
  <2> HIDE DEF rs
  <2> QED
    BY <2>1, <2>3, RowWritten, ReturnLeaves DEF Locked
<1> QED
  BY <1>1, <1>2, <1>3, <1>4

\* A lock whose holder stays has a holder; so has one that nobody takes.
LEMMA HoldersStay ==
    ASSUME LocksHaveHolders, UNCHANGED dead,
           \A v \in Workers : Holding(v) => Holding(v)' /\ th'[v].msg = th[v].msg,
           \A i \in DOMAIN rsrc' : \/ rsrc'[i].engine = None
                                   \/ i \in DOMAIN rsrc /\ rsrc'[i].engine = rsrc[i].engine
    PROVE  LocksHaveHolders'
<1> SUFFICES ASSUME NEW i \in DOMAIN rsrc', rsrc'[i].engine \notin dead \cup {None}
             PROVE  \E v \in Workers : Engine[v] = rsrc'[i].engine /\ Holding(v)' /\ th'[v].msg.id = i
  BY DEF LocksHaveHolders
<1>1. i \in DOMAIN rsrc /\ rsrc'[i].engine = rsrc[i].engine
  OBVIOUS
<1> QED
  BY <1>1 DEF LocksHaveHolders

\* A worker takes a free lock, or finds that it may not.
LEMMA AcquireLocks ==
    ASSUME TypeOK, WorkersCheck, LockInv, NEW w \in Threads, Acquire(w)
    PROVE  LockInv'
<1> DEFINE id == th[w].msg.id
           row == [Bumped(rsrc[id]) EXCEPT !.engine = Engine[w]]
<1>1. /\ Alive(w) /\ th[w].pc = "cas" /\ UNCHANGED dead
      /\ \/ /\ id \in DOMAIN rsrc /\ rsrc[id].engine = None
            /\ rsrc' = [rsrc EXCEPT ![id] = row]
            /\ th' = [th EXCEPT ![w].key = 0, ![w].pc = "begin"]
         \/ UNCHANGED rsrc /\ th' = [th EXCEPT ![w].key = 0, ![w].pc = "in_progress"]
  BY DEF Acquire, At
<1>2. w \in Workers /\ th[w].pc \notin Locked
  BY <1>1 DEF WorkersCheck, Checks, Locked
<1>3. CASE UNCHANGED rsrc /\ th' = [th EXCEPT ![w].key = 0, ![w].pc = "in_progress"]
  <2>1. MovesTo(w, "in_progress")
    BY <1>3, MoveForms, Zenon
  <2>2. LeavesLock(w) /\ EnginesStay
    BY <1>3, <2>1, MoveLeaves DEF Locked, EnginesStay
  <2> QED
    BY <1>1, <1>2, <2>2, LocksStay
<1>4. CASE /\ id \in DOMAIN rsrc /\ rsrc[id].engine = None
           /\ rsrc' = [rsrc EXCEPT ![id] = row]
           /\ th' = [th EXCEPT ![w].key = 0, ![w].pc = "begin"]
  <2>1. MovesTo(w, "begin")
    BY <1>4, MoveForms, Zenon
  <2>2. row.engine = Engine[w]
    BY <1>4 DEF TypeOK, Rows, Bumped
  <2> HIDE DEF row
  <2>3. /\ DOMAIN rsrc' = DOMAIN rsrc /\ rsrc'[id].engine = Engine[w]
        /\ \A i \in DOMAIN rsrc \ {id} : rsrc'[i] = rsrc[i]
    BY <1>4, <2>2
  <2>4. /\ \A v \in Workers \ {w} : (Holding(v)' <=> Holding(v)) /\ th'[v] = th[v]
        /\ ~Holding(w) /\ Holding(w)' /\ th'[w].msg = th[w].msg
    BY <1>1, <1>2, <2>1 DEF MovesTo, Holding, Alive, Threads, Locked
  <2>5. LocksHaveHolders'
    <3> SUFFICES ASSUME NEW i \in DOMAIN rsrc', rsrc'[i].engine \notin dead \cup {None}
                 PROVE  \E v \in Workers : Engine[v] = rsrc'[i].engine /\ Holding(v)' /\ th'[v].msg.id = i
      BY <1>1 DEF LocksHaveHolders
    <3>1. CASE i = id
      BY <1>2, <2>3, <2>4, <3>1
    <3>2. CASE i # id
      <4>1. PICK v \in Workers : Engine[v] = rsrc[i].engine /\ Holding(v) /\ th[v].msg.id = i
        BY <2>3, <3>2 DEF LockInv, LocksHaveHolders
      <4> QED
        BY <2>3, <2>4, <3>2, <4>1
    <3> QED
      BY <3>1, <3>2
  <2>6. ASSUME dead' = {} PROVE LockIsExclusive' /\ HoldersAreNamed' /\ NobodySteals'
    <3>1. LockIsExclusive /\ HoldersAreNamed /\ NobodySteals
      BY <1>1, <2>6 DEF LockInv
    <3>2. \A v \in Workers : Holding(v) => th[v].msg.id # id
      <4> SUFFICES ASSUME NEW v \in Workers, Holding(v), th[v].msg.id = id PROVE FALSE
        OBVIOUS
      <4>1. Engine[v] = None
        BY <1>4, <3>1 DEF HoldersAreNamed
      <4>2. Engine[v] \in Engines /\ None \notin Engines
        BY ConvergenceAssumption DEF Threads
      <4> QED
        BY <4>1, <4>2
    <3>3. LockIsExclusive'
      BY <2>4, <3>1, <3>2 DEF LockIsExclusive
    <3>4. HoldersAreNamed'
      BY <2>3, <2>4, <3>1, <3>2 DEF HoldersAreNamed
    <3>5. NobodySteals'
      BY <2>1, <3>1 DEF NobodySteals, MovesTo
    <3> QED
      BY <3>3, <3>4, <3>5
  <2> QED
    BY <2>5, <2>6 DEF LockInv
<1> QED
  BY <1>1, <1>3, <1>4

\* A worker gives the lock up: the row is gone, or unlocked, or not in its name.
LEMMA LockGivenUp ==
    ASSUME TypeOK, LockInv, NEW w \in Workers, UNCHANGED dead, LeavesLock(w), Holding(w),
           \A i \in DOMAIN rsrc' :
               \/ i = th[w].msg.id /\ rsrc'[i].engine = None
               \/ /\ i \in DOMAIN rsrc /\ rsrc'[i].engine = rsrc[i].engine
                  /\ i = th[w].msg.id => rsrc[i].engine # Engine[w]
    PROVE  LockInv'
<1>1. /\ \A v \in Workers \ {w} : (Holding(v)' <=> Holding(v)) /\ th'[v] = th[v]
      /\ ~Holding(w)'
  BY DEF LeavesLock, Holding, Alive, Threads, Locked
<1>2. LocksHaveHolders'
  <2> SUFFICES ASSUME NEW i \in DOMAIN rsrc', rsrc'[i].engine \notin dead \cup {None}
               PROVE  \E v \in Workers : Engine[v] = rsrc'[i].engine /\ Holding(v)' /\ th'[v].msg.id = i
    BY DEF LocksHaveHolders
  <2>1. /\ i \in DOMAIN rsrc /\ rsrc'[i].engine = rsrc[i].engine
        /\ i = th[w].msg.id => rsrc[i].engine # Engine[w]
    OBVIOUS
  <2>2. PICK v \in Workers : Engine[v] = rsrc[i].engine /\ Holding(v) /\ th[v].msg.id = i
    BY <2>1 DEF LockInv, LocksHaveHolders
  <2> QED
    BY <1>1, <2>1, <2>2
<1>3. ASSUME dead' = {} PROVE LockIsExclusive' /\ HoldersAreNamed' /\ NobodySteals'
  <2>1. LockIsExclusive /\ HoldersAreNamed /\ NobodySteals
    BY <1>3 DEF LockInv
  <2>2. LockIsExclusive'
    BY <1>1, <2>1 DEF LockIsExclusive
  <2>3. HoldersAreNamed'
    BY <1>1, <2>1 DEF HoldersAreNamed, LockIsExclusive
  <2>4. NobodySteals'
    BY <2>1 DEF NobodySteals, LeavesLock
  <2> QED
    BY <2>2, <2>3, <2>4
<1> QED
  BY <1>2, <1>3 DEF LockInv

\* Releasing the resource gives its lock up.
LEMMA ReleaseGivesUp ==
    ASSUME TypeOK, WorkersCheck, LockInv, NEW w \in Threads, Release(w)
    PROVE  LockInv'
<1> DEFINE id == th[w].msg.id
           row == [Bumped(rsrc[id]) EXCEPT !.engine = None, !.tmpl = th[w].rs.tmpl,
                                           !.requires = th[w].rs.requires]
<1>1. /\ Alive(w) /\ th[w].pc = "release" /\ UNCHANGED dead
      /\ \/ id \notin DOMAIN rsrc /\ Return(w) /\ UNCHANGED rsrc
         \/ /\ id \in DOMAIN rsrc
            /\ rsrc' = IF rsrc[id].engine = Engine[w] THEN [rsrc EXCEPT ![id] = row] ELSE rsrc
  BY DEF Release, At
<1>2. row.engine = None \/ id \notin DOMAIN rsrc
  BY DEF TypeOK, Rows, Bumped
<1> HIDE DEF row
<1>3. \/ Return(w)
      \/ \E pc \in {"propagate", "replace", "fail", "reload"} : Goto(w, pc)
  <2>1. th[w].out \in {"done", "replace", "failed", "timeout"}
    BY <1>1, ThreadFields
  <2> QED
    BY <2>1 DEF Release
<1>4. LeavesLock(w)
  <2>1. ASSUME NEW pc \in {"propagate", "replace", "fail", "reload"}, Goto(w, pc) PROVE LeavesLock(w)
    <3>1. MovesTo(w, pc)
      BY <2>1, MoveForms, Zenon
    <3> QED
      BY <3>1, MoveLeaves DEF Locked
  <2> QED
    BY <1>3, <2>1, ReturnLeaves
<1>5. w \in Workers /\ Holding(w)
  BY <1>1 DEF WorkersCheck, Checks, Holding
<1>6. \A i \in DOMAIN rsrc' :
         \/ i = id /\ rsrc'[i].engine = None
         \/ /\ i \in DOMAIN rsrc /\ rsrc'[i].engine = rsrc[i].engine
            /\ i = id => rsrc[i].engine # Engine[w]
  BY <1>1, <1>2
<1> QED
  BY <1>1, <1>4, <1>5, <1>6, LockGivenUp

\* So does removing its row.
LEMMA DestroyGivesUp ==
    ASSUME TypeOK, WorkersCheck, LockInv, NEW w \in Threads, Destroy(w)
    PROVE  LockInv'
<1> DEFINE id == th[w].msg.id
           r == th[w].rs.replaced_by
           left == Restrict(rsrc, DOMAIN rsrc \ {id})
           row == [Bumped(left[r]) EXCEPT !.replaces = None]
<1>1. /\ Alive(w) /\ th[w].pc = "destroy" /\ UNCHANGED dead /\ Goto(w, "propagate")
      /\ \/ rsrc' = left
         \/ r \in DOMAIN left /\ rsrc' = [left EXCEPT ![r] = row]
  BY DEF Destroy, At
<1>2. DOMAIN left = DOMAIN rsrc \ {id} /\ \A i \in DOMAIN left : left[i] = rsrc[i]
  BY DEF Restrict
<1> HIDE DEF left
<1>3. r \in DOMAIN left => row.engine = left[r].engine
  BY <1>2 DEF TypeOK, Rows, Bumped
<1> HIDE DEF row
<1>4. \A i \in DOMAIN rsrc' : i # id /\ i \in DOMAIN rsrc /\ rsrc'[i].engine = rsrc[i].engine
  BY <1>1, <1>2, <1>3
<1>5. MovesTo(w, "propagate")
  BY <1>1, MoveForms, Zenon
<1>6. LeavesLock(w)
  BY <1>5, MoveLeaves DEF Locked
<1>7. w \in Workers /\ Holding(w)
  BY <1>1 DEF WorkersCheck, Checks, Holding
<1> QED
  BY <1>1, <1>4, <1>6, <1>7, LockGivenUp


\* A lock is stolen only when an engine has died.
LEMMA StealsLock ==
    ASSUME TypeOK, WorkersCheck, LockInv, NEW w \in Threads, TrySteal(w) \/ Steal(w)
    PROVE  LockInv'
<1>1. CASE TrySteal(w) /\ dead = {}
  BY <1>1, CheckLeaves, LocksStay
<1>2. CASE dead # {}
  <2>1. /\ th[w].pc \in {"in_progress", "steal"} /\ UNCHANGED dead
        /\ Return(w) \/ \E pc \in {"steal", "mark_failed"} : Goto(w, pc)
    BY DEF TrySteal, Steal, At
  <2>2. \A i \in DOMAIN rsrc' : \/ rsrc'[i].engine = None
                                \/ i \in DOMAIN rsrc /\ rsrc'[i].engine = rsrc[i].engine
    <3>1. \/ UNCHANGED rsrc
          \/ /\ th[w].msg.id \in DOMAIN rsrc
             /\ rsrc' = [rsrc EXCEPT ![th[w].msg.id].engine = None]
      BY DEF TrySteal, Steal, db
    <3>2. \A i \in DOMAIN rsrc : rsrc[i] \in Rows
      BY DEF TypeOK
    <3> QED
      BY <3>1, <3>2 DEF Rows
  <2>3. \A v \in Threads \ {w} : th'[v] = th[v]
    <3>1. Return(w) => \A v \in Threads \ {w} : th'[v] = th[v]
      BY ReturnLeaves DEF LeavesLock
    <3>2. \A pc : Goto(w, pc) => \A v \in Threads \ {w} : th'[v] = th[v]
      BY MoveForms, Zenon DEF MovesTo
    <3> QED
      BY <2>1, <3>1, <3>2
  <2>4. \A v \in Workers : Holding(v) => Holding(v)' /\ th'[v].msg = th[v].msg
    BY <2>1, <2>3 DEF Holding, Alive, Threads
  <2> QED
    BY <1>2, <2>1, <2>2, <2>4, HoldersStay DEF LockInv
<1>3. CASE Steal(w) /\ dead = {}
  BY <1>3 DEF Steal, At, LockInv, NobodySteals
<1> QED
  BY <1>1, <1>2, <1>3

\* An engine dies: its locks are no longer in the name of a live engine.
LEMMA CrashLocks ==
    ASSUME LockInv, NEW e \in Engines, Crash(e)
    PROVE  LockInv'
<1>1. /\ dead' = dead \cup {e} /\ UNCHANGED rsrc
      /\ \A w \in Threads : Engine[w] # e => th'[w] = th[w]
  BY DEF Crash, db
<1>2. LocksHaveHolders'
  <2> SUFFICES ASSUME NEW i \in DOMAIN rsrc', rsrc'[i].engine \notin dead' \cup {None}
               PROVE  \E v \in Workers : Engine[v] = rsrc'[i].engine /\ Holding(v)' /\ th'[v].msg.id = i
    BY DEF LocksHaveHolders
  <2>1. PICK v \in Workers : Engine[v] = rsrc[i].engine /\ Holding(v) /\ th[v].msg.id = i
    BY <1>1 DEF LockInv, LocksHaveHolders
  <2>2. th'[v] = th[v] /\ Engine[v] \notin dead'
    BY <1>1, <2>1 DEF Threads
  <2> QED
    BY <1>1, <2>1, <2>2 DEF Holding, Alive
<1> QED
  BY <1>1, <1>2 DEF LockInv

\* A thread that takes a request or a message holds no lock yet.
LEMMA TakingLeaves ==
    ASSUME TypeOK, NEW w \in Threads,
           Request(w) \/ \E m \in casts : Receive(w, m) \/ ReceiveLate(w, m)
    PROVE  th[w].pc \notin Locked /\ UNCHANGED dead /\ EnginesStay /\ LeavesLock(w)
<1> DEFINE Puts(x) == th' = [th EXCEPT ![w] = x] /\ x.pc \in {"store1", "acquire", "fail"}
<1>1. /\ th[w].pc = "idle" /\ UNCHANGED <<dead, rsrc>>
      /\ Return(w) \/ \E x : Puts(x)
  <2>1. CASE Request(w)
    <3> DEFINE x == [Idle EXCEPT !.pc = "store1", !.st = stack, !.goal = Op[w]]
    <3>1. /\ th[w].pc = "idle" /\ UNCHANGED <<dead, rsrc>>
          /\ Return(w) \/ th' = [th EXCEPT ![w] = x]
      BY <2>1, Zenon DEF Request, At, db
    <3>2. x.pc = "store1"
      BY DEF Idle
    <3> HIDE DEF x
    <3> QED
      BY <3>1, <3>2
  <2>2. CASE \E m \in casts : Receive(w, m)
    <3>1. PICK m \in casts : Receive(w, m)
      BY <2>2
    <3> DEFINE x == [Idle EXCEPT !.pc = "acquire", !.msg = m, !.rs = rsrc[m.id], !.st = stack]
    <3>2. /\ th[w].pc = "idle" /\ UNCHANGED <<dead, rsrc>>
          /\ Return(w) \/ th' = [th EXCEPT ![w] = x]
      BY <3>1, Zenon DEF Receive, At
    <3>3. x.pc = "acquire"
      BY DEF Idle
    <3> HIDE DEF x
    <3> QED
      BY <3>2, <3>3
  <2>3. CASE \E m \in casts : ReceiveLate(w, m)
    <3> DEFINE x == [Idle EXCEPT !.pc = "fail", !.st = stack, !.out = "timeout"]
    <3>1. th[w].pc = "idle" /\ UNCHANGED <<dead, rsrc>> /\ th' = [th EXCEPT ![w] = x]
      BY <2>3, Zenon DEF ReceiveLate, At
    <3>2. x.pc = "fail"
      BY DEF Idle
    <3> HIDE DEF x
    <3> QED
      BY <3>1, <3>2
  <2> QED
    BY <2>1, <2>2, <2>3
<1>2. ASSUME NEW x, Puts(x) PROVE LeavesLock(w)
  <2>1. th'[w] = x /\ \A v \in Threads \ {w} : th'[v] = th[v]
    BY <1>2 DEF TypeOK
  <2> QED
    BY <1>2, <2>1 DEF LeavesLock, Locked
<1> HIDE DEF Puts
<1>3. LeavesLock(w)
  BY <1>1, <1>2, ReturnLeaves
<1> QED
  BY <1>1, <1>3 DEF Locked, EnginesStay

\* No resource is locked when nothing has been stored.
LEMMA LockInitially == Init => LockInv
<1> SUFFICES ASSUME Init PROVE LockInv
  OBVIOUS
<1> DEFINE x == [Idle EXCEPT !.pc = "store1", !.st = stack, !.goal = Op[Creator]]
<1>1. rsrc = << >> /\ th = [w \in Threads |-> IF w = Creator THEN x ELSE Idle]
  BY Zenon DEF Init
<1>2. DOMAIN rsrc = {}
  BY <1>1
<1>3. x.pc = "store1" /\ Idle.pc = "idle"
  BY DEF Idle
<1> HIDE DEF x
<1>4. \A w \in Threads : th[w].pc \in {"idle", "store1"}
  BY <1>1, <1>3
<1> QED
  BY <1>2, <1>4 DEF LockInv, LocksHaveHolders, LockIsExclusive, HoldersAreNamed, NobodySteals,
     Holding, Threads

\* Every step keeps locks and their holders together.
LEMMA LockStep == TravInv /\ LockInv /\ [Next]_vars => LockInv'
<1> SUFFICES ASSUME TravInv, LockInv, [Next]_vars PROVE LockInv'
  OBVIOUS
<1>1. TypeOK /\ WorkersCheck
  BY DEF TravInv
<1>2. CASE UNCHANGED vars
  BY <1>2 DEF vars, LockInv, LocksHaveHolders, LockIsExclusive, HoldersAreNamed, NobodySteals,
     Holding, Alive
<1>3. ASSUME NEW o \in Ops, Request(o) PROVE LockInv'
  BY <1>1, <1>3, TakingLeaves, LocksStay DEF Threads
<1>4. ASSUME NEW w \in Threads, ConvergeStep(w) PROVE LockInv'
  BY <1>1, <1>4, OperationLeaves, OperationKeepsEngines, LocksStay
<1>5. ASSUME NEW w \in Threads, CheckStep(w) PROVE LockInv'
  <2>1. CASE BeginCreate(w) \/ BeginUpdate(w) \/ BeginCleanup(w)
    BY <1>1, <2>1, BeginHolds, LocksStay
  <2>2. CASE HandlerDone(w) \/ \E k \in {"fail", "timeout"} : HandlerFails(w, k)
    BY <1>1, <2>2, HandlerHolds, LocksStay
  <2>3. CASE AcquireRead(w) \/ Replace(w) \/ MarkFailed(w)
    BY <1>1, <2>3, CheckLeaves, LocksStay
  <2>4. CASE HandleFailure(w) \/ ReloadAfterTimeout(w) \/ Retrigger(w) \/ Propagate(w)
    BY <1>1, <2>4, OperationLeaves, OperationKeepsEngines, LocksStay
  <2>5. CASE Acquire(w) \/ Destroy(w) \/ Release(w) \/ TrySteal(w) \/ Steal(w)
    BY <1>1, <2>5, AcquireLocks, DestroyGivesUp, ReleaseGivesUp, StealsLock
  <2> QED
    BY <1>5, <2>1, <2>2, <2>3, <2>4, <2>5 DEF CheckStep
<1>6. ASSUME NEW w \in Workers, NEW m \in casts, Receive(w, m) \/ ReceiveLate(w, m) PROVE LockInv'
  BY <1>1, <1>6, TakingLeaves, LocksStay DEF Threads
<1>7. ASSUME NEW e \in Engines, Crash(e) PROVE LockInv'
  BY <1>7, CrashLocks
<1> QED
  BY <1>2, <1>3, <1>4, <1>5, <1>6, <1>7 DEF Next

\* The lock invariant, in every state.
THEOREM LockInvariant == Spec => []LockInv
  BY LockInitially, LockStep, TraversalInvariant, PTL DEF Spec

\* Whatever path a check takes out of its work, and whoever steals or dies
\* meanwhile, a row locked in the name of a live engine has a worker of that
\* engine that is going to release it.
THEOREM LocksAreHeld == Spec => []LocksHaveHolders
<1>1. LockInv => LocksHaveHolders
  BY DEF LockInv
<1> QED
  BY <1>1, LockInvariant, PTL

\* As long as no engine has died, two workers never act on one resource.  The
\* engine_id column alone does not give that after a crash: two workers that
\* have both seen the dead engine's name may each steal from whoever has the
\* lock by then (ExclusiveUnlessRobbed of module ResourceLock).
THEOREM OneWorkerPerResource == Spec => [](dead = {} => LockIsExclusive)
<1>1. LockInv => (dead = {} => LockIsExclusive)
  BY DEF LockInv
<1> QED
  BY <1>1, LockInvariant, PTL

-----------------------------------------------------------------------------
(* Operations follow one another.                                            *)

\* One operation at a time.
OneByOne ==
    /\ "crash" \notin FaultKinds
    /\ Ops \ {Creator} \subseteq Patient
    /\ DisableRollback \/ FaultKinds = {}

\* Besides, every request stores a template of its own, as it does in the code.
InOrder == OneByOne /\ \A o, p \in Ops : Op[o].tmpl = Op[p].tmpl => o = p

\* The thread prepares a traversal.
Launching == {"store1", "delete_prev", "resources", "store2", "trigger"}

\* The thread has something to do.
Busy(x) == x.pc \notin {"idle", "finished"}

\* A thread works for the current traversal.
Serves(x) ==
    /\ x.pc = "store1" => x.st = stack /\ x.goal.action # "ROLLBACK"
    /\ Busy(x) => /\ x.st.live /\ x.st.trav = stack.trav /\ x.st.tmpl = stack.tmpl
                  /\ x.st.action # "ROLLBACK"
    /\ x.pc = "retrigger" \/ (x.pc = "fail" /\ x.out = "failed") => x.msg.trav = stack.trav
    /\ x.pc = "reload" => x.out = "timeout"

\* A resource that has not been created has not failed either.
InitIsClean ==
    /\ \A i \in DOMAIN rsrc : rsrc[i].action = "INIT" => rsrc[i].status = "COMPLETE"
    /\ \A w \in Threads : th[w].pc \in Checks /\ th[w].rs.action = "INIT"
          => th[w].rs.status = "COMPLETE"
    /\ \A w \in Threads : th[w].pc = "handler" => th[w].rs.action # "INIT"

\* Failures happen only where nothing is rolled back.
NothingToRollBack ==
    /\ \A w \in Threads : th[w].pc # "rollback"
    /\ DisableRollback \/ \A w \in Threads :
          /\ th[w].pc \notin {"fail", "reload"}
          /\ th[w].pc = "release" => th[w].out \notin {"failed", "timeout"}

\* The sync points of the current traversal wait for whoever ends it.
PointsArePurged ==
    /\ DOMAIN sp \subseteq {stack.trav}
    /\ DOMAIN sp # {} => stack.live
    /\ DOMAIN sp # {} /\ stack.status # "IN_PROGRESS" =>
          \E w \in Threads : th[w].pc \in {"purge", "purge_points"}

\* Nobody else works while a traversal is prepared.
LaunchAlone ==
    \A w \in Threads : th[w].pc \in Launching =>
        /\ stack.live /\ casts = {} /\ DOMAIN sp = {}
        /\ th[w].pc # "store1" => stack.status = "IN_PROGRESS"
        /\ \A v \in Threads \ {w} : ~Busy(th[v])

SeqInv ==
    /\ dead = {} /\ \A w \in Threads : th[w].pc \notin {"crashed", "steal", "mark_failed"}
    /\ stack.action # "ROLLBACK"
    /\ \A w \in Threads : Serves(th[w])
    /\ \A m \in casts : m.trav = stack.trav
    /\ InitIsClean /\ NothingToRollBack /\ PointsArePurged /\ LaunchAlone

-----------------------------------------------------------------------------
(* What steps do, field by field.                                            *)

\* Only the thread w moves, and it keeps its message.
Becomes(w, pc, st, rs, out) ==
    /\ \A v \in Threads \ {w} : th'[v] = th[v]
    /\ th'[w].pc = pc /\ th'[w].st = st /\ th'[w].rs = rs /\ th'[w].out = out
    /\ th'[w].msg = th[w].msg

\* Only the thread w moves, and has nothing to do any more.
Gone(w) == (\A v \in Threads \ {w} : th'[v] = th[v]) /\ Returned(w, th'[w])

\* The object of a thread replaced.
LEMMA ObjectWritten ==
    ASSUME TypeOK, NEW w \in Threads, NEW x, th' = [th EXCEPT ![w] = x]
    PROVE  (\A v \in Threads \ {w} : th'[v] = th[v]) /\ th'[w] = x
  BY DEF TypeOK

\* The ways in which the actions write it.
LEMMA Forms ==
    ASSUME TypeOK, NEW w \in Threads, NEW pc
    PROVE  /\ Return(w) => Gone(w)
           /\ Goto(w, pc) => Becomes(w, pc, th[w].st, th[w].rs, th[w].out)
           /\ \A st : th' = [th EXCEPT ![w].st = st, ![w].pc = pc]
                 => Becomes(w, pc, st, th[w].rs, th[w].out)
           /\ \A key : th' = [th EXCEPT ![w].key = key, ![w].pc = pc]
                 => Becomes(w, pc, th[w].st, th[w].rs, th[w].out)
           /\ \A rs : th' = [th EXCEPT ![w].rs = rs, ![w].pc = pc]
                 => Becomes(w, pc, th[w].st, rs, th[w].out)
           /\ \A out : th' = [th EXCEPT ![w].out = out, ![w].pc = pc]
                 => Becomes(w, pc, th[w].st, th[w].rs, out)
           /\ \A rs, out : th' = [th EXCEPT ![w].rs = rs, ![w].out = out, ![w].pc = pc]
                 => Becomes(w, pc, th[w].st, rs, out)
           /\ \A rs, out : th' = [th EXCEPT ![w].pc = pc, ![w].out = out, ![w].rs = rs]
                 => Becomes(w, pc, th[w].st, rs, out)
<1>1. th[w] \in ThreadStates /\ th = [v \in Threads |-> th[v]]
  BY TypeParts
<1>2. Return(w) => Gone(w)
  BY HasReturned, ObjectWritten DEF Gone
<1>3. ASSUME Goto(w, pc) PROVE Becomes(w, pc, th[w].st, th[w].rs, th[w].out)
  <2> DEFINE x == [th[w] EXCEPT !.pc = pc]
  <2>1. th' = [th EXCEPT ![w] = x]
    BY <1>1, <1>3 DEF Goto
  <2>2. /\ x.pc = pc /\ x.st = th[w].st /\ x.rs = th[w].rs /\ x.out = th[w].out
        /\ x.msg = th[w].msg
    BY <1>1 DEF ThreadStates
  <2> HIDE DEF x
  <2> QED
    BY <2>1, <2>2, ObjectWritten, Zenon DEF Becomes
<1>4. ASSUME NEW st, th' = [th EXCEPT ![w].st = st, ![w].pc = pc]
      PROVE  Becomes(w, pc, st, th[w].rs, th[w].out)
  <2> DEFINE x == [th[w] EXCEPT !.st = st, !.pc = pc]
  <2>1. th' = [th EXCEPT ![w] = x]
    BY <1>1, <1>4, Zenon
  <2>2. x.pc = pc /\ x.st = st /\ x.rs = th[w].rs /\ x.out = th[w].out /\ x.msg = th[w].msg
    BY <1>1 DEF ThreadStates
  <2> HIDE DEF x
  <2> QED
    BY <2>1, <2>2, ObjectWritten, Zenon DEF Becomes
<1>5. ASSUME NEW key, th' = [th EXCEPT ![w].key = key, ![w].pc = pc]
      PROVE  Becomes(w, pc, th[w].st, th[w].rs, th[w].out)
  <2> DEFINE x == [th[w] EXCEPT !.key = key, !.pc = pc]
  <2>1. th' = [th EXCEPT ![w] = x]
    BY <1>1, <1>5, Zenon
  <2>2. /\ x.pc = pc /\ x.st = th[w].st /\ x.rs = th[w].rs /\ x.out = th[w].out
        /\ x.msg = th[w].msg
    BY <1>1 DEF ThreadStates
  <2> HIDE DEF x
  <2> QED
    BY <2>1, <2>2, ObjectWritten, Zenon DEF Becomes
<1>6. ASSUME NEW rs, th' = [th EXCEPT ![w].rs = rs, ![w].pc = pc]
      PROVE  Becomes(w, pc, th[w].st, rs, th[w].out)
  <2> DEFINE x == [th[w] EXCEPT !.rs = rs, !.pc = pc]
  <2>1. th' = [th EXCEPT ![w] = x]
    BY <1>1, <1>6, Zenon
  <2>2. x.pc = pc /\ x.st = th[w].st /\ x.rs = rs /\ x.out = th[w].out /\ x.msg = th[w].msg
    BY <1>1 DEF ThreadStates
  <2> HIDE DEF x
  <2> QED
    BY <2>1, <2>2, ObjectWritten, Zenon DEF Becomes
<1>7. ASSUME NEW out, th' = [th EXCEPT ![w].out = out, ![w].pc = pc]
      PROVE  Becomes(w, pc, th[w].st, th[w].rs, out)
  <2> DEFINE x == [th[w] EXCEPT !.out = out, !.pc = pc]
  <2>1. th' = [th EXCEPT ![w] = x]
    BY <1>1, <1>7, Zenon
  <2>2. x.pc = pc /\ x.st = th[w].st /\ x.rs = th[w].rs /\ x.out = out /\ x.msg = th[w].msg
    BY <1>1 DEF ThreadStates
  <2> HIDE DEF x
  <2> QED
    BY <2>1, <2>2, ObjectWritten, Zenon DEF Becomes
<1>8. ASSUME NEW rs, NEW out,
             \/ th' = [th EXCEPT ![w].rs = rs, ![w].out = out, ![w].pc = pc]
             \/ th' = [th EXCEPT ![w].pc = pc, ![w].out = out, ![w].rs = rs]
      PROVE  Becomes(w, pc, th[w].st, rs, out)
  <2> DEFINE x == [th[w] EXCEPT !.rs = rs, !.out = out, !.pc = pc]
  <2>1. th' = [th EXCEPT ![w] = x]
    BY <1>1, <1>8, Zenon
  <2>2. x.pc = pc /\ x.st = th[w].st /\ x.rs = rs /\ x.out = out /\ x.msg = th[w].msg
    BY <1>1 DEF ThreadStates
  <2> HIDE DEF x
  <2> QED
    BY <2>1, <2>2, ObjectWritten, Zenon DEF Becomes
<1> QED
  BY <1>2, <1>3, <1>4, <1>5, <1>6, <1>7, <1>8, Zenon

\* All that a check reads of the row.
Same(a, b) ==
    /\ a.name = b.name /\ a.action = b.action /\ a.status = b.status
    /\ a.tmpl = b.tmpl /\ a.requires = b.requires /\ a.replaced_by = b.replaced_by

\* The ids that have reported to the check.
Reports(x) == {p[2] : p \in x.msg.data} \ {None}

\* r is the row a in the given state.
Variant(r, a, action, status, tmpl, requires) ==
    /\ r \in Rows /\ r.name = a.name /\ r.replaces = a.replaces /\ r.replaced_by = a.replaced_by
    /\ r.action = action /\ r.status = status /\ r.tmpl = tmpl /\ r.requires = requires

\* Row i, if it is there, says what a says; nothing else happens to the table.
RowSays(i, a) ==
    /\ DOMAIN rsrc' = DOMAIN rsrc
    /\ \A j \in DOMAIN rsrc \ {i} : rsrc'[j] = rsrc[j]
    /\ i \in DOMAIN rsrc => Same(rsrc'[i], a)

\* That is what state_set() does.
LEMMA WriteRowSays ==
    ASSUME TypeOK, NEW w, NEW r \in Rows, WriteRow(th[w].msg.id, Stored(w, r))
    PROVE  RowSays(th[w].msg.id, r)
<1> DEFINE id == th[w].msg.id
           row == Stored(w, r)
<1>1. Same(row, r)
  BY DEF Stored, Rows, Same
<1>2. rsrc' = IF id \in DOMAIN rsrc THEN [rsrc EXCEPT ![id] = row] ELSE rsrc
  BY DEF WriteRow
<1> HIDE DEF row
<1> QED
  BY <1>1, <1>2 DEF RowSays

\* The object with another status, ...
LEMMA StatusVariant ==
    ASSUME NEW a \in Rows, NEW status \in Statuses
    PROVE  Variant([a EXCEPT !.status = status], a, a.action, status, a.tmpl, a.requires)
  BY DEF Variant, Rows

\* ... or with another state.
LEMMA StateVariant ==
    ASSUME NEW a \in Rows, NEW action \in Actions \ {"ROLLBACK"}, NEW status \in Statuses
    PROVE  Variant([a EXCEPT !.action = action, !.status = status], a, action, status, a.tmpl,
                   a.requires)
<1> DEFINE b == [a EXCEPT !.action = action]
<1>1. /\ b \in Rows /\ b.name = a.name /\ b.replaces = a.replaces /\ b.tmpl = a.tmpl
      /\ b.replaced_by = a.replaced_by /\ b.requires = a.requires /\ b.action = action
  BY DEF Rows
<1>2. [a EXCEPT !.action = action, !.status = status] = [b EXCEPT !.status = status]
  OBVIOUS
<1> HIDE DEF b
<1> QED
  BY <1>1, <1>2 DEF Variant, Rows

\* The object that a check claims for its template.
LEMMA ClaimedIs ==
    ASSUME TypeOK, NEW w \in Threads, th[w].pc \in Checks
    PROVE  /\ Variant(Claimed(w), th[w].rs, th[w].rs.action, th[w].rs.status, th[w].st.tmpl,
                      Reports(th[w]))
           /\ reported(w) = Reports(th[w])
<1>1. /\ th[w].rs \in Rows /\ th[w].msg \in Msgs /\ th[w].st \in Stacks
      /\ reported(w) = Reports(th[w])
  BY ThreadFields DEF reported, Reports
<1>2. reported(w) \in SUBSET Ids /\ th[w].st.tmpl \in Tmpls
  <2>1. th[w].msg.data \in Data
    BY <1>1 DEF Msgs
  <2> QED
    BY <1>1, <2>1 DEF reported, Data, Stacks
<1> QED
  BY <1>1, <1>2, Zenon DEF Claimed, Variant, Rows

\* A step of a check that touches no more than resource i.
Apartly(i) ==
    /\ UNCHANGED <<stack, nextId, nextTrav, sp, casts, dead>>
    /\ \A j \in phys' \cup phys : j # i => (j \in phys' <=> j \in phys)

\* _acquire() reads the row.
LEMMA AcquireReadDoes ==
    ASSUME TypeOK, NEW w \in Threads, AcquireRead(w)
    PROVE  /\ th[w].pc = "acquire" /\ Apartly(th[w].msg.id) /\ UNCHANGED <<rsrc, phys>>
           /\ \/ Gone(w)
              \/ /\ th[w].msg.id \in DOMAIN rsrc
                 /\ Becomes(w, "cas", th[w].st, th[w].rs, th[w].out)
<1>1. /\ th[w].pc = "acquire" /\ Apartly(th[w].msg.id) /\ UNCHANGED <<rsrc, phys>>
      /\ \/ Return(w)
         \/ /\ th[w].msg.id \in DOMAIN rsrc
            /\ th' = [th EXCEPT ![w].key = rsrc[th[w].msg.id].atomic_key, ![w].pc = "cas"]
  BY DEF AcquireRead, At, db, Apartly
<1> QED
  BY <1>1, Forms, Zenon

\* _acquire() takes the row, or gives up.
LEMMA AcquireDoes ==
    ASSUME TypeOK, NEW w \in Threads, Acquire(w)
    PROVE  /\ th[w].pc = "cas" /\ Apartly(th[w].msg.id) /\ UNCHANGED phys
           /\ RowSays(th[w].msg.id, rsrc[th[w].msg.id])
           /\ \/ Becomes(w, "in_progress", th[w].st, th[w].rs, th[w].out)
              \/ /\ th[w].msg.id \in DOMAIN rsrc
                 /\ Becomes(w, "begin", th[w].st, th[w].rs, th[w].out)
<1> DEFINE id == th[w].msg.id
           row == [Bumped(rsrc[id]) EXCEPT !.engine = Engine[w]]
<1>1. /\ th[w].pc = "cas" /\ Apartly(id) /\ UNCHANGED phys
      /\ \/ UNCHANGED rsrc /\ th' = [th EXCEPT ![w].key = 0, ![w].pc = "in_progress"]
         \/ /\ id \in DOMAIN rsrc /\ rsrc' = [rsrc EXCEPT ![id] = row]
            /\ th' = [th EXCEPT ![w].key = 0, ![w].pc = "begin"]
  BY DEF Acquire, At, Apartly
<1>2. id \in DOMAIN rsrc => Same(row, rsrc[id])
  BY DEF TypeOK, Rows, Bumped, Same
<1>3. RowSays(id, rsrc[id])
  <2> HIDE DEF row
  <2>1. \A a : Same(a, a)
    BY DEF Same
  <2> QED
    BY <1>1, <1>2, <2>1 DEF RowSays
<1> QED
  BY <1>1, <1>3, Forms, Zenon

\* What a check finds to do once it has the lock: create, ...
BeginsCreate(w) ==
    LET t == th[w]
    IN /\ t.msg.upd /\ t.rs.action = "INIT"
       /\ \E r : \/ /\ t.rs.status = "COMPLETE"
                    /\ Variant(r, t.rs, "CREATE", "IN_PROGRESS", t.st.tmpl, Reports(t))
                    /\ RowSays(t.msg.id, r) /\ Becomes(w, "handler", t.st, r, t.out)
                 \/ /\ t.rs.status # "COMPLETE" /\ UNCHANGED rsrc
                    /\ Becomes(w, "release", t.st, r, "failed")

\* ... update, ...
BeginsUpdate(w) ==
    LET t == th[w]
    IN /\ t.msg.upd /\ t.rs.action # "INIT"
       /\ \/ /\ t.rs.status = "FAILED" /\ UNCHANGED rsrc
             /\ Becomes(w, "release", t.st, t.rs, "replace")
          \/ /\ t.rs.status # "FAILED"
             /\ \E r : /\ Variant(r, t.rs, t.rs.action, t.rs.status, t.st.tmpl, Reports(t))
                       /\ UNCHANGED rsrc /\ Becomes(w, "release", t.st, r, "done")
          \/ /\ t.rs.status # "FAILED"
             /\ \E r : /\ Variant(r, t.rs, "UPDATE", "IN_PROGRESS", t.rs.tmpl, t.rs.requires)
                       /\ RowSays(t.msg.id, r) /\ Becomes(w, "handler", t.st, r, t.out)

\* ... or clean up.
BeginsCleanup(w) ==
    LET t == th[w]
    IN /\ ~t.msg.upd
       /\ \/ /\ t.rs.tmpl = t.st.tmpl /\ UNCHANGED rsrc
             /\ Becomes(w, "release", t.st, t.rs, "done")
          \/ /\ t.rs.tmpl # t.st.tmpl /\ nothing_to_delete(t.rs) /\ UNCHANGED rsrc
             /\ Becomes(w, "destroy", t.st, t.rs, t.out)
          \/ /\ t.rs.tmpl # t.st.tmpl /\ ~nothing_to_delete(t.rs)
             /\ \E r : /\ Variant(r, t.rs, "DELETE", "IN_PROGRESS", t.rs.tmpl, t.rs.requires)
                       /\ RowSays(t.msg.id, r) /\ Becomes(w, "handler", t.st, r, t.out)

\* The start of an action.
LEMMA StartActionDoes ==
    ASSUME TypeOK, NEW w \in Threads, NEW rs \in Rows, NEW action \in {"CREATE", "UPDATE", "DELETE"},
           StartAction(w, rs, action)
    PROVE  \E r : /\ Variant(r, rs, action, "IN_PROGRESS", rs.tmpl, rs.requires)
                  /\ RowSays(th[w].msg.id, r) /\ Becomes(w, "handler", th[w].st, r, th[w].out)
<1> DEFINE r == [rs EXCEPT !.action = action, !.status = "IN_PROGRESS"]
<1>1. Variant(r, rs, action, "IN_PROGRESS", rs.tmpl, rs.requires)
  <2>1. action \in Actions \ {"ROLLBACK"} /\ "IN_PROGRESS" \in Statuses
    BY DEF Actions, Statuses
  <2> QED
    BY <2>1, StateVariant, Zenon
<1>2. /\ th' = [th EXCEPT ![w].rs = r, ![w].pc = "handler"]
      /\ WriteRow(th[w].msg.id, Stored(w, r))
  BY Zenon DEF StartAction
<1> HIDE DEF r
<1>3. RowSays(th[w].msg.id, r)
  BY <1>1, <1>2, WriteRowSays DEF Variant
<1>4. Becomes(w, "handler", th[w].st, r, th[w].out)
  BY <1>2, Forms, Zenon
<1> QED
  BY <1>1, <1>3, <1>4

\* No action is due.
LEMMA SkipToDoes ==
    ASSUME TypeOK, NEW w \in Threads, NEW rs, NEW out, SkipTo(w, rs, out)
    PROVE  UNCHANGED rsrc /\ Becomes(w, "release", th[w].st, rs, out)
<1>1. th' = [th EXCEPT ![w].rs = rs, ![w].out = out, ![w].pc = "release"] /\ UNCHANGED rsrc
  BY DEF SkipTo
<1> QED
  BY <1>1, Forms, Zenon

\* The check begins.
LEMMA BeginDoes ==
    ASSUME TypeOK, NEW w \in Threads, BeginCreate(w) \/ BeginUpdate(w) \/ BeginCleanup(w)
    PROVE  /\ th[w].pc = "begin" /\ Apartly(th[w].msg.id) /\ UNCHANGED phys
           /\ BeginsCreate(w) \/ BeginsUpdate(w) \/ BeginsCleanup(w)
<1>1. th[w].pc = "begin" /\ Apartly(th[w].msg.id) /\ UNCHANGED phys
  BY DEF BeginCreate, BeginUpdate, BeginCleanup, At, Apartly
<1>2. /\ th[w].rs \in Rows
      /\ Variant(Claimed(w), th[w].rs, th[w].rs.action, th[w].rs.status, th[w].st.tmpl,
                 Reports(th[w]))
  BY <1>1, ThreadFields, ClaimedIs DEF Checks
<1>3. CASE BeginCreate(w)
  <2>1. ASSUME StartAction(w, Claimed(w), "CREATE")
        PROVE  \E r : /\ Variant(r, th[w].rs, "CREATE", "IN_PROGRESS", th[w].st.tmpl, Reports(th[w]))
                      /\ RowSays(th[w].msg.id, r) /\ Becomes(w, "handler", th[w].st, r, th[w].out)
    <3>1. PICK r : /\ Variant(r, Claimed(w), "CREATE", "IN_PROGRESS", Claimed(w).tmpl,
                              Claimed(w).requires)
                   /\ RowSays(th[w].msg.id, r) /\ Becomes(w, "handler", th[w].st, r, th[w].out)
      BY <1>2, <2>1, StartActionDoes DEF Variant
    <3>2. Variant(r, th[w].rs, "CREATE", "IN_PROGRESS", th[w].st.tmpl, Reports(th[w]))
      BY <1>2, <3>1 DEF Variant
    <3> QED
      BY <3>1, <3>2
  <2>2. SkipTo(w, Claimed(w), "failed")
           => UNCHANGED rsrc /\ Becomes(w, "release", th[w].st, Claimed(w), "failed")
    BY SkipToDoes
  <2> QED
    BY <1>1, <1>3, <2>1, <2>2 DEF BeginCreate, BeginsCreate
<1>4. CASE BeginUpdate(w)
  <2>1. /\ th[w].msg.upd /\ th[w].rs.action # "INIT"
        /\ \/ th[w].rs.status = "FAILED" /\ SkipTo(w, th[w].rs, "replace")
           \/ th[w].rs.status # "FAILED" /\ SkipTo(w, Claimed(w), "done")
           \/ th[w].rs.status # "FAILED" /\ StartAction(w, th[w].rs, "UPDATE")
    BY <1>4 DEF BeginUpdate, needs_update
  <2>2. CASE th[w].rs.status = "FAILED" /\ SkipTo(w, th[w].rs, "replace")
    BY <1>1, <2>1, <2>2, SkipToDoes DEF BeginsUpdate
  <2>3. CASE th[w].rs.status # "FAILED" /\ SkipTo(w, Claimed(w), "done")
    BY <1>1, <1>2, <2>1, <2>3, SkipToDoes DEF BeginsUpdate
  <2>4. CASE th[w].rs.status # "FAILED" /\ StartAction(w, th[w].rs, "UPDATE")
    BY <1>1, <1>2, <2>1, <2>4, StartActionDoes DEF BeginsUpdate
  <2> QED
    BY <2>1, <2>2, <2>3, <2>4, SMTT(20)
<1>5. CASE BeginCleanup(w)
  <2>1. /\ ~th[w].msg.upd
        /\ \/ th[w].rs.tmpl = th[w].st.tmpl /\ SkipTo(w, th[w].rs, "done")
           \/ /\ th[w].rs.tmpl # th[w].st.tmpl /\ nothing_to_delete(th[w].rs)
              /\ Goto(w, "destroy") /\ UNCHANGED rsrc
           \/ /\ th[w].rs.tmpl # th[w].st.tmpl /\ ~nothing_to_delete(th[w].rs)
              /\ StartAction(w, th[w].rs, "DELETE")
    BY <1>5, Zenon DEF BeginCleanup
  <2>2. CASE SkipTo(w, th[w].rs, "done") /\ th[w].rs.tmpl = th[w].st.tmpl
    BY <1>1, <2>1, <2>2, SkipToDoes DEF BeginsCleanup
  <2>3. CASE /\ th[w].rs.tmpl # th[w].st.tmpl /\ nothing_to_delete(th[w].rs)
             /\ Goto(w, "destroy") /\ UNCHANGED rsrc
    <3>1. Becomes(w, "destroy", th[w].st, th[w].rs, th[w].out)
      BY <2>3, Forms, Zenon
    <3> QED
      BY <1>1, <2>1, <2>3, <3>1 DEF BeginsCleanup
  <2>4. CASE /\ th[w].rs.tmpl # th[w].st.tmpl /\ ~nothing_to_delete(th[w].rs)
             /\ StartAction(w, th[w].rs, "DELETE")
    BY <1>1, <1>2, <2>1, <2>4, StartActionDoes DEF BeginsCleanup
  <2> QED
    BY <2>1, <2>2, <2>3, <2>4
<1> QED
  BY <1>1, <1>3, <1>4, <1>5

\* How a handler returns.
EndsWell(w) ==
    LET t == th[w]
        done(r) == Variant(r, t.rs, t.rs.action, "COMPLETE", t.rs.tmpl, t.rs.requires)
    IN \/ /\ t.rs.action = "CREATE" /\ phys' = phys \cup {t.msg.id}
          /\ \E r : done(r) /\ RowSays(t.msg.id, r) /\ Becomes(w, "release", t.st, r, "done")
       \/ /\ t.rs.action = "UPDATE" /\ UNCHANGED <<rsrc, phys>>
          /\ Becomes(w, "release", t.st, t.rs, "replace")
       \/ /\ t.rs.action = "UPDATE" /\ UNCHANGED phys
          /\ \E r : done(r) /\ RowSays(t.msg.id, r)
          /\ \E r : /\ Variant(r, t.rs, "UPDATE", "COMPLETE", t.st.tmpl, Reports(t))
                    /\ Becomes(w, "release", t.st, r, "done")
       \/ /\ t.rs.action = "DELETE" /\ phys' = phys \ {t.msg.id}
          /\ \E r : done(r) /\ RowSays(t.msg.id, r) /\ Becomes(w, "destroy", t.st, r, t.out)

\* The handler returns.
LEMMA HandlerDoneDoes ==
    ASSUME TypeOK, NEW w \in Threads, HandlerDone(w)
    PROVE  th[w].pc = "handler" /\ Apartly(th[w].msg.id) /\ EndsWell(w)
<1> DEFINE done == [th[w].rs EXCEPT !.status = "COMPLETE"]
           claimed == [Claimed(w) EXCEPT !.status = "COMPLETE"]
           id == th[w].msg.id
<1>1. /\ th[w].pc = "handler" /\ UNCHANGED <<stack, nextId, nextTrav, sp, casts, dead>>
      /\ \/ /\ th[w].rs.action = "CREATE"
            /\ phys' = phys \cup {id}
            /\ WriteRow(id, Stored(w, done))
            /\ th' = [th EXCEPT ![w].rs = done, ![w].out = "done", ![w].pc = "release"]
         \/ /\ th[w].rs.action = "UPDATE"
            /\ th' = [th EXCEPT ![w].out = "replace", ![w].pc = "release"]
            /\ UNCHANGED <<rsrc, phys>>
         \/ /\ th[w].rs.action = "UPDATE"
            /\ WriteRow(id, Stored(w, done))
            /\ th' = [th EXCEPT ![w].rs = claimed, ![w].out = "done", ![w].pc = "release"]
            /\ UNCHANGED phys
         \/ /\ th[w].rs.action = "DELETE"
            /\ phys' = phys \ {id}
            /\ WriteRow(id, Stored(w, done))
            /\ th' = [th EXCEPT ![w].rs = done, ![w].pc = "destroy"]
  BY Zenon DEF HandlerDone, At
<1>2. /\ th[w].rs \in Rows
      /\ Variant(Claimed(w), th[w].rs, th[w].rs.action, th[w].rs.status, th[w].st.tmpl,
                 Reports(th[w]))
  BY <1>1, ThreadFields, ClaimedIs DEF Checks
<1>3. Variant(done, th[w].rs, th[w].rs.action, "COMPLETE", th[w].rs.tmpl, th[w].rs.requires)
  BY <1>2, StatusVariant, Zenon DEF Statuses
<1>4. Variant(claimed, th[w].rs, th[w].rs.action, "COMPLETE", th[w].st.tmpl, Reports(th[w]))
  <2>1. Variant(claimed, Claimed(w), Claimed(w).action, "COMPLETE", Claimed(w).tmpl,
                Claimed(w).requires)
    BY <1>2, StatusVariant, Zenon DEF Statuses, Variant
  <2> QED
    BY <1>2, <2>1 DEF Variant
<1> HIDE DEF done, claimed
<1>5. WriteRow(id, Stored(w, done)) => RowSays(id, done)
  BY <1>3, WriteRowSays DEF Variant
<1>6. Apartly(id)
  BY <1>1 DEF Apartly
<1>7. /\ th' = [th EXCEPT ![w].rs = done, ![w].out = "done", ![w].pc = "release"]
           => Becomes(w, "release", th[w].st, done, "done")
      /\ th' = [th EXCEPT ![w].out = "replace", ![w].pc = "release"]
           => Becomes(w, "release", th[w].st, th[w].rs, "replace")
      /\ th' = [th EXCEPT ![w].rs = claimed, ![w].out = "done", ![w].pc = "release"]
           => Becomes(w, "release", th[w].st, claimed, "done")
      /\ th' = [th EXCEPT ![w].rs = done, ![w].pc = "destroy"]
           => Becomes(w, "destroy", th[w].st, done, th[w].out)
  BY Forms, Zenon
<1>8. EndsWell(w)
  BY <1>1, <1>3, <1>4, <1>5, <1>7, Zenon DEF EndsWell
<1> QED
  BY <1>1, <1>6, <1>8

\* How a handler fails: the object may have the new template or the old one.
EndsBadly(w) ==
    LET t == th[w]
    IN /\ phys' = phys \/ (t.rs.action = "CREATE" /\ phys' = phys \cup {t.msg.id})
       /\ \E r : /\ Variant(r, t.rs, t.rs.action, "FAILED", t.rs.tmpl, t.rs.requires)
                 /\ RowSays(t.msg.id, r)
       /\ \E r, out :
             /\ out \in {"failed", "timeout"} /\ Becomes(w, "release", t.st, r, out)
             /\ \/ Variant(r, t.rs, t.rs.action, "FAILED", t.rs.tmpl, t.rs.requires)
                \/ /\ t.rs.action = "UPDATE"
                   /\ Variant(r, t.rs, t.rs.action, "FAILED", t.st.tmpl, Reports(t))

\* The handler fails.
LEMMA HandlerFailsDoes ==
    ASSUME TypeOK, NEW w \in Threads, NEW kind, HandlerFails(w, kind)
    PROVE  /\ th[w].pc = "handler" /\ Apartly(th[w].msg.id) /\ EndsBadly(w)
           /\ FaultKinds # {}
<1> DEFINE failed == [th[w].rs EXCEPT !.status = "FAILED"]
           claimed == [Claimed(w) EXCEPT !.status = "FAILED"]
           id == th[w].msg.id
           x == IF th[w].rs.action = "UPDATE" /\ kind = "fail" THEN claimed ELSE failed
           out == IF kind = "fail" THEN "failed" ELSE "timeout"
<1>1. /\ th[w].pc = "handler" /\ UNCHANGED <<stack, nextId, nextTrav, sp, casts, dead>>
      /\ FaultKinds # {}
      /\ WriteRow(id, Stored(w, failed))
      /\ th' = [th EXCEPT ![w].pc = "release", ![w].out = out, ![w].rs = x]
      /\ phys' = phys \/ (th[w].rs.action = "CREATE" /\ phys' = phys \cup {id})
  <2>1. /\ th[w].pc = "handler" /\ UNCHANGED <<stack, nextId, nextTrav, sp, casts, dead>>
        /\ WriteRow(id, Stored(w, failed))
        /\ th' = [th EXCEPT ![w].pc = "release", ![w].out = out, ![w].rs = x]
    BY Zenon DEF HandlerFails, At
  <2>2. /\ FaultKinds # {}
        /\ phys' = phys \/ (th[w].rs.action = "CREATE" /\ phys' = phys \cup {id})
    BY DEF HandlerFails, Fault
  <2> QED
    BY <2>1, <2>2
<1>2. /\ th[w].rs \in Rows
      /\ Variant(Claimed(w), th[w].rs, th[w].rs.action, th[w].rs.status, th[w].st.tmpl,
                 Reports(th[w]))
  BY <1>1, ThreadFields, ClaimedIs DEF Checks
<1>3. Variant(failed, th[w].rs, th[w].rs.action, "FAILED", th[w].rs.tmpl, th[w].rs.requires)
  BY <1>2, StatusVariant, Zenon DEF Statuses
<1>4. Variant(claimed, th[w].rs, th[w].rs.action, "FAILED", th[w].st.tmpl, Reports(th[w]))
  <2>1. Variant(claimed, Claimed(w), Claimed(w).action, "FAILED", Claimed(w).tmpl,
                Claimed(w).requires)
    BY <1>2, StatusVariant, Zenon DEF Statuses, Variant
  <2> QED
    BY <1>2, <2>1 DEF Variant
<1> HIDE DEF failed, claimed
<1>5. \/ Variant(x, th[w].rs, th[w].rs.action, "FAILED", th[w].rs.tmpl, th[w].rs.requires)
      \/ /\ th[w].rs.action = "UPDATE"
         /\ Variant(x, th[w].rs, th[w].rs.action, "FAILED", th[w].st.tmpl, Reports(th[w]))
  BY <1>3, <1>4
<1>6. out \in {"failed", "timeout"}
  OBVIOUS
<1> HIDE DEF x, out
<1>7. RowSays(id, failed)
  BY <1>1, <1>3, WriteRowSays DEF Variant
<1>8. Becomes(w, "release", th[w].st, x, out)
  BY <1>1, Forms, Zenon
<1>9. EndsBadly(w)
  BY <1>1, <1>3, <1>5, <1>6, <1>7, <1>8, Zenon DEF EndsBadly
<1>10. Apartly(id)
  BY <1>1 DEF Apartly
<1> QED
  BY <1>1, <1>9, <1>10

\* Where Release goes.
After(out) == CASE out = "done" -> "propagate" [] out = "replace" -> "replace"
                [] out = "failed" -> "fail" [] out = "timeout" -> "reload"

\* Release() writes the template and the requirements, if the row is there.
LEMMA ReleaseDoes ==
    ASSUME TypeOK, LockInv, dead = {}, NEW w \in Threads, w \in Workers, Release(w)
    PROVE  /\ th[w].pc = "release" /\ Apartly(th[w].msg.id) /\ UNCHANGED phys
           /\ \/ th[w].msg.id \notin DOMAIN rsrc /\ UNCHANGED rsrc /\ Gone(w)
              \/ /\ th[w].msg.id \in DOMAIN rsrc
                 /\ DOMAIN rsrc' = DOMAIN rsrc
                 /\ \A j \in DOMAIN rsrc \ {th[w].msg.id} : rsrc'[j] = rsrc[j]
                 /\ Variant(rsrc'[th[w].msg.id], rsrc[th[w].msg.id], rsrc[th[w].msg.id].action,
                            rsrc[th[w].msg.id].status, th[w].rs.tmpl, th[w].rs.requires)
                 /\ Becomes(w, After(th[w].out), th[w].st, th[w].rs, th[w].out)
<1> DEFINE id == th[w].msg.id
           row == [Bumped(rsrc[id]) EXCEPT !.engine = None, !.tmpl = th[w].rs.tmpl,
                                           !.requires = th[w].rs.requires]
           b == Bumped(rsrc[id])
           b1 == [b EXCEPT !.engine = None]
           b2 == [b1 EXCEPT !.tmpl = th[w].rs.tmpl]
           pc == After(th[w].out)
<1>1. th[w].pc = "release" /\ Apartly(id) /\ UNCHANGED phys
  BY DEF Release, At, Apartly
<1>2. th[w].rs \in Rows
  BY <1>1, ThreadFields DEF Checks
<1>3. CASE id \notin DOMAIN rsrc
  <2>1. Return(w) /\ UNCHANGED rsrc
    BY <1>3 DEF Release
  <2>2. Gone(w)
    BY <2>1, Forms, Zenon
  <2> QED
    BY <1>1, <1>3, <2>1, <2>2
<1>4. CASE id \in DOMAIN rsrc
  <2>1. rsrc[id].engine = Engine[w]
    BY <1>1, <1>4 DEF LockInv, HoldersAreNamed, Holding, Alive
  <2>2. Goto(w, pc) /\ rsrc' = [rsrc EXCEPT ![id] = row]
    BY <1>4, <2>1, Zenon DEF Release, After
  <2>3. Variant(row, rsrc[id], rsrc[id].action, rsrc[id].status, th[w].rs.tmpl, th[w].rs.requires)
    <3>1. rsrc[id] \in Rows
      BY <1>4 DEF TypeOK
    <3>2. Variant(b, rsrc[id], rsrc[id].action, rsrc[id].status, rsrc[id].tmpl, rsrc[id].requires)
      BY <3>1 DEF Bumped, Variant, Rows
    <3>3. row = [b2 EXCEPT !.requires = th[w].rs.requires]
      OBVIOUS
    <3> HIDE DEF row, b
    <3>4. Variant(b1, rsrc[id], rsrc[id].action, rsrc[id].status, rsrc[id].tmpl, rsrc[id].requires)
      BY <3>2 DEF Variant, Rows
    <3> HIDE DEF b1
    <3>5. Variant(b2, rsrc[id], rsrc[id].action, rsrc[id].status, th[w].rs.tmpl, rsrc[id].requires)
      BY <1>2, <3>4 DEF Variant, Rows
    <3> HIDE DEF b2
    <3> QED
      BY <1>2, <3>3, <3>5 DEF Variant, Rows
  <2> HIDE DEF row, b, b1, b2, pc
  <2>4. Becomes(w, pc, th[w].st, th[w].rs, th[w].out)
    BY <2>2, Forms, Zenon
  <2>5. /\ DOMAIN rsrc' = DOMAIN rsrc /\ rsrc'[id] = row
        /\ \A j \in DOMAIN rsrc \ {id} : rsrc'[j] = rsrc[j]
    BY <1>4, <2>2
  <2> QED
    BY <1>1, <1>4, <2>3, <2>4, <2>5 DEF pc
<1> QED
  BY <1>3, <1>4

\* destroy() drops the row; only its replacement may still change.
LEMMA DestroyDoes ==
    ASSUME TypeOK, NEW w \in Threads, Destroy(w)
    PROVE  /\ th[w].pc = "destroy" /\ Apartly(th[w].msg.id) /\ UNCHANGED phys
           /\ Becomes(w, "propagate", th[w].st, th[w].rs, th[w].out)
           /\ DOMAIN rsrc' = DOMAIN rsrc \ {th[w].msg.id}
           /\ \A j \in DOMAIN rsrc' :
                 \/ rsrc'[j] = rsrc[j]
                 \/ j = th[w].rs.replaced_by /\ Same(rsrc'[j], rsrc[j])
<1> DEFINE id == th[w].msg.id
           r == th[w].rs.replaced_by
           left == Restrict(rsrc, DOMAIN rsrc \ {id})
           row == [Bumped(left[r]) EXCEPT !.replaces = None]
<1>1. /\ th[w].pc = "destroy" /\ Apartly(id) /\ UNCHANGED phys /\ Goto(w, "propagate")
      /\ rsrc' = left \/ (r \in DOMAIN left /\ rsrc' = [left EXCEPT ![r] = row])
  <2>1. /\ th[w].pc = "destroy" /\ Goto(w, "propagate")
        /\ UNCHANGED <<stack, nextId, nextTrav, sp, casts, phys, dead>>
        /\ rsrc' = IF r \in DOMAIN left /\ left[r].tmpl = th[w].st.tmpl /\ left[r].engine = None
                   THEN [left EXCEPT ![r] = row] ELSE left
    BY Zenon DEF Destroy, At
  <2>2. Apartly(id)
    BY <2>1 DEF Apartly
  <2> HIDE DEF left, row, r
  <2> QED
    BY <2>1, <2>2
<1>2. Becomes(w, "propagate", th[w].st, th[w].rs, th[w].out)
  BY <1>1, Forms, Zenon
<1>3. DOMAIN left = DOMAIN rsrc \ {id} /\ \A j \in DOMAIN left : left[j] = rsrc[j]
  BY DEF Restrict
<1>4. r \in DOMAIN left => Same(row, rsrc[r])
  <2> HIDE DEF left, r
  <2>1. r \in DOMAIN left => left[r] = rsrc[r] /\ rsrc[r] \in Rows
    BY <1>3 DEF TypeOK
  <2>2. \A a \in Rows : Same([Bumped(a) EXCEPT !.replaces = None], a)
    BY DEF Rows, Bumped, Same
  <2> QED
    BY <2>1, <2>2
<1> HIDE DEF left, row
<1> QED
  BY <1>1, <1>2, <1>3, <1>4

\* Without a dead engine nobody steals.
LEMMA TryStealDoes ==
    ASSUME TypeOK, dead = {}, NEW w \in Threads, TrySteal(w)
    PROVE  /\ th[w].pc = "in_progress" /\ Apartly(th[w].msg.id) /\ UNCHANGED <<rsrc, phys>>
           /\ Gone(w)
<1>1. /\ th[w].pc = "in_progress" /\ Apartly(th[w].msg.id) /\ UNCHANGED <<rsrc, phys>>
      /\ Return(w)
  BY DEF TrySteal, At, db, Apartly
<1> QED
  BY <1>1, Forms, Zenon

\* make_replacement() and the cast for the replacement, as it is sent if the
\* row is still there.
IsReplaced(w) ==
    /\ UNCHANGED <<stack, nextTrav, sp, phys, dead>> /\ Gone(w)
    /\ nextId' = nextId + 1 /\ nextId \notin DOMAIN rsrc \cup Ids
    /\ DOMAIN rsrc' = DOMAIN rsrc \cup {nextId}
    /\ rsrc'[nextId] = NewRow(th[w].rs.name, th[w].st.tmpl, th[w].rs.requires, th[w].msg.id)
    /\ \A j \in DOMAIN rsrc \ {th[w].msg.id} : rsrc'[j] = rsrc[j]
    /\ th[w].msg.id \in DOMAIN rsrc =>
          /\ casts' = casts \cup {Cast(nextId, th[w].msg.trav, TRUE, th[w].msg.data)}
          /\ rsrc'[th[w].msg.id] = [rsrc[th[w].msg.id] EXCEPT !.status = "COMPLETE",
                                                              !.replaced_by = nextId]
    /\ th[w].msg.id \notin DOMAIN rsrc => UNCHANGED casts

\* That is what Replace does.
LEMMA ReplaceDoes ==
    ASSUME TypeOK, NEW w \in Threads, Replace(w)
    PROVE  th[w].pc = "replace" /\ IsReplaced(w)
<1> DEFINE id == th[w].msg.id
           new == NewRow(th[w].rs.name, th[w].st.tmpl, th[w].rs.requires, id)
           replaced == [rsrc[id] EXCEPT !.status = "COMPLETE", !.replaced_by = nextId]
           c == Cast(nextId, th[w].msg.trav, TRUE, th[w].msg.data)
<1>1. /\ th[w].pc = "replace" /\ UNCHANGED <<stack, nextTrav, sp, phys, dead>>
      /\ Return(w) /\ nextId' = nextId + 1
      /\ rsrc' = [i \in DOMAIN rsrc \cup {nextId} |->
                    IF i = nextId THEN new ELSE IF i = id THEN replaced ELSE rsrc[i]]
      /\ casts' = IF id \in DOMAIN rsrc THEN casts \cup {c} ELSE casts
  BY DEF Replace, At
<1>2. nextId \notin DOMAIN rsrc \cup Ids
  BY DEF TypeOK, Ids
<1>3. Gone(w)
  BY <1>1, Forms, Zenon
<1> HIDE DEF new, replaced, c
<1>4. /\ DOMAIN rsrc' = DOMAIN rsrc \cup {nextId} /\ rsrc'[nextId] = new
      /\ \A j \in DOMAIN rsrc \ {id} : rsrc'[j] = rsrc[j]
      /\ id \in DOMAIN rsrc => rsrc'[id] = replaced
  BY <1>1, <1>2
<1> QED
  BY <1>1, <1>2, <1>3, <1>4, Zenon DEF new, replaced, c, IsReplaced

-----------------------------------------------------------------------------
(* The checks of a traversal, while operations follow one another.           *)

\* The rows that have not been created.
RowsAreClean == \A i \in DOMAIN rsrc : rsrc[i].action = "INIT" => rsrc[i].status = "COMPLETE"

\* While somebody works nobody prepares a traversal.
LEMMA NobodyLaunches ==
    ASSUME SeqInv, NEW w \in Threads, Busy(th[w]), th[w].pc \notin Launching
    PROVE  \A v \in Threads : th[v].pc \notin Launching
  BY DEF SeqInv, LaunchAlone

\* A thread that does nothing to the stack steps on.
LEMMA StepKeepsSeq ==
    ASSUME SeqInv, NEW w \in Threads, \A v \in Threads : th[v].pc \notin Launching,
           UNCHANGED dead, \A v \in Threads \ {w} : th'[v] = th[v],
           stack'.trav = stack.trav, stack'.tmpl = stack.tmpl, stack'.action # "ROLLBACK",
           th'[w].pc \notin {"crashed", "steal", "mark_failed", "rollback"} \cup Launching,
           Busy(th'[w]) => /\ th'[w].st.live /\ th'[w].st.trav = stack.trav
                           /\ th'[w].st.tmpl = stack.tmpl /\ th'[w].st.action # "ROLLBACK",
           th'[w].pc = "retrigger" \/ (th'[w].pc = "fail" /\ th'[w].out = "failed")
               => th'[w].msg.trav = stack.trav,
           th'[w].pc = "reload" => th'[w].out = "timeout",
           \A m \in casts' : m.trav = stack.trav,
           RowsAreClean',
           th'[w].pc \in Checks /\ th'[w].rs.action = "INIT" => th'[w].rs.status = "COMPLETE",
           th'[w].pc = "handler" => th'[w].rs.action # "INIT",
           \/ DisableRollback
           \/ /\ th'[w].pc \notin {"fail", "reload"}
              /\ th'[w].pc = "release" => th'[w].out \notin {"failed", "timeout"},
           PointsArePurged'
    PROVE  SeqInv'
<1>1. \A v \in Threads : th[v].pc \notin Launching /\ th'[v].pc \notin Launching
  OBVIOUS
<1>2. "store1" \in Launching
  BY DEF Launching
<1>3. \A v \in Threads : Serves(th[v])'
  <2> SUFFICES ASSUME NEW v \in Threads PROVE Serves(th[v])'
    OBVIOUS
  <2>1. th'[v].pc # "store1"
    BY <1>1, <1>2
  <2>2. CASE v = w
    BY <2>1, <2>2 DEF Serves, Busy
  <2>3. CASE v # w
    BY <2>1, <2>3 DEF Serves, Busy, SeqInv
  <2> QED
    BY <2>2, <2>3
<1>4. LaunchAlone'
  BY <1>1 DEF LaunchAlone
<1>5. InitIsClean'
  BY DEF InitIsClean, RowsAreClean, SeqInv
<1>6. NothingToRollBack'
  BY DEF NothingToRollBack, SeqInv
<1> QED
  BY <1>3, <1>4, <1>5, <1>6 DEF SeqInv

\* The sync points wait for the same thread as before.
LEMMA PointsStay ==
    ASSUME PointsArePurged, NEW w \in Threads, th[w].pc \notin {"purge", "purge_points"},
           \A v \in Threads \ {w} : th'[v] = th[v],
           UNCHANGED stack, DOMAIN sp' \subseteq DOMAIN sp
    PROVE  PointsArePurged'
  BY DEF PointsArePurged

\* A check steps on.
LEMMA CheckKeepsSeq ==
    ASSUME TravInv, SeqInv, NEW w \in Threads, th[w].pc \in Checks,
           UNCHANGED <<stack, dead>>, DOMAIN sp' \subseteq DOMAIN sp,
           \A m \in casts' : m \in casts \/ m.trav = th[w].msg.trav,
           RowsAreClean',
           \/ Gone(w)
           \/ \E pc, rs, out :
                 /\ Becomes(w, pc, th[w].st, rs, out)
                 /\ pc \in (Checks \ {"steal", "mark_failed"}) \cup {"fail", "reload", "retrigger", "complete"}
                 /\ pc \in Checks /\ rs.action = "INIT" => rs.status = "COMPLETE"
                 /\ pc = "handler" => rs.action # "INIT"
                 /\ pc = "reload" => out = "timeout"
                 /\ \/ DisableRollback
                    \/ /\ pc \notin {"fail", "reload"}
                       /\ pc = "release" => out \notin {"failed", "timeout"}
    PROVE  SeqInv'
<1>1. /\ Busy(th[w]) /\ th[w].pc \notin Launching \cup {"purge", "purge_points"}
      /\ \A pc \in Checks \cup {"fail", "reload", "retrigger", "complete"} : pc \notin Launching \cup {"crashed", "rollback"}
  BY DEF Busy, Checks, Launching
<1>2. /\ th[w].st.trav = stack.trav /\ th[w].st.tmpl = stack.tmpl /\ th[w].st.action # "ROLLBACK"
      /\ th[w].st.live /\ th[w].msg.trav = stack.trav
  BY <1>1 DEF SeqInv, Serves, TravInv, ThreadOK, ChecksOwn
<1>3. \A m \in casts' : m.trav = stack.trav
  BY <1>2 DEF SeqInv
<1>4. \A v \in Threads \ {w} : th'[v] = th[v]
  BY DEF Gone, Becomes
<1>5. PointsArePurged' /\ \A v \in Threads : th[v].pc \notin Launching
  BY <1>1, <1>4, PointsStay, NobodyLaunches DEF SeqInv
<1>6. CASE Gone(w)
  <2>1. th'[w].pc \in {"idle", "finished"}
    BY <1>6 DEF Gone, Returned
  <2> QED
    BY <1>1, <1>3, <1>4, <1>5, <2>1, StepKeepsSeq DEF SeqInv, Busy, Launching, Checks
<1>7. ASSUME NEW pc, NEW rs, NEW out, Becomes(w, pc, th[w].st, rs, out),
             pc \in (Checks \ {"steal", "mark_failed"}) \cup {"fail", "reload", "retrigger", "complete"},
             pc \in Checks /\ rs.action = "INIT" => rs.status = "COMPLETE",
             pc = "handler" => rs.action # "INIT",
             pc = "reload" => out = "timeout",
             \/ DisableRollback
             \/ /\ pc \notin {"fail", "reload"}
                /\ pc = "release" => out \notin {"failed", "timeout"}
      PROVE  SeqInv'
  <2>1. /\ th'[w].pc = pc /\ th'[w].st = th[w].st /\ th'[w].rs = rs /\ th'[w].out = out
        /\ th'[w].msg = th[w].msg
    BY <1>7 DEF Becomes
  <2>2. pc \notin {"crashed", "steal", "mark_failed", "rollback"} \cup Launching
    BY <1>1, <1>7
  <2> QED
    BY <1>1, <1>2, <1>3, <1>4, <1>5, <1>7, <2>1, <2>2, StepKeepsSeq DEF SeqInv
<1> QED
  BY <1>6, <1>7

\* A row that is written with a clean object.
LEMMA SaysClean ==
    ASSUME RowsAreClean, NEW i, NEW r, RowSays(i, r), r.action = "INIT" => r.status = "COMPLETE"
    PROVE  RowsAreClean'
  BY DEF RowsAreClean, RowSays, Same

\* What a check does to its resource.
LEMMA WorkKeepsSeq ==
    ASSUME OneByOne, TravInv, LockInv, SeqInv, NEW w \in Threads,
           \/ AcquireRead(w) \/ Acquire(w) \/ BeginCreate(w) \/ BeginUpdate(w) \/ BeginCleanup(w)
           \/ HandlerDone(w) \/ (\E k \in {"fail", "timeout"} : HandlerFails(w, k))
           \/ Destroy(w) \/ Release(w) \/ TrySteal(w)
    PROVE  SeqInv'
<1> DEFINE t == th[w]
           id == t.msg.id
           Fine(pc, rs, out) ==
              /\ pc \in (Checks \ {"steal", "mark_failed"}) \cup {"fail", "reload"}
              /\ pc \in Checks /\ rs.action = "INIT" => rs.status = "COMPLETE"
              /\ pc = "handler" => rs.action # "INIT"
              /\ pc = "reload" => out = "timeout"
              /\ \/ DisableRollback
                 \/ /\ pc \notin {"fail", "reload"}
                    /\ pc = "release" => out \notin {"failed", "timeout"}
           Goes == Gone(w) \/ \E pc, rs, out : Becomes(w, pc, t.st, rs, out) /\ Fine(pc, rs, out)
<1>0. /\ TypeOK /\ dead = {} /\ RowsAreClean
      /\ \A v \in Threads : th[v].pc \in Checks => v \in Workers
      /\ t.pc \in Checks => (t.rs.action = "INIT" => t.rs.status = "COMPLETE")
      /\ t.pc = "handler" => t.rs.action # "INIT"
      /\ DisableRollback \/ FaultKinds = {}
      /\ \/ DisableRollback
         \/ t.pc = "release" => t.out \notin {"failed", "timeout"}
  BY DEF TravInv, SeqInv, InitIsClean, NothingToRollBack, RowsAreClean, OneByOne, WorkersCheck
<1>1. ASSUME t.pc \in Checks, Apartly(id), RowsAreClean', Goes PROVE SeqInv'
  <2>1. \E pc, rs, out :
                 /\ Becomes(w, pc, th[w].st, rs, out)
                 /\ pc \in (Checks \ {"steal", "mark_failed"}) \cup {"fail", "reload", "retrigger", "complete"}
                 /\ pc \in Checks /\ rs.action = "INIT" => rs.status = "COMPLETE"
                 /\ pc = "handler" => rs.action # "INIT"
                 /\ pc = "reload" => out = "timeout"
                 /\ \/ DisableRollback
                    \/ /\ pc \notin {"fail", "reload"}
                       /\ pc = "release" => out \notin {"failed", "timeout"}
         \/ Gone(w)
    BY <1>1
  <2> QED
    BY <1>1, <2>1, CheckKeepsSeq DEF Apartly
<1>2. UNCHANGED rsrc => RowsAreClean'
  BY <1>0 DEF RowsAreClean
<1>3. CASE AcquireRead(w)
  <2>1. Becomes(w, "cas", t.st, t.rs, t.out) => Goes
    BY <1>0, <1>3, AcquireReadDoes DEF Checks
  <2> QED
    BY <1>0, <1>1, <1>2, <1>3, <2>1, AcquireReadDoes DEF Checks
<1>4. CASE Acquire(w)
  <2>1. t.pc = "cas" /\ Apartly(id) /\ RowSays(id, rsrc[id])
    BY <1>0, <1>4, AcquireDoes
  <2>2. RowsAreClean'
    BY <1>0, <2>1 DEF RowsAreClean, RowSays, Same
  <2>3. Goes
    BY <1>0, <1>4, <2>1, AcquireDoes DEF Checks
  <2> QED
    BY <1>1, <2>1, <2>2, <2>3 DEF Checks
<1>5. CASE BeginCreate(w) \/ BeginUpdate(w) \/ BeginCleanup(w)
  <2>1. /\ t.pc = "begin" /\ t.pc \in Checks /\ Apartly(id)
        /\ BeginsCreate(w) \/ BeginsUpdate(w) \/ BeginsCleanup(w)
    BY <1>0, <1>5, BeginDoes DEF Checks
  <2>2. CASE BeginsCreate(w)
    <3>1. PICK r : /\ Variant(r, t.rs, "CREATE", "IN_PROGRESS", t.st.tmpl, Reports(t))
                   /\ RowSays(id, r) /\ Becomes(w, "handler", t.st, r, t.out)
      BY <1>0, <2>1, <2>2 DEF BeginsCreate
    <3>2. r.action = "CREATE"
      BY <3>1 DEF Variant
    <3>3. RowsAreClean' /\ Goes
      BY <1>0, <3>1, <3>2, SaysClean DEF Checks
    <3> QED
      BY <1>1, <2>1, <3>3
  <2>3. CASE BeginsUpdate(w)
    <3>1. CASE UNCHANGED rsrc /\ Becomes(w, "release", t.st, t.rs, "replace")
      <4>1. Goes
        BY <1>0, <2>1, <3>1 DEF Checks
      <4> QED
        BY <1>1, <1>2, <2>1, <3>1, <4>1
    <3>2. ASSUME NEW r, Variant(r, t.rs, t.rs.action, t.rs.status, t.st.tmpl, Reports(t)),
                 UNCHANGED rsrc, Becomes(w, "release", t.st, r, "done")
          PROVE  SeqInv'
      <4>1. Goes
        BY <1>0, <2>1, <3>2 DEF Checks, Variant
      <4> QED
        BY <1>1, <1>2, <2>1, <3>2, <4>1
    <3>3. ASSUME NEW r, Variant(r, t.rs, "UPDATE", "IN_PROGRESS", t.rs.tmpl, t.rs.requires),
                 RowSays(id, r), Becomes(w, "handler", t.st, r, t.out)
          PROVE  SeqInv'
      <4>1. r.action = "UPDATE"
        BY <3>3 DEF Variant
      <4>2. RowsAreClean' /\ Goes
        BY <1>0, <3>3, <4>1, SaysClean DEF Checks
      <4> QED
        BY <1>1, <2>1, <4>2
    <3> QED
      BY <2>3, <3>1, <3>2, <3>3 DEF BeginsUpdate
  <2>4. CASE BeginsCleanup(w)
    <3>1. CASE UNCHANGED rsrc /\ \E pc \in {"release", "destroy"}, out \in {"done", t.out} :
                  /\ pc = "release" => out = "done"
                  /\ Becomes(w, pc, t.st, t.rs, out)
      <4>1. Goes
        BY <1>0, <2>1, <3>1 DEF Checks
      <4> QED
        BY <1>1, <1>2, <2>1, <3>1, <4>1
    <3>2. ASSUME NEW r, Variant(r, t.rs, "DELETE", "IN_PROGRESS", t.rs.tmpl, t.rs.requires),
                 RowSays(id, r), Becomes(w, "handler", t.st, r, t.out)
          PROVE  SeqInv'
      <4>1. r.action = "DELETE"
        BY <3>2 DEF Variant
      <4>2. RowsAreClean' /\ Goes
        BY <1>0, <3>2, <4>1, SaysClean DEF Checks
      <4> QED
        BY <1>1, <2>1, <4>2
    <3> QED
      BY <2>4, <3>1, <3>2 DEF BeginsCleanup
  <2> QED
    BY <2>1, <2>2, <2>3, <2>4
<1>6. CASE HandlerDone(w)
  <2>1. t.pc = "handler" /\ t.pc \in Checks /\ Apartly(id) /\ EndsWell(w)
    BY <1>0, <1>6, HandlerDoneDoes DEF Checks
  <2>2. ASSUME NEW r, Variant(r, t.rs, t.rs.action, "COMPLETE", t.rs.tmpl, t.rs.requires),
               RowSays(id, r)
        PROVE  RowsAreClean'
    BY <1>0, <2>2, SaysClean DEF Variant
  <2>3. RowsAreClean'
    BY <1>2, <2>1, <2>2 DEF EndsWell
  <2>4. \E pc \in {"release", "destroy"} : \E r, out :
           /\ Becomes(w, pc, t.st, r, out) /\ r.action # "INIT"
           /\ pc = "release" => out \notin {"failed", "timeout"}
    <3>1. ASSUME NEW r, NEW out, Becomes(w, "release", t.st, r, out), r.action # "INIT",
                 out \in {"done", "replace"}
          PROVE  <2>4
      BY <3>1
    <3>2. ASSUME NEW r, Becomes(w, "destroy", t.st, r, t.out), r.action # "INIT"
          PROVE  <2>4
      BY <3>2
    <3> QED
      BY <1>0, <2>1, <3>1, <3>2 DEF EndsWell, Variant
  <2>5. Goes
    BY <2>4 DEF Checks
  <2> QED
    BY <1>1, <2>1, <2>3, <2>5
<1>7. ASSUME NEW k, HandlerFails(w, k) PROVE SeqInv'
  <2>1. /\ t.pc = "handler" /\ t.pc \in Checks /\ Apartly(id) /\ EndsBadly(w)
        /\ DisableRollback
    BY <1>0, <1>7, HandlerFailsDoes DEF Checks
  <2>2. RowsAreClean'
    <3>1. PICK r : /\ Variant(r, t.rs, t.rs.action, "FAILED", t.rs.tmpl, t.rs.requires)
                   /\ RowSays(id, r)
      BY <2>1 DEF EndsBadly
    <3> QED
      BY <1>0, <2>1, <3>1, SaysClean DEF Variant
  <2>3. Goes
    <3>1. PICK r, out : /\ Becomes(w, "release", t.st, r, out)
                        /\ r.action = t.rs.action
      BY <2>1 DEF EndsBadly, Variant
    <3> QED
      BY <1>0, <2>1, <3>1 DEF Checks
  <2> QED
    BY <1>1, <2>1, <2>2, <2>3
<1>8. CASE Destroy(w)
  <2>1. /\ t.pc = "destroy" /\ t.pc \in Checks /\ Apartly(id)
        /\ Becomes(w, "propagate", t.st, t.rs, t.out)
    BY <1>0, <1>8, DestroyDoes, Zenon DEF Checks
  <2>2. RowsAreClean'
    <3>1. /\ DOMAIN rsrc' = DOMAIN rsrc \ {id}
          /\ \A j \in DOMAIN rsrc' : rsrc'[j] = rsrc[j] \/ Same(rsrc'[j], rsrc[j])
      BY <1>0, <1>8, DestroyDoes
    <3> QED
      BY <1>0, <3>1 DEF RowsAreClean, Same
  <2>3. Goes
    BY <1>0, <2>1 DEF Checks
  <2> QED
    BY <1>1, <2>1, <2>2, <2>3
<1>9. CASE Release(w)
  <2>1. t.pc = "release" /\ t.pc \in Checks /\ w \in Workers
    BY <1>0, <1>9 DEF Release, At, Checks
  <2>2. /\ Apartly(id)
        /\ \/ UNCHANGED rsrc /\ Gone(w)
           \/ /\ DOMAIN rsrc' = DOMAIN rsrc /\ id \in DOMAIN rsrc
              /\ \A j \in DOMAIN rsrc \ {id} : rsrc'[j] = rsrc[j]
              /\ Variant(rsrc'[id], rsrc[id], rsrc[id].action, rsrc[id].status, t.rs.tmpl,
                         t.rs.requires)
              /\ Becomes(w, After(t.out), t.st, t.rs, t.out)
    BY <1>0, <1>9, <2>1, ReleaseDoes
  <2>3. RowsAreClean'
    BY <1>0, <1>2, <2>2 DEF RowsAreClean, Variant
  <2>4. t.out \in {"done", "replace", "failed", "timeout"}
    BY <1>0, <2>1, ThreadFields
  <2>5. Becomes(w, After(t.out), t.st, t.rs, t.out) => Goes
    <3>1. After(t.out) \in {"propagate", "replace", "fail", "reload"}
      BY <2>4 DEF After
    <3>2. After(t.out) \in {"fail", "reload"} => t.out \in {"failed", "timeout"}
      BY <2>4 DEF After
    <3>4. After(t.out) = "reload" => t.out = "timeout"
      BY <2>4 DEF After
    <3> HIDE DEF t
    <3>3. Fine(After(t.out), t.rs, t.out)
      BY <1>0, <2>1, <3>1, <3>2, <3>4 DEF Checks
    <3> QED
      BY <3>3
  <2> QED
    BY <1>1, <2>1, <2>2, <2>3, <2>5
<1>10. CASE TrySteal(w)
  BY <1>0, <1>1, <1>2, <1>10, TryStealDoes DEF Checks
<1> QED
  BY <1>3, <1>4, <1>5, <1>6, <1>7, <1>8, <1>9, <1>10

\* The rows of a traversal that is replaced, and its sync points.
LEMMA ReportKeepsSeq ==
    ASSUME OneByOne, TravInv, SeqInv, NEW w \in Threads, Replace(w) \/ Propagate(w)
    PROVE  SeqInv'
<1>0. /\ TypeOK /\ RowsAreClean
      /\ \A pc \in {"retrigger", "complete"} : pc \notin Checks
  BY DEF TravInv, SeqInv, InitIsClean, RowsAreClean, Checks
<1>1. CASE Replace(w)
  <2>0. th[w].pc = "replace" /\ IsReplaced(w)
    BY <1>0, <1>1, ReplaceDoes
  <2>1. /\ th[w].pc \in Checks /\ UNCHANGED <<stack, sp, dead>> /\ Gone(w)
        /\ DOMAIN rsrc' = DOMAIN rsrc \cup {nextId} /\ nextId \notin DOMAIN rsrc
        /\ rsrc'[nextId] = NewRow(th[w].rs.name, th[w].st.tmpl, th[w].rs.requires, th[w].msg.id)
        /\ \A j \in DOMAIN rsrc \ {th[w].msg.id} : rsrc'[j] = rsrc[j]
        /\ th[w].msg.id \in DOMAIN rsrc =>
              rsrc'[th[w].msg.id] = [rsrc[th[w].msg.id] EXCEPT !.status = "COMPLETE",
                                                              !.replaced_by = nextId]
    <3>1. "replace" \in Checks
      BY DEF Checks
    <3> QED
      BY <2>0, <3>1, Zenon DEF IsReplaced
  <2>2. \A m \in casts' : m \in casts \/ m.trav = th[w].msg.trav
    <3> DEFINE c == Cast(nextId, th[w].msg.trav, TRUE, th[w].msg.data)
    <3>1. casts' = casts \cup {c} \/ UNCHANGED casts
      BY <2>0, Zenon DEF IsReplaced
    <3>2. c.trav = th[w].msg.trav
      BY DEF Cast
    <3> QED
      BY <3>1, <3>2, Zenon
  <2>3. RowsAreClean'
    <3>1. rsrc'[nextId].status = "COMPLETE"
      BY <2>1 DEF NewRow
    <3>2. th[w].msg.id \in DOMAIN rsrc => rsrc'[th[w].msg.id].status = "COMPLETE"
      BY <1>0, <2>1, Zenon DEF TypeOK, Rows
    <3> QED
      BY <1>0, <2>1, <3>1, <3>2 DEF RowsAreClean
  <2> QED
    BY <2>1, <2>2, <2>3, CheckKeepsSeq
<1>2. CASE Propagate(w)
  <2>1. /\ th[w].pc = "propagate" /\ UNCHANGED <<stack, rsrc, dead>>
        /\ \/ Return(w)
           \/ Goto(w, "retrigger")
           \/ Goto(w, "complete")
    BY <1>2, Zenon DEF Propagate, At
  <2>2. DOMAIN sp' = DOMAIN sp
    <3>1. \/ UNCHANGED sp
          \/ \E trav, p : sp' = [sp EXCEPT ![trav] = p]
      BY <1>2, Zenon DEF Propagate
    <3> QED
      BY <3>1
  <2>3. \A m \in casts' : m \in casts \/ m.trav = th[w].msg.trav
    <3> DEFINE g == th[w].st.deps
               key == graph_key(w)
               next == required_by(g, key)
               points == sp[th[w].msg.trav]
               data(n) == merge(points[n],
                                IF n = StackNode THEN stack_sender(w) ELSE key,
                                IF n[2] /\ n # StackNode THEN th[w].msg.id ELSE None)
               ready == {n \in next : graphPreds(g, n) \subseteq senders(data(n))}
    <3>1. \/ UNCHANGED casts
          \/ casts' = casts \cup {Cast(n[1], th[w].msg.trav, n[2], data(n)) : n \in ready}
      BY <1>2, Zenon DEF Propagate
    <3> HIDE DEF ready, data
    <3> QED
      BY <3>1 DEF Cast
  <2>4. Return(w) => Gone(w)
    BY <1>0, Forms, Zenon
  <2>5. /\ Goto(w, "retrigger") => Becomes(w, "retrigger", th[w].st, th[w].rs, th[w].out)
        /\ Goto(w, "complete") => Becomes(w, "complete", th[w].st, th[w].rs, th[w].out)
    BY <1>0, Forms, Zenon
  <2>6. /\ "handler" # "retrigger" /\ "handler" # "complete" /\ "release" # "retrigger"
        /\ "release" # "complete" /\ th[w].pc \in Checks
    BY <2>1 DEF Checks
  <2>7. RowsAreClean'
    BY <1>0, <2>1 DEF RowsAreClean
  <2>8. \/ Gone(w)
        \/ \E pc \in {"retrigger", "complete"} :
              /\ pc \notin Checks /\ pc \notin {"handler", "fail", "reload", "release"}
              /\ Becomes(w, pc, th[w].st, th[w].rs, th[w].out)
    BY <1>0, <2>1, <2>4, <2>5
  <2>9. \/ Gone(w)
        \/ \E pc, rs, out :
              /\ Becomes(w, pc, th[w].st, rs, out)
              /\ pc \in (Checks \ {"steal", "mark_failed"}) \cup {"fail", "reload", "retrigger", "complete"}
              /\ pc \in Checks /\ rs.action = "INIT" => rs.status = "COMPLETE"
              /\ pc = "handler" => rs.action # "INIT"
              /\ pc = "reload" => out = "timeout"
              /\ \/ DisableRollback
                 \/ /\ pc \notin {"fail", "reload"}
                    /\ pc = "release" => out \notin {"failed", "timeout"}
    BY <2>8
  <2> QED
    BY <2>1, <2>2, <2>3, <2>6, <2>7, <2>9, CheckKeepsSeq, Zenon
<1> QED
  BY <1>1, <1>2

\* The steps that end a traversal.
EndPcs == {"complete", "purge", "purge_points", "fail", "reload", "retrigger"}

\* What is known of a thread that is there.
LEMMA EndFacts ==
    ASSUME TravInv, SeqInv, NEW w \in Threads, th[w].pc \in EndPcs
    PROVE  /\ Busy(th[w]) /\ th[w].pc \notin Launching
           /\ th[w].st.live /\ th[w].st.trav = stack.trav /\ th[w].st.tmpl = stack.tmpl
           /\ th[w].st.action # "ROLLBACK" /\ th[w].st \in Stacks
           /\ th[w].pc \in {"fail", "reload"} => DisableRollback
           /\ th[w].pc = "fail" /\ th[w].out = "failed" => th[w].msg.trav = stack.trav
           /\ TypeOK /\ stack \in Stacks /\ stack.action # "ROLLBACK" /\ PointsArePurged
<1>1. Busy(th[w]) /\ th[w].pc \notin Launching
  BY DEF EndPcs, Busy, Launching
<1>2. TypeOK /\ th[w].st \in Stacks /\ stack \in Stacks
  BY ThreadFields DEF TravInv, TypeOK
<1> QED
  BY <1>1, <1>2 DEF SeqInv, Serves, NothingToRollBack

\* The thread moves on towards the end, or has nothing to do any more.
LEMMA EndStepKeepsSeq ==
    ASSUME TravInv, SeqInv, NEW w \in Threads, th[w].pc \in EndPcs,
           UNCHANGED dead, casts' \subseteq casts, RowsAreClean',
           stack'.trav = stack.trav, stack'.tmpl = stack.tmpl, stack'.action # "ROLLBACK",
           PointsArePurged',
           \/ Gone(w)
           \/ \E pc, st, rs, out :
                 /\ Becomes(w, pc, st, rs, out)
                 /\ st.live /\ st.trav = stack.trav /\ st.tmpl = stack.tmpl
                 /\ st.action # "ROLLBACK"
                 /\ \/ pc \in {"purge", "purge_points"}
                    \/ pc = "fail" /\ DisableRollback /\ out = "timeout"
                    \/ pc = "retrigger" /\ th[w].msg.trav = stack.trav
    PROVE  SeqInv'
<1>0. /\ Busy(th[w]) /\ \A m \in casts : m.trav = stack.trav
      /\ \A v \in Threads : th[v].pc \notin Launching
  BY EndFacts, NobodyLaunches DEF SeqInv
<1>1. CASE Gone(w)
  <2>1. /\ th'[w].pc \in {"idle", "finished"}
        /\ \A v \in Threads \ {w} : th'[v] = th[v]
    BY <1>1 DEF Gone, Returned
  <2> QED
    BY <1>0, <2>1, StepKeepsSeq DEF Busy, Launching, Checks
<1>2. ASSUME NEW pc, NEW st, NEW rs, NEW out, Becomes(w, pc, st, rs, out),
             st.live, st.trav = stack.trav, st.tmpl = stack.tmpl, st.action # "ROLLBACK",
             \/ pc \in {"purge", "purge_points"}
             \/ pc = "fail" /\ DisableRollback /\ out = "timeout"
             \/ pc = "retrigger" /\ th[w].msg.trav = stack.trav
      PROVE  SeqInv'
  <2>1. /\ \A v \in Threads \ {w} : th'[v] = th[v]
        /\ th'[w].pc = pc /\ th'[w].st = st /\ th'[w].out = out /\ th'[w].msg = th[w].msg
    BY <1>2 DEF Becomes
  <2>2. /\ pc \notin {"crashed", "steal", "mark_failed", "rollback"} \cup Launching
        /\ pc \notin Checks
    BY <1>2 DEF Launching, Checks
  <2>3. "handler" \in Checks /\ "release" \in Checks
    BY DEF Checks
  <2> QED
    BY <1>0, <1>2, <2>1, <2>2, <2>3, StepKeepsSeq
<1> QED
  BY <1>1, <1>2

\* Rows that a step leaves alone.
LEMMA RowsStayClean ==
    ASSUME SeqInv, DOMAIN rsrc' \subseteq DOMAIN rsrc, \A i \in DOMAIN rsrc' : rsrc'[i] = rsrc[i]
    PROVE  RowsAreClean'
  BY DEF SeqInv, InitIsClean, RowsAreClean

\* The sync points of a stack that is gone.
LEMMA NoPointsLeft ==
    ASSUME PointsArePurged, ~stack.live, UNCHANGED sp
    PROVE  PointsArePurged'
  BY DEF PointsArePurged

\* What mark_complete() and _handle_failure() do, to the state of the stack ...
StateStored(w, status) ==
    LET st == [th[w].st EXCEPT !.status = status]
    IN /\ UNCHANGED <<rsrc, nextId, nextTrav, sp, casts, phys, dead>>
       /\ StateSet(st)
       /\ \/ /\ Current(th[w].st.trav)
             /\ th' = [th EXCEPT ![w].st = st, ![w].pc = "purge"]
          \/ ~Current(th[w].st.trav) /\ Return(w)
          \/ /\ ~Current(th[w].st.trav) /\ Goto(w, "retrigger")
             /\ th[w].pc = "fail" /\ th[w].out = "failed"

\* ... and next.
LEMMA StateIsStored ==
    ASSUME TravInv, SeqInv, NEW w \in Threads, MarkComplete(w) \/ HandleFailure(w)
    PROVE  \/ th[w].pc = "complete" /\ StateStored(w, "COMPLETE")
           \/ th[w].pc = "fail" /\ StateStored(w, "FAILED")
<1> DEFINE st(status) == [th[w].st EXCEPT !.status = status]
<1>1. CASE MarkComplete(w)
  <2>1. /\ th[w].pc = "complete" /\ UNCHANGED <<rsrc, nextId, nextTrav, sp, casts, phys, dead>>
        /\ StateSet(st("COMPLETE"))
        /\ \/ /\ Current(st("COMPLETE").trav)
              /\ th' = [th EXCEPT ![w].st = st("COMPLETE"), ![w].pc = "purge"]
           \/ ~(Current(st("COMPLETE").trav) /\ st("COMPLETE").action # "ROLLBACK") /\ Return(w)
    BY <1>1, Zenon DEF MarkComplete, At
  <2>2. st("COMPLETE").trav = th[w].st.trav /\ st("COMPLETE").action = th[w].st.action
    BY <2>1, EndFacts DEF Stacks, EndPcs
  <2>3. th[w].st.action # "ROLLBACK"
    BY <2>1, EndFacts DEF EndPcs
  <2> QED
    BY <2>1, <2>2, <2>3, Zenon DEF StateStored
<1>2. CASE HandleFailure(w)
  <2>1. /\ th[w].pc = "fail" /\ UNCHANGED <<rsrc, nextId, nextTrav, sp, casts, phys, dead>>
        /\ StateSet(st("FAILED"))
        /\ \/ ~DisableRollback
           \/ /\ Current(st("FAILED").trav)
              /\ th' = [th EXCEPT ![w].st = st("FAILED"), ![w].pc = "purge"]
           \/ /\ ~(Current(st("FAILED").trav) /\ st("FAILED").action # "ROLLBACK")
              /\ th[w].out = "failed" /\ Goto(w, "retrigger")
           \/ ~(Current(st("FAILED").trav) /\ st("FAILED").action # "ROLLBACK") /\ Return(w)
    BY <1>2, Zenon DEF HandleFailure, At
  <2>2. st("FAILED").trav = th[w].st.trav /\ st("FAILED").action = th[w].st.action
    BY <2>1, EndFacts DEF Stacks, EndPcs
  <2>3. th[w].st.action # "ROLLBACK" /\ DisableRollback
    BY <2>1, EndFacts DEF EndPcs
  <2> QED
    BY <2>1, <2>2, <2>3, Zenon DEF StateStored
<1> QED
  BY <1>1, <1>2

\* The state of the stack is stored.
LEMMA StateKeepsSeq ==
    ASSUME TravInv, SeqInv, NEW w \in Threads, MarkComplete(w) \/ HandleFailure(w)
    PROVE  SeqInv'
<1>1. PICK status \in {"COMPLETE", "FAILED"} :
         th[w].pc \in EndPcs \ {"purge", "purge_points"} /\ StateStored(w, status)
  BY StateIsStored DEF EndPcs
<1> DEFINE st == [th[w].st EXCEPT !.status = status]
<1>2. /\ th[w].st.trav = stack.trav /\ th[w].st.action # "ROLLBACK" /\ TypeOK
      /\ stack \in Stacks /\ stack.action # "ROLLBACK" /\ PointsArePurged
      /\ th[w].pc = "fail" /\ th[w].out = "failed" => th[w].msg.trav = stack.trav
      /\ th[w].st.live /\ th[w].st.tmpl = stack.tmpl
  BY <1>1, EndFacts
<1>3. /\ st.live = th[w].st.live /\ st.trav = th[w].st.trav /\ st.action = th[w].st.action
      /\ st.tmpl = th[w].st.tmpl /\ st.status = status
  BY <1>1, EndFacts DEF Stacks
<1>4. /\ UNCHANGED <<rsrc, nextId, nextTrav, sp, casts, phys, dead>>
      /\ StateSet(st)
      /\ \/ /\ Current(th[w].st.trav)
            /\ th' = [th EXCEPT ![w].st = st, ![w].pc = "purge"]
         \/ ~Current(th[w].st.trav) /\ Return(w)
         \/ /\ ~Current(th[w].st.trav) /\ Goto(w, "retrigger")
            /\ th[w].pc = "fail" /\ th[w].out = "failed"
  BY <1>1, Zenon DEF StateStored
<1> HIDE DEF st
<1>5. /\ stack'.trav = stack.trav /\ stack'.tmpl = stack.tmpl /\ stack'.action # "ROLLBACK"
      /\ stack'.live = stack.live /\ (~stack.live => stack' = stack)
  BY <1>2, <1>3, <1>4 DEF StateSet, Current, Stacks
<1>6. /\ Return(w) => Gone(w)
      /\ th' = [th EXCEPT ![w].st = st, ![w].pc = "purge"]
            => Becomes(w, "purge", st, th[w].rs, th[w].out)
      /\ Goto(w, "retrigger") => Becomes(w, "retrigger", th[w].st, th[w].rs, th[w].out)
  BY <1>2, Forms, Zenon
<1>7. PointsArePurged'
  <2>1. CASE ~Current(th[w].st.trav)
    <3>1. ~stack.live
      BY <1>2, <2>1 DEF Current
    <3> QED
      BY <1>2, <1>4, <3>1, NoPointsLeft
  <2>2. CASE Current(th[w].st.trav)
    <3>1. th'[w].pc = "purge"
      BY <1>4, <1>6, <2>2 DEF Becomes
    <3>2. stack.live
      BY <2>2 DEF Current
    <3> QED
      BY <1>2, <1>4, <1>5, <3>1, <3>2 DEF PointsArePurged
  <2> QED
    BY <2>1, <2>2
<1>8. RowsAreClean'
  BY <1>4, RowsStayClean
<1>9. \/ Gone(w)
      \/ Becomes(w, "purge", st, th[w].rs, th[w].out)
      \/ Becomes(w, "retrigger", th[w].st, th[w].rs, th[w].out) /\ th[w].msg.trav = stack.trav
  BY <1>2, <1>4, <1>6
<1> QED
  BY <1>1, <1>2, <1>3, <1>4, <1>5, <1>7, <1>8, <1>9, EndStepKeepsSeq, Zenon

\* The previous template goes.
LEMMA PurgeTemplateKeepsSeq ==
    ASSUME TravInv, SeqInv, NEW w \in Threads, PurgeTemplate(w)
    PROVE  SeqInv'
<1> DEFINE st == [th[w].st EXCEPT !.prev = None]
<1>1. /\ th[w].pc = "purge" /\ UNCHANGED <<rsrc, sp, casts, dead>>
      /\ UNCHANGED stack \/ Store(st, th[w].st.trav)
      /\ (~Current(th[w].st.trav) /\ Return(w)) \/ Goto(w, "purge_points")
  BY Zenon DEF PurgeTemplate, At
<1>2. /\ th[w].st.trav = stack.trav /\ th[w].st.action # "ROLLBACK" /\ TypeOK
      /\ stack \in Stacks /\ stack.action # "ROLLBACK" /\ PointsArePurged
      /\ th[w].st.live /\ th[w].st.tmpl = stack.tmpl /\ th[w].st \in Stacks
      /\ th[w].pc \in EndPcs
  BY <1>1, EndFacts DEF EndPcs
<1>3. /\ st.live = th[w].st.live /\ st.trav = th[w].st.trav /\ st.action = th[w].st.action
      /\ st.tmpl = th[w].st.tmpl /\ st.status = th[w].st.status
  BY <1>2, Zenon DEF Stacks
<1> HIDE DEF st
<1>5. /\ stack'.trav = stack.trav /\ stack'.tmpl = stack.tmpl /\ stack'.action # "ROLLBACK"
      /\ stack'.live = stack.live
  BY <1>1, <1>2, <1>3, Zenon DEF Store, Current
<1>6. /\ Return(w) => Gone(w)
      /\ Goto(w, "purge_points") => Becomes(w, "purge_points", th[w].st, th[w].rs, th[w].out)
  BY <1>2, Forms, Zenon
<1>7. PointsArePurged'
  <2>1. CASE ~stack.live
    BY <1>1, <1>2, <1>5, <2>1 DEF PointsArePurged
  <2>2. CASE stack.live
    <3>1. th'[w].pc = "purge_points"
      BY <1>1, <1>2, <1>6, <2>2 DEF Becomes, Current
    <3> QED
      BY <1>1, <1>2, <1>5, <2>2, <3>1 DEF PointsArePurged
  <2> QED
    BY <2>1, <2>2
<1>8. RowsAreClean'
  BY <1>1, RowsStayClean
<1>9. Gone(w) \/ Becomes(w, "purge_points", th[w].st, th[w].rs, th[w].out)
  BY <1>1, <1>6
<1> QED
  BY <1>1, <1>2, <1>5, <1>7, <1>8, <1>9, EndStepKeepsSeq

\* The sync points go, and after a deletion the stack and its rows.
LEMMA PurgeSyncPointsKeepsSeq ==
    ASSUME TravInv, SeqInv, NEW w \in Threads, PurgeSyncPoints(w)
    PROVE  SeqInv'
<1>1. /\ th[w].pc = "purge_points" /\ UNCHANGED <<casts, dead>> /\ Return(w)
      /\ sp' = Restrict(sp, DOMAIN sp \ {th[w].st.trav})
      /\ stack' = [stack EXCEPT !.live = FALSE] \/ UNCHANGED stack
      /\ rsrc' = rsrc \/ rsrc' = << >>
  BY DEF PurgeSyncPoints, At
<1>2. /\ th[w].st.trav = stack.trav /\ TypeOK /\ stack \in Stacks /\ stack.action # "ROLLBACK"
      /\ PointsArePurged /\ th[w].pc \in EndPcs
  BY <1>1, EndFacts DEF EndPcs
<1>3. stack'.trav = stack.trav /\ stack'.tmpl = stack.tmpl /\ stack'.action # "ROLLBACK"
  BY <1>1, <1>2 DEF Stacks
<1>4. PointsArePurged'
  <2>1. DOMAIN sp' = {}
    BY <1>1, <1>2 DEF PointsArePurged, Restrict
  <2> QED
    BY <2>1 DEF PointsArePurged
<1>5. Gone(w)
  BY <1>1, <1>2, Forms, Zenon
<1>6. RowsAreClean'
  <2>1. DOMAIN << >> = {}
    OBVIOUS
  <2> QED
    BY <1>1, <2>1, RowsStayClean
<1> QED
  BY <1>1, <1>2, <1>3, <1>4, <1>5, <1>6, EndStepKeepsSeq

\* A timeout; and the check of a traversal that is current is not triggered again.
LEMMA AfterFailureKeepsSeq ==
    ASSUME TravInv, SeqInv, NEW w \in Threads, ReloadAfterTimeout(w) \/ Retrigger(w)
    PROVE  SeqInv'
<1>1. /\ th[w].pc \in {"reload", "retrigger"} /\ UNCHANGED <<stack, rsrc, sp, casts, dead>>
      /\ \/ Return(w)
         \/ /\ th[w].pc = "reload" /\ stack.live
            /\ th' = [th EXCEPT ![w].st = stack, ![w].pc = "fail"]
  <2>1. CASE ReloadAfterTimeout(w)
    BY <2>1 DEF ReloadAfterTimeout, At, db, Current
  <2>2. CASE Retrigger(w)
    <3>1. th[w].pc = "retrigger" /\ UNCHANGED <<stack, rsrc, dead>> /\ Return(w)
      BY <2>2, Zenon DEF Retrigger, At
    <3>2. stack.trav = th[w].msg.trav
      BY <3>1 DEF SeqInv, Serves
    <3>3. UNCHANGED <<sp, casts>>
      BY <2>2, <3>2 DEF Retrigger
    <3> QED
      BY <3>1, <3>3
  <2> QED
    BY <2>1, <2>2
<1>2. /\ TypeOK /\ stack.action # "ROLLBACK" /\ PointsArePurged
      /\ th[w].pc = "reload" => DisableRollback
      /\ th[w].pc \in EndPcs
  BY <1>1, EndFacts DEF EndPcs
<1>3. /\ Return(w) => Gone(w)
      /\ th' = [th EXCEPT ![w].st = stack, ![w].pc = "fail"]
            => Becomes(w, "fail", stack, th[w].rs, th[w].out)
  BY <1>2, Forms, Zenon
<1>4. th[w].pc = "reload" => th[w].out = "timeout"
  BY DEF SeqInv, Serves
<1>5. PointsArePurged'
  <2>1. \A v \in Threads \ {w} : th'[v] = th[v]
    BY <1>1, <1>3 DEF Gone, Becomes
  <2> QED
    BY <1>1, <1>2, <2>1, PointsStay
<1>6. RowsAreClean'
  BY <1>1, RowsStayClean
<1>7. \/ Gone(w)
      \/ stack.live /\ DisableRollback /\ Becomes(w, "fail", stack, th[w].rs, "timeout")
  BY <1>1, <1>2, <1>3, <1>4
<1> QED
  BY <1>1, <1>2, <1>5, <1>6, <1>7, EndStepKeepsSeq

-----------------------------------------------------------------------------
(* Messages, requests and the preparation of a traversal.                    *)

\* A worker is idle again, or a request is refused.
LEMMA RestKeepsSeq ==
    ASSUME SeqInv, NEW w \in Threads, th[w].pc = "idle", Gone(w),
           UNCHANGED <<stack, rsrc, sp, dead>>, casts' \subseteq casts
    PROVE  SeqInv'
<1>1. /\ \A v \in Threads \ {w} : th'[v] = th[v]
      /\ th'[w].pc \in {"idle", "finished"}
  BY DEF Gone, Returned
<1>2. th'[w].pc \notin Launching \cup Checks /\ ~Busy(th'[w]) /\ ~Busy(th[w])
  BY <1>1 DEF Launching, Checks, Busy
<1>3. \A v \in Threads : Serves(th[v])'
  <2> SUFFICES ASSUME NEW v \in Threads PROVE Serves(th[v])'
    OBVIOUS
  <2>1. CASE v = w
    BY <1>1, <1>2, <2>1 DEF Serves, Busy
  <2>2. CASE v # w
    BY <1>1, <2>2 DEF Serves, Busy, SeqInv
  <2> QED
    BY <2>1, <2>2
<1>4. LaunchAlone'
  <2> SUFFICES ASSUME NEW v \in Threads, th'[v].pc \in Launching
               PROVE  /\ stack'.live /\ casts' = {} /\ DOMAIN sp' = {}
                      /\ th'[v].pc # "store1" => stack'.status = "IN_PROGRESS"
                      /\ \A u \in Threads \ {v} : ~Busy(th'[u])
    BY DEF LaunchAlone, Busy
  <2>1. v # w /\ th'[v] = th[v]
    BY <1>1, <1>2
  <2>2. \A u \in Threads \ {v} : ~Busy(th[u])
    BY <2>1 DEF SeqInv, LaunchAlone
  <2>3. \A u \in Threads \ {v} : ~Busy(th'[u])
    BY <1>1, <1>2, <2>2
  <2> QED
    BY <2>1, <2>3 DEF SeqInv, LaunchAlone
<1>5. InitIsClean' /\ NothingToRollBack'
  BY <1>1, <1>2 DEF InitIsClean, NothingToRollBack, SeqInv, Checks
<1>6. PointsArePurged'
  BY <1>1, PointsStay DEF SeqInv
<1> QED
  BY <1>1, <1>3, <1>4, <1>5, <1>6 DEF SeqInv

\* A worker that takes up a message.
TakesUp(w, m) ==
    LET x == th'[w]
    IN /\ x.msg = m /\ x.st = stack /\ x.out = "none"
       /\ x.pc = "acquire" /\ m.id \in DOMAIN rsrc /\ x.rs = rsrc[m.id]

\* That is what Receive does, unless the message is out of date.
LEMMA ReceiveDoes ==
    ASSUME TypeOK, NEW w \in Threads, NEW m, Receive(w, m)
    PROVE  /\ th[w].pc = "idle" /\ m \in casts /\ casts' = casts \ {m}
           /\ UNCHANGED <<stack, rsrc, nextId, nextTrav, sp, phys, dead>>
           /\ \/ Gone(w)
              \/ /\ \A v \in Threads \ {w} : th'[v] = th[v]
                 /\ stack.live /\ m.trav = stack.trav /\ TakesUp(w, m)
                 /\ m.upd => rsrc[m.id].replaced_by = None \/ rsrc[m.id].tmpl = stack.tmpl
<1> DEFINE x == [Idle EXCEPT !.pc = "acquire", !.msg = m, !.rs = rsrc[m.id], !.st = stack]
           turned == \/ ~loadable(m) \/ m.trav # stack.trav
                     \/ m.upd /\ rsrc[m.id].replaced_by # None /\ rsrc[m.id].tmpl # stack.tmpl
<1>1. /\ th[w].pc = "idle" /\ m \in casts /\ casts' = casts \ {m}
      /\ UNCHANGED <<stack, rsrc, nextId, nextTrav, sp, phys, dead>>
      /\ Return(w) \/ (~turned /\ th' = [th EXCEPT ![w] = x])
  BY DEF Receive, At
<1>2. x.pc = "acquire" /\ x.msg = m /\ x.rs = rsrc[m.id] /\ x.st = stack /\ x.out = "none"
  BY DEF Idle
<1>3. Return(w) => Gone(w)
  BY Forms, Zenon
<1> HIDE DEF x
<1>4. CASE ~turned /\ th' = [th EXCEPT ![w] = x]
  <2>1. (\A v \in Threads \ {w} : th'[v] = th[v]) /\ th'[w] = x
    BY <1>4, ObjectWritten, Zenon
  <2>2. stack.live /\ m.trav = stack.trav /\ m.id \in DOMAIN rsrc
    BY <1>4 DEF loadable
  <2> QED
    BY <1>1, <1>2, <1>4, <2>1, <2>2 DEF TakesUp
<1> QED
  BY <1>1, <1>3, <1>4

\* A message is served.
LEMMA ReceiveKeepsSeq ==
    ASSUME TravInv, SeqInv, NEW w \in Threads, NEW m, Receive(w, m)
    PROVE  SeqInv'
<1>1. TypeOK
  BY DEF TravInv
<1>2. /\ th[w].pc = "idle" /\ m \in casts /\ casts' = casts \ {m}
      /\ UNCHANGED <<stack, rsrc, nextId, nextTrav, sp, phys, dead>>
      /\ \/ Gone(w)
         \/ /\ \A v \in Threads \ {w} : th'[v] = th[v]
            /\ stack.live /\ m.trav = stack.trav /\ TakesUp(w, m)
  BY <1>1, ReceiveDoes, Zenon
<1>3. CASE Gone(w)
  BY <1>2, <1>3, RestKeepsSeq
<1>4. CASE /\ \A v \in Threads \ {w} : th'[v] = th[v]
           /\ stack.live /\ m.trav = stack.trav /\ TakesUp(w, m)
  <2>1. \A v \in Threads : th[v].pc \notin Launching
    BY <1>2 DEF SeqInv, LaunchAlone
  <2>2. RowsAreClean'
    BY <1>2, RowsStayClean
  <2>3. PointsArePurged'
    BY <1>2, <1>4, PointsStay DEF SeqInv
  <2>4. /\ th'[w].pc = "acquire" /\ th'[w].st = stack /\ m.id \in DOMAIN rsrc
        /\ th'[w].rs = rsrc[m.id]
    BY <1>4 DEF TakesUp
  <2>5. th'[w].rs.action = "INIT" => th'[w].rs.status = "COMPLETE"
    BY <2>4 DEF SeqInv, InitIsClean
  <2>6. "acquire" \notin {"crashed", "steal", "mark_failed", "rollback"} \cup Launching
    BY DEF Launching
  <2>7. stack.action # "ROLLBACK" /\ \A c \in casts' : c.trav = stack.trav
    BY <1>2 DEF SeqInv
  <2> QED
    BY <1>2, <1>4, <2>1, <2>2, <2>3, <2>4, <2>5, <2>6, <2>7, StepKeepsSeq
<1> QED
  BY <1>2, <1>3, <1>4

\* ... after the stack has timed out.
LEMMA ReceiveLateKeepsSeq ==
    ASSUME OneByOne, TravInv, SeqInv, NEW w \in Threads, NEW m, ReceiveLate(w, m)
    PROVE  SeqInv'
<1> DEFINE x == [Idle EXCEPT !.pc = "fail", !.st = stack, !.out = "timeout"]
<1>1. TypeOK
  BY DEF TravInv
<1>2. /\ th[w].pc = "idle" /\ m \in casts /\ casts' = casts \ {m}
      /\ UNCHANGED <<stack, rsrc, sp, phys, dead>>
      /\ stack.live /\ "late" \in FaultKinds
      /\ th' = [th EXCEPT ![w] = x]
  BY DEF ReceiveLate, At, loadable, has_timed_out, Fault
<1>3. x.pc = "fail" /\ x.st = stack /\ x.out = "timeout"
  BY DEF Idle
<1> HIDE DEF x
<1>4. (\A v \in Threads \ {w} : th'[v] = th[v]) /\ th'[w] = x
  BY <1>1, <1>2, ObjectWritten, Zenon
<1>5. DisableRollback
  BY <1>2 DEF OneByOne
<1>6. \A v \in Threads : th[v].pc \notin Launching
  BY <1>2 DEF SeqInv, LaunchAlone
<1>7. RowsAreClean'
  BY <1>2, RowsStayClean
<1>8. PointsArePurged'
  BY <1>2, <1>4, PointsStay DEF SeqInv
<1>9. "fail" \notin {"crashed", "steal", "mark_failed", "rollback"} \cup Launching \cup Checks
  BY DEF Launching, Checks
<1>10. stack.action # "ROLLBACK" /\ \A c \in casts' : c.trav = stack.trav
  BY <1>2 DEF SeqInv
<1> QED
  BY <1>2, <1>3, <1>4, <1>5, <1>6, <1>7, <1>8, <1>9, <1>10, StepKeepsSeq

\* A step of the only thread that has something to do.
LEMMA LaunchKeepsSeq ==
    ASSUME SeqInv, NEW w \in Threads, \A v \in Threads \ {w} : th'[v] = th[v] /\ ~Busy(th[v]),
           UNCHANGED dead, stack'.action # "ROLLBACK",
           th'[w].pc \in (Launching \ {"store1"}) \cup {"complete"} \cup {"idle", "finished"},
           Busy(th'[w]) => /\ th'[w].st.live /\ th'[w].st.trav = stack'.trav
                           /\ th'[w].st.tmpl = stack'.tmpl /\ th'[w].st.action # "ROLLBACK",
           th'[w].pc \in Launching => /\ stack'.live /\ stack'.status = "IN_PROGRESS"
                                      /\ casts' = {} /\ DOMAIN sp' = {},
           \A m \in casts' : m.trav = stack'.trav,
           RowsAreClean', PointsArePurged'
    PROVE  SeqInv'
<1>1. /\ th'[w].pc \notin Checks \cup {"store1", "crashed", "steal", "mark_failed", "rollback",
                                       "fail", "reload", "retrigger", "handler", "release"}
      /\ \A v \in Threads \ {w} : th[v].pc \in {"idle", "finished"}
      /\ \A pc \in {"idle", "finished"} :
            pc \notin Checks \cup Launching \cup {"handler", "release"}
  BY DEF Checks, Launching, Busy
<1>2. \A v \in Threads : Serves(th[v])'
  <2> SUFFICES ASSUME NEW v \in Threads PROVE Serves(th[v])'
    OBVIOUS
  <2>1. CASE v = w
    BY <1>1, <2>1 DEF Serves, Busy
  <2>2. CASE v # w
    BY <1>1, <2>2 DEF Serves, Busy
  <2> QED
    BY <2>1, <2>2
<1>3. LaunchAlone'
  BY <1>1 DEF LaunchAlone, Busy
<1>4. InitIsClean' /\ NothingToRollBack'
  BY <1>1 DEF InitIsClean, NothingToRollBack, RowsAreClean
<1> QED
  BY <1>1, <1>2, <1>3, <1>4 DEF SeqInv

\* Nothing is going on when a request is taken up.
LEMMA RequestDoes ==
    ASSUME OneByOne, TravInv, SeqInv, NEW o \in Ops, Request(o)
    PROVE  /\ th[o].pc = "idle" /\ o \in Threads /\ o # Creator
           /\ UNCHANGED <<stack, rsrc, nextId, nextTrav, sp, casts, phys, dead>>
           /\ Settled /\ \A v \in Threads : ~Busy(th[v])
           /\ \A v \in Threads \ {o} : th'[v] = th[v]
           /\ \/ Gone(o)
              \/ /\ stack.live /\ DOMAIN sp = {}
                 /\ th'[o].pc = "store1" /\ th'[o].st = stack /\ th'[o].goal = Op[o]
<1> DEFINE x == [Idle EXCEPT !.pc = "store1", !.st = stack, !.goal = Op[o]]
<1>1. /\ th[o].pc = "idle" /\ o \in Threads
      /\ o \in Patient => Settled
      /\ UNCHANGED <<stack, rsrc, nextId, nextTrav, sp, casts, phys, dead>>
      /\ Return(o) \/ (stack.live /\ th' = [th EXCEPT ![o] = x])
  BY DEF Request, At, db, Threads
<1>2. TypeOK /\ o # Creator /\ Settled
  BY <1>1 DEF TravInv, OneByOne
<1>3. x.pc = "store1" /\ x.st = stack /\ x.goal = Op[o]
  BY DEF Idle
<1> HIDE DEF x
<1>4. Return(o) => Gone(o)
  BY <1>1, <1>2, Forms, Zenon
<1>5. th' = [th EXCEPT ![o] = x] => (\A v \in Threads \ {o} : th'[v] = th[v]) /\ th'[o] = x
  BY <1>1, <1>2, ObjectWritten, Zenon
<1>6. \A v \in Threads : ~Busy(th[v])
  BY <1>2 DEF Settled, Busy, SeqInv
<1>7. stack.live => DOMAIN sp = {}
  <2>1. ASSUME stack.live, DOMAIN sp # {} PROVE FALSE
    <3>1. \E v \in Threads : th[v].pc \in {"purge", "purge_points"}
      BY <1>2, <2>1 DEF Settled, SeqInv, PointsArePurged
    <3> QED
      BY <1>6, <3>1 DEF Busy
  <2> QED
    BY <2>1
<1> QED
  BY <1>1, <1>2, <1>3, <1>4, <1>5, <1>6, <1>7 DEF Gone

\* A request is taken up.
LEMMA RequestKeepsSeq ==
    ASSUME OneByOne, TravInv, SeqInv, NEW o \in Ops, Request(o)
    PROVE  SeqInv'
<1>1. /\ th[o].pc = "idle" /\ o \in Threads /\ o # Creator
      /\ UNCHANGED <<stack, rsrc, nextId, nextTrav, sp, casts, phys, dead>>
      /\ Settled /\ \A v \in Threads : ~Busy(th[v])
      /\ \A v \in Threads \ {o} : th'[v] = th[v]
      /\ \/ Gone(o)
         \/ /\ stack.live /\ DOMAIN sp = {}
            /\ th'[o].pc = "store1" /\ th'[o].st = stack /\ th'[o].goal = Op[o]
  BY RequestDoes, Zenon
<1>2. CASE Gone(o)
  BY <1>1, <1>2, RestKeepsSeq
<1>3. CASE /\ stack.live /\ DOMAIN sp = {}
           /\ th'[o].pc = "store1" /\ th'[o].st = stack /\ th'[o].goal = Op[o]
  <2>1. Op[o].action # "ROLLBACK"
    BY ConvergenceAssumption
  <2>2. "store1" \notin Checks /\ \A v \in Threads \ {o} : th[v].pc \notin Launching
    BY <1>1 DEF Checks, Launching, Busy
  <2>3. \A v \in Threads : Serves(th[v])'
    <3> SUFFICES ASSUME NEW v \in Threads PROVE Serves(th[v])'
      OBVIOUS
    <3>1. CASE v = o
      BY <1>1, <1>3, <2>1, <3>1 DEF Serves, Busy, SeqInv
    <3>2. CASE v # o
      BY <1>1, <3>2 DEF Serves, Busy, SeqInv
    <3> QED
      BY <3>1, <3>2
  <2>4. LaunchAlone'
    BY <1>1, <1>3, <2>2 DEF LaunchAlone, Settled, Busy
  <2>5. InitIsClean' /\ NothingToRollBack'
    BY <1>1, <1>3, <2>2 DEF InitIsClean, NothingToRollBack, SeqInv
  <2>6. PointsArePurged'
    BY <1>1, <1>3 DEF PointsArePurged
  <2> QED
    BY <1>1, <1>3, <2>3, <2>4, <2>5, <2>6 DEF SeqInv
<1> QED
  BY <1>1, <1>2, <1>3

\* What is known of a thread that prepares a traversal.
LEMMA LaunchIs ==
    ASSUME TravInv, SeqInv, NEW w \in Threads, th[w].pc \in Launching
    PROVE  /\ TypeOK /\ stack.live /\ casts = {} /\ DOMAIN sp = {}
           /\ \A v \in Threads \ {w} : ~Busy(th[v])
           /\ th[w].st.live /\ th[w].st.trav = stack.trav /\ th[w].st.tmpl = stack.tmpl
           /\ th[w].st.action # "ROLLBACK" /\ th[w].st \in Stacks /\ stack \in Stacks
           /\ Current(th[w].st.trav)
           /\ th[w].pc = "store1" => th[w].st = stack /\ th[w].goal.action # "ROLLBACK"
           /\ th[w].pc # "store1" => /\ stack.status = "IN_PROGRESS" /\ Launches(th[w])
                                     /\ th[w].st.status = "IN_PROGRESS"
<1>1. Busy(th[w]) /\ (th[w].pc # "store1" => Launches(th[w]))
  BY DEF Busy, Launching, Launches
<1>2. TypeOK /\ th[w].st \in Stacks /\ stack \in Stacks
  BY ThreadFields DEF TravInv, TypeOK
<1>3. /\ stack.live /\ casts = {} /\ DOMAIN sp = {}
      /\ th[w].pc # "store1" => stack.status = "IN_PROGRESS"
      /\ \A v \in Threads \ {w} : ~Busy(th[v])
  BY DEF SeqInv, LaunchAlone
<1>4. Serves(th[w])
  BY DEF SeqInv
<1> QED
  BY <1>1, <1>2, <1>3, <1>4, LaunchFacts DEF Serves, Current

\* A new traversal is stored.
LEMMA StoreTraversalDoes ==
    ASSUME TravInv, SeqInv, NEW w \in Threads, StoreTraversal(w)
    PROVE  /\ th[w].pc = "store1" /\ UNCHANGED <<rsrc, nextId, sp, casts, phys, dead>>
           /\ stack'.live /\ stack'.trav = nextTrav /\ stack'.action = th[w].goal.action
           /\ stack'.status = "IN_PROGRESS" /\ stack'.tmpl = th[w].goal.tmpl
           /\ \A v \in Threads \ {w} : th'[v] = th[v]
           /\ th'[w].pc = "delete_prev" /\ th'[w].st = stack'
<1> DEFINE st == th[w].st
           goal == th[w].goal
           prev == IF goal.action = "CREATE" THEN st.prev ELSE st.tmpl
           new == [st EXCEPT !.trav = nextTrav, !.action = goal.action,
                             !.status = "IN_PROGRESS", !.tmpl = goal.tmpl,
                             !.prev = IF goal.action = "CREATE" THEN @ ELSE st.tmpl]
           x == [th[w] EXCEPT !.st = new, !.old = st.trav, !.pc = "delete_prev"]
<1>1. th[w].pc = "store1" /\ UNCHANGED <<rsrc, nextId, sp, casts, phys, dead>>
  BY DEF StoreTraversal, At
<1>2. /\ TypeOK /\ stack.live /\ st = stack /\ stack \in Stacks /\ Current(st.trav)
      /\ th[w] \in ThreadStates
  BY <1>1, LaunchIs, TypeParts DEF Launching
<1>3. Store(new, st.trav) /\ th' = [th EXCEPT ![w].st = new, ![w].old = st.trav, ![w].pc = "delete_prev"]
  BY <1>2, Zenon DEF StoreTraversal
<1>4. /\ new.live = stack.live /\ new.trav = nextTrav /\ new.action = goal.action
      /\ new.status = "IN_PROGRESS" /\ new.tmpl = goal.tmpl
  BY <1>2, Zenon DEF Stacks
<1> HIDE DEF new
<1>5. th' = [th EXCEPT ![w] = x]
  BY <1>2, <1>3, Zenon DEF TypeOK
<1>6. x.pc = "delete_prev" /\ x.st = new
  BY <1>2 DEF ThreadStates
<1> HIDE DEF x
<1>7. (\A v \in Threads \ {w} : th'[v] = th[v]) /\ th'[w] = x
  BY <1>2, <1>5, ObjectWritten, Zenon
<1>8. stack' = new
  BY <1>2, <1>3 DEF Store
<1> QED
  BY <1>1, <1>2, <1>4, <1>6, <1>7, <1>8, Zenon

\* No sync points are left of the previous one.
LEMMA DeletePrevSyncPointsDoes ==
    ASSUME TravInv, SeqInv, NEW w \in Threads, DeletePrevSyncPoints(w)
    PROVE  /\ th[w].pc = "delete_prev" /\ UNCHANGED <<stack, rsrc, nextId, nextTrav, casts, phys, dead>>
           /\ DOMAIN sp' = {} /\ Becomes(w, "resources", th[w].st, th[w].rs, th[w].out)
<1>1. /\ th[w].pc = "delete_prev" /\ UNCHANGED <<stack, rsrc, nextId, nextTrav, casts, phys, dead>>
      /\ sp' = Restrict(sp, DOMAIN sp \ {th[w].old}) /\ Goto(w, "resources")
  BY DEF DeletePrevSyncPoints, At
<1>2. TypeOK /\ DOMAIN sp = {}
  BY <1>1, LaunchIs DEF Launching
<1>3. DOMAIN sp' = {}
  BY <1>1, <1>2 DEF Restrict
<1> QED
  BY <1>1, <1>2, <1>3, Forms, Zenon

\* The graph of the traversal is stored.
LEMMA StoreDepsDoes ==
    ASSUME TravInv, SeqInv, NEW w \in Threads, StoreDeps(w)
    PROVE  /\ th[w].pc = "store2" /\ UNCHANGED <<rsrc, nextId, nextTrav, sp, casts, phys, dead>>
           /\ stack' = th[w].st /\ Becomes(w, "trigger", th[w].st, th[w].rs, th[w].out)
<1>1. th[w].pc = "store2" /\ UNCHANGED <<rsrc, nextId, nextTrav, sp, casts, phys, dead>>
  BY DEF StoreDeps, At
<1>2. TypeOK /\ Current(th[w].st.trav)
  BY <1>1, LaunchIs DEF Launching
<1>3. Goto(w, "trigger") /\ stack' = th[w].st
  BY <1>2 DEF StoreDeps, Store
<1> QED
  BY <1>1, <1>2, <1>3, Forms, Zenon

\* The leaves are cast.
LEMMA TriggerLeavesDoes ==
    ASSUME TravInv, SeqInv, NEW w \in Threads, TriggerLeaves(w)
    PROVE  /\ th[w].pc = "trigger" /\ UNCHANGED <<stack, rsrc, nextId, nextTrav, phys, dead>>
           /\ th[w].st.deps = stack.deps /\ th[w].st.trav = stack.trav
           /\ DOMAIN sp' = {stack.trav}
           /\ sp'[stack.trav] = [n \in stack.deps.nodes \cup {StackNode} |-> {}]
           /\ casts' = {Cast(n[1], stack.trav, n[2], {}) : n \in leaves(stack.deps)}
           /\ Gone(w) \/ Becomes(w, "complete", th[w].st, th[w].rs, th[w].out)
<1>1. /\ th[w].pc = "trigger" /\ UNCHANGED <<stack, rsrc, nextId, nextTrav, phys, dead>>
      /\ Return(w) \/ Goto(w, "complete")
  BY DEF TriggerLeaves, At
<1>2. TypeOK /\ DOMAIN sp = {} /\ casts = {} /\ th[w].st.trav = stack.trav
  BY <1>1, LaunchIs DEF Launching
<1>3. ThreadOK(th[w], stack, sp) /\ UsesGraph(th[w])
  BY <1>1 DEF TravInv, UsesGraph
<1>4. th[w].st.deps = stack.deps
  BY <1>2, <1>3 DEF ThreadOK, GraphAgrees
<1>5. /\ sp' = [t \in DOMAIN sp \cup {th[w].st.trav} |->
                  IF t = th[w].st.trav
                  THEN [n \in th[w].st.deps.nodes \cup {StackNode} |-> {}] ELSE sp[t]]
      /\ casts' = casts \cup {Cast(n[1], th[w].st.trav, n[2], {}) : n \in leaves(th[w].st.deps)}
  BY Zenon DEF TriggerLeaves
<1>6. /\ DOMAIN sp' = {stack.trav}
      /\ sp'[stack.trav] = [n \in stack.deps.nodes \cup {StackNode} |-> {}]
  BY <1>2, <1>4, <1>5
<1>7. casts' = {Cast(n[1], stack.trav, n[2], {}) : n \in leaves(stack.deps)}
  BY <1>2, <1>4, <1>5
<1> QED
  BY <1>1, <1>2, <1>4, <1>6, <1>7, Forms, Zenon

\* Different names get different ids.
LEMMA FreshIdsDiffer ==
    ASSUME NEW S, IsFiniteSet(S), NEW a \in Nat
    PROVE  /\ Fresh(S, a) \in [S -> a .. (a + Cardinality(S) - 1)]
           /\ IsInjective(Fresh(S, a))
<1> DEFINE ids == a .. (a + Cardinality(S) - 1)
<1>1. Cardinality(S) \in Nat
  BY FS_CardinalityType
<1>2. IsFiniteSet(ids) /\ Cardinality(ids) = Cardinality(S)
  <2>1. a \in Int /\ a + Cardinality(S) - 1 \in Int
    BY <1>1
  <2>2. IsFiniteSet(ids) /\ Cardinality(ids) = IF a > a + Cardinality(S) - 1 THEN 0
                                                ELSE (a + Cardinality(S) - 1) - a + 1
    BY <2>1, FS_Interval
  <2> QED
    BY <1>1, <2>2
<1>3. Fresh(S, a) = CHOOSE f \in [S -> ids] : IsInjective(f)
  BY DEF Fresh
<1> HIDE DEF ids
<1>4. \E f \in [S -> ids] : IsInjective(f)
  BY <1>2, FS_SameCardinalityBij DEF ExistsBijection, Bijection, Injection
<1>5. Fresh(S, a) \in [S -> ids] /\ IsInjective(Fresh(S, a))
  BY <1>3, <1>4
<1> QED
  BY <1>5 DEF ids

\* The rows and the graph of a new traversal: a row for every name, and the
\* rows that were there say what they said.
Lays(w, current) ==
    /\ UNCHANGED <<stack, nextTrav, sp, casts, phys, dead>>
    /\ DOMAIN rsrc \subseteq DOMAIN rsrc'
    /\ \A i \in DOMAIN rsrc : Same(rsrc'[i], rsrc[i]) /\ rsrc'[i].replaces = rsrc[i].replaces
    /\ \A i \in DOMAIN rsrc' \ DOMAIN rsrc :
          /\ i \notin Ids /\ \E n \in Names : rsrc'[i] = NewRow(n, stack.tmpl, {}, None)
          /\ rsrc'[i].name \in TmplNames[stack.tmpl] /\ current[rsrc'[i].name] = i
    /\ \A n \in TmplNames[stack.tmpl] : current[n] \in DOMAIN rsrc' /\ rsrc'[current[n]].name = n
    /\ Becomes(w, "store2",
               [th[w].st EXCEPT !.deps = convg_deps(stack.tmpl, current, rsrc)], th[w].rs,
               th[w].out)

\* That is what UpdateOrStoreResources does.
LEMMA UpdateOrStoreResourcesDoes ==
    ASSUME TravInv, SeqInv, NEW w \in Threads, UpdateOrStoreResources(w)
    PROVE  /\ th[w].pc = "resources"
           /\ \E current \in [TmplNames[stack.tmpl] -> DOMAIN rsrc'] : Lays(w, current)
<1> DEFINE t == th[w].st.tmpl
           names == TmplNames[t]
           best == [n \in names |-> best_existing(n, t, th[w].st.prev, rsrc)]
           new == {n \in names : best[n] = {}}
           ids == nextId .. (nextId + Cardinality(new) - 1)
           fresh == CHOOSE f \in [new -> ids] : IsInjective(f)
<1>0. /\ th[w].pc = "resources" /\ UNCHANGED <<stack, nextTrav, sp, casts, phys, dead>>
  BY Zenon DEF UpdateOrStoreResources, At
<1>1. /\ TypeOK /\ t = stack.tmpl /\ t \in Tmpls /\ names \subseteq Names
      /\ th[w] \in ThreadStates /\ nextId \in Nat
  BY <1>0, LaunchIs, TypeParts, ConvergenceAssumption DEF Launching, Stacks, TypeOK
<1>2. new \subseteq Names /\ new \subseteq names /\ IsFiniteSet(new)
  BY <1>1, FS_Subset, ConvergenceAssumption
<1>3. PICK current \in [names -> DOMAIN rsrc \cup ids] :
        /\ \A n \in names : IF n \in new THEN current[n] = fresh[n] ELSE current[n] \in best[n]
        /\ rsrc' = [i \in DOMAIN rsrc \cup ids |->
                           IF i \in DOMAIN rsrc
                           THEN IF i \in Range(current) /\ rsrc[i].engine = None
                                THEN Bumped(rsrc[i]) ELSE rsrc[i]
                           ELSE NewRow(CHOOSE n \in new : fresh[n] = i, t, {}, None)]
        /\ th' = [th EXCEPT ![w].st.deps = convg_deps(t, current, rsrc), ![w].pc = "store2"]
  BY Zenon DEF UpdateOrStoreResources
<1>4. ids \cap DOMAIN rsrc = {} /\ ids \cap Ids = {}
  BY <1>1 DEF TypeOK, Ids
<1>5. \A n \in names \ new : current[n] \in DOMAIN rsrc /\ rsrc[current[n]].name = n
  <2> SUFFICES ASSUME NEW n \in names \ new
               PROVE  current[n] \in DOMAIN rsrc /\ rsrc[current[n]].name = n
    BY Zenon
  <2> HIDE DEF new, ids, fresh
  <2>2. current[n] \in best[n]
    BY <1>3, Zenon
  <2>1. current[n] \in best_existing(n, t, th[w].st.prev, rsrc)
    BY <2>2
  <2> QED
    BY <2>1, SMTT(20) DEF best_existing
<1> HIDE DEF new, best
<1>6. fresh = Fresh(new, nextId)
  BY DEF Fresh
<1> HIDE DEF fresh
<1>7. /\ fresh \in [new -> ids] /\ IsInjective(fresh)
      /\ \A i \in ids : \E n \in new : fresh[n] = i
  BY <1>1, <1>2, <1>6, FreshIds, FreshIdsDiffer
<1> HIDE DEF ids
<1>8. \A n \in new : (CHOOSE m \in new : fresh[m] = fresh[n]) = n
  BY <1>7 DEF IsInjective
<1>9. \A i \in ids : (CHOOSE m \in new : fresh[m] = i) \in Names
  BY <1>2, <1>7
<1>10. /\ DOMAIN rsrc' = DOMAIN rsrc \cup ids
       /\ \A i \in DOMAIN rsrc : rsrc'[i] \in {rsrc[i], Bumped(rsrc[i])}
       /\ \A i \in ids : rsrc'[i] = NewRow(CHOOSE m \in new : fresh[m] = i, t, {}, None)
  BY <1>3, <1>4
<1>11. \A i \in DOMAIN rsrc : Same(rsrc'[i], rsrc[i]) /\ rsrc'[i].replaces = rsrc[i].replaces
  BY <1>1, <1>10 DEF TypeOK, Rows, Bumped, Same
<1>12. \A i \in ids : i \notin Ids /\ \E n \in Names : rsrc'[i] = NewRow(n, t, {}, None)
  BY <1>4, <1>9, <1>10
<1>18. ASSUME NEW i \in ids PROVE rsrc'[i].name \in names /\ current[rsrc'[i].name] = i
  <2>1. PICK n \in new : fresh[n] = i
    BY <1>7
  <2>2. rsrc'[i] = NewRow(n, t, {}, None)
    BY <1>8, <1>10, <2>1
  <2>3. rsrc'[i].name = n
    BY <2>2 DEF NewRow
  <2> QED
    BY <1>2, <1>3, <2>1, <2>3
<1>13. ASSUME NEW n \in names PROVE current[n] \in DOMAIN rsrc' /\ rsrc'[current[n]].name = n
  <2>1. CASE n \in new
    <3>1. current[n] = fresh[n] /\ fresh[n] \in ids
      BY <1>3, <1>7, <2>1
    <3>2. rsrc'[current[n]] = NewRow(n, t, {}, None)
      BY <1>8, <1>10, <2>1, <3>1
    <3> QED
      BY <1>10, <3>1, <3>2 DEF NewRow
  <2>2. CASE n \notin new
    BY <1>5, <1>10, <1>11, <2>2 DEF Same
  <2> QED
    BY <2>1, <2>2
<1> DEFINE g == convg_deps(t, current, rsrc)
           st == [th[w].st EXCEPT !.deps = g]
           x == [th[w] EXCEPT !.st = st, !.pc = "store2"]
<1>14. Becomes(w, "store2", st, th[w].rs, th[w].out)
  <2> HIDE DEF g
  <2>1. th' = [th EXCEPT ![w].st.deps = g, ![w].pc = "store2"]
    BY <1>3 DEF g
  <2>2. th' = [th EXCEPT ![w] = x]
    BY <1>1, <2>1, Zenon DEF TypeOK
  <2> HIDE DEF st
  <2>3. x.pc = "store2" /\ x.st = st /\ x.rs = th[w].rs /\ x.out = th[w].out /\ x.msg = th[w].msg
    BY <1>1 DEF ThreadStates
  <2> HIDE DEF x
  <2> QED
    BY <1>1, <2>2, <2>3, ObjectWritten, Zenon DEF Becomes
<1>15. current \in [names -> DOMAIN rsrc']
  BY <1>10
<1>16. t = stack.tmpl
  BY <1>1
<1> HIDE DEF t
<1>17. Lays(w, current)
  BY <1>0, <1>10, <1>11, <1>12, <1>13, <1>14, <1>16, <1>18 DEF Lays
<1> QED
  BY <1>0, <1>15, <1>16, <1>17

\* The preparation of a traversal.
LEMMA PreparationKeepsSeq ==
    ASSUME TravInv, SeqInv, NEW w \in Threads,
           \/ StoreTraversal(w) \/ DeletePrevSyncPoints(w) \/ UpdateOrStoreResources(w)
           \/ StoreDeps(w) \/ TriggerLeaves(w)
    PROVE  SeqInv'
<1>1. th[w].pc \in Launching
  <2>1. /\ StoreTraversal(w) => th[w].pc = "store1"
        /\ DeletePrevSyncPoints(w) => th[w].pc = "delete_prev"
        /\ UpdateOrStoreResources(w) => th[w].pc = "resources"
        /\ StoreDeps(w) => th[w].pc = "store2"
        /\ TriggerLeaves(w) => th[w].pc = "trigger"
    BY Zenon DEF StoreTraversal, DeletePrevSyncPoints, UpdateOrStoreResources, StoreDeps,
                 TriggerLeaves, At
  <2> QED
    BY <2>1 DEF Launching
<1>2. /\ TypeOK /\ stack.live /\ casts = {} /\ DOMAIN sp = {}
      /\ \A v \in Threads \ {w} : ~Busy(th[v])
      /\ th[w].st.live /\ th[w].st.trav = stack.trav /\ th[w].st.tmpl = stack.tmpl
      /\ th[w].st.action # "ROLLBACK" /\ stack.action # "ROLLBACK" /\ th[w].st \in Stacks
      /\ th[w].pc = "store1" => th[w].goal.action # "ROLLBACK"
      /\ th[w].pc # "store1" => stack.status = "IN_PROGRESS" /\ th[w].st.status = "IN_PROGRESS"
      /\ RowsAreClean
  BY <1>1, LaunchIs DEF SeqInv, InitIsClean, RowsAreClean
<1>3. UNCHANGED rsrc => RowsAreClean'
  BY <1>2 DEF RowsAreClean
<1>4. DOMAIN sp' = {} => PointsArePurged'
  BY DEF PointsArePurged
<1>5. CASE StoreTraversal(w)
  <2>1. /\ th[w].pc = "store1" /\ UNCHANGED <<rsrc, nextId, sp, casts, phys, dead>>
        /\ stack'.live /\ stack'.action = th[w].goal.action /\ stack'.status = "IN_PROGRESS"
        /\ \A v \in Threads \ {w} : th'[v] = th[v]
        /\ th'[w].pc = "delete_prev" /\ th'[w].st = stack'
    BY <1>5, StoreTraversalDoes
  <2> QED
    BY <1>2, <1>3, <1>4, <2>1, LaunchKeepsSeq DEF Launching
<1>6. CASE DeletePrevSyncPoints(w)
  <2>1. /\ th[w].pc = "delete_prev" /\ UNCHANGED <<stack, rsrc, casts, dead>>
        /\ DOMAIN sp' = {} /\ Becomes(w, "resources", th[w].st, th[w].rs, th[w].out)
    BY <1>6, DeletePrevSyncPointsDoes
  <2> QED
    BY <1>2, <1>3, <1>4, <2>1, LaunchKeepsSeq DEF Launching, Becomes
<1>7. CASE UpdateOrStoreResources(w)
  <2>1. PICK current \in [TmplNames[stack.tmpl] -> DOMAIN rsrc'] :
           th[w].pc = "resources" /\ Lays(w, current)
    BY <1>7, UpdateOrStoreResourcesDoes
  <2> DEFINE st == [th[w].st EXCEPT !.deps = convg_deps(stack.tmpl, current, rsrc)]
  <2>2. /\ th[w].pc = "resources" /\ UNCHANGED <<stack, sp, casts, dead>>
        /\ \A i \in DOMAIN rsrc : Same(rsrc'[i], rsrc[i])
        /\ \A i \in DOMAIN rsrc' \ DOMAIN rsrc : \E n : rsrc'[i] = NewRow(n, stack.tmpl, {}, None)
        /\ Becomes(w, "store2", st, th[w].rs, th[w].out)
    BY <2>1, Zenon DEF Lays
  <2>3. st.live /\ st.trav = stack.trav /\ st.tmpl = stack.tmpl /\ st.action # "ROLLBACK"
    BY <1>2 DEF Stacks
  <2> HIDE DEF st
  <2>4. RowsAreClean'
    <3>1. \A n : NewRow(n, stack.tmpl, {}, None).status = "COMPLETE"
      BY DEF NewRow
    <3> QED
      BY <1>2, <2>2, <3>1 DEF RowsAreClean, Same
  <2> QED
    BY <1>2, <1>4, <2>2, <2>3, <2>4, LaunchKeepsSeq DEF Launching, Becomes
<1>8. CASE StoreDeps(w)
  <2>1. /\ th[w].pc = "store2" /\ UNCHANGED <<rsrc, sp, casts, dead>>
        /\ stack' = th[w].st /\ Becomes(w, "trigger", th[w].st, th[w].rs, th[w].out)
    BY <1>8, StoreDepsDoes
  <2> QED
    BY <1>2, <1>3, <1>4, <2>1, LaunchKeepsSeq DEF Launching, Becomes
<1>9. CASE TriggerLeaves(w)
  <2>1. /\ th[w].pc = "trigger" /\ UNCHANGED <<stack, rsrc, dead>>
        /\ DOMAIN sp' = {stack.trav}
        /\ casts' = {Cast(n[1], stack.trav, n[2], {}) : n \in leaves(stack.deps)}
        /\ Gone(w) \/ Becomes(w, "complete", th[w].st, th[w].rs, th[w].out)
    BY <1>9, TriggerLeavesDoes, Zenon
  <2>2. \A m \in casts' : m.trav = stack.trav
    BY <2>1 DEF Cast
  <2>3. PointsArePurged'
    BY <1>2, <2>1 DEF PointsArePurged
  <2>4. \/ th'[w].pc \in {"idle", "finished"}
        \/ th'[w].pc = "complete" /\ th'[w].st = th[w].st
    BY <2>1 DEF Gone, Returned, Becomes
  <2>5. \A v \in Threads \ {w} : th'[v] = th[v]
    BY <2>1 DEF Gone, Becomes
  <2>6. "complete" \notin Launching /\ "idle" \notin Launching /\ "finished" \notin Launching
    BY DEF Launching
  <2> QED
    BY <1>2, <1>3, <2>1, <2>2, <2>3, <2>4, <2>5, <2>6, LaunchKeepsSeq DEF Busy
<1> QED
  BY <1>5, <1>6, <1>7, <1>8, <1>9

-----------------------------------------------------------------------------
(* The invariant of operations that follow one another.                      *)

\* The creation is about to be stored and nothing else is there.
LEMMA SeqInitially == Init => SeqInv
<1> SUFFICES ASSUME Init PROVE SeqInv
  OBVIOUS
<1> DEFINE st == [NoStack EXCEPT !.live = TRUE, !.tmpl = Op[Creator].tmpl]
           x == [Idle EXCEPT !.pc = "store1", !.st = stack, !.goal = Op[Creator]]
<1>1. /\ stack = st /\ sp = << >> /\ casts = {} /\ rsrc = << >> /\ dead = {}
      /\ th = [w \in Threads |-> IF w = Creator THEN x ELSE Idle]
  BY Zenon DEF Init
<1>2. st.live /\ st.action = "CREATE" /\ st.trav = 0
  BY DEF NoStack
<1>3. /\ x.pc = "store1" /\ x.st = stack /\ x.goal.action = "CREATE" /\ Idle.pc = "idle"
      /\ Creator \in Threads
  BY ConvergenceAssumption DEF Idle, Threads
<1>4. DOMAIN sp = {} /\ DOMAIN rsrc = {}
  BY <1>1
<1> HIDE DEF st, x
<1>5. /\ th[Creator] = x /\ \A w \in Threads \ {Creator} : th[w] = Idle
      /\ \A w \in Threads : th[w].pc \in {"idle", "store1"}
  BY <1>1, <1>3
<1>6. \A w \in Threads : Serves(th[w])
  <2>1. Serves(x)
    BY <1>1, <1>2, <1>3 DEF Serves
  <2>2. Serves(Idle)
    BY <1>3 DEF Serves, Busy
  <2> QED
    BY <1>5, <2>1, <2>2
<1>7. InitIsClean /\ NothingToRollBack /\ PointsArePurged
  BY <1>4, <1>5 DEF InitIsClean, NothingToRollBack, PointsArePurged, Checks
<1>8. LaunchAlone
  BY <1>1, <1>2, <1>3, <1>4, <1>5 DEF LaunchAlone, Launching, Busy
<1> QED
  BY <1>1, <1>2, <1>5, <1>6, <1>7, <1>8 DEF SeqInv

\* What cannot happen when operations follow one another.
LEMMA NeverHappens ==
    ASSUME OneByOne, SeqInv, NEW w \in Threads
    PROVE  /\ ~Rollback(w) /\ ~Steal(w) /\ ~MarkFailed(w)
           /\ \A e \in Engines : ~Crash(e)
<1>1. ~Rollback(w)
  BY Zenon DEF Rollback, At, SeqInv, NothingToRollBack
<1>2. ~Steal(w) /\ ~MarkFailed(w)
  BY DEF Steal, MarkFailed, At, SeqInv
<1>3. \A e \in Engines : ~Crash(e)
  BY DEF Crash, Fault, OneByOne
<1> QED
  BY <1>1, <1>2, <1>3

\* Every step keeps that operations follow one another.
LEMMA SeqStep ==
    ASSUME OneByOne, TravInv, LockInv, SeqInv, [Next]_vars
    PROVE  SeqInv'
<1>1. CASE UNCHANGED vars
  <2>1. UNCHANGED <<stack, rsrc, sp, casts, th, dead>>
    BY <1>1 DEF vars
  <2>2. \A w \in Threads : Serves(th[w])'
    BY <2>1 DEF SeqInv, Serves, Busy
  <2> QED
    BY <2>1, <2>2 DEF SeqInv, InitIsClean, NothingToRollBack, PointsArePurged, LaunchAlone, Busy
<1>2. ASSUME NEW o \in Ops, Request(o) PROVE SeqInv'
  BY <1>2, RequestKeepsSeq
<1>3. ASSUME NEW w \in Threads, ConvergeStep(w) PROVE SeqInv'
  BY <1>3, NeverHappens, PreparationKeepsSeq, StateKeepsSeq, PurgeTemplateKeepsSeq,
     PurgeSyncPointsKeepsSeq DEF ConvergeStep
<1>4. ASSUME NEW w \in Threads, CheckStep(w) PROVE SeqInv'
  BY <1>4, NeverHappens, WorkKeepsSeq, ReportKeepsSeq, StateKeepsSeq, AfterFailureKeepsSeq
     DEF CheckStep
<1>5. ASSUME NEW w \in Workers, NEW m \in casts, Receive(w, m) \/ ReceiveLate(w, m) PROVE SeqInv'
  BY <1>5, ReceiveKeepsSeq, ReceiveLateKeepsSeq DEF Threads
<1>6. ASSUME NEW e \in Engines, Crash(e) PROVE SeqInv'
  <2>1. Creator \in Threads
    BY ConvergenceAssumption DEF Threads
  <2> QED
    BY <1>6, <2>1, NeverHappens
<1> QED
  BY <1>1, <1>2, <1>3, <1>4, <1>5, <1>6 DEF Next

\* When no engine dies and every request waits until the stack has settled,
\* whatever runs works for the current traversal, and nothing else runs while
\* a traversal is prepared.
THEOREM SeqInvariant == ASSUME OneByOne PROVE Spec => []SeqInv
<1>1. TravInv /\ LockInv /\ SeqInv /\ [Next]_vars => SeqInv'
  BY SeqStep
<1> QED
  BY <1>1, SeqInitially, TraversalInvariant, LockInvariant, PTL DEF Spec

\* Whatever mark_complete(), _handle_failure() and purge_db() are in the middle
\* of, no sync point is left once the stack has settled.
THEOREM SyncPointsArePurged == ASSUME OneByOne PROVE Spec => []NoSyncPointsLeft
<1>1. SeqInv => NoSyncPointsLeft
  <2> SUFFICES ASSUME SeqInv, Settled PROVE DOMAIN sp = {}
    BY DEF NoSyncPointsLeft
  <2> QED
    BY Zenon DEF SeqInv, PointsArePurged, Settled
<1> QED
  BY <1>1, SeqInvariant, PTL
-----------------------------------------------------------------------------
(* Templates.                                                                *)

\* The templates stored so far.
Taken == {Op[o].tmpl : o \in {p \in Ops : th[p].pc # "idle"}}

TmplInv ==
    /\ stack.tmpl \in Taken
    /\ \A i \in DOMAIN rsrc : rsrc[i].tmpl \in Taken
    /\ \A w \in Threads : th[w].pc = "store1" =>
          /\ th[w].goal.tmpl \in Taken
          /\ \A i \in DOMAIN rsrc : rsrc[i].tmpl # th[w].goal.tmpl
    /\ \A w \in Threads : th[w].pc \in {"delete_prev", "resources"} =>
          \A i \in DOMAIN rsrc : rsrc[i].tmpl # stack.tmpl

-----------------------------------------------------------------------------
(* Tokens.  A node of the graph that has become ready is in the hands of one *)
(* message or of one worker, which may hand it on to a replacement.          *)

\* The node that a check of i stands for.
Stands(i, upd, replaces) ==
    IF <<i, upd>> \in stack.deps.nodes THEN <<i, upd>> ELSE <<replaces, upd>>

WorkerToken(w) ==
    [of |-> <<"worker", w>>, id |-> th[w].msg.id, upd |-> th[w].msg.upd,
     data |-> th[w].msg.data, name |-> th[w].rs.name,
     key |-> Stands(th[w].msg.id, th[w].msg.upd, th[w].rs.replaces)]

CastToken(m) ==
    [of |-> <<"cast", m>>, id |-> m.id, upd |-> m.upd, data |-> m.data,
     name |-> rsrc[m.id].name, key |-> Stands(m.id, m.upd, rsrc[m.id].replaces)]

Checking == {w \in Threads : th[w].pc \in Checks}

Served == {m \in casts : m.id \in DOMAIN rsrc}

Tokens == {WorkerToken(w) : w \in Checking} \cup {CastToken(m) : m \in Served}

\* No resource is checked twice at a time.
IdsApart == \A x, y \in Tokens : x # y => x.id # y.id

\* No node is, and none together with one that it waits for.
KeysApart ==
    \A x, y \in Tokens : x # y => x.key # y.key /\ <<x.key, y.key>> \notin stack.deps.edges

-----------------------------------------------------------------------------
(* Rows and the workers that check them.                                     *)

\* The check has loaded the row and done nothing to it.
Loaded(x) == x.pc \in {"acquire", "cas", "begin"}

\* The row is in the middle of an action.
ActsOn(x, i) ==
    /\ x.msg.id = i
    /\ x.pc \in {"handler", "replace"} \/ (x.pc = "release" /\ x.out = "replace")

\* A resource is created only if it does not exist.
NotThere(x) ==
    /\ Loaded(x) /\ x.rs.action = "INIT" => x.msg.id \notin phys
    /\ x.pc = "handler" /\ x.rs.action = "CREATE" => x.msg.id \notin phys

\* A row serves the current template.
Serving(i) ==
    /\ i \in DOMAIN rsrc /\ i \in phys
    /\ rsrc[i].tmpl = stack.tmpl /\ rsrc[i].status = "COMPLETE" /\ rsrc[i].action # "INIT"

\* A row is no longer in the way of what it requires.
Cleaned(i) == i \in DOMAIN rsrc => rsrc[i].tmpl = stack.tmpl

\* What the check has read, or written, is what the row says.
LoadedOK(x) ==
    /\ x.msg.id \in DOMAIN rsrc /\ Same(rsrc[x.msg.id], x.rs)
    /\ x.msg.upd => /\ x.rs.replaced_by = None
                    /\ x.rs.tmpl = stack.tmpl => x.rs.action = "INIT"
    /\ <<x.msg.id, x.msg.upd>> \notin stack.deps.nodes => x.rs.action = "INIT"

HandlerOK(x) ==
    /\ x.msg.id \in DOMAIN rsrc /\ Same(rsrc[x.msg.id], x.rs) /\ x.rs.status = "IN_PROGRESS"
    /\ \/ /\ x.msg.upd /\ x.rs.action = "CREATE" /\ x.rs.replaced_by = None
          /\ x.rs.tmpl = stack.tmpl /\ x.rs.requires = Reports(x)
       \/ /\ x.msg.upd /\ x.rs.action = "UPDATE" /\ x.rs.replaced_by = None
          /\ x.rs.tmpl # stack.tmpl /\ x.msg.id \in phys
          /\ <<x.msg.id, TRUE>> \in stack.deps.nodes
       \/ ~x.msg.upd /\ x.rs.action = "DELETE" /\ x.rs.tmpl # stack.tmpl

ReleaseOK(x) ==
    LET r == rsrc[x.msg.id]
        claimed == x.msg.upd /\ x.rs.tmpl = stack.tmpl /\ x.rs.requires = Reports(x)
                   /\ r.action # "INIT" /\ r.replaced_by = None
        kept == x.rs.tmpl = r.tmpl /\ x.rs.requires = r.requires
    IN /\ x.msg.id \in DOMAIN rsrc /\ r.name = x.rs.name
       /\ \/ x.out = "done" /\ claimed /\ r.status = "COMPLETE" /\ x.msg.id \in phys
          \/ x.out = "done" /\ ~x.msg.upd /\ kept /\ r.tmpl = stack.tmpl
          \/ /\ x.out = "replace" /\ x.msg.upd /\ kept /\ r.tmpl # stack.tmpl
             /\ r.action # "INIT" /\ <<x.msg.id, TRUE>> \in stack.deps.nodes
          \/ x.out \in {"failed", "timeout"} /\ r.status = "FAILED" /\ (claimed \/ kept)

\* What a check, as far as it has come, knows of its row.
WorkerOK(x) ==
    /\ Loaded(x) => LoadedOK(x)
    /\ x.pc = "handler" => HandlerOK(x)
    /\ x.pc = "release" => ReleaseOK(x)
    /\ x.pc = "replace" =>
          /\ x.msg.upd /\ <<x.msg.id, TRUE>> \in stack.deps.nodes
          /\ x.msg.id \in DOMAIN rsrc /\ rsrc[x.msg.id].tmpl # stack.tmpl
          /\ rsrc[x.msg.id].name = x.rs.name /\ rsrc[x.msg.id].action # "INIT"
    /\ x.pc = "destroy" =>
          ~x.msg.upd /\ (x.msg.id \in DOMAIN rsrc => rsrc[x.msg.id].tmpl # stack.tmpl)
    /\ x.pc = "propagate" =>
          IF x.msg.upd THEN Serving(x.msg.id) /\ rsrc[x.msg.id].name = x.rs.name
          ELSE Cleaned(x.msg.id)

\* A row whose check is on its way has not been claimed yet.
CastOK(m) ==
    /\ m.upd /\ rsrc[m.id].tmpl = stack.tmpl => rsrc[m.id].action = "INIT"
    /\ <<m.id, m.upd>> \notin stack.deps.nodes => rsrc[m.id].action = "INIT"

\* What is in the middle of an action has a worker; what is COMPLETE exists,
\* unless it is replaced or about to go.
RowOK(i) ==
    /\ rsrc[i].status = "IN_PROGRESS" => \E w \in Threads : ActsOn(th[w], i)
    /\ /\ rsrc[i].action # "INIT" /\ rsrc[i].status = "COMPLETE" /\ rsrc[i].replaced_by = None
       /\ \A w \in Threads : ~(th[w].pc = "destroy" /\ th[w].msg.id = i)
       => i \in phys

\* Whatever becomes of the stack.
ThereInv ==
    /\ IdsApart
    /\ \A i \in DOMAIN rsrc : rsrc[i].action = "INIT" => i \notin phys
    /\ \A w \in Checking : NotThere(th[w])

\* After the stack is gone.
GoneInv ==
    /\ \A i \in DOMAIN rsrc : rsrc[i].action = "INIT"
    /\ \A w \in Checking : th[w].msg.id \notin DOMAIN rsrc
    /\ Served = {}

RowInv ==
    /\ \A i \in DOMAIN rsrc : RowOK(i)
    /\ \A w \in Checking : WorkerOK(th[w])
    /\ \A m \in Served : CastOK(m)

-----------------------------------------------------------------------------
(* The graph of the current traversal.                                       *)

\* The update nodes are the rows that current gives to the names, ordered by
\* the template; an update waits for updates only, and a cleanup for the
\* update of the same row.
GraphOK(g, t, current) ==
    /\ current \in [TmplNames[t] -> Ids]
    /\ {n \in g.nodes : n[2]} = {<<current[n], TRUE>> : n \in TmplNames[t]}
    /\ \A n \in TmplNames[t] : \A m \in TmplRequires[t][n] :
          <<<<current[n], TRUE>>, <<current[m], TRUE>>>> \in g.edges
    /\ \A e \in g.edges : e[1][2] => e[2][2]
    /\ \A n \in g.nodes : ~n[2] /\ <<n[1], TRUE>> \in g.nodes => <<n, <<n[1], TRUE>>>> \in g.edges

\* The rows that the names of the current template may have been given.
Currents == [TmplNames[stack.tmpl] -> Ids]

\* A row still has the name it was given.
NamesOK(t, current) ==
    \A n \in TmplNames[t] : current[n] \in DOMAIN rsrc => rsrc[current[n]].name = n

\* What row i requires is cleaned up after it, unless it is gone or serves.
Covered(i, g) ==
    \A j \in rsrc[i].requires : Cleaned(j) \/ <<<<j, FALSE>>, <<i, FALSE>>>> \in g.edges

\* The rows, before the first check of a traversal with the graph g.
LaunchOK(g) ==
    /\ \A i \in DOMAIN rsrc : rsrc[i].tmpl = stack.tmpl =>
          rsrc[i].action = "INIT" /\ rsrc[i].replaced_by = None
    /\ \A i \in DOMAIN rsrc : Covered(i, g)
    /\ \A n \in g.nodes : n[1] \in DOMAIN rsrc

\* The graph g of a traversal has been laid out.
Laid(g) ==
    /\ LaunchOK(g)
    /\ \E current \in Currents : GraphOK(g, stack.tmpl, current) /\ NamesOK(stack.tmpl, current)

Points == sp[stack.trav]

\* All nodes that k waits for have reported.
Ready(k) == graphPreds(stack.deps, k) \subseteq senders(Points[k])

\* What has reported to an update serves, under the name that it stands for.
DataOK(d, current) ==
    \A p \in d :
        /\ Serving(p[2])
        /\ \A n \in TmplNames[stack.tmpl] : p[1] = <<current[n], TRUE>> => rsrc[p[2]].name = n

TokenOK(x, current) ==
    /\ x.key \in stack.deps.nodes /\ x.key[2] = x.upd
    /\ <<x.id, x.upd>> \notin stack.deps.nodes => x.upd /\ <<x.id, FALSE>> \notin stack.deps.nodes
    /\ x.upd => /\ graphPreds(stack.deps, x.key) \subseteq senders(x.data)
                /\ DataOK(x.data, current)
                /\ \A n \in TmplNames[stack.tmpl] : x.key = <<current[n], TRUE>> => x.name = n
    /\ ~x.upd => \A n \in graphPreds(stack.deps, x.key) : ~n[2] => Cleaned(n[1])
    /\ DOMAIN sp # {} => /\ Ready(x.key)
                         /\ \A n \in DOMAIN Points : x.key \notin senders(Points[n])

\* What has reported was ready, and its work is done.
PointsOK(current) ==
    \A n \in DOMAIN Points :
        /\ \A k \in senders(Points[n]) :
              k \in stack.deps.nodes /\ Ready(k) /\ (~k[2] => Cleaned(k[1]))
        /\ n \in stack.deps.nodes /\ n[2] => DataOK(Points[n], current)

\* A row claimed by the current traversal.
Claim(i) == rsrc[i].tmpl = stack.tmpl /\ rsrc[i].action # "INIT"

ClaimOK(i) ==
    /\ rsrc[i].replaced_by # None => rsrc[i].tmpl # stack.tmpl
    /\ rsrc[i].action # "INIT" => Covered(i, stack.deps)
    /\ Claim(i) => \A j \in rsrc[i].requires : Cleaned(j)
    /\ Claim(i) /\ DOMAIN sp # {} /\ <<i, TRUE>> \in stack.deps.nodes => Ready(<<i, TRUE>>)

\* A replacement on its way: whatever says that it is replaced by that row is
\* what the row replaces.
ReplacementOK ==
    \A m \in Served : <<m.id, m.upd>> \notin stack.deps.nodes =>
        /\ \A i \in DOMAIN rsrc : rsrc[i].replaced_by = m.id => i = rsrc[m.id].replaces
        /\ \A w \in Checking : th[w].rs.replaced_by = m.id => th[w].msg.id = rsrc[m.id].replaces

CheckInv(current) ==
    /\ GraphOK(stack.deps, stack.tmpl, current) /\ NamesOK(stack.tmpl, current)
    /\ KeysApart /\ ReplacementOK
    /\ \A x \in Tokens : TokenOK(x, current)
    /\ DOMAIN sp # {} => PointsOK(current)
    /\ \A i \in DOMAIN rsrc : ClaimOK(i)

\* While a traversal is prepared, and while it runs.
OrderInv ==
    /\ ThereInv
    /\ ~stack.live => GoneInv
    /\ stack.live =>
          /\ TmplInv /\ RowInv
          /\ \A w \in Threads : th[w].pc \in {"store2", "trigger"} => Laid(th[w].st.deps)
          /\ (\A w \in Threads : th[w].pc \notin Launching) => \E current \in Currents : CheckInv(current)

-----------------------------------------------------------------------------
(* What lasts while a traversal goes on.                                     *)

\* The traversal is the same.
StackKept ==
    /\ stack'.live = stack.live /\ stack'.trav = stack.trav /\ stack'.tmpl = stack.tmpl
    /\ stack'.deps = stack.deps

\* Its sync points are the same, or gone.
PointsKept == sp' = sp \/ DOMAIN sp' = {}

\* What serves goes on to serve, and what is clean stays clean.
Better ==
    \A j : /\ Serving(j) => Serving(j)' /\ rsrc'[j].name = rsrc[j].name
           /\ Cleaned(j) => Cleaned(j)'

\* Two tokens that say the same, maybe one of the replacement of the other.
Like(x, y) == x.upd = y.upd /\ x.data = y.data /\ x.name = y.name /\ x.key = y.key

\* What has reported.
LEMMA DataStays ==
    ASSUME StackKept, Better, NEW d, NEW current, DataOK(d, current)
    PROVE  DataOK(d, current)'
<1> SUFFICES ASSUME NEW p \in d
             PROVE  /\ Serving(p[2])'
                    /\ \A n \in TmplNames[stack.tmpl] :
                          p[1] = <<current[n], TRUE>> => rsrc'[p[2]].name = n
  BY Zenon DEF DataOK, StackKept
<1>1. /\ Serving(p[2])
      /\ \A n \in TmplNames[stack.tmpl] : p[1] = <<current[n], TRUE>> => rsrc[p[2]].name = n
  BY Zenon DEF DataOK
<1>2. Serving(p[2])' /\ rsrc'[p[2]].name = rsrc[p[2]].name
  BY <1>1 DEF Better
<1> QED
  BY <1>1, <1>2, Zenon

\* A token.
LEMMA TokenStays ==
    ASSUME StackKept, PointsKept, Better, NEW x, NEW y, Like(x, y),
           x.id = y.id \/ (x.upd /\ <<x.id, FALSE>> \notin stack.deps.nodes),
           NEW current, TokenOK(y, current)
    PROVE  TokenOK(x, current)'
<1>1. stack'.deps = stack.deps /\ stack'.tmpl = stack.tmpl /\ stack'.trav = stack.trav
  BY DEF StackKept
<1>2. /\ x.key \in stack.deps.nodes /\ x.key[2] = x.upd
      /\ <<x.id, x.upd>> \notin stack.deps.nodes => x.upd /\ <<x.id, FALSE>> \notin stack.deps.nodes
      /\ x.upd => /\ graphPreds(stack.deps, x.key) \subseteq senders(x.data)
                  /\ \A n \in TmplNames[stack.tmpl] : x.key = <<current[n], TRUE>> => x.name = n
  BY Zenon DEF TokenOK, Like
<1>3. x.upd => DataOK(x.data, current)'
  BY DataStays DEF TokenOK, Like
<1>4. ~x.upd => \A n \in graphPreds(stack.deps, x.key) : ~n[2] => Cleaned(n[1])'
  BY DEF TokenOK, Like, Better
<1>5. DOMAIN sp' # {} => /\ Ready(x.key)'
                         /\ \A n \in DOMAIN Points' : x.key \notin senders(Points'[n])
  <2>1. DOMAIN sp' # {} => sp' = sp
    BY DEF PointsKept
  <2> QED
    BY <1>1, <2>1 DEF TokenOK, Like, Ready, Points
<1> QED
  BY <1>1, <1>2, <1>3, <1>4, <1>5, Zenon DEF TokenOK

\* What has been reported to the sync points.
LEMMA PointsStayOK ==
    ASSUME StackKept, sp' = sp, Better, NEW current, PointsOK(current)
    PROVE  PointsOK(current)'
<1>1. stack'.deps = stack.deps /\ stack'.tmpl = stack.tmpl /\ stack'.trav = stack.trav
  BY DEF StackKept
<1>2. Points' = Points /\ \A k : Ready(k) => Ready(k)'
  BY <1>1 DEF Points, Ready
<1> SUFFICES ASSUME NEW n \in DOMAIN Points
             PROVE  /\ \A k \in senders(Points[n]) :
                          k \in stack.deps.nodes /\ Ready(k) /\ (~k[2] => Cleaned(k[1])')
                    /\ n \in stack.deps.nodes /\ n[2] => DataOK(Points[n], current)'
  BY <1>1, <1>2 DEF PointsOK
<1>3. /\ \A k \in senders(Points[n]) :
            k \in stack.deps.nodes /\ Ready(k) /\ (~k[2] => Cleaned(k[1]))
      /\ n \in stack.deps.nodes /\ n[2] => DataOK(Points[n], current)
  BY DEF PointsOK
<1>4. \A k \in senders(Points[n]) :
         k \in stack.deps.nodes /\ Ready(k) /\ (~k[2] => Cleaned(k[1])')
  BY <1>3 DEF Better
<1>5. ASSUME n \in stack.deps.nodes, n[2] PROVE DataOK(Points[n], current)'
  <2>1. PICK d : d = Points[n]
    OBVIOUS
  <2>2. DataOK(d, current)'
    BY <1>3, <1>5, <2>1, DataStays
  <2>3. Points'[n] = d
    BY <1>2, <2>1
  <2> QED
    BY <2>2, <2>3, Zenon DEF DataOK
<1> QED
  BY <1>4, <1>5

\* A row that claims the same.
ClaimsLike(a, b) ==
    /\ a.tmpl = b.tmpl /\ a.requires = b.requires /\ a.replaced_by = b.replaced_by
    /\ a.action = "INIT" <=> b.action = "INIT"

\* Its claim.
LEMMA ClaimStays ==
    ASSUME StackKept, PointsKept, Better, NEW i, ClaimsLike(rsrc'[i], rsrc[i]), ClaimOK(i)
    PROVE  ClaimOK(i)'
<1>1. stack'.deps = stack.deps /\ stack'.tmpl = stack.tmpl /\ stack'.trav = stack.trav
  BY DEF StackKept
<1>2. /\ rsrc'[i].tmpl = rsrc[i].tmpl /\ rsrc'[i].requires = rsrc[i].requires
      /\ rsrc'[i].replaced_by = rsrc[i].replaced_by
      /\ rsrc'[i].action = "INIT" <=> rsrc[i].action = "INIT"
  BY DEF ClaimsLike
<1>3. Covered(i, stack.deps) => Covered(i, stack.deps)'
  BY <1>1, <1>2, Zenon DEF Covered, Better
<1>4. Claim(i)' <=> Claim(i)
  BY <1>1, <1>2 DEF Claim
<1>5. DOMAIN sp' # {} => sp' = sp
  BY DEF PointsKept
<1>6. sp' = sp => Ready(<<i, TRUE>>)' = Ready(<<i, TRUE>>)
  BY <1>1 DEF Ready, Points
<1> QED
  BY <1>1, <1>2, <1>3, <1>4, <1>5, <1>6 DEF ClaimOK, Better

\* Tokens are of one worker or of one message.
LEMMA TokensAre ==
    /\ \A x : x \in Tokens <=> \/ \E w \in Checking : x = WorkerToken(w)
                               \/ \E m \in Served : x = CastToken(m)
    /\ \A x : x \in Tokens' <=> \/ \E w \in Checking' : x = WorkerToken(w)'
                                \/ \E m \in Served' : x = CastToken(m)'
    /\ \A w : /\ WorkerToken(w).of = <<"worker", w>> /\ WorkerToken(w).id = th[w].msg.id
              /\ WorkerToken(w).upd = th[w].msg.upd /\ WorkerToken(w).data = th[w].msg.data
              /\ WorkerToken(w).name = th[w].rs.name
              /\ WorkerToken(w).key = Stands(th[w].msg.id, th[w].msg.upd, th[w].rs.replaces)
    /\ \A m : /\ CastToken(m).of = <<"cast", m>> /\ CastToken(m).id = m.id
              /\ CastToken(m).upd = m.upd /\ CastToken(m).data = m.data
              /\ CastToken(m).name = rsrc[m.id].name
              /\ CastToken(m).key = Stands(m.id, m.upd, rsrc[m.id].replaces)
  BY DEF Tokens, WorkerToken, CastToken

\* A worker's check is of a resource that no other token is of.
LEMMA ApartFrom ==
    ASSUME IdsApart, NEW w \in Checking
    PROVE  /\ \A v \in Checking \ {w} : th[v].msg.id # th[w].msg.id
           /\ \A m \in Served : m.id # th[w].msg.id
<1>1. /\ WorkerToken(w) \in Tokens /\ \A v \in Checking : WorkerToken(v) \in Tokens
      /\ \A m \in Served : CastToken(m) \in Tokens
  BY TokensAre
<1>2. ASSUME NEW v \in Checking \ {w} PROVE th[v].msg.id # th[w].msg.id
  <2>1. WorkerToken(v).of # WorkerToken(w).of
    BY TokensAre
  <2> QED
    BY <1>1, <2>1, TokensAre DEF IdsApart
<1>3. ASSUME NEW m \in Served PROVE m.id # th[w].msg.id
  <2>1. CastToken(m).of # WorkerToken(w).of
    BY TokensAre
  <2> QED
    BY <1>1, <2>1, TokensAre DEF IdsApart
<1> QED
  BY <1>2, <1>3

\* Tokens that are gone do no harm.
LEMMA FewerTokens ==
    ASSUME StackKept, Tokens' \subseteq Tokens, IdsApart
    PROVE  IdsApart' /\ (KeysApart => KeysApart')
  BY DEF StackKept, IdsApart, KeysApart

\* One token takes the place of another.
LEMMA HandedOver ==
    ASSUME StackKept, NEW c \in Tokens, NEW n, Tokens' \subseteq (Tokens \ {c}) \cup {n}, Like(n, c)
    PROVE  /\ KeysApart => KeysApart'
           /\ IdsApart /\ (\A x \in Tokens \ {c} : x.id # n.id) => IdsApart'
<1>1. stack'.deps = stack.deps /\ n.key = c.key
  BY DEF StackKept, Like
<1> QED
  BY <1>1 DEF IdsApart, KeysApart

-----------------------------------------------------------------------------
(* What a check does to its resource.                                        *)

\* What the invariant says while checks go on.
LEMMA WhileChecking ==
    ASSUME SeqInv, OrderInv, stack.live, NEW w \in Threads, Busy(th[w]), th[w].pc \notin Launching
    PROVE  /\ \A v \in Threads : th[v].pc \notin Launching
           /\ ThereInv /\ TmplInv /\ RowInv /\ \E current \in Currents : CheckInv(current)
<1>1. \A v \in Threads : th[v].pc \notin Launching
  BY NobodyLaunches
<1> QED
  BY <1>1 DEF OrderInv

\* What it takes to go on.
LEMMA ChecksGoOn ==
    ASSUME stack'.live, \A v \in Threads : th'[v].pc \notin Launching,
           ThereInv', TmplInv', RowInv', NEW current \in Currents', CheckInv(current)'
    PROVE  OrderInv'
<1>1. \A v \in Threads : th'[v].pc \notin {"store2", "trigger"}
  BY DEF Launching
<1> QED
  BY <1>1 DEF OrderInv

\* Templates once taken remain so.
LEMMA TmplKeeps ==
    ASSUME TmplInv, stack'.tmpl = stack.tmpl,
           \A p \in Ops : th[p].pc # "idle" => th'[p].pc # "idle",
           \A i \in DOMAIN rsrc' : \/ rsrc'[i].tmpl = stack.tmpl
                                   \/ i \in DOMAIN rsrc /\ rsrc'[i].tmpl = rsrc[i].tmpl,
           \A v \in Threads : th'[v].pc \notin Launching
    PROVE  TmplInv'
<1>1. Taken \subseteq Taken'
  BY DEF Taken
<1>2. stack'.tmpl \in Taken' /\ \A i \in DOMAIN rsrc' : rsrc'[i].tmpl \in Taken'
  BY <1>1 DEF TmplInv
<1>3. \A v \in Threads : th'[v].pc \notin {"store1", "delete_prev", "resources"}
  BY DEF Launching
<1> QED
  BY <1>2, <1>3 DEF TmplInv

\* A check whose row says the same.
LEMMA OtherWorkerOK ==
    ASSUME StackKept, NEW v, th'[v] = th[v],
           th[v].msg.id \in DOMAIN rsrc' <=> th[v].msg.id \in DOMAIN rsrc,
           th[v].msg.id \in DOMAIN rsrc => Same(rsrc'[th[v].msg.id], rsrc[th[v].msg.id]),
           th[v].msg.id \in phys' <=> th[v].msg.id \in phys
    PROVE  /\ WorkerOK(th[v]) => WorkerOK(th[v])'
           /\ NotThere(th[v]) => NotThere(th[v])'
<1> DEFINE x == th[v]
<1>1. NotThere(x) => NotThere(x)'
  BY DEF NotThere, Loaded
<1>2. /\ stack'.deps = stack.deps /\ stack'.tmpl = stack.tmpl
      /\ x.msg.id \in DOMAIN rsrc' <=> x.msg.id \in DOMAIN rsrc
      /\ x.msg.id \in DOMAIN rsrc =>
            /\ rsrc'[x.msg.id].name = rsrc[x.msg.id].name
            /\ rsrc'[x.msg.id].action = rsrc[x.msg.id].action
            /\ rsrc'[x.msg.id].status = rsrc[x.msg.id].status
            /\ rsrc'[x.msg.id].tmpl = rsrc[x.msg.id].tmpl
            /\ rsrc'[x.msg.id].requires = rsrc[x.msg.id].requires
            /\ rsrc'[x.msg.id].replaced_by = rsrc[x.msg.id].replaced_by
  BY DEF StackKept, Same
<1>3. LoadedOK(x) => LoadedOK(x)'
  BY <1>2 DEF LoadedOK, Same
<1>4. HandlerOK(x) => HandlerOK(x)'
  BY <1>2, SMTT(20) DEF HandlerOK, Same, Reports
<1>5. ReleaseOK(x) => ReleaseOK(x)'
  BY <1>2 DEF ReleaseOK, Reports
<1>6. Serving(x.msg.id) => Serving(x.msg.id)'
  BY <1>2 DEF Serving
<1>7. Cleaned(x.msg.id) => Cleaned(x.msg.id)'
  BY <1>2 DEF Cleaned
<1>8. Loaded(x)' = Loaded(x)
  BY DEF Loaded
<1>9. ASSUME WorkerOK(x) PROVE WorkerOK(x)'
  <2>1. x.pc = "propagate" => IF x.msg.upd THEN Serving(x.msg.id)' /\ rsrc'[x.msg.id].name = x.rs.name
                              ELSE Cleaned(x.msg.id)'
    BY <1>2, <1>6, <1>7, <1>9 DEF WorkerOK, Serving
  <2> QED
    BY <1>2, <1>3, <1>4, <1>5, <1>8, <1>9, <2>1 DEF WorkerOK
<1> QED
  BY <1>1, <1>9

\* A row that nobody but a given check is about to act on.
LEMMA OtherRowOK ==
    ASSUME NEW j, NEW w \in Threads, th[w].msg.id # j \/ ~(ActsOn(th[w], j) \/ th[w].pc = "destroy"),
           \A v \in Threads \ {w} : th'[v] = th[v],
           Same(rsrc'[j], rsrc[j]), j \in phys => j \in phys', RowOK(j)
    PROVE  RowOK(j)'
<1>1. ASSUME rsrc[j].status = "IN_PROGRESS" PROVE \E v \in Threads : ActsOn(th[v], j)'
  <2>1. PICK v \in Threads : ActsOn(th[v], j)
    BY <1>1 DEF RowOK
  <2>2. v # w
    BY <2>1 DEF ActsOn
  <2> QED
    BY <2>1, <2>2 DEF ActsOn
<1>2. (\A v \in Threads : ~(th'[v].pc = "destroy" /\ th'[v].msg.id = j))
         => \A v \in Threads : ~(th[v].pc = "destroy" /\ th[v].msg.id = j)
  BY DEF ActsOn
<1> QED
  BY <1>1, <1>2 DEF RowOK, Same

\* The check w works on resource i.
Works(w, i) ==
    /\ Apartly(i) /\ \A v \in Threads \ {w} : th'[v] = th[v]
    /\ th'[w].pc \notin Launching
    /\ th'[w].pc \in Checks =>
          /\ th'[w].msg = th[w].msg /\ th'[w].rs.name = th[w].rs.name
          /\ th'[w].rs.replaces = th[w].rs.replaces
          /\ th'[w].rs.replaced_by = th[w].rs.replaced_by
    /\ DOMAIN rsrc \ {i} \subseteq DOMAIN rsrc' /\ DOMAIN rsrc' \subseteq DOMAIN rsrc
    /\ \A j \in DOMAIN rsrc' :
          /\ rsrc'[j].name = rsrc[j].name /\ rsrc'[j].replaced_by = rsrc[j].replaced_by
          /\ rsrc'[j].tmpl \in {rsrc[j].tmpl, stack.tmpl}
          /\ j # i => Same(rsrc'[j], rsrc[j])
    /\ \A m \in Served : m.id # i =>
          rsrc'[m.id].replaces = rsrc[m.id].replaces \/ <<m.id, m.upd>> \in stack.deps.nodes

\* It works well if its own row and what it knows of it are as they should be.
WorksWell(w, i) ==
    /\ w \in Checking' => NotThere(th[w])' /\ WorkerOK(th[w])'
    /\ i \in DOMAIN rsrc' =>
          (rsrc'[i].action = "INIT" => i \notin phys') /\ RowOK(i)' /\ ClaimOK(i)'
    /\ (Serving(i) => Serving(i)') /\ (Cleaned(i) => Cleaned(i)')

\* What serves, and what is clean, stays so.
LEMMA WorksBetter ==
    ASSUME NEW w, NEW i, Works(w, i), Serving(i) => Serving(i)', Cleaned(i) => Cleaned(i)'
    PROVE  StackKept /\ PointsKept /\ Better
<1>1. /\ UNCHANGED <<stack, sp>>
      /\ \A j : j # i => (j \in phys' <=> j \in phys)
      /\ DOMAIN rsrc \ {i} \subseteq DOMAIN rsrc' /\ DOMAIN rsrc' \subseteq DOMAIN rsrc
      /\ \A j \in DOMAIN rsrc' : /\ rsrc'[j].name = rsrc[j].name
                                 /\ j # i => Same(rsrc'[j], rsrc[j])
  BY DEF Works, Apartly
<1>2. StackKept /\ PointsKept
  BY <1>1 DEF StackKept, PointsKept
<1> SUFFICES ASSUME NEW j
             PROVE  /\ Serving(j) => Serving(j)' /\ rsrc'[j].name = rsrc[j].name
                    /\ Cleaned(j) => Cleaned(j)'
  BY <1>2 DEF Better
<1>3. CASE j = i
  <2>1. Serving(j)' => j \in DOMAIN rsrc'
    BY DEF Serving
  <2> QED
    BY <1>1, <1>3, <2>1
<1>4. CASE j # i
  BY <1>1, <1>4 DEF Serving, Cleaned, Same
<1> QED
  BY <1>3, <1>4

\* Nothing else is disturbed.
LEMMA WorkKeeps ==
    ASSUME TravInv, SeqInv, OrderInv, stack.live, NEW w \in Checking, NEW i, i = th[w].msg.id,
           Works(w, i), WorksWell(w, i)
    PROVE  OrderInv'
<1>1. /\ w \in Threads /\ w \notin Ops /\ Busy(th[w]) /\ th[w].pc \notin Launching
      /\ th[w].pc \in Checks
  <2>1. w \in Threads /\ th[w].pc \in Checks
    BY DEF Checking
  <2>2. w \in Workers
    BY <2>1 DEF TravInv, WorkersCheck
  <2> QED
    BY <2>1, <2>2, ConvergenceAssumption DEF Busy, Launching, Checks
<1>2. /\ \A v \in Threads : th[v].pc \notin Launching
      /\ ThereInv /\ TmplInv /\ RowInv
  BY <1>1, WhileChecking
<1>3. PICK current \in Currents : CheckInv(current)
  BY <1>1, WhileChecking
<1>4. /\ UNCHANGED <<stack, nextId, sp, casts>>
      /\ \A j : j # i => (j \in phys' <=> j \in phys)
      /\ \A v \in Threads \ {w} : th'[v] = th[v]
      /\ DOMAIN rsrc \ {i} \subseteq DOMAIN rsrc' /\ DOMAIN rsrc' \subseteq DOMAIN rsrc
      /\ \A j \in DOMAIN rsrc' :
            /\ rsrc'[j].name = rsrc[j].name /\ rsrc'[j].replaced_by = rsrc[j].replaced_by
            /\ rsrc'[j].tmpl \in {rsrc[j].tmpl, stack.tmpl}
            /\ j # i => Same(rsrc'[j], rsrc[j])
  BY DEF Works, Apartly
<1>5. StackKept /\ PointsKept /\ Better
  BY WorksBetter DEF WorksWell
<1>6. /\ \A v \in Checking \ {w} : th[v].msg.id # i
      /\ \A m \in Served : m.id # i
  BY <1>2, ApartFrom DEF ThereInv
<1>7. /\ Checking' \subseteq Checking /\ Checking \ {w} \subseteq Checking'
      /\ Served' = Served
  BY <1>1, <1>4, <1>6 DEF Checking, Served
<1>8. Tokens' \subseteq Tokens
  <2> SUFFICES ASSUME NEW x \in Tokens' PROVE x \in Tokens
    OBVIOUS
  <2>1. CASE \E v \in Checking' : x = WorkerToken(v)'
    <3>1. PICK v \in Checking' : x = WorkerToken(v)'
      BY <2>1
    <3>2. v \in Checking
      BY <1>7, <3>1
    <3>3. th'[v].msg = th[v].msg /\ th'[v].rs.name = th[v].rs.name /\ th'[v].rs.replaces = th[v].rs.replaces
      <4>1. CASE v = w
        BY <3>1, <4>1 DEF Works, Checking
      <4>2. CASE v # w
        BY <1>4, <3>1, <4>2 DEF Checking
      <4> QED
        BY <4>1, <4>2
    <3>4. WorkerToken(v)' = WorkerToken(v)
      BY <1>4, <3>3 DEF WorkerToken, Stands
    <3> QED
      BY <3>1, <3>2, <3>4, TokensAre
  <2>2. CASE \E m \in Served' : x = CastToken(m)'
    <3>1. PICK m \in Served : x = CastToken(m)'
      BY <1>7, <2>2
    <3>2. m.id # i /\ m.id \in DOMAIN rsrc'
      BY <1>4, <1>6 DEF Served
    <3>3. /\ rsrc'[m.id].name = rsrc[m.id].name
          /\ rsrc'[m.id].replaces = rsrc[m.id].replaces \/ <<m.id, m.upd>> \in stack.deps.nodes
      BY <1>4, <3>2 DEF Works
    <3>4. CastToken(m)' = CastToken(m)
      BY <1>4, <3>3 DEF CastToken, Stands
    <3> QED
      BY <3>1, <3>4, TokensAre
  <2> QED
    BY <2>1, <2>2, TokensAre, Zenon
<1>9. IdsApart' /\ KeysApart'
  BY <1>2, <1>3, <1>5, <1>8, FewerTokens DEF ThereInv, CheckInv
<1>10. \A v \in Checking \ {w} : (WorkerOK(th[v]) /\ NotThere(th[v])) /\ (WorkerOK(th[v])' /\ NotThere(th[v])')
  <2> SUFFICES ASSUME NEW v \in Checking \ {w}
               PROVE  (WorkerOK(th[v]) /\ NotThere(th[v])) /\ (WorkerOK(th[v])' /\ NotThere(th[v])')
    OBVIOUS
  <2>1. WorkerOK(th[v]) /\ NotThere(th[v])
    BY <1>2 DEF RowInv, ThereInv
  <2>2. th'[v] = th[v] /\ th[v].msg.id # i
    BY <1>4, <1>6 DEF Checking
  <2>3. /\ th[v].msg.id \in DOMAIN rsrc' <=> th[v].msg.id \in DOMAIN rsrc
        /\ th[v].msg.id \in DOMAIN rsrc => Same(rsrc'[th[v].msg.id], rsrc[th[v].msg.id])
        /\ th[v].msg.id \in phys' <=> th[v].msg.id \in phys
    BY <1>4, <2>2
  <2> QED
    BY <1>5, <2>1, <2>2, <2>3, OtherWorkerOK
<1>11. ThereInv'
  <2>1. \A j \in DOMAIN rsrc' : rsrc'[j].action = "INIT" => j \notin phys'
    <3> SUFFICES ASSUME NEW j \in DOMAIN rsrc', rsrc'[j].action = "INIT" PROVE j \notin phys'
      OBVIOUS
    <3>1. CASE j = i
      BY <3>1 DEF WorksWell
    <3>2. CASE j # i
      BY <1>2, <1>4, <3>2 DEF ThereInv, Same
    <3> QED
      BY <3>1, <3>2
  <2>2. \A v \in Checking' : NotThere(th[v])'
    BY <1>7, <1>10 DEF WorksWell
  <2> QED
    BY <1>9, <2>1, <2>2 DEF ThereInv
<1>12. TmplInv' /\ \A v \in Threads : th'[v].pc \notin Launching
  <2>1. \A v \in Threads : th'[v].pc \notin Launching
    BY <1>2, <1>4 DEF Works
  <2>2. \A p \in Ops : th'[p] = th[p]
    BY <1>1, <1>4 DEF Threads
  <2> QED
    BY <1>2, <1>4, <2>1, <2>2, TmplKeeps
<1>13. \A j \in DOMAIN rsrc' : RowOK(j)' /\ ClaimOK(j)'
  <2> SUFFICES ASSUME NEW j \in DOMAIN rsrc' PROVE RowOK(j)' /\ ClaimOK(j)'
    OBVIOUS
  <2>1. CASE j = i
    BY <2>1 DEF WorksWell
  <2>2. CASE j # i
    <3>1. RowOK(j) /\ ClaimOK(j) /\ Same(rsrc'[j], rsrc[j]) /\ th[w].msg.id # j /\ (j \in phys => j \in phys')
      BY <1>2, <1>3, <1>4, <2>2 DEF RowInv, CheckInv
    <3>2. ClaimsLike(rsrc'[j], rsrc[j])
      BY <3>1 DEF Same, ClaimsLike
    <3>3. RowOK(j)'
      BY <1>1, <1>4, <3>1, OtherRowOK
    <3>4. ClaimOK(j)'
      BY <1>5, <3>1, <3>2, ClaimStays
    <3> QED
      BY <3>3, <3>4
  <2> QED
    BY <2>1, <2>2
<1>14. RowInv'
  <2>1. \A v \in Checking' : WorkerOK(th[v])'
    BY <1>7, <1>10 DEF WorksWell
  <2>2. \A m \in Served' : CastOK(m)'
    <3> SUFFICES ASSUME NEW m \in Served PROVE CastOK(m)'
      BY <1>7
    <3>1. Same(rsrc'[m.id], rsrc[m.id]) /\ CastOK(m)
      BY <1>2, <1>4, <1>6 DEF Served, RowInv
    <3> QED
      BY <1>4, <3>1 DEF CastOK, Same
  <2> QED
    BY <1>13, <2>1, <2>2 DEF RowInv
<1>15. ReplacementOK'
  <2> SUFFICES ASSUME NEW m \in Served, <<m.id, m.upd>> \notin stack.deps.nodes
               PROVE  /\ \A j \in DOMAIN rsrc' :
                            rsrc'[j].replaced_by = m.id => j = rsrc'[m.id].replaces
                      /\ \A v \in Checking' :
                            th'[v].rs.replaced_by = m.id => th'[v].msg.id = rsrc'[m.id].replaces
    BY <1>4, <1>7 DEF ReplacementOK
  <2>1. /\ \A j \in DOMAIN rsrc : rsrc[j].replaced_by = m.id => j = rsrc[m.id].replaces
        /\ \A v \in Checking : th[v].rs.replaced_by = m.id => th[v].msg.id = rsrc[m.id].replaces
    BY <1>3 DEF CheckInv, ReplacementOK
  <2>2. rsrc'[m.id].replaces = rsrc[m.id].replaces
    BY <1>6 DEF Works
  <2>3. \A v \in Checking' : th'[v].rs.replaced_by = th[v].rs.replaced_by /\ th'[v].msg = th[v].msg
    BY <1>4 DEF Works, Checking
  <2> QED
    BY <1>4, <1>7, <2>1, <2>2, <2>3
<1>16. \A x \in Tokens' : TokenOK(x, current)'
  <2> SUFFICES ASSUME NEW x \in Tokens' PROVE TokenOK(x, current)'
    OBVIOUS
  <2>1. TokenOK(x, current) /\ Like(x, x)
    BY <1>3, <1>8 DEF CheckInv, Like
  <2> QED
    BY <1>5, <2>1, TokenStays, Zenon
<1>17. DOMAIN sp' # {} => PointsOK(current)'
  BY <1>3, <1>4, <1>5, PointsStayOK DEF CheckInv
<1>18. GraphOK(stack.deps, stack.tmpl, current)' /\ NamesOK(stack.tmpl, current)'
  BY <1>3, <1>4, Zenon DEF CheckInv, GraphOK, NamesOK, Ids
<1>19. CheckInv(current)'
  BY <1>9, <1>13, <1>15, <1>16, <1>17, <1>18 DEF CheckInv
<1>20. current \in Currents' /\ stack'.live
  BY <1>4 DEF Currents, Ids
<1> QED
  BY <1>11, <1>12, <1>14, <1>19, <1>20, ChecksGoOn

\* What a check may rely on.
Knows(w, i) ==
    /\ WorkerOK(th[w]) /\ NotThere(th[w])
    /\ i \in DOMAIN rsrc =>
          RowOK(i) /\ ClaimOK(i) /\ (rsrc[i].action = "INIT" => i \notin phys)
    /\ \A v \in Threads \ {w} : th[v].pc \in Checks => th[v].msg.id # i
    /\ th[w].st.tmpl = stack.tmpl /\ th[w].st.live
    /\ th[w].msg.upd =>
          /\ \A j \in Reports(th[w]) : Serving(j)
          /\ DOMAIN sp # {} /\ <<i, TRUE>> \in stack.deps.nodes => Ready(<<i, TRUE>>)

\* ... every check does.
LEMMA CheckKnows ==
    ASSUME SeqInv, OrderInv, stack.live, NEW w \in Threads, th[w].pc \in Checks,
           NEW i, i = th[w].msg.id
    PROVE  w \in Checking /\ Knows(w, i)
<1>1. w \in Checking /\ Busy(th[w]) /\ th[w].pc \notin Launching
  BY DEF Checking, Busy, Launching, Checks
<1>2. ThereInv /\ RowInv
  BY <1>1, WhileChecking
<1>3. PICK current \in Currents : CheckInv(current)
  BY <1>1, WhileChecking
<1>4. \A v \in Threads \ {w} : th[v].pc \in Checks => th[v].msg.id # i
  BY <1>1, <1>2, ApartFrom DEF ThereInv, Checking
<1>5. th[w].st.tmpl = stack.tmpl /\ th[w].st.live
  BY <1>1 DEF SeqInv, Serves
<1>6. ASSUME th[w].msg.upd
      PROVE  /\ \A j \in Reports(th[w]) : Serving(j)
             /\ DOMAIN sp # {} /\ <<i, TRUE>> \in stack.deps.nodes => Ready(<<i, TRUE>>)
  <2> DEFINE x == WorkerToken(w)
  <2>1. /\ x \in Tokens /\ x.upd = th[w].msg.upd /\ x.data = th[w].msg.data
        /\ x.key = Stands(i, th[w].msg.upd, th[w].rs.replaces)
    BY <1>1, TokensAre
  <2> HIDE DEF x
  <2>2. TokenOK(x, current)
    BY <1>3, <2>1 DEF CheckInv
  <2>3. DataOK(th[w].msg.data, current) /\ (DOMAIN sp # {} => Ready(x.key))
    BY <1>6, <2>1, <2>2, Zenon DEF TokenOK
  <2>4. \A j \in Reports(th[w]) : Serving(j)
    BY <2>3, Zenon DEF DataOK, Reports
  <2>5. <<i, TRUE>> \in stack.deps.nodes => x.key = <<i, TRUE>>
    BY <1>6, <2>1, th[w].msg.upd = TRUE DEF Stands
  <2> QED
    BY <2>3, <2>4, <2>5, Zenon
<1> QED
  BY <1>1, <1>2, <1>3, <1>4, <1>5, <1>6 DEF Knows, RowInv, ThereInv, CheckInv

\* A check that writes its row.
LEMMA LocalWorks ==
    ASSUME NEW w, NEW i, Apartly(i), \A v \in Threads \ {w} : th'[v] = th[v],
           th'[w].pc \notin Launching,
           th'[w].pc \in Checks =>
              /\ th'[w].msg = th[w].msg /\ th'[w].rs.name = th[w].rs.name
              /\ th'[w].rs.replaces = th[w].rs.replaces
              /\ th'[w].rs.replaced_by = th[w].rs.replaced_by,
           DOMAIN rsrc' = DOMAIN rsrc, \A j \in DOMAIN rsrc \ {i} : rsrc'[j] = rsrc[j],
           i \in DOMAIN rsrc =>
              /\ rsrc'[i].name = rsrc[i].name /\ rsrc'[i].replaced_by = rsrc[i].replaced_by
              /\ rsrc'[i].tmpl \in {rsrc[i].tmpl, stack.tmpl}
    PROVE  Works(w, i)
<1>1. \A a : Same(a, a)
  BY DEF Same
<1> QED
  BY <1>1 DEF Works, Served

\* A check that leaves its row alone.
LEMMA RowLeft ==
    ASSUME NEW w \in Threads, NEW i, Works(w, i), Knows(w, i), UNCHANGED rsrc,
           i \in phys' <=> i \in phys, ~(ActsOn(th[w], i) \/ th[w].pc = "destroy")
    PROVE  /\ i \in DOMAIN rsrc' =>
                 (rsrc'[i].action = "INIT" => i \notin phys') /\ RowOK(i)' /\ ClaimOK(i)'
           /\ (Serving(i) => Serving(i)') /\ (Cleaned(i) => Cleaned(i)')
<1>1. (Serving(i) => Serving(i)') /\ (Cleaned(i) => Cleaned(i)')
  BY DEF Serving, Cleaned, Works, Apartly
<1>2. Same(rsrc'[i], rsrc[i]) /\ ClaimsLike(rsrc'[i], rsrc[i])
  BY DEF Same, ClaimsLike
<1>3. ASSUME i \in DOMAIN rsrc
      PROVE  (rsrc'[i].action = "INIT" => i \notin phys') /\ RowOK(i)' /\ ClaimOK(i)'
  <2>1. RowOK(i) /\ ClaimOK(i) /\ (rsrc[i].action = "INIT" => i \notin phys)
    BY <1>3 DEF Knows
  <2>2. RowOK(i)'
    BY <1>2, <2>1, OtherRowOK DEF Works
  <2>3. ClaimOK(i)'
    BY <1>1, <1>2, <2>1, ClaimStays, WorksBetter
  <2> QED
    BY <2>1, <2>2, <2>3
<1> QED
  BY <1>1, <1>3

\* A row that is claimed for the current template.
LEMMA RowClaimed ==
    ASSUME NEW w \in Threads, NEW i, i = th[w].msg.id, Works(w, i), Knows(w, i), th[w].msg.upd,
           NEW R, R = Reports(th[w]),
           rsrc'[i].tmpl = stack.tmpl, rsrc'[i].requires = R, rsrc'[i].replaced_by = None
    PROVE  ClaimOK(i)'
<1>1. UNCHANGED <<stack, sp>>
  BY DEF Works, Apartly
<1>2. Cleaned(i)'
  BY <1>1 DEF Cleaned
<1>3. \A j \in R : Cleaned(j)'
  <2> SUFFICES ASSUME NEW j \in R PROVE Cleaned(j)'
    OBVIOUS
  <2>1. Serving(j)
    BY DEF Knows
  <2>2. CASE j # i
    BY <1>1, <2>1, <2>2 DEF Serving, Cleaned, Works, Same
  <2> QED
    BY <1>2, <2>2
<1>4. DOMAIN sp' # {} /\ <<i, TRUE>> \in stack'.deps.nodes => Ready(<<i, TRUE>>)'
  BY <1>1, Zenon DEF Knows, Ready, Points
<1> QED
  BY <1>1, <1>3, <1>4, Zenon DEF ClaimOK, Covered

\* _acquire() reads the row, or the lock of somebody else stays.
LEMMA LooksKeep ==
    ASSUME TravInv, SeqInv, OrderInv, stack.live, NEW w \in Threads, AcquireRead(w) \/ TrySteal(w)
    PROVE  OrderInv'
<1>1. PICK i : i = th[w].msg.id
  OBVIOUS
<1>2. /\ th[w].pc \in {"acquire", "in_progress"} /\ Apartly(i) /\ UNCHANGED <<rsrc, phys>>
      /\ Gone(w) \/ (th[w].pc = "acquire" /\ Becomes(w, "cas", th[w].st, th[w].rs, th[w].out))
  BY <1>1, AcquireReadDoes, TryStealDoes DEF TravInv, SeqInv
<1>3. w \in Checking /\ Knows(w, i)
  BY <1>1, <1>2, CheckKnows DEF Checks
<1>4. /\ \A v \in Threads \ {w} : th'[v] = th[v]
      /\ th'[w].pc \in {"idle", "finished", "cas"}
      /\ th'[w].pc = "cas" => th[w].pc = "acquire" /\ th'[w].msg = th[w].msg /\ th'[w].rs = th[w].rs
  BY <1>2 DEF Gone, Returned, Becomes
<1>5. Works(w, i)
  BY <1>2, <1>4, LocalWorks DEF Checks, Launching
<1>6. w \in Checking' => NotThere(th[w])' /\ WorkerOK(th[w])'
  <2> SUFFICES ASSUME w \in Checking' PROVE NotThere(th[w])' /\ WorkerOK(th[w])'
    OBVIOUS
  <2>1. th'[w].pc = "cas" /\ th[w].pc = "acquire" /\ UNCHANGED stack
    BY <1>2, <1>4 DEF Checking, Checks, Apartly
  <2>2. NotThere(th[w]) /\ LoadedOK(th[w])
    BY <1>3, <2>1 DEF Knows, WorkerOK, Loaded
  <2> QED
    BY <1>2, <1>4, <2>1, <2>2 DEF NotThere, WorkerOK, Loaded, LoadedOK
<1>7. ~(ActsOn(th[w], i) \/ th[w].pc = "destroy")
  BY <1>2 DEF ActsOn
<1>8. WorksWell(w, i)
  BY <1>2, <1>3, <1>5, <1>6, <1>7, RowLeft DEF WorksWell
<1> QED
  BY <1>1, <1>3, <1>5, <1>8, WorkKeeps

\* _acquire() takes the row.
LEMMA AcquireKeepsOrder ==
    ASSUME TravInv, SeqInv, OrderInv, stack.live, NEW w \in Threads, Acquire(w)
    PROVE  OrderInv'
<1>1. PICK i : i = th[w].msg.id
  OBVIOUS
<1>2. /\ th[w].pc = "cas" /\ Apartly(i) /\ UNCHANGED phys /\ RowSays(i, rsrc[i])
      /\ \E pc \in {"begin", "in_progress"} : Becomes(w, pc, th[w].st, th[w].rs, th[w].out)
  BY <1>1, AcquireDoes DEF TravInv
<1>3. w \in Checking /\ Knows(w, i)
  BY <1>1, <1>2, CheckKnows DEF Checks
<1>4. /\ \A v \in Threads \ {w} : th'[v] = th[v]
      /\ th'[w].pc \in {"begin", "in_progress"} /\ th'[w].msg = th[w].msg /\ th'[w].rs = th[w].rs
  BY <1>2 DEF Becomes
<1>5. /\ DOMAIN rsrc' = DOMAIN rsrc /\ \A j \in DOMAIN rsrc \ {i} : rsrc'[j] = rsrc[j]
      /\ i \in DOMAIN rsrc => Same(rsrc'[i], rsrc[i])
  BY <1>2 DEF RowSays
<1>6. Works(w, i)
  BY <1>2, <1>4, <1>5, LocalWorks DEF Launching, Same
<1>7. UNCHANGED stack
  BY <1>2 DEF Apartly
<1>8. NotThere(th[w]) /\ LoadedOK(th[w])
  BY <1>2, <1>3, SMTT(20) DEF Knows, WorkerOK, Loaded
<1>9. NotThere(th[w])' /\ WorkerOK(th[w])'
  BY <1>1, <1>2, <1>4, <1>5, <1>7, <1>8 DEF NotThere, WorkerOK, Loaded, LoadedOK, Same
<1>10. (Serving(i) => Serving(i)') /\ (Cleaned(i) => Cleaned(i)')
  BY <1>2, <1>5, <1>7 DEF Serving, Cleaned, Same
<1>11. ASSUME i \in DOMAIN rsrc
       PROVE  (rsrc'[i].action = "INIT" => i \notin phys') /\ RowOK(i)' /\ ClaimOK(i)'
  <2>1. RowOK(i) /\ ClaimOK(i) /\ (rsrc[i].action = "INIT" => i \notin phys) /\ Same(rsrc'[i], rsrc[i])
    BY <1>3, <1>5, <1>11 DEF Knows
  <2>2. RowOK(i)'
    BY <1>2, <1>4, <2>1, OtherRowOK DEF ActsOn
  <2>3. ClaimsLike(rsrc'[i], rsrc[i]) /\ (rsrc'[i].action = "INIT" => i \notin phys')
    BY <1>2, <2>1 DEF Same, ClaimsLike
  <2>4. ClaimOK(i)'
    BY <1>6, <1>10, <2>1, <2>3, ClaimStays, WorksBetter
  <2> QED
    BY <2>2, <2>3, <2>4
<1>12. WorksWell(w, i)
  BY <1>5, <1>9, <1>10, <1>11 DEF WorksWell
<1> QED
  BY <1>1, <1>3, <1>6, <1>12, WorkKeeps

\* What a check knows of its row when it begins.
LEMMA BeginKnows ==
    ASSUME TravInv, SeqInv, NEW w \in Threads, th[w].pc = "begin", NEW i, i = th[w].msg.id,
           Knows(w, i)
    PROVE  /\ i \in DOMAIN rsrc /\ Same(rsrc[i], th[w].rs) /\ rsrc[i].status \in {"COMPLETE", "FAILED"}
           /\ RowOK(i) /\ ClaimOK(i) /\ th[w].rs \in Rows
           /\ th[w].rs.action = "INIT" => i \notin phys
           /\ th[w].msg.upd =>
                 /\ th[w].rs.replaced_by = None
                 /\ th[w].rs.tmpl = stack.tmpl => th[w].rs.action = "INIT"
           /\ <<i, th[w].msg.upd>> \notin stack.deps.nodes => th[w].rs.action = "INIT"
           /\ /\ rsrc[i].status = "COMPLETE" /\ rsrc[i].action # "INIT"
              /\ rsrc[i].replaced_by = None
              => i \in phys
<1>1. LoadedOK(th[w])
  BY DEF Knows, WorkerOK, Loaded
<1>2. /\ i \in DOMAIN rsrc /\ Same(rsrc[i], th[w].rs)
      /\ th[w].msg.upd => /\ th[w].rs.replaced_by = None
                          /\ th[w].rs.tmpl = stack.tmpl => th[w].rs.action = "INIT"
      /\ <<i, th[w].msg.upd>> \notin stack.deps.nodes => th[w].rs.action = "INIT"
  BY <1>1 DEF LoadedOK
<1>3. RowOK(i) /\ ClaimOK(i) /\ (rsrc[i].action = "INIT" => i \notin phys)
  BY <1>2 DEF Knows
<1>4. /\ \A v \in Threads : ~ActsOn(th[v], i)
      /\ \A v \in Threads : ~(th[v].pc = "destroy" /\ th[v].msg.id = i)
  BY DEF Knows, ActsOn, Checks
<1>5. rsrc[i] \in Rows /\ th[w].rs \in Rows
  BY <1>2, ThreadFields DEF TravInv, TypeOK, Checks
<1> QED
  BY <1>2, <1>3, <1>4, <1>5 DEF RowOK, Same, Rows, Statuses

\* It starts an action.
LEMMA StartKeeps ==
    ASSUME TravInv, SeqInv, OrderInv, stack.live, NEW w \in Threads, th[w].pc = "begin",
           NEW i, i = th[w].msg.id, Apartly(i), UNCHANGED phys,
           NEW r, NEW action \in {"CREATE", "UPDATE", "DELETE"}, NEW tmpl, NEW requires,
           Variant(r, th[w].rs, action, "IN_PROGRESS", tmpl, requires), RowSays(i, r),
           Becomes(w, "handler", th[w].st, r, th[w].out),
           HandlerOK(th[w])', action = "CREATE" => i \notin phys,
           th[w].rs.action = "INIT" \/ th[w].rs.tmpl # stack.tmpl,
           \/ th[w].msg.upd /\ tmpl = stack.tmpl /\ requires = Reports(th[w])
           \/ th[w].rs.action # "INIT" /\ tmpl = th[w].rs.tmpl /\ requires = th[w].rs.requires
    PROVE  OrderInv'
<1>1. w \in Checking /\ Knows(w, i)
  BY CheckKnows DEF Checks
<1>2. /\ i \in DOMAIN rsrc /\ Same(rsrc[i], th[w].rs) /\ ClaimOK(i)
      /\ th[w].msg.upd => th[w].rs.replaced_by = None
  BY <1>1, BeginKnows, Zenon
<1>3. /\ \A v \in Threads \ {w} : th'[v] = th[v]
      /\ th'[w].pc = "handler" /\ th'[w].msg = th[w].msg /\ th'[w].rs = r
      /\ r.name = th[w].rs.name /\ r.replaces = th[w].rs.replaces
      /\ r.replaced_by = th[w].rs.replaced_by /\ r.action = action /\ r.tmpl = tmpl
      /\ r.requires = requires /\ r.status = "IN_PROGRESS"
  BY DEF Becomes, Variant
<1>4. /\ DOMAIN rsrc' = DOMAIN rsrc /\ \A j \in DOMAIN rsrc \ {i} : rsrc'[j] = rsrc[j]
      /\ Same(rsrc'[i], r) /\ UNCHANGED stack
  BY <1>2 DEF RowSays, Apartly
<1>5. /\ rsrc'[i].name = rsrc[i].name /\ rsrc'[i].replaced_by = rsrc[i].replaced_by
      /\ rsrc'[i].tmpl = tmpl /\ rsrc'[i].requires = requires /\ rsrc'[i].action = action
      /\ rsrc'[i].status = "IN_PROGRESS" /\ tmpl \in {rsrc[i].tmpl, stack.tmpl}
      /\ rsrc[i].action = th[w].rs.action /\ rsrc[i].tmpl = th[w].rs.tmpl
      /\ rsrc[i].requires = th[w].rs.requires
      /\ th[w].msg.upd => rsrc'[i].replaced_by = None
  BY <1>2, <1>3, <1>4, SMTT(20) DEF Same
<1>6. Works(w, i)
  BY <1>3, <1>4, <1>5, LocalWorks DEF Launching
<1>7. NotThere(th[w])' /\ WorkerOK(th[w])'
  BY <1>3 DEF NotThere, WorkerOK, Loaded
<1>8. (Serving(i) => Serving(i)') /\ (Cleaned(i) => Cleaned(i)')
  BY <1>4, <1>5 DEF Serving, Cleaned
<1>9. ClaimOK(i)'
  <2>1. CASE th[w].msg.upd /\ tmpl = stack.tmpl /\ requires = Reports(th[w])
    BY <1>1, <1>5, <1>6, <2>1, RowClaimed
  <2>2. CASE th[w].rs.action # "INIT" /\ tmpl = th[w].rs.tmpl /\ requires = th[w].rs.requires
    <3>1. ClaimsLike(rsrc'[i], rsrc[i])
      BY <1>5, <2>2 DEF ClaimsLike
    <3> QED
      BY <1>2, <1>6, <1>8, <3>1, ClaimStays, WorksBetter
  <2> QED
    BY <2>1, <2>2
<1>10. RowOK(i)'
  <2>1. ActsOn(th[w], i)'
    BY <1>3 DEF ActsOn
  <2> QED
    BY <1>5, <2>1 DEF RowOK
<1>11. WorksWell(w, i)
  BY <1>5, <1>7, <1>8, <1>9, <1>10 DEF WorksWell
<1> QED
  BY <1>1, <1>6, <1>11, WorkKeeps

\* It has nothing to do.
LEMMA SkipKeeps ==
    ASSUME TravInv, SeqInv, OrderInv, stack.live, NEW w \in Threads, th[w].pc = "begin",
           NEW i, i = th[w].msg.id, Apartly(i), UNCHANGED <<rsrc, phys>>,
           NEW r, NEW pc \in {"release", "destroy"}, NEW out, Becomes(w, pc, th[w].st, r, out),
           r.name = th[w].rs.name, r.replaces = th[w].rs.replaces,
           r.replaced_by = th[w].rs.replaced_by, WorkerOK(th[w])'
    PROVE  OrderInv'
<1>1. w \in Checking /\ Knows(w, i)
  BY CheckKnows DEF Checks
<1>2. /\ \A v \in Threads \ {w} : th'[v] = th[v]
      /\ th'[w].pc = pc /\ th'[w].msg = th[w].msg /\ th'[w].rs = r
  BY DEF Becomes
<1>3. Works(w, i)
  BY <1>2, LocalWorks DEF Launching
<1>4. NotThere(th[w])'
  BY <1>2 DEF NotThere, Loaded
<1>5. WorksWell(w, i)
  BY <1>1, <1>3, <1>4, RowLeft DEF WorksWell, ActsOn
<1> QED
  BY <1>1, <1>3, <1>5, WorkKeeps

\* It creates a resource, ...
LEMMA BeginsCreateKeeps ==
    ASSUME TravInv, SeqInv, OrderInv, stack.live, NEW w \in Threads, th[w].pc = "begin",
           Apartly(th[w].msg.id), UNCHANGED phys, BeginsCreate(w)
    PROVE  OrderInv'
<1>1. PICK i : i = th[w].msg.id
  OBVIOUS
<1>2. w \in Checking /\ Knows(w, i)
  BY <1>1, CheckKnows DEF Checks
<1>3. /\ i \in DOMAIN rsrc /\ Same(rsrc[i], th[w].rs)
      /\ th[w].rs.action = "INIT" => i \notin phys
      /\ th[w].msg.upd => th[w].rs.replaced_by = None
  BY <1>1, <1>2, BeginKnows, Zenon
<1>4. th[w].msg.upd /\ th[w].rs.action = "INIT" /\ th[w].rs.status = "COMPLETE"
  BY <1>2 DEF BeginsCreate, SeqInv, InitIsClean, Checking
<1>5. PICK r : /\ Variant(r, th[w].rs, "CREATE", "IN_PROGRESS", th[w].st.tmpl, Reports(th[w]))
               /\ RowSays(i, r) /\ Becomes(w, "handler", th[w].st, r, th[w].out)
  BY <1>1, <1>4 DEF BeginsCreate
<1>6. HandlerOK(th[w])'
  <2>1. /\ th'[w].msg = th[w].msg /\ th'[w].rs = r /\ stack' = stack
        /\ r.status = "IN_PROGRESS" /\ r.action = "CREATE" /\ r.tmpl = stack.tmpl
        /\ r.requires = Reports(th[w]) /\ r.replaced_by = None
    BY <1>2, <1>3, <1>4, <1>5 DEF Becomes, Variant, Apartly, Knows
  <2>2. i \in DOMAIN rsrc' /\ Same(rsrc'[i], r)
    BY <1>3, <1>5 DEF RowSays
  <2> QED
    BY <1>1, <1>4, <2>1, <2>2 DEF HandlerOK, Reports
<1>7. th[w].st.tmpl = stack.tmpl
  BY <1>2 DEF Knows
<1> QED
  BY <1>1, <1>3, <1>4, <1>5, <1>6, <1>7, StartKeeps

\* ... updates it, or finds that it need not or cannot be updated, ...
LEMMA BeginsUpdateKeeps ==
    ASSUME TravInv, SeqInv, OrderInv, stack.live, NEW w \in Threads, th[w].pc = "begin",
           Apartly(th[w].msg.id), UNCHANGED phys, BeginsUpdate(w)
    PROVE  OrderInv'
<1>1. PICK i : i = th[w].msg.id
  OBVIOUS
<1>2. Knows(w, i) /\ UNCHANGED stack
  BY <1>1, CheckKnows DEF Checks, Apartly
<1>3. /\ i \in DOMAIN rsrc /\ Same(rsrc[i], th[w].rs) /\ th[w].msg.upd /\ th[w].rs.action # "INIT"
      /\ th[w].rs.replaced_by = None /\ th[w].rs.tmpl # stack.tmpl
      /\ <<i, TRUE>> \in stack.deps.nodes
      /\ rsrc[i].status = th[w].rs.status /\ rsrc[i].status \in {"COMPLETE", "FAILED"}
      /\ rsrc[i].status = "COMPLETE" => i \in phys
      /\ th[w].st.tmpl = stack.tmpl
  <2>1. th[w].msg.upd /\ th[w].rs.action # "INIT"
    BY DEF BeginsUpdate
  <2>2. th[w].msg \in Msgs
    BY ThreadFields DEF TravInv, Checks
  <2>3. th[w].msg.upd = TRUE
    BY <2>1, <2>2 DEF Msgs
  <2>4. /\ i \in DOMAIN rsrc /\ Same(rsrc[i], th[w].rs) /\ rsrc[i].status \in {"COMPLETE", "FAILED"}
        /\ th[w].rs.replaced_by = None /\ (th[w].rs.tmpl = stack.tmpl => th[w].rs.action = "INIT")
        /\ <<i, th[w].msg.upd>> \notin stack.deps.nodes => th[w].rs.action = "INIT"
        /\ /\ rsrc[i].status = "COMPLETE" /\ rsrc[i].action # "INIT" /\ rsrc[i].replaced_by = None
           => i \in phys
    BY <1>1, <1>2, <2>1, BeginKnows, Zenon
  <2>5. th[w].st.tmpl = stack.tmpl
    BY <1>2 DEF Knows
  <2> QED
    BY <2>1, <2>3, <2>4, <2>5 DEF Same
<1>4. CASE /\ th[w].rs.status = "FAILED" /\ UNCHANGED rsrc
           /\ Becomes(w, "release", th[w].st, th[w].rs, "replace")
  <2>1. /\ th'[w].msg = th[w].msg /\ th'[w].rs = th[w].rs /\ th'[w].pc = "release"
        /\ th'[w].out = "replace"
    BY <1>4 DEF Becomes
  <2>2. ReleaseOK(th[w])'
    BY <1>1, <1>2, <1>3, <1>4, <2>1 DEF ReleaseOK, Same
  <2>3. WorkerOK(th[w])'
    BY <2>1, <2>2 DEF WorkerOK, Loaded
  <2> QED
    BY <1>1, <1>4, <2>3, SkipKeeps, Zenon
<1>5. ASSUME th[w].rs.status # "FAILED", UNCHANGED rsrc,
             NEW r, Variant(r, th[w].rs, th[w].rs.action, th[w].rs.status, th[w].st.tmpl, Reports(th[w])),
             Becomes(w, "release", th[w].st, r, "done")
      PROVE  OrderInv'
  <2>1. /\ th'[w].msg = th[w].msg /\ th'[w].rs = r /\ th'[w].pc = "release"
        /\ th'[w].out = "done"
        /\ r.tmpl = stack.tmpl /\ r.requires = Reports(th[w]) /\ r.name = th[w].rs.name
        /\ r.replaces = th[w].rs.replaces /\ r.replaced_by = th[w].rs.replaced_by
    BY <1>3, <1>5 DEF Becomes, Variant
  <2>2. ReleaseOK(th[w])'
    BY <1>1, <1>2, <1>3, <1>5, <2>1 DEF ReleaseOK, Same, Reports
  <2>3. WorkerOK(th[w])'
    BY <2>1, <2>2 DEF WorkerOK, Loaded
  <2> QED
    BY <1>1, <1>5, <2>1, <2>3, SkipKeeps, Zenon
<1>6. ASSUME th[w].rs.status # "FAILED",
             NEW r, Variant(r, th[w].rs, "UPDATE", "IN_PROGRESS", th[w].rs.tmpl, th[w].rs.requires),
             RowSays(i, r), Becomes(w, "handler", th[w].st, r, th[w].out)
      PROVE  OrderInv'
  <2>1. HandlerOK(th[w])'
    <3>1. /\ th'[w].msg = th[w].msg /\ th'[w].rs = r
          /\ r.status = "IN_PROGRESS" /\ r.action = "UPDATE" /\ r.tmpl # stack.tmpl
          /\ r.replaced_by = None /\ i \in phys'
      BY <1>3, <1>6 DEF Becomes, Variant
    <3>2. i \in DOMAIN rsrc' /\ Same(rsrc'[i], r)
      BY <1>3, <1>6 DEF RowSays
    <3> QED
      BY <1>1, <1>2, <1>3, <3>1, <3>2 DEF HandlerOK
  <2> QED
    BY <1>1, <1>3, <1>6, <2>1, StartKeeps, Zenon
<1> QED
  BY <1>1, <1>4, <1>5, <1>6 DEF BeginsUpdate

\* ... or cleans it up, unless it has to stay or there is nothing left.
LEMMA BeginsCleanupKeeps ==
    ASSUME TravInv, SeqInv, OrderInv, stack.live, NEW w \in Threads, th[w].pc = "begin",
           Apartly(th[w].msg.id), UNCHANGED phys, BeginsCleanup(w)
    PROVE  OrderInv'
<1>1. PICK i : i = th[w].msg.id
  OBVIOUS
<1>2. Knows(w, i) /\ UNCHANGED stack
  BY <1>1, CheckKnows DEF Checks, Apartly
<1>3. /\ i \in DOMAIN rsrc /\ Same(rsrc[i], th[w].rs) /\ ~th[w].msg.upd
      /\ th[w].st.tmpl = stack.tmpl
  BY <1>1, <1>2, BeginKnows, Zenon DEF BeginsCleanup, Knows
<1>4. CASE /\ th[w].rs.tmpl = th[w].st.tmpl /\ UNCHANGED rsrc
           /\ Becomes(w, "release", th[w].st, th[w].rs, "done")
  <2>1. /\ th'[w].msg = th[w].msg /\ th'[w].rs = th[w].rs /\ th'[w].pc = "release"
        /\ th'[w].out = "done"
    BY <1>4 DEF Becomes
  <2>2. ReleaseOK(th[w])'
    BY <1>1, <1>2, <1>3, <1>4, <2>1 DEF ReleaseOK, Same
  <2>3. WorkerOK(th[w])'
    BY <2>1, <2>2 DEF WorkerOK, Loaded
  <2> QED
    BY <1>1, <1>4, <2>3, SkipKeeps, Zenon
<1>5. CASE /\ th[w].rs.tmpl # th[w].st.tmpl /\ UNCHANGED rsrc
           /\ Becomes(w, "destroy", th[w].st, th[w].rs, th[w].out)
  <2>1. th'[w].msg = th[w].msg /\ th'[w].rs = th[w].rs /\ th'[w].pc = "destroy"
    BY <1>5 DEF Becomes
  <2>2. rsrc'[i].tmpl # stack'.tmpl
    BY <1>2, <1>3, <1>5 DEF Same
  <2>3. WorkerOK(th[w])'
    BY <1>1, <1>3, <2>1, <2>2 DEF WorkerOK, Loaded
  <2> QED
    BY <1>1, <1>5, <2>3, SkipKeeps
<1>6. ASSUME th[w].rs.tmpl # th[w].st.tmpl, ~nothing_to_delete(th[w].rs),
             NEW r, Variant(r, th[w].rs, "DELETE", "IN_PROGRESS", th[w].rs.tmpl, th[w].rs.requires),
             RowSays(i, r), Becomes(w, "handler", th[w].st, r, th[w].out)
      PROVE  OrderInv'
  <2>1. HandlerOK(th[w])'
    <3>1. /\ th'[w].msg = th[w].msg /\ th'[w].rs = r
          /\ r.status = "IN_PROGRESS" /\ r.action = "DELETE" /\ r.tmpl # stack.tmpl
      BY <1>3, <1>6 DEF Becomes, Variant
    <3>2. i \in DOMAIN rsrc' /\ Same(rsrc'[i], r)
      BY <1>3, <1>6 DEF RowSays
    <3> QED
      BY <1>1, <1>2, <1>3, <3>1, <3>2 DEF HandlerOK
  <2>2. th[w].rs.action # "INIT"
    BY <1>6 DEF nothing_to_delete
  <2> QED
    BY <1>1, <1>3, <1>6, <2>1, <2>2, StartKeeps, Zenon
<1> QED
  BY <1>1, <1>4, <1>5, <1>6 DEF BeginsCleanup

\* Whatever it finds to do.
LEMMA BeginKeepsOrder ==
    ASSUME TravInv, SeqInv, OrderInv, stack.live, NEW w \in Threads,
           BeginCreate(w) \/ BeginUpdate(w) \/ BeginCleanup(w)
    PROVE  OrderInv'
<1>1. TypeOK
  BY DEF TravInv
<1>2. /\ th[w].pc = "begin" /\ Apartly(th[w].msg.id) /\ UNCHANGED phys
      /\ BeginsCreate(w) \/ BeginsUpdate(w) \/ BeginsCleanup(w)
  BY <1>1, BeginDoes
<1> QED
  BY <1>2, BeginsCreateKeeps, BeginsUpdateKeeps, BeginsCleanupKeeps

\* What a check knows of its row while it acts.
LEMMA HandlerKnows ==
    ASSUME TravInv, SeqInv, NEW w \in Threads, th[w].pc = "handler", NEW i, i = th[w].msg.id,
           Knows(w, i)
    PROVE  /\ i \in DOMAIN rsrc /\ Same(rsrc[i], th[w].rs) /\ th[w].rs.status = "IN_PROGRESS"
           /\ th[w].rs.action # "INIT" /\ ClaimOK(i) /\ HandlerOK(th[w])
           /\ th[w].st.tmpl = stack.tmpl
<1>1. HandlerOK(th[w]) /\ th[w].st.tmpl = stack.tmpl
  BY DEF Knows, WorkerOK
<1>2. i \in DOMAIN rsrc /\ Same(rsrc[i], th[w].rs) /\ th[w].rs.status = "IN_PROGRESS"
  BY <1>1 DEF HandlerOK
<1>3. th[w].rs.action # "INIT"
  BY DEF SeqInv, InitIsClean
<1> QED
  BY <1>1, <1>2, <1>3 DEF Knows

\* The action ends one way or another.
LEMMA HandlerKeeps ==
    ASSUME TravInv, SeqInv, OrderInv, stack.live, NEW w \in Threads, th[w].pc = "handler",
           NEW i, i = th[w].msg.id, Apartly(i),
           NEW status \in {"COMPLETE", "FAILED"}, NEW a, RowSays(i, a),
           Variant(a, th[w].rs, th[w].rs.action, status, th[w].rs.tmpl, th[w].rs.requires),
           NEW pc \in {"release", "destroy"}, NEW r, NEW out, Becomes(w, pc, th[w].st, r, out),
           r.name = th[w].rs.name, r.replaces = th[w].rs.replaces,
           r.replaced_by = th[w].rs.replaced_by,
           status = "COMPLETE" => i \in phys' \/ pc = "destroy",
           WorkerOK(th[w])'
    PROVE  OrderInv'
<1>1. w \in Checking /\ Knows(w, i)
  BY CheckKnows DEF Checks
<1>2. /\ i \in DOMAIN rsrc /\ Same(rsrc[i], th[w].rs) /\ th[w].rs.status = "IN_PROGRESS"
      /\ th[w].rs.action # "INIT" /\ ClaimOK(i)
  BY <1>1, HandlerKnows
<1>3. /\ \A v \in Threads \ {w} : th'[v] = th[v]
      /\ th'[w].pc = pc /\ th'[w].msg = th[w].msg /\ th'[w].rs = r
  BY DEF Becomes
<1>4. /\ DOMAIN rsrc' = DOMAIN rsrc /\ \A j \in DOMAIN rsrc \ {i} : rsrc'[j] = rsrc[j]
      /\ Same(rsrc'[i], a) /\ UNCHANGED stack
  BY <1>2 DEF RowSays, Apartly
<1>5. /\ rsrc'[i].name = rsrc[i].name /\ rsrc'[i].replaced_by = rsrc[i].replaced_by
      /\ rsrc'[i].tmpl = rsrc[i].tmpl /\ rsrc'[i].requires = rsrc[i].requires
      /\ rsrc'[i].action = rsrc[i].action /\ rsrc'[i].status = status
      /\ rsrc[i].action # "INIT" /\ rsrc[i].status = "IN_PROGRESS"
  BY <1>2, <1>4, SMTT(20) DEF Same, Variant
<1>6. Works(w, i)
  BY <1>3, <1>4, <1>5, LocalWorks DEF Launching
<1>7. NotThere(th[w])'
  BY <1>3, SMTT(20) DEF NotThere, Loaded
<1>8. (Serving(i) => Serving(i)') /\ (Cleaned(i) => Cleaned(i)')
  BY <1>4, <1>5 DEF Serving, Cleaned
<1>9. ClaimsLike(rsrc'[i], rsrc[i])
  BY <1>5 DEF ClaimsLike
<1>10. ClaimOK(i)'
  BY <1>2, <1>6, <1>8, <1>9, ClaimStays, WorksBetter, SMTT(20)
<1>11. RowOK(i)'
  BY <1>3, <1>5 DEF RowOK
<1>12. WorksWell(w, i)
  BY <1>5, <1>7, <1>8, <1>10, <1>11 DEF WorksWell
<1> QED
  BY <1>1, <1>6, <1>12, WorkKeeps

\* The action turns out to need a replacement.
LEMMA UpdateReplaceKeeps ==
    ASSUME TravInv, SeqInv, OrderInv, stack.live, NEW w \in Threads, th[w].pc = "handler",
           NEW i, i = th[w].msg.id, Apartly(i), UNCHANGED <<rsrc, phys>>, th[w].rs.action = "UPDATE",
           Becomes(w, "release", th[w].st, th[w].rs, "replace")
    PROVE  OrderInv'
<1>1. w \in Checking /\ Knows(w, i)
  BY CheckKnows DEF Checks
<1>2. i \in DOMAIN rsrc /\ Same(rsrc[i], th[w].rs) /\ ClaimOK(i) /\ HandlerOK(th[w])
  BY <1>1, HandlerKnows
<1>3. /\ \A v \in Threads \ {w} : th'[v] = th[v]
      /\ th'[w].pc = "release" /\ th'[w].msg = th[w].msg /\ th'[w].rs = th[w].rs
      /\ th'[w].out = "replace" /\ stack' = stack
  BY DEF Becomes, Apartly
<1>4. Works(w, i)
  BY <1>3, LocalWorks DEF Launching
<1>5. ReleaseOK(th[w])'
  BY <1>2, <1>3 DEF HandlerOK, ReleaseOK, Same
<1>6. NotThere(th[w])' /\ WorkerOK(th[w])'
  BY <1>3, <1>5 DEF NotThere, Loaded, WorkerOK
<1>7. (Serving(i) => Serving(i)') /\ (Cleaned(i) => Cleaned(i)')
  BY <1>3 DEF Serving, Cleaned
<1>8. ClaimOK(i)'
  BY <1>2, <1>4, <1>7, ClaimStays, WorksBetter DEF ClaimsLike
<1>9. RowOK(i)'
  <2>1. ActsOn(th[w], i)'
    BY <1>3 DEF ActsOn
  <2>2. rsrc'[i].status = "IN_PROGRESS"
    BY <1>2 DEF HandlerOK, Same
  <2> QED
    BY <2>1, <2>2 DEF RowOK
<1>10. rsrc'[i].action = "INIT" => i \notin phys'
  BY <1>1, <1>2 DEF Knows
<1>11. WorksWell(w, i)
  BY <1>6, <1>7, <1>8, <1>9, <1>10 DEF WorksWell
<1> QED
  BY <1>1, <1>4, <1>11, WorkKeeps

\* The handler returns.
LEMMA HandlerDoneKeeps ==
    ASSUME TravInv, SeqInv, OrderInv, stack.live, NEW w \in Threads, HandlerDone(w)
    PROVE  OrderInv'
<1>1. PICK i : i = th[w].msg.id
  OBVIOUS
<1>2. th[w].pc = "handler" /\ Apartly(i) /\ EndsWell(w)
  BY <1>1, HandlerDoneDoes DEF TravInv
<1>3. w \in Checking /\ Knows(w, i) /\ UNCHANGED stack
  BY <1>1, <1>2, CheckKnows DEF Checks, Apartly
<1>4. /\ i \in DOMAIN rsrc /\ Same(rsrc[i], th[w].rs) /\ th[w].rs.status = "IN_PROGRESS"
      /\ th[w].rs.action # "INIT" /\ HandlerOK(th[w]) /\ th[w].st.tmpl = stack.tmpl
  BY <1>1, <1>2, <1>3, HandlerKnows
<1>5. ASSUME NEW a, RowSays(i, a),
             Variant(a, th[w].rs, th[w].rs.action, "COMPLETE", th[w].rs.tmpl, th[w].rs.requires)
      PROVE  /\ i \in DOMAIN rsrc' /\ rsrc'[i].name = th[w].rs.name
             /\ rsrc'[i].action = th[w].rs.action /\ rsrc'[i].status = "COMPLETE"
             /\ rsrc'[i].tmpl = th[w].rs.tmpl /\ rsrc'[i].requires = th[w].rs.requires
             /\ rsrc'[i].replaced_by = th[w].rs.replaced_by
  BY <1>4, <1>5 DEF RowSays, Same, Variant
<1>6. ASSUME th[w].rs.action = "CREATE", phys' = phys \cup {i}, NEW r, RowSays(i, r),
             Variant(r, th[w].rs, th[w].rs.action, "COMPLETE", th[w].rs.tmpl, th[w].rs.requires),
             Becomes(w, "release", th[w].st, r, "done")
      PROVE  OrderInv'
  <2>1. /\ th'[w].msg = th[w].msg /\ th'[w].rs = r /\ th'[w].pc = "release" /\ th'[w].out = "done"
        /\ r.name = th[w].rs.name /\ r.replaces = th[w].rs.replaces
        /\ r.replaced_by = th[w].rs.replaced_by /\ r.tmpl = th[w].rs.tmpl
        /\ r.requires = th[w].rs.requires
    BY <1>6 DEF Becomes, Variant
  <2>2. /\ th[w].msg.upd /\ th[w].rs.replaced_by = None
        /\ th[w].rs.tmpl = stack.tmpl /\ th[w].rs.requires = Reports(th[w])
    BY <1>4, <1>6, SMTT(20) DEF HandlerOK
  <2>3. ReleaseOK(th[w])'
    BY <1>1, <1>3, <1>4, <1>5, <1>6, <2>1, <2>2 DEF ReleaseOK, Reports
  <2>4. WorkerOK(th[w])'
    BY <2>1, <2>3 DEF WorkerOK, Loaded
  <2> QED
    BY <1>1, <1>2, <1>6, <2>1, <2>4, HandlerKeeps
<1>7. CASE th[w].rs.action = "UPDATE" /\ UNCHANGED <<rsrc, phys>>
           /\ Becomes(w, "release", th[w].st, th[w].rs, "replace")
  BY <1>1, <1>2, <1>7, UpdateReplaceKeeps
<1>8. ASSUME th[w].rs.action = "UPDATE", UNCHANGED phys, NEW a, RowSays(i, a),
             Variant(a, th[w].rs, th[w].rs.action, "COMPLETE", th[w].rs.tmpl, th[w].rs.requires),
             NEW r, Variant(r, th[w].rs, "UPDATE", "COMPLETE", th[w].st.tmpl, Reports(th[w])),
             Becomes(w, "release", th[w].st, r, "done")
      PROVE  OrderInv'
  <2>1. /\ th'[w].msg = th[w].msg /\ th'[w].rs = r /\ th'[w].pc = "release" /\ th'[w].out = "done"
        /\ r.name = th[w].rs.name /\ r.replaces = th[w].rs.replaces
        /\ r.replaced_by = th[w].rs.replaced_by /\ r.tmpl = stack.tmpl
        /\ r.requires = Reports(th[w])
    BY <1>4, <1>8 DEF Becomes, Variant
  <2>2. th[w].msg.upd /\ th[w].rs.replaced_by = None /\ i \in phys
    BY <1>1, <1>4, <1>8, SMTT(20) DEF HandlerOK
  <2>3. ReleaseOK(th[w])'
    BY <1>1, <1>3, <1>4, <1>5, <1>8, <2>1, <2>2 DEF ReleaseOK, Reports
  <2>4. WorkerOK(th[w])'
    BY <2>1, <2>3 DEF WorkerOK, Loaded
  <2> QED
    BY <1>1, <1>2, <1>8, <2>1, <2>2, <2>4, HandlerKeeps, Zenon
<1>9. ASSUME th[w].rs.action = "DELETE", NEW r, RowSays(i, r),
             Variant(r, th[w].rs, th[w].rs.action, "COMPLETE", th[w].rs.tmpl, th[w].rs.requires),
             Becomes(w, "destroy", th[w].st, r, th[w].out)
      PROVE  OrderInv'
  <2>1. /\ th'[w].msg = th[w].msg /\ th'[w].rs = r /\ th'[w].pc = "destroy"
        /\ r.name = th[w].rs.name /\ r.replaces = th[w].rs.replaces
        /\ r.replaced_by = th[w].rs.replaced_by
    BY <1>9 DEF Becomes, Variant
  <2>2. ~th[w].msg.upd /\ th[w].rs.tmpl # stack.tmpl
    BY <1>4, <1>9 DEF HandlerOK
  <2>3. WorkerOK(th[w])'
    BY <1>1, <1>3, <1>5, <1>9, <2>1, <2>2 DEF WorkerOK, Loaded
  <2> QED
    BY <1>1, <1>2, <1>9, <2>1, <2>3, HandlerKeeps
<1> QED
  BY <1>1, <1>2, <1>6, <1>7, <1>8, <1>9, Zenon DEF EndsWell

\* The handler fails.
LEMMA HandlerFailsKeeps ==
    ASSUME TravInv, SeqInv, OrderInv, stack.live, NEW w \in Threads, NEW kind, HandlerFails(w, kind)
    PROVE  OrderInv'
<1>1. PICK i : i = th[w].msg.id
  OBVIOUS
<1>2. th[w].pc = "handler" /\ Apartly(i) /\ EndsBadly(w)
  BY <1>1, HandlerFailsDoes DEF TravInv
<1>3. w \in Checking /\ Knows(w, i) /\ UNCHANGED stack
  BY <1>1, <1>2, CheckKnows DEF Checks, Apartly
<1>4. /\ i \in DOMAIN rsrc /\ Same(rsrc[i], th[w].rs) /\ th[w].rs.status = "IN_PROGRESS"
      /\ th[w].rs.action # "INIT" /\ HandlerOK(th[w]) /\ th[w].st.tmpl = stack.tmpl
  BY <1>1, <1>2, <1>3, HandlerKnows
<1>5. PICK a : /\ Variant(a, th[w].rs, th[w].rs.action, "FAILED", th[w].rs.tmpl, th[w].rs.requires)
               /\ RowSays(i, a)
  BY <1>1, <1>2 DEF EndsBadly
<1>6. PICK r, out :
         /\ out \in {"failed", "timeout"} /\ Becomes(w, "release", th[w].st, r, out)
         /\ \/ Variant(r, th[w].rs, th[w].rs.action, "FAILED", th[w].rs.tmpl, th[w].rs.requires)
            \/ /\ th[w].rs.action = "UPDATE"
               /\ Variant(r, th[w].rs, th[w].rs.action, "FAILED", th[w].st.tmpl, Reports(th[w]))
  BY <1>2 DEF EndsBadly
<1>7. /\ i \in DOMAIN rsrc' /\ rsrc'[i].name = th[w].rs.name
      /\ rsrc'[i].action = th[w].rs.action /\ rsrc'[i].status = "FAILED"
      /\ rsrc'[i].tmpl = th[w].rs.tmpl /\ rsrc'[i].requires = th[w].rs.requires
      /\ rsrc'[i].replaced_by = th[w].rs.replaced_by
  BY <1>4, <1>5 DEF RowSays, Same, Variant
<1>8. /\ th'[w].msg = th[w].msg /\ th'[w].rs = r /\ th'[w].pc = "release" /\ th'[w].out = out
      /\ r.name = th[w].rs.name /\ r.replaces = th[w].rs.replaces
      /\ r.replaced_by = th[w].rs.replaced_by
      /\ \/ r.tmpl = th[w].rs.tmpl /\ r.requires = th[w].rs.requires
         \/ th[w].rs.action = "UPDATE" /\ r.tmpl = stack.tmpl /\ r.requires = Reports(th[w])
  BY <1>4, <1>6 DEF Becomes, Variant
<1>9. th[w].rs.action = "UPDATE" => th[w].msg.upd /\ th[w].rs.replaced_by = None
  BY <1>4 DEF HandlerOK
<1>10. ReleaseOK(th[w])'
  BY <1>1, <1>3, <1>4, <1>6, <1>7, <1>8, <1>9 DEF ReleaseOK, Reports
<1>11. WorkerOK(th[w])'
  BY <1>8, <1>10 DEF WorkerOK, Loaded
<1> QED
  BY <1>1, <1>2, <1>5, <1>6, <1>8, <1>11, HandlerKeeps

\* Release() writes what the check has come to.
LEMMA ReleaseKeeps ==
    ASSUME TravInv, LockInv, SeqInv, OrderInv, stack.live, NEW w \in Threads, Release(w)
    PROVE  OrderInv'
<1>1. PICK i : i = th[w].msg.id
  OBVIOUS
<1>2. th[w].pc = "release"
  BY DEF Release, At
<1>3. TypeOK /\ dead = {} /\ w \in Workers
  BY <1>2 DEF TravInv, SeqInv, WorkersCheck, Checks
<1>4. w \in Checking /\ Knows(w, i)
  BY <1>1, <1>2, CheckKnows DEF Checks
<1>5. ReleaseOK(th[w]) /\ i \in DOMAIN rsrc
  BY <1>1, <1>2, <1>4 DEF Knows, WorkerOK, ReleaseOK
<1>6. /\ Apartly(i) /\ UNCHANGED phys /\ DOMAIN rsrc' = DOMAIN rsrc
      /\ \A j \in DOMAIN rsrc \ {i} : rsrc'[j] = rsrc[j]
      /\ Variant(rsrc'[i], rsrc[i], rsrc[i].action, rsrc[i].status, th[w].rs.tmpl, th[w].rs.requires)
      /\ Becomes(w, After(th[w].out), th[w].st, th[w].rs, th[w].out)
  <2>1. i \notin DOMAIN rsrc \/ ~(th[w].msg.id \notin DOMAIN rsrc)
    BY <1>1
  <2> QED
    BY <1>1, <1>3, <1>5, <2>1, ReleaseDoes
<1>7. /\ rsrc'[i].name = rsrc[i].name /\ rsrc'[i].replaced_by = rsrc[i].replaced_by
      /\ rsrc'[i].action = rsrc[i].action /\ rsrc'[i].status = rsrc[i].status
      /\ rsrc'[i].tmpl = th[w].rs.tmpl /\ rsrc'[i].requires = th[w].rs.requires
      /\ UNCHANGED <<stack, phys, sp>>
  BY <1>6 DEF Variant, Apartly
<1>8. /\ \A v \in Threads \ {w} : th'[v] = th[v]
      /\ th'[w].pc = After(th[w].out) /\ th'[w].msg = th[w].msg /\ th'[w].rs = th[w].rs
      /\ th'[w].out = th[w].out
  BY <1>6 DEF Becomes
<1>9. /\ rsrc[i].name = th[w].rs.name
      /\ \/ /\ th[w].out = "done" /\ th[w].msg.upd /\ rsrc'[i].tmpl = stack.tmpl
            /\ rsrc'[i].requires = Reports(th[w])
            /\ rsrc[i].action # "INIT" /\ rsrc[i].replaced_by = None
            /\ rsrc[i].status = "COMPLETE" /\ i \in phys
         \/ /\ th[w].out = "done" /\ ~th[w].msg.upd /\ rsrc'[i].tmpl = rsrc[i].tmpl
            /\ rsrc'[i].requires = rsrc[i].requires /\ rsrc[i].tmpl = stack.tmpl
         \/ /\ th[w].out = "replace" /\ th[w].msg.upd /\ rsrc'[i].tmpl = rsrc[i].tmpl
            /\ rsrc'[i].requires = rsrc[i].requires /\ rsrc[i].tmpl # stack.tmpl
            /\ rsrc[i].action # "INIT" /\ <<i, TRUE>> \in stack.deps.nodes
         \/ /\ th[w].out \in {"failed", "timeout"} /\ rsrc[i].status = "FAILED"
            /\ \/ /\ th[w].msg.upd /\ rsrc'[i].tmpl = stack.tmpl
                  /\ rsrc'[i].requires = Reports(th[w]) /\ rsrc[i].replaced_by = None
               \/ rsrc'[i].tmpl = rsrc[i].tmpl /\ rsrc'[i].requires = rsrc[i].requires
  BY <1>1, <1>5, <1>7 DEF ReleaseOK
<1>10. /\ th[w].out = "done" => th'[w].pc = "propagate"
       /\ th[w].out = "replace" => th'[w].pc = "replace"
       /\ th[w].out \in {"failed", "timeout"} => th'[w].pc \in {"fail", "reload"}
  BY <1>8 DEF After
<1>11. rsrc'[i].tmpl \in {rsrc[i].tmpl, stack.tmpl} /\ th'[w].pc \in {"propagate", "replace", "fail", "reload"}
  BY <1>9, <1>10
<1>12. Works(w, i)
  <2>1. th'[w].pc \notin Launching
    BY <1>11 DEF Launching
  <2> QED
    BY <1>6, <1>7, <1>8, <1>11, <2>1, LocalWorks
<1>13. (Serving(i) => Serving(i)') /\ (Cleaned(i) => Cleaned(i)')
  BY <1>6, <1>7, <1>11 DEF Serving, Cleaned
<1>14. NotThere(th[w])'
  BY <1>11 DEF NotThere, Loaded
<1>15. w \in Checking' => WorkerOK(th[w])'
  <2>1. CASE th'[w].pc \in {"fail", "reload"}
    BY <2>1, SMTT(20) DEF Checking, Checks
  <2>2. CASE th'[w].pc = "replace"
    BY <1>1, <1>5, <1>6, <1>7, <1>8, <1>9, <1>10, <2>2, SMTT(20) DEF WorkerOK, Loaded
  <2>3. CASE th'[w].pc = "propagate"
    <3>1. th[w].out = "done"
      BY <1>9, <1>10, <2>3
    <3>2. th[w].msg.upd => Serving(i)'
      BY <1>5, <1>6, <1>7, <1>9, <3>1 DEF Serving
    <3>3. ~th[w].msg.upd => Cleaned(i)'
      BY <1>7, <1>9, <3>1 DEF Cleaned
    <3> QED
      BY <1>1, <1>7, <1>8, <1>9, <2>3, <3>2, <3>3 DEF WorkerOK, Loaded, Serving, Cleaned
  <2> QED
    BY <1>11, <2>1, <2>2, <2>3
<1>16. RowOK(i)'
  <2>1. ASSUME rsrc[i].status = "IN_PROGRESS" PROVE ActsOn(th[w], i)'
    <3>1. RowOK(i) /\ \A v \in Threads \ {w} : th[v].pc \in Checks => th[v].msg.id # i
      BY <1>4, <1>5 DEF Knows
    <3>2. PICK v \in Threads : ActsOn(th[v], i)
      BY <2>1, <3>1 DEF RowOK
    <3>3. th[v].pc \in Checks /\ th[v].msg.id = i
      BY <3>2 DEF ActsOn, Checks
    <3>4. v = w
      BY <3>1, <3>3
    <3>5. th[w].out = "replace"
      BY <1>2, <3>2, <3>4 DEF ActsOn
    <3> QED
      BY <1>1, <1>8, <1>10, <3>5 DEF ActsOn
  <2>2. ASSUME rsrc[i].action # "INIT", rsrc[i].status = "COMPLETE", rsrc[i].replaced_by = None,
               \A v \in Threads : ~(th'[v].pc = "destroy" /\ th'[v].msg.id = i)
        PROVE  i \in phys
    <3>1. RowOK(i)
      BY <1>4, <1>5 DEF Knows
    <3>2. \A v \in Threads : ~(th[v].pc = "destroy" /\ th[v].msg.id = i)
      BY <1>2, <1>8, <2>2
    <3> QED
      BY <2>2, <3>1, <3>2 DEF RowOK
  <2> QED
    BY <1>7, <2>1, <2>2 DEF RowOK
<1>17. ClaimOK(i)'
  <2>1. CASE /\ th[w].msg.upd /\ rsrc'[i].tmpl = stack.tmpl
             /\ rsrc'[i].requires = Reports(th[w]) /\ rsrc[i].replaced_by = None
    BY <1>1, <1>4, <1>7, <1>12, <2>1, RowClaimed
  <2>2. CASE rsrc'[i].tmpl = rsrc[i].tmpl /\ rsrc'[i].requires = rsrc[i].requires
    <3>1. ClaimsLike(rsrc'[i], rsrc[i])
      BY <1>7, <2>2 DEF ClaimsLike
    <3>2. ClaimOK(i)
      BY <1>4, <1>5 DEF Knows
    <3> QED
      BY <1>12, <1>13, <3>1, <3>2, ClaimStays, WorksBetter
  <2> QED
    BY <1>9, <2>1, <2>2
<1>18. rsrc'[i].action = "INIT" => i \notin phys'
  BY <1>4, <1>5, <1>7 DEF Knows
<1>19. WorksWell(w, i)
  BY <1>13, <1>14, <1>15, <1>16, <1>17, <1>18 DEF WorksWell
<1> QED
  BY <1>1, <1>4, <1>12, <1>19, WorkKeeps

\* The message for a replacement comes before the check that destroys what
\* it replaces.
LEMMA DestroyedIsNotReplaced ==
    ASSUME TravInv, SeqInv, OrderInv, stack.live, NEW w \in Threads, th[w].pc = "destroy",
           NEW m \in Served, <<m.id, m.upd>> \notin stack.deps.nodes
    PROVE  m.id # th[w].rs.replaced_by
<1> SUFFICES ASSUME m.id = th[w].rs.replaced_by PROVE FALSE
  OBVIOUS
<1>1. PICK i : i = th[w].msg.id
  OBVIOUS
<1>2. w \in Checking /\ Knows(w, i)
  BY <1>1, CheckKnows DEF Checks
<1>3. PICK current \in Currents : CheckInv(current)
  BY WhileChecking DEF Busy, Launching
<1>4. th[w].msg \in Msgs /\ m \in Msgs
  BY ThreadFields DEF TravInv, TypeOK, Checks, Served
<1>5. th[w].msg.upd = FALSE
  BY <1>2, <1>4 DEF Knows, WorkerOK, Msgs
<1>6. rsrc[m.id].replaces = i
  BY <1>1, <1>2, <1>3 DEF CheckInv, ReplacementOK
<1>7. /\ WorkerToken(w) \in Tokens /\ CastToken(m) \in Tokens
      /\ WorkerToken(w).id = i /\ WorkerToken(w).upd = FALSE
      /\ WorkerToken(w).key = Stands(i, FALSE, th[w].rs.replaces)
      /\ CastToken(m).id = m.id /\ CastToken(m).upd = m.upd
      /\ CastToken(m).key = <<i, m.upd>>
      /\ WorkerToken(w) # CastToken(m)
  <2>1. CastToken(m).key = Stands(m.id, m.upd, rsrc[m.id].replaces)
    BY TokensAre, Zenon
  <2>2. CastToken(m).key = <<i, m.upd>>
    BY <1>6, <2>1 DEF Stands
  <2>3. WorkerToken(w).of # CastToken(m).of
    BY TokensAre
  <2> QED
    BY <1>1, <1>2, <1>5, <2>2, <2>3, TokensAre, Zenon
<1>8. TokenOK(WorkerToken(w), current) /\ TokenOK(CastToken(m), current)
  BY <1>3, <1>7 DEF CheckInv
<1>9. m.upd = TRUE /\ <<i, TRUE>> \in stack.deps.nodes
  BY <1>4, <1>7, <1>8, Zenon DEF TokenOK, Msgs
<1>10. <<i, FALSE>> \in stack.deps.nodes /\ WorkerToken(w).key = <<i, FALSE>>
  <2>1. <<i, FALSE>> \in stack.deps.nodes
    BY <1>7, <1>8, Zenon DEF TokenOK
  <2> QED
    BY <1>7, <2>1, Zenon DEF Stands
<1>11. <<<<i, FALSE>>, <<i, TRUE>>>> \in stack.deps.edges
  <2>1. \A n \in stack.deps.nodes : ~n[2] /\ <<n[1], TRUE>> \in stack.deps.nodes
           => <<n, <<n[1], TRUE>>>> \in stack.deps.edges
    BY <1>3, Zenon DEF CheckInv, GraphOK
  <2> QED
    BY <1>9, <1>10, <2>1, Zenon
<1> QED
  BY <1>3, <1>7, <1>9, <1>10, <1>11, Zenon DEF CheckInv, KeysApart

\* destroy() drops the row.
LEMMA DestroyKeeps ==
    ASSUME TravInv, SeqInv, OrderInv, stack.live, NEW w \in Threads, Destroy(w)
    PROVE  OrderInv'
<1>1. PICK i : i = th[w].msg.id
  OBVIOUS
<1>2. /\ th[w].pc = "destroy" /\ Apartly(i) /\ UNCHANGED phys
      /\ Becomes(w, "propagate", th[w].st, th[w].rs, th[w].out)
      /\ DOMAIN rsrc' = DOMAIN rsrc \ {i}
      /\ \A j \in DOMAIN rsrc' : \/ rsrc'[j] = rsrc[j]
                                 \/ j = th[w].rs.replaced_by /\ Same(rsrc'[j], rsrc[j])
  BY <1>1, DestroyDoes, Zenon DEF TravInv
<1>3. w \in Checking /\ Knows(w, i) /\ UNCHANGED stack
  BY <1>1, <1>2, CheckKnows DEF Checks, Apartly
<1>4. /\ \A v \in Threads \ {w} : th'[v] = th[v]
      /\ th'[w].pc = "propagate" /\ th'[w].msg = th[w].msg /\ th'[w].rs = th[w].rs
  BY <1>2 DEF Becomes
<1>5. \A j \in DOMAIN rsrc' : Same(rsrc'[j], rsrc[j])
  <2>1. \A a : Same(a, a)
    BY DEF Same
  <2> QED
    BY <1>2, <2>1
<1>6. \A m \in Served : m.id # i =>
         rsrc'[m.id].replaces = rsrc[m.id].replaces \/ <<m.id, m.upd>> \in stack.deps.nodes
  <2> SUFFICES ASSUME NEW m \in Served, m.id # i, <<m.id, m.upd>> \notin stack.deps.nodes
               PROVE  rsrc'[m.id].replaces = rsrc[m.id].replaces
    OBVIOUS
  <2>1. m.id # th[w].rs.replaced_by /\ m.id \in DOMAIN rsrc'
    BY <1>2, DestroyedIsNotReplaced DEF Served
  <2> QED
    BY <1>2, <2>1
<1>7. Works(w, i)
  <2>1. th'[w].pc \notin Launching
    BY <1>4 DEF Launching
  <2>2. \A j \in DOMAIN rsrc' : /\ rsrc'[j].name = rsrc[j].name
                                /\ rsrc'[j].replaced_by = rsrc[j].replaced_by
                                /\ rsrc'[j].tmpl = rsrc[j].tmpl
    BY <1>5 DEF Same
  <2> QED
    BY <1>2, <1>4, <1>5, <1>6, <2>1, <2>2 DEF Works
<1>8. ~th[w].msg.upd /\ (i \in DOMAIN rsrc => rsrc[i].tmpl # stack.tmpl)
  BY <1>1, <1>2, <1>3 DEF Knows, WorkerOK
<1>9. ~Serving(i) /\ Cleaned(i)' /\ i \notin DOMAIN rsrc'
  BY <1>2, <1>8 DEF Serving, Cleaned
<1>10. NotThere(th[w])' /\ WorkerOK(th[w])'
  BY <1>1, <1>4, <1>8, <1>9 DEF NotThere, WorkerOK, Loaded
<1>11. WorksWell(w, i)
  BY <1>9, <1>10 DEF WorksWell
<1> QED
  BY <1>1, <1>3, <1>7, <1>11, WorkKeeps
=============================================================================
