----------------------------- MODULE Scheduler -----------------------------
(***************************************************************************)
(* Heat's co-operative task scheduler (heat/engine/scheduler.py) and the   *)
(* dependency graph it consumes (heat/engine/dependencies.py).  A          *)
(* DependencyTaskGroup starts each of its tasks when the tasks it requires *)
(* are complete, and steps the ones that run, until none is left.  An      *)
(* error cancels all the others, at once or after a grace period, or, when *)
(* exceptions are aggregated, only what depends on the task that failed.   *)
(*                                                                         *)
(* The group is itself a task of a TaskRunner, which may throw a Timeout   *)
(* into it or close it when it yields; a thread that is killed unwinds     *)
(* from inside the step of a task.  What tasks do between two yields is    *)
(* their outcome only.                                                     *)
(***************************************************************************)
EXTENDS Integers, Sequences, FiniteSets, Functions

CONSTANTS
    Tasks,    \* the objects in the dependency tree
    Trees,    \* dependency trees: functions from Tasks to what they require
    Groups    \* how groups are made: [reverse, aggregate, grace]

\* A way to put the tasks in order that respects the requirements.
TopologicalOrder(req, s) ==
    \A i, j \in DOMAIN s : s[i] \in req[s[j]] => i < j

Orders(req) ==
    {s \in [1 .. Cardinality(Tasks) -> Tasks] :
        (\A i, j \in DOMAIN s : s[i] = s[j] => i = j) /\ TopologicalOrder(req, s)}

ASSUME SchedulerAssumption ==
    /\ IsFiniteSet(Tasks) /\ Tasks # {}
    /\ Trees \subseteq [Tasks -> SUBSET Tasks]
    /\ \A req \in Trees : Orders(req) # {}   \* there is no cycle
    /\ Groups \subseteq [reverse : BOOLEAN, aggregate : BOOLEAN, grace : BOOLEAN]

VARIABLES
    group,      \* the arguments of the group
    requires,   \* what each task requires, in the direction of the group
    keys,       \* _keys: the tasks in topological order
    graph,      \* _graph: the nodes that are left, a defaultdict
    started,    \* runners whose _runner is not None
    done,       \* runners whose _done is set
    timed,      \* runners whose _timeout is a TimedCancel
    outcome,    \* what has become of each task
    pc,         \* where the co-routine of the group is
    next,       \* the next of keys in the pass of _ready()
    todo,       \* what is left of the pass of _running()
    errors,     \* raised_exceptions: the tasks that raised, in order
    graceOver   \* the grace period has ended

runners == <<started, done, timed, outcome>>
vars == <<group, requires, keys, graph, runners, pc, next, todo, errors,
          graceOver>>

Outcomes == {"none", "running", "complete", "raised", "closed"}
-----------------------------------------------------------------------------
(* Graphs.                                                                   *)

NoNode == [require |-> {}, satisfy |-> {}]

Dependents(req, k) == {j \in Tasks : k \in req[j]}

ReverseOf(req) == [k \in Tasks |-> Dependents(req, k)]

\* Dependencies.graph(): a node per task, with the edges in both directions.
GraphOf(req) == [k \in Tasks |-> [require |-> req[k], satisfy |-> Dependents(req, k)]]

Node(g, k) == IF k \in DOMAIN g THEN g[k] ELSE NoNode

\* Graph.__delitem__(): looking at a node that is not there makes an empty one,
\* so the nodes that required k are in the graph afterwards.
Del(g, k) ==
    [j \in (DOMAIN g \cup Node(g, k).satisfy) \ {k} |->
        IF j \in Node(g, k).satisfy THEN [Node(g, j) EXCEPT !.require = @ \ {k}]
        ELSE g[j]]

\* Mutant: only what requires the task directly.
RequiredBy(g, k) == Node(g, k).satisfy

\* What a task is required by, directly or not, in what is left of the graph.
Downstream(g, k) ==
    LET reach[n \in 0 .. Cardinality(Tasks)] ==
            IF n = 0 THEN Node(g, k).satisfy
            ELSE reach[n - 1] \cup UNION {Node(g, j).satisfy : j \in reach[n - 1]}
    IN reach[Cardinality(Tasks)]
-----------------------------------------------------------------------------
TypeOK ==
    /\ group \in Groups
    /\ requires \in [Tasks -> SUBSET Tasks]
    /\ keys \in [1 .. Cardinality(Tasks) -> Tasks]
    /\ DOMAIN graph \subseteq Tasks
    /\ \A k \in DOMAIN graph : graph[k] \in [require : SUBSET Tasks, satisfy : SUBSET Tasks]
    /\ started \subseteq Tasks /\ done \subseteq Tasks /\ timed \subseteq started
    /\ outcome \in [Tasks -> Outcomes]
    /\ pc \in {"ready", "yield", "running", "ended", "interrupted"}
    /\ next \in 1 .. Cardinality(Tasks) + 1
    /\ todo \subseteq Tasks
    /\ errors \in Seq(Tasks)
    /\ graceOver \in BOOLEAN

\* DependencyTaskGroup.__init__()
Init ==
    /\ group \in Groups
    /\ \E req \in Trees :
        /\ requires = IF group.reverse THEN ReverseOf(req) ELSE req
        /\ keys \in Orders(req)
    /\ graph = GraphOf(requires)
    /\ started = {} /\ done = {} /\ timed = {}
    /\ outcome = [k \in Tasks |-> "none"]
    /\ pc = "ready" /\ next = 1 /\ todo = {}
    /\ errors = <<>>
    /\ graceOver = FALSE
-----------------------------------------------------------------------------
(* Cancellation.                                                             *)

\* Mutant: with a grace period a runner that has not started is left alone.
CancelStarted(c, st, dn, grace) ==
    LET undone == c \ dn
        timers == IF grace THEN undone \cap st ELSE {}
    IN /\ started' = st
       /\ done' = IF grace THEN dn ELSE dn \cup undone
       /\ timed' = timed \cup timers

\* TaskRunner.cancel() of the runners in c, given the runners that are started
\* and done at that moment: with a grace period the ones that run get a
\* TimedCancel, everything else is done and its generator closed.
Cancel(c, st, dn, grace) ==
    LET undone == c \ dn
        timers == IF grace THEN undone \cap st ELSE {}
        now == undone \ timers
    IN /\ started' = st
       /\ done' = dn \cup now
       /\ timed' = timed \cup timers

Closed(c, out) ==
    [k \in Tasks |-> IF k \in c /\ out[k] = "running" THEN "closed" ELSE out[k]]

\* Back to the head of the while loop: another round, or the end.
Again ==
    /\ pc' = IF done' = Tasks THEN "ended" ELSE "ready"
    /\ next' = 1
    /\ todo' = {}

\* Mutant: an error cancels everything, aggregated or not.
HandleErrorAll(k, st) ==
    /\ errors' = Append(errors, k)
    /\ Cancel(Tasks, st, done, group.grace)
    /\ outcome' = Closed(IF group.grace THEN {} ELSE Tasks, [outcome EXCEPT ![k] = "raised"])
    /\ Again
    /\ UNCHANGED <<group, requires, keys, graph, graceOver>>

\* except Exception: task k has raised.  _cancel_recursively() visits what is
\* downstream and deletes its nodes, and each deletion brings back the nodes
\* above it, empty: in the end only k is gone and the others have no edges.
HandleError(k, st) ==
    /\ errors' = Append(errors, k)
    /\ \/ /\ group.aggregate
          /\ Cancel({k} \cup Downstream(graph, k), st, done, FALSE)
          /\ outcome' = Closed(Downstream(graph, k), [outcome EXCEPT ![k] = "raised"])
          /\ graph' = [j \in (DOMAIN graph \cup Downstream(graph, k)) \ {k} |->
                          IF j \in Downstream(graph, k) THEN NoNode ELSE graph[j]]
       \/ /\ ~group.aggregate
          /\ Cancel(Tasks, st, done, group.grace)
          /\ outcome' = Closed(IF group.grace THEN {} ELSE Tasks,
                               [outcome EXCEPT ![k] = "raised"])
          /\ UNCHANGED graph
    /\ Again
    /\ UNCHANGED <<group, requires, keys, graceOver>>

\* except: a Timeout, GeneratorExit or the kill of the thread.
Interrupt(out) ==
    /\ Cancel(Tasks, started, done, FALSE)
    /\ outcome' = Closed(Tasks, out)
    /\ pc' = "interrupted"
    /\ UNCHANGED <<group, requires, keys, graph, next, todo, errors, graceOver>>
-----------------------------------------------------------------------------
(* The co-routine of the group.                                              *)

\* _ready() at the next key.
IsReady(k) ==
    /\ k \in DOMAIN graph /\ graph[k].require = {}
    /\ k \notin done /\ k \notin started

AtReady(k) == pc = "ready" /\ next <= Len(keys) /\ k = keys[next] /\ IsReady(k)

Skip ==
    /\ pc = "ready" /\ next <= Len(keys) /\ ~IsReady(keys[next])
    /\ next' = next + 1
    /\ UNCHANGED <<group, requires, keys, graph, runners, pc, todo, errors, graceOver>>

\* start() of a co-routine that yields.
Start(k) ==
    /\ AtReady(k)
    /\ next' = next + 1
    /\ started' = started \cup {k}
    /\ outcome' = [outcome EXCEPT ![k] = "running"]
    /\ UNCHANGED <<group, requires, keys, graph, done, timed, pc, todo, errors, graceOver>>

\* start() of a task that is complete at once.
StartCompletes(k) ==
    /\ AtReady(k)
    /\ next' = next + 1
    /\ started' = started \cup {k}
    /\ done' = done \cup {k}
    /\ outcome' = [outcome EXCEPT ![k] = "complete"]
    /\ graph' = Del(graph, k)
    /\ UNCHANGED <<group, requires, keys, timed, pc, todo, errors, graceOver>>

\* start() raises: in the first step of a co-routine, or in a plain function,
\* which then does not count as started.
StartRaises(k) ==
    /\ AtReady(k)
    /\ \E st \in {started, started \cup {k}} : HandleError(k, st)

\* The end of the pass over _ready().
Yield ==
    /\ pc = "ready" /\ next > Len(keys)
    /\ pc' = "yield"
    /\ UNCHANGED <<group, requires, keys, graph, runners, next, todo, errors, graceOver>>

IsRunning(k) == k \in DOMAIN graph /\ k \in started

Resume ==
    /\ pc = "yield"
    /\ pc' = "running"
    /\ todo' = Tasks
    /\ UNCHANGED <<group, requires, keys, graph, runners, next, errors, graceOver>>

\* Timeout.trigger(), TimedCancel.trigger() or close() of the group.
InterruptGroup == pc = "yield" /\ Interrupt(outcome)

AtRunning(k) == pc = "running" /\ k \in todo /\ IsRunning(k)
Expired(k) == k \in timed /\ graceOver

\* step() of a task that yields again.
Step(k) ==
    /\ AtRunning(k) /\ outcome[k] = "running" /\ ~Expired(k)
    /\ todo' = todo \ {k}
    /\ UNCHANGED <<group, requires, keys, graph, runners, pc, next, errors, graceOver>>

\* step() that ends the task: it returns, or its TimedCancel has expired, or it
\* has raised before and its generator is exhausted.
StepEnds(k) ==
    /\ AtRunning(k)
    /\ todo' = todo \ {k}
    /\ done' = done \cup {k}
    /\ graph' = Del(graph, k)
    /\ outcome' = [outcome EXCEPT ![k] =
                      IF @ # "running" THEN @ ELSE IF Expired(k) THEN "closed" ELSE "complete"]
    /\ UNCHANGED <<group, requires, keys, started, timed, pc, next, errors, graceOver>>

StepRaises(k) ==
    /\ AtRunning(k) /\ outcome[k] = "running" /\ ~Expired(k)
    /\ HandleError(k, started)

\* The thread is killed in the step of a task.
Killed(k) ==
    /\ AtRunning(k) /\ outcome[k] = "running" /\ ~Expired(k)
    /\ Interrupt([outcome EXCEPT ![k] = "raised"])

\* The end of the pass over _running().
EndPass ==
    /\ pc = "running" /\ ~\E k \in todo : IsRunning(k)
    /\ UNCHANGED <<group, requires, keys, graph, runners, errors, graceOver>>
    /\ Again

\* Time passes: the TimedCancels expire.
GraceEnds ==
    /\ timed # {} /\ ~graceOver
    /\ graceOver' = TRUE
    /\ UNCHANGED <<group, requires, keys, graph, runners, pc, next, todo, errors>>

GroupStep ==
    \/ Skip \/ Yield \/ Resume \/ InterruptGroup \/ EndPass
    \/ \E k \in Tasks :
        \/ Start(k) \/ StartCompletes(k) \/ StartRaises(k)
        \/ Step(k) \/ StepEnds(k) \/ StepRaises(k) \/ Killed(k)

Next == GroupStep \/ GraceEnds

\* The runner of the group keeps stepping it, and time passes.  That a task ever
\* ends is not assumed.
Spec == Init /\ [][Next]_vars /\ WF_vars(GroupStep) /\ WF_vars(GraceEnds)
-----------------------------------------------------------------------------
Over == pc \in {"ended", "interrupted"}

\* A task starts only when everything it requires is complete: not when that
\* has raised or was cancelled, although its node leaves the graph then too.
StartsAfterRequirements ==
    [][\A k \in Tasks : outcome[k] = "none" /\ outcome'[k] # "none" =>
          \A j \in requires[k] : outcome[j] = "complete"]_vars

RaisedUpstream(k) ==
    \E j \in Tasks : outcome[j] = "raised" /\ k \in Downstream(GraphOf(requires), j)

\* What the caller is told is true.  When the group is over no generator is left
\* suspended; if it ends by itself it raises just when tasks have raised, and
\* when exceptions are aggregated every task ran that could have run.
EndIsTruthful ==
    /\ Over => \A k \in Tasks : outcome[k] # "running"
    /\ pc = "ended" =>
        /\ Range(errors) = {k \in Tasks : outcome[k] = "raised"}
        /\ errors = <<>> => \A k \in Tasks : outcome[k] = "complete"
        /\ group.aggregate =>
              \A k \in Tasks : outcome[k] \in {"none", "closed"} => RaisedUpstream(k)

\* Once a task has raised, the group is over in the end whatever the others do,
\* unless exceptions are aggregated; and if each task that runs ends, so does
\* the group: nobody waits for a task that will never start.
GroupEnds ==
    /\ errors # <<>> /\ ~group.aggregate ~> Over
    /\ <>[](\A k \in Tasks : outcome[k] # "running") => <>Over
=============================================================================
