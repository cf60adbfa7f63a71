-------------------------- MODULE SchedulerProofs --------------------------
(***************************************************************************)
(* A task of a DependencyTaskGroup starts after everything it requires is  *)
(* complete, and the end of the group is told as it is: for any number of  *)
(* tasks and any dependency trees.                                         *)
(*                                                                         *)
(* How far _cancel_recursively() reaches is a recursive function.  That it *)
(* is what the nodes' satisfy sets reach is proved by taking the least     *)
(* number of steps at which it would not be, since the library's theorems  *)
(* of induction cannot be used here.                                       *)
(***************************************************************************)
EXTENDS Scheduler, SequenceTheorems, FiniteSetTheorems, WellFoundedInduction, TLAPS

Nodes == [require : SUBSET Tasks, satisfy : SUBSET Tasks]

\* The types the argument needs.
Typed ==
    /\ requires \in [Tasks -> SUBSET Tasks]
    /\ outcome \in [Tasks -> Outcomes]
    /\ \A k \in DOMAIN graph : graph[k] \in Nodes
    /\ errors \in Seq(Tasks)

Waiting(k) == k \notin started /\ k \notin done

\* A task that waits has a node, and an edge to whatever is not complete of
\* what it requires.
WaitersHaveNodes ==
    \A k \in Tasks : Waiting(k) =>
        /\ k \in DOMAIN graph
        /\ \A j \in requires[k] : j \in graph[k].require \/ outcome[j] = "complete"

\* Nothing waits for a task that will not be complete.
NobodyWaitsInVain ==
    \A j \in Tasks : outcome[j] \in {"raised", "closed"} \/ j \in timed =>
        \A k \in Node(graph, j).satisfy : ~Waiting(k)

\* What the runners say of the tasks.
RunnersAgree ==
    \A k \in Tasks :
        /\ outcome[k] # "none" => ~Waiting(k)
        /\ k \in started => outcome[k] # "none"
        /\ outcome[k] = "running" => k \in started /\ k \notin done

\* The exceptions are the tasks that raised; as long as there are none, no runner
\* is cancelled.
ErrorsAgree ==
    pc # "interrupted" =>
        /\ \A k \in Tasks : (\E i \in DOMAIN errors : errors[i] = k) <=> outcome[k] = "raised"
        /\ errors = <<>> => /\ timed = {}
                            /\ \A k \in Tasks : outcome[k] # "closed"
                            /\ \A k \in Tasks : k \in done => outcome[k] = "complete"

OverIsDone == Over => Tasks \subseteq done

\* The inductive invariant.
SchedulerInv ==
    /\ Typed /\ WaitersHaveNodes /\ NobodyWaitsInVain /\ RunnersAgree
    /\ ErrorsAgree /\ OverIsDone

\* What the caller is told is true: no generator is left suspended when the group is
\* over; and a group that ends by itself raises just when tasks have raised, and
\* otherwise has completed all of them.
EndIsTold ==
    /\ Over => \A k \in Tasks : outcome[k] # "running"
    /\ pc = "ended" =>
        /\ Range(errors) = {k \in Tasks : outcome[k] = "raised"}
        /\ errors = <<>> => \A k \in Tasks : outcome[k] = "complete"
-----------------------------------------------------------------------------
(* The operators of the model.                                               *)

\* A node of a graph, or the empty one, has edges to tasks.
LEMMA NodeTyped ==
    ASSUME NEW k, \A m \in DOMAIN graph : graph[m] \in Nodes
    PROVE  /\ Node(graph, k) \in Nodes
           /\ Node(graph, k).require \subseteq Tasks /\ Node(graph, k).satisfy \subseteq Tasks
<1>1. Node(graph, k) \in Nodes
  BY DEF Node, Nodes, NoNode
<1> QED
  BY <1>1 DEF Nodes

\* Deleting a node takes its edges away, and brings back nodes without edges only.
LEMMA Deletes ==
    ASSUME \A m \in DOMAIN graph : graph[m] \in Nodes, NEW k \in Tasks, graph' = Del(graph, k)
    PROVE  /\ \A m \in DOMAIN graph' : graph'[m] \in Nodes
           /\ \A m \in DOMAIN graph : m # k => m \in DOMAIN graph'
           /\ \A m \in DOMAIN graph : m # k =>
                 \A j \in graph[m].require :
                    j \in graph'[m].require \/ (j = k /\ m \in Node(graph, k).satisfy)
           /\ \A m : Node(graph', m).satisfy \subseteq Node(graph, m).satisfy
<1> DEFINE above == Node(graph, k).satisfy
           lower(j) == [Node(graph, j) EXCEPT !.require = @ \ {k}]
<1>1. /\ DOMAIN graph' = (DOMAIN graph \cup above) \ {k}
      /\ \A j \in (DOMAIN graph \cup above) \ {k} :
            /\ j \in above => graph'[j] = lower(j)
            /\ j \notin above => graph'[j] = graph[j]
  BY DEF Del
<1>2. ASSUME NEW j
      PROVE  /\ lower(j) \in Nodes /\ lower(j).require = Node(graph, j).require \ {k}
             /\ lower(j).satisfy = Node(graph, j).satisfy
  <2>1. Node(graph, j) \in Nodes
    BY NodeTyped
  <2> DEFINE n == Node(graph, j)
  <2> HIDE DEF n
  <2>2. n \in Nodes => /\ [n EXCEPT !.require = @ \ {k}] \in Nodes
                       /\ [n EXCEPT !.require = @ \ {k}].require = n.require \ {k}
                       /\ [n EXCEPT !.require = @ \ {k}].satisfy = n.satisfy
    BY DEF Nodes
  <2> QED
    BY <2>1, <2>2 DEF n
<1> HIDE DEF above, lower
<1>3. \A m \in DOMAIN graph' : graph'[m] \in Nodes
  BY <1>1, <1>2
<1>4. \A m \in DOMAIN graph : m # k => m \in DOMAIN graph'
  BY <1>1
<1>5. ASSUME NEW m \in DOMAIN graph, m # k, NEW j \in graph[m].require
      PROVE  j \in graph'[m].require \/ (j = k /\ m \in above)
  <2>1. CASE m \in above
    <3>1. graph'[m].require = Node(graph, m).require \ {k} /\ Node(graph, m) = graph[m]
      BY <1>1, <1>2, <1>5, <2>1 DEF Node
    <3> QED
      BY <2>1, <3>1
  <2>2. CASE m \notin above
    <3>1. m \in (DOMAIN graph \cup above) \ {k}
      BY <1>5
    <3> QED
      BY <1>1, <2>2, <3>1
  <2> QED
    BY <2>1, <2>2
<1>6. ASSUME NEW m PROVE Node(graph', m).satisfy \subseteq Node(graph, m).satisfy
  <2>1. CASE m \notin DOMAIN graph'
    BY <2>1 DEF Node, NoNode
  <2>2. CASE m \in DOMAIN graph'
    <3>1. Node(graph', m) = graph'[m]
      BY <2>2 DEF Node
    <3>2. CASE m \in above
      BY <1>1, <1>2, <2>2, <3>1, <3>2
    <3>3. CASE m \notin above
      <4>1. m \in DOMAIN graph /\ graph'[m] = graph[m]
        BY <1>1, <2>2, <3>3
      <4> QED
        BY <3>1, <4>1 DEF Node
    <3> QED
      BY <3>2, <3>3
  <2> QED
    BY <2>1, <2>2
<1> QED
  BY <1>3, <1>4, <1>5, <1>6 DEF above

\* An exception is recorded.
LEMMA Recorded ==
    ASSUME errors \in Seq(Tasks), NEW k \in Tasks, errors' = Append(errors, k)
    PROVE  /\ errors' \in Seq(Tasks) /\ errors' # <<>>
           /\ \A m : (\E i \in DOMAIN errors' : errors'[i] = m)
                        <=> (m = k \/ \E i \in DOMAIN errors : errors[i] = m)
<1> DEFINE n == Len(errors)
<1>1. /\ errors' \in Seq(Tasks) /\ errors' # <<>> /\ n \in Nat
      /\ DOMAIN errors = 1..n /\ DOMAIN errors' = 1..(n + 1)
      /\ errors'[n + 1] = k /\ \A i \in 1..n : errors'[i] = errors[i]
  BY AppendProperties, LenProperties
<1> HIDE DEF n
<1>2. \A i \in DOMAIN errors' : i = n + 1 \/ i \in DOMAIN errors
  BY <1>1
<1>3. n + 1 \in DOMAIN errors' /\ \A i \in DOMAIN errors : i \in DOMAIN errors'
  BY <1>1
<1> QED
  BY <1>1, <1>2, <1>3

\* An error: task k, which waited or ran, has raised.
LEMMA ErrorKeeps ==
    ASSUME SchedulerInv, NEW k \in Tasks, NEW st, st = started \/ st = started \cup {k},
           \/ outcome[k] = "none" /\ Waiting(k)
           \/ outcome[k] = "running" /\ k \in started,
           pc # "interrupted", HandleError(k, st)
    PROVE  SchedulerInv'
<1> DEFINE D == Downstream(graph, k)
<1>1. /\ Typed /\ WaitersHaveNodes /\ NobodyWaitsInVain /\ RunnersAgree /\ ErrorsAgree
      /\ outcome \in [Tasks -> Outcomes] /\ requires \in [Tasks -> SUBSET Tasks]
      /\ \A m \in DOMAIN graph : graph[m] \in Nodes
  BY DEF SchedulerInv, Typed
<1>2. /\ started' = st /\ requires' = requires
      /\ pc' = IF done' = Tasks THEN "ended" ELSE "ready"
      /\ errors' = Append(errors, k)
  BY DEF HandleError, Again, Cancel
<1>3. /\ errors' \in Seq(Tasks) /\ errors' # <<>>
      /\ \A m : (\E i \in DOMAIN errors' : errors'[i] = m)
                   <=> (m = k \/ \E i \in DOMAIN errors : errors[i] = m)
  BY <1>1, <1>2, Recorded DEF Typed
<1>4. outcome[k] # "complete" /\ outcome[k] # "raised" /\ outcome[k] # "closed" /\ k \notin done
  BY <1>1 DEF RunnersAgree, Waiting
\* What both kinds of group have in common.
<1>5. ASSUME done \subseteq done', k \in done' \/ k \in started',
             outcome' \in [Tasks -> Outcomes], outcome'[k] = "raised",
             \A m \in Tasks \ {k} :
                 \/ outcome'[m] = outcome[m] /\ (outcome[m] = "running" => m \notin done')
                 \/ outcome[m] = "running" /\ outcome'[m] = "closed",
             \A m \in DOMAIN graph' : graph'[m] \in Nodes,
             WaitersHaveNodes', NobodyWaitsInVain'
      PROVE  SchedulerInv'
  <2>1. Typed'
    BY <1>1, <1>2, <1>3, <1>5 DEF Typed
  <2>2. RunnersAgree'
    BY <1>1, <1>2, <1>5 DEF RunnersAgree, Waiting
  <2>3. ErrorsAgree'
    <3>1. \A m \in Tasks : (\E i \in DOMAIN errors : errors[i] = m) <=> outcome[m] = "raised"
      BY <1>1 DEF ErrorsAgree
    <3>2. \A m \in Tasks : outcome'[m] = "raised" <=> m = k \/ outcome[m] = "raised"
      BY <1>5
    <3> QED
      BY <1>3, <3>1, <3>2 DEF ErrorsAgree
  <2>4. OverIsDone'
    BY <1>2 DEF OverIsDone, Over
  <2> QED
    BY <1>5, <2>1, <2>2, <2>3, <2>4 DEF SchedulerInv
<1>6. CASE group.aggregate /\
           /\ Cancel({k} \cup D, st, done, FALSE)
           /\ outcome' = Closed(D, [outcome EXCEPT ![k] = "raised"])
           /\ graph' = [j \in (DOMAIN graph \cup D) \ {k} |-> IF j \in D THEN NoNode ELSE graph[j]]
  <2> HIDE DEF D
  <2>1. done' = done \cup {k} \cup D /\ timed' = timed
    BY <1>6 DEF Cancel
  <2>2. /\ outcome' \in [Tasks -> Outcomes] /\ outcome'[k] = "raised"
        /\ \A m \in Tasks \ {k} : outcome'[m] = IF m \in D /\ outcome[m] = "running" THEN "closed"
                                                ELSE outcome[m]
    <3> DEFINE o == [outcome EXCEPT ![k] = "raised"]
    <3>1. o \in [Tasks -> Outcomes] /\ o[k] = "raised" /\ \A m \in Tasks \ {k} : o[m] = outcome[m]
      BY <1>1 DEF Outcomes
    <3>2. outcome' = Closed(D, o)
      BY <1>6
    <3> HIDE DEF o
    <3>3. outcome' = [m \in Tasks |-> IF m \in D /\ o[m] = "running" THEN "closed" ELSE o[m]]
      BY <3>2 DEF Closed
    <3>4. \A m \in Tasks : o[m] \in Outcomes /\ "closed" \in Outcomes
      BY <3>1 DEF Outcomes
    <3> QED
      BY <3>1, <3>3, <3>4
  <2>3. /\ DOMAIN graph' = (DOMAIN graph \cup D) \ {k}
        /\ \A j \in (DOMAIN graph \cup D) \ {k} : graph'[j] = IF j \in D THEN NoNode ELSE graph[j]
    BY <1>6
  <2>4. NoNode \in Nodes /\ NoNode.satisfy = {}
    BY DEF NoNode, Nodes
  <2>5. \A m \in DOMAIN graph' : graph'[m] \in Nodes
    BY <1>1, <2>3, <2>4
  <2>6. \A m \in Tasks : outcome[m] = "running" => m \notin done
    BY <1>1 DEF RunnersAgree
  <2>7. WaitersHaveNodes'
    <3> SUFFICES ASSUME NEW m \in Tasks, Waiting(m)'
                 PROVE  /\ m \in DOMAIN graph'
                        /\ \A j \in requires[m] : j \in graph'[m].require \/ outcome'[j] = "complete"
      BY <1>2 DEF WaitersHaveNodes
    <3>1. m # k /\ m \notin D /\ Waiting(m)
      BY <1>2, <2>1 DEF Waiting
    <3>2. m \in DOMAIN graph /\ graph'[m] = graph[m] /\ m \in DOMAIN graph'
      BY <1>1, <2>3, <3>1 DEF WaitersHaveNodes
    <3>3. ASSUME NEW j \in requires[m] PROVE j \in graph'[m].require \/ outcome'[j] = "complete"
      <4>1. j \in Tasks /\ (j \in graph[m].require \/ outcome[j] = "complete")
        BY <1>1, <3>1 DEF WaitersHaveNodes
      <4> QED
        BY <1>4, <2>2, <3>2, <4>1
    <3> QED
      BY <3>2, <3>3
  <2>8. NobodyWaitsInVain'
    <3> SUFFICES ASSUME NEW j \in Tasks, outcome'[j] \in {"raised", "closed"} \/ j \in timed',
                        NEW m \in Node(graph', j).satisfy
                 PROVE  ~Waiting(m)'
      BY DEF NobodyWaitsInVain
    <3>1. j \in DOMAIN graph' /\ j # k /\ j \notin D /\ j \in DOMAIN graph /\ graph'[j] = graph[j]
      BY <2>3, <2>4 DEF Node, NoNode
    <3>2. m \in Node(graph, j).satisfy
      BY <3>1 DEF Node
    <3>3. ~Waiting(m)
      BY <1>1, <2>1, <2>2, <3>1, <3>2 DEF NobodyWaitsInVain
    <3> QED
      BY <1>2, <2>1, <3>3 DEF Waiting
  <2> QED
    BY <1>5, <2>1, <2>2, <2>5, <2>6, <2>7, <2>8
<1>7. CASE ~group.aggregate /\
           /\ Cancel(Tasks, st, done, group.grace)
           /\ outcome' = Closed(IF group.grace THEN {} ELSE Tasks, [outcome EXCEPT ![k] = "raised"])
           /\ UNCHANGED graph
  <2>1. /\ done \subseteq done' /\ \A m \in Tasks : m \in done' \/ m \in started'
        /\ \A m \in Tasks : m \in done' => m \in done \/ m \notin st \/ ~group.grace
    BY <1>2, <1>7 DEF Cancel
  <2>2. /\ outcome' \in [Tasks -> Outcomes] /\ outcome'[k] = "raised"
        /\ \A m \in Tasks \ {k} : outcome'[m] = IF ~group.grace /\ outcome[m] = "running"
                                                THEN "closed" ELSE outcome[m]
    <3> DEFINE o == [outcome EXCEPT ![k] = "raised"]
               c == IF group.grace THEN {} ELSE Tasks
    <3>1. o \in [Tasks -> Outcomes] /\ o[k] = "raised" /\ \A m \in Tasks \ {k} : o[m] = outcome[m]
      BY <1>1 DEF Outcomes
    <3>2. outcome' = Closed(c, o) /\ \A m \in Tasks : m \in c <=> ~group.grace
      BY <1>7
    <3> HIDE DEF o, c
    <3>3. outcome' = [m \in Tasks |-> IF m \in c /\ o[m] = "running" THEN "closed" ELSE o[m]]
      BY <3>2 DEF Closed
    <3>4. \A m \in Tasks : o[m] \in Outcomes /\ "closed" \in Outcomes
      BY <3>1 DEF Outcomes
    <3> QED
      BY <3>1, <3>2, <3>3, <3>4
  <2>3. \A m \in Tasks : ~Waiting(m)'
    BY <2>1 DEF Waiting
  <2>4. WaitersHaveNodes'
    BY <2>3 DEF WaitersHaveNodes
  <2>5. NobodyWaitsInVain'
    <3>1. \A j : Node(graph, j).satisfy \subseteq Tasks
      BY <1>1, NodeTyped
    <3>2. graph' = graph
      BY <1>7
    <3> QED
      BY <2>3, <3>1, <3>2 DEF NobodyWaitsInVain
  <2>6. \A m \in Tasks : outcome[m] = "running" => m \notin done /\ m \in started /\ m \in st
    BY <1>1 DEF RunnersAgree
  <2>7. \A m \in Tasks \ {k} :
            \/ outcome'[m] = outcome[m] /\ (outcome[m] = "running" => m \notin done')
            \/ outcome[m] = "running" /\ outcome'[m] = "closed"
    BY <2>1, <2>2, <2>6
  <2> QED
    BY <1>1, <1>5, <1>7, <2>1, <2>2, <2>4, <2>5, <2>7
<1> QED
  BY <1>6, <1>7 DEF HandleError
\* The end of the node of k, which has started: whatever waits for k waits for
\* something complete.
LEMMA EndKeeps ==
    ASSUME SchedulerInv, NEW k \in Tasks, started' = started \cup {k}, done' = done \cup {k},
           graph' = Del(graph, k), outcome' \in [Tasks -> Outcomes],
           \A m \in Tasks \ {k} : outcome'[m] = outcome[m],
           outcome'[k] \notin {"none", "running"}, outcome[k] = "complete" => outcome'[k] = "complete",
           outcome'[k] # "complete" => k \in started /\ (outcome[k] \in {"raised", "closed"} \/ k \in timed),
           outcome[k] = "raised" <=> outcome'[k] = "raised",
           UNCHANGED <<requires, timed, errors>>, pc \in {"ready", "running"}, pc' = pc
    PROVE  SchedulerInv'
<1>1. /\ Typed /\ WaitersHaveNodes /\ NobodyWaitsInVain /\ RunnersAgree /\ ErrorsAgree
      /\ outcome \in [Tasks -> Outcomes] /\ requires \in [Tasks -> SUBSET Tasks]
      /\ \A m \in DOMAIN graph : graph[m] \in Nodes
  BY DEF SchedulerInv, Typed
<1>2. /\ \A m \in DOMAIN graph' : graph'[m] \in Nodes
      /\ \A m \in DOMAIN graph : m # k => m \in DOMAIN graph'
      /\ \A m \in DOMAIN graph : m # k =>
            \A j \in graph[m].require :
               j \in graph'[m].require \/ (j = k /\ m \in Node(graph, k).satisfy)
      /\ \A m : Node(graph', m).satisfy \subseteq Node(graph, m).satisfy
  BY <1>1, Deletes
<1>3. Typed'
  BY <1>1, <1>2 DEF Typed
<1>4. \A m : Waiting(m)' => Waiting(m) /\ m # k
  BY DEF Waiting
<1>5. WaitersHaveNodes'
  <2> SUFFICES ASSUME NEW m \in Tasks, Waiting(m)'
               PROVE  /\ m \in DOMAIN graph'
                      /\ \A j \in requires[m] : j \in graph'[m].require \/ outcome'[j] = "complete"
    BY DEF WaitersHaveNodes
  <2>1. Waiting(m) /\ m # k /\ m \in DOMAIN graph /\ m \in DOMAIN graph'
    BY <1>1, <1>2, <1>4 DEF WaitersHaveNodes
  <2>2. ASSUME NEW j \in requires[m] PROVE j \in graph'[m].require \/ outcome'[j] = "complete"
    <3>1. j \in Tasks /\ (j \in graph[m].require \/ outcome[j] = "complete")
      BY <1>1, <2>1 DEF WaitersHaveNodes
    <3>2. CASE outcome[j] = "complete"
      BY <3>1, <3>2
    <3>3. CASE j \in graph[m].require /\ j # k
      BY <1>2, <2>1, <3>3
    <3>4. CASE j \in graph[m].require /\ j = k
      <4>1. ASSUME outcome'[k] # "complete", m \in Node(graph, k).satisfy PROVE FALSE
        BY <1>1, <2>1, <4>1 DEF NobodyWaitsInVain
      <4> QED
        BY <1>2, <2>1, <3>4, <4>1
    <3> QED
      BY <3>1, <3>2, <3>3, <3>4
  <2> QED
    BY <2>1, <2>2
<1>6. NobodyWaitsInVain'
  <2> SUFFICES ASSUME NEW j \in Tasks, outcome'[j] \in {"raised", "closed"} \/ j \in timed',
                      NEW m \in Node(graph', j).satisfy
               PROVE  ~Waiting(m)'
    BY DEF NobodyWaitsInVain
  <2>1. outcome[j] \in {"raised", "closed"} \/ j \in timed
    OBVIOUS
  <2>2. m \in Node(graph, j).satisfy
    BY <1>2
  <2> QED
    BY <1>1, <1>4, <2>1, <2>2 DEF NobodyWaitsInVain
<1>7. RunnersAgree'
  BY <1>1 DEF RunnersAgree, Waiting
<1>8. ErrorsAgree'
  <2>1. /\ \A m \in Tasks : (\E i \in DOMAIN errors : errors[i] = m) <=> outcome[m] = "raised"
        /\ errors = <<>> => /\ timed = {}
                            /\ \A m \in Tasks : outcome[m] # "closed"
                            /\ \A m \in Tasks : m \in done => outcome[m] = "complete"
    BY <1>1 DEF ErrorsAgree
  <2>2. \A m \in Tasks : outcome[m] = "raised" <=> outcome'[m] = "raised"
    OBVIOUS
  <2>3. ASSUME errors = <<>> PROVE outcome'[k] = "complete"
    <3>1. outcome[k] # "raised" /\ outcome[k] # "closed" /\ k \notin timed
      BY <2>1, <2>3, EmptySeq
    <3> QED
      BY <3>1
  <2>4. errors = <<>> => /\ timed' = {}
                         /\ \A m \in Tasks : outcome'[m] # "closed"
                         /\ \A m \in Tasks : m \in done' => outcome'[m] = "complete"
    BY <2>1, <2>3
  <2> QED
    BY <2>1, <2>2, <2>4 DEF ErrorsAgree
<1>9. OverIsDone'
  BY DEF OverIsDone, Over
<1> QED
  BY <1>3, <1>5, <1>6, <1>7, <1>8, <1>9 DEF SchedulerInv

\* The group is interrupted, after the step of a task that may have raised.
LEMMA InterruptKeeps ==
    ASSUME SchedulerInv, NEW out \in [Tasks -> Outcomes], Interrupt(out),
           \A m \in Tasks : \/ out[m] = outcome[m]
                            \/ outcome[m] = "running" /\ out[m] = "raised"
    PROVE  SchedulerInv'
<1>1. Typed /\ RunnersAgree /\ \A m \in DOMAIN graph : graph[m] \in Nodes
  BY DEF SchedulerInv, Typed
<1>2. /\ started' = started /\ Tasks \subseteq done' /\ pc' = "interrupted"
      /\ UNCHANGED <<requires, graph, errors>>
      /\ outcome' = [m \in Tasks |-> IF m \in Tasks /\ out[m] = "running" THEN "closed" ELSE out[m]]
  BY DEF Interrupt, Cancel, Closed
<1>3. outcome' \in [Tasks -> Outcomes]
  BY <1>2 DEF Outcomes
<1>4. Typed'
  BY <1>1, <1>2, <1>3 DEF Typed
<1>5. \A m \in Tasks : ~Waiting(m)'
  BY <1>2 DEF Waiting
<1>6. WaitersHaveNodes'
  BY <1>5 DEF WaitersHaveNodes
<1>7. NobodyWaitsInVain'
  <2>1. \A j : Node(graph, j).satisfy \subseteq Tasks
    BY <1>1, NodeTyped
  <2> QED
    BY <1>2, <1>5, <2>1 DEF NobodyWaitsInVain
<1>8. RunnersAgree'
  <2> SUFFICES ASSUME NEW m \in Tasks
               PROVE  /\ outcome'[m] # "running"
                      /\ m \in started => outcome'[m] # "none"
    BY <1>2, <1>5 DEF RunnersAgree
  <2> QED
    BY <1>1, <1>2 DEF RunnersAgree
<1>9. ErrorsAgree' /\ OverIsDone'
  BY <1>2 DEF ErrorsAgree, OverIsDone
<1> QED
  BY <1>4, <1>6, <1>7, <1>8, <1>9 DEF SchedulerInv

\* A step in which no task starts or ends.
LEMMA QuietKeeps ==
    ASSUME SchedulerInv, UNCHANGED <<requires, graph, runners, errors>>,
           pc \notin {"ended", "interrupted"},
           pc' \in {"ready", "yield", "running"} \/ (pc' = "ended" /\ done' = Tasks)
    PROVE  SchedulerInv'
<1>1. /\ Typed /\ WaitersHaveNodes /\ NobodyWaitsInVain /\ RunnersAgree /\ ErrorsAgree
      /\ started' = started /\ done' = done /\ timed' = timed /\ outcome' = outcome
  BY DEF SchedulerInv, runners
<1>2. Typed' /\ WaitersHaveNodes' /\ NobodyWaitsInVain'
  BY <1>1 DEF Typed, WaitersHaveNodes, NobodyWaitsInVain, Waiting
<1>3. RunnersAgree' /\ ErrorsAgree'
  BY <1>1 DEF RunnersAgree, ErrorsAgree, Waiting
<1>4. OverIsDone'
  BY DEF OverIsDone, Over
<1> QED
  BY <1>2, <1>3, <1>4 DEF SchedulerInv

\* A task that yields starts.
LEMMA StartKeeps ==
    ASSUME SchedulerInv, NEW k \in Tasks, Start(k)
    PROVE  SchedulerInv'
<1>1. /\ Typed /\ WaitersHaveNodes /\ NobodyWaitsInVain /\ RunnersAgree /\ ErrorsAgree
      /\ outcome \in [Tasks -> Outcomes] /\ requires \in [Tasks -> SUBSET Tasks]
  BY DEF SchedulerInv, Typed
<1>2. /\ Waiting(k) /\ started' = started \cup {k} /\ outcome' = [outcome EXCEPT ![k] = "running"]
      /\ UNCHANGED <<requires, graph, done, timed, pc, errors>> /\ pc = "ready"
  BY DEF Start, AtReady, IsReady, Waiting
<1>3. outcome[k] = "none"
  BY <1>1, <1>2 DEF RunnersAgree
<1>4. /\ outcome' \in [Tasks -> Outcomes] /\ outcome'[k] = "running"
      /\ \A m \in Tasks \ {k} : outcome'[m] = outcome[m]
  BY <1>1, <1>2 DEF Outcomes
<1>5. Typed'
  BY <1>1, <1>2, <1>4 DEF Typed
<1>6. \A m : Waiting(m)' => Waiting(m) /\ m # k
  BY <1>2 DEF Waiting
<1>7. WaitersHaveNodes'
  <2> SUFFICES ASSUME NEW m \in Tasks, Waiting(m)'
               PROVE  /\ m \in DOMAIN graph
                      /\ \A j \in requires[m] : j \in graph[m].require \/ outcome'[j] = "complete"
    BY <1>2 DEF WaitersHaveNodes
  <2>1. \A j \in requires[m] : j \in Tasks
    BY <1>1
  <2> QED
    BY <1>1, <1>3, <1>4, <1>6, <2>1 DEF WaitersHaveNodes
<1>8. NobodyWaitsInVain'
  <2> SUFFICES ASSUME NEW j \in Tasks, outcome'[j] \in {"raised", "closed"} \/ j \in timed,
                      NEW m \in Node(graph, j).satisfy
               PROVE  ~Waiting(m)'
    BY <1>2 DEF NobodyWaitsInVain
  <2>1. outcome[j] \in {"raised", "closed"} \/ j \in timed
    BY <1>4
  <2> QED
    BY <1>1, <1>6, <2>1 DEF NobodyWaitsInVain
<1>9. RunnersAgree'
  BY <1>1, <1>2, <1>4 DEF RunnersAgree, Waiting
<1>10. ErrorsAgree'
  BY <1>1, <1>2, <1>3, <1>4 DEF ErrorsAgree, Waiting
<1>11. OverIsDone'
  BY <1>2 DEF OverIsDone, Over
<1> QED
  BY <1>5, <1>7, <1>8, <1>9, <1>10, <1>11 DEF SchedulerInv
\* Nothing the invariant is about changes.
LEMMA StaysKeeps ==
    ASSUME SchedulerInv, UNCHANGED <<requires, graph, runners, errors, pc>>
    PROVE  SchedulerInv'
<1>1. /\ Typed /\ WaitersHaveNodes /\ NobodyWaitsInVain /\ RunnersAgree /\ ErrorsAgree
      /\ OverIsDone
      /\ started' = started /\ done' = done /\ timed' = timed /\ outcome' = outcome
  BY DEF SchedulerInv, runners
<1>2. Typed' /\ WaitersHaveNodes' /\ NobodyWaitsInVain'
  BY <1>1 DEF Typed, WaitersHaveNodes, NobodyWaitsInVain, Waiting
<1>3. RunnersAgree' /\ ErrorsAgree' /\ OverIsDone'
  BY <1>1 DEF RunnersAgree, ErrorsAgree, Waiting, OverIsDone, Over
<1> QED
  BY <1>2, <1>3 DEF SchedulerInv

\* What is known of a task that is about to start, or to step.
LEMMA ReadyOrRunning ==
    ASSUME SchedulerInv, NEW k \in Tasks
    PROVE  /\ AtReady(k) => /\ outcome[k] = "none" /\ Waiting(k) /\ pc = "ready"
                            /\ \A j \in requires[k] : outcome[j] = "complete"
           /\ AtRunning(k) => k \in started /\ outcome[k] # "none" /\ pc = "running"
<1>1. WaitersHaveNodes /\ RunnersAgree
  BY DEF SchedulerInv
<1> QED
  BY <1>1 DEF WaitersHaveNodes, RunnersAgree, AtReady, IsReady, AtRunning, IsRunning, Waiting

\* A task that is complete at once.
LEMMA StartCompletesKeeps ==
    ASSUME SchedulerInv, NEW k \in Tasks, StartCompletes(k)
    PROVE  SchedulerInv'
<1>1. outcome \in [Tasks -> Outcomes] /\ outcome[k] = "none" /\ pc = "ready"
  BY ReadyOrRunning DEF StartCompletes, SchedulerInv, Typed
<1>2. /\ started' = started \cup {k} /\ done' = done \cup {k} /\ graph' = Del(graph, k)
      /\ outcome' = [outcome EXCEPT ![k] = "complete"]
      /\ UNCHANGED <<requires, timed, errors>> /\ pc' = pc
  BY DEF StartCompletes
<1>3. /\ outcome' \in [Tasks -> Outcomes] /\ outcome'[k] = "complete"
      /\ \A m \in Tasks \ {k} : outcome'[m] = outcome[m]
  BY <1>1, <1>2 DEF Outcomes
<1> QED
  BY <1>1, <1>2, <1>3, EndKeeps

\* A task that returns, whose grace period has expired, or that had raised before.
LEMMA StepEndsKeeps ==
    ASSUME SchedulerInv, NEW k \in Tasks, StepEnds(k)
    PROVE  SchedulerInv'
<1> DEFINE o == IF outcome[k] # "running" THEN outcome[k]
                ELSE IF Expired(k) THEN "closed" ELSE "complete"
<1>1. /\ outcome \in [Tasks -> Outcomes] /\ k \in started /\ outcome[k] # "none"
      /\ pc = "running"
  BY ReadyOrRunning DEF StepEnds, SchedulerInv, Typed
<1>2. /\ started' = started \cup {k} /\ done' = done \cup {k} /\ graph' = Del(graph, k)
      /\ outcome' = [outcome EXCEPT ![k] = o]
      /\ UNCHANGED <<requires, timed, errors>> /\ pc' = pc
  BY <1>1 DEF StepEnds
<1>3. /\ o \in Outcomes /\ o # "none" /\ o # "running"
      /\ outcome[k] = "complete" => o = "complete"
      /\ o # "complete" => outcome[k] \in {"raised", "closed"} \/ k \in timed
      /\ outcome[k] = "raised" <=> o = "raised"
  <2>1. outcome[k] \in Outcomes
    BY <1>1
  <2> QED
    BY <1>1, <2>1 DEF Outcomes, Expired
<1> HIDE DEF o
<1>4. /\ outcome' \in [Tasks -> Outcomes] /\ outcome'[k] = o
      /\ \A m \in Tasks \ {k} : outcome'[m] = outcome[m]
  BY <1>1, <1>2, <1>3
<1> QED
  BY <1>1, <1>2, <1>3, <1>4, EndKeeps
-----------------------------------------------------------------------------
(* The theorems.                                                             *)

\* The graph of a new group has a node for each task, and no runner has begun.
LEMMA SchedulerInitially == Init => SchedulerInv
<1> SUFFICES ASSUME Init PROVE SchedulerInv
  OBVIOUS
<1>1. requires \in [Tasks -> SUBSET Tasks]
  <2>1. PICK req \in Trees : requires = IF group.reverse THEN ReverseOf(req) ELSE req
    BY DEF Init
  <2>2. req \in [Tasks -> SUBSET Tasks]
    BY <2>1, SchedulerAssumption
  <2>3. ReverseOf(req) \in [Tasks -> SUBSET Tasks]
    BY DEF ReverseOf, Dependents
  <2> QED
    BY <2>1, <2>2, <2>3
<1>2. /\ graph = [k \in Tasks |-> [require |-> requires[k], satisfy |-> Dependents(requires, k)]]
      /\ outcome = [k \in Tasks |-> "none"] /\ errors = <<>>
      /\ started = {} /\ done = {} /\ timed = {} /\ pc = "ready"
  BY DEF Init, GraphOf
<1>3. \A k \in Tasks : requires[k] \subseteq Tasks /\ Dependents(requires, k) \subseteq Tasks
  BY <1>1 DEF Dependents
<1>4. Typed
  <2>1. \A k \in DOMAIN graph : graph[k] \in Nodes
    BY <1>2, <1>3 DEF Nodes
  <2>2. outcome \in [Tasks -> Outcomes] /\ errors \in Seq(Tasks)
    BY <1>2, EmptySeq DEF Outcomes
  <2> QED
    BY <1>1, <2>1, <2>2 DEF Typed
<1>5. WaitersHaveNodes
  BY <1>2 DEF WaitersHaveNodes
<1>6. NobodyWaitsInVain /\ RunnersAgree /\ OverIsDone
  BY <1>2 DEF NobodyWaitsInVain, RunnersAgree, OverIsDone, Over
<1>7. ErrorsAgree
  <2>1. DOMAIN errors = {}
    BY <1>2, EmptySeq
  <2> QED
    BY <1>2, <2>1 DEF ErrorsAgree
<1> QED
  BY <1>4, <1>5, <1>6, <1>7 DEF SchedulerInv

\* Whatever the group does.
LEMMA SchedulerStep == SchedulerInv /\ [Next]_vars => SchedulerInv'
<1> SUFFICES ASSUME SchedulerInv, [Next]_vars PROVE SchedulerInv'
  OBVIOUS
<1>1. outcome \in [Tasks -> Outcomes] /\ RunnersAgree
  BY DEF SchedulerInv, Typed
<1>2. CASE Skip
  BY <1>2, QuietKeeps DEF Skip
<1>3. CASE Yield
  BY <1>3, QuietKeeps DEF Yield
<1>4. CASE Resume
  BY <1>4, QuietKeeps DEF Resume
<1>5. CASE InterruptGroup
  BY <1>1, <1>5, InterruptKeeps DEF InterruptGroup
<1>6. CASE EndPass
  BY <1>6, QuietKeeps DEF EndPass, Again
<1>7. ASSUME NEW k \in Tasks, StartRaises(k) PROVE SchedulerInv'
  <2>1. PICK st \in {started, started \cup {k}} : HandleError(k, st)
    BY <1>7 DEF StartRaises
  <2>2. outcome[k] = "none" /\ Waiting(k) /\ pc = "ready"
    BY <1>7, ReadyOrRunning DEF StartRaises
  <2> QED
    BY <2>1, <2>2, ErrorKeeps
<1>8. ASSUME NEW k \in Tasks, Step(k) PROVE SchedulerInv'
  <2>1. pc = "running"
    BY <1>8 DEF Step, AtRunning
  <2> QED
    BY <1>8, <2>1, QuietKeeps DEF Step
<1>9. ASSUME NEW k \in Tasks, StepRaises(k) PROVE SchedulerInv'
  <2>1. /\ outcome[k] = "running" /\ k \in started /\ pc = "running" /\ HandleError(k, started)
    BY <1>9, ReadyOrRunning DEF StepRaises
  <2> QED
    BY <2>1, ErrorKeeps
<1>10. ASSUME NEW k \in Tasks, Killed(k) PROVE SchedulerInv'
  <2> DEFINE out == [outcome EXCEPT ![k] = "raised"]
  <2>1. outcome[k] = "running" /\ Interrupt(out)
    BY <1>10 DEF Killed
  <2>2. out \in [Tasks -> Outcomes] /\ out[k] = "raised" /\ \A m \in Tasks \ {k} : out[m] = outcome[m]
    BY <1>1 DEF Outcomes
  <2> HIDE DEF out
  <2> QED
    BY <2>1, <2>2, InterruptKeeps
<1>11. CASE GraceEnds
  BY <1>11, StaysKeeps DEF GraceEnds
<1>12. CASE UNCHANGED vars
  BY <1>12, StaysKeeps DEF vars
<1> QED
  BY <1>2, <1>3, <1>4, <1>5, <1>6, <1>7, <1>8, <1>9, <1>10, <1>11, <1>12,
     StartKeeps, StartCompletesKeeps, StepEndsKeeps DEF Next, GroupStep

\* The graph, the runners and the exceptions agree, whatever the dependency tree.
THEOREM SchedulerInvariant == Spec => []SchedulerInv
  BY SchedulerInitially, SchedulerStep, PTL DEF Spec

\* Only a task that _ready() has found begins to run.
LEMMA OnlyReadyStarts ==
    ASSUME SchedulerInv, [Next]_vars, NEW k \in Tasks, outcome[k] = "none", outcome'[k] # "none"
    PROVE  AtReady(k)
<1>1. outcome \in [Tasks -> Outcomes] /\ RunnersAgree
  BY DEF SchedulerInv, Typed
<1>2. \A c, o : o \in [Tasks -> Outcomes] /\ o[k] = "none" => Closed(c, o)[k] = "none"
  BY DEF Closed
<1>3. ASSUME NEW j \in Tasks, NEW st, HandleError(j, st) PROVE j = k
  <2>1. SUFFICES ASSUME j # k PROVE FALSE
    OBVIOUS
  <2> DEFINE o == [outcome EXCEPT ![j] = "raised"]
  <2>2. o \in [Tasks -> Outcomes] /\ o[k] = "none"
    BY <1>1, <2>1 DEF Outcomes
  <2>3. \E c : outcome' = Closed(c, o)
    BY <1>3 DEF HandleError
  <2> HIDE DEF o
  <2> QED
    BY <1>2, <2>2, <2>3
<1>4. ASSUME NEW o \in [Tasks -> Outcomes], o[k] = "none", Interrupt(o) PROVE FALSE
  BY <1>2, <1>4 DEF Interrupt
<1>5. ~InterruptGroup
  BY <1>1, <1>4 DEF InterruptGroup
<1>6. outcome' # outcome
  OBVIOUS
<1>7. ~Skip /\ ~Yield /\ ~Resume /\ ~EndPass /\ ~GraceEnds /\ ~UNCHANGED vars
  BY <1>6 DEF Skip, Yield, Resume, EndPass, GraceEnds, runners, vars
<1>8. ASSUME NEW j \in Tasks, Start(j) \/ StartCompletes(j) PROVE AtReady(k)
  BY <1>1, <1>8 DEF Start, StartCompletes
<1>9. ASSUME NEW j \in Tasks, StartRaises(j) PROVE AtReady(k)
  BY <1>3, <1>9 DEF StartRaises
<1>10. ASSUME NEW j \in Tasks, StepRaises(j) PROVE AtReady(k)
  BY <1>3, <1>10 DEF StepRaises
<1>11. ASSUME NEW j \in Tasks, Step(j) PROVE FALSE
  BY <1>6, <1>11 DEF Step, runners
<1>12. ASSUME NEW j \in Tasks, StepEnds(j) PROVE FALSE
  <2>1. outcome[j] # "none"
    BY <1>12, ReadyOrRunning DEF StepEnds
  <2>2. j # k
    BY <2>1
  <2> QED
    BY <1>1, <1>12, <2>2 DEF StepEnds
<1>13. ASSUME NEW j \in Tasks, Killed(j) PROVE FALSE
  <2> DEFINE o == [outcome EXCEPT ![j] = "raised"]
  <2>1. outcome[j] = "running" /\ Interrupt(o)
    BY <1>13 DEF Killed
  <2>2. o \in [Tasks -> Outcomes] /\ o[k] = "none"
    BY <1>1, <2>1 DEF Outcomes
  <2> HIDE DEF o
  <2> QED
    BY <1>4, <2>1, <2>2
<1> QED
  BY <1>5, <1>7, <1>8, <1>9, <1>10, <1>11, <1>12, <1>13 DEF Next, GroupStep

\* _ready(): a task starts only when everything it requires is complete, although
\* the nodes of tasks that raised or were cancelled leave the graph as well.
THEOREM TasksStartAfterRequirements == Spec => StartsAfterRequirements
<1>1. SchedulerInv /\ [Next]_vars =>
        [\A k \in Tasks : outcome[k] = "none" /\ outcome'[k] # "none" =>
            \A j \in requires[k] : outcome[j] = "complete"]_vars
  BY OnlyReadyStarts, ReadyOrRunning
<1> QED
  BY <1>1, SchedulerInvariant, PTL DEF Spec, StartsAfterRequirements

\* What the invariant says of the end of the group.
LEMMA InvariantTells == SchedulerInv => EndIsTold
<1> SUFFICES ASSUME SchedulerInv PROVE EndIsTold
  OBVIOUS
<1>1. RunnersAgree /\ ErrorsAgree /\ OverIsDone
  BY DEF SchedulerInv
<1>2. Over => \A k \in Tasks : outcome[k] # "running"
  BY <1>1 DEF RunnersAgree, OverIsDone
<1>3. ASSUME pc = "ended" PROVE Range(errors) = {k \in Tasks : outcome[k] = "raised"}
  <2>1. \A k \in Tasks : (\E i \in DOMAIN errors : errors[i] = k) <=> outcome[k] = "raised"
    BY <1>1, <1>3 DEF ErrorsAgree
  <2>2. \A i \in DOMAIN errors : errors[i] \in Tasks
    BY ElementOfSeq, LenProperties DEF SchedulerInv, Typed
  <2>3. Range(errors) = {errors[i] : i \in DOMAIN errors}
    BY DEF Range
  <2> QED
    BY <2>1, <2>2, <2>3
<1>4. ASSUME pc = "ended", errors = <<>> PROVE \A k \in Tasks : outcome[k] = "complete"
  BY <1>1, <1>4 DEF ErrorsAgree, OverIsDone, Over
<1> QED
  BY <1>2, <1>3, <1>4 DEF EndIsTold

-----------------------------------------------------------------------------
(* What is downstream of a task.  The theorems of induction of the library   *)
(* do not apply here; that every set of natural numbers has a least element  *)
(* does the same.                                                            *)

\* A set of natural numbers that is not empty has a least element.
LEMMA LeastNumber ==
    ASSUME NEW S \in SUBSET Nat, S # {}
    PROVE  \E x \in S : \A y \in S : x <= y
<1> DEFINE R == {ss \in Nat \X Nat : ss[1] < ss[2]}
<1>1. IsWellFoundedOn(R, Nat)
  BY NatLessThanWellFounded DEF OpToRel
<1>2. \A x, y \in Nat : <<x, y>> \in R <=> x < y
  OBVIOUS
<1> HIDE DEF R
<1>3. PICK x \in S : \A y \in S : ~(<<y, x>> \in R)
  BY <1>1, WFMin
<1>4. ASSUME NEW y \in S PROVE x <= y
  <2>1. x \in Nat /\ y \in Nat
    BY <1>3
  <2>2. ~(y < x)
    BY <1>2, <1>3, <2>1
  <2> QED
    BY <2>1, <2>2
<1> QED
  BY <1>4

\* The tasks that are one edge further.
Further(g, A) == A \cup UNION {Node(g, j).satisfy : j \in A}

\* The function in Downstream, up to a number of edges.
IsReach(f, g, k, n) ==
    f = [i \in 0..n |-> IF i = 0 THEN Node(g, k).satisfy ELSE Further(g, f[i - 1])]

\* There is such a function: a shortest one that is missing would extend another.
LEMMA ReachExists ==
    ASSUME NEW g, NEW k, NEW n \in Nat
    PROVE  \E f : IsReach(f, g, k, n)
<1> DEFINE S == {m \in Nat : ~\E f : IsReach(f, g, k, m)}
<1>1. SUFFICES ASSUME S # {} PROVE FALSE
  OBVIOUS
<1>2. PICK m \in S : \A y \in S : m <= y
  <2>1. S \in SUBSET Nat
    OBVIOUS
  <2> HIDE DEF S
  <2> QED
    BY <1>1, <2>1, LeastNumber
<1>3. m \in Nat /\ ~\E f : IsReach(f, g, k, m)
  BY <1>2
<1>4. CASE m = 0
  <2> DEFINE f == [i \in 0..0 |-> Node(g, k).satisfy]
  <2>1. f = [i \in 0..0 |-> IF i = 0 THEN Node(g, k).satisfy ELSE Further(g, f[i - 1])]
    <3>1. \A i \in 0..0 : i = 0
      OBVIOUS
    <3> QED
      BY <3>1
  <2> QED
    BY <1>3, <1>4, <2>1 DEF IsReach
<1>5. CASE m # 0
  <2>1. m - 1 \in Nat /\ ~(m <= m - 1)
    BY <1>3, <1>5
  <2>2. m - 1 \notin S
    BY <1>2, <2>1
  <2>3. PICK e : IsReach(e, g, k, m - 1)
    BY <2>1, <2>2
  <2> DEFINE f == [i \in 0..m |-> IF i = m THEN Further(g, e[m - 1]) ELSE e[i]]
             t == [i \in 0..m |-> IF i = 0 THEN Node(g, k).satisfy ELSE Further(g, f[i - 1])]
  <2>4. \A i \in 0..(m - 1) : e[i] = IF i = 0 THEN Node(g, k).satisfy ELSE Further(g, e[i - 1])
    BY <2>1, <2>3 DEF IsReach
  <2>5. ASSUME NEW i \in 0..m PROVE f[i] = t[i]
    <3>1. CASE i = m
      <4>1. f[i] = Further(g, e[m - 1]) /\ m - 1 \in 0..m /\ m - 1 # m
        BY <1>3, <2>1, <3>1
      <4>2. t[i] = Further(g, f[m - 1]) /\ f[m - 1] = e[m - 1]
        BY <1>5, <3>1, <4>1
      <4> QED
        BY <4>1, <4>2
    <3>2. CASE i = 0
      <4>1. 0 \in 0..(m - 1)
        BY <2>1
      <4> QED
        BY <1>5, <2>4, <3>2, <4>1
    <3>3. CASE i # m /\ i # 0
      <4>1. i \in 0..(m - 1) /\ i - 1 \in 0..m /\ i - 1 # m
        BY <1>3, <3>3
      <4>2. f[i] = e[i] /\ f[i - 1] = e[i - 1] /\ t[i] = Further(g, f[i - 1])
        BY <3>3, <4>1
      <4> QED
        BY <2>4, <3>3, <4>1, <4>2
    <3> QED
      BY <3>1, <3>2, <3>3
  <2>6. f = t
    BY <2>5
  <2> QED
    BY <1>3, <2>6 DEF IsReach
<1> QED
  BY <1>4, <1>5

\* Downstream is the last value of such a function.
LEMMA DownstreamIsReach ==
    ASSUME NEW g, NEW k
    PROVE  \E f : IsReach(f, g, k, Cardinality(Tasks)) /\ Downstream(g, k) = f[Cardinality(Tasks)]
<1> DEFINE N == Cardinality(Tasks)
           r == CHOOSE f : f = [i \in 0..N |->
                    IF i = 0 THEN Node(g, k).satisfy
                    ELSE f[i - 1] \cup UNION {Node(g, j).satisfy : j \in f[i - 1]}]
<1>1. N \in Nat
  BY SchedulerAssumption, FS_CardinalityType
<1>2. Downstream(g, k) = r[N]
  BY DEF Downstream
<1> HIDE DEF N
<1>3. \E f : IsReach(f, g, k, N)
  BY <1>1, ReachExists
<1>4. IsReach(r, g, k, N)
  BY <1>3 DEF IsReach, Further
<1> QED
  BY <1>2, <1>4 DEF N
\* A graph with fewer edges reaches no more.
LEMMA DownstreamGrows ==
    ASSUME NEW g, NEW h, NEW k \in Tasks,
           \A j \in Tasks : Node(g, j).satisfy \subseteq Node(h, j).satisfy,
           \A j \in Tasks : Node(g, j).satisfy \subseteq Tasks
    PROVE  Downstream(g, k) \subseteq Downstream(h, k) /\ Downstream(g, k) \subseteq Tasks
<1> DEFINE N == Cardinality(Tasks)
<1>1. N \in Nat
  BY SchedulerAssumption, FS_CardinalityType
<1>2. PICK e : IsReach(e, g, k, N) /\ Downstream(g, k) = e[N]
  BY DownstreamIsReach
<1>3. PICK f : IsReach(f, h, k, N) /\ Downstream(h, k) = f[N]
  BY DownstreamIsReach
<1> HIDE DEF N
<1> DEFINE Fine(i) == e[i] \subseteq f[i] /\ e[i] \subseteq Tasks
           S == {i \in 0..N : ~Fine(i)}
<1>4. S = {}
  <2>1. SUFFICES ASSUME S # {} PROVE FALSE
    OBVIOUS
  <2>2. PICK m \in S : \A y \in S : m <= y
    <3>1. S \in SUBSET Nat
      BY <1>1
    <3> HIDE DEF S
    <3> QED
      BY <2>1, <3>1, LeastNumber
  <2>3. m \in 0..N /\ ~Fine(m)
    BY <2>2
  <2>4. m # 0
    <3>1. 0 \in 0..N
      BY <1>1
    <3>2. e[0] = Node(g, k).satisfy /\ f[0] = Node(h, k).satisfy
      BY <1>2, <1>3, <3>1 DEF IsReach
    <3> QED
      BY <2>3, <3>2
  <2>5. m - 1 \in 0..N /\ ~(m <= m - 1)
    BY <1>1, <2>3, <2>4
  <2>6. Fine(m - 1)
    BY <2>2, <2>5
  <2>7. e[m] = Further(g, e[m - 1]) /\ f[m] = Further(h, f[m - 1])
    BY <1>2, <1>3, <2>3, <2>4 DEF IsReach
  <2> DEFINE a == e[m - 1]
             b == f[m - 1]
  <2>8. a \subseteq b /\ a \subseteq Tasks
    BY <2>6
  <2> HIDE DEF a, b
  <2>9. Further(g, a) \subseteq Further(h, b) /\ Further(g, a) \subseteq Tasks
    BY <2>8 DEF Further
  <2> QED
    BY <2>3, <2>7, <2>9 DEF a, b
<1>5. N \in 0..N
  BY <1>1
<1> QED
  BY <1>2, <1>3, <1>4, <1>5

\* Edges are never added; and when exceptions are aggregated a task that is
\* cancelled depends on one that has raised.
NoNewEdges ==
    \A k \in Tasks : Node(graph, k).satisfy \subseteq Node(GraphOf(requires), k).satisfy

CancelledDownstream ==
    group.aggregate /\ pc # "interrupted" =>
        /\ timed = {}
        /\ \A k \in Tasks : outcome[k] = "closed" \/ (k \in done /\ outcome[k] = "none")
              => RaisedUpstream(k)

TruthInv == SchedulerInv /\ NoNewEdges /\ CancelledDownstream

\* No task has run when the group is built.
LEMMA TruthInitially == Init => TruthInv
<1> SUFFICES ASSUME Init PROVE TruthInv
  OBVIOUS
<1>1. SchedulerInv
  BY SchedulerInitially
<1>2. NoNewEdges /\ CancelledDownstream
  BY DEF Init, NoNewEdges, CancelledDownstream
<1> QED
  BY <1>1, <1>2 DEF TruthInv

\* No step adds edges.
LEMMA EdgesStay ==
    ASSUME SchedulerInv, NoNewEdges, [Next]_vars
    PROVE  NoNewEdges' /\ requires' = requires /\ group' = group
<1>1. \A m \in DOMAIN graph : graph[m] \in Nodes
  BY DEF SchedulerInv, Typed
<1>2. requires' = requires /\ group' = group
  BY DEF Next, GroupStep, Skip, Start, StartCompletes, StartRaises, Yield, Resume, InterruptGroup,
         Step, StepEnds, StepRaises, Killed, EndPass, GraceEnds, HandleError, Interrupt, vars
<1>3. ASSUME NEW k \in Tasks, NEW st, HandleError(k, st)
      PROVE  \A m : Node(graph', m).satisfy \subseteq Node(graph, m).satisfy
  <2> DEFINE D == Downstream(graph, k)
  <2>1. \/ graph' = [j \in (DOMAIN graph \cup D) \ {k} |-> IF j \in D THEN NoNode ELSE graph[j]]
        \/ graph' = graph
    BY <1>3 DEF HandleError
  <2> HIDE DEF D
  <2> QED
    BY <2>1 DEF Node, NoNode
<1>4. ASSUME NEW k \in Tasks, graph' = Del(graph, k)
      PROVE  \A m : Node(graph', m).satisfy \subseteq Node(graph, m).satisfy
  BY <1>1, <1>4, Deletes
<1>5. \/ graph' = graph
      \/ \E k \in Tasks : graph' = Del(graph, k)
      \/ \E k \in Tasks : \E st \in SUBSET (started \cup {k}) : HandleError(k, st)
  BY DEF Next, GroupStep, Skip, Start, StartCompletes, StartRaises, Yield, Resume, InterruptGroup,
         Step, StepEnds, StepRaises, Killed, EndPass, GraceEnds, Interrupt, vars
<1>6. \A m : Node(graph', m).satisfy \subseteq Node(graph, m).satisfy
  BY <1>3, <1>4, <1>5
<1> QED
  BY <1>2, <1>6 DEF NoNewEdges

\* A task that was cancelled before it ended.
Cancelled(m) == outcome[m] = "closed" \/ (m \in done /\ outcome[m] = "none")

\* A task stays downstream of one that has raised.
LEMMA UpstreamStays ==
    ASSUME requires' = requires, \A m \in Tasks : outcome[m] = "raised" => outcome'[m] = "raised",
           NEW m \in Tasks, RaisedUpstream(m)
    PROVE  RaisedUpstream(m)'
  BY DEF RaisedUpstream

\* An error cancels what is downstream of the task that has raised.
LEMMA ErrorCancels ==
    ASSUME TruthInv, NEW k \in Tasks, NEW st, outcome[k] \in {"none", "running"}, HandleError(k, st),
           requires' = requires, group.aggregate, pc # "interrupted"
    PROVE  /\ timed' = {} /\ \A m \in Tasks : Cancelled(m)' => RaisedUpstream(m)'
<1> DEFINE D == Downstream(graph, k)
           o == [outcome EXCEPT ![k] = "raised"]
<1>1. /\ SchedulerInv /\ NoNewEdges /\ outcome \in [Tasks -> Outcomes]
      /\ \A m \in DOMAIN graph : graph[m] \in Nodes
      /\ timed = {} /\ \A m \in Tasks : Cancelled(m) => RaisedUpstream(m)
  BY DEF TruthInv, SchedulerInv, Typed, CancelledDownstream, Cancelled
<1>2. D \subseteq Downstream(GraphOf(requires), k)
  <2>1. \A j \in Tasks : Node(graph, j).satisfy \subseteq Node(GraphOf(requires), j).satisfy
    BY <1>1 DEF NoNewEdges
  <2>2. \A j \in Tasks : Node(graph, j).satisfy \subseteq Tasks
    BY <1>1, NodeTyped
  <2> QED
    BY <2>1, <2>2, DownstreamGrows
<1>3. Cancel({k} \cup D, st, done, FALSE) /\ outcome' = Closed(D, o)
  BY DEF HandleError
<1>4. o \in [Tasks -> Outcomes] /\ o[k] = "raised" /\ \A m \in Tasks \ {k} : o[m] = outcome[m]
  BY <1>1 DEF Outcomes
<1> HIDE DEF D, o
<1>5. done' = done \cup {k} \cup D /\ timed' = {}
  BY <1>1, <1>3 DEF Cancel
<1>6. \A m \in Tasks : outcome'[m] = IF m \in D /\ o[m] = "running" THEN "closed" ELSE o[m]
  BY <1>3 DEF Closed
<1>7. outcome'[k] = "raised" /\ \A m \in Tasks : outcome[m] = "raised" => outcome'[m] = "raised"
  BY <1>4, <1>6
<1>8. \A m \in Tasks : m \in D => RaisedUpstream(m)'
  BY <1>2, <1>7 DEF RaisedUpstream
<1>9. \A m \in Tasks : Cancelled(m)' => Cancelled(m) \/ m \in D
  BY <1>4, <1>5, <1>6, <1>7 DEF Cancelled
<1> QED
  BY <1>1, <1>5, <1>7, <1>8, <1>9, UpstreamStays

\* The other steps cancel nothing as long as no exception is raised.
LEMMA TruthStep == TruthInv /\ [Next]_vars => TruthInv'
<1> SUFFICES ASSUME TruthInv, [Next]_vars PROVE TruthInv'
  OBVIOUS
<1>1. /\ SchedulerInv /\ SchedulerInv' /\ NoNewEdges /\ NoNewEdges'
      /\ requires' = requires /\ group' = group
  BY SchedulerStep, EdgesStay DEF TruthInv
<1>2. outcome \in [Tasks -> Outcomes] /\ RunnersAgree
  BY <1>1 DEF SchedulerInv, Typed
<1>3. SUFFICES ASSUME group.aggregate, pc' # "interrupted"
               PROVE  timed' = {} /\ \A m \in Tasks : Cancelled(m)' => RaisedUpstream(m)'
  BY <1>1 DEF TruthInv, CancelledDownstream, Cancelled
<1>4. pc # "interrupted"
  BY <1>3 DEF Next, GroupStep, Skip, Start, StartCompletes, StartRaises, Yield, Resume, InterruptGroup,
         Step, StepEnds, StepRaises, Killed, EndPass, GraceEnds, vars, AtReady, AtRunning
<1>5. timed = {} /\ \A m \in Tasks : Cancelled(m) => RaisedUpstream(m)
  BY <1>3, <1>4 DEF TruthInv, CancelledDownstream, Cancelled
<1>6. ASSUME timed' = timed, \A m \in Tasks : outcome[m] = "raised" => outcome'[m] = "raised",
             \A m \in Tasks : Cancelled(m)' => Cancelled(m)
      PROVE  timed' = {} /\ \A m \in Tasks : Cancelled(m)' => RaisedUpstream(m)'
  BY <1>1, <1>5, <1>6, UpstreamStays
<1>7. ASSUME UNCHANGED runners PROVE timed' = {} /\ \A m \in Tasks : Cancelled(m)' => RaisedUpstream(m)'
  <2>1. timed' = timed /\ outcome' = outcome /\ done' = done
    BY <1>7 DEF runners
  <2> QED
    BY <1>6, <2>1 DEF Cancelled
<1>8. ~InterruptGroup /\ \A k \in Tasks : ~Killed(k)
  BY <1>3 DEF InterruptGroup, Killed, Interrupt
<1>9. CASE Skip \/ Yield \/ Resume \/ EndPass \/ GraceEnds \/ UNCHANGED vars
  BY <1>7, <1>9 DEF Skip, Yield, Resume, EndPass, GraceEnds, vars
<1>10. ASSUME NEW k \in Tasks, Step(k)
       PROVE  timed' = {} /\ \A m \in Tasks : Cancelled(m)' => RaisedUpstream(m)'
  BY <1>7, <1>10 DEF Step
<1>11. ASSUME NEW k \in Tasks, Start(k)
       PROVE  timed' = {} /\ \A m \in Tasks : Cancelled(m)' => RaisedUpstream(m)'
  <2>1. /\ timed' = timed /\ done' = done /\ outcome' = [outcome EXCEPT ![k] = "running"]
        /\ outcome[k] = "none"
    BY <1>1, <1>11, ReadyOrRunning DEF Start
  <2> QED
    BY <1>2, <1>6, <2>1 DEF Cancelled
<1>12. ASSUME NEW k \in Tasks, StartCompletes(k)
       PROVE  timed' = {} /\ \A m \in Tasks : Cancelled(m)' => RaisedUpstream(m)'
  <2>1. /\ timed' = timed /\ done' = done \cup {k} /\ outcome' = [outcome EXCEPT ![k] = "complete"]
        /\ outcome[k] = "none"
    BY <1>1, <1>12, ReadyOrRunning DEF StartCompletes
  <2> QED
    BY <1>2, <1>6, <2>1 DEF Cancelled
<1>13. ASSUME NEW k \in Tasks, StepEnds(k)
       PROVE  timed' = {} /\ \A m \in Tasks : Cancelled(m)' => RaisedUpstream(m)'
  <2>1. /\ timed' = timed /\ done' = done \cup {k} /\ outcome[k] # "none" /\ ~Expired(k)
    BY <1>1, <1>5, <1>13, ReadyOrRunning DEF StepEnds, Expired
  <2>2. /\ outcome' = [outcome EXCEPT ![k] = IF @ # "running" THEN @ ELSE "complete"]
    BY <1>13, <2>1 DEF StepEnds
  <2> QED
    BY <1>2, <1>6, <2>1, <2>2 DEF Cancelled
<1>14. ASSUME NEW k \in Tasks, StartRaises(k) \/ StepRaises(k)
       PROVE  timed' = {} /\ \A m \in Tasks : Cancelled(m)' => RaisedUpstream(m)'
  <2>1. outcome[k] \in {"none", "running"} /\ \E st \in SUBSET (started \cup {k}) : HandleError(k, st)
    BY <1>1, <1>14, ReadyOrRunning DEF StartRaises, StepRaises
  <2> QED
    BY <1>1, <1>3, <1>4, <2>1, ErrorCancels
<1> QED
  BY <1>8, <1>9, <1>10, <1>11, <1>12, <1>13, <1>14 DEF Next, GroupStep

\* The inductive invariant, with what cancellation spares.
THEOREM TruthInvariant == Spec => []TruthInv
  BY TruthInitially, TruthStep, PTL DEF Spec

\* DependencyTaskGroup.__call__(): when the group is over no task is left suspended;
\* it raises when tasks have raised and has completed all of them otherwise, and when
\* exceptions are aggregated every task has run that could have run.
THEOREM TheEndIsTruthful == Spec => []EndIsTruthful
<1>1. TruthInv => EndIsTruthful
  <2> SUFFICES ASSUME TruthInv PROVE EndIsTruthful
    OBVIOUS
  <2>1. EndIsTold /\ OverIsDone
    BY InvariantTells DEF TruthInv, SchedulerInv
  <2>2. ASSUME pc = "ended", group.aggregate, NEW k \in Tasks, outcome[k] \in {"none", "closed"}
        PROVE  RaisedUpstream(k)
    <3>1. k \in done
      BY <2>1, <2>2 DEF OverIsDone, Over
    <3> QED
      BY <2>2, <3>1 DEF TruthInv, CancelledDownstream
  <2> QED
    BY <2>1, <2>2 DEF EndIsTold, EndIsTruthful
<1> QED
  BY <1>1, TruthInvariant, PTL
=============================================================================
