-------------------------- MODULE ConductorProofs --------------------------
(***************************************************************************)
(* A node is worked on by one task at a time, for any number of            *)
(* conductors, tasks, steps and faults of any kind, until the reservation  *)
(* of a conductor that is at work is broken; and until then a cleaning     *)
(* skips none of its steps.                                                *)
(***************************************************************************)
EXTENDS Conductor, TLAPS

\* The state in which a worker is at its work.
StateFor(work, state) ==
    CASE work \in {"deploy", "image", "boot"} -> state = "deploying"
      [] work = "teardown" -> state = "deleting"
      [] work = "verify" -> state = "verifying"
      [] work \in {"clean", "manualclean", "steps", "step", "finish", "finished"} ->
                state = "cleaning"
      [] OTHER -> TRUE

\* A task knows the state of its node, and its work goes with it.
TasksKnowState ==
    \A t \in Slots : task[t] # NoTask =>
        /\ task[t].state = node.state
        /\ StateFor(task[t].work, task[t].state)
        /\ task[t].work = "step" => task[t].idx \in 1 .. AutoSteps

\* Who has a task runs.
TasksRun == \A t \in Slots : task[t] # NoTask =>
                conductor[task[t].host].proc \in {"up", "stopping"}

\* A clean command of the agent is about a step.
CommandHasStep == agent.cmd = "clean" => agent.step \in 1 .. AutoSteps

\* The inductive invariant.
ConductorInv ==
    /\ TypeOK /\ TasksKnowState /\ TasksRun /\ CommandHasStep /\ OneTask

NoTasks == \A t \in Slots : task[t] = NoTask

\* The states in which a cleaning may have left a step, or a command.
Cleanings == {"cleaning", "cleanwait", "cleanfail", "manageable"}

\* What a worker's index says of the steps that are done.
StepsKnown(work, idx, done) ==
    /\ work \in {"steps", "step"} => 1 .. idx - 1 \subseteq done
    /\ work \in {"finish", "finished"} => 1 .. idx \subseteq done

\* The steps before the one in the row, or before the one of a worker, are done.
StepsAreDone ==
    /\ node.step # 0 => 1 .. node.step - 1 \subseteq cleaned
    /\ \A t \in Slots : task[t] # NoTask => StepsKnown(task[t].work, task[t].idx, cleaned)

\* A clean step that the agent reports is done.
ReportsAreTrue == agent.cmd = "clean" /\ agent.st = "ok" => agent.step \in cleaned

\* There is no trace of a cleaning where there may be an instance.
NoTraces == node.step # 0 \/ agent.cmd = "clean" => node.state \in Cleanings

\* A call finds the node as the task that sent it has left it.
CallsAreTimely ==
    calls > 0 => /\ calls = 1 /\ NoTasks
                 /\ node.state \in {"cleaning", "cleanwait", "cleanfail"}
                 /\ node.step # 0 /\ node.skip => node.step \in cleaned

\* A worker that has torn cleaning down has cleared the row before.
NothingLeft ==
    \A t \in Slots : task[t] # NoTask =>
        /\ task[t].work \in {"finish", "finished"} => node.step = 0
        /\ task[t].work = "finished" => agent.cmd # "clean"

Progress == StepsAreDone /\ ReportsAreTrue /\ NoTraces /\ CallsAreTimely /\ NothingLeft

CleaningInv == ConductorInv /\ Progress
-----------------------------------------------------------------------------
(* The operators of the model.                                               *)

\* The states of the machine.
LEMMA StatesListed ==
    States = {"available", "deploying", "deployfail", "deploywait", "active", "deleting",
              "cleaning", "cleanwait", "cleanfail", "manageable", "error", "enroll", "verifying"}
  BY DEF States, Machine

\* A move that the machine has, and has only once, is the one that Goto takes.
LEMMA OnlyMove ==
    ASSUME NEW s, NEW e, NEW m \in Machine, m[1] = s, m[2] = e,
           \A n \in Machine : n[1] = s /\ n[2] = e => n[3] = m[3]
    PROVE  Goto(s, e) = m[3]
<1> DEFINE c == CHOOSE n \in Machine : n[1] = s /\ n[2] = e
<1>1. c \in Machine /\ c[1] = s /\ c[2] = e
  OBVIOUS
<1> QED
  BY <1>1 DEF Goto

\* The machine is deterministic.
LEMMA MachineIsDeterministic ==
    ASSUME NEW s, NEW e, NEW d, <<s, e, d>> \in Machine PROVE Goto(s, e) = d
<1>1. \A n \in Machine : n[1] = s /\ n[2] = e => n[3] = d
  BY DEF Machine
<1> QED
  BY <1>1, OnlyMove

\* The moves of the machine that workers and periodic tasks ask for.
LEMMA MachineMoves ==
    /\ Goto("deploying", "done") = "active"
    /\ Goto("deploying", "wait") = "deploywait"
    /\ Goto("deploying", "fail") = "deployfail"
    /\ Goto("deploywait", "resume") = "deploying"
    /\ Goto("deploywait", "fail") = "deployfail"
    /\ Goto("deleting", "clean") = "cleaning"
    /\ Goto("deleting", "error") = "error"
    /\ Goto("verifying", "done") = "manageable"
    /\ Goto("verifying", "fail") = "enroll"
    /\ Goto("cleaning", "wait") = "cleanwait"
    /\ Goto("cleaning", "fail") = "cleanfail"
    /\ Goto("cleaning", "done") = "available"
    /\ Goto("cleaning", "manage") = "manageable"
    /\ Goto("cleanwait", "fail") = "cleanfail"
    /\ Goto("cleanwait", "abort") = "cleanfail"
    /\ Goto("cleanwait", "resume") = "cleaning"
    /\ Goto("manageable", "clean") = "cleaning"
    /\ Goto("manageable", "provide") = "cleaning"
<1>1. /\ <<"deploying", "done", "active">> \in Machine
      /\ <<"deploying", "wait", "deploywait">> \in Machine
      /\ <<"deploying", "fail", "deployfail">> \in Machine
      /\ <<"deploywait", "resume", "deploying">> \in Machine
      /\ <<"deploywait", "fail", "deployfail">> \in Machine
      /\ <<"deleting", "clean", "cleaning">> \in Machine
      /\ <<"deleting", "error", "error">> \in Machine
      /\ <<"verifying", "done", "manageable">> \in Machine
      /\ <<"verifying", "fail", "enroll">> \in Machine
      /\ <<"cleaning", "wait", "cleanwait">> \in Machine
      /\ <<"cleaning", "fail", "cleanfail">> \in Machine
      /\ <<"cleaning", "done", "available">> \in Machine
      /\ <<"cleaning", "manage", "manageable">> \in Machine
      /\ <<"cleanwait", "fail", "cleanfail">> \in Machine
      /\ <<"cleanwait", "abort", "cleanfail">> \in Machine
      /\ <<"cleanwait", "resume", "cleaning">> \in Machine
      /\ <<"manageable", "clean", "cleaning">> \in Machine
      /\ <<"manageable", "provide", "cleaning">> \in Machine
  BY DEF Machine
<1> QED
  BY <1>1, MachineIsDeterministic

\* The moves that requests ask for.
LEMMA RequestMoves ==
    ASSUME NEW s
    PROVE  /\ Can(s, "deploy") => s \in {"available", "deployfail"} /\ Goto(s, "deploy") = "deploying"
           /\ Can(s, "rebuild") => /\ s \in {"deployfail", "active", "error"}
                                   /\ Goto(s, "rebuild") = "deploying"
           /\ Can(s, "delete") => /\ s \in {"active", "deploywait", "deployfail", "error"}
                                  /\ Goto(s, "delete") = "deleting"
           /\ Can(s, "manage") => \/ s = "enroll" /\ Goto(s, "manage") = "verifying"
                                  \/ s # "enroll" /\ Goto(s, "manage") = "manageable"
<1> DEFINE P(e, d) == <<s, e, d>> \in Machine
<1>1. /\ Can(s, "deploy") => s \in {"available", "deployfail"} /\ P("deploy", "deploying")
      /\ Can(s, "rebuild") => s \in {"deployfail", "active", "error"} /\ P("rebuild", "deploying")
      /\ Can(s, "delete") => /\ s \in {"active", "deploywait", "deployfail", "error"}
                             /\ P("delete", "deleting")
      /\ Can(s, "manage") => \/ s = "enroll" /\ P("manage", "verifying")
                             \/ s # "enroll" /\ P("manage", "manageable")
  BY DEF Can, Machine
<1>2. \A e, d : P(e, d) => Goto(s, e) = d
  BY MachineIsDeterministic
<1> QED
  BY <1>1, <1>2, Zenon

Targets == {"none", "active", "manageable", "available"}

\* An event moves the state and the target; the rest of the row stays.
LEMMA EventMoves ==
    ASSUME NEW row \in Rows, NEW s, NEW e, NEW target \in Targets, Goto(s, e) \in States
    PROVE  /\ Event(row, s, e, target) \in Rows
           /\ Event(row, s, e, target).state = Goto(s, e)
           /\ Event(row, s, e, target).reservation = row.reservation
           /\ Event(row, s, e, target).step = row.step
           /\ Event(row, s, e, target).steps = row.steps
           /\ Event(row, s, e, target).skip = row.skip
  BY DEF Event, Rows, Targets, Target

\* A row keeps its type when cleaning writes to it.
LEMMA RowWrites ==
    ASSUME NEW row \in Rows
    PROVE  /\ KeepManual(row) \in Targets
           /\ Length(row) \in 0 .. AutoSteps
           /\ SetSteps(row) \in Rows
           /\ SetSteps(row).step = 0
           /\ SetSteps(row).state = row.state
           /\ SetSteps(row).reservation = row.reservation
<1>1. KeepManual(row) \in Targets
  BY DEF KeepManual, Targets
<1>2. Length(row) \in 0 .. AutoSteps
  BY ConductorAssumption DEF Length, Rows
<1>3. 0 \in 0 .. AutoSteps
  BY ConductorAssumption
<1> QED
  BY <1>1, <1>2, <1>3 DEF SetSteps, Rows

\* A release clears the reservation of its host and writes nothing else.
LEMMA ReleasedTyped ==
    ASSUME NEW row \in Rows, NEW h \in Hosts
    PROVE  /\ Released(row, h) \in Rows
           /\ Released(row, h).state = row.state
           /\ Released(row, h).step = row.step
           /\ Released(row, h).skip = row.skip
           /\ row.reservation # h => Released(row, h).reservation = row.reservation
  BY DEF Released, Rows

-----------------------------------------------------------------------------
(* The four ways in which tasks and reservation change together.             *)

Core == /\ node \in Rows
        /\ task \in [Slots -> Tasks \cup {NoTask}]
        /\ conductor \in [Hosts -> Processes]
        /\ TasksKnowState /\ TasksRun /\ OneTask

\* What the invariant needs of the processes does not change.
SameProcesses ==
    /\ conductor' \in [Hosts -> Processes]
    /\ \A h \in Hosts : conductor'[h].proc = conductor[h].proc

\* A node that is not reserved has no task.
LEMMA UnreservedIsIdle ==
    ASSUME Core, node.reservation = Nobody
    PROVE  NoTasks
  BY ConductorAssumption DEF Core, OneTask, NoTasks, Tasks

\* The row of a node without a task may be written by anybody.
LEMMA RowWritten ==
    ASSUME Core, NoTasks, node' \in Rows, task' = task, SameProcesses
    PROVE  Core'
  BY DEF Core, NoTasks, SameProcesses, TasksKnowState, TasksRun, OneTask

\* Neither the row nor the tasks change.
LEMMA NothingMoves ==
    ASSUME Core, node' = node, task' = task, SameProcesses
    PROVE  Core'
<1>1. \A t \in Slots : task[t] # NoTask => task[t].host \in Hosts
  BY DEF Core, Tasks
<1> QED
  BY <1>1 DEF Core, SameProcesses, TasksKnowState, TasksRun, OneTask

\* A worker goes on.
LEMMA WorkerGoesOn ==
    ASSUME Core, NEW t \in Slots, task[t] # NoTask,
           NEW work \in Works, NEW idx \in 0 .. AutoSteps + 1, NEW row \in Rows,
           row.reservation = node.reservation, StateFor(work, row.state),
           work = "step" => idx \in 1 .. AutoSteps,
           Becomes(t, work, idx, row), conductor' = conductor
    PROVE  Core'
<1>1. \A u \in Slots : task[u] # NoTask => u = t
  BY DEF Core, OneTask
<1>2. task[t] \in Tasks /\ task[t].host = node.reservation
  BY DEF Core, OneTask
<1>3. /\ task' \in [Slots -> Tasks \cup {NoTask}]
      /\ task'[t] = [host |-> task[t].host, work |-> work, idx |-> idx, state |-> row.state]
      /\ \A u \in Slots \ {t} : task'[u] = NoTask
  <2>1. row.state \in States
    BY DEF Rows
  <2> QED
    BY <1>1, <1>2, <2>1 DEF Core, Becomes, Tasks
<1> QED
  BY <1>1, <1>2, <1>3 DEF Core, Becomes, TasksKnowState, TasksRun, OneTask

\* A task gives up the node.
LEMMA TaskEnds ==
    ASSUME Core, NEW t \in Slots, task[t] # NoTask, task' = [task EXCEPT ![t] = NoTask],
           node' \in Rows, conductor' = conductor
    PROVE  Core' /\ NoTasks'
<1>1. NoTasks'
  BY DEF Core, OneTask, NoTasks
<1> QED
  BY <1>1 DEF Core, NoTasks, TasksKnowState, TasksRun, OneTask

\* A host that runs takes a node that is not reserved.
LEMMA TaskSpawned ==
    ASSUME Core, node.reservation = Nobody, \E t \in Slots : task[t] = NoTask,
           NEW h \in Hosts, conductor[h].proc \in {"up", "stopping"}, SameProcesses,
           NEW work \in Works \ {"step"}, NEW idx \in 0 .. AutoSteps + 1, NEW row \in Rows,
           StateFor(work, row.state), Spawn(h, work, idx, row)
    PROVE  /\ Core'
           /\ Free \in Slots
           /\ task'[Free] = [host |-> h, work |-> work, idx |-> idx, state |-> row.state]
           /\ \A u \in Slots \ {Free} : task'[u] = NoTask
           /\ node' = [row EXCEPT !.reservation = h]
<1>1. Free \in Slots
  BY DEF Free
<1>2. NoTasks
  BY UnreservedIsIdle
<1>3. /\ task'[Free] = [host |-> h, work |-> work, idx |-> idx, state |-> row.state]
      /\ \A u \in Slots \ {Free} : task'[u] = NoTask
      /\ task' \in [Slots -> Tasks \cup {NoTask}]
  <2>1. row.state \in States
    BY DEF Rows
  <2>2. [host |-> h, work |-> work, idx |-> idx, state |-> row.state] \in Tasks
    BY <2>1 DEF Tasks
  <2> QED
    BY <1>1, <1>2, <2>2 DEF Core, Spawn, NoTasks
<1>4. /\ node' \in Rows /\ node'.reservation = h /\ node'.state = row.state
      /\ node' = [row EXCEPT !.reservation = h]
  BY DEF Spawn, Rows
<1>5. TasksKnowState' /\ OneTask'
  BY <1>1, <1>3, <1>4 DEF TasksKnowState, OneTask
<1>6. TasksRun'
  BY <1>1, <1>3 DEF Core, SameProcesses, TasksRun
<1> QED
  BY <1>1, <1>3, <1>4, <1>5, <1>6 DEF Core, SameProcesses
-----------------------------------------------------------------------------
(* The workers.                                                              *)

\* The types of what is not part of Core.
Rest == /\ agent \in Agents /\ CommandHasStep /\ calls \in 0 .. 2
        /\ cleaned \subseteq 1 .. AutoSteps /\ faults \in 0 .. MaxFaults /\ robbed \in BOOLEAN

\* The invariant, before and after a step, is its two halves.
LEMMA TwoHalves == (ConductorInv <=> Core /\ Rest) /\ (ConductorInv' <=> Core' /\ Rest')
  BY DEF ConductorInv, TypeOK, Core, Rest

\* An agent that is off, or has just booted, has been asked for nothing.
LEMMA AgentStates == Off \in Agents /\ Booted \in Agents /\ Off.cmd = "none" /\ Booted.cmd = "none"
<1>1. 0 \in 0 .. AutoSteps
  BY ConductorAssumption
<1>2. Off \in Agents /\ Off.cmd = "none"
  BY <1>1 DEF Off, Agents
<1>3. Booted \in Agents /\ Booted.cmd = "none"
  BY <1>2 DEF Booted, Agents
<1> QED
  BY <1>2, <1>3

\* What a worker knows.
LEMMA AtWork ==
    ASSUME Core, NEW t \in Slots, task[t] # NoTask
    PROVE  /\ task[t] \in Tasks /\ node \in Rows
           /\ task[t].state = node.state /\ node.state \in States
           /\ StateFor(task[t].work, node.state)
           /\ task[t].work = "step" => task[t].idx \in 1 .. AutoSteps
           /\ node.reservation = task[t].host
  BY DEF Core, Tasks, Rows, TasksKnowState, OneTask

\* A worker that ends.
LEMMA WorkerEnds ==
    ASSUME Core, NEW t \in Slots, task[t] # NoTask, NEW row \in Rows,
           row.reservation = node.reservation, Ends(t, row), conductor' = conductor
    PROVE  Core'
<1>1. "exit" \in Works /\ 0 \in 0 .. AutoSteps + 1 /\ StateFor("exit", row.state)
  BY ConductorAssumption DEF Works, StateFor
<1> QED
  BY <1>1, WorkerGoesOn DEF Ends

\* A worker that ends with an event.
LEMMA WorkerEndsWith ==
    ASSUME Core, NEW t \in Slots, task[t] # NoTask, NEW row \in Rows,
           row.reservation = node.reservation, NEW e, Goto(node.state, e) \in States,
           NEW target \in Targets, Ends(t, Event(row, task[t].state, e, target)),
           conductor' = conductor
    PROVE  Core'
  BY AtWork, EventMoves, WorkerEnds

\* Cleaning that fails leaves the row with a failed state.
LEMMA CleaningFails ==
    ASSUME ConductorInv, NEW t \in Slots, task[t] # NoTask,
           node.state \in {"cleaning", "cleanwait"},
           NEW row \in Rows, row.reservation = node.reservation, CleaningError(t, row)
    PROVE  ConductorInv' /\ node'.step = 0 /\ node'.state = "cleanfail"
<1> DEFINE cut == [row EXCEPT !.step = 0, !.abortAfter = FALSE, !.maintenance = TRUE]
<1>1. cut \in Rows /\ cut.reservation = node.reservation /\ cut.step = 0
  <2>1. 0 \in 0 .. AutoSteps
    BY ConductorAssumption
  <2> QED
    BY <2>1 DEF Rows
<1>2. Core /\ Rest /\ KeepManual(row) \in Targets
  BY TwoHalves, RowWrites
<1>3. Goto(node.state, "fail") = "cleanfail" /\ "cleanfail" \in States
  BY MachineMoves, StatesListed
<1>4. Ends(t, Event(cut, task[t].state, "fail", KeepManual(row))) /\ conductor' = conductor
  BY DEF CleaningError
<1> HIDE DEF cut
<1>5. Core'
  BY <1>1, <1>2, <1>3, <1>4, WorkerEndsWith
<1>6. Rest'
  BY <1>2, AgentStates DEF CleaningError, Rest, CommandHasStep
<1>7. node' = Event(cut, node.state, "fail", KeepManual(row))
  BY <1>2, <1>4, AtWork DEF Ends, Becomes
<1> QED
  BY <1>1, <1>2, <1>3, <1>5, <1>6, <1>7, TwoHalves, EventMoves

\* Deployment, tear down and verification.
LEMMA DeploymentKeeps ==
    ASSUME ConductorInv, NEW t \in Slots,
           DeployWork(t) \/ TearDownWork(t) \/ VerifyWork(t) \/ CleanupWork(t)
           \/ HeartbeatDeploy(t) \/ ImageWork(t) \/ BootWork(t) \/ HeartbeatIgnored(t)
    PROVE  ConductorInv'
<1> USE TwoHalves DEF At
<1>1. Core /\ Rest /\ task[t] # NoTask /\ conductor' = conductor /\ "none" \in Targets
  BY DEF DeployWork, TearDownWork, VerifyWork, CleanupWork, HeartbeatDeploy, ImageWork, BootWork,
     HeartbeatIgnored, Targets
<1>2. /\ node \in Rows /\ task[t].state = node.state
      /\ StateFor(task[t].work, node.state)
  BY <1>1, AtWork
<1>3. Rest'
  <2>1. agent' \in Agents /\ (agent' = agent \/ agent'.cmd # "clean")
    <3>1. /\ [Booted EXCEPT !.cmd = "image", !.st = "running"] \in Agents
          /\ [Booted EXCEPT !.cmd = "image", !.st = "running"].cmd = "image"
      BY AgentStates DEF Agents
    <3> QED
      BY <1>1, <3>1, AgentStates DEF DeployWork, TearDownWork, VerifyWork, CleanupWork,
         HeartbeatDeploy, ImageWork, BootWork, HeartbeatIgnored, DeployFails, Rest, CommandHasStep
  <2> QED
    BY <1>1, <2>1 DEF DeployWork, TearDownWork, VerifyWork, CleanupWork, HeartbeatDeploy,
       ImageWork, BootWork, HeartbeatIgnored, Rest, CommandHasStep
<1>4. ASSUME NEW e, Goto(node.state, e) \in States,
             Ends(t, Event(node, task[t].state, e, "none"))
      PROVE  Core'
  BY <1>1, <1>2, <1>4, WorkerEndsWith
<1>5. CASE DeployWork(t)
  BY <1>1, <1>2, <1>3, <1>4, <1>5, MachineMoves, StatesListed DEF DeployWork, StateFor
<1>6. CASE TearDownWork(t)
  <2>1. node.state = "deleting"
    BY <1>2, <1>6 DEF TearDownWork, StateFor
  <2>2. CASE Becomes(t, "clean", 0, Event(node, task[t].state, "clean", "none"))
    <3>1. /\ Event(node, node.state, "clean", "none") \in Rows
          /\ Event(node, node.state, "clean", "none").reservation = node.reservation
          /\ Event(node, node.state, "clean", "none").state = "cleaning"
      BY <1>1, <1>2, <2>1, MachineMoves, StatesListed, EventMoves
    <3>2. "clean" \in Works /\ 0 \in 0 .. AutoSteps + 1 /\ StateFor("clean", "cleaning")
      BY ConductorAssumption DEF Works, StateFor
    <3> QED
      BY <1>1, <1>2, <1>3, <2>2, <3>1, <3>2, WorkerGoesOn
  <2> QED
    BY <1>1, <1>2, <1>3, <1>4, <1>6, <2>1, <2>2, MachineMoves, StatesListed DEF TearDownWork
<1>7. CASE VerifyWork(t)
  BY <1>1, <1>2, <1>3, <1>4, <1>7, MachineMoves, StatesListed DEF VerifyWork, StateFor
<1>8. CASE CleanupWork(t) \/ HeartbeatIgnored(t)
  BY <1>1, <1>2, <1>3, <1>8, WorkerEnds DEF CleanupWork, HeartbeatIgnored
<1>9. CASE HeartbeatDeploy(t)
  <2>1. node.state = "deploywait"
    BY <1>2, <1>9 DEF HeartbeatDeploy
  <2>2. CASE DeployFails(t)
    BY <1>1, <1>3, <1>4, <2>1, <2>2, MachineMoves, StatesListed DEF DeployFails
  <2>3. CASE Ends(t, [node EXCEPT !.old = FALSE])
    <3>1. [node EXCEPT !.old = FALSE] \in Rows
          /\ [node EXCEPT !.old = FALSE].reservation = node.reservation
      BY <1>2 DEF Rows
    <3> QED
      BY <1>1, <1>3, <2>3, <3>1, WorkerEnds
  <2>4. ASSUME NEW work \in {"image", "boot"},
               Becomes(t, work, 0, Event(node, task[t].state, "resume", "none"))
        PROVE  ConductorInv'
    <3>1. /\ Event(node, node.state, "resume", "none") \in Rows
          /\ Event(node, node.state, "resume", "none").reservation = node.reservation
          /\ Event(node, node.state, "resume", "none").state = "deploying"
      BY <1>1, <1>2, <2>1, MachineMoves, StatesListed, EventMoves
    <3>2. /\ work \in Works /\ work # "step" /\ 0 \in 0 .. AutoSteps + 1
          /\ StateFor(work, "deploying")
      BY <2>4, ConductorAssumption DEF Works, StateFor
    <3> QED
      BY <1>1, <1>2, <1>3, <2>4, <3>1, <3>2, WorkerGoesOn
  <2> QED
    BY <1>9, <2>2, <2>3, <2>4 DEF HeartbeatDeploy
<1>10. CASE ImageWork(t) \/ BootWork(t)
  BY <1>1, <1>2, <1>3, <1>4, <1>10, MachineMoves, StatesListed
     DEF ImageWork, BootWork, DeployFails, StateFor
<1> QED
  BY <1>5, <1>6, <1>7, <1>8, <1>9, <1>10
\* Cleaning: its start, its steps and its end.
LEMMA CleaningKeeps ==
    ASSUME ConductorInv, NEW t \in Slots,
           CleanWork(t) \/ SaveStep(t) \/ ExecuteStep(t) \/ StepsDone(t) \/ TearDownCleaning(t)
           \/ CleaningDone(t) \/ AbortWork(t)
    PROVE  ConductorInv'
<1> USE TwoHalves DEF At
<1>1. Core /\ Rest /\ task[t] # NoTask
  BY DEF CleanWork, SaveStep, ExecuteStep, StepsDone, TearDownCleaning, CleaningDone, AbortWork
<1>2. /\ node \in Rows /\ task[t] \in Tasks /\ task[t].state = node.state
      /\ StateFor(task[t].work, node.state)
      /\ task[t].work = "step" => task[t].idx \in 1 .. AutoSteps
  BY <1>1, AtWork
<1>3. "cleaning" \in States /\ "none" \in Targets /\ AutoSteps \in Nat \ {0}
  BY StatesListed, ConductorAssumption DEF Targets
<1>4. ASSUME NEW row \in Rows, row.reservation = node.reservation, node.state = "cleaning",
             NEW e \in {"wait", "done", "manage"}, NEW target \in Targets,
             Ends(t, Event(row, task[t].state, e, target)), conductor' = conductor
      PROVE  Core'
  <2>1. Goto(node.state, e) \in States
    BY <1>4, MachineMoves, StatesListed
  <2> QED
    BY <1>1, <1>4, <2>1, WorkerEndsWith
<1>5. ASSUME NEW row \in Rows, row.reservation = node.reservation, row.state = "cleaning",
             NEW idx \in 0 .. AutoSteps + 1, Becomes(t, "steps", idx, row), conductor' = conductor
      PROVE  Core'
  <2>1. "steps" \in Works /\ StateFor("steps", row.state)
    BY <1>5 DEF Works, StateFor
  <2> QED
    BY <1>1, <1>5, <2>1, WorkerGoesOn
<1>6. ASSUME NEW row \in Rows, row.reservation = node.reservation, row.state = node.state,
             node.state = "cleaning", Clean(t, row)
      PROVE  ConductorInv'
  <2>1. CASE \E saved \in {node, row} : CleaningError(t, saved)
    BY <1>1, <1>2, <1>6, <2>1, CleaningFails
  <2>2. CASE /\ Ends(t, Event(row, task[t].state, "wait", KeepManual(row)))
             /\ agent' = Booted
             /\ UNCHANGED <<conductor, calls, cleaned, robbed, faults>>
    BY <1>1, <1>4, <1>6, <2>2, RowWrites, AgentStates DEF Rest, CommandHasStep
  <2>3. CASE /\ Becomes(t, "steps", 1, SetSteps(row))
             /\ UNCHANGED <<conductor, agent, calls, cleaned, robbed, faults>>
    <3>1. 1 \in 0 .. AutoSteps + 1 /\ SetSteps(row).state = "cleaning"
      BY <1>3, <1>6, RowWrites
    <3> QED
      BY <1>1, <1>5, <1>6, <2>3, <3>1, RowWrites DEF Rest, CommandHasStep
  <2> QED
    BY <1>6, <2>1, <2>2, <2>3 DEF Clean
<1>7. CASE CleanWork(t)
  <2>1. node.state = "cleaning"
    BY <1>2, <1>7 DEF CleanWork, StateFor
  <2>2. /\ [node EXCEPT !.steps = "manual"] \in Rows
        /\ [node EXCEPT !.steps = "manual"].reservation = node.reservation
        /\ [node EXCEPT !.steps = "manual"].state = node.state
    BY <1>2 DEF Rows
  <2> QED
    BY <1>2, <1>6, <1>7, <2>1, <2>2 DEF CleanWork
<1>8. CASE SaveStep(t)
  <2> DEFINE i == task[t].idx
             row == [node EXCEPT !.step = i, !.abortAfter = FALSE]
  <2>1. i \in 1 .. AutoSteps
    <3>1. Length(node) \in 0 .. AutoSteps
      BY <1>2, RowWrites
    <3>2. i \in 1 .. Length(node)
      BY <1>8 DEF SaveStep
    <3> QED
      BY <1>3, <3>1, <3>2
  <2>2. row \in Rows /\ row.reservation = node.reservation /\ row.state = "cleaning"
    <3>1. node.state = "cleaning"
      BY <1>2, <1>8 DEF SaveStep, StateFor
    <3>2. i \in 0 .. AutoSteps
      BY <1>3, <2>1
    <3> QED
      BY <1>2, <3>1, <3>2 DEF Rows
  <2>3. Becomes(t, "step", i, row) /\ UNCHANGED <<conductor, agent, calls, cleaned, robbed, faults>>
    BY <1>8 DEF SaveStep
  <2> HIDE DEF i, row
  <2>4. "step" \in Works /\ StateFor("step", row.state) /\ i \in 0 .. AutoSteps + 1
    BY <1>3, <2>1, <2>2 DEF Works, StateFor
  <2> QED
    BY <1>1, <2>1, <2>2, <2>3, <2>4, WorkerGoesOn DEF Rest, CommandHasStep
<1>9. CASE ExecuteStep(t)
  <2>1. node.state = "cleaning" /\ task[t].idx \in 1 .. AutoSteps
    BY <1>2, <1>9 DEF ExecuteStep, StateFor
  <2>2. CASE /\ Becomes(t, "steps", task[t].idx + 1, node)
             /\ cleaned' = cleaned \cup {task[t].idx}
             /\ UNCHANGED <<conductor, agent, calls, robbed, faults>>
    <3>1. task[t].idx + 1 \in 0 .. AutoSteps + 1
      BY <1>3, <2>1
    <3>2. Core'
      BY <1>2, <1>5, <2>1, <2>2, <3>1
    <3> QED
      BY <1>1, <2>1, <2>2, <3>2 DEF Rest, CommandHasStep
  <2>3. CASE /\ agent' = [on |-> TRUE, cmd |-> "clean", step |-> task[t].idx, st |-> "running"]
             /\ Ends(t, Event(node, task[t].state, "wait", KeepManual(node)))
             /\ UNCHANGED <<conductor, calls, cleaned, robbed, faults>>
    <3>1. task[t].idx \in 0 .. AutoSteps
      BY <1>3, <2>1
    <3>2. agent' \in Agents
      BY <2>3, <3>1 DEF Agents
    <3> QED
      BY <1>1, <1>2, <1>4, <2>1, <2>3, <3>2, RowWrites DEF Rest, CommandHasStep
  <2>4. CASE CleaningError(t, node)
    BY <1>1, <1>2, <2>1, <2>4, CleaningFails
  <2> QED
    BY <1>9, <2>2, <2>3, <2>4 DEF ExecuteStep
<1>10. CASE StepsDone(t) \/ TearDownCleaning(t) \/ CleaningDone(t)
  <2>1. node.state = "cleaning"
    BY <1>2, <1>10 DEF StepsDone, TearDownCleaning, CleaningDone, StateFor
  <2>2. CASE StepsDone(t)
    <3> DEFINE row == [node EXCEPT !.step = 0, !.abortAfter = FALSE, !.steps = "none"]
    <3>1. row \in Rows /\ row.reservation = node.reservation /\ row.state = "cleaning"
      <4>1. 0 \in 0 .. AutoSteps
        BY <1>3
      <4> QED
        BY <1>2, <2>1, <4>1 DEF Rows
    <3>2. /\ Becomes(t, "finish", Length(node), row)
          /\ UNCHANGED <<conductor, agent, calls, cleaned, robbed, faults>>
      BY <2>2 DEF StepsDone
    <3> HIDE DEF row
    <3>3. Length(node) \in 0 .. AutoSteps + 1
      <4>1. Length(node) \in 0 .. AutoSteps
        BY <1>2, RowWrites
      <4> QED
        BY <1>3, <4>1
    <3>4. "finish" \in Works /\ StateFor("finish", row.state)
      BY <3>1 DEF Works, StateFor
    <3> QED
      BY <1>1, <3>1, <3>2, <3>3, <3>4, WorkerGoesOn DEF Rest, CommandHasStep
  <2>3. CASE TearDownCleaning(t)
    <3>1. CASE CleaningError(t, node)
      BY <1>1, <1>2, <2>1, <3>1, CleaningFails
    <3>2. CASE /\ Becomes(t, "finished", task[t].idx, node)
               /\ agent' = Off
               /\ UNCHANGED <<conductor, calls, cleaned, robbed, faults>>
      <4>1. /\ "finished" \in Works /\ StateFor("finished", node.state)
            /\ task[t].idx \in 0 .. AutoSteps + 1
        BY <1>2, <2>1 DEF Works, StateFor, Tasks
      <4>2. Core'
        BY <1>1, <1>2, <3>2, <4>1, WorkerGoesOn
      <4> QED
        BY <1>1, <3>2, <4>2, AgentStates DEF Rest, CommandHasStep
    <3> QED
      BY <2>3, <3>1, <3>2 DEF TearDownCleaning
  <2>4. CASE CleaningDone(t)
    <3>1. /\ Ends(t, Event(node, task[t].state, IF Manual(node) THEN "manage" ELSE "done", "none"))
          /\ UNCHANGED <<conductor, agent, calls, cleaned, robbed, faults>>
      BY <2>4 DEF CleaningDone
    <3>2. Core'
      BY <1>2, <1>3, <1>4, <2>1, <3>1
    <3> QED
      BY <1>1, <3>1, <3>2 DEF Rest, CommandHasStep
  <2> QED
    BY <1>10, <2>2, <2>3, <2>4
<1>11. CASE AbortWork(t)
  <2>1. /\ [node EXCEPT !.step = 0, !.abortAfter = FALSE] \in Rows
        /\ [node EXCEPT !.step = 0, !.abortAfter = FALSE].reservation = node.reservation
        /\ [node EXCEPT !.maintenance = TRUE] \in Rows
        /\ [node EXCEPT !.maintenance = TRUE].reservation = node.reservation
    <3>1. 0 \in 0 .. AutoSteps
      BY <1>3
    <3> QED
      BY <1>2, <3>1 DEF Rows
  <2>2. Core'
    BY <1>1, <1>11, <2>1, WorkerEnds DEF AbortWork
  <2> QED
    BY <1>1, <1>11, <2>2, AgentStates DEF AbortWork, Rest, CommandHasStep
<1> QED
  BY <1>7, <1>8, <1>9, <1>10, <1>11

\* The ends of tasks: the release of the node, and the call of continue_node_clean().
LEMMA ReleaseKeeps ==
    ASSUME ConductorInv, NEW t \in Slots, Release(t) \/ HeartbeatClean(t)
    PROVE  ConductorInv'
<1> USE TwoHalves DEF At
<1>1. Core /\ Rest /\ task[t] # NoTask
  BY DEF Release, HeartbeatClean
<1>2. node \in Rows /\ task[t] \in Tasks /\ task[t].state = node.state /\ task[t].host \in Hosts
  BY <1>1, AtWork DEF Tasks
<1>3. CASE Release(t)
  BY <1>1, <1>2, <1>3, ReleasedTyped, TaskEnds DEF Release, Rest, CommandHasStep
<1>4. CASE HeartbeatClean(t)
  <2> DEFINE row == [node EXCEPT !.old = FALSE]
  <2>1. row \in Rows /\ row.reservation = node.reservation
        /\ [row EXCEPT !.skip = FALSE] \in Rows /\ SetSteps(row) \in Rows
    <3>1. row \in Rows /\ row.reservation = node.reservation
      BY <1>2 DEF Rows
    <3>2. [row EXCEPT !.skip = FALSE] \in Rows
      BY <3>1 DEF Rows
    <3> QED
      BY <3>1, <3>2, RowWrites
  <2>2. ASSUME NEW r \in Rows, Notify(t, r) PROVE ConductorInv'
    <3>1. Core'
      BY <1>1, <1>2, <2>2, ReleasedTyped, TaskEnds DEF Notify
    <3>2. calls' \in 0 .. 2
      BY <1>1, <1>4, <2>2 DEF HeartbeatClean, Notify, Rest, CommandHasStep
    <3> QED
      BY <1>1, <2>2, <3>1, <3>2 DEF Notify, Rest, CommandHasStep
  <2>3. CASE Ends(t, row) /\ UNCHANGED <<conductor, agent, calls, cleaned, robbed, faults>>
    BY <1>1, <2>1, <2>3, WorkerEnds DEF Rest, CommandHasStep
  <2>4. CASE CleaningError(t, row)
    <3>1. node.state \in {"cleaning", "cleanwait"}
      BY <1>2, <1>4 DEF HeartbeatClean
    <3> QED
      BY <1>1, <2>1, <2>4, <3>1, CleaningFails
  <2>5. \/ \E r \in {SetSteps(row), row, [row EXCEPT !.skip = FALSE]} : Notify(t, r)
        \/ Ends(t, row) /\ UNCHANGED <<conductor, agent, calls, cleaned, robbed, faults>>
        \/ CleaningError(t, row)
    BY <1>4 DEF HeartbeatClean
  <2> HIDE DEF row
  <2> QED
    BY <2>1, <2>2, <2>3, <2>4, <2>5
<1> QED
  BY <1>3, <1>4
-----------------------------------------------------------------------------
(* Requests, periodic tasks and processes.                                   *)

\* A request or a periodic task reserves the node and spawns a worker, or is turned
\* down and leaves a row behind.
LEMMA SpawnKeeps ==
    ASSUME ConductorInv, node.reservation = Nobody, \E t \in Slots : task[t] = NoTask,
           NEW h \in Hosts, conductor[h].proc \in {"up", "stopping"}, SameProcesses,
           agent' = agent, calls' \in 0 .. 2, cleaned' \in {cleaned, {}}, robbed' = robbed,
           NEW work \in Works \ {"step"}, NEW idx \in 0 .. AutoSteps + 1, NEW row \in Rows,
           StateFor(work, row.state), NEW back \in Rows,
           SpawnOrReject(h, work, idx, row, back)
    PROVE  ConductorInv'
<1> USE TwoHalves
<1>1. Rest'
  BY ConductorAssumption DEF Rest, CommandHasStep, SpawnOrReject, Rejected, Fault
<1>2. CASE Spawn(h, work, idx, row)
  BY <1>1, <1>2, TaskSpawned
<1>3. CASE Rejected(back)
  BY <1>1, <1>3, UnreservedIsIdle, RowWritten DEF Rejected
<1> QED
  BY <1>2, <1>3 DEF SpawnOrReject

\* A request that has no worker leaves a row behind.
LEMMA WriteKeeps ==
    ASSUME ConductorInv, node.reservation = Nobody, node' \in Rows, task' = task, SameProcesses,
           agent' = agent, calls' \in 0 .. 2, cleaned' = cleaned, robbed' = robbed,
           faults' = faults
    PROVE  ConductorInv'
<1> USE TwoHalves
<1>1. Rest'
  BY DEF Rest, CommandHasStep
<1> QED
  BY <1>1, UnreservedIsIdle, RowWritten

\* The requests.
LEMMA RequestKeeps ==
    ASSUME ConductorInv, NEW h \in Hosts, Requests(h) \/ Heartbeat(h)
    PROVE  ConductorInv'
<1> DEFINE Asks(work, row) ==
        /\ Spawn(h, work, 0, row)
        /\ cleaned' \in {cleaned, {}} /\ UNCHANGED <<conductor, agent, calls, robbed, faults>>
<1>1. /\ node.reservation = Nobody /\ \E t \in Slots : task[t] = NoTask
      /\ conductor[h].proc \in {"up", "stopping"}
  BY DEF Requests, Heartbeat, Deploy, TearDown, ManualClean, Provide, Manage, Abort,
     SetMaintenance, OtherWork, Request, Reserve, Serves
<1>2. /\ node \in Rows /\ node.state \in States /\ calls \in 0 .. 2 /\ "none" \in Targets
      /\ "manageable" \in Targets
      /\ 0 \in 0 .. AutoSteps + 1 /\ conductor \in [Hosts -> Processes]
  BY ConductorAssumption DEF ConductorInv, TypeOK, Rows, Targets
<1>3. conductor' = conductor => SameProcesses
  BY <1>2 DEF SameProcesses
<1>4. ASSUME NEW work \in Works \ {"step"}, NEW row \in Rows, StateFor(work, row.state),
             Asks(work, row)
      PROVE  ConductorInv'
  BY <1>1, <1>2, <1>3, <1>4, SpawnKeeps DEF SpawnOrReject
<1>5. ASSUME NEW e, NEW target \in Targets, NEW s \in States, Goto(node.state, e) = s
      PROVE  /\ Event(node, node.state, e, target) \in Rows
             /\ Event(node, node.state, e, target).state = s
  BY <1>2, <1>5, EventMoves
<1>6. /\ StateFor("deploy", "deploying") /\ StateFor("teardown", "deleting")
      /\ StateFor("manualclean", "cleaning") /\ StateFor("clean", "cleaning")
      /\ StateFor("verify", "verifying") /\ StateFor("abort", "cleanfail")
      /\ StateFor("exit", node.state) /\ StateFor("heartbeat", node.state)
  BY DEF StateFor
<1>7. {"deploy", "teardown", "manualclean", "clean", "verify", "abort", "exit", "heartbeat"}
        \subseteq Works \ {"step"}
  BY DEF Works
<1>8. CASE Deploy(h)
  <2>1. PICK e \in {"deploy", "rebuild"} : Can(node.state, e)
                  /\ Asks("deploy", Event(node, node.state, e, "none"))
    BY <1>8 DEF Deploy
  <2>2. Goto(node.state, e) = "deploying" /\ "deploying" \in States
    BY <2>1, RequestMoves, StatesListed
  <2> QED
    BY <1>2, <1>4, <1>5, <1>6, <1>7, <2>1, <2>2
<1>9. CASE TearDown(h)
  <2>1. Goto(node.state, "delete") = "deleting" /\ "deleting" \in States
    BY <1>9, RequestMoves, StatesListed DEF TearDown
  <2> QED
    BY <1>2, <1>4, <1>5, <1>6, <1>7, <1>9, <2>1 DEF TearDown
<1>10. CASE ManualClean(h)
  <2>1. Goto(node.state, "clean") = "cleaning" /\ "cleaning" \in States
    BY <1>10, MachineMoves, StatesListed DEF ManualClean
  <2> QED
    BY <1>2, <1>4, <1>5, <1>6, <1>7, <1>10, <2>1 DEF ManualClean
<1>11. CASE Provide(h)
  <2>1. Goto(node.state, "provide") = "cleaning" /\ "cleaning" \in States
    BY <1>11, MachineMoves, StatesListed DEF Provide
  <2> QED
    BY <1>2, <1>4, <1>5, <1>6, <1>7, <1>11, <2>1 DEF Provide
<1>12. CASE Manage(h)
  <2> DEFINE row == Event(node, node.state, "manage", "none")
  <2>1. CASE node.state = "enroll"
    <3>1. Goto(node.state, "manage") = "verifying" /\ "verifying" \in States
      BY <1>12, <2>1, RequestMoves, StatesListed DEF Manage
    <3>2. Asks("verify", row)
      BY <1>12, <2>1 DEF Manage
    <3> QED
      BY <1>2, <1>4, <1>5, <1>6, <1>7, <3>1, <3>2
  <2>2. CASE node.state # "enroll"
    <3>1. Goto(node.state, "manage") = "manageable" /\ "manageable" \in States
      BY <1>12, <2>2, RequestMoves, StatesListed DEF Manage
    <3>2. node' = row /\ UNCHANGED <<task, conductor, agent, calls, cleaned, robbed, faults>>
      BY <1>12, <2>2 DEF Manage
    <3>3. row \in Rows
      BY <1>2, <1>5, <3>1
    <3> QED
      BY <1>1, <1>2, <1>3, <3>2, <3>3, WriteKeeps
  <2> QED
    BY <2>1, <2>2
<1>13. CASE Abort(h)
  <2>1. /\ [node EXCEPT !.abortAfter = TRUE] \in Rows /\ [node EXCEPT !.old = FALSE] \in Rows
        /\ KeepManual(node) \in Targets
    BY <1>2, RowWrites DEF Rows
  <2>2. CASE node.step \in (1 .. AutoSteps) \ Abortable
    BY <1>1, <1>2, <1>3, <1>13, <2>1, <2>2, WriteKeeps DEF Abort
  <2>3. CASE ~(node.step \in (1 .. AutoSteps) \ Abortable)
    <3> DEFINE row == Event(node, node.state, "abort", KeepManual(node))
    <3>1. Goto(node.state, "abort") = "cleanfail" /\ "cleanfail" \in States
      BY <1>13, MachineMoves, StatesListed DEF Abort
    <3>2. row \in Rows /\ StateFor("abort", row.state)
      BY <1>5, <1>6, <2>1, <3>1
    <3>3. /\ SpawnOrReject(h, "abort", 0, row, [node EXCEPT !.old = FALSE])
          /\ UNCHANGED <<conductor, agent, calls, cleaned, robbed>>
      BY <1>13, <2>3 DEF Abort
    <3> QED
      BY <1>1, <1>2, <1>3, <1>7, <2>1, <3>2, <3>3, SpawnKeeps
  <2> QED
    BY <2>2, <2>3
<1>14. CASE SetMaintenance(h)
  <2>1. [node EXCEPT !.maintenance = ~@] \in Rows
    BY <1>2 DEF Rows
  <2> QED
    BY <1>1, <1>2, <1>3, <1>14, <2>1, WriteKeeps DEF SetMaintenance
<1>15. CASE OtherWork(h) \/ Heartbeat(h)
  BY <1>2, <1>4, <1>6, <1>7, <1>15 DEF OtherWork, Heartbeat
<1> QED
  BY <1>8, <1>9, <1>10, <1>11, <1>12, <1>13, <1>14, <1>15 DEF Requests

\* A row after the events that calls and periodic tasks fire.
LEMMA ResumedTyped ==
    ASSUME NEW row \in Rows, row.state \in {"cleanwait", "cleaning"}
    PROVE  /\ Resumed(row) \in Rows /\ Resumed(row).state = "cleaning"
           /\ Resumed(row).step = row.step
<1>1. KeepManual(row) \in Targets /\ "cleaning" \in States
  BY RowWrites, StatesListed
<1> QED
  BY <1>1, EventMoves, MachineMoves DEF Resumed

\* continue_node_clean().
LEMMA ContinueKeeps ==
    ASSUME ConductorInv, NEW h \in Hosts, ContinueClean(h)
    PROVE  ConductorInv'
<1> DEFINE idx == IF node.step = 0 THEN 1 ELSE IF node.skip THEN node.step + 1 ELSE node.step
           row == [node EXCEPT !.skip = TRUE]
           failed == Event(row, row.state, "abort", KeepManual(row))
           touched == [row EXCEPT !.old = FALSE]
<1>1. /\ node.reservation = Nobody /\ \E t \in Slots : task[t] = NoTask
      /\ conductor[h].proc \in {"up", "stopping"} /\ calls' \in 0 .. 2
      /\ UNCHANGED <<conductor, agent, cleaned, robbed>>
  BY DEF ContinueClean, Reserve, Serves, ConductorInv, TypeOK
<1>2. node \in Rows /\ SameProcesses /\ node.state \in {"cleanwait", "cleaning"}
  BY <1>1 DEF ContinueClean, ConductorInv, TypeOK, SameProcesses
<1>3. idx \in 0 .. AutoSteps + 1 /\ 0 \in 0 .. AutoSteps + 1
  <2>1. node.step \in 0 .. AutoSteps
    BY <1>2 DEF Rows
  <2> QED
    BY <2>1, ConductorAssumption
<1>4. row \in Rows /\ row.state = node.state /\ touched \in Rows /\ KeepManual(row) \in Targets
  <2>1. row \in Rows /\ row.state = node.state
    BY <1>2 DEF Rows
  <2>2. touched \in Rows
    BY <2>1 DEF Rows
  <2> QED
    BY <2>1, <2>2, RowWrites
<1>5. \/ /\ node.state = "cleanwait"
         /\ SpawnOrReject(h, "abort", 0, failed, touched)
      \/ node' = row /\ UNCHANGED <<task, faults>>
      \/ SpawnOrReject(h, "steps", idx, Resumed(row), Resumed(row))
  BY DEF ContinueClean
<1>6. {"abort", "steps"} \subseteq Works \ {"step"}
  BY DEF Works
<1> HIDE DEF idx, row, touched
<1>7. CASE node.state = "cleanwait" /\ SpawnOrReject(h, "abort", 0, failed, touched)
  <2>1. failed \in Rows
    BY <1>4, <1>7, MachineMoves, StatesListed, EventMoves
  <2>2. StateFor("abort", failed.state)
    BY DEF StateFor
  <2> HIDE DEF failed
  <2> QED
    BY <1>1, <1>2, <1>3, <1>4, <1>6, <1>7, <2>1, <2>2, SpawnKeeps
<1>8. CASE node' = row /\ UNCHANGED <<task, faults>>
  BY <1>1, <1>2, <1>4, <1>8, WriteKeeps
<1>9. CASE SpawnOrReject(h, "steps", idx, Resumed(row), Resumed(row))
  <2>1. Resumed(row) \in Rows /\ StateFor("steps", Resumed(row).state)
    BY <1>2, <1>4, ResumedTyped DEF StateFor
  <2> QED
    BY <1>1, <1>2, <1>3, <1>6, <1>9, <2>1, SpawnKeeps
<1> QED
  BY <1>5, <1>7, <1>8, <1>9
\* The periodic tasks.
LEMMA PeriodicKeeps ==
    ASSUME ConductorInv, NEW h \in Hosts, Periodic(h), ~robbed'
    PROVE  ConductorInv'
<1> USE TwoHalves
<1>1. Core /\ Rest /\ node \in Rows /\ conductor \in [Hosts -> Processes]
      /\ 0 \in 0 .. AutoSteps + 1 /\ "none" \in Targets /\ calls \in 0 .. 2
  BY ConductorAssumption DEF Core, Rest, CommandHasStep, Targets
<1>2. "cleanup" \in Works \ {"step"} /\ \A s : StateFor("cleanup", s)
  BY DEF Works, StateFor
<1>3. ASSUME NEW check \in {"no", "listed", "found", "fail"}, NEW offline \in SUBSET Hosts,
             Checks(h, check, offline)
      PROVE  SameProcesses
  BY <1>1, <1>3 DEF Checks, SameProcesses, Processes
<1>4. conductor' = conductor => SameProcesses
  BY <1>1 DEF SameProcesses
<1>5. CASE CheckDeployTimeouts(h)
  <2>1. /\ Event(node, node.state, "fail", "none") \in Rows
        /\ [node EXCEPT !.old = FALSE] \in Rows
    <3>1. Event(node, node.state, "fail", "none") \in Rows
      BY <1>1, <1>5, EventMoves, MachineMoves, StatesListed DEF CheckDeployTimeouts, Overdue
    <3> QED
      BY <1>1, <3>1 DEF Rows
  <2> QED
    BY <1>1, <1>2, <1>4, <1>5, <2>1, SpawnKeeps
       DEF CheckDeployTimeouts, Reserve, Serves
<1>6. CASE CheckCleanwaitTimeouts(h)
  <2>1. node.target \in Targets
    BY <1>1 DEF Rows, Targets
  <2>2. Event(node, node.state, "fail", node.target) \in Rows
    BY <1>1, <1>6, <2>1, EventMoves, MachineMoves, StatesListed
       DEF CheckCleanwaitTimeouts, Overdue
  <2> QED
    BY <1>1, <1>4, <1>6, <2>2, WriteKeeps DEF CheckCleanwaitTimeouts, Reserve
<1>7. CASE ListOffline(h) \/ ReadDeploying(h)
  <2>1. SameProcesses
    <3>1. /\ Stale \in SUBSET Hosts /\ {} \in SUBSET Hosts
          /\ node.reservation \in conductor[h].offline => {node.reservation} \in SUBSET Hosts
      BY <1>1 DEF Stale, Processes
    <3> QED
      BY <1>3, <1>7, <3>1 DEF ListOffline, ReadDeploying
  <2>2. UNCHANGED <<node, task, agent, calls, cleaned, robbed, faults>>
    BY <1>7 DEF ListOffline, ReadDeploying
  <2> QED
    BY <1>1, <2>1, <2>2, NothingMoves DEF Rest, CommandHasStep
<1>11. CASE BreakReservation(h)
  <2>1. PICK g \in conductor[h].offline :
            \/ /\ StillOwned(h, g) /\ node' = [node EXCEPT !.reservation = Nobody]
               /\ robbed' = (robbed \/ TasksOf(g) # {})
            \/ UNCHANGED <<node, robbed>>
    BY <1>11 DEF BreakReservation
  <2>2. SameProcesses /\ UNCHANGED <<task, agent, calls, cleaned, faults>>
    <3>1. {} \in SUBSET Hosts
      OBVIOUS
    <3> QED
      BY <1>3, <1>11, <3>1 DEF BreakReservation
  <2>3. CASE UNCHANGED <<node, robbed>>
    BY <1>1, <2>2, <2>3, NothingMoves DEF Rest, CommandHasStep
  <2>4. CASE /\ StillOwned(h, g) /\ node' = [node EXCEPT !.reservation = Nobody]
             /\ robbed' = (robbed \/ TasksOf(g) # {})
    <3>1. node' \in Rows /\ robbed' \in BOOLEAN
      BY <1>1, <2>4 DEF Rows, Rest
    \* Nobody is robbed, so the conductor that owned the node does not work on it.
    <3>2. NoTasks
      BY <1>1, <2>4 DEF Core, OneTask, NoTasks, TasksOf, StillOwned
    <3>3. Core'
      BY <1>1, <2>2, <3>1, <3>2, RowWritten
    <3> QED
      BY <1>1, <2>2, <3>1, <3>3 DEF Rest, CommandHasStep
  <2> QED
    BY <2>1, <2>3, <2>4
<1>8. CASE FailDeploying(h)
  <2>1. SameProcesses /\ UNCHANGED <<agent, calls, cleaned, robbed>>
    <3>1. {} \in SUBSET Hosts
      OBVIOUS
    <3> QED
      BY <1>3, <1>8, <3>1 DEF FailDeploying
  <2>2. CASE /\ CanFail /\ \E t \in Slots : task[t] = NoTask
             /\ SpawnOrReject(h, "cleanup", 0, Event(node, node.state, "fail", "none"), node)
    <3>1. Event(node, node.state, "fail", "none") \in Rows
      BY <1>1, <2>2, EventMoves, MachineMoves, StatesListed DEF CanFail
    <3> QED
      BY <1>1, <1>2, <1>8, <2>1, <2>2, <3>1, SpawnKeeps DEF FailDeploying, Continues, CanFail
  <2>3. CASE UNCHANGED <<node, task>> /\ (faults' = faults \/ Fault("busy"))
    <3>1. Rest'
      BY <1>1, <2>1, <2>3, ConductorAssumption DEF Rest, CommandHasStep, Fault
    <3>2. Core'
      BY <1>1, <2>1, <2>3, NothingMoves
    <3> QED
      BY <3>1, <3>2
  <2> QED
    BY <1>8, <2>2, <2>3 DEF FailDeploying, LockedForLong
<1> QED
  BY <1>5, <1>6, <1>7, <1>8, <1>11 DEF Periodic

\* The processes.
LEMMA ProcessKeeps ==
    ASSUME ConductorInv, NEW h \in Hosts,
           Crash(h) \/ DelHost(h) \/ Stopped(h) \/ HeartbeatLapses(h) \/ HeartbeatLate(h)
           \/ Keepalive(h) \/ InitHost(h) \/ InitHostFails(h)
    PROVE  ConductorInv'
<1> USE TwoHalves
<1>1. Core /\ Rest /\ node \in Rows /\ conductor \in [Hosts -> Processes]
  BY DEF Core
<1>2. ASSUME HostDown(h), faults' \in 0 .. MaxFaults PROVE ConductorInv'
  <2>1. Rest'
    BY <1>1, <1>2 DEF HostDown, Rest, CommandHasStep
  <2>2. /\ task' \in [Slots -> Tasks \cup {NoTask}]
        /\ \A t \in Slots : task'[t] # NoTask => task'[t] = task[t] /\ task[t].host # h
    BY <1>1, <1>2 DEF Core, HostDown, TasksOf
  <2>3. /\ conductor' \in [Hosts -> Processes]
        /\ conductor'[h].proc = "down"
        /\ \A g \in Hosts \ {h} : conductor'[g] = conductor[g]
    <3> DEFINE down == [conductor[h] EXCEPT !.proc = "down", !.check = "no", !.offline = {}]
    <3>1. conductor[h] \in Processes /\ {} \in SUBSET Hosts
      BY <1>1
    <3>2. down \in Processes /\ down.proc = "down"
      BY <3>1 DEF Processes
    <3>3. conductor' = [conductor EXCEPT ![h] = down]
      BY <1>2 DEF HostDown
    <3> HIDE DEF down
    <3> QED
      BY <1>1, <3>2, <3>3
  <2>4. node' = node
    BY <1>2 DEF HostDown
  <2>5. TasksKnowState' /\ OneTask'
    BY <1>1, <2>2, <2>4 DEF Core, TasksKnowState, OneTask
  <2>6. TasksRun'
    BY <1>1, <2>2, <2>3 DEF Core, TasksRun, Tasks
  <2> QED
    BY <1>1, <2>1, <2>2, <2>3, <2>4, <2>5, <2>6 DEF Core
<1>3. ASSUME task' = task, NEW p, conductor' = [conductor EXCEPT ![h] = p], p \in Processes,
             \/ node' = node /\ (conductor[h].proc = p.proc \/ p.proc = "stopping")
             \/ node' = Released(node, h) /\ conductor[h].proc = "down",
             Rest'
      PROVE  ConductorInv'
  <2>1. \A t \in Slots : task[t] # NoTask => task[t] \in Tasks
    BY <1>1 DEF Core
  <2>2. node' \in Rows /\ node'.state = node.state
    BY <1>1, <1>3, ReleasedTyped
  <2>3. \A t \in Slots : task[t] # NoTask => node'.reservation = node.reservation
    <3> SUFFICES ASSUME NEW t \in Slots, task[t] # NoTask
                 PROVE  node'.reservation = node.reservation
      OBVIOUS
    <3>1. task[t].host \in Hosts /\ node.reservation = task[t].host
      BY <1>1, <2>1 DEF Core, OneTask, Tasks
    <3>2. conductor[h].proc = "down" => task[t].host # h
      BY <1>1 DEF Core, TasksRun
    <3> QED
      BY <1>1, <1>3, <3>1, <3>2, ReleasedTyped
  <2>4. TasksKnowState' /\ OneTask'
    BY <1>1, <1>3, <2>2, <2>3 DEF Core, TasksKnowState, OneTask
  <2>5. TasksRun'
    BY <1>1, <1>3, <2>1 DEF Core, TasksRun, Tasks
  <2> QED
    BY <1>1, <1>3, <2>2, <2>4, <2>5 DEF Core
<1>4. CASE Crash(h) \/ Stopped(h)
  <2>1. faults' \in 0 .. MaxFaults
    BY <1>1, <1>4, ConductorAssumption DEF Crash, Stopped, Fault, Rest, CommandHasStep
  <2> QED
    BY <1>2, <1>4, <2>1 DEF Crash, Stopped
<1>5. CASE DelHost(h)
  <2> DEFINE p == [conductor[h] EXCEPT !.proc = "stopping", !.online = FALSE]
  <2>1. conductor' = [conductor EXCEPT ![h] = p] /\ p \in Processes /\ p.proc = "stopping"
    BY <1>1, <1>5 DEF DelHost, Processes
  <2>3. Rest' /\ task' = task /\ node' = node
    BY <1>1, <1>5, ConductorAssumption DEF DelHost, Fault, Rest, CommandHasStep
  <2> HIDE DEF p
  <2> QED
    BY <1>3, <2>1, <2>3
<1>6. CASE HeartbeatLapses(h) \/ HeartbeatLate(h) \/ Keepalive(h)
  <2>1. PICK p \in Processes : /\ conductor' = [conductor EXCEPT ![h] = p]
                               /\ p.proc = conductor[h].proc
    <3> DEFINE late == [conductor[h] EXCEPT !.fresh = FALSE]
               alive == [conductor[h] EXCEPT !.fresh = TRUE, !.online = TRUE]
    <3>1. conductor[h] \in Processes
      BY <1>1
    <3>2. /\ late \in Processes /\ late.proc = conductor[h].proc
          /\ alive \in Processes /\ alive.proc = conductor[h].proc
      BY <3>1 DEF Processes
    <3>3. conductor' = [conductor EXCEPT ![h] = late] \/ conductor' = [conductor EXCEPT ![h] = alive]
      BY <1>6 DEF HeartbeatLapses, HeartbeatLate, Keepalive
    <3> HIDE DEF late, alive
    <3> QED
      BY <3>2, <3>3
  <2>2. Rest' /\ task' = task /\ node' = node
    BY <1>1, <1>6, ConductorAssumption
       DEF HeartbeatLapses, HeartbeatLate, Keepalive, Fault, Rest, CommandHasStep
  <2> QED
    BY <1>3, <2>1, <2>2
<1>7. CASE InitHost(h)
  <2> DEFINE p == [proc |-> "starting", online |-> TRUE, fresh |-> TRUE,
                   check |-> "no", offline |-> {}]
  <2>1. p \in Processes
    BY DEF Processes
  <2>2. /\ Rest' /\ task' = task /\ node' = Released(node, h)
        /\ conductor[h].proc = "down" /\ conductor' = [conductor EXCEPT ![h] = p]
    BY <1>1, <1>7 DEF InitHost, ClearReservations, Rest, CommandHasStep
  <2> HIDE DEF p
  <2> QED
    BY <1>3, <2>1, <2>2
<1>8. CASE InitHostFails(h)
  <2>1. conductor[h].proc = "starting"
    BY <1>8 DEF InitHostFails
  <2>2. /\ conductor' \in [Hosts -> Processes]
        /\ conductor'[h].proc = "up"
        /\ \A g \in Hosts \ {h} : conductor'[g] = conductor[g]
    BY <1>1, <1>8, <2>1 DEF InitHostFails, Processes
  <2>3. Rest' /\ task' = task
    BY <1>1, <1>8 DEF InitHostFails, Rest, CommandHasStep
  <2>4. TasksRun'
    BY <1>1, <2>2, <2>3 DEF Core, TasksRun, Tasks
  <2>5. CASE node' = node
    BY <1>1, <2>2, <2>3, <2>4, <2>5 DEF Core, TasksKnowState, OneTask
  <2>6. CASE CanFail /\ node' = Event(node, node.state, "fail", "none")
    <3>1. node' \in Rows
      BY <1>1, <2>6, EventMoves, MachineMoves, StatesListed DEF CanFail, Targets
    <3>2. NoTasks /\ NoTasks'
      BY <1>1, <2>3, <2>6, UnreservedIsIdle DEF CanFail, NoTasks
    <3> QED
      BY <1>1, <2>2, <2>3, <2>4, <3>1, <3>2 DEF Core, NoTasks, TasksKnowState, OneTask
  <2> QED
    BY <1>8, <2>5, <2>6 DEF InitHostFails, FailIfDeploying
<1> QED
  BY <1>4, <1>5, <1>6, <1>7, <1>8

\* The calls that fail, the agent and the time.
LEMMA OthersKeep ==
    ASSUME ConductorInv, CallFails \/ AgentWorks \/ TimePasses \/ UNCHANGED vars
    PROVE  ConductorInv'
<1> USE TwoHalves
<1>1. Core /\ Rest /\ node \in Rows
  BY DEF Core
<1>2. /\ task' = task /\ conductor' = conductor /\ node' \in Rows
      /\ node'.state = node.state /\ node'.reservation = node.reservation
  BY <1>1 DEF CallFails, AgentWorks, TimePasses, vars, Rows
<1>3. Core'
  BY <1>1, <1>2 DEF Core, TasksKnowState, TasksRun, OneTask
<1>4. CASE CallFails \/ TimePasses \/ UNCHANGED vars
  <2>1. Rest'
    BY <1>1, <1>4 DEF CallFails, TimePasses, vars, Rest, CommandHasStep
  <2> QED
    BY <1>3, <2>1
<1>5. CASE AgentWorks
  <2>1. agent' \in Agents /\ CommandHasStep'
    BY <1>1, <1>5 DEF AgentWorks, Rest, CommandHasStep, Agents
  <2>2. calls' \in 0 .. 2 /\ faults' \in 0 .. MaxFaults /\ robbed' \in BOOLEAN
    BY <1>1, <1>5 DEF AgentWorks, Rest, CommandHasStep
  <2>3. cleaned' \subseteq 1 .. AutoSteps
    BY <1>1, <1>5 DEF AgentWorks, Rest, CommandHasStep, Agents
  <2> QED
    BY <1>3, <2>1, <2>2, <2>3 DEF Rest
<1> QED
  BY <1>4, <1>5
\* The initial states.
LEMMA ConductorInitially == Init => CleaningInv
<1> SUFFICES ASSUME Init PROVE CleaningInv
  OBVIOUS
<1>1. 0 \in 0 .. AutoSteps /\ 0 \in 0 .. 2 /\ 0 \in 0 .. MaxFaults
  BY ConductorAssumption
<1>2. node \in Rows /\ node.step = 0 /\ node.reservation = Nobody
  BY <1>1, StatesListed DEF Init, Rows
<1>3. NoTasks /\ task \in [Slots -> Tasks \cup {NoTask}]
  BY DEF Init, NoTasks
<1>4. conductor \in [Hosts -> Processes] /\ \A h \in Hosts : conductor[h].fresh
  BY DEF Init, Processes
<1>5. agent \in Agents /\ agent.cmd = "none" /\ calls = 0 /\ faults = 0
      /\ robbed \in BOOLEAN
  BY AgentStates DEF Init
<1>6. cleaned \subseteq 1 .. AutoSteps
  BY DEF Init
<1>7. ConductorInv
  BY <1>1, <1>2, <1>3, <1>4, <1>5, <1>6 DEF ConductorInv, TypeOK, NoTasks, TasksKnowState,
     TasksRun, CommandHasStep, OneTask
<1>8. Progress
  BY <1>2, <1>3, <1>5 DEF Progress, StepsAreDone, ReportsAreTrue, NoTraces, CallsAreTimely,
     NothingLeft, NoTasks
<1> QED
  BY <1>7, <1>8 DEF CleaningInv

\* Every step keeps the invariant.
LEMMA ConductorInductive ==
    ASSUME ConductorInv, [Next]_vars, ~robbed' PROVE ConductorInv'
<1>1. ASSUME NEW t \in Slots, Work(t) PROVE ConductorInv'
  BY <1>1, DeploymentKeeps, CleaningKeeps, ReleaseKeeps DEF Work
<1>2. ASSUME NEW h \in Hosts,
             \/ Requests(h) \/ Heartbeat(h) \/ ContinueClean(h) \/ Periodic(h)
             \/ Crash(h) \/ DelHost(h) \/ Stopped(h) \/ HeartbeatLapses(h)
             \/ HeartbeatLate(h) \/ Keepalive(h) \/ InitHost(h) \/ InitHostFails(h)
      PROVE  ConductorInv'
  BY <1>2, RequestKeeps, ContinueKeeps, PeriodicKeeps, ProcessKeeps
<1> QED
  BY <1>1, <1>2, OthersKeep DEF Next

\* A robbery is not forgotten.
LEMMA RobbedStays == ASSUME [Next]_vars, robbed PROVE robbed'
<1>1. ASSUME NEW t \in Slots, Work(t) PROVE robbed' = robbed
  BY <1>1 DEF Work, Release, DeployWork, TearDownWork, VerifyWork, CleanupWork, CleanWork, Clean,
     SaveStep, ExecuteStep, StepsDone, TearDownCleaning, CleaningDone, AbortWork, CleaningError,
     HeartbeatDeploy, ImageWork, BootWork, HeartbeatClean, HeartbeatIgnored, Notify
<1>2. ASSUME NEW h \in Hosts, Requests(h) \/ Heartbeat(h) \/ ContinueClean(h)
      PROVE  robbed' = robbed
  BY <1>2 DEF Requests, Heartbeat, ContinueClean, Deploy, TearDown, ManualClean, Provide, Manage,
     Abort, SetMaintenance, OtherWork
<1>3. ASSUME NEW h \in Hosts, Periodic(h) PROVE robbed'
  BY <1>3 DEF Periodic, CheckDeployTimeouts, CheckCleanwaitTimeouts, ListOffline, ReadDeploying,
     BreakReservation, FailDeploying
<1>4. ASSUME NEW h \in Hosts,
             \/ Crash(h) \/ DelHost(h) \/ Stopped(h) \/ HeartbeatLapses(h)
             \/ HeartbeatLate(h) \/ Keepalive(h) \/ InitHost(h) \/ InitHostFails(h)
      PROVE  robbed' = robbed
  BY <1>4 DEF Crash, DelHost, Stopped, HostDown, HeartbeatLapses, HeartbeatLate, Keepalive,
     InitHost, InitHostFails
<1> QED
  BY <1>1, <1>2, <1>3, <1>4 DEF Next, CallFails, AgentWorks, TimePasses, vars

\* The invariant holds until a conductor at work is robbed of its reservation.
THEOREM ConductorInvariant == Spec => [](~robbed => ConductorInv)
<1>1. Init => ConductorInv
  BY ConductorInitially DEF CleaningInv
<1>2. (~robbed => ConductorInv) /\ [Next]_vars => (~robbed => ConductorInv)'
  BY ConductorInductive, RobbedStays
<1> QED
  BY <1>1, <1>2, PTL DEF Spec

\* Whatever crashes, restarts, is late, is released or cleared: until the reservation of
\* a conductor at work is broken, a node is worked on by one task, and reserved for its
\* host.
THEOREM OneTaskPerNode == Spec => []OneTaskAtATime
<1>1. (~robbed => ConductorInv) => OneTaskAtATime
  BY DEF ConductorInv, OneTaskAtATime
<1> QED
  BY <1>1, ConductorInvariant, PTL
-----------------------------------------------------------------------------
(* The steps of a cleaning.                                                  *)

\* A cleaning that ends well has done its list, in a step.
NoSkip == node.state = "cleaning" /\ node'.state \in {"available", "manageable"} =>
              \/ \E t \in Slots : At(t, "finished") /\ 1 .. task[t].idx \subseteq cleaned
              \/ node.reservation = Nobody /\ node'.state = "manageable"

\* What is done stays done, so only what a step writes needs a look.
LEMMA ProgressKept ==
    ASSUME CleaningInv, cleaned \subseteq cleaned',
           node'.step \in {0, node.step} \/ 1 .. node'.step - 1 \subseteq cleaned',
           \A u \in Slots : task'[u] # NoTask =>
               task'[u] = task[u] \/ StepsKnown(task'[u].work, task'[u].idx, cleaned'),
           agent' = agent \/ agent'.cmd # "clean" \/ agent'.st # "ok",
           node'.step # 0 \/ agent'.cmd = "clean" => node'.state \in Cleanings,
           CallsAreTimely', NothingLeft'
    PROVE  Progress'
<1> USE DEF CleaningInv, Progress
<1>1. StepsAreDone'
  <2>1. node'.step # 0 => 1 .. node'.step - 1 \subseteq cleaned'
    BY DEF StepsAreDone
  <2>2. \A u \in Slots : task'[u] # NoTask => StepsKnown(task'[u].work, task'[u].idx, cleaned')
    BY DEF StepsAreDone, StepsKnown
  <2> QED
    BY <2>1, <2>2 DEF StepsAreDone
<1>2. ReportsAreTrue' /\ NoTraces'
  BY DEF ReportsAreTrue, NoTraces
<1> QED
  BY <1>1, <1>2

\* A worker, which no call is waiting for.
LEMMA WorkerProgress ==
    ASSUME CleaningInv, NEW t \in Slots, task[t] # NoTask, NEW work, NEW idx, NEW row,
           Becomes(t, work, idx, row), calls' = calls, cleaned \subseteq cleaned',
           row.step \in {0, node.step} \/ 1 .. row.step - 1 \subseteq cleaned',
           StepsKnown(work, idx, cleaned'),
           agent' = agent \/ agent'.cmd # "clean" \/ agent'.st # "ok",
           row.step # 0 \/ agent'.cmd = "clean" => row.state \in Cleanings,
           work \in {"finish", "finished"} => row.step = 0,
           work = "finished" => agent'.cmd # "clean"
    PROVE  Progress' /\ node' = row
<1>1. Core /\ calls = 0
  BY TwoHalves DEF CleaningInv, Progress, CallsAreTimely, NoTasks, Rest
<1>2. CallsAreTimely'
  BY <1>1 DEF CallsAreTimely
<1>3. /\ \A u \in Slots : task'[u] # NoTask => u = t
      /\ task'[t].work = work /\ task'[t].idx = idx
  <2>1. task[t] \in Tasks /\ task \in [Slots -> Tasks \cup {NoTask}]
        /\ \A u \in Slots : task[u] # NoTask => u = t
    BY <1>1 DEF Core, OneTask
  <2> QED
    BY <2>1 DEF Becomes, Tasks
<1>4. node' = row
  BY DEF Becomes
<1>5. NothingLeft'
  BY <1>3, <1>4 DEF NothingLeft
<1> QED
  BY <1>2, <1>3, <1>4, <1>5, ProgressKept

\* A worker that is spawned when no other call is on its way.
LEMMA SpawnProgress ==
    ASSUME CleaningInv, node.reservation = Nobody, \E t \in Slots : task[t] = NoTask,
           NEW h \in Hosts, conductor[h].proc \in {"up", "stopping"}, SameProcesses,
           NEW work \in Works \ {"step", "finish", "finished"},
           NEW idx \in 0 .. AutoSteps + 1, NEW row \in Rows,
           StateFor(work, row.state), NEW back \in Rows, SpawnOrReject(h, work, idx, row, back),
           calls' = 0, agent' = agent, cleaned' = cleaned,
           row.step \in {0, node.step}, back.step \in {0, node.step},
           StepsKnown(work, idx, cleaned),
           row.step # 0 \/ agent.cmd = "clean" => row.state \in Cleanings,
           back.step # 0 \/ agent.cmd = "clean" => back.state \in Cleanings
    PROVE  Progress' /\ node'.state \in {row.state, back.state}
<1>1. Core /\ CallsAreTimely' /\ NoTasks
  BY TwoHalves, UnreservedIsIdle DEF CleaningInv, CallsAreTimely
<1>2. CASE Spawn(h, work, idx, row)
  <2>1. /\ node'.state = row.state /\ node'.step = row.step
        /\ \A u \in Slots : task'[u] # NoTask =>
              task'[u].work = work /\ task'[u].idx = idx
    <3>1. /\ task'[Free] = [host |-> h, work |-> work, idx |-> idx, state |-> row.state]
          /\ \A u \in Slots \ {Free} : task'[u] = NoTask
          /\ node' = [row EXCEPT !.reservation = h]
      BY <1>1, <1>2, TaskSpawned
    <3> QED
      BY <3>1 DEF Rows
  <2>2. NothingLeft'
    BY <2>1 DEF NothingLeft
  <2> QED
    BY <1>1, <2>1, <2>2, ProgressKept
<1>3. CASE Rejected(back)
  BY <1>1, <1>3, ProgressKept DEF Rejected, NoTasks, NothingLeft
<1> QED
  BY <1>2, <1>3 DEF SpawnOrReject

\* A row that is written when there is no task.
LEMMA WriteProgress ==
    ASSUME CleaningInv, NoTasks, task' = task, agent' = agent, cleaned' = cleaned,
           node'.step \in {0, node.step}, CallsAreTimely',
           node'.step # 0 \/ agent.cmd = "clean" => node'.state \in Cleanings
    PROVE  Progress'
  BY ProgressKept DEF NoTasks, NothingLeft

\* Workers outside of cleaning find no trace of it, and leave none.
LEMMA DeploymentProgress ==
    ASSUME CleaningInv, NEW t \in Slots,
           DeployWork(t) \/ TearDownWork(t) \/ VerifyWork(t) \/ CleanupWork(t)
           \/ HeartbeatDeploy(t) \/ ImageWork(t) \/ BootWork(t) \/ HeartbeatIgnored(t)
    PROVE  Progress' /\ NoSkip
<1> USE DEF At
<1>1. Core /\ task[t] # NoTask /\ calls' = calls /\ cleaned' = cleaned /\ "none" \in Targets
  BY TwoHalves DEF CleaningInv, DeployWork, TearDownWork, VerifyWork, CleanupWork,
     HeartbeatDeploy, ImageWork, BootWork, HeartbeatIgnored, Targets
<1>2. /\ node \in Rows /\ task[t].state = node.state /\ NoTraces
      /\ StateFor(task[t].work, node.state)
  BY <1>1, AtWork DEF CleaningInv, Progress
<1>3. CASE CleanupWork(t) \/ HeartbeatIgnored(t)
  <2>1. Becomes(t, "exit", 0, node) /\ agent' = agent
    BY <1>3 DEF CleanupWork, HeartbeatIgnored, Ends
  <2> QED
    BY <1>1, <1>2, <2>1, WorkerProgress DEF NoTraces, NoSkip, StepsKnown
<1>4. ASSUME node.state \notin Cleanings, agent' = agent \/ agent'.cmd # "clean",
             NEW work, work \notin {"steps", "step", "finish", "finished"},
             NEW row, Becomes(t, work, 0, row),
             row.step = node.step
      PROVE  Progress' /\ NoSkip
  <2>1. node.step = 0 /\ agent'.cmd # "clean" /\ node.state # "cleaning"
    BY <1>2, <1>4 DEF NoTraces, Cleanings
  <2> QED
    BY <1>1, <1>4, <2>1, WorkerProgress DEF NoSkip, StepsKnown
<1>5. CASE ~(CleanupWork(t) \/ HeartbeatIgnored(t))
  <2>1. node.state \notin Cleanings
    BY <1>2, <1>5 DEF DeployWork, TearDownWork, VerifyWork, HeartbeatDeploy, ImageWork, BootWork,
       StateFor, Cleanings
  <2>2. agent' = agent \/ agent'.cmd # "clean"
    <3>1. [Booted EXCEPT !.cmd = "image", !.st = "running"].cmd = "image"
      BY AgentStates DEF Agents
    <3> QED
      BY <1>5, <3>1, AgentStates DEF DeployWork, TearDownWork, VerifyWork, HeartbeatDeploy,
         ImageWork, BootWork, DeployFails
  <2>3. ASSUME NEW e, Goto(node.state, e) \in States, NEW work,
               work \notin {"steps", "step", "finish", "finished"},
               Becomes(t, work, 0, Event(node, task[t].state, e, "none"))
        PROVE  Progress' /\ NoSkip
    <3>1. Event(node, task[t].state, e, "none").step = node.step
      BY <1>1, <1>2, <2>3, EventMoves
    <3> QED
      BY <1>4, <2>1, <2>2, <2>3, <3>1
  <2>4. CASE Becomes(t, "exit", 0, [node EXCEPT !.old = FALSE])
    <3>1. [node EXCEPT !.old = FALSE].step = node.step
      BY <1>2 DEF Rows
    <3> QED
      BY <1>4, <2>1, <2>2, <2>4, <3>1
  <2> USE MachineMoves, StatesListed
  <2>5. CASE DeployWork(t)
    BY <1>2, <2>3, <2>5 DEF DeployWork, Ends, StateFor
  <2>6. CASE TearDownWork(t)
    BY <1>2, <2>3, <2>6 DEF TearDownWork, Ends, StateFor
  <2>7. CASE VerifyWork(t)
    BY <1>2, <2>3, <2>7 DEF VerifyWork, Ends, StateFor
  <2>8. CASE HeartbeatDeploy(t)
    BY <1>2, <2>3, <2>4, <2>8 DEF HeartbeatDeploy, DeployFails, Ends
  <2>9. CASE ImageWork(t) \/ BootWork(t)
    BY <1>2, <2>3, <2>9 DEF ImageWork, BootWork, DeployFails, Ends, StateFor
  <2> QED
    BY <1>5, <2>5, <2>6, <2>7, <2>8, <2>9
<1> QED
  BY <1>3, <1>5
\* The workers of a cleaning, its release and its calls.
LEMMA CleaningProgress ==
    ASSUME CleaningInv, NEW t \in Slots,
           CleanWork(t) \/ SaveStep(t) \/ ExecuteStep(t) \/ StepsDone(t) \/ TearDownCleaning(t)
           \/ CleaningDone(t) \/ AbortWork(t)
           \/ Release(t) \/ HeartbeatClean(t)
    PROVE  Progress' /\ NoSkip
<1> USE DEF At
<1>1. /\ Core /\ Rest /\ ConductorInv /\ task[t] # NoTask
      /\ StepsAreDone /\ ReportsAreTrue /\ NoTraces /\ NothingLeft
  BY TwoHalves DEF CleaningInv, Progress, CleanWork, SaveStep, ExecuteStep, StepsDone, TearDownCleaning,
     CleaningDone, AbortWork,
     Release, HeartbeatClean
<1>2. /\ node \in Rows /\ task[t] \in Tasks /\ task[t].state = node.state
      /\ StateFor(task[t].work, node.state) /\ task[t].host \in Hosts
      /\ node.step \in 0 .. AutoSteps /\ AutoSteps \in Nat
  BY <1>1, AtWork, ConductorAssumption DEF Tasks, Rows
<1>3. ASSUME node.state \in {"cleaning", "cleanwait"}, NEW row \in Rows,
             row.reservation = node.reservation, CleaningError(t, row)
      PROVE  Progress' /\ NoSkip
  <2>1. node'.step = 0 /\ node'.state = "cleanfail"
    BY <1>1, <1>3, CleaningFails
  <2>2. PICK r : Becomes(t, "exit", 0, r)
    BY <1>3 DEF CleaningError, Ends
  <2>3. node' = r
    BY <2>2 DEF Becomes
  <2>4. calls' = calls /\ cleaned' = cleaned /\ (agent' = agent \/ agent'.cmd # "clean")
    BY <1>3, AgentStates DEF CleaningError
  <2> QED
    BY <1>1, <2>1, <2>2, <2>3, <2>4, WorkerProgress DEF Cleanings, NoSkip, StepsKnown
<1>4. ASSUME node.state = "cleaning", NEW row \in Rows, NEW e, Goto("cleaning", e) \in States,
             NEW target \in Targets, Ends(t, Event(row, task[t].state, e, target)),
             calls' = calls, cleaned' = cleaned, row.step \in {0, node.step},
             agent' = agent \/ agent'.cmd # "clean" \/ agent'.st # "ok",
             row.step # 0 \/ agent'.cmd = "clean" => Goto("cleaning", e) \in Cleanings
      PROVE  Progress' /\ node'.state = Goto("cleaning", e)
  <2> DEFINE next == Event(row, task[t].state, e, target)
  <2>1. next.step = row.step /\ next.state = Goto("cleaning", e)
    BY <1>2, <1>4, EventMoves
  <2>2. Becomes(t, "exit", 0, next)
    BY <1>4 DEF Ends
  <2> HIDE DEF next
  <2> QED
    BY <1>1, <1>4, <2>1, <2>2, WorkerProgress DEF StepsKnown
<1>5. ASSUME node.state = "cleaning", NEW row \in Rows, row.state = node.state,
             row.reservation = node.reservation, row.step = node.step, Clean(t, row)
      PROVE  Progress' /\ NoSkip
  <2>1. CASE \E saved \in {node, row} : CleaningError(t, saved)
    BY <1>2, <1>3, <1>5, <2>1
  <2>2. CASE /\ Ends(t, Event(row, task[t].state, "wait", KeepManual(row)))
             /\ agent' = Booted
             /\ UNCHANGED <<conductor, calls, cleaned, robbed, faults>>
    BY <1>4, <1>5, <2>2, RowWrites, AgentStates, MachineMoves, StatesListed DEF Cleanings, NoSkip
  <2>3. CASE /\ Becomes(t, "steps", 1, SetSteps(row))
             /\ UNCHANGED <<conductor, agent, calls, cleaned, robbed, faults>>
    <3>1. /\ SetSteps(row).step = 0 /\ SetSteps(row).state = "cleaning"
          /\ 1 .. 1 - 1 \subseteq cleaned'
      BY <1>5, RowWrites
    <3> QED
      BY <1>1, <2>3, <3>1, WorkerProgress DEF Cleanings, NoSkip, StepsKnown
  <2> QED
    BY <1>5, <2>1, <2>2, <2>3 DEF Clean
<1>6. CASE CleanWork(t)
  <2>1. node.state = "cleaning"
    BY <1>2, <1>6 DEF CleanWork, StateFor
  <2>2. /\ [node EXCEPT !.steps = "manual"] \in Rows
        /\ [node EXCEPT !.steps = "manual"].reservation = node.reservation
        /\ [node EXCEPT !.steps = "manual"].state = node.state
        /\ [node EXCEPT !.steps = "manual"].step = node.step
    BY <1>2 DEF Rows
  <2> QED
    BY <1>2, <1>5, <1>6, <2>1, <2>2 DEF CleanWork
<1>7. CASE SaveStep(t)
  <2> DEFINE i == task[t].idx
             row == [node EXCEPT !.step = i, !.abortAfter = FALSE]
  <2>1. node.state = "cleaning" /\ 1 .. i - 1 \subseteq cleaned
    BY <1>1, <1>2, <1>7 DEF SaveStep, StateFor, StepsAreDone, StepsKnown
  <2>2. row.step = i /\ row.state = "cleaning"
    BY <1>2, <2>1 DEF Rows
  <2>3. Becomes(t, "step", i, row) /\ UNCHANGED <<conductor, agent, calls, cleaned, robbed, faults>>
    BY <1>7 DEF SaveStep
  <2> HIDE DEF i, row
  <2> QED
    BY <1>1, <2>1, <2>2, <2>3, WorkerProgress DEF Cleanings, NoSkip, StepsKnown
<1>8. CASE ExecuteStep(t)
  <2>1. /\ node.state = "cleaning" /\ task[t].idx \in 1 .. AutoSteps
        /\ 1 .. task[t].idx - 1 \subseteq cleaned
    BY <1>1, <1>2, <1>8, AtWork DEF ExecuteStep, StateFor, StepsAreDone, StepsKnown
  <2>2. CASE /\ Becomes(t, "steps", task[t].idx + 1, node)
             /\ cleaned' = cleaned \cup {task[t].idx}
             /\ UNCHANGED <<conductor, agent, calls, robbed, faults>>
    <3>1. 1 .. (task[t].idx + 1) - 1 \subseteq cleaned'
      BY <1>2, <2>1, <2>2
    <3> QED
      BY <1>1, <1>2, <2>1, <2>2, <3>1, WorkerProgress DEF Cleanings, NoSkip, StepsKnown
  <2>3. CASE /\ agent' = [on |-> TRUE, cmd |-> "clean", step |-> task[t].idx, st |-> "running"]
             /\ Ends(t, Event(node, task[t].state, "wait", KeepManual(node)))
             /\ UNCHANGED <<conductor, calls, cleaned, robbed, faults>>
    BY <1>2, <1>4, <2>1, <2>3, RowWrites, MachineMoves, StatesListed DEF Cleanings, NoSkip
  <2>4. CASE CleaningError(t, node)
    BY <1>2, <1>3, <2>1, <2>4
  <2> QED
    BY <1>8, <2>2, <2>3, <2>4 DEF ExecuteStep
<1>9. CASE StepsDone(t) \/ TearDownCleaning(t) \/ CleaningDone(t)
  <2>1. node.state = "cleaning"
    BY <1>2, <1>9 DEF StepsDone, TearDownCleaning, CleaningDone, StateFor
  <2>2. CASE StepsDone(t)
    <3> DEFINE row == [node EXCEPT !.step = 0, !.abortAfter = FALSE, !.steps = "none"]
    <3>1. /\ task[t].idx > Length(node) /\ 1 .. task[t].idx - 1 \subseteq cleaned
          /\ Length(node) \in 0 .. AutoSteps /\ task[t].idx \in 0 .. AutoSteps + 1
      BY <1>1, <1>2, <2>2, RowWrites DEF StepsDone, StepsAreDone, StepsKnown, Tasks
    <3>2. 1 .. Length(node) \subseteq cleaned
      BY <1>2, <3>1
    <3>3. row.step = 0 /\ row.state = "cleaning"
      BY <1>2, <2>1 DEF Rows
    <3>4. /\ Becomes(t, "finish", Length(node), row)
          /\ UNCHANGED <<conductor, agent, calls, cleaned, robbed, faults>>
      BY <2>2 DEF StepsDone
    <3> HIDE DEF row
    <3>5. StepsKnown("finish", Length(node), cleaned')
      BY <3>2, <3>4 DEF StepsKnown
    <3> QED
      BY <1>1, <3>3, <3>4, <3>5, WorkerProgress DEF Cleanings, NoSkip
  <2>3. CASE TearDownCleaning(t)
    <3>1. CASE CleaningError(t, node)
      BY <1>2, <1>3, <2>1, <3>1
    <3>2. CASE /\ Becomes(t, "finished", task[t].idx, node)
               /\ agent' = Off
               /\ UNCHANGED <<conductor, calls, cleaned, robbed, faults>>
      <4>1. StepsKnown("finished", task[t].idx, cleaned') /\ node.step = 0
        BY <1>1, <2>3, <3>2 DEF TearDownCleaning, StepsAreDone, StepsKnown, NothingLeft
      <4> QED
        BY <1>1, <2>1, <3>2, <4>1, WorkerProgress, AgentStates DEF Cleanings, NoSkip
    <3> QED
      BY <2>3, <3>1, <3>2 DEF TearDownCleaning
  <2>4. CASE CleaningDone(t)
    <3> DEFINE e == IF Manual(node) THEN "manage" ELSE "done"
               row == Event(node, task[t].state, e, "none")
    <3>1. /\ Becomes(t, "exit", 0, row)
          /\ UNCHANGED <<conductor, agent, calls, cleaned, robbed, faults>>
      BY <2>4 DEF CleaningDone, Ends
    <3>2. e \in {"manage", "done"} /\ "none" \in Targets
      BY DEF Targets
    <3> HIDE DEF e
    <3>3. /\ row.step = node.step /\ row.state = Goto("cleaning", e)
      BY <1>2, <2>1, <3>2, EventMoves, MachineMoves, StatesListed
    <3>4. At(t, "finished") /\ 1 .. task[t].idx \subseteq cleaned
      BY <1>1, <2>4 DEF CleaningDone, StepsAreDone, StepsKnown
    \* A worker that is done has left no step in the row, and the agent is off.
    <3>5. node.step = 0 /\ agent.cmd # "clean"
      BY <1>1, <2>4 DEF CleaningDone, NothingLeft
    <3> HIDE DEF row
    <3>6. Progress'
      BY <1>1, <3>1, <3>3, <3>5, WorkerProgress DEF StepsKnown
    <3> QED
      BY <3>4, <3>6 DEF NoSkip
  <2> QED
    BY <1>9, <2>2, <2>3, <2>4
<1>10. CASE AbortWork(t)
  <2>1. ASSUME NEW row \in Rows, row.state = node.state, row.step \in {0, node.step}, Ends(t, row),
               agent' \in {Off, agent}
        PROVE  Progress' /\ NoSkip
    <3>1. Becomes(t, "exit", 0, row) /\ calls' = calls /\ cleaned' = cleaned
      BY <1>10, <2>1 DEF Ends, AbortWork
    <3>2. row.step # 0 \/ agent'.cmd = "clean" => row.state \in Cleanings
      BY <1>1, <2>1, AgentStates DEF NoTraces
    <3>3. Progress' /\ node' = row
      BY <1>1, <2>1, <3>1, <3>2, WorkerProgress, AgentStates DEF StepsKnown
    <3> QED
      BY <2>1, <3>3 DEF NoSkip
  <2>2. /\ [node EXCEPT !.step = 0, !.abortAfter = FALSE] \in Rows
        /\ [node EXCEPT !.step = 0, !.abortAfter = FALSE].state = node.state
        /\ [node EXCEPT !.step = 0, !.abortAfter = FALSE].step = 0
        /\ [node EXCEPT !.maintenance = TRUE] \in Rows
        /\ [node EXCEPT !.maintenance = TRUE].state = node.state
        /\ [node EXCEPT !.maintenance = TRUE].step = node.step
    <3>1. 0 \in 0 .. AutoSteps
      BY <1>2
    <3> QED
      BY <1>2, <3>1 DEF Rows
  <2> QED
    BY <1>10, <2>1, <2>2 DEF AbortWork
<1>11. calls = 0
  BY <1>1 DEF CleaningInv, Progress, CallsAreTimely, NoTasks, Rest
<1>12. ASSUME NEW row \in Rows, node' = Released(row, task[t].host), row.state = node.state,
              row.step \in {0, node.step}, task' = [task EXCEPT ![t] = NoTask],
              agent' = agent, cleaned' = cleaned, NoTasks' => CallsAreTimely'
       PROVE  Progress' /\ NoSkip
  <2>1. NoTasks'
    BY <1>1, <1>12 DEF Core, OneTask, NoTasks
  <2>2. node'.step = row.step /\ node'.state = node.state
    BY <1>2, <1>12, ReleasedTyped
  <2> QED
    BY <1>1, <1>12, <2>1, <2>2, ProgressKept DEF NoTraces, NoTasks, NoSkip, NothingLeft
<1>13. CASE Release(t)
  BY <1>2, <1>11, <1>12, <1>13 DEF Release, CallsAreTimely
<1>14. CASE HeartbeatClean(t)
  <2> DEFINE row == [node EXCEPT !.old = FALSE]
             again == [row EXCEPT !.skip = FALSE]
  <2>1. /\ row \in Rows /\ row.reservation = node.reservation
        /\ row.state = node.state /\ row.step = node.step
    BY <1>2 DEF Rows
  <2>2. again \in Rows /\ again.state = node.state /\ again.step = node.step /\ ~again.skip
    BY <2>1 DEF Rows
  <2>3. SetSteps(row) \in Rows /\ SetSteps(row).state = node.state /\ SetSteps(row).step = 0
    BY <2>1, RowWrites
  <2>4. node.state \in {"cleaning", "cleanwait"}
    BY <1>2, <1>14 DEF HeartbeatClean
  <2>5. ASSUME NEW r \in Rows, r.state = node.state, r.step \in {0, node.step}, Notify(t, r),
               r.step # 0 /\ r.skip => r.step \in cleaned
        PROVE  Progress' /\ NoSkip
    <3>1. /\ node'.state = r.state /\ node'.step = r.step /\ node'.skip = r.skip
          /\ node' = Released(r, task[t].host)
      BY <1>2, <2>5, ReleasedTyped DEF Notify
    <3>2. calls' = 1 /\ cleaned' = cleaned /\ agent' = agent /\ task' = [task EXCEPT ![t] = NoTask]
      BY <1>11, <2>5 DEF Notify
    <3>3. NoTasks' => CallsAreTimely'
      BY <2>4, <2>5, <3>1, <3>2 DEF CallsAreTimely
    <3> QED
      BY <1>12, <2>5, <3>1, <3>2, <3>3
  <2>6. CASE Ends(t, row) /\ UNCHANGED <<conductor, agent, calls, cleaned, robbed, faults>>
    <3>1. Becomes(t, "exit", 0, row)
      BY <2>6 DEF Ends
    <3> QED
      BY <1>1, <2>1, <2>4, <2>6, <3>1, WorkerProgress DEF Cleanings, NoSkip, StepsKnown
  <2>7. CASE node.step # 0 /\ Completed /\ agent.st = "ok" /\ Notify(t, row)
    <3>1. node.step \in cleaned
      BY <1>1, <2>7 DEF Completed, ReportsAreTrue
    <3> QED
      BY <2>1, <2>5, <2>7, <3>1
  <2>8. \/ Notify(t, SetSteps(row)) \/ Notify(t, again) \/ CleaningError(t, row)
        \/ node.step # 0 /\ Completed /\ agent.st = "ok" /\ Notify(t, row)
        \/ Ends(t, row) /\ UNCHANGED <<conductor, agent, calls, cleaned, robbed, faults>>
    BY <1>14 DEF HeartbeatClean
  <2> HIDE DEF row, again
  <2> QED
    BY <1>3, <2>1, <2>2, <2>3, <2>4, <2>5, <2>6, <2>7, <2>8
<1> QED
  BY <1>6, <1>7, <1>8, <1>9, <1>10, <1>13, <1>14
\* A request comes when no call is on its way, and an instance only where there is no
\* trace of a cleaning.
LEMMA RequestProgress ==
    ASSUME CleaningInv, ~DelayedCalls, NEW h \in Hosts, Requests(h) \/ Heartbeat(h)
    PROVE  Progress' /\ NoSkip
<1>1. /\ node.reservation = Nobody /\ \E t \in Slots : task[t] = NoTask
      /\ conductor[h].proc \in {"up", "stopping"} /\ calls = 0
  BY DEF Requests, Heartbeat, Deploy, TearDown, ManualClean, Provide, Manage, Abort,
     SetMaintenance, OtherWork, Request, Reserve, Serves
<1>2. /\ conductor' = conductor /\ agent' = agent /\ calls' = 0
  BY <1>1 DEF Requests, Heartbeat, Deploy, TearDown, ManualClean, Provide, Manage, Abort,
     SetMaintenance, OtherWork
<1>3. /\ node \in Rows /\ "none" \in Targets /\ "manageable" \in Targets
      /\ 0 \in 0 .. AutoSteps + 1 /\ Core /\ NoTraces /\ SameProcesses /\ NoTasks
  <2>1. Core
    BY TwoHalves DEF CleaningInv
  <2>2. node \in Rows /\ SameProcesses
    BY <1>2, <2>1 DEF Core, SameProcesses
  <2>3. NoTasks
    BY <1>1, <2>1, UnreservedIsIdle
  <2> QED
    BY <2>1, <2>2, <2>3, ConductorAssumption DEF CleaningInv, Progress, Targets
<1>4. ASSUME NEW work \in Works \ {"step", "steps", "finish", "finished"}, NEW row \in Rows, StateFor(work, row.state),
             NEW back \in Rows, SpawnOrReject(h, work, 0, row, back), cleaned' = cleaned,
             row.step = node.step, back.step = node.step,
             node.state \in Cleanings => row.state \in Cleanings /\ back.state \in Cleanings,
             row.state = "available" \/ back.state = "available" => node.state = "available"
      PROVE  Progress' /\ NoSkip
  <2>1. \A r \in {row, back} : r.step # 0 \/ agent.cmd = "clean" => r.state \in Cleanings
    BY <1>3, <1>4 DEF NoTraces
  <2>2. Progress' /\ node'.state \in {row.state, back.state}
    BY <1>1, <1>2, <1>3, <1>4, <2>1, SpawnProgress DEF StepsKnown
  <2> QED
    BY <1>1, <1>4, <2>2 DEF NoSkip
<1>5. ASSUME NEW work \in Works \ {"step", "steps", "finish", "finished"}, NEW e, NEW target \in Targets,
             NEW s \in States, Goto(node.state, e) = s,
             Spawn(h, work, 0, Event(node, node.state, e, target)), UNCHANGED <<cleaned, robbed, faults>>,
             StateFor(work, s), node.state \in Cleanings => s \in Cleanings, s # "available"
      PROVE  Progress' /\ NoSkip
  <2> DEFINE row == Event(node, node.state, e, target)
  <2>1. row \in Rows /\ row.state = s /\ row.step = node.step
    BY <1>3, <1>5, EventMoves
  <2>2. SpawnOrReject(h, work, 0, row, row)
    BY <1>5 DEF SpawnOrReject
  <2> HIDE DEF row
  <2> QED
    BY <1>4, <1>5, <2>1, <2>2
<1>6. ASSUME node' \in Rows, UNCHANGED <<task, cleaned, robbed, faults>>, node'.step = node.step,
             node.state \in Cleanings => node'.state \in Cleanings,
             node'.state = "available" => node.state = "available"
      PROVE  Progress' /\ NoSkip
  <2>1. CallsAreTimely'
    BY <1>2 DEF CallsAreTimely
  <2> QED
    BY <1>1, <1>2, <1>3, <1>6, <2>1, WriteProgress DEF NoTraces, NoSkip
<1>7. /\ StateFor("teardown", "deleting") /\ StateFor("manualclean", "cleaning")
      /\ StateFor("clean", "cleaning") /\ StateFor("verify", "verifying")
      /\ \A s : StateFor("abort", s) /\ StateFor("exit", s) /\ StateFor("heartbeat", s)
  BY DEF StateFor
<1>8. {"teardown", "manualclean", "clean", "verify", "abort", "exit", "heartbeat"}
        \subseteq Works \ {"step", "steps", "finish", "finished"}
  BY DEF Works
<1>9. CASE Deploy(h)
  <2>1. PICK e \in {"deploy", "rebuild"} : Can(node.state, e)
                  /\ Spawn(h, "deploy", 0, Event(node, node.state, e, "none"))
    BY <1>9 DEF Deploy
  <2> DEFINE row == Event(node, node.state, e, "none")
  <2>2. Goto(node.state, e) = "deploying" /\ "deploying" \in States /\ node.state \notin Cleanings
    BY <2>1, RequestMoves, StatesListed DEF Cleanings
  <2>3. /\ row \in Rows /\ row.state = "deploying" /\ row.step = 0 /\ agent.cmd # "clean"
    BY <1>3, <2>2, EventMoves DEF NoTraces
  <2>4. "deploy" \in Works \ {"step"} /\ StateFor("deploy", "deploying")
    BY DEF Works, StateFor
  <2> HIDE DEF row
  <2>5. /\ task'[Free] = [host |-> h, work |-> "deploy", idx |-> 0, state |-> row.state]
        /\ \A u \in Slots \ {Free} : task'[u] = NoTask
        /\ node' = [row EXCEPT !.reservation = h]
    BY <1>1, <1>3, <2>1, <2>3, <2>4, TaskSpawned DEF row
  <2>6. /\ \A u \in Slots : task'[u] # NoTask => task'[u].work = "deploy"
        /\ node'.state = "deploying" /\ node'.step = 0
    BY <2>3, <2>5 DEF Rows
  <2> QED
    BY <1>2, <2>3, <2>6 DEF Progress, StepsAreDone, StepsKnown, ReportsAreTrue, NoTraces,
       CallsAreTimely, NothingLeft, NoSkip
<1>10. CASE TearDown(h)
  <2>1. Goto(node.state, "delete") = "deleting" /\ "deleting" \in States /\ node.state \notin Cleanings
    BY <1>10, RequestMoves, StatesListed DEF TearDown, Cleanings
  <2> QED
    BY <1>3, <1>5, <1>7, <1>8, <1>10, <2>1 DEF TearDown
<1>11. CASE ManualClean(h)
  <2>1. Goto(node.state, "clean") = "cleaning" /\ "cleaning" \in States /\ "cleaning" \in Cleanings
    BY <1>11, MachineMoves, StatesListed DEF ManualClean, Cleanings
  <2> QED
    BY <1>3, <1>5, <1>7, <1>8, <1>11, <2>1 DEF ManualClean
<1>12. CASE Provide(h)
  <2>1. Goto(node.state, "provide") = "cleaning" /\ "cleaning" \in States /\ "cleaning" \in Cleanings
    BY <1>12, MachineMoves, StatesListed DEF Provide, Cleanings
  <2> QED
    BY <1>3, <1>5, <1>7, <1>8, <1>12, <2>1 DEF Provide
<1>13. CASE Manage(h)
  <2>1. CASE node.state = "enroll"
    <3>1. /\ Goto(node.state, "manage") = "verifying" /\ "verifying" \in States
          /\ node.state \notin Cleanings
      BY <1>13, <2>1, RequestMoves, StatesListed DEF Manage, Cleanings
    <3>2. /\ Spawn(h, "verify", 0, Event(node, node.state, "manage", "none"))
          /\ UNCHANGED <<cleaned, robbed, faults>>
      BY <1>13, <2>1 DEF Manage
    <3> QED
      BY <1>3, <1>5, <1>7, <1>8, <3>1, <3>2
  <2>2. CASE node.state # "enroll"
    <3>1. /\ Goto(node.state, "manage") = "manageable" /\ "manageable" \in States
          /\ "manageable" \in Cleanings
      BY <1>13, <2>2, RequestMoves, StatesListed DEF Manage, Cleanings
    <3>2. /\ node' = Event(node, node.state, "manage", "none")
          /\ UNCHANGED <<task, cleaned, robbed, faults>>
      BY <1>13, <2>2 DEF Manage
    <3>3. node' \in Rows /\ node'.state = "manageable" /\ node'.step = node.step
      BY <1>3, <3>1, <3>2, EventMoves
    <3> QED
      BY <1>6, <3>1, <3>2, <3>3
  <2> QED
    BY <2>1, <2>2
<1>14. CASE Abort(h)
  <2> DEFINE later == [node EXCEPT !.abortAfter = TRUE]
             touched == [node EXCEPT !.old = FALSE]
             row == Event(node, node.state, "abort", KeepManual(node))
  <2>1. /\ \A r \in {later, touched} : r \in Rows /\ r.state = node.state /\ r.step = node.step
        /\ KeepManual(node) \in Targets /\ node.state = "cleanwait"
    BY <1>3, <1>14, RowWrites DEF Rows, Abort
  <2>2. \/ node' = later /\ UNCHANGED <<task, cleaned, robbed, faults>>
        \/ SpawnOrReject(h, "abort", 0, row, touched) /\ cleaned' = cleaned
    BY <1>14 DEF Abort
  <2>3. Goto(node.state, "abort") = "cleanfail" /\ "cleanfail" \in States
        /\ "cleanfail" \in Cleanings /\ "cleanwait" \in Cleanings
    BY <2>1, MachineMoves, StatesListed DEF Cleanings
  <2>4. row \in Rows /\ row.state = "cleanfail" /\ row.step = node.step
    BY <1>3, <2>1, <2>3, EventMoves
  <2> HIDE DEF later, touched, row
  <2> QED
    BY <1>4, <1>6, <1>7, <1>8, <2>1, <2>2, <2>3, <2>4
<1>15. CASE SetMaintenance(h)
  <2>1. /\ [node EXCEPT !.maintenance = ~@] \in Rows
        /\ [node EXCEPT !.maintenance = ~@].state = node.state
        /\ [node EXCEPT !.maintenance = ~@].step = node.step
    BY <1>3 DEF Rows
  <2> QED
    BY <1>6, <1>15, <2>1 DEF SetMaintenance
<1>16. CASE OtherWork(h) \/ Heartbeat(h)
  <2>1. ASSUME NEW work \in {"exit", "heartbeat"}, Spawn(h, work, 0, node),
               UNCHANGED <<cleaned, robbed, faults>>
        PROVE  Progress' /\ NoSkip
    BY <1>3, <1>4, <1>7, <1>8, <2>1 DEF SpawnOrReject
  <2> QED
    BY <1>16, <2>1 DEF OtherWork, Heartbeat
<1> QED
  BY <1>9, <1>10, <1>11, <1>12, <1>13, <1>14, <1>15, <1>16 DEF Requests

\* continue_node_clean() goes on with the step after the one that is done.
LEMMA ContinueProgress ==
    ASSUME CleaningInv, NEW h \in Hosts, ContinueClean(h)
    PROVE  Progress' /\ NoSkip
<1> DEFINE idx == IF node.step = 0 THEN 1 ELSE IF node.skip THEN node.step + 1 ELSE node.step
           row == [node EXCEPT !.skip = TRUE]
           failed == Event(row, row.state, "abort", KeepManual(row))
           touched == [row EXCEPT !.old = FALSE]
<1>1. /\ node.reservation = Nobody /\ \E t \in Slots : task[t] = NoTask
      /\ conductor[h].proc \in {"up", "stopping"}
      /\ calls > 0 /\ calls' = calls - 1 /\ UNCHANGED <<conductor, agent, cleaned, robbed>>
  BY DEF ContinueClean, Reserve, Serves
<1>2. Core /\ NoTasks /\ StepsAreDone /\ CallsAreTimely /\ NoTraces
  BY <1>1, TwoHalves, UnreservedIsIdle DEF CleaningInv, Progress
<1>3. node \in Rows /\ SameProcesses /\ node.state \in {"cleanwait", "cleaning"} /\ calls' = 0
  BY <1>1, <1>2 DEF ContinueClean, Core, SameProcesses, CallsAreTimely
<1>4. node.step \in 0 .. AutoSteps /\ AutoSteps \in Nat
  BY <1>3, ConductorAssumption DEF Rows
<1>5. /\ idx \in 0 .. AutoSteps + 1 /\ 0 \in 0 .. AutoSteps + 1
      /\ 1 .. idx - 1 \subseteq cleaned
  <2>1. idx \in 0 .. AutoSteps + 1 /\ 0 \in 0 .. AutoSteps + 1
    BY <1>4
  <2>2. CASE node.step = 0
    BY <2>1, <2>2
  <2>3. CASE node.step # 0 /\ ~node.skip
    BY <1>2, <2>1, <2>3 DEF StepsAreDone
  <2>4. CASE node.step # 0 /\ node.skip
    <3>1. node.step \in cleaned /\ 1 .. node.step - 1 \subseteq cleaned
      BY <1>1, <1>2, <2>4 DEF StepsAreDone, CallsAreTimely
    <3> QED
      BY <1>4, <2>1, <2>4, <3>1
  <2> QED
    BY <2>1, <2>2, <2>3, <2>4
<1>6. /\ row \in Rows /\ row.state = node.state /\ row.step = node.step
      /\ touched \in Rows /\ touched.state = node.state /\ touched.step = node.step
      /\ KeepManual(row) \in Targets
  <2>1. row \in Rows /\ row.state = node.state /\ row.step = node.step
    BY <1>3 DEF Rows
  <2>2. touched \in Rows /\ touched.state = node.state /\ touched.step = node.step
    BY <2>1 DEF Rows
  <2> QED
    BY <2>1, <2>2, RowWrites
<1>7. \/ /\ node.state = "cleanwait"
         /\ SpawnOrReject(h, "abort", 0, failed, touched)
      \/ node' = row /\ UNCHANGED <<task, faults>>
      \/ SpawnOrReject(h, "steps", idx, Resumed(row), Resumed(row))
  BY DEF ContinueClean
<1>8. {"abort", "steps"} \subseteq Works \ {"step", "finish", "finished"} /\ {"cleaning", "cleanwait", "cleanfail"} \subseteq Cleanings
  BY DEF Works, Cleanings
<1> HIDE DEF idx, row, touched
<1>9. CASE node.state = "cleanwait" /\ SpawnOrReject(h, "abort", 0, failed, touched)
  <2>1. failed \in Rows /\ failed.step = node.step /\ failed.state = "cleanfail"
    BY <1>6, <1>9, MachineMoves, StatesListed, EventMoves
  <2>2. StateFor("abort", failed.state)
    BY DEF StateFor
  <2> HIDE DEF failed
  <2>3. Progress'
    BY <1>1, <1>3, <1>5, <1>6, <1>8, <1>9, <2>1, <2>2, SpawnProgress DEF StepsKnown
  <2> QED
    BY <1>9, <2>3 DEF NoSkip
<1>10. CASE node' = row /\ UNCHANGED <<task, faults>>
  <2>1. CallsAreTimely'
    BY <1>3 DEF CallsAreTimely
  <2> QED
    BY <1>1, <1>2, <1>3, <1>6, <1>8, <1>10, <2>1, WriteProgress DEF NoSkip
<1>11. CASE SpawnOrReject(h, "steps", idx, Resumed(row), Resumed(row))
  <2> DEFINE r == Resumed(row)
  <2>1. /\ r \in Rows /\ r.state = "cleaning" /\ r.state \in Cleanings
        /\ r.step \in {0, node.step} /\ StateFor("steps", r.state)
    BY <1>3, <1>6, <1>8, ResumedTyped DEF StateFor
  <2>2. SpawnOrReject(h, "steps", idx, r, r) /\ "steps" \in Works \ {"step", "finish", "finished"}
    BY <1>8, <1>11
  <2> HIDE DEF r
  <2>3. Progress' /\ node'.state = "cleaning"
    BY <1>1, <1>3, <1>5, <2>1, <2>2, SpawnProgress DEF StepsKnown
  <2> QED
    BY <2>3 DEF NoSkip
<1> QED
  BY <1>7, <1>9, <1>10, <1>11
\* The periodic tasks.
LEMMA PeriodicProgress ==
    ASSUME CleaningInv, NEW h \in Hosts, Periodic(h)
    PROVE  Progress' /\ NoSkip
<1>1. /\ Core /\ Rest /\ node \in Rows /\ conductor \in [Hosts -> Processes]
      /\ 0 \in 0 .. AutoSteps + 1 /\ "none" \in Targets /\ NoTraces /\ CallsAreTimely
      /\ NothingLeft
  BY TwoHalves, ConductorAssumption DEF CleaningInv, Progress, Core, Targets
<1>2. agent' = agent /\ calls' = calls /\ cleaned' = cleaned
  BY DEF Periodic, CheckDeployTimeouts, CheckCleanwaitTimeouts, ListOffline, ReadDeploying,
     BreakReservation, FailDeploying
<1>3. "cleanup" \in Works \ {"step", "finish", "finished"} /\ \A s : StateFor("cleanup", s)
  BY DEF Works, StateFor
<1>4. /\ conductor' = conductor => SameProcesses
      /\ \A check \in {"no", "listed", "found", "fail"}, offline \in SUBSET Hosts :
            Checks(h, check, offline) => SameProcesses
  BY <1>1 DEF Checks, SameProcesses, Processes
<1>5. ASSUME node.state \in {"deploying", "deploywait"}
      PROVE  calls = 0 /\ node.step = 0 /\ agent.cmd # "clean"
  BY <1>1, <1>5 DEF CallsAreTimely, NoTraces, Cleanings, Rest
<1>6. ASSUME node.state \in {"deploying", "deploywait"}, node.reservation = Nobody,
             \E t \in Slots : task[t] = NoTask, conductor[h].proc \in {"up", "stopping"},
             SameProcesses, NEW back \in Rows, back.step = node.step, back.state = node.state,
             SpawnOrReject(h, "cleanup", 0, Event(node, node.state, "fail", "none"), back)
      PROVE  Progress' /\ NoSkip
  <2> DEFINE row == Event(node, node.state, "fail", "none")
  <2>1. row \in Rows /\ row.step = 0 /\ row.state = "deployfail"
    BY <1>1, <1>5, <1>6, EventMoves, MachineMoves, StatesListed
  <2>2. back.step = 0 /\ agent.cmd # "clean" /\ calls' = 0
    BY <1>2, <1>5, <1>6
  <2> HIDE DEF row
  <2>3. Progress'
    BY <1>1, <1>2, <1>3, <1>6, <2>1, <2>2, SpawnProgress DEF row, StepsKnown
  <2> QED
    BY <1>6, <2>3 DEF NoSkip
<1>7. CASE CheckDeployTimeouts(h)
  <2>1. /\ [node EXCEPT !.old = FALSE] \in Rows
        /\ [node EXCEPT !.old = FALSE].step = node.step
        /\ [node EXCEPT !.old = FALSE].state = node.state
    BY <1>1 DEF Rows
  <2> QED
    BY <1>4, <1>6, <1>7, <2>1 DEF CheckDeployTimeouts, Reserve, Serves, Overdue
<1>8. CASE CheckCleanwaitTimeouts(h)
  <2>1. node.target \in Targets /\ node.state = "cleanwait"
    BY <1>1, <1>8 DEF Rows, Targets, CheckCleanwaitTimeouts, Overdue
  <2>2. node' = Event(node, node.state, "fail", node.target) /\ task' = task /\ NoTasks
    BY <1>1, <1>8, UnreservedIsIdle DEF CheckCleanwaitTimeouts, Reserve
  <2>3. node'.state = "cleanfail" /\ node'.step = node.step /\ node'.skip = node.skip
    BY <1>1, <2>1, <2>2, EventMoves, MachineMoves, StatesListed
  <2>4. CallsAreTimely'
    BY <1>1, <1>2, <2>2, <2>3 DEF CallsAreTimely, NoTasks
  <2> QED
    BY <1>2, <2>2, <2>3, <2>4, WriteProgress DEF Cleanings, NoSkip
<1>9. CASE ListOffline(h) \/ ReadDeploying(h) \/ BreakReservation(h)
  <2>1. /\ task' = task
        /\ node' \in {node, [node EXCEPT !.reservation = Nobody]}
    BY <1>9 DEF ListOffline, ReadDeploying, BreakReservation
  <2>2. node'.state = node.state /\ node'.step = node.step /\ node'.skip = node.skip
    BY <1>1, <2>1 DEF Rows
  <2>3. CallsAreTimely'
    BY <1>1, <1>2, <2>1, <2>2 DEF CallsAreTimely, NoTasks
  <2>4. Progress'
    BY <1>1, <1>2, <2>1, <2>2, <2>3, ProgressKept DEF NoTraces, NothingLeft
  <2> QED
    BY <2>2, <2>4 DEF NoSkip
<1>10. CASE FailDeploying(h)
  <2>1. SameProcesses /\ conductor[h].proc \in {"up", "stopping"}
    <3>1. {} \in SUBSET Hosts
      OBVIOUS
    <3> QED
      BY <1>4, <1>10, <3>1 DEF FailDeploying, Continues
  <2>2. CASE /\ CanFail /\ \E t \in Slots : task[t] = NoTask
             /\ SpawnOrReject(h, "cleanup", 0, Event(node, node.state, "fail", "none"), node)
    BY <1>1, <1>6, <2>1, <2>2 DEF CanFail
  <2>3. CASE UNCHANGED <<node, task>>
    <3>1. CallsAreTimely'
      BY <1>1, <1>2, <2>3 DEF CallsAreTimely, NoTasks
    <3> QED
      BY <1>1, <1>2, <2>3, <3>1, ProgressKept DEF NoTraces, NothingLeft, NoSkip
  <2> QED
    BY <1>10, <2>2, <2>3 DEF FailDeploying
<1> QED
  BY <1>7, <1>8, <1>9, <1>10 DEF Periodic

\* The processes, the agent and the time.
LEMMA ProcessProgress ==
    ASSUME CleaningInv,
           \/ \E h \in Hosts : \/ Crash(h) \/ DelHost(h) \/ Stopped(h) \/ HeartbeatLapses(h)
                               \/ HeartbeatLate(h) \/ Keepalive(h) \/ InitHost(h) \/ InitHostFails(h)
           \/ CallFails \/ AgentWorks \/ TimePasses \/ UNCHANGED vars
    PROVE  Progress' /\ NoSkip
<1>1. /\ Core /\ Rest /\ node \in Rows
      /\ StepsAreDone /\ ReportsAreTrue /\ NoTraces /\ CallsAreTimely /\ NothingLeft
  BY TwoHalves DEF CleaningInv, Progress, Core
<1>2. ASSUME node'.state = node.state, node'.step = node.step, node'.skip = node.skip,
             \A t \in Slots : task'[t] \in {task[t], NoTask},
             agent' = agent, cleaned' = cleaned, calls' = calls
      PROVE  Progress' /\ NoSkip
  <2>1. CallsAreTimely'
    BY <1>1, <1>2 DEF CallsAreTimely, NoTasks
  <2>2. \A u \in Slots : task'[u] # NoTask => task'[u] = task[u]
    BY <1>2
  <2> QED
    BY <1>1, <1>2, <2>1, <2>2, ProgressKept DEF NoTraces, NothingLeft, NoSkip
<1>3. ASSUME NEW h \in Hosts, Crash(h) \/ Stopped(h) PROVE Progress' /\ NoSkip
  <2>1. /\ \A t \in Slots : task'[t] \in {task[t], NoTask}
        /\ UNCHANGED <<node, agent, calls, cleaned>>
    BY <1>1, <1>3 DEF Crash, Stopped, HostDown, Core
  <2> QED
    BY <1>2, <2>1
<1>4. ASSUME NEW h \in Hosts, \/ DelHost(h) \/ HeartbeatLapses(h) \/ HeartbeatLate(h)
                               \/ Keepalive(h) \/ InitHost(h)
      PROVE  Progress' /\ NoSkip
  <2>1. /\ task' = task /\ agent' = agent /\ cleaned' = cleaned /\ calls' = calls
        /\ node' \in {node, Released(node, h)}
    BY <1>4 DEF DelHost, HeartbeatLapses, HeartbeatLate, Keepalive, InitHost, ClearReservations
  <2> QED
    BY <1>1, <1>2, <1>4, <2>1, ReleasedTyped
<1>5. ASSUME NEW h \in Hosts, InitHostFails(h) PROVE Progress' /\ NoSkip
  <2>1. UNCHANGED <<task, agent, cleaned, calls>>
    BY <1>5 DEF InitHostFails
  <2>2. CASE node' = node
    BY <1>2, <2>1, <2>2
  <2>3. CASE CanFail /\ node' = Event(node, node.state, "fail", "none")
    <3>1. node.step = 0 /\ agent.cmd # "clean" /\ calls = 0 /\ NoTasks
      BY <1>1, <2>3, UnreservedIsIdle DEF CanFail, NoTraces, Cleanings, CallsAreTimely, Rest
    <3>2. node'.step = 0 /\ node'.state = "deployfail"
      <4>1. Goto(node.state, "fail") = "deployfail" /\ "deployfail" \in States /\ "none" \in Targets
        BY <2>3, MachineMoves, StatesListed DEF CanFail, Targets
      <4> QED
        BY <1>1, <2>3, <3>1, <4>1, EventMoves
    <3>3. CallsAreTimely'
      BY <2>1, <3>1 DEF CallsAreTimely
    <3> QED
      BY <2>1, <3>1, <3>2, <3>3, WriteProgress DEF NoSkip
  <2> QED
    BY <1>5, <2>2, <2>3 DEF InitHostFails, FailIfDeploying
<1>6. CASE CallFails
  <2>1. UNCHANGED <<node, task, agent, cleaned>> /\ calls' = 0
    BY <1>1, <1>6 DEF CallFails, CallsAreTimely
  <2>2. CallsAreTimely'
    BY <2>1 DEF CallsAreTimely
  <2> QED
    BY <1>1, <2>1, <2>2, ProgressKept DEF NoTraces, NothingLeft, NoSkip
<1>7. CASE TimePasses
  <2>1. UNCHANGED <<task, agent, calls, cleaned>> /\ node' = [node EXCEPT !.old = TRUE]
    BY <1>7 DEF TimePasses
  <2>2. node'.state = node.state /\ node'.step = node.step /\ node'.skip = node.skip
    BY <1>1, <2>1 DEF Rows
  <2> QED
    BY <1>2, <2>1, <2>2
<1>8. CASE AgentWorks
  <2>1. /\ UNCHANGED <<node, task, calls>> /\ cleaned \subseteq cleaned'
        /\ agent'.cmd = agent.cmd /\ agent'.step = agent.step
        /\ agent'.cmd = "clean" /\ agent'.st = "ok" => agent.step \in cleaned'
    BY <1>1, <1>8 DEF AgentWorks, Rest, Agents
  <2>2. StepsAreDone' /\ CallsAreTimely'
    <3>1. StepsAreDone'
      <4>1. node'.step # 0 => 1 .. node'.step - 1 \subseteq cleaned'
        BY <1>1, <2>1 DEF StepsAreDone
      <4>2. \A t \in Slots : task'[t] # NoTask =>
                StepsKnown(task'[t].work, task'[t].idx, cleaned')
        BY <1>1, <2>1 DEF StepsAreDone, StepsKnown
      <4> QED
        BY <4>1, <4>2 DEF StepsAreDone
    <3>2. CallsAreTimely'
      BY <1>1, <2>1 DEF CallsAreTimely, NoTasks
    <3> QED
      BY <3>1, <3>2
  <2> QED
    BY <1>1, <2>1, <2>2 DEF Progress, ReportsAreTrue, NoTraces, NothingLeft, NoSkip
<1>9. CASE UNCHANGED vars
  BY <1>2, <1>9 DEF vars
<1> QED
  BY <1>3, <1>4, <1>5, <1>6, <1>7, <1>8, <1>9

\* Every step keeps what is known of a cleaning, and skips none of its steps.
LEMMA CleaningInductive ==
    ASSUME ~DelayedCalls, CleaningInv, [Next]_vars
    PROVE  NoSkip /\ (~robbed' => CleaningInv')
<1>1. ~robbed' => ConductorInv'
  BY ConductorInductive DEF CleaningInv
<1>2. ASSUME NEW t \in Slots, Work(t) PROVE Progress' /\ NoSkip
  BY <1>2, DeploymentProgress, CleaningProgress DEF Work
<1>3. ASSUME NEW h \in Hosts, Requests(h) \/ Heartbeat(h) \/ ContinueClean(h) \/ Periodic(h)
      PROVE  Progress' /\ NoSkip
  BY <1>3, RequestProgress, ContinueProgress, PeriodicProgress
<1>4. Progress' /\ NoSkip
  BY <1>2, <1>3, ProcessProgress DEF Next
<1> QED
  BY <1>1, <1>4 DEF CleaningInv

\* What the row, the worker, the agent and the call say of a cleaning is true, until a
\* conductor at work is robbed of its reservation.
THEOREM CleaningInvariant ==
    ASSUME ~DelayedCalls PROVE Spec => [](~robbed => CleaningInv)
<1>1. Init => (~robbed => CleaningInv)
  BY ConductorInitially
<1>2. (~robbed => CleaningInv) /\ [Next]_vars => (~robbed => CleaningInv)'
  BY CleaningInductive, RobbedStays
<1> QED
  BY <1>1, <1>2, PTL DEF Spec

\* A cleaning that ends well has skipped none of its steps, whichever of them ran on
\* the agent, failed, were run again or were interrupted by a crash.
THEOREM CleaningIsComplete ==
    ASSUME ~DelayedCalls PROVE Spec => NoStepSkipped
<1>1. (~robbed => CleaningInv) /\ [Next]_vars =>
        [~robbed /\ node.state = "cleaning" /\ node'.state \in {"available", "manageable"} =>
            \/ \E t \in Slots : At(t, "finished") /\ 1 .. task[t].idx \subseteq cleaned
            \/ node.reservation = Nobody /\ node'.state = "manageable"]_vars
  BY CleaningInductive DEF NoSkip
<1> QED
  BY <1>1, CleaningInvariant, PTL DEF Spec, NoStepSkipped
=============================================================================
