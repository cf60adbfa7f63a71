----------------------------- MODULE Conductor -----------------------------
(***************************************************************************)
(* Ironic's conductors provisioning one bare metal node                    *)
(* (ironic/conductor: task_manager.py, base_manager.py, manager.py).  A    *)
(* TaskManager reserves the node's row in the database for its host, moves *)
(* the node through the provision states, and releases it when its worker  *)
(* is done.  A node that waits is unreserved: the ramdisk agent calls back *)
(* with heartbeats, periodic tasks fail it when it has waited too long, and*)
(* a conductor that finds another one offline breaks its reservation, in   *)
(* several steps: the other one may have come back before the last.        *)
(*                                                                         *)
(* Cleaning is a list of steps, run by the conductor or by the agent; the  *)
(* heartbeat that finds a step complete releases the node and calls        *)
(* continue_node_clean() to reserve it again.                              *)
(***************************************************************************)
EXTENDS Integers, FiniteSets

CONSTANTS
    Hosts,          \* the conductors
    Nobody,         \* no reservation
    Home,           \* the conductor the hash ring prefers for the node
    Slots,          \* identities of TaskManager instances
    NoTask,         \* a slot that is free
    AutoSteps,      \* how many steps automated cleaning has
    ManualSteps,    \* how many of them a manual cleaning asks for
    Abortable,      \* the steps that may be aborted
    FaultKinds,     \* what goes wrong: "crash", "stop", "late", "full", "busy"
    MaxFaults,      \* bound: how often something goes wrong
    DelayedCalls    \* continue_node_clean() may be overtaken by other requests

ASSUME ConductorAssumption ==
    /\ IsFiniteSet(Hosts) /\ Home \in Hosts /\ Nobody \notin Hosts
    /\ AutoSteps \in Nat \ {0} /\ ManualSteps \in 1 .. AutoSteps
    /\ Abortable \subseteq 1 .. AutoSteps
    /\ FaultKinds \subseteq {"crash", "stop", "late", "full", "busy"}
    /\ MaxFaults \in Nat
    /\ DelayedCalls \in BOOLEAN

VARIABLES
    node,        \* the row of the node
    task,        \* the TaskManagers that hold, or held, the node
    conductor,   \* the processes, and their rows in the database
    agent,       \* the ramdisk on the node and its last command (external)
    calls,       \* continue_node_clean() calls on their way
    cleaned,     \* history: the clean steps completed since an instance was there
    robbed,      \* history: the reservation of a conductor at work was broken
    faults

vars == <<node, task, conductor, agent, calls, cleaned, robbed, faults>>

Stable == {"enroll", "manageable", "available", "active", "error"}

\* states.machine, without inspection.
Machine == {
    <<"available", "deploy", "deploying">>,     <<"deploying", "fail", "deployfail">>,
    <<"deployfail", "rebuild", "deploying">>,   <<"deployfail", "deploy", "deploying">>,
    <<"deploying", "wait", "deploywait">>,      <<"deploywait", "resume", "deploying">>,
    <<"deploywait", "fail", "deployfail">>,     <<"deploying", "done", "active">>,
    <<"active", "rebuild", "deploying">>,       <<"active", "delete", "deleting">>,
    <<"deploywait", "delete", "deleting">>,     <<"deployfail", "delete", "deleting">>,
    <<"deleting", "error", "error">>,           <<"deleting", "clean", "cleaning">>,
    <<"cleaning", "done", "available">>,        <<"cleaning", "fail", "cleanfail">>,
    <<"cleanwait", "fail", "cleanfail">>,       <<"cleanwait", "abort", "cleanfail">>,
    <<"cleaning", "wait", "cleanwait">>,        <<"cleanwait", "resume", "cleaning">>,
    <<"cleanfail", "manage", "manageable">>,    <<"manageable", "provide", "cleaning">>,
    <<"manageable", "clean", "cleaning">>,      <<"cleaning", "manage", "manageable">>,
    <<"available", "manage", "manageable">>,    <<"error", "rebuild", "deploying">>,
    <<"error", "delete", "deleting">>,          <<"enroll", "manage", "verifying">>,
    <<"verifying", "done", "manageable">>,      <<"verifying", "fail", "enroll">> }

States == {m[1] : m \in Machine}
Can(s, e) == \E m \in Machine : m[1] = s /\ m[2] = e
Goto(s, e) == (CHOOSE m \in Machine : m[1] = s /\ m[2] = e)[3]

\* The target the machine has for a state that is not stable.
Target(s) ==
    CASE s \in {"deploying", "deploywait", "deployfail"} -> "active"
      [] s = "verifying" -> "manageable"
      [] OTHER -> "available"

\* TaskManager.process_event(): move the row from state s, of which the task has
\* a copy, and save it.  target is "none", or overrides that of the machine.
Event(row, s, e, target) ==
    [row EXCEPT !.state = Goto(s, e),
                !.target = IF Goto(s, e) \in Stable THEN "none"
                           ELSE IF target # "none" THEN target ELSE Target(Goto(s, e)),
                !.old = FALSE]

Manual(row) == row.target = "manageable"
KeepManual(row) == IF Manual(row) THEN "manageable" ELSE "none"

Off == [on |-> FALSE, cmd |-> "none", step |-> 0, st |-> "none"]
Booted == [Off EXCEPT !.on = TRUE]

Length(row) == CASE row.steps = "auto" -> AutoSteps
                 [] row.steps = "manual" -> ManualSteps
                 [] row.steps = "none" -> 0
-----------------------------------------------------------------------------
Init ==
    /\ node \in [state : {"enroll", "available"}, target : {"none"}, reservation : {Nobody},
                 maintenance : {FALSE}, old : {FALSE}, steps : {"none"}, step : {0},
                 abortAfter : {FALSE}, skip : {TRUE}]
    /\ task = [t \in Slots |-> NoTask]
    /\ conductor = [h \in Hosts |-> [proc |-> "up", online |-> TRUE, fresh |-> TRUE,
                                     check |-> "no", offline |-> {}]]
    /\ agent = Off
    /\ calls = 0
    /\ cleaned = IF node.state = "available" THEN 1 .. AutoSteps ELSE {}
    /\ robbed = FALSE
    /\ faults = 0

\* What a worker is doing; a task has a copy of the state of its node.
Works == {"deploy", "teardown", "verify", "cleanup", "clean", "manualclean", "steps", "step",
          "finish", "finished", "abort", "heartbeat", "image", "boot", "exit"}

Rows == [state : States, target : {"none", "active", "manageable", "available"},
         reservation : Hosts \cup {Nobody}, maintenance : BOOLEAN, old : BOOLEAN,
         steps : {"none", "auto", "manual"}, step : 0 .. AutoSteps,
         abortAfter : BOOLEAN, skip : BOOLEAN]

Tasks == [host : Hosts, work : Works, idx : 0 .. AutoSteps + 1, state : States]

Processes == [proc : {"up", "stopping", "down", "starting"},
              online : BOOLEAN, fresh : BOOLEAN,
              check : {"no", "listed", "found", "fail"}, offline : SUBSET Hosts]

Agents == [on : BOOLEAN, cmd : {"none", "clean", "image"}, step : 0 .. AutoSteps,
           st : {"none", "running", "ok", "failed", "mismatch"}]

\* The rows, the tasks and the processes keep their types; a task only ever fires
\* events that the machine has in the state of its node.
TypeOK ==
    /\ node \in Rows
    /\ task \in [Slots -> Tasks \cup {NoTask}]
    /\ conductor \in [Hosts -> Processes]
    /\ agent \in Agents
    /\ calls \in 0 .. 2
    /\ cleaned \subseteq 1 .. AutoSteps
    /\ robbed \in BOOLEAN
    /\ faults \in 0 .. MaxFaults

\* get_active_driver_dict() and the hash ring made of it.
Active == {h \in Hosts : conductor[h].online /\ conductor[h].fresh}
Mapped(h) ==
    /\ h \in Active
    /\ h = IF Home \in Active THEN Home ELSE CHOOSE g \in Active : TRUE

\* h runs, and requests for the node are sent to it.
Serves(h) == conductor[h].proc = "up" /\ Mapped(h)

Fault(kind) == kind \in FaultKinds /\ faults < MaxFaults /\ faults' = faults + 1

TasksOf(h) == {t \in Slots : task[t] # NoTask /\ task[t].host = h}
Free == CHOOSE t \in Slots : task[t] = NoTask

\* When the reservation of a task at work has been broken, it and whoever takes the node
\* next go on with their own copies of the row: how is not modelled.
Goes == ~robbed

\* reserve_node(): the row must not be reserved, by this host either.
Reserve(h) ==
    /\ Goes /\ Serves(h)
    /\ node.reservation = Nobody
    /\ \E t \in Slots : task[t] = NoTask

\* What __exit__() does when the worker has been spawned: the task lives on in it.
Spawn(h, work, idx, row) ==
    /\ task' = [task EXCEPT ![Free] =
                   [host |-> h, work |-> work, idx |-> idx, state |-> row.state]]
    /\ node' = [row EXCEPT !.reservation = h]

\* NoFreeConductorWorker: the hook has left this row, and it is released.  The hook
\* of a request from a stable state puts everything back, which is no step.
Rejected(row) == Fault("full") /\ node' = row /\ UNCHANGED task

SpawnOrReject(h, work, idx, row, back) ==
    \/ Spawn(h, work, idx, row) /\ UNCHANGED faults
    \/ Rejected(back)

\* The worker of t goes on to other work, or to its end.
Becomes(t, work, idx, row) ==
    /\ node' = row
    /\ task' = [task EXCEPT ![t].work = work, ![t].idx = idx, ![t].state = row.state]

Ends(t, row) == Becomes(t, "exit", 0, row)

At(t, work) == Goes /\ task[t] # NoTask /\ task[t].work = work

\* release_node(): only if the node is reserved for h.
Released(row, h) ==
    IF row.reservation = h THEN [row EXCEPT !.reservation = Nobody] ELSE row

\* release_resources(), when the worker is done.
Release(t) ==
    /\ At(t, "exit")
    /\ node' = Released(node, task[t].host)
    /\ task' = [task EXCEPT ![t] = NoTask]
    /\ UNCHANGED <<conductor, agent, calls, cleaned, robbed, faults>>

\* cleaning_error_handler().  Tearing cleaning down powers the node off.
CleaningError(t, row) ==
    /\ Ends(t, Event([row EXCEPT !.step = 0, !.abortAfter = FALSE, !.maintenance = TRUE],
                     task[t].state, "fail", KeepManual(row)))
    /\ agent' \in {Off, agent}
    /\ UNCHANGED <<conductor, calls, cleaned, robbed, faults>>
-----------------------------------------------------------------------------
(* Requests.  While a call of continue_node_clean() is on its way there is   *)
(* none, unless calls may be delayed.                                        *)

Request(h) == Reserve(h) /\ (calls = 0 \/ DelayedCalls)

\* ConductorManager.do_node_deploy()
Deploy(h) ==
    /\ Request(h) /\ ~node.maintenance
    /\ \E e \in {"deploy", "rebuild"} :
        /\ Can(node.state, e)
        /\ Spawn(h, "deploy", 0, Event(node, node.state, e, "none"))
    /\ cleaned' = {}
    /\ UNCHANGED <<conductor, agent, calls, robbed, faults>>

\* do_node_tear_down()
TearDown(h) ==
    /\ Request(h) /\ Can(node.state, "delete")
    /\ Spawn(h, "teardown", 0, Event(node, node.state, "delete", "none"))
    /\ UNCHANGED <<conductor, agent, calls, cleaned, robbed, faults>>

\* do_node_clean()
ManualClean(h) ==
    /\ Request(h) /\ ~node.maintenance /\ node.state = "manageable"
    /\ Spawn(h, "manualclean", 0, Event(node, node.state, "clean", "manageable"))
    /\ UNCHANGED <<conductor, agent, calls, cleaned, robbed, faults>>

\* do_provisioning_action() with the verbs provide, manage and abort.
Provide(h) ==
    /\ Request(h) /\ node.state = "manageable"
    /\ Spawn(h, "clean", 0, Event(node, node.state, "provide", "none"))
    /\ UNCHANGED <<conductor, agent, calls, cleaned, robbed, faults>>

Manage(h) ==
    /\ Request(h) /\ Can(node.state, "manage")
    /\ LET row == Event(node, node.state, "manage", "none")
       IN IF node.state = "enroll" THEN Spawn(h, "verify", 0, row)
          ELSE node' = row /\ UNCHANGED task
    /\ UNCHANGED <<conductor, agent, calls, cleaned, robbed, faults>>

Abort(h) ==
    /\ Request(h) /\ node.state = "cleanwait"
    /\ IF node.step \in (1 .. AutoSteps) \ Abortable
       THEN node' = [node EXCEPT !.abortAfter = TRUE] /\ UNCHANGED <<task, faults>>
       ELSE SpawnOrReject(h, "abort", 0, Event(node, node.state, "abort", KeepManual(node)),
                          [node EXCEPT !.old = FALSE])
    /\ UNCHANGED <<conductor, agent, calls, cleaned, robbed>>

\* update_node(): the operator takes the node into maintenance, or out of it.
SetMaintenance(h) ==
    /\ Request(h)
    /\ node' = [node EXCEPT !.maintenance = ~@]
    /\ UNCHANGED <<task, conductor, agent, calls, cleaned, robbed, faults>>

\* Power actions, power sync, take over and the like hold the node for a while.
OtherWork(h) ==
    /\ Request(h)
    /\ Spawn(h, "exit", 0, node)
    /\ UNCHANGED <<conductor, agent, calls, cleaned, robbed, faults>>

\* vendor_passthru() of a heartbeat of the agent.
Heartbeat(h) ==
    /\ Request(h) /\ agent.on
    /\ Spawn(h, "heartbeat", 0, node)
    /\ UNCHANGED <<conductor, agent, calls, cleaned, robbed, faults>>
-----------------------------------------------------------------------------
(* Workers.                                                                  *)

\* do_node_deploy(), in the thread: the driver is done, waits for the agent that
\* it has booted, or fails.
DeployWork(t) ==
    /\ At(t, "deploy")
    /\ \/ Ends(t, Event(node, task[t].state, "done", "none")) /\ agent' = Off
       \/ Ends(t, Event(node, task[t].state, "wait", "none")) /\ agent' = Booted
       \/ Ends(t, Event(node, task[t].state, "fail", "none")) /\ UNCHANGED agent
    /\ UNCHANGED <<conductor, calls, cleaned, robbed, faults>>

\* _do_node_tear_down(): cleaning begins in the same worker.
TearDownWork(t) ==
    /\ At(t, "teardown")
    /\ \/ /\ Becomes(t, "clean", 0, Event(node, task[t].state, "clean", "none"))
          /\ agent' = Off
       \/ Ends(t, Event(node, task[t].state, "error", "none")) /\ UNCHANGED agent
    /\ UNCHANGED <<conductor, calls, cleaned, robbed, faults>>

\* _do_node_verify()
VerifyWork(t) ==
    /\ At(t, "verify")
    /\ \E e \in {"done", "fail"} : Ends(t, Event(node, task[t].state, e, "none"))
    /\ UNCHANGED <<conductor, agent, calls, cleaned, robbed, faults>>

\* cleanup_after_timeout()
CleanupWork(t) ==
    /\ At(t, "cleanup")
    /\ Ends(t, node)
    /\ UNCHANGED <<conductor, agent, calls, cleaned, robbed, faults>>

\* set_node_cleaning_steps(): a manual cleaning has its steps already.
SetSteps(row) ==
    [row EXCEPT !.steps = IF Manual(row) THEN @ ELSE "auto", !.step = 0, !.abortAfter = FALSE]

Clean(t, row) ==
    \/ \E saved \in {node, row} : CleaningError(t, saved)
    \* prepare_cleaning() boots the agent ...
    \/ /\ Ends(t, Event(row, task[t].state, "wait", KeepManual(row)))
       /\ agent' = Booted
       /\ UNCHANGED <<conductor, calls, cleaned, robbed, faults>>
    \* ... or there is nothing to wait for.
    \/ /\ Becomes(t, "steps", 1, SetSteps(row))
       /\ UNCHANGED <<conductor, agent, calls, cleaned, robbed, faults>>

\* _do_node_clean(): automated, and manual with its list of steps.
CleanWork(t) ==
    \/ At(t, "clean") /\ Clean(t, node)
    \/ At(t, "manualclean") /\ Clean(t, [node EXCEPT !.steps = "manual"])

\* _do_next_clean_step(): the row says which step is about to start.
SaveStep(t) ==
    /\ At(t, "steps") /\ task[t].idx \in 1 .. Length(node)
    /\ Becomes(t, "step", task[t].idx, [node EXCEPT !.step = task[t].idx, !.abortAfter = FALSE])
    /\ UNCHANGED <<conductor, agent, calls, cleaned, robbed, faults>>

\* execute_clean_step(): the step is run here, or handed to the agent, or fails.
ExecuteStep(t) ==
    /\ At(t, "step")
    /\ \/ /\ Becomes(t, "steps", task[t].idx + 1, node)
          /\ cleaned' = cleaned \cup {task[t].idx}
          /\ UNCHANGED <<conductor, agent, calls, robbed, faults>>
       \/ /\ agent.on
          /\ agent' = [on |-> TRUE, cmd |-> "clean", step |-> task[t].idx, st |-> "running"]
          /\ Ends(t, Event(node, task[t].state, "wait", KeepManual(node)))
          /\ UNCHANGED <<conductor, calls, cleaned, robbed, faults>>
       \/ CleaningError(t, node)

\* _do_next_clean_step(), when no step is left: the list is cleared in the row.  The
\* worker still knows how long it was.
StepsDone(t) ==
    /\ At(t, "steps") /\ task[t].idx > Length(node)
    /\ Becomes(t, "finish", Length(node),
               [node EXCEPT !.step = 0, !.abortAfter = FALSE, !.steps = "none"])
    /\ UNCHANGED <<conductor, agent, calls, cleaned, robbed, faults>>

\* tear_down_cleaning() powers the node off; when it fails, it may have.
TearDownCleaning(t) ==
    /\ At(t, "finish")
    /\ \/ /\ Becomes(t, "finished", task[t].idx, node)
          /\ agent' = Off
          /\ UNCHANGED <<conductor, calls, cleaned, robbed, faults>>
       \/ CleaningError(t, node)

\* ... and the cleaning is complete.
CleaningDone(t) ==
    /\ At(t, "finished")
    /\ Ends(t, Event(node, task[t].state, IF Manual(node) THEN "manage" ELSE "done", "none"))
    /\ UNCHANGED <<conductor, agent, calls, cleaned, robbed, faults>>

\* _do_node_clean_abort(): a failure leaves the step and sets maintenance.
AbortWork(t) ==
    /\ At(t, "abort")
    /\ \/ Ends(t, [node EXCEPT !.step = 0, !.abortAfter = FALSE]) /\ agent' = Off
       \/ Ends(t, [node EXCEPT !.maintenance = TRUE]) /\ UNCHANGED agent
    /\ UNCHANGED <<conductor, calls, cleaned, robbed, faults>>
-----------------------------------------------------------------------------
(* The heartbeat of the agent driver.                                        *)

\* set_failed_state(), which tries to power the node off.
DeployFails(t) ==
    /\ Ends(t, Event(node, task[t].state, "fail", "none"))
    /\ agent' \in {Off, agent}

\* The image is to be written, or is written: the deployment is resumed.
HeartbeatDeploy(t) ==
    /\ At(t, "heartbeat") /\ ~node.maintenance /\ task[t].state = "deploywait"
    /\ LET row == Event(node, task[t].state, "resume", "none")
       IN \/ agent.cmd = "none" /\ Becomes(t, "image", 0, row) /\ UNCHANGED agent
          \/ /\ agent.cmd = "image" /\ agent.st # "running"
             /\ Becomes(t, "boot", 0, row) /\ UNCHANGED agent
          \* touch_provisioning()
          \/ /\ agent.cmd = "image" /\ agent.st = "running"
             /\ Ends(t, [node EXCEPT !.old = FALSE]) /\ UNCHANGED agent
          \* The agent cannot be asked.
          \/ DeployFails(t)
    /\ UNCHANGED <<conductor, calls, cleaned, robbed, faults>>

\* continue_deploy()
ImageWork(t) ==
    /\ At(t, "image")
    /\ \/ /\ Ends(t, Event(node, task[t].state, "wait", "none"))
          /\ agent' = [Booted EXCEPT !.cmd = "image", !.st = "running"]
       \/ DeployFails(t)
    /\ UNCHANGED <<conductor, calls, cleaned, robbed, faults>>

\* reboot_to_instance()
BootWork(t) ==
    /\ At(t, "boot")
    /\ \/ /\ agent.st = "ok"
          /\ Ends(t, Event(node, task[t].state, "done", "none"))
          /\ agent' = Off
       \/ DeployFails(t)
    /\ UNCHANGED <<conductor, calls, cleaned, robbed, faults>>

\* Mutant: any command that has succeeded will do.
CompletedAny == agent.cmd = "clean" /\ agent.st # "running"

\* _get_completed_cleaning_command(): a success counts when it is of node.clean_step,
\* as it is in the row.  The flag that abort leaves there is part of it.
Completed ==
    /\ agent.cmd = "clean"
    /\ agent.st # "running"
    /\ agent.st = "ok" => agent.step = node.step /\ ~node.abortAfter

\* notify_conductor_resume_clean(): the task is released before the call.
Notify(t, row) ==
    /\ node' = Released(row, task[t].host)
    /\ task' = [task EXCEPT ![t] = NoTask]
    /\ calls' = calls + 1
    /\ UNCHANGED <<conductor, agent, cleaned, robbed, faults>>

HeartbeatClean(t) ==
    /\ At(t, "heartbeat") /\ ~node.maintenance /\ task[t].state \in {"cleanwait", "cleaning"}
    /\ calls < 2
    /\ LET row == [node EXCEPT !.old = FALSE]
       IN \* set_node_cleaning_steps() of a manual cleaning reads the list of the row.
          \/ node.step = 0 /\ (Manual(row) => row.steps # "none") /\ Notify(t, SetSteps(row))
          \/ /\ node.step # 0 /\ ~Completed
             /\ Ends(t, row)
             /\ UNCHANGED <<conductor, agent, calls, cleaned, robbed, faults>>
          \/ node.step # 0 /\ Completed /\ agent.st = "ok" /\ Notify(t, row)
          \* CLEAN_VERSION_MISMATCH
          \/ /\ node.step # 0 /\ Completed /\ agent.st = "mismatch"
             /\ Notify(t, IF Manual(row) THEN [row EXCEPT !.skip = FALSE] ELSE SetSteps(row))
          \* The step has failed, or the agent cannot be asked or gives no steps.
          \/ CleaningError(t, row)

\* A heartbeat in another state, or in maintenance.
HeartbeatIgnored(t) ==
    /\ At(t, "heartbeat")
    /\ node.maintenance \/ task[t].state \notin {"deploywait", "cleanwait", "cleaning"}
    /\ Ends(t, node)
    /\ UNCHANGED <<conductor, agent, calls, cleaned, robbed, faults>>

\* In CLEANWAIT the cleaning is resumed; in CLEANING it need not be.
Resumed(row) ==
    IF row.state = "cleanwait" THEN Event(row, row.state, "resume", KeepManual(row)) ELSE row

\* continue_node_clean()
ContinueClean(h) ==
    /\ calls > 0 /\ calls' = calls - 1
    /\ Reserve(h) /\ node.state \in {"cleanwait", "cleaning"}
    /\ LET idx == IF node.step = 0 THEN 1 ELSE IF node.skip THEN node.step + 1 ELSE node.step
           row == [node EXCEPT !.skip = TRUE]
       IN \* Without a list there is no node.clean_step to look at: the call dies.
          \/ node.steps = "none" /\ node' = row /\ UNCHANGED <<task, faults>>
          \/ /\ node.abortAfter /\ idx <= Length(node)
             /\ IF node.state = "cleanwait"
                THEN SpawnOrReject(h, "abort", 0,
                                   Event(row, row.state, "abort", KeepManual(row)),
                                   [row EXCEPT !.old = FALSE])
                ELSE node' = row /\ UNCHANGED <<task, faults>>
          \/ /\ node.steps # "none" /\ ~(node.abortAfter /\ idx <= Length(node))
             /\ SpawnOrReject(h, "steps", idx, Resumed(row), Resumed(row))
    /\ UNCHANGED <<conductor, agent, cleaned, robbed>>

\* The call fails: the node is locked or in another state, or nobody answers.
CallFails ==
    /\ calls > 0 /\ calls' = calls - 1
    /\ \/ node.reservation # Nobody
       \/ node.state \notin {"cleanwait", "cleaning"}
       \/ \A h \in Hosts : ~Serves(h)
    /\ UNCHANGED <<node, task, conductor, agent, cleaned, robbed, faults>>

\* The agent is done with its command (external).
AgentWorks ==
    /\ agent.st = "running"
    /\ \E st \in {"ok", "failed"} \cup (IF agent.cmd = "clean" THEN {"mismatch"} ELSE {}) :
        /\ agent' = [agent EXCEPT !.st = st]
        /\ cleaned' = IF agent.cmd = "clean" /\ st = "ok" THEN cleaned \cup {agent.step}
                      ELSE cleaned
    /\ UNCHANGED <<node, task, conductor, calls, robbed, faults>>
-----------------------------------------------------------------------------
(* Time, and the periodic tasks.                                             *)

TimePasses ==
    /\ node.state \in {"deploywait", "cleanwait"} /\ ~node.old
    /\ calls = 0 \/ DelayedCalls
    /\ node' = [node EXCEPT !.old = TRUE]
    /\ UNCHANGED <<task, conductor, agent, calls, cleaned, robbed, faults>>

Overdue(s) == node.state = s /\ node.old /\ ~node.maintenance

\* _check_deploy_timeouts()
CheckDeployTimeouts(h) ==
    /\ Reserve(h) /\ Overdue("deploywait")
    /\ SpawnOrReject(h, "cleanup", 0, Event(node, node.state, "fail", "none"),
                     [node EXCEPT !.old = FALSE])
    /\ UNCHANGED <<conductor, agent, calls, cleaned, robbed>>

\* _check_cleanwait_timeouts()
CheckCleanwaitTimeouts(h) ==
    /\ Reserve(h) /\ Overdue("cleanwait")
    /\ node' = Event(node, node.state, "fail", node.target)
    /\ UNCHANGED <<task, conductor, agent, calls, cleaned, robbed, faults>>

Checks(h, check, offline) ==
    conductor' = [conductor EXCEPT ![h].check = check, ![h].offline = offline]

Stale == {g \in Hosts : ~conductor[g].fresh}

\* _check_deploying_status(): the conductors that are offline are read ...
ListOffline(h) ==
    /\ conductor[h].proc = "up" /\ conductor[h].check = "no" /\ Stale # {}
    /\ Checks(h, "listed", Stale)
    /\ UNCHANGED <<node, task, agent, calls, cleaned, robbed, faults>>

Continues(h, check) == conductor[h].proc \in {"up", "stopping"} /\ conductor[h].check = check

\* ... then the nodes that one of them is deploying ...
ReadDeploying(h) ==
    /\ Continues(h, "listed")
    /\ IF /\ node.state = "deploying" /\ ~node.maintenance
          /\ node.reservation \in conductor[h].offline
       THEN Checks(h, "found", {node.reservation})
       ELSE Checks(h, "no", {})
    /\ UNCHANGED <<node, task, agent, calls, cleaned, robbed, faults>>

\* Mutant: whoever has reserved the node by now.
WhoeverOwns(h, g) == node.reservation # Nobody

\* Node.release(): the reservation is still that of the conductor read above.  That
\* conductor may be back.
StillOwned(h, g) == node.reservation = g

\* ... of which those that are mapped to h are released, each in its turn ...
BreakReservation(h) ==
    /\ Continues(h, "found")
    /\ \E g \in conductor[h].offline :
        \/ /\ Mapped(h) /\ StillOwned(h, g)
           /\ node' = [node EXCEPT !.reservation = Nobody]
           /\ robbed' = (robbed \/ TasksOf(g) # {})
           /\ Checks(h, "fail", {})
        \/ /\ ~(Mapped(h) /\ StillOwned(h, g))
           /\ Checks(h, IF Mapped(h) /\ node.reservation = Nobody THEN "fail" ELSE "no", {})
           /\ UNCHANGED <<node, robbed>>
    /\ UNCHANGED <<task, agent, calls, cleaned, faults>>

CanFail == node.reservation = Nobody /\ node.state = "deploying" /\ ~node.maintenance

\* The attempts to reserve the node, a few seconds apart, outlast a heartbeat and
\* the end of a worker, but for a fault.
LockedForLong ==
    /\ node.reservation # Nobody
    /\ IF \E t \in Slots : task[t] # NoTask /\ task[t].work \in {"heartbeat", "exit"}
       THEN Fault("busy") ELSE UNCHANGED faults

\* ... and then the node is failed, if it can be reserved and is still the same.
\* With no free worker it is put back.
FailDeploying(h) ==
    /\ Continues(h, "fail")
    /\ Checks(h, "no", {})
    /\ \/ /\ CanFail /\ (\E t \in Slots : task[t] = NoTask)
          /\ SpawnOrReject(h, "cleanup", 0, Event(node, node.state, "fail", "none"), node)
       \/ ~CanFail /\ node.reservation = Nobody /\ UNCHANGED <<node, task, faults>>
       \/ LockedForLong /\ UNCHANGED <<node, task>>
       \* The hash ring, cached since the release, is read anew just now.
       \/ ~Mapped(h) /\ Fault("busy") /\ UNCHANGED <<node, task>>
    /\ UNCHANGED <<agent, calls, cleaned, robbed>>
-----------------------------------------------------------------------------
(* Processes.                                                                *)

HostDown(h) ==
    /\ conductor' = [conductor EXCEPT ![h].proc = "down", ![h].check = "no", ![h].offline = {}]
    /\ task' = [t \in Slots |-> IF t \in TasksOf(h) THEN NoTask ELSE task[t]]
    /\ UNCHANGED <<node, agent, calls, cleaned, robbed>>

Crash(h) == conductor[h].proc # "down" /\ Fault("crash") /\ HostDown(h)

\* del_host(): deregister, then wait for the workers.
DelHost(h) ==
    /\ conductor[h].proc = "up" /\ Fault("stop")
    /\ conductor' = [conductor EXCEPT ![h].proc = "stopping", ![h].online = FALSE]
    /\ UNCHANGED <<node, task, agent, calls, cleaned, robbed>>

Stopped(h) ==
    /\ conductor[h].proc = "stopping" /\ TasksOf(h) = {} /\ conductor[h].check = "no"
    /\ HostDown(h)
    /\ UNCHANGED faults

\* heartbeat_timeout passes for a row that no process touches any more.
HeartbeatLapses(h) ==
    /\ conductor[h].fresh /\ conductor[h].proc \in {"down", "stopping"}
    /\ conductor' = [conductor EXCEPT ![h].fresh = FALSE]
    /\ UNCHANGED <<node, task, agent, calls, cleaned, robbed, faults>>

\* It passes although the process runs: the heartbeat is late, ...
HeartbeatLate(h) ==
    /\ conductor[h].fresh /\ conductor[h].proc \in {"up", "starting"} /\ Fault("late")
    /\ conductor' = [conductor EXCEPT ![h].fresh = FALSE]
    /\ UNCHANGED <<node, task, agent, calls, cleaned, robbed>>

\* ... but comes.  _conductor_service_record_keepalive()
Keepalive(h) ==
    /\ ~conductor[h].fresh /\ conductor[h].proc = "up"
    /\ conductor' = [conductor EXCEPT ![h].fresh = TRUE, ![h].online = TRUE]
    /\ UNCHANGED <<node, task, agent, calls, cleaned, robbed, faults>>

\* Mutant: every reservation is cleared.
ClearAllReservations(h) == [node EXCEPT !.reservation = Nobody]

\* clear_node_reservations_for_conductor()
ClearReservations(h) == Released(node, h)

\* init_host(): clear the reservations of the host, register ...
InitHost(h) ==
    /\ conductor[h].proc = "down"
    /\ node' = ClearReservations(h)
    /\ conductor' = [conductor EXCEPT ![h] = [proc |-> "starting", online |-> TRUE,
                                              fresh |-> TRUE,
                                              check |-> "no", offline |-> {}]]
    /\ UNCHANGED <<task, agent, calls, cleaned, robbed, faults>>

\* Mutant: the deployment that cannot be resumed is left as it is.
NothingFails(h) == node' = node

\* _fail_if_in_state(), without a callback.
FailIfDeploying(h) ==
    node' = IF CanFail /\ Mapped(h) THEN Event(node, node.state, "fail", "none") ELSE node

\* ... and fail a deployment that cannot be resumed.
InitHostFails(h) ==
    /\ conductor[h].proc = "starting"
    /\ FailIfDeploying(h)
    /\ conductor' = [conductor EXCEPT ![h].proc = "up"]
    /\ UNCHANGED <<task, agent, calls, cleaned, robbed, faults>>
-----------------------------------------------------------------------------
Work(t) ==
    \/ Release(t) \/ DeployWork(t) \/ TearDownWork(t) \/ VerifyWork(t) \/ CleanupWork(t)
    \/ CleanWork(t) \/ SaveStep(t) \/ ExecuteStep(t) \/ StepsDone(t)
    \/ TearDownCleaning(t) \/ CleaningDone(t) \/ AbortWork(t)
    \/ HeartbeatDeploy(t) \/ ImageWork(t) \/ BootWork(t)
    \/ HeartbeatClean(t) \/ HeartbeatIgnored(t)

Requests(h) ==
    \/ Deploy(h) \/ TearDown(h) \/ ManualClean(h) \/ Provide(h) \/ Manage(h) \/ Abort(h)
    \/ SetMaintenance(h) \/ OtherWork(h)

Periodic(h) ==
    \/ CheckDeployTimeouts(h) \/ CheckCleanwaitTimeouts(h)
    \/ ListOffline(h) \/ ReadDeploying(h) \/ BreakReservation(h) \/ FailDeploying(h)

Next ==
    \/ \E t \in Slots : Work(t)
    \/ \E h \in Hosts :
        \/ Requests(h) \/ Heartbeat(h) \/ ContinueClean(h) \/ Periodic(h)
        \/ Crash(h) \/ DelHost(h) \/ Stopped(h)
        \/ HeartbeatLapses(h) \/ HeartbeatLate(h) \/ Keepalive(h)
        \/ InitHost(h) \/ InitHostFails(h)
    \/ CallFails \/ AgentWorks \/ TimePasses

\* Workers go on, periodic tasks run, rows that nobody touches go stale, those of a
\* process that runs are touched, and an initialisation that has begun goes on.  The
\* attempts to reserve a node are far closer together than the heartbeats that may be in
\* their way, so one of them succeeds.  That a process is started again is not assumed.
Spec ==
    /\ Init /\ [][Next]_vars
    /\ \A t \in Slots : WF_vars(Work(t))
    /\ \A h \in Hosts :
        /\ WF_vars(Periodic(h)) /\ SF_vars(FailDeploying(h))
        /\ WF_vars(HeartbeatLapses(h)) /\ WF_vars(Keepalive(h)) /\ WF_vars(InitHostFails(h))
-----------------------------------------------------------------------------
\* The node is worked on by one task, and reserved for its host.
OneTask ==
    \A t \in Slots : task[t] # NoTask =>
        /\ node.reservation = task[t].host
        /\ \A u \in Slots : task[u] # NoTask => u = t

\* Until the reservation of a conductor that is at work is broken, whatever crashes,
\* restarts, is late, is released or cleared, a node is worked on by one task at a time
\* and reserved for the host of that task.  That such a reservation may be broken is
\* what the NOTE of _check_deploying_status() says.
OneTaskAtATime == ~robbed => OneTask

\* A cleaning that ends well, automated or manual, has completed every step of its list
\* since an instance was last on the node: the index in the row, the command the agent
\* reports and the call that goes on are about the same step.  The other way out of
\* CLEANING to MANAGEABLE is the operator's, for a node that nobody holds.
NoStepSkipped ==
    [][~robbed /\ node.state = "cleaning" /\ node'.state \in {"available", "manageable"} =>
          \/ \E t \in Slots : At(t, "finished") /\ 1 .. task[t].idx \subseteq cleaned
          \/ node.reservation = Nobody /\ node'.state = "manageable"]_vars

\* "From MANAGEABLE, a node may move to available after going through automated
\* cleaning": it has completed all of its steps.
CleanedBeforeAvailable == node.state = "available" => cleaned = 1 .. AutoSteps

\* A deployment whose worker is gone, and whose node is still reserved for it, is failed
\* in the end, by the conductor that comes back or by another one, and does not stay
\* DEPLOYING, unless the operator takes the node into maintenance in the meantime.
Orphaned ==
    /\ node.state = "deploying" /\ node.reservation # Nobody
    /\ \A t \in Slots : task[t] = NoTask
DeadDeploymentFails == Orphaned ~> node.state # "deploying" \/ node.maintenance
=============================================================================
