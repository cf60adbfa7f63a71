------------------------------ MODULE L3Agent ------------------------------
(***************************************************************************)
(* How the Neutron L3 agent keeps the routers of its host in step with the *)
(* server: notifications become updates in a priority queue, a pool of     *)
(* green threads takes them, one thread at a time is the master of a       *)
(* router, timestamps tell which updates are still worth processing, and a *)
(* full sync, run at the start and whenever it is asked for, fetches all   *)
(* routers and removes the namespaces no router needs.                     *)
(*                                                                         *)
(* Green threads yield only in RPC calls and in commands they execute, so  *)
(* an action is what happens between two of those.  The initial state is   *)
(* the agent just (re)started: nothing in memory, any namespaces left by   *)
(* its predecessor, and any routers scheduled to it.                       *)
(***************************************************************************)
EXTENDS Integers, Sequences, FiniteSets, FiniteSetsExt

CONSTANTS
    Routers,      \* ids of routers
    Workers,      \* threads of the pool of _process_routers_loop
    NoWorker,     \* nobody is the master of a router
    Foreign,      \* versions of a router that are not compatible with the agent
    MaxChunk,     \* SYNC_ROUTERS_MAX_CHUNK_SIZE
    MinChunk,     \* SYNC_ROUTERS_MIN_CHUNK_SIZE
    MaxChanges,   \* bound: versions of the server's database
    MaxFaults     \* bound: failures, lapses of the heartbeat, agent_updated

ASSUME L3Assumption ==
    /\ NoWorker \notin Workers
    /\ MinChunk \in Nat \ {0} /\ MaxChunk \in Nat /\ MinChunk <= MaxChunk
    /\ MaxChanges \in Nat \ {0} /\ MaxFaults \in Nat
    /\ Foreign \subseteq Nat

VARIABLES
    db,           \* server: version of a router, and whether this agent hosts it
    changes,      \* server: versions handed out so far
    alive,        \* server: has a recent heartbeat of the agent
    revived,      \* AGENT_REVIVED: on its way, or lost and no full sync has begun since
    notes,        \* notifications on their way to the agent, in order
    clock,        \* timeutils.utcnow(): the last timestamp handed out
    queue,        \* RouterProcessingQueue._queue
    masters,      \* ExclusiveRouterProcessor._masters
    mqueue,       \* _queue of the master of a router
    stamps,       \* ExclusiveRouterProcessor._router_timestamps, 0 = datetime.min
    work,         \* what a worker is doing
    routerInfo,   \* keys of router_info
    ns,           \* routers whose namespace exists on the host
    cfg,          \* the version of a router the agent last finished processing
    fullsync,     \* the flag that makes the next periodic task synchronise
    sync,         \* the periodic task, and the with block of NamespaceManager
    cleanStale,   \* NamespaceManager._clean_stale
    chunk,        \* sync_routers_chunk_size
    requested,    \* history: asked for a full sync, and none has begun since
    faults        \* bound: how many faults have happened

server == <<db, changes, alive, revived>>
exclusive == <<masters, mqueue, work>>
syncing == <<fullsync, sync, cleanStale, chunk, requested>>
vars == <<server, notes, clock, queue, exclusive, stamps, routerInfo, ns, cfg,
          syncing, faults>>

NoData == 0       \* update.router is None
RPC == 0          \* PRIORITY_RPC
SYNC == 1         \* PRIORITY_SYNC_ROUTERS_TASK
-----------------------------------------------------------------------------
(* "data" is the version the update carries, or removes; "ver" is the change *)
(* a notification announced, 0 for an update made by a full sync.            *)
RouterUpdate(id, prio, ts, action, data, ver) ==
    [id |-> id, prio |-> prio, ts |-> ts, action |-> action,
     data |-> data, ver |-> ver]

Updates == [id : Routers, prio : {RPC, SYNC}, ts : Nat,
            action : {"none", "delete"}, data : 0..MaxChanges, ver : 0..MaxChanges]

Idle == [pc |-> "idle"]
Busy == [pc : {"fetch", "process", "init", "configure", "remove", "evict"},
         upd : Updates]

NoSync == [pc |-> "idle", ts |-> 0, prev |-> {}, ids |-> {}, found |-> {},
           curr |-> {}, snap |-> {}, read |-> [r \in Routers |-> 0]]

Syncs == [pc : {"idle", "enter", "ask_ids", "ids", "ask", "got", "clean"}, ts : Nat,
          prev : SUBSET Routers, ids : SUBSET Routers, found : SUBSET Routers,
          curr : SUBSET Routers, snap : SUBSET Routers, read : [Routers -> 0..MaxChanges]]

Notes == [id : Routers, kind : {"updated", "deleted"}, ver : 1..MaxChanges]

\* The agent's queues hold updates of routers, and who works has one of them.
TypeOK ==
    /\ db \in [Routers -> [ver : 1..MaxChanges, on : BOOLEAN]]
    /\ changes \in 1..MaxChanges
    /\ alive \in BOOLEAN
    /\ revived \in {"no", "answer", "lost"}
    /\ notes \in Seq(Notes)
    /\ clock \in Nat
    /\ queue \subseteq Updates
    /\ masters \in [Routers -> Workers \cup {NoWorker}]
    /\ mqueue \in [Routers -> Seq(Updates)]
    /\ stamps \in [Routers -> Nat]
    /\ work \in [Workers -> {Idle} \cup Busy]
    /\ routerInfo \subseteq Routers /\ ns \subseteq Routers
    /\ cfg \in [Routers -> 0..MaxChanges]
    /\ fullsync \in BOOLEAN /\ cleanStale \in BOOLEAN /\ requested \in BOOLEAN
    /\ sync \in Syncs
    /\ chunk \in MinChunk..MaxChunk
    /\ faults \in 0..MaxFaults

Init ==
    /\ db \in [Routers -> [ver : {1}, on : BOOLEAN]]
    /\ changes = 1
    /\ alive = TRUE
    /\ revived = "no"
    /\ notes = <<>>
    /\ clock = 0
    /\ queue = {}
    /\ masters = [r \in Routers |-> NoWorker]
    /\ mqueue = [r \in Routers |-> <<>>]
    /\ stamps = [r \in Routers |-> 0]
    /\ work = [w \in Workers |-> Idle]
    /\ routerInfo = {}
    /\ ns \in SUBSET Routers
    /\ cfg = [r \in Routers |-> 0]
    /\ fullsync = TRUE
    /\ sync = NoSync
    /\ cleanStale = TRUE
    /\ chunk = MaxChunk
    /\ requested = TRUE
    /\ faults = 0

Fault == faults < MaxFaults /\ faults' = faults + 1
-----------------------------------------------------------------------------
(* The server.  A change is committed, then its notification is sent.  The   *)
(* notification of an update goes to the agents believed alive only; that a  *)
(* router is added to the agent, removed from it or deleted is always sent.  *)
Commit(r, on, kind, sent) ==
    /\ changes < MaxChanges
    /\ changes' = changes + 1
    /\ db' = [db EXCEPT ![r] = [ver |-> changes + 1, on |-> on]]
    /\ notes' = IF sent THEN Append(notes, [id |-> r, kind |-> kind, ver |-> changes + 1])
                        ELSE notes
    /\ UNCHANGED <<alive, revived, clock, queue, exclusive, stamps, routerInfo, ns, cfg,
                   syncing, faults>>

UpdateRouter(r) == db[r].on /\ Commit(r, TRUE, "updated", alive)

AddRouterToAgent(r) == ~db[r].on /\ Commit(r, TRUE, "updated", TRUE)

RemoveRouterFromAgent(r) == db[r].on /\ Commit(r, FALSE, "deleted", TRUE)

\* No heartbeat for agent_down_time: the server takes the agent for down.
HeartbeatLapses ==
    /\ alive /\ Fault
    /\ alive' = FALSE
    /\ UNCHANGED <<db, changes, revived, notes, clock, queue, exclusive, stamps, routerInfo,
                   ns, cfg, syncing>>

RequestFullSync == fullsync' = TRUE /\ requested' = TRUE

\* _report_state(): the first report after a lapse finds the agent revived ...
ReportState ==
    /\ ~alive /\ revived # "answer"
    /\ alive' = TRUE
    /\ revived' = "answer"
    /\ UNCHANGED <<db, changes, notes, clock, queue, exclusive, stamps, routerInfo,
                   ns, cfg, syncing, faults>>

\* ... and the agent is told so, or the call fails and the next report will not say it.
ReportReturns ==
    /\ revived = "answer"
    /\ \/ revived' = "no" /\ RequestFullSync
       \/ revived' = "lost" /\ UNCHANGED <<fullsync, requested>>
    /\ UNCHANGED <<db, changes, alive, notes, clock, queue, exclusive, stamps, routerInfo,
                   ns, cfg, sync, cleanStale, chunk, faults>>

\* agent_updated(): the administrator changed the agent.
AgentUpdated ==
    /\ Fault
    /\ RequestFullSync
    /\ UNCHANGED <<server, notes, clock, queue, exclusive, stamps, routerInfo, ns,
                   cfg, sync, cleanStale, chunk>>

\* routers_updated(), router_added_to_agent(), router_deleted() and
\* router_removed_from_agent(): the next notification becomes an update.
Notified ==
    /\ notes # <<>>
    /\ notes' = Tail(notes)
    /\ clock' = clock + 1
    /\ LET n == Head(notes) IN
       queue' = queue \cup
                {IF n.kind = "deleted"
                 THEN RouterUpdate(n.id, RPC, clock + 1, "delete", n.ver, n.ver)
                 ELSE RouterUpdate(n.id, RPC, clock + 1, "none", NoData, n.ver)}
    /\ UNCHANGED <<server, exclusive, stamps, routerInfo, ns, cfg, syncing, faults>>
-----------------------------------------------------------------------------
(* The workers.                                                              *)

\* updates() of the master: drop the updates that are not fresh, go on with the
\* first that is, and stop being the master when there is none.  An update that
\* needs data is given a new timestamp before the data are asked for.
Take(w, r, q, stamp, now) ==
    LET fresh == {i \in DOMAIN q : stamp < q[i].ts} IN
    \/ /\ fresh = {}
       /\ masters' = [masters EXCEPT ![r] = NoWorker]
       /\ mqueue' = [mqueue EXCEPT ![r] = <<>>]
       /\ work' = [work EXCEPT ![w] = Idle]
       /\ clock' = now
    \/ /\ fresh # {}
       /\ masters' = [masters EXCEPT ![r] = w]
       /\ LET i == Min(fresh)
              u == q[i]
          IN /\ mqueue' = [mqueue EXCEPT ![r] = SubSeq(q, i + 1, Len(q))]
             /\ \/ /\ u.action = "delete"
                   /\ work' = [work EXCEPT ![w] = [pc |-> "remove", upd |-> u]]
                   /\ clock' = now
                \/ /\ u.action = "none" /\ u.data # NoData
                   /\ work' = [work EXCEPT ![w] = [pc |-> "process", upd |-> u]]
                   /\ clock' = now
                \/ /\ u.action = "none" /\ u.data = NoData
                   /\ work' = [work EXCEPT ![w] = [pc |-> "fetch",
                                                   upd |-> [u EXCEPT !.ts = now + 1]]]
                   /\ clock' = now + 1

\* RouterUpdate.__lt__; between equal timestamps the order of the ids is as good
\* as random.
Precedes(u, v) ==
    \/ u.prio < v.prio
    \/ u.prio = v.prio /\ u.ts < v.ts

\* Mutant: __exit__() of any worker gives the router up.
EachUpdateGivesUp(w) ==
    /\ work[w] = Idle
    /\ \E u \in queue :
        /\ \A v \in queue : ~Precedes(v, u)
        /\ queue' = queue \ {u}
        /\ \/ /\ masters[u.id] = NoWorker
              /\ Take(w, u.id, <<u>>, stamps[u.id], clock)
           \/ /\ masters[u.id] # NoWorker
              /\ mqueue' = [mqueue EXCEPT ![u.id] = Append(@, u)]
              /\ masters' = [masters EXCEPT ![u.id] = NoWorker]
              /\ UNCHANGED <<work, clock>>
    /\ UNCHANGED <<server, notes, stamps, routerInfo, ns, cfg, syncing, faults>>

\* each_update_to_next_router() up to the first update it yields.
EachUpdateToNextRouter(w) ==
    /\ work[w] = Idle
    /\ \E u \in queue :
        /\ \A v \in queue : ~Precedes(v, u)
        /\ queue' = queue \ {u}
        /\ \/ /\ masters[u.id] = NoWorker
              /\ Take(w, u.id, <<u>>, stamps[u.id], clock)
           \/ /\ masters[u.id] # NoWorker
              /\ mqueue' = [mqueue EXCEPT ![u.id] = Append(@, u)]
              /\ UNCHANGED <<masters, work, clock>>
    /\ UNCHANGED <<server, notes, stamps, routerInfo, ns, cfg, syncing, faults>>

At(w, pc) == work[w].pc = pc
Goto(w, pc) == work' = [work EXCEPT ![w].pc = pc]

\* The reply of get_routers(): the router as it is in the database now.
Fetched(w) ==
    /\ At(w, "fetch")
    /\ LET row == db[work[w].upd.id] IN
       work' = [work EXCEPT ![w].pc = IF row.on THEN "process" ELSE "remove",
                            ![w].upd.data = row.ver]
    /\ UNCHANGED <<server, notes, clock, queue, masters, mqueue, stamps, routerInfo,
                   ns, cfg, syncing, faults>>

\* Mutant: what is recorded is when the processing ended.
ProcessedNow(w) ==
    LET u == work[w].upd
    IN /\ stamps' = [stamps EXCEPT ![u.id] = clock + 1]
       /\ cfg' = [cfg EXCEPT ![u.id] = u.data]
       /\ Take(w, u.id, mqueue[u.id], clock + 1, clock + 1)
       /\ queue' = queue

\* fetched_and_processed(), and on to the next update.
Processed(w) ==
    LET u == work[w].upd
        stamp == Max({u.ts, stamps[u.id]})
    IN /\ stamps' = [stamps EXCEPT ![u.id] = stamp]
       /\ cfg' = [cfg EXCEPT ![u.id] = u.data]
       /\ Take(w, u.id, mqueue[u.id], stamp, clock)
       /\ queue' = queue

\* _process_router_if_compatible() up to its first command.
ProcessRouterIfCompatible(w) ==
    /\ At(w, "process")
    /\ LET r == work[w].upd.id
           foreign == work[w].upd.data \in Foreign
       IN \/ /\ foreign /\ r \in routerInfo
             /\ Goto(w, "evict")
             /\ UNCHANGED <<clock, queue, masters, mqueue, stamps, routerInfo, cfg>>
          \/ /\ foreign /\ r \notin routerInfo
             /\ Processed(w)
             /\ UNCHANGED routerInfo
          \/ /\ ~foreign /\ r \notin routerInfo
             /\ routerInfo' = routerInfo \cup {r}
             /\ Goto(w, "init")
             /\ UNCHANGED <<clock, queue, masters, mqueue, stamps, cfg>>
          \/ /\ ~foreign /\ r \in routerInfo
             /\ Goto(w, "configure")
             /\ UNCHANGED <<clock, queue, masters, mqueue, stamps, routerInfo, cfg>>
    /\ UNCHANGED <<server, notes, ns, syncing, faults>>

\* initialize() of the router: its namespace is created if it is not there.
Initialize(w) ==
    /\ At(w, "init")
    /\ ns' = ns \cup {work[w].upd.id}
    /\ Goto(w, "configure")
    /\ UNCHANGED <<server, notes, clock, queue, masters, mqueue, stamps, routerInfo,
                   cfg, syncing, faults>>

\* process() of the router: the host now has what the data say.
Configure(w) ==
    /\ At(w, "configure")
    /\ Processed(w)
    /\ UNCHANGED <<server, notes, routerInfo, ns, syncing, faults>>

\* _router_removed(): the router, or else what is left of it, is removed.
RouterRemoved(w) ==
    /\ At(w, "remove") \/ At(w, "evict")
    /\ LET r == work[w].upd.id IN
       /\ routerInfo' = routerInfo \ {r}
       /\ ns' = ns \ {r}
    /\ Processed(w)
    /\ UNCHANGED <<server, notes, syncing, faults>>

\* The removal of an incompatible router fails, and nobody asks.
EvictFails(w) ==
    /\ At(w, "evict") /\ Fault
    /\ Processed(w)
    /\ UNCHANGED <<server, notes, routerInfo, ns, syncing>>

\* _resync_router(): the fetch, the processing or the removal has failed, and the
\* update goes back to the queue, without data and with the time of the failure.
ResyncRouter(w) ==
    /\ \/ At(w, "fetch") \/ At(w, "process") \/ At(w, "init") \/ At(w, "configure")
       \/ At(w, "remove") /\ work[w].upd.id \in routerInfo
    /\ Fault
    /\ LET u == work[w].upd IN
       /\ queue' = queue \cup
                   {[u EXCEPT !.prio = SYNC, !.ts = clock + 1,
                              !.data = IF u.action = "delete" THEN @ ELSE NoData]}
       /\ Take(w, u.id, mqueue[u.id], stamps[u.id], clock + 1)
    /\ UNCHANGED <<server, notes, stamps, routerInfo, ns, cfg, syncing>>
-----------------------------------------------------------------------------
(* The periodic task.                                                        *)

\* NamespaceManager.__enter__(): the picture of the namespaces.
SyncEnter ==
    /\ fullsync /\ sync.pc = "idle"
    /\ sync' = [NoSync EXCEPT !.pc = "enter", !.snap = IF cleanStale THEN ns ELSE {}]
    /\ UNCHANGED <<server, notes, clock, queue, exclusive, stamps, routerInfo, ns, cfg,
                   fullsync, cleanStale, chunk, requested, faults>>

SyncBegin ==
    /\ sync.pc = "enter"
    /\ clock' = clock + 1
    /\ sync' = [sync EXCEPT !.pc = "ask_ids", !.prev = routerInfo, !.ts = clock + 1]
    /\ requested' = FALSE
    /\ revived' = IF revived = "lost" THEN "no" ELSE revived
    /\ UNCHANGED <<db, changes, alive, notes, queue, exclusive, stamps, routerInfo, ns, cfg,
                   fullsync, cleanStale, chunk, faults>>

\* The server answers get_router_ids().
SyncReadIds ==
    /\ sync.pc = "ask_ids"
    /\ sync' = [sync EXCEPT !.pc = "ids", !.ids = {r \in Routers : db[r].on},
                            !.read = [r \in Routers |-> db[r].ver]]
    /\ UNCHANGED <<server, notes, clock, queue, exclusive, stamps, routerInfo, ns, cfg,
                   fullsync, cleanStale, chunk, requested, faults>>

\* The server answers get_routers() for the next chunk.
SyncReadChunk ==
    /\ sync.pc = "ask"
    /\ \E c \in kSubset(Min({chunk, Cardinality(sync.ids)}), sync.ids) :
        sync' = [sync EXCEPT !.pc = "got", !.ids = @ \ c,
                             !.found = {r \in c : db[r].on},
                             !.read = [r \in Routers |-> IF r \in c THEN db[r].ver
                                                         ELSE @[r]]]
    /\ UNCHANGED <<server, notes, clock, queue, exclusive, stamps, routerInfo, ns, cfg,
                   fullsync, cleanStale, chunk, requested, faults>>

\* An answer arrives.  Its routers are kept and queued; after the last one the
\* routers that have disappeared are queued for deletion, the flag is cleared,
\* and __exit__() begins to remove the namespaces nobody wants to keep.
SyncAnswer ==
    /\ sync.pc \in {"ids", "got"}
    /\ LET curr == sync.curr \cup sync.found
           gone == sync.prev \ curr
           added == {RouterUpdate(r, SYNC, sync.ts, "none", sync.read[r], 0)
                        : r \in sync.found}
           deleted == {RouterUpdate(r, SYNC, sync.ts, "delete", sync.read[r], 0)
                        : r \in gone}
           stale == sync.snap \ (curr \cup gone)
       IN \/ /\ sync.ids # {}
             /\ queue' = queue \cup added
             /\ sync' = [sync EXCEPT !.pc = "ask", !.curr = curr, !.found = {}]
             /\ UNCHANGED <<fullsync, cleanStale, chunk>>
          \/ /\ sync.ids = {}
             /\ queue' = queue \cup added \cup deleted
             /\ fullsync' = FALSE
             /\ chunk' = Min({chunk + MinChunk, MaxChunk})
             /\ cleanStale' = FALSE
             /\ sync' = IF stale = {} THEN NoSync
                        ELSE [NoSync EXCEPT !.pc = "clean", !.snap = stale]
    /\ UNCHANGED <<server, notes, clock, exclusive, stamps, routerInfo, ns, cfg,
                   requested, faults>>

\* Mutant: a sync that fails is not repeated.
SyncFailsForGood ==
    /\ sync.pc \in {"ask_ids", "ask"} /\ Fault
    /\ sync' = NoSync
    /\ fullsync' = FALSE
    /\ UNCHANGED <<server, notes, clock, queue, exclusive, stamps, routerInfo, ns, cfg,
                   chunk, cleanStale, requested>>

\* MessagingTimeout, which halves the chunks, or another failure of the RPC: the
\* flag stays up and the namespaces are left alone.
SyncFails ==
    /\ sync.pc \in {"ask_ids", "ask"} /\ Fault
    /\ sync' = NoSync
    /\ chunk' \in {chunk, Max({chunk \div 2, MinChunk})}
    /\ UNCHANGED <<server, notes, clock, queue, exclusive, stamps, routerInfo, ns, cfg,
                   fullsync, cleanStale, requested>>

\* __exit__() removes the next of the stale namespaces.
SyncClean ==
    /\ sync.pc = "clean"
    /\ \E r \in sync.snap :
        /\ ns' = ns \ {r}
        /\ sync' = IF sync.snap = {r} THEN NoSync ELSE [sync EXCEPT !.snap = @ \ {r}]
    /\ UNCHANGED <<server, notes, clock, queue, exclusive, stamps, routerInfo, cfg,
                   fullsync, cleanStale, chunk, requested, faults>>
-----------------------------------------------------------------------------
Server == \E r \in Routers : UpdateRouter(r) \/ AddRouterToAgent(r) \/ RemoveRouterFromAgent(r)

WorkerStep(w) ==
    \/ EachUpdateToNextRouter(w)
    \/ Fetched(w) \/ ProcessRouterIfCompatible(w) \/ Initialize(w) \/ Configure(w)
    \/ RouterRemoved(w) \/ EvictFails(w) \/ ResyncRouter(w)

SyncStep ==
    SyncEnter \/ SyncBegin \/ SyncReadIds \/ SyncReadChunk \/ SyncAnswer \/ SyncFails
    \/ SyncClean

Next ==
    \/ Server \/ HeartbeatLapses \/ AgentUpdated
    \/ ReportState \/ ReportReturns \/ Notified
    \/ \E w \in Workers : WorkerStep(w)
    \/ SyncStep

(* The heartbeat and the periodic task run on timers, notifications are      *)
(* delivered, and every RPC call and every command ends or fails.            *)
Fairness ==
    /\ WF_vars(ReportState) /\ WF_vars(ReportReturns)
    /\ WF_vars(Notified)
    /\ \A w \in Workers : WF_vars(WorkerStep(w))
    /\ WF_vars(SyncStep)

Spec == Init /\ [][Next]_vars /\ Fairness
-----------------------------------------------------------------------------
\* A router is never processed by two workers at once, whatever is queued for
\* it: the ExclusiveRouterProcessor of the first is the master of all others.
ExclusiveRouter ==
    \A v, w \in Workers :
        v # w /\ work[v] # Idle /\ work[w] # Idle => work[v].upd.id # work[w].upd.id

\* An update that would be dropped as older than the data of its router
\* announces a change that the agent has already processed: timestamps never
\* make the agent forget a notification.
StaleIsCovered ==
    \A r \in Routers :
        \A u \in {v \in queue : v.id = r} \cup {mqueue[r][i] : i \in DOMAIN mqueue[r]} :
            u.ts <= stamps[r] => u.ver <= cfg[r]

\* What the agent has made of a router agrees with the database.
InSync(r) ==
    IF ~db[r].on THEN r \notin routerInfo /\ r \notin ns
    ELSE cfg[r] = db[r].ver /\ (db[r].ver \notin Foreign => r \in routerInfo)

\* When changes and failures end, every router the agent hosts is configured as
\* the database says, and nothing is left of the others, unless a full sync was
\* asked for during the last one, whose end clears the flag, or the agent was never told
\* that it had been taken for dead.
EventuallyInSync == <>[](requested \/ revived = "lost" \/ \A r \in Routers : InSync(r))

\* A request for a full sync, "Agent has just been revived. Doing a full sync.",
\* is followed by the beginning of one.
RequestIsHonoured == requested ~> ~requested

\* A router the agent has finished processing has its namespace: the picture of
\* the namespaces identifies the stale ones correctly.
HandledHasNamespace ==
    \A r \in routerInfo : masters[r] = NoWorker => r \in ns
=============================================================================
