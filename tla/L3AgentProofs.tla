--------------------------- MODULE L3AgentProofs ---------------------------
(***************************************************************************)
(* One worker at a time processes a router, and timestamps never make the  *)
(* agent forget a notification: for any number of routers, workers,        *)
(* changes and faults.                                                     *)
(***************************************************************************)
EXTENDS L3Agent, SequenceTheorems, WellFoundedInduction, TLAPS

\* A worker is the master of the router it works on; a router without a master
\* has no updates waiting for one.
MastersWork ==
    /\ \A w \in Workers : work[w] # Idle => masters[work[w].upd.id] = w
    /\ \A r \in Routers : masters[r] = NoWorker => mqueue[r] = <<>>
    /\ \A r \in Routers : \A i \in DOMAIN mqueue[r] : mqueue[r][i].id = r

\* An update is not from the future, announces a change that has been committed,
\* and was sent before the notifications that are still on their way.
Known(u) ==
    /\ u.ts <= clock
    /\ u.ver <= db[u.id].ver
    /\ \A k \in DOMAIN notes : notes[k].id = u.id => u.ver <= notes[k].ver

AllKnown ==
    /\ \A u \in queue : Known(u)
    /\ \A r \in Routers : \A i \in DOMAIN mqueue[r] : Known(mqueue[r][i])
    /\ \A w \in Workers : work[w] # Idle => Known(work[w].upd)

\* Notifications are sent in the order of their changes.
NotesOrdered ==
    /\ \A r \in Routers : db[r].ver <= changes
    /\ \A k \in DOMAIN notes : notes[k].ver <= db[notes[k].id].ver
    /\ \A i, j \in DOMAIN notes : i < j /\ notes[i].id = notes[j].id => notes[i].ver <= notes[j].ver

StampsArePast == sync.ts <= clock /\ \A r \in Routers : stamps[r] <= clock

HasData(u) == u.action = "delete" \/ u.data # NoData

\* The data of u take in the change that v announces, if v is older than u.
Covers(u, v) == v.ts <= u.ts => v.ver <= u.data

\* An update with data comes after the ones it does not take in: in the queue, ...
QueueOrdered ==
    \A u, v \in queue :
        u # v /\ u.id = v.id /\ HasData(u) => Covers(u, v) \/ Precedes(v, u)

\* ... in the queue of the master, which is behind the queue of the agent, ...
MasterQueueOrdered ==
    \A r \in Routers : \A j \in DOMAIN mqueue[r] : HasData(mqueue[r][j]) =>
        /\ \A v \in queue : v.id = r => Covers(mqueue[r][j], v)
        /\ \A i \in DOMAIN mqueue[r] : i > j => Covers(mqueue[r][j], mqueue[r][i])

\* ... and in the hands of a worker, who has taken it because it was fresh.
WorkOrdered ==
    \A w \in Workers : work[w] # Idle =>
        LET u == work[w].upd IN
        /\ stamps[u.id] < u.ts
        /\ work[w].pc # "fetch" =>
              /\ \A v \in queue : v.id = u.id => Covers(u, v)
              /\ \A i \in DOMAIN mqueue[u.id] : Covers(u, mqueue[u.id][i])

\* What a full sync has read takes in the updates from before it began.
SyncCovers ==
    sync.pc \in {"ids", "ask", "got"} =>
        \A v \in queue : v.ts <= sync.ts => v.ver <= sync.read[v.id]

\* The inductive invariant.
L3Inv ==
    /\ TypeOK /\ MastersWork /\ AllKnown /\ NotesOrdered /\ StampsArePast
    /\ QueueOrdered /\ MasterQueueOrdered /\ WorkOrdered /\ SyncCovers
    /\ StaleIsCovered
-----------------------------------------------------------------------------
(* The operators of the model.                                               *)

\* A set of natural numbers that is not empty has a minimum.
LEMMA MinIsElement ==
    ASSUME NEW S \in SUBSET Nat, S # {}
    PROVE  Min(S) \in S
<1> DEFINE R == {ss \in Nat \X Nat : ss[1] < ss[2]}
<1>1. IsWellFoundedOn(R, Nat)
  BY NatLessThanWellFounded DEF OpToRel
<1>2. \A x, y \in Nat : <<x, y>> \in R <=> x < y
  OBVIOUS
<1> HIDE DEF R
<1>3. PICK x \in S : \A y \in S : ~(<<y, x>> \in R)
  BY <1>1, WFMin
<1>4. \A y \in S : x <= y
  <2> SUFFICES ASSUME NEW y \in S PROVE x <= y
    OBVIOUS
  <2>1. x \in Nat /\ y \in Nat
    BY <1>3
  <2>2. ~(y < x)
    BY <1>2, <1>3, <2>1
  <2> QED
    BY <2>1, <2>2
<1> QED
  BY <1>4 DEF Min

\* Minimum and maximum of two numbers.
LEMMA MinMaxOfTwo ==
    ASSUME NEW a \in Nat, NEW b \in Nat
    PROVE  /\ Min({a, b}) = IF a <= b THEN a ELSE b
           /\ Max({a, b}) = IF a >= b THEN a ELSE b
  BY DEF Min, Max

\* Numbers that updates and versions are made of.
LEMMA Numbers ==
    /\ MaxChanges \in Nat \ {0} /\ MinChunk \in Nat \ {0} /\ MaxChunk \in Nat
    /\ MinChunk <= MaxChunk /\ MaxFaults \in Nat
    /\ 0 \in 0..MaxChanges /\ 1..MaxChanges \subseteq 0..MaxChanges
  BY L3Assumption

\* Idle is not busy.
LEMMA IdleIsNotBusy == Idle \notin Busy /\ \A b \in Busy : b # Idle /\ b.pc # "idle" /\ b.upd \in Updates
  BY DEF Idle, Busy

\* What Take does: the router is given up, or its master goes on with a fresh update
\* and the ones behind it.
Given(w, r, now) ==
    /\ masters' = [masters EXCEPT ![r] = NoWorker]
    /\ mqueue' = [mqueue EXCEPT ![r] = <<>>]
    /\ work' = [work EXCEPT ![w] = Idle]
    /\ clock' = now

Goes(w, r, q, i, now) ==
    /\ masters' = [masters EXCEPT ![r] = w]
    /\ mqueue' = [mqueue EXCEPT ![r] = SubSeq(q, i + 1, Len(q))]
    /\ \E b \in Busy :
          /\ work' = [work EXCEPT ![w] = b]
          /\ \/ b.upd = q[i] /\ HasData(q[i]) /\ b.pc # "fetch" /\ clock' = now
             \/ /\ b.pc = "fetch" /\ clock' = now + 1
                /\ b.upd.ts = now + 1 /\ b.upd.id = q[i].id /\ b.upd.ver = q[i].ver

\* An update that is given a later timestamp is an update.
LEMMA Later ==
    ASSUME NEW u \in Updates, NEW t \in Nat
    PROVE  LET f == [u EXCEPT !.ts = t + 1]
           IN  f \in Updates /\ f.ts = t + 1 /\ f.id = u.id /\ f.ver = u.ver
  BY DEF Updates

\* What Take() does: the worker is given the router, or goes to its first fresh update.
LEMMA TakeDoes ==
    ASSUME NEW w \in Workers, NEW r \in Routers, NEW q \in Seq(Updates), NEW stamp \in Nat,
           NEW now \in Nat, Take(w, r, q, stamp, now)
    PROVE  \/ Given(w, r, now)
           \/ \E i \in 1..Len(q) : stamp < q[i].ts /\ Goes(w, r, q, i, now)
<1> DEFINE fresh == {i \in DOMAIN q : stamp < q[i].ts}
           i == Min(fresh)
           u == q[i]
<1>1. CASE fresh = {}
  BY <1>1 DEF Take, Given
<1>2. CASE fresh # {}
  <2>1. i \in fresh
    <3>1. fresh \subseteq Nat
      BY LenProperties
    <3> QED
      BY <1>2, <3>1, MinIsElement
  <2>2. i \in 1..Len(q) /\ u \in Updates /\ stamp < u.ts
    BY <2>1, LenProperties, ElementOfSeq
  <2>3. /\ masters' = [masters EXCEPT ![r] = w]
        /\ mqueue' = [mqueue EXCEPT ![r] = SubSeq(q, i + 1, Len(q))]
        /\ \/ /\ u.action = "delete"
              /\ work' = [work EXCEPT ![w] = [pc |-> "remove", upd |-> u]]
              /\ clock' = now
           \/ /\ u.action = "none" /\ u.data # NoData
              /\ work' = [work EXCEPT ![w] = [pc |-> "process", upd |-> u]]
              /\ clock' = now
           \/ /\ u.action = "none" /\ u.data = NoData
              /\ work' = [work EXCEPT ![w] = [pc |-> "fetch",
                                              upd |-> [u EXCEPT !.ts = now + 1]]]
              /\ clock' = now + 1
    BY <1>2 DEF Take
  <2> HIDE DEF fresh, i
  <2>4. CASE u.action = "delete" \/ u.data # NoData
    <3>1. \E pc \in {"remove", "process"} :
             work' = [work EXCEPT ![w] = [pc |-> pc, upd |-> u]] /\ clock' = now
      BY <2>3, <2>4
    <3>2. PICK pc \in {"remove", "process"} :
             work' = [work EXCEPT ![w] = [pc |-> pc, upd |-> u]] /\ clock' = now
      BY <3>1
    <3>3. [pc |-> pc, upd |-> u] \in Busy
      BY <2>2 DEF Busy
    <3> QED
      BY <2>2, <2>3, <2>4, <3>2, <3>3 DEF Goes, HasData
  <2>5. CASE ~(u.action = "delete" \/ u.data # NoData)
    <3> DEFINE f == [u EXCEPT !.ts = now + 1]
               b == [pc |-> "fetch", upd |-> f]
    <3>1. f \in Updates /\ f.ts = now + 1 /\ f.id = u.id /\ f.ver = u.ver
      BY <2>2, Later
    <3>2. b \in Busy /\ b.pc = "fetch" /\ b.upd = f
      BY <3>1 DEF Busy
    <3>3. work' = [work EXCEPT ![w] = b] /\ clock' = now + 1
      BY <2>3, <2>5
    <3> HIDE DEF f, b
    <3> QED
      BY <2>2, <2>3, <3>1, <3>2, <3>3 DEF Goes
  <2> QED
    BY <2>4, <2>5
<1> QED
  BY <1>1, <1>2
\* Who takes an update of r is its master, or r has none and the worker is free.
Entitled(w, r) ==
    \/ masters[r] = NoWorker /\ work[w] = Idle
    \/ work[w] # Idle /\ work[w].upd.id = r

\* What the steps to the next update of r have in common.
Moved(w, r, q, stamp, now) ==
    /\ masters' \in [Routers -> Workers \cup {NoWorker}]
    /\ mqueue' \in [Routers -> Seq(Updates)]
    /\ work' \in [Workers -> {Idle} \cup Busy]
    /\ clock' \in Nat /\ now <= clock'
    /\ \A s \in Routers \ {r} : masters'[s] = masters[s] /\ mqueue'[s] = mqueue[s]
    /\ \A v \in Workers \ {w} :
          /\ work'[v] = work[v]
          /\ work[v] # Idle => work[v].upd.id \in Routers \ {r}
    /\ \E k \in Nat :
          /\ \A j \in DOMAIN mqueue'[r] : j + k \in DOMAIN q /\ mqueue'[r][j] = q[j + k]
          /\ \/ work'[w] = Idle /\ masters'[r] = NoWorker /\ mqueue'[r] = <<>>
             \/ /\ work'[w] \in Busy /\ masters'[r] = w
                /\ work'[w].upd.id = r /\ stamp < work'[w].upd.ts
                /\ k \in DOMAIN q /\ work'[w].upd.ver = q[k].ver
                /\ work'[w].upd.ts <= clock'
                /\ work'[w].pc # "fetch" => work'[w].upd = q[k] /\ HasData(q[k])

\* The workers other than the one that is entitled to r work on other routers.
LEMMA OthersWorkElsewhere ==
    ASSUME TypeOK, MastersWork, NEW w \in Workers, NEW r \in Routers, Entitled(w, r),
           NEW v \in Workers, v # w, work[v] # Idle
    PROVE  work[v].upd.id \in Routers \ {r}
<1>1. work[v] \in Busy
  BY DEF TypeOK
<1>2. work[v].upd.id \in Routers
  BY <1>1 DEF Busy, Updates
<1>3. masters[work[v].upd.id] = v
  BY DEF MastersWork
<1>4. masters[r] # v
  BY L3Assumption DEF Entitled, MastersWork
<1> QED
  BY <1>2, <1>3, <1>4

\* A worker that takes a router moves between the states that the invariant allows.
LEMMA TakeMoves ==
    ASSUME TypeOK, MastersWork, NEW w \in Workers, NEW r \in Routers, Entitled(w, r),
           NEW stamp \in Nat, NEW now \in Nat, stamp <= now,
           NEW q \in Seq(Updates), \A i \in DOMAIN q : q[i].id = r /\ q[i].ts <= now,
           Take(w, r, q, stamp, now)
    PROVE  Moved(w, r, q, stamp, now)
<1>1. /\ masters \in [Routers -> Workers \cup {NoWorker}]
      /\ mqueue \in [Routers -> Seq(Updates)]
      /\ work \in [Workers -> {Idle} \cup Busy]
  BY DEF TypeOK
<1>2. \A v \in Workers \ {w} : work[v] # Idle => work[v].upd.id \in Routers \ {r}
  BY OthersWorkElsewhere
<1>3. CASE Given(w, r, now)
  <2>1. <<>> \in Seq(Updates) /\ DOMAIN <<>> = {}
    BY EmptySeq
  <2>2. mqueue'[r] = <<>> /\ masters'[r] = NoWorker /\ work'[w] = Idle
    BY <1>1, <1>3 DEF Given
  <2>3. /\ masters' \in [Routers -> Workers \cup {NoWorker}]
        /\ mqueue' \in [Routers -> Seq(Updates)]
        /\ work' \in [Workers -> {Idle} \cup Busy]
        /\ clock' = now
    BY <1>1, <1>3, <2>1 DEF Given
  <2>4. /\ \A s \in Routers \ {r} : masters'[s] = masters[s] /\ mqueue'[s] = mqueue[s]
        /\ \A v \in Workers \ {w} : work'[v] = work[v]
    BY <1>1, <1>3 DEF Given
  <2>5. \A j \in DOMAIN mqueue'[r] : j + 0 \in DOMAIN q /\ mqueue'[r][j] = q[j + 0]
    BY <2>1, <2>2
  <2>6. /\ \A j \in DOMAIN mqueue'[r] : j + 0 \in DOMAIN q /\ mqueue'[r][j] = q[j + 0]
        /\ work'[w] = Idle /\ masters'[r] = NoWorker /\ mqueue'[r] = <<>>
    BY <2>2, <2>5
  <2>7. now <= now /\ 0 \in Nat
    OBVIOUS
  <2> QED
    BY <1>2, <2>3, <2>4, <2>6, <2>7, Zenon DEF Moved
<1>4. CASE \E i \in 1..Len(q) : stamp < q[i].ts /\ Goes(w, r, q, i, now)
  <2>1. PICK i \in 1..Len(q) : stamp < q[i].ts /\ Goes(w, r, q, i, now)
    BY <1>4
  <2>2. PICK b \in Busy :
          /\ work' = [work EXCEPT ![w] = b]
          /\ \/ b.upd = q[i] /\ HasData(q[i]) /\ b.pc # "fetch" /\ clock' = now
             \/ /\ b.pc = "fetch" /\ clock' = now + 1
                /\ b.upd.ts = now + 1 /\ b.upd.id = q[i].id /\ b.upd.ver = q[i].ver
    BY <2>1 DEF Goes
  <2>3. i \in Nat /\ i \in DOMAIN q /\ Len(q) \in Nat /\ DOMAIN q = 1..Len(q)
    BY LenProperties
  <2> DEFINE rest == SubSeq(q, i + 1, Len(q))
  <2>4. rest \in Seq(Updates) /\ \A j \in DOMAIN rest : j + i \in DOMAIN q /\ rest[j] = q[j + i]
    <3>1. /\ rest \in Seq(Updates)
          /\ Len(rest) = IF i + 1 <= Len(q) THEN Len(q) - (i + 1) + 1 ELSE 0
          /\ \A j \in 1..(Len(q) - (i + 1) + 1) : rest[j] = q[(i + 1) + j - 1]
      <4>1. i + 1 \in Int /\ Len(q) \in Int /\ \A j \in (i + 1)..Len(q) : q[j] \in Updates
        BY <2>3, ElementOfSeq
      <4> QED
        BY <4>1, SubSeqProperties
    <3>2. DOMAIN rest = 1..(Len(q) - i)
      BY <2>3, <3>1, LenProperties
    <3>3. ASSUME NEW j \in 1..(Len(q) - i) PROVE j + i \in DOMAIN q /\ rest[j] = q[j + i]
      <4>1. j + i \in DOMAIN q /\ (i + 1) + j - 1 = j + i /\ j \in 1..(Len(q) - (i + 1) + 1)
        BY <2>3
      <4> QED
        BY <3>1, <4>1
    <3> QED
      BY <3>1, <3>2, <3>3
  <2>5. /\ masters' = [masters EXCEPT ![r] = w] /\ mqueue' = [mqueue EXCEPT ![r] = rest]
    BY <2>1 DEF Goes
  <2> HIDE DEF rest
  <2>6. mqueue'[r] = rest /\ masters'[r] = w /\ work'[w] = b
    BY <1>1, <2>2, <2>5
  <2>7. /\ masters' \in [Routers -> Workers \cup {NoWorker}]
        /\ mqueue' \in [Routers -> Seq(Updates)]
        /\ work' \in [Workers -> {Idle} \cup Busy]
        /\ \A s \in Routers \ {r} : masters'[s] = masters[s] /\ mqueue'[s] = mqueue[s]
        /\ \A v \in Workers \ {w} : work'[v] = work[v]
    BY <1>1, <2>2, <2>4, <2>5
  <2>8. /\ clock' \in Nat /\ now <= clock' /\ b.upd.ts <= clock' /\ b.upd.id = r
        /\ stamp < b.upd.ts /\ b.upd.ver = q[i].ver
        /\ b.pc # "fetch" => b.upd = q[i] /\ HasData(q[i])
    BY <2>1, <2>2, <2>3
  <2> QED
    BY <1>2, <2>3, <2>4, <2>6, <2>7, <2>8 DEF Moved
<1> QED
  BY <1>3, <1>4, TakeDoes-----------------------------------------------------------------------------
(* What the invariant says of the parts of the state.                        *)

\* The fields of an update.
LEMMA UpdateFields ==
    \A u \in Updates : /\ u.id \in Routers /\ u.ts \in Nat /\ u.ver \in Nat /\ u.data \in Nat
                       /\ u.prio \in {0, 1} /\ u.action \in {"none", "delete"}
  BY L3Assumption DEF Updates, RPC, SYNC

\* Updates are everywhere.
LEMMA AreUpdates ==
    ASSUME TypeOK
    PROVE  /\ queue \subseteq Updates
           /\ \A r \in Routers : \A i \in DOMAIN mqueue[r] : mqueue[r][i] \in Updates /\ i \in Nat
           /\ \A w \in Workers : work[w] # Idle => work[w] \in Busy /\ work[w].upd \in Updates
<1>1. \A r \in Routers : mqueue[r] \in Seq(Updates)
  BY DEF TypeOK
<1>2. \A r \in Routers : \A i \in DOMAIN mqueue[r] : mqueue[r][i] \in Updates /\ i \in Nat
  BY <1>1, LenProperties, ElementOfSeq
<1>3. \A w \in Workers : work[w] # Idle => work[w] \in Busy
  BY DEF TypeOK
<1> QED
  BY <1>2, <1>3, IdleIsNotBusy DEF TypeOK

\* What StaleIsCovered says of an update of the queue, and of a master's queue.
LEMMA StaleInQueues ==
    StaleIsCovered <=>
        /\ \A u \in queue : u.id \in Routers /\ u.ts <= stamps[u.id] => u.ver <= cfg[u.id]
        /\ \A r \in Routers : \A i \in DOMAIN mqueue[r] :
              mqueue[r][i].ts <= stamps[r] => mqueue[r][i].ver <= cfg[r]
  BY DEF StaleIsCovered

\* The same after a step.
LEMMA StaleInQueuesNext ==
    StaleIsCovered' <=>
        /\ \A u \in queue' : u.id \in Routers /\ u.ts <= stamps'[u.id] => u.ver <= cfg'[u.id]
        /\ \A r \in Routers : \A i \in DOMAIN mqueue'[r] :
              mqueue'[r][i].ts <= stamps'[r] => mqueue'[r][i].ver <= cfg'[r]
  BY DEF StaleIsCovered

\* An update known at a time is known as long as the server does nothing.
KnownAt(u, now) ==
    /\ u.ts <= now
    /\ u.ver <= db[u.id].ver
    /\ \A k \in DOMAIN notes : notes[k].id = u.id => u.ver <= notes[k].ver

\* The worker goes on to the next update of r that is fresh, or there is none: what
\* the queue q of the master and the queue of the agent must satisfy.
LEMMA MoveKeeps ==
    ASSUME L3Inv, NEW w \in Workers, NEW r \in Routers, NEW q \in Seq(Updates),
           NEW now \in Nat, clock <= now, Moved(w, r, q, stamps'[r], now),
           UNCHANGED <<db, notes>>,
           queue' \subseteq Updates, \A v \in queue' : KnownAt(v, now),
           \A v \in queue' \ queue : v.id = r,
           stamps' \in [Routers -> Nat], cfg' \in [Routers -> 0..MaxChanges],
           \A s \in Routers \ {r} : stamps'[s] = stamps[s] /\ cfg'[s] = cfg[s],
           \A i \in DOMAIN q : q[i].id = r /\ KnownAt(q[i], now),
           \A j \in DOMAIN q : HasData(q[j]) =>
               /\ \A v \in queue' : v.id = r => Covers(q[j], v)
               /\ \A i \in DOMAIN q : i > j => Covers(q[j], q[i]),
           \A v \in queue' : v.id = r /\ v.ts <= stamps'[r] => v.ver <= cfg'[r],
           \A i \in DOMAIN q : q[i].ts <= stamps'[r] => q[i].ver <= cfg'[r]
    PROVE  /\ MastersWork' /\ AllKnown' /\ MasterQueueOrdered' /\ WorkOrdered' /\ StaleIsCovered'
<1>1. /\ TypeOK /\ MastersWork /\ AllKnown /\ MasterQueueOrdered /\ WorkOrdered
      /\ StaleIsCovered /\ clock \in Nat
  BY DEF L3Inv, TypeOK
<1>2. /\ queue \subseteq Updates
      /\ \A s \in Routers : \A i \in DOMAIN mqueue[s] : mqueue[s][i] \in Updates /\ i \in Nat
      /\ \A v \in Workers : work[v] # Idle => work[v] \in Busy /\ work[v].upd \in Updates
  BY <1>1, AreUpdates
<1>3. /\ clock' \in Nat /\ now <= clock'
      /\ \A s \in Routers \ {r} : masters'[s] = masters[s] /\ mqueue'[s] = mqueue[s]
      /\ \A v \in Workers \ {w} :
            /\ work'[v] = work[v]
            /\ work[v] # Idle => work[v].upd.id \in Routers \ {r}
  BY DEF Moved
<1>4. PICK k \in Nat :
          /\ \A j \in DOMAIN mqueue'[r] : j + k \in DOMAIN q /\ mqueue'[r][j] = q[j + k]
          /\ \/ work'[w] = Idle /\ masters'[r] = NoWorker /\ mqueue'[r] = <<>>
             \/ /\ work'[w] \in Busy /\ masters'[r] = w
                /\ work'[w].upd.id = r /\ stamps'[r] < work'[w].upd.ts
                /\ k \in DOMAIN q /\ work'[w].upd.ver = q[k].ver
                /\ work'[w].upd.ts <= clock'
                /\ work'[w].pc # "fetch" => work'[w].upd = q[k] /\ HasData(q[k])
  BY DEF Moved
<1>5. \A j \in DOMAIN q : j \in Nat /\ q[j] \in Updates
  BY LenProperties, ElementOfSeq
<1>6. \A j \in DOMAIN mqueue'[r] : j \in Nat /\ mqueue'[r][j] \in Updates
  <2>1. mqueue'[r] \in Seq(Updates)
    BY DEF Moved
  <2> QED
    BY <2>1, LenProperties, ElementOfSeq
<1>7. MastersWork'
  <2>1. ASSUME NEW v \in Workers, work'[v] # Idle PROVE masters'[work'[v].upd.id] = v
    <3>1. CASE v = w
      BY <1>4, <2>1, <3>1
    <3>2. CASE v # w
      <4>1. /\ work'[v] = work[v] /\ masters[work[v].upd.id] = v
            /\ masters'[work[v].upd.id] = masters[work[v].upd.id]
        BY <1>1, <1>3, <2>1, <3>2 DEF MastersWork
      <4> QED
        BY <4>1
    <3> QED
      BY <3>1, <3>2
  <2>2. ASSUME NEW s \in Routers PROVE
           /\ masters'[s] = NoWorker => mqueue'[s] = <<>>
           /\ \A i \in DOMAIN mqueue'[s] : mqueue'[s][i].id = s
    <3>1. CASE s = r
      BY <1>4, <3>1, L3Assumption
    <3>2. CASE s # r
      BY <1>1, <1>3, <3>2 DEF MastersWork
    <3> QED
      BY <3>1, <3>2
  <2> QED
    BY <2>1, <2>2 DEF MastersWork
<1>8. \A u \in Updates : KnownAt(u, now) \/ Known(u) => Known(u)'
  <2> SUFFICES ASSUME NEW u \in Updates, KnownAt(u, now) \/ Known(u) PROVE Known(u)'
    OBVIOUS
  <2>1. u.ts \in Nat
    BY UpdateFields
  <2>2. u.ts <= clock'
    BY <1>1, <1>3, <2>1 DEF KnownAt, Known
  <2> QED
    BY <2>2 DEF KnownAt, Known
<1>9. AllKnown'
  <2>1. \A u \in queue' : Known(u)'
    BY <1>8
  <2>2. ASSUME NEW s \in Routers, NEW i \in DOMAIN mqueue'[s], NEW u, u = mqueue'[s][i]
        PROVE  Known(u)'
    <3>1. CASE s = r
      BY <1>4, <1>5, <1>8, <2>2, <3>1
    <3>2. CASE s # r
      BY <1>1, <1>2, <1>3, <1>8, <2>2, <3>2 DEF AllKnown
    <3> QED
      BY <3>1, <3>2
  <2>3. ASSUME NEW v \in Workers, work'[v] # Idle, NEW u, u = work'[v].upd
        PROVE  Known(u)'
    <3>1. CASE v # w
      BY <1>1, <1>2, <1>3, <1>8, <2>3, <3>1 DEF AllKnown
    <3>2. CASE v = w
      <4>1. KnownAt(q[k], now) /\ q[k].id = r
        BY <1>4, <2>3, <3>2
      <4>2. /\ work'[w].upd.id = r /\ work'[w].upd.ver = q[k].ver /\ work'[w].upd.ts <= clock'
        BY <1>4, <2>3, <3>2
      <4> QED
        BY <2>3, <3>2, <4>1, <4>2 DEF KnownAt, Known
    <3> QED
      BY <3>1, <3>2
  <2> QED
    BY <2>1, <2>2, <2>3 DEF AllKnown, Known
<1>10. MasterQueueOrdered'
  <2> SUFFICES ASSUME NEW s \in Routers, NEW j \in DOMAIN mqueue'[s], HasData(mqueue'[s][j])
               PROVE  /\ \A v \in queue' : v.id = s => Covers(mqueue'[s][j], v)
                      /\ \A i \in DOMAIN mqueue'[s] : i > j => Covers(mqueue'[s][j], mqueue'[s][i])
    BY DEF MasterQueueOrdered, HasData, Covers
  <2>1. CASE s = r
    <3>1. j \in Nat /\ j + k \in DOMAIN q /\ mqueue'[r][j] = q[j + k]
      BY <1>4, <1>6, <2>1
    <3>2. \A i \in DOMAIN mqueue'[r] : i > j => i + k > j + k /\ i + k \in DOMAIN q /\ mqueue'[r][i] = q[i + k]
      BY <1>4, <1>6, <3>1
    <3> QED
      BY <2>1, <3>1, <3>2
  <2>2. CASE s # r
    <3>1. mqueue'[s] = mqueue[s]
      BY <1>3, <2>2
    <3> QED
      BY <1>1, <2>2, <3>1 DEF MasterQueueOrdered
  <2> QED
    BY <2>1, <2>2
<1>11. WorkOrdered'
  <2> SUFFICES ASSUME NEW v \in Workers, work'[v] # Idle
               PROVE  /\ stamps'[work'[v].upd.id] < work'[v].upd.ts
                      /\ work'[v].pc # "fetch" =>
                           /\ \A x \in queue' : x.id = work'[v].upd.id => Covers(work'[v].upd, x)
                           /\ \A i \in DOMAIN mqueue'[work'[v].upd.id] :
                                 Covers(work'[v].upd, mqueue'[work'[v].upd.id][i])
    BY DEF WorkOrdered, Covers
  <2>1. CASE v = w
    <3>1. /\ work'[w].upd.id = r /\ stamps'[r] < work'[w].upd.ts /\ k \in DOMAIN q
          /\ work'[w].pc # "fetch" => work'[w].upd = q[k] /\ HasData(q[k])
      BY <1>4, <2>1
    <3>2. \A i \in DOMAIN mqueue'[r] : i + k \in DOMAIN q /\ i + k > k /\ mqueue'[r][i] = q[i + k]
      <4>1. \A i \in DOMAIN mqueue'[r] : i \in Nat \ {0}
        <5>1. mqueue'[r] \in Seq(Updates)
          BY DEF Moved
        <5> QED
          BY <5>1, LenProperties
      <4> QED
        BY <1>4, <4>1
    <3> QED
      BY <2>1, <3>1, <3>2
  <2>2. CASE v # w
    <3> DEFINE s == work[v].upd.id
    <3>1. work'[v] = work[v] /\ s \in Routers \ {r}
      BY <1>3, <2>2
    <3>2. mqueue'[s] = mqueue[s] /\ stamps'[s] = stamps[s] /\ \A x \in queue' : x.id = s => x \in queue
      BY <1>3, <3>1
    <3> QED
      BY <1>1, <3>1, <3>2 DEF WorkOrdered
  <2> QED
    BY <2>1, <2>2
<1>12. StaleIsCovered'
  <2>1. ASSUME NEW u \in queue', u.id \in Routers, u.ts <= stamps'[u.id] PROVE u.ver <= cfg'[u.id]
    <3>1. CASE u.id = r
      BY <2>1, <3>1
    <3>2. CASE u.id # r
      BY <1>1, <2>1, <3>2, StaleInQueues
    <3> QED
      BY <3>1, <3>2
  <2>2. ASSUME NEW s \in Routers, NEW i \in DOMAIN mqueue'[s], mqueue'[s][i].ts <= stamps'[s]
        PROVE  mqueue'[s][i].ver <= cfg'[s]
    <3>1. CASE s = r
      BY <1>4, <2>2, <3>1
    <3>2. CASE s # r
      BY <1>1, <1>3, <2>2, <3>2, StaleInQueues
    <3> QED
      BY <3>1, <3>2
  <2> QED
    BY <2>1, <2>2, StaleInQueuesNext
<1> QED
  BY <1>7, <1>9, <1>10, <1>11, <1>12

\* When a worker moves, what is left to show is what its action says of the rest.
LEMMA MoveIsWhole ==
    ASSUME L3Inv, NEW w \in Workers, NEW r \in Routers, NEW q, NEW stamp, NEW now \in Nat,
           clock <= now, Moved(w, r, q, stamp, now),
           UNCHANGED <<server, notes, syncing>>,
           routerInfo' \subseteq Routers, ns' \subseteq Routers, faults' \in 0..MaxFaults,
           queue' \subseteq Updates, QueueOrdered', SyncCovers',
           stamps' \in [Routers -> Nat], \A s \in Routers : stamps'[s] <= now,
           cfg' \in [Routers -> 0..MaxChanges],
           MastersWork', AllKnown', MasterQueueOrdered', WorkOrdered', StaleIsCovered'
    PROVE  L3Inv'
<1>1. TypeOK /\ NotesOrdered /\ StampsArePast
  BY DEF L3Inv
<1>2. /\ masters' \in [Routers -> Workers \cup {NoWorker}]
      /\ mqueue' \in [Routers -> Seq(Updates)]
      /\ work' \in [Workers -> {Idle} \cup Busy]
      /\ clock' \in Nat /\ now <= clock'
  BY DEF Moved
<1>3. /\ db' = db /\ changes' = changes /\ alive' = alive /\ revived' = revived /\ notes' = notes /\ sync' = sync
      /\ fullsync' = fullsync /\ cleanStale' = cleanStale /\ requested' = requested
      /\ chunk' = chunk
  BY DEF server, syncing
<1>4. TypeOK'
  BY <1>1, <1>2, <1>3 DEF TypeOK
<1>5. NotesOrdered'
  BY <1>1, <1>3 DEF NotesOrdered
<1>6. StampsArePast'
  <2>1. sync.ts \in Nat /\ clock \in Nat
    BY <1>1 DEF TypeOK, Syncs
  <2>2. sync'.ts <= clock'
    BY <1>1, <1>2, <1>3, <2>1 DEF StampsArePast
  <2>3. \A s \in Routers : stamps'[s] <= clock'
    BY <1>2
  <2> QED
    BY <2>2, <2>3 DEF StampsArePast
<1> QED
  BY <1>4, <1>5, <1>6 DEF L3Inv

\* Nothing is lost from the order when updates leave the queue.
LEMMA SmallerQueue ==
    ASSUME L3Inv, queue' \subseteq queue, sync' = sync
    PROVE  QueueOrdered' /\ SyncCovers'
<1>1. QueueOrdered /\ SyncCovers
  BY DEF L3Inv
<1>2. QueueOrdered'
  BY <1>1 DEF QueueOrdered
<1>3. SyncCovers'
  BY <1>1 DEF SyncCovers
<1> QED
  BY <1>2, <1>3

\* The data of the first update of the queue take in what the others announce.
LEMMA FirstCovers ==
    ASSUME L3Inv, NEW u \in queue, \A v \in queue : ~Precedes(v, u), HasData(u),
           NEW v \in queue \ {u}, v.id = u.id
    PROVE  Covers(u, v)
  BY DEF L3Inv, QueueOrdered

\* A worker takes the first update of the queue.
LEMMA TakesFirst ==
    ASSUME L3Inv, NEW w \in Workers, work[w] = Idle, NEW u \in queue,
           \A v \in queue : ~Precedes(v, u), queue' = queue \ {u},
           masters[u.id] = NoWorker, Take(w, u.id, <<u>>, stamps[u.id], clock),
           UNCHANGED <<server, notes, stamps, routerInfo, ns, cfg, syncing, faults>>
    PROVE  L3Inv'
<1> DEFINE r == u.id
           q == <<u>>
<1>1. /\ TypeOK /\ MastersWork /\ AllKnown /\ StampsArePast /\ StaleIsCovered
      /\ clock \in Nat /\ stamps \in [Routers -> Nat] /\ cfg \in [Routers -> 0..MaxChanges]
  BY DEF L3Inv, TypeOK
<1>2. u \in Updates /\ r \in Routers /\ queue \subseteq Updates
  BY <1>1, UpdateFields DEF TypeOK
<1>3. q \in Seq(Updates) /\ DOMAIN q = {1} /\ q[1] = u
  BY <1>2
<1>4. Known(u) /\ \A v \in queue : Known(v)
  BY <1>1 DEF AllKnown
<1>5. \A v \in queue : KnownAt(v, clock)
  BY <1>4 DEF Known, KnownAt
<1> HIDE DEF q
<1>6. stamps[r] \in Nat /\ stamps[r] <= clock /\ \A i \in DOMAIN q : q[i].id = r /\ q[i].ts <= clock
  BY <1>1, <1>2, <1>3, <1>4 DEF StampsArePast, Known
<1>7. Entitled(w, r)
  BY DEF Entitled
<1>8. Take(w, r, q, stamps[r], clock)
  BY DEF q
<1> HIDE DEF r
<1>9. Moved(w, r, q, stamps[r], clock)
  BY <1>1, <1>2, <1>3, <1>6, <1>7, <1>8, TakeMoves
<1>10. stamps' = stamps /\ cfg' = cfg /\ db' = db /\ notes' = notes /\ sync' = sync
  BY DEF server, syncing
<1>11. \A i \in DOMAIN q : q[i].id = r /\ KnownAt(q[i], clock)
  BY <1>3, <1>5 DEF r
<1>12. \A j \in DOMAIN q : HasData(q[j]) =>
          /\ \A v \in queue' : v.id = r => Covers(q[j], v)
          /\ \A i \in DOMAIN q : i > j => Covers(q[j], q[i])
  BY <1>3, FirstCovers DEF r
<1>13. /\ \A v \in queue' : v.id = r /\ v.ts <= stamps'[r] => v.ver <= cfg'[r]
       /\ \A i \in DOMAIN q : q[i].ts <= stamps'[r] => q[i].ver <= cfg'[r]
  BY <1>1, <1>2, <1>3, <1>10, StaleInQueues DEF r
<1>14. /\ queue' \subseteq Updates /\ \A v \in queue' : KnownAt(v, clock)
       /\ \A v \in queue' \ queue : v.id = r
       /\ stamps' \in [Routers -> Nat] /\ cfg' \in [Routers -> 0..MaxChanges]
       /\ \A s \in Routers \ {r} : stamps'[s] = stamps[s] /\ cfg'[s] = cfg[s]
       /\ \A s \in Routers : stamps'[s] <= clock /\ clock <= clock
  BY <1>1, <1>2, <1>5, <1>10 DEF StampsArePast
<1>15. MastersWork' /\ AllKnown' /\ MasterQueueOrdered' /\ WorkOrdered' /\ StaleIsCovered'
  BY <1>1, <1>2, <1>3, <1>9, <1>10, <1>11, <1>12, <1>13, <1>14, MoveKeeps
<1>16. QueueOrdered' /\ SyncCovers'
  BY <1>10, SmallerQueue
<1>17. routerInfo' \subseteq Routers /\ ns' \subseteq Routers /\ faults' \in 0..MaxFaults
  BY <1>1 DEF TypeOK
<1> QED
  BY <1>1, <1>2, <1>9, <1>14, <1>15, <1>16, <1>17, MoveIsWhole
\* A worker hands the first update of the queue to the master of its router.
LEMMA HandsOver ==
    ASSUME L3Inv, NEW w \in Workers, NEW u \in queue,
           \A v \in queue : ~Precedes(v, u), queue' = queue \ {u},
           masters[u.id] # NoWorker, mqueue' = [mqueue EXCEPT ![u.id] = Append(@, u)],
           UNCHANGED <<masters, work, clock>>,
           UNCHANGED <<server, notes, stamps, routerInfo, ns, cfg, syncing, faults>>
    PROVE  L3Inv'
<1> DEFINE r == u.id
           q == Append(mqueue[r], u)
<1>1. /\ TypeOK /\ MastersWork /\ AllKnown /\ NotesOrdered /\ StampsArePast
      /\ MasterQueueOrdered /\ WorkOrdered /\ StaleIsCovered
      /\ mqueue \in [Routers -> Seq(Updates)]
  BY DEF L3Inv, TypeOK
<1>2. u \in Updates /\ r \in Routers /\ queue \subseteq Updates
  BY <1>1, UpdateFields DEF TypeOK
<1>3. /\ db' = db /\ changes' = changes /\ alive' = alive /\ revived' = revived /\ notes' = notes /\ sync' = sync
      /\ fullsync' = fullsync /\ cleanStale' = cleanStale /\ requested' = requested
      /\ chunk' = chunk
  BY DEF server, syncing
<1>4. mqueue[r] \in Seq(Updates)
  BY <1>1, <1>2
<1> DEFINE n == Len(mqueue[r])
<1>5. /\ q \in Seq(Updates) /\ n \in Nat /\ DOMAIN mqueue[r] = 1..n /\ DOMAIN q = 1..(n + 1)
      /\ q[n + 1] = u /\ \A i \in 1..n : q[i] = mqueue[r][i]
  BY <1>2, <1>4, AppendProperties, LenProperties
<1>6. mqueue' = [mqueue EXCEPT ![r] = q]
  BY <1>1, <1>2
<1> HIDE DEF q, r, n
<1>7. ASSUME NEW i \in DOMAIN q
      PROVE  q[i] = u \/ (i \in DOMAIN mqueue[r] /\ q[i] = mqueue[r][i])
  <2>1. i = n + 1 \/ i \in 1..n
    BY <1>5
  <2> QED
    BY <1>5, <2>1
<1>8. mqueue'[r] = q /\ \A s \in Routers \ {r} : mqueue'[s] = mqueue[s]
  BY <1>1, <1>2, <1>6
<1>9. TypeOK'
  <2>1. mqueue' \in [Routers -> Seq(Updates)] /\ queue' \subseteq Updates
    BY <1>1, <1>2, <1>5, <1>6
  <2> QED
    BY <1>1, <1>3, <2>1 DEF TypeOK
<1>10. MastersWork'
  <2>1. \A s \in Routers : masters'[s] = NoWorker => mqueue'[s] = <<>>
    BY <1>1, <1>8 DEF MastersWork, r
  <2>2. ASSUME NEW s \in Routers, NEW i \in DOMAIN mqueue'[s] PROVE mqueue'[s][i].id = s
    BY <1>1, <1>2, <1>7, <1>8 DEF MastersWork, r
  <2> QED
    BY <1>1, <2>1, <2>2 DEF MastersWork
<1>11. AllKnown'
  <2>1. \A x : Known(x) => Known(x)'
    BY <1>3 DEF Known
  <2>2. \A s \in Routers : \A i \in DOMAIN mqueue'[s] : Known(mqueue'[s][i])
    BY <1>1, <1>7, <1>8 DEF AllKnown
  <2>3. ASSUME NEW s \in Routers, NEW i \in DOMAIN mqueue'[s], NEW x, x = mqueue'[s][i]
        PROVE  Known(x)'
    BY <2>1, <2>2, <2>3
  <2>4. (\A x \in queue' : Known(x)') /\ \A v \in Workers : work[v] # Idle => Known(work[v].upd)
    BY <1>1, <2>1 DEF AllKnown
  <2>5. ASSUME NEW v \in Workers, work'[v] # Idle, NEW x, x = work'[v].upd PROVE Known(x)'
    BY <2>1, <2>4, <2>5
  <2> QED
    BY <2>3, <2>4, <2>5 DEF AllKnown, Known
<1>12. NotesOrdered' /\ StampsArePast'
  BY <1>1, <1>3 DEF NotesOrdered, StampsArePast
<1>13. QueueOrdered' /\ SyncCovers'
  BY <1>3, SmallerQueue
<1>14. MasterQueueOrdered'
  <2> SUFFICES ASSUME NEW s \in Routers, NEW j \in DOMAIN mqueue'[s], HasData(mqueue'[s][j])
               PROVE  /\ \A v \in queue' : v.id = s => Covers(mqueue'[s][j], v)
                      /\ \A i \in DOMAIN mqueue'[s] : i > j => Covers(mqueue'[s][j], mqueue'[s][i])
    BY DEF MasterQueueOrdered, HasData, Covers
  <2>1. CASE s # r
    BY <1>1, <1>8, <2>1 DEF MasterQueueOrdered
  <2>2. CASE s = r /\ j = n + 1
    <3>1. \A i \in DOMAIN q : ~(i > j)
      BY <1>5, <2>2
    <3>2. q[j] = u
      BY <1>5, <2>2
    <3> QED
      BY <1>8, <2>2, <3>1, <3>2, FirstCovers DEF r
  <2>3. CASE s = r /\ j # n + 1
    <3>1. j \in DOMAIN mqueue[r] /\ q[j] = mqueue[r][j]
      BY <1>5, <1>8, <2>3
    <3>2. /\ \A v \in queue : v.id = r => Covers(q[j], v)
          /\ \A i \in DOMAIN mqueue[r] : i > j => Covers(q[j], mqueue[r][i])
      BY <1>1, <1>2, <1>8, <2>3, <3>1 DEF MasterQueueOrdered
    <3> QED
      BY <1>7, <1>8, <2>3, <3>2 DEF r
  <2> QED
    BY <2>1, <2>2, <2>3
<1>15. WorkOrdered'
  <2> SUFFICES ASSUME NEW v \in Workers, work[v] # Idle
               PROVE  /\ stamps[work[v].upd.id] < work[v].upd.ts
                      /\ work[v].pc # "fetch" =>
                           /\ \A x \in queue' : x.id = work[v].upd.id => Covers(work[v].upd, x)
                           /\ \A i \in DOMAIN mqueue'[work[v].upd.id] :
                                 Covers(work[v].upd, mqueue'[work[v].upd.id][i])
    BY DEF WorkOrdered, Covers
  <2>1. work[v].upd.id \in Routers
    BY <1>1, AreUpdates, UpdateFields
  <2>2. CASE work[v].upd.id = r
    <3>1. /\ stamps[work[v].upd.id] < work[v].upd.ts
          /\ work[v].pc # "fetch" =>
               /\ \A x \in queue : x.id = r => Covers(work[v].upd, x)
               /\ \A i \in DOMAIN mqueue[r] : Covers(work[v].upd, mqueue[r][i])
      BY <1>1, <2>2 DEF WorkOrdered
    <3>2. u.id = r
      BY DEF r
    <3> QED
      BY <1>7, <1>8, <2>2, <3>1, <3>2
  <2>3. CASE work[v].upd.id # r
    BY <1>1, <1>8, <2>1, <2>3 DEF WorkOrdered
  <2> QED
    BY <2>2, <2>3
<1>16. StaleIsCovered'
  <2>1. \A x \in queue' : x.id \in Routers /\ x.ts <= stamps'[x.id] => x.ver <= cfg'[x.id]
    BY <1>1, StaleInQueues
  <2>2. ASSUME NEW s \in Routers, NEW i \in DOMAIN mqueue'[s], mqueue'[s][i].ts <= stamps'[s]
        PROVE  mqueue'[s][i].ver <= cfg'[s]
    <3>1. u.ts <= stamps[r] => u.ver <= cfg[r]
      BY <1>1, <1>2, StaleInQueues DEF r
    <3>2. CASE s = r
      BY <1>1, <1>7, <1>8, <2>2, <3>1, <3>2, StaleInQueues
    <3>3. CASE s # r
      BY <1>1, <1>8, <2>2, <3>3, StaleInQueues
    <3> QED
      BY <3>2, <3>3
  <2> QED
    BY <2>1, <2>2, StaleInQueuesNext
<1> QED
  BY <1>9, <1>10, <1>11, <1>12, <1>13, <1>14, <1>15, <1>16 DEF L3Inv

\* each_update_to_next_router() gives an update to a worker or to the master of its router.
LEMMA EachUpdateKeeps ==
    ASSUME L3Inv, NEW w \in Workers, EachUpdateToNextRouter(w)
    PROVE  L3Inv'
<1>1. PICK u \in queue :
        /\ \A v \in queue : ~Precedes(v, u)
        /\ queue' = queue \ {u}
        /\ \/ /\ masters[u.id] = NoWorker
              /\ Take(w, u.id, <<u>>, stamps[u.id], clock)
           \/ /\ masters[u.id] # NoWorker
              /\ mqueue' = [mqueue EXCEPT ![u.id] = Append(@, u)]
              /\ UNCHANGED <<masters, work, clock>>
  BY DEF EachUpdateToNextRouter
<1>2. /\ work[w] = Idle
      /\ UNCHANGED <<server, notes, stamps, routerInfo, ns, cfg, syncing, faults>>
  BY DEF EachUpdateToNextRouter
<1> QED
  BY <1>1, <1>2, TakesFirst, HandsOver
\* What a busy worker knows.
LEMMA BusyWorker ==
    ASSUME L3Inv, NEW w \in Workers, work[w] # Idle
    PROVE  LET u == work[w].upd
           IN  /\ work[w] \in Busy /\ u \in Updates /\ u.id \in Routers /\ Known(u)
               /\ u.ts \in Nat /\ u.ts <= clock /\ stamps[u.id] \in Nat /\ stamps[u.id] < u.ts
               /\ Entitled(w, u.id) /\ mqueue[u.id] \in Seq(Updates)
               /\ \A i \in DOMAIN mqueue[u.id] :
                     mqueue[u.id][i].id = u.id /\ Known(mqueue[u.id][i])
<1>1. TypeOK /\ MastersWork /\ AllKnown /\ WorkOrdered
  BY DEF L3Inv
<1>2. work[w] \in Busy /\ work[w].upd \in Updates
  BY <1>1, AreUpdates
<1>3. work[w].upd.id \in Routers /\ work[w].upd.ts \in Nat
  BY <1>2, UpdateFields
<1>4. Known(work[w].upd) /\ work[w].upd.ts <= clock
  BY <1>1 DEF AllKnown, Known
<1>5. stamps[work[w].upd.id] \in Nat /\ stamps[work[w].upd.id] < work[w].upd.ts
  BY <1>1, <1>3 DEF WorkOrdered, TypeOK
<1>6. mqueue[work[w].upd.id] \in Seq(Updates)
  BY <1>1, <1>3 DEF TypeOK
<1>7. \A i \in DOMAIN mqueue[work[w].upd.id] :
         mqueue[work[w].upd.id][i].id = work[w].upd.id /\ Known(mqueue[work[w].upd.id][i])
  BY <1>1, <1>3 DEF AllKnown, MastersWork
<1> QED
  BY <1>2, <1>3, <1>4, <1>5, <1>6, <1>7 DEF Entitled

\* What a worker has finished processing takes in the stale updates of the router.
LEMMA ProcessedKeeps ==
    ASSUME L3Inv, NEW w \in Workers, work[w] # Idle, work[w].pc # "fetch", Processed(w),
           UNCHANGED <<server, notes, syncing>>,
           routerInfo' \subseteq Routers, ns' \subseteq Routers, faults' \in 0..MaxFaults
    PROVE  L3Inv'
<1> DEFINE u == work[w].upd
           r == u.id
           q == mqueue[r]
<1>1. /\ TypeOK /\ MastersWork /\ AllKnown /\ StampsArePast /\ MasterQueueOrdered /\ WorkOrdered
      /\ StaleIsCovered /\ clock \in Nat /\ stamps \in [Routers -> Nat]
      /\ cfg \in [Routers -> 0..MaxChanges] /\ queue \subseteq Updates
  BY DEF L3Inv, TypeOK
<1>2. /\ u \in Updates /\ r \in Routers /\ u.ts \in Nat /\ u.ts <= clock
      /\ stamps[r] \in Nat /\ stamps[r] < u.ts
      /\ Entitled(w, r) /\ q \in Seq(Updates)
      /\ \A i \in DOMAIN q : q[i].id = r /\ Known(q[i])
  BY BusyWorker
<1>3. Max({u.ts, stamps[r]}) = u.ts
  <2> DEFINE a == u.ts
             b == stamps[r]
  <2>1. a \in Nat /\ b \in Nat /\ b < a
    BY <1>2
  <2> HIDE DEF a, b
  <2>2. Max({a, b}) = IF a >= b THEN a ELSE b
    BY <2>1, MinMaxOfTwo
  <2>3. Max({a, b}) = a
    BY <2>1, <2>2
  <2> QED
    BY <2>3 DEF a, b
<1>4. /\ stamps' = [stamps EXCEPT ![r] = u.ts] /\ cfg' = [cfg EXCEPT ![r] = u.data]
      /\ Take(w, r, q, u.ts, clock) /\ queue' = queue
  BY <1>3 DEF Processed
<1>5. /\ \A v \in queue : v.id = r => Covers(u, v)
      /\ \A i \in DOMAIN q : Covers(u, q[i])
  BY <1>1 DEF WorkOrdered
<1>6. u.data \in 0..MaxChanges
  BY <1>2 DEF Updates
<1> HIDE DEF u, r, q
<1>7. /\ stamps' \in [Routers -> Nat] /\ cfg' \in [Routers -> 0..MaxChanges]
      /\ stamps'[r] = u.ts /\ cfg'[r] = u.data
      /\ \A s \in Routers \ {r} : stamps'[s] = stamps[s] /\ cfg'[s] = cfg[s]
  <2>1. /\ stamps' \in [Routers -> Nat] /\ stamps'[r] = u.ts
        /\ \A s \in Routers \ {r} : stamps'[s] = stamps[s]
    BY <1>1, <1>2, <1>4
  <2>2. /\ cfg' \in [Routers -> 0..MaxChanges] /\ cfg'[r] = u.data
        /\ \A s \in Routers \ {r} : cfg'[s] = cfg[s]
    BY <1>1, <1>2, <1>4, <1>6
  <2> QED
    BY <2>1, <2>2
<1>8. /\ \A i \in DOMAIN q : q[i].id = r /\ q[i].ts <= clock /\ KnownAt(q[i], clock)
      /\ \A v \in queue' : KnownAt(v, clock)
  BY <1>1, <1>2, <1>4 DEF AllKnown, Known, KnownAt
<1>9. Moved(w, r, q, u.ts, clock)
  BY <1>1, <1>2, <1>4, <1>8, TakeMoves
<1>10. \A j \in DOMAIN q : HasData(q[j]) =>
          /\ \A v \in queue' : v.id = r => Covers(q[j], v)
          /\ \A i \in DOMAIN q : i > j => Covers(q[j], q[i])
  BY <1>1, <1>2, <1>4 DEF MasterQueueOrdered, q
<1>11. /\ \A v \in queue' : v.id = r /\ v.ts <= stamps'[r] => v.ver <= cfg'[r]
       /\ \A i \in DOMAIN q : q[i].ts <= stamps'[r] => q[i].ver <= cfg'[r]
  BY <1>4, <1>5, <1>7 DEF Covers
<1>12. /\ queue' \subseteq Updates /\ \A v \in queue' \ queue : v.id = r
       /\ db' = db /\ notes' = notes /\ sync' = sync /\ clock <= clock /\ queue' \subseteq queue
  BY <1>1, <1>4 DEF server, syncing
<1>13. \A s \in Routers : stamps'[s] <= clock
  BY <1>1, <1>2, <1>7 DEF StampsArePast
<1>14. MastersWork' /\ AllKnown' /\ MasterQueueOrdered' /\ WorkOrdered' /\ StaleIsCovered'
  BY <1>1, <1>2, <1>7, <1>8, <1>9, <1>10, <1>11, <1>12, MoveKeeps
<1>15. QueueOrdered' /\ SyncCovers'
  BY <1>12, SmallerQueue
<1> QED
  BY <1>1, <1>2, <1>7, <1>9, <1>12, <1>13, <1>14, <1>15, MoveIsWhole

\* A newer update than all others joins the queue.
LEMMA NewestJoins ==
    ASSUME L3Inv, NEW x \in Updates, x.ts = clock + 1, queue' = queue \cup {x}, sync' = sync,
           HasData(x) => \A v \in queue : v.id = x.id => Covers(x, v) \/ Precedes(v, x)
    PROVE  QueueOrdered' /\ SyncCovers'
<1>1. TypeOK /\ AllKnown /\ StampsArePast /\ QueueOrdered /\ SyncCovers /\ clock \in Nat
  BY DEF L3Inv, TypeOK
<1>2. \A v \in queue : v.ts \in Nat /\ v.ts <= clock /\ ~(x.ts <= v.ts)
  BY <1>1, AreUpdates, UpdateFields DEF AllKnown, Known
<1>3. QueueOrdered'
  BY <1>1, <1>2 DEF QueueOrdered, Covers
<1>4. ~(x.ts <= sync.ts)
  BY <1>1 DEF StampsArePast, TypeOK, Syncs
<1>5. SyncCovers'
  BY <1>1, <1>4 DEF SyncCovers
<1> QED
  BY <1>3, <1>5

\* An update that _resync_router() puts back has its router and version, and is newer.
LEMMA Requeued ==
    ASSUME NEW u \in Updates, NEW t \in Nat
    PROVE  LET x == [u EXCEPT !.prio = SYNC, !.ts = t + 1,
                              !.data = IF u.action = "delete" THEN @ ELSE NoData]
           IN  /\ x \in Updates /\ x.ts = t + 1 /\ x.id = u.id /\ x.ver = u.ver
               /\ x.prio = SYNC
<1>1. t + 1 \in Nat /\ NoData \in 0..MaxChanges
  BY L3Assumption DEF NoData
<1> DEFINE d == IF u.action = "delete" THEN u.data ELSE NoData
<1>2. d \in 0..MaxChanges
  BY <1>1 DEF Updates
<1> HIDE DEF d
<1>3. LET x == [u EXCEPT !.prio = SYNC, !.ts = t + 1, !.data = d]
      IN  /\ x \in Updates /\ x.ts = t + 1 /\ x.id = u.id /\ x.ver = u.ver
          /\ x.prio = SYNC
  BY <1>1, <1>2 DEF Updates
<1> QED
  BY <1>3 DEF d

\* The update goes back to the queue, newer than all others, and behind them.
LEMMA ResyncKeeps ==
    ASSUME L3Inv, NEW w \in Workers, ResyncRouter(w)
    PROVE  L3Inv'
<1> DEFINE u == work[w].upd
           r == u.id
           q == mqueue[r]
           x == [u EXCEPT !.prio = SYNC, !.ts = clock + 1,
                          !.data = IF u.action = "delete" THEN @ ELSE NoData]
<1>1. /\ TypeOK /\ MastersWork /\ AllKnown /\ StampsArePast /\ MasterQueueOrdered
      /\ StaleIsCovered /\ clock \in Nat /\ stamps \in [Routers -> Nat]
      /\ cfg \in [Routers -> 0..MaxChanges] /\ queue \subseteq Updates
  BY DEF L3Inv, TypeOK
<1>2. work[w] # Idle
  BY DEF ResyncRouter, At, Idle
<1>3. /\ u \in Updates /\ r \in Routers /\ u.ts \in Nat /\ u.ts <= clock /\ Known(u)
      /\ stamps[r] \in Nat /\ stamps[r] < u.ts
      /\ Entitled(w, r) /\ q \in Seq(Updates)
      /\ \A i \in DOMAIN q : q[i].id = r /\ Known(q[i])
  BY <1>2, BusyWorker
<1>4. /\ queue' = queue \cup {x} /\ Take(w, r, q, stamps[r], clock + 1)
      /\ UNCHANGED <<server, notes, stamps, routerInfo, ns, cfg, syncing>>
      /\ faults' \in 0..MaxFaults
  BY <1>1, L3Assumption DEF ResyncRouter, Fault, TypeOK
<1>5. /\ x \in Updates /\ x.ts = clock + 1 /\ x.id = r /\ x.ver = u.ver /\ x.prio = SYNC
  <2> HIDE DEF u
  <2> QED
    BY <1>1, <1>3, Requeued, Zenon DEF r
<1> HIDE DEF u, r, q, x
<1>6. clock + 1 \in Nat /\ clock <= clock + 1 /\ stamps[r] <= clock + 1
  BY <1>1, <1>3
<1>7. \A v \in Updates : Known(v) => KnownAt(v, clock + 1) /\ v.ts <= clock /\ ~(x.ts <= v.ts)
  BY <1>1, <1>5, UpdateFields DEF Known, KnownAt
<1>8. \A i \in DOMAIN q : q[i] \in Updates
  BY <1>3, ElementOfSeq, LenProperties
<1>9. /\ \A i \in DOMAIN q : q[i].id = r /\ q[i].ts <= clock + 1 /\ KnownAt(q[i], clock + 1)
  BY <1>3, <1>7, <1>8 DEF KnownAt
<1>10. KnownAt(x, clock + 1)
  <2>1. x.ts <= clock + 1
    BY <1>5, <1>6
  <2>2. KnownAt(u, clock + 1) /\ u.id = r
    BY <1>3, <1>7 DEF r
  <2> QED
    BY <1>5, <2>1, <2>2 DEF KnownAt
<1>11. \A v \in queue' : KnownAt(v, clock + 1)
  BY <1>1, <1>4, <1>7, <1>10 DEF AllKnown
<1>12. Moved(w, r, q, stamps[r], clock + 1)
  BY <1>1, <1>3, <1>4, <1>6, <1>9, TakeMoves
<1>13. /\ db' = db /\ notes' = notes /\ sync' = sync /\ stamps' = stamps /\ cfg' = cfg
  BY <1>4 DEF server, syncing
<1>14. \A j \in DOMAIN q : HasData(q[j]) =>
          /\ \A v \in queue' : v.id = r => Covers(q[j], v)
          /\ \A i \in DOMAIN q : i > j => Covers(q[j], q[i])
  <2>1. \A j \in DOMAIN q : Covers(q[j], x)
    BY <1>3, <1>7, <1>8 DEF Covers
  <2> QED
    BY <1>1, <1>3, <1>4, <2>1 DEF MasterQueueOrdered, q
<1>15. /\ \A v \in queue' : v.id = r /\ v.ts <= stamps'[r] => v.ver <= cfg'[r]
       /\ \A i \in DOMAIN q : q[i].ts <= stamps'[r] => q[i].ver <= cfg'[r]
  <2>1. ~(x.ts <= stamps[r])
    BY <1>1, <1>3, <1>5
  <2> QED
    BY <1>1, <1>3, <1>4, <1>13, <2>1, StaleInQueues DEF q
<1>16. /\ queue' \subseteq Updates /\ \A v \in queue' \ queue : v.id = r
  BY <1>1, <1>4, <1>5
<1>17. \A s \in Routers : stamps'[s] <= clock + 1
  BY <1>1, <1>13 DEF StampsArePast
<1>18. MastersWork' /\ AllKnown' /\ MasterQueueOrdered' /\ WorkOrdered' /\ StaleIsCovered'
  <2>1. \A s \in Routers \ {r} : stamps'[s] = stamps[s] /\ cfg'[s] = cfg[s]
    BY <1>13
  <2>2. stamps' \in [Routers -> Nat] /\ cfg' \in [Routers -> 0..MaxChanges]
    BY <1>1, <1>13
  <2>3. Moved(w, r, q, stamps'[r], clock + 1) /\ UNCHANGED <<db, notes>>
    BY <1>12, <1>13
  <2> QED
    BY <1>3, <1>6, <1>9, <1>11, <1>14, <1>15, <1>16, <2>1, <2>2, <2>3, MoveKeeps
<1>19. QueueOrdered' /\ SyncCovers'
  <2>1. \A v \in queue : Precedes(v, x)
    <3> SUFFICES ASSUME NEW v \in queue PROVE Precedes(v, x)
      OBVIOUS
    <3>1. v.prio \in {0, 1} /\ v.ts \in Nat /\ v.ts <= clock
      BY <1>1, UpdateFields DEF AllKnown, Known
    <3> QED
      BY <1>1, <1>5, <3>1 DEF Precedes, SYNC
  <2> QED
    BY <1>4, <1>5, <1>13, <2>1, NewestJoins
<1>20. routerInfo' \subseteq Routers /\ ns' \subseteq Routers
  BY <1>1, <1>4 DEF TypeOK
<1>21. stamps' \in [Routers -> Nat] /\ cfg' \in [Routers -> 0..MaxChanges]
  BY <1>1, <1>13
<1> QED
  BY <1>3, <1>4, <1>6, <1>12, <1>16, <1>17, <1>18, <1>19, <1>20, <1>21, MoveIsWhole
\* A worker goes on with its update, whose data take in what is queued.
LEMMA WorkGoesOn ==
    ASSUME L3Inv, NEW w \in Workers, work[w] # Idle,
           NEW b \in Busy, work' = [work EXCEPT ![w] = b], b.pc # "fetch",
           b.upd.id = work[w].upd.id, b.upd.ts = work[w].upd.ts, b.upd.ver = work[w].upd.ver,
           \A v \in queue : v.id = work[w].upd.id => Covers(b.upd, v),
           \A i \in DOMAIN mqueue[work[w].upd.id] : Covers(b.upd, mqueue[work[w].upd.id][i]),
           UNCHANGED <<server, notes, clock, queue, masters, mqueue, stamps, cfg, syncing, faults>>,
           routerInfo' \subseteq Routers, ns' \subseteq Routers
    PROVE  L3Inv'
<1>1. /\ TypeOK /\ MastersWork /\ AllKnown /\ NotesOrdered /\ StampsArePast
      /\ MasterQueueOrdered /\ WorkOrdered /\ StaleIsCovered /\ QueueOrdered /\ SyncCovers
      /\ work \in [Workers -> {Idle} \cup Busy]
  BY DEF L3Inv, TypeOK
<1>2. /\ db' = db /\ changes' = changes /\ alive' = alive /\ revived' = revived /\ notes' = notes /\ sync' = sync
      /\ fullsync' = fullsync /\ cleanStale' = cleanStale /\ requested' = requested
      /\ chunk' = chunk
  BY DEF server, syncing
<1>3. /\ work' \in [Workers -> {Idle} \cup Busy] /\ work'[w] = b
      /\ \A v \in Workers \ {w} : work'[v] = work[v]
  BY <1>1
<1>4. TypeOK'
  BY <1>1, <1>2, <1>3 DEF TypeOK
<1>5. MastersWork'
  <2>1. ASSUME NEW v \in Workers, work'[v] # Idle PROVE masters[work'[v].upd.id] = v
    BY <1>1, <1>3, <2>1 DEF MastersWork
  <2> QED
    BY <1>1, <2>1 DEF MastersWork
<1>6. AllKnown'
  <2>1. \A x : Known(x) => Known(x)'
    BY <1>2 DEF Known
  <2>2. Known(work[w].upd)
    BY <1>1 DEF AllKnown
  <2>3. Known(b.upd)
    BY <2>2 DEF Known
  <2>4. ASSUME NEW v \in Workers, work'[v] # Idle, NEW x, x = work'[v].upd PROVE Known(x)'
    BY <1>1, <1>3, <2>1, <2>3, <2>4 DEF AllKnown
  <2>5. /\ \A x \in queue' : Known(x)'
        /\ \A s \in Routers : \A i \in DOMAIN mqueue[s] : Known(mqueue[s][i])
    BY <1>1, <2>1 DEF AllKnown
  <2>6. ASSUME NEW s \in Routers, NEW i \in DOMAIN mqueue'[s], NEW x, x = mqueue'[s][i]
        PROVE  Known(x)'
    BY <2>1, <2>5, <2>6
  <2> QED
    BY <2>4, <2>5, <2>6 DEF AllKnown, Known
<1>7. /\ NotesOrdered' /\ StampsArePast' /\ MasterQueueOrdered' /\ StaleIsCovered'
      /\ QueueOrdered' /\ SyncCovers'
  <2>1. NotesOrdered' /\ StampsArePast'
    BY <1>1, <1>2 DEF NotesOrdered, StampsArePast
  <2>2. MasterQueueOrdered' /\ StaleIsCovered'
    BY <1>1 DEF MasterQueueOrdered, StaleIsCovered
  <2> QED
    BY <1>2, <2>1, <2>2, SmallerQueue
<1>8. WorkOrdered'
  <2> SUFFICES ASSUME NEW v \in Workers, work'[v] # Idle
               PROVE  /\ stamps[work'[v].upd.id] < work'[v].upd.ts
                      /\ work'[v].pc # "fetch" =>
                           /\ \A x \in queue : x.id = work'[v].upd.id => Covers(work'[v].upd, x)
                           /\ \A i \in DOMAIN mqueue[work'[v].upd.id] :
                                 Covers(work'[v].upd, mqueue[work'[v].upd.id][i])
    BY DEF WorkOrdered, Covers
  <2>1. CASE v = w
    <3>1. stamps[b.upd.id] < b.upd.ts
      BY <1>1 DEF WorkOrdered
    <3> QED
      BY <1>3, <2>1, <3>1
  <2>2. CASE v # w
    BY <1>1, <1>3, <2>2 DEF WorkOrdered
  <2> QED
    BY <2>1, <2>2
<1> QED
  BY <1>4, <1>5, <1>6, <1>7, <1>8 DEF L3Inv

\* From one command to the next.
LEMMA GotoKeeps ==
    ASSUME L3Inv, NEW w \in Workers, work[w] # Idle, work[w].pc # "fetch",
           NEW pc \in {"process", "init", "configure", "remove", "evict"}, Goto(w, pc),
           UNCHANGED <<server, notes, clock, queue, masters, mqueue, stamps, cfg, syncing, faults>>,
           routerInfo' \subseteq Routers, ns' \subseteq Routers
    PROVE  L3Inv'
<1> DEFINE b == [work[w] EXCEPT !.pc = pc]
<1>1. work[w] \in Busy /\ WorkOrdered /\ work \in [Workers -> {Idle} \cup Busy]
  BY BusyWorker DEF L3Inv, TypeOK
<1>2. b \in Busy /\ b.pc = pc /\ b.upd = work[w].upd
  BY <1>1 DEF Busy
<1>3. work' = [work EXCEPT ![w] = b]
  BY <1>1 DEF Goto
<1>4. /\ \A v \in queue : v.id = work[w].upd.id => Covers(work[w].upd, v)
      /\ \A i \in DOMAIN mqueue[work[w].upd.id] : Covers(work[w].upd, mqueue[work[w].upd.id][i])
  BY <1>1 DEF WorkOrdered
<1> HIDE DEF b
<1> QED
  BY <1>2, <1>3, <1>4, WorkGoesOn

\* The reply of the server takes in every change that has been announced.
LEMMA FetchedKeeps ==
    ASSUME L3Inv, NEW w \in Workers, Fetched(w)
    PROVE  L3Inv'
<1> DEFINE u == work[w].upd
           row == db[u.id]
           f == [u EXCEPT !.data = row.ver]
           pc == IF row.on THEN "process" ELSE "remove"
           b == [work[w] EXCEPT !.pc = pc, !.upd = f]
<1>1. work[w] # Idle
  BY DEF Fetched, At, Idle
<1>2. /\ work[w] \in Busy /\ u \in Updates /\ u.id \in Routers
      /\ TypeOK /\ AllKnown /\ MastersWork /\ work \in [Workers -> {Idle} \cup Busy]
      /\ \A i \in DOMAIN mqueue[u.id] : mqueue[u.id][i].id = u.id /\ Known(mqueue[u.id][i])
  BY <1>1, BusyWorker DEF L3Inv, TypeOK
<1>3. row.ver \in 0..MaxChanges /\ row.ver \in Nat
  BY <1>2, L3Assumption DEF TypeOK
<1>4. work' = [work EXCEPT ![w].pc = pc, ![w].upd.data = row.ver]
  BY DEF Fetched
<1>5. f \in Updates /\ f.data = row.ver /\ f.id = u.id /\ f.ts = u.ts /\ f.ver = u.ver
  <2> HIDE DEF u, row
  <2> QED
    BY <1>2, <1>3 DEF Updates
<1>6. pc \in {"process", "remove"}
  OBVIOUS
<1>7. b \in Busy /\ b.pc # "fetch" /\ b.upd = f
  <2> HIDE DEF pc, f
  <2> QED
    BY <1>2, <1>5, <1>6 DEF Busy
<1>8. work' = [work EXCEPT ![w] = b]
  <2> DEFINE c == [work[w] EXCEPT !.pc = pc, !.upd.data = row.ver]
  <2>1. work' = [work EXCEPT ![w] = c]
    BY <1>2, <1>4
  <2>2. c = b
    OBVIOUS
  <2> QED
    BY <2>1, <2>2
<1>9. /\ \A v \in queue : v.id = u.id => Covers(f, v)
      /\ \A i \in DOMAIN mqueue[u.id] : Covers(f, mqueue[u.id][i])
  <2>1. \A v : Known(v) /\ v.id = u.id => v.ver <= row.ver
    BY DEF Known
  <2>2. \A v \in queue : Known(v)
    BY <1>2 DEF AllKnown
  <2> HIDE DEF f, row
  <2> QED
    BY <1>2, <1>5, <2>1, <2>2 DEF Covers
<1>10. /\ UNCHANGED <<server, notes, clock, queue, masters, mqueue, stamps, cfg, syncing, faults>>
       /\ routerInfo' \subseteq Routers /\ ns' \subseteq Routers
  BY <1>2 DEF Fetched, TypeOK
<1> HIDE DEF f, b, pc, row
<1> QED
  BY <1>1, <1>5, <1>7, <1>8, <1>9, <1>10, WorkGoesOn

\* Whatever a worker does.
LEMMA WorkerKeeps ==
    ASSUME L3Inv, NEW w \in Workers, WorkerStep(w)
    PROVE  L3Inv'
<1>1. TypeOK /\ MaxFaults \in Nat
  BY L3Assumption DEF L3Inv
<1>2. \A pc : At(w, pc) /\ pc # "idle" => work[w] # Idle
  BY DEF At, Idle
<1>3. CASE ProcessRouterIfCompatible(w)
  <2>1. work[w] # Idle /\ work[w].pc # "fetch"
    BY <1>2, <1>3 DEF ProcessRouterIfCompatible, At
  <2>2. work[w].upd.id \in Routers
    BY <2>1, BusyWorker
  <2>3. /\ UNCHANGED <<server, notes, ns, syncing, faults>>
        /\ ns' \subseteq Routers /\ faults' \in 0..MaxFaults
    BY <1>1, <1>3 DEF ProcessRouterIfCompatible, TypeOK
  <2>4. CASE Processed(w) /\ UNCHANGED routerInfo
    BY <1>1, <2>1, <2>3, <2>4, ProcessedKeeps DEF TypeOK
  <2>5. ASSUME NEW pc \in {"evict", "init", "configure"}, Goto(w, pc),
               UNCHANGED <<clock, queue, masters, mqueue, stamps, cfg>>,
               routerInfo' \subseteq Routers
        PROVE  L3Inv'
    BY <2>1, <2>3, <2>5, GotoKeeps
  <2>6. \/ Processed(w) /\ UNCHANGED routerInfo
        \/ \E pc \in {"evict", "init", "configure"} :
              /\ Goto(w, pc) /\ UNCHANGED <<clock, queue, masters, mqueue, stamps, cfg>>
              /\ routerInfo' \subseteq Routers
    BY <1>1, <1>3, <2>2 DEF ProcessRouterIfCompatible, TypeOK
  <2> QED
    BY <2>4, <2>5, <2>6
<1>4. CASE Initialize(w)
  <2>1. work[w] # Idle /\ work[w].pc # "fetch"
    BY <1>2, <1>4 DEF Initialize, At
  <2>2. work[w].upd.id \in Routers
    BY <2>1, BusyWorker
  <2>3. /\ Goto(w, "configure") /\ routerInfo' \subseteq Routers /\ ns' \subseteq Routers
        /\ UNCHANGED <<server, notes, clock, queue, masters, mqueue, stamps, cfg, syncing, faults>>
    BY <1>1, <1>4, <2>2 DEF Initialize, TypeOK
  <2> QED
    BY <2>1, <2>3, GotoKeeps
<1>5. CASE Configure(w)
  <2>1. work[w] # Idle /\ work[w].pc # "fetch"
    BY <1>2, <1>5 DEF Configure, At
  <2> QED
    BY <1>1, <1>5, <2>1, ProcessedKeeps DEF Configure, TypeOK
<1>6. CASE RouterRemoved(w)
  <2>1. work[w] # Idle /\ work[w].pc # "fetch"
    BY <1>2, <1>6 DEF RouterRemoved, At
  <2> QED
    BY <1>1, <1>6, <2>1, ProcessedKeeps DEF RouterRemoved, TypeOK
<1>7. CASE EvictFails(w)
  <2>1. work[w] # Idle /\ work[w].pc # "fetch"
    BY <1>2, <1>7 DEF EvictFails, At
  <2>2. faults' \in 0..MaxFaults
    BY <1>1, <1>7 DEF EvictFails, Fault, TypeOK
  <2>3. /\ Processed(w) /\ UNCHANGED <<server, notes, syncing>>
        /\ routerInfo' \subseteq Routers /\ ns' \subseteq Routers
    BY <1>1, <1>7 DEF EvictFails, TypeOK
  <2> QED
    BY <2>1, <2>2, <2>3, ProcessedKeeps
<1> QED
  BY <1>3, <1>4, <1>5, <1>6, <1>7, EachUpdateKeeps, FetchedKeeps, ResyncKeeps DEF WorkerStep-----------------------------------------------------------------------------
(* The server and the periodic task.                                         *)

\* Updates that leave the workers and their queues alone, and make nothing that is
\* known unknown.
LEMMA KnownStays ==
    ASSUME L3Inv, UNCHANGED <<exclusive>>, \A u \in Updates : Known(u) => Known(u)',
           \A u \in queue' : Known(u)'
    PROVE  MastersWork' /\ AllKnown'
<1>1. /\ TypeOK /\ MastersWork /\ AllKnown
      /\ masters' = masters /\ mqueue' = mqueue /\ work' = work
  BY DEF L3Inv, exclusive
<1>2. MastersWork'
  BY <1>1 DEF MastersWork
<1>3. ASSUME NEW s \in Routers, NEW i \in DOMAIN mqueue[s], NEW u, u = mqueue[s][i]
      PROVE  Known(u)'
  BY <1>1, <1>3, AreUpdates DEF AllKnown
<1>4. ASSUME NEW w \in Workers, work[w] # Idle, NEW u, u = work[w].upd PROVE Known(u)'
  BY <1>1, <1>4, AreUpdates DEF AllKnown
<1> QED
  BY <1>1, <1>2, <1>3, <1>4 DEF AllKnown, Known

\* A step that changes neither the queues nor what the server knows.
LEMMA Unconcerned ==
    ASSUME L3Inv, TypeOK', UNCHANGED <<db, changes, notes, queue, exclusive, stamps, cfg>>,
           clock <= clock', sync'.ts <= clock', SyncCovers'
    PROVE  L3Inv'
<1>1. /\ TypeOK /\ AllKnown /\ NotesOrdered /\ StampsArePast /\ QueueOrdered
      /\ MasterQueueOrdered /\ WorkOrdered /\ StaleIsCovered
      /\ masters' = masters /\ mqueue' = mqueue /\ work' = work
      /\ clock \in Nat /\ clock' \in Nat
  BY DEF L3Inv, exclusive, TypeOK
<1>2. \A u \in Updates : Known(u) => Known(u)'
  <2> SUFFICES ASSUME NEW u \in Updates, Known(u) PROVE Known(u)'
    OBVIOUS
  <2>1. u.ts \in Nat /\ u.ts <= clock
    BY UpdateFields DEF Known
  <2>2. u.ts <= clock'
    BY <1>1, <2>1
  <2> QED
    BY <2>2 DEF Known
<1>3. \A u \in queue' : Known(u)'
  BY <1>1, <1>2, AreUpdates DEF AllKnown
<1>4. MastersWork' /\ AllKnown'
  BY <1>2, <1>3, KnownStays
<1>5. NotesOrdered'
  BY <1>1 DEF NotesOrdered
<1>6. StampsArePast'
  <2>1. \A s \in Routers : stamps[s] \in Nat /\ stamps[s] <= clock
    BY <1>1 DEF StampsArePast, TypeOK
  <2>2. \A s \in Routers : stamps'[s] <= clock'
    BY <1>1, <2>1
  <2> QED
    BY <2>2 DEF StampsArePast
<1>7. QueueOrdered' /\ MasterQueueOrdered' /\ WorkOrdered' /\ StaleIsCovered'
  <2>1. QueueOrdered' /\ MasterQueueOrdered'
    BY <1>1 DEF QueueOrdered, MasterQueueOrdered
  <2>2. WorkOrdered' /\ StaleIsCovered'
    BY <1>1 DEF WorkOrdered, StaleIsCovered
  <2> QED
    BY <2>1, <2>2
<1> QED
  BY <1>4, <1>5, <1>6, <1>7 DEF L3Inv

\* The version of a change that is committed is larger than all others.
LEMMA CommitKeeps ==
    ASSUME L3Inv, NEW r \in Routers, NEW on \in BOOLEAN, NEW kind \in {"updated", "deleted"},
           NEW sent \in BOOLEAN, Commit(r, on, kind, sent)
    PROVE  L3Inv'
<1> DEFINE v == changes + 1
           n == [id |-> r, kind |-> kind, ver |-> v]
<1>1. /\ TypeOK /\ AllKnown /\ NotesOrdered /\ StampsArePast /\ QueueOrdered
      /\ MasterQueueOrdered /\ WorkOrdered /\ StaleIsCovered /\ SyncCovers
      /\ db \in [Routers -> [ver : 1..MaxChanges, on : BOOLEAN]]
      /\ notes \in Seq(Notes) /\ changes \in 1..MaxChanges
  BY DEF L3Inv, TypeOK
<1>2. /\ changes < MaxChanges /\ changes' = v
      /\ db' = [db EXCEPT ![r] = [ver |-> v, on |-> on]]
      /\ notes' = IF sent THEN Append(notes, n) ELSE notes
      /\ UNCHANGED <<alive, revived, clock, queue, exclusive, stamps, routerInfo, ns, cfg, syncing, faults>>
  BY DEF Commit
<1>3. v \in 1..MaxChanges /\ v \in Nat /\ changes \in Nat /\ changes < v
  BY <1>1, <1>2, L3Assumption
<1> HIDE DEF v
<1>4. n \in Notes /\ n.id = r /\ n.ver = v
  BY <1>3 DEF Notes
<1> HIDE DEF n
<1>5. /\ db' \in [Routers -> [ver : 1..MaxChanges, on : BOOLEAN]] /\ db'[r].ver = v
      /\ \A s \in Routers \ {r} : db'[s] = db[s]
  BY <1>1, <1>2, <1>3
<1>6. \A s \in Routers : /\ db[s].ver \in Nat /\ db'[s].ver \in Nat
                         /\ db[s].ver <= db'[s].ver /\ db[s].ver <= changes /\ db'[s].ver <= v
  <2> SUFFICES ASSUME NEW s \in Routers
               PROVE  /\ db[s].ver \in Nat /\ db'[s].ver \in Nat
                      /\ db[s].ver <= db'[s].ver /\ db[s].ver <= changes /\ db'[s].ver <= v
    OBVIOUS
  <2>1. db[s].ver \in Nat /\ db'[s].ver \in Nat /\ db[s].ver <= changes
    <3>1. db[s].ver \in 1..MaxChanges /\ db'[s].ver \in 1..MaxChanges
      BY <1>1, <1>5
    <3> QED
      BY <1>1, <3>1, L3Assumption DEF NotesOrdered
  <2>2. CASE s = r
    BY <1>3, <1>5, <2>1, <2>2
  <2>3. CASE s # r
    BY <1>3, <1>5, <2>1, <2>3
  <2> QED
    BY <2>1, <2>2, <2>3
<1>7. /\ notes' \in Seq(Notes)
      /\ \A k \in DOMAIN notes' : \/ k \in DOMAIN notes /\ notes'[k] = notes[k]
                                  \/ notes'[k] = n /\ \A j \in DOMAIN notes' : ~(k < j)
  <2>1. CASE sent
    <3>1. notes' = Append(notes, n)
      BY <1>2, <2>1
    <3> DEFINE l == Len(notes)
    <3>2. /\ notes' \in Seq(Notes) /\ l \in Nat /\ DOMAIN notes = 1..l
          /\ DOMAIN notes' = 1..(l + 1) /\ notes'[l + 1] = n /\ \A k \in 1..l : notes'[k] = notes[k]
      BY <1>1, <1>4, <3>1, AppendProperties, LenProperties
    <3> HIDE DEF l
    <3>3. ASSUME NEW k \in DOMAIN notes'
          PROVE  \/ k \in DOMAIN notes /\ notes'[k] = notes[k]
                 \/ notes'[k] = n /\ \A j \in DOMAIN notes' : ~(k < j)
      <4>1. CASE k = l + 1
        BY <3>2, <4>1
      <4>2. CASE k # l + 1
        BY <3>2, <4>2
      <4> QED
        BY <4>1, <4>2
    <3> QED
      BY <3>2, <3>3
  <2>2. CASE ~sent
    BY <1>1, <1>2, <2>2
  <2> QED
    BY <2>1, <2>2
<1>8. /\ exclusive' = exclusive /\ queue' = queue /\ clock' = clock /\ stamps' = stamps
      /\ sync' = sync /\ cfg' = cfg /\ masters' = masters /\ mqueue' = mqueue /\ work' = work
  BY <1>2 DEF syncing, exclusive
<1>9. TypeOK'
  <2>1. fullsync' = fullsync /\ cleanStale' = cleanStale /\ requested' = requested /\ chunk' = chunk
    BY <1>2 DEF syncing
  <2> QED
    BY <1>1, <1>2, <1>3, <1>5, <1>7, <1>8, <2>1 DEF TypeOK
<1>10. \A u \in Updates : Known(u) => Known(u)'
  <2> SUFFICES ASSUME NEW u \in Updates, Known(u) PROVE Known(u)'
    OBVIOUS
  <2>1. u.id \in Routers /\ u.ver \in Nat
    BY UpdateFields
  <2>2. u.ts <= clock /\ u.ver <= db[u.id].ver
    BY DEF Known
  <2>3. u.ver <= db'[u.id].ver /\ u.ver <= v
    BY <1>3, <1>6, <2>1, <2>2
  <2>4. \A k \in DOMAIN notes' : notes'[k].id = u.id => u.ver <= notes'[k].ver
    BY <1>4, <1>7, <2>3 DEF Known
  <2> QED
    BY <1>8, <2>2, <2>3, <2>4 DEF Known
<1>11. \A u \in queue' : Known(u)'
  BY <1>1, <1>8, <1>10, AreUpdates DEF AllKnown
<1>12. MastersWork' /\ AllKnown'
  BY <1>2, <1>10, <1>11, KnownStays
<1>13. NotesOrdered'
  <2>1. \A s \in Routers : db'[s].ver <= changes'
    BY <1>2, <1>6
  <2>2. \A k \in DOMAIN notes : /\ notes[k].ver \in Nat /\ notes[k].id \in Routers
                                /\ notes[k].ver <= db[notes[k].id].ver
    <3>1. \A k \in DOMAIN notes : notes[k] \in Notes
      BY <1>1, ElementOfSeq, LenProperties
    <3>2. \A k \in DOMAIN notes : notes[k].ver \in Nat /\ notes[k].id \in Routers
      BY <3>1, L3Assumption DEF Notes
    <3> QED
      BY <1>1, <3>2 DEF NotesOrdered
  <2>3. \A k \in DOMAIN notes : notes[k].ver <= db'[notes[k].id].ver /\ notes[k].ver <= v
    BY <1>3, <1>6, <2>2
  <2>4. \A k \in DOMAIN notes' : notes'[k].ver <= db'[notes'[k].id].ver
    BY <1>3, <1>4, <1>5, <1>7, <2>3
  <2>5. ASSUME NEW i \in DOMAIN notes', NEW j \in DOMAIN notes', i < j, notes'[i].id = notes'[j].id
        PROVE  notes'[i].ver <= notes'[j].ver
    <3>1. i \in DOMAIN notes /\ notes'[i] = notes[i]
      BY <1>7, <2>5
    <3>2. CASE j \in DOMAIN notes /\ notes'[j] = notes[j]
      BY <1>1, <2>5, <3>1, <3>2 DEF NotesOrdered
    <3>3. CASE notes'[j] = n
      BY <1>4, <2>3, <3>1, <3>3
    <3> QED
      BY <1>7, <3>2, <3>3
  <2> QED
    BY <2>1, <2>4, <2>5 DEF NotesOrdered
<1>14. StampsArePast' /\ QueueOrdered' /\ SyncCovers'
  <2>1. StampsArePast'
    BY <1>1, <1>8 DEF StampsArePast
  <2> QED
    BY <1>8, <2>1, SmallerQueue
<1>15. MasterQueueOrdered' /\ WorkOrdered' /\ StaleIsCovered'
  <2>1. MasterQueueOrdered' /\ StaleIsCovered'
    BY <1>1, <1>8 DEF MasterQueueOrdered, StaleIsCovered
  <2>2. WorkOrdered'
    BY <1>1, <1>8 DEF WorkOrdered
  <2> QED
    BY <2>1, <2>2
<1> QED
  BY <1>9, <1>12, <1>13, <1>14, <1>15 DEF L3Inv
\* What joins the queue does no harm if it is new or announces nothing.
LEMMA QueueGrows ==
    ASSUME L3Inv, UNCHANGED <<exclusive, stamps, cfg>>,
           \A x \in queue' \ queue : x \in Updates /\ (clock < x.ts \/ x.ver = 0)
    PROVE  MasterQueueOrdered' /\ WorkOrdered' /\ StaleIsCovered'
<1>1. /\ TypeOK /\ AllKnown /\ StampsArePast /\ MasterQueueOrdered /\ WorkOrdered
      /\ StaleIsCovered /\ masters' = masters /\ mqueue' = mqueue /\ work' = work
      /\ clock \in Nat /\ stamps \in [Routers -> Nat] /\ cfg \in [Routers -> 0..MaxChanges]
  BY DEF L3Inv, exclusive, TypeOK
<1>2. ASSUME NEW u \in Updates, Known(u), NEW x \in queue' \ queue PROVE Covers(u, x)
  <2>1. /\ u.ts \in Nat /\ u.ts <= clock /\ u.data \in Nat /\ x.ts \in Nat /\ x.ver \in Nat
        /\ (clock < x.ts \/ x.ver = 0)
    BY <1>2, UpdateFields DEF Known
  <2> QED
    BY <1>1, <2>1 DEF Covers
<1>3. MasterQueueOrdered'
  <2> SUFFICES ASSUME NEW s \in Routers, NEW j \in DOMAIN mqueue[s], HasData(mqueue[s][j])
               PROVE  /\ \A v \in queue' : v.id = s => Covers(mqueue[s][j], v)
                      /\ \A i \in DOMAIN mqueue[s] : i > j => Covers(mqueue[s][j], mqueue[s][i])
    BY <1>1 DEF MasterQueueOrdered, HasData, Covers
  <2>1. mqueue[s][j] \in Updates /\ Known(mqueue[s][j])
    BY <1>1, AreUpdates DEF AllKnown
  <2> QED
    BY <1>1, <1>2, <2>1 DEF MasterQueueOrdered
<1>4. WorkOrdered'
  <2> SUFFICES ASSUME NEW v \in Workers, work[v] # Idle
               PROVE  /\ stamps[work[v].upd.id] < work[v].upd.ts
                      /\ work[v].pc # "fetch" =>
                           /\ \A x \in queue' : x.id = work[v].upd.id => Covers(work[v].upd, x)
                           /\ \A i \in DOMAIN mqueue[work[v].upd.id] :
                                 Covers(work[v].upd, mqueue[work[v].upd.id][i])
    BY <1>1 DEF WorkOrdered, Covers
  <2>1. work[v].upd \in Updates /\ Known(work[v].upd)
    BY <1>1, AreUpdates DEF AllKnown
  <2> QED
    BY <1>1, <1>2, <2>1 DEF WorkOrdered
<1>5. StaleIsCovered'
  <2>1. ASSUME NEW u \in queue', u.id \in Routers, u.ts <= stamps[u.id] PROVE u.ver <= cfg[u.id]
    <3>1. CASE u \in queue
      BY <1>1, <2>1, <3>1, StaleInQueues
    <3>2. CASE u \notin queue
      <4>1. /\ u.ts \in Nat /\ (clock < u.ts \/ u.ver = 0) /\ stamps[u.id] \in Nat
            /\ stamps[u.id] <= clock
        BY <1>1, <2>1, <3>2, UpdateFields DEF StampsArePast
      <4>2. u.ver = 0
        BY <1>1, <2>1, <4>1
      <4>3. cfg[u.id] \in 0..MaxChanges
        BY <1>1, <2>1
      <4> QED
        BY <4>2, <4>3, L3Assumption
    <3> QED
      BY <3>1, <3>2
  <2> QED
    BY <1>1, <2>1, StaleInQueues, StaleInQueuesNext
<1> QED
  BY <1>3, <1>4, <1>5

\* A notification becomes the newest update; a deletion takes in what was announced
\* before it.
LEMMA NotifiedKeeps ==
    ASSUME L3Inv, Notified
    PROVE  L3Inv'
<1> DEFINE n == Head(notes)
           z == IF n.kind = "deleted"
                THEN RouterUpdate(n.id, RPC, clock + 1, "delete", n.ver, n.ver)
                ELSE RouterUpdate(n.id, RPC, clock + 1, "none", NoData, n.ver)
<1>1. /\ TypeOK /\ AllKnown /\ NotesOrdered /\ StampsArePast
      /\ notes \in Seq(Notes) /\ notes # <<>> /\ clock \in Nat
      /\ db \in [Routers -> [ver : 1..MaxChanges, on : BOOLEAN]]
  BY DEF L3Inv, TypeOK, Notified
<1>2. /\ notes' = Tail(notes) /\ clock' = clock + 1 /\ queue' = queue \cup {z}
      /\ UNCHANGED <<server, exclusive, stamps, routerInfo, ns, cfg, syncing, faults>>
  BY DEF Notified
<1>3. /\ 1 \in DOMAIN notes /\ n = notes[1] /\ n \in Notes /\ notes' \in Seq(Notes)
      /\ \A k \in DOMAIN notes' : k \in Nat /\ k + 1 \in DOMAIN notes /\ 1 < k + 1 /\ notes'[k] = notes[k + 1]
  <2> DEFINE l == Len(notes)
             t == Tail(notes)
  <2>1. l \in Nat /\ DOMAIN notes = 1..l /\ l # 0
    BY <1>1, LenProperties, EmptySeq
  <2>2. n \in Notes /\ t \in Seq(Notes) /\ Len(t) = l - 1 /\ \A k \in 1..Len(t) : t[k] = notes[k + 1]
    BY <1>1, HeadTailProperties
  <2>3. DOMAIN t = 1..Len(t)
    BY <2>2, LenProperties
  <2>4. n = notes[1]
    BY <1>1
  <2> HIDE DEF l, t, n
  <2>5. \A k \in DOMAIN t : k \in Nat /\ k + 1 \in DOMAIN notes /\ 1 < k + 1 /\ t[k] = notes[k + 1]
    BY <2>1, <2>2, <2>3
  <2>6. notes' = t /\ 1 \in DOMAIN notes
    BY <1>2, <2>1 DEF t
  <2> QED
    BY <2>2, <2>4, <2>5, <2>6
<1> HIDE DEF n
<1>4. n.id \in Routers /\ n.ver \in 0..MaxChanges /\ n.ver \in Nat /\ NoData \in 0..MaxChanges /\ clock + 1 \in Nat
  BY <1>1, <1>3, L3Assumption DEF Notes, NoData
<1>5. PICK x \in Updates : /\ x.ts = clock + 1 /\ x.id = n.id /\ x.ver = n.ver
                           /\ HasData(x) => x.data = n.ver
                           /\ queue' = queue \cup {x}
  <2>1. /\ z \in Updates /\ z.ts = clock + 1 /\ z.id = n.id /\ z.ver = n.ver
        /\ HasData(z) => z.data = n.ver
    BY <1>4 DEF RouterUpdate, Updates, HasData, NoData, RPC, SYNC
  <2> HIDE DEF z
  <2> QED
    BY <1>2, <2>1
<1> HIDE DEF z
<1>6. /\ exclusive' = exclusive /\ stamps' = stamps /\ sync' = sync /\ cfg' = cfg
      /\ db' = db /\ changes' = changes /\ alive' = alive /\ revived' = revived
      /\ routerInfo' = routerInfo /\ ns' = ns
      /\ faults' = faults /\ masters' = masters /\ mqueue' = mqueue /\ work' = work
      /\ fullsync' = fullsync /\ cleanStale' = cleanStale /\ requested' = requested /\ chunk' = chunk
  BY <1>2 DEF syncing, exclusive, server
<1>7. TypeOK'
  BY <1>1, <1>2, <1>3, <1>4, <1>5, <1>6 DEF TypeOK
<1>8. \A u \in Updates : Known(u) => Known(u)'
  <2> SUFFICES ASSUME NEW u \in Updates, Known(u) PROVE Known(u)'
    OBVIOUS
  <2>1. u.ts \in Nat /\ u.ts <= clock /\ u.ver <= db[u.id].ver
    BY UpdateFields DEF Known
  <2>2. u.ts <= clock'
    BY <1>1, <1>2, <2>1
  <2>3. \A k \in DOMAIN notes' : notes'[k].id = u.id => u.ver <= notes'[k].ver
    BY <1>3 DEF Known
  <2> QED
    BY <1>6, <2>1, <2>2, <2>3 DEF Known
<1>9. Known(x)'
  <2>1. x.ts <= clock'
    BY <1>1, <1>2, <1>5
  <2>2. x.ver <= db[x.id].ver
    BY <1>1, <1>3, <1>5 DEF NotesOrdered
  <2>3. \A k \in DOMAIN notes' : notes'[k].id = x.id => x.ver <= notes'[k].ver
    BY <1>1, <1>3, <1>5 DEF NotesOrdered
  <2> QED
    BY <1>6, <2>1, <2>2, <2>3 DEF Known
<1>10. \A u \in queue' : Known(u)'
  BY <1>1, <1>5, <1>8, <1>9, AreUpdates DEF AllKnown
<1>11. MastersWork' /\ AllKnown'
  BY <1>2, <1>8, <1>10, KnownStays
<1>12. NotesOrdered'
  <2>1. \A k \in DOMAIN notes' : notes'[k].ver <= db[notes'[k].id].ver
    BY <1>1, <1>3 DEF NotesOrdered
  <2>2. ASSUME NEW i \in DOMAIN notes', NEW j \in DOMAIN notes', i < j, notes'[i].id = notes'[j].id
        PROVE  notes'[i].ver <= notes'[j].ver
    <3>1. /\ i + 1 \in DOMAIN notes /\ j + 1 \in DOMAIN notes /\ i + 1 < j + 1
          /\ notes'[i] = notes[i + 1] /\ notes'[j] = notes[j + 1]
      BY <1>3, <2>2
    <3> QED
      BY <1>1, <2>2, <3>1 DEF NotesOrdered
  <2> QED
    BY <1>1, <1>6, <2>1, <2>2 DEF NotesOrdered
<1>13. StampsArePast'
  <2>1. sync.ts \in Nat /\ \A s \in Routers : stamps[s] \in Nat
    BY <1>1 DEF TypeOK, Syncs
  <2> QED
    BY <1>1, <1>2, <1>6, <2>1 DEF StampsArePast
<1>14. QueueOrdered' /\ SyncCovers'
  <2>1. ASSUME HasData(x), NEW v \in queue, v.id = x.id PROVE Covers(x, v)
    <3>1. v.ver <= n.ver
      BY <1>1, <1>3, <1>5, <2>1 DEF AllKnown, Known
    <3> QED
      BY <1>5, <2>1, <3>1 DEF Covers
  <2> QED
    BY <1>2, <1>5, <1>6, <2>1, NewestJoins
<1>15. MasterQueueOrdered' /\ WorkOrdered' /\ StaleIsCovered'
  <2>1. \A y \in queue' \ queue : y \in Updates /\ clock < y.ts
    BY <1>1, <1>2, <1>5
  <2> QED
    BY <1>6, <2>1, QueueGrows
<1> QED
  BY <1>7, <1>11, <1>12, <1>13, <1>14, <1>15 DEF L3Inv
\* The updates of a full sync carry what it has read, and announce nothing.
LEMMA SyncUpdatesJoin ==
    ASSUME L3Inv, sync.pc \in {"ids", "got"}, queue \subseteq queue',
           \A x \in queue' \ queue : /\ x \in Updates /\ x.ts = sync.ts /\ x.ver = 0
                                     /\ x.data = sync.read[x.id],
           sync'.ts <= sync.ts, sync'.pc \in {"ids", "ask", "got"} => sync'.read = sync.read,
           UNCHANGED <<server, notes, clock, exclusive, stamps, cfg>>, TypeOK'
    PROVE  L3Inv'
<1>1. /\ TypeOK /\ AllKnown /\ NotesOrdered /\ StampsArePast /\ QueueOrdered /\ SyncCovers
      /\ sync.ts \in Nat /\ clock \in Nat /\ sync'.ts \in Nat
      /\ db \in [Routers -> [ver : 1..MaxChanges, on : BOOLEAN]]
  BY DEF L3Inv, TypeOK, Syncs
<1>2. db' = db /\ changes' = changes /\ notes' = notes
  BY DEF server
<1>3. \A u : Known(u) => Known(u)'
  BY <1>2 DEF Known
<1>4. ASSUME NEW x \in queue' \ queue PROVE Known(x)
  <2>1. x.ts <= clock /\ x.id \in Routers /\ x.ver = 0
    BY <1>1, UpdateFields DEF StampsArePast
  <2>2. db[x.id].ver \in 1..MaxChanges
    BY <1>1, <2>1
  <2>3. \A k \in DOMAIN notes : notes[k].ver \in 1..MaxChanges
    <3>1. notes \in Seq(Notes)
      BY <1>1 DEF TypeOK
    <3>2. \A k \in DOMAIN notes : notes[k] \in Notes
      BY <3>1, ElementOfSeq, LenProperties
    <3> QED
      BY <3>2 DEF Notes
  <2> QED
    BY <2>1, <2>2, <2>3, L3Assumption DEF Known
<1>5. \A u \in queue' : Known(u)'
  BY <1>1, <1>3, <1>4 DEF AllKnown
<1>6. MastersWork' /\ AllKnown'
  BY <1>3, <1>5, KnownStays
<1>7. NotesOrdered'
  BY <1>1, <1>2 DEF NotesOrdered
<1>8. StampsArePast'
  BY <1>1 DEF StampsArePast
<1>9. QueueOrdered'
  <2> SUFFICES ASSUME NEW u \in queue', NEW v \in queue', u # v, u.id = v.id, HasData(u)
               PROVE  Covers(u, v) \/ Precedes(v, u)
    BY DEF QueueOrdered, HasData, Covers, Precedes
  <2>1. CASE v \in queue' \ queue
    <3>1. u \in Updates /\ v.ver = 0
      BY <1>1, <2>1, AreUpdates
    <3> QED
      BY <3>1, UpdateFields DEF Covers
  <2>2. CASE v \in queue /\ u \in queue
    BY <1>1, <2>2 DEF QueueOrdered
  <2>3. CASE v \in queue /\ u \in queue' \ queue
    BY <1>1, <2>3 DEF SyncCovers, Covers
  <2> QED
    BY <2>1, <2>2, <2>3
<1>10. SyncCovers'
  <2> SUFFICES ASSUME sync'.pc \in {"ids", "ask", "got"}, NEW v \in queue', v.ts <= sync'.ts
               PROVE  v.ver <= sync'.read[v.id]
    BY DEF SyncCovers
  <2>1. v \in Updates /\ v.id \in Routers /\ v.ts \in Nat
    BY <1>1, AreUpdates, UpdateFields
  <2>2. sync'.read = sync.read /\ v.ts <= sync.ts
    BY <1>1, <2>1
  <2>3. CASE v \in queue
    BY <1>1, <2>2, <2>3 DEF SyncCovers
  <2>4. CASE v \notin queue
    <3>1. v.ver = 0 /\ sync.read[v.id] \in 0..MaxChanges
      BY <1>1, <2>1, <2>4 DEF TypeOK, Syncs
    <3> QED
      BY <2>2, <3>1, L3Assumption
  <2> QED
    BY <2>3, <2>4
<1>11. MasterQueueOrdered' /\ WorkOrdered' /\ StaleIsCovered'
  BY QueueGrows
<1> QED
  BY <1>6, <1>7, <1>8, <1>9, <1>10, <1>11 DEF L3Inv

\* The sizes of the chunks.
LEMMA Chunks ==
    ASSUME chunk \in MinChunk..MaxChunk
    PROVE  /\ Min({chunk + MinChunk, MaxChunk}) \in MinChunk..MaxChunk
           /\ Max({chunk \div 2, MinChunk}) \in MinChunk..MaxChunk
<1>1. /\ chunk \in Nat /\ MinChunk \in Nat \ {0} /\ MaxChunk \in Nat /\ MinChunk <= MaxChunk
      /\ MinChunk <= chunk /\ chunk <= MaxChunk
  BY L3Assumption
<1> DEFINE more == chunk + MinChunk
           half == chunk \div 2
<1>2. more \in Nat /\ MinChunk <= more /\ half \in Nat /\ half <= chunk
  BY <1>1
<1> HIDE DEF more, half
<1>3. Min({more, MaxChunk}) \in MinChunk..MaxChunk
  <2>1. Min({more, MaxChunk}) = IF more <= MaxChunk THEN more ELSE MaxChunk
    BY <1>1, <1>2, MinMaxOfTwo
  <2> QED
    BY <1>1, <1>2, <2>1
<1>4. Max({half, MinChunk}) \in MinChunk..MaxChunk
  <2>1. Max({half, MinChunk}) = IF half >= MinChunk THEN half ELSE MinChunk
    BY <1>1, <1>2, MinMaxOfTwo
  <2> QED
    BY <1>1, <1>2, <2>1
<1> QED
  BY <1>3, <1>4 DEF more, half

\* No synchronisation is in progress.
LEMMA NoSyncTyped == NoSync \in Syncs /\ NoSync.pc = "idle" /\ NoSync.ts = 0
  BY L3Assumption DEF NoSync, Syncs

\* fetch_and_sync_all_routers() queues what the server has answered.
LEMMA SyncAnswerKeeps ==
    ASSUME L3Inv, SyncAnswer
    PROVE  L3Inv'
<1> DEFINE curr == sync.curr \cup sync.found
           gone == sync.prev \ curr
           added == {RouterUpdate(r, SYNC, sync.ts, "none", sync.read[r], 0) : r \in sync.found}
           deleted == {RouterUpdate(r, SYNC, sync.ts, "delete", sync.read[r], 0) : r \in gone}
           stale == sync.snap \ (curr \cup gone)
<1>1. TypeOK /\ sync \in Syncs /\ chunk \in MinChunk..MaxChunk /\ queue \subseteq Updates
  BY DEF L3Inv, TypeOK
<1>2. /\ sync.ts \in Nat /\ curr \subseteq Routers /\ gone \subseteq Routers
      /\ stale \subseteq Routers /\ sync.found \subseteq Routers
      /\ sync.read \in [Routers -> 0..MaxChanges]
  BY <1>1 DEF Syncs
<1>3. /\ sync.pc \in {"ids", "got"}
      /\ UNCHANGED <<server, notes, clock, exclusive, stamps, routerInfo, ns, cfg, requested, faults>>
      /\ \/ /\ queue' = queue \cup added
            /\ sync' = [sync EXCEPT !.pc = "ask", !.curr = curr, !.found = {}]
            /\ UNCHANGED <<fullsync, cleanStale, chunk>>
         \/ /\ queue' = queue \cup added \cup deleted
            /\ fullsync' = FALSE
            /\ chunk' = Min({chunk + MinChunk, MaxChunk})
            /\ cleanStale' = FALSE
            /\ sync' = IF stale = {} THEN NoSync ELSE [NoSync EXCEPT !.pc = "clean", !.snap = stale]
  BY DEF SyncAnswer
<1>4. \A x \in added \cup deleted : /\ x \in Updates /\ x.ts = sync.ts /\ x.ver = 0
                                    /\ x.data = sync.read[x.id]
  <2>1. ASSUME NEW r \in Routers, NEW a \in {"none", "delete"},
               NEW x, x = RouterUpdate(r, SYNC, sync.ts, a, sync.read[r], 0)
        PROVE  x \in Updates /\ x.ts = sync.ts /\ x.ver = 0 /\ x.data = sync.read[x.id]
    <3>1. sync.read[r] \in 0..MaxChanges /\ 0 \in 0..MaxChanges
      BY <1>2, L3Assumption
    <3> QED
      BY <1>2, <2>1, <3>1 DEF RouterUpdate, Updates, SYNC, RPC
  <2>2. \A x \in added \cup deleted : \E r \in Routers, a \in {"none", "delete"} :
            x = RouterUpdate(r, SYNC, sync.ts, a, sync.read[r], 0)
    BY <1>2
  <2> QED
    BY <2>1, <2>2
<1> HIDE DEF added, deleted, curr, gone, stale
<1>5. /\ queue \subseteq queue' /\ queue' \subseteq Updates
      /\ \A x \in queue' \ queue : /\ x \in Updates /\ x.ts = sync.ts /\ x.ver = 0
                                   /\ x.data = sync.read[x.id]
  BY <1>1, <1>3, <1>4
<1>6. /\ sync' \in Syncs /\ sync'.ts <= sync.ts
      /\ sync'.pc \in {"ids", "ask", "got"} => sync'.read = sync.read
  <2>1. CASE sync' = [sync EXCEPT !.pc = "ask", !.curr = curr, !.found = {}]
    <3> DEFINE y == [sync EXCEPT !.pc = "ask", !.curr = curr, !.found = {}]
    <3>1. y \in Syncs /\ y.ts = sync.ts /\ y.read = sync.read
      BY <1>1, <1>2 DEF Syncs
    <3> HIDE DEF y
    <3>2. sync' = y
      BY <2>1 DEF y
    <3> QED
      BY <1>2, <3>1, <3>2
  <2>2. CASE sync' = NoSync
    BY <1>2, <2>2, NoSyncTyped
  <2>3. CASE sync' = [NoSync EXCEPT !.pc = "clean", !.snap = stale]
    <3>1. /\ [NoSync EXCEPT !.pc = "clean", !.snap = stale] \in Syncs
          /\ [NoSync EXCEPT !.pc = "clean", !.snap = stale].pc = "clean"
          /\ [NoSync EXCEPT !.pc = "clean", !.snap = stale].ts = 0
      BY <1>2, NoSyncTyped DEF Syncs
    <3> QED
      BY <1>2, <2>3, <3>1
  <2> QED
    BY <1>3, <2>1, <2>2, <2>3
<1>7. chunk' \in MinChunk..MaxChunk /\ fullsync' \in BOOLEAN /\ cleanStale' \in BOOLEAN
  BY <1>1, <1>3, Chunks DEF TypeOK
<1>8. TypeOK'
  <2>1. /\ db' = db /\ changes' = changes /\ alive' = alive /\ revived' = revived
        /\ masters' = masters /\ mqueue' = mqueue /\ work' = work
    BY <1>3 DEF server, exclusive
  <2>2. /\ notes' = notes /\ clock' = clock /\ stamps' = stamps /\ routerInfo' = routerInfo
        /\ ns' = ns /\ cfg' = cfg /\ requested' = requested /\ faults' = faults
    BY <1>3
  <2> QED
    BY <1>1, <1>5, <1>6, <1>7, <2>1, <2>2 DEF TypeOK
<1> QED
  BY <1>3, <1>5, <1>6, <1>8, SyncUpdatesJoin
\* What the periodic task reads is at least what is known.
LEMMA SyncKeeps ==
    ASSUME L3Inv, SyncStep
    PROVE  L3Inv'
<1>1. /\ TypeOK /\ AllKnown /\ StampsArePast /\ SyncCovers
      /\ sync \in Syncs /\ chunk \in MinChunk..MaxChunk /\ queue \subseteq Updates
      /\ ns \subseteq Routers /\ routerInfo \subseteq Routers
      /\ clock \in Nat /\ clock <= clock /\ sync.ts <= clock /\ sync.ts \in Nat
      /\ db \in [Routers -> [ver : 1..MaxChanges, on : BOOLEAN]]
  BY DEF L3Inv, TypeOK, StampsArePast, Syncs
<1>2. \A u \in queue : u.id \in Routers /\ u.ver <= db[u.id].ver
  BY <1>1, UpdateFields DEF AllKnown, Known
<1>3. \A r \in Routers : db[r].ver \in 0..MaxChanges
  <2>1. 1..MaxChanges \subseteq 0..MaxChanges
    BY Numbers
  <2> QED
    BY <1>1, <2>1
<1>4. NoSync \in Syncs /\ NoSync.pc = "idle" /\ NoSync.ts = 0 /\ 0 <= clock
  BY <1>1, NoSyncTyped
<1>5. ASSUME UNCHANGED <<db, changes, alive, notes, queue, exclusive, stamps, routerInfo, cfg>>,
             revived' \in {"no", "answer", "lost"},
             sync' \in Syncs, clock' \in Nat, chunk' \in MinChunk..MaxChunk, ns' \subseteq Routers,
             UNCHANGED <<fullsync, cleanStale>>, requested' \in BOOLEAN, faults' \in 0..MaxFaults,
             clock <= clock', sync'.ts <= clock',
             sync'.pc \in {"ids", "ask", "got"} =>
                \A v \in queue : v.ts <= sync'.ts => v.ver <= sync'.read[v.id]
      PROVE  L3Inv'
  <2>1. masters' = masters /\ mqueue' = mqueue /\ work' = work
    BY <1>5 DEF exclusive
  <2>2. TypeOK'
    BY <1>1, <1>5, <2>1 DEF TypeOK
  <2>3. SyncCovers'
    BY <1>5 DEF SyncCovers
  <2> QED
    BY <1>5, <2>1, <2>2, <2>3, Unconcerned
<1>6. /\ chunk \in MinChunk..MaxChunk /\ requested \in BOOLEAN /\ faults \in 0..MaxFaults
      /\ revived \in {"no", "answer", "lost"}
  BY <1>1 DEF TypeOK
<1>7. CASE SyncEnter
  <2> DEFINE y == [NoSync EXCEPT !.pc = "enter", !.snap = IF cleanStale THEN ns ELSE {}]
  <2>1. y \in Syncs /\ y.pc = "enter" /\ y.ts = 0
    <3> DEFINE z == IF cleanStale THEN ns ELSE {}
    <3>1. z \subseteq Routers
      BY <1>1
    <3> HIDE DEF z
    <3>2. /\ [NoSync EXCEPT !.pc = "enter", !.snap = z] \in Syncs
          /\ [NoSync EXCEPT !.pc = "enter", !.snap = z].pc = "enter"
          /\ [NoSync EXCEPT !.pc = "enter", !.snap = z].ts = 0
      BY <1>4, <3>1 DEF Syncs
    <3> QED
      BY <3>2 DEF z
  <2>2. sync' = y
    BY <1>7 DEF SyncEnter
  <2> HIDE DEF y
  <2> QED
    BY <1>1, <1>4, <1>5, <1>6, <1>7, <2>1, <2>2 DEF SyncEnter, server
<1>8. CASE SyncBegin
  <2> DEFINE y == [sync EXCEPT !.pc = "ask_ids", !.prev = routerInfo, !.ts = clock + 1]
  <2>1. y \in Syncs /\ y.pc = "ask_ids" /\ y.ts = clock + 1
    <3>1. clock + 1 \in Nat
      BY <1>1
    <3> QED
      BY <1>1, <3>1 DEF Syncs
  <2>2. sync' = y /\ clock' = clock + 1 /\ requested' = FALSE
    BY <1>8 DEF SyncBegin
  <2> HIDE DEF y
  <2>3. clock <= clock' /\ sync'.ts <= clock' /\ clock' \in Nat
    BY <1>1, <2>1, <2>2
  <2> QED
    BY <1>1, <1>5, <1>6, <1>8, <2>1, <2>2, <2>3 DEF SyncBegin
<1>9. CASE SyncReadIds
  <2> DEFINE i == {r \in Routers : db[r].on}
             d == [r \in Routers |-> db[r].ver]
             y == [sync EXCEPT !.pc = "ids", !.ids = i, !.read = d]
  <2>1. i \subseteq Routers /\ d \in [Routers -> 0..MaxChanges] /\ \A r \in Routers : d[r] = db[r].ver
    BY <1>3
  <2>2. sync' = y
    BY <1>9 DEF SyncReadIds
  <2> HIDE DEF i, d
  <2>3. y \in Syncs /\ y.ts = sync.ts /\ y.read = d
    BY <1>1, <2>1 DEF Syncs
  <2> HIDE DEF y
  <2>4. \A v \in queue : v.ver <= sync'.read[v.id]
    BY <1>2, <2>1, <2>2, <2>3
  <2> QED
    BY <1>1, <1>5, <1>6, <1>9, <2>2, <2>3, <2>4 DEF SyncReadIds, server
<1>10. CASE SyncReadChunk
  <2>1. PICK c \in kSubset(Min({chunk, Cardinality(sync.ids)}), sync.ids) :
          sync' = [sync EXCEPT !.pc = "got", !.ids = @ \ c, !.found = {r \in c : db[r].on},
                               !.read = [r \in Routers |-> IF r \in c THEN db[r].ver ELSE @[r]]]
    BY <1>10, Zenon DEF SyncReadChunk
  <2> DEFINE i == sync.ids \ c
             f == {r \in c : db[r].on}
             d == [r \in Routers |-> IF r \in c THEN db[r].ver ELSE sync.read[r]]
             y == [sync EXCEPT !.pc = "got", !.ids = i, !.found = f, !.read = d]
  <2>2. sync' = y
    BY <2>1
  <2>3. i \subseteq Routers /\ f \subseteq Routers /\ d \in [Routers -> 0..MaxChanges]
    BY <1>1, <1>3 DEF Syncs, kSubset
  <2>4. \A r \in Routers : d[r] = db[r].ver \/ d[r] = sync.read[r]
    OBVIOUS
  <2> HIDE DEF i, f, d
  <2>5. y \in Syncs /\ y.ts = sync.ts /\ y.read = d
    BY <1>1, <2>3 DEF Syncs
  <2> HIDE DEF y
  <2>6. sync.pc = "ask"
    BY <1>10 DEF SyncReadChunk
  <2>7. \A v \in queue : v.ts <= sync'.ts => v.ver <= sync'.read[v.id]
    BY <1>1, <1>2, <2>2, <2>4, <2>5, <2>6 DEF SyncCovers
  <2> QED
    BY <1>1, <1>5, <1>6, <1>10, <2>2, <2>5, <2>7 DEF SyncReadChunk, server
<1>11. CASE SyncFails
  <2>1. chunk' \in MinChunk..MaxChunk
    BY <1>6, <1>11, Chunks DEF SyncFails
  <2>2. faults' \in 0..MaxFaults
    BY <1>6, <1>11, L3Assumption DEF SyncFails, Fault
  <2>3. sync' = NoSync
    BY <1>11 DEF SyncFails
  <2> QED
    BY <1>1, <1>4, <1>5, <1>6, <1>11, <2>1, <2>2, <2>3 DEF SyncFails, server
<1>12. CASE SyncClean
  <2>1. PICK r \in sync.snap :
          /\ ns' = ns \ {r}
          /\ sync' = IF sync.snap = {r} THEN NoSync ELSE [sync EXCEPT !.snap = @ \ {r}]
    BY <1>12 DEF SyncClean
  <2>2. sync' \in Syncs /\ sync'.ts <= clock /\ sync'.pc \in {"idle", "clean"}
    <3>1. CASE sync' = NoSync
      BY <1>4, <3>1
    <3>2. CASE sync' = [sync EXCEPT !.snap = @ \ {r}]
      <4>1. /\ [sync EXCEPT !.snap = @ \ {r}] \in Syncs
            /\ [sync EXCEPT !.snap = @ \ {r}].ts = sync.ts
            /\ [sync EXCEPT !.snap = @ \ {r}].pc = sync.pc
        BY <1>1 DEF Syncs
      <4>2. sync.pc = "clean"
        BY <1>12 DEF SyncClean
      <4> QED
        BY <1>1, <3>2, <4>1, <4>2
    <3> QED
      BY <2>1, <3>1, <3>2
  <2>3. ns' \subseteq Routers
    BY <1>1, <2>1
  <2> QED
    BY <1>1, <1>5, <1>6, <1>12, <2>2, <2>3 DEF SyncClean, server
<1> QED
  BY <1>7, <1>8, <1>9, <1>10, <1>11, <1>12, SyncAnswerKeeps DEF SyncStep
-----------------------------------------------------------------------------
(* The theorems.                                                             *)

\* An agent that starts knows nothing and owes nothing.
LEMMA L3Initially == Init => L3Inv
<1> SUFFICES ASSUME Init PROVE L3Inv
  OBVIOUS
<1>1. 0 \in 0..MaxChanges /\ 1 \in 1..MaxChanges /\ 0 \in 0..MaxFaults /\ MaxChunk \in MinChunk..MaxChunk
  BY L3Assumption
<1>2. <<>> \in Seq(Updates) /\ <<>> \in Seq(Notes) /\ DOMAIN <<>> = {}
  BY EmptySeq
<1>3. db \in [Routers -> [ver : 1..MaxChanges, on : BOOLEAN]] /\ \A r \in Routers : db[r].ver = 1
  BY <1>1 DEF Init
<1>4. TypeOK
  BY <1>1, <1>2, <1>3, NoSyncTyped DEF Init, TypeOK
<1>5. MastersWork /\ AllKnown /\ NotesOrdered
  <2>1. MastersWork
    BY <1>2 DEF Init, MastersWork
  <2>2. AllKnown
    BY <1>2 DEF Init, AllKnown
  <2>3. NotesOrdered
    BY <1>2, <1>3 DEF Init, NotesOrdered
  <2> QED
    BY <2>1, <2>2, <2>3
<1>6. StampsArePast /\ SyncCovers
  BY NoSyncTyped DEF Init, StampsArePast, SyncCovers
<1>7. QueueOrdered /\ MasterQueueOrdered /\ WorkOrdered
  BY <1>2 DEF Init, QueueOrdered, MasterQueueOrdered, WorkOrdered
<1>8. StaleIsCovered
  BY <1>2 DEF Init, StaleIsCovered
<1> QED
  BY <1>4, <1>5, <1>6, <1>7, <1>8 DEF L3Inv

\* Every step of the agent, its workers and the server keeps the invariant.
LEMMA L3Step == L3Inv /\ [Next]_vars => L3Inv'
<1> SUFFICES ASSUME L3Inv, [Next]_vars PROVE L3Inv'
  OBVIOUS
<1>1. /\ TypeOK /\ StampsArePast /\ SyncCovers /\ alive \in BOOLEAN /\ MaxFaults \in Nat
      /\ revived \in {"no", "answer", "lost"}
      /\ faults \in 0..MaxFaults /\ clock \in Nat
  BY L3Assumption DEF L3Inv, TypeOK
<1>2. ASSUME UNCHANGED <<db, changes, notes, clock, queue, exclusive, stamps, cfg, sync>>,
             UNCHANGED <<routerInfo, ns, cleanStale, chunk>>,
             alive' \in BOOLEAN, revived' \in {"no", "answer", "lost"},
             fullsync' \in BOOLEAN, requested' \in BOOLEAN, faults' \in 0..MaxFaults
      PROVE  L3Inv'
  <2>1. masters' = masters /\ mqueue' = mqueue /\ work' = work
    BY <1>2 DEF exclusive
  <2>2. TypeOK'
    BY <1>1, <1>2, <2>1 DEF TypeOK
  <2>3. SyncCovers'
    BY <1>1, <1>2 DEF SyncCovers
  <2>4. clock <= clock' /\ sync'.ts <= clock'
    BY <1>1, <1>2 DEF StampsArePast
  <2> QED
    BY <1>2, <2>2, <2>3, <2>4, Unconcerned
<1>3. CASE Server
  <2>1. PICK r \in Routers : UpdateRouter(r) \/ AddRouterToAgent(r) \/ RemoveRouterFromAgent(r)
    BY <1>3 DEF Server
  <2>2. /\ TRUE \in BOOLEAN /\ FALSE \in BOOLEAN
        /\ "updated" \in {"updated", "deleted"} /\ "deleted" \in {"updated", "deleted"}
    OBVIOUS
  <2>3. \/ Commit(r, TRUE, "updated", alive) \/ Commit(r, TRUE, "updated", TRUE)
        \/ Commit(r, FALSE, "deleted", TRUE)
    BY <2>1 DEF UpdateRouter, AddRouterToAgent, RemoveRouterFromAgent
  <2>4. Commit(r, TRUE, "updated", alive) => L3Inv'
    BY <1>1, <2>2, CommitKeeps, Zenon
  <2>5. Commit(r, TRUE, "updated", TRUE) => L3Inv'
    BY <2>2, CommitKeeps, Zenon
  <2>6. Commit(r, FALSE, "deleted", TRUE) => L3Inv'
    BY <2>2, CommitKeeps, Zenon
  <2> QED
    BY <2>3, <2>4, <2>5, <2>6
<1>4. CASE HeartbeatLapses
  <2>1. faults' \in 0..MaxFaults
    BY <1>1, <1>4 DEF HeartbeatLapses, Fault
  <2>2. alive' \in BOOLEAN
    BY <1>4 DEF HeartbeatLapses
  <2> QED
    BY <1>1, <1>2, <1>4, <2>1, <2>2 DEF HeartbeatLapses, syncing, TypeOK
<1>5. CASE ReportState \/ ReportReturns
  <2>1. requested \in BOOLEAN /\ fullsync \in BOOLEAN
    BY <1>1 DEF TypeOK
  <2> QED
    BY <1>1, <1>2, <1>5, <2>1 DEF ReportState, ReportReturns, RequestFullSync, syncing
<1>6. CASE AgentUpdated
  <2>1. faults' \in 0..MaxFaults
    BY <1>1, <1>6 DEF AgentUpdated, Fault
  <2> QED
    BY <1>1, <1>2, <1>6, <2>1 DEF AgentUpdated, RequestFullSync, server
<1>7. CASE UNCHANGED vars
  BY <1>1, <1>2, <1>7 DEF vars, server, syncing, TypeOK
<1> QED
  BY <1>3, <1>4, <1>5, <1>6, <1>7, NotifiedKeeps, WorkerKeeps, SyncKeeps DEF Next

\* The queues of the agent hold updates, in an order that never lets an older
\* timestamp hide a change that the newer data do not contain.
THEOREM L3Invariant == Spec => []L3Inv
  BY L3Initially, L3Step, PTL DEF Spec

\* Every queue, record and flag of the agent, and the server's rows, have the values
\* their users expect, however many routers, workers and failures there are.
THEOREM L3Types == Spec => []TypeOK
<1>1. L3Inv => TypeOK
  BY DEF L3Inv
<1> QED
  BY <1>1, L3Invariant, PTL

\* ExclusiveRouterProcessor: no two workers process a router at once.
THEOREM OneWorkerPerRouter == Spec => []ExclusiveRouter
<1>1. L3Inv => ExclusiveRouter
  BY DEF L3Inv, MastersWork, ExclusiveRouter
<1> QED
  BY <1>1, L3Invariant, PTL

\* _router_timestamps: an update that is dropped as stale announces a change the
\* agent has processed already.
THEOREM NoNotificationIsForgotten == Spec => []StaleIsCovered
<1>1. L3Inv => StaleIsCovered
  BY DEF L3Inv
<1> QED
  BY <1>1, L3Invariant, PTL
=============================================================================
