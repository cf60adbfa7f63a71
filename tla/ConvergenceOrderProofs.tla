----------------------- MODULE ConvergenceOrderProofs -----------------------
(***************************************************************************)
(* What the convergence engine promises of resources, when the operations  *)
(* on a stack follow one another (InOrder): they are created once, after   *)
(* what they require, and deleted after what requires them.  And when      *)
(* nothing fails (Smooth): a stack that is COMPLETE is what its template   *)
(* describes, and no row goes before its physical resource.                *)
(***************************************************************************)
EXTENDS ConvergenceProofs

-----------------------------------------------------------------------------
(* Steps of threads that check nothing.                                      *)

\* Such a step changes nothing that a check relies on.
QuietStep(w) ==
    /\ StackKept /\ PointsKept /\ UNCHANGED <<rsrc, nextId, phys>> /\ casts' \subseteq casts
    /\ th'[w].pc \notin Checks \cup Launching /\ (w \in Ops => th'[w].pc # "idle")
    /\ \A v \in Threads \ {w} : th'[v] = th[v]

\* So the checks go on.
LEMMA QuietKeepsOrder ==
    ASSUME OrderInv, stack.live, \A v \in Threads : th[v].pc \notin Launching,
           NEW w \in Threads, th[w].pc \notin Checks, QuietStep(w)
    PROVE  OrderInv'
<1>1. /\ ThereInv /\ TmplInv /\ RowInv
      /\ \E current \in Currents : CheckInv(current)
  BY DEF OrderInv
<1>2. PICK current \in Currents : CheckInv(current)
  BY <1>1
<1>3. /\ stack'.live = stack.live /\ stack'.trav = stack.trav /\ stack'.tmpl = stack.tmpl
      /\ stack'.deps = stack.deps
      /\ UNCHANGED <<rsrc, nextId, phys>> /\ casts' \subseteq casts
      /\ \A v \in Threads \ {w} : th'[v] = th[v]
      /\ th'[w].pc \notin Checks \cup Launching /\ (w \in Ops => th'[w].pc # "idle")
  BY DEF QuietStep, StackKept, Checks, Launching
<1>4. StackKept /\ PointsKept /\ Better
  BY <1>3 DEF QuietStep, Better, Serving, Cleaned
<1>5. /\ Checking' = Checking /\ Served' \subseteq Served
      /\ \A v \in Checking : v \in Threads /\ v # w /\ th'[v] = th[v]
  BY <1>3 DEF Checking, Served
<1>6. Tokens' \subseteq Tokens
  <2>1. \A v \in Checking : WorkerToken(v)' = WorkerToken(v)
    BY <1>3, <1>5 DEF WorkerToken, Stands
  <2>2. \A m \in Served : CastToken(m)' = CastToken(m)
    BY <1>3 DEF CastToken, Stands
  <2> QED
    BY <1>5, <2>1, <2>2, Zenon DEF Tokens
<1>7. IdsApart' /\ KeysApart'
  BY <1>1, <1>2, <1>4, <1>6, FewerTokens DEF ThereInv, CheckInv
<1>8. \A v \in Checking : WorkerOK(th[v])' /\ NotThere(th[v])'
  <2> SUFFICES ASSUME NEW v \in Checking PROVE WorkerOK(th[v])' /\ NotThere(th[v])'
    OBVIOUS
  <2>1. WorkerOK(th[v]) /\ NotThere(th[v])
    BY <1>1 DEF RowInv, ThereInv
  <2>2. \A a : Same(a, a)
    BY DEF Same
  <2> QED
    BY <1>3, <1>4, <1>5, <2>1, <2>2, OtherWorkerOK
<1>9. ThereInv'
  BY <1>1, <1>3, <1>5, <1>7, <1>8 DEF ThereInv
<1>10. TmplInv' /\ \A v \in Threads : th'[v].pc \notin Launching
  <2>1. \A v \in Threads : th'[v].pc \notin Launching
    BY <1>3
  <2>2. \A p \in Ops : th[p].pc # "idle" => th'[p].pc # "idle"
    BY <1>3 DEF Threads
  <2> QED
    BY <1>1, <1>3, <2>1, <2>2, TmplKeeps
<1>11. \A j \in DOMAIN rsrc : RowOK(j)' /\ ClaimOK(j)'
  <2> SUFFICES ASSUME NEW j \in DOMAIN rsrc PROVE RowOK(j)' /\ ClaimOK(j)'
    OBVIOUS
  <2>1. RowOK(j) /\ ClaimOK(j)
    BY <1>1, <1>2 DEF RowInv, CheckInv
  <2>2. Same(rsrc'[j], rsrc[j]) /\ ClaimsLike(rsrc'[j], rsrc[j])
    BY <1>3 DEF Same, ClaimsLike
  <2>3. ~(ActsOn(th[w], j) \/ th[w].pc = "destroy")
    BY DEF ActsOn, Checks
  <2>4. RowOK(j)'
    BY <1>3, <2>1, <2>2, <2>3, OtherRowOK
  <2>5. ClaimOK(j)'
    BY <1>4, <2>1, <2>2, ClaimStays
  <2> QED
    BY <2>4, <2>5
<1>12. RowInv'
  <2>1. \A m \in Served' : CastOK(m)'
    <3> SUFFICES ASSUME NEW m \in Served PROVE CastOK(m)'
      BY <1>5
    <3>1. CastOK(m)
      BY <1>1 DEF RowInv
    <3> QED
      BY <1>3, <3>1 DEF CastOK
  <2> QED
    BY <1>3, <1>5, <1>8, <1>11, <2>1 DEF RowInv
<1>13. ReplacementOK'
  <2>1. ReplacementOK
    BY <1>2 DEF CheckInv
  <2> QED
    BY <1>3, <1>5, <2>1 DEF ReplacementOK
<1>14. \A x \in Tokens' : TokenOK(x, current)'
  <2> SUFFICES ASSUME NEW x \in Tokens' PROVE TokenOK(x, current)'
    OBVIOUS
  <2>1. TokenOK(x, current) /\ Like(x, x)
    BY <1>2, <1>6 DEF CheckInv, Like
  <2> QED
    BY <1>4, <2>1, TokenStays, Zenon
<1>15. DOMAIN sp' # {} => PointsOK(current)'
  BY <1>2, <1>4, PointsStayOK DEF CheckInv, PointsKept
<1>16. GraphOK(stack.deps, stack.tmpl, current)' /\ NamesOK(stack.tmpl, current)'
  BY <1>2, <1>3, Zenon DEF CheckInv, GraphOK, NamesOK, Ids
<1>17. CheckInv(current)'
  BY <1>3, <1>7, <1>11, <1>13, <1>14, <1>15, <1>16 DEF CheckInv
<1>18. current \in Currents' /\ stack'.live
  BY <1>2, <1>3 DEF Currents, Ids
<1> QED
  BY <1>9, <1>10, <1>12, <1>17, <1>18, ChecksGoOn

\* A thread that has nothing to do any more.
LEMMA GoneIsQuiet ==
    ASSUME NEW w, Gone(w)
    PROVE  /\ th'[w].pc \in {"idle", "finished"} /\ th'[w].pc \notin Checks \cup Launching
           /\ w \in Ops => th'[w].pc # "idle"
           /\ \A v \in Threads \ {w} : th'[v] = th[v]
  BY DEF Gone, Returned, Checks, Launching

\* The end of a traversal disturbs no check.
LEMMA EndsQuietly ==
    ASSUME TravInv, SeqInv, stack.live, NEW w \in Threads,
           \/ MarkComplete(w) \/ HandleFailure(w) \/ PurgeTemplate(w)
           \/ PurgeSyncPoints(w) /\ stack'.live
           \/ ReloadAfterTimeout(w) \/ Retrigger(w)
    PROVE  th[w].pc \in EndPcs /\ QuietStep(w)
<1>1. CASE MarkComplete(w) \/ HandleFailure(w)
  <2>1. PICK status \in {"COMPLETE", "FAILED"} :
           th[w].pc \in EndPcs \ {"purge", "purge_points"} /\ StateStored(w, status)
    BY <1>1, StateIsStored DEF EndPcs
  <2> DEFINE st == [th[w].st EXCEPT !.status = status]
  <2>2. th[w].st.trav = stack.trav /\ TypeOK /\ stack \in Stacks /\ th[w].st \in Stacks
    BY <2>1, EndFacts
  <2>3. /\ UNCHANGED <<rsrc, nextId, nextTrav, sp, casts, phys, dead>>
        /\ StateSet(st)
        /\ \/ th' = [th EXCEPT ![w].st = st, ![w].pc = "purge"]
           \/ ~Current(th[w].st.trav) /\ Return(w)
           \/ ~Current(th[w].st.trav) /\ Goto(w, "retrigger")
    BY <2>1, Zenon DEF StateStored
  <2>4. Current(th[w].st.trav)
    BY <2>2 DEF Current
  <2> HIDE DEF st
  <2>5. Becomes(w, "purge", st, th[w].rs, th[w].out)
    BY <2>2, <2>3, <2>4, Forms, Zenon
  <2>6. StackKept
    BY <2>2, <2>3, Zenon DEF StateSet, StackKept, Stacks
  <2> QED
    BY <2>1, <2>3, <2>5, <2>6 DEF QuietStep, PointsKept, Becomes, Checks, Launching
<1>2. CASE PurgeTemplate(w)
  <2> DEFINE st == [th[w].st EXCEPT !.prev = None]
  <2>1. /\ th[w].pc = "purge" /\ UNCHANGED <<rsrc, nextId, sp, casts, phys>>
        /\ UNCHANGED stack \/ Store(st, th[w].st.trav)
        /\ (~Current(th[w].st.trav) /\ Return(w)) \/ Goto(w, "purge_points")
    BY <1>2, Zenon DEF PurgeTemplate, At
  <2>2. /\ th[w].st.trav = stack.trav /\ TypeOK /\ th[w].st.live /\ th[w].st.tmpl = stack.tmpl
        /\ th[w].st \in Stacks /\ th[w].pc \in EndPcs
    BY <2>1, EndFacts DEF EndPcs
  <2>3. th[w].st.deps = stack.deps
    <3>1. GraphAgrees(th[w], stack) /\ UsesGraph(th[w])
      BY <2>1 DEF TravInv, ThreadOK, UsesGraph
    <3> QED
      BY <2>2, <3>1 DEF GraphAgrees
  <2>4. /\ st.live = th[w].st.live /\ st.trav = th[w].st.trav /\ st.tmpl = th[w].st.tmpl
        /\ st.deps = th[w].st.deps
    BY <2>2, Zenon DEF Stacks
  <2> HIDE DEF st
  <2>5. StackKept
    BY <2>1, <2>2, <2>3, <2>4, Zenon DEF StackKept, Store
  <2>6. Becomes(w, "purge_points", th[w].st, th[w].rs, th[w].out)
    <3>1. Goto(w, "purge_points")
      BY <2>1, <2>2 DEF Current
    <3> QED
      BY <2>2, <3>1, Forms, Zenon
  <2> QED
    BY <2>1, <2>2, <2>5, <2>6 DEF QuietStep, PointsKept, Becomes, Checks, Launching
<1>3. CASE PurgeSyncPoints(w) /\ stack'.live
  <2>1. th[w].pc = "purge_points"
    BY <1>3 DEF PurgeSyncPoints, At
  <2>2. /\ th[w].st.trav = stack.trav /\ TypeOK /\ PointsArePurged /\ th[w].pc \in EndPcs
        /\ stack \in Stacks
    BY <2>1, EndFacts DEF EndPcs
  <2>3. /\ UNCHANGED <<stack, rsrc, nextId, casts, phys>> /\ Return(w)
        /\ sp' = Restrict(sp, DOMAIN sp \ {th[w].st.trav})
    BY <1>3, <2>2 DEF PurgeSyncPoints, Stacks
  <2>4. DOMAIN sp' = {}
    BY <2>2, <2>3 DEF PointsArePurged, Restrict
  <2>5. Gone(w)
    BY <2>2, <2>3, Forms, Zenon
  <2>6. StackKept /\ PointsKept
    BY <2>3, <2>4, Zenon DEF StackKept, PointsKept
  <2> QED
    BY <2>2, <2>3, <2>5, <2>6, GoneIsQuiet DEF QuietStep
<1>4. CASE ReloadAfterTimeout(w) \/ Retrigger(w)
  <2>1. /\ th[w].pc \in {"reload", "retrigger"} /\ UNCHANGED <<stack, rsrc, nextId, sp, casts, phys>>
        /\ \/ Return(w)
           \/ th' = [th EXCEPT ![w].st = stack, ![w].pc = "fail"]
    <3>1. CASE ReloadAfterTimeout(w)
      BY <3>1 DEF ReloadAfterTimeout, At, db, Current
    <3>2. CASE Retrigger(w)
      <4>1. th[w].pc = "retrigger" /\ UNCHANGED <<stack, rsrc, nextId, phys>> /\ Return(w)
        BY <3>2, Zenon DEF Retrigger, At
      <4>2. stack.trav = th[w].msg.trav
        BY <4>1 DEF SeqInv, Serves
      <4>3. UNCHANGED <<sp, casts>>
        BY <3>2, <4>2 DEF Retrigger
      <4> QED
        BY <4>1, <4>3
    <3> QED
      BY <1>4, <3>1, <3>2
  <2>2. TypeOK /\ th[w].pc \in EndPcs
    BY <2>1 DEF TravInv, EndPcs
  <2>3. Gone(w) \/ Becomes(w, "fail", stack, th[w].rs, th[w].out)
    BY <2>1, <2>2, Forms, Zenon
  <2>4. StackKept /\ PointsKept
    BY <2>1, Zenon DEF StackKept, PointsKept
  <2>5. CASE Gone(w)
    BY <2>1, <2>2, <2>4, <2>5, GoneIsQuiet DEF QuietStep
  <2>6. CASE Becomes(w, "fail", stack, th[w].rs, th[w].out)
    BY <2>1, <2>2, <2>4, <2>6 DEF QuietStep, Becomes, Checks, Launching
  <2> QED
    BY <2>3, <2>5, <2>6
<1> QED
  BY <1>1, <1>2, <1>3, <1>4

\* So they keep the invariant.
LEMMA EndKeepsOrder ==
    ASSUME TravInv, SeqInv, OrderInv, stack.live, NEW w \in Threads,
           \/ MarkComplete(w) \/ HandleFailure(w) \/ PurgeTemplate(w)
           \/ PurgeSyncPoints(w) /\ stack'.live
           \/ ReloadAfterTimeout(w) \/ Retrigger(w)
    PROVE  OrderInv'
<1>1. th[w].pc \in EndPcs /\ QuietStep(w)
  BY EndsQuietly
<1>2. Busy(th[w]) /\ th[w].pc \notin Launching \cup Checks
  BY <1>1 DEF Busy, Launching, Checks, EndPcs
<1>3. \A v \in Threads : th[v].pc \notin Launching
  BY <1>2, NobodyLaunches
<1> QED
  BY <1>1, <1>2, <1>3, QuietKeepsOrder

\* Messages that are out of date, or come too late.
LEMMA DroppedKeepsOrder ==
    ASSUME TravInv, SeqInv, OrderInv, stack.live, NEW w \in Threads, NEW m,
           (Receive(w, m) /\ Gone(w)) \/ ReceiveLate(w, m)
    PROVE  OrderInv'
<1>1. TypeOK
  BY DEF TravInv
<1>2. /\ th[w].pc = "idle" /\ m \in casts /\ casts' = casts \ {m}
      /\ UNCHANGED <<stack, rsrc, nextId, sp, phys>>
  BY <1>1 DEF Receive, ReceiveLate, At
<1>3. \A v \in Threads : th[v].pc \notin Launching
  BY <1>2 DEF SeqInv, LaunchAlone
<1>4. StackKept /\ PointsKept /\ th[w].pc \notin Checks
  BY <1>2, Zenon DEF StackKept, PointsKept, Checks
<1>5. CASE Gone(w)
  <2>1. QuietStep(w)
    BY <1>2, <1>4, <1>5, GoneIsQuiet DEF QuietStep
  <2> QED
    BY <1>3, <1>4, <2>1, QuietKeepsOrder
<1>6. CASE ReceiveLate(w, m)
  <2> DEFINE x == [Idle EXCEPT !.pc = "fail", !.st = stack, !.out = "timeout"]
  <2>1. th' = [th EXCEPT ![w] = x] /\ x.pc = "fail"
    BY <1>6 DEF ReceiveLate, Idle
  <2> HIDE DEF x
  <2>2. (\A v \in Threads \ {w} : th'[v] = th[v]) /\ th'[w].pc = "fail"
    BY <1>1, <2>1, ObjectWritten, Zenon
  <2>3. QuietStep(w)
    BY <1>2, <1>4, <2>2 DEF QuietStep, Checks, Launching
  <2> QED
    BY <1>3, <1>4, <2>3, QuietKeepsOrder
<1> QED
  BY <1>5, <1>6

-----------------------------------------------------------------------------
(* A message becomes a check.                                                *)

\* The worker holds what the message stood for.
LEMMA TokenIsTakenUp ==
    ASSUME OrderInv, stack.live, NEW w \in Threads, th[w].pc = "idle", NEW m \in Served,
           casts' = casts \ {m}, UNCHANGED <<stack, rsrc>>,
           \A v \in Threads \ {w} : th'[v] = th[v], TakesUp(w, m)
    PROVE  /\ CastToken(m) \in Tokens /\ Like(WorkerToken(w)', CastToken(m))
           /\ (WorkerToken(w)').id = m.id /\ CastToken(m).id = m.id
           /\ Tokens' \subseteq (Tokens \ {CastToken(m)}) \cup {WorkerToken(w)'}
<1>1. /\ th'[w].msg = m /\ th'[w].rs = rsrc[m.id] /\ th'[w].pc = "acquire"
      /\ w \notin Checking /\ "acquire" \in Checks
  BY DEF TakesUp, Checking, Checks
<1>2. CastToken(m) \in Tokens /\ CastToken(m).id = m.id /\ CastToken(m).of = <<"cast", m>>
  BY TokensAre
<1>3. Like(WorkerToken(w)', CastToken(m)) /\ (WorkerToken(w)').id = m.id
  BY <1>1 DEF WorkerToken, CastToken, Stands, Like
<1>4. Tokens' \subseteq (Tokens \ {CastToken(m)}) \cup {WorkerToken(w)'}
  <2> SUFFICES ASSUME NEW x \in Tokens', x # WorkerToken(w)'
               PROVE  x \in Tokens /\ x # CastToken(m)
    OBVIOUS
  <2>1. CASE \E v \in Checking' : x = WorkerToken(v)'
    <3>1. PICK v \in Checking' : x = WorkerToken(v)'
      BY <2>1
    <3>2. v \in Checking /\ th'[v] = th[v]
      BY <3>1 DEF Checking
    <3>3. x = WorkerToken(v)
      BY <3>1, <3>2 DEF WorkerToken, Stands
    <3>4. x.of = <<"worker", v>>
      BY <3>3, TokensAre
    <3> QED
      BY <1>2, <3>2, <3>3, <3>4, TokensAre
  <2>2. CASE \E c \in Served' : x = CastToken(c)'
    <3>1. PICK c \in Served' : x = CastToken(c)'
      BY <2>2
    <3>2. c \in Served /\ c # m
      BY <3>1 DEF Served
    <3>3. x = CastToken(c)
      BY <3>1 DEF CastToken, Stands
    <3>4. x.of = <<"cast", c>>
      BY <3>3, TokensAre
    <3> QED
      BY <1>2, <3>2, <3>3, <3>4, TokensAre
  <2> QED
    BY <2>1, <2>2, TokensAre, Zenon
<1> QED
  BY <1>2, <1>3, <1>4

\* What the worker has loaded is what the row says.
LEMMA TakenUpKnows ==
    ASSUME OrderInv, stack.live, NEW w \in Threads, NEW m \in Served,
           UNCHANGED <<stack, rsrc, phys>>, TakesUp(w, m),
           m.upd => rsrc[m.id].replaced_by = None \/ rsrc[m.id].tmpl = stack.tmpl,
           CastOK(m), ClaimOK(m.id)
    PROVE  WorkerOK(th[w])' /\ NotThere(th[w])'
<1>1. /\ th'[w].msg = m /\ th'[w].rs = rsrc[m.id] /\ th'[w].pc = "acquire"
      /\ m.id \in DOMAIN rsrc
  BY DEF TakesUp
<1>2. ThereInv
  BY DEF OrderInv
<1>3. NotThere(th[w])'
  BY <1>1, <1>2 DEF NotThere, ThereInv
<1>4. m.upd => rsrc[m.id].replaced_by = None
  BY DEF ClaimOK
<1>5. LoadedOK(th[w])'
  BY <1>1, <1>4 DEF LoadedOK, CastOK, Same
<1>6. WorkerOK(th[w])'
  BY <1>1, <1>5 DEF WorkerOK, Loaded
<1> QED
  BY <1>3, <1>6

\* Nothing else is disturbed.
LEMMA TakenUpKeepsOrder ==
    ASSUME TravInv, SeqInv, OrderInv, stack.live, NEW w \in Threads, NEW m, Receive(w, m), ~Gone(w)
    PROVE  OrderInv'
<1>1. TypeOK /\ w \notin Ops
  BY ConvergenceAssumption DEF TravInv, Receive
<1>2. /\ th[w].pc = "idle" /\ m \in casts /\ casts' = casts \ {m}
      /\ UNCHANGED <<stack, rsrc, nextId, nextTrav, sp, phys, dead>>
      /\ \A v \in Threads \ {w} : th'[v] = th[v]
      /\ TakesUp(w, m)
      /\ m.upd => rsrc[m.id].replaced_by = None \/ rsrc[m.id].tmpl = stack.tmpl
  BY <1>1, ReceiveDoes
<1>3. \A v \in Threads : th[v].pc \notin Launching
  BY <1>2 DEF SeqInv, LaunchAlone
<1>4. ThereInv /\ TmplInv /\ RowInv /\ \E current \in Currents : CheckInv(current)
  BY <1>3 DEF OrderInv
<1>5. PICK current \in Currents : CheckInv(current)
  BY <1>4
<1>6. /\ m \in Served /\ Served' = Served \ {m} /\ Checking' = Checking \cup {w}
      /\ w \notin Checking /\ th'[w].msg = m /\ th'[w].rs = rsrc[m.id] /\ th'[w].pc = "acquire"
  BY <1>2 DEF TakesUp, Served, Checking, Checks
<1>7. StackKept /\ PointsKept /\ Better
  BY <1>2, Zenon DEF StackKept, PointsKept, Better, Serving, Cleaned
<1>8. PICK c, n : c = CastToken(m) /\ n = WorkerToken(w)'
  OBVIOUS
<1>9. /\ c \in Tokens /\ Like(n, c) /\ n.id = m.id /\ c.id = m.id
      /\ Tokens' \subseteq (Tokens \ {c}) \cup {n}
  BY <1>2, <1>6, <1>8, TokenIsTakenUp
<1>10. IdsApart' /\ KeysApart'
  <2>1. IdsApart /\ KeysApart /\ \A x \in Tokens \ {c} : x.id # n.id
    BY <1>4, <1>5, <1>9 DEF ThereInv, CheckInv, IdsApart
  <2> QED
    BY <1>7, <1>9, <2>1, HandedOver
<1>11. \A x \in Tokens' : TokenOK(x, current)'
  <2> SUFFICES ASSUME NEW x \in Tokens' PROVE TokenOK(x, current)'
    OBVIOUS
  <2>1. CASE x = n
    <3>1. TokenOK(c, current)
      BY <1>5, <1>9 DEF CheckInv
    <3> QED
      BY <1>7, <1>9, <2>1, <3>1, TokenStays, Zenon
  <2>2. CASE x # n
    <3>1. TokenOK(x, current) /\ Like(x, x)
      BY <1>5, <1>9, <2>2 DEF CheckInv, Like
    <3> QED
      BY <1>7, <3>1, TokenStays, Zenon
  <2> QED
    BY <2>1, <2>2
<1>12. WorkerOK(th[w])' /\ NotThere(th[w])'
  <2>1. CastOK(m) /\ ClaimOK(m.id)
    BY <1>4, <1>5, <1>6 DEF RowInv, CheckInv, Served
  <2> QED
    BY <1>2, <1>6, <2>1, TakenUpKnows
<1>13. \A v \in Checking' : WorkerOK(th[v])' /\ NotThere(th[v])'
  <2> SUFFICES ASSUME NEW v \in Checking PROVE WorkerOK(th[v])' /\ NotThere(th[v])'
    BY <1>6, <1>12
  <2>1. WorkerOK(th[v]) /\ NotThere(th[v]) /\ th'[v] = th[v]
    BY <1>2, <1>4, <1>6 DEF RowInv, ThereInv, Checking
  <2>2. \A a : Same(a, a)
    BY DEF Same
  <2> QED
    BY <1>2, <1>7, <2>1, <2>2, OtherWorkerOK
<1>14. ThereInv'
  BY <1>2, <1>4, <1>10, <1>13 DEF ThereInv
<1>15. TmplInv' /\ \A v \in Threads : th'[v].pc \notin Launching
  <2>1. \A v \in Threads : th'[v].pc \notin Launching
    BY <1>2, <1>3, <1>6 DEF Launching
  <2>2. \A p \in Ops : th'[p] = th[p]
    BY <1>1, <1>2 DEF Threads
  <2> QED
    BY <1>2, <1>4, <2>1, <2>2, TmplKeeps
<1>16. \A j \in DOMAIN rsrc : RowOK(j)' /\ ClaimOK(j)'
  <2> SUFFICES ASSUME NEW j \in DOMAIN rsrc PROVE RowOK(j)' /\ ClaimOK(j)'
    OBVIOUS
  <2>1. RowOK(j) /\ ClaimOK(j)
    BY <1>4, <1>5 DEF RowInv, CheckInv
  <2>2. Same(rsrc'[j], rsrc[j]) /\ ClaimsLike(rsrc'[j], rsrc[j])
    BY <1>2 DEF Same, ClaimsLike
  <2>3. ~(ActsOn(th[w], j) \/ th[w].pc = "destroy")
    BY <1>2 DEF ActsOn
  <2>4. RowOK(j)'
    BY <1>2, <2>1, <2>2, <2>3, OtherRowOK
  <2>5. ClaimOK(j)'
    BY <1>7, <2>1, <2>2, ClaimStays
  <2> QED
    BY <2>4, <2>5
<1>17. RowInv'
  <2>1. \A d \in Served' : CastOK(d)'
    <3> SUFFICES ASSUME NEW d \in Served PROVE CastOK(d)'
      BY <1>6
    <3>1. CastOK(d)
      BY <1>4 DEF RowInv
    <3> QED
      BY <1>2, <3>1 DEF CastOK
  <2> QED
    BY <1>2, <1>13, <1>16, <2>1 DEF RowInv
<1>18. ReplacementOK'
  <2> SUFFICES ASSUME NEW d \in Served, <<d.id, d.upd>> \notin stack.deps.nodes
               PROVE  /\ \A i \in DOMAIN rsrc : rsrc[i].replaced_by = d.id => i = rsrc[d.id].replaces
                      /\ \A v \in Checking' :
                            th'[v].rs.replaced_by = d.id => th'[v].msg.id = rsrc[d.id].replaces
    BY <1>2, <1>6 DEF ReplacementOK
  <2>1. /\ \A i \in DOMAIN rsrc : rsrc[i].replaced_by = d.id => i = rsrc[d.id].replaces
        /\ \A v \in Checking : th[v].rs.replaced_by = d.id => th[v].msg.id = rsrc[d.id].replaces
    BY <1>5 DEF CheckInv, ReplacementOK
  <2>2. m.id \in DOMAIN rsrc
    BY <1>6 DEF Served
  <2>3. \A v \in Checking : th'[v] = th[v]
    BY <1>2, <1>6 DEF Checking
  <2> QED
    BY <1>6, <2>1, <2>2, <2>3
<1>19. DOMAIN sp' # {} => PointsOK(current)'
  BY <1>2, <1>5, <1>7, PointsStayOK DEF CheckInv
<1>20. GraphOK(stack.deps, stack.tmpl, current)' /\ NamesOK(stack.tmpl, current)'
  BY <1>2, <1>5, Zenon DEF CheckInv, GraphOK, NamesOK, Ids
<1>21. CheckInv(current)'
  BY <1>2, <1>10, <1>11, <1>16, <1>18, <1>19, <1>20 DEF CheckInv
<1>22. current \in Currents' /\ stack'.live
  BY <1>2, <1>5 DEF Currents, Ids
<1> QED
  BY <1>14, <1>15, <1>17, <1>21, <1>22, ChecksGoOn

-----------------------------------------------------------------------------
(* A check hands over to a replacement.                                      *)

\* Row k, whose check m is cast, replaces row i.
Replaced(w, i, k, m) ==
    /\ UNCHANGED <<stack, sp, phys>> /\ Gone(w)
    /\ k \notin Ids \cup DOMAIN rsrc \cup phys /\ k # None /\ Ids \subseteq Ids'
    /\ DOMAIN rsrc' = DOMAIN rsrc \cup {k} /\ casts' = casts \cup {m}
    /\ \A j \in DOMAIN rsrc \ {i} : rsrc'[j] = rsrc[j]
    /\ rsrc'[k].name = th[w].rs.name /\ rsrc'[k].action = "INIT" /\ rsrc'[k].status = "COMPLETE"
    /\ rsrc'[k].tmpl = stack.tmpl /\ rsrc'[k].replaces = i /\ rsrc'[k].replaced_by = None
    /\ i \in DOMAIN rsrc /\ i = th[w].msg.id
    /\ rsrc'[i].name = rsrc[i].name /\ rsrc'[i].action = rsrc[i].action
    /\ rsrc'[i].status = "COMPLETE" /\ rsrc'[i].tmpl = rsrc[i].tmpl
    /\ rsrc'[i].requires = rsrc[i].requires /\ rsrc'[i].replaces = rsrc[i].replaces
    /\ rsrc'[i].replaced_by = k
    /\ rsrc[i].action # "INIT" /\ rsrc[i].tmpl # stack.tmpl
    /\ m.id = k /\ m.upd = TRUE /\ m.data = th[w].msg.data
    /\ th[w].msg.upd = TRUE /\ <<i, TRUE>> \in stack.deps.nodes

\* The ids that anything carries have been handed out.
KnownIds ==
    /\ \A v \in Checking : th[v].msg.id \in Ids /\ th[v].rs.replaced_by \in Ids \cup {None}
    /\ \A c \in casts : c.id \in Ids
    /\ \A j \in DOMAIN rsrc : j \in Ids /\ rsrc[j].replaced_by \in Ids \cup {None}
    /\ \A n \in stack.deps.nodes : n[1] \in Ids

\* They have types.
LEMMA IdsAreKnown ==
    ASSUME TypeOK
    PROVE  KnownIds
<1>1. \A v \in Checking : th[v].msg.id \in Ids /\ th[v].rs.replaced_by \in Ids \cup {None}
  <2> SUFFICES ASSUME NEW v \in Checking
               PROVE  th[v].msg.id \in Ids /\ th[v].rs.replaced_by \in Ids \cup {None}
    OBVIOUS
  <2>1. th[v].msg \in Msgs /\ th[v].rs \in Rows
    BY ThreadFields DEF Checking
  <2> QED
    BY <2>1 DEF Msgs, Rows
<1>2. \A c \in casts : c.id \in Ids
  BY DEF TypeOK, Msgs
<1>3. \A j \in DOMAIN rsrc : j \in Ids /\ rsrc[j].replaced_by \in Ids \cup {None}
  BY DEF TypeOK, Rows
<1>4. \A n \in stack.deps.nodes : n[1] \in Ids
  BY DEF TypeOK, Stacks, Graphs, Nodes
<1> QED
  BY <1>1, <1>2, <1>3, <1>4 DEF KnownIds

\* That is what Replace does to a row that is there.
LEMMA ReplacedRow ==
    ASSUME TravInv, SeqInv, OrderInv, stack.live, NEW w \in Threads, Replace(w),
           NEW i, i = th[w].msg.id
    PROVE  /\ w \in Checking /\ w \notin Ops /\ th[w].pc = "replace" /\ Knows(w, i)
           /\ \E m : Replaced(w, i, nextId, m)
<1>1. TypeOK
  BY DEF TravInv
<1>2. th[w].pc = "replace" /\ IsReplaced(w)
  BY <1>1, ReplaceDoes
<1>3. w \in Checking /\ Knows(w, i) /\ th[w].msg \in Msgs /\ w \notin Ops
  BY <1>1, <1>2, CheckKnows, ThreadFields, ConvergenceAssumption DEF Checks, TravInv, WorkersCheck
<1>4. /\ th[w].msg.upd = TRUE /\ <<i, TRUE>> \in stack.deps.nodes /\ i \in DOMAIN rsrc
      /\ rsrc[i].tmpl # stack.tmpl /\ rsrc[i].action # "INIT" /\ th[w].st.tmpl = stack.tmpl
  BY <1>2, <1>3 DEF Knows, WorkerOK, Msgs
<1>5. PICK m : m = Cast(nextId, th[w].msg.trav, TRUE, th[w].msg.data)
  BY Zenon
<1>6. /\ UNCHANGED <<stack, sp, phys>> /\ Gone(w) /\ nextId' = nextId + 1
      /\ nextId \notin DOMAIN rsrc \cup Ids
      /\ DOMAIN rsrc' = DOMAIN rsrc \cup {nextId}
      /\ rsrc'[nextId] = NewRow(th[w].rs.name, th[w].st.tmpl, th[w].rs.requires, th[w].msg.id)
      /\ \A j \in DOMAIN rsrc \ {th[w].msg.id} : rsrc'[j] = rsrc[j]
      /\ th[w].msg.id \in DOMAIN rsrc =>
            /\ casts' = casts \cup {Cast(nextId, th[w].msg.trav, TRUE, th[w].msg.data)}
            /\ rsrc'[th[w].msg.id] = [rsrc[th[w].msg.id] EXCEPT !.status = "COMPLETE",
                                                                !.replaced_by = nextId]
  BY <1>2, Zenon DEF IsReplaced
<1>7. nextId \in Nat \ {0} /\ phys \subseteq Ids /\ rsrc[i] \in Rows
  BY <1>1, <1>4 DEF TypeOK
<1>8. nextId # None /\ Ids \subseteq Ids' /\ nextId \notin phys
  BY <1>6, <1>7 DEF Ids, None
<1>9. casts' = casts \cup {m} /\ m.id = nextId /\ m.upd = TRUE /\ m.data = th[w].msg.data
  BY <1>4, <1>5, <1>6 DEF Cast
<1>10. /\ rsrc'[nextId].name = th[w].rs.name /\ rsrc'[nextId].action = "INIT"
       /\ rsrc'[nextId].status = "COMPLETE" /\ rsrc'[nextId].tmpl = stack.tmpl
       /\ rsrc'[nextId].replaces = i /\ rsrc'[nextId].replaced_by = None
  BY <1>4, <1>6 DEF NewRow
<1>11. /\ rsrc'[i].name = rsrc[i].name /\ rsrc'[i].action = rsrc[i].action
       /\ rsrc'[i].status = "COMPLETE" /\ rsrc'[i].tmpl = rsrc[i].tmpl
       /\ rsrc'[i].requires = rsrc[i].requires /\ rsrc'[i].replaces = rsrc[i].replaces
       /\ rsrc'[i].replaced_by = nextId
  <2> DEFINE b == [rsrc[i] EXCEPT !.status = "COMPLETE"]
  <2>1. /\ b \in Rows /\ b.name = rsrc[i].name /\ b.action = rsrc[i].action
        /\ b.status = "COMPLETE" /\ b.tmpl = rsrc[i].tmpl
        /\ b.requires = rsrc[i].requires /\ b.replaces = rsrc[i].replaces
    BY <1>7 DEF Rows, Statuses
  <2>2. rsrc'[i] = [b EXCEPT !.replaced_by = nextId]
    BY <1>4, <1>6, SMTT(20)
  <2> HIDE DEF b
  <2> QED
    BY <2>1, <2>2 DEF Rows
<1>12. Replaced(w, i, nextId, m)
  BY <1>4, <1>6, <1>8, <1>9, <1>10, <1>11 DEF Replaced
<1> QED
  BY <1>2, <1>3, <1>12

\* The message holds what the worker stood for.
LEMMA TokenIsHandedOver ==
    ASSUME TypeOK, NEW w \in Checking, NEW i, NEW k, NEW m, Replaced(w, i, k, m)
    PROVE  /\ WorkerToken(w) \in Tokens /\ Like(CastToken(m)', WorkerToken(w))
           /\ (CastToken(m)').id = k /\ (CastToken(m)').upd = TRUE
           /\ Tokens' \subseteq (Tokens \ {WorkerToken(w)}) \cup {CastToken(m)'}
           /\ Checking' = Checking \ {w} /\ Served' \subseteq Served \cup {m}
<1>1. /\ UNCHANGED stack /\ i = th[w].msg.id /\ m.id = k /\ m.upd = TRUE /\ m.data = th[w].msg.data
      /\ rsrc'[k].name = th[w].rs.name /\ rsrc'[k].replaces = i /\ k \notin Ids
      /\ th[w].msg.upd = TRUE /\ <<i, TRUE>> \in stack.deps.nodes
      /\ DOMAIN rsrc' = DOMAIN rsrc \cup {k} /\ casts' = casts \cup {m}
      /\ \A j \in DOMAIN rsrc : rsrc'[j].name = rsrc[j].name /\ rsrc'[j].replaces = rsrc[j].replaces
  BY DEF Replaced
<1>2. KnownIds
  BY IdsAreKnown
<1>3. WorkerToken(w) \in Tokens /\ WorkerToken(w).of = <<"worker", w>>
  BY TokensAre
<1>4. /\ Like(CastToken(m)', WorkerToken(w)) /\ (CastToken(m)').id = k
      /\ (CastToken(m)').upd = TRUE
  <2>1. <<k, TRUE>> \notin stack.deps.nodes
    BY <1>1, <1>2 DEF KnownIds
  <2> QED
    BY <1>1, <2>1, Zenon DEF WorkerToken, CastToken, Stands, Like
<1>5. Checking' = Checking \ {w} /\ Served' \subseteq Served \cup {m}
  <2>1. th'[w].pc \notin Checks /\ \A v \in Threads \ {w} : th'[v] = th[v]
    BY GoneIsQuiet DEF Replaced
  <2>2. \A c \in casts : c.id # k
    BY <1>1, <1>2 DEF KnownIds
  <2> QED
    BY <1>1, <2>1, <2>2 DEF Checking, Served
<1>6. Tokens' \subseteq (Tokens \ {WorkerToken(w)}) \cup {CastToken(m)'}
  <2> SUFFICES ASSUME NEW x \in Tokens', x # CastToken(m)'
               PROVE  x \in Tokens /\ x # WorkerToken(w)
    OBVIOUS
  <2>1. CASE \E v \in Checking' : x = WorkerToken(v)'
    <3>1. PICK v \in Checking \ {w} : x = WorkerToken(v)'
      BY <1>5, <2>1
    <3>2. th'[v] = th[v]
      BY <3>1, GoneIsQuiet DEF Checking, Replaced
    <3>3. x = WorkerToken(v)
      BY <1>1, <3>1, <3>2 DEF WorkerToken, Stands
    <3>4. x.of = <<"worker", v>>
      BY <3>3, TokensAre
    <3> QED
      BY <1>3, <3>1, <3>3, <3>4, TokensAre
  <2>2. CASE \E c \in Served' : x = CastToken(c)'
    <3>1. PICK c \in Served' : x = CastToken(c)'
      BY <2>2
    <3>2. c \in Served
      BY <1>5, <3>1
    <3>3. x = CastToken(c)
      BY <1>1, <3>1, <3>2 DEF CastToken, Stands, Served
    <3>4. x.of = <<"cast", c>>
      BY <3>3, TokensAre
    <3> QED
      BY <1>3, <3>2, <3>3, <3>4, TokensAre
  <2> QED
    BY <2>1, <2>2, TokensAre
<1> QED
  BY <1>3, <1>4, <1>5, <1>6

\* Nothing that serves, and nothing that is clean, is replaced.
LEMMA ReplacedBetter ==
    ASSUME NEW w, NEW i, NEW k, NEW m, Replaced(w, i, k, m)
    PROVE  StackKept /\ PointsKept /\ Better
<1>1. StackKept /\ PointsKept
  BY DEF Replaced, StackKept, PointsKept
<1>2. /\ UNCHANGED <<stack, phys>> /\ DOMAIN rsrc' = DOMAIN rsrc \cup {k} /\ k \notin DOMAIN rsrc
      /\ rsrc'[k].tmpl = stack.tmpl /\ rsrc'[i].tmpl = rsrc[i].tmpl /\ rsrc[i].tmpl # stack.tmpl
      /\ \A j \in DOMAIN rsrc \ {i} : rsrc'[j] = rsrc[j]
  BY DEF Replaced
<1>3. Better
  BY <1>2 DEF Better, Serving, Cleaned
<1> QED
  BY <1>1, <1>3

\* What the rows say of themselves.
LEMMA ReplacedRows ==
    ASSUME OrderInv, stack.live, NEW w \in Threads, NEW i, i = th[w].msg.id, NEW k, NEW m,
           Replaced(w, i, k, m), RowInv, NEW current, CheckInv(current),
           NEW j \in DOMAIN rsrc'
    PROVE  RowOK(j)' /\ ClaimOK(j)' /\ (rsrc'[j].action = "INIT" => j \notin phys')
<1>1. /\ UNCHANGED <<stack, sp, phys>> /\ DOMAIN rsrc' = DOMAIN rsrc \cup {k}
      /\ k \notin DOMAIN rsrc \cup phys /\ k # None /\ i \in DOMAIN rsrc
      /\ \A l \in DOMAIN rsrc \ {i} : rsrc'[l] = rsrc[l]
      /\ rsrc'[k].action = "INIT" /\ rsrc'[k].status = "COMPLETE" /\ rsrc'[k].replaced_by = None
      /\ rsrc'[i].action = rsrc[i].action /\ rsrc'[i].status = "COMPLETE"
      /\ rsrc'[i].tmpl = rsrc[i].tmpl /\ rsrc'[i].requires = rsrc[i].requires
      /\ rsrc'[i].replaced_by = k /\ rsrc[i].action # "INIT" /\ rsrc[i].tmpl # stack.tmpl
      /\ \A v \in Threads \ {w} : th'[v] = th[v]
  BY GoneIsQuiet DEF Replaced
<1>2. StackKept /\ PointsKept /\ Better
  BY ReplacedBetter
<1>3. ThereInv
  BY DEF OrderInv
<1>4. CASE j = k
  BY <1>1, <1>4 DEF RowOK, ClaimOK, Claim
<1>5. CASE j = i
  <2>1. ClaimOK(i)
    BY <1>1 DEF CheckInv
  <2>2. Covered(i, stack.deps)'
    BY <1>1, <1>2, <2>1, Zenon DEF ClaimOK, Covered, Better
  <2>3. ClaimOK(i)'
    BY <1>1, <2>2 DEF ClaimOK, Claim
  <2>4. RowOK(i)'
    BY <1>1 DEF RowOK
  <2> QED
    BY <1>1, <1>5, <2>3, <2>4
<1>6. CASE j \in DOMAIN rsrc \ {i}
  <2>1. RowOK(j) /\ ClaimOK(j) /\ (rsrc[j].action = "INIT" => j \notin phys)
    BY <1>3, <1>6 DEF RowInv, CheckInv, ThereInv
  <2>2. Same(rsrc'[j], rsrc[j]) /\ ClaimsLike(rsrc'[j], rsrc[j])
    BY <1>1, <1>6 DEF Same, ClaimsLike
  <2>3. RowOK(j)'
    BY <1>1, <1>6, <2>1, <2>2, OtherRowOK
  <2>4. ClaimOK(j)'
    BY <1>2, <2>1, <2>2, ClaimStays
  <2> QED
    BY <1>1, <1>6, <2>1, <2>3, <2>4
<1> QED
  BY <1>1, <1>4, <1>5, <1>6

\* What says that it is replaced by the new row is what the row replaces.
LEMMA ReplacedOnce ==
    ASSUME TypeOK, IdsApart, NEW w \in Checking, NEW i, NEW k, NEW m, Replaced(w, i, k, m),
           ReplacementOK
    PROVE  ReplacementOK'
<1>1. /\ UNCHANGED <<stack, sp, phys>> /\ i = th[w].msg.id /\ DOMAIN rsrc' = DOMAIN rsrc \cup {k}
      /\ k \notin Ids /\ k # None /\ m.id = k
      /\ \A l \in DOMAIN rsrc \ {i} : rsrc'[l] = rsrc[l]
      /\ rsrc'[k].replaced_by = None /\ rsrc'[k].replaces = i /\ rsrc'[i].replaced_by = k
      /\ rsrc'[i].replaces = rsrc[i].replaces
      /\ \A v \in Threads \ {w} : th'[v] = th[v]
  BY GoneIsQuiet DEF Replaced
<1>2. KnownIds /\ None \notin Ids
  BY IdsAreKnown DEF Ids, None
<1>3. Checking' = Checking \ {w} /\ Served' \subseteq Served \cup {m}
  <2>1. /\ WorkerToken(w) \in Tokens /\ Like(CastToken(m)', WorkerToken(w))
        /\ (CastToken(m)').id = k /\ (CastToken(m)').upd = TRUE
        /\ Tokens' \subseteq (Tokens \ {WorkerToken(w)}) \cup {CastToken(m)'}
        /\ Checking' = Checking \ {w} /\ Served' \subseteq Served \cup {m}
    BY TokenIsHandedOver, Zenon
  <2> QED
    BY <2>1
<1>4. \A v \in Checking' : v \in Checking /\ th'[v] = th[v]
  BY <1>1, <1>3 DEF Checking
<1> SUFFICES ASSUME NEW d \in Served', <<d.id, d.upd>> \notin stack.deps.nodes
             PROVE  /\ \A j \in DOMAIN rsrc' : rsrc'[j].replaced_by = d.id => j = rsrc'[d.id].replaces
                    /\ \A v \in Checking' :
                          th'[v].rs.replaced_by = d.id => th'[v].msg.id = rsrc'[d.id].replaces
  BY <1>1 DEF ReplacementOK
<1>5. CASE d = m
  <2>1. \A j \in DOMAIN rsrc' : rsrc'[j].replaced_by = k => j = i
    BY <1>1, <1>2 DEF KnownIds
  <2>2. \A v \in Checking' : th'[v].rs.replaced_by # k
    BY <1>1, <1>2, <1>4 DEF KnownIds
  <2> QED
    BY <1>1, <1>5, <2>1, <2>2
<1>6. CASE d \in Served
  <2>1. /\ \A j \in DOMAIN rsrc : rsrc[j].replaced_by = d.id => j = rsrc[d.id].replaces
        /\ \A v \in Checking : th[v].rs.replaced_by = d.id => th[v].msg.id = rsrc[d.id].replaces
    BY <1>6 DEF ReplacementOK
  <2>2. d.id \in Ids /\ d.id \in DOMAIN rsrc /\ d.id # i
    <3>1. d.id # th[w].msg.id
      BY <1>6, ApartFrom, Zenon
    <3> QED
      BY <1>1, <1>2, <1>6, <3>1 DEF KnownIds, Served
  <2>3. rsrc'[d.id] = rsrc[d.id]
    BY <1>1, <2>2
  <2>4. \A j \in DOMAIN rsrc' : rsrc'[j].replaced_by = d.id => j = rsrc[d.id].replaces
    BY <1>1, <1>2, <2>1, <2>2
  <2>5. \A v \in Checking' : th'[v].rs.replaced_by = d.id => th'[v].msg.id = rsrc[d.id].replaces
    BY <1>4, <2>1
  <2> QED
    BY <2>3, <2>4, <2>5
<1> QED
  BY <1>3, <1>5, <1>6

\* Nothing else is disturbed.
LEMMA ReplaceKeepsOrder ==
    ASSUME TravInv, SeqInv, OrderInv, stack.live, NEW w \in Threads, Replace(w)
    PROVE  OrderInv'
<1>1. TypeOK
  BY DEF TravInv
<1>2. PICK i : i = th[w].msg.id
  OBVIOUS
<1>3. PICK k, m : w \in Checking /\ w \notin Ops /\ th[w].pc = "replace" /\ Replaced(w, i, k, m)
  BY <1>2, ReplacedRow
<1>4. /\ \A v \in Threads : th[v].pc \notin Launching
      /\ ThereInv /\ TmplInv /\ RowInv /\ \E current \in Currents : CheckInv(current)
  BY <1>3, WhileChecking DEF Busy, Launching
<1>5. PICK current \in Currents : CheckInv(current)
  BY <1>4
<1>6. StackKept /\ PointsKept /\ Better
  BY <1>3, ReplacedBetter
<1>7. KnownIds
  BY <1>1, IdsAreKnown
<1>8. PICK c, n : c = WorkerToken(w) /\ n = CastToken(m)'
  OBVIOUS
<1>9. /\ c \in Tokens /\ Like(n, c) /\ n.id = k /\ n.upd = TRUE
      /\ Tokens' \subseteq (Tokens \ {c}) \cup {n}
      /\ Checking' = Checking \ {w} /\ Served' \subseteq Served \cup {m}
  <2>1. /\ WorkerToken(w) \in Tokens /\ Like(CastToken(m)', WorkerToken(w))
        /\ (CastToken(m)').id = k /\ (CastToken(m)').upd = TRUE
        /\ Tokens' \subseteq (Tokens \ {WorkerToken(w)}) \cup {CastToken(m)'}
        /\ Checking' = Checking \ {w} /\ Served' \subseteq Served \cup {m}
    BY <1>1, <1>3, TokenIsHandedOver, Zenon
  <2> QED
    BY <1>8, <2>1
<1>10. /\ UNCHANGED <<stack, sp, phys>> /\ Gone(w) /\ k \notin Ids /\ Ids \subseteq Ids'
       /\ DOMAIN rsrc' = DOMAIN rsrc \cup {k} /\ i \in DOMAIN rsrc /\ k \notin phys
       /\ \A j \in DOMAIN rsrc \ {i} : rsrc'[j] = rsrc[j]
       /\ rsrc'[i].name = rsrc[i].name /\ rsrc'[i].tmpl = rsrc[i].tmpl
       /\ rsrc'[k].tmpl = stack.tmpl /\ rsrc'[k].action = "INIT" /\ m.id = k
  BY <1>3 DEF Replaced
<1>11. th'[w].pc \notin Launching /\ \A v \in Threads \ {w} : th'[v] = th[v]
  BY <1>10, GoneIsQuiet
<1>12. IdsApart' /\ KeysApart'
  <2>1. \A x \in Tokens : x.id \in Ids
    <3> SUFFICES ASSUME NEW x \in Tokens PROVE x.id \in Ids
      OBVIOUS
    <3>1. CASE \E v \in Checking : x = WorkerToken(v)
      <4>1. PICK v \in Checking : x = WorkerToken(v)
        BY <3>1
      <4> QED
        BY <1>7, <4>1, TokensAre, Zenon DEF KnownIds
    <3>2. CASE \E d \in Served : x = CastToken(d)
      <4>1. PICK d \in Served : x = CastToken(d)
        BY <3>2
      <4> QED
        BY <1>7, <4>1, TokensAre DEF KnownIds, Served
    <3> QED
      BY <3>1, <3>2, TokensAre
  <2>2. IdsApart /\ KeysApart
    BY <1>4, <1>5 DEF ThereInv, CheckInv
  <2> QED
    BY <1>6, <1>9, <1>10, <2>1, <2>2, HandedOver
<1>13. \A x \in Tokens' : TokenOK(x, current)'
  <2> SUFFICES ASSUME NEW x \in Tokens' PROVE TokenOK(x, current)'
    OBVIOUS
  <2>1. CASE x = n
    <3>1. TokenOK(c, current)
      BY <1>5, <1>9 DEF CheckInv
    <3>2. <<k, FALSE>> \notin stack.deps.nodes
      BY <1>7, <1>10 DEF KnownIds
    <3> QED
      BY <1>6, <1>9, <2>1, <3>1, <3>2, TokenStays, Zenon
  <2>2. CASE x # n
    <3>1. TokenOK(x, current) /\ Like(x, x)
      BY <1>5, <1>9, <2>2 DEF CheckInv, Like
    <3> QED
      BY <1>6, <3>1, TokenStays, Zenon
  <2> QED
    BY <2>1, <2>2
<1>14. \A v \in Checking' : WorkerOK(th[v])' /\ NotThere(th[v])'
  <2> SUFFICES ASSUME NEW v \in Checking \ {w} PROVE WorkerOK(th[v])' /\ NotThere(th[v])'
    BY <1>9
  <2>1. WorkerOK(th[v]) /\ NotThere(th[v]) /\ th'[v] = th[v]
    BY <1>4, <1>11 DEF RowInv, ThereInv, Checking
  <2>2. th[v].msg.id \in Ids /\ th[v].msg.id # i
    BY <1>2, <1>3, <1>4, <1>7, ApartFrom DEF KnownIds, ThereInv
  <2>3. /\ th[v].msg.id \in DOMAIN rsrc' <=> th[v].msg.id \in DOMAIN rsrc
        /\ th[v].msg.id \in DOMAIN rsrc => Same(rsrc'[th[v].msg.id], rsrc[th[v].msg.id])
        /\ th[v].msg.id \in phys' <=> th[v].msg.id \in phys
    BY <1>10, <2>2 DEF Same
  <2> QED
    BY <1>6, <2>1, <2>3, OtherWorkerOK
<1>15. \A j \in DOMAIN rsrc' : RowOK(j)' /\ ClaimOK(j)' /\ (rsrc'[j].action = "INIT" => j \notin phys')
  BY <1>2, <1>3, <1>4, <1>5, ReplacedRows, Zenon
<1>16. ThereInv'
  BY <1>12, <1>14, <1>15 DEF ThereInv
<1>17. TmplInv' /\ \A v \in Threads : th'[v].pc \notin Launching
  <2>1. \A v \in Threads : th'[v].pc \notin Launching
    BY <1>4, <1>11
  <2>2. \A p \in Ops : th'[p] = th[p]
    BY <1>3, <1>11 DEF Threads
  <2>3. \A j \in DOMAIN rsrc' : \/ rsrc'[j].tmpl = stack.tmpl
                                \/ j \in DOMAIN rsrc /\ rsrc'[j].tmpl = rsrc[j].tmpl
    BY <1>10
  <2> QED
    BY <1>4, <1>10, <2>1, <2>2, <2>3, TmplKeeps
<1>18. RowInv'
  <2>1. \A d \in Served' : CastOK(d)'
    <3> SUFFICES ASSUME NEW d \in Served' PROVE CastOK(d)'
      OBVIOUS
    <3>1. CASE d = m
      BY <1>10, <3>1 DEF CastOK
    <3>2. CASE d \in Served
      <4>1. CastOK(d)
        BY <1>4, <3>2 DEF RowInv
      <4>2. d.id \in DOMAIN rsrc /\ d.id # i
        BY <1>2, <1>3, <1>4, <3>2, ApartFrom DEF Served, ThereInv
      <4> QED
        BY <1>10, <4>1, <4>2 DEF CastOK
    <3> QED
      BY <1>9, <3>1, <3>2
  <2> QED
    BY <1>14, <1>15, <2>1 DEF RowInv
<1>19. ReplacementOK'
  BY <1>1, <1>2, <1>3, <1>4, <1>5, ReplacedOnce DEF ThereInv, CheckInv
<1>20. DOMAIN sp' # {} => PointsOK(current)'
  BY <1>5, <1>6, <1>10, PointsStayOK DEF CheckInv
<1>21. GraphOK(stack.deps, stack.tmpl, current)' /\ NamesOK(stack.tmpl, current)'
  <2>1. GraphOK(stack.deps, stack.tmpl, current) /\ NamesOK(stack.tmpl, current)
    BY <1>5 DEF CheckInv
  <2>2. current \in [TmplNames[stack.tmpl] -> Ids]
    BY <2>1 DEF GraphOK
  <2>3. current \in [TmplNames[stack.tmpl] -> Ids']
    BY <1>10, <2>2
  <2>4. GraphOK(stack.deps, stack.tmpl, current)'
    BY <1>10, <2>1, <2>3, Zenon DEF GraphOK
  <2>5. NamesOK(stack.tmpl, current)'
    BY <1>10, <2>1, <2>2 DEF NamesOK
  <2> QED
    BY <2>4, <2>5
<1>22. CheckInv(current)'
  BY <1>12, <1>13, <1>15, <1>19, <1>20, <1>21 DEF CheckInv
<1>23. current \in Currents' /\ stack'.live
  BY <1>10, <1>21 DEF Currents, GraphOK
<1> QED
  BY <1>16, <1>17, <1>18, <1>22, <1>23, ChecksGoOn

-----------------------------------------------------------------------------
(* A check reports to the nodes that wait for it.                            *)

Dependents(k) == required_by(stack.deps, k)

\* What the node k has reported, and who waited for nothing else.
Reported(w, k) ==
    /\ DOMAIN sp # {} /\ DOMAIN sp' # {}
    /\ stack.deps.nodes \subseteq DOMAIN Points /\ DOMAIN Points' = DOMAIN Points
    /\ \A n \in DOMAIN Points :
          \/ n \notin Dependents(k) /\ Points'[n] = Points[n]
          \/ n = StackNode /\ Points'[n] = merge(Points[n], k, None)
          \/ /\ n \in Dependents(k)
             /\ Points'[n] = merge(Points[n], k, IF n[2] THEN th[w].msg.id ELSE None)
    /\ casts' = casts \cup {Cast(n[1], stack.trav, n[2], Points'[n]) :
                              n \in {m \in Dependents(k) : Ready(m)'}}

\* What the types say of the graph.
LEMMA NodesAre ==
    ASSUME TypeOK
    PROVE  /\ \A n \in stack.deps.nodes :
                 n = <<n[1], n[2]>> /\ n[1] \in Ids /\ n[2] \in BOOLEAN /\ n # StackNode
           /\ None \notin Ids
           /\ \A e \in stack.deps.edges : e = <<e[1], e[2]>>
                                          /\ e[1] \in stack.deps.nodes /\ e[2] \in stack.deps.nodes
<1>1. stack.deps \in Graphs
  BY DEF TypeOK, Stacks
<1>2. None \notin Ids
  BY DEF TypeOK, Ids, None
<1>3. /\ stack.deps.nodes \subseteq Ids \X BOOLEAN
      /\ stack.deps.edges \subseteq stack.deps.nodes \X stack.deps.nodes
  BY <1>1 DEF Graphs, Nodes
<1>4. \A n \in stack.deps.nodes :
         n = <<n[1], n[2]>> /\ n[1] \in Ids /\ n[2] \in BOOLEAN /\ n # StackNode
  <2> SUFFICES ASSUME NEW n \in stack.deps.nodes
               PROVE  n = <<n[1], n[2]>> /\ n[1] \in Ids /\ n[2] \in BOOLEAN /\ n # StackNode
    OBVIOUS
  <2>1. n \in Ids \X BOOLEAN
    BY <1>3
  <2>2. n = <<n[1], n[2]>> /\ n[1] \in Ids /\ n[2] \in BOOLEAN
    BY <2>1
  <2>3. StackNode[1] = None
    BY DEF StackNode
  <2> QED
    BY <1>2, <2>2, <2>3
<1>5. \A e \in stack.deps.edges :
         e = <<e[1], e[2]>> /\ e[1] \in stack.deps.nodes /\ e[2] \in stack.deps.nodes
  BY <1>3
<1> QED
  BY <1>2, <1>4, <1>5

\* A check of a node stands for that node.
LEMMA KeysAre ==
    ASSUME NEW x \in Tokens, <<x.id, x.upd>> \in stack.deps.nodes
    PROVE  x.key = <<x.id, x.upd>>
<1>1. CASE \E v \in Checking : x = WorkerToken(v)
  <2>1. PICK v \in Checking : x = WorkerToken(v)
    BY <1>1
  <2>2. /\ x.id = th[v].msg.id /\ x.upd = th[v].msg.upd
        /\ x.key = Stands(th[v].msg.id, th[v].msg.upd, th[v].rs.replaces)
    BY <2>1, TokensAre
  <2> QED
    BY <2>2 DEF Stands
<1>2. CASE \E m \in Served : x = CastToken(m)
  <2>1. PICK m \in Served : x = CastToken(m)
    BY <1>2
  <2>2. x.id = m.id /\ x.upd = m.upd /\ x.key = Stands(m.id, m.upd, rsrc[m.id].replaces)
    BY <2>1, TokensAre
  <2> QED
    BY <2>2 DEF Stands
<1> QED
  BY <1>1, <1>2, TokensAre

\* Whoever has reported is added.
LEMMA SendersOfMerge ==
    ASSUME NEW d, NEW k, NEW v
    PROVE  senders(merge(d, k, v)) = senders(d) \cup {k}
<1>1. senders(d) \subseteq senders(merge(d, k, v))
  BY MergeSenders
<1>2. <<k, v>> \in merge(d, k, v) /\ <<k, v>>[1] = k
  BY DEF merge
<1>3. k \in senders(merge(d, k, v))
  BY <1>2 DEF senders
<1>4. senders(merge(d, k, v)) \subseteq senders(d) \cup {k}
  BY <1>2 DEF senders, merge
<1> QED
  BY <1>1, <1>3, <1>4

\* That is what Propagate does.
LEMMA PropagateDoes ==
    ASSUME TravInv, SeqInv, OrderInv, stack.live, NEW w \in Threads, Propagate(w),
           NEW k, k = WorkerToken(w).key, NEW current, CheckInv(current)
    PROVE  /\ w \in Checking /\ w \notin Ops /\ th[w].pc = "propagate"
           /\ UNCHANGED <<stack, rsrc, nextId, phys>>
           /\ th'[w].pc \notin Checks \cup Launching /\ \A v \in Threads \ {w} : th'[v] = th[v]
           /\ UNCHANGED <<sp, casts>> \/ Reported(w, k)
<1> DEFINE g == th[w].st.deps
           trav == th[w].msg.trav
           key == graph_key(w)
           next == required_by(g, key)
           targets == next \cup (IF stack_sender(w) \in roots(g) THEN {StackNode} ELSE {})
           points == sp[trav]
           data(n) == merge(points[n],
                         IF n = StackNode THEN stack_sender(w) ELSE key,
                         IF n[2] /\ n # StackNode THEN th[w].msg.id ELSE None)
           ready == {n \in next : graphPreds(g, n) \subseteq senders(data(n))}
           report == [n \in DOMAIN points |-> IF n \in targets THEN data(n) ELSE points[n]]
           news == {Cast(n[1], trav, n[2], data(n)) : n \in ready}
<1>1. /\ UNCHANGED <<stack, rsrc, nextId, phys>> /\ th[w].pc = "propagate"
      /\ Return(w) \/ Goto(w, "retrigger") \/ Goto(w, "complete")
      /\ \/ UNCHANGED <<sp, casts>>
         \/ /\ trav \in DOMAIN sp /\ sp' = [sp EXCEPT ![trav] = report]
            /\ casts' = casts \cup news
  BY Zenon DEF Propagate, At
<1> HIDE DEF report, news, key
<1>2. TypeOK /\ th[w].pc \in Checks /\ Busy(th[w]) /\ w \in Checking /\ w \notin Ops
  BY <1>1, ConvergenceAssumption DEF TravInv, WorkersCheck, Checks, Busy, Checking
<1>3. g = stack.deps /\ trav = stack.trav /\ PointsMatch(stack, sp) /\ th[w].msg \in Msgs
  <2>1. th[w].st.trav = stack.trav /\ ThreadOK(th[w], stack, sp) /\ PointsMatch(stack, sp)
    BY <1>2 DEF SeqInv, Serves, TravInv
  <2> QED
    BY <1>2, <2>1, ThreadFields DEF ThreadOK, ChecksOwn, GraphAgrees, UsesGraph
<1>4. k \in stack.deps.nodes /\ k = Stands(th[w].msg.id, th[w].msg.upd, th[w].rs.replaces)
  BY <1>2, TokensAre, Zenon DEF CheckInv, TokenOK
<1>5. key = k
  <2>1. CASE <<th[w].msg.id, th[w].msg.upd>> \in stack.deps.nodes
    BY <1>3, <1>4, <2>1 DEF key, graph_key, Stands
  <2>2. CASE <<th[w].msg.id, th[w].msg.upd>> \notin stack.deps.nodes
    <3>1. k = <<th[w].rs.replaces, th[w].msg.upd>>
      BY <1>4, <2>2 DEF Stands
    <3>2. th[w].rs.replaces # None
      BY <1>2, <1>4, <3>1, NodesAre
    <3> QED
      BY <1>3, <2>2, <3>1, <3>2 DEF key, graph_key
  <2> QED
    BY <2>1, <2>2
<1>6. stack_sender(w) \in roots(g) => stack_sender(w) = k
  BY <1>3, <1>4 DEF roots, stack_sender, Stands
<1>7. th'[w].pc \notin Checks \cup Launching /\ \A v \in Threads \ {w} : th'[v] = th[v]
  <2>1. Return(w) => Gone(w)
    BY <1>2, Forms, Zenon
  <2>2. /\ Goto(w, "retrigger") => Becomes(w, "retrigger", th[w].st, th[w].rs, th[w].out)
        /\ Goto(w, "complete") => Becomes(w, "complete", th[w].st, th[w].rs, th[w].out)
    BY <1>2, Forms, Zenon
  <2>3. CASE Gone(w)
    BY <2>3, GoneIsQuiet
  <2>4. CASE \E pc \in {"retrigger", "complete"} : Becomes(w, pc, th[w].st, th[w].rs, th[w].out)
    BY <2>4 DEF Becomes, Checks, Launching
  <2> QED
    BY <1>1, <2>1, <2>2, <2>3, <2>4
<1>8. ASSUME trav \in DOMAIN sp, sp' = [sp EXCEPT ![trav] = report], casts' = casts \cup news
      PROVE  Reported(w, k)
  <2>1. DOMAIN sp # {} /\ DOMAIN sp' # {} /\ Points = points /\ Points' = report
    BY <1>1, <1>3, <1>8 DEF Points
  <2>2. next = Dependents(k) /\ \A n \in next : n \in stack.deps.nodes
    BY <1>2, <1>3, <1>5, NodesAre DEF Dependents, required_by
  <2>3. /\ stack.deps.nodes \subseteq DOMAIN points /\ DOMAIN report = DOMAIN points
        /\ \A n \in DOMAIN points : report[n] = IF n \in targets THEN data(n) ELSE points[n]
    BY <1>3, <1>8 DEF PointsMatch, report
  <2>4. \A n \in next : /\ n \in DOMAIN points /\ n # StackNode
                        /\ data(n) = merge(points[n], k, IF n[2] THEN th[w].msg.id ELSE None)
                        /\ report[n] = data(n)
    BY <1>2, <1>5, <2>2, <2>3, NodesAre
  <2>5. StackNode \in targets => StackNode \in next \/ stack_sender(w) \in roots(g)
    OBVIOUS
  <2>6. stack_sender(w) \in roots(g) => data(StackNode) = merge(points[StackNode], k, None)
    BY <1>6
  <2>7. ASSUME NEW n \in DOMAIN points
        PROVE  \/ n \notin next /\ report[n] = points[n]
               \/ n = StackNode /\ report[n] = merge(points[n], k, None)
               \/ n \in next /\ report[n] = merge(points[n], k, IF n[2] THEN th[w].msg.id ELSE None)
    <3>1. CASE n \in next
      BY <2>4, <3>1
    <3>2. CASE n \notin next /\ n \notin targets
      BY <2>3, <3>2
    <3>3. CASE n \notin next /\ n \in targets
      <4>1. n = StackNode /\ stack_sender(w) \in roots(g)
        BY <3>3
      <4>2. report[n] = data(n)
        BY <2>3, <3>3
      <4> QED
        BY <2>6, <4>1, <4>2
    <3> QED
      BY <3>1, <3>2, <3>3
  <2>8. news = {Cast(n[1], stack.trav, n[2], report[n]) : n \in {m \in next : Ready(m)'}}
    <3>1. ready = {m \in next : Ready(m)'}
      <4>1. \A m \in next : Ready(m)' <=> graphPreds(g, m) \subseteq senders(data(m))
        BY <1>1, <1>3, <2>1, <2>4 DEF Ready
      <4> QED
        BY <4>1
    <3>2. \A n \in ready : data(n) = report[n]
      BY <2>4
    <3> HIDE DEF ready, data
    <3> QED
      BY <1>3, <3>1, <3>2 DEF news
  <2> HIDE DEF next, points
  <2> QED
    BY <1>8, <2>1, <2>2, <2>3, <2>7, <2>8 DEF Reported
<1> QED
  BY <1>1, <1>2, <1>7, <1>8

\* The dependents of k that have nothing else to wait for.
Woken(k) == {n \in Dependents(k) : Ready(n)'}

\* What the report changes in who waits for whom.
Turn(k) ==
    /\ k \in stack.deps.nodes /\ Ready(k) /\ (~k[2] => Cleaned(k[1]))
    /\ stack.deps.nodes \subseteq DOMAIN Points
    /\ \A l \in DOMAIN Points :
          k \notin senders(Points[l]) /\ senders(Points'[l]) \subseteq senders(Points[l]) \cup {k}
    /\ \A n \in Dependents(k) : /\ n \in stack.deps.nodes /\ n # k /\ <<n, k>> \in stack.deps.edges
                                /\ n \in DOMAIN Points /\ ~Ready(n)
    /\ \A q \in stack.deps.nodes : Ready(q) => Ready(q)'
    /\ \A n \in Woken(k) : \A q \in graphPreds(stack.deps, n) : q = k \/ q \in senders(Points[n])

\* It was k's turn, and its dependents had to wait for it.
LEMMA ReportTurns ==
    ASSUME TypeOK, NEW w \in Checking, th[w].pc = "propagate", UNCHANGED stack,
           NEW k, k = WorkerToken(w).key, Reported(w, k), NEW current, CheckInv(current),
           WorkerOK(th[w])
    PROVE  Turn(k)
<1>1. PICK c : c = WorkerToken(w)
  OBVIOUS
<1>2. /\ c \in Tokens /\ c.key = k /\ c.id = th[w].msg.id /\ c.upd = th[w].msg.upd
      /\ c.key = Stands(th[w].msg.id, th[w].msg.upd, th[w].rs.replaces) /\ TokenOK(c, current)
  BY <1>1, TokensAre DEF CheckInv
<1>3. DOMAIN sp # {} /\ stack.deps.nodes \subseteq DOMAIN Points /\ DOMAIN Points' = DOMAIN Points
  BY DEF Reported
<1>4. /\ k \in stack.deps.nodes /\ k[2] = c.upd /\ Ready(k)
      /\ \A l \in DOMAIN Points : k \notin senders(Points[l])
      /\ <<c.id, c.upd>> \notin stack.deps.nodes => c.upd /\ <<c.id, FALSE>> \notin stack.deps.nodes
  BY <1>2, <1>3 DEF TokenOK
<1>5. ~k[2] => Cleaned(k[1])
  <2>1. SUFFICES ASSUME ~k[2] PROVE Cleaned(k[1])
    OBVIOUS
  <2>2. k = <<c.id, c.upd>>
    BY <1>2, <1>4, <2>1, KeysAre
  <2>3. k[1] = c.id
    BY <2>2
  <2> QED
    BY <1>2, <1>4, <2>1, <2>3 DEF WorkerOK
<1>6. ASSUME NEW l \in DOMAIN Points
      PROVE  /\ senders(Points'[l]) \subseteq senders(Points[l]) \cup {k}
             /\ senders(Points[l]) \subseteq senders(Points'[l])
  BY <1>6, SendersOfMerge DEF Reported
<1>7. ASSUME NEW n \in Dependents(k)
      PROVE  /\ n \in stack.deps.nodes /\ n # k /\ <<n, k>> \in stack.deps.edges
             /\ n \in DOMAIN Points /\ ~Ready(n)
  <2>1. <<n, k>> \in stack.deps.edges /\ n \in stack.deps.nodes
    BY NodesAre DEF Dependents, required_by
  <2>2. k \in graphPreds(stack.deps, n)
    BY <2>1 DEF graphPreds
  <2>3. ~Ready(n)
    BY <1>3, <1>4, <2>1, <2>2 DEF Ready
  <2> QED
    BY <1>3, <1>4, <2>1, <2>3
<1>8. ASSUME NEW q \in stack.deps.nodes, Ready(q) PROVE Ready(q)'
  BY <1>3, <1>6, <1>8 DEF Ready
<1>9. ASSUME NEW n \in Woken(k), NEW q \in graphPreds(stack.deps, n)
      PROVE  q = k \/ q \in senders(Points[n])
  BY <1>3, <1>6, <1>7, Zenon DEF Woken, Ready
<1> QED
  BY <1>3, <1>4, <1>5, <1>6, <1>7, <1>8, <1>9 DEF Turn

\* The message to a node that has become ready.
Wake(n) == Cast(n[1], stack.trav, n[2], Points'[n])

WokenToken(n) ==
    [of |-> <<"cast", Wake(n)>>, id |-> n[1], upd |-> n[2],
     data |-> IF n[2] THEN Points'[n] ELSE {}, name |-> rsrc[n[1]].name, key |-> n]

\* Those nodes that still have a resource.
Rising(k) == {n \in Woken(k) : n[1] \in DOMAIN rsrc}

\* They take the place of what has reported.
LEMMA WokenTokens ==
    ASSUME TypeOK, NEW w \in Checking, UNCHANGED <<stack, rsrc>>, w \notin Checking',
           \A v \in Threads \ {w} : th'[v] = th[v], NEW k, Reported(w, k), Turn(k)
    PROVE  /\ Checking' = Checking \ {w}
           /\ Served' \subseteq Served \cup {Wake(n) : n \in Rising(k)}
           /\ Tokens' \subseteq (Tokens \ {WorkerToken(w)}) \cup {WokenToken(n) : n \in Rising(k)}
<1>1. Checking' = Checking \ {w}
  BY DEF Checking
<1>2. \A n : Wake(n).id = n[1] /\ Wake(n).upd = n[2]
             /\ Wake(n).data = IF n[2] THEN Points'[n] ELSE {}
  BY DEF Wake, Cast
<1>3. casts' = casts \cup {Wake(n) : n \in Woken(k)}
  BY DEF Reported, Wake, Woken
<1>4. Served' \subseteq Served \cup {Wake(n) : n \in Rising(k)}
  BY <1>2, <1>3 DEF Served, Rising
<1>5. ASSUME NEW n \in Rising(k), NEW m, m = Wake(n) PROVE CastToken(m)' = WokenToken(n)
  <2>1. n \in stack.deps.nodes /\ n = <<n[1], n[2]>>
    BY NodesAre, Zenon DEF Turn, Rising, Woken
  <2>2. m.id = n[1] /\ m.upd = n[2] /\ m.data = IF n[2] THEN Points'[n] ELSE {}
    BY <1>2, <1>5
  <2>3. Stands(m.id, m.upd, rsrc[m.id].replaces)' = n
    BY <2>1, <2>2 DEF Stands
  <2> QED
    BY <1>5, <2>2, <2>3 DEF CastToken, WokenToken
<1>6. WorkerToken(w).of = <<"worker", w>>
  BY TokensAre
<1>7. ASSUME NEW x \in Tokens', ~\E n \in Rising(k) : x = WokenToken(n)
      PROVE  x \in Tokens \ {WorkerToken(w)}
  <2>1. CASE \E v \in Checking' : x = WorkerToken(v)'
    <3>1. PICK v \in Checking \ {w} : x = WorkerToken(v)'
      BY <1>1, <2>1
    <3>2. th'[v] = th[v]
      BY <3>1 DEF Checking
    <3>3. x = WorkerToken(v)
      BY <3>1, <3>2 DEF WorkerToken, Stands
    <3>4. x.of = <<"worker", v>>
      BY <3>3, TokensAre
    <3> QED
      BY <1>6, <3>1, <3>3, <3>4, TokensAre
  <2>2. CASE \E c \in Served' : x = CastToken(c)'
    <3>1. PICK c \in Served' : x = CastToken(c)'
      BY <2>2
    <3>2. c \in Served
      BY <1>4, <1>5, <1>7, <3>1
    <3>3. x = CastToken(c)
      BY <3>1 DEF CastToken, Stands
    <3>4. x.of = <<"cast", c>>
      BY <3>3, TokensAre
    <3> QED
      BY <1>6, <3>2, <3>3, <3>4, TokensAre
  <2> QED
    BY <2>1, <2>2, TokensAre
<1> QED
  BY <1>1, <1>4, <1>7

\* What is ready already is no node that has just become ready, and waits for none.
LEMMA WokenApart ==
    ASSUME TypeOK, NEW k, Turn(k), DOMAIN sp # {}, NEW current, CheckInv(current),
           NEW n \in Woken(k), NEW x \in Tokens, x.key # k
    PROVE  /\ x.id # n[1] /\ x.key # n
           /\ <<x.key, n>> \notin stack.deps.edges /\ <<n, x.key>> \notin stack.deps.edges
<1>1. /\ x.key \in stack.deps.nodes /\ x.key[2] = x.upd /\ Ready(x.key)
      /\ <<x.id, x.upd>> \notin stack.deps.nodes => x.upd /\ <<x.id, FALSE>> \notin stack.deps.nodes
      /\ \A l \in DOMAIN Points : x.key \notin senders(Points[l])
  BY Zenon DEF CheckInv, TokenOK
<1>2. /\ n \in stack.deps.nodes /\ n \in DOMAIN Points /\ ~Ready(n)
      /\ \A q \in graphPreds(stack.deps, n) : q = k \/ q \in senders(Points[n])
  BY Zenon DEF Turn, Woken
<1>3. x.key # n
  BY <1>1, <1>2
<1>4. <<x.key, n>> \notin stack.deps.edges
  <2>1. SUFFICES ASSUME <<x.key, n>> \in stack.deps.edges PROVE FALSE
    OBVIOUS
  <2>2. n \in graphPreds(stack.deps, x.key)
    BY <2>1 DEF graphPreds
  <2>3. n \in senders(Points[x.key])
    BY <1>1, <2>2 DEF Ready
  <2>4. x.key \in DOMAIN Points /\ PointsOK(current)
    BY <1>1 DEF CheckInv, Turn
  <2>5. Ready(n)
    BY <2>3, <2>4 DEF PointsOK
  <2> QED
    BY <1>2, <2>5
<1>5. <<n, x.key>> \notin stack.deps.edges
  <2>1. SUFFICES ASSUME <<n, x.key>> \in stack.deps.edges PROVE FALSE
    OBVIOUS
  <2>2. x.key \in graphPreds(stack.deps, n)
    BY <2>1 DEF graphPreds
  <2> QED
    BY <1>1, <1>2, <2>2
<1>6. x.id # n[1]
  <2>1. SUFFICES ASSUME x.id = n[1] PROVE FALSE
    OBVIOUS
  <2>2. n = <<x.id, n[2]>> /\ n[2] \in BOOLEAN /\ x.upd \in BOOLEAN
    BY <1>1, <1>2, <2>1, NodesAre
  <2>3. <<x.id, x.upd>> \in stack.deps.nodes
    BY <1>1, <1>2, <2>2, Zenon
  <2>4. x.key = <<x.id, x.upd>>
    BY <2>3, KeysAre
  <2>5. n[2] # x.upd
    BY <1>3, <2>2, <2>4
  <2>6. \A m \in stack.deps.nodes : ~m[2] /\ <<m[1], TRUE>> \in stack.deps.nodes
           => <<m, <<m[1], TRUE>>>> \in stack.deps.edges
    BY Zenon DEF CheckInv, GraphOK
  <2>7. CASE x.upd
    <3>1. x.key = <<n[1], TRUE>> /\ ~n[2]
      BY <2>1, <2>2, <2>4, <2>5, <2>7, Zenon
    <3>2. <<n, x.key>> \in stack.deps.edges
      BY <1>1, <1>2, <2>6, <3>1, Zenon
    <3> QED
      BY <1>5, <3>2
  <2>8. CASE ~x.upd
    <3>1. x.upd = FALSE /\ n[2] = TRUE
      BY <2>2, <2>5, <2>8
    <3>2. n = <<x.id, TRUE>>
      BY <2>2, <3>1, Zenon
    <3>3. x.key = <<x.id, FALSE>>
      BY <2>4, <3>1, Zenon
    <3>4. x.key[1] = x.id /\ x.key[2] = FALSE
      BY <3>3
    <3> QED
      BY <1>1, <1>2, <1>4, <2>6, <3>2, <3>4, Zenon
  <2> QED
    BY <2>7, <2>8
<1> QED
  BY <1>3, <1>4, <1>5, <1>6

\* Neither do they wait for one another.
LEMMA WokenAreApart ==
    ASSUME TypeOK, NEW k, Turn(k), DOMAIN sp # {}, NEW current, CheckInv(current),
           NEW n \in Woken(k), NEW m \in Woken(k), n # m
    PROVE  n[1] # m[1] /\ <<n, m>> \notin stack.deps.edges /\ <<m, n>> \notin stack.deps.edges
<1>1. ASSUME NEW a \in Woken(k), NEW b \in Woken(k) PROVE <<a, b>> \notin stack.deps.edges
  <2>1. SUFFICES ASSUME <<a, b>> \in stack.deps.edges PROVE FALSE
    OBVIOUS
  <2>2. /\ a \in DOMAIN Points /\ ~Ready(b) /\ Ready(k)
        /\ \A q \in graphPreds(stack.deps, a) : q = k \/ q \in senders(Points[a])
    BY Zenon DEF Turn, Woken
  <2>3. b \in graphPreds(stack.deps, a)
    BY <2>1 DEF graphPreds
  <2>4. b \in senders(Points[a]) => Ready(b)
    BY <2>2 DEF CheckInv, PointsOK
  <2> QED
    BY <2>2, <2>3, <2>4
<1>2. n[1] # m[1]
  <2>1. SUFFICES ASSUME n[1] = m[1] PROVE FALSE
    OBVIOUS
  <2>2. /\ n \in stack.deps.nodes /\ m \in stack.deps.nodes
        /\ n = <<n[1], n[2]>> /\ m = <<m[1], m[2]>> /\ n[2] \in BOOLEAN /\ m[2] \in BOOLEAN
    BY NodesAre, Zenon DEF Turn, Woken
  <2>3. \A a \in stack.deps.nodes : ~a[2] /\ <<a[1], TRUE>> \in stack.deps.nodes
           => <<a, <<a[1], TRUE>>>> \in stack.deps.edges
    BY Zenon DEF CheckInv, GraphOK
  <2>4. CASE n[2]
    <3>1. ~m[2] /\ n = <<m[1], TRUE>>
      BY <2>1, <2>2, <2>4, Zenon
    <3> QED
      BY <1>1, <2>2, <2>3, <3>1, Zenon
  <2>5. CASE ~n[2]
    <3>1. m = <<n[1], TRUE>>
      BY <2>1, <2>2, <2>5, Zenon
    <3> QED
      BY <1>1, <2>2, <2>3, <2>5, <3>1, Zenon
  <2> QED
    BY <2>2, <2>4, <2>5
<1> QED
  BY <1>1, <1>2

\* What has been handed to a node that waited.
LEMMA DataHandedOver ==
    ASSUME TypeOK, NEW w \in Checking, th[w].pc = "propagate", UNCHANGED <<stack, rsrc, phys>>,
           NEW k, k = WorkerToken(w).key, Reported(w, k), NEW current, CheckInv(current),
           WorkerOK(th[w]), NEW n \in stack.deps.nodes, n[2], NEW d, d = Points'[n]
    PROVE  DataOK(d, current)'
<1>1. n \in DOMAIN Points /\ n # StackNode /\ DOMAIN sp # {}
  BY NodesAre DEF Reported
<1>2. DataOK(Points[n], current)
  BY <1>1 DEF CheckInv, PointsOK
<1>3. PICK old : old = Points[n]
  OBVIOUS
<1>4. StackKept /\ Better
  BY DEF StackKept, Better, Serving, Cleaned
<1>5. DataOK(old, current)'
  BY <1>2, <1>3, <1>4, DataStays
<1>6. CASE d = old
  BY <1>5, <1>6
<1>7. CASE n \in Dependents(k) /\ d = merge(old, k, th[w].msg.id)
  <2>1. PICK c : c = WorkerToken(w)
    OBVIOUS
  <2>2. /\ c \in Tokens /\ c.key = k /\ c.id = th[w].msg.id /\ c.upd = th[w].msg.upd
        /\ c.name = th[w].rs.name /\ TokenOK(c, current)
    BY <2>1, TokensAre, Zenon DEF CheckInv
  <2>3. <<n, k>> \in stack.deps.edges
    BY <1>7, NodesAre DEF Dependents, required_by
  <2>4. k[2] /\ c.upd
    BY <2>2, <2>3 DEF CheckInv, GraphOK, TokenOK
  <2>5. Serving(c.id) /\ rsrc[c.id].name = c.name
    BY <2>2, <2>4 DEF WorkerOK
  <2>6. \A a \in TmplNames[stack.tmpl] : k = <<current[a], TRUE>> => c.name = a
    BY <2>2, <2>4 DEF TokenOK
  <2>7. \A p \in d : p \in old \/ (p[1] = k /\ p[2] = c.id)
    BY <1>7, <2>2 DEF merge
  <2>8. Serving(c.id)'
    BY <1>4, <2>5 DEF Better
  <2> QED
    BY <1>5, <2>5, <2>6, <2>7, <2>8, Zenon DEF DataOK
<1> QED
  BY <1>1, <1>3, <1>6, <1>7 DEF Reported

\* A node that has become ready.
LEMMA WokenTokenOK ==
    ASSUME TypeOK, NEW w \in Checking, th[w].pc = "propagate", UNCHANGED <<stack, rsrc, phys>>,
           NEW k, k = WorkerToken(w).key, Reported(w, k), Turn(k),
           NEW current, CheckInv(current), WorkerOK(th[w]),
           NEW n \in Rising(k), NEW x, x = WokenToken(n)
    PROVE  TokenOK(x, current)'
<1>1. /\ n \in Woken(k) /\ n \in Dependents(k) /\ n[1] \in DOMAIN rsrc /\ Ready(n)'
      /\ n \in stack.deps.nodes /\ n = <<n[1], n[2]>> /\ n[2] \in BOOLEAN
  BY NodesAre, Zenon DEF Rising, Woken, Turn
<1>2. /\ x.id = n[1] /\ x.upd = n[2] /\ x.key = n /\ x.name = rsrc[n[1]].name
      /\ x.data = IF n[2] THEN Points'[n] ELSE {}
  BY DEF WokenToken
<1>3. /\ n \in DOMAIN Points /\ ~Ready(n) /\ n # k /\ DOMAIN Points' = DOMAIN Points
      /\ DOMAIN sp # {}
  BY <1>1, Zenon DEF Turn, Reported
<1>4. ASSUME n[2]
      PROVE  /\ graphPreds(stack.deps, n) \subseteq senders(x.data)
             /\ DataOK(x.data, current)'
             /\ \A a \in TmplNames[stack.tmpl] : n = <<current[a], TRUE>> => x.name = a
  <2>1. graphPreds(stack.deps, n) \subseteq senders(x.data)
    BY <1>1, <1>2, <1>4 DEF Ready
  <2>2. PICK d : d = Points'[n]
    OBVIOUS
  <2>3. DataOK(d, current)'
    BY <1>1, <1>4, <2>2, DataHandedOver
  <2>4. DataOK(x.data, current)'
    BY <1>2, <1>4, <2>2, <2>3, Zenon DEF DataOK
  <2>5. \A a \in TmplNames[stack.tmpl] : n = <<current[a], TRUE>> => x.name = a
    BY <1>1, <1>2 DEF CheckInv, NamesOK
  <2> QED
    BY <2>1, <2>4, <2>5, Zenon
<1>5. ASSUME ~n[2] PROVE \A q \in graphPreds(stack.deps, n) : ~q[2] => Cleaned(q[1])'
  <2> SUFFICES ASSUME NEW q \in graphPreds(stack.deps, n), ~q[2] PROVE Cleaned(q[1])'
    OBVIOUS
  <2>1. q = k \/ q \in senders(Points[n])
    BY <1>1 DEF Turn
  <2>2. Cleaned(q[1])
    BY <1>3, <2>1 DEF Turn, CheckInv, PointsOK
  <2> QED
    BY <2>2 DEF Cleaned
<1>6. \A l \in DOMAIN Points' : n \notin senders(Points'[l])
  <2> SUFFICES ASSUME NEW l \in DOMAIN Points PROVE n \notin senders(Points'[l])
    BY <1>3
  <2>1. senders(Points'[l]) \subseteq senders(Points[l]) \cup {k}
    BY DEF Turn
  <2>2. n \in senders(Points[l]) => Ready(n)
    BY <1>3 DEF CheckInv, PointsOK
  <2> QED
    BY <1>3, <2>1, <2>2
<1>7. /\ x.key \in stack'.deps.nodes /\ x.key[2] = x.upd /\ <<x.id, x.upd>> \in stack'.deps.nodes
      /\ Ready(x.key)'
  BY <1>1, <1>2 DEF Ready, Points
<1> QED
  BY <1>2, <1>4, <1>5, <1>6, <1>7, Zenon DEF TokenOK

\* A node that was ready.
LEMMA ReadyTokenOK ==
    ASSUME UNCHANGED <<stack, rsrc, phys>>, NEW w, NEW k, Reported(w, k), Turn(k),
           NEW x, x.key # k, NEW current, TokenOK(x, current)
    PROVE  TokenOK(x, current)'
<1>1. StackKept /\ Better
  BY DEF StackKept, Better, Serving, Cleaned
<1>2. DOMAIN sp # {} /\ DOMAIN Points' = DOMAIN Points
  BY DEF Reported
<1>3. /\ x.key \in stack.deps.nodes /\ x.key[2] = x.upd
      /\ <<x.id, x.upd>> \notin stack.deps.nodes => x.upd /\ <<x.id, FALSE>> \notin stack.deps.nodes
      /\ x.upd => /\ graphPreds(stack.deps, x.key) \subseteq senders(x.data)
                  /\ \A n \in TmplNames[stack.tmpl] : x.key = <<current[n], TRUE>> => x.name = n
      /\ Ready(x.key) /\ \A n \in DOMAIN Points : x.key \notin senders(Points[n])
  BY <1>2, Zenon DEF TokenOK
<1>4. x.upd => DataOK(x.data, current)'
  BY <1>1, DataStays DEF TokenOK
<1>5. ~x.upd => \A n \in graphPreds(stack.deps, x.key) : ~n[2] => Cleaned(n[1])'
  BY <1>1 DEF TokenOK, Better
<1>6. Ready(x.key)' /\ \A n \in DOMAIN Points' : x.key \notin senders(Points'[n])
  <2>1. Ready(x.key)'
    BY <1>3 DEF Turn
  <2> QED
    BY <1>2, <1>3, <2>1 DEF Turn
<1> QED
  BY <1>3, <1>4, <1>5, <1>6, Zenon DEF TokenOK

\* What has been reported.
LEMMA ReportedPointsOK ==
    ASSUME TypeOK, NEW w \in Checking, th[w].pc = "propagate", UNCHANGED <<stack, rsrc, phys>>,
           NEW k, k = WorkerToken(w).key, Reported(w, k), Turn(k),
           NEW current, CheckInv(current), WorkerOK(th[w])
    PROVE  PointsOK(current)'
<1>1. DOMAIN sp # {} /\ DOMAIN Points' = DOMAIN Points
  BY DEF Reported
<1> SUFFICES ASSUME NEW n \in DOMAIN Points
             PROVE  /\ \A q \in senders(Points'[n]) :
                          q \in stack.deps.nodes /\ Ready(q)' /\ (~q[2] => Cleaned(q[1])')
                    /\ n \in stack.deps.nodes /\ n[2] => DataOK(Points[n], current)'
  BY <1>1 DEF PointsOK
<1>2. ASSUME NEW q \in senders(Points'[n])
      PROVE  q \in stack.deps.nodes /\ Ready(q)' /\ (~q[2] => Cleaned(q[1])')
  <2>1. q = k \/ q \in senders(Points[n])
    BY DEF Turn
  <2>2. q \in stack.deps.nodes /\ Ready(q) /\ (~q[2] => Cleaned(q[1]))
    BY <1>1, <2>1 DEF Turn, CheckInv, PointsOK
  <2>3. Ready(q)'
    BY <2>2 DEF Turn
  <2>4. ~q[2] => Cleaned(q[1])'
    BY <2>2 DEF Cleaned
  <2> QED
    BY <2>2, <2>3, <2>4
<1>3. ASSUME n \in stack.deps.nodes, n[2] PROVE DataOK(Points[n], current)'
  <2>1. PICK d : d = Points'[n]
    OBVIOUS
  <2>2. DataOK(d, current)'
    BY <1>3, <2>1, DataHandedOver
  <2> QED
    BY <2>1, <2>2, Zenon DEF DataOK
<1> QED
  BY <1>2, <1>3

\* Tokens that have changed in such a way are apart.
LEMMA TurnedTokensApart ==
    ASSUME TypeOK, UNCHANGED stack, NEW k, Turn(k), DOMAIN sp # {},
           NEW current, CheckInv(current), IdsApart,
           \A x \in Tokens' : \/ x \in Tokens /\ x.key # k
                              \/ \E n \in Rising(k) : x = WokenToken(n)
    PROVE  IdsApart' /\ KeysApart'
<1>1. KeysApart
  BY DEF CheckInv
<1>2. /\ \A n : WokenToken(n).id = n[1] /\ WokenToken(n).key = n
      /\ Rising(k) \subseteq Woken(k)
  BY DEF WokenToken, Rising
<1>3. ASSUME NEW x \in Tokens', NEW y \in Tokens', x # y
      PROVE  x.id # y.id /\ x.key # y.key /\ <<x.key, y.key>> \notin stack.deps.edges
  <2>1. CASE x \in Tokens /\ x.key # k /\ y \in Tokens /\ y.key # k
    BY <1>1, <1>3, <2>1 DEF IdsApart, KeysApart
  <2>2. CASE x \in Tokens /\ x.key # k /\ \E n \in Rising(k) : y = WokenToken(n)
    <3>1. PICK n \in Woken(k) : y = WokenToken(n)
      BY <1>2, <2>2
    <3>2. y.id = n[1] /\ y.key = n
      BY <1>2, <3>1
    <3>3. x.id # n[1] /\ x.key # n /\ <<x.key, n>> \notin stack.deps.edges
      BY <2>2, WokenApart, Zenon
    <3> QED
      BY <3>2, <3>3
  <2>3. CASE y \in Tokens /\ y.key # k /\ \E n \in Rising(k) : x = WokenToken(n)
    <3>1. PICK n \in Woken(k) : x = WokenToken(n)
      BY <1>2, <2>3
    <3>2. x.id = n[1] /\ x.key = n
      BY <1>2, <3>1
    <3>3. y.id # n[1] /\ y.key # n /\ <<n, y.key>> \notin stack.deps.edges
      BY <2>3, WokenApart, Zenon
    <3> QED
      BY <3>2, <3>3
  <2>4. CASE (\E n \in Rising(k) : x = WokenToken(n)) /\ \E n \in Rising(k) : y = WokenToken(n)
    <3>1. PICK n \in Woken(k), m \in Woken(k) : x = WokenToken(n) /\ y = WokenToken(m)
      BY <1>2, <2>4
    <3>2. n # m /\ x.id = n[1] /\ x.key = n /\ y.id = m[1] /\ y.key = m
      BY <1>2, <1>3, <3>1
    <3>3. n[1] # m[1] /\ <<n, m>> \notin stack.deps.edges
      BY <3>2, WokenAreApart, Zenon
    <3> QED
      BY <3>2, <3>3
  <2> QED
    BY <2>1, <2>2, <2>3, <2>4
<1> QED
  BY <1>3, Zenon DEF IdsApart, KeysApart

\* The tokens after a report are apart.
LEMMA ReportedTokensApart ==
    ASSUME TypeOK, NEW w \in Checking, UNCHANGED <<stack, rsrc>>, w \notin Checking',
           \A v \in Threads \ {w} : th'[v] = th[v],
           NEW k, k = WorkerToken(w).key, Reported(w, k), Turn(k),
           NEW current, CheckInv(current), IdsApart
    PROVE  /\ IdsApart' /\ KeysApart'
           /\ \A x \in Tokens' : \/ x \in Tokens /\ x.key # k
                                 \/ \E n \in Rising(k) : x = WokenToken(n)
<1>1. PICK c : c = WorkerToken(w)
  OBVIOUS
<1>2. /\ c \in Tokens /\ c.key = k
      /\ Tokens' \subseteq (Tokens \ {c}) \cup {WokenToken(n) : n \in Rising(k)}
  BY <1>1, WokenTokens, TokensAre, Zenon
<1>3. KeysApart /\ \A x \in Tokens \ {c} : x.key # k
  BY <1>2, Zenon DEF CheckInv, KeysApart
<1>4. \A x \in Tokens' : \/ x \in Tokens /\ x.key # k
                         \/ \E n \in Rising(k) : x = WokenToken(n)
  BY <1>2, <1>3
<1>5. DOMAIN sp # {}
  BY DEF Reported
<1>6. IdsApart' /\ KeysApart'
  BY <1>4, <1>5, TurnedTokensApart
<1> QED
  BY <1>4, <1>6

\* A row that has become ready has not been claimed.
LEMMA WokenCastOK ==
    ASSUME TypeOK, UNCHANGED <<stack, rsrc>>, NEW w, NEW k, Reported(w, k), Turn(k),
           NEW current, CheckInv(current), NEW n \in Rising(k), NEW m, m = Wake(n)
    PROVE  CastOK(m)' /\ <<m.id, m.upd>> \in stack.deps.nodes
<1>1. /\ n \in stack.deps.nodes /\ n = <<n[1], n[2]>> /\ n[2] \in BOOLEAN
      /\ n[1] \in DOMAIN rsrc /\ ~Ready(n)
  BY NodesAre, Zenon DEF Rising, Woken, Turn
<1>2. m.id = n[1] /\ m.upd = n[2]
  BY DEF Wake, Cast
<1>3. ASSUME n[2], rsrc[n[1]].tmpl = stack.tmpl PROVE rsrc[n[1]].action = "INIT"
  <2>1. ClaimOK(n[1]) /\ DOMAIN sp # {} /\ n = <<n[1], TRUE>>
    BY <1>1, <1>3, Zenon DEF CheckInv, Reported
  <2> QED
    BY <1>1, <1>3, <2>1, Zenon DEF ClaimOK, Claim
<1> QED
  BY <1>1, <1>2, <1>3 DEF CastOK

\* Nothing else is disturbed.
LEMMA ReportedKeepsOrder ==
    ASSUME TravInv, SeqInv, OrderInv, stack.live, NEW w \in Threads, th[w].pc = "propagate",
           UNCHANGED <<stack, rsrc, nextId, phys>>, w \notin Ops,
           th'[w].pc \notin Checks \cup Launching, \A v \in Threads \ {w} : th'[v] = th[v],
           NEW k, k = WorkerToken(w).key, Reported(w, k), NEW current \in Currents,
           CheckInv(current)
    PROVE  OrderInv'
<1>1. TypeOK /\ w \in Checking
  BY DEF TravInv, Checking, Checks
<1>2. (\A v \in Threads : th[v].pc \notin Launching) /\ ThereInv /\ TmplInv /\ RowInv
  BY WhileChecking DEF Busy, Launching
<1>3. WorkerOK(th[w])
  BY <1>1, <1>2 DEF RowInv
<1>4. Turn(k)
  BY <1>1, <1>3, ReportTurns
<1>5. /\ Checking' = Checking \ {w}
      /\ Served' \subseteq Served \cup {Wake(n) : n \in Rising(k)}
  BY <1>1, <1>4, WokenTokens DEF Checking
<1>6. /\ IdsApart' /\ KeysApart'
      /\ \A x \in Tokens' : \/ x \in Tokens /\ x.key # k
                            \/ \E n \in Rising(k) : x = WokenToken(n)
  BY <1>1, <1>2, <1>4, <1>5, ReportedTokensApart DEF ThereInv
<1>7. \A x \in Tokens' : TokenOK(x, current)'
  <2> SUFFICES ASSUME NEW x \in Tokens' PROVE TokenOK(x, current)'
    OBVIOUS
  <2>1. CASE x \in Tokens /\ x.key # k
    <3>1. TokenOK(x, current)
      BY <2>1 DEF CheckInv
    <3> QED
      BY <1>4, <2>1, <3>1, ReadyTokenOK
  <2>2. CASE \E n \in Rising(k) : x = WokenToken(n)
    BY <1>1, <1>3, <1>4, <2>2, WokenTokenOK
  <2> QED
    BY <1>6, <2>1, <2>2
<1>8. \A v \in Checking' : WorkerOK(th[v])' /\ NotThere(th[v])'
  <2> SUFFICES ASSUME NEW v \in Checking \ {w} PROVE WorkerOK(th[v])' /\ NotThere(th[v])'
    BY <1>5
  <2>1. WorkerOK(th[v]) /\ NotThere(th[v]) /\ th'[v] = th[v]
    BY <1>2 DEF RowInv, ThereInv, Checking
  <2>2. (\A a : Same(a, a)) /\ StackKept
    BY Zenon DEF Same, StackKept
  <2> QED
    BY <2>1, <2>2, OtherWorkerOK
<1>9. ThereInv'
  BY <1>2, <1>6, <1>8 DEF ThereInv
<1>10. TmplInv' /\ \A v \in Threads : th'[v].pc \notin Launching
  <2>1. \A v \in Threads : th'[v].pc \notin Launching
    BY <1>2
  <2>2. \A p \in Ops : th'[p] = th[p]
    BY DEF Threads
  <2> QED
    BY <1>2, <2>1, <2>2, TmplKeeps
<1>11. ASSUME NEW j \in DOMAIN rsrc PROVE RowOK(j)' /\ ClaimOK(j)'
  <2>1. RowOK(j) /\ ClaimOK(j)
    BY <1>2 DEF RowInv, CheckInv
  <2>2. Same(rsrc'[j], rsrc[j]) /\ ~(ActsOn(th[w], j) \/ th[w].pc = "destroy")
    BY DEF Same, ActsOn
  <2>3. RowOK(j)'
    BY <2>1, <2>2, OtherRowOK
  <2>4. <<j, TRUE>> \in stack.deps.nodes /\ Ready(<<j, TRUE>>) => Ready(<<j, TRUE>>)'
    BY <1>4 DEF Turn
  <2>5. DOMAIN sp # {}
    BY DEF Reported
  <2>6. Covered(j, stack.deps)' <=> Covered(j, stack.deps)
    BY DEF Covered, Cleaned
  <2>7. ClaimOK(j)'
    BY <2>1, <2>4, <2>5, <2>6 DEF ClaimOK, Claim, Cleaned
  <2> QED
    BY <2>3, <2>7
<1>12. \A d \in Served' : CastOK(d)'
  <2> SUFFICES ASSUME NEW d \in Served' PROVE CastOK(d)'
    OBVIOUS
  <2>1. CASE d \in Served
    <3>1. CastOK(d)
      BY <1>2, <2>1 DEF RowInv
    <3> QED
      BY <3>1 DEF CastOK
  <2>2. CASE \E n \in Rising(k) : d = Wake(n)
    BY <1>1, <1>4, <2>2, WokenCastOK, Zenon
  <2> QED
    BY <1>5, <2>1, <2>2
<1>13. RowInv'
  BY <1>8, <1>11, <1>12 DEF RowInv
<1>14. ReplacementOK'
  <2> SUFFICES ASSUME NEW d \in Served', <<d.id, d.upd>> \notin stack.deps.nodes
               PROVE  /\ \A j \in DOMAIN rsrc : rsrc[j].replaced_by = d.id => j = rsrc[d.id].replaces
                      /\ \A v \in Checking' :
                            th'[v].rs.replaced_by = d.id => th'[v].msg.id = rsrc[d.id].replaces
    BY DEF ReplacementOK
  <2>1. d \in Served
    BY <1>1, <1>4, <1>5, WokenCastOK
  <2>2. /\ \A j \in DOMAIN rsrc : rsrc[j].replaced_by = d.id => j = rsrc[d.id].replaces
        /\ \A v \in Checking : th[v].rs.replaced_by = d.id => th[v].msg.id = rsrc[d.id].replaces
    BY <2>1 DEF CheckInv, ReplacementOK
  <2>3. \A v \in Checking' : v \in Checking /\ th'[v] = th[v]
    BY <1>5 DEF Checking
  <2> QED
    BY <2>2, <2>3
<1>15. PointsOK(current)'
  BY <1>1, <1>3, <1>4, ReportedPointsOK
<1>16. GraphOK(stack.deps, stack.tmpl, current)' /\ NamesOK(stack.tmpl, current)'
  BY Zenon DEF CheckInv, GraphOK, NamesOK, Ids
<1>17. CheckInv(current)'
  BY <1>6, <1>7, <1>11, <1>14, <1>15, <1>16 DEF CheckInv
<1>18. current \in Currents' /\ stack'.live
  BY DEF Currents, Ids
<1> QED
  BY <1>9, <1>10, <1>13, <1>17, <1>18, ChecksGoOn

\* Propagate keeps the invariant.
LEMMA PropagateKeepsOrder ==
    ASSUME TravInv, SeqInv, OrderInv, stack.live, NEW w \in Threads, Propagate(w)
    PROVE  OrderInv'
<1>1. th[w].pc = "propagate" /\ \E current \in Currents : CheckInv(current)
  <2>1. th[w].pc = "propagate"
    BY Zenon DEF Propagate, At
  <2> QED
    BY <2>1, WhileChecking DEF Busy, Launching
<1>2. PICK current \in Currents : CheckInv(current)
  BY <1>1
<1>3. PICK k : k = WorkerToken(w).key
  OBVIOUS
<1>4. /\ w \in Checking /\ w \notin Ops /\ UNCHANGED <<stack, rsrc, nextId, phys>>
      /\ th'[w].pc \notin Checks \cup Launching /\ \A v \in Threads \ {w} : th'[v] = th[v]
      /\ UNCHANGED <<nextTrav, dead>> /\ (UNCHANGED <<sp, casts>> \/ Reported(w, k))
  <2>1. UNCHANGED <<nextTrav, dead>>
    BY Zenon DEF Propagate
  <2> QED
    BY <1>2, <1>3, <2>1, PropagateDoes
<1>5. CASE UNCHANGED <<sp, casts>>
  <2>1. PICK i : i = th[w].msg.id
    OBVIOUS
  <2>2. Knows(w, i)
    BY <1>1, <2>1, CheckKnows DEF Checks
  <2>3. Apartly(i)
    BY <1>4, <1>5 DEF Apartly
  <2>4. Works(w, i)
    BY <1>4, <2>3, LocalWorks
  <2>5. WorksWell(w, i)
    BY <1>1, <1>4, <2>2, <2>4, RowLeft DEF WorksWell, ActsOn, Checking
  <2> QED
    BY <1>4, <2>1, <2>4, <2>5, WorkKeeps
<1>6. CASE Reported(w, k)
  BY <1>1, <1>2, <1>3, <1>4, <1>6, ReportedKeepsOrder
<1> QED
  BY <1>4, <1>5, <1>6

-----------------------------------------------------------------------------
(* A traversal is prepared.                                                  *)

\* Only the thread w has something to do.
Alone(w) == \A v \in Threads \ {w} : th'[v] = th[v] /\ ~Busy(th[v])

\* Rows are added that have not been created, and the others stay.
RowsLaid ==
    /\ UNCHANGED phys /\ DOMAIN rsrc \subseteq DOMAIN rsrc'
    /\ \A i \in DOMAIN rsrc : Same(rsrc'[i], rsrc[i])
    /\ \A i \in DOMAIN rsrc' \ DOMAIN rsrc :
          i \notin phys /\ rsrc'[i].action = "INIT" /\ rsrc'[i].status = "COMPLETE"

\* While it is prepared, nothing is checked.
LEMMA NothingIsChecked ==
    ASSUME NEW w \in Threads, Alone(w), th[w].pc \in Launching \cup {"idle"}, casts = {}
    PROVE  /\ Checking = {} /\ Served = {} /\ Tokens = {}
           /\ th'[w].pc \notin Checks => Checking' = {}
           /\ casts' = {} => Served' = {}
<1>1. th[w].pc \notin Checks /\ \A v \in Threads \ {w} : th[v].pc \notin Checks
  BY DEF Alone, Busy, Launching, Checks
<1>2. Checking = {} /\ Served = {}
  BY <1>1 DEF Checking, Served
<1>3. Tokens = {}
  BY <1>2 DEF Tokens
<1> QED
  BY <1>1, <1>2, <1>3 DEF Checking, Served, Alone

\* The rows.
LEMMA RowsStayOK ==
    ASSUME RowInv, NEW w \in Threads, Alone(w), th[w].pc \in Launching \cup {"idle"},
           th'[w].pc \notin Checks, RowsLaid
    PROVE  \A i \in DOMAIN rsrc' : RowOK(i)'
<1> SUFFICES ASSUME NEW i \in DOMAIN rsrc' PROVE RowOK(i)'
  OBVIOUS
<1>1. \A v \in Threads : th[v].pc \notin Checks /\ th'[v].pc \notin Checks
  BY DEF Alone, Busy, Launching, Checks
<1>2. \A pc \in {"handler", "replace", "release", "destroy"} : pc \in Checks
  BY DEF Checks
<1>3. CASE i \in DOMAIN rsrc
  <2>1. RowOK(i) /\ Same(rsrc'[i], rsrc[i]) /\ UNCHANGED phys
    BY <1>3 DEF RowInv, RowsLaid
  <2>2. ~\E v \in Threads : ActsOn(th[v], i)
    BY <1>1, <1>2 DEF ActsOn
  <2>3. rsrc[i].status # "IN_PROGRESS"
    BY <2>1, <2>2 DEF RowOK
  <2> QED
    BY <1>1, <1>2, <2>1, <2>3 DEF RowOK, Same
<1>4. CASE i \notin DOMAIN rsrc
  BY <1>4 DEF RowOK, RowsLaid
<1> QED
  BY <1>3, <1>4

\* Nothing is disturbed by a step of its preparation.
LEMMA LaunchKeepsOrder ==
    ASSUME OrderInv, stack.live, NEW w \in Threads, Alone(w),
           th[w].pc \in Launching \cup {"idle"}, th'[w].pc \in Launching,
           casts = {}, casts' = {}, RowsLaid, stack'.live, TmplInv',
           th'[w].pc \in {"store2", "trigger"} => Laid(th[w].st.deps)'
    PROVE  OrderInv'
<1>1. th'[w].pc \notin Checks
  BY DEF Launching, Checks
<1>2. Checking' = {} /\ Served' = {} /\ ThereInv /\ RowInv
  BY <1>1, NothingIsChecked DEF OrderInv
<1>3. Tokens' = {}
  BY <1>2 DEF Tokens
<1>4. ThereInv'
  <2>1. \A i \in DOMAIN rsrc' : rsrc'[i].action = "INIT" => i \notin phys'
    BY <1>2 DEF ThereInv, RowsLaid, Same
  <2> QED
    BY <1>2, <1>3, <2>1 DEF ThereInv, IdsApart
<1>5. RowInv'
  BY <1>1, <1>2, RowsStayOK DEF RowInv
<1>6. \A v \in Threads : th'[v].pc \in {"store2", "trigger"} => v = w
  BY DEF Alone, Busy
<1>7. \A v \in Threads : th'[v].pc \in {"store2", "trigger"} => Laid(th[v].st.deps)'
  BY <1>6
<1> QED
  BY <1>4, <1>5, <1>7 DEF OrderInv

\* Templates once taken remain so.
LEMMA TakenStays ==
    ASSUME NEW w \in Threads, Alone(w), th[w].pc = "idle" \/ th'[w].pc # "idle"
    PROVE  Taken \subseteq Taken'
<1>1. \A p \in Ops : th[p].pc # "idle" => th'[p].pc # "idle"
  BY DEF Alone, Threads
<1> QED
  BY <1>1 DEF Taken

\* A request is taken up.
LEMMA RequestKeepsOrder ==
    ASSUME InOrder, TravInv, SeqInv, OrderInv, stack.live, NEW o \in Ops, Request(o)
    PROVE  OrderInv'
<1>1. OneByOne /\ \A p, q \in Ops : Op[p].tmpl = Op[q].tmpl => p = q
  BY DEF InOrder
<1>2. /\ th[o].pc = "idle" /\ o \in Threads
      /\ UNCHANGED <<stack, rsrc, nextId, nextTrav, sp, casts, phys, dead>>
      /\ Settled /\ \A v \in Threads : ~Busy(th[v])
      /\ \A v \in Threads \ {o} : th'[v] = th[v]
      /\ \/ Gone(o)
         \/ /\ stack.live /\ DOMAIN sp = {}
            /\ th'[o].pc = "store1" /\ th'[o].st = stack /\ th'[o].goal = Op[o]
  BY <1>1, RequestDoes, Zenon
<1>3. (\A v \in Threads : th[v].pc \notin Launching) /\ th[o].pc \notin Checks
  BY <1>2 DEF Busy, Launching, Checks
<1>4. CASE Gone(o)
  <2>1. StackKept /\ PointsKept
    BY <1>2, Zenon DEF StackKept, PointsKept
  <2>2. QuietStep(o)
    BY <1>2, <1>4, <2>1, GoneIsQuiet DEF QuietStep
  <2> QED
    BY <1>2, <1>3, <2>2, QuietKeepsOrder
<1>5. CASE th'[o].pc = "store1" /\ th'[o].st = stack /\ th'[o].goal = Op[o]
  <2>1. Alone(o) /\ casts = {} /\ casts' = {}
    BY <1>2 DEF Alone, Settled
  <2>2. TmplInv
    BY DEF OrderInv
  <2>3. Op[o].tmpl \notin Taken
    BY <1>1, <1>2 DEF Taken
  <2>4. Taken \subseteq Taken' /\ Op[o].tmpl \in Taken'
    BY <1>2, <1>5, <2>1, TakenStays, Zenon DEF Taken
  <2>5. \A v \in Threads \ {o} : th'[v].pc \notin {"store1", "delete_prev", "resources"}
    BY <1>2 DEF Busy
  <2>6. TmplInv'
    BY <1>2, <1>5, <2>2, <2>3, <2>4, <2>5 DEF TmplInv
  <2>7. RowsLaid
    BY <1>2 DEF RowsLaid, Same
  <2> QED
    BY <1>2, <1>5, <2>1, <2>6, <2>7, LaunchKeepsOrder DEF Launching
<1> QED
  BY <1>2, <1>4, <1>5

\* The traversal is stored, and the sync points of the one before are deleted.
LEMMA StoreKeepsOrder ==
    ASSUME TravInv, SeqInv, OrderInv, stack.live, NEW w \in Threads,
           StoreTraversal(w) \/ DeletePrevSyncPoints(w)
    PROVE  OrderInv'
<1>1. /\ th[w].pc \in Launching /\ th'[w].pc \in Launching \ {"store2", "trigger"}
      /\ UNCHANGED <<rsrc, casts, phys>> /\ stack'.live
      /\ \A v \in Threads \ {w} : th'[v] = th[v]
      /\ \/ /\ th[w].pc = "store1" /\ th'[w].pc = "delete_prev"
            /\ stack'.tmpl = th[w].goal.tmpl
         \/ th[w].pc = "delete_prev" /\ th'[w].pc = "resources" /\ UNCHANGED stack
  BY StoreTraversalDoes, DeletePrevSyncPointsDoes DEF Becomes, Launching
<1>2. casts = {} /\ \A v \in Threads \ {w} : ~Busy(th[v])
  BY <1>1, LaunchIs
<1>3. Alone(w) /\ RowsLaid
  BY <1>1, <1>2 DEF Alone, RowsLaid, Same
<1>4. TmplInv
  BY DEF OrderInv
<1>5. Taken \subseteq Taken'
  BY <1>1, <1>3, TakenStays
<1>6. \A v \in Threads \ {w} : th'[v].pc \notin {"store1", "delete_prev", "resources"}
  BY <1>1, <1>2 DEF Busy
<1>7. TmplInv'
  BY <1>1, <1>4, <1>5, <1>6 DEF TmplInv
<1> QED
  BY <1>1, <1>2, <1>3, <1>7, LaunchKeepsOrder

\* The graph of a traversal.
LEMMA GraphIsLaid ==
    ASSUME TypeOK, TmplInv, NEW w \in Threads, th[w].pc = "resources",
           NEW current \in [TmplNames[stack.tmpl] -> DOMAIN rsrc'], Lays(w, current),
           DOMAIN rsrc' \subseteq Ids',
           NEW g, g = convg_deps(stack.tmpl, current, rsrc)
    PROVE  Laid(g)'
<1> DEFINE update == {<<current[n], TRUE>> : n \in TmplNames[stack.tmpl]}
           cleanup == {<<i, FALSE>> : i \in DOMAIN rsrc}
           requires == UNION {{<<<<current[n], TRUE>>, <<current[m], TRUE>>>> :
                                 m \in TmplRequires[stack.tmpl][n]} : n \in TmplNames[stack.tmpl]}
           order == UNION {{<<<<r, FALSE>>, <<i, FALSE>>>> :
                              r \in (rsrc[i].requires \cup {rsrc[i].replaces}) \cap DOMAIN rsrc} :
                             i \in DOMAIN rsrc}
           same == {<<<<i, FALSE>>, <<i, TRUE>>>> : i \in {j \in DOMAIN rsrc : <<j, TRUE>> \in update}}
<1>1. g.nodes = update \cup cleanup /\ g.edges = (requires \cup order) \cup same
  BY DEF convg_deps
<1>2. /\ UNCHANGED stack /\ DOMAIN rsrc \subseteq DOMAIN rsrc'
      /\ \A i \in DOMAIN rsrc : Same(rsrc'[i], rsrc[i])
      /\ \A i \in DOMAIN rsrc' \ DOMAIN rsrc :
            i \notin Ids /\ rsrc'[i].requires = {} /\ rsrc'[i].action = "INIT"
            /\ rsrc'[i].replaced_by = None
      /\ \A n \in TmplNames[stack.tmpl] : current[n] \in DOMAIN rsrc' /\ rsrc'[current[n]].name = n
  BY DEF Lays, NewRow
<1>3. \A i \in DOMAIN rsrc : rsrc[i].tmpl # stack.tmpl /\ rsrc[i].requires \subseteq Ids
  BY DEF TmplInv, TypeOK, Rows
<1>4. /\ \A n \in update : n[2] /\ \E a \in TmplNames[stack.tmpl] : n = <<current[a], TRUE>>
      /\ \A n \in cleanup : ~n[2] /\ \E i \in DOMAIN rsrc : n = <<i, FALSE>> /\ n[1] = i
  <2>1. \A a : <<a, TRUE>>[2] = TRUE /\ <<a, FALSE>>[2] = FALSE /\ <<a, FALSE>>[1] = a
    OBVIOUS
  <2> QED
    BY <2>1, Zenon
<1>8. LaunchOK(g)'
  <2>1. \A i \in DOMAIN rsrc' : rsrc'[i].tmpl = stack.tmpl =>
           rsrc'[i].action = "INIT" /\ rsrc'[i].replaced_by = None
    BY <1>2, <1>3 DEF Same
  <2>2. \A i \in DOMAIN rsrc' : Covered(i, g)'
    <3> SUFFICES ASSUME NEW i \in DOMAIN rsrc' PROVE Covered(i, g)'
      OBVIOUS
    <3> SUFFICES ASSUME NEW j \in rsrc'[i].requires
                 PROVE  Cleaned(j)' \/ <<<<j, FALSE>>, <<i, FALSE>>>> \in g.edges
      BY Zenon DEF Covered
    <3>1. i \in DOMAIN rsrc /\ j \in rsrc[i].requires /\ j \in Ids
      BY <1>2, <1>3 DEF Same
    <3>2. CASE j \in DOMAIN rsrc
      <4>1. <<<<j, FALSE>>, <<i, FALSE>>>> \in order
        BY <3>1, <3>2
      <4> QED
        BY <1>1, <4>1
    <3>3. CASE j \notin DOMAIN rsrc
      BY <1>2, <3>1, <3>3 DEF Cleaned
    <3> QED
      BY <3>2, <3>3
  <2>3. \A n \in g.nodes : n[1] \in DOMAIN rsrc'
    <3> SUFFICES ASSUME NEW n \in update \cup cleanup PROVE n[1] \in DOMAIN rsrc'
      BY <1>1, Zenon
    <3>1. CASE n \in update
      <4>1. PICK a \in TmplNames[stack.tmpl] : n = <<current[a], TRUE>>
        BY <1>4, <3>1, Zenon
      <4> QED
        BY <1>2, <4>1
    <3>2. CASE n \in cleanup
      BY <1>2, <1>4, <3>2, Zenon
    <3> QED
      BY <3>1, <3>2, Zenon
  <2> QED
    BY <1>2, <2>1, <2>2, <2>3 DEF LaunchOK
<1>5. GraphOK(g, stack.tmpl, current)'
  <2>1. current \in [TmplNames[stack.tmpl] -> Ids']
    OBVIOUS
  <2>2. {n \in g.nodes : n[2]} = update
    <3> HIDE DEF update, cleanup
    <3> QED
      BY <1>1, <1>4, Zenon
  <2>3. \A n \in TmplNames[stack.tmpl] : \A m \in TmplRequires[stack.tmpl][n] :
           <<<<current[n], TRUE>>, <<current[m], TRUE>>>> \in g.edges
    BY <1>1
  <2>4. \A e \in g.edges : e[1][2] => e[2][2]
    <3>0. \A a, b, x, y : <<<<a, x>>, <<b, y>>>>[1][2] = x /\ <<<<a, x>>, <<b, y>>>>[2][2] = y
      OBVIOUS
    <3>1. \A e \in requires : e[2][2]
      <4> SUFFICES ASSUME NEW e \in requires PROVE e[2][2]
        BY Zenon
      <4>0. PICK n \in TmplNames[stack.tmpl] :
               e \in {<<<<current[n], TRUE>>, <<current[m], TRUE>>>> :
                        m \in TmplRequires[stack.tmpl][n]}
        BY Zenon
      <4>1. PICK m \in TmplRequires[stack.tmpl][n] :
               e = <<<<current[n], TRUE>>, <<current[m], TRUE>>>>
        BY <4>0, Zenon
      <4> QED
        BY <3>0, <4>1
    <3>2. \A e \in order \cup same : ~e[1][2]
      <4> SUFFICES ASSUME NEW e \in order \cup same PROVE ~e[1][2]
        BY Zenon
      <4>1. CASE e \in order
        <5>1. PICK i, r : e = <<<<r, FALSE>>, <<i, FALSE>>>>
          BY <4>1, Zenon
        <5> QED
          BY <3>0, <5>1
      <4>2. CASE e \in same
        <5>1. PICK i : e = <<<<i, FALSE>>, <<i, TRUE>>>>
          BY <4>2, Zenon
        <5> QED
          BY <3>0, <5>1
      <4> QED
        BY <4>1, <4>2, Zenon
    <3> HIDE DEF requires, order, same
    <3> QED
      BY <1>1, <3>1, <3>2
  <2>5. \A n \in g.nodes : ~n[2] /\ <<n[1], TRUE>> \in g.nodes => <<n, <<n[1], TRUE>>>> \in g.edges
    <3> SUFFICES ASSUME NEW n \in g.nodes, ~n[2], <<n[1], TRUE>> \in g.nodes
                 PROVE  <<n, <<n[1], TRUE>>>> \in g.edges
      BY Zenon
    <3>1. n \in cleanup /\ <<n[1], TRUE>> \in update
      <4>1. <<n[1], TRUE>>[2] = TRUE
        OBVIOUS
      <4> HIDE DEF update, cleanup
      <4> QED
        BY <1>1, <1>4, <4>1, Zenon
    <3>2. PICK i \in DOMAIN rsrc : n = <<i, FALSE>> /\ n[1] = i
      BY <1>4, <3>1, Zenon
    <3>3. <<<<i, FALSE>>, <<i, TRUE>>>> \in same
      <4>1. i \in {j \in DOMAIN rsrc : <<j, TRUE>> \in update}
        BY <3>1, <3>2
      <4> HIDE DEF update
      <4> QED
        BY <4>1, Zenon
    <3> QED
      BY <1>1, <3>2, <3>3
  <2> HIDE DEF update, cleanup, requires, order, same
  <2>6. update = {<<current[n], TRUE>> : n \in TmplNames[stack.tmpl]}
    BY DEF update
  <2> QED
    BY <1>2, <2>1, <2>2, <2>3, <2>4, <2>5, <2>6, Zenon DEF GraphOK
<1>6. NamesOK(stack.tmpl, current)'
  BY <1>2 DEF NamesOK
<1>7. current \in Currents'
  BY <1>2 DEF Currents
<1> QED
  BY <1>5, <1>6, <1>7, <1>8 DEF Laid

\* The resources of the new template get their rows, and the graph is computed.
LEMMA LayKeepsOrder ==
    ASSUME TravInv, SeqInv, OrderInv, stack.live, TypeOK', NEW w \in Threads,
           UpdateOrStoreResources(w)
    PROVE  OrderInv'
<1>1. /\ th[w].pc = "resources"
      /\ \E current \in [TmplNames[stack.tmpl] -> DOMAIN rsrc'] : Lays(w, current)
  BY UpdateOrStoreResourcesDoes
<1>2. PICK current \in [TmplNames[stack.tmpl] -> DOMAIN rsrc'] : Lays(w, current)
  BY <1>1
<1>3. PICK g : g = convg_deps(stack.tmpl, current, rsrc)
  OBVIOUS
<1>4. /\ TypeOK /\ casts = {} /\ th[w].st \in Stacks /\ \A v \in Threads \ {w} : ~Busy(th[v])
  BY <1>1, LaunchIs DEF Launching
<1>5. /\ UNCHANGED <<stack, casts, phys>> /\ DOMAIN rsrc \subseteq DOMAIN rsrc'
      /\ \A i \in DOMAIN rsrc : Same(rsrc'[i], rsrc[i])
      /\ \A i \in DOMAIN rsrc' \ DOMAIN rsrc :
            i \notin Ids /\ \E n \in Names : rsrc'[i] = NewRow(n, stack.tmpl, {}, None)
      /\ \A v \in Threads \ {w} : th'[v] = th[v]
      /\ th'[w].pc = "store2" /\ th'[w].st = [th[w].st EXCEPT !.deps = g]
  BY <1>2, <1>3 DEF Lays, Becomes
<1>6. th'[w].st.deps = g
  BY <1>4, <1>5 DEF Stacks
<1>7. \A i \in DOMAIN rsrc' \ DOMAIN rsrc :
         /\ i \notin phys /\ rsrc'[i].action = "INIT" /\ rsrc'[i].status = "COMPLETE"
         /\ rsrc'[i].tmpl = stack.tmpl
  BY <1>4, <1>5 DEF NewRow, TypeOK
<1>8. Alone(w) /\ RowsLaid
  BY <1>4, <1>5, <1>7 DEF Alone, RowsLaid
<1>9. TmplInv
  BY DEF OrderInv
<1>10. TmplInv'
  <2>1. Taken \subseteq Taken'
    <3>1. th'[w].pc # "idle"
      BY <1>5
    <3> QED
      BY <1>8, <3>1, TakenStays
  <2>2. \A i \in DOMAIN rsrc' : rsrc'[i].tmpl \in Taken
    BY <1>5, <1>7, <1>9 DEF TmplInv, Same
  <2>3. \A v \in Threads : th'[v].pc \notin {"store1", "delete_prev", "resources"}
    BY <1>4, <1>5 DEF Busy
  <2> QED
    BY <1>5, <1>9, <2>1, <2>2, <2>3 DEF TmplInv
<1>11. DOMAIN rsrc' \subseteq Ids'
  BY DEF TypeOK
<1>12. Laid(g)'
  <2> HIDE <1>3
  <2> QED
    BY <1>1, <1>2, <1>3, <1>4, <1>9, <1>11, GraphIsLaid
<1>13. Laid(th[w].st.deps)'
  BY <1>6, <1>12, Zenon DEF Laid, LaunchOK, Covered, Cleaned, GraphOK, NamesOK, Currents
<1> QED
  BY <1>1, <1>4, <1>5, <1>8, <1>10, <1>13, LaunchKeepsOrder, Zenon DEF Launching

\* The graph is stored.
LEMMA StoreDepsKeepsOrder ==
    ASSUME TravInv, SeqInv, OrderInv, stack.live, NEW w \in Threads, StoreDeps(w)
    PROVE  OrderInv'
<1>1. /\ th[w].pc = "store2" /\ UNCHANGED <<rsrc, nextId, casts, phys>>
      /\ stack' = th[w].st /\ th'[w].pc = "trigger" /\ th'[w].st = th[w].st
      /\ \A v \in Threads \ {w} : th'[v] = th[v]
  BY StoreDepsDoes DEF Becomes
<1>2. /\ casts = {} /\ (\A v \in Threads \ {w} : ~Busy(th[v]))
      /\ th[w].st.live /\ th[w].st.tmpl = stack.tmpl
  BY <1>1, LaunchIs DEF Launching
<1>3. TmplInv /\ Laid(th[w].st.deps)
  BY <1>1 DEF OrderInv
<1>4. Alone(w) /\ RowsLaid
  BY <1>1, <1>2 DEF Alone, RowsLaid, Same
<1>5. Taken \subseteq Taken'
  BY <1>1, <1>4, TakenStays
<1>6. \A v \in Threads : th'[v].pc \notin {"store1", "delete_prev", "resources"}
  BY <1>1, <1>2 DEF Busy
<1>7. TmplInv'
  BY <1>1, <1>2, <1>3, <1>5, <1>6 DEF TmplInv
<1>8. Laid(th[w].st.deps)'
  <2>1. stack'.tmpl = stack.tmpl /\ th'[w].st.deps = th[w].st.deps /\ UNCHANGED <<rsrc, nextId>>
    BY <1>1, <1>2
  <2>2. PICK g : g = th[w].st.deps
    OBVIOUS
  <2>3. Laid(g)
    BY <1>3, <2>2
  <2>4. LaunchOK(g)'
    BY <2>1, <2>3, Zenon DEF Laid, LaunchOK, Covered, Cleaned
  <2>5. PICK current \in Currents : GraphOK(g, stack.tmpl, current) /\ NamesOK(stack.tmpl, current)
    BY <2>3 DEF Laid
  <2>6. /\ current \in Currents' /\ GraphOK(g, stack.tmpl, current)'
        /\ NamesOK(stack.tmpl, current)'
    BY <2>1, <2>5, Zenon DEF Currents, GraphOK, NamesOK, Ids
  <2>7. Laid(g)'
    BY <2>4, <2>6 DEF Laid
  <2>8. g = th'[w].st.deps
    BY <2>1, <2>2
  <2> QED
    BY <2>7, <2>8, Zenon DEF Laid, LaunchOK, Covered, Cleaned, GraphOK, NamesOK, Currents
<1> QED
  BY <1>1, <1>2, <1>4, <1>7, <1>8, LaunchKeepsOrder DEF Launching

\* What a leaf waits for is nothing, and it is handed nothing.
LeafToken(n) ==
    [of |-> <<"cast", Cast(n[1], stack.trav, n[2], {})>>, id |-> n[1], upd |-> n[2],
     data |-> {}, name |-> rsrc[n[1]].name, key |-> n]

\* The messages to the leaves are the tokens that a traversal starts with.
LEMMA LeavesAreTokens ==
    ASSUME TypeOK, UNCHANGED <<stack, rsrc>>, Checking' = {},
           casts' = {Cast(n[1], stack.trav, n[2], {}) : n \in leaves(stack.deps)}
    PROVE  Tokens' \subseteq {LeafToken(n) : n \in leaves(stack.deps)}
<1>1. \A n : /\ Cast(n[1], stack.trav, n[2], {}).id = n[1]
             /\ Cast(n[1], stack.trav, n[2], {}).upd = n[2]
             /\ Cast(n[1], stack.trav, n[2], {}).data = {}
  BY DEF Cast
<1>2. Tokens' = {CastToken(m)' : m \in Served'}
  BY DEF Tokens
<1> SUFFICES ASSUME NEW x \in Tokens' PROVE \E n \in leaves(stack.deps) : x = LeafToken(n)
  OBVIOUS
<1>3. PICK m \in Served' : x = CastToken(m)'
  BY <1>2
<1>4. PICK n \in leaves(stack.deps) : m = Cast(n[1], stack.trav, n[2], {})
  BY DEF Served
<1>5. n \in stack.deps.nodes /\ n = <<n[1], n[2]>>
  BY NodesAre DEF leaves
<1>6. m.id = n[1] /\ m.upd = n[2] /\ m.data = {}
  BY <1>1, <1>4, Zenon
<1>7. Stands(m.id, m.upd, rsrc[m.id].replaces)' = n
  BY <1>5, <1>6 DEF Stands
<1>8. CastToken(m)' = LeafToken(n)
  BY <1>4, <1>6, <1>7, Zenon DEF CastToken, LeafToken
<1> QED
  BY <1>3, <1>8

\* A traversal starts with the leaves of its graph.
LEMMA LeavesStartChecks ==
    ASSUME TypeOK, UNCHANGED <<stack, rsrc, nextId>>, Checking' = {}, Laid(stack.deps),
           casts' = {Cast(n[1], stack.trav, n[2], {}) : n \in leaves(stack.deps)},
           Points' = [n \in stack.deps.nodes \cup {StackNode} |-> {}]
    PROVE  IdsApart' /\ \E current \in Currents' : CheckInv(current)'
<1>1. PICK current \in Currents : GraphOK(stack.deps, stack.tmpl, current)
                                  /\ NamesOK(stack.tmpl, current)
  BY DEF Laid
<1>2. LaunchOK(stack.deps)
  BY DEF Laid
<1>3. \A n \in leaves(stack.deps) :
         /\ n \in stack.deps.nodes /\ graphPreds(stack.deps, n) = {}
         /\ n = <<n[1], n[2]>> /\ n[2] \in BOOLEAN
         /\ \A m : <<n, m>> \notin stack.deps.edges
  <2> SUFFICES ASSUME NEW n \in leaves(stack.deps)
               PROVE  /\ n \in stack.deps.nodes /\ graphPreds(stack.deps, n) = {}
                      /\ n = <<n[1], n[2]>> /\ n[2] \in BOOLEAN
                      /\ \A m : <<n, m>> \notin stack.deps.edges
    OBVIOUS
  <2>1. n \in stack.deps.nodes /\ graphPreds(stack.deps, n) = {}
    BY DEF leaves
  <2>2. \A m : <<n, m>> \notin stack.deps.edges
    <3> SUFFICES ASSUME NEW m, <<n, m>> \in stack.deps.edges PROVE FALSE
      OBVIOUS
    <3>1. m \in graphPreds(stack.deps, n)
      BY DEF graphPreds
    <3> QED
      BY <2>1, <3>1
  <2> QED
    BY <2>1, <2>2, NodesAre
<1>4. \A x \in Tokens' : \E n \in leaves(stack.deps) : x = LeafToken(n)
  BY LeavesAreTokens
<1>5. \A n : /\ LeafToken(n).id = n[1] /\ LeafToken(n).upd = n[2] /\ LeafToken(n).key = n
             /\ LeafToken(n).data = {} /\ LeafToken(n).name = rsrc[n[1]].name
  BY DEF LeafToken
<1>6. \A x \in Tokens' :
         /\ x.key \in leaves(stack.deps) /\ x.id = x.key[1] /\ x.upd = x.key[2]
         /\ x.data = {} /\ x.name = rsrc[x.id].name /\ x = LeafToken(x.key)
  BY <1>4, <1>5
<1>7. \A x, y \in Tokens' : x # y =>
         x.id # y.id /\ x.key # y.key /\ <<x.key, y.key>> \notin stack.deps.edges
  <2> SUFFICES ASSUME NEW x \in Tokens', NEW y \in Tokens', x # y
               PROVE  x.id # y.id /\ x.key # y.key /\ <<x.key, y.key>> \notin stack.deps.edges
    OBVIOUS
  <2>1. x.key # y.key /\ x.key \in leaves(stack.deps) /\ y.key \in leaves(stack.deps)
    BY <1>6
  <2>2. ASSUME NEW a \in leaves(stack.deps), NEW b \in leaves(stack.deps), a[1] = b[1], ~a[2]
        PROVE  ~b[2]
    <3> SUFFICES ASSUME b[2] PROVE FALSE
      OBVIOUS
    <3>1. <<a[1], TRUE>> \in stack.deps.nodes
      BY <1>3, <2>2, Zenon
    <3>2. <<a, <<a[1], TRUE>>>> \in stack.deps.edges
      BY <1>1, <1>3, <2>2, <3>1, Zenon DEF GraphOK
    <3> QED
      BY <1>3, <3>2
  <2>3. x.id # y.id
    <3> SUFFICES ASSUME x.id = y.id PROVE FALSE
      OBVIOUS
    <3>1. x.key[1] = y.key[1]
      BY <1>6
    <3>2. x.key[2] <=> y.key[2]
      BY <2>1, <2>2, <3>1
    <3> QED
      BY <1>3, <2>1, <3>1, <3>2
  <2> QED
    BY <1>3, <2>1, <2>3
<1>8. \A n \in DOMAIN Points' : Points'[n] = {} /\ senders(Points'[n]) = {}
  BY DEF senders
<1>9. \A x \in Tokens' : TokenOK(x, current)'
  <2> SUFFICES ASSUME NEW x \in Tokens' PROVE TokenOK(x, current)'
    OBVIOUS
  <2>1. /\ x.key \in stack.deps.nodes /\ graphPreds(stack.deps, x.key) = {}
        /\ x.key = <<x.id, x.upd>> /\ x.data = {} /\ x.name = rsrc[x.id].name
    BY <1>3, <1>6
  <2>2. x.key[2] = x.upd /\ x.key[1] = x.id
    BY <1>6
  <2>3. \A n \in TmplNames[stack.tmpl] : x.key = <<current[n], TRUE>> => x.name = n
    <3> SUFFICES ASSUME NEW n \in TmplNames[stack.tmpl], x.key = <<current[n], TRUE>>
                 PROVE  x.name = n
      OBVIOUS
    <3>1. x.id = current[n]
      BY <2>2
    <3>2. current[n] \in DOMAIN rsrc
      BY <1>2, <2>1, <2>2, <3>1 DEF LaunchOK
    <3> QED
      BY <1>1, <2>1, <3>1, <3>2 DEF NamesOK
  <2>4. Ready(x.key)' /\ \A n \in DOMAIN Points' : x.key \notin senders(Points'[n])
    BY <1>8, <2>1, Zenon DEF Ready
  <2>5. DataOK(x.data, current)'
    BY <2>1 DEF DataOK
  <2> QED
    BY <2>1, <2>2, <2>3, <2>4, <2>5, Zenon DEF TokenOK
<1>10. PointsOK(current)'
  <2>1. \A n \in DOMAIN Points' : DataOK(Points[n], current)'
    BY <1>8 DEF DataOK
  <2> QED
    BY <1>8, <2>1 DEF PointsOK
<1>11. \A i \in DOMAIN rsrc : ClaimOK(i)'
  <2> SUFFICES ASSUME NEW i \in DOMAIN rsrc PROVE ClaimOK(i)'
    OBVIOUS
  <2>1. /\ rsrc[i].tmpl = stack.tmpl => rsrc[i].action = "INIT" /\ rsrc[i].replaced_by = None
        /\ Covered(i, stack.deps)
    BY <1>2 DEF LaunchOK
  <2>2. ~Claim(i) /\ ~Claim(i)' /\ (rsrc[i].replaced_by # None => rsrc[i].tmpl # stack.tmpl)
    BY <2>1 DEF Claim
  <2>3. Covered(i, stack.deps)'
    BY <2>1, Zenon DEF Covered, Cleaned
  <2> QED
    BY <2>2, <2>3 DEF ClaimOK
<1>12. ReplacementOK'
  <2>1. \A m \in Served' : <<m.id, m.upd>> \in stack.deps.nodes
    <3> SUFFICES ASSUME NEW m \in Served' PROVE <<m.id, m.upd>> \in stack.deps.nodes
      BY Zenon
    <3>1. PICK n \in leaves(stack.deps) : m = Cast(n[1], stack.trav, n[2], {})
      BY DEF Served
    <3> QED
      BY <1>3, <3>1 DEF Cast
  <2> QED
    BY <2>1 DEF ReplacementOK
<1>13. GraphOK(stack.deps, stack.tmpl, current)' /\ NamesOK(stack.tmpl, current)'
  BY <1>1, Zenon DEF GraphOK, NamesOK, Ids
<1>14. KeysApart' /\ IdsApart'
  BY <1>7, Zenon DEF KeysApart, IdsApart
<1>15. CheckInv(current)'
  BY <1>9, <1>10, <1>11, <1>12, <1>13, <1>14 DEF CheckInv
<1>16. current \in Currents'
  BY DEF Currents, Ids
<1> QED
  BY <1>14, <1>15, <1>16

\* The checks begin.
LEMMA TriggerKeepsOrder ==
    ASSUME TravInv, SeqInv, OrderInv, stack.live, NEW w \in Threads, TriggerLeaves(w)
    PROVE  OrderInv'
<1>1. /\ th[w].pc = "trigger" /\ UNCHANGED <<stack, rsrc, nextId, phys>>
      /\ th[w].st.deps = stack.deps /\ DOMAIN sp' = {stack.trav}
      /\ sp'[stack.trav] = [n \in stack.deps.nodes \cup {StackNode} |-> {}]
      /\ casts' = {Cast(n[1], stack.trav, n[2], {}) : n \in leaves(stack.deps)}
      /\ Gone(w) \/ Becomes(w, "complete", th[w].st, th[w].rs, th[w].out)
  BY TriggerLeavesDoes, Zenon
<1>2. /\ TypeOK /\ casts = {} /\ \A v \in Threads \ {w} : ~Busy(th[v])
  BY <1>1, LaunchIs DEF Launching
<1>3. /\ \A v \in Threads \ {w} : th'[v] = th[v]
      /\ th'[w].pc \notin Checks \cup Launching /\ (w \in Ops => th'[w].pc # "idle")
  BY <1>1, GoneIsQuiet DEF Becomes, Checks, Launching
<1>4. Alone(w) /\ RowsLaid /\ th[w].pc \in Launching
  BY <1>1, <1>2, <1>3 DEF Alone, RowsLaid, Same, Launching
<1>5. Checking = {} /\ Checking' = {}
  BY <1>2, <1>3, <1>4, NothingIsChecked
<1>6. ThereInv /\ TmplInv /\ RowInv /\ Laid(th[w].st.deps)
  BY <1>1 DEF OrderInv
<1>7. Laid(stack.deps)
  BY <1>1, <1>6
<1>8. Points' = [n \in stack.deps.nodes \cup {StackNode} |-> {}]
  BY <1>1 DEF Points
<1>9. IdsApart' /\ \E current \in Currents' : CheckInv(current)'
  BY <1>1, <1>2, <1>5, <1>7, <1>8, LeavesStartChecks
<1>10. ThereInv'
  BY <1>1, <1>5, <1>6, <1>9 DEF ThereInv
<1>11. \A v \in Threads : th'[v].pc \notin Launching
  BY <1>2, <1>3 DEF Busy, Launching
<1>12. TmplInv'
  <2>1. \A p \in Ops : th[p].pc # "idle" => th'[p].pc # "idle"
    BY <1>3 DEF Threads
  <2> QED
    BY <1>1, <1>6, <1>11, <2>1, TmplKeeps DEF TmplInv
<1>13. RowInv'
  <2>1. \A i \in DOMAIN rsrc' : RowOK(i)'
    BY <1>3, <1>4, <1>6, RowsStayOK
  <2>2. \A m \in Served' : CastOK(m)'
    <3> SUFFICES ASSUME NEW m \in Served' PROVE CastOK(m)'
      OBVIOUS
    <3>1. PICK n \in leaves(stack.deps) : m = Cast(n[1], stack.trav, n[2], {})
      BY <1>1 DEF Served
    <3>2. <<m.id, m.upd>> \in stack.deps.nodes
      <4>1. n \in stack.deps.nodes /\ n = <<n[1], n[2]>>
        BY <1>2, NodesAre DEF leaves
      <4> QED
        BY <3>1, <4>1 DEF Cast
    <3>3. m.id \in DOMAIN rsrc
      BY <1>1 DEF Served
    <3> QED
      BY <1>1, <1>7, <3>2, <3>3 DEF CastOK, Laid, LaunchOK
  <2> QED
    BY <1>5, <2>1, <2>2 DEF RowInv
<1>14. PICK current \in Currents' : CheckInv(current)'
  BY <1>9
<1> QED
  BY <1>1, <1>10, <1>11, <1>12, <1>13, <1>14, ChecksGoOn

-----------------------------------------------------------------------------
(* After the stack is gone.                                                  *)

\* What is left of the checks creates nothing that is there already, and
\* touches no row.
GoneStep(w) ==
    /\ ~stack'.live /\ casts' \subseteq casts
    /\ \A v \in Threads \ {w} : th'[v] = th[v]
    /\ th'[w].pc \in Checks =>
          th[w].pc \in Checks /\ th'[w].msg = th[w].msg /\ NotThere(th[w])'
    /\ \A i \in DOMAIN rsrc' : rsrc'[i].action = "INIT" /\ (i \in DOMAIN rsrc \/ i \notin Ids)
    /\ \A i \in phys' \ phys : th[w].pc \in Checks /\ i = th[w].msg.id

\* Such a step disturbs nothing.
LEMMA GoneStepKeepsOrder ==
    ASSUME TypeOK, OrderInv, ~stack.live, NEW w \in Threads, GoneStep(w)
    PROVE  OrderInv'
<1>1. ThereInv /\ GoneInv
  BY DEF OrderInv
<1>2. KnownIds /\ phys \subseteq Ids
  BY IdsAreKnown DEF TypeOK
<1>3. \A v \in Checking' : v \in Checking /\ th'[v].msg = th[v].msg
  BY DEF GoneStep, Checking
<1>4. \A v \in Checking : th[v].msg.id \in Ids /\ th[v].msg.id \notin DOMAIN rsrc
  BY <1>1, <1>2 DEF GoneInv, KnownIds
<1>5. \A v \in Checking' : th'[v].msg.id \notin DOMAIN rsrc'
  BY <1>3, <1>4 DEF GoneStep
<1>6. Served' = {}
  <2>1. \A m \in casts' : m.id \in Ids /\ m.id \notin DOMAIN rsrc
    BY <1>1, <1>2 DEF GoneStep, GoneInv, KnownIds, Served
  <2> QED
    BY <2>1 DEF GoneStep, Served
<1>7. IdsApart'
  <2> SUFFICES ASSUME NEW x \in Tokens', NEW y \in Tokens', x # y PROVE x.id # y.id
    BY DEF IdsApart
  <2>1. PICK v \in Checking' : x = WorkerToken(v)'
    BY <1>6, TokensAre
  <2>2. PICK u \in Checking' : y = WorkerToken(u)'
    BY <1>6, TokensAre
  <2>3. x.id = th[v].msg.id /\ y.id = th[u].msg.id /\ v \in Checking /\ u \in Checking
    BY <1>3, <2>1, <2>2 DEF WorkerToken
  <2>4. v # u
    BY <2>1, <2>2
  <2> QED
    BY <1>1, <2>3, <2>4, ApartFrom DEF ThereInv
<1>8. \A i \in DOMAIN rsrc' : rsrc'[i].action = "INIT" => i \notin phys'
  <2> SUFFICES ASSUME NEW i \in DOMAIN rsrc' PROVE i \notin phys'
    OBVIOUS
  <2>1. i \notin phys
    BY <1>1, <1>2 DEF GoneStep, GoneInv, ThereInv
  <2>2. CASE i \in phys'
    <3>1. w \in Checking /\ i = th[w].msg.id
      BY <2>1, <2>2 DEF GoneStep, Checking
    <3> QED
      BY <1>4, <3>1 DEF GoneStep
  <2> QED
    BY <2>2
<1>9. \A v \in Checking' : NotThere(th[v])'
  <2> SUFFICES ASSUME NEW v \in Checking' PROVE NotThere(th[v])'
    OBVIOUS
  <2>1. CASE v = w
    BY <2>1 DEF GoneStep, Checking
  <2>2. CASE v # w
    <3>1. v \in Checking /\ v \in Threads /\ th'[v] = th[v] /\ NotThere(th[v])
      BY <1>1, <1>3, <2>2 DEF GoneStep, ThereInv, Checking
    <3>2. th[v].msg.id \in phys' => th[v].msg.id \in phys
      <4>1. CASE th[v].msg.id \in phys' \ phys
        <5>1. w \in Checking /\ th[v].msg.id = th[w].msg.id
          BY <4>1 DEF GoneStep, Checking
        <5> QED
          BY <1>1, <2>2, <3>1, <5>1, ApartFrom DEF ThereInv
      <4> QED
        BY <4>1
    <3> QED
      BY <3>1, <3>2 DEF NotThere, Loaded
  <2> QED
    BY <2>1, <2>2
<1>10. ThereInv' /\ GoneInv'
  BY <1>5, <1>6, <1>7, <1>8, <1>9 DEF ThereInv, GoneInv, GoneStep
<1> QED
  BY <1>10 DEF OrderInv, GoneStep

\* A thread that leaves everything but the stack as it is.
LEMMA GoneQuietly ==
    ASSUME TypeOK, OrderInv, ~stack.live, NEW w \in Threads, ~stack'.live,
           UNCHANGED <<rsrc, phys>>, casts' \subseteq casts,
           \A v \in Threads \ {w} : th'[v] = th[v], th'[w].pc \notin Checks
    PROVE  OrderInv'
<1>1. GoneStep(w)
  BY DEF GoneStep, OrderInv, GoneInv
<1> QED
  BY <1>1, GoneStepKeepsOrder

\* What a check of a resource that is gone does.
LEMMA GoneWork ==
    ASSUME TravInv, LockInv, SeqInv, OrderInv, ~stack.live, NEW w \in Threads,
           \/ AcquireRead(w) \/ Acquire(w) \/ BeginCreate(w) \/ BeginUpdate(w) \/ BeginCleanup(w)
           \/ HandlerDone(w) \/ (\E k \in {"fail", "timeout"} : HandlerFails(w, k))
           \/ Destroy(w) \/ Release(w) \/ TrySteal(w)
    PROVE  OrderInv'
<1>1. PICK i : i = th[w].msg.id
  OBVIOUS
<1>2. TypeOK /\ dead = {} /\ \A j \in DOMAIN rsrc : rsrc[j].action = "INIT"
  BY DEF TravInv, SeqInv, OrderInv, GoneInv
<1>3. th[w].pc \in Checks => i \notin DOMAIN rsrc /\ NotThere(th[w]) /\ w \in Workers
  BY <1>1 DEF OrderInv, GoneInv, ThereInv, Checking, TravInv, WorkersCheck
<1> DEFINE Goes == /\ th[w].pc \in Checks /\ \A v \in Threads \ {w} : th'[v] = th[v]
                   /\ th'[w].pc \in Checks => th'[w].msg = th[w].msg /\ NotThere(th[w])'
<1>4. /\ "acquire" \in Checks /\ "cas" \in Checks /\ "begin" \in Checks /\ "handler" \in Checks
      /\ "release" \in Checks /\ "destroy" \in Checks /\ "in_progress" \in Checks
  BY DEF Checks
<1>5. ASSUME NEW pc \in {"in_progress", "release", "destroy", "propagate"}, NEW st, NEW rs, NEW out,
             Becomes(w, pc, st, rs, out), th[w].pc \in Checks
      PROVE  Goes
  BY <1>5 DEF Becomes, NotThere, Loaded
<1>6. ASSUME Gone(w), th[w].pc \in Checks PROVE Goes
  BY <1>6, GoneIsQuiet
<1>7. ASSUME NEW a, RowSays(i, a), th[w].pc \in Checks
      PROVE  DOMAIN rsrc' = DOMAIN rsrc /\ \A j \in DOMAIN rsrc' : rsrc'[j].action = "INIT"
  BY <1>2, <1>3, <1>7 DEF RowSays
<1>8. CASE AcquireRead(w) \/ TrySteal(w)
  <2>1. Goes /\ UNCHANGED <<rsrc, phys>> /\ Apartly(i)
    BY <1>1, <1>2, <1>3, <1>4, <1>6, <1>8, AcquireReadDoes, TryStealDoes
  <2>2. GoneStep(w)
    BY <1>2, <2>1 DEF GoneStep, Apartly
  <2> QED
    BY <1>2, <2>2, GoneStepKeepsOrder
<1>9. CASE Acquire(w)
  <2>1. /\ th[w].pc = "cas" /\ Apartly(i) /\ UNCHANGED phys /\ RowSays(i, rsrc[i])
        /\ \/ Becomes(w, "in_progress", th[w].st, th[w].rs, th[w].out)
           \/ i \in DOMAIN rsrc
    BY <1>1, <1>2, <1>9, AcquireDoes
  <2>2. Goes
    BY <1>3, <1>4, <1>5, <2>1
  <2>3. GoneStep(w)
    BY <1>2, <1>4, <1>7, <2>1, <2>2 DEF GoneStep, Apartly
  <2> QED
    BY <1>2, <2>3, GoneStepKeepsOrder
<1>10. CASE BeginCreate(w) \/ BeginUpdate(w) \/ BeginCleanup(w)
  <2>1. /\ th[w].pc = "begin" /\ Apartly(i) /\ UNCHANGED phys
        /\ BeginsCreate(w) \/ BeginsUpdate(w) \/ BeginsCleanup(w)
    BY <1>1, <1>2, <1>10, BeginDoes
  <2>2. th[w].rs.action = "INIT" => i \notin phys
    BY <1>1, <1>3, <1>4, <2>1 DEF NotThere, Loaded
  <2>3. ASSUME NEW r, NEW st, NEW out, Becomes(w, "handler", st, r, out),
               r.action = "CREATE" => th[w].rs.action = "INIT"
        PROVE  Goes
    <3>1. /\ th'[w].pc = "handler" /\ th'[w].rs = r /\ th'[w].msg = th[w].msg
          /\ \A v \in Threads \ {w} : th'[v] = th[v]
      BY <2>3 DEF Becomes
    <3>2. NotThere(th[w])'
      BY <1>1, <2>1, <2>2, <2>3, <3>1 DEF NotThere, Loaded
    <3> QED
      BY <1>4, <2>1, <3>1, <3>2
  <2>4. Goes /\ (UNCHANGED rsrc \/ \E a : RowSays(i, a))
    <3>1. CASE BeginsCreate(w)
      <4>1. PICK r : \/ RowSays(i, r) /\ Becomes(w, "handler", th[w].st, r, th[w].out)
                     \/ UNCHANGED rsrc /\ Becomes(w, "release", th[w].st, r, "failed")
        BY <1>1, <3>1 DEF BeginsCreate
      <4>2. th[w].rs.action = "INIT"
        BY <3>1 DEF BeginsCreate
      <4> HIDE DEF Goes
      <4> QED
        BY <1>4, <1>5, <2>1, <2>3, <4>1, <4>2
    <3>2. CASE BeginsUpdate(w)
      <4>1. \/ UNCHANGED rsrc /\ \E r, out : Becomes(w, "release", th[w].st, r, out)
            \/ \E r : /\ r.action = "UPDATE" /\ RowSays(i, r)
                      /\ Becomes(w, "handler", th[w].st, r, th[w].out)
        BY <1>1, <3>2 DEF BeginsUpdate, Variant
      <4> HIDE DEF Goes
      <4> QED
        BY <1>4, <1>5, <2>1, <2>3, <4>1
    <3>3. CASE BeginsCleanup(w)
      <4>1. \/ /\ UNCHANGED rsrc
               /\ \E pc \in {"release", "destroy"} : \E r, out : Becomes(w, pc, th[w].st, r, out)
            \/ \E r : /\ r.action = "DELETE" /\ RowSays(i, r)
                      /\ Becomes(w, "handler", th[w].st, r, th[w].out)
        BY <1>1, <3>3 DEF BeginsCleanup, Variant
      <4> HIDE DEF Goes
      <4> QED
        BY <1>4, <1>5, <2>1, <2>3, <4>1
    <3> QED
      BY <2>1, <3>1, <3>2, <3>3
  <2>5. GoneStep(w)
    BY <1>2, <1>4, <1>7, <2>1, <2>4 DEF GoneStep, Apartly
  <2> QED
    BY <1>2, <2>5, GoneStepKeepsOrder
<1>11. CASE HandlerDone(w) \/ \E k \in {"fail", "timeout"} : HandlerFails(w, k)
  <2>1. th[w].pc = "handler" /\ Apartly(i) /\ (EndsWell(w) \/ EndsBadly(w))
    BY <1>1, <1>2, <1>11, HandlerDoneDoes, HandlerFailsDoes
  <2>2. /\ UNCHANGED rsrc \/ \E a : RowSays(i, a)
        /\ \E pc \in {"release", "destroy"} : \E st, r, out : Becomes(w, pc, st, r, out)
    <3>1. CASE EndsWell(w)
      BY <1>1, <3>1 DEF EndsWell
    <3>2. CASE EndsBadly(w)
      BY <1>1, <3>2 DEF EndsBadly
    <3> QED
      BY <2>1, <3>1, <3>2
  <2>3. Goes
    BY <1>4, <1>5, <2>1, <2>2
  <2>4. \A j \in phys' \ phys : j = i
    BY <2>1 DEF Apartly
  <2>5. GoneStep(w)
    BY <1>1, <1>2, <1>4, <1>7, <2>1, <2>2, <2>3, <2>4 DEF GoneStep, Apartly
  <2> QED
    BY <1>2, <2>5, GoneStepKeepsOrder
<1>12. CASE Destroy(w)
  <2>1. /\ th[w].pc = "destroy" /\ Apartly(i) /\ UNCHANGED phys
        /\ Becomes(w, "propagate", th[w].st, th[w].rs, th[w].out)
        /\ DOMAIN rsrc' = DOMAIN rsrc \ {i}
        /\ \A j \in DOMAIN rsrc' : rsrc'[j] = rsrc[j] \/ Same(rsrc'[j], rsrc[j])
    BY <1>1, <1>2, <1>12, DestroyDoes, Zenon
  <2>2. Goes
    BY <1>4, <1>5, <2>1
  <2>3. GoneStep(w)
    BY <1>2, <2>1, <2>2 DEF GoneStep, Apartly, Same
  <2> QED
    BY <1>2, <2>3, GoneStepKeepsOrder
<1>13. CASE Release(w)
  <2>0. th[w].pc = "release"
    BY <1>13, Zenon DEF Release, At
  <2>1. Apartly(i) /\ UNCHANGED <<rsrc, phys>> /\ Gone(w)
    BY <1>1, <1>2, <1>3, <1>4, <1>13, <2>0, ReleaseDoes
  <2>2. Goes
    BY <1>4, <1>6, <2>0, <2>1
  <2>3. GoneStep(w)
    BY <1>2, <2>1, <2>2 DEF GoneStep, Apartly
  <2> QED
    BY <1>2, <2>3, GoneStepKeepsOrder
<1> QED
  BY <1>8, <1>9, <1>10, <1>11, <1>12, <1>13

\* What is left to report is not reported any more.
LEMMA GoneReports ==
    ASSUME TravInv, SeqInv, OrderInv, ~stack.live, NEW w \in Threads, Replace(w) \/ Propagate(w)
    PROVE  OrderInv'
<1>1. TypeOK /\ DOMAIN sp = {} /\ \A j \in DOMAIN rsrc : rsrc[j].action = "INIT"
  BY Zenon DEF TravInv, SeqInv, PointsArePurged, OrderInv, GoneInv
<1>2. CASE Replace(w)
  <2>1. th[w].pc = "replace" /\ IsReplaced(w)
    BY <1>1, <1>2, ReplaceDoes
  <2>2. th[w].pc \in Checks /\ th[w].msg.id \notin DOMAIN rsrc
    BY <2>1 DEF OrderInv, GoneInv, Checking, Checks
  <2>3. /\ UNCHANGED <<stack, phys, casts>> /\ Gone(w)
        /\ DOMAIN rsrc' = DOMAIN rsrc \cup {nextId} /\ nextId \notin Ids
        /\ rsrc'[nextId].action = "INIT" /\ \A j \in DOMAIN rsrc : rsrc'[j] = rsrc[j]
    BY <2>1, <2>2 DEF IsReplaced, NewRow
  <2>4. GoneStep(w)
    BY <1>1, <2>2, <2>3, GoneIsQuiet DEF GoneStep
  <2> QED
    BY <1>1, <2>4, GoneStepKeepsOrder
<1>3. CASE Propagate(w)
  <2>1. /\ UNCHANGED <<stack, rsrc, phys>>
        /\ Return(w) \/ Goto(w, "retrigger") \/ Goto(w, "complete")
        /\ UNCHANGED casts \/ th[w].msg.trav \in DOMAIN sp
    BY <1>3, Zenon DEF Propagate
  <2>2. UNCHANGED casts
    BY <1>1, <2>1
  <2>3. \/ Gone(w)
        \/ \E pc \in {"retrigger", "complete"} :
              Becomes(w, pc, th[w].st, th[w].rs, th[w].out)
    <3>1. Return(w) => Gone(w)
      BY <1>1, Forms, Zenon
    <3>2. /\ Goto(w, "retrigger") => Becomes(w, "retrigger", th[w].st, th[w].rs, th[w].out)
          /\ Goto(w, "complete") => Becomes(w, "complete", th[w].st, th[w].rs, th[w].out)
      BY <1>1, Forms, Zenon
    <3> QED
      BY <2>1, <3>1, <3>2
  <2>4. th'[w].pc \notin Checks /\ \A v \in Threads \ {w} : th'[v] = th[v]
    BY <2>3, GoneIsQuiet DEF Becomes, Checks
  <2> QED
    BY <1>1, <2>1, <2>2, <2>4, GoneQuietly
<1> QED
  BY <1>2, <1>3

\* Whatever ends a traversal finds nothing to store.
LEMMA GoneEnds ==
    ASSUME TravInv, SeqInv, OrderInv, ~stack.live, NEW w \in Threads,
           \/ MarkComplete(w) \/ HandleFailure(w) \/ PurgeTemplate(w) \/ PurgeSyncPoints(w)
           \/ ReloadAfterTimeout(w) \/ Retrigger(w)
    PROVE  OrderInv'
<1>1. TypeOK /\ stack \in Stacks /\ \A e : ~Current(e)
  BY DEF TravInv, TypeOK, Current
<1>2. /\ Return(w) => Gone(w)
      /\ Goto(w, "retrigger") => Becomes(w, "retrigger", th[w].st, th[w].rs, th[w].out)
      /\ Goto(w, "purge_points") => Becomes(w, "purge_points", th[w].st, th[w].rs, th[w].out)
  <2>1. Return(w) => Gone(w)
    BY <1>1, Forms, Zenon
  <2>2. Goto(w, "retrigger") => Becomes(w, "retrigger", th[w].st, th[w].rs, th[w].out)
    BY <1>1, Forms, Zenon
  <2>3. Goto(w, "purge_points") => Becomes(w, "purge_points", th[w].st, th[w].rs, th[w].out)
    BY <1>1, Forms, Zenon
  <2> QED
    BY <2>1, <2>2, <2>3
<1>3. /\ UNCHANGED <<rsrc, phys, casts>> /\ ~stack'.live
      /\ Return(w) \/ Goto(w, "retrigger") \/ Goto(w, "purge_points")
  <2>1. CASE MarkComplete(w) \/ HandleFailure(w)
    <3>1. PICK status : StateStored(w, status)
      BY <2>1, StateIsStored
    <3> QED
      BY <1>1, <3>1 DEF StateStored, StateSet
  <2>2. CASE PurgeTemplate(w)
    BY <1>1, <2>2 DEF PurgeTemplate, Store
  <2>3. CASE PurgeSyncPoints(w)
    BY <1>1, <2>3 DEF PurgeSyncPoints, Stacks
  <2>4. CASE ReloadAfterTimeout(w)
    BY <1>1, <2>4 DEF ReloadAfterTimeout, db
  <2>5. CASE Retrigger(w)
    BY <1>1, <2>5 DEF Retrigger
  <2> QED
    BY <2>1, <2>2, <2>3, <2>4, <2>5
<1>4. th'[w].pc \notin Checks /\ \A v \in Threads \ {w} : th'[v] = th[v]
  BY <1>2, <1>3, GoneIsQuiet DEF Becomes, Checks
<1> QED
  BY <1>1, <1>3, <1>4, GoneQuietly

\* Messages and requests come to nothing.
LEMMA GoneRequests ==
    ASSUME OneByOne, TravInv, SeqInv, OrderInv, ~stack.live, NEW w \in Threads,
           \/ w \in Ops /\ Request(w)
           \/ \E m \in casts : Receive(w, m) \/ ReceiveLate(w, m)
    PROVE  OrderInv'
<1>1. TypeOK
  BY DEF TravInv
<1>2. UNCHANGED <<stack, rsrc, phys>> /\ casts' \subseteq casts /\ Gone(w)
  <2>1. CASE w \in Ops /\ Request(w)
    BY <2>1, RequestDoes
  <2>2. ASSUME NEW m \in casts, Receive(w, m)
        PROVE  UNCHANGED <<stack, rsrc, phys>> /\ casts' \subseteq casts /\ Gone(w)
    BY <1>1, <2>2, ReceiveDoes
  <2>3. ASSUME NEW m \in casts PROVE ~ReceiveLate(w, m)
    BY DEF ReceiveLate, loadable
  <2> QED
    BY <2>1, <2>2, <2>3
<1> QED
  BY <1>1, <1>2, GoneIsQuiet, GoneQuietly

\* A thread that prepares a traversal has a stack.
LEMMA GoneIsNotPrepared ==
    ASSUME TravInv, SeqInv, ~stack.live, NEW w \in Threads
    PROVE  /\ ~StoreTraversal(w) /\ ~DeletePrevSyncPoints(w) /\ ~UpdateOrStoreResources(w)
           /\ ~StoreDeps(w) /\ ~TriggerLeaves(w)
<1>1. th[w].pc \notin Launching
  BY LaunchIs
<1>2. /\ StoreTraversal(w) => th[w].pc = "store1"
      /\ DeletePrevSyncPoints(w) => th[w].pc = "delete_prev"
      /\ UpdateOrStoreResources(w) => th[w].pc = "resources"
      /\ StoreDeps(w) => th[w].pc = "store2"
      /\ TriggerLeaves(w) => th[w].pc = "trigger"
  BY Zenon DEF StoreTraversal, DeletePrevSyncPoints, UpdateOrStoreResources, StoreDeps,
               TriggerLeaves, At
<1> QED
  BY <1>1, <1>2 DEF Launching

\* The stack and its rows are dropped.
LEMMA StackIsDropped ==
    ASSUME TravInv, SeqInv, OrderInv, stack.live, NEW w \in Threads,
           PurgeSyncPoints(w), ~stack'.live
    PROVE  OrderInv'
<1>1. TypeOK /\ ThereInv
  BY DEF TravInv, OrderInv
<1>2. rsrc' = << >> /\ UNCHANGED <<casts, phys>> /\ Return(w)
  BY DEF PurgeSyncPoints
<1>3. /\ th'[w].pc \notin Checks /\ \A v \in Threads \ {w} : th'[v] = th[v]
  <2>1. Gone(w)
    BY <1>1, <1>2, Forms, Zenon
  <2> QED
    BY <2>1, GoneIsQuiet
<1>4. DOMAIN rsrc' = {} /\ Served' = {}
  BY <1>2 DEF Served
<1>5. \A v \in Checking' : v \in Checking /\ th'[v] = th[v]
  BY <1>3 DEF Checking
<1>6. IdsApart'
  <2> SUFFICES ASSUME NEW x \in Tokens', NEW y \in Tokens', x # y PROVE x.id # y.id
    BY DEF IdsApart
  <2>1. PICK v \in Checking' : x = WorkerToken(v)'
    BY <1>4, TokensAre
  <2>2. PICK u \in Checking' : y = WorkerToken(u)'
    BY <1>4, TokensAre
  <2>3. x.id = th[v].msg.id /\ y.id = th[u].msg.id /\ v \in Checking /\ u \in Checking
    BY <1>5, <2>1, <2>2 DEF WorkerToken
  <2>4. v # u
    BY <2>1, <2>2
  <2> QED
    BY <1>1, <2>3, <2>4, ApartFrom DEF ThereInv
<1>7. \A v \in Checking' : NotThere(th[v])'
  BY <1>1, <1>2, <1>5 DEF ThereInv, NotThere, Loaded
<1>8. ThereInv' /\ GoneInv'
  BY <1>4, <1>6, <1>7 DEF ThereInv, GoneInv
<1> QED
  BY <1>8 DEF OrderInv

-----------------------------------------------------------------------------
(* The invariant of the order in which resources are created and deleted.    *)

\* The creation is about to be stored and nothing else is there.
LEMMA OrderInitially == Init => OrderInv
<1> SUFFICES ASSUME Init PROVE OrderInv
  OBVIOUS
<1> DEFINE x == [Idle EXCEPT !.pc = "store1", !.st = stack, !.goal = Op[Creator]]
<1>1. /\ stack = [NoStack EXCEPT !.live = TRUE, !.tmpl = Op[Creator].tmpl]
      /\ rsrc = << >> /\ casts = {} /\ phys = {}
      /\ th = [w \in Threads |-> IF w = Creator THEN x ELSE Idle]
  BY Zenon DEF Init
<1>2. stack.live /\ stack.tmpl = Op[Creator].tmpl
  BY <1>1 DEF NoStack
<1>3. /\ x.pc = "store1" /\ x.goal = Op[Creator] /\ Idle.pc = "idle"
      /\ Creator \in Threads /\ Creator \in Ops
  BY ConvergenceAssumption DEF Idle, Threads
<1> HIDE DEF x
<1>4. /\ th[Creator] = x /\ \A w \in Threads \ {Creator} : th[w] = Idle
      /\ \A w \in Threads : th[w].pc \notin Checks
  BY <1>1, <1>3 DEF Checks
<1>5. DOMAIN rsrc = {} /\ Checking = {} /\ Served = {}
  BY <1>1, <1>4 DEF Checking, Served
<1>6. Tokens = {}
  BY <1>5 DEF Tokens
<1>7. ThereInv /\ RowInv
  BY <1>5, <1>6 DEF ThereInv, IdsApart, RowInv
<1>8. Op[Creator].tmpl \in Taken
  BY <1>3, <1>4 DEF Taken
<1>9. TmplInv
  BY <1>2, <1>3, <1>4, <1>5, <1>8 DEF TmplInv
<1>10. th[Creator].pc \in Launching /\ \A w \in Threads : th[w].pc \notin {"store2", "trigger"}
  BY <1>3, <1>4 DEF Launching
<1> QED
  BY <1>2, <1>3, <1>7, <1>9, <1>10 DEF OrderInv

\* A step that changes nothing.
LEMMA StutterKeepsOrder ==
    ASSUME TravInv, SeqInv, OrderInv, UNCHANGED vars
    PROVE  OrderInv'
<1>1. UNCHANGED <<stack, rsrc, nextId, sp, casts, phys, th>>
  BY DEF vars
<1>2. /\ Creator \in Threads /\ th[Creator].pc \notin Checks /\ th[Creator].pc # "idle" /\ TypeOK
  BY ConvergenceAssumption DEF TravInv, WorkersCheck, Threads
<1>3. CASE ~stack.live
  BY <1>1, <1>2, <1>3, GoneQuietly
<1>4. CASE stack.live /\ \A v \in Threads : th[v].pc \notin Launching
  <2>1. QuietStep(Creator)
    BY <1>1, <1>2, <1>4 DEF QuietStep, StackKept, PointsKept
  <2> QED
    BY <1>2, <1>4, <2>1, QuietKeepsOrder
<1>5. CASE stack.live /\ \E v \in Threads : th[v].pc \in Launching
  <2>1. PICK w \in Threads : th[w].pc \in Launching
    BY <1>5
  <2>2. casts = {} /\ \A v \in Threads \ {w} : ~Busy(th[v])
    BY <2>1, LaunchIs
  <2>3. Alone(w) /\ RowsLaid
    BY <1>1, <2>2 DEF Alone, RowsLaid, Same
  <2>4. TmplInv'
    <3>1. TmplInv /\ Taken' = Taken
      BY <1>1, <1>5 DEF OrderInv, Taken
    <3> QED
      BY <1>1, <3>1 DEF TmplInv
  <2>5. th'[w].pc \in {"store2", "trigger"} => Laid(th[w].st.deps)'
    <3> SUFFICES ASSUME th[w].pc \in {"store2", "trigger"} PROVE Laid(th[w].st.deps)'
      BY <1>1
    <3>1. PICK g : g = th[w].st.deps
      OBVIOUS
    <3>2. Laid(g)
      BY <1>5, <3>1 DEF OrderInv
    <3>3. Laid(g)'
      BY <1>1, <3>2, Zenon DEF Laid, LaunchOK, Covered, Cleaned, GraphOK, NamesOK, Currents, Ids
    <3>4. g = th'[w].st.deps
      BY <1>1, <3>1
    <3> QED
      BY <3>3, <3>4, Zenon DEF Laid, LaunchOK, Covered, Cleaned, GraphOK, NamesOK, Currents
  <2> QED
    BY <1>1, <1>5, <2>1, <2>2, <2>3, <2>4, <2>5, LaunchKeepsOrder
<1> QED
  BY <1>3, <1>4, <1>5

\* Every step keeps the invariant.
LEMMA OrderStep ==
    ASSUME InOrder, TravInv, TravInv', LockInv, SeqInv, OrderInv, [Next]_vars
    PROVE  OrderInv'
<1>0. OneByOne /\ TypeOK' /\ Workers \subseteq Threads /\ Ops \subseteq Threads
  BY DEF InOrder, TravInv, Threads
<1>1. CASE UNCHANGED vars
  BY <1>1, StutterKeepsOrder
<1>2. ASSUME NEW o \in Ops, Request(o) PROVE OrderInv'
  <2>1. CASE stack.live
    BY <1>2, <2>1, RequestKeepsOrder
  <2>2. CASE ~stack.live
    BY <1>0, <1>2, <2>2, GoneRequests
  <2> QED
    BY <2>1, <2>2
<1>3. ASSUME NEW w \in Threads, ConvergeStep(w) PROVE OrderInv'
  <2>1. CASE stack.live
    <3>1. /\ StoreTraversal(w) \/ DeletePrevSyncPoints(w) => OrderInv'
          /\ UpdateOrStoreResources(w) => OrderInv'
          /\ StoreDeps(w) => OrderInv'
          /\ TriggerLeaves(w) => OrderInv'
          /\ ~Rollback(w)
      BY <1>0, <2>1, StoreKeepsOrder, LayKeepsOrder, StoreDepsKeepsOrder, TriggerKeepsOrder,
         NeverHappens
    <3>2. /\ MarkComplete(w) \/ PurgeTemplate(w) => OrderInv'
          /\ PurgeSyncPoints(w) => OrderInv'
      BY <2>1, EndKeepsOrder, StackIsDropped
    <3> QED
      BY <1>3, <3>1, <3>2 DEF ConvergeStep
  <2>2. CASE ~stack.live
    <3>1. ~Rollback(w)
      BY <1>0, NeverHappens
    <3> QED
      BY <1>3, <2>2, <3>1, GoneEnds, GoneIsNotPrepared DEF ConvergeStep
  <2> QED
    BY <2>1, <2>2
<1>4. ASSUME NEW w \in Threads, CheckStep(w) PROVE OrderInv'
  <2>0. ~Steal(w) /\ ~MarkFailed(w)
    BY <1>0, NeverHappens
  <2>1. CASE stack.live
    <3>1. /\ AcquireRead(w) \/ TrySteal(w) => OrderInv'
          /\ Acquire(w) => OrderInv'
          /\ BeginCreate(w) \/ BeginUpdate(w) \/ BeginCleanup(w) => OrderInv'
          /\ HandlerDone(w) => OrderInv'
          /\ (\E k \in {"fail", "timeout"} : HandlerFails(w, k)) => OrderInv'
      BY <2>1, LooksKeep, AcquireKeepsOrder, BeginKeepsOrder, HandlerDoneKeeps, HandlerFailsKeeps
    <3>2. /\ Destroy(w) => OrderInv'
          /\ Release(w) => OrderInv'
          /\ Replace(w) => OrderInv'
          /\ Propagate(w) => OrderInv'
          /\ HandleFailure(w) \/ ReloadAfterTimeout(w) \/ Retrigger(w) => OrderInv'
      BY <2>1, DestroyKeeps, ReleaseKeeps, ReplaceKeepsOrder, PropagateKeepsOrder, EndKeepsOrder
    <3> QED
      BY <1>4, <2>0, <3>1, <3>2 DEF CheckStep
  <2>2. CASE ~stack.live
    BY <1>4, <2>0, <2>2, GoneWork, GoneReports, GoneEnds DEF CheckStep
  <2> QED
    BY <2>1, <2>2
<1>5. ASSUME NEW w \in Workers, NEW m \in casts, Receive(w, m) \/ ReceiveLate(w, m) PROVE OrderInv'
  <2>1. CASE stack.live
    BY <1>0, <1>5, <2>1, DroppedKeepsOrder, TakenUpKeepsOrder
  <2>2. CASE ~stack.live
    BY <1>0, <1>5, <2>2, GoneRequests
  <2> QED
    BY <2>1, <2>2
<1>6. ASSUME NEW e \in Engines, Crash(e) PROVE OrderInv'
  <2>1. Creator \in Threads
    BY ConvergenceAssumption DEF Threads
  <2> QED
    BY <1>0, <1>6, <2>1, NeverHappens
<1> QED
  BY <1>1, <1>2, <1>3, <1>4, <1>5, <1>6 DEF Next

\* When operations follow one another, each with a template of its own, every
\* node that has become ready is in the hands of one message or one worker, no
\* resource in those of two, and what the reports, the sync points and the rows
\* say of one another is true.
THEOREM OrderInvariant == ASSUME InOrder PROVE Spec => []OrderInv
<1>1. OneByOne
  BY DEF InOrder
<1>2. Spec => []SeqInv
  BY <1>1, SeqInvariant
<1>3. TravInv /\ TravInv' /\ LockInv /\ SeqInv /\ OrderInv /\ [Next]_vars => OrderInv'
  BY OrderStep
<1> QED
  BY <1>2, <1>3, OrderInitially, TraversalInvariant, LockInvariant, PTL DEF Spec

\* What is known of a worker that acts on a resource of a stack that is there.
LEMMA ActingKnows ==
    ASSUME SeqInv, OrderInv, stack.live, NEW w \in Threads, th[w].pc = "handler"
    PROVE  /\ w \in Checking /\ HandlerOK(th[w]) /\ ThereInv
           /\ th[w].st.tmpl = stack.tmpl
           /\ \E current \in Currents : CheckInv(current) /\ TokenOK(WorkerToken(w), current)
<1>1. /\ w \in Checking /\ Busy(th[w]) /\ th[w].pc \notin Launching
      /\ "handler" \in Checks
  BY DEF Checking, Checks, Busy, Launching
<1>2. /\ ThereInv /\ RowInv /\ \E current \in Currents : CheckInv(current)
  BY <1>1, WhileChecking
<1>3. HandlerOK(th[w]) /\ th[w].st.tmpl = stack.tmpl
  BY <1>1, <1>2, Zenon DEF RowInv, WorkerOK, SeqInv, Serves
<1>4. WorkerToken(w) \in Tokens
  BY <1>1, TokensAre
<1> QED
  BY <1>1, <1>2, <1>3, <1>4 DEF CheckInv

\* handle_create() runs at most once for a row: a row is in one check at a time
\* and leaves (INIT, COMPLETE) for good when it is taken.
THEOREM CreatedOnceHolds == ASSUME InOrder PROVE Spec => []CreatedOnce
<1>1. OrderInv => CreatedOnce
  <2> SUFFICES ASSUME OrderInv, NEW w \in Workers, Acting(w, "CREATE") PROVE th[w].msg.id \notin phys
    BY DEF CreatedOnce
  <2>1. w \in Threads /\ th[w].pc = "handler" /\ th[w].rs.action = "CREATE"
    BY DEF Threads, Acting, At
  <2>2. NotThere(th[w])
    BY <2>1 DEF OrderInv, ThereInv, Checking, Checks
  <2> QED
    BY <2>1, <2>2 DEF NotThere
<1> QED
  BY <1>1, OrderInvariant, PTL

\* A resource is created or updated when the rows of everything that it
\* requires are COMPLETE under the same template: the graph has an edge for
\* each of them, and whatever has reported along it still serves.
THEOREM CreatedAfterRequirementsHolds == ASSUME InOrder PROVE Spec => []CreatedAfterRequirements
<1>1. TypeOK /\ SeqInv /\ OrderInv => CreatedAfterRequirements
  <2> SUFFICES ASSUME TypeOK, SeqInv, OrderInv, NEW w \in Workers,
                      Acting(w, "CREATE") \/ Acting(w, "UPDATE"), Current(th[w].st.trav),
                      NEW n \in TmplRequires[th[w].st.tmpl][th[w].rs.name]
               PROVE  \E i \in reported(w) \cap phys :
                         /\ i \in DOMAIN rsrc
                         /\ rsrc[i].name = n /\ rsrc[i].tmpl = th[w].st.tmpl
                         /\ rsrc[i].status = "COMPLETE"
    BY DEF CreatedAfterRequirements, InService
  <2>1. /\ w \in Threads /\ stack.live /\ th[w].pc = "handler"
        /\ th[w].rs.action \in {"CREATE", "UPDATE"}
    BY DEF Threads, Acting, At, Current
  <2>2. PICK x : x = WorkerToken(w)
    OBVIOUS
  <2>3. /\ HandlerOK(th[w]) /\ th[w].st.tmpl = stack.tmpl
        /\ \E current \in Currents : CheckInv(current) /\ TokenOK(x, current)
    BY <2>1, <2>2, ActingKnows
  <2>4. PICK current \in Currents : CheckInv(current) /\ TokenOK(x, current)
    BY <2>3
  <2>5. x.upd = TRUE /\ x.data = th[w].msg.data /\ x.name = th[w].rs.name
    <3>1. th[w].msg.upd /\ th[w].msg \in Msgs
      <4>1. th[w].msg.upd
        BY <2>1, <2>3 DEF HandlerOK
      <4>2. th[w].msg # NoMsg /\ th[w].msg \in Msgs \cup {NoMsg}
        BY <2>1 DEF TypeOK, Checks, ThreadStates
      <4> QED
        BY <4>1, <4>2
    <3> QED
      BY <2>2, <3>1, TokensAre, Zenon DEF Msgs
  <2>6. /\ x.key \in stack.deps.nodes /\ x.key[2]
        /\ graphPreds(stack.deps, x.key) \subseteq senders(x.data) /\ DataOK(x.data, current)
        /\ \A a \in TmplNames[stack.tmpl] : x.key = <<current[a], TRUE>> => x.name = a
    BY <2>4, <2>5, Zenon DEF TokenOK
  <2>7. GraphOK(stack.deps, stack.tmpl, current)
    BY <2>4 DEF CheckInv
  <2>8. PICK a \in TmplNames[stack.tmpl] : x.key = <<current[a], TRUE>>
    <3>1. x.key \in {k \in stack.deps.nodes : k[2]}
      BY <2>6
    <3>2. x.key \in {<<current[b], TRUE>> : b \in TmplNames[stack.tmpl]}
      BY <2>7, <3>1, Zenon DEF GraphOK
    <3> QED
      BY <3>2, Zenon
  <2>9. a = th[w].rs.name /\ n \in TmplRequires[stack.tmpl][a] /\ n \in TmplNames[stack.tmpl]
    <3>1. a = th[w].rs.name /\ n \in TmplRequires[stack.tmpl][a]
      BY <2>3, <2>5, <2>6, <2>8
    <3>2. stack.tmpl \in Tmpls
      BY DEF TypeOK, Stacks
    <3> QED
      BY <3>1, <3>2, ConvergenceAssumption, Zenon
  <2>10. <<x.key, <<current[n], TRUE>>>> \in stack.deps.edges
    BY <2>7, <2>8, <2>9, Zenon DEF GraphOK
  <2>11. <<current[n], TRUE>> \in senders(x.data)
    <3>1. <<current[n], TRUE>> \in graphPreds(stack.deps, x.key)
      <4>1. PICK m : m = <<current[n], TRUE>>
        BY Zenon
      <4>2. <<x.key, m>> \in stack.deps.edges
        BY <2>10, <4>1
      <4>3. m \in graphPreds(stack.deps, x.key)
        BY <4>2 DEF graphPreds
      <4> QED
        BY <4>1, <4>3
    <3> QED
      BY <2>6, <3>1
  <2>12. PICK p \in x.data : p[1] = <<current[n], TRUE>>
    BY <2>11, Zenon DEF senders
  <2>13. Serving(p[2]) /\ rsrc[p[2]].name = n
    BY <2>6, <2>9, <2>12, Zenon DEF DataOK
  <2>14. p[2] \in DOMAIN rsrc /\ p[2] # None
    BY <2>13, NodesAre DEF Serving, TypeOK
  <2>15. p[2] \in reported(w)
    BY <2>5, <2>12, <2>14 DEF reported
  <2> QED
    BY <2>3, <2>13, <2>14, <2>15 DEF Serving
<1>2. OneByOne
  BY DEF InOrder
<1>3. Spec => []SeqInv
  BY <1>2, SeqInvariant
<1>4. TravInv => TypeOK
  BY DEF TravInv
<1> QED
  BY <1>1, <1>3, <1>4, OrderInvariant, TraversalInvariant, PTL

\* A physical resource is deleted after everything that requires it: the check
\* that deletes it has waited for the cleanup of each row that requires it, and
\* a row that has stayed serves without it.
THEOREM DeletedAfterDependentsHolds == ASSUME InOrder PROVE Spec => []DeletedAfterDependents
<1>1. TypeOK /\ SeqInv /\ OrderInv => DeletedAfterDependents
  <2> SUFFICES ASSUME TypeOK, SeqInv, OrderInv, NEW w \in Workers, Acting(w, "DELETE"),
                      th[w].st.action # "ROLLBACK",
                      NEW j \in DOMAIN rsrc \cap phys, th[w].msg.id \in rsrc[j].requires
               PROVE  FALSE
    BY DEF DeletedAfterDependents
  <2>1. w \in Threads /\ th[w].pc = "handler" /\ th[w].rs.action = "DELETE"
    BY DEF Threads, Acting, At
  <2>2. rsrc[j].action # "INIT"
    BY DEF OrderInv, ThereInv
  <2>3. stack.live
    BY <2>2 DEF OrderInv, GoneInv
  <2>4. PICK i : i = th[w].msg.id
    OBVIOUS
  <2>5. PICK x : x = WorkerToken(w)
    OBVIOUS
  <2>6. HandlerOK(th[w]) /\ \E current \in Currents : CheckInv(current) /\ TokenOK(x, current)
    BY <2>1, <2>3, <2>5, ActingKnows
  <2>7. PICK current \in Currents : CheckInv(current) /\ TokenOK(x, current)
    BY <2>6
  <2>8. i \in DOMAIN rsrc /\ ~Cleaned(i) /\ ~th[w].msg.upd
    BY <2>1, <2>4, <2>6 DEF HandlerOK, Cleaned, Same
  <2>9. /\ x.id = i /\ ~x.upd /\ x.key = Stands(i, th[w].msg.upd, th[w].rs.replaces)
        /\ x.upd = th[w].msg.upd
    BY <2>4, <2>5, <2>8, TokensAre, Zenon
  <2>10. /\ <<i, th[w].msg.upd>> \in stack.deps.nodes
         /\ \A n \in graphPreds(stack.deps, x.key) : ~n[2] => Cleaned(n[1])
    BY <2>7, <2>9 DEF TokenOK
  <2>11. x.key = <<i, FALSE>>
    <3>1. x.key = <<i, th[w].msg.upd>>
      BY <2>9, <2>10 DEF Stands
    <3>2. x.key[2] \in BOOLEAN
      BY <2>10, <3>1, NodesAre
    <3>3. x.key[2] = th[w].msg.upd
      BY <3>1
    <3> QED
      BY <2>8, <3>1, <3>2, <3>3, Zenon
  <2>12. ClaimOK(j)
    BY <2>7 DEF CheckInv
  <2>13. <<x.key, <<j, FALSE>>>> \in stack.deps.edges
    BY <2>2, <2>4, <2>8, <2>11, <2>12, Zenon DEF ClaimOK, Covered
  <2>14. Cleaned(j)
    <3>2. <<j, FALSE>> \in graphPreds(stack.deps, x.key)
      <4>1. PICK m : m = <<j, FALSE>>
        BY Zenon
      <4>2. <<x.key, m>> \in stack.deps.edges
        BY <2>13, <4>1
      <4>3. m \in graphPreds(stack.deps, x.key)
        BY <4>2 DEF graphPreds
      <4> QED
        BY <4>1, <4>3
    <3>3. <<j, FALSE>>[2] = FALSE /\ <<j, FALSE>>[1] = j
      OBVIOUS
    <3> QED
      BY <2>10, <3>2, <3>3, Zenon
  <2>15. Claim(j)
    BY <2>2, <2>14 DEF Claim, Cleaned
  <2> QED
    BY <2>4, <2>8, <2>12, <2>15 DEF ClaimOK
<1>2. OneByOne
  BY DEF InOrder
<1>3. Spec => []SeqInv
  BY <1>2, SeqInvariant
<1>4. TravInv => TypeOK
  BY DEF TravInv
<1> QED
  BY <1>1, <1>3, <1>4, OrderInvariant, TraversalInvariant, PTL
-----------------------------------------------------------------------------
(* Operations that succeed.                                                  *)

\* Dependencies have no cycle, looked at from either end.
Acyclic(names, requires) ==
    \A S \in SUBSET names : S # {} =>
        /\ \E n \in S : requires[n] \cap S = {}
        /\ \E n \in S : \A m \in S : n \notin requires[m]

\* Besides, nothing fails, and templates are what the engine accepts: without
\* a cycle (Dependencies raises CircularDependencyException), and empty for a
\* deletion.
Smooth ==
    /\ InOrder /\ FaultKinds = {}
    /\ \A t \in Tmpls : Acyclic(TmplNames[t], TmplRequires[t])
    /\ \A o \in Ops : Op[o].action = "DELETE" => TmplNames[Op[o].tmpl] = {}

\* Nothing has failed.
Untroubled ==
    /\ stack.status # "FAILED"
    /\ \A i \in DOMAIN rsrc : rsrc[i].status # "FAILED"
    /\ \A w \in Threads :
          /\ th[w].pc \notin {"fail", "reload"} /\ th[w].st.status # "FAILED"
          /\ th[w].pc \in Checks => th[w].rs.status # "FAILED" /\ th[w].out \notin {"failed", "timeout"}

\* A row requires only what its definition in the template t requires.
RequiresOK(i, t) ==
    \A j \in rsrc[i].requires : j \in DOMAIN rsrc => rsrc[j].name \in TmplRequires[t][rsrc[i].name]

\* All rows are in service under the template t, one for a name.
Even(t) ==
    /\ \A i \in DOMAIN rsrc :
          /\ rsrc[i].tmpl = t /\ rsrc[i].status = "COMPLETE" /\ i \in phys
          /\ rsrc[i].action \in {"CREATE", "UPDATE"} /\ rsrc[i].name \in TmplNames[t]
          /\ rsrc[i].replaces \notin DOMAIN rsrc /\ RequiresOK(i, t)
    /\ \A i, j \in DOMAIN rsrc : rsrc[i].name = rsrc[j].name => i = j

\* So they are, and no name is missing.
Converged ==
    /\ Even(stack.tmpl)
    /\ \A n \in TmplNames[stack.tmpl] : \E i \in DOMAIN rsrc : rsrc[i].name = n

\* No row goes before its physical resource.
RowsStay ==
    /\ phys \subseteq DOMAIN rsrc
    /\ \A i \in DOMAIN rsrc : rsrc[i].action = "DELETE" =>
          \E w \in Threads : /\ th[w].pc \in {"handler", "destroy"}
                             /\ th[w].msg.id = i /\ ~th[w].msg.upd
    /\ \A w \in Threads : th[w].pc = "destroy" => th[w].msg.id \notin phys

\* The nodes that have reported.
Done == UNION {UNION {senders(sp[t][n]) : n \in DOMAIN sp[t]} : t \in DOMAIN sp}

\* In every set of nodes there is one that no other waits for.
Grounded(g) ==
    \A S \in SUBSET g.nodes : S # {} => \E k \in S : \A d \in S : <<d, k>> \notin g.edges

\* A row replaces only what says that it is replaced.
ReplacesOK(row) == row.replaces \in DOMAIN rsrc => rsrc[row.replaces].replaced_by # None

\* The update nodes: who has not reported has a row, and what it waits for its
\* template requires.  A name is served or has a node that has not reported.
UpdatesOK(g) ==
    /\ \A k \in g.nodes \ Done : k[2] => k[1] \in DOMAIN rsrc
    /\ \A e \in g.edges : e[1][2] /\ e[1][1] \in DOMAIN rsrc /\ e[2][1] \in DOMAIN rsrc =>
          rsrc[e[2][1]].name \in TmplRequires[stack.tmpl][rsrc[e[1][1]].name]
    /\ \A n \in TmplNames[stack.tmpl] :
          \/ \E i \in DOMAIN rsrc : Serving(i) /\ rsrc[i].name = n
          \/ \E k \in g.nodes \ Done : k[2] /\ rsrc[k[1]].name = n

\* The rows of the current template: one for a name, and the row of which a
\* node updates is not among them after it has been replaced.
OursOK(g) ==
    \A i \in DOMAIN rsrc : rsrc[i].tmpl = stack.tmpl =>
        /\ rsrc[i].name \in TmplNames[stack.tmpl]
        /\ rsrc[i].action # "INIT" => RequiresOK(i, stack.tmpl)
        /\ \A j \in DOMAIN rsrc : rsrc[j].name = rsrc[i].name =>
              /\ rsrc[j].tmpl = stack.tmpl => i = j
              /\ rsrc[j].tmpl # stack.tmpl /\ <<j, TRUE>> \in g.nodes => rsrc[j].replaced_by # None

\* A traversal with the graph g leads to where it should.
Planned(g) ==
    /\ Grounded(g) /\ UpdatesOK(g) /\ OursOK(g)
    /\ \A i \in DOMAIN rsrc :
          /\ rsrc[i].tmpl # stack.tmpl => <<i, FALSE>> \in g.nodes
          /\ ReplacesOK(rsrc[i])

\* What has reported to the check of a resource named n is what n requires.
DataNames(d, n) ==
    \A p \in d : p[2] \in DOMAIN rsrc => rsrc[p[2]].name \in TmplRequires[stack.tmpl][n]

\* A check that is about to replace its resource.
Replaces(x) == x.pc = "replace" \/ (x.pc = "release" /\ x.out = "replace")

\* While the traversal runs.
Running ==
    /\ DOMAIN sp # {} /\ Planned(stack.deps)
    /\ \A n \in DOMAIN Points : n \in stack.deps.nodes /\ n[2] /\ n[1] \in DOMAIN rsrc =>
          DataNames(Points[n], rsrc[n[1]].name)
    /\ \A m \in Served : m.upd => DataNames(m.data, rsrc[m.id].name)
    /\ \A w \in Checking :
          /\ th[w].msg.upd => DataNames(th[w].msg.data, th[w].rs.name)
          /\ ReplacesOK(th[w].rs)
          /\ Replaces(th[w]) /\ th[w].msg.id \in DOMAIN rsrc => rsrc[th[w].msg.id].replaced_by = None

\* A deletion leaves no template behind.
Empties(action, t) == action = "DELETE" => TmplNames[t] = {}

\* How far a stack that is there has come.
Proceeds ==
    /\ RowsStay /\ Empties(stack.action, stack.tmpl)
    /\ stack.status = "COMPLETE" => Converged /\ Checking = {} /\ Served = {}
    /\ \A w \in Threads : th[w].pc \in {"store1", "delete_prev", "resources"} =>
          \E t \in Tmpls : Even(t)
    /\ \A w \in Threads : th[w].pc \in {"store2", "trigger"} => Planned(th[w].st.deps)
    /\ stack.status = "IN_PROGRESS" /\ (\A w \in Threads : th[w].pc \notin Launching) => Running

\* A deletion that is about to begin leaves none either.
GoalsOK == \A w \in Threads : th[w].pc = "store1" => Empties(th[w].goal.action, th[w].goal.tmpl)

\* Operations of which none fails.
SmoothInv == Untroubled /\ GoalsOK /\ (stack.live => Proceeds)

\* Nothing fails in a step.
LEMMA NothingFails ==
    ASSUME Untroubled, GoalsOK, NEW w \in Threads, \A v \in Threads \ {w} : th'[v] = th[v],
           th'[w].pc \notin {"store1", "fail", "reload"}, th'[w].st.status # "FAILED",
           th'[w].pc \in Checks => /\ th'[w].rs.status # "FAILED"
                                   /\ th'[w].out \notin {"failed", "timeout"},
           stack'.status # "FAILED", \A i \in DOMAIN rsrc' : rsrc'[i].status # "FAILED"
    PROVE  Untroubled' /\ GoalsOK'
<1>1. \A v \in Threads :
        /\ th'[v].pc \notin {"fail", "reload"} /\ th'[v].st.status # "FAILED"
        /\ th'[v].pc \in Checks => /\ th'[v].rs.status # "FAILED"
                                   /\ th'[v].out \notin {"failed", "timeout"}
  BY DEF Untroubled
<1>2. Untroubled'
  BY <1>1 DEF Untroubled
<1>3. GoalsOK'
  BY DEF GoalsOK
<1> QED
  BY <1>2, <1>3

\* A row that says something else has not failed if what it says has not.
LEMMA SaysUntroubled ==
    ASSUME Untroubled, NEW i, NEW r, RowSays(i, r), r.status # "FAILED"
    PROVE  \A j \in DOMAIN rsrc' : rsrc'[j].status # "FAILED"
  BY DEF Untroubled, RowSays, Same

\* A check that goes on without a failure.
LEMMA CheckUntroubled ==
    ASSUME Untroubled, GoalsOK, NEW w \in Threads, th[w].pc \in Checks, UNCHANGED stack,
           \A i \in DOMAIN rsrc' : rsrc'[i].status # "FAILED",
           \/ Gone(w)
           \/ \E pc, rs, out : /\ Becomes(w, pc, th[w].st, rs, out)
                               /\ pc \in Checks \cup {"retrigger", "complete"}
                               /\ rs.status # "FAILED" /\ out \notin {"failed", "timeout"}
    PROVE  Untroubled' /\ GoalsOK'
<1>1. stack'.status # "FAILED" /\ th[w].st.status # "FAILED"
  BY DEF Untroubled
<1>2. CASE Gone(w)
  <2>1. th'[w].pc \in {"idle", "finished"} /\ \A v \in Threads \ {w} : th'[v] = th[v]
    BY <1>2 DEF Gone, Returned
  <2>2. th'[w].st.status # "FAILED"
    BY <1>2 DEF Gone, Returned, Idle, NoStack
  <2> QED
    BY <1>1, <2>1, <2>2, NothingFails DEF Checks
<1>3. CASE \E pc, rs, out : /\ Becomes(w, pc, th[w].st, rs, out)
                            /\ pc \in Checks \cup {"retrigger", "complete"}
                            /\ rs.status # "FAILED" /\ out \notin {"failed", "timeout"}
  <2>1. /\ \A v \in Threads \ {w} : th'[v] = th[v]
        /\ th'[w].pc \notin {"store1", "fail", "reload"} /\ th'[w].st.status # "FAILED"
        /\ th'[w].rs.status # "FAILED" /\ th'[w].out \notin {"failed", "timeout"}
    BY <1>1, <1>3 DEF Becomes, Checks
  <2> QED
    BY <1>1, <2>1, NothingFails
<1> QED
  BY <1>2, <1>3

\* ... and without faults that is how every step of its work ends.
LEMMA WorkUntroubled ==
    ASSUME Smooth, TravInv, LockInv, SeqInv, Untroubled, GoalsOK, NEW w \in Threads,
           \/ AcquireRead(w) \/ Acquire(w) \/ BeginCreate(w) \/ BeginUpdate(w) \/ BeginCleanup(w)
           \/ HandlerDone(w) \/ (\E k \in {"fail", "timeout"} : HandlerFails(w, k))
           \/ Destroy(w) \/ Release(w) \/ TrySteal(w)
    PROVE  Untroubled' /\ GoalsOK'
<1> DEFINE i == th[w].msg.id
<1>1. /\ TypeOK /\ dead = {} /\ FaultKinds = {} /\ WorkersCheck
      /\ \A j \in DOMAIN rsrc : rsrc[j].status # "FAILED"
      /\ \A v \in Threads : th[v].pc \in Checks =>
            th[v].rs.status # "FAILED" /\ th[v].out \notin {"failed", "timeout"}
  BY DEF TravInv, SeqInv, Smooth, Untroubled
<1>2. CASE AcquireRead(w)
  <2>1. /\ th[w].pc = "acquire" /\ UNCHANGED <<stack, rsrc>>
        /\ Gone(w) \/ Becomes(w, "cas", th[w].st, th[w].rs, th[w].out)
    BY <1>1, <1>2, AcquireReadDoes DEF Apartly
  <2> QED
    BY <1>1, <2>1, CheckUntroubled, Zenon DEF Checks
<1>3. CASE Acquire(w)
  <2>1. /\ th[w].pc = "cas" /\ UNCHANGED stack /\ RowSays(i, rsrc[i])
        /\ \E pc \in {"in_progress", "begin"} : Becomes(w, pc, th[w].st, th[w].rs, th[w].out)
    BY <1>1, <1>3, AcquireDoes, Zenon DEF Apartly
  <2>2. \A j \in DOMAIN rsrc' : rsrc'[j].status # "FAILED"
    BY <1>1, <2>1 DEF RowSays, Same
  <2> QED
    BY <1>1, <2>1, <2>2, CheckUntroubled, Zenon DEF Checks
<1>4. CASE BeginCreate(w) \/ BeginUpdate(w) \/ BeginCleanup(w)
  <2>1. /\ th[w].pc = "begin" /\ UNCHANGED stack
        /\ BeginsCreate(w) \/ BeginsUpdate(w) \/ BeginsCleanup(w)
    BY <1>1, <1>4, BeginDoes DEF Apartly
  <2>2. /\ th[w].pc \in Checks /\ th[w].rs.status # "FAILED"
        /\ th[w].out \notin {"failed", "timeout"}
        /\ th[w].rs.action = "INIT" => th[w].rs.status = "COMPLETE"
    BY <1>1, <2>1 DEF Checks, SeqInv, InitIsClean
  <2>3. \/ /\ UNCHANGED rsrc
           /\ \E pc, rs, out :
                 /\ pc \in {"release", "destroy"} /\ Becomes(w, pc, th[w].st, rs, out)
                 /\ rs.status # "FAILED" /\ out \notin {"failed", "timeout"}
        \/ \E r : /\ r.status = "IN_PROGRESS" /\ RowSays(i, r)
                  /\ Becomes(w, "handler", th[w].st, r, th[w].out)
    BY <2>1, <2>2 DEF BeginsCreate, BeginsUpdate, BeginsCleanup, Variant
  <2>4. \A j \in DOMAIN rsrc' : rsrc'[j].status # "FAILED"
    BY <1>1, <2>3, SaysUntroubled
  <2> QED
    BY <2>1, <2>2, <2>3, <2>4, CheckUntroubled, Zenon DEF Checks
<1>5. CASE HandlerDone(w)
  <2>1. th[w].pc = "handler" /\ UNCHANGED stack /\ EndsWell(w)
    BY <1>1, <1>5, HandlerDoneDoes DEF Apartly
  <2>2. /\ th[w].pc \in Checks /\ th[w].rs.status # "FAILED"
        /\ th[w].out \notin {"failed", "timeout"}
    BY <1>1, <2>1 DEF Checks
  <2>3. /\ UNCHANGED rsrc \/ \E r : r.status = "COMPLETE" /\ RowSays(i, r)
        /\ \E pc, rs, out :
              /\ pc \in {"release", "destroy"} /\ Becomes(w, pc, th[w].st, rs, out)
              /\ rs.status # "FAILED" /\ out \notin {"failed", "timeout"}
    BY <2>1, <2>2 DEF EndsWell, Variant
  <2>4. \A j \in DOMAIN rsrc' : rsrc'[j].status # "FAILED"
    BY <1>1, <2>3, SaysUntroubled
  <2> QED
    BY <2>1, <2>2, <2>3, <2>4, CheckUntroubled, Zenon DEF Checks
<1>6. CASE \E k \in {"fail", "timeout"} : HandlerFails(w, k)
  BY <1>1, <1>6, HandlerFailsDoes
<1>7. CASE Destroy(w)
  <2>1. /\ th[w].pc = "destroy" /\ UNCHANGED stack
        /\ Becomes(w, "propagate", th[w].st, th[w].rs, th[w].out)
        /\ DOMAIN rsrc' = DOMAIN rsrc \ {i}
        /\ \A j \in DOMAIN rsrc' : rsrc'[j].status = rsrc[j].status
    BY <1>1, <1>7, DestroyDoes, Zenon DEF Apartly, Same
  <2> QED
    BY <1>1, <2>1, CheckUntroubled, Zenon DEF Checks
<1>8. CASE Release(w)
  <2>1. th[w].pc = "release" /\ UNCHANGED stack /\ w \in Workers
    <3>1. th[w].pc = "release"
      BY <1>8 DEF Release, At
    <3>2. w \in Workers
      BY <1>1, <3>1 DEF WorkersCheck, Checks
    <3> QED
      BY <1>8, <3>1, <3>2 DEF Release
  <2>2. /\ th[w].pc \in Checks /\ th[w].rs.status # "FAILED"
        /\ th[w].out \in {"done", "replace"}
    BY <1>1, <2>1, TypeParts DEF Checks, CheckOK, ThreadStates
  <2>3. \/ UNCHANGED rsrc /\ Gone(w)
        \/ /\ i \in DOMAIN rsrc /\ DOMAIN rsrc' = DOMAIN rsrc
           /\ \A j \in DOMAIN rsrc \ {i} : rsrc'[j] = rsrc[j]
           /\ rsrc'[i].status = rsrc[i].status
           /\ Becomes(w, After(th[w].out), th[w].st, th[w].rs, th[w].out)
    BY <1>1, <1>8, <2>1, ReleaseDoes, Zenon DEF Variant
  <2>4. \A j \in DOMAIN rsrc' : rsrc'[j].status # "FAILED"
    BY <1>1, <2>3
  <2>5. After(th[w].out) \in Checks
    BY <2>2 DEF After, Checks
  <2> QED
    BY <2>1, <2>2, <2>3, <2>4, <2>5, CheckUntroubled, Zenon
<1>9. CASE TrySteal(w)
  <2>1. th[w].pc = "in_progress" /\ UNCHANGED <<stack, rsrc>> /\ Gone(w)
    BY <1>1, <1>9, TryStealDoes DEF Apartly
  <2> QED
    BY <1>1, <2>1, CheckUntroubled DEF Checks
<1> QED
  BY <1>2, <1>3, <1>4, <1>5, <1>6, <1>7, <1>8, <1>9

-----------------------------------------------------------------------------
(* What a check does, when nothing fails.                                    *)

\* What rows replace.
Replacement(w) == \A j \in DOMAIN rsrc' : rsrc'[j].replaces \in {rsrc[j].replaces, None, th[w].rs.replaces}

\* A write to the row that was loaded changes the column "replaces" of no other row ...
LEMMA WriteReplaces ==
    ASSUME TypeOK, NEW w, NEW r \in Rows, WriteRow(th[w].msg.id, Stored(w, r)),
           r.replaces = th[w].rs.replaces
    PROVE  Replacement(w)
<1> DEFINE id == th[w].msg.id
           row == Stored(w, r)
<1>1. row.replaces = th[w].rs.replaces
  BY DEF Stored, Rows
<1>2. rsrc' = IF id \in DOMAIN rsrc THEN [rsrc EXCEPT ![id] = row] ELSE rsrc
  BY DEF WriteRow
<1> HIDE DEF row
<1> QED
  BY <1>1, <1>2 DEF Replacement

\* ... nor does _do_action(), ...
LEMMA StartReplaces ==
    ASSUME TypeOK, NEW w \in Threads, NEW rs \in Rows, NEW action \in {"CREATE", "UPDATE", "DELETE"},
           StartAction(w, rs, action), rs.replaces = th[w].rs.replaces
    PROVE  Replacement(w)
<1> DEFINE r == [rs EXCEPT !.action = action, !.status = "IN_PROGRESS"]
<1>1. Variant(r, rs, action, "IN_PROGRESS", rs.tmpl, rs.requires)
  <2>1. action \in Actions \ {"ROLLBACK"} /\ "IN_PROGRESS" \in Statuses
    BY DEF Actions, Statuses
  <2> QED
    BY <2>1, StateVariant, Zenon
<1>2. WriteRow(th[w].msg.id, Stored(w, r))
  BY Zenon DEF StartAction
<1> HIDE DEF r
<1> QED
  BY <1>1, <1>2, WriteReplaces DEF Variant

\* ... nor any step of the work on a resource.
LEMMA WorkReplaces ==
    ASSUME TypeOK, NEW w \in Threads,
           \/ AcquireRead(w) \/ Acquire(w) \/ BeginCreate(w) \/ BeginUpdate(w) \/ BeginCleanup(w)
           \/ HandlerDone(w) \/ Destroy(w) \/ Release(w) \/ TrySteal(w)
    PROVE  Replacement(w)
<1> DEFINE id == th[w].msg.id
<1>0. UNCHANGED rsrc => Replacement(w)
  BY DEF Replacement
<1>1. CASE AcquireRead(w) \/ TrySteal(w)
  BY <1>0, <1>1 DEF AcquireRead, TrySteal, db
<1>2. CASE Acquire(w)
  <2> DEFINE row == [Bumped(rsrc[id]) EXCEPT !.engine = Engine[w]]
  <2>1. UNCHANGED rsrc \/ (id \in DOMAIN rsrc /\ rsrc' = [rsrc EXCEPT ![id] = row])
    BY <1>2, Zenon DEF Acquire
  <2>2. id \in DOMAIN rsrc => row.replaces = rsrc[id].replaces
    BY DEF TypeOK, Rows, Bumped
  <2> HIDE DEF row
  <2> QED
    BY <1>0, <2>1, <2>2 DEF Replacement
<1>3. CASE BeginCreate(w) \/ BeginUpdate(w) \/ BeginCleanup(w)
  <2>1. /\ th[w].pc = "begin"
        /\ \/ UNCHANGED rsrc
           \/ \E rs \in {th[w].rs, Claimed(w)}, action \in {"CREATE", "UPDATE", "DELETE"} :
                 StartAction(w, rs, action)
    BY <1>3, Zenon DEF BeginCreate, BeginUpdate, BeginCleanup, SkipTo, At
  <2>2. th[w].rs \in Rows /\ Claimed(w) \in Rows /\ Claimed(w).replaces = th[w].rs.replaces
    BY <2>1, ThreadFields, ClaimedIs DEF Checks, Variant
  <2>3. \A rs \in {th[w].rs, Claimed(w)} : rs \in Rows /\ rs.replaces = th[w].rs.replaces
    BY <2>2
  <2> QED
    BY <1>0, <2>1, <2>3, StartReplaces
<1>4. CASE HandlerDone(w)
  <2> DEFINE done == [th[w].rs EXCEPT !.status = "COMPLETE"]
  <2>1. th[w].pc = "handler" /\ (UNCHANGED rsrc \/ WriteRow(id, Stored(w, done)))
    BY <1>4, Zenon DEF HandlerDone, At
  <2>2. th[w].rs \in Rows
    BY <2>1, ThreadFields DEF Checks
  <2>3. done \in Rows /\ done.replaces = th[w].rs.replaces
    BY <2>2, StatusVariant, Zenon DEF Statuses, Variant
  <2> HIDE DEF done
  <2> QED
    BY <1>0, <2>1, <2>3, WriteReplaces
<1>5. CASE Destroy(w)
  <2> DEFINE r == th[w].rs.replaced_by
             left == Restrict(rsrc, DOMAIN rsrc \ {id})
             row == [Bumped(left[r]) EXCEPT !.replaces = None]
  <2>1. rsrc' = left \/ (r \in DOMAIN left /\ rsrc' = [left EXCEPT ![r] = row])
    <3>1. rsrc' = IF r \in DOMAIN left /\ left[r].tmpl = th[w].st.tmpl /\ left[r].engine = None
                  THEN [left EXCEPT ![r] = row] ELSE left
      BY <1>5, Zenon DEF Destroy
    <3> HIDE DEF left, row, r
    <3> QED
      BY <3>1
  <2>2. DOMAIN left = DOMAIN rsrc \ {id} /\ \A j \in DOMAIN left : left[j] = rsrc[j]
    BY DEF Restrict
  <2>3. r \in DOMAIN left => row.replaces = None
    <3> HIDE DEF left, r
    <3>1. r \in DOMAIN left => left[r] = rsrc[r] /\ rsrc[r] \in Rows
      BY <2>2 DEF TypeOK
    <3>2. \A a \in Rows : [Bumped(a) EXCEPT !.replaces = None].replaces = None
      BY DEF Rows, Bumped
    <3> QED
      BY <3>1, <3>2
  <2> HIDE DEF left, row
  <2> QED
    BY <2>1, <2>2, <2>3 DEF Replacement
<1>6. CASE Release(w)
  <2> DEFINE row == [Bumped(rsrc[id]) EXCEPT !.engine = None, !.tmpl = th[w].rs.tmpl,
                                             !.requires = th[w].rs.requires]
  <2>1. UNCHANGED rsrc \/ (id \in DOMAIN rsrc /\ rsrc' = [rsrc EXCEPT ![id] = row])
    BY <1>6, Zenon DEF Release
  <2>2. id \in DOMAIN rsrc => row.replaces = rsrc[id].replaces
    BY DEF TypeOK, Rows, Bumped
  <2> HIDE DEF row
  <2> QED
    BY <1>0, <2>1, <2>2 DEF Replacement
<1> QED
  BY <1>1, <1>2, <1>3, <1>4, <1>5, <1>6

\* A check is under way: what it knows of its row.
Aware(w, i) ==
    /\ w \in Checking /\ Knows(w, i) /\ RowsStay
    /\ th[w].rs.status # "FAILED" /\ th[w].out \notin {"failed", "timeout"}
    /\ Replaces(th[w]) /\ i \in DOMAIN rsrc => rsrc[i].replaced_by = None

\* Every check at work knows so much.
LEMMA CheckIsAware ==
    ASSUME TravInv, SeqInv, OrderInv, SmoothInv, stack.live, NEW w \in Threads, th[w].pc \in Checks,
           NEW i, i = th[w].msg.id
    PROVE  /\ stack.status = "IN_PROGRESS" /\ Running /\ Aware(w, i)
           /\ \A v \in Threads : th[v].pc \notin Launching
<1>1. Proceeds /\ Untroubled /\ w \in Checking
  BY DEF SmoothInv, Checking
<1>2. Busy(th[w]) /\ th[w].pc \notin Launching
  BY DEF Busy, Launching, Checks
<1>3. \A v \in Threads : th[v].pc \notin Launching
  BY <1>2, NobodyLaunches
<1>4. stack.status = "IN_PROGRESS"
  <2>1. stack.status \in Statuses
    BY DEF TravInv, TypeOK, Stacks
  <2>2. stack.status # "COMPLETE" /\ stack.status # "FAILED"
    BY <1>1 DEF Proceeds, Untroubled
  <2> QED
    BY <2>1, <2>2 DEF Statuses
<1>5. Running /\ RowsStay
  BY <1>1, <1>3, <1>4 DEF Proceeds
<1>6. Knows(w, i)
  BY CheckKnows
<1>7. th[w].rs.status # "FAILED" /\ th[w].out \notin {"failed", "timeout"}
  BY <1>1 DEF Untroubled
<1>8. Replaces(th[w]) /\ i \in DOMAIN rsrc => rsrc[i].replaced_by = None
  BY <1>1, <1>5 DEF Running
<1> QED
  BY <1>1, <1>3, <1>4, <1>5, <1>6, <1>7, <1>8 DEF Aware

\* What the check of row i does outside it is next to nothing.
Moves(w, i) ==
    /\ Apartly(i) /\ \A v \in Threads \ {w} : th'[v] = th[v]
    /\ th'[w].pc \notin Launching
    /\ th'[w].pc \in Checks =>
          /\ th'[w].msg = th[w].msg /\ th'[w].rs.name = th[w].rs.name
          /\ th'[w].rs.replaces = th[w].rs.replaces
    /\ DOMAIN rsrc \ {i} \subseteq DOMAIN rsrc' /\ DOMAIN rsrc' \subseteq DOMAIN rsrc
    /\ \A j \in DOMAIN rsrc' :
          /\ rsrc'[j].name = rsrc[j].name /\ rsrc'[j].replaced_by = rsrc[j].replaced_by
          /\ rsrc'[j].tmpl \in {rsrc[j].tmpl, stack.tmpl}
          /\ j # i => Same(rsrc'[j], rsrc[j])

\* What it does to the row is sound.
Sound(w, i) ==
    /\ Serving(i) => Serving(i)'
    /\ i \in phys' => i \in DOMAIN rsrc'
    /\ i \in DOMAIN rsrc' /\ rsrc'[i].action = "DELETE" =>
          \/ th'[w].pc \in {"handler", "destroy"} /\ ~th[w].msg.upd
          \/ rsrc[i].action = "DELETE" /\ th[w].pc \notin {"handler", "destroy"}
    /\ th'[w].pc = "destroy" => i \notin phys'
    /\ i \in DOMAIN rsrc' /\ rsrc'[i].tmpl = stack.tmpl =>
          \/ /\ rsrc[i].tmpl = stack.tmpl
             /\ rsrc'[i].action # "INIT" =>
                   rsrc[i].action # "INIT" /\ rsrc'[i].requires = rsrc[i].requires
          \/ /\ th[w].msg.upd /\ rsrc'[i].requires = Reports(th[w])
             /\ rsrc[i].replaced_by = None /\ rsrc[i].name = th[w].rs.name
    /\ Replaces(th'[w]) /\ i \in DOMAIN rsrc' => rsrc[i].replaced_by = None
    /\ i \in DOMAIN rsrc \ DOMAIN rsrc' => ~th[w].msg.upd /\ rsrc[i].tmpl # stack.tmpl

\* A check that leaves its row as it is.
LEMMA LeavesSound ==
    ASSUME NEW w, NEW i, Aware(w, i), Moves(w, i), DOMAIN rsrc' = DOMAIN rsrc, UNCHANGED phys,
           i \in DOMAIN rsrc => Same(rsrc'[i], rsrc[i]),
           th[w].pc \notin {"handler", "destroy"}, th'[w].pc # "destroy", ~Replaces(th'[w])
    PROVE  Sound(w, i)
<1>1. UNCHANGED stack /\ phys \subseteq DOMAIN rsrc
  BY DEF Moves, Apartly, Aware, RowsStay
<1>2. Serving(i) => Serving(i)'
  BY <1>1 DEF Serving, Same
<1> QED
  BY <1>1, <1>2 DEF Sound, Same

\* load() and the attempts to lock the row leave all rows as they are.
LEMMA LookIsSound ==
    ASSUME TravInv, SeqInv, NEW w \in Threads, NEW i, i = th[w].msg.id, Aware(w, i),
           AcquireRead(w) \/ TrySteal(w) \/ Acquire(w)
    PROVE  Moves(w, i) /\ Sound(w, i)
<1>1. TypeOK /\ dead = {}
  BY DEF TravInv, SeqInv
<1>2. /\ th[w].pc \in {"acquire", "in_progress", "cas"} /\ Apartly(i) /\ UNCHANGED phys
      /\ UNCHANGED rsrc \/ RowSays(i, rsrc[i])
      /\ Gone(w) \/ \E pc \in {"cas", "in_progress", "begin"} :
                       Becomes(w, pc, th[w].st, th[w].rs, th[w].out)
  <2>1. CASE AcquireRead(w)
    BY <1>1, <2>1, AcquireReadDoes
  <2>2. CASE TrySteal(w)
    BY <1>1, <2>2, TryStealDoes
  <2>3. CASE Acquire(w)
    <3>1. /\ th[w].pc = "cas" /\ Apartly(i) /\ UNCHANGED phys /\ RowSays(i, rsrc[i])
          /\ \/ Becomes(w, "in_progress", th[w].st, th[w].rs, th[w].out)
             \/ Becomes(w, "begin", th[w].st, th[w].rs, th[w].out)
      BY <1>1, <2>3, AcquireDoes
    <3> QED
      BY <3>1
  <2> QED
    BY <2>1, <2>2, <2>3
<1>3. /\ \A v \in Threads \ {w} : th'[v] = th[v]
      /\ th'[w].pc \in {"idle", "finished", "cas", "in_progress", "begin"}
      /\ th'[w].pc \notin {"idle", "finished"} => th'[w].msg = th[w].msg /\ th'[w].rs = th[w].rs
  BY <1>2 DEF Gone, Returned, Becomes
<1>4. DOMAIN rsrc' = DOMAIN rsrc /\ \A j \in DOMAIN rsrc : Same(rsrc'[j], rsrc[j])
  BY <1>2 DEF RowSays, Same
<1>5. Moves(w, i)
  BY <1>2, <1>3, <1>4 DEF Moves, Same, Checks, Launching
<1>6. ~Replaces(th'[w]) /\ th'[w].pc # "destroy"
  BY <1>3 DEF Replaces
<1> QED
  <2>1. /\ th[w].pc \notin {"handler", "destroy"} /\ UNCHANGED phys
        /\ i \in DOMAIN rsrc => Same(rsrc'[i], rsrc[i])
    BY <1>2, <1>4
  <2> QED
    BY <1>4, <1>5, <1>6, <2>1, LeavesSound

\* create_convergence(), update_convergence() and delete_convergence() start.
LEMMA BeginIsSound ==
    ASSUME TravInv, SeqInv, NEW w \in Threads, NEW i, i = th[w].msg.id, Aware(w, i),
           BeginCreate(w) \/ BeginUpdate(w) \/ BeginCleanup(w)
    PROVE  Moves(w, i) /\ Sound(w, i)
<1>1. TypeOK /\ Knows(w, i) /\ RowsStay /\ th[w].rs.status # "FAILED"
  BY DEF TravInv, Aware
<1>2. /\ th[w].pc = "begin" /\ Apartly(i) /\ UNCHANGED phys
      /\ BeginsCreate(w) \/ BeginsUpdate(w) \/ BeginsCleanup(w)
  BY <1>1, BeginDoes
<1>3. /\ i \in DOMAIN rsrc /\ Same(rsrc[i], th[w].rs) /\ th[w].st.tmpl = stack.tmpl
      /\ th[w].rs.action = "INIT" => i \notin phys
      /\ th[w].rs.action = "INIT" => th[w].rs.status = "COMPLETE"
      /\ th[w].msg.upd => /\ th[w].rs.replaced_by = None
                          /\ th[w].rs.tmpl = stack.tmpl => th[w].rs.action = "INIT"
  <2>1. th[w].rs.action = "INIT" => th[w].rs.status = "COMPLETE"
    BY <1>2 DEF SeqInv, InitIsClean, Checks
  <2>2. th[w].st.tmpl = stack.tmpl
    BY <1>1 DEF Knows
  <2> QED
    BY <1>1, <1>2, <2>1, <2>2, BeginKnows, Zenon
<1>4. UNCHANGED stack /\ phys \subseteq DOMAIN rsrc
  BY <1>1, <1>2 DEF Apartly, RowsStay
\* It creates or updates,
<1>5. ASSUME NEW r, NEW action \in {"CREATE", "UPDATE", "DELETE"}, NEW tmpl, NEW requires,
             Variant(r, th[w].rs, action, "IN_PROGRESS", tmpl, requires), RowSays(i, r),
             Becomes(w, "handler", th[w].st, r, th[w].out),
             action = "DELETE" => ~th[w].msg.upd,
             th[w].rs.action = "INIT" \/ th[w].rs.tmpl # stack.tmpl,
             \/ th[w].msg.upd /\ tmpl = stack.tmpl /\ requires = Reports(th[w])
             \/ tmpl = th[w].rs.tmpl /\ tmpl # stack.tmpl
      PROVE  Moves(w, i) /\ Sound(w, i)
  <2>1. /\ \A v \in Threads \ {w} : th'[v] = th[v]
        /\ th'[w].pc = "handler" /\ th'[w].msg = th[w].msg /\ th'[w].rs = r
    BY <1>5 DEF Becomes
  <2>2. /\ DOMAIN rsrc' = DOMAIN rsrc /\ \A j \in DOMAIN rsrc \ {i} : Same(rsrc'[j], rsrc[j])
        /\ Same(rsrc'[i], r)
    BY <1>3, <1>5 DEF RowSays, Same
  <2>3. /\ rsrc'[i].name = rsrc[i].name /\ rsrc'[i].replaced_by = rsrc[i].replaced_by
        /\ rsrc'[i].tmpl = tmpl /\ rsrc'[i].requires = requires /\ rsrc'[i].action = action
        /\ th'[w].rs.name = th[w].rs.name /\ th'[w].rs.replaces = th[w].rs.replaces
    BY <1>3, <1>5, <2>1, <2>2 DEF Same, Variant
  <2>4. ~Serving(i)
    BY <1>3, <1>5 DEF Serving, Same
  <2>5. Moves(w, i)
    <3>1. th'[w].pc \notin Launching
      BY <2>1 DEF Launching
    <3>2. tmpl \in {rsrc[i].tmpl, stack.tmpl}
      BY <1>3, <1>5 DEF Same
    <3>3. \A j \in DOMAIN rsrc \ {i} : /\ rsrc'[j].name = rsrc[j].name
                                       /\ rsrc'[j].replaced_by = rsrc[j].replaced_by
                                       /\ rsrc'[j].tmpl = rsrc[j].tmpl
      BY <2>2 DEF Same
    <3> QED
      BY <1>2, <2>1, <2>2, <2>3, <3>1, <3>2, <3>3 DEF Moves
  <2>6. ~Replaces(th'[w]) /\ th'[w].pc # "destroy"
    BY <2>1 DEF Replaces
  <2>7. rsrc'[i].tmpl = stack.tmpl =>
           /\ th[w].msg.upd /\ rsrc'[i].requires = Reports(th[w])
           /\ rsrc[i].replaced_by = None /\ rsrc[i].name = th[w].rs.name
    BY <1>3, <1>5, <2>3 DEF Same
  <2>8. Sound(w, i)
    BY <1>3, <1>4, <1>5, <2>1, <2>2, <2>3, <2>4, <2>6, <2>7 DEF Sound
  <2> QED
    BY <2>5, <2>8
\* or leaves the row alone, or is about to remove it.
<1>6. ASSUME UNCHANGED rsrc, NEW r, NEW pc, NEW out, Becomes(w, pc, th[w].st, r, out),
             r.name = th[w].rs.name, r.replaces = th[w].rs.replaces,
             \/ pc = "release" /\ out = "done"
             \/ pc = "destroy" /\ i \notin phys
      PROVE  Moves(w, i) /\ Sound(w, i)
  <2>1. /\ \A v \in Threads \ {w} : th'[v] = th[v]
        /\ th'[w].pc = pc /\ th'[w].msg = th[w].msg /\ th'[w].rs = r /\ th'[w].out = out
    BY <1>6 DEF Becomes
  <2>2. Moves(w, i)
    BY <1>2, <1>6, <2>1 DEF Moves, Same, Launching
  <2>3. ~Replaces(th'[w])
    BY <1>6, <2>1 DEF Replaces
  <2>4. Serving(i) => Serving(i)'
    BY <1>2, <1>4, <1>6 DEF Serving
  <2>5. Sound(w, i)
    BY <1>2, <1>4, <1>6, <2>1, <2>3, <2>4 DEF Sound
  <2> QED
    BY <2>2, <2>5
<1>7. CASE BeginsCreate(w)
  <2>1. PICK r : /\ Variant(r, th[w].rs, "CREATE", "IN_PROGRESS", th[w].st.tmpl, Reports(th[w]))
                 /\ RowSays(th[w].msg.id, r) /\ Becomes(w, "handler", th[w].st, r, th[w].out)
                 /\ th[w].msg.upd /\ th[w].rs.action = "INIT"
    BY <1>3, <1>7 DEF BeginsCreate
  <2> QED
    BY <1>3, <1>5, <2>1
<1>8. CASE BeginsUpdate(w)
  <2>1. th[w].msg.upd /\ th[w].rs.action # "INIT" /\ th[w].rs.tmpl # stack.tmpl
    BY <1>3, <1>8 DEF BeginsUpdate
  <2>2. \/ \E r : /\ Variant(r, th[w].rs, th[w].rs.action, th[w].rs.status, th[w].st.tmpl, Reports(th[w]))
                  /\ UNCHANGED rsrc /\ Becomes(w, "release", th[w].st, r, "done")
        \/ \E r : /\ Variant(r, th[w].rs, "UPDATE", "IN_PROGRESS", th[w].rs.tmpl, th[w].rs.requires)
                  /\ RowSays(th[w].msg.id, r) /\ Becomes(w, "handler", th[w].st, r, th[w].out)
    BY <1>1, <1>8 DEF BeginsUpdate
  <2>3. CASE \E r : /\ Variant(r, th[w].rs, th[w].rs.action, th[w].rs.status, th[w].st.tmpl, Reports(th[w]))
                    /\ UNCHANGED rsrc /\ Becomes(w, "release", th[w].st, r, "done")
    BY <1>6, <2>3 DEF Variant
  <2>4. CASE \E r : /\ Variant(r, th[w].rs, "UPDATE", "IN_PROGRESS", th[w].rs.tmpl, th[w].rs.requires)
                    /\ RowSays(th[w].msg.id, r) /\ Becomes(w, "handler", th[w].st, r, th[w].out)
    BY <1>5, <2>1, <2>4
  <2> QED
    BY <2>2, <2>3, <2>4
<1>9. CASE BeginsCleanup(w)
  <2>1. \/ UNCHANGED rsrc /\ Becomes(w, "release", th[w].st, th[w].rs, "done")
        \/ /\ nothing_to_delete(th[w].rs) /\ UNCHANGED rsrc
           /\ Becomes(w, "destroy", th[w].st, th[w].rs, th[w].out)
        \/ /\ th[w].rs.tmpl # stack.tmpl /\ ~th[w].msg.upd
           /\ \E r : /\ Variant(r, th[w].rs, "DELETE", "IN_PROGRESS", th[w].rs.tmpl, th[w].rs.requires)
                     /\ RowSays(th[w].msg.id, r) /\ Becomes(w, "handler", th[w].st, r, th[w].out)
    BY <1>3, <1>9 DEF BeginsCleanup
  <2>2. nothing_to_delete(th[w].rs) => i \notin phys
    <3>1. rsrc[i].action # "DELETE"
      <4> SUFFICES ASSUME rsrc[i].action = "DELETE" PROVE FALSE
        OBVIOUS
      <4>1. PICK v \in Threads : th[v].pc \in {"handler", "destroy"} /\ th[v].msg.id = i
        BY <1>1, <1>3 DEF RowsStay
      <4>2. v # w /\ th[v].pc \in Checks
        BY <1>2, <4>1 DEF Checks
      <4> QED
        BY <1>1, <4>1, <4>2 DEF Knows
    <3> QED
      BY <1>3, <3>1 DEF nothing_to_delete, Same
  <2>3. CASE UNCHANGED rsrc /\ Becomes(w, "release", th[w].st, th[w].rs, "done")
    BY <1>6, <2>3
  <2>4. CASE nothing_to_delete(th[w].rs) /\ UNCHANGED rsrc
             /\ Becomes(w, "destroy", th[w].st, th[w].rs, th[w].out)
    BY <1>6, <2>2, <2>4
  <2>5. CASE /\ th[w].rs.tmpl # stack.tmpl /\ ~th[w].msg.upd
             /\ \E r : /\ Variant(r, th[w].rs, "DELETE", "IN_PROGRESS", th[w].rs.tmpl, th[w].rs.requires)
                       /\ RowSays(th[w].msg.id, r) /\ Becomes(w, "handler", th[w].st, r, th[w].out)
    BY <1>5, <2>5
  <2> QED
    BY <2>1, <2>3, <2>4, <2>5
<1> QED
  BY <1>2, <1>7, <1>8, <1>9

\* The handler of the resource is done.
LEMMA HandlerIsSound ==
    ASSUME TravInv, SeqInv, NEW w \in Threads, NEW i, i = th[w].msg.id, Aware(w, i), HandlerDone(w)
    PROVE  Moves(w, i) /\ Sound(w, i)
<1>1. TypeOK /\ Knows(w, i) /\ RowsStay /\ phys \subseteq DOMAIN rsrc
  BY DEF TravInv, Aware, RowsStay
<1>2. th[w].pc = "handler" /\ Apartly(i) /\ EndsWell(w)
  BY <1>1, HandlerDoneDoes
<1>3. /\ i \in DOMAIN rsrc /\ Same(rsrc[i], th[w].rs) /\ th[w].rs.status = "IN_PROGRESS"
      /\ HandlerOK(th[w]) /\ UNCHANGED stack
  BY <1>1, <1>2, HandlerKnows DEF Apartly
<1>4. /\ th[w].rs.action = "UPDATE" => th[w].rs.replaced_by = None
      /\ th[w].rs.action = "DELETE" => ~th[w].msg.upd
  BY <1>3 DEF HandlerOK
<1>5. PICK pc, r, out :
        /\ Becomes(w, pc, th[w].st, r, out)
        /\ r.name = th[w].rs.name /\ r.replaces = th[w].rs.replaces
        /\ \/ pc = "release" /\ out = "done" /\ th[w].rs.action # "DELETE"
           \/ pc = "release" /\ out = "replace" /\ th[w].rs.action = "UPDATE"
           \/ pc = "destroy" /\ i \notin phys' /\ th[w].rs.action = "DELETE"
  BY <1>2 DEF EndsWell, Variant
<1>6. /\ \A v \in Threads \ {w} : th'[v] = th[v]
      /\ th'[w].pc = pc /\ th'[w].msg = th[w].msg /\ th'[w].rs = r /\ th'[w].out = out
  BY <1>5 DEF Becomes
<1>7. \/ UNCHANGED rsrc
      \/ \E a : /\ RowSays(i, a)
                /\ Variant(a, th[w].rs, th[w].rs.action, "COMPLETE", th[w].rs.tmpl, th[w].rs.requires)
  BY <1>2 DEF EndsWell
<1>8. /\ DOMAIN rsrc' = DOMAIN rsrc /\ \A j \in DOMAIN rsrc \ {i} : Same(rsrc'[j], rsrc[j])
      /\ rsrc'[i].name = rsrc[i].name /\ rsrc'[i].replaced_by = rsrc[i].replaced_by
      /\ rsrc'[i].tmpl = rsrc[i].tmpl /\ rsrc'[i].action = rsrc[i].action
      /\ rsrc'[i].requires = rsrc[i].requires
  BY <1>3, <1>7 DEF RowSays, Same, Variant
<1>9. Moves(w, i)
  <2>1. th'[w].pc \notin Launching
    BY <1>5, <1>6 DEF Launching
  <2>2. \A j \in DOMAIN rsrc \ {i} : /\ rsrc'[j].name = rsrc[j].name
                                     /\ rsrc'[j].replaced_by = rsrc[j].replaced_by
                                     /\ rsrc'[j].tmpl = rsrc[j].tmpl
    BY <1>8 DEF Same
  <2> QED
    BY <1>2, <1>5, <1>6, <1>8, <2>1, <2>2 DEF Moves
<1>10. ~Serving(i) /\ rsrc[i].replaced_by = th[w].rs.replaced_by /\ rsrc[i].action = th[w].rs.action
  BY <1>3 DEF Serving, Same
<1>11. Replaces(th'[w]) => rsrc[i].replaced_by = None
  BY <1>4, <1>5, <1>6, <1>10 DEF Replaces
<1> QED
  BY <1>3, <1>4, <1>5, <1>6, <1>8, <1>9, <1>10, <1>11 DEF Sound

\* The row of a resource that is gone is deleted.
LEMMA DestroyIsSound ==
    ASSUME TravInv, SeqInv, NEW w \in Threads, NEW i, i = th[w].msg.id, Aware(w, i), Destroy(w)
    PROVE  Moves(w, i) /\ Sound(w, i)
<1>1. TypeOK /\ Knows(w, i) /\ RowsStay
  BY DEF TravInv, Aware
<1>2. /\ th[w].pc = "destroy" /\ Apartly(i) /\ UNCHANGED <<stack, phys>>
      /\ Becomes(w, "propagate", th[w].st, th[w].rs, th[w].out)
      /\ DOMAIN rsrc' = DOMAIN rsrc \ {i}
      /\ \A j \in DOMAIN rsrc' : rsrc'[j] = rsrc[j] \/ Same(rsrc'[j], rsrc[j])
  BY <1>1, DestroyDoes DEF Apartly
<1>3. /\ \A v \in Threads \ {w} : th'[v] = th[v]
      /\ th'[w].pc = "propagate" /\ th'[w].msg = th[w].msg /\ th'[w].rs = th[w].rs
  BY <1>2 DEF Becomes
<1>4. i \notin phys /\ ~th[w].msg.upd /\ (i \in DOMAIN rsrc => rsrc[i].tmpl # stack.tmpl)
  BY <1>1, <1>2 DEF RowsStay, Knows, WorkerOK
<1>5. Moves(w, i)
  BY <1>2, <1>3 DEF Moves, Same, Launching
<1> QED
  BY <1>2, <1>3, <1>4, <1>5 DEF Sound, Serving, Replaces

\* The lock is given back.
LEMMA ReleaseIsSound ==
    ASSUME TravInv, LockInv, SeqInv, NEW w \in Threads, NEW i, i = th[w].msg.id, Aware(w, i),
           Release(w)
    PROVE  Moves(w, i) /\ Sound(w, i)
<1>1. th[w].pc = "release" /\ TypeOK /\ dead = {}
  BY DEF Release, At, TravInv, SeqInv
<1>2. /\ w \in Workers /\ Knows(w, i) /\ phys \subseteq DOMAIN rsrc
      /\ th[w].out \notin {"failed", "timeout"}
      /\ th[w].out = "replace" => (i \in DOMAIN rsrc => rsrc[i].replaced_by = None)
  BY <1>1 DEF TravInv, WorkersCheck, Checks, Aware, RowsStay, Replaces
<1>3. ReleaseOK(th[w]) /\ i \in DOMAIN rsrc
  BY <1>1, <1>2 DEF Knows, WorkerOK, ReleaseOK
<1>4. /\ Apartly(i) /\ UNCHANGED phys /\ DOMAIN rsrc' = DOMAIN rsrc
      /\ \A j \in DOMAIN rsrc \ {i} : rsrc'[j] = rsrc[j]
      /\ Variant(rsrc'[i], rsrc[i], rsrc[i].action, rsrc[i].status, th[w].rs.tmpl, th[w].rs.requires)
      /\ Becomes(w, After(th[w].out), th[w].st, th[w].rs, th[w].out)
  <2>1. i \notin DOMAIN rsrc \/ ~(th[w].msg.id \notin DOMAIN rsrc)
    OBVIOUS
  <2> QED
    BY <1>1, <1>2, <1>3, <2>1, ReleaseDoes
<1>5. /\ rsrc'[i].name = rsrc[i].name /\ rsrc'[i].replaced_by = rsrc[i].replaced_by
      /\ rsrc'[i].action = rsrc[i].action /\ rsrc'[i].status = rsrc[i].status
      /\ rsrc'[i].tmpl = th[w].rs.tmpl /\ rsrc'[i].requires = th[w].rs.requires
      /\ UNCHANGED <<stack, phys>>
  BY <1>4 DEF Variant, Apartly
<1>6. /\ \A v \in Threads \ {w} : th'[v] = th[v]
      /\ th'[w].pc = After(th[w].out) /\ th'[w].msg = th[w].msg /\ th'[w].rs = th[w].rs
      /\ th'[w].out = th[w].out
  BY <1>4 DEF Becomes
<1>7. \/ /\ th[w].out = "done" /\ th[w].msg.upd /\ rsrc'[i].tmpl = stack.tmpl
         /\ rsrc'[i].requires = Reports(th[w]) /\ rsrc[i].replaced_by = None
      \/ /\ th[w].out = "done" /\ rsrc'[i].tmpl = rsrc[i].tmpl
         /\ rsrc'[i].requires = rsrc[i].requires
      \/ /\ th[w].out = "replace" /\ rsrc'[i].tmpl = rsrc[i].tmpl
         /\ rsrc'[i].requires = rsrc[i].requires /\ rsrc[i].tmpl # stack.tmpl
  BY <1>2, <1>3, <1>5 DEF ReleaseOK
<1>8. th'[w].pc \in {"propagate", "replace"} /\ (th'[w].pc = "replace" => th[w].out = "replace")
  BY <1>6, <1>7 DEF After
<1>9. Moves(w, i)
  <2>1. th'[w].pc \notin Launching
    BY <1>8 DEF Launching
  <2>2. rsrc'[i].tmpl \in {rsrc[i].tmpl, stack.tmpl}
    BY <1>7
  <2>3. \A j \in DOMAIN rsrc \ {i} : Same(rsrc'[j], rsrc[j])
    BY <1>4 DEF Same
  <2> QED
    BY <1>4, <1>5, <1>6, <2>1, <2>2, <2>3 DEF Moves
<1>10. Serving(i) => Serving(i)'
  BY <1>4, <1>5, <1>7 DEF Serving
<1>11. Replaces(th'[w]) => rsrc[i].replaced_by = None
  BY <1>2, <1>3, <1>8 DEF Replaces
<1>12. rsrc'[i].tmpl = stack.tmpl =>
          \/ /\ rsrc[i].tmpl = stack.tmpl /\ rsrc'[i].action = rsrc[i].action
             /\ rsrc'[i].requires = rsrc[i].requires
          \/ /\ th[w].msg.upd /\ rsrc'[i].requires = Reports(th[w])
             /\ rsrc[i].replaced_by = None /\ rsrc[i].name = th[w].rs.name
  BY <1>3, <1>5, <1>7 DEF ReleaseOK
<1>13. /\ i \in DOMAIN rsrc' /\ th[w].pc \notin {"handler", "destroy"} /\ th'[w].pc # "destroy"
       /\ rsrc'[i].action = "DELETE" => rsrc[i].action = "DELETE"
  BY <1>1, <1>3, <1>4, <1>5, <1>8
<1>14. Sound(w, i)
  BY <1>10, <1>11, <1>12, <1>13, SMTT(20) DEF Sound
<1> QED
  BY <1>9, <1>14

\* A sound check leads on: its row, ...
LEMMA SoundRowsStay ==
    ASSUME NEW w \in Threads, NEW i, i = th[w].msg.id, Aware(w, i), Moves(w, i), Sound(w, i)
    PROVE  RowsStay'
<1>1. RowsStay /\ \A v \in Threads \ {w} : th[v].pc \in Checks => th[v].msg.id # i
  BY DEF Aware, Knows
<1>2. phys' \subseteq DOMAIN rsrc'
  BY <1>1 DEF RowsStay, Moves, Apartly, Sound
<1>3. th'[w].pc \in {"handler", "destroy"} => th'[w].msg = th[w].msg
  BY DEF Moves, Checks
<1>4. ASSUME NEW j \in DOMAIN rsrc', rsrc'[j].action = "DELETE"
      PROVE  \E v \in Threads : th'[v].pc \in {"handler", "destroy"} /\ th'[v].msg.id = j /\ ~th'[v].msg.upd
  <2>1. CASE j = i /\ th'[w].pc \in {"handler", "destroy"} /\ ~th[w].msg.upd
    BY <1>3, <2>1
  <2>2. CASE /\ rsrc[j].action = "DELETE" /\ j \in DOMAIN rsrc
             /\ j = i => th[w].pc \notin {"handler", "destroy"}
    <3>1. PICK v \in Threads : th[v].pc \in {"handler", "destroy"} /\ th[v].msg.id = j /\ ~th[v].msg.upd
      BY <1>1, <2>2 DEF RowsStay
    <3>2. v # w
      BY <2>2, <3>1
    <3> QED
      BY <3>1, <3>2 DEF Moves
  <2> QED
    BY <1>4, <2>1, <2>2 DEF Moves, Sound, Same
<1>5. ASSUME NEW v \in Threads, th'[v].pc = "destroy" PROVE th'[v].msg.id \notin phys'
  <2>1. CASE v = w
    BY <1>3, <1>5, <2>1 DEF Sound
  <2>2. CASE v # w
    <3>1. th'[v] = th[v] /\ th[v].msg.id # i
      BY <1>1, <1>5, <2>2 DEF Moves, Checks
    <3>2. th[v].msg.id \notin phys
      BY <1>1, <1>5, <3>1 DEF RowsStay
    <3> QED
      BY <3>1, <3>2 DEF Moves, Apartly
  <2> QED
    BY <2>1, <2>2
<1> QED
  BY <1>2, <1>4, <1>5 DEF RowsStay

\* ... the names of the graph, ...
LEMMA NamesInGraph ==
    ASSUME NEW current, CheckInv(current), NEW i \in DOMAIN rsrc, <<i, TRUE>> \in stack.deps.nodes
    PROVE  /\ rsrc[i].name \in TmplNames[stack.tmpl] /\ i = current[rsrc[i].name]
           /\ \A j \in DOMAIN rsrc : rsrc[j].name = rsrc[i].name /\ <<j, TRUE>> \in stack.deps.nodes => i = j
<1>1. /\ {n \in stack.deps.nodes : n[2]} = {<<current[n], TRUE>> : n \in TmplNames[stack.tmpl]}
      /\ NamesOK(stack.tmpl, current)
  BY Zenon DEF CheckInv, GraphOK
<1>2. ASSUME NEW j \in DOMAIN rsrc, <<j, TRUE>> \in stack.deps.nodes
      PROVE  rsrc[j].name \in TmplNames[stack.tmpl] /\ j = current[rsrc[j].name]
  <2>1. <<j, TRUE>> \in {<<current[n], TRUE>> : n \in TmplNames[stack.tmpl]}
    <3>1. <<j, TRUE>>[2] = TRUE
      OBVIOUS
    <3> QED
      BY <1>1, <1>2, <3>1, Zenon
  <2>2. PICK n \in TmplNames[stack.tmpl] : <<j, TRUE>> = <<current[n], TRUE>>
    BY <2>1
  <2>3. j = current[n]
    BY <2>2
  <2> QED
    BY <1>1, <2>3 DEF NamesOK
<1> QED
  BY <1>2, Zenon

\* What a check stands for, when it is about to claim the row.
LEMMA ClaimedIsPlanned ==
    ASSUME NEW w \in Checking, NEW i, i = th[w].msg.id, th[w].msg.upd, i \in DOMAIN rsrc,
           NEW current, CheckInv(current), Planned(stack.deps), rsrc[i].tmpl # stack.tmpl
    PROVE  <<i, TRUE>> \in stack.deps.nodes
<1> SUFFICES ASSUME <<i, TRUE>> \notin stack.deps.nodes PROVE FALSE
  OBVIOUS
<1>1. TokenOK(WorkerToken(w), current) /\ WorkerToken(w).id = i /\ WorkerToken(w).upd = th[w].msg.upd
  BY TokensAre, Zenon DEF CheckInv
<1>2. th[w].msg.upd = TRUE => <<i, FALSE>> \notin stack.deps.nodes
  BY <1>1 DEF TokenOK
<1> QED
  BY <1>2, Zenon DEF Planned

\* There is a sync point for every node.
PointsAre == DOMAIN sp = {stack.trav} /\ DOMAIN Points = stack.deps.nodes \cup {StackNode}

\* The sync points are those of the graph and of the stack.
LEMMA PointsOfGraph ==
    ASSUME TravInv, SeqInv, DOMAIN sp # {}
    PROVE  PointsAre
  BY Zenon DEF TravInv, PointsMatch, SeqInv, PointsArePurged, PointsAre, Points

\* Who has reported is among the senders of some sync point.
LEMMA DoneIs ==
    ASSUME PointsAre
    PROVE  \A k : k \in Done <=> \E n \in stack.deps.nodes \cup {StackNode} : k \in senders(Points[n])
  BY DEF PointsAre, Done, Points

\* ... the rows of the template, ...
LEMMA SoundOurs ==
    ASSUME NEW w \in Checking, NEW i, i = th[w].msg.id, Moves(w, i), Sound(w, i),
           NEW current, CheckInv(current), Planned(stack.deps),
           th[w].msg.upd => DataNames(th[w].msg.data, th[w].rs.name)
    PROVE  OursOK(stack.deps)'
<1> DEFINE t == stack.tmpl
           g == stack.deps
<1>1. /\ UNCHANGED stack /\ DOMAIN rsrc' \subseteq DOMAIN rsrc
      /\ \A j \in DOMAIN rsrc' : /\ rsrc'[j].name = rsrc[j].name
                                 /\ rsrc'[j].replaced_by = rsrc[j].replaced_by
      /\ \A j \in DOMAIN rsrc' \ {i} : /\ rsrc'[j].tmpl = rsrc[j].tmpl
                                       /\ rsrc'[j].action = rsrc[j].action
                                       /\ rsrc'[j].requires = rsrc[j].requires
  BY DEF Moves, Apartly, Same
<1>2. /\ rsrc'[i].name = rsrc[i].name \/ i \notin DOMAIN rsrc'
      /\ i \in DOMAIN rsrc' /\ rsrc'[i].tmpl = t =>
            \/ /\ rsrc[i].tmpl = t
               /\ rsrc'[i].action # "INIT" =>
                     rsrc[i].action # "INIT" /\ rsrc'[i].requires = rsrc[i].requires
            \/ /\ th[w].msg.upd /\ rsrc'[i].requires = Reports(th[w])
               /\ rsrc[i].replaced_by = None /\ rsrc[i].name = th[w].rs.name
  BY <1>1 DEF Sound
<1>3. OursOK(g)
  BY DEF Planned
\* a row that is claimed now has a node,
<1>4. ASSUME i \in DOMAIN rsrc', rsrc'[i].tmpl = t, rsrc[i].tmpl # t
      PROVE  /\ <<i, TRUE>> \in g.nodes /\ rsrc[i].replaced_by = None /\ rsrc[i].name \in TmplNames[t]
             /\ \A j \in DOMAIN rsrc : rsrc[j].name = rsrc[i].name /\ <<j, TRUE>> \in g.nodes => i = j
  <2>1. i \in DOMAIN rsrc /\ th[w].msg.upd /\ rsrc[i].replaced_by = None
    BY <1>1, <1>2, <1>4
  <2>2. <<i, TRUE>> \in g.nodes
    BY <1>4, <2>1, ClaimedIsPlanned, Zenon
  <2> QED
    BY <2>1, <2>2, NamesInGraph, Zenon
<1>5. ASSUME NEW a \in DOMAIN rsrc', rsrc'[a].tmpl = t
      PROVE  /\ rsrc'[a].name \in TmplNames[t]
             /\ rsrc'[a].action # "INIT" => RequiresOK(a, t)'
             /\ \A j \in DOMAIN rsrc' : rsrc'[j].name = rsrc'[a].name =>
                   /\ rsrc'[j].tmpl = t => a = j
                   /\ rsrc'[j].tmpl # t /\ <<j, TRUE>> \in g.nodes => rsrc'[j].replaced_by # None
  <2>1. rsrc'[a].name \in TmplNames[t]
    BY <1>1, <1>3, <1>4, <1>5, Zenon DEF OursOK
  <2>2. ASSUME rsrc'[a].action # "INIT" PROVE RequiresOK(a, t)'
    <3>1. CASE rsrc[a].tmpl = t /\ rsrc[a].action # "INIT" /\ rsrc'[a].requires = rsrc[a].requires
      <4>1. RequiresOK(a, t)
        BY <1>1, <1>3, <3>1, Zenon DEF OursOK
      <4> QED
        BY <1>1, <3>1, <4>1 DEF RequiresOK
    <3>2. CASE a = i /\ th[w].msg.upd /\ rsrc'[i].requires = Reports(th[w]) /\ rsrc[i].name = th[w].rs.name
      <4>1. DataNames(th[w].msg.data, rsrc[i].name)
        BY <3>2
      <4>2. \A j \in Reports(th[w]) : j \in DOMAIN rsrc => rsrc[j].name \in TmplRequires[t][rsrc[i].name]
        BY <4>1 DEF DataNames, Reports
      <4> QED
        BY <1>1, <3>2, <4>2 DEF RequiresOK
    <3> QED
      BY <1>1, <1>2, <1>5, <2>2, <3>1, <3>2
  <2>3. ASSUME NEW j \in DOMAIN rsrc', rsrc'[j].name = rsrc'[a].name, rsrc'[j].tmpl = t PROVE a = j
    <3>1. j \in DOMAIN rsrc /\ a \in DOMAIN rsrc /\ rsrc[j].name = rsrc[a].name
      BY <1>1, <2>3
    <3>2. CASE rsrc[a].tmpl = t /\ rsrc[j].tmpl = t
      BY <1>3, <3>1, <3>2, Zenon DEF OursOK
    <3>3. CASE a = i /\ rsrc[a].tmpl # t /\ j # i
      BY <1>1, <1>3, <1>4, <1>5, <2>3, <3>1, <3>3, Zenon DEF OursOK
    <3>4. CASE j = i /\ rsrc[j].tmpl # t /\ a # i
      BY <1>1, <1>3, <1>4, <1>5, <2>3, <3>1, <3>4, Zenon DEF OursOK
    <3> QED
      BY <1>1, <1>5, <2>3, <3>2, <3>3, <3>4
  <2>4. ASSUME NEW j \in DOMAIN rsrc', rsrc'[j].name = rsrc'[a].name, rsrc'[j].tmpl # t,
               <<j, TRUE>> \in g.nodes
        PROVE  rsrc'[j].replaced_by # None
    <3>1. j \in DOMAIN rsrc /\ a \in DOMAIN rsrc /\ rsrc[j].name = rsrc[a].name /\ rsrc[j].tmpl # t
          /\ rsrc'[j].replaced_by = rsrc[j].replaced_by
      BY <1>1, <2>4 DEF Moves
    <3>2. CASE rsrc[a].tmpl = t
      BY <1>3, <2>4, <3>1, <3>2, Zenon DEF OursOK
    <3>3. CASE rsrc[a].tmpl # t
      BY <1>1, <1>4, <1>5, <2>4, <3>1, <3>3, Zenon
    <3> QED
      BY <3>2, <3>3
  <2> QED
    BY <2>1, <2>2, <2>3, <2>4, Zenon
<1> QED
  BY <1>1, <1>5, Zenon DEF OursOK

\* ... and the nodes.
LEMMA SoundUpdates ==
    ASSUME NEW w \in Checking, NEW i, i = th[w].msg.id, Moves(w, i), Sound(w, i),
           PointsAre, NEW current, CheckInv(current), UpdatesOK(stack.deps)
    PROVE  UpdatesOK(stack.deps)'
<1> DEFINE g == stack.deps
<1>1. /\ UNCHANGED <<stack, sp>> /\ DOMAIN rsrc' \subseteq DOMAIN rsrc
      /\ DOMAIN rsrc \ {i} \subseteq DOMAIN rsrc'
      /\ \A j \in DOMAIN rsrc' : rsrc'[j].name = rsrc[j].name
  BY DEF Moves, Apartly
<1>2. Done' = Done
  BY <1>1 DEF Done
<1>3. i \in DOMAIN rsrc \ DOMAIN rsrc' => <<i, TRUE>> \notin g.nodes \ Done
  <2> SUFFICES ASSUME i \in DOMAIN rsrc \ DOMAIN rsrc', <<i, TRUE>> \in g.nodes
               PROVE  <<i, TRUE>> \in Done
    OBVIOUS
  <2>1. ~th[w].msg.upd /\ rsrc[i].tmpl # stack.tmpl
    BY DEF Sound
  <2> DEFINE x == WorkerToken(w)
  <2>2. TokenOK(x, current) /\ x.id = i /\ x.upd = th[w].msg.upd
        /\ x.key = Stands(i, th[w].msg.upd, th[w].rs.replaces)
    BY TokensAre DEF CheckInv
  <2> HIDE DEF x
  <2>3. x.key \in g.nodes /\ ~x.key[2] /\ x.key[1] = i /\ Ready(x.key)
    <3>1. x.key \in g.nodes /\ Ready(x.key) /\ <<x.id, x.upd>> \in g.nodes
      BY <2>1, <2>2 DEF TokenOK, PointsAre
    <3>2. x.key = <<i, th[w].msg.upd>>
      BY <2>2, <3>1 DEF Stands
    <3> QED
      BY <2>1, <3>1, <3>2
  <2>4. <<x.key, <<i, TRUE>>>> \in g.edges
    BY <2>3, Zenon DEF CheckInv, GraphOK
  <2>5. <<i, TRUE>> \in graphPreds(g, x.key)
    <3> DEFINE e == <<x.key, <<i, TRUE>>>>
    <3>1. e \in g.edges /\ e[1] = x.key /\ e[2] = <<i, TRUE>>
      BY <2>4, Zenon
    <3> HIDE DEF e
    <3> QED
      BY <3>1, Zenon DEF graphPreds
  <2>6. <<i, TRUE>> \in senders(Points[x.key])
    BY <2>3, <2>5 DEF Ready
  <2> QED
    BY <2>3, <2>6, DoneIs
<1>4. \A k \in g.nodes \ Done : k[2] => k[1] \in DOMAIN rsrc'
  <2> SUFFICES ASSUME NEW k \in g.nodes \ Done, k[2], k[1] \notin DOMAIN rsrc' PROVE FALSE
    OBVIOUS
  <2>1. k[1] = i /\ i \in DOMAIN rsrc \ DOMAIN rsrc'
    BY <1>1 DEF UpdatesOK
  <2>2. k \in {<<current[n], TRUE>> : n \in TmplNames[stack.tmpl]}
    <3>1. {n \in g.nodes : n[2]} = {<<current[n], TRUE>> : n \in TmplNames[stack.tmpl]}
      BY Zenon DEF CheckInv, GraphOK
    <3>2. k \in {n \in g.nodes : n[2]}
      OBVIOUS
    <3> QED
      BY <3>1, <3>2, Zenon
  <2>3. k = <<i, TRUE>>
    <3>1. PICK n \in TmplNames[stack.tmpl] : k = <<current[n], TRUE>>
      BY <2>2, Zenon
    <3> QED
      BY <2>1, <3>1
  <2> QED
    BY <1>3, <2>1, <2>3
<1>5. \A e \in g.edges : e[1][2] /\ e[1][1] \in DOMAIN rsrc' /\ e[2][1] \in DOMAIN rsrc' =>
         rsrc'[e[2][1]].name \in TmplRequires[stack.tmpl][rsrc'[e[1][1]].name]
  BY <1>1 DEF UpdatesOK
<1>6. \A j \in DOMAIN rsrc : Serving(j) => Serving(j)'
  <2> SUFFICES ASSUME NEW j \in DOMAIN rsrc, Serving(j), j # i PROVE Serving(j)'
    BY DEF Sound
  <2>1. j \in DOMAIN rsrc' /\ Same(rsrc'[j], rsrc[j]) /\ j \in phys'
    BY DEF Moves, Apartly, Serving
  <2> QED
    BY <1>1, <2>1 DEF Serving, Same
<1>7. ASSUME NEW n \in TmplNames[stack.tmpl]
      PROVE  \/ \E j \in DOMAIN rsrc' : Serving(j)' /\ rsrc'[j].name = n
             \/ \E k \in g.nodes \ Done : k[2] /\ rsrc'[k[1]].name = n
  <2>1. CASE \E j \in DOMAIN rsrc : Serving(j) /\ rsrc[j].name = n
    <3>1. PICK j \in DOMAIN rsrc : Serving(j) /\ rsrc[j].name = n
      BY <2>1
    <3>2. Serving(j)' /\ j \in DOMAIN rsrc'
      BY <1>6, <3>1 DEF Serving
    <3> QED
      BY <1>1, <3>1, <3>2
  <2>2. CASE \E k \in g.nodes \ Done : k[2] /\ rsrc[k[1]].name = n
    BY <1>1, <1>4, <2>2
  <2> QED
    BY <2>1, <2>2 DEF UpdatesOK
<1> QED
  BY <1>1, <1>2, <1>4, <1>5, <1>7 DEF UpdatesOK


\* ... so that the traversal is still planned.
LEMMA SoundPlanned ==
    ASSUME NEW w \in Checking, NEW i, i = th[w].msg.id, Moves(w, i), Sound(w, i), Replacement(w),
           PointsAre, NEW current, CheckInv(current), None \notin DOMAIN rsrc,
           Planned(stack.deps), ReplacesOK(th[w].rs),
           th[w].msg.upd => DataNames(th[w].msg.data, th[w].rs.name)
    PROVE  /\ Planned(stack.deps)'
           /\ th'[w].pc \in Checks => ReplacesOK(th[w].rs)'
<1> DEFINE g == stack.deps
<1>1. /\ UNCHANGED stack /\ DOMAIN rsrc' \subseteq DOMAIN rsrc
      /\ \A j \in DOMAIN rsrc' : rsrc'[j].replaced_by = rsrc[j].replaced_by
      /\ \A j \in DOMAIN rsrc' : rsrc'[j].tmpl \in {rsrc[j].tmpl, stack.tmpl}
  BY DEF Moves, Apartly
<1>2. OursOK(g)'
  BY SoundOurs
<1>3. UpdatesOK(g)'
  BY SoundUpdates DEF Planned
<1>4. Grounded(g)'
  BY <1>1 DEF Planned, Grounded
<1>5. ASSUME NEW j \in DOMAIN rsrc', rsrc'[j].tmpl # stack.tmpl PROVE <<j, FALSE>> \in g.nodes
  <2>1. j \in DOMAIN rsrc /\ rsrc[j].tmpl # stack.tmpl
    BY <1>1, <1>5
  <2> QED
    BY <2>1, Zenon DEF Planned
<1>6. \A r : r \in DOMAIN rsrc' /\ rsrc[r].replaced_by # None => rsrc'[r].replaced_by # None
  BY <1>1
<1>7. ASSUME NEW j \in DOMAIN rsrc' PROVE ReplacesOK(rsrc[j])'
  <2>1. rsrc'[j].replaces \in {rsrc[j].replaces, None, th[w].rs.replaces}
    BY DEF Replacement
  <2>2. ReplacesOK(rsrc[j])
    BY <1>1, Zenon DEF Planned
  <2> QED
    BY <1>1, <1>6, <2>1, <2>2 DEF ReplacesOK
<1>8. th'[w].pc \in Checks => ReplacesOK(th[w].rs)'
  BY <1>1, <1>6 DEF ReplacesOK, Moves
<1> QED
  BY <1>1, <1>2, <1>3, <1>4, <1>5, <1>7, <1>8, Zenon DEF Planned

\* Names do not change.
LEMMA DataNamesStay ==
    ASSUME UNCHANGED stack, NEW d, NEW n, DataNames(d, n),
           \A p \in d : p[2] \in DOMAIN rsrc' => p[2] \in DOMAIN rsrc /\ rsrc'[p[2]].name = rsrc[p[2]].name
    PROVE  DataNames(d, n)'
  BY DEF DataNames

\* ... and the traversal goes on as planned.
LEMMA SoundRuns ==
    ASSUME NEW w \in Checking, NEW i, i = th[w].msg.id, Moves(w, i), Sound(w, i), Replacement(w),
           PointsAre, NEW current, CheckInv(current), None \notin DOMAIN rsrc, Running
    PROVE  Running'
<1> DEFINE g == stack.deps
<1>1. /\ UNCHANGED <<stack, sp, casts>> /\ DOMAIN rsrc' \subseteq DOMAIN rsrc
      /\ \A j \in DOMAIN rsrc' : /\ rsrc'[j].name = rsrc[j].name
                                 /\ rsrc'[j].replaced_by = rsrc[j].replaced_by
  BY DEF Moves, Apartly
<1>2. /\ ReplacesOK(th[w].rs) /\ Planned(g) /\ DOMAIN sp # {}
      /\ th[w].msg.upd => DataNames(th[w].msg.data, th[w].rs.name)
  BY DEF Running
<1>3. Planned(g)' /\ (th'[w].pc \in Checks => ReplacesOK(th[w].rs)')
  BY <1>2, SoundPlanned
<1>4. Points' = Points
  BY <1>1 DEF Points
<1>5. ASSUME NEW n \in DOMAIN Points', n \in g.nodes, n[2], n[1] \in DOMAIN rsrc'
      PROVE  DataNames(Points[n], rsrc[n[1]].name)'
  <2> DEFINE d == Points[n]
             q == rsrc[n[1]].name
  <2>1. d' = d /\ q' = q /\ DataNames(d, q)
    BY <1>1, <1>4, <1>5 DEF Running
  <2> QED
    BY <1>1, <2>1 DEF DataNames
<1>6. ASSUME NEW m \in Served', m.upd PROVE DataNames(m.data, rsrc[m.id].name)'
  <2> DEFINE q == rsrc[m.id].name
  <2>1. q' = q /\ DataNames(m.data, q)
    BY <1>1, <1>6 DEF Running, Served
  <2> QED
    BY <1>1, <2>1 DEF DataNames
<1>7. ASSUME NEW v \in Checking'
      PROVE  /\ th'[v].msg.upd => DataNames(th[v].msg.data, th[v].rs.name)'
             /\ ReplacesOK(th[v].rs)'
             /\ Replaces(th'[v]) /\ th'[v].msg.id \in DOMAIN rsrc' => rsrc'[th'[v].msg.id].replaced_by = None
  <2>1. v \in Checking /\ th'[v].msg = th[v].msg /\ th'[v].rs.name = th[v].rs.name
        /\ th'[v].rs.replaces = th[v].rs.replaces /\ (v # w => th'[v] = th[v])
    BY DEF Checking, Moves
  <2>2. th'[v].msg.upd => DataNames(th[v].msg.data, th[v].rs.name)'
    <3>1. th[v].msg.upd => DataNames(th[v].msg.data, th[v].rs.name)
      BY <2>1 DEF Running
    <3> QED
      BY <1>1, <2>1, <3>1 DEF DataNames
  <2>3. ReplacesOK(th[v].rs)'
    <3>1. ReplacesOK(th[v].rs)
      BY <2>1 DEF Running
    <3> QED
      BY <1>1, <2>1, <3>1 DEF ReplacesOK
  <2>4. Replaces(th'[v]) /\ th'[v].msg.id \in DOMAIN rsrc' => rsrc'[th'[v].msg.id].replaced_by = None
    <3>1. CASE v = w
      BY <1>1, <2>1, <3>1 DEF Sound
    <3>2. CASE v # w
      <4>1. Replaces(th[v]) /\ th[v].msg.id \in DOMAIN rsrc => rsrc[th[v].msg.id].replaced_by = None
        BY <2>1 DEF Running
      <4> QED
        BY <1>1, <2>1, <3>2, <4>1
    <3> QED
      BY <3>1, <3>2
  <2> QED
    BY <2>2, <2>3, <2>4
<1> QED
  BY <1>1, <1>2, <1>3, <1>5, <1>6, <1>7, Zenon DEF Running

\* While nobody launches an operation, and the one that runs goes on.
LEMMA RunningProceeds ==
    ASSUME RowsStay', Empties(stack'.action, stack'.tmpl), stack'.status = "IN_PROGRESS",
           \A v \in Threads : th'[v].pc \notin Launching, Running'
    PROVE  Proceeds'
  BY DEF Proceeds, Launching, Empties

\* The work on a resource keeps the invariant.
LEMMA WorkKeepsSmooth ==
    ASSUME Smooth, TravInv, LockInv, SeqInv, OrderInv, SmoothInv, stack.live, NEW w \in Threads,
           \/ AcquireRead(w) \/ Acquire(w) \/ BeginCreate(w) \/ BeginUpdate(w) \/ BeginCleanup(w)
           \/ HandlerDone(w) \/ (\E k \in {"fail", "timeout"} : HandlerFails(w, k))
           \/ Destroy(w) \/ Release(w) \/ TrySteal(w)
    PROVE  SmoothInv'
<1> DEFINE i == th[w].msg.id
<1>1. Untroubled' /\ GoalsOK'
  BY WorkUntroubled DEF SmoothInv
<1>2. \A k : ~HandlerFails(w, k)
  BY DEF HandlerFails, Fault, Smooth
<1>3. th[w].pc \in Checks
  <2>1. \/ At(w, "acquire") \/ At(w, "cas") \/ At(w, "begin") \/ At(w, "handler")
        \/ At(w, "destroy") \/ At(w, "release") \/ At(w, "in_progress")
    BY <1>2, Zenon DEF AcquireRead, Acquire, BeginCreate, BeginUpdate, BeginCleanup, HandlerDone,
                       Destroy, Release, TrySteal
  <2> QED
    BY <2>1 DEF At, Checks
<1>4. /\ stack.status = "IN_PROGRESS" /\ Running /\ Aware(w, i) /\ w \in Checking
      /\ \A v \in Threads : th[v].pc \notin Launching
  BY <1>3, CheckIsAware DEF Aware
<1> HIDE DEF i
<1>5. i = th[w].msg.id
  BY DEF i
<1>6. Moves(w, i) /\ Sound(w, i)
  <2>1. CASE AcquireRead(w) \/ TrySteal(w) \/ Acquire(w)
    BY <1>4, <1>5, <2>1, LookIsSound
  <2>2. CASE BeginCreate(w) \/ BeginUpdate(w) \/ BeginCleanup(w)
    BY <1>4, <1>5, <2>2, BeginIsSound
  <2>3. CASE HandlerDone(w)
    BY <1>4, <1>5, <2>3, HandlerIsSound
  <2>4. CASE Destroy(w)
    BY <1>4, <1>5, <2>4, DestroyIsSound
  <2>5. CASE Release(w)
    BY <1>4, <1>5, <2>5, ReleaseIsSound
  <2> QED
    BY <1>2, <2>1, <2>2, <2>3, <2>4, <2>5
<1>7. Replacement(w)
  <2>1. TypeOK
    BY DEF TravInv
  <2> QED
    BY <1>2, <2>1, WorkReplaces
<1>8. DOMAIN sp # {} /\ PointsAre
  BY <1>4, PointsOfGraph DEF Running
<1>9. None \notin DOMAIN rsrc
  BY DEF TravInv, TypeOK, Ids, None
<1>10. PICK current \in Currents : CheckInv(current)
  <2>1. Busy(th[w]) /\ th[w].pc \notin Launching
    BY <1>3 DEF Busy, Launching, Checks
  <2> QED
    BY <2>1, WhileChecking
<1>11. Running'
  BY <1>4, <1>5, <1>6, <1>7, <1>8, <1>9, <1>10, SoundRuns
<1>12. RowsStay'
  BY <1>4, <1>5, <1>6, SoundRowsStay
<1>13. /\ UNCHANGED stack /\ \A v \in Threads : th'[v].pc \notin Launching
  <2>1. /\ UNCHANGED stack /\ \A v \in Threads \ {w} : th'[v] = th[v]
        /\ th'[w].pc \notin Launching
    BY <1>6 DEF Moves, Apartly
  <2> QED
    BY <1>4, <2>1
<1>14. Empties(stack.action, stack.tmpl)
  BY DEF SmoothInv, Proceeds
<1>15. Proceeds'
  <2>1. Empties(stack'.action, stack'.tmpl) /\ stack'.status = "IN_PROGRESS"
    BY <1>4, <1>13, <1>14 DEF Empties
  <2> QED
    BY <1>11, <1>12, <1>13, <2>1, RunningProceeds
<1> QED
  BY <1>1, <1>15 DEF SmoothInv

\* What nothing has happened to stays as it is.
LEMMA SameStays ==
    ASSUME StackKept, UNCHANGED <<rsrc, phys>>
    PROVE  /\ Converged => Converged'
           /\ \A t : Even(t) => Even(t)'
           /\ sp' = sp /\ Planned(stack.deps) => Planned(stack.deps)'
           /\ \A d, n : DataNames(d, n) => DataNames(d, n)'
<1>1. stack'.tmpl = stack.tmpl /\ stack'.deps = stack.deps
  BY DEF StackKept
<1>2. \A t : Even(t) => Even(t)'
  BY DEF Even, RequiresOK
<1>3. Converged => Converged'
  BY <1>1, <1>2 DEF Converged
<1>4. \A d, n : DataNames(d, n) => DataNames(d, n)'
  BY <1>1 DEF DataNames
<1>5. ASSUME sp' = sp, Planned(stack.deps) PROVE Planned(stack.deps)'
  <2> DEFINE g == stack.deps
  <2>1. Grounded(g)'
    BY <1>1, <1>5 DEF Planned, Grounded
  <2>2. Done' = Done /\ \A j : Serving(j)' <=> Serving(j)
    BY <1>1, <1>5 DEF Done, Serving
  <2>3. UpdatesOK(g)'
    BY <1>1, <1>5, <2>2 DEF Planned, UpdatesOK
  <2>4. OursOK(g)'
    <3>1. OursOK(g)
      BY <1>5 DEF Planned
    <3>2. ASSUME NEW i \in DOMAIN rsrc', rsrc'[i].tmpl = stack'.tmpl
          PROVE  /\ rsrc'[i].name \in TmplNames[stack'.tmpl]
                 /\ rsrc'[i].action # "INIT" => RequiresOK(i, stack.tmpl)'
                 /\ \A j \in DOMAIN rsrc' : rsrc'[j].name = rsrc'[i].name =>
                       /\ rsrc'[j].tmpl = stack'.tmpl => i = j
                       /\ rsrc'[j].tmpl # stack'.tmpl /\ <<j, TRUE>> \in stack'.deps.nodes => rsrc'[j].replaced_by # None
      <4>1. rsrc'[i].action # "INIT" => RequiresOK(i, stack.tmpl)'
        BY <1>1, <3>1, <3>2, Zenon DEF OursOK, RequiresOK
      <4> QED
        BY <1>1, <3>1, <3>2, <4>1, Zenon DEF OursOK
    <3> QED
      BY <3>2, Zenon DEF OursOK
  <2>5. \A i \in DOMAIN rsrc : ReplacesOK(rsrc[i]) => ReplacesOK(rsrc[i])'
    BY <1>1 DEF ReplacesOK
  <2> QED
    BY <1>1, <1>5, <2>1, <2>3, <2>4, <2>5, Zenon DEF Planned
<1> QED
  BY <1>2, <1>3, <1>4, <1>5

\* A step that disturbs no check.
LEMMA QuietProceeds ==
    ASSUME Proceeds, NEW w \in Threads, QuietStep(w), th[w].pc \notin Checks,
           \A v \in Threads : th[v].pc \notin Launching,
           Empties(stack'.action, stack'.tmpl),
           stack'.status = "COMPLETE" => Converged /\ Checking = {} /\ Served = {},
           stack'.status = "IN_PROGRESS" => stack.status = "IN_PROGRESS" /\ sp' = sp
    PROVE  Proceeds'
<1>1. /\ StackKept /\ UNCHANGED <<rsrc, phys>> /\ casts' \subseteq casts
      /\ stack'.trav = stack.trav /\ stack'.deps = stack.deps
      /\ th'[w].pc \notin Checks \cup Launching /\ \A v \in Threads \ {w} : th'[v] = th[v]
  BY DEF QuietStep, StackKept
<1>2. /\ Checking' = Checking /\ Served' \subseteq Served
      /\ \A v \in Checking : v \in Threads /\ th'[v] = th[v]
  BY <1>1 DEF Checking, Served
<1>3. \A v \in Threads : th'[v].pc \notin Launching
  BY <1>1
<1>4. RowsStay'
  <2>1. RowsStay /\ {"handler", "destroy"} \subseteq Checks
    BY DEF Proceeds, Checks
  <2>2. \A v \in Threads : th[v].pc \in {"handler", "destroy"} => th'[v] = th[v]
    BY <1>1, <2>1
  <2>3. \A v \in Threads : th'[v].pc \in {"handler", "destroy"} => th'[v] = th[v]
    BY <1>1, <2>1
  <2>4. \A i \in DOMAIN rsrc : rsrc[i].action = "DELETE" =>
           \E v \in Threads : th'[v].pc \in {"handler", "destroy"} /\ th'[v].msg.id = i /\ ~th'[v].msg.upd
    BY <2>1, <2>2 DEF RowsStay
  <2> QED
    BY <1>1, <2>1, <2>3, <2>4 DEF RowsStay
<1>5. stack'.status = "COMPLETE" => Converged' /\ Checking' = {} /\ Served' = {}
  BY <1>1, <1>2, SameStays
<1>6. ASSUME stack'.status = "IN_PROGRESS" PROVE Running'
  <2>1. Running /\ sp' = sp
    BY <1>6 DEF Proceeds
  <2>2. Planned(stack.deps)' /\ \A d, n : DataNames(d, n) => DataNames(d, n)'
    BY <1>1, <2>1, SameStays DEF Running
  <2>3. Points' = Points
    BY <1>1, <2>1 DEF Points
  <2>4. \A v \in Checking : ReplacesOK(th[v].rs) => ReplacesOK(th[v].rs)'
    BY <1>1, <1>2 DEF ReplacesOK
  <2>5. ASSUME NEW n \in DOMAIN Points', n \in stack'.deps.nodes, n[2], n[1] \in DOMAIN rsrc'
        PROVE  DataNames(Points[n], rsrc[n[1]].name)'
    BY <1>1, <2>1, <2>3, <2>5 DEF Running, DataNames, StackKept
  <2>6. ASSUME NEW m \in Served', m.upd PROVE DataNames(m.data, rsrc[m.id].name)'
    BY <1>1, <1>2, <2>1, <2>6 DEF Running, DataNames, StackKept
  <2>7. ASSUME NEW v \in Checking'
        PROVE  /\ th'[v].msg.upd => DataNames(th[v].msg.data, th[v].rs.name)'
               /\ ReplacesOK(th[v].rs)'
               /\ Replaces(th'[v]) /\ th'[v].msg.id \in DOMAIN rsrc' => rsrc'[th'[v].msg.id].replaced_by = None
    <3>1. v \in Checking /\ th'[v] = th[v]
      BY <1>2
    <3>2. /\ th[v].msg.upd => DataNames(th[v].msg.data, th[v].rs.name)
          /\ ReplacesOK(th[v].rs)
          /\ Replaces(th[v]) /\ th[v].msg.id \in DOMAIN rsrc => rsrc[th[v].msg.id].replaced_by = None
      BY <2>1, <3>1 DEF Running
    <3>3. th[v].msg.upd => DataNames(th[v].msg.data, th[v].rs.name)'
      BY <1>1, <3>1, <3>2 DEF DataNames, StackKept
    <3> QED
      BY <1>1, <2>4, <3>1, <3>2, <3>3
  <2> QED
    BY <2>1, <2>2, <2>5, <2>6, <2>7, Zenon DEF Running
<1> QED
  BY <1>3, <1>4, <1>5, <1>6 DEF Proceeds, Launching, Empties

\* The end of a traversal, of which nothing fails.
EndsWithout(w) ==
    /\ \A i \in DOMAIN rsrc' : i \in DOMAIN rsrc /\ rsrc'[i] = rsrc[i]
    /\ stack'.tmpl = stack.tmpl /\ stack'.action = stack.action
    /\ \/ Gone(w)
       \/ \E pc, st : /\ Becomes(w, pc, st, th[w].rs, th[w].out)
                       /\ pc \in {"purge", "purge_points"} /\ st.status = "COMPLETE"
    /\ \/ th[w].pc = "complete" /\ sp' = sp /\ stack'.status \in {stack.status, "COMPLETE"}
       \/ th[w].pc = "retrigger" /\ UNCHANGED <<sp, stack>>
       \/ th[w].pc \in {"purge", "purge_points"} /\ stack'.status = "COMPLETE" /\ stack.status = "COMPLETE"

\* That is what the steps after the last report do.
LEMMA EndsAre ==
    ASSUME TravInv, SeqInv, Untroubled, NEW w \in Threads,
           MarkComplete(w) \/ PurgeTemplate(w) \/ PurgeSyncPoints(w) \/ Retrigger(w)
    PROVE  EndsWithout(w)
<1>1. ASSUME th[w].pc \in EndPcs
      PROVE  /\ TypeOK /\ th[w].st.trav = stack.trav /\ th[w].st.action = stack.action
             /\ th[w].st.tmpl = stack.tmpl /\ th[w].st \in Stacks /\ stack \in Stacks
             /\ th[w].pc \in {"purge", "purge_points"} =>
                   th[w].st.status = "COMPLETE" /\ stack.status = "COMPLETE"
  <2>1. /\ TypeOK /\ th[w].st.trav = stack.trav /\ th[w].st.tmpl = stack.tmpl
        /\ th[w].st \in Stacks /\ stack \in Stacks
    BY <1>1, EndFacts
  <2>2. OneAction(th[w], stack) /\ EndIsStored(th[w], stack)
    BY DEF TravInv, ThreadOK
  <2>3. th[w].st.action = stack.action
    BY <2>1, <2>2 DEF OneAction
  <2>4. th[w].st.status \in Statuses /\ stack.status \in Statuses
    BY <2>1 DEF Stacks
  <2>5. th[w].st.status # "FAILED" /\ stack.status # "FAILED"
    BY DEF Untroubled
  <2> QED
    BY <2>1, <2>2, <2>3, <2>4, <2>5 DEF EndIsStored, Statuses
<1>2. CASE MarkComplete(w)
  <2> DEFINE st == [th[w].st EXCEPT !.status = "COMPLETE"]
  <2>1. /\ th[w].pc = "complete" /\ UNCHANGED <<rsrc, sp>> /\ StateSet(st)
        /\ \/ th' = [th EXCEPT ![w].st = st, ![w].pc = "purge"]
           \/ Return(w)
    BY <1>2, Zenon DEF MarkComplete, At
  <2>2. /\ TypeOK /\ th[w].st.trav = stack.trav /\ th[w].st.action = stack.action
        /\ th[w].st \in Stacks /\ stack \in Stacks
    BY <1>1, <2>1 DEF EndPcs
  <2>3. st.trav = stack.trav /\ st.action = stack.action /\ st.status = "COMPLETE"
    BY <2>2 DEF Stacks
  <2> HIDE DEF st
  <2>4. /\ stack'.tmpl = stack.tmpl /\ stack'.action = stack.action
        /\ stack'.status \in {stack.status, "COMPLETE"}
    BY <2>1, <2>2, <2>3 DEF StateSet, Stacks
  <2>5. Gone(w) \/ Becomes(w, "purge", st, th[w].rs, th[w].out)
    BY <2>1, <2>2, Forms, Zenon
  <2> QED
    BY <2>1, <2>3, <2>4, <2>5 DEF EndsWithout
<1>3. CASE PurgeTemplate(w)
  <2> DEFINE st == [th[w].st EXCEPT !.prev = None]
  <2>1. /\ th[w].pc = "purge" /\ UNCHANGED rsrc
        /\ UNCHANGED stack \/ Store(st, th[w].st.trav)
        /\ Return(w) \/ Goto(w, "purge_points")
    BY <1>3, Zenon DEF PurgeTemplate, At
  <2>2. /\ TypeOK /\ th[w].st.action = stack.action /\ th[w].st.tmpl = stack.tmpl
        /\ th[w].st \in Stacks /\ th[w].st.status = "COMPLETE" /\ stack.status = "COMPLETE"
    BY <1>1, <2>1 DEF EndPcs
  <2>3. st.tmpl = stack.tmpl /\ st.action = stack.action /\ st.status = "COMPLETE"
    BY <2>2 DEF Stacks
  <2> HIDE DEF st
  <2>4. stack'.tmpl = stack.tmpl /\ stack'.action = stack.action /\ stack'.status = "COMPLETE"
    BY <2>1, <2>2, <2>3 DEF Store
  <2>5. Gone(w) \/ Becomes(w, "purge_points", th[w].st, th[w].rs, th[w].out)
    BY <2>1, <2>2, Forms, Zenon
  <2> QED
    BY <2>1, <2>2, <2>4, <2>5 DEF EndsWithout
<1>4. CASE PurgeSyncPoints(w)
  <2>1. /\ th[w].pc = "purge_points" /\ Return(w)
        /\ stack' = [stack EXCEPT !.live = FALSE] \/ UNCHANGED stack
        /\ rsrc' = rsrc \/ rsrc' = << >>
    BY <1>4 DEF PurgeSyncPoints, At
  <2>2. TypeOK /\ stack \in Stacks /\ stack.status = "COMPLETE"
    BY <1>1, <2>1 DEF EndPcs
  <2>3. stack'.tmpl = stack.tmpl /\ stack'.action = stack.action /\ stack'.status = stack.status
    BY <2>1, <2>2 DEF Stacks
  <2>4. Gone(w)
    BY <2>1, <2>2, Forms, Zenon
  <2>5. \A i \in DOMAIN rsrc' : i \in DOMAIN rsrc /\ rsrc'[i] = rsrc[i]
    <3>1. DOMAIN << >> = {}
      OBVIOUS
    <3> QED
      BY <2>1, <3>1
  <2> QED
    BY <2>1, <2>2, <2>3, <2>4, <2>5 DEF EndsWithout
<1>5. CASE Retrigger(w)
  <2>1. th[w].pc = "retrigger" /\ UNCHANGED <<stack, rsrc>> /\ Return(w)
    BY <1>5, Zenon DEF Retrigger, At
  <2>2. stack.trav = th[w].msg.trav /\ TypeOK
    BY <2>1 DEF SeqInv, Serves, TravInv
  <2>3. sp' = sp
    BY <1>5, <2>2 DEF Retrigger
  <2>4. Gone(w)
    BY <2>1, <2>2, Forms, Zenon
  <2> QED
    BY <2>1, <2>3, <2>4 DEF EndsWithout
<1> QED
  BY <1>2, <1>3, <1>4, <1>5

\* In them nothing fails.
LEMMA EndUntroubled ==
    ASSUME Untroubled, GoalsOK, NEW w \in Threads, EndsWithout(w)
    PROVE  Untroubled' /\ GoalsOK'
<1>1. stack'.status # "FAILED" /\ \A i \in DOMAIN rsrc' : rsrc'[i].status # "FAILED"
  BY DEF Untroubled, EndsWithout
<1>2. CASE Gone(w)
  <2>1. /\ \A v \in Threads \ {w} : th'[v] = th[v]
        /\ th'[w].pc \notin {"store1", "fail", "reload"} \cup Checks /\ th'[w].st.status # "FAILED"
    BY <1>2 DEF Gone, Returned, NoStack, Checks
  <2> QED
    BY <1>1, <2>1, NothingFails
<1>3. CASE \E pc, st : /\ Becomes(w, pc, st, th[w].rs, th[w].out)
                       /\ pc \in {"purge", "purge_points"} /\ st.status = "COMPLETE"
  <2>1. /\ \A v \in Threads \ {w} : th'[v] = th[v]
        /\ th'[w].pc \notin {"store1", "fail", "reload"} \cup Checks /\ th'[w].st.status # "FAILED"
    BY <1>3 DEF Becomes, Checks
  <2> QED
    BY <1>1, <2>1, NothingFails
<1> QED
  BY <1>2, <1>3 DEF EndsWithout

\* All nodes have reported when the roots have.
LEMMA RootsAreLast ==
    ASSUME NEW current, CheckInv(current), PointsAre, DOMAIN sp # {}, Grounded(stack.deps),
           stack.deps.edges \subseteq stack.deps.nodes \X stack.deps.nodes,
           Earned(stack, sp)
    PROVE  stack.deps.nodes \subseteq Done
<1> DEFINE g == stack.deps
           S == g.nodes \ Done
<1> SUFFICES ASSUME S # {} PROVE FALSE
  OBVIOUS
<1>1. PICK k \in S : \A d \in S : <<d, k>> \notin g.edges
  BY Zenon DEF Grounded
<1>2. roots(g) \subseteq senders(Points[StackNode])
  BY <1>1 DEF Earned, Points
<1>3. CASE required_by(g, k) = {}
  <2>1. k \in roots(g)
    BY <1>3 DEF roots
  <2> QED
    BY <1>2, <2>1, DoneIs
<1>4. CASE required_by(g, k) # {}
  <2>1. PICK e \in g.edges : e[2] = k
    BY <1>4 DEF required_by
  <2> DEFINE d == e[1]
  <2>2. e = <<d, k>> /\ d \in g.nodes
    BY <2>1
  <2>3. d \in Done
    BY <1>1, <2>1, <2>2
  <2>4. PICK n \in g.nodes \cup {StackNode} : d \in senders(Points[n])
    BY <2>3, DoneIs
  <2>5. Ready(d)
    BY <2>4 DEF CheckInv, PointsOK, PointsAre
  <2>6. k \in graphPreds(g, d)
    BY <2>1 DEF graphPreds
  <2>7. k \in senders(Points[d])
    BY <2>5, <2>6 DEF Ready
  <2> QED
    BY <2>2, <2>7, DoneIs
<1> QED
  BY <1>3, <1>4

\* When all nodes have reported the stack is what its template says.
LEMMA AllDoneIsConverged ==
    ASSUME TravInv, NEW current, CheckInv(current), PointsAre, DOMAIN sp # {}, Running, RowsStay,
           stack.deps.nodes \subseteq Done
    PROVE  Converged /\ Checking = {} /\ Served = {}
<1> DEFINE g == stack.deps
           t == stack.tmpl
<1>1. Tokens = {}
  <2> SUFFICES ASSUME NEW x \in Tokens PROVE FALSE
    OBVIOUS
  <2>1. x.key \in g.nodes /\ \A n \in DOMAIN Points : x.key \notin senders(Points[n])
    BY Zenon DEF CheckInv, TokenOK
  <2> QED
    BY <2>1, DoneIs DEF PointsAre
<1>2. Checking = {} /\ Served = {}
  BY <1>1, TokensAre, Zenon
<1>3. UpdatesOK(g) /\ OursOK(g) /\ \A i \in DOMAIN rsrc : /\ rsrc[i].tmpl # t => <<i, FALSE>> \in g.nodes
                                                          /\ ReplacesOK(rsrc[i])
  BY Zenon DEF Running, Planned
<1>4. ASSUME NEW n \in TmplNames[t] PROVE \E i \in DOMAIN rsrc : Serving(i) /\ rsrc[i].name = n
  BY <1>3 DEF UpdatesOK
<1>5. ASSUME NEW i \in DOMAIN rsrc PROVE rsrc[i].tmpl = t
  <2> SUFFICES ASSUME rsrc[i].tmpl # t PROVE FALSE
    OBVIOUS
  <2>1. <<i, FALSE>> \in Done
    BY <1>3, Zenon
  <2>2. PICK n \in g.nodes \cup {StackNode} : <<i, FALSE>> \in senders(Points[n])
    BY <2>1, DoneIs
  <2>3. ~<<i, FALSE>>[2] => Cleaned(<<i, FALSE>>[1])
    BY <2>2, Zenon DEF CheckInv, PointsOK, PointsAre
  <2>4. Cleaned(i)
    BY <2>3
  <2> QED
    BY <2>4 DEF Cleaned
<1>6. ASSUME NEW i \in DOMAIN rsrc
      PROVE  /\ Serving(i) /\ rsrc[i].name \in TmplNames[t]
             /\ \A j \in DOMAIN rsrc : rsrc[j].name = rsrc[i].name => i = j
             /\ RequiresOK(i, t)
  <2>1. /\ rsrc[i].name \in TmplNames[t] /\ (rsrc[i].action # "INIT" => RequiresOK(i, t))
        /\ \A j \in DOMAIN rsrc : rsrc[j].name = rsrc[i].name => i = j
    BY <1>3, <1>5, Zenon DEF OursOK
  <2>2. PICK j \in DOMAIN rsrc : Serving(j) /\ rsrc[j].name = rsrc[i].name
    BY <1>4, <2>1
  <2>3. Serving(i)
    BY <2>1, <2>2
  <2> QED
    BY <2>1, <2>3 DEF Serving
<1>7. ASSUME NEW i \in DOMAIN rsrc
      PROVE  /\ rsrc[i].tmpl = t /\ rsrc[i].status = "COMPLETE" /\ i \in phys
             /\ rsrc[i].action \in {"CREATE", "UPDATE"} /\ rsrc[i].name \in TmplNames[t]
             /\ rsrc[i].replaces \notin DOMAIN rsrc /\ RequiresOK(i, t)
  <2>1. Serving(i) /\ rsrc[i].name \in TmplNames[t] /\ RequiresOK(i, t)
    BY <1>6
  <2>2. rsrc[i].tmpl = t /\ rsrc[i].status = "COMPLETE" /\ i \in phys /\ rsrc[i].action # "INIT"
    BY <2>1 DEF Serving
  <2>3. rsrc[i].action # "DELETE"
    BY <1>2 DEF RowsStay, Checking, Checks
  <2>4. rsrc[i].action \in {"CREATE", "UPDATE"}
    <3>1. rsrc[i].action \in Actions \ {"ROLLBACK"}
      BY DEF TravInv, TypeOK, Rows
    <3> QED
      BY <2>2, <2>3, <3>1 DEF Actions
  <2>5. rsrc[i].replaces \notin DOMAIN rsrc
    <3> DEFINE r == rsrc[i].replaces
    <3> SUFFICES ASSUME r \in DOMAIN rsrc PROVE FALSE
      OBVIOUS
    <3>1. rsrc[r].replaced_by # None
      BY <1>3, Zenon DEF ReplacesOK
    <3>2. rsrc[r].tmpl # t
      BY <3>1, Zenon DEF CheckInv, ClaimOK
    <3> QED
      BY <1>5, <3>2
  <2> QED
    BY <2>1, <2>2, <2>4, <2>5
<1>8. Even(t)
  BY <1>6, <1>7 DEF Even
<1> QED
  BY <1>2, <1>4, <1>8 DEF Converged

\* The stack is completed.
LEMMA EndKeepsSmooth ==
    ASSUME TravInv, SeqInv, OrderInv, SmoothInv, stack.live, stack'.live, NEW w \in Threads,
           MarkComplete(w) \/ PurgeTemplate(w) \/ PurgeSyncPoints(w) \/ Retrigger(w)
    PROVE  SmoothInv'
<1>1. Untroubled /\ GoalsOK /\ Proceeds
  BY DEF SmoothInv
<1>2. EndsWithout(w)
  BY <1>1, EndsAre
<1>3. Untroubled' /\ GoalsOK'
  BY <1>1, <1>2, EndUntroubled
<1>4. th[w].pc \in EndPcs /\ QuietStep(w)
  BY EndsQuietly
<1>5. /\ Busy(th[w]) /\ th[w].pc \notin Launching \cup Checks /\ th[w].st.trav = stack.trav
      /\ stack.status \in Statuses
  <2>1. stack \in Stacks /\ th[w].st.trav = stack.trav
    BY <1>4, EndFacts
  <2> QED
    BY <1>4, <2>1 DEF Stacks, Busy, Launching, Checks, EndPcs
<1>6. \A v \in Threads : th[v].pc \notin Launching
  BY <1>5, NobodyLaunches
<1>7. Empties(stack'.action, stack'.tmpl)
  BY <1>1, <1>2 DEF EndsWithout, Empties, Proceeds
<1>8. ASSUME stack'.status = "COMPLETE" PROVE Converged /\ Checking = {} /\ Served = {}
  <2>1. CASE stack.status = "COMPLETE"
    BY <1>1, <2>1 DEF Proceeds
  <2>2. CASE stack.status # "COMPLETE"
    <3>1. stack.status = "IN_PROGRESS"
      BY <1>1, <1>5, <2>2 DEF Statuses, Untroubled
    <3>2. th[w].pc = "complete"
      BY <1>2, <1>8, <2>2 DEF EndsWithout
    <3>3. Running /\ RowsStay
      BY <1>1, <1>6, <3>1 DEF Proceeds
    <3>4. DOMAIN sp # {} /\ PointsAre /\ Grounded(stack.deps)
      BY <3>3, PointsOfGraph DEF Running, Planned
    <3>5. PICK current \in Currents : CheckInv(current)
      BY <1>5, WhileChecking
    <3>6. Earned(stack, sp)
      BY <1>5, <3>1, <3>2 DEF TravInv, ThreadOK, HasEarned
    <3>7. stack.deps.edges \subseteq stack.deps.nodes \X stack.deps.nodes
      BY DEF TravInv, TypeOK, Stacks, Graphs
    <3>8. stack.deps.nodes \subseteq Done
      BY <3>4, <3>5, <3>6, <3>7, RootsAreLast
    <3> QED
      BY <3>3, <3>4, <3>5, <3>8, AllDoneIsConverged
  <2> QED
    BY <2>1, <2>2
<1>9. ASSUME stack'.status = "IN_PROGRESS" PROVE stack.status = "IN_PROGRESS" /\ sp' = sp
  BY <1>2, <1>9 DEF EndsWithout
<1>10. Proceeds'
  BY <1>1, <1>4, <1>5, <1>6, <1>7, <1>8, <1>9, QuietProceeds
<1> QED
  BY <1>3, <1>10 DEF SmoothInv

\* A check begins.
LEMMA ReceiveKeepsSmooth ==
    ASSUME TravInv, SeqInv, OrderInv, SmoothInv, NEW w \in Threads, NEW m, Receive(w, m)
    PROVE  SmoothInv'
<1>1. Untroubled /\ GoalsOK /\ (stack.live => Proceeds) /\ TypeOK
  BY DEF SmoothInv, TravInv
<1>2. /\ th[w].pc = "idle" /\ m \in casts /\ casts' = casts \ {m}
      /\ UNCHANGED <<stack, rsrc, nextId, nextTrav, sp, phys, dead>>
      /\ \/ Gone(w)
         \/ (\A v \in Threads \ {w} : th'[v] = th[v]) /\ stack.live /\ TakesUp(w, m)
  BY <1>1, ReceiveDoes
<1>3. \A v \in Threads : th[v].pc \notin Launching
  BY <1>2 DEF SeqInv, LaunchAlone
<1>4. StackKept /\ PointsKept /\ th[w].pc \notin Checks
  BY <1>2 DEF StackKept, PointsKept, Checks
<1>5. stack'.status # "FAILED" /\ \A i \in DOMAIN rsrc' : rsrc'[i].status # "FAILED"
  BY <1>1, <1>2 DEF Untroubled
<1>6. CASE Gone(w)
  <2>1. /\ \A v \in Threads \ {w} : th'[v] = th[v]
        /\ th'[w].pc \notin {"store1", "fail", "reload"} \cup Checks /\ th'[w].st.status # "FAILED"
    BY <1>6 DEF Gone, Returned, NoStack, Checks
  <2>2. Untroubled' /\ GoalsOK'
    BY <1>1, <1>5, <2>1, NothingFails
  <2>3. ASSUME stack.live PROVE Proceeds'
    <3>1. QuietStep(w)
      BY <1>2, <1>4, <1>6, GoneIsQuiet DEF QuietStep
    <3>2. Proceeds /\ Empties(stack'.action, stack'.tmpl)
      BY <1>1, <1>2, <2>3 DEF Proceeds, Empties
    <3> QED
      BY <1>2, <1>3, <1>4, <3>1, <3>2, QuietProceeds DEF Proceeds
  <2> QED
    BY <1>2, <2>2, <2>3 DEF SmoothInv
<1>7. CASE (\A v \in Threads \ {w} : th'[v] = th[v]) /\ stack.live /\ TakesUp(w, m)
  <2>1. /\ m.id \in DOMAIN rsrc /\ th'[w].pc = "acquire" /\ th'[w].msg = m
        /\ th'[w].rs = rsrc[m.id] /\ th'[w].st = stack /\ th'[w].out = "none"
    BY <1>7 DEF TakesUp
  <2>2. Untroubled' /\ GoalsOK'
    <3>1. th'[w].st.status # "FAILED" /\ th'[w].rs.status # "FAILED"
      BY <1>1, <2>1 DEF Untroubled
    <3> QED
      BY <1>1, <1>5, <1>7, <2>1, <3>1, NothingFails
  <2>3. Proceeds /\ m \in Served
    BY <1>1, <1>2, <1>7, <2>1 DEF Served
  <2>4. stack.status = "IN_PROGRESS"
    <3>1. stack.status \in Statuses
      BY <1>1 DEF TypeOK, Stacks
    <3> QED
      BY <1>1, <2>3, <3>1 DEF Statuses, Untroubled, Proceeds
  <2>5. Running /\ RowsStay
    BY <1>3, <2>3, <2>4 DEF Proceeds
  <2>6. /\ Served' \subseteq Served /\ Checking' = Checking \cup {w} /\ w \notin Checking
        /\ \A v \in Checking : th'[v] = th[v]
    BY <1>2, <1>4, <1>7, <2>1 DEF Served, Checking, Checks
  <2>7. \A v \in Threads : th'[v].pc \notin Launching
    BY <1>3, <1>7, <2>1 DEF Launching
  <2>8. RowsStay'
    <3>1. \A v \in Threads : th[v].pc \in {"handler", "destroy"} => th'[v] = th[v]
      BY <1>2, <1>7
    <3>2. \A v \in Threads : th'[v].pc \in {"handler", "destroy"} => th'[v] = th[v]
      BY <1>7, <2>1
    <3>3. \A i \in DOMAIN rsrc : rsrc[i].action = "DELETE" =>
             \E v \in Threads : th'[v].pc \in {"handler", "destroy"} /\ th'[v].msg.id = i /\ ~th'[v].msg.upd
      BY <2>5, <3>1 DEF RowsStay
    <3> QED
      BY <1>2, <2>5, <3>2, <3>3 DEF RowsStay
  <2>9. Planned(stack.deps)' /\ Points' = Points
    BY <1>2, <1>4, <2>5, SameStays DEF Running, Points
  <2>10. ASSUME NEW n \in DOMAIN Points', n \in stack'.deps.nodes, n[2], n[1] \in DOMAIN rsrc'
         PROVE  DataNames(Points[n], rsrc[n[1]].name)'
    BY <1>2, <2>5, <2>9, <2>10 DEF Running, DataNames
  <2>11. ASSUME NEW c \in Served', c.upd PROVE DataNames(c.data, rsrc[c.id].name)'
    BY <1>2, <2>5, <2>6, <2>11 DEF Running, DataNames
  <2>12. ASSUME NEW v \in Checking'
         PROVE  /\ th'[v].msg.upd => DataNames(th[v].msg.data, th[v].rs.name)'
                /\ ReplacesOK(th[v].rs)'
                /\ Replaces(th'[v]) /\ th'[v].msg.id \in DOMAIN rsrc' => rsrc'[th'[v].msg.id].replaced_by = None
    <3>1. CASE v = w
      <4>1. m.upd => DataNames(m.data, rsrc[m.id].name)
        BY <2>3, <2>5 DEF Running
      <4>2. th'[w].msg.upd => DataNames(th[w].msg.data, th[w].rs.name)'
        BY <1>2, <2>1, <4>1 DEF DataNames
      <4>3. ReplacesOK(rsrc[m.id])
        BY <2>1, <2>5, Zenon DEF Running, Planned
      <4>4. ReplacesOK(th[w].rs)'
        BY <1>2, <2>1, <4>3 DEF ReplacesOK
      <4> QED
        BY <2>1, <3>1, <4>2, <4>4 DEF Replaces
    <3>2. CASE v # w
      <4>1. v \in Checking /\ th'[v] = th[v]
        BY <2>6, <3>2
      <4>2. /\ th[v].msg.upd => DataNames(th[v].msg.data, th[v].rs.name)
            /\ ReplacesOK(th[v].rs)
            /\ Replaces(th[v]) /\ th[v].msg.id \in DOMAIN rsrc => rsrc[th[v].msg.id].replaced_by = None
        BY <2>5, <4>1 DEF Running
      <4>3. th[v].msg.upd => DataNames(th[v].msg.data, th[v].rs.name)'
        BY <1>2, <4>1, <4>2 DEF DataNames
      <4>4. ReplacesOK(th[v].rs)'
        BY <1>2, <4>1, <4>2 DEF ReplacesOK
      <4> QED
        BY <1>2, <4>1, <4>2, <4>3, <4>4
    <3> QED
      BY <3>1, <3>2
  <2>13. DOMAIN sp' # {}
    BY <1>2, <2>5 DEF Running
  <2>14. Running'
    BY <2>9, <2>10, <2>11, <2>12, <2>13, Zenon DEF Running
  <2>15. Empties(stack'.action, stack'.tmpl) /\ stack'.status = "IN_PROGRESS"
    BY <1>2, <2>3, <2>4 DEF Proceeds, Empties
  <2>16. Proceeds'
    BY <2>7, <2>8, <2>14, <2>15, RunningProceeds
  <2> QED
    BY <2>2, <2>16 DEF SmoothInv
<1> QED
  BY <1>2, <1>6, <1>7

-----------------------------------------------------------------------------
(* A check hands over, and reports, when nothing fails.                      *)

\* The ids that rows, checks and reports refer to have been handed out.
KnownRefs ==
    /\ \A j \in DOMAIN rsrc : j \in Ids /\ rsrc[j].replaces \in Ids \cup {None} /\ rsrc[j].requires \subseteq Ids
    /\ \A v \in Checking : /\ th[v].msg.id \in Ids /\ th[v].rs.replaces \in Ids \cup {None}
                           /\ \A p \in th[v].msg.data : p[2] \in Ids \cup {None}
    /\ \A m \in casts : m.id \in Ids /\ \A p \in m.data : p[2] \in Ids \cup {None}
    /\ \A n \in stack.deps.nodes : n[1] \in Ids
    /\ \A e \in stack.deps.edges : e[1] \in stack.deps.nodes /\ e[2] \in stack.deps.nodes
    /\ PointsAre => \A n \in DOMAIN Points : \A p \in Points[n] : p[2] \in Ids \cup {None}

\* They have types.
LEMMA RefsAreKnown ==
    ASSUME TypeOK
    PROVE  KnownRefs
<1>1. \A d \in Data : \A p \in d : p[2] \in Ids \cup {None}
  BY DEF Data
<1>2. \A j \in DOMAIN rsrc : j \in Ids /\ rsrc[j].replaces \in Ids \cup {None} /\ rsrc[j].requires \subseteq Ids
  <2> SUFFICES ASSUME NEW j \in DOMAIN rsrc
               PROVE  j \in Ids /\ rsrc[j].replaces \in Ids \cup {None} /\ rsrc[j].requires \subseteq Ids
    OBVIOUS
  <2>1. rsrc[j] \in Rows /\ j \in Ids
    BY DEF TypeOK
  <2> QED
    BY <2>1 DEF Rows
<1>3. ASSUME NEW v \in Checking
      PROVE  /\ th[v].msg.id \in Ids /\ th[v].rs.replaces \in Ids \cup {None}
             /\ \A p \in th[v].msg.data : p[2] \in Ids \cup {None}
  <2>1. th[v].msg \in Msgs /\ th[v].rs \in Rows
    BY ThreadFields DEF Checking
  <2>2. th[v].msg.data \in Data /\ th[v].msg.id \in Ids /\ th[v].rs.replaces \in Ids \cup {None}
    BY <2>1 DEF Msgs, Rows
  <2> QED
    BY <1>1, <2>2
<1>4. ASSUME NEW m \in casts PROVE m.id \in Ids /\ \A p \in m.data : p[2] \in Ids \cup {None}
  <2>1. m.data \in Data /\ m.id \in Ids
    BY DEF TypeOK, Msgs
  <2> QED
    BY <1>1, <2>1
<1>5. /\ \A n \in stack.deps.nodes : n[1] \in Ids
      /\ \A e \in stack.deps.edges : e[1] \in stack.deps.nodes /\ e[2] \in stack.deps.nodes
  BY NodesAre
<1>6. ASSUME PointsAre, NEW n \in DOMAIN Points PROVE \A p \in Points[n] : p[2] \in Ids \cup {None}
  <2>1. Points[n] \in Data
    BY <1>6 DEF TypeOK, PointsAre, Points
  <2> QED
    BY <1>1, <2>1
<1> QED
  BY <1>2, <1>3, <1>4, <1>5, <1>6 DEF KnownRefs

\* The rows, when one has been replaced.
LEMMA ReplacedOurs ==
    ASSUME TypeOK, NEW w \in Checking, NEW i, NEW k, NEW m, Replaced(w, i, k, m),
           NEW current, CheckInv(current), Planned(stack.deps),
           rsrc[i].name = th[w].rs.name, rsrc[i].replaced_by = None
    PROVE  OursOK(stack.deps)'
<1> DEFINE t == stack.tmpl
           g == stack.deps
<1>1. /\ UNCHANGED stack /\ DOMAIN rsrc' = DOMAIN rsrc \cup {k} /\ k \notin DOMAIN rsrc /\ k # None
      /\ i \in DOMAIN rsrc /\ rsrc[i].tmpl # t /\ <<i, TRUE>> \in g.nodes
      /\ rsrc'[k].name = rsrc[i].name /\ rsrc'[k].action = "INIT" /\ rsrc'[k].tmpl = t
      /\ rsrc'[i].replaced_by = k /\ k \notin Ids
      /\ \A j \in DOMAIN rsrc \ {i} : rsrc'[j] = rsrc[j]
      /\ \A j \in DOMAIN rsrc : /\ rsrc'[j].name = rsrc[j].name /\ rsrc'[j].tmpl = rsrc[j].tmpl
                                /\ rsrc'[j].action = rsrc[j].action /\ rsrc'[j].requires = rsrc[j].requires
                                /\ rsrc[j].replaced_by # None => rsrc'[j].replaced_by # None
  BY DEF Replaced
<1>2. KnownRefs
  BY RefsAreKnown
<1>3. OursOK(g)
  BY DEF Planned
<1>4. /\ rsrc[i].name \in TmplNames[t]
      /\ \A j \in DOMAIN rsrc : rsrc[j].name = rsrc[i].name /\ <<j, TRUE>> \in g.nodes => i = j
  BY <1>1, NamesInGraph, Zenon
<1>5. \A j \in DOMAIN rsrc : rsrc[j].name = rsrc[i].name => rsrc[j].tmpl # t
  BY <1>1, <1>3, Zenon DEF OursOK
<1>6. <<k, TRUE>> \notin g.nodes
  BY <1>1, <1>2 DEF KnownRefs
<1>7. ASSUME NEW a \in DOMAIN rsrc', rsrc'[a].tmpl = t
      PROVE  /\ rsrc'[a].name \in TmplNames[t]
             /\ rsrc'[a].action # "INIT" => RequiresOK(a, t)'
             /\ \A j \in DOMAIN rsrc' : rsrc'[j].name = rsrc'[a].name =>
                   /\ rsrc'[j].tmpl = t => a = j
                   /\ rsrc'[j].tmpl # t /\ <<j, TRUE>> \in g.nodes => rsrc'[j].replaced_by # None
  <2>1. CASE a = k
    <3>1. rsrc'[a].name = rsrc[i].name /\ rsrc'[a].action = "INIT"
      BY <1>1, <2>1
    <3>2. ASSUME NEW j \in DOMAIN rsrc', rsrc'[j].name = rsrc'[a].name, j # k
          PROVE  rsrc'[j].tmpl # t /\ (<<j, TRUE>> \in g.nodes => rsrc'[j].replaced_by # None)
      <4>1. j \in DOMAIN rsrc /\ rsrc[j].name = rsrc[i].name /\ rsrc'[j].tmpl = rsrc[j].tmpl
        BY <1>1, <3>1, <3>2
      <4>2. <<j, TRUE>> \in g.nodes => j = i
        BY <1>4, <4>1, Zenon
      <4> QED
        BY <1>1, <1>5, <4>1, <4>2
    <3> QED
      BY <1>1, <1>4, <2>1, <3>1, <3>2, Zenon
  <2>2. CASE a # k
    <3>1. a \in DOMAIN rsrc /\ rsrc[a].tmpl = t /\ rsrc[a].name # rsrc[i].name
      BY <1>1, <1>5, <1>7, <2>2
    <3>2. rsrc'[a].action # "INIT" => RequiresOK(a, t)'
      <4>1. rsrc[a].requires \subseteq Ids
        BY <1>2, <3>1 DEF KnownRefs
      <4>2. rsrc[a].action # "INIT" => RequiresOK(a, t)
        BY <1>3, <3>1, Zenon DEF OursOK
      <4> QED
        BY <1>1, <3>1, <4>1, <4>2 DEF RequiresOK
    <3>3. ASSUME NEW j \in DOMAIN rsrc', rsrc'[j].name = rsrc'[a].name
          PROVE  /\ rsrc'[j].tmpl = t => a = j
                 /\ rsrc'[j].tmpl # t /\ <<j, TRUE>> \in g.nodes => rsrc'[j].replaced_by # None
      <4>1. rsrc'[a].name = rsrc[a].name
        BY <1>1, <3>1
      <4>2. j \in DOMAIN rsrc /\ rsrc[j].name = rsrc[a].name /\ rsrc'[j].tmpl = rsrc[j].tmpl
        BY <1>1, <3>1, <3>3, <4>1
      <4> QED
        BY <1>1, <1>3, <3>1, <4>2, Zenon DEF OursOK
    <3>4. rsrc'[a].name \in TmplNames[t]
      BY <1>1, <1>3, <3>1, Zenon DEF OursOK
    <3> QED
      BY <3>2, <3>3, <3>4, Zenon
  <2> QED
    BY <2>1, <2>2, Zenon
<1> QED
  BY <1>1, <1>7, Zenon DEF OursOK

\* The traversal goes on with the replacement.
LEMMA ReplacedIsPlanned ==
    ASSUME TypeOK, NEW w \in Checking, NEW i, NEW k, NEW m, Replaced(w, i, k, m),
           NEW current, CheckInv(current), Planned(stack.deps),
           rsrc[i].name = th[w].rs.name, rsrc[i].replaced_by = None
    PROVE  Planned(stack.deps)'
<1> DEFINE t == stack.tmpl
           g == stack.deps
<1>1. /\ UNCHANGED <<stack, sp>> /\ DOMAIN rsrc' = DOMAIN rsrc \cup {k} /\ k # None /\ k \notin Ids
      /\ i \in DOMAIN rsrc /\ rsrc'[k].tmpl = t /\ rsrc'[k].replaces = i /\ rsrc'[i].replaced_by = k
      /\ \A j \in DOMAIN rsrc : /\ rsrc'[j].name = rsrc[j].name /\ rsrc'[j].tmpl = rsrc[j].tmpl
                                /\ rsrc'[j].replaces = rsrc[j].replaces
                                /\ rsrc[j].replaced_by # None => rsrc'[j].replaced_by # None
  BY DEF Replaced
<1>2. KnownRefs
  BY RefsAreKnown
<1>3. OursOK(g)'
  BY ReplacedOurs
<1>4. Grounded(g)'
  BY <1>1 DEF Planned, Grounded
<1>5. UpdatesOK(g)'
  <2>1. Done' = Done
    BY <1>1 DEF Done
  <2>2. Better
    BY ReplacedBetter
  <2>3. UpdatesOK(g)
    BY DEF Planned
  <2>4. \A j \in g.nodes \ Done : j[2] => j[1] \in DOMAIN rsrc'
    BY <1>1, <2>3 DEF UpdatesOK
  <2>5. ASSUME NEW e \in g.edges, e[1][2], e[1][1] \in DOMAIN rsrc', e[2][1] \in DOMAIN rsrc'
        PROVE  rsrc'[e[2][1]].name \in TmplRequires[t][rsrc'[e[1][1]].name]
    <3>1. e[1][1] \in DOMAIN rsrc /\ e[2][1] \in DOMAIN rsrc
      BY <1>1, <1>2, <2>5 DEF KnownRefs
    <3> QED
      BY <1>1, <2>3, <2>5, <3>1 DEF UpdatesOK
  <2>6. ASSUME NEW n \in TmplNames[t]
        PROVE  \/ \E j \in DOMAIN rsrc' : Serving(j)' /\ rsrc'[j].name = n
               \/ \E j \in g.nodes \ Done : j[2] /\ rsrc'[j[1]].name = n
    <3>1. CASE \E j \in DOMAIN rsrc : Serving(j) /\ rsrc[j].name = n
      <4>1. PICK j \in DOMAIN rsrc : Serving(j) /\ rsrc[j].name = n
        BY <3>1
      <4> QED
        BY <1>1, <2>2, <4>1 DEF Better
    <3>2. CASE \E j \in g.nodes \ Done : j[2] /\ rsrc[j[1]].name = n
      BY <1>1, <2>3, <3>2 DEF UpdatesOK
    <3> QED
      BY <2>3, <3>1, <3>2 DEF UpdatesOK
  <2> QED
    BY <1>1, <2>1, <2>4, <2>5, <2>6 DEF UpdatesOK
<1>6. ASSUME NEW j \in DOMAIN rsrc', rsrc'[j].tmpl # t PROVE <<j, FALSE>> \in g.nodes
  BY <1>1, <1>6, Zenon DEF Planned
<1>7. ASSUME NEW j \in DOMAIN rsrc' PROVE ReplacesOK(rsrc[j])'
  <2>1. CASE j = k
    BY <1>1, <2>1 DEF ReplacesOK
  <2>2. CASE j # k
    <3>1. ReplacesOK(rsrc[j]) /\ rsrc[j].replaces # k /\ rsrc'[j].replaces = rsrc[j].replaces
      BY <1>1, <1>2, <2>2, Zenon DEF Planned, KnownRefs
    <3> QED
      BY <1>1, <3>1 DEF ReplacesOK
  <2> QED
    BY <2>1, <2>2
<1> QED
  BY <1>1, <1>3, <1>4, <1>5, <1>6, <1>7, Zenon DEF Planned

\* Neither fails.
LEMMA ReportUntroubled ==
    ASSUME TypeOK, Untroubled, GoalsOK, NEW w \in Threads, Replace(w) \/ Propagate(w)
    PROVE  Untroubled' /\ GoalsOK'
<1>1. \A i \in DOMAIN rsrc : rsrc[i].status # "FAILED"
  BY DEF Untroubled
<1>2. CASE Replace(w)
  <2> DEFINE i == th[w].msg.id
  <2>0. th[w].pc = "replace" /\ IsReplaced(w) /\ nextId \notin DOMAIN rsrc
    BY <1>2, ReplaceDoes DEF TypeOK, Ids
  <2>1. /\ th[w].pc = "replace" /\ UNCHANGED stack /\ Gone(w)
        /\ DOMAIN rsrc' = DOMAIN rsrc \cup {nextId} /\ nextId \notin DOMAIN rsrc
        /\ rsrc'[nextId] = NewRow(th[w].rs.name, th[w].st.tmpl, th[w].rs.requires, th[w].msg.id)
        /\ \A j \in DOMAIN rsrc \ {i} : rsrc'[j] = rsrc[j]
        /\ i \in DOMAIN rsrc => rsrc'[i] = [rsrc[i] EXCEPT !.status = "COMPLETE", !.replaced_by = nextId]
    BY <2>0, Zenon DEF IsReplaced
  <2>2. rsrc'[nextId].status = "COMPLETE"
    BY <2>1 DEF NewRow
  <2>3. i \in DOMAIN rsrc => rsrc'[i].status = "COMPLETE"
    <3> SUFFICES ASSUME i \in DOMAIN rsrc PROVE rsrc'[i].status = "COMPLETE"
      OBVIOUS
    <3> DEFINE b == [rsrc[i] EXCEPT !.status = "COMPLETE"]
    <3>1. b \in Rows /\ b.status = "COMPLETE"
      BY DEF TypeOK, Rows, Statuses
    <3>2. rsrc'[i] = [b EXCEPT !.replaced_by = nextId]
      BY <2>1, SMTT(20)
    <3> HIDE DEF b
    <3> QED
      BY <3>1, <3>2 DEF Rows
  <2> HIDE DEF i
  <2>4. \A j \in DOMAIN rsrc' : rsrc'[j].status # "FAILED"
    BY <1>1, <2>1, <2>2, <2>3
  <2> QED
    BY <2>1, <2>4, CheckUntroubled DEF Checks
<1>3. CASE Propagate(w)
  <2>1. /\ UNCHANGED <<stack, rsrc>> /\ th[w].pc = "propagate"
        /\ Return(w) \/ Goto(w, "retrigger") \/ Goto(w, "complete")
    BY <1>3, Zenon DEF Propagate, At
  <2>2. \/ Gone(w)
        \/ Becomes(w, "retrigger", th[w].st, th[w].rs, th[w].out)
        \/ Becomes(w, "complete", th[w].st, th[w].rs, th[w].out)
    BY <2>1, Forms, Zenon
  <2>3. th[w].pc \in Checks /\ th[w].rs.status # "FAILED" /\ th[w].out \notin {"failed", "timeout"}
    BY <2>1 DEF Untroubled, Checks
  <2>4. \A j \in DOMAIN rsrc' : rsrc'[j].status # "FAILED"
    BY <1>1, <2>1
  <2> QED
    BY <2>1, <2>2, <2>3, <2>4, CheckUntroubled, Zenon
<1> QED
  BY <1>2, <1>3

\* Data that has reported names what it did.
LEMMA RefsKeepNames ==
    ASSUME UNCHANGED stack, NEW k, k \notin Ids, k # None, DOMAIN rsrc' = DOMAIN rsrc \cup {k},
           \A j \in DOMAIN rsrc : rsrc'[j].name = rsrc[j].name,
           NEW d, \A p \in d : p[2] \in Ids \cup {None}, NEW n, DataNames(d, n)
    PROVE  DataNames(d, n)'
<1>1. \A p \in d : p[2] \in DOMAIN rsrc' => p[2] \in DOMAIN rsrc /\ rsrc'[p[2]].name = rsrc[p[2]].name
  OBVIOUS
<1> QED
  BY <1>1, DataNamesStay

\* A replacement takes over.
LEMMA ReplaceKeepsSmooth ==
    ASSUME TravInv, SeqInv, OrderInv, SmoothInv, stack.live, NEW w \in Threads, Replace(w)
    PROVE  SmoothInv'
<1> DEFINE i == th[w].msg.id
           k == nextId
<1>1. TypeOK /\ Untroubled /\ GoalsOK /\ Proceeds /\ KnownRefs
  BY RefsAreKnown DEF SmoothInv, TravInv
<1>2. w \in Checking /\ th[w].pc = "replace" /\ Knows(w, i) /\ \E m : Replaced(w, i, k, m)
  BY ReplacedRow
<1>3. PICK m : Replaced(w, i, k, m)
  BY <1>2
<1>4. /\ stack.status = "IN_PROGRESS" /\ Running /\ RowsStay
      /\ \A v \in Threads : th[v].pc \notin Launching
      /\ i \in DOMAIN rsrc => rsrc[i].replaced_by = None
  BY <1>2, CheckIsAware DEF Aware, Checks, Replaces
<1> HIDE DEF i, k
<1>5. /\ UNCHANGED <<stack, sp, phys>> /\ Gone(w) /\ DOMAIN rsrc' = DOMAIN rsrc \cup {k}
      /\ k \notin Ids /\ k # None /\ casts' = casts \cup {m} /\ i \in DOMAIN rsrc
      /\ m.id = k /\ m.upd = TRUE /\ m.data = th[w].msg.data /\ th[w].msg.upd = TRUE
      /\ rsrc'[k].name = th[w].rs.name /\ rsrc'[k].action = "INIT"
      /\ \A j \in DOMAIN rsrc \ {i} : rsrc'[j] = rsrc[j]
      /\ \A j \in DOMAIN rsrc : /\ rsrc'[j].name = rsrc[j].name /\ rsrc'[j].action = rsrc[j].action
                                /\ rsrc[j].replaced_by # None => rsrc'[j].replaced_by # None
      /\ rsrc'[i].replaced_by = k /\ i = th[w].msg.id
  BY <1>3 DEF Replaced
<1>6. /\ th'[w].pc \in {"idle", "finished"} /\ th'[w].pc \notin Checks \cup Launching
      /\ \A v \in Threads \ {w} : th'[v] = th[v]
  BY <1>5, GoneIsQuiet
<1>7. Untroubled' /\ GoalsOK'
  BY <1>1, ReportUntroubled
<1>8. PICK current \in Currents : CheckInv(current)
  <2>1. Busy(th[w]) /\ th[w].pc \notin Launching
    BY <1>2 DEF Busy, Launching
  <2> QED
    BY <2>1, WhileChecking
<1>9. rsrc[i].name = th[w].rs.name
  BY <1>2, <1>5 DEF Knows, WorkerOK
<1>10. Planned(stack.deps) /\ DOMAIN sp # {} /\ PointsAre
  BY <1>4, PointsOfGraph DEF Running
<1>11. Planned(stack.deps)'
  BY <1>1, <1>2, <1>3, <1>4, <1>5, <1>8, <1>9, <1>10, ReplacedIsPlanned
<1>12. Checking' = Checking \ {w} /\ Served' \subseteq Served \cup {m}
  BY <1>1, <1>2, <1>3, TokenIsHandedOver, Zenon
<1>13. \A d, n : (\A p \in d : p[2] \in Ids \cup {None}) /\ DataNames(d, n) => DataNames(d, n)'
  BY <1>5, RefsKeepNames
<1>14. ASSUME NEW n \in DOMAIN Points', n \in stack'.deps.nodes, n[2], n[1] \in DOMAIN rsrc'
       PROVE  DataNames(Points[n], rsrc[n[1]].name)'
  <2> DEFINE d == Points[n]
             q == rsrc[n[1]].name
  <2>1. n[1] \in DOMAIN rsrc /\ n \in DOMAIN Points /\ d' = d /\ q' = q
    BY <1>1, <1>5, <1>14 DEF Points, KnownRefs
  <2>2. DataNames(d, q) /\ \A p \in d : p[2] \in Ids \cup {None}
    BY <1>1, <1>4, <1>5, <1>10, <1>14, <2>1 DEF Running, KnownRefs
  <2> HIDE DEF d, q
  <2>3. DataNames(d, q)'
    BY <1>5, <2>1, <2>2, RefsKeepNames DEF DataNames
  <2> QED
    BY <2>3 DEF d, q
<1>15. ASSUME NEW c \in Served', c.upd PROVE DataNames(c.data, rsrc[c.id].name)'
  <2>1. CASE c = m
    <3>1. DataNames(th[w].msg.data, th[w].rs.name) /\ \A p \in th[w].msg.data : p[2] \in Ids \cup {None}
      BY <1>1, <1>2, <1>4, <1>5 DEF Running, KnownRefs
    <3>2. c.data = th[w].msg.data /\ rsrc'[c.id].name = th[w].rs.name
      BY <1>5, <2>1
    <3> QED
      BY <1>5, <3>1, <3>2 DEF DataNames
  <2>2. CASE c \in Served
    <3>1. /\ DataNames(c.data, rsrc[c.id].name) /\ c.id \in DOMAIN rsrc
          /\ \A p \in c.data : p[2] \in Ids \cup {None}
      BY <1>1, <1>4, <1>15, <2>2 DEF Running, Served, KnownRefs
    <3> QED
      BY <1>5, <3>1 DEF DataNames
  <2> QED
    BY <1>12, <2>1, <2>2
<1>16. ASSUME NEW v \in Checking'
       PROVE  /\ th'[v].msg.upd => DataNames(th[v].msg.data, th[v].rs.name)'
              /\ ReplacesOK(th[v].rs)'
              /\ Replaces(th'[v]) /\ th'[v].msg.id \in DOMAIN rsrc' => rsrc'[th'[v].msg.id].replaced_by = None
  <2>1. v \in Checking \ {w} /\ th'[v] = th[v] /\ th[v].pc \in Checks /\ v \in Threads
    BY <1>6, <1>12 DEF Checking
  <2>2. /\ th[v].msg.upd => DataNames(th[v].msg.data, th[v].rs.name)
        /\ ReplacesOK(th[v].rs)
        /\ Replaces(th[v]) /\ th[v].msg.id \in DOMAIN rsrc => rsrc[th[v].msg.id].replaced_by = None
    BY <1>4, <2>1 DEF Running
  <2>3. /\ th[v].msg.id \in Ids /\ th[v].rs.replaces \in Ids \cup {None}
        /\ \A p \in th[v].msg.data : p[2] \in Ids \cup {None}
    BY <1>1, <2>1 DEF KnownRefs
  <2>4. th[v].msg.id # i
    BY <1>2, <2>1 DEF Knows
  <2>5. th'[v].msg.upd => DataNames(th[v].msg.data, th[v].rs.name)'
    BY <1>5, <2>1, <2>2, <2>3 DEF DataNames
  <2>6. ReplacesOK(th[v].rs)'
    BY <1>5, <2>1, <2>2, <2>3 DEF ReplacesOK
  <2>7. Replaces(th'[v]) /\ th'[v].msg.id \in DOMAIN rsrc' => rsrc'[th'[v].msg.id].replaced_by = None
    BY <1>5, <2>1, <2>2, <2>3, <2>4
  <2> QED
    BY <2>5, <2>6, <2>7
<1>17. Running'
  <2>1. DOMAIN sp' # {}
    BY <1>5, <1>10
  <2> QED
    BY <1>11, <1>14, <1>15, <1>16, <2>1, Zenon DEF Running
<1>18. RowsStay'
  <2>1. ASSUME NEW j \in DOMAIN rsrc', rsrc'[j].action = "DELETE"
        PROVE  \E v \in Threads : th'[v].pc \in {"handler", "destroy"} /\ th'[v].msg.id = j /\ ~th'[v].msg.upd
    <3>1. j \in DOMAIN rsrc /\ rsrc[j].action = "DELETE"
      BY <1>5, <2>1
    <3>2. PICK v \in Threads : th[v].pc \in {"handler", "destroy"} /\ th[v].msg.id = j /\ ~th[v].msg.upd
      BY <1>4, <3>1 DEF RowsStay
    <3> QED
      BY <1>2, <1>6, <3>2
  <2>2. \A v \in Threads : th'[v].pc = "destroy" => th'[v].msg.id \notin phys'
    BY <1>4, <1>5, <1>6 DEF RowsStay
  <2>3. phys' \subseteq DOMAIN rsrc'
    BY <1>4, <1>5 DEF RowsStay
  <2> QED
    BY <2>1, <2>2, <2>3 DEF RowsStay
<1>19. Proceeds'
  <2>1. Empties(stack'.action, stack'.tmpl) /\ stack'.status = "IN_PROGRESS"
    BY <1>1, <1>4, <1>5 DEF Proceeds, Empties
  <2>2. \A v \in Threads : th'[v].pc \notin Launching
    BY <1>4, <1>6
  <2> QED
    BY <1>17, <1>18, <2>1, <2>2, RunningProceeds
<1> QED
  BY <1>7, <1>19 DEF SmoothInv

\* What a check of an update node reports serves under the name of the node.
LEMMA ReportsServing ==
    ASSUME NEW w \in Checking, th[w].pc = "propagate", NEW k, k = WorkerToken(w).key, k[2],
           NEW current, CheckInv(current), WorkerOK(th[w]), Turn(k), PointsAre, UpdatesOK(stack.deps)
    PROVE  /\ k[1] \in DOMAIN rsrc /\ Serving(th[w].msg.id)
           /\ rsrc[th[w].msg.id].name = rsrc[k[1]].name
<1> DEFINE x == WorkerToken(w)
<1>1. x \in Tokens /\ x.upd = th[w].msg.upd /\ x.name = th[w].rs.name /\ x.key = k
  BY TokensAre
<1> HIDE DEF x
<1>2. k \in stack.deps.nodes /\ th[w].msg.upd
      /\ \A n \in TmplNames[stack.tmpl] : k = <<current[n], TRUE>> => th[w].rs.name = n
  BY <1>1, Zenon DEF CheckInv, TokenOK
<1>3. k \notin Done
  <2>1. \A n \in DOMAIN Points : k \notin senders(Points[n])
    BY DEF Turn
  <2> QED
    BY <2>1, DoneIs DEF PointsAre
<1>4. k[1] \in DOMAIN rsrc
  BY <1>2, <1>3 DEF UpdatesOK
<1>5. PICK n \in TmplNames[stack.tmpl] : k = <<current[n], TRUE>>
  <2>1. k \in {c \in stack.deps.nodes : c[2]}
    BY <1>2
  <2>2. k \in {<<current[n], TRUE>> : n \in TmplNames[stack.tmpl]}
    BY <2>1, Zenon DEF CheckInv, GraphOK
  <2> QED
    BY <2>2, Zenon
<1>6. rsrc[k[1]].name = n
  BY <1>4, <1>5 DEF CheckInv, NamesOK
<1>7. Serving(th[w].msg.id) /\ rsrc[th[w].msg.id].name = th[w].rs.name
  BY <1>2 DEF WorkerOK
<1> QED
  BY <1>2, <1>4, <1>5, <1>6, <1>7

\* One more node has reported.
LEMMA OneMoreIsDone ==
    ASSUME NEW w, NEW k, Reported(w, k), PointsAre, PointsAre', UNCHANGED stack
    PROVE  Done' = Done \cup {k} \/ (Done' = Done /\ k \notin Done)
<1> DEFINE N == stack.deps.nodes \cup {StackNode}
<1>1. \A n \in N : \/ Points'[n] = Points[n]
                   \/ \E v : Points'[n] = merge(Points[n], k, v)
  BY DEF Reported, PointsAre
<1>2. \A n \in N : \/ senders(Points'[n]) = senders(Points[n])
                   \/ senders(Points'[n]) = senders(Points[n]) \cup {k}
  BY <1>1, SendersOfMerge
<1>3. \A l : l \in Done <=> \E n \in N : l \in senders(Points[n])
  BY DoneIs
<1>4. \A l : l \in Done' <=> \E n \in N : l \in senders(Points'[n])
  BY DEF PointsAre, Done, Points
<1>5. \A l : l # k => (l \in Done' <=> l \in Done)
  BY <1>2, <1>3, <1>4
<1>6. k \in Done => k \in Done'
  BY <1>2, <1>3, <1>4
<1> QED
  BY <1>5, <1>6

\* The nodes, when one of them has reported.
LEMMA ReportedUpdates ==
    ASSUME TypeOK, UNCHANGED <<stack, rsrc, phys>>, NEW w \in Checking, th[w].pc = "propagate",
           NEW k, k = WorkerToken(w).key, Reported(w, k), Turn(k),
           NEW current, CheckInv(current), WorkerOK(th[w]), PointsAre, PointsAre',
           UpdatesOK(stack.deps)
    PROVE  /\ UpdatesOK(stack.deps)'
           /\ \A n \in stack.deps.nodes : n[2] /\ n[1] \in DOMAIN rsrc /\ DataNames(Points[n], rsrc[n[1]].name)
                 => DataNames(Points'[n], rsrc[n[1]].name)
<1> DEFINE g == stack.deps
           t == stack.tmpl
<1>1. Done \subseteq Done' /\ Done' \subseteq Done \cup {k}
  BY OneMoreIsDone
<1>2. k[2] => /\ k[1] \in DOMAIN rsrc /\ Serving(th[w].msg.id)
              /\ rsrc[th[w].msg.id].name = rsrc[k[1]].name
  BY ReportsServing
<1>3. \A j : Serving(j)' <=> Serving(j)
  BY DEF Serving
<1>4. \A c \in g.nodes \ Done' : c[2] => c[1] \in DOMAIN rsrc'
  BY <1>1 DEF UpdatesOK
<1>5. \A e \in g.edges : e[1][2] /\ e[1][1] \in DOMAIN rsrc' /\ e[2][1] \in DOMAIN rsrc' =>
         rsrc'[e[2][1]].name \in TmplRequires[t][rsrc'[e[1][1]].name]
  BY DEF UpdatesOK
<1>6. ASSUME NEW n \in TmplNames[t]
      PROVE  \/ \E i \in DOMAIN rsrc' : Serving(i)' /\ rsrc'[i].name = n
             \/ \E c \in g.nodes \ Done' : c[2] /\ rsrc'[c[1]].name = n
  <2>1. CASE \E i \in DOMAIN rsrc : Serving(i) /\ rsrc[i].name = n
    BY <1>3, <2>1
  <2>2. CASE \E c \in g.nodes \ Done : c[2] /\ rsrc[c[1]].name = n
    <3>1. PICK c \in g.nodes \ Done : c[2] /\ rsrc[c[1]].name = n
      BY <2>2
    <3>2. CASE c = k
      <4>1. Serving(th[w].msg.id) /\ rsrc[th[w].msg.id].name = n
        BY <1>2, <3>1, <3>2
      <4>2. th[w].msg.id \in DOMAIN rsrc
        BY <4>1 DEF Serving
      <4> QED
        BY <1>3, <4>1, <4>2
    <3>3. CASE c # k
      BY <1>1, <3>1, <3>3
    <3> QED
      BY <3>2, <3>3
  <2> QED
    BY <2>1, <2>2 DEF UpdatesOK
<1>7. UpdatesOK(g)'
  BY <1>4, <1>5, <1>6 DEF UpdatesOK
<1>8. ASSUME NEW n \in g.nodes, n[2], n[1] \in DOMAIN rsrc, DataNames(Points[n], rsrc[n[1]].name)
      PROVE  DataNames(Points'[n], rsrc[n[1]].name)
  <2>1. n \in DOMAIN Points /\ n # StackNode
    BY NodesAre DEF PointsAre
  <2>2. CASE Points'[n] = Points[n]
    BY <1>8, <2>2
  <2>3. CASE n \in Dependents(k) /\ Points'[n] = merge(Points[n], k, th[w].msg.id)
    <3> DEFINE e == <<n, k>>
    <3>1. e \in g.edges /\ e[1] = n /\ e[2] = k
      BY <2>3 DEF Turn
    <3> HIDE DEF e
    <3>2. k[2]
      BY <1>8, <3>1 DEF CheckInv, GraphOK
    <3>3. rsrc[k[1]].name \in TmplRequires[t][rsrc[n[1]].name]
      BY <1>2, <1>8, <3>1, <3>2 DEF UpdatesOK
    <3>4. \A p \in Points'[n] : p \in Points[n] \/ p[2] = th[w].msg.id
      BY <2>3 DEF merge
    <3> QED
      BY <1>2, <1>8, <3>2, <3>3, <3>4 DEF DataNames
  <2> QED
    BY <1>8, <2>1, <2>2, <2>3 DEF Reported
<1> QED
  BY <1>7, <1>8

\* The traversal goes on when a check has reported.
LEMMA ReportRuns ==
    ASSUME UNCHANGED <<stack, rsrc, phys>>, NEW w, Checking' = Checking \ {w},
           \A v \in Threads \ {w} : th'[v] = th[v], DOMAIN sp' # {}, UpdatesOK(stack.deps)',
           \A n \in DOMAIN Points' : n \in stack.deps.nodes /\ n[2] /\ n[1] \in DOMAIN rsrc =>
              DataNames(Points'[n], rsrc[n[1]].name),
           \A m \in Served' : m.upd => DataNames(m.data, rsrc[m.id].name),
           Running
    PROVE  Running'
<1> DEFINE g == stack.deps
<1>1. \A d, n : DataNames(d, n) => DataNames(d, n)'
  BY DEF DataNames
<1>2. Planned(g)'
  <2>1. Planned(g)
    BY DEF Running
  <2>2. Grounded(g)'
    BY <2>1 DEF Planned, Grounded
  <2>3. OursOK(g)'
    <3>1. OursOK(g)
      BY <2>1 DEF Planned
    <3>2. \A i : RequiresOK(i, stack.tmpl) => RequiresOK(i, stack.tmpl)'
      BY DEF RequiresOK
    <3> QED
      BY <3>1, <3>2, Zenon DEF OursOK
  <2>4. \A i \in DOMAIN rsrc : ReplacesOK(rsrc[i]) => ReplacesOK(rsrc[i])'
    BY DEF ReplacesOK
  <2> QED
    BY <2>1, <2>2, <2>3, <2>4, Zenon DEF Planned
<1>3. ASSUME NEW n \in DOMAIN Points', n \in stack'.deps.nodes, n[2], n[1] \in DOMAIN rsrc'
      PROVE  DataNames(Points[n], rsrc[n[1]].name)'
  BY <1>3 DEF DataNames
<1>4. ASSUME NEW m \in Served', m.upd PROVE DataNames(m.data, rsrc[m.id].name)'
  BY <1>4 DEF DataNames
<1>5. ASSUME NEW v \in Checking'
      PROVE  /\ th'[v].msg.upd => DataNames(th[v].msg.data, th[v].rs.name)'
             /\ ReplacesOK(th[v].rs)'
             /\ Replaces(th'[v]) /\ th'[v].msg.id \in DOMAIN rsrc' => rsrc'[th'[v].msg.id].replaced_by = None
  <2>1. v \in Checking /\ th'[v] = th[v]
    BY DEF Checking
  <2>2. /\ th[v].msg.upd => DataNames(th[v].msg.data, th[v].rs.name)
        /\ ReplacesOK(th[v].rs)
        /\ Replaces(th[v]) /\ th[v].msg.id \in DOMAIN rsrc => rsrc[th[v].msg.id].replaced_by = None
    BY <2>1 DEF Running
  <2>3. th[v].msg.upd => DataNames(th[v].msg.data, th[v].rs.name)'
    BY <2>1, <2>2 DEF DataNames
  <2>4. ReplacesOK(th[v].rs)'
    BY <2>1, <2>2 DEF ReplacesOK
  <2> QED
    BY <2>1, <2>2, <2>3, <2>4
<1> QED
  BY <1>2, <1>3, <1>4, <1>5, Zenon DEF Running

\* A check that reports to the nodes that wait for it keeps the invariant.
LEMMA PropagateKeepsSmooth ==
    ASSUME TravInv, SeqInv, SeqInv', OrderInv, SmoothInv, stack.live, NEW w \in Threads, Propagate(w)
    PROVE  SmoothInv'
<1> DEFINE k == WorkerToken(w).key
<1>1. TypeOK /\ Untroubled /\ GoalsOK /\ Proceeds
  BY DEF SmoothInv, TravInv
<1>2. th[w].pc = "propagate"
  BY Zenon DEF Propagate, At
<1>3. /\ stack.status = "IN_PROGRESS" /\ Running /\ RowsStay /\ Knows(w, th[w].msg.id)
      /\ \A v \in Threads : th[v].pc \notin Launching
  BY <1>2, CheckIsAware DEF Aware, Checks
<1>4. PICK current \in Currents : CheckInv(current)
  <2>1. Busy(th[w]) /\ th[w].pc \notin Launching
    BY <1>2 DEF Busy, Launching
  <2> QED
    BY <2>1, WhileChecking
<1>5. PICK c : c = k
  OBVIOUS
<1> HIDE DEF k
<1>6. c = WorkerToken(w).key
  BY <1>5 DEF k
<1>7. /\ w \in Checking /\ UNCHANGED <<stack, rsrc, phys>>
      /\ th'[w].pc \notin Checks \cup Launching /\ \A v \in Threads \ {w} : th'[v] = th[v]
      /\ UNCHANGED <<sp, casts>> \/ Reported(w, c)
  BY <1>4, <1>6, PropagateDoes
<1>8. Untroubled' /\ GoalsOK'
  BY <1>1, ReportUntroubled
<1>9. DOMAIN sp # {} /\ PointsAre /\ UpdatesOK(stack.deps) /\ WorkerOK(th[w])
  BY <1>3, PointsOfGraph DEF Running, Planned, Knows
<1>10. Checking' = Checking \ {w}
  BY <1>7 DEF Checking
<1>11. \A n \in DOMAIN Points : n \in stack.deps.nodes /\ n[2] /\ n[1] \in DOMAIN rsrc =>
          DataNames(Points[n], rsrc[n[1]].name)
  BY <1>3 DEF Running
<1>12. Running'
  <2>1. CASE UNCHANGED <<sp, casts>>
    <3>1. Points' = Points /\ Served' = Served /\ Done' = Done
      BY <1>7, <2>1 DEF Points, Served, Done
    <3>2. UpdatesOK(stack.deps)'
      <4>1. \A j : Serving(j)' <=> Serving(j)
        BY <1>7 DEF Serving
      <4> QED
        BY <1>7, <1>9, <3>1, <4>1 DEF UpdatesOK
    <3>3. \A m \in Served' : m.upd => DataNames(m.data, rsrc[m.id].name)
      BY <1>3, <3>1 DEF Running
    <3>4. DOMAIN sp' # {}
      BY <1>9, <2>1
    <3> QED
      BY <1>3, <1>7, <1>10, <1>11, <3>1, <3>2, <3>3, <3>4, ReportRuns
  <2>2. CASE Reported(w, c)
    <3>1. Turn(c)
      BY <1>1, <1>2, <1>4, <1>6, <1>7, <1>9, <2>2, ReportTurns
    <3>2. DOMAIN sp' # {} /\ DOMAIN Points' = DOMAIN Points
      BY <2>2 DEF Reported
    <3>3. PointsAre'
      <4>1. DOMAIN sp' \subseteq {stack'.trav}
        BY DEF SeqInv, PointsArePurged
      <4> QED
        BY <1>7, <1>9, <3>2, <4>1 DEF PointsAre
    <3>4. /\ UpdatesOK(stack.deps)'
          /\ \A n \in stack.deps.nodes : n[2] /\ n[1] \in DOMAIN rsrc /\ DataNames(Points[n], rsrc[n[1]].name)
                => DataNames(Points'[n], rsrc[n[1]].name)
      BY <1>1, <1>2, <1>4, <1>6, <1>7, <1>9, <2>2, <3>1, <3>3, ReportedUpdates
    <3>5. \A n \in DOMAIN Points' : n \in stack.deps.nodes /\ n[2] /\ n[1] \in DOMAIN rsrc =>
             DataNames(Points'[n], rsrc[n[1]].name)
      BY <1>11, <3>2, <3>4
    <3>6. Served' \subseteq Served \cup {Wake(n) : n \in Rising(c)}
      BY <1>1, <1>7, <1>10, <2>2, <3>1, WokenTokens
    <3>7. ASSUME NEW m \in Served', m.upd PROVE DataNames(m.data, rsrc[m.id].name)
      <4>1. CASE m \in Served
        BY <1>3, <3>7, <4>1 DEF Running
      <4>2. CASE \E n \in Rising(c) : m = Wake(n)
        <5>1. PICK n \in Rising(c) : m = Wake(n)
          BY <4>2
        <5>2. n \in stack.deps.nodes /\ n \in DOMAIN Points /\ n[1] \in DOMAIN rsrc
          BY <3>1, <5>1, Zenon DEF Rising, Woken, Turn
        <5>3. m.id = n[1] /\ m.upd = n[2]
          BY <5>1 DEF Wake, Cast
        <5>4. m.data = Points'[n]
          BY <3>7, <5>1, <5>3 DEF Wake, Cast
        <5> QED
          BY <3>2, <3>5, <3>7, <5>2, <5>3, <5>4
      <4> QED
        BY <3>6, <4>1, <4>2
    <3> QED
      BY <1>3, <1>7, <1>10, <3>2, <3>4, <3>5, <3>7, ReportRuns
  <2> QED
    BY <1>7, <2>1, <2>2
<1>13. RowsStay'
  <2>1. \A v \in Threads : th[v].pc \in {"handler", "destroy"} => th'[v] = th[v]
    BY <1>2, <1>7
  <2>2. \A v \in Threads : th'[v].pc \in {"handler", "destroy"} => th'[v] = th[v]
    BY <1>7 DEF Checks
  <2>3. \A i \in DOMAIN rsrc : rsrc[i].action = "DELETE" =>
           \E v \in Threads : th'[v].pc \in {"handler", "destroy"} /\ th'[v].msg.id = i /\ ~th'[v].msg.upd
    BY <1>3, <2>1 DEF RowsStay
  <2> QED
    BY <1>3, <1>7, <2>2, <2>3 DEF RowsStay
<1>14. Proceeds'
  <2>1. Empties(stack'.action, stack'.tmpl) /\ stack'.status = "IN_PROGRESS"
    BY <1>1, <1>3, <1>7 DEF Proceeds, Empties
  <2>2. \A v \in Threads : th'[v].pc \notin Launching
    BY <1>3, <1>7
  <2> QED
    BY <1>12, <1>13, <2>1, <2>2, RunningProceeds
<1> QED
  BY <1>8, <1>14 DEF SmoothInv

\* A step of the preparation leads on.
LEMMA LaunchProceeds ==
    ASSUME Proceeds, NEW w \in Threads, Alone(w), th[w].pc \in Launching \cup {"idle"},
           th'[w].pc \in Launching, UNCHANGED phys, DOMAIN rsrc \subseteq DOMAIN rsrc',
           \A i \in DOMAIN rsrc : rsrc'[i].action = rsrc[i].action,
           \A i \in DOMAIN rsrc' \ DOMAIN rsrc : rsrc'[i].action = "INIT",
           Empties(stack'.action, stack'.tmpl),
           stack'.status = "COMPLETE" => Converged' /\ casts' = {},
           th'[w].pc \in {"store1", "delete_prev", "resources"} => \E t \in Tmpls : Even(t)',
           th'[w].pc \in {"store2", "trigger"} => Planned(th[w].st.deps)'
    PROVE  Proceeds'
<1>1. \A v \in Threads : th[v].pc \notin Checks /\ th'[v].pc \notin Checks
  BY DEF Alone, Busy, Launching, Checks
<1>2. Checking' = {} /\ (casts' = {} => Served' = {})
  BY <1>1 DEF Checking, Served
<1>3. RowsStay'
  <2>1. RowsStay /\ {"handler", "destroy"} \subseteq Checks
    BY DEF Proceeds, Checks
  <2>2. \A i \in DOMAIN rsrc' : rsrc'[i].action # "DELETE"
    BY <1>1, <2>1 DEF RowsStay
  <2> QED
    BY <1>1, <2>1, <2>2 DEF RowsStay
<1>4. \A v \in Threads \ {w} : th'[v].pc \notin Launching
  BY DEF Alone, Busy, Launching
<1>5. \A v \in Threads : th'[v].pc \in {"store1", "delete_prev", "resources"} => \E t \in Tmpls : Even(t)'
  BY <1>4 DEF Launching
<1>6. \A v \in Threads : th'[v].pc \in {"store2", "trigger"} => Planned(th[v].st.deps)'
  <2> SUFFICES ASSUME NEW v \in Threads, th'[v].pc \in {"store2", "trigger"}
               PROVE  Planned(th[v].st.deps)'
    OBVIOUS
  <2>1. v = w
    BY <1>4 DEF Launching
  <2> QED
    BY <2>1
<1>7. \E v \in Threads : th'[v].pc \in Launching
  OBVIOUS
<1> QED
  BY <1>2, <1>3, <1>5, <1>6, <1>7, Zenon DEF Proceeds, Empties

\* A request is taken up when the one before has succeeded.
LEMMA RequestKeepsSmooth ==
    ASSUME Smooth, TravInv, SeqInv, OrderInv, SmoothInv, NEW o \in Ops, Request(o)
    PROVE  SmoothInv'
<1>1. OneByOne /\ TypeOK /\ Untroubled /\ GoalsOK
  BY DEF Smooth, InOrder, TravInv, SmoothInv
<1>2. /\ th[o].pc = "idle" /\ o \in Threads
      /\ UNCHANGED <<stack, rsrc, nextId, nextTrav, sp, casts, phys, dead>>
      /\ Settled /\ \A v \in Threads : ~Busy(th[v])
      /\ \A v \in Threads \ {o} : th'[v] = th[v]
      /\ \/ Gone(o)
         \/ /\ stack.live /\ DOMAIN sp = {}
            /\ th'[o].pc = "store1" /\ th'[o].st = stack /\ th'[o].goal = Op[o]
  BY <1>1, RequestDoes, Zenon
<1>3. (\A v \in Threads : th[v].pc \notin Launching) /\ th[o].pc \notin Checks
  BY <1>2 DEF Busy, Launching, Checks
<1>4. stack.live => stack.status = "COMPLETE"
  BY <1>1, <1>2 DEF Settled, Untroubled, TypeOK, Stacks, Statuses
<1>5. stack.live => Proceeds /\ Converged /\ Checking = {} /\ Served = {}
  BY <1>4, Zenon DEF SmoothInv, Proceeds
<1>6. CASE Gone(o)
  <2>1. th'[o].pc \in {"idle", "finished"} /\ th'[o].st = NoStack
    BY <1>6 DEF Gone, Returned, Idle
  <2>2. Untroubled' /\ GoalsOK'
    <3>1. th'[o].st.status # "FAILED"
      BY <2>1 DEF NoStack
    <3>2. stack'.status # "FAILED" /\ \A i \in DOMAIN rsrc' : rsrc'[i].status # "FAILED"
      BY <1>1, <1>2 DEF Untroubled
    <3>3. th'[o].pc \notin {"store1", "fail", "reload"} /\ th'[o].pc \notin Checks
      BY <2>1 DEF Checks
    <3> QED
      BY <1>1, <1>2, <3>1, <3>2, <3>3, NothingFails
  <2>3. ASSUME stack.live PROVE Proceeds'
    <3>1. StackKept /\ PointsKept
      BY <1>2 DEF StackKept, PointsKept
    <3>2. QuietStep(o)
      BY <1>2, <1>6, <3>1, GoneIsQuiet DEF QuietStep
    <3>3. Empties(stack'.action, stack'.tmpl)
      BY <1>2, <1>5, <2>3 DEF Proceeds
    <3> QED
      BY <1>2, <1>3, <1>4, <1>5, <2>3, <3>2, <3>3, QuietProceeds
  <2> QED
    BY <1>2, <2>2, <2>3 DEF SmoothInv
<1>7. CASE /\ stack.live /\ th'[o].pc = "store1" /\ th'[o].st = stack /\ th'[o].goal = Op[o]
  <2>1. Untroubled'
    <3>1. \A v \in Threads :
            /\ th'[v].pc \notin {"fail", "reload"} /\ th'[v].st.status # "FAILED"
            /\ th'[v].pc \in Checks => th'[v].rs.status # "FAILED" /\ th'[v].out \notin {"failed", "timeout"}
      BY <1>1, <1>2, <1>7 DEF Untroubled, Checks
    <3> QED
      BY <1>1, <1>2, <3>1 DEF Untroubled
  <2>2. GoalsOK'
    <3>1. Empties(Op[o].action, Op[o].tmpl)
      BY DEF Smooth, Empties
    <3> QED
      BY <1>1, <1>2, <1>7, <3>1 DEF GoalsOK, Empties
  <2>3. Alone(o) /\ casts' = {}
    BY <1>2 DEF Alone, Settled
  <2>4. StackKept
    BY <1>2 DEF StackKept
  <2>5. Converged' /\ \E t \in Tmpls : Even(t)'
    BY <1>1, <1>2, <1>5, <1>7, <2>4, SameStays DEF Converged, TypeOK, Stacks
  <2>6. Empties(stack'.action, stack'.tmpl)
    BY <1>2, <1>5, <1>7 DEF Proceeds
  <2>7. Proceeds'
    BY <1>2, <1>5, <1>7, <2>3, <2>5, <2>6, LaunchProceeds DEF Launching
  <2> QED
    BY <2>1, <2>2, <2>7 DEF SmoothInv
<1> QED
  BY <1>2, <1>6, <1>7

\* A step of the preparation meets no failure.
LEMMA LaunchUntroubled ==
    ASSUME Untroubled, GoalsOK, NEW w \in Threads, \A v \in Threads \ {w} : th'[v] = th[v],
           th'[w].pc \notin Checks \cup {"store1", "fail", "reload"}, th'[w].st.status # "FAILED",
           stack'.status # "FAILED",
           \A i \in DOMAIN rsrc : rsrc'[i].status = rsrc[i].status,
           \A i \in DOMAIN rsrc' \ DOMAIN rsrc : rsrc'[i].status # "FAILED"
    PROVE  Untroubled' /\ GoalsOK'
<1>1. \A i \in DOMAIN rsrc' : rsrc'[i].status # "FAILED"
  BY DEF Untroubled
<1> QED
  BY <1>1, NothingFails

\* The traversal is stored, and the sync points of the one before are deleted.
LEMMA StoreKeepsSmooth ==
    ASSUME TravInv, SeqInv, SmoothInv, NEW w \in Threads,
           StoreTraversal(w) \/ DeletePrevSyncPoints(w)
    PROVE  SmoothInv'
<1>0. /\ th[w].pc \in Launching /\ th'[w].pc \in {"delete_prev", "resources"}
      /\ UNCHANGED <<rsrc, casts, phys>> /\ stack'.live
      /\ \A v \in Threads \ {w} : th'[v] = th[v]
  <2>1. CASE StoreTraversal(w)
    BY <2>1, StoreTraversalDoes DEF Launching
  <2>2. CASE DeletePrevSyncPoints(w)
    <3>1. /\ th[w].pc = "delete_prev" /\ UNCHANGED <<stack, rsrc, nextId, nextTrav, casts, phys, dead>>
          /\ DOMAIN sp' = {} /\ Becomes(w, "resources", th[w].st, th[w].rs, th[w].out)
      BY <2>2, DeletePrevSyncPointsDoes
    <3>2. stack.live
      BY <3>1, LaunchIs DEF Launching
    <3> QED
      BY <3>1, <3>2 DEF Becomes, Launching
  <2> QED
    BY <2>1, <2>2
<1>1. stack.live /\ casts = {} /\ \A v \in Threads \ {w} : ~Busy(th[v])
  BY <1>0, LaunchIs
<1>2. Alone(w)
  BY <1>0, <1>1 DEF Alone
<1>3. Proceeds /\ Untroubled /\ GoalsOK
  BY <1>1 DEF SmoothInv
<1>4. /\ stack'.status = "IN_PROGRESS" /\ th'[w].st.status # "FAILED"
      /\ Empties(stack'.action, stack'.tmpl)
  <2>1. CASE StoreTraversal(w)
    <3>1. /\ th[w].pc = "store1" /\ stack'.status = "IN_PROGRESS" /\ th'[w].st = stack'
          /\ stack'.action = th[w].goal.action /\ stack'.tmpl = th[w].goal.tmpl
      BY <2>1, StoreTraversalDoes
    <3> QED
      BY <1>3, <3>1 DEF GoalsOK, Empties
  <2>2. CASE DeletePrevSyncPoints(w)
    <3>1. /\ th[w].pc = "delete_prev" /\ UNCHANGED stack
          /\ Becomes(w, "resources", th[w].st, th[w].rs, th[w].out)
      BY <2>2, DeletePrevSyncPointsDoes
    <3>2. stack.status = "IN_PROGRESS" /\ th[w].st.status = "IN_PROGRESS"
      BY <3>1, LaunchIs DEF Launching
    <3> QED
      BY <1>3, <3>1, <3>2 DEF Becomes, Proceeds, Empties
  <2> QED
    BY <2>1, <2>2
<1>5. Untroubled' /\ GoalsOK'
  BY <1>0, <1>3, <1>4, LaunchUntroubled DEF Checks
<1>6. \E t \in Tmpls : Even(t)'
  <2>1. PICK t \in Tmpls : Even(t)
    <3>1. th[w].pc \in {"store1", "delete_prev", "resources"}
      <4>1. StoreTraversal(w) => th[w].pc = "store1"
        BY StoreTraversalDoes
      <4>2. DeletePrevSyncPoints(w) => th[w].pc = "delete_prev"
        BY DeletePrevSyncPointsDoes
      <4> QED
        BY <4>1, <4>2
    <3> QED
      BY <1>3, <3>1 DEF Proceeds
  <2>2. Even(t)'
    BY <1>0, <2>1 DEF Even, RequiresOK
  <2> QED
    BY <2>2
<1>7. th'[w].pc \in Launching /\ th'[w].pc \notin {"store2", "trigger"}
  BY <1>0 DEF Launching
<1>8. Proceeds'
  BY <1>0, <1>2, <1>3, <1>4, <1>6, <1>7, LaunchProceeds
<1> QED
  BY <1>5, <1>8 DEF SmoothInv

\* What has not begun stays planned.
LEMMA PlannedStays ==
    ASSUME UNCHANGED <<rsrc, phys>>, stack'.tmpl = stack.tmpl, DOMAIN sp = {}, Done' = {},
           NEW g, Planned(g)
    PROVE  Planned(g)'
<1>1. Done = {}
  BY DEF Done
<1>2. Grounded(g)' /\ UpdatesOK(g)'
  <2>1. \A j : Serving(j)' <=> Serving(j)
    BY DEF Serving
  <2> QED
    BY <1>1, <2>1 DEF Planned, Grounded, UpdatesOK
<1>3. OursOK(g)'
  <2>1. OursOK(g)
    BY DEF Planned
  <2>2. ASSUME NEW i \in DOMAIN rsrc', rsrc'[i].tmpl = stack'.tmpl
        PROVE  /\ rsrc'[i].name \in TmplNames[stack'.tmpl]
               /\ rsrc'[i].action # "INIT" => RequiresOK(i, stack.tmpl)'
               /\ \A j \in DOMAIN rsrc' : rsrc'[j].name = rsrc'[i].name =>
                     /\ rsrc'[j].tmpl = stack'.tmpl => i = j
                     /\ rsrc'[j].tmpl # stack'.tmpl /\ <<j, TRUE>> \in g.nodes => rsrc'[j].replaced_by # None
    <3>1. rsrc'[i].action # "INIT" => RequiresOK(i, stack.tmpl)'
      BY <2>1, <2>2, Zenon DEF OursOK, RequiresOK
    <3> QED
      BY <2>1, <2>2, <3>1, Zenon DEF OursOK
  <2> QED
    BY <2>2, Zenon DEF OursOK
<1>4. \A i \in DOMAIN rsrc : ReplacesOK(rsrc[i]) => ReplacesOK(rsrc[i])'
  BY DEF ReplacesOK
<1> QED
  BY <1>2, <1>3, <1>4, Zenon DEF Planned

\* The graph is stored.
LEMMA StoreDepsKeepsSmooth ==
    ASSUME TravInv, SeqInv, SmoothInv, NEW w \in Threads, StoreDeps(w)
    PROVE  SmoothInv'
<1>1. /\ th[w].pc = "store2" /\ UNCHANGED <<rsrc, nextId, sp, casts, phys>>
      /\ stack' = th[w].st /\ Becomes(w, "trigger", th[w].st, th[w].rs, th[w].out)
  BY StoreDepsDoes
<1>2. /\ stack.live /\ DOMAIN sp = {} /\ casts = {} /\ \A v \in Threads \ {w} : ~Busy(th[v])
      /\ th[w].st.trav = stack.trav /\ th[w].st.tmpl = stack.tmpl
      /\ th[w].st.status = "IN_PROGRESS"
  BY <1>1, LaunchIs DEF Launching
<1>3. Alone(w) /\ th'[w].pc = "trigger" /\ th'[w].st = th[w].st
  BY <1>1, <1>2 DEF Alone, Becomes
<1>4. Proceeds /\ Untroubled /\ GoalsOK
  BY <1>2 DEF SmoothInv
<1>5. th[w].st.action = stack.action
  BY <1>2 DEF TravInv, ThreadOK, OneAction
<1>6. Untroubled' /\ GoalsOK'
  BY <1>1, <1>2, <1>3, <1>4, LaunchUntroubled DEF Alone, Checks
<1>7. Planned(th[w].st.deps)'
  <2>1. PICK g : g = th[w].st.deps
    OBVIOUS
  <2>2. Done' = {} /\ stack'.tmpl = stack.tmpl
    BY <1>1, <1>2 DEF Done
  <2>3. Planned(g)
    BY <1>1, <1>4, <2>1 DEF Proceeds
  <2>4. Planned(g)'
    BY <1>1, <1>2, <2>2, <2>3, PlannedStays
  <2>5. th'[w].st.deps = g
    BY <1>3, <2>1
  <2> QED
    BY <2>4, <2>5, Zenon
<1>8. Empties(stack'.action, stack'.tmpl)
  BY <1>1, <1>2, <1>4, <1>5 DEF Proceeds, Empties
<1>9. Proceeds'
  BY <1>1, <1>2, <1>3, <1>4, <1>7, <1>8, LaunchProceeds DEF Launching
<1> QED
  BY <1>6, <1>9 DEF SmoothInv

\* An edge of the graph of a traversal: an update that waits for another, a
\* cleanup that waits for that of a row that requires or replaces its own, or a
\* cleanup that waits for the update of its row.
EdgeOf(e, current, t) ==
    \/ \E n \in TmplNames[t] : \E m \in TmplRequires[t][n] :
          e = <<<<current[n], TRUE>>, <<current[m], TRUE>>>>
    \/ \E i \in DOMAIN rsrc : \E r \in (rsrc[i].requires \cup {rsrc[i].replaces}) \cap DOMAIN rsrc :
          e = <<<<r, FALSE>>, <<i, FALSE>>>>
    \/ \E i \in DOMAIN rsrc : e = <<<<i, FALSE>>, <<i, TRUE>>>>

\* There are no others.
LEMMA EdgesAre ==
    ASSUME NEW current, NEW t, NEW e \in convg_deps(t, current, rsrc).edges
    PROVE  EdgeOf(e, current, t)
<1> DEFINE update == {<<current[n], TRUE>> : n \in TmplNames[t]}
           requires == UNION {{<<<<current[n], TRUE>>, <<current[m], TRUE>>>> :
                                 m \in TmplRequires[t][n]} : n \in TmplNames[t]}
           order == UNION {{<<<<r, FALSE>>, <<i, FALSE>>>> :
                              r \in (rsrc[i].requires \cup {rsrc[i].replaces}) \cap DOMAIN rsrc} :
                             i \in DOMAIN rsrc}
           same == {<<<<i, FALSE>>, <<i, TRUE>>>> : i \in {j \in DOMAIN rsrc : <<j, TRUE>> \in update}}
<1>1. convg_deps(t, current, rsrc).edges = (requires \cup order) \cup same
  BY DEF convg_deps
<1>2. CASE e \in requires
  <2>1. PICK n \in TmplNames[t] :
           e \in {<<<<current[n], TRUE>>, <<current[m], TRUE>>>> : m \in TmplRequires[t][n]}
    BY <1>2, Zenon
  <2> QED
    BY <2>1, Zenon DEF EdgeOf
<1>3. CASE e \in order
  <2>1. PICK i \in DOMAIN rsrc :
           e \in {<<<<r, FALSE>>, <<i, FALSE>>>> :
                    r \in (rsrc[i].requires \cup {rsrc[i].replaces}) \cap DOMAIN rsrc}
    BY <1>3, Zenon
  <2> QED
    BY <2>1, Zenon DEF EdgeOf
<1>4. CASE e \in same
  BY <1>4, Zenon DEF EdgeOf
<1> HIDE DEF requires, order, same
<1> QED
  BY <1>1, <1>2, <1>3, <1>4

\* In the graph of a traversal somebody can always begin: a cleanup node whose
\* row is required by none, or an update node that requires none.
LEMMA GraphIsGrounded ==
    ASSUME NEW t \in Tmpls, Even(t), stack.tmpl \in Tmpls,
           Acyclic(TmplNames[t], TmplRequires[t]),
           Acyclic(TmplNames[stack.tmpl], TmplRequires[stack.tmpl]),
           NEW current, \A n, m \in TmplNames[stack.tmpl] : current[n] = current[m] => n = m,
           NEW g, g = convg_deps(stack.tmpl, current, rsrc)
    PROVE  Grounded(g)
<1> DEFINE names == TmplNames[stack.tmpl]
           reqs == TmplRequires[stack.tmpl]
<1>0. \A n \in names : reqs[n] \subseteq names
  BY ConvergenceAssumption, Zenon
<1>1. /\ \A k \in g.nodes : \/ \E n \in names : k = <<current[n], TRUE>>
                            \/ \E i \in DOMAIN rsrc : k = <<i, FALSE>>
  BY Zenon DEF convg_deps
<1>2. \A e \in g.edges : EdgeOf(e, current, stack.tmpl)
  BY EdgesAre
<1>5. \A a, b, x, y : LET e == <<<<a, x>>, <<b, y>>>>
                     IN  e[1] = <<a, x>> /\ e[2] = <<b, y>> /\ e[1][2] = x /\ e[2][2] = y
  OBVIOUS
<1> SUFFICES ASSUME NEW S \in SUBSET g.nodes, S # {}
             PROVE  \E k \in S : \A d \in S : <<d, k>> \notin g.edges
  BY DEF Grounded
<1>3. CASE \E i \in DOMAIN rsrc : <<i, FALSE>> \in S
  <2> DEFINE M == {rsrc[i].name : i \in {j \in DOMAIN rsrc : <<j, FALSE>> \in S}}
  <2>1. M \in SUBSET TmplNames[t] /\ M # {}
    <3>1. M # {}
      <4>1. PICK i \in DOMAIN rsrc : <<i, FALSE>> \in S
        BY <1>3, Zenon
      <4>2. rsrc[i].name \in M
        BY <4>1, Zenon
      <4> QED
        BY <4>2, Zenon
    <3>2. \A n \in M : n \in TmplNames[t]
      <4>1. \A n \in M : \E i \in DOMAIN rsrc : n = rsrc[i].name
        BY Zenon
      <4> HIDE DEF M
      <4> QED
        BY <4>1 DEF Even
    <3> HIDE DEF M
    <3> QED
      BY <3>1, <3>2
  <2>2. PICK n \in M : TmplRequires[t][n] \cap M = {}
    <3> HIDE DEF M
    <3> QED
      BY <2>1 DEF Acyclic
  <2>3. PICK i \in DOMAIN rsrc : <<i, FALSE>> \in S /\ rsrc[i].name = n
    BY <2>2, Zenon
  <2>4. ASSUME NEW d \in S, <<d, <<i, FALSE>>>> \in g.edges PROVE FALSE
    <3> DEFINE e == <<d, <<i, FALSE>>>>
    <3>0. e[1] = d /\ e[2] = <<i, FALSE>> /\ e[2][1] = i /\ e[2][2] = FALSE
      BY Zenon
    <3>1. e \in g.edges
      BY <2>4
    <3> HIDE DEF e
    <3>2. PICK j \in DOMAIN rsrc, r \in DOMAIN rsrc :
             /\ r \in rsrc[j].requires \cup {rsrc[j].replaces}
             /\ e = <<<<r, FALSE>>, <<j, FALSE>>>>
      <4>1. ~\E a, b, x : e = <<<<a, x>>, <<b, TRUE>>>>
        <5> SUFFICES ASSUME NEW a, NEW b, NEW x, e = <<<<a, x>>, <<b, TRUE>>>> PROVE FALSE
          BY Zenon
        <5>1. e[2][2] = TRUE
          BY <1>5
        <5> QED
          BY <3>0, <5>1
      <4>2. EdgeOf(e, current, stack.tmpl)
        BY <1>2, <3>1
      <4> QED
        BY <4>1, <4>2, Zenon DEF EdgeOf
    <3>3. j = i /\ d = <<r, FALSE>>
      BY <3>0, <3>2, Zenon
    <3>4. r \in rsrc[i].requires
      BY <3>2, <3>3 DEF Even
    <3>5. rsrc[r].name \in TmplRequires[t][n]
      BY <2>3, <3>4 DEF Even, RequiresOK
    <3>6. rsrc[r].name \in M
      BY <2>4, <3>3, Zenon
    <3> HIDE DEF M
    <3> QED
      BY <2>2, <3>5, <3>6
  <2> QED
    BY <2>3, <2>4, Zenon
<1>4. CASE ~\E i \in DOMAIN rsrc : <<i, FALSE>> \in S
  <2> DEFINE N == {n \in names : <<current[n], TRUE>> \in S}
  <2>1. N \in SUBSET names /\ N # {} /\ \A d \in S : \E n \in N : d = <<current[n], TRUE>>
    <3>1. \A d \in S : \E n \in names : d = <<current[n], TRUE>>
      <4> SUFFICES ASSUME NEW d \in S PROVE \E n \in names : d = <<current[n], TRUE>>
        BY Zenon
      <4>1. d \in g.nodes
        OBVIOUS
      <4>2. ~\E i \in DOMAIN rsrc : d = <<i, FALSE>>
        BY <1>4, Zenon
      <4> QED
        BY <1>1, <4>1, <4>2, Zenon
    <3>2. \A d \in S : \E n \in N : d = <<current[n], TRUE>>
      BY <3>1, Zenon
    <3> QED
      BY <3>2, Zenon
  <2>2. PICK m \in N : \A n \in N : m \notin reqs[n]
    <3> HIDE DEF N
    <3> QED
      BY <2>1 DEF Acyclic
  <2>3. ASSUME NEW d \in S, <<d, <<current[m], TRUE>>>> \in g.edges PROVE FALSE
    <3> DEFINE e == <<d, <<current[m], TRUE>>>>
    <3>1. PICK n \in N : d = <<current[n], TRUE>>
      BY <2>1, <2>3, Zenon
    <3>0. /\ e[1] = d /\ e[2] = <<current[m], TRUE>> /\ e[2][1] = current[m]
          /\ e[1][1] = current[n] /\ e[1][2] = TRUE
      BY <3>1, Zenon
    <3>2. e \in g.edges
      BY <2>3
    <3> HIDE DEF e
    <3>3. PICK a \in names : \E b \in reqs[a] : e = <<<<current[a], TRUE>>, <<current[b], TRUE>>>>
      <4>1. ~\E a, b, y : e = <<<<a, FALSE>>, <<b, y>>>>
        <5> SUFFICES ASSUME NEW a, NEW b, NEW y, e = <<<<a, FALSE>>, <<b, y>>>> PROVE FALSE
          BY Zenon
        <5>1. e[1][2] = FALSE
          BY <1>5
        <5> QED
          BY <3>0, <5>1
      <4>2. EdgeOf(e, current, stack.tmpl)
        BY <1>2, <3>2
      <4> QED
        BY <4>1, <4>2, Zenon DEF EdgeOf
    <3>4. PICK b \in reqs[a] : e = <<<<current[a], TRUE>>, <<current[b], TRUE>>>>
      BY <3>3
    <3>5. current[a] = current[n] /\ current[b] = current[m]
      BY <3>0, <3>4
    <3>6. a = n /\ b = m
      BY <1>0, <3>4, <3>5
    <3> QED
      BY <2>2, <3>4, <3>6, Zenon
  <2> QED
    BY <2>2, <2>3, Zenon
<1> QED
  BY <1>3, <1>4, Zenon

\* The graph leads to where the traversal should go.
LEMMA GraphIsPlanned ==
    ASSUME Smooth, TypeOK, TypeOK', TmplInv, NEW w \in Threads, th[w].pc = "resources",
           NEW current \in [TmplNames[stack.tmpl] -> DOMAIN rsrc'], Lays(w, current),
           DOMAIN sp = {}, NEW t \in Tmpls, Even(t),
           NEW g, g = convg_deps(stack.tmpl, current, rsrc)
    PROVE  Planned(g)'
<1> DEFINE names == TmplNames[stack.tmpl]
<1>0. /\ stack.tmpl \in Tmpls /\ \A n \in names : TmplRequires[stack.tmpl][n] \subseteq names
      /\ Acyclic(TmplNames[t], TmplRequires[t])
      /\ Acyclic(TmplNames[stack.tmpl], TmplRequires[stack.tmpl])
  BY ConvergenceAssumption, Zenon DEF TypeOK, Stacks, Smooth
<1>1. /\ UNCHANGED <<stack, phys, sp>> /\ DOMAIN rsrc \subseteq DOMAIN rsrc'
      /\ \A i \in DOMAIN rsrc : Same(rsrc'[i], rsrc[i]) /\ rsrc'[i].replaces = rsrc[i].replaces
      /\ \A i \in DOMAIN rsrc' \ DOMAIN rsrc :
            /\ i \notin Ids /\ rsrc'[i].action = "INIT" /\ rsrc'[i].tmpl = stack.tmpl
            /\ rsrc'[i].replaces = None
            /\ rsrc'[i].name \in names /\ current[rsrc'[i].name] = i
      /\ \A n \in names : current[n] \in DOMAIN rsrc' /\ rsrc'[current[n]].name = n
  BY DEF Lays, NewRow
<1>2. \A i \in DOMAIN rsrc : /\ rsrc[i].tmpl # stack.tmpl /\ rsrc[i].replaces \in Ids \cup {None}
                             /\ rsrc[i].replaces \notin DOMAIN rsrc
  BY DEF TmplInv, TypeOK, Rows, Even
<1>3. None \notin DOMAIN rsrc'
  BY DEF TypeOK, Ids, None
<1>4. \A k : k \in g.nodes <=> \/ \E n \in names : k = <<current[n], TRUE>>
                               \/ \E i \in DOMAIN rsrc : k = <<i, FALSE>>
  BY DEF convg_deps
<1>5. \A e \in g.edges : EdgeOf(e, current, stack.tmpl)
  BY EdgesAre
<1>6. Grounded(g)'
  <2>1. Grounded(g)
    BY <1>0, <1>1, GraphIsGrounded
  <2> QED
    BY <2>1 DEF Grounded
<1>7. Done' = {}
  BY <1>1 DEF Done
<1>8. \A k \in g.nodes : k[2] => \E n \in names : k = <<current[n], TRUE>>
  <2> SUFFICES ASSUME NEW k \in g.nodes, k[2] PROVE \E n \in names : k = <<current[n], TRUE>>
    BY Zenon
  <2>1. ASSUME NEW i \in DOMAIN rsrc, k = <<i, FALSE>> PROVE FALSE
    <3>1. k[2] = FALSE
      BY <2>1
    <3> QED
      BY <3>1
  <2> QED
    BY <1>4, <2>1, Zenon
<1>9. UpdatesOK(g)'
  <2>1. ASSUME NEW k \in g.nodes, k[2] PROVE k[1] \in DOMAIN rsrc'
    <3>1. PICK n \in names : k = <<current[n], TRUE>>
      BY <1>8, <2>1, Zenon
    <3> QED
      BY <1>1, <3>1
  <2>2. ASSUME NEW e \in g.edges, e[1][2], e[1][1] \in DOMAIN rsrc', e[2][1] \in DOMAIN rsrc'
        PROVE  rsrc'[e[2][1]].name \in TmplRequires[stack.tmpl][rsrc'[e[1][1]].name]
    <3>1. \A a, b, x : <<<<a, FALSE>>, <<b, x>>>>[1][2] = FALSE
      OBVIOUS
    <3>2. ~\E a, b, x : e = <<<<a, FALSE>>, <<b, x>>>>
      BY <2>2, <3>1, Zenon
    <3>3. EdgeOf(e, current, stack.tmpl)
      BY <1>5
    <3>4. PICK n \in names : \E m \in TmplRequires[stack.tmpl][n] :
             e = <<<<current[n], TRUE>>, <<current[m], TRUE>>>>
      BY <3>2, <3>3, Zenon DEF EdgeOf
    <3>5. PICK m \in TmplRequires[stack.tmpl][n] : e = <<<<current[n], TRUE>>, <<current[m], TRUE>>>>
      BY <3>4
    <3>6. e[1][1] = current[n] /\ e[2][1] = current[m] /\ m \in names
      BY <1>0, <3>5
    <3> QED
      BY <1>1, <3>6
  <2>3. ASSUME NEW n \in names
        PROVE  \E k \in g.nodes : k[2] /\ rsrc'[k[1]].name = n
    <3> DEFINE k == <<current[n], TRUE>>
    <3>1. k \in g.nodes /\ k[2] /\ k[1] = current[n]
      BY <1>4, Zenon
    <3> QED
      BY <1>1, <3>1, Zenon
  <2> QED
    BY <1>1, <1>7, <2>1, <2>2, <2>3 DEF UpdatesOK
<1>10. \A i \in DOMAIN rsrc' : rsrc'[i].tmpl = stack.tmpl => i \notin DOMAIN rsrc
  BY <1>1, <1>2 DEF Same
<1>11. OursOK(g)'
  <2>1. ASSUME NEW i \in DOMAIN rsrc', rsrc'[i].tmpl = stack'.tmpl
        PROVE  /\ rsrc'[i].name \in TmplNames[stack'.tmpl]
               /\ rsrc'[i].action # "INIT" => RequiresOK(i, stack.tmpl)'
               /\ \A j \in DOMAIN rsrc' : rsrc'[j].name = rsrc'[i].name =>
                     /\ rsrc'[j].tmpl = stack'.tmpl => i = j
                     /\ rsrc'[j].tmpl # stack'.tmpl /\ <<j, TRUE>> \in g.nodes => rsrc'[j].replaced_by # None
    <3>1. /\ i \notin DOMAIN rsrc /\ rsrc'[i].action = "INIT" /\ rsrc'[i].name \in names
          /\ current[rsrc'[i].name] = i
      BY <1>1, <1>10, <2>1
    <3>2. ASSUME NEW j \in DOMAIN rsrc', rsrc'[j].name = rsrc'[i].name, rsrc'[j].tmpl = stack.tmpl
          PROVE  i = j
      BY <1>1, <1>10, <3>1, <3>2
    <3>3. ASSUME NEW j \in DOMAIN rsrc', rsrc'[j].name = rsrc'[i].name, <<j, TRUE>> \in g.nodes
          PROVE  i = j
      <4>1. <<j, TRUE>>[2] = TRUE
        OBVIOUS
      <4>2. PICK n \in names : <<j, TRUE>> = <<current[n], TRUE>>
        BY <1>8, <3>3, <4>1, Zenon
      <4>3. j = current[n]
        BY <4>2
      <4> QED
        BY <1>1, <3>1, <3>3, <4>3
    <3> QED
      BY <1>1, <2>1, <3>1, <3>2, <3>3, Zenon
  <2> QED
    BY <2>1, Zenon DEF OursOK
<1>12. ASSUME NEW i \in DOMAIN rsrc'
       PROVE  /\ rsrc'[i].tmpl # stack'.tmpl => <<i, FALSE>> \in g.nodes
              /\ ReplacesOK(rsrc[i])'
  <2>1. rsrc'[i].tmpl # stack'.tmpl => i \in DOMAIN rsrc
    BY <1>1
  <2>2. rsrc'[i].replaces \notin DOMAIN rsrc'
    <3>1. CASE i \in DOMAIN rsrc
      BY <1>1, <1>2, <1>3, <3>1
    <3>2. CASE i \notin DOMAIN rsrc
      BY <1>1, <1>3, <3>2
    <3> QED
      BY <3>1, <3>2
  <2> QED
    BY <1>4, <2>1, <2>2, Zenon DEF ReplacesOK
<1> QED
  BY <1>6, <1>9, <1>11, <1>12, Zenon DEF Planned

\* The rows are laid, and the graph.
LEMMA LayKeepsSmooth ==
    ASSUME Smooth, TravInv, TypeOK', SeqInv, OrderInv, SmoothInv, NEW w \in Threads,
           UpdateOrStoreResources(w)
    PROVE  SmoothInv'
<1>1. /\ th[w].pc = "resources"
      /\ \E current \in [TmplNames[stack.tmpl] -> DOMAIN rsrc'] : Lays(w, current)
  BY UpdateOrStoreResourcesDoes
<1>2. PICK current \in [TmplNames[stack.tmpl] -> DOMAIN rsrc'] : Lays(w, current)
  BY <1>1
<1>3. PICK g : g = convg_deps(stack.tmpl, current, rsrc)
  OBVIOUS
<1>4. /\ TypeOK /\ stack.live /\ casts = {} /\ DOMAIN sp = {} /\ th[w].st \in Stacks
      /\ th[w].st.status = "IN_PROGRESS" /\ stack.status = "IN_PROGRESS"
      /\ \A v \in Threads \ {w} : ~Busy(th[v])
  BY <1>1, LaunchIs DEF Launching
<1>5. /\ UNCHANGED <<stack, casts, phys>> /\ DOMAIN rsrc \subseteq DOMAIN rsrc'
      /\ \A i \in DOMAIN rsrc : Same(rsrc'[i], rsrc[i])
      /\ \A i \in DOMAIN rsrc' \ DOMAIN rsrc : \E n \in Names : rsrc'[i] = NewRow(n, stack.tmpl, {}, None)
      /\ \A v \in Threads \ {w} : th'[v] = th[v]
      /\ th'[w].pc = "store2" /\ th'[w].st = [th[w].st EXCEPT !.deps = g]
  BY <1>2, <1>3 DEF Lays, Becomes
<1>6. th'[w].st.deps = g /\ th'[w].st.status = "IN_PROGRESS"
  BY <1>4, <1>5 DEF Stacks
<1>7. \A i \in DOMAIN rsrc' \ DOMAIN rsrc : rsrc'[i].action = "INIT" /\ rsrc'[i].status = "COMPLETE"
  BY <1>5 DEF NewRow
<1>8. Proceeds /\ Untroubled /\ GoalsOK
  BY <1>4 DEF SmoothInv
<1>9. Untroubled' /\ GoalsOK'
  BY <1>4, <1>5, <1>6, <1>7, <1>8, LaunchUntroubled, Zenon DEF Same, Checks
<1>10. PICK t \in Tmpls : Even(t)
  BY <1>1, <1>8 DEF Proceeds
<1>11. Planned(g)'
  <2>1. TmplInv
    BY <1>4 DEF OrderInv
  <2> HIDE <1>3
  <2> QED
    BY <1>1, <1>2, <1>3, <1>4, <1>10, <2>1, GraphIsPlanned
<1>12. Planned(th[w].st.deps)'
  BY <1>6, <1>11, Zenon
<1>13. Alone(w) /\ Empties(stack'.action, stack'.tmpl)
  BY <1>4, <1>5, <1>8 DEF Alone, Proceeds
<1>14. \A i \in DOMAIN rsrc : rsrc'[i].action = rsrc[i].action
  BY <1>5 DEF Same
<1>15. Proceeds'
  BY <1>1, <1>4, <1>5, <1>7, <1>8, <1>12, <1>13, <1>14, LaunchProceeds, Zenon DEF Launching
<1> QED
  BY <1>9, <1>15 DEF SmoothInv

\* The sync points are created, and the leaves are cast.
LEMMA TriggerKeepsSmooth ==
    ASSUME TravInv, SeqInv, SmoothInv, NEW w \in Threads, TriggerLeaves(w)
    PROVE  SmoothInv'
<1>1. /\ th[w].pc = "trigger" /\ UNCHANGED <<stack, rsrc, nextId, nextTrav, phys, dead>>
      /\ th[w].st.deps = stack.deps /\ th[w].st.trav = stack.trav
      /\ DOMAIN sp' = {stack.trav}
      /\ sp'[stack.trav] = [n \in stack.deps.nodes \cup {StackNode} |-> {}]
      /\ casts' = {Cast(n[1], stack.trav, n[2], {}) : n \in leaves(stack.deps)}
      /\ Gone(w) \/ Becomes(w, "complete", th[w].st, th[w].rs, th[w].out)
  BY TriggerLeavesDoes, Zenon
<1>2. /\ TypeOK /\ stack.live /\ DOMAIN sp = {} /\ stack.status = "IN_PROGRESS"
      /\ th[w].st.status = "IN_PROGRESS" /\ \A v \in Threads \ {w} : ~Busy(th[v])
  BY <1>1, LaunchIs DEF Launching
<1>3. /\ \A v \in Threads \ {w} : th'[v] = th[v]
      /\ th'[w].pc \in {"idle", "finished", "complete"} /\ th'[w].st.status = "IN_PROGRESS"
  <2>1. CASE Gone(w)
    BY <2>1 DEF Gone, Returned, Idle, NoStack
  <2>2. CASE Becomes(w, "complete", th[w].st, th[w].rs, th[w].out)
    BY <1>2, <2>2 DEF Becomes
  <2> QED
    BY <1>1, <2>1, <2>2
<1>4. Proceeds /\ Untroubled /\ GoalsOK
  BY <1>2 DEF SmoothInv
<1>5. Untroubled' /\ GoalsOK'
  <2>1. th'[w].pc \notin Checks \cup {"store1", "fail", "reload"}
    BY <1>3 DEF Checks
  <2> QED
    BY <1>1, <1>2, <1>3, <1>4, <2>1, LaunchUntroubled
<1>6. \A v \in Threads : /\ th[v].pc \notin Checks /\ th'[v].pc \notin Checks
                         /\ th'[v].pc \notin Launching
  BY <1>1, <1>2, <1>3 DEF Busy, Launching, Checks
<1>7. Checking' = {}
  BY <1>6 DEF Checking
<1>8. RowsStay'
  <2>1. RowsStay /\ {"handler", "destroy"} \subseteq Checks
    BY <1>4 DEF Proceeds, Checks
  <2>2. \A i \in DOMAIN rsrc : rsrc[i].action # "DELETE"
    BY <1>6, <2>1 DEF RowsStay
  <2> QED
    BY <1>1, <1>6, <2>1, <2>2 DEF RowsStay
<1>9. Points' = [n \in stack.deps.nodes \cup {StackNode} |-> {}]
  BY <1>1 DEF Points
<1>10. Done' = {}
  <2>1. Done' = UNION {UNION {senders(sp'[t][n]) : n \in DOMAIN sp'[t]} : t \in DOMAIN sp'}
    BY DEF Done, senders
  <2>2. senders({}) = {}
    BY DEF senders
  <2>3. \A t \in DOMAIN sp' : \A n \in DOMAIN sp'[t] : sp'[t][n] = {}
    BY <1>1
  <2> QED
    BY <2>1, <2>2, <2>3, Zenon
<1>11. Planned(stack.deps)'
  <2>1. PICK g : g = stack.deps
    OBVIOUS
  <2>2. Planned(th[w].st.deps)
    BY <1>1, <1>4 DEF Proceeds
  <2>3. Planned(g)
    BY <1>1, <2>1, <2>2
  <2>4. Planned(g)'
    BY <1>1, <1>2, <1>10, <2>3, PlannedStays
  <2>5. stack'.deps = g
    BY <1>1, <2>1
  <2> QED
    BY <2>4, <2>5, Zenon
<1>12. \A n : DataNames({}, n)'
  BY DEF DataNames
<1>13. \A m \in Served' : m.data = {}
  BY <1>1 DEF Served, Cast
<1>14. ASSUME NEW n \in DOMAIN Points', n \in stack'.deps.nodes, n[2], n[1] \in DOMAIN rsrc'
       PROVE  DataNames(Points[n], rsrc[n[1]].name)'
  <2>1. Points'[n] = {}
    BY <1>9
  <2> QED
    BY <2>1 DEF DataNames
<1>15. ASSUME NEW m \in Served', m.upd PROVE DataNames(m.data, rsrc[m.id].name)'
  BY <1>13 DEF DataNames
<1>16. DOMAIN sp' # {}
  BY <1>1
<1>17. Running'
  BY <1>7, <1>11, <1>14, <1>15, <1>16, Zenon DEF Running
<1>18. Empties(stack'.action, stack'.tmpl) /\ stack'.status = "IN_PROGRESS"
  BY <1>1, <1>2, <1>4 DEF Proceeds
<1>19. Proceeds'
  BY <1>6, <1>8, <1>17, <1>18, RunningProceeds
<1> QED
  BY <1>5, <1>19 DEF SmoothInv

-----------------------------------------------------------------------------
(* The invariant of operations that succeed.                                 *)

\* The creation is about to be stored and there is nothing yet.
LEMMA SmoothInitially == ASSUME Smooth PROVE Init => SmoothInv
<1> SUFFICES ASSUME Init PROVE SmoothInv
  OBVIOUS
<1> DEFINE x == [Idle EXCEPT !.pc = "store1", !.st = stack, !.goal = Op[Creator]]
<1>1. /\ stack = [NoStack EXCEPT !.live = TRUE, !.tmpl = Op[Creator].tmpl]
      /\ rsrc = << >> /\ casts = {} /\ phys = {}
      /\ th = [w \in Threads |-> IF w = Creator THEN x ELSE Idle]
  BY Zenon DEF Init
<1>2. stack.live /\ stack.action = "CREATE" /\ stack.status = "IN_PROGRESS"
  BY <1>1 DEF NoStack
<1>3. /\ x.pc = "store1" /\ x.goal = Op[Creator] /\ x.st = stack
      /\ Idle.pc = "idle" /\ Idle.st.status = "IN_PROGRESS"
      /\ Creator \in Threads /\ Creator \in Ops
  BY ConvergenceAssumption DEF Idle, NoStack, Threads
<1> HIDE DEF x
<1>4. /\ th[Creator] = x /\ \A w \in Threads \ {Creator} : th[w] = Idle
      /\ \A w \in Threads : th[w].pc \in {"idle", "store1"}
  BY <1>1, <1>3
<1>5. \A w \in Threads : th[w].st.status # "FAILED"
  BY <1>2, <1>3, <1>4
<1>6. DOMAIN rsrc = {} /\ phys = {}
  BY <1>1
<1>7. Untroubled
  BY <1>2, <1>4, <1>5, <1>6 DEF Untroubled, Checks
<1>8. GoalsOK
  <2>1. Empties(Op[Creator].action, Op[Creator].tmpl)
    BY <1>3 DEF Smooth, Empties
  <2> QED
    BY <1>3, <1>4, <2>1 DEF GoalsOK
<1>9. RowsStay /\ Empties(stack.action, stack.tmpl)
  BY <1>2, <1>4, <1>6 DEF RowsStay, Empties
<1>10. \E t \in Tmpls : Even(t)
  BY <1>6, ConvergenceAssumption DEF Even
<1>11. th[Creator].pc \in Launching /\ \A w \in Threads : th[w].pc \notin {"store2", "trigger"}
  BY <1>3, <1>4 DEF Launching
<1>12. Proceeds
  BY <1>2, <1>3, <1>9, <1>10, <1>11, Zenon DEF Proceeds
<1> QED
  BY <1>7, <1>8, <1>12 DEF SmoothInv

\* A step that changes nothing.
LEMMA StutterKeepsSmooth ==
    ASSUME TravInv, SeqInv, SmoothInv, UNCHANGED vars
    PROVE  SmoothInv'
<1>1. UNCHANGED <<stack, rsrc, nextId, sp, casts, phys, th>>
  BY DEF vars
<1>2. /\ Creator \in Threads /\ th[Creator].pc \notin Checks /\ th[Creator].pc # "idle" /\ TypeOK
  BY ConvergenceAssumption DEF TravInv, WorkersCheck, Threads
<1>3. Untroubled' /\ GoalsOK'
  BY <1>1 DEF SmoothInv, Untroubled, GoalsOK, Empties
<1>4. ASSUME stack.live, \A v \in Threads : th[v].pc \notin Launching PROVE Proceeds'
  <2>1. Proceeds
    BY <1>4 DEF SmoothInv
  <2>2. QuietStep(Creator)
    BY <1>1, <1>2, <1>4 DEF QuietStep, StackKept, PointsKept
  <2>3. stack'.status = "COMPLETE" => Converged /\ Checking = {} /\ Served = {}
    BY <1>1, <2>1 DEF Proceeds
  <2>4. Empties(stack'.action, stack'.tmpl)
    BY <1>1, <2>1 DEF Proceeds
  <2> QED
    BY <1>1, <1>2, <1>4, <2>1, <2>2, <2>3, <2>4, QuietProceeds
<1>5. ASSUME stack.live, NEW w \in Threads, th[w].pc \in Launching PROVE Proceeds'
  <2>1. Proceeds /\ casts = {} /\ DOMAIN sp = {} /\ \A v \in Threads \ {w} : ~Busy(th[v])
    BY <1>5, LaunchIs DEF SmoothInv
  <2>2. Alone(w) /\ StackKept
    BY <1>1, <2>1 DEF Alone, StackKept
  <2>3. stack'.status = "COMPLETE" => Converged' /\ casts' = {}
    BY <1>1, <2>1, <2>2, SameStays DEF Proceeds
  <2>4. th'[w].pc \in {"store1", "delete_prev", "resources"} => \E t \in Tmpls : Even(t)'
    BY <1>1, <2>1, <2>2, SameStays DEF Proceeds
  <2>5. ASSUME th'[w].pc \in {"store2", "trigger"} PROVE Planned(th[w].st.deps)'
    <3>1. PICK g : g = th[w].st.deps
      OBVIOUS
    <3>2. Planned(g)
      BY <1>1, <2>1, <2>5, <3>1 DEF Proceeds
    <3>3. Done' = {}
      BY <1>1, <2>1 DEF Done
    <3>4. Planned(g)'
      BY <1>1, <2>1, <3>2, <3>3, PlannedStays
    <3>5. th'[w].st.deps = g
      BY <1>1, <3>1
    <3> QED
      BY <3>4, <3>5, Zenon
  <2>6. Empties(stack'.action, stack'.tmpl)
    BY <1>1, <2>1 DEF Proceeds
  <2> QED
    BY <1>1, <1>5, <2>1, <2>2, <2>3, <2>4, <2>5, <2>6, LaunchProceeds
<1> QED
  BY <1>1, <1>3, <1>4, <1>5 DEF SmoothInv

\* Nothing fails, and no failure is waited for.
LEMMA FailsNever ==
    ASSUME Smooth, SmoothInv, NEW w \in Threads
    PROVE  /\ ~HandleFailure(w) /\ ~ReloadAfterTimeout(w)
           /\ \A m \in casts : ~ReceiveLate(w, m)
<1>1. th[w].pc \notin {"fail", "reload"} /\ FaultKinds = {}
  BY DEF SmoothInv, Untroubled, Smooth
<1> QED
  BY <1>1 DEF HandleFailure, ReloadAfterTimeout, ReceiveLate, has_timed_out, Fault, At

\* A stack that is gone does not come back.
LEMMA StackStaysGone ==
    ASSUME TravInv, SeqInv, ~stack.live, NEW w \in Threads, ConvergeStep(w) \/ CheckStep(w)
    PROVE  ~stack'.live
<1>1. stack \in Stacks /\ \A e : ~Current(e)
  BY DEF TravInv, TypeOK, Current
<1>2. MarkComplete(w) \/ HandleFailure(w) \/ PurgeTemplate(w) \/ Rollback(w) => UNCHANGED stack
  <2>1. MarkComplete(w) => UNCHANGED stack
    BY <1>1 DEF MarkComplete, StateSet
  <2>2. HandleFailure(w) => UNCHANGED stack
    BY <1>1 DEF HandleFailure, StateSet
  <2>3. PurgeTemplate(w) => UNCHANGED stack
    BY <1>1 DEF PurgeTemplate, Store
  <2>4. Rollback(w) => UNCHANGED stack
    BY <1>1 DEF Rollback, Store
  <2> QED
    BY <2>1, <2>2, <2>3, <2>4
<1>3. PurgeSyncPoints(w) => ~stack'.live
  BY <1>1 DEF PurgeSyncPoints, Stacks
<1>4. /\ AcquireRead(w) \/ Acquire(w) \/ BeginCreate(w) \/ BeginUpdate(w) \/ BeginCleanup(w) => UNCHANGED stack
      /\ HandlerDone(w) \/ (\E k \in {"fail", "timeout"} : HandlerFails(w, k)) => UNCHANGED stack
      /\ Destroy(w) \/ Release(w) \/ Replace(w) \/ TrySteal(w) \/ Steal(w) => UNCHANGED stack
      /\ MarkFailed(w) \/ ReloadAfterTimeout(w) \/ Retrigger(w) \/ Propagate(w) => UNCHANGED stack
  <2>1. AcquireRead(w) \/ Acquire(w) \/ BeginCreate(w) \/ BeginUpdate(w) \/ BeginCleanup(w) => UNCHANGED stack
    BY Zenon DEF AcquireRead, Acquire, BeginCreate, BeginUpdate, BeginCleanup, db
  <2>2. HandlerDone(w) \/ (\E k \in {"fail", "timeout"} : HandlerFails(w, k)) => UNCHANGED stack
    BY Zenon DEF HandlerDone, HandlerFails
  <2>3. Destroy(w) \/ Release(w) \/ Replace(w) \/ TrySteal(w) \/ Steal(w) => UNCHANGED stack
    BY Zenon DEF Destroy, Release, Replace, TrySteal, Steal, db
  <2>4. MarkFailed(w) \/ ReloadAfterTimeout(w) \/ Retrigger(w) \/ Propagate(w) => UNCHANGED stack
    BY Zenon DEF MarkFailed, ReloadAfterTimeout, Retrigger, Propagate, db
  <2> QED
    BY <2>1, <2>2, <2>3, <2>4
<1> QED
  BY <1>2, <1>3, <1>4, GoneIsNotPrepared DEF ConvergeStep, CheckStep

\* What is left to do for a stack that is gone.
LEMMA GoneKeepsSmooth ==
    ASSUME Smooth, TravInv, LockInv, SeqInv, SmoothInv, NEW w \in Threads, ~stack'.live,
           ConvergeStep(w) \/ CheckStep(w)
    PROVE  SmoothInv'
<1>0. OneByOne /\ TypeOK /\ Untroubled /\ GoalsOK
  BY DEF Smooth, InOrder, TravInv, SmoothInv
<1>1. ~Steal(w) /\ ~MarkFailed(w) /\ ~Rollback(w) /\ ~HandleFailure(w) /\ ~ReloadAfterTimeout(w)
  BY <1>0, NeverHappens, FailsNever
<1>2. /\ StoreTraversal(w) => stack'.live
      /\ DeletePrevSyncPoints(w) => stack'.live
      /\ UpdateOrStoreResources(w) => stack'.live
      /\ StoreDeps(w) => stack'.live
      /\ TriggerLeaves(w) => stack'.live
  <2>1. CASE ~stack.live
    BY <2>1, GoneIsNotPrepared
  <2>2. CASE stack.live
    <3>1. StoreTraversal(w) => stack'.live
      BY StoreTraversalDoes
    <3>2. DeletePrevSyncPoints(w) => stack'.live
      BY <2>2, DeletePrevSyncPointsDoes
    <3>3. UpdateOrStoreResources(w) => stack'.live
      BY <2>2, UpdateOrStoreResourcesDoes, Zenon DEF Lays
    <3>4. ASSUME StoreDeps(w) PROVE stack'.live
      <4>1. th[w].pc = "store2" /\ stack' = th[w].st
        BY <3>4, StoreDepsDoes
      <4> QED
        BY <4>1, LaunchIs DEF Launching
    <3>5. TriggerLeaves(w) => stack'.live
      BY <2>2, TriggerLeavesDoes
    <3> QED
      BY <3>1, <3>2, <3>3, <3>4, <3>5
  <2> QED
    BY <2>1, <2>2
<1>3. Untroubled' /\ GoalsOK'
  <2>1. CASE MarkComplete(w) \/ PurgeTemplate(w) \/ PurgeSyncPoints(w) \/ Retrigger(w)
    BY <1>0, <2>1, EndsAre, EndUntroubled
  <2>2. CASE Replace(w) \/ Propagate(w)
    BY <1>0, <2>2, ReportUntroubled
  <2>3. CASE \/ AcquireRead(w) \/ Acquire(w) \/ BeginCreate(w) \/ BeginUpdate(w) \/ BeginCleanup(w)
             \/ HandlerDone(w) \/ (\E k \in {"fail", "timeout"} : HandlerFails(w, k))
             \/ Destroy(w) \/ Release(w) \/ TrySteal(w)
    BY <1>0, <2>3, WorkUntroubled
  <2> QED
    BY <1>1, <1>2, <2>1, <2>2, <2>3 DEF ConvergeStep, CheckStep
<1> QED
  BY <1>3 DEF SmoothInv

\* Every step keeps the invariant.
LEMMA SmoothStep ==
    ASSUME Smooth, TravInv, TravInv', LockInv, SeqInv, SeqInv', OrderInv, SmoothInv, [Next]_vars
    PROVE  SmoothInv'
<1>0. OneByOne /\ TypeOK' /\ Workers \subseteq Threads /\ Ops \subseteq Threads
  BY DEF Smooth, InOrder, TravInv, Threads
<1>1. CASE UNCHANGED vars
  BY <1>1, StutterKeepsSmooth
<1>2. ASSUME NEW o \in Ops, Request(o) PROVE SmoothInv'
  BY <1>2, RequestKeepsSmooth
<1>3. ASSUME NEW w \in Threads, ConvergeStep(w) PROVE SmoothInv'
  <2>1. CASE stack.live /\ stack'.live
    <3>1. ~Rollback(w)
      BY <1>0, NeverHappens
    <3>2. /\ StoreTraversal(w) \/ DeletePrevSyncPoints(w) => SmoothInv'
          /\ UpdateOrStoreResources(w) => SmoothInv'
          /\ StoreDeps(w) => SmoothInv'
          /\ TriggerLeaves(w) => SmoothInv'
      BY <1>0, StoreKeepsSmooth, LayKeepsSmooth, StoreDepsKeepsSmooth, TriggerKeepsSmooth
    <3>3. MarkComplete(w) \/ PurgeTemplate(w) \/ PurgeSyncPoints(w) => SmoothInv'
      BY <2>1, EndKeepsSmooth
    <3> QED
      BY <1>3, <3>1, <3>2, <3>3 DEF ConvergeStep
  <2>2. CASE ~stack'.live
    BY <1>3, <2>2, GoneKeepsSmooth
  <2>3. CASE ~stack.live /\ stack'.live
    BY <1>3, <2>3, StackStaysGone
  <2> QED
    BY <2>1, <2>2, <2>3
<1>4. ASSUME NEW w \in Threads, CheckStep(w) PROVE SmoothInv'
  <2>0. /\ ~Steal(w) /\ ~MarkFailed(w) /\ ~HandleFailure(w) /\ ~ReloadAfterTimeout(w)
    BY <1>0, NeverHappens, FailsNever
  <2>1. CASE stack.live /\ stack'.live
    <3>1. CASE Replace(w) \/ Propagate(w) \/ Retrigger(w)
      BY <2>1, <3>1, ReplaceKeepsSmooth, PropagateKeepsSmooth, EndKeepsSmooth
    <3>2. CASE \/ AcquireRead(w) \/ Acquire(w) \/ BeginCreate(w) \/ BeginUpdate(w) \/ BeginCleanup(w)
               \/ HandlerDone(w) \/ (\E k \in {"fail", "timeout"} : HandlerFails(w, k))
               \/ Destroy(w) \/ Release(w) \/ TrySteal(w)
      BY <2>1, <3>2, WorkKeepsSmooth
    <3> QED
      BY <1>4, <2>0, <3>1, <3>2 DEF CheckStep
  <2>2. CASE ~stack'.live
    BY <1>4, <2>2, GoneKeepsSmooth
  <2>3. CASE ~stack.live /\ stack'.live
    BY <1>4, <2>3, StackStaysGone
  <2> QED
    BY <2>1, <2>2, <2>3
<1>5. ASSUME NEW w \in Workers, NEW m \in casts, Receive(w, m) \/ ReceiveLate(w, m) PROVE SmoothInv'
  BY <1>0, <1>5, ReceiveKeepsSmooth, FailsNever
<1>6. ASSUME NEW e \in Engines, Crash(e) PROVE SmoothInv'
  <2>1. Creator \in Threads
    BY ConvergenceAssumption DEF Threads
  <2> QED
    BY <1>0, <1>6, <2>1, NeverHappens
<1> QED
  BY <1>1, <1>2, <1>3, <1>4, <1>5, <1>6 DEF Next

\* When operations follow one another and nothing fails, what a traversal has
\* not served yet it still has in its graph, and a stack that is COMPLETE has
\* all of its rows in service.
THEOREM SmoothInvariant == ASSUME Smooth PROVE Spec => []SmoothInv
<1>1. InOrder /\ OneByOne
  BY DEF Smooth, InOrder
<1>2. Spec => []SeqInv
  BY <1>1, SeqInvariant
<1>3. Spec => []OrderInv
  BY <1>1, OrderInvariant
<1>4. TravInv /\ TravInv' /\ LockInv /\ SeqInv /\ SeqInv' /\ OrderInv /\ SmoothInv /\ [Next]_vars => SmoothInv'
  BY SmoothStep
<1>5. Init => SmoothInv
  BY SmoothInitially
<1> QED
  BY <1>2, <1>3, <1>4, <1>5, TraversalInvariant, LockInvariant, PTL DEF Spec

\* A COMPLETE stack leaves nothing over: it has as many resources as names,
\* and no row without its resource.  What mark_complete() is said to allow,
\* superfluous resources that still await their cleanup, does not occur: the
\* roots of the graph report after its cleanup nodes too.
NothingLeftOver ==
    stack.live /\ stack.status = "COMPLETE" =>
        DOMAIN rsrc = phys /\ Cardinality(phys) = Cardinality(TmplNames[stack.tmpl])

\* A COMPLETE stack has one row for each name of its template, COMPLETE and
\* with its physical resource, and no other: the roots of the graph report
\* after all of its nodes have, and each of them has left its row so.
THEOREM CompleteMeansInServiceHolds ==
    ASSUME Smooth PROVE Spec => [](CompleteMeansInService /\ NothingLeftOver)
<1>1. TypeOK /\ SmoothInv => CompleteMeansInService /\ NothingLeftOver
  <2> SUFFICES ASSUME TypeOK, SmoothInv, stack.live, stack.status = "COMPLETE"
               PROVE  /\ DOMAIN rsrc = phys
                      /\ Cardinality(phys) = Cardinality(TmplNames[stack.tmpl])
                      /\ \A n \in TmplNames[stack.tmpl] : \E i \in DOMAIN rsrc :
                            {j \in DOMAIN rsrc : InService(j, stack.tmpl) /\ rsrc[j].name = n} = {i}
    BY DEF CompleteMeansInService, NothingLeftOver
  <2> DEFINE names == TmplNames[stack.tmpl]
  <2>1. Converged /\ RowsStay
    BY DEF SmoothInv, Proceeds
  <2>2. DOMAIN rsrc = phys
    BY <2>1, Zenon DEF Converged, Even, RowsStay
  <2>3. ASSUME NEW n \in names
        PROVE  \E i \in DOMAIN rsrc :
                  {j \in DOMAIN rsrc : InService(j, stack.tmpl) /\ rsrc[j].name = n} = {i}
    <3>1. PICK i \in DOMAIN rsrc :
             rsrc[i].name = n /\ rsrc[i].tmpl = stack.tmpl /\ rsrc[i].status = "COMPLETE"
      BY <2>1, <2>3 DEF Converged, Even
    <3>2. InService(i, stack.tmpl)
      BY <2>2, <3>1 DEF InService
    <3>3. \A j \in DOMAIN rsrc : rsrc[j].name = n => j = i
      BY <2>1, <3>1 DEF Converged, Even
    <3> QED
      BY <3>1, <3>2, <3>3
  <2>4. Cardinality(phys) = Cardinality(names)
    <3> DEFINE f == [i \in phys |-> rsrc[i].name]
    <3>1. /\ \A i \in phys : rsrc[i].name \in names
          /\ \A i, j \in phys : rsrc[i].name = rsrc[j].name => i = j
          /\ \A n \in names : \E i \in phys : rsrc[i].name = n
      BY <2>1, <2>2 DEF Converged, Even
    <3>2. f \in Injection(phys, names) /\ f \in Surjection(phys, names)
      BY <3>1 DEF Injection, Surjection, IsInjective
    <3>3. IsFiniteSet(names)
      <4>1. stack.tmpl \in Tmpls
        BY DEF TypeOK, Stacks
      <4>2. names \subseteq Names /\ IsFiniteSet(Names)
        BY <4>1, ConvergenceAssumption, Zenon
      <4> QED
        BY <4>2, FS_Subset
    <3> QED
      BY <3>2, <3>3, FS_Injection
  <2> QED
    BY <2>2, <2>3, <2>4
<1>2. TravInv => TypeOK
  BY DEF TravInv
<1> QED
  BY <1>1, <1>2, SmoothInvariant, TraversalInvariant, PTL

\* Rows leave at the end of a destroy, or with their stack.
LEMMA RowsLeave ==
    ASSUME Smooth, TravInv, SeqInv, [Next]_vars, ~(DOMAIN rsrc \subseteq DOMAIN rsrc')
    PROVE  \E w \in Threads : Destroy(w) \/ PurgeSyncPoints(w)
<1>0. OneByOne /\ TypeOK /\ Workers \subseteq Threads /\ Ops \subseteq Threads /\ Creator \in Threads
  BY ConvergenceAssumption DEF Smooth, InOrder, TravInv, Threads
<1>1. ~UNCHANGED vars /\ rsrc' # rsrc
  BY DEF vars
<1>2. ASSUME NEW o \in Ops, Request(o) PROVE FALSE
  BY <1>2 DEF Request, db
<1>3. ASSUME NEW w \in Threads, ConvergeStep(w) PROVE PurgeSyncPoints(w)
  <2>1. ~UpdateOrStoreResources(w)
    BY UpdateOrStoreResourcesDoes, Zenon DEF Lays
  <2>2. /\ ~StoreTraversal(w) /\ ~DeletePrevSyncPoints(w) /\ ~StoreDeps(w) /\ ~TriggerLeaves(w)
        /\ ~Rollback(w) /\ ~MarkComplete(w) /\ ~PurgeTemplate(w)
    BY <1>1, Zenon DEF StoreTraversal, DeletePrevSyncPoints, StoreDeps, TriggerLeaves, Rollback,
                 MarkComplete, PurgeTemplate
  <2> QED
    BY <1>3, <2>1, <2>2, Zenon DEF ConvergeStep
<1>4. ASSUME NEW w \in Threads, CheckStep(w) PROVE Destroy(w)
  <2>1. ~Steal(w) /\ ~MarkFailed(w)
    BY <1>0, NeverHappens
  <2>2. /\ \A id, f : ~WriteRow(id, f)
        /\ \A id, row : rsrc' # [rsrc EXCEPT ![id] = row]
    BY DEF WriteRow
  <2>3. /\ ~AcquireRead(w) /\ ~TrySteal(w) /\ ~HandleFailure(w) /\ ~ReloadAfterTimeout(w)
        /\ ~Retrigger(w) /\ ~Propagate(w)
    BY <1>1, Zenon
       DEF AcquireRead, TrySteal, HandleFailure, ReloadAfterTimeout, Retrigger, Propagate, db
  <2>4. ~BeginCreate(w) /\ ~BeginUpdate(w) /\ ~BeginCleanup(w)
    <3>1. \A rs, action : ~StartAction(w, rs, action)
      BY <2>2 DEF StartAction
    <3>2. \A rs, out : ~SkipTo(w, rs, out)
      BY DEF SkipTo
    <3> QED
      BY <3>1, <3>2 DEF BeginCreate, BeginUpdate, BeginCleanup
  <2>5. ~HandlerDone(w) /\ \A k \in {"fail", "timeout"} : ~HandlerFails(w, k)
    BY <2>2, Zenon DEF HandlerDone, HandlerFails
  <2>6. ~Acquire(w) /\ ~Release(w)
    <3>1. ~Acquire(w)
      BY DEF Acquire
    <3>2. ~Release(w)
      BY DEF Release
    <3> QED
      BY <3>1, <3>2
  <2>7. ~Replace(w)
    BY Zenon DEF Replace
  <2> QED
    BY <1>4, <2>1, <2>3, <2>4, <2>5, <2>6, <2>7, Zenon DEF CheckStep
<1>5. ASSUME NEW w \in Workers, NEW m \in casts, Receive(w, m) \/ ReceiveLate(w, m) PROVE FALSE
  BY <1>5, Zenon DEF Receive, ReceiveLate
<1>6. \A e \in Engines : ~Crash(e)
  BY <1>0, NeverHappens
<1> QED
  BY <1>1, <1>2, <1>3, <1>4, <1>5, <1>6 DEF Next

\* A row is dropped when its physical resource has gone: by the check that
\* deleted it, or with a stack that is deleted, which has no row left then.
THEOREM RowsOutliveResourcesHolds == ASSUME Smooth PROVE Spec => RowsOutliveResources
<1>1. TravInv /\ SeqInv /\ OrderInv /\ SmoothInv /\ [Next]_vars
         => [stack.action # "ROLLBACK" => \A i \in DOMAIN rsrc \ DOMAIN rsrc' :
               i \in phys => rsrc[i].action = "DELETE" /\ rsrc[i].replaced_by # None]_vars
  <2> SUFFICES ASSUME TravInv, SeqInv, OrderInv, SmoothInv, [Next]_vars,
                      NEW i \in DOMAIN rsrc \ DOMAIN rsrc'
               PROVE  i \notin phys
    OBVIOUS
  <2>1. PICK w \in Threads : Destroy(w) \/ PurgeSyncPoints(w)
    BY RowsLeave
  <2>2. TypeOK
    BY DEF TravInv
  <2>3. CASE Destroy(w)
    <3>1. th[w].pc = "destroy" /\ DOMAIN rsrc' = DOMAIN rsrc \ {th[w].msg.id}
      BY <2>2, <2>3, DestroyDoes, Zenon
    <3>2. i = th[w].msg.id
      BY <3>1
    <3>3. stack.live
      <4>1. w \in Checking
        BY <3>1 DEF Checking, Checks
      <4> QED
        BY <3>2, <4>1 DEF OrderInv, GoneInv
    <3> QED
      BY <3>1, <3>2, <3>3 DEF SmoothInv, Proceeds, RowsStay
  <2>4. CASE PurgeSyncPoints(w)
    <3>1. /\ th[w].pc = "purge_points" /\ stack.live
          /\ th[w].st.action = "DELETE"
      BY <2>4, Zenon DEF PurgeSyncPoints, At
    <3>2. th[w].st.trav = stack.trav
      BY <3>1 DEF SeqInv, Serves, Busy
    <3>3. stack.action = "DELETE" /\ stack.status # "IN_PROGRESS"
      BY <3>1, <3>2 DEF TravInv, ThreadOK, OneAction, EndIsStored
    <3>4. stack.status = "COMPLETE"
      BY <2>2, <3>3 DEF SmoothInv, Untroubled, TypeOK, Stacks, Statuses
    <3>5. Converged /\ TmplNames[stack.tmpl] = {}
      BY <3>1, <3>3, <3>4 DEF SmoothInv, Proceeds, Empties
    <3> QED
      BY <3>5 DEF Converged, Even
  <2> QED
    BY <2>1, <2>3, <2>4
<1>2. InOrder /\ OneByOne
  BY DEF Smooth, InOrder
<1>3. Spec => []SeqInv
  BY <1>2, SeqInvariant
<1>4. Spec => []OrderInv
  BY <1>2, OrderInvariant
<1>5. Spec => []SmoothInv
  BY SmoothInvariant
<1> QED
  BY <1>1, <1>3, <1>4, <1>5, TraversalInvariant, PTL DEF Spec, RowsOutliveResources
=============================================================================
