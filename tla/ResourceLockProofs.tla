------------------------- MODULE ResourceLockProofs -------------------------
(***************************************************************************)
(* Proofs about ResourceLock, for any set of workers and engines.          *)
(***************************************************************************)
EXTENDS ResourceLock, TLAPS

\* Every step keeps the types of the columns and of the workers' locals.
LEMMA LockTypesInductive ==
    ASSUME TypeOK, [Next]_vars
    PROVE  TypeOK'
<1> USE LockAssumption DEF TypeOK, PC, Goto
<1>1. ASSUME NEW w \in Workers, Begin(w) PROVE TypeOK'
  BY <1>1 DEF Begin
<1>2. ASSUME NEW w \in Workers, AcquireRead(w) PROVE TypeOK'
  BY <1>2 DEF AcquireRead
<1>3. ASSUME NEW w \in Workers, AcquireWrite(w) PROVE TypeOK'
  <2>1. Engine[w] \in Engines /\ key[w] + 1 \in Nat
    OBVIOUS
  <2>2. row' = [row EXCEPT !.engine = Engine[w], !.atomic_key = key[w] + 1]
    BY <1>3 DEF AcquireWrite
  <2>3. row' \in [exists : BOOLEAN, engine : Engines \cup {None}, atomic_key : Nat]
    BY <2>1, <2>2
  <2>4. /\ pc' \in [Workers -> PC] /\ key' \in [Workers -> Nat]
        /\ UNCHANGED <<seen, dead, checks, touches, robbed>>
    BY <1>3, <2>1 DEF AcquireWrite
  <2> QED
    BY <2>3, <2>4
<1>4. ASSUME NEW w \in Workers, AcquireRefused(w) PROVE TypeOK'
  BY <1>4 DEF AcquireRefused
<1>5. ASSUME NEW w \in Workers, ReleaseRead(w) PROVE TypeOK'
  BY <1>5 DEF ReleaseRead
<1>6. ASSUME NEW w \in Workers, ReleaseWrite(w) PROVE TypeOK'
  <2>1. key[w] + 1 \in Nat
    OBVIOUS
  <2>2. row' \in {row, [row EXCEPT !.engine = None, !.atomic_key = key[w] + 1]}
    BY <1>6 DEF ReleaseWrite
  <2>3. row' \in [exists : BOOLEAN, engine : Engines \cup {None}, atomic_key : Nat]
    BY <2>1, <2>2
  <2>4. pc' \in [Workers -> PC] /\ UNCHANGED <<key, seen, dead, checks, touches, robbed>>
    BY <1>6 DEF ReleaseWrite
  <2> QED
    BY <2>3, <2>4
<1>7. ASSUME NEW w \in Workers, Destroy(w) PROVE TypeOK'
  BY <1>7 DEF Destroy
<1>8. ASSUME NEW w \in Workers, StealRead(w) PROVE TypeOK'
  BY <1>8 DEF StealRead
<1>9. ASSUME NEW w \in Workers, ProbeAnswered(w) PROVE TypeOK'
  BY <1>9 DEF ProbeAnswered
<1>10. ASSUME NEW w \in Workers, ProbeTimesOut(w) PROVE TypeOK'
  BY <1>10 DEF ProbeTimesOut
<1>11. ASSUME NEW w \in Workers, Steal(w) PROVE TypeOK'
  BY <1>11 DEF Steal
<1>12. CASE Touch
  BY <1>12 DEF Touch
<1>13. ASSUME NEW e \in Engines, Crash(e) PROVE TypeOK'
  BY <1>13 DEF Crash
<1>14. CASE UNCHANGED vars
  BY <1>14 DEF vars
<1> QED
  BY <1>1, <1>2, <1>3, <1>4, <1>5, <1>6, <1>7, <1>8, <1>9, <1>10, <1>11,
     <1>12, <1>13, <1>14 DEF Next, Step

\* The initial row, and workers that have not begun, are of their types.
LEMMA LockTypesInitially == Init => TypeOK
<1> SUFFICES ASSUME Init PROVE TypeOK
  OBVIOUS
<1>1. row \in [exists : BOOLEAN, engine : Engines \cup {None}, atomic_key : Nat]
  BY DEF Init
<1>2. seen \in [Workers -> Engines]
  BY LockAssumption DEF Init
<1>3. robbed \in BOOLEAN
  BY DEF Init
<1>4. /\ pc \in [Workers -> PC] /\ key \in [Workers -> Nat] /\ dead \subseteq Engines
      /\ checks \in Nat /\ touches \in Nat
  BY DEF Init, PC
<1> QED
  BY <1>1, <1>2, <1>3, <1>4 DEF TypeOK

\* Type correctness of the row and of the workers.
THEOREM LockTypes == Spec => []TypeOK
<1>1. TypeOK /\ [Next]_vars => TypeOK'
  BY LockTypesInductive
<1> QED
  BY <1>1, LockTypesInitially, PTL DEF Spec

-----------------------------------------------------------------------------
\* What the invariant says of the lock, without the types.
LockParts ==
    LockHasOwner /\ DeadHaveStopped /\ HolderIsRecorded /\ ExclusiveUnlessRobbed

\* A step of a worker that neither holds the lock before nor after, and that
\* leaves the lock's columns alone, disturbs nothing.
LEMMA BystanderStep ==
    ASSUME LockInv, NEW w \in Workers, ~Holds(w), ~Holds(w)', pc[w] # "crashed",
           \A v \in Workers : v # w => pc'[v] = pc[v] /\ key'[v] = key[v],
           row' = row, dead' = dead, robbed' = robbed
    PROVE  LockParts'
<1>1. \A v \in Workers : v # w => (Holds(v)' <=> Holds(v))
  BY DEF Holds
<1>2. LockHasOwner'
  BY <1>1 DEF LockInv, LockHasOwner
<1>3. DeadHaveStopped'
  BY DEF LockInv, DeadHaveStopped
<1>4. HolderIsRecorded'
  BY <1>1 DEF LockInv, HolderIsRecorded, Matches
<1>5. ExclusiveUnlessRobbed'
  BY <1>1 DEF LockInv, ExclusiveUnlessRobbed, Exclusive
<1> QED
  BY <1>2, <1>3, <1>4, <1>5 DEF LockParts

\* The winning write of _acquire(): nobody can have been holding the lock,
\* unless a live engine has been robbed of it.
LEMMA AcquireStep ==
    ASSUME LockInv, NEW w \in Workers, AcquireWrite(w)
    PROVE  LockParts'
<1> USE LockAssumption
<1>1. /\ row.exists /\ row.engine = None /\ row'.exists
      /\ row'.engine = Engine[w] /\ row'.atomic_key = key'[w]
      /\ dead' = dead /\ robbed' = robbed
      /\ pc[w] = "cas" /\ pc'[w] = "held"
      /\ \A v \in Workers : v # w => pc'[v] = pc[v] /\ key'[v] = key[v]
  BY DEF LockInv, TypeOK, AcquireWrite, Matches, Goto
<1>2. Holds(w)' /\ \A v \in Workers : v # w => (Holds(v)' <=> Holds(v))
  BY <1>1 DEF Holds
<1>3. ~robbed => \A v \in Workers : ~Holds(v)
  BY <1>1 DEF LockInv, HolderIsRecorded, Matches
<1>4. LockHasOwner'
  BY <1>1, <1>2 DEF LockHasOwner
<1>5. DeadHaveStopped'
  BY <1>1, <1>2 DEF LockInv, DeadHaveStopped
<1>6. HolderIsRecorded'
  BY <1>1, <1>2, <1>3 DEF HolderIsRecorded, Matches
<1>7. ExclusiveUnlessRobbed'
  BY <1>1, <1>2, <1>3 DEF ExclusiveUnlessRobbed, Exclusive
<1> QED
  BY <1>4, <1>5, <1>6, <1>7 DEF LockParts

\* The read of _release().
LEMMA ReleaseReadStep ==
    ASSUME LockInv, NEW w \in Workers, ReleaseRead(w)
    PROVE  LockParts'
<1>1. /\ row' = row /\ dead' = dead /\ robbed' = robbed
      /\ pc[w] = "held" /\ Holds(w)
      /\ \A v \in Workers : v # w => pc'[v] = pc[v] /\ key'[v] = key[v]
      /\ IF row.exists THEN pc'[w] = "unlock" /\ key'[w] = row.atomic_key
         ELSE pc'[w] = "idle"
  BY DEF LockInv, TypeOK, ReleaseRead, Goto, Holds
<1>2. /\ row.exists <=> Holds(w)'
      /\ \A v \in Workers : v # w => (Holds(v)' <=> Holds(v))
  BY <1>1 DEF Holds
<1>3. LockHasOwner'
  BY <1>1, <1>2 DEF LockInv, LockHasOwner
<1>4. DeadHaveStopped'
  BY <1>1, <1>2 DEF LockInv, DeadHaveStopped
<1>5. HolderIsRecorded'
  BY <1>1, <1>2 DEF LockInv, HolderIsRecorded, Matches
<1>6. ExclusiveUnlessRobbed'
  BY <1>1, <1>2 DEF LockInv, ExclusiveUnlessRobbed, Exclusive
<1> QED
  BY <1>3, <1>4, <1>5, <1>6 DEF LockParts

\* The write of _release(): when it fails although the row names this
\* engine, another worker of the engine is the owner.
LEMMA ReleaseWriteStep ==
    ASSUME LockInv, NEW w \in Workers, ReleaseWrite(w)
    PROVE  LockParts'
<1> USE LockAssumption
<1>1. /\ dead' = dead /\ robbed' = robbed /\ key' = key
      /\ pc[w] = "unlock" /\ Holds(w)
      /\ pc'[w] = "idle"
      /\ \A v \in Workers : v # w => pc'[v] = pc[v]
  BY DEF LockInv, TypeOK, ReleaseWrite, Goto, Holds
<1>2. ~Holds(w)' /\ \A v \in Workers : v # w => (Holds(v)' <=> Holds(v))
  BY <1>1 DEF Holds
<1>3. ~robbed => \A v \in Workers : ~Holds(v)'
  BY <1>1, <1>2 DEF LockInv, ExclusiveUnlessRobbed, Exclusive
<1>4. LockHasOwner'
  <2>1. CASE Matches(w, Engine[w])
    <3>1. row'.engine = None
      BY <2>1 DEF ReleaseWrite, LockInv, TypeOK
    <3> QED
      BY <3>1 DEF LockHasOwner
  <2>2. CASE ~Matches(w, Engine[w])
    <3>1. row' = row
      BY <2>2 DEF ReleaseWrite
    <3> SUFFICES ASSUME row.exists, row.engine \notin dead \cup {None}
                 PROVE  \E v \in Workers : /\ Engine[v] = row.engine /\ Holds(v)'
                                           /\ key[v] = row.atomic_key
      BY <1>1, <3>1 DEF LockHasOwner
    <3>2. PICK v \in Workers : /\ Engine[v] = row.engine /\ Holds(v)
                               /\ key[v] = row.atomic_key
      BY DEF LockInv, LockHasOwner
    <3>3. v # w
      BY <2>2, <3>2 DEF Matches
    <3> QED
      BY <1>2, <3>2, <3>3
  <2> QED
    BY <2>1, <2>2
<1>5. DeadHaveStopped'
  BY <1>1, <1>2 DEF LockInv, DeadHaveStopped
<1>6. HolderIsRecorded' /\ ExclusiveUnlessRobbed'
  BY <1>1, <1>3 DEF HolderIsRecorded, ExclusiveUnlessRobbed, Exclusive
<1> QED
  BY <1>4, <1>5, <1>6 DEF LockParts

\* The row is deleted under the lock.
LEMMA DestroyStep ==
    ASSUME LockInv, NEW w \in Workers, Destroy(w)
    PROVE  LockParts'
<1>1. /\ dead' = dead /\ robbed' = robbed /\ key' = key
      /\ ~row'.exists
      /\ pc[w] = "held" /\ Holds(w)
      /\ pc'[w] = "idle"
      /\ \A v \in Workers : v # w => pc'[v] = pc[v]
  BY DEF LockInv, TypeOK, Destroy, Goto, Holds
<1>2. ~Holds(w)' /\ \A v \in Workers : v # w => (Holds(v)' <=> Holds(v))
  BY <1>1 DEF Holds
<1>3. ~robbed => \A v \in Workers : ~Holds(v)'
  BY <1>1, <1>2 DEF LockInv, ExclusiveUnlessRobbed, Exclusive
<1>4. LockHasOwner'
  BY <1>1 DEF LockHasOwner
<1>5. DeadHaveStopped'
  BY <1>1, <1>2 DEF LockInv, DeadHaveStopped
<1>6. HolderIsRecorded' /\ ExclusiveUnlessRobbed'
  BY <1>1, <1>3 DEF HolderIsRecorded, ExclusiveUnlessRobbed, Exclusive
<1> QED
  BY <1>4, <1>5, <1>6 DEF LockParts

\* The unconditional write of a thief.  If it does not rob a live engine, the
\* engine in the row is dead or there is none, so nobody holds the lock.
LEMMA StealStep ==
    ASSUME LockInv, NEW w \in Workers, Steal(w)
    PROVE  LockParts'
<1>1. /\ dead' = dead /\ key' = key /\ pc[w] = "steal"
      /\ \A v \in Workers : v # w => pc'[v] = pc[v]
      /\ row'.exists => row'.engine = None
      /\ robbed' = (robbed \/ (row.exists /\ row.engine \notin dead \cup {None}))
      /\ \A v \in Workers : Holds(v)' <=> Holds(v)
  BY DEF LockInv, TypeOK, Steal, Goto, Holds
<1>2. ~robbed' => \A v \in Workers : ~Holds(v)
  <2> SUFFICES ASSUME ~robbed', NEW v \in Workers, Holds(v)
               PROVE  FALSE
    OBVIOUS
  <2>1. ~robbed /\ (~row.exists \/ row.engine \in dead \cup {None})
    BY <1>1
  <2>2. row.exists /\ row.engine = Engine[v]
    BY <2>1 DEF LockInv, HolderIsRecorded, Matches
  <2>3. Engine[v] \notin dead \cup {None}
    BY LockAssumption DEF LockInv, DeadHaveStopped, Holds
  <2> QED
    BY <2>1, <2>2, <2>3
<1>3. LockHasOwner'
  BY <1>1 DEF LockHasOwner
<1>4. DeadHaveStopped'
  BY <1>1 DEF LockInv, DeadHaveStopped
<1>5. HolderIsRecorded' /\ ExclusiveUnlessRobbed'
  BY <1>1, <1>2 DEF HolderIsRecorded, ExclusiveUnlessRobbed, Exclusive
<1> QED
  BY <1>3, <1>4, <1>5 DEF LockParts

\* A write of other columns: the row is unlocked.
LEMMA TouchStep ==
    ASSUME LockInv, Touch
    PROVE  LockParts'
<1> USE LockAssumption
<1>1. /\ dead' = dead /\ robbed' = robbed /\ key' = key /\ pc' = pc
      /\ row.engine = None /\ row'.engine = None
      /\ \A v \in Workers : Holds(v)' <=> Holds(v)
  BY DEF LockInv, TypeOK, Touch, Holds
<1>2. ~robbed => \A v \in Workers : ~Holds(v)
  BY <1>1 DEF LockInv, HolderIsRecorded, Matches
<1>3. LockHasOwner'
  BY <1>1 DEF LockHasOwner
<1>4. DeadHaveStopped'
  BY <1>1 DEF LockInv, DeadHaveStopped
<1>5. HolderIsRecorded' /\ ExclusiveUnlessRobbed'
  BY <1>1, <1>2 DEF HolderIsRecorded, ExclusiveUnlessRobbed, Exclusive
<1> QED
  BY <1>3, <1>4, <1>5 DEF LockParts

\* An engine dies.
LEMMA CrashStep ==
    ASSUME LockInv, NEW e \in Engines, Crash(e)
    PROVE  LockParts'
<1>1. /\ row' = row /\ key' = key /\ robbed' = robbed
      /\ dead' = dead \cup {e}
      /\ \A v \in Workers : pc'[v] = IF Engine[v] = e THEN "crashed" ELSE pc[v]
      /\ \A v \in Workers : Holds(v)' <=> Holds(v) /\ Engine[v] # e
  BY DEF LockInv, TypeOK, Crash, Holds
<1>2. LockHasOwner'
  BY <1>1 DEF LockInv, LockHasOwner
<1>3. DeadHaveStopped'
  BY <1>1 DEF LockInv, DeadHaveStopped
<1>4. HolderIsRecorded'
  BY <1>1 DEF LockInv, HolderIsRecorded, Matches
<1>5. ExclusiveUnlessRobbed'
  BY <1>1 DEF LockInv, ExclusiveUnlessRobbed, Exclusive
<1> QED
  BY <1>2, <1>3, <1>4, <1>5 DEF LockParts

-----------------------------------------------------------------------------
\* Initially the row is unlocked and every worker idle.
LEMMA InitLocks == Init => LockInv
<1> SUFFICES ASSUME Init PROVE LockInv
  OBVIOUS
<1>1. TypeOK
  BY LockTypesInitially
<1>2. /\ row.engine = None /\ dead = {}
      /\ \A w \in Workers : ~Holds(w)
  BY DEF Init, Holds
<1> QED
  BY <1>1, <1>2 DEF LockInv, LockHasOwner, DeadHaveStopped, HolderIsRecorded,
     ExclusiveUnlessRobbed, Exclusive

\* One step per action; the actions that do not touch the lock's columns are
\* bystanders.
LEMMA LockInductive ==
    ASSUME LockInv, [Next]_vars
    PROVE  LockInv'
<1>1. TypeOK /\ TypeOK'
  BY LockTypesInductive DEF LockInv
<1>2. ASSUME NEW w \in Workers,
             \/ Begin(w) \/ AcquireRead(w) \/ AcquireRefused(w)
             \/ StealRead(w) \/ ProbeAnswered(w) \/ ProbeTimesOut(w)
      PROVE  LockParts'
  <2>1. /\ ~Holds(w) /\ ~Holds(w)' /\ pc[w] # "crashed"
        /\ row' = row /\ dead' = dead /\ robbed' = robbed
        /\ \A v \in Workers : v # w => pc'[v] = pc[v] /\ key'[v] = key[v]
    BY <1>1, <1>2 DEF TypeOK, Holds, Goto, Begin, AcquireRead, AcquireRefused,
       StealRead, ProbeAnswered, ProbeTimesOut
  <2> QED
    BY <2>1, BystanderStep
<1>3. ASSUME NEW w \in Workers, AcquireWrite(w) PROVE LockParts'
  BY <1>3, AcquireStep
<1>4. ASSUME NEW w \in Workers, ReleaseRead(w) PROVE LockParts'
  BY <1>4, ReleaseReadStep
<1>5. ASSUME NEW w \in Workers, ReleaseWrite(w) PROVE LockParts'
  BY <1>5, ReleaseWriteStep
<1>6. ASSUME NEW w \in Workers, Destroy(w) PROVE LockParts'
  BY <1>6, DestroyStep
<1>7. ASSUME NEW w \in Workers, Steal(w) PROVE LockParts'
  BY <1>7, StealStep
<1>8. ASSUME Touch PROVE LockParts'
  BY <1>8, TouchStep
<1>9. ASSUME NEW e \in Engines, Crash(e) PROVE LockParts'
  BY <1>9, CrashStep
<1>10. ASSUME UNCHANGED vars PROVE LockParts'
  BY <1>10 DEF vars, LockInv, LockParts, LockHasOwner, DeadHaveStopped,
     HolderIsRecorded, ExclusiveUnlessRobbed, Exclusive, Holds, Matches
<1>11. LockParts'
  BY <1>2, <1>3, <1>4, <1>5, <1>6, <1>7, <1>8, <1>9, <1>10 DEF Next, Step
<1> QED
  BY <1>1, <1>11 DEF LockInv, LockParts

\* The inductive invariant of the lock.
THEOREM LockInvariant == Spec => []LockInv
<1>1. LockInv /\ [Next]_vars => LockInv'
  BY LockInductive
<1> QED
  BY <1>1, InitLocks, PTL DEF Spec

\* Two workers hold the lock of one resource only after a thief has taken the
\* lock of a live engine: the compare-and-swap of _acquire() and _release()
\* is right for any number of workers and engines, crashes included.
THEOREM LockExcludes == Spec => []ExclusiveUnlessRobbed
<1>1. LockInv => ExclusiveUnlessRobbed
  BY DEF LockInv
<1> QED
  BY <1>1, LockInvariant, PTL

\* The release of an undisturbed holder always finds the row as it read it.
THEOREM UnlockSucceeds == Spec => []UnlockNeverFails
<1>1. LockInv => UnlockNeverFails
  BY DEF LockInv, HolderIsRecorded, UnlockNeverFails, Holds
<1> QED
  BY <1>1, LockInvariant, PTL

\* No lock in the name of a live engine is without a holder, even after
\* thefts that robbed one.
THEOREM NoLockIsLeftBehind == Spec => []LockHasHolder
<1>1. LockInv => LockHasHolder
  BY DEF LockInv, LockHasOwner, LockHasHolder
<1> QED
  BY <1>1, LockInvariant, PTL
=============================================================================
