-------------------------- MODULE SyncPointProofs --------------------------
(***************************************************************************)
(* Proofs about SyncPoint, for any set of calls, keys and values.          *)
(***************************************************************************)
EXTENDS SyncPoint, TLAPS

\* Types of the constants, in the form the steps below use.
LEMMA CallTypes ==
    ASSUME NEW c \in Calls
    PROVE  /\ Key[c] \in Keys
           /\ Data[c] \in Values
           /\ Data[c] # Absent
           /\ \A k \in Predecessors : k \in Keys
  BY ConstantsAssumption

\* Every step of sync() and of its environment keeps the types.
LEMMA TypeInductive ==
    ASSUME TypeOK, [Next]_vars
    PROVE  TypeOK'
<1> USE DEF TypeOK, InputData, PC
<1>1. CASE DeleteAll
  BY <1>1 DEF DeleteAll
<1>2. ASSUME NEW c \in Calls, Get(c) PROVE TypeOK'
  BY <1>2, CallTypes DEF Get
<1>3. ASSUME NEW c \in Calls, GetNotFound(c) PROVE TypeOK'
  BY <1>3 DEF GetNotFound
<1>4. ASSUME NEW c \in Calls, Update(c) PROVE TypeOK'
  <2>1. /\ local[c].input_data \in InputData
        /\ local[c].atomic_key + 1 \in Nat
    OBVIOUS
  <2>2. row' = [exists |-> row.exists, atomic_key |-> local[c].atomic_key + 1,
                input_data |-> local[c].input_data]
    BY <1>4 DEF Update
  <2>3. row' \in [exists : BOOLEAN, atomic_key : Nat, input_data : InputData]
    BY <2>1, <2>2
  <2>4. pc' \in [Calls -> PC] /\ local' = local
    BY <1>4 DEF Update
  <2> QED
    BY <2>3, <2>4
<1>5. ASSUME NEW c \in Calls, UpdateLost(c) PROVE TypeOK'
  BY <1>5 DEF UpdateLost
<1>6. ASSUME NEW c \in Calls, Propagate(c) PROVE TypeOK'
  BY <1>6 DEF Propagate
<1>7. ASSUME NEW c \in Calls, Crash(c) PROVE TypeOK'
  BY <1>7 DEF Crash
<1>8. CASE UNCHANGED vars
  BY <1>8 DEF vars
<1> QED
  BY <1>1, <1>2, <1>3, <1>4, <1>5, <1>6, <1>7, <1>8 DEF Next, Sync

\* Type correctness of the sync point and of the calls on it.
THEOREM SyncTypes == Spec => []TypeOK
<1>1. Init => TypeOK
  BY DEF Init, TypeOK, InputData, NoInput, PC
<1>2. TypeOK /\ [Next]_vars => TypeOK'
  BY TypeInductive
<1> QED
  BY <1>1, <1>2, PTL DEF Spec

-----------------------------------------------------------------------------
LEMMA InitEstablishes == Init => SyncInv
<1> SUFFICES ASSUME Init PROVE SyncInv
  OBVIOUS
<1>1. TypeOK
  BY DEF Init, TypeOK, InputData, NoInput, PC
<1>2. \A c \in Calls : pc[c] = "get" /\ ~Written(c) /\ ~Fired(c)
  BY DEF Init, Written, Fired
<1>3. \A k \in Keys : row.input_data[k] = Absent
  BY DEF Init, NoInput
<1> QED
  BY <1>1, <1>2, <1>3 DEF SyncInv, CopyAgreesWithKey, NoLostInput,
     InputHasSender, PropagatesWithEveryInput, FiredIsComplete,
     CompleteIsNoticed, PropagatesAtMostOnce

\* A step that leaves the stored input and the set of calls that have
\* written (and fired) as they are disturbs only CopyAgreesWithKey.
LEMMA QuietStep ==
    ASSUME SyncInv,
           row'.input_data = row.input_data,
           \A c \in Calls : Written(c)' <=> Written(c),
           \A c \in Calls : Fired(c)' <=> Fired(c),
           \A c \in Calls : Fired(c) => local'[c] = local[c]
    PROVE  /\ NoLostInput' /\ InputHasSender' /\ PropagatesWithEveryInput'
           /\ FiredIsComplete' /\ CompleteIsNoticed' /\ PropagatesAtMostOnce'
<1>1. NoLostInput'
  BY DEF SyncInv, NoLostInput
<1>2. InputHasSender'
  BY DEF SyncInv, InputHasSender
<1>3. PropagatesWithEveryInput'
  BY DEF SyncInv, PropagatesWithEveryInput
<1>4. FiredIsComplete'
  BY DEF SyncInv, FiredIsComplete
<1>5. CompleteIsNoticed'
  BY DEF SyncInv, CompleteIsNoticed
<1>6. PropagatesAtMostOnce'
  BY DEF SyncInv, PropagatesAtMostOnce, Sole
<1> QED
  BY <1>1, <1>2, <1>3, <1>4, <1>5, <1>6

\* The winning write of the compare-and-swap.
LEMMA UpdateStep ==
    ASSUME SyncInv, NEW c \in Calls, Update(c)
    PROVE  SyncInv'
<1>1. TypeOK /\ TypeOK'
  <2>1. [Next]_vars
    BY DEF Next, Sync
  <2> QED
    BY <2>1, TypeInductive DEF SyncInv
<1>2. /\ pc[c] = "update"
      /\ row'.input_data = [row.input_data EXCEPT ![Key[c]] = Data[c]]
      /\ row'.input_data = local[c].input_data
      /\ row'.atomic_key = row.atomic_key + 1
      /\ local' = local
      /\ pc' = [pc EXCEPT ![c] = IF waiting(c) = {} THEN "ready" ELSE "waiting"]
      /\ ~Written(c) /\ ~Fired(c)
  BY <1>1 DEF SyncInv, CopyAgreesWithKey, Update, TypeOK, Written, Fired
<1>3. \A e \in Calls : e # c => /\ pc'[e] = pc[e]
                               /\ (Written(e)' <=> Written(e))
                               /\ (Fired(e)' <=> Fired(e))
  BY <1>1, <1>2 DEF TypeOK, Written, Fired
<1>4. /\ Written(c)' 
      /\ (Fired(c)' <=> waiting(c) = {})
      /\ pc'[c] # "update"
  BY <1>1, <1>2 DEF TypeOK, Written, Fired
<1>5. \A k \in Keys : row.input_data[k] # Absent => row'.input_data[k] # Absent
  BY <1>1, <1>2, CallTypes DEF TypeOK, InputData
<1>6. row'.input_data[Key[c]] = Data[c] /\ Data[c] # Absent
  BY <1>1, <1>2, CallTypes DEF TypeOK, InputData
<1>7. waiting(c) = {} <=> \A k \in Predecessors : row'.input_data[k] # Absent
  BY <1>2 DEF waiting
<1>8. CopyAgreesWithKey'
  <2> SUFFICES ASSUME NEW e \in Calls, pc'[e] = "update"
               PROVE  local'[e].atomic_key <= row'.atomic_key
                      /\ local'[e].atomic_key # row'.atomic_key
    BY DEF CopyAgreesWithKey
  <2>1. e # c /\ pc[e] = "update"
    BY <1>3, <1>4
  <2>2. local[e].atomic_key <= row.atomic_key
    BY <2>1 DEF SyncInv, CopyAgreesWithKey
  <2> QED
    BY <2>2, <1>1, <1>2 DEF TypeOK
<1>9. NoLostInput'
  <2> SUFFICES ASSUME NEW e \in Calls, Written(e)'
               PROVE  row'.input_data[Key[e]] # Absent
    BY DEF NoLostInput
  <2>1. CASE e = c
    BY <2>1, <1>6
  <2>2. CASE e # c
    BY <2>2, <1>3, <1>5, CallTypes DEF SyncInv, NoLostInput
  <2> QED
    BY <2>1, <2>2
<1>10. InputHasSender'
  <2> SUFFICES ASSUME NEW k \in Keys, row'.input_data[k] # Absent
               PROVE  \E e \in Calls : /\ Key[e] = k /\ Written(e)'
                                       /\ row'.input_data[k] = Data[e]
    BY DEF InputHasSender
  <2>1. CASE k = Key[c]
    BY <2>1, <1>4, <1>6
  <2>2. CASE k # Key[c]
    <3>1. row'.input_data[k] = row.input_data[k]
      BY <2>2, <1>1, <1>2 DEF TypeOK, InputData
    <3>2. PICK e \in Calls : /\ Key[e] = k /\ Written(e)
                             /\ row.input_data[k] = Data[e]
      BY <3>1 DEF SyncInv, InputHasSender
    <3> QED
      BY <3>1, <3>2, <2>2, <1>3
  <2> QED
    BY <2>1, <2>2
<1>11. PropagatesWithEveryInput'
  <2> SUFFICES ASSUME NEW e \in Calls, Fired(e)', NEW k \in Predecessors
               PROVE  \E x \in Calls : /\ Key[x] = k
                                       /\ local[e].input_data[k] = Data[x]
    BY <1>2 DEF PropagatesWithEveryInput
  <2>1. CASE e = c
    <3>1. row'.input_data[k] # Absent /\ k \in Keys
      BY <2>1, <1>4, <1>7, CallTypes
    <3>2. PICK x \in Calls : Key[x] = k /\ row'.input_data[k] = Data[x]
      BY <3>1, <1>10 DEF InputHasSender
    <3> QED
      BY <3>2, <2>1, <1>2
  <2>2. CASE e # c
    BY <2>2, <1>3 DEF SyncInv, PropagatesWithEveryInput
  <2> QED
    BY <2>1, <2>2
<1>12. FiredIsComplete'
  <2> SUFFICES ASSUME NEW e \in Calls, Fired(e)', NEW k \in Predecessors
               PROVE  local[e].input_data[k] # Absent
                      /\ row'.input_data[k] # Absent
    BY <1>2 DEF FiredIsComplete
  <2>1. CASE e = c
    BY <2>1, <1>4, <1>7, <1>2
  <2>2. CASE e # c
    BY <2>2, <1>3, <1>5, CallTypes DEF SyncInv, FiredIsComplete
  <2> QED
    BY <2>1, <2>2
<1>13. CompleteIsNoticed'
  BY <1>4, <1>7 DEF CompleteIsNoticed
<1>14. PropagatesAtMostOnce'
  <2>1. ASSUME NEW x \in Calls, x # c, Fired(x), Fired(c)', Sole(c)
        PROVE  FALSE
    <3>1. Key[c] \in Predecessors
      BY <2>1 DEF Sole
    <3>2. row.input_data[Key[c]] # Absent
      BY <2>1, <3>1 DEF SyncInv, FiredIsComplete
    <3>3. PICK y \in Calls : Key[y] = Key[c] /\ Written(y)
      BY <3>2, CallTypes DEF SyncInv, InputHasSender
    <3> QED
      BY <2>1, <3>3, <1>2 DEF Sole
  <2> SUFFICES ASSUME NEW e \in Calls, NEW f \in Calls,
                      Fired(e)', Fired(f)', Sole(e), Sole(f)
               PROVE  e = f
    BY DEF PropagatesAtMostOnce, Sole
  <2> QED
    BY <2>1, <1>3 DEF SyncInv, PropagatesAtMostOnce
<1> QED
  BY <1>1, <1>8, <1>9, <1>10, <1>11, <1>12, <1>13, <1>14 DEF SyncInv

LEMMA InvInductive ==
    ASSUME SyncInv, [Next]_vars
    PROVE  SyncInv'
<1>0. TypeOK /\ TypeOK'
  BY TypeInductive DEF SyncInv
<1>1. CASE DeleteAll
  <2>1. /\ row'.input_data = row.input_data /\ row'.atomic_key = row.atomic_key
        /\ pc' = pc /\ local' = local
    BY <1>1, <1>0 DEF DeleteAll, TypeOK
  <2>2. CopyAgreesWithKey'
    BY <2>1 DEF SyncInv, CopyAgreesWithKey
  <2>3. \A c \in Calls : (Written(c)' <=> Written(c)) /\ (Fired(c)' <=> Fired(c))
    BY <2>1 DEF Written, Fired
  <2> QED
    BY <2>1, <2>2, <2>3, <1>0, QuietStep DEF SyncInv
<1>2. ASSUME NEW c \in Calls,
             Get(c) \/ GetNotFound(c) \/ UpdateLost(c) \/ Propagate(c) \/ Crash(c)
      PROVE  SyncInv'
  <2>1. /\ row' = row
        /\ \A e \in Calls : e # c => pc'[e] = pc[e] /\ local'[e] = local[e]
        /\ pc[c] \in {"get", "update", "ready"}
    BY <1>2, <1>0 DEF Get, GetNotFound, UpdateLost, Propagate, Crash, TypeOK
  <2>2. /\ pc[c] = "ready" => /\ pc'[c] \in {"propagated", "lost"}
                              /\ local' = local
        /\ pc[c] # "ready" => pc'[c] \in {"get", "update", "notfound", "crashed"}
    BY <1>2, <1>0 DEF Get, GetNotFound, UpdateLost, Propagate, Crash, TypeOK
  <2>3. \A e \in Calls : /\ (Written(e)' <=> Written(e))
                         /\ (Fired(e)' <=> Fired(e))
                         /\ (Fired(e) => local'[e] = local[e])
    BY <2>1, <2>2 DEF Written, Fired
  <2>4. CopyAgreesWithKey'
    <3> SUFFICES ASSUME NEW e \in Calls, pc'[e] = "update"
                 PROVE  /\ local'[e].atomic_key <= row'.atomic_key
                        /\ local'[e].atomic_key = row'.atomic_key =>
                             local'[e].input_data =
                               [row'.input_data EXCEPT ![Key[e]] = Data[e]]
      BY DEF CopyAgreesWithKey
    <3>1. CASE e = c
      <4>1. Get(c)
        BY <3>1, <1>2, <1>0 DEF Get, GetNotFound, UpdateLost, Propagate, Crash, TypeOK
      <4> QED
        BY <4>1, <3>1, <1>0 DEF Get, TypeOK
    <3>2. CASE e # c
      BY <3>2, <2>1 DEF SyncInv, CopyAgreesWithKey
    <3> QED
      BY <3>1, <3>2
  <2> QED
    BY <2>1, <2>3, <2>4, <1>0, QuietStep DEF SyncInv
<1>3. ASSUME NEW c \in Calls, Update(c) PROVE SyncInv'
  BY <1>3, UpdateStep
<1>4. CASE UNCHANGED vars
  <2>1. row' = row /\ pc' = pc /\ local' = local
    BY <1>4 DEF vars
  <2>2. CopyAgreesWithKey'
    BY <2>1 DEF SyncInv, CopyAgreesWithKey
  <2>3. \A c \in Calls : (Written(c)' <=> Written(c)) /\ (Fired(c)' <=> Fired(c))
    BY <2>1 DEF Written, Fired
  <2> QED
    BY <2>1, <2>2, <2>3, <1>0, QuietStep DEF SyncInv
<1> QED
  BY <1>1, <1>2, <1>3, <1>4 DEF Next, Sync

\* The inductive invariant holds throughout.
THEOREM SyncInvariant == Spec => []SyncInv
  BY InitEstablishes, InvInductive, PTL DEF Spec

\* No call's input is overwritten by a concurrent call.
THEOREM NoInputIsLost == Spec => []NoLostInput
<1>1. SyncInv => NoLostInput
  BY DEF SyncInv
<1> QED
  BY <1>1, SyncInvariant, PTL

\* A dependent check is started only with the data of every predecessor.
THEOREM PropagationIsComplete == Spec => []PropagatesWithEveryInput
<1>1. SyncInv => PropagatesWithEveryInput
  BY DEF SyncInv
<1> QED
  BY <1>1, SyncInvariant, PTL

\* Of the predecessors that report once, one at most starts the dependent
\* check.
THEOREM PropagationIsUnique == Spec => []PropagatesAtMostOnce
<1>1. SyncInv => PropagatesAtMostOnce
  BY DEF SyncInv
<1> QED
  BY <1>1, SyncInvariant, PTL

\* The call that completes the input always notices it.
THEOREM PropagationIsNotForgotten == Spec => []NobodyForgetsToPropagate
<1>1. SyncInv => NobodyForgetsToPropagate
  BY DEF SyncInv, NobodyForgetsToPropagate, CompleteIsNoticed, NoLostInput
<1> QED
  BY <1>1, SyncInvariant, PTL

\* Stored input only accumulates.
THEOREM InputOnlyGrows == Spec => InputAccumulates
<1>1. ASSUME SyncInv, [Next]_vars
      PROVE  [\A k \in Keys : row.input_data[k] # Absent =>
                              row'.input_data[k] # Absent]_vars
  <2>1. CASE \E c \in Calls : Update(c)
    <3>1. PICK c \in Calls : Update(c)
      BY <2>1
    <3>2. row'.input_data = [row.input_data EXCEPT ![Key[c]] = Data[c]]
      BY <1>1, <3>1 DEF SyncInv, TypeOK, CopyAgreesWithKey, Update
    <3> QED
      BY <1>1, <3>2, CallTypes DEF SyncInv, TypeOK, InputData
  <2>2. CASE ~\E c \in Calls : Update(c)
    BY <1>1, <2>2 DEF SyncInv, TypeOK, Next, Sync, Get, GetNotFound, UpdateLost,
       Propagate, Crash, DeleteAll, vars
  <2> QED
    BY <2>1, <2>2
<1> QED
  BY <1>1, SyncInvariant, PTL DEF Spec, InputAccumulates

-----------------------------------------------------------------------------
(* sync() implements the atomic hand-over of SyncBarrier.                  *)

\* The fields of the refinement mapping that a step of call c alone leaves
\* as they are for the other calls.
LEMMA OthersMapAlike ==
    ASSUME TypeOK, TypeOK', NEW c \in Calls,
           \A e \in Calls : e # c => pc'[e] = pc[e] /\ local'[e] = local[e],
           Written(c)' => local'[c] = local[c]
    PROVE  /\ Outcome' = [Outcome EXCEPT ![c] = Outcome'[c]]
           /\ Result' = [Result EXCEPT ![c] = Result'[c]]
<1>1. \A e \in Calls : e # c => Outcome'[e] = Outcome[e] /\ Result'[e] = Result[e]
  BY DEF Outcome, Result, Written
<1>2. Outcome' = [e \in Calls |-> Outcome'[e]] /\ Result' = [e \in Calls |-> Result'[e]]
  BY DEF Outcome, Result
<1>3. /\ [Outcome EXCEPT ![c] = Outcome'[c]]
           = [e \in Calls |-> IF e = c THEN Outcome'[c] ELSE Outcome[e]]
      /\ [Result EXCEPT ![c] = Result'[c]]
           = [e \in Calls |-> IF e = c THEN Result'[c] ELSE Result[e]]
  BY DEF Outcome, Result
<1> QED
  BY <1>1, <1>2, <1>3

\* The winning write is the hand-over.
LEMMA UpdateContributes ==
    ASSUME SyncInv, NEW c \in Calls, Update(c)
    PROVE  Barrier!Contribute(c)
<1>1. TypeOK /\ TypeOK'
  <2>1. [Next]_vars
    BY DEF Next, Sync
  <2> QED
    BY <2>1, TypeInductive DEF SyncInv
<1>2. /\ pc[c] = "update" /\ row.exists /\ row'.exists = row.exists
      /\ row'.input_data = [row.input_data EXCEPT ![Key[c]] = Data[c]]
      /\ row'.input_data = local[c].input_data
      /\ local' = local
      /\ pc'[c] = IF waiting(c) = {} THEN "ready" ELSE "waiting"
      /\ \A e \in Calls : e # c => pc'[e] = pc[e]
  BY <1>1 DEF SyncInv, CopyAgreesWithKey, Update, TypeOK
<1>3. waiting(c) = {} <=> Barrier!Complete(row'.input_data)
  BY <1>2 DEF waiting, Barrier!Complete
<1>4. Outcome[c] = "calling" /\ Outcome'[c] = pc'[c]
  BY <1>2 DEF Outcome
<1>5. Result'[c] = row'.input_data
  BY <1>2 DEF Result, Written
<1>6. /\ Outcome' = [Outcome EXCEPT ![c] = Outcome'[c]]
      /\ Result' = [Result EXCEPT ![c] = Result'[c]]
  BY <1>1, <1>2, OthersMapAlike
<1> QED
  BY <1>2, <1>3, <1>4, <1>5, <1>6 DEF Barrier!Contribute

\* Every other step of a call changes at most its outcome, the way the
\* barrier does, or is invisible to it.
LEMMA OtherStepsMap ==
    ASSUME SyncInv, NEW c \in Calls,
           Get(c) \/ GetNotFound(c) \/ UpdateLost(c) \/ Propagate(c) \/ Crash(c)
    PROVE  \/ Barrier!Propagate(c) \/ Barrier!Refuse(c) \/ Barrier!Die(c)
           \/ UNCHANGED Barrier!barrierVars
<1>1. TypeOK /\ TypeOK'
  <2>1. [Next]_vars
    BY DEF Next, Sync
  <2> QED
    BY <2>1, TypeInductive DEF SyncInv
<1>2. /\ row' = row
      /\ \A e \in Calls : e # c => pc'[e] = pc[e] /\ local'[e] = local[e]
      /\ Written(c)' => local'[c] = local[c]
      /\ Written(c)' <=> Written(c)
  BY <1>1 DEF Get, GetNotFound, UpdateLost, Propagate, Crash, TypeOK, Written
<1>3. /\ Outcome' = [Outcome EXCEPT ![c] = Outcome'[c]]
      /\ Result' = [Result EXCEPT ![c] = Result'[c]]
  BY <1>1, <1>2, OthersMapAlike
<1>4. Result' = Result
  <2>1. Result'[c] = Result[c]
    BY <1>2 DEF Result
  <2> QED
    BY <2>1, <1>3 DEF Result
<1>5. CASE Get(c) \/ UpdateLost(c)
  <2>1. Outcome'[c] = Outcome[c]
    BY <1>1, <1>5 DEF Get, UpdateLost, Outcome, TypeOK
  <2>2. Outcome' = Outcome
    BY <2>1, <1>3 DEF Outcome
  <2> QED
    BY <2>2, <1>2, <1>4 DEF Barrier!barrierVars
<1>6. CASE GetNotFound(c)
  <2>1. Outcome[c] = "calling" /\ Outcome'[c] = "refused" /\ ~row.exists
    BY <1>1, <1>6 DEF GetNotFound, Outcome, TypeOK
  <2> QED
    BY <2>1, <1>2, <1>3, <1>4 DEF Barrier!Refuse
<1>7. CASE Propagate(c)
  <2>1. Outcome[c] = "ready" /\ Outcome'[c] = "propagated"
    BY <1>1, <1>7 DEF Propagate, Outcome, TypeOK
  <2> QED
    BY <2>1, <1>2, <1>3, <1>4 DEF Barrier!Propagate
<1>8. CASE Crash(c)
  <2>1. /\ Outcome[c] \in {"calling", "ready"}
        /\ Outcome'[c] = IF Outcome[c] = "ready" THEN "lost" ELSE "crashed"
    BY <1>1, <1>8 DEF Crash, Outcome, TypeOK
  <2> QED
    BY <2>1, <1>2, <1>3, <1>4 DEF Barrier!Die
<1> QED
  BY <1>5, <1>6, <1>7, <1>8

\* The compare-and-swap loop of sync() is indistinguishable, to its callers,
\* from one indivisible hand-over.
THEOREM SyncImplementsBarrier == Spec => ImplementsBarrier
<1>1. Init => Barrier!BarrierInit
  <2> SUFFICES ASSUME Init PROVE Barrier!BarrierInit
    OBVIOUS
  <2>1. \A c \in Calls : pc[c] = "get"
    BY DEF Init
  <2>2. Outcome = [c \in Calls |-> "calling"] /\ Result = [c \in Calls |-> NoInput]
    BY <2>1 DEF Outcome, Result, Written
  <2> QED
    BY <2>2 DEF Init, NoInput, Barrier!BarrierInit, Barrier!Nothing
<1>2. SyncInv /\ [Next]_vars => [Barrier!BarrierNext]_(Barrier!barrierVars)
  <2> SUFFICES ASSUME SyncInv, [Next]_vars
               PROVE  Barrier!BarrierNext \/ UNCHANGED Barrier!barrierVars
    OBVIOUS
  <2>1. CASE DeleteAll
    <3>1. /\ row.exists /\ row'.exists = FALSE /\ row'.input_data = row.input_data
          /\ Outcome' = Outcome /\ Result' = Result
      BY <2>1 DEF DeleteAll, SyncInv, TypeOK, Outcome, Result, Written
    <3> QED
      BY <3>1 DEF Barrier!BarrierNext, Barrier!Close
  <2>2. ASSUME NEW c \in Calls, Update(c) PROVE Barrier!BarrierNext
    BY <2>2, UpdateContributes DEF Barrier!BarrierNext
  <2>3. ASSUME NEW c \in Calls,
               Get(c) \/ GetNotFound(c) \/ UpdateLost(c) \/ Propagate(c) \/ Crash(c)
        PROVE  Barrier!BarrierNext \/ UNCHANGED Barrier!barrierVars
    BY <2>3, OtherStepsMap DEF Barrier!BarrierNext
  <2>4. CASE UNCHANGED vars
    BY <2>4 DEF vars, Barrier!barrierVars, Outcome, Result, Written
  <2> QED
    BY <2>1, <2>2, <2>3, <2>4 DEF Next, Sync
<1> QED
  BY <1>1, <1>2, SyncInvariant, PTL DEF Spec, ImplementsBarrier, Barrier!BarrierSpec
=============================================================================
