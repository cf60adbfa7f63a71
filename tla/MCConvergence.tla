--------------------------- MODULE MCConvergence ---------------------------
(* Instances of Convergence for TLC. *)
EXTENDS Convergence, TLC

CONSTANTS A, B, C,                  \* resource names
          create, change, remove,   \* request threads
          w1, w2                    \* workers

\* 1: A, and B and C that require A.    2: the same with A changed, without C.
\* 4: A alone.                          5: A alone, changed.
MCTmpls == {1, 2, 4, 5, 9}

MCTmplNames ==
    1 :> Names @@ 2 :> Names \ {C} @@ 4 :> {A} @@ 5 :> {A} @@ 9 :> {}

MCTmplRequires ==
    [t \in MCTmpls |-> [n \in Names |-> IF t \in {1, 2} /\ n # A THEN {A} ELSE {}]]

MCTmplProps == [t \in MCTmpls |-> [n \in Names |-> t \in {2, 5} /\ n = A]]

Asks(action, tmpl) == [action |-> action, tmpl |-> tmpl]

Create(t) == create :> Asks("CREATE", t)
CreateUpdate(t, u) == Create(t) @@ change :> Asks("UPDATE", u)
CreateDelete(t) == Create(t) @@ remove :> Asks("DELETE", 9)

LifeOfTree == CreateUpdate(1, 2) @@ CreateDelete(1)
LifeOfOne == CreateUpdate(4, 5) @@ CreateDelete(4)

OneEngine == [w \in Threads |-> 1]
TwoEngines == [w \in Threads |-> IF w = w1 THEN 1 ELSE 2]

\* The current traversal t has a check of resource i that was turned away
\* because a check of an earlier traversal has the lock.
TurnedAway(i, t) ==
    \E w, v \in Workers :
        /\ At(v, "in_progress") /\ th[v].msg.id = i /\ th[v].msg.trav = t
        /\ Holding(w) /\ th[w].msg.id = i /\ th[w].msg.trav # t
        /\ Current(t)

\* Whoever keeps the current traversal away from a resource triggers its
\* check again when it is done, unless that traversal is over by then or the
\* engine of one of them is dead.
TurnedAwayIsRetriggered ==
    \A i \in {1}, t \in {2, 3} :
        TurnedAway(i, t) ~> \/ ~Current(t) \/ stack.status # "IN_PROGRESS"
                           \/ dead # {}
                           \/ \E m \in casts : m.id = i /\ m.trav = t
=============================================================================
