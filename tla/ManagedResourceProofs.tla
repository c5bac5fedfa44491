----------------------- MODULE ManagedResourceProofs -----------------------
(***************************************************************************)
(* What every implementation of ManagedResource inherits.                  *)
(***************************************************************************)
EXTENDS ManagedResource, TLAPS

LEMMA Types == TypeOK /\ [Next]_vars => TypeOK'
<1> SUFFICES ASSUME TypeOK, [Next]_vars PROVE TypeOK'
  OBVIOUS
<1>0. /\ NoTask \in Tasks
      /\ \A n \in Names, s \in {"withdraw", "remove"} : Task(s, n) \in Tasks
  BY DEF Tasks, NoTask, Task
<1>1. ASSUME NEW n \in Names,
             \/ Hold(n) \/ Delete(n) \/ Provide(n) \/ Lose(n)
             \/ BeginFinalize(n) \/ Withdraw(n) \/ Release(n)
      PROVE  TypeOK'
  <2>1. task' \in Tasks
    BY <1>0, <1>1 DEF TypeOK, Hold, Delete, Provide, Lose, BeginFinalize, Withdraw,
                      Release
  <2>2. obj' \in [Names -> {"free", "held", "releasing"}]
    BY <1>1 DEF TypeOK, Hold, Delete, Provide, Lose, BeginFinalize, Withdraw, Release
  <2>3. res' \in [Names -> BOOLEAN]
    BY <1>1 DEF TypeOK, Hold, Delete, Provide, Lose, BeginFinalize, Withdraw, Release
  <2> QED
    BY <2>1, <2>2, <2>3 DEF TypeOK
<1>2. CASE GiveUp
  BY <1>0, <1>2 DEF TypeOK, GiveUp
<1>3. CASE UNCHANGED vars
  BY <1>3 DEF TypeOK, vars
<1> QED
  BY <1>1, <1>2, <1>3 DEF Next

(* No resource is left behind by its object: it is provided while the      *)
(* object is held, and an object is only released when its resource is     *)
(* gone (Reconcile and Finalize of both controllers implement this).       *)
THEOREM NoneLeftBehindHolds == Spec => []NoneLeftBehind
<1>1. Init => TypeOK /\ NoneLeftBehind
  BY DEF Init, TypeOK, NoneLeftBehind, Tasks, NoTask
<1>2. TypeOK /\ NoneLeftBehind /\ [Next]_vars => (TypeOK /\ NoneLeftBehind)'
  <2> SUFFICES ASSUME TypeOK, NoneLeftBehind, [Next]_vars
               PROVE  NoneLeftBehind'
    BY Types
  <2>1. ASSUME NEW n \in Names,
               \/ Hold(n) \/ Delete(n) \/ Provide(n) \/ Lose(n)
               \/ BeginFinalize(n) \/ Withdraw(n) \/ Release(n)
        PROVE  NoneLeftBehind'
    BY <2>1 DEF TypeOK, NoneLeftBehind, Hold, Delete, Provide, Lose,
                BeginFinalize, Withdraw, Release
  <2>2. CASE GiveUp \/ UNCHANGED vars
    BY <2>2 DEF NoneLeftBehind, GiveUp, vars
  <2> QED
    BY <2>1, <2>2 DEF Next
<1> QED
  BY <1>1, <1>2, PTL DEF Spec
=============================================================================
