-------------------------- MODULE ManagedResource --------------------------
(***************************************************************************)
(* What a reconciler with a finalizer promises, whatever the resource in   *)
(* AWS is and however many calls it takes: the abstract specification that *)
(* RoleController and PolicyController implement.                          *)
(*                                                                         *)
(* An object is free, held by the finalizer, or releasing: deleted by its  *)
(* user but still held.  The resource is provided only while the object is *)
(* not free.  A worker that finalizes first withdraws the resource, then   *)
(* removes the finalizer; it never begins on an object that is held, and   *)
(* it does nothing else meanwhile.  Administrators may lose a resource.    *)
(***************************************************************************)
CONSTANTS Names, None

VARIABLES
    obj,   \* "free", "held" or "releasing": the object of each name
    res,   \* is there a resource of that name?
    task   \* the finalization under way

vars == <<obj, res, task>>

Tasks == [step : {"withdraw", "remove"}, name : Names]
         \cup {[step |-> "none", name |-> None]}

NoTask == [step |-> "none", name |-> None]
Task(s, n) == [step |-> s, name |-> n]

TypeOK ==
    /\ obj \in [Names -> {"free", "held", "releasing"}]
    /\ res \in [Names -> BOOLEAN]
    /\ task \in Tasks

Init ==
    /\ obj = [n \in Names |-> "free"]
    /\ res = [n \in Names |-> FALSE]
    /\ task = NoTask

Hold(n) ==
    /\ task = NoTask /\ obj[n] = "free"
    /\ obj' = [obj EXCEPT ![n] = "held"]
    /\ UNCHANGED <<res, task>>

Delete(n) ==
    /\ obj[n] = "held"
    /\ obj' = [obj EXCEPT ![n] = "releasing"]
    /\ UNCHANGED <<res, task>>

Provide(n) ==
    /\ task = NoTask /\ obj[n] # "free"
    /\ res' = [res EXCEPT ![n] = TRUE]
    /\ UNCHANGED <<obj, task>>

Lose(n) ==
    /\ res' = [res EXCEPT ![n] = FALSE]
    /\ UNCHANGED <<obj, task>>

(* On a stale word the worker may begin when the object is free already.   *)
BeginFinalize(n) ==
    /\ task = NoTask /\ obj[n] # "held"
    /\ task' = Task("withdraw", n)
    /\ UNCHANGED <<obj, res>>

(* The answer may be lost, and the worker begins again later.              *)
Withdraw(n) ==
    /\ task = Task("withdraw", n)
    /\ res' = [res EXCEPT ![n] = FALSE]
    /\ task' \in {Task("remove", n), NoTask}
    /\ UNCHANGED obj

Release(n) ==
    /\ task = Task("remove", n) /\ obj[n] = "releasing" /\ ~res[n]
    /\ obj' = [obj EXCEPT ![n] = "free"]
    /\ task' = NoTask
    /\ UNCHANGED res

(* A call fails or the process ends.                                       *)
GiveUp ==
    /\ task' = NoTask
    /\ UNCHANGED <<obj, res>>

Next ==
    \/ \E n \in Names : \/ Hold(n) \/ Delete(n) \/ Provide(n) \/ Lose(n)
                        \/ BeginFinalize(n) \/ Withdraw(n) \/ Release(n)
    \/ GiveUp

Spec == Init /\ [][Next]_vars

(* No resource is left behind by its object.                               *)
NoneLeftBehind == \A n \in Names : res[n] => obj[n] # "free"
=============================================================================
