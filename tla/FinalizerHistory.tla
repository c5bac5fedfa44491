-------------------------- MODULE FinalizerHistory --------------------------
(***************************************************************************)
(* How a finalizer may come and go in the versions of an object that the   *)
(* informer's cache has not superseded, when one worker adds and removes   *)
(* it.  A controller's own view is the first version, the truth the last;  *)
(* these predicates say what the first tells about the last.               *)
(***************************************************************************)
EXTENDS KubeObject

DeletingWith(o, f) == Deleting(o) /\ ContainsFinalizer(o, f)
LiveWith(o, f) == Live(o) /\ ContainsFinalizer(o, f)

(* The finalizer is lost only after versions that are all being deleted,   *)
(* and is not seen again after; nothing with the finalizer is live after a *)
(* version being deleted with it; an absent object has none.               *)
Orderly(h, f) ==
    \A i, j \in 1..Len(h) : i <= j =>
        /\ ContainsFinalizer(h[i], f) => Present(h[i])
        /\ DeletingWith(h[i], f) => ~LiveWith(h[j], f)
        /\ (ContainsFinalizer(h[i], f) /\ ~ContainsFinalizer(h[j], f)) =>
              /\ \A k \in 1..i : DeletingWith(h[k], f)
              /\ \A k \in j..Len(h) : ~ContainsFinalizer(h[k], f)

(* The finalizer was not lost.                                             *)
Kept(h, f) ==
    \A i, j \in 1..Len(h) :
        (i <= j /\ ContainsFinalizer(h[i], f)) => ContainsFinalizer(h[j], f)

(* Versions that have the finalizer come first, all being deleted.         *)
Dying(h, f) ==
    \A j \in 1..Len(h) : ContainsFinalizer(h[j], f) =>
        \A i \in 1..j : DeletingWith(h[i], f)
=============================================================================
