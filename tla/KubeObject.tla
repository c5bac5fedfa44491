----------------------------- MODULE KubeObject -----------------------------
(***************************************************************************)
(* The part of the Kubernetes API server and of controller-runtime's       *)
(* cached client that the controllers rely on.  None of it is under src/:  *)
(* it is modelled from the calls the controllers make.                     *)
(*                                                                         *)
(* An object is a record with at least                                     *)
(*   phase : "absent", "live" or "deleting" (deletionTimestamp is set)     *)
(*   fins  : its finalizers                                                *)
(*                                                                         *)
(* Its history, as far as it still matters, is a sequence of versions: the *)
(* first is the one in the informer's cache, the last is the one the API   *)
(* server holds, and those between are watch events still under way.       *)
(* Reads of client.Client go to the first, writes to the last.             *)
(***************************************************************************)
EXTENDS Naturals, Sequences

Phases == {"absent", "live", "deleting"}

Present(o) == o.phase # "absent"
Live(o) == o.phase = "live"
Deleting(o) == o.phase = "deleting"

ContainsFinalizer(o, f) == f \in o.fins

(* Delete: an object without finalizers goes at once.                      *)
Deleted(o, gone) ==
    IF o.fins = {} THEN gone ELSE [o EXCEPT !.phase = "deleting"]

(* The API server refuses a new finalizer on an object being deleted.      *)
FinalizersAccepted(o, fins) ==
    /\ Present(o)
    /\ Deleting(o) => fins \subseteq o.fins

(* Removing the last finalizer of an object being deleted removes it.      *)
WithFinalizers(o, fins, gone) ==
    IF Deleting(o) /\ fins = {} THEN gone ELSE [o EXCEPT !.fins = fins]

(* Server-side apply of a finalizer: an object that does not exist is      *)
(* created, with nothing but that finalizer.                               *)
ApplyAccepted(o, f) == Deleting(o) => ContainsFinalizer(o, f)

Applied(o, f) ==
    IF Present(o) THEN [o EXCEPT !.fins = @ \cup {f}]
                  ELSE [o EXCEPT !.phase = "live", !.fins = {f}]

-----------------------------------------------------------------------------
(* Versions.                                                               *)

Versions(Object) == Seq(Object) \ {<<>>}

Cached(h) == h[1]
Latest(h) == h[Len(h)]
Current(h) == Len(h) = 1

(* A write that changes nothing makes no new version and no watch event.   *)
Written(h, o) == IF o = Latest(h) THEN h ELSE Append(h, o)

(* The informer applies the next watch event to its cache.                 *)
Delivered(h) == Tail(h)

(* A process that starts lists the objects afresh.                         *)
Relisted(h) == <<Latest(h)>>
=============================================================================
