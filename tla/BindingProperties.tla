------------------------- MODULE BindingProperties -------------------------
(***************************************************************************)
(* What IamRoleBindingReconciler promises, and the inductive invariant     *)
(* behind it.                                                              *)
(***************************************************************************)
EXTENDS BindingController, FinalizerHistory

(* The worker puts an annotation on a service account only for a binding   *)
(* that has the controller's finalizer at the API server, however old the  *)
(* cached copy is it works from: a user's deletion cannot slip past        *)
(* finalize (Reconcile adds the finalizer before it binds).                *)
AnnotatesOnlyHeld ==
    At("annotate") => LET o == Latest(hist[w.cur]) IN Present(o) /\ Own(o)

(* The worker takes its finalizer off only an object that is being         *)
(* deleted, and never one that was created anew under the same name.       *)
ReleasesOnlyDeleting ==
    [][\A b \in Bindings :
         (Own(Latest(hist[b])) /\ ~Own(Latest(hist'[b])))
         => Deleting(Latest(hist[b]))]_vars

(* The record of a binding: finalize undoes a binding by both fields.      *)
WholeRecord(o) ==
    /\ o.bsa = None <=> o.barn = None
    /\ o.bsa # None /\ Live(o) => Own(o)

(* The status of a binding at the API server names a service account and   *)
(* an ARN or neither, and a live object that records a binding has the     *)
(* finalizer, without which finalize is never called.  Yet PatchStatus     *)
(* sends only the fields that differ from a cached copy, and they are      *)
(* merged into whatever object has the name by now: one that was created   *)
(* anew would be left with half a record.                                  *)
RecordIsWhole == \A b \in Bindings : WholeRecord(Latest(hist[b]))

-----------------------------------------------------------------------------
(* The inductive invariant.                                                *)

(* What the worker may rely on at each place, however old w.inst is.       *)
WorkerKnows ==
    /\ At("addFinalizer") => Kept(hist[w.cur], Finalizer) /\ Live(w.inst)
    /\ w.pc \in {"finalize", "unannotate"} =>
          IF Deleting(w.inst) THEN Own(w.inst) ELSE Own(Latest(hist[w.cur]))
    /\ (w.pc \in {"finalize", "unannotate"} /\ Deleting(w.inst)) =>
          Dying(hist[w.cur], Finalizer)
    /\ At("removeFinalizer") => Dying(hist[w.cur], Finalizer)
    /\ w.pc \in {"bind", "annotate", "patchStatus"} => Own(Latest(hist[w.cur]))

(* The inductive invariant: it implies AnnotatesOnlyHeld and               *)
(* ReleasesOnlyDeleting.                                                   *)
IInv ==
    /\ TypeOK
    /\ \A b \in Bindings : Orderly(hist[b], Finalizer)
    /\ WorkerKnows

(* Each version's record is whole, and is not lost while the object stays: *)
(* an object that is live with the finalizer is still there in the end.    *)
RecordsKept(h) ==
    \A i, j \in 1..Len(h) : i <= j =>
        /\ WholeRecord(h[i])
        /\ h[i].bsa # None /\ LiveWith(h[i], Finalizer) => h[j].bsa # None

(* What a live cached object tells about the record at the API server.     *)
WorkerRecalls ==
    /\ WholeRecord(w.inst)
    /\ w.pc # "idle" => Present(w.inst)
    /\ At("addFinalizer") => w.inst.bsa = None
    /\ At("removeFinalizer") => Deleting(w.inst)
    /\ w.pc \in {"bind", "annotate", "patchStatus"} => Live(w.inst)
    /\ w.pc # "idle" /\ Live(w.inst) /\ w.inst.bsa # None =>
          Latest(hist[w.cur]).bsa # None
    /\ w.pc \in {"annotate", "patchStatus"} => w.arn # None /\ w.inst.sa # None

(* Inductive together with IInv: it implies RecordIsWhole.                 *)
RecordInv ==
    /\ \A b \in Bindings : RecordsKept(hist[b])
    /\ WorkerRecalls

-----------------------------------------------------------------------------
(* Liveness, under the fairness of FairSpec.                               *)

AnnotationOf(s) == Latest(accounts[s]).ann

(* A deletion finishes, through failed calls, stale caches, restarts and   *)
(* service accounts that are gone.                                         *)
ReleaseCompletes ==
    \A b \in Bindings :
      DeletingWith(Latest(hist[b]), Finalizer) ~> ~Own(Latest(hist[b]))

(* A binding that stays, refers to a service account that stays and to a   *)
(* role whose ARN stays, and meets no other ARN there, ends with the       *)
(* service account annotated and its status saying so.                     *)
BindingSettles ==
    \A b \in Bindings, r \in Roles, s \in ServiceAccounts, a \in Arns :
      LET o == Latest(hist[b]) IN
      <>[](/\ Live(o) /\ o.role = r /\ o.sa = s /\ arns[r] = a
           /\ Present(Latest(accounts[s])) /\ AnnotationOf(s) \in {None, a})
      => <>[](/\ AnnotationOf(s) = a
              /\ Latest(hist[b]).bsa = s /\ Latest(hist[b]).barn = a)

(* Once the status that records a binding, its deletion or a move to       *)
(* another service account, and the annotation have reached the cache, the *)
(* annotation is removed, whatever fails, or the binding comes back to it. *)
RecordedBindingIsUndone ==
    \A b \in Bindings, s \in ServiceAccounts, a \in Arns :
      LET o == Latest(hist[b]) IN
      (/\ At("idle") /\ Current(hist[b]) /\ Current(accounts[s])
       /\ DeletingWith(o, Finalizer) \/ (Live(o) /\ o.sa # s)
       /\ o.bsa = s /\ o.barn = a /\ AnnotationOf(s) = a)
      ~> (AnnotationOf(s) # a \/ (Live(o) /\ o.sa = s))

-----------------------------------------------------------------------------
(* A promise of the repository that the code does not keep.                *)

(* controllers/iamrolebinding_controller_test.go:108, of a binding that is *)
(* deleted after the annotation has reached the cache (96-104): the        *)
(* controller "removes the service account annotation".                    *)
DeletionRemovesAnnotation ==
    \A b \in Bindings, s \in ServiceAccounts :
      LET o == Latest(hist[b]) IN
      (/\ DeletingWith(o, Finalizer) /\ o.sa = s
       /\ Current(accounts[s]) /\ AnnotationOf(s) # None)
      ~> AnnotationOf(s) = None
=============================================================================
