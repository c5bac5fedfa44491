--------------------------- MODULE RoleProperties ---------------------------
(***************************************************************************)
(* What IamRoleReconciler promises, and the inductive invariant behind it. *)
(***************************************************************************)
EXTENDS RoleController, FinalizerHistory

-----------------------------------------------------------------------------
(* Refinement: what ManagedResource sees of a state.                       *)

(* A finalization is one of an object that has the controller's finalizer. *)
Finalization ==
    IF w.pc \in {"finGet", "finDelete"} /\ Own(w.inst) THEN "withdraw"
    ELSE IF At("removeFinalizer") THEN "remove" ELSE "none"

HeldState(o) ==
    IF ~Own(o) THEN "free" ELSE IF Deleting(o) THEN "releasing" ELSE "held"

HeldObjects == [r \in Roles |-> HeldState(Latest(hist[r]))]

ProvidedRoles == [r \in Roles |-> iam[r].owner = "controller"]

FinalizationTask ==
    [step |-> Finalization, name |-> IF Finalization = "none" THEN None ELSE w.cur]

MR == INSTANCE ManagedResource WITH
    Names <- Roles, obj <- HeldObjects, res <- ProvidedRoles, task <- FinalizationTask

(* The reconciler, seen at its finalizer and at the role it creates in     *)
(* IAM, is a correct manager of a resource.  Through stale caches, calls   *)
(* whose answer is lost and restarts it never begins to finalize what is   *)
(* held, provides nothing while it finalizes, releases an object only when *)
(* the role is gone and changes one of the two stores at a time.           *)
ImplementsManagedResource == MR!Spec

-----------------------------------------------------------------------------

(* A role the controller created in IAM always has an IamRole that holds   *)
(* the controller's finalizer at the API server: whatever users delete,    *)
(* whatever the cache still shows and wherever the process ends, nobody is *)
(* left with a role that no object accounts for (Reconcile adds the        *)
(* finalizer before it creates, Finalize deletes before RemoveFinalizer).  *)
NoOrphan ==
    \A r \in Roles : iam[r].owner = "controller" =>
        LET o == Latest(hist[r]) IN Present(o) /\ Own(o)

(* What makes more of a role: it comes to be, a policy is attached to it,  *)
(* or a service account may assume it.                                     *)
GrantsMore(i, j) ==
    \/ ~Exists(i) /\ Exists(j)
    \/ ~(j.attached \subseteq i.attached)
    \/ ~(j.trust.accounts \subseteq i.trust.accounts)

(* The worker makes more of a role only while the API server has the       *)
(* object with the controller's finalizer, at each of the calls between    *)
(* which users delete and restore objects and the cache runs behind: there *)
(* is a deletion to come that finalizes, whoever was granted what.         *)
GrantsOnlyHeld ==
    [][\A r \in Roles :
         (w' # w /\ GrantsMore(iam[r], iam'[r]))
         => LET o == Latest(hist[r]) IN Present(o) /\ Own(o)]_vars

(* Acting on an object with its own finalizer, the worker takes the role   *)
(* it created from IAM only when the object at the API server is being     *)
(* deleted, however old the cached copy that Finalize works from is.       *)
DeletesOnlyDeleting ==
    [][\A r \in Roles :
         (/\ iam[r].owner = "controller" /\ iam'[r].owner # "controller"
          /\ w' # w /\ Own(w.inst))
         => Deleting(Latest(hist[r]))]_vars

-----------------------------------------------------------------------------
(* The inductive invariant.                                                *)

(* Only the worker adds and removes its finalizer, it adds it only to what *)
(* the cache shows live and removes it only from what the cache shows      *)
(* being deleted; so the history stays orderly (FinalizerHistory), and the *)
(* worker may rely on this at each of its calls, however old w.inst is.    *)

Provisioning == Calls \ {"addFinalizer", "finGet", "finDelete", "removeFinalizer"}
Finalizing == {"finGet", "finDelete", "removeFinalizer"}

WorkerKnows ==
    /\ At("addFinalizer") => Kept(hist[w.cur], Finalizer)
    /\ w.pc \in Provisioning => Own(Latest(hist[w.cur]))
    /\ (w.pc \in Finalizing /\ Own(w.inst)) => Dying(hist[w.cur], Finalizer)
    /\ At("removeFinalizer") =>
          Own(w.inst) /\ iam[w.cur].owner # "controller"

(* The inductive invariant: it implies NoOrphan and DeletesOnlyDeleting.   *)
IInv ==
    /\ TypeOK
    /\ \A r \in Roles : Orderly(hist[r], Finalizer)
    /\ NoOrphan
    /\ WorkerKnows

-----------------------------------------------------------------------------
(* Liveness, under the fairness of FairSpec.                               *)

(* A deletion finishes: once an object with the controller's finalizer is  *)
(* being deleted, the finalizer goes (with NoOrphan: after the IAM role),  *)
(* through failed calls, stale caches, restarts and outside interference.  *)
DeletionCompletes ==
    \A r \in Roles : DeletingWith(Latest(hist[r]), Finalizer) ~> ~Own(Latest(hist[r]))

(* An IamRole that stays gets an IAM role and a status.roleArn that is the *)
(* ARN of that role, even when administrators delete it or make another    *)
(* one under its name.                                                     *)
RoleProvisioned ==
    \A r \in Roles :
        <>[]Live(Latest(hist[r])) =>
        <>[](/\ Exists(iam[r])
             /\ Latest(hist[r]).arn = iam[r].owner)

(* Attachments follow spec.policyRefs: a policy that stays referenced, has *)
(* its ARN in its status and exists is attached in the end, and one that   *)
(* stays unreferenced is not.                                              *)
AttachmentsConverge ==
    \A r \in Roles, p \in Policies :
      /\ <>[](/\ Live(Latest(hist[r])) /\ p \in Latest(hist[r]).refs
              /\ policies[p].arn /\ p \in upstream)
         => <>[](p \in iam[r].attached)
      /\ <>[](/\ Live(Latest(hist[r])) /\ p \notin Latest(hist[r]).refs
              /\ p \in upstream)
         => <>[](p \notin iam[r].attached)

(* The trust statement of a role the controller created exists in the end  *)
(* exactly when some binding refers to the role, as long as Bind can read  *)
(* the document: the events alone see to it, without the resync.           *)
TrustPresence ==
    \A r \in Roles :
      LET Bindable == /\ Live(Latest(hist[r])) /\ iam[r].owner = "controller"
                      /\ Decodable(iam[r].trust)
      IN /\ <>[](Bindable /\ BoundTo(r) = {}) => <>[]~HasStatement(iam[r].trust)
         /\ <>[](Bindable /\ BoundTo(r) # {}) => <>[]HasStatement(iam[r].trust)

(* status.boundServiceAccounts ends as the accounts of the bindings that    *)
(* refer to the role, although updateTrustPolicy swallows the error of its *)
(* patch and compares with a cached status: what a failed patch or a stale *)
(* comparison left is put right by the informer's resync, which this needs.*)
BoundAccountsRecorded ==
    WF_vars(Resync) =>
    \A r \in Roles, s \in ServiceAccounts :
      LET Bindable == Live(Latest(hist[r])) /\ Decodable(iam[r].trust)
      IN /\ <>[](Bindable /\ s \in BoundTo(r)) => <>[](s \in Latest(hist[r]).bsas)
         /\ <>[](Bindable /\ s \notin BoundTo(r)) => <>[](s \notin Latest(hist[r]).bsas)

-----------------------------------------------------------------------------
(* A promise of the repository that the code does not keep.                *)

(* pkg/bindmanager/manager.go:28: "Bind will establish a trust             *)
(* relationship between a role and a service account".  When Bind has      *)
(* returned and reconcile is about to write the service accounts to        *)
(* status.boundServiceAccounts, the trust policy names just them.          *)
BindEstablishesTrust ==
    At("patchBound") => iam[w.cur].trust.accounts = w.accounts
=============================================================================
