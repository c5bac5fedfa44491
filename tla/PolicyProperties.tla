-------------------------- MODULE PolicyProperties --------------------------
(***************************************************************************)
(* What IamPolicyReconciler promises, and the inductive invariant behind   *)
(* it.                                                                     *)
(***************************************************************************)
EXTENDS PolicyController, FinalizerHistory

-----------------------------------------------------------------------------
(* Refinement: what ManagedResource sees of a state.                       *)

Getting == {"list", "getPolicy", "getVersion"}

Finalization ==
    IF At("deletePolicy") \/ (w.pc \in Getting /\ w.why = "finalize") THEN "withdraw"
    ELSE IF At("removeFinalizer") THEN "remove" ELSE "none"

HeldState(o) ==
    IF ~Own(o) THEN "free" ELSE IF Deleting(o) THEN "releasing" ELSE "held"

HeldObjects == [p \in Policies |-> HeldState(Latest(hist[p]))]

ProvidedPolicies == [p \in Policies |-> Managed(iam[p])]

FinalizationTask ==
    [step |-> Finalization, name |-> IF Finalization = "none" THEN None ELSE w.cur]

MR == INSTANCE ManagedResource WITH
    Names <- Policies, obj <- HeldObjects, res <- ProvidedPolicies, task <- FinalizationTask

(* The reconciler, with its Get of up to three calls and its stale status, *)
(* is a correct manager of a resource, seen at its finalizer and at the    *)
(* policy it creates in IAM: it never begins to finalize what is held,     *)
(* creates nothing while it finalizes and releases an object only when the *)
(* policy is gone, as long as nobody else puts a version in force and      *)
(* ListPolicies shows every policy.                                        *)
ImplementsManagedResource == MR!Spec

-----------------------------------------------------------------------------

(* A managed policy the controller created in IAM always has an IamPolicy  *)
(* that holds the controller's finalizer at the API server, as long as     *)
(* nobody else puts a version in force: nobody is left with a policy       *)
(* that no object accounts for, whatever users delete, whatever the cache  *)
(* shows and wherever the process ends.                                    *)
NoOrphan ==
    \A p \in Policies : Managed(iam[p]) =>
        LET o == Latest(hist[p]) IN Present(o) /\ Own(o)

(* The worker takes a policy from IAM only when the object at the API      *)
(* server is being deleted, however old the cached copy is that Finalize   *)
(* works from.                                                             *)
DeletesOnlyDeleting ==
    [][\A p \in Policies :
         (Managed(iam[p]) /\ ~Managed(iam'[p]) /\ w' # w)
         => Deleting(Latest(hist[p]))]_vars

(* Whatever the worker writes to a managed policy, its own document is in  *)
(* force afterwards, and the API server has the object with the finalizer  *)
(* (Update creates the new version before it deletes the old one, and      *)
(* never deletes the one in force).                                        *)
InForceIsHeld ==
    [][\A p \in Policies :
         (Managed(iam'[p]) /\ iam'[p] # iam[p] /\ w' # w)
         => /\ InForce(iam'[p]) = Desired(w.inst)
            /\ Own(Latest(hist[p]))]_vars

-----------------------------------------------------------------------------
(* The inductive invariant.                                                *)

(* IamPolicies are alone with their policies: nobody else puts a version   *)
(* in force, and ListPolicies shows every policy.  NoOrphan needs both.    *)
Undisturbed == ~ForeignVersions /\ Policies \subseteq FirstPage

Provisioning == {"createPolicy", "patchCreated", "createVersion",
                 "deleteVersion", "patchUpdated", "patchRoles"}

Provides(v) == v.pc \in Provisioning \/ (v.pc \in Getting /\ v.why # "finalize")

Finalizes(v) == \/ v.pc \in {"deletePolicy", "removeFinalizer"}
                \/ v.pc \in Getting /\ v.why = "finalize"

(* What the worker may rely on at each of its calls, however old w.inst is.*)
WorkerKnows ==
    LET i == iam[w.cur] IN
    /\ At("addFinalizer") => Kept(hist[w.cur], Finalizer)
    /\ Provides(w) => Own(Latest(hist[w.cur]))
    /\ Finalizes(w) => Dying(hist[w.cur], Finalizer)
    /\ At("removeFinalizer") => ~Managed(i)
    /\ (At("getVersion") /\ Managed(i)) => w.version = i.default
    /\ (At("deleteVersion") /\ Managed(i)) => InForce(i) = Desired(w.inst)

(* A policy has a version in force, and not more than the limit.           *)
Sound(i) ==
    Managed(i) => /\ i.default \in Stored(i)
                  /\ Cardinality(Stored(i)) <= VersionLimit

VersionsSound == \A p \in Policies : Sound(iam[p])

(* The inductive invariant, of an Undisturbed system.                      *)
IInv ==
    /\ TypeOK
    /\ \A p \in Policies : Orderly(hist[p], Finalizer)
    /\ VersionsSound
    /\ NoOrphan
    /\ WorkerKnows

-----------------------------------------------------------------------------
(* Liveness, under the fairness of FairSpec.                               *)

(* A deletion finishes: the finalizer goes (with NoOrphan: after the       *)
(* policy in IAM), through failed calls, stale caches, restarts and        *)
(* outside interference.                                                   *)
DeletionCompletes ==
    \A p \in Policies : DeletingWith(Latest(hist[p]), Finalizer) ~> ~Own(Latest(hist[p]))

(* An IamPolicy that stays, with a document IAM accepts, gets a managed    *)
(* policy and its ARN in the status, unless someone else has the name.     *)
PolicyProvisioned ==
    \A p \in Policies :
      <>[](/\ Live(Latest(hist[p])) /\ Desired(Latest(hist[p])) \in Valid
           /\ iam[p].owner # "external")
      => <>[](Managed(iam[p]) /\ Latest(hist[p]).arn)

(* status.attachedRoles ends as the roles that refer to the policy.        *)
AttachedRolesConverge ==
    \A p \in Policies, r \in Roles :
      LET Stays == /\ Live(Latest(hist[p])) /\ Desired(Latest(hist[p])) \in Valid
                   /\ iam[p].owner # "external"
      IN /\ <>[](Stays /\ p \in refs[r]) => <>[](r \in Latest(hist[p]).roles)
         /\ <>[](Stays /\ p \notin refs[r]) => <>[](r \notin Latest(hist[p]).roles)

(* The document in force ends as the one in the spec, however often users  *)
(* change it and however late the cache shows it, unless someone else has  *)
(* the name.  controllers/iampolicy_controller.go:61 promises it:          *)
(* Reconcile "aims to move the current state of the cluster closer to the  *)
(* desired state".  But Reconcile learns of a difference from the sum in   *)
(* its own status only: one call that is not answered refutes it           *)
(* (policy_revert.cfg).                                                    *)
DocumentConverges ==
    \A p \in Policies, d \in Valid :
      <>[](/\ Live(Latest(hist[p])) /\ Desired(Latest(hist[p])) = d
           /\ iam[p].owner # "external")
      => <>[](Managed(iam[p]) /\ InForce(iam[p]) = d)

(* What is left of it: it holds while every call is answered, however      *)
(* users' edits interleave with the stale sum, and also for two specs that *)
(* have the same document.                                                 *)
DocumentFollowsSpec == [](faults = 0) => DocumentConverges
=============================================================================
