--------------------------- MODULE RoleController ---------------------------
(***************************************************************************)
(* controllers/iamrole_controller.go: IamRoleReconciler, one worker that   *)
(* reconciles IamRole objects of the API server with roles in IAM.         *)
(*                                                                         *)
(* A reconcile runs from one remote call to the next; each call is a step, *)
(* with the local computation and the cached reads that follow it.  w.pc   *)
(* names the call the worker is about to make.  Between two calls anything *)
(* else may happen: users, other controllers, the informer, administrators *)
(* of the AWS account, and the end of the process.                         *)
(*                                                                         *)
(* Two calls are one step with the cached read before them: attach, with   *)
(* the IamPolicy's ARN, and bindGet, with the list of bindings.  An event  *)
(* of the cache between the two changes nothing that the call depends on,  *)
(* and may as well come after it.                                          *)
(***************************************************************************)
EXTENDS KubeObject, IamRoleService, RemoteCalls

CONSTANTS
    Roles,              \* names of IamRole objects, and of their IAM roles
    Bindings,           \* names of IamRoleBinding objects
    Finalizer,          \* "jackhoman.com/delete-iam-role"
    ForeignFinalizers,  \* finalizers of other parties
    None,               \* no role, no binding
    MaxLag,             \* bound: users, of bindings too, wait while this
                        \* many versions are on their way to the cache
    ForeignTrust        \* what administrators write into trust policies

ASSUME RoleControllerAssumption ==
    /\ Finalizer \notin ForeignFinalizers
    /\ None \notin Roles
    /\ MaxLag \in Nat
    /\ ForeignTrust \subseteq SUBSET ForeignStatements

VARIABLES
    hist,      \* versions of each IamRole, see KubeObject
    queue,     \* roles in the work queue
    w,         \* the worker
    iam,       \* the roles in IAM
    upstream,  \* the managed policies that exist in IAM
    policies,  \* the cached IamPolicy objects: status.arn set?, attachedRoles
    bindings   \* the cached IamRoleBinding objects

vars == <<hist, queue, w, iam, upstream, policies, bindings, faults>>

Finalizers == {Finalizer} \cup ForeignFinalizers

(* arn is the owner of the role with that ARN, "none" while it is empty;   *)
(* refs is spec.policyRefs, bsas is status.boundServiceAccounts.           *)
IamRoles == [phase : Phases, fins : SUBSET Finalizers,
             refs : SUBSET Policies, arn : Owners,
             bsas : SUBSET ServiceAccounts]

NoIamRole == [phase |-> "absent", fins |-> {}, refs |-> {}, arn |-> "none",
              bsas |-> {}]

IamPolicies == [arn : BOOLEAN, roles : SUBSET Roles]

IamRoleBindings == [role : Roles, sa : ServiceAccounts] \cup {None}

Calls == {"addFinalizer", "getRole", "createRole", "createGet", "list",
          "attach", "detach", "patchArn", "bindGet", "bindUpdate",
          "bindConfirm", "patchBound", "finGet", "finDelete",
          "removeFinalizer"}

Workers == [pc : Calls \cup {"idle"}, cur : Roles \cup {None},
            inst : IamRoles, arn : Owners, todo : SUBSET Policies,
            extra : SUBSET Policies, accounts : SUBSET ServiceAccounts,
            trust : TrustDoc]

Idle == [pc |-> "idle", cur |-> None, inst |-> NoIamRole, arn |-> "none",
         todo |-> {}, extra |-> {}, accounts |-> {}, trust |-> DenyAll]

Own(o) == ContainsFinalizer(o, Finalizer)

(* The service accounts of the cached bindings that refer to role r.       *)
BoundTo(r) ==
    {bindings[b].sa : b \in {c \in Bindings : /\ bindings[c] # None
                                              /\ bindings[c].role = r}}

TypeOK ==
    /\ hist \in [Roles -> Versions(IamRoles)]
    /\ queue \subseteq Roles
    /\ w \in Workers
    /\ w.pc # "idle" => w.cur \in Roles
    /\ iam \in [Roles -> UpstreamRole]
    /\ upstream \subseteq Policies
    /\ policies \in [Policies -> IamPolicies]
    /\ bindings \in [Bindings -> IamRoleBindings]
    /\ faults \in 0..MaxFaults

Init ==
    /\ hist = [r \in Roles |-> <<NoIamRole>>]
    /\ queue = {}
    /\ w = Idle
    /\ iam = [r \in Roles |-> NoUpstreamRole]
    /\ upstream = {}
    /\ policies = [p \in Policies |-> [arn |-> FALSE, roles |-> {}]]
    /\ bindings = [b \in Bindings |-> None]
    /\ faults = 0

-----------------------------------------------------------------------------
(* Reconcile goes on, or returns the error and is queued again.            *)
Settle(o, next) ==
    /\ w' = IF o = "ok" THEN next ELSE Idle
    /\ queue' = IF o = "ok" THEN queue ELSE queue \cup {w.cur}
    /\ Charge(o)

At(pc) == w.pc = pc
Goto(pc) == [w EXCEPT !.pc = pc]

Lagging(r) == Len(hist[r]) > MaxLag

WriteIamRole(r, o) == hist' = [hist EXCEPT ![r] = Written(@, o)]

-----------------------------------------------------------------------------
(* Reconcile.                                                              *)

(* Mutant: the finalizer is not added first.                               *)
FirstCallUnguarded(o) == IF Deleting(o) THEN "finGet" ELSE "getRole"

(* Where a reconcile of the cached object o begins.                        *)
FirstCall(o) ==
    IF Deleting(o) THEN "finGet"
    ELSE IF Own(o) THEN "getRole" ELSE "addFinalizer"

(* Mutant: the request's name is not kept.                                 *)
StartUnnamed(r) ==
    /\ At("idle")
    /\ r \in queue
    /\ queue' = queue \ {r}
    /\ LET o == Cached(hist[r]) IN
       w' = IF Present(o) THEN [Idle EXCEPT !.pc = FirstCall(o), !.inst = o] ELSE Idle
    /\ UNCHANGED <<hist, iam, upstream, policies, bindings, faults>>

Start(r) ==
    /\ At("idle")
    /\ r \in queue
    /\ queue' = queue \ {r}
    /\ LET o == Cached(hist[r]) IN
       w' = IF Present(o)
            THEN [Idle EXCEPT !.pc = FirstCall(o), !.cur = r, !.inst = o]
            ELSE Idle
    /\ UNCHANGED <<hist, iam, upstream, policies, bindings, faults>>

AddFinalizer ==
    /\ At("addFinalizer")
    /\ LET o == Latest(hist[w.cur]) IN
       \E out \in Outcomes(ApplyAccepted(o, Finalizer)) :
         /\ IF TookEffect(out) THEN WriteIamRole(w.cur, Applied(o, Finalizer))
                               ELSE UNCHANGED hist
         /\ Settle(out, Goto("getRole"))
    /\ UNCHANGED <<iam, upstream, policies, bindings>>

(* Mutant: a role that is not the one in the status is replaced.           *)
GetRoleReplacing ==
    /\ At("getRole")
    /\ LET i == iam[w.cur] IN
       \E out \in Outcomes(TRUE) :
         Settle(out, IF ~Exists(i) THEN Goto("createRole")
                     ELSE IF i.owner # w.inst.arn THEN Goto("finDelete")
                     ELSE [Goto("list") EXCEPT !.arn = i.owner])
    /\ UNCHANGED <<hist, iam, upstream, policies, bindings>>

(* Mutant: a role that has an ARN in the status is taken to exist.         *)
GetRoleKnown ==
    /\ At("getRole")
    /\ LET i == iam[w.cur] IN
       \E out \in Outcomes(TRUE) :
         Settle(out, IF Exists(i) \/ w.inst.arn # "none"
                     THEN [Goto("list") EXCEPT !.arn = i.owner]
                     ELSE Goto("createRole"))
    /\ UNCHANGED <<hist, iam, upstream, policies, bindings>>

GetRole ==
    /\ At("getRole")
    /\ LET i == iam[w.cur] IN
       \E out \in Outcomes(TRUE) :
         Settle(out, IF Exists(i) THEN [Goto("list") EXCEPT !.arn = i.owner]
                                  ELSE Goto("createRole"))
    /\ UNCHANGED <<hist, iam, upstream, policies, bindings>>

CreateRole ==
    /\ At("createRole")
    /\ LET i == iam[w.cur] IN
       \E out \in Outcomes(~Exists(i)) :
         /\ iam' = IF TookEffect(out)
                   THEN [iam EXCEPT ![w.cur] = Created(i, "controller")]
                   ELSE iam
         /\ Settle(out, Goto("createGet"))
    /\ UNCHANGED <<hist, upstream, policies, bindings>>

CreateGet ==
    /\ At("createGet")
    /\ LET i == iam[w.cur] IN
       \E out \in Outcomes(Exists(i)) :
         Settle(out, [Goto("list") EXCEPT !.arn = i.owner])
    /\ UNCHANGED <<hist, iam, upstream, policies, bindings>>

(* Mutant: what is no longer referenced stays attached.                    *)
NextAttachmentNoDetach(v) ==
    [v EXCEPT !.pc = IF v.todo # {} THEN "attach"
                     ELSE IF v.inst.arn # v.arn THEN "patchArn"
                     ELSE "bindGet"]

(* The call after the list, an attachment or a detachment.                 *)
NextAttachment(v) ==
    [v EXCEPT !.pc = IF v.todo # {} THEN "attach"
                     ELSE IF v.extra # {} THEN "detach"
                     ELSE IF v.inst.arn # v.arn THEN "patchArn"
                     ELSE "bindGet"]

List ==
    /\ At("list")
    /\ LET i == iam[w.cur]
           listed == ListAttached(i, upstream)
       IN \E out \in Outcomes(Exists(i)) :
            Settle(out, NextAttachment([w EXCEPT
                            !.todo = w.inst.refs \ listed,
                            !.extra = listed \ w.inst.refs]))
    /\ UNCHANGED <<hist, iam, upstream, policies, bindings>>

(* A policy without an ARN is skipped, and an error is only logged.        *)
Attach(p) ==
    /\ At("attach")
    /\ p \in w.todo
    /\ LET i == iam[w.cur] IN
       \/ /\ ~policies[p].arn
          /\ UNCHANGED <<iam, faults>>
       \/ /\ policies[p].arn
          /\ \E out \in Outcomes(AttachAccepted(i, p, upstream)) :
               /\ iam' = IF TookEffect(out)
                         THEN [iam EXCEPT ![w.cur] = Attached(i, p)] ELSE iam
               /\ Charge(out)
    /\ w' = NextAttachment([w EXCEPT !.todo = @ \ {p}])
    /\ UNCHANGED <<hist, queue, upstream, policies, bindings>>

Detach(p) ==
    /\ At("detach")
    /\ p \in w.extra
    /\ LET i == iam[w.cur] IN
       \E out \in Outcomes(DetachAccepted(i, p)) :
         /\ iam' = IF TookEffect(out)
                   THEN [iam EXCEPT ![w.cur] = Detached(i, p)] ELSE iam
         /\ Charge(out)
    /\ w' = NextAttachment([w EXCEPT !.extra = @ \ {p}])
    /\ UNCHANGED <<hist, queue, upstream, policies, bindings>>

(* The answer to a status patch replaces the instance.                     *)
PatchArn ==
    /\ At("patchArn")
    /\ LET o == [Latest(hist[w.cur]) EXCEPT !.arn = w.arn] IN
       \E out \in Outcomes(Present(o)) :
         /\ IF TookEffect(out) THEN WriteIamRole(w.cur, o) ELSE UNCHANGED hist
         /\ Settle(out, [Goto("bindGet") EXCEPT !.inst = o])
    /\ UNCHANGED <<iam, upstream, policies, bindings>>

-----------------------------------------------------------------------------
(* updateTrustPolicy and the Bind it calls.                                *)

(* Mutant: accounts that are no longer bound are not noticed.              *)
AfterBindAddsOnly(v) ==
    IF v.accounts \subseteq v.inst.bsas THEN Idle ELSE [v EXCEPT !.pc = "patchBound"]

(* Bind has returned without an error.                                     *)
AfterBind(v) ==
    IF v.inst.bsas # v.accounts THEN [v EXCEPT !.pc = "patchBound"] ELSE Idle

BindGet ==
    /\ At("bindGet")
    /\ LET i == iam[w.cur]
           v == [w EXCEPT !.accounts = BoundTo(w.cur), !.trust = i.trust]
       IN \E out \in Outcomes(Exists(i) /\ Decodable(i.trust)) :
            Settle(out, IF NeedsUpdate(v.trust, v.accounts)
                        THEN [v EXCEPT !.pc = "bindUpdate"] ELSE AfterBind(v))
    /\ UNCHANGED <<hist, iam, upstream, policies, bindings>>

BindUpdate ==
    /\ At("bindUpdate")
    /\ LET i == iam[w.cur] IN
       \E out \in Outcomes(Exists(i)) :
         /\ iam' = IF TookEffect(out)
                   THEN [iam EXCEPT ![w.cur] =
                            WithTrust(i, Edited(w.trust, w.accounts))]
                   ELSE iam
         /\ Settle(out, Goto("bindConfirm"))
    /\ UNCHANGED <<hist, upstream, policies, bindings>>

(* The rest of the client's Update: UpdateRole, with nothing to change,    *)
(* and Get.                                                                *)
BindConfirm ==
    /\ At("bindConfirm")
    /\ \E out \in Outcomes(Exists(iam[w.cur])) : Settle(out, AfterBind(w))
    /\ UNCHANGED <<hist, iam, upstream, policies, bindings>>

(* An error here is only logged.                                           *)
PatchBound ==
    /\ At("patchBound")
    /\ LET o == [Latest(hist[w.cur]) EXCEPT !.bsas = w.accounts] IN
       \E out \in Outcomes(Present(o)) :
         /\ IF TookEffect(out) THEN WriteIamRole(w.cur, o) ELSE UNCHANGED hist
         /\ Charge(out)
    /\ w' = Idle
    /\ UNCHANGED <<queue, iam, upstream, policies, bindings>>

-----------------------------------------------------------------------------
(* Finalize and RemoveFinalizer.                                           *)

AfterFinalize == IF Own(w.inst) THEN Goto("removeFinalizer") ELSE Idle

(* Mutant: the role is not deleted.                                        *)
FinGetOnly ==
    /\ At("finGet")
    /\ \E out \in Outcomes(TRUE) : Settle(out, AfterFinalize)
    /\ UNCHANGED <<hist, iam, upstream, policies, bindings>>

(* Mutant: a role that is gone already is an error.                        *)
FinGetStrict ==
    /\ At("finGet")
    /\ \E out \in Outcomes(Exists(iam[w.cur])) : Settle(out, Goto("finDelete"))
    /\ UNCHANGED <<hist, iam, upstream, policies, bindings>>

FinGet ==
    /\ At("finGet")
    /\ \E out \in Outcomes(TRUE) :
         Settle(out, IF Exists(iam[w.cur]) THEN Goto("finDelete")
                                           ELSE AfterFinalize)
    /\ UNCHANGED <<hist, iam, upstream, policies, bindings>>

FinDelete ==
    /\ At("finDelete")
    /\ LET i == iam[w.cur] IN
       \E out \in Outcomes(DeleteAccepted(i)) :
         /\ iam' = IF TookEffect(out) THEN [iam EXCEPT ![w.cur] = Removed(i)]
                                      ELSE iam
         /\ Settle(out, AfterFinalize)
    /\ UNCHANGED <<hist, upstream, policies, bindings>>

(* A merge patch writes the whole list as the cached object had it, to     *)
(* whatever object has the name by now.                                    *)
RemoveFinalizer ==
    /\ At("removeFinalizer")
    /\ LET o == Latest(hist[w.cur])
           fins == w.inst.fins \ {Finalizer}
       IN \E out \in Outcomes(FinalizersAccepted(o, fins)) :
            /\ IF TookEffect(out)
               THEN WriteIamRole(w.cur, WithFinalizers(o, fins, NoIamRole))
               ELSE UNCHANGED hist
            /\ Settle(out, Idle)
    /\ UNCHANGED <<iam, upstream, policies, bindings>>

Reconcile ==
    \/ AddFinalizer
    \/ GetRole \/ CreateRole \/ CreateGet
    \/ List
    \/ \E p \in Policies : Attach(p) \/ Detach(p)
    \/ PatchArn
    \/ BindGet \/ BindUpdate \/ BindConfirm \/ PatchBound
    \/ FinGet \/ FinDelete \/ RemoveFinalizer

-----------------------------------------------------------------------------
(* The manager: watches, resynchronisation and the end of the process.     *)

(* A watch event reaches the cache and queues the role.                    *)
Sync(r) ==
    /\ ~Current(hist[r])
    /\ hist' = [hist EXCEPT ![r] = Delivered(@)]
    /\ queue' = queue \cup {r}
    /\ UNCHANGED <<w, iam, upstream, policies, bindings, faults>>

(* The informer's periodic resync queues every object in the cache.        *)
Resync ==
    /\ queue' = queue \cup {r \in Roles : Present(Cached(hist[r]))}
    /\ queue' # queue
    /\ UNCHANGED <<hist, w, iam, upstream, policies, bindings, faults>>

(* The process ends at any point, and another one lists the objects; the   *)
(* caches of the other kinds jump as well.                                 *)
Restart ==
    /\ faults < MaxFaults
    /\ faults' = faults + 1
    /\ hist' = [r \in Roles |-> Relisted(hist[r])]
    /\ w' = Idle
    /\ queue' = {r \in Roles : Present(Latest(hist[r]))}
    /\ policies' \in [Policies -> IamPolicies]
    /\ bindings' \in [Bindings -> IamRoleBindings]
    /\ UNCHANGED <<iam, upstream>>

(* Mutant: the role a binding referred to before is not queued.            *)
BindingEventNewOnly(b, new) ==
    /\ \A r \in Roles : ~Lagging(r)
    /\ bindings' = [bindings EXCEPT ![b] = new]
    /\ queue' = queue \cup {v.role : v \in {new} \ {None}}
    /\ UNCHANGED <<hist, w, iam, upstream, policies, faults>>

(* A binding appears, changes or goes: the roles it referred to and refers *)
(* to now are queued.                                                      *)
BindingEvent(b, new) ==
    /\ \A r \in Roles : ~Lagging(r)
    /\ bindings' = [bindings EXCEPT ![b] = new]
    /\ queue' = queue \cup {v.role : v \in {bindings[b], new} \ {None}}
    /\ UNCHANGED <<hist, w, iam, upstream, policies, faults>>

(* Mutant: the roles a policy's status names now are not queued.           *)
PolicySeenOldOnly(p, new) ==
    /\ policies' = [policies EXCEPT ![p] = new]
    /\ queue' = queue \cup policies[p].roles
    /\ UNCHANGED <<hist, w, iam, upstream, bindings, faults>>

(* The same for a policy and the roles in its status.attachedRoles.        *)
PolicySeen(p, new) ==
    /\ policies' = [policies EXCEPT ![p] = new]
    /\ queue' = queue \cup policies[p].roles \cup new.roles
    /\ UNCHANGED <<hist, w, iam, upstream, bindings, faults>>

Manager ==
    \/ \E r \in Roles : Sync(r)
    \/ Resync
    \/ Restart
    \/ \E b \in Bindings, new \in IamRoleBindings : BindingEvent(b, new)
    \/ \E p \in Policies, new \in IamPolicies : PolicySeen(p, new)

-----------------------------------------------------------------------------
(* Users of the cluster.  They leave the controller's finalizer alone.     *)

UserWrites(r, o) ==
    /\ ~Lagging(r)
    /\ WriteIamRole(r, o)
    /\ UNCHANGED <<queue, w, iam, upstream, policies, bindings, faults>>

CreateIamRole(r, fins, refs) ==
    /\ ~Present(Latest(hist[r]))
    /\ UserWrites(r, [NoIamRole EXCEPT !.phase = "live", !.fins = fins,
                                       !.refs = refs])

DeleteIamRole(r) ==
    /\ Live(Latest(hist[r]))
    /\ UserWrites(r, Deleted(Latest(hist[r]), NoIamRole))

SetPolicyRefs(r, refs) ==
    /\ Live(Latest(hist[r]))
    /\ refs # Latest(hist[r]).refs
    /\ UserWrites(r, [Latest(hist[r]) EXCEPT !.refs = refs])

ReleaseFinalizer(r, f) ==
    LET o == Latest(hist[r]) IN
    /\ ContainsFinalizer(o, f)
    /\ UserWrites(r, WithFinalizers(o, o.fins \ {f}, NoIamRole))

Users ==
    \E r \in Roles :
      \/ \E fins \in SUBSET ForeignFinalizers, refs \in SUBSET Policies :
           CreateIamRole(r, fins, refs)
      \/ DeleteIamRole(r)
      \/ \E refs \in SUBSET Policies : SetPolicyRefs(r, refs)
      \/ \E f \in ForeignFinalizers : ReleaseFinalizer(r, f)

-----------------------------------------------------------------------------
(* Administrators of the AWS account, behind the controller's back, and    *)
(* the policies other controllers make.                                    *)

Interferes(r, i) ==
    /\ faults < MaxFaults
    /\ faults' = faults + 1
    /\ iam' = [iam EXCEPT ![r] = i]
    /\ UNCHANGED <<hist, queue, w, upstream, policies, bindings>>

ExternalCreate(r) == ~Exists(iam[r]) /\ Interferes(r, Created(iam[r], "external"))

ExternalDelete(r) == DeleteAccepted(iam[r]) /\ Interferes(r, Removed(iam[r]))

ExternalTrust(r, foreign) ==
    /\ Exists(iam[r])
    /\ foreign # iam[r].trust.foreign
    /\ Interferes(r, WithTrust(iam[r], [iam[r].trust EXCEPT !.foreign = foreign]))

UpstreamPolicy(new) ==
    /\ new # upstream
    /\ upstream' = new
    /\ UNCHANGED <<hist, queue, w, iam, policies, bindings, faults>>

Aws ==
    \/ \E r \in Roles : \/ ExternalCreate(r) \/ ExternalDelete(r)
                        \/ \E f \in ForeignTrust : ExternalTrust(r, f)
    \/ \E new \in SUBSET Policies : UpstreamPolicy(new)

-----------------------------------------------------------------------------
Next ==
    \/ \E r \in Roles : Start(r)
    \/ Reconcile
    \/ Manager
    \/ Users
    \/ Aws

Spec == Init /\ [][Next]_vars

(* Calls return, watch events arrive, and the queue is first in, first     *)
(* out: a role that stays in it is started.                                *)
EventFairness ==
    /\ WF_vars(Reconcile)
    /\ \A r \in Roles : SF_vars(Start(r)) /\ WF_vars(Sync(r))

EventSpec == Spec /\ EventFairness

(* What no event reports is left to the resync, whose period passes.       *)
FairSpec == EventSpec /\ WF_vars(Resync)
=============================================================================
