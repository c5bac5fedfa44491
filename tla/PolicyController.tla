-------------------------- MODULE PolicyController --------------------------
(***************************************************************************)
(* controllers/iampolicy_controller.go and pkg/aws/iampolicy/client.go:    *)
(* IamPolicyReconciler, one worker that reconciles IamPolicy objects with  *)
(* managed policies in IAM, one default version each.                      *)
(*                                                                         *)
(* A reconcile runs from one remote call to the next, and w.pc names the   *)
(* call the worker is about to make.  The client's Get is up to three      *)
(* calls, and Reconcile, Create, Update and Finalize all use it: w.why     *)
(* says what for.                                                          *)
(***************************************************************************)
EXTENDS KubeObject, PolicyDocument, IamPolicyService, RemoteCalls

CONSTANTS
    Policies,           \* names of IamPolicy objects, and of IAM policies
    Roles,              \* names of IamRole objects
    Finalizer,          \* "aws.jackhoman.com/delete-iam-policy"
    ForeignFinalizers,  \* finalizers of other parties
    None,               \* no policy
    Specs,              \* the documents users write into a spec
    FirstPage,          \* policies on the first page of ListPolicies; the
                        \* rest of the account decides which these are
    MaxLag,             \* bound: users wait while this many versions are
                        \* still on their way to the cache
    ForeignVersions     \* TRUE: administrators put documents in force

(* The document of an object with nothing but metadata.                    *)
EmptySpec == [version |-> DefaultVersion, statements |-> <<>>]

ASSUME PolicyControllerAssumption ==
    /\ Finalizer \notin ForeignFinalizers
    /\ None \notin Policies
    /\ \A spec \in Specs \cup {EmptySpec} : SerializeDocument(spec) \in Documents
    /\ MaxLag \in Nat
    /\ ForeignVersions \in BOOLEAN

VARIABLES
    hist,      \* versions of each IamPolicy, see KubeObject
    refs,      \* spec.policyRefs of each cached IamRole
    queue,     \* policies in the work queue
    w,         \* the worker
    named,     \* policies whose ARN is in the client's nameCache
    iam        \* the policies in IAM

vars == <<hist, refs, queue, w, named, iam, faults>>

Finalizers == {Finalizer} \cup ForeignFinalizers

(* spec is the document of the spec; arn (is it set?), md5 and roles are   *)
(* status.arn, status.md5 (it stands for the document summed up) and       *)
(* status.attachedRoles.                                                   *)
IamPolicies == [phase : Phases, fins : SUBSET Finalizers,
                spec : Specs \cup {EmptySpec}, arn : BOOLEAN,
                md5 : Documents \cup {NoDocument}, roles : SUBSET Roles]

NoIamPolicy == [phase |-> "absent", fins |-> {}, spec |-> EmptySpec,
                arn |-> FALSE, md5 |-> NoDocument, roles |-> {}]

Calls == {"addFinalizer", "list", "getPolicy", "getVersion", "createPolicy",
          "patchCreated", "createVersion", "deleteVersion", "patchUpdated",
          "patchRoles", "deletePolicy", "removeFinalizer"}

(* What the client's Get is for: Reconcile's first look, the answer of     *)
(* Create, the beginning and the answer of Update, and Finalize.           *)
Purposes == {"look", "created", "edit", "updated", "finalize"}

Workers == [pc : Calls \cup {"idle"}, cur : Policies \cup {None},
            inst : IamPolicies, why : Purposes,
            version : VersionIds \cup {NoVersion}, roles : SUBSET Roles]

Idle == [pc |-> "idle", cur |-> None, inst |-> NoIamPolicy, why |-> "look",
         version |-> NoVersion, roles |-> {}]

Own(o) == ContainsFinalizer(o, Finalizer)

(* The documents of the specs, and the one that an object asks for.        *)
DocumentOf == [spec \in Specs \cup {EmptySpec} |-> SerializeDocument(spec)]

Desired(o) == DocumentOf[o.spec]

(* The cached roles that refer to policy p.                                *)
Referencing(p) == {r \in Roles : p \in refs[r]}

TypeOK ==
    /\ hist \in [Policies -> Versions(IamPolicies)]
    /\ refs \in [Roles -> SUBSET Policies]
    /\ queue \subseteq Policies
    /\ w \in Workers
    /\ w.pc # "idle" => w.cur \in Policies
    /\ named \subseteq Policies
    /\ iam \in [Policies -> UpstreamPolicy]
    /\ faults \in 0..MaxFaults

Init ==
    /\ hist = [p \in Policies |-> <<NoIamPolicy>>]
    /\ refs = [r \in Roles |-> {}]
    /\ queue = {}
    /\ w = Idle
    /\ named = {}
    /\ iam = [p \in Policies |-> NoUpstreamPolicy]
    /\ faults = 0

-----------------------------------------------------------------------------
At(pc) == w.pc = pc
Goto(pc) == [w EXCEPT !.pc = pc]

(* Reconcile goes on, or returns the error and is queued again.            *)
Settle(ok, next) ==
    /\ w' = IF ok THEN next ELSE Idle
    /\ queue' = IF ok THEN queue ELSE queue \cup {w.cur}

WriteIamPolicy(p, o) == hist' = [hist EXCEPT ![p] = Written(@, o)]

-----------------------------------------------------------------------------
(* Reconcile.                                                              *)

(* Get by ARN.                                                             *)
ByArn(v, why) == [v EXCEPT !.pc = "getPolicy", !.why = why]

(* Get by the ARN in the status, if there is one, else by name: the ARN of *)
(* a name is in the cache or has to be found in the list.                  *)
ByStatus(v, why) ==
    [v EXCEPT !.pc = IF v.inst.arn \/ v.cur \in named THEN "getPolicy" ELSE "list",
              !.why = why]

(* Mutant: the finalizer is not added first.                               *)
FirstCallUnguarded(v) ==
    IF Deleting(v.inst)
    THEN IF Own(v.inst) THEN ByStatus(v, "finalize") ELSE Idle
    ELSE ByStatus(v, "look")

(* Where a reconcile of the cached object begins.                          *)
FirstCall(v) ==
    IF Deleting(v.inst)
    THEN IF Own(v.inst) THEN ByStatus(v, "finalize") ELSE Idle
    ELSE IF Own(v.inst) THEN ByStatus(v, "look") ELSE [v EXCEPT !.pc = "addFinalizer"]

(* Mutant: the request's name is not kept.                                 *)
StartUnnamed(p) ==
    /\ At("idle")
    /\ p \in queue
    /\ queue' = queue \ {p}
    /\ LET o == Cached(hist[p]) IN
       w' = IF Present(o) THEN [FirstCall([Idle EXCEPT !.inst = o]) EXCEPT !.cur = None]
                          ELSE Idle
    /\ UNCHANGED <<hist, refs, named, iam, faults>>

Start(p) ==
    /\ At("idle")
    /\ p \in queue
    /\ queue' = queue \ {p}
    /\ LET o == Cached(hist[p]) IN
       w' = IF Present(o) THEN FirstCall([Idle EXCEPT !.cur = p, !.inst = o])
                          ELSE Idle
    /\ UNCHANGED <<hist, refs, named, iam, faults>>

AddFinalizer ==
    /\ At("addFinalizer")
    /\ LET o == Latest(hist[w.cur]) IN
       \E out \in Outcomes(ApplyAccepted(o, Finalizer)) :
         /\ IF TookEffect(out) THEN WriteIamPolicy(w.cur, Applied(o, Finalizer))
                               ELSE UNCHANGED hist
         /\ Settle(out = "ok", ByStatus(w, "look"))
         /\ Charge(out)
    /\ UNCHANGED <<refs, named, iam>>

(* Mutant: roles that no longer refer to the policy are not noticed.       *)
AfterUpdateAddsOnly(v) ==
    LET roles == Referencing(v.cur) IN
    IF roles \subseteq v.inst.roles THEN Idle
    ELSE [v EXCEPT !.pc = "patchRoles", !.roles = roles]

(* status.attachedRoles, when it is not what the cached roles say.         *)
AfterUpdate(v) ==
    LET roles == Referencing(v.cur) IN
    IF roles # v.inst.roles THEN [v EXCEPT !.pc = "patchRoles", !.roles = roles]
                            ELSE Idle

(* Mutant: Update only what the status knows already.                      *)
AfterLookKnown(v) ==
    IF v.inst.md5 \notin {NoDocument, Desired(v.inst)} THEN ByArn(v, "edit")
                                                  ELSE AfterUpdate(v)

(* Is the document the one whose sum is in the status?  If not, Update.    *)
AfterLook(v) ==
    IF Desired(v.inst) # v.inst.md5 THEN ByArn(v, "edit") ELSE AfterUpdate(v)

(* Mutant: Finalize looks, but does not delete.                            *)
FoundNotDeleted(v, doc) ==
    CASE v.why = "look"     -> AfterLook(v)
      [] v.why = "created"  -> [v EXCEPT !.pc = "patchCreated"]
      [] v.why = "edit"     -> [v EXCEPT !.pc = IF doc = Desired(v.inst)
                                                THEN "patchUpdated" ELSE "createVersion"]
      [] v.why = "updated"  -> [v EXCEPT !.pc = "patchUpdated"]
      [] v.why = "finalize" -> [v EXCEPT !.pc = "removeFinalizer"]

(* Mutant: a policy with another document is deleted to be created anew.   *)
FoundReplacing(v, doc) ==
    CASE v.why = "look"     -> AfterLook(v)
      [] v.why = "created"  -> [v EXCEPT !.pc = "patchCreated"]
      [] v.why = "edit"     -> [v EXCEPT !.pc = IF doc = Desired(v.inst)
                                                THEN "patchUpdated" ELSE "deletePolicy"]
      [] v.why = "updated"  -> [v EXCEPT !.pc = "patchUpdated"]
      [] v.why = "finalize" -> [v EXCEPT !.pc = "deletePolicy"]

(* Get has found the policy, with this document.                           *)
Found(v, doc) ==
    CASE v.why = "look"     -> AfterLook(v)
      [] v.why = "created"  -> [v EXCEPT !.pc = "patchCreated"]
      [] v.why = "edit"     -> [v EXCEPT !.pc = IF doc = Desired(v.inst)
                                                THEN "patchUpdated" ELSE "createVersion"]
      [] v.why = "updated"  -> [v EXCEPT !.pc = "patchUpdated"]
      [] v.why = "finalize" -> [v EXCEPT !.pc = "deletePolicy"]

(* Get has found nothing, which Create and Update take for an error.       *)
Missing(v) ==
    [v EXCEPT !.pc = IF v.why = "look" THEN "createPolicy" ELSE "removeFinalizer"]

(* Mutant: Finalize takes a policy that is gone for an error.              *)
AnswerStrict(out, found, next) ==
    /\ Settle(out = "ok" /\ (found \/ w.why = "look"),
              IF found THEN next ELSE Missing(w))
    /\ Charge(out)

(* How a call of Get ends.                                                 *)
Answer(out, found, next) ==
    /\ Settle(out = "ok" /\ (found \/ w.why \in {"look", "finalize"}),
              IF found THEN next ELSE Missing(w))
    /\ Charge(out)

(* findArn: policies under the client's path, as far as the first page     *)
(* shows them.                                                             *)
List ==
    /\ At("list")
    /\ LET found == Managed(iam[w.cur]) /\ w.cur \in FirstPage IN
       \E out \in Outcomes(TRUE) :
         /\ named' = IF out = "ok" /\ found THEN named \cup {w.cur} ELSE named
         /\ Answer(out, found, Goto("getPolicy"))
    /\ UNCHANGED <<hist, refs, iam>>

GetPolicy ==
    /\ At("getPolicy")
    /\ LET i == iam[w.cur] IN
       \E out \in Outcomes(TRUE) :
         Answer(out, Managed(i),
                [w EXCEPT !.pc = "getVersion", !.version = i.default])
    /\ UNCHANGED <<hist, refs, named, iam>>

(* The default version, as of GetPolicy.  One that is gone by now looks    *)
(* like a policy that is gone.                                             *)
GetVersion ==
    /\ At("getVersion")
    /\ LET i == iam[w.cur] IN
       \E out \in Outcomes(TRUE) :
         Answer(out, Managed(i) /\ w.version \in Stored(i),
                Found(w, i.docs[w.version]))
    /\ UNCHANGED <<hist, refs, named, iam>>

CreatePolicy ==
    /\ At("createPolicy")
    /\ LET i == iam[w.cur] IN
       \E out \in Outcomes(CreateAccepted(i, Desired(w.inst))) :
         /\ \E v \in VersionIds :
              iam' = IF TookEffect(out)
                     THEN [iam EXCEPT ![w.cur] = CreatedPolicy(v, Desired(w.inst))]
                     ELSE iam
         /\ Settle(out = "ok", ByArn(w, "created"))
         /\ Charge(out)
    /\ UNCHANGED <<hist, refs, named>>

(* Mutant: the sum is that of the document the server has by now.          *)
RecordedLatest(o, doc) == [o EXCEPT !.arn = TRUE, !.md5 = Desired(o)]

(* status.arn and status.md5 are applied, whoever owned them.              *)
Recorded(o, doc) == [o EXCEPT !.arn = TRUE, !.md5 = doc]

(* An error here is only logged; the instance keeps the status it had.     *)
PatchCreated ==
    /\ At("patchCreated")
    /\ LET o == Latest(hist[w.cur]) IN
       \E out \in Outcomes(Present(o)) :
         /\ IF TookEffect(out) THEN WriteIamPolicy(w.cur, Recorded(o, Desired(w.inst)))
                               ELSE UNCHANGED hist
         /\ Charge(out)
    /\ w' = AfterLook(w)
    /\ UNCHANGED <<refs, queue, named, iam>>

CreateVersion ==
    /\ At("createVersion")
    /\ LET i == iam[w.cur] IN
       \E out \in Outcomes(VersionAccepted(i, Desired(w.inst))) :
         /\ IF TookEffect(out)
            THEN \E v \in NewIds(i) :
                   iam' = [iam EXCEPT ![w.cur] = WithVersion(i, v, Desired(w.inst))]
            ELSE UNCHANGED iam
         /\ Settle(out = "ok", Goto("deleteVersion"))
         /\ Charge(out)
    /\ UNCHANGED <<hist, refs, named>>

(* The version that was the default.  An error leaves it behind.           *)
DeleteVersion ==
    /\ At("deleteVersion")
    /\ LET i == iam[w.cur] IN
       \E out \in Outcomes(DeleteVersionAccepted(i, w.version)) :
         /\ iam' = IF TookEffect(out)
                   THEN [iam EXCEPT ![w.cur] = WithoutVersion(i, w.version)]
                   ELSE iam
         /\ Settle(out = "ok", ByArn(w, "updated"))
         /\ Charge(out)
    /\ UNCHANGED <<hist, refs, named>>

PatchUpdated ==
    /\ At("patchUpdated")
    /\ LET o == Latest(hist[w.cur]) IN
       \E out \in Outcomes(Present(o)) :
         /\ IF TookEffect(out) THEN WriteIamPolicy(w.cur, Recorded(o, Desired(w.inst)))
                               ELSE UNCHANGED hist
         /\ Settle(out = "ok", AfterUpdate(w))
         /\ Charge(out)
    /\ UNCHANGED <<refs, named, iam>>

PatchRoles ==
    /\ At("patchRoles")
    /\ LET o == Latest(hist[w.cur]) IN
       \E out \in Outcomes(Present(o)) :
         /\ IF TookEffect(out)
            THEN WriteIamPolicy(w.cur, [o EXCEPT !.roles = w.roles])
            ELSE UNCHANGED hist
         /\ Settle(out = "ok", Idle)
         /\ Charge(out)
    /\ UNCHANGED <<refs, named, iam>>

-----------------------------------------------------------------------------
(* Finalize.                                                               *)

DeletePolicy ==
    /\ At("deletePolicy")
    /\ LET i == iam[w.cur] IN
       \E out \in Outcomes(DeleteAccepted(i)) :
         /\ iam' = IF TookEffect(out) THEN [iam EXCEPT ![w.cur] = NoUpstreamPolicy]
                                      ELSE iam
         /\ Settle(out = "ok", Goto("removeFinalizer"))
         /\ Charge(out)
    /\ UNCHANGED <<hist, refs, named>>

(* A merge patch writes the whole list as the cached object had it.        *)
RemoveFinalizer ==
    /\ At("removeFinalizer")
    /\ LET o == Latest(hist[w.cur])
           fins == w.inst.fins \ {Finalizer}
       IN \E out \in Outcomes(FinalizersAccepted(o, fins)) :
            /\ IF TookEffect(out)
               THEN WriteIamPolicy(w.cur, WithFinalizers(o, fins, NoIamPolicy))
               ELSE UNCHANGED hist
            /\ Settle(out = "ok", Idle)
            /\ Charge(out)
    /\ UNCHANGED <<refs, named, iam>>

Reconcile ==
    \/ AddFinalizer
    \/ List \/ GetPolicy \/ GetVersion
    \/ CreatePolicy \/ PatchCreated
    \/ CreateVersion \/ DeleteVersion \/ PatchUpdated
    \/ PatchRoles
    \/ DeletePolicy \/ RemoveFinalizer

-----------------------------------------------------------------------------
(* The manager.                                                            *)

Sync(p) ==
    /\ ~Current(hist[p])
    /\ hist' = [hist EXCEPT ![p] = Delivered(@)]
    /\ queue' = queue \cup {p}
    /\ UNCHANGED <<refs, w, named, iam, faults>>

Resync ==
    /\ queue' = queue \cup {p \in Policies : Present(Cached(hist[p]))}
    /\ queue' # queue
    /\ UNCHANGED <<hist, refs, w, named, iam, faults>>

(* The name cache goes with the process, and the cache of roles jumps.     *)
Restart ==
    /\ faults < MaxFaults
    /\ faults' = faults + 1
    /\ hist' = [p \in Policies |-> Relisted(hist[p])]
    /\ w' = Idle
    /\ named' = {}
    /\ queue' = {p \in Policies : Present(Latest(hist[p]))}
    /\ refs' \in [Roles -> SUBSET Policies]
    /\ UNCHANGED iam

(* A watch event of a role: the policies it referred to and refers to now  *)
(* are queued.                                                             *)
RoleSeen(r, new) ==
    /\ refs' = [refs EXCEPT ![r] = new]
    /\ queue' = queue \cup refs[r] \cup new
    /\ UNCHANGED <<hist, w, named, iam, faults>>

Manager ==
    \/ \E p \in Policies : Sync(p)
    \/ Resync
    \/ Restart
    \/ \E r \in Roles, new \in SUBSET Policies : RoleSeen(r, new)

-----------------------------------------------------------------------------
(* Users of the cluster.  They leave the controller's finalizer alone.     *)

UserWrites(p, o) ==
    /\ Len(hist[p]) <= MaxLag
    /\ WriteIamPolicy(p, o)
    /\ UNCHANGED <<refs, queue, w, named, iam, faults>>

CreateIamPolicy(p, fins, spec) ==
    /\ ~Present(Latest(hist[p]))
    /\ UserWrites(p, [NoIamPolicy EXCEPT !.phase = "live", !.fins = fins,
                                         !.spec = spec])

DeleteIamPolicy(p) ==
    /\ Live(Latest(hist[p]))
    /\ UserWrites(p, Deleted(Latest(hist[p]), NoIamPolicy))

SetDocument(p, spec) ==
    /\ Live(Latest(hist[p]))
    /\ spec # Latest(hist[p]).spec
    /\ UserWrites(p, [Latest(hist[p]) EXCEPT !.spec = spec])

ReleaseFinalizer(p, f) ==
    LET o == Latest(hist[p]) IN
    /\ ContainsFinalizer(o, f)
    /\ UserWrites(p, WithFinalizers(o, o.fins \ {f}, NoIamPolicy))

Users ==
    \E p \in Policies :
      \/ \E fins \in SUBSET ForeignFinalizers, spec \in Specs :
           CreateIamPolicy(p, fins, spec)
      \/ DeleteIamPolicy(p)
      \/ \E spec \in Specs : SetDocument(p, spec)
      \/ \E f \in ForeignFinalizers : ReleaseFinalizer(p, f)

-----------------------------------------------------------------------------
(* Administrators of the AWS account, behind the controller's back.        *)

Interferes(p, i) ==
    /\ faults < MaxFaults
    /\ faults' = faults + 1
    /\ iam' = [iam EXCEPT ![p] = i]
    /\ UNCHANGED <<hist, refs, queue, w, named>>

(* A policy of the same name under another path.                           *)
ExternalCreate(p) ==
    /\ iam[p].owner = "none"
    /\ Interferes(p, [NoUpstreamPolicy EXCEPT !.owner = "external"])

ExternalDelete(p) ==
    iam[p].owner # "none" /\ Interferes(p, NoUpstreamPolicy)

(* Another document is put in force.                                       *)
ExternalVersion(p, v, doc) ==
    /\ ForeignVersions
    /\ VersionAccepted(iam[p], doc)
    /\ v \in NewIds(iam[p])
    /\ Interferes(p, WithVersion(iam[p], v, doc))

(* A version that is not in force is deleted.                              *)
ExternalPrune(p, v) ==
    /\ DeleteVersionAccepted(iam[p], v)
    /\ Interferes(p, WithoutVersion(iam[p], v))

Aws ==
    \E p \in Policies :
      \/ ExternalCreate(p)
      \/ ExternalDelete(p)
      \/ \E v \in VersionIds, doc \in Documents : ExternalVersion(p, v, doc)
      \/ \E v \in VersionIds : ExternalPrune(p, v)

-----------------------------------------------------------------------------
Next ==
    \/ \E p \in Policies : Start(p)
    \/ Reconcile
    \/ Manager
    \/ Users
    \/ Aws

Spec == Init /\ [][Next]_vars

(* Calls return, watch events arrive, a name that stays in the queue is    *)
(* started, and the resync's period passes.                                *)
FairSpec ==
    /\ Spec
    /\ WF_vars(Reconcile)
    /\ \A p \in Policies : SF_vars(Start(p)) /\ WF_vars(Sync(p))
    /\ WF_vars(Resync)
=============================================================================
