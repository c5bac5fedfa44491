----------------------- MODULE PolicyControllerProofs -----------------------
(***************************************************************************)
(* PolicyController is type correct for every value of the constants, and  *)
(* while it is Undisturbed it keeps NoOrphan and satisfies                 *)
(* DeletesOnlyDeleting and InForceIsHeld.                                  *)
(***************************************************************************)
EXTENDS PolicyProperties, FinalizerHistoryProofs, FiniteSetTheorems

-----------------------------------------------------------------------------
(* Types of what the actions are built from.                               *)

LEMMA IamPolicyTypes ==
    /\ NoIamPolicy \in IamPolicies
    /\ \A o \in IamPolicies : o.phase \in Phases /\ o.fins \in SUBSET Finalizers
    /\ \A o \in IamPolicies : Deleted(o, NoIamPolicy) \in IamPolicies
    /\ \A o \in IamPolicies : Applied(o, Finalizer) \in IamPolicies
    /\ \A o \in IamPolicies, fins \in SUBSET Finalizers :
          WithFinalizers(o, fins, NoIamPolicy) \in IamPolicies
    /\ \A o \in IamPolicies, d \in Documents : Recorded(o, d) \in IamPolicies
    /\ \A o \in IamPolicies, s \in SUBSET Roles : [o EXCEPT !.roles = s] \in IamPolicies
    /\ \A o \in IamPolicies, s \in Specs : [o EXCEPT !.spec = s] \in IamPolicies
  BY DEF NoIamPolicy, IamPolicies, Phases, Finalizers, Deleted, Applied,
         WithFinalizers, Present, Deleting, Recorded

LEMMA DesiredType ==
    ASSUME NEW o \in IamPolicies
    PROVE  Desired(o) \in Documents
  BY PolicyControllerAssumption DEF Desired, DocumentOf, IamPolicies

LEMMA UpstreamTypes ==
    /\ NoUpstreamPolicy \in UpstreamPolicy
    /\ [NoUpstreamPolicy EXCEPT !.owner = "external"] \in UpstreamPolicy
    /\ \A v \in VersionIds, d \in Documents : CreatedPolicy(v, d) \in UpstreamPolicy
    /\ \A i \in UpstreamPolicy, v \in VersionIds, d \in Documents :
          WithVersion(i, v, d) \in UpstreamPolicy
    /\ \A i \in UpstreamPolicy, v \in VersionIds : WithoutVersion(i, v) \in UpstreamPolicy
    /\ \A i \in UpstreamPolicy : i.default \in VersionIds \cup {NoVersion}
  BY DEF NoUpstreamPolicy, UpstreamPolicy, CreatedPolicy, WithVersion, WithoutVersion,
         Owners

(* A write makes a version of one policy and leaves the others alone.      *)
LEMMA WriteType ==
    ASSUME hist \in [Policies -> Versions(IamPolicies)],
           NEW p \in Policies, NEW o \in IamPolicies, WriteIamPolicy(p, o)
    PROVE  /\ hist' \in [Policies -> Versions(IamPolicies)]
           /\ hist'[p] = Written(hist[p], o)
           /\ \A q \in Policies \ {p} : hist'[q] = hist[q]
<1>1. Written(hist[p], o) \in Versions(IamPolicies)
  BY WrittenVersions
<1> QED
  BY <1>1 DEF WriteIamPolicy

WorkerOK(v) == v \in Workers /\ (v.pc # "idle" => v.cur \in Policies)

LEMMA IdleOK == WorkerOK(Idle)
  BY IamPolicyTypes DEF WorkerOK, Workers, Idle, Purposes

LEMMA ChargeType ==
    ASSUME faults \in 0..MaxFaults, NEW acc, NEW out \in Outcomes(acc), Charge(out)
    PROVE  faults' \in 0..MaxFaults
<1>1. MaxFaults \in Nat
  BY MaxFaultsAssumption
<1>2. out \in {"failed", "lost"} => faults < MaxFaults
  BY DEF Outcomes
<1> QED
  BY <1>1, <1>2 DEF Charge

LEMMA SettleType ==
    ASSUME TypeOK, w.pc # "idle", NEW ok, NEW next, ok => WorkerOK(next),
           Settle(ok, next)
    PROVE  WorkerOK(w') /\ queue' \subseteq Policies
<1>1. WorkerOK(w')
  BY IdleOK DEF Settle
<1>2. queue' \subseteq Policies
  BY DEF Settle, TypeOK
<1> QED
  BY <1>1, <1>2

LEMMA GotoType ==
    ASSUME w \in Workers, w.cur \in Policies, NEW pc \in Calls
    PROVE  /\ WorkerOK(Goto(pc))
           /\ Goto(pc).pc = pc /\ Goto(pc).cur = w.cur /\ Goto(pc).inst = w.inst
           /\ Goto(pc).why = w.why
  BY DEF Goto, WorkerOK, Workers, Calls

-----------------------------------------------------------------------------
(* Where the worker goes next: it stays with its object, or ends.          *)

Follows(next, v, pcs) ==
    \/ next = Idle
    \/ /\ next \in Workers
       /\ next.pc \in pcs /\ next.cur = v.cur /\ next.inst = v.inst
       /\ next.why \in Purposes

LEMMA FollowsOK ==
    ASSUME NEW v, v.cur \in Policies, NEW pcs, NEW next, Follows(next, v, pcs)
    PROVE  WorkerOK(next)
  BY IdleOK DEF Follows, WorkerOK

LEMMA ByArnNext ==
    ASSUME NEW v \in Workers, NEW why \in Purposes
    PROVE  /\ Follows(ByArn(v, why), v, {"getPolicy"})
           /\ ByArn(v, why).why = why /\ ByArn(v, why).pc = "getPolicy"
  BY DEF ByArn, Follows, Workers, Calls

LEMMA ByStatusNext ==
    ASSUME NEW v \in Workers, NEW why \in Purposes
    PROVE  /\ Follows(ByStatus(v, why), v, {"getPolicy", "list"})
           /\ ByStatus(v, why).why = why
           /\ ByStatus(v, why).pc \in {"getPolicy", "list"}
           /\ ByStatus(v, why).cur = v.cur /\ ByStatus(v, why).inst = v.inst
  BY DEF ByStatus, Follows, Workers, Calls

LEMMA AfterUpdateNext ==
    ASSUME NEW v \in Workers
    PROVE  Follows(AfterUpdate(v), v, {"patchRoles"})
<1>1. Referencing(v.cur) \in SUBSET Roles
  BY DEF Referencing
<1> QED
  BY <1>1 DEF AfterUpdate, Follows, Workers, Calls

LEMMA AfterLookNext ==
    ASSUME NEW v \in Workers
    PROVE  /\ Follows(AfterLook(v), v, {"patchRoles", "getPolicy"})
           /\ AfterLook(v).pc = "getPolicy" => AfterLook(v).why = "edit"
<1>1. CASE Desired(v.inst) # v.inst.md5
  <2>1. AfterLook(v) = ByArn(v, "edit")
    BY <1>1 DEF AfterLook
  <2>2. "edit" \in Purposes
    BY DEF Purposes
  <2> QED
    BY <2>1, <2>2, ByArnNext DEF Follows
<1>2. CASE Desired(v.inst) = v.inst.md5
  <2>1. AfterLook(v) = AfterUpdate(v)
    BY <1>2 DEF AfterLook
  <2> QED
    BY <2>1, AfterUpdateNext DEF Follows, Idle
<1> QED
  BY <1>1, <1>2

LEMMA FoundNext ==
    ASSUME NEW v \in Workers, NEW doc
    PROVE  /\ v.why = "finalize" =>
                Follows(Found(v, doc), v, {"deletePolicy"})
           /\ v.why # "finalize" =>
                /\ Follows(Found(v, doc), v, {"patchRoles", "getPolicy", "patchCreated",
                                              "patchUpdated", "createVersion"})
                /\ Found(v, doc).pc = "getPolicy" => Found(v, doc).why = "edit"
<1>1. v.why \in Purposes
  BY DEF Workers
<1>2. CASE v.why = "look"
  <2>1. Found(v, doc) = AfterLook(v)
    BY <1>2 DEF Found
  <2> QED
    BY <1>2, <2>1, AfterLookNext DEF Follows
<1>3. CASE v.why \in {"created", "edit", "updated"}
  <2>1. \E pc \in {"patchCreated", "patchUpdated", "createVersion"} :
           Found(v, doc) = [v EXCEPT !.pc = pc]
    BY <1>3 DEF Found
  <2> QED
    BY <1>3, <2>1 DEF Follows, Workers, Calls
<1>4. CASE v.why = "finalize"
  <2>1. Found(v, doc) = [v EXCEPT !.pc = "deletePolicy"]
    BY <1>4 DEF Found
  <2> QED
    BY <1>4, <2>1 DEF Follows, Workers, Calls
<1> QED
  BY <1>1, <1>2, <1>3, <1>4 DEF Purposes

LEMMA MissingNext ==
    ASSUME NEW v \in Workers
    PROVE  /\ v.why = "look" => Follows(Missing(v), v, {"createPolicy"})
           /\ v.why # "look" => Follows(Missing(v), v, {"removeFinalizer"})
  BY DEF Missing, Follows, Workers, Calls

-----------------------------------------------------------------------------
(* Type correctness.                                                       *)

LEMMA TypeInit == Init => TypeOK
<1> SUFFICES ASSUME Init PROVE TypeOK
  OBVIOUS
<1>1. <<NoIamPolicy>> \in Versions(IamPolicies)
  BY IamPolicyTypes DEF Versions
<1>2. faults \in 0..MaxFaults
  BY MaxFaultsAssumption DEF Init
<1>3. WorkerOK(w)
  BY IdleOK DEF Init
<1> QED
  BY <1>1, <1>2, <1>3, UpstreamTypes DEF Init, TypeOK, WorkerOK

(* What the worker's calls have in common.                                 *)
LEMMA AtCall ==
    ASSUME TypeOK, Reconcile
    PROVE  /\ w \in Workers /\ w.pc \in Calls /\ w.cur \in Policies
           /\ hist \in [Policies -> Versions(IamPolicies)]
           /\ iam \in [Policies -> UpstreamPolicy]
           /\ Latest(hist[w.cur]) \in IamPolicies
           /\ iam[w.cur] \in UpstreamPolicy
           /\ w.inst \in IamPolicies /\ w.why \in Purposes
           /\ w.version \in VersionIds \cup {NoVersion} /\ w.roles \in SUBSET Roles
           /\ Desired(w.inst) \in Documents
<1>1. w.pc \in Calls
  BY DEF Reconcile, At, Calls, AddFinalizer, List, GetPolicy, GetVersion, CreatePolicy,
         PatchCreated, CreateVersion, DeleteVersion, PatchUpdated, PatchRoles,
         DeletePolicy, RemoveFinalizer
<1> QED
  BY <1>1, VersionsExist, DesiredType DEF TypeOK, Workers, Calls

(* Where each call of the worker leads.                                    *)
LEMMA ReconcileNext ==
    ASSUME TypeOK, Reconcile
    PROVE  Follows(w', w, Calls)
<1>1. /\ w \in Workers /\ w.cur \in Policies /\ w.why \in Purposes
  BY AtCall
<1>2. Idle \in {w', Idle} /\ Follows(Idle, w, Calls)
  BY DEF Follows
<1>3. ASSUME NEW pcs \in SUBSET Calls, NEW next, Follows(next, w, pcs)
      PROVE  Follows(next, w, Calls)
  BY <1>3 DEF Follows
<1>4. ASSUME NEW ok, NEW next, Settle(ok, next), Follows(next, w, Calls)
      PROVE  Follows(w', w, Calls)
  BY <1>2, <1>4 DEF Settle
<1>5. ASSUME NEW pc \in Calls
      PROVE  Follows(Goto(pc), w, Calls)
  BY <1>1 DEF Goto, Follows, Workers
<1>6. ASSUME NEW why \in Purposes
      PROVE  Follows(ByArn(w, why), w, Calls) /\ Follows(ByStatus(w, why), w, Calls)
  <2>1. {"getPolicy"} \in SUBSET Calls /\ {"getPolicy", "list"} \in SUBSET Calls
    BY DEF Calls
  <2> QED
    BY <1>1, <1>3, <2>1, ByArnNext, ByStatusNext
<1>7. Follows(AfterLook(w), w, Calls) /\ Follows(AfterUpdate(w), w, Calls)
  <2>1. {"patchRoles", "getPolicy"} \in SUBSET Calls /\ {"patchRoles"} \in SUBSET Calls
    BY DEF Calls
  <2> QED
    BY <1>1, <1>3, <2>1, AfterLookNext, AfterUpdateNext
<1>8. ASSUME NEW out, NEW found, NEW next, Answer(out, found, next),
             Follows(next, w, Calls)
      PROVE  Follows(w', w, Calls)
  <2>1. Follows(Missing(w), w, Calls)
    <3>1. {"createPolicy"} \in SUBSET Calls /\ {"removeFinalizer"} \in SUBSET Calls
      BY DEF Calls
    <3> QED
      BY <1>1, <1>3, <3>1, MissingNext
  <2> QED
    BY <1>4, <1>8, <2>1 DEF Answer
<1>9. CASE AddFinalizer
  BY <1>4, <1>6, <1>9 DEF AddFinalizer, Purposes
<1>10. CASE List
  BY <1>5, <1>8, <1>10 DEF List, Calls
<1>11. CASE GetPolicy
  <2> DEFINE next == [w EXCEPT !.pc = "getVersion", !.version = iam[w.cur].default]
  <2>1. next \in Workers
    BY <1>1, AtCall, UpstreamTypes DEF Workers, Calls
  <2>2. Follows(next, w, Calls)
    BY <1>1, <2>1 DEF Follows, Workers, Calls
  <2> QED
    BY <1>8, <1>11, <2>2 DEF GetPolicy
<1>12. CASE GetVersion
  <2> DEFINE next == Found(w, iam[w.cur].docs[w.version])
  <2>1. Follows(next, w, Calls)
    <3>1. /\ {"deletePolicy"} \in SUBSET Calls
          /\ {"patchRoles", "getPolicy", "patchCreated", "patchUpdated",
              "createVersion"} \in SUBSET Calls
      BY DEF Calls
    <3> QED
      BY <1>1, <1>3, <3>1, FoundNext
  <2> QED
    BY <1>8, <1>12, <2>1 DEF GetVersion
<1>13. CASE CreatePolicy
  BY <1>4, <1>6, <1>13 DEF CreatePolicy, Purposes
<1>14. CASE PatchCreated
  BY <1>7, <1>14 DEF PatchCreated
<1>15. CASE CreateVersion
  BY <1>4, <1>5, <1>15 DEF CreateVersion, Calls
<1>16. CASE DeleteVersion
  BY <1>4, <1>6, <1>16 DEF DeleteVersion, Purposes
<1>17. CASE PatchUpdated
  BY <1>4, <1>7, <1>17 DEF PatchUpdated
<1>18. CASE PatchRoles
  BY <1>2, <1>4, <1>18 DEF PatchRoles
<1>19. CASE DeletePolicy
  BY <1>4, <1>5, <1>19 DEF DeletePolicy, Calls
<1>20. CASE RemoveFinalizer
  BY <1>2, <1>4, <1>20 DEF RemoveFinalizer
<1> QED
  BY <1>9, <1>10, <1>11, <1>12, <1>13, <1>14, <1>15, <1>16, <1>17, <1>18, <1>19,
     <1>20 DEF Reconcile

(* What each call of the worker writes to the API server ...               *)
LEMMA ReconcileWrites ==
    ASSUME TypeOK, Reconcile
    PROVE  \/ UNCHANGED hist
           \/ \E o \in IamPolicies : WriteIamPolicy(w.cur, o)
<1>1. /\ Latest(hist[w.cur]) \in IamPolicies /\ w.inst \in IamPolicies
      /\ Desired(w.inst) \in Documents /\ w.roles \in SUBSET Roles
  BY AtCall
<1>2. CASE AddFinalizer
  <2>1. Applied(Latest(hist[w.cur]), Finalizer) \in IamPolicies
    BY <1>1, IamPolicyTypes
  <2> QED
    BY <1>2, <2>1 DEF AddFinalizer
<1>3. CASE PatchCreated \/ PatchUpdated
  <2>1. Recorded(Latest(hist[w.cur]), Desired(w.inst)) \in IamPolicies
    BY <1>1, IamPolicyTypes
  <2> QED
    BY <1>3, <2>1 DEF PatchCreated, PatchUpdated
<1>4. CASE PatchRoles
  <2>1. [Latest(hist[w.cur]) EXCEPT !.roles = w.roles] \in IamPolicies
    BY <1>1, IamPolicyTypes
  <2> QED
    BY <1>4, <2>1 DEF PatchRoles
<1>5. CASE RemoveFinalizer
  <2> DEFINE fins == w.inst.fins \ {Finalizer}
  <2>1. WithFinalizers(Latest(hist[w.cur]), fins, NoIamPolicy) \in IamPolicies
    BY <1>1, IamPolicyTypes
  <2> QED
    BY <1>5, <2>1 DEF RemoveFinalizer
<1> QED
  BY <1>2, <1>3, <1>4, <1>5
     DEF Reconcile, List, GetPolicy, GetVersion, CreatePolicy, CreateVersion,
         DeleteVersion, DeletePolicy

(* ... and to IAM.                                                         *)
LEMMA ReconcileUpstream ==
    ASSUME TypeOK, Reconcile
    PROVE  \/ UNCHANGED iam
           \/ \E i \in UpstreamPolicy : iam' = [iam EXCEPT ![w.cur] = i]
<1>1. /\ iam[w.cur] \in UpstreamPolicy /\ Desired(w.inst) \in Documents
      /\ w.version \in VersionIds \cup {NoVersion}
  BY AtCall
<1>2. CASE CreatePolicy
  BY <1>1, <1>2, UpstreamTypes DEF CreatePolicy
<1>3. CASE CreateVersion
  <2>1. NewIds(iam[w.cur]) \subseteq VersionIds
    BY DEF NewIds
  <2> QED
    BY <1>1, <1>3, <2>1, UpstreamTypes DEF CreateVersion
<1>4. CASE DeleteVersion
  <2>1. PICK out \in Outcomes(DeleteVersionAccepted(iam[w.cur], w.version)) :
          iam' = IF TookEffect(out)
                 THEN [iam EXCEPT ![w.cur] = WithoutVersion(iam[w.cur], w.version)]
                 ELSE iam
    BY <1>4 DEF DeleteVersion
  <2>2. TookEffect(out) => w.version \in VersionIds
    BY <2>1 DEF Outcomes, TookEffect, DeleteVersionAccepted, Stored
  <2> QED
    BY <1>1, <2>1, <2>2, UpstreamTypes
<1>5. CASE DeletePolicy
  BY <1>5, UpstreamTypes DEF DeletePolicy
<1> QED
  BY <1>2, <1>3, <1>4, <1>5
     DEF Reconcile, AddFinalizer, List, GetPolicy, GetVersion, PatchCreated,
         PatchUpdated, PatchRoles, RemoveFinalizer

LEMMA TypeReconcile ==
    ASSUME TypeOK, Reconcile
    PROVE  TypeOK'
<1>1. /\ w.cur \in Policies /\ w.pc # "idle"
      /\ hist \in [Policies -> Versions(IamPolicies)]
      /\ iam \in [Policies -> UpstreamPolicy]
  BY AtCall DEF Calls
<1>2. WorkerOK(w')
  BY <1>1, ReconcileNext, FollowsOK
<1>3. hist' \in [Policies -> Versions(IamPolicies)]
  BY <1>1, ReconcileWrites, WriteType
<1>4. iam' \in [Policies -> UpstreamPolicy]
  BY <1>1, ReconcileUpstream
<1>5. \/ \E out : \E acc : out \in Outcomes(acc) /\ Charge(out)
  BY DEF Reconcile, AddFinalizer, List, GetPolicy, GetVersion, CreatePolicy,
         PatchCreated, CreateVersion, DeleteVersion, PatchUpdated, PatchRoles,
         DeletePolicy, RemoveFinalizer, Answer
<1>6. faults' \in 0..MaxFaults
  BY <1>5, ChargeType DEF TypeOK
<1>7. queue' \subseteq Policies /\ named' \subseteq Policies /\ UNCHANGED refs
  BY <1>1 DEF TypeOK, Settle, Reconcile, AddFinalizer, List, GetPolicy, GetVersion,
         CreatePolicy, PatchCreated, CreateVersion, DeleteVersion, PatchUpdated,
         PatchRoles, DeletePolicy, RemoveFinalizer, Answer
<1> QED
  BY <1>2, <1>3, <1>4, <1>6, <1>7 DEF TypeOK, WorkerOK

LEMMA TypeManager ==
    ASSUME TypeOK, Manager
    PROVE  TypeOK'
<1>1. ASSUME NEW p \in Policies, Sync(p)
      PROVE  TypeOK'
  <2>1. Delivered(hist[p]) \in Versions(IamPolicies)
    BY <1>1, DeliveredVersions DEF TypeOK, Sync
  <2> QED
    BY <1>1, <2>1 DEF TypeOK, Sync
<1>2. CASE Resync
  BY <1>2 DEF TypeOK, Resync
<1>3. CASE Restart
  <2>1. \A p \in Policies : Relisted(hist[p]) \in Versions(IamPolicies)
    BY RelistedVersions DEF TypeOK
  <2>2. faults' \in 0..MaxFaults
    BY <1>3, MaxFaultsAssumption DEF TypeOK, Restart
  <2> QED
    BY <1>3, <2>1, <2>2, IdleOK DEF TypeOK, Restart, WorkerOK
<1>4. ASSUME NEW r \in Roles, NEW new \in SUBSET Policies, RoleSeen(r, new)
      PROVE  TypeOK'
  BY <1>4 DEF TypeOK, RoleSeen
<1> QED
  BY <1>1, <1>2, <1>3, <1>4 DEF Manager

LEMMA TypeUsers ==
    ASSUME TypeOK, Users
    PROVE  TypeOK'
<1>1. /\ hist \in [Policies -> Versions(IamPolicies)]
      /\ \A p \in Policies : Latest(hist[p]) \in IamPolicies
  BY VersionsExist DEF TypeOK
<1>2. ASSUME NEW p \in Policies, NEW o \in IamPolicies, UserWrites(p, o)
      PROVE  TypeOK'
  <2>1. hist' \in [Policies -> Versions(IamPolicies)]
    BY <1>1, <1>2, WriteType DEF UserWrites
  <2> QED
    BY <1>2, <2>1 DEF TypeOK, UserWrites
<1>3. ASSUME NEW p \in Policies, NEW fins \in SUBSET ForeignFinalizers,
             NEW spec \in Specs, CreateIamPolicy(p, fins, spec)
      PROVE  TypeOK'
  <2>1. [NoIamPolicy EXCEPT !.phase = "live", !.fins = fins, !.spec = spec]
        \in IamPolicies
    BY IamPolicyTypes DEF IamPolicies, Phases, Finalizers
  <2> QED
    BY <1>2, <1>3, <2>1 DEF CreateIamPolicy
<1>4. ASSUME NEW p \in Policies, DeleteIamPolicy(p)
      PROVE  TypeOK'
  BY <1>1, <1>2, <1>4, IamPolicyTypes DEF DeleteIamPolicy
<1>5. ASSUME NEW p \in Policies, NEW spec \in Specs, SetDocument(p, spec)
      PROVE  TypeOK'
  BY <1>1, <1>2, <1>5, IamPolicyTypes DEF SetDocument
<1>6. ASSUME NEW p \in Policies, NEW f \in ForeignFinalizers, ReleaseFinalizer(p, f)
      PROVE  TypeOK'
  <2> DEFINE o == Latest(hist[p])
  <2>1. o.fins \ {f} \in SUBSET Finalizers
    BY <1>1, IamPolicyTypes
  <2>2. WithFinalizers(o, o.fins \ {f}, NoIamPolicy) \in IamPolicies
    BY <1>1, <2>1, IamPolicyTypes
  <2> QED
    BY <1>2, <1>6, <2>2 DEF ReleaseFinalizer
<1> QED
  BY <1>3, <1>4, <1>5, <1>6 DEF Users

LEMMA TypeAws ==
    ASSUME TypeOK, Aws
    PROVE  TypeOK'
<1>1. ASSUME NEW p \in Policies, NEW i \in UpstreamPolicy, Interferes(p, i)
      PROVE  TypeOK'
  <2>1. faults' \in 0..MaxFaults
    BY <1>1, MaxFaultsAssumption DEF TypeOK, Interferes
  <2> QED
    BY <1>1, <2>1 DEF TypeOK, Interferes
<1>2. ASSUME NEW p \in Policies
      PROVE  iam[p] \in UpstreamPolicy
  BY DEF TypeOK
<1>3. ASSUME NEW p \in Policies, ExternalCreate(p) \/ ExternalDelete(p)
      PROVE  TypeOK'
  BY <1>1, <1>3, UpstreamTypes DEF ExternalCreate, ExternalDelete
<1>4. ASSUME NEW p \in Policies, NEW v \in VersionIds, NEW doc \in Documents,
             ExternalVersion(p, v, doc)
      PROVE  TypeOK'
  BY <1>1, <1>2, <1>4, UpstreamTypes DEF ExternalVersion
<1>5. ASSUME NEW p \in Policies, NEW v \in VersionIds, ExternalPrune(p, v)
      PROVE  TypeOK'
  BY <1>1, <1>2, <1>5, UpstreamTypes DEF ExternalPrune
<1> QED
  BY <1>3, <1>4, <1>5 DEF Aws

(* Where a reconcile begins.                                               *)
LEMMA FirstCallNext ==
    ASSUME NEW v \in Workers
    PROVE  Follows(FirstCall(v), v, {"getPolicy", "list", "addFinalizer"})
<1>1. \A why \in Purposes :
         Follows(ByStatus(v, why), v, {"getPolicy", "list", "addFinalizer"})
  BY ByStatusNext DEF Follows
<1>2. "look" \in Purposes /\ "finalize" \in Purposes
  BY DEF Purposes
<1>3. Follows([v EXCEPT !.pc = "addFinalizer"], v, {"getPolicy", "list", "addFinalizer"})
  BY DEF Follows, Workers, Calls
<1> QED
  BY <1>1, <1>2, <1>3 DEF FirstCall, Follows

LEMMA TypeStep == TypeOK /\ [Next]_vars => TypeOK'
<1> SUFFICES ASSUME TypeOK, [Next]_vars PROVE TypeOK'
  OBVIOUS
<1>1. ASSUME NEW p \in Policies, Start(p)
      PROVE  TypeOK'
  <2> DEFINE v == [Idle EXCEPT !.cur = p, !.inst = Cached(hist[p])]
  <2>1. Cached(hist[p]) \in IamPolicies
    BY VersionsExist DEF TypeOK
  <2>2. v \in Workers /\ v.cur \in Policies
    BY <2>1, IdleOK DEF WorkerOK, Workers, Idle
  <2>3. WorkerOK(FirstCall(v))
    BY <2>2, FirstCallNext, FollowsOK
  <2>4. WorkerOK(w')
    BY <1>1, <2>3, IdleOK DEF Start
  <2> QED
    BY <1>1, <2>4 DEF TypeOK, Start, WorkerOK
<1>2. CASE UNCHANGED vars
  BY <1>2 DEF vars, TypeOK
<1> QED
  BY <1>1, <1>2, TypeReconcile, TypeManager, TypeUsers, TypeAws DEF Next

(* Every variable of the controller keeps its type.                        *)
THEOREM TypeCorrect == Spec => []TypeOK
  BY TypeInit, TypeStep, PTL DEF Spec
-----------------------------------------------------------------------------
(* The worker and the users write to the API server only, so what other    *)
(* reconcilers read of a policy in the cache changes by Sync and Restart.  *)
LEMMA CacheStays ==
    ASSUME TypeOK, Reconcile \/ Users, NEW p \in Policies
    PROVE  Cached(hist'[p]) = Cached(hist[p])
<1>1. CASE UNCHANGED hist
  BY <1>1
<1>2. ASSUME NEW q \in Policies, NEW o, WriteIamPolicy(q, o)
      PROVE  Cached(hist'[p]) = Cached(hist[p])
  BY <1>2, CachedWritten DEF TypeOK, WriteIamPolicy
<1>3. CASE Reconcile
  BY <1>1, <1>2, <1>3, AtCall, ReconcileWrites
<1>4. CASE Users
  <2>1. \E q \in Policies : \E o : WriteIamPolicy(q, o)
    BY <1>4 DEF Users, CreateIamPolicy, DeleteIamPolicy, SetDocument,
       ReleaseFinalizer, UserWrites
  <2> QED
    BY <1>2, <2>1
<1> QED
  BY <1>3, <1>4

-----------------------------------------------------------------------------
(* Versions of a policy.                                                   *)

LEMMA CreatedVersions ==
    ASSUME NEW v \in VersionIds, NEW d \in Documents
    PROVE  LET i == CreatedPolicy(v, d) IN
           Managed(i) /\ Sound(i) /\ InForce(i) = d
<1> DEFINE i == CreatedPolicy(v, d)
<1>1. Managed(i) /\ i.default = v /\ InForce(i) = d
  BY DEF CreatedPolicy, NoUpstreamPolicy, Managed, InForce
<1>2. Stored(i) = {v}
  BY IamPolicyServiceAssumption DEF Stored, CreatedPolicy, NoUpstreamPolicy
<1>3. Cardinality({v}) = 1
  BY FS_Singleton
<1> QED
  BY <1>1, <1>2, <1>3, IamPolicyServiceAssumption DEF Sound

LEMMA StoredFinite ==
    ASSUME NEW i
    PROVE  IsFiniteSet(Stored(i)) /\ Cardinality(Stored(i)) \in Nat
<1>1. Stored(i) \subseteq VersionIds
  BY DEF Stored
<1> QED
  BY <1>1, FS_Subset, FS_CardinalityType, IamPolicyServiceAssumption

LEMMA AddedVersions ==
    ASSUME NEW i \in UpstreamPolicy, NEW d \in Documents, VersionAccepted(i, d),
           NEW v \in NewIds(i)
    PROVE  LET j == WithVersion(i, v, d) IN
           Managed(j) /\ Sound(j) /\ InForce(j) = d
<1> DEFINE j == WithVersion(i, v, d)
<1>1. v \in VersionIds /\ v \notin Stored(i)
  BY DEF NewIds
<1>2. Managed(j) /\ j.default = v /\ InForce(j) = d
  BY <1>1 DEF WithVersion, UpstreamPolicy, Managed, InForce, VersionAccepted
<1>3. Stored(j) = Stored(i) \cup {v}
  BY <1>1, IamPolicyServiceAssumption DEF Stored, WithVersion, UpstreamPolicy
<1>4. Cardinality(Stored(i) \cup {v}) = Cardinality(Stored(i)) + 1
  BY <1>1, StoredFinite, FS_AddElement
<1>5. Cardinality(Stored(i)) < VersionLimit
  BY DEF VersionAccepted
<1>6. Cardinality(Stored(j)) <= VersionLimit
  BY <1>3, <1>4, <1>5, StoredFinite, IamPolicyServiceAssumption
<1> QED
  BY <1>2, <1>3, <1>6 DEF Sound

(* The version in force is never among those deleted.                      *)
LEMMA RemovedVersions ==
    ASSUME NEW i \in UpstreamPolicy, Sound(i), NEW v \in VersionIds,
           DeleteVersionAccepted(i, v)
    PROVE  LET j == WithoutVersion(i, v) IN
           /\ Managed(j) /\ Sound(j)
           /\ j.default = i.default /\ InForce(j) = InForce(i)
<1> DEFINE j == WithoutVersion(i, v)
<1>1. Managed(i) /\ v # i.default /\ i.default \in Stored(i)
  BY DEF DeleteVersionAccepted, Sound
<1>2. Managed(j) /\ j.default = i.default /\ InForce(j) = InForce(i)
  BY <1>1 DEF WithoutVersion, UpstreamPolicy, Managed, InForce, Stored
<1>3. Stored(j) = Stored(i) \ {v}
  BY DEF Stored, WithoutVersion, UpstreamPolicy
<1>4. Cardinality(Stored(j)) <= Cardinality(Stored(i))
  BY <1>3, StoredFinite, FS_Subset
<1>5. Cardinality(Stored(j)) <= VersionLimit
  BY <1>1, <1>4, StoredFinite, IamPolicyServiceAssumption DEF Sound
<1> QED
  BY <1>1, <1>2, <1>3, <1>5 DEF Sound

-----------------------------------------------------------------------------
(* The inductive invariant.                                                *)

(* What most steps do to the histories: they stay orderly, and what the    *)
(* worker knows about them stays true.                                     *)
Preserves ==
    \A q \in Policies :
        /\ Orderly(hist'[q], Finalizer)
        /\ Kept(hist[q], Finalizer) => Kept(hist'[q], Finalizer)
        /\ Dying(hist[q], Finalizer) => Dying(hist'[q], Finalizer)
        /\ Own(Latest(hist[q])) => Own(Latest(hist'[q]))

(* Nobody else makes a managed policy or changes what is in force.         *)
LeftAlone(q) ==
    Managed(iam'[q]) => /\ Managed(iam[q]) /\ iam'[q].default = iam[q].default
                        /\ InForce(iam'[q]) = InForce(iam[q])

LEMMA OwnIsPresent ==
    ASSUME NEW h \in Versions(IamPolicies), Orderly(h, Finalizer), Own(Latest(h))
    PROVE  Present(Latest(h))
<1>1. Len(h) \in 1..Len(h)
  BY VersionsExist
<1> QED
  BY <1>1 DEF Orderly, Own, Latest

LEMMA UnchangedPreserves ==
    ASSUME IInv, UNCHANGED hist
    PROVE  Preserves
  BY DEF IInv, Preserves

(* A write that keeps the finalizer as it is, and that does not revive.    *)
LEMMA KeepingPreserves ==
    ASSUME IInv, NEW p \in Policies, NEW o \in IamPolicies, WriteIamPolicy(p, o),
           Own(o) <=> Own(Latest(hist[p])),
           Own(o) => Present(o),
           DeletingWith(Latest(hist[p]), Finalizer) => ~Live(o)
    PROVE  Preserves
<1>1. /\ hist \in [Policies -> Versions(IamPolicies)]
      /\ Orderly(hist[p], Finalizer)
      /\ \A x \in IamPolicies : x.phase \in Phases
  BY IamPolicyTypes DEF IInv, TypeOK
<1>2. /\ hist'[p] = Written(hist[p], o)
      /\ \A q \in Policies \ {p} : hist'[q] = hist[q]
  BY <1>1, WriteType
<1>3. /\ Orderly(Written(hist[p], o), Finalizer)
      /\ Kept(hist[p], Finalizer) => Kept(Written(hist[p], o), Finalizer)
      /\ Dying(hist[p], Finalizer) => Dying(Written(hist[p], o), Finalizer)
  BY <1>1, WriteKeeping DEF Own, LiveWith
<1>4. Latest(Written(hist[p], o)) = o
  BY <1>1, WrittenVersions
<1> QED
  BY <1>2, <1>3, <1>4 DEF Preserves, IInv

(* An idle worker relies on nothing.                                       *)
LEMMA IdleKnows ==
    ASSUME w'.pc = "idle"
    PROVE  WorkerKnows'
  BY DEF WorkerKnows, At, Provides, Finalizes, Provisioning, Getting

(* A step of someone else.                                                 *)
LEMMA OthersStep ==
    ASSUME IInv, TypeOK', VersionsSound', Preserves, UNCHANGED w,
           \A q \in Policies : LeftAlone(q)
    PROVE  IInv'
<1>1. NoOrphan'
  BY OwnIsPresent DEF IInv, Preserves, LeftAlone, NoOrphan, TypeOK
<1>2. WorkerKnows'
  <2>1. CASE w.pc = "idle"
    BY <2>1, IdleKnows
  <2>2. CASE w.pc # "idle"
    <3>1. w.cur \in Policies
      BY <2>2 DEF IInv, TypeOK
    <3> QED
      BY <3>1 DEF IInv, Preserves, LeftAlone, WorkerKnows, At, Provides, Finalizes
  <2> QED
    BY <2>1, <2>2
<1> QED
  BY <1>1, <1>2 DEF IInv, Preserves

(* The worker's next call needs nothing it does not know by now.           *)
Onward ==
    LET i == iam'[w.cur] IN
    /\ w'.cur = w.cur /\ w'.inst = w.inst /\ w'.pc # "addFinalizer"
    /\ Provides(w') => Provides(w)
    /\ Finalizes(w') <=> Finalizes(w)
    /\ w'.pc = "removeFinalizer" => ~Managed(i)
    /\ (w'.pc = "getVersion" /\ Managed(i)) => w'.version = i.default
    /\ (w'.pc = "deleteVersion" /\ Managed(i)) => InForce(i) = Desired(w.inst)

LEMMA WorkerStep ==
    ASSUME IInv, TypeOK', VersionsSound', Preserves, w.cur \in Policies,
           \A q \in Policies \ {w.cur} : LeftAlone(q),
           Managed(iam'[w.cur]) => Managed(iam[w.cur]) \/ Provides(w),
           w' = Idle \/ Onward
    PROVE  IInv'
<1>1. Managed(iam'[w.cur]) => Own(Latest(hist'[w.cur]))
  BY DEF IInv, NoOrphan, WorkerKnows, Preserves
<1>2. NoOrphan'
  BY <1>1, OwnIsPresent DEF IInv, Preserves, LeftAlone, NoOrphan, TypeOK
<1>3. WorkerKnows'
  <2>1. CASE w' = Idle
    BY <2>1, IdleKnows DEF Idle
  <2>2. CASE Onward
    BY <2>2 DEF Onward, IInv, WorkerKnows, Preserves, At
  <2> QED
    BY <2>1, <2>2
<1> QED
  BY <1>2, <1>3 DEF IInv, Preserves

LEMMA InvInit == Init => IInv
<1> SUFFICES ASSUME Init PROVE IInv
  OBVIOUS
<1>1. TypeOK
  BY TypeInit
<1>2. ~Own(NoIamPolicy)
  BY DEF Own, ContainsFinalizer, NoIamPolicy
<1>3. Orderly(<<NoIamPolicy>>, Finalizer)
  <2>1. /\ Len(<<NoIamPolicy>>) = 1 /\ <<NoIamPolicy>>[1] = NoIamPolicy
        /\ \A i \in 1..1 : i = 1
    OBVIOUS
  <2> QED
    BY <1>2, <2>1 DEF Orderly, DeletingWith, Own
<1>4. NoOrphan /\ VersionsSound
  BY DEF Init, NoOrphan, VersionsSound, Sound, Managed, NoUpstreamPolicy
<1>5. WorkerKnows
  BY DEF Init, WorkerKnows, At, Provides, Finalizes, Provisioning, Getting, Idle
<1> QED
  BY <1>1, <1>3, <1>4, <1>5 DEF IInv, Init

(* The worker starts on what the cache shows.                              *)
LEMMA InvStart ==
    ASSUME IInv, TypeOK', NEW p \in Policies, Start(p)
    PROVE  IInv'
<1> DEFINE o == Cached(hist[p])
           v == [Idle EXCEPT !.cur = p, !.inst = o]
<1>1. UNCHANGED <<hist, iam>>
  BY DEF Start
<1>2. /\ hist[p] \in Versions(IamPolicies) /\ Orderly(hist[p], Finalizer)
      /\ \A x \in IamPolicies : x.phase \in Phases
      /\ o \in IamPolicies
  BY IamPolicyTypes, VersionsExist DEF IInv, TypeOK
<1>3. /\ NoOrphan' /\ VersionsSound'
      /\ \A q \in Policies : Orderly(hist'[q], Finalizer)
  BY <1>1 DEF IInv, NoOrphan, VersionsSound
<1>4. CASE w' = Idle
  BY <1>3, <1>4, IdleKnows DEF IInv, Idle
<1>5. CASE w' # Idle
  <2>1. w' = FirstCall(v) /\ Present(o)
    BY <1>5 DEF Start
  <2>2. v \in Workers /\ v.cur = p /\ v.inst = o
    BY <1>2, IdleOK DEF WorkerOK, Workers, Idle
  <2>3. ASSUME NEW why \in Purposes, w' = ByStatus(v, why)
        PROVE  /\ w'.pc \in {"getPolicy", "list"} /\ w'.why = why
               /\ w'.cur = p /\ w'.inst = o
    BY <2>2, <2>3, ByStatusNext
  <2>4. CASE Deleting(o)
    <3>1. Own(o) /\ w' = ByStatus(v, "finalize")
      BY <1>5, <2>1, <2>2, <2>4 DEF FirstCall
    <3>2. w'.pc \in {"getPolicy", "list"} /\ w'.why = "finalize" /\ w'.cur = p
      BY <2>3, <3>1 DEF Purposes
    <3>3. Dying(hist[p], Finalizer)
      BY <1>2, <2>4, <3>1, CachedDeletingWith DEF DeletingWith, Own
    <3>4. WorkerKnows'
      BY <1>1, <3>2, <3>3
         DEF WorkerKnows, At, Provides, Finalizes, Provisioning, Getting
    <3> QED
      BY <1>3, <3>4 DEF IInv
  <2>5. CASE ~Deleting(o) /\ Own(o)
    <3>1. w' = ByStatus(v, "look")
      BY <2>1, <2>2, <2>5 DEF FirstCall
    <3>2. w'.pc \in {"getPolicy", "list"} /\ w'.why = "look" /\ w'.cur = p
      BY <2>3, <3>1 DEF Purposes
    <3>3. Own(Latest(hist[p]))
      <4>1. Live(o)
        BY <1>2, <2>1, <2>5 DEF Live, Deleting, Present, Phases
      <4> QED
        BY <1>2, <2>5, <4>1, CachedLiveWith DEF LiveWith, Own
    <3>4. WorkerKnows'
      BY <1>1, <3>2, <3>3
         DEF WorkerKnows, At, Provides, Finalizes, Provisioning, Getting
    <3> QED
      BY <1>3, <3>4 DEF IInv
  <2>6. CASE ~Deleting(o) /\ ~Own(o)
    <3>1. w'.pc = "addFinalizer" /\ w'.cur = p
      BY <2>1, <2>2, <2>6 DEF FirstCall, Workers
    <3>2. Kept(hist[p], Finalizer)
      <4>1. Live(o)
        BY <1>2, <2>1, <2>6 DEF Live, Deleting, Present, Phases
      <4> QED
        BY <1>2, <4>1, CachedLiveWithout
    <3>3. WorkerKnows'
      BY <1>1, <3>1, <3>2
         DEF WorkerKnows, At, Provides, Finalizes, Provisioning, Getting
    <3> QED
      BY <1>3, <3>3 DEF IInv
  <2> QED
    BY <2>4, <2>5, <2>6
<1> QED
  BY <1>4, <1>5

(* The finalizer is in place before anything is created.                   *)
LEMMA InvAddFinalizer ==
    ASSUME IInv, TypeOK', AddFinalizer
    PROVE  IInv'
<1> DEFINE o == Latest(hist[w.cur])
           new == Applied(o, Finalizer)
<1>1. PICK out \in Outcomes(ApplyAccepted(o, Finalizer)) :
        /\ IF TookEffect(out) THEN WriteIamPolicy(w.cur, new) ELSE UNCHANGED hist
        /\ Settle(out = "ok", ByStatus(w, "look"))
  BY DEF AddFinalizer
<1>2. /\ w \in Workers /\ w.cur \in Policies /\ w.pc = "addFinalizer"
      /\ hist \in [Policies -> Versions(IamPolicies)]
      /\ o \in IamPolicies /\ new \in IamPolicies
      /\ Orderly(hist[w.cur], Finalizer) /\ Kept(hist[w.cur], Finalizer)
      /\ UNCHANGED iam
  BY VersionsExist, IamPolicyTypes
     DEF IInv, TypeOK, AddFinalizer, At, WorkerKnows
<1>3. \/ w' = Idle
      \/ /\ w'.pc \in {"getPolicy", "list"} /\ w'.why = "look"
         /\ w'.cur = w.cur /\ TookEffect(out)
  BY <1>1, <1>2, ByStatusNext DEF Settle, TookEffect, Purposes
<1>4. VersionsSound'
  BY <1>2 DEF IInv, VersionsSound
<1>5. CASE ~TookEffect(out)
  <2>1. UNCHANGED hist /\ w' = Idle
    BY <1>1, <1>3, <1>5
  <2> QED
    BY <1>2, <1>4, <2>1, IdleKnows DEF IInv, NoOrphan, Idle
<1>6. CASE TookEffect(out)
  <2>1. WriteIamPolicy(w.cur, new) /\ ApplyAccepted(o, Finalizer)
    BY <1>1, <1>6 DEF Outcomes, TookEffect
  <2>2. Own(new) /\ Present(new)
    BY <1>2, <2>1 DEF Applied, Own, ContainsFinalizer, Present, IamPolicies
  <2>3. Orderly(Written(hist[w.cur], new), Finalizer)
    <3>1. CASE Own(o)
      <4>1. DeletingWith(o, Finalizer) => ~LiveWith(new, Finalizer)
        BY <1>2, <3>1, OwnIsPresent
           DEF Applied, DeletingWith, LiveWith, Deleting, Live, Present, IamPolicies
      <4> QED
        BY <1>2, <2>2, <3>1, <4>1, WriteKeeping, IamPolicyTypes DEF Own
    <3>2. CASE ~Own(o)
      <4>1. Live(new)
        BY <1>2, <2>1, <3>2
           DEF ApplyAccepted, Applied, Own, Deleting, Live, Present, IamPolicies, Phases
      <4> QED
        BY <1>2, <2>2, <3>2, <4>1, WriteAdding DEF Own, LiveWith
    <3> QED
      BY <3>1, <3>2
  <2>4. /\ hist'[w.cur] = Written(hist[w.cur], new)
        /\ \A q \in Policies \ {w.cur} : hist'[q] = hist[q]
        /\ Latest(hist'[w.cur]) = new
    BY <1>2, <2>1, WriteType, WrittenVersions
  <2>5. \A q \in Policies : Orderly(hist'[q], Finalizer)
    BY <2>3, <2>4 DEF IInv
  <2>6. NoOrphan'
    BY <1>2, <2>2, <2>4 DEF IInv, NoOrphan
  <2>7. WorkerKnows'
    BY <1>3, <2>2, <2>4, IdleKnows
       DEF WorkerKnows, At, Provides, Finalizes, Provisioning, Getting, Idle
  <2> QED
    BY <1>4, <2>5, <2>6, <2>7 DEF IInv
<1> QED
  BY <1>5, <1>6

(* The finalizer goes after the policy in IAM has.                         *)
LEMMA InvRemoveFinalizer ==
    ASSUME IInv, TypeOK', RemoveFinalizer
    PROVE  IInv'
<1> DEFINE o == Latest(hist[w.cur])
           fins == w.inst.fins \ {Finalizer}
           new == WithFinalizers(o, fins, NoIamPolicy)
<1>1. PICK out \in Outcomes(FinalizersAccepted(o, fins)) :
        /\ IF TookEffect(out) THEN WriteIamPolicy(w.cur, new) ELSE UNCHANGED hist
        /\ Settle(out = "ok", Idle)
  BY DEF RemoveFinalizer
<1>2. /\ w \in Workers /\ w.cur \in Policies /\ w.pc = "removeFinalizer"
      /\ hist \in [Policies -> Versions(IamPolicies)]
      /\ o \in IamPolicies /\ w.inst \in IamPolicies
      /\ Orderly(hist[w.cur], Finalizer) /\ Dying(hist[w.cur], Finalizer)
      /\ ~Managed(iam[w.cur])
      /\ UNCHANGED iam
  BY VersionsExist
     DEF IInv, TypeOK, Workers, RemoveFinalizer, At, WorkerKnows, Finalizes
<1>3. WorkerKnows'
  BY <1>1, IdleKnows DEF Settle, Idle
<1>4. VersionsSound'
  BY <1>2 DEF IInv, VersionsSound
<1>5. CASE ~TookEffect(out)
  BY <1>1, <1>2, <1>3, <1>4, <1>5 DEF IInv, NoOrphan
<1>6. CASE TookEffect(out)
  <2>1. new \in IamPolicies
    BY <1>2, IamPolicyTypes
  <2>2. ~Own(new)
    BY <1>2 DEF WithFinalizers, Own, ContainsFinalizer, NoIamPolicy, IamPolicies
  <2>3. Orderly(Written(hist[w.cur], new), Finalizer)
    BY <1>2, <2>1, <2>2, WriteRemoving DEF Own
  <2>4. /\ hist'[w.cur] = Written(hist[w.cur], new)
        /\ \A q \in Policies \ {w.cur} : hist'[q] = hist[q]
    BY <1>1, <1>2, <1>6, <2>1, WriteType
  <2>5. \A q \in Policies : Orderly(hist'[q], Finalizer)
    BY <2>3, <2>4 DEF IInv
  <2>6. NoOrphan'
    BY <1>2, <2>4 DEF IInv, NoOrphan
  <2> QED
    BY <1>3, <1>4, <2>5, <2>6 DEF IInv
<1> QED
  BY <1>5, <1>6

(* Get: the worker does not take a policy that is there for missing.       *)
LEMMA GetOnward ==
    ASSUME Undisturbed, IInv, List \/ GetPolicy \/ GetVersion
    PROVE  w' = Idle \/ Onward
<1>1. /\ w \in Workers /\ w.cur \in Policies /\ w.pc \in Getting
      /\ iam[w.cur] \in UpstreamPolicy /\ UNCHANGED <<hist, iam>>
  BY DEF IInv, TypeOK, At, Getting, List, GetPolicy, GetVersion
<1>2. w.why \in Purposes
  BY <1>1 DEF Workers
<1>3. Provides(w) <=> w.why # "finalize"
  BY <1>1 DEF Provides, Provisioning, Getting
<1>4. Finalizes(w) <=> w.why = "finalize"
  BY <1>1 DEF Finalizes, Getting
<1>5. ASSUME NEW out, NEW found, NEW next, Answer(out, found, next),
             ~found => ~Managed(iam[w.cur]),
             found /\ w' = next => w' = Idle \/ Onward
      PROVE  w' = Idle \/ Onward
  <2>1. ASSUME w' = Missing(w), w.why \in {"look", "finalize"}, ~Managed(iam[w.cur])
        PROVE  Onward
    <3>1. /\ w'.cur = w.cur /\ w'.inst = w.inst
          /\ w.why = "look" => w'.pc = "createPolicy"
          /\ w.why = "finalize" => w'.pc = "removeFinalizer"
      BY <1>1, <2>1 DEF Missing, Workers
    <3> QED
      BY <1>1, <1>3, <1>4, <2>1, <3>1
         DEF Onward, Provides, Finalizes, Provisioning, Getting
  <2> QED
    BY <1>5, <2>1 DEF Answer, Settle
<1>6. CASE List
  <2> DEFINE found == Managed(iam[w.cur]) /\ w.cur \in FirstPage
  <2>1. ~found => ~Managed(iam[w.cur])
    BY <1>1 DEF Undisturbed
  <2>2. w' = Goto("getPolicy") => Onward
    BY <1>1, <1>3, <1>4, GotoType
       DEF Onward, Provides, Finalizes, Provisioning, Getting, Calls
  <2> QED
    BY <1>5, <1>6, <2>1, <2>2 DEF List
<1>7. CASE GetPolicy
  <2> DEFINE next == [w EXCEPT !.pc = "getVersion", !.version = iam[w.cur].default]
  <2>1. /\ next.pc = "getVersion" /\ next.version = iam[w.cur].default
        /\ next.cur = w.cur /\ next.inst = w.inst /\ next.why = w.why
    BY <1>1 DEF Workers
  <2>2. w' = next => Onward
    BY <1>1, <1>3, <1>4, <2>1 DEF Onward, Provides, Finalizes, Provisioning, Getting
  <2> QED
    BY <1>5, <1>7, <2>2 DEF GetPolicy
<1>8. CASE GetVersion
  <2> DEFINE i == iam[w.cur]
             found == Managed(i) /\ w.version \in Stored(i)
             next == Found(w, i.docs[w.version])
  <2>1. ~found => ~Managed(i)
    BY <1>1, <1>8 DEF IInv, WorkerKnows, VersionsSound, Sound, GetVersion, At
  <2>2. w' = next => w' = Idle \/ Onward
    <3>1. CASE w.why = "finalize"
      <4>1. Follows(next, w, {"deletePolicy"})
        BY <1>1, <3>1, FoundNext
      <4> QED
        BY <1>4, <3>1, <4>1
           DEF Follows, Onward, Provides, Finalizes, Provisioning, Getting
    <3>2. CASE w.why # "finalize"
      <4>1. /\ Follows(next, w, {"patchRoles", "getPolicy", "patchCreated",
                                 "patchUpdated", "createVersion"})
            /\ next.pc = "getPolicy" => next.why = "edit"
        BY <1>1, <3>2, FoundNext
      <4> QED
        BY <1>3, <3>2, <4>1
           DEF Follows, Onward, Provides, Finalizes, Provisioning, Getting
    <3> QED
      BY <3>1, <3>2
  <2> QED
    BY <1>5, <1>8, <2>1, <2>2 DEF GetVersion
<1> QED
  BY <1>6, <1>7, <1>8

LEMMA InvGet ==
    ASSUME Undisturbed, IInv, TypeOK', List \/ GetPolicy \/ GetVersion
    PROVE  IInv'
<1>1. w.cur \in Policies /\ UNCHANGED <<hist, iam>>
  BY DEF IInv, TypeOK, At, List, GetPolicy, GetVersion
<1>2. VersionsSound'
  BY <1>1 DEF IInv, VersionsSound
<1> QED
  BY <1>1, <1>2, GetOnward, UnchangedPreserves, WorkerStep DEF LeftAlone

(* A call that changes the policy in IAM.                                  *)
LEMMA InvUpstream ==
    ASSUME IInv, TypeOK', CreatePolicy \/ CreateVersion \/ DeleteVersion \/ DeletePolicy
    PROVE  IInv'
<1> DEFINE i == iam[w.cur]
           d == Desired(w.inst)
<1>1. /\ w \in Workers /\ w.cur \in Policies
      /\ iam \in [Policies -> UpstreamPolicy] /\ i \in UpstreamPolicy
      /\ d \in Documents /\ w.version \in VersionIds \cup {NoVersion}
      /\ Sound(i) /\ UNCHANGED hist
  BY DesiredType
     DEF IInv, TypeOK, Workers, VersionsSound, At, CreatePolicy, CreateVersion,
         DeleteVersion, DeletePolicy
<1>2. ASSUME NEW j, Sound(j), iam' = iam \/ iam' = [iam EXCEPT ![w.cur] = j],
             Managed(iam'[w.cur]) => Managed(i) \/ Provides(w),
             w' = Idle \/ Onward
      PROVE  IInv'
  <2>1. \A q \in Policies \ {w.cur} : iam'[q] = iam[q]
    BY <1>1, <1>2
  <2>2. VersionsSound'
    BY <1>1, <1>2 DEF IInv, VersionsSound
  <2> QED
    BY <1>1, <1>2, <2>1, <2>2, UnchangedPreserves, WorkerStep DEF LeftAlone
<1>3. ASSUME NEW pc \in Calls
      PROVE  Goto(pc).pc = pc /\ Goto(pc).cur = w.cur /\ Goto(pc).inst = w.inst
  BY <1>1, GotoType
<1>4. ASSUME NEW why \in Purposes
      PROVE  /\ ByArn(w, why).pc = "getPolicy" /\ ByArn(w, why).why = why
             /\ ByArn(w, why).cur = w.cur /\ ByArn(w, why).inst = w.inst
  BY <1>1 DEF ByArn, Workers
<1>5. CASE CreatePolicy
  <2>1. PICK out \in Outcomes(CreateAccepted(i, d)), v \in VersionIds :
          /\ iam' = IF TookEffect(out) THEN [iam EXCEPT ![w.cur] = CreatedPolicy(v, d)]
                                       ELSE iam
          /\ Settle(out = "ok", ByArn(w, "created"))
    BY <1>5 DEF CreatePolicy
  <2>2. Sound(CreatedPolicy(v, d))
    BY <1>1, CreatedVersions
  <2>3. Provides(w)
    BY <1>5 DEF CreatePolicy, At, Provides, Provisioning
  <2>4. w' = Idle \/ Onward
    BY <1>4, <2>1, <2>3
       DEF Settle, Purposes, Onward, Provides, Finalizes, Provisioning, Getting
  <2> QED
    BY <1>2, <2>1, <2>2, <2>3, <2>4
<1>6. CASE CreateVersion
  <2>1. PICK out \in Outcomes(VersionAccepted(i, d)) :
          /\ IF TookEffect(out)
             THEN \E v \in NewIds(i) : iam' = [iam EXCEPT ![w.cur] = WithVersion(i, v, d)]
             ELSE UNCHANGED iam
          /\ Settle(out = "ok", Goto("deleteVersion"))
    BY <1>6 DEF CreateVersion
  <2>2. Provides(w)
    BY <1>6 DEF CreateVersion, At, Provides, Provisioning
  <2>3. CASE ~TookEffect(out)
    <3>1. w' = Idle /\ iam' = iam
      BY <2>1, <2>3 DEF TookEffect, Settle
    <3> QED
      BY <1>1, <1>2, <3>1
  <2>4. CASE TookEffect(out)
    <3>1. VersionAccepted(i, d)
      BY <2>4 DEF Outcomes, TookEffect
    <3>2. PICK v \in NewIds(i) : iam' = [iam EXCEPT ![w.cur] = WithVersion(i, v, d)]
      BY <2>1, <2>4
    <3>3. Sound(WithVersion(i, v, d)) /\ InForce(WithVersion(i, v, d)) = d
      BY <1>1, <3>1, AddedVersions
    <3>4. InForce(iam'[w.cur]) = d
      BY <1>1, <3>2, <3>3
    <3>5. w' = Idle \/ Onward
      BY <1>3, <2>1, <2>2, <3>4
         DEF Settle, Calls, Onward, Provides, Finalizes, Provisioning, Getting
    <3> QED
      BY <1>2, <2>2, <3>2, <3>3, <3>5
  <2> QED
    BY <2>3, <2>4
<1>7. CASE DeleteVersion
  <2> DEFINE j == WithoutVersion(i, w.version)
  <2>1. PICK out \in Outcomes(DeleteVersionAccepted(i, w.version)) :
          /\ iam' = IF TookEffect(out) THEN [iam EXCEPT ![w.cur] = j] ELSE iam
          /\ Settle(out = "ok", ByArn(w, "updated"))
    BY <1>7 DEF DeleteVersion
  <2>2. Provides(w)
    BY <1>7 DEF DeleteVersion, At, Provides, Provisioning
  <2>3. w' = Idle \/ Onward
    BY <1>4, <2>1, <2>2
       DEF Settle, Purposes, Onward, Provides, Finalizes, Provisioning, Getting
  <2>4. TookEffect(out) => Sound(j)
    <3>1. TookEffect(out) => DeleteVersionAccepted(i, w.version)
      BY DEF Outcomes, TookEffect
    <3>2. DeleteVersionAccepted(i, w.version) => w.version \in VersionIds
      BY DEF DeleteVersionAccepted, Stored
    <3> QED
      BY <1>1, <3>1, <3>2, RemovedVersions
  <2>5. CASE TookEffect(out)
    BY <1>2, <2>1, <2>2, <2>3, <2>4, <2>5
  <2>6. CASE ~TookEffect(out)
    BY <1>1, <1>2, <2>1, <2>2, <2>3, <2>6
  <2> QED
    BY <2>5, <2>6
<1>8. CASE DeletePolicy
  <2>1. PICK out \in Outcomes(DeleteAccepted(i)) :
          /\ iam' = IF TookEffect(out) THEN [iam EXCEPT ![w.cur] = NoUpstreamPolicy]
                                       ELSE iam
          /\ Settle(out = "ok", Goto("removeFinalizer"))
    BY <1>8 DEF DeletePolicy
  <2>2. Sound(NoUpstreamPolicy) /\ ~Managed(NoUpstreamPolicy)
    BY DEF Sound, Managed, NoUpstreamPolicy
  <2>3. Finalizes(w)
    BY <1>8 DEF DeletePolicy, At, Finalizes
  <2>4. out = "ok" => ~Managed(iam'[w.cur])
    BY <1>1, <2>1, <2>2 DEF TookEffect
  <2>5. Managed(iam'[w.cur]) => Managed(i)
    BY <1>1, <2>1, <2>2
  <2>6. w' = Idle \/ Onward
    BY <1>3, <2>1, <2>3, <2>4
       DEF Settle, Calls, Onward, Provides, Finalizes, Provisioning, Getting
  <2> QED
    BY <1>2, <2>1, <2>2, <2>5, <2>6
<1> QED
  BY <1>5, <1>6, <1>7, <1>8

(* A status patch keeps the finalizer as it is.                            *)
LEMMA InvPatch ==
    ASSUME IInv, TypeOK', PatchCreated \/ PatchUpdated \/ PatchRoles
    PROVE  IInv'
<1> DEFINE o == Latest(hist[w.cur])
<1>1. /\ w \in Workers /\ w.cur \in Policies /\ w.roles \in SUBSET Roles
      /\ o \in IamPolicies /\ Desired(w.inst) \in Documents
      /\ Provides(w) /\ UNCHANGED iam
  BY VersionsExist, DesiredType
     DEF IInv, TypeOK, Workers, At, PatchCreated, PatchUpdated, PatchRoles,
         Provides, Provisioning
<1>2. Own(o) => Present(o)
  BY <1>1, OwnIsPresent DEF IInv, TypeOK
<1>3. ASSUME NEW new \in IamPolicies, new.phase = o.phase, new.fins = o.fins,
             WriteIamPolicy(w.cur, new)
      PROVE  Preserves
  BY <1>1, <1>2, <1>3, KeepingPreserves
     DEF Own, ContainsFinalizer, DeletingWith, Deleting, Live, Present
<1>4. Preserves
  <2> DEFINE recorded == Recorded(o, Desired(w.inst))
             listed == [o EXCEPT !.roles = w.roles]
  <2>1. /\ recorded \in IamPolicies /\ listed \in IamPolicies
        /\ recorded.phase = o.phase /\ recorded.fins = o.fins
        /\ listed.phase = o.phase /\ listed.fins = o.fins
    BY <1>1, IamPolicyTypes DEF Recorded, IamPolicies
  <2>2. \/ UNCHANGED hist
        \/ WriteIamPolicy(w.cur, recorded)
        \/ WriteIamPolicy(w.cur, listed)
    BY DEF PatchCreated, PatchUpdated, PatchRoles
  <2> QED
    BY <1>3, <2>1, <2>2, UnchangedPreserves
<1>5. w' = Idle \/ Onward
  <2>1. \/ w' = Idle
        \/ w' = AfterLook(w)
        \/ w' = AfterUpdate(w)
    BY DEF PatchCreated, PatchUpdated, PatchRoles, Settle
  <2>2. \/ w' = Idle
        \/ /\ w'.pc \in {"patchRoles", "getPolicy"}
           /\ w'.pc = "getPolicy" => w'.why = "edit"
           /\ w'.cur = w.cur /\ w'.inst = w.inst
    BY <1>1, <2>1, AfterLookNext, AfterUpdateNext DEF Follows
  <2> QED
    BY <1>1, <2>2 DEF Onward, Provides, Finalizes, Provisioning, Getting
<1>6. VersionsSound' /\ \A q \in Policies : LeftAlone(q)
  BY <1>1 DEF IInv, VersionsSound, LeftAlone
<1> QED
  BY <1>1, <1>4, <1>5, <1>6, WorkerStep

(* Users write what keeps the controller's finalizer as it is.             *)
LEMMA InvUsers ==
    ASSUME IInv, TypeOK', Users
    PROVE  IInv'
<1>1. \A p \in Policies : /\ Latest(hist[p]) \in IamPolicies
                          /\ Own(Latest(hist[p])) => Present(Latest(hist[p]))
  BY VersionsExist, OwnIsPresent DEF IInv, TypeOK
<1>2. ~Own(NoIamPolicy) /\ NoIamPolicy \in IamPolicies
  BY IamPolicyTypes DEF Own, ContainsFinalizer, NoIamPolicy
<1>3. ASSUME NEW p \in Policies, NEW o \in IamPolicies, UserWrites(p, o),
             Own(o) <=> Own(Latest(hist[p])),
             Own(o) => Present(o),
             DeletingWith(Latest(hist[p]), Finalizer) => ~Live(o)
      PROVE  IInv'
  <2>1. Preserves
    BY <1>3, KeepingPreserves DEF UserWrites
  <2>2. /\ VersionsSound' /\ UNCHANGED w
        /\ \A q \in Policies : LeftAlone(q)
    BY <1>3 DEF UserWrites, IInv, VersionsSound, LeftAlone
  <2> QED
    BY <2>1, <2>2, OthersStep
<1>4. ASSUME NEW p \in Policies, NEW fins \in SUBSET ForeignFinalizers,
             NEW spec \in Specs, CreateIamPolicy(p, fins, spec)
      PROVE  IInv'
  <2> DEFINE o == [NoIamPolicy EXCEPT !.phase = "live", !.fins = fins, !.spec = spec]
  <2>1. o \in IamPolicies
    BY <1>2 DEF IamPolicies, Phases, Finalizers
  <2>2. ~Own(o)
    BY PolicyControllerAssumption DEF Own, ContainsFinalizer, NoIamPolicy
  <2>3. ~Own(Latest(hist[p]))
    BY <1>1, <1>4 DEF CreateIamPolicy
  <2> QED
    BY <1>3, <1>4, <2>1, <2>2, <2>3 DEF CreateIamPolicy, DeletingWith, Own
<1>5. ASSUME NEW p \in Policies, DeleteIamPolicy(p)
      PROVE  IInv'
  <2> DEFINE o == Latest(hist[p])
             new == Deleted(o, NoIamPolicy)
  <2>1. new \in IamPolicies /\ Live(o)
    BY <1>1, <1>5, IamPolicyTypes DEF DeleteIamPolicy
  <2>2. Own(new) <=> Own(o)
    BY <1>1, <1>2 DEF Deleted, Own, ContainsFinalizer, IamPolicies
  <2>3. Own(new) => Present(new)
    BY <1>1, <1>2 DEF Deleted, Present, IamPolicies
  <2>4. ~DeletingWith(o, Finalizer)
    BY <2>1 DEF DeletingWith, Live, Deleting
  <2> QED
    BY <1>3, <1>5, <2>1, <2>2, <2>3, <2>4 DEF DeleteIamPolicy
<1>6. ASSUME NEW p \in Policies, NEW spec \in Specs, SetDocument(p, spec)
      PROVE  IInv'
  <2> DEFINE o == Latest(hist[p])
             new == [o EXCEPT !.spec = spec]
  <2>1. /\ new \in IamPolicies /\ Live(o)
        /\ new.fins = o.fins /\ new.phase = o.phase
    BY <1>1, <1>6, IamPolicyTypes DEF SetDocument, IamPolicies
  <2>2. ~DeletingWith(o, Finalizer)
    BY <2>1 DEF DeletingWith, Live, Deleting
  <2> QED
    BY <1>1, <1>3, <1>6, <2>1, <2>2 DEF SetDocument, Own, ContainsFinalizer, Present
<1>7. ASSUME NEW p \in Policies, NEW f \in ForeignFinalizers, ReleaseFinalizer(p, f)
      PROVE  IInv'
  <2> DEFINE o == Latest(hist[p])
             fins == o.fins \ {f}
             new == WithFinalizers(o, fins, NoIamPolicy)
  <2>1. f # Finalizer /\ fins \in SUBSET Finalizers
    BY <1>1, IamPolicyTypes, PolicyControllerAssumption
  <2>2. new \in IamPolicies
    BY <1>1, <2>1, IamPolicyTypes
  <2>3. Finalizer \in fins <=> Own(o)
    BY <2>1 DEF Own, ContainsFinalizer
  <2>4. Own(new) <=> Own(o)
    BY <1>1, <1>2, <2>3 DEF WithFinalizers, Own, ContainsFinalizer, IamPolicies
  <2>5. Own(new) => Present(new)
    BY <1>1, <1>2, <2>3 DEF WithFinalizers, Present, Own, ContainsFinalizer, IamPolicies
  <2>6. DeletingWith(o, Finalizer) => ~Live(new)
    BY <1>1 DEF WithFinalizers, DeletingWith, Deleting, Live, IamPolicies, NoIamPolicy
  <2> QED
    BY <1>3, <1>7, <2>2, <2>4, <2>5, <2>6 DEF ReleaseFinalizer
<1> QED
  BY <1>4, <1>5, <1>6, <1>7 DEF Users

(* The manager delivers, queues or begins again.                           *)
LEMMA InvManager ==
    ASSUME IInv, TypeOK', Manager
    PROVE  IInv'
<1>1. VersionsSound' /\ \A q \in Policies : LeftAlone(q)
  <2>1. UNCHANGED iam
    BY DEF Manager, Sync, Resync, Restart, RoleSeen
  <2> QED
    BY <2>1 DEF IInv, VersionsSound, LeftAlone
<1>2. ASSUME UNCHANGED <<hist, w>>
      PROVE  IInv'
  BY <1>1, <1>2, UnchangedPreserves, OthersStep
<1>3. ASSUME NEW p \in Policies, Sync(p)
      PROVE  IInv'
  <2>1. /\ hist[p] \in Versions(IamPolicies) /\ ~Current(hist[p])
        /\ Orderly(hist[p], Finalizer)
        /\ hist' = [hist EXCEPT ![p] = Delivered(hist[p])]
        /\ hist \in [Policies -> Versions(IamPolicies)]
    BY <1>3 DEF Sync, IInv, TypeOK
  <2>2. /\ Latest(Delivered(hist[p])) = Latest(hist[p])
        /\ Orderly(Delivered(hist[p]), Finalizer)
        /\ Kept(hist[p], Finalizer) => Kept(Delivered(hist[p]), Finalizer)
        /\ Dying(hist[p], Finalizer) => Dying(Delivered(hist[p]), Finalizer)
    BY <2>1, DeliveredVersions, DeliveredOrderly
  <2>3. Preserves
    BY <2>1, <2>2 DEF Preserves, IInv
  <2> QED
    BY <1>1, <1>3, <2>3, OthersStep DEF Sync
<1>4. CASE Restart
  <2>1. /\ hist \in [Policies -> Versions(IamPolicies)]
        /\ \A p \in Policies : hist'[p] = Relisted(hist[p])
        /\ w' = Idle /\ UNCHANGED iam
    BY <1>4 DEF Restart, IInv, TypeOK
  <2>2. \A p \in Policies : /\ Latest(hist'[p]) = Latest(hist[p])
                            /\ Orderly(hist'[p], Finalizer)
    BY <2>1, RelistedVersions, RelistedOrderly DEF IInv
  <2>3. WorkerKnows'
    BY <2>1, IdleKnows DEF Idle
  <2> QED
    BY <1>1, <2>1, <2>2, <2>3 DEF IInv, NoOrphan
<1> QED
  BY <1>2, <1>3, <1>4 DEF Manager, Resync, RoleSeen

(* Administrators make policies of their own only, and what they take away *)
(* is the whole policy or a version that is not in force.                  *)
LEMMA InvAws ==
    ASSUME Undisturbed, IInv, TypeOK', Aws
    PROVE  IInv'
<1>1. iam \in [Policies -> UpstreamPolicy] /\ \A p \in Policies : Sound(iam[p])
  BY DEF IInv, TypeOK, VersionsSound
<1>2. ASSUME NEW p \in Policies, NEW i, Interferes(p, i), Sound(i),
             Managed(i) => /\ Managed(iam[p]) /\ i.default = iam[p].default
                           /\ InForce(i) = InForce(iam[p])
      PROVE  IInv'
  <2>1. VersionsSound'
    BY <1>1, <1>2 DEF Interferes, VersionsSound
  <2>2. UNCHANGED <<hist, w>> /\ \A q \in Policies : LeftAlone(q)
    BY <1>1, <1>2 DEF Interferes, LeftAlone
  <2> QED
    BY <2>1, <2>2, UnchangedPreserves, OthersStep
<1>3. ASSUME NEW p \in Policies, ExternalCreate(p) \/ ExternalDelete(p)
      PROVE  IInv'
  <2> DEFINE theirs == [NoUpstreamPolicy EXCEPT !.owner = "external"]
  <2>1. ~Managed(NoUpstreamPolicy) /\ ~Managed(theirs)
    BY DEF Managed, NoUpstreamPolicy
  <2> QED
    BY <1>2, <1>3, <2>1 DEF ExternalCreate, ExternalDelete, Sound
<1>4. ASSUME NEW p \in Policies, NEW v \in VersionIds, NEW doc \in Documents,
             ExternalVersion(p, v, doc)
      PROVE  IInv'
  BY <1>4 DEF ExternalVersion, Undisturbed
<1>5. ASSUME NEW p \in Policies, NEW v \in VersionIds, ExternalPrune(p, v)
      PROVE  IInv'
  <2>1. /\ Sound(WithoutVersion(iam[p], v)) /\ Managed(iam[p])
        /\ WithoutVersion(iam[p], v).default = iam[p].default
        /\ InForce(WithoutVersion(iam[p], v)) = InForce(iam[p])
    BY <1>1, <1>5, RemovedVersions DEF ExternalPrune, DeleteVersionAccepted
  <2> QED
    BY <1>2, <1>5, <2>1 DEF ExternalPrune
<1> QED
  BY <1>3, <1>4, <1>5 DEF Aws

LEMMA InvStep == Undisturbed /\ IInv /\ [Next]_vars => IInv'
<1> SUFFICES ASSUME Undisturbed, IInv, [Next]_vars PROVE IInv'
  OBVIOUS
<1>1. TypeOK'
  BY TypeStep DEF IInv
<1>2. CASE UNCHANGED vars
  BY <1>1, <1>2, UnchangedPreserves, OthersStep
     DEF vars, IInv, VersionsSound, LeftAlone
<1>3. ASSUME NEW p \in Policies, Start(p)
      PROVE  IInv'
  BY <1>1, <1>3, InvStart
<1>4. CASE Reconcile
  BY <1>1, <1>4, InvAddFinalizer, InvRemoveFinalizer, InvGet, InvUpstream, InvPatch
     DEF Reconcile
<1> QED
  BY <1>1, <1>2, <1>3, <1>4, InvManager, InvUsers, InvAws DEF Next

(* The invariant holds in every reachable state of an undisturbed system.  *)
THEOREM Invariant ==
    ASSUME Undisturbed PROVE Spec => []IInv
<1>1. IInv /\ [Next]_vars => IInv'
  BY InvStep
<1> QED
  BY <1>1, InvInit, PTL DEF Spec

(* No managed policy of the controller is ever without an object that      *)
(* holds the controller's finalizer.                                       *)
THEOREM NoOrphanHolds ==
    ASSUME Undisturbed PROVE Spec => []NoOrphan
<1>1. IInv => NoOrphan
  BY DEF IInv
<1> QED
  BY <1>1, Invariant, PTL

-----------------------------------------------------------------------------
(* What the worker does to a managed policy.                               *)

(* Only its calls change one, each of its own.                             *)
LEMMA ChangeIsWorkers ==
    ASSUME IInv, [Next]_vars, NEW p \in Policies, iam'[p] # iam[p], w' # w
    PROVE  /\ w.cur = p /\ w.inst \in IamPolicies
           /\ CreatePolicy \/ CreateVersion \/ DeleteVersion \/ DeletePolicy
<1>1. iam \in [Policies -> UpstreamPolicy] /\ iam' # iam
  BY DEF IInv, TypeOK
<1>2. ~(UNCHANGED vars) /\ ~(\E q \in Policies : Start(q))
  BY <1>1 DEF vars, Start
<1>3. ~Users
  BY <1>1 DEF Users, CreateIamPolicy, DeleteIamPolicy, SetDocument, ReleaseFinalizer,
              UserWrites
<1>4. ~Aws
  BY DEF Aws, ExternalCreate, ExternalDelete, ExternalVersion, ExternalPrune, Interferes
<1>5. ~Manager
  BY <1>1 DEF Manager, Sync, Resync, Restart, RoleSeen
<1>6. CreatePolicy \/ CreateVersion \/ DeleteVersion \/ DeletePolicy
  BY <1>1, <1>2, <1>3, <1>4, <1>5
     DEF Next, Reconcile, AddFinalizer, List, GetPolicy, GetVersion, PatchCreated,
         PatchUpdated, PatchRoles, RemoveFinalizer
<1>7. \E i : iam' = [iam EXCEPT ![w.cur] = i]
  BY <1>1, <1>6 DEF CreatePolicy, CreateVersion, DeleteVersion, DeletePolicy
<1>8. w.cur = p
  BY <1>1, <1>7
<1> QED
  BY <1>6, <1>8 DEF IInv, TypeOK, Workers

(* The worker deletes a managed policy only when its object is being       *)
(* deleted at the API server, however stale its copy of the object is.     *)
THEOREM DeletesOnlyDeletingHolds ==
    ASSUME Undisturbed PROVE Spec => DeletesOnlyDeleting
<1> DEFINE Allowed ==
             \A p \in Policies :
               (Managed(iam[p]) /\ ~Managed(iam'[p]) /\ w' # w)
               => Deleting(Latest(hist[p]))
<1>1. ASSUME IInv, [Next]_vars
      PROVE  Allowed
  <2> SUFFICES ASSUME NEW p \in Policies, Managed(iam[p]), ~Managed(iam'[p]), w' # w
               PROVE  Deleting(Latest(hist[p]))
    OBVIOUS
  <2>1. /\ w.cur = p /\ w.inst \in IamPolicies
        /\ CreatePolicy \/ CreateVersion \/ DeleteVersion \/ DeletePolicy
    BY <1>1, ChangeIsWorkers
  <2>2. /\ iam \in [Policies -> UpstreamPolicy] /\ iam[p] \in UpstreamPolicy
        /\ Desired(w.inst) \in Documents
    BY <1>1, <2>1, DesiredType DEF IInv, TypeOK
  <2>3. ~CreatePolicy
    BY <2>1, <2>2, CreatedVersions DEF CreatePolicy
  <2>4. ~CreateVersion
    BY <2>1, <2>2 DEF CreateVersion, WithVersion, Managed, UpstreamPolicy
  <2>5. ~DeleteVersion
    BY <2>1, <2>2 DEF DeleteVersion, WithoutVersion, Managed, UpstreamPolicy
  <2>6. Dying(hist[p], Finalizer)
    BY <1>1, <2>1, <2>3, <2>4, <2>5 DEF IInv, WorkerKnows, DeletePolicy, At, Finalizes
  <2>7. Own(Latest(hist[p])) /\ Len(hist[p]) \in 1..Len(hist[p])
    BY <1>1, VersionsExist DEF IInv, NoOrphan, TypeOK
  <2> QED
    BY <2>6, <2>7 DEF Dying, DeletingWith, Own, Latest
<1>2. IInv /\ [Next]_vars => [Allowed]_vars
  BY <1>1
<1> QED
  BY <1>2, Invariant, PTL DEF Spec, DeletesOnlyDeleting

(* Whatever the worker writes to a managed policy, the document it wants   *)
(* is in force and the object is held.                                     *)
THEOREM InForceIsHeldHolds ==
    ASSUME Undisturbed PROVE Spec => InForceIsHeld
<1> DEFINE Held ==
             \A p \in Policies :
               (Managed(iam'[p]) /\ iam'[p] # iam[p] /\ w' # w)
               => /\ InForce(iam'[p]) = Desired(w.inst)
                  /\ Own(Latest(hist[p]))
<1>1. ASSUME IInv, [Next]_vars
      PROVE  Held
  <2> SUFFICES ASSUME NEW p \in Policies, Managed(iam'[p]), iam'[p] # iam[p], w' # w
               PROVE  InForce(iam'[p]) = Desired(w.inst) /\ Own(Latest(hist[p]))
    OBVIOUS
  <2> DEFINE i == iam[p]
             d == Desired(w.inst)
  <2>1. /\ w.cur = p /\ w.inst \in IamPolicies
        /\ CreatePolicy \/ CreateVersion \/ DeleteVersion \/ DeletePolicy
    BY <1>1, ChangeIsWorkers
  <2>2. /\ iam \in [Policies -> UpstreamPolicy] /\ i \in UpstreamPolicy
        /\ d \in Documents /\ Sound(i)
    BY <1>1, <2>1, DesiredType DEF IInv, TypeOK, VersionsSound
  <2>3. ~DeletePolicy
    BY <2>1, <2>2 DEF DeletePolicy, NoUpstreamPolicy, Managed
  <2>4. Own(Latest(hist[p]))
    BY <1>1, <2>1, <2>3
       DEF IInv, WorkerKnows, Provides, Provisioning, At, CreatePolicy, CreateVersion,
           DeleteVersion
  <2>5. CASE CreatePolicy
    <3>1. PICK v \in VersionIds : iam' = [iam EXCEPT ![p] = CreatedPolicy(v, d)]
      BY <2>1, <2>2, <2>5 DEF CreatePolicy
    <3> QED
      BY <2>2, <2>4, <3>1, CreatedVersions
  <2>6. CASE CreateVersion
    <3>1. PICK out \in Outcomes(VersionAccepted(i, d)) :
             IF TookEffect(out)
             THEN \E v \in NewIds(i) : iam' = [iam EXCEPT ![p] = WithVersion(i, v, d)]
             ELSE UNCHANGED iam
      BY <2>1, <2>6 DEF CreateVersion
    <3>2. TookEffect(out) /\ VersionAccepted(i, d)
      BY <3>1 DEF Outcomes, TookEffect
    <3>3. PICK v \in NewIds(i) : iam' = [iam EXCEPT ![p] = WithVersion(i, v, d)]
      BY <3>1, <3>2
    <3> QED
      BY <2>2, <2>4, <3>2, <3>3, AddedVersions
  <2>7. CASE DeleteVersion
    <3>1. PICK out \in Outcomes(DeleteVersionAccepted(i, w.version)) :
             iam' = IF TookEffect(out)
                    THEN [iam EXCEPT ![p] = WithoutVersion(i, w.version)] ELSE iam
      BY <2>1, <2>7 DEF DeleteVersion
    <3>2. TookEffect(out) /\ DeleteVersionAccepted(i, w.version)
      BY <3>1 DEF Outcomes, TookEffect
    <3>3. w.version \in VersionIds /\ Managed(i)
      BY <3>2 DEF DeleteVersionAccepted, Stored
    <3>4. InForce(i) = d
      BY <1>1, <2>1, <2>7, <3>3 DEF IInv, WorkerKnows, DeleteVersion, At
    <3> QED
      BY <2>2, <2>4, <3>1, <3>2, <3>3, <3>4, RemovedVersions
  <2> QED
    BY <2>1, <2>3, <2>5, <2>6, <2>7
<1>2. IInv /\ [Next]_vars => [Held]_vars
  BY <1>1
<1> QED
  BY <1>2, Invariant, PTL DEF Spec, InForceIsHeld
=============================================================================
