------------------------ MODULE RoleControllerProofs ------------------------
(***************************************************************************)
(* RoleController is type correct, keeps NoOrphan, satisfies               *)
(* DeletesOnlyDeleting and implements ManagedResource, for every value of  *)
(* the constants.                                                          *)
(***************************************************************************)
EXTENDS RoleProperties, FinalizerHistoryProofs

-----------------------------------------------------------------------------
(* Types of what the actions are built from.                               *)

LEMMA IamRoleTypes ==
    /\ NoIamRole \in IamRoles
    /\ \A o \in IamRoles : o.phase \in Phases /\ o.fins \in SUBSET Finalizers
    /\ \A o \in IamRoles : Deleted(o, NoIamRole) \in IamRoles
    /\ \A o \in IamRoles : Applied(o, Finalizer) \in IamRoles
    /\ \A o \in IamRoles, fins \in SUBSET Finalizers :
          WithFinalizers(o, fins, NoIamRole) \in IamRoles
    /\ \A o \in IamRoles, a \in Owners : [o EXCEPT !.arn = a] \in IamRoles
    /\ \A o \in IamRoles, s \in SUBSET ServiceAccounts :
          [o EXCEPT !.bsas = s] \in IamRoles
    /\ \A o \in IamRoles, s \in SUBSET Policies : [o EXCEPT !.refs = s] \in IamRoles
  BY DEF NoIamRole, IamRoles, Phases, Owners, Finalizers, Deleted, Applied,
         WithFinalizers, Present, Deleting

LEMMA UpstreamTypes ==
    /\ NoUpstreamRole \in UpstreamRole
    /\ \A i \in UpstreamRole, o \in Owners : Created(i, o) \in UpstreamRole
    /\ \A i \in UpstreamRole : Removed(i) \in UpstreamRole
    /\ \A i \in UpstreamRole, p \in Policies :
          Attached(i, p) \in UpstreamRole /\ Detached(i, p) \in UpstreamRole
    /\ \A i \in UpstreamRole, doc \in TrustDoc : WithTrust(i, doc) \in UpstreamRole
    /\ \A i \in UpstreamRole : i.owner \in Owners /\ i.trust \in TrustDoc
  BY DEF NoUpstreamRole, UpstreamRole, Created, Removed, Attached, Detached,
         WithTrust, Owners, TrustDoc, DenyAll, ForeignStatements

LEMMA EditedType ==
    ASSUME NEW doc \in TrustDoc, NEW accounts \in SUBSET ServiceAccounts
    PROVE  Edited(doc, accounts) \in TrustDoc
  BY DEF Edited, Decoded, TrustDoc, ForeignStatements

(* A write makes a version of one role and leaves the others alone.        *)
LEMMA WriteType ==
    ASSUME hist \in [Roles -> Versions(IamRoles)],
           NEW r \in Roles, NEW o \in IamRoles, WriteIamRole(r, o)
    PROVE  /\ hist' \in [Roles -> Versions(IamRoles)]
           /\ hist'[r] = Written(hist[r], o)
           /\ \A q \in Roles \ {r} : hist'[q] = hist[q]
<1>1. Written(hist[r], o) \in Versions(IamRoles)
  BY WrittenVersions
<1> QED
  BY <1>1 DEF WriteIamRole

(* What Reconcile returns: the next call, or an error and a place in the   *)
(* queue.                                                                  *)
WorkerOK(v) == v \in Workers /\ (v.pc # "idle" => v.cur \in Roles)

LEMMA IdleOK == WorkerOK(Idle)
  BY IamRoleTypes
     DEF WorkerOK, Workers, Idle, Owners, TrustDoc, DenyAll, ForeignStatements

LEMMA ChargeType ==
    ASSUME faults \in 0..MaxFaults, NEW acc, NEW out \in Outcomes(acc), Charge(out)
    PROVE  faults' \in 0..MaxFaults
<1>1. MaxFaults \in Nat
  BY MaxFaultsAssumption
<1>2. out \in {"failed", "lost"} => faults < MaxFaults
  BY DEF Outcomes
<1> QED
  BY <1>1, <1>2 DEF Charge

LEMMA SettleType ==
    ASSUME TypeOK, w.pc # "idle", NEW acc, NEW out \in Outcomes(acc),
           NEW next, out = "ok" => WorkerOK(next), Settle(out, next)
    PROVE  /\ WorkerOK(w')
           /\ queue' \subseteq Roles
           /\ faults' \in 0..MaxFaults
<1>1. faults' \in 0..MaxFaults
  BY ChargeType DEF Settle, TypeOK
<1>2. WorkerOK(w')
  BY IdleOK DEF Settle
<1>3. queue' \subseteq Roles
  BY DEF Settle, TypeOK
<1> QED
  BY <1>1, <1>2, <1>3

LEMMA BoundToType ==
    ASSUME TypeOK, NEW r \in Roles
    PROVE  BoundTo(r) \in SUBSET ServiceAccounts
<1> SUFFICES ASSUME NEW b \in Bindings, bindings[b] # None
             PROVE  bindings[b].sa \in ServiceAccounts
  BY DEF BoundTo
<1> QED
  BY DEF TypeOK, IamRoleBindings

LEMMA NextAttachmentType ==
    ASSUME NEW v \in Workers, v.cur \in Roles
    PROVE  /\ WorkerOK(NextAttachment(v))
           /\ NextAttachment(v).pc \in {"attach", "detach", "patchArn", "bindGet"}
           /\ NextAttachment(v).cur = v.cur
  BY DEF NextAttachment, WorkerOK, Workers, Calls

LEMMA AfterBindType ==
    ASSUME NEW v \in Workers, v.cur \in Roles
    PROVE  /\ WorkerOK(AfterBind(v))
           /\ AfterBind(v).pc \in {"patchBound", "idle"}
           /\ AfterBind(v).pc # "idle" => AfterBind(v).cur = v.cur
  BY IdleOK DEF AfterBind, WorkerOK, Workers, Calls, Idle

LEMMA GotoType ==
    ASSUME w \in Workers, w.cur \in Roles, NEW pc \in Calls
    PROVE  /\ WorkerOK(Goto(pc))
           /\ Goto(pc) \in Workers
           /\ Goto(pc).pc = pc
           /\ Goto(pc).cur = w.cur
           /\ Goto(pc).inst = w.inst
  BY DEF Goto, WorkerOK, Workers, Calls

-----------------------------------------------------------------------------
(* Type correctness.                                                       *)

LEMMA TypeInit == Init => TypeOK
<1> SUFFICES ASSUME Init PROVE TypeOK
  OBVIOUS
<1>1. <<NoIamRole>> \in Versions(IamRoles)
  BY IamRoleTypes DEF Versions
<1>2. faults \in 0..MaxFaults
  BY MaxFaultsAssumption DEF Init
<1>3. WorkerOK(w)
  BY IdleOK DEF Init
<1> QED
  BY <1>1, <1>2, <1>3, UpstreamTypes
     DEF Init, TypeOK, WorkerOK, IamPolicies, IamRoleBindings

(* A step of the worker that makes a remote call.                          *)
LEMMA TypeReconcile ==
    ASSUME TypeOK, Reconcile
    PROVE  TypeOK'
<1>1. /\ w \in Workers /\ w.pc # "idle" /\ w.cur \in Roles
      /\ hist \in [Roles -> Versions(IamRoles)]
      /\ iam \in [Roles -> UpstreamRole]
      /\ Latest(hist[w.cur]) \in IamRoles
      /\ iam[w.cur] \in UpstreamRole
      /\ w.inst \in IamRoles /\ w.arn \in Owners /\ w.accounts \in SUBSET ServiceAccounts
      /\ w.trust \in TrustDoc
  BY VersionsExist DEF TypeOK, Reconcile, At, AddFinalizer, GetRole, CreateRole,
     CreateGet, List, Attach, Detach, PatchArn, BindGet, BindUpdate, BindConfirm,
     PatchBound, FinGet, FinDelete, RemoveFinalizer, Workers
<1> DEFINE Rest == /\ WorkerOK(w') /\ queue' \subseteq Roles
                   /\ faults' \in 0..MaxFaults
           Still == UNCHANGED <<upstream, policies, bindings>>
<1>2. ASSUME Rest, Still, hist' \in [Roles -> Versions(IamRoles)],
             iam' \in [Roles -> UpstreamRole]
      PROVE  TypeOK'
  BY <1>2 DEF TypeOK, WorkerOK
<1>3. CASE AddFinalizer
  <2>1. PICK out \in Outcomes(ApplyAccepted(Latest(hist[w.cur]), Finalizer)) :
          /\ IF TookEffect(out)
             THEN WriteIamRole(w.cur, Applied(Latest(hist[w.cur]), Finalizer))
             ELSE UNCHANGED hist
          /\ Settle(out, Goto("getRole"))
    BY <1>3 DEF AddFinalizer
  <2>2. Rest
    BY <2>1, <1>1, SettleType, GotoType DEF Calls
  <2>3. hist' \in [Roles -> Versions(IamRoles)]
    BY <2>1, <1>1, WriteType, IamRoleTypes
  <2> QED
    BY <2>2, <2>3, <1>1, <1>2, <1>3 DEF AddFinalizer
<1>4. CASE GetRole
  <2>1. WorkerOK([Goto("list") EXCEPT !.arn = iam[w.cur].owner])
    BY <1>1, GotoType, UpstreamTypes DEF WorkerOK, Workers, Calls
  <2>2. Rest
    BY <2>1, <1>1, <1>4, SettleType, GotoType DEF GetRole, Calls
  <2> QED
    BY <2>2, <1>1, <1>2, <1>4 DEF GetRole
<1>5. CASE CreateRole
  <2>1. Rest
    BY <1>1, <1>5, SettleType, GotoType DEF CreateRole, Calls
  <2>2. Created(iam[w.cur], "controller") \in UpstreamRole
    BY <1>1, UpstreamTypes DEF Owners
  <2> QED
    BY <2>1, <2>2, <1>1, <1>2, <1>5 DEF CreateRole
<1>6. CASE CreateGet
  <2>1. WorkerOK([Goto("list") EXCEPT !.arn = iam[w.cur].owner])
    BY <1>1, GotoType, UpstreamTypes DEF WorkerOK, Workers, Calls
  <2>2. Rest
    BY <2>1, <1>1, <1>6, SettleType DEF CreateGet
  <2> QED
    BY <2>2, <1>1, <1>2, <1>6 DEF CreateGet
<1>7. CASE List
  <2> DEFINE listed == ListAttached(iam[w.cur], upstream)
             v == [w EXCEPT !.todo = w.inst.refs \ listed,
                            !.extra = listed \ w.inst.refs]
  <2>1. v \in Workers /\ v.cur \in Roles
    BY <1>1 DEF ListAttached, Workers, IamRoles, UpstreamRole
  <2>2. WorkerOK(NextAttachment(v))
    BY <2>1, NextAttachmentType
  <2>3. Rest
    BY <2>2, <1>1, <1>7, SettleType DEF List
  <2> QED
    BY <2>3, <1>1, <1>2, <1>7 DEF List
<1>8. ASSUME NEW p \in Policies, Attach(p)
      PROVE  TypeOK'
  <2> DEFINE v == [w EXCEPT !.todo = @ \ {p}]
  <2>1. v \in Workers /\ v.cur \in Roles
    BY <1>1 DEF Workers
  <2>2. WorkerOK(w')
    BY <2>1, <1>8, NextAttachmentType DEF Attach
  <2>3. /\ iam' \in [Roles -> UpstreamRole]
        /\ faults' \in 0..MaxFaults
    BY <1>1, <1>8, UpstreamTypes, ChargeType DEF Attach, TypeOK
  <2> QED
    BY <2>2, <2>3, <1>1, <1>2, <1>8 DEF Attach, TypeOK
<1>9. ASSUME NEW p \in Policies, Detach(p)
      PROVE  TypeOK'
  <2> DEFINE v == [w EXCEPT !.extra = @ \ {p}]
  <2>1. v \in Workers /\ v.cur \in Roles
    BY <1>1 DEF Workers
  <2>2. WorkerOK(w')
    BY <2>1, <1>9, NextAttachmentType DEF Detach
  <2>3. /\ iam' \in [Roles -> UpstreamRole]
        /\ faults' \in 0..MaxFaults
    BY <1>1, <1>9, UpstreamTypes, ChargeType DEF Detach, TypeOK
  <2> QED
    BY <2>2, <2>3, <1>1, <1>2, <1>9 DEF Detach, TypeOK
<1>10. CASE PatchArn
  <2> DEFINE o == [Latest(hist[w.cur]) EXCEPT !.arn = w.arn]
  <2>1. o \in IamRoles
    BY <1>1, IamRoleTypes
  <2>2. WorkerOK([Goto("bindGet") EXCEPT !.inst = o])
    BY <2>1, <1>1, GotoType DEF WorkerOK, Workers, Calls
  <2>3. PICK out \in Outcomes(Present(o)) :
          /\ IF TookEffect(out) THEN WriteIamRole(w.cur, o) ELSE UNCHANGED hist
          /\ Settle(out, [Goto("bindGet") EXCEPT !.inst = o])
    BY <1>10 DEF PatchArn
  <2>4. Rest
    BY <2>2, <2>3, <1>1, SettleType
  <2>5. hist' \in [Roles -> Versions(IamRoles)]
    BY <2>1, <2>3, <1>1, WriteType
  <2> QED
    BY <2>4, <2>5, <1>1, <1>2, <1>10 DEF PatchArn
<1>11. CASE BindGet
  <2> DEFINE v == [w EXCEPT !.accounts = BoundTo(w.cur), !.trust = iam[w.cur].trust]
             u == [v EXCEPT !.pc = "bindUpdate"]
  <2>1. v \in Workers /\ v.cur \in Roles
    BY <1>1, BoundToType, UpstreamTypes DEF Workers
  <2>2. WorkerOK(u) /\ WorkerOK(AfterBind(v))
    BY <2>1, AfterBindType DEF WorkerOK, Workers, Calls
  <2>3. PICK out \in Outcomes(Exists(iam[w.cur]) /\ Decodable(iam[w.cur].trust)) :
          Settle(out, IF NeedsUpdate(v.trust, v.accounts) THEN u ELSE AfterBind(v))
    BY <1>11 DEF BindGet
  <2>4. Rest
    BY <2>2, <2>3, <1>1, SettleType
  <2> QED
    BY <2>4, <1>1, <1>2, <1>11 DEF BindGet
<1>12. CASE BindUpdate
  <2>1. Rest
    BY <1>1, <1>12, SettleType, GotoType DEF BindUpdate, Calls
  <2>2. WithTrust(iam[w.cur], Edited(w.trust, w.accounts)) \in UpstreamRole
    BY <1>1, EditedType, UpstreamTypes
  <2> QED
    BY <2>1, <2>2, <1>1, <1>2, <1>12 DEF BindUpdate
<1>13. CASE BindConfirm
  <2>1. Rest
    BY <1>1, <1>13, SettleType, AfterBindType DEF BindConfirm
  <2> QED
    BY <2>1, <1>1, <1>2, <1>13 DEF BindConfirm
<1>14. CASE PatchBound
  <2> DEFINE o == [Latest(hist[w.cur]) EXCEPT !.bsas = w.accounts]
  <2>1. o \in IamRoles
    BY <1>1, IamRoleTypes
  <2>2. PICK out \in Outcomes(Present(o)) :
          /\ IF TookEffect(out) THEN WriteIamRole(w.cur, o) ELSE UNCHANGED hist
          /\ Charge(out)
    BY <1>14 DEF PatchBound
  <2>3. faults' \in 0..MaxFaults
    BY <2>2, ChargeType DEF TypeOK
  <2>4. hist' \in [Roles -> Versions(IamRoles)]
    BY <2>1, <2>2, <1>1, WriteType
  <2> QED
    BY <2>3, <2>4, <1>1, <1>2, <1>14, IdleOK DEF PatchBound, TypeOK
<1>15. WorkerOK(AfterFinalize)
  BY <1>1, IdleOK, GotoType DEF AfterFinalize, Calls
<1>16. CASE FinGet
  <2>1. Rest
    BY <1>1, <1>15, <1>16, SettleType, GotoType DEF FinGet, Calls
  <2> QED
    BY <2>1, <1>1, <1>2, <1>16 DEF FinGet
<1>17. CASE FinDelete
  <2>1. Rest
    BY <1>1, <1>15, <1>17, SettleType DEF FinDelete
  <2> QED
    BY <2>1, <1>1, <1>2, <1>17, UpstreamTypes DEF FinDelete
<1>18. CASE RemoveFinalizer
  <2> DEFINE fins == w.inst.fins \ {Finalizer}
             o == Latest(hist[w.cur])
  <2>1. WithFinalizers(o, fins, NoIamRole) \in IamRoles
    BY <1>1, IamRoleTypes
  <2>2. PICK out \in Outcomes(FinalizersAccepted(o, fins)) :
          /\ IF TookEffect(out)
             THEN WriteIamRole(w.cur, WithFinalizers(o, fins, NoIamRole))
             ELSE UNCHANGED hist
          /\ Settle(out, Idle)
    BY <1>18 DEF RemoveFinalizer
  <2>3. Rest
    BY <2>2, <1>1, SettleType, IdleOK
  <2>4. hist' \in [Roles -> Versions(IamRoles)]
    BY <2>1, <2>2, <1>1, WriteType
  <2> QED
    BY <2>3, <2>4, <1>1, <1>2, <1>18 DEF RemoveFinalizer
<1> QED
  BY <1>3, <1>4, <1>5, <1>6, <1>7, <1>8, <1>9, <1>10, <1>11, <1>12, <1>13,
     <1>14, <1>16, <1>17, <1>18 DEF Reconcile

(* A step of anyone else.                                                  *)
LEMMA TypeUsers ==
    ASSUME TypeOK, Users
    PROVE  TypeOK'
<1>1. /\ hist \in [Roles -> Versions(IamRoles)]
      /\ \A r \in Roles : Latest(hist[r]) \in IamRoles
  BY VersionsExist DEF TypeOK
<1>2. ASSUME NEW r \in Roles, NEW o \in IamRoles, UserWrites(r, o)
      PROVE  TypeOK'
  <2>1. hist' \in [Roles -> Versions(IamRoles)]
    BY <1>1, <1>2, WriteType DEF UserWrites
  <2> QED
    BY <1>2, <2>1 DEF TypeOK, UserWrites
<1>3. ASSUME NEW r \in Roles, NEW fins \in SUBSET ForeignFinalizers,
             NEW refs \in SUBSET Policies, CreateIamRole(r, fins, refs)
      PROVE  TypeOK'
  <2>1. [NoIamRole EXCEPT !.phase = "live", !.fins = fins, !.refs = refs] \in IamRoles
    BY IamRoleTypes DEF IamRoles, Phases, Finalizers
  <2> QED
    BY <1>2, <1>3, <2>1 DEF CreateIamRole
<1>4. ASSUME NEW r \in Roles, DeleteIamRole(r)
      PROVE  TypeOK'
  BY <1>1, <1>2, <1>4, IamRoleTypes DEF DeleteIamRole
<1>5. ASSUME NEW r \in Roles, NEW refs \in SUBSET Policies, SetPolicyRefs(r, refs)
      PROVE  TypeOK'
  BY <1>1, <1>2, <1>5, IamRoleTypes DEF SetPolicyRefs
<1>6. ASSUME NEW r \in Roles, NEW f \in ForeignFinalizers, ReleaseFinalizer(r, f)
      PROVE  TypeOK'
  <2> DEFINE o == Latest(hist[r])
  <2>1. o.fins \ {f} \in SUBSET Finalizers
    BY <1>1, IamRoleTypes
  <2>2. WithFinalizers(o, o.fins \ {f}, NoIamRole) \in IamRoles
    BY <2>1, <1>1, IamRoleTypes
  <2> QED
    BY <1>2, <1>6, <2>2 DEF ReleaseFinalizer
<1> QED
  BY <1>3, <1>4, <1>5, <1>6 DEF Users

LEMMA TypeManager ==
    ASSUME TypeOK, Manager
    PROVE  TypeOK'
<1>1. ASSUME NEW r \in Roles, Sync(r)
      PROVE  TypeOK'
  <2>1. Delivered(hist[r]) \in Versions(IamRoles)
    BY <1>1, DeliveredVersions DEF TypeOK, Sync
  <2> QED
    BY <1>1, <2>1 DEF TypeOK, Sync
<1>2. ASSUME Resync
      PROVE  TypeOK'
  BY <1>2 DEF TypeOK, Resync
<1>3. ASSUME Restart
      PROVE  TypeOK'
  <2>1. \A r \in Roles : Relisted(hist[r]) \in Versions(IamRoles)
    BY RelistedVersions DEF TypeOK
  <2>2. faults' \in 0..MaxFaults
    BY <1>3, MaxFaultsAssumption DEF TypeOK, Restart
  <2> QED
    BY <1>3, <2>1, <2>2, IdleOK DEF TypeOK, Restart, WorkerOK
<1>4. ASSUME NEW b \in Bindings, NEW new \in IamRoleBindings, BindingEvent(b, new)
      PROVE  TypeOK'
  <2>1. {v.role : v \in {bindings[b], new} \ {None}} \subseteq Roles
    BY DEF TypeOK, IamRoleBindings
  <2> QED
    BY <1>4, <2>1 DEF TypeOK, BindingEvent
<1>5. ASSUME NEW p \in Policies, NEW new \in IamPolicies, PolicySeen(p, new)
      PROVE  TypeOK'
  <2>1. policies[p].roles \subseteq Roles /\ new.roles \subseteq Roles
    BY DEF TypeOK, IamPolicies
  <2> QED
    BY <1>5, <2>1 DEF TypeOK, PolicySeen
<1> QED
  BY <1>1, <1>2, <1>3, <1>4, <1>5 DEF Manager

LEMMA TypeAws ==
    ASSUME TypeOK, Aws
    PROVE  TypeOK'
<1>1. ASSUME NEW r \in Roles, NEW i \in UpstreamRole, Interferes(r, i)
      PROVE  TypeOK'
  <2>1. faults' \in 0..MaxFaults
    BY <1>1, MaxFaultsAssumption DEF TypeOK, Interferes
  <2> QED
    BY <1>1, <2>1 DEF TypeOK, Interferes
<1>2. ASSUME NEW r \in Roles
      PROVE  iam[r] \in UpstreamRole
  BY DEF TypeOK
<1>3. ASSUME NEW r \in Roles, ExternalCreate(r)
      PROVE  TypeOK'
  BY <1>1, <1>2, <1>3, UpstreamTypes DEF ExternalCreate, Owners
<1>4. ASSUME NEW r \in Roles, ExternalDelete(r)
      PROVE  TypeOK'
  BY <1>1, <1>2, <1>4, UpstreamTypes DEF ExternalDelete
<1>5. ASSUME NEW r \in Roles, NEW f \in ForeignTrust, ExternalTrust(r, f)
      PROVE  TypeOK'
  <2>1. [iam[r].trust EXCEPT !.foreign = f] \in TrustDoc
    BY <1>2, UpstreamTypes, RoleControllerAssumption DEF TrustDoc
  <2> QED
    BY <2>1, <1>1, <1>2, <1>5, UpstreamTypes DEF ExternalTrust
<1>6. ASSUME NEW new \in SUBSET Policies, UpstreamPolicy(new)
      PROVE  TypeOK'
  BY <1>6 DEF TypeOK, UpstreamPolicy
<1> QED
  BY <1>3, <1>4, <1>5, <1>6 DEF Aws

LEMMA TypeStep == TypeOK /\ [Next]_vars => TypeOK'
<1> SUFFICES ASSUME TypeOK, [Next]_vars PROVE TypeOK'
  OBVIOUS
<1>1. ASSUME NEW r \in Roles, Start(r)
      PROVE  TypeOK'
  <2>1. Cached(hist[r]) \in IamRoles
    BY VersionsExist DEF TypeOK
  <2>2. WorkerOK([Idle EXCEPT !.pc = FirstCall(Cached(hist[r])), !.cur = r,
                              !.inst = Cached(hist[r])])
    BY <2>1, IdleOK DEF WorkerOK, Workers, FirstCall, Calls
  <2>3. WorkerOK(w')
    BY <1>1, <2>2, IdleOK DEF Start
  <2> QED
    BY <1>1, <2>3 DEF TypeOK, Start, WorkerOK
<1>2. CASE UNCHANGED vars
  BY <1>2 DEF vars, TypeOK
<1> QED
  BY <1>1, <1>2, TypeReconcile, TypeManager, TypeUsers, TypeAws DEF Next

(* Every variable of the controller keeps its type.                        *)
THEOREM TypeCorrect == Spec => []TypeOK
  BY TypeInit, TypeStep, PTL DEF Spec

(* The worker and the users write to the API server only, so what other    *)
(* reconcilers read of a role in the cache changes by Sync and Restart.    *)
LEMMA CacheStays ==
    ASSUME TypeOK, Reconcile \/ Users, NEW r \in Roles
    PROVE  Cached(hist'[r]) = Cached(hist[r])
<1>1. CASE UNCHANGED hist
  BY <1>1
<1>2. ASSUME NEW q \in Roles, NEW o, WriteIamRole(q, o)
      PROVE  Cached(hist'[r]) = Cached(hist[r])
  BY <1>2, CachedWritten DEF TypeOK, WriteIamRole
<1>3. CASE Reconcile
  <2>1. w.cur \in Roles
    BY <1>3 DEF TypeOK, Reconcile, At, AddFinalizer, GetRole, CreateRole, CreateGet,
       List, Attach, Detach, PatchArn, BindGet, BindUpdate, BindConfirm, PatchBound,
       FinGet, FinDelete, RemoveFinalizer
  <2>2. UNCHANGED hist \/ \E o : WriteIamRole(w.cur, o)
    BY <1>3 DEF Reconcile, AddFinalizer, GetRole, CreateRole, CreateGet, List,
       Attach, Detach, PatchArn, BindGet, BindUpdate, BindConfirm, PatchBound,
       FinGet, FinDelete, RemoveFinalizer
  <2> QED
    BY <1>1, <1>2, <2>1, <2>2
<1>4. CASE Users
  <2>1. \E q \in Roles : \E o : WriteIamRole(q, o)
    BY <1>4 DEF Users, CreateIamRole, DeleteIamRole, SetPolicyRefs, ReleaseFinalizer,
       UserWrites
  <2> QED
    BY <1>2, <2>1
<1> QED
  BY <1>3, <1>4

-----------------------------------------------------------------------------
(* The inductive invariant.                                                *)

(* What most steps do to the histories: they stay orderly, and what the    *)
(* worker knows about them stays true.                                     *)
Preserves ==
    \A q \in Roles :
        /\ Orderly(hist'[q], Finalizer)
        /\ Kept(hist[q], Finalizer) => Kept(hist'[q], Finalizer)
        /\ Dying(hist[q], Finalizer) => Dying(hist'[q], Finalizer)
        /\ Own(Latest(hist[q])) => Own(Latest(hist'[q]))

(* Nobody but the worker makes a role that belongs to the controller.      *)
NoNewRole == \A q \in Roles : iam'[q].owner = "controller" => iam[q].owner = "controller"

LEMMA OwnIsPresent ==
    ASSUME NEW h \in Versions(IamRoles), Orderly(h, Finalizer), Own(Latest(h))
    PROVE  Present(Latest(h))
<1>1. Len(h) \in 1..Len(h)
  BY VersionsExist
<1> QED
  BY <1>1 DEF Orderly, Own, Latest

LEMMA UnchangedPreserves ==
    ASSUME IInv, UNCHANGED hist
    PROVE  Preserves
  BY DEF IInv, Preserves

(* A write that keeps the finalizer as it is, and that does not revive.    *)
LEMMA KeepingPreserves ==
    ASSUME IInv, NEW r \in Roles, NEW o \in IamRoles, WriteIamRole(r, o),
           Own(o) <=> Own(Latest(hist[r])),
           Own(o) => Present(o),
           DeletingWith(Latest(hist[r]), Finalizer) => ~Live(o)
    PROVE  Preserves
<1>1. /\ hist \in [Roles -> Versions(IamRoles)]
      /\ Orderly(hist[r], Finalizer)
      /\ \A x \in IamRoles : x.phase \in Phases
  BY IamRoleTypes DEF IInv, TypeOK
<1>2. /\ hist'[r] = Written(hist[r], o)
      /\ \A q \in Roles \ {r} : hist'[q] = hist[q]
  BY <1>1, WriteType
<1>3. /\ Orderly(Written(hist[r], o), Finalizer)
      /\ Kept(hist[r], Finalizer) => Kept(Written(hist[r], o), Finalizer)
      /\ Dying(hist[r], Finalizer) => Dying(Written(hist[r], o), Finalizer)
  BY <1>1, WriteKeeping DEF Own, LiveWith
<1>4. Latest(Written(hist[r], o)) = o
  BY <1>1, WrittenVersions
<1> QED
  BY <1>2, <1>3, <1>4 DEF Preserves, IInv

(* A step of someone else.                                                 *)
LEMMA OthersStep ==
    ASSUME IInv, TypeOK', Preserves, NoNewRole, UNCHANGED w
    PROVE  IInv'
<1>1. NoOrphan'
  BY OwnIsPresent DEF IInv, Preserves, NoNewRole, NoOrphan, TypeOK
<1>2. WorkerKnows'
  <2>1. CASE w.pc = "idle"
    BY <2>1 DEF WorkerKnows, At, Provisioning, Finalizing, Calls
  <2>2. CASE w.pc # "idle"
    <3>1. w.cur \in Roles
      BY <2>2 DEF IInv, TypeOK
    <3> QED
      BY <3>1 DEF IInv, Preserves, NoNewRole, WorkerKnows, At
  <2> QED
    BY <2>1, <2>2
<1> QED
  BY <1>1, <1>2 DEF IInv, Preserves

(* A step from a call that provisions to the next, or to the end.          *)
LEMMA ProvisioningStep ==
    ASSUME IInv, TypeOK', Preserves, w.pc \in Provisioning, w.cur \in Roles,
           w' = Idle \/ (w'.pc \in Provisioning /\ w'.cur = w.cur),
           \A q \in Roles \ {w.cur} :
              iam'[q].owner = "controller" => iam[q].owner = "controller"
    PROVE  IInv'
<1>1. Own(Latest(hist[w.cur])) /\ Own(Latest(hist'[w.cur]))
  BY DEF IInv, WorkerKnows, Preserves
<1>2. NoOrphan'
  BY <1>1, OwnIsPresent DEF IInv, Preserves, NoOrphan, TypeOK
<1>3. WorkerKnows'
  BY <1>1 DEF WorkerKnows, At, Provisioning, Finalizing, Calls, Idle
<1> QED
  BY <1>2, <1>3 DEF IInv, Preserves

(* A step of Finalize.                                                     *)
LEMMA FinalizingStep ==
    ASSUME IInv, TypeOK', UNCHANGED hist, w.pc \in {"finGet", "finDelete"},
           w.cur \in Roles,
           \/ w' = Idle
           \/ /\ w'.pc \in {"finDelete", "removeFinalizer"}
              /\ w'.cur = w.cur /\ w'.inst = w.inst
              /\ w'.pc = "removeFinalizer" =>
                    Own(w.inst) /\ iam'[w.cur].owner # "controller",
           NoNewRole
    PROVE  IInv'
<1>1. Preserves
  BY UnchangedPreserves
<1>2. NoOrphan'
  BY <1>1, OwnIsPresent DEF IInv, Preserves, NoOrphan, NoNewRole, TypeOK
<1>3. WorkerKnows'
  BY DEF IInv, WorkerKnows, At, Provisioning, Finalizing, Calls, Idle
<1> QED
  BY <1>1, <1>2, <1>3 DEF IInv, Preserves

LEMMA InvInit == Init => IInv
<1> SUFFICES ASSUME Init PROVE IInv
  OBVIOUS
<1>1. TypeOK
  BY TypeInit
<1>2. ~Own(NoIamRole)
  BY DEF Own, ContainsFinalizer, NoIamRole
<1>3. Orderly(<<NoIamRole>>, Finalizer)
  <2>1. Len(<<NoIamRole>>) = 1 /\ <<NoIamRole>>[1] = NoIamRole /\ \A i \in 1..1 : i = 1
    OBVIOUS
  <2> QED
    BY <1>2, <2>1 DEF Orderly, DeletingWith, Own
<1>4. NoOrphan
  BY DEF Init, NoOrphan, NoUpstreamRole
<1>5. WorkerKnows
  BY DEF Init, WorkerKnows, At, Provisioning, Finalizing, Calls, Idle
<1> QED
  BY <1>1, <1>3, <1>4, <1>5 DEF IInv, Init

(* The worker starts on what the cache shows.                              *)
LEMMA InvStart ==
    ASSUME IInv, TypeOK', NEW r \in Roles, Start(r)
    PROVE  IInv'
<1>1. UNCHANGED <<hist, iam>>
  BY DEF Start
<1>2. /\ hist[r] \in Versions(IamRoles) /\ Orderly(hist[r], Finalizer)
      /\ \A o \in IamRoles : o.phase \in Phases
      /\ Cached(hist[r]) \in IamRoles
  BY IamRoleTypes, VersionsExist DEF IInv, TypeOK
<1>3. NoOrphan' /\ \A q \in Roles : Orderly(hist'[q], Finalizer)
  BY <1>1 DEF IInv, NoOrphan
<1>4. CASE w' = Idle
  BY <1>3, <1>4 DEF IInv, WorkerKnows, At, Provisioning, Finalizing, Calls, Idle
<1>5. CASE w' # Idle
  <2> DEFINE o == Cached(hist[r])
  <2>1. /\ w' = [Idle EXCEPT !.pc = FirstCall(o), !.cur = r, !.inst = o]
        /\ Present(o)
    BY <1>5 DEF Start
  <2>2. w'.pc = FirstCall(o) /\ w'.cur = r /\ w'.inst = o
    BY <2>1 DEF Idle
  <2>3. CASE Deleting(o)
    <3>1. w'.pc = "finGet"
      BY <2>2, <2>3 DEF FirstCall
    <3>2. Own(o) => Dying(hist[r], Finalizer)
      BY <1>2, <2>3, CachedDeletingWith DEF DeletingWith, Own
    <3>3. WorkerKnows'
      BY <1>1, <2>2, <3>1, <3>2
         DEF WorkerKnows, At, Provisioning, Finalizing, Calls
    <3> QED
      BY <1>3, <3>3 DEF IInv
  <2>4. CASE ~Deleting(o)
    <3>1. Live(o)
      BY <1>2, <2>1, <2>4 DEF Live, Deleting, Present, Phases
    <3>2. CASE Own(o)
      <4>1. w'.pc = "getRole"
        BY <2>2, <2>4, <3>2 DEF FirstCall
      <4>2. Own(Latest(hist[r]))
        BY <1>2, <3>1, <3>2, CachedLiveWith DEF LiveWith, Own
      <4>3. WorkerKnows'
        BY <1>1, <2>2, <4>1, <4>2
           DEF WorkerKnows, At, Provisioning, Finalizing, Calls
      <4> QED
        BY <1>3, <4>3 DEF IInv
    <3>3. CASE ~Own(o)
      <4>1. w'.pc = "addFinalizer"
        BY <2>2, <2>4, <3>3 DEF FirstCall
      <4>2. Kept(hist[r], Finalizer)
        BY <1>2, <3>1, CachedLiveWithout
      <4>3. WorkerKnows'
        BY <1>1, <2>2, <4>1, <4>2
           DEF WorkerKnows, At, Provisioning, Finalizing, Calls
      <4> QED
        BY <1>3, <4>3 DEF IInv
    <3> QED
      BY <3>2, <3>3
  <2> QED
    BY <2>3, <2>4
<1> QED
  BY <1>4, <1>5

(* The finalizer is in place before anything is created.                   *)
LEMMA InvAddFinalizer ==
    ASSUME IInv, TypeOK', AddFinalizer
    PROVE  IInv'
<1> DEFINE o == Latest(hist[w.cur])
           new == Applied(o, Finalizer)
<1>1. PICK out \in Outcomes(ApplyAccepted(o, Finalizer)) :
        /\ IF TookEffect(out) THEN WriteIamRole(w.cur, new) ELSE UNCHANGED hist
        /\ Settle(out, Goto("getRole"))
  BY DEF AddFinalizer
<1>2. /\ w \in Workers /\ w.cur \in Roles /\ w.pc = "addFinalizer"
      /\ hist \in [Roles -> Versions(IamRoles)]
      /\ o \in IamRoles /\ new \in IamRoles
      /\ Orderly(hist[w.cur], Finalizer) /\ Kept(hist[w.cur], Finalizer)
      /\ UNCHANGED iam
  BY VersionsExist, IamRoleTypes
     DEF IInv, TypeOK, AddFinalizer, At, WorkerKnows
<1>3. w' = Idle \/ (w'.pc = "getRole" /\ w'.cur = w.cur /\ TookEffect(out))
  BY <1>1, <1>2, GotoType DEF Settle, TookEffect, Calls
<1>4. CASE ~TookEffect(out)
  <2>1. UNCHANGED hist /\ w' = Idle
    BY <1>1, <1>3, <1>4
  <2> QED
    BY <1>2, <2>1 DEF IInv, NoOrphan, WorkerKnows, At, Provisioning, Finalizing,
                      Calls, Idle
<1>5. CASE TookEffect(out)
  <2>1. WriteIamRole(w.cur, new) /\ ApplyAccepted(o, Finalizer)
    BY <1>1, <1>5 DEF Outcomes, TookEffect
  <2>2. Own(new) /\ Present(new)
    BY <1>2, <2>1
       DEF Applied, Own, ContainsFinalizer, Present, IamRoles
  <2>3. Orderly(Written(hist[w.cur], new), Finalizer)
    <3>1. CASE Own(o)
      <4>1. DeletingWith(o, Finalizer) => ~LiveWith(new, Finalizer)
        BY <1>2, <3>1, OwnIsPresent
           DEF Applied, DeletingWith, LiveWith, Deleting, Live, Present, IamRoles
      <4> QED
        BY <1>2, <2>2, <3>1, <4>1, WriteKeeping, IamRoleTypes DEF Own
    <3>2. CASE ~Own(o)
      <4>1. Live(new)
        BY <1>2, <2>1, <3>2
           DEF ApplyAccepted, Applied, Own, Deleting, Live, Present, IamRoles, Phases
      <4> QED
        BY <1>2, <2>2, <3>2, <4>1, WriteAdding DEF Own, LiveWith
    <3> QED
      BY <3>1, <3>2
  <2>4. /\ hist'[w.cur] = Written(hist[w.cur], new)
        /\ \A q \in Roles \ {w.cur} : hist'[q] = hist[q]
        /\ Latest(hist'[w.cur]) = new
    BY <1>2, <2>1, WriteType, WrittenVersions
  <2>5. \A q \in Roles : Orderly(hist'[q], Finalizer)
    BY <2>3, <2>4 DEF IInv
  <2>6. NoOrphan'
    BY <1>2, <2>2, <2>4 DEF IInv, NoOrphan
  <2>7. WorkerKnows'
    BY <1>3, <2>2, <2>4
       DEF WorkerKnows, At, Provisioning, Finalizing, Calls, Idle
  <2> QED
    BY <2>5, <2>6, <2>7 DEF IInv
<1> QED
  BY <1>4, <1>5

(* The finalizer goes after the role in IAM has.                           *)
LEMMA InvRemoveFinalizer ==
    ASSUME IInv, TypeOK', RemoveFinalizer
    PROVE  IInv'
<1> DEFINE o == Latest(hist[w.cur])
           fins == w.inst.fins \ {Finalizer}
           new == WithFinalizers(o, fins, NoIamRole)
<1>1. PICK out \in Outcomes(FinalizersAccepted(o, fins)) :
        /\ IF TookEffect(out) THEN WriteIamRole(w.cur, new) ELSE UNCHANGED hist
        /\ Settle(out, Idle)
  BY DEF RemoveFinalizer
<1>2. /\ w \in Workers /\ w.cur \in Roles /\ w.pc = "removeFinalizer"
      /\ hist \in [Roles -> Versions(IamRoles)]
      /\ o \in IamRoles /\ w.inst \in IamRoles
      /\ Orderly(hist[w.cur], Finalizer) /\ Dying(hist[w.cur], Finalizer)
      /\ iam[w.cur].owner # "controller"
      /\ UNCHANGED iam
  BY VersionsExist
     DEF IInv, TypeOK, Workers, RemoveFinalizer, At, WorkerKnows, Finalizing
<1>3. w' = Idle
  BY <1>1 DEF Settle
<1>4. WorkerKnows'
  BY <1>3 DEF WorkerKnows, At, Provisioning, Finalizing, Calls, Idle
<1>5. CASE ~TookEffect(out)
  BY <1>1, <1>2, <1>4, <1>5 DEF IInv, NoOrphan
<1>6. CASE TookEffect(out)
  <2>1. new \in IamRoles
    BY <1>2, IamRoleTypes
  <2>2. ~Own(new)
    BY <1>2 DEF WithFinalizers, Own, ContainsFinalizer, NoIamRole, IamRoles
  <2>3. Orderly(Written(hist[w.cur], new), Finalizer)
    BY <1>2, <2>1, <2>2, WriteRemoving DEF Own
  <2>4. /\ hist'[w.cur] = Written(hist[w.cur], new)
        /\ \A q \in Roles \ {w.cur} : hist'[q] = hist[q]
    BY <1>1, <1>2, <1>6, <2>1, WriteType
  <2>5. \A q \in Roles : Orderly(hist'[q], Finalizer)
    BY <2>3, <2>4 DEF IInv
  <2>6. NoOrphan'
    BY <1>2, <2>4 DEF IInv, NoOrphan
  <2> QED
    BY <1>4, <2>5, <2>6 DEF IInv
<1> QED
  BY <1>5, <1>6

(* The worker goes on provisioning the same object, or ends.               *)
Continues(v) == v = Idle \/ (v.pc \in Provisioning /\ v.cur = w.cur)

LEMMA ContinuesTypes ==
    ASSUME w \in Workers, w.cur \in Roles
    PROVE  /\ Continues(Idle)
           /\ \A pc \in Provisioning : Continues(Goto(pc))
           /\ \A arn \in Owners : Continues([Goto("list") EXCEPT !.arn = arn])
           /\ \A o \in IamRoles : Continues([Goto("bindGet") EXCEPT !.inst = o])
           /\ \A v \in Workers : v.cur = w.cur => Continues(NextAttachment(v))
           /\ \A v \in Workers : v.cur = w.cur => Continues(AfterBind(v))
<1>1. \A pc \in Provisioning : Continues(Goto(pc))
  BY GotoType DEF Continues, Provisioning
<1>2. \A v \in Workers : v.cur = w.cur => Continues(NextAttachment(v))
  <2> SUFFICES ASSUME NEW v \in Workers, v.cur = w.cur
               PROVE  Continues(NextAttachment(v))
    OBVIOUS
  <2>1. /\ NextAttachment(v).pc \in {"attach", "detach", "patchArn", "bindGet"}
        /\ NextAttachment(v).cur = w.cur
    BY NextAttachmentType
  <2> QED
    BY <2>1 DEF Continues, Provisioning, Calls
<1>3. \A v \in Workers : v.cur = w.cur => Continues(AfterBind(v))
  BY DEF Continues, AfterBind, Provisioning, Calls, Workers
<1> QED
  BY <1>1, <1>2, <1>3 DEF Continues, Goto, Workers, Provisioning, Calls

(* The calls from GetRole to PatchBound.                                   *)
ProvisioningCall ==
    \/ GetRole \/ CreateRole \/ CreateGet \/ List
    \/ \E p \in Policies : Attach(p) \/ Detach(p)
    \/ PatchArn \/ BindGet \/ BindUpdate \/ BindConfirm \/ PatchBound

LEMMA ProvisioningTypes ==
    ASSUME IInv, ProvisioningCall
    PROVE  /\ w \in Workers /\ w.pc \in Provisioning /\ w.cur \in Roles
           /\ iam \in [Roles -> UpstreamRole] /\ iam[w.cur] \in UpstreamRole
           /\ hist \in [Roles -> Versions(IamRoles)]
           /\ Latest(hist[w.cur]) \in IamRoles
           /\ w.inst \in IamRoles
           /\ w.accounts \in SUBSET ServiceAccounts /\ w.arn \in Owners
           /\ w.todo \in SUBSET Policies /\ w.extra \in SUBSET Policies
  BY VersionsExist
     DEF IInv, TypeOK, Workers, At, Provisioning, Calls, ProvisioningCall, GetRole,
         CreateRole, CreateGet, List, Attach, Detach, PatchArn, BindGet, BindUpdate,
         BindConfirm, PatchBound

LEMMA ProvisioningContinues ==
    ASSUME IInv, ProvisioningCall
    PROVE  Continues(w')
<1>1. /\ w \in Workers /\ w.cur \in Roles /\ w.inst \in IamRoles
      /\ iam[w.cur].owner \in Owners /\ iam[w.cur] \in UpstreamRole
      /\ Latest(hist[w.cur]) \in IamRoles /\ w.arn \in Owners
  BY ProvisioningTypes, UpstreamTypes
<1>2. ASSUME NEW out, NEW next, Settle(out, next), Continues(next)
      PROVE  Continues(w')
  BY <1>2 DEF Settle, Continues
<1>3. CASE GetRole
  <2>1. PICK next : /\ \E out : Settle(out, next)
                    /\ next = Goto("createRole")
                       \/ next = [Goto("list") EXCEPT !.arn = iam[w.cur].owner]
    BY <1>3 DEF GetRole
  <2> QED
    BY <1>1, <1>2, <2>1, ContinuesTypes DEF Provisioning, Calls
<1>4. CASE CreateRole
  <2>1. \E out : Settle(out, Goto("createGet"))
    BY <1>4 DEF CreateRole
  <2> QED
    BY <1>1, <1>2, <2>1, ContinuesTypes DEF Provisioning, Calls
<1>5. CASE CreateGet
  <2>1. \E out : Settle(out, [Goto("list") EXCEPT !.arn = iam[w.cur].owner])
    BY <1>5 DEF CreateGet
  <2> QED
    BY <1>1, <1>2, <2>1, ContinuesTypes
<1>6. CASE List
  <2> DEFINE listed == ListAttached(iam[w.cur], upstream)
             v == [w EXCEPT !.todo = w.inst.refs \ listed,
                            !.extra = listed \ w.inst.refs]
  <2>1. \E out : Settle(out, NextAttachment(v))
    BY <1>6 DEF List
  <2>2. v \in Workers /\ v.cur = w.cur
    BY <1>1 DEF Workers, IamRoles, ListAttached, UpstreamRole
  <2> QED
    BY <1>1, <1>2, <2>1, <2>2, ContinuesTypes
<1>7. ASSUME NEW p \in Policies, Attach(p) \/ Detach(p)
      PROVE  Continues(w')
  <2>1. \/ w' = NextAttachment([w EXCEPT !.todo = w.todo \ {p}])
        \/ w' = NextAttachment([w EXCEPT !.extra = w.extra \ {p}])
    BY <1>7 DEF Attach, Detach
  <2>2. /\ [w EXCEPT !.todo = w.todo \ {p}] \in Workers
        /\ [w EXCEPT !.extra = w.extra \ {p}] \in Workers
        /\ [w EXCEPT !.todo = w.todo \ {p}].cur = w.cur
        /\ [w EXCEPT !.extra = w.extra \ {p}].cur = w.cur
    BY <1>1 DEF Workers
  <2> QED
    BY <1>1, <2>1, <2>2, ContinuesTypes
<1>8. CASE PatchArn
  <2> DEFINE new == [Latest(hist[w.cur]) EXCEPT !.arn = w.arn]
  <2>1. \E out : Settle(out, [Goto("bindGet") EXCEPT !.inst = new])
    BY <1>8 DEF PatchArn
  <2>2. new \in IamRoles
    BY <1>1, IamRoleTypes
  <2> QED
    BY <1>1, <1>2, <2>1, <2>2, ContinuesTypes
<1>9. CASE BindGet
  <2> DEFINE v == [w EXCEPT !.accounts = BoundTo(w.cur), !.trust = iam[w.cur].trust]
  <2>1. \E out : Settle(out, IF NeedsUpdate(v.trust, v.accounts)
                             THEN [v EXCEPT !.pc = "bindUpdate"] ELSE AfterBind(v))
    BY <1>9 DEF BindGet
  <2>2. v \in Workers /\ v.cur = w.cur
    BY <1>1, BoundToType, UpstreamTypes DEF IInv, Workers
  <2>3. Continues([v EXCEPT !.pc = "bindUpdate"])
    BY <2>2 DEF Continues, Workers, Provisioning, Calls
  <2>4. Continues(AfterBind(v))
    BY <1>1, <2>2, ContinuesTypes
  <2> QED
    BY <1>2, <2>1, <2>3, <2>4
<1>10. CASE BindUpdate
  <2>1. \E out : Settle(out, Goto("bindConfirm"))
    BY <1>10 DEF BindUpdate
  <2> QED
    BY <1>1, <1>2, <2>1, ContinuesTypes DEF Provisioning, Calls
<1>11. CASE BindConfirm
  <2>1. \E out : Settle(out, AfterBind(w))
    BY <1>11 DEF BindConfirm
  <2> QED
    BY <1>1, <1>2, <2>1, ContinuesTypes
<1>12. CASE PatchBound
  BY <1>12 DEF PatchBound, Continues
<1> QED
  BY <1>3, <1>4, <1>5, <1>6, <1>7, <1>8, <1>9, <1>10, <1>11, <1>12
     DEF ProvisioningCall

(* Only the status of the object changes on the way.                       *)
StatusWritten ==
    \/ UNCHANGED hist
    \/ \E o \in IamRoles :
          /\ WriteIamRole(w.cur, o) /\ Present(Latest(hist[w.cur]))
          /\ o.phase = Latest(hist[w.cur]).phase
          /\ o.fins = Latest(hist[w.cur]).fins

LEMMA ProvisioningWrites ==
    ASSUME IInv, ProvisioningCall
    PROVE  StatusWritten
<1> DEFINE o == Latest(hist[w.cur])
<1>1. o \in IamRoles /\ w.arn \in Owners /\ w.accounts \in SUBSET ServiceAccounts
  BY ProvisioningTypes
<1>2. ASSUME NEW new \in IamRoles, NEW out \in Outcomes(Present(new)),
             new.phase = o.phase, new.fins = o.fins,
             IF TookEffect(out) THEN WriteIamRole(w.cur, new) ELSE UNCHANGED hist
      PROVE  StatusWritten
  <2>1. TookEffect(out) => Present(o)
    BY <1>2 DEF Outcomes, TookEffect, Present
  <2> QED
    BY <1>2, <2>1 DEF StatusWritten
<1>3. CASE PatchArn
  <2> DEFINE new == [o EXCEPT !.arn = w.arn]
  <2>1. PICK out \in Outcomes(Present(new)) :
          IF TookEffect(out) THEN WriteIamRole(w.cur, new) ELSE UNCHANGED hist
    BY <1>3 DEF PatchArn
  <2>2. new \in IamRoles /\ new.phase = o.phase /\ new.fins = o.fins
    BY <1>1, IamRoleTypes DEF IamRoles
  <2> QED
    BY <1>2, <2>1, <2>2
<1>4. CASE PatchBound
  <2> DEFINE new == [o EXCEPT !.bsas = w.accounts]
  <2>1. PICK out \in Outcomes(Present(new)) :
          IF TookEffect(out) THEN WriteIamRole(w.cur, new) ELSE UNCHANGED hist
    BY <1>4 DEF PatchBound
  <2>2. new \in IamRoles /\ new.phase = o.phase /\ new.fins = o.fins
    BY <1>1, IamRoleTypes DEF IamRoles
  <2> QED
    BY <1>2, <2>1, <2>2
<1>5. CASE UNCHANGED hist
  BY <1>5 DEF StatusWritten
<1> QED
  BY <1>3, <1>4, <1>5
     DEF ProvisioningCall, GetRole, CreateRole, CreateGet, List, Attach, Detach,
         BindGet, BindUpdate, BindConfirm

(* The finalizer stays, so a role made on the way has its object.          *)
LEMMA InvProvisioning ==
    ASSUME IInv, TypeOK', ProvisioningCall
    PROVE  IInv'
<1>1. /\ w \in Workers /\ w.pc \in Provisioning /\ w.cur \in Roles
      /\ iam \in [Roles -> UpstreamRole]
      /\ hist \in [Roles -> Versions(IamRoles)]
      /\ Latest(hist[w.cur]) \in IamRoles
  BY ProvisioningTypes
<1>2. Continues(w')
  BY ProvisioningContinues
<1>3. Preserves
  <2>1. CASE UNCHANGED hist
    BY <2>1, UnchangedPreserves
  <2>2. ASSUME NEW o \in IamRoles, WriteIamRole(w.cur, o),
               Present(Latest(hist[w.cur])),
               o.phase = Latest(hist[w.cur]).phase, o.fins = Latest(hist[w.cur]).fins
        PROVE  Preserves
    BY <1>1, <2>2, KeepingPreserves
       DEF Own, ContainsFinalizer, DeletingWith, Deleting, Live, Present
  <2> QED
    BY <2>1, <2>2, ProvisioningWrites DEF StatusWritten
<1>4. \E i : iam' = iam \/ iam' = [iam EXCEPT ![w.cur] = i]
  BY DEF ProvisioningCall, GetRole, CreateRole, CreateGet, List, Attach, Detach,
         PatchArn, BindGet, BindUpdate, BindConfirm, PatchBound
<1>5. \A q \in Roles \ {w.cur} :
         iam'[q].owner = "controller" => iam[q].owner = "controller"
  BY <1>1, <1>4
<1> QED
  BY <1>1, <1>2, <1>3, <1>5, ProvisioningStep DEF Continues

(* Finalize: it only takes roles away.                                     *)
LEMMA InvFinalize ==
    ASSUME IInv, TypeOK', FinGet \/ FinDelete
    PROVE  IInv'
<1>1. /\ w \in Workers /\ w.pc \in {"finGet", "finDelete"} /\ w.cur \in Roles
      /\ iam \in [Roles -> UpstreamRole] /\ UNCHANGED hist
  BY DEF IInv, TypeOK, At, FinGet, FinDelete
<1>2. ASSUME NEW pc \in Calls
      PROVE  Goto(pc).pc = pc /\ Goto(pc).cur = w.cur /\ Goto(pc).inst = w.inst
  BY <1>1, GotoType
<1>3. /\ AfterFinalize = Idle
         \/ /\ AfterFinalize.pc = "removeFinalizer" /\ Own(w.inst)
            /\ AfterFinalize.cur = w.cur /\ AfterFinalize.inst = w.inst
  BY <1>2 DEF AfterFinalize, Calls
<1>4. CASE FinGet
  <2>1. UNCHANGED iam
    BY <1>4 DEF FinGet
  <2>2. \/ w' = Idle
        \/ w' = Goto("finDelete")
        \/ w' = AfterFinalize /\ ~Exists(iam[w.cur])
    BY <1>4 DEF FinGet, Settle
  <2>3. ~Exists(iam[w.cur]) => iam'[w.cur].owner # "controller"
    BY <2>1 DEF Exists
  <2>4. NoNewRole
    BY <2>1 DEF NoNewRole
  <2> QED
    BY <1>1, <1>2, <1>3, <2>2, <2>3, <2>4, FinalizingStep DEF Calls
<1>5. CASE FinDelete
  <2>1. PICK out \in Outcomes(DeleteAccepted(iam[w.cur])) :
          /\ iam' = IF TookEffect(out)
                    THEN [iam EXCEPT ![w.cur] = Removed(iam[w.cur])] ELSE iam
          /\ Settle(out, AfterFinalize)
    BY <1>5 DEF FinDelete
  <2>2. Removed(iam[w.cur]).owner = "none"
    BY <1>1 DEF Removed, UpstreamRole
  <2>3. NoNewRole
    BY <1>1, <2>1, <2>2 DEF NoNewRole
  <2>4. w' = Idle \/ (w' = AfterFinalize /\ iam'[w.cur].owner # "controller")
    BY <1>1, <2>1, <2>2 DEF Settle, TookEffect
  <2> QED
    BY <1>1, <1>3, <2>3, <2>4, FinalizingStep
<1> QED
  BY <1>4, <1>5

(* Users write what keeps the controller's finalizer as it is.             *)
LEMMA InvUsers ==
    ASSUME IInv, TypeOK', Users
    PROVE  IInv'
<1>1. \A r \in Roles : /\ Latest(hist[r]) \in IamRoles
                       /\ Own(Latest(hist[r])) => Present(Latest(hist[r]))
  BY VersionsExist, OwnIsPresent DEF IInv, TypeOK
<1>2. ~Own(NoIamRole) /\ NoIamRole \in IamRoles
  BY IamRoleTypes DEF Own, ContainsFinalizer, NoIamRole
<1>3. ASSUME NEW r \in Roles, NEW o \in IamRoles, UserWrites(r, o),
             Own(o) <=> Own(Latest(hist[r])),
             Own(o) => Present(o),
             DeletingWith(Latest(hist[r]), Finalizer) => ~Live(o)
      PROVE  IInv'
  <2>1. Preserves
    BY <1>3, KeepingPreserves DEF UserWrites
  <2>2. NoNewRole /\ UNCHANGED w
    BY <1>3 DEF UserWrites, NoNewRole
  <2> QED
    BY <2>1, <2>2, OthersStep
<1>4. ASSUME NEW r \in Roles, NEW fins \in SUBSET ForeignFinalizers,
             NEW refs \in SUBSET Policies, CreateIamRole(r, fins, refs)
      PROVE  IInv'
  <2> DEFINE o == [NoIamRole EXCEPT !.phase = "live", !.fins = fins, !.refs = refs]
  <2>1. o \in IamRoles
    BY <1>2 DEF IamRoles, Phases, Finalizers
  <2>2. ~Own(o)
    BY RoleControllerAssumption DEF Own, ContainsFinalizer, NoIamRole
  <2>3. ~Own(Latest(hist[r]))
    BY <1>1, <1>4 DEF CreateIamRole
  <2> QED
    BY <1>3, <1>4, <2>1, <2>2, <2>3 DEF CreateIamRole, DeletingWith, Own
<1>5. ASSUME NEW r \in Roles, DeleteIamRole(r)
      PROVE  IInv'
  <2> DEFINE o == Latest(hist[r])
             new == Deleted(o, NoIamRole)
  <2>1. new \in IamRoles /\ Live(o)
    BY <1>1, <1>5, IamRoleTypes DEF DeleteIamRole
  <2>2. Own(new) <=> Own(o)
    BY <1>1, <1>2 DEF Deleted, Own, ContainsFinalizer, IamRoles
  <2>3. Own(new) => Present(new)
    BY <1>1, <1>2 DEF Deleted, Present, IamRoles
  <2>4. ~DeletingWith(o, Finalizer)
    BY <2>1 DEF DeletingWith, Live, Deleting
  <2> QED
    BY <1>3, <1>5, <2>1, <2>2, <2>3, <2>4 DEF DeleteIamRole
<1>6. ASSUME NEW r \in Roles, NEW refs \in SUBSET Policies, SetPolicyRefs(r, refs)
      PROVE  IInv'
  <2> DEFINE o == Latest(hist[r])
             new == [o EXCEPT !.refs = refs]
  <2>1. /\ new \in IamRoles /\ Live(o)
        /\ new.fins = o.fins /\ new.phase = o.phase
    BY <1>1, <1>6, IamRoleTypes DEF SetPolicyRefs, IamRoles
  <2>2. ~DeletingWith(o, Finalizer)
    BY <2>1 DEF DeletingWith, Live, Deleting
  <2> QED
    BY <1>1, <1>3, <1>6, <2>1, <2>2 DEF SetPolicyRefs, Own, ContainsFinalizer, Present
<1>7. ASSUME NEW r \in Roles, NEW f \in ForeignFinalizers, ReleaseFinalizer(r, f)
      PROVE  IInv'
  <2> DEFINE o == Latest(hist[r])
             fins == o.fins \ {f}
             new == WithFinalizers(o, fins, NoIamRole)
  <2>1. f # Finalizer /\ fins \in SUBSET Finalizers
    BY <1>1, IamRoleTypes, RoleControllerAssumption
  <2>2. new \in IamRoles
    BY <1>1, <2>1, IamRoleTypes
  <2>3. Finalizer \in fins <=> Own(o)
    BY <2>1 DEF Own, ContainsFinalizer
  <2>4. Own(new) <=> Own(o)
    BY <1>1, <1>2, <2>3 DEF WithFinalizers, Own, ContainsFinalizer, IamRoles
  <2>5. Own(new) => Present(new)
    BY <1>1, <1>2, <2>3 DEF WithFinalizers, Present, Own, ContainsFinalizer, IamRoles
  <2>6. DeletingWith(o, Finalizer) => ~Live(new)
    BY <1>1 DEF WithFinalizers, DeletingWith, Deleting, Live, IamRoles, NoIamRole
  <2> QED
    BY <1>3, <1>7, <2>2, <2>4, <2>5, <2>6 DEF ReleaseFinalizer
<1> QED
  BY <1>4, <1>5, <1>6, <1>7 DEF Users

(* The manager delivers, queues or begins again.                           *)
LEMMA InvManager ==
    ASSUME IInv, TypeOK', Manager
    PROVE  IInv'
<1>1. ASSUME UNCHANGED <<hist, iam, w>>
      PROVE  IInv'
  BY <1>1, UnchangedPreserves, OthersStep DEF NoNewRole
<1>2. ASSUME NEW r \in Roles, Sync(r)
      PROVE  IInv'
  <2>1. /\ hist[r] \in Versions(IamRoles) /\ ~Current(hist[r])
        /\ Orderly(hist[r], Finalizer)
        /\ hist' = [hist EXCEPT ![r] = Delivered(hist[r])]
        /\ hist \in [Roles -> Versions(IamRoles)]
    BY <1>2 DEF Sync, IInv, TypeOK
  <2>2. /\ Latest(Delivered(hist[r])) = Latest(hist[r])
        /\ Orderly(Delivered(hist[r]), Finalizer)
        /\ Kept(hist[r], Finalizer) => Kept(Delivered(hist[r]), Finalizer)
        /\ Dying(hist[r], Finalizer) => Dying(Delivered(hist[r]), Finalizer)
    BY <2>1, DeliveredVersions, DeliveredOrderly
  <2>3. Preserves
    BY <2>1, <2>2 DEF Preserves, IInv
  <2> QED
    BY <1>2, <2>3, OthersStep DEF Sync, NoNewRole
<1>3. CASE Resync
  BY <1>1, <1>3 DEF Resync
<1>4. CASE Restart
  <2>1. /\ hist \in [Roles -> Versions(IamRoles)]
        /\ \A r \in Roles : hist'[r] = Relisted(hist[r])
        /\ w' = Idle /\ UNCHANGED iam
    BY <1>4 DEF Restart, IInv, TypeOK
  <2>2. \A r \in Roles : /\ Latest(hist'[r]) = Latest(hist[r])
                         /\ Orderly(hist'[r], Finalizer)
    BY <2>1, RelistedVersions, RelistedOrderly DEF IInv
  <2>3. WorkerKnows'
    BY <2>1 DEF WorkerKnows, At, Provisioning, Finalizing, Calls, Idle
  <2> QED
    BY <2>1, <2>2, <2>3 DEF IInv, NoOrphan
<1>5. ASSUME NEW b \in Bindings, NEW new \in IamRoleBindings, BindingEvent(b, new)
      PROVE  IInv'
  BY <1>1, <1>5 DEF BindingEvent
<1>6. ASSUME NEW p \in Policies, NEW new \in IamPolicies, PolicySeen(p, new)
      PROVE  IInv'
  BY <1>1, <1>6 DEF PolicySeen
<1> QED
  BY <1>2, <1>3, <1>4, <1>5, <1>6 DEF Manager

(* Administrators make roles of their own only.                            *)
LEMMA InvAws ==
    ASSUME IInv, TypeOK', Aws
    PROVE  IInv'
<1>1. ASSUME UNCHANGED <<hist, w>>, NoNewRole
      PROVE  IInv'
  BY <1>1, UnchangedPreserves, OthersStep
<1>2. iam \in [Roles -> UpstreamRole]
  BY DEF IInv, TypeOK
<1>3. ASSUME NEW r \in Roles, NEW i, Interferes(r, i),
             i.owner = "controller" => iam[r].owner = "controller"
      PROVE  IInv'
  BY <1>1, <1>2, <1>3 DEF Interferes, NoNewRole
<1>4. ASSUME NEW r \in Roles, ExternalCreate(r)
      PROVE  IInv'
  BY <1>2, <1>3, <1>4 DEF ExternalCreate, Created, UpstreamRole
<1>5. ASSUME NEW r \in Roles, ExternalDelete(r)
      PROVE  IInv'
  BY <1>2, <1>3, <1>5 DEF ExternalDelete, Removed, UpstreamRole
<1>6. ASSUME NEW r \in Roles, NEW f \in ForeignTrust, ExternalTrust(r, f)
      PROVE  IInv'
  BY <1>2, <1>3, <1>6 DEF ExternalTrust, WithTrust, UpstreamRole
<1>7. ASSUME NEW new \in SUBSET Policies, UpstreamPolicy(new)
      PROVE  IInv'
  BY <1>1, <1>7 DEF UpstreamPolicy, NoNewRole
<1> QED
  BY <1>4, <1>5, <1>6, <1>7 DEF Aws

LEMMA InvStep == IInv /\ [Next]_vars => IInv'
<1> SUFFICES ASSUME IInv, [Next]_vars PROVE IInv'
  OBVIOUS
<1>1. TypeOK'
  BY TypeStep DEF IInv
<1>2. CASE UNCHANGED vars
  BY <1>1, <1>2, UnchangedPreserves, OthersStep DEF vars, NoNewRole
<1>3. ASSUME NEW r \in Roles, Start(r)
      PROVE  IInv'
  BY <1>1, <1>3, InvStart
<1>4. CASE Reconcile
  BY <1>1, <1>4, InvAddFinalizer, InvProvisioning, InvFinalize, InvRemoveFinalizer
     DEF Reconcile, ProvisioningCall
<1> QED
  BY <1>1, <1>2, <1>3, <1>4, InvManager, InvUsers, InvAws DEF Next

(* The invariant holds in every reachable state.                           *)
THEOREM Invariant == Spec => []IInv
  BY InvInit, InvStep, PTL DEF Spec

(* No role of the controller is ever without an object that holds the      *)
(* controller's finalizer.                                                 *)
THEOREM NoOrphanHolds == Spec => []NoOrphan
<1>1. IInv => NoOrphan
  BY DEF IInv
<1> QED
  BY <1>1, Invariant, PTL

-----------------------------------------------------------------------------
(* The worker takes a role of the controller's from IAM in FinDelete only. *)
LEMMA RemovalIsFinDelete ==
    ASSUME IInv, [Next]_vars, NEW r \in Roles,
           iam[r].owner = "controller", iam'[r].owner # "controller", w' # w
    PROVE  FinDelete /\ w.cur = r
<1>1. iam \in [Roles -> UpstreamRole] /\ iam' # iam
  BY DEF IInv, TypeOK
<1>2. ~(UNCHANGED vars)
  BY <1>1 DEF vars
<1>3. ~(\E q \in Roles : Start(q))
  BY <1>1 DEF Start
<1>4. ~Users
  BY <1>1 DEF Users, CreateIamRole, DeleteIamRole, SetPolicyRefs,
              ReleaseFinalizer, UserWrites
<1>5. ~Aws
  BY DEF Aws, ExternalCreate, ExternalDelete, ExternalTrust, Interferes,
         UpstreamPolicy
<1>6. ~Manager
  BY <1>1 DEF Manager, Sync, Resync, Restart, BindingEvent, PolicySeen
<1>7. Reconcile
  BY <1>2, <1>3, <1>4, <1>5, <1>6 DEF Next
<1>8. ASSUME NEW i, i.owner = iam[w.cur].owner \/ iam[w.cur].owner = "none",
             iam' = iam \/ iam' = [iam EXCEPT ![w.cur] = i]
      PROVE  FALSE
  BY <1>1, <1>8
<1>9. ~(GetRole \/ CreateGet \/ List \/ AddFinalizer \/ PatchArn \/ BindGet
        \/ BindConfirm \/ PatchBound \/ FinGet \/ RemoveFinalizer)
  BY <1>1 DEF GetRole, CreateGet, List, AddFinalizer, PatchArn, BindGet,
              BindConfirm, PatchBound, FinGet, RemoveFinalizer
<1>10. w.pc # "idle" => iam[w.cur] \in UpstreamRole
  BY DEF IInv, TypeOK
<1>11. ~CreateRole
  <2> SUFFICES ASSUME CreateRole PROVE FALSE
    OBVIOUS
  <2>1. PICK out \in Outcomes(~Exists(iam[w.cur])) :
          iam' = IF TookEffect(out)
                 THEN [iam EXCEPT ![w.cur] = Created(iam[w.cur], "controller")]
                 ELSE iam
    BY DEF CreateRole
  <2>2. TookEffect(out) => iam[w.cur].owner = "none"
    BY <2>1 DEF Outcomes, TookEffect, Exists
  <2> QED
    BY <1>1, <2>1, <2>2
<1>12. ASSUME NEW p \in Policies, Attach(p) \/ Detach(p)
       PROVE  FALSE
  <2>1. Attached(iam[w.cur], p).owner = iam[w.cur].owner
        /\ Detached(iam[w.cur], p).owner = iam[w.cur].owner
    BY <1>10, <1>12 DEF Attached, Detached, UpstreamRole, Attach, Detach, At
  <2>2. \/ iam' = iam
        \/ iam' = [iam EXCEPT ![w.cur] = Attached(iam[w.cur], p)]
        \/ iam' = [iam EXCEPT ![w.cur] = Detached(iam[w.cur], p)]
    BY <1>12 DEF Attach, Detach
  <2> QED
    BY <1>8, <2>1, <2>2
<1>13. ~BindUpdate
  <2> SUFFICES ASSUME BindUpdate PROVE FALSE
    OBVIOUS
  <2> DEFINE i == WithTrust(iam[w.cur], Edited(w.trust, w.accounts))
  <2>1. i.owner = iam[w.cur].owner
    BY <1>10 DEF WithTrust, UpstreamRole, BindUpdate, At
  <2>2. iam' = iam \/ iam' = [iam EXCEPT ![w.cur] = i]
    BY DEF BindUpdate
  <2> QED
    BY <1>8, <2>1, <2>2
<1>14. FinDelete
  BY <1>7, <1>9, <1>11, <1>12, <1>13 DEF Reconcile
<1>15. w.cur = r
  BY <1>1, <1>14 DEF FinDelete
<1> QED
  BY <1>14, <1>15

(* The worker makes more of a role at a provisioning call only, and of the *)
(* role of the object it works on.                                         *)
LEMMA GrantIsProvisioning ==
    ASSUME IInv, [Next]_vars, NEW r \in Roles,
           w' # w, GrantsMore(iam[r], iam'[r])
    PROVE  w.pc \in Provisioning /\ w.cur = r
<1>1. iam \in [Roles -> UpstreamRole]
  BY DEF IInv, TypeOK
<1>2. iam'[r] # iam[r]
  BY <1>1 DEF GrantsMore, UpstreamRole, TrustDoc
<1>3. Reconcile
  BY <1>1, <1>2 DEF Next, vars, Start, Users, CreateIamRole, DeleteIamRole,
     SetPolicyRefs, ReleaseFinalizer, UserWrites, Manager, Sync, Resync, Restart,
     BindingEvent, PolicySeen, Aws, ExternalCreate, ExternalDelete,
     ExternalTrust, Interferes, UpstreamPolicy
<1>4. ~(GetRole \/ CreateGet \/ List \/ AddFinalizer \/ PatchArn \/ BindGet
        \/ BindConfirm \/ PatchBound \/ FinGet \/ RemoveFinalizer)
  BY <1>2 DEF GetRole, CreateGet, List, AddFinalizer, PatchArn, BindGet,
              BindConfirm, PatchBound, FinGet, RemoveFinalizer
<1>5. ~FinDelete
  <2>1. ASSUME FinDelete PROVE w.cur = r /\ iam'[r] = Removed(iam[r])
    BY <1>1, <1>2, <2>1 DEF FinDelete
  <2>2. ~GrantsMore(iam[r], Removed(iam[r]))
    BY <1>1 DEF GrantsMore, Removed, UpstreamRole, TrustDoc, DenyAll, Exists
  <2> QED
    BY <2>1, <2>2
<1>6. \/ CreateRole \/ BindUpdate
      \/ \E p \in Policies : Attach(p) \/ Detach(p)
  BY <1>3, <1>4, <1>5 DEF Reconcile
<1>7. w.pc \in Provisioning
  BY <1>6 DEF CreateRole, BindUpdate, Attach, Detach, At, Provisioning, Calls
<1>8. w.cur = r
  BY <1>1, <1>2, <1>6 DEF CreateRole, BindUpdate, Attach, Detach
<1> QED
  BY <1>7, <1>8

(* The worker creates a role, attaches to it and lets service accounts in  *)
(* only while the API server has the object with the finalizer.            *)
THEOREM GrantsOnlyHeldHolds == Spec => GrantsOnlyHeld
<1> DEFINE Held ==
             \A r \in Roles :
               (w' # w /\ GrantsMore(iam[r], iam'[r]))
               => Present(Latest(hist[r])) /\ Own(Latest(hist[r]))
<1>1. ASSUME IInv, [Next]_vars
      PROVE  Held
  <2> SUFFICES ASSUME NEW r \in Roles, w' # w, GrantsMore(iam[r], iam'[r])
               PROVE  Present(Latest(hist[r])) /\ Own(Latest(hist[r]))
    OBVIOUS
  <2>1. Own(Latest(hist[r]))
    BY <1>1, GrantIsProvisioning DEF IInv, WorkerKnows
  <2>2. Len(hist[r]) \in 1..Len(hist[r])
    BY <1>1, VersionsExist DEF IInv, TypeOK
  <2>3. Present(Latest(hist[r]))
    BY <1>1, <2>1, <2>2 DEF IInv, Orderly, Own, Latest
  <2> QED
    BY <2>1, <2>3
<1>2. IInv /\ [Next]_vars => [Held]_vars
  BY <1>1
<1> QED
  BY <1>2, Invariant, PTL DEF Spec, GrantsOnlyHeld

(* Attach is the only step that attaches a policy to a role: it does so to *)
(* the worker's role, and IAM has the policy then.                         *)
LEMMA AttachmentIsAttach ==
    ASSUME IInv, [Next]_vars, NEW r \in Roles, NEW p \in Policies,
           p \in iam'[r].attached, p \notin iam[r].attached
    PROVE  w.pc = "attach" /\ w.cur = r /\ p \in upstream
<1>1. iam \in [Roles -> UpstreamRole] /\ iam' # iam
  BY DEF IInv, TypeOK
<1>2. ~(UNCHANGED vars)
  BY <1>1 DEF vars
<1>3. ~(\E q \in Roles : Start(q)) /\ ~Users /\ ~Manager
  BY <1>1 DEF Start, Users, CreateIamRole, DeleteIamRole, SetPolicyRefs,
              ReleaseFinalizer, UserWrites, Manager, Sync, Resync, Restart,
              BindingEvent, PolicySeen
<1>4. ASSUME NEW q \in Roles, NEW i, i.attached \subseteq iam[q].attached,
             iam' = iam \/ iam' = [iam EXCEPT ![q] = i]
      PROVE  FALSE
  BY <1>1, <1>4
<1>5. ASSUME NEW q \in Roles
      PROVE  /\ \A owner : Created(iam[q], owner).attached = iam[q].attached
             /\ Removed(iam[q]).attached = iam[q].attached
             /\ \A doc : WithTrust(iam[q], doc).attached = iam[q].attached
  BY <1>1, <1>5 DEF Created, Removed, WithTrust, UpstreamRole
<1>6. ~Aws
  <2>1. ASSUME NEW q \in Roles, NEW i, i.attached \subseteq iam[q].attached,
               Interferes(q, i)
        PROVE  FALSE
    BY <1>4, <2>1 DEF Interferes
  <2>2. ASSUME NEW q \in Roles, ExternalCreate(q) \/ ExternalDelete(q)
        PROVE  FALSE
    BY <1>5, <2>1, <2>2 DEF ExternalCreate, ExternalDelete
  <2>3. ASSUME NEW q \in Roles, NEW f \in ForeignTrust, ExternalTrust(q, f)
        PROVE  FALSE
    BY <1>5, <2>1, <2>3 DEF ExternalTrust
  <2> QED
    BY <1>1, <2>2, <2>3 DEF Aws, UpstreamPolicy
<1>7. Reconcile
  BY <1>2, <1>3, <1>6 DEF Next
<1>8. ~(GetRole \/ CreateGet \/ List \/ AddFinalizer \/ PatchArn \/ BindGet
        \/ BindConfirm \/ PatchBound \/ FinGet \/ RemoveFinalizer)
  BY <1>1 DEF GetRole, CreateGet, List, AddFinalizer, PatchArn, BindGet,
              BindConfirm, PatchBound, FinGet, RemoveFinalizer
<1>9. w.pc # "idle" => w.cur \in Roles
  BY DEF IInv, TypeOK, Workers
<1>10. ~(CreateRole \/ FinDelete \/ BindUpdate)
  BY <1>4, <1>5, <1>9 DEF CreateRole, FinDelete, BindUpdate, At
<1>11. ASSUME NEW q \in Policies, Detach(q)
       PROVE  FALSE
  <2>1. Detached(iam[w.cur], q).attached \subseteq iam[w.cur].attached
    BY <1>1, <1>9, <1>11 DEF Detached, UpstreamRole, Detach, At
  <2> QED
    BY <1>4, <1>9, <1>11, <2>1 DEF Detach, At
<1>12. PICK q \in Policies : Attach(q)
  BY <1>7, <1>8, <1>10, <1>11 DEF Reconcile
<1>13. w.pc = "attach" /\ w.cur \in Roles
  BY <1>9, <1>12 DEF Attach, At
<1>14. PICK out \in Outcomes(AttachAccepted(iam[w.cur], q, upstream)) :
         /\ TookEffect(out)
         /\ iam' = [iam EXCEPT ![w.cur] = Attached(iam[w.cur], q)]
  BY <1>1, <1>12 DEF Attach
<1>15. q \in upstream
  BY <1>14 DEF Outcomes, TookEffect, AttachAccepted
<1>16. w.cur = r /\ p \in Attached(iam[r], q).attached
  BY <1>1, <1>13, <1>14
<1>17. p = q
  BY <1>1, <1>16 DEF Attached, UpstreamRole
<1> QED
  BY <1>13, <1>15, <1>16, <1>17

(* The worker, with an instance that has its finalizer, deletes a role it  *)
(* created only when its object is being deleted at the API server.        *)
THEOREM DeletesOnlyDeletingHolds == Spec => DeletesOnlyDeleting
<1> DEFINE Allowed ==
             \A r \in Roles :
               (/\ iam[r].owner = "controller" /\ iam'[r].owner # "controller"
                /\ w' # w /\ Own(w.inst))
               => Deleting(Latest(hist[r]))
<1>1. ASSUME IInv, [Next]_vars
      PROVE  Allowed
  <2> SUFFICES ASSUME NEW r \in Roles,
                      iam[r].owner = "controller", iam'[r].owner # "controller",
                      w' # w, Own(w.inst)
               PROVE  Deleting(Latest(hist[r]))
    OBVIOUS
  <2>1. FinDelete /\ w.cur = r
    BY <1>1, RemovalIsFinDelete
  <2>2. Dying(hist[r], Finalizer)
    BY <1>1, <2>1 DEF IInv, WorkerKnows, FinDelete, At, Finalizing
  <2>3. Own(Latest(hist[r]))
    BY <1>1 DEF IInv, NoOrphan
  <2>4. Len(hist[r]) \in 1..Len(hist[r])
    BY <1>1, VersionsExist DEF IInv, TypeOK
  <2> QED
    BY <2>2, <2>3, <2>4 DEF Dying, DeletingWith, Own, Latest
<1>2. IInv /\ [Next]_vars => [Allowed]_vars
  BY <1>1
<1> QED
  BY <1>2, Invariant, PTL DEF Spec, DeletesOnlyDeleting

-----------------------------------------------------------------------------
(* Refinement: every step of the reconciler, of the manager, of users and  *)
(* of administrators is a step of ManagedResource or a stutter.            *)

LEMMA RefInit == Init => MR!Init
<1> SUFFICES ASSUME Init PROVE MR!Init
  OBVIOUS
<1>1. \A r \in Roles : Latest(hist[r]) = NoIamRole
  BY DEF Init, Latest
<1>2. HeldState(NoIamRole) = "free"
  BY DEF HeldState, Own, ContainsFinalizer, NoIamRole
<1>3. HeldObjects = [r \in Roles |-> "free"]
  BY <1>1, <1>2 DEF HeldObjects
<1>4. ProvidedRoles = [r \in Roles |-> FALSE]
  BY DEF Init, ProvidedRoles, NoUpstreamRole
<1>5. FinalizationTask = MR!NoTask
  BY DEF Init, FinalizationTask, Finalization, At, Idle, MR!NoTask
<1> QED
  BY <1>3, <1>4, <1>5 DEF MR!Init

-----------------------------------------------------------------------------
(* What a step shows of itself.                                            *)

(* A write changes one object.                                             *)
LEMMA WriteShows ==
    ASSUME IInv, NEW r \in Roles, NEW o \in IamRoles, WriteIamRole(r, o)
    PROVE  /\ HeldObjects' = [HeldObjects EXCEPT ![r] = HeldState(o)]
           /\ HeldState(o) = HeldObjects[r] => UNCHANGED HeldObjects
<1>1. /\ hist'[r] = Written(hist[r], o)
      /\ \A q \in Roles \ {r} : hist'[q] = hist[q]
  BY WriteType DEF IInv, TypeOK
<1>2. Latest(hist'[r]) = o
  BY <1>1, WrittenVersions DEF IInv, TypeOK
<1> QED
  BY <1>1, <1>2 DEF HeldObjects

LEMMA LatestShows ==
    ASSUME \A r \in Roles : Latest(hist'[r]) = Latest(hist[r])
    PROVE  UNCHANGED HeldObjects
  BY DEF HeldObjects

(* A change of one role in IAM.                                            *)
LEMMA UpstreamShows ==
    ASSUME IInv, NEW r \in Roles, NEW i, iam' = [iam EXCEPT ![r] = i]
    PROVE  /\ ProvidedRoles' =
                [ProvidedRoles EXCEPT ![r] = (i.owner = "controller")]
           /\ (i.owner = "controller" <=> iam[r].owner = "controller")
              => UNCHANGED ProvidedRoles
<1>1. /\ iam'[r] = i
      /\ \A q \in Roles \ {r} : iam'[q] = iam[q]
  BY DEF IInv, TypeOK
<1> QED
  BY <1>1 DEF ProvidedRoles

LEMMA WorkerShows ==
    /\ w.pc \notin {"finGet", "finDelete", "removeFinalizer"} =>
          FinalizationTask = MR!NoTask
    /\ w.pc \in {"finGet", "finDelete"} =>
          FinalizationTask = IF Own(w.inst) THEN MR!Task("withdraw", w.cur)
                                            ELSE MR!NoTask
    /\ w.pc = "removeFinalizer" => FinalizationTask = MR!Task("remove", w.cur)
  BY DEF FinalizationTask, Finalization, At, MR!NoTask, MR!Task

LEMMA NextWorkerShows ==
    /\ w'.pc \notin {"finGet", "finDelete", "removeFinalizer"} =>
          FinalizationTask' = MR!NoTask
    /\ w'.pc \in {"finGet", "finDelete"} =>
          FinalizationTask' = IF Own(w'.inst) THEN MR!Task("withdraw", w'.cur)
                                              ELSE MR!NoTask
    /\ w'.pc = "removeFinalizer" => FinalizationTask' = MR!Task("remove", w'.cur)
  BY DEF FinalizationTask, Finalization, At, MR!NoTask, MR!Task

(* A step that only changes the worker's place outside a finalization.     *)
Hidden == UNCHANGED <<HeldObjects, ProvidedRoles, FinalizationTask>>

LEMMA HiddenStep == Hidden => [MR!Next]_(MR!vars)
  BY DEF Hidden, MR!vars

(* The worker gives up, or was not finalizing.                             *)
LEMMA IdleStep ==
    ASSUME UNCHANGED <<HeldObjects, ProvidedRoles>>, w' = Idle
    PROVE  MR!Next
<1>1. FinalizationTask' = MR!NoTask
  BY NextWorkerShows DEF Idle
<1> QED
  BY <1>1 DEF MR!Next, MR!GiveUp

-----------------------------------------------------------------------------
(* Reconcile and Finalize.                                                 *)

(* A finalization begins on an object that is not held, however old the    *)
(* copy of it is that the worker starts from.                              *)
LEMMA RefStart ==
    ASSUME IInv, IInv', NEW r \in Roles, Start(r)
    PROVE  [MR!Next]_(MR!vars)
<1>1. UNCHANGED <<HeldObjects, ProvidedRoles>>
  BY DEF Start, HeldObjects, ProvidedRoles
<1>2. FinalizationTask = MR!NoTask
  BY WorkerShows DEF Start, At
<1>3. CASE FinalizationTask' = MR!NoTask
  BY <1>1, <1>2, <1>3, HiddenStep DEF Hidden
<1>4. CASE FinalizationTask' # MR!NoTask
  <2>1. w' # Idle
    BY <1>4, NextWorkerShows DEF Idle
  <2>2. w'.cur = r /\ w'.pc \in {"finGet", "getRole", "addFinalizer"}
    BY <2>1 DEF Start, Idle, FirstCall
  <2>3. /\ w'.pc = "finGet" /\ Own(w'.inst)
        /\ FinalizationTask' = MR!Task("withdraw", r)
    BY <1>4, <2>2, NextWorkerShows
  <2>4. Dying(hist[r], Finalizer)
    BY <2>2, <2>3 DEF IInv, WorkerKnows, Finalizing, Start
  <2>5. Own(Latest(hist[r])) => Deleting(Latest(hist[r]))
    <3>1. Len(hist[r]) \in 1..Len(hist[r])
      BY VersionsExist DEF IInv, TypeOK
    <3> QED
      BY <2>4, <3>1 DEF Dying, DeletingWith, Own, Latest
  <2>6. HeldObjects[r] # "held"
    BY <2>5 DEF HeldObjects, HeldState
  <2>7. MR!BeginFinalize(r)
    BY <1>1, <1>2, <2>3, <2>6 DEF MR!BeginFinalize
  <2> QED
    BY <2>7 DEF MR!Next
<1> QED
  BY <1>3, <1>4

LEMMA RefAddFinalizer ==
    ASSUME IInv, AddFinalizer
    PROVE  [MR!Next]_(MR!vars)
<1> DEFINE o == Latest(hist[w.cur])
           new == Applied(o, Finalizer)
<1>1. PICK out \in Outcomes(ApplyAccepted(o, Finalizer)) :
        /\ IF TookEffect(out) THEN WriteIamRole(w.cur, new) ELSE UNCHANGED hist
        /\ Settle(out, Goto("getRole"))
  BY DEF AddFinalizer
<1>2. /\ w \in Workers /\ w.cur \in Roles /\ w.pc = "addFinalizer"
      /\ o \in IamRoles /\ new \in IamRoles
  BY VersionsExist, IamRoleTypes DEF IInv, TypeOK, AddFinalizer, At
<1>3. FinalizationTask = MR!NoTask /\ UNCHANGED ProvidedRoles
  BY <1>2, WorkerShows DEF AddFinalizer, ProvidedRoles
<1>4. FinalizationTask' = MR!NoTask
  <2>1. w'.pc \in {"getRole", "idle"}
    BY <1>1, <1>2, GotoType DEF Settle, Idle, Calls
  <2> QED
    BY <2>1, NextWorkerShows
<1>5. CASE ~TookEffect(out)
  BY <1>1, <1>3, <1>4, <1>5, HiddenStep DEF Hidden, HeldObjects
<1>6. CASE TookEffect(out)
  <2>1. WriteIamRole(w.cur, new) /\ ApplyAccepted(o, Finalizer)
    BY <1>1, <1>6 DEF Outcomes, TookEffect
  <2>2. HeldObjects[w.cur] = HeldState(o)
    BY <1>2 DEF HeldObjects
  <2>3. CASE Own(o)
    <3>1. Present(o)
      BY <1>2, <2>3, OwnIsPresent DEF IInv, TypeOK
    <3>2. HeldState(new) = HeldState(o)
      BY <1>2, <2>3, <3>1
         DEF HeldState, Applied, Own, ContainsFinalizer, Deleting, IamRoles
    <3> QED
      BY <1>2, <1>3, <1>4, <2>1, <2>2, <3>2, WriteShows, HiddenStep DEF Hidden
  <2>4. CASE ~Own(o)
    <3>1. HeldState(new) = "held"
      BY <1>2, <2>1, <2>4
         DEF HeldState, ApplyAccepted, Applied, Own, ContainsFinalizer, Deleting,
             Present, IamRoles
    <3>2. HeldObjects[w.cur] = "free"
      BY <2>2, <2>4 DEF HeldState
    <3>3. MR!Hold(w.cur)
      BY <1>2, <1>3, <1>4, <2>1, <3>1, <3>2, WriteShows DEF MR!Hold
    <3> QED
      BY <1>2, <3>3 DEF MR!Next
  <2> QED
    BY <2>3, <2>4
<1> QED
  BY <1>5, <1>6

(* The role appears in IAM while its object has the finalizer.             *)
LEMMA RefCreateRole ==
    ASSUME IInv, CreateRole
    PROVE  [MR!Next]_(MR!vars)
<1> DEFINE new == Created(iam[w.cur], "controller")
<1>1. /\ w \in Workers /\ w.cur \in Roles /\ w.pc = "createRole"
      /\ iam[w.cur] \in UpstreamRole
  BY DEF IInv, TypeOK, CreateRole, At
<1>2. PICK out \in Outcomes(~Exists(iam[w.cur])) :
        /\ iam' = IF TookEffect(out) THEN [iam EXCEPT ![w.cur] = new] ELSE iam
        /\ Settle(out, Goto("createGet"))
  BY DEF CreateRole
<1>3. UNCHANGED HeldObjects
  BY DEF CreateRole, HeldObjects
<1>4. FinalizationTask = MR!NoTask
  BY <1>1, WorkerShows
<1>5. FinalizationTask' = MR!NoTask
  <2>1. w'.pc \in {"createGet", "idle"}
    BY <1>1, <1>2, GotoType DEF Settle, Idle, Calls
  <2> QED
    BY <2>1, NextWorkerShows
<1>6. CASE ~TookEffect(out)
  BY <1>2, <1>3, <1>4, <1>5, <1>6, HiddenStep DEF Hidden, ProvidedRoles
<1>7. CASE TookEffect(out)
  <2>1. new.owner = "controller"
    BY <1>1 DEF Created, UpstreamRole
  <2>2. ProvidedRoles' = [ProvidedRoles EXCEPT ![w.cur] = TRUE]
    BY <1>1, <1>2, <1>7, <2>1, UpstreamShows
  <2>3. HeldObjects[w.cur] # "free"
    <3>1. Own(Latest(hist[w.cur]))
      BY <1>1 DEF IInv, WorkerKnows, Provisioning, Calls
    <3> QED
      BY <1>1, <3>1 DEF HeldObjects, HeldState
  <2>4. MR!Provide(w.cur)
    BY <1>3, <1>4, <1>5, <2>2, <2>3 DEF MR!Provide
  <2> QED
    BY <1>1, <2>4 DEF MR!Next
<1> QED
  BY <1>6, <1>7

(* The rest of the provisioning changes nothing that is seen.              *)
LEMMA RefProvisioning ==
    ASSUME IInv, ProvisioningCall
    PROVE  [MR!Next]_(MR!vars)
<1>1. /\ w.pc \in Provisioning /\ w.cur \in Roles
      /\ iam \in [Roles -> UpstreamRole] /\ iam[w.cur] \in UpstreamRole
  BY ProvisioningTypes
<1>2. FinalizationTask = MR!NoTask
  BY <1>1, WorkerShows DEF Provisioning
<1>3. FinalizationTask' = MR!NoTask
  <2>1. w'.pc \notin {"finGet", "finDelete", "removeFinalizer"}
    BY ProvisioningContinues DEF Continues, Idle, Provisioning
  <2> QED
    BY <2>1, NextWorkerShows
<1>4. UNCHANGED HeldObjects
  <2>1. CASE UNCHANGED hist
    BY <2>1 DEF HeldObjects
  <2>2. ASSUME NEW o \in IamRoles, WriteIamRole(w.cur, o),
               o.phase = Latest(hist[w.cur]).phase, o.fins = Latest(hist[w.cur]).fins
        PROVE  UNCHANGED HeldObjects
    <3>1. HeldState(o) = HeldObjects[w.cur]
      BY <1>1, <2>2 DEF HeldObjects, HeldState, Own, ContainsFinalizer, Deleting
    <3> QED
      BY <1>1, <2>2, <3>1, WriteShows
  <2> QED
    BY <2>1, <2>2, ProvisioningWrites DEF StatusWritten
<1>5. CASE CreateRole
  BY <1>5, RefCreateRole
<1>6. CASE ~CreateRole
  <2>1. ASSUME UNCHANGED iam
        PROVE  UNCHANGED ProvidedRoles
    BY <2>1 DEF ProvidedRoles
  <2>2. ASSUME NEW i, i.owner = iam[w.cur].owner, iam' = [iam EXCEPT ![w.cur] = i]
        PROVE  UNCHANGED ProvidedRoles
    BY <1>1, <2>2, UpstreamShows
  <2>3. ASSUME NEW p \in Policies, Attach(p) \/ Detach(p)
        PROVE  UNCHANGED ProvidedRoles
    <3>1. Attached(iam[w.cur], p).owner = iam[w.cur].owner
          /\ Detached(iam[w.cur], p).owner = iam[w.cur].owner
      BY <1>1 DEF Attached, Detached, UpstreamRole
    <3>2. \/ UNCHANGED iam
          \/ iam' = [iam EXCEPT ![w.cur] = Attached(iam[w.cur], p)]
          \/ iam' = [iam EXCEPT ![w.cur] = Detached(iam[w.cur], p)]
      BY <2>3 DEF Attach, Detach
    <3> QED
      BY <2>1, <2>2, <3>1, <3>2
  <2>4. ASSUME BindUpdate
        PROVE  UNCHANGED ProvidedRoles
    <3> DEFINE i == WithTrust(iam[w.cur], Edited(w.trust, w.accounts))
    <3>1. i.owner = iam[w.cur].owner
      BY <1>1 DEF WithTrust, UpstreamRole
    <3>2. UNCHANGED iam \/ iam' = [iam EXCEPT ![w.cur] = i]
      BY <2>4 DEF BindUpdate
    <3> QED
      BY <2>1, <2>2, <3>1, <3>2
  <2>5. UNCHANGED ProvidedRoles
    BY <1>6, <2>1, <2>3, <2>4
       DEF ProvisioningCall, GetRole, CreateGet, List, PatchArn, BindGet, BindConfirm,
           PatchBound
  <2> QED
    BY <1>2, <1>3, <1>4, <2>5, HiddenStep DEF Hidden
<1> QED
  BY <1>5, <1>6

LEMMA RefFinGet ==
    ASSUME IInv, FinGet
    PROVE  [MR!Next]_(MR!vars)
<1>1. /\ w \in Workers /\ w.pc = "finGet" /\ w.cur \in Roles
      /\ iam[w.cur] \in UpstreamRole
      /\ UNCHANGED <<HeldObjects, ProvidedRoles>>
  BY DEF IInv, TypeOK, FinGet, At, HeldObjects, ProvidedRoles
<1>2. FinalizationTask = IF Own(w.inst) THEN MR!Task("withdraw", w.cur)
                                        ELSE MR!NoTask
  BY <1>1, WorkerShows
<1>3. CASE w' = Idle
  BY <1>1, <1>3, IdleStep
<1>4. CASE w' = Goto("finDelete")
  <2>1. w'.pc = "finDelete" /\ w'.cur = w.cur /\ w'.inst = w.inst
    BY <1>1, <1>4, GotoType DEF Calls
  <2> QED
    BY <1>1, <1>2, <2>1, NextWorkerShows, HiddenStep DEF Hidden
<1>5. CASE w' = Goto("removeFinalizer") /\ Own(w.inst) /\ ~Exists(iam[w.cur])
  <2>1. FinalizationTask' = MR!Task("remove", w.cur)
    BY <1>1, <1>5, NextWorkerShows, GotoType DEF Calls
  <2>2. ProvidedRoles' = [ProvidedRoles EXCEPT ![w.cur] = FALSE]
    BY <1>1, <1>5 DEF ProvidedRoles, Exists
  <2>3. MR!Withdraw(w.cur)
    BY <1>1, <1>2, <1>5, <2>1, <2>2 DEF MR!Withdraw
  <2> QED
    BY <1>1, <2>3 DEF MR!Next
<1> QED
  BY <1>3, <1>4, <1>5 DEF FinGet, Settle, AfterFinalize

LEMMA RefFinDelete ==
    ASSUME IInv, FinDelete
    PROVE  [MR!Next]_(MR!vars)
<1>1. /\ w \in Workers /\ w.pc = "finDelete" /\ w.cur \in Roles
      /\ iam \in [Roles -> UpstreamRole] /\ iam[w.cur] \in UpstreamRole
      /\ UNCHANGED HeldObjects
  BY DEF IInv, TypeOK, FinDelete, At, HeldObjects
<1>2. FinalizationTask = IF Own(w.inst) THEN MR!Task("withdraw", w.cur)
                                        ELSE MR!NoTask
  BY <1>1, WorkerShows
<1>3. PICK out \in Outcomes(DeleteAccepted(iam[w.cur])) :
        /\ iam' = IF TookEffect(out)
                  THEN [iam EXCEPT ![w.cur] = Removed(iam[w.cur])] ELSE iam
        /\ w' = IF out = "ok" THEN AfterFinalize ELSE Idle
  BY DEF FinDelete, Settle
<1>4. CASE ~TookEffect(out)
  <2>1. w' = Idle /\ UNCHANGED ProvidedRoles
    BY <1>3, <1>4 DEF TookEffect, ProvidedRoles
  <2> QED
    BY <1>1, <2>1, IdleStep
<1>5. CASE TookEffect(out)
  <2>1. ProvidedRoles' = [ProvidedRoles EXCEPT ![w.cur] = FALSE]
    <3>1. Removed(iam[w.cur]).owner = "none"
      BY <1>1 DEF Removed, UpstreamRole
    <3> QED
      BY <1>1, <1>3, <1>5, <3>1, UpstreamShows
  <2>2. CASE Own(w.inst)
    <3>1. FinalizationTask' \in {MR!Task("remove", w.cur), MR!NoTask}
      <4>1. \/ w' = Idle
            \/ w' = Goto("removeFinalizer")
        BY <1>3, <2>2 DEF AfterFinalize
      <4> QED
        BY <1>1, <4>1, NextWorkerShows, GotoType DEF Calls, Idle
    <3>2. MR!Withdraw(w.cur)
      BY <1>1, <1>2, <2>1, <2>2, <3>1 DEF MR!Withdraw
    <3> QED
      BY <1>1, <3>2 DEF MR!Next
  <2>3. CASE ~Own(w.inst)
    <3>1. w' = Idle
      BY <1>3, <2>3 DEF AfterFinalize
    <3>2. UNCHANGED FinalizationTask
      BY <1>2, <2>3, <3>1, NextWorkerShows DEF Idle
    <3>3. MR!Lose(w.cur)
      BY <1>1, <2>1, <3>2 DEF MR!Lose
    <3> QED
      BY <1>1, <3>3 DEF MR!Next
  <2> QED
    BY <2>2, <2>3
<1> QED
  BY <1>4, <1>5

(* An object is released when its role is gone.                            *)
LEMMA RefRemoveFinalizer ==
    ASSUME IInv, RemoveFinalizer
    PROVE  [MR!Next]_(MR!vars)
<1> DEFINE o == Latest(hist[w.cur])
           fins == w.inst.fins \ {Finalizer}
           new == WithFinalizers(o, fins, NoIamRole)
<1>1. PICK out \in Outcomes(FinalizersAccepted(o, fins)) :
        /\ IF TookEffect(out) THEN WriteIamRole(w.cur, new) ELSE UNCHANGED hist
        /\ Settle(out, Idle)
  BY DEF RemoveFinalizer
<1>2. /\ w \in Workers /\ w.cur \in Roles /\ w.pc = "removeFinalizer"
      /\ o \in IamRoles /\ w.inst \in IamRoles
      /\ Dying(hist[w.cur], Finalizer)
      /\ iam[w.cur].owner # "controller"
      /\ UNCHANGED ProvidedRoles
  BY VersionsExist
     DEF IInv, TypeOK, Workers, RemoveFinalizer, At, WorkerKnows, Finalizing,
         ProvidedRoles
<1>3. w' = Idle
  BY <1>1 DEF Settle
<1>4. CASE ~TookEffect(out)
  BY <1>1, <1>2, <1>3, <1>4, IdleStep DEF HeldObjects
<1>5. CASE TookEffect(out)
  <2>1. new \in IamRoles /\ HeldState(new) = "free"
    <3>1. new \in IamRoles
      BY <1>2, IamRoleTypes
    <3> QED
      BY <1>2, <3>1 DEF HeldState, WithFinalizers, Own, ContainsFinalizer, NoIamRole,
                        IamRoles
  <2>2. HeldObjects' = [HeldObjects EXCEPT ![w.cur] = "free"]
    BY <1>1, <1>2, <1>5, <2>1, WriteShows
  <2>3. HeldObjects[w.cur] = HeldState(o)
    BY <1>2 DEF HeldObjects
  <2>4. CASE Own(o)
    <3>1. Len(hist[w.cur]) \in 1..Len(hist[w.cur])
      BY <1>2, VersionsExist DEF IInv, TypeOK
    <3>2. HeldObjects[w.cur] = "releasing"
      BY <1>2, <2>3, <2>4, <3>1 DEF HeldState, Dying, DeletingWith, Own, Latest
    <3>3. ~ProvidedRoles[w.cur]
      BY <1>2 DEF ProvidedRoles
    <3>4. /\ FinalizationTask = MR!Task("remove", w.cur)
          /\ FinalizationTask' = MR!NoTask
      BY <1>2, <1>3, WorkerShows, NextWorkerShows DEF Idle
    <3>5. MR!Release(w.cur)
      BY <1>2, <2>2, <3>2, <3>3, <3>4 DEF MR!Release
    <3> QED
      BY <1>2, <3>5 DEF MR!Next
  <2>5. CASE ~Own(o)
    <3>1. UNCHANGED HeldObjects
      BY <1>1, <1>2, <1>5, <2>1, <2>3, <2>5, WriteShows DEF HeldState
    <3> QED
      BY <1>2, <1>3, <3>1, IdleStep
  <2> QED
    BY <2>4, <2>5
<1> QED
  BY <1>4, <1>5

-----------------------------------------------------------------------------
(* Everybody else.                                                         *)

LEMMA RefUsers ==
    ASSUME IInv, Users
    PROVE  [MR!Next]_(MR!vars)
<1>1. \A r \in Roles : /\ Latest(hist[r]) \in IamRoles
                       /\ Own(Latest(hist[r])) => Present(Latest(hist[r]))
                       /\ HeldObjects[r] = HeldState(Latest(hist[r]))
  BY VersionsExist, OwnIsPresent DEF IInv, TypeOK, HeldObjects
<1>2. ~Own(NoIamRole) /\ NoIamRole \in IamRoles
  BY IamRoleTypes DEF Own, ContainsFinalizer, NoIamRole
<1>3. UNCHANGED <<ProvidedRoles, FinalizationTask>>
  BY DEF Users, CreateIamRole, DeleteIamRole, SetPolicyRefs, ReleaseFinalizer,
         UserWrites, ProvidedRoles, FinalizationTask, Finalization, At
<1>4. ASSUME NEW r \in Roles, NEW o \in IamRoles, UserWrites(r, o),
             HeldState(o) = HeldObjects[r]
      PROVE  [MR!Next]_(MR!vars)
  <2>1. UNCHANGED HeldObjects
    BY <1>4, WriteShows DEF UserWrites
  <2> QED
    BY <1>3, <2>1, HiddenStep DEF Hidden
<1>5. ASSUME NEW r \in Roles, NEW fins \in SUBSET ForeignFinalizers,
             NEW refs \in SUBSET Policies, CreateIamRole(r, fins, refs)
      PROVE  [MR!Next]_(MR!vars)
  <2> DEFINE o == [NoIamRole EXCEPT !.phase = "live", !.fins = fins, !.refs = refs]
  <2>1. o \in IamRoles
    BY <1>2 DEF IamRoles, Phases, Finalizers
  <2>2. ~Own(o)
    BY RoleControllerAssumption DEF Own, ContainsFinalizer, NoIamRole
  <2>3. ~Own(Latest(hist[r]))
    BY <1>1, <1>5 DEF CreateIamRole
  <2>4. HeldState(o) = HeldObjects[r]
    BY <1>1, <2>2, <2>3 DEF HeldState
  <2> QED
    BY <1>4, <1>5, <2>1, <2>4 DEF CreateIamRole
<1>6. ASSUME NEW r \in Roles, DeleteIamRole(r)
      PROVE  [MR!Next]_(MR!vars)
  <2> DEFINE o == Latest(hist[r])
             new == Deleted(o, NoIamRole)
  <2>1. new \in IamRoles /\ Live(o) /\ UserWrites(r, new)
    BY <1>1, <1>6, IamRoleTypes DEF DeleteIamRole
  <2>2. Own(new) <=> Own(o)
    BY <1>1, <1>2 DEF Deleted, Own, ContainsFinalizer, IamRoles
  <2>3. CASE ~Own(o)
    <3>1. HeldState(new) = HeldObjects[r]
      BY <1>1, <2>2, <2>3 DEF HeldState
    <3> QED
      BY <1>4, <2>1, <3>1
  <2>4. CASE Own(o)
    <3>1. HeldObjects[r] = "held"
      BY <1>1, <2>1, <2>4 DEF HeldState, Live, Deleting
    <3>2. HeldState(new) = "releasing"
      BY <1>1, <2>2, <2>4
         DEF HeldState, Deleted, Deleting, Own, ContainsFinalizer, IamRoles
    <3>3. HeldObjects' = [HeldObjects EXCEPT ![r] = "releasing"]
      BY <2>1, <3>2, WriteShows DEF UserWrites
    <3>4. MR!Delete(r)
      BY <1>3, <3>1, <3>3 DEF MR!Delete
    <3> QED
      BY <3>4 DEF MR!Next
  <2> QED
    BY <2>3, <2>4
<1>7. ASSUME NEW r \in Roles, NEW refs \in SUBSET Policies, SetPolicyRefs(r, refs)
      PROVE  [MR!Next]_(MR!vars)
  <2> DEFINE o == Latest(hist[r])
             new == [o EXCEPT !.refs = refs]
  <2>1. new \in IamRoles /\ new.fins = o.fins /\ new.phase = o.phase
    BY <1>1, IamRoleTypes DEF IamRoles
  <2>2. HeldState(new) = HeldObjects[r]
    BY <1>1, <2>1 DEF HeldState, Own, ContainsFinalizer, Deleting
  <2> QED
    BY <1>4, <1>7, <2>1, <2>2 DEF SetPolicyRefs
<1>8. ASSUME NEW r \in Roles, NEW f \in ForeignFinalizers, ReleaseFinalizer(r, f)
      PROVE  [MR!Next]_(MR!vars)
  <2> DEFINE o == Latest(hist[r])
             fins == o.fins \ {f}
             new == WithFinalizers(o, fins, NoIamRole)
  <2>1. fins \in SUBSET Finalizers /\ (Finalizer \in fins <=> Own(o))
    BY <1>1, IamRoleTypes, RoleControllerAssumption DEF Own, ContainsFinalizer
  <2>2. new \in IamRoles
    BY <1>1, <2>1, IamRoleTypes
  <2>3. HeldState(new) = HeldObjects[r]
    BY <1>1, <1>2, <2>1
       DEF HeldState, WithFinalizers, Own, ContainsFinalizer, Deleting, IamRoles
  <2> QED
    BY <1>4, <1>8, <2>2, <2>3 DEF ReleaseFinalizer
<1> QED
  BY <1>5, <1>6, <1>7, <1>8 DEF Users

LEMMA RefManager ==
    ASSUME IInv, Manager
    PROVE  [MR!Next]_(MR!vars)
<1>1. hist \in [Roles -> Versions(IamRoles)]
  BY DEF IInv, TypeOK
<1>2. ASSUME UNCHANGED <<hist, iam, w>>
      PROVE  [MR!Next]_(MR!vars)
  BY <1>2, HiddenStep
     DEF Hidden, HeldObjects, ProvidedRoles, FinalizationTask, Finalization, At
<1>3. ASSUME NEW r \in Roles, Sync(r)
      PROVE  [MR!Next]_(MR!vars)
  <2>1. \A q \in Roles : Latest(hist'[q]) = Latest(hist[q])
    BY <1>1, <1>3, DeliveredVersions DEF Sync
  <2>2. UNCHANGED <<ProvidedRoles, FinalizationTask>>
    BY <1>3 DEF Sync, ProvidedRoles, FinalizationTask, Finalization, At
  <2> QED
    BY <2>1, <2>2, LatestShows, HiddenStep DEF Hidden
<1>4. CASE Restart
  <2>1. \A q \in Roles : Latest(hist'[q]) = Latest(hist[q])
    BY <1>1, <1>4, RelistedVersions DEF Restart
  <2>2. UNCHANGED ProvidedRoles /\ w' = Idle
    BY <1>4 DEF Restart, ProvidedRoles
  <2> QED
    BY <2>1, <2>2, LatestShows, IdleStep
<1> QED
  BY <1>2, <1>3, <1>4 DEF Manager, Resync, BindingEvent, PolicySeen

LEMMA RefAws ==
    ASSUME IInv, Aws
    PROVE  [MR!Next]_(MR!vars)
<1>1. iam \in [Roles -> UpstreamRole]
  BY DEF IInv, TypeOK
<1>2. UNCHANGED <<HeldObjects, FinalizationTask>>
  BY DEF Aws, ExternalCreate, ExternalDelete, ExternalTrust, Interferes, UpstreamPolicy,
         HeldObjects, FinalizationTask, Finalization, At
<1>3. ASSUME NEW r \in Roles, NEW i, Interferes(r, i),
             i.owner = "controller" <=> iam[r].owner = "controller"
      PROVE  [MR!Next]_(MR!vars)
  BY <1>2, <1>3, UpstreamShows, HiddenStep DEF Interferes, Hidden
<1>4. ASSUME NEW r \in Roles, ExternalCreate(r)
      PROVE  [MR!Next]_(MR!vars)
  BY <1>1, <1>3, <1>4 DEF ExternalCreate, Created, Exists, UpstreamRole
<1>5. ASSUME NEW r \in Roles, ExternalDelete(r)
      PROVE  [MR!Next]_(MR!vars)
  <2>1. Removed(iam[r]).owner = "none" /\ Interferes(r, Removed(iam[r]))
    BY <1>1, <1>5 DEF ExternalDelete, Removed, UpstreamRole
  <2>2. ProvidedRoles' = [ProvidedRoles EXCEPT ![r] = FALSE]
    BY <2>1, UpstreamShows DEF Interferes
  <2>3. MR!Lose(r)
    BY <1>2, <2>2 DEF MR!Lose
  <2> QED
    BY <2>3 DEF MR!Next
<1>6. ASSUME NEW r \in Roles, NEW f \in ForeignTrust, ExternalTrust(r, f)
      PROVE  [MR!Next]_(MR!vars)
  BY <1>1, <1>3, <1>6 DEF ExternalTrust, WithTrust, UpstreamRole
<1>7. ASSUME NEW new \in SUBSET Policies, UpstreamPolicy(new)
      PROVE  [MR!Next]_(MR!vars)
  BY <1>2, <1>7, HiddenStep DEF UpstreamPolicy, Hidden, ProvidedRoles
<1> QED
  BY <1>4, <1>5, <1>6, <1>7 DEF Aws

LEMMA RefStep == IInv /\ IInv' /\ [Next]_vars => [MR!Next]_(MR!vars)
<1> SUFFICES ASSUME IInv, IInv', [Next]_vars PROVE [MR!Next]_(MR!vars)
  OBVIOUS
<1>1. CASE UNCHANGED vars
  BY <1>1, HiddenStep
     DEF vars, Hidden, HeldObjects, ProvidedRoles, FinalizationTask, Finalization, At
<1>2. ASSUME NEW r \in Roles, Start(r)
      PROVE  [MR!Next]_(MR!vars)
  BY <1>2, RefStart
<1>3. CASE Reconcile
  BY <1>3, RefAddFinalizer, RefProvisioning, RefFinGet, RefFinDelete,
     RefRemoveFinalizer DEF Reconcile, ProvisioningCall
<1> QED
  BY <1>1, <1>2, <1>3, RefUsers, RefManager, RefAws DEF Next

(* IamRoleReconciler is a correct manager of a resource: it implements     *)
(* ManagedResource.                                                        *)
THEOREM ImplementsManagedResourceHolds == Spec => ImplementsManagedResource
<1>1. Spec => MR!Init /\ [][MR!Next]_(MR!vars)
  BY RefInit, RefStep, Invariant, PTL DEF Spec
<1> QED
  BY <1>1 DEF ImplementsManagedResource, MR!Spec
=============================================================================
