----------------------- MODULE PolicyRefinementProofs -----------------------
(***************************************************************************)
(* PolicyController implements ManagedResource, for every value of the     *)
(* constants, while it is Undisturbed: every step of the reconciler, of    *)
(* the manager, of users and of administrators is a step of the abstract   *)
(* specification or a stutter.                                             *)
(***************************************************************************)
EXTENDS PolicyControllerProofs

LEMMA RefInit == Init => MR!Init
<1> SUFFICES ASSUME Init PROVE MR!Init
  OBVIOUS
<1>1. \A p \in Policies : Latest(hist[p]) = NoIamPolicy
  BY DEF Init, Latest
<1>2. HeldState(NoIamPolicy) = "free"
  BY DEF HeldState, Own, ContainsFinalizer, NoIamPolicy
<1>3. HeldObjects = [p \in Policies |-> "free"]
  BY <1>1, <1>2 DEF HeldObjects
<1>4. ProvidedPolicies = [p \in Policies |-> FALSE]
  BY DEF Init, ProvidedPolicies, NoUpstreamPolicy, Managed
<1>5. FinalizationTask = MR!NoTask
  BY DEF Init, FinalizationTask, Finalization, At, Idle, Getting, MR!NoTask
<1> QED
  BY <1>3, <1>4, <1>5 DEF MR!Init

-----------------------------------------------------------------------------
(* What a step shows of itself.                                            *)

(* A write changes one object.                                             *)
LEMMA WriteShows ==
    ASSUME IInv, NEW p \in Policies, NEW o \in IamPolicies, WriteIamPolicy(p, o)
    PROVE  /\ HeldObjects' = [HeldObjects EXCEPT ![p] = HeldState(o)]
           /\ HeldState(o) = HeldObjects[p] => UNCHANGED HeldObjects
<1>1. /\ hist'[p] = Written(hist[p], o)
      /\ \A q \in Policies \ {p} : hist'[q] = hist[q]
  BY WriteType DEF IInv, TypeOK
<1>2. Latest(hist'[p]) = o
  BY <1>1, WrittenVersions DEF IInv, TypeOK
<1> QED
  BY <1>1, <1>2 DEF HeldObjects

LEMMA LatestShows ==
    ASSUME \A p \in Policies : Latest(hist'[p]) = Latest(hist[p])
    PROVE  UNCHANGED HeldObjects
  BY DEF HeldObjects

(* A change of one policy in IAM.                                          *)
LEMMA UpstreamShows ==
    ASSUME IInv, NEW p \in Policies, NEW i, iam' = [iam EXCEPT ![p] = i]
    PROVE  /\ ProvidedPolicies' = [ProvidedPolicies EXCEPT ![p] = Managed(i)]
           /\ (Managed(i) <=> Managed(iam[p])) => UNCHANGED ProvidedPolicies
<1>1. /\ iam'[p] = i
      /\ \A q \in Policies \ {p} : iam'[q] = iam[q]
  BY DEF IInv, TypeOK
<1> QED
  BY <1>1 DEF ProvidedPolicies, Managed

Withdraws(v) == v.pc = "deletePolicy" \/ (v.pc \in Getting /\ v.why = "finalize")

LEMMA WorkerShows ==
    /\ Withdraws(w) => FinalizationTask = MR!Task("withdraw", w.cur)
    /\ w.pc = "removeFinalizer" => FinalizationTask = MR!Task("remove", w.cur)
    /\ ~Finalizes(w) => FinalizationTask = MR!NoTask
  BY DEF FinalizationTask, Finalization, At, Withdraws, Finalizes, Getting, MR!NoTask,
         MR!Task

LEMMA NextWorkerShows ==
    /\ Withdraws(w') => FinalizationTask' = MR!Task("withdraw", w'.cur)
    /\ w'.pc = "removeFinalizer" => FinalizationTask' = MR!Task("remove", w'.cur)
    /\ ~Finalizes(w') => FinalizationTask' = MR!NoTask
  BY DEF FinalizationTask, Finalization, At, Withdraws, Finalizes, Getting, MR!NoTask,
         MR!Task

LEMMA IdleShows ==
    ASSUME w' = Idle
    PROVE  FinalizationTask' = MR!NoTask
  BY NextWorkerShows DEF Idle, Finalizes, Getting

(* A step that shows nothing.                                              *)
Hidden == UNCHANGED <<HeldObjects, ProvidedPolicies, FinalizationTask>>

LEMMA HiddenStep == Hidden => [MR!Next]_(MR!vars)
  BY DEF Hidden, MR!vars

(* The worker gives up, or was not finalizing.                             *)
LEMMA IdleStep ==
    ASSUME UNCHANGED <<HeldObjects, ProvidedPolicies>>, w' = Idle
    PROVE  MR!Next
  BY IdleShows DEF MR!Next, MR!GiveUp

-----------------------------------------------------------------------------
(* Reconcile and Finalize.                                                 *)

(* A finalization begins on an object that is not held, however old the    *)
(* copy of it is that the worker starts from.                              *)
LEMMA RefStart ==
    ASSUME IInv, IInv', NEW p \in Policies, Start(p)
    PROVE  [MR!Next]_(MR!vars)
<1>1. UNCHANGED <<HeldObjects, ProvidedPolicies, hist>>
  BY DEF Start, HeldObjects, ProvidedPolicies
<1>2. FinalizationTask = MR!NoTask
  BY WorkerShows DEF Start, At, Finalizes, Getting
<1>3. CASE ~Finalizes(w')
  BY <1>1, <1>2, <1>3, NextWorkerShows, HiddenStep DEF Hidden
<1>4. CASE Finalizes(w')
  <2> DEFINE v == [Idle EXCEPT !.cur = p, !.inst = Cached(hist[p])]
  <2>1. w' = FirstCall(v) /\ w' # Idle
    BY <1>4 DEF Start, Finalizes, Idle, Getting
  <2>2. v \in Workers /\ v.cur = p
    BY VersionsExist, IdleOK DEF IInv, TypeOK, WorkerOK, Workers, Idle
  <2>3. Follows(w', v, {"getPolicy", "list", "addFinalizer"})
    BY <2>1, <2>2, FirstCallNext
  <2>4. w'.cur = p /\ Withdraws(w')
    BY <1>4, <2>1, <2>2, <2>3 DEF Follows, Finalizes, Withdraws, Getting
  <2>5. Dying(hist[p], Finalizer)
    BY <1>1, <1>4, <2>4 DEF IInv, WorkerKnows
  <2>6. Len(hist[p]) \in 1..Len(hist[p])
    BY VersionsExist DEF IInv, TypeOK
  <2>7. Own(Latest(hist[p])) => Deleting(Latest(hist[p]))
    BY <2>5, <2>6 DEF Dying, DeletingWith, Own, Latest
  <2>8. HeldObjects[p] # "held"
    BY <2>7 DEF HeldObjects, HeldState
  <2>9. MR!BeginFinalize(p)
    BY <1>1, <1>2, <2>4, <2>8, NextWorkerShows DEF MR!BeginFinalize
  <2> QED
    BY <2>9 DEF MR!Next
<1> QED
  BY <1>3, <1>4

LEMMA RefAddFinalizer ==
    ASSUME IInv, AddFinalizer
    PROVE  [MR!Next]_(MR!vars)
<1> DEFINE o == Latest(hist[w.cur])
           new == Applied(o, Finalizer)
<1>1. PICK out \in Outcomes(ApplyAccepted(o, Finalizer)) :
        /\ IF TookEffect(out) THEN WriteIamPolicy(w.cur, new) ELSE UNCHANGED hist
        /\ Settle(out = "ok", ByStatus(w, "look"))
  BY DEF AddFinalizer
<1>2. /\ w \in Workers /\ w.cur \in Policies /\ w.pc = "addFinalizer"
      /\ o \in IamPolicies /\ new \in IamPolicies
  BY VersionsExist, IamPolicyTypes DEF IInv, TypeOK, AddFinalizer, At
<1>3. FinalizationTask = MR!NoTask /\ UNCHANGED ProvidedPolicies
  BY <1>2, WorkerShows DEF AddFinalizer, ProvidedPolicies, Finalizes, Getting
<1>4. FinalizationTask' = MR!NoTask
  <2>1. w' = Idle \/ (w'.pc \in {"getPolicy", "list"} /\ w'.why = "look")
    BY <1>1, <1>2, ByStatusNext DEF Settle, Purposes
  <2> QED
    BY <2>1, NextWorkerShows, IdleShows DEF Finalizes, Getting
<1>5. CASE ~TookEffect(out)
  BY <1>1, <1>3, <1>4, <1>5, HiddenStep DEF Hidden, HeldObjects
<1>6. CASE TookEffect(out)
  <2>1. WriteIamPolicy(w.cur, new) /\ ApplyAccepted(o, Finalizer)
    BY <1>1, <1>6 DEF Outcomes, TookEffect
  <2>2. HeldObjects[w.cur] = HeldState(o)
    BY <1>2 DEF HeldObjects
  <2>3. CASE Own(o)
    <3>1. Present(o)
      BY <1>2, <2>3, OwnIsPresent DEF IInv, TypeOK
    <3>2. HeldState(new) = HeldState(o)
      BY <1>2, <2>3, <3>1
         DEF HeldState, Applied, Own, ContainsFinalizer, Deleting, IamPolicies
    <3> QED
      BY <1>2, <1>3, <1>4, <2>1, <2>2, <3>2, WriteShows, HiddenStep DEF Hidden
  <2>4. CASE ~Own(o)
    <3>1. HeldState(new) = "held"
      BY <1>2, <2>1, <2>4
         DEF HeldState, ApplyAccepted, Applied, Own, ContainsFinalizer, Deleting,
             Present, IamPolicies
    <3>2. HeldObjects[w.cur] = "free"
      BY <2>2, <2>4 DEF HeldState
    <3>3. MR!Hold(w.cur)
      BY <1>2, <1>3, <1>4, <2>1, <3>1, <3>2, WriteShows DEF MR!Hold
    <3> QED
      BY <1>2, <3>3 DEF MR!Next
  <2> QED
    BY <2>3, <2>4
<1> QED
  BY <1>5, <1>6

(* Get, for whatever purpose.  Finalize's goes on to delete what is there, *)
(* or to remove the finalizer when nothing is.                             *)
LEMMA RefGet ==
    ASSUME Undisturbed, IInv, IInv', List \/ GetPolicy \/ GetVersion
    PROVE  [MR!Next]_(MR!vars)
<1>1. /\ w \in Workers /\ w.cur \in Policies /\ w.pc \in Getting
      /\ UNCHANGED <<HeldObjects, ProvidedPolicies, iam>>
  BY DEF IInv, TypeOK, At, Getting, List, GetPolicy, GetVersion, HeldObjects,
         ProvidedPolicies
<1>2. CASE w' = Idle
  BY <1>1, <1>2, IdleStep
<1>3. CASE w' # Idle /\ ~Finalizes(w)
  <2>1. ~Finalizes(w')
    <3>1. Onward
      BY <1>3, GetOnward
    <3> QED
      BY <1>3, <3>1 DEF Onward
  <2> QED
    BY <1>1, <1>3, <2>1, WorkerShows, NextWorkerShows, HiddenStep DEF Hidden
<1>4. CASE w' # Idle /\ Finalizes(w)
  <2>1. Onward
    BY <1>4, GetOnward
  <2>2. FinalizationTask = MR!Task("withdraw", w.cur) /\ w'.cur = w.cur
    BY <1>1, <1>4, <2>1, WorkerShows DEF Finalizes, Withdraws, Getting, Onward
  <2>3. CASE w'.pc = "removeFinalizer"
    <3>1. ~Managed(iam[w.cur])
      BY <1>1, <2>1, <2>3 DEF Onward
    <3>2. ProvidedPolicies' = [ProvidedPolicies EXCEPT ![w.cur] = FALSE]
      BY <1>1, <3>1 DEF ProvidedPolicies, Managed
    <3>3. MR!Withdraw(w.cur)
      BY <1>1, <2>2, <2>3, <3>2, NextWorkerShows DEF MR!Withdraw
    <3> QED
      BY <1>1, <3>3 DEF MR!Next
  <2>4. CASE Withdraws(w')
    BY <1>1, <2>2, <2>4, NextWorkerShows, HiddenStep DEF Hidden
  <2>5. w'.pc = "removeFinalizer" \/ Withdraws(w')
    BY <1>4, <2>1 DEF Onward, Finalizes, Withdraws, Getting
  <2> QED
    BY <2>3, <2>4, <2>5
<1> QED
  BY <1>2, <1>3, <1>4

(* The policy appears in IAM while its object has the finalizer.           *)
LEMMA RefCreatePolicy ==
    ASSUME IInv, CreatePolicy
    PROVE  [MR!Next]_(MR!vars)
<1> DEFINE d == Desired(w.inst)
<1>1. /\ w \in Workers /\ w.cur \in Policies /\ w.pc = "createPolicy"
      /\ d \in Documents /\ UNCHANGED HeldObjects
  BY DesiredType DEF IInv, TypeOK, Workers, CreatePolicy, At, HeldObjects
<1>2. PICK out \in Outcomes(CreateAccepted(iam[w.cur], d)), v \in VersionIds :
        /\ iam' = IF TookEffect(out) THEN [iam EXCEPT ![w.cur] = CreatedPolicy(v, d)]
                                     ELSE iam
        /\ Settle(out = "ok", ByArn(w, "created"))
  BY DEF CreatePolicy
<1>3. FinalizationTask = MR!NoTask
  BY <1>1, WorkerShows DEF Finalizes, Getting
<1>4. FinalizationTask' = MR!NoTask
  <2>1. w' = Idle \/ (w'.pc = "getPolicy" /\ w'.why = "created")
    BY <1>1, <1>2, ByArnNext DEF Settle, Purposes
  <2> QED
    BY <2>1, NextWorkerShows, IdleShows DEF Finalizes, Getting
<1>5. CASE ~TookEffect(out)
  BY <1>1, <1>2, <1>3, <1>4, <1>5, HiddenStep DEF Hidden, ProvidedPolicies
<1>6. CASE TookEffect(out)
  <2>1. Managed(CreatedPolicy(v, d)) = TRUE
    BY <1>1, CreatedVersions DEF Managed
  <2>2. ProvidedPolicies' = [ProvidedPolicies EXCEPT ![w.cur] = TRUE]
    BY <1>1, <1>2, <1>6, <2>1, UpstreamShows
  <2>3. HeldObjects[w.cur] # "free"
    <3>1. Own(Latest(hist[w.cur]))
      BY <1>1 DEF IInv, WorkerKnows, Provides, Provisioning
    <3> QED
      BY <1>1, <3>1 DEF HeldObjects, HeldState
  <2>4. MR!Provide(w.cur)
    BY <1>1, <1>3, <1>4, <2>2, <2>3 DEF MR!Provide
  <2> QED
    BY <1>1, <2>4 DEF MR!Next
<1> QED
  BY <1>5, <1>6

(* Versions come and go without being seen.                                *)
LEMMA RefVersions ==
    ASSUME IInv, CreateVersion \/ DeleteVersion
    PROVE  [MR!Next]_(MR!vars)
<1> DEFINE i == iam[w.cur]
           d == Desired(w.inst)
<1>1. /\ w \in Workers /\ w.cur \in Policies /\ w.pc \in {"createVersion", "deleteVersion"}
      /\ i \in UpstreamPolicy /\ UNCHANGED HeldObjects
  BY DEF IInv, TypeOK, CreateVersion, DeleteVersion, At, HeldObjects
<1>2. UNCHANGED ProvidedPolicies
  <2>1. \/ UNCHANGED iam
        \/ \E v \in NewIds(i) : iam' = [iam EXCEPT ![w.cur] = WithVersion(i, v, d)]
        \/ iam' = [iam EXCEPT ![w.cur] = WithoutVersion(i, w.version)]
    BY DEF CreateVersion, DeleteVersion
  <2>2. /\ \A v : Managed(WithVersion(i, v, d)) <=> Managed(i)
        /\ Managed(WithoutVersion(i, w.version)) <=> Managed(i)
    BY <1>1 DEF WithVersion, WithoutVersion, Managed, UpstreamPolicy
  <2>3. CASE UNCHANGED iam
    BY <2>3 DEF ProvidedPolicies
  <2> QED
    BY <1>1, <2>1, <2>2, <2>3, UpstreamShows
<1>3. FinalizationTask = MR!NoTask
  BY <1>1, WorkerShows DEF Finalizes, Getting
<1>4. FinalizationTask' = MR!NoTask
  <2>1. \/ w' = Idle
        \/ w'.pc = "deleteVersion"
        \/ w'.pc = "getPolicy" /\ w'.why = "updated"
    BY <1>1, ByArnNext, GotoType
       DEF CreateVersion, DeleteVersion, Settle, Purposes, Calls
  <2> QED
    BY <2>1, NextWorkerShows, IdleShows DEF Finalizes, Getting
<1> QED
  BY <1>1, <1>2, <1>3, <1>4, HiddenStep DEF Hidden

(* Neither does the status show.                                           *)
LEMMA RefPatch ==
    ASSUME IInv, PatchCreated \/ PatchUpdated \/ PatchRoles
    PROVE  [MR!Next]_(MR!vars)
<1> DEFINE o == Latest(hist[w.cur])
<1>1. /\ w \in Workers /\ w.cur \in Policies
      /\ w.pc \in {"patchCreated", "patchUpdated", "patchRoles"}
      /\ o \in IamPolicies /\ w.roles \in SUBSET Roles /\ Desired(w.inst) \in Documents
      /\ UNCHANGED ProvidedPolicies
  BY VersionsExist, DesiredType
     DEF IInv, TypeOK, Workers, PatchCreated, PatchUpdated, PatchRoles, At,
         ProvidedPolicies
<1>2. UNCHANGED HeldObjects
  <2> DEFINE recorded == Recorded(o, Desired(w.inst))
             listed == [o EXCEPT !.roles = w.roles]
  <2>1. /\ recorded \in IamPolicies /\ listed \in IamPolicies
        /\ recorded.phase = o.phase /\ recorded.fins = o.fins
        /\ listed.phase = o.phase /\ listed.fins = o.fins
    BY <1>1, IamPolicyTypes DEF Recorded, IamPolicies
  <2>2. HeldState(recorded) = HeldObjects[w.cur] /\ HeldState(listed) = HeldObjects[w.cur]
    BY <1>1, <2>1 DEF HeldObjects, HeldState, Own, ContainsFinalizer, Deleting
  <2>3. \/ UNCHANGED hist
        \/ WriteIamPolicy(w.cur, recorded)
        \/ WriteIamPolicy(w.cur, listed)
    BY DEF PatchCreated, PatchUpdated, PatchRoles
  <2>4. CASE UNCHANGED hist
    BY <2>4 DEF HeldObjects
  <2> QED
    BY <1>1, <2>1, <2>2, <2>3, <2>4, WriteShows
<1>3. FinalizationTask = MR!NoTask
  BY <1>1, WorkerShows DEF Finalizes, Getting
<1>4. FinalizationTask' = MR!NoTask
  <2>1. \/ w' = Idle
        \/ w' = AfterLook(w)
        \/ w' = AfterUpdate(w)
    BY DEF PatchCreated, PatchUpdated, PatchRoles, Settle
  <2>2. \/ w' = Idle
        \/ w'.pc = "patchRoles"
        \/ w'.pc = "getPolicy" /\ w'.why = "edit"
    BY <1>1, <2>1, AfterLookNext, AfterUpdateNext DEF Follows
  <2> QED
    BY <2>2, NextWorkerShows, IdleShows DEF Finalizes, Getting
<1> QED
  BY <1>1, <1>2, <1>3, <1>4, HiddenStep DEF Hidden

LEMMA RefDeletePolicy ==
    ASSUME IInv, DeletePolicy
    PROVE  [MR!Next]_(MR!vars)
<1>1. /\ w \in Workers /\ w.cur \in Policies /\ w.pc = "deletePolicy"
      /\ UNCHANGED HeldObjects
  BY DEF IInv, TypeOK, DeletePolicy, At, HeldObjects
<1>2. FinalizationTask = MR!Task("withdraw", w.cur)
  BY <1>1, WorkerShows DEF Withdraws
<1>3. PICK out \in Outcomes(DeleteAccepted(iam[w.cur])) :
        /\ iam' = IF TookEffect(out) THEN [iam EXCEPT ![w.cur] = NoUpstreamPolicy]
                                     ELSE iam
        /\ w' = IF out = "ok" THEN Goto("removeFinalizer") ELSE Idle
  BY DEF DeletePolicy, Settle
<1>4. CASE ~TookEffect(out)
  BY <1>1, <1>3, <1>4, IdleStep DEF TookEffect, ProvidedPolicies
<1>5. CASE TookEffect(out)
  <2>1. Managed(NoUpstreamPolicy) = FALSE
    BY DEF Managed, NoUpstreamPolicy
  <2>2. ProvidedPolicies' = [ProvidedPolicies EXCEPT ![w.cur] = FALSE]
    BY <1>1, <1>3, <1>5, <2>1, UpstreamShows
  <2>3. FinalizationTask' \in {MR!Task("remove", w.cur), MR!NoTask}
    BY <1>1, <1>3, NextWorkerShows, IdleShows, GotoType DEF Calls
  <2>4. MR!Withdraw(w.cur)
    BY <1>1, <1>2, <2>2, <2>3 DEF MR!Withdraw
  <2> QED
    BY <1>1, <2>4 DEF MR!Next
<1> QED
  BY <1>4, <1>5

(* An object is released when its policy is gone.                          *)
LEMMA RefRemoveFinalizer ==
    ASSUME IInv, RemoveFinalizer
    PROVE  [MR!Next]_(MR!vars)
<1> DEFINE o == Latest(hist[w.cur])
           fins == w.inst.fins \ {Finalizer}
           new == WithFinalizers(o, fins, NoIamPolicy)
<1>1. PICK out \in Outcomes(FinalizersAccepted(o, fins)) :
        /\ IF TookEffect(out) THEN WriteIamPolicy(w.cur, new) ELSE UNCHANGED hist
        /\ Settle(out = "ok", Idle)
  BY DEF RemoveFinalizer
<1>2. /\ w \in Workers /\ w.cur \in Policies /\ w.pc = "removeFinalizer"
      /\ o \in IamPolicies /\ w.inst \in IamPolicies
      /\ Dying(hist[w.cur], Finalizer)
      /\ ~Managed(iam[w.cur])
      /\ UNCHANGED ProvidedPolicies
  BY VersionsExist
     DEF IInv, TypeOK, Workers, RemoveFinalizer, At, WorkerKnows, Finalizes,
         ProvidedPolicies
<1>3. w' = Idle
  BY <1>1 DEF Settle
<1>4. CASE ~TookEffect(out)
  BY <1>1, <1>2, <1>3, <1>4, IdleStep DEF HeldObjects
<1>5. CASE TookEffect(out)
  <2>1. new \in IamPolicies /\ HeldState(new) = "free"
    <3>1. new \in IamPolicies
      BY <1>2, IamPolicyTypes
    <3> QED
      BY <1>2, <3>1 DEF HeldState, WithFinalizers, Own, ContainsFinalizer, NoIamPolicy,
                        IamPolicies
  <2>2. HeldObjects' = [HeldObjects EXCEPT ![w.cur] = "free"]
    BY <1>1, <1>2, <1>5, <2>1, WriteShows
  <2>3. HeldObjects[w.cur] = HeldState(o)
    BY <1>2 DEF HeldObjects
  <2>4. CASE Own(o)
    <3>1. Len(hist[w.cur]) \in 1..Len(hist[w.cur])
      BY <1>2, VersionsExist DEF IInv, TypeOK
    <3>2. HeldObjects[w.cur] = "releasing"
      BY <1>2, <2>3, <2>4, <3>1 DEF HeldState, Dying, DeletingWith, Own, Latest
    <3>3. ~ProvidedPolicies[w.cur]
      BY <1>2 DEF ProvidedPolicies, Managed
    <3>4. /\ FinalizationTask = MR!Task("remove", w.cur)
          /\ FinalizationTask' = MR!NoTask
      BY <1>2, <1>3, WorkerShows, IdleShows
    <3>5. MR!Release(w.cur)
      BY <1>2, <2>2, <3>2, <3>3, <3>4 DEF MR!Release
    <3> QED
      BY <1>2, <3>5 DEF MR!Next
  <2>5. CASE ~Own(o)
    <3>1. UNCHANGED HeldObjects
      BY <1>1, <1>2, <1>5, <2>1, <2>3, <2>5, WriteShows DEF HeldState
    <3> QED
      BY <1>2, <1>3, <3>1, IdleStep
  <2> QED
    BY <2>4, <2>5
<1> QED
  BY <1>4, <1>5

-----------------------------------------------------------------------------
(* Everybody else.                                                         *)

LEMMA RefUsers ==
    ASSUME IInv, Users
    PROVE  [MR!Next]_(MR!vars)
<1>1. \A p \in Policies : /\ Latest(hist[p]) \in IamPolicies
                          /\ Own(Latest(hist[p])) => Present(Latest(hist[p]))
                          /\ HeldObjects[p] = HeldState(Latest(hist[p]))
  BY VersionsExist, OwnIsPresent DEF IInv, TypeOK, HeldObjects
<1>2. ~Own(NoIamPolicy) /\ NoIamPolicy \in IamPolicies
  BY IamPolicyTypes DEF Own, ContainsFinalizer, NoIamPolicy
<1>3. UNCHANGED <<ProvidedPolicies, FinalizationTask>>
  BY DEF Users, CreateIamPolicy, DeleteIamPolicy, SetDocument, ReleaseFinalizer,
         UserWrites, ProvidedPolicies, FinalizationTask, Finalization, At
<1>4. ASSUME NEW p \in Policies, NEW o \in IamPolicies, UserWrites(p, o),
             HeldState(o) = HeldObjects[p]
      PROVE  [MR!Next]_(MR!vars)
  <2>1. UNCHANGED HeldObjects
    BY <1>4, WriteShows DEF UserWrites
  <2> QED
    BY <1>3, <2>1, HiddenStep DEF Hidden
<1>5. ASSUME NEW p \in Policies, NEW fins \in SUBSET ForeignFinalizers,
             NEW spec \in Specs, CreateIamPolicy(p, fins, spec)
      PROVE  [MR!Next]_(MR!vars)
  <2> DEFINE o == [NoIamPolicy EXCEPT !.phase = "live", !.fins = fins, !.spec = spec]
  <2>1. o \in IamPolicies
    BY <1>2 DEF IamPolicies, Phases, Finalizers
  <2>2. ~Own(o)
    BY PolicyControllerAssumption DEF Own, ContainsFinalizer, NoIamPolicy
  <2>3. ~Own(Latest(hist[p]))
    BY <1>1, <1>5 DEF CreateIamPolicy
  <2>4. HeldState(o) = HeldObjects[p]
    BY <1>1, <2>2, <2>3 DEF HeldState
  <2> QED
    BY <1>4, <1>5, <2>1, <2>4 DEF CreateIamPolicy
<1>6. ASSUME NEW p \in Policies, DeleteIamPolicy(p)
      PROVE  [MR!Next]_(MR!vars)
  <2> DEFINE o == Latest(hist[p])
             new == Deleted(o, NoIamPolicy)
  <2>1. new \in IamPolicies /\ Live(o) /\ UserWrites(p, new)
    BY <1>1, <1>6, IamPolicyTypes DEF DeleteIamPolicy
  <2>2. Own(new) <=> Own(o)
    BY <1>1, <1>2 DEF Deleted, Own, ContainsFinalizer, IamPolicies
  <2>3. CASE ~Own(o)
    <3>1. HeldState(new) = HeldObjects[p]
      BY <1>1, <2>2, <2>3 DEF HeldState
    <3> QED
      BY <1>4, <2>1, <3>1
  <2>4. CASE Own(o)
    <3>1. HeldObjects[p] = "held"
      BY <1>1, <2>1, <2>4 DEF HeldState, Live, Deleting
    <3>2. HeldState(new) = "releasing"
      BY <1>1, <2>2, <2>4
         DEF HeldState, Deleted, Deleting, Own, ContainsFinalizer, IamPolicies
    <3>3. HeldObjects' = [HeldObjects EXCEPT ![p] = "releasing"]
      BY <2>1, <3>2, WriteShows DEF UserWrites
    <3>4. MR!Delete(p)
      BY <1>3, <3>1, <3>3 DEF MR!Delete
    <3> QED
      BY <3>4 DEF MR!Next
  <2> QED
    BY <2>3, <2>4
<1>7. ASSUME NEW p \in Policies, NEW spec \in Specs, SetDocument(p, spec)
      PROVE  [MR!Next]_(MR!vars)
  <2> DEFINE o == Latest(hist[p])
             new == [o EXCEPT !.spec = spec]
  <2>1. new \in IamPolicies /\ new.fins = o.fins /\ new.phase = o.phase
    BY <1>1, IamPolicyTypes DEF IamPolicies
  <2>2. HeldState(new) = HeldObjects[p]
    BY <1>1, <2>1 DEF HeldState, Own, ContainsFinalizer, Deleting
  <2> QED
    BY <1>4, <1>7, <2>1, <2>2 DEF SetDocument
<1>8. ASSUME NEW p \in Policies, NEW f \in ForeignFinalizers, ReleaseFinalizer(p, f)
      PROVE  [MR!Next]_(MR!vars)
  <2> DEFINE o == Latest(hist[p])
             fins == o.fins \ {f}
             new == WithFinalizers(o, fins, NoIamPolicy)
  <2>1. fins \in SUBSET Finalizers /\ (Finalizer \in fins <=> Own(o))
    BY <1>1, IamPolicyTypes, PolicyControllerAssumption DEF Own, ContainsFinalizer
  <2>2. new \in IamPolicies
    BY <1>1, <2>1, IamPolicyTypes
  <2>3. HeldState(new) = HeldObjects[p]
    BY <1>1, <1>2, <2>1
       DEF HeldState, WithFinalizers, Own, ContainsFinalizer, Deleting, IamPolicies
  <2> QED
    BY <1>4, <1>8, <2>2, <2>3 DEF ReleaseFinalizer
<1> QED
  BY <1>5, <1>6, <1>7, <1>8 DEF Users

LEMMA RefManager ==
    ASSUME IInv, Manager
    PROVE  [MR!Next]_(MR!vars)
<1>1. /\ hist \in [Policies -> Versions(IamPolicies)]
      /\ UNCHANGED ProvidedPolicies
  BY DEF IInv, TypeOK, Manager, Sync, Resync, Restart, RoleSeen,
         ProvidedPolicies
<1>2. ASSUME UNCHANGED w, \A q \in Policies : Latest(hist'[q]) = Latest(hist[q])
      PROVE  [MR!Next]_(MR!vars)
  <2>1. UNCHANGED FinalizationTask
    BY <1>2 DEF FinalizationTask, Finalization, At
  <2> QED
    BY <1>1, <1>2, <2>1, LatestShows, HiddenStep DEF Hidden
<1>3. ASSUME NEW p \in Policies, Sync(p)
      PROVE  [MR!Next]_(MR!vars)
  BY <1>1, <1>2, <1>3, DeliveredVersions DEF Sync
<1>4. CASE Restart
  <2>1. \A q \in Policies : Latest(hist'[q]) = Latest(hist[q])
    BY <1>1, <1>4, RelistedVersions DEF Restart
  <2> QED
    BY <1>1, <1>4, <2>1, LatestShows, IdleStep DEF Restart
<1> QED
  BY <1>2, <1>3, <1>4 DEF Manager, Resync, RoleSeen

LEMMA RefAws ==
    ASSUME Undisturbed, IInv, Aws
    PROVE  [MR!Next]_(MR!vars)
<1>1. UNCHANGED <<HeldObjects, FinalizationTask>>
  BY DEF Aws, ExternalCreate, ExternalDelete, ExternalVersion, ExternalPrune,
         Interferes, HeldObjects, FinalizationTask, Finalization, At
<1>2. ASSUME NEW p \in Policies, NEW i, Interferes(p, i),
             Managed(i) <=> Managed(iam[p])
      PROVE  [MR!Next]_(MR!vars)
  BY <1>1, <1>2, UpstreamShows, HiddenStep DEF Interferes, Hidden
<1>3. ASSUME NEW p \in Policies, ExternalCreate(p)
      PROVE  [MR!Next]_(MR!vars)
  BY <1>2, <1>3 DEF ExternalCreate, Managed, NoUpstreamPolicy
<1>4. ASSUME NEW p \in Policies, ExternalDelete(p)
      PROVE  [MR!Next]_(MR!vars)
  <2>1. ProvidedPolicies' = [ProvidedPolicies EXCEPT ![p] = FALSE]
    <3>1. Managed(NoUpstreamPolicy) = FALSE
      BY DEF Managed, NoUpstreamPolicy
    <3> QED
      BY <1>4, <3>1, UpstreamShows DEF ExternalDelete, Interferes
  <2>2. MR!Lose(p)
    BY <1>1, <2>1 DEF MR!Lose
  <2> QED
    BY <2>2 DEF MR!Next
<1>5. ASSUME NEW p \in Policies, NEW v \in VersionIds, ExternalPrune(p, v)
      PROVE  [MR!Next]_(MR!vars)
  <2>1. Managed(WithoutVersion(iam[p], v)) <=> Managed(iam[p])
    BY DEF IInv, TypeOK, WithoutVersion, Managed, UpstreamPolicy
  <2> QED
    BY <1>2, <1>5, <2>1 DEF ExternalPrune
<1> QED
  BY <1>3, <1>4, <1>5 DEF Aws, ExternalVersion, Undisturbed

LEMMA RefStep == Undisturbed /\ IInv /\ IInv' /\ [Next]_vars => [MR!Next]_(MR!vars)
<1> SUFFICES ASSUME Undisturbed, IInv, IInv', [Next]_vars PROVE [MR!Next]_(MR!vars)
  OBVIOUS
<1>1. CASE UNCHANGED vars
  BY <1>1, HiddenStep
     DEF vars, Hidden, HeldObjects, ProvidedPolicies, FinalizationTask, Finalization, At
<1>2. ASSUME NEW p \in Policies, Start(p)
      PROVE  [MR!Next]_(MR!vars)
  BY <1>2, RefStart
<1>3. CASE Reconcile
  BY <1>3, RefAddFinalizer, RefGet, RefCreatePolicy, RefVersions, RefPatch,
     RefDeletePolicy, RefRemoveFinalizer DEF Reconcile
<1> QED
  BY <1>1, <1>2, <1>3, RefUsers, RefManager, RefAws DEF Next

(* IamPolicyReconciler, alone with its policies, is a correct manager of a *)
(* resource: it implements ManagedResource.                                *)
THEOREM ImplementsManagedResourceHolds ==
    ASSUME Undisturbed PROVE Spec => ImplementsManagedResource
<1>1. IInv /\ IInv' /\ [Next]_vars => [MR!Next]_(MR!vars)
  BY RefStep
<1>2. Spec => MR!Init /\ [][MR!Next]_(MR!vars)
  BY <1>1, RefInit, Invariant, PTL DEF Spec
<1> QED
  BY <1>2 DEF ImplementsManagedResource, MR!Spec
=============================================================================
