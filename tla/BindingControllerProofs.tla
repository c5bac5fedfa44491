----------------------- MODULE BindingControllerProofs -----------------------
(***************************************************************************)
(* BindingController is type correct, and satisfies AnnotatesOnlyHeld,     *)
(* ReleasesOnlyDeleting and RecordIsWhole, for every value of the          *)
(* constants.                                                              *)
(***************************************************************************)
EXTENDS BindingProperties, FinalizerHistoryProofs

-----------------------------------------------------------------------------
(* Types of what the actions are built from.                               *)

LEMMA BindingTypes ==
    /\ NoBinding \in IamRoleBindings
    /\ \A o \in IamRoleBindings : o.phase \in Phases /\ o.fins \in SUBSET Finalizers
    /\ \A o \in IamRoleBindings : Deleted(o, NoBinding) \in IamRoleBindings
    /\ \A o \in IamRoleBindings : Applied(o, Finalizer) \in IamRoleBindings
    /\ \A o \in IamRoleBindings, fins \in SUBSET Finalizers :
          WithFinalizers(o, fins, NoBinding) \in IamRoleBindings
    /\ \A o \in IamRoleBindings, r \in Roles, s \in ServiceAccounts :
          [o EXCEPT !.role = r, !.sa = s] \in IamRoleBindings
  BY DEF NoBinding, IamRoleBindings, Phases, Finalizers, Deleted, Applied,
         WithFinalizers, Present, Deleting

LEMMA WithStatusType ==
    ASSUME NEW o \in IamRoleBindings, NEW inst \in IamRoleBindings,
           NEW arn \in Arns \cup {None}
    PROVE  /\ WithStatus(o, inst, arn) \in IamRoleBindings
           /\ WithStatus(o, inst, arn).phase = o.phase
           /\ WithStatus(o, inst, arn).fins = o.fins
  BY DEF WithStatus, IamRoleBindings

LEMMA AccountTypes ==
    /\ NoAccount \in Accounts
    /\ \A a \in Accounts, arn \in Arns \cup {None} : [a EXCEPT !.ann = arn] \in Accounts
    /\ [phase |-> "live", ann |-> None] \in Accounts
  BY DEF NoAccount, Accounts

(* A write makes a version of one binding and leaves the others alone.     *)
LEMMA WriteType ==
    ASSUME hist \in [Bindings -> Versions(IamRoleBindings)],
           NEW b \in Bindings, NEW o \in IamRoleBindings, WriteBinding(b, o)
    PROVE  /\ hist' \in [Bindings -> Versions(IamRoleBindings)]
           /\ hist'[b] = Written(hist[b], o)
           /\ \A c \in Bindings \ {b} : hist'[c] = hist[c]
<1>1. Written(hist[b], o) \in Versions(IamRoleBindings)
  BY WrittenVersions
<1> QED
  BY <1>1 DEF WriteBinding

(* A write to a name that no service account has changes nothing.          *)
LEMMA WriteAccountType ==
    ASSUME accounts \in [ServiceAccounts -> Versions(Accounts)], NEW s,
           NEW a, s \in ServiceAccounts => a \in Accounts, WriteAccount(s, a)
    PROVE  accounts' \in [ServiceAccounts -> Versions(Accounts)]
<1>1. CASE s \in ServiceAccounts
  <2>1. Written(accounts[s], a) \in Versions(Accounts)
    BY <1>1, WrittenVersions
  <2> QED
    BY <1>1, <2>1 DEF WriteAccount
<1>2. CASE s \notin ServiceAccounts
  BY <1>2 DEF WriteAccount
<1> QED
  BY <1>1, <1>2

WorkerOK(v) == v \in Workers /\ (v.pc # "idle" => v.cur \in Bindings)

LEMMA IdleOK == WorkerOK(Idle)
  BY BindingTypes DEF WorkerOK, Workers, Idle

LEMMA ChargeType ==
    ASSUME faults \in 0..MaxFaults, NEW acc, NEW out \in Outcomes(acc), Charge(out)
    PROVE  faults' \in 0..MaxFaults
<1>1. MaxFaults \in Nat
  BY MaxFaultsAssumption
<1>2. out \in {"failed", "lost"} => faults < MaxFaults
  BY DEF Outcomes
<1> QED
  BY <1>1, <1>2 DEF Charge

LEMMA SettleType ==
    ASSUME TypeOK, w.pc # "idle", NEW ok, NEW next, ok => WorkerOK(next),
           Settle(ok, next)
    PROVE  WorkerOK(w') /\ queue' \subseteq Bindings
<1>1. WorkerOK(w')
  BY IdleOK DEF Settle
<1>2. queue' \subseteq Bindings
  BY DEF Settle, TypeOK
<1> QED
  BY <1>1, <1>2

LEMMA GotoType ==
    ASSUME w \in Workers, w.cur \in Bindings, NEW pc \in Calls
    PROVE  /\ WorkerOK(Goto(pc))
           /\ Goto(pc).pc = pc
           /\ Goto(pc).cur = w.cur
           /\ Goto(pc).inst = w.inst
  BY DEF Goto, WorkerOK, Workers, Calls

LEMMA AfterBindType ==
    ASSUME NEW v \in Workers, v.cur \in Bindings
    PROVE  /\ WorkerOK(AfterBind(v))
           /\ \/ AfterBind(v) = Idle
              \/ AfterBind(v).pc = "patchStatus" /\ AfterBind(v).cur = v.cur
  BY IdleOK DEF AfterBind, WorkerOK, Workers, Calls

-----------------------------------------------------------------------------
(* Type correctness.                                                       *)

LEMMA TypeInit == Init => TypeOK
<1> SUFFICES ASSUME Init PROVE TypeOK
  OBVIOUS
<1>1. <<NoBinding>> \in Versions(IamRoleBindings)
  <2>1. NoBinding \in IamRoleBindings
    BY BindingTypes
  <2> QED
    BY <2>1 DEF Versions
<1>2. <<NoAccount>> \in Versions(Accounts)
  BY AccountTypes DEF Versions
<1>3. faults \in 0..MaxFaults
  BY MaxFaultsAssumption DEF Init
<1>4. WorkerOK(w)
  BY IdleOK DEF Init
<1> QED
  BY <1>1, <1>2, <1>3, <1>4 DEF Init, TypeOK, WorkerOK

LEMMA TypeReconcile ==
    ASSUME TypeOK, Reconcile
    PROVE  TypeOK'
<1>1. /\ w \in Workers /\ w.pc # "idle" /\ w.cur \in Bindings
      /\ hist \in [Bindings -> Versions(IamRoleBindings)]
      /\ accounts \in [ServiceAccounts -> Versions(Accounts)]
      /\ arns \in [Roles -> Arns \cup {None}]
      /\ Latest(hist[w.cur]) \in IamRoleBindings
      /\ \A s \in ServiceAccounts : Latest(accounts[s]) \in Accounts
      /\ w.inst \in IamRoleBindings /\ w.arn \in Arns \cup {None}
  BY VersionsExist DEF TypeOK, Reconcile, At, AddFinalizer, Finalize, Unannotate,
     RemoveFinalizer, Bind, Annotate, PatchStatus, Workers
<1> DEFINE Rest == WorkerOK(w') /\ queue' \subseteq Bindings /\ UNCHANGED arns
<1>2. ASSUME Rest, hist' \in [Bindings -> Versions(IamRoleBindings)],
             accounts' \in [ServiceAccounts -> Versions(Accounts)],
             faults' \in 0..MaxFaults
      PROVE  TypeOK'
  BY <1>2 DEF TypeOK, WorkerOK
<1>3. WorkerOK(AfterFinalize) /\ WorkerOK(Goto(AfterFinalizer(w.inst)))
  BY <1>1, GotoType DEF AfterFinalize, AfterFinalizer, Calls
<1>4. ASSUME NEW acc, NEW out \in Outcomes(acc), Charge(out)
      PROVE  faults' \in 0..MaxFaults
  BY <1>4, ChargeType DEF TypeOK
<1>5. CASE AddFinalizer
  <2> DEFINE o == Latest(hist[w.cur])
  <2>1. PICK out \in Outcomes(ApplyAccepted(o, Finalizer)) :
          /\ IF TookEffect(out) THEN WriteBinding(w.cur, Applied(o, Finalizer))
                                ELSE UNCHANGED hist
          /\ Settle(out = "ok", Goto(AfterFinalizer(w.inst)))
          /\ Charge(out)
    BY <1>5 DEF AddFinalizer
  <2>2. Rest
    BY <2>1, <1>1, <1>3, <1>5, SettleType DEF AddFinalizer
  <2>3. hist' \in [Bindings -> Versions(IamRoleBindings)]
    BY <2>1, <1>1, WriteType, BindingTypes
  <2> QED
    BY <2>1, <2>2, <2>3, <1>1, <1>2, <1>4, <1>5 DEF AddFinalizer
<1>6. CASE Finalize
  <2>1. WorkerOK(w')
    BY <1>1, <1>3, <1>6, GotoType DEF Finalize, Calls
  <2> QED
    BY <2>1, <1>1, <1>2, <1>6 DEF Finalize, TypeOK
<1>7. CASE Unannotate
  <2> DEFINE s == w.inst.bsa
             new == [Latest(accounts[s]) EXCEPT !.ann = None]
  <2>1. PICK out \in Outcomes(Present(Latest(accounts[s]))) :
          /\ IF TookEffect(out) THEN WriteAccount(s, new) ELSE UNCHANGED accounts
          /\ Settle(out = "ok", AfterFinalize)
          /\ Charge(out)
    BY <1>7 DEF Unannotate
  <2>2. Rest
    BY <2>1, <1>1, <1>3, <1>7, SettleType DEF Unannotate
  <2>3. s \in ServiceAccounts => new \in Accounts
    BY <1>1, AccountTypes
  <2>4. accounts' \in [ServiceAccounts -> Versions(Accounts)]
    BY <2>1, <2>3, <1>1, WriteAccountType
  <2> QED
    BY <2>1, <2>2, <2>4, <1>1, <1>2, <1>4, <1>7 DEF Unannotate
<1>8. CASE RemoveFinalizer
  <2> DEFINE fins == w.inst.fins \ {Finalizer}
             o == Latest(hist[w.cur])
  <2>1. WithFinalizers(o, fins, NoBinding) \in IamRoleBindings
    BY <1>1, BindingTypes
  <2>2. PICK out \in Outcomes(FinalizersAccepted(o, fins)) :
          /\ IF TookEffect(out)
             THEN WriteBinding(w.cur, WithFinalizers(o, fins, NoBinding))
             ELSE UNCHANGED hist
          /\ Settle(out = "ok", Idle)
          /\ Charge(out)
    BY <1>8 DEF RemoveFinalizer
  <2>3. Rest
    BY <2>2, <1>1, <1>8, SettleType, IdleOK DEF RemoveFinalizer
  <2>4. hist' \in [Bindings -> Versions(IamRoleBindings)]
    BY <2>1, <2>2, <1>1, WriteType
  <2> QED
    BY <2>2, <2>3, <2>4, <1>1, <1>2, <1>4, <1>8 DEF RemoveFinalizer
<1>9. CASE Bind
  <2> DEFINE o == w.inst
             v == [w EXCEPT !.arn = arns[o.role]]
             a == Cached(accounts[o.sa])
             ok == /\ RoleReady(o) /\ o.sa # None /\ Present(a) /\ ~Conflict(o)
             next == IF a.ann = None THEN [v EXCEPT !.pc = "annotate"] ELSE AfterBind(v)
  <2>1. Settle(ok, next)
    BY <1>9 DEF Bind
  <2>2. ASSUME ok
        PROVE  WorkerOK(next)
    <3>1. o.role \in Roles
      BY <2>2, <1>1 DEF RoleReady, IamRoleBindings
    <3>2. v \in Workers /\ v.cur \in Bindings
      BY <3>1, <1>1 DEF Workers
    <3> QED
      BY <3>2, AfterBindType DEF WorkerOK, Workers, Calls
  <2>3. Rest
    BY <2>1, <2>2, <1>1, <1>9, SettleType DEF Bind
  <2> QED
    BY <2>3, <1>1, <1>2, <1>9 DEF Bind, TypeOK
<1>10. CASE Annotate
  <2> DEFINE s == w.inst.sa
             new == [Latest(accounts[s]) EXCEPT !.ann = w.arn]
  <2>1. PICK out \in Outcomes(Present(Latest(accounts[s]))) :
          /\ IF TookEffect(out) THEN WriteAccount(s, new) ELSE UNCHANGED accounts
          /\ Settle(out = "ok", AfterBind(w))
          /\ Charge(out)
    BY <1>10 DEF Annotate
  <2>2. Rest
    BY <2>1, <1>1, <1>10, SettleType, AfterBindType DEF Annotate
  <2>3. s \in ServiceAccounts => new \in Accounts
    BY <1>1, AccountTypes
  <2>4. accounts' \in [ServiceAccounts -> Versions(Accounts)]
    BY <2>1, <2>3, <1>1, WriteAccountType
  <2> QED
    BY <2>1, <2>2, <2>4, <1>1, <1>2, <1>4, <1>10 DEF Annotate
<1>11. CASE PatchStatus
  <2> DEFINE o == Latest(hist[w.cur])
             new == WithStatus(o, w.inst, w.arn)
  <2>1. PICK out \in Outcomes(Present(o)) :
          /\ IF TookEffect(out) THEN WriteBinding(w.cur, new) ELSE UNCHANGED hist
          /\ Settle(out = "ok", Idle)
          /\ Charge(out)
    BY <1>11 DEF PatchStatus
  <2>2. Rest
    BY <2>1, <1>1, <1>11, SettleType, IdleOK DEF PatchStatus
  <2>3. hist' \in [Bindings -> Versions(IamRoleBindings)]
    BY <2>1, <1>1, WriteType, WithStatusType
  <2> QED
    BY <2>1, <2>2, <2>3, <1>1, <1>2, <1>4, <1>11 DEF PatchStatus
<1> QED
  BY <1>5, <1>6, <1>7, <1>8, <1>9, <1>10, <1>11 DEF Reconcile

LEMMA TypeManager ==
    ASSUME TypeOK, Manager
    PROVE  TypeOK'
<1>1. ASSUME NEW b \in Bindings, Sync(b)
      PROVE  TypeOK'
  <2>1. Delivered(hist[b]) \in Versions(IamRoleBindings)
    BY <1>1, DeliveredVersions DEF TypeOK, Sync
  <2> QED
    BY <1>1, <2>1 DEF TypeOK, Sync
<1>2. ASSUME NEW s \in ServiceAccounts, SyncAccount(s)
      PROVE  TypeOK'
  <2>1. Delivered(accounts[s]) \in Versions(Accounts)
    BY <1>2, DeliveredVersions DEF TypeOK, SyncAccount
  <2> QED
    BY <1>2, <2>1 DEF TypeOK, SyncAccount
<1>3. ASSUME NEW r \in Roles, NEW arn \in Arns \cup {None}, SyncRole(r, arn)
      PROVE  TypeOK'
  BY <1>3 DEF TypeOK, SyncRole
<1>4. ASSUME Resync
      PROVE  TypeOK'
  BY <1>4 DEF TypeOK, Resync
<1>5. ASSUME Restart
      PROVE  TypeOK'
  <2>1. /\ \A b \in Bindings : Relisted(hist[b]) \in Versions(IamRoleBindings)
        /\ \A s \in ServiceAccounts : Relisted(accounts[s]) \in Versions(Accounts)
    BY RelistedVersions DEF TypeOK
  <2>2. faults' \in 0..MaxFaults
    BY <1>5, MaxFaultsAssumption DEF TypeOK, Restart
  <2> QED
    BY <1>5, <2>1, <2>2, IdleOK DEF TypeOK, Restart, WorkerOK
<1> QED
  BY <1>1, <1>2, <1>3, <1>4, <1>5 DEF Manager

LEMMA TypeUsers ==
    ASSUME TypeOK, Users
    PROVE  TypeOK'
<1>1. /\ hist \in [Bindings -> Versions(IamRoleBindings)]
      /\ accounts \in [ServiceAccounts -> Versions(Accounts)]
      /\ \A b \in Bindings : Latest(hist[b]) \in IamRoleBindings
      /\ \A s \in ServiceAccounts : Latest(accounts[s]) \in Accounts
  BY VersionsExist DEF TypeOK
<1>2. ASSUME NEW b \in Bindings, NEW o \in IamRoleBindings, UserWrites(b, o)
      PROVE  TypeOK'
  <2>1. hist' \in [Bindings -> Versions(IamRoleBindings)]
    BY <1>1, <1>2, WriteType DEF UserWrites
  <2> QED
    BY <1>2, <2>1 DEF TypeOK, UserWrites
<1>3. ASSUME NEW s \in ServiceAccounts, NEW a \in Accounts, AccountWrites(s, a),
             faults' \in 0..MaxFaults
      PROVE  TypeOK'
  <2>1. accounts' \in [ServiceAccounts -> Versions(Accounts)]
    BY <1>1, <1>3, WriteAccountType DEF AccountWrites
  <2> QED
    BY <1>3, <2>1 DEF TypeOK, AccountWrites
<1>4. ASSUME NEW b \in Bindings, NEW fins \in SUBSET ForeignFinalizers,
             NEW role \in Roles, NEW sa \in ServiceAccounts,
             CreateBinding(b, fins, role, sa)
      PROVE  TypeOK'
  <2>1. [NoBinding EXCEPT !.phase = "live", !.fins = fins, !.role = role, !.sa = sa]
          \in IamRoleBindings
    BY BindingTypes DEF IamRoleBindings, Phases, Finalizers
  <2> QED
    BY <1>2, <1>4, <2>1 DEF CreateBinding
<1>5. ASSUME NEW b \in Bindings, DeleteBinding(b)
      PROVE  TypeOK'
  BY <1>1, <1>2, <1>5, BindingTypes DEF DeleteBinding
<1>6. ASSUME NEW b \in Bindings, NEW role \in Roles, NEW sa \in ServiceAccounts,
             SetRefs(b, role, sa)
      PROVE  TypeOK'
  BY <1>1, <1>2, <1>6, BindingTypes DEF SetRefs
<1>7. ASSUME NEW b \in Bindings, NEW f \in ForeignFinalizers, ReleaseFinalizer(b, f)
      PROVE  TypeOK'
  <2> DEFINE o == Latest(hist[b])
  <2>1. o.fins \ {f} \in SUBSET Finalizers
    BY <1>1, BindingTypes
  <2>2. WithFinalizers(o, o.fins \ {f}, NoBinding) \in IamRoleBindings
    BY <2>1, <1>1, BindingTypes
  <2> QED
    BY <1>2, <1>7, <2>2 DEF ReleaseFinalizer
<1>8. ASSUME NEW s \in ServiceAccounts, CreateAccount(s) \/ DeleteAccount(s)
      PROVE  TypeOK'
  BY <1>3, <1>8, AccountTypes DEF CreateAccount, DeleteAccount, TypeOK
<1>9. ASSUME NEW s \in ServiceAccounts, NEW arn \in Arns \cup {None},
             EditAnnotation(s, arn)
      PROVE  TypeOK'
  <2>1. faults' \in 0..MaxFaults
    BY <1>9, MaxFaultsAssumption DEF EditAnnotation, TypeOK
  <2> QED
    BY <2>1, <1>1, <1>3, <1>9, AccountTypes DEF EditAnnotation
<1> QED
  BY <1>4, <1>5, <1>6, <1>7, <1>8, <1>9 DEF Users

LEMMA TypeStep == TypeOK /\ [Next]_vars => TypeOK'
<1> SUFFICES ASSUME TypeOK, [Next]_vars PROVE TypeOK'
  OBVIOUS
<1>1. ASSUME NEW b \in Bindings, Start(b)
      PROVE  TypeOK'
  <2> DEFINE o == Cached(hist[b])
             v == [Idle EXCEPT !.pc = FirstCall(o), !.cur = b, !.inst = o]
  <2>1. o \in IamRoleBindings
    BY VersionsExist DEF TypeOK
  <2>2. WorkerOK(v)
    BY <2>1, IdleOK DEF WorkerOK, Workers, FirstCall, AfterFinalizer, Calls
  <2>3. WorkerOK(w')
    BY <1>1, <2>2, IdleOK DEF Start
  <2> QED
    BY <1>1, <2>3 DEF TypeOK, Start, WorkerOK
<1>2. CASE UNCHANGED vars
  BY <1>2 DEF vars, TypeOK
<1> QED
  BY <1>1, <1>2, TypeReconcile, TypeManager, TypeUsers DEF Next

(* Every variable of the controller keeps its type.                        *)
THEOREM TypeCorrect == Spec => []TypeOK
  BY TypeInit, TypeStep, PTL DEF Spec

-----------------------------------------------------------------------------
(* The inductive invariant.                                                *)

(* What most steps do to the histories: they stay orderly, and what the    *)
(* worker knows about them stays true.                                     *)
Preserves ==
    \A c \in Bindings :
        /\ Orderly(hist'[c], Finalizer)
        /\ Kept(hist[c], Finalizer) => Kept(hist'[c], Finalizer)
        /\ Dying(hist[c], Finalizer) => Dying(hist'[c], Finalizer)
        /\ Own(Latest(hist[c])) => Own(Latest(hist'[c]))

(* The step that ReleasesOnlyDeleting allows.                              *)
Releases ==
    \A b \in Bindings :
        (Own(Latest(hist[b])) /\ ~Own(Latest(hist'[b]))) => Deleting(Latest(hist[b]))

LEMMA OwnIsPresent ==
    ASSUME NEW h \in Versions(IamRoleBindings), Orderly(h, Finalizer), Own(Latest(h))
    PROVE  Present(Latest(h))
<1>1. Len(h) \in 1..Len(h)
  BY VersionsExist
<1> QED
  BY <1>1 DEF Orderly, Own, Latest

LEMMA UnchangedPreserves ==
    ASSUME IInv, UNCHANGED hist
    PROVE  Preserves
  BY DEF IInv, Preserves

(* A write that keeps the finalizer as it is, and that does not revive.    *)
LEMMA KeepingPreserves ==
    ASSUME IInv, NEW b \in Bindings, NEW o \in IamRoleBindings, WriteBinding(b, o),
           Own(o) <=> Own(Latest(hist[b])),
           Own(o) => Present(o),
           DeletingWith(Latest(hist[b]), Finalizer) => ~Live(o)
    PROVE  Preserves
<1>1. /\ hist \in [Bindings -> Versions(IamRoleBindings)]
      /\ Orderly(hist[b], Finalizer)
      /\ \A x \in IamRoleBindings : x.phase \in Phases
  BY BindingTypes DEF IInv, TypeOK
<1>2. /\ hist'[b] = Written(hist[b], o)
      /\ \A c \in Bindings \ {b} : hist'[c] = hist[c]
  BY <1>1, WriteType
<1>3. /\ Orderly(Written(hist[b], o), Finalizer)
      /\ Kept(hist[b], Finalizer) => Kept(Written(hist[b], o), Finalizer)
      /\ Dying(hist[b], Finalizer) => Dying(Written(hist[b], o), Finalizer)
  BY <1>1, WriteKeeping DEF Own, LiveWith
<1>4. Latest(Written(hist[b], o)) = o
  BY <1>1, WrittenVersions
<1> QED
  BY <1>2, <1>3, <1>4 DEF Preserves, IInv

(* A step of someone else.                                                 *)
LEMMA OthersStep ==
    ASSUME IInv, TypeOK', Preserves, UNCHANGED w
    PROVE  IInv' /\ Releases
<1>1. WorkerKnows'
  <2>1. CASE w.pc = "idle"
    BY <2>1 DEF WorkerKnows, At
  <2>2. CASE w.pc # "idle"
    <3>1. w.cur \in Bindings
      BY <2>2 DEF IInv, TypeOK
    <3> QED
      BY <3>1 DEF IInv, Preserves, WorkerKnows, At
  <2> QED
    BY <2>1, <2>2
<1> QED
  BY <1>1 DEF IInv, Preserves, Releases

(* A step that ends the reconcile, and one that starts it afresh.          *)
LEMMA EndStep ==
    ASSUME IInv, TypeOK', Preserves, w' = Idle
    PROVE  IInv' /\ Releases
<1>1. WorkerKnows'
  BY DEF WorkerKnows, At, Idle
<1> QED
  BY <1>1 DEF IInv, Preserves, Releases

(* A step to a call that binds, for an object that holds the finalizer.    *)
LEMMA HoldingStep ==
    ASSUME IInv, TypeOK', Preserves, w.cur \in Bindings, Own(Latest(hist[w.cur])),
           w'.pc \in {"bind", "annotate", "patchStatus"}, w'.cur = w.cur
    PROVE  IInv' /\ Releases
<1>1. Own(Latest(hist'[w.cur]))
  BY DEF Preserves
<1>2. WorkerKnows'
  BY <1>1 DEF WorkerKnows, At
<1> QED
  BY <1>2 DEF IInv, Preserves, Releases

LEMMA InvInit == Init => IInv
<1> SUFFICES ASSUME Init PROVE IInv
  OBVIOUS
<1>1. TypeOK
  BY TypeInit
<1>2. ~Own(NoBinding)
  BY DEF Own, ContainsFinalizer, NoBinding
<1>3. Orderly(<<NoBinding>>, Finalizer)
  <2>1. Len(<<NoBinding>>) = 1 /\ <<NoBinding>>[1] = NoBinding /\ \A i \in 1..1 : i = 1
    OBVIOUS
  <2> QED
    BY <1>2, <2>1 DEF Orderly, DeletingWith, Own
<1>4. WorkerKnows
  BY DEF Init, WorkerKnows, At, Idle
<1> QED
  BY <1>1, <1>3, <1>4 DEF IInv, Init

(* The worker starts on what the cache shows.                              *)
LEMMA InvStart ==
    ASSUME IInv, TypeOK', NEW b \in Bindings, Start(b)
    PROVE  IInv' /\ Releases
<1> DEFINE o == Cached(hist[b])
<1>1. UNCHANGED hist /\ Preserves /\ Present(o)
  BY UnchangedPreserves DEF Start
<1>2. /\ hist[b] \in Versions(IamRoleBindings) /\ Orderly(hist[b], Finalizer)
      /\ \A x \in IamRoleBindings : x.phase \in Phases
      /\ o \in IamRoleBindings
  BY BindingTypes, VersionsExist DEF IInv, TypeOK
<1>3. CASE w' = Idle
  BY <1>1, <1>3, EndStep
<1>4. CASE w' # Idle
  <2>1. w'.pc = FirstCall(o) /\ w'.cur = b /\ w'.inst = o /\ FirstCall(o) # "idle"
    BY <1>4 DEF Start, Idle
  <2>2. CASE Deleting(o)
    <3>1. w'.pc = "finalize" /\ Own(o)
      BY <2>1, <2>2 DEF FirstCall
    <3>2. Dying(hist[b], Finalizer)
      BY <1>2, <2>2, <3>1, CachedDeletingWith DEF DeletingWith, Own
    <3>3. WorkerKnows'
      BY <1>1, <2>1, <2>2, <3>1, <3>2 DEF WorkerKnows, At
    <3> QED
      BY <1>1, <3>3 DEF IInv, Preserves, Releases
  <2>3. CASE ~Deleting(o)
    <3>1. Live(o)
      BY <1>1, <1>2, <2>3 DEF Live, Deleting, Present, Phases
    <3>2. CASE Own(o)
      <4>1. w'.pc \in {"finalize", "bind"}
        BY <2>1, <2>3, <3>2 DEF FirstCall, AfterFinalizer
      <4>2. Own(Latest(hist[b]))
        BY <1>2, <3>1, <3>2, CachedLiveWith DEF LiveWith, Own
      <4>3. WorkerKnows'
        BY <1>1, <2>1, <2>3, <4>1, <4>2 DEF WorkerKnows, At
      <4> QED
        BY <1>1, <4>3 DEF IInv, Preserves, Releases
    <3>3. CASE ~Own(o)
      <4>1. w'.pc = "addFinalizer"
        BY <2>1, <2>3, <3>3 DEF FirstCall
      <4>2. Kept(hist[b], Finalizer)
        BY <1>2, <3>1, CachedLiveWithout
      <4>3. WorkerKnows'
        BY <1>1, <2>1, <3>1, <4>1, <4>2 DEF WorkerKnows, At
      <4> QED
        BY <1>1, <4>3 DEF IInv, Preserves, Releases
    <3> QED
      BY <3>2, <3>3
  <2> QED
    BY <2>2, <2>3
<1> QED
  BY <1>3, <1>4

(* The finalizer is in place before anything is bound.                     *)
LEMMA InvAddFinalizer ==
    ASSUME IInv, TypeOK', AddFinalizer
    PROVE  IInv' /\ Releases
<1> DEFINE o == Latest(hist[w.cur])
           new == Applied(o, Finalizer)
<1>1. PICK out \in Outcomes(ApplyAccepted(o, Finalizer)) :
        /\ IF TookEffect(out) THEN WriteBinding(w.cur, new) ELSE UNCHANGED hist
        /\ Settle(out = "ok", Goto(AfterFinalizer(w.inst)))
  BY DEF AddFinalizer
<1>2. /\ w \in Workers /\ w.cur \in Bindings /\ Live(w.inst)
      /\ hist \in [Bindings -> Versions(IamRoleBindings)]
      /\ o \in IamRoleBindings /\ new \in IamRoleBindings
      /\ Orderly(hist[w.cur], Finalizer) /\ Kept(hist[w.cur], Finalizer)
  BY VersionsExist, BindingTypes DEF IInv, TypeOK, AddFinalizer, At, WorkerKnows
<1>3. CASE ~TookEffect(out)
  <2>1. UNCHANGED hist /\ w' = Idle
    BY <1>1, <1>3 DEF Settle, TookEffect
  <2> QED
    BY <2>1, UnchangedPreserves, EndStep
<1>4. CASE TookEffect(out)
  <2>1. WriteBinding(w.cur, new) /\ ApplyAccepted(o, Finalizer)
    BY <1>1, <1>4 DEF Outcomes, TookEffect
  <2>2. Own(new) /\ Present(new)
    BY <1>2, <2>1 DEF Applied, Own, ContainsFinalizer, Present, IamRoleBindings
  <2>3. Orderly(Written(hist[w.cur], new), Finalizer)
    <3>1. CASE Own(o)
      <4>1. DeletingWith(o, Finalizer) => ~LiveWith(new, Finalizer)
        BY <1>2, <3>1, OwnIsPresent
           DEF Applied, DeletingWith, LiveWith, Deleting, Live, Present, IamRoleBindings
      <4> QED
        BY <1>2, <2>2, <3>1, <4>1, WriteKeeping, BindingTypes DEF Own
    <3>2. CASE ~Own(o)
      <4>1. Live(new)
        BY <1>2, <2>1, <3>2
           DEF ApplyAccepted, Applied, Own, Deleting, Live, Present, IamRoleBindings,
               Phases
      <4> QED
        BY <1>2, <2>2, <3>2, <4>1, WriteAdding DEF Own, LiveWith
    <3> QED
      BY <3>1, <3>2
  <2>4. /\ hist'[w.cur] = Written(hist[w.cur], new)
        /\ \A c \in Bindings \ {w.cur} : hist'[c] = hist[c]
        /\ Latest(hist'[w.cur]) = new
    BY <1>2, <2>1, WriteType, WrittenVersions
  <2>5. \A c \in Bindings : Orderly(hist'[c], Finalizer)
    BY <2>3, <2>4 DEF IInv
  <2>6. \/ w' = Idle
        \/ w'.pc \in {"finalize", "bind"} /\ w'.cur = w.cur /\ w'.inst = w.inst
    BY <1>1, <1>2, GotoType DEF Settle, AfterFinalizer, Calls
  <2>7. WorkerKnows'
    BY <1>2, <2>2, <2>4, <2>6 DEF WorkerKnows, At, Idle, Live, Deleting
  <2>8. Releases
    BY <2>2, <2>4 DEF Releases
  <2> QED
    BY <2>5, <2>7, <2>8 DEF IInv
<1> QED
  BY <1>3, <1>4

(* finalize: the annotation goes, the finalizer stays.                     *)
LEMMA InvFinalize ==
    ASSUME IInv, TypeOK', Finalize \/ Unannotate
    PROVE  IInv' /\ Releases
<1>1. /\ w \in Workers /\ w.pc \in {"finalize", "unannotate"} /\ w.cur \in Bindings
      /\ UNCHANGED hist
  BY DEF IInv, TypeOK, At, Finalize, Unannotate
<1>2. \A pc \in Calls : Goto(pc).pc = pc /\ Goto(pc).cur = w.cur /\ Goto(pc).inst = w.inst
  BY <1>1, GotoType
<1>3. Preserves
  BY <1>1, UnchangedPreserves
<1>4. /\ Deleting(w.inst) => Dying(hist[w.cur], Finalizer) /\ Own(w.inst)
      /\ ~Deleting(w.inst) => Own(Latest(hist[w.cur]))
  BY <1>1 DEF IInv, WorkerKnows
<1>5. w' = Idle \/ w' = Goto("unannotate") \/ w' = AfterFinalize
  BY DEF Finalize, Unannotate, Settle
<1>6. CASE w' = Idle
  BY <1>3, <1>6, EndStep
<1>7. CASE w' = Goto("unannotate")
  <2>1. w'.pc = "unannotate" /\ w'.cur = w.cur /\ w'.inst = w.inst
    BY <1>2, <1>7 DEF Calls
  <2>2. WorkerKnows'
    BY <1>1, <1>4, <2>1 DEF WorkerKnows, At
  <2> QED
    BY <1>3, <2>2 DEF IInv, Preserves, Releases
<1>8. CASE w' = AfterFinalize /\ Deleting(w.inst)
  <2>1. w'.pc = "removeFinalizer" /\ w'.cur = w.cur
    BY <1>2, <1>8 DEF AfterFinalize, Calls
  <2>2. WorkerKnows'
    BY <1>1, <1>4, <1>8, <2>1 DEF WorkerKnows, At
  <2> QED
    BY <1>3, <2>2 DEF IInv, Preserves, Releases
<1>9. CASE w' = AfterFinalize /\ ~Deleting(w.inst)
  <2>1. w'.pc = "bind" /\ w'.cur = w.cur
    BY <1>2, <1>9 DEF AfterFinalize, Calls
  <2> QED
    BY <1>1, <1>3, <1>4, <1>9, <2>1, HoldingStep
<1> QED
  BY <1>5, <1>6, <1>7, <1>8, <1>9

(* The finalizer goes from an object that is being deleted.                *)
LEMMA InvRemoveFinalizer ==
    ASSUME IInv, TypeOK', RemoveFinalizer
    PROVE  IInv' /\ Releases
<1> DEFINE o == Latest(hist[w.cur])
           fins == w.inst.fins \ {Finalizer}
           new == WithFinalizers(o, fins, NoBinding)
<1>1. PICK out \in Outcomes(FinalizersAccepted(o, fins)) :
        /\ IF TookEffect(out) THEN WriteBinding(w.cur, new) ELSE UNCHANGED hist
        /\ Settle(out = "ok", Idle)
  BY DEF RemoveFinalizer
<1>2. /\ w \in Workers /\ w.cur \in Bindings
      /\ hist \in [Bindings -> Versions(IamRoleBindings)]
      /\ o \in IamRoleBindings /\ w.inst \in IamRoleBindings
      /\ Orderly(hist[w.cur], Finalizer) /\ Dying(hist[w.cur], Finalizer)
  BY VersionsExist DEF IInv, TypeOK, Workers, RemoveFinalizer, At, WorkerKnows
<1>3. w' = Idle
  BY <1>1 DEF Settle
<1>4. CASE ~TookEffect(out)
  BY <1>1, <1>3, <1>4, UnchangedPreserves, EndStep
<1>5. CASE TookEffect(out)
  <2>1. new \in IamRoleBindings
    BY <1>2, BindingTypes
  <2>2. ~Own(new)
    BY <1>2 DEF WithFinalizers, Own, ContainsFinalizer, NoBinding, IamRoleBindings
  <2>3. Orderly(Written(hist[w.cur], new), Finalizer)
    BY <1>2, <2>1, <2>2, WriteRemoving DEF Own
  <2>4. /\ hist'[w.cur] = Written(hist[w.cur], new)
        /\ \A c \in Bindings \ {w.cur} : hist'[c] = hist[c]
    BY <1>1, <1>2, <1>5, <2>1, WriteType
  <2>5. \A c \in Bindings : Orderly(hist'[c], Finalizer)
    BY <2>3, <2>4 DEF IInv
  <2>6. WorkerKnows'
    BY <1>3 DEF WorkerKnows, At, Idle
  <2>7. Len(hist[w.cur]) \in 1..Len(hist[w.cur])
    BY <1>2, VersionsExist
  <2>8. Own(o) => Deleting(o)
    BY <1>2, <2>7 DEF Dying, DeletingWith, Own, Latest
  <2>9. Releases
    BY <2>4, <2>8 DEF Releases
  <2> QED
    BY <2>5, <2>6, <2>9 DEF IInv
<1> QED
  BY <1>4, <1>5

(* From Bind to PatchStatus the finalizer stays.                           *)
LEMMA InvBinding ==
    ASSUME IInv, TypeOK', Bind \/ Annotate \/ PatchStatus
    PROVE  IInv' /\ Releases
<1>1. /\ w \in Workers /\ w.cur \in Bindings /\ Own(Latest(hist[w.cur]))
      /\ hist \in [Bindings -> Versions(IamRoleBindings)]
      /\ Latest(hist[w.cur]) \in IamRoleBindings
      /\ w.inst \in IamRoleBindings /\ w.arn \in Arns \cup {None}
  BY VersionsExist
     DEF IInv, TypeOK, WorkerKnows, Workers, At, Bind, Annotate, PatchStatus
<1>2. ASSUME NEW arn
      PROVE  \/ AfterBind([w EXCEPT !.arn = arn]) = Idle
             \/ /\ AfterBind([w EXCEPT !.arn = arn]).pc = "patchStatus"
                /\ AfterBind([w EXCEPT !.arn = arn]).cur = w.cur
  BY <1>1 DEF AfterBind, Workers
<1>3. AfterBind(w) = Idle \/ (AfterBind(w).pc = "patchStatus" /\ AfterBind(w).cur = w.cur)
  BY <1>1 DEF AfterBind, Workers
<1>4. ASSUME UNCHANGED hist,
             \/ w' = Idle
             \/ w'.pc \in {"bind", "annotate", "patchStatus"} /\ w'.cur = w.cur
      PROVE  IInv' /\ Releases
  BY <1>1, <1>4, UnchangedPreserves, EndStep, HoldingStep
<1>5. CASE Bind
  <2> DEFINE v == [w EXCEPT !.arn = arns[w.inst.role]]
  <2>1. UNCHANGED hist
    BY <1>5 DEF Bind
  <2>2. w' = Idle \/ w' = [v EXCEPT !.pc = "annotate"] \/ w' = AfterBind(v)
    BY <1>5 DEF Bind, Settle
  <2>3. [v EXCEPT !.pc = "annotate"].pc = "annotate"
        /\ [v EXCEPT !.pc = "annotate"].cur = w.cur
    BY <1>1 DEF Workers
  <2> QED
    BY <1>2, <1>4, <2>1, <2>2, <2>3
<1>6. CASE Annotate
  <2>1. UNCHANGED hist /\ (w' = Idle \/ w' = AfterBind(w))
    BY <1>6 DEF Annotate, Settle
  <2> QED
    BY <1>3, <1>4, <2>1
<1>7. CASE PatchStatus
  <2> DEFINE o == Latest(hist[w.cur])
             new == WithStatus(o, w.inst, w.arn)
  <2>1. PICK out \in Outcomes(Present(o)) :
          /\ IF TookEffect(out) THEN WriteBinding(w.cur, new) ELSE UNCHANGED hist
          /\ Settle(out = "ok", Idle)
    BY <1>7 DEF PatchStatus
  <2>2. new \in IamRoleBindings /\ new.phase = o.phase /\ new.fins = o.fins
    BY <1>1, WithStatusType
  <2>3. TookEffect(out) => Present(o)
    BY <2>1 DEF Outcomes, TookEffect
  <2>4. ASSUME TookEffect(out)
        PROVE  Preserves
    BY <1>1, <2>1, <2>2, <2>3, <2>4, KeepingPreserves
       DEF Own, ContainsFinalizer, DeletingWith, Deleting, Live, Present
  <2>5. Preserves
    BY <2>1, <2>4, UnchangedPreserves
  <2>6. w' = Idle
    BY <2>1 DEF Settle
  <2> QED
    BY <2>5, <2>6, EndStep
<1> QED
  BY <1>5, <1>6, <1>7

(* Users write what keeps the controller's finalizer as it is.             *)
LEMMA InvUsers ==
    ASSUME IInv, TypeOK', Users
    PROVE  IInv' /\ Releases
<1>1. \A b \in Bindings : /\ Latest(hist[b]) \in IamRoleBindings
                          /\ Own(Latest(hist[b])) => Present(Latest(hist[b]))
  BY VersionsExist, OwnIsPresent DEF IInv, TypeOK
<1>2. ~Own(NoBinding) /\ NoBinding \in IamRoleBindings
  BY BindingTypes DEF Own, ContainsFinalizer, NoBinding
<1>3. ASSUME NEW b \in Bindings, NEW o \in IamRoleBindings, UserWrites(b, o),
             Own(o) <=> Own(Latest(hist[b])),
             Own(o) => Present(o),
             DeletingWith(Latest(hist[b]), Finalizer) => ~Live(o)
      PROVE  IInv' /\ Releases
  <2>1. Preserves
    BY <1>3, KeepingPreserves DEF UserWrites
  <2>2. UNCHANGED w
    BY <1>3 DEF UserWrites
  <2> QED
    BY <2>1, <2>2, OthersStep
<1>4. ASSUME NEW b \in Bindings, NEW fins \in SUBSET ForeignFinalizers,
             NEW role \in Roles, NEW sa \in ServiceAccounts,
             CreateBinding(b, fins, role, sa)
      PROVE  IInv' /\ Releases
  <2> DEFINE o == [NoBinding EXCEPT !.phase = "live", !.fins = fins,
                                    !.role = role, !.sa = sa]
  <2>1. o \in IamRoleBindings
    BY <1>2 DEF IamRoleBindings, Phases, Finalizers
  <2>2. ~Own(o)
    BY BindingControllerAssumption DEF Own, ContainsFinalizer, NoBinding
  <2>3. ~Own(Latest(hist[b]))
    BY <1>1, <1>4 DEF CreateBinding
  <2> QED
    BY <1>3, <1>4, <2>1, <2>2, <2>3 DEF CreateBinding, DeletingWith, Own
<1>5. ASSUME NEW b \in Bindings, DeleteBinding(b)
      PROVE  IInv' /\ Releases
  <2> DEFINE o == Latest(hist[b])
             new == Deleted(o, NoBinding)
  <2>1. new \in IamRoleBindings /\ Live(o)
    BY <1>1, <1>5, BindingTypes DEF DeleteBinding
  <2>2. Own(new) <=> Own(o)
    BY <1>1, <1>2 DEF Deleted, Own, ContainsFinalizer, IamRoleBindings
  <2>3. Own(new) => Present(new)
    BY <1>1, <1>2 DEF Deleted, Present, IamRoleBindings
  <2>4. ~DeletingWith(o, Finalizer)
    BY <2>1 DEF DeletingWith, Live, Deleting
  <2> QED
    BY <1>3, <1>5, <2>1, <2>2, <2>3, <2>4 DEF DeleteBinding
<1>6. ASSUME NEW b \in Bindings, NEW role \in Roles, NEW sa \in ServiceAccounts,
             SetRefs(b, role, sa)
      PROVE  IInv' /\ Releases
  <2> DEFINE o == Latest(hist[b])
             new == [o EXCEPT !.role = role, !.sa = sa]
  <2>1. /\ new \in IamRoleBindings /\ Live(o)
        /\ new.fins = o.fins /\ new.phase = o.phase
    BY <1>1, <1>6, BindingTypes DEF SetRefs, IamRoleBindings
  <2>2. ~DeletingWith(o, Finalizer)
    BY <2>1 DEF DeletingWith, Live, Deleting
  <2> QED
    BY <1>1, <1>3, <1>6, <2>1, <2>2 DEF SetRefs, Own, ContainsFinalizer, Present
<1>7. ASSUME NEW b \in Bindings, NEW f \in ForeignFinalizers, ReleaseFinalizer(b, f)
      PROVE  IInv' /\ Releases
  <2> DEFINE o == Latest(hist[b])
             fins == o.fins \ {f}
             new == WithFinalizers(o, fins, NoBinding)
  <2>1. f # Finalizer /\ fins \in SUBSET Finalizers
    BY <1>1, BindingTypes, BindingControllerAssumption
  <2>2. new \in IamRoleBindings
    BY <1>1, <2>1, BindingTypes
  <2>3. Finalizer \in fins <=> Own(o)
    BY <2>1 DEF Own, ContainsFinalizer
  <2>4. Own(new) <=> Own(o)
    BY <1>1, <1>2, <2>3 DEF WithFinalizers, Own, ContainsFinalizer, IamRoleBindings
  <2>5. Own(new) => Present(new)
    BY <1>1, <1>2, <2>3
       DEF WithFinalizers, Present, Own, ContainsFinalizer, IamRoleBindings
  <2>6. DeletingWith(o, Finalizer) => ~Live(new)
    BY <1>1
       DEF WithFinalizers, DeletingWith, Deleting, Live, IamRoleBindings, NoBinding
  <2> QED
    BY <1>3, <1>7, <2>2, <2>4, <2>5, <2>6 DEF ReleaseFinalizer
<1>8. ASSUME NEW s \in ServiceAccounts,
             \/ CreateAccount(s) \/ DeleteAccount(s)
             \/ \E arn \in Arns \cup {None} : EditAnnotation(s, arn)
      PROVE  IInv' /\ Releases
  <2>1. UNCHANGED <<hist, w>>
    BY <1>8 DEF CreateAccount, DeleteAccount, EditAnnotation, AccountWrites
  <2> QED
    BY <2>1, UnchangedPreserves, OthersStep
<1> QED
  BY <1>4, <1>5, <1>6, <1>7, <1>8 DEF Users

(* The manager delivers, queues or begins again.                           *)
LEMMA InvManager ==
    ASSUME IInv, TypeOK', Manager
    PROVE  IInv' /\ Releases
<1>1. ASSUME UNCHANGED <<hist, w>>
      PROVE  IInv' /\ Releases
  BY <1>1, UnchangedPreserves, OthersStep
<1>2. ASSUME NEW b \in Bindings, Sync(b)
      PROVE  IInv' /\ Releases
  <2>1. /\ hist[b] \in Versions(IamRoleBindings) /\ ~Current(hist[b])
        /\ Orderly(hist[b], Finalizer)
        /\ hist' = [hist EXCEPT ![b] = Delivered(hist[b])]
        /\ hist \in [Bindings -> Versions(IamRoleBindings)]
    BY <1>2 DEF Sync, IInv, TypeOK
  <2>2. /\ Latest(Delivered(hist[b])) = Latest(hist[b])
        /\ Orderly(Delivered(hist[b]), Finalizer)
        /\ Kept(hist[b], Finalizer) => Kept(Delivered(hist[b]), Finalizer)
        /\ Dying(hist[b], Finalizer) => Dying(Delivered(hist[b]), Finalizer)
    BY <2>1, DeliveredVersions, DeliveredOrderly
  <2>3. Preserves
    BY <2>1, <2>2 DEF Preserves, IInv
  <2> QED
    BY <1>2, <2>3, OthersStep DEF Sync
<1>3. CASE Resync
  BY <1>1, <1>3 DEF Resync
<1>4. CASE Restart
  <2>1. /\ hist \in [Bindings -> Versions(IamRoleBindings)]
        /\ \A b \in Bindings : hist'[b] = Relisted(hist[b])
        /\ w' = Idle
    BY <1>4 DEF Restart, IInv, TypeOK
  <2>2. \A b \in Bindings : /\ Latest(hist'[b]) = Latest(hist[b])
                            /\ Orderly(hist'[b], Finalizer)
    BY <2>1, RelistedVersions, RelistedOrderly DEF IInv
  <2>3. WorkerKnows'
    BY <2>1 DEF WorkerKnows, At, Idle
  <2> QED
    BY <2>1, <2>2, <2>3 DEF IInv, Releases
<1>5. ASSUME NEW s \in ServiceAccounts, SyncAccount(s)
      PROVE  IInv' /\ Releases
  BY <1>1, <1>5 DEF SyncAccount
<1>6. ASSUME NEW r \in Roles, NEW arn \in Arns \cup {None}, SyncRole(r, arn)
      PROVE  IInv' /\ Releases
  BY <1>1, <1>6 DEF SyncRole
<1> QED
  BY <1>2, <1>3, <1>4, <1>5, <1>6 DEF Manager

LEMMA InvStep == IInv /\ [Next]_vars => IInv' /\ Releases
<1> SUFFICES ASSUME IInv, [Next]_vars PROVE IInv' /\ Releases
  OBVIOUS
<1>1. TypeOK'
  BY TypeStep DEF IInv
<1>2. CASE UNCHANGED vars
  BY <1>1, <1>2, UnchangedPreserves, OthersStep DEF vars
<1>3. ASSUME NEW b \in Bindings, Start(b)
      PROVE  IInv' /\ Releases
  BY <1>1, <1>3, InvStart
<1>4. CASE Reconcile
  BY <1>1, <1>4, InvAddFinalizer, InvFinalize, InvRemoveFinalizer, InvBinding
     DEF Reconcile
<1> QED
  BY <1>1, <1>2, <1>3, <1>4, InvManager, InvUsers DEF Next

(* The invariant holds in every reachable state.                           *)
THEOREM Invariant == Spec => []IInv
<1>1. IInv /\ [Next]_vars => IInv'
  BY InvStep
<1> QED
  BY <1>1, InvInit, PTL DEF Spec

(* A service account is annotated only for a binding that is there and     *)
(* holds the controller's finalizer.                                       *)
THEOREM AnnotatesOnlyHeldHolds == Spec => []AnnotatesOnlyHeld
<1>1. IInv => AnnotatesOnlyHeld
  <2> SUFFICES ASSUME IInv, At("annotate")
               PROVE  Present(Latest(hist[w.cur])) /\ Own(Latest(hist[w.cur]))
    BY DEF AnnotatesOnlyHeld
  <2>1. w.cur \in Bindings /\ Own(Latest(hist[w.cur]))
    BY DEF IInv, TypeOK, WorkerKnows, At
  <2> QED
    BY <2>1, OwnIsPresent DEF IInv, TypeOK
<1> QED
  BY <1>1, Invariant, PTL

(* No step takes the controller's finalizer off an object that is not      *)
(* being deleted.                                                          *)
THEOREM ReleasesOnlyDeletingHolds == Spec => ReleasesOnlyDeleting
<1>1. IInv /\ [Next]_vars => [Releases]_vars
  BY InvStep
<1> QED
  BY <1>1, Invariant, PTL DEF Spec, ReleasesOnlyDeleting, Releases

-----------------------------------------------------------------------------
(* The record of a binding.                                                *)

(* What most steps do to the records: they stay whole, and one that an     *)
(* object with the finalizer has stays.                                    *)
PreservesRecords ==
    \A c \in Bindings :
        /\ RecordsKept(hist'[c])
        /\ Own(Latest(hist[c])) /\ Latest(hist[c]).bsa # None
              => Latest(hist'[c]).bsa # None

LEMMA LatestRecord ==
    ASSUME IInv, RecordInv, NEW b \in Bindings
    PROVE  /\ hist[b] \in Versions(IamRoleBindings)
           /\ Latest(hist[b]) \in IamRoleBindings
           /\ WholeRecord(Latest(hist[b]))
           /\ \A i \in 1..Len(hist[b]) :
                 LiveWith(hist[b][i], Finalizer) /\ hist[b][i].bsa # None
                 => Own(Latest(hist[b])) /\ Latest(hist[b]).bsa # None
<1>1. hist[b] \in Versions(IamRoleBindings)
  BY DEF IInv, TypeOK
<1>2. Len(hist[b]) \in 1..Len(hist[b]) /\ \A i \in 1..Len(hist[b]) : i <= Len(hist[b])
  BY <1>1, VersionsExist
<1>3. RecordsKept(hist[b]) /\ Orderly(hist[b], Finalizer)
  BY DEF RecordInv, IInv
<1>4. ASSUME NEW i \in 1..Len(hist[b]),
             LiveWith(hist[b][i], Finalizer), hist[b][i].bsa # None
      PROVE  Own(Latest(hist[b])) /\ Latest(hist[b]).bsa # None
  <2>1. ~DeletingWith(hist[b][i], Finalizer) /\ i \in 1..i
    BY <1>4 DEF LiveWith, DeletingWith, Live, Deleting
  <2> QED
    BY <1>2, <1>3, <1>4, <2>1 DEF Orderly, RecordsKept, LiveWith, Own, Latest
<1> QED
  BY <1>1, <1>2, <1>3, <1>4, VersionsExist DEF RecordsKept, Latest

(* A new version leaves every record whole.                                *)
LEMMA WrittenRecords ==
    ASSUME NEW h \in Versions(IamRoleBindings), NEW o \in IamRoleBindings,
           RecordsKept(h), WholeRecord(o),
           \A i \in 1..Len(h) :
             LiveWith(h[i], Finalizer) /\ h[i].bsa # None => o.bsa # None
    PROVE  RecordsKept(Written(h, o))
<1> DEFINE g == Written(h, o)
<1>1. PICK n \in Nat \ {0} :
        /\ n = Len(h)
        /\ \A i \in 1..n : g[i] = h[i]
        /\ \/ Len(g) = n /\ o = h[n]
           \/ Len(g) = n + 1 /\ g[n + 1] = o
  BY WrittenUpTo
<1> HIDE DEF g
<1>2. \A i \in 1..Len(g) : i \in 1..n \/ (i = n + 1 /\ g[i] = o)
  BY <1>1
<1>3. ASSUME NEW i \in 1..Len(g)
      PROVE  WholeRecord(g[i])
  BY <1>1, <1>2, <1>3 DEF RecordsKept
<1>4. ASSUME NEW i \in 1..Len(g), NEW j \in 1..Len(g), i <= j,
             g[i].bsa # None, LiveWith(g[i], Finalizer)
      PROVE  g[j].bsa # None
  <2>1. CASE j \in 1..n
    <3>1. i \in 1..n
      BY <1>1, <1>4, <2>1
    <3> QED
      BY <1>1, <1>4, <2>1, <3>1 DEF RecordsKept
  <2>2. CASE j = n + 1 /\ g[j] = o
    BY <1>1, <1>2, <1>4, <2>2
  <2> QED
    BY <1>2, <2>1, <2>2
<1> QED
  BY <1>3, <1>4 DEF RecordsKept, g

LEMMA WritePreservesRecords ==
    ASSUME IInv, RecordInv, NEW b \in Bindings, NEW o \in IamRoleBindings,
           WriteBinding(b, o), WholeRecord(o),
           Own(Latest(hist[b])) /\ Latest(hist[b]).bsa # None => o.bsa # None
    PROVE  PreservesRecords
<1>1. RecordsKept(Written(hist[b], o))
  BY LatestRecord, WrittenRecords DEF RecordInv
<1>2. /\ hist'[b] = Written(hist[b], o)
      /\ \A c \in Bindings \ {b} : hist'[c] = hist[c]
      /\ Latest(hist'[b]) = o
  BY WriteType, WrittenVersions DEF IInv, TypeOK
<1> QED
  BY <1>1, <1>2 DEF PreservesRecords, RecordInv

(* A write that leaves the record as it is, or there is none.              *)
LEMMA WriteKeepsRecord ==
    ASSUME IInv, RecordInv, NEW b \in Bindings, NEW o \in IamRoleBindings,
           WriteBinding(b, o),
           \/ o.bsa = None /\ o.barn = None /\ ~Own(Latest(hist[b]))
           \/ /\ o.bsa = Latest(hist[b]).bsa /\ o.barn = Latest(hist[b]).barn
              /\ o.bsa # None /\ Live(o) => Own(o)
    PROVE  PreservesRecords
  BY LatestRecord, WritePreservesRecords DEF WholeRecord

LEMMA UnchangedRecords ==
    ASSUME RecordInv, UNCHANGED hist
    PROVE  PreservesRecords
  BY DEF RecordInv, PreservesRecords

LEMMA IdleRecalls == WholeRecord(NoBinding) /\ Idle.pc = "idle" /\ Idle.inst = NoBinding
  BY DEF WholeRecord, NoBinding, Idle

LEMMA RecordEndStep ==
    ASSUME \A c \in Bindings : RecordsKept(hist'[c]), w' = Idle
    PROVE  RecordInv'
<1>1. WorkerRecalls'
  BY IdleRecalls DEF WorkerRecalls, At
<1> QED
  BY <1>1 DEF RecordInv

(* The worker keeps its object, or it is not its step.                     *)
LEMMA RecordGoesOn ==
    ASSUME IInv, RecordInv, PreservesRecords,
           w'.inst = w.inst, w'.cur = w.cur, w'.pc # "idle" => w.pc # "idle",
           w'.pc = "addFinalizer" => w.pc = "addFinalizer",
           w'.pc = "removeFinalizer" => Deleting(w.inst),
           w'.pc \in {"bind", "annotate", "patchStatus"} => Live(w.inst),
           w'.pc \in {"annotate", "patchStatus"} =>
              w'.arn # None /\ w.inst.sa # None
    PROVE  RecordInv'
<1>1. ASSUME w.pc # "idle", Live(w.inst), w.inst.bsa # None
      PROVE  Latest(hist'[w.cur]).bsa # None
  <2>1. w.cur \in Bindings /\ w.pc \in Calls
    BY <1>1 DEF IInv, TypeOK, Workers
  <2>2. w.pc \notin {"addFinalizer", "removeFinalizer"} /\ ~Deleting(w.inst)
    BY <1>1 DEF RecordInv, WorkerRecalls, At, Live, Deleting
  <2>3. Own(Latest(hist[w.cur]))
    BY <2>1, <2>2 DEF IInv, WorkerKnows, Calls
  <2>4. Latest(hist[w.cur]).bsa # None
    BY <1>1 DEF RecordInv, WorkerRecalls
  <2> QED
    BY <2>1, <2>3, <2>4 DEF PreservesRecords
<1>2. WorkerRecalls'
  BY <1>1 DEF RecordInv, WorkerRecalls, At
<1> QED
  BY <1>2 DEF RecordInv, PreservesRecords

LEMMA RecordOthersStep ==
    ASSUME IInv, RecordInv, PreservesRecords, UNCHANGED w
    PROVE  RecordInv'
<1>1. /\ w.pc = "removeFinalizer" => Deleting(w.inst)
      /\ w.pc \in {"bind", "annotate", "patchStatus"} => Live(w.inst)
      /\ w.pc \in {"annotate", "patchStatus"} => w.arn # None /\ w.inst.sa # None
  BY DEF RecordInv, WorkerRecalls, At
<1> QED
  BY <1>1, RecordGoesOn

LEMMA RecordInit == Init => RecordInv
<1> SUFFICES ASSUME Init PROVE RecordInv
  OBVIOUS
<1>1. Len(<<NoBinding>>) = 1 /\ <<NoBinding>>[1] = NoBinding /\ NoBinding.bsa = None
  BY DEF NoBinding
<1>2. RecordsKept(<<NoBinding>>)
  BY <1>1, IdleRecalls DEF RecordsKept
<1> QED
  BY <1>2, IdleRecalls DEF Init, RecordInv, WorkerRecalls, At

(* The worker starts on a cached version, whose record is whole and, when  *)
(* it is live, still there.                                                *)
LEMMA RecordStart ==
    ASSUME IInv, RecordInv, NEW b \in Bindings, Start(b)
    PROVE  RecordInv'
<1> DEFINE o == Cached(hist[b])
<1>1. PreservesRecords /\ UNCHANGED hist /\ Present(o)
  BY UnchangedRecords DEF Start
<1>2. /\ 1 \in 1..Len(hist[b]) /\ o = hist[b][1]
      /\ o \in IamRoleBindings /\ o.phase \in Phases
  <2>1. hist[b] \in Versions(IamRoleBindings)
    BY LatestRecord
  <2>2. 1 \in 1..Len(hist[b]) /\ o \in IamRoleBindings
    BY <2>1, VersionsExist
  <2> QED
    BY <2>2, BindingTypes DEF Cached
<1>3. WholeRecord(o)
  BY <1>2 DEF RecordInv, RecordsKept
<1>4. CASE w' = Idle
  BY <1>1, <1>4, RecordEndStep DEF PreservesRecords
<1>5. CASE w' # Idle
  <2>1. w'.pc = FirstCall(o) /\ w'.cur = b /\ w'.inst = o
    BY <1>5 DEF Start, Idle
  <2>2. FirstCall(o) \in {"finalize", "bind", "addFinalizer", "idle"}
    BY DEF FirstCall, AfterFinalizer
  <2>3. FirstCall(o) = "bind" => Live(o)
    BY <1>1, <1>2 DEF FirstCall, Live, Deleting, Present, Phases
  <2>4. FirstCall(o) = "addFinalizer" => o.bsa = None
    BY <1>1, <1>2, <1>3
       DEF FirstCall, AfterFinalizer, WholeRecord, Live, Deleting, Present, Phases
  <2>5. Live(o) /\ o.bsa # None => Latest(hist[b]).bsa # None
    BY <1>2, <1>3, LatestRecord DEF WholeRecord, LiveWith, Own
  <2>6. WorkerRecalls'
    BY <1>1, <1>3, <2>1, <2>2, <2>3, <2>4, <2>5 DEF WorkerRecalls, At
  <2> QED
    BY <1>1, <2>6 DEF RecordInv, PreservesRecords
<1> QED
  BY <1>4, <1>5

LEMMA RecordAddFinalizer ==
    ASSUME IInv, RecordInv, AddFinalizer
    PROVE  RecordInv'
<1> DEFINE o == Latest(hist[w.cur])
           new == Applied(o, Finalizer)
<1>1. PICK out \in Outcomes(ApplyAccepted(o, Finalizer)) :
        /\ IF TookEffect(out) THEN WriteBinding(w.cur, new) ELSE UNCHANGED hist
        /\ Settle(out = "ok", Goto(AfterFinalizer(w.inst)))
  BY DEF AddFinalizer
<1>2. /\ w \in Workers /\ w.cur \in Bindings /\ w.pc = "addFinalizer"
      /\ Live(w.inst) /\ w.inst.bsa = None
      /\ o \in IamRoleBindings /\ new \in IamRoleBindings
  BY LatestRecord, BindingTypes
     DEF IInv, TypeOK, AddFinalizer, At, WorkerKnows, RecordInv, WorkerRecalls
<1>3. new.bsa = o.bsa /\ new.barn = o.barn /\ Own(new)
  BY <1>2 DEF Applied, Own, ContainsFinalizer, IamRoleBindings
<1>4. PreservesRecords
  BY <1>1, <1>2, <1>3, WriteKeepsRecord, UnchangedRecords
<1>5. CASE w' = Idle
  BY <1>4, <1>5, RecordEndStep DEF PreservesRecords
<1>6. CASE w' = Goto(AfterFinalizer(w.inst))
  <2>1. AfterFinalizer(w.inst) = "bind"
    BY <1>2 DEF AfterFinalizer
  <2>2. w'.pc = "bind" /\ w'.cur = w.cur /\ w'.inst = w.inst
    BY <1>2, <1>6, <2>1, GotoType DEF Calls
  <2> QED
    BY <1>2, <1>4, <2>2, RecordGoesOn
<1> QED
  BY <1>1, <1>5, <1>6 DEF Settle

LEMMA RecordFinalize ==
    ASSUME IInv, RecordInv, Finalize \/ Unannotate
    PROVE  RecordInv'
<1>1. /\ w \in Workers /\ w.pc \in {"finalize", "unannotate"} /\ w.cur \in Bindings
      /\ UNCHANGED hist
  BY DEF IInv, TypeOK, At, Finalize, Unannotate
<1>2. \A pc \in Calls : Goto(pc).pc = pc /\ Goto(pc).cur = w.cur /\ Goto(pc).inst = w.inst
  BY <1>1, GotoType
<1>3. PreservesRecords
  BY <1>1, UnchangedRecords
<1>4. ~Deleting(w.inst) => Live(w.inst)
  <2>1. Present(w.inst) /\ w.inst.phase \in Phases
    BY <1>1, BindingTypes DEF RecordInv, WorkerRecalls, Workers
  <2> QED
    BY <2>1 DEF Present, Live, Deleting, Phases
<1>5. CASE w' = Idle
  BY <1>3, <1>5, RecordEndStep DEF PreservesRecords
<1>6. CASE w' \in {Goto("unannotate"), AfterFinalize}
  <2>1. /\ w'.pc \in {"unannotate", "removeFinalizer", "bind"}
        /\ w'.cur = w.cur /\ w'.inst = w.inst
        /\ w'.pc = "removeFinalizer" => Deleting(w.inst)
        /\ w'.pc = "bind" => ~Deleting(w.inst)
    BY <1>2, <1>6 DEF AfterFinalize, Calls
  <2> QED
    BY <1>1, <1>3, <1>4, <2>1, RecordGoesOn
<1> QED
  BY <1>5, <1>6 DEF Finalize, Unannotate, Settle

(* The finalizer goes from an object that is being deleted: no version is  *)
(* live with it.                                                           *)
LEMMA RecordRemoveFinalizer ==
    ASSUME IInv, RecordInv, RemoveFinalizer
    PROVE  RecordInv'
<1> DEFINE o == Latest(hist[w.cur])
           fins == w.inst.fins \ {Finalizer}
           new == WithFinalizers(o, fins, NoBinding)
           h == hist[w.cur]
<1>1. PICK out \in Outcomes(FinalizersAccepted(o, fins)) :
        /\ IF TookEffect(out) THEN WriteBinding(w.cur, new) ELSE UNCHANGED hist
        /\ Settle(out = "ok", Idle)
  BY DEF RemoveFinalizer
<1>2. /\ w \in Workers /\ w.cur \in Bindings
      /\ h \in Versions(IamRoleBindings) /\ Dying(h, Finalizer)
      /\ o \in IamRoleBindings /\ w.inst \in IamRoleBindings
      /\ WholeRecord(o) /\ Len(h) \in 1..Len(h)
  BY LatestRecord, VersionsExist
     DEF IInv, TypeOK, Workers, RemoveFinalizer, At, WorkerKnows
<1>3. w' = Idle
  BY <1>1 DEF Settle
<1>4. new \in IamRoleBindings
  BY <1>2, BindingTypes
<1>5. ~LiveWith(o, Finalizer)
  BY <1>2 DEF Dying, DeletingWith, LiveWith, Deleting, Live, Latest
<1>6. WholeRecord(new)
  <2>1. CASE new = NoBinding
    BY <2>1, IdleRecalls
  <2>2. CASE new # NoBinding
    <3>1. new.bsa = o.bsa /\ new.barn = o.barn /\ new.phase = o.phase
      BY <1>2, <2>2 DEF WithFinalizers, IamRoleBindings
    <3> QED
      BY <1>2, <1>5, <3>1 DEF WholeRecord, LiveWith, Own, Live
  <2> QED
    BY <2>1, <2>2
<1>7. \A i \in 1..Len(h) : ~LiveWith(h[i], Finalizer)
  <2>1. \A i \in 1..Len(h) : i \in 1..i
    OBVIOUS
  <2> QED
    BY <1>2, <2>1 DEF Dying, DeletingWith, LiveWith, Deleting, Live
<1>8. RecordsKept(Written(h, new))
  BY <1>2, <1>4, <1>6, <1>7, WrittenRecords DEF RecordInv
<1>9. \A c \in Bindings : RecordsKept(hist'[c])
  <2>1. CASE TookEffect(out)
    <3>1. hist'[w.cur] = Written(h, new) /\ \A c \in Bindings \ {w.cur} : hist'[c] = hist[c]
      BY <1>1, <1>2, <1>4, <2>1, WriteType DEF IInv, TypeOK
    <3> QED
      BY <1>8, <3>1 DEF RecordInv
  <2>2. CASE ~TookEffect(out)
    BY <1>1, <2>2 DEF RecordInv
  <2> QED
    BY <2>1, <2>2
<1> QED
  BY <1>3, <1>9, RecordEndStep

LEMMA RecordBind ==
    ASSUME IInv, RecordInv, Bind \/ Annotate
    PROVE  RecordInv'
<1>1. /\ w \in Workers /\ w.cur \in Bindings /\ w.pc \in {"bind", "annotate"}
      /\ Live(w.inst) /\ UNCHANGED hist
  BY DEF IInv, TypeOK, RecordInv, WorkerRecalls, At, Bind, Annotate
<1>2. PreservesRecords
  BY <1>1, UnchangedRecords
<1>3. CASE w' = Idle
  BY <1>2, <1>3, RecordEndStep DEF PreservesRecords
<1>4. ASSUME NEW arn, arn # None, w.inst.sa # None,
             w' = [w EXCEPT !.arn = arn, !.pc = w'.pc],
             w'.pc \in {"annotate", "patchStatus"}
      PROVE  RecordInv'
  <2>1. w'.cur = w.cur /\ w'.inst = w.inst /\ w'.arn = arn
    BY <1>1, <1>4 DEF Workers
  <2> QED
    BY <1>1, <1>2, <1>4, <2>1, RecordGoesOn
<1>5. CASE Bind /\ w' # Idle
  <2> DEFINE arn == arns[w.inst.role]
             v == [w EXCEPT !.arn = arn]
  <2>1. arn # None /\ w.inst.sa # None
    BY <1>5 DEF Bind, Settle, RoleReady
  <2>2. w' = [v EXCEPT !.pc = "annotate"] \/ w' = [v EXCEPT !.pc = "patchStatus"]
    BY <1>5 DEF Bind, Settle, AfterBind
  <2>3. w' = [w EXCEPT !.arn = arn, !.pc = w'.pc]
        /\ w'.pc \in {"annotate", "patchStatus"}
    BY <1>1, <2>2 DEF Workers
  <2> QED
    BY <1>4, <2>1, <2>3
<1>6. CASE Annotate /\ w' # Idle
  <2>1. w.arn # None /\ w.inst.sa # None
    BY <1>6 DEF RecordInv, WorkerRecalls, At, Annotate
  <2>2. w' = [w EXCEPT !.pc = "patchStatus"]
    BY <1>6 DEF Annotate, Settle, AfterBind
  <2>3. w' = [w EXCEPT !.arn = w.arn, !.pc = w'.pc] /\ w'.pc = "patchStatus"
    BY <1>1, <2>2 DEF Workers
  <2> QED
    BY <1>4, <2>1, <2>3
<1> QED
  BY <1>3, <1>5, <1>6

(* The fields that are sent and those that are there make a whole record:  *)
(* what the cached copy has, the API server has still.                     *)
LEMMA RecordPatchStatus ==
    ASSUME IInv, RecordInv, PatchStatus
    PROVE  RecordInv'
<1> DEFINE o == Latest(hist[w.cur])
           new == WithStatus(o, w.inst, w.arn)
<1>1. PICK out \in Outcomes(Present(o)) :
        /\ IF TookEffect(out) THEN WriteBinding(w.cur, new) ELSE UNCHANGED hist
        /\ Settle(out = "ok", Idle)
  BY DEF PatchStatus
<1>2. /\ w \in Workers /\ w.cur \in Bindings
      /\ w.inst \in IamRoleBindings /\ w.arn \in Arns \cup {None}
      /\ o \in IamRoleBindings /\ WholeRecord(o) /\ Own(o)
      /\ Live(w.inst) /\ w.arn # None /\ w.inst.sa # None /\ WholeRecord(w.inst)
      /\ w.inst.bsa # None => o.bsa # None
  BY LatestRecord DEF IInv, TypeOK, Workers, PatchStatus, At, WorkerKnows,
                      RecordInv, WorkerRecalls
<1>3. new \in IamRoleBindings /\ new.fins = o.fins
  BY <1>2, WithStatusType
<1>4. /\ new.bsa = IF w.inst.bsa # w.inst.sa THEN w.inst.sa ELSE o.bsa
      /\ new.barn = IF w.inst.barn # w.arn THEN w.arn ELSE o.barn
  BY <1>2 DEF WithStatus, IamRoleBindings
<1>5. new.bsa # None /\ new.barn # None /\ Own(new)
  BY <1>2, <1>3, <1>4 DEF WholeRecord, Own, ContainsFinalizer
<1>6. PreservesRecords
  BY <1>1, <1>2, <1>3, <1>5, WritePreservesRecords, UnchangedRecords DEF WholeRecord
<1>7. w' = Idle
  BY <1>1 DEF Settle
<1> QED
  BY <1>6, <1>7, RecordEndStep DEF PreservesRecords

(* Users never write a status; what they create has none.                  *)
LEMMA RecordUsers ==
    ASSUME IInv, RecordInv, Users
    PROVE  RecordInv'
<1>1. \A b \in Bindings : /\ Latest(hist[b]) \in IamRoleBindings
                          /\ WholeRecord(Latest(hist[b]))
                          /\ Own(Latest(hist[b])) => Present(Latest(hist[b]))
  BY LatestRecord, OwnIsPresent DEF IInv, TypeOK
<1>2. NoBinding \in IamRoleBindings /\ NoBinding.bsa = None /\ NoBinding.barn = None
  BY BindingTypes DEF NoBinding
<1>3. ASSUME NEW b \in Bindings, NEW o \in IamRoleBindings, UserWrites(b, o),
             \/ o.bsa = None /\ o.barn = None /\ ~Own(Latest(hist[b]))
             \/ /\ o.bsa = Latest(hist[b]).bsa /\ o.barn = Latest(hist[b]).barn
                /\ o.bsa # None /\ Live(o) => Own(o)
      PROVE  RecordInv'
  <2>1. PreservesRecords /\ UNCHANGED w
    BY <1>3, WriteKeepsRecord DEF UserWrites
  <2> QED
    BY <2>1, RecordOthersStep
<1>4. ASSUME NEW b \in Bindings, NEW fins \in SUBSET ForeignFinalizers,
             NEW role \in Roles, NEW sa \in ServiceAccounts,
             CreateBinding(b, fins, role, sa)
      PROVE  RecordInv'
  <2> DEFINE o == [NoBinding EXCEPT !.phase = "live", !.fins = fins,
                                    !.role = role, !.sa = sa]
  <2>1. o \in IamRoleBindings /\ o.bsa = None /\ o.barn = None
    BY <1>2 DEF IamRoleBindings, Phases, Finalizers
  <2>2. ~Own(Latest(hist[b]))
    BY <1>1, <1>4 DEF CreateBinding
  <2> QED
    BY <1>3, <1>4, <2>1, <2>2 DEF CreateBinding
<1>5. ASSUME NEW b \in Bindings, DeleteBinding(b)
      PROVE  RecordInv'
  <2> DEFINE o == Latest(hist[b])
             new == Deleted(o, NoBinding)
  <2>1. new \in IamRoleBindings /\ UserWrites(b, new)
    BY <1>1, <1>5, BindingTypes DEF DeleteBinding
  <2>2. CASE o.fins = {}
    BY <1>2, <1>3, <2>1, <2>2 DEF Deleted, Own, ContainsFinalizer
  <2>3. CASE o.fins # {}
    <3>1. new.bsa = o.bsa /\ new.barn = o.barn /\ ~Live(new)
      BY <1>1, <2>3 DEF Deleted, Live, IamRoleBindings
    <3> QED
      BY <1>3, <2>1, <3>1
  <2> QED
    BY <2>2, <2>3
<1>6. ASSUME NEW b \in Bindings, NEW role \in Roles, NEW sa \in ServiceAccounts,
             SetRefs(b, role, sa)
      PROVE  RecordInv'
  <2> DEFINE o == Latest(hist[b])
             new == [o EXCEPT !.role = role, !.sa = sa]
  <2>1. new \in IamRoleBindings /\ UserWrites(b, new)
    BY <1>1, <1>6, BindingTypes DEF SetRefs
  <2>2. /\ new.bsa = o.bsa /\ new.barn = o.barn
        /\ new.fins = o.fins /\ new.phase = o.phase
    BY <1>1 DEF IamRoleBindings
  <2> QED
    BY <1>1, <1>3, <2>1, <2>2 DEF WholeRecord, Own, ContainsFinalizer, Live
<1>7. ASSUME NEW b \in Bindings, NEW f \in ForeignFinalizers, ReleaseFinalizer(b, f)
      PROVE  RecordInv'
  <2> DEFINE o == Latest(hist[b])
             fins == o.fins \ {f}
             new == WithFinalizers(o, fins, NoBinding)
  <2>1. f # Finalizer /\ fins \in SUBSET Finalizers
    BY <1>1, BindingTypes, BindingControllerAssumption
  <2>2. new \in IamRoleBindings /\ UserWrites(b, new)
    BY <1>1, <1>7, <2>1, BindingTypes DEF ReleaseFinalizer
  <2>3. Finalizer \in fins <=> Own(o)
    BY <2>1 DEF Own, ContainsFinalizer
  <2>4. CASE Deleting(o) /\ fins = {}
    BY <1>2, <1>3, <2>2, <2>3, <2>4 DEF WithFinalizers
  <2>5. CASE ~(Deleting(o) /\ fins = {})
    <3>1. /\ new.bsa = o.bsa /\ new.barn = o.barn
          /\ new.fins = fins /\ new.phase = o.phase
      BY <1>1, <2>5 DEF WithFinalizers, IamRoleBindings
    <3> QED
      BY <1>1, <1>3, <2>2, <2>3, <3>1 DEF WholeRecord, Own, ContainsFinalizer, Live
  <2> QED
    BY <2>4, <2>5
<1>8. ASSUME NEW s \in ServiceAccounts,
             \/ CreateAccount(s) \/ DeleteAccount(s)
             \/ \E arn \in Arns \cup {None} : EditAnnotation(s, arn)
      PROVE  RecordInv'
  <2>1. UNCHANGED <<hist, w>>
    BY <1>8 DEF CreateAccount, DeleteAccount, EditAnnotation, AccountWrites
  <2> QED
    BY <2>1, UnchangedRecords, RecordOthersStep
<1> QED
  BY <1>4, <1>5, <1>6, <1>7, <1>8 DEF Users

(* Fewer versions: those that are left were in this order before.          *)
LEMMA DeliveredRecords ==
    ASSUME NEW h \in Versions(IamRoleBindings), RecordsKept(h)
    PROVE  /\ ~Current(h) => RecordsKept(Delivered(h))
           /\ RecordsKept(Relisted(h))
<1>1. ASSUME ~Current(h)
      PROVE  RecordsKept(Delivered(h))
  <2>1. /\ Len(h) \in Nat /\ Len(Delivered(h)) = Len(h) - 1
        /\ \A i \in 1..Len(Delivered(h)) : Delivered(h)[i] = h[i + 1]
    BY <1>1, VersionsExist, DeliveredVersions
  <2>2. \A i, j \in 1..Len(Delivered(h)) : i <= j =>
           i + 1 \in 1..Len(h) /\ j + 1 \in 1..Len(h) /\ i + 1 <= j + 1
    BY <2>1
  <2> QED
    BY <2>1, <2>2 DEF RecordsKept
<1>2. RecordsKept(Relisted(h))
  <2>1. Len(h) \in 1..Len(h) /\ Len(h) <= Len(h)
    BY VersionsExist
  <2>2. Len(Relisted(h)) = 1 /\ Relisted(h)[1] = h[Len(h)]
    BY RelistedVersions
  <2> QED
    BY <2>1, <2>2 DEF RecordsKept
<1> QED
  BY <1>1, <1>2

LEMMA RecordManager ==
    ASSUME IInv, RecordInv, Manager
    PROVE  RecordInv'
<1>1. ASSUME UNCHANGED <<hist, w>>
      PROVE  RecordInv'
  BY <1>1, UnchangedRecords, RecordOthersStep
<1>2. hist \in [Bindings -> Versions(IamRoleBindings)]
      /\ \A c \in Bindings : RecordsKept(hist[c])
  BY DEF IInv, TypeOK, RecordInv
<1>3. ASSUME NEW b \in Bindings, Sync(b)
      PROVE  RecordInv'
  <2>1. ~Current(hist[b]) /\ hist' = [hist EXCEPT ![b] = Delivered(hist[b])]
        /\ UNCHANGED w
    BY <1>3 DEF Sync
  <2>2. /\ Latest(Delivered(hist[b])) = Latest(hist[b])
        /\ RecordsKept(Delivered(hist[b]))
    BY <1>2, <2>1, DeliveredVersions, DeliveredRecords
  <2>3. \A c \in Bindings : RecordsKept(hist'[c]) /\ Latest(hist'[c]) = Latest(hist[c])
    BY <1>2, <2>1, <2>2
  <2> QED
    BY <2>1, <2>3, RecordOthersStep DEF PreservesRecords
<1>4. CASE Restart
  <2>1. w' = Idle /\ \A c \in Bindings : hist'[c] = Relisted(hist[c])
    BY <1>4 DEF Restart
  <2> QED
    BY <1>2, <2>1, DeliveredRecords, RecordEndStep
<1>5. ASSUME NEW s \in ServiceAccounts, SyncAccount(s)
      PROVE  RecordInv'
  BY <1>1, <1>5 DEF SyncAccount
<1>6. ASSUME NEW r \in Roles, NEW arn \in Arns \cup {None}, SyncRole(r, arn)
      PROVE  RecordInv'
  BY <1>1, <1>6 DEF SyncRole
<1>7. CASE Resync
  BY <1>1, <1>7 DEF Resync
<1> QED
  BY <1>3, <1>4, <1>5, <1>6, <1>7 DEF Manager

LEMMA RecordStep == IInv /\ RecordInv /\ [Next]_vars => RecordInv'
<1> SUFFICES ASSUME IInv, RecordInv, [Next]_vars PROVE RecordInv'
  OBVIOUS
<1>1. CASE UNCHANGED vars
  BY <1>1, UnchangedRecords, RecordOthersStep DEF vars
<1>2. CASE Reconcile
  BY <1>2, RecordAddFinalizer, RecordFinalize, RecordRemoveFinalizer, RecordBind,
     RecordPatchStatus DEF Reconcile
<1> QED
  BY <1>1, <1>2, RecordStart, RecordManager, RecordUsers DEF Next

(* The record invariant holds in every reachable state.                    *)
THEOREM RecordInvariant == Spec => []RecordInv
<1>1. IInv /\ RecordInv /\ [Next]_vars => RecordInv'
  BY RecordStep
<1> QED
  BY <1>1, RecordInit, Invariant, PTL DEF Spec

(* The status of a binding names a service account and an ARN or neither,  *)
(* and a live object that records a binding has the finalizer.             *)
THEOREM RecordIsWholeHolds == Spec => []RecordIsWhole
<1>1. IInv /\ RecordInv => RecordIsWhole
  BY LatestRecord DEF RecordIsWhole
<1> QED
  BY <1>1, Invariant, RecordInvariant, PTL
=============================================================================
