------------------------- MODULE BindingController -------------------------
(***************************************************************************)
(* controllers/iamrolebinding_controller.go: IamRoleBindingReconciler, one *)
(* worker that annotates the service account of each IamRoleBinding with   *)
(* the ARN of the role it refers to.                                       *)
(*                                                                         *)
(* A reconcile runs from one remote call to the next.  w.pc names the call *)
(* about to be made, or the place where Reconcile is about to read objects *)
(* of another kind from the cache ("finalize", "bind").                    *)
(***************************************************************************)
EXTENDS KubeObject, RemoteCalls

CONSTANTS
    Bindings,           \* names of IamRoleBinding objects
    Roles,              \* names of IamRole objects
    ServiceAccounts,    \* names of service accounts
    Arns,               \* ARNs a role's status may have
    Finalizer,          \* "aws.jackhoman.com/free-service-account"
    ForeignFinalizers,  \* finalizers of other parties
    None,               \* the empty name, the empty ARN, no annotation
    MaxLag              \* bound: users wait while this many versions are
                        \* still on their way to the cache

ASSUME BindingControllerAssumption ==
    /\ Finalizer \notin ForeignFinalizers
    /\ None \notin Bindings \cup Roles \cup ServiceAccounts \cup Arns
    /\ MaxLag \in Nat

VARIABLES
    hist,      \* versions of each IamRoleBinding, see KubeObject
    accounts,  \* versions of each ServiceAccount
    arns,      \* status.roleArn of each cached IamRole, None: no such role
    queue,     \* bindings in the work queue
    w          \* the worker

vars == <<hist, accounts, arns, queue, w, faults>>

Finalizers == {Finalizer} \cup ForeignFinalizers

(* role and sa are the references of the spec; bsa and barn are            *)
(* status.serviceAccount and status.iamRoleArn.                            *)
IamRoleBindings == [phase : Phases, fins : SUBSET Finalizers,
                    role : Roles \cup {None}, sa : ServiceAccounts \cup {None},
                    bsa : ServiceAccounts \cup {None}, barn : Arns \cup {None}]

NoBinding == [phase |-> "absent", fins |-> {}, role |-> None, sa |-> None,
              bsa |-> None, barn |-> None]

(* ann is the annotation "eks.amazonaws.com/role-arn".                     *)
Accounts == [phase : {"absent", "live"}, ann : Arns \cup {None}]

NoAccount == [phase |-> "absent", ann |-> None]

Calls == {"addFinalizer", "finalize", "unannotate", "removeFinalizer", "bind",
          "annotate", "patchStatus"}

Workers == [pc : Calls \cup {"idle"}, cur : Bindings \cup {None},
            inst : IamRoleBindings, arn : Arns \cup {None}]

Idle == [pc |-> "idle", cur |-> None, inst |-> NoBinding, arn |-> None]

Own(o) == ContainsFinalizer(o, Finalizer)

TypeOK ==
    /\ hist \in [Bindings -> Versions(IamRoleBindings)]
    /\ accounts \in [ServiceAccounts -> Versions(Accounts)]
    /\ arns \in [Roles -> Arns \cup {None}]
    /\ queue \subseteq Bindings
    /\ w \in Workers
    /\ w.pc # "idle" => w.cur \in Bindings
    /\ faults \in 0..MaxFaults

Init ==
    /\ hist = [b \in Bindings |-> <<NoBinding>>]
    /\ accounts = [s \in ServiceAccounts |-> <<NoAccount>>]
    /\ arns = [r \in Roles |-> None]
    /\ queue = {}
    /\ w = Idle
    /\ faults = 0

-----------------------------------------------------------------------------
At(pc) == w.pc = pc
Goto(pc) == [w EXCEPT !.pc = pc]

(* Reconcile goes on, or returns the error and is queued again.            *)
Settle(ok, next) ==
    /\ w' = IF ok THEN next ELSE Idle
    /\ queue' = IF ok THEN queue ELSE queue \cup {w.cur}

WriteBinding(b, o) == hist' = [hist EXCEPT ![b] = Written(@, o)]
WriteAccount(s, a) == accounts' = [accounts EXCEPT ![s] = Written(@, a)]

-----------------------------------------------------------------------------
(* Reconcile.                                                              *)

(* Mutant: a binding that moves leaves the other service account alone.    *)
AfterFinalizerBinds(o) == "bind"

(* Where a live object goes once it has its finalizer: to finalize if the  *)
(* status names another service account than the spec.                     *)
AfterFinalizer(o) ==
    IF o.bsa # None /\ o.bsa # o.sa THEN "finalize" ELSE "bind"

(* Mutant: the finalizer is not added first.                               *)
FirstCallUnguarded(o) ==
    IF Deleting(o) THEN IF Own(o) THEN "finalize" ELSE "idle" ELSE AfterFinalizer(o)

FirstCall(o) ==
    IF Deleting(o) THEN IF Own(o) THEN "finalize" ELSE "idle"
    ELSE IF Own(o) THEN AfterFinalizer(o) ELSE "addFinalizer"

(* Mutant: the request's name is not kept.                                 *)
StartUnnamed(b) ==
    /\ At("idle")
    /\ b \in queue
    /\ LET o == Cached(hist[b]) IN
       /\ Present(o)
       /\ w' = [Idle EXCEPT !.pc = FirstCall(o), !.inst = o]
    /\ queue' = queue \ {b}
    /\ UNCHANGED <<hist, accounts, arns, faults>>

(* An object that is not in the cache is an error: the name is queued      *)
(* again.                                                                  *)
Start(b) ==
    /\ At("idle")
    /\ b \in queue
    /\ LET o == Cached(hist[b]) IN
       /\ Present(o)
       /\ w' = IF FirstCall(o) = "idle" THEN Idle
               ELSE [Idle EXCEPT !.pc = FirstCall(o), !.cur = b, !.inst = o]
    /\ queue' = queue \ {b}
    /\ UNCHANGED <<hist, accounts, arns, faults>>

(* Mutant: an error is only logged.                                        *)
AddFinalizerLogged ==
    /\ At("addFinalizer")
    /\ LET o == Latest(hist[w.cur]) IN
       \E out \in Outcomes(ApplyAccepted(o, Finalizer)) :
         /\ IF TookEffect(out) THEN WriteBinding(w.cur, Applied(o, Finalizer))
                               ELSE UNCHANGED hist
         /\ Settle(TRUE, Goto(AfterFinalizer(w.inst)))
         /\ Charge(out)
    /\ UNCHANGED <<accounts, arns>>

AddFinalizer ==
    /\ At("addFinalizer")
    /\ LET o == Latest(hist[w.cur]) IN
       \E out \in Outcomes(ApplyAccepted(o, Finalizer)) :
         /\ IF TookEffect(out) THEN WriteBinding(w.cur, Applied(o, Finalizer))
                               ELSE UNCHANGED hist
         /\ Settle(out = "ok", Goto(AfterFinalizer(w.inst)))
         /\ Charge(out)
    /\ UNCHANGED <<accounts, arns>>

(* Mutant: a binding that moves is taken for one that goes.                *)
AfterFinalizeReleases == Goto("removeFinalizer")

(* What follows finalize.                                                  *)
AfterFinalize == IF Deleting(w.inst) THEN Goto("removeFinalizer") ELSE Goto("bind")

(* Mutant: a service account that is gone is an error.                     *)
FinalizeStrict ==
    /\ At("finalize")
    /\ LET bound == w.inst.bsa
           a == Cached(accounts[bound])
       IN Settle(bound # None => Present(a),
                 IF bound # None /\ a.ann # None /\ a.ann = w.inst.barn
                 THEN Goto("unannotate") ELSE AfterFinalize)
    /\ UNCHANGED <<hist, accounts, arns, faults>>

(* Is there an annotation to remove?  As far as the cache tells.           *)
Finalize ==
    /\ At("finalize")
    /\ LET bound == w.inst.bsa
           a == Cached(accounts[bound])
       IN w' = IF bound # None /\ Present(a) /\ a.ann # None /\ a.ann = w.inst.barn
               THEN Goto("unannotate") ELSE AfterFinalize
    /\ UNCHANGED <<hist, accounts, arns, queue, faults>>

(* Mutant: an error is only logged.                                        *)
UnannotateLogged ==
    /\ At("unannotate")
    /\ LET s == w.inst.bsa
           a == Latest(accounts[s])
       IN \E out \in Outcomes(Present(a)) :
            /\ IF TookEffect(out) THEN WriteAccount(s, [a EXCEPT !.ann = None])
                                  ELSE UNCHANGED accounts
            /\ Settle(TRUE, AfterFinalize)
            /\ Charge(out)
    /\ UNCHANGED <<hist, arns>>

(* A merge patch that removes the annotation, whatever it is by now.       *)
Unannotate ==
    /\ At("unannotate")
    /\ LET s == w.inst.bsa
           a == Latest(accounts[s])
       IN \E out \in Outcomes(Present(a)) :
            /\ IF TookEffect(out) THEN WriteAccount(s, [a EXCEPT !.ann = None])
                                  ELSE UNCHANGED accounts
            /\ Settle(out = "ok", AfterFinalize)
            /\ Charge(out)
    /\ UNCHANGED <<hist, arns>>

(* A merge patch writes the whole list as the cached object had it.        *)
RemoveFinalizer ==
    /\ At("removeFinalizer")
    /\ LET o == Latest(hist[w.cur])
           fins == w.inst.fins \ {Finalizer}
       IN \E out \in Outcomes(FinalizersAccepted(o, fins)) :
            /\ IF TookEffect(out)
               THEN WriteBinding(w.cur, WithFinalizers(o, fins, NoBinding))
               ELSE UNCHANGED hist
            /\ Settle(out = "ok", Idle)
            /\ Charge(out)
    /\ UNCHANGED <<accounts, arns>>

(* Mutant: the status is written once only.                                *)
AfterBindOnce(v) == IF v.inst.bsa = None THEN [v EXCEPT !.pc = "patchStatus"] ELSE Idle

(* Nothing is written when the status already says what is so.             *)
AfterBind(v) ==
    IF v.inst.bsa # v.inst.sa \/ v.inst.barn # v.arn
    THEN [v EXCEPT !.pc = "patchStatus"] ELSE Idle

RoleReady(o) == o.role # None /\ arns[o.role] # None

(* Mutant: any annotation is a conflict, the binding's own, too.           *)
ConflictAny(o) == Cached(accounts[o.sa]).ann # None

(* Another ARN on the service account is a conflict.                       *)
Conflict(o) ==
    LET a == Cached(accounts[o.sa]) IN a.ann # None /\ a.ann # arns[o.role]

(* The role and the service account as the cache has them.                 *)
Bind ==
    /\ At("bind")
    /\ LET o == w.inst
           v == [w EXCEPT !.arn = arns[o.role]]
           a == Cached(accounts[o.sa])
       IN Settle(/\ RoleReady(o)
                 /\ o.sa # None /\ Present(a)
                 /\ ~Conflict(o),
                 IF a.ann = None THEN [v EXCEPT !.pc = "annotate"] ELSE AfterBind(v))
    /\ UNCHANGED <<hist, accounts, arns, faults>>

(* A merge patch that sets the annotation, whatever it is by now.          *)
Annotate ==
    /\ At("annotate")
    /\ LET s == w.inst.sa
           a == Latest(accounts[s])
       IN \E out \in Outcomes(Present(a)) :
            /\ IF TookEffect(out) THEN WriteAccount(s, [a EXCEPT !.ann = w.arn])
                                  ELSE UNCHANGED accounts
            /\ Settle(out = "ok", AfterBind(w))
            /\ Charge(out)
    /\ UNCHANGED <<hist, arns>>

(* The patch holds the fields that differ from the cached object.          *)
WithStatus(o, inst, arn) ==
    [o EXCEPT !.bsa = IF inst.bsa # inst.sa THEN inst.sa ELSE @,
              !.barn = IF inst.barn # arn THEN arn ELSE @]

PatchStatus ==
    /\ At("patchStatus")
    /\ LET o == Latest(hist[w.cur]) IN
       \E out \in Outcomes(Present(o)) :
         /\ IF TookEffect(out)
            THEN WriteBinding(w.cur, WithStatus(o, w.inst, w.arn))
            ELSE UNCHANGED hist
         /\ Settle(out = "ok", Idle)
         /\ Charge(out)
    /\ UNCHANGED <<accounts, arns>>

Reconcile ==
    \/ AddFinalizer
    \/ Finalize \/ Unannotate \/ RemoveFinalizer
    \/ Bind \/ Annotate \/ PatchStatus

-----------------------------------------------------------------------------
(* The manager.  Only bindings are watched for events that queue a name.   *)

Sync(b) ==
    /\ ~Current(hist[b])
    /\ hist' = [hist EXCEPT ![b] = Delivered(@)]
    /\ queue' = queue \cup {b}
    /\ UNCHANGED <<accounts, arns, w, faults>>

SyncAccount(s) ==
    /\ ~Current(accounts[s])
    /\ accounts' = [accounts EXCEPT ![s] = Delivered(@)]
    /\ UNCHANGED <<hist, arns, queue, w, faults>>

(* The role controller writes status.roleArn, or a role comes or goes.     *)
SyncRole(r, arn) ==
    /\ arn # arns[r]
    /\ arns' = [arns EXCEPT ![r] = arn]
    /\ UNCHANGED <<hist, accounts, queue, w, faults>>

Resync ==
    /\ queue' = queue \cup {b \in Bindings : Present(Cached(hist[b]))}
    /\ queue' # queue
    /\ UNCHANGED <<hist, accounts, arns, w, faults>>

Restart ==
    /\ faults < MaxFaults
    /\ faults' = faults + 1
    /\ hist' = [b \in Bindings |-> Relisted(hist[b])]
    /\ accounts' = [s \in ServiceAccounts |-> Relisted(accounts[s])]
    /\ w' = Idle
    /\ queue' = {b \in Bindings : Present(Latest(hist[b]))}
    /\ UNCHANGED arns

Manager ==
    \/ \E b \in Bindings : Sync(b)
    \/ \E s \in ServiceAccounts : SyncAccount(s)
    \/ \E r \in Roles, arn \in Arns \cup {None} : SyncRole(r, arn)
    \/ Resync
    \/ Restart

-----------------------------------------------------------------------------
(* Users of the cluster.  They leave the controller's finalizer alone.     *)

UserWrites(b, o) ==
    /\ Len(hist[b]) <= MaxLag
    /\ WriteBinding(b, o)
    /\ UNCHANGED <<accounts, arns, queue, w, faults>>

CreateBinding(b, fins, role, sa) ==
    /\ ~Present(Latest(hist[b]))
    /\ UserWrites(b, [NoBinding EXCEPT !.phase = "live", !.fins = fins,
                                       !.role = role, !.sa = sa])

DeleteBinding(b) ==
    /\ Live(Latest(hist[b]))
    /\ UserWrites(b, Deleted(Latest(hist[b]), NoBinding))

SetRefs(b, role, sa) ==
    LET o == Latest(hist[b]) IN
    /\ Live(o)
    /\ <<role, sa>> # <<o.role, o.sa>>
    /\ UserWrites(b, [o EXCEPT !.role = role, !.sa = sa])

ReleaseFinalizer(b, f) ==
    LET o == Latest(hist[b]) IN
    /\ ContainsFinalizer(o, f)
    /\ UserWrites(b, WithFinalizers(o, o.fins \ {f}, NoBinding))

AccountWrites(s, a) ==
    /\ Len(accounts[s]) <= MaxLag
    /\ WriteAccount(s, a)
    /\ UNCHANGED <<hist, arns, queue, w>>

CreateAccount(s) ==
    /\ ~Present(Latest(accounts[s]))
    /\ AccountWrites(s, [phase |-> "live", ann |-> None])
    /\ UNCHANGED faults

DeleteAccount(s) ==
    /\ Present(Latest(accounts[s]))
    /\ AccountWrites(s, NoAccount)
    /\ UNCHANGED faults

(* Someone else edits the annotation.                                      *)
EditAnnotation(s, arn) ==
    /\ faults < MaxFaults
    /\ faults' = faults + 1
    /\ Present(Latest(accounts[s]))
    /\ arn # Latest(accounts[s]).ann
    /\ AccountWrites(s, [Latest(accounts[s]) EXCEPT !.ann = arn])

Users ==
    \/ \E b \in Bindings :
         \/ \E fins \in SUBSET ForeignFinalizers, role \in Roles, sa \in ServiceAccounts :
              CreateBinding(b, fins, role, sa)
         \/ DeleteBinding(b)
         \/ \E role \in Roles, sa \in ServiceAccounts : SetRefs(b, role, sa)
         \/ \E f \in ForeignFinalizers : ReleaseFinalizer(b, f)
    \/ \E s \in ServiceAccounts :
         \/ CreateAccount(s) \/ DeleteAccount(s)
         \/ \E arn \in Arns \cup {None} : EditAnnotation(s, arn)

-----------------------------------------------------------------------------
Next ==
    \/ \E b \in Bindings : Start(b)
    \/ Reconcile
    \/ Manager
    \/ Users

Spec == Init /\ [][Next]_vars

(* Calls return, watch events arrive, a name that stays in the queue is    *)
(* started, and the resync's period passes.                                *)
FairSpec ==
    /\ Spec
    /\ WF_vars(Reconcile)
    /\ \A b \in Bindings : SF_vars(Start(b)) /\ WF_vars(Sync(b))
    /\ \A s \in ServiceAccounts : WF_vars(SyncAccount(s))
    /\ WF_vars(Resync)
=============================================================================
