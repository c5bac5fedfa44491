----------------------- MODULE AttachmentSystemProofs -----------------------
(***************************************************************************)
(* AttachmentSystem implements the modules of its two reconcilers, for     *)
(* every value of the constants, also where calls fail.  So the theorems   *)
(* about each reconciler alone hold of the two together.                   *)
(***************************************************************************)
EXTENDS AttachmentSystem, TLAPS

(* What the two modules assume of their constants holds here.              *)
LEMMA RoleAssumptions ==
    /\ RoleFinalizer \notin ForeignFinalizers
    /\ None \notin Roles
    /\ MaxLag \in Nat /\ MaxFaults \in Nat
    /\ ForeignTrust \subseteq SUBSET RC!ForeignStatements
    /\ DeleteConflicts \in BOOLEAN
  BY AttachmentSystemAssumption

LEMMA PolicyAssumptions ==
    /\ PolicyFinalizer \notin ForeignFinalizers
    /\ None \notin Policies
    /\ MaxLag \in Nat /\ MaxFaults \in Nat
    /\ ForeignVersions \in BOOLEAN /\ DeleteConflicts \in BOOLEAN
    /\ \A spec \in Specs \cup {PC!EmptySpec} :
          PC!SerializeDocument(spec) \in Documents
    /\ DefaultVersion \in LanguageVersions
    /\ Nil \notin [ConditionOperators -> Seq([key : Keys, values : Values])]
    /\ NoDocument \notin Documents /\ Valid \subseteq Documents
    /\ NoVersion \notin VersionIds /\ PC!IsFiniteSet(VersionIds)
    /\ VersionLimit \in Nat \ {0} /\ VersionLimit <= PC!Cardinality(VersionIds)
<1>1. PC!IsFiniteSet(VersionIds) <=> IsFiniteSet(VersionIds)
  BY DEF PC!IsFiniteSet, IsFiniteSet
<1>2. PC!Cardinality(VersionIds) = Cardinality(VersionIds)
  BY DEF PC!Cardinality, Cardinality, PC!IsFiniteSet, IsFiniteSet
<1>3. VersionLimit \in Nat \ {0} /\ VersionLimit <= Cardinality(VersionIds)
  BY DocumentsAssumption
<1>4. /\ PolicyFinalizer \notin ForeignFinalizers /\ None \notin Policies
      /\ MaxLag \in Nat /\ MaxFaults \in Nat
      /\ ForeignVersions \in BOOLEAN /\ DeleteConflicts \in BOOLEAN
  BY AttachmentSystemAssumption
<1> QED
  BY <1>1, <1>2, <1>3, <1>4, DocumentsAssumption

-----------------------------------------------------------------------------
(* Types, and what one reconciler sees of the other's steps.               *)

LEMMA RoleTypes ==
    /\ RC!Init => RC!TypeOK
    /\ RC!TypeOK /\ [RC!Next]_(RC!vars) => RC!TypeOK'
  BY RoleAssumptions, RC!TypeInit, RC!TypeStep

LEMMA PolicyTypes ==
    /\ PC!Init => PC!TypeOK
    /\ PC!TypeOK /\ [PC!Next]_(PC!vars) => PC!TypeOK'
  BY PolicyAssumptions, PC!TypeInit, PC!TypeStep

TypesOK == RC!TypeOK /\ PC!TypeOK

LEMMA Second == \A n \in Nat \ {0} : n # 1 => 2 \in 1..n
  OBVIOUS

(* The versions of an object that the other reconciler may come to see.    *)
LEMMA RoleSeenTypes ==
    ASSUME RC!TypeOK, NEW r \in Roles
    PROVE  /\ roleHist[r][1].refs \in SUBSET Policies
           /\ RC!Latest(roleHist[r]).refs \in SUBSET Policies
           /\ ~RC!Current(roleHist[r]) => roleHist[r][2].refs \in SUBSET Policies
<1>1. /\ roleHist[r] \in Seq(RC!IamRoles)
      /\ Len(roleHist[r]) \in Nat \ {0}
  BY DEF RC!TypeOK, RC!Versions
<1>2. \A o \in RC!IamRoles : o.refs \in SUBSET Policies
  BY DEF RC!IamRoles
<1>3. Len(roleHist[r]) # 1 => 2 \in 1..Len(roleHist[r])
  BY <1>1, Second
<1> QED
  BY <1>1, <1>2, <1>3 DEF RC!Latest, RC!Current

Status(o) == [arn |-> o.arn, roles |-> o.roles]

LEMMA PolicySeenTypes ==
    ASSUME PC!TypeOK, NEW p \in Policies
    PROVE  /\ Status(policyHist[p][1]) \in RC!IamPolicies
           /\ Status(PC!Latest(policyHist[p])) \in RC!IamPolicies
           /\ ~PC!Current(policyHist[p]) =>
                 Status(policyHist[p][2]) \in RC!IamPolicies
<1>1. /\ policyHist[p] \in Seq(PC!IamPolicies)
      /\ Len(policyHist[p]) \in Nat \ {0}
  BY DEF PC!TypeOK, PC!Versions
<1>2. \A o \in PC!IamPolicies : Status(o) \in RC!IamPolicies
  BY DEF PC!IamPolicies, RC!IamPolicies, Status
<1>3. Len(policyHist[p]) # 1 => 2 \in 1..Len(policyHist[p])
  BY <1>1, Second
<1> QED
  BY <1>1, <1>2, <1>3 DEF PC!Latest, PC!Current

(* A write of one reconciler or of a user is not seen by the other         *)
(* reconciler before the event of it.                                      *)
LEMMA RoleWritesUnseen ==
    ASSUME RC!TypeOK, RC!Reconcile \/ RC!Users
    PROVE  UNCHANGED PolicyRefs
<1>1. \A r \in Roles : roleHist'[r][1] = roleHist[r][1]
  BY RoleAssumptions, RC!CacheStays DEF RC!Cached
<1> QED
  BY <1>1 DEF PolicyRefs

LEMMA PolicyWritesUnseen ==
    ASSUME PC!TypeOK, PC!Reconcile \/ PC!Users
    PROVE  UNCHANGED AttachmentStatus
<1>1. \A p \in Policies : policyHist'[p][1] = policyHist[p][1]
  BY PolicyAssumptions, PC!CacheStays DEF PC!Cached
<1> QED
  BY <1>1 DEF AttachmentStatus

-----------------------------------------------------------------------------
(* Every step of the system is a step, or none, of each module: of the     *)
(* reconciler that takes it, and of the other's environment.               *)

LEMMA StepRoleReconcile ==
    ASSUME TypesOK, RoleReconcile
    PROVE  [RC!Next]_(RC!vars) /\ [PC!Next]_(PC!vars)
<1>1. RC!Next
  BY DEF RoleReconcile, RC!Next
<1>2. UNCHANGED PC!vars
  BY RoleWritesUnseen DEF TypesOK, RoleReconcile, policyVars, PC!vars
<1> QED
  BY <1>1, <1>2

LEMMA StepPolicyReconcile ==
    ASSUME TypesOK, PolicyReconcile
    PROVE  [RC!Next]_(RC!vars) /\ [PC!Next]_(PC!vars)
<1>1. PC!Next
  BY DEF PolicyReconcile, PC!Next
<1>2. UNCHANGED <<roleVars, AttachmentStatus>>
  BY PolicyWritesUnseen DEF TypesOK, PolicyReconcile
<1>3. CASE UNCHANGED Upstream
  BY <1>1, <1>2, <1>3 DEF roleVars, RC!vars
<1>4. CASE Upstream' # Upstream
  <2>1. Upstream' \in SUBSET Policies
    BY DEF Upstream
  <2>2. RC!UpstreamPolicy(Upstream')
    BY <1>2, <1>4 DEF roleVars, RC!UpstreamPolicy
  <2> QED
    BY <1>1, <2>1, <2>2 DEF RC!Next, RC!Aws
<1> QED
  BY <1>3, <1>4

LEMMA StepStart ==
    ASSUME \/ \E r \in Roles : RoleStart(r)
           \/ \E p \in Policies : PolicyStart(p)
    PROVE  [RC!Next]_(RC!vars) /\ [PC!Next]_(PC!vars)
<1>1. ASSUME NEW r \in Roles, RoleStart(r)
      PROVE  RC!Next /\ UNCHANGED PC!vars
  BY <1>1 DEF RoleStart, RC!Next, RC!Start, policyVars, PC!vars, PolicyRefs
<1>2. ASSUME NEW p \in Policies, PolicyStart(p)
      PROVE  PC!Next /\ UNCHANGED RC!vars
  BY <1>2 DEF PolicyStart, PC!Next, PC!Start, roleVars, RC!vars, AttachmentStatus,
              Upstream
<1> QED
  BY <1>1, <1>2

LEMMA StepRoleSync ==
    ASSUME TypesOK, NEW r \in Roles, RoleSync(r)
    PROVE  [RC!Next]_(RC!vars) /\ [PC!Next]_(PC!vars)
<1>1. RC!Next
  BY DEF RoleSync, RC!Next, RC!Manager
<1>2. roleHist[r][2].refs \in SUBSET Policies
  BY RoleSeenTypes DEF TypesOK, RoleSync, RC!Sync
<1>3. PC!Next
  BY <1>2 DEF RoleSync, PC!Next, PC!Manager
<1> QED
  BY <1>1, <1>3

LEMMA StepPolicySync ==
    ASSUME TypesOK, NEW p \in Policies, PolicySync(p)
    PROVE  [RC!Next]_(RC!vars) /\ [PC!Next]_(PC!vars)
<1>1. PC!Next
  BY DEF PolicySync, PC!Next, PC!Manager
<1>2. Status(policyHist[p][2]) \in RC!IamPolicies
  BY PolicySeenTypes DEF TypesOK, PolicySync, PC!Sync
<1>3. RC!Next
  BY <1>2 DEF PolicySync, RC!Next, RC!Manager, Status
<1> QED
  BY <1>1, <1>3

(* The caches jump to what the API server holds.                           *)
LEMMA StepRestart ==
    ASSUME TypesOK, Restart
    PROVE  [RC!Next]_(RC!vars) /\ [PC!Next]_(PC!vars)
<1>1. \A r \in Roles : roleHist'[r][1] = RC!Latest(roleHist[r])
  BY DEF Restart, RC!Relisted
<1>2. \A p \in Policies : policyHist'[p][1] = PC!Latest(policyHist[p])
  BY DEF Restart, PC!Relisted
<1>3. PolicyRefs' \in [Roles -> SUBSET Policies]
  BY <1>1, RoleSeenTypes DEF TypesOK, PolicyRefs
<1>4. AttachmentStatus' \in [Policies -> RC!IamPolicies]
  <2>1. \A p \in Policies :
          Status(PC!Latest(policyHist[p])) \in RC!IamPolicies
    BY PolicySeenTypes DEF TypesOK
  <2> QED
    BY <1>2, <2>1 DEF AttachmentStatus, Status
<1>5. bindings \in [Bindings -> RC!IamRoleBindings]
  BY DEF TypesOK, RC!TypeOK
<1>6. RC!Restart
  BY <1>4, <1>5 DEF Restart, RC!Restart, Upstream
<1>7. PC!Restart
  BY <1>3 DEF Restart, PC!Restart
<1> QED
  BY <1>6, <1>7 DEF RC!Next, RC!Manager, PC!Next, PC!Manager

LEMMA StepUsers ==
    ASSUME TypesOK, Users
    PROVE  [RC!Next]_(RC!vars) /\ [PC!Next]_(PC!vars)
<1>1. CASE UNCHANGED policyVars /\ RC!Users
  <2>1. UNCHANGED PC!vars
    BY <1>1, RoleWritesUnseen DEF TypesOK, policyVars, PC!vars
  <2> QED
    BY <1>1, <2>1 DEF RC!Next
<1>2. CASE UNCHANGED roleVars /\ PC!Users
  <2>1. UNCHANGED iamPolicies
    BY <1>2 DEF PC!Users, PC!CreateIamPolicy, PC!DeleteIamPolicy, PC!SetDocument,
                PC!ReleaseFinalizer, PC!UserWrites
  <2>2. UNCHANGED RC!vars
    BY <1>2, <2>1, PolicyWritesUnseen DEF TypesOK, roleVars, RC!vars, Upstream
  <2> QED
    BY <1>2, <2>2 DEF PC!Next
<1> QED
  BY <1>1, <1>2 DEF Users

LEMMA Step ==
    TypesOK /\ [Next]_vars => [RC!Next]_(RC!vars) /\ [PC!Next]_(PC!vars)
<1> SUFFICES ASSUME TypesOK, [Next]_vars
             PROVE  [RC!Next]_(RC!vars) /\ [PC!Next]_(PC!vars)
  OBVIOUS
<1>1. CASE UNCHANGED vars
  BY <1>1 DEF vars, roleVars, policyVars, RC!vars, PC!vars, PolicyRefs,
              AttachmentStatus, Upstream
<1> QED
  BY <1>1, StepRoleReconcile, StepPolicyReconcile, StepStart, StepRoleSync,
     StepPolicySync, StepRestart, StepUsers DEF Next

LEMMA Start == Init => RC!Init /\ PC!Init
<1> SUFFICES ASSUME Init PROVE RC!Init /\ PC!Init
  OBVIOUS
<1>1. PolicyRefs = [r \in Roles |-> {}]
  BY DEF Init, PolicyRefs, RC!NoIamRole
<1>2. AttachmentStatus = [p \in Policies |-> [arn |-> FALSE, roles |-> {}]]
  BY DEF Init, AttachmentStatus, PC!NoIamPolicy
<1>3. Upstream = {}
  BY DEF Init, Upstream, PC!NoUpstreamPolicy
<1> QED
  BY <1>1, <1>2, <1>3 DEF Init, RC!Init, PC!Init

-----------------------------------------------------------------------------

(* The two reconcilers together implement the module of each: whatever one *)
(* does to the state that the other reads, the other's module allows its   *)
(* environment.                                                            *)
THEOREM ImplementsReconcilersHolds == Spec => ImplementsReconcilers
<1>1. Init => TypesOK
  BY Start, RoleTypes, PolicyTypes DEF TypesOK
<1>2. TypesOK /\ [Next]_vars => TypesOK'
  BY Step, RoleTypes, PolicyTypes DEF TypesOK
<1>3. Spec => []TypesOK
  BY <1>1, <1>2, PTL DEF Spec
<1>4. Spec => RC!Init /\ PC!Init /\ [][RC!Next]_(RC!vars) /\ [][PC!Next]_(PC!vars)
  BY <1>3, Start, Step, PTL DEF Spec
<1> QED
  BY <1>4 DEF ImplementsReconcilers, RC!Spec, PC!Spec

(* Of the two together: each is a correct manager of its resource, as long *)
(* as the policies are undisturbed.                                        *)
THEOREM BothManageResources ==
    ASSUME PC!Undisturbed
    PROVE  Spec => RC!ImplementsManagedResource /\ PC!ImplementsManagedResource
<1>1. RC!Spec => RC!ImplementsManagedResource
  BY RoleAssumptions, RC!ImplementsManagedResourceHolds
<1>2. PC!Spec => PC!ImplementsManagedResource
  BY PolicyAssumptions, PC!ImplementsManagedResourceHolds
<1> QED
  BY <1>1, <1>2, ImplementsReconcilersHolds DEF ImplementsReconcilers

(* Of the two together: no role and no policy that was created in IAM is   *)
(* left without an object that holds its finalizer.                        *)
THEOREM NothingLeftBehind ==
    ASSUME PC!Undisturbed
    PROVE  Spec => [](RC!NoOrphan /\ PC!NoOrphan)
<1>1. RC!Spec => []RC!NoOrphan
  BY RoleAssumptions, RC!NoOrphanHolds, PTL
<1>2. PC!Spec => []PC!NoOrphan
  BY PolicyAssumptions, PC!NoOrphanHolds, PTL
<1> QED
  BY <1>1, <1>2, ImplementsReconcilersHolds, PTL DEF ImplementsReconcilers

(* Of the two together: a policy is attached to a role only while the      *)
(* object of each holds its finalizer at the API server, however old the   *)
(* copies are that the role reconciler goes by.                            *)
THEOREM AttachesOnlyHeldHolds ==
    ASSUME PC!Undisturbed
    PROVE  Spec => AttachesOnlyHeld
<1> DEFINE Allowed ==
             \A r \in Roles, p \in Policies :
               (p \in iamRoles'[r].attached /\ p \notin iamRoles[r].attached)
               => /\ RC!Own(RC!Latest(roleHist[r]))
                  /\ PC!Own(PC!Latest(policyHist[p]))
<1>1. Spec => []RC!IInv
  BY ImplementsReconcilersHolds, RoleAssumptions, RC!Invariant, PTL
     DEF ImplementsReconcilers
<1>2. Spec => [](RC!NoOrphan /\ PC!NoOrphan)
  BY NothingLeftBehind
<1>3. ASSUME RC!IInv, PC!NoOrphan, [RC!Next]_(RC!vars)
      PROVE  Allowed
  <2> SUFFICES ASSUME NEW r \in Roles, NEW p \in Policies,
                      p \in iamRoles'[r].attached, p \notin iamRoles[r].attached
               PROVE  /\ RC!Own(RC!Latest(roleHist[r]))
                      /\ PC!Own(PC!Latest(policyHist[p]))
    OBVIOUS
  <2>1. roleWorker.pc = "attach" /\ roleWorker.cur = r /\ p \in Upstream
    BY <1>3, RoleAssumptions, RC!AttachmentIsAttach
  <2>2. RC!Own(RC!Latest(roleHist[r]))
    BY <1>3, <2>1 DEF RC!IInv, RC!WorkerKnows, RC!Provisioning, RC!Calls
  <2>3. PC!Own(PC!Latest(policyHist[p]))
    BY <1>3, <2>1 DEF PC!NoOrphan, PC!Managed, Upstream
  <2> QED
    BY <2>2, <2>3
<1>4. RC!IInv /\ PC!NoOrphan /\ [RC!Next]_(RC!vars) => [Allowed]_vars
  BY <1>3
<1>5. Spec => [][RC!Next]_(RC!vars)
  BY ImplementsReconcilersHolds DEF ImplementsReconcilers, RC!Spec
<1> QED
  BY <1>1, <1>2, <1>4, <1>5, PTL DEF AttachesOnlyHeld
=============================================================================
