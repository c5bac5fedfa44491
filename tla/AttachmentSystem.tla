-------------------------- MODULE AttachmentSystem --------------------------
(***************************************************************************)
(* IamRoleReconciler and IamPolicyReconciler in one manager.  They never   *)
(* call each other: a role is attached to its policies through             *)
(*   spec.policyRefs       which the policy reconciler reads of cached     *)
(*                         IamRoles and writes to status.attachedRoles,    *)
(*   status.attachedRoles  by which an event of an IamPolicy finds the     *)
(*                         roles to queue,                                 *)
(*   status.arn            which the role reconciler reads of the cached   *)
(*                         IamPolicy before it attaches,                   *)
(* and through the policies in IAM.  Each reconciler is the module of its  *)
(* own; what it takes from its environment is here the other's state.      *)
(***************************************************************************)
EXTENDS Naturals, Sequences, FiniteSets

CONSTANTS
    Roles, Policies, RoleFinalizer, PolicyFinalizer, None,
    ServiceAccounts, Bindings, ForeignTrust, ForeignFinalizers,
    DeleteConflicts, MaxLag, ForeignVersions, FirstPage,
    ConditionOperators, Keys, Values, Grants, Texts, LanguageVersions,
    DefaultVersion, Nil, Specs, Documents, Valid, VersionIds, NoDocument,
    NoVersion, VersionLimit,
    MaxEdits,     \* bound: writes of users
    MaxFaults,    \* bound: ends of the process, with each's failed calls
    CallsFail     \* do calls fail?

VARIABLES
    roleHist, roleQueue, roleWorker, iamRoles, bindings,
    policyHist, policyQueue, policyWorker, named, iamPolicies,
    roleFaults, policyFaults,  \* ends of the process, and calls that failed
    edits

roleVars == <<roleHist, roleQueue, roleWorker, iamRoles, bindings, roleFaults>>
policyVars == <<policyHist, policyQueue, policyWorker, named, iamPolicies,
                policyFaults>>
vars == <<roleVars, policyVars, edits>>

(* What the policy reconciler sees of a role: a role that is gone refers   *)
(* to nothing.                                                             *)
PolicyRefs == [r \in Roles |-> roleHist[r][1].refs]

(* What the role reconciler sees of a policy.                              *)
AttachmentStatus ==
    [p \in Policies |-> [arn |-> policyHist[p][1].arn,
                         roles |-> policyHist[p][1].roles]]

Upstream == {p \in Policies : iamPolicies[p].owner = "controller"}

(* The two modules, with their theorems.                                   *)
RC == INSTANCE RoleControllerProofs WITH
    Finalizer <- RoleFinalizer,
    hist <- roleHist, queue <- roleQueue, w <- roleWorker, iam <- iamRoles,
    upstream <- Upstream, policies <- AttachmentStatus, faults <- roleFaults

PC == INSTANCE PolicyRefinementProofs WITH
    Finalizer <- PolicyFinalizer,
    hist <- policyHist, queue <- policyQueue, w <- policyWorker,
    iam <- iamPolicies, refs <- PolicyRefs, faults <- policyFaults

(* What the two modules assume of their constants.                         *)
ASSUME AttachmentSystemAssumption ==
    /\ {RoleFinalizer, PolicyFinalizer} \cap ForeignFinalizers = {}
    /\ None \notin Roles \cup Policies
    /\ MaxFaults \in Nat /\ MaxLag \in Nat
    /\ {CallsFail, DeleteConflicts, ForeignVersions} \subseteq BOOLEAN
    /\ ForeignTrust \subseteq SUBSET RC!ForeignStatements

ASSUME DocumentsAssumption ==
    /\ DefaultVersion \in LanguageVersions
    /\ Nil \notin [ConditionOperators -> Seq([key : Keys, values : Values])]
    /\ \A spec \in Specs \cup {PC!EmptySpec} :
          PC!SerializeDocument(spec) \in Documents
    /\ NoDocument \notin Documents /\ Valid \subseteq Documents
    /\ NoVersion \notin VersionIds /\ IsFiniteSet(VersionIds)
    /\ VersionLimit \in 1..Cardinality(VersionIds)

Init ==
    /\ roleHist = [r \in Roles |-> <<RC!NoIamRole>>]
    /\ roleQueue = {} /\ roleWorker = RC!Idle
    /\ iamRoles = [r \in Roles |-> RC!NoUpstreamRole]
    /\ bindings = [b \in Bindings |-> None]
    /\ policyHist = [p \in Policies |-> <<PC!NoIamPolicy>>]
    /\ policyQueue = {} /\ policyWorker = PC!Idle /\ named = {}
    /\ iamPolicies = [p \in Policies |-> PC!NoUpstreamPolicy]
    /\ roleFaults = 0 /\ policyFaults = 0 /\ edits = 0

-----------------------------------------------------------------------------
RoleStart(r) == UNCHANGED <<policyVars, edits>> /\ RC!Start(r)
RoleReconcile ==
    /\ UNCHANGED <<policyVars, edits>>
    /\ RC!Reconcile
    /\ CallsFail \/ UNCHANGED roleFaults

PolicyStart(p) == UNCHANGED <<roleVars, edits>> /\ PC!Start(p)
PolicyReconcile ==
    /\ UNCHANGED <<roleVars, edits>>
    /\ PC!Reconcile
    /\ CallsFail \/ UNCHANGED policyFaults

(* One informer serves both: an event of a role queues the role, and for   *)
(* the policy reconciler the policies it refers to.                        *)
RoleSync(r) ==
    /\ UNCHANGED <<policyHist, iamPolicies, edits>>
    /\ RC!Sync(r)
    /\ PC!RoleSeen(r, roleHist[r][2].refs)

(* Mutant: the role reconciler does not watch IamPolicies.                 *)
PolicySyncUnwatched(p) == UNCHANGED <<roleVars, edits>> /\ PC!Sync(p)

PolicySync(p) ==
    /\ UNCHANGED <<roleHist, iamRoles, edits>>
    /\ PC!Sync(p)
    /\ RC!PolicySeen(p, [arn |-> policyHist[p][2].arn,
                         roles |-> policyHist[p][2].roles])

(* The process ends, and with it both reconcilers.                         *)
Restart ==
    /\ roleFaults < MaxFaults /\ policyFaults < MaxFaults
    /\ roleFaults' = roleFaults + 1 /\ policyFaults' = policyFaults + 1
    /\ roleHist' = [r \in Roles |-> RC!Relisted(roleHist[r])]
    /\ policyHist' = [p \in Policies |-> PC!Relisted(policyHist[p])]
    /\ roleWorker' = RC!Idle /\ policyWorker' = PC!Idle /\ named' = {}
    /\ roleQueue' = {r \in Roles : RC!Present(RC!Latest(roleHist[r]))}
    /\ policyQueue' = {p \in Policies : PC!Present(PC!Latest(policyHist[p]))}
    /\ UNCHANGED <<iamRoles, iamPolicies, bindings, edits>>

Users ==
    /\ edits < MaxEdits
    /\ edits' = edits + 1
    /\ \/ UNCHANGED policyVars /\ RC!Users
       \/ UNCHANGED roleVars /\ PC!Users

Next ==
    \/ \E r \in Roles : RoleStart(r) \/ RoleSync(r)
    \/ \E p \in Policies : PolicyStart(p) \/ PolicySync(p)
    \/ RoleReconcile \/ PolicyReconcile
    \/ Restart
    \/ Users

(* Each reconciler has a worker of its own; the resync is not needed.      *)
Spec ==
    /\ Init /\ [][Next]_vars
    /\ WF_vars(RoleReconcile) /\ WF_vars(PolicyReconcile)
    /\ \A r \in Roles : SF_vars(RoleStart(r)) /\ WF_vars(RoleSync(r))
    /\ \A p \in Policies : SF_vars(PolicyStart(p)) /\ WF_vars(PolicySync(p))

-----------------------------------------------------------------------------
(* Each reconciler, in the company of the other, does what its own module  *)
(* says: what that module lets its environment do covers what the other    *)
(* reconciler does, so what is shown of each alone holds of them together. *)
ImplementsReconcilers == RC!Spec /\ PC!Spec

(* A policy is attached to a role only while the API server has the object *)
(* of each with its reconciler's finalizer, although the role reconciler   *)
(* goes by cached copies of both (Attach takes an ARN of a status): never  *)
(* for an object that is gone, or whose finalizer was released.            *)
AttachesOnlyHeld ==
    [][\A r \in Roles, p \in Policies :
         (p \in iamRoles'[r].attached /\ p \notin iamRoles[r].attached)
         => /\ RC!Own(RC!Latest(roleHist[r]))
            /\ PC!Own(PC!Latest(policyHist[p]))]_vars

(* A role that stays and refers to a policy that stays gets it attached,   *)
(* however the events of the two cross and wherever the process ends,      *)
(* without the resync, as long as no call fails: the role's                *)
(* event makes the policy reconciler write attachedRoles, whose event      *)
(* makes the role reconciler try again with an ARN that is set by then.    *)
ReferencesAreAttached ==
    \A r \in Roles, p \in Policies :
      LET role == RC!Latest(roleHist[r])
          policy == PC!Latest(policyHist[p])
      IN <>[](/\ RC!Live(role) /\ p \in role.refs
              /\ PC!Live(policy) /\ PC!Desired(policy) \in Valid)
         => <>[](p \in Upstream /\ p \in iamRoles[r].attached)
=============================================================================
