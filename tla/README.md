# aws-iam-controller in TLA+

A model of the three Kubernetes controllers in this repository, the AWS clients
below them and the trust-policy editor, with TLC runs on small instances and
theorems checked by TLAPS. Paths are relative to `src/`.

## 1. The system

| Component | State it keeps | Operations | Talks to |
|---|---|---|---|
| IamRole controller, `controllers/iamrole_controller.go` | none of its own: the work queue and the informer cache of controller-runtime | `Reconcile` (add finalizer, get or create the role, sync attachments, write status, `updateTrustPolicy`), `Finalize`, `RemoveFinalizer`, watches on roles, bindings and policies | API server through a cached client, IAM role client, bind manager |
| IamRoleBinding controller, `controllers/iamrolebinding_controller.go` | as above | `Reconcile`, `bindServiceAccount`, `finalize` | API server: bindings, roles, service accounts |
| IamPolicy controller, `controllers/iampolicy_controller.go` | as above | `Reconcile`, `Finalize`, `addFinalizer`, watches on policies and roles | API server, IAM policy client |
| Bind manager, `pkg/bindmanager` | none | `Bind`: read, decode, edit and write back a trust policy | IAM role client |
| IAM role client, `pkg/aws/iamrole` | none | `Create`, `Update`, `Get`, `Delete`, attach, detach, list | IAM |
| IAM policy client, `pkg/aws/iampolicy` | `nameCache`: ARNs by name | `Get` (by ARN or by name), `Create`, `Update` (new version, delete old), `Delete` | IAM |
| Fake IAM, `pkg/aws/fake` | roles, attachments, policies and their versions | the service calls above | - |
| Policy documents, webhooks, API types, `main.go`, deployment | none | conversion, logging and one default, wiring | - |

The controllers do not call one another. They meet in the API server (the role
controller writes `status.arn` of a role, which the binding controller copies to
a service account; the policy controller writes `status.arn` and
`status.attachedRoles` of a policy, which the role controller reads and is
queued by; bindings tell the role controller whom to trust) and in IAM.

What makes it hard:

- every decision is taken from the informer's **cache**, every write goes to the
  API server, and the two may be versions apart, or of different incarnations
  of a name;
- a reconcile is up to a dozen **remote calls**; any of them may fail, take
  effect although its answer is lost, or be the last before the process ends;
- **finalizers** have to bracket what exists in IAM or on a service account;
- **users and administrators** act between any two calls;
- queueing: events that must reach the right name, errors that are swallowed,
  status fields that stand for what is really in AWS;
- two reconcilers that reach a common goal, a policy attached to a role, only
  through each other's status and events.

What makes each component correct: the finalizer is held whenever something
exists outside (role, policy, annotation); nothing is taken away from an object
that is not being deleted; deletions finish; a stable spec is reached in the end
(role and ARN, attachments, trust, annotation, document, attached roles).

`PROJECT.json` lists the components, also those not modelled, and the hazards
with their lines.

## 2. Modules

Shared, and outside the repository:

- `KubeObject` - an object of the API server and its history. The history of a
  name is a sequence: the first version is the cache's, the last the API
  server's, those between are watch events under way. Deletion with finalizers,
  server-side apply (which creates what does not exist) and the validation of
  finalizers are operators.
- `RemoteCalls` - how a call may end: accepted calls answer `"ok"`, or `"failed"`
  (no effect), or `"lost"` (effect, but an error); others `"refused"`. `faults`
  counts the exceptional ones.
- `FinalizerHistory` - predicates on a history: how a finalizer may come and go
  (`Orderly`, `Kept`, `Dying`). No code: the vocabulary of the invariants.

The system:

- `TrustPolicy` - `pkg/bindmanager`. A document is the set of foreign statements
  and the accounts of the role's own statement. `Original` is the code's
  `*original = *doc`, a copy of the slice header that a replacement in place
  goes through to. `Decoded` is the lossy decoder.
- `BindAlgorithm` - the same `Bind` on the slice of statements itself: what the
  decoder makes of each, the search for the Sid, the three edits, and what is
  left of `original` in the array it shares with `doc`. `DocumentProofs` shows
  that `TrustPolicy` says the same.
- `PolicyDocument` - the document of an IamPolicy's spec, the document in AWS's
  format in memory and its JSON (`pkg/aws/iampolicy/document.go`), and
  `serializeDocument` and `toMap` from the spec to the JSON: lists of conditions
  become maps, in which the last entry of a key wins; the spec's version is not
  used. `Marshal` and `Unmarshal` do what the types make of them: a single string
  and a list are told apart in the text, a list is a `[]string` where the
  controller built it and an `[]interface{}` where it was read, and maps that are
  empty are not in the text and nil when it is read.
- `IamRoleService`, `IamPolicyService` - IAM as the clients meet it, with the
  state changes of `pkg/aws/fake`.
- `RoleController`, `BindingController`, `PolicyController` - one per
  controller. `hist` is the history of the objects it reconciles, `queue` its
  work queue, `w` its worker: `w.pc` names the remote call about to be made,
  `w.inst` is the cached copy `instance`, the rest are local variables that
  outlive a call. One action per call; the local code after it and the cached
  reads up to the next call belong to the action. (`Attach` and `BindGet` of the
  role controller take the cached read before them with the call. The events
  that could come between the two change neither what was read nor what the
  call meets, so they may as well come after the call.) `Manager` is the watches,
  `Users` the cluster's users, `Aws` the account's administrators.
  `PolicyController` holds the policy client too: `w.why` says which of the five
  uses of `Get` is under way. `FirstPage` are the policies `ListPolicies` shows.
- `AttachmentSystem` - the role and the policy reconciler in one process, which
  end and start together. What each module takes from its environment is the
  other's state: the cached roles' `policyRefs`, the cached policies'
  `status.arn` and `status.attachedRoles`, the policies in IAM. Its actions are
  the two modules' own, each reconciler with its worker; one event of an object
  queues for both. `RC` and `PC` are the two modules, with their theorems,
  under that substitution.
  `roleFaults` and `policyFaults` count the ends of the process and each
  reconciler's failed calls.
- `ManagedResource` - the abstract specification: an object that a finalizer
  holds, a resource that may exist only while it is held, and a worker that
  withdraws the resource before it releases the object and never begins on an
  object that is held. `RoleController` and `PolicyController` implement it under
  the mapping in their properties modules: `obj` is read off the API server's
  version, `res` off IAM, `task` off the worker's call.
- `RoleProperties`, `BindingProperties`, `PolicyProperties` - what is checked,
  and the inductive invariants.
- `MCRoleController`, `MCBindingController`, `MCPolicyController`,
  `MCAttachmentSystem` - what TLC runs, with the cfg files.
- `FinalizerHistoryProofs`, `RoleControllerProofs`, `BindingControllerProofs`,
  `PolicyControllerProofs`, `PolicyRefinementProofs`, `ManagedResourceProofs`,
  `DocumentProofs`, `AttachmentSystemProofs` - proofs.

Operators named `...Guarded`, `...Once`, `...Strict` and the like, with a comment
"Mutant:", are the definition below them with a plausible mistake. No
specification uses them; they serve to show that each property depends on the
code it is about.

### How the models abstract

- One worker per controller: `MaxConcurrentReconciles` is left at its default, 1.
  Two processes at once (leader election is off by default) are not modelled.
- Names stand for ARNs; a role's or policy's `owner` tells the controller's path
  from another one. Administrators do not create policies under the
  controller's path.
- Service account lists are sets: order and duplicates in
  `status.boundServiceAccounts`, and a patch that only reorders them or turns
  nil into an empty list, are left out.
- Users leave the controllers' finalizers alone. They wait while `MaxLag`
  versions are on their way to the cache, a bound on the length of histories.
- Objects of other kinds (`bindings`, `policies`, `refs`, `arns`) are the cache's
  view, and change by their events. Service accounts have a history like
  bindings, as the binding controller writes to them.
- A binding's request carries its namespace, and an IamRole has none: the model
  has one queue entry per role.
- In the fake, attachments outlive a deleted role; so they do in the model. The
  fake panics when a deleted role is updated; the model refuses, as IAM does.
  `DeleteConflicts` chooses between the fake, which deletes anything, and IAM,
  which refuses a role with attachments or a policy with other versions.
- The fake numbers a policy version after the earliest one it holds; the model
  gives a new version any id the policy does not have, as IAM gives a new one.
  `Valid` are the documents the service accepts: IAM refuses one without
  statements, which is what a policy brought back by a stale apply has.
- MD5 sums are the texts of the documents themselves. The text of a document is
  a record of what is in it, as JSON writes maps in the order of their keys.
  Texts with `null` (a list that a spec leaves out), without a version or
  statements, or with fields the Go types do not have are outside. Events,
  metrics and logs are left out.

## 3. Runs

Faults (failed and lost calls, restarts, interference of administrators) are
bounded by `MaxFaults`. `Spec` has no fairness; `EventSpec` lets the worker go
on, delivers watch events and starts what stays queued; `FairSpec` adds the
informer's resync.

| Run | Shows |
|---|---|
| `role_progress` | `NoOrphan`, `DeletesOnlyDeleting` (of copies with the finalizer), `GrantsOnlyHeld` (a role is made, attached to or opened to a service account only under the finalizer), the inductive invariant and the refinement of `ManagedResource`; deletions finish, roles are provisioned, attachments follow `policyRefs`; with a stale cache, a fault, another party's finalizer, and policies that come and go |
| `role_trust` | two bindings of a role come, change and go and an administrator edits or breaks the trust policy: events and retries, without the resync, keep the statement present exactly when needed; with the resync `status.boundServiceAccounts` ends right although the error of its patch is swallowed; `GrantsOnlyHeld` with bindings |
| `binding_progress` | annotations only under the finalizer, which goes only from deleted objects; the inductive invariant; deletions finish, bindings settle, recorded bindings are undone; with a fault and one service account |
| `binding_move` | a binding that moves between two service accounts settles, and the annotation recorded of the old one goes (`RecordedBindingIsUndone`), also when the patches between fail as a role has no ARN or an account is gone; its status names a service account and an ARN or neither, and has a record of a live object only under the finalizer (`RecordIsWhole`), with the inductive invariant behind it (`RecordInv`) |
| `policy_lifecycle` | `NoOrphan`, `DeletesOnlyDeleting`, `InForceIsHeld`, the inductive invariant and the refinement of `ManagedResource`, with a fault; while every call is answered the document in force follows the spec, for three specs of which two make the same document (one has a condition that another entry supersedes) |
| `policy_progress` | deletions finish, ARNs arrive, attached roles converge, with a fault, a spec that IAM refuses and an administrator who puts another version in force |
| `system_attach` | each reconciler, together with the other, does what its own module says (`ImplementsReconcilers`); a policy is attached to a role only while the objects of both hold their finalizers (`AttachesOnlyHeld`); and a reference that stays is attached in the end by the events the two send each other, wherever the process restarts and without the resync (`ReferencesAreAttached`) |

`ImplementsReconcilers` is what carries the results of the single modules over to
the two together: whatever one reconciler does to the state the other reads, the
other's module allows its environment. The events of one reconciler's objects
reach the other whenever the informer delivers them, so the modules of the
reconcilers put no bound on them.

Runs that TLC refutes, each against a sentence of the repository (`findings` in
`PROJECT.json`):

| Run | Counterexample |
|---|---|
| `role_bind_alias` | a second binding of a role never reaches the trust policy: `original` shares its statements with `doc` |
| `role_teardown` | with IAM's rule (`DeleteConflicts = TRUE`) a role with an attached policy is never deleted: `Finalize` does not detach what `Reconcile` attached, and the finalizer stays |
| `binding_leak` | a deletion overtakes the status patch, the annotation stays |
| `policy_revert` | an edit whose answer is lost and that the user takes back stays in force: the sum in the status says otherwise |
| `policy_pages` | the policy is beyond the first page of `ListPolicies` and a deletion overtakes the status patch: `Finalize` finds nothing by that name and releases the object; the object made anew never gets its policy, as the name is taken |

Behaviour the models have, which no run is about:

- `AddFinalizer` creates an object again that was deleted while the worker
  looked at its cached copy (server-side apply), with nothing but the finalizer.
- With `DeleteConflicts = TRUE`, `DeletionCompletes` is refuted in
  `policy_progress.cfg` as well: `Delete` leaves the versions alone that an
  administrator, or an interrupted `Update`, left behind.
- With `ForeignVersions = TRUE` and two faults, `NoOrphan` is refuted in
  `policy_progress.cfg`: `Get`'s second `NoSuchEntity`, of a version replaced and
  deleted meanwhile, passes for the first one's; `Finalize` releases the object
  and the policy stays.
- `Finalize` of the role reconciler, working from a cached copy without the
  finalizer, may delete the role of an object made anew. It comes back
  (`RoleProvisioned`).
- A binding whose role's ARN changes takes its own annotation for a conflict.
- A failed `Attach` is only logged; nothing but the resync tries it again. So
  `ReferencesAreAttached`, which does without the resync, lets no call fail.

**Why the bounds are enough.** Names of one kind do not interact except through
the queue and the trust statement of a role (2 bindings), so one object, with one
of each kind it refers to, is the interesting instance. `MaxLag` holds back users
and the bindings' events while that many versions are under way to the cache; the
worker's own patches go on, so histories get longer than that. With `MaxLag = 1`
a user writes when the cache is current and the worker may still hold any older
copy: a deletion that the cache shows before the worker has written its patches,
and an object made anew under a worker with a copy of the old one, both happen.
The binding runs but `binding_move` have `MaxLag = 2`, and the proofs are for
every `MaxLag` and `MaxFaults`. `binding_move` has no faults: its four properties
hold with `MaxFaults = 1`, too, in 1.2 million states, which takes too long for a
run that is repeated. `VersionLimit` is 5 in the fake. With 2, one
leftover reaches it (`policy_lifecycle`); `policy_progress` has 3, room for the
version its one fault can leave, as a full policy takes no update and so never
converges. `FirstPage` is all or nothing as there is one policy. In
`system_attach` users write `MaxEdits = 3` times (make the role, make the policy,
and delete or edit one of them) and the process ends at most `MaxFaults = 1`
time; `CallsFail = FALSE` lets no call fail, which `ReferencesAreAttached` needs
and the proofs do not. As both bounds are used up in the end, the system may stop
there, and deadlock is not checked. Every run is complete: no depth or state
constraint.

**Fairness.** `WF(Reconcile)`: clients have timeouts, so a call returns.
`WF(Sync)`: the watch delivers. `SF(Start(x))`: the work queue is first in,
first out, and while errors are put back with a delay, a name that stays queued
is started although the worker is busy in between - weak fairness would not do
as `Start` is disabled while the worker works. In `system_attach` each reconciler
has a worker and a queue of its own. `WF(Resync)`: the informer's
period passes; `role_trust` (`EventSpec`) and `system_attach` do without it, and
`BoundAccountsRecorded` has it as a premise. No fairness is assumed of users,
administrators, `RoleSeen`, `BindingEvent` and the like.

## 4. Proofs

`RoleControllerProofs` proves, for all roles, policies, bindings, service
accounts, any `MaxLag`, `MaxFaults` and either value of `DeleteConflicts`, from
`RoleControllerAssumption` and the assumptions of the modules below it:

- `TypeCorrect`: `Spec => []TypeOK`;
- `Invariant`: `Spec => []IInv`;
- `NoOrphanHolds`: `Spec => []NoOrphan`, `DeletesOnlyDeletingHolds` and
  `GrantsOnlyHeldHolds`;
- `ImplementsManagedResourceHolds`, below.

`NoOrphan` is not inductive: whether removing the finalizer is safe depends on
what the worker learnt from a cached copy that may be of an earlier incarnation
of the object. `IInv` adds two things. `Orderly` says what a history may look
like: the finalizer is lost only after versions that are all being deleted, is
not seen again while those versions are in the cache's past, and nothing with
the finalizer is live after a version being deleted with it. `WorkerKnows` says,
call by call, what the worker may conclude: before `addFinalizer`, that the
finalizer was not lost in the history (`Kept`); while provisioning, that the API
server's object has it; while finalizing an object that had it, that every
version that still has it is being deleted (`Dying`); before `RemoveFinalizer`,
that the role is gone from IAM. `FinalizerHistoryProofs` proves once how each of
the three predicates fares under a new version, a delivery and a relist;
`RoleControllerProofs` then goes through the actions. `GrantsOnlyHeldHolds`
follows from the invariant alone: what makes more of a role is one of the calls at
which `WorkerKnows` says that the object holds the finalizer.

`BindingControllerProofs` proves, in the same generality, from
`BindingControllerAssumption` and the assumptions of the modules below it:

- `TypeCorrect` and `Invariant`, as above;
- `AnnotatesOnlyHeldHolds`: `Spec => []AnnotatesOnlyHeld`, and
  `ReleasesOnlyDeletingHolds`;
- `RecordInvariant`: `Spec => []RecordInv`, and `RecordIsWholeHolds`.

Its `IInv` has the same two parts. Here the worker knows, from `bind` to
`patchStatus`, that the API server's object holds the finalizer, and before
`removeFinalizer` that every version which still holds it is being deleted. The
case that makes `Orderly` necessary is a binding deleted and created anew while
the worker has a copy of the old one. Each step lemma concludes `Releases`, the
step that `ReleasesOnlyDeleting` allows, beside `IInv'`, as both need the same
facts about what the step writes.

`RecordIsWhole` needs a second invariant beside `IInv`. `PatchStatus` sends the
fields in which the cached copy differs from what it should say; that the fields
sent and the fields there make a whole record is so only if a record in the copy
is still at the API server. `RecordsKept` says it of the history: every version's
record is whole, and one on a version that is live with the finalizer is on every
later one too, since the object cannot go while the worker holds it.
`WorkerRecalls` says it of the worker's copy, and with it that a copy without the
finalizer has no record, that `removeFinalizer` is only reached for an object
being deleted, and that an ARN is known from `annotate` on.

`PolicyControllerProofs` proves, from `PolicyControllerAssumption` and the
assumptions of the modules below it, for all policies, roles, specs, documents,
versions, any `MaxLag` and `MaxFaults` and either value of `DeleteConflicts`:

- `TypeCorrect`;
- assuming `Undisturbed`, `Invariant`, `NoOrphanHolds`,
  `DeletesOnlyDeletingHolds` and `InForceIsHeldHolds`.

`Undisturbed` says that nobody else puts a version in force and that
`ListPolicies` shows every policy; the runs above show that `NoOrphan` fails
without either. `IInv` has `Orderly` and `WorkerKnows` as before, the latter with
what the worker knows between the calls of `Get` and `Update`: the version that
`GetPolicy` named is still the default when `GetVersion` asks for it, so a missing
version means a missing policy; and when the old version is deleted, the document
in force is the worker's. `VersionsSound` (a policy has a default among its
versions, and not more than the limit) is needed for both.

`RoleControllerProofs` and `PolicyRefinementProofs` prove
`Spec => ImplementsManagedResource`, the latter assuming `Undisturbed`: initial
states map to the initial state, and with the invariant before and after a step,
every step maps to a step of `ManagedResource` or a stutter. The invariant is
needed exactly where the abstract guard speaks of the API server's object and the
code has looked at the cache: `BeginFinalize`, `Provide`, `Release`.
`ManagedResourceProofs` proves that `ManagedResource` leaves nothing behind
(`NoneLeftBehindHolds`).

`AttachmentSystemProofs` proves of the two reconcilers in one process, for every
value of the constants, also where calls fail and the process ends:

- `ImplementsReconcilersHolds`: `Spec => ImplementsReconcilers`;
- assuming `Undisturbed`, `BothManageResources` (each implements
  `ManagedResource`), `NothingLeftBehind` (`NoOrphan` of both) and
  `AttachesOnlyHeldHolds`.

The first goes step by step: a step of the system is a step of the role
reconciler's module or changes nothing it has, and the same of the policy
reconciler's. What one reconciler writes at the API server the other does not see
before its event, so `RoleReconcile` and `PolicyReconcile` leave the other's
inputs alone, but for the policies in IAM that a worker creates or deletes; an
event of one kind of object is, for the other reconciler, its environment's
`PolicySeen` or `RoleSeen`. Both modules' `TypeOK`, invariant by themselves, give
the types of what is seen. `RC` and `PC` are instances of the proof modules, so
that the theorems about each reconciler alone are at hand for the system's state;
`RoleAssumptions` and `PolicyAssumptions` discharge what they assume of the
constants. `AttachesOnlyHeldHolds` joins the two halves: the role's side is
`WorkerKnows` at `attach`; the policy's side is that IAM attaches only a policy
it has, and `NoOrphan` of the policy reconciler.

`DocumentProofs` proves what is computed on documents. Of `TrustPolicy`, for every
document and every set of accounts: Bind updates the policy exactly when the
role's statement has to appear or to go (`UpdatesOnlyPresence`) - the general form
of what `role_bind_alias` shows. Of `BindAlgorithm`, on a slice of any length: with a
Sid at most once it edits and decides as `TrustPolicy` does (`BindEdits`,
`BindUpdates`); and whatever Sids are repeated, it compares as said above
(`BindComparison`) and writes back everything but the last statement with the
role's Sid, in order (`BindKeepsOthers`). Starting from what IAM holds, every
statement other people wrote is written back in its place, stripped by the
decoder perhaps, but not dropped or merged with another
(`ForeignStatementsStay`). Of `PolicyDocument`: `ToMap` is the loop
of `toMap` on lists of any length (`ToMapIsTheLoop`); two texts read back are
`Equal` exactly when they differ in nothing but single strings and lists of one
(`EqualAsRead`, of which `document_test.go:55` tests one case); what
`serializeDocument` wrote is the same text when it is read and marshalled again
(`ReadBack`); and yet a document the controller built is not `Equal` to the one
read of its text (`BuiltIsNotRead`), so that `Equals` is of use only between
documents that were both read, as in the tests. Both algorithms end with the
last of several entries; that there is a last one is shown from the
well-foundedness of `<` (`LeastNumber`, `LastPlace`), as the library's induction
principles cannot be used here.

Every invariant and every action property that a passing run checks is proved.
Only model-checked are the liveness properties, under their fairness, which the
prover cannot reach: `DeletionCompletes`, `RoleProvisioned`,
`AttachmentsConverge`, `TrustPresence`, `BoundAccountsRecorded`,
`ReleaseCompletes`, `BindingSettles`, `RecordedBindingIsUndone`,
`PolicyProvisioned`, `AttachedRolesConverge`, `DocumentFollowsSpec` and
`ReferencesAreAttached`.

## 5. Not modelled

- Webhooks: they log; `maxDurationSeconds` gets a default nobody reads here, and
  it, like descriptions, is in no model.
- `main.go`: it starts neither the binding controller nor gives the policy
  controller its AWS client; the models show the reconcilers as the tests wire
  them.
- Two processes at once: leader election is off by default, but the deployment
  runs one replica.
- URL escaping of documents, `SetVersion` and the accessors of `document.go`.
- Pages of `ListAttachedRolePolicies`, and its path prefix, which is not the
  policies' path. An error of the cached `List` of roles.
- The fake's numbering of versions and its bookkeeping (`Reset`, ids, the roles
  and policies it starts with).
- Generated code, CRDs, RBAC, Terraform.

## 6. Plan

Done, in this order: role controller with trust policy and role service, its
proofs; binding controller and its proofs; policy controller with its client and
service; `BindAlgorithm` and its equivalence with `TrustPolicy`; documents;
`ManagedResource` and the two refinements; the proofs about the policy
controller; the role and the policy reconciler together; the proofs about the two
together, about the record of a binding and about documents of any length.

Left:

1. The role and the binding controller together, around `status.arn`, the
   bindings and the service account's annotation; two bindings of one service
   account.
2. An abstract specification of a binding, in the manner of `ManagedResource`: an
   annotation that the finalizer brackets where the status records it, with the
   loss that `binding_leak` shows as a step of its own, and the refinement.
3. Two processes at once.
