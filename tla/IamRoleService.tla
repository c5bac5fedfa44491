--------------------------- MODULE IamRoleService ---------------------------
(***************************************************************************)
(* A role in IAM as the controllers see it through pkg/aws/iamrole, on top *)
(* of a role service.  The service's state changes are those of            *)
(* pkg/aws/fake, the only one in the repository.                           *)
(*                                                                         *)
(* "owner" says who created the role.  The controller creates roles under  *)
(* a path of its own, so the owner also stands for the role's ARN.         *)
(***************************************************************************)
EXTENDS TrustPolicy

CONSTANTS
    Policies,         \* names of managed policies; a name stands for its ARN
    DeleteConflicts   \* TRUE: DeleteRole refuses a role with attached
                      \* policies, as IAM does; FALSE: as the fake does

ASSUME DeleteConflictsAssumption == DeleteConflicts \in BOOLEAN

Owners == {"none", "controller", "external"}

UpstreamRole == [owner : Owners, trust : TrustDoc, attached : SUBSET Policies]

NoUpstreamRole == [owner |-> "none", trust |-> DenyAll, attached |-> {}]

Exists(i) == i.owner # "none"

(* Attachments are kept apart from roles and survive the role.             *)
Created(i, owner) == [i EXCEPT !.owner = owner, !.trust = DenyAll]

DeleteAccepted(i) == Exists(i) /\ ~(DeleteConflicts /\ i.attached # {})

Removed(i) == [i EXCEPT !.owner = "none", !.trust = DenyAll]

AttachAccepted(i, p, upstream) == p \in upstream /\ p \notin i.attached

Attached(i, p) == [i EXCEPT !.attached = @ \cup {p}]

DetachAccepted(i, p) == p \in i.attached

Detached(i, p) == [i EXCEPT !.attached = @ \ {p}]

(* A policy that no longer exists is left out of the list.                 *)
ListAttached(i, upstream) == i.attached \cap upstream

WithTrust(i, doc) == [i EXCEPT !.trust = doc]
=============================================================================
