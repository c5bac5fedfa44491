-------------------------- MODULE IamPolicyService --------------------------
(***************************************************************************)
(* A managed policy in IAM as the policy client (pkg/aws/iampolicy) sees   *)
(* it, with the state changes of the service in pkg/aws/fake.              *)
(*                                                                         *)
(* "owner" says who created the policy: the controller, under the client's *)
(* path, or somebody else, under another path.  IAM allows a name once in  *)
(* an account, whatever its path; an ARN holds the path.                   *)
(***************************************************************************)
EXTENDS FiniteSets, Naturals

CONSTANTS
    Documents,        \* policy documents; equal documents have equal sums
    Valid,            \* the documents the service accepts: all in the fake,
                      \* those with a statement in IAM
    VersionIds,       \* ids of a policy's versions
    NoDocument,       \* no such version, no sum yet
    NoVersion,        \* no version id
    VersionLimit,     \* versions a policy may have, 5 in the fake
    DeleteConflicts   \* TRUE: DeletePolicy refuses a policy with versions
                      \* besides the default, as IAM does; FALSE: as the fake

ASSUME IamPolicyServiceAssumption ==
    /\ NoDocument \notin Documents
    /\ Valid \subseteq Documents
    /\ NoVersion \notin VersionIds
    /\ VersionLimit \in Nat \ {0}
    /\ IsFiniteSet(VersionIds)
    /\ VersionLimit <= Cardinality(VersionIds)
    /\ DeleteConflicts \in BOOLEAN

Owners == {"none", "controller", "external"}

(* docs holds the document of each version, default is the version in      *)
(* force.  Nobody here reads the versions of a policy under another path.   *)
UpstreamPolicy == [owner : Owners, default : VersionIds \cup {NoVersion},
                   docs : [VersionIds -> Documents \cup {NoDocument}]]

NoUpstreamPolicy == [owner |-> "none", default |-> NoVersion,
                     docs |-> [v \in VersionIds |-> NoDocument]]

Managed(i) == i.owner = "controller"

Stored(i) == {v \in VersionIds : i.docs[v] # NoDocument}

(* The document in force.                                                  *)
InForce(i) == i.docs[i.default]

(* The id IAM gives a new version is one the policy does not have.         *)
NewIds(i) == VersionIds \ Stored(i)

CreateAccepted(i, doc) == i.owner = "none" /\ doc \in Valid

CreatedPolicy(v, doc) ==
    [owner |-> "controller", default |-> v,
     docs |-> [NoUpstreamPolicy.docs EXCEPT ![v] = doc]]

VersionAccepted(i, doc) ==
    /\ Managed(i)
    /\ Cardinality(Stored(i)) < VersionLimit
    /\ doc \in Valid

(* Mutant: the new version does not become the default.                    *)
WithVersionAside(i, v, doc) == [i EXCEPT !.docs[v] = doc]

(* A new version that becomes the default.                                 *)
WithVersion(i, v, doc) == [i EXCEPT !.default = v, !.docs[v] = doc]

DeleteVersionAccepted(i, v) == Managed(i) /\ v \in Stored(i) \ {i.default}

WithoutVersion(i, v) == [i EXCEPT !.docs[v] = NoDocument]

DeleteAccepted(i) ==
    Managed(i) /\ (DeleteConflicts => Stored(i) = {i.default})
=============================================================================
