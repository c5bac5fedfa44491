--------------------------- MODULE BindAlgorithm ---------------------------
(***************************************************************************)
(* pkg/bindmanager/manager.go: Bind on the statements themselves, in their *)
(* order, with the memory that the decoded document and its copy share.    *)
(* TrustPolicy is what the rest of the project uses of it; the theorems of *)
(* DocumentProofs show that it is the same.                                *)
(*                                                                         *)
(* A statement is the role's own, with a list of accounts, or another one. *)
(***************************************************************************)
EXTENDS TrustPolicy, Naturals, Sequences

OwnStatement(list) == [own |-> TRUE, body |-> "allow", list |-> list]
OtherStatement(body) == [own |-> FALSE, body |-> body, list |-> <<>>]

(* What IAM holds, and what the decoder returns.                           *)
UpstreamStatements ==
    {OwnStatement(list) : list \in Seq(ServiceAccounts)}
    \cup {OtherStatement(body) : body \in ForeignStatements}

Statements == {s \in UpstreamStatements : s.body \notin {"service", "list"}}

(* Unmarshal refuses a list of actions, and drops fields it does not know. *)
Accepted(st) == \A k \in DOMAIN st : st[k].body # "list"

DecodedStatement(s) == IF s.body = "service" THEN OtherStatement("stripped") ELSE s

DecodedStatements(st) == [k \in DOMAIN st |-> DecodedStatement(st[k])]

Members(list) == {list[k] : k \in DOMAIN list}

(* The statements whose Sid is the role's; the loop keeps the last.        *)
Matches(st) == {k \in DOMAIN st : st[k].own}

FoundAt(st) == CHOOSE k \in Matches(st) : \A j \in Matches(st) : j <= k

Without(st, k) == [j \in 1..(Len(st) - 1) |-> IF j < k THEN st[j] ELSE st[j + 1]]

(* doc.Statements at the end.                                              *)
Result(st, list) ==
    IF Matches(st) = {}
    THEN IF list = <<>> THEN st ELSE Append(st, OwnStatement(list))
    ELSE IF list = <<>> THEN Without(st, FoundAt(st))
         ELSE [st EXCEPT ![FoundAt(st)] = OwnStatement(list)]

(* original.Statements at the end: as long as it was, in the same array.   *)
(* An appended statement lies beyond it, the statements that are left are  *)
(* copied to another array, and a replaced one is seen through both.       *)
OriginalResult(st, list) ==
    IF Matches(st) # {} /\ list # <<>>
    THEN [st EXCEPT ![FoundAt(st)] = OwnStatement(list)] ELSE st

Updates(st, list) == Result(st, list) # OriginalResult(st, list)

-----------------------------------------------------------------------------
(* What TrustPolicy sees of a document.                                    *)

TrustDocOf(st) ==
    [foreign |-> {st[k].body : k \in DOMAIN st \ Matches(st)},
     accounts |-> UNION {Members(st[k].list) : k \in Matches(st)}]

(* IAM has a Sid once in a policy, and Bind never writes an empty list.    *)
WellFormed(st) ==
    /\ \A j, k \in Matches(st) : j = k
    /\ \A k \in Matches(st) : st[k].list # <<>>
=============================================================================
