---------------------------- MODULE TrustPolicy ----------------------------
(***************************************************************************)
(* pkg/bindmanager: the trust policy of an IAM role and how Bind edits it. *)
(*                                                                         *)
(* A document is the set of statements other people wrote and the service  *)
(* accounts of the one statement whose Sid is the role's (IAM makes a Sid  *)
(* unique in a policy).  Without accounts there is no such statement: Bind *)
(* never writes one that is empty.                                         *)
(***************************************************************************)
CONSTANT ServiceAccounts

(* What the decoder tells apart in a statement it did not write:           *)
(*   "deny"     reads back as it is (main.go's denyPolicy)                 *)
(*   "service"  a principal that is neither AWS nor Federated              *)
(*   "stripped" what is left of such a statement after decoding            *)
(*   "list"     a list of actions, which the decoder refuses               *)
ForeignStatements == {"deny", "service", "stripped", "list"}

TrustDoc == [foreign : SUBSET ForeignStatements,
             accounts : SUBSET ServiceAccounts]

(* The document a new role gets (DefaultPolicy).                           *)
DenyAll == [foreign |-> {"deny"}, accounts |-> {}]

Decodable(doc) == "list" \notin doc.foreign

(* Fields the decoder does not know are dropped and never written back.    *)
Decoded(doc) ==
    [doc EXCEPT !.foreign =
        {IF s = "service" THEN "stripped" ELSE s : s \in doc.foreign}]

HasStatement(doc) == doc.accounts # {}

(* The document after Bind's edit: append, replace or remove the role's    *)
(* own statement.                                                          *)
Edited(doc, accounts) == [Decoded(doc) EXCEPT !.accounts = accounts]

(* What Bind compares the edited document with.  *original = *doc copies   *)
(* the slice header only: a statement replaced in place is replaced in     *)
(* original too, while append and remove leave original as it was.         *)
Original(doc, accounts) ==
    IF HasStatement(doc) /\ accounts # {} THEN Edited(doc, accounts)
                                          ELSE Decoded(doc)

NeedsUpdate(doc, accounts) == Edited(doc, accounts) # Original(doc, accounts)
=============================================================================
