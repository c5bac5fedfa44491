------------------------- MODULE MCPolicyController -------------------------
(***************************************************************************)
(* PolicyController for TLC; the cfg files give the other constants.  The  *)
(* specs are of one statement with a condition on one key: its value, and  *)
(* whether an entry that another one supersedes stands before it.          *)
(***************************************************************************)
EXTENDS PolicyProperties

Entry(value) == [key |-> "aws:SourceArn", values |-> value]

SpecOf(entries) ==
    [version |-> DefaultVersion,
     statements |-> <<[grant |-> "Allow", actions |-> <<"s3:*">>,
                       resources |-> <<"*">>,
                       conditions |-> [op \in ConditionOperators |-> entries]]>>]

OneSpec == {SpecOf(<<Entry("v")>>)}
TwoSpecs == OneSpec \cup {SpecOf(<<Entry("u")>>)}

(* The third one's document is that of the first one.                      *)
ThreeSpecs == TwoSpecs \cup {SpecOf(<<Entry("u"), Entry("v")>>)}

(* A spec without statements is written, too.                              *)
OneOrNone == OneSpec \cup {EmptySpec}

(* The documents of the specs.  IAM refuses the one without statements.    *)
OneDocument == {SerializeDocument(spec) : spec \in OneSpec}
TwoDocuments == {SerializeDocument(spec) : spec \in TwoSpecs}
OneAndEmpty == OneDocument \cup {SerializeDocument(EmptySpec)}
TwoAndEmpty == TwoDocuments \cup {SerializeDocument(EmptySpec)}
=============================================================================
