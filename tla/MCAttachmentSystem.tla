------------------------- MODULE MCAttachmentSystem -------------------------
(***************************************************************************)
(* AttachmentSystem for TLC, with one document.                            *)
(***************************************************************************)
EXTENDS AttachmentSystem

PD == INSTANCE PolicyDocument

OneSpec ==
    {[version |-> DefaultVersion,
      statements |-> <<[grant |-> "Allow", actions |-> <<"s3:*">>,
                        resources |-> <<"*">>, conditions |-> Nil]>>]}

NoStatements == [version |-> DefaultVersion, statements |-> <<>>]

OneDocument == {PD!SerializeDocument(spec) : spec \in OneSpec}
OneAndEmpty == OneDocument \cup {PD!SerializeDocument(NoStatements)}
=============================================================================
