--------------------------- MODULE PolicyDocument ---------------------------
(***************************************************************************)
(* Policy documents: the document of an IamPolicy's spec                   *)
(* (api/v1alpha1/iampolicy_types.go), the document in AWS's format         *)
(* (pkg/aws/iampolicy/document.go), and serializeDocument and toMap        *)
(* (controllers/iampolicy_controller.go) from one to the other.            *)
(*                                                                         *)
(* A document in memory and its JSON are different things: the text has a  *)
(* list or a single string and leaves empty maps out, and what is read     *)
(* from it holds its lists in another type.  IAM keeps texts, and texts    *)
(* are equal here exactly when their JSON, and with it their md5 sum, is,  *)
(* as maps are written in the order of their keys.  Outside are texts with *)
(* null, without version or statements, or with fields no Go type has.     *)
(***************************************************************************)
EXTENDS Naturals, Sequences

CONSTANTS
    ConditionOperators,  \* ArnLike, StringEquals, ...: 49 maps
    Keys,                \* keys of conditions
    Values,              \* the lists of values of conditions
    Grants,              \* a statement's sid and effect
    Texts,               \* actions and resources
    LanguageVersions,    \* versions of the policy language
    DefaultVersion,      \* "2012-10-17"
    Nil                  \* no conditions

ASSUME PolicyDocumentAssumption ==
    /\ DefaultVersion \in LanguageVersions
    /\ Nil \notin [ConditionOperators -> Seq([key : Keys, values : Values])]

(* What a spec holds: conditions are lists of a key and values.  Lists of  *)
(* actions or resources that are missing (null in the text) are outside.   *)
Conditions == Seq([key : Keys, values : Values])

SpecStatements ==
    [grant : Grants, actions : Seq(Texts), resources : Seq(Texts),
     conditions : [ConditionOperators -> Conditions] \cup {Nil}]

SpecDocuments == [version : LanguageVersions, statements : Seq(SpecStatements)]

-----------------------------------------------------------------------------
(* Documents in memory.  Action and Resource are interfaces, and hold one  *)
(* of three types: a string; strings, that is []string; or interfaces, the *)
(* []interface{} that is read of a list.  conditions are the maps that are *)
(* not nil, by operator.                                                   *)

AsStrings(ts) == [type |-> "strings", items |-> ts]

(* A string becomes a list of one.                                         *)
Listed(x) == IF x.type = "string" THEN [x EXCEPT !.type = "interfaces"] ELSE x

ListedStatement(s) ==
    [grant |-> s.grant, action |-> Listed(s.action),
     resource |-> Listed(s.resource), conditions |-> s.conditions]

SetStatements(doc, statements) ==
    [doc EXCEPT !.statements =
        [k \in DOMAIN statements |-> ListedStatement(statements[k])]]

NewDocument == [version |-> DefaultVersion, statements |-> <<>>]

(* DeepEqual tells the types of lists and nil maps from empty ones apart.  *)
Equals(d, d2) == d = d2

-----------------------------------------------------------------------------
(* Their JSON.                                                             *)

(* A list or a single string.                                              *)
Strings == {x \in [list : BOOLEAN, items : Seq(Texts)] : x.list \/ Len(x.items) = 1}

ConditionMaps == UNION {[keys -> Values] : keys \in SUBSET Keys}

ConditionTexts ==
    UNION {[ops -> ConditionMaps] : ops \in SUBSET ConditionOperators} \cup {Nil}

DocumentTexts ==
    [version : LanguageVersions,
     statements : Seq([grant : Grants, action : Strings, resource : Strings,
                       conditions : ConditionTexts])]

MarshalStrings(x) == [list |-> x.type # "string", items |-> x.items]

(* omitempty                                                               *)
MarshalConditions(c) ==
    IF c = Nil THEN Nil
    ELSE [op \in {o \in DOMAIN c : DOMAIN c[o] # {}} |-> c[op]]

MarshalStatement(s) ==
    [grant |-> s.grant, action |-> MarshalStrings(s.action),
     resource |-> MarshalStrings(s.resource),
     conditions |-> MarshalConditions(s.conditions)]

Marshal(doc) ==
    [version |-> doc.version,
     statements |-> [k \in DOMAIN doc.statements |->
                        MarshalStatement(doc.statements[k])]]

UnmarshalStrings(x) ==
    [type |-> IF x.list THEN "interfaces" ELSE "string", items |-> x.items]

(* Only the maps that the text has are set.                                *)
UnmarshalStatement(s) ==
    [grant |-> s.grant, action |-> UnmarshalStrings(s.action),
     resource |-> UnmarshalStrings(s.resource), conditions |-> s.conditions]

Unmarshal(text) ==
    [version |-> text.version,
     statements |-> [k \in DOMAIN text.statements |->
                        UnmarshalStatement(text.statements[k])]]

NewDocumentFromString(text) ==
    SetStatements(Unmarshal(text), Unmarshal(text).statements)

-----------------------------------------------------------------------------
(* The controller's conversion.                                            *)

KeysOf(conditions) == {conditions[k].key : k \in DOMAIN conditions}

(* A map has one value per key: the last entry of a key wins.              *)
ToMap(conditions) ==
    [key \in KeysOf(conditions) |->
        LET last == CHOOSE k \in DOMAIN conditions :
                      /\ conditions[k].key = key
                      /\ \A j \in DOMAIN conditions :
                            conditions[j].key = key => j <= k
        IN conditions[last].values]

SerializeConditions(conditions) ==
    IF conditions = Nil THEN Nil
    ELSE [op \in ConditionOperators |-> ToMap(conditions[op])]

SerializeStatement(s) ==
    [grant |-> s.grant, action |-> AsStrings(s.actions),
     resource |-> AsStrings(s.resources),
     conditions |-> SerializeConditions(s.conditions)]

(* The version of the spec is not used.                                    *)
BuiltDocument(spec) ==
    SetStatements(NewDocument, [k \in DOMAIN spec.statements |->
                                    SerializeStatement(spec.statements[k])])

SerializeDocument(spec) == Marshal(BuiltDocument(spec))
=============================================================================
