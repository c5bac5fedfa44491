--------------------------- MODULE DocumentProofs ---------------------------
(***************************************************************************)
(* What is computed on documents of any length: what Bind's comparison     *)
(* detects, that TrustPolicy is what Bind computes, and that toMap is its  *)
(* loop.                                                                   *)
(***************************************************************************)
EXTENDS BindAlgorithm, PolicyDocument, WellFoundedInduction, TLAPS

-----------------------------------------------------------------------------
(* Both algorithms end with the last of several entries, so that there is  *)
(* a last one has to be shown of lists of any length.  The library's       *)
(* principles of induction cannot be instantiated; that < has a minimum in *)
(* every set of numbers is as good.                                        *)

LEMMA LeastNumber ==
    ASSUME NEW T \in SUBSET Nat, T # {}
    PROVE  \E n \in T : \A m \in T : n <= m
<1> DEFINE R == {s \in Nat \X Nat : s[1] < s[2]}
<1>1. OpToRel(<, Nat) = R
  BY DEF OpToRel
<1>2. IsWellFoundedOn(R, Nat)
  BY <1>1, NatLessThanWellFounded
<1>3. \A m, n \in T : m < n => <<m, n>> \in R
  OBVIOUS
<1>4. PICK n \in T : \A m \in T : <<m, n>> \notin R
  <2> HIDE DEF R
  <2> QED BY <1>2, WFMin
<1>5. \A m \in T : ~(m < n) /\ m \in Nat /\ n \in Nat
  BY <1>3, <1>4
<1> HIDE DEF R
<1> QED
  BY <1>5

LEMMA LastPlace ==
    ASSUME NEW n \in Nat, NEW S \in SUBSET (1..n), S # {}
    PROVE  \E k \in S : \A j \in S : j <= k
<1> DEFINE T == {n - k : k \in S}
<1>1. T \in SUBSET Nat /\ T # {}
  <2>1. \A k \in S : n - k \in Nat
    OBVIOUS
  <2> QED BY <2>1
<1>2. PICK t \in T : \A m \in T : t <= m
  <2> HIDE DEF T
  <2> QED BY <1>1, LeastNumber
<1>3. PICK k \in S : t = n - k
  BY <1>2
<1>4. \A j \in S : n - k <= n - j
  BY <1>2, <1>3
<1> QED
  BY <1>3, <1>4

-----------------------------------------------------------------------------
(* toMap of controllers/iampolicy_controller.go.                           *)

LEMMA Elements ==
    ASSUME NEW X, NEW seq \in Seq(X)
    PROVE  \A k \in DOMAIN seq : seq[k] \in X
  OBVIOUS

LEMMA LastEntry ==
    ASSUME NEW c \in Conditions, NEW key \in KeysOf(c)
    PROVE  \E k \in DOMAIN c :
             /\ c[k].key = key
             /\ \A j \in DOMAIN c : c[j].key = key => j <= k
<1> DEFINE S == {k \in DOMAIN c : c[k].key = key}
<1>1. S \in SUBSET (1..Len(c)) /\ S # {} /\ Len(c) \in Nat
  BY DEF KeysOf, Conditions
<1>2. PICK k \in S : \A j \in S : j <= k
  <2> HIDE DEF S
  <2> QED BY <1>1, LastPlace
<1> QED
  BY <1>2

(* The map has the values of each key's last entry.                        *)
LEMMA ToMapLastWins ==
    ASSUME NEW c \in Conditions
    PROVE  /\ ToMap(c) \in [KeysOf(c) -> Values]
           /\ \A k \in DOMAIN c :
                 (\A j \in DOMAIN c : c[j].key = c[k].key => j <= k)
                 => ToMap(c)[c[k].key] = c[k].values
<1> DEFINE Last(key, k) == /\ c[k].key = key
                           /\ \A j \in DOMAIN c : c[j].key = key => j <= k
<1>1. c \in Seq([key : Keys, values : Values]) /\ DOMAIN c \subseteq Nat
  BY DEF Conditions
<1>2. ASSUME NEW key \in KeysOf(c)
      PROVE  \E k \in DOMAIN c : Last(key, k) /\ ToMap(c)[key] = c[k].values
  <2>1. \E k \in DOMAIN c : Last(key, k)
    BY LastEntry
  <2> QED
    BY <2>1 DEF ToMap
<1>3. ASSUME NEW k \in DOMAIN c, Last(c[k].key, k)
      PROVE  ToMap(c)[c[k].key] = c[k].values
  <2>1. c[k].key \in KeysOf(c)
    BY DEF KeysOf
  <2>2. PICK j \in DOMAIN c : Last(c[k].key, j) /\ ToMap(c)[c[k].key] = c[j].values
    BY <1>2, <2>1
  <2>3. j = k
    BY <1>1, <1>3, <2>2
  <2> QED
    BY <2>2, <2>3
<1>4. \A k \in DOMAIN c : c[k].values \in Values
  <2>1. \A k \in DOMAIN c : c[k] \in [key : Keys, values : Values]
    BY <1>1, Elements
  <2> QED BY <2>1
<1>5. ToMap(c) \in [KeysOf(c) -> Values]
  BY <1>2, <1>4 DEF ToMap
<1> QED
  BY <1>3, <1>5

(* ToMap is the loop of toMap: it starts with an empty map, and each entry *)
(* in its turn sets its key to its values and leaves the other keys alone, *)
(* for lists of any length and with any repetitions of keys.               *)
THEOREM ToMapIsTheLoop ==
    /\ DOMAIN ToMap(<<>>) = {}
    /\ \A c \in Conditions, e \in [key : Keys, values : Values] :
          ToMap(Append(c, e)) =
            [key \in KeysOf(c) \cup {e.key} |->
                IF key = e.key THEN e.values ELSE ToMap(c)[key]]
<1>1. DOMAIN ToMap(<<>>) = {}
  BY DEF ToMap, KeysOf
<1>2. ASSUME NEW c \in Conditions, NEW e \in [key : Keys, values : Values]
      PROVE  ToMap(Append(c, e)) =
               [key \in KeysOf(c) \cup {e.key} |->
                   IF key = e.key THEN e.values ELSE ToMap(c)[key]]
  <2> DEFINE d == Append(c, e)
             n == Len(c) + 1
  <2>1. /\ d \in Conditions /\ n \in Nat
        /\ DOMAIN c = 1..Len(c) /\ DOMAIN d = DOMAIN c \cup {n}
        /\ n \notin DOMAIN c /\ \A k \in DOMAIN c : k \in Nat /\ k < n
        /\ d[n] = e /\ \A k \in DOMAIN c : d[k] = c[k]
    BY DEF Conditions
  <2> HIDE DEF d, n
  <2>2. KeysOf(d) = KeysOf(c) \cup {e.key}
    BY <2>1 DEF KeysOf
  <2>3. ToMap(d)[e.key] = e.values
    BY <2>1, ToMapLastWins
  <2>4. ASSUME NEW key \in KeysOf(c), key # e.key
        PROVE  ToMap(d)[key] = ToMap(c)[key]
    <3>1. PICK k \in DOMAIN c : /\ c[k].key = key
                               /\ \A j \in DOMAIN c : c[j].key = key => j <= k
      BY LastEntry
    <3>2. ToMap(c)[key] = c[k].values
      BY <3>1, ToMapLastWins
    <3>3. \A j \in DOMAIN d : d[j].key = d[k].key => j <= k
      BY <2>1, <2>4, <3>1
    <3>4. ToMap(d)[d[k].key] = d[k].values
      BY <2>1, <3>3, ToMapLastWins
    <3> QED
      BY <2>1, <3>1, <3>2, <3>4
  <2>5. ToMap(d) = [key \in KeysOf(d) |-> ToMap(d)[key]]
    BY <2>1, ToMapLastWins
  <2> QED
    BY <2>2, <2>3, <2>4, <2>5 DEF d
<1> QED
  BY <1>1, <1>2

-----------------------------------------------------------------------------
(* pkg/aws/iampolicy/document.go: what is kept of a document on its way    *)
(* to IAM and back.                                                        *)

LEMMA StatementsSet ==
    ASSUME NEW version, NEW old, NEW new
    PROVE  SetStatements([version |-> version, statements |-> old], new)
           = [version |-> version,
              statements |-> [k \in DOMAIN new |-> ListedStatement(new[k])]]
<1> DEFINE listed == [k \in DOMAIN new |-> ListedStatement(new[k])]
<1> HIDE DEF listed
<1>1. [[version |-> version, statements |-> old] EXCEPT !.statements = listed]
      = [version |-> version, statements |-> listed]
  OBVIOUS
<1> QED
  BY <1>1 DEF SetStatements, listed

(* What is read of a statement: an []interface{} for every list and for    *)
(* every single string.                                                    *)
Interfaces(x) == [type |-> "interfaces", items |-> x.items]
ReadStatement(s) ==
    [grant |-> s.grant, action |-> Interfaces(s.action),
     resource |-> Interfaces(s.resource), conditions |-> s.conditions]

LEMMA WhatIsRead ==
    ASSUME NEW text
    PROVE  NewDocumentFromString(text) =
             [version |-> text.version,
              statements |-> [k \in DOMAIN text.statements |->
                                 ReadStatement(text.statements[k])]]
<1> DEFINE s == [k \in DOMAIN text.statements |-> UnmarshalStatement(text.statements[k])]
<1>1. Unmarshal(text) = [version |-> text.version, statements |-> s]
  BY DEF Unmarshal
<1>2. ASSUME NEW k \in DOMAIN text.statements
      PROVE  ListedStatement(s[k]) = ReadStatement(text.statements[k])
  <2> DEFINE u == text.statements[k]
  <2>1. s[k] = UnmarshalStatement(u)
    OBVIOUS
  <2>2. \A x : Listed(UnmarshalStrings(x)) = Interfaces(x)
    BY DEF Listed, UnmarshalStrings, Interfaces
  <2> HIDE DEF u, s
  <2>3. ListedStatement(UnmarshalStatement(u)) =
          [grant |-> u.grant, action |-> Listed(UnmarshalStrings(u.action)),
           resource |-> Listed(UnmarshalStrings(u.resource)),
           conditions |-> u.conditions]
    BY DEF ListedStatement, UnmarshalStatement
  <2> QED
    BY <2>1, <2>2, <2>3 DEF ReadStatement, u
<1>3. NewDocumentFromString(text) =
        [version |-> text.version,
         statements |-> [k \in DOMAIN s |-> ListedStatement(s[k])]]
  <2>1. Unmarshal(text).statements = s
    <3> HIDE DEF s
    <3> QED BY <1>1
  <2> HIDE DEF s
  <2> QED
    BY <1>1, <2>1, StatementsSet DEF NewDocumentFromString
<1> QED
  BY <1>2, <1>3

(* A text with its single strings written as lists of one.                 *)
AsLists(x) == [list |-> TRUE, items |-> x.items]
StatementWithLists(s) ==
    [grant |-> s.grant, action |-> AsLists(s.action),
     resource |-> AsLists(s.resource), conditions |-> s.conditions]
WithLists(text) ==
    [version |-> text.version,
     statements |-> [k \in DOMAIN text.statements |->
                        StatementWithLists(text.statements[k])]]

(* pkg/aws/iampolicy/document_test.go:55, "should consider a resource list *)
(* of length 1 to be the same as a string", for all texts: the documents   *)
(* read of two texts are Equal exactly when the texts differ in nothing    *)
(* but in how single strings are written, whatever else they say.          *)
THEOREM EqualAsRead ==
    ASSUME NEW a \in DocumentTexts, NEW b \in DocumentTexts
    PROVE  Equals(NewDocumentFromString(a), NewDocumentFromString(b))
           <=> WithLists(a) = WithLists(b)
<1> DEFINE A == [k \in DOMAIN a.statements |-> ReadStatement(a.statements[k])]
           B == [k \in DOMAIN b.statements |-> ReadStatement(b.statements[k])]
           AL == [k \in DOMAIN a.statements |-> StatementWithLists(a.statements[k])]
           BL == [k \in DOMAIN b.statements |-> StatementWithLists(b.statements[k])]
<1>1. \A s, t : ReadStatement(s) = ReadStatement(t)
                <=> /\ s.grant = t.grant /\ s.conditions = t.conditions
                    /\ s.action.items = t.action.items
                    /\ s.resource.items = t.resource.items
  BY DEF ReadStatement, Interfaces
<1>2. \A s, t : StatementWithLists(s) = StatementWithLists(t)
                <=> /\ s.grant = t.grant /\ s.conditions = t.conditions
                    /\ s.action.items = t.action.items
                    /\ s.resource.items = t.resource.items
  BY DEF StatementWithLists, AsLists
<1>3. A = B <=> /\ DOMAIN a.statements = DOMAIN b.statements
                /\ \A k \in DOMAIN a.statements :
                      ReadStatement(a.statements[k]) = ReadStatement(b.statements[k])
  OBVIOUS
<1>4. AL = BL <=> /\ DOMAIN a.statements = DOMAIN b.statements
                  /\ \A k \in DOMAIN a.statements :
                        StatementWithLists(a.statements[k]) = StatementWithLists(b.statements[k])
  OBVIOUS
<1>5. A = B <=> AL = BL
  BY <1>1, <1>2, <1>3, <1>4
<1>6. /\ NewDocumentFromString(a) = [version |-> a.version, statements |-> A]
      /\ NewDocumentFromString(b) = [version |-> b.version, statements |-> B]
      /\ WithLists(a) = [version |-> a.version, statements |-> AL]
      /\ WithLists(b) = [version |-> b.version, statements |-> BL]
  BY WhatIsRead DEF WithLists
<1> HIDE DEF A, B, AL, BL
<1> QED
  BY <1>5, <1>6 DEF Equals

LEMMA BuiltOf ==
    ASSUME NEW spec
    PROVE  BuiltDocument(spec) =
             [version |-> DefaultVersion,
              statements |-> [k \in DOMAIN spec.statements |->
                 ListedStatement(SerializeStatement(spec.statements[k]))]]
<1> DEFINE s == [k \in DOMAIN spec.statements |-> SerializeStatement(spec.statements[k])]
<1>1. /\ DOMAIN s = DOMAIN spec.statements
      /\ \A k \in DOMAIN s : s[k] = SerializeStatement(spec.statements[k])
  OBVIOUS
<1>2. BuiltDocument(spec) = SetStatements(NewDocument, s)
  BY DEF BuiltDocument
<1> HIDE DEF s
<1>3. BuiltDocument(spec) =
        [version |-> DefaultVersion,
         statements |-> [k \in DOMAIN s |-> ListedStatement(s[k])]]
  BY <1>2, StatementsSet DEF NewDocument
<1> QED
  BY <1>1, <1>3

LEMMA TextOf ==
    ASSUME NEW version, NEW s
    PROVE  Marshal([version |-> version, statements |-> s])
           = [version |-> version,
              statements |-> [k \in DOMAIN s |-> MarshalStatement(s[k])]]
  BY DEF Marshal

LEMMA TextBuilt ==
    ASSUME NEW spec
    PROVE  SerializeDocument(spec) =
             [version |-> DefaultVersion,
              statements |-> [k \in DOMAIN spec.statements |->
                 MarshalStatement(ListedStatement(SerializeStatement(spec.statements[k])))]]
<1> DEFINE s == [k \in DOMAIN spec.statements |->
                   ListedStatement(SerializeStatement(spec.statements[k]))]
<1>1. /\ DOMAIN s = DOMAIN spec.statements
      /\ \A k \in DOMAIN s : s[k] = ListedStatement(SerializeStatement(spec.statements[k]))
  OBVIOUS
<1>2. BuiltDocument(spec) = [version |-> DefaultVersion, statements |-> s]
  BY BuiltOf
<1> HIDE DEF s
<1>3. SerializeDocument(spec) =
        [version |-> DefaultVersion,
         statements |-> [k \in DOMAIN s |-> MarshalStatement(s[k])]]
  BY <1>2, TextOf DEF SerializeDocument
<1> QED
  BY <1>1, <1>3

LEMMA StatementReadBack ==
    ASSUME NEW s
    PROVE  LET written == MarshalStatement(ListedStatement(SerializeStatement(s)))
           IN MarshalStatement(ReadStatement(written)) = written
<1> DEFINE c == SerializeConditions(s.conditions)
           m == MarshalConditions(c)
           written == MarshalStatement(ListedStatement(SerializeStatement(s)))
<1>1. written = [grant |-> s.grant,
                 action |-> [list |-> TRUE, items |-> s.actions],
                 resource |-> [list |-> TRUE, items |-> s.resources],
                 conditions |-> m]
  BY DEF MarshalStatement, ListedStatement, SerializeStatement, Listed,
         AsStrings, MarshalStrings
<1>2. MarshalConditions(m) = m
  BY DEF MarshalConditions
<1> HIDE DEF written, m
<1> QED
  BY <1>1, <1>2 DEF MarshalStatement, ReadStatement, Interfaces, MarshalStrings, written

(* What the controller writes is read back without loss: marshalled again, *)
(* it is the same text, although its lists have another type by then, its  *)
(* nil maps were empty ones and a condition without maps stays.            *)
THEOREM ReadBack ==
    ASSUME NEW spec \in SpecDocuments
    PROVE  Marshal(NewDocumentFromString(SerializeDocument(spec)))
           = SerializeDocument(spec)
<1> DEFINE text == SerializeDocument(spec)
           n == DOMAIN spec.statements
           Built(k) == ListedStatement(SerializeStatement(spec.statements[k]))
<1>1. text = [version |-> DefaultVersion,
              statements |-> [k \in n |-> MarshalStatement(Built(k))]]
  BY TextBuilt
<1>2. ASSUME NEW k \in n
      PROVE  MarshalStatement(ReadStatement(MarshalStatement(Built(k))))
             = MarshalStatement(Built(k))
  BY StatementReadBack
<1> HIDE DEF text, n, Built
<1>3. NewDocumentFromString(text) =
        [version |-> DefaultVersion,
         statements |-> [k \in n |-> ReadStatement(MarshalStatement(Built(k)))]]
  BY <1>1, WhatIsRead
<1>4. Marshal(NewDocumentFromString(text)) =
        [version |-> DefaultVersion,
         statements |-> [k \in n |->
            MarshalStatement(ReadStatement(MarshalStatement(Built(k))))]]
  <2> DEFINE s == [k \in n |-> ReadStatement(MarshalStatement(Built(k)))]
  <2>1. DOMAIN s = n /\ \A k \in n : s[k] = ReadStatement(MarshalStatement(Built(k)))
    OBVIOUS
  <2>2. NewDocumentFromString(text) = [version |-> DefaultVersion, statements |-> s]
    BY <1>3
  <2> HIDE DEF s
  <2>3. Marshal(NewDocumentFromString(text)) =
          [version |-> DefaultVersion,
           statements |-> [k \in DOMAIN s |-> MarshalStatement(s[k])]]
    BY <2>2, TextOf
  <2> QED
    BY <2>1, <2>3
<1> QED
  BY <1>1, <1>2, <1>4 DEF text

(* A document the controller has built is yet not Equal to what is read of *)
(* its own text, unless it has no statements: lists of []string are not    *)
(* DeepEqual to lists of []interface{}.  Equals is for documents that were *)
(* both read.                                                              *)
THEOREM BuiltIsNotRead ==
    ASSUME NEW spec \in SpecDocuments
    PROVE  Equals(BuiltDocument(spec), NewDocumentFromString(SerializeDocument(spec)))
           <=> spec.statements = <<>>
<1> DEFINE text == SerializeDocument(spec)
           n == DOMAIN spec.statements
           Built(k) == ListedStatement(SerializeStatement(spec.statements[k]))
           built == [k \in n |-> Built(k)]
           read == [k \in n |-> ReadStatement(MarshalStatement(Built(k)))]
<1>1. \A k \in n : Built(k).action.type = "strings"
  BY DEF ListedStatement, SerializeStatement, Listed, AsStrings
<1>2. \A s : ReadStatement(s).action.type = "interfaces"
  BY DEF ReadStatement, Interfaces
<1>3. BuiltDocument(spec) = [version |-> DefaultVersion, statements |-> built]
  BY BuiltOf
<1>4. text = [version |-> DefaultVersion,
              statements |-> [k \in n |-> MarshalStatement(Built(k))]]
  BY TextBuilt
<1>5. n = {} <=> spec.statements = <<>>
  BY DEF SpecDocuments
<1> HIDE DEF n, Built, text
<1>6. NewDocumentFromString(text) = [version |-> DefaultVersion, statements |-> read]
  BY <1>4, WhatIsRead
<1>7. built = read <=> n = {}
  <2>1. ASSUME NEW k \in n PROVE built[k] # read[k]
    BY <1>1, <1>2
  <2> QED BY <2>1
<1> HIDE DEF built, read
<1> QED
  BY <1>3, <1>5, <1>6, <1>7 DEF Equals, text

-----------------------------------------------------------------------------
(* Bind.                                                                   *)

(* Bind (pkg/bindmanager/manager.go) finds a difference, and updates the   *)
(* trust policy, exactly when the role's own statement has to appear or to *)
(* go: a change of the service accounts inside it is never written.        *)
THEOREM UpdatesOnlyPresence ==
    ASSUME NEW doc \in TrustDoc, NEW accounts \in SUBSET ServiceAccounts
    PROVE  NeedsUpdate(doc, accounts) <=> (HasStatement(doc) <=> accounts = {})
<1>1. Edited(doc, accounts).accounts = accounts
  BY DEF Edited, Decoded, TrustDoc
<1>2. Decoded(doc).accounts = doc.accounts
  BY DEF Decoded, TrustDoc
<1>3. accounts = doc.accounts => Edited(doc, accounts) = Decoded(doc)
  BY DEF Edited, Decoded, TrustDoc
<1> QED
  BY <1>1, <1>2, <1>3 DEF NeedsUpdate, Original, HasStatement

-----------------------------------------------------------------------------
(* The algorithm on statements and the document of TrustPolicy.            *)

LEMMA LastMatchIsFound ==
    ASSUME NEW st \in Seq(Statements), Matches(st) # {}
    PROVE  /\ FoundAt(st) \in Matches(st) /\ FoundAt(st) \in DOMAIN st
           /\ \A j \in Matches(st) : j <= FoundAt(st)
<1>1. Matches(st) \in SUBSET (1..Len(st)) /\ Len(st) \in Nat
  BY DEF Matches
<1>2. \E k \in Matches(st) : \A j \in Matches(st) : j <= k
  BY <1>1, LastPlace
<1> QED
  BY <1>2 DEF FoundAt, Matches

LEMMA MatchIsFound ==
    ASSUME NEW st \in Seq(Statements), WellFormed(st), Matches(st) # {}
    PROVE  FoundAt(st) \in DOMAIN st /\ Matches(st) = {FoundAt(st)}
  BY LastMatchIsFound DEF WellFormed

LEMMA StatementKinds ==
    ASSUME NEW s \in Statements
    PROVE  \/ s.own /\ s.body = "allow" /\ s.list \in Seq(ServiceAccounts)
           \/ ~s.own /\ s.body \in {"deny", "stripped"} /\ s.list = <<>>
  BY DEF Statements, UpstreamStatements, ForeignStatements, OwnStatement,
         OtherStatement

LEMMA DecodedDocument ==
    ASSUME NEW st \in Seq(Statements)
    PROVE  /\ TrustDocOf(st) \in TrustDoc
           /\ Decoded(TrustDocOf(st)) = TrustDocOf(st)
<1>1. ASSUME NEW k \in DOMAIN st \ Matches(st)
      PROVE  st[k].body \in {"deny", "stripped"}
  <2>1. st[k] \in Statements /\ ~st[k].own
    BY <1>1 DEF Matches
  <2> QED BY <2>1, StatementKinds
<1>2. ASSUME NEW k \in Matches(st)
      PROVE  Members(st[k].list) \subseteq ServiceAccounts
  <2>1. st[k] \in Statements /\ st[k].own
    BY <1>2 DEF Matches
  <2>2. st[k].list \in Seq(ServiceAccounts)
    BY <2>1, StatementKinds
  <2> QED BY <2>2 DEF Members
<1>3. TrustDocOf(st) \in TrustDoc
  <2>1. {st[k].body : k \in DOMAIN st \ Matches(st)} \subseteq ForeignStatements
    BY <1>1 DEF ForeignStatements
  <2>2. UNION {Members(st[k].list) : k \in Matches(st)} \subseteq ServiceAccounts
    BY <1>2
  <2> QED BY <2>1, <2>2 DEF TrustDocOf, TrustDoc
<1>4. {IF s = "service" THEN "stripped" ELSE s : s \in TrustDocOf(st).foreign}
      = TrustDocOf(st).foreign
  <2>1. \A s \in TrustDocOf(st).foreign : s # "service"
    BY <1>1 DEF TrustDocOf
  <2> QED BY <2>1
<1> QED
  BY <1>3, <1>4 DEF Decoded, TrustDoc

LEMMA MembersOfList ==
    ASSUME NEW list \in Seq(ServiceAccounts)
    PROVE  /\ Members(list) \in SUBSET ServiceAccounts
           /\ Members(list) = {} <=> list = <<>>
  BY DEF Members

LEMMA HasOwnStatement ==
    ASSUME NEW st \in Seq(Statements), WellFormed(st)
    PROVE  HasStatement(TrustDocOf(st)) <=> Matches(st) # {}
<1>1. ASSUME NEW k \in Matches(st) PROVE Members(st[k].list) # {}
  <2>1. st[k] \in Statements /\ st[k].own
    BY DEF Matches
  <2>2. st[k].list \in Seq(ServiceAccounts) /\ st[k].list # <<>>
    BY <2>1, StatementKinds DEF WellFormed
  <2> QED BY <2>2, MembersOfList
<1> QED
  BY <1>1 DEF HasStatement, TrustDocOf

(* What Bind writes is what TrustPolicy says: the statements other people  *)
(* wrote as they were decoded, and one of the role's own with exactly the  *)
(* accounts of the list, for every document and every list.                *)
THEOREM BindEdits ==
    ASSUME NEW st \in Seq(Statements), WellFormed(st),
           NEW list \in Seq(ServiceAccounts)
    PROVE  TrustDocOf(Result(st, list)) = Edited(TrustDocOf(st), Members(list))
<1> DEFINE new == Result(st, list)
           f == FoundAt(st)
           own == OwnStatement(list)
<1>0. own.own = TRUE /\ own.list = list
  BY DEF OwnStatement
<1>1. SUFFICES
        /\ {new[k].body : k \in DOMAIN new \ Matches(new)}
             = {st[k].body : k \in DOMAIN st \ Matches(st)}
        /\ UNION {Members(new[k].list) : k \in Matches(new)} = Members(list)
  <2>1. Edited(TrustDocOf(st), Members(list))
        = [foreign |-> TrustDocOf(st).foreign, accounts |-> Members(list)]
    BY DecodedDocument DEF Edited, TrustDoc
  <2> QED BY <2>1 DEF TrustDocOf
<1>2. CASE Matches(st) = {} /\ list = <<>>
  <2>1. new = st
    BY <1>2 DEF Result
  <2>2. Members(list) = {}
    BY <1>2, MembersOfList
  <2> QED BY <1>2, <2>1, <2>2
<1>3. CASE Matches(st) = {} /\ list # <<>>
  <2>1. new = Append(st, own)
    BY <1>3 DEF Result
  <2>2. /\ DOMAIN new = DOMAIN st \cup {Len(st) + 1}
        /\ Len(st) + 1 \notin DOMAIN st
        /\ new[Len(st) + 1] = own
        /\ \A k \in DOMAIN st : new[k] = st[k]
    <3> HIDE DEF own
    <3> QED BY <2>1
  <2>3. Matches(new) = {Len(st) + 1}
    BY <2>2, <1>0, <1>3 DEF Matches
  <2>4. DOMAIN new \ Matches(new) = DOMAIN st
    BY <2>2, <2>3
  <2> HIDE DEF new, own
  <2> QED BY <1>0, <1>3, <2>2, <2>3, <2>4
<1>4. CASE Matches(st) # {} /\ list = <<>>
  <2>1. f \in DOMAIN st /\ Matches(st) = {f}
    BY <1>4, MatchIsFound
  <2>2. new = Without(st, f)
    BY <1>4 DEF Result
  <2>3. /\ Len(st) \in Nat /\ DOMAIN st = 1..Len(st)
        /\ DOMAIN new = 1..(Len(st) - 1)
        /\ \A k \in DOMAIN new : new[k] = IF k < f THEN st[k] ELSE st[k + 1]
    BY <2>2 DEF Without
  <2> HIDE DEF new, f
  <2>4. \A k \in DOMAIN new : \E j \in DOMAIN st \ {f} : new[k] = st[j]
    <3>1. TAKE k \in DOMAIN new
    <3>2. CASE k < f
      BY <3>2, <2>1, <2>3
    <3>3. CASE ~(k < f)
      <4>1. k + 1 \in DOMAIN st \ {f}
        BY <3>3, <2>1, <2>3
      <4> QED BY <4>1, <3>3, <2>3
    <3> QED BY <3>2, <3>3
  <2>5. \A j \in DOMAIN st \ {f} : \E k \in DOMAIN new : new[k] = st[j]
    <3>1. TAKE j \in DOMAIN st \ {f}
    <3>2. CASE j < f
      BY <3>2, <2>1, <2>3
    <3>3. CASE ~(j < f)
      <4>1. j - 1 \in DOMAIN new /\ ~(j - 1 < f) /\ (j - 1) + 1 = j
        BY <3>3, <2>1, <2>3
      <4> QED BY <4>1, <2>3
    <3> QED BY <3>2, <3>3
  <2>6. Matches(new) = {}
    BY <2>1, <2>4 DEF Matches
  <2>7. Members(list) = {}
    BY <1>4, MembersOfList
  <2> QED BY <2>1, <2>4, <2>5, <2>6, <2>7
<1>5. CASE Matches(st) # {} /\ list # <<>>
  <2>1. f \in DOMAIN st /\ Matches(st) = {f}
    BY <1>5, MatchIsFound
  <2>2. new = [st EXCEPT ![f] = own]
    BY <1>5 DEF Result
  <2> HIDE DEF f, own
  <2>3. /\ DOMAIN new = DOMAIN st
        /\ new[f] = own
        /\ \A k \in DOMAIN st \ {f} : new[k] = st[k]
    BY <2>1, <2>2
  <2>4. Matches(new) = {f}
    BY <1>0, <2>1, <2>3 DEF Matches
  <2> HIDE DEF new
  <2> QED BY <1>0, <2>1, <2>3, <2>4
<1> QED
  BY <1>2, <1>3, <1>4, <1>5

(* Whatever statements a document has, Bind finds a difference, and calls  *)
(* Update, exactly when a statement with the role's Sid has to appear or   *)
(* to go: the copy it compares with shares the array.                      *)
THEOREM BindComparison ==
    ASSUME NEW st \in Seq(Statements), NEW list \in Seq(ServiceAccounts)
    PROVE  Updates(st, list) <=> (Matches(st) # {} <=> list = <<>>)
<1>1. CASE Matches(st) = {} /\ list = <<>>
  BY <1>1 DEF Updates, Result, OriginalResult
<1>2. CASE Matches(st) = {} /\ list # <<>>
  <2>1. Len(Append(st, OwnStatement(list))) # Len(st)
    OBVIOUS
  <2> QED BY <1>2, <2>1 DEF Updates, Result, OriginalResult
<1>3. CASE Matches(st) # {} /\ list = <<>>
  <2>1. FoundAt(st) \in DOMAIN st
    BY <1>3, LastMatchIsFound
  <2>2. DOMAIN Without(st, FoundAt(st)) = 1..(Len(st) - 1)
    BY DEF Without
  <2>3. Len(st) \in DOMAIN st /\ Len(st) \notin 1..(Len(st) - 1)
    BY <2>1
  <2>4. Without(st, FoundAt(st)) # st
    BY <2>2, <2>3
  <2> QED BY <1>3, <2>4 DEF Updates, Result, OriginalResult
<1>4. CASE Matches(st) # {} /\ list # <<>>
  BY <1>4 DEF Updates, Result, OriginalResult
<1> QED
  BY <1>1, <1>2, <1>3, <1>4

(* So Bind updates the trust policy in the cases that TrustPolicy says.    *)
THEOREM BindUpdates ==
    ASSUME NEW st \in Seq(Statements), WellFormed(st),
           NEW list \in Seq(ServiceAccounts)
    PROVE  Updates(st, list) <=> NeedsUpdate(TrustDocOf(st), Members(list))
  BY BindComparison, DecodedDocument, MembersOfList, HasOwnStatement,
     UpdatesOnlyPresence

(* The statements but the last one with the role's Sid.                    *)
Others(st) == IF Matches(st) = {} THEN st ELSE Without(st, FoundAt(st))

(* Whatever statements a document has, repeated Sids too, Bind writes all  *)
(* but the last one with the role's Sid back as they are, in their order.  *)
THEOREM BindKeepsOthers ==
    ASSUME NEW st \in Seq(Statements), NEW list \in Seq(ServiceAccounts)
    PROVE  IF list = <<>> THEN Result(st, list) = Others(st)
                          ELSE Others(Result(st, list)) = Others(st)
<1> DEFINE new == Result(st, list)
           own == OwnStatement(list)
           f == FoundAt(st)
<1>0. own \in Statements /\ own.own
  BY DEF Statements, UpstreamStatements, OwnStatement
<1>1. CASE list = <<>>
  BY <1>1 DEF Result, Others
<1>2. CASE list # <<>> /\ Matches(st) = {}
  <2>1. /\ new \in Seq(Statements) /\ Len(new) = Len(st) + 1
        /\ DOMAIN new = 1..Len(new) /\ Len(st) \in Nat
        /\ new[Len(st) + 1].own
        /\ \A k \in 1..Len(st) : new[k] = st[k] /\ ~st[k].own
        /\ st = [k \in 1..Len(st) |-> st[k]]
    <3>1. new = Append(st, own)
      BY <1>2 DEF Result
    <3> HIDE DEF new, own
    <3> QED
      BY <1>0, <1>2, <3>1 DEF Matches
  <2> HIDE DEF new
  <2>2. Matches(new) = {Len(st) + 1}
    BY <2>1 DEF Matches
  <2>3. FoundAt(new) = Len(st) + 1
    BY <2>1, <2>2, LastMatchIsFound
  <2>4. Without(new, FoundAt(new)) = [k \in 1..Len(st) |-> st[k]]
    BY <2>1, <2>3 DEF Without
  <2> QED
    BY <1>2, <2>1, <2>2, <2>4 DEF Others, new
<1>3. CASE list # <<>> /\ Matches(st) # {}
  <2>1. f \in Matches(st) /\ f \in DOMAIN st /\ \A j \in Matches(st) : j <= f
    BY <1>3, LastMatchIsFound
  <2>2. /\ new \in Seq(Statements) /\ Len(new) = Len(st)
        /\ DOMAIN new = DOMAIN st /\ DOMAIN st = 1..Len(st) /\ Len(st) \in Nat
        /\ new[f].own
        /\ \A k \in DOMAIN st \ {f} : new[k] = st[k]
    <3>1. new = [st EXCEPT ![f] = own]
      BY <1>3 DEF Result
    <3> HIDE DEF new, own, f
    <3> QED
      BY <1>0, <2>1, <3>1
  <2> HIDE DEF new, f
  <2>3. Matches(new) = Matches(st)
    BY <2>1, <2>2 DEF Matches
  <2>4. FoundAt(new) = f
    BY <2>1, <2>2, <2>3, LastMatchIsFound
  <2>5. Without(new, f) = Without(st, f)
    BY <2>1, <2>2 DEF Without
  <2> QED
    BY <1>3, <2>3, <2>4, <2>5 DEF Others, new, f
<1> QED
  BY <1>1, <1>2, <1>3

(* The statements as IAM has them.                                         *)

LEMMA Decoding ==
    ASSUME NEW raw \in Seq(UpstreamStatements), Accepted(raw)
    PROVE  LET st == DecodedStatements(raw) IN
           /\ st \in Seq(Statements)
           /\ Len(st) = Len(raw) /\ DOMAIN st = DOMAIN raw
           /\ \A k \in DOMAIN raw : /\ st[k] = DecodedStatement(raw[k])
                                    /\ st[k].own = raw[k].own
                                    /\ st[k].list = raw[k].list
           /\ Matches(st) = Matches(raw)
<1> DEFINE st == DecodedStatements(raw)
<1>1. ASSUME NEW k \in DOMAIN raw
      PROVE  /\ DecodedStatement(raw[k]) \in Statements
             /\ DecodedStatement(raw[k]).own = raw[k].own
             /\ DecodedStatement(raw[k]).list = raw[k].list
  <2>1. raw[k] \in UpstreamStatements /\ raw[k].body # "list"
    BY DEF Accepted
  <2>2. CASE raw[k].body = "service"
    <3>1. raw[k] = OtherStatement("service")
      BY <2>1, <2>2 DEF UpstreamStatements, OwnStatement, OtherStatement
    <3>2. DecodedStatement(raw[k]) = OtherStatement("stripped")
      BY <2>2 DEF DecodedStatement
    <3>3. OtherStatement("stripped") \in Statements
      BY DEF Statements, UpstreamStatements, ForeignStatements, OtherStatement
    <3>4. /\ OtherStatement("stripped").own = OtherStatement("service").own
          /\ OtherStatement("stripped").list = OtherStatement("service").list
      BY DEF OtherStatement
    <3> QED BY <3>1, <3>2, <3>3, <3>4
  <2>3. CASE raw[k].body # "service"
    BY <2>1, <2>3 DEF DecodedStatement, Statements
  <2> QED BY <2>2, <2>3
<1>2. /\ Len(raw) \in Nat /\ DOMAIN raw = 1..Len(raw) /\ DOMAIN st = DOMAIN raw
      /\ \A k \in DOMAIN raw : st[k] = DecodedStatement(raw[k])
      /\ st = [k \in 1..Len(raw) |-> st[k]]
  BY DEF DecodedStatements
<1> HIDE DEF st
<1>3. st \in Seq(Statements) /\ Len(st) = Len(raw)
  BY <1>1, <1>2
<1>4. Matches(st) = Matches(raw)
  BY <1>1, <1>2 DEF Matches
<1> QED
  BY <1>1, <1>2, <1>3, <1>4 DEF st

(* TrustPolicy's decoder refuses and returns the same.                     *)
LEMMA DecodesAlike ==
    ASSUME NEW raw \in Seq(UpstreamStatements)
    PROVE  /\ Accepted(raw) <=> Decodable(TrustDocOf(raw))
           /\ Accepted(raw) => TrustDocOf(DecodedStatements(raw)) = Decoded(TrustDocOf(raw))
<1>1. ASSUME NEW k \in DOMAIN raw
      PROVE  raw[k].body = "list" => k \notin Matches(raw)
  <2>1. raw[k] \in UpstreamStatements
    OBVIOUS
  <2> QED
    BY <2>1 DEF UpstreamStatements, OwnStatement, OtherStatement, Matches
<1>2. Accepted(raw) <=> Decodable(TrustDocOf(raw))
  BY <1>1 DEF Accepted, Decodable, TrustDocOf
<1>3. ASSUME Accepted(raw)
      PROVE  TrustDocOf(DecodedStatements(raw)) = Decoded(TrustDocOf(raw))
  <2> DEFINE st == DecodedStatements(raw)
  <2>1. /\ DOMAIN st = DOMAIN raw /\ Matches(st) = Matches(raw)
        /\ \A k \in DOMAIN raw : /\ st[k] = DecodedStatement(raw[k])
                                 /\ st[k].list = raw[k].list
    BY <1>3, Decoding
  <2>2. ASSUME NEW k \in DOMAIN raw \ Matches(raw)
        PROVE  st[k].body = IF raw[k].body = "service" THEN "stripped" ELSE raw[k].body
    BY <2>1 DEF DecodedStatement, OtherStatement
  <2> HIDE DEF st
  <2>3. {st[k].body : k \in DOMAIN raw \ Matches(raw)}
        = {IF s = "service" THEN "stripped" ELSE s :
             s \in {raw[k].body : k \in DOMAIN raw \ Matches(raw)}}
    BY <2>2
  <2>4. {Members(st[k].list) : k \in Matches(raw)} = {Members(raw[k].list) : k \in Matches(raw)}
    BY <2>1 DEF Matches
  <2>5. TrustDocOf(st) = [foreign |-> {st[k].body : k \in DOMAIN raw \ Matches(raw)},
                          accounts |-> UNION {Members(raw[k].list) : k \in Matches(raw)}]
    BY <2>1, <2>4 DEF TrustDocOf
  <2>6. ASSUME NEW F, NEW A, NEW G
        PROVE  [[foreign |-> F, accounts |-> A] EXCEPT !.foreign = G]
               = [foreign |-> G, accounts |-> A]
    OBVIOUS
  <2>7. Decoded(TrustDocOf(raw)) =
          [foreign |-> {IF s = "service" THEN "stripped" ELSE s :
                          s \in {raw[k].body : k \in DOMAIN raw \ Matches(raw)}},
           accounts |-> UNION {Members(raw[k].list) : k \in Matches(raw)}]
    <3> DEFINE F == {raw[k].body : k \in DOMAIN raw \ Matches(raw)}
               A == UNION {Members(raw[k].list) : k \in Matches(raw)}
               G == {IF s = "service" THEN "stripped" ELSE s : s \in F}
    <3>1. TrustDocOf(raw) = [foreign |-> F, accounts |-> A]
      BY DEF TrustDocOf
    <3> HIDE DEF F, A
    <3>2. TrustDocOf(raw).foreign = F
      BY <3>1
    <3>3. Decoded(TrustDocOf(raw)) = [TrustDocOf(raw) EXCEPT !.foreign = G]
      BY <3>2 DEF Decoded
    <3> HIDE DEF G
    <3>4. Decoded(TrustDocOf(raw)) = [foreign |-> G, accounts |-> A]
      BY <2>6, <3>1, <3>3
    <3> QED
      BY <3>4 DEF F, A, G
  <2> QED
    BY <2>3, <2>5, <2>7 DEF st
<1> QED
  BY <1>2, <1>3

(* Of whatever IAM holds that Unmarshal accepts, Bind writes back the      *)
(* statements other people wrote, in their number and order, each as it    *)
(* was decoded: it may strip them, but drops, adds or merges none.         *)
THEOREM ForeignStatementsStay ==
    ASSUME NEW raw \in Seq(UpstreamStatements), Accepted(raw),
           NEW list \in Seq(ServiceAccounts)
    PROVE  LET new == Result(DecodedStatements(raw), list)
               kept == IF list = <<>> THEN new ELSE Others(new)
           IN /\ Len(kept) = Len(Others(raw))
              /\ \A k \in 1..Len(Others(raw)) :
                    kept[k] = DecodedStatement(Others(raw)[k])
<1> DEFINE st == DecodedStatements(raw)
           n == Len(raw)
<1>1. /\ st \in Seq(Statements) /\ Len(st) = n /\ DOMAIN st = DOMAIN raw
      /\ DOMAIN raw = 1..n /\ n \in Nat
      /\ \A k \in DOMAIN raw : st[k] = DecodedStatement(raw[k])
      /\ Matches(st) = Matches(raw)
  BY Decoding
<1>2. (IF list = <<>> THEN Result(st, list) ELSE Others(Result(st, list))) = Others(st)
  BY <1>1, BindKeepsOthers
<1> HIDE DEF st
<1>3. /\ Len(Others(st)) = Len(Others(raw))
      /\ \A k \in 1..Len(Others(raw)) : Others(st)[k] = DecodedStatement(Others(raw)[k])
  <2>1. CASE Matches(st) = {}
    BY <1>1, <2>1 DEF Others
  <2>2. CASE Matches(st) # {}
    <3> DEFINE f == FoundAt(st)
    <3>1. f \in DOMAIN st /\ FoundAt(raw) = f
      BY <1>1, <2>2, LastMatchIsFound DEF FoundAt
    <3>2. Others(st) = Without(st, f) /\ Others(raw) = Without(raw, f)
      BY <1>1, <2>2, <3>1 DEF Others
    <3> HIDE DEF f
    <3>3. /\ Without(st, f) = [j \in 1..(n - 1) |-> IF j < f THEN st[j] ELSE st[j + 1]]
          /\ Without(raw, f) = [j \in 1..(n - 1) |-> IF j < f THEN raw[j] ELSE raw[j + 1]]
      BY <1>1 DEF Without
    <3>4. n - 1 \in Nat
      BY <1>1, <3>1
    <3>5. /\ Len(Without(st, f)) = n - 1 /\ Len(Without(raw, f)) = n - 1
      BY <3>3, <3>4
    <3>6. ASSUME NEW j \in 1..(n - 1)
          PROVE  Without(st, f)[j] = DecodedStatement(Without(raw, f)[j])
      BY <1>1, <3>3
    <3> QED
      BY <3>2, <3>5, <3>6
  <2> QED
    BY <2>1, <2>2
<1> QED
  BY <1>2, <1>3 DEF st
=============================================================================
