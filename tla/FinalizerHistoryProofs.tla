----------------------- MODULE FinalizerHistoryProofs -----------------------
(***************************************************************************)
(* Lemmas about versions and finalizers, for objects of any kind.          *)
(***************************************************************************)
EXTENDS FinalizerHistory, SequenceTheorems, TLAPS

(* Writing: the new version is the latest, those before it stay.           *)
LEMMA WrittenVersions ==
    ASSUME NEW S, NEW h \in Versions(S), NEW o \in S
    PROVE  /\ Written(h, o) \in Versions(S)
           /\ Latest(Written(h, o)) = o
           /\ Len(Written(h, o)) \in {Len(h), Len(h) + 1}
           /\ \A i \in 1..Len(h) : Written(h, o)[i] = h[i]
           /\ Written(h, o)[Len(Written(h, o))] = o
           /\ Len(Written(h, o)) = Len(h) => o = Latest(h)
  BY DEF Versions, Written, Latest

(* A write of whatever kind does not reach the cache.                      *)
LEMMA CachedWritten ==
    ASSUME NEW S, NEW h \in Versions(S), NEW o
    PROVE  Cached(Written(h, o)) = Cached(h)
<1>1. h \in Seq(S \cup {o}) /\ Len(h) \in Nat \ {0}
  BY DEF Versions
<1> QED
  BY <1>1 DEF Written, Cached

(* The versions of an object: there is a first and a last, all of its kind. *)
LEMMA VersionsExist ==
    ASSUME NEW S, NEW h \in Versions(S)
    PROVE  /\ Len(h) \in Nat \ {0}
           /\ \A i \in 1..Len(h) : h[i] \in S
           /\ Cached(h) \in S
           /\ Latest(h) \in S
  BY DEF Versions, Cached, Latest

(* Delivering a watch event drops the first version.                       *)
LEMMA DeliveredVersions ==
    ASSUME NEW S, NEW h \in Versions(S), ~Current(h)
    PROVE  /\ Delivered(h) \in Versions(S)
           /\ Latest(Delivered(h)) = Latest(h)
           /\ Len(Delivered(h)) = Len(h) - 1
           /\ \A i \in 1..Len(Delivered(h)) : Delivered(h)[i] = h[i + 1]
<1>1. h \in Seq(S) /\ h # <<>>
  BY DEF Versions
<1>5. Len(h) \in Nat /\ Len(h) >= 2
  <2>1. Len(h) \in Nat \ {0}
    BY VersionsExist
  <2>2. Len(h) # 1
    BY DEF Current
  <2>3. \A n \in Nat \ {0} : n # 1 => n >= 2
    OBVIOUS
  <2> QED
    BY <2>1, <2>2, <2>3
<1>2. /\ Tail(h) \in Seq(S)
      /\ Len(Tail(h)) = Len(h) - 1
      /\ \A i \in 1..Len(Tail(h)) : Tail(h)[i] = h[i + 1]
  BY <1>1, HeadTailProperties
<1>3. Tail(h) # <<>>
  BY <1>5, <1>2, EmptySeq
<1>4. Tail(h)[Len(h) - 1] = h[Len(h)]
  BY <1>5, <1>2
<1> QED
  BY <1>2, <1>3, <1>4 DEF Versions, Delivered, Latest

(* Listing afresh leaves the latest version alone.                         *)
LEMMA RelistedVersions ==
    ASSUME NEW S, NEW h \in Versions(S)
    PROVE  /\ Relisted(h) \in Versions(S)
           /\ Latest(Relisted(h)) = Latest(h)
           /\ Len(Relisted(h)) = 1
           /\ Relisted(h)[1] = h[Len(h)]
  BY DEF Versions, Relisted, Latest

-----------------------------------------------------------------------------
(* What the version in the cache tells about the latest one.               *)

(* Cached live with the finalizer: it is still there.                      *)
LEMMA CachedLiveWith ==
    ASSUME NEW S, NEW h \in Versions(S), NEW f, Orderly(h, f),
           LiveWith(Cached(h), f)
    PROVE  ContainsFinalizer(Latest(h), f)
  BY VersionsExist DEF Orderly, LiveWith, DeletingWith, Live, Deleting, Cached, Latest

(* Cached live without the finalizer: it has not been lost since.          *)
LEMMA CachedLiveWithout ==
    ASSUME NEW S, NEW h \in Versions(S), NEW f, Orderly(h, f),
           Live(Cached(h))
    PROVE  Kept(h, f)
  BY VersionsExist DEF Orderly, Kept, DeletingWith, Live, Deleting, Cached

(* Cached being deleted with the finalizer: no later version is live with  *)
(* it.                                                                     *)
LEMMA CachedDeletingWith ==
    ASSUME NEW S, \A o \in S : o.phase \in Phases,
           NEW h \in Versions(S), NEW f, Orderly(h, f),
           DeletingWith(Cached(h), f)
    PROVE  Dying(h, f)
<1> SUFFICES ASSUME NEW j \in 1..Len(h), ContainsFinalizer(h[j], f),
                    NEW i \in 1..j
             PROVE  DeletingWith(h[i], f)
  BY DEF Dying
<1>1. Len(h) \in Nat \ {0} /\ 1 \in 1..Len(h) /\ i \in 1..Len(h) /\ 1 <= i
  BY VersionsExist
<1>2. ContainsFinalizer(h[i], f)
  BY <1>1 DEF Orderly, DeletingWith, Cached
<1>3. Present(h[i]) /\ ~LiveWith(h[i], f)
  BY <1>1, <1>2 DEF Orderly, Cached
<1>4. h[i].phase \in Phases
  BY <1>1, VersionsExist
<1> QED
  BY <1>2, <1>3, <1>4 DEF DeletingWith, LiveWith, Deleting, Live, Present, Phases

-----------------------------------------------------------------------------
(* The same predicates on the first n versions, so that the steps below    *)
(* reason about indices alone.                                             *)

OrderlyUpTo(h, n, f) ==
    \A i, j \in 1..n : i <= j =>
        /\ ContainsFinalizer(h[i], f) => Present(h[i])
        /\ DeletingWith(h[i], f) => ~LiveWith(h[j], f)
        /\ (ContainsFinalizer(h[i], f) /\ ~ContainsFinalizer(h[j], f)) =>
              /\ \A k \in 1..i : DeletingWith(h[k], f)
              /\ \A k \in j..n : ~ContainsFinalizer(h[k], f)

KeptUpTo(h, n, f) ==
    \A i, j \in 1..n :
        (i <= j /\ ContainsFinalizer(h[i], f)) => ContainsFinalizer(h[j], f)

DyingUpTo(h, n, f) ==
    \A j \in 1..n : ContainsFinalizer(h[j], f) =>
        \A i \in 1..j : DeletingWith(h[i], f)

LEMMA UpToLength ==
    ASSUME NEW h, NEW f
    PROVE  /\ Orderly(h, f) <=> OrderlyUpTo(h, Len(h), f)
           /\ Kept(h, f) <=> KeptUpTo(h, Len(h), f)
           /\ Dying(h, f) <=> DyingUpTo(h, Len(h), f)
  BY DEF Orderly, Kept, Dying, OrderlyUpTo, KeptUpTo, DyingUpTo

(* Equal versions have equal histories.                                    *)
LEMMA UpToEqual ==
    ASSUME NEW n \in Nat, NEW h, NEW g, \A i \in 1..n : g[i] = h[i], NEW f
    PROVE  /\ OrderlyUpTo(h, n, f) => OrderlyUpTo(g, n, f)
           /\ KeptUpTo(h, n, f) => KeptUpTo(g, n, f)
           /\ DyingUpTo(h, n, f) => DyingUpTo(g, n, f)
<1>1. OrderlyUpTo(h, n, f) => OrderlyUpTo(g, n, f)
  <2> SUFFICES ASSUME OrderlyUpTo(h, n, f),
                      NEW i \in 1..n, NEW j \in 1..n, i <= j
               PROVE  /\ ContainsFinalizer(g[i], f) => Present(g[i])
                      /\ DeletingWith(g[i], f) => ~LiveWith(g[j], f)
                      /\ (ContainsFinalizer(g[i], f) /\ ~ContainsFinalizer(g[j], f)) =>
                            /\ \A k \in 1..i : DeletingWith(g[k], f)
                            /\ \A k \in j..n : ~ContainsFinalizer(g[k], f)
    BY DEF OrderlyUpTo
  <2>1. \A k \in (1..i) \cup (j..n) : k \in 1..n /\ g[k] = h[k]
    OBVIOUS
  <2> QED
    BY <2>1 DEF OrderlyUpTo
<1>2. KeptUpTo(h, n, f) => KeptUpTo(g, n, f)
  BY DEF KeptUpTo
<1>3. DyingUpTo(h, n, f) => DyingUpTo(g, n, f)
  <2> SUFFICES ASSUME DyingUpTo(h, n, f), NEW j \in 1..n,
                      ContainsFinalizer(g[j], f), NEW i \in 1..j
               PROVE  DeletingWith(g[i], f)
    BY DEF DyingUpTo
  <2>1. i \in 1..n
    OBVIOUS
  <2> QED
    BY <2>1 DEF DyingUpTo
<1> QED
  BY <1>1, <1>2, <1>3

(* One more version of a history that was orderly so far.                  *)
LEMMA ExtendOrderly ==
    ASSUME NEW n \in Nat \ {0}, NEW h, NEW f, OrderlyUpTo(h, n, f),
           ContainsFinalizer(h[n + 1], f) => Present(h[n + 1]),
           \A i \in 1..n : DeletingWith(h[i], f) => ~LiveWith(h[n + 1], f),
           ~ContainsFinalizer(h[n + 1], f) =>
              \/ ~ContainsFinalizer(h[n], f)
              \/ DyingUpTo(h, n, f),
           ContainsFinalizer(h[n + 1], f) =>
              \/ ContainsFinalizer(h[n], f)
              \/ KeptUpTo(h, n, f)
    PROVE  OrderlyUpTo(h, n + 1, f)
<1> SUFFICES ASSUME NEW i \in 1..(n + 1), NEW j \in 1..(n + 1), i <= j
             PROVE  /\ ContainsFinalizer(h[i], f) => Present(h[i])
                    /\ DeletingWith(h[i], f) => ~LiveWith(h[j], f)
                    /\ (ContainsFinalizer(h[i], f) /\ ~ContainsFinalizer(h[j], f)) =>
                          /\ \A k \in 1..i : DeletingWith(h[k], f)
                          /\ \A k \in j..(n + 1) : ~ContainsFinalizer(h[k], f)
  BY DEF OrderlyUpTo
<1>1. n \in 1..n
  OBVIOUS
<1>2. ContainsFinalizer(h[i], f) => Present(h[i])
  BY DEF OrderlyUpTo
<1>3. DeletingWith(h[i], f) => ~LiveWith(h[j], f)
  <2>1. CASE j \in 1..n
    BY <2>1 DEF OrderlyUpTo
  <2>2. CASE j = n + 1 /\ i \in 1..n
    BY <2>2
  <2>3. CASE i = j
    BY <2>3 DEF DeletingWith, LiveWith, Deleting, Live
  <2> QED
    BY <2>1, <2>2, <2>3
<1>4. ASSUME ContainsFinalizer(h[i], f), ~ContainsFinalizer(h[j], f)
      PROVE  /\ \A k \in 1..i : DeletingWith(h[k], f)
             /\ \A k \in j..(n + 1) : ~ContainsFinalizer(h[k], f)
  <2>1. i \in 1..n /\ i # j
    BY <1>4
  <2>2. CASE j \in 1..n
    <3>1. /\ \A k \in 1..i : DeletingWith(h[k], f)
          /\ \A k \in j..n : ~ContainsFinalizer(h[k], f)
      BY <2>1, <2>2, <1>4 DEF OrderlyUpTo
    <3>2. ~ContainsFinalizer(h[n], f)
      BY <3>1, <2>2
    <3>3. ~KeptUpTo(h, n, f)
      BY <1>4, <2>1, <2>2 DEF KeptUpTo
    <3>4. ~ContainsFinalizer(h[n + 1], f)
      BY <3>2, <3>3
    <3> QED
      BY <3>1, <3>4
  <2>3. CASE j = n + 1 /\ ContainsFinalizer(h[n], f)
    <3>1. DyingUpTo(h, n, f)
      BY <2>3, <1>4
    <3> QED
      BY <3>1, <2>1, <2>3, <1>4 DEF DyingUpTo
  <2>4. CASE j = n + 1 /\ ~ContainsFinalizer(h[n], f)
    <3>1. \A k \in 1..i : DeletingWith(h[k], f)
      BY <2>1, <2>4, <1>1, <1>4 DEF OrderlyUpTo
    <3> QED
      BY <3>1, <2>4, <1>4
  <2> QED
    BY <2>2, <2>3, <2>4
<1> QED
  BY <1>2, <1>3, <1>4

(* What a write makes of the versions, in terms of indices.                *)
LEMMA WrittenUpTo ==
    ASSUME NEW S, NEW h \in Versions(S), NEW o \in S
    PROVE  \E n \in Nat \ {0} :
             /\ n = Len(h)
             /\ Latest(h) = h[n]
             /\ \A i \in 1..n : Written(h, o)[i] = h[i]
             /\ \/ Len(Written(h, o)) = n /\ o = h[n]
                \/ Len(Written(h, o)) = n + 1 /\ Written(h, o)[n + 1] = o
<1>1. PICK n \in Nat \ {0} : n = Len(h)
  BY VersionsExist
<1>2. \/ Len(Written(h, o)) = n /\ o = h[n]
      \/ Len(Written(h, o)) = n + 1 /\ Written(h, o)[n + 1] = o
  BY <1>1, WrittenVersions DEF Latest
<1>3. Latest(h) = h[n] /\ \A i \in 1..n : Written(h, o)[i] = h[i]
  BY <1>1, WrittenVersions DEF Latest
<1> QED
  BY <1>1, <1>2, <1>3

-----------------------------------------------------------------------------
(* Which writes keep the history orderly.                                  *)

(* A write that neither adds nor removes the finalizer, and that does not  *)
(* bring back to life an object being deleted with it.                     *)
LEMMA WriteKeeping ==
    ASSUME NEW S, \A x \in S : x.phase \in Phases,
           NEW h \in Versions(S), NEW o \in S, NEW f, Orderly(h, f),
           ContainsFinalizer(o, f) <=> ContainsFinalizer(Latest(h), f),
           ContainsFinalizer(o, f) => Present(o),
           DeletingWith(Latest(h), f) => ~LiveWith(o, f)
    PROVE  /\ Orderly(Written(h, o), f)
           /\ Kept(h, f) => Kept(Written(h, o), f)
           /\ Dying(h, f) => Dying(Written(h, o), f)
<1> DEFINE g == Written(h, o)
<1>1. PICK n \in Nat \ {0} :
        /\ n = Len(h)
        /\ Latest(h) = h[n]
        /\ \A i \in 1..n : g[i] = h[i]
        /\ \/ Len(g) = n /\ o = h[n]
           \/ Len(g) = n + 1 /\ g[n + 1] = o
  BY WrittenUpTo
<1> HIDE DEF g
<1>2. /\ n \in 1..n /\ g[n] = h[n]
      /\ \A i \in 1..n : h[i].phase \in Phases
  BY <1>1, VersionsExist
<1>3. OrderlyUpTo(h, n, f) /\ OrderlyUpTo(g, n, f)
  BY <1>1, UpToLength, UpToEqual
<1>4. /\ Kept(h, f) => KeptUpTo(g, n, f)
      /\ Dying(h, f) => DyingUpTo(g, n, f)
  BY <1>1, UpToLength, UpToEqual
<1>5. CASE Len(g) = n
  BY <1>3, <1>4, <1>5, UpToLength DEF g
<1>6. CASE Len(g) = n + 1 /\ g[n + 1] = o
  <2>1. ASSUME NEW i \in 1..n, DeletingWith(g[i], f), LiveWith(o, f)
        PROVE  FALSE
    <3>1. ContainsFinalizer(h[n], f)
      BY <2>1, <1>1 DEF LiveWith
    <3>2. Present(h[n]) /\ ~LiveWith(h[n], f)
      BY <2>1, <3>1, <1>2, <1>3 DEF OrderlyUpTo
    <3>3. DeletingWith(h[n], f)
      BY <3>1, <3>2, <1>2
         DEF DeletingWith, LiveWith, Deleting, Live, Present, Phases
    <3> QED
      BY <3>3, <2>1, <1>1
  <2>2. OrderlyUpTo(g, n + 1, f)
    BY <2>1, <1>1, <1>2, <1>3, <1>6, ExtendOrderly
  <2>3. \A i \in 1..(n + 1) : i \in 1..n \/ i = n + 1
    OBVIOUS
  <2>4. Kept(h, f) => KeptUpTo(g, n + 1, f)
    BY <2>3, <1>1, <1>2, <1>4, <1>6 DEF KeptUpTo
  <2>5. ASSUME Dying(h, f)
        PROVE  DyingUpTo(g, n + 1, f)
    <3>1. ASSUME ContainsFinalizer(o, f)
          PROVE  /\ \A i \in 1..n : DeletingWith(g[i], f)
                 /\ DeletingWith(o, f)
      <4>1. \A i \in 1..n : DeletingWith(g[i], f)
        BY <3>1, <2>5, <1>1, <1>2, <1>4 DEF DyingUpTo
      <4>2. ~LiveWith(o, f) /\ Present(o) /\ o.phase \in Phases
        BY <4>1, <2>1, <1>2, <3>1
      <4> QED
        BY <4>1, <4>2, <3>1
           DEF DeletingWith, LiveWith, Deleting, Live, Present, Phases
    <3> QED
      BY <3>1, <2>3, <2>5, <1>4, <1>6 DEF DyingUpTo
  <2> QED
    BY <2>2, <2>4, <2>5, <1>6, UpToLength DEF g
<1> QED
  BY <1>1, <1>5, <1>6

(* The worker adds the finalizer to an object it saw live without it.      *)
LEMMA WriteAdding ==
    ASSUME NEW S, NEW h \in Versions(S), NEW o \in S, NEW f, Orderly(h, f),
           Kept(h, f), ~ContainsFinalizer(Latest(h), f), LiveWith(o, f)
    PROVE  Orderly(Written(h, o), f)
<1> DEFINE g == Written(h, o)
<1>1. PICK n \in Nat \ {0} :
        /\ n = Len(h)
        /\ Latest(h) = h[n]
        /\ \A i \in 1..n : g[i] = h[i]
        /\ \/ Len(g) = n /\ o = h[n]
           \/ Len(g) = n + 1 /\ g[n + 1] = o
  BY WrittenUpTo
<1> HIDE DEF g
<1>2. n \in 1..n /\ Len(g) = n + 1 /\ g[n + 1] = o /\ g[n] = h[n]
  BY <1>1 DEF LiveWith
<1>3. OrderlyUpTo(g, n, f) /\ KeptUpTo(g, n, f)
  BY <1>1, UpToLength, UpToEqual
<1>4. \A i \in 1..n : ~DeletingWith(g[i], f)
  BY <1>1, <1>2, <1>3 DEF KeptUpTo, DeletingWith
<1>5. Present(o)
  BY DEF LiveWith, Live, Present
<1>6. OrderlyUpTo(g, n + 1, f)
  BY <1>2, <1>3, <1>4, <1>5, ExtendOrderly DEF LiveWith
<1> QED
  BY <1>2, <1>6, UpToLength DEF g

(* The worker removes the finalizer of an object it saw being deleted.     *)
LEMMA WriteRemoving ==
    ASSUME NEW S, NEW h \in Versions(S), NEW o \in S, NEW f, Orderly(h, f),
           Dying(h, f), ~ContainsFinalizer(o, f)
    PROVE  Orderly(Written(h, o), f)
<1> DEFINE g == Written(h, o)
<1>1. PICK n \in Nat \ {0} :
        /\ n = Len(h)
        /\ Latest(h) = h[n]
        /\ \A i \in 1..n : g[i] = h[i]
        /\ \/ Len(g) = n /\ o = h[n]
           \/ Len(g) = n + 1 /\ g[n + 1] = o
  BY WrittenUpTo
<1> HIDE DEF g
<1>2. OrderlyUpTo(g, n, f) /\ DyingUpTo(g, n, f)
  BY <1>1, UpToLength, UpToEqual
<1>3. CASE Len(g) = n
  BY <1>2, <1>3, UpToLength DEF g
<1>4. CASE Len(g) = n + 1 /\ g[n + 1] = o
  <2>1. ~ContainsFinalizer(g[n + 1], f) /\ ~LiveWith(g[n + 1], f)
    BY <1>4 DEF LiveWith
  <2>2. OrderlyUpTo(g, n + 1, f)
    BY <2>1, <1>2, ExtendOrderly
  <2> QED
    BY <2>2, <1>4, UpToLength DEF g
<1> QED
  BY <1>1, <1>3, <1>4

(* A watch event keeps all of it.                                          *)
LEMMA DeliveredOrderly ==
    ASSUME NEW S, NEW h \in Versions(S), ~Current(h), NEW f, Orderly(h, f)
    PROVE  /\ Orderly(Delivered(h), f)
           /\ Kept(h, f) => Kept(Delivered(h), f)
           /\ Dying(h, f) => Dying(Delivered(h), f)
<1> DEFINE g == Delivered(h)
<1>1. PICK n \in Nat \ {0} : n = Len(h)
  BY VersionsExist
<1>2. Len(g) = n - 1 /\ n - 1 \in Nat /\ \A i \in 1..(n - 1) : g[i] = h[i + 1]
  BY <1>1, DeliveredVersions
<1> HIDE DEF g
<1>3. /\ OrderlyUpTo(h, n, f)
      /\ Kept(h, f) => KeptUpTo(h, n, f)
      /\ Dying(h, f) => DyingUpTo(h, n, f)
  BY <1>1, UpToLength
<1>4. OrderlyUpTo(g, n - 1, f)
  <2> SUFFICES ASSUME NEW i \in 1..(n - 1), NEW j \in 1..(n - 1), i <= j
               PROVE  /\ ContainsFinalizer(g[i], f) => Present(g[i])
                      /\ DeletingWith(g[i], f) => ~LiveWith(g[j], f)
                      /\ (ContainsFinalizer(g[i], f) /\ ~ContainsFinalizer(g[j], f)) =>
                            /\ \A k \in 1..i : DeletingWith(g[k], f)
                            /\ \A k \in j..(n - 1) : ~ContainsFinalizer(g[k], f)
    BY DEF OrderlyUpTo
  <2>1. /\ i + 1 \in 1..n /\ j + 1 \in 1..n /\ i + 1 <= j + 1
        /\ g[i] = h[i + 1] /\ g[j] = h[j + 1]
    BY <1>2
  <2>2. /\ \A k \in 1..i : k + 1 \in 1..(i + 1) /\ g[k] = h[k + 1]
        /\ \A k \in j..(n - 1) : k + 1 \in (j + 1)..n /\ g[k] = h[k + 1]
    BY <1>2
  <2> QED
    BY <2>1, <2>2, <1>3 DEF OrderlyUpTo
<1>5. Kept(h, f) => KeptUpTo(g, n - 1, f)
  BY <1>2, <1>3 DEF KeptUpTo
<1>6. ASSUME Dying(h, f)
      PROVE  DyingUpTo(g, n - 1, f)
  <2> SUFFICES ASSUME NEW j \in 1..(n - 1), ContainsFinalizer(g[j], f),
                      NEW i \in 1..j
               PROVE  DeletingWith(g[i], f)
    BY DEF DyingUpTo
  <2>1. /\ j + 1 \in 1..n /\ i + 1 \in 1..(j + 1)
        /\ g[i] = h[i + 1] /\ g[j] = h[j + 1]
    BY <1>2
  <2> QED
    BY <2>1, <1>3, <1>6 DEF DyingUpTo
<1> QED
  BY <1>2, <1>4, <1>5, <1>6, UpToLength DEF g

(* So does a fresh list.                                                   *)
LEMMA RelistedOrderly ==
    ASSUME NEW S, NEW h \in Versions(S), NEW f, Orderly(h, f)
    PROVE  Orderly(Relisted(h), f)
<1>1. PICK n \in Nat \ {0} : n = Len(h)
  BY VersionsExist
<1>2. /\ OrderlyUpTo(h, n, f) /\ n \in 1..n
      /\ Len(Relisted(h)) = 1 /\ Relisted(h)[1] = h[n]
  BY <1>1, UpToLength, RelistedVersions
<1>3. \A i \in 1..1 : i = 1
  OBVIOUS
<1>4. ContainsFinalizer(h[n], f) => Present(h[n])
  BY <1>2 DEF OrderlyUpTo
<1>5. OrderlyUpTo(Relisted(h), 1, f)
  BY <1>2, <1>3, <1>4
     DEF OrderlyUpTo, DeletingWith, LiveWith, Deleting, Live
<1> QED
  BY <1>2, <1>5, UpToLength
=============================================================================
