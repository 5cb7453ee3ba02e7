---------------------- MODULE WorkspaceSessions_proofs ----------------------
(***************************************************************************)
(* Unsaved work stays in the store, for every set of paths, any number of  *)
(* acts and whatever races.  The invariant is about the store's sessions   *)
(* and the saves that are under way; the types of what the disk, the tree, *)
(* the events and the replies hold come second.  Third: where nothing      *)
(* races, no two sessions come to the same path.  Fourth: the tree comes   *)
(* to show what the disk holds, since whatever shows something else is     *)
(* still to be told of it.                                                 *)
(***************************************************************************)
EXTENDS WorkspaceSessions, FiniteSetTheorems, TLAPS

IsSeq(s) == s \in Seq({s[i] : i \in DOMAIN s})

(* The store's documents are sessions with different numbers up to k.        *)
IsDoc(d) ==
    /\ DOMAIN d = {"id", "path", "status", "dirty", "source", "shows"}
    /\ d.dirty \in BOOLEAN
AreApart(ds, k) ==
    /\ IsSeq(ds)
    /\ \A i \in DOMAIN ds : IsDoc(ds[i]) /\ ds[i].id \in 1 .. k
    /\ \A i, j \in DOMAIN ds : ds[i].id = ds[j].id => i = j

(* A save is one of a session, closes no other session, and leaves it clean  *)
(* until what was asked goes on.                                             *)
IsCall(c) ==
    DOMAIN c = {"kind", "doc", "path", "to", "reply", "ids", "ahead", "then"}
IsInOrder(c, ds) ==
    /\ IsCall(c)
    /\ c.kind \in {"inspect", "write", "reinspect", "clear"} =>
         IsDoc(c.doc) /\ (c.then.do = "close" => c.then.stamp = c.doc.id)
    /\ c.kind = "clear" => \A i \in DOMAIN ds : ds[i].id = c.doc.id => ~ds[i].dirty
AreInOrder(q, ds) == IsSeq(q) /\ \A n \in DOMAIN q : IsInOrder(q[n], ds)

SessionsInv ==
    /\ opened \in Nat
    /\ AreApart(docs, opened)
    /\ AreInOrder(calls, docs)

(* What a step makes of the documents: none becomes dirty, and the dirty     *)
(* ones stay, but for one.                                                   *)
NoneNew(ds) ==
    \A j \in DOMAIN ds : ds[j].dirty =>
        \E i \in DOMAIN docs : docs[i].id = ds[j].id /\ docs[i].dirty
AllStay(ds, but) ==
    \A i \in DOMAIN docs : docs[i].dirty /\ docs[i].id # but =>
        \E j \in DOMAIN ds : ds[j].id = docs[i].id /\ ds[j].dirty

-----------------------------------------------------------------------------
(* Sequences *)

(* What is kept of a sequence: the elements at the positions asked for, each *)
(* of them once.                                                             *)
LEMMA KeptOnce ==
    ASSUME NEW s, IsSeq(s), NEW at \in SUBSET DOMAIN s
    PROVE  /\ IsSeq(Kept(s, at)) /\ Len(Kept(s, at)) \in Nat
           /\ DOMAIN Kept(s, at) = 1 .. Len(Kept(s, at))
           /\ \E pos \in [DOMAIN Kept(s, at) -> at] :
                /\ \A n \in DOMAIN Kept(s, at) : Kept(s, at)[n] = s[pos[n]]
                /\ \A m, n \in DOMAIN Kept(s, at) : pos[m] = pos[n] => m = n
                /\ \A i \in at : \E n \in DOMAIN Kept(s, at) : pos[n] = i
                /\ \A m, n \in DOMAIN Kept(s, at) : m < n => pos[m] < pos[n]
<1> DEFINE C == Cardinality(at)
           below(i) == {j \in at : j <= i}
           rank == [i \in at |-> Cardinality(below(i))]
           pos == [n \in 1 .. C |-> CHOOSE i \in at : Cardinality(below(i)) = n]
<1>0. Len(s) \in Nat /\ DOMAIN s = 1 .. Len(s) /\ \A i \in at : i \in Nat
  BY DEF IsSeq
<1>1. IsFiniteSet(at) /\ C \in Nat
  <2>1. IsFiniteSet(1 .. Len(s))
    BY <1>0, FS_Interval
  <2> QED BY <1>0, <2>1, FS_Subset, FS_CardinalityType
<1>2. \A i \in at : IsFiniteSet(below(i)) /\ Cardinality(below(i)) \in 1 .. C
  <2> SUFFICES ASSUME NEW i \in at
               PROVE  IsFiniteSet(below(i)) /\ Cardinality(below(i)) \in 1 .. C
    OBVIOUS
  <2>1. IsFiniteSet(below(i)) /\ Cardinality(below(i)) <= C
    BY <1>1, FS_Subset
  <2>2. i \in below(i)
    BY <1>0
  <2>3. Cardinality(below(i)) \in Nat /\ Cardinality(below(i)) # 0
    BY <2>1, <2>2, FS_CardinalityType, FS_EmptySet
  <2> QED BY <1>1, <2>1, <2>3
<1>3. \A i, j \in at : i < j => Cardinality(below(i)) # Cardinality(below(j))
  <2> SUFFICES ASSUME NEW i \in at, NEW j \in at, i < j
               PROVE  Cardinality(below(i)) # Cardinality(below(j))
    OBVIOUS
  <2>1. below(i) \in SUBSET below(j) /\ j \in below(j) /\ j \notin below(i)
    BY <1>0
  <2>. HIDE DEF below
  <2> QED BY <1>2, <2>1, FS_Subset
<1>4. rank \in Injection(at, 1 .. C)
  <2>1. rank \in [at -> 1 .. C]
    BY <1>2
  <2>2. \A i, j \in at : rank[i] = rank[j] => i = j
    <3> SUFFICES ASSUME NEW i \in at, NEW j \in at, i # j
                 PROVE  Cardinality(below(i)) # Cardinality(below(j))
      OBVIOUS
    <3>1. i < j \/ j < i
      BY <1>0
    <3> HIDE DEF below
    <3> QED BY <1>3, <3>1
  <2> HIDE DEF rank
  <2> QED BY <2>1, <2>2 DEF Injection, IsInjective
<1>5. rank \in Surjection(at, 1 .. C)
  <2>1. IsFiniteSet(1 .. C) /\ Cardinality(1 .. C) = C
    BY <1>1, FS_Interval
  <2> HIDE DEF rank
  <2> QED BY <1>1, <1>4, <2>1, FS_Injection
<1>6. \A n \in 1 .. C : pos[n] \in at /\ Cardinality(below(pos[n])) = n
  BY <1>5 DEF Surjection
<1>7. pos \in [1 .. C -> at] /\ \A m, n \in 1 .. C : pos[m] = pos[n] => m = n
  BY <1>6
<1>8. \A i \in at : \E n \in 1 .. C : pos[n] = i
  <2> SUFFICES ASSUME NEW i \in at
               PROVE  \E n \in 1 .. C : pos[n] = i
    OBVIOUS
  <2>1. Cardinality(below(i)) \in 1 .. C
    BY <1>2
  <2>2. rank[pos[Cardinality(below(i))]] = rank[i]
    BY <1>6, <2>1
  <2> HIDE DEF rank, pos
  <2> QED BY <1>4, <1>7, <2>1, <2>2 DEF Injection, IsInjective
<1>8a. ASSUME NEW m \in 1 .. C, NEW n \in 1 .. C, m < n PROVE pos[m] < pos[n]
  <2> DEFINE i == pos[m]
             j == pos[n]
  <2>1. i \in at /\ j \in at /\ Cardinality(below(i)) = m /\ Cardinality(below(j)) = n
    BY <1>6
  <2> HIDE DEF i, j
  <2>2. ASSUME ~(i < j) PROVE below(j) \in SUBSET below(i)
    BY <1>0, <2>1, <2>2
  <2>3. below(j) \in SUBSET below(i) => n <= m
    <3> HIDE DEF below
    <3> QED BY <1>2, <2>1, FS_Subset
  <2>4. m \in Nat /\ n \in Nat
    BY <1>1
  <2>5. i < j
    BY <1>8a, <2>2, <2>3, <2>4
  <2> QED BY <2>5 DEF i, j
<1>9. Kept(s, at) = [n \in 1 .. C |-> s[pos[n]]]
  BY DEF Kept
<1> HIDE DEF pos
<1> DEFINE kept == Kept(s, at)
<1>10. /\ kept \in Seq({kept[n] : n \in 1 .. C})
       /\ DOMAIN kept = 1 .. C
       /\ \A n \in 1 .. C : kept[n] = s[pos[n]]
  BY <1>1, <1>9
<1>11. IsSeq(kept) /\ Len(kept) = C
  BY <1>1, <1>10 DEF IsSeq
<1> HIDE DEF kept
<1>12. DOMAIN kept = 1 .. Len(kept) /\ Len(kept) \in Nat
  BY <1>1, <1>10, <1>11
<1>13. /\ pos \in [DOMAIN kept -> at]
       /\ \A n \in DOMAIN kept : kept[n] = s[pos[n]]
       /\ \A m, n \in DOMAIN kept : pos[m] = pos[n] => m = n
       /\ \A i \in at : \E n \in DOMAIN kept : pos[n] = i
       /\ \A m, n \in DOMAIN kept : m < n => pos[m] < pos[n]
  BY <1>7, <1>8, <1>8a, <1>10
<1> QED BY Zenon, <1>11, <1>12, <1>13 DEF kept

LEMMA SeqOfItself ==
    ASSUME NEW X, NEW s \in Seq(X)
    PROVE  IsSeq(s)
<1> DEFINE Y == {s[i] : i \in DOMAIN s}
<1>1. Len(s) \in Nat /\ DOMAIN s = 1 .. Len(s) /\ s = [i \in 1 .. Len(s) |-> s[i]]
  OBVIOUS
<1>2. \A i \in 1 .. Len(s) : s[i] \in Y
  BY <1>1
<1> HIDE DEF Y
<1>3. s \in Seq(Y)
  BY <1>1, <1>2
<1> QED BY <1>3 DEF Y, IsSeq

LEMMA ElementsOfSeq ==
    ASSUME NEW s, IsSeq(s)
    PROVE  Len(s) \in Nat /\ DOMAIN s = 1 .. Len(s)
BY DEF IsSeq

LEMMA AppendedSeq ==
    ASSUME NEW s, IsSeq(s), NEW e
    PROVE  /\ IsSeq(Append(s, e))
           /\ DOMAIN Append(s, e) = 1 .. Len(s) + 1
           /\ \A n \in DOMAIN s : Append(s, e)[n] = s[n]
           /\ Append(s, e)[Len(s) + 1] = e
<1>1. Len(s) \in Nat /\ DOMAIN s = 1 .. Len(s)
  BY DEF IsSeq
<1>2. s \in Seq({s[i] : i \in DOMAIN s} \cup {e})
  BY DEF IsSeq
<1>3. /\ Append(s, e) \in Seq({s[i] : i \in DOMAIN s} \cup {e})
      /\ Len(Append(s, e)) = Len(s) + 1
      /\ \A n \in 1 .. Len(s) : Append(s, e)[n] = s[n]
      /\ Append(s, e)[Len(s) + 1] = e
  BY <1>1, <1>2
<1> DEFINE a == Append(s, e)
<1> HIDE DEF a
<1>4. DOMAIN a = 1 .. Len(s) + 1 /\ a \in Seq({a[i] : i \in DOMAIN a})
  BY <1>1, <1>3 DEF a
<1> QED BY <1>1, <1>3, <1>4 DEF a, IsSeq

LEMMA RestOfSeq ==
    ASSUME NEW s, IsSeq(s), s # <<>>
    PROVE  /\ IsSeq(Tail(s)) /\ 1 \in DOMAIN s /\ Head(s) = s[1]
           /\ \A n \in DOMAIN Tail(s) : n + 1 \in DOMAIN s /\ Tail(s)[n] = s[n + 1]
<1> DEFINE r == Tail(s)
<1>1. /\ Len(s) \in Nat /\ Len(s) > 0 /\ DOMAIN s = 1 .. Len(s)
      /\ r \in Seq({s[i] : i \in DOMAIN s})
      /\ Len(r) = Len(s) - 1
      /\ \A n \in 1 .. Len(s) - 1 : r[n] = s[n + 1]
      /\ Head(s) = s[1]
  BY DEF IsSeq
<1> HIDE DEF r
<1>2. DOMAIN r = 1 .. Len(s) - 1
  BY <1>1
<1>3. IsSeq(r)
  BY <1>1, SeqOfItself
<1>4. \A n \in DOMAIN r : n + 1 \in DOMAIN s /\ r[n] = s[n + 1]
  BY <1>1, <1>2
<1> QED BY <1>1, <1>3, <1>4 DEF r

-----------------------------------------------------------------------------
(* Documents *)

LEMMA KeptAreApart ==
    ASSUME NEW ds, NEW k, AreApart(ds, k), NEW at \in SUBSET DOMAIN ds
    PROVE  /\ AreApart(Kept(ds, at), k)
           /\ \A n \in DOMAIN Kept(ds, at) : \E i \in at : Kept(ds, at)[n] = ds[i]
           /\ \A i \in at : \E n \in DOMAIN Kept(ds, at) : Kept(ds, at)[n] = ds[i]
<1> DEFINE kept == Kept(ds, at)
<1> HIDE DEF kept
<1>1. IsSeq(kept)
  BY KeptOnce DEF AreApart, kept
<1>2. PICK pos \in [DOMAIN kept -> at] :
         /\ \A n \in DOMAIN kept : kept[n] = ds[pos[n]]
         /\ \A m, n \in DOMAIN kept : pos[m] = pos[n] => m = n
         /\ \A i \in at : \E n \in DOMAIN kept : pos[n] = i
  BY KeptOnce DEF AreApart, kept
<1>3. \A n \in DOMAIN kept : pos[n] \in at /\ pos[n] \in DOMAIN ds
  BY <1>2
<1>4. AreApart(kept, k)
  BY <1>1, <1>2, <1>3 DEF AreApart
<1>5. /\ \A n \in DOMAIN kept : \E i \in at : kept[n] = ds[i]
      /\ \A i \in at : \E n \in DOMAIN kept : kept[n] = ds[i]
  BY <1>2, <1>3
<1> QED BY <1>4, <1>5 DEF kept

(* A change of each document.                                                *)
LEMMA ChangedAreApart ==
    ASSUME NEW k, AreApart(docs, k),
           NEW ds, ds = [i \in DOMAIN docs |-> ds[i]],
           \A i \in DOMAIN docs : IsDoc(ds[i]) /\ ds[i].id = docs[i].id
    PROVE  AreApart(ds, k)
<1>1. Len(docs) \in Nat /\ DOMAIN docs = 1 .. Len(docs)
  BY ElementsOfSeq DEF AreApart
<1>2. DOMAIN ds = 1 .. Len(docs)
  BY <1>1
<1>3. ds \in Seq({ds[i] : i \in DOMAIN docs})
  BY <1>1, <1>2
<1>4. IsSeq(ds)
  BY <1>3, SeqOfItself
<1> QED BY <1>1, <1>2, <1>4 DEF AreApart

(* A change of each document, by which only that of one number may become    *)
(* clean.                                                                    *)
LEMMA ChangeOfEach ==
    ASSUME NEW k, AreApart(docs, k), NEW but,
           NEW ds, ds = [i \in DOMAIN docs |-> ds[i]],
           \A i \in DOMAIN docs :
              /\ IsDoc(ds[i]) /\ ds[i].id = docs[i].id
              /\ ds[i].dirty => docs[i].dirty
              /\ docs[i].dirty /\ docs[i].id # but => ds[i].dirty
    PROVE  AreApart(ds, k) /\ NoneNew(ds) /\ AllStay(ds, but)
<1>1. AreApart(ds, k)
  BY ChangedAreApart
<1>2. DOMAIN ds = DOMAIN docs
  OBVIOUS
<1>3. NoneNew(ds) /\ AllStay(ds, but)
  BY <1>2 DEF NoneNew, AllStay
<1> QED BY <1>1, <1>3

LEMMA StatusStays ==
    ASSUME NEW k, AreApart(docs, k), NEW ids, NEW status
    PROVE  /\ AreApart(SetStatus(ids, status), k) /\ NoneNew(SetStatus(ids, status))
           /\ AllStay(SetStatus(ids, status), 0)
<1> DEFINE ds == SetStatus(ids, status)
<1>1. /\ ds = [i \in DOMAIN docs |-> ds[i]]
      /\ \A i \in DOMAIN docs : IsDoc(ds[i]) /\ ds[i].id = docs[i].id
                                  /\ ds[i].dirty = docs[i].dirty
  BY DEF SetStatus, Each, AreApart, IsDoc
<1> HIDE DEF ds
<1>2. AreApart(ds, k) /\ NoneNew(ds) /\ AllStay(ds, 0)
  BY <1>1, ChangeOfEach
<1> QED BY <1>2 DEF ds

LEMMA ModelStays ==
    ASSUME NEW k, AreApart(docs, k), NEW id, NEW source
    PROVE  /\ AreApart(SetModel(id, source), k) /\ NoneNew(SetModel(id, source))
           /\ AllStay(SetModel(id, source), 0)
<1> DEFINE ds == SetModel(id, source)
<1>0. /\ ds = [i \in DOMAIN docs |-> ds[i]]
      /\ \A i \in DOMAIN docs :
           ds[i] = IF docs[i].id = id
                     THEN [docs[i] EXCEPT !.status = "editable", !.shows = source,
                                          !.source = source]
                   ELSE docs[i]
  BY DEF SetModel, Each, Only
<1>1. \A i \in DOMAIN docs : IsDoc(ds[i]) /\ ds[i].id = docs[i].id
                              /\ ds[i].dirty = docs[i].dirty
  BY <1>0 DEF AreApart, IsDoc
<1> HIDE DEF ds
<1>2. AreApart(ds, k) /\ NoneNew(ds) /\ AllStay(ds, 0)
  BY <1>0, <1>1, ChangeOfEach
<1> QED BY <1>2 DEF ds

LEMMA SavedOnly ==
    ASSUME NEW k, AreApart(docs, k), NEW id, NEW source, NEW shows
    PROVE  /\ AreApart(MarkSaved(id, source, shows), k)
           /\ NoneNew(MarkSaved(id, source, shows))
           /\ AllStay(MarkSaved(id, source, shows), id)
           /\ \A i \in DOMAIN MarkSaved(id, source, shows) :
                MarkSaved(id, source, shows)[i].id = id
                  => ~MarkSaved(id, source, shows)[i].dirty
<1> DEFINE ds == MarkSaved(id, source, shows)
<1>0. /\ ds = [i \in DOMAIN docs |-> ds[i]]
      /\ \A i \in DOMAIN docs :
           ds[i] = IF docs[i].id = id
                     THEN [docs[i] EXCEPT !.dirty = FALSE, !.shows = shows,
                             !.source = IF source = None THEN docs[i].source ELSE source]
                   ELSE docs[i]
  BY DEF MarkSaved, Each, Only
<1>1. \A i \in DOMAIN docs :
        /\ IsDoc(ds[i]) /\ ds[i].id = docs[i].id
        /\ ds[i].dirty => docs[i].dirty
        /\ docs[i].id # id => ds[i].dirty = docs[i].dirty
        /\ docs[i].id = id => ~ds[i].dirty
  BY <1>0 DEF AreApart, IsDoc
<1> HIDE DEF ds
<1>2. AreApart(ds, k) /\ NoneNew(ds) /\ AllStay(ds, id)
  BY <1>0, <1>1, ChangeOfEach
<1>3. \A i \in DOMAIN ds : ds[i].id = id => ~ds[i].dirty
  BY <1>0, <1>1
<1> QED BY <1>2, <1>3 DEF ds

LEMMA RemapStays ==
    ASSUME NEW k, AreApart(docs, k), NEW p, NEW to
    PROVE  /\ AreApart(RemapPaths(p, to), k) /\ NoneNew(RemapPaths(p, to))
           /\ AllStay(RemapPaths(p, to), 0)
<1> DEFINE ds == RemapPaths(p, to)
<1>1. /\ ds = [i \in DOMAIN docs |-> ds[i]]
      /\ \A i \in DOMAIN docs : IsDoc(ds[i]) /\ ds[i].id = docs[i].id
                                  /\ ds[i].dirty = docs[i].dirty
  BY DEF RemapPaths, Each, AreApart, IsDoc
<1> HIDE DEF ds
<1>2. AreApart(ds, k) /\ NoneNew(ds) /\ AllStay(ds, 0)
  BY <1>1, ChangeOfEach
<1> QED BY <1>2 DEF ds

(* Documents that leave.                                                     *)
LEMMA KeptStay ==
    ASSUME NEW k, AreApart(docs, k), NEW but, NEW at \in SUBSET DOMAIN docs,
           \A i \in DOMAIN docs : docs[i].dirty /\ docs[i].id # but => i \in at
    PROVE  AreApart(Kept(docs, at), k) /\ NoneNew(Kept(docs, at)) /\ AllStay(Kept(docs, at), but)
<1> DEFINE ds == Kept(docs, at)
<1>1. /\ AreApart(ds, k)
      /\ \A n \in DOMAIN ds : \E i \in at : ds[n] = docs[i]
      /\ \A i \in at : \E n \in DOMAIN ds : ds[n] = docs[i]
  BY KeptAreApart
<1> HIDE DEF ds
<1>2. NoneNew(ds)
  <2> SUFFICES ASSUME NEW j \in DOMAIN ds, ds[j].dirty
               PROVE  \E i \in DOMAIN docs : docs[i].id = ds[j].id /\ docs[i].dirty
    BY DEF NoneNew
  <2>1. PICK i \in at : ds[j] = docs[i]
    BY <1>1
  <2> QED BY <2>1
<1>3. AllStay(ds, but)
  <2> SUFFICES ASSUME NEW i \in DOMAIN docs, docs[i].dirty, docs[i].id # but
               PROVE  \E j \in DOMAIN ds : ds[j].id = docs[i].id /\ ds[j].dirty
    BY DEF AllStay
  <2>1. PICK n \in DOMAIN ds : ds[n] = docs[i]
    BY <1>1
  <2> QED BY <2>1
<1> QED BY <1>1, <1>2, <1>3 DEF ds

LEMMA WithoutStays ==
    ASSUME NEW k, AreApart(docs, k), NEW id
    PROVE  AreApart(Without(id), k) /\ NoneNew(Without(id)) /\ AllStay(Without(id), id)
BY KeptStay DEF Without

(* A clean document that comes.                                              *)
LEMMA AppendedStays ==
    ASSUME NEW k \in Nat, NEW ds, AreApart(ds, k), NoneNew(ds), AllStay(ds, 0),
           NEW d, IsDoc(d), d.id = k + 1, ~d.dirty
    PROVE  AreApart(Append(ds, d), k + 1) /\ NoneNew(Append(ds, d)) /\ AllStay(Append(ds, d), 0)
<1> DEFINE more == Append(ds, d)
<1>0. IsSeq(ds) /\ Len(ds) \in Nat /\ DOMAIN ds = 1 .. Len(ds)
  BY ElementsOfSeq DEF AreApart
<1>1. /\ IsSeq(more)
      /\ DOMAIN more = 1 .. Len(ds) + 1
      /\ \A n \in DOMAIN ds : more[n] = ds[n]
      /\ more[Len(ds) + 1] = d
  BY <1>0, AppendedSeq
<1> HIDE DEF more
<1>2. \A n \in DOMAIN more : (n \in DOMAIN ds /\ more[n] = ds[n]) \/ (n = Len(ds) + 1 /\ more[n] = d)
  BY <1>0, <1>1
<1>3. \A n \in DOMAIN ds : ds[n].id \in 1 .. k + 1 /\ ds[n].id # k + 1
  BY DEF AreApart
<1>4. AreApart(more, k + 1)
  BY <1>1, <1>2, <1>3 DEF AreApart
<1>5. NoneNew(more)
  BY <1>2 DEF NoneNew
<1>6. AllStay(more, 0)
  <2>1. DOMAIN ds \subseteq DOMAIN more
    BY <1>0, <1>1
  <2> QED BY <1>1, <2>1 DEF AllStay
<1> QED BY <1>4, <1>5, <1>6 DEF more

LEMMA OpenedStays ==
    ASSUME opened \in Nat, AreApart(docs, opened),
           NEW p, NEW status, NEW stamp, NEW shows
    PROVE  LET ds == OpenDocument(NewDoc(p, status, stamp, shows))
           IN  AreApart(ds, opened + 1) /\ NoneNew(ds) /\ AllStay(ds, 0)
<1> DEFINE d == NewDoc(p, status, stamp, shows)
           old == Existing(d)
           at == {i \in DOMAIN docs : Protected(docs[i])
                                       \/ (old # <<>> /\ docs[i].id = Head(old).id)}
           kept == Kept(docs, at)
<1>1. AreApart(kept, opened) /\ NoneNew(kept) /\ AllStay(kept, 0)
  <2>1. \A i \in DOMAIN docs : docs[i].dirty => i \in at
    BY DEF Protected
  <2> QED BY <2>1, KeptStay
<1>2. IsDoc(d) /\ d.id = opened + 1 /\ ~d.dirty
  BY DEF NewDoc, IsDoc
<1>3. OpenDocument(d) = IF old # <<>> THEN kept ELSE Append(kept, d)
  BY DEF OpenDocument
<1> HIDE DEF kept, d
<1>4. AreApart(Append(kept, d), opened + 1) /\ NoneNew(Append(kept, d)) /\ AllStay(Append(kept, d), 0)
  BY <1>1, <1>2, AppendedStays
<1>5. AreApart(kept, opened + 1)
  BY <1>1 DEF AreApart
<1> QED BY <1>1, <1>3, <1>4, <1>5 DEF d

(* An event: clean documents leave, the others are classified.               *)
LEMMA ClassifiedStays ==
    ASSUME NEW d, IsDoc(d), NEW e
    PROVE  IsDoc(Classified(d, e)) /\ Classified(d, e).id = d.id /\ Classified(d, e).dirty = d.dirty
BY DEF Classified, Changed, IsDoc

LEMMA DocsAfterStay ==
    ASSUME NEW k, AreApart(docs, k), NEW e
    PROVE  AreApart(DocsAfter(e), k) /\ NoneNew(DocsAfter(e)) /\ AllStay(DocsAfter(e), 0)
<1> DEFINE at == {i \in DOMAIN docs : ~Leaves(docs[i], e)}
           stay == Kept(docs, at)
           ds == DocsAfter(e)
<1>1. AreApart(stay, k) /\ NoneNew(stay) /\ AllStay(stay, 0)
  <2>1. \A i \in DOMAIN docs : docs[i].dirty => i \in at
    BY DEF Leaves
  <2> QED BY <2>1, KeptStay
<1>2. ds = [i \in DOMAIN stay |-> Classified(stay[i], e)]
  BY DEF DocsAfter
<1> HIDE DEF stay, ds
<1>3. \A i \in DOMAIN stay : IsDoc(ds[i]) /\ ds[i].id = stay[i].id /\ ds[i].dirty = stay[i].dirty
  BY <1>1, <1>2, ClassifiedStays DEF AreApart
<1>4. DOMAIN ds = DOMAIN stay
  BY <1>2
<1>5. IsSeq(ds)
  <2>1. Len(stay) \in Nat /\ DOMAIN stay = 1 .. Len(stay)
    BY <1>1, ElementsOfSeq DEF AreApart
  <2>2. ds \in Seq({ds[i] : i \in 1 .. Len(stay)})
    BY <1>2, <2>1
  <2> QED BY <2>2, SeqOfItself
<1>6. AreApart(ds, k)
  BY <1>1, <1>3, <1>4, <1>5 DEF AreApart
<1>7. NoneNew(ds) /\ AllStay(ds, 0)
  BY <1>1, <1>3, <1>4 DEF NoneNew, AllStay
<1> QED BY <1>6, <1>7 DEF ds

-----------------------------------------------------------------------------
(* Calls *)

LEMMA MoreInOrder ==
    ASSUME NEW ds, NEW q, AreInOrder(q, ds), NEW c, IsInOrder(c, ds)
    PROVE  AreInOrder(Append(q, c), ds)
<1> DEFINE more == Append(q, c)
<1>1. /\ IsSeq(q) /\ Len(q) \in Nat /\ DOMAIN q = 1 .. Len(q)
      /\ IsSeq(more)
      /\ DOMAIN more = 1 .. Len(q) + 1
      /\ \A n \in DOMAIN q : more[n] = q[n]
      /\ more[Len(q) + 1] = c
  BY AppendedSeq, ElementsOfSeq DEF AreInOrder
<1> HIDE DEF more
<1>2. \A n \in DOMAIN more : (n \in DOMAIN q /\ more[n] = q[n]) \/ more[n] = c
  BY <1>1
<1>3. AreInOrder(more, ds)
  BY <1>1, <1>2 DEF AreInOrder
<1> QED BY <1>3 DEF more

LEMMA RestInOrder ==
    ASSUME NEW ds, NEW q, AreInOrder(q, ds), q # <<>>
    PROVE  AreInOrder(Tail(q), ds) /\ IsInOrder(Head(q), ds)
<1>1. /\ IsSeq(Tail(q)) /\ 1 \in DOMAIN q /\ Head(q) = q[1]
      /\ \A n \in DOMAIN Tail(q) : n + 1 \in DOMAIN q /\ Tail(q)[n] = q[n + 1]
  BY RestOfSeq DEF AreInOrder
<1> QED BY <1>1 DEF AreInOrder

LEMMA StillInOrder ==
    ASSUME NEW q, AreInOrder(q, docs), NEW ds, NoneNew(ds)
    PROVE  AreInOrder(q, ds)
BY DEF AreInOrder, IsInOrder, NoneNew

LEMMA LoadsInOrder ==
    ASSUME NEW ds, NEW q, AreInOrder(q, ds), NEW now
    PROVE  AreInOrder(LoadsAgain(now, q), ds)
<1> DEFINE at == {i \in DOMAIN q : q[i].kind # "load"}
           kept == Kept(q, at)
           load == [Call("load") EXCEPT !.doc = Head(now), !.reply = At(Head(now).path)]
<1>1. AreInOrder(kept, ds)
  <2>1. IsSeq(kept) /\ \A n \in DOMAIN kept : \E i \in DOMAIN q : kept[n] = q[i]
    <3>1. IsSeq(q) /\ at \in SUBSET DOMAIN q
      BY DEF AreInOrder
    <3> HIDE DEF at
    <3>2. PICK pos \in [DOMAIN kept -> at] : \A n \in DOMAIN kept : kept[n] = q[pos[n]]
      BY <3>1, KeptOnce
    <3>3. IsSeq(kept)
      BY <3>1, KeptOnce
    <3> HIDE DEF kept
    <3>4. \A n \in DOMAIN kept : pos[n] \in DOMAIN q
      BY <3>1, <3>2
    <3> QED BY <3>2, <3>3, <3>4
  <2> HIDE DEF kept
  <2> QED BY <2>1 DEF AreInOrder
<1>2. IsInOrder(load, ds)
  <2>1. IsCall(load) /\ load.kind = "load"
    BY DEF Call, IsCall
  <2> QED BY <2>1 DEF IsInOrder
<1>3. LoadsAgain(now, q) \in {kept, Append(kept, load)}
  BY DEF LoadsAgain
<1> HIDE DEF kept, load
<1>4. AreInOrder(Append(kept, load), ds)
  BY <1>1, <1>2, MoreInOrder
<1> QED BY <1>1, <1>3, <1>4

(* The handlers that do not save.                                            *)
LEMMA OtherCallInOrder ==
    ASSUME NEW ds, NEW c, IsCall(c), c.kind \in {"load", "link", "create", "reload", "remap", "trash", "refresh"}
    PROVE  IsInOrder(c, ds)
BY DEF IsInOrder

-----------------------------------------------------------------------------
(* The store's documents become others *)

LEMMA Becomes ==
    ASSUME NEW ds, NEW ac, NEW tr, NEW q, Become(ds, ac, tr, q),
           opened' \in Nat, AreApart(ds, opened'), AreInOrder(q, ds)
    PROVE  docs' = ds /\ SessionsInv'
<1>1. docs' = ds /\ calls' = LoadsAgain(WithId(ds, ac), q)
  BY DEF Become
<1>2. AreInOrder(calls', ds)
  BY <1>1, LoadsInOrder
<1> QED BY <1>1, <1>2 DEF SessionsInv

LEMMA DocsOnlyBecome ==
    ASSUME NEW ds, NEW q, DocsBecome(ds, q),
           opened' \in Nat, AreApart(ds, opened'), AreInOrder(q, ds)
    PROVE  docs' = ds /\ SessionsInv'
<1>1. docs' = ds /\ calls' \in {q, LoadsAgain(WithId(ds, active), q)}
  BY DEF DocsBecome
<1>2. AreInOrder(calls', ds)
  BY <1>1, LoadsInOrder
<1> QED BY <1>1, <1>2 DEF SessionsInv

-----------------------------------------------------------------------------
(* The person *)

(* What a step may do to unsaved work.                                       *)
UnsavedStays ==
    \A i \in DOMAIN docs :
       docs[i].dirty =>
         \/ \E j \in DOMAIN docs' : docs'[j].id = docs[i].id /\ docs'[j].dirty
         \/ Close /\ active = docs[i].id
         \/ (Saved \/ Reloaded) /\ Head(calls).doc.id = docs[i].id

LEMMA AllStayed ==
    ASSUME SessionsInv, AllStay(docs', 0)
    PROVE  UnsavedStays
<1> SUFFICES ASSUME NEW i \in DOMAIN docs, docs[i].dirty
             PROVE  \E j \in DOMAIN docs' : docs'[j].id = docs[i].id /\ docs'[j].dirty
  BY DEF UnsavedStays
<1>1. docs[i].id # 0
  BY DEF SessionsInv, AreApart
<1> QED BY <1>1 DEF AllStay

LEMMA SameDocsStay == docs' = docs => NoneNew(docs') /\ AllStay(docs', 0)
BY DEF NoneNew, AllStay

LEMMA ActiveIsASession ==
    ASSUME SessionsInv, HasActive
    PROVE  IsDoc(Active) /\ Active.id = active /\ \E i \in DOMAIN docs : Active = docs[i]
<1> DEFINE at == {i \in DOMAIN docs : docs[i].id = active}
           found == Kept(docs, at)
<1>1. /\ AreApart(found, opened)
      /\ \A n \in DOMAIN found : \E i \in at : found[n] = docs[i]
  <2>1. AreApart(docs, opened) /\ at \in SUBSET DOMAIN docs
    BY DEF SessionsInv
  <2> HIDE DEF at
  <2> QED BY <2>1, KeptAreApart
<1>2. found # <<>> /\ Active = Head(found)
  BY DEF HasActive, Active, WithId
<1> HIDE DEF found
<1>3. 1 \in DOMAIN found /\ Head(found) = found[1]
  BY <1>1, <1>2, RestOfSeq DEF AreApart
<1>4. PICK i \in at : Active = docs[i]
  BY <1>1, <1>2, <1>3
<1> QED BY <1>4 DEF SessionsInv, AreApart

(* A save begins.                                                            *)
LEMMA SaveBegins ==
    ASSUME SessionsInv, HasActive, NEW then, then.do = "close" => then.stamp = active,
           SaveThen(then)
    PROVE  SessionsInv' /\ docs' = docs
<1> DEFINE c == [Call("inspect") EXCEPT !.doc = Active, !.then = then, !.reply = At(Active.path)]
<1>1. IsCall(c) /\ c.kind = "inspect" /\ c.doc = Active /\ c.then = then
  BY DEF Call, IsCall
<1>2. docs' = docs /\ calls' = Append(calls, c) /\ opened' = opened
  BY DEF SaveThen, screen
<1> HIDE DEF c
<1>3. IsInOrder(c, docs)
  BY <1>1, ActiveIsASession DEF IsInOrder
<1>4. AreInOrder(Append(calls, c), docs)
  BY <1>3, MoreInOrder DEF SessionsInv
<1> QED BY <1>2, <1>4 DEF SessionsInv

(* What was asked goes on: unsaved work stays, if what is to be closed is    *)
(* clean.                                                                    *)
LEMMA GoingOn ==
    ASSUME SessionsInv, NEW then, NEW q, AreInOrder(q, docs), Goes(then, q),
           then.do = "close" => \A i \in DOMAIN docs : docs[i].id = then.stamp => ~docs[i].dirty
    PROVE  SessionsInv' /\ AllStay(docs', 0) /\ NoneNew(docs')
<1>0. opened \in Nat /\ AreApart(docs, opened)
  BY DEF SessionsInv
<1>1. CASE docs' = docs /\ opened' = opened /\ calls' = q
  BY <1>1, SameDocsStay DEF SessionsInv
<1>2. CASE /\ then.do = "open"
           /\ Opens(NewDoc(then.path, "loading", then.stamp, None), q)
  <2> DEFINE d == NewDoc(then.path, "loading", then.stamp, None)
             ds == OpenDocument(d)
  <2>1. AreApart(ds, opened + 1) /\ NoneNew(ds) /\ AllStay(ds, 0)
    BY <1>0, OpenedStays
  <2> HIDE DEF ds
  <2>2. Become(ds, OpenedId(d), tree, q) /\ opened' = opened + 1
    BY <1>2 DEF Opens, ds
  <2>3. AreInOrder(q, ds)
    BY <2>1, StillInOrder
  <2> HIDE DEF d
  <2>4. opened' \in Nat /\ AreApart(ds, opened')
    BY <1>0, <2>1, <2>2
  <2>5. docs' = ds /\ SessionsInv'
    BY <2>2, <2>3, <2>4, Becomes
  <2> QED BY <2>1, <2>5
<1>3. CASE /\ docs' = docs /\ opened' = opened
           /\ \E p, reply : calls' = Append(q, [Call("link") EXCEPT !.path = p, !.reply = reply])
  <2>1. PICK p, reply : calls' = Append(q, [Call("link") EXCEPT !.path = p, !.reply = reply])
    BY <1>3
  <2> DEFINE c == [Call("link") EXCEPT !.path = p, !.reply = reply]
  <2>2. IsCall(c) /\ c.kind = "link"
    BY DEF Call, IsCall
  <2> HIDE DEF c
  <2>3. AreInOrder(Append(q, c), docs)
    BY <2>2, OtherCallInOrder, MoreInOrder
  <2> QED BY <1>0, <1>3, <2>1, <2>3, SameDocsStay DEF SessionsInv, c
<1>4. CASE /\ docs' = docs /\ opened' = opened
           /\ \E p, reply : calls' = Append(q, [Call("create") EXCEPT !.path = p, !.reply = reply])
  <2>1. PICK p, reply : calls' = Append(q, [Call("create") EXCEPT !.path = p, !.reply = reply])
    BY <1>4
  <2> DEFINE c == [Call("create") EXCEPT !.path = p, !.reply = reply]
  <2>2. IsCall(c) /\ c.kind = "create"
    BY DEF Call, IsCall
  <2> HIDE DEF c
  <2>3. AreInOrder(Append(q, c), docs)
    BY <2>2, OtherCallInOrder, MoreInOrder
  <2> QED BY <1>0, <1>4, <2>1, <2>3, SameDocsStay DEF SessionsInv, c
<1>5. CASE /\ then.do = "close" /\ DocsBecome(Without(then.stamp), q) /\ opened' = opened
  <2> DEFINE ds == Without(then.stamp)
  <2>1. AreApart(ds, opened) /\ NoneNew(ds) /\ AllStay(ds, then.stamp)
    BY <1>0, WithoutStays
  <2> HIDE DEF ds
  <2>2. AllStay(ds, 0)
    BY <1>5, <2>1 DEF AllStay
  <2>3. AreInOrder(q, ds)
    BY <2>1, StillInOrder
  <2>4. docs' = ds /\ SessionsInv'
    BY <1>0, <1>5, <2>1, <2>3, DocsOnlyBecome DEF ds
  <2> QED BY <2>1, <2>2, <2>4
<1> QED BY <1>1, <1>2, <1>3, <1>4, <1>5 DEF Goes, screen

LEMMA TransitionStays ==
    ASSUME SessionsInv, NEW then, then.do # "close", Transition(then)
    PROVE  SessionsInv' /\ AllStay(docs', 0) /\ NoneNew(docs')
<1>1. CASE HasActive /\ Active.dirty
  BY <1>1, SaveBegins, SameDocsStay DEF Transition
<1>2. CASE ~(HasActive /\ Active.dirty)
  <2>1. AreInOrder(calls, docs)
    BY DEF SessionsInv
  <2> QED BY <1>2, <2>1, GoingOn DEF Transition
<1> QED BY <1>1, <1>2

LEMMA PersonStep ==
    ASSUME SessionsInv, Person
    PROVE  SessionsInv' /\ UnsavedStays /\ (NoneNew(docs') \/ Edit)
<1>0. opened \in Nat /\ AreApart(docs, opened) /\ AreInOrder(calls, docs)
  BY DEF SessionsInv
<1>1. ASSUME AllStay(docs', 0), SessionsInv', NoneNew(docs')
      PROVE  SessionsInv' /\ UnsavedStays
  BY <1>1, AllStayed
<1>2. ASSUME NEW p \in Files, OpenEntry(p) \/ OpenLink(p)
      PROVE  SessionsInv' /\ UnsavedStays /\ (NoneNew(docs') \/ Edit)
  <2> DEFINE open == [do |-> "open", path |-> p, stamp |-> tree[p]]
             link == [do |-> "link", path |-> p, stamp |-> None]
  <2>1. Transition(open) \/ Transition(link)
    BY <1>2 DEF OpenEntry, OpenLink
  <2>2. open.do # "close" /\ link.do # "close"
    OBVIOUS
  <2> HIDE DEF open, link
  <2> QED BY <1>1, <2>1, <2>2, TransitionStays
<1>3. ASSUME NEW p \in Folders \cup {<<>>}, CreateDocument(p)
      PROVE  SessionsInv' /\ UnsavedStays /\ (NoneNew(docs') \/ Edit)
  <2> DEFINE then == [do |-> "create", path |-> p, stamp |-> None]
  <2>1. Transition(then) /\ then.do # "close"
    BY <1>3 DEF CreateDocument
  <2> HIDE DEF then
  <2> QED BY <1>1, <2>1, TransitionStays
<1>4. ASSUME NEW p \in Path, NEW to \in Path, Rename(p, to) \/ Move(p, to)
      PROVE  SessionsInv' /\ UnsavedStays /\ (NoneNew(docs') \/ Edit)
  <2> DEFINE c == [Call("remap") EXCEPT !.path = p, !.to = to]
  <2>1. IsCall(c) /\ c.kind = "remap"
    BY DEF Call, IsCall
  <2> HIDE DEF c
  <2>2. docs' = docs /\ opened' = opened /\ calls' = Append(calls, c)
    BY <1>4 DEF Rename, Move, Relocates, screen, c
  <2>3. AreInOrder(Append(calls, c), docs)
    BY <1>0, <2>1, OtherCallInOrder, MoreInOrder
  <2> QED BY <1>0, <1>1, <2>2, <2>3, SameDocsStay DEF SessionsInv
<1>5. ASSUME NEW p \in Path, Trash(p)
      PROVE  SessionsInv' /\ UnsavedStays /\ (NoneNew(docs') \/ Edit)
  <2> DEFINE ids == {docs[i].id : i \in {j \in DOMAIN docs : IsPrefix(p, docs[j].path)}}
             c == [Call("trash") EXCEPT !.ids = ids]
  <2>1. docs' = docs /\ opened' = opened /\ calls' = Append(calls, c)
    BY <1>5 DEF Trash, screen
  <2>2. IsCall(c) /\ c.kind = "trash"
    BY DEF Call, IsCall
  <2> HIDE DEF c
  <2>3. AreInOrder(Append(calls, c), docs)
    BY <1>0, <2>2, OtherCallInOrder, MoreInOrder
  <2> QED BY <1>0, <1>1, <2>1, <2>3, SameDocsStay DEF SessionsInv
<1>6. CASE Save
  <2>1. Stay.do # "close" /\ HasActive /\ SaveThen(Stay)
    BY <1>6 DEF Save, Stay
  <2> QED BY <1>1, <2>1, SaveBegins, SameDocsStay
<1>7. CASE CloseSaving
  <2> DEFINE then == [do |-> "close", path |-> <<>>, stamp |-> active]
  <2>1. then.stamp = active /\ HasActive /\ SaveThen(then)
    BY <1>7 DEF CloseSaving
  <2> HIDE DEF then
  <2> QED BY <1>1, <2>1, SaveBegins, SameDocsStay
<1>8. CASE Close
  <2>1. DocsBecome(Without(active), calls) /\ opened' = opened
    BY <1>8 DEF Close
  <2>2. AreApart(Without(active), opened) /\ NoneNew(Without(active)) /\ AllStay(Without(active), active)
    BY <1>0, WithoutStays
  <2>3. AreInOrder(calls, Without(active))
    BY <1>0, <2>2, StillInOrder
  <2>4. docs' = Without(active) /\ SessionsInv'
    BY <1>0, <2>1, <2>2, <2>3, DocsOnlyBecome
  <2>5. UnsavedStays
    BY <1>8, <2>2, <2>4 DEF UnsavedStays, AllStay
  <2> QED BY <2>2, <2>4, <2>5
<1>9. CASE Reload
  <2> DEFINE c == [Call("reload") EXCEPT !.doc = Active, !.reply = At(Active.path)]
  <2>1. docs' = docs /\ opened' = opened /\ calls' = Append(calls, c)
    BY <1>9 DEF Reload, screen
  <2>2. IsCall(c) /\ c.kind = "reload"
    BY DEF Call, IsCall
  <2> HIDE DEF c
  <2>3. AreInOrder(Append(calls, c), docs)
    BY <1>0, <2>2, OtherCallInOrder, MoreInOrder
  <2> QED BY <1>0, <1>1, <2>1, <2>3, SameDocsStay DEF SessionsInv
<1>10. CASE RefreshWorkspace
  <2> DEFINE c == Refresh(Stay)
  <2>1. docs' = docs /\ opened' = opened /\ calls' = Append(calls, c)
    BY <1>10 DEF RefreshWorkspace, screen
  <2>2. IsCall(c) /\ c.kind = "refresh"
    BY DEF Refresh, Call, IsCall
  <2> HIDE DEF c
  <2>3. AreInOrder(Append(calls, c), docs)
    BY <1>0, <2>2, OtherCallInOrder, MoreInOrder
  <2> QED BY <1>0, <1>1, <2>1, <2>3, SameDocsStay DEF SessionsInv
<1>11. CASE Edit
  <2>1. /\ docs' = [i \in DOMAIN docs |-> docs'[i]]
        /\ \A i \in DOMAIN docs :
             docs'[i] = IF docs[i].id = active THEN [docs[i] EXCEPT !.dirty = TRUE] ELSE docs[i]
        /\ opened' = opened /\ calls' = calls
    BY <1>11 DEF Edit, Each, Only, sent
  <2>2. \A i \in DOMAIN docs :
          /\ IsDoc(docs'[i]) /\ docs'[i].id = docs[i].id
          /\ docs[i].dirty => docs'[i].dirty
          /\ docs[i].id # active => docs'[i].dirty = docs[i].dirty
    BY <1>0, <2>1 DEF AreApart, IsDoc
  <2>3. AreApart(docs', opened)
    BY <1>0, <2>1, <2>2, ChangedAreApart
  <2>4. AreInOrder(calls, docs')
    <3> SUFFICES ASSUME NEW n \in DOMAIN calls, calls[n].kind = "clear",
                        NEW i \in DOMAIN docs', docs'[i].id = calls[n].doc.id, docs'[i].dirty
                 PROVE  FALSE
      BY <1>0 DEF AreInOrder, IsInOrder
    <3>1. calls[n].doc.id # active
      BY <1>11 DEF Edit, sent
    <3>2. i \in DOMAIN docs
      BY <2>1
    <3> QED BY <1>0, <2>2, <3>1, <3>2 DEF AreInOrder, IsInOrder
  <2>5. UnsavedStays
    BY <2>1, <2>2 DEF UnsavedStays
  <2> QED BY <1>0, <1>11, <2>1, <2>3, <2>4, <2>5 DEF SessionsInv
<1> QED
  BY <1>2, <1>3, <1>4, <1>5, <1>6, <1>7, <1>8, <1>9, <1>10, <1>11 DEF Person

-----------------------------------------------------------------------------
(* Replies *)

(* The documents become ds, of which none is dirty that was not; q waits.    *)
LEMMA DocsOnlyChange ==
    ASSUME SessionsInv, NEW ds, NEW q, AreApart(ds, opened), NoneNew(ds),
           AreInOrder(q, docs), DocsBecome(ds, q), opened' = opened
    PROVE  docs' = ds /\ SessionsInv' /\ NoneNew(docs')
<1>1. AreInOrder(q, ds)
  BY StillInOrder
<1>2. opened' \in Nat /\ AreApart(ds, opened')
  BY DEF SessionsInv
<1> QED BY <1>1, <1>2, DocsOnlyBecome

LEMMA CallsOnlyChange ==
    ASSUME SessionsInv, docs' = docs, opened' = opened, AreInOrder(calls', docs)
    PROVE  SessionsInv' /\ UnsavedStays /\ NoneNew(docs')
BY SameDocsStay, AllStayed DEF SessionsInv

LEMMA LoadedStep ==
    ASSUME SessionsInv, Loaded
    PROVE  SessionsInv' /\ UnsavedStays /\ NoneNew(docs')
<1> DEFINE c == Head(calls)
           q == Tail(calls)
           ds == IF c.reply \in {Gone, Folder} THEN SetStatus({c.doc.id}, "error")
                 ELSE SetModel(c.doc.id, c.reply)
<1>1. AreInOrder(q, docs) /\ AreApart(docs, opened)
  BY RestInOrder DEF SessionsInv, Loaded, Replied
<1>2. DocsBecome(ds, q) /\ opened' = opened
  BY DEF Loaded
<1>3. AreApart(ds, opened) /\ NoneNew(ds) /\ AllStay(ds, 0)
  BY <1>1, StatusStays, ModelStays
<1> HIDE DEF ds, q
<1> QED BY <1>1, <1>2, <1>3, DocsOnlyChange, AllStayed

LEMMA InspectionStep ==
    ASSUME SessionsInv, InspectionFindsAChange
    PROVE  SessionsInv' /\ UnsavedStays /\ NoneNew(docs')
<1> DEFINE c == Head(calls)
           q == Tail(calls)
           ds == Each(LAMBDA d : Only(c.doc.id, d,
                          IF c.reply = Gone THEN [d EXCEPT !.status = "missing"]
                          ELSE IF c.reply = d.source /\ d.status # "missing" THEN d
                          ELSE Changed(d, c.reply)))
           stay == {i \in DOMAIN ds :
                      ds[i].status # "missing" \/ ds[i].dirty \/ ds[i].id # c.doc.id}
           kept == Kept(ds, stay)
<1>1. AreInOrder(q, docs) /\ AreApart(docs, opened)
  BY RestInOrder DEF SessionsInv, InspectionFindsAChange, Replied
<1>2. DocsBecome(kept, q) /\ opened' = opened
  BY DEF InspectionFindsAChange
<1>3. /\ ds = [i \in DOMAIN docs |-> ds[i]]
      /\ \A i \in DOMAIN docs :
           ds[i] = IF docs[i].id # c.doc.id THEN docs[i]
                   ELSE IF c.reply = Gone THEN [docs[i] EXCEPT !.status = "missing"]
                   ELSE IF c.reply = docs[i].source /\ docs[i].status # "missing" THEN docs[i]
                   ELSE Changed(docs[i], c.reply)
  BY DEF Each, Only
<1> HIDE DEF ds
<1>4. \A i \in DOMAIN docs : IsDoc(ds[i]) /\ ds[i].id = docs[i].id
                              /\ ds[i].dirty = docs[i].dirty
  <2> SUFFICES ASSUME NEW i \in DOMAIN docs
               PROVE  IsDoc(ds[i]) /\ ds[i].id = docs[i].id /\ ds[i].dirty = docs[i].dirty
    OBVIOUS
  <2> DEFINE d == docs[i]
             missing == [d EXCEPT !.status = "missing"]
             changed == Changed(d, c.reply)
  <2>1. IsDoc(d)
    BY <1>1 DEF AreApart
  <2>2. IsDoc(missing) /\ missing.id = d.id /\ missing.dirty = d.dirty
    BY <2>1 DEF IsDoc
  <2>3. IsDoc(changed) /\ changed.id = d.id /\ changed.dirty = d.dirty
    BY <2>1 DEF IsDoc, Changed
  <2>4. ds[i] \in {d, missing, changed}
    BY <1>3
  <2> HIDE DEF missing, changed
  <2> QED BY <2>1, <2>2, <2>3, <2>4
<1>5. AreApart(ds, opened) /\ NoneNew(ds) /\ AllStay(ds, 0)
  BY <1>1, <1>3, <1>4, ChangeOfEach
<1>6. /\ AreApart(kept, opened)
      /\ \A n \in DOMAIN kept : \E i \in stay : kept[n] = ds[i]
      /\ \A i \in stay : \E n \in DOMAIN kept : kept[n] = ds[i]
  <2>1. stay \in SUBSET DOMAIN ds
    OBVIOUS
  <2> HIDE DEF stay
  <2> QED BY <1>5, <2>1, KeptAreApart
<1>7. NoneNew(kept)
  BY <1>5, <1>6 DEF NoneNew
<1>8. AllStay(kept, 0)
  <2> SUFFICES ASSUME NEW i \in DOMAIN docs, docs[i].dirty, docs[i].id # 0
               PROVE  \E j \in DOMAIN kept : kept[j].id = docs[i].id /\ kept[j].dirty
    BY DEF AllStay
  <2>1. PICK j \in DOMAIN ds : ds[j].id = docs[i].id /\ ds[j].dirty
    BY <1>5 DEF AllStay
  <2>2. PICK n \in DOMAIN kept : kept[n] = ds[j]
    BY <1>6, <2>1
  <2> HIDE DEF kept
  <2> QED BY <2>1, <2>2
<1> HIDE DEF kept, q
<1> QED BY <1>1, <1>2, <1>6, <1>7, <1>8, DocsOnlyChange, AllStayed

LEMMA WritesStep ==
    ASSUME SessionsInv, Writes
    PROVE  SessionsInv' /\ UnsavedStays /\ NoneNew(docs')
<1> DEFINE c == Head(calls)
           q == Tail(calls)
           w == [c EXCEPT !.kind = "write", !.reply = stamps']
<1>1. AreInOrder(q, docs) /\ IsInOrder(c, docs) /\ c.kind = "inspect"
  BY RestInOrder DEF SessionsInv, Writes, Replied
<1>2. docs' = docs /\ opened' = opened /\ calls' \in {q, Append(q, w)}
  BY DEF Writes, screen
<1> HIDE DEF q, c
<1>3. IsCall(w) /\ w.kind = "write" /\ w.doc = c.doc /\ w.then = c.then
  BY <1>1 DEF IsInOrder, IsCall
<1> HIDE DEF w
<1>4. IsInOrder(w, docs)
  BY <1>1, <1>3 DEF IsInOrder
<1>5. AreInOrder(Append(q, w), docs)
  BY <1>1, <1>4, MoreInOrder
<1> QED BY <1>1, <1>2, <1>5, CallsOnlyChange

LEMMA WrittenStep ==
    ASSUME SessionsInv, Written
    PROVE  SessionsInv' /\ UnsavedStays /\ NoneNew(docs')
<1> DEFINE c == Head(calls)
           q == Tail(calls)
           w == [c EXCEPT !.kind = "reinspect", !.reply = At(c.doc.path), !.doc.shows = c.reply]
<1>1. AreInOrder(q, docs) /\ IsInOrder(c, docs) /\ c.kind = "write"
  BY RestInOrder DEF SessionsInv, Written, Replied
<1>2. docs' = docs /\ opened' = opened /\ calls' = Append(q, w)
  BY DEF Written, screen
<1> HIDE DEF q, c
<1>3. IsCall(w) /\ w.kind = "reinspect" /\ IsDoc(w.doc) /\ w.doc.id = c.doc.id /\ w.then = c.then
  BY <1>1 DEF IsInOrder, IsCall, IsDoc
<1> HIDE DEF w
<1>4. IsInOrder(w, docs)
  BY <1>1, <1>3 DEF IsInOrder
<1>5. AreInOrder(Append(q, w), docs)
  BY <1>1, <1>4, MoreInOrder
<1> QED BY <1>1, <1>2, <1>5, CallsOnlyChange

LEMMA SavedStep ==
    ASSUME SessionsInv, Saved
    PROVE  SessionsInv' /\ UnsavedStays /\ NoneNew(docs')
<1> DEFINE c == Head(calls)
           q == Tail(calls)
           w == [c EXCEPT !.kind = "clear"]
           source == IF c.reply = Gone THEN None ELSE c.reply
           ds == MarkSaved(c.doc.id, source, c.doc.shows)
<1>1. AreInOrder(q, docs) /\ IsInOrder(c, docs) /\ c.kind = "reinspect" /\ AreApart(docs, opened)
  BY RestInOrder DEF SessionsInv, Saved, Replied
<1>2. DocsBecome(ds, Append(q, w)) /\ opened' = opened
  BY DEF Saved
<1>3. /\ AreApart(ds, opened) /\ NoneNew(ds) /\ AllStay(ds, c.doc.id)
      /\ \A i \in DOMAIN ds : ds[i].id = c.doc.id => ~ds[i].dirty
  BY <1>1, SavedOnly
<1> HIDE DEF ds, source, q, c
<1>4. IsCall(w) /\ w.kind = "clear" /\ w.doc = c.doc /\ w.then = c.then
  BY <1>1 DEF IsInOrder, IsCall
<1> HIDE DEF w
<1>5. IsInOrder(w, ds)
  BY <1>1, <1>3, <1>4 DEF IsInOrder
<1>6. AreInOrder(Append(q, w), ds)
  BY <1>1, <1>3, <1>5, StillInOrder, MoreInOrder
<1>7. docs' = ds /\ SessionsInv'
  BY <1>2, <1>3, <1>6, DocsOnlyBecome DEF SessionsInv
<1>8. UnsavedStays
  BY <1>3, <1>7 DEF UnsavedStays, AllStay, c
<1> QED BY <1>3, <1>7, <1>8

LEMMA ReloadedStep ==
    ASSUME SessionsInv, Reloaded
    PROVE  SessionsInv' /\ UnsavedStays /\ NoneNew(docs')
<1> DEFINE c == Head(calls)
           q == Tail(calls)
           ds == Each(LAMBDA d : Only(c.doc.id, d,
                          [d EXCEPT !.status = "editable", !.dirty = FALSE,
                                    !.source = c.reply, !.shows = c.reply]))
<1>1. AreInOrder(q, docs) /\ AreApart(docs, opened)
  BY RestInOrder DEF SessionsInv, Reloaded, Replied
<1>2. CASE calls' = q /\ docs' = docs /\ opened' = opened
  BY <1>1, <1>2, CallsOnlyChange
<1>3. CASE DocsBecome(ds, q) /\ opened' = opened
  <2>1. /\ ds = [i \in DOMAIN docs |-> ds[i]]
        /\ \A i \in DOMAIN docs :
             ds[i] = IF docs[i].id # c.doc.id THEN docs[i]
                     ELSE [docs[i] EXCEPT !.status = "editable", !.dirty = FALSE,
                                          !.source = c.reply, !.shows = c.reply]
    BY DEF Each, Only
  <2> HIDE DEF ds
  <2>2. \A i \in DOMAIN docs :
          /\ IsDoc(ds[i]) /\ ds[i].id = docs[i].id
          /\ ds[i].dirty => docs[i].dirty
          /\ docs[i].id # c.doc.id => ds[i].dirty = docs[i].dirty
    BY <1>1, <2>1 DEF AreApart, IsDoc
  <2>3. AreApart(ds, opened) /\ NoneNew(ds) /\ AllStay(ds, c.doc.id)
    BY <1>1, <2>1, <2>2, ChangeOfEach
  <2> HIDE DEF q, c
  <2>4. docs' = ds /\ SessionsInv' /\ NoneNew(docs')
    BY <1>1, <1>3, <2>3, DocsOnlyChange
  <2>5. UnsavedStays
    BY <2>3, <2>4 DEF UnsavedStays, AllStay, c
  <2> QED BY <2>4, <2>5
<1> QED BY <1>2, <1>3 DEF Reloaded, screen

LEMMA GoesOnStep ==
    ASSUME SessionsInv, GoesOn
    PROVE  SessionsInv' /\ UnsavedStays /\ NoneNew(docs')
<1>1. /\ AreInOrder(Tail(calls), docs) /\ IsInOrder(Head(calls), docs)
      /\ Head(calls).kind = "clear"
  BY RestInOrder DEF SessionsInv, GoesOn, Replied
<1>2. Goes(Head(calls).then, Tail(calls))
  BY DEF GoesOn
<1>3. Head(calls).then.do = "close" =>
        \A i \in DOMAIN docs : docs[i].id = Head(calls).then.stamp => ~docs[i].dirty
  BY <1>1 DEF IsInOrder
<1> QED BY <1>1, <1>2, <1>3, GoingOn, AllStayed

(* A session is opened, and a tree may be shown.                             *)
LEMMA OpeningStep ==
    ASSUME SessionsInv, NEW p, NEW status, NEW stamp, NEW shows, NEW ac, NEW tr, NEW q,
           AreInOrder(q, docs), opened' = opened + 1,
           Become(OpenDocument(NewDoc(p, status, stamp, shows)), ac, tr, q)
    PROVE  SessionsInv' /\ UnsavedStays /\ NoneNew(docs')
<1> DEFINE ds == OpenDocument(NewDoc(p, status, stamp, shows))
<1>1. AreApart(ds, opened + 1) /\ NoneNew(ds) /\ AllStay(ds, 0)
  BY OpenedStays DEF SessionsInv
<1> HIDE DEF ds
<1>2. AreInOrder(q, ds)
  BY <1>1, StillInOrder
<1>3. opened' \in Nat /\ AreApart(ds, opened')
  BY <1>1 DEF SessionsInv
<1>4. docs' = ds /\ SessionsInv'
  BY <1>2, <1>3, Becomes DEF ds
<1> QED BY <1>1, <1>4, AllStayed

LEMMA LinkReadStep ==
    ASSUME SessionsInv, LinkRead
    PROVE  SessionsInv' /\ UnsavedStays /\ NoneNew(docs')
<1> DEFINE c == Head(calls)
           d == NewDoc(c.path, "editable", c.reply, c.reply)
<1>1. AreInOrder(Tail(calls), docs)
  BY RestInOrder DEF SessionsInv, LinkRead, Replied
<1>2. CASE calls' = Tail(calls) /\ docs' = docs /\ opened' = opened
  BY <1>1, <1>2, CallsOnlyChange
<1>3. CASE Become(OpenDocument(d), OpenedId(d), tree, Tail(calls)) /\ opened' = opened + 1
  <2> DEFINE ac == OpenedId(d)
  <2> HIDE DEF ac
  <2> QED BY <1>1, <1>3, OpeningStep DEF ac
<1> QED BY <1>2, <1>3 DEF LinkRead, Opens, screen

(* The handlers that refresh the tree in the end.                            *)
LEMMA RefreshInOrder ==
    ASSUME NEW ds, NEW q, AreInOrder(q, ds), NEW then
    PROVE  AreInOrder(Append(q, Refresh(then)), ds)
<1> DEFINE c == Refresh(then)
<1>1. IsCall(c) /\ c.kind = "refresh"
  BY DEF Refresh, Call, IsCall
<1> HIDE DEF c
<1>2. AreInOrder(Append(q, c), ds)
  BY <1>1, OtherCallInOrder, MoreInOrder
<1> QED BY <1>2 DEF c

LEMMA CreatedStep ==
    ASSUME SessionsInv, Created
    PROVE  SessionsInv' /\ UnsavedStays /\ NoneNew(docs')
<1> DEFINE then == [do |-> "open", path |-> Head(calls).path, stamp |-> Head(calls).reply]
<1>1. AreInOrder(Tail(calls), docs)
  BY RestInOrder DEF SessionsInv, Created, Replied
<1>2. calls' = Append(Tail(calls), Refresh(then)) /\ docs' = docs /\ opened' = opened
  BY DEF Created, screen
<1> HIDE DEF then
<1>3. AreInOrder(calls', docs)
  BY <1>1, <1>2, RefreshInOrder
<1> QED BY <1>2, <1>3, CallsOnlyChange

LEMMA RemappedStep ==
    ASSUME SessionsInv, Remapped
    PROVE  SessionsInv' /\ UnsavedStays /\ NoneNew(docs')
<1> DEFINE ds == RemapPaths(Head(calls).path, Head(calls).to)
           q == Append(Tail(calls), Refresh(Stay))
<1>1. AreInOrder(Tail(calls), docs) /\ AreApart(docs, opened)
  BY RestInOrder DEF SessionsInv, Remapped, Replied
<1>2. AreInOrder(q, docs)
  BY <1>1, RefreshInOrder
<1>3. Become(ds, active, tree, q) /\ opened' = opened
  BY DEF Remapped
<1>4. AreApart(ds, opened) /\ NoneNew(ds) /\ AllStay(ds, 0)
  BY <1>1, RemapStays
<1> HIDE DEF ds, q
<1>5. AreInOrder(q, ds)
  BY <1>2, <1>4, StillInOrder
<1>6. opened' \in Nat /\ AreApart(ds, opened')
  BY <1>3, <1>4 DEF SessionsInv
<1>7. docs' = ds /\ SessionsInv'
  BY <1>3, <1>5, <1>6, Becomes
<1> QED BY <1>4, <1>7, AllStayed

LEMMA TrashedStep ==
    ASSUME SessionsInv, Trashed
    PROVE  SessionsInv' /\ UnsavedStays /\ NoneNew(docs')
<1> DEFINE ds == SetStatus(Head(calls).ids, "missing")
           q == Append(Tail(calls), Refresh(Stay))
<1>1. AreInOrder(Tail(calls), docs) /\ AreApart(docs, opened)
  BY RestInOrder DEF SessionsInv, Trashed, Replied
<1>2. AreInOrder(q, docs)
  BY <1>1, RefreshInOrder
<1>3. DocsBecome(ds, q) /\ opened' = opened
  BY DEF Trashed
<1>4. AreApart(ds, opened) /\ NoneNew(ds) /\ AllStay(ds, 0)
  BY <1>1, StatusStays
<1> HIDE DEF ds, q
<1> QED BY <1>2, <1>3, <1>4, DocsOnlyChange, AllStayed

LEMMA RefreshedStep ==
    ASSUME SessionsInv, Refreshed
    PROVE  SessionsInv' /\ UnsavedStays /\ NoneNew(docs')
<1> DEFINE c == Head(calls)
           d == NewDoc(c.then.path, "loading", c.then.stamp, None)
<1>1. AreInOrder(Tail(calls), docs) /\ opened \in Nat /\ AreApart(docs, opened)
  BY RestInOrder DEF SessionsInv, Refreshed, Replied
<1>2. CASE Become(docs, active, c.reply, Tail(calls)) /\ opened' = opened
  <2> DEFINE tr == c.reply
             q == Tail(calls)
  <2> HIDE DEF tr, q
  <2>1. docs' = docs /\ SessionsInv'
    BY <1>1, <1>2, Becomes DEF tr, q
  <2> QED BY <2>1, SameDocsStay, AllStayed
<1>3. CASE Become(OpenDocument(d), OpenedId(d), c.reply, Tail(calls)) /\ opened' = opened + 1
  <2> DEFINE ac == OpenedId(d)
             tr == c.reply
  <2> HIDE DEF ac, tr
  <2> QED BY <1>1, <1>3, OpeningStep DEF ac, tr
<1> QED BY <1>2, <1>3 DEF Refreshed

LEMMA RepliesStep ==
    ASSUME SessionsInv, Replies
    PROVE  SessionsInv' /\ UnsavedStays /\ NoneNew(docs')
BY LoadedStep, InspectionStep, WritesStep, WrittenStep, SavedStep, GoesOnStep, LinkReadStep,
   CreatedStep, ReloadedStep, RemappedStep, TrashedStep, RefreshedStep DEF Replies

-----------------------------------------------------------------------------
(* The watcher and other programs *)

LEMMA DeliverStep ==
    ASSUME SessionsInv, Deliver
    PROVE  SessionsInv' /\ UnsavedStays /\ NoneNew(docs')
<1> DEFINE e == Head(events)
           ds == DocsAfter(e)
           tr == TreeAfter(e)
           q == [i \in DOMAIN calls |->
                   IF calls[i].kind = "refresh" /\ calls[i].ahead > 0
                     THEN [calls[i] EXCEPT !.ahead = @ - 1] ELSE calls[i]]
<1>1. AreInOrder(calls, docs) /\ AreApart(docs, opened) /\ opened \in Nat
  BY DEF SessionsInv
<1>2. Become(ds, active, tr, q) /\ opened' = opened
  BY DEF Deliver, counts
<1>3. AreApart(ds, opened) /\ NoneNew(ds) /\ AllStay(ds, 0)
  BY <1>1, DocsAfterStay
<1>4. AreInOrder(q, docs)
  <2>1. \A i \in DOMAIN calls : IsInOrder(q[i], docs)
    <3> SUFFICES ASSUME NEW i \in DOMAIN calls, calls[i].kind = "refresh"
                 PROVE  IsInOrder([calls[i] EXCEPT !.ahead = @ - 1], docs)
      BY <1>1 DEF AreInOrder
    <3> DEFINE w == [calls[i] EXCEPT !.ahead = @ - 1]
    <3>1. IsCall(w) /\ w.kind = "refresh"
      BY <1>1 DEF AreInOrder, IsInOrder, IsCall
    <3> HIDE DEF w
    <3>2. IsInOrder(w, docs)
      BY <3>1, OtherCallInOrder
    <3> QED BY <3>2 DEF w
  <2>2. Len(calls) \in Nat /\ DOMAIN calls = 1 .. Len(calls)
    BY <1>1, ElementsOfSeq DEF AreInOrder
  <2>3. DOMAIN q = DOMAIN calls /\ q = [i \in DOMAIN calls |-> q[i]]
    OBVIOUS
  <2> HIDE DEF q
  <2>4. q \in Seq({q[i] : i \in DOMAIN calls})
    BY <2>2, <2>3
  <2>5. IsSeq(q)
    BY <2>4, SeqOfItself
  <2> QED BY <2>1, <2>3, <2>5 DEF AreInOrder
<1> HIDE DEF ds, tr, q
<1>5. AreInOrder(q, ds)
  BY <1>3, <1>4, StillInOrder
<1>6. docs' = ds /\ SessionsInv'
  BY <1>1, <1>2, <1>3, <1>5, Becomes
<1> QED BY <1>3, <1>6, AllStayed

(* What leaves the store and its handlers alone.                             *)
LEMMA SameSessions ==
    ASSUME SessionsInv, docs' = docs, calls' = calls, opened' = opened
    PROVE  SessionsInv' /\ UnsavedStays /\ NoneNew(docs')
BY CallsOnlyChange DEF SessionsInv

LEMMA WatcherStep ==
    ASSUME SessionsInv, Watcher
    PROVE  SessionsInv' /\ UnsavedStays /\ NoneNew(docs')
<1>1. CASE Deliver
  BY <1>1, DeliverStep
<1>2. CASE ~Deliver
  <2>1. docs' = docs /\ calls' = calls /\ opened' = opened
    BY <1>2 DEF Watcher, NoticeSuppressed, NoticeOfChange, HalfGone, Paired, PairedTooLate,
       HalfAlone, HalfTimesOut, WriteForgotten, HalfThere, WatcherLeaves, screen, counts, sent
  <2> QED BY <2>1, SameSessions
<1> QED BY <1>1, <1>2

LEMMA OthersStep ==
    ASSUME SessionsInv, Others
    PROVE  SessionsInv' /\ UnsavedStays /\ NoneNew(docs')
<1>1. docs' = docs /\ calls' = calls /\ opened' = opened
  BY DEF Others, OthersWrite, OthersCreate, OthersRemove, OthersRename, OthersMoveOut,
     OthersMoveIn, OthersDo, screen, sent
<1> QED BY <1>1, SameSessions

-----------------------------------------------------------------------------
LEMMA InitSessions == Init => SessionsInv
<1> SUFFICES ASSUME Init PROVE SessionsInv
  OBVIOUS
<1>1. docs = <<>> /\ calls = <<>> /\ opened = 0
  BY DEF Init
<1>2. IsSeq(<<>>)
  BY DEF IsSeq
<1> QED BY <1>1, <1>2 DEF SessionsInv, AreApart, AreInOrder

LEMMA SessionsStep ==
    ASSUME SessionsInv, [Next]_vars
    PROVE  SessionsInv' /\ (vars' # vars => UnsavedStays) /\ (NoneNew(docs') \/ Edit)
<1>1. CASE Next
  BY <1>1, PersonStep, RepliesStep, WatcherStep, OthersStep DEF Next
<1>2. CASE UNCHANGED vars
  BY <1>2, SameSessions DEF vars, screen, counts, sent
<1> QED BY <1>1, <1>2

(* The store's sessions have numbers of their own, and a save that is under  *)
(* way leaves its session clean until what was asked goes on.                *)
THEOREM SessionsHold == Spec => []SessionsInv
<1>1. SessionsInv /\ [Next]_vars => SessionsInv'
  BY SessionsStep
<1> QED BY InitSessions, <1>1, PTL DEF Spec

(* Unsaved work leaves the store only by a Save or a Reload of that session, *)
(* or when the person closes it.                                             *)
THEOREM UnsavedIsKept == Spec => UnsavedWorkStays
<1>1. SessionsInv /\ [Next]_vars => [UnsavedStays]_vars
  BY SessionsStep
<1>2. [][UnsavedStays]_vars => UnsavedWorkStays
  BY DEF UnsavedStays, UnsavedWorkStays
<1> QED BY SessionsHold, <1>1, <1>2, PTL DEF Spec

-----------------------------------------------------------------------------
(* Types *)

Disks(k) == [Path -> {Gone, Folder} \cup 1 .. k]
Marks(k) == [Path -> {None} \cup 1 .. k]
IsEntry(entry, k) ==
    entry = None \/ \A q \in DOMAIN entry : entry[q] \in {Gone, Folder} \cup 1 .. k
AreTyped(q, k) ==
    IsSeq(q) /\ \A n \in DOMAIN q : q[n].kind = "refresh" => q[n].reply \in Disks(k)

FilesTyped ==
    /\ stamps \in Nat
    /\ disk \in Disks(stamps)
    /\ expected \in Marks(stamps)
EventsTyped == IsSeq(events) /\ \A n \in DOMAIN events : IsEntry(events[n].entry, stamps)
ScreenTyped ==
    /\ tree \in Disks(stamps)
    /\ AreTyped(calls, stamps)
    /\ active # 0 => HasActive

TypesInv == FilesTyped /\ EventsTyped /\ ScreenTyped

LEMMA MoreStamps ==
    ASSUME NEW k \in Nat, NEW m \in Nat, k <= m
    PROVE  /\ Disks(k) \subseteq Disks(m) /\ Marks(k) \subseteq Marks(m)
           /\ \A entry : IsEntry(entry, k) => IsEntry(entry, m)
           /\ \A q : AreTyped(q, k) => AreTyped(q, m)
<1>1. 1 .. k \subseteq 1 .. m
  OBVIOUS
<1>2. Disks(k) \subseteq Disks(m) /\ Marks(k) \subseteq Marks(m)
  BY <1>1 DEF Disks, Marks
<1>3. \A entry : IsEntry(entry, k) => IsEntry(entry, m)
  BY <1>1 DEF IsEntry
<1> QED BY <1>2, <1>3 DEF AreTyped

(* What other programs and the commands make of the disk.                    *)
LEMMA PruneTyped ==
    ASSUME NEW k, NEW held \in Disks(k), NEW p
    PROVE  Prune(held, p) \in Disks(k)
BY DEF Prune, Disks

LEMMA RenamedTyped ==
    ASSUME NEW k, NEW held \in Disks(k), NEW p, NEW to
    PROVE  Renamed(held, p, to) \in Disks(k)
<1>1. Prune(held, p) \in Disks(k)
  BY PruneTyped
<1> QED BY <1>1 DEF Renamed, Disks

LEMMA StampTyped ==
    ASSUME FilesTyped, NEW p
    PROVE  /\ stamps + 1 \in Nat
           /\ [disk EXCEPT ![p] = stamps + 1] \in Disks(stamps + 1)
           /\ expected \in Marks(stamps + 1)
           /\ [expected EXCEPT ![p] = stamps + 1] \in Marks(stamps + 1)
<1>1. stamps \in Nat /\ stamps + 1 \in Nat /\ stamps <= stamps + 1 /\ stamps + 1 \in 1 .. stamps + 1
  BY DEF FilesTyped
<1>2. disk \in Disks(stamps + 1) /\ expected \in Marks(stamps + 1)
  BY <1>1, MoreStamps DEF FilesTyped
<1> QED BY <1>1, <1>2 DEF Disks, Marks

FilesMove == FilesTyped' /\ stamps <= stamps'

LEMMA FilesStay ==
    FilesTyped /\ disk' = disk /\ stamps' = stamps /\ expected' = expected => FilesMove
BY DEF FilesTyped, FilesMove

LEMMA FilesStamped ==
    ASSUME FilesTyped, NEW p, stamps' = stamps + 1,
           disk' = [disk EXCEPT ![p] = stamps'],
           expected' \in {expected, [expected EXCEPT ![p] = stamps']}
    PROVE  FilesMove
<1>1. stamps <= stamps'
  BY DEF FilesTyped
<1> QED BY <1>1, StampTyped DEF FilesTyped, FilesMove

LEMMA FilesOfGoes ==
    ASSUME FilesTyped, NEW then, NEW q, Goes(then, q), expected' = expected
    PROVE  FilesMove
<1>1. CASE disk' = disk /\ stamps' = stamps
  BY <1>1, FilesStay
<1>2. CASE \E p : stamps' = stamps + 1 /\ disk' = [disk EXCEPT ![p] = stamps']
  BY <1>2, FilesStamped
<1> QED BY <1>1, <1>2 DEF Goes

LEMMA FilesOfTransition ==
    ASSUME FilesTyped, NEW then, Transition(then), expected' = expected
    PROVE  FilesMove
BY FilesOfGoes, FilesStay DEF Transition, SaveThen

LEMMA FilesOfPerson ==
    ASSUME FilesTyped, Person
    PROVE  FilesMove
<1>0. expected' = expected
  BY DEF Person, OpenEntry, OpenLink, CreateDocument, Rename, Move, Relocates, Trash, Save,
     CloseSaving, Close, Reload, RefreshWorkspace, Edit, PersonLeaves, watcher, sent
<1>1. ASSUME NEW p, OpenEntry(p) \/ OpenLink(p) \/ CreateDocument(p)
      PROVE  FilesMove
  <2>1. PICK then : Transition(then)
    BY <1>1 DEF OpenEntry, OpenLink, CreateDocument
  <2> QED BY <1>0, <2>1, FilesOfTransition
<1>2. ASSUME NEW p, NEW to, Relocates(p, to)
      PROVE  FilesMove
  BY <1>0, <1>2, RenamedTyped DEF Relocates, FilesTyped, FilesMove
<1>3. ASSUME NEW p, Trash(p)
      PROVE  FilesMove
  BY <1>0, <1>3, PruneTyped DEF Trash, FilesTyped, FilesMove
<1>4. CASE Save \/ CloseSaving \/ Close \/ Reload \/ RefreshWorkspace \/ Edit
  <2>1. disk' = disk /\ stamps' = stamps
    BY <1>4 DEF Save, CloseSaving, Close, Reload, RefreshWorkspace, Edit, SaveThen, sent
  <2> QED BY <1>0, <2>1, FilesStay
<1> QED BY <1>1, <1>2, <1>3, <1>4 DEF Person, Rename, Move

LEMMA FilesOfReplies ==
    ASSUME FilesTyped, Replies
    PROVE  FilesMove
<1>1. CASE Writes
  <2> DEFINE p == Head(calls).doc.path
  <2>1. CASE /\ stamps' = stamps + 1
             /\ disk' = [disk EXCEPT ![p] = stamps']
             /\ expected' = [expected EXCEPT ![p] = stamps']
    BY <2>1, FilesStamped
  <2>2. CASE /\ disk' = disk /\ stamps' = stamps
             /\ expected' = [q \in Path |-> IF q = p THEN None ELSE expected[q]]
    <3>1. expected' \in Marks(stamps)
      BY <2>2 DEF FilesTyped, Marks
    <3> QED BY <2>2, <3>1 DEF FilesTyped, FilesMove
  <2> QED BY <1>1, <2>1, <2>2 DEF Writes
<1>2. CASE GoesOn
  BY <1>2, FilesOfGoes DEF GoesOn
<1>3. CASE disk' = disk /\ stamps' = stamps /\ expected' = expected
  BY <1>3, FilesStay
<1> QED
  BY <1>1, <1>2, <1>3 DEF Replies, Loaded, InspectionFindsAChange, Written, Saved, LinkRead,
     Created, Reloaded, Remapped, Trashed, Refreshed, watcher

LEMMA FilesOfWatcher ==
    ASSUME FilesTyped, Watcher
    PROVE  FilesMove
<1>1. disk' = disk /\ stamps' = stamps
  BY DEF Watcher, NoticeSuppressed, NoticeOfChange, HalfGone, Paired, PairedTooLate,
     HalfAlone, HalfTimesOut, WriteForgotten, HalfThere, Deliver, WatcherLeaves, sent
<1>2. expected' = expected \/ \E p : Forget(p) \/ expected' = [expected EXCEPT ![p] = None]
  BY DEF Watcher, NoticeSuppressed, NoticeOfChange, HalfGone, Paired, PairedTooLate,
     HalfAlone, HalfTimesOut, WriteForgotten, HalfThere, Deliver, watcher, sent
<1>3. ASSUME NEW p, Forget(p) \/ expected' = [expected EXCEPT ![p] = None]
      PROVE  expected' \in Marks(stamps)
  <2>1. expected' \in {expected, [expected EXCEPT ![p] = expected[p]], [expected EXCEPT ![p] = None]}
    BY <1>3 DEF Forget
  <2> QED BY <2>1 DEF FilesTyped, Marks
<1> QED BY <1>1, <1>2, <1>3 DEF FilesTyped, FilesMove

LEMMA FilesOfOthers ==
    ASSUME FilesTyped, Others
    PROVE  FilesMove
<1>0. expected' = expected
  BY DEF Others, OthersWrite, OthersCreate, OthersRemove, OthersRename, OthersMoveOut,
     OthersMoveIn, OthersDo, watcher, sent
<1>1. ASSUME NEW p, OthersWrite(p) \/ OthersCreate(p) \/ OthersMoveIn(p)
      PROVE  FilesMove
  <2>1. stamps' = stamps + 1 /\ disk' = [disk EXCEPT ![p] = stamps']
    BY <1>1 DEF OthersWrite, OthersCreate, OthersMoveIn, OthersDo, sent
  <2> QED BY <1>0, <2>1, FilesStamped
<1>2. ASSUME NEW p, OthersRemove(p) \/ OthersMoveOut(p)
      PROVE  FilesMove
  BY <1>0, <1>2, PruneTyped DEF OthersRemove, OthersMoveOut, OthersDo, FilesTyped, FilesMove, sent
<1>3. ASSUME NEW p, NEW to, OthersRename(p, to)
      PROVE  FilesMove
  BY <1>0, <1>3, RenamedTyped DEF OthersRename, OthersDo, FilesTyped, FilesMove, sent
<1> QED BY <1>1, <1>2, <1>3 DEF Others

LEMMA FilesStep ==
    ASSUME FilesTyped, [Next]_vars
    PROVE  FilesMove
<1>1. CASE UNCHANGED vars
  BY <1>1, FilesStay DEF vars, watcher, sent
<1> QED BY <1>1, FilesOfPerson, FilesOfReplies, FilesOfWatcher, FilesOfOthers DEF Next

(* Events carry what the disk held when they were made.                      *)
LEMMA EventTyped ==
    ASSUME FilesTyped, NEW kind, NEW p, NEW to
    PROVE  IsEntry(Event(kind, p, to).entry, stamps)
<1>1. \A q : IsEntry(EntryFor(q), stamps)
  BY DEF EntryFor, IsEntry, FilesTyped, Disks, Under
<1>2. IsEntry(None, stamps)
  BY DEF IsEntry
<1>3. Event(kind, p, to).entry \in {None, EntryFor(to), EntryFor(p)}
  BY DEF Event
<1> QED BY <1>1, <1>2, <1>3

LEMMA EmittedTyped ==
    ASSUME FilesTyped, EventsTyped, stamps' = stamps, NEW es, IsSeq(es),
           \A n \in DOMAIN es : IsEntry(es[n].entry, stamps), Emit(es)
    PROVE  EventsTyped'
<1> DEFINE X == {events[n] : n \in DOMAIN events} \cup {es[n] : n \in DOMAIN es}
<1>1. \A x \in X : IsEntry(x.entry, stamps)
  BY DEF EventsTyped
<1>2. events \in Seq(X) /\ es \in Seq(X)
  BY DEF EventsTyped, IsSeq
<1> HIDE DEF X
<1>3. events' \in Seq(X)
  <2>1. PICK at \in SUBSET DOMAIN es : events' = events \o Kept(es, at)
    BY DEF Emit
  <2> DEFINE r == Kept(es, at)
  <2>2. IsSeq(r) /\ \A n \in DOMAIN r : \E k \in DOMAIN es : r[n] = es[k]
    BY KeptOnce
  <2>3. events' = events \o r
    BY <2>1
  <2> HIDE DEF r
  <2>4. r \in Seq(X)
    <3>1. {r[n] : n \in DOMAIN r} \subseteq X
      BY <2>2 DEF X
    <3> QED BY <2>2, <3>1 DEF IsSeq
  <2> QED BY <1>2, <2>3, <2>4
<1>4. \A n \in DOMAIN events' : events'[n] \in X
  BY <1>3
<1>5. IsSeq(events')
  BY <1>3, SeqOfItself
<1> QED BY <1>1, <1>4, <1>5 DEF EventsTyped

LEMMA EmitsTyped ==
    ASSUME FilesTyped, EventsTyped, stamps' = stamps, NEW e, NEW f,
           IsEntry(e.entry, stamps), IsEntry(f.entry, stamps),
           Emit(<<>>) \/ Emit(<<e>>) \/ Emit(<<e, f>>)
    PROVE  EventsTyped'
<1>1. CASE Emit(<<>>)
  <2> DEFINE es == <<>>
  <2>1. IsSeq(es) /\ DOMAIN es = {}
    BY DEF IsSeq
  <2> HIDE DEF es
  <2> QED BY <1>1, <2>1, EmittedTyped DEF es
<1>2. CASE Emit(<<e>>)
  <2> DEFINE es == <<e>>
  <2>1. IsSeq(es) /\ \A n \in DOMAIN es : IsEntry(es[n].entry, stamps)
    BY DEF IsSeq
  <2> HIDE DEF es
  <2> QED BY <1>2, <2>1, EmittedTyped DEF es
<1>3. CASE Emit(<<e, f>>)
  <2> DEFINE es == <<e, f>>
  <2>1. IsSeq(es) /\ \A n \in DOMAIN es : IsEntry(es[n].entry, stamps)
    BY DEF IsSeq
  <2> HIDE DEF es
  <2> QED BY <1>3, <2>1, EmittedTyped DEF es
<1> QED BY <1>1, <1>2, <1>3

LEMMA EventsUntouched ==
    ASSUME EventsTyped, FilesTyped, FilesMove, events' = events
    PROVE  EventsTyped'
<1>1. stamps \in Nat /\ stamps' \in Nat /\ stamps <= stamps'
  BY DEF FilesTyped, FilesMove
<1> QED BY <1>1, MoreStamps DEF EventsTyped

LEMMA EventsStep ==
    ASSUME FilesTyped, EventsTyped, [Next]_vars
    PROVE  EventsTyped'
<1>0. FilesMove
  BY FilesStep
<1>1. ASSUME NEW n, stamps' = stamps, NoticeOfChange, n = Head(notices)
      PROVE  EventsTyped'
  <2>1. Emit(<<Event(n.kind, n.path, <<>>)>>)
    BY <1>1 DEF NoticeOfChange
  <2> QED BY <1>1, <2>1, EventTyped, EmitsTyped
<1>2. CASE HalfGone
  <2>1. stamps' = stamps /\ (Emit(<<>>) \/ Emit(<<RemoveOf(pending.path)>>))
    BY <1>2 DEF HalfGone, WatcherLeaves
  <2>2. IsEntry(RemoveOf(pending.path).entry, stamps)
    BY EventTyped DEF RemoveOf
  <2> QED BY <2>1, <2>2, EmitsTyped
<1>3. CASE Paired \/ HalfAlone
  <2>1. /\ stamps' = stamps
        /\ \/ Emit(<<Event("rename", pending.path, Head(notices).path)>>)
           \/ Emit(<<Event("create", Head(notices).path, <<>>)>>)
    BY <1>3 DEF Paired, HalfAlone, HalfThere, WatcherLeaves
  <2> QED BY <2>1, EventTyped, EmitsTyped
<1>4. CASE PairedTooLate
  <2>1. /\ stamps' = stamps
        /\ Emit(<<RemoveOf(pending.path), Event("create", Head(notices).path, <<>>)>>)
    BY <1>4 DEF PairedTooLate, HalfThere, WatcherLeaves
  <2>2. /\ IsEntry(RemoveOf(pending.path).entry, stamps)
        /\ IsEntry(Event("create", Head(notices).path, <<>>).entry, stamps)
    BY EventTyped DEF RemoveOf
  <2> QED BY <2>1, <2>2, EmitsTyped
<1>5. CASE HalfTimesOut
  <2>1. stamps' = stamps /\ Emit(<<RemoveOf(pending.path)>>)
    BY <1>5 DEF HalfTimesOut, WatcherLeaves
  <2>2. IsEntry(RemoveOf(pending.path).entry, stamps)
    BY EventTyped DEF RemoveOf
  <2> QED BY <2>1, <2>2, EmitsTyped
<1>6. CASE Deliver
  <2>1. events # <<>> /\ events' = Tail(events) /\ stamps' = stamps
    BY <1>6 DEF Deliver
  <2>2. IsSeq(Tail(events)) /\ \A n \in DOMAIN Tail(events) :
          n + 1 \in DOMAIN events /\ Tail(events)[n] = events[n + 1]
    BY <2>1, RestOfSeq DEF EventsTyped
  <2> QED BY <2>1, <2>2 DEF EventsTyped
<1>7. CASE NoticeOfChange
  <2>1. stamps' = stamps
    BY <1>7 DEF NoticeOfChange, WatcherLeaves
  <2> QED BY <1>1, <1>7, <2>1
<1>8. CASE events' = events
  BY <1>0, <1>8, EventsUntouched
<1>9. CASE Person
  <2>1. events' = events
    BY <1>9 DEF Person, OpenEntry, OpenLink, CreateDocument, Rename, Move, Relocates, Trash, Save,
       CloseSaving, Close, Reload, RefreshWorkspace, Edit, PersonLeaves, sent
  <2> QED BY <1>8, <2>1
<1>10. CASE Replies
  <2>1. events' = events
    BY <1>10 DEF Replies, ReplyLeaves, Loaded, InspectionFindsAChange, Writes, Written, Saved,
       GoesOn, LinkRead, Created, Reloaded, Remapped, Trashed, Refreshed, sent
  <2> QED BY <1>8, <2>1
<1>11. CASE Others
  <2>1. events' = events
    BY <1>11 DEF Others, OthersWrite, OthersCreate, OthersRemove, OthersRename, OthersMoveOut,
       OthersMoveIn, OthersDo, sent
  <2> QED BY <1>8, <2>1
<1>12. CASE NoticeSuppressed \/ (\E p \in Files : WriteForgotten(p)) \/ UNCHANGED vars
  <2>1. events' = events
    BY <1>12 DEF NoticeSuppressed, WriteForgotten, vars, sent
  <2> QED BY <1>8, <2>1
<1> QED
  BY <1>2, <1>3, <1>4, <1>5, <1>6, <1>7, <1>9, <1>10, <1>11, <1>12 DEF Next, Watcher

(* The calls of r that are no loads are calls of q.                          *)
From(r, q) == \A n \in DOMAIN r : r[n].kind = "load" \/ \E i \in DOMAIN q : r[n] = q[i]

(* The scans that wait are those that waited, and one of the disk as it is;  *)
(* the tree is the one that was shown or that of a scan.                     *)
IsScan(reply, ahead) ==
    \/ reply = disk /\ ahead = Len(events)
    \/ \E i \in DOMAIN calls :
         calls[i].kind = "refresh" /\ calls[i].reply = reply /\ calls[i].ahead = ahead
AreScans(q) ==
    IsSeq(q) /\ \A n \in DOMAIN q : q[n].kind = "refresh" => IsScan(q[n].reply, q[n].ahead)
IsShown(tr) ==
    tr = tree \/ \E i \in DOMAIN calls : calls[i].kind = "refresh" /\ calls[i].reply = tr
ActiveIsOpen == active # 0 => HasActive
ScreenStands == AreScans(calls) /\ ActiveIsOpen
ScreenMoves == IsShown(tree') /\ AreScans(calls') /\ ActiveIsOpen'

LEMMA MoreScans ==
    ASSUME NEW q, AreScans(q), NEW c, c.kind = "refresh" => IsScan(c.reply, c.ahead)
    PROVE  AreScans(Append(q, c))
<1> DEFINE more == Append(q, c)
<1>1. /\ Len(q) \in Nat /\ DOMAIN q = 1 .. Len(q)
      /\ IsSeq(more)
      /\ DOMAIN more = 1 .. Len(q) + 1
      /\ \A n \in DOMAIN q : more[n] = q[n]
      /\ more[Len(q) + 1] = c
  BY AppendedSeq, ElementsOfSeq DEF AreScans
<1> HIDE DEF more
<1>2. \A n \in DOMAIN more : (n \in DOMAIN q /\ more[n] = q[n]) \/ more[n] = c
  BY <1>1
<1>3. AreScans(more)
  BY <1>1, <1>2 DEF AreScans
<1> QED BY <1>3 DEF more

LEMMA RestScans ==
    ASSUME NEW q, AreScans(q), q # <<>>
    PROVE  /\ AreScans(Tail(q))
           /\ 1 \in DOMAIN q /\ Head(q) = q[1]
<1>1. /\ IsSeq(Tail(q)) /\ 1 \in DOMAIN q /\ Head(q) = q[1]
      /\ \A n \in DOMAIN Tail(q) : n + 1 \in DOMAIN q /\ Tail(q)[n] = q[n + 1]
  BY RestOfSeq DEF AreScans
<1> QED BY <1>1 DEF AreScans

LEMMA LoadsFrom ==
    ASSUME NEW q, IsSeq(q), NEW now
    PROVE  IsSeq(LoadsAgain(now, q)) /\ From(LoadsAgain(now, q), q)
<1> DEFINE at == {i \in DOMAIN q : q[i].kind # "load"}
           kept == Kept(q, at)
           load == [Call("load") EXCEPT !.doc = Head(now), !.reply = At(Head(now).path)]
           more == Append(kept, load)
<1>1. IsSeq(kept) /\ From(kept, q)
  <2>1. at \in SUBSET DOMAIN q
    OBVIOUS
  <2> HIDE DEF at
  <2>2. PICK pos \in [DOMAIN kept -> at] : \A n \in DOMAIN kept : kept[n] = q[pos[n]]
    BY <2>1, KeptOnce
  <2>3. IsSeq(kept)
    BY <2>1, KeptOnce
  <2> HIDE DEF kept
  <2>4. \A n \in DOMAIN kept : pos[n] \in DOMAIN q
    BY <2>1, <2>2
  <2> QED BY <2>2, <2>3, <2>4 DEF From
<1>2. load.kind = "load"
  BY DEF Call
<1>3. LoadsAgain(now, q) \in {kept, more}
  BY DEF LoadsAgain
<1> HIDE DEF kept, load
<1>4. /\ IsSeq(more) /\ DOMAIN more = 1 .. Len(kept) + 1
      /\ DOMAIN kept = 1 .. Len(kept) /\ Len(kept) \in Nat
      /\ \A n \in DOMAIN kept : more[n] = kept[n]
      /\ more[Len(kept) + 1] = load
  BY <1>1, AppendedSeq, ElementsOfSeq
<1> HIDE DEF more
<1>5. \A n \in DOMAIN more : (n \in DOMAIN kept /\ more[n] = kept[n]) \/ more[n] = load
  BY <1>4
<1>6. From(more, q)
  BY <1>1, <1>2, <1>5 DEF From
<1> QED BY <1>1, <1>3, <1>4, <1>6

LEMMA LoadsScans ==
    ASSUME NEW q, AreScans(q), NEW now
    PROVE  AreScans(LoadsAgain(now, q))
<1> DEFINE r == LoadsAgain(now, q)
<1>1. IsSeq(q) /\ IsSeq(r) /\ From(r, q)
  BY LoadsFrom DEF AreScans
<1> HIDE DEF r
<1>2. AreScans(r)
  BY <1>1 DEF AreScans, From
<1> QED BY <1>2 DEF r

LEMMA WithIdFinds ==
    ASSUME NEW ds, IsSeq(ds), NEW id
    PROVE  WithId(ds, id) # <<>> <=> \E i \in DOMAIN ds : ds[i].id = id
<1> DEFINE at == {i \in DOMAIN ds : ds[i].id = id}
           found == Kept(ds, at)
<1>1. at \in SUBSET DOMAIN ds /\ WithId(ds, id) = found
  BY DEF WithId
<1>2. at # {} <=> \E i \in DOMAIN ds : ds[i].id = id
  OBVIOUS
<1> HIDE DEF at
<1>3. /\ IsSeq(found) /\ DOMAIN found = 1 .. Len(found) /\ Len(found) \in Nat
      /\ \E pos \in [DOMAIN found -> at] : \A i \in at : \E n \in DOMAIN found : pos[n] = i
  BY <1>1, KeptOnce
<1> HIDE DEF found
<1>4. found # <<>> <=> DOMAIN found # {}
  BY <1>3 DEF IsSeq
<1>5. DOMAIN found # {} <=> at # {}
  BY <1>3
<1> QED BY <1>1, <1>2, <1>4, <1>5

LEMMA BecomeMoves ==
    ASSUME NEW ds, NEW ac, NEW tr, NEW q, Become(ds, ac, tr, q),
           AreScans(q), IsShown(tr)
    PROVE  ScreenMoves
<1> DEFINE now == WithId(ds, ac)
<1>1. /\ docs' = ds /\ tree' = tr /\ calls' = LoadsAgain(now, q)
      /\ active' = IF now = <<>> THEN 0 ELSE ac
  BY DEF Become
<1>2. AreScans(calls')
  BY <1>1, LoadsScans
<1>3. active' # 0 => WithId(docs', active') # <<>>
  BY <1>1
<1> QED BY <1>1, <1>2, <1>3 DEF ScreenMoves, ActiveIsOpen, HasActive

LEMMA DocsBecomeMoves ==
    ASSUME NEW ds, NEW q, DocsBecome(ds, q), AreScans(q)
    PROVE  ScreenMoves
<1> DEFINE now == WithId(ds, active)
<1>1. /\ docs' = ds /\ tree' = tree /\ calls' \in {q, LoadsAgain(now, q)}
      /\ active' = IF now = <<>> THEN 0 ELSE active
  BY DEF DocsBecome
<1>2. AreScans(calls')
  BY <1>1, LoadsScans
<1>3. active' # 0 => WithId(docs', active') # <<>>
  BY <1>1
<1> QED BY <1>1, <1>2, <1>3 DEF ScreenMoves, IsShown, ActiveIsOpen, HasActive

LEMMA SameScreenMoves ==
    ASSUME ScreenStands, UNCHANGED screen, AreScans(calls')
    PROVE  ScreenMoves
BY DEF ScreenStands, ScreenMoves, ActiveIsOpen, IsShown, HasActive, WithId, Kept, screen

LEMMA GoesMoves ==
    ASSUME ScreenStands, NEW then, NEW q, AreScans(q), Goes(then, q)
    PROVE  ScreenMoves
<1>1. CASE UNCHANGED screen /\ calls' = q
  BY <1>1, SameScreenMoves
<1>2. ASSUME NEW d, Opens(d, q) PROVE ScreenMoves
  BY <1>2, BecomeMoves DEF Opens, IsShown
<1>3. CASE UNCHANGED screen /\ \E c : c.kind # "refresh" /\ calls' = Append(q, c)
  <2>1. PICK c : c.kind # "refresh" /\ calls' = Append(q, c)
    BY <1>3
  <2> QED BY <1>3, <2>1, MoreScans, SameScreenMoves
<1>4. ASSUME NEW ds, DocsBecome(ds, q) PROVE ScreenMoves
  BY <1>4, DocsBecomeMoves
<1>5. \A p, reply : [Call("link") EXCEPT !.path = p, !.reply = reply].kind # "refresh"
  BY DEF Call
<1>6. \A p, reply : [Call("create") EXCEPT !.path = p, !.reply = reply].kind # "refresh"
  BY DEF Call
<1>7. CASE then.do = "link"
  BY <1>3, <1>5, <1>7 DEF Goes
<1>8. CASE then.do = "create"
  BY <1>1, <1>3, <1>6, <1>8 DEF Goes
<1> QED BY <1>1, <1>2, <1>4, <1>7, <1>8 DEF Goes

LEMMA SaveThenMoves ==
    ASSUME ScreenStands, NEW then, SaveThen(then)
    PROVE  ScreenMoves
<1> DEFINE c == [Call("inspect") EXCEPT !.doc = Active, !.then = then, !.reply = At(Active.path)]
<1>1. c.kind # "refresh"
  BY DEF Call
<1>2. UNCHANGED screen /\ calls' = Append(calls, c)
  BY DEF SaveThen
<1> HIDE DEF c
<1>3. AreScans(calls')
  BY <1>1, <1>2, MoreScans DEF ScreenStands
<1> QED BY <1>2, <1>3, SameScreenMoves

LEMMA RefreshMoves ==
    ASSUME NEW q, AreScans(q), NEW then
    PROVE  AreScans(Append(q, Refresh(then)))
<1> DEFINE c == Refresh(then)
<1>1. c.reply = disk /\ c.ahead = Len(events)
  BY DEF Refresh, Call
<1> HIDE DEF c
<1>2. AreScans(Append(q, c))
  BY <1>1, MoreScans DEF IsScan
<1> QED BY <1>2 DEF c

LEMMA ScreenOfPerson ==
    ASSUME ScreenStands, SessionsInv, Person
    PROVE  ScreenMoves
<1>0. AreScans(calls)
  BY DEF ScreenStands
<1>1. ASSUME NEW then, Transition(then) PROVE ScreenMoves
  BY <1>0, <1>1, SaveThenMoves, GoesMoves DEF Transition
<1>2. ASSUME NEW p, OpenEntry(p) \/ OpenLink(p) \/ CreateDocument(p)
      PROVE  ScreenMoves
  BY <1>1, <1>2 DEF OpenEntry, OpenLink, CreateDocument
<1>3. ASSUME UNCHANGED screen, NEW c, c.kind # "refresh", calls' = Append(calls, c)
      PROVE  ScreenMoves
  BY <1>0, <1>3, MoreScans, SameScreenMoves
<1>4. ASSUME NEW p, NEW to, Relocates(p, to)
      PROVE  ScreenMoves
  <2> DEFINE c == [Call("remap") EXCEPT !.path = p, !.to = to]
  <2>1. c.kind # "refresh"
    BY DEF Call
  <2>2. UNCHANGED screen /\ calls' = Append(calls, c)
    BY <1>4 DEF Relocates
  <2> HIDE DEF c
  <2> QED BY <1>3, <2>1, <2>2
<1>5. ASSUME NEW p, Trash(p)
      PROVE  ScreenMoves
  <2> DEFINE ids == {docs[i].id : i \in {j \in DOMAIN docs : IsPrefix(p, docs[j].path)}}
             c == [Call("trash") EXCEPT !.ids = ids]
  <2>1. UNCHANGED screen /\ calls' = Append(calls, c)
    BY <1>5 DEF Trash
  <2>2. c.kind # "refresh"
    BY DEF Call
  <2> HIDE DEF c
  <2> QED BY <1>3, <2>1, <2>2
<1>6. CASE Save \/ CloseSaving
  BY <1>6, SaveThenMoves DEF Save, CloseSaving
<1>7. CASE Close
  BY <1>0, <1>7, DocsBecomeMoves DEF Close
<1>8. CASE Reload
  <2> DEFINE c == [Call("reload") EXCEPT !.doc = Active, !.reply = At(Active.path)]
  <2>1. UNCHANGED screen /\ calls' = Append(calls, c)
    BY <1>8 DEF Reload
  <2>2. c.kind # "refresh"
    BY DEF Call
  <2> HIDE DEF c
  <2> QED BY <1>3, <2>1, <2>2
<1>9. CASE RefreshWorkspace
  BY <1>0, <1>9, RefreshMoves, SameScreenMoves DEF RefreshWorkspace
<1>10. CASE Edit
  <2>1. /\ docs' = [i \in DOMAIN docs |-> docs'[i]]
        /\ \A i \in DOMAIN docs :
             docs'[i] = IF docs[i].id = active THEN [docs[i] EXCEPT !.dirty = TRUE] ELSE docs[i]
        /\ tree' = tree /\ calls' = calls /\ active' = active /\ HasActive
    BY <1>10 DEF Edit, Each, Only, sent
  <2>2. \A i \in DOMAIN docs : IsDoc(docs'[i]) /\ docs'[i].id = docs[i].id
    BY <2>1 DEF SessionsInv, AreApart, IsDoc
  <2>3. IsSeq(docs) /\ IsSeq(docs')
    BY <2>1, <2>2, ChangedAreApart DEF SessionsInv, AreApart
  <2>4. PICK i \in DOMAIN docs : docs[i].id = active
    BY <2>1, <2>3, WithIdFinds DEF HasActive
  <2>5. WithId(docs', active') # <<>>
    <3>1. i \in DOMAIN docs' /\ docs'[i].id = active'
      BY <2>1, <2>2, <2>4
    <3> QED BY <2>3, <3>1, WithIdFinds
  <2> QED BY <1>0, <2>1, <2>5 DEF ScreenStands, ScreenMoves, ActiveIsOpen, IsShown, HasActive
<1> QED
  BY <1>2, <1>4, <1>5, <1>6, <1>7, <1>8, <1>9, <1>10 DEF Person, Rename, Move

LEMMA ScreenOfReplies ==
    ASSUME ScreenStands, Replies
    PROVE  ScreenMoves
<1> DEFINE c == Head(calls)
           q == Tail(calls)
<1>0. IsShown(tree)
  BY DEF IsShown
<1>1. AreScans(q) /\ (c.kind = "refresh" => IsShown(c.reply))
  <2>1. calls # <<>>
    BY DEF Replies, Replied, Loaded, InspectionFindsAChange, Writes, Written, Saved, GoesOn,
       LinkRead, Created, Reloaded, Remapped, Trashed, Refreshed
  <2> QED BY <2>1, RestScans DEF ScreenStands, IsShown
<1> HIDE DEF q
<1>2. ASSUME NEW ds, DocsBecome(ds, q) PROVE ScreenMoves
  BY <1>0, <1>1, <1>2, DocsBecomeMoves
<1>3. CASE Loaded \/ InspectionFindsAChange
  <2>1. \E ds : DocsBecome(ds, q)
    BY <1>3 DEF Loaded, InspectionFindsAChange, q
  <2> QED BY <1>2, <2>1
<1>4. CASE UNCHANGED screen /\ calls' = q
  BY <1>1, <1>4, SameScreenMoves
<1>5. ASSUME UNCHANGED screen, NEW w, w.kind # "refresh", calls' = Append(q, w)
      PROVE  ScreenMoves
  BY <1>1, <1>5, MoreScans, SameScreenMoves
<1>6. CASE Writes
  <2>1. c.kind = "inspect" /\ UNCHANGED screen
        /\ calls' \in {q, Append(q, [c EXCEPT !.kind = "write", !.reply = stamps'])}
    BY <1>6 DEF Writes, Replied, q
  <2>2. [c EXCEPT !.kind = "write", !.reply = stamps'].kind # "refresh"
    BY <2>1
  <2> QED BY <1>4, <1>5, <2>1, <2>2
<1>7. CASE Written
  <2> DEFINE w == [c EXCEPT !.kind = "reinspect", !.reply = At(c.doc.path), !.doc.shows = c.reply]
  <2>1. c.kind = "write" /\ UNCHANGED screen /\ calls' = Append(q, w)
    BY <1>7 DEF Written, Replied, q
  <2>2. w.kind # "refresh"
    BY <2>1
  <2> HIDE DEF w
  <2> QED BY <1>5, <2>1, <2>2
<1>8. CASE Saved
  <2> DEFINE w == [c EXCEPT !.kind = "clear"]
  <2>1. c.kind = "reinspect" /\ \E ds : DocsBecome(ds, Append(q, w))
    BY <1>8 DEF Saved, Replied, q
  <2>2. w.kind # "refresh"
    BY <2>1
  <2> HIDE DEF w
  <2>3. AreScans(Append(q, w))
    BY <1>1, <2>2, MoreScans
  <2> QED BY <1>0, <2>1, <2>3, DocsBecomeMoves
<1>9. CASE GoesOn
  BY <1>1, <1>9, GoesMoves DEF GoesOn, q
<1>10. CASE LinkRead
  <2>1. \/ UNCHANGED screen /\ calls' = q
        \/ \E ds, ac : Become(ds, ac, tree, q)
    BY <1>10 DEF LinkRead, Opens, screen, q
  <2> QED BY <1>0, <1>1, <1>4, <2>1, BecomeMoves
<1>11. CASE Created
  <2>1. UNCHANGED screen /\ \E then : calls' = Append(q, Refresh(then))
    BY <1>11 DEF Created, q
  <2> QED BY <1>1, <2>1, RefreshMoves, SameScreenMoves
<1>12. CASE Reloaded
  <2>1. (UNCHANGED screen /\ calls' = q) \/ \E ds : DocsBecome(ds, q)
    BY <1>12 DEF Reloaded, q
  <2> QED BY <1>2, <1>4, <2>1
<1>13. CASE Remapped
  <2>1. \E ds : Become(ds, active, tree, Append(q, Refresh(Stay)))
    BY <1>13 DEF Remapped, q
  <2>2. AreScans(Append(q, Refresh(Stay)))
    BY <1>1, RefreshMoves
  <2> QED BY <1>0, <2>1, <2>2, BecomeMoves
<1>14. CASE Trashed
  <2>1. \E ds : DocsBecome(ds, Append(q, Refresh(Stay)))
    BY <1>14 DEF Trashed, q
  <2>2. AreScans(Append(q, Refresh(Stay)))
    BY <1>1, RefreshMoves
  <2> QED BY <1>0, <2>1, <2>2, DocsBecomeMoves
<1>15. CASE Refreshed
  <2>1. c.kind = "refresh" /\ \E ds, ac : Become(ds, ac, c.reply, q)
    BY <1>15 DEF Refreshed, Replied, q
  <2> QED BY <1>1, <2>1, BecomeMoves
<1> QED
  BY <1>3, <1>6, <1>7, <1>8, <1>9, <1>10, <1>11, <1>12, <1>13, <1>14, <1>15 DEF Replies

(* The tree after an event shows what it showed, or what the event tells.    *)
LEMMA TreeAfterTyped ==
    ASSUME NEW k, tree \in Disks(k), NEW e, IsEntry(e.entry, k)
    PROVE  TreeAfter(e) \in Disks(k)
<1>1. Prune(tree, e.path) \in Disks(k)
  BY PruneTyped
<1>2. ASSUME NEW held \in Disks(k), NEW p
      PROVE  Insert(held, p, e.entry) \in Disks(k)
  <2>1. CASE Insert(held, p, e.entry) = held
    BY <2>1
  <2>2. CASE e.entry # None /\ Insert(held, p, e.entry) =
               [q \in Path |-> IF q \in DOMAIN e.entry THEN e.entry[q] ELSE held[q]]
    BY <2>2 DEF IsEntry, Disks
  <2> QED BY <2>1, <2>2 DEF Insert
<1>3. TreeAfter(e) \in {tree, Prune(tree, e.path), Insert(Prune(tree, e.path), e.to, e.entry),
                        Insert(Prune(tree, e.path), e.path, e.entry)}
  BY DEF TreeAfter
<1> QED BY <1>1, <1>2, <1>3

LEMMA ScreenOfDeliver ==
    ASSUME TypesInv, SessionsInv, Deliver
    PROVE  ScreenTyped'
<1> DEFINE e == Head(events)
           ds == DocsAfter(e)
           tr == TreeAfter(e)
           q == [i \in DOMAIN calls |->
                   IF calls[i].kind = "refresh" /\ calls[i].ahead > 0
                     THEN [calls[i] EXCEPT !.ahead = @ - 1] ELSE calls[i]]
<1>1. events # <<>> /\ Become(ds, active, tr, q) /\ stamps' = stamps
  BY DEF Deliver
<1>2. IsEntry(e.entry, stamps)
  <2>1. 1 \in DOMAIN events /\ Head(events) = events[1]
    BY <1>1, RestOfSeq DEF TypesInv, EventsTyped
  <2> QED BY <2>1 DEF TypesInv, EventsTyped
<1> HIDE DEF e
<1>3. tr \in Disks(stamps)
  BY <1>2, TreeAfterTyped DEF TypesInv, ScreenTyped
<1>4. AreTyped(q, stamps)
  <2>1. IsSeq(calls) /\ Len(calls) \in Nat /\ DOMAIN calls = 1 .. Len(calls)
    BY ElementsOfSeq DEF TypesInv, ScreenTyped, AreTyped
  <2>2. \A i \in DOMAIN calls : q[i].kind = "refresh" => q[i].reply \in Disks(stamps)
    <3> SUFFICES ASSUME NEW i \in DOMAIN calls, q[i].kind = "refresh"
                 PROVE  q[i].reply \in Disks(stamps)
      OBVIOUS
    <3> DEFINE w == [calls[i] EXCEPT !.ahead = @ - 1]
    <3>1. IsCall(calls[i])
      BY DEF SessionsInv, AreInOrder, IsInOrder
    <3>2. w.kind = calls[i].kind /\ w.reply = calls[i].reply
      BY <3>1 DEF IsCall
    <3>3. q[i] \in {calls[i], w}
      OBVIOUS
    <3> HIDE DEF w, q
    <3> QED BY <3>2, <3>3 DEF TypesInv, ScreenTyped, AreTyped
  <2>3. DOMAIN q = DOMAIN calls /\ q = [i \in DOMAIN calls |-> q[i]]
    OBVIOUS
  <2> HIDE DEF q
  <2>4. q \in Seq({q[i] : i \in DOMAIN calls})
    BY <2>1, <2>3
  <2>5. IsSeq(q)
    BY <2>4, SeqOfItself
  <2> QED BY <2>2, <2>3, <2>5 DEF AreTyped
<1> HIDE DEF ds, tr, q
<1>5. tree' = tr /\ (active' # 0 => WithId(docs', active') # <<>>)
      /\ \E now : calls' = LoadsAgain(now, q)
  BY <1>1 DEF Become
<1>6. AreTyped(calls', stamps)
  <2>1. IsSeq(calls') /\ From(calls', q)
    BY <1>4, <1>5, LoadsFrom DEF AreTyped
  <2> QED BY <1>4, <2>1 DEF From, AreTyped
<1> QED BY <1>1, <1>3, <1>5, <1>6 DEF ScreenTyped, HasActive

LEMMA ScreenStep ==
    ASSUME TypesInv, SessionsInv, [Next]_vars
    PROVE  ScreenTyped'
<1>1. FilesTyped /\ EventsTyped /\ ScreenTyped /\ FilesMove
  BY FilesStep DEF TypesInv
<1>2. ScreenStands
  BY <1>1 DEF ScreenTyped, AreTyped, ScreenStands, AreScans, IsScan, ActiveIsOpen
<1>3. CASE ScreenMoves
  <2>1. stamps \in Nat /\ stamps' \in Nat /\ stamps <= stamps'
    BY <1>1 DEF FilesTyped, FilesMove
  <2>2. AreTyped(calls, stamps') /\ tree \in Disks(stamps') /\ disk \in Disks(stamps')
    BY <1>1, <2>1, MoreStamps DEF FilesTyped, ScreenTyped
  <2>3. tree' \in Disks(stamps') /\ AreTyped(calls', stamps')
    BY <1>3, <2>2 DEF ScreenMoves, IsShown, AreScans, IsScan, AreTyped
  <2> QED BY <1>3, <2>3 DEF ScreenMoves, ActiveIsOpen, ScreenTyped
<1>4. CASE UNCHANGED screen /\ calls' = calls
  BY <1>2, <1>3, <1>4, SameScreenMoves DEF ScreenStands
<1>5. CASE UNCHANGED vars
  BY <1>4, <1>5 DEF vars, sent
<1>6. CASE Watcher /\ ~Deliver
  <2>1. UNCHANGED screen /\ calls' = calls
    BY <1>6 DEF Watcher, NoticeSuppressed, NoticeOfChange, HalfGone, Paired, PairedTooLate,
       HalfAlone, HalfTimesOut, WriteForgotten, HalfThere, WatcherLeaves, sent
  <2> QED BY <1>4, <2>1
<1>7. CASE Others
  <2>1. UNCHANGED screen /\ calls' = calls
    BY <1>7 DEF Others, OthersWrite, OthersCreate, OthersRemove, OthersRename, OthersMoveOut,
       OthersMoveIn, OthersDo, sent
  <2> QED BY <1>4, <2>1
<1>8. CASE Person \/ Replies
  BY <1>2, <1>3, <1>8, ScreenOfPerson, ScreenOfReplies
<1> QED
  BY <1>5, <1>6, <1>7, <1>8, ScreenOfDeliver DEF Next

LEMMA InitTypes == Init => TypesInv
<1> SUFFICES ASSUME Init PROVE TypesInv
  OBVIOUS
<1>1. FirstStamps \in Nat
  <2>1. IsFiniteSet({p \in Path : FirstDisk[p] \notin {Gone, Folder}})
    BY SessionsAssumption, FS_Subset
  <2> QED BY <2>1, FS_CardinalityType DEF FirstStamps
<1>2. FilesTyped /\ tree \in Disks(stamps)
  BY <1>1, SessionsAssumption DEF Init, FilesTyped, Disks, Marks
<1>3. IsSeq(<<>>)
  BY DEF IsSeq
<1> QED BY <1>2, <1>3 DEF Init, TypesInv, EventsTyped, ScreenTyped, AreTyped

LEMMA TypesStep ==
    ASSUME TypesInv, SessionsInv, [Next]_vars
    PROVE  TypesInv'
<1>1. FilesTyped' /\ EventsTyped'
  BY FilesStep, EventsStep DEF TypesInv, FilesMove
<1> QED BY <1>1, ScreenStep DEF TypesInv

(* The variables keep their types, the active session is one of the store's, *)
(* and no two sessions have the same number.                                 *)
THEOREM TypeCorrect == Spec => []TypeOK
<1>1. TypesInv /\ SessionsInv /\ [Next]_vars => TypesInv'
  BY TypesStep
<1>2. TypesInv /\ SessionsInv => TypeOK
  BY DEF TypesInv, FilesTyped, ScreenTyped, SessionsInv, AreApart, TypeOK, Disks, Marks
<1> QED BY InitTypes, SessionsHold, <1>1, <1>2, PTL DEF Spec

-----------------------------------------------------------------------------
(* The paths of the sessions *)

(***************************************************************************)
(* No two sessions have the same path.  A rename that is on its way, as    *)
(* halves, as an event or as the reply the Explorer waits for, will take   *)
(* the sessions under x to y: until then there are none under one of them. *)
(***************************************************************************)
HalfOf(x, y) ==
    \E i \in DOMAIN notices :
        notices[i].kind = "half" /\ notices[i].path = x /\ notices[i].mate = y
Waits(x, y) == pending # None /\ pending.path = x /\ pending.mate = y
Way(x, y) ==
    \/ (HalfOf(x, y) \/ Waits(x, y)) /\ HalfOf(y, x)
    \/ \E i \in DOMAIN events :
         events[i].kind = "rename" /\ events[i].path = x /\ events[i].to = y
    \/ \E i \in DOMAIN calls :
         calls[i].kind = "remap" /\ calls[i].path = x /\ calls[i].to = y

Off(r, x, y) == ~Meets(r, x) /\ ~Meets(r, y)
Same(x, y, u, v) == (x = u /\ y = v) \/ (x = v /\ y = u)

(* The disk is a tree, and what is told of it is about its paths.            *)
IsATree == \A p, q \in Path : IsPrefix(p, q) /\ disk[q] # Gone => disk[p] # Gone
NewsInv ==
    /\ IsSeq(notices) /\ \A i \in DOMAIN notices :
         notices[i].path \in Path /\ notices[i].mate \in Path \cup {None}
    /\ pending # None => pending.path \in Path
    /\ IsSeq(events) /\ \A i \in DOMAIN events :
         events[i].path \in Path /\ (events[i].kind = "rename" => events[i].to \in Path)

PathsApart(ds) ==
    /\ \A i \in DOMAIN ds : ds[i].path \in Seq(Name)
    /\ \A i, j \in DOMAIN ds : ds[i].path = ds[j].path => ds[i].id = ds[j].id
WaysInv ==
    /\ \A x, y \in Path : Way(x, y) => ~Meets(x, y) /\ ~(Claimed(x) /\ Claimed(y))
    /\ \A x, y, u, v \in Path :
         Way(x, y) /\ Way(u, v) => Same(x, y, u, v) \/ (Off(u, x, y) /\ Off(v, x, y))

(* What is at c or above it is gone, and this is still to be told, after the *)
(* first n events; and the rename of x and y is none of those.               *)
GoneTold(c, n) ==
    \E q \in Path :
        /\ IsPrefix(q, c) /\ disk[q] = Gone
        /\ \/ \E i \in DOMAIN notices : notices[i].path = q
           \/ pending # None /\ pending.path = q
           \/ \E i \in DOMAIN events : i > n /\ events[i].path = q
Later(x, y, n) ==
    \A i \in DOMAIN events :
        i <= n /\ events[i].kind = "rename" => ~Same(events[i].path, events[i].to, x, y)

(* A handler and what it will open: no rename on its way concerns a link     *)
(* that is read or a document that was created; one that began after the     *)
(* scan may concern the document that will be opened with its reply.         *)
Handler(c) ==
    /\ c.kind \in {"remap", "link"} => c.path \in Path
    /\ c.kind = "remap" => c.to \in Path
    /\ c.kind \in {"inspect", "write", "reinspect", "clear"} /\ c.then.do \in {"open", "link"}
         => c.then.path \in Path
    /\ c.kind = "link" => \A x, y \in Path : Way(x, y) => Off(c.path, x, y)
    /\ c.kind = "create" =>
         /\ c.path \in Files /\ disk[c.path] # Gone
         /\ \A x, y \in Path : Way(x, y) => Off(c.path, x, y)
    /\ c.kind = "refresh" /\ c.then.do = "open" =>
         /\ c.then.path \in Files
         /\ c.ahead \in 0 .. Len(events)
         /\ disk[c.then.path] # Gone \/ GoneTold(c.then.path, c.ahead)
         /\ \A x, y \in Path : Way(x, y) =>
              \/ Off(c.then.path, x, y)
              \/ /\ Later(x, y, c.ahead)
                 /\ \/ IsPrefix(x, c.then.path) /\ ~Claimed(y)
                    \/ IsPrefix(y, c.then.path) /\ ~Claimed(x)

(* The person waits for a handler before asking for the next.                *)
OneHandler(q) == \A m, n \in DOMAIN q : q[m].kind # "load" /\ q[n].kind # "load" => m = n

HandlersInv == OneHandler(calls) /\ \A n \in DOMAIN calls : Handler(calls[n])

PathsInv == IsATree /\ NewsInv /\ PathsApart(docs) /\ WaysInv /\ HandlersInv
PathsHold == races = {} => PathsInv

(* What a step may do to ways and claims.                                    *)
NoNewWay == \A x, y \in Path : Way(x, y)' => Way(x, y)
NoNewClaim == \A x \in Path : Claimed(x)' => Claimed(x)
SamePlaces(ds) ==
    \A j \in DOMAIN ds : \E i \in DOMAIN docs : ds[j].id = docs[i].id /\ ds[j].path = docs[i].path
AllLoads(q) == \A n \in DOMAIN q : q[n].kind = "load"

(* The handlers of which nothing need be said.                               *)
Plain(c) ==
    \/ /\ c.kind \in {"inspect", "write", "reinspect", "clear"}
       /\ c.then.do \in {"open", "link"} => c.then.path \in Path
    \/ c.kind \in {"load", "reload", "trash"}
    \/ c.kind = "refresh" /\ c.then.do = "stay"

(* No notice, or one that is no half of a rename.                            *)
FewNews ==
    /\ events' = events /\ pending' = pending
    /\ \/ notices' = notices
       \/ \E n : notices' = Append(notices, n) /\ (n.kind # "half" \/ n.mate = None)

(* What is still to be told of a file that was scanned, stays to be told.    *)
Scanned(n) == \E i \in DOMAIN calls : calls[i].kind = "refresh" /\ calls[i].ahead = n
KeepsTelling ==
    /\ Len(events) \in Nat /\ Len(events') \in Nat /\ Len(events) <= Len(events')
    /\ \A c \in Files, n \in 0 .. Len(events) :
         Scanned(n) /\ (disk[c] # Gone \/ GoneTold(c, n)) => disk'[c] # Gone \/ GoneTold(c, n)'
    /\ \A x, y \in Path, n \in 0 .. Len(events) : Later(x, y, n) => Later(x, y, n)'

(* The events es come after the first top, for the last one before may be    *)
(* what the first of es repeats: then no scan that is awaited has seen it.   *)
NoScanAfter(top) == \A n \in Nat : Scanned(n) => n <= top
EmitsAfter(es, top) ==
    /\ top \in Nat /\ top <= Len(events)
    /\ top = Len(events) \/ NoScanAfter(top)
    /\ IsSeq(events') /\ Len(events') = top + Len(es)
    /\ Len(events) <= Len(events')
    /\ \A i \in DOMAIN events : i \in DOMAIN events' /\ events'[i] = events[i]
    /\ \A k \in DOMAIN es : top + k \in DOMAIN events' /\ events'[top + k] = es[k]
    /\ \A i \in DOMAIN events' :
         \/ i \in DOMAIN events /\ i <= top
         \/ i > top /\ i - top \in DOMAIN es /\ events'[i] = es[i - top]

StaysApart == PathsApart(docs)' /\ WaysInv' /\ HandlersInv'

-----------------------------------------------------------------------------
(* Paths *)

LEMMA PrefixOfNames ==
    ASSUME NEW s \in Seq(Name), NEW t \in Seq(Name)
    PROVE  IsPrefix(s, t) <=> Len(s) <= Len(t) /\ \A n \in 1 .. Len(s) : s[n] = t[n]
<1>0. Len(s) \in Nat /\ Len(t) \in Nat
  OBVIOUS
<1>1. ASSUME Len(s) <= Len(t)
      PROVE  SubSeq(s, 1, Len(s)) = SubSeq(t, 1, Len(s)) <=> \A n \in 1 .. Len(s) : s[n] = t[n]
  <2> DEFINE a == SubSeq(s, 1, Len(s))
             b == SubSeq(t, 1, Len(s))
  <2>1. /\ a \in Seq(Name) /\ Len(a) = Len(s) /\ \A n \in 1 .. Len(s) : a[n] = s[n]
        /\ b \in Seq(Name) /\ Len(b) = Len(s) /\ \A n \in 1 .. Len(s) : b[n] = t[n]
    BY <1>0, <1>1
  <2> HIDE DEF a, b
  <2>2. (\A n \in 1 .. Len(s) : a[n] = b[n]) => a = b
    BY <2>1
  <2>3. a = b <=> \A n \in 1 .. Len(s) : s[n] = t[n]
    BY <2>1, <2>2
  <2> QED BY <2>3 DEF a, b
<1> QED BY <1>1 DEF IsPrefix

LEMMA PrefixOrder ==
    ASSUME NEW r \in Seq(Name), NEW s \in Seq(Name), NEW t \in Seq(Name)
    PROVE  /\ IsPrefix(s, s)
           /\ IsPrefix(r, s) /\ IsPrefix(s, t) => IsPrefix(r, t)
           /\ IsPrefix(r, s) /\ IsPrefix(s, r) => r = s
           /\ IsPrefix(r, t) /\ IsPrefix(s, t) => Meets(r, s)
<1>0. Len(r) \in Nat /\ Len(s) \in Nat /\ Len(t) \in Nat
  OBVIOUS
<1>1. IsPrefix(s, s)
  BY PrefixOfNames
<1>2. IsPrefix(r, s) /\ IsPrefix(s, t) => IsPrefix(r, t)
  BY <1>0, PrefixOfNames
<1>3. IsPrefix(r, s) /\ IsPrefix(s, r) => r = s
  <2> SUFFICES ASSUME IsPrefix(r, s), IsPrefix(s, r) PROVE r = s
    OBVIOUS
  <2>1. Len(r) = Len(s) /\ \A n \in 1 .. Len(r) : r[n] = s[n]
    BY <1>0, PrefixOfNames
  <2> QED BY <2>1
<1>4. IsPrefix(r, t) /\ IsPrefix(s, t) => Meets(r, s)
  <2> SUFFICES ASSUME IsPrefix(r, t), IsPrefix(s, t) PROVE Meets(r, s)
    OBVIOUS
  <2>1. /\ Len(r) <= Len(t) /\ \A n \in 1 .. Len(r) : r[n] = t[n]
        /\ Len(s) <= Len(t) /\ \A n \in 1 .. Len(s) : s[n] = t[n]
    BY PrefixOfNames
  <2>2. Len(r) <= Len(s) \/ Len(s) <= Len(r)
    BY <1>0
  <2>3. IsPrefix(r, s) \/ IsPrefix(s, r)
    BY <1>0, <2>1, <2>2, PrefixOfNames
  <2> QED BY <2>3 DEF Meets
<1> QED BY <1>1, <1>2, <1>3, <1>4

(* What moves from x to y keeps its place.                                   *)
LEMMA Remapped1 ==
    ASSUME NEW x \in Seq(Name), NEW y \in Seq(Name), NEW r \in Seq(Name), IsPrefix(x, r)
    PROVE  LET m == Remap(x, y, r)
           IN  /\ m \in Seq(Name) /\ Len(m) = Len(y) + (Len(r) - Len(x))
               /\ \A n \in 1 .. Len(y) : m[n] = y[n]
               /\ \A n \in 1 .. Len(r) - Len(x) : m[Len(y) + n] = r[Len(x) + n]
<1> DEFINE rest == SubSeq(r, Len(x) + 1, Len(r))
           k == Len(r) - Len(x)
<1>1. Len(x) \in Nat /\ Len(y) \in Nat /\ Len(r) \in Nat /\ Len(x) <= Len(r) /\ k \in Nat
  BY PrefixOfNames
<1>2. rest \in Seq(Name) /\ Len(rest) = k /\ \A n \in 1 .. k : rest[n] = r[Len(x) + n]
  BY <1>1
<1>3. Remap(x, y, r) = y \o rest
  BY DEF Remap
<1> HIDE DEF rest
<1>4. y \o rest \in Seq(Name) /\ Len(y \o rest) = Len(y) + k
  <2>1. rest \in Seq(Name) /\ Len(rest) = k
    BY <1>2
  <2>2. y \o rest \in Seq(Name)
    BY <2>1
  <2>3. Len(y \o rest) = Len(y) + Len(rest)
    BY <2>1, SMTT(30)
  <2> QED BY <2>1, <2>2, <2>3
<1>5. ASSUME NEW n \in 1 .. Len(y) PROVE (y \o rest)[n] = y[n]
  <2>1. n \in 1 .. Len(y) + k /\ n <= Len(y)
    BY <1>1
  <2> QED BY <1>1, <1>2, <2>1
<1>6. ASSUME NEW n \in 1 .. k PROVE (y \o rest)[Len(y) + n] = rest[n]
  <2>1. Len(y) + n \in 1 .. Len(y) + k /\ ~(Len(y) + n <= Len(y)) /\ Len(y) + n - Len(y) = n
    BY <1>1
  <2> QED BY <1>1, <1>2, <2>1
<1> QED BY <1>1, <1>2, <1>3, <1>4, <1>5, <1>6

LEMMA RemapMoves ==
    ASSUME NEW x \in Seq(Name), NEW y \in Seq(Name), NEW r \in Seq(Name), IsPrefix(x, r)
    PROVE  /\ Remap(x, y, r) \in Seq(Name) /\ IsPrefix(y, Remap(x, y, r))
           /\ \A s \in Seq(Name) : IsPrefix(x, s) =>
                /\ Remap(x, y, s) = Remap(x, y, r) => s = r
                /\ IsPrefix(s, r) => IsPrefix(Remap(x, y, s), Remap(x, y, r))
<1> DEFINE m == Remap(x, y, r)
<1>1. Len(x) \in Nat /\ Len(y) \in Nat /\ Len(r) \in Nat /\ Len(x) <= Len(r)
  BY PrefixOfNames
<1>2. /\ m \in Seq(Name) /\ Len(m) = Len(y) + (Len(r) - Len(x))
      /\ \A n \in 1 .. Len(y) : m[n] = y[n]
      /\ \A n \in 1 .. Len(r) - Len(x) : m[Len(y) + n] = r[Len(x) + n]
  BY Remapped1
<1> HIDE DEF m
<1>3. IsPrefix(y, m)
  BY <1>1, <1>2, PrefixOfNames
<1>4. ASSUME NEW s \in Seq(Name), IsPrefix(x, s)
      PROVE  /\ Remap(x, y, s) = m => s = r
             /\ IsPrefix(s, r) => IsPrefix(Remap(x, y, s), m)
  <2> DEFINE o == Remap(x, y, s)
  <2>1. Len(s) \in Nat /\ Len(x) <= Len(s) /\ \A n \in 1 .. Len(x) : s[n] = x[n] /\ r[n] = x[n]
    BY <1>4, PrefixOfNames
  <2>2. /\ o \in Seq(Name) /\ Len(o) = Len(y) + (Len(s) - Len(x))
        /\ \A n \in 1 .. Len(y) : o[n] = y[n]
        /\ \A n \in 1 .. Len(s) - Len(x) : o[Len(y) + n] = s[Len(x) + n]
    BY <1>4, Remapped1
  <2> HIDE DEF o
  <2>3. ASSUME o = m PROVE s = r
    <3>1. Len(s) = Len(r)
      BY <1>1, <1>2, <2>1, <2>2, <2>3
    <3>2. \A n \in 1 .. Len(s) - Len(x) : s[Len(x) + n] = r[Len(x) + n]
      BY <1>2, <2>2, <2>3, <3>1
    <3>3. ASSUME NEW n \in 1 .. Len(s), n > Len(x) PROVE s[n] = r[n]
      <4>1. n - Len(x) \in 1 .. Len(s) - Len(x) /\ Len(x) + (n - Len(x)) = n
        BY <1>1, <2>1, <3>3
      <4> QED BY <3>2, <4>1
    <3>4. \A n \in 1 .. Len(s) : s[n] = r[n]
      BY <1>1, <2>1, <3>3
    <3> QED BY <3>1, <3>4
  <2>4. ASSUME IsPrefix(s, r) PROVE IsPrefix(o, m)
    <3>1. Len(s) <= Len(r) /\ \A n \in 1 .. Len(s) : s[n] = r[n]
      BY <2>4, PrefixOfNames
    <3>2. Len(o) <= Len(m)
      BY <1>1, <1>2, <2>1, <2>2, <3>1
    <3>3. ASSUME NEW n \in 1 .. Len(o), n > Len(y) PROVE o[n] = m[n]
      <4>1. /\ n - Len(y) \in 1 .. Len(s) - Len(x) /\ Len(y) + (n - Len(y)) = n
            /\ n - Len(y) \in 1 .. Len(r) - Len(x)
            /\ Len(x) + (n - Len(y)) \in 1 .. Len(s)
        BY <1>1, <2>1, <2>2, <3>1, <3>3
      <4> QED BY <1>2, <2>2, <3>1, <4>1
    <3>4. \A n \in 1 .. Len(o) : o[n] = m[n]
      BY <1>1, <1>2, <2>2, <3>3
    <3> QED BY <1>2, <2>2, <3>2, <3>4, PrefixOfNames
  <2> QED BY <2>3, <2>4 DEF o
<1> QED BY <1>2, <1>3, <1>4 DEF m

(* The paths of the instance: above a path are paths, its folder among them. *)
LEMMA AbovePath ==
    ASSUME NEW p \in Path, NEW s \in Seq(Name), IsPrefix(s, p), s # <<>>
    PROVE  /\ s \in Path
           /\ s # p => Len(p) > 1 /\ Parent(p) \in Path /\ IsPrefix(s, Parent(p))
<1>1. p \in Seq(Name) /\ Len(p) \in Nat /\ Len(s) \in Nat /\ Len(s) # 0
  BY SessionsAssumption
<1>2. Len(s) <= Len(p) /\ \A n \in 1 .. Len(s) : s[n] = p[n]
  BY <1>1, PrefixOfNames
<1>3. \A n \in 1 .. Len(p) :
        /\ SubSeq(p, 1, n) \in Path /\ SubSeq(p, 1, n) \in Seq(Name)
        /\ Len(SubSeq(p, 1, n)) = n
        /\ \A k \in 1 .. n : SubSeq(p, 1, n)[k] = p[k]
  BY <1>1, SessionsAssumption
<1>4. s = SubSeq(p, 1, Len(s))
  <2> DEFINE a == SubSeq(p, 1, Len(s))
  <2>1. a \in Seq(Name) /\ Len(a) = Len(s) /\ \A k \in 1 .. Len(s) : a[k] = s[k]
    BY <1>1, <1>2, <1>3
  <2> HIDE DEF a
  <2>2. s = a
    BY <2>1
  <2> QED BY <2>2 DEF a
<1>5. s \in Path
  <2>1. Len(s) \in 1 .. Len(p)
    BY <1>1, <1>2
  <2> QED BY <1>3, <1>4, <2>1
<1>6. ASSUME s # p PROVE Len(p) > 1 /\ Parent(p) \in Path /\ IsPrefix(s, Parent(p))
  <2>1. Len(s) # Len(p)
    BY <1>1, <1>2, <1>6
  <2>2. Len(p) - 1 \in 1 .. Len(p) /\ Len(s) <= Len(p) - 1
    BY <1>1, <1>2, <2>1
  <2>3. Parent(p) = SubSeq(p, 1, Len(p) - 1)
    BY DEF Parent, Front
  <2>4. Parent(p) \in Path /\ Parent(p) \in Seq(Name) /\ Len(Parent(p)) = Len(p) - 1
        /\ \A k \in 1 .. Len(p) - 1 : Parent(p)[k] = p[k]
    BY <1>3, <2>2, <2>3
  <2>5. IsPrefix(s, Parent(p))
    BY <1>1, <1>2, <2>2, <2>4, PrefixOfNames
  <2> QED BY <1>1, <2>2, <2>4, <2>5
<1> QED BY <1>5, <1>6

-----------------------------------------------------------------------------
(* Calls, of which one is a handler *)

LEMMA AppendsHandler ==
    ASSUME NEW q, IsSeq(q), AllLoads(q), NEW c
    PROVE  /\ IsSeq(Append(q, c)) /\ OneHandler(Append(q, c))
           /\ \A n \in DOMAIN Append(q, c) : Append(q, c)[n].kind = "load" \/ Append(q, c)[n] = c
<1> DEFINE r == Append(q, c)
<1>1. /\ IsSeq(r) /\ DOMAIN r = 1 .. Len(q) + 1 /\ DOMAIN q = 1 .. Len(q) /\ Len(q) \in Nat
      /\ \A n \in DOMAIN q : r[n] = q[n]
      /\ r[Len(q) + 1] = c
  BY AppendedSeq, ElementsOfSeq
<1> HIDE DEF r
<1>2. \A n \in DOMAIN r : n = Len(q) + 1 \/ (n \in DOMAIN q /\ r[n].kind = "load")
  BY <1>1 DEF AllLoads
<1>3. OneHandler(r) /\ \A n \in DOMAIN r : r[n].kind = "load" \/ r[n] = c
  BY <1>1, <1>2 DEF OneHandler
<1> QED BY <1>1, <1>3 DEF r

LEMMA RestOfHandlers ==
    ASSUME NEW q, IsSeq(q), q # <<>>, OneHandler(q)
    PROVE  /\ IsSeq(Tail(q)) /\ OneHandler(Tail(q)) /\ From(Tail(q), q)
           /\ Head(q) = q[1] /\ 1 \in DOMAIN q
           /\ Head(q).kind # "load" => AllLoads(Tail(q))
<1> DEFINE r == Tail(q)
<1>1. /\ IsSeq(r) /\ 1 \in DOMAIN q /\ Head(q) = q[1]
      /\ \A n \in DOMAIN r : n + 1 \in DOMAIN q /\ r[n] = q[n + 1]
  BY RestOfSeq
<1>2. \A n \in DOMAIN r : n \in Nat /\ n > 0
  BY <1>1, ElementsOfSeq
<1> HIDE DEF r
<1>3. OneHandler(r) /\ From(r, q)
  BY <1>1, <1>2 DEF OneHandler, From
<1>4. Head(q).kind # "load" => AllLoads(r)
  BY <1>1, <1>2 DEF OneHandler, AllLoads
<1> QED BY <1>1, <1>3, <1>4 DEF r

LEMMA LoadsOfHandlers ==
    ASSUME NEW q, IsSeq(q), OneHandler(q), NEW now
    PROVE  OneHandler(LoadsAgain(now, q)) /\ From(LoadsAgain(now, q), q)
<1> DEFINE at == {i \in DOMAIN q : q[i].kind # "load"}
           kept == Kept(q, at)
           load == [Call("load") EXCEPT !.doc = Head(now), !.reply = At(Head(now).path)]
           more == Append(kept, load)
<1>1. LoadsAgain(now, q) \in {kept, more}
  BY DEF LoadsAgain
<1>2. load.kind = "load"
  BY DEF Call
<1>3. at \in SUBSET DOMAIN q
  OBVIOUS
<1>4. IsSeq(kept)
  BY <1>3, KeptOnce
<1>5. PICK pos \in [DOMAIN kept -> at] :
        /\ \A n \in DOMAIN kept : kept[n] = q[pos[n]]
        /\ \A m, n \in DOMAIN kept : pos[m] = pos[n] => m = n
  BY <1>3, KeptOnce
<1> HIDE DEF kept, load
<1>6. \A n \in DOMAIN kept : pos[n] \in DOMAIN q /\ kept[n].kind # "load"
  BY <1>5
<1>7. OneHandler(kept) /\ From(kept, q)
  BY <1>5, <1>6 DEF OneHandler, From
<1>8. /\ DOMAIN more = 1 .. Len(kept) + 1 /\ DOMAIN kept = 1 .. Len(kept) /\ Len(kept) \in Nat
      /\ \A n \in DOMAIN kept : more[n] = kept[n]
      /\ more[Len(kept) + 1] = load
  BY <1>4, AppendedSeq, ElementsOfSeq
<1> HIDE DEF more
<1>9. \A n \in DOMAIN more : more[n].kind = "load" \/ (n \in DOMAIN kept /\ more[n] = kept[n])
  BY <1>2, <1>8
<1>10. OneHandler(more) /\ From(more, q)
  BY <1>7, <1>9 DEF OneHandler, From
<1> QED BY <1>1, <1>7, <1>10

(* However the store's documents change.                                     *)
LEMMA HandlersOfChange ==
    ASSUME NEW ds, NEW ac, NEW tr, NEW q, IsSeq(q), OneHandler(q),
           Become(ds, ac, tr, q) \/ DocsBecome(ds, q) \/ (docs' = ds /\ calls' = q)
    PROVE  docs' = ds /\ OneHandler(calls)' /\ From(calls', q)
<1>1. docs' = ds
  BY DEF Become, DocsBecome
<1>2. calls' = q \/ calls' = LoadsAgain(WithId(ds, ac), q) \/ calls' = LoadsAgain(WithId(ds, active), q)
  BY DEF Become, DocsBecome
<1>3. OneHandler(calls') /\ From(calls', q)
  <2>1. From(q, q)
    BY DEF From
  <2> QED BY <1>2, <2>1, LoadsOfHandlers
<1> QED BY <1>1, <1>3

LEMMA PlainHandlers ==
    ASSUME OneHandler(calls)', \A n \in DOMAIN calls' : Plain(calls'[n])
    PROVE  HandlersInv'
<1>1. ASSUME NEW n \in DOMAIN calls' PROVE Handler(calls[n])'
  <2>1. Plain(calls'[n])
    OBVIOUS
  <2> QED BY <2>1 DEF Plain, Handler
<1> QED BY <1>1 DEF HandlersInv

-----------------------------------------------------------------------------
(* Places and ways *)

LEMMA SameClaims ==
    ASSUME PathsApart(docs), SamePlaces(docs')
    PROVE  PathsApart(docs)' /\ NoNewClaim
<1>1. PathsApart(docs')
  <2>1. \A j \in DOMAIN docs' : docs'[j].path \in Seq(Name)
    BY DEF PathsApart, SamePlaces
  <2>2. ASSUME NEW i \in DOMAIN docs', NEW j \in DOMAIN docs', docs'[i].path = docs'[j].path
        PROVE  docs'[i].id = docs'[j].id
    <3>1. PICK k \in DOMAIN docs : docs'[i].id = docs[k].id /\ docs'[i].path = docs[k].path
      BY DEF SamePlaces
    <3>2. PICK m \in DOMAIN docs : docs'[j].id = docs[m].id /\ docs'[j].path = docs[m].path
      BY DEF SamePlaces
    <3> QED BY <2>2, <3>1, <3>2 DEF PathsApart
  <2> QED BY <2>1, <2>2 DEF PathsApart
<1>2. NoNewClaim
  BY DEF NoNewClaim, Claimed, SamePlaces
<1> QED BY <1>1, <1>2

LEMMA NothingMoves ==
    ASSUME WaysInv, NoNewClaim, NoNewWay
    PROVE  WaysInv'
<1>1. ASSUME NEW x \in Path, NEW y \in Path, Way(x, y)'
      PROVE  ~Meets(x, y)' /\ ~(Claimed(x) /\ Claimed(y))'
  BY <1>1 DEF WaysInv, NoNewClaim, NoNewWay
<1>2. ASSUME NEW x \in Path, NEW y \in Path, NEW u \in Path, NEW v \in Path, Way(x, y)', Way(u, v)'
      PROVE  Same(x, y, u, v) \/ (Off(u, x, y) /\ Off(v, x, y))
  BY <1>2 DEF WaysInv, NoNewWay
<1> QED BY <1>1, <1>2 DEF WaysInv

(* Notices that come, but for halves with a mate, make no way.               *)
LEMMA QuietNews ==
    ASSUME NewsInv, FewNews,
           \A m \in DOMAIN calls' :
              calls'[m].kind # "remap" \/ \E i \in DOMAIN calls : calls'[m] = calls[i]
    PROVE  NoNewWay
<1>1. ASSUME NEW x \in Path, NEW y \in Path, HalfOf(x, y)' PROVE HalfOf(x, y)
  <2>1. CASE notices' = notices
    BY <1>1, <2>1 DEF HalfOf
  <2>2. ASSUME NEW n, notices' = Append(notices, n), n.kind # "half" \/ n.mate = None
        PROVE  HalfOf(x, y)
    <3>1. /\ DOMAIN notices' = 1 .. Len(notices) + 1 /\ DOMAIN notices = 1 .. Len(notices)
          /\ Len(notices) \in Nat
          /\ \A i \in DOMAIN notices : notices'[i] = notices[i]
          /\ notices'[Len(notices) + 1] = n
      BY <2>2, AppendedSeq, ElementsOfSeq DEF NewsInv
    <3>2. y # None
      BY SessionsAssumption
    <3>3. PICK i \in DOMAIN notices' :
            notices'[i].kind = "half" /\ notices'[i].path = x /\ notices'[i].mate = y
      BY <1>1 DEF HalfOf
    <3>4. i # Len(notices) + 1
      BY <2>2, <3>1, <3>2, <3>3
    <3>5. i \in DOMAIN notices /\ notices[i] = notices'[i]
      BY <3>1, <3>4
    <3> QED BY <3>3, <3>5 DEF HalfOf
  <2> QED BY <2>1, <2>2 DEF FewNews
<1>2. ASSUME NEW x \in Path, NEW y \in Path, Way(x, y)' PROVE Way(x, y)
  <2>1. CASE (HalfOf(x, y) \/ Waits(x, y))' /\ HalfOf(y, x)'
    <3>1. HalfOf(x, y) \/ Waits(x, y)
      BY <1>1, <2>1 DEF Waits, FewNews
    <3>2. HalfOf(y, x)
      BY <1>1, <2>1
    <3> QED BY <3>1, <3>2 DEF Way
  <2>2. CASE \E i \in DOMAIN events' : events'[i].kind = "rename" /\ events'[i].path = x /\ events'[i].to = y
    BY <2>2 DEF Way, FewNews
  <2>3. CASE \E i \in DOMAIN calls' : calls'[i].kind = "remap" /\ calls'[i].path = x /\ calls'[i].to = y
    BY <2>3 DEF Way
  <2> QED BY <1>2, <2>1, <2>2, <2>3 DEF Way
<1> QED BY <1>2 DEF NoNewWay

(* A path of which nothing is told is off every way.                         *)
LEMMA CalmIsOff ==
    ASSUME NewsInv, races = {}, NEW r \in Path, Calm(r),
           \A i \in DOMAIN calls : calls[i].kind # "remap"
    PROVE  \A x, y \in Path : Way(x, y) => Off(r, x, y)
<1>1. ~Told(r)
  BY DEF Calm, Admits
<1>2. ASSUME NEW x \in Path, NEW y \in Path, Way(x, y) PROVE Off(r, x, y)
  <2>1. y # <<>>
    BY SessionsAssumption
  <2>2. CASE (HalfOf(x, y) \/ Waits(x, y)) /\ HalfOf(y, x)
    BY <1>1, <2>2 DEF Told, HalfOf, Waits, Off
  <2>3. CASE \E i \in DOMAIN events : events[i].kind = "rename" /\ events[i].path = x /\ events[i].to = y
    BY <1>1, <2>1, <2>3 DEF Told, Off
  <2> QED BY <1>2, <2>2, <2>3 DEF Way
<1> QED BY <1>2

-----------------------------------------------------------------------------
(* What sessions do to paths: stay, open, move *)

(* The sessions keep their paths, and no handler is on its way that a rename *)
(* could disturb.                                                            *)
LEMMA PlainStep ==
    ASSUME PathsInv, FewNews,
           NEW q, IsSeq(q), OneHandler(q), \A n \in DOMAIN q : Plain(q[n]),
           NEW ds, SamePlaces(ds), NEW ac, NEW tr,
           Become(ds, ac, tr, q) \/ DocsBecome(ds, q) \/ (docs' = ds /\ calls' = q)
    PROVE  StaysApart
<1>1. docs' = ds /\ OneHandler(calls)' /\ From(calls', q)
  BY HandlersOfChange
<1>2. \A n \in DOMAIN calls' : Plain(calls'[n])
  BY <1>1 DEF From, Plain
<1>3. HandlersInv'
  BY <1>1, <1>2, PlainHandlers
<1>4. NoNewWay
  <2>1. \A n \in DOMAIN calls' : calls'[n].kind # "remap"
    BY <1>2 DEF Plain
  <2> QED BY <2>1, QuietNews DEF PathsInv
<1>5. PathsApart(docs)' /\ NoNewClaim
  BY <1>1, SameClaims DEF PathsInv
<1>6. WaysInv'
  BY <1>4, <1>5, NothingMoves DEF PathsInv
<1> QED BY <1>3, <1>5, <1>6 DEF StaysApart

(* The person asks, or a handler goes on.                                    *)
LEMMA PlainAsk ==
    ASSUME PathsInv, FewNews, NEW q, IsSeq(q), AllLoads(q), NEW c, Plain(c),
           NEW ds, SamePlaces(ds), NEW ac, NEW tr,
           \/ Become(ds, ac, tr, Append(q, c)) \/ DocsBecome(ds, Append(q, c))
           \/ docs' = ds /\ calls' = Append(q, c)
    PROVE  StaysApart
<1> DEFINE r == Append(q, c)
<1>1. IsSeq(r) /\ OneHandler(r) /\ \A n \in DOMAIN r : r[n].kind = "load" \/ r[n] = c
  BY AppendsHandler
<1>2. \A n \in DOMAIN r : Plain(r[n])
  BY <1>1 DEF Plain
<1> HIDE DEF r
<1>3. Become(ds, ac, tr, r) \/ DocsBecome(ds, r) \/ (docs' = ds /\ calls' = r)
  BY DEF r
<1> QED BY <1>1, <1>2, <1>3, PlainStep

LEMMA LoadsArePlain ==
    ASSUME NEW q, AllLoads(q)
    PROVE  OneHandler(q) /\ \A n \in DOMAIN q : Plain(q[n])
BY DEF AllLoads, OneHandler, Plain

LEMMA PlacesOfEach ==
    ASSUME NEW ds, DOMAIN ds = DOMAIN docs,
           \A i \in DOMAIN docs : ds[i].id = docs[i].id /\ ds[i].path = docs[i].path
    PROVE  SamePlaces(ds)
BY DEF SamePlaces

LEMMA PlacesOfKept ==
    ASSUME SessionsInv, NEW at \in SUBSET DOMAIN docs
    PROVE  SamePlaces(Kept(docs, at))
<1> DEFINE ds == Kept(docs, at)
<1>1. \A n \in DOMAIN ds : \E i \in at : ds[n] = docs[i]
  BY KeptAreApart DEF SessionsInv
<1> HIDE DEF ds
<1>2. SamePlaces(ds)
  BY <1>1 DEF SamePlaces
<1> QED BY <1>2 DEF ds

LEMMA OpenedPlaces ==
    ASSUME SessionsInv, NEW r, NEW status, NEW stamp, NEW shows
    PROVE  LET ds == OpenDocument(NewDoc(r, status, stamp, shows))
           IN  \A j \in DOMAIN ds :
                 \/ \E i \in DOMAIN docs : ds[j] = docs[i]
                 \/ /\ ds[j].path = r /\ ds[j].id = opened + 1
                    /\ \A i \in DOMAIN docs : docs[i].path # r
<1> DEFINE d == NewDoc(r, status, stamp, shows)
           has == {i \in DOMAIN docs : docs[i].path = d.path}
           old == Existing(d)
           at == {i \in DOMAIN docs : Protected(docs[i])
                                       \/ (old # <<>> /\ docs[i].id = Head(old).id)}
           kept == Kept(docs, at)
           more == Append(kept, d)
<1>1. d.path = r /\ d.id = opened + 1
  BY DEF NewDoc
<1> HIDE DEF d
<1>2. ASSUME old = <<>> PROVE \A i \in DOMAIN docs : docs[i].path # r
  <2>1. old = Kept(docs, has) /\ has \in SUBSET DOMAIN docs
    BY DEF Existing
  <2>2. \A i \in has : \E n \in DOMAIN Kept(docs, has) : Kept(docs, has)[n] = docs[i]
    BY <2>1, KeptAreApart DEF SessionsInv
  <2>3. \A i \in has : FALSE
    <3>1. DOMAIN Kept(docs, has) = {}
      BY <1>2, <2>1
    <3> QED BY <2>2, <3>1
  <2> QED BY <1>1, <2>3
<1>3. IsSeq(kept) /\ \A n \in DOMAIN kept : \E i \in DOMAIN docs : kept[n] = docs[i]
  <2>1. at \in SUBSET DOMAIN docs
    OBVIOUS
  <2> HIDE DEF at
  <2>2. AreApart(kept, opened) /\ \A n \in DOMAIN kept : \E i \in at : kept[n] = docs[i]
    BY <2>1, KeptAreApart DEF SessionsInv
  <2> HIDE DEF kept
  <2> QED BY <2>1, <2>2 DEF AreApart
<1>4. OpenDocument(d) = IF old # <<>> THEN kept ELSE more
  BY DEF OpenDocument
<1> HIDE DEF kept, old
<1>5. \A n \in DOMAIN more : (n \in DOMAIN kept /\ more[n] = kept[n]) \/ more[n] = d
  <2>1. /\ DOMAIN more = 1 .. Len(kept) + 1 /\ DOMAIN kept = 1 .. Len(kept) /\ Len(kept) \in Nat
        /\ \A n \in DOMAIN kept : more[n] = kept[n]
        /\ more[Len(kept) + 1] = d
    BY <1>3, AppendedSeq, ElementsOfSeq
  <2> QED BY <2>1
<1> HIDE DEF more
<1> DEFINE ds == OpenDocument(d)
<1>6. CASE old # <<>>
  <2>1. ds = kept
    BY <1>4, <1>6
  <2> QED BY <1>3, <2>1 DEF d
<1>7. CASE old = <<>>
  <2>1. ds = more
    BY <1>4, <1>7
  <2>2. \A j \in DOMAIN more :
          \/ \E i \in DOMAIN docs : more[j] = docs[i]
          \/ more[j] = d
    BY <1>3, <1>5
  <2> HIDE DEF ds
  <2>3. \A j \in DOMAIN ds :
          \/ \E i \in DOMAIN docs : ds[j] = docs[i]
          \/ /\ ds[j].path = r /\ ds[j].id = opened + 1
             /\ \A i \in DOMAIN docs : docs[i].path # r
    BY <1>1, <1>2, <1>7, <2>1, <2>2
  <2> QED BY <2>3 DEF ds, d
<1> QED BY <1>6, <1>7

(* A session at a path that no rename takes from under it.                   *)
LEMMA OpeningPath ==
    ASSUME SessionsInv, PathsInv, FewNews, NEW r \in Path, NEW status, NEW stamp, NEW shows,
           NEW ac, NEW tr, NEW q, IsSeq(q), AllLoads(q),
           Become(OpenDocument(NewDoc(r, status, stamp, shows)), ac, tr, q),
           \A x, y \in Path : Way(x, y) =>
              \/ Off(r, x, y)
              \/ IsPrefix(x, r) /\ ~Claimed(y)
              \/ IsPrefix(y, r) /\ ~Claimed(x)
    PROVE  StaysApart
<1> DEFINE ds == OpenDocument(NewDoc(r, status, stamp, shows))
<1>1. \A j \in DOMAIN ds :
        \/ \E i \in DOMAIN docs : ds[j] = docs[i]
        \/ /\ ds[j].path = r /\ ds[j].id = opened + 1
           /\ \A i \in DOMAIN docs : docs[i].path # r
  BY OpenedPlaces
<1> HIDE DEF ds
<1>2. docs' = ds /\ OneHandler(calls)' /\ From(calls', q)
  BY LoadsArePlain, HandlersOfChange DEF ds
<1>3. \A n \in DOMAIN calls' : calls'[n].kind = "load"
  BY <1>2 DEF From, AllLoads
<1>4. HandlersInv'
  BY <1>2, <1>3, PlainHandlers DEF Plain
<1>5. NoNewWay
  <2>1. \A n \in DOMAIN calls' : calls'[n].kind # "remap"
    BY <1>3
  <2> QED BY <2>1, QuietNews DEF PathsInv
<1>6. PathsApart(ds)
  <2>1. r \in Seq(Name)
    BY SessionsAssumption
  <2> QED BY <1>1, <2>1 DEF PathsInv, PathsApart
<1>7. \A x \in Path : Claimed(x)' => Claimed(x) \/ IsPrefix(x, r)
  BY <1>1, <1>2 DEF Claimed
<1>8. ASSUME NEW x \in Path, NEW y \in Path, Way(x, y)'
      PROVE  ~Meets(x, y) /\ ~(Claimed(x) /\ Claimed(y))'
  <2>1. Way(x, y) /\ ~Meets(x, y) /\ ~(Claimed(x) /\ Claimed(y))
    BY <1>5, <1>8 DEF NoNewWay, PathsInv, WaysInv
  <2>2. x \in Seq(Name) /\ y \in Seq(Name) /\ r \in Seq(Name)
    BY SessionsAssumption
  <2>3. CASE Off(r, x, y)
    BY <1>7, <2>1, <2>3 DEF Off, Meets
  <2>4. CASE IsPrefix(x, r) /\ ~Claimed(y)
    <3>1. ~IsPrefix(y, r)
      BY <2>1, <2>2, <2>4, PrefixOrder
    <3> QED BY <1>7, <2>1, <2>4, <3>1
  <2>5. CASE IsPrefix(y, r) /\ ~Claimed(x)
    <3>1. ~IsPrefix(x, r)
      BY <2>1, <2>2, <2>5, PrefixOrder
    <3> QED BY <1>7, <2>1, <2>5, <3>1
  <2> QED BY <2>1, <2>3, <2>4, <2>5
<1>9. \A x, y, u, v \in Path :
        Way(x, y)' /\ Way(u, v)' => Same(x, y, u, v) \/ (Off(u, x, y) /\ Off(v, x, y))
  BY <1>5 DEF NoNewWay, PathsInv, WaysInv
<1>10. WaysInv'
  BY <1>8, <1>9 DEF WaysInv
<1> QED BY <1>2, <1>4, <1>6, <1>10 DEF StaysApart

(* The sessions under u move to v.                                           *)
LEMMA MovedPaths ==
    ASSUME PathsApart(docs), WaysInv, NoNewWay, NEW u \in Path, NEW v \in Path, Way(u, v),
           \A j \in DOMAIN docs' : \E i \in DOMAIN docs :
              docs'[j].id = docs[i].id /\ docs'[j].path = Remap(u, v, docs[i].path)
    PROVE  /\ PathsApart(docs)' /\ WaysInv'
           /\ \A x \in Path : Off(x, u, v) /\ Claimed(x)' => Claimed(x)
<1>1. u \in Seq(Name) /\ v \in Seq(Name) /\ ~Meets(u, v) /\ ~(Claimed(u) /\ Claimed(v))
  BY SessionsAssumption DEF WaysInv
<1>2. ASSUME NEW p \in Seq(Name)
      PROVE  \/ /\ IsPrefix(u, p) /\ Remap(u, v, p) \in Seq(Name) /\ IsPrefix(v, Remap(u, v, p))
             \/ ~IsPrefix(u, p) /\ Remap(u, v, p) = p
  BY <1>1, RemapMoves DEF Remap
<1>3. \A i \in DOMAIN docs : docs[i].path \in Seq(Name)
  BY DEF PathsApart
<1>4. \A j \in DOMAIN docs' : docs'[j].path \in Seq(Name)
  BY <1>2, <1>3
<1>5. ASSUME NEW i \in DOMAIN docs, NEW j \in DOMAIN docs,
             Remap(u, v, docs[i].path) = Remap(u, v, docs[j].path)
      PROVE  docs[i].path = docs[j].path
  <2>1. CASE IsPrefix(u, docs[i].path) /\ IsPrefix(u, docs[j].path)
    <3> DEFINE a == docs[i].path
               b == docs[j].path
    <3>1. a \in Seq(Name) /\ b \in Seq(Name) /\ IsPrefix(u, a) /\ IsPrefix(u, b)
      BY <1>3, <2>1
    <3>2. Remap(u, v, b) = Remap(u, v, a)
      BY <1>5
    <3> HIDE DEF a, b
    <3>3. b = a
      BY <1>1, <3>1, <3>2, RemapMoves
    <3> QED BY <3>3 DEF a, b
  <2>2. CASE ~IsPrefix(u, docs[i].path) /\ ~IsPrefix(u, docs[j].path)
    BY <1>2, <1>3, <1>5, <2>2
  <2>3. ASSUME NEW m \in DOMAIN docs, NEW n \in DOMAIN docs,
               Remap(u, v, docs[m].path) = Remap(u, v, docs[n].path),
               IsPrefix(u, docs[m].path), ~IsPrefix(u, docs[n].path)
        PROVE  FALSE
    <3>1. IsPrefix(v, docs[n].path)
      BY <1>2, <1>3, <2>3
    <3> QED BY <1>1, <2>3, <3>1 DEF Claimed
  <2> QED BY <1>5, <2>1, <2>2, <2>3
<1>6. PathsApart(docs')
  <2>1. ASSUME NEW m \in DOMAIN docs', NEW n \in DOMAIN docs', docs'[m].path = docs'[n].path
        PROVE  docs'[m].id = docs'[n].id
    <3>1. PICK i \in DOMAIN docs : docs'[m].id = docs[i].id /\ docs'[m].path = Remap(u, v, docs[i].path)
      OBVIOUS
    <3>2. PICK j \in DOMAIN docs : docs'[n].id = docs[j].id /\ docs'[n].path = Remap(u, v, docs[j].path)
      OBVIOUS
    <3>3. Remap(u, v, docs[i].path) = Remap(u, v, docs[j].path)
      BY <2>1, <3>1, <3>2
    <3>4. docs[i].path = docs[j].path
      BY <1>5, <3>3
    <3> QED BY <3>1, <3>2, <3>4 DEF PathsApart
  <2> QED BY <1>4, <2>1 DEF PathsApart
<1>7. ASSUME NEW x \in Path, Claimed(x)', x = u \/ Off(x, u, v) PROVE x # u /\ Claimed(x)
  <2>1. PICK j \in DOMAIN docs' : IsPrefix(x, docs'[j].path)
    BY <1>7 DEF Claimed
  <2>2. PICK i \in DOMAIN docs : docs'[j].path = Remap(u, v, docs[i].path)
    OBVIOUS
  <2>3. x \in Seq(Name) /\ ~Meets(x, v)
    BY <1>1, <1>7, SessionsAssumption DEF Off
  <2>4. ~IsPrefix(v, docs'[j].path)
    BY <1>1, <1>4, <2>1, <2>3, PrefixOrder
  <2>5. ~IsPrefix(u, docs[i].path) /\ docs'[j].path = docs[i].path
    BY <1>2, <1>3, <2>2, <2>4
  <2> QED BY <2>1, <2>5 DEF Claimed
<1>8. ASSUME NEW x \in Path, NEW y \in Path, Way(x, y)'
      PROVE  ~Meets(x, y) /\ ~(Claimed(x) /\ Claimed(y))'
  <2>1. Way(x, y) /\ ~Meets(x, y) /\ ~(Claimed(x) /\ Claimed(y))
    BY <1>8 DEF NoNewWay, WaysInv
  <2>2. CASE Same(x, y, u, v)
    BY <1>7, <2>1, <2>2 DEF Same
  <2>3. CASE Off(u, x, y) /\ Off(v, x, y)
    <3>1. Off(x, u, v) /\ Off(y, u, v)
      BY <2>3 DEF Off, Meets
    <3> QED BY <1>7, <2>1, <3>1
  <2> QED BY <2>1, <2>2, <2>3 DEF WaysInv
<1>9. \A x, y, w, z \in Path :
        Way(x, y)' /\ Way(w, z)' => Same(x, y, w, z) \/ (Off(w, x, y) /\ Off(z, x, y))
  BY DEF NoNewWay, WaysInv
<1>10. WaysInv'
  BY <1>8, <1>9 DEF WaysInv
<1> QED BY <1>6, <1>7, <1>10

-----------------------------------------------------------------------------
(* The person *)

LEMMA SamePlacesOfDocs == SamePlaces(docs)
BY DEF SamePlaces

(* A stamp is not the mark of a path that holds nothing.                     *)
LEMMA StampIsThere ==
    ASSUME TypesInv, NEW p \in Path, stamps' = stamps + 1, disk' = [disk EXCEPT ![p] = stamps']
    PROVE  disk'[p] # Gone /\ \A q \in Path : q # p => disk'[q] = disk[q]
<1>1. disk \in [Path -> {Gone, Folder} \cup 1 .. stamps] /\ stamps \in Nat
  BY DEF TypesInv, FilesTyped, Disks
<1>2. stamps' \in Nat /\ Gone \notin Nat
  BY <1>1, SessionsAssumption
<1> QED BY <1>1, <1>2

LEMMA GoesApart ==
    ASSUME SessionsInv, TypesInv, PathsInv, races = {},
           NEW q, IsSeq(q), AllLoads(q),
           \A i \in DOMAIN calls : calls[i].kind # "remap",
           NEW then, then.do \in {"open", "link"} => then.path \in Path,
           Goes(then, q), events' = events, pending' = pending
    PROVE  StaysApart
<1>0. OneHandler(q) /\ (\A n \in DOMAIN q : Plain(q[n])) /\ SamePlaces(docs)
  BY LoadsArePlain, SamePlacesOfDocs
<1>1. CASE notices' = notices /\ docs' = docs /\ calls' = q
  <2>1. FewNews
    BY <1>1 DEF FewNews
  <2> QED BY <1>0, <1>1, <2>1, PlainStep
<1>2. CASE /\ then.do = "open" /\ Calm(then.path) /\ notices' = notices
           /\ Opens(NewDoc(then.path, "loading", then.stamp, None), q)
  <2> DEFINE ac == OpenedId(NewDoc(then.path, "loading", then.stamp, None))
             r == then.path
  <2>1. FewNews /\ r \in Path
    BY <1>2 DEF FewNews
  <2>2. Become(OpenDocument(NewDoc(r, "loading", then.stamp, None)), ac, tree, q)
    BY <1>2 DEF Opens
  <2>3. \A x, y \in Path : Way(x, y) => Off(r, x, y)
    BY <1>2, <2>1, CalmIsOff DEF PathsInv
  <2> HIDE DEF ac, r
  <2> QED BY <2>1, <2>2, <2>3, OpeningPath
<1>3. CASE /\ then.do = "link" /\ Calm(then.path) /\ notices' = notices /\ docs' = docs
           /\ \E reply : calls' = Append(q, [Call("link") EXCEPT !.path = then.path, !.reply = reply])
  <2>1. PICK reply : calls' = Append(q, [Call("link") EXCEPT !.path = then.path, !.reply = reply])
    BY <1>3
  <2> DEFINE c == [Call("link") EXCEPT !.path = then.path, !.reply = reply]
  <2>2. c.kind = "link" /\ c.path = then.path
    BY DEF Call
  <2> HIDE DEF c
  <2>3. OneHandler(calls)' /\ \A n \in DOMAIN calls' : calls'[n].kind = "load" \/ calls'[n] = c
    BY <2>1, AppendsHandler DEF c
  <2>4. NoNewWay
    <3>1. FewNews
      BY <1>3 DEF FewNews
    <3>2. \A n \in DOMAIN calls' : calls'[n].kind # "remap"
      BY <2>2, <2>3
    <3> QED BY <3>1, <3>2, QuietNews DEF PathsInv
  <2>5. \A x, y \in Path : Way(x, y) => Off(then.path, x, y)
    BY <1>3, CalmIsOff DEF PathsInv
  <2>6. ASSUME NEW n \in DOMAIN calls' PROVE Handler(calls[n])'
    <3>1. CASE calls'[n].kind = "load"
      BY <3>1 DEF Handler
    <3>2. CASE calls'[n] = c
      <4>1. calls'[n].kind = "link" /\ calls'[n].path = then.path
        BY <2>2, <3>2
      <4>2. \A x, y \in Path : Way(x, y)' => Off(calls'[n].path, x, y)
        BY <2>4, <2>5, <4>1 DEF NoNewWay
      <4> QED BY <1>3, <4>1, <4>2 DEF Handler
    <3> QED BY <2>3, <3>1, <3>2
  <2>7. PathsApart(docs)' /\ NoNewClaim
    BY <1>0, <1>3, SameClaims DEF PathsInv
  <2>8. WaysInv'
    BY <2>4, <2>7, NothingMoves DEF PathsInv
  <2> QED BY <2>3, <2>6, <2>7, <2>8 DEF StaysApart, HandlersInv
<1>4. CASE then.do = "close" /\ DocsBecome(Without(then.stamp), q) /\ notices' = notices
  <2>1. FewNews
    BY <1>4 DEF FewNews
  <2>2. SamePlaces(Without(then.stamp))
    BY PlacesOfKept DEF Without
  <2> QED BY <1>0, <1>4, <2>1, <2>2, PlainStep
<1>5. ASSUME then.do = "create", docs' = docs, NEW p \in Names(then.path),
             stamps' = stamps + 1, disk' = [disk EXCEPT ![p] = stamps'],
             notices' = Append(notices, [kind |-> "create", path |-> p, mate |-> None]),
             calls' = Append(q, [Call("create") EXCEPT !.path = p, !.reply = stamps'])
      PROVE  StaysApart
  <2> DEFINE c == [Call("create") EXCEPT !.path = p, !.reply = stamps']
             new == [kind |-> "create", path |-> p, mate |-> None]
  <2>1. p \in Files /\ p \in Path /\ Calm(p)
    BY DEF Names, Free, Path
  <2>2. c.kind = "create" /\ c.path = p
    BY DEF Call
  <2> HIDE DEF c
  <2>3. OneHandler(calls)' /\ \A n \in DOMAIN calls' : calls'[n].kind = "load" \/ calls'[n] = c
    BY <1>5, AppendsHandler DEF c
  <2>4. NoNewWay
    <3>1. FewNews
      <4>1. new.mate = None /\ notices' = Append(notices, new)
        BY <1>5
      <4> HIDE DEF new
      <4> QED BY <4>1 DEF FewNews
    <3>2. \A n \in DOMAIN calls' : calls'[n].kind # "remap"
      BY <2>2, <2>3
    <3> QED BY <3>1, <3>2, QuietNews DEF PathsInv
  <2>5. \A x, y \in Path : Way(x, y) => Off(p, x, y)
    BY <2>1, CalmIsOff DEF PathsInv
  <2>6. disk'[p] # Gone
    BY <1>5, <2>1, StampIsThere
  <2>7. ASSUME NEW n \in DOMAIN calls' PROVE Handler(calls[n])'
    <3>1. CASE calls'[n].kind = "load"
      BY <3>1 DEF Handler
    <3>2. CASE calls'[n] = c
      <4>1. calls'[n].kind = "create" /\ calls'[n].path = p
        BY <2>2, <3>2
      <4>2. \A x, y \in Path : Way(x, y)' => Off(calls'[n].path, x, y)
        BY <2>4, <2>5, <4>1 DEF NoNewWay
      <4> QED BY <2>1, <2>6, <4>1, <4>2 DEF Handler
    <3> QED BY <2>3, <3>1, <3>2
  <2>8. PathsApart(docs)' /\ NoNewClaim
    BY <1>0, <1>5, SameClaims DEF PathsInv
  <2>9. WaysInv'
    BY <2>4, <2>8, NothingMoves DEF PathsInv
  <2> QED BY <2>3, <2>7, <2>8, <2>9 DEF StaysApart, HandlersInv
<1> QED BY <1>1, <1>2, <1>3, <1>4, <1>5 DEF Goes, screen

(* A save begins, while the person waits for nothing else.                   *)
LEMMA SaveApart ==
    ASSUME SessionsInv, PathsInv, Idle, NEW then,
           then.do \in {"open", "link"} => then.path \in Path,
           SaveThen(then), events' = events, pending' = pending
    PROVE  StaysApart
<1> DEFINE c == [Call("inspect") EXCEPT !.doc = Active, !.then = then, !.reply = At(Active.path)]
<1>1. c.kind = "inspect" /\ c.then = then
  BY DEF Call
<1>2. docs' = docs /\ calls' = Append(calls, c) /\ notices' = notices
  BY DEF SaveThen, screen
<1> HIDE DEF c
<1>3. Plain(c) /\ FewNews /\ AllLoads(calls) /\ IsSeq(calls)
  BY <1>1, <1>2 DEF Plain, FewNews, Idle, AllLoads, SessionsInv, AreInOrder
<1> QED BY <1>2, <1>3, SamePlacesOfDocs, PlainAsk

LEMMA TransitionApart ==
    ASSUME SessionsInv, TypesInv, PathsInv, races = {}, Idle, NEW then,
           then.do \in {"open", "link"} => then.path \in Path,
           Transition(then), events' = events, pending' = pending
    PROVE  StaysApart
<1>1. CASE HasActive /\ Active.dirty
  BY <1>1, SaveApart DEF Transition
<1>2. CASE ~(HasActive /\ Active.dirty)
  <2>1. IsSeq(calls) /\ AllLoads(calls) /\ \A i \in DOMAIN calls : calls[i].kind # "remap"
    BY DEF Idle, AllLoads, SessionsInv, AreInOrder
  <2> QED BY <1>2, <2>1, GoesApart DEF Transition
<1> QED BY <1>1, <1>2

(* A handler that waits goes on waiting.                                     *)
LEMMA HandlersLast ==
    ASSUME PathsInv, NoNewClaim, NoNewWay, KeepsTelling,
           disk' = disk \/ \A i \in DOMAIN calls : calls[i].kind # "create",
           OneHandler(calls)', From(calls', calls)
    PROVE  HandlersInv'
<1>1. ASSUME NEW n \in DOMAIN calls' PROVE Handler(calls[n])'
  <2>1. CASE calls'[n].kind = "load"
    BY <2>1 DEF Handler
  <2>2. ASSUME NEW i \in DOMAIN calls, NEW c, c = calls[i], calls'[n] = c
        PROVE  Handler(calls[n])'
    <3>0. Handler(calls[i])
      BY DEF PathsInv, HandlersInv
    <3>1. Handler(c) /\ (c.kind = "create" => disk' = disk) /\ Files \subseteq Path
      BY <2>2, <3>0 DEF Path
    <3>2. c.kind \in {"link", "create"} => \A x, y \in Path : Way(x, y)' => Off(c.path, x, y)
      BY <3>1 DEF Handler, NoNewWay
    <3>3. ASSUME c.kind = "refresh", c.then.do = "open"
          PROVE  /\ c.ahead \in 0 .. Len(events')
                 /\ disk'[c.then.path] # Gone \/ GoneTold(c.then.path, c.ahead)'
                 /\ \A x, y \in Path : Way(x, y)' =>
                      \/ Off(c.then.path, x, y)
                      \/ /\ Later(x, y, c.ahead)'
                         /\ \/ IsPrefix(x, c.then.path) /\ ~Claimed(y)'
                            \/ IsPrefix(y, c.then.path) /\ ~Claimed(x)'
      <4> DEFINE f == c.then.path
                 k == c.ahead
      <4>1. /\ f \in Files /\ k \in 0 .. Len(events)
            /\ disk[f] # Gone \/ GoneTold(f, k)
            /\ \A x, y \in Path : Way(x, y) =>
                 \/ Off(f, x, y)
                 \/ /\ Later(x, y, k)
                    /\ \/ IsPrefix(x, f) /\ ~Claimed(y)
                       \/ IsPrefix(y, f) /\ ~Claimed(x)
        BY <3>1, <3>3 DEF Handler
      <4> HIDE DEF f, k
      <4>2. k \in 0 .. Len(events')
        BY <4>1 DEF KeepsTelling
      <4>3. disk'[f] # Gone \/ GoneTold(f, k)'
        <5>1. Scanned(k)
          BY <2>2, <3>3 DEF Scanned, k
        <5> QED BY <4>1, <5>1 DEF KeepsTelling
      <4>4. \A x, y \in Path : Later(x, y, k) => Later(x, y, k)'
        BY <4>1 DEF KeepsTelling
      <4>5. \A x, y \in Path : Way(x, y)' =>
                 \/ Off(f, x, y)
                 \/ /\ Later(x, y, k)'
                    /\ \/ IsPrefix(x, f) /\ ~Claimed(y)'
                       \/ IsPrefix(y, f) /\ ~Claimed(x)'
        BY <4>1, <4>4 DEF NoNewWay, NoNewClaim
      <4> QED BY <4>2, <4>3, <4>5 DEF f, k
    <3> QED BY <2>2, <3>1, <3>2, <3>3 DEF Handler
  <2> QED BY <2>1, <2>2 DEF From
<1> QED BY <1>1 DEF HandlersInv

LEMMA SameTelling ==
    ASSUME NewsInv, events' = events, notices' = notices, pending' = pending, disk' = disk
    PROVE  KeepsTelling
<1>1. Len(events) \in Nat
  BY ElementsOfSeq DEF NewsInv
<1> QED BY <1>1 DEF KeepsTelling, GoneTold, Later

(* Nothing happens to paths, and the handler waits.                          *)
LEMMA WaitingStep ==
    ASSUME PathsInv, SamePlaces(docs'), events' = events, notices' = notices, pending' = pending,
           disk' = disk, OneHandler(calls)', From(calls', calls)
    PROVE  StaysApart
<1>1. PathsApart(docs)' /\ NoNewClaim
  BY SameClaims DEF PathsInv
<1>2. NoNewWay
  BY QuietNews DEF From, FewNews, PathsInv
<1>3. HandlersInv'
  BY <1>1, <1>2, SameTelling, HandlersLast DEF PathsInv
<1>4. WaysInv'
  BY <1>1, <1>2, NothingMoves DEF PathsInv
<1> QED BY <1>1, <1>3, <1>4 DEF StaysApart

LEMMA EditApart ==
    ASSUME SessionsInv, PathsInv, Edit
    PROVE  StaysApart
<1>1. /\ DOMAIN docs' = DOMAIN docs
      /\ \A i \in DOMAIN docs : docs'[i] = IF docs[i].id = active
                                             THEN [docs[i] EXCEPT !.dirty = TRUE] ELSE docs[i]
  BY DEF Edit, Each, Only, sent
<1>2. \A i \in DOMAIN docs : docs'[i].id = docs[i].id /\ docs'[i].path = docs[i].path
  BY <1>1 DEF SessionsInv, AreApart, IsDoc
<1>3. SamePlaces(docs')
  BY <1>1, <1>2, PlacesOfEach
<1>4. OneHandler(calls)' /\ From(calls', calls)
  BY DEF Edit, From, PathsInv, HandlersInv, OneHandler, sent
<1> QED BY <1>3, <1>4, WaitingStep DEF Edit, watcher, sent

LEMMA JoinedSeq ==
    ASSUME NEW s, IsSeq(s), NEW t, IsSeq(t)
    PROVE  /\ IsSeq(s \o t) /\ Len(s \o t) = Len(s) + Len(t)
           /\ \A n \in DOMAIN s : n \in DOMAIN (s \o t) /\ (s \o t)[n] = s[n]
           /\ \A n \in DOMAIN t : Len(s) + n \in DOMAIN (s \o t) /\ (s \o t)[Len(s) + n] = t[n]
           /\ \A n \in DOMAIN (s \o t) :
                \/ n \in DOMAIN s
                \/ n > Len(s) /\ n - Len(s) \in DOMAIN t /\ (s \o t)[n] = t[n - Len(s)]
<1> DEFINE X == {s[i] : i \in DOMAIN s} \cup {t[i] : i \in DOMAIN t}
           r == s \o t
<1>1. s \in Seq(X) /\ t \in Seq(X)
  BY DEF IsSeq
<1>2. /\ Len(s) \in Nat /\ Len(t) \in Nat /\ DOMAIN s = 1 .. Len(s) /\ DOMAIN t = 1 .. Len(t)
  BY ElementsOfSeq
<1> HIDE DEF X
<1>3. r \in Seq(X)
  BY <1>1
<1>4. Len(r) = Len(s) + Len(t)
  BY <1>1
<1>5. \A n \in 1 .. Len(s) + Len(t) : r[n] = IF n <= Len(s) THEN s[n] ELSE t[n - Len(s)]
  BY <1>1
<1> HIDE DEF r
<1>6. DOMAIN r = 1 .. Len(s) + Len(t)
  BY <1>3, <1>4
<1>7. IsSeq(r)
  BY <1>3, SeqOfItself
<1>8. \A n \in DOMAIN s : n \in DOMAIN r /\ r[n] = s[n]
  BY <1>2, <1>5, <1>6
<1>9. ASSUME NEW n \in DOMAIN t PROVE Len(s) + n \in DOMAIN r /\ r[Len(s) + n] = t[n]
  <2>1. Len(s) + n \in 1 .. Len(s) + Len(t) /\ ~(Len(s) + n <= Len(s)) /\ Len(s) + n - Len(s) = n
    BY <1>2
  <2> QED BY <1>5, <1>6, <2>1
<1>10. \A n \in DOMAIN r :
         n \in DOMAIN s \/ (n > Len(s) /\ n - Len(s) \in DOMAIN t /\ r[n] = t[n - Len(s)])
  BY <1>2, <1>5, <1>6
<1> QED BY <1>4, <1>7, <1>8, <1>9, <1>10 DEF r

LEMMA ShortSeqs ==
    /\ IsSeq(<<>>) /\ DOMAIN <<>> = {}
    /\ \A a : IsSeq(<<a>>) /\ DOMAIN <<a>> = {1}
    /\ \A a, b : IsSeq(<<a, b>>) /\ DOMAIN <<a, b>> = {1, 2}
<1>1. IsSeq(<<>>) /\ DOMAIN <<>> = {}
  BY DEF IsSeq
<1>2. ASSUME NEW a PROVE IsSeq(<<a>>) /\ DOMAIN <<a>> = {1}
  <2>1. <<a>> \in Seq({a}) /\ DOMAIN <<a>> = 1 .. 1 /\ 1 .. 1 = {1}
    OBVIOUS
  <2>2. IsSeq(<<a>>)
    BY <2>1, SeqOfItself
  <2> QED BY <2>1, <2>2
<1>3. ASSUME NEW a, NEW b PROVE IsSeq(<<a, b>>) /\ DOMAIN <<a, b>> = {1, 2}
  <2>1. <<a, b>> \in Seq({a, b}) /\ DOMAIN <<a, b>> = 1 .. 2
    OBVIOUS
  <2>2. 1 .. 2 = {1, 2}
    OBVIOUS
  <2>3. IsSeq(<<a, b>>)
    BY <2>1, SeqOfItself
  <2> QED BY <2>1, <2>2, <2>3
<1> QED BY <1>1, <1>2, <1>3

LEMMA HalvesOfRename ==
    ASSUME NewsInv, NEW p \in Path, NEW to \in Path, notices' = notices \o Halves(p, to)
    PROVE  /\ IsSeq(notices') /\ \A n \in DOMAIN notices' :
                notices'[n].path \in Path /\ notices'[n].mate \in Path \cup {None}
           /\ \A n \in DOMAIN notices' :
                \/ n \in DOMAIN notices /\ notices'[n] = notices[n]
                \/ /\ notices'[n].kind = "half"
                   /\ Same(notices'[n].path, notices'[n].mate, p, to)
           /\ \A n \in DOMAIN notices : n \in DOMAIN notices' /\ notices'[n] = notices[n]
           /\ \E n \in DOMAIN notices' : notices'[n].path = p
<1> DEFINE h == Halves(p, to)
<1>1. h[1].kind = "half" /\ h[1].path = p /\ h[1].mate = to
  BY DEF Halves
<1>2. h[2].kind = "half" /\ h[2].path = to /\ h[2].mate = p
  BY DEF Halves
<1>3. DOMAIN h = {1, 2} /\ IsSeq(h)
  BY ShortSeqs DEF Halves
<1> HIDE DEF h
<1>4. /\ IsSeq(notices')
      /\ \A n \in DOMAIN notices : n \in DOMAIN notices' /\ notices'[n] = notices[n]
      /\ \A n \in DOMAIN h : Len(notices) + n \in DOMAIN notices' /\ notices'[Len(notices) + n] = h[n]
      /\ \A n \in DOMAIN notices' :
           n \in DOMAIN notices \/ (n - Len(notices) \in DOMAIN h /\ notices'[n] = h[n - Len(notices)])
  <2>1. notices' = notices \o h /\ IsSeq(notices)
    BY DEF h, NewsInv
  <2> DEFINE r == notices \o h
  <2>2. /\ IsSeq(r) /\ Len(r) = Len(notices) + Len(h)
        /\ \A n \in DOMAIN notices : n \in DOMAIN r /\ r[n] = notices[n]
        /\ \A n \in DOMAIN h : Len(notices) + n \in DOMAIN r /\ r[Len(notices) + n] = h[n]
        /\ \A n \in DOMAIN r :
             \/ n \in DOMAIN notices
             \/ n > Len(notices) /\ n - Len(notices) \in DOMAIN h /\ r[n] = h[n - Len(notices)]
    BY Zenon, <1>3, <2>1, JoinedSeq
  <2> HIDE DEF r
  <2>3. notices' = r
    BY <2>1 DEF r
  <2> QED BY <2>2, <2>3
<1>5. \A n \in DOMAIN notices' :
        \/ n \in DOMAIN notices /\ notices'[n] = notices[n]
        \/ notices'[n].kind = "half" /\ Same(notices'[n].path, notices'[n].mate, p, to)
  BY <1>1, <1>2, <1>3, <1>4 DEF Same
<1>6. \A n \in DOMAIN notices' : notices'[n].path \in Path /\ notices'[n].mate \in Path \cup {None}
  BY <1>5 DEF NewsInv, Same
<1>7. \E n \in DOMAIN notices' : notices'[n].path = p
  BY <1>1, <1>3, <1>4
<1> QED BY <1>4, <1>5, <1>6, <1>7

(* The ways of a rename that begins, and what it keeps apart.                *)
LEMMA RenameApart ==
    ASSUME PathsInv, races = {}, NEW p \in Path, NEW to \in Path,
           Calm(p), Calm(to), Fits(p, to), Takes(p, to),
           notices' = notices \o Halves(p, to), events' = events, pending' = pending, docs' = docs,
           \A i \in DOMAIN calls : calls[i].kind # "remap",
           \A m \in DOMAIN calls' :
              calls'[m].kind = "remap" => calls'[m].path = p /\ calls'[m].to = to
    PROVE  /\ WaysInv'
           /\ \A x, y \in Path : Way(x, y)' => Way(x, y) \/ Same(x, y, p, to)
<1>1. ASSUME NEW x \in Path, NEW y \in Path, HalfOf(x, y)', ~Same(x, y, p, to) PROVE HalfOf(x, y)
  <2>1. PICK i \in DOMAIN notices' :
          notices'[i].kind = "half" /\ notices'[i].path = x /\ notices'[i].mate = y
    BY <1>1 DEF HalfOf
  <2>2. i \in DOMAIN notices /\ notices'[i] = notices[i]
    BY <1>1, <2>1, HalvesOfRename DEF PathsInv
  <2> QED BY <2>1, <2>2 DEF HalfOf
<1>2. ASSUME NEW x \in Path, NEW y \in Path, Way(x, y)', ~Same(x, y, p, to) PROVE Way(x, y)
  <2>1. ~Same(y, x, p, to)
    BY <1>2 DEF Same
  <2>2. CASE (HalfOf(x, y) \/ Waits(x, y))' /\ HalfOf(y, x)'
    <3>1. HalfOf(x, y) \/ Waits(x, y)
      BY <1>1, <1>2, <2>2 DEF Waits
    <3>2. HalfOf(y, x)
      BY <1>1, <2>1, <2>2
    <3> QED BY <3>1, <3>2 DEF Way
  <2>3. CASE \E i \in DOMAIN events' : events'[i].kind = "rename" /\ events'[i].path = x /\ events'[i].to = y
    BY <2>3 DEF Way
  <2>4. CASE \E i \in DOMAIN calls' : calls'[i].kind = "remap" /\ calls'[i].path = x /\ calls'[i].to = y
    BY <1>2, <2>4 DEF Same
  <2> QED BY <1>2, <2>2, <2>3, <2>4 DEF Way
<1>3. \A x, y \in Path : Way(x, y) => Off(p, x, y) /\ Off(to, x, y)
  BY CalmIsOff DEF PathsInv
<1>4. ~Meets(p, to) /\ ~Claimed(to)
  BY DEF Fits, Takes, Admits
<1>5. ASSUME NEW x \in Path, NEW y \in Path, Way(x, y)'
      PROVE  ~Meets(x, y)' /\ ~(Claimed(x) /\ Claimed(y))'
  <2>1. CASE Way(x, y)
    BY <2>1 DEF PathsInv, WaysInv, Claimed
  <2>2. CASE Same(x, y, p, to)
    BY <1>4, <2>2 DEF Same, Claimed, Meets
  <2> QED BY <1>2, <1>5, <2>1, <2>2
<1>6. ASSUME NEW x \in Path, NEW y \in Path, NEW u \in Path, NEW v \in Path, Way(x, y)', Way(u, v)'
      PROVE  Same(x, y, u, v) \/ (Off(u, x, y) /\ Off(v, x, y))
  <2>1. CASE Way(x, y) /\ Way(u, v)
    BY <2>1 DEF PathsInv, WaysInv
  <2>2. CASE Way(x, y) /\ Same(u, v, p, to)
    BY <1>3, <2>2 DEF Same
  <2>3. CASE Same(x, y, p, to) /\ Way(u, v)
    BY <1>3, <2>3 DEF Same, Off, Meets
  <2>4. CASE Same(x, y, p, to) /\ Same(u, v, p, to)
    BY <2>4 DEF Same
  <2> QED BY <1>2, <1>6, <2>1, <2>2, <2>3, <2>4
<1>7. WaysInv'
  BY <1>5, <1>6 DEF WaysInv
<1> QED BY <1>2, <1>7

LEMMA RelocateApart ==
    ASSUME SessionsInv, PathsInv, races = {}, NEW p \in Path, NEW to \in Path, Relocates(p, to)
    PROVE  StaysApart
<1> DEFINE c == [Call("remap") EXCEPT !.path = p, !.to = to]
<1>1. c.kind = "remap" /\ c.path = p /\ c.to = to
  BY DEF Call
<1>2. /\ calls' = Append(calls, c) /\ docs' = docs /\ notices' = notices \o Halves(p, to)
      /\ events' = events /\ pending' = pending
      /\ Calm(p) /\ Calm(to) /\ Fits(p, to) /\ Takes(p, to)
  BY DEF Relocates, Free, screen, PersonLeaves, watcher, sent
<1>3. IsSeq(calls) /\ AllLoads(calls)
  BY DEF Relocates, MayAsk, Admits, Idle, AllLoads, SessionsInv, AreInOrder
<1> HIDE DEF c
<1>4. OneHandler(calls)' /\ \A n \in DOMAIN calls' : calls'[n].kind = "load" \/ calls'[n] = c
  BY <1>2, <1>3, AppendsHandler
<1>5. WaysInv'
  <2>1. \A i \in DOMAIN calls : calls[i].kind # "remap"
    BY <1>3 DEF AllLoads
  <2>2. \A m \in DOMAIN calls' : calls'[m].kind = "remap" => calls'[m].path = p /\ calls'[m].to = to
    BY <1>1, <1>4
  <2> QED BY <1>2, <2>1, <2>2, RenameApart
<1>6. ASSUME NEW n \in DOMAIN calls' PROVE Handler(calls[n])'
  BY <1>1, <1>4, <1>6 DEF Handler
<1>7. PathsApart(docs)'
  BY <1>2 DEF PathsInv
<1> QED BY <1>4, <1>5, <1>6, <1>7 DEF StaysApart, HandlersInv

LEMMA PersonApart ==
    ASSUME SessionsInv, TypesInv, PathsInv, races = {}, Person
    PROVE  StaysApart
<1>0. MayAsk => IsSeq(calls) /\ AllLoads(calls) /\ Idle
  BY DEF MayAsk, Admits, Idle, AllLoads, SessionsInv, AreInOrder
<1>1. ASSUME NEW p \in Files, OpenEntry(p) \/ OpenLink(p) PROVE StaysApart
  <2> DEFINE open == [do |-> "open", path |-> p, stamp |-> tree[p]]
             link == [do |-> "link", path |-> p, stamp |-> None]
  <2>1. /\ Transition(open) \/ Transition(link)
        /\ MayAsk /\ events' = events /\ pending' = pending
    BY <1>1 DEF OpenEntry, OpenLink, PersonLeaves, watcher, sent
  <2>2. open.path \in Path /\ link.path \in Path
    BY DEF Path
  <2> HIDE DEF open, link
  <2> QED BY <1>0, <2>1, <2>2, TransitionApart
<1>2. ASSUME NEW p \in Folders \cup {<<>>}, CreateDocument(p) PROVE StaysApart
  <2> DEFINE then == [do |-> "create", path |-> p, stamp |-> None]
  <2>1. Transition(then) /\ MayAsk /\ events' = events /\ pending' = pending
    BY <1>2 DEF CreateDocument, PersonLeaves, watcher, sent
  <2>2. then.do \notin {"open", "link"}
    OBVIOUS
  <2> HIDE DEF then
  <2> QED BY <1>0, <2>1, <2>2, TransitionApart
<1>3. ASSUME NEW p \in Path, NEW to \in Path, Rename(p, to) \/ Move(p, to) PROVE StaysApart
  BY <1>3, RelocateApart DEF Rename, Move
<1>4. ASSUME NEW p \in Path, Trash(p) PROVE StaysApart
  <2> DEFINE c == [Call("trash") EXCEPT
                     !.ids = {docs[i].id : i \in {j \in DOMAIN docs : IsPrefix(p, docs[j].path)}}]
             n == [kind |-> "half", path |-> p, mate |-> None]
  <2>1. MayAsk /\ calls' = Append(calls, c) /\ docs' = docs
    BY <1>4 DEF Trash, screen
  <2>2. Plain(c)
    BY DEF Call, Plain
  <2>3. FewNews
    <3>1. notices' = Append(notices, n) /\ n.mate = None /\ events' = events /\ pending' = pending
      BY <1>4 DEF Trash, PersonLeaves, watcher, sent
    <3> HIDE DEF n
    <3> QED BY <3>1 DEF FewNews
  <2> HIDE DEF c
  <2> QED BY <1>0, <2>1, <2>2, <2>3, SamePlacesOfDocs, PlainAsk
<1>5. CASE Save
  <2>1. SaveThen(Stay) /\ MayAsk /\ events' = events /\ pending' = pending
    BY <1>5 DEF Save, PersonLeaves, watcher, sent
  <2>2. Stay.do \notin {"open", "link"}
    BY DEF Stay
  <2> QED BY <1>0, <2>1, <2>2, SaveApart
<1>6. CASE CloseSaving
  <2> DEFINE then == [do |-> "close", path |-> <<>>, stamp |-> active]
  <2>1. SaveThen(then) /\ MayAsk /\ events' = events /\ pending' = pending
    BY <1>6 DEF CloseSaving, PersonLeaves, watcher, sent
  <2>2. then.do \notin {"open", "link"}
    OBVIOUS
  <2> HIDE DEF then
  <2> QED BY <1>0, <2>1, <2>2, SaveApart
<1>7. CASE Close
  <2>1. DocsBecome(Without(active), calls) /\ MayAsk
    BY <1>7 DEF Close
  <2>2. FewNews
    BY <1>7 DEF Close, PersonLeaves, watcher, FewNews, sent
  <2>3. SamePlaces(Without(active))
    BY PlacesOfKept DEF Without
  <2> QED BY <1>0, <2>1, <2>2, <2>3, LoadsArePlain, PlainStep
<1>8. CASE Reload
  <2> DEFINE c == [Call("reload") EXCEPT !.doc = Active, !.reply = At(Active.path)]
  <2>1. MayAsk /\ calls' = Append(calls, c) /\ docs' = docs
    BY <1>8 DEF Reload, screen
  <2>2. Plain(c)
    BY DEF Call, Plain
  <2>3. FewNews
    BY <1>8 DEF Reload, PersonLeaves, watcher, FewNews, sent
  <2> HIDE DEF c
  <2> QED BY <1>0, <2>1, <2>2, <2>3, SamePlacesOfDocs, PlainAsk
<1>9. CASE RefreshWorkspace
  <2> DEFINE c == Refresh(Stay)
  <2>1. MayAsk /\ calls' = Append(calls, c) /\ docs' = docs
    BY <1>9 DEF RefreshWorkspace, screen
  <2>2. Plain(c)
    BY DEF Refresh, Stay, Call, Plain
  <2>3. FewNews
    BY <1>9 DEF RefreshWorkspace, PersonLeaves, watcher, FewNews, sent
  <2> HIDE DEF c
  <2> QED BY <1>0, <2>1, <2>2, <2>3, SamePlacesOfDocs, PlainAsk
<1>10. CASE Edit
  BY <1>10, EditApart
<1> QED BY <1>1, <1>2, <1>3, <1>4, <1>5, <1>6, <1>7, <1>8, <1>9, <1>10 DEF Person

-----------------------------------------------------------------------------
(* Replies *)

(* The handler whose reply comes is the only one.                            *)
LEMMA HandlerReplies ==
    ASSUME SessionsInv, PathsInv, calls # <<>>
    PROVE  /\ IsSeq(Tail(calls)) /\ OneHandler(Tail(calls)) /\ From(Tail(calls), calls)
           /\ Handler(Head(calls))
           /\ Head(calls).kind # "load" => AllLoads(Tail(calls))
<1>1. IsSeq(calls) /\ OneHandler(calls)
  BY DEF SessionsInv, AreInOrder, PathsInv, HandlersInv
<1>2. /\ IsSeq(Tail(calls)) /\ OneHandler(Tail(calls)) /\ From(Tail(calls), calls)
      /\ Head(calls) = calls[1] /\ 1 \in DOMAIN calls
      /\ Head(calls).kind # "load" => AllLoads(Tail(calls))
  BY <1>1, RestOfHandlers
<1>3. Handler(Head(calls))
  BY <1>2 DEF PathsInv, HandlersInv
<1> QED BY <1>2, <1>3

LEMMA PlacesOfStatus ==
    ASSUME SessionsInv, NEW ids, NEW status
    PROVE  SamePlaces(SetStatus(ids, status))
<1> DEFINE ds == SetStatus(ids, status)
<1>1. /\ DOMAIN ds = DOMAIN docs
      /\ \A i \in DOMAIN docs : ds[i].id = docs[i].id /\ ds[i].path = docs[i].path
  BY DEF SetStatus, Each, SessionsInv, AreApart, IsDoc
<1> HIDE DEF ds
<1>2. SamePlaces(ds)
  BY <1>1, PlacesOfEach
<1> QED BY <1>2 DEF ds

LEMMA PlacesOfModel ==
    ASSUME SessionsInv, NEW id, NEW source
    PROVE  SamePlaces(SetModel(id, source))
<1> DEFINE ds == SetModel(id, source)
<1>1. /\ DOMAIN ds = DOMAIN docs
      /\ \A i \in DOMAIN docs : ds[i].id = docs[i].id /\ ds[i].path = docs[i].path
  BY DEF SetModel, Each, Only, SessionsInv, AreApart, IsDoc
<1> HIDE DEF ds
<1>2. SamePlaces(ds)
  BY <1>1, PlacesOfEach
<1> QED BY <1>2 DEF ds

LEMMA PlacesOfSaved ==
    ASSUME SessionsInv, NEW id, NEW source, NEW shows
    PROVE  SamePlaces(MarkSaved(id, source, shows))
<1> DEFINE ds == MarkSaved(id, source, shows)
<1>1. /\ DOMAIN ds = DOMAIN docs
      /\ \A i \in DOMAIN docs : ds[i].id = docs[i].id /\ ds[i].path = docs[i].path
  BY DEF MarkSaved, Each, Only, SessionsInv, AreApart, IsDoc
<1> HIDE DEF ds
<1>2. SamePlaces(ds)
  BY <1>1, PlacesOfEach
<1> QED BY <1>2 DEF ds

LEMMA LoadedApart ==
    ASSUME SessionsInv, PathsInv, Loaded
    PROVE  StaysApart
<1> DEFINE c == Head(calls)
           ds == IF c.reply \in {Gone, Folder} THEN SetStatus({c.doc.id}, "error")
                 ELSE SetModel(c.doc.id, c.reply)
           q == Tail(calls)
<1>1. IsSeq(q) /\ OneHandler(q) /\ From(q, calls)
  BY HandlerReplies DEF Loaded, Replied
<1>2. DocsBecome(ds, q)
  BY DEF Loaded
<1>3. SamePlaces(ds)
  BY PlacesOfStatus, PlacesOfModel
<1> HIDE DEF ds
<1>4. docs' = ds /\ OneHandler(calls)' /\ From(calls', q)
  BY <1>1, <1>2, HandlersOfChange
<1> HIDE DEF q
<1>5. From(calls', calls)
  BY <1>1, <1>4 DEF From
<1> QED BY <1>3, <1>4, <1>5, WaitingStep DEF Loaded, ReplyLeaves, sent

LEMMA InspectionApart ==
    ASSUME SessionsInv, PathsInv, InspectionFindsAChange
    PROVE  StaysApart
<1> DEFINE c == Head(calls)
           q == Tail(calls)
           change(d) == IF c.reply = Gone THEN [d EXCEPT !.status = "missing"]
                        ELSE IF c.reply = d.source /\ d.status # "missing" THEN d
                        ELSE Changed(d, c.reply)
           ds == Each(LAMBDA d : Only(c.doc.id, d, change(d)))
           stay == {i \in DOMAIN ds :
                      ds[i].status # "missing" \/ ds[i].dirty \/ ds[i].id # c.doc.id}
           left == Kept(ds, stay)
<1>1. IsSeq(q) /\ AllLoads(q)
  BY HandlerReplies DEF InspectionFindsAChange, Replied
<1>2. DocsBecome(left, q)
  BY DEF InspectionFindsAChange
<1>3. /\ ds = [i \in DOMAIN docs |-> ds[i]]
      /\ \A i \in DOMAIN docs : ds[i] = docs[i] \/ ds[i] = change(docs[i])
  BY DEF Each, Only
<1>4. \A i \in DOMAIN docs :
        IsDoc(docs[i]) => IsDoc(ds[i]) /\ ds[i].id = docs[i].id /\ ds[i].path = docs[i].path
  BY <1>3 DEF Changed, IsDoc
<1>5. AreApart(docs, opened) /\ \A i \in DOMAIN docs : IsDoc(docs[i])
  BY DEF SessionsInv, AreApart
<1>6. stay \in SUBSET DOMAIN ds
  OBVIOUS
<1> HIDE DEF ds, stay
<1>7. AreApart(ds, opened) /\ DOMAIN ds = DOMAIN docs
  BY <1>3, <1>4, <1>5, ChangedAreApart
<1>8. \A n \in DOMAIN left : \E i \in stay : left[n] = ds[i]
  BY <1>6, <1>7, KeptAreApart
<1> HIDE DEF left
<1>9. SamePlaces(left)
  <2> SUFFICES ASSUME NEW n \in DOMAIN left
               PROVE  \E i \in DOMAIN docs : left[n].id = docs[i].id /\ left[n].path = docs[i].path
    BY DEF SamePlaces
  <2>1. PICK i \in stay : left[n] = ds[i]
    BY <1>8
  <2> QED BY <1>4, <1>5, <1>6, <1>7, <2>1
<1>10. FewNews
  BY DEF InspectionFindsAChange, ReplyLeaves, FewNews, sent
<1> HIDE DEF q
<1> QED BY <1>1, <1>2, <1>9, <1>10, LoadsArePlain, PlainStep

LEMMA WritesApart ==
    ASSUME SessionsInv, PathsInv, Writes
    PROVE  StaysApart
<1> DEFINE c == Head(calls)
           q == Tail(calls)
<1>1. IsSeq(q) /\ AllLoads(q) /\ Handler(c) /\ c.kind = "inspect" /\ docs' = docs
  BY HandlerReplies DEF Writes, Replied, screen
<1>2. CASE calls' = q /\ notices' = notices
  <2>1. FewNews
    BY <1>2 DEF Writes, ReplyLeaves, FewNews, sent
  <2> HIDE DEF q
  <2> QED BY <1>1, <1>2, <2>1, SamePlacesOfDocs, LoadsArePlain, PlainStep
<1>3. CASE /\ calls' = Append(q, [c EXCEPT !.kind = "write", !.reply = stamps'])
           /\ \E p : notices' = Append(notices, [kind |-> "half", path |-> p, mate |-> None])
  <2> DEFINE w == [c EXCEPT !.kind = "write", !.reply = stamps']
  <2>1. w.kind = "write" /\ w.then = c.then
    BY <1>1 DEF SessionsInv, AreInOrder, IsInOrder, IsCall
  <2>2. FewNews
    <3>1. PICK p : notices' = Append(notices, [kind |-> "half", path |-> p, mate |-> None])
      BY <1>3
    <3> DEFINE n == [kind |-> "half", path |-> p, mate |-> None]
    <3>2. notices' = Append(notices, n) /\ n.mate = None /\ events' = events /\ pending' = pending
      BY <3>1 DEF Writes, ReplyLeaves, sent
    <3> HIDE DEF n
    <3> QED BY <3>2 DEF FewNews
  <2>3. Plain(w)
    BY <1>1, <2>1 DEF Handler, Plain
  <2> HIDE DEF w, q
  <2> QED BY <1>1, <1>3, <2>2, <2>3, SamePlacesOfDocs, PlainAsk DEF w
<1> QED BY <1>2, <1>3 DEF Writes

LEMMA WrittenApart ==
    ASSUME SessionsInv, PathsInv, Written
    PROVE  StaysApart
<1> DEFINE c == Head(calls)
           q == Tail(calls)
           w == [c EXCEPT !.kind = "reinspect", !.reply = At(c.doc.path), !.doc.shows = c.reply]
<1>1. IsSeq(q) /\ AllLoads(q) /\ Handler(c) /\ c.kind = "write" /\ docs' = docs
  BY HandlerReplies DEF Written, Replied, screen
<1>2. w.kind = "reinspect" /\ w.then = c.then
  <2>1. IsCall(c)
    BY RestInOrder DEF SessionsInv, Written, Replied, IsInOrder
  <2> QED BY <2>1 DEF IsCall
<1>3. calls' = Append(q, w) /\ FewNews
  BY DEF Written, ReplyLeaves, FewNews, sent
<1>4. Plain(w)
  BY <1>1, <1>2 DEF Handler, Plain
<1> HIDE DEF w, q
<1> QED BY <1>1, <1>3, <1>4, SamePlacesOfDocs, PlainAsk

LEMMA SavedApart ==
    ASSUME SessionsInv, PathsInv, Saved
    PROVE  StaysApart
<1> DEFINE c == Head(calls)
           q == Tail(calls)
           w == [c EXCEPT !.kind = "clear"]
           ds == MarkSaved(c.doc.id, IF c.reply = Gone THEN None ELSE c.reply, c.doc.shows)
<1>1. IsSeq(q) /\ AllLoads(q) /\ Handler(c) /\ c.kind = "reinspect"
  BY HandlerReplies DEF Saved, Replied
<1>2. w.kind = "clear" /\ w.then = c.then
  <2>1. IsCall(c)
    BY RestInOrder DEF SessionsInv, Saved, Replied, IsInOrder
  <2> QED BY <2>1 DEF IsCall
<1>3. DocsBecome(ds, Append(q, w)) /\ FewNews
  BY DEF Saved, ReplyLeaves, FewNews, sent
<1>4. Plain(w)
  BY <1>1, <1>2 DEF Handler, Plain
<1>5. SamePlaces(ds)
  BY PlacesOfSaved
<1> HIDE DEF w, q, ds
<1> QED BY <1>1, <1>3, <1>4, <1>5, PlainAsk

LEMMA GoesOnApart ==
    ASSUME SessionsInv, TypesInv, PathsInv, races = {}, GoesOn
    PROVE  StaysApart
<1> DEFINE c == Head(calls)
           q == Tail(calls)
           then == c.then
<1>1. IsSeq(q) /\ AllLoads(q) /\ Handler(c) /\ c.kind = "clear" /\ calls # <<>>
  BY HandlerReplies DEF GoesOn, Replied
<1>2. then.do \in {"open", "link"} => then.path \in Path
  BY <1>1 DEF Handler
<1>3. Goes(then, q) /\ events' = events /\ pending' = pending
  BY DEF GoesOn, ReplyLeaves, sent
<1>4. \A i \in DOMAIN calls : calls[i].kind # "remap"
  <2>1. 1 \in DOMAIN calls /\ c = calls[1]
    BY <1>1, RestOfSeq DEF SessionsInv, AreInOrder
  <2> QED BY <1>1, <2>1 DEF PathsInv, HandlersInv, OneHandler
<1> HIDE DEF then, q
<1> QED BY <1>1, <1>2, <1>3, <1>4, GoesApart

LEMMA LinkReadApart ==
    ASSUME SessionsInv, PathsInv, LinkRead
    PROVE  StaysApart
<1> DEFINE c == Head(calls)
           q == Tail(calls)
           r == c.path
           ac == OpenedId(NewDoc(c.path, "editable", c.reply, c.reply))
<1>1. IsSeq(q) /\ AllLoads(q) /\ Handler(c) /\ c.kind = "link" /\ FewNews
  BY HandlerReplies DEF LinkRead, Replied, ReplyLeaves, FewNews, sent
<1>2. CASE calls' = q /\ docs' = docs
  <2> HIDE DEF q
  <2> QED BY <1>1, <1>2, SamePlacesOfDocs, LoadsArePlain, PlainStep
<1>3. CASE Opens(NewDoc(c.path, "editable", c.reply, c.reply), q)
  <2>1. Become(OpenDocument(NewDoc(r, "editable", c.reply, c.reply)), ac, tree, q)
    BY <1>3 DEF Opens
  <2>2. r \in Path /\ \A x, y \in Path : Way(x, y) => Off(r, x, y)
    BY <1>1 DEF Handler
  <2> HIDE DEF q, r, ac, c
  <2> QED BY <1>1, <2>1, <2>2, OpeningPath
<1> QED BY <1>2, <1>3 DEF LinkRead, screen

LEMMA CreatedApart ==
    ASSUME SessionsInv, PathsInv, Created
    PROVE  StaysApart
<1> DEFINE q == Tail(calls)
           then == [do |-> "open", path |-> Head(calls).path, stamp |-> Head(calls).reply]
           w == Refresh(then)
<1>1. IsSeq(q) /\ AllLoads(q) /\ Handler(Head(calls)) /\ Head(calls).kind = "create" /\ docs' = docs
  BY HandlerReplies DEF Created, Replied, screen
<1>2. calls' = Append(q, w) /\ FewNews /\ disk' = disk /\ events' = events
  BY DEF Created, ReplyLeaves, FewNews, sent
<1>3. w.kind = "refresh" /\ w.then.do = "open" /\ w.then.path = Head(calls).path /\ w.ahead = Len(events)
  BY DEF Refresh, Call
<1> HIDE DEF w, q, then
<1>4. OneHandler(calls)' /\ \A n \in DOMAIN calls' : calls'[n].kind = "load" \/ calls'[n] = w
  BY <1>1, <1>2, AppendsHandler
<1>5. NoNewWay
  <2>1. \A n \in DOMAIN calls' : calls'[n].kind # "remap"
    BY <1>3, <1>4
  <2> QED BY <1>2, <2>1, QuietNews DEF PathsInv
<1>6. ASSUME NEW p, p = Head(calls).path, NEW n \in DOMAIN calls', calls'[n] = w
      PROVE  Handler(calls[n])'
  <2>1. p \in Files /\ disk[p] # Gone /\ \A x, y \in Path : Way(x, y) => Off(p, x, y)
    BY <1>1, <1>6 DEF Handler
  <2>2. calls'[n].kind = "refresh" /\ calls'[n].then.path = p /\ calls'[n].ahead = Len(events')
    BY <1>2, <1>3, <1>6
  <2>3. \A x, y \in Path : Way(x, y)' => Off(p, x, y)
    BY <1>5, <2>1 DEF NoNewWay
  <2>4. calls'[n].ahead \in 0 .. Len(events')
    BY <1>2, <2>2, ElementsOfSeq DEF PathsInv, NewsInv
  <2> QED BY <1>2, <2>1, <2>2, <2>3, <2>4 DEF Handler
<1>7. ASSUME NEW n \in DOMAIN calls' PROVE Handler(calls[n])'
  <2>1. CASE calls'[n].kind = "load"
    BY <2>1 DEF Handler
  <2> QED BY <1>4, <1>6, <2>1
<1>8. PathsApart(docs)' /\ NoNewClaim
  BY <1>1, SamePlacesOfDocs, SameClaims DEF PathsInv
<1>9. WaysInv'
  BY <1>5, <1>8, NothingMoves DEF PathsInv
<1> QED BY <1>4, <1>7, <1>8, <1>9 DEF StaysApart, HandlersInv

LEMMA ReloadedApart ==
    ASSUME SessionsInv, PathsInv, Reloaded
    PROVE  StaysApart
<1> DEFINE c == Head(calls)
           q == Tail(calls)
           ds == Each(LAMBDA d : Only(c.doc.id, d,
                        [d EXCEPT !.status = "editable", !.dirty = FALSE,
                                  !.source = c.reply, !.shows = c.reply]))
<1>1. IsSeq(q) /\ AllLoads(q) /\ FewNews
  BY HandlerReplies DEF Reloaded, Replied, ReplyLeaves, FewNews, sent
<1>2. (calls' = q /\ docs' = docs) \/ DocsBecome(ds, q)
  BY DEF Reloaded, screen
<1>3. /\ DOMAIN ds = DOMAIN docs
      /\ \A i \in DOMAIN docs : ds[i].id = docs[i].id /\ ds[i].path = docs[i].path
  BY DEF Each, Only, SessionsInv, AreApart, IsDoc
<1> HIDE DEF ds, q
<1>4. SamePlaces(ds)
  BY <1>3, PlacesOfEach
<1> QED BY <1>1, <1>2, <1>4, SamePlacesOfDocs, LoadsArePlain, PlainStep

LEMMA TrashedApart ==
    ASSUME SessionsInv, PathsInv, Trashed
    PROVE  StaysApart
<1> DEFINE q == Tail(calls)
           ds == SetStatus(Head(calls).ids, "missing")
           w == Refresh(Stay)
<1>1. IsSeq(q) /\ AllLoads(q) /\ FewNews
  BY HandlerReplies DEF Trashed, Replied, ReplyLeaves, FewNews, sent
<1>2. DocsBecome(ds, Append(q, w))
  BY DEF Trashed
<1>3. SamePlaces(ds) /\ Plain(w)
  BY PlacesOfStatus DEF Refresh, Stay, Call, Plain
<1> HIDE DEF ds, q, w
<1> QED BY <1>1, <1>2, <1>3, PlainAsk

LEMMA RefreshedApart ==
    ASSUME SessionsInv, PathsInv, Refreshed
    PROVE  StaysApart
<1> DEFINE c == Head(calls)
           q == Tail(calls)
           r == c.then.path
           tr == c.reply
           d == NewDoc(c.then.path, "loading", c.then.stamp, None)
           ac == OpenedId(d)
<1>1. IsSeq(q) /\ AllLoads(q) /\ Handler(c) /\ c.kind = "refresh" /\ FewNews
  BY HandlerReplies DEF Refreshed, Replied, ReplyLeaves, FewNews, sent, watcher
<1>2. CASE Become(docs, active, tr, q)
  <2> HIDE DEF q, tr
  <2> QED BY <1>1, <1>2, SamePlacesOfDocs, LoadsArePlain, PlainStep
<1>3. CASE c.then.do = "open" /\ Become(OpenDocument(d), ac, tr, q)
  <2>1. Become(OpenDocument(NewDoc(r, "loading", c.then.stamp, None)), ac, tr, q)
    BY <1>3
  <2>2. /\ r \in Path
        /\ \A x, y \in Path : Way(x, y) =>
              \/ Off(r, x, y)
              \/ IsPrefix(x, r) /\ ~Claimed(y)
              \/ IsPrefix(y, r) /\ ~Claimed(x)
    BY <1>1, <1>3 DEF Handler, Path
  <2> HIDE DEF q, r, ac, c, tr
  <2> QED BY <1>1, <2>1, <2>2, OpeningPath
<1> QED BY <1>2, <1>3 DEF Refreshed

(* The reply to a rename: the sessions move, and the tree is scanned.        *)
LEMMA RemappedApart ==
    ASSUME SessionsInv, PathsInv, Remapped
    PROVE  StaysApart
<1> DEFINE u == Head(calls).path
           v == Head(calls).to
           q == Tail(calls)
           w == Refresh(Stay)
           r == Append(q, w)
           ds == RemapPaths(u, v)
<1>1. IsSeq(q) /\ AllLoads(q) /\ Handler(Head(calls)) /\ Head(calls).kind = "remap" /\ FewNews
      /\ calls # <<>>
  BY HandlerReplies DEF Remapped, Replied, ReplyLeaves, FewNews, sent
<1>2. u \in Path /\ v \in Path
  BY <1>1 DEF Handler
<1>3. Way(u, v)
  <2>1. 1 \in DOMAIN calls /\ Head(calls) = calls[1]
    BY <1>1, RestOfSeq DEF SessionsInv, AreInOrder
  <2>2. \E i \in DOMAIN calls : calls[i].kind = "remap" /\ calls[i].path = u /\ calls[i].to = v
    BY <1>1, <2>1
  <2> HIDE DEF u, v
  <2> QED BY <2>2 DEF Way
<1>4. Become(ds, active, tree, r)
  BY DEF Remapped
<1>5. /\ DOMAIN ds = DOMAIN docs
      /\ \A i \in DOMAIN docs : ds[i].id = docs[i].id /\ ds[i].path = Remap(u, v, docs[i].path)
  <2> HIDE DEF u, v
  <2> QED BY DEF RemapPaths, Each, SessionsInv, AreApart, IsDoc
<1>6. Plain(w)
  BY DEF Refresh, Stay, Call, Plain
<1> HIDE DEF ds, q, w
<1>7. IsSeq(r) /\ OneHandler(r) /\ \A n \in DOMAIN r : r[n].kind = "load" \/ r[n] = w
  BY <1>1, AppendsHandler
<1> HIDE DEF r
<1>8. docs' = ds /\ OneHandler(calls)' /\ From(calls', r)
  BY <1>4, <1>7, HandlersOfChange
<1>9. \A n \in DOMAIN calls' : Plain(calls'[n])
  BY <1>6, <1>7, <1>8 DEF From, Plain
<1>10. HandlersInv'
  BY <1>8, <1>9, PlainHandlers
<1>11. NoNewWay
  <2>1. \A n \in DOMAIN calls' : calls'[n].kind # "remap"
    BY <1>9 DEF Plain
  <2> QED BY <1>1, <2>1, QuietNews DEF PathsInv
<1> HIDE DEF u, v
<1>12. PathsApart(docs)' /\ WaysInv'
  <2>1. \A j \in DOMAIN docs' : \E i \in DOMAIN docs :
          docs'[j].id = docs[i].id /\ docs'[j].path = Remap(u, v, docs[i].path)
    BY <1>5, <1>8
  <2> QED BY <1>2, <1>3, <1>11, <2>1, MovedPaths DEF PathsInv
<1> QED BY <1>10, <1>12 DEF StaysApart

LEMMA RepliesApart ==
    ASSUME SessionsInv, TypesInv, PathsInv, races = {}, Replies
    PROVE  StaysApart
BY LoadedApart, InspectionApart, WritesApart, WrittenApart, SavedApart, GoesOnApart, LinkReadApart,
   CreatedApart, ReloadedApart, RemappedApart, TrashedApart, RefreshedApart DEF Replies

-----------------------------------------------------------------------------
(* The watcher *)

(* What is emitted is told, or what it repeats is still to be told.          *)
LEMMA EmitTells ==
    ASSUME IsSeq(events), "repeat" \notin races, NEW es, IsSeq(es), DOMAIN es \subseteq {1, 2},
           Emit(es)
    PROVE  \E top : EmitsAfter(es, top)
<1>1. /\ Len(events) \in Nat /\ DOMAIN events = 1 .. Len(events)
      /\ Len(es) \in Nat /\ DOMAIN es = 1 .. Len(es) /\ Len(es) \in 0 .. 2
  <2>1. Len(es) \in Nat /\ DOMAIN es = 1 .. Len(es)
    BY ElementsOfSeq
  <2>2. Len(es) # 0 => Len(es) \in DOMAIN es
    BY <2>1
  <2> QED BY <2>1, <2>2, ElementsOfSeq
<1>2. PICK at \in SUBSET DOMAIN es :
        /\ \A n \in DOMAIN es \ at : Repeats(es, n)
        /\ events' = events \o Kept(es, at)
  BY DEF Emit, Admits
<1> DEFINE r == Kept(es, at)
<1>3. PICK pos \in [DOMAIN r -> at] :
        /\ IsSeq(r) /\ Len(r) \in Nat /\ DOMAIN r = 1 .. Len(r)
        /\ \A n \in DOMAIN r : r[n] = es[pos[n]]
        /\ \A i \in at : \E n \in DOMAIN r : pos[n] = i
        /\ \A m, n \in DOMAIN r : m < n => pos[m] < pos[n]
  BY KeptOnce
<1>4. events' = events \o r
  BY <1>2
<1> HIDE DEF r
<1>5. /\ IsSeq(events') /\ Len(events') = Len(events) + Len(r)
      /\ \A i \in DOMAIN events : i \in DOMAIN events' /\ events'[i] = events[i]
      /\ \A k \in DOMAIN r : Len(events) + k \in DOMAIN events' /\ events'[Len(events) + k] = r[k]
      /\ \A i \in DOMAIN events' :
           \/ i \in DOMAIN events
           \/ i > Len(events) /\ i - Len(events) \in DOMAIN r /\ events'[i] = r[i - Len(events)]
  <2> DEFINE t == events \o r
  <2>1. /\ IsSeq(t) /\ Len(t) = Len(events) + Len(r)
        /\ \A i \in DOMAIN events : i \in DOMAIN t /\ t[i] = events[i]
        /\ \A k \in DOMAIN r : Len(events) + k \in DOMAIN t /\ t[Len(events) + k] = r[k]
        /\ \A i \in DOMAIN t :
             \/ i \in DOMAIN events
             \/ i > Len(events) /\ i - Len(events) \in DOMAIN r /\ t[i] = r[i - Len(events)]
    BY Zenon, <1>3, JoinedSeq
  <2> HIDE DEF t
  <2>2. events' = t
    BY <1>4 DEF t
  <2> QED BY <2>1, <2>2
<1>6. CASE at = DOMAIN es
  <2>1. Len(r) = Len(es) /\ \A n \in DOMAIN es : pos[n] = n
    <3>1. /\ \A n \in 1 .. Len(r) : pos[n] \in 1 .. Len(es)
          /\ \A i \in 1 .. Len(es) : \E n \in 1 .. Len(r) : pos[n] = i
          /\ \A m, n \in 1 .. Len(r) : m < n => pos[m] < pos[n]
      BY <1>1, <1>3, <1>6
    <3>2. CASE Len(es) = 0
      BY <1>1, <1>3, <3>1, <3>2
    <3>3. CASE Len(es) = 1
      <4>1. Len(r) = 1
        BY <1>3, <3>1, <3>3
      <4> QED BY <1>1, <3>1, <3>3, <4>1
    <3>4. CASE Len(es) = 2
      <4>1. ~(Len(r) >= 3)
        <5>1. \A n \in 1 .. Len(r) : pos[n] \in {1, 2}
          BY <3>1, <3>4
        <5> QED BY <1>3, <3>1, <5>1
      <4>2. Len(r) # 0 /\ Len(r) # 1
        BY <3>1, <3>4
      <4>3. Len(r) = 2
        BY <1>3, <4>1, <4>2
      <4>4. pos[1] = 1 /\ pos[2] = 2
        BY <3>1, <3>4, <4>3
      <4> QED BY <1>1, <3>4, <4>3, <4>4
    <3> QED BY <1>1, <3>2, <3>3, <3>4
  <2>2. DOMAIN r = DOMAIN es /\ \A n \in DOMAIN es : r[n] = es[n]
    BY <1>1, <1>3, <2>1
  <2>3. EmitsAfter(es, Len(events))
    BY <1>1, <1>5, <2>1, <2>2 DEF EmitsAfter
  <2> QED BY <2>3
<1>7. CASE at # DOMAIN es
  <2>1. /\ 1 \in DOMAIN es /\ at = DOMAIN es \ {1}
        /\ events # <<>> /\ Last(events) = es[1]
        /\ \A i \in DOMAIN calls : calls[i].kind = "refresh" => calls[i].ahead < Len(events)
    BY <1>2, <1>7 DEF Repeats
  <2>2. Len(events) \in DOMAIN events /\ events[Len(events)] = es[1]
    <3>1. Len(events) # 0
      BY <2>1 DEF IsSeq
    <3> QED BY <1>1, <2>1, <3>1 DEF Last
  <2>3. Len(r) = Len(es) - 1 /\ \A n \in DOMAIN r : pos[n] = n + 1
    <3>1. /\ \A n \in 1 .. Len(r) : pos[n] = 2 /\ 2 \in DOMAIN es
          /\ 2 \in DOMAIN es => \E n \in 1 .. Len(r) : pos[n] = 2
          /\ \A m, n \in 1 .. Len(r) : m < n => pos[m] < pos[n]
      BY <1>3, <2>1
    <3>2. ~(Len(r) >= 2)
      BY <1>3, <3>1
    <3>3. 2 \in DOMAIN es <=> Len(es) = 2
      BY <1>1
    <3>4. CASE Len(es) = 2
      <4>1. Len(r) = 1
        BY <1>3, <3>1, <3>2, <3>3, <3>4
      <4>2. \A n \in DOMAIN r : n = 1 /\ pos[n] = 2
        BY <1>3, <3>1, <4>1
      <4> QED BY <3>4, <4>1, <4>2
    <3>5. CASE Len(es) # 2
      <4>1. Len(r) = 0
        BY <1>3, <3>1, <3>3, <3>5
      <4>2. Len(es) = 1
        BY <1>1, <2>1, <3>5
      <4> QED BY <1>3, <4>1, <4>2
    <3> QED BY <3>4, <3>5
  <2>4. \A n \in DOMAIN r : r[n] = es[n + 1] /\ n + 1 \in DOMAIN es
    BY <1>1, <1>3, <2>3
  <2> DEFINE top == Len(events) - 1
  <2>5. top \in Nat /\ top <= Len(events) /\ top + 1 = Len(events)
    BY <1>1, <2>2
  <2>6. NoScanAfter(top)
    BY <1>1, <2>1 DEF Scanned, NoScanAfter
  <2>7. ASSUME NEW k \in DOMAIN es
        PROVE  top + k \in DOMAIN events' /\ events'[top + k] = es[k]
    <3>1. CASE k = 1
      BY <1>5, <2>2, <2>5, <3>1
    <3>2. CASE k # 1
      <4>1. k - 1 \in DOMAIN r /\ r[k - 1] = es[k] /\ Len(events) + (k - 1) = top + k
        BY <1>1, <1>3, <2>3, <2>4, <3>2
      <4> QED BY <1>5, <4>1
    <3> QED BY <3>1, <3>2
  <2>8. ASSUME NEW i \in DOMAIN events'
        PROVE  \/ i \in DOMAIN events /\ i <= top
               \/ i > top /\ i - top \in DOMAIN es /\ events'[i] = es[i - top]
    <3>1. CASE i \in DOMAIN events
      BY <1>1, <1>5, <2>1, <2>2, <3>1
    <3>2. CASE i > Len(events) /\ i - Len(events) \in DOMAIN r /\ events'[i] = r[i - Len(events)]
      <4>1. i \in Int
        BY <1>5, ElementsOfSeq
      <4>2. i - Len(events) + 1 = i - top /\ i > top
        BY <1>1, <3>2, <4>1
      <4> QED BY <2>4, <3>2, <4>2
    <3> QED BY <1>5, <3>1, <3>2
  <2>9. Len(events') = top + Len(es) /\ Len(events) <= Len(events')
    BY <1>1, <1>3, <1>5, <2>3
  <2> HIDE DEF top
  <2>10. EmitsAfter(es, top)
    BY <1>5, <2>5, <2>6, <2>7, <2>8, <2>9 DEF EmitsAfter
  <2> QED BY <2>10
<1> QED BY <1>6, <1>7

LEMMA SilenceTells ==
    ASSUME IsSeq(events), events' = events
    PROVE  EmitsAfter(<<>>, Len(events))
BY ElementsOfSeq DEF EmitsAfter

(* What is read leaves the notices or the half that waits; of what is gone   *)
(* there is then another half or an event, and a rename comes of its halves. *)
LEMMA TellingStep ==
    ASSUME PathsInv, docs' = docs, calls' = calls, disk' = disk,
           NEW es, IsSeq(es), NEW top, EmitsAfter(es, top),
           \A k \in DOMAIN es :
              /\ es[k].path \in Path
              /\ es[k].kind = "rename" => es[k].to \in Path /\ Way(es[k].path, es[k].to),
           notices' = notices \/ (notices # <<>> /\ notices' = Tail(notices)),
           \/ pending' = None \/ pending' = pending
           \/ /\ notices # <<>> /\ Head(notices).kind = "half"
              /\ pending'.path = Head(notices).path /\ pending'.mate = Head(notices).mate,
           \/ notices' = notices \/ disk[Head(notices).path] # Gone
           \/ pending' # None /\ pending'.path = Head(notices).path
           \/ \E k \in DOMAIN es : es[k].path = Head(notices).path,
           \/ pending = None \/ pending' = pending \/ disk[pending.path] # Gone
           \/ \E k \in DOMAIN es : es[k].path = pending.path
    PROVE  StaysApart /\ NewsInv'
<1>1. /\ IsSeq(events) /\ IsSeq(notices) /\ Len(events) \in Nat /\ DOMAIN events = 1 .. Len(events)
      /\ Len(es) \in Nat
  BY ElementsOfSeq DEF PathsInv, NewsInv
<1>2. /\ IsSeq(events') /\ Len(events') = top + Len(es)
      /\ top \in Nat /\ top <= Len(events) /\ Len(events) <= Len(events')
      /\ \A i \in DOMAIN events : i \in DOMAIN events' /\ events'[i] = events[i]
      /\ \A k \in DOMAIN es : top + k \in DOMAIN events' /\ events'[top + k] = es[k]
      /\ \A i \in DOMAIN events' :
           i \in DOMAIN events \/ (i - top \in DOMAIN es /\ events'[i] = es[i - top])
  BY DEF EmitsAfter
<1>3. /\ IsSeq(notices')
      /\ \A i \in DOMAIN notices' : \E j \in DOMAIN notices : notices'[i] = notices[j]
      /\ notices # <<>> => 1 \in DOMAIN notices /\ Head(notices) = notices[1]
      /\ \A j \in DOMAIN notices :
           \/ \E i \in DOMAIN notices' : notices'[i] = notices[j]
           \/ notices' # notices /\ notices[j] = Head(notices)
  <2>1. CASE notices' = notices
    BY <1>1, <2>1, RestOfSeq
  <2>2. CASE notices # <<>> /\ notices' = Tail(notices)
    <3>1. /\ IsSeq(notices') /\ 1 \in DOMAIN notices /\ Head(notices) = notices[1]
          /\ \A i \in DOMAIN notices' : i + 1 \in DOMAIN notices /\ notices'[i] = notices[i + 1]
      BY <1>1, <2>2, RestOfSeq
    <3>2. /\ Len(notices) \in Nat /\ DOMAIN notices = 1 .. Len(notices)
          /\ DOMAIN notices' = 1 .. Len(notices) - 1
      <4>1. Len(Tail(notices)) = Len(notices) - 1
        BY <1>1, <2>2 DEF IsSeq
      <4> QED BY <1>1, <2>2, <3>1, <4>1, ElementsOfSeq
    <3>3. \A j \in DOMAIN notices : j # 1 => j - 1 \in DOMAIN notices' /\ notices'[j - 1] = notices[j]
      BY <3>1, <3>2
    <3>4. \A j \in DOMAIN notices : j = 1 => notices' # notices
      <4>1. Len(notices) \in DOMAIN notices /\ Len(notices) \notin DOMAIN notices'
        BY <3>1, <3>2
      <4>2. DOMAIN notices' # DOMAIN notices
        BY <4>1
      <4> QED BY <4>2
    <3> QED BY <3>1, <3>3, <3>4
  <2> QED BY <2>1, <2>2
<1>4. NoNewWay
  <2>1. ASSUME NEW x \in Path, NEW y \in Path, HalfOf(x, y)' PROVE HalfOf(x, y)
    BY <1>3, <2>1 DEF HalfOf
  <2>2. ASSUME NEW x \in Path, NEW y \in Path, Waits(x, y)' PROVE Waits(x, y) \/ HalfOf(x, y)
    BY <1>3, <2>2 DEF Waits, HalfOf
  <2>3. ASSUME NEW x \in Path, NEW y \in Path,
               NEW i \in DOMAIN events', events'[i].kind = "rename", events'[i].path = x, events'[i].to = y
        PROVE  Way(x, y)
    <3>1. CASE i \in DOMAIN events
      BY <1>2, <2>3, <3>1 DEF Way
    <3>2. CASE i - top \in DOMAIN es /\ events'[i] = es[i - top]
      BY <2>3, <3>2
    <3> QED BY <1>2, <3>1, <3>2
  <2>4. ASSUME NEW x \in Path, NEW y \in Path, Way(x, y)' PROVE Way(x, y)
    <3>1. CASE (HalfOf(x, y) \/ Waits(x, y))' /\ HalfOf(y, x)'
      <4>1. HalfOf(x, y) \/ Waits(x, y)
        BY <2>1, <2>2, <3>1
      <4>2. HalfOf(y, x)
        BY <2>1, <3>1
      <4> QED BY <4>1, <4>2 DEF Way
    <3>2. CASE \E i \in DOMAIN events' : events'[i].kind = "rename" /\ events'[i].path = x /\ events'[i].to = y
      BY <2>3, <3>2
    <3>3. CASE \E i \in DOMAIN calls' : calls'[i].kind = "remap" /\ calls'[i].path = x /\ calls'[i].to = y
      BY <3>3 DEF Way
    <3> QED BY <2>4, <3>1, <3>2, <3>3 DEF Way
  <2> QED BY <2>4 DEF NoNewWay
<1>5. KeepsTelling
  <2>1. Len(events) \in Nat /\ Len(events') \in Nat /\ Len(events) <= Len(events')
    BY <1>1, <1>2
  <2>2. ASSUME NEW c \in Files, NEW n \in 0 .. Len(events), Scanned(n), GoneTold(c, n)
        PROVE  GoneTold(c, n)'
    <3>1. PICK q \in Path :
            /\ IsPrefix(q, c) /\ disk[q] = Gone
            /\ \/ \E i \in DOMAIN notices : notices[i].path = q
               \/ pending # None /\ pending.path = q
               \/ \E i \in DOMAIN events : i > n /\ events[i].path = q
      BY <2>2 DEF GoneTold
    <3>2. ASSUME NEW k \in DOMAIN es, es[k].path = q
          PROVE  \E i \in DOMAIN events' : i > n /\ events'[i].path = q
      <4>1. k \in Nat /\ k > 0
        BY ElementsOfSeq
      <4>2. top + k \in DOMAIN events' /\ events'[top + k].path = q
        BY <1>2, <3>2
      <4>3. n <= top
        <5>1. top = Len(events) \/ NoScanAfter(top)
          BY DEF EmitsAfter
        <5>2. n \in Nat /\ n <= Len(events) /\ Scanned(n)
          BY <1>1, <2>2
        <5> QED BY <5>1, <5>2 DEF NoScanAfter
      <4>4. top + k > n
        BY <1>1, <1>2, <4>1, <4>3
      <4> QED BY <4>2, <4>4
    <3>3. \/ \E i \in DOMAIN notices' : notices'[i].path = q
          \/ pending' # None /\ pending'.path = q
          \/ \E i \in DOMAIN events' : i > n /\ events'[i].path = q
      <4>1. CASE \E j \in DOMAIN notices : notices[j].path = q
        BY <1>3, <3>1, <3>2, <4>1
      <4>2. CASE pending # None /\ pending.path = q
        BY <3>1, <3>2, <4>2
      <4>3. CASE \E i \in DOMAIN events : i > n /\ events[i].path = q
        BY <1>2, <4>3
      <4> QED BY <3>1, <4>1, <4>2, <4>3
    <3> QED BY <3>1, <3>3 DEF GoneTold
  <2>3. ASSUME NEW x \in Path, NEW y \in Path, NEW n \in 0 .. Len(events), Later(x, y, n)
        PROVE  Later(x, y, n)'
    <3> SUFFICES ASSUME NEW i \in DOMAIN events', i <= n, events'[i].kind = "rename"
                 PROVE  ~Same(events'[i].path, events'[i].to, x, y)
      BY DEF Later
    <3>1. i \in DOMAIN events /\ events'[i] = events[i]
      <4>1. DOMAIN events' = 1 .. Len(events')
        BY <1>2, ElementsOfSeq
      <4> QED BY <1>1, <1>2, <4>1
    <3> QED BY <2>3, <3>1 DEF Later
  <2> QED BY <2>1, <2>2, <2>3 DEF KeepsTelling
<1>6. NewsInv'
  <2>1. \A i \in DOMAIN notices' : notices'[i].path \in Path /\ notices'[i].mate \in Path \cup {None}
    BY <1>3 DEF PathsInv, NewsInv
  <2>2. pending' # None => pending'.path \in Path
    BY <1>3 DEF PathsInv, NewsInv
  <2>3. \A i \in DOMAIN events' :
          events'[i].path \in Path /\ (events'[i].kind = "rename" => events'[i].to \in Path)
    BY <1>2 DEF PathsInv, NewsInv
  <2> QED BY <1>2, <1>3, <2>1, <2>2, <2>3 DEF NewsInv
<1>7. OneHandler(calls)' /\ From(calls', calls)
  BY DEF PathsInv, HandlersInv, OneHandler, From
<1>8. PathsApart(docs)' /\ NoNewClaim
  BY SamePlacesOfDocs, SameClaims DEF PathsInv
<1>9. HandlersInv'
  BY <1>4, <1>5, <1>7, <1>8, HandlersLast
<1>10. WaysInv'
  BY <1>4, <1>8, NothingMoves DEF PathsInv
<1> QED BY <1>6, <1>8, <1>9, <1>10 DEF StaysApart

(* The notices at the head, and the half that waits, are about paths.        *)
LEMMA NewsOfPaths ==
    ASSUME NewsInv
    PROVE  /\ notices # <<>> => /\ Head(notices).path \in Path /\ Head(notices).mate \in Path \cup {None}
                                /\ 1 \in DOMAIN notices /\ Head(notices) = notices[1]
           /\ pending # None => pending.path \in Path
<1>1. notices # <<>> => 1 \in DOMAIN notices /\ Head(notices) = notices[1]
  BY RestOfSeq DEF NewsInv
<1> QED BY <1>1 DEF NewsInv

LEMMA EventOf ==
    ASSUME NEW kind, NEW p, NEW to
    PROVE  /\ Event(kind, p, to).kind = kind /\ Event(kind, p, to).path = p
           /\ Event(kind, p, to).to = to
BY DEF Event

LEMMA SuppressedApart ==
    ASSUME TypesInv, PathsInv, NoticeSuppressed
    PROVE  StaysApart /\ NewsInv'
<1> DEFINE es == <<>>
<1>1. IsSeq(es) /\ DOMAIN es = {}
  BY ShortSeqs
<1>2. IsSeq(events)
  BY DEF PathsInv, NewsInv
<1>3. EmitsAfter(es, Len(events))
  BY <1>2, SilenceTells DEF NoticeSuppressed, sent
<1>4. disk[Head(notices).path] # Gone
  <2>1. Head(notices).path \in Path
    BY NewsOfPaths DEF PathsInv, NoticeSuppressed, NoticeIs, sent
  <2>2. expected[Head(notices).path] \in {None} \cup 1 .. stamps /\ stamps \in Nat
    BY <2>1 DEF TypesInv, FilesTyped, Marks
  <2>3. expected[Head(notices).path] # Gone
    BY <2>2, SessionsAssumption DEF NoticeSuppressed, Suppresses, sent
  <2> QED BY <2>3 DEF NoticeSuppressed, Suppresses, sent
<1>5. /\ docs' = docs /\ calls' = calls /\ disk' = disk /\ pending' = pending
      /\ notices # <<>> /\ notices' = Tail(notices)
  BY DEF NoticeSuppressed, NoticeIs, watcher, WatcherLeaves, screen, sent
<1> HIDE DEF es
<1> QED BY <1>1, <1>3, <1>4, <1>5, TellingStep

LEMMA ChangeApart ==
    ASSUME PathsInv, races = {}, NoticeOfChange
    PROVE  StaysApart /\ NewsInv'
<1> DEFINE n == Head(notices)
           e == Event(n.kind, n.path, <<>>)
           es == <<e>>
<1>1. IsSeq(es) /\ DOMAIN es = {1} /\ es[1] = e
  BY ShortSeqs
<1>2. e.kind # "rename" /\ e.path = n.path
  BY EventOf DEF NoticeOfChange, NoticeIs
<1>3. /\ docs' = docs /\ calls' = calls /\ disk' = disk /\ pending' = pending
      /\ notices # <<>> /\ notices' = Tail(notices) /\ Emit(es)
  BY DEF NoticeOfChange, NoticeIs, WatcherLeaves, screen
<1>4. n.path \in Path
  BY <1>3, NewsOfPaths DEF PathsInv
<1> HIDE DEF es, e
<1>5. \A k \in DOMAIN es : es[k].path \in Path /\ es[k].kind # "rename"
  BY <1>1, <1>2, <1>4
<1>6. \E k \in DOMAIN es : es[k].path = Head(notices).path
  BY <1>1, <1>2
<1>7. PICK top : EmitsAfter(es, top)
  BY <1>1, <1>3, EmitTells DEF PathsInv, NewsInv
<1> QED BY <1>1, <1>3, <1>5, <1>6, <1>7, TellingStep

LEMMA HalfGoneApart ==
    ASSUME PathsInv, races = {}, HalfGone
    PROVE  StaysApart /\ NewsInv'
<1> DEFINE n == Head(notices)
           es == IF pending = None THEN <<>> ELSE <<RemoveOf(pending.path)>>
<1>1. /\ docs' = docs /\ calls' = calls /\ disk' = disk
      /\ notices # <<>> /\ notices' = Tail(notices) /\ Emit(es)
      /\ n.kind = "half" /\ pending' = [path |-> n.path, mate |-> n.mate]
  BY DEF HalfGone, NoticeIs, WatcherLeaves, screen
<1>2. n.path \in Path /\ n.mate \in Path \cup {None} /\ (pending # None => pending.path \in Path)
  BY <1>1, NewsOfPaths DEF PathsInv
<1>3. pending' # None /\ pending'.path = n.path /\ pending'.mate = n.mate
  <2>1. pending'.path = n.path /\ pending'.mate = n.mate
    BY <1>1
  <2>2. pending' # None
    BY <1>1, <1>2, SessionsAssumption
  <2> QED BY <2>1, <2>2
<1>4. /\ IsSeq(es) /\ DOMAIN es \subseteq {1, 2}
      /\ \A k \in DOMAIN es : es[k].path \in Path /\ es[k].kind # "rename"
      /\ pending = None \/ \E k \in DOMAIN es : es[k].path = pending.path
  <2>1. CASE pending = None
    <3>1. es = <<>>
      BY <2>1
    <3> QED BY <2>1, <3>1, ShortSeqs
  <2>2. CASE pending # None
    <3> DEFINE e == RemoveOf(pending.path)
    <3>1. e.kind # "rename" /\ e.path = pending.path
      BY EventOf DEF RemoveOf
    <3> HIDE DEF e
    <3>2. es = <<e>>
      BY <2>2 DEF e
    <3>3. IsSeq(<<e>>) /\ DOMAIN <<e>> = {1}
      BY ShortSeqs
    <3>4. \A k \in DOMAIN <<e>> : <<e>>[k] = e
      BY <3>3
    <3> QED BY <1>2, <2>2, <3>1, <3>2, <3>3, <3>4
  <2> QED BY <2>1, <2>2
<1> HIDE DEF es
<1>5. PICK top : EmitsAfter(es, top)
  BY <1>1, <1>4, EmitTells DEF PathsInv, NewsInv
<1> QED BY <1>1, <1>3, <1>4, <1>5, TellingStep

LEMMA ThereApart ==
    ASSUME PathsInv, races = {}, NEW es, IsSeq(es), DOMAIN es \subseteq {1, 2}, HalfThere(es),
           \A k \in DOMAIN es :
              /\ es[k].path \in Path
              /\ es[k].kind = "rename" => es[k].to \in Path /\ Way(es[k].path, es[k].to),
           pending = None \/ \E k \in DOMAIN es : es[k].path = pending.path
    PROVE  StaysApart /\ NewsInv'
<1>1. /\ docs' = docs /\ calls' = calls /\ disk' = disk /\ pending' = None
      /\ notices # <<>> /\ notices' = Tail(notices) /\ Emit(es)
      /\ disk[Head(notices).path] # Gone
  BY DEF HalfThere, NoticeIs, WatcherLeaves, screen
<1>2. PICK top : EmitsAfter(es, top)
  BY <1>1, EmitTells DEF PathsInv, NewsInv
<1> QED BY <1>1, <1>2, TellingStep

LEMMA PairedApart ==
    ASSUME PathsInv, races = {}, Paired
    PROVE  StaysApart /\ NewsInv'
<1> DEFINE n == Head(notices)
           e == Event("rename", pending.path, n.path)
           es == <<e>>
<1>1. /\ pending # None /\ notices # <<>> /\ n.kind = "half" /\ HalfThere(es)
      /\ pending.mate = n.path /\ n.mate = pending.path
  BY DEF Paired, HalfThere, NoticeIs, Admits, Mates
<1>2. n.path \in Path /\ pending.path \in Path /\ 1 \in DOMAIN notices /\ n = notices[1]
  BY <1>1, NewsOfPaths DEF PathsInv
<1>3. Way(pending.path, n.path)
  BY <1>1, <1>2 DEF Way, Waits, HalfOf
<1>4. IsSeq(es) /\ DOMAIN es = {1} /\ es[1] = e
  BY ShortSeqs
<1>5. e.path = pending.path /\ e.to = n.path
  BY EventOf
<1> HIDE DEF es, e
<1>6. \A k \in DOMAIN es : /\ es[k].path \in Path
                           /\ es[k].to \in Path /\ Way(es[k].path, es[k].to)
  BY <1>2, <1>3, <1>4, <1>5
<1>7. \E k \in DOMAIN es : es[k].path = pending.path
  BY <1>4, <1>5
<1> QED BY <1>1, <1>4, <1>6, <1>7, ThereApart

LEMMA PairedTooLateApart ==
    ASSUME PathsInv, races = {}, PairedTooLate
    PROVE  StaysApart /\ NewsInv'
<1> DEFINE n == Head(notices)
           e == RemoveOf(pending.path)
           f == Event("create", n.path, <<>>)
           es == <<e, f>>
<1>1. pending # None /\ notices # <<>> /\ HalfThere(es)
  BY DEF PairedTooLate
<1>2. n.path \in Path /\ pending.path \in Path
  BY <1>1, NewsOfPaths DEF PathsInv
<1>3. e.kind # "rename" /\ e.path = pending.path /\ f.kind # "rename" /\ f.path = n.path
  BY EventOf DEF RemoveOf
<1> HIDE DEF e, f
<1>4. IsSeq(es) /\ DOMAIN es = {1, 2} /\ es[1] = e /\ es[2] = f
  BY ShortSeqs
<1> HIDE DEF es
<1>5. \A k \in DOMAIN es : es[k].path \in Path /\ es[k].kind # "rename"
  BY <1>2, <1>3, <1>4
<1>6. \E k \in DOMAIN es : es[k].path = pending.path
  BY <1>3, <1>4
<1> QED BY <1>1, <1>4, <1>5, <1>6, ThereApart

LEMMA AloneApart ==
    ASSUME PathsInv, races = {}, HalfAlone
    PROVE  StaysApart /\ NewsInv'
<1> DEFINE n == Head(notices)
           f == Event("create", n.path, <<>>)
           es == <<f>>
<1>1. pending = None /\ notices # <<>> /\ HalfThere(es)
  BY DEF HalfAlone
<1>2. n.path \in Path
  BY <1>1, NewsOfPaths DEF PathsInv
<1>3. f.kind # "rename" /\ f.path = n.path
  BY EventOf
<1> HIDE DEF f
<1>4. IsSeq(es) /\ DOMAIN es = {1} /\ es[1] = f
  BY ShortSeqs
<1> HIDE DEF es
<1>5. \A k \in DOMAIN es : es[k].path \in Path /\ es[k].kind # "rename"
  BY <1>2, <1>3, <1>4
<1> QED BY <1>1, <1>4, <1>5, ThereApart

LEMMA TimesOutApart ==
    ASSUME PathsInv, races = {}, HalfTimesOut
    PROVE  StaysApart /\ NewsInv'
<1> DEFINE e == RemoveOf(pending.path)
           es == <<e>>
<1>1. /\ docs' = docs /\ calls' = calls /\ disk' = disk /\ pending # None /\ pending' = None
      /\ notices' = notices /\ Emit(es)
  BY DEF HalfTimesOut, WatcherLeaves, screen
<1>2. pending.path \in Path
  BY <1>1, NewsOfPaths DEF PathsInv
<1>3. e.kind # "rename" /\ e.path = pending.path
  BY EventOf DEF RemoveOf
<1> HIDE DEF e
<1>4. IsSeq(es) /\ DOMAIN es = {1} /\ es[1] = e
  BY ShortSeqs
<1> HIDE DEF es
<1>5. \A k \in DOMAIN es : es[k].path \in Path /\ es[k].kind # "rename"
  BY <1>2, <1>3, <1>4
<1>6. \E k \in DOMAIN es : es[k].path = pending.path
  BY <1>3, <1>4
<1>7. PICK top : EmitsAfter(es, top)
  BY <1>1, <1>4, EmitTells DEF PathsInv, NewsInv
<1> QED BY <1>1, <1>4, <1>5, <1>6, <1>7, TellingStep

LEMMA ForgottenApart ==
    ASSUME PathsInv, NEW p \in Files, WriteForgotten(p)
    PROVE  StaysApart /\ NewsInv'
<1> DEFINE es == <<>>
<1>1. IsSeq(es) /\ DOMAIN es = {}
  BY ShortSeqs
<1>2. IsSeq(events)
  BY DEF PathsInv, NewsInv
<1>3. EmitsAfter(es, Len(events))
  BY <1>2, SilenceTells DEF WriteForgotten, sent
<1>4. /\ docs' = docs /\ calls' = calls /\ disk' = disk /\ pending' = pending /\ notices' = notices
  BY DEF WriteForgotten, WatcherLeaves, screen, sent
<1> HIDE DEF es
<1> QED BY <1>1, <1>3, <1>4, TellingStep

-----------------------------------------------------------------------------
(* The disk *)

(* A file comes where its folder is, or is written.                          *)
LEMMA StampedTree ==
    ASSUME TypesInv, IsATree, NEW p \in Path, disk[p] # Gone \/ HasParent(disk, p),
           stamps' = stamps + 1, disk' = [disk EXCEPT ![p] = stamps']
    PROVE  IsATree' /\ \A q \in Path : disk[q] # Gone => disk'[q] # Gone
<1>1. disk'[p] # Gone /\ \A q \in Path : q # p => disk'[q] = disk[q]
  BY StampIsThere
<1>2. ASSUME NEW r \in Path, NEW q \in Path, IsPrefix(r, q), disk'[q] # Gone PROVE disk'[r] # Gone
  <2>1. CASE r = p
    BY <1>1, <2>1
  <2>2. CASE r # p /\ disk[q] # Gone
    BY <1>1, <1>2, <2>2 DEF IsATree
  <2>3. CASE r # p /\ q = p /\ disk[p] = Gone
    <3>1. r \in Seq(Name) /\ r # <<>>
      BY SessionsAssumption
    <3>2. Len(p) > 1 /\ Parent(p) \in Path /\ IsPrefix(r, Parent(p))
      BY <1>2, <2>3, <3>1, AbovePath
    <3>3. disk[Parent(p)] # Gone
      BY <2>3, <3>2, SessionsAssumption DEF HasParent
    <3>4. disk[r] # Gone
      BY <3>2, <3>3 DEF IsATree
    <3> QED BY <1>1, <2>3, <3>4
  <2> QED BY <1>1, <1>2, <2>1, <2>2, <2>3
<1> QED BY <1>1, <1>2 DEF IsATree

LEMMA PrunedTree ==
    ASSUME IsATree, NEW p \in Path, disk' = Prune(disk, p)
    PROVE  /\ IsATree'
           /\ \A q \in Path : disk'[q] = IF IsPrefix(p, q) THEN Gone ELSE disk[q]
<1>1. \A q \in Path : disk'[q] = IF IsPrefix(p, q) THEN Gone ELSE disk[q]
  BY DEF Prune
<1>2. ASSUME NEW r \in Path, NEW q \in Path, IsPrefix(r, q), disk'[q] # Gone PROVE disk'[r] # Gone
  <2>1. ~IsPrefix(p, q) /\ disk[q] # Gone
    BY <1>1, <1>2
  <2>2. p \in Seq(Name) /\ q \in Seq(Name) /\ r \in Seq(Name)
    BY SessionsAssumption
  <2>3. ~IsPrefix(p, r)
    BY <1>2, <2>1, <2>2, PrefixOrder
  <2> QED BY <1>1, <1>2, <2>1, <2>3 DEF IsATree
<1> QED BY <1>1, <1>2 DEF IsATree

(* What moves has its folders above it, at its new place as at the old.      *)
LEMMA RenamedTree ==
    ASSUME IsATree, NEW p \in Path, NEW to \in Path, ~Meets(p, to), HasParent(disk, to),
           disk' = Renamed(disk, p, to)
    PROVE  /\ IsATree'
           /\ \A q \in Path : ~IsPrefix(to, q)
                => disk'[q] = IF IsPrefix(p, q) THEN Gone ELSE disk[q]
<1>0. \A q \in Path : q \in Seq(Name) /\ q # <<>>
  BY SessionsAssumption
<1>1. \A q \in Path : ~IsPrefix(to, q) => disk'[q] = IF IsPrefix(p, q) THEN Gone ELSE disk[q]
  BY DEF Renamed, Prune
<1>2. \A q \in Path : IsPrefix(to, q) /\ disk'[q] # Gone
         => Remap(to, p, q) \in Path /\ disk[Remap(to, p, q)] # Gone /\ disk'[q] = disk[Remap(to, p, q)]
  BY DEF Renamed
<1>3. ASSUME NEW r \in Path, NEW q \in Path, IsPrefix(r, q), disk'[q] # Gone PROVE disk'[r] # Gone
  <2>1. CASE IsPrefix(to, q) /\ IsPrefix(to, r)
    <3> DEFINE m == Remap(to, p, q)
               o == Remap(to, p, r)
    <3>1. m \in Path /\ disk[m] # Gone
      BY <1>2, <1>3, <2>1
    <3>2. o \in Seq(Name) /\ IsPrefix(p, o) /\ IsPrefix(o, m)
      <4>1. IsPrefix(Remap(to, p, r), Remap(to, p, q))
        BY <1>0, <1>3, <2>1, RemapMoves
      <4>2. Remap(to, p, r) \in Seq(Name) /\ IsPrefix(p, Remap(to, p, r))
        BY <1>0, <2>1, RemapMoves
      <4> QED BY <4>1, <4>2
    <3>3. disk'[r] = IF o \in Path THEN disk[o] ELSE Gone
      BY <2>1 DEF Renamed
    <3> HIDE DEF m, o
    <3>4. o # <<>>
      <4>1. Len(p) \in Nat /\ Len(p) # 0 /\ Len(p) <= Len(o)
        BY <1>0, <3>2, PrefixOfNames
      <4> QED BY <4>1
    <3>5. o \in Path
      BY <3>1, <3>2, <3>4, AbovePath
    <3>6. disk[o] # Gone
      BY <3>1, <3>2, <3>5 DEF IsATree
    <3> QED BY <3>3, <3>5, <3>6
  <2>2. CASE IsPrefix(to, q) /\ ~IsPrefix(to, r)
    <3>1. IsPrefix(r, to) /\ r # to
      BY <1>0, <1>3, <2>2, PrefixOrder DEF Meets
    <3>2. Len(to) > 1 /\ Parent(to) \in Path /\ IsPrefix(r, Parent(to))
      BY <1>0, <3>1, AbovePath
    <3>3. disk[r] # Gone
      BY <3>2, SessionsAssumption DEF HasParent, IsATree
    <3>4. ~IsPrefix(p, r)
      BY <1>0, <3>1, PrefixOrder DEF Meets
    <3> QED BY <1>1, <2>2, <3>3, <3>4
  <2>3. CASE ~IsPrefix(to, q)
    <3>1. ~IsPrefix(p, q) /\ disk[q] # Gone
      BY <1>1, <1>3, <2>3
    <3>2. ~IsPrefix(to, r) /\ ~IsPrefix(p, r)
      BY <1>0, <1>3, <2>3, <3>1, PrefixOrder
    <3> QED BY <1>1, <1>3, <3>1, <3>2 DEF IsATree
  <2> QED BY <2>1, <2>2, <2>3
<1> QED BY <1>1, <1>3 DEF IsATree

LEMMA TreeOfGoes ==
    ASSUME TypesInv, IsATree, NEW then, NEW q, Goes(then, q)
    PROVE  IsATree'
<1>1. CASE disk' = disk
  BY <1>1 DEF IsATree
<1>2. ASSUME NEW p \in Names(then.path), stamps' = stamps + 1, disk' = [disk EXCEPT ![p] = stamps']
      PROVE  IsATree'
  <2>1. p \in Path /\ HasParent(disk, p)
    BY DEF Names, Free, Path
  <2> QED BY <1>2, <2>1, StampedTree
<1> QED BY <1>1, <1>2 DEF Goes

LEMMA TreeOfPerson ==
    ASSUME TypesInv, IsATree, Person
    PROVE  IsATree'
<1>0. disk' = disk => IsATree'
  BY DEF IsATree
<1>1. ASSUME NEW then, Transition(then) PROVE IsATree'
  BY <1>0, <1>1, TreeOfGoes DEF Transition, SaveThen
<1>2. ASSUME NEW p \in Files, OpenEntry(p) \/ OpenLink(p) PROVE IsATree'
  BY <1>1, <1>2 DEF OpenEntry, OpenLink
<1>3. ASSUME NEW p, CreateDocument(p) PROVE IsATree'
  BY <1>1, <1>3 DEF CreateDocument
<1>4. ASSUME NEW p \in Path, NEW to \in Path, Rename(p, to) \/ Move(p, to) PROVE IsATree'
  <2>1. ~Meets(p, to) /\ HasParent(disk, to) /\ disk' = Renamed(disk, p, to)
    BY <1>4 DEF Rename, Move, Relocates, Fits, Free
  <2> QED BY <2>1, RenamedTree
<1>5. ASSUME NEW p \in Path, Trash(p) PROVE IsATree'
  BY <1>5, PrunedTree DEF Trash
<1>6. CASE Save \/ CloseSaving \/ Close \/ Reload \/ RefreshWorkspace \/ Edit
  BY <1>0, <1>6 DEF Save, CloseSaving, Close, Reload, RefreshWorkspace, Edit, SaveThen, sent
<1> QED BY <1>2, <1>3, <1>4, <1>5, <1>6 DEF Person

LEMMA TreeOfReplies ==
    ASSUME TypesInv, IsATree, Replies
    PROVE  IsATree'
<1>0. disk' = disk => IsATree'
  BY DEF IsATree
<1>1. CASE Writes
  <2> DEFINE p == Head(calls).doc.path
  <2>1. \/ disk' = disk
        \/ At(p) \notin {Gone, Folder} /\ stamps' = stamps + 1 /\ disk' = [disk EXCEPT ![p] = stamps']
    BY <1>1 DEF Writes
  <2>2. At(p) # Gone => p \in Path /\ disk[p] # Gone
    BY DEF At
  <2> HIDE DEF p
  <2> QED BY <1>0, <2>1, <2>2, StampedTree
<1>2. CASE GoesOn
  BY <1>2, TreeOfGoes DEF GoesOn
<1>3. CASE ~Writes /\ ~GoesOn
  BY <1>0, <1>3 DEF Replies, Loaded, InspectionFindsAChange, Written, Saved, LinkRead, Created,
     Reloaded, Remapped, Trashed, Refreshed
<1> QED BY <1>1, <1>2, <1>3

LEMMA TreeOfOthers ==
    ASSUME TypesInv, IsATree, races = {}, Others
    PROVE  IsATree'
<1>1. ASSUME NEW p \in Files, OthersWrite(p) \/ OthersCreate(p) \/ OthersMoveIn(p) PROVE IsATree'
  <2>1. p \in Path /\ (disk[p] # Gone \/ HasParent(disk, p))
    BY <1>1 DEF OthersWrite, OthersCreate, OthersMoveIn, Free, Path
  <2>2. stamps' = stamps + 1 /\ disk' = [disk EXCEPT ![p] = stamps']
    BY <1>1 DEF OthersWrite, OthersCreate, OthersMoveIn, OthersDo, sent
  <2> QED BY <2>1, <2>2, StampedTree
<1>2. ASSUME NEW p \in Path, OthersMoveOut(p) \/ OthersRemove(p) PROVE IsATree'
  BY <1>2, PrunedTree DEF OthersMoveOut, OthersRemove, OthersDo, sent
<1>3. ASSUME NEW p \in Path, NEW to \in Path, OthersRename(p, to) PROVE IsATree'
  <2>1. ~Meets(p, to) /\ HasParent(disk, to) /\ disk' = Renamed(disk, p, to)
    BY <1>3 DEF OthersRename, OthersDo, Fits, Free, Admits, sent
  <2> QED BY <2>1, RenamedTree
<1>4. Files \subseteq Path
  BY DEF Path
<1> QED BY <1>1, <1>2, <1>3, <1>4 DEF Others

-----------------------------------------------------------------------------
(* An event is delivered *)

LEMMA PlaceClassified ==
    ASSUME NEW d, IsDoc(d), NEW e
    PROVE  /\ e.kind = "rename" => Classified(d, e).path = Remap(e.path, e.to, d.path)
           /\ e.kind # "rename" => Classified(d, e).path = d.path
<1> DEFINE r == Remap(e.path, e.to, d.path)
<1>1. CASE ~Concerns(d, e)
  <2>1. Classified(d, e) = d
    BY <1>1 DEF Classified
  <2>2. e.kind = "rename" => Remap(e.path, e.to, d.path) = d.path
    BY <1>1 DEF Concerns, Remap
  <2> QED BY <2>1, <2>2
<1>2. CASE Concerns(d, e) /\ e.kind = "rename"
  <2>1. Classified(d, e) = [d EXCEPT !.path = r]
    BY <1>2 DEF Classified
  <2> HIDE DEF r
  <2>2. Classified(d, e).path = r
    BY <2>1 DEF IsDoc
  <2> QED BY <1>2, <2>2 DEF r
<1>3. CASE Concerns(d, e) /\ e.kind # "rename"
  <2> DEFINE s == StampOf(e)
             m == [d EXCEPT !.status = "missing"]
             c == Changed(d, s)
  <2>1. Classified(d, e) \in {d, m, c}
    BY <1>3 DEF Classified
  <2>2. c.path = d.path
    BY DEF Changed, IsDoc
  <2>3. m.path = d.path
    BY DEF IsDoc
  <2> HIDE DEF m, c
  <2> QED BY <1>3, <2>1, <2>2, <2>3
<1> QED BY <1>1, <1>2, <1>3

LEMMA PlacesOfEvent ==
    ASSUME SessionsInv, NEW e
    PROVE  LET ds == DocsAfter(e)
           IN  \A j \in DOMAIN ds : \E i \in DOMAIN docs :
                 /\ ds[j].id = docs[i].id
                 /\ ds[j].path = IF e.kind = "rename" THEN Remap(e.path, e.to, docs[i].path)
                                 ELSE docs[i].path
<1> DEFINE at == {i \in DOMAIN docs : ~Leaves(docs[i], e)}
           stay == Kept(docs, at)
           ds == DocsAfter(e)
<1>1. DOMAIN ds = DOMAIN stay /\ \A j \in DOMAIN stay : ds[j] = Classified(stay[j], e)
  BY DEF DocsAfter
<1>2. AreApart(docs, opened)
  BY DEF SessionsInv
<1>3. \A n \in DOMAIN stay : \E i \in DOMAIN docs : stay[n] = docs[i]
  <2>1. at \in SUBSET DOMAIN docs
    OBVIOUS
  <2> HIDE DEF at
  <2> QED BY <1>2, <2>1, KeptAreApart
<1> HIDE DEF stay, ds
<1>4. ASSUME NEW i \in DOMAIN docs
      PROVE  /\ Classified(docs[i], e).id = docs[i].id
             /\ Classified(docs[i], e).path =
                  IF e.kind = "rename" THEN Remap(e.path, e.to, docs[i].path) ELSE docs[i].path
  <2>1. IsDoc(docs[i])
    BY <1>2 DEF AreApart
  <2> QED BY <2>1, ClassifiedStays, PlaceClassified
<1>5. \A j \in DOMAIN ds : \E i \in DOMAIN docs :
        /\ ds[j].id = docs[i].id
        /\ ds[j].path = IF e.kind = "rename" THEN Remap(e.path, e.to, docs[i].path) ELSE docs[i].path
  BY <1>1, <1>3, <1>4
<1> QED BY <1>5 DEF ds

(* A handler that waits: only the scans count the event.                     *)
Waited(c) == IF c.kind = "refresh" /\ c.ahead > 0 THEN [c EXCEPT !.ahead = @ - 1] ELSE c

LEMMA WaitedHandlers ==
    ASSUME SessionsInv, PathsInv, NEW q, q = [i \in DOMAIN calls |-> Waited(calls[i])]
    PROVE  IsSeq(q) /\ OneHandler(q)
<1>1. IsSeq(calls) /\ OneHandler(calls) /\ Len(calls) \in Nat /\ DOMAIN calls = 1 .. Len(calls)
  BY ElementsOfSeq DEF SessionsInv, AreInOrder, PathsInv, HandlersInv
<1>2. q \in Seq({q[i] : i \in DOMAIN calls})
  <2>1. DOMAIN q = DOMAIN calls /\ q = [i \in DOMAIN calls |-> q[i]]
    OBVIOUS
  <2> QED BY <1>1, <2>1
<1>3. IsSeq(q)
  BY <1>2, SeqOfItself
<1>4. \A i \in DOMAIN calls : q[i].kind = calls[i].kind
  <2> SUFFICES ASSUME NEW i \in DOMAIN calls PROVE q[i].kind = calls[i].kind
    OBVIOUS
  <2> DEFINE c == calls[i]
  <2>1. IsCall(c)
    BY DEF SessionsInv, AreInOrder, IsInOrder
  <2> HIDE DEF c
  <2>2. Waited(c).kind = c.kind
    BY <2>1 DEF Waited, IsCall
  <2> QED BY <2>2 DEF c
<1>5. DOMAIN q = DOMAIN calls
  OBVIOUS
<1> QED BY <1>1, <1>3, <1>4, <1>5 DEF OneHandler

LEMMA DeliverApart ==
    ASSUME SessionsInv, PathsInv, races = {}, Deliver
    PROVE  StaysApart /\ NewsInv'
<1> DEFINE e == Head(events)
           q == [i \in DOMAIN calls |-> Waited(calls[i])]
           u == e.path
           v == e.to
<1>1. /\ IsSeq(events) /\ IsSeq(events') /\ 1 \in DOMAIN events /\ e = events[1]
      /\ \A i \in DOMAIN events' : i + 1 \in DOMAIN events /\ events'[i] = events[i + 1]
      /\ Len(events) \in Nat /\ Len(events') = Len(events) - 1
      /\ DOMAIN events = 1 .. Len(events) /\ DOMAIN events' = 1 .. Len(events) - 1
  <2>1. IsSeq(events) /\ events # <<>> /\ events' = Tail(events)
    BY DEF PathsInv, NewsInv, Deliver
  <2>2. /\ IsSeq(events') /\ 1 \in DOMAIN events /\ e = events[1]
        /\ \A i \in DOMAIN events' : i + 1 \in DOMAIN events /\ events'[i] = events[i + 1]
    BY <2>1, RestOfSeq
  <2>3. Len(events') = Len(events) - 1
    BY <2>1 DEF IsSeq
  <2> QED BY <2>1, <2>2, <2>3, ElementsOfSeq
<1>2. /\ Become(DocsAfter(e), active, TreeAfter(e), q)
      /\ disk' = disk /\ notices' = notices /\ pending' = pending
      /\ \A i \in DOMAIN calls : calls[i].kind = "refresh" => calls[i].ahead > 0
  BY DEF Deliver, Admits, Waited, watcher
<1>3. /\ u \in Path /\ (e.kind = "rename" => v \in Path /\ Way(u, v))
  BY <1>1 DEF PathsInv, NewsInv, Way
<1>4. IsSeq(q) /\ OneHandler(q)
  BY WaitedHandlers
<1>5. docs' = DocsAfter(e) /\ OneHandler(calls)' /\ From(calls', q)
  <2> HIDE DEF q, e
  <2> QED BY <1>2, <1>4, HandlersOfChange
<1>6. \A j \in DOMAIN docs' : \E i \in DOMAIN docs :
        /\ docs'[j].id = docs[i].id
        /\ docs'[j].path = IF e.kind = "rename" THEN Remap(u, v, docs[i].path) ELSE docs[i].path
  <2>1. SessionsInv /\ docs' = DocsAfter(e)
    BY <1>5
  <2> HIDE DEF e
  <2> QED BY <2>1, PlacesOfEvent
<1>7. \A n \in DOMAIN calls' : calls'[n].kind = "load" \/ \E i \in DOMAIN calls : calls'[n] = Waited(calls[i])
  BY <1>5 DEF From
<1>8. NewsInv'
  BY <1>1, <1>2 DEF PathsInv, NewsInv
<1> HIDE DEF e, q
<1>9. NoNewWay
  <2>1. ASSUME NEW x \in Path, NEW y \in Path, Way(x, y)' PROVE Way(x, y)
    <3>1. CASE (HalfOf(x, y) \/ Waits(x, y))' /\ HalfOf(y, x)'
      BY <1>2, <3>1 DEF Way, HalfOf, Waits
    <3>2. CASE \E i \in DOMAIN events' : events'[i].kind = "rename" /\ events'[i].path = x /\ events'[i].to = y
      BY <1>1, <3>2 DEF Way
    <3>3. ASSUME NEW n \in DOMAIN calls', calls'[n].kind = "remap", calls'[n].path = x, calls'[n].to = y
          PROVE  Way(x, y)
      <4>1. PICK i \in DOMAIN calls : calls'[n] = Waited(calls[i])
        BY <1>7, <3>3
      <4> DEFINE c == calls[i]
      <4>2. IsCall(c)
        BY DEF SessionsInv, AreInOrder, IsInOrder
      <4> HIDE DEF c
      <4>3. Waited(c).kind = c.kind
        BY <4>2 DEF Waited, IsCall
      <4>4. c.kind = "remap" => Waited(c) = c
        BY DEF Waited
      <4>5. calls[i].kind = "remap" /\ calls[i].path = x /\ calls[i].to = y
        BY <3>3, <4>1, <4>3, <4>4 DEF c
      <4> QED BY <4>5 DEF Way
    <3> QED BY <2>1, <3>1, <3>2, <3>3 DEF Way
  <2> QED BY <2>1 DEF NoNewWay
<1>10. /\ PathsApart(docs)' /\ WaysInv'
       /\ \A x \in Path : Claimed(x)' /\ (e.kind = "rename" => Off(x, u, v)) => Claimed(x)
  <2>1. CASE e.kind = "rename"
    <3>1. \A j \in DOMAIN docs' : \E i \in DOMAIN docs :
             docs'[j].id = docs[i].id /\ docs'[j].path = Remap(u, v, docs[i].path)
      BY <1>6, <2>1
    <3>2. PathsApart(docs) /\ WaysInv /\ u \in Path /\ v \in Path /\ Way(u, v)
      BY <1>3, <2>1 DEF PathsInv
    <3> HIDE DEF u, v
    <3>3. /\ PathsApart(docs)' /\ WaysInv' /\ \A x \in Path : Off(x, u, v) /\ Claimed(x)' => Claimed(x)
      BY <1>9, <3>1, <3>2, MovedPaths
    <3> QED BY <2>1, <3>3
  <2>2. CASE e.kind # "rename"
    <3>1. SamePlaces(docs')
      BY <1>6, <2>2 DEF SamePlaces
    <3>2. PathsApart(docs)' /\ NoNewClaim
      BY <3>1, SameClaims DEF PathsInv
    <3>3. WaysInv'
      BY <1>9, <3>2, NothingMoves DEF PathsInv
    <3> QED BY <3>2, <3>3 DEF NoNewClaim
  <2> QED BY <2>1, <2>2
<1>11. ASSUME NEW n \in DOMAIN calls' PROVE Handler(calls[n])'
  <2>1. CASE calls'[n].kind = "load"
    BY <2>1 DEF Handler
  <2>2. ASSUME NEW i \in DOMAIN calls, NEW c, c = calls[i], NEW w, w = Waited(c), calls'[n] = w
        PROVE  Handler(calls[n])'
    <3>1. Handler(c) /\ IsCall(c)
      <4>1. Handler(calls[i])
        BY DEF PathsInv, HandlersInv
      <4>2. IsCall(calls[i])
        BY DEF SessionsInv, AreInOrder, IsInOrder
      <4> QED BY <2>2, <4>1, <4>2
    <3>2. CASE c.kind # "refresh"
      <4>1. w = c
        BY <2>2, <3>2 DEF Waited
      <4>2. c.kind \in {"link", "create"} => \A x, y \in Path : Way(x, y)' => Off(c.path, x, y)
        BY <1>9, <3>1 DEF Handler, NoNewWay
      <4> QED BY <1>2, <2>2, <3>1, <3>2, <4>1, <4>2 DEF Handler
    <3>3. CASE c.kind = "refresh" /\ c.then.do # "open"
      <4>1. w.kind = "refresh" /\ w.then = c.then
        BY <2>2, <3>1, <3>3 DEF Waited, IsCall
      <4> QED BY <2>2, <3>3, <4>1 DEF Handler
    <3>4. CASE c.kind = "refresh" /\ c.then.do = "open"
      <4> DEFINE f == c.then.path
                 k == c.ahead
      <4>0. c.kind = "refresh" /\ c.then.do = "open"
        BY <3>4
      <4>1. /\ f \in Files /\ k \in 0 .. Len(events)
            /\ disk[f] # Gone \/ GoneTold(f, k)
            /\ \A x, y \in Path : Way(x, y) =>
                 \/ Off(f, x, y)
                 \/ /\ Later(x, y, k)
                    /\ \/ IsPrefix(x, f) /\ ~Claimed(y)
                       \/ IsPrefix(y, f) /\ ~Claimed(x)
        BY <3>1, <4>0 DEF Handler
      <4>2. k > 0
        BY <1>2, <2>2, <4>0
      <4>3. w.kind = "refresh" /\ w.then = c.then /\ w.ahead = k - 1
        BY <2>2, <3>1, <4>0, <4>2 DEF Waited, IsCall
      <4> HIDE DEF f, k
      <4>4. k - 1 \in 0 .. Len(events')
        BY <1>1, <4>1, <4>2
      <4>5. disk'[f] # Gone \/ GoneTold(f, k - 1)'
        <5>1. ASSUME GoneTold(f, k) PROVE GoneTold(f, k - 1)'
          <6>1. PICK r \in Path :
                  /\ IsPrefix(r, f) /\ disk[r] = Gone
                  /\ \/ \E j \in DOMAIN notices : notices[j].path = r
                     \/ pending # None /\ pending.path = r
                     \/ \E j \in DOMAIN events : j > k /\ events[j].path = r
            BY <5>1 DEF GoneTold
          <6>2. ASSUME NEW j \in DOMAIN events, j > k, events[j].path = r
                PROVE  \E m \in DOMAIN events' : m > k - 1 /\ events'[m].path = r
            <7>1. j - 1 \in DOMAIN events' /\ j - 1 > k - 1 /\ j - 1 + 1 = j
              BY <1>1, <4>1, <4>2, <6>2
            <7> QED BY <1>1, <6>2, <7>1
          <6> QED BY <1>2, <6>1, <6>2 DEF GoneTold
        <5> QED BY <1>2, <4>1, <5>1
      <4>6. ASSUME NEW x \in Path, NEW y \in Path, Later(x, y, k) PROVE Later(x, y, k - 1)'
        <5> SUFFICES ASSUME NEW j \in DOMAIN events', j <= k - 1, events'[j].kind = "rename"
                     PROVE  ~Same(events'[j].path, events'[j].to, x, y)
          BY DEF Later
        <5>1. j + 1 \in DOMAIN events /\ events'[j] = events[j + 1] /\ j + 1 <= k
          BY <1>1, <4>1
        <5> QED BY <4>6, <5>1 DEF Later
      <4>7. ASSUME NEW x \in Path, NEW y \in Path, Way(x, y), Later(x, y, k)
            PROVE  (Claimed(x)' => Claimed(x)) /\ (Claimed(y)' => Claimed(y))
        <5>1. ASSUME e.kind = "rename" PROVE Off(x, u, v) /\ Off(y, u, v)
          <6>1. ~Same(u, v, x, y)
            BY <1>1, <4>1, <4>2, <4>7, <5>1 DEF Later
          <6>2. Off(u, x, y) /\ Off(v, x, y)
            BY <1>3, <4>7, <5>1, <6>1 DEF PathsInv, WaysInv, Same
          <6> QED BY <6>2 DEF Off, Meets
        <5> QED BY <1>10, <5>1
      <4>8. \A x, y \in Path : Way(x, y)' =>
                 \/ Off(f, x, y)
                 \/ /\ Later(x, y, k - 1)'
                    /\ \/ IsPrefix(x, f) /\ ~Claimed(y)'
                       \/ IsPrefix(y, f) /\ ~Claimed(x)'
        BY <1>9, <4>1, <4>6, <4>7 DEF NoNewWay
      <4> DEFINE o == k - 1
      <4>9. w.then.path = f /\ w.ahead = o
        BY <4>3 DEF f
      <4>10. /\ o \in 0 .. Len(events') /\ (disk'[f] # Gone \/ GoneTold(f, o)')
             /\ \A x, y \in Path : Way(x, y)' =>
                 \/ Off(f, x, y)
                 \/ /\ Later(x, y, o)'
                    /\ \/ IsPrefix(x, f) /\ ~Claimed(y)'
                       \/ IsPrefix(y, f) /\ ~Claimed(x)'
        BY <4>4, <4>5, <4>8
      <4> HIDE DEF o
      <4> QED BY <2>2, <4>1, <4>3, <4>9, <4>10 DEF Handler
    <3> QED BY <3>2, <3>3, <3>4
  <2> QED BY <1>7, <2>1, <2>2
<1> QED BY <1>5, <1>8, <1>10, <1>11 DEF StaysApart, HandlersInv

LEMMA WatcherApart ==
    ASSUME SessionsInv, TypesInv, PathsInv, races = {}, Watcher
    PROVE  StaysApart /\ NewsInv'
BY SuppressedApart, ChangeApart, HalfGoneApart, PairedApart, PairedTooLateApart, AloneApart,
   TimesOutApart, ForgottenApart, DeliverApart DEF Watcher

-----------------------------------------------------------------------------
(* Other programs *)

(* Between the commands of a handler nothing is done: only loads and scans   *)
(* are on their way.                                                         *)
LEMMA OthersMeetNoHandler ==
    ASSUME NEW held, NEW ns, OthersDo(held, ns), races = {}
    PROVE  /\ \A i \in DOMAIN calls : calls[i].kind \in {"load", "refresh"}
           /\ docs' = docs /\ calls' = calls /\ events' = events /\ pending' = pending
           /\ disk' = held /\ notices' = notices \o ns
BY DEF OthersDo, Admits, Handling, screen, watcher, sent

LEMMA OneNotice ==
    ASSUME NewsInv, NEW kind, NEW p \in Path, notices' = notices \o Notice(kind, p)
    PROVE  /\ IsSeq(notices')
           /\ \A i \in DOMAIN notices : i \in DOMAIN notices' /\ notices'[i] = notices[i]
           /\ \E i \in DOMAIN notices' : notices'[i].path = p
           /\ \A i \in DOMAIN notices' :
                \/ i \in DOMAIN notices /\ notices'[i] = notices[i]
                \/ notices'[i].path = p /\ notices'[i].mate = None
<1> DEFINE n == [kind |-> kind, path |-> p, mate |-> None]
           t == <<n>>
           r == notices \o t
<1>1. n.path = p /\ n.mate = None
  OBVIOUS
<1>2. IsSeq(t) /\ DOMAIN t = {1} /\ t[1] = n
  BY ShortSeqs
<1>3. notices' = r
  BY DEF Notice
<1> HIDE DEF n, t
<1>4. /\ IsSeq(r) /\ Len(r) = Len(notices) + Len(t)
      /\ \A i \in DOMAIN notices : i \in DOMAIN r /\ r[i] = notices[i]
      /\ \A i \in DOMAIN t : Len(notices) + i \in DOMAIN r /\ r[Len(notices) + i] = t[i]
      /\ \A i \in DOMAIN r :
           \/ i \in DOMAIN notices
           \/ i > Len(notices) /\ i - Len(notices) \in DOMAIN t /\ r[i] = t[i - Len(notices)]
  <2>1. IsSeq(notices)
    BY DEF NewsInv
  <2> QED BY Zenon, <1>2, <2>1, JoinedSeq
<1> HIDE DEF r
<1>5. \E i \in DOMAIN r : r[i].path = p
  BY <1>1, <1>2, <1>4
<1>6. \A i \in DOMAIN r : (i \in DOMAIN notices /\ r[i] = notices[i]) \/ (r[i].path = p /\ r[i].mate = None)
  BY <1>1, <1>2, <1>4
<1> QED BY <1>3, <1>4, <1>5, <1>6

(* One thing is done, and there is a notice of it.                           *)
LEMMA OthersNotice ==
    ASSUME PathsInv, races = {}, NEW kind, NEW p \in Path, NEW held, OthersDo(held, Notice(kind, p)),
           \A q \in Path : disk[q] = Gone /\ Told(q) => disk'[q] = Gone,
           \A q \in Path : disk[q] # Gone => disk'[q] # Gone \/ (IsPrefix(p, q) /\ disk'[p] = Gone)
    PROVE  StaysApart /\ NewsInv'
<1>1. /\ \A i \in DOMAIN calls : calls[i].kind \in {"load", "refresh"}
      /\ docs' = docs /\ calls' = calls /\ events' = events /\ pending' = pending
      /\ notices' = notices \o Notice(kind, p)
  BY OthersMeetNoHandler
<1>2. /\ IsSeq(notices')
      /\ \A i \in DOMAIN notices : i \in DOMAIN notices' /\ notices'[i] = notices[i]
      /\ \E i \in DOMAIN notices' : notices'[i].path = p
      /\ \A i \in DOMAIN notices' :
           \/ i \in DOMAIN notices /\ notices'[i] = notices[i]
           \/ notices'[i].path = p /\ notices'[i].mate = None
  BY <1>1, OneNotice DEF PathsInv
<1>3. NewsInv'
  BY <1>1, <1>2 DEF PathsInv, NewsInv
<1>4. NoNewWay
  <2>1. ASSUME NEW x \in Path, NEW y \in Path, HalfOf(x, y)' PROVE HalfOf(x, y)
    <3>1. y # None
      BY SessionsAssumption
    <3>2. PICK i \in DOMAIN notices' :
            notices'[i].kind = "half" /\ notices'[i].path = x /\ notices'[i].mate = y
      BY <2>1 DEF HalfOf
    <3>3. i \in DOMAIN notices /\ notices'[i] = notices[i]
      BY <1>2, <3>1, <3>2
    <3> QED BY <3>2, <3>3 DEF HalfOf
  <2>2. ASSUME NEW x \in Path, NEW y \in Path, Way(x, y)' PROVE Way(x, y)
    <3>1. CASE (HalfOf(x, y) \/ Waits(x, y))' /\ HalfOf(y, x)'
      <4>1. HalfOf(x, y) \/ Waits(x, y)
        BY <1>1, <2>1, <3>1 DEF Waits
      <4>2. HalfOf(y, x)
        BY <2>1, <3>1
      <4> QED BY <4>1, <4>2 DEF Way
    <3>2. CASE \E i \in DOMAIN events' : events'[i].kind = "rename" /\ events'[i].path = x /\ events'[i].to = y
      BY <1>1, <3>2 DEF Way
    <3>3. CASE \E i \in DOMAIN calls' : calls'[i].kind = "remap" /\ calls'[i].path = x /\ calls'[i].to = y
      BY <1>1, <3>3
    <3> QED BY <2>2, <3>1, <3>2, <3>3 DEF Way
  <2> QED BY <2>2 DEF NoNewWay
<1>5. PathsApart(docs)' /\ NoNewClaim
  BY <1>1, SamePlacesOfDocs, SameClaims DEF PathsInv
<1>6. WaysInv'
  BY <1>4, <1>5, NothingMoves DEF PathsInv
<1>7. KeepsTelling
  <2>0. \A q \in Path : q \in Seq(Name) /\ Files \subseteq Path
    BY SessionsAssumption DEF Path
  <2>1. ASSUME NEW c \in Files, NEW n \in 0 .. Len(events), disk[c] # Gone
        PROVE  disk'[c] # Gone \/ GoneTold(c, n)'
    BY <1>2, <2>0, <2>1 DEF GoneTold
  <2>2. ASSUME NEW c \in Files, NEW n \in 0 .. Len(events), GoneTold(c, n)
        PROVE  GoneTold(c, n)'
    <3>1. PICK q \in Path :
            /\ IsPrefix(q, c) /\ disk[q] = Gone
            /\ \/ \E i \in DOMAIN notices : notices[i].path = q
               \/ pending # None /\ pending.path = q
               \/ \E i \in DOMAIN events : i > n /\ events[i].path = q
      BY <2>2 DEF GoneTold
    <3>2. Meets(q, q)
      BY <2>0, PrefixOrder DEF Meets
    <3>3. Told(q)
      BY <3>1, <3>2 DEF Told
    <3>4. disk'[q] = Gone
      BY <3>1, <3>3
    <3>5. \/ \E i \in DOMAIN notices' : notices'[i].path = q
          \/ pending' # None /\ pending'.path = q
          \/ \E i \in DOMAIN events' : i > n /\ events'[i].path = q
      BY <1>1, <1>2, <3>1
    <3> QED BY <3>1, <3>4, <3>5 DEF GoneTold
  <2>3. Len(events) \in Nat
    BY ElementsOfSeq DEF PathsInv, NewsInv
  <2> QED BY <1>1, <2>1, <2>2, <2>3 DEF KeepsTelling, Later
<1>8. OneHandler(calls)' /\ From(calls', calls)
  BY <1>1 DEF PathsInv, HandlersInv, OneHandler, From
<1>9. HandlersInv'
  BY <1>1, <1>4, <1>5, <1>7, <1>8, HandlersLast
<1> QED BY <1>3, <1>5, <1>6, <1>9 DEF StaysApart

LEMMA OthersStampApart ==
    ASSUME TypesInv, PathsInv, races = {}, NEW p \in Files,
           OthersWrite(p) \/ OthersCreate(p) \/ OthersMoveIn(p)
    PROVE  StaysApart /\ NewsInv'
<1>1. p \in Path
  BY DEF Path
<1>2. /\ stamps' = stamps + 1 /\ disk' = [disk EXCEPT ![p] = stamps']
      /\ \E kind : OthersDo([disk EXCEPT ![p] = stamps'], Notice(kind, p))
      /\ disk[p] # Gone \/ ~Told(p)
  BY DEF OthersWrite, OthersCreate, OthersMoveIn, OthersDo, Free, Calm, Admits, sent
<1>3. disk'[p] # Gone /\ \A q \in Path : q # p => disk'[q] = disk[q]
  BY <1>1, <1>2, StampIsThere
<1> DEFINE held == [disk EXCEPT ![p] = stamps']
<1>4. PICK kind : OthersDo(held, Notice(kind, p))
  BY <1>2
<1> HIDE DEF held
<1>5. \A q \in Path : disk[q] = Gone /\ Told(q) => disk'[q] = Gone
  BY <1>2, <1>3
<1>6. \A q \in Path : disk[q] # Gone => disk'[q] # Gone
  BY <1>3
<1> QED BY <1>1, <1>4, <1>5, <1>6, OthersNotice

LEMMA OthersGoneApart ==
    ASSUME PathsInv, races = {}, NEW p \in Path, OthersRemove(p) \/ OthersMoveOut(p)
    PROVE  StaysApart /\ NewsInv'
<1>1. disk' = Prune(disk, p) /\ \E kind : OthersDo(Prune(disk, p), Notice(kind, p))
  BY DEF OthersRemove, OthersMoveOut, OthersDo, sent
<1>2. \A q \in Path : disk'[q] = IF IsPrefix(p, q) THEN Gone ELSE disk[q]
  BY <1>1, PrunedTree DEF PathsInv
<1>3. IsPrefix(p, p)
  BY PrefixOrder, SessionsAssumption
<1> DEFINE held == Prune(disk, p)
<1>4. PICK kind : OthersDo(held, Notice(kind, p))
  BY <1>1
<1> HIDE DEF held
<1>5. \A q \in Path : disk[q] = Gone /\ Told(q) => disk'[q] = Gone
  BY <1>2
<1>6. \A q \in Path : disk[q] # Gone => disk'[q] # Gone \/ (IsPrefix(p, q) /\ disk'[p] = Gone)
  BY <1>2, <1>3
<1> QED BY <1>4, <1>5, <1>6, OthersNotice

(* A rename may take what a scan showed from under the document that will be *)
(* opened with it: then its new place is not claimed.                        *)
LEMMA OthersRenameApart ==
    ASSUME PathsInv, races = {}, NEW p \in Path, NEW to \in Path, OthersRename(p, to)
    PROVE  StaysApart /\ NewsInv'
<1> DEFINE held == Renamed(disk, p, to)
<1>1. /\ OthersDo(held, Halves(p, to)) /\ Calm(p) /\ Fits(p, to) /\ Takes(p, to)
      /\ disk[to] = Gone /\ Free(to)
  BY DEF OthersRename, Admits
<1>2. /\ \A i \in DOMAIN calls : calls[i].kind \in {"load", "refresh"}
      /\ docs' = docs /\ calls' = calls /\ events' = events /\ pending' = pending
      /\ disk' = held /\ notices' = notices \o Halves(p, to)
  <2> HIDE DEF held
  <2> QED BY <1>1, OthersMeetNoHandler
<1>3. ~Told(p) /\ ~Told(to) /\ ~Meets(p, to) /\ ~Claimed(to) /\ Calm(to) /\ HasParent(disk, to)
  BY <1>1 DEF Free, Calm, Fits, Takes, Admits
<1>4. /\ IsSeq(notices')
      /\ \A n \in DOMAIN notices' : notices'[n].path \in Path /\ notices'[n].mate \in Path \cup {None}
      /\ \A n \in DOMAIN notices : n \in DOMAIN notices' /\ notices'[n] = notices[n]
      /\ \E n \in DOMAIN notices' : notices'[n].path = p
  BY <1>2, HalvesOfRename DEF PathsInv
<1>5. NewsInv'
  BY <1>2, <1>4 DEF PathsInv, NewsInv
<1>6. WaysInv' /\ \A x, y \in Path : Way(x, y)' => Way(x, y) \/ Same(x, y, p, to)
  <2>1. \A i \in DOMAIN calls : calls[i].kind # "remap"
    BY <1>2
  <2>2. \A m \in DOMAIN calls' : calls'[m].kind = "remap" => calls'[m].path = p /\ calls'[m].to = to
    BY <1>2
  <2> QED BY <1>1, <1>2, <1>3, <2>1, <2>2, RenameApart
<1>7. \A q \in Path : ~IsPrefix(to, q) => disk'[q] = IF IsPrefix(p, q) THEN Gone ELSE disk[q]
  BY <1>2, <1>3, RenamedTree DEF PathsInv
<1>8. PathsApart(docs)' /\ OneHandler(calls)'
  BY <1>2 DEF PathsInv, HandlersInv, OneHandler
<1>9. ASSUME NEW n \in DOMAIN calls, NEW c, c = calls[n], c.kind = "refresh", c.then.do = "open"
      PROVE  Handler(calls[n])'
  <2> DEFINE f == c.then.path
             k == c.ahead
  <2>1. /\ f \in Files /\ k \in 0 .. Len(events)
        /\ disk[f] # Gone \/ GoneTold(f, k)
        /\ \A x, y \in Path : Way(x, y) =>
             \/ Off(f, x, y)
             \/ /\ Later(x, y, k)
                /\ \/ IsPrefix(x, f) /\ ~Claimed(y)
                   \/ IsPrefix(y, f) /\ ~Claimed(x)
    <3>1. Handler(calls[n])
      BY DEF PathsInv, HandlersInv
    <3> QED BY <1>9, <3>1 DEF Handler
  <2>2. calls'[n] = c
    BY <1>2, <1>9
  <2> HIDE DEF f, k, held
  <2>3. f \in Path /\ (\A q \in Path : q \in Seq(Name)) /\ \A q \in Path : IsPrefix(f, q) => q = f
    BY <2>1, SessionsAssumption DEF Path
  <2>4. ASSUME GoneTold(f, k)
        PROVE  GoneTold(f, k)' /\ ~IsPrefix(to, f)
    <3>1. PICK q \in Path :
            /\ IsPrefix(q, f) /\ disk[q] = Gone
            /\ \/ \E i \in DOMAIN notices : notices[i].path = q
               \/ pending # None /\ pending.path = q
               \/ \E i \in DOMAIN events : i > k /\ events[i].path = q
      BY <2>4 DEF GoneTold
    <3>2. ~Meets(to, q)
      BY <1>3, <3>1 DEF Told
    <3>3. disk'[q] = Gone
      BY <1>7, <3>1, <3>2 DEF Meets
    <3>4. \/ \E i \in DOMAIN notices' : notices'[i].path = q
          \/ pending' # None /\ pending'.path = q
          \/ \E i \in DOMAIN events' : i > k /\ events'[i].path = q
      BY <1>2, <1>4, <3>1
    <3>5. GoneTold(f, k)'
      BY <3>1, <3>3, <3>4 DEF GoneTold
    <3>6. ~IsPrefix(to, f)
      BY <2>3, <3>1, <3>2, PrefixOrder
    <3> QED BY <3>5, <3>6
  <2>5. ~IsPrefix(to, f)
    <3>1. disk[f] # Gone => ~IsPrefix(to, f)
      BY <1>1, <2>3 DEF PathsInv, IsATree
    <3> QED BY <2>1, <2>4, <3>1
  <2>6. disk'[f] # Gone \/ GoneTold(f, k)'
    <3>1. CASE GoneTold(f, k)
      BY <2>4, <3>1
    <3>2. CASE disk[f] # Gone /\ ~IsPrefix(p, f)
      BY <1>7, <2>3, <2>5, <3>2
    <3>3. CASE IsPrefix(p, f)
      <4>1. disk'[p] = Gone
        BY <1>3, <1>7, <2>3, PrefixOrder DEF Meets
      <4> QED BY <1>4, <3>3, <4>1 DEF GoneTold
    <3> QED BY <2>1, <3>1, <3>2, <3>3
  <2>7. Later(p, to, k)
    <3> SUFFICES ASSUME NEW i \in DOMAIN events, events[i].kind = "rename",
                        Same(events[i].path, events[i].to, p, to)
                 PROVE  FALSE
      BY DEF Later
    <3>1. Meets(p, p) /\ Meets(to, to)
      BY <2>3, PrefixOrder DEF Meets
    <3> QED BY <1>3, <3>1 DEF Told, Same
  <2>8. Off(f, p, to) \/ IsPrefix(p, f)
    BY <2>3, <2>5 DEF Off, Meets
  <2>9. \A x, y \in Path : Way(x, y)' =>
             \/ Off(f, x, y)
             \/ /\ Later(x, y, k)'
                /\ \/ IsPrefix(x, f) /\ ~Claimed(y)'
                   \/ IsPrefix(y, f) /\ ~Claimed(x)'
    <3>1. ASSUME NEW x \in Path, NEW y \in Path PROVE (Later(x, y, k)' <=> Later(x, y, k)) /\ (Claimed(x)' <=> Claimed(x))
      BY <1>2 DEF Later, Claimed
    <3>2. ASSUME NEW x \in Path, NEW y \in Path, Same(x, y, p, to)
          PROVE  \/ Off(f, x, y)
                 \/ /\ Later(x, y, k)
                    /\ \/ IsPrefix(x, f) /\ ~Claimed(y)
                       \/ IsPrefix(y, f) /\ ~Claimed(x)
      <4>1. CASE x = p /\ y = to
        BY <1>3, <2>7, <2>8, <4>1
      <4>2. CASE x = to /\ y = p
        <5>1. Later(x, y, k)
          BY <2>7, <4>2 DEF Later, Same
        <5>2. Off(f, x, y) \/ IsPrefix(y, f)
          BY <2>8, <4>2 DEF Off
        <5> QED BY <1>3, <4>2, <5>1, <5>2
      <4> QED BY <3>2, <4>1, <4>2 DEF Same
    <3> QED BY <1>6, <2>1, <3>1, <3>2
  <2>10. k \in 0 .. Len(events')
    BY <1>2, <2>1
  <2> QED BY <1>9, <2>1, <2>2, <2>6, <2>9, <2>10 DEF Handler, f, k
<1>10. ASSUME NEW n \in DOMAIN calls' PROVE Handler(calls[n])'
  <2>1. CASE calls'[n].kind = "load"
    BY <2>1 DEF Handler
  <2>2. CASE calls'[n].kind = "refresh" /\ calls'[n].then.do # "open"
    BY <2>2 DEF Handler
  <2>3. CASE calls'[n].kind = "refresh" /\ calls'[n].then.do = "open"
    BY <1>2, <1>9, <2>3
  <2> QED BY <1>2, <2>1, <2>2, <2>3
<1> QED BY <1>5, <1>6, <1>8, <1>10 DEF StaysApart, HandlersInv

LEMMA OthersApart ==
    ASSUME TypesInv, PathsInv, races = {}, Others
    PROVE  StaysApart /\ NewsInv'
<1>1. Files \subseteq Path
  BY DEF Path
<1> QED BY <1>1, OthersStampApart, OthersGoneApart, OthersRenameApart DEF Others

-----------------------------------------------------------------------------
(* The invariant *)

LEMMA SameNews ==
    ASSUME NewsInv, notices' = notices, pending' = pending, events' = events
    PROVE  NewsInv'
BY DEF NewsInv

(* A notice that is added.                                                   *)
LEMMA MoreNews ==
    ASSUME NewsInv, NEW n, n.path \in Path, n.mate \in Path \cup {None},
           notices' = Append(notices, n), pending' = pending, events' = events
    PROVE  NewsInv'
<1>1. /\ IsSeq(notices') /\ DOMAIN notices' = 1 .. Len(notices) + 1
      /\ Len(notices) \in Nat /\ DOMAIN notices = 1 .. Len(notices)
      /\ \A i \in DOMAIN notices : notices'[i] = notices[i]
      /\ notices'[Len(notices) + 1] = n
  BY AppendedSeq, ElementsOfSeq DEF NewsInv
<1>2. \A i \in DOMAIN notices' : i \in DOMAIN notices \/ i = Len(notices) + 1
  BY <1>1
<1>3. \A i \in DOMAIN notices' : notices'[i].path \in Path /\ notices'[i].mate \in Path \cup {None}
  BY <1>1, <1>2 DEF NewsInv
<1> QED BY <1>1, <1>3 DEF NewsInv

LEMMA NewsOfGoes ==
    ASSUME NewsInv, NEW then, NEW q, Goes(then, q), events' = events, pending' = pending
    PROVE  NewsInv'
<1>1. \/ notices' = notices
      \/ \E p \in Names(then.path) :
           notices' = Append(notices, [kind |-> "create", path |-> p, mate |-> None])
  BY DEF Goes
<1>2. ASSUME NEW p \in Names(then.path),
             notices' = Append(notices, [kind |-> "create", path |-> p, mate |-> None])
      PROVE  NewsInv'
  <2>1. p \in Path
    BY DEF Names, Path
  <2> QED BY <1>2, <2>1, MoreNews
<1> QED BY <1>1, <1>2, SameNews

LEMMA NewsOfPerson ==
    ASSUME NewsInv, Person
    PROVE  NewsInv'
<1>1. events' = events /\ pending' = pending
  BY DEF Person, OpenEntry, OpenLink, CreateDocument, Rename, Move, Relocates, Trash, Save,
     CloseSaving, Close, Reload, RefreshWorkspace, Edit, PersonLeaves, watcher, sent
<1>2. notices' = notices => NewsInv'
  BY <1>1, SameNews
<1>3. ASSUME NEW then, Transition(then) PROVE NewsInv'
  BY <1>1, <1>2, <1>3, NewsOfGoes DEF Transition, SaveThen
<1>4. ASSUME NEW p \in Files, OpenEntry(p) \/ OpenLink(p) PROVE NewsInv'
  BY <1>3, <1>4 DEF OpenEntry, OpenLink
<1>5. ASSUME NEW p, CreateDocument(p) PROVE NewsInv'
  BY <1>3, <1>5 DEF CreateDocument
<1>6. ASSUME NEW p \in Path, NEW to \in Path, Rename(p, to) \/ Move(p, to) PROVE NewsInv'
  <2>1. notices' = notices \o Halves(p, to)
    BY <1>6 DEF Rename, Move, Relocates
  <2> QED BY <1>1, <2>1, HalvesOfRename DEF NewsInv
<1>7. ASSUME NEW p \in Path, Trash(p) PROVE NewsInv'
  BY <1>1, <1>7, MoreNews DEF Trash
<1>8. CASE Save \/ CloseSaving \/ Close \/ Reload \/ RefreshWorkspace \/ Edit
  BY <1>2, <1>8 DEF Save, CloseSaving, Close, Reload, RefreshWorkspace, Edit, SaveThen, sent
<1> QED BY <1>4, <1>5, <1>6, <1>7, <1>8 DEF Person

LEMMA NewsOfReplies ==
    ASSUME NewsInv, Replies
    PROVE  NewsInv'
<1>1. events' = events /\ pending' = pending
  BY DEF Replies, Loaded, InspectionFindsAChange, Writes, Written, Saved, GoesOn, LinkRead, Created,
     Reloaded, Remapped, Trashed, Refreshed, ReplyLeaves, sent, watcher
<1>2. notices' = notices => NewsInv'
  BY <1>1, SameNews
<1>3. CASE Writes
  <2> DEFINE p == Head(calls).doc.path
  <2>1. \/ notices' = notices
        \/ /\ At(p) \notin {Gone, Folder}
           /\ notices' = Append(notices, [kind |-> "half", path |-> p, mate |-> None])
    BY <1>3 DEF Writes
  <2>2. At(p) # Gone => p \in Path
    BY DEF At
  <2> HIDE DEF p
  <2> QED BY <1>1, <1>2, <2>1, <2>2, MoreNews
<1>4. CASE GoesOn
  BY <1>1, <1>4, NewsOfGoes DEF GoesOn
<1>5. CASE ~Writes /\ ~GoesOn
  BY <1>2, <1>5 DEF Replies, Loaded, InspectionFindsAChange, Written, Saved, LinkRead, Created,
     Reloaded, Remapped, Trashed, Refreshed
<1> QED BY <1>3, <1>4, <1>5

LEMMA InitPaths == Init => PathsInv
<1> SUFFICES ASSUME Init PROVE PathsInv
  OBVIOUS
<1>1. /\ disk = FirstDisk /\ docs = <<>> /\ calls = <<>> /\ notices = <<>> /\ events = <<>>
      /\ pending = None
  BY DEF Init
<1>2. IsSeq(<<>>) /\ DOMAIN <<>> = {}
  BY ShortSeqs
<1>3. IsATree
  BY <1>1, SessionsAssumption DEF IsATree
<1>4. NewsInv
  BY <1>1, <1>2 DEF NewsInv
<1>5. PathsApart(docs)
  BY <1>1, <1>2 DEF PathsApart
<1>6. WaysInv
  <2>1. \A x, y \in Path : ~Way(x, y)
    BY <1>1, <1>2 DEF Way, HalfOf, Waits
  <2> QED BY <2>1 DEF WaysInv
<1>7. HandlersInv
  BY <1>1, <1>2 DEF HandlersInv, OneHandler
<1> QED BY <1>3, <1>4, <1>5, <1>6, <1>7 DEF PathsInv

LEMMA PathsStep ==
    ASSUME SessionsInv, TypesInv, PathsHold, [Next]_vars
    PROVE  PathsHold'
<1>1. CASE UNCHANGED vars
  <2>1. PathsInv => PathsInv'
    <3>1. /\ disk' = disk /\ docs' = docs /\ calls' = calls /\ notices' = notices
          /\ events' = events /\ pending' = pending
      BY <1>1 DEF vars, screen, watcher, sent
    <3>2. ASSUME NEW x \in Path, NEW y \in Path PROVE Way(x, y)' <=> Way(x, y)
      BY <3>1 DEF Way, HalfOf, Waits
    <3>3. ASSUME PathsInv PROVE PathsInv'
      <4>1. SamePlaces(docs') /\ OneHandler(calls)' /\ From(calls', calls)
        BY <3>1, <3>3 DEF SamePlaces, From, PathsInv, HandlersInv, OneHandler
      <4>2. StaysApart
        BY <3>1, <3>3, <4>1, WaitingStep
      <4>3. IsATree' /\ NewsInv'
        BY <3>1, <3>3, SameNews DEF PathsInv, IsATree
      <4> QED BY <4>2, <4>3 DEF StaysApart, PathsInv
    <3> QED BY <3>3
  <2> QED BY <1>1, <2>1 DEF PathsHold, vars, sent
<1>2. CASE Next
  <2>1. races' = races
    BY <1>2 DEF Next, Person, OpenEntry, OpenLink, CreateDocument, Rename, Move, Relocates, Trash, Save,
       CloseSaving, Close, Reload, RefreshWorkspace, Edit, PersonLeaves,
       Replies, Loaded, InspectionFindsAChange, Writes, Written, Saved, GoesOn, LinkRead, Created,
       Reloaded, Remapped, Trashed, Refreshed, ReplyLeaves,
       Watcher, NoticeSuppressed, NoticeOfChange, HalfGone, Paired, PairedTooLate, HalfAlone,
       HalfTimesOut, WriteForgotten, HalfThere, WatcherLeaves, Deliver,
       Others, OthersWrite, OthersCreate, OthersRemove, OthersRename, OthersMoveOut, OthersMoveIn, OthersDo,
       sent
  <2>2. ASSUME races = {} PROVE PathsInv'
    <3>1. PathsInv /\ IsATree /\ NewsInv
      BY <2>2 DEF PathsHold, PathsInv
    <3>2. StaysApart
      BY <1>2, <2>2, <3>1, PersonApart, RepliesApart, WatcherApart, OthersApart DEF Next
    <3>3. NewsInv'
      BY <1>2, <2>2, <3>1, NewsOfPerson, NewsOfReplies, WatcherApart, OthersApart DEF Next
    <3>4. IsATree'
      <4>1. CASE Watcher
        <5>1. disk' = disk
          BY <4>1 DEF Watcher, NoticeSuppressed, NoticeOfChange, HalfGone, Paired, PairedTooLate,
             HalfAlone, HalfTimesOut, WriteForgotten, HalfThere, WatcherLeaves, Deliver, sent
        <5> QED BY <3>1, <5>1 DEF IsATree
      <4> QED BY <1>2, <2>2, <3>1, <4>1, TreeOfPerson, TreeOfReplies, TreeOfOthers DEF Next
    <3> QED BY <3>2, <3>3, <3>4 DEF StaysApart, PathsInv
  <2> QED BY <2>1, <2>2 DEF PathsHold
<1> QED BY <1>1, <1>2

(* Every rename that is on its way finds no session at one of its two ends,  *)
(* and no handler will open one there, unless something races it.            *)
THEOREM PathsStayApart == Spec => []PathsHold
<1>1. Init => PathsHold
  BY InitPaths DEF PathsHold
<1>2. SessionsInv /\ TypesInv /\ PathsHold /\ [Next]_vars => PathsHold'
  BY PathsStep
<1>3. SessionsInv /\ TypesInv /\ [Next]_vars => TypesInv'
  BY TypesStep
<1> QED BY <1>1, <1>2, <1>3, InitTypes, SessionsHold, PTL DEF Spec

(* No two sessions have the same path, at any time, unless something races.  *)
THEOREM OneSessionIsKept == Spec => []OneSessionPerPath
<1>1. SessionsInv /\ PathsHold => OneSessionPerPath
  BY DEF SessionsInv, AreApart, PathsHold, PathsInv, PathsApart, OneSessionPerPath
<1> QED BY <1>1, SessionsHold, PathsStayApart, PTL

-----------------------------------------------------------------------------
(* The tree and the disk *)

(***************************************************************************)
(* What shows the workspace as it was, the tree or a scan that waits or    *)
(* the entry of an event, is right or will be: where it is wrong, there is *)
(* still something to be told of the path, or of a folder it is in, that   *)
(* the watcher will not take for the app's own doing.  That a file was     *)
(* written says nothing new: the notice may be lost.                       *)
(***************************************************************************)
Tells(e, p) == IsPrefix(e.path, p) \/ (e.kind = "rename" /\ IsPrefix(e.to, p))
Noticed(p) ==
    \E i \in DOMAIN notices :
        /\ IsPrefix(notices[i].path, p) /\ notices[i].kind # "modify"
        /\ ~Suppresses(notices[i].path)
Coming(p, k) ==
    \/ pending # None /\ IsPrefix(pending.path, p)
    \/ Noticed(p)
    \/ \E i \in DOMAIN events : i > k /\ Tells(events[i], p)

(* A notice or the half that waits is about p itself.                        *)
Named(p) ==
    \/ pending # None /\ pending.path = p
    \/ \E i \in DOMAIN notices : notices[i].path = p

(* What shows p as held does, before the events after the first k.           *)
ShownRight(held, p) == Kind(held, p) = Kind(disk, p)
WillShow(held, p, k) == ShownRight(held, p) \/ Coming(p, k)

(* What the tree shows was left there for what was not saved.                *)
Left(p) == p \in retained /\ disk[p] = Gone

(* What an event makes of what it tells.                                     *)
Place(e) == IF e.kind = "rename" THEN e.to ELSE e.path
Made(e) == [p \in Path |-> IF e.entry # None /\ p \in DOMAIN e.entry THEN e.entry[p] ELSE Gone]

FoldersHold == \A p \in Path : disk[p] # Gone => (disk[p] = Folder <=> p \in Folders)
ToldGone ==
    /\ pending # None => disk[pending.path] = Gone
    /\ \A i \in DOMAIN notices : notices[i].kind = "remove" => disk[notices[i].path] = Gone
IsTold(e) ==
    /\ e.kind = "rename" => e.entry # None /\ ~IsPrefix(e.path, e.to)
    /\ e.kind = "remove" => e.entry = None
    /\ e.entry # None => DOMAIN e.entry = Under(Place(e)) /\ e.entry[Place(e)] # Gone

ViewsInv ==
    /\ \A p \in Path : WillShow(tree, p, 0) \/ Left(p)
    /\ \A i \in DOMAIN events : \A p \in Path :
         Tells(events[i], p) => WillShow(Made(events[i]), p, i)
    /\ \A n \in DOMAIN calls : calls[n].kind = "refresh" =>
         /\ calls[n].ahead \in 0 .. Len(events)
         /\ \A p \in Path : WillShow(calls[n].reply, p, calls[n].ahead)

ShowInv ==
    /\ IsATree /\ FoldersHold /\ NewsInv /\ ToldGone
    /\ \A i \in DOMAIN events : IsTold(events[i])
    /\ ViewsInv
ShowHolds == races \cap {"meet", "overtake", "repeat"} = {} => ShowInv

(* What a step may do to what is shown and to come, after the first k events. *)
KeepsShowingTo(top) ==
    /\ Len(events) \in Nat /\ Len(events') \in Nat /\ Len(events) <= Len(events')
    /\ top \in Nat /\ top <= Len(events)
    /\ \A held : \A p \in Path, k \in 0 .. top :
         WillShow(held, p, k) => WillShow(held, p, k)'
KeepsShowing == KeepsShowingTo(Len(events))
KeepsTheTree ==
    \/ tree' = tree /\ retained' = retained
    \/ \E n \in DOMAIN calls : calls[n].kind = "refresh" /\ tree' = calls[n].reply
ScansKept(top) == top = Len(events) \/ (calls' = calls /\ NoScanAfter(top))
TellsAlso(N) ==
    /\ IsSeq(notices')
    /\ \A i \in DOMAIN notices : i \in DOMAIN notices' /\ notices'[i] = notices[i]
    /\ \A i \in DOMAIN notices' : (i \in DOMAIN notices /\ notices'[i] = notices[i]) \/ notices'[i] \in N
    /\ \A n \in N : \E i \in DOMAIN notices' : notices'[i] = n
    /\ events' = events /\ pending' = pending
DiskTold == IsATree' /\ FoldersHold' /\ NewsInv' /\ ToldGone' /\ KeepsShowing

-----------------------------------------------------------------------------
LEMMA PathsAreNames == \A p \in Path : p \in Seq(Name) /\ p # <<>> /\ IsPrefix(p, p)
BY SessionsAssumption, PrefixOrder

LEMMA PathsAbove ==
    ASSUME NEW r \in Path, NEW s \in Path, NEW t \in Path, IsPrefix(r, s), IsPrefix(s, t)
    PROVE  IsPrefix(r, t)
BY PathsAreNames, PrefixOrder

(* The parent of what is there is a folder.                                  *)
LEMMA ParentsAreFolders ==
    ASSUME IsATree, FoldersHold, NEW p \in Path, disk[p] # Gone
    PROVE  /\ HasParent(disk, p)
           /\ Len(p) > 1 => Parent(p) \in Path /\ IsPrefix(Parent(p), p) /\ Parent(p) # p
<1> SUFFICES ASSUME Len(p) > 1
             PROVE  /\ Parent(p) \in Path /\ IsPrefix(Parent(p), p) /\ Parent(p) # p
                    /\ disk[Parent(p)] = Folder
  BY DEF HasParent
<1> DEFINE r == Parent(p)
<1>1. p \in Seq(Name) /\ Len(p) \in Nat /\ Len(p) - 1 \in 1 .. Len(p)
  BY PathsAreNames
<1>2. r = SubSeq(p, 1, Len(p) - 1)
  BY DEF Parent, Front
<1>3. r \in Path
  BY <1>1, <1>2, SessionsAssumption
<1>4. r \in Seq(Name) /\ Len(r) = Len(p) - 1 /\ \A n \in 1 .. Len(r) : r[n] = p[n]
  BY <1>1, <1>2
<1>5. IsPrefix(r, p) /\ r # p
  BY <1>1, <1>4, PrefixOfNames
<1>6. r \in Folders
  BY <1>3, <1>5, SessionsAssumption DEF Path
<1> QED BY <1>3, <1>5, <1>6 DEF IsATree, FoldersHold

LEMMA NothingBelowFiles ==
    ASSUME FoldersHold, NEW p \in Path, disk[p] \notin {Gone, Folder}
    PROVE  p \in Files /\ \A q \in Path : IsPrefix(p, q) => q = p
BY SessionsAssumption DEF FoldersHold, Path

(* Later on there is less to come.                                           *)
LEMMA ComesLater ==
    ASSUME NEW p, NEW j, NEW k, j <= k, IsSeq(events), j \in Nat, k \in Nat, Coming(p, k)
    PROVE  Coming(p, j)
<1>1. \A i \in DOMAIN events : i \in Nat
  BY ElementsOfSeq
<1> QED BY <1>1 DEF Coming

LEMMA NoticedBelow ==
    ASSUME NewsInv, NEW p \in Path, NEW q \in Path, IsPrefix(p, q), Noticed(p)
    PROVE  Noticed(q)
BY PathsAbove DEF Noticed, NewsInv

LEMMA ComesBelow ==
    ASSUME NewsInv, NEW p \in Path, NEW q \in Path, IsPrefix(p, q), NEW k, Coming(p, k)
    PROVE  Coming(q, k)
<1>1. CASE pending # None /\ IsPrefix(pending.path, p)
  BY <1>1, PathsAbove DEF Coming, NewsInv
<1>2. CASE Noticed(p)
  BY <1>2, NoticedBelow DEF Coming
<1>3. ASSUME NEW i \in DOMAIN events, i > k, Tells(events[i], p)
      PROVE  Coming(q, k)
  <2>1. Tells(events[i], q)
    BY <1>3, PathsAbove DEF Tells, NewsInv
  <2> QED BY <1>3, <2>1 DEF Coming
<1> QED BY <1>1, <1>2, <1>3 DEF Coming

(* What a step leaves of the views, when it tells what it changes.           *)
LEMMA ViewsKept ==
    ASSUME ViewsInv, NEW top \in Nat, KeepsShowingTo(top), IsSeq(events), IsSeq(events'),
           KeepsTheTree, AreScans(calls'),
           ScansKept(top),
           \A i \in DOMAIN events : events'[i] = events[i],
           \A i \in DOMAIN events' : i > top =>
              \A p \in Path : (Tells(events[i], p) => WillShow(Made(events[i]), p, i))'
    PROVE  ViewsInv'
<1>0. /\ DOMAIN events = 1 .. Len(events) /\ Len(events) \in Nat
      /\ DOMAIN events' = 1 .. Len(events') /\ Len(events') \in Nat
      /\ Len(events) <= Len(events') /\ top \in Nat /\ top <= Len(events)
  BY ElementsOfSeq DEF KeepsShowingTo
<1>1. ASSUME NEW held, NEW p \in Path, NEW k \in 0 .. top, WillShow(held, p, k)
      PROVE  WillShow(held, p, k)'
  BY <1>1 DEF KeepsShowingTo
<1>1a. ASSUME NEW n \in DOMAIN calls, calls[n].kind = "refresh"
       PROVE  /\ calls[n].ahead \in 0 .. Len(events)
              /\ calls[n].ahead \in 0 .. top
  <2>1. calls[n].ahead \in 0 .. Len(events)
    BY <1>1a DEF ViewsInv
  <2>2. Scanned(calls[n].ahead)
    BY <1>1a DEF Scanned
  <2>3. top = Len(events) \/ NoScanAfter(top)
    BY DEF ScansKept
  <2>4. PICK k : k = calls[n].ahead
    OBVIOUS
  <2>5. k \in Nat /\ k <= Len(events) /\ Scanned(k)
    BY <1>0, <2>1, <2>2, <2>4
  <2>6. k <= top
    BY <2>3, <2>5 DEF NoScanAfter
  <2>7. k \in 0 .. Len(events) /\ k \in 0 .. top
    BY <1>0, <2>5, <2>6
  <2> QED BY <2>4, <2>7
<1>2. ASSUME NEW p \in Path PROVE WillShow(tree, p, 0)' \/ Left(p)'
  <2>1. ASSUME NEW held, held[p] = tree'[p], NEW k \in 0 .. top, WillShow(held, p, k)
        PROVE  WillShow(tree, p, 0)'
    <3>1. ShownRight(held, p)' \/ Coming(p, k)'
      BY <1>1, <2>1 DEF WillShow
    <3>2. ASSUME Coming(p, k)' PROVE Coming(p, 0)'
      <4>1. \A i \in DOMAIN events' : i \in Nat /\ (i > k => i > 0)
        BY <1>0
      <4> QED BY <3>2, <4>1 DEF Coming
    <3>3. ShownRight(held, p)' => ShownRight(tree, p)'
      BY <2>1 DEF ShownRight, Kind
    <3> QED BY <3>1, <3>2, <3>3 DEF WillShow
  <2>2. CASE tree' = tree /\ retained' = retained
    <3>1. CASE WillShow(tree, p, 0)
      <4>1. PICK held : held = tree
        OBVIOUS
      <4>2. WillShow(held, p, 0) /\ held[p] = tree'[p] /\ 0 \in 0 .. top
        BY <1>0, <2>2, <3>1, <4>1
      <4> QED BY <2>1, <4>2
    <3>2. CASE Left(p)
      <4>1. PICK held : held = [q \in Path |-> Gone]
        OBVIOUS
      <4>2. WillShow(held, p, 0) /\ 0 \in 0 .. top /\ held[p] = Gone
        BY <1>0, <3>2, <4>1 DEF Left, WillShow, ShownRight, Kind
      <4>3. ShownRight(held, p)' \/ Coming(p, 0)'
        BY <1>1, <4>2 DEF WillShow
      <4>4. ShownRight(held, p)' => disk'[p] = Gone
        BY <4>2, SessionsAssumption DEF ShownRight, Kind
      <4> QED BY <2>2, <3>2, <4>3, <4>4 DEF Left, WillShow
    <3> QED BY <3>1, <3>2 DEF ViewsInv
  <2>3. ASSUME NEW n \in DOMAIN calls, calls[n].kind = "refresh", tree' = calls[n].reply
        PROVE  WillShow(tree, p, 0)'
    <3>1. PICK held, m : held = calls[n].reply /\ m = calls[n].ahead
      OBVIOUS
    <3>2. WillShow(held, p, m) /\ m \in 0 .. top
      BY <1>1a, <2>3, <3>1 DEF ViewsInv
    <3> QED BY <2>1, <2>3, <3>1, <3>2
  <2> QED BY <2>2, <2>3 DEF KeepsTheTree
<1>3. ASSUME NEW i \in DOMAIN events', NEW p \in Path, Tells(events[i], p)'
      PROVE  WillShow(Made(events[i]), p, i)'
  <2>1. CASE i \in DOMAIN events /\ i <= top
    <3>1. i \in 0 .. top /\ events'[i] = events[i]
      BY <1>0, <2>1
    <3>2. PICK held : held = Made(events[i])
      OBVIOUS
    <3>3. Tells(events[i], p)
      BY <1>3, <3>1 DEF Tells
    <3>4. WillShow(held, p, i)
      BY <2>1, <3>2, <3>3 DEF ViewsInv
    <3>5. WillShow(held, p, i)'
      BY <1>1, <3>1, <3>4
    <3>6. Made(events[i])' = held
      BY <3>1, <3>2 DEF Made
    <3>7. ShownRight(held, p)' => ShownRight(Made(events[i]), p)'
      BY <3>6 DEF ShownRight, Kind
    <3> QED BY <3>5, <3>7 DEF WillShow
  <2>2. CASE i > top
    BY <1>3, <2>2
  <2> QED BY <1>0, <2>1, <2>2
<1>4. ASSUME NEW n \in DOMAIN calls', calls'[n].kind = "refresh"
      PROVE  (/\ calls[n].ahead \in 0 .. Len(events)
              /\ \A p \in Path : WillShow(calls[n].reply, p, calls[n].ahead))'
  <2>1. PICK held, k : held = calls'[n].reply /\ k = calls'[n].ahead
    OBVIOUS
  <2>2. IsScan(held, k)
    BY <1>4, <2>1 DEF AreScans
  <2>3. k \in 0 .. top /\ \A p \in Path : WillShow(held, p, k)
    <3>1. CASE top = Len(events) /\ held = disk /\ k = Len(events)
      BY <1>0, <3>1 DEF WillShow, ShownRight
    <3>2. CASE \E i \in DOMAIN calls : calls[i].kind = "refresh" /\ calls[i].reply = held
                                       /\ calls[i].ahead = k
      BY <1>1a, <3>2 DEF ViewsInv
    <3>3. calls' = calls => \E i \in DOMAIN calls : calls[i].kind = "refresh" /\ calls[i].reply = held
                                       /\ calls[i].ahead = k
      BY <1>4, <2>1
    <3>4. calls' = calls \/ top = Len(events)
      BY DEF ScansKept
    <3> QED BY <2>2, <3>1, <3>2, <3>3, <3>4 DEF IsScan
  <2>4. k \in 0 .. Len(events')
    BY <1>0, <2>3
  <2>5. ASSUME NEW p \in Path PROVE WillShow(calls[n].reply, p, calls[n].ahead)'
    <3>1. ShownRight(held, p)' \/ Coming(p, k)'
      BY <1>1, <2>3 DEF WillShow
    <3>2. ShownRight(held, p)' => ShownRight(calls[n].reply, p)'
      BY <2>1 DEF ShownRight, Kind
    <3>3. Coming(p, k)' => Coming(p, calls[n].ahead)'
      BY <2>1 DEF Coming
    <3> QED BY <3>1, <3>2, <3>3 DEF WillShow
  <2> QED BY <2>1, <2>4, <2>5
<1> QED BY <1>2, <1>3, <1>4 DEF ViewsInv

(* Steps that touch nothing of this.                                         *)
LEMMA SilentStep ==
    ASSUME IsATree, FoldersHold, NewsInv, ToldGone,
           disk' = disk, expected' = expected, notices' = notices, pending' = pending,
           events' = events
    PROVE  DiskTold
<1>1. IsATree' /\ FoldersHold' /\ NewsInv' /\ ToldGone'
  BY DEF IsATree, FoldersHold, NewsInv, ToldGone
<1>2. Len(events) \in Nat
  BY ElementsOfSeq DEF NewsInv
<1>3. ASSUME NEW held, NEW p \in Path, NEW k \in 0 .. Len(events), WillShow(held, p, k)
      PROVE  WillShow(held, p, k)'
  <2>1. ShownRight(held, p) => ShownRight(held, p)'
    BY DEF ShownRight, Kind
  <2>2. Coming(p, k) => Coming(p, k)'
    BY DEF Coming, Noticed, Suppresses
  <2> QED BY <1>3, <2>1, <2>2 DEF WillShow
<1>4. KeepsShowing
  BY <1>2, <1>3 DEF KeepsShowing, KeepsShowingTo
<1> QED BY <1>1, <1>4 DEF DiskTold

(* What changes the disk, and tells it.                                      *)
LEMMA TellingDisk ==
    ASSUME NewsInv, ToldGone, NEW N, TellsAlso(N),
           \A n \in N : n.path \in Path /\ n.mate \in Path \cup {None},
           \A n \in N : n.kind = "remove" => disk'[n.path] = Gone,
           \A x \in Path : disk[x] = Gone /\ disk'[x] # Gone => ~Named(x),
           \A x \in Path : Suppresses(x)' => Suppresses(x) \/ ~Came(x) \/ Noticed(x)',
           \A p \in Path : \/ Kind(disk', p) = Kind(disk, p) /\ (disk[p] = Gone => disk'[p] = Gone)
                           \/ Noticed(p)'
    PROVE  NewsInv' /\ ToldGone' /\ KeepsShowing
<1>0. Len(events) \in Nat
  BY ElementsOfSeq DEF NewsInv
<1>1. NewsInv'
  BY DEF NewsInv, TellsAlso
<1>2. ToldGone'
  <2>1. pending' # None => disk'[pending'.path] = Gone
    <3>1. pending # None => pending.path \in Path /\ disk[pending.path] = Gone
      BY DEF NewsInv, ToldGone
    <3>2. pending # None => Named(pending.path)
      BY DEF Named
    <3> QED BY <3>1, <3>2 DEF TellsAlso
  <2>2. ASSUME NEW i \in DOMAIN notices, notices[i].kind = "remove"
        PROVE  disk'[notices[i].path] = Gone
    <3>1. notices[i].path \in Path /\ disk[notices[i].path] = Gone
      BY <2>2 DEF NewsInv, ToldGone
    <3>2. Named(notices[i].path)
      BY DEF Named
    <3> QED BY <3>1, <3>2
  <2>3. \A i \in DOMAIN notices' : notices'[i].kind = "remove" => disk'[notices'[i].path] = Gone
    BY <2>2 DEF TellsAlso
  <2> QED BY <2>1, <2>3 DEF ToldGone
<1>3. ASSUME NEW p \in Path, Noticed(p) PROVE Noticed(p)'
  <2>1. PICK i \in DOMAIN notices :
          /\ IsPrefix(notices[i].path, p) /\ notices[i].kind # "modify"
          /\ ~Suppresses(notices[i].path)
    BY <1>3 DEF Noticed
  <2>2. PICK x \in Path : x = notices[i].path
    BY DEF NewsInv
  <2>3. Came(x) /\ ~Suppresses(x) /\ IsPrefix(x, p)
    BY <2>1, <2>2 DEF Came
  <2>4. CASE ~Suppresses(x)'
    <3>1. i \in DOMAIN notices' /\ notices'[i] = notices[i]
      BY DEF TellsAlso
    <3>2. ~Suppresses(notices[i].path)'
      BY <2>2, <2>4, <3>1 DEF Suppresses
    <3> QED BY <2>1, <3>1, <3>2 DEF Noticed
  <2>5. CASE Noticed(x)'
    <3>1. PICK j \in DOMAIN notices' :
            /\ IsPrefix(notices'[j].path, x) /\ notices'[j].kind # "modify"
            /\ ~Suppresses(notices[j].path)'
      BY <2>5 DEF Noticed
    <3>2. notices'[j].path \in Path
      BY <1>1 DEF NewsInv
    <3>3. IsPrefix(notices'[j].path, p)
      BY <2>3, <3>1, <3>2, PathsAbove
    <3> QED BY <3>1, <3>3 DEF Noticed
  <2> QED BY <2>3, <2>4, <2>5
<1>4. ASSUME NEW held, NEW p \in Path, NEW k \in 0 .. Len(events), WillShow(held, p, k)
      PROVE  WillShow(held, p, k)'
  <2>1. ShownRight(held, p) => ShownRight(held, p)' \/ Noticed(p)'
    BY DEF ShownRight, Kind, TellsAlso
  <2>2. Coming(p, k) => Coming(p, k)'
    BY <1>3 DEF Coming, TellsAlso
  <2>3. Noticed(p)' => Coming(p, k)'
    BY DEF Coming
  <2> QED BY <1>4, <2>1, <2>2, <2>3 DEF WillShow
<1>5. KeepsShowing
  BY <1>0, <1>4 DEF KeepsShowing, KeepsShowingTo, TellsAlso
<1> QED BY <1>1, <1>2, <1>5

LEMMA AppendTells ==
    ASSUME NewsInv, NEW n, notices' = Append(notices, n) \/ notices' = notices \o <<n>>,
           events' = events, pending' = pending
    PROVE  TellsAlso({n})
<1>1. IsSeq(notices) /\ DOMAIN notices = 1 .. Len(notices) /\ Len(notices) \in Nat
  BY ElementsOfSeq DEF NewsInv
<1>2. CASE notices' = Append(notices, n)
  <2>1. /\ IsSeq(notices') /\ DOMAIN notices' = 1 .. Len(notices) + 1
        /\ \A i \in DOMAIN notices : notices'[i] = notices[i]
        /\ notices'[Len(notices) + 1] = n
    BY <1>1, <1>2, AppendedSeq
  <2>2. \A i \in DOMAIN notices' : (i \in DOMAIN notices /\ notices'[i] = notices[i]) \/ notices'[i] = n
    BY <1>1, <2>1
  <2> QED BY <1>1, <2>1, <2>2 DEF TellsAlso
<1>3. CASE notices' = notices \o <<n>>
  <2>1. IsSeq(<<n>>) /\ DOMAIN <<n>> = {1} /\ <<n>>[1] = n
    BY ShortSeqs
  <2>2. /\ IsSeq(notices')
        /\ \A i \in DOMAIN notices : i \in DOMAIN notices' /\ notices'[i] = notices[i]
        /\ \A i \in DOMAIN <<n>> : Len(notices) + i \in DOMAIN notices'
                                   /\ notices'[Len(notices) + i] = <<n>>[i]
        /\ \A i \in DOMAIN notices' :
             \/ i \in DOMAIN notices
             \/ i - Len(notices) \in DOMAIN <<n>> /\ notices'[i] = <<n>>[i - Len(notices)]
    BY <1>1, <1>3, <2>1, JoinedSeq
  <2>3. \E i \in DOMAIN notices' : notices'[i] = n
    BY <2>1, <2>2
  <2>4. \A i \in DOMAIN notices' : (i \in DOMAIN notices /\ notices'[i] = notices[i]) \/ notices'[i] = n
    BY <2>1, <2>2
  <2> QED BY <2>2, <2>3, <2>4 DEF TellsAlso
<1> QED BY <1>2, <1>3

LEMMA NoMarkIsAStamp == \A k \in Nat : k + 1 \notin {Gone, Folder, None} /\ k \notin {Gone, Folder, None}
<1>1. {Gone, Folder, None} \cap Nat = {}
  BY SessionsAssumption
<1> QED BY <1>1

LEMMA MarksAreStamps ==
    ASSUME TypesInv
    PROVE  \A q \in Path : expected[q] # None => expected[q] \in Nat /\ expected[q] # Gone
<1>1. stamps \in Nat /\ expected \in [Path -> {None} \cup 1 .. stamps]
  BY DEF TypesInv, FilesTyped, Marks
<1>2. Gone \notin Nat
  BY SessionsAssumption
<1> QED BY <1>1, <1>2

(* A file comes.                                                             *)
LEMMA FileComes ==
    ASSUME TypesInv, IsATree, FoldersHold, NewsInv, ToldGone, "meet" \notin races,
           NEW p \in Files, Free(p), NEW n, n.path = p, n.mate = None, n.kind \in {"create", "half"},
           TellsAlso({n}), stamps' = stamps + 1, disk' = [disk EXCEPT ![p] = stamps'],
           expected' = expected
    PROVE  DiskTold
<1>0. /\ p \in Path /\ disk[p] = Gone /\ HasParent(disk, p) /\ ~Told(p) /\ p \in Seq(Name)
      /\ IsPrefix(p, p)
  BY PathsAreNames DEF Free, Calm, Admits, Path
<1>1. /\ disk'[p] = stamps + 1 /\ stamps \in Nat /\ stamps + 1 \notin {Gone, Folder, None}
      /\ \A q \in Path : q # p => disk'[q] = disk[q]
      /\ expected[p] \in {None} \cup 1 .. stamps
  <2>1. stamps \in Nat /\ disk \in Disks(stamps) /\ expected \in Marks(stamps)
    BY DEF TypesInv, FilesTyped
  <2>2. disk'[p] = stamps + 1 /\ \A q \in Path : q # p => disk'[q] = disk[q]
    BY <1>0, <2>1 DEF Disks
  <2>3. stamps + 1 \notin {Gone, Folder, None}
    BY <2>1, NoMarkIsAStamp
  <2> QED BY <1>0, <2>1, <2>2, <2>3 DEF Marks
<1>2. IsATree'
  BY <1>0, StampedTree
<1>3. FoldersHold'
  <2>1. p \notin Folders
    BY SessionsAssumption
  <2> QED BY <1>1, <2>1 DEF FoldersHold
<1>4. ~Suppresses(p)'
  BY <1>1 DEF Suppresses
<1>5. ASSUME NEW q \in Path, IsPrefix(p, q) PROVE Noticed(q)'
  <2>1. PICK i \in DOMAIN notices' : notices'[i] = n
    BY DEF TellsAlso
  <2>2. ~Suppresses(notices[i].path)'
    BY <1>4, <2>1 DEF Suppresses
  <2> QED BY <1>5, <2>1, <2>2 DEF Noticed
<1>6. \A x \in Path : Suppresses(x)' => Suppresses(x)
  BY <1>1, <1>4 DEF Suppresses
<1>7. \A q \in Path : \/ Kind(disk', q) = Kind(disk, q) /\ (disk[q] = Gone => disk'[q] = Gone)
                      \/ Noticed(q)'
  BY <1>0, <1>1, <1>5 DEF Kind
<1>8. NewsInv' /\ ToldGone' /\ KeepsShowing
  <2>1. ~Named(p)
    BY <1>0 DEF Named, Told, Meets
  <2>2. \A x \in Path : disk[x] = Gone /\ disk'[x] # Gone => ~Named(x)
    BY <1>1, <2>1
  <2> QED BY <1>0, <1>6, <1>7, <2>2, TellingDisk
<1> QED BY <1>2, <1>3, <1>8 DEF DiskTold

(* What is at p goes.                                                        *)
LEMMA EntryGoes ==
    ASSUME TypesInv, IsATree, FoldersHold, NewsInv, ToldGone,
           NEW p \in Path, NEW n, n.path = p, n.mate = None, n.kind \in {"remove", "half"},
           TellsAlso({n}), disk' = Prune(disk, p), expected' = expected
    PROVE  DiskTold
<1>1. IsATree' /\ \A q \in Path : disk'[q] = IF IsPrefix(p, q) THEN Gone ELSE disk[q]
  BY PrunedTree
<1>2. FoldersHold'
  BY <1>1 DEF FoldersHold
<1>3. disk'[p] = Gone /\ \A q \in Path : expected[q] # None => expected[q] # Gone
  BY <1>1, PathsAreNames, MarksAreStamps
<1>4. \A x \in Path : Suppresses(x)' => Suppresses(x)
  BY <1>1, <1>3 DEF Suppresses
<1>5. ASSUME NEW q \in Path, IsPrefix(p, q) PROVE Noticed(q)'
  <2>1. PICK i \in DOMAIN notices' : notices'[i] = n
    BY DEF TellsAlso
  <2>2. ~Suppresses(notices[i].path)'
    BY <1>3, <2>1 DEF Suppresses
  <2> QED BY <1>5, <2>1, <2>2 DEF Noticed
<1>6. \A q \in Path : \/ Kind(disk', q) = Kind(disk, q) /\ (disk[q] = Gone => disk'[q] = Gone)
                      \/ Noticed(q)'
  BY <1>1, <1>5 DEF Kind
<1>7. NewsInv' /\ ToldGone' /\ KeepsShowing
  <2>1. \A x \in Path : ~(disk[x] = Gone /\ disk'[x] # Gone)
    BY <1>1
  <2> QED BY <1>3, <1>4, <1>6, <2>1, TellingDisk
<1> QED BY <1>1, <1>2, <1>7 DEF DiskTold

(* What moves to x is x, and what moves back is what moved.                  *)
LEMMA RemapBack ==
    ASSUME NEW x \in Seq(Name), NEW y \in Seq(Name), NEW r \in Seq(Name), IsPrefix(x, r)
    PROVE  /\ Remap(y, x, Remap(x, y, r)) = r
           /\ Remap(x, y, x) = y
<1>1. Len(x) \in Nat /\ Len(y) \in Nat /\ Len(r) \in Nat /\ Len(x) <= Len(r)
      /\ \A n \in 1 .. Len(x) : r[n] = x[n]
  BY PrefixOfNames
<1>2. PICK m : m = Remap(x, y, r)
  OBVIOUS
<1>3. /\ m \in Seq(Name) /\ Len(m) = Len(y) + (Len(r) - Len(x)) /\ IsPrefix(y, m)
      /\ \A n \in 1 .. Len(r) - Len(x) : m[Len(y) + n] = r[Len(x) + n]
  <2>1. LET a == Remap(x, y, r)
        IN  /\ a \in Seq(Name) /\ Len(a) = Len(y) + (Len(r) - Len(x))
            /\ \A n \in 1 .. Len(r) - Len(x) : a[Len(y) + n] = r[Len(x) + n]
    BY Remapped1
  <2>2. IsPrefix(y, Remap(x, y, r))
    BY RemapMoves
  <2> QED BY <1>2, <2>1, <2>2
<1>4. PICK b : b = Remap(y, x, m)
  OBVIOUS
<1>5. /\ b \in Seq(Name) /\ Len(b) = Len(x) + (Len(m) - Len(y))
      /\ \A n \in 1 .. Len(x) : b[n] = x[n]
      /\ \A n \in 1 .. Len(m) - Len(y) : b[Len(x) + n] = m[Len(y) + n]
  <2>1. LET a == Remap(y, x, m)
        IN  /\ a \in Seq(Name) /\ Len(a) = Len(x) + (Len(m) - Len(y))
            /\ \A n \in 1 .. Len(x) : a[n] = x[n]
            /\ \A n \in 1 .. Len(m) - Len(y) : a[Len(x) + n] = m[Len(y) + n]
    BY <1>3, Remapped1
  <2> QED BY <1>4, <2>1
<1>6. Len(b) = Len(r) /\ Len(m) - Len(y) = Len(r) - Len(x)
  BY <1>1, <1>3, <1>5
<1>7. ASSUME NEW n \in 1 .. Len(r) PROVE b[n] = r[n]
  <2>1. CASE n <= Len(x)
    BY <1>1, <1>5, <2>1
  <2>2. CASE n > Len(x)
    <3>1. n - Len(x) \in 1 .. Len(r) - Len(x) /\ Len(x) + (n - Len(x)) = n
      BY <1>1, <2>2
    <3> QED BY <1>3, <1>5, <1>6, <3>1
  <2> QED BY <1>1, <2>1, <2>2
<1>8. b = r
  BY <1>5, <1>6, <1>7
<1>9. Remap(x, y, x) = y
  <2>1. IsPrefix(x, x)
    BY PrefixOrder
  <2>2. PICK z : z = Remap(x, y, x)
    OBVIOUS
  <2>3. z \in Seq(Name) /\ Len(z) = Len(y) + (Len(x) - Len(x)) /\ \A n \in 1 .. Len(y) : z[n] = y[n]
    <3>1. LET a == Remap(x, y, x)
          IN  a \in Seq(Name) /\ Len(a) = Len(y) + (Len(x) - Len(x)) /\ \A n \in 1 .. Len(y) : a[n] = y[n]
      BY <2>1, Remapped1
    <3> QED BY <2>2, <3>1
  <2>4. Len(z) = Len(y)
    BY <1>1, <2>3
  <2> QED BY <2>2, <2>3, <2>4
<1> QED BY <1>2, <1>4, <1>8, <1>9

(* A file or folder moves, with all that is under it.                        *)
LEMMA EntryMoves ==
    ASSUME TypesInv, IsATree, FoldersHold, NewsInv, ToldGone, "meet" \notin races,
           NEW p \in Path, NEW to \in Path, disk[p] # Gone, HasParent(disk, to),
           Fits(p, to), Takes(p, to), disk[to] = Gone => Calm(to), disk[to] # Folder,
           TellsAlso({Halves(p, to)[1], Halves(p, to)[2]}),
           disk' = Renamed(disk, p, to), expected' = expected
    PROVE  DiskTold
<1> DEFINE n == Halves(p, to)[1]
           m == Halves(p, to)[2]
<1>0. /\ n = [kind |-> "half", path |-> p, mate |-> to]
      /\ m = [kind |-> "half", path |-> to, mate |-> p]
  BY DEF Halves
<1>1. p \in Seq(Name) /\ to \in Seq(Name) /\ IsPrefix(p, p) /\ IsPrefix(to, to)
  BY PathsAreNames
<1>2. ~Meets(p, to) /\ ~IsPrefix(to, p)
  BY DEF Fits, Meets
<1>3. /\ IsATree'
      /\ \A q \in Path : ~IsPrefix(to, q) => disk'[q] = IF IsPrefix(p, q) THEN Gone ELSE disk[q]
  BY <1>2, RenamedTree
<1>4. \A q \in Path : IsPrefix(to, q) =>
        disk'[q] = IF Remap(to, p, q) \in Path THEN disk[Remap(to, p, q)] ELSE Gone
  BY DEF Renamed
<1>5. disk'[to] = disk[p] /\ disk'[p] = Gone
  <2>1. Remap(to, p, to) = p
    BY <1>1, RemapBack
  <2> QED BY <1>1, <1>2, <1>3, <1>4, <2>1
<1>6. ASSUME NEW q \in Path, disk'[q] # Gone PROVE disk'[q] = Folder <=> q \in Folders
  <2>1. CASE ~IsPrefix(to, q)
    BY <1>3, <1>6, <2>1 DEF FoldersHold
  <2>2. CASE IsPrefix(to, q)
    <3>1. q \in Seq(Name)
      BY PathsAreNames
    <3>2. PICK r : r = Remap(to, p, q)
      OBVIOUS
    <3>3. r \in Path /\ disk'[q] = disk[r] /\ disk[r] # Gone
      BY <1>4, <1>6, <2>2, <3>2
    <3>4. IsPrefix(p, r) /\ Remap(p, to, r) = q
      BY <1>1, <2>2, <3>1, <3>2, RemapMoves, RemapBack
    <3>5. r \in Under(p)
      BY <3>3, <3>4 DEF Under
    <3>6. q \in IF disk[r] = Folder THEN Folders ELSE Files
      BY <3>3, <3>4, <3>5 DEF Fits
    <3> QED BY <3>3, <3>6, SessionsAssumption
  <2> QED BY <2>1, <2>2
<1>7. FoldersHold'
  BY <1>6 DEF FoldersHold
<1>8. ~Suppresses(p)' /\ ~Suppresses(to)'
  <2>1. expected[to] = None \/ expected[to] # disk[p]
    BY DEF Takes, Admits
  <2> QED BY <1>5, <2>1, MarksAreStamps DEF Suppresses
<1>9. ASSUME NEW q \in Path, IsPrefix(p, q) \/ IsPrefix(to, q) PROVE Noticed(q)'
  <2>1. \A w \in {n, m} : \E i \in DOMAIN notices' : notices'[i] = w
    BY DEF TellsAlso
  <2> HIDE DEF n, m
  <2>2. PICK i \in DOMAIN notices', j \in DOMAIN notices' : notices'[i] = n /\ notices'[j] = m
    BY <2>1
  <2>3. notices'[i].kind = "half" /\ notices'[i].path = p /\ ~Suppresses(notices[i].path)'
    BY <1>0, <1>8, <2>2 DEF Suppresses
  <2>4. notices'[j].kind = "half" /\ notices'[j].path = to /\ ~Suppresses(notices[j].path)'
    BY <1>0, <1>8, <2>2 DEF Suppresses
  <2> QED BY <1>9, <2>3, <2>4 DEF Noticed
<1>10. ASSUME NEW x \in Path, disk[x] = Gone, disk'[x] # Gone PROVE ~Named(x)
  <2>1. IsPrefix(to, x)
    BY <1>3, <1>10
  <2>2. disk[to] = Gone
    BY <1>10, <2>1, NothingBelowFiles
  <2>3. ~Told(to)
    BY <2>2 DEF Calm, Admits
  <2> QED BY <2>1, <2>3 DEF Named, Told, Meets
<1>11. \A x \in Path : Suppresses(x)' => Suppresses(x) \/ ~Came(x) \/ Noticed(x)'
  BY <1>3, <1>9 DEF Suppresses
<1>12. \A q \in Path : \/ Kind(disk', q) = Kind(disk, q) /\ (disk[q] = Gone => disk'[q] = Gone)
                       \/ Noticed(q)'
  BY <1>3, <1>9 DEF Kind
<1>13. NewsInv' /\ ToldGone' /\ KeepsShowing
  <2>1. \A w \in {n, m} : w.path \in Path /\ w.mate \in Path \cup {None} /\ w.kind # "remove"
    BY <1>0
  <2> HIDE DEF n, m
  <2>2. TellsAlso({n, m})
    BY DEF n, m
  <2> QED BY <1>10, <1>11, <1>12, <2>1, <2>2, TellingDisk
<1> QED BY <1>3, <1>7, <1>13 DEF DiskTold

(* A file is written, by the app or by another program.                      *)
LEMMA FileWritten ==
    ASSUME TypesInv, IsATree, FoldersHold, NewsInv, ToldGone,
           NEW p \in Path, disk[p] \notin {Gone, Folder}, NEW n, n.path = p, n.mate = None,
           n.kind # "remove", TellsAlso({n}),
           stamps' = stamps + 1, disk' = [disk EXCEPT ![p] = stamps'],
           expected' = expected \/ (expected' = [expected EXCEPT ![p] = stamps'] /\ ~Came(p))
    PROVE  DiskTold
<1>1. /\ disk'[p] = stamps + 1 /\ stamps + 1 \notin {Gone, Folder, None}
      /\ \A q \in Path : q # p => disk'[q] = disk[q] /\ expected'[q] = expected[q]
  <2>1. stamps \in Nat /\ disk \in Disks(stamps) /\ expected \in Marks(stamps)
    BY DEF TypesInv, FilesTyped
  <2>2. disk'[p] = stamps + 1 /\ \A q \in Path : q # p => disk'[q] = disk[q]
    BY <2>1 DEF Disks
  <2>3. stamps + 1 \notin {Gone, Folder, None}
    BY <2>1, NoMarkIsAStamp
  <2>4. \A q \in Path : q # p => expected'[q] = expected[q]
    BY <2>1 DEF Marks
  <2> QED BY <2>2, <2>3, <2>4
<1>2. IsATree'
  BY StampedTree
<1>3. FoldersHold'
  BY <1>1 DEF FoldersHold
<1>4. ASSUME NEW x \in Path, Suppresses(x)' PROVE Suppresses(x) \/ ~Came(x)
  <2>1. CASE x # p
    BY <1>1, <1>4, <2>1 DEF Suppresses
  <2>2. CASE x = p /\ expected' = expected
    <3>1. expected[p] \in {None} \cup 1 .. stamps /\ stamps \in Nat
      BY DEF TypesInv, FilesTyped, Marks
    <3> QED BY <1>1, <1>4, <2>2, <3>1 DEF Suppresses
  <2>3. CASE x = p /\ ~Came(p)
    BY <2>3
  <2> QED BY <2>1, <2>2, <2>3
<1>5. \A q \in Path : Kind(disk', q) = Kind(disk, q) /\ (disk[q] = Gone <=> disk'[q] = Gone)
  BY <1>1 DEF Kind
<1>6. NewsInv' /\ ToldGone' /\ KeepsShowing
  BY <1>4, <1>5, TellingDisk
<1> QED BY <1>2, <1>3, <1>6 DEF DiskTold

(* A write that fails, or one that was long ago, is no longer expected.      *)
LEMMA FewerExpected ==
    ASSUME IsATree, FoldersHold, NewsInv, ToldGone,
           disk' = disk, notices' = notices, pending' = pending, events' = events,
           \A x \in Path : Suppresses(x)' => Suppresses(x)
    PROVE  DiskTold
<1>1. IsATree' /\ FoldersHold'
  BY DEF IsATree, FoldersHold
<1>2. TellsAlso({})
  BY DEF TellsAlso, NewsInv
<1>3. \A q \in Path : Kind(disk', q) = Kind(disk, q) /\ (disk[q] = Gone => disk'[q] = Gone)
  BY DEF Kind
<1>4. NewsInv' /\ ToldGone' /\ KeepsShowing
  BY <1>2, <1>3, TellingDisk
<1> QED BY <1>1, <1>4 DEF DiskTold

LEMMA HalvesTell ==
    ASSUME NewsInv, NEW p, NEW to, notices' = notices \o Halves(p, to),
           events' = events, pending' = pending
    PROVE  TellsAlso({Halves(p, to)[1], Halves(p, to)[2]})
<1>1. PICK s : s = Halves(p, to)
  OBVIOUS
<1>2. IsSeq(s) /\ DOMAIN s = {1, 2}
  BY <1>1, ShortSeqs DEF Halves
<1>3. IsSeq(notices) /\ DOMAIN notices = 1 .. Len(notices) /\ Len(notices) \in Nat
  BY ElementsOfSeq DEF NewsInv
<1>4. PICK both : both = notices \o s
  OBVIOUS
<1>5. /\ IsSeq(both)
      /\ \A i \in DOMAIN notices : i \in DOMAIN both /\ both[i] = notices[i]
      /\ \A i \in DOMAIN s : Len(notices) + i \in DOMAIN both /\ both[Len(notices) + i] = s[i]
      /\ \A i \in DOMAIN both :
           \/ i \in DOMAIN notices
           \/ i > Len(notices) /\ i - Len(notices) \in DOMAIN s /\ both[i] = s[i - Len(notices)]
  <2> DEFINE r == notices \o s
  <2>1. /\ IsSeq(r) /\ Len(r) = Len(notices) + Len(s)
        /\ \A n \in DOMAIN notices : n \in DOMAIN r /\ r[n] = notices[n]
        /\ \A n \in DOMAIN s : Len(notices) + n \in DOMAIN r /\ r[Len(notices) + n] = s[n]
        /\ \A n \in DOMAIN r :
             \/ n \in DOMAIN notices
             \/ n > Len(notices) /\ n - Len(notices) \in DOMAIN s /\ r[n] = s[n - Len(notices)]
    BY Zenon, <1>2, <1>3, JoinedSeq
  <2> HIDE DEF r
  <2>2. both = r
    BY <1>4 DEF r
  <2> QED BY <2>1, <2>2
<1>6. \A w \in {s[1], s[2]} : \E i \in DOMAIN both : both[i] = w
  BY <1>2, <1>5
<1>7. \A i \in DOMAIN both :
        (i \in DOMAIN notices /\ both[i] = notices[i]) \/ both[i] \in {s[1], s[2]}
  BY <1>2, <1>5
<1>8. notices' = both
  BY <1>1, <1>4
<1> QED BY <1>1, <1>5, <1>6, <1>7, <1>8 DEF TellsAlso

(* What holds where nothing is done to a path while news of it are on their  *)
(* way; the steps that change the disk keep it.                              *)
DiskKnown ==
    /\ TypesInv /\ IsATree /\ FoldersHold /\ NewsInv /\ ToldGone
    /\ "meet" \notin races

LEMMA GoesTold ==
    ASSUME DiskKnown, NEW then, NEW q, Goes(then, q),
           expected' = expected, pending' = pending, events' = events
    PROVE  DiskTold
<1>1. CASE disk' = disk /\ notices' = notices
  BY <1>1, SilentStep DEF DiskKnown
<1>2. ASSUME NEW p \in Names(then.path), stamps' = stamps + 1, disk' = [disk EXCEPT ![p] = stamps'],
             notices' = Append(notices, [kind |-> "create", path |-> p, mate |-> None])
      PROVE  DiskTold
  <2>1. p \in Files /\ Free(p)
    BY DEF Names
  <2>2. PICK n : n = [kind |-> "create", path |-> p, mate |-> None]
    OBVIOUS
  <2>3. n.path = p /\ n.mate = None /\ n.kind = "create"
    BY <2>2
  <2>4. TellsAlso({n})
    BY <1>2, <2>2, AppendTells DEF DiskKnown
  <2> QED BY <1>2, <2>1, <2>3, <2>4, FileComes DEF DiskKnown
<1> QED BY <1>1, <1>2 DEF Goes

LEMMA RelocateTold ==
    ASSUME DiskKnown, NEW p \in Path, NEW to \in Path, Relocates(p, to)
    PROVE  DiskTold
<1>1. /\ disk[p] # Gone /\ Free(to) /\ Fits(p, to) /\ Takes(p, to)
      /\ disk' = Renamed(disk, p, to) /\ notices' = notices \o Halves(p, to)
      /\ expected' = expected /\ pending' = pending /\ events' = events
  BY DEF Relocates, Shown, PersonLeaves, watcher, sent
<1>2. HasParent(disk, to) /\ Calm(to) /\ disk[to] # Folder
  BY <1>1, SessionsAssumption DEF Free
<1>3. TellsAlso({Halves(p, to)[1], Halves(p, to)[2]})
  BY <1>1, HalvesTell DEF DiskKnown
<1> QED BY <1>1, <1>2, <1>3, EntryMoves DEF DiskKnown

LEMMA PersonTold ==
    ASSUME DiskKnown, Person
    PROVE  DiskTold
<1>1. expected' = expected /\ pending' = pending /\ events' = events
  BY DEF Person, OpenEntry, OpenLink, CreateDocument, Rename, Move, Relocates, Trash, Save,
     CloseSaving, Close, Reload, RefreshWorkspace, Edit, PersonLeaves, watcher, sent
<1>2. ASSUME NEW then, Transition(then) PROVE DiskTold
  <2>1. CASE SaveThen(then)
    <3>1. disk' = disk /\ notices' = notices
      BY <2>1 DEF SaveThen
    <3> QED BY <1>1, <1>2, <3>1, SilentStep DEF DiskKnown
  <2>2. CASE Goes(then, calls)
    BY <1>1, <1>2, <2>2, GoesTold
  <2> QED BY <1>2, <2>1, <2>2 DEF Transition
<1>3. ASSUME NEW p, OpenEntry(p) \/ OpenLink(p) \/ CreateDocument(p)
      PROVE  DiskTold
  <2>1. PICK then : Transition(then)
    BY <1>3 DEF OpenEntry, OpenLink, CreateDocument
  <2> QED BY <1>2, <2>1
<1>4. ASSUME NEW p \in Path, Trash(p)
      PROVE  DiskTold
  <2>1. PICK n : n = [kind |-> "half", path |-> p, mate |-> None]
    OBVIOUS
  <2>2. n.path = p /\ n.mate = None /\ n.kind = "half"
    BY <2>1
  <2>3. disk' = Prune(disk, p) /\ notices' = Append(notices, n)
    BY <1>4, <2>1 DEF Trash, PersonLeaves, sent
  <2>4. TellsAlso({n})
    BY <1>1, <2>3, AppendTells DEF DiskKnown
  <2> QED BY <1>1, <2>2, <2>3, <2>4, EntryGoes DEF DiskKnown
<1>5. CASE Save \/ CloseSaving \/ Close \/ Reload \/ RefreshWorkspace \/ Edit
  <2>1. disk' = disk /\ notices' = notices
    BY <1>5 DEF Save, CloseSaving, Close, Reload, RefreshWorkspace, Edit, SaveThen, sent
  <2> QED BY <1>1, <2>1, SilentStep DEF DiskKnown
<1> QED
  BY <1>3, <1>4, <1>5, RelocateTold DEF Person, Rename, Move

LEMMA WritesTold ==
    ASSUME DiskKnown, Writes
    PROVE  DiskTold
<1> DEFINE p == Head(calls).doc.path
<1>1. pending' = pending /\ events' = events
  BY DEF Writes, ReplyLeaves, sent
<1>2. CASE /\ At(p) \notin {Gone, Folder} /\ Admits("meet", ~Came(p))
           /\ stamps' = stamps + 1 /\ disk' = [disk EXCEPT ![p] = stamps']
           /\ expected' = [expected EXCEPT ![p] = stamps']
           /\ notices' = Append(notices, [kind |-> "half", path |-> p, mate |-> None])
  <2>1. p \in Path /\ disk[p] \notin {Gone, Folder} /\ ~Came(p)
    BY <1>2 DEF At, Admits, DiskKnown
  <2> HIDE DEF p
  <2>2. PICK n : n = [kind |-> "half", path |-> p, mate |-> None]
    OBVIOUS
  <2>3. n.path = p /\ n.mate = None /\ n.kind # "remove"
    BY <2>2
  <2>4. TellsAlso({n})
    BY <1>1, <1>2, <2>2, AppendTells DEF DiskKnown
  <2> QED BY <1>2, <2>1, <2>3, <2>4, FileWritten DEF DiskKnown
<1>3. CASE /\ disk' = disk /\ notices' = notices
           /\ expected' = [q \in Path |-> IF q = p THEN None ELSE expected[q]]
  <2> HIDE DEF p
  <2>1. \A x \in Path : Suppresses(x)' => Suppresses(x)
    BY <1>3 DEF Suppresses
  <2> QED BY <1>1, <1>3, <2>1, FewerExpected DEF DiskKnown
<1> QED BY <1>2, <1>3 DEF Writes

LEMMA RepliesTold ==
    ASSUME DiskKnown, Replies
    PROVE  DiskTold
<1>1. CASE GoesOn
  BY <1>1, GoesTold DEF GoesOn, ReplyLeaves, sent
<1>2. CASE disk' = disk /\ expected' = expected /\ notices' = notices /\ pending' = pending
           /\ events' = events
  BY <1>2, SilentStep DEF DiskKnown
<1> QED
  BY <1>1, <1>2, WritesTold DEF Replies, ReplyLeaves, Loaded, InspectionFindsAChange, Written,
     Saved, LinkRead, Created, Reloaded, Remapped, Trashed, Refreshed, sent, watcher

LEMMA OthersTold ==
    ASSUME DiskKnown, Others
    PROVE  DiskTold
<1>1. events' = events /\ pending' = pending /\ expected' = expected
  BY DEF Others, OthersWrite, OthersCreate, OthersRemove, OthersRename, OthersMoveOut,
     OthersMoveIn, OthersDo, watcher, sent
<1>2. ASSUME NEW kind, NEW p, NEW held, OthersDo(held, Notice(kind, p))
      PROVE  \E n : /\ n.path = p /\ n.mate = None /\ n.kind = kind /\ TellsAlso({n})
                    /\ disk' = held
  <2>1. PICK n : n = [kind |-> kind, path |-> p, mate |-> None]
    OBVIOUS
  <2>2. n.path = p /\ n.mate = None /\ n.kind = kind
    BY <2>1
  <2>3. notices' = notices \o <<n>> /\ disk' = held
    BY <1>2, <2>1 DEF OthersDo, Notice, sent
  <2>4. TellsAlso({n})
    BY <1>1, <2>3, AppendTells DEF DiskKnown
  <2> QED BY <2>2, <2>3, <2>4
<1>3. ASSUME NEW p \in Files, OthersWrite(p) PROVE DiskTold
  <2>0. p \in Path /\ disk[p] \notin {Gone, Folder}
    BY <1>3 DEF OthersWrite, Path
  <2>1. PICK kind \in {"modify"} :
          stamps' = stamps + 1 /\ OthersDo([disk EXCEPT ![p] = stamps'], Notice(kind, p))
    BY <1>3 DEF OthersWrite
  <2>2. PICK n : /\ n.path = p /\ n.mate = None /\ n.kind = kind /\ TellsAlso({n})
                 /\ disk' = [disk EXCEPT ![p] = stamps']
    BY <1>2, <2>1
  <2> QED BY <1>1, <2>0, <2>1, <2>2, FileWritten DEF DiskKnown
<1>4. ASSUME NEW p \in Files, OthersCreate(p) \/ OthersMoveIn(p) PROVE DiskTold
  <2>1. PICK kind \in {"create", "half"} :
          /\ Free(p) /\ stamps' = stamps + 1
          /\ OthersDo([disk EXCEPT ![p] = stamps'], Notice(kind, p))
    BY <1>4 DEF OthersCreate, OthersMoveIn
  <2>2. PICK n : /\ n.path = p /\ n.mate = None /\ n.kind = kind /\ TellsAlso({n})
                 /\ disk' = [disk EXCEPT ![p] = stamps']
    BY <1>2, <2>1
  <2> QED BY <1>1, <2>1, <2>2, FileComes DEF DiskKnown
<1>5. ASSUME NEW p \in Path, OthersRemove(p) \/ OthersMoveOut(p) PROVE DiskTold
  <2>1. PICK kind \in {"remove", "half"} : OthersDo(Prune(disk, p), Notice(kind, p))
    BY <1>5 DEF OthersRemove, OthersMoveOut
  <2>2. PICK n : /\ n.path = p /\ n.mate = None /\ n.kind = kind /\ TellsAlso({n})
                 /\ disk' = Prune(disk, p)
    BY <1>2, <2>1
  <2> QED BY <1>1, <2>1, <2>2, EntryGoes DEF DiskKnown
<1>6. ASSUME NEW p \in Path, NEW to \in Path, OthersRename(p, to) PROVE DiskTold
  <2>1. /\ disk[p] # Gone /\ Fits(p, to) /\ Takes(p, to)
        /\ disk[to] = Gone => Free(to)
        /\ disk[to] # Gone => HasParent(disk, to) /\ {disk[p], disk[to]} \cap {Folder} = {}
        /\ OthersDo(Renamed(disk, p, to), Halves(p, to))
    BY <1>6 DEF OthersRename, Shown
  <2>2. HasParent(disk, to) /\ (disk[to] = Gone => Calm(to)) /\ disk[to] # Folder
    BY <2>1, SessionsAssumption DEF Free
  <2>3. notices' = notices \o Halves(p, to) /\ disk' = Renamed(disk, p, to)
    BY <2>1 DEF OthersDo, sent
  <2>4. TellsAlso({Halves(p, to)[1], Halves(p, to)[2]})
    BY <1>1, <2>3, HalvesTell DEF DiskKnown
  <2> QED BY <1>1, <2>1, <2>2, <2>3, <2>4, EntryMoves DEF DiskKnown
<1>7. Files \subseteq Path
  BY DEF Path
<1> QED BY <1>3, <1>4, <1>5, <1>6, <1>7 DEF Others

(***************************************************************************)
(* The watcher: what it hears of a path, it tells or waits with, unless it *)
(* takes it for the app's own doing; and what it tells is so.              *)
(***************************************************************************)
IsSo(e) == IsTold(e) /\ \A p \in Path : Tells(e, p) => Kind(Made(e), p) = Kind(disk, p)
Hears(es) ==
    /\ IsSeq(es) /\ \E top : EmitsAfter(es, top)
    /\ \A k \in DOMAIN es :
         /\ es[k].path \in Path /\ (es[k].kind = "rename" => es[k].to \in Path)
         /\ IsSo(es[k])
    /\ \/ pending = None \/ pending' = pending
       \/ \E k \in DOMAIN es : es[k].path = pending.path
    /\ \/ pending' = None \/ pending' = pending
       \/ /\ notices # <<>> /\ pending'.path = Head(notices).path
          /\ disk[Head(notices).path] = Gone
    /\ \/ notices' = notices
       \/ /\ notices # <<>> /\ notices' = Tail(notices)
          /\ \/ Suppresses(Head(notices).path)
             \/ pending' # None /\ pending'.path = Head(notices).path
             \/ \E k \in DOMAIN es :
                  \/ es[k].path = Head(notices).path
                  \/ es[k].kind = "rename" /\ es[k].to = Head(notices).path
    /\ \A x \in Path : Suppresses(x)' => Suppresses(x)
    /\ disk' = disk /\ tree' = tree /\ retained' = retained /\ calls' = calls

LEMMA HearingTells ==
    ASSUME NewsInv, NEW es, IsSeq(es), NEW top, EmitsAfter(es, top)
    PROVE  /\ IsSeq(events') /\ Len(events) \in Nat /\ Len(events') \in Nat
           /\ top \in Nat /\ top <= Len(events) /\ Len(events) <= Len(events')
           /\ DOMAIN events = 1 .. Len(events) /\ DOMAIN events' = 1 .. Len(events')
           /\ \A i \in DOMAIN events : i \in DOMAIN events' /\ events'[i] = events[i]
           /\ \A k \in DOMAIN es : k \in Nat /\ top + k \in DOMAIN events' /\ events'[top + k] = es[k]
                                   /\ k > 0
           /\ \A i \in DOMAIN events' :
                \/ i \in DOMAIN events /\ i <= top
                \/ i > top /\ \E k \in DOMAIN es : events'[i] = es[k]
<1>1. IsSeq(events) /\ IsSeq(es) /\ IsSeq(events')
  BY DEF NewsInv, EmitsAfter
<1>2. /\ Len(events) \in Nat /\ Len(es) \in Nat /\ DOMAIN events = 1 .. Len(events)
      /\ DOMAIN es = 1 .. Len(es) /\ DOMAIN events' = 1 .. Len(events') /\ Len(events') \in Nat
  BY <1>1, ElementsOfSeq
<1>3. \A k \in DOMAIN es : k > 0 /\ k \in Nat
  BY <1>2
<1> QED BY <1>1, <1>2, <1>3 DEF EmitsAfter

LEMMA HearingNews ==
    ASSUME NewsInv, ToldGone, NEW es, Hears(es)
    PROVE  NewsInv' /\ ToldGone'
<1>1. notices # <<>> => /\ IsSeq(Tail(notices)) /\ 1 \in DOMAIN notices /\ Head(notices) = notices[1]
                        /\ \A n \in DOMAIN Tail(notices) :
                             n + 1 \in DOMAIN notices /\ Tail(notices)[n] = notices[n + 1]
  BY RestOfSeq DEF NewsInv
<1>2. IsSeq(notices') /\ \A i \in DOMAIN notices' : \E j \in DOMAIN notices : notices'[i] = notices[j]
  BY <1>1 DEF Hears, NewsInv
<1>3. \A i \in DOMAIN notices' :
        /\ notices'[i].path \in Path /\ notices'[i].mate \in Path \cup {None}
        /\ notices'[i].kind = "remove" => disk'[notices'[i].path] = Gone
  BY <1>2 DEF NewsInv, ToldGone, Hears
<1>4. pending' # None => pending'.path \in Path /\ disk'[pending'.path] = Gone
  BY <1>1 DEF NewsInv, ToldGone, Hears
<1>5. IsSeq(events') /\ \A i \in DOMAIN events' :
         events'[i].path \in Path /\ (events'[i].kind = "rename" => events'[i].to \in Path)
  <2>1. IsSeq(events') /\ \A i \in DOMAIN events' :
          \/ i \in DOMAIN events /\ events'[i] = events[i]
          \/ \E k \in DOMAIN es : events'[i] = es[k]
    <3>1. PICK top : EmitsAfter(es, top)
      BY DEF Hears
    <3>2. IsSeq(es)
      BY DEF Hears
    <3> QED BY <3>1, <3>2, HearingTells
  <2> QED BY <2>1 DEF NewsInv, Hears
<1> QED BY <1>2, <1>3, <1>4, <1>5 DEF NewsInv, ToldGone

LEMMA HearingKeeps ==
    ASSUME NewsInv, ToldGone, NEW es, Hears(es), NEW top, EmitsAfter(es, top)
    PROVE  KeepsShowingTo(top)
<1>0. /\ Len(events) \in Nat /\ Len(events') \in Nat /\ Len(events) <= Len(events')
      /\ top \in Nat /\ top <= Len(events)
      /\ \A i \in DOMAIN events : i \in DOMAIN events' /\ events'[i] = events[i]
      /\ \A k \in DOMAIN es : top + k \in DOMAIN events' /\ events'[top + k] = es[k]
                              /\ k > 0
  BY HearingTells DEF Hears
<1>1. ASSUME NEW p \in Path, NEW m \in 0 .. top, NEW k \in DOMAIN es, Tells(es[k], p)
      PROVE  Coming(p, m)'
  <2>1. PICK i \in DOMAIN events' : i = top + k /\ events'[i] = es[k] /\ k > 0
    BY <1>0
  <2>2. k \in Nat
    BY ElementsOfSeq DEF Hears
  <2>3. i > m
    BY <1>0, <2>1, <2>2
  <2>4. Tells(events[i], p)'
    BY <1>1, <2>1 DEF Tells
  <2> QED BY <2>3, <2>4 DEF Coming
<1>2. ASSUME NEW p \in Path, NEW m \in 0 .. top, pending # None, IsPrefix(pending.path, p)
      PROVE  Coming(p, m)'
  <2>1. CASE pending' = pending
    BY <1>2, <2>1 DEF Coming
  <2>2. ASSUME NEW k \in DOMAIN es, es[k].path = pending.path PROVE Tells(es[k], p)
    BY <1>2, <2>2 DEF Tells
  <2> QED BY <1>1, <1>2, <2>1, <2>2 DEF Hears
<1>3. ASSUME NEW p \in Path, NEW m \in 0 .. top, Noticed(p)
      PROVE  Coming(p, m)'
  <2>1. PICK i \in DOMAIN notices :
          /\ IsPrefix(notices[i].path, p) /\ notices[i].kind # "modify"
          /\ ~Suppresses(notices[i].path)
    BY <1>3 DEF Noticed
  <2>2. notices[i].path \in Path
    BY DEF NewsInv
  <2>3. ASSUME NEW j \in DOMAIN notices', notices'[j] = notices[i]
        PROVE  Noticed(p)'
    <3>1. ~Suppresses(notices[j].path)'
      <4>1. PICK x \in Path : x = notices[i].path
        BY <2>2
      <4>2. ~Suppresses(x)'
        BY <2>1, <4>1 DEF Hears
      <4> QED BY <2>3, <4>1, <4>2 DEF Suppresses
    <3> QED BY <2>1, <2>3, <3>1 DEF Noticed
  <2>4. CASE notices' = notices
    BY <2>3, <2>4 DEF Coming
  <2>5. CASE notices # <<>> /\ notices' = Tail(notices) /\ i # 1
    <3>1. /\ IsSeq(notices) /\ IsSeq(Tail(notices)) /\ DOMAIN notices = 1 .. Len(notices)
          /\ Len(notices) \in Nat /\ Len(Tail(notices)) = Len(notices) - 1
          /\ DOMAIN Tail(notices) = 1 .. Len(Tail(notices))
      BY <2>5, RestOfSeq, ElementsOfSeq DEF NewsInv
    <3>2. i - 1 \in DOMAIN Tail(notices)
      BY <2>5, <3>1
    <3>3. Tail(notices)[i - 1] = notices[i]
      <4>1. (i - 1) + 1 = i
        BY <3>1
      <4>2. Tail(notices)[i - 1] = notices[(i - 1) + 1]
        BY <2>5, <3>2, RestOfSeq DEF NewsInv
      <4> QED BY <4>1, <4>2
    <3>4. Noticed(p)'
      BY <2>3, <2>5, <3>2, <3>3
    <3> QED BY <3>4 DEF Coming
  <2>6. CASE notices # <<>> /\ notices' = Tail(notices) /\ i = 1 /\ notices' # notices
    <3>1. Head(notices) = notices[i]
      BY <2>6, RestOfSeq DEF NewsInv
    <3>2. CASE pending' # None /\ pending'.path = Head(notices).path
      BY <2>1, <3>1, <3>2 DEF Coming
    <3>3. ASSUME NEW k \in DOMAIN es,
                 \/ es[k].path = Head(notices).path
                 \/ es[k].kind = "rename" /\ es[k].to = Head(notices).path
          PROVE  Tells(es[k], p)
      BY <2>1, <3>1, <3>3 DEF Tells
    <3> QED BY <1>1, <2>1, <2>6, <3>1, <3>2, <3>3 DEF Hears
  <2> QED BY <2>4, <2>5, <2>6 DEF Hears
<1>4. ASSUME NEW p \in Path, NEW m \in 0 .. top, NEW i \in DOMAIN events, i > m,
             Tells(events[i], p)
      PROVE  Coming(p, m)'
  <2>1. i \in DOMAIN events' /\ events'[i] = events[i]
    BY <1>0
  <2>2. Tells(events[i], p)'
    BY <1>4, <2>1 DEF Tells
  <2> QED BY <1>4, <2>1, <2>2 DEF Coming
<1>5. ASSUME NEW held, NEW p \in Path, NEW m \in 0 .. top, WillShow(held, p, m)
      PROVE  WillShow(held, p, m)'
  <2>1. ShownRight(held, p) => ShownRight(held, p)'
    BY DEF ShownRight, Kind, Hears
  <2>2. Coming(p, m) => Coming(p, m)'
    BY <1>2, <1>3, <1>4 DEF Coming
  <2> QED BY <1>5, <2>1, <2>2 DEF WillShow
<1> QED BY <1>0, <1>5 DEF KeepsShowingTo

LEMMA HearingShows ==
    ASSUME TypesInv, ShowInv, NEW es, Hears(es)
    PROVE  ShowInv'
<1>1. NewsInv /\ ToldGone /\ IsATree' /\ FoldersHold'
  BY DEF ShowInv, IsATree, FoldersHold, Hears
<1>0. PICK top : EmitsAfter(es, top)
  BY DEF Hears
<1>2. NewsInv' /\ ToldGone' /\ KeepsShowingTo(top)
  BY <1>0, <1>1, HearingNews, HearingKeeps
<1>3. \A i \in DOMAIN events' :
        \/ i \in DOMAIN events /\ i <= top /\ events'[i] = events[i]
        \/ i > top /\ \E k \in DOMAIN es : events'[i] = es[k]
  BY <1>0, <1>1, HearingTells DEF Hears
<1>4. \A i \in DOMAIN events' : IsTold(events'[i])
  BY <1>3 DEF ShowInv, Hears, IsSo
<1>5. ASSUME NEW i \in DOMAIN events', i > top, NEW p \in Path, Tells(events[i], p)'
      PROVE  WillShow(Made(events[i]), p, i)'
  <2>1. i \in Nat /\ top \in Nat /\ ~(i <= top)
    BY <1>0, <1>1, <1>5, HearingTells DEF Hears
  <2>2. PICK k \in DOMAIN es : events'[i] = es[k]
    BY <1>3, <2>1
  <2>3. Tells(es[k], p)
    BY <1>5, <2>2 DEF Tells
  <2>4. PICK held : held = Made(es[k])
    OBVIOUS
  <2>5. Kind(held, p) = Kind(disk, p)
    BY <2>3, <2>4 DEF Hears, IsSo
  <2>6. Made(events[i])' = held
    BY <2>2, <2>4 DEF Made
  <2>7. ShownRight(Made(events[i]), p)'
    BY <2>5, <2>6 DEF ShownRight, Kind, Hears
  <2> QED BY <2>7 DEF WillShow
<1>6. KeepsTheTree /\ AreScans(calls') /\ calls' = calls
  BY DEF KeepsTheTree, AreScans, IsScan, Hears, TypesInv, ScreenTyped, AreTyped
<1>7. /\ IsSeq(events) /\ IsSeq(events') /\ \A i \in DOMAIN events : events'[i] = events[i]
      /\ top = Len(events) \/ NoScanAfter(top)
  BY <1>0, <1>1 DEF NewsInv, EmitsAfter
<1>8. ScansKept(top) /\ top \in Nat
  BY <1>0, <1>6, <1>7 DEF ScansKept, EmitsAfter
<1>9. ViewsInv'
  BY <1>2, <1>5, <1>6, <1>7, <1>8, ViewsKept DEF ShowInv
<1> QED BY <1>1, <1>2, <1>4, <1>9 DEF ShowInv

(* The watcher's events are so.                                              *)
LEMMA EntryOf ==
    ASSUME TypesInv, NEW p \in Path, disk[p] # Gone
    PROVE  EntryFor(p) # None /\ EntryFor(p) = [q \in Under(p) |-> disk[q]]
<1>1. EntryFor(p) = [q \in Under(p) |-> disk[q]]
  BY DEF EntryFor, Shown
<1>2. Under(p) \in SUBSET Path
  BY DEF Under
<1>3. [q \in Under(p) |-> disk[q]] \in [Under(p) -> {Gone, Folder} \cup Nat]
  BY <1>2 DEF TypesInv, FilesTyped, Disks
<1>4. None \notin [Under(p) -> {Gone, Folder} \cup Nat]
  BY <1>2, SessionsAssumption
<1> QED BY <1>1, <1>3, <1>4

LEMMA ChangeIsSo ==
    ASSUME TypesInv, IsATree, NEW p \in Path, NEW kind, kind # "rename", NEW to,
           kind = "remove" => disk[p] = Gone
    PROVE  IsSo(Event(kind, p, to))
<1> DEFINE e == Event(kind, p, to)
<1>1. e.kind = kind /\ e.path = p
  BY EventOf
<1>2. CASE disk[p] = Gone
  <2>1. e.entry = None
    BY <1>2 DEF Event, EntryFor, Shown
  <2> HIDE DEF e
  <2>2. \A q \in Path : Tells(e, q) => disk[q] = Gone /\ Made(e)[q] = Gone
    BY <1>1, <1>2, <2>1 DEF Tells, Made, IsATree
  <2>3. \A q \in Path : Tells(e, q) => Kind(Made(e), q) = Kind(disk, q)
    BY <2>2 DEF Kind
  <2>4. IsTold(e)
    BY <1>1, <2>1 DEF IsTold
  <2>5. IsSo(e)
    BY <2>3, <2>4 DEF IsSo
  <2> QED BY <2>5 DEF e
<1>3. CASE disk[p] # Gone
  <2>1. e.entry # None /\ e.entry = [q \in Under(p) |-> disk[q]]
    BY <1>3, EntryOf DEF Event
  <2>2. e.entry[p] # Gone
    BY <1>3, <2>1, PathsAreNames DEF Under
  <2> HIDE DEF e
  <2>3. DOMAIN e.entry = Under(p)
    BY <2>1
  <2>4. \A q \in Path : Tells(e, q) => Made(e)[q] = disk[q]
    BY <1>1, <2>1, <2>3 DEF Tells, Made, Under
  <2>5. \A q \in Path : Tells(e, q) => Kind(Made(e), q) = Kind(disk, q)
    BY <2>4 DEF Kind
  <2>6. IsTold(e)
    BY <1>1, <1>3, <2>1, <2>2, <2>3 DEF IsTold, Place
  <2>7. IsSo(e)
    BY <2>5, <2>6 DEF IsSo
  <2> QED BY <2>7 DEF e
<1> QED BY <1>2, <1>3

LEMMA RenameIsSo ==
    ASSUME TypesInv, IsATree, NEW p \in Path, NEW to \in Path, disk[p] = Gone, disk[to] # Gone
    PROVE  IsSo(Event("rename", p, to))
<1> DEFINE e == Event("rename", p, to)
<1>1. e.kind = "rename" /\ e.path = p /\ e.to = to
  BY EventOf
<1>2. e.entry # None /\ e.entry = [q \in Under(to) |-> disk[q]]
  BY EntryOf DEF Event
<1>3. e.entry[to] # Gone
  BY <1>2, PathsAreNames DEF Under
<1> HIDE DEF e
<1>4. DOMAIN e.entry = Under(to)
  BY <1>2
<1>5. ~IsPrefix(p, to)
  BY DEF IsATree
<1>6. \A q \in Path : Tells(e, q) => Made(e)[q] = disk[q]
  BY <1>1, <1>2, <1>4 DEF Tells, Made, Under, IsATree
<1>7. \A q \in Path : Tells(e, q) => Kind(Made(e), q) = Kind(disk, q)
  BY <1>6 DEF Kind
<1>8. IsTold(e)
  BY <1>1, <1>2, <1>3, <1>4, <1>5 DEF IsTold, Place
<1>9. IsSo(e)
  BY <1>7, <1>8 DEF IsSo
<1> QED BY <1>9 DEF e

LEMMA ForgetsOne ==
    ASSUME TypesInv, NEW p \in Path, Forget(p), disk' = disk
    PROVE  \A x \in Path : Suppresses(x)' => Suppresses(x)
<1>1. \A x \in Path : expected'[x] \in {expected[x], None}
  BY DEF Forget, TypesInv, FilesTyped, Marks
<1> QED BY <1>1 DEF Suppresses

LEMMA FirstNotice ==
    ASSUME NewsInv, ToldGone, notices # <<>>
    PROVE  /\ Head(notices).path \in Path /\ Head(notices).mate \in Path \cup {None}
           /\ Head(notices).kind = "remove" => disk[Head(notices).path] = Gone
BY NewsOfPaths DEF ToldGone

LEMMA OneEvent ==
    ASSUME NEW e
    PROVE  IsSeq(<<e>>) /\ DOMAIN <<e>> = {1} /\ <<e>>[1] = e
BY ShortSeqs

LEMMA OneTells ==
    ASSUME NewsInv, "repeat" \notin races, NEW e, Emit(<<e>>)
    PROVE  \E top : EmitsAfter(<<e>>, top)
<1> DEFINE es == <<e>>
<1>1. IsSeq(es) /\ DOMAIN es \subseteq {1, 2} /\ Emit(es)
  BY OneEvent
<1> HIDE DEF es
<1>2. \E top : EmitsAfter(es, top)
  BY <1>1, EmitTells DEF NewsInv
<1> QED BY <1>2 DEF es

LEMMA NothingTells ==
    ASSUME NewsInv, "repeat" \notin races, Emit(<<>>)
    PROVE  \E top : EmitsAfter(<<>>, top)
<1> DEFINE es == <<>>
<1>1. IsSeq(es) /\ DOMAIN es \subseteq {1, 2} /\ Emit(es)
  BY ShortSeqs
<1> HIDE DEF es
<1>2. \E top : EmitsAfter(es, top)
  BY <1>1, EmitTells DEF NewsInv
<1> QED BY <1>2 DEF es

LEMMA SuppressedShows ==
    ASSUME TypesInv, ShowInv, NoticeSuppressed
    PROVE  ShowInv'
<1>1. EmitsAfter(<<>>, Len(events))
  BY SilenceTells DEF NoticeSuppressed, ShowInv, NewsInv, sent
<1>2. Hears(<<>>)
  BY <1>1, ShortSeqs DEF Hears, NoticeSuppressed, NoticeIs, WatcherLeaves, watcher, screen, counts, Suppresses,
     sent
<1> QED BY <1>2, HearingShows

LEMMA ChangeShows ==
    ASSUME TypesInv, ShowInv, "repeat" \notin races, NoticeOfChange
    PROVE  ShowInv'
<1> DEFINE n == Head(notices)
           e == Event(n.kind, n.path, <<>>)
<1>1. /\ notices # <<>> /\ notices' = Tail(notices) /\ n.kind \in {"create", "modify", "remove"}
      /\ Forget(n.path) /\ Emit(<<e>>) /\ pending' = pending
      /\ disk' = disk /\ tree' = tree /\ retained' = retained /\ calls' = calls
  BY DEF NoticeOfChange, NoticeIs, WatcherLeaves, screen
<1>2. n.path \in Path /\ (n.kind = "remove" => disk[n.path] = Gone)
  BY <1>1, FirstNotice DEF ShowInv
<1>3. e.kind = n.kind /\ e.path = n.path
  BY EventOf
<1>4. IsSo(e)
  BY <1>1, <1>2, ChangeIsSo DEF ShowInv
<1>5. \A x \in Path : Suppresses(x)' => Suppresses(x)
  BY <1>1, <1>2, ForgetsOne
<1> HIDE DEF e
<1>6. \E top : EmitsAfter(<<e>>, top)
  BY <1>1, OneTells DEF ShowInv
<1>7. Hears(<<e>>)
  BY <1>1, <1>2, <1>3, <1>4, <1>5, <1>6, OneEvent DEF Hears
<1> QED BY <1>7, HearingShows

LEMMA GoneShows ==
    ASSUME TypesInv, ShowInv, "repeat" \notin races, HalfGone
    PROVE  ShowInv'
<1> DEFINE n == Head(notices)
           e == RemoveOf(pending.path)
<1>1. /\ notices # <<>> /\ notices' = Tail(notices) /\ Forget(n.path) /\ disk[n.path] = Gone
      /\ pending' = [path |-> n.path, mate |-> n.mate]
      /\ Emit(IF pending = None THEN <<>> ELSE <<e>>)
      /\ disk' = disk /\ tree' = tree /\ retained' = retained /\ calls' = calls
  BY DEF HalfGone, NoticeIs, WatcherLeaves, screen
<1>2. n.path \in Path /\ n.mate \in Path \cup {None}
  BY <1>1, FirstNotice DEF ShowInv
<1>3. pending' # None /\ pending'.path = n.path
  BY <1>1, <1>2, SessionsAssumption
<1>4. \A x \in Path : Suppresses(x)' => Suppresses(x)
  BY <1>1, <1>2, ForgetsOne
<1>5. pending # None => /\ pending.path \in Path /\ disk[pending.path] = Gone
  BY DEF ShowInv, NewsInv, ToldGone
<1>6. pending # None => e.kind = "remove" /\ e.path = pending.path /\ IsSo(e)
  BY <1>5, EventOf, ChangeIsSo DEF RemoveOf, ShowInv
<1> HIDE DEF e
<1>7. CASE pending = None
  <2>1. \E top : EmitsAfter(<<>>, top)
    BY <1>1, <1>7, NothingTells DEF ShowInv
  <2>2. Hears(<<>>)
    BY <1>1, <1>3, <1>4, <1>7, <2>1, ShortSeqs DEF Hears
  <2> QED BY <2>2, HearingShows
<1>8. CASE pending # None
  <2>1. \E top : EmitsAfter(<<e>>, top)
    BY <1>1, <1>8, OneTells DEF ShowInv
  <2>2. Hears(<<e>>)
    BY <1>1, <1>3, <1>4, <1>5, <1>6, <1>8, <2>1, OneEvent DEF Hears
  <2> QED BY <2>2, HearingShows
<1> QED BY <1>7, <1>8

LEMMA ThereShows ==
    ASSUME TypesInv, ShowInv, "repeat" \notin races, NEW es, HalfThere(es), IsSeq(es),
           DOMAIN es \subseteq {1, 2},
           \A k \in DOMAIN es :
              /\ es[k].path \in Path /\ (es[k].kind = "rename" => es[k].to \in Path)
              /\ IsSo(es[k]),
           pending # None => \E k \in DOMAIN es : es[k].path = pending.path,
           \E k \in DOMAIN es : \/ es[k].path = Head(notices).path
                                \/ es[k].kind = "rename" /\ es[k].to = Head(notices).path
    PROVE  ShowInv'
<1>1. /\ notices # <<>> /\ notices' = Tail(notices) /\ Forget(Head(notices).path)
      /\ pending' = None /\ Emit(es)
      /\ disk' = disk /\ tree' = tree /\ retained' = retained /\ calls' = calls
  BY DEF HalfThere, NoticeIs, WatcherLeaves, screen
<1>2. Head(notices).path \in Path
  BY <1>1, FirstNotice DEF ShowInv
<1>3. \A x \in Path : Suppresses(x)' => Suppresses(x)
  BY <1>1, <1>2, ForgetsOne
<1>4. \E top : EmitsAfter(es, top)
  BY <1>1, EmitTells DEF ShowInv, NewsInv
<1>5. Hears(es)
  BY <1>1, <1>3, <1>4 DEF Hears
<1> QED BY <1>5, HearingShows

LEMMA PairedShows ==
    ASSUME TypesInv, ShowInv, "repeat" \notin races, Paired
    PROVE  ShowInv'
<1> DEFINE n == Head(notices)
           e == Event("rename", pending.path, n.path)
<1>1. pending # None /\ notices # <<>> /\ HalfThere(<<e>>) /\ disk[n.path] # Gone
  BY DEF Paired, HalfThere
<1>2. n.path \in Path /\ pending.path \in Path /\ disk[pending.path] = Gone
  BY <1>1, FirstNotice DEF ShowInv, NewsInv, ToldGone
<1>3. e.kind = "rename" /\ e.path = pending.path /\ e.to = n.path
  BY EventOf
<1>4. IsSo(e)
  BY <1>1, <1>2, RenameIsSo DEF ShowInv
<1> HIDE DEF e
<1>5. IsSeq(<<e>>) /\ DOMAIN <<e>> = {1} /\ <<e>>[1] = e
  BY OneEvent
<1> QED BY <1>1, <1>2, <1>3, <1>4, <1>5, ThereShows

LEMMA PairedTooLateShows ==
    ASSUME TypesInv, ShowInv, "repeat" \notin races, PairedTooLate
    PROVE  ShowInv'
<1> DEFINE n == Head(notices)
           e == RemoveOf(pending.path)
           f == Event("create", n.path, <<>>)
           es == <<e, f>>
<1>1. pending # None /\ notices # <<>> /\ HalfThere(es)
  BY DEF PairedTooLate
<1>2. n.path \in Path /\ pending.path \in Path /\ disk[pending.path] = Gone
  BY <1>1, FirstNotice DEF ShowInv, NewsInv, ToldGone
<1>3. e.kind = "remove" /\ e.path = pending.path /\ f.kind = "create" /\ f.path = n.path
  BY EventOf DEF RemoveOf
<1>4. IsSo(e) /\ IsSo(f)
  BY <1>2, ChangeIsSo DEF ShowInv, RemoveOf
<1> HIDE DEF e, f
<1>5. IsSeq(es) /\ DOMAIN es = {1, 2} /\ es[1] = e /\ es[2] = f
  BY ShortSeqs
<1> HIDE DEF es
<1>6. \A k \in DOMAIN es :
        /\ es[k].path \in Path /\ (es[k].kind = "rename" => es[k].to \in Path)
        /\ IsSo(es[k])
  BY <1>2, <1>3, <1>4, <1>5
<1>7. /\ \E k \in DOMAIN es : es[k].path = pending.path
      /\ \E k \in DOMAIN es : es[k].path = n.path
  BY <1>3, <1>5
<1> QED BY <1>1, <1>5, <1>6, <1>7, ThereShows

LEMMA AloneShows ==
    ASSUME TypesInv, ShowInv, "repeat" \notin races, HalfAlone
    PROVE  ShowInv'
<1> DEFINE n == Head(notices)
           e == Event("create", n.path, <<>>)
<1>1. pending = None /\ notices # <<>> /\ HalfThere(<<e>>)
  BY DEF HalfAlone
<1>2. n.path \in Path
  BY <1>1, FirstNotice DEF ShowInv
<1>3. e.kind = "create" /\ e.path = n.path
  BY EventOf
<1>4. IsSo(e)
  BY <1>2, ChangeIsSo DEF ShowInv
<1> HIDE DEF e
<1>5. IsSeq(<<e>>) /\ DOMAIN <<e>> = {1} /\ <<e>>[1] = e
  BY OneEvent
<1> QED BY <1>1, <1>2, <1>3, <1>4, <1>5, ThereShows

LEMMA TimesOutShows ==
    ASSUME TypesInv, ShowInv, "repeat" \notin races, HalfTimesOut
    PROVE  ShowInv'
<1> DEFINE e == RemoveOf(pending.path)
<1>1. /\ pending # None /\ Emit(<<e>>) /\ pending' = None
      /\ notices' = notices /\ expected' = expected
      /\ disk' = disk /\ tree' = tree /\ retained' = retained /\ calls' = calls
  BY DEF HalfTimesOut, WatcherLeaves, screen
<1>2. pending.path \in Path /\ disk[pending.path] = Gone
  BY <1>1 DEF ShowInv, NewsInv, ToldGone
<1>3. e.kind = "remove" /\ e.path = pending.path /\ IsSo(e)
  BY <1>2, EventOf, ChangeIsSo DEF RemoveOf, ShowInv
<1>4. \A x \in Path : Suppresses(x)' => Suppresses(x)
  BY <1>1 DEF Suppresses
<1> HIDE DEF e
<1>5. \E top : EmitsAfter(<<e>>, top)
  BY <1>1, OneTells DEF ShowInv
<1>6. Hears(<<e>>)
  BY <1>1, <1>2, <1>3, <1>4, <1>5, OneEvent DEF Hears
<1> QED BY <1>6, HearingShows

LEMMA ForgottenShows ==
    ASSUME TypesInv, ShowInv, NEW p, WriteForgotten(p)
    PROVE  ShowInv'
<1>1. /\ notices' = notices /\ pending' = pending /\ events' = events
      /\ disk' = disk /\ tree' = tree /\ retained' = retained /\ calls' = calls
  BY DEF WriteForgotten, WatcherLeaves, screen, counts, sent
<1>2. EmitsAfter(<<>>, Len(events))
  BY <1>1, SilenceTells DEF ShowInv, NewsInv
<1>3. \A x \in Path : expected'[x] \in {expected[x], None}
  BY DEF WriteForgotten, TypesInv, FilesTyped, Marks, sent
<1>4. \A x \in Path : Suppresses(x)' => Suppresses(x)
  BY <1>1, <1>3 DEF Suppresses
<1>5. Hears(<<>>)
  BY <1>1, <1>2, <1>4, ShortSeqs DEF Hears
<1> QED BY <1>5, HearingShows

(***************************************************************************)
(* The store: an event makes the tree what it tells, unless something was  *)
(* typed below what goes, or the tree does not show the folder of what     *)
(* comes; then there is more to come.                                      *)
(***************************************************************************)
LEMMA TreeOfEvent ==
    ASSUME NEW e, IsTold(e), e.path \in Path, e.kind = "rename" => e.to \in Path, NEW p \in Path
    PROVE  /\ ~Tells(e, p) => TreeAfter(e)[p] = tree[p]
           /\ Tells(e, p) =>
                \/ TreeAfter(e)[p] = Made(e)[p]
                \/ Retains(e) /\ e.entry = None
                \/ /\ e.entry # None /\ IsPrefix(Place(e), p)
                   /\ ~HasParent(Prune(tree, e.path), Place(e))
<1> DEFINE held == Prune(tree, e.path)
<1>1. held = [q \in Path |-> IF IsPrefix(e.path, q) THEN Gone ELSE tree[q]]
  BY DEF Prune
<1>2. Tells(e, p) <=> IsPrefix(e.path, p) \/ (e.kind = "rename" /\ IsPrefix(e.to, p))
  BY DEF Tells
<1>3. Made(e)[p] = IF e.entry # None /\ p \in DOMAIN e.entry THEN e.entry[p] ELSE Gone
  BY DEF Made
<1>4. e.entry # None => (p \in DOMAIN e.entry <=> IsPrefix(Place(e), p))
  BY DEF IsTold, Under
<1> HIDE DEF held
<1>5. CASE Retains(e)
  <2>1. TreeAfter(e) = tree /\ e.kind = "remove" /\ e.entry = None
    BY <1>5 DEF TreeAfter, Retains, IsTold
  <2> QED BY <1>5, <2>1
<1>6. CASE ~Retains(e) /\ e.kind = "remove"
  <2>1. TreeAfter(e) = held /\ e.entry = None
    BY <1>6 DEF TreeAfter, held, IsTold
  <2> QED BY <1>1, <1>2, <1>3, <1>6, <2>1
<1>7. CASE ~Retains(e) /\ e.kind # "remove"
  <2>1. TreeAfter(e) = Insert(held, Place(e), e.entry)
    BY <1>7 DEF TreeAfter, held, Place
  <2>2. Place(e) = IF e.kind = "rename" THEN e.to ELSE e.path
    BY DEF Place
  <2>3. CASE e.entry = None
    <3>1. TreeAfter(e) = held /\ e.kind # "rename"
      BY <2>1, <2>3 DEF Insert, IsTold
    <3> QED BY <1>1, <1>2, <1>3, <2>3, <3>1
  <2>4. CASE e.entry # None /\ ~HasParent(held, Place(e))
    <3>1. TreeAfter(e) = held
      BY <2>1, <2>4 DEF Insert
    <3>2. ~HasParent(Prune(tree, e.path), Place(e))
      BY <2>4 DEF held
    <3>3. CASE IsPrefix(Place(e), p)
      <4>1. Tells(e, p)
        BY <1>2, <2>2, <3>3
      <4> QED BY <2>4, <3>2, <3>3, <4>1
    <3>4. CASE ~IsPrefix(Place(e), p)
      <4>1. Made(e)[p] = Gone /\ ~(e.kind = "rename" /\ IsPrefix(e.to, p))
        BY <1>3, <1>4, <2>2, <3>4
      <4>2. TreeAfter(e)[p] = IF IsPrefix(e.path, p) THEN Gone ELSE tree[p]
        BY <1>1, <3>1
      <4> QED BY <1>2, <4>1, <4>2
    <3> QED BY <3>3, <3>4
  <2>5. CASE e.entry # None /\ HasParent(held, Place(e))
    <3>1. TreeAfter(e) = [q \in Path |-> IF q \in DOMAIN e.entry THEN e.entry[q] ELSE held[q]]
      BY <2>1, <2>5 DEF Insert
    <3>2. TreeAfter(e)[p] = IF p \in DOMAIN e.entry THEN e.entry[p] ELSE held[p]
      BY <3>1
    <3> QED BY <1>1, <1>2, <1>3, <1>4, <2>2, <2>5, <3>2
  <2> QED BY <2>3, <2>4, <2>5
<1> QED BY <1>5, <1>6, <1>7

(* The events after the first become the events.                             *)
Shifts ==
    /\ Len(events) \in Nat /\ DOMAIN events = 1 .. Len(events) /\ 1 \in DOMAIN events
    /\ IsSeq(events') /\ DOMAIN events' = 1 .. Len(events) - 1 /\ Len(events') = Len(events) - 1
    /\ \A i \in DOMAIN events' : i + 1 \in DOMAIN events /\ events'[i] = events[i + 1]
    /\ disk' = disk /\ notices' = notices /\ pending' = pending
    /\ expected' = expected

LEMMA ShiftsShow ==
    ASSUME Shifts, NEW held, NEW p \in Path, NEW m \in 1 .. Len(events), WillShow(held, p, m)
    PROVE  WillShow(held, p, m - 1)'
<1>1. ShownRight(held, p) => ShownRight(held, p)'
  BY DEF ShownRight, Kind, Shifts
<1>2. Noticed(p) => Noticed(p)'
  BY DEF Noticed, Suppresses, Shifts
<1>3. ASSUME NEW i \in DOMAIN events, i > m, Tells(events[i], p)
      PROVE  \E j \in DOMAIN events' : j > m - 1 /\ Tells(events[j], p)'
  <2>1. i - 1 \in DOMAIN events' /\ i - 1 > m - 1 /\ (i - 1) + 1 = i
    BY <1>3 DEF Shifts
  <2>2. events'[i - 1] = events[i]
    BY <2>1 DEF Shifts
  <2>3. PICK j \in DOMAIN events' : j = i - 1
    BY <2>1
  <2>4. events'[j] = events[i] /\ j > m - 1
    BY <2>1, <2>2, <2>3
  <2>5. Tells(events[j], p)'
    BY <1>3, <2>4 DEF Tells
  <2> QED BY <2>4, <2>5
<1>4. Coming(p, m) => Coming(p, m - 1)'
  BY <1>2, <1>3 DEF Coming, Shifts
<1> QED BY <1>1, <1>4 DEF WillShow

LEMMA ComesAfterFirst ==
    ASSUME Len(events) \in Nat, DOMAIN events = 1 .. Len(events),
           NEW p \in Path, Coming(p, 0), ~Tells(events[1], p)
    PROVE  Coming(p, 1)
<1>1. ASSUME NEW i \in DOMAIN events, i > 0, Tells(events[i], p) PROVE i > 1
  BY <1>1
<1> QED BY <1>1 DEF Coming

(* What comes to a folder that the tree does not show is still to come.      *)
LEMMA FolderToCome ==
    ASSUME ShowInv, Shifts, NEW e, e = events[1], e.entry # None,
           ~HasParent(Prune(tree, e.path), Place(e)),
           NEW p \in Path, IsPrefix(Place(e), p)
    PROVE  Coming(p, 1)
<1> DEFINE x == Place(e)
           r == Parent(x)
<1>1. /\ IsTold(e) /\ e.path \in Path /\ (e.kind = "rename" => e.to \in Path)
      /\ x \in Path /\ IsPrefix(x, x)
  BY PathsAreNames DEF Shifts, ShowInv, NewsInv, Place
<1>2. Tells(e, x) /\ Made(e)[x] # Gone
  BY <1>1 DEF Tells, Made, IsTold, Place, Under
<1>3. x = IF e.kind = "rename" THEN e.to ELSE e.path
  BY DEF Place
<1> HIDE DEF x
<1>4. WillShow(Made(e), x, 1)
  BY <1>1, <1>2 DEF ShowInv, ViewsInv, Shifts
<1>5. CASE Coming(x, 1)
  BY <1>1, <1>5, ComesBelow DEF ShowInv, x
<1>7. CASE Kind(Made(e), x) = Kind(disk, x)
  <2>1. disk[x] # Gone
    BY <1>2, <1>7, SessionsAssumption DEF Kind
  <2>2. HasParent(disk, x) /\ (Len(x) > 1 => r \in Path /\ IsPrefix(r, x) /\ r # x)
    BY <1>1, <2>1, ParentsAreFolders DEF ShowInv
  <2>3. Len(x) > 1 /\ Prune(tree, e.path)[r] # Folder
    BY DEF HasParent, x
  <2>4. r \in Path /\ IsPrefix(r, x) /\ r # x /\ disk[r] = Folder
    BY <2>2, <2>3 DEF HasParent
  <2> HIDE DEF r
  <2>5. ~IsPrefix(x, r)
    BY <1>1, <2>4, PathsAreNames, PrefixOrder
  <2>6. ~IsPrefix(e.path, r)
    <3>1. CASE e.kind = "rename"
      BY <1>1, <1>3, <2>4, <3>1, PathsAbove DEF IsTold
    <3>2. CASE e.kind # "rename"
      BY <1>3, <2>5, <3>2
    <3> QED BY <3>1, <3>2
  <2>7. tree[r] # Folder
    BY <2>3, <2>4, <2>6 DEF Prune
  <2>8. ~ShownRight(tree, r) /\ ~Left(r)
    BY <2>4, <2>7, SessionsAssumption DEF ShownRight, Kind, Left
  <2>9. Coming(r, 0)
    BY <2>4, <2>8 DEF ShowInv, ViewsInv, WillShow
  <2>10. ~Tells(e, r)
    BY <1>3, <2>5, <2>6 DEF Tells
  <2>11. Coming(r, 1)
    BY <2>4, <2>9, <2>10, ComesAfterFirst DEF Shifts
  <2>12. IsPrefix(r, p)
    BY <1>1, <2>4, PathsAbove DEF x
  <2> QED BY <2>4, <2>11, <2>12, ComesBelow DEF ShowInv
<1> QED BY <1>4, <1>5, <1>7 DEF WillShow, ShownRight

LEMMA TreeShows ==
    ASSUME ShowInv, Shifts, NEW e, e = events[1], tree' = TreeAfter(e), NEW p \in Path,
           retained' = IF Retains(e) THEN retained \cup Under(e.path)
                                     ELSE retained \ Under(e.path)
    PROVE  WillShow(tree, p, 0)' \/ Left(p)'
<1>0. 1 \in 1 .. Len(events) /\ 1 - 1 = 0
  BY DEF Shifts
<1>1. IsTold(e) /\ e.path \in Path /\ (e.kind = "rename" => e.to \in Path)
  BY DEF Shifts, ShowInv, NewsInv
<1>2. ASSUME NEW held, WillShow(held, p, 1), tree'[p] = held[p]
      PROVE  WillShow(tree, p, 0)'
  <2>1. WillShow(held, p, 0)'
    BY <1>0, <1>2, ShiftsShow
  <2>2. ShownRight(held, p)' => ShownRight(tree, p)'
    BY <1>2 DEF ShownRight, Kind
  <2> QED BY <2>1, <2>2 DEF WillShow
<1>3. CASE ~Tells(e, p)
  <2>1. tree'[p] = tree[p]
    BY <1>1, <1>3, TreeOfEvent
  <2>2. CASE WillShow(tree, p, 0)
    <3>1. PICK held : held = tree
      OBVIOUS
    <3>2. WillShow(held, p, 1)
      BY <1>3, <2>2, <3>1, ComesAfterFirst DEF WillShow, Shifts
    <3> QED BY <1>2, <2>1, <3>1, <3>2
  <2>3. CASE Left(p)
    <3>1. p \notin Under(e.path)
      BY <1>3 DEF Tells, Under
    <3> QED BY <2>3, <3>1 DEF Left, Shifts
  <2> QED BY <2>2, <2>3 DEF ShowInv, ViewsInv
<1>4. CASE Tells(e, p)
  <2>1. WillShow(Made(e), p, 1)
    BY <1>4 DEF ShowInv, ViewsInv, Shifts
  <2>2. CASE tree'[p] = Made(e)[p]
    BY <1>2, <2>1, <2>2
  <2>3. ASSUME Coming(p, 1) PROVE WillShow(tree, p, 0)'
    <3>1. PICK held : held = tree'
      OBVIOUS
    <3>2. WillShow(held, p, 1)
      BY <2>3 DEF WillShow
    <3> QED BY <1>2, <3>1, <3>2
  <2>4. CASE Retains(e) /\ e.entry = None
    <3>1. p \in retained'
      BY <1>4, <2>4 DEF Retains, Tells, Under
    <3>2. Made(e)[p] = Gone
      BY <2>4 DEF Made
    <3>3. ShownRight(Made(e), p) => disk[p] = Gone
      BY <3>2, SessionsAssumption DEF ShownRight, Kind
    <3>4. disk'[p] = disk[p]
      BY DEF Shifts
    <3> QED BY <2>1, <2>3, <3>1, <3>3, <3>4 DEF WillShow, Left
  <2>5. CASE e.entry # None /\ IsPrefix(Place(e), p) /\ ~HasParent(Prune(tree, e.path), Place(e))
    BY <2>3, <2>5, FolderToCome
  <2> QED BY <1>1, <1>4, <2>2, <2>4, <2>5, TreeOfEvent
<1> QED BY <1>3, <1>4

LEMMA DeliverShows ==
    ASSUME TypesInv, SessionsInv, ShowInv, "overtake" \notin races, Deliver
    PROVE  ShowInv'
<1> DEFINE e == Head(events)
           q == [i \in DOMAIN calls |-> Waited(calls[i])]
<1>1. Shifts /\ e = events[1]
  <2>1. IsSeq(events) /\ events # <<>> /\ events' = Tail(events)
    BY DEF ShowInv, NewsInv, Deliver
  <2>2. /\ IsSeq(events') /\ 1 \in DOMAIN events /\ e = events[1]
        /\ \A i \in DOMAIN events' : i + 1 \in DOMAIN events /\ events'[i] = events[i + 1]
    BY <2>1, RestOfSeq
  <2>3. Len(events') = Len(events) - 1
    BY <2>1 DEF IsSeq
  <2>4. /\ Len(events) \in Nat /\ DOMAIN events = 1 .. Len(events)
        /\ DOMAIN events' = 1 .. Len(events) - 1
    BY <2>1, <2>2, <2>3, ElementsOfSeq
  <2>5. /\ disk' = disk /\ notices' = notices /\ pending' = pending
        /\ expected' = expected
    BY DEF Deliver, watcher, counts
  <2> HIDE DEF e
  <2> QED BY <2>2, <2>3, <2>4, <2>5 DEF Shifts
<1>2. /\ Become(DocsAfter(e), active, TreeAfter(e), q)
      /\ retained' = IF Retains(e) THEN retained \cup Under(e.path)
                                   ELSE retained \ Under(e.path)
      /\ \A i \in DOMAIN calls : calls[i].kind = "refresh" => calls[i].ahead > 0
  BY DEF Deliver, Admits, Waited
<1> HIDE DEF e
<1>3. IsSeq(q)
  <2>1. Len(calls) \in Nat /\ DOMAIN calls = 1 .. Len(calls)
    BY ElementsOfSeq DEF SessionsInv, AreInOrder
  <2>2. DOMAIN q = DOMAIN calls /\ q = [i \in DOMAIN calls |-> q[i]]
    OBVIOUS
  <2> HIDE DEF q
  <2>3. q \in Seq({q[i] : i \in DOMAIN calls})
    BY <2>1, <2>2
  <2> QED BY <2>3, SeqOfItself
<1>4. \A n \in DOMAIN q : n \in DOMAIN calls /\ q[n] = Waited(calls[n])
  OBVIOUS
<1> HIDE DEF q
<1>5. tree' = TreeAfter(e) /\ \E now : calls' = LoadsAgain(now, q)
  BY <1>2 DEF Become
<1>6. \A n \in DOMAIN calls' :
        calls'[n].kind = "load" \/ \E i \in DOMAIN calls : calls'[n] = Waited(calls[i])
  BY <1>3, <1>4, <1>5, LoadsFrom DEF From
<1>7. NewsInv'
  BY <1>1 DEF ShowInv, NewsInv, Shifts
<1>8. IsATree' /\ FoldersHold' /\ ToldGone'
  BY <1>1 DEF ShowInv, IsATree, FoldersHold, ToldGone, Shifts
<1>9. \A i \in DOMAIN events' : IsTold(events'[i])
  BY <1>1 DEF ShowInv, Shifts
<1>10. \A p \in Path : WillShow(tree, p, 0)' \/ Left(p)'
  BY <1>1, <1>2, <1>5, TreeShows
<1>11. ASSUME NEW i \in DOMAIN events', NEW p \in Path, Tells(events[i], p)'
       PROVE  WillShow(Made(events[i]), p, i)'
  <2>1. /\ i + 1 \in DOMAIN events /\ events'[i] = events[i + 1]
        /\ i + 1 \in 1 .. Len(events) /\ (i + 1) - 1 = i
    BY <1>1 DEF Shifts
  <2>2. PICK j \in DOMAIN events : j = i + 1 /\ events'[i] = events[j] /\ j \in 1 .. Len(events)
    BY <2>1
  <2>3. Tells(events[j], p)
    BY <1>11, <2>2 DEF Tells
  <2>4. PICK held : held = Made(events[j])
    OBVIOUS
  <2>5. WillShow(held, p, j)
    BY <2>3, <2>4 DEF ShowInv, ViewsInv
  <2>6. WillShow(held, p, j - 1)'
    BY <1>1, <2>2, <2>5, ShiftsShow
  <2>7. Made(events[i])' = held
    BY <2>2, <2>4 DEF Made
  <2>8. ShownRight(held, p)' => ShownRight(Made(events[i]), p)'
    BY <2>7 DEF ShownRight, Kind
  <2>9. Coming(p, j - 1)' => Coming(p, i)'
    BY <2>1, <2>2
  <2> QED BY <2>6, <2>8, <2>9 DEF WillShow
<1>12. ASSUME NEW n \in DOMAIN calls', calls'[n].kind = "refresh"
       PROVE  (/\ calls[n].ahead \in 0 .. Len(events)
               /\ \A p \in Path : WillShow(calls[n].reply, p, calls[n].ahead))'
  <2>1. PICK i \in DOMAIN calls : calls'[n] = Waited(calls[i])
    BY <1>6, <1>12
  <2>2. PICK c : c = calls[i]
    OBVIOUS
  <2>3. IsCall(c)
    BY <2>2 DEF SessionsInv, AreInOrder, IsInOrder
  <2>4. Waited(c).kind = c.kind /\ Waited(c).reply = c.reply
    BY <2>3 DEF Waited, IsCall
  <2>5. c.kind = "refresh" /\ c.ahead > 0
    BY <1>2, <1>12, <2>1, <2>2, <2>4
  <2>6. Waited(c).ahead = c.ahead - 1
    BY <2>3, <2>5 DEF Waited, IsCall
  <2>7. PICK held, m : held = c.reply /\ m = c.ahead
    OBVIOUS
  <2>8. m \in 1 .. Len(events) /\ \A p \in Path : WillShow(held, p, m)
    <3>1. c.ahead \in 0 .. Len(events) /\ \A p \in Path : WillShow(c.reply, p, c.ahead)
      BY <2>2, <2>5 DEF ShowInv, ViewsInv
    <3> QED BY <1>1, <2>5, <2>7, <3>1 DEF Shifts
  <2>9. calls'[n].reply = held /\ calls'[n].ahead = m - 1
    BY <2>1, <2>2, <2>4, <2>6, <2>7
  <2>10. m - 1 \in 0 .. Len(events')
    <3>1. Len(events') = Len(events) - 1 /\ Len(events) \in Nat
      BY <1>1 DEF Shifts
    <3> QED BY <2>8, <3>1
  <2>11. ASSUME NEW p \in Path PROVE WillShow(calls[n].reply, p, calls[n].ahead)'
    <3>1. WillShow(held, p, m - 1)'
      BY <1>1, <2>8, ShiftsShow
    <3>2. ShownRight(held, p)' => ShownRight(calls[n].reply, p)'
      BY <2>9 DEF ShownRight, Kind
    <3>3. Coming(p, m - 1)' => Coming(p, calls[n].ahead)'
      BY <2>9 DEF Coming
    <3> QED BY <3>1, <3>2, <3>3 DEF WillShow
  <2> QED BY <2>9, <2>10, <2>11
<1>13. ViewsInv'
  BY <1>10, <1>11, <1>12 DEF ViewsInv
<1> QED BY <1>7, <1>8, <1>9, <1>13 DEF ShowInv

LEMMA WatcherShows ==
    ASSUME TypesInv, SessionsInv, ShowInv, races \cap {"overtake", "repeat"} = {}, Watcher
    PROVE  ShowInv'
BY SuppressedShows, ChangeShows, GoneShows, PairedShows, PairedTooLateShows, AloneShows,
   TimesOutShows, DeliverShows, ForgottenShows DEF Watcher

(* Steps that tell the watcher what they change.                             *)
LEMMA ToldShows ==
    ASSUME ShowInv, DiskTold, KeepsTheTree, ScreenMoves, events' = events
    PROVE  ShowInv'
<1>1. IsSeq(events) /\ IsSeq(events')
  BY DEF ShowInv, NewsInv
<1>2. \A i \in DOMAIN events' : ~(i > Len(events))
  BY <1>1, ElementsOfSeq
<1>3. Len(events) \in Nat /\ ScansKept(Len(events)) /\ KeepsShowingTo(Len(events))
  BY DEF DiskTold, KeepsShowing, KeepsShowingTo, ScansKept
<1>4. ViewsInv'
  BY <1>1, <1>2, <1>3, ViewsKept DEF ShowInv, ScreenMoves
<1> QED BY <1>4 DEF ShowInv, DiskTold

(* Other steps leave the tree, or show the scan they waited for.             *)
LEMMA TreeIsKept ==
    ASSUME ScreenMoves, retained' = retained
    PROVE  KeepsTheTree
BY DEF ScreenMoves, IsShown, KeepsTheTree

LEMMA RefreshedTree ==
    ASSUME Refreshed, SessionsInv
    PROVE  KeepsTheTree
<1>1. calls # <<>> /\ Head(calls).kind = "refresh" /\ tree' = Head(calls).reply
  BY DEF Refreshed, Replied, Become
<1>2. 1 \in DOMAIN calls /\ Head(calls) = calls[1]
  BY <1>1, RestOfSeq DEF SessionsInv, AreInOrder
<1> QED BY <1>1, <1>2 DEF KeepsTheTree

LEMMA ShowStep ==
    ASSUME TypesInv, SessionsInv, ShowHolds, [Next]_vars
    PROVE  ShowHolds'
<1>2. races' = races
  BY DEF Next, vars, Person, OpenEntry, OpenLink, CreateDocument, Rename, Move, Relocates, Trash,
     Save, CloseSaving, Close, Reload, RefreshWorkspace, Edit, PersonLeaves, Replies, ReplyLeaves,
     Loaded, InspectionFindsAChange, Writes, Written, Saved, GoesOn, LinkRead, Created, Reloaded,
     Remapped, Trashed, Refreshed, Watcher, NoticeSuppressed, NoticeOfChange, HalfGone, HalfThere,
     Paired, PairedTooLate, HalfAlone, HalfTimesOut, Deliver, WriteForgotten, WatcherLeaves,
     Others, OthersWrite, OthersCreate, OthersRemove, OthersRename, OthersMoveOut, OthersMoveIn,
     OthersDo, sent
<1> SUFFICES ASSUME races \cap {"meet", "overtake", "repeat"} = {}
             PROVE  ShowInv'
  BY <1>2 DEF ShowHolds
<1>3. "meet" \notin races /\ races \cap {"overtake", "repeat"} = {} /\ ShowInv
  BY DEF ShowHolds
<1>4. DiskKnown
  BY <1>3 DEF DiskKnown, ShowInv
<1>5. ScreenStands
  BY DEF ScreenStands, AreScans, IsScan, ActiveIsOpen, TypesInv, ScreenTyped, AreTyped
<1>6. CASE Person
  <2>1. events' = events /\ retained' = retained
    BY <1>6 DEF Person, OpenEntry, OpenLink, CreateDocument, Rename, Move, Relocates, Trash, Save,
     CloseSaving, Close, Reload, RefreshWorkspace, Edit, PersonLeaves, sent
  <2> QED BY <1>3, <1>4, <1>5, <1>6, <2>1, PersonTold, ScreenOfPerson, TreeIsKept, ToldShows
<1>7. CASE Replies
  <2>1. events' = events /\ (Refreshed \/ retained' = retained)
    BY <1>7 DEF Replies, ReplyLeaves, Loaded, InspectionFindsAChange, Writes, Written,
     Saved, GoesOn, LinkRead, Created, Reloaded, Remapped, Trashed, Refreshed, sent
  <2>2. ScreenMoves
    BY <1>5, <1>7, ScreenOfReplies
  <2>3. KeepsTheTree
    BY <2>1, <2>2, TreeIsKept, RefreshedTree
  <2> QED BY <1>3, <1>4, <1>7, <2>1, <2>2, <2>3, RepliesTold, ToldShows
<1>8. CASE Watcher
  BY <1>3, <1>8, WatcherShows
<1>9. CASE Others
  <2>1. events' = events /\ UNCHANGED screen /\ calls' = calls /\ retained' = retained
    BY <1>9 DEF Others, OthersWrite, OthersCreate, OthersRemove, OthersRename, OthersMoveOut,
     OthersMoveIn, OthersDo, sent
  <2>2. AreScans(calls')
    BY <1>5, <2>1 DEF ScreenStands
  <2>3. ScreenMoves
    BY <1>5, <2>1, <2>2, SameScreenMoves
  <2> QED BY <1>3, <1>4, <1>9, <2>1, <2>3, OthersTold, TreeIsKept, ToldShows
<1>10. CASE UNCHANGED vars
  <2>1. /\ disk' = disk /\ expected' = expected /\ notices' = notices /\ pending' = pending
        /\ events' = events /\ UNCHANGED screen /\ calls' = calls /\ retained' = retained
    BY <1>10 DEF vars, watcher, counts, sent
  <2>2. DiskTold
    BY <1>3, <2>1, SilentStep DEF ShowInv
  <2>3. AreScans(calls')
    BY <1>5, <2>1 DEF ScreenStands
  <2>4. ScreenMoves
    BY <1>5, <2>1, <2>3, SameScreenMoves
  <2> QED BY <1>3, <2>1, <2>2, <2>4, TreeIsKept, ToldShows
<1> QED BY <1>6, <1>7, <1>8, <1>9, <1>10 DEF Next

LEMMA InitShows == Init => ShowHolds
<1> SUFFICES ASSUME Init PROVE ShowHolds
  OBVIOUS
<1>1. /\ disk = FirstDisk /\ tree = FirstDisk /\ docs = <<>> /\ calls = <<>> /\ notices = <<>>
      /\ events = <<>> /\ pending = None
  BY DEF Init
<1>2. DOMAIN docs = {} /\ DOMAIN calls = {} /\ DOMAIN notices = {} /\ DOMAIN events = {}
  BY <1>1
<1>4. IsATree /\ FoldersHold
  BY <1>1, SessionsAssumption DEF IsATree, FoldersHold
<1>5. NewsInv /\ ToldGone
  BY <1>1, <1>2, ShortSeqs DEF NewsInv, ToldGone
<1>6. ViewsInv
  BY <1>1, <1>2 DEF ViewsInv, WillShow, ShownRight, Kind
<1> QED BY <1>2, <1>4, <1>5, <1>6 DEF ShowHolds, ShowInv

(***************************************************************************)
(* Where nothing is done to a path while news of it are on their way, no   *)
(* event overtakes a scan, and an event is dropped only when the last one  *)
(* on its way says the same, whatever the tree, a scan or an event shows   *)
(* otherwise than the disk has it is still to be told, unless a removal    *)
(* left it in the tree for what was not saved.                             *)
(***************************************************************************)
THEOREM WhatIsWrongIsToCome == Spec => []ShowHolds
<1>1. TypesInv /\ SessionsInv /\ ShowHolds /\ [Next]_vars => ShowHolds'
  BY ShowStep
<1>2. TypesInv /\ SessionsInv /\ [Next]_vars => TypesInv'
  BY TypesStep
<1> QED BY InitShows, InitTypes, SessionsHold, <1>1, <1>2, PTL DEF Spec

(* The tree, kept by events, is what a new scan would find.                  *)
THEOREM TreeIsTrue == Spec => []TreeShowsTheDisk
<1>1. ShowHolds => TreeShowsTheDisk
  <2> SUFFICES ASSUME ShowHolds, Quiet, races \cap {"meet", "overtake", "repeat"} = {},
                      NEW p \in Path
               PROVE  ShownRight(tree, p) \/ Left(p)
    BY DEF TreeShowsTheDisk, ShownRight, Left
  <2>1. WillShow(tree, p, 0) \/ Left(p)
    BY DEF ShowHolds, ShowInv, ViewsInv
  <2>2. DOMAIN notices = {} /\ DOMAIN events = {} /\ pending = None
    BY DEF Quiet
  <2>3. ~Coming(p, 0)
    BY <2>2 DEF Coming, Noticed
  <2> QED BY <2>1, <2>3 DEF WillShow
<1> QED BY WhatIsWrongIsToCome, <1>1, PTL
=============================================================================
