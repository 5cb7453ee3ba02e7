------------------------ MODULE Thumbnails_proofs ------------------------
(***************************************************************************)
(* The thumbnails of the page organizer, for every set of pages and scenes *)
(* and every size of the cache: what is shown is current, and its images   *)
(* live exactly as long as the cache holds them.                           *)
(*                                                                         *)
(* Those of cameras follow: their safety, for any number of scenes and of  *)
(* runs of the hook's effect, under every scenario.                        *)
(***************************************************************************)
EXTENDS PageThumbnails, PreviewRenderer, FiniteSetTheorems, SequenceTheorems, TLAPS

(* Pages *)

Draft == [page : Page, key : Key]
Shown == [key : Key, status : {"loading", "ready", "empty", "error"}, url : Url \cup {None}]

Typed ==
    /\ mounted \in BOOLEAN /\ enabled \in BOOLEAN /\ paused \in BOOLEAN
    /\ DOMAIN pages \subseteq Page /\ pages \in [DOMAIN pages -> Key]
    /\ active \in DOMAIN pages
    /\ draft \in Draft /\ debounced \in Draft
    /\ demand \in Demands
    /\ stable \in Seq(Entries) /\ Len(stable) <= Capacity
    /\ transient \in Entries \cup {None}
    /\ live \subseteq Url
    /\ views \in [DOMAIN views -> Shown]
    /\ \A p \in DOMAIN views : views[p].status = "ready" <=> views[p].url # None
    /\ pending \in Seq(Jobs)
    /\ job \in Jobs \cup {None}
    /\ drain \in {"idle", "yielding", "rendering"}
    /\ drain = "rendering" <=> job # None

(* The cache has one image for a page, and its slot has an image of its own. *)
EntriesAreApart ==
    /\ \A i, j \in DOMAIN stable : stable[i].page = stable[j].page => i = j
    /\ transient # None => \A i \in DOMAIN stable : stable[i].url # transient.url

ImagesAreOwned == live = Urls(stable, transient)

(* What is to be rendered is asked for, and is rendered as it looks now.     *)
IsWanted(j) ==
    /\ j.fresh
    /\ j.page \in DOMAIN views
    /\ j.key = SceneKey(j.page, pages, active, debounced)
    /\ j.transient => j.page = active /\ debounced.page = active

JobsAreWanted ==
    /\ \A n \in DOMAIN pending : IsWanted(pending[n])
    /\ \A m, n \in DOMAIN pending : pending[m].page = pending[n].page => m = n
    /\ job # None /\ job.fresh => IsWanted(job)

ViewsAreFew == IsFiniteSet(DOMAIN views) /\ Cardinality(DOMAIN views) <= MaxDemand

(* An image on the screen is the one in the slot or one of the cache, and in *)
(* the cache only pages on the screen are more recent than one on the screen. *)
InSlot(p) ==
    /\ transient # None /\ transient.page = p /\ transient.url = views[p].url
    /\ p = active /\ debounced.page = active
ShownAt(p, i) == stable[i].page = p /\ stable[i].url = views[p].url

ShownIsHeld ==
    MaxDemand <= Capacity =>
        \A p \in DOMAIN views : views[p].status = "ready" =>
            InSlot(p) \/ \E i \in DOMAIN stable : ShownAt(p, i)
ShownIsRecent ==
    \A p \in DOMAIN views : \A i, j \in DOMAIN stable :
        ShownAt(p, i) /\ i <= j => stable[j].page \in DOMAIN views

ThumbInv ==
    /\ Typed
    /\ EntriesAreApart
    /\ ImagesAreOwned
    /\ JobsAreWanted
    /\ ViewsAreFew
    /\ ShownIsHeld
    /\ ShownIsRecent
    /\ ShownIsCurrent

-----------------------------------------------------------------------------
(* Sequences *)

(* The positions in at, in their order.                                      *)
Position(at) ==
    [n \in 1 .. Cardinality(at) |-> CHOOSE i \in at : Cardinality({j \in at : j <= i}) = n]

LEMMA OnlyKeepsOrder ==
    ASSUME NEW X, NEW s \in Seq(X), NEW at \in SUBSET (1 .. Len(s))
    PROVE  /\ Cardinality(at) \in Nat
           /\ Only(s, at) \in Seq(X)
           /\ Len(Only(s, at)) = Cardinality(at)
           /\ Position(at) \in [1 .. Cardinality(at) -> at]
           /\ \A n \in 1 .. Cardinality(at) : Only(s, at)[n] = s[Position(at)[n]]
           /\ \A m, n \in 1 .. Cardinality(at) : m < n => Position(at)[m] < Position(at)[n]
           /\ \A i \in at : \E n \in 1 .. Cardinality(at) : Position(at)[n] = i
<1> DEFINE C == Cardinality(at)
           below(i) == {j \in at : j <= i}
           rank == [i \in at |-> Cardinality(below(i))]
           pos == [n \in 1 .. C |-> CHOOSE i \in at : Cardinality(below(i)) = n]
<1>0. \A i \in at : i \in Nat
  OBVIOUS
<1>1. IsFiniteSet(at) /\ C \in Nat
  <2>1. Len(s) \in Nat /\ IsFiniteSet(1 .. Len(s))
    BY FS_Interval
  <2> QED BY <2>1, FS_Subset, FS_CardinalityType
<1>2. \A i \in at : IsFiniteSet(below(i)) /\ Cardinality(below(i)) \in 1 .. C
  <2> SUFFICES ASSUME NEW i \in at
               PROVE  IsFiniteSet(below(i)) /\ Cardinality(below(i)) \in 1 .. C
    OBVIOUS
  <2>1. IsFiniteSet(below(i)) /\ Cardinality(below(i)) <= C
    BY <1>1, FS_Subset
  <2>2. i \in below(i)
    OBVIOUS
  <2>3. Cardinality(below(i)) \in Nat /\ Cardinality(below(i)) # 0
    BY <2>1, <2>2, FS_CardinalityType, FS_EmptySet
  <2> QED BY <1>1, <2>1, <2>3
<1>3. \A i, j \in at : i < j => Cardinality(below(i)) < Cardinality(below(j))
  <2> SUFFICES ASSUME NEW i \in at, NEW j \in at, i < j
               PROVE  Cardinality(below(i)) < Cardinality(below(j))
    OBVIOUS
  <2>0. i \in Nat /\ j \in Nat
    BY <1>0
  <2>1. below(i) \in SUBSET below(j) /\ j \in below(j) /\ j \notin below(i)
    <3>1. ASSUME NEW k \in below(i) PROVE k \in below(j)
      BY <1>0, <2>0
    <3>2. j \in below(j) /\ j \notin below(i)
      BY <2>0
    <3> QED BY <3>1, <3>2
  <2>. HIDE DEF below
  <2>2. /\ Cardinality(below(i)) <= Cardinality(below(j))
        /\ Cardinality(below(j)) = Cardinality(below(i)) => below(j) = below(i)
    BY <1>2, <2>1, FS_Subset
  <2> QED BY <1>1, <1>2, <2>1, <2>2
<1>4. rank \in Bijection(at, 1 .. C)
  <2>1. rank \in [at -> 1 .. C]
    BY <1>2
  <2>2. \A i, j \in at : rank[i] = rank[j] => i = j
    <3> SUFFICES ASSUME NEW i \in at, NEW j \in at, i # j
                 PROVE  Cardinality(below(i)) # Cardinality(below(j))
      OBVIOUS
    <3>1. i \in Nat /\ j \in Nat /\ (i < j \/ j < i)
      BY <1>0
    <3> HIDE DEF below
    <3>2. Cardinality(below(i)) \in 1 .. C /\ Cardinality(below(j)) \in 1 .. C
      BY <1>2
    <3> QED BY <1>1, <1>3, <3>1, <3>2
  <2> HIDE DEF rank
  <2>3. rank \in Injection(at, 1 .. C)
    BY <2>1, <2>2 DEF Injection, IsInjective
  <2>4. IsFiniteSet(1 .. C) /\ Cardinality(1 .. C) = C
    BY <1>1, FS_Interval
  <2>5. rank \in Surjection(at, 1 .. C)
    BY <2>3, <2>4, FS_Injection
  <2> QED BY <2>3, <2>5 DEF Bijection
<1>5. \A n \in 1 .. C : \E i \in at : Cardinality(below(i)) = n
  BY <1>4 DEF Bijection, Surjection
<1>6. \A n \in 1 .. C : pos[n] \in at /\ Cardinality(below(pos[n])) = n
  BY <1>5
<1>7. pos \in [1 .. C -> at]
  BY <1>6
<1>8. \A m, n \in 1 .. C : m < n => pos[m] < pos[n]
  <2> SUFFICES ASSUME NEW m \in 1 .. C, NEW n \in 1 .. C, m < n, ~(pos[m] < pos[n])
               PROVE  FALSE
    OBVIOUS
  <2> HIDE DEF pos, below
  <2>1. pos[m] \in Nat /\ pos[n] \in Nat
    BY <1>0, <1>7
  <2>2. pos[m] # pos[n]
    BY <1>1, <1>6
  <2>3. Cardinality(below(pos[n])) < Cardinality(below(pos[m]))
    BY <1>3, <1>6, <2>1, <2>2
  <2> QED BY <1>1, <1>6, <2>3
<1>9. \A i \in at : \E n \in 1 .. C : pos[n] = i
  <2> SUFFICES ASSUME NEW i \in at
               PROVE  \E n \in 1 .. C : pos[n] = i
    OBVIOUS
  <2>1. Cardinality(below(i)) \in 1 .. C
    BY <1>2
  <2>2. rank[pos[Cardinality(below(i))]] = rank[i]
    BY <1>6, <2>1
  <2> HIDE DEF rank, pos
  <2> QED BY <1>4, <1>7, <2>1, <2>2 DEF Bijection, Injection, IsInjective
<1>10. Only(s, at) = [n \in 1 .. C |-> s[pos[n]]]
  BY DEF Only
<1> HIDE DEF pos
<1>11. \A n \in 1 .. C : s[pos[n]] \in X
  <2>1. \A n \in 1 .. C : pos[n] \in 1 .. Len(s)
    BY <1>7
  <2> QED BY <2>1
<1>12. /\ Only(s, at) \in Seq(X)
       /\ Len(Only(s, at)) = C
       /\ \A n \in 1 .. C : Only(s, at)[n] = s[pos[n]]
  BY <1>1, <1>10, <1>11
<1> QED BY <1>1, <1>7, <1>8, <1>9, <1>12 DEF pos, Position

LEMMA OnlyKeepsOnce ==
    ASSUME NEW X, NEW s \in Seq(X), NEW at \in SUBSET (1 .. Len(s)),
           \A i, j \in DOMAIN s : s[i] = s[j] => i = j
    PROVE  /\ Only(s, at) \in Seq(X)
           /\ DOMAIN Only(s, at) = 1 .. Len(Only(s, at)) /\ Len(Only(s, at)) \in Nat
           /\ \A n \in DOMAIN Only(s, at) : \E i \in at : Only(s, at)[n] = s[i]
           /\ \A i \in at : \E n \in DOMAIN Only(s, at) : Only(s, at)[n] = s[i]
           /\ \A m, n \in DOMAIN Only(s, at) : Only(s, at)[m] = Only(s, at)[n] => m = n
<1> DEFINE C == Cardinality(at)
           only == Only(s, at)
<1>0. \A i \in at : i \in DOMAIN s /\ i \in Nat
  OBVIOUS
<1>1. C \in Nat /\ only \in Seq(X) /\ Len(only) = C
  BY OnlyKeepsOrder
<1>2. PICK pos \in [1 .. C -> at] :
         /\ \A n \in 1 .. C : only[n] = s[pos[n]]
         /\ \A m, n \in 1 .. C : m < n => pos[m] < pos[n]
         /\ \A i \in at : \E n \in 1 .. C : pos[n] = i
  BY SMTT(20), OnlyKeepsOrder
<1> HIDE DEF only, C
<1>3. DOMAIN only = 1 .. C
  BY <1>1
<1>4. ASSUME NEW m \in 1 .. C, NEW n \in 1 .. C, only[m] = only[n]
      PROVE  m = n
  <2>1. pos[m] \in at /\ pos[n] \in at
    OBVIOUS
  <2>2. pos[m] = pos[n] /\ pos[m] \in Nat /\ pos[n] \in Nat
    <3>1. only[m] = s[pos[m]] /\ only[n] = s[pos[n]]
      BY <1>2
    <3>2. pos[m] \in DOMAIN s /\ pos[n] \in DOMAIN s
      BY <1>0, <2>1
    <3>3. s[pos[m]] = s[pos[n]]
      BY <1>4, <3>1
    <3>4. pos[m] = pos[n]
      BY <3>2, <3>3
    <3>5. pos[m] \in Nat /\ pos[n] \in Nat
      BY <1>0, <2>1
    <3> QED BY <3>4, <3>5
  <2>3. ~(m < n) /\ ~(n < m) /\ m \in Nat /\ n \in Nat
    BY <1>1, <1>2, <2>2
  <2> QED BY <2>3
<1>5. /\ DOMAIN only = 1 .. Len(only) /\ Len(only) \in Nat
      /\ \A n \in DOMAIN only : \E i \in at : only[n] = s[i]
      /\ \A i \in at : \E n \in DOMAIN only : only[n] = s[i]
      /\ \A m, n \in DOMAIN only : only[m] = only[n] => m = n
  <2>1. ASSUME NEW n \in 1 .. C PROVE \E i \in at : only[n] = s[i]
    <3>1. pos[n] \in at /\ only[n] = s[pos[n]]
      BY <1>2
    <3> QED BY <3>1
  <2>2. ASSUME NEW i \in at PROVE \E n \in 1 .. C : only[n] = s[i]
    <3>1. PICK n \in 1 .. C : pos[n] = i
      BY <1>2
    <3> QED BY <1>2, <3>1
  <2> QED BY <1>1, <1>3, <1>4, <2>1, <2>2
<1> QED BY <1>1, <1>5 DEF only

LEMMA ImageIsSmall ==
    ASSUME NEW S, IsFiniteSet(S), NEW f, NEW T, T = {f[x] : x \in S}
    PROVE  IsFiniteSet(T) /\ Cardinality(T) \in Nat /\ Cardinality(T) <= Cardinality(S)
<1> DEFINE g == [x \in S |-> f[x]]
<1>1. g \in Surjection(S, T)
  <2>1. g \in [S -> T]
    OBVIOUS
  <2>2. \A t \in T : \E x \in S : g[x] = t
    OBVIOUS
  <2> QED BY <2>1, <2>2 DEF Surjection
<1> HIDE DEF g
<1> QED BY <1>1, FS_Surjection, FS_CardinalityType

-----------------------------------------------------------------------------
(* The images of the cache *)

LEMMA NewUrlIsFree ==
    ASSUME Typed, ImagesAreOwned, ViewsAreFew
    PROVE  NewUrl \in Url /\ NewUrl \notin live /\ \A p \in DOMAIN views : views[p].url # NewUrl
<1> DEFINE A == {stable[i].url : i \in DOMAIN stable}
           B == IF transient = None THEN {} ELSE {transient.url}
           V == {views[p].url : p \in DOMAIN views}
<1>1. IsFiniteSet(A) /\ Cardinality(A) \in Nat /\ Cardinality(A) <= Capacity
  <2> DEFINE f == [i \in DOMAIN stable |-> stable[i].url]
  <2>1. DOMAIN stable = 1 .. Len(stable) /\ Len(stable) \in Nat /\ Len(stable) <= Capacity
    BY DEF Typed
  <2>2. IsFiniteSet(DOMAIN stable) /\ Cardinality(DOMAIN stable) = Len(stable)
    <3>1. PICK n \in Nat : n = Len(stable)
      BY <2>1
    <3>2. IsFiniteSet(1 .. n) /\ Cardinality(1 .. n) = n
      BY FS_Interval
    <3> QED BY <2>1, <3>1, <3>2
  <2>3. A = {f[i] : i \in DOMAIN stable}
    OBVIOUS
  <2> HIDE DEF A, f
  <2>4. IsFiniteSet(A) /\ Cardinality(A) \in Nat /\ Cardinality(A) <= Cardinality(DOMAIN stable)
    BY <2>2, <2>3, ImageIsSmall
  <2> QED BY <2>1, <2>2, <2>4, ThumbnailAssumption
<1>2. IsFiniteSet(B) /\ Cardinality(B) \in Nat /\ Cardinality(B) <= 1
  <2>1. CASE transient = None
    BY <2>1, FS_EmptySet
  <2>2. CASE transient # None
    <3>1. B = {transient.url}
      BY <2>2
    <3> HIDE DEF B
    <3>2. IsFiniteSet(B) /\ Cardinality(B) = 1
      BY <3>1, FS_Singleton
    <3> QED BY <3>2
  <2> QED BY <2>1, <2>2
<1>3. IsFiniteSet(V) /\ Cardinality(V) \in Nat /\ Cardinality(V) <= MaxDemand
  <2> DEFINE f == [p \in DOMAIN views |-> views[p].url]
  <2>1. V = {f[p] : p \in DOMAIN views}
    OBVIOUS
  <2> HIDE DEF V, f
  <2>2. IsFiniteSet(V) /\ Cardinality(V) \in Nat /\ Cardinality(V) <= Cardinality(DOMAIN views)
    BY <2>1, ImageIsSmall DEF ViewsAreFew
  <2>3. Cardinality(DOMAIN views) \in Nat
    BY FS_CardinalityType DEF ViewsAreFew
  <2> QED BY <2>2, <2>3, ThumbnailAssumption DEF ViewsAreFew
<1>4. live = A \cup B
  BY DEF ImagesAreOwned, Urls
<1> HIDE DEF A, B, V
<1>5. /\ IsFiniteSet(A \cup B \cup V)
      /\ Cardinality(A \cup B \cup V) \in Nat
      /\ Cardinality(A \cup B \cup V) <= Capacity + 1 + MaxDemand
  <2>1. /\ IsFiniteSet(A \cup B) /\ IsFiniteSet(A \cap B)
        /\ Cardinality(A \cup B) = Cardinality(A) + Cardinality(B) - Cardinality(A \cap B)
    BY <1>1, <1>2, FS_Union, FS_Intersection
  <2>2. Cardinality(A \cup B) \in Nat /\ Cardinality(A \cap B) \in Nat
    BY <2>1, FS_CardinalityType
  <2>3. /\ IsFiniteSet((A \cup B) \cup V) /\ IsFiniteSet((A \cup B) \cap V)
        /\ Cardinality((A \cup B) \cup V) =
              Cardinality(A \cup B) + Cardinality(V) - Cardinality((A \cup B) \cap V)
    BY <1>3, <2>1, FS_Union, FS_Intersection
  <2>4. Cardinality((A \cup B) \cup V) \in Nat /\ Cardinality((A \cup B) \cap V) \in Nat
    BY <2>3, FS_CardinalityType
  <2> QED BY <1>1, <1>2, <1>3, <2>1, <2>2, <2>3, <2>4, ThumbnailAssumption
<1>6. \E u \in Url : u \notin A \cup B \cup V
  <2> SUFFICES ASSUME \A u \in Url : u \in A \cup B \cup V
               PROVE  FALSE
    OBVIOUS
  <2>1. Url \in SUBSET (A \cup B \cup V)
    OBVIOUS
  <2>2. IsFiniteSet(Url) /\ Cardinality(Url) <= Cardinality(A \cup B \cup V)
    BY <1>5, <2>1, FS_Subset
  <2>3. Cardinality(Url) \in Nat
    BY <2>2, FS_CardinalityType
  <2> QED BY <1>5, <2>2, <2>3, ThumbnailAssumption
<1>7. \E u \in Url : u \notin live /\ \A p \in DOMAIN views : views[p].url # u
  BY <1>4, <1>6 DEF V
<1> QED BY <1>7 DEF NewUrl

LEMMA DemandsAreFew ==
    ASSUME NEW d \in Demands
    PROVE  /\ d \in Seq(Page)
           /\ \A i, j \in 1 .. Len(d) : d[i] = d[j] => i = j
           /\ IsFiniteSet({d[i] : i \in 1 .. Len(d)})
           /\ Cardinality({d[i] : i \in 1 .. Len(d)}) \in Nat
           /\ Cardinality({d[i] : i \in 1 .. Len(d)}) <= MaxDemand
<1>1. PICK n \in 0 .. MaxDemand : d \in [1 .. n -> Page]
  BY DEF Demands
<1>2. n \in Nat /\ n <= MaxDemand
  BY ThumbnailAssumption
<1>3. d \in Seq(Page) /\ Len(d) = n /\ DOMAIN d = 1 .. n
  BY <1>1, <1>2
<1>4. IsFiniteSet(1 .. n) /\ Cardinality(1 .. n) = n
  BY <1>2, FS_Interval
<1> DEFINE T == {d[i] : i \in 1 .. Len(d)}
<1>5. T = {d[i] : i \in 1 .. n}
  BY <1>3
<1> HIDE DEF T
<1>6. IsFiniteSet(T) /\ Cardinality(T) \in Nat /\ Cardinality(T) <= Cardinality(1 .. n)
  BY <1>4, <1>5, ImageIsSmall
<1>7. Cardinality(T) <= MaxDemand
  BY <1>2, <1>4, <1>6, ThumbnailAssumption
<1>8. \A i, j \in 1 .. Len(d) : d[i] = d[j] => i = j
  BY <1>3 DEF Demands
<1> QED BY <1>3, <1>6, <1>7, <1>8 DEF T

-----------------------------------------------------------------------------
(* The effects of the hook *)

(* Whatever the props become, the hook's effects leave images that are owned *)
(* and current, and jobs for what is missing.                                *)
LEMMA EffectsKeepImages ==
    ASSUME Typed, EntriesAreApart, ImagesAreOwned,
           NEW ps, DOMAIN ps \subseteq Page, ps \in [DOMAIN ps -> Key],
           NEW act \in DOMAIN ps, NEW deb \in Draft, NEW asks \in Demands, NEW on \in BOOLEAN,
           Effects(ps, act, deb, asks, on),
           pages' = ps, active' = act, debounced' = deb, demand' = asks, enabled' = on,
           draft' \in Draft, UNCHANGED <<mounted, paused>>
    PROVE  ThumbInv'
<1> DEFINE asked == IF on THEN {asks[i] : i \in DOMAIN asks} \cap DOMAIN ps ELSE {}
           scene == [p \in asked |-> SceneKey(p, ps, act, deb)]
           slot == IF transient # None /\ transient.page \in DOMAIN ps /\ transient.page = act
                     THEN transient ELSE None
           inSlot == {p \in asked : deb.page = p /\ slot # None /\ slot.page = p
                                       /\ slot.key = scene[p]}
           found == {p \in asked \ inSlot :
                       \E i \in DOMAIN stable : stable[i].page = p /\ stable[i].key = scene[p]}
           missing == asked \ (inSlot \cup found)
           entryOf(p) == stable[CHOOSE i \in DOMAIN stable : stable[i].page = p]
           jobOf(p) == [page |-> p, key |-> scene[p],
                        transient |-> p = act /\ deb.page = act, fresh |-> TRUE]
           untouched == {i \in DOMAIN stable :
                           stable[i].page \in DOMAIN ps \ (asked \ inSlot)}
           usedAt == {i \in DOMAIN asks : asks[i] \in found}
           queuedAt == {i \in DOMAIN asks : asks[i] \in missing}
           rest == Only(stable, untouched)
           used == Only(asks, usedAt)
           queued == Only(asks, queuedAt)
           recent == [n \in DOMAIN used |-> entryOf(used[n])]
<1>1. /\ stable' = rest \o recent
      /\ transient' = slot
      /\ live' = live \ (Urls(stable, transient) \ Urls(stable', transient'))
      /\ views' = [p \in asked |->
                     IF p \in inSlot THEN View(scene[p], "ready", slot.url)
                     ELSE IF p \in found THEN View(scene[p], "ready", entryOf(p).url)
                     ELSE View(scene[p], "loading", None)]
      /\ pending' = [n \in DOMAIN queued |-> jobOf(queued[n])]
      /\ job' = Stale
      /\ drain' = Drains(pending', paused \/ ~on)
  BY DEF Effects
<1>2. /\ stable \in Seq(Entries) /\ DOMAIN stable = 1 .. Len(stable) /\ Len(stable) \in Nat
      /\ \A i \in DOMAIN stable : stable[i] \in Entries
  BY DEF Typed
<1>3. /\ asks \in Seq(Page) /\ DOMAIN asks = 1 .. Len(asks)
      /\ \A i, j \in DOMAIN asks : asks[i] = asks[j] => i = j
  <2>1. asks \in Seq(Page) /\ \A i, j \in 1 .. Len(asks) : asks[i] = asks[j] => i = j
    BY DemandsAreFew
  <2> QED BY <2>1
<1>4. /\ asked \subseteq DOMAIN ps /\ asked \subseteq Page
      /\ \A p \in asked : \E i \in DOMAIN asks : asks[i] = p
      /\ \A p \in asked : scene[p] \in Key
  BY DEF SceneKey, Draft
<1>5. IsFiniteSet(asked) /\ Cardinality(asked) <= MaxDemand
  <2> DEFINE T == {asks[i] : i \in 1 .. Len(asks)}
  <2>1. IsFiniteSet(T) /\ Cardinality(T) \in Nat /\ Cardinality(T) <= MaxDemand
    BY DemandsAreFew
  <2>2. asked \in SUBSET T
    BY <1>3
  <2> HIDE DEF asked, T
  <2>3. IsFiniteSet(asked) /\ Cardinality(asked) <= Cardinality(T)
    BY <2>1, <2>2, FS_Subset
  <2>4. Cardinality(asked) \in Nat
    BY <2>3, FS_CardinalityType
  <2> QED BY <2>1, <2>3, <2>4, ThumbnailAssumption
<1>6. slot \in Entries \cup {None} /\ (slot # None => slot = transient /\ slot.page = act)
  BY DEF Typed
<1>7. \A p \in found : \E i \in DOMAIN stable : entryOf(p) = stable[i] /\ stable[i].page = p
  OBVIOUS
<1>8. /\ inSlot \subseteq asked /\ found \subseteq asked \ inSlot
      /\ \A p \in inSlot : slot # None /\ slot.page = p /\ deb.page = p
  OBVIOUS
<1>9. usedAt \in SUBSET (1 .. Len(asks)) /\ queuedAt \in SUBSET (1 .. Len(asks))
      /\ untouched \in SUBSET (1 .. Len(stable))
  BY <1>2, <1>3
<1> HIDE DEF asked, scene, slot, inSlot, entryOf
<1>10. /\ used \in Seq(Page) /\ DOMAIN used = 1 .. Len(used) /\ Len(used) \in Nat
       /\ \A n \in DOMAIN used : used[n] \in found
       /\ \A m, n \in DOMAIN used : used[m] = used[n] => m = n
       /\ \A p \in found : \E n \in DOMAIN used : used[n] = p
  <2>1. /\ \A i \in usedAt : i \in DOMAIN asks /\ asks[i] \in found
        /\ \A p \in found : \E i \in usedAt : asks[i] = p
    BY <1>4, <1>8
  <2> HIDE DEF usedAt, found
  <2>2. /\ used \in Seq(Page) /\ DOMAIN used = 1 .. Len(used) /\ Len(used) \in Nat
        /\ \A n \in DOMAIN used : \E i \in usedAt : used[n] = asks[i]
        /\ \A i \in usedAt : \E n \in DOMAIN used : used[n] = asks[i]
        /\ \A m, n \in DOMAIN used : used[m] = used[n] => m = n
    BY <1>3, <1>9, OnlyKeepsOnce
  <2> HIDE DEF used
  <2> QED BY <2>1, <2>2
<1>11. /\ queued \in Seq(Page) /\ DOMAIN queued = 1 .. Len(queued) /\ Len(queued) \in Nat
       /\ \A n \in DOMAIN queued : queued[n] \in missing
       /\ \A m, n \in DOMAIN queued : queued[m] = queued[n] => m = n
  <2>1. \A i \in queuedAt : i \in DOMAIN asks /\ asks[i] \in missing
    OBVIOUS
  <2> HIDE DEF queuedAt, missing
  <2>2. /\ queued \in Seq(Page) /\ DOMAIN queued = 1 .. Len(queued) /\ Len(queued) \in Nat
        /\ \A n \in DOMAIN queued : \E i \in queuedAt : queued[n] = asks[i]
        /\ \A m, n \in DOMAIN queued : queued[m] = queued[n] => m = n
    BY <1>3, <1>9, OnlyKeepsOnce
  <2> HIDE DEF queued
  <2> QED BY <2>1, <2>2
<1>12. /\ rest \in Seq(Entries) /\ Len(rest) \in Nat
       /\ \A n \in 1 .. Len(rest) : \E i \in untouched : rest[n] = stable[i]
       /\ \A m, n \in 1 .. Len(rest) : rest[m].page = rest[n].page => m = n
  <2>1. \A i, j \in DOMAIN stable : stable[i] = stable[j] => i = j
    BY DEF EntriesAreApart
  <2>2. \A i \in untouched : i \in DOMAIN stable
    OBVIOUS
  <2> HIDE DEF untouched
  <2>3. /\ rest \in Seq(Entries) /\ DOMAIN rest = 1 .. Len(rest) /\ Len(rest) \in Nat
        /\ \A n \in DOMAIN rest : \E i \in untouched : rest[n] = stable[i]
        /\ \A m, n \in DOMAIN rest : rest[m] = rest[n] => m = n
    BY <1>2, <1>9, <2>1, OnlyKeepsOnce
  <2> HIDE DEF rest
  <2>4. ASSUME NEW m \in DOMAIN rest, NEW n \in DOMAIN rest, rest[m].page = rest[n].page
        PROVE  m = n
    <3>1. PICK i \in untouched, j \in untouched : rest[m] = stable[i] /\ rest[n] = stable[j]
      BY <2>3
    <3>2. i = j
      BY <2>2, <2>4, <3>1 DEF EntriesAreApart
    <3> QED BY <2>3, <3>1, <3>2
  <2> QED BY <2>3, <2>4
<1> HIDE DEF used, rest, queued
<1>13. /\ recent \in Seq(Entries) /\ Len(recent) = Len(used)
       /\ \A n \in 1 .. Len(used) :
            recent[n] = entryOf(used[n]) /\ recent[n].page = used[n] /\ used[n] \in found
       /\ \A n \in 1 .. Len(used) : \E i \in DOMAIN stable : recent[n] = stable[i]
  <2>1. \A n \in 1 .. Len(used) : /\ used[n] \in found
                                  /\ \E i \in DOMAIN stable :
                                       entryOf(used[n]) = stable[i] /\ stable[i].page = used[n]
    BY <1>7, <1>10
  <2>2. recent \in [1 .. Len(used) -> Entries]
    BY <1>2, <1>10, <2>1
  <2>3. \A n \in 1 .. Len(used) : recent[n] = entryOf(used[n])
    BY <1>10
  <2> HIDE DEF recent
  <2>4. recent \in Seq(Entries) /\ Len(recent) = Len(used)
    BY <1>10, <2>2
  <2> QED BY <2>1, <2>3, <2>4
<1> HIDE DEF recent
<1> DEFINE L == Len(rest)
           M == Len(used)
<1>14. /\ stable' \in Seq(Entries) /\ Len(stable') = L + M /\ DOMAIN stable' = 1 .. L + M
       /\ L \in Nat /\ M \in Nat
       /\ \A n \in 1 .. L : stable'[n] = rest[n]
       /\ \A n \in 1 .. M : stable'[L + n] = recent[n]
       /\ \A n \in 1 .. L + M : \/ n \in 1 .. L /\ stable'[n] = rest[n]
                                \/ n - L \in 1 .. M /\ n > L /\ stable'[n] = recent[n - L]
  <2>1. /\ rest \o recent \in Seq(Entries) /\ Len(rest \o recent) = Len(rest) + Len(recent)
        /\ \A n \in 1 .. Len(rest) + Len(recent) : (rest \o recent)[n] =
              IF n <= Len(rest) THEN rest[n] ELSE recent[n - Len(rest)]
    <3>1. rest \in Seq(Entries) /\ recent \in Seq(Entries)
      BY <1>12, <1>13
    <3> QED BY <3>1, ConcatProperties
  <2>2. /\ stable' \in Seq(Entries) /\ Len(stable') = L + M /\ L \in Nat /\ M \in Nat
        /\ \A n \in 1 .. L + M : stable'[n] = IF n <= L THEN rest[n] ELSE recent[n - L]
    BY <1>1, <1>10, <1>12, <1>13, <2>1
  <2> HIDE DEF L, M
  <2>3. DOMAIN stable' = 1 .. L + M
    BY <2>2
  <2>4. ASSUME NEW n \in 1 .. M PROVE stable'[L + n] = recent[n]
    <3>1. L + n \in 1 .. L + M /\ ~(L + n <= L) /\ (L + n) - L = n
      BY <2>2
    <3> QED BY <2>2, <3>1
  <2>5. ASSUME NEW n \in 1 .. L PROVE stable'[n] = rest[n]
    BY <2>2
  <2>6. ASSUME NEW n \in 1 .. L + M
        PROVE  \/ n \in 1 .. L /\ stable'[n] = rest[n]
               \/ n - L \in 1 .. M /\ n > L /\ stable'[n] = recent[n - L]
    BY <2>2
  <2> QED BY <2>2, <2>3, <2>4, <2>5, <2>6
<1> HIDE DEF L, M
<1>15. \A n \in DOMAIN stable' :
          /\ stable'[n] \in Entries
          /\ \E i \in DOMAIN stable : stable'[n] = stable[i]
  <2>1. \A n \in 1 .. L : \E i \in DOMAIN stable : rest[n] = stable[i]
    BY <1>12, <1>9, <1>2 DEF L
  <2>2. \A n \in 1 .. M : \E i \in DOMAIN stable : recent[n] = stable[i]
    BY <1>13 DEF M
  <2>3. \A n \in 1 .. L + M : stable'[n] \in Entries
    BY <1>14
  <2> QED BY <1>14, <2>1, <2>2, <2>3
<1>16. /\ \A n \in 1 .. L : /\ rest[n].page \in DOMAIN ps \ (asked \ inSlot)
       /\ \A n \in 1 .. M : recent[n].page \in asked \ inSlot
  <2>1. ASSUME NEW n \in 1 .. L PROVE rest[n].page \in DOMAIN ps \ (asked \ inSlot)
    <3>1. PICK i \in untouched : rest[n] = stable[i]
      BY <1>12 DEF L
    <3> QED BY <3>1
  <2>2. \A n \in 1 .. M : recent[n].page \in found
    BY <1>13 DEF M
  <2> QED BY <1>8, <2>1, <2>2
<1>17. \A i, j \in DOMAIN stable' : stable'[i].page = stable'[j].page => i = j
  <2> SUFFICES ASSUME NEW i \in 1 .. L + M, NEW j \in 1 .. L + M,
                      stable'[i].page = stable'[j].page
               PROVE  i = j
    BY <1>14
  <2>1. CASE i \in 1 .. L /\ j \in 1 .. L
    BY <1>12, <1>14, <2>1 DEF L
  <2>2. CASE i \in 1 .. L /\ j \notin 1 .. L
    BY <1>14, <1>16, <2>2
  <2>3. CASE i \notin 1 .. L /\ j \in 1 .. L
    BY <1>14, <1>16, <2>3
  <2>4. CASE i \notin 1 .. L /\ j \notin 1 .. L
    <3>1. /\ i - L \in 1 .. M /\ j - L \in 1 .. M
          /\ stable'[i] = recent[i - L] /\ stable'[j] = recent[j - L]
      BY <1>14, <2>4
    <3>2. i - L = j - L
      BY <1>10, <1>13, <3>1 DEF M
    <3> QED BY <1>14, <3>2
  <2> QED BY <2>1, <2>2, <2>3, <2>4
<1>18. Len(stable') <= Capacity
  <2> DEFINE g == [n \in 1 .. L + M |-> CHOOSE i \in DOMAIN stable : stable'[n] = stable[i]]
  <2>1. g \in [1 .. L + M -> 1 .. Len(stable)] /\ \A n \in 1 .. L + M : stable'[n] = stable[g[n]]
    BY <1>2, <1>14, <1>15
  <2> HIDE DEF g
  <2>2. ASSUME NEW m \in 1 .. L + M, NEW n \in 1 .. L + M, g[m] = g[n]
        PROVE  m = n
    <3>1. stable'[m] = stable'[n]
      BY <2>1, <2>2
    <3> QED BY <1>14, <1>17, <3>1
  <2>3. g \in Injection(1 .. L + M, 1 .. Len(stable))
    BY <2>1, <2>2 DEF Injection, IsInjective
  <2>4. PICK a \in Nat, b \in Nat : a = L + M /\ b = Len(stable)
    BY <1>2, <1>14
  <2>5. /\ IsFiniteSet(1 .. b) /\ Cardinality(1 .. b) = b
        /\ Cardinality(1 .. a) = a
    BY FS_Interval
  <2>6. Cardinality(1 .. a) <= Cardinality(1 .. b)
    BY <2>3, <2>4, <2>5, FS_Injection
  <2>7. L + M <= Len(stable)
    BY <2>4, <2>5, <2>6
  <2> QED BY <1>2, <1>14, <2>7, ThumbnailAssumption DEF Typed
<1>19. EntriesAreApart'
  <2>1. transient' # None => \A i \in DOMAIN stable' : stable'[i].url # transient'.url
    BY <1>1, <1>6, <1>15 DEF EntriesAreApart
  <2> QED BY <1>17, <2>1 DEF EntriesAreApart
<1>20. ImagesAreOwned'
  <2>1. \A u \in Urls(stable', transient') : u \in Urls(stable, transient)
    BY <1>1, <1>6, <1>15 DEF Urls
  <2>2. live' = Urls(stable, transient) \ (Urls(stable, transient) \ Urls(stable', transient'))
    BY <1>1 DEF ImagesAreOwned
  <2>3. live' = Urls(stable', transient')
    BY <2>1, <2>2
  <2> QED BY <2>3 DEF ImagesAreOwned
<1>21. /\ DOMAIN views' = asked
       /\ \A p \in asked : /\ views'[p] \in Shown /\ views'[p].key = scene[p]
                           /\ views'[p].status = "ready" <=> views'[p].url # None
                           /\ views'[p].status = "ready" => p \in inSlot \cup found
                           /\ p \in inSlot => views'[p].url = slot.url
                           /\ p \in found => views'[p].url = entryOf(p).url
  <2>1. DOMAIN views' = asked
    BY <1>1
  <2>2. ASSUME NEW p \in asked
        PROVE  /\ views'[p] \in Shown /\ views'[p].key = scene[p]
               /\ views'[p].status = "ready" <=> views'[p].url # None
               /\ views'[p].status = "ready" => p \in inSlot \cup found
               /\ p \in inSlot => views'[p].url = slot.url
               /\ p \in found => views'[p].url = entryOf(p).url
    <3>1. scene[p] \in Key
      BY <1>4
    <3>2. CASE p \in inSlot
      <4>1. views'[p] = View(scene[p], "ready", slot.url)
        BY <1>1, <3>2
      <4>2. slot.url \in Url /\ slot.url # None
        BY <1>6, <1>8, <3>2, ThumbnailAssumption DEF Entries
      <4>3. p \notin found
        BY <1>8, <3>2
      <4> QED BY <3>1, <3>2, <4>1, <4>2, <4>3 DEF View, Shown
    <3>3. CASE p \in found
      <4>1. p \notin inSlot
        BY <1>8, <3>3
      <4>2. views'[p] = View(scene[p], "ready", entryOf(p).url)
        BY <1>1, <3>3, <4>1
      <4>3. entryOf(p) \in Entries
        BY <1>2, <1>7, <3>3
      <4>4. entryOf(p).url \in Url /\ entryOf(p).url # None
        BY <4>3, ThumbnailAssumption DEF Entries
      <4> QED BY <3>1, <3>3, <4>1, <4>2, <4>4 DEF View, Shown
    <3>4. CASE p \notin inSlot /\ p \notin found
      <4>1. views'[p] = View(scene[p], "loading", None)
        BY <1>1, <3>4
      <4> QED BY <3>1, <3>4, <4>1 DEF View, Shown
    <3> QED BY <3>2, <3>3, <3>4
  <2> QED BY <2>1, <2>2
<1>22. /\ pending' \in Seq(Jobs) /\ DOMAIN pending' = DOMAIN queued
       /\ \A n \in DOMAIN queued :
            /\ pending'[n].page = queued[n] /\ pending'[n].key = scene[queued[n]]
            /\ pending'[n].fresh
            /\ pending'[n].transient => queued[n] = act /\ deb.page = act
  <2>1. \A n \in DOMAIN queued : queued[n] \in asked
    BY <1>11
  <2>2. \A n \in DOMAIN queued : jobOf(queued[n]) \in Jobs
    BY <1>4, <2>1 DEF Jobs
  <2>3. pending' = [n \in 1 .. Len(queued) |-> jobOf(queued[n])]
    BY <1>1, <1>11
  <2>4. pending' \in Seq(Jobs) /\ DOMAIN pending' = DOMAIN queued
    BY <1>11, <2>2, <2>3
  <2>5. \A n \in DOMAIN queued : pending'[n] = jobOf(queued[n])
    BY <1>11, <2>3
  <2>7. ASSUME NEW n \in DOMAIN queued
        PROVE  /\ pending'[n].page = queued[n] /\ pending'[n].key = scene[queued[n]]
               /\ pending'[n].fresh
               /\ pending'[n].transient => queued[n] = act /\ deb.page = act
    <3>1. pending'[n] = [page |-> queued[n], key |-> scene[queued[n]],
                         transient |-> queued[n] = act /\ deb.page = act, fresh |-> TRUE]
      BY <2>5
    <3>2. pending'[n].transient = (queued[n] = act /\ deb.page = act)
      BY ONLY <3>1
    <3>3. pending'[n].page = queued[n] /\ pending'[n].key = scene[queued[n]]
          /\ pending'[n].fresh = TRUE
      BY ONLY <3>1
    <3> QED BY ONLY <3>2, <3>3
  <2> QED BY <2>4, <2>7
<1>23. job' = Stale /\ job' \in Jobs \cup {None} /\ (job' # None <=> job # None)
       /\ (job' # None => ~job'.fresh)
  <2>1. CASE job = None
    BY <1>1, <2>1 DEF Stale
  <2>2. CASE job # None
    <3>1. job \in Jobs /\ job' = [job EXCEPT !.fresh = FALSE]
      BY <1>1, <2>2 DEF Stale, Typed
    <3>2. job' \in Jobs /\ ~job'.fresh
      BY <3>1 DEF Jobs
    <3> QED BY <1>1, <2>2, <3>2, ThumbnailAssumption
  <2> QED BY <2>1, <2>2
<1>24. drain' \in {"idle", "yielding", "rendering"} /\ (drain' = "rendering" <=> job' # None)
  BY <1>1, <1>23 DEF Drains, Typed
<1>25. Typed'
  <2>1. live' \subseteq Url
    BY <1>1 DEF Typed
  <2>2. views' \in [DOMAIN views' -> Shown]
    BY <1>1, <1>21
  <2>3. transient' \in Entries \cup {None}
    BY <1>1, <1>6
  <2>4. mounted' \in BOOLEAN /\ paused' \in BOOLEAN
    BY DEF Typed
  <2> QED BY <1>14, <1>18, <1>21, <1>22, <1>23, <1>24, <2>1, <2>2, <2>3, <2>4 DEF Typed
<1>26. ShownIsCurrent'
  BY <1>4, <1>21 DEF ShownIsCurrent, SceneKey, scene
<1>27. JobsAreWanted'
  <2>1. ASSUME NEW n \in DOMAIN pending' PROVE IsWanted(pending[n])'
    <3>1. queued[n] \in asked /\ n \in DOMAIN queued
      BY <1>11, <1>22, <2>1
    <3>2. scene[queued[n]] = SceneKey(queued[n], ps, act, deb)
      BY <3>1 DEF scene
    <3> QED BY <1>21, <1>22, <3>1, <3>2 DEF IsWanted, SceneKey
  <2>2. \A m, n \in DOMAIN pending' : pending'[m].page = pending'[n].page => m = n
    BY <1>11, <1>22
  <2> QED BY <1>23, <2>1, <2>2 DEF JobsAreWanted
<1>28. ViewsAreFew'
  BY <1>5, <1>21 DEF ViewsAreFew
<1>29. ShownIsHeld'
  <2> SUFFICES ASSUME NEW p \in asked, views'[p].status = "ready"
               PROVE  InSlot(p)' \/ \E i \in DOMAIN stable' : ShownAt(p, i)'
    BY <1>21 DEF ShownIsHeld
  <2>1. CASE p \in inSlot
    <3>1. slot # None /\ slot.page = p /\ deb.page = p /\ p = act /\ views'[p].url = slot.url
      BY <1>6, <1>8, <1>21, <2>1
    <3> QED BY <1>1, <3>1 DEF InSlot
  <2>2. CASE p \in found
    <3>1. PICK n \in 1 .. M : used[n] = p
      BY <1>10, <2>2 DEF M
    <3>2. recent[n] = entryOf(p) /\ recent[n].page = p
      BY <1>13, <3>1 DEF M
    <3>3. PICK k \in DOMAIN stable' : stable'[k] = recent[n]
      BY <1>14
    <3>4. ShownAt(p, k)'
      BY <1>21, <2>2, <3>2, <3>3 DEF ShownAt
    <3> QED BY <3>4
  <2> QED BY <1>21, <2>1, <2>2
<1>30. ShownIsRecent'
  <2> SUFFICES ASSUME NEW p \in asked, NEW i \in 1 .. L + M, NEW j \in 1 .. L + M, i <= j,
                      stable'[i].page = p, stable'[i].url = views'[p].url
               PROVE  stable'[j].page \in asked
    BY <1>14, <1>21 DEF ShownIsRecent, ShownAt
  <2>1. i \notin 1 .. L
    <3> SUFFICES ASSUME i \in 1 .. L PROVE FALSE
      OBVIOUS
    <3>1. p \in inSlot
      BY <1>14, <1>16
    <3>2. stable'[i].url = slot.url /\ slot # None
      BY <1>8, <1>21, <3>1
    <3> QED BY <1>1, <1>14, <1>19, <3>2 DEF EntriesAreApart
  <2>2. j \notin 1 .. L
    BY <1>14, <2>1
  <2>3. j - L \in 1 .. M /\ stable'[j] = recent[j - L]
    BY <1>14, <2>2
  <2> QED BY <1>16, <2>3
<1> QED BY <1>19, <1>20, <1>25, <1>26, <1>27, <1>28, <1>29, <1>30 DEF ThumbInv

-----------------------------------------------------------------------------
(* A picture is stored *)

(* An image of page P with the fresh URL u goes into the cache.              *)
LEMMA StoredStable ==
    ASSUME ThumbInv, job # None, job.fresh, NEW u \in Url, u \notin live,
           \A p \in DOMAIN views : views[p].url # u,
           StoreStable(u), Shows(View(job.key, "ready", u)),
           UNCHANGED <<pages, active, debounced>>
    PROVE  /\ stable' \in Seq(Entries) /\ Len(stable') <= Capacity
           /\ transient' \in Entries \cup {None} /\ live' \subseteq Url
           /\ EntriesAreApart' /\ ImagesAreOwned' /\ ShownIsHeld' /\ ShownIsRecent'
<1> DEFINE P == job.page
           e == Entry(job.page, job.key, u)
           othersAt == {i \in DOMAIN stable : stable[i].page # P}
           others == Only(stable, othersAt)
           room == IF Len(others) < Capacity THEN others ELSE Tail(others)
<1>0. /\ Typed /\ EntriesAreApart /\ ImagesAreOwned /\ JobsAreWanted /\ ViewsAreFew
      /\ ShownIsHeld /\ ShownIsRecent
  BY DEF ThumbInv
<1>1. /\ stable' = Append(room, e)
      /\ live' = (live \ (Urls(stable, None) \ Urls(room, None))) \cup {u}
      /\ transient' = transient
  BY DEF StoreStable
<1>2. /\ stable \in Seq(Entries) /\ DOMAIN stable = 1 .. Len(stable) /\ Len(stable) \in Nat
      /\ \A i \in DOMAIN stable : stable[i] \in Entries
  BY <1>0 DEF Typed
<1>3. /\ P \in Page /\ e \in Entries /\ e.page = P /\ e.url = u
      /\ P \in DOMAIN views
  BY <1>0 DEF Entry, Entries, Jobs, Typed, JobsAreWanted, IsWanted
<1>4. /\ DOMAIN views' = DOMAIN views /\ views'[P].url = u
      /\ \A q \in DOMAIN views : q # P => views'[q] = views[q]
  BY <1>3 DEF Shows, View
<1> HIDE DEF P, e
<1>5. /\ others \in Seq(Entries) /\ Len(others) \in Nat
      /\ \E pos \in [1 .. Len(others) -> othersAt] :
           /\ \A n \in 1 .. Len(others) : others[n] = stable[pos[n]]
           /\ \A m, n \in 1 .. Len(others) : m < n => pos[m] < pos[n]
           /\ \A i \in othersAt : \E n \in 1 .. Len(others) : pos[n] = i
  <2>1. othersAt \in SUBSET (1 .. Len(stable))
    BY <1>2
  <2> HIDE DEF othersAt
  <2> DEFINE C == Cardinality(othersAt)
  <2>2. C \in Nat /\ others \in Seq(Entries) /\ Len(others) = C
    BY <1>2, <2>1, OnlyKeepsOrder
  <2>3. /\ Position(othersAt) \in [1 .. C -> othersAt]
        /\ \A n \in 1 .. C : others[n] = stable[Position(othersAt)[n]]
        /\ \A m, n \in 1 .. C : m < n => Position(othersAt)[m] < Position(othersAt)[n]
        /\ \A i \in othersAt : \E n \in 1 .. C : Position(othersAt)[n] = i
    BY <1>2, <2>1, OnlyKeepsOrder
  <2> HIDE DEF others, C
  <2> QED BY <2>2, <2>3
<1>6. PICK pos \in [1 .. Len(others) -> othersAt] :
           /\ \A n \in 1 .. Len(others) : others[n] = stable[pos[n]]
           /\ \A m, n \in 1 .. Len(others) : m < n => pos[m] < pos[n]
           /\ \A i \in othersAt : \E n \in 1 .. Len(others) : pos[n] = i
  BY <1>5
<1> HIDE DEF others
<1>7. \A n \in 1 .. Len(others) : pos[n] \in DOMAIN stable /\ stable[pos[n]].page # P
  OBVIOUS
<1>8. \A m, n \in 1 .. Len(others) : pos[m] = pos[n] => m = n
  <2> SUFFICES ASSUME NEW m \in 1 .. Len(others), NEW n \in 1 .. Len(others), pos[m] = pos[n]
               PROVE  m = n
    OBVIOUS
  <2>1. pos[m] \in Nat /\ pos[n] \in Nat
    BY <1>2, <1>7
  <2>2. ~(m < n) /\ ~(n < m)
    BY <1>6, <2>1
  <2> QED BY <1>5, <2>2
\* The position in the cache of what is left.
<1>9. PICK from :
         /\ room \in Seq(Entries) /\ Len(room) \in Nat /\ Len(room) < Capacity
         /\ from \in [1 .. Len(room) -> 1 .. Len(others)]
         /\ \A n \in 1 .. Len(room) : room[n] = others[from[n]]
         /\ \A m, n \in 1 .. Len(room) : m < n => from[m] < from[n]
         /\ \A k \in 1 .. Len(others) :
              (Len(others) < Capacity \/ k # 1) => \E n \in 1 .. Len(room) : from[n] = k
  <2>1. CASE Len(others) < Capacity
    <3> DEFINE f == [n \in 1 .. Len(room) |-> n]
    <3>1. room = others
      BY <2>1
    <3> HIDE DEF room
    <3>2. /\ room \in Seq(Entries) /\ Len(room) \in Nat /\ Len(room) < Capacity
          /\ f \in [1 .. Len(room) -> 1 .. Len(others)]
          /\ \A n \in 1 .. Len(room) : f[n] = n
      BY <1>5, <2>1, <3>1
    <3>3. /\ \A n \in 1 .. Len(room) : room[n] = others[f[n]]
          /\ \A m, n \in 1 .. Len(room) : m < n => f[m] < f[n]
          /\ \A k \in 1 .. Len(others) : \E n \in 1 .. Len(room) : f[n] = k
      BY <3>1, <3>2
    <3> HIDE DEF f
    <3> WITNESS f
    <3> QED BY <3>2, <3>3
  <2>2. CASE ~(Len(others) < Capacity)
    <3> DEFINE f == [n \in 1 .. Len(room) |-> n + 1]
    <3>1. room = Tail(others) /\ others # <<>> /\ Len(others) > 0
      BY <1>5, <2>2, ThumbnailAssumption
    <3> HIDE DEF room
    <3>2. /\ room \in Seq(Entries) /\ Len(room) \in Nat /\ Len(room) = Len(others) - 1
          /\ \A n \in 1 .. Len(room) : room[n] = others[n + 1]
      BY <1>5, <3>1, HeadTailProperties
    <3>3. Len(others) <= Capacity
      <4>1. pos \in Injection(1 .. Len(others), 1 .. Len(stable))
        <5>1. pos \in [1 .. Len(others) -> 1 .. Len(stable)]
          BY <1>2, <1>6, <1>7
        <5> QED BY <1>8, <5>1 DEF Injection, IsInjective
      <4>2. PICK a \in Nat, b \in Nat : a = Len(others) /\ b = Len(stable)
        BY <1>2, <1>5
      <4>3. /\ IsFiniteSet(1 .. b) /\ Cardinality(1 .. b) = b
            /\ Cardinality(1 .. a) = a
        BY FS_Interval
      <4>4. Cardinality(1 .. a) <= Cardinality(1 .. b)
        BY <4>1, <4>2, <4>3, FS_Injection
      <4> QED BY <1>0, <4>2, <4>3, <4>4, ThumbnailAssumption DEF Typed
    <3>4. Len(room) < Capacity
      BY <1>5, <3>2, <3>3, ThumbnailAssumption
    <3>5. /\ f \in [1 .. Len(room) -> 1 .. Len(others)]
          /\ \A n \in 1 .. Len(room) : f[n] = n + 1
          /\ \A k \in 1 .. Len(others) : k # 1 => k - 1 \in 1 .. Len(room) /\ f[k - 1] = k
      BY <1>5, <3>2
    <3>6. /\ \A n \in 1 .. Len(room) : room[n] = others[f[n]]
          /\ \A m, n \in 1 .. Len(room) : m < n => f[m] < f[n]
      BY <3>2, <3>5
    <3>7. ASSUME NEW k \in 1 .. Len(others), Len(others) < Capacity \/ k # 1
          PROVE  \E n \in 1 .. Len(room) : f[n] = k
      BY <2>2, <3>5, <3>7
    <3> HIDE DEF f
    <3> WITNESS f
    <3> QED BY <3>2, <3>4, <3>5, <3>6, <3>7
  <2> QED BY <2>1, <2>2
<1> HIDE DEF room
<1> DEFINE R == Len(room)
           spot == [n \in 1 .. R |-> pos[from[n]]]
<1>10. /\ R \in Nat
       /\ \A n \in 1 .. R : /\ spot[n] \in DOMAIN stable /\ spot[n] \in Nat
                            /\ room[n] = stable[spot[n]] /\ stable[spot[n]].page # P
       /\ \A m, n \in 1 .. R : m < n => spot[m] < spot[n]
       /\ \A m, n \in 1 .. R : spot[m] = spot[n] => m = n
  <2>1. ASSUME NEW n \in 1 .. R
        PROVE  /\ spot[n] \in DOMAIN stable /\ spot[n] \in Nat
               /\ room[n] = stable[spot[n]] /\ stable[spot[n]].page # P
    <3>1. from[n] \in 1 .. Len(others) /\ spot[n] = pos[from[n]]
      BY <1>9
    <3> QED BY <1>2, <1>6, <1>7, <1>9, <3>1
  <2>2. ASSUME NEW m \in 1 .. R, NEW n \in 1 .. R, m < n
        PROVE  spot[m] < spot[n]
    <3>1. from[m] \in 1 .. Len(others) /\ from[n] \in 1 .. Len(others) /\ from[m] < from[n]
      BY <1>9, <2>2
    <3> QED BY <1>6, <3>1
  <2>3. R \in Nat
    BY <1>9
  <2> HIDE DEF spot, R
  <2>4. ASSUME NEW m \in 1 .. R, NEW n \in 1 .. R, spot[m] = spot[n]
        PROVE  m = n
    <3>1. spot[m] \in Nat /\ spot[n] \in Nat
      BY <2>1
    <3>2. ~(m < n) /\ ~(n < m)
      BY <2>2, <2>4, <3>1
    <3> QED BY <2>3, <3>2
  <2> QED BY <2>1, <2>2, <2>3, <2>4
<1>11. /\ stable' \in Seq(Entries) /\ Len(stable') = R + 1 /\ DOMAIN stable' = 1 .. R + 1
       /\ stable'[R + 1] = e
       /\ \A n \in 1 .. R : stable'[n] = room[n]
  BY <1>1, <1>3, <1>9
<1>12. Len(stable') <= Capacity
  BY <1>9, <1>11, ThumbnailAssumption
<1> HIDE DEF spot
<1>13. \A n \in 1 .. R + 1 : n \in 1 .. R \/ n = R + 1
  BY <1>10
<1>14. transient # None => transient.url \in live /\ transient.url # u
  BY <1>0 DEF ImagesAreOwned, Urls
<1>15. EntriesAreApart'
  <2>1. ASSUME NEW m \in 1 .. R + 1, NEW n \in 1 .. R + 1, stable'[m].page = stable'[n].page
        PROVE  m = n
    <3>1. CASE m \in 1 .. R /\ n \in 1 .. R
      <4>1. stable[spot[m]].page = stable[spot[n]].page
        BY <1>10, <1>11, <2>1, <3>1
      <4>2. spot[m] = spot[n]
        BY <1>0, <1>10, <3>1, <4>1 DEF EntriesAreApart
      <4> QED BY <1>10, <3>1, <4>2
    <3>2. CASE m \in 1 .. R /\ n = R + 1
      BY <1>3, <1>10, <1>11, <2>1, <3>2
    <3>3. CASE m = R + 1 /\ n \in 1 .. R
      BY <1>3, <1>10, <1>11, <2>1, <3>3
    <3> QED BY <1>13, <3>1, <3>2, <3>3
  <2>2. ASSUME transient # None, NEW n \in 1 .. R + 1
        PROVE  stable'[n].url # transient.url
    <3>1. CASE n \in 1 .. R
      BY <1>0, <1>10, <1>11, <2>2, <3>1 DEF EntriesAreApart
    <3>2. CASE n = R + 1
      BY <1>3, <1>11, <1>14, <2>2, <3>2
    <3> QED BY <1>13, <3>1, <3>2
  <2> QED BY <1>1, <1>11, <2>1, <2>2 DEF EntriesAreApart
<1>16. ImagesAreOwned' /\ live' \subseteq Url
  <2> DEFINE A == Urls(stable, None)
             B == IF transient = None THEN {} ELSE {transient.url}
             Q == Urls(room, None)
  <2>1. live = A \cup B
    BY <1>0 DEF ImagesAreOwned, Urls
  <2>2. \A x \in B : x \notin A
    BY <1>0 DEF EntriesAreApart, Urls
  <2>3. \A x \in Q : x \in A
    BY <1>9, <1>10 DEF Urls
  <2>4. Urls(stable', transient') = Q \cup {u} \cup B
    <3>1. Urls(stable', transient') = {stable'[n].url : n \in 1 .. R + 1} \cup B
      BY <1>1, <1>11 DEF Urls
    <3>2. Q = {room[n].url : n \in 1 .. R}
      BY <1>9 DEF Urls
    <3>3. \A n \in 1 .. R + 1 : stable'[n].url \in Q \cup {u}
      BY <1>3, <1>11, <1>13, <3>2
    <3>4. \A n \in 1 .. R : n \in 1 .. R + 1
      BY <1>10
    <3>5. \A x \in Q : \E n \in 1 .. R + 1 : stable'[n].url = x
      BY <1>11, <3>2, <3>4
    <3>6. R + 1 \in 1 .. R + 1 /\ stable'[R + 1].url = u
      BY <1>3, <1>10, <1>11
    <3> HIDE DEF Q, B, R
    <3> QED BY <3>1, <3>3, <3>5, <3>6
  <2>5. live' = (live \ (A \ Q)) \cup {u}
    BY <1>1
  <2>6. live' \subseteq Url
    BY <1>0, <2>5 DEF Typed
  <2> HIDE DEF A, B, Q
  <2>7. live' = Urls(stable', transient')
    BY <2>1, <2>2, <2>3, <2>4, <2>5
  <2> QED BY <2>6, <2>7 DEF ImagesAreOwned
<1>17. ShownIsHeld'
  <2> SUFFICES ASSUME MaxDemand <= Capacity, NEW q \in DOMAIN views, views'[q].status = "ready"
               PROVE  InSlot(q)' \/ \E i \in DOMAIN stable' : ShownAt(q, i)'
    BY <1>4 DEF ShownIsHeld
  <2>1. CASE q = P
    <3>1. PICK k \in DOMAIN stable' : stable'[k] = e
      BY <1>10, <1>11
    <3>2. ShownAt(q, k)'
      BY <1>3, <1>4, <2>1, <3>1 DEF ShownAt
    <3> QED BY <3>2
  <2>2. CASE q # P
    <3>1. views'[q] = views[q]
      BY <1>4, <2>2
    <3>2. CASE InSlot(q)
      BY <1>1, <3>1, <3>2 DEF InSlot
    <3>3. CASE \E i \in DOMAIN stable : ShownAt(q, i)
      <4>1. PICK i \in DOMAIN stable : ShownAt(q, i)
        BY <3>3
      <4>2. i \in othersAt
        BY <2>2, <4>1 DEF ShownAt
      <4>3. PICK k \in 1 .. Len(others) : pos[k] = i
        BY <1>6, <4>2
      <4>4. Len(others) < Capacity \/ k # 1
        <5> SUFFICES ASSUME ~(Len(others) < Capacity), k = 1 PROVE FALSE
          OBVIOUS
        <5>1. \A j \in 1 .. Len(others) : pos[1] <= pos[j]
          <6> SUFFICES ASSUME NEW j \in 1 .. Len(others) PROVE pos[1] <= pos[j]
            OBVIOUS
          <6>1. pos[j] \in Nat /\ pos[1] \in Nat /\ 1 \in 1 .. Len(others) /\ (j = 1 \/ 1 < j)
            BY <1>2, <1>5, <1>7, <4>3
          <6>2. CASE j = 1
            BY <6>1, <6>2
          <6>3. CASE 1 < j
            <7>1. pos[1] < pos[j]
              BY <1>6, <6>1, <6>3
            <7> QED BY <6>1, <7>1
          <6> QED BY <6>1, <6>2, <6>3
        <5>2. \A j \in 1 .. Len(others) : stable[pos[j]].page \in DOMAIN views \ {P}
          BY <1>0, <1>7, <4>1, <4>3, <5>1 DEF ShownIsRecent
        <5> DEFINE h == [j \in 1 .. Len(others) |-> stable[pos[j]].page]
        <5>3. h \in [1 .. Len(others) -> DOMAIN views \ {P}]
          BY <5>2
        <5>4. \A m, n \in 1 .. Len(others) : h[m] = h[n] => m = n
          BY <1>0, <1>7, <1>8 DEF EntriesAreApart
        <5> HIDE DEF h
        <5>5. h \in Injection(1 .. Len(others), DOMAIN views \ {P})
          BY <5>3, <5>4 DEF Injection, IsInjective
        <5>6. /\ IsFiniteSet(DOMAIN views \ {P})
              /\ Cardinality(DOMAIN views \ {P}) = Cardinality(DOMAIN views) - 1
              /\ Cardinality(DOMAIN views) \in Nat /\ Cardinality(DOMAIN views) <= MaxDemand
          BY <1>0, <1>3, FS_RemoveElement, FS_CardinalityType DEF ViewsAreFew
        <5>7. Cardinality(1 .. Len(others)) <= Cardinality(DOMAIN views \ {P})
          BY <5>5, <5>6, FS_Injection
        <5>8. Cardinality(1 .. Len(others)) = Len(others)
          <6>1. PICK a \in Nat : a = Len(others)
            BY <1>5
          <6>2. IsFiniteSet(1 .. a) /\ Cardinality(1 .. a) = a
            BY FS_Interval
          <6> QED BY <6>1, <6>2
        <5> QED BY <1>5, <5>6, <5>7, <5>8, ThumbnailAssumption
      <4>5. PICK n \in 1 .. R : from[n] = k
        BY <1>9, <4>4
      <4>6. spot[n] = i
        BY <4>3, <4>5 DEF spot
      <4>7. PICK l \in DOMAIN stable' : stable'[l] = stable[i]
        BY <1>10, <1>11, <4>6
      <4>8. ShownAt(q, l)'
        BY <3>1, <4>1, <4>7 DEF ShownAt
      <4> QED BY <4>8
    <3> QED BY <1>0, <3>1, <3>2, <3>3 DEF ShownIsHeld
  <2> QED BY <2>1, <2>2
<1>18. ShownIsRecent'
  <2> SUFFICES ASSUME NEW p \in DOMAIN views, NEW i \in 1 .. R + 1, NEW j \in 1 .. R + 1, i <= j,
                      stable'[i].page = p, stable'[i].url = views'[p].url
               PROVE  stable'[j].page \in DOMAIN views
    BY <1>4, <1>11 DEF ShownIsRecent, ShownAt
  <2>1. CASE j = R + 1
    BY <1>3, <1>11, <2>1
  <2>2. CASE j \in 1 .. R
    <3>1. i \in 1 .. R
      BY <1>10, <2>2
    <3>2. p # P /\ views'[p] = views[p]
      BY <1>4, <1>10, <1>11, <3>1
    <3>3. ShownAt(p, spot[i])
      BY <1>10, <1>11, <3>1, <3>2 DEF ShownAt
    <3>4. spot[i] <= spot[j]
      <4>1. i < j \/ i = j
        BY <1>10, <2>2, <3>1
      <4> QED BY <1>10, <2>2, <3>1, <4>1
    <3>5. stable[spot[j]].page \in DOMAIN views
      BY <1>0, <1>10, <2>2, <3>1, <3>3, <3>4 DEF ShownIsRecent
    <3> QED BY <1>10, <1>11, <2>2, <3>5
  <2> QED BY <1>13, <2>1, <2>2
<1>19. transient' \in Entries \cup {None}
  BY <1>0, <1>1 DEF Typed
<1> QED BY <1>11, <1>12, <1>15, <1>16, <1>17, <1>18, <1>19

(* An image of the active page goes into the slot.                           *)
LEMMA StoredTransient ==
    ASSUME ThumbInv, job # None, job.fresh, job.transient, NEW u \in Url, u \notin live,
           \A p \in DOMAIN views : views[p].url # u,
           StoreTransient(u), Shows(View(job.key, "ready", u)),
           UNCHANGED <<pages, active, debounced>>
    PROVE  /\ stable' \in Seq(Entries) /\ Len(stable') <= Capacity
           /\ transient' \in Entries \cup {None} /\ live' \subseteq Url
           /\ EntriesAreApart' /\ ImagesAreOwned' /\ ShownIsHeld' /\ ShownIsRecent'
<1> DEFINE P == job.page
           e == Entry(job.page, job.key, u)
<1>0. /\ Typed /\ EntriesAreApart /\ ImagesAreOwned /\ JobsAreWanted /\ ViewsAreFew
      /\ ShownIsHeld /\ ShownIsRecent
  BY DEF ThumbInv
<1>1. /\ transient' = e /\ stable' = stable
      /\ live' = (live \ (IF transient = None THEN {} ELSE {transient.url})) \cup {u}
  BY DEF StoreTransient, Urls
<1>2. /\ stable \in Seq(Entries) /\ DOMAIN stable = 1 .. Len(stable)
      /\ Len(stable) <= Capacity /\ live \subseteq Url
  BY <1>0 DEF Typed
<1>3. /\ P \in Page /\ e \in Entries /\ e # None /\ e.page = P /\ e.url = u
      /\ P \in DOMAIN views /\ P = active /\ debounced.page = active
  BY <1>0, ThumbnailAssumption DEF Entry, Entries, Jobs, Typed, JobsAreWanted, IsWanted
<1>4. /\ DOMAIN views' = DOMAIN views /\ views'[P].url = u
      /\ \A q \in DOMAIN views : q # P => views'[q] = views[q]
  BY <1>3 DEF Shows, View
<1> HIDE DEF P, e
<1>5. \A i \in DOMAIN stable : stable[i].url \in live /\ stable[i].url # u
  BY <1>0 DEF ImagesAreOwned, Urls
<1>6. EntriesAreApart'
  BY <1>0, <1>1, <1>3, <1>5 DEF EntriesAreApart
<1>7. ImagesAreOwned'
  <2> DEFINE A == {stable[i].url : i \in DOMAIN stable}
             B == IF transient = None THEN {} ELSE {transient.url}
  <2>1. live = A \cup B /\ \A x \in B : x \notin A
    BY <1>0 DEF ImagesAreOwned, EntriesAreApart, Urls
  <2>2. Urls(stable', transient') = A \cup {u}
    BY <1>1, <1>3 DEF Urls
  <2>3. live' = (live \ B) \cup {u}
    BY <1>1
  <2> HIDE DEF A, B
  <2>4. live' = Urls(stable', transient')
    BY <2>1, <2>2, <2>3
  <2> QED BY <2>4 DEF ImagesAreOwned
<1>8. ShownIsHeld'
  <2> SUFFICES ASSUME MaxDemand <= Capacity, NEW q \in DOMAIN views, views'[q].status = "ready"
               PROVE  InSlot(q)' \/ \E i \in DOMAIN stable' : ShownAt(q, i)'
    BY <1>4 DEF ShownIsHeld
  <2>1. CASE q = P
    BY <1>1, <1>3, <1>4, <2>1 DEF InSlot
  <2>2. CASE q # P
    <3>1. views'[q] = views[q] /\ ~InSlot(q)
      BY <1>3, <1>4, <2>2 DEF InSlot
    <3>2. PICK i \in DOMAIN stable : ShownAt(q, i)
      BY <1>0, <3>1 DEF ShownIsHeld
    <3>3. ShownAt(q, i)'
      BY <1>1, <3>1, <3>2 DEF ShownAt
    <3> QED BY <1>1, <3>3
  <2> QED BY <2>1, <2>2
<1>9. ShownIsRecent'
  <2> SUFFICES ASSUME NEW p \in DOMAIN views, NEW i \in DOMAIN stable, NEW j \in DOMAIN stable,
                      i <= j, stable[i].page = p, stable[i].url = views'[p].url
               PROVE  stable[j].page \in DOMAIN views
    BY <1>1, <1>4 DEF ShownIsRecent, ShownAt
  <2>1. p # P /\ views'[p] = views[p]
    BY <1>4, <1>5
  <2>2. ShownAt(p, i)
    BY <2>1 DEF ShownAt
  <2> QED BY <1>0, <2>2 DEF ShownIsRecent
<1>10. live' \subseteq Url
  BY <1>1, <1>2
<1> QED BY <1>1, <1>2, <1>3, <1>6, <1>7, <1>8, <1>9, <1>10

-----------------------------------------------------------------------------
(* Every step *)

LEMMA InitThumbnails == Init => ThumbInv
<1> SUFFICES ASSUME Init PROVE ThumbInv
  OBVIOUS
<1>1. PICK k \in Key : pages = [p \in Page |-> k]
  BY DEF Init
<1>2. /\ mounted = TRUE /\ active \in Page
      /\ draft = [page |-> active, key |-> pages[active]]
      /\ debounced = draft
      /\ demand = <<>> /\ enabled = TRUE /\ paused = FALSE
      /\ stable = <<>> /\ transient = None /\ live = {}
      /\ views = <<>> /\ pending = <<>> /\ drain = "idle" /\ job = None
  BY DEF Init
<1>3. DOMAIN views = {} /\ DOMAIN stable = {} /\ DOMAIN pending = {} /\ Len(stable) = 0
  BY <1>2
<1>4. demand \in Demands
  <2>1. demand \in [1 .. 0 -> Page] /\ 0 \in 0 .. MaxDemand /\ DOMAIN demand = {}
    BY <1>2, ThumbnailAssumption
  <2> QED BY <2>1 DEF Demands
<1>5. draft \in Draft /\ debounced \in Draft
  BY <1>1, <1>2 DEF Draft
<1>6. views \in [DOMAIN views -> Shown]
  BY <1>2
<1>7. Typed
  <2>1. stable \in Seq(Entries) /\ pending \in Seq(Jobs) /\ Len(stable) <= Capacity
    BY <1>2, <1>3, ThumbnailAssumption
  <2>2. DOMAIN pages \subseteq Page /\ pages \in [DOMAIN pages -> Key] /\ active \in DOMAIN pages
    BY <1>1, <1>2
  <2>3. \A p \in DOMAIN views : views[p].status = "ready" <=> views[p].url # None
    BY <1>3
  <2>4. drain = "rendering" <=> job # None
    BY <1>2
  <2> QED BY <1>2, <1>4, <1>5, <1>6, <2>1, <2>2, <2>3, <2>4 DEF Typed
<1>8. ViewsAreFew
  BY <1>3, FS_EmptySet, ThumbnailAssumption DEF ViewsAreFew
<1>9. Urls(stable, transient) = {}
  BY <1>2, <1>3 DEF Urls
<1> QED
  BY <1>2, <1>3, <1>7, <1>8, <1>9
  DEF ThumbInv, EntriesAreApart, ImagesAreOwned, JobsAreWanted, ShownIsHeld, ShownIsRecent,
      ShownIsCurrent

LEMMA EffectsStep ==
    ASSUME ThumbInv, Effects(pages', active', debounced', demand', enabled'),
           DOMAIN pages' \subseteq Page, pages' \in [DOMAIN pages' -> Key],
           active' \in DOMAIN pages', draft' \in Draft, debounced' \in Draft,
           demand' \in Demands, enabled' \in BOOLEAN, UNCHANGED <<mounted, paused>>
    PROVE  ThumbInv'
<1>1. PICK ps, act, deb, asks, on :
         /\ ps = pages' /\ act = active' /\ deb = debounced' /\ asks = demand' /\ on = enabled'
  OBVIOUS
<1>2. Effects(ps, act, deb, asks, on)
  BY <1>1
<1>3. /\ DOMAIN ps \subseteq Page /\ ps \in [DOMAIN ps -> Key] /\ act \in DOMAIN ps
      /\ deb \in Draft /\ asks \in Demands /\ on \in BOOLEAN
  BY <1>1
<1>4. Typed /\ EntriesAreApart /\ ImagesAreOwned
  BY DEF ThumbInv
<1> QED BY <1>1, <1>2, <1>3, <1>4, EffectsKeepImages

LEMMA FlushedIsTyped ==
    ASSUME Typed
    PROVE  DOMAIN Flushed = DOMAIN pages /\ Flushed \in [DOMAIN pages -> Key]
BY DEF Typed, Draft, Flushed

LEMMA PropsKeepImages ==
    ASSUME ThumbInv, Props
    PROVE  ThumbInv'
<1>0. Typed /\ EntriesAreApart /\ ImagesAreOwned /\ JobsAreWanted
  BY DEF ThumbInv
<1>1. ASSUME NEW k \in Key, Draw(k) PROVE ThumbInv'
  <2>1. draft' \in Draft
    BY <1>0, <1>1 DEF Draw, Typed, Draft
  <2>2. UNCHANGED <<mounted, pages, active, demand, enabled, paused, debounced,
                    stable, transient, live, views, pending, drain, job>>
    BY <1>1 DEF Draw, cached
  <2>3. Typed'
    BY <1>0, <2>1, <2>2 DEF Typed
  <2> QED BY <2>2, <2>3
          DEF ThumbInv, EntriesAreApart, ImagesAreOwned, JobsAreWanted, IsWanted, ViewsAreFew,
              ShownIsHeld, ShownIsRecent, InSlot, ShownAt, ShownIsCurrent
<1>2. CASE Flush
  <2>1. Effects(pages', active', debounced', demand', enabled')
    BY <1>2 DEF Flush
  <2> QED BY <1>0, <1>2, <2>1, EffectsStep, FlushedIsTyped DEF Flush, Typed
<1>3. ASSUME NEW p \in Page, Activate(p) PROVE ThumbInv'
  <2>1. Effects(pages', active', debounced', demand', enabled')
    BY <1>3 DEF Activate
  <2> QED BY <1>0, <1>3, <2>1, EffectsStep, FlushedIsTyped DEF Activate, Typed
<1>4. ASSUME NEW p \in Page, RemovePage(p) PROVE ThumbInv'
  <2>1. Effects(pages', active', debounced', demand', enabled')
    BY <1>4 DEF RemovePage
  <2>2. DOMAIN pages' = DOMAIN pages \ {p} /\ pages' \in [DOMAIN pages' -> Key]
    BY <1>0, <1>4, FlushedIsTyped DEF RemovePage
  <2>3. active' \in DOMAIN pages'
    BY <1>0, <1>4, <2>2 DEF RemovePage, Typed
  <2> QED BY <1>0, <1>4, <2>1, <2>2, <2>3, EffectsStep DEF RemovePage, Typed
<1>5. ASSUME NEW p \in Page, NEW k \in Key, AddPage(p, k) PROVE ThumbInv'
  <2>1. Effects(pages', active', debounced', demand', enabled')
    BY <1>5 DEF AddPage
  <2>2. DOMAIN pages' = DOMAIN pages \cup {p} /\ pages' \in [DOMAIN pages' -> Key]
    BY <1>0, <1>5, FlushedIsTyped DEF AddPage
  <2> QED BY <1>0, <1>5, <2>1, <2>2, EffectsStep DEF AddPage, Typed
<1>6. ASSUME NEW d \in Demands, Scroll(d) PROVE ThumbInv'
  <2>1. Effects(pages', active', debounced', demand', enabled')
    BY <1>6 DEF Scroll
  <2> QED BY <1>0, <1>6, <2>1, EffectsStep DEF Scroll, Typed
<1>7. CASE ChangeViewMode
  <2>1. Effects(pages', active', debounced', demand', enabled')
    BY <1>7 DEF ChangeViewMode
  <2> QED BY <1>0, <1>7, <2>1, EffectsStep DEF ChangeViewMode, Typed
<1>8. CASE ChangePaused
  <2>1. UNCHANGED <<mounted, pages, active, draft, demand, enabled, debounced,
                    stable, transient, live, views, pending, job>>
    BY <1>8 DEF ChangePaused, cached
  <2>2. paused' \in BOOLEAN /\ drain' \in {"idle", "yielding", "rendering"}
        /\ (drain' = "rendering" <=> drain = "rendering")
    BY <1>0, <1>8 DEF ChangePaused, Drains, Typed
  <2>3. Typed'
    BY <1>0, <2>1, <2>2 DEF Typed
  <2> QED BY <2>1, <2>3
          DEF ThumbInv, EntriesAreApart, ImagesAreOwned, JobsAreWanted, IsWanted, ViewsAreFew,
              ShownIsHeld, ShownIsRecent, InSlot, ShownAt, ShownIsCurrent
<1>9. CASE Unmount
  <2>1. /\ mounted' = FALSE /\ pending' = <<>> /\ job' = Stale /\ stable' = <<>>
        /\ transient' = None /\ live' = live \ Urls(stable, transient) /\ views' = <<>>
        /\ UNCHANGED <<pages, active, draft, demand, enabled, paused, debounced, drain>>
    BY <1>9 DEF Unmount, props
  <2>2. /\ DOMAIN views' = {} /\ DOMAIN stable' = {} /\ DOMAIN pending' = {} /\ Len(stable') = 0
        /\ views' \in [DOMAIN views' -> Shown]
        /\ stable' \in Seq(Entries) /\ pending' \in Seq(Jobs)
    BY <2>1
  <2>3. job' \in Jobs \cup {None} /\ (job' # None <=> job # None) /\ (job' # None => ~job'.fresh)
    <3>1. CASE job = None
      BY <2>1, <3>1 DEF Stale
    <3>2. CASE job # None
      <4>1. job \in Jobs /\ job' = [job EXCEPT !.fresh = FALSE]
        BY <1>0, <2>1, <3>2 DEF Stale, Typed
      <4>2. job' \in Jobs /\ ~job'.fresh
        BY <4>1 DEF Jobs
      <4> QED BY <3>2, <4>2, ThumbnailAssumption
    <3> QED BY <3>1, <3>2
  <2>4. live' = {} /\ Urls(stable', transient') = {}
    BY <1>0, <2>1, <2>2 DEF ImagesAreOwned, Urls
  <2>5. Typed'
    <3>1. Len(stable') <= Capacity /\ transient' \in Entries \cup {None} /\ live' \subseteq Url
      BY <2>1, <2>2, <2>4, ThumbnailAssumption
    <3>2. \A p \in DOMAIN views' : views'[p].status = "ready" <=> views'[p].url # None
      BY <2>2
    <3>3. drain' \in {"idle", "yielding", "rendering"} /\ (drain' = "rendering" <=> job' # None)
      BY <1>0, <2>1, <2>3 DEF Typed
    <3>4. /\ mounted' \in BOOLEAN /\ enabled' \in BOOLEAN /\ paused' \in BOOLEAN
          /\ DOMAIN pages' \subseteq Page /\ pages' \in [DOMAIN pages' -> Key]
          /\ active' \in DOMAIN pages' /\ draft' \in Draft /\ debounced' \in Draft
          /\ demand' \in Demands
      BY <1>0, <2>1 DEF Typed
    <3> QED BY <2>2, <2>3, <3>1, <3>2, <3>3, <3>4 DEF Typed
  <2>6. ViewsAreFew'
    BY <2>2, FS_EmptySet, ThumbnailAssumption DEF ViewsAreFew
  <2> QED BY <2>1, <2>2, <2>3, <2>4, <2>5, <2>6
          DEF ThumbInv, EntriesAreApart, ImagesAreOwned, JobsAreWanted, ShownIsHeld,
              ShownIsRecent, ShownIsCurrent
<1> QED BY <1>1, <1>2, <1>3, <1>4, <1>5, <1>6, <1>7, <1>8, <1>9 DEF Props

LEMMA RenderedKeepsImages ==
    ASSUME ThumbInv, Rendered
    PROVE  ThumbInv'
<1>0. /\ Typed /\ EntriesAreApart /\ ImagesAreOwned /\ JobsAreWanted /\ ViewsAreFew
      /\ ShownIsHeld /\ ShownIsRecent /\ ShownIsCurrent
  BY DEF ThumbInv
<1>1. /\ job # None /\ job \in Jobs /\ job' = None
      /\ drain' \in {"idle", "yielding"}
      /\ UNCHANGED <<mounted, pages, active, draft, demand, enabled, paused, debounced, pending>>
  BY <1>0 DEF Rendered, Typed, props
<1>2. CASE ~job.fresh
  <2>1. UNCHANGED <<views, stable, transient, live>>
    BY <1>2 DEF Rendered, Delivers, cached
  <2>2. Typed'
    BY <1>0, <1>1, <2>1 DEF Typed
  <2> QED BY <1>0, <1>1, <2>1, <2>2
          DEF ThumbInv, EntriesAreApart, ImagesAreOwned, JobsAreWanted, IsWanted, ViewsAreFew,
              ShownIsHeld, ShownIsRecent, InSlot, ShownAt, ShownIsCurrent
<1>3. CASE job.fresh
  <2>0. job.page \in DOMAIN views /\ job.key \in Key
        /\ job.key = SceneKey(job.page, pages, active, debounced)
    BY <1>0, <1>1, <1>3 DEF JobsAreWanted, IsWanted, Jobs
  <2>1. ASSUME NEW v \in Shown, v.key = job.key, v.status = "ready" <=> v.url # None, Shows(v)
        PROVE  /\ DOMAIN views' = DOMAIN views /\ views' \in [DOMAIN views' -> Shown]
               /\ \A p \in DOMAIN views' : views'[p].status = "ready" <=> views'[p].url # None
               /\ JobsAreWanted' /\ ViewsAreFew' /\ ShownIsCurrent'
    <3>1. views' = [p \in DOMAIN views |-> IF p = job.page THEN v ELSE views[p]]
      BY <2>0, <2>1 DEF Shows
    <3>2. /\ DOMAIN views' = DOMAIN views
          /\ \A p \in DOMAIN views : views'[p] = IF p = job.page THEN v ELSE views[p]
      BY <3>1
    <3>3. views' \in [DOMAIN views' -> Shown]
      BY <1>0, <2>1, <3>1 DEF Typed
    <3>4. \A p \in DOMAIN views' : views'[p].status = "ready" <=> views'[p].url # None
      BY <1>0, <2>1, <3>2 DEF Typed
    <3>5. JobsAreWanted'
      BY <1>0, <1>1, <3>2 DEF JobsAreWanted, IsWanted
    <3>6. ViewsAreFew'
      BY <1>0, <3>2 DEF ViewsAreFew
    <3>7. ShownIsCurrent'
      BY <1>0, <1>1, <2>0, <2>1, <3>2 DEF ShownIsCurrent
    <3> QED BY <3>2, <3>3, <3>4, <3>5, <3>6, <3>7
  <2>2. ASSUME NEW u, u = NewUrl,
               IF job.transient THEN StoreTransient(u) ELSE StoreStable(u),
               Shows(View(job.key, "ready", u))
        PROVE  ThumbInv'
    <3>1. u \in Url /\ u \notin live /\ \A p \in DOMAIN views : views[p].url # u
      BY <1>0, <2>2, NewUrlIsFree
    <3>2. /\ stable' \in Seq(Entries) /\ Len(stable') <= Capacity
          /\ transient' \in Entries \cup {None} /\ live' \subseteq Url
          /\ EntriesAreApart' /\ ImagesAreOwned' /\ ShownIsHeld' /\ ShownIsRecent'
      <4>1. UNCHANGED <<pages, active, debounced>>
        BY <1>1
      <4>2. CASE job.transient
        <5>1. StoreTransient(u)
          BY <2>2, <4>2
        <5> QED BY <1>1, <1>3, <2>2, <3>1, <4>1, <4>2, <5>1, StoredTransient
      <4>3. CASE ~job.transient
        <5>1. StoreStable(u)
          BY <2>2, <4>3
        <5> QED BY <1>1, <1>3, <2>2, <3>1, <4>1, <5>1, StoredStable
      <4> QED BY <4>2, <4>3
    <3>3. PICK v : v = View(job.key, "ready", u)
      OBVIOUS
    <3>4. v \in Shown /\ v.key = job.key /\ (v.status = "ready" <=> v.url # None)
      BY <2>0, <3>1, <3>3, ThumbnailAssumption DEF View, Shown
    <3>5. /\ DOMAIN views' = DOMAIN views /\ views' \in [DOMAIN views' -> Shown]
          /\ \A p \in DOMAIN views' : views'[p].status = "ready" <=> views'[p].url # None
          /\ JobsAreWanted' /\ ViewsAreFew' /\ ShownIsCurrent'
      BY <2>1, <2>2, <3>3, <3>4
    <3>6. Typed'
      BY <1>0, <1>1, <3>2, <3>5 DEF Typed
    <3> QED BY <3>2, <3>5, <3>6 DEF ThumbInv
  <2>3. ASSUME NEW status \in {"empty", "error"}, Shows(View(job.key, status, None)),
               UNCHANGED cached
        PROVE  ThumbInv'
    <3>1. UNCHANGED <<stable, transient, live>>
      BY <2>3 DEF cached
    <3>2. PICK v : v = View(job.key, status, None)
      OBVIOUS
    <3>3. v \in Shown /\ v.key = job.key /\ v.status # "ready" /\ v.url = None
      BY <2>0, <3>2 DEF View, Shown
    <3>4. /\ DOMAIN views' = DOMAIN views /\ views' \in [DOMAIN views' -> Shown]
          /\ \A p \in DOMAIN views' : views'[p].status = "ready" <=> views'[p].url # None
          /\ JobsAreWanted' /\ ViewsAreFew' /\ ShownIsCurrent'
      BY <2>1, <2>3, <3>2, <3>3
    <3>5. \A p \in DOMAIN views : views'[p] = IF p = job.page THEN v ELSE views[p]
      BY <2>0, <2>3, <3>2 DEF Shows
    <3>6. Typed'
      BY <1>0, <1>1, <3>1, <3>4 DEF Typed
    <3>7. EntriesAreApart' /\ ImagesAreOwned'
      BY <1>0, <3>1 DEF EntriesAreApart, ImagesAreOwned
    <3>8. ShownIsHeld'
      BY <1>0, <1>1, <3>1, <3>3, <3>4, <3>5 DEF ShownIsHeld, InSlot, ShownAt
    <3>9. ShownIsRecent'
      <4> SUFFICES ASSUME NEW p \in DOMAIN views, NEW i \in DOMAIN stable, NEW j \in DOMAIN stable,
                          i <= j, stable[i].page = p, stable[i].url = views'[p].url
                   PROVE  stable[j].page \in DOMAIN views
        BY <3>1, <3>4 DEF ShownIsRecent, ShownAt
      <4>1. stable[i].url # None
        <5>1. stable[i] \in Entries
          BY <1>0 DEF Typed
        <5> QED BY <5>1, ThumbnailAssumption DEF Entries
      <4>2. views'[p] = views[p]
        BY <3>3, <3>5, <4>1
      <4> QED BY <1>0, <4>2 DEF ShownIsRecent, ShownAt
    <3> QED BY <3>4, <3>6, <3>7, <3>8, <3>9 DEF ThumbInv
  <2> QED BY <1>3, <2>2, <2>3 DEF Rendered, Delivers
<1> QED BY <1>2, <1>3

LEMMA YieldedKeepsImages ==
    ASSUME ThumbInv, Yielded
    PROVE  ThumbInv'
<1>0. /\ Typed /\ EntriesAreApart /\ ImagesAreOwned /\ JobsAreWanted /\ ViewsAreFew
      /\ ShownIsHeld /\ ShownIsRecent /\ ShownIsCurrent
  BY DEF ThumbInv
<1>1. UNCHANGED <<mounted, pages, active, draft, demand, enabled, paused, debounced,
                  stable, transient, live, views>>
  BY DEF Yielded, props, cached
<1>2. CASE Halted \/ pending = <<>>
  <2>1. drain' = "idle" /\ drain = "yielding" /\ UNCHANGED <<pending, job>>
    BY <1>2 DEF Yielded
  <2>2. Typed'
    BY <1>0, <1>1, <2>1 DEF Typed
  <2> QED BY <1>0, <1>1, <2>1, <2>2
          DEF ThumbInv, EntriesAreApart, ImagesAreOwned, JobsAreWanted, IsWanted, ViewsAreFew,
              ShownIsHeld, ShownIsRecent, InSlot, ShownAt, ShownIsCurrent
<1>3. CASE ~(Halted \/ pending = <<>>)
  <2>1. /\ drain' = "rendering" /\ job' = Head(pending) /\ pending' = Tail(pending)
        /\ pending # <<>> /\ pending \in Seq(Jobs)
    BY <1>0, <1>3 DEF Yielded, Typed
  <2>2. /\ job' = pending[1] /\ job' \in Jobs /\ job' # None
        /\ pending' \in Seq(Jobs) /\ Len(pending') = Len(pending) - 1
        /\ \A n \in 1 .. Len(pending') : pending'[n] = pending[n + 1]
        /\ Len(pending) \in Nat /\ Len(pending) > 0
    BY <2>1, HeadTailProperties, ThumbnailAssumption
  <2>3. Typed'
    BY <1>0, <1>1, <2>1, <2>2 DEF Typed
  <2>4. JobsAreWanted'
    <3>1. /\ DOMAIN pending = 1 .. Len(pending) /\ DOMAIN pending' = 1 .. Len(pending')
          /\ 1 \in DOMAIN pending /\ \A n \in DOMAIN pending' : n + 1 \in DOMAIN pending
      BY <2>1, <2>2
    <3>2. \A m, n \in DOMAIN pending' : pending'[m].page = pending'[n].page => m = n
      <4> SUFFICES ASSUME NEW m \in DOMAIN pending', NEW n \in DOMAIN pending',
                          pending'[m].page = pending'[n].page
                   PROVE  m = n
        OBVIOUS
      <4>1. m + 1 = n + 1
        BY <1>0, <2>2, <3>1 DEF JobsAreWanted
      <4> QED BY <2>2, <3>1, <4>1
    <3>3. \A n \in DOMAIN pending : IsWanted(pending[n])
      BY <1>0 DEF JobsAreWanted
    <3>4. IsWanted(job)'
      BY <1>1, <2>2, <3>1, <3>3 DEF IsWanted
    <3>5. \A n \in DOMAIN pending' : IsWanted(pending[n])'
      BY <1>1, <2>2, <3>1, <3>3 DEF IsWanted
    <3> QED BY <3>2, <3>4, <3>5 DEF JobsAreWanted
  <2> QED BY <1>0, <1>1, <2>3, <2>4
          DEF ThumbInv, EntriesAreApart, ImagesAreOwned, ViewsAreFew,
              ShownIsHeld, ShownIsRecent, InSlot, ShownAt, ShownIsCurrent
<1> QED BY <1>2, <1>3

LEMMA StepKeepsImages == ThumbInv /\ [Next]_vars => ThumbInv'
<1> SUFFICES ASSUME ThumbInv, [Next]_vars PROVE ThumbInv'
  OBVIOUS
<1>0. Typed
  BY DEF ThumbInv
<1>1. CASE Props
  BY <1>1, PropsKeepImages
<1>2. CASE DraftFollows
  <2>1. draft' \in Draft
    BY <1>0, <1>2 DEF DraftFollows, Typed, Draft
  <2>2. UNCHANGED <<mounted, pages, active, demand, enabled, paused, debounced,
                    stable, transient, live, views, pending, drain, job>>
    BY <1>2 DEF DraftFollows, cached
  <2>3. Typed'
    BY <1>0, <2>1, <2>2 DEF Typed
  <2> QED BY <2>2, <2>3
          DEF ThumbInv, EntriesAreApart, ImagesAreOwned, JobsAreWanted, IsWanted, ViewsAreFew,
              ShownIsHeld, ShownIsRecent, InSlot, ShownAt, ShownIsCurrent
<1>3. CASE Debounce
  <2>1. UNCHANGED <<mounted, pages, active, draft, demand, enabled, paused>>
        /\ debounced' = draft /\ Effects(pages, active, draft, demand, enabled)
    BY <1>3 DEF Debounce, props
  <2>2. Effects(pages', active', debounced', demand', enabled')
    BY <2>1
  <2> QED BY <1>0, <2>1, <2>2, EffectsStep DEF Typed
<1>4. CASE Yielded
  BY <1>4, YieldedKeepsImages
<1>5. CASE Rendered
  BY <1>5, RenderedKeepsImages
<1>6. CASE UNCHANGED vars
  <2>1. UNCHANGED <<mounted, pages, active, draft, demand, enabled, paused, debounced,
                    stable, transient, live, views, pending, drain, job>>
    BY <1>6 DEF vars, props, cached
  <2>2. Typed'
    BY <1>0, <2>1 DEF Typed
  <2> QED BY <2>1, <2>2
          DEF ThumbInv, EntriesAreApart, ImagesAreOwned, JobsAreWanted, IsWanted, ViewsAreFew,
              ShownIsHeld, ShownIsRecent, InSlot, ShownAt, ShownIsCurrent
<1> QED BY <1>1, <1>2, <1>3, <1>4, <1>5, <1>6 DEF Next

THEOREM Invariant == Spec => []ThumbInv
BY InitThumbnails, StepKeepsImages, PTL DEF Spec

(* Types; the scheduler renders exactly when it has a job, and no page is    *)
(* queued twice.                                                             *)
THEOREM TypeCorrect == Spec => []TypeOK
<1>1. ASSUME ThumbInv PROVE TypeOK
  <2>1. pages \in UNION {[ps -> Key] : ps \in SUBSET Page}
    BY <1>1 DEF ThumbInv, Typed
  <2> QED BY <1>1, <2>1 DEF TypeOK, ThumbInv, Typed, JobsAreWanted
<1> QED BY <1>1, Invariant, PTL

(* Nothing is leaked and nothing on the screen is revoked: the live images   *)
(* are those of the cache, whatever pages, scenes, sizes and pauses there    *)
(* are.                                                                      *)
THEOREM ImagesLive == Spec => []ImagesLiveWhileNeeded
<1>1. ASSUME ThumbInv PROVE ImagesLiveWhileNeeded
  <2>1. ASSUME MaxDemand <= Capacity, NEW p \in DOMAIN views
        PROVE  views[p].url \in live \cup {None}
    <3>1. CASE views[p].status # "ready"
      BY <1>1, <3>1 DEF ThumbInv, Typed
    <3>2. CASE InSlot(p)
      BY <1>1, <3>2 DEF ThumbInv, ImagesAreOwned, InSlot, Urls
    <3>3. CASE \E i \in DOMAIN stable : ShownAt(p, i)
      BY <1>1, <3>3 DEF ThumbInv, ImagesAreOwned, ShownAt, Urls
    <3> QED BY <1>1, <2>1, <3>1, <3>2, <3>3 DEF ThumbInv, ShownIsHeld
  <2> QED BY <1>1, <2>1 DEF ImagesLiveWhileNeeded, ThumbInv, ImagesAreOwned
<1> QED BY <1>1, Invariant, PTL

(* What is shown for a page is what it looked like when the props last       *)
(* changed: no late render shows an older scene.                             *)
THEOREM ShownStaysCurrent == Spec => []ShownIsCurrent
<1>1. ThumbInv => ShownIsCurrent
  BY DEF ThumbInv
<1> QED BY <1>1, Invariant, PTL

-----------------------------------------------------------------------------
(* Cameras *)

(* The calls that have not been settled.                                     *)
Unsettled == {first, activeJob, pendingJob} \ {Nothing}

(* An active job is exactly what the lane waits for, the client keeps its    *)
(* first call until it is initialised, a timer is that of an effect, and an  *)
(* effect that is due has a number left.                                     *)
LaneIsBusy ==
    /\ activeJob = Nothing <=> awaits = "idle"
    /\ client \in {"listening", "hearsReady", "hearsAll"} => first # Nothing
    /\ timer => version > 0 /\ key # Nothing
    /\ snapshot # key => version < MaxVersions

(* What the client knows of the window.                                      *)
ReadyIsKnown ==
    /\ client = "done" /\ windowReady => ready
    /\ ready => awaits # "ready"

(* A call belongs to the effect with its number.                             *)
JobsAreOfTheirVersion ==
    \A call \in Unsettled :
        call.version <= version /\ (call.version = version => call.key = key)

(* Without "torn" a call asks for the scene its key stands for.              *)
JobsAreTrue == "torn" \notin races => \A call \in Unsettled : call.scene = call.key

PreviewInv ==
    /\ CameraTypeOK /\ LaneIsBusy /\ ReadyIsKnown
    /\ JobsAreOfTheirVersion /\ JobsAreTrue /\ CacheIsTrue

-----------------------------------------------------------------------------
(* What an arriving job leaves behind: it is settled from the cache, or it   *)
(* runs, or it waits.                                                        *)
LEMMA ArriveKeepsTypes ==
    ASSUME CameraTypeOK, LaneIsBusy, ready' \in BOOLEAN, NEW call \in Job, Arrive(call)
    PROVE  /\ shown' \in Picture
           /\ activeJob' \in Job \cup {Nothing} /\ pendingJob' \in Job \cup {Nothing}
           /\ awaits' \in {"idle", "ready", "answer", "nothing"}
           /\ fate' \in [Versions -> {"none", "made", "completed", "replaced",
                                      "failed"}]
           /\ activeJob' = Nothing <=> awaits' = "idle"
           /\ {activeJob', pendingJob'} \subseteq {activeJob, pendingJob, call}
           /\ shown' \in {shown, cache[call.key]}
           /\ shown' # shown => call.version = version
<1>0. call # Nothing
  BY PreviewAssumption DEF Job, Versions
<1>1. call.version \in Versions /\ call.key \in Scene
  BY DEF Job
<1>2. CASE cache[call.key] # Nothing
  <2>1. /\ shown' = IF call.version = version THEN cache[call.key] ELSE shown
        /\ fate' = [fate EXCEPT ![call.version] = "completed"]
        /\ awaits' = Woken /\ activeJob' = activeJob /\ pendingJob' = pendingJob
    BY <1>2 DEF Arrive, Apply
  <2>2. shown' \in Picture
    BY <2>1, <1>1 DEF CameraTypeOK
  <2>3. fate' \in [Versions -> {"none", "made", "completed", "replaced",
                                "failed"}]
    BY <2>1, <1>1 DEF CameraTypeOK
  <2>4. awaits' \in {"idle", "ready", "answer", "nothing"} /\ (awaits' = "idle" <=> awaits = "idle")
    BY <2>1 DEF Woken, CameraTypeOK
  <2>5. activeJob' = Nothing <=> awaits' = "idle"
    BY <2>1, <2>4 DEF LaneIsBusy
  <2> QED BY <2>1, <2>2, <2>3, <2>4, <2>5 DEF CameraTypeOK
<1>3. CASE cache[call.key] = Nothing
  <2>1. Schedule(call) /\ shown' = shown
    BY <1>3 DEF Arrive
  <2>2. CASE activeJob = Nothing
    BY <2>1, <2>2, <1>0, <1>1 DEF Schedule, Start, CameraTypeOK, LaneIsBusy
  <2>3. CASE activeJob # Nothing
    BY <2>1, <2>3, <1>0, <1>1 DEF Schedule, Woken, CameraTypeOK, LaneIsBusy
  <2> QED BY <2>2, <2>3
<1> QED BY <1>2, <1>3

(* A job that ends makes room for the one that waits.                        *)
LEMMA EndsKeepsTypes ==
    ASSUME CameraTypeOK, LaneIsBusy, activeJob # Nothing, NEW outcome \in {"completed", "failed"},
           Ends(outcome)
    PROVE  /\ activeJob' \in Job \cup {Nothing} /\ pendingJob' \in Job \cup {Nothing}
           /\ awaits' \in {"idle", "ready", "answer"}
           /\ awaits' = "ready" => ~ready
           /\ fate' \in [Versions -> {"none", "made", "completed", "replaced",
                                      "failed"}]
           /\ activeJob' = Nothing <=> awaits' = "idle"
           /\ {activeJob', pendingJob'} \subseteq {activeJob, pendingJob, Nothing}
<1>1. activeJob.version \in Versions
  BY DEF CameraTypeOK, Job
<1>2. CASE pendingJob = Nothing
  BY <1>1, <1>2 DEF Ends, CameraTypeOK
<1>3. CASE pendingJob # Nothing
  BY <1>1, <1>3 DEF Ends, Start, CameraTypeOK
<1> QED BY <1>2, <1>3

(* An arriving job leaves no wait for a window the client knows ready.       *)
LEMMA ArriveKnowsReady ==
    ASSUME CameraTypeOK, ready' \in BOOLEAN, NEW call \in Job, Arrive(call), ready'
    PROVE  awaits' # "ready"
BY DEF Arrive, Schedule, Start, Woken, CameraTypeOK

(* What a timer asks for is a job of the present effect.                     *)
LEMMA AskedIsPresent ==
    ASSUME CameraTypeOK, LaneIsBusy, TimerFires
    PROVE  /\ Asked \in Job
           /\ Asked.version = version /\ Asked.key = key
           /\ "torn" \notin races => Asked.scene = key
BY DEF CameraTypeOK, LaneIsBusy, TimerFires, Asked, Job, Versions, Picture

-----------------------------------------------------------------------------
LEMMA PreviewInit == CameraInit => PreviewInv
<1> SUFFICES ASSUME CameraInit PROVE PreviewInv
  OBVIOUS
<1>1. CameraTypeOK
  <2>1. version \in 0 .. MaxVersions
    BY PreviewAssumption DEF CameraInit
  <2>2. /\ cache \in [Scene -> Picture]
        /\ fate \in [Versions -> {"none", "made", "completed", "replaced", "failed"}]
    BY DEF CameraInit, Picture
  <2> QED BY <2>1, <2>2 DEF CameraInit, CameraTypeOK, Picture
<1>2. LaneIsBusy /\ ReadyIsKnown /\ CacheIsTrue
  BY DEF CameraInit, LaneIsBusy, ReadyIsKnown, CacheIsTrue
<1>3. Unsettled = {}
  BY DEF CameraInit, Unsettled
<1> QED BY <1>1, <1>2, <1>3 DEF PreviewInv, JobsAreOfTheirVersion, JobsAreTrue

(* What a step does to the calls decides the two invariants about them.      *)
LEMMA JobsStay ==
    ASSUME PreviewInv, Unsettled' \subseteq Unsettled, version' = version, key' = key,
           races' = races
    PROVE  JobsAreOfTheirVersion' /\ JobsAreTrue'
BY DEF PreviewInv, JobsAreOfTheirVersion, JobsAreTrue

LEMMA JobsGrow ==
    ASSUME PreviewInv, TimerFires, Unsettled' \subseteq Unsettled \cup {Asked},
           races' = races
    PROVE  JobsAreOfTheirVersion' /\ JobsAreTrue'
<1>1. version' = version /\ key' = key
  BY DEF TimerFires
<1>2. /\ Asked.version = version /\ Asked.key = key
      /\ "torn" \notin races => Asked.scene = key
  BY AskedIsPresent DEF PreviewInv
<1>3. version \in Nat
  BY DEF PreviewInv, CameraTypeOK
<1> QED BY <1>1, <1>2, <1>3 DEF PreviewInv, JobsAreOfTheirVersion, JobsAreTrue

LEMMA PreviewStep == PreviewInv /\ [CameraNext]_cameraVars => PreviewInv'
<1> SUFFICES ASSUME PreviewInv, [CameraNext]_cameraVars
             PROVE  PreviewInv'
  OBVIOUS
<1> USE PreviewAssumption
<1>0. CameraTypeOK /\ LaneIsBusy /\ ReadyIsKnown /\ CacheIsTrue
  BY DEF PreviewInv
<1>1. ASSUME NEW s \in Picture, Render(s)
      PROVE  PreviewInv'
  <2>1. CameraTypeOK' /\ LaneIsBusy' /\ ReadyIsKnown' /\ CacheIsTrue'
    BY <1>0, <1>1 DEF Render, laneVars, CameraTypeOK, LaneIsBusy, ReadyIsKnown, CacheIsTrue
  <2>2. JobsAreOfTheirVersion' /\ JobsAreTrue'
    BY <1>1, JobsStay DEF Render, laneVars, Unsettled
  <2> QED BY <2>1, <2>2 DEF PreviewInv
<1>2. CASE Effect
  <2>0. version' \in 0 .. MaxVersions /\ version' > 0
    BY <1>0, <1>2 DEF Effect, CameraTypeOK, LaneIsBusy
  <2>1. CameraTypeOK'
    <3>1. timer' \in BOOLEAN
      BY <1>2 DEF Effect
    <3>2. shown' \in Picture
      BY <1>0, <1>2 DEF Effect, CameraTypeOK, Picture
    <3> QED BY <1>0, <1>2, <2>0, <3>1, <3>2 DEF Effect, laneVars, CameraTypeOK
  <2>2. LaneIsBusy' /\ ReadyIsKnown' /\ CacheIsTrue'
    <3>1. timer' => version' > 0 /\ key' # Nothing
      BY <1>2, <2>0 DEF Effect
    <3> QED BY <1>0, <1>2, <3>1 DEF Effect, laneVars, LaneIsBusy, ReadyIsKnown,
       CacheIsTrue
  <2>3. JobsAreOfTheirVersion' /\ JobsAreTrue'
    <3>1. Unsettled' = Unsettled /\ version' = version + 1 /\ races' = races
      BY <1>2 DEF Effect, laneVars, Unsettled
    <3>2. ASSUME NEW call \in Unsettled
          PROVE  call.version <= version' /\ call.version # version'
      <4>1. call \in Job
        BY <1>0 DEF CameraTypeOK, Unsettled
      <4>2. call.version \in Nat /\ version \in Nat
        BY <1>0, <4>1 DEF CameraTypeOK, Job, Versions
      <4>3. call.version <= version
        BY DEF PreviewInv, JobsAreOfTheirVersion
      <4> QED BY <3>1, <4>2, <4>3
    <3> QED BY <3>1, <3>2 DEF PreviewInv, JobsAreOfTheirVersion, JobsAreTrue
  <2> QED BY <2>1, <2>2, <2>3 DEF PreviewInv
<1>3. CASE FirstCall
  <2>1. TimerFires /\ Asked \in Job /\ version \in Versions /\ Asked # Nothing
    BY <1>0, <1>3, AskedIsPresent DEF FirstCall, Asked, Job, Versions
  <2>2. CameraTypeOK'
    BY <1>0, <1>3, <2>1 DEF FirstCall, TimerFires, laneVars, CameraTypeOK
  <2>3. LaneIsBusy' /\ ReadyIsKnown' /\ CacheIsTrue'
    BY <1>0, <1>3, <2>1
    DEF FirstCall, TimerFires, laneVars, LaneIsBusy, ReadyIsKnown, CacheIsTrue
  <2>4. JobsAreOfTheirVersion' /\ JobsAreTrue'
    BY <1>3, <2>1, JobsGrow DEF FirstCall, laneVars, Unsettled
  <2> QED BY <2>2, <2>3, <2>4 DEF PreviewInv
<1>4. CASE LaterCall
  <2>1. TimerFires /\ Asked \in Job /\ Arrive(Asked) /\ ready' = ready /\ ready \in BOOLEAN
    BY <1>0, <1>4, AskedIsPresent DEF LaterCall, CameraTypeOK
  <2>2. CameraTypeOK'
    BY <1>0, <1>4, <2>1, ArriveKeepsTypes DEF LaterCall, TimerFires, CameraTypeOK
  <2>3. LaneIsBusy' /\ CacheIsTrue'
    BY <1>0, <1>4, <2>1, ArriveKeepsTypes
    DEF LaterCall, TimerFires, LaneIsBusy, CacheIsTrue
  <2>4. ReadyIsKnown'
    BY <1>0, <1>4, <2>1, ArriveKnowsReady DEF LaterCall, ReadyIsKnown
  <2>5. Unsettled' \subseteq Unsettled \cup {Asked}
    BY <1>0, <1>4, <2>1, ArriveKeepsTypes DEF LaterCall, Unsettled
  <2>6. JobsAreOfTheirVersion' /\ JobsAreTrue'
    BY <1>4, <2>1, <2>5, JobsGrow DEF LaterCall
  <2> QED BY <2>2, <2>3, <2>4, <2>6 DEF PreviewInv
<1>5. CASE ListensToReady \/ ListensToAnswers
  <2>1. CameraTypeOK' /\ LaneIsBusy' /\ ReadyIsKnown' /\ CacheIsTrue'
    BY <1>0, <1>5 DEF ListensToReady, ListensToAnswers, hookVars, laneVars, CameraTypeOK,
       LaneIsBusy, ReadyIsKnown, CacheIsTrue
  <2>2. JobsAreOfTheirVersion' /\ JobsAreTrue'
    BY <1>5, JobsStay DEF ListensToReady, ListensToAnswers, hookVars, laneVars, Unsettled
  <2> QED BY <2>1, <2>2 DEF PreviewInv
<1>6. CASE Initialised
  <2>1. first \in Job /\ first # Nothing /\ Arrive(first) /\ ready' \in BOOLEAN
    BY <1>0, <1>6 DEF Initialised, CameraTypeOK, LaneIsBusy
  <2>2. CameraTypeOK'
    BY <1>0, <1>6, <2>1, ArriveKeepsTypes DEF Initialised, hookVars, CameraTypeOK
  <2>3. LaneIsBusy' /\ CacheIsTrue'
    BY <1>0, <1>6, <2>1, ArriveKeepsTypes
    DEF Initialised, hookVars, LaneIsBusy, CacheIsTrue
  <2>4. ReadyIsKnown'
    BY <1>0, <1>6, <2>1, ArriveKnowsReady DEF Initialised, ReadyIsKnown, CameraTypeOK
  <2>5. Unsettled' \subseteq Unsettled
    BY <1>0, <1>6, <2>1, ArriveKeepsTypes DEF Initialised, Unsettled
  <2>6. JobsAreOfTheirVersion' /\ JobsAreTrue'
    BY <1>6, <2>5, JobsStay DEF Initialised, hookVars
  <2> QED BY <2>2, <2>3, <2>4, <2>6 DEF PreviewInv
<1>7. CASE WindowReady
  <2>0. ready' \in BOOLEAN /\ (client = "done" => ready')
    BY <1>0, <1>7 DEF WindowReady, CameraTypeOK
  <2>1. /\ awaits' \in {"idle", "ready", "answer", "nothing"}
        /\ awaits' = "idle" <=> awaits = "idle"
        /\ ready' => awaits' # "ready"
    BY <1>0, <1>7 DEF WindowReady, Woken, CameraTypeOK
  <2>3. CameraTypeOK' /\ LaneIsBusy' /\ ReadyIsKnown' /\ CacheIsTrue'
    BY ZenonT(40), <1>0, <1>7, <2>0, <2>1 DEF WindowReady, hookVars, CameraTypeOK, LaneIsBusy,
       ReadyIsKnown, CacheIsTrue
  <2>2. JobsAreOfTheirVersion' /\ JobsAreTrue'
    BY <1>7, JobsStay DEF WindowReady, hookVars, Unsettled
  <2> QED BY <2>2, <2>3 DEF PreviewInv
<1>8. CASE ReadyTimesOut \/ RequestFails
  <2>1. Ends("failed") /\ activeJob # Nothing
    BY <1>0, <1>8 DEF ReadyTimesOut, RequestFails, LaneIsBusy
  <2>2. CameraTypeOK' /\ LaneIsBusy' /\ ReadyIsKnown' /\ CacheIsTrue'
    BY <1>0, <1>8, <2>1, EndsKeepsTypes DEF ReadyTimesOut, RequestFails, hookVars,
       CameraTypeOK, LaneIsBusy, ReadyIsKnown, CacheIsTrue
  <2>3. Unsettled' \subseteq Unsettled
    BY <1>0, <1>8, <2>1, EndsKeepsTypes DEF ReadyTimesOut, RequestFails, Unsettled
  <2>4. JobsAreOfTheirVersion' /\ JobsAreTrue'
    BY <1>8, <2>3, JobsStay DEF ReadyTimesOut, RequestFails, hookVars
  <2> QED BY <2>2, <2>4 DEF PreviewInv
<1>9. CASE Answered
  <2>1. Ends("completed") /\ activeJob # Nothing
    BY <1>0, <1>9 DEF Answered, LaneIsBusy
  <2>2. activeJob \in Job /\ activeJob.key \in Scene /\ activeJob.scene \in Scene
    BY <1>0, <2>1 DEF CameraTypeOK, Job
  <2>3. CameraTypeOK'
    BY <1>0, <1>9, <2>1, <2>2, EndsKeepsTypes
    DEF Answered, Apply, hookVars, CameraTypeOK, Picture
  <2>4. LaneIsBusy' /\ ReadyIsKnown'
    BY <1>0, <1>9, <2>1, EndsKeepsTypes
    DEF Answered, hookVars, LaneIsBusy, ReadyIsKnown
  <2>5. CacheIsTrue'
    BY <1>0, <1>9, <2>1, <2>2 DEF Answered, PreviewInv, JobsAreTrue, Unsettled,
       CacheIsTrue, CameraTypeOK
  <2>6. Unsettled' \subseteq Unsettled
    BY <1>0, <1>9, <2>1, EndsKeepsTypes DEF Answered, Unsettled
  <2>7. JobsAreOfTheirVersion' /\ JobsAreTrue'
    BY <1>9, <2>6, JobsStay DEF Answered, hookVars
  <2> QED BY <2>3, <2>4, <2>5, <2>7 DEF PreviewInv
<1>10. CASE AnswerIsMissed
  <2>1. CameraTypeOK' /\ LaneIsBusy' /\ ReadyIsKnown' /\ CacheIsTrue'
    BY <1>0, <1>10 DEF AnswerIsMissed, hookVars, CameraTypeOK, LaneIsBusy, ReadyIsKnown,
       CacheIsTrue
  <2>2. JobsAreOfTheirVersion' /\ JobsAreTrue'
    BY <1>10, JobsStay DEF AnswerIsMissed, hookVars, Unsettled
  <2> QED BY <2>1, <2>2 DEF PreviewInv
<1>11. CASE UNCHANGED cameraVars
  <2>1. CameraTypeOK' /\ LaneIsBusy' /\ ReadyIsKnown' /\ CacheIsTrue'
    BY <1>0, <1>11 DEF cameraVars, hookVars, laneVars, CameraTypeOK, LaneIsBusy, ReadyIsKnown,
       CacheIsTrue
  <2>2. JobsAreOfTheirVersion' /\ JobsAreTrue'
    BY <1>11, JobsStay DEF cameraVars, hookVars, laneVars, Unsettled
  <2> QED BY <2>1, <2>2 DEF PreviewInv
<1> QED
  BY <1>1, <1>2, <1>3, <1>4, <1>5, <1>6, <1>7, <1>8, <1>9, <1>10, <1>11
  DEF CameraNext, Hook, Client, Lane

-----------------------------------------------------------------------------
(* The invariant holds in every behaviour.                                   *)
THEOREM PreviewHolds == CameraSpec => []PreviewInv
<1> QED BY PreviewInit, PreviewStep, PTL DEF CameraSpec

(* The variables keep their types.                                           *)
THEOREM CameraTypesHold == CameraSpec => []CameraTypeOK
<1>1. PreviewInv => CameraTypeOK
  BY DEF PreviewInv
<1> QED BY <1>1, PreviewHolds, PTL

(* A cached picture is of the scene its key stands for.                      *)
THEOREM PicturesAreOfTheirKey == CameraSpec => []CacheIsTrue
<1>1. PreviewInv => CacheIsTrue
  BY DEF PreviewInv
<1> QED BY <1>1, PreviewHolds, PTL

(* No job of an initialised client waits for a window that is ready.         *)
THEOREM NobodyMissesReady == CameraSpec => []ReadyIsNotMissed
<1>1. PreviewInv => ReadyIsNotMissed
  BY DEF PreviewInv, ReadyIsKnown, ReadyIsNotMissed
<1> QED BY <1>1, PreviewHolds, PTL

(* Only an answer or the cache changes what is shown, and only to the        *)
(* present scene.                                                            *)
LEMMA AppliesPresent ==
    PreviewInv /\ [CameraNext]_cameraVars =>
        ("torn" \notin races => shown' \in {shown, Nothing, key})
<1> SUFFICES ASSUME PreviewInv, [CameraNext]_cameraVars, "torn" \notin races, shown' # shown
             PROVE  shown' \in {Nothing, key}
  OBVIOUS
<1> USE PreviewAssumption
<1>0. CameraTypeOK /\ LaneIsBusy /\ CacheIsTrue /\ JobsAreOfTheirVersion /\ JobsAreTrue
  BY DEF PreviewInv
<1>1. CASE LaterCall
  <2>1. Asked \in Job /\ Asked.key = key /\ Arrive(Asked) /\ ready' \in BOOLEAN
    BY <1>0, <1>1, AskedIsPresent DEF LaterCall, CameraTypeOK
  <2>2. shown' = cache[key] /\ key \in Scene
    BY <1>0, <2>1, ArriveKeepsTypes DEF Job
  <2> QED BY <1>0, <2>2 DEF CacheIsTrue
<1>2. CASE Initialised
  <2>1. first \in Job /\ first # Nothing /\ Arrive(first) /\ ready' \in BOOLEAN
    BY <1>0, <1>2 DEF Initialised, CameraTypeOK, LaneIsBusy
  <2>2. shown' = cache[first.key] /\ first.version = version /\ first.key \in Scene
    BY <1>0, <2>1, ArriveKeepsTypes DEF Job
  <2>3. first.key = key
    <3>1. first \in Unsettled
      BY <2>1 DEF Unsettled
    <3> QED BY <1>0, <2>2, <3>1 DEF JobsAreOfTheirVersion
  <2> QED BY <1>0, <2>2, <2>3 DEF CacheIsTrue
<1>3. CASE Answered
  <2>1. activeJob # Nothing /\ activeJob.version = version /\ shown' = activeJob.scene
    BY <1>0, <1>3 DEF Answered, Apply, LaneIsBusy
  <2>2. activeJob.key = key /\ activeJob.scene = activeJob.key
    <3>1. activeJob \in Unsettled
      BY <2>1 DEF Unsettled
    <3> QED BY <1>0, <2>1, <3>1 DEF JobsAreOfTheirVersion, JobsAreTrue
  <2> QED BY <2>1, <2>2
<1>4. CASE Effect
  BY <1>4 DEF Effect
<1> QED
  BY <1>1, <1>2, <1>3, <1>4 DEF CameraNext, Hook, Client, Lane, Render, FirstCall,
     ListensToReady, ListensToAnswers, WindowReady, ReadyTimesOut, RequestFails,
     AnswerIsMissed, cameraVars

(* The thumbnails never go back to a scene that is not the present one.      *)
THEOREM NothingStaleIsApplied == CameraSpec => OnlyPresentIsApplied
<1> QED BY PreviewHolds, AppliesPresent, PTL DEF CameraSpec, OnlyPresentIsApplied
=============================================================================
