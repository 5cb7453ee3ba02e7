---------------------- MODULE SessionsTruth_proofs --------------------------
(***************************************************************************)
(* A session that may be edited knows the file at its path, or it is on    *)
(* the way to know it: something that is still to be told makes it one     *)
(* that may not be edited, a rename that is still to be told takes it to a *)
(* path of which this is so, or it is being saved.  The same holds of what *)
(* was read for a session that is loading.  All this is where nothing      *)
(* races.                                                                  *)
(***************************************************************************)
EXTENDS WorkspaceSessions_proofs

IsHalf(n, x, y) == n.kind = "half" /\ n.path = x /\ n.mate = y

(* The halves of a rename come one after the other; until the second is      *)
(* handled the path that was left stays empty, and nothing else is told      *)
(* about it.                                                                 *)
GoesFirst(i) ==
    LET n == notices[i]
    IN  disk[n.path] = Gone /\ i + 1 \in DOMAIN notices /\ IsHalf(notices[i + 1], n.mate, n.path)
GoesSecond(i) ==
    LET n == notices[i]
    IN  /\ disk[n.mate] = Gone /\ ~Suppresses(n.path)
        /\ IF i = 1 THEN Waits(n.mate, n.path) ELSE IsHalf(notices[i - 1], n.mate, n.path)
        /\ \A k \in DOMAIN notices : Meets(notices[k].path, n.mate) => k = i - 1
        /\ pending # None /\ Meets(pending.path, n.mate) => i = 1
        /\ \A k \in DOMAIN notices : Meets(notices[k].path, n.path) => k >= i
        /\ pending # None => ~Meets(pending.path, n.path)
        /\ \A k \in DOMAIN events : ~Meets(events[k].path, n.mate) /\ ~Meets(events[k].path, n.path)
InPairs ==
    \A i \in DOMAIN notices :
        /\ notices[i].kind # "half" => notices[i].mate = None
        /\ notices[i].mate # None => GoesFirst(i) \/ GoesSecond(i)

(* So it is while the event of the rename, or the reply to the one who asked *)
(* for it, is on its way.                                                    *)
ToldAlone(k) ==
    LET x == events[k].path
    IN  /\ disk[x] = Gone
        /\ pending # None => ~Meets(pending.path, x)
        /\ \A i \in DOMAIN notices : ~Meets(notices[i].path, x)
        /\ \A i \in DOMAIN events : /\ Meets(events[i].path, x) => i = k
                                    /\ Meets(events[i].path, events[k].to) => i >= k
AskedAlone(x, y) ==
    /\ disk[x] = Gone /\ disk[y] # Gone
    /\ pending # None /\ Meets(pending.path, x) => Waits(x, y) /\ HalfOf(y, x)
    /\ \A k \in DOMAIN notices : Meets(notices[k].path, x) => IsHalf(notices[k], x, y)
    /\ \A k \in DOMAIN events : Meets(events[k].path, x) => events[k].kind = "rename"
    /\ pending # None => ~Meets(pending.path, y)
    /\ \A k \in DOMAIN notices : Meets(notices[k].path, y) => IsHalf(notices[k], y, x)
    /\ \A k \in DOMAIN events : ~Meets(events[k].path, y)
(* What a removal is told of is still gone.                                  *)
RemovedAreGone == \A k \in DOMAIN events : events[k].kind = "remove" => disk[events[k].path] = Gone

PairsInv ==
    /\ InPairs /\ RemovedAreGone
    /\ \A k \in DOMAIN events : events[k].kind = "rename" => ToldAlone(k)
    /\ \A n \in DOMAIN calls : calls[n].kind = "remap" => AskedAlone(calls[n].path, calls[n].to)
PairsHold == races = {} => PairsInv

(* What makes a session at p, which knows a stamp of S, one that may not be  *)
(* edited: that the file or a folder it is in was removed, or that there is  *)
(* a file with another stamp.  A half of which the other one comes is no     *)
(* removal, and no news of a file.                                           *)
MateComes(h) == \E j \in DOMAIN notices : Mates(h, notices[j]) /\ disk[notices[j].path] # Gone
Warns(n, p, S) ==
    \/ n.kind = "remove" /\ IsPrefix(n.path, p)
    \/ n.kind = "half" /\ disk[n.path] = Gone /\ ~MateComes(n) /\ IsPrefix(n.path, p)
    \/ n.kind # "remove" /\ n.mate = None /\ n.path = p /\ ~Suppresses(p) /\ disk[p] \notin S
Breaks(e, p, S) ==
    \/ e.kind = "remove" /\ IsPrefix(e.path, p)
    \/ e.kind \in {"create", "modify"} /\ e.path = p /\ StampOf(e) \notin S
Warned(p, S) ==
    \/ pending # None /\ IsPrefix(pending.path, p) /\ ~MateComes(pending)
    \/ \E i \in DOMAIN notices : Warns(notices[i], p, S)
    \/ \E i \in DOMAIN events : Breaks(events[i], p, S)

(* What is under x went to y, and the sessions will.                         *)
Passage(x, y) ==
    \/ HalfOf(y, x) /\ disk[y] # Gone
    \/ \E i \in DOMAIN events :
         events[i].kind = "rename" /\ events[i].path = x /\ events[i].to = y
    \/ \E i \in DOMAIN calls :
         calls[i].kind = "remap" /\ calls[i].path = x /\ calls[i].to = y

Knows(p, s, S) == At(p) = s \/ Warned(p, S)
WillKnow(p, s, S) ==
    \/ Knows(p, s, S)
    \/ \E x, y \in Path : Passage(x, y) /\ IsPrefix(x, p) /\ Knows(Remap(x, y, p), s, S)

(* What a step may not do to what is known.                                  *)
StaysKnown(p) ==
    \A s \in 1 .. stamps, S \in SUBSET (1 .. stamps) :
        s \in S /\ WillKnow(p, s, S) => WillKnow(p, s, S)'
KeepsKnown == \A p \in Seq(Name) : StaysKnown(p)

(* Something is told of x.                                                   *)
Heard(x) == Named(x) \/ \E i \in DOMAIN events : events[i].path = x
NoRemap(q) == \A n \in DOMAIN q : q[n].kind # "remap"
Adds(n) ==
    /\ IsSeq(notices')
    /\ \A i \in DOMAIN notices : i \in DOMAIN notices' /\ notices'[i] = notices[i]
    /\ \A i \in DOMAIN notices' : i \in DOMAIN notices \/ (i > Len(notices) /\ notices'[i] = n)
    /\ \E i \in DOMAIN notices' : notices'[i] = n
    /\ pending' = pending /\ events' = events

(* All that is known to hold where nothing races.                            *)
Sound ==
    /\ TypesInv /\ SessionsInv /\ PathsInv /\ ShowInv
    /\ PairsInv /\ races = {}
StaysInPairs == PairsInv' /\ KeepsKnown

-----------------------------------------------------------------------------
(* The path a half waits for, and those from which a rename leads, are gone. *)
LEMMA SecondIsHeard ==
    ASSUME NewsInv, NEW i \in DOMAIN notices, GoesSecond(i), notices[i].mate \in Path
    PROVE  Heard(notices[i].mate)
<1>1. i \in Nat /\ i >= 1 /\ DOMAIN notices = 1 .. Len(notices) /\ Len(notices) \in Nat
  BY ElementsOfSeq DEF NewsInv
<1>2. CASE i = 1
  BY <1>2 DEF GoesSecond, Waits, Heard, Named
<1>3. CASE i # 1
  <2>1. i - 1 \in DOMAIN notices
    BY <1>1, <1>3
  <2> QED BY <1>3, <2>1 DEF GoesSecond, IsHalf, Heard, Named
<1> QED BY <1>2, <1>3

(* A notice is added of a path that does not meet those.                     *)
LEMMA AddedPairs ==
    ASSUME NewsInv, PairsInv, NEW n, n.mate = None, Adds(n),
           \A x \in Path : disk[x] = Gone /\ Heard(x) => disk'[x] = Gone /\ ~Meets(n.path, x),
           \A x \in Path : Suppresses(x)' => Suppresses(x) \/ ~Came(x),
           NoRemap(calls')
    PROVE  PairsInv'
<1>1. ASSUME NEW i \in DOMAIN notices', notices'[i].mate # None PROVE (GoesFirst(i) \/ GoesSecond(i))'
  <2>1. i \in DOMAIN notices /\ notices'[i] = notices[i]
    BY <1>1 DEF Adds
  <2>2. PICK x, y : x = notices[i].mate /\ y = notices[i].path
    OBVIOUS
  <2>3. x \in Path /\ y \in Path /\ notices[i].kind = "half"
    BY <1>1, <2>1, <2>2 DEF NewsInv, PairsInv, InPairs
  <2>4. CASE GoesFirst(i)
    <3>1. disk[y] = Gone /\ i + 1 \in DOMAIN notices /\ IsHalf(notices[i + 1], x, y)
      BY <2>2, <2>4 DEF GoesFirst
    <3>2. Heard(y)
      BY <2>1, <2>2 DEF Heard, Named
    <3>3. disk'[y] = Gone /\ i + 1 \in DOMAIN notices' /\ notices'[i + 1] = notices[i + 1]
      BY <2>3, <3>1, <3>2 DEF Adds
    <3> QED BY <2>1, <2>2, <3>1, <3>3 DEF GoesFirst, IsHalf
  <2>5. CASE GoesSecond(i)
    <3>1. Heard(x) /\ disk[x] = Gone
      BY <2>1, <2>2, <2>3, <2>5, SecondIsHeard DEF GoesSecond
    <3>2. disk'[x] = Gone /\ ~Meets(n.path, x)
      BY <2>3, <3>1
    <3>3. ~Suppresses(y)'
      <4>1. ~Suppresses(y) /\ Came(y)
        BY <2>1, <2>2, <2>3, <2>5 DEF GoesSecond, Came
      <4> QED BY <2>3, <4>1
    <3>4. IF i = 1 THEN Waits(x, y)' ELSE IsHalf(notices'[i - 1], x, y)
      <4>1. i # 1 => i - 1 \in DOMAIN notices
        BY <2>1, ElementsOfSeq DEF NewsInv
      <4> QED BY <2>2, <2>5, <4>1 DEF GoesSecond, Waits, Adds
    <3>5. \A k \in DOMAIN notices' : Meets(notices'[k].path, x) => k = i - 1
      BY <2>2, <2>5, <3>2 DEF GoesSecond, Adds
    <3>6. /\ pending' # None /\ Meets(pending'.path, x) => i = 1
          /\ pending' # None => ~Meets(pending'.path, y)
          /\ \A k \in DOMAIN events' : ~Meets(events'[k].path, x) /\ ~Meets(events'[k].path, y)
      BY <2>2, <2>5 DEF GoesSecond, Adds
    <3>7. \A k \in DOMAIN notices' : Meets(notices'[k].path, y) => k >= i
      <4>1. i \in 1 .. Len(notices) /\ Len(notices) \in Nat
        BY <2>1, ElementsOfSeq DEF NewsInv
      <4>2. \A k \in DOMAIN notices' : k \in DOMAIN notices \/ k > Len(notices)
        BY DEF Adds
      <4>3. ASSUME NEW k \in DOMAIN notices', k > Len(notices) PROVE k >= i
        <5>1. k \in Nat
          BY ElementsOfSeq DEF Adds
        <5> QED BY <4>1, <4>3, <5>1
      <4>4. ASSUME NEW k \in DOMAIN notices, Meets(notices'[k].path, y) PROVE k >= i
        BY <2>2, <2>5, <4>4 DEF GoesSecond, Adds
      <4> QED BY <4>2, <4>3, <4>4
    <3> QED BY <2>1, <2>2, <3>2, <3>3, <3>4, <3>5, <3>6, <3>7 DEF GoesSecond, Suppresses
  <2> QED BY <1>1, <2>1, <2>4, <2>5 DEF PairsInv, InPairs
<1>2. \A i \in DOMAIN notices' : notices'[i].kind # "half" => notices'[i].mate = None
  BY DEF PairsInv, InPairs, Adds
<1>3. ASSUME NEW k \in DOMAIN events', events'[k].kind = "rename" PROVE ToldAlone(k)'
  <2>1. k \in DOMAIN events /\ ToldAlone(k) /\ events'[k] = events[k]
    BY <1>3 DEF PairsInv, Adds
  <2>2. PICK x : x = events[k].path
    OBVIOUS
  <2>3. x \in Path /\ Heard(x) /\ disk[x] = Gone
    BY <2>1, <2>2 DEF NewsInv, Heard, ToldAlone
  <2>4. disk'[x] = Gone /\ ~Meets(n.path, x)
    BY <2>3
  <2>5. \A i \in DOMAIN notices' : ~Meets(notices'[i].path, x)
    BY <2>1, <2>2, <2>4 DEF ToldAlone, Adds
  <2>6. /\ pending' # None => ~Meets(pending'.path, x)
        /\ \A i \in DOMAIN events' : /\ Meets(events'[i].path, x) => i = k
                                     /\ Meets(events'[i].path, events'[k].to) => i >= k
    BY <2>1, <2>2 DEF ToldAlone, Adds
  <2> QED BY <2>1, <2>2, <2>4, <2>5, <2>6 DEF ToldAlone
<1>4. RemovedAreGone'
  <2>1. SUFFICES ASSUME NEW k \in DOMAIN events, events[k].kind = "remove"
                 PROVE  disk'[events[k].path] = Gone
    BY DEF RemovedAreGone, Adds
  <2>2. events[k].path \in Path /\ Heard(events[k].path) /\ disk[events[k].path] = Gone
    BY <2>1 DEF NewsInv, Heard, PairsInv, RemovedAreGone
  <2> QED BY <2>2
<1> QED BY <1>1, <1>2, <1>3, <1>4 DEF PairsInv, InPairs, NoRemap

(* What was to be told of is still to be told, when a notice is added.       *)
LEMMA AddedWarns ==
    ASSUME NewsInv, NEW n, n.mate = None, Adds(n),
           \A x \in Path : disk[x] = Gone /\ Heard(x) => disk'[x] = Gone,
           NEW p, NEW S, Warned(p, S),
           p \in Path => \/ disk'[p] = disk[p] /\ (Suppresses(p)' => Suppresses(p))
                         \/ ~Suppresses(p)' /\ disk'[p] \notin S
    PROVE  Warned(p, S)'
<1>1. ASSUME NEW h, h.path \in Path, h.mate = None \/ h.mate \in Path, ~MateComes(h)
      PROVE  ~MateComes(h)'
  <2>1. SUFFICES ASSUME NEW j \in DOMAIN notices', Mates(h, notices'[j]), disk'[notices'[j].path] # Gone
                 PROVE  FALSE
    BY DEF MateComes, Mates
  <2>2. notices'[j].mate = h.path /\ h.path # None
    BY <1>1, <2>1, SessionsAssumption DEF Mates
  <2>3. j \in DOMAIN notices /\ notices'[j] = notices[j]
    BY <2>1, <2>2 DEF Adds
  <2>4. notices[j].path \in Path /\ Heard(notices[j].path)
    BY <2>3 DEF NewsInv, Heard, Named
  <2>5. disk[notices[j].path] = Gone
    BY <1>1, <2>1, <2>3 DEF MateComes
  <2> QED BY <2>1, <2>3, <2>4, <2>5
<1>2. CASE pending # None /\ IsPrefix(pending.path, p) /\ ~MateComes(pending)
  <2>1. ~MateComes(pending)'
    <3>1. PICK h : h = pending
      OBVIOUS
    <3>2. ~MateComes(h)
      BY <1>2, <3>1 DEF MateComes, Mates
    <3>3. SUFFICES ASSUME NEW j \in DOMAIN notices', Mates(h, notices'[j]), disk'[notices'[j].path] # Gone
                   PROVE  FALSE
      BY <3>1 DEF MateComes, Mates, Adds
    <3>4. pending.path \in Path /\ notices'[j].mate = pending.path
      BY <1>2, <3>1, <3>3 DEF NewsInv, Mates
    <3>5. j \in DOMAIN notices /\ notices'[j] = notices[j]
      BY <3>3, <3>4, SessionsAssumption DEF Adds
    <3>6. notices[j].path \in Path /\ Heard(notices[j].path)
      BY <3>5 DEF NewsInv, Heard, Named
    <3> QED BY <3>2, <3>3, <3>5, <3>6 DEF MateComes
  <2> QED BY <1>2, <2>1 DEF Warned, Adds
<1>3. ASSUME NEW i \in DOMAIN notices, Warns(notices[i], p, S) PROVE Warned(p, S)'
  <2>1. PICK h : h = notices[i]
    OBVIOUS
  <2>2. h.path \in Path /\ (h.mate = None \/ h.mate \in Path)
    BY <2>1 DEF NewsInv
  <2>3. i \in DOMAIN notices' /\ notices'[i] = h
    BY <2>1 DEF Adds
  <2>4. CASE h.kind = "remove" /\ IsPrefix(h.path, p)
    BY <2>3, <2>4 DEF Warned, Warns
  <2>5. CASE h.kind = "half" /\ disk[h.path] = Gone /\ ~MateComes(h) /\ IsPrefix(h.path, p)
    <3>1. disk'[h.path] = Gone
      BY <2>1, <2>2, <2>5 DEF Heard, Named
    <3>2. ~MateComes(h)'
      BY <1>1, <2>2, <2>5
    <3>3. ~MateComes(notices[i])'
      BY <2>3, <3>2 DEF MateComes, Mates
    <3> QED BY <2>3, <2>5, <3>1, <3>3 DEF Warned, Warns
  <2>6. CASE h.kind # "remove" /\ h.mate = None /\ h.path = p /\ ~Suppresses(p) /\ disk[p] \notin S
    <3>1. ~Suppresses(p)' /\ disk'[p] \notin S
      BY <2>2, <2>6
    <3> QED BY <2>3, <2>6, <3>1 DEF Warned, Warns, Suppresses
  <2>7. Warns(h, p, S)
    BY <1>3, <2>1
  <2> QED BY <2>4, <2>5, <2>6, <2>7 DEF Warns
<1>4. ASSUME NEW i \in DOMAIN events, Breaks(events[i], p, S) PROVE Warned(p, S)'
  <2>1. i \in DOMAIN events' /\ events'[i] = events[i]
    BY DEF Adds
  <2> QED BY <1>4, <2>1 DEF Warned, Breaks, StampOf
<1> QED BY <1>2, <1>3, <1>4 DEF Warned

(* The other end of a rename goes: the one that was left warns.              *)
LEMMA OtherEndGoes ==
    ASSUME NewsInv, PairsInv, NEW n, n.mate = None, Adds(n),
           \A x \in Path : disk[x] = Gone /\ Heard(x) => disk'[x] = Gone,
           NEW x \in Path, NEW y \in Path, HalfOf(y, x), disk[y] # Gone, disk'[y] = Gone,
           NEW p, IsPrefix(x, p), NEW S
    PROVE  Warned(p, S)'
<1>1. PICK j \in DOMAIN notices : IsHalf(notices[j], y, x)
  BY DEF HalfOf, IsHalf
<1>2. GoesSecond(j)
  BY <1>1, SessionsAssumption DEF PairsInv, InPairs, IsHalf, GoesFirst
<1>3. disk'[x] = Gone
  BY <1>1, <1>2, SecondIsHeard DEF IsHalf, GoesSecond
<1>4. ASSUME NEW h, h.path = x, h.mate = y PROVE ~MateComes(h)'
  BY <1>4 DEF MateComes, Mates
<1>5. CASE j = 1
  <2>1. Waits(x, y) /\ pending' = pending
    BY <1>1, <1>2, <1>5 DEF GoesSecond, IsHalf, Adds
  <2>2. ~MateComes(pending)'
    BY <2>1 DEF MateComes, Mates, Waits
  <2> QED BY <2>1, <2>2 DEF Warned, Waits
<1>6. CASE j # 1
  <2>1. j - 1 \in DOMAIN notices
    BY <1>6, ElementsOfSeq DEF NewsInv
  <2>2. IsHalf(notices[j - 1], x, y)
    BY <1>1, <1>2, <1>6 DEF GoesSecond, IsHalf
  <2>3. j - 1 \in DOMAIN notices' /\ notices'[j - 1] = notices[j - 1]
    BY <2>1 DEF Adds
  <2>4. ~MateComes(notices[j - 1])'
    BY <2>2, <2>3 DEF MateComes, Mates, IsHalf
  <2> QED BY <1>3, <2>2, <2>3, <2>4 DEF Warned, Warns, IsHalf
<1> QED BY <1>5, <1>6

(* What is known stays known, but for the files in X.                        *)
LEMMA AddedKnown ==
    ASSUME NewsInv, PairsInv, NEW n, n.mate = None, Adds(n),
           \A x \in Path : disk[x] = Gone /\ Heard(x) => disk'[x] = Gone,
           NEW X, \A p \in Path : \/ p \in X
                                  \/ disk'[p] = disk[p] /\ (Suppresses(p)' => Suppresses(p))
                                  \/ /\ ~Suppresses(p)' /\ disk'[p] \notin 1 .. stamps
                                     /\ \A S \in SUBSET (1 .. stamps) : Warns(n, p, S)',
           \A m \in DOMAIN calls : calls[m].kind = "remap" => \E k \in DOMAIN calls' : calls'[k] = calls[m],
           NEW p \in Seq(Name), p \notin X,
           \A x, y \in Path : Passage(x, y) /\ IsPrefix(x, p) => Remap(x, y, p) \notin X
    PROVE  StaysKnown(p)
<1>1. SUFFICES ASSUME NEW s \in 1 .. stamps, NEW S \in SUBSET (1 .. stamps), s \in S, WillKnow(p, s, S)
               PROVE  WillKnow(p, s, S)'
  BY DEF StaysKnown
<1>2. ASSUME NEW r, r \notin X, Warned(r, S) PROVE Warned(r, S)'
  <2>1. r \in Path => \/ disk'[r] = disk[r] /\ (Suppresses(r)' => Suppresses(r))
                      \/ ~Suppresses(r)' /\ disk'[r] \notin S
    BY <1>2
  <2> QED BY <1>2, <2>1, AddedWarns
<1>3. ASSUME NEW r, r \notin X, Knows(r, s, S) PROVE Knows(r, s, S)'
  <2>1. CASE Warned(r, S)
    BY <1>2, <1>3, <2>1 DEF Knows
  <2>2. CASE At(r) = s
    <3>1. r \in Path /\ disk[r] = s
      <4>1. s \in Nat /\ Gone \notin Nat
        BY SessionsAssumption
      <4> QED BY <2>2, <4>1 DEF At
    <3>2. CASE disk'[r] = disk[r]
      BY <3>1, <3>2 DEF Knows, At
    <3>3. CASE Warns(n, r, S)'
      <4>1. \E i \in DOMAIN notices' : notices'[i] = n
        BY DEF Adds
      <4> QED BY <3>3, <4>1 DEF Knows, Warned, Warns, MateComes, Mates
    <3> QED BY <1>3, <3>1, <3>2, <3>3
  <2> QED BY <1>3, <2>1, <2>2 DEF Knows
<1>4. CASE Knows(p, s, S)
  BY <1>3, <1>4 DEF WillKnow
<1>5. ASSUME NEW x \in Path, NEW y \in Path, Passage(x, y), IsPrefix(x, p), Knows(Remap(x, y, p), s, S)
      PROVE  WillKnow(p, s, S)'
  <2>1. PICK r : r = Remap(x, y, p)
    OBVIOUS
  <2>2. Knows(r, s, S)'
    BY <1>3, <1>5, <2>1
  <2>3. Knows(Remap(x, y, p), s, S)'
    BY <2>1, <2>2 DEF Knows, At, Warned, Warns, Breaks, Suppresses
  <2>4. Passage(x, y)' \/ Warned(p, S)'
    <3>1. CASE HalfOf(y, x) /\ disk[y] # Gone
      <4>1. CASE disk'[y] = Gone
        BY <1>5, <3>1, <4>1, OtherEndGoes
      <4>2. CASE disk'[y] # Gone
        <5>1. HalfOf(y, x)'
          BY <3>1 DEF HalfOf, Adds
        <5> QED BY <4>2, <5>1 DEF Passage
      <4> QED BY <4>1, <4>2
    <3>2. CASE \E i \in DOMAIN events :
                 events[i].kind = "rename" /\ events[i].path = x /\ events[i].to = y
      BY <3>2 DEF Passage, Adds
    <3>3. CASE \E i \in DOMAIN calls :
                 calls[i].kind = "remap" /\ calls[i].path = x /\ calls[i].to = y
      BY <3>3 DEF Passage
    <3> QED BY <1>5, <3>1, <3>2, <3>3 DEF Passage
  <2> QED BY <1>5, <2>3, <2>4 DEF WillKnow, Knows
<1> QED BY <1>1, <1>4, <1>5 DEF WillKnow

LEMMA AddedKeeps ==
    ASSUME Sound, NEW n, n.mate = None, Adds(n),
           \A x \in Path : disk[x] = Gone /\ Heard(x) => disk'[x] = Gone,
           \A p \in Path : \/ disk'[p] = disk[p] /\ (Suppresses(p)' => Suppresses(p))
                           \/ /\ ~Suppresses(p)' /\ disk'[p] \notin 1 .. stamps
                              /\ \A S \in SUBSET (1 .. stamps) : Warns(n, p, S)',
           NoRemap(calls)
    PROVE  KeepsKnown
<1> SUFFICES ASSUME NEW p \in Seq(Name) PROVE StaysKnown(p)
  BY DEF KeepsKnown
<1>1. PICK X : X = {}
  OBVIOUS
<1>2. \A q \in Path : \/ q \in X
                      \/ disk'[q] = disk[q] /\ (Suppresses(q)' => Suppresses(q))
                      \/ /\ ~Suppresses(q)' /\ disk'[q] \notin 1 .. stamps
                         /\ \A S \in SUBSET (1 .. stamps) : Warns(n, q, S)'
  OBVIOUS
<1>3. \A m \in DOMAIN calls : calls[m].kind = "remap" => \E k \in DOMAIN calls' : calls'[k] = calls[m]
  BY DEF NoRemap
<1>4. p \notin X /\ \A x, y \in Path : Passage(x, y) /\ IsPrefix(x, p) => Remap(x, y, p) \notin X
  BY <1>1
<1>5. NewsInv /\ PairsInv
  BY DEF Sound, PathsInv
<1> QED BY Zenon, <1>2, <1>3, <1>4, <1>5, AddedKnown

-----------------------------------------------------------------------------
(* A path is calm, or has a file: it meets none that is gone and heard of.   *)
LEMMA CalmIsUnheard ==
    ASSUME Sound, NEW p, Calm(p), NEW x, Heard(x)
    PROVE  ~Meets(p, x)
BY DEF Calm, Admits, Told, Heard, Named, Sound

LEMMA FilesAreUnheard ==
    ASSUME Sound, NEW p \in Path, disk[p] \notin {Gone, Folder}, NEW x \in Path, disk[x] = Gone
    PROVE  ~Meets(p, x)
<1>1. ~IsPrefix(x, p)
  BY DEF Sound, PathsInv, IsATree
<1>2. ~IsPrefix(p, x)
  BY NothingBelowFiles DEF Sound, ShowInv
<1> QED BY <1>1, <1>2 DEF Meets

LEMMA SoundTypes ==
    ASSUME Sound
    PROVE  /\ stamps \in Nat /\ stamps + 1 \notin 1 .. stamps /\ stamps + 1 \notin {Gone, Folder, None}
           /\ Gone \notin 1 .. stamps /\ Folder \notin 1 .. stamps /\ None \notin 1 .. stamps
           /\ \A p \in Path : disk[p] \in {Gone, Folder} \cup 1 .. stamps
           /\ \A p \in Path : expected[p] \in {None} \cup 1 .. stamps
           /\ \A p : [disk EXCEPT ![p] = stamps + 1] =
                       [q \in Path |-> IF q = p THEN stamps + 1 ELSE disk[q]]
           /\ \A p : [expected EXCEPT ![p] = stamps + 1] =
                       [q \in Path |-> IF q = p THEN stamps + 1 ELSE expected[q]]
<1>1. stamps \in Nat /\ disk \in Disks(stamps) /\ expected \in Marks(stamps)
  BY DEF Sound, TypesInv, FilesTyped
<1>2. stamps + 1 \notin {Gone, Folder, None}
  BY <1>1, NoMarkIsAStamp
<1>3. stamps + 1 \notin 1 .. stamps /\ \A k \in 1 .. stamps : k \in Nat
  BY <1>1
<1>4. Gone \notin 1 .. stamps /\ Folder \notin 1 .. stamps /\ None \notin 1 .. stamps
  BY <1>3, SessionsAssumption
<1>5. \A p \in Path : disk[p] \in {Gone, Folder} \cup 1 .. stamps
  BY <1>1 DEF Disks
<1>6. \A p \in Path : expected[p] \in {None} \cup 1 .. stamps
  BY <1>1 DEF Marks
<1>7. \A p : [disk EXCEPT ![p] = stamps + 1] = [q \in Path |-> IF q = p THEN stamps + 1 ELSE disk[q]]
  BY <1>1 DEF Disks
<1>8. \A p : [expected EXCEPT ![p] = stamps + 1]
               = [q \in Path |-> IF q = p THEN stamps + 1 ELSE expected[q]]
  BY <1>1 DEF Marks
<1> QED BY <1>1, <1>2, <1>3, <1>4, <1>5, <1>6, <1>7, <1>8

LEMMA FileKnown ==
    ASSUME Sound, NEW p \in Path, NEW n, n.path = p, n.mate = None, n.kind # "remove", Adds(n),
           Free(p) \/ disk[p] \notin {Gone, Folder},
           stamps' = stamps + 1, disk' = [disk EXCEPT ![p] = stamps'], expected' = expected,
           NoRemap(calls), NoRemap(calls')
    PROVE  StaysInPairs
<1>1. /\ disk'[p] = stamps + 1
      /\ \A q \in Path : q # p => disk'[q] = disk[q]
  BY SoundTypes
<1>2. ASSUME NEW x \in Path, disk[x] = Gone, Heard(x) PROVE disk'[x] = Gone /\ ~Meets(p, x)
  <2>1. ~Meets(p, x)
    BY <1>2, CalmIsUnheard, FilesAreUnheard DEF Free
  <2>2. p # x
    BY <2>1, PathsAreNames DEF Meets
  <2> QED BY <1>1, <1>2, <2>1, <2>2
<1>3. ~Suppresses(p)' /\ \A x \in Path : Suppresses(x)' => Suppresses(x)
  BY <1>1, SoundTypes DEF Suppresses
<1>4. PairsInv'
  BY <1>2, <1>3, AddedPairs DEF Sound, PathsInv
<1>5. ASSUME NEW q \in Path
      PROVE  \/ disk'[q] = disk[q] /\ (Suppresses(q)' => Suppresses(q))
             \/ /\ ~Suppresses(q)' /\ disk'[q] \notin 1 .. stamps
                /\ \A S \in SUBSET (1 .. stamps) : Warns(n, q, S)'
  <2>1. CASE q # p
    BY <1>1, <1>3, <2>1
  <2>2. CASE q = p
    <3>1. disk'[p] \notin 1 .. stamps
      BY <1>1, SoundTypes
    <3>2. \A S \in SUBSET (1 .. stamps) : Warns(n, p, S)'
      BY <1>3, <3>1 DEF Warns, Suppresses
    <3> QED BY <1>3, <2>2, <3>1, <3>2
  <2> QED BY <2>1, <2>2
<1> QED BY <1>2, <1>4, <1>5, AddedKeeps DEF StaysInPairs

LEMMA GoingKnown ==
    ASSUME Sound, NEW p \in Path, NEW n, n.path = p, n.mate = None, n.kind \in {"remove", "half"},
           Adds(n), Calm(p) \/ disk[p] \notin {Gone, Folder},
           disk' = Prune(disk, p), expected' = expected, stamps' = stamps,
           NoRemap(calls), NoRemap(calls')
    PROVE  StaysInPairs
<1>1. /\ \A q \in Path : disk'[q] = IF IsPrefix(p, q) THEN Gone ELSE disk[q]
      /\ disk'[p] = Gone
  <2>1. \A q \in Path : disk'[q] = IF IsPrefix(p, q) THEN Gone ELSE disk[q]
    BY DEF Prune
  <2> QED BY <2>1, PathsAreNames
<1>2. ASSUME NEW x \in Path, disk[x] = Gone, Heard(x) PROVE disk'[x] = Gone /\ ~Meets(p, x)
  BY <1>1, <1>2, CalmIsUnheard, FilesAreUnheard
<1>3. \A x \in Path : Suppresses(x)' => Suppresses(x) /\ disk'[x] = disk[x]
  BY <1>1, SoundTypes DEF Suppresses
<1>4. PairsInv'
  BY <1>2, <1>3, AddedPairs DEF Sound, PathsInv
<1>5. ~MateComes(n)'
  <2>1. \A j \in DOMAIN notices' : notices'[j].path \in Path
    BY DEF Adds, Sound, PathsInv, NewsInv
  <2> QED BY <2>1, SessionsAssumption DEF MateComes, Mates
<1>6. ASSUME NEW q \in Path
      PROVE  \/ disk'[q] = disk[q] /\ (Suppresses(q)' => Suppresses(q))
             \/ /\ ~Suppresses(q)' /\ disk'[q] \notin 1 .. stamps
                /\ \A S \in SUBSET (1 .. stamps) : Warns(n, q, S)'
  <2>1. CASE ~IsPrefix(p, q)
    BY <1>1, <1>3, <2>1
  <2>2. CASE IsPrefix(p, q)
    <3>1. disk'[q] = Gone /\ disk'[q] \notin 1 .. stamps
      BY <1>1, <2>2, SoundTypes
    <3>2. ~Suppresses(q)'
      BY <3>1, SoundTypes DEF Suppresses
    <3>3. \A S \in SUBSET (1 .. stamps) : Warns(n, q, S)'
      BY <1>1, <1>5, <2>2 DEF Warns, MateComes, Mates
    <3> QED BY <3>1, <3>2, <3>3
  <2> QED BY <2>1, <2>2
<1> QED BY <1>2, <1>4, <1>6, AddedKeeps DEF StaysInPairs

-----------------------------------------------------------------------------
(* An entry is renamed or moved.                                             *)
LEMMA HalvesAtTheEnd ==
    ASSUME NewsInv, NEW p, NEW to, notices' = notices \o Halves(p, to)
    PROVE  /\ Len(notices) \in Nat /\ DOMAIN notices = 1 .. Len(notices)
           /\ DOMAIN notices' = 1 .. Len(notices) + 2
           /\ \A i \in DOMAIN notices : i \in DOMAIN notices' /\ notices'[i] = notices[i]
           /\ IsHalf(notices'[Len(notices) + 1], p, to)
           /\ IsHalf(notices'[Len(notices) + 2], to, p)
<1>1. PICK a, b : /\ a = [kind |-> "half", path |-> p, mate |-> to]
                  /\ b = [kind |-> "half", path |-> to, mate |-> p]
  OBVIOUS
<1>2. IsHalf(a, p, to) /\ IsHalf(b, to, p) /\ notices' = notices \o <<a, b>>
  BY <1>1 DEF IsHalf, Halves
<1>3. PICK t : t = <<a, b>>
  OBVIOUS
<1>4. IsSeq(t) /\ DOMAIN t = {1, 2} /\ t[1] = a /\ t[2] = b /\ Len(t) = 2
  BY <1>3, ShortSeqs
<1>5. IsSeq(notices)
  BY DEF NewsInv
<1>6. /\ IsSeq(notices \o t) /\ Len(notices \o t) = Len(notices) + Len(t)
      /\ \A n \in DOMAIN notices : n \in DOMAIN (notices \o t) /\ (notices \o t)[n] = notices[n]
      /\ \A n \in DOMAIN t : Len(notices) + n \in DOMAIN (notices \o t)
                             /\ (notices \o t)[Len(notices) + n] = t[n]
  BY <1>4, <1>5, JoinedSeq
<1>7. Len(notices) \in Nat /\ DOMAIN notices = 1 .. Len(notices)
  BY <1>5, ElementsOfSeq
<1>8. DOMAIN notices' = 1 .. Len(notices) + 2
  BY <1>2, <1>3, <1>4, <1>6, ElementsOfSeq
<1> QED BY <1>2, <1>3, <1>4, <1>6, <1>7, <1>8

(* What is under p, and only that, is then under to.                         *)
LEMMA RenamedPaths ==
    ASSUME Sound, NEW p \in Path, NEW to \in Path, disk[p] # Gone, disk[to] = Gone, HasParent(disk, to),
           Fits(p, to), disk' = Renamed(disk, p, to)
    PROVE  /\ disk'[p] = Gone /\ disk'[to] = disk[p]
           /\ \A q \in Path : ~IsPrefix(p, q) /\ ~IsPrefix(to, q) => disk'[q] = disk[q]
           /\ \A q \in Path : IsPrefix(to, q) => disk[q] = Gone
           /\ \A q \in Path : IsPrefix(p, q) /\ disk[q] # Gone =>
                 Remap(p, to, q) \in Path /\ disk'[Remap(p, to, q)] = disk[q]
<1>1. ~Meets(p, to) /\ IsATree
  BY DEF Fits, Sound, PathsInv
<1>2. \A q \in Path : ~IsPrefix(to, q) => disk'[q] = IF IsPrefix(p, q) THEN Gone ELSE disk[q]
  BY <1>1, RenamedTree
<1>3. \A q \in Path : q \in Seq(Name) /\ IsPrefix(q, q)
  BY PathsAreNames
<1>4. \A q \in Path : IsPrefix(to, q) => disk[q] = Gone
  BY <1>1 DEF IsATree
<1>5. ASSUME NEW q \in Path, IsPrefix(p, q), disk[q] # Gone
      PROVE  Remap(p, to, q) \in Path /\ disk'[Remap(p, to, q)] = disk[q]
  <2>1. PICK r : r = Remap(p, to, q)
    OBVIOUS
  <2>2. r \in Path
    BY <1>5, <2>1 DEF Fits, Under, Path
  <2>3. IsPrefix(to, r) /\ Remap(to, p, r) = q
    BY <1>3, <1>5, <2>1, RemapMoves, RemapBack
  <2>4. disk'[r] = disk[q]
    BY <1>5, <2>2, <2>3 DEF Renamed
  <2> QED BY <2>1, <2>2, <2>4
<1>6. disk'[p] = Gone
  BY <1>1, <1>2, <1>3 DEF Meets
<1>7. Remap(p, to, p) = to
  BY <1>3, RemapBack
<1> QED BY <1>2, <1>3, <1>4, <1>5, <1>6, <1>7

LEMMA RenameUnheard ==
    ASSUME Sound, NEW p \in Path, NEW to \in Path, Calm(p), Calm(to), disk[p] # Gone, disk[to] = Gone,
           HasParent(disk, to), Fits(p, to), disk' = Renamed(disk, p, to)
    PROVE  /\ \A x : Heard(x) => ~Meets(p, x) /\ ~Meets(to, x)
           /\ \A x \in Path : Heard(x) => disk'[x] = disk[x]
           /\ \A x, y \in Path : Passage(x, y) /\ NoRemap(calls) => ~Meets(p, y) /\ ~Meets(to, y)
<1>1. \A x : Heard(x) => ~Meets(p, x) /\ ~Meets(to, x)
  BY CalmIsUnheard
<1>2. \A x \in Path : Heard(x) => disk'[x] = disk[x]
  BY <1>1, RenamedPaths DEF Meets
<1>3. ASSUME NEW x \in Path, NEW y \in Path, Passage(x, y), NoRemap(calls)
      PROVE  ~Meets(p, y) /\ ~Meets(to, y)
  <2>1. CASE HalfOf(y, x)
    <3>1. Heard(y)
      BY <2>1 DEF HalfOf, Heard, Named
    <3> QED BY <1>1, <3>1
  <2>2. CASE \E i \in DOMAIN events :
               events[i].kind = "rename" /\ events[i].path = x /\ events[i].to = y
    <3>1. y # <<>>
      BY PathsAreNames
    <3> QED BY <2>2, <3>1 DEF Calm, Admits, Told, Sound
  <2> QED BY <1>3, <2>1, <2>2 DEF Passage, NoRemap
<1> QED BY <1>1, <1>2, <1>3

Relocated(p, to) ==
    /\ disk[p] # Gone /\ disk[to] = Gone /\ HasParent(disk, to)
    /\ Calm(p) /\ Calm(to) /\ Fits(p, to) /\ Takes(p, to)
    /\ disk' = Renamed(disk, p, to)
    /\ notices' = notices \o Halves(p, to)
    /\ events' = events /\ pending' = pending /\ expected' = expected /\ stamps' = stamps
    /\ NoRemap(calls)
    /\ \A n \in DOMAIN calls' : calls'[n].kind = "remap" => calls'[n].path = p /\ calls'[n].to = to

LEMMA RenamePairs ==
    ASSUME Sound, NEW p \in Path, NEW to \in Path, Relocated(p, to)
    PROVE  PairsInv'
<1>0. PICK L : L = Len(notices)
  OBVIOUS
<1>1. NewsInv /\ PairsInv /\ races = {}
  BY DEF Sound, PathsInv
<1>2. /\ L \in Nat /\ DOMAIN notices = 1 .. L /\ DOMAIN notices' = 1 .. L + 2
      /\ \A i \in DOMAIN notices : i \in DOMAIN notices' /\ notices'[i] = notices[i]
      /\ IsHalf(notices'[L + 1], p, to) /\ IsHalf(notices'[L + 2], to, p)
  BY <1>0, <1>1, HalvesAtTheEnd DEF Relocated
<1>3. /\ \A x : Heard(x) => ~Meets(p, x) /\ ~Meets(to, x)
      /\ \A x \in Path : Heard(x) => disk'[x] = disk[x]
  BY RenameUnheard DEF Relocated
<1>4. disk'[p] = Gone /\ disk'[to] = disk[p] /\ disk'[to] # Gone
  BY RenamedPaths DEF Relocated
<1>5. ~Meets(p, to) /\ ~Meets(to, p)
  BY DEF Relocated, Fits, Meets
<1>6. pending' = pending /\ events' = events /\ expected' = expected
  BY DEF Relocated
<1>7. \A i \in DOMAIN notices : Heard(notices[i].path)
  BY DEF Heard, Named
<1>8. (pending # None => Heard(pending.path)) /\ \A k \in DOMAIN events : Heard(events[k].path)
  BY DEF Heard, Named
<1>9. \A i \in DOMAIN notices' : i \in DOMAIN notices \/ i = L + 1 \/ i = L + 2
  BY <1>2
<1>10. \A x, y : Meets(x, y) <=> Meets(y, x)
  BY DEF Meets
<1>11. ASSUME NEW i \in DOMAIN notices, notices[i].mate # None PROVE (GoesFirst(i) \/ GoesSecond(i))'
  <2>2. PICK x, y : x = notices[i].mate /\ y = notices[i].path
    OBVIOUS
  <2>3. x \in Path /\ y \in Path /\ Heard(y) /\ notices'[i] = notices[i] /\ i \in DOMAIN notices'
    BY <1>1, <1>2, <1>7, <1>11, <2>2 DEF NewsInv
  <2>4. CASE GoesFirst(i)
    <3>1. disk[y] = Gone /\ i + 1 \in DOMAIN notices /\ IsHalf(notices[i + 1], x, y)
      BY <2>2, <2>4 DEF GoesFirst
    <3>2. disk'[y] = Gone /\ i + 1 \in DOMAIN notices' /\ notices'[i + 1] = notices[i + 1]
      BY <1>2, <1>3, <2>3, <3>1
    <3> QED BY <2>2, <2>3, <3>1, <3>2 DEF GoesFirst, IsHalf
  <2>5. CASE GoesSecond(i)
    <3>1. Heard(x) /\ disk[x] = Gone
      BY <1>1, <2>2, <2>3, <2>5, SecondIsHeard DEF GoesSecond
    <3>2. disk'[x] = Gone /\ ~Suppresses(y)'
      BY <1>3, <1>6, <2>2, <2>3, <2>5, <3>1 DEF GoesSecond, Suppresses
    <3>3. IF i = 1 THEN Waits(x, y)' ELSE IsHalf(notices'[i - 1], x, y)
      <4>1. i # 1 => i - 1 \in DOMAIN notices
        BY <1>2
      <4> QED BY <1>2, <1>6, <2>2, <2>5, <4>1 DEF GoesSecond, Waits
    <3>4. \A k \in DOMAIN notices' : /\ Meets(notices'[k].path, x) => k = i - 1
                                     /\ Meets(notices'[k].path, y) => k >= i
      <4>1. ~Meets(p, x) /\ ~Meets(to, x) /\ ~Meets(p, y) /\ ~Meets(to, y)
        BY <1>3, <2>3, <3>1
      <4>2. ASSUME NEW k \in DOMAIN notices PROVE /\ Meets(notices'[k].path, x) => k = i - 1
                                                  /\ Meets(notices'[k].path, y) => k >= i
        BY <1>2, <2>2, <2>5 DEF GoesSecond
      <4>3. /\ ~Meets(notices'[L + 1].path, x) /\ ~Meets(notices'[L + 2].path, x)
            /\ ~Meets(notices'[L + 1].path, y) /\ ~Meets(notices'[L + 2].path, y)
        BY <1>2, <4>1 DEF IsHalf
      <4> QED BY <1>9, <4>2, <4>3
    <3>5. /\ pending' # None /\ Meets(pending'.path, x) => i = 1
          /\ pending' # None => ~Meets(pending'.path, y)
          /\ \A k \in DOMAIN events' : ~Meets(events'[k].path, x) /\ ~Meets(events'[k].path, y)
      BY <1>6, <2>2, <2>5 DEF GoesSecond
    <3> QED BY <2>2, <2>3, <3>2, <3>3, <3>4, <3>5 DEF GoesSecond, Suppresses
  <2> QED BY <1>1, <1>11, <2>4, <2>5 DEF PairsInv, InPairs
<1>12. GoesFirst(L + 1)'
  <2>1. L + 1 + 1 = L + 2
    BY <1>2
  <2>2. L + 2 \in DOMAIN notices'
    BY <1>2
  <2> QED BY <1>2, <1>4, <2>1, <2>2 DEF GoesFirst, IsHalf
<1>13. GoesSecond(L + 2)'
  <2>1. L + 2 # 1 /\ (L + 2) - 1 = L + 1
    BY <1>2
  <2>2. ~Suppresses(to)'
    BY <1>1, <1>4, <1>6 DEF Relocated, Takes, Admits, Suppresses
  <2>3. ASSUME NEW k \in DOMAIN notices' PROVE /\ Meets(notices'[k].path, p) => k = L + 1
                                               /\ Meets(notices'[k].path, to) => k >= L + 2
    <3>1. k \in DOMAIN notices => ~Meets(notices'[k].path, p) /\ ~Meets(notices'[k].path, to)
      BY <1>2, <1>3, <1>7, <1>10
    <3>2. k = L + 1 => ~Meets(notices'[k].path, to)
      BY <1>2, <1>5 DEF IsHalf
    <3>3. k = L + 2 => ~Meets(notices'[k].path, p) /\ k >= L + 2
      BY <1>2, <1>5 DEF IsHalf
    <3> QED BY <1>9, <3>1, <3>2, <3>3
  <2>4. /\ pending' # None => ~Meets(pending'.path, p) /\ ~Meets(pending'.path, to)
        /\ \A k \in DOMAIN events' : ~Meets(events'[k].path, p) /\ ~Meets(events'[k].path, to)
    BY <1>3, <1>6, <1>8, <1>10
  <2>5. notices'[L + 2].path = to /\ notices'[L + 2].mate = p
    BY <1>2 DEF IsHalf
  <2> QED BY <1>2, <1>4, <2>1, <2>2, <2>3, <2>4, <2>5 DEF GoesSecond, Suppresses
<1>14. InPairs'
  <2>1. /\ notices'[L + 1].kind = "half" /\ notices'[L + 2].kind = "half"
    BY <1>2 DEF IsHalf
  <2>2. \A i \in DOMAIN notices : notices[i].kind # "half" => notices[i].mate = None
    BY <1>1 DEF PairsInv, InPairs
  <2> QED BY <1>2, <1>9, <1>11, <1>12, <1>13, <2>1, <2>2 DEF InPairs
<1>15. ASSUME NEW k \in DOMAIN events', events'[k].kind = "rename" PROVE ToldAlone(k)'
  <2>1. k \in DOMAIN events /\ ToldAlone(k)
    BY <1>1, <1>6, <1>15 DEF PairsInv
  <2>2. PICK x : x = events[k].path
    OBVIOUS
  <2>3. x \in Path /\ Heard(x) /\ disk'[x] = Gone
    BY <1>1, <1>3, <1>8, <2>1, <2>2 DEF NewsInv, ToldAlone
  <2>4. \A i \in DOMAIN notices' : ~Meets(notices'[i].path, x)
    <3>1. ~Meets(p, x) /\ ~Meets(to, x)
      BY <1>3, <2>3
    <3> QED BY <1>2, <1>9, <2>1, <2>2, <3>1 DEF ToldAlone, IsHalf
  <2> QED BY <1>6, <2>1, <2>2, <2>3, <2>4 DEF ToldAlone
<1>16. AskedAlone(p, to)'
  <2>1. /\ pending' # None => ~Meets(pending'.path, p) /\ ~Meets(pending'.path, to)
        /\ \A k \in DOMAIN events' : ~Meets(events'[k].path, p) /\ ~Meets(events'[k].path, to)
    BY <1>3, <1>6, <1>8, <1>10
  <2>2. ASSUME NEW k \in DOMAIN notices'
        PROVE  /\ Meets(notices'[k].path, p) => IsHalf(notices'[k], p, to)
               /\ Meets(notices'[k].path, to) => IsHalf(notices'[k], to, p)
    <3>1. k \in DOMAIN notices => ~Meets(notices'[k].path, p) /\ ~Meets(notices'[k].path, to)
      BY <1>2, <1>3, <1>7, <1>10
    <3>2. k = L + 1 => ~Meets(notices'[k].path, to) /\ IsHalf(notices'[k], p, to)
      BY <1>2, <1>5 DEF IsHalf
    <3>3. k = L + 2 => ~Meets(notices'[k].path, p) /\ IsHalf(notices'[k], to, p)
      BY <1>2, <1>5 DEF IsHalf
    <3> QED BY <1>9, <3>1, <3>2, <3>3
  <2> QED BY <1>4, <2>1, <2>2 DEF AskedAlone
<1>17. (\A n \in DOMAIN calls : calls[n].kind = "remap" => AskedAlone(calls[n].path, calls[n].to))'
  <2>1. SUFFICES ASSUME NEW n \in DOMAIN calls', calls'[n].kind = "remap"
                 PROVE  AskedAlone(calls[n].path, calls[n].to)'
    OBVIOUS
  <2>2. calls'[n].path = p /\ calls'[n].to = to
    BY <2>1 DEF Relocated
  <2> QED BY <1>16, <2>2 DEF AskedAlone, Waits, HalfOf
<1>18. RemovedAreGone'
  <2>1. SUFFICES ASSUME NEW k \in DOMAIN events, events[k].kind = "remove"
                 PROVE  disk'[events[k].path] = Gone
    BY <1>6 DEF RemovedAreGone
  <2>2. events[k].path \in Path /\ disk[events[k].path] = Gone
    BY <1>1, <2>1 DEF NewsInv, PairsInv, RemovedAreGone
  <2> QED BY <1>3, <1>8, <2>2
<1> QED BY <1>14, <1>15, <1>17, <1>18 DEF PairsInv

(* What is heard of is still told.                                           *)
LEMMA RenameWarns ==
    ASSUME Sound, NEW p \in Path, NEW to \in Path, Relocated(p, to), NEW r, NEW S, Warned(r, S)
    PROVE  Warned(r, S)'
<1>0. PICK L : L = Len(notices)
  OBVIOUS
<1>1. NewsInv
  BY DEF Sound, PathsInv
<1>2. /\ \A i \in DOMAIN notices : i \in DOMAIN notices' /\ notices'[i] = notices[i]
      /\ \A i \in DOMAIN notices' : \/ i \in DOMAIN notices
                                    \/ IsHalf(notices'[i], p, to) \/ IsHalf(notices'[i], to, p)
  <2>1. /\ L \in Nat /\ DOMAIN notices = 1 .. L /\ DOMAIN notices' = 1 .. L + 2
        /\ \A i \in DOMAIN notices : i \in DOMAIN notices' /\ notices'[i] = notices[i]
        /\ IsHalf(notices'[L + 1], p, to) /\ IsHalf(notices'[L + 2], to, p)
    BY <1>0, <1>1, HalvesAtTheEnd DEF Relocated
  <2>2. \A i \in DOMAIN notices' : i \in DOMAIN notices \/ i = L + 1 \/ i = L + 2
    BY <2>1
  <2> QED BY <2>1, <2>2
<1>3. /\ \A x : Heard(x) => ~Meets(p, x) /\ ~Meets(to, x)
      /\ \A x \in Path : Heard(x) => disk'[x] = disk[x]
  BY RenameUnheard DEF Relocated
<1>4. pending' = pending /\ events' = events /\ expected' = expected
  BY DEF Relocated
<1>5. IsPrefix(p, p) /\ IsPrefix(to, to)
  BY PathsAreNames
<1>6. ASSUME NEW h, Heard(h.path), ~MateComes(h) PROVE ~MateComes(h)'
  <2>1. SUFFICES ASSUME NEW j \in DOMAIN notices', Mates(h, notices'[j]), disk'[notices'[j].path] # Gone
                 PROVE  FALSE
    BY DEF MateComes, Mates
  <2>2. h.path # p /\ h.path # to
    BY <1>3, <1>5, <1>6 DEF Meets
  <2>3. j \in DOMAIN notices /\ notices'[j] = notices[j]
    BY <1>2, <2>1, <2>2 DEF Mates, IsHalf
  <2>4. disk'[notices[j].path] = disk[notices[j].path]
    BY <1>1, <1>3, <2>3 DEF NewsInv, Heard, Named
  <2> QED BY <1>6, <2>1, <2>3, <2>4 DEF MateComes
<1>7. CASE pending # None /\ IsPrefix(pending.path, r) /\ ~MateComes(pending)
  <2>1. PICK h : h = pending
    OBVIOUS
  <2>2. ~MateComes(h)'
    BY <1>6, <1>7, <2>1 DEF Heard, Named
  <2>3. ~MateComes(pending)'
    BY <1>4, <2>1, <2>2 DEF MateComes, Mates
  <2> QED BY <1>4, <1>7, <2>3 DEF Warned
<1>8. ASSUME NEW i \in DOMAIN notices, Warns(notices[i], r, S) PROVE Warned(r, S)'
  <2>1. PICK h : h = notices[i]
    OBVIOUS
  <2>2. i \in DOMAIN notices' /\ notices'[i] = h /\ h.path \in Path /\ Heard(h.path)
    BY <1>1, <1>2, <2>1 DEF NewsInv, Heard, Named
  <2>3. CASE h.kind = "remove" /\ IsPrefix(h.path, r)
    BY <2>2, <2>3 DEF Warned, Warns
  <2>4. CASE h.kind = "half" /\ disk[h.path] = Gone /\ ~MateComes(h) /\ IsPrefix(h.path, r)
    <3>1. ~MateComes(h)' /\ disk'[h.path] = Gone
      BY <1>3, <1>6, <2>2, <2>4
    <3>2. ~MateComes(notices[i])'
      BY <2>2, <3>1 DEF MateComes, Mates
    <3> QED BY <2>2, <2>4, <3>1, <3>2 DEF Warned, Warns
  <2>5. CASE h.kind # "remove" /\ h.mate = None /\ h.path = r /\ ~Suppresses(r) /\ disk[r] \notin S
    <3>1. disk'[r] = disk[r] /\ ~Suppresses(r)'
      BY <1>3, <1>4, <2>2, <2>5 DEF Suppresses
    <3> QED BY <2>2, <2>5, <3>1 DEF Warned, Warns, Suppresses
  <2>6. Warns(h, r, S)
    BY <1>8, <2>1
  <2> QED BY <2>3, <2>4, <2>5, <2>6 DEF Warns
<1>9. ASSUME NEW i \in DOMAIN events, Breaks(events[i], r, S) PROVE Warned(r, S)'
  BY <1>4, <1>9 DEF Warned, Breaks, StampOf
<1> QED BY <1>7, <1>8, <1>9 DEF Warned

LEMMA RenameKnown ==
    ASSUME Sound, NEW p \in Path, NEW to \in Path, Relocated(p, to)
    PROVE  StaysInPairs
<1>1. SUFFICES ASSUME NEW q \in Seq(Name), NEW s \in 1 .. stamps, NEW S \in SUBSET (1 .. stamps),
                      WillKnow(q, s, S)
               PROVE  WillKnow(q, s, S)'
  BY RenamePairs DEF StaysInPairs, KeepsKnown, StaysKnown
<1>2. /\ disk'[p] = Gone /\ disk'[to] # Gone
      /\ \A r \in Path : ~IsPrefix(p, r) /\ ~IsPrefix(to, r) => disk'[r] = disk[r]
      /\ \A r \in Path : IsPrefix(to, r) => disk[r] = Gone
      /\ \A r \in Path : IsPrefix(p, r) /\ disk[r] # Gone =>
            Remap(p, to, r) \in Path /\ disk'[Remap(p, to, r)] = disk[r]
  BY RenamedPaths DEF Relocated
<1>3. s \in Nat /\ s # Gone
  BY SessionsAssumption
<1>4. ASSUME NEW r, Knows(r, s, S)
      PROVE  Knows(r, s, S)' \/ (IsPrefix(p, r) /\ Knows(Remap(p, to, r), s, S)')
  <2>1. CASE Warned(r, S)
    BY <2>1, RenameWarns DEF Knows
  <2>2. CASE At(r) = s
    <3>1. r \in Path /\ disk[r] = s
      BY <1>3, <2>2 DEF At
    <3>2. CASE IsPrefix(p, r)
      <4>1. Remap(p, to, r) \in Path /\ disk'[Remap(p, to, r)] = s
        BY <1>2, <1>3, <3>1, <3>2
      <4>2. PICK m : m = Remap(p, to, r)
        OBVIOUS
      <4>3. Knows(m, s, S)'
        BY <4>1, <4>2 DEF Knows, At
      <4>4. Knows(Remap(p, to, r), s, S)'
        BY <4>2, <4>3 DEF Knows, At, Warned, Warns, Breaks, Suppresses
      <4> QED BY <3>2, <4>4
    <3>3. CASE ~IsPrefix(p, r)
      <4>1. disk'[r] = s
        BY <1>2, <1>3, <3>1, <3>3
      <4> QED BY <3>1, <4>1 DEF Knows, At
    <3> QED BY <3>2, <3>3
  <2> QED BY <1>4, <2>1, <2>2 DEF Knows
<1>5. Passage(p, to)'
  <2>1. IsHalf(notices'[Len(notices) + 2], to, p) /\ Len(notices) + 2 \in DOMAIN notices'
    <3>1. NewsInv /\ notices' = notices \o Halves(p, to)
      BY DEF Relocated, Sound, PathsInv
    <3>2. /\ Len(notices) \in Nat /\ DOMAIN notices' = 1 .. Len(notices) + 2
          /\ IsHalf(notices'[Len(notices) + 2], to, p)
      BY <3>1, HalvesAtTheEnd
    <3> QED BY <3>2
  <2> QED BY <1>2, <2>1 DEF Passage, HalfOf, IsHalf
<1>6. CASE Knows(q, s, S)
  BY <1>4, <1>5, <1>6 DEF WillKnow
<1>7. ASSUME NEW x \in Path, NEW y \in Path, Passage(x, y), IsPrefix(x, q), Knows(Remap(x, y, q), s, S)
      PROVE  WillKnow(q, s, S)'
  <2>1. PICK r : r = Remap(x, y, q)
    OBVIOUS
  <2>2. IsPrefix(y, r) /\ r \in Seq(Name)
    BY <1>7, <2>1, PathsAreNames, RemapMoves
  <2>3. ~Meets(p, y)
    BY <1>7, RenameUnheard DEF Relocated
  <2>4. ~IsPrefix(p, r)
    BY <2>2, <2>3, PathsAreNames, PrefixOrder
  <2>5. Knows(r, s, S)'
    BY <1>4, <1>7, <2>1, <2>4
  <2>6. Knows(Remap(x, y, q), s, S)'
    BY <2>1, <2>5 DEF Knows, At, Warned, Warns, Breaks, Suppresses
  <2>7. Passage(x, y)'
    <3>1. CASE HalfOf(y, x) /\ disk[y] # Gone
      <4>1. Heard(y)
        BY <3>1 DEF HalfOf, Heard, Named
      <4>2. disk'[y] # Gone
        BY <3>1, <4>1, RenameUnheard DEF Relocated
      <4>3. HalfOf(y, x)'
        <5>1. \A i \in DOMAIN notices : i \in DOMAIN notices' /\ notices'[i] = notices[i]
          BY HalvesAtTheEnd DEF Relocated, Sound, PathsInv
        <5> QED BY <3>1, <5>1 DEF HalfOf
      <4> QED BY <4>2, <4>3 DEF Passage
    <3>2. CASE \E i \in DOMAIN events :
                 events[i].kind = "rename" /\ events[i].path = x /\ events[i].to = y
      BY <3>2 DEF Passage, Relocated
    <3> QED BY <1>7, <3>1, <3>2 DEF Passage, Relocated, NoRemap
  <2> QED BY <1>7, <2>6, <2>7 DEF WillKnow
<1> QED BY <1>1, <1>6, <1>7 DEF WillKnow

-----------------------------------------------------------------------------
(* Nothing is told, and what is on its way stays.                            *)
SameRemaps ==
    /\ \A n \in DOMAIN calls : calls[n].kind = "remap" => \E m \in DOMAIN calls' : calls'[m] = calls[n]
    /\ \A n \in DOMAIN calls' : calls'[n].kind = "remap" => \E m \in DOMAIN calls : calls[m] = calls'[n]
SameNewsOfDisk ==
    /\ disk' = disk /\ stamps' = stamps
    /\ notices' = notices /\ pending' = pending /\ events' = events
    /\ \A x \in Path : Suppresses(x)' => Suppresses(x)

LEMMA QuietKnown ==
    ASSUME Sound, SameNewsOfDisk, SameRemaps
    PROVE  StaysInPairs
<1>1. NewsInv /\ PairsInv
  BY DEF Sound, PathsInv
<1>2. InPairs'
  <2>1. SUFFICES ASSUME NEW i \in DOMAIN notices, notices[i].mate # None
                 PROVE  (GoesFirst(i) \/ GoesSecond(i))'
    BY <1>1 DEF PairsInv, InPairs, SameNewsOfDisk
  <2>2. notices[i].path \in Path
    BY <1>1 DEF NewsInv
  <2>3. CASE GoesFirst(i)
    BY <2>3 DEF GoesFirst, SameNewsOfDisk
  <2>4. CASE GoesSecond(i)
    <3>1. ~Suppresses(notices[i].path)'
      <4>1. PICK y : y = notices[i].path
        OBVIOUS
      <4>2. ~Suppresses(y)'
        BY <2>2, <2>4, <4>1 DEF GoesSecond, SameNewsOfDisk
      <4> QED BY <4>1, <4>2 DEF Suppresses, SameNewsOfDisk
    <3> QED BY <2>4, <3>1 DEF GoesSecond, Waits, SameNewsOfDisk
  <2> QED BY <1>1, <2>1, <2>3, <2>4 DEF PairsInv, InPairs
<1>3. PairsInv'
  <2>1. \A k \in DOMAIN events' : events'[k].kind = "rename" => ToldAlone(k)'
    BY <1>1 DEF PairsInv, ToldAlone, SameNewsOfDisk
  <2>2. ASSUME NEW n \in DOMAIN calls', calls'[n].kind = "remap"
        PROVE  AskedAlone(calls[n].path, calls[n].to)'
    <3>1. PICK m \in DOMAIN calls : calls[m] = calls'[n]
      BY <2>2 DEF SameRemaps
    <3>2. PICK x, y : x = calls[m].path /\ y = calls[m].to
      OBVIOUS
    <3>3. AskedAlone(x, y)
      BY <1>1, <2>2, <3>1, <3>2 DEF PairsInv
    <3>4. AskedAlone(x, y)'
      BY <3>3 DEF AskedAlone, Waits, HalfOf, SameNewsOfDisk
    <3>5. calls'[n].path = x /\ calls'[n].to = y
      BY <3>1, <3>2
    <3> QED BY <3>4, <3>5 DEF AskedAlone, Waits, HalfOf
  <2>3. RemovedAreGone'
    BY <1>1 DEF PairsInv, RemovedAreGone, SameNewsOfDisk
  <2> QED BY <1>2, <2>1, <2>2, <2>3 DEF PairsInv
<1>4. ASSUME NEW r, NEW S, Warned(r, S) PROVE Warned(r, S)'
  <2>1. CASE pending # None /\ IsPrefix(pending.path, r) /\ ~MateComes(pending)
    BY <2>1 DEF Warned, MateComes, Mates, SameNewsOfDisk
  <2>2. ASSUME NEW i \in DOMAIN notices, Warns(notices[i], r, S) PROVE Warned(r, S)'
    <3>1. notices[i].path = r => (Suppresses(r)' => Suppresses(r))
      BY <1>1 DEF NewsInv, SameNewsOfDisk
    <3>2. Warns(notices[i], r, S)'
      BY <2>2, <3>1 DEF Warns, MateComes, Mates, SameNewsOfDisk
    <3> QED BY <3>2 DEF Warned, SameNewsOfDisk
  <2>3. ASSUME NEW i \in DOMAIN events, Breaks(events[i], r, S) PROVE Warned(r, S)'
    BY <2>3 DEF Warned, Breaks, StampOf, SameNewsOfDisk
  <2> QED BY <1>4, <2>1, <2>2, <2>3 DEF Warned
<1>5. ASSUME NEW r, NEW s, NEW S, Knows(r, s, S) PROVE Knows(r, s, S)'
  BY <1>4, <1>5 DEF Knows, At, SameNewsOfDisk
<1>6. ASSUME NEW x, NEW y, Passage(x, y) PROVE Passage(x, y)'
  BY <1>6 DEF Passage, HalfOf, SameNewsOfDisk, SameRemaps
<1>7. ASSUME NEW q \in Seq(Name), NEW s, NEW S, WillKnow(q, s, S) PROVE WillKnow(q, s, S)'
  <2>1. CASE Knows(q, s, S)
    BY <1>5, <2>1 DEF WillKnow
  <2>2. ASSUME NEW x \in Path, NEW y \in Path, Passage(x, y), IsPrefix(x, q), Knows(Remap(x, y, q), s, S)
        PROVE  WillKnow(q, s, S)'
    <3>1. PICK r : r = Remap(x, y, q)
      OBVIOUS
    <3>2. Knows(r, s, S)'
      BY <1>5, <2>2, <3>1
    <3>3. Knows(Remap(x, y, q), s, S)'
      BY <3>1, <3>2 DEF Knows, At, Warned, Warns, Breaks, Suppresses
    <3> QED BY <1>6, <2>2, <3>3 DEF WillKnow
  <2> QED BY <1>7, <2>1, <2>2 DEF WillKnow
<1> QED BY <1>3, <1>7 DEF StaysInPairs, KeepsKnown, StaysKnown

-----------------------------------------------------------------------------
(* The watcher hears a notice, or waits no longer for the other half.        *)

(* The half that waits comes before the other one of its rename, and nothing *)
(* between them.                                                             *)
LEMMA MateIsNext ==
    ASSUME NewsInv, PairsInv, pending # None, MateComes(pending)
    PROVE  notices # <<>> /\ Mates(pending, Head(notices)) /\ disk[Head(notices).path] # Gone
<1>1. PICK j \in DOMAIN notices : Mates(pending, notices[j]) /\ disk[notices[j].path] # Gone
  BY DEF MateComes
<1>2. pending.path \in Path /\ notices[j].mate = pending.path
  BY <1>1 DEF NewsInv, Mates
<1>3. GoesSecond(j)
  BY <1>1, <1>2, SessionsAssumption DEF PairsInv, InPairs, GoesFirst
<1>4. j = 1
  BY <1>2, <1>3, PathsAreNames DEF GoesSecond, Meets
<1>5. notices # <<>>
  BY <1>1, ShortSeqs
<1>6. Head(notices) = notices[1]
  BY <1>5, NewsOfPaths
<1> QED BY <1>1, <1>4, <1>5, <1>6

LEMMA HeadHalf ==
    ASSUME Sound, notices # <<>>, Head(notices).mate # None
    PROVE  /\ Head(notices).kind = "half" /\ ~Suppresses(Head(notices).path)
           /\ Head(notices).mate \in Path
           /\ disk[Head(notices).path] # Gone =>
                pending # None /\ Mates(pending, Head(notices)) /\ GoesSecond(1)
<1>1. NewsInv /\ PairsInv
  BY DEF Sound, PathsInv
<1>2. PICK h : h = Head(notices)
  OBVIOUS
<1>3. 1 \in DOMAIN notices /\ h = notices[1] /\ h.path \in Path /\ h.mate \in Path \cup {None}
  BY <1>1, <1>2, NewsOfPaths
<1>4. h.kind = "half" /\ (GoesFirst(1) \/ GoesSecond(1))
  BY <1>1, <1>2, <1>3 DEF PairsInv, InPairs
<1>5. CASE GoesFirst(1)
  <2>1. disk[h.path] = Gone
    BY <1>3, <1>5 DEF GoesFirst
  <2>2. ~Suppresses(h.path)
    BY <1>3, <2>1, SoundTypes DEF Suppresses
  <2> QED BY <1>2, <1>3, <1>4, <2>1, <2>2
<1>6. CASE GoesSecond(1)
  <2>1. Waits(h.mate, h.path) /\ ~Suppresses(h.path)
    BY <1>3, <1>6 DEF GoesSecond
  <2> QED BY <1>2, <1>3, <1>4, <1>6, <2>1 DEF Waits, Mates
<1> QED BY <1>4, <1>5, <1>6

Takes1 == notices # <<>> /\ notices' = Tail(notices)
TakesHalf ==
    LET h == Head(notices)
    IN  /\ Takes1 /\ h.kind = "half" /\ disk[h.path] = Gone
        /\ pending' # None /\ pending'.path = h.path /\ pending'.mate = h.mate
PairsUp(e) ==
    LET h == Head(notices)
    IN  /\ Takes1 /\ pending # None /\ Mates(pending, h) /\ pending' = None
        /\ disk[h.path] # Gone /\ h.kind = "half"
        /\ e.kind = "rename" /\ e.path = pending.path /\ e.to = h.path

(* The events es follow, the first perhaps as a repeat of the last before.   *)
Emits(es) == \E top : EmitsAfter(es, top)

Listens(es) ==
    LET h == Head(notices)
    IN  /\ IsSeq(es) /\ Emits(es)
        /\ disk' = disk /\ stamps' = stamps /\ calls' = calls
        /\ \A x \in Path : Suppresses(x)' => Suppresses(x)
        /\ \/ Takes1
           \/ /\ notices' = notices /\ pending # None /\ pending' = None
              /\ \A j \in DOMAIN notices : ~Mates(pending, notices[j])
        /\ \/ pending' = None
           \/ Takes1 /\ pending' = pending /\ h.mate = None
           \/ TakesHalf
        /\ Takes1 /\ h.kind = "half" /\ disk[h.path] = Gone => TakesHalf
        /\ \A k \in DOMAIN es :
             \/ /\ pending # None /\ es[k].path = pending.path
                /\ es[k].kind = "remove" /\ ~MateComes(pending)
             \/ PairsUp(es[k]) /\ DOMAIN es = {k}
             \/ Takes1 /\ es[k].path = h.path /\ es[k].kind # "rename" /\ h.mate = None
        /\ \A k \in DOMAIN es : es[k].kind = "remove" => disk[es[k].path] = Gone
        /\ pending # None /\ ~MateComes(pending) =>
             \/ pending' = pending
             \/ \E k \in DOMAIN es : es[k].kind = "remove" /\ es[k].path = pending.path
        /\ Takes1 /\ h.kind = "remove" =>
             \E k \in DOMAIN es : es[k].kind = "remove" /\ es[k].path = h.path
        /\ Takes1 /\ h.kind # "remove" /\ h.mate = None /\ ~Suppresses(h.path) =>
             \/ TakesHalf
             \/ \E k \in DOMAIN es : /\ es[k].kind \in {"create", "modify"} /\ es[k].path = h.path
                                     /\ StampOf(es[k]) \in {disk[h.path], None}
        /\ Takes1 /\ h.mate # None /\ disk[h.path] # Gone => \E k \in DOMAIN es : PairsUp(es[k])

(* What is emitted comes last.                                               *)
LEMMA EmittedLast ==
    ASSUME NewsInv, NEW es, IsSeq(es), Emits(es)
    PROVE  /\ IsSeq(events') /\ Len(events) \in Nat /\ DOMAIN events = 1 .. Len(events)
           /\ \A i \in DOMAIN events : i \in DOMAIN events' /\ events'[i] = events[i]
           /\ \A k \in DOMAIN es : \E i \in DOMAIN events' : events'[i] = es[k]
           /\ \A i \in DOMAIN events' : i \in DOMAIN events \/ i > Len(events)
           /\ \E top \in Nat :
                \A i \in DOMAIN events' \ DOMAIN events : i - top \in DOMAIN es /\ events'[i] = es[i - top]
<1>1. PICK top : EmitsAfter(es, top)
  BY DEF Emits
<1>2. /\ IsSeq(events') /\ Len(events) \in Nat /\ Len(events') \in Nat
      /\ top \in Nat /\ top <= Len(events)
      /\ DOMAIN events = 1 .. Len(events) /\ DOMAIN events' = 1 .. Len(events')
      /\ \A i \in DOMAIN events : i \in DOMAIN events' /\ events'[i] = events[i]
  BY <1>1, HearingTells
<1>3. \A k \in DOMAIN es : \E i \in DOMAIN events' : events'[i] = es[k]
  BY <1>1 DEF EmitsAfter
<1>4. \A i \in DOMAIN events' \ DOMAIN events : i - top \in DOMAIN es /\ events'[i] = es[i - top]
  BY <1>1 DEF EmitsAfter
<1> QED BY <1>2, <1>3, <1>4

LEMMA EmitsOf ==
    ASSUME Sound, NEW es, IsSeq(es), DOMAIN es \subseteq {1, 2}, Emit(es)
    PROVE  Emits(es)
BY EmitTells DEF Emits, Sound, PathsInv, NewsInv

LEMMA NoticesLeft ==
    ASSUME NewsInv, Takes1
    PROVE  /\ IsSeq(notices') /\ 1 \in DOMAIN notices /\ Head(notices) = notices[1]
           /\ \A i \in DOMAIN notices' : i + 1 \in DOMAIN notices /\ notices'[i] = notices[i + 1]
           /\ \A i \in DOMAIN notices : i # 1 => i - 1 \in DOMAIN notices'
           /\ DOMAIN notices \subseteq Nat \ {0} /\ DOMAIN notices' \subseteq Nat \ {0}
<1>1. IsSeq(notices) /\ notices # <<>>
  BY DEF NewsInv, Takes1
<1>2. /\ IsSeq(notices') /\ 1 \in DOMAIN notices /\ Head(notices) = notices[1]
      /\ \A n \in DOMAIN notices' : n + 1 \in DOMAIN notices /\ notices'[n] = notices[n + 1]
  BY <1>1, RestOfSeq DEF Takes1
<1>3. Len(notices') = Len(notices) - 1
  BY <1>1 DEF Takes1, IsSeq
<1>4. /\ Len(notices) \in Nat /\ DOMAIN notices = 1 .. Len(notices)
      /\ Len(notices') \in Nat /\ DOMAIN notices' = 1 .. Len(notices')
  BY <1>1, <1>2, ElementsOfSeq
<1> QED BY <1>2, <1>3, <1>4

LEMMA ListensPairs ==
    ASSUME Sound, NEW es, Listens(es)
    PROVE  PairsInv'
<1>1. NewsInv /\ PairsInv
  BY DEF Sound, PathsInv
<1>2. PICK h : h = Head(notices)
  OBVIOUS
<1>3. None \notin Path
  BY SessionsAssumption
<1>4. /\ DOMAIN notices \subseteq Nat \ {0}
      /\ IsSeq(events') /\ Len(events) \in Nat /\ DOMAIN events = 1 .. Len(events)
      /\ \A i \in DOMAIN events : i \in DOMAIN events' /\ events'[i] = events[i]
      /\ \A i \in DOMAIN events' : i \in DOMAIN events \/ i > Len(events)
      /\ \E top \in Nat :
           \A i \in DOMAIN events' \ DOMAIN events : i - top \in DOMAIN es /\ events'[i] = es[i - top]
  BY <1>1, EmittedLast, ElementsOfSeq DEF Listens, NewsInv
<1>5. disk' = disk /\ calls' = calls /\ \A x \in Path : Suppresses(x)' => Suppresses(x)
  BY DEF Listens
<1>6. Takes1 => /\ 1 \in DOMAIN notices /\ h = notices[1]
                /\ \A i \in DOMAIN notices' : i + 1 \in DOMAIN notices /\ notices'[i] = notices[i + 1]
                /\ \A i \in DOMAIN notices : i # 1 => i - 1 \in DOMAIN notices'
                /\ DOMAIN notices' \subseteq Nat \ {0}
  BY <1>1, <1>2, NoticesLeft
<1>7. ~Takes1 => /\ notices' = notices /\ pending' = None
                 /\ pending # None /\ \A j \in DOMAIN notices : ~Mates(pending, notices[j])
  BY DEF Listens, TakesHalf
<1>8. \/ pending' = None
      \/ Takes1 /\ pending' = pending /\ h.mate = None
      \/ /\ Takes1 /\ h.kind = "half" /\ disk[h.path] = Gone
         /\ pending' # None /\ pending'.path = h.path /\ pending'.mate = h.mate
  BY <1>2 DEF Listens, TakesHalf
<1>9. ASSUME NEW i \in DOMAIN events', i \notin DOMAIN events
      PROVE  LET e == events'[i]
             IN  \/ pending # None /\ e.path = pending.path /\ e.kind = "remove" /\ ~MateComes(pending)
                 \/ PairsUp(e) /\ \A j \in DOMAIN events' : j \in DOMAIN events \/ j = i
                 \/ Takes1 /\ e.path = h.path /\ e.kind # "rename" /\ h.mate = None
  <2>0. PICK top \in Nat :
          \A j \in DOMAIN events' \ DOMAIN events : j - top \in DOMAIN es /\ events'[j] = es[j - top]
    BY <1>4
  <2>1. PICK k : k = i - top
    OBVIOUS
  <2>2. k \in DOMAIN es /\ events'[i] = es[k]
    BY <1>9, <2>0, <2>1
  <2>3. \/ pending # None /\ es[k].path = pending.path /\ es[k].kind = "remove" /\ ~MateComes(pending)
        \/ PairsUp(es[k]) /\ DOMAIN es = {k}
        \/ Takes1 /\ es[k].path = h.path /\ es[k].kind # "rename" /\ h.mate = None
    BY <1>2, <2>2 DEF Listens
  <2>4. DOMAIN es = {k} => \A j \in DOMAIN events' : j \in DOMAIN events \/ j = i
    <3>1. \A j \in DOMAIN events' : j \in Nat
      BY <1>4, ElementsOfSeq
    <3>2. ASSUME DOMAIN es = {k}, NEW j \in DOMAIN events', j \notin DOMAIN events PROVE j = i
      BY <2>0, <2>1, <3>1, <3>2
    <3> QED BY <3>2
  <2> QED BY <2>2, <2>3, <2>4
<1>10. ASSUME NEW i \in DOMAIN notices', notices'[i].mate # None PROVE (GoesFirst(i) \/ GoesSecond(i))'
  <2>1. CASE Takes1
    <3>1. PICK x, y : x = notices[i + 1].mate /\ y = notices[i + 1].path
      OBVIOUS
    <3>2. /\ i \in Nat /\ i >= 1 /\ i + 1 \in DOMAIN notices /\ notices'[i] = notices[i + 1]
          /\ x \in Path /\ y \in Path
      BY <1>1, <1>6, <1>10, <2>1, <3>1 DEF NewsInv
    <3>3. CASE GoesFirst(i + 1)
      <4>1. disk[y] = Gone /\ i + 1 + 1 \in DOMAIN notices /\ IsHalf(notices[i + 1 + 1], x, y)
        BY <3>1, <3>3 DEF GoesFirst
      <4>2. i + 1 \in DOMAIN notices' /\ notices'[i + 1] = notices[i + 1 + 1]
        BY <1>6, <2>1, <3>2, <4>1
      <4> QED BY <1>5, <3>1, <3>2, <4>1, <4>2 DEF GoesFirst, IsHalf
    <3>4. CASE GoesSecond(i + 1)
      <4>1. /\ disk[x] = Gone /\ ~Suppresses(y)
            /\ IsHalf(notices[i], x, y)
            /\ \A k \in DOMAIN notices : /\ Meets(notices[k].path, x) => k = i
                                         /\ Meets(notices[k].path, y) => k >= i + 1
            /\ pending # None => ~Meets(pending.path, x) /\ ~Meets(pending.path, y)
            /\ \A k \in DOMAIN events : ~Meets(events[k].path, x) /\ ~Meets(events[k].path, y)
        <5>1. i + 1 # 1 /\ (i + 1) - 1 = i
          BY <3>2
        <5> QED BY <3>1, <3>4, <5>1 DEF GoesSecond
      <4>2. disk'[x] = Gone /\ ~Suppresses(y)'
        BY <1>5, <3>2, <4>1
      <4>3. IF i = 1 THEN Waits(x, y)' ELSE IsHalf(notices'[i - 1], x, y)
        <5>1. CASE i = 1
          <6>1. h.kind = "half" /\ disk[h.path] = Gone /\ h.path = x /\ h.mate = y
            BY <1>6, <2>1, <4>1, <5>1 DEF IsHalf
          <6>2. TakesHalf
            BY <1>2, <2>1, <6>1 DEF Listens
          <6> QED BY <1>2, <5>1, <6>1, <6>2 DEF TakesHalf, Waits
        <5>2. CASE i # 1
          <6>1. i \in DOMAIN notices
            BY <1>1, <3>2, <5>2, ElementsOfSeq DEF NewsInv
          <6>2. i - 1 \in DOMAIN notices' /\ notices'[i - 1] = notices[i]
            BY <1>6, <2>1, <3>2, <5>2, <6>1
          <6> QED BY <4>1, <5>2, <6>2
        <5> QED BY <5>1, <5>2
      <4>4. \A k \in DOMAIN notices' : /\ Meets(notices'[k].path, x) => k = i - 1
                                       /\ Meets(notices'[k].path, y) => k >= i
        BY <1>6, <2>1, <3>2, <4>1
      <4>5. Takes1 => (Meets(h.path, x) => i = 1) /\ ~Meets(h.path, y)
        BY <1>6, <3>2, <4>1
      <4>6. /\ pending' # None /\ Meets(pending'.path, x) => i = 1
            /\ pending' # None => ~Meets(pending'.path, y)
        BY <1>8, <4>1, <4>5
      <4>7. ASSUME NEW k \in DOMAIN events'
            PROVE  ~Meets(events'[k].path, x) /\ ~Meets(events'[k].path, y)
        <5>1. Takes1 /\ h.mate = None => ~Meets(h.path, x)
          BY <1>3, <1>6, <3>2, <4>1, <4>5 DEF IsHalf
        <5>2. k \notin DOMAIN events =>
                 \/ pending # None /\ events'[k].path = pending.path
                 \/ Takes1 /\ events'[k].path = h.path /\ h.mate = None
          BY <1>9 DEF PairsUp
        <5> QED BY <1>4, <4>1, <4>5, <5>1, <5>2
      <4>8. notices'[i].mate = x /\ notices'[i].path = y
        BY <3>1, <3>2
      <4> QED BY <4>2, <4>3, <4>4, <4>6, <4>7, <4>8 DEF GoesSecond, Suppresses
    <3> QED BY <1>1, <1>10, <3>2, <3>3, <3>4 DEF PairsInv, InPairs
  <2>2. CASE ~Takes1
    <3>1. PICK x, y : x = notices[i].mate /\ y = notices[i].path
      OBVIOUS
    <3>2. i \in DOMAIN notices /\ x \in Path /\ y \in Path /\ x # None
      BY <1>1, <1>7, <1>10, <2>2, <3>1 DEF NewsInv
    <3>3. CASE GoesFirst(i)
      BY <1>5, <1>7, <2>2, <3>3 DEF GoesFirst
    <3>4. CASE GoesSecond(i)
      <4>1. i # 1
        <5>1. i = 1 => Waits(x, y)
          BY <3>1, <3>4 DEF GoesSecond
        <5>2. Waits(x, y) => Mates(pending, notices[i])
          BY <3>1 DEF Waits, Mates
        <5> QED BY <1>7, <2>2, <3>2, <5>1, <5>2
      <4>2. disk'[x] = Gone /\ ~Suppresses(y)'
        BY <1>5, <3>1, <3>2, <3>4 DEF GoesSecond
      <4>3. pending # None /\ ~Meets(pending.path, x) /\ ~Meets(pending.path, y)
        BY <1>7, <2>2, <3>1, <3>4, <4>1 DEF GoesSecond
      <4>4. ASSUME NEW k \in DOMAIN events'
            PROVE  ~Meets(events'[k].path, x) /\ ~Meets(events'[k].path, y)
        <5>1. k \notin DOMAIN events => events'[k].path = pending.path
          BY <1>9, <2>2 DEF PairsUp
        <5>2. k \in DOMAIN events => ~Meets(events[k].path, x) /\ ~Meets(events[k].path, y)
          BY <3>1, <3>4 DEF GoesSecond
        <5> QED BY <1>4, <4>3, <5>1, <5>2
      <4> QED BY <1>7, <2>2, <3>1, <3>4, <4>1, <4>2, <4>4 DEF GoesSecond, Suppresses
    <3> QED BY <1>1, <1>10, <1>7, <2>2, <3>2, <3>3, <3>4 DEF PairsInv, InPairs
  <2> QED BY <2>1, <2>2
<1>11. InPairs'
  BY <1>1, <1>6, <1>7, <1>10 DEF PairsInv, InPairs
<1>12. ASSUME NEW x, \A i \in DOMAIN notices : ~Meets(notices[i].path, x)
       PROVE  \A i \in DOMAIN notices' : ~Meets(notices'[i].path, x)
  BY <1>6, <1>7, <1>12
<1>13. ASSUME NEW k \in DOMAIN events', events'[k].kind = "rename" PROVE ToldAlone(k)'
  <2>1. PICK x, y : x = events'[k].path /\ y = events'[k].to
    OBVIOUS
  <2>2. CASE k \in DOMAIN events
    <3>1. /\ disk[x] = Gone /\ (pending # None => ~Meets(pending.path, x))
          /\ \A i \in DOMAIN notices : ~Meets(notices[i].path, x)
          /\ \A i \in DOMAIN events : /\ Meets(events[i].path, x) => i = k
                                      /\ Meets(events[i].path, y) => i >= k
      <4>1. events[k].kind = "rename" /\ x = events[k].path /\ y = events[k].to
        BY <1>4, <1>13, <2>1, <2>2
      <4>2. ToldAlone(k)
        BY <1>1, <2>2, <4>1 DEF PairsInv
      <4> QED BY <4>1, <4>2 DEF ToldAlone
    <3>2. Takes1 => ~Meets(h.path, x)
      BY <1>6, <3>1
    <3>3. pending' # None => ~Meets(pending'.path, x)
      BY <1>8, <3>1, <3>2
    <3>4. ASSUME NEW i \in DOMAIN events', i \notin DOMAIN events
          PROVE  ~Meets(events'[i].path, x) /\ i >= k
      <4>1. ~Meets(events'[i].path, x)
        BY <1>9, <3>1, <3>2, <3>4 DEF PairsUp
      <4>2. i > Len(events) /\ i \in Nat /\ k \in 1 .. Len(events)
        BY <1>4, <2>2, <3>4, ElementsOfSeq
      <4> QED BY <1>4, <4>1, <4>2
    <3>5. \A i \in DOMAIN events' : /\ Meets(events'[i].path, x) => i = k
                                    /\ Meets(events'[i].path, y) => i >= k
      BY <1>4, <3>1, <3>4
    <3> QED BY <1>5, <1>12, <2>1, <3>1, <3>3, <3>5 DEF ToldAlone
  <2>3. CASE k \notin DOMAIN events
    <3>1. PairsUp(events'[k]) /\ \A j \in DOMAIN events' : j \in DOMAIN events \/ j = k
      BY <1>9, <1>13, <2>3
    <3>2. Takes1 /\ pending # None /\ h.mate = x /\ h.path = y /\ pending' = None
      BY <1>2, <2>1, <3>1 DEF PairsUp, Mates
    <3>3. h.mate # None /\ disk[h.path] # Gone
      BY <1>1, <1>2, <1>3, <3>1, <3>2 DEF PairsUp, NewsInv, Mates
    <3>4. GoesSecond(1)
      BY <1>2, <3>2, <3>3, HeadHalf DEF Takes1
    <3>5. /\ disk[x] = Gone
          /\ \A i \in DOMAIN notices : Meets(notices[i].path, x) => i = 0
          /\ \A i \in DOMAIN events : ~Meets(events[i].path, x) /\ ~Meets(events[i].path, y)
      BY <1>6, <3>2, <3>4 DEF GoesSecond
    <3>6. \A i \in DOMAIN notices : ~Meets(notices[i].path, x)
      BY <1>4, <3>5
    <3>7. \A i \in DOMAIN events' : /\ Meets(events'[i].path, x) => i = k
                                    /\ Meets(events'[i].path, y) => i >= k
      <4>1. k >= k
        BY <1>4, ElementsOfSeq
      <4> QED BY <1>4, <3>1, <3>5, <4>1
    <3> QED BY <1>5, <1>12, <2>1, <3>2, <3>5, <3>6, <3>7 DEF ToldAlone
  <2> QED BY <2>2, <2>3
<1>14. ASSUME NEW n \in DOMAIN calls, calls[n].kind = "remap"
       PROVE  AskedAlone(calls[n].path, calls[n].to)'
  <2>1. PICK x, y : x = calls[n].path /\ y = calls[n].to
    OBVIOUS
  <2>2. x \in Path /\ y \in Path /\ AskedAlone(x, y)
    BY <1>1, <1>14, <2>1 DEF PairsInv, Sound, PathsInv, HandlersInv, Handler
  <2>3. /\ disk[x] = Gone /\ disk[y] # Gone
        /\ pending # None => ~Meets(pending.path, y)
        /\ pending # None /\ Meets(pending.path, x) => Waits(x, y) /\ HalfOf(y, x)
    BY <2>2 DEF AskedAlone
  <2>4. Takes1 => /\ Meets(h.path, x) => IsHalf(h, x, y)
                  /\ Meets(h.path, y) => IsHalf(h, y, x)
    BY <1>6, <2>2 DEF AskedAlone
  <2>5. Takes1 /\ h.mate = None => ~Meets(h.path, x) /\ ~Meets(h.path, y)
    BY <1>3, <2>2, <2>4 DEF IsHalf
  <2>6. pending' # None /\ Meets(pending'.path, x) => Waits(x, y)' /\ HalfOf(y, x)'
    <3>1. SUFFICES ASSUME pending' # None, Meets(pending'.path, x) PROVE Waits(x, y)' /\ HalfOf(y, x)'
      OBVIOUS
    <3>2. CASE Takes1 /\ pending' = pending /\ h.mate = None
      <4>1. Waits(x, y) /\ HalfOf(y, x)
        BY <2>3, <3>1, <3>2
      <4>2. PICK j \in DOMAIN notices : IsHalf(notices[j], y, x)
        BY <4>1 DEF HalfOf, IsHalf
      <4>3. j # 1
        BY <1>3, <1>6, <2>2, <3>2, <4>2 DEF IsHalf
      <4>4. j - 1 \in DOMAIN notices' /\ notices'[j - 1] = notices[j]
        BY <1>4, <1>6, <3>2, <4>3
      <4>5. HalfOf(y, x)'
        BY <4>2, <4>4 DEF HalfOf, IsHalf
      <4> QED BY <3>2, <4>1, <4>5 DEF Waits
    <3>3. CASE /\ Takes1 /\ h.kind = "half" /\ disk[h.path] = Gone
               /\ pending' # None /\ pending'.path = h.path /\ pending'.mate = h.mate
      <4>1. IsHalf(h, x, y)
        BY <2>4, <3>1, <3>3
      <4>2. GoesFirst(1)
        <5>1. ~GoesSecond(1)
          BY <1>6, <2>3, <3>3, <4>1 DEF GoesSecond, IsHalf
        <5> QED BY <1>1, <1>3, <1>6, <2>2, <3>3, <4>1, <5>1 DEF PairsInv, InPairs, IsHalf
      <4>3. 2 \in DOMAIN notices /\ IsHalf(notices[2], y, x)
        <5>1. 1 + 1 = 2
          OBVIOUS
        <5> QED BY <1>6, <3>3, <4>1, <4>2, <5>1 DEF GoesFirst, IsHalf
      <4>4. 1 \in DOMAIN notices' /\ notices'[1] = notices[2]
        BY <1>6, <3>3, <4>3
      <4>5. HalfOf(y, x)'
        BY <4>3, <4>4 DEF HalfOf, IsHalf
      <4> QED BY <3>3, <4>1, <4>5 DEF Waits, IsHalf
    <3> QED BY <1>8, <3>1, <3>2, <3>3
  <2>7. pending' # None => ~Meets(pending'.path, y)
    BY <1>8, <2>3, <2>4 DEF IsHalf
  <2>8. \A k \in DOMAIN notices' : /\ Meets(notices'[k].path, x) => IsHalf(notices'[k], x, y)
                                   /\ Meets(notices'[k].path, y) => IsHalf(notices'[k], y, x)
    BY <1>6, <1>7, <2>2 DEF AskedAlone
  <2>9. Waits(x, y) /\ HalfOf(y, x) => MateComes(pending)
    BY <2>3 DEF Waits, HalfOf, MateComes, Mates
  <2>10. ASSUME NEW k \in DOMAIN events'
         PROVE  /\ Meets(events'[k].path, x) => events'[k].kind = "rename"
                /\ ~Meets(events'[k].path, y)
    <3>1. CASE k \in DOMAIN events
      BY <1>4, <2>2, <3>1 DEF AskedAlone
    <3>2. CASE k \notin DOMAIN events
      BY <1>9, <2>3, <2>5, <2>9, <3>2 DEF PairsUp
    <3> QED BY <3>1, <3>2
  <2> QED BY <1>5, <2>1, <2>3, <2>6, <2>7, <2>8, <2>10 DEF AskedAlone
<1>15. RemovedAreGone'
  <2>1. SUFFICES ASSUME NEW k \in DOMAIN events', events'[k].kind = "remove"
                 PROVE  disk[events'[k].path] = Gone
    BY <1>5 DEF RemovedAreGone
  <2>2. CASE k \in DOMAIN events
    BY <1>1, <1>4, <2>1, <2>2 DEF PairsInv, RemovedAreGone
  <2>3. CASE k \notin DOMAIN events
    <3>1. PICK n \in DOMAIN es : events'[k] = es[n]
      BY <1>4, <2>1, <2>3
    <3>2. \A m \in DOMAIN es : es[m].kind = "remove" => disk[es[m].path] = Gone
      BY DEF Listens
    <3> QED BY <2>1, <3>1, <3>2
  <2> QED BY <2>2, <2>3
<1> QED BY <1>5, <1>11, <1>13, <1>14, <1>15 DEF PairsInv

LEMMA ListensWarns ==
    ASSUME Sound, NEW es, Listens(es), NEW r, NEW S \in SUBSET (1 .. stamps), Warned(r, S)
    PROVE  Warned(r, S)'
<1>1. NewsInv /\ PairsInv
  BY DEF Sound, PathsInv
<1>2. PICK h : h = Head(notices)
  OBVIOUS
<1>3. None \notin Path /\ None \notin S
  BY SoundTypes, SessionsAssumption
<1>4. /\ \A i \in DOMAIN events : i \in DOMAIN events' /\ events'[i] = events[i]
      /\ \A k \in DOMAIN es : \E i \in DOMAIN events' : events'[i] = es[k]
  BY <1>1, EmittedLast DEF Listens
<1>5. disk' = disk /\ \A x \in Path : Suppresses(x)' => Suppresses(x)
  BY DEF Listens
<1>6. Takes1 => /\ 1 \in DOMAIN notices /\ h = notices[1] /\ h.path \in Path
                /\ \A i \in DOMAIN notices' : i + 1 \in DOMAIN notices /\ notices'[i] = notices[i + 1]
                /\ \A i \in DOMAIN notices : i # 1 => i - 1 \in DOMAIN notices'
                /\ DOMAIN notices \subseteq Nat \ {0}
  BY <1>1, <1>2, NoticesLeft DEF NewsInv
<1>7. ~Takes1 => notices' = notices
  BY DEF Listens
<1>8. ASSUME NEW e, NEW k \in DOMAIN es, e = es[k], Breaks(e, r, S) PROVE Warned(r, S)'
  BY <1>4, <1>8 DEF Warned, Breaks, StampOf
<1>9. ASSUME NEW g, ~MateComes(g) PROVE ~MateComes(g)'
  BY <1>5, <1>6, <1>7, <1>9 DEF MateComes, Mates
<1>10. CASE pending # None /\ IsPrefix(pending.path, r) /\ ~MateComes(pending)
  <2>1. CASE pending' = pending
    <3>1. PICK g : g = pending
      OBVIOUS
    <3>2. ~MateComes(g)'
      BY <1>9, <1>10, <3>1
    <3>3. ~MateComes(pending)'
      BY <2>1, <3>1, <3>2 DEF MateComes, Mates
    <3> QED BY <1>10, <2>1, <3>3 DEF Warned
  <2>2. CASE \E k \in DOMAIN es : es[k].kind = "remove" /\ es[k].path = pending.path
    BY <1>8, <1>10, <2>2 DEF Breaks
  <2> QED BY <1>10, <2>1, <2>2 DEF Listens
<1>11. ASSUME NEW i \in DOMAIN notices, Warns(notices[i], r, S) PROVE Warned(r, S)'
  <2>1. PICK n : n = notices[i]
    OBVIOUS
  <2>2. n.path \in Path /\ Warns(n, r, S) /\ n.mate \in Path \cup {None}
    BY <1>1, <1>11, <2>1 DEF NewsInv
  <2>3. CASE ~Takes1 \/ i # 1
    <3>1. PICK j \in DOMAIN notices' : notices'[j] = n
      <4>1. CASE ~Takes1
        BY <1>7, <2>1, <4>1
      <4>2. CASE Takes1 /\ i # 1
        <5>1. i - 1 \in DOMAIN notices' /\ (i - 1) + 1 = i
          BY <1>6, <4>2
        <5> QED BY <1>6, <2>1, <4>2, <5>1
      <4> QED BY <2>3, <4>1, <4>2
    <3>2. ~MateComes(n) => ~MateComes(n)'
      BY <1>9
    <3>3. MateComes(notices[j])' => MateComes(n)'
      BY <3>1 DEF MateComes, Mates
    <3>4. n.path = r => (Suppresses(r)' => Suppresses(r))
      BY <1>5, <2>2
    <3>5. Warns(notices[j], r, S)'
      BY <1>5, <2>2, <3>1, <3>2, <3>3, <3>4 DEF Warns, Suppresses
    <3> QED BY <3>5 DEF Warned
  <2>4. CASE Takes1 /\ i = 1
    <3>1. n = h
      BY <1>6, <2>1, <2>4
    <3>2. ASSUME TakesHalf, IsPrefix(h.path, r), ~MateComes(h) PROVE Warned(r, S)'
      <4>1. pending' # None /\ pending'.path = h.path /\ pending'.mate = h.mate
        BY <1>2, <3>2 DEF TakesHalf
      <4>2. ~MateComes(h)'
        BY <1>9, <3>2
      <4>3. ~MateComes(pending)'
        BY <4>1, <4>2 DEF MateComes, Mates
      <4> QED BY <3>2, <4>1, <4>3 DEF Warned
    <3>3. CASE n.kind = "remove" /\ IsPrefix(n.path, r)
      <4>1. PICK k \in DOMAIN es : es[k].kind = "remove" /\ es[k].path = h.path
        BY <1>2, <2>4, <3>1, <3>3 DEF Listens
      <4> QED BY <1>8, <3>1, <3>3, <4>1 DEF Breaks
    <3>4. CASE n.kind = "half" /\ disk[n.path] = Gone /\ ~MateComes(n) /\ IsPrefix(n.path, r)
      <4>1. TakesHalf
        BY <1>2, <2>4, <3>1, <3>4 DEF Listens
      <4> QED BY <3>1, <3>2, <3>4, <4>1
    <3>5. CASE n.kind # "remove" /\ n.mate = None /\ n.path = r /\ ~Suppresses(r) /\ disk[r] \notin S
      <4>1. \/ TakesHalf
            \/ \E k \in DOMAIN es : /\ es[k].kind \in {"create", "modify"} /\ es[k].path = h.path
                                    /\ StampOf(es[k]) \in {disk[h.path], None}
        BY <1>2, <2>4, <3>1, <3>5 DEF Listens
      <4>2. ASSUME NEW k \in DOMAIN es, es[k].kind \in {"create", "modify"}, es[k].path = h.path,
                   StampOf(es[k]) \in {disk[h.path], None}
            PROVE  Warned(r, S)'
        BY <1>3, <1>8, <3>1, <3>5, <4>2 DEF Breaks
      <4>3. IsPrefix(h.path, r)
        BY <2>2, <3>1, <3>5, PathsAreNames
      <4>4. ~MateComes(h)
        BY <1>1, <1>3, <3>1, <3>5 DEF MateComes, Mates, NewsInv
      <4> QED BY <3>2, <4>1, <4>2, <4>3, <4>4
    <3> QED BY <2>2, <3>3, <3>4, <3>5 DEF Warns
  <2> QED BY <2>3, <2>4
<1>12. ASSUME NEW i \in DOMAIN events, Breaks(events[i], r, S) PROVE Warned(r, S)'
  BY <1>4, <1>12 DEF Warned, Breaks, StampOf
<1> QED BY <1>10, <1>11, <1>12 DEF Warned

LEMMA ListensKnown ==
    ASSUME Sound, NEW es, Listens(es)
    PROVE  StaysInPairs
<1>1. SUFFICES ASSUME NEW q \in Seq(Name), NEW s \in 1 .. stamps, NEW S \in SUBSET (1 .. stamps),
                      WillKnow(q, s, S)
               PROVE  WillKnow(q, s, S)'
  BY ListensPairs DEF StaysInPairs, KeepsKnown, StaysKnown
<1>2. NewsInv /\ PairsInv
  BY DEF Sound, PathsInv
<1>3. ASSUME NEW r, Knows(r, s, S) PROVE Knows(r, s, S)'
  <2>1. CASE At(r) = s
    BY <2>1 DEF Knows, At, Listens
  <2>2. CASE Warned(r, S)
    BY <2>2, ListensWarns DEF Knows
  <2> QED BY <1>3, <2>1, <2>2 DEF Knows
<1>4. CASE Knows(q, s, S)
  BY <1>3, <1>4 DEF WillKnow
<1>5. ASSUME NEW x \in Path, NEW y \in Path, Passage(x, y) PROVE Passage(x, y)'
  <2>1. CASE HalfOf(y, x) /\ disk[y] # Gone
    <3>1. PICK i \in DOMAIN notices : IsHalf(notices[i], y, x)
      BY <2>1 DEF HalfOf, IsHalf
    <3>2. CASE ~Takes1
      BY <2>1, <3>2 DEF Listens, Passage, HalfOf
    <3>3. CASE Takes1 /\ i # 1
      <4>1. i - 1 \in DOMAIN notices' /\ (i - 1) + 1 = i /\ notices'[i - 1] = notices[(i - 1) + 1]
        BY <1>2, <3>3, NoticesLeft
      <4>2. HalfOf(y, x)'
        BY <3>1, <4>1 DEF HalfOf, IsHalf
      <4> QED BY <2>1, <4>2 DEF Passage, Listens
    <3>4. CASE Takes1 /\ i = 1
      <4>1. PICK h : h = Head(notices)
        OBVIOUS
      <4>2. IsHalf(h, y, x) /\ x # None
        BY <1>2, <3>1, <3>4, <4>1, NoticesLeft, SessionsAssumption
      <4>3. PICK k \in DOMAIN es : PairsUp(es[k])
        BY <2>1, <3>4, <4>1, <4>2 DEF Listens, IsHalf
      <4>4. es[k].kind = "rename" /\ es[k].path = x /\ es[k].to = y
        BY <4>1, <4>2, <4>3 DEF PairsUp, Mates, IsHalf
      <4>5. \E j \in DOMAIN events' : events'[j] = es[k]
        BY <1>2, EmittedLast DEF Listens
      <4> QED BY <4>4, <4>5 DEF Passage
    <3> QED BY <3>2, <3>3, <3>4
  <2>2. CASE \E i \in DOMAIN events :
               events[i].kind = "rename" /\ events[i].path = x /\ events[i].to = y
    <3>1. \A i \in DOMAIN events : i \in DOMAIN events' /\ events'[i] = events[i]
      BY <1>2, EmittedLast DEF Listens
    <3> QED BY <2>2, <3>1 DEF Passage
  <2>3. CASE \E i \in DOMAIN calls :
               calls[i].kind = "remap" /\ calls[i].path = x /\ calls[i].to = y
    BY <2>3 DEF Passage, Listens
  <2> QED BY <1>5, <2>1, <2>2, <2>3 DEF Passage
<1>6. ASSUME NEW x \in Path, NEW y \in Path, Passage(x, y), IsPrefix(x, q), Knows(Remap(x, y, q), s, S)
      PROVE  WillKnow(q, s, S)'
  <2>1. PICK r : r = Remap(x, y, q)
    OBVIOUS
  <2>2. Knows(r, s, S)'
    BY <1>3, <1>6, <2>1
  <2>3. Knows(Remap(x, y, q), s, S)'
    BY <2>1, <2>2 DEF Knows, At, Warned, Warns, Breaks, Suppresses
  <2> QED BY <1>5, <1>6, <2>3 DEF WillKnow
<1> QED BY <1>1, <1>4, <1>6 DEF WillKnow

(* What the watcher does is one of these.                                    *)
LEMMA SuppressedListens ==
    ASSUME Sound, NoticeSuppressed
    PROVE  StaysInPairs
<1>1. PICK h : h = Head(notices)
  OBVIOUS
<1>2. /\ notices # <<>> /\ Takes1 /\ Suppresses(h.path) /\ h.mate = None
      /\ disk[h.path] # Gone /\ h.kind # "remove"
  <2>1. notices # <<>> /\ Takes1 /\ Suppresses(h.path)
    BY <1>1 DEF NoticeSuppressed, NoticeIs, Takes1, sent
  <2>2. h.path \in Path /\ 1 \in DOMAIN notices /\ h = notices[1]
    BY <1>1, <2>1, NewsOfPaths DEF Sound, PathsInv
  <2>3. disk[h.path] # Gone
    BY <2>1, <2>2, SoundTypes DEF Suppresses
  <2>4. h.kind # "remove"
    BY <2>2, <2>3 DEF Sound, ShowInv, ToldGone
  <2> QED BY <1>1, <2>1, <2>3, <2>4, HeadHalf
<1>3. PICK es : es = <<>>
  OBVIOUS
<1>4. IsSeq(es) /\ DOMAIN es = {} /\ Emits(es)
  <2>1. EmitsAfter(<<>>, Len(events))
    BY SilenceTells DEF NoticeSuppressed, Sound, PathsInv, NewsInv, sent
  <2> QED BY <1>3, <2>1, ShortSeqs DEF Emits
<1>5. /\ disk' = disk /\ stamps' = stamps /\ calls' = calls /\ pending' = pending /\ expected' = expected
  BY DEF NoticeSuppressed, WatcherLeaves, watcher, sent
<1>6. \A x \in Path : Suppresses(x)' => Suppresses(x)
  BY <1>5 DEF Suppresses
<1>7. Listens(es)
  BY <1>1, <1>2, <1>4, <1>5, <1>6 DEF Listens
<1> QED BY <1>7, ListensKnown

LEMMA ForgetsFor ==
    ASSUME Sound, NEW p \in Path, Forget(p), disk' = disk
    PROVE  \A x \in Path : Suppresses(x)' => Suppresses(x)
BY ForgetsOne DEF Sound

LEMMA StampOfChange ==
    ASSUME Sound, NEW kind, kind # "rename", NEW p \in Path
    PROVE  StampOf(Event(kind, p, <<>>)) \in {disk[p], None}
<1>1. PICK e : e = Event(kind, p, <<>>)
  OBVIOUS
<1>2. e.path = p /\ (e.entry = None \/ e.entry = EntryFor(p))
  BY <1>1 DEF Event
<1>3. EntryFor(p) # None => EntryFor(p) = [q \in Under(p) |-> disk[q]]
  BY DEF EntryFor
<1>4. p \in Under(p)
  BY PathsAreNames DEF Under
<1> QED BY <1>1, <1>2, <1>3, <1>4 DEF StampOf

LEMMA ChangeListens ==
    ASSUME Sound, NoticeOfChange
    PROVE  StaysInPairs
<1>1. PICK h, e : h = Head(notices) /\ e = Event(h.kind, h.path, <<>>)
  OBVIOUS
<1>2. /\ notices # <<>> /\ Takes1 /\ h.kind \in {"create", "modify", "remove"} /\ h.mate = None
      /\ h.path \in Path
  <2>1. notices # <<>> /\ Takes1 /\ h.kind \in {"create", "modify", "remove"}
    BY <1>1 DEF NoticeOfChange, NoticeIs, Takes1
  <2> QED BY <1>1, <2>1, HeadHalf, NewsOfPaths DEF Sound, PathsInv
<1>3. PICK es : es = <<e>>
  OBVIOUS
<1>4. IsSeq(es) /\ DOMAIN es = {1} /\ es[1] = e /\ Emits(es)
  <2>1. IsSeq(es) /\ DOMAIN es = {1} /\ es[1] = e
    BY <1>3, OneEvent
  <2>2. Emit(es)
    BY <1>1, <1>3 DEF NoticeOfChange
  <2> QED BY <2>1, <2>2, EmitsOf
<1>5. disk' = disk /\ stamps' = stamps /\ calls' = calls /\ pending' = pending
  BY DEF NoticeOfChange, WatcherLeaves
<1>6. \A x \in Path : Suppresses(x)' => Suppresses(x)
  BY <1>1, <1>2, <1>5, ForgetsFor DEF NoticeOfChange
<1>7. e.kind = h.kind /\ e.path = h.path /\ StampOf(e) \in {disk[h.path], None}
  BY <1>1, <1>2, StampOfChange, EventOf
<1>8. e.kind = "remove" => disk[e.path] = Gone
  BY <1>1, <1>2, <1>7, FirstNotice DEF Sound, ShowInv, PathsInv
<1>9. Listens(es)
  BY <1>1, <1>2, <1>4, <1>5, <1>6, <1>7, <1>8 DEF Listens
<1> QED BY <1>9, ListensKnown

LEMMA GoneListens ==
    ASSUME Sound, HalfGone
    PROVE  StaysInPairs
<1>1. PICK h, es : /\ h = Head(notices)
                   /\ es = IF pending = None THEN <<>> ELSE <<RemoveOf(pending.path)>>
  OBVIOUS
<1>2. notices # <<>> /\ Takes1 /\ h.kind = "half" /\ disk[h.path] = Gone /\ h.path \in Path /\ TakesHalf
  <2>1. /\ notices # <<>> /\ Takes1 /\ h.kind = "half" /\ disk[h.path] = Gone
        /\ pending' = [path |-> h.path, mate |-> h.mate]
    BY <1>1 DEF HalfGone, NoticeIs, Takes1
  <2>2. h.path \in Path /\ h.mate \in Path \cup {None}
    BY <1>1, <2>1, NewsOfPaths DEF Sound, PathsInv
  <2>3. pending' # None
    BY <2>1, <2>2, SessionsAssumption
  <2> QED BY <1>1, <2>1, <2>2, <2>3 DEF TakesHalf
<1>3. /\ IsSeq(es) /\ Emits(es)
      /\ \A k \in DOMAIN es : pending # None /\ k = 1 /\ es[k] = RemoveOf(pending.path)
      /\ pending # None => 1 \in DOMAIN es
  <2>1. Emit(es)
    BY <1>1 DEF HalfGone
  <2>2. /\ IsSeq(es) /\ DOMAIN es \subseteq {1, 2}
        /\ \A k \in DOMAIN es : pending # None /\ k = 1 /\ es[k] = RemoveOf(pending.path)
        /\ pending # None => 1 \in DOMAIN es
    <3>1. CASE pending = None
      BY <1>1, <3>1, ShortSeqs
    <3>2. CASE pending # None
      BY <1>1, <3>2, OneEvent
    <3> QED BY <3>1, <3>2
  <2> QED BY <2>1, <2>2, EmitsOf
<1>4. disk' = disk /\ stamps' = stamps /\ calls' = calls
  BY DEF HalfGone, WatcherLeaves
<1>5. \A x \in Path : Suppresses(x)' => Suppresses(x)
  BY <1>1, <1>2, <1>4, ForgetsFor DEF HalfGone
<1>6. pending # None => /\ ~MateComes(pending)
                        /\ RemoveOf(pending.path).kind = "remove" /\ RemoveOf(pending.path).path = pending.path
  BY <1>1, <1>2, MateIsNext, EventOf DEF RemoveOf, Sound, PathsInv
<1>7. pending # None => disk[pending.path] = Gone
  BY DEF Sound, ShowInv, ToldGone
<1>8. Listens(es)
  BY <1>1, <1>2, <1>3, <1>4, <1>5, <1>6, <1>7 DEF Listens
<1> QED BY <1>8, ListensKnown

LEMMA ThereListens ==
    ASSUME Sound, NEW es, IsSeq(es), DOMAIN es \subseteq {1, 2}, HalfThere(es), notices # <<>>
    PROVE  LET h == Head(notices)
           IN  /\ Takes1 /\ h.kind = "half" /\ h.path \in Path /\ disk[h.path] # Gone
               /\ h.mate # None => pending # None /\ Mates(pending, h)
               /\ Emits(es) /\ pending' = None
               /\ disk' = disk /\ stamps' = stamps /\ calls' = calls
               /\ \A x \in Path : Suppresses(x)' => Suppresses(x)
<1>1. PICK h : h = Head(notices)
  OBVIOUS
<1>2. Takes1 /\ h.kind = "half" /\ disk[h.path] # Gone /\ Forget(h.path)
  BY <1>1 DEF HalfThere, NoticeIs, Takes1
<1>3. h.path \in Path
  BY <1>1, NewsOfPaths DEF Sound, PathsInv
<1>4. h.mate # None => pending # None /\ Mates(pending, h)
  BY <1>1, <1>2, HeadHalf
<1>5. /\ Emits(es) /\ pending' = None
      /\ disk' = disk /\ stamps' = stamps /\ calls' = calls
  BY EmitsOf DEF HalfThere, WatcherLeaves
<1>6. \A x \in Path : Suppresses(x)' => Suppresses(x)
  BY <1>2, <1>3, <1>5, ForgetsFor
<1> QED BY <1>1, <1>2, <1>3, <1>4, <1>5, <1>6

LEMMA PairedListens ==
    ASSUME Sound, Paired
    PROVE  StaysInPairs
<1>1. PICK h, e, es : /\ h = Head(notices) /\ e = Event("rename", pending.path, h.path) /\ es = <<e>>
  OBVIOUS
<1>2. pending # None /\ notices # <<>> /\ Mates(pending, h) /\ HalfThere(es)
  BY <1>1 DEF Paired, Admits, Sound
<1>3. IsSeq(es) /\ DOMAIN es = {1} /\ es[1] = e
  BY <1>1, OneEvent
<1>4. /\ Takes1 /\ h.kind = "half" /\ h.path \in Path /\ disk[h.path] # Gone
      /\ Emits(es) /\ pending' = None
      /\ disk' = disk /\ stamps' = stamps /\ calls' = calls
      /\ \A x \in Path : Suppresses(x)' => Suppresses(x)
  BY <1>1, <1>2, <1>3, ThereListens
<1>5. PairsUp(e)
  BY <1>1, <1>2, <1>4, EventOf DEF PairsUp
<1>6. MateComes(pending)
  <2>1. 1 \in DOMAIN notices /\ h = notices[1]
    BY <1>1, <1>2, NewsOfPaths DEF Sound, PathsInv
  <2> QED BY <1>2, <1>4, <2>1 DEF MateComes
<1>7. h.mate # None
  BY <1>2, SessionsAssumption DEF Mates, Sound, PathsInv, NewsInv
<1>8. e.kind # "remove"
  BY <1>5 DEF PairsUp
<1>9. Listens(es)
  BY <1>1, <1>2, <1>4, <1>3, <1>5, <1>6, <1>7, <1>8 DEF Listens
<1> QED BY <1>9, ListensKnown

LEMMA PairedTooLateListens ==
    ASSUME Sound, PairedTooLate
    PROVE  StaysInPairs
<1>1. PICK h, e, f, es : /\ h = Head(notices) /\ e = RemoveOf(pending.path)
                         /\ f = Event("create", h.path, <<>>) /\ es = <<e, f>>
  OBVIOUS
<1>2. pending # None /\ notices # <<>> /\ ~Mates(pending, h) /\ HalfThere(es)
  BY <1>1 DEF PairedTooLate, Admits, Sound
<1>3. IsSeq(es) /\ DOMAIN es = {1, 2} /\ es[1] = e /\ es[2] = f
  BY <1>1, ShortSeqs
<1>4. /\ Takes1 /\ h.kind = "half" /\ h.path \in Path /\ disk[h.path] # Gone /\ h.mate = None
      /\ Emits(es) /\ pending' = None
      /\ disk' = disk /\ stamps' = stamps /\ calls' = calls
      /\ \A x \in Path : Suppresses(x)' => Suppresses(x)
  BY <1>1, <1>2, <1>3, ThereListens
<1>5. ~MateComes(pending)
  BY <1>1, <1>2, MateIsNext DEF Sound, PathsInv
<1>6. e.kind = "remove" /\ e.path = pending.path
  BY <1>1, EventOf DEF RemoveOf
<1>7. f.kind = "create" /\ f.path = h.path /\ StampOf(f) \in {disk[h.path], None}
  BY <1>1, <1>4, StampOfChange, EventOf
<1>8. \A k \in DOMAIN es :
        \/ es[k].path = pending.path /\ es[k].kind = "remove"
        \/ es[k].path = h.path /\ es[k].kind # "rename"
  BY <1>3, <1>6, <1>7
<1>9. /\ \E k \in DOMAIN es : es[k].kind = "remove" /\ es[k].path = pending.path
      /\ \E k \in DOMAIN es : /\ es[k].kind \in {"create", "modify"} /\ es[k].path = h.path
                              /\ StampOf(es[k]) \in {disk[h.path], None}
  BY <1>3, <1>6, <1>7
<1>10. \A k \in DOMAIN es :
         \/ /\ pending # None /\ es[k].path = pending.path
            /\ es[k].kind = "remove" /\ ~MateComes(pending)
         \/ PairsUp(es[k]) /\ DOMAIN es = {k}
         \/ Takes1 /\ es[k].path = Head(notices).path /\ es[k].kind # "rename" /\ Head(notices).mate = None
  BY <1>1, <1>2, <1>4, <1>5, <1>8
<1>11. IsSeq(es) /\ h = Head(notices)
  BY <1>1, <1>3
<1>12. pending # None => disk[pending.path] = Gone
  BY DEF Sound, ShowInv, ToldGone
<1>13. \A k \in DOMAIN es : es[k].kind = "remove" => disk[es[k].path] = Gone
  BY <1>1, <1>2, <1>3, <1>6, <1>7, <1>12
<1>14. Listens(es)
  BY <1>2, <1>4, <1>9, <1>10, <1>11, <1>13 DEF Listens
<1> QED BY <1>14, ListensKnown

LEMMA AloneListens ==
    ASSUME Sound, HalfAlone
    PROVE  StaysInPairs
<1>1. PICK h, e, es : h = Head(notices) /\ e = Event("create", h.path, <<>>) /\ es = <<e>>
  OBVIOUS
<1>2. pending = None /\ notices # <<>> /\ HalfThere(es)
  BY <1>1 DEF HalfAlone
<1>3. IsSeq(es) /\ DOMAIN es = {1} /\ es[1] = e
  BY <1>1, OneEvent
<1>4. /\ Takes1 /\ h.kind = "half" /\ h.path \in Path /\ disk[h.path] # Gone /\ h.mate = None
      /\ Emits(es) /\ pending' = None
      /\ disk' = disk /\ stamps' = stamps /\ calls' = calls
      /\ \A x \in Path : Suppresses(x)' => Suppresses(x)
  BY <1>1, <1>2, <1>3, ThereListens
<1>5. e.kind = "create" /\ e.path = h.path /\ StampOf(e) \in {disk[h.path], None}
  BY <1>1, <1>4, StampOfChange, EventOf
<1>6. Listens(es)
  BY <1>1, <1>2, <1>4, <1>3, <1>5 DEF Listens
<1> QED BY <1>6, ListensKnown

LEMMA TimesOutListens ==
    ASSUME Sound, HalfTimesOut
    PROVE  StaysInPairs
<1>1. PICK e, es : e = RemoveOf(pending.path) /\ es = <<e>>
  OBVIOUS
<1>2. /\ pending # None /\ pending' = None /\ notices' = notices
      /\ \A j \in DOMAIN notices : ~Mates(pending, notices[j])
  BY DEF HalfTimesOut, Admits, Sound
<1>3. /\ Emit(es) /\ disk' = disk /\ stamps' = stamps /\ calls' = calls
      /\ expected' = expected
  BY <1>1 DEF HalfTimesOut, WatcherLeaves
<1>4. \A x \in Path : Suppresses(x)' => Suppresses(x)
  BY <1>3 DEF Suppresses
<1>5. /\ IsSeq(es) /\ DOMAIN es = {1} /\ es[1] = e /\ e.kind = "remove" /\ e.path = pending.path
      /\ Emits(es)
  <2>1. IsSeq(es) /\ DOMAIN es = {1} /\ es[1] = e /\ e.kind = "remove" /\ e.path = pending.path
    BY <1>1, OneEvent, EventOf DEF RemoveOf
  <2> QED BY <1>3, <2>1, EmitsOf
<1>6. ~MateComes(pending) /\ ~Takes1
  <2>1. ~MateComes(pending)
    BY <1>2 DEF MateComes
  <2>2. ~Takes1
    <3>1. SUFFICES ASSUME Takes1 PROVE FALSE
      OBVIOUS
    <3>2. IsSeq(notices) /\ notices # <<>> /\ Len(Tail(notices)) = Len(notices) - 1
      BY <3>1 DEF Takes1, Sound, PathsInv, NewsInv, IsSeq
    <3>3. Len(notices) \in Nat
      BY <3>2, ElementsOfSeq
    <3> QED BY <1>2, <3>1, <3>2, <3>3 DEF Takes1
  <2> QED BY <2>1, <2>2
<1>7. pending # None => disk[pending.path] = Gone
  BY DEF Sound, ShowInv, ToldGone
<1>8. Listens(es)
  BY <1>2, <1>3, <1>4, <1>5, <1>6, <1>7 DEF Listens
<1> QED BY <1>8, ListensKnown

LEMMA ForgottenKnown ==
    ASSUME Sound, NEW p \in Files, WriteForgotten(p)
    PROVE  StaysInPairs
<1>1. /\ disk' = disk /\ stamps' = stamps /\ notices' = notices /\ pending' = pending
      /\ events' = events /\ calls' = calls /\ expected' = [expected EXCEPT ![p] = None]
  BY DEF WriteForgotten, WatcherLeaves, sent
<1>2. \A x \in Path : Suppresses(x)' => Suppresses(x)
  BY <1>1 DEF Suppresses, Sound, TypesInv, FilesTyped, Marks
<1>3. SameNewsOfDisk /\ SameRemaps
  BY <1>1, <1>2 DEF SameNewsOfDisk, SameRemaps
<1> QED BY <1>3, QuietKnown

-----------------------------------------------------------------------------
(* An event is delivered: what it tells leaves the way, and a session that   *)
(* is not told so by it knows as much as it did.                             *)
Delivers ==
    /\ events # <<>> /\ events' = Tail(events)
    /\ disk' = disk /\ stamps' = stamps /\ expected' = expected
    /\ notices' = notices /\ pending' = pending
    /\ SameRemaps

LEMMA EventsLeft ==
    ASSUME NewsInv, Delivers
    PROVE  /\ 1 \in DOMAIN events /\ Head(events) = events[1]
           /\ DOMAIN events \subseteq Nat \ {0} /\ DOMAIN events' \subseteq Nat \ {0}
           /\ \A i \in DOMAIN events' : i + 1 \in DOMAIN events /\ events'[i] = events[i + 1]
           /\ \A i \in DOMAIN events : i # 1 => i - 1 \in DOMAIN events' /\ events'[i - 1] = events[i]
<1>1. IsSeq(events) /\ events # <<>> /\ events' = Tail(events)
  BY DEF Delivers, NewsInv
<1>2. /\ IsSeq(events') /\ 1 \in DOMAIN events /\ Head(events) = events[1]
      /\ \A i \in DOMAIN events' : i + 1 \in DOMAIN events /\ events'[i] = events[i + 1]
  BY <1>1, RestOfSeq
<1>3. /\ Len(events) \in Nat /\ DOMAIN events = 1 .. Len(events)
      /\ Len(events') \in Nat /\ DOMAIN events' = 1 .. Len(events')
  BY <1>1, <1>2, ElementsOfSeq
<1>4. Len(events') = Len(events) - 1
  BY <1>1, <1>3 DEF IsSeq
<1>5. \A i \in DOMAIN events : i # 1 => i - 1 \in DOMAIN events' /\ (i - 1) + 1 = i
  BY <1>3, <1>4
<1> QED BY <1>2, <1>3, <1>5

LEMMA DeliversPairs ==
    ASSUME Sound, Delivers
    PROVE  PairsInv'
<1>1. /\ disk' = disk /\ notices' = notices /\ pending' = pending
      /\ \A x : Suppresses(x)' = Suppresses(x)
  BY DEF Delivers, Suppresses
<1>2. /\ DOMAIN events \subseteq Nat \ {0} /\ DOMAIN events' \subseteq Nat \ {0}
      /\ \A i \in DOMAIN events' : i + 1 \in DOMAIN events /\ events'[i] = events[i + 1]
  BY EventsLeft DEF Sound, PathsInv
<1>3. InPairs'
  <2>1. \A i \in DOMAIN notices : GoesFirst(i) => GoesFirst(i)'
    BY <1>1 DEF GoesFirst
  <2>2. \A i \in DOMAIN notices : GoesSecond(i) => GoesSecond(i)'
    <3>1. SUFFICES ASSUME NEW i \in DOMAIN notices, GoesSecond(i)
                   PROVE  GoesSecond(i)'
      OBVIOUS
    <3>2. \A k \in DOMAIN events' : ~Meets(events'[k].path, notices[i].mate) /\ ~Meets(events'[k].path, notices[i].path)
      BY <1>2, <3>1 DEF GoesSecond
    <3> QED BY <1>1, <3>1, <3>2 DEF GoesSecond, Waits
  <2> QED BY <1>1, <2>1, <2>2 DEF InPairs, Sound, PairsInv
<1>4. ASSUME NEW k \in DOMAIN events', events'[k].kind = "rename"
      PROVE  ToldAlone(k)'
  <2>1. k + 1 \in DOMAIN events /\ events'[k] = events[k + 1] /\ ToldAlone(k + 1)
    BY <1>2, <1>4 DEF Sound, PairsInv
  <2>2. \A i \in DOMAIN events' : /\ Meets(events'[i].path, events'[k].path) => i = k
                                  /\ Meets(events'[i].path, events'[k].to) => i >= k
    <3>1. SUFFICES ASSUME NEW i \in DOMAIN events'
                   PROVE  /\ Meets(events'[i].path, events'[k].path) => i = k
                          /\ Meets(events'[i].path, events'[k].to) => i >= k
      OBVIOUS
    <3>2. i + 1 \in DOMAIN events /\ events'[i] = events[i + 1] /\ i \in Nat /\ k \in Nat
      BY <1>2
    <3>3. /\ Meets(events[i + 1].path, events[k + 1].path) => i + 1 = k + 1
          /\ Meets(events[i + 1].path, events[k + 1].to) => i + 1 >= k + 1
      BY <2>1, <3>2 DEF ToldAlone
    <3> QED BY <2>1, <3>2, <3>3
  <2> QED BY <1>1, <2>1, <2>2 DEF ToldAlone
<1>5. ASSUME NEW n \in DOMAIN calls', calls'[n].kind = "remap"
      PROVE  AskedAlone(calls[n].path, calls[n].to)'
  <2>1. PICK c : c = calls'[n]
    OBVIOUS
  <2>2. AskedAlone(c.path, c.to)
    BY <1>5, <2>1 DEF Delivers, SameRemaps, Sound, PairsInv
  <2>3. AskedAlone(c.path, c.to)'
    BY <1>1, <1>2, <2>2 DEF AskedAlone, Waits, HalfOf
  <2> QED BY <2>1, <2>3
<1>6. RemovedAreGone'
  BY <1>1, <1>2 DEF Sound, PairsInv, RemovedAreGone
<1> QED BY <1>3, <1>4, <1>5, <1>6 DEF PairsInv

LEMMA DeliversWarns ==
    ASSUME Sound, Delivers, NEW r, NEW S, Warned(r, S), ~Breaks(Head(events), r, S)
    PROVE  Warned(r, S)'
<1>1. /\ disk' = disk /\ notices' = notices /\ pending' = pending /\ stamps' = stamps
      /\ \A x : Suppresses(x)' = Suppresses(x)
  BY DEF Delivers, Suppresses
<1>2. \A h : MateComes(h)' = MateComes(h)
  BY <1>1 DEF MateComes
<1>3. \A n : Warns(n, r, S) => Warns(n, r, S)'
  BY <1>1, <1>2 DEF Warns
<1>4. ASSUME NEW i \in DOMAIN events, Breaks(events[i], r, S)
      PROVE  Warned(r, S)'
  <2>1. i - 1 \in DOMAIN events' /\ events'[i - 1] = events[i]
    BY <1>4, EventsLeft DEF Sound, PathsInv
  <2> QED BY <1>4, <2>1 DEF Warned, Breaks, StampOf
<1> QED BY <1>1, <1>2, <1>3, <1>4 DEF Warned

LEMMA SecondOf ==
    ASSUME Sound, NEW x \in Path, NEW y, HalfOf(y, x), disk[y] # Gone
    PROVE  \E i \in DOMAIN notices : /\ IsHalf(notices[i], y, x) /\ GoesSecond(i)
<1>1. PICK i \in DOMAIN notices : notices[i].kind = "half" /\ notices[i].path = y /\ notices[i].mate = x
  BY DEF HalfOf
<1>2. x # None
  BY SessionsAssumption
<1>3. GoesSecond(i)
  BY <1>1, <1>2 DEF Sound, PairsInv, InPairs, GoesFirst
<1> QED BY <1>1, <1>3 DEF IsHalf

(* No event that is still to be told before a rename is about where it goes. *)
LEMMA FirstEventIsOff ==
    ASSUME Sound, Delivers, NEW x \in Path, NEW y \in Path, Passage(x, y)
    PROVE  LET e == Head(events)
           IN  \/ e.kind = "rename" /\ e.path = x /\ e.to = y
               \/ /\ ~Meets(e.path, y) /\ Passage(x, y)'
                  /\ e.kind # "rename" \/ ~Meets(e.path, x)
<1>1. PICK e : e = Head(events)
  OBVIOUS
<1>2. 1 \in DOMAIN events /\ e = events[1]
  BY <1>1, EventsLeft DEF Sound, PathsInv
<1>3. /\ disk' = disk /\ notices' = notices
  BY DEF Delivers
<1>4. CASE HalfOf(y, x) /\ disk[y] # Gone
  <2>1. PICK i \in DOMAIN notices : IsHalf(notices[i], y, x) /\ GoesSecond(i)
    BY <1>4, SecondOf
  <2>2. ~Meets(e.path, y) /\ ~Meets(e.path, x)
    BY <1>2, <2>1 DEF GoesSecond, IsHalf
  <2>3. Passage(x, y)'
    BY <1>3, <1>4 DEF Passage, HalfOf
  <2> QED BY <1>1, <2>2, <2>3
<1>5. CASE \E i \in DOMAIN events :
             events[i].kind = "rename" /\ events[i].path = x /\ events[i].to = y
  <2>1. PICK i \in DOMAIN events : events[i].kind = "rename" /\ events[i].path = x /\ events[i].to = y
    BY <1>5
  <2>2. CASE i = 1
    BY <1>1, <1>2, <2>1, <2>2
  <2>3. CASE i # 1
    <3>1. i - 1 \in DOMAIN events' /\ events'[i - 1] = events[i] /\ i \in Nat \ {0}
      BY <2>3, EventsLeft DEF Sound, PathsInv
    <3>2. Passage(x, y)'
      BY <2>1, <3>1 DEF Passage
    <3>3. ToldAlone(i)
      BY <2>1 DEF Sound, PairsInv
    <3>4. ~Meets(e.path, y) /\ ~Meets(e.path, x)
      BY <1>2, <2>1, <2>3, <3>1, <3>3 DEF ToldAlone
    <3> QED BY <1>1, <3>2, <3>4
  <2> QED BY <2>2, <2>3
<1>6. CASE \E n \in DOMAIN calls : calls[n].kind = "remap" /\ calls[n].path = x /\ calls[n].to = y
  <2>1. PICK n \in DOMAIN calls : calls[n].kind = "remap" /\ calls[n].path = x /\ calls[n].to = y
    BY <1>6
  <2>2. AskedAlone(x, y)
    BY <2>1 DEF Sound, PairsInv
  <2>3. Passage(x, y)'
    BY <2>1 DEF Passage, Delivers, SameRemaps
  <2>4. ~Meets(e.path, y)
    BY <1>2, <2>2 DEF AskedAlone
  <2>5. CASE e.kind # "rename"
    BY <1>1, <2>3, <2>4, <2>5
  <2>6. CASE e.kind = "rename"
    <3>1. e.path \in Path /\ e.to \in Path /\ Way(e.path, e.to) /\ Way(x, y)
      BY <1>2, <2>1, <2>6 DEF Way, Sound, PathsInv, NewsInv
    <3>2. Same(x, y, e.path, e.to) \/ (Off(e.path, x, y) /\ Off(e.to, x, y))
      BY <3>1 DEF Sound, PathsInv, WaysInv
    <3>3. y # e.path
      BY <2>4, <3>1, PathsAreNames DEF Meets
    <3>4. CASE Same(x, y, e.path, e.to)
      BY <1>1, <2>6, <3>3, <3>4 DEF Same
    <3>5. CASE Off(e.path, x, y)
      BY <1>1, <2>3, <2>4, <3>5 DEF Off
    <3> QED BY <3>2, <3>4, <3>5
  <2> QED BY <2>5, <2>6
<1> QED BY <1>4, <1>5, <1>6 DEF Passage

LEMMA DeliversKnown ==
    ASSUME Sound, Delivers, NEW p \in Seq(Name), NEW s \in 1 .. stamps,
           NEW S \in SUBSET (1 .. stamps), s \in S, WillKnow(p, s, S),
           NEW e, e = Head(events),
           NEW q, q = IF e.kind = "rename" THEN Remap(e.path, e.to, p) ELSE p
    PROVE  Breaks(e, p, S) \/ WillKnow(q, s, S)'
<1>1. e = Head(events)
  OBVIOUS
<1>2. 1 \in DOMAIN events /\ e = events[1] /\ e.path \in Path /\ (e.kind = "rename" => e.to \in Path)
  BY <1>1, EventsLeft DEF Sound, PathsInv, NewsInv
<1>3. \A x \in Path : x \in Seq(Name)
  BY PathsAreNames
<1>4. \A r : At(r)' = At(r)
  BY DEF Delivers, At
<1>5. \A r : Knows(r, s, S) => Breaks(e, r, S) \/ Knows(r, s, S)'
  BY <1>1, <1>4, DeliversWarns DEF Knows
<1>6. CASE e.kind = "rename" /\ IsPrefix(e.path, p)
  <2>1. Way(e.path, e.to) /\ ToldAlone(1)
    BY <1>2, <1>6 DEF Way, Sound, PairsInv
  <2>2. \A x \in Seq(Name) : IsPrefix(x, p) => Meets(x, e.path)
    BY <1>2, <1>3, <1>6, PrefixOrder
  <2>3. ~Knows(p, s, S)
    <3>1. At(p) # s
      BY <1>2, <1>6, <2>1, SoundTypes DEF At, ToldAlone, Sound, PathsInv, IsATree
    <3>2. ~Warned(p, S)
      <4>1. ~(pending # None /\ IsPrefix(pending.path, p))
        BY <1>2, <1>3, <2>1, <2>2 DEF ToldAlone, Sound, PathsInv, NewsInv
      <4>2. \A i \in DOMAIN notices : ~Warns(notices[i], p, S)
        <5>1. SUFFICES ASSUME NEW i \in DOMAIN notices, Warns(notices[i], p, S)
                       PROVE  FALSE
          OBVIOUS
        <5>2. notices[i].path \in Path
          BY DEF Sound, PathsInv, NewsInv
        <5>3. IsPrefix(notices[i].path, p)
          BY <5>1, <5>2, PathsAreNames DEF Warns
        <5> QED BY <1>2, <1>3, <2>1, <2>2, <5>2, <5>3 DEF ToldAlone
      <4>3. \A i \in DOMAIN events : ~Breaks(events[i], p, S)
        <5>1. SUFFICES ASSUME NEW i \in DOMAIN events, Breaks(events[i], p, S)
                       PROVE  FALSE
          OBVIOUS
        <5>2. events[i].path \in Path
          BY DEF Sound, PathsInv, NewsInv
        <5>3. IsPrefix(events[i].path, p)
          BY <5>1, <5>2, PathsAreNames DEF Breaks
        <5>4. i = 1
          BY <1>2, <1>3, <2>1, <2>2, <5>2, <5>3 DEF ToldAlone
        <5> QED BY <1>2, <1>6, <5>1, <5>4 DEF Breaks
      <4> QED BY <4>1, <4>2, <4>3 DEF Warned
    <3> QED BY <3>1, <3>2 DEF Knows
  <2>4. PICK x \in Path, y \in Path : Passage(x, y) /\ IsPrefix(x, p) /\ Knows(Remap(x, y, p), s, S)
    BY <2>3 DEF WillKnow
  <2>5. Meets(e.path, x)
    BY <1>3, <2>2, <2>4 DEF Meets
  <2>6. e.path = x /\ e.to = y
    BY <1>1, <1>6, <2>4, <2>5, FirstEventIsOff
  <2>7. ~Breaks(e, Remap(x, y, p), S)
    BY <1>6 DEF Breaks
  <2>8. Knows(Remap(e.path, e.to, p), s, S)'
    BY <1>5, <2>4, <2>6, <2>7
  <2>9. q = Remap(e.path, e.to, p)
    BY <1>6
  <2>10. Knows(q, s, S)'
    BY <2>8, <2>9
  <2> QED BY <2>10 DEF WillKnow
<1>7. CASE ~(e.kind = "rename" /\ IsPrefix(e.path, p))
  <2>1. q = p
    BY <1>7 DEF Remap
  <2>2. CASE Knows(p, s, S)
    BY <1>5, <2>1, <2>2 DEF WillKnow
  <2>3. CASE \E x, y \in Path : Passage(x, y) /\ IsPrefix(x, p) /\ Knows(Remap(x, y, p), s, S)
    <3>1. PICK x \in Path, y \in Path : Passage(x, y) /\ IsPrefix(x, p) /\ Knows(Remap(x, y, p), s, S)
      BY <2>3
    <3>2. ~Meets(e.path, y) /\ Passage(x, y)'
      BY <1>1, <1>7, <3>1, FirstEventIsOff
    <3>3. Remap(x, y, p) \in Seq(Name) /\ IsPrefix(y, Remap(x, y, p))
      BY <1>3, <3>1, RemapMoves
    <3>4. ~Breaks(e, Remap(x, y, p), S)
      <4>1. \A r \in Seq(Name) : IsPrefix(y, r) /\ IsPrefix(e.path, r) => Meets(e.path, y)
        BY <1>2, <1>3, PrefixOrder
      <4>2. ~IsPrefix(e.path, Remap(x, y, p))
        BY <3>2, <3>3, <4>1
      <4> QED BY <1>2, <4>2, PathsAreNames DEF Breaks
    <3>5. Knows(Remap(x, y, p), s, S)'
      BY <1>5, <3>1, <3>4
    <3> QED BY <2>1, <3>1, <3>2, <3>5 DEF WillKnow
  <2> QED BY <2>2, <2>3 DEF WillKnow
<1> QED BY <1>6, <1>7

-----------------------------------------------------------------------------
(* The one who asked for a rename takes the sessions where the file went.    *)
LEMMA PassagesAreWays ==
    ASSUME Sound, NEW x \in Path, NEW y \in Path, Passage(x, y)
    PROVE  Way(x, y)
<1>1. CASE HalfOf(y, x) /\ disk[y] # Gone
  <2>1. PICK i \in DOMAIN notices : IsHalf(notices[i], y, x) /\ GoesSecond(i)
    BY <1>1, SecondOf
  <2>2. CASE i = 1
    BY <1>1, <2>1, <2>2 DEF GoesSecond, IsHalf, Way
  <2>3. CASE i # 1
    <3>1. i - 1 \in DOMAIN notices
      <4>1. Len(notices) \in Nat /\ DOMAIN notices = 1 .. Len(notices)
        BY ElementsOfSeq DEF Sound, PathsInv, NewsInv
      <4> QED BY <2>3, <4>1
    <3>2. HalfOf(x, y)
      BY <2>1, <2>3, <3>1 DEF GoesSecond, IsHalf, HalfOf
    <3> QED BY <1>1, <3>2 DEF Way
  <2> QED BY <2>2, <2>3
<1>2. CASE ~(HalfOf(y, x) /\ disk[y] # Gone)
  BY <1>2 DEF Passage, Way
<1> QED BY <1>1, <1>2

LEMMA RemapArrives ==
    ASSUME Sound, NEW c, calls # <<>>, c = Head(calls), c.kind = "remap", NoRemap(calls'),
           disk' = disk, stamps' = stamps, notices' = notices, pending' = pending,
           events' = events, expected' = expected
    PROVE  /\ PairsInv'
           /\ \A p \in Seq(Name), s \in 1 .. stamps, S \in SUBSET (1 .. stamps) :
                s \in S /\ WillKnow(p, s, S) => WillKnow(Remap(c.path, c.to, p), s, S)'
<1>1. /\ \A x : Suppresses(x)' = Suppresses(x)
      /\ \A r : At(r)' = At(r)
  BY DEF Suppresses, At
<1>2. PairsInv'
  <2>1. InPairs'
    <3>1. \A i : GoesFirst(i)' = GoesFirst(i)
      BY DEF GoesFirst
    <3>2. \A i : GoesSecond(i) => GoesSecond(i)'
      BY <1>1 DEF GoesSecond, Waits
    <3> QED BY <3>1, <3>2 DEF InPairs, Sound, PairsInv
  <2>2. \A k : ToldAlone(k)' = ToldAlone(k)
    BY DEF ToldAlone
  <2> QED BY <2>1, <2>2 DEF PairsInv, RemovedAreGone, NoRemap, Sound
<1>3. \A r, s, S : Knows(r, s, S)' = Knows(r, s, S)
  <2>1. \A h : MateComes(h)' = MateComes(h)
    BY DEF MateComes
  <2>2. \A n, r, S : Warns(n, r, S)' = Warns(n, r, S)
    BY <1>1, <2>1 DEF Warns
  <2>3. \A r, S : Warned(r, S)' = Warned(r, S)
    BY <2>1, <2>2 DEF Warned, Breaks, StampOf
  <2> QED BY <1>1, <2>3 DEF Knows
<1>4. PICK x, y : x = c.path /\ y = c.to
  OBVIOUS
<1>5. 1 \in DOMAIN calls /\ c = calls[1]
  BY RestOfSeq DEF Sound, SessionsInv, AreInOrder
<1>6. x \in Path /\ y \in Path /\ AskedAlone(x, y) /\ Way(x, y)
  BY <1>4, <1>5 DEF Sound, PathsInv, HandlersInv, Handler, PairsInv, Way
<1>7. \A u \in Path : u \in Seq(Name)
  BY PathsAreNames
<1>8. ASSUME NEW p \in Seq(Name), NEW s \in 1 .. stamps, NEW S \in SUBSET (1 .. stamps), s \in S,
             WillKnow(p, s, S), NEW q, q = Remap(x, y, p)
      PROVE  WillKnow(q, s, S)'
  <2>1. CASE IsPrefix(x, p)
    <3>1. \A u \in Seq(Name) : IsPrefix(u, p) => Meets(u, x)
      BY <1>6, <1>7, <2>1, PrefixOrder
    <3>2. ~Knows(p, s, S)
      <4>1. At(p) # s
        BY <1>6, <2>1, SoundTypes DEF At, AskedAlone, Sound, PathsInv, IsATree
      <4>2. ~(pending # None /\ IsPrefix(pending.path, p) /\ ~MateComes(pending))
        <5>1. SUFFICES ASSUME pending # None, IsPrefix(pending.path, p)
                       PROVE  MateComes(pending)
          OBVIOUS
        <5>2. Waits(x, y) /\ HalfOf(y, x) /\ disk[y] # Gone
          BY <1>6, <1>7, <3>1, <5>1 DEF AskedAlone, Sound, PathsInv, NewsInv
        <5> QED BY <5>2 DEF Waits, HalfOf, MateComes, Mates
      <4>3. \A i \in DOMAIN notices : ~Warns(notices[i], p, S)
        <5>1. SUFFICES ASSUME NEW i \in DOMAIN notices, Warns(notices[i], p, S)
                       PROVE  FALSE
          OBVIOUS
        <5>2. notices[i].path \in Path
          BY DEF Sound, PathsInv, NewsInv
        <5>3. IsPrefix(notices[i].path, p)
          BY <5>1, <5>2, PathsAreNames DEF Warns
        <5>4. IsHalf(notices[i], x, y)
          BY <1>6, <1>7, <3>1, <5>2, <5>3 DEF AskedAlone
        <5>5. y # None /\ disk[y] # Gone
          BY <1>6, SessionsAssumption DEF AskedAlone
        <5>6. i + 1 \in DOMAIN notices /\ IsHalf(notices[i + 1], y, x)
          BY <5>4, <5>5 DEF Sound, PairsInv, InPairs, GoesFirst, GoesSecond, IsHalf
        <5>7. MateComes(notices[i])
          BY <5>4, <5>5, <5>6 DEF IsHalf, MateComes, Mates
        <5> QED BY <5>1, <5>4, <5>5, <5>7 DEF Warns, IsHalf
      <4>4. \A i \in DOMAIN events : ~Breaks(events[i], p, S)
        <5>1. SUFFICES ASSUME NEW i \in DOMAIN events, Breaks(events[i], p, S)
                       PROVE  FALSE
          OBVIOUS
        <5>2. events[i].path \in Path
          BY DEF Sound, PathsInv, NewsInv
        <5>3. IsPrefix(events[i].path, p)
          BY <5>1, <5>2, PathsAreNames DEF Breaks
        <5>4. events[i].kind = "rename"
          BY <1>6, <1>7, <3>1, <5>2, <5>3 DEF AskedAlone
        <5> QED BY <5>1, <5>4 DEF Breaks
      <4> QED BY <4>1, <4>2, <4>3, <4>4 DEF Knows, Warned
    <3>3. PICK u \in Path, v \in Path : Passage(u, v) /\ IsPrefix(u, p) /\ Knows(Remap(u, v, p), s, S)
      BY <1>8, <3>2 DEF WillKnow
    <3>4. Meets(u, x) /\ Way(u, v)
      BY <1>7, <3>1, <3>3, PassagesAreWays
    <3>5. Same(u, v, x, y) /\ ~Meets(x, y)
      BY <1>6, <3>4 DEF Sound, PathsInv, WaysInv, Off, Meets
    <3>6. u = x /\ v = y
      BY <3>4, <3>5 DEF Same, Meets
    <3>7. Knows(q, s, S)
      BY <1>8, <3>3, <3>6
    <3>8. Knows(q, s, S)'
      BY <1>3, <3>7
    <3> QED BY <3>8 DEF WillKnow
  <2>2. CASE ~IsPrefix(x, p)
    <3>1. q = p
      BY <1>8, <2>2 DEF Remap
    <3>2. CASE Knows(p, s, S)
      <4>1. Knows(p, s, S)'
        BY <1>3, <3>2
      <4> QED BY <3>1, <4>1 DEF WillKnow
    <3>3. CASE \E u, v \in Path : Passage(u, v) /\ IsPrefix(u, p) /\ Knows(Remap(u, v, p), s, S)
      <4>1. PICK u \in Path, v \in Path : Passage(u, v) /\ IsPrefix(u, p) /\ Knows(Remap(u, v, p), s, S)
        BY <3>3
      <4>2. \A n \in DOMAIN calls : calls[n].kind = "remap" => n = 1
        BY <1>5 DEF Sound, PathsInv, HandlersInv, OneHandler
      <4>3. u # x
        BY <2>2, <4>1
      <4>4. Passage(u, v)'
        BY <1>4, <1>5, <4>1, <4>2, <4>3 DEF Passage, HalfOf
      <4>5. Knows(Remap(u, v, p), s, S)'
        BY <1>3, <4>1
      <4> QED BY <3>1, <4>1, <4>4, <4>5 DEF WillKnow
    <3> QED BY <1>8, <3>2, <3>3 DEF WillKnow
  <2> QED BY <2>1, <2>2
<1>9. ASSUME NEW p \in Seq(Name), NEW s \in 1 .. stamps, NEW S \in SUBSET (1 .. stamps), s \in S, WillKnow(p, s, S)
      PROVE  WillKnow(Remap(c.path, c.to, p), s, S)'
  <2>1. PICK q : q = Remap(c.path, c.to, p)
    OBVIOUS
  <2>2. WillKnow(q, s, S)'
    BY <1>4, <1>8, <1>9, <2>1
  <2> QED BY <2>1, <2>2
<1> QED BY <1>2, <1>9

-----------------------------------------------------------------------------
(* What a session and a handler know                                         *)

(***************************************************************************)
(* What a handler holds of a session is the session: the file it is to     *)
(* save over is the one it has found and the session is still there to be  *)
(* saved; what it has read for the session is what the file holds.         *)
(***************************************************************************)
IsAt(c) == \A i \in DOMAIN docs : docs[i].id = c.doc.id => docs[i].path = c.doc.path
Saves(c) ==
    /\ c.doc.path \in Path
    /\ disk[c.doc.path] = c.reply /\ c.reply \in 1 .. stamps
    /\ \E i \in DOMAIN docs : /\ docs[i].id = c.doc.id /\ docs[i].shows # None
                              /\ docs[i].path = c.doc.path
Mending(d) ==
    \E n \in DOMAIN calls : calls[n].kind \in {"write", "reinspect"} /\ calls[n].doc.id = d.id
KnownCall(c) ==
    /\ c.kind = "inspect" /\ c.reply = c.doc.source =>
         /\ Saves(c)
         /\ \A i \in DOMAIN docs : docs[i].id = c.doc.id /\ docs[i].status = "editable"
                                     => docs[i].source = c.doc.source
    /\ c.kind \in {"write", "reinspect"} => Saves(c)
    /\ c.kind = "reinspect" => c.doc.shows = c.reply
    /\ c.kind = "link" => c.reply = At(c.path)
    /\ c.kind = "create" => c.reply \in 1 .. stamps
    /\ c.kind = "reload" => c.reply = At(c.doc.path) /\ (c.reply \notin {Gone, Folder} => IsAt(c))
    /\ c.then.do = "open" => c.then.stamp \in 1 .. stamps
KnownLoad(c) ==
    c.kind = "load" =>
         /\ HasActive /\ c.doc = Active
         /\ c.doc.status = "loading"
         /\ c.reply \notin {Gone, Folder} =>
              c.reply \in 1 .. stamps /\ WillKnow(c.doc.path, c.reply, {c.reply, c.doc.source})
KnownDoc(d) ==
    /\ d.status \in {"editable", "loading", "error"} \cup Refused
    /\ d.status \in {"editable", "loading"} => d.source \in 1 .. stamps
    /\ d.status \in {"loading", "error"} => ~d.dirty /\ d.shows = None
    /\ d.status = "editable" =>
         /\ ~d.dirty => d.shows = d.source
         /\ WillKnow(d.path, d.source, {d.source}) \/ Mending(d)
KnowInv ==
    /\ PairsInv
    /\ \A n \in DOMAIN calls : KnownCall(calls[n]) /\ KnownLoad(calls[n])
    /\ \A i \in DOMAIN docs : KnownDoc(docs[i])
KnowHolds == races = {} => KnowInv

(* The handlers of q wait on, and nothing else but loads does.               *)
KeptCalls(q) ==
    /\ \A n \in DOMAIN calls' :
         calls'[n].kind = "load" \/ \E i \in DOMAIN q : q[i] = calls'[n]
    /\ \A i \in DOMAIN q : q[i].kind # "load" => \E n \in DOMAIN calls' : calls'[n] = q[i]

WaitsOn(q, r) == \A i \in DOMAIN q : q[i].kind # "load" => \E n \in DOMAIN r : r[n] = q[i]
LoadsOnly(r, q, now) ==
    \A n \in DOMAIN r :
       \/ r[n].kind # "load" /\ \E i \in DOMAIN q : q[i] = r[n]
       \/ /\ now # <<>> /\ Head(now).status = "loading" /\ r[n].kind = "load"
          /\ r[n].doc = Head(now) /\ r[n].reply = At(Head(now).path) /\ r[n].then = Stay

LEMMA LoadsOf ==
    ASSUME NEW q, IsSeq(q), NEW now
    PROVE  LET r == LoadsAgain(now, q)
           IN  IsSeq(r) /\ LoadsOnly(r, q, now) /\ WaitsOn(q, r)
<1> DEFINE at == {i \in DOMAIN q : q[i].kind # "load"}
           kept == Kept(q, at)
           load == [Call("load") EXCEPT !.doc = Head(now), !.reply = At(Head(now).path)]
           more == Append(kept, load)
<1>1. /\ IsSeq(kept)
      /\ \A n \in DOMAIN kept : kept[n].kind # "load" /\ \E i \in DOMAIN q : q[i] = kept[n]
      /\ \A i \in DOMAIN q : q[i].kind # "load" => \E n \in DOMAIN kept : kept[n] = q[i]
  <2>1. at \in SUBSET DOMAIN q /\ \A i \in DOMAIN q : i \in at <=> q[i].kind # "load"
    OBVIOUS
  <2> HIDE DEF at
  <2>2. PICK pos \in [DOMAIN kept -> at] : /\ \A n \in DOMAIN kept : kept[n] = q[pos[n]]
                                           /\ \A i \in at : \E n \in DOMAIN kept : pos[n] = i
    BY <2>1, KeptOnce
  <2>3. IsSeq(kept)
    BY <2>1, KeptOnce
  <2> HIDE DEF kept
  <2>4. \A n \in DOMAIN kept : pos[n] \in DOMAIN q /\ pos[n] \in at
    BY <2>1, <2>2
  <2> QED BY <2>1, <2>2, <2>3, <2>4
<1>2. LoadsAgain(now, q) = IF now # <<>> /\ Head(now).status = "loading" THEN more ELSE kept
  BY DEF LoadsAgain
<1> HIDE DEF kept, load
<1>3. /\ IsSeq(more) /\ DOMAIN more = 1 .. Len(kept) + 1
      /\ DOMAIN kept = 1 .. Len(kept) /\ Len(kept) \in Nat
      /\ \A n \in DOMAIN kept : more[n] = kept[n]
      /\ more[Len(kept) + 1] = load
  BY <1>1, AppendedSeq, ElementsOfSeq
<1> HIDE DEF more
<1>4. /\ \A n \in DOMAIN more : (n \in DOMAIN kept /\ more[n] = kept[n]) \/ more[n] = load
      /\ \A n \in DOMAIN kept : n \in DOMAIN more
  BY <1>3
<1>5. /\ load.kind = "load" /\ load.doc = Head(now) /\ load.reply = At(Head(now).path)
      /\ load.then = Stay
  BY DEF load, Call
<1> DEFINE r == LoadsAgain(now, q)
<1>6. CASE now # <<>> /\ Head(now).status = "loading"
  <2>1. r = more
    BY <1>2, <1>6
  <2> HIDE DEF r
  <2>2. \A n \in DOMAIN r : (n \in DOMAIN kept /\ r[n] = kept[n]) \/ r[n] = load
    BY <1>4, <2>1
  <2>3. \A i \in DOMAIN q : q[i].kind # "load" => \E n \in DOMAIN r : r[n] = q[i]
    BY <1>1, <1>3, <1>4, <2>1
  <2>4. \A n \in DOMAIN r :
          \/ r[n].kind # "load" /\ \E i \in DOMAIN q : q[i] = r[n]
          \/ r[n] = load
    BY <1>1, <2>2
  <2>5. IsSeq(r) /\ LoadsOnly(r, q, now) /\ WaitsOn(q, r)
    BY <1>3, <1>5, <1>6, <2>1, <2>3, <2>4 DEF LoadsOnly, WaitsOn
  <2> QED BY <2>5 DEF r
<1>7. CASE ~(now # <<>> /\ Head(now).status = "loading")
  <2>1. r = kept
    BY <1>2, <1>7
  <2> HIDE DEF r
  <2>2. IsSeq(r) /\ LoadsOnly(r, q, now) /\ WaitsOn(q, r)
    BY <1>1, <2>1 DEF LoadsOnly, WaitsOn
  <2> QED BY <2>2 DEF r
<1> QED BY <1>6, <1>7

LEMMA BecomeKeeps ==
    ASSUME NEW q, IsSeq(q), NEW ds, NEW ac, NEW tr, Become(ds, ac, tr, q) \/ DocsBecome(ds, q)
    PROVE  IsSeq(calls') /\ KeptCalls(q) /\ docs' = ds
<1>1. docs' = ds /\ (calls' = q \/ \E now : calls' = LoadsAgain(now, q))
  BY DEF Become, DocsBecome
<1>2. CASE calls' = q
  BY <1>1, <1>2 DEF KeptCalls
<1>3. ASSUME NEW now, calls' = LoadsAgain(now, q)
      PROVE  IsSeq(calls') /\ KeptCalls(q)
  BY <1>3, LoadsOf DEF KeptCalls, LoadsOnly, WaitsOn
<1> QED BY <1>1, <1>2, <1>3

(* A load that is asked for reads the file of the session as it is.          *)
LEMMA FreshLoad ==
    ASSUME Sound, NEW ds, NEW ac, NEW tr, NEW q, IsSeq(q),
           \/ Become(ds, ac, tr, q)
           \/ DocsBecome(ds, q) /\ ac = active /\ WithId(ds, active) # WithId(docs, active),
           disk' = disk, stamps' = stamps, NEW n \in DOMAIN calls', NEW c, c = calls'[n], c.kind = "load"
    PROVE  KnownLoad(c)' /\ c.then = Stay
<1>1. PICK now : now = WithId(ds, ac)
  OBVIOUS
<1>2. docs' = ds /\ active' = (IF now = <<>> THEN 0 ELSE ac) /\ calls' = LoadsAgain(now, q)
  BY <1>1 DEF Become, DocsBecome
<1>3. /\ now # <<>> /\ Head(now).status = "loading"
      /\ c.doc = Head(now) /\ c.reply = At(Head(now).path) /\ c.then = Stay
  BY <1>2, LoadsOf DEF LoadsOnly
<1>4. WithId(docs', active') = now
  BY <1>1, <1>2, <1>3
<1>5. HasActive' /\ c.doc = Active'
  BY <1>3, <1>4 DEF HasActive, Active
<1>6. At(c.doc.path)' = c.reply
  BY <1>3 DEF At
<1>7. c.reply \notin {Gone, Folder} => c.reply \in 1 .. stamps'
  BY <1>3, SoundTypes DEF At
<1>8. WillKnow(c.doc.path, c.reply, {c.reply, c.doc.source})'
  BY <1>6 DEF WillKnow, Knows
<1> QED BY <1>3, <1>5, <1>7, <1>8 DEF KnownLoad

LEMMA FewerStamps ==
    ASSUME NEW p, NEW s, NEW S, NEW T \in SUBSET S, WillKnow(p, s, S)
    PROVE  WillKnow(p, s, T)
<1>1. \A n, r : Warns(n, r, S) => Warns(n, r, T)
  BY DEF Warns
<1>2. \A e, r : Breaks(e, r, S) => Breaks(e, r, T)
  BY DEF Breaks
<1>3. \A r : Knows(r, s, S) => Knows(r, s, T)
  BY <1>1, <1>2 DEF Knows, Warned
<1> QED BY <1>3 DEF WillKnow

(* A session, and a load, that nothing is done to.                           *)
LEMMA DocKnows ==
    ASSUME Sound, KnowInv, NEW i \in DOMAIN docs, NEW d, d = docs[i],
           StaysKnown(d.path) \/ Mending(d)', Mending(d) => Mending(d)',
           stamps' \in Nat, stamps <= stamps'
    PROVE  KnownDoc(d)'
<1>1. KnownDoc(d)
  BY DEF KnowInv
<1>2. \A s \in 1 .. stamps : s \in 1 .. stamps'
  BY SoundTypes
<1>3. d.status = "editable" => WillKnow(d.path, d.source, {d.source})' \/ Mending(d)'
  <2>1. SUFFICES ASSUME d.status = "editable", ~Mending(d)'
                 PROVE  WillKnow(d.path, d.source, {d.source})'
    OBVIOUS
  <2>2. d.source \in 1 .. stamps /\ WillKnow(d.path, d.source, {d.source}) /\ StaysKnown(d.path)
    BY <1>1, <2>1 DEF KnownDoc
  <2>3. PICK s, S : s = d.source /\ S = {d.source}
    OBVIOUS
  <2>4. s \in 1 .. stamps /\ S \in SUBSET (1 .. stamps) /\ s \in S
    BY <2>2, <2>3
  <2>5. WillKnow(d.path, s, S)'
    BY <2>2, <2>3, <2>4 DEF StaysKnown
  <2> QED BY <2>3, <2>5
<1> QED BY <1>1, <1>2, <1>3 DEF KnownDoc

LEMMA LoadOfADoc ==
    ASSUME Sound, KnowInv, NEW n \in DOMAIN calls, calls[n].kind = "load"
    PROVE  LET c == calls[n]
           IN  /\ KnownLoad(c) /\ HasActive /\ c.doc = Active /\ Active.status = "loading"
               /\ c.doc.source \in 1 .. stamps /\ ~c.doc.dirty /\ c.doc.shows = None
               /\ c.doc.id = active
               /\ \E i \in DOMAIN docs : docs[i] = c.doc
<1>1. PICK c : c = calls[n]
  OBVIOUS
<1>2. KnownLoad(c) /\ HasActive /\ c.doc = Active /\ Active.status = "loading"
  BY <1>1 DEF KnowInv, KnownLoad
<1>3. PICK i \in DOMAIN docs : Active = docs[i]
  BY <1>2, ActiveIsASession DEF Sound
<1>4. Active.id = active
  BY <1>2, ActiveIsASession DEF Sound
<1>5. KnownDoc(docs[i])
  BY DEF KnowInv
<1> QED BY <1>1, <1>2, <1>3, <1>4, <1>5 DEF KnownDoc

LEMMA LoadKnows ==
    ASSUME Sound, KnowInv, NEW n \in DOMAIN calls, NEW c, c = calls[n], c.kind = "load",
           StaysKnown(c.doc.path), HasActive', c.doc = Active',
           stamps' \in Nat, stamps <= stamps'
    PROVE  KnownLoad(c)'
<1>1. KnownLoad(c) /\ c.doc.source \in 1 .. stamps
  BY LoadOfADoc
<1>2. \A s \in 1 .. stamps : s \in 1 .. stamps'
  BY SoundTypes
<1>3. ASSUME c.reply \notin {Gone, Folder}
      PROVE  c.reply \in 1 .. stamps' /\ WillKnow(c.doc.path, c.reply, {c.reply, c.doc.source})'
  <2>1. c.reply \in 1 .. stamps /\ WillKnow(c.doc.path, c.reply, {c.reply, c.doc.source})
    BY <1>1, <1>3 DEF KnownLoad
  <2>2. PICK s, S : s = c.reply /\ S = {c.reply, c.doc.source}
    OBVIOUS
  <2>3. s \in 1 .. stamps /\ S \in SUBSET (1 .. stamps) /\ s \in S
    BY <1>1, <2>1, <2>2
  <2>4. WillKnow(c.doc.path, s, S)'
    BY <2>1, <2>2, <2>3 DEF StaysKnown
  <2> QED BY <1>2, <2>1, <2>2, <2>4
<1> QED BY <1>1, <1>3 DEF KnownLoad

(***************************************************************************)
(* What a step owes to what is known: when it leaves the sessions alone,   *)
(* when it changes the screen, when it changes only the sessions.          *)
(***************************************************************************)
Handled(q) == \A n \in DOMAIN q : q[n].kind # "load" => KnownCall(q[n])

LEMMA SameDocsKnow ==
    ASSUME Sound, KnowInv, PairsInv', docs' = docs, active' = active,
           stamps' \in Nat, stamps <= stamps',
           \A i \in DOMAIN docs : \/ StaysKnown(docs[i].path)
                                  \/ docs[i].shows # None /\ Mending(docs[i])',
           \A i \in DOMAIN docs : Mending(docs[i]) => Mending(docs[i])',
           \A n \in DOMAIN calls' : calls'[n].kind = "load" => \E i \in DOMAIN calls : calls[i] = calls'[n],
           Handled(calls)'
    PROVE  KnowInv'
<1>1. ASSUME NEW i \in DOMAIN docs'
      PROVE  KnownDoc(docs[i])'
  <2>1. PICK d : d = docs[i]
    OBVIOUS
  <2>2. i \in DOMAIN docs /\ docs'[i] = d
    BY <2>1
  <2>3. /\ StaysKnown(d.path) \/ Mending(d)'
        /\ Mending(d) => Mending(d)'
    BY <2>1, <2>2
  <2>4. KnownDoc(d)'
    BY <2>1, <2>2, <2>3, DocKnows
  <2> QED BY <2>2, <2>4
<1>2. \A s \in 1 .. stamps : s \in 1 .. stamps'
  BY SoundTypes
<1>3. ASSUME NEW n \in DOMAIN calls', NEW c, c = calls'[n]
      PROVE  KnownCall(c)' /\ KnownLoad(c)'
  <2>1. CASE c.kind # "load"
    <3>1. KnownCall(c)'
      BY <1>3, <2>1 DEF Handled
    <3> QED BY <2>1, <3>1 DEF KnownLoad
  <2>2. CASE c.kind = "load"
    <3>1. PICK m \in DOMAIN calls : calls[m] = c
      BY <1>3, <2>2
    <3>2. KnownCall(c)'
      <4>1. KnownCall(c)
        BY <3>1 DEF KnowInv
      <4> QED BY <1>2, <2>2, <4>1 DEF KnownCall
    <3>3. /\ HasActive /\ c.doc = Active /\ c.doc.shows = None
          /\ \E i \in DOMAIN docs : docs[i] = c.doc
      BY <2>2, <3>1, LoadOfADoc
    <3>4. StaysKnown(c.doc.path)
      BY <3>3
    <3>5. HasActive' /\ c.doc = Active'
      BY <3>3 DEF HasActive, Active, WithId
    <3>6. KnownLoad(c)'
      BY <2>2, <3>1, <3>4, <3>5, LoadKnows
    <3> QED BY <3>2, <3>6
  <2> QED BY <2>1, <2>2
<1>4. \A n \in DOMAIN calls' : (KnownCall(calls[n]) /\ KnownLoad(calls[n]))'
  <2>1. SUFFICES ASSUME NEW n \in DOMAIN calls'
                 PROVE  (KnownCall(calls[n]) /\ KnownLoad(calls[n]))'
    OBVIOUS
  <2>2. PICK c : c = calls'[n]
    OBVIOUS
  <2>3. KnownCall(c)' /\ KnownLoad(c)'
    BY <1>3, <2>2
  <2> QED BY <2>2, <2>3
<1> QED BY <1>1, <1>4 DEF KnowInv

HandledThen(q) == \A n \in DOMAIN q : \A c : c = q[n] /\ c.kind # "load" => KnownCall(c)'

LEMMA ChangedScreenKnows ==
    ASSUME PairsInv', NEW q, KeptCalls(q), NEW ds, docs' = ds,
           \A j \in DOMAIN ds : \A d : d = ds[j] => KnownDoc(d)', HandledThen(q),
           \A n \in DOMAIN calls' : \A c : c = calls'[n] /\ c.kind = "load" => KnownCall(c)' /\ KnownLoad(c)'
    PROVE  KnowInv'
<1>1. \A n \in DOMAIN calls' : (KnownCall(calls[n]) /\ KnownLoad(calls[n]))'
  <2>1. SUFFICES ASSUME NEW n \in DOMAIN calls'
                 PROVE  (KnownCall(calls[n]) /\ KnownLoad(calls[n]))'
    OBVIOUS
  <2>2. PICK c : c = calls'[n]
    OBVIOUS
  <2>3. CASE c.kind = "load"
    <3>1. KnownCall(c)' /\ KnownLoad(c)'
      BY <2>2, <2>3
    <3> QED BY <2>2, <3>1
  <2>4. CASE c.kind # "load"
    <3>1. PICK i \in DOMAIN q : q[i] = c
      BY <2>2, <2>4 DEF KeptCalls
    <3>2. KnownCall(c)'
      BY <2>4, <3>1 DEF HandledThen
    <3>3. KnownLoad(c)'
      BY <2>4 DEF KnownLoad
    <3> QED BY <2>2, <3>2, <3>3
  <2> QED BY <2>3, <2>4
<1>2. \A j \in DOMAIN docs' : KnownDoc(docs[j])'
  <2>1. SUFFICES ASSUME NEW j \in DOMAIN docs'
                 PROVE  KnownDoc(docs[j])'
    OBVIOUS
  <2>2. PICK d : d = docs'[j]
    OBVIOUS
  <2>3. KnownDoc(d)'
    BY <2>2
  <2> QED BY <2>2, <2>3
<1> QED BY <1>1, <1>2 DEF KnowInv

LEMMA OnlyOpensLater ==
    ASSUME NEW c, c.kind = "load", c.then.do = "open" => c.then.stamp \in 1 .. stamps'
    PROVE  KnownCall(c)'
BY DEF KnownCall

LEMMA ScreenKnows ==
    ASSUME Sound, PairsInv', disk' = disk, stamps' = stamps,
           NEW ds, NEW ac, NEW tr, NEW q, IsSeq(q), Become(ds, ac, tr, q),
           \A j \in DOMAIN ds : \A d : d = ds[j] => KnownDoc(d)', HandledThen(q)
    PROVE  KnowInv'
<1>1. KeptCalls(q) /\ docs' = ds
  BY BecomeKeeps
<1>2. ASSUME NEW n \in DOMAIN calls', NEW c, c = calls'[n], c.kind = "load"
      PROVE  KnownCall(c)' /\ KnownLoad(c)'
  <2>1. KnownLoad(c)' /\ c.then = Stay
    BY <1>2, FreshLoad
  <2>2. c.then.do # "open"
    BY <2>1 DEF Stay
  <2> QED BY <1>2, <2>1, <2>2, OnlyOpensLater
<1> QED BY <1>1, <1>2, ChangedScreenKnows

LEMMA DocsOnlyKnow ==
    ASSUME Sound, KnowInv, StaysInPairs, disk' = disk, stamps' = stamps,
           NEW ds, NEW q, IsSeq(q), DocsBecome(ds, q),
           \A n \in DOMAIN q : q[n].kind = "load" => \E i \in DOMAIN calls : calls[i] = q[n],
           \A j \in DOMAIN ds : \A d : d = ds[j] => KnownDoc(d)', HandledThen(q)
    PROVE  KnowInv'
<1>1. KeptCalls(q) /\ docs' = ds /\ PairsInv'
  BY BecomeKeeps DEF StaysInPairs
<1>2. ASSUME NEW n \in DOMAIN calls', NEW c, c = calls'[n], c.kind = "load"
      PROVE  KnownCall(c)' /\ KnownLoad(c)'
  <2>1. CASE WithId(ds, active) # WithId(docs, active)
    <3>1. KnownLoad(c)' /\ c.then = Stay
      BY <1>2, <2>1, FreshLoad
    <3>2. c.then.do # "open"
      BY <3>1 DEF Stay
    <3> QED BY <1>2, <3>1, <3>2, OnlyOpensLater
  <2>2. CASE WithId(ds, active) = WithId(docs, active)
    <3>1. calls' = q /\ active' = IF WithId(ds, active) = <<>> THEN 0 ELSE active
      BY <2>2 DEF DocsBecome
    <3>2. PICK m \in DOMAIN calls : calls[m] = c
      BY <1>2, <3>1
    <3>3. /\ HasActive /\ c.doc = Active /\ \E i \in DOMAIN docs : docs[i] = c.doc
      BY <1>2, <3>2, LoadOfADoc
    <3>4. c.doc.path \in Seq(Name)
      BY <3>3 DEF Sound, PathsInv, PathsApart
    <3>5. StaysKnown(c.doc.path)
      BY <3>4 DEF StaysInPairs, KeepsKnown
    <3>6. active' = active /\ WithId(docs', active') = WithId(docs, active)
      BY <1>1, <2>2, <3>1, <3>3 DEF HasActive
    <3>7. HasActive' /\ c.doc = Active'
      BY <3>3, <3>6 DEF HasActive, Active
    <3>8. stamps' \in Nat /\ stamps <= stamps'
      BY SoundTypes
    <3>9. KnownLoad(c)'
      BY <1>2, <3>2, <3>5, <3>7, <3>8, LoadKnows
    <3>10. KnownCall(c)
      BY <3>2 DEF KnowInv
    <3> QED BY <1>2, <3>9, <3>10, OnlyOpensLater DEF KnownCall
  <2> QED BY <2>1, <2>2
<1> QED BY <1>1, <1>2, ChangedScreenKnows

-----------------------------------------------------------------------------
(* The person asks                                                           *)

(* The loads of the queue, when no handler is in it.                         *)
TheRest(q) ==
    IsSeq(q) /\ AllLoads(q) /\ \A n \in DOMAIN q : \E i \in DOMAIN calls : calls[i] = q[n]
NoneMending == \A d : ~Mending(d)

LEMMA WhileIdle ==
    ASSUME Sound, Idle
    PROVE  TheRest(calls) /\ NoRemap(calls) /\ NoneMending
<1>1. IsSeq(calls) /\ AllLoads(calls)
  BY DEF Sound, SessionsInv, AreInOrder, Idle, AllLoads
<1> QED BY <1>1 DEF TheRest, AllLoads, NoRemap, NoneMending, Mending

LEMMA AfterTheHead ==
    ASSUME Sound, calls # <<>>, NEW c, c = Head(calls), c.kind # "load"
    PROVE  /\ TheRest(Tail(calls)) /\ 1 \in DOMAIN calls /\ c = calls[1]
           /\ \A n \in DOMAIN calls : calls[n].kind # "load" => n = 1
           /\ c.kind \notin {"write", "reinspect"} => NoneMending
           /\ c.kind # "remap" => NoRemap(calls)
<1>1. IsSeq(calls) /\ OneHandler(calls)
  BY DEF Sound, SessionsInv, AreInOrder, PathsInv, HandlersInv
<1>2. /\ IsSeq(Tail(calls)) /\ From(Tail(calls), calls) /\ AllLoads(Tail(calls))
      /\ 1 \in DOMAIN calls /\ c = calls[1]
  BY <1>1, RestOfHandlers
<1>3. \A n \in DOMAIN Tail(calls) : \E i \in DOMAIN calls : calls[i] = Tail(calls)[n]
  BY <1>1, RestOfSeq
<1>4. \A n \in DOMAIN calls : calls[n].kind # "load" => n = 1
  BY <1>1, <1>2 DEF OneHandler
<1> QED BY <1>2, <1>3, <1>4 DEF TheRest, NoneMending, Mending, NoRemap

LEMMA LoadsAreHandled ==
    ASSUME NEW q, AllLoads(q)
    PROVE  HandledThen(q)
BY DEF AllLoads, HandledThen

LEMMA AppendedIsHandled ==
    ASSUME NEW q, TheRest(q), NEW c, KnownCall(c)'
    PROVE  HandledThen(Append(q, c)) /\ IsSeq(Append(q, c))
<1>1. /\ IsSeq(Append(q, c))
      /\ \A n \in DOMAIN Append(q, c) : Append(q, c)[n].kind = "load" \/ Append(q, c)[n] = c
  BY AppendsHandler DEF TheRest
<1> QED BY <1>1 DEF HandledThen

LEMMA LoadsAppended ==
    ASSUME NEW q, TheRest(q), NEW c, c.kind # "load"
    PROVE  /\ \A n \in DOMAIN Append(q, c) : Append(q, c)[n].kind = "load"
                => \E i \in DOMAIN calls : calls[i] = Append(q, c)[n]
           /\ \E n \in DOMAIN Append(q, c) : Append(q, c)[n] = c
<1> DEFINE r == Append(q, c)
<1>1. /\ DOMAIN r = 1 .. Len(q) + 1 /\ DOMAIN q = 1 .. Len(q) /\ Len(q) \in Nat
      /\ \A n \in DOMAIN q : r[n] = q[n]
      /\ r[Len(q) + 1] = c
  BY AppendedSeq, ElementsOfSeq DEF TheRest
<1> HIDE DEF r
<1>2. \A n \in DOMAIN r : n = Len(q) + 1 \/ (n \in DOMAIN q /\ r[n] = q[n])
  BY <1>1
<1>3. Len(q) + 1 \in DOMAIN r
  BY <1>1
<1>4. /\ \A n \in DOMAIN r : r[n].kind = "load" => \E i \in DOMAIN calls : calls[i] = r[n]
      /\ \E n \in DOMAIN r : r[n] = c
  BY <1>1, <1>2, <1>3 DEF TheRest
<1> QED BY <1>4 DEF r

(* A handler waits for a reply, and the sessions are left alone.             *)
LEMMA CallKnows ==
    ASSUME Sound, KnowInv, PairsInv', docs' = docs, active' = active,
           stamps' \in Nat, stamps <= stamps',
           \A i \in DOMAIN docs : StaysKnown(docs[i].path),
           NEW q, TheRest(q), NEW c, c.kind # "load", KnownCall(c)', calls' = Append(q, c),
           \A i \in DOMAIN docs : Mending(docs[i]) =>
              c.kind \in {"write", "reinspect"} /\ c.doc.id = docs[i].id
    PROVE  KnowInv'
<1>1. /\ \A n \in DOMAIN calls' : calls'[n].kind = "load" => \E i \in DOMAIN calls : calls[i] = calls'[n]
      /\ \E n \in DOMAIN calls' : calls'[n] = c
  BY LoadsAppended
<1>2. \A i \in DOMAIN docs : Mending(docs[i]) => Mending(docs[i])'
  BY <1>1 DEF Mending
<1>3. Handled(calls)'
  <2>1. HandledThen(Append(q, c))
    BY AppendedIsHandled
  <2>2. SUFFICES ASSUME NEW n \in DOMAIN calls', calls'[n].kind # "load"
                 PROVE  KnownCall(calls[n])'
    BY DEF Handled
  <2>3. PICK e : e = calls'[n]
    OBVIOUS
  <2>4. KnownCall(e)'
    BY <2>1, <2>2, <2>3 DEF HandledThen
  <2> QED BY <2>3, <2>4
<1> QED BY <1>1, <1>2, <1>3, SameDocsKnow

(* Nothing waits any more, and the sessions are left alone.                  *)
LEMMA NoCallKnows ==
    ASSUME Sound, KnowInv, PairsInv', docs' = docs, active' = active,
           stamps' \in Nat, stamps <= stamps',
           \A i \in DOMAIN docs : StaysKnown(docs[i].path), NoneMending,
           NEW q, TheRest(q), calls' = q
    PROVE  KnowInv'
<1>1. /\ \A n \in DOMAIN calls' : calls'[n].kind = "load" => \E i \in DOMAIN calls : calls[i] = calls'[n]
      /\ Handled(calls)'
  BY DEF TheRest, AllLoads, Handled
<1>2. \A i \in DOMAIN docs : Mending(docs[i]) => Mending(docs[i])'
  BY DEF NoneMending
<1> QED BY <1>1, <1>2, SameDocsKnow

LEMMA DocsStayKnown ==
    ASSUME Sound, StaysInPairs
    PROVE  PairsInv' /\ \A i \in DOMAIN docs : docs[i].path \in Seq(Name) /\ StaysKnown(docs[i].path)
<1>1. \A i \in DOMAIN docs : docs[i].path \in Seq(Name)
  BY DEF Sound, PathsInv, PathsApart
<1> QED BY <1>1 DEF StaysInPairs, KeepsKnown

LEMMA SaveThenKnows ==
    ASSUME Sound, KnowInv, Idle, HasActive, NEW then, SaveThen(then),
           then.do = "open" => then.stamp \in 1 .. stamps,
           expected' = expected, pending' = pending, events' = events
    PROVE  KnowInv'
<1>1. PICK c : c = [Call("inspect") EXCEPT !.doc = Active, !.then = then, !.reply = At(Active.path)]
  OBVIOUS
<1>2. /\ c.kind = "inspect" /\ c.doc = Active /\ c.then = then /\ c.reply = At(Active.path)
  BY <1>1 DEF Call
<1>3. /\ calls' = Append(calls, c) /\ docs' = docs /\ active' = active /\ disk' = disk
      /\ stamps' = stamps /\ notices' = notices
      /\ Active.status \notin Refused /\ Active.shows # None
  BY <1>1 DEF SaveThen, screen
<1>4. TheRest(calls) /\ NoRemap(calls) /\ NoneMending
  BY WhileIdle
<1>5. \A n \in DOMAIN calls' : calls'[n].kind = "load" \/ calls'[n] = c
  <2>1. IsSeq(calls) /\ AllLoads(calls)
    BY <1>4 DEF TheRest
  <2>2. \A n \in DOMAIN Append(calls, c) : Append(calls, c)[n].kind = "load" \/ Append(calls, c)[n] = c
    BY <2>1, AppendsHandler
  <2> QED BY <1>3, <2>2
<1>6. StaysInPairs
  <2>1. SameRemaps
    BY <1>2, <1>4, <1>5 DEF SameRemaps, NoRemap
  <2>2. SameNewsOfDisk
    BY <1>3 DEF SameNewsOfDisk, Suppresses
  <2> QED BY <2>1, <2>2, QuietKnown
<1>7. PICK i \in DOMAIN docs : Active = docs[i]
  BY ActiveIsASession DEF Sound
<1>8. KnownDoc(docs[i])
  BY DEF KnowInv
<1>9. Active.status = "editable" /\ Active.source \in 1 .. stamps
  BY <1>3, <1>7, <1>8 DEF KnownDoc
<1>10. KnownCall(c)'
  <2>1. ASSUME c.reply = c.doc.source
        PROVE  /\ Saves(c)'
               /\ (\A j \in DOMAIN docs : docs[j].id = c.doc.id => docs[j].source = c.doc.source)'
    <3>1. c.reply \in 1 .. stamps /\ At(Active.path) = c.reply
      BY <1>2, <1>9, <2>1
    <3>2. Active.path \in Path /\ disk[Active.path] = c.reply
      BY <3>1, SoundTypes DEF At
    <3>3. \A j \in DOMAIN docs : docs[j].id = Active.id => docs[j] = Active
      BY <1>7 DEF Sound, SessionsInv, AreApart
    <3> QED BY <1>2, <1>3, <1>7, <3>1, <3>2, <3>3 DEF Saves
  <2> QED BY <1>2, <1>3, <2>1 DEF KnownCall
<1>11. stamps' \in Nat /\ stamps <= stamps'
  BY <1>3, SoundTypes
<1>12. /\ PairsInv' /\ \A j \in DOMAIN docs : StaysKnown(docs[j].path)
       /\ \A j \in DOMAIN docs : ~Mending(docs[j])
  BY <1>4, <1>6, DocsStayKnown DEF NoneMending
<1> QED BY <1>2, <1>3, <1>4, <1>10, <1>11, <1>12, CallKnows

LEMMA QuietScreen ==
    ASSUME Sound, NoRemap(calls), NEW q, IsSeq(q), NoRemap(q), NEW ds, NEW ac, NEW tr,
           Become(ds, ac, tr, q) \/ DocsBecome(ds, q),
           disk' = disk, stamps' = stamps, notices' = notices, pending' = pending,
           events' = events, expected' = expected
    PROVE  StaysInPairs
<1>1. KeptCalls(q)
  BY BecomeKeeps
<1>2. NoRemap(calls')
  BY <1>1 DEF KeptCalls, NoRemap
<1>3. SameRemaps
  BY <1>2 DEF SameRemaps, NoRemap
<1>4. SameNewsOfDisk
  BY DEF SameNewsOfDisk, Suppresses
<1> QED BY <1>3, <1>4, QuietKnown

LEMMA RestHasNoRemap ==
    ASSUME NEW q, TheRest(q)
    PROVE  IsSeq(q) /\ NoRemap(q) /\ HandledThen(q)
BY DEF TheRest, NoRemap, AllLoads, HandledThen

LEMMA OpenedDocs ==
    ASSUME SessionsInv, NEW d
    PROVE  \A j \in DOMAIN OpenDocument(d) :
             OpenDocument(d)[j] = d \/ \E i \in DOMAIN docs : OpenDocument(d)[j] = docs[i]
<1> DEFINE old == Existing(d)
           at == {i \in DOMAIN docs : Protected(docs[i])
                                       \/ (old # <<>> /\ docs[i].id = Head(old).id)}
           kept == Kept(docs, at)
           more == Append(kept, d)
<1>1. IsSeq(kept) /\ \A n \in DOMAIN kept : \E i \in DOMAIN docs : kept[n] = docs[i]
  <2>1. at \in SUBSET DOMAIN docs
    OBVIOUS
  <2> HIDE DEF at
  <2>2. AreApart(kept, opened) /\ \A n \in DOMAIN kept : \E i \in at : kept[n] = docs[i]
    BY <2>1, KeptAreApart DEF SessionsInv
  <2> HIDE DEF kept
  <2> QED BY <2>1, <2>2 DEF AreApart
<1>2. OpenDocument(d) = IF old # <<>> THEN kept ELSE more
  BY DEF OpenDocument
<1> HIDE DEF kept, old
<1>3. \A n \in DOMAIN more : (n \in DOMAIN kept /\ more[n] = kept[n]) \/ more[n] = d
  <2>1. /\ DOMAIN more = 1 .. Len(kept) + 1 /\ DOMAIN kept = 1 .. Len(kept) /\ Len(kept) \in Nat
        /\ \A n \in DOMAIN kept : more[n] = kept[n]
        /\ more[Len(kept) + 1] = d
    BY <1>1, AppendedSeq, ElementsOfSeq
  <2> QED BY <2>1
<1> HIDE DEF more
<1>4. \A n \in DOMAIN more : more[n] = d \/ \E i \in DOMAIN docs : more[n] = docs[i]
  BY <1>1, <1>3
<1> QED BY <1>1, <1>2, <1>4

(* A session is opened.                                                      *)
LEMMA OpeningKnows ==
    ASSUME Sound, KnowInv, NoneMending, NoRemap(calls),
           NEW q, IsSeq(q), NoRemap(q), HandledThen(q),
           NEW d, KnownDoc(d)', NEW ac, NEW tr, Become(OpenDocument(d), ac, tr, q),
           disk' = disk, stamps' = stamps, notices' = notices, pending' = pending,
           events' = events, expected' = expected
    PROVE  KnowInv'
<1>1. StaysInPairs
  BY QuietScreen
<1>2. PairsInv' /\ \A i \in DOMAIN docs : StaysKnown(docs[i].path)
  BY <1>1, DocsStayKnown
<1>3. stamps' \in Nat /\ stamps <= stamps'
  BY SoundTypes
<1>4. ASSUME NEW i \in DOMAIN docs, NEW c, c = docs[i]
      PROVE  KnownDoc(c)'
  <2>1. StaysKnown(c.path) /\ ~Mending(c)
    BY <1>2, <1>4 DEF NoneMending
  <2> QED BY <1>3, <1>4, <2>1, DocKnows
<1>5. PICK ds : ds = OpenDocument(d)
  OBVIOUS
<1>6. \A j \in DOMAIN ds : ds[j] = d \/ \E i \in DOMAIN docs : ds[j] = docs[i]
  BY <1>5, OpenedDocs DEF Sound
<1>7. \A j \in DOMAIN ds : \A c : c = ds[j] => KnownDoc(c)'
  <2>1. SUFFICES ASSUME NEW j \in DOMAIN ds, NEW c, c = ds[j]
                 PROVE  KnownDoc(c)'
    OBVIOUS
  <2>2. CASE c = d
    BY <2>2
  <2>3. CASE \E i \in DOMAIN docs : c = docs[i]
    BY <1>4, <2>3
  <2> QED BY <1>6, <2>1, <2>2, <2>3
<1>8. Become(ds, ac, tr, q)
  BY <1>5
<1> QED BY <1>2, <1>7, <1>8, ScreenKnows

(* Some sessions leave.                                                      *)
LEMMA LeavingKnows ==
    ASSUME Sound, KnowInv, NoneMending, NoRemap(calls), NEW q, TheRest(q),
           NEW ds, DocsBecome(ds, q), \A j \in DOMAIN ds : \E i \in DOMAIN docs : ds[j] = docs[i],
           disk' = disk, stamps' = stamps, notices' = notices, pending' = pending,
           events' = events, expected' = expected
    PROVE  KnowInv'
<1>0. IsSeq(q) /\ NoRemap(q) /\ HandledThen(q)
  BY RestHasNoRemap
<1>1. StaysInPairs
  BY <1>0, QuietScreen
<1>2. PairsInv' /\ \A i \in DOMAIN docs : StaysKnown(docs[i].path)
  BY <1>1, DocsStayKnown
<1>3. stamps' \in Nat /\ stamps <= stamps'
  BY SoundTypes
<1>4. ASSUME NEW i \in DOMAIN docs, NEW c, c = docs[i]
      PROVE  KnownDoc(c)'
  <2>1. StaysKnown(c.path) /\ ~Mending(c)
    BY <1>2, <1>4 DEF NoneMending
  <2> QED BY <1>3, <1>4, <2>1, DocKnows
<1>5. \A j \in DOMAIN ds : \A c : c = ds[j] => KnownDoc(c)'
  BY <1>4
<1>6. \A n \in DOMAIN q : q[n].kind = "load" => \E i \in DOMAIN calls : calls[i] = q[n]
  BY DEF TheRest
<1> QED BY <1>0, <1>1, <1>5, <1>6, DocsOnlyKnow

LEMMA WithoutLeaves ==
    ASSUME SessionsInv, NEW id
    PROVE  \A j \in DOMAIN Without(id) : \E i \in DOMAIN docs : Without(id)[j] = docs[i]
<1> DEFINE at == {i \in DOMAIN docs : docs[i].id # id}
<1>1. at \in SUBSET DOMAIN docs /\ Without(id) = Kept(docs, at)
  BY DEF Without
<1> HIDE DEF at
<1>2. \A n \in DOMAIN Kept(docs, at) : \E i \in at : Kept(docs, at)[n] = docs[i]
  BY <1>1, KeptAreApart DEF SessionsInv
<1> QED BY <1>1, <1>2

LEMMA NewLoadingKnows ==
    ASSUME NEW d, d.status = "loading", d.source \in 1 .. stamps', ~d.dirty, d.shows = None
    PROVE  KnownDoc(d)'
BY DEF KnownDoc, Refused

LEMMA AddsLast ==
    ASSUME NewsInv, NEW n, notices' = Append(notices, n) \/ notices' = notices \o <<n>>,
           events' = events, pending' = pending
    PROVE  Adds(n)
<1>1. IsSeq(notices)
  BY DEF NewsInv
<1>2. notices' = Append(notices, n)
  BY <1>1 DEF IsSeq
<1>3. /\ IsSeq(notices') /\ DOMAIN notices' = 1 .. Len(notices) + 1
      /\ DOMAIN notices = 1 .. Len(notices) /\ Len(notices) \in Nat
      /\ \A i \in DOMAIN notices : notices'[i] = notices[i]
      /\ notices'[Len(notices) + 1] = n
  BY <1>1, <1>2, AppendedSeq, ElementsOfSeq
<1> QED BY <1>3 DEF Adds

LEMMA GoesKnows ==
    ASSUME Sound, KnowInv, NoneMending, NoRemap(calls), NEW q, TheRest(q),
           NEW then, then.do = "open" => then.stamp \in 1 .. stamps,
           then.do \in {"open", "link"} => then.path \in Path,
           Goes(then, q), events' = events, pending' = pending, expected' = expected
    PROVE  KnowInv'
<1>1. IsSeq(q) /\ NoRemap(q) /\ HandledThen(q) /\ AllLoads(q)
  BY RestHasNoRemap DEF TheRest
<1>2. stamps \in Nat
  BY SoundTypes
<1>3. CASE /\ then.do = "stay" /\ calls' = q
           /\ UNCHANGED <<screen, disk, stamps, notices>>
  <2>1. docs' = docs /\ active' = active /\ NoRemap(calls')
    BY <1>1, <1>3 DEF screen
  <2>2. StaysInPairs
    <3>1. SameRemaps /\ SameNewsOfDisk
      BY <1>3, <2>1 DEF SameRemaps, NoRemap, SameNewsOfDisk, Suppresses
    <3> QED BY <3>1, QuietKnown
  <2>3. PairsInv' /\ \A i \in DOMAIN docs : StaysKnown(docs[i].path)
    BY <2>2, DocsStayKnown
  <2> QED BY <1>2, <1>3, <2>1, <2>3, NoCallKnows
<1>4. CASE /\ then.do = "open"
           /\ Opens(NewDoc(then.path, "loading", then.stamp, None), q)
           /\ UNCHANGED <<disk, stamps, notices>>
  <2>1. PICK d : d = NewDoc(then.path, "loading", then.stamp, None)
    OBVIOUS
  <2>2. d.status = "loading" /\ d.source = then.stamp /\ ~d.dirty /\ d.shows = None
    BY <2>1 DEF NewDoc
  <2>3. KnownDoc(d)'
    BY <1>4, <2>2, NewLoadingKnows
  <2>4. Become(OpenDocument(d), OpenedId(d), tree, q)
    BY <1>4, <2>1 DEF Opens
  <2>5. PICK ac, tr : ac = OpenedId(d) /\ tr = tree
    OBVIOUS
  <2>6. Become(OpenDocument(d), ac, tr, q)
    BY <2>4, <2>5
  <2> QED BY <1>1, <1>4, <2>3, <2>6, OpeningKnows
<1>5. CASE /\ then.do = "link" /\ UNCHANGED <<screen, disk, stamps, notices>>
           /\ calls' = Append(q, [Call("link") EXCEPT !.path = then.path, !.reply = disk[then.path]])
  <2>1. PICK c : c = [Call("link") EXCEPT !.path = then.path, !.reply = disk[then.path]]
    OBVIOUS
  <2>2. c.kind = "link" /\ c.path = then.path /\ c.reply = disk[then.path] /\ c.then.do = "stay"
    BY <2>1 DEF Call, Stay
  <2>3. docs' = docs /\ active' = active /\ calls' = Append(q, c) /\ disk' = disk
    BY <1>5, <2>1 DEF screen
  <2>4. \A n \in DOMAIN calls' : calls'[n].kind = "load" \/ calls'[n] = c
    <3>1. \A n \in DOMAIN Append(q, c) : Append(q, c)[n].kind = "load" \/ Append(q, c)[n] = c
      BY <1>1, AppendsHandler
    <3> QED BY <2>3, <3>1
  <2>5. StaysInPairs
    <3>1. SameRemaps
      BY <2>2, <2>4 DEF SameRemaps, NoRemap
    <3>2. SameNewsOfDisk
      BY <1>5 DEF SameNewsOfDisk, Suppresses
    <3> QED BY <3>1, <3>2, QuietKnown
  <2>6. PairsInv' /\ \A i \in DOMAIN docs : StaysKnown(docs[i].path) /\ ~Mending(docs[i])
    BY <2>5, DocsStayKnown DEF NoneMending
  <2>7. KnownCall(c)'
    BY <1>5, <2>2, <2>3 DEF KnownCall, At
  <2> QED BY <1>2, <1>5, <2>2, <2>3, <2>6, <2>7, CallKnows
<1>6. CASE /\ then.do = "close" /\ DocsBecome(Without(then.stamp), q)
           /\ UNCHANGED <<disk, stamps, notices>>
  <2>1. PICK ds : ds = Without(then.stamp)
    OBVIOUS
  <2>2. DocsBecome(ds, q) /\ \A j \in DOMAIN ds : \E i \in DOMAIN docs : ds[j] = docs[i]
    BY <1>6, <2>1, WithoutLeaves DEF Sound
  <2> QED BY <1>6, <2>2, LeavingKnows
<1>7. CASE then.do = "create" /\ calls' = q /\ UNCHANGED <<screen, disk, stamps, notices>>
  <2>1. docs' = docs /\ active' = active /\ NoRemap(calls')
    BY <1>1, <1>7 DEF screen
  <2>2. StaysInPairs
    <3>1. SameRemaps /\ SameNewsOfDisk
      BY <1>7, <2>1 DEF SameRemaps, NoRemap, SameNewsOfDisk, Suppresses
    <3> QED BY <3>1, QuietKnown
  <2>3. PairsInv' /\ \A i \in DOMAIN docs : StaysKnown(docs[i].path)
    BY <2>2, DocsStayKnown
  <2> QED BY <1>2, <1>7, <2>1, <2>3, NoCallKnows
<1>8. ASSUME NEW p \in Names(then.path), UNCHANGED screen,
             stamps' = stamps + 1, disk' = [disk EXCEPT ![p] = stamps'],
             notices' = Append(notices, [kind |-> "create", path |-> p, mate |-> None]),
             calls' = Append(q, [Call("create") EXCEPT !.path = p, !.reply = stamps'])
      PROVE  KnowInv'
  <2>1. PICK c, n : /\ c = [Call("create") EXCEPT !.path = p, !.reply = stamps']
                    /\ n = [kind |-> "create", path |-> p, mate |-> None]
    OBVIOUS
  <2>2. c.kind = "create" /\ c.reply = stamps' /\ c.then.do = "stay"
    BY <2>1 DEF Call, Stay
  <2>3. docs' = docs /\ active' = active /\ calls' = Append(q, c) /\ notices' = Append(notices, n)
    BY <1>8, <2>1 DEF screen
  <2>4. NoRemap(calls')
    <3>1. \A m \in DOMAIN Append(q, c) : Append(q, c)[m].kind = "load" \/ Append(q, c)[m] = c
      BY <1>1, AppendsHandler
    <3> QED BY <2>2, <2>3, <3>1 DEF NoRemap
  <2>5. StaysInPairs
    <3>1. p \in Path /\ Free(p)
      BY DEF Names, Path
    <3>2. Adds(n)
      BY <2>3, AddsLast DEF Sound, PathsInv
    <3>3. n.path = p /\ n.mate = None /\ n.kind # "remove"
      BY <2>1
    <3> QED BY <1>8, <2>4, <3>1, <3>2, <3>3, FileKnown
  <2>6. PairsInv' /\ \A i \in DOMAIN docs : StaysKnown(docs[i].path) /\ ~Mending(docs[i])
    BY <2>5, DocsStayKnown DEF NoneMending
  <2>7. stamps' \in Nat /\ stamps <= stamps' /\ stamps' \in 1 .. stamps'
    BY <1>2, <1>8
  <2>8. KnownCall(c)'
    BY <2>2, <2>7 DEF KnownCall
  <2> QED BY <2>2, <2>3, <2>6, <2>7, <2>8, CallKnows
<1> QED BY <1>3, <1>4, <1>5, <1>6, <1>7, <1>8 DEF Goes

LEMMA TransitionKnows ==
    ASSUME Sound, KnowInv, Idle, NEW then, then.do = "open" => then.stamp \in 1 .. stamps,
           then.do \in {"open", "link"} => then.path \in Path,
           Transition(then), events' = events, pending' = pending, expected' = expected
    PROVE  KnowInv'
<1>1. TheRest(calls) /\ NoRemap(calls) /\ NoneMending
  BY WhileIdle
<1>2. CASE HasActive /\ Active.dirty
  BY <1>2, SaveThenKnows DEF Transition
<1>3. CASE ~(HasActive /\ Active.dirty)
  BY <1>1, <1>3, GoesKnows DEF Transition
<1> QED BY <1>2, <1>3

LEMMA EditKnows ==
    ASSUME Sound, KnowInv, Edit
    PROVE  KnowInv'
<1>1. /\ HasActive /\ Active.shows # None /\ Active.status \in InMemoryEditable
      /\ active' = active /\ calls' = calls /\ disk' = disk /\ stamps' = stamps /\ notices' = notices
      /\ events' = events /\ pending' = pending /\ expected' = expected
      /\ docs' = Each(LAMBDA d : Only(active, d, [d EXCEPT !.dirty = TRUE]))
  BY DEF Edit, watcher, sent
<1>2. /\ DOMAIN docs' = DOMAIN docs
      /\ \A i \in DOMAIN docs :
           docs'[i] = IF docs[i].id = active THEN [docs[i] EXCEPT !.dirty = TRUE] ELSE docs[i]
  BY <1>1 DEF Each, Only
<1>3. \A i \in DOMAIN docs : IsDoc(docs[i])
  BY DEF Sound, SessionsInv, AreApart
<1>4. \A i \in DOMAIN docs :
        /\ docs'[i].id = docs[i].id /\ docs'[i].path = docs[i].path
        /\ docs'[i].status = docs[i].status /\ docs'[i].source = docs[i].source
        /\ docs'[i].shows = docs[i].shows
        /\ docs[i].dirty => docs'[i].dirty
        /\ docs[i].id # active => docs'[i] = docs[i]
        /\ docs[i].id = active => docs'[i].dirty /\ docs[i] = Active
  <2>1. PICK k \in DOMAIN docs : Active = docs[k] /\ docs[k].id = active
    BY <1>1, ActiveIsASession DEF Sound
  <2>2. \A i \in DOMAIN docs : docs[i].id = active => docs[i] = Active
    BY <2>1 DEF Sound, SessionsInv, AreApart
  <2> QED BY <1>2, <1>3, <2>2 DEF IsDoc
<1>5. StaysInPairs
  BY <1>1, QuietKnown DEF SameRemaps, SameNewsOfDisk, Suppresses
<1>6. PairsInv' /\ \A i \in DOMAIN docs : StaysKnown(docs[i].path)
  BY <1>5, DocsStayKnown
<1>7. \A d : Mending(d) => Mending(d)'
  BY <1>1 DEF Mending
<1>8. stamps' \in Nat /\ stamps <= stamps'
  BY <1>1, SoundTypes
<1>9. ASSUME NEW i \in DOMAIN docs, NEW d, d = docs[i], NEW e, e = docs'[i]
      PROVE  KnownDoc(e)'
  <2>1. KnownDoc(d)'
    BY <1>6, <1>7, <1>8, <1>9, DocKnows
  <2>2. /\ e.id = d.id /\ e.path = d.path /\ e.status = d.status /\ e.source = d.source
        /\ e.shows = d.shows /\ (e = d \/ (e.dirty /\ d.status \in InMemoryEditable))
    BY <1>1, <1>4, <1>9
  <2>3. Mending(d)' => Mending(e)'
    BY <2>2 DEF Mending
  <2>4. CASE e = d
    BY <2>1, <2>4
  <2>5. CASE e.dirty /\ d.status \in InMemoryEditable
    BY <2>1, <2>2, <2>3, <2>5 DEF KnownDoc, InMemoryEditable, Refused
  <2> QED BY <2>2, <2>4, <2>5
<1>10. ASSUME NEW n \in DOMAIN calls, NEW c, c = calls[n]
       PROVE  KnownCall(c)' /\ KnownLoad(c)'
  <2>1. KnownCall(c)
    BY <1>10 DEF KnowInv
  <2>2. c.kind # "load"
    BY <1>1, <1>10, LoadOfADoc
  <2>3. Saves(c) => Saves(c)'
    <3>1. SUFFICES ASSUME Saves(c)
                   PROVE  Saves(c)'
      OBVIOUS
    <3>2. PICK i \in DOMAIN docs :
            docs[i].id = c.doc.id /\ docs[i].shows # None /\ docs[i].path = c.doc.path
      BY <3>1 DEF Saves
    <3>3. /\ i \in DOMAIN docs' /\ docs'[i].id = c.doc.id
          /\ docs'[i].shows # None /\ docs'[i].path = c.doc.path
      BY <1>2, <1>4, <3>2
    <3>4. disk' = disk /\ stamps' = stamps
      BY <1>1
    <3> QED BY <3>1, <3>3, <3>4 DEF Saves
  <2>4. IsAt(c) => IsAt(c)'
    BY <1>2, <1>4 DEF IsAt
  <2>5. (\A i \in DOMAIN docs : docs[i].id = c.doc.id /\ docs[i].status = "editable"
                                  => docs[i].source = c.doc.source)
        => (\A i \in DOMAIN docs : docs[i].id = c.doc.id /\ docs[i].status = "editable"
                                  => docs[i].source = c.doc.source)'
    BY <1>2, <1>4
  <2>6. At(c.path)' = At(c.path) /\ At(c.doc.path)' = At(c.doc.path)
    BY <1>1 DEF At
  <2>7. KnownCall(c)'
    BY <1>1, <2>1, <2>3, <2>4, <2>5, <2>6 DEF KnownCall
  <2> QED BY <2>2, <2>7 DEF KnownLoad
<1>11. \A n \in DOMAIN calls' : (KnownCall(calls[n]) /\ KnownLoad(calls[n]))'
  <2>1. SUFFICES ASSUME NEW n \in DOMAIN calls'
                 PROVE  (KnownCall(calls[n]) /\ KnownLoad(calls[n]))'
    OBVIOUS
  <2>2. PICK c : c = calls'[n]
    OBVIOUS
  <2>3. KnownCall(c)' /\ KnownLoad(c)'
    BY <1>1, <1>10, <2>2
  <2> QED BY <2>2, <2>3
<1>12. \A j \in DOMAIN docs' : KnownDoc(docs[j])'
  <2>1. SUFFICES ASSUME NEW j \in DOMAIN docs'
                 PROVE  KnownDoc(docs[j])'
    OBVIOUS
  <2>2. PICK d, e : d = docs[j] /\ e = docs'[j]
    OBVIOUS
  <2>3. KnownDoc(e)'
    BY <1>2, <1>9, <2>2
  <2> QED BY <2>2, <2>3
<1> QED BY <1>6, <1>11, <1>12 DEF KnowInv

LEMMA RelocateKnows ==
    ASSUME Sound, KnowInv, NEW p \in Path, NEW to \in Path, Relocates(p, to)
    PROVE  KnowInv'
<1>1. PICK c : c = [Call("remap") EXCEPT !.path = p, !.to = to]
  OBVIOUS
<1>2. c.kind = "remap" /\ c.path = p /\ c.to = to /\ c.then.do = "stay"
  BY <1>1 DEF Call, Stay
<1>3. /\ calls' = Append(calls, c) /\ docs' = docs /\ active' = active
      /\ notices' = notices \o Halves(p, to) /\ disk' = Renamed(disk, p, to) /\ stamps' = stamps
      /\ events' = events /\ pending' = pending /\ expected' = expected
      /\ Shown(disk, p) /\ Calm(p) /\ Free(to) /\ Fits(p, to) /\ Takes(p, to) /\ MayAsk
  BY <1>1 DEF Relocates, screen, PersonLeaves, watcher, sent
<1>4. Idle
  BY <1>3 DEF MayAsk, Admits, Sound
<1>5. TheRest(calls) /\ NoRemap(calls) /\ NoneMending
  BY <1>4, WhileIdle
<1>6. \A n \in DOMAIN calls' : calls'[n].kind = "load" \/ calls'[n] = c
  <2>1. \A n \in DOMAIN Append(calls, c) : Append(calls, c)[n].kind = "load" \/ Append(calls, c)[n] = c
    BY <1>5, AppendsHandler DEF TheRest
  <2> QED BY <1>3, <2>1
<1>7. \A n \in DOMAIN calls' : calls'[n].kind = "remap" => calls'[n].path = p /\ calls'[n].to = to
  BY <1>2, <1>6
<1>8. Relocated(p, to)
  BY <1>3, <1>5, <1>7 DEF Relocated, Shown, Free
<1>9. PairsInv' /\ \A i \in DOMAIN docs : StaysKnown(docs[i].path) /\ ~Mending(docs[i])
  BY <1>5, <1>8, RenameKnown, DocsStayKnown DEF NoneMending
<1>10. KnownCall(c)'
  BY <1>2 DEF KnownCall
<1>11. stamps' \in Nat /\ stamps <= stamps'
  BY <1>3, SoundTypes
<1> QED BY <1>2, <1>3, <1>5, <1>9, <1>10, <1>11, CallKnows

(* A handler asks for something that changes nothing here.                   *)
LEMMA AskingKnows ==
    ASSUME Sound, KnowInv, NoneMending, NoRemap(calls), NEW q, TheRest(q),
           docs' = docs, active' = active, NEW c, c.kind \notin {"load", "remap"}, KnownCall(c)',
           calls' = Append(q, c),
           disk' = disk, stamps' = stamps, notices' = notices, pending' = pending,
           events' = events, expected' = expected
    PROVE  KnowInv'
<1>1. \A n \in DOMAIN calls' : calls'[n].kind = "load" \/ calls'[n] = c
  <2>1. \A n \in DOMAIN Append(q, c) : Append(q, c)[n].kind = "load" \/ Append(q, c)[n] = c
    BY AppendsHandler DEF TheRest
  <2> QED BY <2>1
<1>2. StaysInPairs
  <2>1. SameRemaps
    BY <1>1 DEF SameRemaps, NoRemap
  <2>2. SameNewsOfDisk
    BY DEF SameNewsOfDisk, Suppresses
  <2> QED BY <2>1, <2>2, QuietKnown
<1>3. PairsInv' /\ \A i \in DOMAIN docs : StaysKnown(docs[i].path) /\ ~Mending(docs[i])
  BY <1>2, DocsStayKnown DEF NoneMending
<1>4. stamps' \in Nat /\ stamps <= stamps'
  BY SoundTypes
<1> QED BY <1>3, <1>4, CallKnows

LEMMA TrashKnows ==
    ASSUME Sound, KnowInv, NEW p \in Path, Trash(p)
    PROVE  KnowInv'
<1>1. PICK c, n, ids : /\ ids = {docs[i].id : i \in {j \in DOMAIN docs : IsPrefix(p, docs[j].path)}}
                       /\ c = [Call("trash") EXCEPT !.ids = ids]
                       /\ n = [kind |-> "half", path |-> p, mate |-> None]
  OBVIOUS
<1>2. c.kind = "trash" /\ c.then.do = "stay" /\ n.kind = "half" /\ n.path = p /\ n.mate = None
  BY <1>1 DEF Call, Stay
<1>3. /\ calls' = Append(calls, c) /\ docs' = docs /\ active' = active
      /\ notices' = Append(notices, n) /\ disk' = Prune(disk, p) /\ stamps' = stamps
      /\ events' = events /\ pending' = pending /\ expected' = expected /\ Calm(p) /\ MayAsk
  BY <1>1 DEF Trash, screen, PersonLeaves, watcher, sent
<1>4. Idle
  BY <1>3 DEF MayAsk, Admits, Sound
<1>5. TheRest(calls) /\ NoRemap(calls) /\ NoneMending
  BY <1>4, WhileIdle
<1>6. NoRemap(calls')
  <2>1. \A m \in DOMAIN Append(calls, c) : Append(calls, c)[m].kind = "load" \/ Append(calls, c)[m] = c
    BY <1>5, AppendsHandler DEF TheRest
  <2> QED BY <1>2, <1>3, <2>1 DEF NoRemap
<1>7. Adds(n)
  BY <1>3, AddsLast DEF Sound, PathsInv
<1>8. StaysInPairs
  BY <1>2, <1>3, <1>5, <1>6, <1>7, GoingKnown
<1>9. PairsInv' /\ \A i \in DOMAIN docs : StaysKnown(docs[i].path) /\ ~Mending(docs[i])
  BY <1>5, <1>8, DocsStayKnown DEF NoneMending
<1>10. KnownCall(c)'
  BY <1>2 DEF KnownCall
<1>11. stamps' \in Nat /\ stamps <= stamps'
  BY <1>3, SoundTypes
<1> QED BY <1>2, <1>3, <1>5, <1>9, <1>10, <1>11, CallKnows

LEMMA RefreshAsks ==
    ASSUME Sound, KnowInv, NoneMending, NoRemap(calls), NEW q, TheRest(q),
           docs' = docs, active' = active,
           NEW then, then.do = "open" => then.stamp \in 1 .. stamps, calls' = Append(q, Refresh(then)),
           disk' = disk, stamps' = stamps, notices' = notices, pending' = pending,
           events' = events, expected' = expected
    PROVE  KnowInv'
<1>1. PICK c : c = Refresh(then)
  OBVIOUS
<1>2. c.kind = "refresh" /\ c.then = then
  BY <1>1 DEF Refresh, Call
<1>3. KnownCall(c)'
  BY <1>2 DEF KnownCall
<1>4. calls' = Append(q, c)
  BY <1>1
<1> QED BY <1>2, <1>3, <1>4, AskingKnows

LEMMA PersonKnows ==
    ASSUME Sound, KnowInv, Person
    PROVE  KnowInv'
<1>0. MayAsk => Idle /\ TheRest(calls) /\ NoRemap(calls) /\ NoneMending
  BY WhileIdle DEF MayAsk, Admits, Sound
<1>1. ASSUME NEW p \in Files, OpenEntry(p) PROVE KnowInv'
  <2>1. PICK then : then = [do |-> "open", path |-> p, stamp |-> tree[p]]
    OBVIOUS
  <2>2. /\ Transition(then) /\ MayAsk /\ events' = events /\ pending' = pending /\ expected' = expected
        /\ tree[p] \notin {Gone, Folder}
    BY <1>1, <2>1 DEF OpenEntry, PersonLeaves, watcher, sent
  <2>3. p \in Path /\ then.path = p /\ then.stamp = tree[p]
    BY <2>1 DEF Path
  <2>4. tree[p] \in 1 .. stamps
    BY <2>2, <2>3 DEF Sound, TypesInv, ScreenTyped, Disks
  <2>5. /\ then.do = "open" => then.stamp \in 1 .. stamps
        /\ then.do \in {"open", "link"} => then.path \in Path
    BY <2>3, <2>4
  <2> QED BY <1>0, <2>2, <2>5, TransitionKnows
<1>2. ASSUME NEW p \in Files, OpenLink(p) PROVE KnowInv'
  <2>1. PICK then : then = [do |-> "link", path |-> p, stamp |-> None]
    OBVIOUS
  <2>2. Transition(then) /\ MayAsk /\ events' = events /\ pending' = pending /\ expected' = expected
    BY <1>2, <2>1 DEF OpenLink, PersonLeaves, watcher, sent
  <2>3. /\ then.do = "open" => then.stamp \in 1 .. stamps
        /\ then.do \in {"open", "link"} => then.path \in Path
    BY <2>1 DEF Path
  <2> QED BY <1>0, <2>2, <2>3, TransitionKnows
<1>3. ASSUME NEW p \in Folders \cup {<<>>}, CreateDocument(p) PROVE KnowInv'
  <2>1. PICK then : then = [do |-> "create", path |-> p, stamp |-> None]
    OBVIOUS
  <2>2. Transition(then) /\ MayAsk /\ events' = events /\ pending' = pending /\ expected' = expected
    BY <1>3, <2>1 DEF CreateDocument, PersonLeaves, watcher, sent
  <2>3. /\ then.do = "open" => then.stamp \in 1 .. stamps
        /\ then.do \in {"open", "link"} => then.path \in Path
    BY <2>1
  <2> QED BY <1>0, <2>2, <2>3, TransitionKnows
<1>4. ASSUME NEW p \in Path, NEW to \in Path, Rename(p, to) \/ Move(p, to) PROVE KnowInv'
  BY <1>4, RelocateKnows DEF Rename, Move
<1>5. ASSUME NEW p \in Path, Trash(p) PROVE KnowInv'
  BY <1>5, TrashKnows
<1>6. CASE Save
  <2>1. PICK then : then = Stay
    OBVIOUS
  <2>2. /\ SaveThen(then) /\ MayAsk /\ events' = events /\ pending' = pending /\ expected' = expected
        /\ HasActive
    BY <1>6, <2>1 DEF Save, PersonLeaves, watcher, sent
  <2>3. then.do = "open" => then.stamp \in 1 .. stamps
    BY <2>1 DEF Stay
  <2> QED BY <1>0, <2>2, <2>3, SaveThenKnows
<1>7. CASE CloseSaving
  <2>1. PICK then : then = [do |-> "close", path |-> <<>>, stamp |-> active]
    OBVIOUS
  <2>2. /\ SaveThen(then) /\ MayAsk /\ events' = events /\ pending' = pending /\ expected' = expected
        /\ HasActive /\ Active.dirty
    BY <1>7, <2>1 DEF CloseSaving, PersonLeaves, watcher, sent
  <2>3. then.do = "open" => then.stamp \in 1 .. stamps
    BY <2>1
  <2> QED BY <1>0, <2>2, <2>3, SaveThenKnows
<1>8. CASE Close
  <2>1. PICK ds : ds = Without(active)
    OBVIOUS
  <2>2. /\ DocsBecome(ds, calls) /\ MayAsk /\ disk' = disk /\ stamps' = stamps /\ notices' = notices
        /\ events' = events /\ pending' = pending /\ expected' = expected
    BY <1>8, <2>1 DEF Close, PersonLeaves, watcher, sent
  <2>3. \A j \in DOMAIN ds : \E i \in DOMAIN docs : ds[j] = docs[i]
    BY <2>1, WithoutLeaves DEF Sound
  <2> QED BY <1>0, <2>2, <2>3, LeavingKnows
<1>9. CASE Reload
  <2>1. PICK c : c = [Call("reload") EXCEPT !.doc = Active, !.reply = At(Active.path)]
    OBVIOUS
  <2>2. c.kind = "reload" /\ c.doc = Active /\ c.reply = At(Active.path) /\ c.then.do = "stay"
    BY <2>1 DEF Call, Stay
  <2>3. /\ calls' = Append(calls, c) /\ MayAsk /\ disk' = disk /\ stamps' = stamps /\ notices' = notices
        /\ events' = events /\ pending' = pending /\ expected' = expected
        /\ docs' = docs /\ active' = active /\ HasActive
    BY <1>9, <2>1 DEF Reload, screen, PersonLeaves, watcher, sent
  <2>4. IsAt(c)'
    <3>1. PICK k \in DOMAIN docs : Active = docs[k]
      BY <2>3, ActiveIsASession DEF Sound
    <3>2. \A i \in DOMAIN docs : docs[i].id = Active.id => docs[i] = Active
      BY <3>1 DEF Sound, SessionsInv, AreApart
    <3> QED BY <2>2, <2>3, <3>2 DEF IsAt
  <2>5. KnownCall(c)'
    BY <2>2, <2>3, <2>4 DEF KnownCall, At
  <2> QED BY <1>0, <2>2, <2>3, <2>5, AskingKnows
<1>10. CASE RefreshWorkspace
  <2>1. /\ calls' = Append(calls, Refresh(Stay)) /\ MayAsk /\ disk' = disk /\ stamps' = stamps
        /\ notices' = notices /\ events' = events /\ pending' = pending /\ expected' = expected
        /\ docs' = docs /\ active' = active
    BY <1>10 DEF RefreshWorkspace, screen, PersonLeaves, watcher, sent
  <2>2. Stay.do # "open"
    BY DEF Stay
  <2> QED BY <1>0, <2>1, <2>2, RefreshAsks
<1>11. CASE Edit
  BY <1>11, EditKnows
<1> QED BY <1>1, <1>2, <1>3, <1>4, <1>5, <1>6, <1>7, <1>8, <1>9, <1>10, <1>11 DEF Person

-----------------------------------------------------------------------------
(* A reply comes                                                             *)

Quietly ==
    /\ disk' = disk /\ stamps' = stamps /\ notices' = notices
    /\ pending' = pending /\ events' = events /\ expected' = expected

LEMMA RestKnows ==
    ASSUME Sound, KnowInv, NoneMending, NoRemap(calls), NEW q, TheRest(q), calls' = q,
           docs' = docs, active' = active, Quietly
    PROVE  KnowInv'
<1>1. NoRemap(calls')
  BY RestHasNoRemap
<1>2. StaysInPairs
  <2>1. SameRemaps /\ SameNewsOfDisk
    BY <1>1 DEF Quietly, SameRemaps, NoRemap, SameNewsOfDisk, Suppresses
  <2> QED BY <2>1, QuietKnown
<1>3. PairsInv' /\ \A i \in DOMAIN docs : StaysKnown(docs[i].path)
  BY <1>2, DocsStayKnown
<1>4. stamps' \in Nat /\ stamps <= stamps'
  BY SoundTypes DEF Quietly
<1> QED BY <1>3, <1>4, NoCallKnows

LEMMA DocStays ==
    ASSUME Sound, KnowInv, StaysInPairs, Quietly, NEW d, \E i \in DOMAIN docs : docs[i] = d,
           Mending(d) => Mending(d)'
    PROVE  KnownDoc(d)'
<1>1. PICK i \in DOMAIN docs : d = docs[i]
  OBVIOUS
<1>2. StaysKnown(d.path)
  BY <1>1, DocsStayKnown
<1>3. stamps' \in Nat /\ stamps <= stamps'
  BY SoundTypes DEF Quietly
<1> QED BY <1>1, <1>2, <1>3, DocKnows

LEMMA InspectionKnows ==
    ASSUME Sound, KnowInv, InspectionFindsAChange
    PROVE  KnowInv'
<1> DEFINE c == Head(calls)
           q == Tail(calls)
           change(d) == IF c.reply = Gone THEN [d EXCEPT !.status = "missing"]
                        ELSE IF c.reply = d.source /\ d.status # "missing" THEN d
                        ELSE Changed(d, c.reply)
           ds == Each(LAMBDA d : Only(c.doc.id, d, change(d)))
           stay == {i \in DOMAIN ds :
                      ds[i].status # "missing" \/ ds[i].dirty \/ ds[i].id # c.doc.id}
           left == Kept(ds, stay)
<1>1. /\ TheRest(q) /\ NoneMending /\ NoRemap(calls)
  BY AfterTheHead DEF InspectionFindsAChange, Replied
<1>2. DocsBecome(left, q) /\ Quietly
  BY DEF InspectionFindsAChange, ReplyLeaves, Quietly, sent
<1>3. /\ ds = [i \in DOMAIN docs |-> ds[i]]
      /\ \A i \in DOMAIN docs : ds[i] = docs[i] \/ ds[i] = change(docs[i])
  BY DEF Each, Only
<1>4. \A i \in DOMAIN docs : IsDoc(docs[i]) =>
         /\ IsDoc(ds[i]) /\ ds[i].id = docs[i].id
         /\ ds[i] = docs[i] \/ (ds[i].status \in Refused)
  <2>1. SUFFICES ASSUME NEW i \in DOMAIN docs, IsDoc(docs[i]), NEW d, d = docs[i], NEW e, e = change(d)
                 PROVE  IsDoc(e) /\ e.id = d.id /\ (e = d \/ e.status \in Refused)
    BY <1>3
  <2>2. CASE c.reply = Gone
    BY <2>1, <2>2 DEF IsDoc, Refused
  <2>3. CASE c.reply # Gone /\ c.reply = d.source /\ d.status # "missing"
    BY <2>1, <2>3
  <2>4. CASE c.reply # Gone /\ ~(c.reply = d.source /\ d.status # "missing")
    <3>1. e = Changed(d, c.reply)
      BY <2>1, <2>4
    <3>2. IsDoc(d)
      BY <2>1
    <3>3. PICK st, so : e = [d EXCEPT !.status = st, !.source = so] /\ st \in {"conflict", "external-change"}
      BY <3>1 DEF Changed
    <3> QED BY <3>2, <3>3 DEF IsDoc, Refused
  <2> QED BY <2>2, <2>3, <2>4
<1>5. AreApart(docs, opened) /\ \A i \in DOMAIN docs : IsDoc(docs[i])
  BY DEF Sound, SessionsInv, AreApart
<1>6. stay \in SUBSET DOMAIN ds
  OBVIOUS
<1> HIDE DEF ds, stay, q
<1>7. AreApart(ds, opened) /\ DOMAIN ds = DOMAIN docs
  BY <1>3, <1>4, <1>5, ChangedAreApart
<1>8. \A n \in DOMAIN left : \E i \in stay : left[n] = ds[i]
  BY <1>6, <1>7, KeptAreApart
<1> HIDE DEF left
<1>9. IsSeq(q) /\ NoRemap(q) /\ HandledThen(q)
  BY <1>1, RestHasNoRemap
<1>10. StaysInPairs
  BY <1>1, <1>2, <1>9, QuietScreen DEF Quietly
<1>11. ASSUME NEW n \in DOMAIN left, NEW d, d = left[n]
       PROVE  KnownDoc(d)'
  <2>1. PICK i \in DOMAIN docs : d = ds[i] /\ (d = docs[i] \/ d.status \in Refused)
    BY <1>4, <1>5, <1>6, <1>7, <1>8, <1>11
  <2>2. CASE d = docs[i]
    BY <1>1, <1>2, <1>10, <2>2, DocStays DEF NoneMending
  <2>3. CASE d.status \in Refused
    BY <2>3 DEF KnownDoc, Refused
  <2> QED BY <2>1, <2>2, <2>3
<1>12. \A n \in DOMAIN left : \A d : d = left[n] => KnownDoc(d)'
  BY <1>11
<1>13. \A n \in DOMAIN q : q[n].kind = "load" => \E i \in DOMAIN calls : calls[i] = q[n]
  BY <1>1 DEF TheRest
<1> QED BY <1>2, <1>9, <1>10, <1>12, <1>13, DocsOnlyKnow DEF Quietly

LEMMA WrittenKnows ==
    ASSUME Sound, KnowInv, Written
    PROVE  KnowInv'
<1>1. PICK c, q, r : /\ c = Head(calls) /\ q = Tail(calls)
                     /\ r = [c EXCEPT !.kind = "reinspect", !.reply = At(c.doc.path),
                                      !.doc.shows = c.reply]
  OBVIOUS
<1>2. /\ calls # <<>> /\ c.kind = "write" /\ calls' = Append(q, r) /\ Quietly
      /\ docs' = docs /\ active' = active
  BY <1>1 DEF Written, Replied, ReplyLeaves, screen, Quietly, sent
<1>3. /\ TheRest(q) /\ NoRemap(calls) /\ c = calls[1] /\ 1 \in DOMAIN calls
      /\ \A n \in DOMAIN calls : calls[n].kind # "load" => n = 1
  BY <1>1, <1>2, AfterTheHead
<1>4. KnownCall(c)
  BY <1>3 DEF KnowInv
<1>5. IsCall(c) /\ IsDoc(c.doc)
  BY <1>2, <1>3 DEF Sound, SessionsInv, AreInOrder, IsInOrder
<1>6. /\ r.kind = "reinspect" /\ r.doc.path = c.doc.path /\ r.doc.id = c.doc.id
      /\ r.reply = At(c.doc.path) /\ r.doc.shows = c.reply /\ r.then = c.then
  BY <1>1, <1>5 DEF IsCall, IsDoc
<1>7. Saves(c) /\ (c.then.do = "open" => c.then.stamp \in 1 .. stamps)
  BY <1>2, <1>4 DEF KnownCall
<1>8. r.reply = c.reply
  BY <1>6, <1>7 DEF Saves, At
<1>9. Saves(r)'
  BY <1>2, <1>6, <1>7, <1>8 DEF Saves, Quietly
<1>10. KnownCall(r)'
  BY <1>2, <1>6, <1>7, <1>8, <1>9 DEF KnownCall, Quietly
<1>11. \A n \in DOMAIN calls' : calls'[n].kind = "load" \/ calls'[n] = r
  <2>1. \A n \in DOMAIN Append(q, r) : Append(q, r)[n].kind = "load" \/ Append(q, r)[n] = r
    BY <1>3, AppendsHandler DEF TheRest
  <2> QED BY <1>2, <2>1
<1>12. StaysInPairs
  <2>1. SameRemaps
    BY <1>3, <1>6, <1>11 DEF SameRemaps, NoRemap
  <2>2. SameNewsOfDisk
    BY <1>2 DEF SameNewsOfDisk, Suppresses, Quietly
  <2> QED BY <2>1, <2>2, QuietKnown
<1>13. PairsInv' /\ \A i \in DOMAIN docs : StaysKnown(docs[i].path)
  BY <1>12, DocsStayKnown
<1>14. \A i \in DOMAIN docs : Mending(docs[i]) => r.kind \in {"write", "reinspect"} /\ r.doc.id = docs[i].id
  BY <1>3, <1>6 DEF Mending
<1>15. stamps' \in Nat /\ stamps <= stamps'
  BY <1>2, SoundTypes DEF Quietly
<1>16. r.kind # "load"
  BY <1>6
<1> QED BY <1>2, <1>3, <1>10, <1>13, <1>14, <1>15, <1>16, CallKnows

LEMMA SavedKnows ==
    ASSUME Sound, KnowInv, Saved
    PROVE  KnowInv'
<1>1. PICK c, q, r : /\ c = Head(calls) /\ q = Tail(calls) /\ r = [c EXCEPT !.kind = "clear"]
  OBVIOUS
<1>2. calls # <<>> /\ c.kind = "reinspect" /\ Quietly
  BY <1>1 DEF Saved, Replied, ReplyLeaves, Quietly, sent
<1>3. /\ TheRest(q) /\ NoRemap(calls) /\ c = calls[1] /\ 1 \in DOMAIN calls
      /\ \A n \in DOMAIN calls : calls[n].kind # "load" => n = 1
  BY <1>1, <1>2, AfterTheHead
<1>4. /\ Saves(c) /\ c.doc.shows = c.reply
      /\ c.then.do = "open" => c.then.stamp \in 1 .. stamps
  BY <1>2, <1>3 DEF KnowInv, KnownCall
<1>5. IsCall(c)
  BY <1>2, <1>3 DEF Sound, SessionsInv, AreInOrder, IsInOrder
<1>6. r.kind = "clear" /\ r.then = c.then
  BY <1>1, <1>5 DEF IsCall
<1>7. c.reply # Gone /\ c.reply # None /\ c.reply \in 1 .. stamps /\ disk[c.doc.path] = c.reply
  BY <1>4, SoundTypes DEF Saves
<1>8. PICK ds : ds = MarkSaved(c.doc.id, c.reply, c.reply)
  OBVIOUS
<1>9. DocsBecome(ds, Append(q, r))
  BY <1>1, <1>4, <1>7, <1>8 DEF Saved
<1>10. KnownCall(r)'
  BY <1>2, <1>4, <1>6 DEF KnownCall, Quietly
<1>11. /\ IsSeq(Append(q, r)) /\ HandledThen(Append(q, r))
       /\ \A n \in DOMAIN Append(q, r) : Append(q, r)[n].kind = "load"
             => \E i \in DOMAIN calls : calls[i] = Append(q, r)[n]
  BY <1>3, <1>6, <1>10, AppendedIsHandled, LoadsAppended
<1>12. NoRemap(Append(q, r))
  <2>1. \A n \in DOMAIN Append(q, r) : Append(q, r)[n].kind = "load" \/ Append(q, r)[n] = r
    BY <1>3, AppendsHandler DEF TheRest
  <2> QED BY <1>6, <2>1 DEF NoRemap
<1>13. PICK more : more = Append(q, r)
  OBVIOUS
<1>14. StaysInPairs
  BY <1>2, <1>3, <1>9, <1>11, <1>12, <1>13, QuietScreen DEF Quietly
<1>15. /\ DOMAIN ds = DOMAIN docs
       /\ \A j \in DOMAIN docs :
            ds[j] = IF docs[j].id = c.doc.id
                      THEN [docs[j] EXCEPT !.dirty = FALSE, !.shows = c.reply, !.source = c.reply]
                      ELSE docs[j]
  BY <1>7, <1>8 DEF MarkSaved, Each, Only
<1>16. PICK k \in DOMAIN docs :
         docs[k].id = c.doc.id /\ docs[k].shows # None /\ docs[k].path = c.doc.path
  BY <1>4 DEF Saves
<1>17. \A i, j \in DOMAIN docs : docs[i].id = docs[j].id => i = j
  BY DEF Sound, SessionsInv, AreApart
<1>18. ASSUME NEW j \in DOMAIN ds, NEW d, d = ds[j]
       PROVE  KnownDoc(d)'
  <2>1. CASE docs[j].id = c.doc.id
    <3>1. j = k /\ IsDoc(docs[j])
      BY <1>15, <1>16, <1>17, <1>18, <2>1 DEF Sound, SessionsInv, AreApart
    <3>2. /\ ~d.dirty /\ d.shows = c.reply /\ d.source = c.reply /\ d.status = docs[k].status
          /\ d.path = c.doc.path
      BY <1>15, <1>16, <1>18, <2>1, <3>1 DEF IsDoc
    <3>3. KnownDoc(docs[k])
      BY DEF KnowInv
    <3>4. At(d.path)' = c.reply
      BY <1>2, <1>4, <1>7, <3>2 DEF At, Quietly, Saves
    <3>5. WillKnow(d.path, d.source, {d.source})'
      BY <3>2, <3>4 DEF WillKnow, Knows
    <3>6. stamps' = stamps
      BY <1>2 DEF Quietly
    <3> QED BY <1>7, <1>16, <3>2, <3>3, <3>5, <3>6 DEF KnownDoc
  <2>2. CASE docs[j].id # c.doc.id
    <3>1. d = docs[j] /\ j \in DOMAIN docs
      BY <1>15, <1>18, <2>2
    <3>2. ~Mending(d)
      BY <1>3, <2>2, <3>1 DEF Mending
    <3> QED BY <1>2, <1>14, <3>1, <3>2, DocStays
  <2> QED BY <2>1, <2>2
<1>19. \A j \in DOMAIN ds : \A d : d = ds[j] => KnownDoc(d)'
  BY <1>18
<1> QED BY <1>2, <1>9, <1>11, <1>13, <1>14, <1>19, DocsOnlyKnow DEF Quietly

LEMMA GoesOnKnows ==
    ASSUME Sound, KnowInv, GoesOn
    PROVE  KnowInv'
<1>1. PICK c, q, then : c = Head(calls) /\ q = Tail(calls) /\ then = c.then
  OBVIOUS
<1>2. /\ calls # <<>> /\ c.kind = "clear" /\ Goes(then, q)
      /\ events' = events /\ pending' = pending /\ expected' = expected
  BY <1>1 DEF GoesOn, Replied, ReplyLeaves, sent
<1>3. TheRest(q) /\ NoneMending /\ NoRemap(calls) /\ c = calls[1] /\ 1 \in DOMAIN calls
  BY <1>1, <1>2, AfterTheHead
<1>4. then.do = "open" => then.stamp \in 1 .. stamps
  BY <1>1, <1>3 DEF KnowInv, KnownCall
<1>5. then.do \in {"open", "link"} => then.path \in Path
  BY <1>1, <1>2, <1>3 DEF Sound, PathsInv, HandlersInv, Handler
<1> QED BY <1>2, <1>3, <1>4, <1>5, GoesKnows

LEMMA LinkReadKnows ==
    ASSUME Sound, KnowInv, LinkRead
    PROVE  KnowInv'
<1>1. PICK c, q : c = Head(calls) /\ q = Tail(calls)
  OBVIOUS
<1>2. calls # <<>> /\ c.kind = "link" /\ Quietly
  BY <1>1 DEF LinkRead, Replied, ReplyLeaves, Quietly, sent
<1>3. TheRest(q) /\ NoneMending /\ NoRemap(calls) /\ c = calls[1] /\ 1 \in DOMAIN calls
  BY <1>1, <1>2, AfterTheHead
<1>4. c.reply = At(c.path)
  BY <1>2, <1>3 DEF KnowInv, KnownCall
<1>5. CASE c.reply \in {Gone, Folder}
  <2>1. calls' = q /\ docs' = docs /\ active' = active
    BY <1>1, <1>5 DEF LinkRead, screen
  <2> QED BY <1>2, <1>3, <2>1, RestKnows
<1>6. CASE c.reply \notin {Gone, Folder}
  <2>1. PICK d, ac, tr : d = NewDoc(c.path, "editable", c.reply, c.reply) /\ ac = OpenedId(d) /\ tr = tree
    OBVIOUS
  <2>2. Become(OpenDocument(d), ac, tr, q)
    BY <1>1, <1>6, <2>1 DEF LinkRead, Opens
  <2>3. /\ d.status = "editable" /\ d.path = c.path /\ d.source = c.reply /\ d.shows = c.reply
    BY <2>1 DEF NewDoc
  <2>4. c.reply \in 1 .. stamps
    BY <1>4, <1>6, SoundTypes DEF At
  <2>5. WillKnow(d.path, d.source, {d.source})'
    BY <1>2, <1>4, <2>3 DEF WillKnow, Knows, At, Quietly
  <2>6. KnownDoc(d)'
    BY <1>2, <2>3, <2>4, <2>5 DEF KnownDoc, Quietly
  <2>7. IsSeq(q) /\ NoRemap(q) /\ HandledThen(q)
    BY <1>3, RestHasNoRemap
  <2> QED BY <1>2, <1>3, <2>2, <2>6, <2>7, OpeningKnows DEF Quietly
<1> QED BY <1>5, <1>6

LEMMA CreatedKnows ==
    ASSUME Sound, KnowInv, Created
    PROVE  KnowInv'
<1>1. PICK c, q, then : /\ c = Head(calls) /\ q = Tail(calls)
                        /\ then = [do |-> "open", path |-> c.path, stamp |-> c.reply]
  OBVIOUS
<1>2. /\ calls # <<>> /\ c.kind = "create" /\ Quietly /\ docs' = docs /\ active' = active
      /\ calls' = Append(q, Refresh(then))
  BY <1>1 DEF Created, Replied, ReplyLeaves, Quietly, screen, sent
<1>3. TheRest(q) /\ NoneMending /\ NoRemap(calls) /\ c = calls[1] /\ 1 \in DOMAIN calls
  BY <1>1, <1>2, AfterTheHead
<1>4. then.do = "open" => then.stamp \in 1 .. stamps
  BY <1>1, <1>2, <1>3 DEF KnowInv, KnownCall
<1> QED BY <1>2, <1>3, <1>4, RefreshAsks DEF Quietly

LEMMA ReloadedKnows ==
    ASSUME Sound, KnowInv, Reloaded
    PROVE  KnowInv'
<1>1. PICK c, q : c = Head(calls) /\ q = Tail(calls)
  OBVIOUS
<1>2. calls # <<>> /\ c.kind = "reload" /\ Quietly
  BY <1>1 DEF Reloaded, Replied, ReplyLeaves, Quietly, sent
<1>3. TheRest(q) /\ NoneMending /\ NoRemap(calls) /\ c = calls[1] /\ 1 \in DOMAIN calls
  BY <1>1, <1>2, AfterTheHead
<1>4. c.reply = At(c.doc.path) /\ (c.reply \notin {Gone, Folder} => IsAt(c))
  BY <1>2, <1>3 DEF KnowInv, KnownCall
<1>5. CASE c.reply \in {Gone, Folder}
  <2>1. calls' = q /\ docs' = docs /\ active' = active
    BY <1>1, <1>5 DEF Reloaded, screen
  <2> QED BY <1>2, <1>3, <2>1, RestKnows
<1>6. CASE c.reply \notin {Gone, Folder}
  <2>1. PICK ds : ds = Each(LAMBDA d : Only(c.doc.id, d,
                              [d EXCEPT !.status = "editable", !.dirty = FALSE,
                                        !.source = c.reply, !.shows = c.reply]))
    OBVIOUS
  <2>2. DocsBecome(ds, q)
    BY <1>1, <1>6, <2>1 DEF Reloaded
  <2>3. /\ DOMAIN ds = DOMAIN docs
        /\ \A j \in DOMAIN docs :
             ds[j] = IF docs[j].id = c.doc.id
                       THEN [docs[j] EXCEPT !.status = "editable", !.dirty = FALSE,
                                            !.source = c.reply, !.shows = c.reply]
                       ELSE docs[j]
    BY <2>1 DEF Each, Only
  <2>4. IsSeq(q) /\ NoRemap(q) /\ HandledThen(q)
    BY <1>3, RestHasNoRemap
  <2>5. StaysInPairs
    BY <1>2, <1>3, <2>2, <2>4, QuietScreen DEF Quietly
  <2>6. c.reply \in 1 .. stamps
    BY <1>4, <1>6, SoundTypes DEF At
  <2>7. ASSUME NEW j \in DOMAIN ds, NEW d, d = ds[j]
        PROVE  KnownDoc(d)'
    <3>1. CASE docs[j].id = c.doc.id
      <4>1. IsDoc(docs[j]) /\ docs[j].path = c.doc.path
        BY <1>4, <1>6, <2>3, <2>7, <3>1 DEF Sound, SessionsInv, AreApart, IsAt
      <4>2. /\ d.status = "editable" /\ ~d.dirty /\ d.shows = c.reply /\ d.source = c.reply
            /\ d.path = c.doc.path
        BY <2>3, <2>7, <3>1, <4>1 DEF IsDoc
      <4>3. WillKnow(d.path, d.source, {d.source})'
        BY <1>2, <1>4, <4>2 DEF WillKnow, Knows, At, Quietly
      <4> QED BY <1>2, <2>6, <4>2, <4>3 DEF KnownDoc, Quietly
    <3>2. CASE docs[j].id # c.doc.id
      <4>1. d = docs[j] /\ j \in DOMAIN docs
        BY <2>3, <2>7, <3>2
      <4> QED BY <1>2, <1>3, <2>5, <4>1, DocStays DEF NoneMending
    <3> QED BY <3>1, <3>2
  <2>8. \A j \in DOMAIN ds : \A d : d = ds[j] => KnownDoc(d)'
    BY <2>7
  <2>9. \A n \in DOMAIN q : q[n].kind = "load" => \E i \in DOMAIN calls : calls[i] = q[n]
    BY <1>3 DEF TheRest
  <2> QED BY <1>2, <2>2, <2>4, <2>5, <2>8, <2>9, DocsOnlyKnow DEF Quietly
<1> QED BY <1>5, <1>6

(* The rest of the queue and the scan that a handler asks for last.          *)
LEMMA RestAndRefresh ==
    ASSUME NEW q, TheRest(q), NEW r, r = Append(q, Refresh(Stay))
    PROVE  /\ IsSeq(r) /\ NoRemap(r) /\ HandledThen(r)
           /\ \A n \in DOMAIN r : r[n].kind = "load" => \E i \in DOMAIN calls : calls[i] = r[n]
<1>1. PICK c : c = Refresh(Stay)
  OBVIOUS
<1>2. c.kind = "refresh" /\ c.then.do = "stay" /\ r = Append(q, c)
  BY <1>1 DEF Refresh, Stay, Call
<1>3. KnownCall(c)'
  BY <1>2 DEF KnownCall
<1>4. \A n \in DOMAIN Append(q, c) : Append(q, c)[n].kind = "load" \/ Append(q, c)[n] = c
  BY AppendsHandler DEF TheRest
<1>5. HandledThen(Append(q, c)) /\ IsSeq(Append(q, c))
  BY <1>3, AppendedIsHandled
<1>6. \A n \in DOMAIN Append(q, c) : Append(q, c)[n].kind = "load"
        => \E i \in DOMAIN calls : calls[i] = Append(q, c)[n]
  BY <1>2, LoadsAppended
<1> QED BY <1>2, <1>4, <1>5, <1>6 DEF NoRemap

LEMMA TrashedKnows ==
    ASSUME Sound, KnowInv, Trashed
    PROVE  KnowInv'
<1>1. PICK c, q, r, ds : /\ c = Head(calls) /\ q = Tail(calls) /\ r = Append(q, Refresh(Stay))
                         /\ ds = SetStatus(c.ids, "missing")
  OBVIOUS
<1>2. calls # <<>> /\ c.kind = "trash" /\ Quietly /\ DocsBecome(ds, r)
  BY <1>1 DEF Trashed, Replied, ReplyLeaves, Quietly, sent
<1>3. TheRest(q) /\ NoneMending /\ NoRemap(calls)
  BY <1>1, <1>2, AfterTheHead
<1>4. /\ IsSeq(r) /\ NoRemap(r) /\ HandledThen(r)
      /\ \A n \in DOMAIN r : r[n].kind = "load" => \E i \in DOMAIN calls : calls[i] = r[n]
  <2>1. r = Append(q, Refresh(Stay))
    BY <1>1
  <2> QED BY <1>3, <2>1, RestAndRefresh
<1>5. StaysInPairs
  BY <1>2, <1>3, <1>4, QuietScreen DEF Quietly
<1>6. /\ DOMAIN ds = DOMAIN docs
      /\ \A j \in DOMAIN docs :
           ds[j] = IF docs[j].id \in c.ids THEN [docs[j] EXCEPT !.status = "missing"] ELSE docs[j]
  BY <1>1 DEF SetStatus, Each
<1>7. \A j \in DOMAIN docs : IsDoc(docs[j])
  BY DEF Sound, SessionsInv, AreApart
<1>8. ASSUME NEW j \in DOMAIN ds, NEW d, d = ds[j]
      PROVE  KnownDoc(d)'
  <2>1. d = docs[j] \/ d.status = "missing"
    BY <1>6, <1>7, <1>8 DEF IsDoc
  <2>2. CASE d = docs[j]
    BY <1>2, <1>3, <1>5, <1>6, <2>2, DocStays DEF NoneMending
  <2>3. CASE d.status = "missing"
    BY <2>3 DEF KnownDoc, Refused
  <2> QED BY <2>1, <2>2, <2>3
<1>9. \A j \in DOMAIN ds : \A d : d = ds[j] => KnownDoc(d)'
  BY <1>8
<1> QED BY <1>2, <1>4, <1>5, <1>9, DocsOnlyKnow DEF Quietly

LEMMA RefreshedKnows ==
    ASSUME Sound, KnowInv, Refreshed
    PROVE  KnowInv'
<1>1. PICK c, q, d : /\ c = Head(calls) /\ q = Tail(calls)
                     /\ d = NewDoc(c.then.path, "loading", c.then.stamp, None)
  OBVIOUS
<1>2. calls # <<>> /\ c.kind = "refresh" /\ Quietly
  BY <1>1 DEF Refreshed, Replied, Quietly, watcher, sent
<1>3. TheRest(q) /\ NoneMending /\ NoRemap(calls) /\ c = calls[1] /\ 1 \in DOMAIN calls
  BY <1>1, <1>2, AfterTheHead
<1>4. IsSeq(q) /\ NoRemap(q) /\ HandledThen(q)
  BY <1>3, RestHasNoRemap
<1>5. CASE Become(docs, active, c.reply, q)
  <2>1. PICK ds, ac, tr : ds = docs /\ ac = active /\ tr = c.reply
    OBVIOUS
  <2>2. Become(ds, ac, tr, q)
    BY <1>5, <2>1
  <2>3. StaysInPairs
    BY <1>2, <1>3, <1>4, <2>2, QuietScreen DEF Quietly
  <2>4. \A j \in DOMAIN ds : \A e : e = ds[j] => KnownDoc(e)'
    BY <1>2, <1>3, <2>1, <2>3, DocStays DEF NoneMending
  <2>5. PairsInv'
    BY <2>3 DEF StaysInPairs
  <2> QED BY <1>2, <1>4, <2>2, <2>4, <2>5, ScreenKnows DEF Quietly
<1>6. CASE c.then.do = "open" /\ Become(OpenDocument(d), OpenedId(d), c.reply, q)
  <2>1. PICK ac, tr : ac = OpenedId(d) /\ tr = c.reply
    OBVIOUS
  <2>2. Become(OpenDocument(d), ac, tr, q)
    BY <1>6, <2>1
  <2>3. c.then.stamp \in 1 .. stamps'
    BY <1>2, <1>3, <1>6 DEF KnowInv, KnownCall, Quietly
  <2>4. d.status = "loading" /\ d.source = c.then.stamp /\ ~d.dirty /\ d.shows = None
    BY <1>1 DEF NewDoc
  <2>5. KnownDoc(d)'
    BY <2>3, <2>4, NewLoadingKnows
  <2> QED BY <1>2, <1>3, <1>4, <2>2, <2>5, OpeningKnows DEF Quietly
<1> QED BY <1>1, <1>5, <1>6 DEF Refreshed

LEMMA RestHasTheRest ==
    ASSUME NEW s, IsSeq(s), s # <<>>
    PROVE  \A i \in DOMAIN s : i # 1 => i - 1 \in DOMAIN Tail(s) /\ Tail(s)[i - 1] = s[i]
<1> DEFINE r == Tail(s)
<1>1. /\ Len(s) \in Nat /\ Len(s) > 0 /\ DOMAIN s = 1 .. Len(s)
      /\ r \in Seq({s[i] : i \in DOMAIN s})
      /\ Len(r) = Len(s) - 1
      /\ \A n \in 1 .. Len(s) - 1 : r[n] = s[n + 1]
  BY DEF IsSeq
<1> HIDE DEF r
<1>2. DOMAIN r = 1 .. Len(s) - 1
  BY <1>1
<1>3. \A i \in DOMAIN s : i # 1 => i - 1 \in DOMAIN r /\ r[i - 1] = s[i]
  BY <1>1, <1>2
<1> QED BY <1>3 DEF r

(* The first call leaves, and what waits behind it stays.                    *)
LEMMA HeadLeaves ==
    ASSUME Sound, calls # <<>>, Head(calls).kind \notin {"remap", "write", "reinspect"},
           NEW q, q = Tail(calls), KeptCalls(q), Quietly
    PROVE  StaysInPairs /\ \A d : Mending(d) => Mending(d)'
<1>1. /\ IsSeq(calls) /\ 1 \in DOMAIN calls /\ Head(calls) = calls[1]
      /\ \A n \in DOMAIN q : n + 1 \in DOMAIN calls /\ q[n] = calls[n + 1]
      /\ \A i \in DOMAIN calls : i # 1 => i - 1 \in DOMAIN q /\ q[i - 1] = calls[i]
  BY RestOfSeq, RestHasTheRest DEF Sound, SessionsInv, AreInOrder
<1>2. \A i \in DOMAIN calls : calls[i].kind \in {"remap", "write", "reinspect"}
        => \E m \in DOMAIN calls' : calls'[m] = calls[i]
  <2>1. SUFFICES ASSUME NEW i \in DOMAIN calls, calls[i].kind \in {"remap", "write", "reinspect"}
                 PROVE  \E m \in DOMAIN calls' : calls'[m] = calls[i]
    OBVIOUS
  <2>2. i # 1
    BY <1>1, <2>1
  <2>3. i - 1 \in DOMAIN q /\ q[i - 1] = calls[i]
    BY <1>1, <2>2
  <2>4. q[i - 1].kind # "load"
    BY <2>1, <2>3
  <2> QED BY <2>3, <2>4 DEF KeptCalls
<1>3. \A n \in DOMAIN calls' : calls'[n].kind = "remap" => \E m \in DOMAIN calls : calls[m] = calls'[n]
  <2>1. SUFFICES ASSUME NEW n \in DOMAIN calls', calls'[n].kind = "remap"
                 PROVE  \E m \in DOMAIN calls : calls[m] = calls'[n]
    OBVIOUS
  <2>2. PICK i \in DOMAIN q : q[i] = calls'[n]
    BY <2>1 DEF KeptCalls
  <2> QED BY <1>1, <2>2
<1>4. StaysInPairs
  <2>1. SameRemaps
    BY <1>2, <1>3 DEF SameRemaps
  <2>2. SameNewsOfDisk
    BY DEF SameNewsOfDisk, Suppresses, Quietly
  <2> QED BY <2>1, <2>2, QuietKnown
<1>5. \A d : Mending(d) => Mending(d)'
  BY <1>2 DEF Mending
<1> QED BY <1>4, <1>5

LEMMA LoadedKnows ==
    ASSUME Sound, KnowInv, Loaded
    PROVE  KnowInv'
<1>1. PICK c, q, ds : /\ c = Head(calls) /\ q = Tail(calls)
                      /\ ds = IF c.reply \in {Gone, Folder} THEN SetStatus({c.doc.id}, "error")
                              ELSE SetModel(c.doc.id, c.reply)
  OBVIOUS
<1>2. calls # <<>> /\ c.kind = "load" /\ Quietly /\ DocsBecome(ds, q)
  BY <1>1 DEF Loaded, Replied, ReplyLeaves, Quietly, sent
<1>3. /\ IsSeq(q) /\ 1 \in DOMAIN calls /\ c = calls[1]
      /\ \A n \in DOMAIN q : n + 1 \in DOMAIN calls /\ q[n] = calls[n + 1]
  BY <1>1, <1>2, RestOfSeq DEF Sound, SessionsInv, AreInOrder
<1>4. KeptCalls(q) /\ docs' = ds
  BY <1>2, <1>3, BecomeKeeps
<1>5. StaysInPairs /\ \A d : Mending(d) => Mending(d)'
  BY <1>1, <1>2, <1>4, HeadLeaves
<1>6. PICK k \in DOMAIN docs : docs[k] = c.doc
  BY <1>2, <1>3, LoadOfADoc
<1>7. /\ KnownLoad(c) /\ c.doc.source \in 1 .. stamps /\ ~c.doc.dirty /\ c.doc.shows = None
      /\ c.doc.status = "loading"
  BY <1>2, <1>3, LoadOfADoc DEF KnownLoad
<1>8. \A i, j \in DOMAIN docs : docs[i].id = docs[j].id => i = j
  BY DEF Sound, SessionsInv, AreApart
<1>9. /\ DOMAIN ds = DOMAIN docs
      /\ \A j \in DOMAIN docs :
           /\ docs[j].id # c.doc.id => ds[j] = docs[j]
           /\ docs[j].id = c.doc.id =>
                ds[j] = IF c.reply \in {Gone, Folder} THEN [docs[j] EXCEPT !.status = "error"]
                        ELSE [docs[j] EXCEPT !.status = "editable", !.shows = c.reply, !.source = c.reply]
  BY <1>1 DEF SetStatus, SetModel, Each, Only
<1>10. ASSUME NEW j \in DOMAIN ds, NEW d, d = ds[j]
       PROVE  KnownDoc(d)'
  <2>1. CASE docs[j].id # c.doc.id
    BY <1>2, <1>5, <1>9, <1>10, <2>1, DocStays
  <2>2. CASE docs[j].id = c.doc.id /\ c.reply \in {Gone, Folder}
    <3>1. docs[j] = c.doc /\ IsDoc(c.doc)
      BY <1>6, <1>8, <1>9, <1>10, <2>2 DEF Sound, SessionsInv, AreApart
    <3>2. d.status = "error" /\ ~d.dirty /\ d.shows = None
      BY <1>7, <1>9, <1>10, <2>2, <3>1 DEF IsDoc
    <3> QED BY <3>2 DEF KnownDoc
  <2>3. CASE docs[j].id = c.doc.id /\ c.reply \notin {Gone, Folder}
    <3>1. docs[j] = c.doc /\ IsDoc(c.doc) /\ j \in DOMAIN docs
      BY <1>6, <1>8, <1>9, <1>10, <2>3 DEF Sound, SessionsInv, AreApart
    <3>2. d.status = "editable" /\ d.shows = c.reply /\ d.source = c.reply /\ d.path = c.doc.path
      <4>1. d = [c.doc EXCEPT !.status = "editable", !.shows = c.reply, !.source = c.reply]
        BY <1>9, <1>10, <2>3, <3>1
      <4> QED BY <3>1, <4>1 DEF IsDoc
    <3>3. PICK s, S, T : s = c.reply /\ S = {c.reply, c.doc.source} /\ T = {c.reply}
      OBVIOUS
    <3>4. c.reply \in 1 .. stamps /\ WillKnow(c.doc.path, s, S)
      BY <1>2, <1>7, <2>3, <3>3 DEF KnownLoad
    <3>5. T \in SUBSET S
      BY <3>3
    <3>6. WillKnow(c.doc.path, s, T)
      BY <3>4, <3>5, FewerStamps
    <3>7. s \in 1 .. stamps /\ T \in SUBSET (1 .. stamps) /\ s \in T
      BY <3>3, <3>4
    <3>8. StaysKnown(c.doc.path)
      BY <1>5, <3>1, DocsStayKnown
    <3>9. WillKnow(c.doc.path, s, T)'
      BY <3>6, <3>7, <3>8 DEF StaysKnown
    <3>10. WillKnow(d.path, d.source, {d.source})'
      BY <3>2, <3>3, <3>9
    <3>11. stamps' = stamps
      BY <1>2 DEF Quietly
    <3> QED BY <3>2, <3>4, <3>10, <3>11 DEF KnownDoc
  <2> QED BY <2>1, <2>2, <2>3
<1>11. \A j \in DOMAIN ds : \A d : d = ds[j] => KnownDoc(d)'
  BY <1>10
<1>12. ASSUME NEW j \in DOMAIN docs
       PROVE  /\ ds[j].id = docs[j].id /\ ds[j].path = docs[j].path
              /\ docs[j].shows # None => ds[j] = docs[j]
  <2>1. IsDoc(docs[j])
    BY DEF Sound, SessionsInv, AreApart
  <2>2. docs[j].shows # None => docs[j].id # c.doc.id
    BY <1>6, <1>7, <1>8
  <2> QED BY <1>9, <2>1, <2>2 DEF IsDoc
<1>13. ASSUME NEW n \in DOMAIN q, NEW e, e = q[n], e.kind # "load"
       PROVE  KnownCall(e)'
  <2>1. KnownCall(e)
    BY <1>3, <1>13 DEF KnowInv
  <2>2. disk' = disk /\ stamps' = stamps
    BY <1>2 DEF Quietly
  <2>3. ASSUME Saves(e)
        PROVE  /\ Saves(e)'
               /\ \A j \in DOMAIN docs : docs[j].id = e.doc.id => ds[j] = docs[j]
    <3>1. PICK i \in DOMAIN docs :
            docs[i].id = e.doc.id /\ docs[i].shows # None /\ docs[i].path = e.doc.path
      BY <2>3 DEF Saves
    <3>2. i \in DOMAIN docs' /\ docs'[i] = docs[i]
      BY <1>4, <1>9, <1>12, <3>1
    <3>3. Saves(e)'
      BY <2>2, <2>3, <3>1, <3>2 DEF Saves
    <3>4. \A j \in DOMAIN docs : docs[j].id = e.doc.id => j = i
      BY <1>8, <3>1
    <3> QED BY <1>4, <3>2, <3>3, <3>4
  <2>4. ASSUME Saves(e),
               \A j \in DOMAIN docs : docs[j].id = e.doc.id /\ docs[j].status = "editable"
                                        => docs[j].source = e.doc.source
        PROVE  (\A j \in DOMAIN docs : docs[j].id = e.doc.id /\ docs[j].status = "editable"
                                        => docs[j].source = e.doc.source)'
    <3>1. SUFFICES ASSUME NEW j \in DOMAIN docs', docs'[j].id = e.doc.id, docs'[j].status = "editable"
                   PROVE  docs'[j].source = e.doc.source
      OBVIOUS
    <3>2. j \in DOMAIN docs /\ docs'[j] = ds[j] /\ ds[j].id = docs[j].id
      BY <1>4, <1>9, <1>12
    <3>3. docs'[j] = docs[j]
      BY <2>3, <2>4, <3>1, <3>2
    <3> QED BY <2>4, <3>1, <3>2, <3>3
  <2>5. IsAt(e) => IsAt(e)'
    BY <1>4, <1>9, <1>12 DEF IsAt
  <2>6. At(e.path)' = At(e.path) /\ At(e.doc.path)' = At(e.doc.path)
    BY <2>2 DEF At
  <2> QED BY <2>1, <2>2, <2>3, <2>4, <2>5, <2>6 DEF KnownCall
<1>14. HandledThen(q)
  BY <1>13 DEF HandledThen
<1>15. \A n \in DOMAIN q : q[n].kind = "load" => \E i \in DOMAIN calls : calls[i] = q[n]
  BY <1>3
<1> QED BY <1>2, <1>3, <1>5, <1>11, <1>14, <1>15, DocsOnlyKnow DEF Quietly

LEMMA RemappedKnows ==
    ASSUME Sound, KnowInv, Remapped
    PROVE  KnowInv'
<1>1. PICK c, q, r, ds, ac, tr :
         /\ c = Head(calls) /\ q = Tail(calls) /\ r = Append(q, Refresh(Stay))
         /\ ds = RemapPaths(c.path, c.to) /\ ac = active /\ tr = tree
  OBVIOUS
<1>2. calls # <<>> /\ c.kind = "remap" /\ Quietly /\ Become(ds, ac, tr, r)
  BY <1>1 DEF Remapped, Replied, ReplyLeaves, Quietly, sent
<1>3. TheRest(q) /\ NoneMending
  BY <1>1, <1>2, AfterTheHead
<1>4. /\ IsSeq(r) /\ NoRemap(r) /\ HandledThen(r)
      /\ \A n \in DOMAIN r : r[n].kind = "load" => \E i \in DOMAIN calls : calls[i] = r[n]
  <2>1. r = Append(q, Refresh(Stay))
    BY <1>1
  <2> QED BY <1>3, <2>1, RestAndRefresh
<1>5. KeptCalls(r)
  BY <1>2, <1>4, BecomeKeeps
<1>6. NoRemap(calls')
  BY <1>4, <1>5 DEF KeptCalls, NoRemap
<1>7. c = Head(calls)
  BY <1>1
<1>8. /\ PairsInv'
      /\ \A p \in Seq(Name), s \in 1 .. stamps, S \in SUBSET (1 .. stamps) :
           s \in S /\ WillKnow(p, s, S) => WillKnow(Remap(c.path, c.to, p), s, S)'
  BY <1>2, <1>6, <1>7, RemapArrives DEF Quietly
<1>9. /\ DOMAIN ds = DOMAIN docs
      /\ \A j \in DOMAIN docs : ds[j] = [docs[j] EXCEPT !.path = Remap(c.path, c.to, docs[j].path)]
  BY <1>1 DEF RemapPaths, Each
<1>10. ASSUME NEW j \in DOMAIN ds, NEW e, e = ds[j]
       PROVE  KnownDoc(e)'
  <2>1. PICK d : d = docs[j]
    OBVIOUS
  <2>2. IsDoc(d) /\ KnownDoc(d) /\ d.path \in Seq(Name)
    BY <1>9, <1>10, <2>1 DEF Sound, SessionsInv, AreApart, PathsInv, PathsApart, KnowInv
  <2>3. /\ e.path = Remap(c.path, c.to, d.path) /\ e.status = d.status /\ e.dirty = d.dirty
        /\ e.source = d.source /\ e.shows = d.shows
    BY <1>9, <1>10, <2>1, <2>2 DEF IsDoc
  <2>4. stamps' = stamps
    BY <1>2 DEF Quietly
  <2>5. ASSUME d.status = "editable"
        PROVE  WillKnow(e.path, e.source, {e.source})'
    <3>1. PICK s, S : s = d.source /\ S = {d.source}
      OBVIOUS
    <3>2. d.source \in 1 .. stamps /\ WillKnow(d.path, s, S)
      BY <1>3, <2>2, <2>5, <3>1 DEF KnownDoc, NoneMending
    <3>3. s \in 1 .. stamps /\ S \in SUBSET (1 .. stamps) /\ s \in S
      BY <3>1, <3>2
    <3>4. WillKnow(Remap(c.path, c.to, d.path), s, S)'
      BY <1>8, <2>2, <3>2, <3>3
    <3> QED BY <2>3, <3>1, <3>4
  <2> QED BY <2>2, <2>3, <2>4, <2>5 DEF KnownDoc
<1>11. \A j \in DOMAIN ds : \A d : d = ds[j] => KnownDoc(d)'
  BY <1>10
<1> QED BY <1>2, <1>4, <1>8, <1>11, ScreenKnows DEF Quietly

(* A file is saved, which is there: where others' notices are still to come, *)
(* they tell of what the app wrote, and no rename takes a session there.     *)
LEMMA WritesKnows ==
    ASSUME Sound, KnowInv, Writes
    PROVE  KnowInv'
<1>1. PICK c, q, p : c = Head(calls) /\ q = Tail(calls) /\ p = c.doc.path
  OBVIOUS
<1>2. calls # <<>> /\ c.kind = "inspect" /\ c.reply = c.doc.source
  BY <1>1 DEF Writes, Replied
<1>3. TheRest(q) /\ NoneMending /\ NoRemap(calls) /\ c = calls[1] /\ 1 \in DOMAIN calls
  BY <1>1, <1>2, AfterTheHead
<1>4. Saves(c) /\ (c.then.do = "open" => c.then.stamp \in 1 .. stamps)
  BY <1>2, <1>3 DEF KnowInv, KnownCall
<1>5. p \in Path /\ disk[p] \in 1 .. stamps /\ disk[p] \notin {Gone, Folder} /\ At(p) = disk[p]
  BY <1>1, <1>4, SoundTypes DEF Saves, At
<1>6. PICK r, n : /\ r = [c EXCEPT !.kind = "write", !.reply = stamps']
                  /\ n = [kind |-> "half", path |-> p, mate |-> None]
  OBVIOUS
<1>7. /\ ~Came(p) /\ stamps' = stamps + 1
      /\ disk' = [disk EXCEPT ![p] = stamps'] /\ expected' = [expected EXCEPT ![p] = stamps']
      /\ notices' = Append(notices, n) /\ calls' = Append(q, r)
      /\ docs' = docs /\ active' = active /\ pending' = pending /\ events' = events
  BY <1>1, <1>5, <1>6 DEF Writes, ReplyLeaves, screen, Sound, Admits, sent
<1>8. IsCall(c) /\ IsDoc(c.doc)
  BY <1>2, <1>3 DEF Sound, SessionsInv, AreInOrder, IsInOrder
<1>9. r.kind = "write" /\ r.doc = c.doc /\ r.reply = stamps' /\ r.then = c.then
  BY <1>6, <1>8 DEF IsCall
<1>10. /\ \A x \in Path : disk'[x] = IF x = p THEN stamps + 1 ELSE disk[x]
       /\ \A x \in Path : expected'[x] = IF x = p THEN stamps + 1 ELSE expected[x]
  BY <1>7, SoundTypes
<1>11. \A x \in Path : x # p => disk'[x] = disk[x] /\ (Suppresses(x)' => Suppresses(x))
  BY <1>10 DEF Suppresses
<1>12. Adds(n) /\ n.mate = None /\ n.path = p
  BY <1>6, <1>7, AddsLast DEF Sound, PathsInv
<1>13. \A m \in DOMAIN calls' : calls'[m].kind = "load" \/ calls'[m] = r
  <2>1. \A m \in DOMAIN Append(q, r) : Append(q, r)[m].kind = "load" \/ Append(q, r)[m] = r
    BY <1>3, AppendsHandler DEF TheRest
  <2> QED BY <1>7, <2>1
<1>14. NoRemap(calls')
  BY <1>9, <1>13 DEF NoRemap
<1>15. \A x \in Path : disk[x] = Gone => disk'[x] = Gone /\ ~Meets(p, x)
  BY <1>5, <1>11, FilesAreUnheard
<1>16. NewsInv /\ PairsInv
  BY DEF Sound, PathsInv
<1>17. PairsInv'
  <2>1. \A x \in Path : Suppresses(x)' => Suppresses(x) \/ ~Came(x)
    BY <1>7, <1>11
  <2>2. \A x \in Path : disk[x] = Gone /\ Heard(x) => disk'[x] = Gone /\ ~Meets(n.path, x)
    BY <1>12, <1>15
  <2> QED BY <1>12, <1>14, <1>16, <2>1, <2>2, AddedPairs
<1>18. PICK k \in DOMAIN docs : docs[k].id = c.doc.id /\ docs[k].shows # None /\ docs[k].path = p
  BY <1>1, <1>4 DEF Saves
<1>19. ASSUME NEW i \in DOMAIN docs, docs[i].path # p
       PROVE  StaysKnown(docs[i].path)
  <2>1. PICK t : t = docs[i].path
    OBVIOUS
  <2>2. t \in Seq(Name)
    BY <2>1 DEF Sound, PathsInv, PathsApart
  <2>3. ASSUME NEW x \in Path, NEW y \in Path, Passage(x, y), IsPrefix(x, t)
        PROVE  Remap(x, y, t) # p
    <3>1. SUFFICES ASSUME Remap(x, y, t) = p PROVE FALSE
      OBVIOUS
    <3>2. IsPrefix(y, p)
      BY <2>2, <2>3, <3>1, PathsAreNames, RemapMoves
    <3>3. Claimed(x) /\ Claimed(y)
      BY <1>18, <2>1, <2>3, <3>2 DEF Claimed
    <3>4. Way(x, y)
      BY <2>3, PassagesAreWays
    <3> QED BY <3>3, <3>4 DEF Sound, PathsInv, WaysInv
  <2>4. \A x, y \in Path : Passage(x, y) /\ IsPrefix(x, t) => Remap(x, y, t) \notin {p}
    BY <2>3
  <2>5. t \notin {p}
    BY <1>19, <2>1
  <2>6. PICK X : X = {p}
    OBVIOUS
  <2>7. \A x \in Path : \/ x \in X
                        \/ disk'[x] = disk[x] /\ (Suppresses(x)' => Suppresses(x))
                        \/ /\ ~Suppresses(x)' /\ disk'[x] \notin 1 .. stamps
                           /\ \A S \in SUBSET (1 .. stamps) : Warns(n, x, S)'
    BY <1>11, <2>6
  <2>8. \A x \in Path : disk[x] = Gone /\ Heard(x) => disk'[x] = Gone
    BY <1>15
  <2>9. \A m \in DOMAIN calls : calls[m].kind = "remap" => \E j \in DOMAIN calls' : calls'[j] = calls[m]
    BY <1>3 DEF NoRemap
  <2>10. t \notin X /\ \A x, y \in Path : Passage(x, y) /\ IsPrefix(x, t) => Remap(x, y, t) \notin X
    BY <2>4, <2>5, <2>6
  <2>11. StaysKnown(t)
    BY <1>12, <1>16, <2>2, <2>7, <2>8, <2>9, <2>10, AddedKnown
  <2> QED BY <2>1, <2>11
<1>20. \E m \in DOMAIN calls' : calls'[m] = r
  BY <1>3, <1>7, <1>9, LoadsAppended
<1>21. ASSUME NEW i \in DOMAIN docs, docs[i].path = p
       PROVE  docs[i].shows # None /\ Mending(docs[i])'
  <2>1. docs[i].id = c.doc.id
    BY <1>18, <1>21 DEF Sound, PathsInv, PathsApart
  <2>2. i = k
    BY <1>18, <2>1 DEF Sound, SessionsInv, AreApart
  <2> QED BY <1>7, <1>9, <1>18, <1>20, <2>1, <2>2 DEF Mending
<1>22. stamps' \in Nat /\ stamps <= stamps' /\ stamps' \in 1 .. stamps' /\ \A s \in 1 .. stamps : s \in 1 .. stamps'
  BY <1>7, SoundTypes
<1>23. Saves(r)'
  <2>1. r.doc.path \in Path /\ disk'[r.doc.path] = r.reply /\ r.reply \in 1 .. stamps'
    BY <1>1, <1>5, <1>7, <1>9, <1>10, <1>22
  <2> QED BY <1>1, <1>7, <1>9, <1>18, <2>1 DEF Saves
<1>24. KnownCall(r)'
  BY <1>4, <1>9, <1>22, <1>23 DEF KnownCall
<1>25. /\ Handled(calls)'
       /\ \A m \in DOMAIN calls' : calls'[m].kind = "load" => \E i \in DOMAIN calls : calls[i] = calls'[m]
  <2>1. \A m \in DOMAIN Append(q, r) : Append(q, r)[m].kind = "load"
          => \E i \in DOMAIN calls : calls[i] = Append(q, r)[m]
    BY <1>3, <1>9, LoadsAppended
  <2>2. SUFFICES ASSUME NEW m \in DOMAIN calls', calls'[m].kind # "load"
                 PROVE  KnownCall(calls[m])'
    BY <1>7, <2>1 DEF Handled
  <2>3. calls'[m] = r
    BY <1>13, <2>2
  <2> QED BY <1>24, <2>3
<1>26. \A i \in DOMAIN docs :
         StaysKnown(docs[i].path) \/ (docs[i].shows # None /\ Mending(docs[i])')
  BY <1>19, <1>21
<1>27. \A i \in DOMAIN docs : Mending(docs[i]) => Mending(docs[i])'
  BY <1>3 DEF NoneMending
<1> QED BY <1>7, <1>17, <1>22, <1>25, <1>26, <1>27, SameDocsKnow

LEMMA RepliesKnow ==
    ASSUME Sound, KnowInv, Replies
    PROVE  KnowInv'
BY LoadedKnows, InspectionKnows, WritesKnows, WrittenKnows, SavedKnows, GoesOnKnows, LinkReadKnows,
   CreatedKnows, ReloadedKnows, RemappedKnows, TrashedKnows, RefreshedKnows DEF Replies

-----------------------------------------------------------------------------
(* The watcher and the other programs                                        *)

LEMMA SameHandlers ==
    ASSUME Sound, KnowInv, docs' = docs, calls' = calls, disk' = disk, stamps' = stamps
    PROVE  Handled(calls)'
<1>1. SUFFICES ASSUME NEW n \in DOMAIN calls' PROVE KnownCall(calls[n])'
  BY DEF Handled
<1>2. PICK c : c = calls[n]
  OBVIOUS
<1>3. KnownCall(c)
  BY <1>2 DEF KnowInv
<1>4. /\ Saves(c) => Saves(c)'
      /\ IsAt(c) => IsAt(c)'
      /\ At(c.path)' = At(c.path) /\ At(c.doc.path)' = At(c.doc.path)
  BY DEF Saves, IsAt, At
<1>5. KnownCall(c)'
  BY <1>3, <1>4 DEF KnownCall
<1> QED BY <1>2, <1>5

LEMMA NewsKnows ==
    ASSUME Sound, KnowInv, StaysInPairs, docs' = docs, active' = active, calls' = calls,
           disk' = disk, stamps' = stamps
    PROVE  KnowInv'
<1>1. PairsInv' /\ \A i \in DOMAIN docs : StaysKnown(docs[i].path)
  BY DocsStayKnown
<1>2. stamps' \in Nat /\ stamps <= stamps'
  BY SoundTypes
<1>3. \A i \in DOMAIN docs : Mending(docs[i]) => Mending(docs[i])'
  BY DEF Mending
<1>4. Handled(calls)'
  BY SameHandlers
<1> QED BY <1>1, <1>2, <1>3, <1>4, SameDocsKnow

LEMMA ListeningKnows ==
    ASSUME Sound, KnowInv, Watcher, ~Deliver
    PROVE  KnowInv'
<1>1. StaysInPairs
  BY SuppressedListens, ChangeListens, GoneListens, PairedListens, PairedTooLateListens,
     AloneListens, TimesOutListens, ForgottenKnown DEF Watcher
<1>2. UNCHANGED WatcherLeaves
  BY DEF Watcher, NoticeSuppressed, NoticeOfChange, HalfGone, Paired, PairedTooLate, HalfAlone,
         HalfThere, HalfTimesOut, WriteForgotten, sent
<1>3. /\ docs' = docs /\ active' = active /\ calls' = calls /\ disk' = disk /\ stamps' = stamps
  BY <1>2 DEF WatcherLeaves, screen
<1> QED BY <1>1, <1>3, NewsKnows

(* What other programs do, while no handler that asks of a file waits.       *)
LEMMA OthersStepKnows ==
    ASSUME Sound, KnowInv, StaysInPairs, docs' = docs, active' = active, calls' = calls,
           \A i \in DOMAIN calls : calls[i].kind \in {"load", "refresh"},
           stamps' \in Nat, stamps <= stamps'
    PROVE  KnowInv'
<1>1. PairsInv' /\ \A i \in DOMAIN docs : StaysKnown(docs[i].path)
  BY DocsStayKnown
<1>2. \A i \in DOMAIN docs : Mending(docs[i]) => Mending(docs[i])'
  BY DEF Mending
<1>3. \A s \in 1 .. stamps : s \in 1 .. stamps'
  BY SoundTypes
<1>4. Handled(calls)'
  <2>1. SUFFICES ASSUME NEW n \in DOMAIN calls' PROVE KnownCall(calls[n])'
    BY DEF Handled
  <2>2. PICK c : c = calls[n]
    OBVIOUS
  <2>3. KnownCall(c) /\ c.kind \in {"load", "refresh"}
    BY <2>2 DEF KnowInv
  <2>4. KnownCall(c)'
    BY <1>3, <2>3 DEF KnownCall
  <2> QED BY <2>2, <2>4
<1> QED BY <1>1, <1>2, <1>4, SameDocsKnow

LEMMA OthersStampKnows ==
    ASSUME Sound, KnowInv, NEW p \in Files, Free(p) \/ disk[p] \notin {Gone, Folder},
           NEW kind, kind # "remove", stamps' = stamps + 1,
           OthersDo([disk EXCEPT ![p] = stamps'], Notice(kind, p))
    PROVE  KnowInv'
<1>1. PICK n : n = [kind |-> kind, path |-> p, mate |-> None]
  OBVIOUS
<1>2. /\ \A i \in DOMAIN calls : calls[i].kind \in {"load", "refresh"}
      /\ docs' = docs /\ active' = active /\ calls' = calls
      /\ disk' = [disk EXCEPT ![p] = stamps'] /\ notices' = notices \o <<n>>
      /\ events' = events /\ pending' = pending /\ expected' = expected
  BY <1>1 DEF OthersDo, Notice, Admits, Handling, screen, watcher, Sound, sent
<1>3. Adds(n) /\ n.path = p /\ n.mate = None /\ n.kind # "remove"
  BY <1>1, <1>2, AddsLast DEF Sound, PathsInv
<1>4. NoRemap(calls) /\ NoRemap(calls') /\ p \in Path
  BY <1>2 DEF NoRemap, Path
<1>5. StaysInPairs
  BY <1>2, <1>3, <1>4, FileKnown
<1>6. stamps' \in Nat /\ stamps <= stamps'
  BY SoundTypes
<1> QED BY <1>2, <1>5, <1>6, OthersStepKnows

LEMMA OthersGoneKnows ==
    ASSUME Sound, KnowInv, NEW p \in Path, Calm(p) \/ disk[p] \notin {Gone, Folder},
           NEW kind \in {"remove", "half"}, stamps' = stamps, OthersDo(Prune(disk, p), Notice(kind, p))
    PROVE  KnowInv'
<1>1. PICK n : n = [kind |-> kind, path |-> p, mate |-> None]
  OBVIOUS
<1>2. /\ \A i \in DOMAIN calls : calls[i].kind \in {"load", "refresh"}
      /\ docs' = docs /\ active' = active /\ calls' = calls
      /\ disk' = Prune(disk, p) /\ notices' = notices \o <<n>>
      /\ events' = events /\ pending' = pending /\ expected' = expected
  BY <1>1 DEF OthersDo, Notice, Admits, Handling, screen, watcher, Sound, sent
<1>3. Adds(n) /\ n.path = p /\ n.mate = None /\ n.kind \in {"remove", "half"}
  BY <1>1, <1>2, AddsLast DEF Sound, PathsInv
<1>4. NoRemap(calls) /\ NoRemap(calls')
  BY <1>2 DEF NoRemap
<1>5. StaysInPairs
  BY <1>2, <1>3, <1>4, GoingKnown
<1>6. stamps' \in Nat /\ stamps <= stamps'
  BY SoundTypes
<1> QED BY <1>2, <1>5, <1>6, OthersStepKnows

LEMMA OthersRenameKnows ==
    ASSUME Sound, KnowInv, NEW p \in Path, NEW to \in Path, OthersRename(p, to)
    PROVE  KnowInv'
<1>1. /\ \A i \in DOMAIN calls : calls[i].kind \in {"load", "refresh"}
      /\ docs' = docs /\ active' = active /\ calls' = calls
      /\ disk' = Renamed(disk, p, to) /\ notices' = notices \o Halves(p, to)
      /\ events' = events /\ pending' = pending /\ expected' = expected /\ stamps' = stamps
  BY DEF OthersRename, OthersDo, Admits, Handling, screen, watcher, Sound, sent
<1>2. disk[p] # Gone /\ disk[to] = Gone /\ Free(to) /\ Calm(p) /\ Fits(p, to) /\ Takes(p, to)
  BY DEF OthersRename, Shown, Admits, Sound
<1>3. Relocated(p, to)
  BY <1>1, <1>2 DEF Relocated, Free, NoRemap
<1>4. StaysInPairs
  BY <1>3, RenameKnown
<1>5. stamps' \in Nat /\ stamps <= stamps'
  BY <1>1, SoundTypes
<1> QED BY <1>1, <1>4, <1>5, OthersStepKnows

LEMMA OthersKnow ==
    ASSUME Sound, KnowInv, Others
    PROVE  KnowInv'
<1>1. ASSUME NEW p \in Files, OthersWrite(p) \/ OthersCreate(p) \/ OthersMoveIn(p)
      PROVE  KnowInv'
  <2>1. PICK kind \in {"modify", "create", "half"} :
           OthersDo([disk EXCEPT ![p] = stamps'], Notice(kind, p))
    BY <1>1 DEF OthersWrite, OthersCreate, OthersMoveIn
  <2>2. stamps' = stamps + 1 /\ (Free(p) \/ disk[p] \notin {Gone, Folder}) /\ kind # "remove"
    BY <1>1 DEF OthersWrite, OthersCreate, OthersMoveIn
  <2> QED BY <2>1, <2>2, OthersStampKnows
<1>2. ASSUME NEW p \in Files, OthersRemove(p) PROVE KnowInv'
  <2>1. PICK kind : kind = "remove"
    OBVIOUS
  <2>2. p \in Path /\ disk[p] \notin {Gone, Folder} /\ OthersDo(Prune(disk, p), Notice(kind, p)) /\ stamps' = stamps
    BY <1>2, <2>1 DEF OthersRemove, Path
  <2> QED BY <2>1, <2>2, OthersGoneKnows
<1>3. ASSUME NEW p \in Path, OthersMoveOut(p) PROVE KnowInv'
  <2>1. PICK kind : kind = "half"
    OBVIOUS
  <2>2. Calm(p) /\ OthersDo(Prune(disk, p), Notice(kind, p)) /\ stamps' = stamps
    BY <1>3, <2>1 DEF OthersMoveOut
  <2> QED BY <2>1, <2>2, OthersGoneKnows
<1> QED BY <1>1, <1>2, <1>3, OthersRenameKnows DEF Others

(* What an event makes of a session.                                         *)
LEMMA ClassifiedKnows ==
    ASSUME Sound, KnowInv, Delivers, NEW i \in DOMAIN docs, NEW d, d = docs[i],
           NEW e, e = Head(events), ~Leaves(d, e), NEW r, r = Classified(d, e),
           Mending(d) => Mending(d)'
    PROVE  /\ KnownDoc(r)'
           /\ r.status = "editable" => d.status = "editable" /\ r.source = d.source
<1>1. IsDoc(d) /\ KnownDoc(d) /\ d.path \in Seq(Name)
  BY DEF Sound, SessionsInv, AreApart, PathsInv, PathsApart, KnowInv
<1>2. stamps' = stamps
  BY DEF Delivers
<1>3. PICK p : p = IF e.kind = "rename" THEN Remap(e.path, e.to, d.path) ELSE d.path
  OBVIOUS
<1>4. ASSUME d.status = "editable", ~Breaks(e, d.path, {d.source})
      PROVE  WillKnow(p, d.source, {d.source})' \/ Mending(d)'
  <2>1. SUFFICES ASSUME ~Mending(d)'
                 PROVE  WillKnow(p, d.source, {d.source})'
    OBVIOUS
  <2>2. PICK s, S, t : s = d.source /\ S = {d.source} /\ t = d.path
    OBVIOUS
  <2>3. WillKnow(t, s, S) /\ s \in 1 .. stamps /\ t \in Seq(Name)
    BY <1>1, <1>4, <2>1, <2>2 DEF KnownDoc
  <2>4. S \in SUBSET (1 .. stamps) /\ s \in S
    BY <2>2, <2>3
  <2>5. p = IF e.kind = "rename" THEN Remap(e.path, e.to, t) ELSE t
    BY <1>3, <2>2
  <2>6. Breaks(e, t, S) \/ WillKnow(p, s, S)'
    BY <2>3, <2>4, <2>5, DeliversKnown
  <2> QED BY <1>4, <2>2, <2>6
<1>5. r.path = p /\ r.id = d.id
  BY <1>1, <1>3, PlaceClassified, ClassifiedStays
<1>6. Mending(d)' => Mending(r)'
  BY <1>5 DEF Mending
<1>7. CASE r = d /\ ~Breaks(e, d.path, {d.source})
  <2>1. d.status = "editable" => WillKnow(r.path, r.source, {r.source})' \/ Mending(r)'
    BY <1>4, <1>5, <1>6, <1>7
  <2> QED BY <1>1, <1>2, <1>7, <2>1 DEF KnownDoc
<1>8. CASE r.status \in Refused
  BY <1>8 DEF KnownDoc, Refused
<1>9. CASE ~Concerns(d, e)
  <2>1. r = d
    BY <1>9 DEF Classified
  <2>2. ~Breaks(e, d.path, {d.source})
    BY <1>9 DEF Concerns, Breaks
  <2> QED BY <1>7, <2>1, <2>2
<1>10. CASE Concerns(d, e) /\ e.kind = "rename"
  <2>1. r = [d EXCEPT !.path = Remap(e.path, e.to, @)]
    BY <1>10 DEF Classified
  <2>2. /\ r.status = d.status /\ r.source = d.source /\ r.shows = d.shows /\ r.dirty = d.dirty
    BY <1>1, <2>1 DEF IsDoc
  <2>3. ~Breaks(e, d.path, {d.source})
    BY <1>10 DEF Breaks
  <2>4. d.status = "editable" => WillKnow(r.path, r.source, {r.source})' \/ Mending(r)'
    BY <1>4, <1>5, <1>6, <2>2, <2>3
  <2> QED BY <1>1, <1>2, <2>2, <2>4 DEF KnownDoc
<1>11. CASE Concerns(d, e) /\ e.kind = "remove"
  <2>1. r = [d EXCEPT !.status = "missing"]
    BY <1>11 DEF Classified
  <2>2. r.status = "missing"
    BY <1>1, <2>1 DEF IsDoc
  <2> QED BY <1>8, <2>2 DEF Refused
<1>12. CASE Concerns(d, e) /\ e.kind \notin {"rename", "remove"}
  <2>1. CASE d.status # "missing" /\ StampOf(e) = d.source
    <3>1. r = d
      BY <1>12, <2>1 DEF Classified
    <3>2. ~Breaks(e, d.path, {d.source})
      BY <1>12, <2>1 DEF Breaks
    <3> QED BY <1>7, <3>1, <3>2
  <2>2. CASE ~(d.status # "missing" /\ StampOf(e) = d.source)
    <3>1. r = Changed(d, StampOf(e))
      BY <1>12, <2>2 DEF Classified
    <3>2. PICK st, so : r = [d EXCEPT !.status = st, !.source = so] /\ st \in {"conflict", "external-change"}
      BY <3>1 DEF Changed
    <3>3. r.status \in Refused
      BY <1>1, <3>2 DEF IsDoc, Refused
    <3> QED BY <1>8, <3>3
  <2> QED BY <2>1, <2>2
<1> QED BY <1>9, <1>10, <1>11, <1>12

LEMMA ClassifiedDocs ==
    ASSUME SessionsInv, NEW e, NEW ds, ds = DocsAfter(e)
    PROVE  \A j \in DOMAIN ds : \E i \in DOMAIN docs :
             ds[j] = Classified(docs[i], e) /\ ~Leaves(docs[i], e)
<1> DEFINE at == {i \in DOMAIN docs : ~Leaves(docs[i], e)}
           stay == Kept(docs, at)
<1>1. DOMAIN ds = DOMAIN stay /\ \A j \in DOMAIN stay : ds[j] = Classified(stay[j], e)
  BY DEF DocsAfter
<1>2. at \in SUBSET DOMAIN docs /\ \A i \in at : i \in DOMAIN docs /\ ~Leaves(docs[i], e)
  OBVIOUS
<1> HIDE DEF at
<1>3. \A n \in DOMAIN stay : \E i \in at : stay[n] = docs[i]
  BY <1>2, KeptAreApart DEF SessionsInv
<1> HIDE DEF stay
<1> QED BY <1>1, <1>2, <1>3

LEMMA ClassifiedStay ==
    ASSUME SessionsInv, NEW e, NEW ds, ds = DocsAfter(e), NEW i \in DOMAIN docs, ~Leaves(docs[i], e)
    PROVE  \E j \in DOMAIN ds : ds[j] = Classified(docs[i], e)
<1> DEFINE at == {n \in DOMAIN docs : ~Leaves(docs[n], e)}
           stay == Kept(docs, at)
<1>1. DOMAIN ds = DOMAIN stay /\ \A j \in DOMAIN stay : ds[j] = Classified(stay[j], e)
  BY DEF DocsAfter
<1>2. at \in SUBSET DOMAIN docs /\ i \in at
  OBVIOUS
<1> HIDE DEF at
<1>3. \E j \in DOMAIN stay : stay[j] = docs[i]
  BY <1>2, KeptOnce DEF SessionsInv, AreApart
<1> HIDE DEF stay
<1> QED BY <1>1, <1>3

(* What waits for a reply is a call as it was, but for the number of events  *)
(* it is behind.                                                             *)
LEMMA WaitedSame ==
    ASSUME Sound, NEW i \in DOMAIN calls, NEW c, c = calls[i], NEW w, w = Waited(c)
    PROVE  /\ w.kind = c.kind /\ w.doc = c.doc /\ w.path = c.path /\ w.to = c.to
           /\ w.reply = c.reply /\ w.then = c.then
           /\ c.kind # "refresh" => w = c
BY DEF Sound, SessionsInv, AreInOrder, IsInOrder, IsCall, Waited

(* A session that is at a file is neither moved nor closed by an event: what *)
(* a rename left is gone, and so is what was removed.                        *)
LEMMA EventMovesNoFile ==
    ASSUME Sound, events # <<>>, NEW e, e = Head(events), NEW p \in Path, disk[p] # Gone,
           e.kind = "rename"
    PROVE  ~IsPrefix(e.path, p)
<1>1. 1 \in DOMAIN events /\ e = events[1] /\ e.path \in Path
  BY RestOfSeq DEF Sound, PathsInv, NewsInv
<1>2. disk[e.path] = Gone
  BY <1>1 DEF Sound, PairsInv, ToldAlone
<1> QED BY <1>1, <1>2 DEF Sound, PathsInv, IsATree

LEMMA EventRemovesNoFile ==
    ASSUME Sound, events # <<>>, NEW e, e = Head(events), NEW p \in Path, disk[p] # Gone,
           e.kind = "remove"
    PROVE  ~IsPrefix(e.path, p)
<1>1. 1 \in DOMAIN events /\ e = events[1] /\ e.path \in Path
  BY RestOfSeq DEF Sound, PathsInv, NewsInv
<1>2. disk[e.path] = Gone
  BY <1>1 DEF Sound, PairsInv, RemovedAreGone
<1> QED BY <1>1, <1>2 DEF Sound, PathsInv, IsATree

LEMMA DeliverKnows ==
    ASSUME Sound, KnowInv, Deliver
    PROVE  KnowInv'
<1>1. PICK e, q, ds, ac, tr :
         /\ e = Head(events) /\ q = [i \in DOMAIN calls |-> Waited(calls[i])]
         /\ ds = DocsAfter(e) /\ ac = active /\ tr = TreeAfter(e)
  OBVIOUS
<1>2. /\ events # <<>> /\ events' = Tail(events) /\ Become(ds, ac, tr, q)
      /\ disk' = disk /\ stamps' = stamps /\ notices' = notices
      /\ pending' = pending /\ expected' = expected
  BY <1>1 DEF Deliver, Waited, watcher
<1>3. IsSeq(q) /\ DOMAIN q = DOMAIN calls /\ \A i \in DOMAIN calls : q[i] = Waited(calls[i])
  BY <1>1, WaitedHandlers DEF Sound
<1>4. KeptCalls(q) /\ docs' = ds
  BY <1>2, <1>3, BecomeKeeps
<1>5. \A i \in DOMAIN calls : /\ q[i].kind = calls[i].kind /\ q[i].doc = calls[i].doc
                              /\ calls[i].kind # "refresh" => q[i] = calls[i]
  BY <1>3, WaitedSame
<1>6. \A n \in DOMAIN calls : calls[n].kind \in {"remap", "write", "reinspect"}
        => \E m \in DOMAIN calls' : calls'[m] = calls[n]
  <2>1. SUFFICES ASSUME NEW n \in DOMAIN calls, calls[n].kind \in {"remap", "write", "reinspect"}
                 PROVE  \E m \in DOMAIN calls' : calls'[m] = calls[n]
    OBVIOUS
  <2>2. n \in DOMAIN q /\ q[n].kind # "load" /\ q[n] = calls[n]
    BY <1>3, <1>5, <2>1
  <2> QED BY <1>4, <2>2 DEF KeptCalls
<1>7. \A n \in DOMAIN calls' : calls'[n].kind = "remap" => \E m \in DOMAIN calls : calls[m] = calls'[n]
  <2>1. SUFFICES ASSUME NEW n \in DOMAIN calls', calls'[n].kind = "remap"
                 PROVE  \E m \in DOMAIN calls : calls[m] = calls'[n]
    OBVIOUS
  <2>2. PICK i \in DOMAIN q : q[i] = calls'[n]
    BY <1>4, <2>1 DEF KeptCalls
  <2>3. i \in DOMAIN calls /\ q[i] = calls[i]
    BY <1>3, <1>5, <2>1, <2>2
  <2> QED BY <2>2, <2>3
<1>8. SameRemaps /\ Delivers
  BY <1>2, <1>6, <1>7 DEF SameRemaps, Delivers
<1>9. PairsInv'
  BY <1>8, DeliversPairs
<1>10. \A d : Mending(d) => Mending(d)'
  BY <1>6 DEF Mending
<1>11. \A j \in DOMAIN ds : \E i \in DOMAIN docs :
          ds[j] = Classified(docs[i], e) /\ ~Leaves(docs[i], e)
  BY <1>1, ClassifiedDocs DEF Sound
<1>12. ASSUME NEW j \in DOMAIN ds, NEW r, r = ds[j]
       PROVE  /\ KnownDoc(r)'
              /\ \E i \in DOMAIN docs :
                   /\ r.id = docs[i].id
                   /\ r.status = "editable" => docs[i].status = "editable" /\ r.source = docs[i].source
                   /\ r.path = IF e.kind = "rename" THEN Remap(e.path, e.to, docs[i].path)
                               ELSE docs[i].path
  <2>1. PICK i \in DOMAIN docs : r = Classified(docs[i], e) /\ ~Leaves(docs[i], e)
    BY <1>11, <1>12
  <2>2. PICK d : d = docs[i]
    OBVIOUS
  <2>3. ~Leaves(d, e) /\ r = Classified(d, e) /\ (Mending(d) => Mending(d)') /\ e = Head(events)
    BY <1>1, <1>10, <2>1, <2>2
  <2>4. KnownDoc(r)' /\ (r.status = "editable" => d.status = "editable" /\ r.source = d.source)
    BY <1>8, <2>2, <2>3, ClassifiedKnows
  <2>5. IsDoc(d)
    BY <2>2 DEF Sound, SessionsInv, AreApart
  <2>6. r.id = d.id /\ r.path = IF e.kind = "rename" THEN Remap(e.path, e.to, d.path) ELSE d.path
    BY <2>3, <2>5, PlaceClassified, ClassifiedStays
  <2> QED BY <2>2, <2>4, <2>6
<1>13. \A j \in DOMAIN ds : \A d : d = ds[j] => KnownDoc(d)'
  BY <1>12
<1>14. ASSUME NEW p \in Path, disk[p] # Gone, NEW i \in DOMAIN docs, docs[i].path = p
       PROVE  (IF e.kind = "rename" THEN Remap(e.path, e.to, docs[i].path) ELSE docs[i].path) = p
  <2>1. e = Head(events)
    BY <1>1
  <2>2. e.kind = "rename" => ~IsPrefix(e.path, p)
    BY <1>2, <1>14, <2>1, EventMovesNoFile
  <2> QED BY <1>14, <2>2 DEF Remap
<1>15. \A i, j \in DOMAIN docs : docs[i].id = docs[j].id => i = j
  BY DEF Sound, SessionsInv, AreApart
<1>16. ASSUME NEW n \in DOMAIN calls, NEW c, c = calls[n], c.kind # "load"
       PROVE  KnownCall(c)'
  <2>1. KnownCall(c)
    BY <1>16 DEF KnowInv
  <2>2. ASSUME Saves(c) PROVE Saves(c)'
    <3>1. PICK i \in DOMAIN docs :
            docs[i].id = c.doc.id /\ docs[i].shows # None /\ docs[i].path = c.doc.path
      BY <2>2 DEF Saves
    <3>2. ~Leaves(docs[i], e)
      <4>1. c.doc.path \in Path /\ disk[c.doc.path] # Gone
        BY <2>2, SoundTypes DEF Saves
      <4> QED BY <1>1, <1>2, <3>1, <4>1, EventRemovesNoFile DEF Leaves, Concerns
    <3>3. PICK j \in DOMAIN ds : ds[j] = Classified(docs[i], e)
      BY <1>1, <3>2, ClassifiedStay DEF Sound
    <3>9. ds[j].id = docs[i].id /\ ds[j].shows # None
      <4>1. IsDoc(docs[i])
        BY DEF Sound, SessionsInv, AreApart
      <4> QED BY <3>1, <3>3, <4>1 DEF IsDoc, Classified, Changed
    <3>4. PICK k \in DOMAIN docs :
            /\ ds[j].id = docs[k].id
            /\ ds[j].path = IF e.kind = "rename" THEN Remap(e.path, e.to, docs[k].path) ELSE docs[k].path
      BY <1>12
    <3>5. k = i
      BY <1>15, <3>9, <3>4
    <3>6. c.doc.path \in Path /\ disk[c.doc.path] # Gone
      BY <2>2, SoundTypes DEF Saves
    <3>7. ds[j].path = c.doc.path
      BY <1>14, <3>1, <3>4, <3>5, <3>6
    <3>8. j \in DOMAIN docs' /\ docs'[j] = ds[j]
      BY <1>4
    <3> QED BY <1>2, <2>2, <3>1, <3>7, <3>8, <3>9 DEF Saves
  <2>3. ASSUME \A i \in DOMAIN docs : docs[i].id = c.doc.id /\ docs[i].status = "editable"
                                        => docs[i].source = c.doc.source
        PROVE  (\A i \in DOMAIN docs : docs[i].id = c.doc.id /\ docs[i].status = "editable"
                                        => docs[i].source = c.doc.source)'
    <3>1. SUFFICES ASSUME NEW j \in DOMAIN docs', docs'[j].id = c.doc.id, docs'[j].status = "editable"
                   PROVE  docs'[j].source = c.doc.source
      OBVIOUS
    <3>2. j \in DOMAIN ds /\ docs'[j] = ds[j]
      BY <1>4
    <3>3. PICK k \in DOMAIN docs :
            /\ ds[j].id = docs[k].id
            /\ ds[j].status = "editable" => docs[k].status = "editable" /\ ds[j].source = docs[k].source
      BY <1>12, <3>2
    <3> QED BY <2>3, <3>1, <3>2, <3>3
  <2>4. ASSUME IsAt(c), c.doc.path \in Path, disk[c.doc.path] # Gone PROVE IsAt(c)'
    <3>1. SUFFICES ASSUME NEW j \in DOMAIN docs', docs'[j].id = c.doc.id
                   PROVE  docs'[j].path = c.doc.path
      BY DEF IsAt
    <3>2. j \in DOMAIN ds /\ docs'[j] = ds[j]
      BY <1>4
    <3>3. PICK k \in DOMAIN docs :
            /\ ds[j].id = docs[k].id
            /\ ds[j].path = IF e.kind = "rename" THEN Remap(e.path, e.to, docs[k].path) ELSE docs[k].path
      BY <1>12, <3>2
    <3>4. docs[k].path = c.doc.path
      BY <2>4, <3>1, <3>2, <3>3 DEF IsAt
    <3> QED BY <1>14, <2>4, <3>2, <3>3, <3>4
  <2>5. At(c.path)' = At(c.path) /\ At(c.doc.path)' = At(c.doc.path)
    BY <1>2 DEF At
  <2>6. c.kind = "reload" /\ c.reply \notin {Gone, Folder} =>
          IsAt(c) /\ c.doc.path \in Path /\ disk[c.doc.path] # Gone
    BY <2>1 DEF KnownCall, At
  <2> QED BY <1>2, <2>1, <2>2, <2>3, <2>4, <2>5, <2>6 DEF KnownCall
<1>17. HandledThen(q)
  <2>1. SUFFICES ASSUME NEW n \in DOMAIN q, NEW w, w = q[n], w.kind # "load"
                 PROVE  KnownCall(w)'
    BY DEF HandledThen
  <2>2. PICK c : c = calls[n]
    OBVIOUS
  <2>3. n \in DOMAIN calls /\ w = Waited(c)
    BY <1>3, <2>1, <2>2
  <2>4. /\ w.kind = c.kind /\ w.doc = c.doc /\ w.path = c.path
        /\ w.reply = c.reply /\ w.then = c.then
    BY <2>2, <2>3, WaitedSame
  <2>5. KnownCall(c)'
    BY <1>16, <2>1, <2>2, <2>3, <2>4
  <2> QED BY <2>4, <2>5 DEF KnownCall, Saves, IsAt
<1> QED BY <1>2, <1>3, <1>9, <1>13, <1>17, ScreenKnows

-----------------------------------------------------------------------------
(* The theorems                                                              *)

LEMMA RacesStay == [Next]_vars => races' = races
BY DEF vars, Next, Person, OpenEntry, OpenLink, CreateDocument, Rename, Move, Relocates, Trash, Save,
   CloseSaving, Close, Reload, RefreshWorkspace, Edit, PersonLeaves,
   Replies, Loaded, InspectionFindsAChange, Writes, Written, Saved, GoesOn, LinkRead, Created,
   Reloaded, Remapped, Trashed, Refreshed, ReplyLeaves,
   Watcher, NoticeSuppressed, NoticeOfChange, HalfGone, Paired, PairedTooLate, HalfAlone,
   HalfTimesOut, WriteForgotten, HalfThere, WatcherLeaves, Deliver,
   Others, OthersWrite, OthersCreate, OthersRemove, OthersRename, OthersMoveOut, OthersMoveIn, OthersDo,
   sent

LEMMA IdleKnows ==
    ASSUME Sound, KnowInv, UNCHANGED vars
    PROVE  KnowInv'
<1>1. /\ docs' = docs /\ active' = active /\ calls' = calls /\ disk' = disk /\ stamps' = stamps
      /\ notices' = notices /\ pending' = pending /\ events' = events /\ expected' = expected
  BY DEF vars, screen, watcher, sent
<1>2. StaysInPairs
  <2>1. SameRemaps /\ SameNewsOfDisk
    BY <1>1 DEF SameRemaps, SameNewsOfDisk, Suppresses
  <2> QED BY <2>1, QuietKnown
<1> QED BY <1>1, <1>2, NewsKnows

LEMMA KnowStep ==
    ASSUME TypesInv, SessionsInv, PathsHold, ShowHolds, KnowHolds, [Next]_vars
    PROVE  KnowHolds'
<1>1. SUFFICES ASSUME races' = {} PROVE KnowInv'
  BY DEF KnowHolds
<1>2. races = {}
  BY <1>1, RacesStay
<1>3. KnowInv
  BY <1>2 DEF KnowHolds
<1>4. races \cap {"meet", "overtake"} = {}
  BY <1>2
<1>5. Sound
  BY <1>2, <1>3, <1>4 DEF Sound, PathsHold, ShowHolds, KnowInv
<1>6. CASE UNCHANGED vars
  BY <1>3, <1>5, <1>6, IdleKnows
<1>7. CASE Deliver
  BY <1>3, <1>5, <1>7, DeliverKnows
<1>8. CASE Watcher /\ ~Deliver
  BY <1>3, <1>5, <1>8, ListeningKnows
<1> QED BY <1>3, <1>5, <1>6, <1>7, <1>8, PersonKnows, RepliesKnow, OthersKnow DEF Next

LEMMA InitKnows == Init => KnowHolds
<1> SUFFICES ASSUME Init PROVE KnowInv
  BY DEF KnowHolds
<1>1. /\ docs = <<>> /\ calls = <<>> /\ notices = <<>> /\ events = <<>>
  BY DEF Init
<1>2. DOMAIN docs = {} /\ DOMAIN calls = {} /\ DOMAIN notices = {} /\ DOMAIN events = {}
  BY <1>1
<1> QED BY <1>2 DEF KnowInv, PairsInv, RemovedAreGone, InPairs

(* Where nothing races, a session that may be edited knows the file at its   *)
(* path or is on the way to know it, and so is what was read for one that is *)
(* loading; a session that is being saved is still where its file is.        *)
THEOREM KnowledgeIsOnItsWay == Spec => []KnowHolds
<1>1. TypesInv /\ SessionsInv /\ PathsHold /\ ShowHolds /\ KnowHolds /\ [Next]_vars => KnowHolds'
  BY KnowStep
<1>2. TypesInv /\ SessionsInv /\ [Next]_vars => TypesInv'
  BY TypesStep
<1>3. Spec => []TypesInv
  BY <1>2, InitTypes, SessionsHold, PTL DEF Spec
<1> QED BY InitKnows, <1>1, <1>3, SessionsHold, PathsStayApart, WhatIsWrongIsToCome, PTL DEF Spec

(* When all is still, a session that may be edited knows the file at its     *)
(* path, and shows it if nothing was typed, unless something races.          *)
THEOREM TruthIsTold == Spec => []SessionsTellTheTruth
<1>1. KnowHolds => SessionsTellTheTruth
  <2> SUFFICES ASSUME KnowHolds, Quiet, races = {}, NEW i \in DOMAIN docs, docs[i].status = "editable"
               PROVE  /\ docs[i].source = At(docs[i].path)
                      /\ ~docs[i].dirty => docs[i].shows = At(docs[i].path)
    BY DEF SessionsTellTheTruth
  <2>1. PICK d : d = docs[i]
    OBVIOUS
  <2>2. KnownDoc(d)
    BY <2>1 DEF KnowHolds, KnowInv
  <2>3. DOMAIN notices = {} /\ DOMAIN events = {} /\ DOMAIN calls = {} /\ pending = None
    BY DEF Quiet
  <2>4. ~Mending(d)
    BY <2>3 DEF Mending
  <2>5. \A p, S : ~Warned(p, S)
    BY <2>3 DEF Warned
  <2>6. \A x, y : ~Passage(x, y)
    BY <2>3 DEF Passage, HalfOf
  <2>7. At(d.path) = d.source
    BY <2>1, <2>2, <2>4, <2>5, <2>6 DEF KnownDoc, WillKnow, Knows
  <2> QED BY <2>1, <2>2, <2>7 DEF KnownDoc
<1> QED BY KnowledgeIsOnItsWay, <1>1, PTL
=============================================================================
