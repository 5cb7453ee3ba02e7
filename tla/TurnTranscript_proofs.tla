----------------------- MODULE TurnTranscript_proofs -----------------------
(***************************************************************************)
(* The safety of one call of complete, for any positions, ids, pieces and  *)
(* attempts: what is shown is said, calls are kept whole, requests are     *)
(* bounded, and none is sent after the cancellation.  Then what a turn     *)
(* leaves on the screen, for any calls and rounds, and however the rounds  *)
(* and the runtimes fail: the transcript is what was said, it is settled   *)
(* when the turn completes, and no round of it loses a call.               *)
(***************************************************************************)
EXTENDS TurnTranscript, FiniteSetTheorems, SequenceTheorems, TLAPS

-----------------------------------------------------------------------------
(* One call of complete *)

Ids(s) == {s[n].id : n \in DOMAIN s}

(* Until an attempt streams, nothing of the call has been shown.             *)
NothingShownYet ==
    /\ phase \in {"check", "waiting", "backoff"} => shown = <<>> /\ announced = {}
    /\ phase = "waiting" => /\ ~visible /\ text = <<>> /\ calls = <<>>
                            /\ DOMAIN active = {}

(* What the stream has shown: without it a retry could follow a text.        *)
WhatIsShown ==
    /\ phase = "streaming" =>
          /\ shown = text
          /\ announced \subseteq DOMAIN active \cup Ids(calls)
          /\ ~visible => text = <<>> /\ announced = {}
    /\ result = "ok" => shown = text /\ announced \subseteq Ids(calls)
    /\ result # "none" <=> phase = "done"

(* The pieces of a call were sent for its position, and an id that a         *)
(* position has got is the one given to it.                                  *)
PiecesWereSent ==
    /\ IsFiniteSet(DOMAIN active)
    /\ \A id \in DOMAIN active : active[id] <= sent[id[1]]
    /\ \A i \in Index : toolIds[i] \in {None, Given(i)}

(* Requests sent, and the one that is about to be.                           *)
RequestsAreCounted ==
    /\ phase = "backoff" => attempt < MaxAttempts
    /\ requests + (IF phase = "check" THEN 1 ELSE 0)
        <= attempt + (IF strategy = "chat" THEN 1 ELSE 0)

StreamInv ==
    /\ TypeOK
    /\ NothingShownYet
    /\ WhatIsShown
    /\ PiecesWereSent
    /\ RequestsAreCounted

-----------------------------------------------------------------------------
(* All that is left over is among what is taken out of the map.              *)
LEMMA OrdersAreComplete ==
    ASSUME NEW S, IsFiniteSet(S), NEW s \in SetToSeqs(S)
    PROVE  s \in [1 .. Cardinality(S) -> S] /\ S = {s[n] : n \in DOMAIN s}
<1> DEFINE D == 1 .. Cardinality(S)
<1>1. Cardinality(S) \in Nat
  BY FS_CardinalityType
<1>2. IsFiniteSet(D) /\ Cardinality(D) = Cardinality(S)
  BY <1>1, FS_Interval
<1>3. s \in [D -> S] /\ s \in Injection(D, S)
  BY DEF SetToSeqs, Injection, IsInjective
<1>4. s \in Surjection(D, S)
  BY <1>2, <1>3, FS_Injection
<1> QED BY <1>3, <1>4 DEF Surjection

LEMMA InitInv == Init => StreamInv
<1> SUFFICES ASSUME Init PROVE StreamInv
  OBVIOUS
<1> USE DEF Init, NoTools
<1>1. IsFiniteSet(DOMAIN active) /\ DOMAIN active = {}
  BY FS_EmptySet
<1>2. TypeOK
  <2>1. text \in Seq(Pieces) /\ shown \in Seq(Pieces) /\ calls \in Seq([id : Id, whole : BOOLEAN])
    OBVIOUS
  <2>2. active \in [DOMAIN active -> 0 .. Fragments] /\ DOMAIN active \subseteq Id
    BY <1>1
  <2>3. toolIds \in [Index -> Id \cup {None}] /\ sent \in [Index -> 0 .. Fragments]
    BY StreamAssumption
  <2>4. /\ phase = "check" /\ strategy = "responses" /\ result = "none"
        /\ attempt \in 1 .. MaxAttempts /\ requests \in Nat /\ announced \subseteq Id
    BY StreamAssumption
  <2>5. visible \in BOOLEAN /\ cancelled \in BOOLEAN /\ cut \in BOOLEAN
    BY Zenon
  <2> QED BY <2>1, <2>2, <2>3, <2>4, <2>5 DEF TypeOK
<1>3. NothingShownYet /\ WhatIsShown
  BY <1>1 DEF NothingShownYet, WhatIsShown
<1>4. PiecesWereSent
  BY <1>1 DEF PiecesWereSent
<1>5. RequestsAreCounted
  BY StreamAssumption DEF RequestsAreCounted
<1> QED BY <1>2, <1>3, <1>4, <1>5 DEF StreamInv

-----------------------------------------------------------------------------
(* An attempt that fails leaves the call with nothing shown, or at its end.  *)
LEMMA AttemptFailsInv ==
    ASSUME StreamInv, phase \in {"waiting", "streaming"},
           NEW retryable, NEW unsupported, AttemptFails(retryable, unsupported)
    PROVE  StreamInv'
<1> USE DEF StreamInv, AttemptFails, Return, streamVars, ghostVars
<1>1. TypeOK'
  BY DEF TypeOK
<1>2. NothingShownYet' /\ WhatIsShown'
  BY DEF NothingShownYet, WhatIsShown, TypeOK, Ids
<1>3. PiecesWereSent'
  BY DEF PiecesWereSent
<1>4. RequestsAreCounted'
  BY DEF RequestsAreCounted, TypeOK
<1> QED BY <1>1, <1>2, <1>3, <1>4

(* The steps of the loop around the attempts.                                *)
LEMMA LoopInv ==
    ASSUME StreamInv, Attempt \/ BackoffOver \/ CancelSeen \/ Connected \/ EmitFails \/ Cancel
    PROVE  StreamInv'
<1> USE DEF StreamInv, Return, streamVars, ghostVars
<1>1. CASE Attempt
  <2> USE <1>1 DEF Attempt, NoTools
  <2>0. IsFiniteSet(DOMAIN active') /\ (~cancelled => DOMAIN active' = {})
    BY FS_EmptySet DEF PiecesWereSent
  <2>1. TypeOK'
    <3>1. active' \in [DOMAIN active' -> 0 .. Fragments] /\ DOMAIN active' \subseteq Id
      BY <2>0 DEF TypeOK
    <3>2. toolIds' \in [Index -> Id \cup {None}] /\ sent' \in [Index -> 0 .. Fragments]
      BY StreamAssumption DEF TypeOK
    <3>3. text' \in Seq(Pieces)
      <4>1. CASE cancelled
        BY <4>1 DEF TypeOK
      <4>2. CASE ~cancelled
        BY <4>2
      <4> QED BY <4>1, <4>2
    <3>4. calls' \in Seq([id : Id, whole : BOOLEAN])
      <4>1. CASE cancelled
        BY <4>1 DEF TypeOK
      <4>2. CASE ~cancelled
        BY <4>2
      <4> QED BY <4>1, <4>2
    <3>5. /\ phase' \in {"waiting", "done"} /\ result' \in {"none", "ok", "failed", "cancelled"}
          /\ requests' \in Nat
      BY DEF TypeOK
    <3>6. visible' \in BOOLEAN /\ cut' \in BOOLEAN
      BY Zenon DEF TypeOK
    <3>7. UNCHANGED <<strategy, attempt, cancelled, shown, announced>>
      OBVIOUS
    <3> QED BY <3>1, <3>2, <3>3, <3>4, <3>5, <3>6, <3>7 DEF TypeOK
  <2>2. NothingShownYet' /\ WhatIsShown'
    BY <2>0 DEF NothingShownYet, WhatIsShown, TypeOK, Ids
  <2>3. PiecesWereSent'
    BY <2>0 DEF PiecesWereSent
  <2>4. RequestsAreCounted'
    BY DEF RequestsAreCounted, TypeOK
  <2> QED BY <2>1, <2>2, <2>3, <2>4
<1>2. CASE BackoffOver
  <2> USE <1>2 DEF BackoffOver
  <2>1. TypeOK'
    <3>1. attempt' \in 1 .. MaxAttempts
      BY StreamAssumption DEF TypeOK, RequestsAreCounted
    <3> QED BY <3>1 DEF TypeOK
  <2>2. NothingShownYet' /\ WhatIsShown'
    BY DEF NothingShownYet, WhatIsShown
  <2>3. PiecesWereSent'
    BY DEF PiecesWereSent
  <2>4. RequestsAreCounted'
    BY DEF RequestsAreCounted, TypeOK
  <2> QED BY <2>1, <2>2, <2>3, <2>4
<1>3. CASE CancelSeen \/ Connected \/ EmitFails \/ Cancel
  <2> USE <1>3 DEF CancelSeen, Connected, EmitFails, Cancel
  <2>1. TypeOK'
    BY DEF TypeOK
  <2>2. NothingShownYet'
    BY DEF NothingShownYet
  <2>3. WhatIsShown'
    <3>1. Ids(calls)' = Ids(calls)
      BY DEF Ids
    <3> QED BY <3>1 DEF NothingShownYet, WhatIsShown
  <2>4. PiecesWereSent'
    BY DEF PiecesWereSent
  <2>5. RequestsAreCounted'
    BY DEF RequestsAreCounted, TypeOK
  <2> QED BY <2>1, <2>2, <2>3, <2>4, <2>5
<1> QED BY <1>1, <1>2, <1>3
-----------------------------------------------------------------------------
(* What every event of a stream leaves to be shown of it.                    *)
LEMMA EventInv ==
    ASSUME StreamInv, phase = "streaming",
           UNCHANGED <<phase, strategy, attempt, result, requests>>, TypeOK',
           shown' = text', announced' \subseteq DOMAIN active' \cup Ids(calls'),
           ~visible' => text' = <<>> /\ announced' = {}, PiecesWereSent'
    PROVE  StreamInv'
BY DEF StreamInv, NothingShownYet, WhatIsShown, RequestsAreCounted

(* Text and activity.                                                        *)
LEMMA TextInv ==
    ASSUME StreamInv, (\E piece \in Pieces : TextDelta(piece)) \/ ActivityDelta
    PROVE  StreamInv'
<1> USE DEF StreamInv, TextDelta, ActivityDelta, Reading
<1>1. TypeOK'
  <2>1. text' \in Seq(Pieces) /\ shown' \in Seq(Pieces)
    <3>1. CASE ActivityDelta
      BY <3>1 DEF TypeOK
    <3>2. ASSUME NEW piece \in Pieces, TextDelta(piece)
          PROVE  text' \in Seq(Pieces) /\ shown' \in Seq(Pieces)
      BY <3>2 DEF TypeOK
    <3> QED BY <3>1, <3>2
  <2> QED BY <2>1 DEF TypeOK
<1>2. PiecesWereSent'
  BY DEF PiecesWereSent
<1>3. Ids(calls') = Ids(calls)
  OBVIOUS
<1> QED BY <1>1, <1>2, <1>3, EventInv DEF WhatIsShown

(* Items of Responses.                                                       *)
LEMMA ItemInv ==
    ASSUME StreamInv, NEW i \in Index, NEW named \in BOOLEAN,
           ToolStarted(i, named) \/ ToolCompleted(i, named)
    PROVE  StreamInv'
<1> USE DEF StreamInv, Reading
<1> DEFINE item == ItemId(i, named)
<1>0. item \in Id /\ item[1] = i
  BY DEF ItemId, Given, Indexed, Id
<1> HIDE DEF item
<1>1. CASE ToolStarted(i, named)
  <2> USE <1>1 DEF ToolStarted, ProviderSends, Announce, item
  <2>1. /\ DOMAIN active' = DOMAIN active \cup {item}
        /\ active' = [x \in DOMAIN active \cup {item} |->
                        IF x \in DOMAIN active THEN active[x] ELSE 0]
        /\ announced' \in {announced, announced \cup {item}}
    OBVIOUS
  <2> HIDE DEF item
  <2>2. TypeOK'
    <3>1. active' \in [DOMAIN active' -> 0 .. Fragments] /\ DOMAIN active' \subseteq Id
      BY ONLY <1>0, <2>1, StreamAssumption, TypeOK DEF TypeOK
    <3>2. sent' \in [Index -> 0 .. Fragments]
      BY StreamAssumption DEF TypeOK
    <3>3. announced' \subseteq Id
      BY <1>0, <2>1 DEF TypeOK
    <3> QED BY <3>1, <3>2, <3>3 DEF TypeOK
  <2>3. PiecesWereSent'
    <3>1. IsFiniteSet(DOMAIN active')
      BY <2>1, FS_AddElement DEF PiecesWereSent
    <3>2. \A id \in DOMAIN active' : active'[id] <= sent'[id[1]]
      BY <1>0, <2>2 DEF PiecesWereSent, TypeOK, Id
    <3> QED BY <3>1, <3>2 DEF PiecesWereSent
  <2> QED BY <2>1, <2>2, <2>3, EventInv DEF WhatIsShown
<1>2. CASE ToolCompleted(i, named)
  <2> USE <1>2 DEF ToolCompleted, item
  <2>1. /\ DOMAIN active' = DOMAIN active \ {item}
        /\ announced' = announced \cup {item}
    OBVIOUS
  <2>2. TypeOK'
    BY <1>0, StreamAssumption DEF TypeOK
  <2>3. Ids(calls') = Ids(calls) \cup {item}
    <3> DEFINE new == [id |-> item, whole |-> TRUE]
    <3>1. /\ calls \in Seq([id : Id, whole : BOOLEAN]) /\ new \in [id : Id, whole : BOOLEAN]
          /\ calls' = Append(calls, new)
      BY <1>0 DEF TypeOK
    <3> HIDE DEF new
    <3>2. /\ DOMAIN calls' = DOMAIN calls \cup {Len(calls) + 1}
          /\ \A n \in DOMAIN calls : calls'[n] = calls[n]
          /\ calls'[Len(calls) + 1] = new
      BY <3>1
    <3>3. new.id = item
      BY DEF new
    <3> QED BY <3>2, <3>3 DEF Ids
  <2> HIDE DEF item
  <2>4. PiecesWereSent'
    <3>1. IsFiniteSet(DOMAIN active')
      BY <2>1, FS_RemoveElement DEF PiecesWereSent
    <3>2. \A id \in DOMAIN active' : active'[id] <= sent'[id[1]]
      BY <1>0, <2>2 DEF PiecesWereSent, TypeOK, Id
    <3> QED BY <3>1, <3>2 DEF PiecesWereSent
  <2> QED BY <2>1, <2>2, <2>3, <2>4, EventInv DEF WhatIsShown
<1> QED BY <1>1, <1>2

(* Deltas of Chat Completions.                                               *)
LEMMA DeltaInv ==
    ASSUME StreamInv, NEW i \in Index,
           PassedOver(i) \/ \E named \in BOOLEAN : ToolArgumentsDelta(i, named)
    PROVE  StreamInv'
<1> USE DEF StreamInv, Reading, ProviderSends
<1>0. sent[i] \in 0 .. Fragments
  BY DEF TypeOK
<1>1. CASE PassedOver(i)
  <2> USE <1>1 DEF PassedOver, ghostVars
  <2>1. TypeOK'
    BY <1>0, StreamAssumption DEF TypeOK
  <2>2. PiecesWereSent'
    BY <1>0 DEF PiecesWereSent, TypeOK, Id
  <2> QED BY <2>1, <2>2, EventInv DEF WhatIsShown
<1>2. ASSUME NEW named \in BOOLEAN, ToolArgumentsDelta(i, named)
      PROVE  StreamInv'
  <2> USE <1>2 DEF ToolArgumentsDelta, Announce
  <2> DEFINE id0 == CallOf(i, named)
  <2>1. id0 \in Id /\ id0[1] = i
    BY DEF CallOf, PiecesWereSent, Given, Made, Id
  <2>2. /\ DOMAIN active' = DOMAIN active \cup {id0}
        /\ \A id \in DOMAIN active' : active'[id] =
              (IF id \in DOMAIN active THEN active[id] ELSE 0) + (IF id = id0 THEN 1 ELSE 0)
    OBVIOUS
  <2> HIDE DEF id0
  <2>3. sent'[i] = sent[i] + 1 /\ sent'[i] \in 0 .. Fragments
    BY <1>0, StreamAssumption DEF TypeOK
  <2>4. \A id \in DOMAIN active' : active'[id] \in Nat /\ active'[id] <= sent'[id[1]]
    <3> SUFFICES ASSUME NEW id \in DOMAIN active'
                 PROVE  active'[id] \in Nat /\ active'[id] <= sent'[id[1]]
      OBVIOUS
    <3>1. id \in Id /\ id[1] \in Index
      BY <2>1, <2>2 DEF TypeOK, Id
    <3>2. sent'[id[1]] = IF id[1] = i THEN sent[i] + 1 ELSE sent[id[1]]
      BY <3>1 DEF TypeOK
    <3>3. sent[id[1]] \in Nat
      BY <3>1 DEF TypeOK
    <3>4. id \in DOMAIN active => active[id] \in Nat /\ active[id] <= sent[id[1]]
      BY DEF TypeOK, PiecesWereSent
    <3>5. active'[id] = (IF id \in DOMAIN active THEN active[id] ELSE 0)
                        + (IF id = id0 THEN 1 ELSE 0)
      BY <2>2
    <3>6. id \in DOMAIN active \/ id = id0
      BY <2>2
    <3> QED BY ONLY <2>1, <3>2, <3>3, <3>4, <3>5, <3>6
  <2>5. active' \in [DOMAIN active' -> 0 .. Fragments] /\ DOMAIN active' \subseteq Id
    <3>1. sent' \in [Index -> 0 .. Fragments]
      BY <2>3 DEF TypeOK
    <3>2. \A id \in DOMAIN active' : active'[id] \in 0 .. Fragments
      <4> SUFFICES ASSUME NEW id \in DOMAIN active' PROVE active'[id] \in 0 .. Fragments
        OBVIOUS
      <4>1. id[1] \in Index
        BY <2>1, <2>2 DEF TypeOK, Id
      <4>2. sent'[id[1]] \in 0 .. Fragments
        BY <3>1, <4>1
      <4>3. active'[id] \in Nat /\ active'[id] <= sent'[id[1]]
        BY <2>4
      <4> QED BY ONLY <4>2, <4>3, StreamAssumption
    <3>3. active' = [id \in DOMAIN active' |-> active'[id]]
      BY <2>2
    <3> QED BY ZenonT(40), <2>1, <2>2, <3>2, <3>3 DEF TypeOK
  <2>6. TypeOK'
    BY SMTT(20), <2>3, <2>5 DEF TypeOK, Given, Id
  <2>7. PiecesWereSent'
    <3>1. IsFiniteSet(DOMAIN active')
      BY <2>2, FS_AddElement DEF PiecesWereSent
    <3>2. \A j \in Index : toolIds'[j] \in {None, Given(j)}
      BY DEF PiecesWereSent, TypeOK
    <3> QED BY <2>4, <3>1, <3>2 DEF PiecesWereSent
  <2>8. announced' \subseteq DOMAIN active' \cup Ids(calls')
    BY <2>2 DEF WhatIsShown, id0
  <2> QED BY <2>6, <2>7, <2>8, EventInv DEF WhatIsShown
<1> QED BY <1>1, <1>2

(* The end of a stream takes all that is left over.                          *)
LEMMA EndInv ==
    ASSUME StreamInv, NEW leftover \in SetToSeqs(DOMAIN active), StreamEnds(leftover)
    PROVE  StreamInv'
<1> DEFINE rest == [n \in DOMAIN leftover |-> Parsed(leftover[n])]
           all == calls \o rest
<1> USE DEF StreamInv
<1>1. IsFiniteSet(DOMAIN active)
  BY DEF PiecesWereSent
<1>2. /\ leftover \in [1 .. Cardinality(DOMAIN active) -> DOMAIN active]
      /\ DOMAIN active = {leftover[n] : n \in DOMAIN leftover}
  <2> DEFINE D == DOMAIN active
  <2>1. IsFiniteSet(D) /\ leftover \in SetToSeqs(D)
    BY <1>1
  <2> HIDE DEF D
  <2>2. leftover \in [1 .. Cardinality(D) -> D] /\ D = {leftover[n] : n \in DOMAIN leftover}
    BY <2>1, OrdersAreComplete
  <2> QED BY <2>2 DEF D
<1>a. Cardinality(DOMAIN active) \in Nat
  BY <1>1, FS_CardinalityType
<1>3. rest \in Seq([id : Id, whole : BOOLEAN])
  <2>1. \A n \in DOMAIN leftover : Parsed(leftover[n]) \in [id : Id, whole : BOOLEAN]
    BY <1>2 DEF Parsed, TypeOK
  <2> HIDE DEF StreamInv
  <2>2. rest \in [1 .. Cardinality(DOMAIN active) -> [id : Id, whole : BOOLEAN]]
    BY <1>2, <2>1
  <2> HIDE DEF rest
  <2> QED BY <1>a, <2>2, SeqDef
<1>4. calls \in Seq([id : Id, whole : BOOLEAN])
  BY DEF TypeOK
<1>5. Ids(rest) = DOMAIN active
  BY <1>2 DEF Ids, Parsed
<1> HIDE DEF rest
<1>6. Ids(all) = Ids(calls) \cup Ids(rest)
  <2>1. Len(calls) \in Nat /\ Len(rest) \in Nat
    BY <1>3, <1>4
  <2>2. /\ DOMAIN all = 1 .. Len(calls) + Len(rest)
        /\ \A n \in DOMAIN calls : n \in DOMAIN all /\ all[n] = calls[n]
        /\ \A n \in DOMAIN rest : Len(calls) + n \in DOMAIN all /\ all[Len(calls) + n] = rest[n]
    BY <1>3, <1>4
  <2>3. ASSUME NEW n \in DOMAIN all
        PROVE  n \in DOMAIN calls \/ (n - Len(calls) \in DOMAIN rest /\ n = Len(calls) + (n - Len(calls)))
    BY <1>3, <1>4, <2>1, <2>2
  <2> HIDE DEF all
  <2> QED BY <2>2, <2>3 DEF Ids
<1>7. CASE "word" \notin Range(text) /\ all = <<>>
  BY <1>7, AttemptFailsInv DEF StreamEnds, rest
<1>8. CASE ~("word" \notin Range(text) /\ all = <<>>)
  <2>1. /\ phase' = "done" /\ result' = "ok" /\ calls' = all /\ cut' \in BOOLEAN
        /\ phase = "streaming"
        /\ UNCHANGED <<strategy, attempt, text, visible, active, toolIds, sent,
                       cancelled, shown, announced, requests>>
    BY <1>8 DEF StreamEnds, Return, ghostVars, rest, TypeOK
  <2>2. all \in Seq([id : Id, whole : BOOLEAN])
    BY <1>3, <1>4
  <2> HIDE DEF all
  <2>3. TypeOK'
    BY <2>1, <2>2 DEF TypeOK
  <2>4. NothingShownYet' /\ WhatIsShown'
    BY <1>5, <1>6, <2>1 DEF NothingShownYet, WhatIsShown
  <2>5. PiecesWereSent' /\ RequestsAreCounted'
    BY <2>1 DEF PiecesWereSent, RequestsAreCounted
  <2> QED BY <2>3, <2>4, <2>5
<1> QED BY <1>7, <1>8

-----------------------------------------------------------------------------
(* Every step keeps the invariant of a call of complete.                     *)
LEMMA StepInv == ASSUME StreamInv, [Next]_vars PROVE StreamInv'
<1>1. CASE HttpFails \/ NotAStream \/ ErrorEvent \/ InvalidEvent \/ TransportFails
  BY <1>1, AttemptFailsInv DEF HttpFails, NotAStream, ErrorEvent, InvalidEvent, TransportFails
<1>2. CASE Attempt \/ BackoffOver \/ CancelSeen \/ Connected \/ EmitFails \/ Cancel
  BY <1>2, LoopInv
<1>3. CASE Event
  BY <1>3, TextInv, ItemInv, DeltaInv DEF Event
<1>4. CASE \E leftover \in SetToSeqs(DOMAIN active) : StreamEnds(leftover)
  BY <1>4, EndInv
<1>5. CASE UNCHANGED vars
  BY <1>5 DEF vars, streamVars, ghostVars, StreamInv, TypeOK, NothingShownYet,
              WhatIsShown, PiecesWereSent, RequestsAreCounted, Ids
<1> QED BY <1>1, <1>2, <1>3, <1>4, <1>5 DEF Next

(* The invariant of a call of complete.                                      *)
THEOREM Invariant == Spec => []StreamInv
<1>1. StreamInv /\ [Next]_vars => StreamInv'
  BY StepInv
<1> QED BY <1>1, InitInv, PTL DEF Spec

(* Every variable of the call and of its stream keeps its type.              *)
THEOREM TypeCorrect == Spec => []TypeOK
<1>1. StreamInv => TypeOK
  BY DEF StreamInv
<1> QED BY <1>1, Invariant, PTL

(* What complete has shown is what it returns: no text is shown twice.       *)
THEOREM WhatIsShownIsSaid == Spec => []ShownIsSaid
<1>1. StreamInv => ShownIsSaid
  BY DEF StreamInv, WhatIsShown, ShownIsSaid
<1> QED BY <1>1, Invariant, PTL

(* Every call that was announced is among those that complete returns, also  *)
(* when its stream was cut.                                                  *)
THEOREM AnnouncedIsMade == Spec => []AnnouncedCallsAreMade
<1>1. StreamInv => AnnouncedCallsAreMade
  BY DEF StreamInv, WhatIsShown, AnnouncedCallsAreMade, Ids
<1> QED BY <1>1, Invariant, PTL

(* The retry policy and the one fallback bound the requests.                 *)
THEOREM BoundedRequests == Spec => []RequestsAreBounded
<1>1. StreamInv => RequestsAreBounded
  BY DEF StreamInv, RequestsAreCounted, RequestsAreBounded, TypeOK
<1> QED BY <1>1, Invariant, PTL

(* A cancelled run sends no request: not after a backoff, and not with the   *)
(* other strategy.                                                           *)
THEOREM CancelledSendsNothing == Spec => NoRequestOnceCancelled
<1>1. [Next]_vars => [cancelled => requests' = requests]_vars
  <2> SUFFICES ASSUME Next, cancelled PROVE requests' = requests
    BY DEF vars, streamVars, ghostVars
  <2> USE DEF streamVars, ghostVars, AttemptFails
  <2>1. CASE Attempt \/ BackoffOver \/ CancelSeen \/ Connected \/ EmitFails \/ Cancel
    BY <2>1 DEF Attempt, BackoffOver, CancelSeen, Connected, EmitFails, Cancel
  <2>2. CASE HttpFails \/ NotAStream \/ ErrorEvent \/ InvalidEvent \/ TransportFails
    BY <2>2 DEF HttpFails, NotAStream, ErrorEvent, InvalidEvent, TransportFails
  <2>3. CASE Event
    BY <2>3 DEF Event, TextDelta, ActivityDelta, ToolStarted, ToolCompleted,
                ToolArgumentsDelta, PassedOver, Reading
  <2>4. CASE \E leftover \in SetToSeqs(DOMAIN active) : StreamEnds(leftover)
    BY <2>4 DEF StreamEnds
  <2> QED BY <2>1, <2>2, <2>3, <2>4 DEF Next
<1> QED BY <1>1, PTL DEF Spec, NoRequestOnceCancelled

-----------------------------------------------------------------------------
(* How far an answer is: the positions whose calls have begun, and those     *)
(* whose pieces have all been sent.                                          *)
BegunAt == {i \in Index : sent[i] > 0}
SentWhole == {i \in Index : sent[i] = Fragments}
NameAt(i) == IF i \in Named THEN Given(i) ELSE Made(i)

(* Responses: what is done is returned, the rest is in the map, under one id *)
(* for each position; what is done leaves the map if it kept its id.         *)
ItemsAssembled ==
    phase = "streaming" /\ strategy = "responses" =>
        /\ IsFiniteSet(SentWhole) /\ Len(calls) = Cardinality(SentWhole)
        /\ \A n \in DOMAIN calls : calls[n].whole
        /\ \A i \in SentWhole : \E n \in DOMAIN calls : calls[n].id[1] = i
        /\ \A id \in DOMAIN active : id[1] \in BegunAt
        /\ \A id, other \in DOMAIN active : id[1] = other[1] => id = other
        /\ ~cut => \A id \in DOMAIN active : id[1] \notin SentWhole

(* Chat Completions: everything is in the map, under one name per position.  *)
DeltasAssembled ==
    phase = "streaming" /\ strategy = "chat" =>
        /\ calls = <<>>
        /\ ~cut =>
             /\ DOMAIN active = {NameAt(i) : i \in BegunAt}
             /\ \A i \in BegunAt : active[NameAt(i)] = sent[i]
             /\ \A i \in Index :
                  toolIds[i] = IF i \in BegunAt \cap Named THEN Given(i) ELSE None

(* An attempt begins with nothing.                                           *)
NothingSentYet ==
    phase = "waiting" => \A i \in Index : sent[i] = 0 /\ toolIds[i] = None

Assembled == ItemsAssembled /\ DeltasAssembled /\ NothingSentYet /\ CallsAreWhole

(* Outside a stream there is nothing to be assembled.                        *)
LEMMA LoopAssembles ==
    ASSUME StreamInv, Assembled,
           \/ Attempt \/ BackoffOver \/ CancelSeen \/ Connected \/ EmitFails \/ Cancel
           \/ \E r, u \in BOOLEAN : phase \in {"waiting", "streaming"} /\ AttemptFails(r, u)
    PROVE  Assembled'
<1> USE DEF Assembled, Return, streamVars, ghostVars
<1>0. result # "none" <=> phase = "done"
  BY DEF StreamInv, WhatIsShown
<1>1. CASE Attempt
  BY <1>0, <1>1 DEF Attempt, ItemsAssembled, DeltasAssembled, NothingSentYet, CallsAreWhole
<1>2. CASE BackoffOver \/ CancelSeen \/ EmitFails
  BY <1>0, <1>2 DEF BackoffOver, CancelSeen, EmitFails,
        ItemsAssembled, DeltasAssembled, NothingSentYet, CallsAreWhole
<1>3. CASE \E r, u \in BOOLEAN : phase \in {"waiting", "streaming"} /\ AttemptFails(r, u)
  BY <1>0, <1>3 DEF AttemptFails,
        ItemsAssembled, DeltasAssembled, NothingSentYet, CallsAreWhole
<1>4. CASE Cancel
  BY <1>4 DEF Cancel, ItemsAssembled, DeltasAssembled, NothingSentYet, CallsAreWhole,
        SentWhole, BegunAt
<1>5. CASE Connected
  <2> USE <1>5 DEF Connected
  <2>1. \A i \in Index : sent[i] = 0 /\ toolIds[i] = None
    BY DEF NothingSentYet
  <2>2. SentWhole = {} /\ BegunAt = {}
    BY <2>1, StreamAssumption DEF SentWhole, BegunAt
  <2>3. calls = <<>> /\ DOMAIN active = {}
    BY DEF StreamInv, NothingShownYet
  <2>4. SentWhole' = SentWhole /\ BegunAt' = BegunAt
    BY DEF SentWhole, BegunAt
  <2>5. ItemsAssembled'
    BY <2>2, <2>3, <2>4, FS_EmptySet DEF ItemsAssembled
  <2>6. DeltasAssembled'
    BY <2>1, <2>2, <2>3, <2>4 DEF DeltasAssembled
  <2> QED BY <1>0, <2>5, <2>6 DEF NothingSentYet, CallsAreWhole
<1> QED BY <1>1, <1>2, <1>3, <1>4, <1>5

(* Items of Responses.                                                       *)
LEMMA ItemAssembles ==
    ASSUME StreamInv, Assembled, NEW i \in Index, NEW named \in BOOLEAN,
           ToolStarted(i, named) \/ ToolCompleted(i, named)
    PROVE  Assembled'
<1> USE DEF Assembled, Reading
<1> DEFINE item == ItemId(i, named)
<1>0. /\ phase = "streaming" /\ strategy = "responses" /\ result = "none"
      /\ UNCHANGED <<phase, strategy, result>>
  BY DEF ToolStarted, ToolCompleted, StreamInv, WhatIsShown
<1>1. sent \in [Index -> 0 .. Fragments] /\ calls \in Seq([id : Id, whole : BOOLEAN])
  BY DEF StreamInv, TypeOK
<1>2. item \in Id /\ item[1] = i
  BY DEF ItemId, Given, Indexed, Id
<1> HIDE DEF item
<1>3. CASE ToolStarted(i, named)
  <2>1. \A j \in Index : sent'[j] = IF j = i THEN 1 ELSE sent[j]
    BY <1>1, <1>3 DEF ToolStarted, ProviderSends
  <2>2. SentWhole' = SentWhole /\ BegunAt' = BegunAt \cup {i} /\ i \notin SentWhole
        /\ i \notin BegunAt
    BY <1>1, <1>3, <2>1, StreamAssumption DEF SentWhole, BegunAt, ToolStarted
  <2>3. DOMAIN active' = DOMAIN active \cup {item} /\ calls' = calls /\ cut' = cut
    BY <1>3 DEF ToolStarted, item
  <2>4. /\ \A id \in DOMAIN active' : id[1] \in BegunAt'
        /\ \A id, other \in DOMAIN active' : id[1] = other[1] => id = other
        /\ ~cut' => \A id \in DOMAIN active' : id[1] \notin SentWhole'
    BY <1>0, <1>2, <2>2, <2>3 DEF ItemsAssembled
  <2>5. ItemsAssembled'
    BY <1>0, <2>2, <2>3, <2>4 DEF ItemsAssembled
  <2> QED BY <1>0, <2>5 DEF DeltasAssembled, NothingSentYet, CallsAreWhole
<1>4. CASE ToolCompleted(i, named)
  <2>1. \A j \in Index : sent'[j] = IF j = i THEN Fragments ELSE sent[j]
    BY <1>1, <1>4 DEF ToolCompleted
  <2>2. SentWhole' = SentWhole \cup {i} /\ BegunAt' = BegunAt \cup {i}
        /\ i \notin SentWhole
    BY <1>1, <1>4, <2>1, StreamAssumption DEF SentWhole, BegunAt, ToolCompleted
  <2>3. /\ DOMAIN active' = DOMAIN active \ {item}
        /\ cut' = (cut \/ (sent[i] > 0 /\ item \notin DOMAIN active))
    BY <1>4 DEF ToolCompleted, item
  <2>4. /\ \A id \in DOMAIN active' : id[1] \in BegunAt'
        /\ \A id, other \in DOMAIN active' : id[1] = other[1] => id = other
        /\ ~cut' => \A id \in DOMAIN active' : id[1] \notin SentWhole'
    <3>1. /\ \A id \in DOMAIN active : id[1] \in BegunAt
          /\ \A id, other \in DOMAIN active : id[1] = other[1] => id = other
          /\ ~cut => \A id \in DOMAIN active : id[1] \notin SentWhole
      BY <1>0 DEF ItemsAssembled
    <3>2. ASSUME ~cut', NEW id \in DOMAIN active' PROVE id[1] # i
      <4>1. id \in DOMAIN active /\ id # item
        BY <2>3, <3>2
      <4>2. CASE sent[i] > 0
        <5>1. item \in DOMAIN active
          BY <2>3, <3>2, <4>2
        <5> QED BY <1>2, <3>1, <4>1, <5>1
      <4>3. CASE ~(sent[i] > 0)
        BY <3>1, <4>1, <4>3 DEF BegunAt
      <4> QED BY <4>2, <4>3
    <3>3. ~cut' => ~cut
      BY <2>3
    <3> QED BY <2>2, <2>3, <3>1, <3>2, <3>3
  <2> DEFINE new == [id |-> item, whole |-> TRUE]
  <2>5. calls' = Append(calls, new) /\ new \in [id : Id, whole : BOOLEAN]
        /\ new.whole /\ new.id[1] = i
    BY <1>2, <1>4 DEF ToolCompleted, item
  <2> HIDE DEF new
  <2>6. /\ Len(calls) \in Nat /\ Len(calls') = Len(calls) + 1
        /\ DOMAIN calls' = DOMAIN calls \cup {Len(calls) + 1}
        /\ \A n \in DOMAIN calls : calls'[n] = calls[n]
        /\ calls'[Len(calls) + 1] = new
    BY <1>1, <2>5
  <2>7. IsFiniteSet(SentWhole') /\ Cardinality(SentWhole') = Cardinality(SentWhole) + 1
    BY <1>0, <2>2, FS_AddElement DEF ItemsAssembled
  <2>8. Len(calls') = Cardinality(SentWhole')
    BY <1>0, <2>6, <2>7 DEF ItemsAssembled
  <2>9. /\ \A n \in DOMAIN calls' : calls'[n].whole
        /\ \A j \in SentWhole' : \E n \in DOMAIN calls' : calls'[n].id[1] = j
    BY <1>0, <2>2, <2>5, <2>6 DEF ItemsAssembled
  <2>10. ItemsAssembled'
    BY <2>4, <2>7, <2>8, <2>9 DEF ItemsAssembled
  <2> QED BY <1>0, <2>10 DEF DeltasAssembled, NothingSentYet, CallsAreWhole
<1> QED BY <1>3, <1>4

(* Deltas of Chat Completions.                                               *)
LEMMA DeltaAssembles ==
    ASSUME StreamInv, Assembled, NEW i \in Index,
           PassedOver(i) \/ \E named \in BOOLEAN : ToolArgumentsDelta(i, named)
    PROVE  Assembled'
<1> USE DEF Assembled, Reading
<1>0. /\ phase = "streaming" /\ strategy = "chat" /\ result = "none"
      /\ UNCHANGED <<phase, strategy, result>>
  BY DEF PassedOver, ToolArgumentsDelta, StreamInv, WhatIsShown
<1>1. sent \in [Index -> 0 .. Fragments]
  BY DEF StreamInv, TypeOK
<1>2. CASE PassedOver(i)
  BY <1>0, <1>2 DEF PassedOver, ItemsAssembled, DeltasAssembled, NothingSentYet, CallsAreWhole
<1>3. ASSUME NEW named \in BOOLEAN, ToolArgumentsDelta(i, named)
      PROVE  Assembled'
  <2> USE <1>3 DEF ToolArgumentsDelta, ProviderSends
  <2>1. calls' = <<>>
    BY <1>0 DEF DeltasAssembled
  <2>2. ASSUME ~cut'
        PROVE  /\ DOMAIN active' = {NameAt(j) : j \in BegunAt'}
               /\ \A j \in BegunAt' : active'[NameAt(j)] = sent'[j]
               /\ \A j \in Index :
                    toolIds'[j] = IF j \in BegunAt' \cap Named THEN Given(j) ELSE None
    <3>0. /\ DOMAIN active = {NameAt(j) : j \in BegunAt}
          /\ \A j \in BegunAt : active[NameAt(j)] = sent[j]
          /\ \A j \in Index :
               toolIds[j] = IF j \in BegunAt \cap Named THEN Given(j) ELSE None
      BY <1>0, <2>2 DEF DeltasAssembled
    <3>1. \A j \in Index : sent'[j] = IF j = i THEN sent[i] + 1 ELSE sent[j]
      BY <1>1
    <3>2. BegunAt' = BegunAt \cup {i} /\ (i \in BegunAt <=> sent[i] > 0)
      BY <1>1, <3>1 DEF BegunAt
    <3>3. \A j \in Index : Given(j) # None
      BY DEF Given, None
    <3>4. CallOf(i, named) = NameAt(i)
      BY <1>1, <3>0, <3>2, <3>3 DEF CallOf, NameAt
    <3>5. \A j, k \in Index : NameAt(j) = NameAt(k) => j = k
      BY DEF NameAt, Given, Made
    <3>6. /\ DOMAIN active' = DOMAIN active \cup {NameAt(i)}
          /\ \A id \in DOMAIN active' : active'[id] =
                (IF id \in DOMAIN active THEN active[id] ELSE 0)
                + (IF id = NameAt(i) THEN 1 ELSE 0)
      BY <3>4
    <3>7. DOMAIN active' = {NameAt(j) : j \in BegunAt'}
      BY <3>0, <3>2, <3>6
    <3>8. ASSUME NEW j \in BegunAt' PROVE active'[NameAt(j)] = sent'[j]
      <4>1. j \in Index /\ NameAt(j) \in DOMAIN active'
        BY <3>2, <3>7 DEF BegunAt
      <4>2. sent[i] \in Nat /\ sent[j] \in Nat
        BY <1>1, <4>1
      <4>3. CASE j = i
        <5>1. (IF NameAt(i) \in DOMAIN active THEN active[NameAt(i)] ELSE 0) = sent[i]
          <6>1. CASE i \in BegunAt
            BY <3>0, <6>1
          <6>2. CASE i \notin BegunAt
            BY <3>0, <3>2, <3>5, <4>2, <6>2 DEF BegunAt
          <6> QED BY <6>1, <6>2
        <5> QED BY <3>1, <3>6, <4>1, <4>3, <5>1
      <4>4. CASE j # i
        <5>1. j \in BegunAt /\ NameAt(j) \in DOMAIN active /\ NameAt(j) # NameAt(i)
          BY <3>0, <3>2, <3>5, <4>1, <4>4
        <5>2. active'[NameAt(j)] = active[NameAt(j)] + 0
          BY ONLY <3>6, <4>1, <5>1
        <5>3. active[NameAt(j)] = sent[j] /\ sent'[j] = sent[j]
          BY ONLY <3>0, <3>1, <4>1, <4>4, <5>1
        <5> QED BY ONLY <4>2, <5>2, <5>3
      <4> QED BY <4>3, <4>4
    <3>9. ASSUME NEW j \in Index
          PROVE  toolIds'[j] = IF j \in BegunAt' \cap Named THEN Given(j) ELSE None
      BY <1>1, <3>0, <3>2 DEF StreamInv, TypeOK
    <3> QED BY <3>7, <3>8, <3>9
  <2>3. DeltasAssembled'
    BY <2>1, <2>2 DEF DeltasAssembled
  <2> QED BY <1>0, <2>3 DEF ItemsAssembled, NothingSentYet, CallsAreWhole
<1> QED BY <1>2, <1>3

(* The end of a stream that was read whole.                                  *)
LEMMA EndAssembles ==
    ASSUME StreamInv, Assembled, NEW leftover \in SetToSeqs(DOMAIN active),
           StreamEnds(leftover)
    PROVE  Assembled'
<1> DEFINE rest == [n \in DOMAIN leftover |-> Parsed(leftover[n])]
           all == calls \o rest
<1>0. phase = "streaming" /\ result = "none" /\ strategy \in {"responses", "chat"}
  BY DEF StreamEnds, StreamInv, WhatIsShown, TypeOK
<1>1. CASE "word" \notin Range(text) /\ all = <<>>
  <2>1. AttemptFails(FALSE, ~visible) /\ (~visible) \in BOOLEAN
    BY <1>1 DEF StreamEnds
  <2> QED BY <1>0, <2>1, LoopAssembles
<1>2. CASE ~("word" \notin Range(text) /\ all = <<>>)
  <2>1. /\ phase' = "done" /\ calls' = all /\ sent' = sent
        /\ cut' = (cut \/ \E i \in Index : sent[i] \in 1 .. Fragments - 1)
    BY <1>2 DEF StreamEnds, Return
  <2>2. ASSUME ~cut'
        PROVE  /\ \A n \in DOMAIN all : all[n].whole
               /\ Len(all) = Cardinality(BegunAt)
               /\ \A i \in BegunAt : \E n \in DOMAIN all : all[n].id[1] = i
    <3>1. BegunAt = SentWhole
      <4>1. \A i \in Index : sent[i] \in 0 .. Fragments /\ sent[i] \notin 1 .. Fragments - 1
        BY <2>1, <2>2 DEF StreamInv, TypeOK
      <4>2. \A i \in Index : sent[i] > 0 <=> sent[i] = Fragments
        BY ONLY <4>1, StreamAssumption
      <4> QED BY <4>2 DEF BegunAt, SentWhole
    <3>2. IsFiniteSet(DOMAIN active)
      BY DEF StreamInv, PiecesWereSent
    <3>3. /\ leftover \in [1 .. Cardinality(DOMAIN active) -> DOMAIN active]
          /\ DOMAIN active = {leftover[n] : n \in DOMAIN leftover}
          /\ Cardinality(DOMAIN active) \in Nat
      <4> DEFINE D == DOMAIN active
      <4>1. IsFiniteSet(D) /\ leftover \in SetToSeqs(D)
        BY <3>2
      <4> HIDE DEF D
      <4>2. /\ leftover \in [1 .. Cardinality(D) -> D] /\ D = {leftover[n] : n \in DOMAIN leftover}
            /\ Cardinality(D) \in Nat
        BY <4>1, OrdersAreComplete, FS_CardinalityType
      <4> QED BY <4>2 DEF D
    <3>4. CASE strategy = "responses"
      <4>1. DOMAIN active = {}
        BY <1>0, <2>1, <2>2, <3>1, <3>4 DEF Assembled, ItemsAssembled
      <4>2. rest = <<>>
        BY <3>3, <4>1, FS_EmptySet
      <4>3. calls \in Seq([id : Id, whole : BOOLEAN])
        BY DEF StreamInv, TypeOK
      <4>4. all = calls
        BY <4>2, <4>3
      <4> QED BY <1>0, <3>1, <3>4, <4>4 DEF Assembled, ItemsAssembled
    <3>5. CASE strategy = "chat"
      <4>1. /\ calls = <<>>
            /\ DOMAIN active = {NameAt(i) : i \in BegunAt}
            /\ \A i \in BegunAt : active[NameAt(i)] = Fragments
        BY <1>0, <2>1, <2>2, <3>1, <3>5 DEF Assembled, DeltasAssembled, SentWhole
      <4>2. rest \in [1 .. Cardinality(DOMAIN active) -> {Parsed(id) : id \in DOMAIN active}]
        BY <3>3
      <4>3. rest \in Seq({Parsed(id) : id \in DOMAIN active})
            /\ Len(rest) = Cardinality(DOMAIN active)
        <5> DEFINE T == {Parsed(id) : id \in DOMAIN active}
                   k == Cardinality(DOMAIN active)
        <5>1. k \in Nat /\ rest \in [1 .. k -> T]
          BY <3>3, <4>2
        <5> HIDE DEF T, k, rest
        <5>2. rest \in Seq(T)
          BY <5>1, SeqDef
        <5>3. DOMAIN rest = 1 .. k /\ DOMAIN rest = 1 .. Len(rest) /\ Len(rest) \in Nat
          BY <5>1, <5>2, LenProperties
        <5>4. Len(rest) = k
          BY ONLY <5>1, <5>3
        <5> QED BY <5>2, <5>4 DEF T, k
      <4>4. all = rest
        BY <4>1, <4>3
      <4>5. \A n \in DOMAIN rest : rest[n].whole
        <5>1. \A id \in DOMAIN active : Parsed(id).whole
          BY <4>1 DEF Parsed
        <5>2. \A n \in DOMAIN rest : leftover[n] \in DOMAIN active /\ rest[n] = Parsed(leftover[n])
          BY <3>3
        <5> QED BY <5>1, <5>2
      <4>6. \A i \in BegunAt : \E n \in DOMAIN rest : rest[n].id[1] = i
        <5>1. \A i \in BegunAt : \E n \in DOMAIN leftover : leftover[n] = NameAt(i)
          BY <3>3, <4>1
        <5> QED BY <5>1 DEF Parsed, NameAt, Given, Made
      <4>7. Cardinality(BegunAt) = Cardinality(DOMAIN active)
        <5> DEFINE D == DOMAIN active
                   pos == [id \in D |-> id[1]]
        <5>1. \A i \in BegunAt : NameAt(i)[1] = i
          BY DEF NameAt, Given, Made
        <5>2. D = {NameAt(i) : i \in BegunAt} /\ IsFiniteSet(D)
          BY <3>2, <4>1
        <5> HIDE DEF D
        <5>3. \A id \in D : pos[id] = id[1] /\ NameAt(pos[id]) = id /\ pos[id] \in BegunAt
          BY <5>1, <5>2
        <5>4. \A i \in BegunAt : NameAt(i) \in D /\ pos[NameAt(i)] = i
          BY <5>1, <5>2
        <5>5. pos \in [D -> BegunAt]
          BY <5>3
        <5> HIDE DEF pos
        <5>6. pos \in Bijection(D, BegunAt)
          BY <5>3, <5>4, <5>5 DEF Bijection, Injection, Surjection, IsInjective
        <5>7. Cardinality(BegunAt) = Cardinality(D)
          BY <5>2, <5>6, FS_Bijection DEF ExistsBijection
        <5> QED BY <5>7 DEF D
      <4> QED BY ZenonT(40), <4>3, <4>4, <4>5, <4>6, <4>7
    <3> QED BY <1>0, <3>4, <3>5
  <2> HIDE DEF all
  <2>3. CallsAreWhole'
    BY <2>1, <2>2 DEF CallsAreWhole, BegunAt
  <2> QED BY <2>1, <2>3 DEF Assembled, ItemsAssembled, DeltasAssembled, NothingSentYet
<1> QED BY <1>1, <1>2

LEMMA InitAssembles == Init => Assembled
BY DEF Init, Assembled, ItemsAssembled, DeltasAssembled, NothingSentYet, CallsAreWhole

(* Every step keeps what is known of the calls' pieces.                      *)
LEMMA StepAssembles == ASSUME StreamInv, Assembled, [Next]_vars PROVE Assembled'
<1>1. CASE HttpFails \/ NotAStream \/ ErrorEvent \/ InvalidEvent \/ TransportFails
  <2>1. \E r, u \in BOOLEAN : phase \in {"waiting", "streaming"} /\ AttemptFails(r, u)
    <3>1. \A status \in Status, named \in BOOLEAN :
              Retryable(status) \in BOOLEAN /\ Unsupported(status, named) \in BOOLEAN
      BY DEF Retryable, Unsupported
    <3>2. CASE HttpFails
      BY <3>1, <3>2 DEF HttpFails
    <3>3. CASE NotAStream \/ TransportFails
      BY <3>3 DEF NotAStream, TransportFails
    <3>4. CASE ErrorEvent \/ InvalidEvent
      <4>1. (~visible) \in BOOLEAN
        OBVIOUS
      <4> QED BY <3>4, <4>1 DEF ErrorEvent, InvalidEvent
    <3> QED BY <1>1, <3>2, <3>3, <3>4
  <2> QED BY <2>1, LoopAssembles
<1>2. CASE Attempt \/ BackoffOver \/ CancelSeen \/ Connected \/ EmitFails \/ Cancel
  BY <1>2, LoopAssembles
<1>3. CASE (\E piece \in Pieces : TextDelta(piece)) \/ ActivityDelta
  <2>1. /\ phase = "streaming" /\ result = "none"
        /\ UNCHANGED <<phase, strategy, result, cut, active, toolIds, calls, sent>>
    BY <1>3 DEF TextDelta, ActivityDelta, Reading, StreamInv, WhatIsShown
  <2>2. SentWhole' = SentWhole /\ BegunAt' = BegunAt
    BY <2>1 DEF SentWhole, BegunAt
  <2> QED BY <2>1, <2>2 DEF Assembled, ItemsAssembled, DeltasAssembled,
              NothingSentYet, CallsAreWhole
<1>4. CASE \E i \in Index, named \in BOOLEAN :
             ToolStarted(i, named) \/ ToolCompleted(i, named)
  BY <1>4, ItemAssembles
<1>5. CASE \E i \in Index :
             PassedOver(i) \/ \E named \in BOOLEAN : ToolArgumentsDelta(i, named)
  BY <1>5, DeltaAssembles
<1>6. CASE \E leftover \in SetToSeqs(DOMAIN active) : StreamEnds(leftover)
  BY <1>6, EndAssembles
<1>7. CASE UNCHANGED vars
  BY <1>7 DEF vars, streamVars, Assembled, ItemsAssembled,
        DeltasAssembled, NothingSentYet, CallsAreWhole, SentWhole, BegunAt
<1> QED BY <1>1, <1>2, <1>3, <1>4, <1>5, <1>6, <1>7 DEF Next, Event

(* Every call of an answer that was read whole is returned once and whole,   *)
(* and every call that was announced is returned.                            *)
THEOREM EveryCallIsKept == Spec => []CallsAreKept
<1>1. StreamInv /\ Assembled /\ [Next]_vars => Assembled'
  BY StepAssembles
<1>2. Assembled => CallsAreWhole
  BY DEF Assembled
<1> QED BY <1>1, <1>2, InitAssembles, Invariant, AnnouncedIsMade, PTL DEF Spec, CallsAreKept

-----------------------------------------------------------------------------
(* The rounds of a turn *)

TurnId == (Id \cup (CodexCall \X {"codex"})) \X Nat
Key == ({"text"} \X Nat) \cup ({"tool"} \X TurnId)
Texts == Seq(Pieces \cup {"done"})
ItemStatus == {"running", "completed"} \cup Results
Item == [key : Key, text : Texts, status : ItemStatus]
Words == [call : TurnId \cup {<<>>}, text : Texts]

\* The emitter's variables, and the ids a position stands for.
EmitterType ==
    /\ items \in Seq(Item)
    /\ said \in Seq(Words)
    /\ added \in BOOLEAN
    /\ content \in Texts
    /\ segment \in Nat
    /\ round \in Nat
    /\ toolIds \in [Index -> Id \cup {None}]

\* Items and runs of what was said correspond one to one.
OneForOne ==
    /\ Len(items) = Len(said)
    /\ \A n \in 1 .. Len(said) : Shows(items[n], said[n])

\* Segments are numbered in order, and only the open one is the present one.
SegmentsInOrder ==
    \A n \in 1 .. Len(items) :
        /\ items[n].key[1] = "text" => items[n].key[2] <= segment
        /\ items[n].key = <<"text", segment>> => added /\ n = Len(items)

\* The open segment is the last item, with the content that is kept of it.
OpenSegment ==
    IF added
    THEN /\ Len(items) > 0
         /\ items[Len(items)].key = <<"text", segment>>
         /\ items[Len(items)].text = content
         /\ said[Len(said)].call = <<>>
         /\ content # <<>>
    ELSE /\ content = <<>>
         /\ Len(said) > 0 => said[Len(said)].call # <<>>

EmitterInv == EmitterType /\ OneForOne /\ SegmentsInOrder /\ OpenSegment

\* Nothing was said that may still be given up.
NothingToGiveUp ==
    /\ runtime = "codex" =>
        /\ phase = "check" /\ kept = <<>>
        /\ ~progressed => said = <<>> /\ at = "runtime"
    /\ runtime = "compat" /\ at = "runtime" =>
        /\ phase \in {"check", "backoff"} => said = kept
        /\ phase \in {"waiting", "streaming"} /\ ~visible => said = kept

TranscriptInv ==
    /\ TranscriptIsSaid
    /\ runtime # "completed" => EmitterInv /\ NothingToGiveUp

-----------------------------------------------------------------------------
LEMMA IdsAreNotEmpty == \A id \in TurnId : id # <<>>
BY DEF TurnId

LEMMA SaidFollows ==
    ASSUME EmitterInv PROVE TranscriptIsSaid
<1>1. Len(items) = Len(said) /\ \A n \in 1 .. Len(said) : Shows(items[n], said[n])
    BY DEF EmitterInv, OneForOne
<1>2. DOMAIN said = 1 .. Len(said)
    BY DEF EmitterInv, EmitterType
<1> QED BY <1>1, <1>2 DEF TranscriptIsSaid

\* A delta of text.
LEMMA DeltaKeepsEmitter ==
    ASSUME EmitterInv, NEW piece \in Pieces, AppendAssistantDelta(piece),
           round' \in Nat, toolIds' \in [Index -> Id \cup {None}]
    PROVE  EmitterInv'
<1> DEFINE new == Append(content, piece)
<1>1. /\ items \in Seq(Item) /\ said \in Seq(Words) /\ added \in BOOLEAN
      /\ content \in Texts /\ segment \in Nat
    BY DEF EmitterInv, EmitterType
<1>2. new \in Texts /\ new # <<>>
    BY <1>1 DEF Texts
<1>3. segment' = segment /\ added' = TRUE /\ content' = new
    BY DEF AppendAssistantDelta
<1>4. TextItem \in Item /\ TextItem.key = <<"text", segment>> /\ TextItem.text = <<>>
    <2>1. <<"text", segment>> \in Key
        BY <1>1 DEF Key
    <2>2. <<>> \in Texts
        BY DEF Texts
    <2> QED BY <2>1, <2>2 DEF TextItem, Item, ItemStatus
<1> HIDE DEF new
<1>5. CASE added
    <2>1. Present = items
        BY <1>5 DEF Present
    <2> DEFINE L == Len(items)
    <2>2. L \in Nat /\ L > 0 /\ Len(said) = L /\ said # <<>> /\ said[L].call = <<>>
          /\ items[L].key = <<"text", segment>> /\ items[L].text = content
        BY <1>1, <1>5 DEF EmitterInv, OpenSegment, OneForOne
    <2>3. \A n \in 1 .. L : items[n].key = <<"text", segment>> <=> n = L
        BY <2>2 DEF EmitterInv, SegmentsInOrder
    <2>4. items' = [n \in 1 .. L |-> IF n = L THEN [items[n] EXCEPT !.text = Append(@, piece)]
                                              ELSE items[n]]
        <3>1. DOMAIN items = 1 .. L
            BY <1>1
        <3>2. items' = [n \in 1 .. L |->
                            IF items[n].key = <<"text", segment>>
                            THEN [items[n] EXCEPT !.text = Append(@, piece)] ELSE items[n]]
            BY <2>1, <3>1 DEF AppendAssistantDelta
        <3> QED BY <2>3, <3>2
    <2>5. said' = [said EXCEPT ![L].text = Append(@, piece)]
        <3>1. Last(said) = said[L]
            BY <2>2 DEF Last
        <3> QED BY <2>2, <3>1 DEF AppendAssistantDelta
    <2>6. said[L] \in Words /\ items[L] \in Item
        BY <1>1, <2>2
    <2>7. said[L].text = content
        BY <2>2 DEF EmitterInv, OneForOne, Shows
    <2>8. [said[L] EXCEPT !.text = new] \in Words /\ [items[L] EXCEPT !.text = new] \in Item
        BY <1>2, <2>6 DEF Words, Item
    <2>9. items' = [n \in 1 .. L |-> IF n = L THEN [items[L] EXCEPT !.text = new] ELSE items[n]]
        BY <2>2, <2>4 DEF new
    <2>10. said' = [said EXCEPT ![L] = [said[L] EXCEPT !.text = new]]
        BY <2>5, <2>7, <1>1, <2>2 DEF new
    <2>11. items' \in Seq(Item) /\ Len(items') = L /\ DOMAIN items' = 1 .. L
        BY <1>1, <2>8, <2>9, <2>2
    <2>12. said' \in Seq(Words) /\ Len(said') = L
        BY <1>1, <2>8, <2>10, <2>2
    <2>13. EmitterType'
        BY <1>1, <1>2, <1>3, <2>11, <2>12 DEF EmitterType
    <2>14. items'[L].key = <<"text", segment>> /\ items'[L].text = new
           /\ said'[L].call = <<>> /\ said'[L].text = new
        BY <1>1, <2>2, <2>6, <2>9, <2>10 DEF Words, Item
    <2>15. \A n \in 1 .. L - 1 : items'[n] = items[n] /\ said'[n] = said[n]
        BY <1>1, <2>2, <2>9, <2>10
    <2>16. OneForOne'
        <3>1. \A n \in 1 .. L : Shows(items[n], said[n])
            BY <2>2 DEF EmitterInv, OneForOne
        <3>2. \A n \in 1 .. L : Shows(items'[n], said'[n])
            BY <2>2, <2>14, <2>15, <3>1 DEF Shows
        <3> QED BY <2>11, <2>12, <3>2 DEF OneForOne
    <2>17. SegmentsInOrder'
        <3>1. \A n \in 1 .. L : items'[n].key = items[n].key
            BY <2>2, <2>14, <2>15
        <3> QED BY <1>3, <1>5, <2>11, <3>1 DEF EmitterInv, SegmentsInOrder
    <2>18. OpenSegment'
        BY <1>2, <1>3, <2>2, <2>11, <2>12, <2>14 DEF OpenSegment
    <2> QED BY <2>13, <2>16, <2>17, <2>18 DEF EmitterInv
<1>6. CASE ~added
    <2> DEFINE L == Len(items)
               word == [call |-> <<>>, text |-> <<piece>>]
    <2>1. Present = Append(items, TextItem)
        BY <1>6 DEF Present
    <2>2. L \in Nat /\ Len(said) = L /\ content = <<>>
        BY <1>1, <1>6 DEF EmitterInv, OpenSegment, OneForOne
    <2>3. \A n \in 1 .. L : items[n].key # <<"text", segment>>
        BY <1>6 DEF EmitterInv, SegmentsInOrder
    <2>4. new = <<piece>>
        BY <2>2 DEF new
    <2> DEFINE item == [TextItem EXCEPT !.text = new]
    <2>5. item \in Item /\ item.key = <<"text", segment>> /\ item.text = new
        BY <1>2, <1>4 DEF Item
    <2>6. item = [TextItem EXCEPT !.text = Append(@, piece)]
        BY <1>4, <2>4 DEF TextItem
    <2>7. word \in Words
        BY <1>2, <2>4 DEF Words
    <2> HIDE DEF item
    <2>8. items' = [n \in 1 .. L + 1 |-> IF n = L + 1 THEN item ELSE items[n]]
        <3>1. Len(Present) = L + 1 /\ DOMAIN Present = 1 .. L + 1
            BY <1>1, <1>4, <2>1, <2>2
        <3>2. Present[L + 1] = TextItem /\ \A n \in 1 .. L : Present[n] = items[n]
            BY <1>1, <1>4, <2>1, <2>2
        <3>3. items' = [n \in 1 .. L + 1 |->
                            IF Present[n].key = <<"text", segment>>
                            THEN [Present[n] EXCEPT !.text = Append(@, piece)] ELSE Present[n]]
            BY <3>1 DEF AppendAssistantDelta
        <3>4. \A n \in 1 .. L + 1 : Present[n].key = <<"text", segment>> <=> n = L + 1
            BY <1>4, <2>2, <2>3, <3>2
        <3>5. ASSUME NEW n \in 1 .. L + 1, n # L + 1 PROVE Present[n] = items[n]
            BY <2>2, <3>2, <3>5
        <3>6. \A n \in 1 .. L + 1 :
                (IF Present[n].key = <<"text", segment>>
                 THEN [Present[n] EXCEPT !.text = Append(@, piece)] ELSE Present[n])
                = IF n = L + 1 THEN item ELSE items[n]
            BY <2>6, <3>2, <3>4, <3>5
        <3> QED BY <3>3, <3>6
    <2>9. said' = Append(said, word)
        <3>1. said # <<>> => Last(said).call # <<>>
            BY <1>1, <1>6 DEF EmitterInv, OpenSegment, Last
        <3> QED BY <3>1 DEF AppendAssistantDelta
    <2>10. /\ items' \in Seq(Item) /\ Len(items') = L + 1
           /\ said' \in Seq(Words) /\ Len(said') = L + 1
        BY <1>1, <2>2, <2>5, <2>7, <2>8, <2>9
    <2>11. /\ items'[L + 1] = item /\ said'[L + 1] = word
           /\ \A n \in 1 .. L : items'[n] = items[n] /\ said'[n] = said[n]
        BY <1>1, <2>2, <2>5, <2>7, <2>8, <2>9
    <2>12. EmitterType'
        BY <1>1, <1>2, <1>3, <2>10 DEF EmitterType
    <2>13. OneForOne'
        <3>1. \A n \in 1 .. L : Shows(items[n], said[n])
            BY <2>2 DEF EmitterInv, OneForOne
        <3>2. Shows(item, word)
            BY <2>4, <2>5 DEF Shows
        <3>3. \A n \in 1 .. L + 1 : Shows(items'[n], said'[n])
            BY <2>2, <2>11, <3>1, <3>2
        <3> QED BY <2>10, <3>3 DEF OneForOne
    <2>14. SegmentsInOrder'
        <3>1. \A n \in 1 .. L : /\ items[n].key[1] = "text" => items[n].key[2] <= segment
                                /\ items[n].key # <<"text", segment>>
            BY <2>3 DEF EmitterInv, SegmentsInOrder
        <3>2. ASSUME NEW n \in 1 .. L + 1
              PROVE  /\ items'[n].key[1] = "text" => items'[n].key[2] <= segment
                     /\ items'[n].key = <<"text", segment>> => n = L + 1
            <4>1. CASE n = L + 1
                BY <1>1, <2>5, <2>11, <4>1
            <4>2. CASE n # L + 1
                BY <2>2, <2>11, <3>1, <4>2
            <4> QED BY <4>1, <4>2
        <3> QED BY <1>3, <2>10, <3>2 DEF SegmentsInOrder
    <2>15. OpenSegment'
        BY <1>2, <1>3, <2>2, <2>5, <2>10, <2>11 DEF OpenSegment
    <2> QED BY <2>12, <2>13, <2>14, <2>15 DEF EmitterInv
<1> QED BY <1>1, <1>5, <1>6

\* An update that leaves keys and texts alone.
LEMMA UpdateKeepsEmitter ==
    ASSUME EmitterInv,
           items' \in Seq(Item), Len(items') = Len(items),
           \A n \in 1 .. Len(items) :
                /\ items'[n].key = items[n].key
                /\ items[n].key[1] = "text" => items'[n].text = items[n].text,
           UNCHANGED <<added, content, segment, said>>,
           round' \in Nat, toolIds' \in [Index -> Id \cup {None}]
    PROVE  EmitterInv'
<1>1. Len(items) \in Nat /\ Len(items) = Len(said)
    BY DEF EmitterInv, EmitterType, OneForOne
<1>2. EmitterType'
    BY DEF EmitterInv, EmitterType
<1>3. OneForOne'
    <2>1. ASSUME NEW n \in 1 .. Len(said) PROVE Shows(items'[n], said'[n])
        BY <1>1 DEF EmitterInv, OneForOne, Shows
    <2> QED BY <1>1, <2>1 DEF OneForOne
<1>4. SegmentsInOrder'
    BY <1>1 DEF EmitterInv, SegmentsInOrder
<1>5. OpenSegment'
    <2>1. CASE added
        <3>1. Len(items) > 0 /\ items[Len(items)].key = <<"text", segment>>
            BY <2>1 DEF EmitterInv, OpenSegment
        <3>2. items'[Len(items)].key = <<"text", segment>>
              /\ items'[Len(items)].text = items[Len(items)].text
            BY <1>1, <3>1
        <3> QED BY <2>1, <3>1, <3>2 DEF EmitterInv, OpenSegment
    <2>2. CASE ~added
        BY <2>2 DEF EmitterInv, OpenSegment
    <2> QED BY <2>1, <2>2
<1> QED BY <1>2, <1>3, <1>4, <1>5 DEF EmitterInv

\* An item that takes the place of a tool's.
LEMMA ResultKeepsEmitter ==
    ASSUME EmitterInv, NEW id, NEW answer \in Results, EmitToolResult(id, answer),
           round' \in Nat, toolIds' \in [Index -> Id \cup {None}]
    PROVE  EmitterInv'
<1> DEFINE new == [ToolItem(id) EXCEPT !.status = answer]
           L == Len(items)
<1>1. items \in Seq(Item) /\ L \in Nat /\ DOMAIN items = 1 .. L
    BY DEF EmitterInv, EmitterType
<1>2. new.key = <<"tool", id>> /\ new.text = <<>> /\ new.status = answer
      /\ new = [key |-> <<"tool", id>>, text |-> <<>>, status |-> answer]
    BY DEF ToolItem
<1> HIDE DEF new
<1>3. items' = [n \in 1 .. L |-> IF items[n].key = <<"tool", id>> THEN new ELSE items[n]]
    BY <1>1, <1>2 DEF EmitToolResult, Updated, new
<1>4. ASSUME NEW n \in 1 .. L
      PROVE  /\ items'[n] \in Item
             /\ items'[n].key = items[n].key
             /\ items[n].key[1] = "text" => items'[n].text = items[n].text
    <2>1. items[n] \in Item
        BY <1>1
    <2>2. CASE items[n].key = <<"tool", id>>
        <3>1. <<>> \in Texts /\ answer \in ItemStatus /\ <<"tool", id>> \in Key
            BY <2>1, <2>2 DEF Texts, ItemStatus, Item
        <3> QED BY <1>2, <1>3, <2>2, <3>1 DEF Item
    <2>3. CASE items[n].key # <<"tool", id>>
        BY <1>3, <2>1, <2>3
    <2> QED BY <2>2, <2>3
<1>5. items' \in Seq(Item) /\ Len(items') = L
    BY <1>1, <1>3, <1>4
<1> QED BY <1>4, <1>5, UpdateKeepsEmitter DEF EmitToolResult

LEMMA ArgumentsKeepEmitter ==
    ASSUME EmitterInv, NEW ids, ArgumentsReceived(ids),
           round' \in Nat, toolIds' \in [Index -> Id \cup {None}]
    PROVE  EmitterInv'
<1> DEFINE L == Len(items)
<1>1. items \in Seq(Item) /\ L \in Nat /\ DOMAIN items = 1 .. L
    BY DEF EmitterInv, EmitterType
<1>2. ASSUME NEW n \in 1 .. L
      PROVE  items'[n] = items[n] \/ items'[n] = [items[n] EXCEPT !.status = "running"]
    BY <1>1 DEF ArgumentsReceived
<1>3. ASSUME NEW n \in 1 .. L
      PROVE  /\ items'[n] \in Item
             /\ items'[n].key = items[n].key /\ items'[n].text = items[n].text
    <2>1. items[n] \in Item
        BY <1>1
    <2> QED BY <1>2, <2>1 DEF Item, ItemStatus
<1>4. DOMAIN items' = 1 .. L /\ items' = [n \in 1 .. L |-> items'[n]]
    BY <1>1 DEF ArgumentsReceived
<1>5. items' \in Seq(Item) /\ Len(items') = L
    BY <1>1, <1>3, <1>4
<1> QED BY <1>3, <1>5, UpdateKeepsEmitter DEF ArgumentsReceived

\* What a call closes is shown as it was.
LEMMA ClosedIsShown ==
    ASSUME EmitterInv
    PROVE  /\ Closed \in Seq(Item) /\ Len(Closed) = Len(items)
           /\ \A n \in 1 .. Len(items) :
                /\ Closed[n].key = items[n].key
                /\ items[n].key[1] = "text" => Closed[n].text = items[n].text
<1> DEFINE new == [TextItem EXCEPT !.text = content, !.status = "completed"]
           L == Len(items)
<1>1. items \in Seq(Item) /\ L \in Nat /\ DOMAIN items = 1 .. L /\ content \in Texts
      /\ segment \in Nat
    BY DEF EmitterInv, EmitterType
<1>2. CASE ~added
    <2>1. Closed = items
        BY <1>2 DEF Closed
    <2> QED BY <1>1, <2>1
<1>3. CASE added
    <2>1. TextItem \in Item /\ TextItem.key = <<"text", segment>>
        <3>1. <<"text", segment>> \in Key /\ "running" \in ItemStatus /\ <<>> \in Texts
            BY <1>1 DEF Key, ItemStatus, Texts
        <3> QED BY <3>1 DEF TextItem, Item
    <2>2. new \in Item /\ new.key = <<"text", segment>> /\ new.text = content
        <3>1. "completed" \in ItemStatus
            BY DEF ItemStatus
        <3> QED BY <1>1, <2>1, <3>1 DEF Item
    <2>3. Closed = Updated(items, new)
        BY <1>3 DEF Closed
    <2> HIDE DEF new
    <2>4. Closed = [n \in 1 .. L |->
                        IF items[n].key = <<"text", segment>> THEN new ELSE items[n]]
        BY <1>1, <2>2, <2>3 DEF Updated
    <2>5. \A n \in 1 .. L : items[n].key = <<"text", segment>> => items[n].text = content
        BY <1>3 DEF EmitterInv, SegmentsInOrder, OpenSegment
    <2>6. ASSUME NEW n \in 1 .. L
          PROVE  Closed[n] \in Item /\ Closed[n].key = items[n].key
                 /\ Closed[n].text = items[n].text
        <3>1. items[n] \in Item
            BY <1>1
        <3> QED BY <2>2, <2>4, <2>5, <3>1
    <2>7. Closed \in Seq(Item) /\ Len(Closed) = L
        BY <1>1, <2>4, <2>6
    <2> QED BY <2>6, <2>7
<1> QED BY <1>2, <1>3

\* A call closes the segment and begins an item of its own.
LEMMA CallKeepsEmitter ==
    ASSUME EmitterInv, NEW id \in TurnId, EmitToolStarted(id),
           round' \in Nat, toolIds' \in [Index -> Id \cup {None}]
    PROVE  EmitterInv'
<1> DEFINE L == Len(items)
           word == [call |-> id, text |-> <<>>]
<1>1. /\ items \in Seq(Item) /\ said \in Seq(Words) /\ added \in BOOLEAN
      /\ content \in Texts /\ segment \in Nat /\ L \in Nat /\ Len(said) = L
    BY DEF EmitterInv, EmitterType, OneForOne
<1>2. CASE id \in toolItems
    <2>1. UNCHANGED emitterVars
        BY <1>2 DEF EmitToolStarted
    <2>2. UNCHANGED <<items, added, content, segment, said>>
        BY <2>1 DEF emitterVars
    <2> QED BY <1>1, <2>2, UpdateKeepsEmitter
<1>3. CASE id \notin toolItems
    <2>1. /\ items' = Append(Closed, ToolItem(id))
          /\ added' = FALSE /\ content' = <<>>
          /\ segment' = IF added THEN segment + 1 ELSE segment
          /\ said' = Append(said, word)
        BY <1>3 DEF EmitToolStarted
    <2>2. /\ ToolItem(id) \in Item /\ ToolItem(id).key = <<"tool", id>>
          /\ word \in Words /\ word.call = id /\ id # <<>>
        <3>1. <<"tool", id>> \in Key /\ "running" \in ItemStatus /\ <<>> \in Texts
            BY DEF Key, ItemStatus, Texts
        <3> QED BY <3>1, IdsAreNotEmpty DEF ToolItem, Item, Words
    <2>3. /\ items' \in Seq(Item) /\ Len(items') = L + 1 /\ items'[L + 1] = ToolItem(id)
          /\ \A n \in 1 .. L : items'[n] = Closed[n]
        BY <1>1, <2>1, <2>2, ClosedIsShown
    <2>4. /\ said' \in Seq(Words) /\ Len(said') = L + 1 /\ said'[L + 1] = word
          /\ \A n \in 1 .. L : said'[n] = said[n]
        BY <1>1, <2>1, <2>2
    <2>5. \A n \in 1 .. L :
            /\ items'[n].key = items[n].key
            /\ items[n].key[1] = "text" => items'[n].text = items[n].text
        BY <2>3, ClosedIsShown
    <2>6. EmitterType'
        <3>1. segment' \in Nat /\ content' \in Texts
            BY <1>1, <2>1 DEF Texts
        <3> QED BY <2>1, <2>3, <2>4, <3>1 DEF EmitterType
    <2>7. OneForOne'
        <3>1. ASSUME NEW n \in 1 .. L + 1 PROVE Shows(items'[n], said'[n])
            <4>1. CASE n = L + 1
                BY <2>2, <2>3, <2>4, <4>1 DEF Shows
            <4>2. CASE n # L + 1
                <5>1. n \in 1 .. L
                    BY <1>1, <4>2
                <5>2. Shows(items[n], said[n])
                    BY <1>1, <5>1 DEF EmitterInv, OneForOne
                <5> QED BY <2>4, <2>5, <5>1, <5>2 DEF Shows
            <4> QED BY <4>1, <4>2
        <3> QED BY <2>3, <2>4, <3>1 DEF OneForOne
    <2>8. SegmentsInOrder'
        <3>1. ASSUME NEW n \in 1 .. L + 1
              PROVE  /\ items'[n].key[1] = "text" => items'[n].key[2] <= segment'
                     /\ items'[n].key # <<"text", segment'>>
            <4>1. CASE n = L + 1
                BY <2>2, <2>3, <4>1
            <4>2. CASE n # L + 1
                <5>1. n \in 1 .. L
                    BY <1>1, <4>2
                <5>2. /\ items[n].key[1] = "text" => items[n].key[2] <= segment
                      /\ items[n].key = <<"text", segment>> => added
                    BY <5>1 DEF EmitterInv, SegmentsInOrder
                <5>3. items[n].key \in Key
                    <6>1. items[n] \in Item
                        BY <1>1, <5>1
                    <6> QED BY <6>1 DEF Item
                <5>4. items[n].key[1] = "text" =>
                        items[n].key[2] \in Nat /\ items[n].key = <<"text", items[n].key[2]>>
                    BY <5>3 DEF Key
                <5>5. items'[n].key = items[n].key
                    BY <2>5, <5>1
                <5>6. segment' = segment + (IF added THEN 1 ELSE 0)
                    BY <1>1, <2>1
                <5>7. CASE items[n].key[1] = "text"
                    <6> DEFINE k == items[n].key[2]
                    <6>1. k \in Nat /\ items[n].key = <<"text", k>> /\ k <= segment
                          /\ (k = segment => added)
                        BY <5>2, <5>4, <5>7
                    <6>2. k <= segment' /\ k # segment'
                        BY <1>1, <5>6, <6>1
                    <6> QED BY <5>5, <6>1, <6>2
                <5>8. CASE items[n].key[1] # "text"
                    BY <5>5, <5>8
                <5> QED BY <5>7, <5>8
            <4> QED BY <4>1, <4>2
        <3> QED BY <2>3, <3>1 DEF SegmentsInOrder
    <2>9. OpenSegment'
        BY <1>1, <2>1, <2>2, <2>4 DEF OpenSegment
    <2> QED BY <2>6, <2>7, <2>8, <2>9 DEF EmitterInv
<1> QED BY <1>2, <1>3

LEMMA UntouchedEmitter ==
    ASSUME EmitterInv, UNCHANGED emitterVars,
           round' \in Nat, toolIds' \in [Index -> Id \cup {None}]
    PROVE  EmitterInv'
<1>1. UNCHANGED <<items, added, content, segment, said>>
    BY DEF emitterVars
<1>2. items \in Seq(Item)
    BY DEF EmitterInv, EmitterType
<1> QED BY <1>1, <1>2, UpdateKeepsEmitter

\* A turn that ends shows its last text, or one line more.
LEMMA FinalSaysTheSame ==
    ASSUME EmitterInv, FinalizeTurn
    PROVE  TranscriptIsSaid'
<1> DEFINE whole == IF content = <<>> THEN <<"done">> ELSE content
           last == [TextItem EXCEPT !.text = whole, !.status = "completed"]
           L == Len(items)
<1>1. /\ items \in Seq(Item) /\ said \in Seq(Words) /\ added \in BOOLEAN
      /\ content \in Texts /\ segment \in Nat /\ L \in Nat /\ Len(said) = L
      /\ DOMAIN items = 1 .. L /\ DOMAIN said = 1 .. L
    BY DEF EmitterInv, EmitterType, OneForOne
<1>2. runtime' = "completed" /\ said' = said /\ items' = Updated(Present, last)
    BY DEF FinalizeTurn
<1>3. TextItem \in Item /\ TextItem.key = <<"text", segment>>
    <2>1. <<"text", segment>> \in Key /\ "running" \in ItemStatus /\ <<>> \in Texts
        BY <1>1 DEF Key, ItemStatus, Texts
    <2> QED BY <2>1 DEF TextItem, Item
<1>4. last.key = <<"text", segment>> /\ last.text = whole
    BY <1>3 DEF Item
<1> HIDE DEF last
<1>5. \A n \in 1 .. L : Shows(items[n], said[n])
    BY <1>1 DEF EmitterInv, OneForOne
<1>6. CASE added
    <2>1. items' = [n \in 1 .. L |->
                        IF items[n].key = <<"text", segment>> THEN last ELSE items[n]]
        BY <1>1, <1>2, <1>4, <1>6 DEF Updated, Present
    <2>2. \A n \in 1 .. L : items[n].key = <<"text", segment>> => items[n].text = whole
        BY <1>6 DEF EmitterInv, SegmentsInOrder, OpenSegment
    <2>3. ASSUME NEW n \in 1 .. L PROVE Shows(items'[n], said[n])
        BY <1>4, <1>5, <2>1, <2>2 DEF Shows
    <2>4. Len(items') = L
        BY <1>1, <2>1
    <2> QED BY <1>1, <1>2, <2>3, <2>4 DEF TranscriptIsSaid
<1>7. CASE ~added
    <2>1. Present = Append(items, TextItem) /\ content = <<>>
        BY <1>7 DEF Present, EmitterInv, OpenSegment
    <2>2. /\ DOMAIN Present = 1 .. L + 1 /\ Present[L + 1] = TextItem
          /\ \A n \in 1 .. L : Present[n] = items[n]
        BY <1>1, <1>3, <2>1
    <2>3. items' = [n \in 1 .. L + 1 |->
                        IF Present[n].key = <<"text", segment>> THEN last ELSE Present[n]]
        BY <1>2, <1>4, <2>2 DEF Updated
    <2>4. \A n \in 1 .. L : items[n].key # <<"text", segment>>
        BY <1>7 DEF EmitterInv, SegmentsInOrder
    <2>5. items'[L + 1] = last
        BY <1>1, <1>3, <2>2, <2>3
    <2>6. ASSUME NEW n \in 1 .. L PROVE items'[n] = items[n]
        BY <1>1, <2>2, <2>3, <2>4
    <2>7. Len(items') = L + 1
        BY <1>1, <2>3
    <2>8. Last(items').text = <<"done">>
        BY <1>4, <2>1, <2>5, <2>7 DEF Last
    <2> QED BY <1>1, <1>2, <1>5, <2>6, <2>7, <2>8 DEF TranscriptIsSaid
<1> QED BY <1>1, <1>6, <1>7

LEMMA CallsHaveIds ==
    ASSUME round \in Nat, NEW id \in Id
    PROVE  IdOf(id) \in TurnId
BY DEF IdOf, TurnId, Id

-----------------------------------------------------------------------------
\* An attempt that fails is followed by another only if it showed nothing.
LEMMA FailedAttempt ==
    ASSUME NEW retryable, NEW unsupported, AttemptFails(retryable, unsupported),
           phase \in {"waiting", "streaming"}
    PROVE  /\ toolIds' = toolIds
           /\ phase' \in {"check", "backoff"} => ~visible
           /\ phase' \in {"check", "backoff", "done"}
BY DEF AttemptFails, Return, streamVars

\* What happens inside complete and is not said.
LEMMA QuietStep ==
    ASSUME EmitterInv, NothingToGiveUp, CompleteQuietly
    PROVE  EmitterInv' /\ NothingToGiveUp'
<1>1. UNCHANGED emitterVars /\ UNCHANGED roundVars
    BY DEF CompleteQuietly, Complete
<1>2. runtime = "compat" /\ at = "runtime"
    BY DEF CompleteQuietly, Complete
<1>3. said' = said /\ kept' = kept /\ runtime' = runtime /\ at' = at /\ round' = round
    BY <1>1 DEF emitterVars, roundVars
<1>4. round \in Nat /\ toolIds \in [Index -> Id \cup {None}]
    BY DEF EmitterInv, EmitterType
<1>5. \/ BackoffOver \/ CancelSeen \/ HttpFails \/ NotAStream \/ Connected
      \/ ActivityDelta \/ ErrorEvent \/ InvalidEvent \/ TransportFails \/ EmitFails
      \/ \E i \in Index : PassedOver(i)
    BY DEF CompleteQuietly
<1> DEFINE Quiet == /\ toolIds' = toolIds
                    /\ \/ phase' = "done"
                       \/ phase' \in {"check", "backoff"} /\ said = kept
                       \/ phase' \in {"waiting", "streaming"} /\ (~visible' => said = kept)
<1>6. Quiet
    <2>1. CASE BackoffOver
        BY <1>2, <2>1 DEF BackoffOver, streamVars, NothingToGiveUp
    <2>2. CASE CancelSeen
        BY <2>2 DEF CancelSeen, Return, streamVars
    <2>3. CASE HttpFails
        BY <1>2, FailedAttempt, <2>3 DEF HttpFails, NothingToGiveUp
    <2>4. CASE NotAStream
        BY <1>2, FailedAttempt, <2>4 DEF NotAStream, NothingToGiveUp
    <2>5. CASE Connected
        BY <1>2, <2>5 DEF Connected, streamVars, NothingToGiveUp
    <2>6. CASE ActivityDelta
        BY <1>2, <2>6 DEF ActivityDelta, Reading, NothingToGiveUp
    <2>7. CASE ErrorEvent
        BY <1>2, FailedAttempt, <2>7 DEF ErrorEvent, NothingToGiveUp
    <2>8. CASE InvalidEvent
        BY <1>2, FailedAttempt, <2>8 DEF InvalidEvent, NothingToGiveUp
    <2>9. CASE TransportFails
        BY <1>2, FailedAttempt, <2>9 DEF TransportFails, NothingToGiveUp
    <2>10. CASE EmitFails
        BY <2>10 DEF EmitFails, Return, streamVars
    <2>11. CASE \E i \in Index : PassedOver(i)
        BY <1>2, <2>11 DEF PassedOver, NothingToGiveUp
    <2> QED BY <1>5, <2>1, <2>2, <2>3, <2>4, <2>5, <2>6, <2>7, <2>8, <2>9, <2>10, <2>11
<1>7. EmitterInv'
    BY <1>1, <1>3, <1>4, <1>6, UntouchedEmitter
<1>8. NothingToGiveUp'
    BY <1>2, <1>3, <1>6 DEF NothingToGiveUp
<1> QED BY <1>7, <1>8

-----------------------------------------------------------------------------
LEMMA StartsSaid == TurnInit => TranscriptInv
<1> SUFFICES ASSUME TurnInit PROVE TranscriptInv
    OBVIOUS
<1> USE DEF TurnInit, Init
<1>1. EmitterType
    <2>1. toolIds \in [Index -> Id \cup {None}]
        OBVIOUS
    <2>2. items \in Seq(Item) /\ said \in Seq(Words) /\ content \in Texts
        BY DEF Texts
    <2>3. added \in BOOLEAN /\ segment \in Nat /\ round \in Nat
        OBVIOUS
    <2> QED BY <2>1, <2>2, <2>3 DEF EmitterType
<1>2. OneForOne /\ SegmentsInOrder /\ OpenSegment
    BY DEF OneForOne, SegmentsInOrder, OpenSegment
<1>3. EmitterInv
    BY <1>1, <1>2 DEF EmitterInv
<1>4. NothingToGiveUp
    BY DEF NothingToGiveUp
<1> QED BY <1>3, <1>4, SaidFollows DEF TranscriptInv

\* Every step keeps items and words one for one.
LEMMA StepSaid ==
    ASSUME TranscriptInv, [TurnNext]_turnVars
    PROVE  TranscriptInv'
<1>1. CASE UNCHANGED turnVars
    BY <1>1 DEF turnVars, providerVars, vars, streamVars, emitterVars, roundVars,
        TranscriptInv, TranscriptIsSaid, EmitterInv, EmitterType, OneForOne,
        SegmentsInOrder, OpenSegment, NothingToGiveUp, Shows
<1>2. CASE runtime = "completed" /\ TurnNext
    <2>1. Stop
        BY <1>2 DEF TurnNext, CodexText, CodexTool, CodexShows, CodexEnds, CodexIsStopped,
            CodexFails, Codex, Execute, StoppedAtTool, CompleteAttempts, CompleteQuietly,
            CompleteText, CompleteStarts, CompleteItem, CompleteDelta, CompleteEnds, Complete,
            RoundFails, RoundReturns, NextRound, Ended
    <2> QED BY <1>2, <2>1 DEF Stop, Ended
<1>3. CASE runtime # "completed" /\ TurnNext
    <2>0. EmitterInv /\ NothingToGiveUp
        BY <1>3 DEF TranscriptInv
    <2>1. round \in Nat /\ toolIds \in [Index -> Id \cup {None}]
        BY <2>0 DEF EmitterInv, EmitterType
    <2> DEFINE Goal == EmitterInv' /\ NothingToGiveUp'
    <2>2. Goal => TranscriptInv'
        <3>1. EmitterInv => TranscriptIsSaid
            BY SaidFollows
        <3>2. EmitterInv' => TranscriptIsSaid'
            BY SaidFollows, PTL
        <3> QED BY <3>2 DEF TranscriptInv
    <2>3. ASSUME NEW piece \in Pieces, CodexText(piece) PROVE Goal
        <3>1. EmitterInv'
            BY <2>0, <2>1, <2>3, DeltaKeepsEmitter
                DEF CodexText, Codex, providerVars, vars, streamVars
        <3>2. NothingToGiveUp'
            BY <2>0, <2>3 DEF NothingToGiveUp, CodexText, Codex, providerVars, vars, streamVars
        <3> QED BY <3>1, <3>2
    <2>4. ASSUME NEW piece \in Pieces, CompleteText(piece) PROVE Goal
        <3>1. EmitterInv'
            BY <2>0, <2>1, <2>4, DeltaKeepsEmitter
                DEF CompleteText, Complete, TextDelta, roundVars
        <3>2. NothingToGiveUp'
            BY <2>0, <2>4 DEF NothingToGiveUp, CompleteText, Complete, TextDelta, Reading, roundVars
        <3> QED BY <3>1, <3>2
    <2>5. ASSUME NEW c \in CodexCall, CodexTool(c) PROVE Goal
        <3>1. CodexId(c) \in TurnId
            BY DEF CodexId, TurnId
        <3>2. EmitterInv'
            BY <2>0, <2>1, <2>5, <3>1, CallKeepsEmitter
                DEF CodexTool, Codex, providerVars, vars, streamVars
        <3>3. NothingToGiveUp'
            BY <2>0, <2>5 DEF NothingToGiveUp, CodexTool, Codex, providerVars, vars, streamVars
        <3> QED BY <3>2, <3>3
    <2>6. CASE CodexShows \/ CodexIsStopped
        <3>1. EmitterInv'
            BY <2>0, <2>1, <2>6, UntouchedEmitter
                DEF CodexShows, CodexIsStopped, Codex, providerVars, vars, streamVars
        <3>2. NothingToGiveUp'
            BY <2>0, <2>6 DEF NothingToGiveUp, CodexShows, CodexIsStopped, Codex, providerVars,
                vars, streamVars, emitterVars
        <3> QED BY <2>2, <3>1, <3>2
    <2>7. CASE CodexEnds
        <3>1. FinalizeTurn
            BY <2>7 DEF CodexEnds
        <3> QED BY <2>0, <3>1, FinalSaysTheSame DEF FinalizeTurn, TranscriptInv
    <2>8. CASE CodexFails
        <3>1. UNCHANGED <<items, added, content, segment, toolItems, round, progressed,
                          kept, reported, phase, visible, toolIds>>
            BY <2>8 DEF CodexFails, providerVars, vars, streamVars
        <3>2. said' = said
            BY <2>0, <2>8 DEF CodexFails, NothingToGiveUp
        <3>3. EmitterInv'
            BY <2>0, <2>1, <3>1, <3>2, UntouchedEmitter DEF emitterVars
        <3>4. NothingToGiveUp'
            BY <2>0, <2>8, <3>1, <3>2 DEF CodexFails, NothingToGiveUp
        <3> QED BY <2>2, <3>3, <3>4
    <2>9. CASE Execute
        <3>1. PICK answer \in Answers(Head(todo)) : EmitToolResult(Head(todo), answer)
            BY <2>9 DEF Execute
        <3>2. answer \in Results
            BY <3>1 DEF Answers, Results
        <3>3. EmitterInv'
            BY <2>0, <2>1, <2>9, <3>1, <3>2, ResultKeepsEmitter
                DEF Execute, providerVars, vars, streamVars
        <3>4. NothingToGiveUp'
            <4>1. /\ said' = said /\ phase' = phase /\ kept' = kept /\ runtime' = runtime
                  /\ progressed' = progressed /\ at = "tools"
                  /\ at' = IF runtime = "codex" THEN "runtime" ELSE at
                BY <2>9, <3>1 DEF Execute, EmitToolResult, providerVars, vars
            <4> QED BY <2>0, <4>1 DEF NothingToGiveUp
        <3> QED BY <2>2, <3>3, <3>4
    <2>10. CASE StoppedAtTool \/ RoundFails
        <3>1. EmitterInv'
            BY <2>0, <2>1, <2>10, UntouchedEmitter
                DEF StoppedAtTool, RoundFails, providerVars, vars, streamVars
        <3>2. NothingToGiveUp'
            BY <2>0, <2>10 DEF StoppedAtTool, RoundFails, NothingToGiveUp
        <3> QED BY <2>2, <3>1, <3>2
    <2>11. CASE CompleteAttempts
        <3>1. said = kept /\ UNCHANGED <<runtime, at, kept, round, items, added, content,
                                        segment, toolItems>>
            BY <2>0, <2>11 DEF CompleteAttempts, Complete, Attempt, NothingToGiveUp, roundVars
        <3>2. said' = said
            BY <2>11, <3>1 DEF CompleteAttempts
        <3>3. toolIds' \in [Index -> Id \cup {None}]
            BY <2>1, <2>11 DEF CompleteAttempts, Attempt, streamVars
        <3>4. EmitterInv'
            BY <2>0, <2>1, <3>1, <3>2, <3>3, UntouchedEmitter DEF emitterVars
        <3>5. NothingToGiveUp'
            BY <2>11, <3>1, <3>2 DEF NothingToGiveUp, CompleteAttempts, Complete
        <3> QED BY <2>2, <3>4, <3>5
    <2>12. CASE CompleteQuietly
        BY <2>0, <2>2, <2>12, QuietStep
    <2>13. ASSUME NEW i \in Index, NEW named \in BOOLEAN, CompleteStarts(i, named)
           PROVE  Goal
        <3>1. IdOf(ItemId(i, named)) \in TurnId
            BY <2>1, CallsHaveIds DEF ItemId, Given, Indexed, Id
        <3>2. EmitterInv'
            BY <2>0, <2>1, <2>13, <3>1, CallKeepsEmitter
                DEF CompleteStarts, Complete, ToolStarted, roundVars
        <3>3. NothingToGiveUp'
            BY <2>0, <2>13 DEF CompleteStarts, Complete, ToolStarted, Reading, roundVars,
                NothingToGiveUp
        <3> QED BY <3>2, <3>3
    <2>14. ASSUME NEW i \in Index, NEW named \in BOOLEAN, CompleteItem(i, named)
           PROVE  Goal
        <3>1. EmitterInv'
            BY <2>0, <2>1, <2>14, ArgumentsKeepEmitter
                DEF CompleteItem, Complete, ToolCompleted, roundVars
        <3>2. NothingToGiveUp'
            BY <2>0, <2>14 DEF CompleteItem, Complete, ToolCompleted, Reading, roundVars,
                NothingToGiveUp
        <3> QED BY <3>1, <3>2
    <2>15. ASSUME NEW i \in Index, NEW named \in BOOLEAN, CompleteDelta(i, named) PROVE Goal
        <3>1. CallOf(i, named) \in Id
            <4>1. toolIds[i] \in Id \cup {None}
                BY <2>1
            <4> QED BY <4>1 DEF CallOf, Given, Made, Id
        <3>2. IdOf(CallOf(i, named)) \in TurnId
            BY <2>1, <3>1, CallsHaveIds
        <3>3. toolIds' \in [Index -> Id \cup {None}] /\ round' = round
            BY <2>1, <2>15 DEF CompleteDelta, Complete, ToolArgumentsDelta, roundVars, Given, Id
        <3>4. EmitterInv'
            <4>1. UNCHANGED emitterVars \/ EmitToolStarted(IdOf(CallOf(i, named)))
                BY <2>15 DEF CompleteDelta
            <4> QED BY <2>0, <2>1, <3>2, <3>3, <4>1, UntouchedEmitter, CallKeepsEmitter
        <3>5. NothingToGiveUp'
            BY <2>0, <2>15 DEF CompleteDelta, Complete, ToolArgumentsDelta, Reading, roundVars,
                NothingToGiveUp
        <3> QED BY <3>4, <3>5
    <2>16. ASSUME NEW leftover \in SetToSeqs(DOMAIN active), CompleteEnds(leftover) PROVE Goal
        <3>1. runtime = "compat" /\ at = "runtime" /\ phase = "streaming"
            BY <2>16 DEF CompleteEnds, Complete, StreamEnds
        <3>2. UNCHANGED <<runtime, at, kept, round, said, visible>>
            BY <2>16 DEF CompleteEnds, Complete, ArgumentsReceived, roundVars, StreamEnds,
                AttemptFails, Return, streamVars
        <3>3. toolIds' = toolIds
            BY <2>16 DEF CompleteEnds, StreamEnds, AttemptFails, streamVars
        <3>4. phase' \in {"check", "backoff", "done"}
              /\ (phase' \in {"check", "backoff"} => ~visible)
            <4>1. StreamEnds(leftover)
                BY <2>16 DEF CompleteEnds
            <4>2. AttemptFails(FALSE, ~visible) \/ Return("ok")
                <5> DEFINE all == calls \o [n \in DOMAIN leftover |-> Parsed(leftover[n])]
                <5>1. CASE "word" \notin Range(text) /\ all = <<>>
                    BY <4>1, <5>1, Zenon DEF StreamEnds
                <5>2. CASE ~("word" \notin Range(text) /\ all = <<>>)
                    BY <4>1, <5>2, Zenon DEF StreamEnds
                <5> QED BY <5>1, <5>2
            <4>3. Return("ok") => phase' = "done"
                BY DEF Return
            <4>4. CASE AttemptFails(FALSE, ~visible)
                BY <3>1, <4>4, FailedAttempt
            <4> QED BY <4>2, <4>3, <4>4
        <3>5. EmitterInv'
            BY <2>0, <2>1, <2>16, <3>2, <3>3, ArgumentsKeepEmitter DEF CompleteEnds
        <3>6. NothingToGiveUp'
            BY <2>0, <3>1, <3>2, <3>4 DEF NothingToGiveUp
        <3> QED BY <3>5, <3>6
    <2>17. CASE RoundReturns
        <3>1. CASE calls = <<>>
            <4>1. FinalizeTurn
                BY <2>17, <3>1 DEF RoundReturns
            <4> QED BY <2>0, <4>1, FinalSaysTheSame DEF FinalizeTurn, TranscriptInv
        <3>2. CASE calls # <<>>
            <4>1. EmitterInv'
                BY <2>0, <2>1, <2>17, <3>2, UntouchedEmitter
                    DEF RoundReturns, providerVars, vars, streamVars
            <4>2. NothingToGiveUp'
                BY <2>0, <2>17, <3>2 DEF RoundReturns, NothingToGiveUp, providerVars, vars,
                    streamVars, emitterVars
            <4> QED BY <2>2, <4>1, <4>2
        <3> QED BY <3>1, <3>2
    <2>18. CASE NextRound
        <3>1. toolIds' \in [Index -> Id \cup {None}] /\ round' \in Nat
            BY <2>1, <2>18 DEF NextRound
        <3>2. EmitterInv'
            BY <2>0, <2>18, <3>1, UntouchedEmitter DEF NextRound
        <3>3. NothingToGiveUp'
            BY <2>18 DEF NextRound, NothingToGiveUp, emitterVars
        <3> QED BY <2>2, <3>2, <3>3
    <2>19. CASE Stop
        <3>1. UNCHANGED <<toolIds, phase, visible>>
            BY <2>19 DEF Stop, Cancel, streamVars
        <3>2. EmitterInv'
            BY <2>0, <2>1, <2>19, <3>1, UntouchedEmitter DEF Stop, roundVars
        <3>3. NothingToGiveUp'
            BY <2>0, <2>19, <3>1 DEF Stop, NothingToGiveUp, roundVars, emitterVars
        <3> QED BY <2>2, <3>2, <3>3
    <2> QED BY <1>3, <2>2, <2>3, <2>4, <2>5, <2>6, <2>7, <2>8, <2>9, <2>10, <2>11, <2>12,
               <2>13, <2>14, <2>15, <2>16, <2>17, <2>18, <2>19 DEF TurnNext
<1> QED BY <1>1, <1>2, <1>3

(* The transcript is what was said, whatever happens to the turn.            *)
THEOREM TranscriptIsOneForOne == TurnSpec => []TranscriptIsSaid
<1>1. TranscriptInv => TranscriptIsSaid
    BY DEF TranscriptInv
<1> QED BY <1>1, StartsSaid, StepSaid, PTL DEF TurnSpec

-----------------------------------------------------------------------------
\* What happens inside one call of complete is a step of it, or its successor
\* begins.
LEMMA TurnStep == TurnNext => [Next]_vars \/ NextRound
<1> USE DEF Next, Event
<1>1. (\E piece \in Pieces : CodexText(piece)) => UNCHANGED vars
    BY DEF CodexText, Codex, providerVars
<1>2. (\E piece \in Pieces : CompleteText(piece)) => Next
    BY DEF CompleteText
<1>3. (\E c \in CodexCall : CodexTool(c)) => UNCHANGED vars
    BY DEF CodexTool, Codex, providerVars
<1>4. CodexShows \/ CodexEnds \/ CodexIsStopped \/ CodexFails => UNCHANGED vars
    BY DEF CodexShows, CodexEnds, CodexIsStopped, CodexFails, Codex, FinalizeTurn, providerVars
<1>5. Execute \/ StoppedAtTool \/ RoundFails \/ RoundReturns => UNCHANGED vars
    BY DEF Execute, StoppedAtTool, RoundFails, RoundReturns, FinalizeTurn, providerVars
<1>6. CompleteAttempts \/ CompleteQuietly => Next
    BY DEF CompleteAttempts, CompleteQuietly
<1>7. ASSUME NEW i \in Index, NEW named \in BOOLEAN
      PROVE  (CompleteStarts(i, named) \/ CompleteItem(i, named)
                \/ CompleteDelta(i, named)) => Next
    BY DEF CompleteStarts, CompleteItem, CompleteDelta
<1>8. (\E leftover \in SetToSeqs(DOMAIN active) : CompleteEnds(leftover)) => Next
    BY DEF CompleteEnds
<1>9. Stop => Next
    BY DEF Stop
<1> QED BY <1>1, <1>2, <1>3, <1>4, <1>5, <1>6, <1>7, <1>8, <1>9 DEF TurnNext

\* A round begins as complete does.
LEMMA RoundBegins == cancelled \in BOOLEAN /\ NextRound => Init'
BY DEF NextRound, Init

LEMMA TurnKeepsProvider ==
    ASSUME StreamInv, Assembled, [TurnNext]_turnVars
    PROVE  StreamInv' /\ Assembled'
<1>1. [Next]_vars \/ NextRound
    BY TurnStep DEF turnVars, providerVars
<1>2. Init' => StreamInv' /\ Assembled'
    BY InitInv, InitAssembles, PTL
<1>3. NextRound => Init'
    BY RoundBegins DEF StreamInv, TypeOK
<1> QED BY <1>1, <1>2, <1>3, StepInv, StepAssembles

(* No call of an answer is lost, torn or made twice, in any round of a turn. *)
THEOREM TurnKeepsCalls == TurnSpec => []CallsAreKept
<1>1. TurnInit => StreamInv /\ Assembled
    BY InitInv, InitAssembles DEF TurnInit
<1>2. StreamInv /\ Assembled /\ [TurnNext]_turnVars => (StreamInv /\ Assembled)'
    BY TurnKeepsProvider
<1>3. StreamInv /\ Assembled => CallsAreKept
    BY DEF StreamInv, WhatIsShown, AnnouncedCallsAreMade, Ids, Assembled, CallsAreKept
<1> QED BY <1>1, <1>2, <1>3, PTL DEF TurnSpec

-----------------------------------------------------------------------------
(* Nothing goes on when a turn completes.  Until then every text but the     *)
(* open one is closed, and every call has its last result or is awaited: it  *)
(* is to be executed, or complete has announced it and will return it.       *)
TextsClosed ==
    \A n \in 1 .. Len(items) :
        items[n].key[1] = "text" /\ items[n].key # <<"text", segment>> =>
            items[n].status = "completed"

Awaited ==
    IF at = "tools" THEN Range(todo)
    ELSE IF runtime = "compat" THEN {IdOf(id) : id \in announced} ELSE {}

ToolsSettled ==
    \A n \in 1 .. Len(items) : items[n].key[1] = "tool" =>
        \/ items[n].key[2] \in Awaited
        \/ IsLastResult(reported, items[n].key[2], items[n].status)

\* Rounds are counted, and Codex is given one result at a time.
Rounds ==
    /\ round \in 0 .. MaxRounds
    /\ at \in {"runtime", "tools"}
    /\ todo \in Seq(TurnId)
    /\ DOMAIN reported \subseteq TurnId \X (0 .. round)
    /\ runtime = "compat" /\ at = "tools" => round < MaxRounds
    /\ runtime = "codex" /\ at = "tools" => Len(todo) = 1

\* Calls of a stream that are not complete have been announced.
Announced == phase = "streaming" => DOMAIN active \subseteq announced

Settling ==
    /\ runtime \in {"codex", "compat"} \cup Ended
    /\ runtime \notin Ended => Rounds /\ TextsClosed /\ ToolsSettled
    /\ TranscriptIsSettled

\* What a step adds to the transcript is in S, and the calls that are there
\* stay as they are.
Carried(S) ==
    \A n \in 1 .. Len(items') : items'[n].key[1] = "tool" =>
        \/ items'[n].key[2] \in S
        \/ /\ n \in 1 .. Len(items)
           /\ items'[n].key = items[n].key /\ items'[n].status = items[n].status

LEMMA CarriedStaySettled ==
    ASSUME ToolsSettled, NEW S, Carried(S), reported' = reported,
           Awaited \cup S \subseteq Awaited'
    PROVE  ToolsSettled'
<1> SUFFICES ASSUME NEW n \in 1 .. Len(items'), items'[n].key[1] = "tool"
             PROVE  \/ items'[n].key[2] \in Awaited'
                    \/ IsLastResult(reported', items'[n].key[2], items'[n].status)
    BY DEF ToolsSettled
<1>1. CASE items'[n].key[2] \in S
    BY <1>1
<1>2. CASE /\ n \in 1 .. Len(items)
           /\ items'[n].key = items[n].key /\ items'[n].status = items[n].status
    <2>1. items[n].key[2] \in Awaited \/ IsLastResult(reported, items[n].key[2], items[n].status)
        BY <1>2 DEF ToolsSettled
    <2> QED BY <1>2, <2>1 DEF IsLastResult
<1> QED BY <1>1, <1>2 DEF Carried

LEMMA UntouchedSettles ==
    ASSUME UNCHANGED <<items, segment>>, TextsClosed
    PROVE  TextsClosed' /\ Carried({})
BY DEF TextsClosed, Carried

LEMMA DeltaSettles ==
    ASSUME EmitterInv, TextsClosed, NEW piece, AppendAssistantDelta(piece)
    PROVE  TextsClosed' /\ Carried({})
<1> DEFINE L == Len(items)
           P == Len(Present)
<1>1. items \in Seq(Item) /\ L \in Nat /\ segment \in Nat
    BY DEF EmitterInv, EmitterType
<1>2. TextItem \in Item /\ TextItem.key = <<"text", segment>>
    <2>1. <<"text", segment>> \in Key /\ "running" \in ItemStatus /\ <<>> \in Texts
        BY <1>1 DEF Key, ItemStatus, Texts
    <2> QED BY <2>1 DEF TextItem, Item
<1>3. /\ Present \in Seq(Item) /\ P \in Nat /\ DOMAIN Present = 1 .. P
      /\ \A n \in 1 .. P : \/ n \in 1 .. L /\ Present[n] = items[n]
                           \/ Present[n] = TextItem
    <2>1. CASE added
        BY <1>1, <2>1 DEF Present
    <2>2. CASE ~added
        BY <1>1, <1>2, <2>2 DEF Present
    <2> QED BY <2>1, <2>2
<1>4. items' = [n \in 1 .. P |-> IF Present[n].key = <<"text", segment>>
                                 THEN [Present[n] EXCEPT !.text = Append(@, piece)]
                                 ELSE Present[n]]
    BY <1>3 DEF AppendAssistantDelta
<1>5. Len(items') = P /\ segment' = segment
    BY <1>3, <1>4 DEF AppendAssistantDelta
<1>6. ASSUME NEW n \in 1 .. P
      PROVE  /\ items'[n].key = Present[n].key
             /\ items'[n].status = Present[n].status
    <2>1. Present[n] \in Item
        BY <1>3
    <2> QED BY <1>4, <2>1 DEF Item
<1>7. TextsClosed'
    BY <1>2, <1>3, <1>5, <1>6 DEF TextsClosed
<1>8. Carried({})
    BY <1>2, <1>3, <1>5, <1>6 DEF Carried
<1> QED BY <1>7, <1>8

LEMMA CallSettles ==
    ASSUME EmitterInv, TextsClosed, NEW id \in TurnId, EmitToolStarted(id)
    PROVE  TextsClosed' /\ Carried({id})
<1> DEFINE L == Len(items)
           last == [TextItem EXCEPT !.text = content, !.status = "completed"]
<1>1. /\ items \in Seq(Item) /\ L \in Nat /\ segment \in Nat /\ DOMAIN items = 1 .. L
      /\ Closed \in Seq(Item) /\ Len(Closed) = L
    BY ClosedIsShown DEF EmitterInv, EmitterType
<1>2. CASE id \in toolItems
    BY <1>2 DEF EmitToolStarted, emitterVars, TextsClosed, Carried
<1>3. CASE id \notin toolItems
    <2>1. items' = Append(Closed, ToolItem(id))
          /\ segment' = IF added THEN segment + 1 ELSE segment
        BY <1>3 DEF EmitToolStarted
    <2>2. ToolItem(id).key = <<"tool", id>>
        BY DEF ToolItem
    <2>3. /\ Len(items') = L + 1 /\ items'[L + 1] = ToolItem(id)
          /\ \A n \in 1 .. L : items'[n] = Closed[n]
        BY <1>1, <2>1
    <2>4. last.key = <<"text", segment>> /\ last.status = "completed"
        BY DEF TextItem
    <2> HIDE DEF last
    <2>5. ASSUME NEW n \in 1 .. L
          PROVE  \/ Closed[n] = items[n] /\ (added => items[n].key # <<"text", segment>>)
                 \/ Closed[n] = last
        <3>1. CASE added
            <4>1. Closed = [m \in 1 .. L |-> IF items[m].key = <<"text", segment>>
                                             THEN last ELSE items[m]]
                BY <1>1, <2>4, <3>1 DEF Closed, Updated, last
            <4> QED BY <4>1
        <3>2. CASE ~added
            BY <3>2 DEF Closed
        <3> QED BY <3>1, <3>2
    <2>6. \A n \in 1 .. L : ~added => items[n].key # <<"text", segment>>
        BY DEF EmitterInv, SegmentsInOrder
    <2>7. TextsClosed'
        <3> SUFFICES ASSUME NEW n \in 1 .. L + 1, items'[n].key[1] = "text"
                     PROVE  items'[n].status = "completed"
            BY <2>3 DEF TextsClosed
        <3>1. n \in 1 .. L
            BY <1>1, <2>2, <2>3
        <3>2. CASE Closed[n] = items[n] /\ (added => items[n].key # <<"text", segment>>)
            BY <2>3, <2>6, <3>1, <3>2 DEF TextsClosed
        <3>3. CASE Closed[n] = last
            BY <2>3, <2>4, <3>1, <3>3
        <3> QED BY <2>5, <3>1, <3>2, <3>3
    <2>8. Carried({id})
        <3> SUFFICES ASSUME NEW n \in 1 .. L + 1, items'[n].key[1] = "tool"
                     PROVE  \/ items'[n].key[2] = id
                            \/ n \in 1 .. L /\ items'[n] = items[n]
            BY <1>1, <2>3 DEF Carried
        <3>1. CASE n = L + 1
            BY <2>2, <2>3, <3>1
        <3>2. CASE n # L + 1
            <4>1. n \in 1 .. L
                BY <1>1, <3>2
            <4>2. Closed[n] # last
                BY <2>3, <2>4, <4>1
            <4> QED BY <2>3, <2>5, <4>1, <4>2
        <3> QED BY <3>1, <3>2
    <2> QED BY <2>7, <2>8
<1> QED BY <1>2, <1>3

LEMMA ArgumentsSettle ==
    ASSUME EmitterInv, TextsClosed, NEW ids, ArgumentsReceived(ids)
    PROVE  TextsClosed' /\ Carried(ids)
<1> DEFINE L == Len(items)
<1>1. items \in Seq(Item) /\ L \in Nat /\ DOMAIN items = 1 .. L
    BY DEF EmitterInv, EmitterType
<1>2. /\ items' = [n \in 1 .. L |->
                    IF \E id \in ids : items[n].key = <<"tool", id>>
                    THEN [items[n] EXCEPT !.status = "running"] ELSE items[n]]
      /\ segment' = segment
    BY <1>1 DEF ArgumentsReceived
<1>3. Len(items') = L
    BY <1>1, <1>2
<1>4. ASSUME NEW n \in 1 .. L
      PROVE  \/ items'[n] = items[n]
             \/ \E id \in ids : items[n].key = <<"tool", id>> /\ items'[n].key = <<"tool", id>>
    <2>1. items[n] \in Item
        BY <1>1
    <2> QED BY <1>2, <2>1 DEF Item
<1>5. TextsClosed'
    <2> SUFFICES ASSUME NEW n \in 1 .. L, items'[n].key[1] = "text",
                        items'[n].key # <<"text", segment>>
                 PROVE  items'[n].status = "completed"
        BY <1>2, <1>3 DEF TextsClosed
    <2>1. items'[n] = items[n]
        BY <1>4
    <2> QED BY <2>1 DEF TextsClosed
<1>6. Carried(ids)
    BY <1>3, <1>4 DEF Carried
<1> QED BY <1>5, <1>6

LEMMA FinalSettles ==
    ASSUME EmitterInv, TextsClosed, FinalizeTurn
    PROVE  /\ Carried({})
           /\ \A n \in 1 .. Len(items') :
                /\ items'[n].key[1] \in {"text", "tool"}
                /\ items'[n].key[1] = "text" => items'[n].status = "completed"
<1> DEFINE whole == IF content = <<>> THEN <<"done">> ELSE content
           last == [TextItem EXCEPT !.text = whole, !.status = "completed"]
           L == Len(items)
           P == Len(Present)
<1>1. items \in Seq(Item) /\ L \in Nat /\ segment \in Nat
    BY DEF EmitterInv, EmitterType
<1>2. TextItem \in Item /\ TextItem.key = <<"text", segment>>
    <2>1. <<"text", segment>> \in Key /\ "running" \in ItemStatus /\ <<>> \in Texts
        BY <1>1 DEF Key, ItemStatus, Texts
    <2> QED BY <2>1 DEF TextItem, Item
<1>3. /\ P \in Nat /\ DOMAIN Present = 1 .. P
      /\ \A n \in 1 .. P : \/ n \in 1 .. L /\ Present[n] = items[n]
                           \/ Present[n].key = <<"text", segment>>
    <2>1. CASE added
        BY <1>1, <2>1 DEF Present
    <2>2. CASE ~added
        BY <1>1, <1>2, <2>2 DEF Present
    <2> QED BY <2>1, <2>2
<1>4. last.key = <<"text", segment>> /\ last.status = "completed"
    BY DEF TextItem
<1>5. items' = Updated(Present, last)
    BY DEF FinalizeTurn
<1> HIDE DEF last
<1>6. items' = [n \in 1 .. P |-> IF Present[n].key = <<"text", segment>>
                                 THEN last ELSE Present[n]]
    BY <1>3, <1>4, <1>5 DEF Updated
<1>7. Len(items') = P
    BY <1>3, <1>6
<1>8. ASSUME NEW n \in 1 .. P
      PROVE  \/ items'[n] = last
             \/ /\ n \in 1 .. L /\ items'[n] = items[n]
                /\ items[n].key # <<"text", segment>>
    BY <1>3, <1>6
<1>9. Carried({})
    BY <1>4, <1>7, <1>8 DEF Carried
<1>10. ASSUME NEW n \in 1 .. P, items'[n].key[1] = "text"
       PROVE  items'[n].status = "completed"
    BY <1>4, <1>8, <1>10 DEF TextsClosed
<1>11. ASSUME NEW n \in 1 .. P PROVE items'[n].key[1] \in {"text", "tool"}
    <2>1. CASE items'[n] = last
        BY <1>4, <2>1
    <2>2. CASE n \in 1 .. L /\ items'[n] = items[n]
        <3>1. items[n] \in Item
            BY <1>1, <2>2
        <3>2. items[n].key \in Key
            BY <3>1 DEF Item
        <3> QED BY <2>2, <3>2 DEF Key
    <2> QED BY <1>8, <2>1, <2>2
<1> QED BY <1>7, <1>9, <1>10, <1>11

\* A result that is given is the last one under its id.
LEMMA ResultSettles ==
    ASSUME EmitterInv, Settling, runtime \notin Ended, Execute
    PROVE  TextsClosed' /\ ToolsSettled' /\ Rounds'
<1> DEFINE L == Len(items)
           id == Head(todo)
<1>0. Rounds /\ TextsClosed /\ ToolsSettled
    BY DEF Settling
<1>1. PICK answer \in Answers(id) :
        /\ EmitToolResult(id, answer)
        /\ reported' = [c \in DOMAIN reported \cup {<<id, round>>} |->
                            IF c = <<id, round>> THEN answer ELSE reported[c]]
    BY DEF Execute
<1>2. /\ items \in Seq(Item) /\ L \in Nat /\ DOMAIN items = 1 .. L
      /\ todo \in Seq(TurnId) /\ todo # <<>> /\ todo' = Tail(todo) /\ at = "tools"
      /\ round' = round /\ round \in 0 .. MaxRounds /\ segment' = segment
      /\ runtime' = runtime /\ at' = IF runtime = "codex" THEN "runtime" ELSE at
    BY <1>0, <1>1 DEF EmitterInv, EmitterType, Execute, Rounds, EmitToolResult
<1>3. id \in TurnId /\ todo' \in Seq(TurnId) /\ Range(todo) \subseteq {id} \cup Range(todo')
    <2>1. id \in TurnId /\ todo' \in Seq(TurnId)
        BY <1>2
    <2>2. ASSUME NEW n \in DOMAIN todo PROVE todo[n] \in {id} \cup Range(todo')
        <3>1. CASE n = 1
            BY <1>2, <3>1
        <3>2. CASE n # 1
            <4>1. n - 1 \in DOMAIN todo' /\ todo'[n - 1] = todo[n]
                BY <1>2, <3>2
            <4> QED BY <4>1 DEF Range
        <3> QED BY <3>1, <3>2
    <2> QED BY <2>1, <2>2 DEF Range
<1>4. /\ DOMAIN reported' = DOMAIN reported \cup {<<id, round>>}
      /\ reported'[<<id, round>>] = answer
      /\ \A c \in DOMAIN reported : c # <<id, round>> => reported'[c] = reported[c]
    BY <1>1
<1>5. IsLastResult(reported', id, answer)
    <2>1. round \in 0 .. MaxRounds
        BY <1>2
    <2>2. ASSUME NEW l \in round + 1 .. MaxRounds PROVE <<id, l>> \notin DOMAIN reported'
        <3>1. <<id, l>> # <<id, round>> /\ l \notin 0 .. round
            BY <2>1, <2>2, TranscriptAssumption
        <3> QED BY <1>0, <1>4, <3>1 DEF Rounds
    <2> QED BY <1>4, <2>1, <2>2 DEF IsLastResult
<1>6. ASSUME NEW other, other # id, NEW status, IsLastResult(reported, other, status)
      PROVE  IsLastResult(reported', other, status)
    <2>1. PICK k \in 0 .. MaxRounds :
            /\ <<other, k>> \in DOMAIN reported /\ reported[<<other, k>>] = status
            /\ \A l \in k + 1 .. MaxRounds : <<other, l>> \notin DOMAIN reported
        BY <1>6 DEF IsLastResult
    <2>2. \A l : <<other, l>> # <<id, round>>
        BY <1>6
    <2> QED BY <1>4, <2>1, <2>2 DEF IsLastResult
<1> DEFINE new == [ToolItem(id) EXCEPT !.status = answer]
<1>7. new.key = <<"tool", id>> /\ new.status = answer
    BY DEF ToolItem
<1> HIDE DEF new
<1>8. items' = [n \in 1 .. L |-> IF items[n].key = <<"tool", id>> THEN new ELSE items[n]]
    BY <1>1, <1>2, <1>7 DEF EmitToolResult, Updated, new
<1>9. Len(items') = L
    BY <1>2, <1>8
<1>10. TextsClosed'
    BY <1>0, <1>2, <1>7, <1>8, <1>9 DEF TextsClosed
<1>11. Awaited \subseteq {id} \cup Awaited'
    <2>1. Awaited = Range(todo)
        BY <1>2 DEF Awaited
    <2>2. CASE runtime = "codex"
        <3>1. Len(todo) = 1
            BY <1>0, <1>2, <2>2 DEF Rounds
        <3>2. Range(todo) = {id}
            BY <1>2, <3>1 DEF Range
        <3> QED BY <2>1, <3>2
    <2>3. CASE runtime # "codex"
        <3>1. Awaited' = Range(todo')
            BY <1>2, <2>3 DEF Awaited
        <3> QED BY <1>3, <2>1, <3>1
    <2> QED BY <2>2, <2>3
<1>12. ToolsSettled'
    <2> SUFFICES ASSUME NEW n \in 1 .. L, items'[n].key[1] = "tool"
                 PROVE  \/ items'[n].key[2] \in Awaited'
                        \/ IsLastResult(reported', items'[n].key[2], items'[n].status)
        BY <1>9 DEF ToolsSettled
    <2>1. CASE items[n].key = <<"tool", id>>
        <3>1. items'[n] = new
            BY <1>8, <2>1
        <3> QED BY <1>5, <1>7, <3>1
    <2>2. CASE items[n].key # <<"tool", id>>
        <3>1. items'[n] = items[n]
            BY <1>8, <2>2
        <3>2. items[n].key[2] # id
            <4>1. items[n] \in Item
                BY <1>2
            <4> QED BY <2>2, <3>1, <4>1 DEF Item, Key
        <3>3. items[n].key[2] \in Awaited \/ IsLastResult(reported, items[n].key[2], items[n].status)
            BY <1>0, <3>1 DEF ToolsSettled
        <3>4. CASE items[n].key[2] \in Awaited
            BY <1>11, <3>1, <3>2, <3>4
        <3>5. CASE IsLastResult(reported, items[n].key[2], items[n].status)
            <4>1. IsLastResult(reported', items[n].key[2], items[n].status)
                BY <1>6, <3>2, <3>5
            <4> QED BY <3>1, <4>1
        <3> QED BY <3>3, <3>4, <3>5
    <2> QED BY <2>1, <2>2
<1>13. Rounds'
    <2>1. DOMAIN reported' \subseteq TurnId \X (0 .. round')
        BY <1>0, <1>2, <1>3, <1>4 DEF Rounds
    <2>2. runtime' = "compat" /\ at' = "tools" => round' < MaxRounds
        BY <1>0, <1>2 DEF Rounds
    <2>3. runtime' = "codex" => at' = "runtime"
        BY <1>2
    <2> QED BY <1>2, <1>3, <2>1, <2>2, <2>3 DEF Rounds
<1> QED BY <1>10, <1>12, <1>13

LEMMA StepAnnounces ==
    ASSUME StreamInv, Announced, [Next]_vars
    PROVE  Announced'
<1>1. CASE UNCHANGED vars
    BY <1>1 DEF vars, streamVars, ghostVars, Announced
<1>2. CASE Connected
    BY <1>2 DEF Connected, streamVars, ghostVars, Announced, StreamInv, NothingShownYet
<1>3. CASE Event
    <2> USE DEF Announced, Reading
    <2>1. ASSUME NEW piece \in Pieces, TextDelta(piece) PROVE Announced'
        BY <2>1 DEF TextDelta
    <2>2. CASE ActivityDelta
        BY <2>2 DEF ActivityDelta
    <2>3. ASSUME NEW i \in Index, NEW named \in BOOLEAN, ToolStarted(i, named)
          PROVE  Announced'
        BY <2>3 DEF ToolStarted, Announce
    <2>4. ASSUME NEW i \in Index, NEW named \in BOOLEAN, ToolCompleted(i, named)
          PROVE  Announced'
        BY <2>4 DEF ToolCompleted
    <2>5. ASSUME NEW i \in Index, PassedOver(i) PROVE Announced'
        BY <2>5 DEF PassedOver, ghostVars
    <2>6. ASSUME NEW i \in Index, NEW named \in BOOLEAN, ToolArgumentsDelta(i, named)
          PROVE  Announced'
        BY <2>6 DEF ToolArgumentsDelta, Announce
    <2> QED BY <1>3, <2>1, <2>2, <2>3, <2>4, <2>5, <2>6 DEF Event
<1>4. CASE Cancel
    BY <1>4 DEF Cancel, streamVars, ghostVars, Announced
<1>5. ASSUME NEW retryable, NEW unsupported, AttemptFails(retryable, unsupported)
      PROVE  Announced'
    BY <1>5 DEF AttemptFails, Return, streamVars, ghostVars, Announced
<1>6. CASE HttpFails \/ NotAStream \/ ErrorEvent \/ InvalidEvent \/ TransportFails
    BY <1>5, <1>6 DEF HttpFails, NotAStream, ErrorEvent, InvalidEvent, TransportFails
<1>7. CASE Attempt \/ BackoffOver \/ CancelSeen \/ EmitFails
    BY <1>7 DEF Attempt, BackoffOver, CancelSeen, EmitFails, Return, Announced
<1>8. CASE \E leftover \in SetToSeqs(DOMAIN active) : StreamEnds(leftover)
    <2>1. PICK leftover : StreamEnds(leftover)
        BY <1>8
    <2>2. AttemptFails(FALSE, ~visible) \/ phase' = "done"
        BY <2>1 DEF StreamEnds, Return
    <2> QED BY <1>5, <2>2 DEF Announced
<1> QED BY <1>1, <1>2, <1>3, <1>4, <1>6, <1>7, <1>8 DEF Next

LEMMA StartsSettled == TurnInit => Settling /\ Announced
<1> SUFFICES ASSUME TurnInit PROVE Settling /\ Announced
    OBVIOUS
<1> USE DEF TurnInit, Init
<1>1. Rounds
    <2>1. todo \in Seq(TurnId) /\ round \in 0 .. MaxRounds
        BY TranscriptAssumption
    <2> QED BY <2>1 DEF Rounds
<1>2. TextsClosed /\ ToolsSettled /\ TranscriptIsSettled
    BY DEF TextsClosed, ToolsSettled, TranscriptIsSettled
<1> QED BY <1>1, <1>2 DEF Settling, Announced, Ended

\* A turn that completes with nothing awaited is settled.
LEMMA CompletedIsSettled ==
    ASSUME EmitterInv, Settling, runtime \notin Ended, FinalizeTurn, Awaited = {}
    PROVE  Settling'
<1>1. /\ Carried({}) /\ ToolsSettled
      /\ \A n \in 1 .. Len(items') :
            /\ items'[n].key[1] \in {"text", "tool"}
            /\ items'[n].key[1] = "text" => items'[n].status = "completed"
    BY FinalSettles DEF Settling
<1>2. runtime' = "completed" /\ reported' = reported
    BY DEF FinalizeTurn
<1>3. DOMAIN items' = 1 .. Len(items')
    <2>1. items \in Seq(Item) /\ segment \in Nat
        BY DEF EmitterInv, EmitterType
    <2>2. DOMAIN Present = 1 .. Len(Present) /\ Len(Present) \in Nat
        BY <2>1 DEF Present
    <2>3. DOMAIN items' = 1 .. Len(Present)
        BY <2>2 DEF FinalizeTurn, Updated
    <2> QED BY <2>2, <2>3
<1>4. ASSUME NEW n \in DOMAIN items'
      PROVE  IF items'[n].key[1] = "text" THEN items'[n].status = "completed"
             ELSE IsLastResult(reported', items'[n].key[2], items'[n].status)
    <2>1. CASE items'[n].key[1] = "text"
        BY <1>1, <1>3, <2>1
    <2>2. CASE items'[n].key[1] # "text"
        <3>1. items'[n].key[1] = "tool"
            BY <1>1, <1>3, <2>2
        <3>2. /\ n \in 1 .. Len(items)
              /\ items'[n].key = items[n].key /\ items'[n].status = items[n].status
            BY <1>1, <1>3, <3>1 DEF Carried
        <3> QED BY <1>1, <1>2, <2>2, <3>1, <3>2 DEF ToolsSettled
    <2> QED BY <2>1, <2>2
<1> QED BY <1>2, <1>4 DEF Settling, TranscriptIsSettled, Ended

\* What happens inside complete is awaited of it.
LEMMA CompleteSettles ==
    ASSUME EmitterInv, Settling, Complete,
           NEW ids, Carried({IdOf(id) : id \in ids}), TextsClosed',
           ids \subseteq announced', announced \subseteq announced'
    PROVE  Settling'
<1>1. runtime = "compat" /\ at = "runtime"
      /\ UNCHANGED <<runtime, at, todo, round, progressed, kept, reported>>
    BY DEF Complete, roundVars
<1>2. Rounds /\ ToolsSettled
    BY <1>1 DEF Settling, Ended
<1>3. Awaited = {IdOf(id) : id \in announced} /\ Awaited' = {IdOf(id) : id \in announced'}
    BY <1>1 DEF Awaited, IdOf
<1>4. Awaited \cup {IdOf(id) : id \in ids} \subseteq Awaited'
    BY <1>3
<1>5. ToolsSettled'
    BY <1>1, <1>2, <1>4, CarriedStaySettled
<1>6. Rounds'
    BY <1>1, <1>2 DEF Rounds
<1> QED BY <1>1, <1>5, <1>6 DEF Settling, TranscriptIsSettled, Ended

LEMMA StepSettles ==
    ASSUME StreamInv, Assembled, TranscriptInv, Settling, Announced, [TurnNext]_turnVars
    PROVE  Settling'
<1>1. CASE UNCHANGED turnVars
    BY <1>1 DEF turnVars, providerVars, vars, streamVars, ghostVars, emitterVars, roundVars,
        Settling, Rounds, TextsClosed, ToolsSettled, Awaited, IdOf, TranscriptIsSettled
<1>2. CASE runtime \in Ended /\ TurnNext
    <2>1. Stop
        BY <1>2 DEF TurnNext, CodexText, CodexTool, CodexShows, CodexEnds, CodexIsStopped,
            CodexFails, Codex, Execute, StoppedAtTool, CompleteAttempts, CompleteQuietly,
            CompleteText, CompleteStarts, CompleteItem, CompleteDelta, CompleteEnds, Complete,
            RoundFails, RoundReturns, NextRound, Ended
    <2> QED BY <1>2, <2>1 DEF Stop
<1>3. CASE runtime \notin Ended /\ TurnNext
    <2>0. /\ EmitterInv /\ NothingToGiveUp /\ Rounds /\ TextsClosed /\ ToolsSettled
          /\ runtime \in {"codex", "compat"}
        BY <1>3 DEF TranscriptInv, Settling, Ended
    <2>1. toolIds \in [Index -> Id \cup {None}] /\ announced \subseteq Id /\ round \in Nat
        BY <2>0 DEF EmitterInv, EmitterType, StreamInv, TypeOK
    <2>2. runtime' \in {"failed", "cancelled"} => Settling'
        BY DEF Settling, Ended, TranscriptIsSettled
    <2>3. /\ Rounds' /\ TextsClosed' /\ ToolsSettled'
          /\ runtime' \in {"codex", "compat"}
          => Settling'
        BY DEF Settling, Ended, TranscriptIsSettled
    <2>4. ASSUME NEW piece \in Pieces, CodexText(piece) PROVE Settling'
        <3>1. /\ UNCHANGED <<runtime, at, todo, round, kept, reported, announced>>
              /\ AppendAssistantDelta(piece) /\ runtime = "codex" /\ at = "runtime"
            BY <2>4 DEF CodexText, Codex, providerVars, vars, ghostVars
        <3>2. TextsClosed' /\ Carried({})
            BY <2>0, <3>1, DeltaSettles
        <3>3. ToolsSettled'
            <4>1. Awaited = {} 
                BY <3>1 DEF Awaited
            <4> QED BY <2>0, <3>1, <3>2, <4>1, CarriedStaySettled
        <3>4. Rounds'
            BY <2>0, <3>1 DEF Rounds
        <3> QED BY <2>3, <3>1, <3>2, <3>3, <3>4
    <2>5. ASSUME NEW c \in CodexCall, CodexTool(c) PROVE Settling'
        <3> DEFINE id == CodexId(c)
        <3>1. /\ UNCHANGED <<runtime, round, kept, reported>>
              /\ EmitToolStarted(id) /\ runtime = "codex" /\ at = "runtime"
              /\ at' = "tools" /\ todo' = <<id>>
            BY <2>5 DEF CodexTool, Codex
        <3>2. id \in TurnId
            BY DEF CodexId, TurnId
        <3> HIDE DEF id
        <3>3. TextsClosed' /\ Carried({id})
            BY <2>0, <3>1, <3>2, CallSettles
        <3>4. Awaited = {} /\ Awaited' = {id}
            BY <3>1 DEF Awaited, Range
        <3>5. ToolsSettled'
            BY <2>0, <3>1, <3>3, <3>4, CarriedStaySettled
        <3>6. Rounds'
            <4>1. todo' \in Seq(TurnId) /\ Len(todo') = 1
                BY <3>1, <3>2
            <4> QED BY <2>0, <3>1, <4>1 DEF Rounds
        <3> QED BY <2>3, <3>1, <3>3, <3>5, <3>6
    <2>6. CASE CodexShows
        <3>1. /\ UNCHANGED <<runtime, at, todo, round, reported, items, segment>>
              /\ runtime = "codex" /\ at = "runtime"
            BY <2>6 DEF CodexShows, Codex, emitterVars
        <3>2. TextsClosed' /\ Carried({})
            BY <2>0, <3>1, UntouchedSettles
        <3>3. ToolsSettled'
            <4>1. Awaited = {}
                BY <3>1 DEF Awaited
            <4> QED BY <2>0, <3>1, <3>2, <4>1, CarriedStaySettled
        <3>4. Rounds'
            BY <2>0, <3>1 DEF Rounds
        <3> QED BY <2>3, <3>1, <3>2, <3>3, <3>4
    <2>7. CASE CodexIsStopped \/ StoppedAtTool \/ RoundFails
        BY <2>2, <2>7 DEF CodexIsStopped, StoppedAtTool, RoundFails
    <2>8. CASE CodexEnds
        <3>1. FinalizeTurn /\ Awaited = {}
            BY <2>8 DEF CodexEnds, Awaited
        <3> QED BY <1>3, <2>0, <3>1, CompletedIsSettled
    <2>9. CASE CodexFails
        <3>1. CASE progressed
            BY <2>2, <2>9, <3>1 DEF CodexFails
        <3>2. CASE ~progressed
            <4>1. /\ UNCHANGED <<items, segment, round, reported>>
                  /\ runtime' = "compat" /\ at' = "runtime" /\ todo' = <<>>
                BY <2>9, <3>2 DEF CodexFails
            <4>2. Len(items) = 0
                <5>1. said = <<>>
                    BY <2>0, <2>9, <3>2 DEF CodexFails, NothingToGiveUp
                <5> QED BY <2>0, <5>1 DEF EmitterInv, OneForOne
            <4>3. TextsClosed' /\ ToolsSettled'
                BY <4>1, <4>2 DEF TextsClosed, ToolsSettled
            <4>4. Rounds'
                <5>1. todo' \in Seq(TurnId)
                    BY <4>1
                <5> QED BY <2>0, <4>1, <5>1 DEF Rounds
            <4> QED BY <2>3, <4>1, <4>3, <4>4
        <3> QED BY <3>1, <3>2
    <2>10. CASE Execute
        <3>1. TextsClosed' /\ ToolsSettled' /\ Rounds'
            BY <1>3, <2>0, <2>10, ResultSettles
        <3> QED BY <2>0, <2>3, <2>10, <3>1 DEF Execute
    <2>11. ASSUME Complete, TextsClosed', Carried({}), announced' = announced
           PROVE  Settling'
        <3>1. {IdOf(id) : id \in {}} = {}
            OBVIOUS
        <3> QED BY <2>0, <2>11, <3>1, CompleteSettles
    <2>12. ASSUME NEW piece \in Pieces, CompleteText(piece) PROVE Settling'
        <3>1. Complete /\ AppendAssistantDelta(piece) /\ announced' = announced
            BY <2>12 DEF CompleteText, TextDelta
        <3> QED BY <2>0, <2>11, <3>1, DeltaSettles
    <2>13. CASE CompleteAttempts
        <3>1. Complete /\ UNCHANGED <<items, segment, announced>>
            BY <2>13 DEF CompleteAttempts, Attempt
        <3> QED BY <2>0, <2>11, <3>1, UntouchedSettles
    <2>14. CASE CompleteQuietly
        <3>1. Complete /\ UNCHANGED <<items, segment>>
            BY <2>14 DEF CompleteQuietly, emitterVars
        <3>2. announced' = announced
            BY <2>14 DEF CompleteQuietly, BackoffOver, CancelSeen, HttpFails, NotAStream,
                Connected, ActivityDelta, ErrorEvent, InvalidEvent, TransportFails, EmitFails,
                PassedOver, AttemptFails, ghostVars
        <3> QED BY <2>0, <2>11, <3>1, <3>2, UntouchedSettles
    <2>15. ASSUME NEW id \in Id, Complete, announced \subseteq announced',
                  \/ EmitToolStarted(IdOf(id)) /\ id \in announced'
                  \/ UNCHANGED emitterVars
           PROVE  Settling'
        <3>1. CASE EmitToolStarted(IdOf(id)) /\ id \in announced'
            <4>1. IdOf(id) \in TurnId
                BY <2>1, CallsHaveIds
            <4>2. TextsClosed' /\ Carried({IdOf(id)})
                BY <2>0, <3>1, <4>1, CallSettles
            <4>3. Carried({IdOf(x) : x \in {id}})
                <5>1. {IdOf(x) : x \in {id}} = {IdOf(id)}
                    OBVIOUS
                <5> QED BY <4>2, <5>1
            <4>4. {id} \subseteq announced'
                BY <3>1
            <4> QED BY <2>0, <2>15, <4>2, <4>3, <4>4, CompleteSettles
        <3>2. CASE UNCHANGED emitterVars
            <4>1. TextsClosed' /\ Carried({})
                BY <2>0, <3>2, UntouchedSettles DEF emitterVars
            <4>2. Carried({IdOf(x) : x \in {}})
                <5>1. {IdOf(x) : x \in {}} = {}
                    OBVIOUS
                <5> QED BY <4>1, <5>1
            <4>3. {} \subseteq announced'
                OBVIOUS
            <4> QED BY <2>0, <2>15, <4>1, <4>2, <4>3, CompleteSettles
        <3> QED BY <2>15, <3>1, <3>2
    <2>16. ASSUME NEW i \in Index, NEW named \in BOOLEAN, CompleteStarts(i, named)
           PROVE  Settling'
        <3> DEFINE item == ItemId(i, named)
        <3>1. item \in Id
            BY DEF ItemId, Given, Indexed, Id
        <3>2. Complete /\ EmitToolStarted(IdOf(item)) /\ phase = "streaming"
              /\ Announce(item)
            BY <2>16 DEF CompleteStarts, ToolStarted, Reading
        <3> HIDE DEF item
        <3>3. announced \subseteq announced' /\ item \in announced'
            BY <3>2 DEF Announce, Announced
        <3> QED BY <2>15, <3>1, <3>2, <3>3
    <2>17. ASSUME NEW i \in Index, NEW named \in BOOLEAN, CompleteDelta(i, named)
           PROVE  Settling'
        <3> DEFINE call == CallOf(i, named)
        <3>1. call \in Id
            <4>1. toolIds[i] \in Id \cup {None}
                BY <2>1
            <4> QED BY <4>1 DEF CallOf, Given, Made, Id
        <3>2. Complete /\ phase = "streaming" /\ Announce(call)
              /\ IF call \in DOMAIN active THEN UNCHANGED emitterVars
                 ELSE EmitToolStarted(IdOf(call))
            BY <2>17 DEF CompleteDelta, ToolArgumentsDelta, Reading
        <3> HIDE DEF call
        <3>3. announced \subseteq announced' /\ call \in announced'
            BY <3>2 DEF Announce, Announced
        <3> QED BY <2>15, <3>1, <3>2, <3>3
    <2>18. ASSUME NEW ids, ids \subseteq announced', announced \subseteq announced', Complete,
                  ArgumentsReceived({IdOf(id) : id \in ids})
           PROVE  Settling'
        <3>1. TextsClosed' /\ Carried({IdOf(id) : id \in ids})
            BY <2>0, <2>18, ArgumentsSettle
        <3> QED BY <2>0, <2>18, <3>1, CompleteSettles
    <2>19. ASSUME NEW i \in Index, NEW named \in BOOLEAN, CompleteItem(i, named)
           PROVE  Settling'
        <3> DEFINE item == ItemId(i, named)
        <3>1. /\ Complete /\ announced' = announced \cup {item}
              /\ ArgumentsReceived({IdOf(item)})
            BY <2>19 DEF CompleteItem, ToolCompleted, Reading
        <3> HIDE DEF item
        <3>2. {IdOf(id) : id \in {item}} = {IdOf(item)}
            OBVIOUS
        <3>3. {item} \subseteq announced' /\ announced \subseteq announced'
            BY <3>1
        <3>4. ArgumentsReceived({IdOf(id) : id \in {item}})
            BY <3>1, <3>2
        <3> QED BY <2>18, <3>1, <3>3, <3>4
    <2>20. ASSUME NEW leftover \in SetToSeqs(DOMAIN active), CompleteEnds(leftover)
           PROVE  Settling'
        <3>1. Complete /\ phase = "streaming"
              /\ ArgumentsReceived({IdOf(id) : id \in DOMAIN active})
            BY <2>20 DEF CompleteEnds, StreamEnds
        <3>2. announced' = announced
            BY <2>20 DEF CompleteEnds, StreamEnds, AttemptFails, ghostVars
        <3>3. DOMAIN active \subseteq announced
            BY <3>1 DEF Announced
        <3> QED BY <2>18, <3>1, <3>2, <3>3
    <2>21. CASE RoundReturns
        <3>1. /\ runtime = "compat" /\ at = "runtime"
              /\ announced \subseteq {calls[n].id : n \in DOMAIN calls}
              /\ calls \in Seq([id : Id, whole : BOOLEAN])
            BY <2>21 DEF RoundReturns, StreamInv, WhatIsShown, Ids, TypeOK
        <3>2. Awaited = {IdOf(id) : id \in announced}
            BY <3>1 DEF Awaited
        <3>3. CASE calls = <<>>
            <4>1. FinalizeTurn
                BY <2>21, <3>3 DEF RoundReturns
            <4>2. announced = {}
                BY <3>1, <3>3
            <4> QED BY <1>3, <2>0, <3>2, <4>1, <4>2, CompletedIsSettled
        <3>4. CASE calls # <<>> /\ round = MaxRounds
            BY <2>2, <2>21, <3>4 DEF RoundReturns
        <3>5. CASE calls # <<>> /\ round # MaxRounds
            <4>1. /\ UNCHANGED <<runtime, round, reported, items, segment>>
                  /\ at' = "tools" /\ todo' = [n \in DOMAIN calls |-> IdOf(calls[n].id)]
                BY <2>21, <3>5 DEF RoundReturns, emitterVars
            <4>2. Awaited' = {IdOf(calls[n].id) : n \in DOMAIN calls}
                BY <4>1 DEF Awaited, Range
            <4>3. TextsClosed' /\ Carried({})
                BY <2>0, <4>1, UntouchedSettles
            <4>4. ToolsSettled'
                BY <2>0, <3>1, <3>2, <4>1, <4>2, <4>3, CarriedStaySettled
            <4>5. todo' \in Seq(TurnId)
                <5>1. ASSUME NEW n \in DOMAIN calls PROVE IdOf(calls[n].id) \in TurnId
                    <6>1. calls[n].id \in Id
                        <7> DEFINE C == [id : Id, whole : BOOLEAN]
                        <7>1. \A c \in C : c.id \in Id
                            OBVIOUS
                        <7> HIDE DEF C
                        <7>2. calls \in Seq(C)
                            BY <3>1 DEF C
                        <7> QED BY <5>1, <7>1, <7>2
                    <6> QED BY <2>1, <6>1, CallsHaveIds
                <5>2. DOMAIN calls = 1 .. Len(calls) /\ Len(calls) \in Nat
                    BY <3>1
                <5> QED BY <4>1, <5>1, <5>2
            <4>6. Rounds'
                <5>1. round < MaxRounds
                    BY <2>0, <3>5, TranscriptAssumption DEF Rounds
                <5> QED BY <2>0, <3>1, <4>1, <4>5, <5>1 DEF Rounds
            <4> QED BY <2>3, <3>1, <4>1, <4>3, <4>4, <4>6
        <3> QED BY <3>3, <3>4, <3>5
    <2>22. CASE NextRound
        <3>1. /\ UNCHANGED <<runtime, todo, reported, items, segment>>
              /\ runtime = "compat" /\ at = "tools" /\ todo = <<>> /\ at' = "runtime"
              /\ round' = round + 1
            BY <2>22 DEF NextRound, emitterVars
        <3>2. Awaited = {}
            BY <3>1 DEF Awaited, Range
        <3>3. TextsClosed' /\ Carried({})
            BY <2>0, <3>1, UntouchedSettles
        <3>4. ToolsSettled'
            BY <2>0, <3>1, <3>2, <3>3, CarriedStaySettled
        <3>5. Rounds'
            <4>1. round' \in 0 .. MaxRounds /\ 0 .. round \subseteq 0 .. round'
                BY <2>0, <3>1, TranscriptAssumption DEF Rounds
            <4> QED BY <2>0, <3>1, <4>1 DEF Rounds
        <3> QED BY <2>3, <3>1, <3>3, <3>4, <3>5
    <2>23. CASE Stop
        <3>1. UNCHANGED <<runtime, at, todo, round, reported, items, segment, announced>>
            BY <2>23 DEF Stop, Cancel, roundVars, emitterVars, ghostVars
        <3>2. Awaited' = Awaited
            BY <3>1 DEF Awaited, IdOf
        <3>3. TextsClosed' /\ Carried({})
            BY <2>0, <3>1, UntouchedSettles
        <3>4. ToolsSettled'
            BY <2>0, <3>1, <3>2, <3>3, CarriedStaySettled
        <3>5. Rounds'
            BY <2>0, <3>1 DEF Rounds
        <3> QED BY <2>0, <2>3, <3>1, <3>3, <3>4, <3>5
    <2> QED BY <1>3, <2>4, <2>5, <2>6, <2>7, <2>8, <2>9, <2>10, <2>12, <2>13, <2>14, <2>16,
               <2>17, <2>19, <2>20, <2>21, <2>22, <2>23 DEF TurnNext
<1> QED BY <1>1, <1>2, <1>3

(* The transcript of a turn is what was said, and when the turn completes    *)
(* nothing in it goes on: texts are closed and calls show their last result. *)
THEOREM TurnTellsTheTruth == TurnSpec => []TranscriptIsTrue
<1> DEFINE Inv == StreamInv /\ Assembled /\ TranscriptInv /\ Settling /\ Announced
<1>1. TurnInit => Inv
    BY InitInv, InitAssembles, StartsSaid, StartsSettled DEF TurnInit
<1>2. Inv /\ [TurnNext]_turnVars => Inv'
    <2>1. Inv /\ [TurnNext]_turnVars => StreamInv' /\ Assembled'
        BY TurnKeepsProvider
    <2>2. Inv /\ [TurnNext]_turnVars => TranscriptInv' /\ Settling'
        BY StepSaid, StepSettles
    <2>3. Inv /\ [TurnNext]_turnVars => Announced'
        <3>1. [TurnNext]_turnVars => [Next]_vars \/ NextRound
            BY TurnStep DEF turnVars, providerVars
        <3>2. NextRound => Announced'
            BY DEF NextRound, Announced
        <3> QED BY <3>1, <3>2, StepAnnounces
    <2> QED BY <2>1, <2>2, <2>3
<1>3. Inv => TranscriptIsTrue
    BY DEF TranscriptInv, Settling, TranscriptIsTrue
<1> QED BY <1>1, <1>2, <1>3, PTL DEF TurnSpec

=============================================================================
