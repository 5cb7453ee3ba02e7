------------------------- MODULE DocumentSave_proofs -------------------------
(***************************************************************************)
(* Four promises of a document's session, for any number of edits, changes *)
(* of others, crashes and calls: what the person typed last is kept until  *)
(* it is saved or given up; an edit that is not saved can be recovered; a  *)
(* clean editor shows the file; and what other programs wrote is replaced  *)
(* only when it has been shown.                                            *)
(***************************************************************************)
EXTENDS DocumentSave, FiniteSetTheorems, TLAPS

RecordFields == {"open", "status", "dirty", "readOnly", "revision", "source", "model"}
CallFields == {"kind", "phase", "doc", "version", "content", "reply"}

(* What every record of a session is: an edit makes no read-only record      *)
(* dirty, and a record that is loading has nothing to lose.                  *)
IsRecord(d) ==
    /\ DOMAIN d = RecordFields
    /\ d.dirty => ~ReadOnly(d)
    /\ d.status = "loading" => d.model = None /\ ~d.dirty

(* The handlers of a queue, in which one at most is an effect's.             *)
Handlers(q) == {q[i] : i \in 1..Len(q)}
IsQueue(q) ==
    /\ \E T : q \in Seq(T)
    /\ \A i, j \in 1..Len(q) : IsEffect(q[i]) /\ IsEffect(q[j]) => i = j

(* The commands a handler of each kind waits for.                            *)
IsCall(c) ==
    /\ DOMAIN c = CallFields
    /\ \/ c.kind \in Saving /\ c.phase \in {"inspect", "written", "stamp"}
       \/ c.kind \in {"auto", "close", "discard"} /\ c.phase = "clear"
       \/ c.kind \in {"load", "reload"} /\ c.phase \in {"content", "stamp"}
       \/ c.kind = "lookup" /\ c.phase = "draft"

QueueInv ==
    /\ IsQueue(calls)
    /\ \A c \in Handlers(calls) :
          /\ IsCall(c)
          /\ c.kind = "load" => doc.open /\ doc.status = "loading"

(* What a handler that saves still has to write, if anything is owed.        *)
Carries(c) == c.phase = "inspect" /\ c.content = edits
WillSave(c) ==
    /\ c.kind \in {"manual", "close"} /\ owed => Carries(c)
    /\ c.kind = "auto" => /\ c.version \in Nat /\ c.version <= edits
                          /\ owed /\ c.version = edits => Carries(c)
                          /\ c.phase = "clear" => ~owed

(* Without this a save that is marked done could have written something else. *)
EditInv ==
    /\ edits \in Nat
    /\ "edit" \notin races =>
          /\ owed => doc.open /\ doc.dirty /\ doc.model = edits
          /\ \A c \in Handlers(calls) : WillSave(c)

(* Stronger than DirtyIsRecoverable: the file is not needed.                 *)
DraftInv ==
    doc.open /\ doc.dirty /\ (\A c \in Handlers(calls) : c.kind # "discard")
        => recoveryTimer \/ (draft # None /\ draft.model = doc.model)

(* A draft is a record, which None is not.                                   *)
NoneIsNoDraft == \A m, s : [model |-> m, source |-> s] # None

Inv ==
    /\ races \in Scenarios
    /\ IsRecord(doc)
    /\ QueueInv
    /\ EditInv
    /\ "answer" \notin races => DraftInv

-----------------------------------------------------------------------------
(* Queues *)

(* A handler more.                                                           *)
LEMMA AppendCall ==
    ASSUME NEW q, NEW c, IsQueue(q),
           IsEffect(c) => \A b \in Handlers(q) : ~IsEffect(b)
    PROVE  IsQueue(Append(q, c)) /\ Handlers(Append(q, c)) = Handlers(q) \cup {c}
<1>1. PICK T : q \in Seq(T)
  BY DEF IsQueue
<1>2. q \in Seq(T \cup {c}) /\ c \in T \cup {c}
  BY <1>1
<1>3. /\ Append(q, c) \in Seq(T \cup {c})
      /\ Len(Append(q, c)) = Len(q) + 1 /\ Len(q) \in Nat
      /\ \A i \in 1..Len(q) : Append(q, c)[i] = q[i]
      /\ Append(q, c)[Len(q) + 1] = c
  BY <1>2
<1>4. Handlers(Append(q, c)) = Handlers(q) \cup {c}
  BY <1>3 DEF Handlers
<1>5. ASSUME NEW i \in 1..Len(Append(q, c)), NEW j \in 1..Len(Append(q, c)),
             IsEffect(Append(q, c)[i]), IsEffect(Append(q, c)[j])
      PROVE  i = j
  <2>1. CASE i \in 1..Len(q) /\ j \in 1..Len(q)
    BY <1>3, <1>5, <2>1 DEF IsQueue
  <2>2. CASE ~IsEffect(c)
    BY <1>3, <1>5, <2>1, <2>2
  <2>3. CASE IsEffect(c)
    <3>1. \A k \in 1..Len(q) : ~IsEffect(q[k])
      BY <2>3 DEF Handlers
    <3> QED BY <1>3, <1>5, <3>1
  <2> QED BY <2>2, <2>3
<1> QED BY <1>3, <1>4, <1>5 DEF IsQueue

(* The handler at the head has its reply.                                    *)
LEMMA TailCalls ==
    ASSUME NEW q, IsQueue(q), q # <<>>
    PROVE  /\ IsQueue(Tail(q))
           /\ Handlers(q) = Handlers(Tail(q)) \cup {Head(q)}
           /\ IsEffect(Head(q)) => \A b \in Handlers(Tail(q)) : ~IsEffect(b)
<1>1. PICK T : q \in Seq(T)
  BY DEF IsQueue
<1>2. /\ Tail(q) \in Seq(T)
      /\ Len(q) \in Nat \ {0} /\ Len(Tail(q)) = Len(q) - 1
      /\ \A i \in 1..Len(q) - 1 : Tail(q)[i] = q[i + 1]
      /\ Head(q) = q[1]
  BY <1>1
<1>3. \A i \in 1..Len(q) : i = 1 \/ (i - 1 \in 1..Len(Tail(q)) /\ q[i] = Tail(q)[i - 1])
  BY <1>2
<1>4. \A i \in 1..Len(Tail(q)) : i + 1 \in 1..Len(q) /\ Tail(q)[i] = q[i + 1]
  BY <1>2
<1>5. Handlers(q) = Handlers(Tail(q)) \cup {Head(q)}
  <2>1. \A i \in 1..Len(q) : q[i] \in Handlers(Tail(q)) \cup {Head(q)}
    BY <1>2, <1>3 DEF Handlers
  <2>2. \A i \in 1..Len(Tail(q)) : Tail(q)[i] \in Handlers(q)
    BY <1>4 DEF Handlers
  <2>3. Head(q) \in Handlers(q)
    BY <1>2 DEF Handlers
  <2>4. \A c \in Handlers(q) : c \in Handlers(Tail(q)) \cup {Head(q)}
    BY <2>1 DEF Handlers
  <2>5. \A c \in Handlers(Tail(q)) : c \in Handlers(q)
    BY <2>2 DEF Handlers
  <2> QED BY <2>3, <2>4, <2>5
<1>6. \A i, j \in 1..Len(Tail(q)) :
         IsEffect(Tail(q)[i]) /\ IsEffect(Tail(q)[j]) => i = j
  BY <1>2, <1>4 DEF IsQueue
<1>7. IsEffect(Head(q)) => \A b \in Handlers(Tail(q)) : ~IsEffect(b)
  <2> SUFFICES ASSUME IsEffect(q[1]), NEW i \in 1..Len(Tail(q)), IsEffect(Tail(q)[i])
               PROVE  FALSE
    BY <1>2 DEF Handlers
  <2> QED BY <1>2, <1>4 DEF IsQueue
<1> QED BY <1>2, <1>5, <1>6, <1>7 DEF IsQueue

(* A new record cancels the effect.                                          *)
LEMMA CancelledEffect ==
    ASSUME NEW q, IsQueue(q)
    PROVE  /\ IsQueue(WithoutEffect(q))
           /\ \A c \in Handlers(WithoutEffect(q)) : c \in Handlers(q) /\ ~IsEffect(c)
<1>1. CASE \A i \in 1..Len(q) : ~IsEffect(q[i])
  BY <1>1 DEF WithoutEffect, Handlers
<1>2. CASE \E i \in 1..Len(q) : IsEffect(q[i])
  <2> DEFINE at == CHOOSE i \in 1..Len(q) : IsEffect(q[i])
             w == [i \in 1 .. Len(q) - 1 |-> q[IF i < at THEN i ELSE i + 1]]
  <2>1. PICK T : q \in Seq(T)
    BY DEF IsQueue
  <2>2. Len(q) \in Nat /\ at \in 1..Len(q) /\ IsEffect(q[at]) /\ WithoutEffect(q) = w
    BY <1>2, <2>1 DEF WithoutEffect
  <2> HIDE DEF at
  <2>3. \A i \in 1 .. Len(q) - 1 : \E j \in 1..Len(q) : j # at /\ w[i] = q[j]
    BY <2>2
  <2>4. \A j \in 1..Len(q) : q[j] \in T
    BY <2>1
  <2>5. w \in [1 .. Len(q) - 1 -> T]
    BY <2>3, <2>4
  <2>6. w \in Seq(T) /\ Len(w) = Len(q) - 1
    <3>1. Len(q) - 1 \in Nat
      BY <2>2
    <3> HIDE DEF w
    <3> QED BY <2>5, <3>1
  <2>7. \A j \in 1..Len(q) : j # at => ~IsEffect(q[j])
    BY <2>2 DEF IsQueue
  <2>8. \A c \in Handlers(w) : c \in Handlers(q) /\ ~IsEffect(c)
    <3> SUFFICES ASSUME NEW i \in 1 .. Len(q) - 1
                 PROVE  w[i] \in Handlers(q) /\ ~IsEffect(w[i])
      BY <2>6 DEF Handlers
    <3> QED BY <2>3, <2>7 DEF Handlers
  <2>9. \A i \in 1..Len(w) : ~IsEffect(w[i])
    BY <2>8 DEF Handlers
  <2> QED BY <2>2, <2>6, <2>8, <2>9 DEF IsQueue
<1> QED BY <1>1, <1>2

-----------------------------------------------------------------------------
(* Records *)

(* What the store makes of a record that an inspection or an event is about. *)
Follows(d, old) ==
    /\ IsRecord(d)
    /\ old.dirty => d.open = old.open /\ d.dirty /\ d.model = old.model

LEMMA RecordsFollow ==
    ASSUME NEW d, IsRecord(d), NEW file, NEW event
    PROVE  Follows(Inspected(d, file)[2], d) /\ Follows(Announced(d, event)[2], d)
<1> USE DEF RecordFields, IsRecord, Follows, ReadOnly
<1>1. Follows(d, d)
  OBVIOUS
<1>2. Follows(Missing(d), d)
  BY DEF Missing
<1>3. Follows(BecomesReadOnly(d), d)
  BY DEF BecomesReadOnly
<1>4. d.status = "read-only" => Follows(Writable(d), d)
  BY DEF Writable
<1>5. ASSUME NEW stamp PROVE Follows(Modified(d, stamp, FALSE), d)
  BY DEF Modified
<1>6. Follows(Modified(d, None, d.readOnly), d)
  BY DEF Modified
<1> HIDE DEF RecordFields, IsRecord, Follows, ReadOnly
<1>7. Follows(Inspected(d, file)[2], d)
  BY <1>1, <1>2, <1>3, <1>4, <1>5 DEF Inspected
<1>8. Follows(Announced(d, event)[2], d)
  BY <1>1, <1>2, <1>3, <1>4, <1>5, <1>6 DEF Announced
<1> QED BY <1>7, <1>8

(* A new record cancels the effects, and its draft is written in time.       *)
LEMMA RecordBecomes ==
    ASSUME NEW d, NEW q, NEW left, BecomeLeaving(d, q, left),
           IsRecord(d), IsQueue(q), \A c \in Handlers(q) : IsCall(c)
    PROVE  /\ doc' = d /\ IsRecord(doc)'
           /\ QueueInv' /\ DraftInv'
           /\ \A c \in Handlers(calls') : c \in Handlers(q) \/ c.kind \in {"load", "lookup"}
<1> DEFINE w == WithoutEffect(q)
           load == [NewCall("load", "content", disk.content) EXCEPT !.doc = d]
           lookup == NewCall("lookup", "draft", Candidate(left, d))
<1>1. doc' = d /\ IsRecord(doc)'
  BY DEF BecomeLeaving, IsRecord, ReadOnly
<1>2. /\ IsQueue(w)
      /\ \A c \in Handlers(w) : c \in Handlers(q) /\ ~IsEffect(c)
  BY CancelledEffect
<1>3. load.kind = "load" /\ IsCall(load)
  BY DEF NewCall, IsCall, CallFields
<1>4. lookup.kind = "lookup" /\ IsCall(lookup)
  BY DEF NewCall, IsCall, CallFields
<1>5. /\ IsQueue(Append(w, load)) /\ Handlers(Append(w, load)) = Handlers(w) \cup {load}
      /\ IsQueue(Append(w, lookup)) /\ Handlers(Append(w, lookup)) = Handlers(w) \cup {lookup}
  BY <1>2, AppendCall
<1>6. \/ calls' = Append(w, load) /\ d.open /\ d.status = "loading"
      \/ calls' = Append(w, lookup)
      \/ calls' = w
  BY DEF BecomeLeaving
<1> HIDE DEF w, load, lookup
<1>7. IsQueue(calls')
  BY <1>2, <1>5, <1>6
<1>8. \A c \in Handlers(calls') :
        \/ c \in Handlers(q) /\ ~IsEffect(c)
        \/ c = load /\ d.open /\ d.status = "loading"
        \/ c = lookup
  BY <1>2, <1>5, <1>6
<1>9. QueueInv'
  <2>1. IsQueue(calls)'
    BY <1>7 DEF IsQueue, IsEffect
  <2>2. \A c \in Handlers(calls') :
          IsCall(c) /\ (c.kind = "load" => doc'.open /\ doc'.status = "loading")
    BY <1>1, <1>3, <1>4, <1>8 DEF IsEffect
  <2> QED BY <2>1, <2>2 DEF QueueInv, Handlers, IsCall, Saving
<1>10. DraftInv'
  BY <1>1 DEF BecomeLeaving, DraftInv, WantsDraft, IsRecord, ReadOnly
<1> QED BY <1>1, <1>3, <1>4, <1>8, <1>9, <1>10

-----------------------------------------------------------------------------
(* Steps *)

(* A step that replaces the record keeps the invariant if it keeps the edit. *)
LEMMA StepOfARecord ==
    ASSUME Inv, NEW d, NEW q, NEW left, BecomeLeaving(d, q, left), races' = races,
           IsRecord(d), IsQueue(q), \A c \in Handlers(q) : IsCall(c),
           edits' \in Nat,
           "edit" \notin races =>
              /\ owed' => d.open /\ d.dirty /\ d.model = edits'
              /\ \A c \in Handlers(q) : WillSave(c)'
    PROVE  Inv'
<1>1. /\ doc' = d /\ IsRecord(doc)' /\ QueueInv' /\ DraftInv'
      /\ \A c \in Handlers(calls') : c \in Handlers(q) \/ c.kind \in {"load", "lookup"}
  BY RecordBecomes
<1>2. \A c : c.kind \in {"load", "lookup"} => WillSave(c)'
  BY DEF WillSave
<1>3. "edit" \notin races => \A c \in Handlers(calls') : WillSave(c)'
  BY <1>1, <1>2
<1>4. EditInv'
  BY <1>1, <1>3 DEF EditInv, Handlers
<1> QED BY <1>1, <1>4 DEF Inv

(* What a handler will save does not change when less is owed.               *)
LEMMA StillSaves ==
    ASSUME NEW c, WillSave(c), edits' = edits, owed' => owed
    PROVE  WillSave(c)'
BY DEF WillSave, Carries

(* A step that leaves the record and the edits, and answers a handler.       *)
LEMMA StepOfACall ==
    ASSUME Inv, UNCHANGED <<doc, races, edits>>, owed' => owed, IsQueue(calls'),
           \A c \in Handlers(calls') :
              \/ c \in Handlers(calls)
              \/ /\ IsCall(c)
                 /\ "edit" \notin races => WillSave(c) \/ WillSave(c)'
                 /\ c.kind = "load" => doc.open /\ doc.status = "loading",
           "answer" \notin races => DraftInv'
    PROVE  Inv'
<1>1. \A c \in Handlers(calls') : IsCall(c) /\ (c.kind = "load" => doc.open /\ doc.status = "loading")
  BY DEF Inv, QueueInv
<1>2. IsQueue(calls)'
  BY DEF IsQueue, IsEffect
<1>3. QueueInv'
  BY <1>1, <1>2 DEF QueueInv, Handlers, IsCall, Saving
<1>4. "edit" \notin races => \A c \in Handlers(calls') : WillSave(c)'
  <2> SUFFICES ASSUME "edit" \notin races, NEW c \in Handlers(calls') PROVE WillSave(c)'
    OBVIOUS
  <2>1. WillSave(c) \/ WillSave(c)'
    BY DEF Inv, EditInv
  <2> QED BY <2>1, StillSaves
<1>5. EditInv'
  BY <1>4 DEF Inv, EditInv, Handlers
<1>6. IsRecord(doc)'
  BY DEF Inv, IsRecord, ReadOnly
<1> QED BY <1>3, <1>5, <1>6 DEF Inv

(* A handler that waits for the next reply.                                  *)
LEMMA AnotherCommand ==
    ASSUME Inv, calls # <<>>, NEW phase, NEW c, c = Head(calls)
    PROVE  /\ IsQueue(Sends(c, phase))
           /\ Handlers(Tail(calls)) \subseteq Handlers(Sends(c, phase))
           /\ \A b \in Handlers(Sends(c, phase)) :
                 \/ b \in Handlers(Tail(calls))
                 \/ /\ DOMAIN b = CallFields /\ b.kind = c.kind /\ b.phase = phase
                    /\ b.content = c.content /\ b.version = c.version
<1> DEFINE b == [c EXCEPT !.phase = phase, !.reply = disk]
<1>1. /\ IsQueue(Tail(calls)) /\ c \in Handlers(calls)
      /\ IsEffect(c) => \A e \in Handlers(Tail(calls)) : ~IsEffect(e)
  BY TailCalls DEF Inv, QueueInv
<1>2. DOMAIN c = CallFields
  BY <1>1 DEF Inv, QueueInv, IsCall
<1>3. /\ DOMAIN b = CallFields /\ b.kind = c.kind /\ b.phase = phase
      /\ b.content = c.content /\ b.version = c.version
  BY <1>2 DEF CallFields
<1> HIDE DEF b
<1>4. IsQueue(Append(Tail(calls), b)) /\ Handlers(Append(Tail(calls), b)) = Handlers(Tail(calls)) \cup {b}
  BY <1>1, <1>3, AppendCall DEF IsEffect
<1>5. Sends(c, phase) = Append(Tail(calls), b)
  BY DEF Sends, b
<1> QED BY <1>3, <1>4, <1>5

LEMMA InitInv == Init => Inv
<1> SUFFICES ASSUME Init PROVE Inv
  OBVIOUS
<1>1. IsRecord(doc)
  BY DEF Init, NoDoc, IsRecord, RecordFields, ReadOnly
<1>2. calls \in Seq({}) /\ Len(calls) = 0
  BY DEF Init
<1>3. Handlers(calls) = {} /\ IsQueue(calls)
  BY <1>2 DEF Handlers, IsQueue
<1>4. QueueInv /\ EditInv
  BY <1>3 DEF Init, QueueInv, EditInv
<1>5. DraftInv /\ races \in Scenarios
  BY DEF Init, DraftInv, NoDoc
<1> QED BY <1>1, <1>4, <1>5 DEF Inv

(* What the person does to the record.                                       *)
LEMMA PersonKeepsInv ==
    ASSUME Inv, Open \/ Edit \/ CloseClean \/ Restore
    PROVE  Inv'
<1>1. /\ IsRecord(doc) /\ IsQueue(calls) /\ edits \in Nat
      /\ \A c \in Handlers(calls) : IsCall(c)
      /\ "edit" \notin races =>
            /\ owed => doc.open /\ doc.dirty /\ doc.model = edits
            /\ \A c \in Handlers(calls) : WillSave(c)
  BY DEF Inv, QueueInv, EditInv
<1> USE DEF Become
<1>2. CASE Open
  <2> DEFINE d == [NoDoc EXCEPT !.open = TRUE, !.status = "loading",
                                !.readOnly = disk.readOnly, !.source = disk.stamp]
  <2>1. BecomeLeaving(d, calls, draft) /\ UNCHANGED <<races, edits, owed>> /\ ~doc.open
    BY <1>2 DEF Open, world
  <2>2. IsRecord(d)
    BY DEF IsRecord, NoDoc, RecordFields, ReadOnly
  <2>3. "edit" \notin races => ~owed' /\ \A c \in Handlers(calls) : WillSave(c)'
    BY <1>1, <2>1, StillSaves
  <2> HIDE DEF d
  <2> QED BY <1>1, <2>1, <2>2, <2>3, StepOfARecord
<1>3. CASE Edit
  <2> DEFINE d == [doc EXCEPT !.model = edits + 1, !.dirty = TRUE, !.revision = @ + 1]
  <2>1. /\ BecomeLeaving(d, calls, draft) /\ UNCHANGED races
        /\ edits' = edits + 1 /\ owed'
        /\ doc.open /\ doc.model # None /\ ~ReadOnly(doc)
        /\ "edit" \notin races =>
              /\ ~InFlight({"manual", "close", "discard", "reload"})
              /\ \A i \in 1..Len(calls) : ~(calls[i].kind = "auto" /\ calls[i].phase = "clear")
    BY <1>3 DEF Edit, Admits
  <2>2. IsRecord(d) /\ d.open /\ d.dirty /\ d.model = edits'
    BY <1>1, <2>1 DEF IsRecord, RecordFields, ReadOnly
  <2>3. ASSUME "edit" \notin races, NEW c \in Handlers(calls)
        PROVE  WillSave(c)'
    <3>1. c.kind \notin {"manual", "close"} /\ ~(c.kind = "auto" /\ c.phase = "clear")
      BY <2>1, <2>3 DEF InFlight, Handlers
    <3>2. WillSave(c)
      BY <1>1, <2>3
    <3> QED BY <1>1, <2>1, <3>1, <3>2 DEF WillSave
  <2> HIDE DEF d
  <2> QED BY <1>1, <2>1, <2>2, <2>3, StepOfARecord
<1>4. CASE CloseClean
  <2> DEFINE d == [doc EXCEPT !.open = FALSE]
  <2>1. BecomeLeaving(d, calls, draft) /\ UNCHANGED <<races, edits, owed>> /\ ~doc.dirty
    BY <1>4 DEF CloseClean, world
  <2>2. IsRecord(d)
    BY <1>1 DEF IsRecord, RecordFields, ReadOnly
  <2>3. "edit" \notin races => ~owed' /\ \A c \in Handlers(calls) : WillSave(c)'
    BY <1>1, <2>1, StillSaves
  <2> HIDE DEF d
  <2> QED BY <1>1, <2>1, <2>2, <2>3, StepOfARecord
<1>5. CASE Restore
  <2> DEFINE protected == candidate.sourceChanged \/ doc.readOnly
             d == [doc EXCEPT !.model = candidate.model, !.readOnly = FALSE, !.dirty = TRUE,
                              !.status = IF protected THEN "conflict" ELSE "editable",
                              !.revision = IF doc.dirty THEN @ ELSE @ + 1]
  <2>1. BecomeLeaving(d, calls, draft) /\ UNCHANGED <<races, edits>> /\ ~owed'
    BY <1>5 DEF Restore
  <2>2. IsRecord(d)
    BY <1>1 DEF IsRecord, RecordFields, ReadOnly
  <2>3. "edit" \notin races => \A c \in Handlers(calls) : WillSave(c)'
    BY <1>1, <2>1, StillSaves
  <2> HIDE DEF d
  <2> QED BY <1>1, <2>1, <2>2, <2>3, StepOfARecord
<1> QED BY <1>2, <1>3, <1>4, <1>5

(* A handler starts: it inspects, reads, or deletes a draft.                 *)
LEMMA RequestsKeepInv ==
    ASSUME Inv,
           \/ SaveRequested("manual") \/ SaveRequested("close") \/ AutoSaveFires
           \/ ReloadRequested \/ Discard
    PROVE  Inv'
<1>1. /\ IsRecord(doc) /\ IsQueue(calls) /\ edits \in Nat
      /\ "edit" \notin races => (owed => doc.open /\ doc.dirty /\ doc.model = edits)
  BY DEF Inv, QueueInv, EditInv
<1>2. ASSUME NEW c, calls' = Append(calls, c), IsCall(c), ~IsEffect(c),
             UNCHANGED <<doc, races, edits, owed>>,
             "edit" \notin races => WillSave(c),
             c.kind = "discard" \/ UNCHANGED <<recoveryTimer, draft>>
      PROVE  Inv'
  <2>1. IsQueue(calls') /\ Handlers(calls') = Handlers(calls) \cup {c}
    BY <1>1, <1>2, AppendCall
  <2>2. "answer" \notin races => DraftInv'
    <3>1. Handlers(calls)' = Handlers(calls')
      BY DEF Handlers
    <3>2. CASE c.kind = "discard"
      BY <2>1, <3>1, <3>2 DEF DraftInv
    <3>3. CASE UNCHANGED <<recoveryTimer, draft>>
      BY <1>2, <2>1, <3>1, <3>3 DEF DraftInv, Inv
    <3> QED BY <1>2, <3>2, <3>3
  <2>3. c.kind # "load"
    BY <1>2 DEF IsEffect
  <2> QED BY <1>2, <2>1, <2>2, <2>3, StepOfACall
<1>3. ASSUME NEW kind \in {"manual", "close"}, SaveRequested(kind) PROVE Inv'
  <2> DEFINE c == NewCall(kind, "inspect", doc.model)
  <2>1. /\ calls' = Append(calls, c)
        /\ UNCHANGED <<doc, races, edits, owed, recoveryTimer, draft>>
    BY <1>3 DEF SaveRequested, world
  <2>2. c.kind = kind /\ IsCall(c) /\ ~IsEffect(c) /\ ("edit" \notin races => WillSave(c))
    BY <1>1 DEF NewCall, IsCall, CallFields, Saving, IsEffect, WillSave, Carries
  <2> HIDE DEF c
  <2> QED BY <1>2, <2>1, <2>2
<1>4. CASE AutoSaveFires
  <2> DEFINE c == NewCall("auto", "inspect", doc.model)
  <2>1. /\ calls' = Append(calls, c)
        /\ UNCHANGED <<doc, races, edits, owed, recoveryTimer, draft>>
    BY <1>4 DEF AutoSaveFires, world
  <2>2. IsCall(c) /\ ~IsEffect(c) /\ ("edit" \notin races => WillSave(c))
    BY <1>1 DEF NewCall, IsCall, CallFields, Saving, IsEffect, WillSave, Carries
  <2> HIDE DEF c
  <2> QED BY <1>2, <2>1, <2>2
<1>5. CASE ReloadRequested
  <2> DEFINE c == NewCall("reload", "content", disk.content)
  <2>1. /\ calls' = Append(calls, c)
        /\ UNCHANGED <<doc, races, edits, owed, recoveryTimer, draft>>
    BY <1>5 DEF ReloadRequested, world
  <2>2. IsCall(c) /\ ~IsEffect(c) /\ WillSave(c)
    BY DEF NewCall, IsCall, CallFields, IsEffect, WillSave
  <2> HIDE DEF c
  <2> QED BY <1>2, <2>1, <2>2
<1>6. CASE Discard
  <2> DEFINE c == NewCall("discard", "clear", None)
  <2>1. calls' = Append(calls, c) /\ UNCHANGED <<doc, races, edits, owed>>
    BY <1>6 DEF Discard
  <2>2. c.kind = "discard" /\ IsCall(c) /\ ~IsEffect(c) /\ WillSave(c)
    BY DEF NewCall, IsCall, CallFields, IsEffect, WillSave
  <2> HIDE DEF c
  <2> QED BY <1>2, <2>1, <2>2
<1> QED BY <1>3, <1>4, <1>5, <1>6

(* Steps that neither change the record nor answer a handler.                *)
LEMMA OthersKeepInv ==
    ASSUME Inv, NoneIsNoDraft,
           \/ DiscardRecovery \/ ClosePrompt \/ RecoveryFires
           \/ OthersWrite \/ OthersRemove \/ OthersChangeMode \/ Notice
           \/ UNCHANGED vars
    PROVE  Inv'
<1>1. UNCHANGED <<doc, races, edits, owed, calls>>
  BY DEF DiscardRecovery, ClosePrompt, RecoveryFires, OthersWrite, OthersRemove,
         OthersChangeMode, Notice, vars, session, world
<1>2. "answer" \notin races => DraftInv'
  <2> SUFFICES ASSUME "answer" \notin races PROVE DraftInv'
    OBVIOUS
  <2>1. Handlers(calls)' = Handlers(calls)
    BY <1>1 DEF Handlers
  <2>2. CASE DiscardRecovery
    BY <1>1, <2>2 DEF DiscardRecovery, Admits, DraftInv
  <2>3. CASE RecoveryFires
    <3>1. draft' = [model |-> doc.model, source |-> doc.source]
      BY <2>3 DEF RecoveryFires
    <3>2. draft' # None /\ draft'.model = doc.model
      BY <3>1 DEF NoneIsNoDraft
    <3> QED BY <1>1, <3>2 DEF DraftInv
  <2>4. CASE UNCHANGED <<recoveryTimer, draft>>
    BY <1>1, <2>1, <2>4 DEF DraftInv, Inv
  <2> QED BY <2>2, <2>3, <2>4 DEF ClosePrompt, OthersWrite, OthersRemove,
         OthersChangeMode, Notice, vars, session, world
<1>3. IsQueue(calls') /\ Handlers(calls') = Handlers(calls)
  BY <1>1 DEF Inv, QueueInv
<1> QED BY <1>1, <1>2, <1>3, StepOfACall

LEMMA CrashKeepsInv == ASSUME Inv, Crash PROVE Inv'
<1>1. /\ doc' = NoDoc /\ calls' = <<>> /\ ~owed' /\ UNCHANGED <<edits, races>>
  BY DEF Crash
<1>2. IsRecord(doc)'
  BY <1>1 DEF NoDoc, IsRecord, RecordFields, ReadOnly
<1>3. calls' \in Seq({}) /\ Len(calls') = 0
  BY <1>1
<1>4. Handlers(calls') = {} /\ Handlers(calls)' = {} /\ IsQueue(calls)'
  BY <1>3 DEF Handlers, IsQueue
<1>5. QueueInv' /\ EditInv' /\ DraftInv'
  BY <1>1, <1>4 DEF QueueInv, EditInv, DraftInv, NoDoc, Inv
<1> QED BY <1>1, <1>2, <1>5 DEF Inv

(* What is known of the handler whose reply is there, and of the others.     *)
LEMMA HeadOfCalls ==
    ASSUME Inv, calls # <<>>
    PROVE  /\ IsQueue(Tail(calls)) /\ IsRecord(doc) /\ edits \in Nat
           /\ Handlers(calls) = Handlers(Tail(calls)) \cup {Head(calls)}
           /\ \A c \in Handlers(calls) :
                 /\ IsCall(c)
                 /\ c.kind = "load" => doc.status = "loading" /\ ~doc.dirty
                 /\ "edit" \notin races => WillSave(c)
           /\ "edit" \notin races => (owed => doc.open /\ doc.dirty /\ doc.model = edits)
BY TailCalls DEF Inv, QueueInv, EditInv, IsRecord

(* The handler at the head is answered, and nothing else happens.            *)
LEMMA AnsweredCall ==
    ASSUME Inv, calls # <<>>, Unmoved(Tail(calls)), UNCHANGED <<races, edits, owed, draft>>,
           Head(calls).kind # "discard"
    PROVE  Inv'
<1>1. /\ IsQueue(Tail(calls))
      /\ Handlers(calls) = Handlers(Tail(calls)) \cup {Head(calls)}
  BY HeadOfCalls
<1>2. calls' = Tail(calls) /\ UNCHANGED <<doc, recoveryTimer>> /\ Handlers(calls)' = Handlers(Tail(calls))
  BY DEF Unmoved, Handlers
<1>3. "answer" \notin races => DraftInv'
  BY <1>1, <1>2 DEF DraftInv, Inv
<1> QED BY <1>1, <1>2, <1>3, StepOfACall

LEMMA NewsKeepInv ==
    ASSUME Inv, InspectionFindsAChange \/ Deliver
    PROVE  Inv'
<1>1. IsRecord(doc) /\ IsQueue(calls) /\ UNCHANGED <<races, edits, owed, draft>>
  BY DEF Inv, QueueInv, InspectionFindsAChange, Deliver, world
<1>2. ASSUME NEW d, Follows(d, doc), NEW q, IsQueue(q), Become(d, q),
             Handlers(q) \subseteq Handlers(calls)
      PROVE  Inv'
  <2>1. \A c \in Handlers(q) : IsCall(c)
    BY <1>2 DEF Inv, QueueInv
  <2>2. "edit" \notin races =>
          /\ owed' => d.open /\ d.dirty /\ d.model = edits'
          /\ \A c \in Handlers(q) : WillSave(c)'
    BY <1>1, <1>2, StillSaves DEF Inv, EditInv, Follows
  <2>3. IsRecord(d) /\ edits' \in Nat
    BY <1>1, <1>2 DEF Follows, Inv, EditInv
  <2>4. BecomeLeaving(d, q, draft)
    BY <1>2 DEF Become
  <2> QED BY <1>1, <1>2, <2>1, <2>2, <2>3, <2>4, StepOfARecord
<1>3. CASE InspectionFindsAChange
  <2>1. calls # <<>> /\ Head(calls).phase = "inspect"
    BY <1>3 DEF InspectionFindsAChange, Waiting
  <2>2. \/ Become(Inspected(doc, Head(calls).reply)[2], Tail(calls))
        \/ Unmoved(Tail(calls))
    BY <1>3 DEF InspectionFindsAChange
  <2>3. Head(calls).kind # "discard"
    BY <2>1, HeadOfCalls DEF IsCall, Saving
  <2>4. Follows(Inspected(doc, Head(calls).reply)[2], doc)
    BY <1>1, RecordsFollow
  <2>5. IsQueue(Tail(calls)) /\ Handlers(Tail(calls)) \subseteq Handlers(calls)
    BY <2>1, HeadOfCalls
  <2> QED BY <1>1, <1>2, <2>1, <2>2, <2>3, <2>4, <2>5, AnsweredCall
<1>4. CASE Deliver
  <2>1. Become(Announced(doc, Head(events))[2], calls) \/ Unmoved(calls)
    BY <1>4 DEF Deliver
  <2>2. Follows(Announced(doc, Head(events))[2], doc)
    BY <1>1, RecordsFollow
  <2>3. CASE Unmoved(calls)
    <3>1. calls' = calls /\ UNCHANGED <<doc, recoveryTimer>> /\ Handlers(calls)' = Handlers(calls)
      BY <2>3 DEF Unmoved
    <3>2. "answer" \notin races => DraftInv'
      BY <1>1, <3>1 DEF DraftInv, Inv
    <3> QED BY <1>1, <3>1, <3>2, StepOfACall
  <2> QED BY <1>1, <1>2, <2>1, <2>2, <2>3
<1> QED BY <1>3, <1>4

(* The commands a handler sends between its first and its last.              *)
LEMMA CommandsKeepInv ==
    ASSUME Inv, Writes \/ Reinspects \/ DraftFound
    PROVE  Inv'
<1>1. calls # <<>>
  BY DEF Writes, Reinspects, DraftFound, Waiting
<1> DEFINE c == Head(calls)
<1>2. /\ IsQueue(Tail(calls)) /\ IsRecord(doc) /\ edits \in Nat
      /\ Handlers(calls) = Handlers(Tail(calls)) \cup {c}
      /\ IsCall(c)
      /\ "edit" \notin races => WillSave(c)
  BY <1>1, HeadOfCalls
<1> HIDE DEF c
<1>3. CASE Writes
  <2> PICK b : b = [c EXCEPT !.phase = "written"]
    OBVIOUS
  <2>1. /\ c.phase = "inspect" /\ UNCHANGED <<doc, races, edits, recoveryTimer, draft>>
        /\ owed' => owed
        /\ \/ calls' = Append(Tail(calls), b) /\ (owed' => c.content # edits)
           \/ calls' = Tail(calls)
    BY <1>3 DEF Writes, Waiting, c
  <2>2. c.kind \in Saving
    BY <1>2, <2>1 DEF IsCall
  <2>3. /\ DOMAIN b = CallFields /\ b.kind = c.kind /\ b.phase = "written"
        /\ b.version = c.version /\ IsCall(b) /\ ~IsEffect(b)
    BY <1>2, <2>2 DEF IsCall, CallFields, Saving, IsEffect
  <2>4. /\ IsQueue(calls') /\ Handlers(calls') \subseteq Handlers(Tail(calls)) \cup {b}
        /\ Handlers(Tail(calls)) \subseteq Handlers(calls')
        /\ b \in Handlers(calls') => (owed' => c.content # edits) \/ b \in Handlers(Tail(calls))
    <3>1. CASE calls' = Append(Tail(calls), b) /\ (owed' => c.content # edits)
      BY <1>2, <2>3, <3>1, AppendCall
    <3>2. CASE calls' = Tail(calls)
      BY <1>2, <3>2
    <3> QED BY <2>1, <3>1, <3>2
  <2>5. ASSUME "edit" \notin races, owed' => c.content # edits PROVE WillSave(b)'
    <3>1. c.kind \in {"manual", "close"} => ~owed'
      BY <1>2, <2>1, <2>5 DEF WillSave, Carries
    <3>2. ASSUME c.kind = "auto"
          PROVE  /\ c.version \in Nat /\ c.version <= edits
                 /\ ~(owed' /\ c.version = edits)
      <4>1. c.version \in Nat /\ c.version <= edits
        BY <1>2, <2>5, <3>2 DEF WillSave
      <4>2. owed /\ c.version = edits => c.content = edits
        BY <1>2, <2>5, <3>2 DEF WillSave, Carries
      <4> QED BY <2>1, <2>5, <4>1, <4>2
    <3> QED BY <2>1, <2>3, <3>1, <3>2 DEF WillSave
  <2>6. "answer" \notin races => DraftInv'
    <3>1. c.kind # "discard" /\ Handlers(calls)' = Handlers(calls')
      BY <2>2 DEF Saving, Handlers
    <3> QED BY <1>2, <2>1, <2>4, <3>1 DEF DraftInv, Inv
  <2>7. b.kind # "load"
    BY <2>3 DEF IsEffect
  <2>8. \A e \in Handlers(calls') :
          \/ e \in Handlers(calls)
          \/ e = b /\ ("edit" \notin races => WillSave(b)')
    BY <1>2, <2>4, <2>5
  <2> QED BY <2>1, <2>3, <2>4, <2>6, <2>7, <2>8, StepOfACall
<1>4. CASE Reinspects
  <2>1. /\ calls' = Sends(c, "stamp") /\ c.phase \in {"written", "content"}
        /\ UNCHANGED <<doc, races, edits, owed, recoveryTimer, draft>>
    BY <1>4 DEF Reinspects, world, c
  <2>2. /\ IsQueue(calls')
        /\ \A b \in Handlers(calls') :
              \/ b \in Handlers(Tail(calls))
              \/ /\ DOMAIN b = CallFields /\ b.kind = c.kind /\ b.phase = "stamp"
                 /\ b.content = c.content /\ b.version = c.version
    BY <1>1, <2>1, AnotherCommand DEF c
  <2>3. ASSUME NEW b, b \in Handlers(calls'), b \notin Handlers(calls)
        PROVE  /\ IsCall(b)
               /\ "edit" \notin races => WillSave(b)
               /\ b.kind = "load" => doc.open /\ doc.status = "loading"
    <3>1. /\ DOMAIN b = CallFields /\ b.kind = c.kind /\ b.phase = "stamp"
          /\ b.content = c.content /\ b.version = c.version
      BY <1>2, <2>2, <2>3
    <3>2. IsCall(b)
      BY <1>2, <2>1, <3>1 DEF IsCall, Saving
    <3>3. "edit" \notin races => WillSave(b)
      BY <1>2, <2>1, <3>1 DEF WillSave, Carries
    <3>4. c.kind = "load" => doc.open /\ doc.status = "loading"
      BY <1>2 DEF Inv, QueueInv
    <3> QED BY <3>1, <3>2, <3>3, <3>4
  <2>4. "answer" \notin races => DraftInv'
    <3>1. c.kind # "discard" /\ Handlers(calls)' = Handlers(calls')
      BY <1>2, <2>1 DEF IsCall, Saving, Handlers
    <3>2. Handlers(Tail(calls)) \subseteq Handlers(calls')
      BY <1>1, <2>1, AnotherCommand DEF c
    <3> QED BY <1>2, <2>1, <3>1, <3>2 DEF DraftInv, Inv
  <2> QED BY <2>1, <2>2, <2>3, <2>4, StepOfACall
<1>5. CASE DraftFound
  <2>1. /\ calls' = Tail(calls) /\ c.phase = "draft"
        /\ UNCHANGED <<doc, races, edits, owed, recoveryTimer, draft, autoTimer, checked, unseen>>
    BY <1>5 DEF DraftFound, Waiting, world, c
  <2>2. c.kind # "discard"
    BY <1>2, <2>1 DEF IsCall, Saving
  <2> QED BY <1>1, <2>1, <2>2, AnsweredCall DEF Unmoved, c
<1> QED BY <1>3, <1>4, <1>5

(* The last reply of a handler changes the record of a session that is open. *)
LEMMA LastRepliesKeepInv ==
    ASSUME Inv,
           \/ AutoSaveWritten \/ AutoSaveCompletes \/ SaveWritten \/ CloseCompletes
           \/ Loaded \/ LoadFails \/ Reloaded
    PROVE  Inv'
<1>1. calls # <<>> /\ edits' = edits /\ races' = races /\ (owed' => owed)
  <2>1. CASE AutoSaveWritten
    BY <2>1 DEF AutoSaveWritten, Waiting
  <2>2. CASE AutoSaveCompletes \/ Loaded \/ LoadFails
    BY <2>2 DEF AutoSaveCompletes, Loaded, LoadFails, Waiting, world
  <2>3. CASE SaveWritten
    BY <2>3 DEF SaveWritten, Waiting
  <2>4. CASE CloseCompletes
    BY <2>4 DEF CloseCompletes, Waiting
  <2>5. CASE Reloaded
    BY <2>5 DEF Reloaded, Waiting
  <2> QED BY <2>1, <2>2, <2>3, <2>4, <2>5
<1> PICK c : c = Head(calls)
  OBVIOUS
<1>2. /\ IsQueue(Tail(calls)) /\ IsRecord(doc) /\ edits \in Nat
      /\ Handlers(calls) = Handlers(Tail(calls)) \cup {c}
      /\ \A b \in Handlers(calls) :
            /\ IsCall(b)
            /\ b.kind = "load" => doc.status = "loading" /\ ~doc.dirty
            /\ "edit" \notin races => WillSave(b)
      /\ "edit" \notin races => (owed => doc.open /\ doc.dirty /\ doc.model = edits)
  BY <1>1, HeadOfCalls
<1>3. ASSUME NEW d, NEW q, NEW left, BecomeLeaving(IF doc.open THEN d ELSE doc, q, left),
             IsRecord(d), IsQueue(q),
             \A b \in Handlers(q) :
                 \/ b \in Handlers(Tail(calls))
                 \/ IsCall(b) /\ ("edit" \notin races => WillSave(b)),
             "edit" \notin races => (owed' => d.open /\ d.dirty /\ d.model = doc.model)
      PROVE  Inv'
  <2> PICK r : r = IF doc.open THEN d ELSE doc
    OBVIOUS
  <2>1. IsRecord(r) /\ \A b \in Handlers(q) : IsCall(b)
    BY <1>2, <1>3
  <2>2. "edit" \notin races =>
          /\ owed' => r.open /\ r.dirty /\ r.model = edits'
          /\ \A b \in Handlers(q) : WillSave(b)'
    BY <1>1, <1>2, <1>3, StillSaves
  <2> QED BY <1>1, <1>2, <1>3, <2>1, <2>2, StepOfARecord
<1>4. \A phase : /\ IsQueue(Sends(c, phase))
                /\ \A b \in Handlers(Sends(c, phase)) :
                      \/ b \in Handlers(Tail(calls))
                      \/ /\ DOMAIN b = CallFields /\ b.kind = c.kind /\ b.phase = phase
                         /\ b.content = c.content /\ b.version = c.version
  BY <1>1, AnotherCommand
<1>5. CASE AutoSaveWritten
  <2> DEFINE d == [doc EXCEPT !.source = IF c.reply.stamp = None THEN @ ELSE c.reply.stamp]
  <2>1. /\ c.phase = "stamp" /\ c.kind = "auto"
        /\ \/ /\ edits = c.version
              /\ BecomeLeaving(IF doc.open THEN d ELSE doc, Sends(c, "clear"), draft)
           \/ BecomeLeaving(IF doc.open THEN d ELSE doc, Tail(calls), draft)
    BY <1>5 DEF AutoSaveWritten, Waiting, StillCurrent, Dispatch, Become
  <2>2. IsRecord(d) /\ d.open = doc.open /\ d.dirty = doc.dirty /\ d.model = doc.model
    BY <1>2 DEF IsRecord, RecordFields, ReadOnly
  <2>3. "edit" \notin races => (owed' => d.open /\ d.dirty /\ d.model = doc.model)
    BY <1>1, <1>2, <2>2
  <2>4. ASSUME edits = c.version, NEW b \in Handlers(Sends(c, "clear"))
        PROVE  \/ b \in Handlers(Tail(calls))
               \/ IsCall(b) /\ ("edit" \notin races => WillSave(b))
    <3>1. "edit" \notin races => ~owed
      BY <1>2, <2>1, <2>4 DEF WillSave, Carries
    <3> QED BY <1>2, <1>4, <2>1, <2>4, <3>1 DEF IsCall, WillSave
  <2> HIDE DEF d
  <2> QED BY <1>2, <1>3, <1>4, <2>1, <2>2, <2>3, <2>4
<1>6. CASE AutoSaveCompletes
  <2>1. /\ c.phase = "clear" /\ c.kind = "auto"
        /\ BecomeLeaving(IF doc.open THEN MarkSaved(doc, pending) ELSE doc, Tail(calls), draft)
    BY <1>6 DEF AutoSaveCompletes, Waiting, Dispatch, Become
  <2>2. IsRecord(MarkSaved(doc, pending))
    BY <1>2 DEF IsRecord, RecordFields, ReadOnly, MarkSaved
  <2>3. "edit" \notin races => ~owed'
    BY <1>1, <1>2, <2>1 DEF WillSave
  <2> QED BY <1>2, <1>3, <2>1, <2>2, <2>3
<1>7. CASE SaveWritten
  <2> DEFINE d == MarkSaved(doc, c.reply.stamp)
             q == IF c.kind = "close" THEN Sends(c, "clear") ELSE Tail(calls)
  <2>1. /\ c.phase = "stamp" /\ c.kind \in {"manual", "close"}
        /\ BecomeLeaving(IF doc.open THEN d ELSE doc, q, draft)
    BY <1>7 DEF SaveWritten, Waiting, Dispatch, Become
  <2>2. IsRecord(d)
    BY <1>2 DEF IsRecord, RecordFields, ReadOnly, MarkSaved
  <2>3. "edit" \notin races => ~owed'
    BY <1>1, <1>2, <2>1 DEF WillSave, Carries
  <2>4. ASSUME NEW b \in Handlers(Sends(c, "clear")), c.kind = "close"
        PROVE  \/ b \in Handlers(Tail(calls))
               \/ IsCall(b) /\ ("edit" \notin races => WillSave(b))
    <3>1. "edit" \notin races => ~owed
      BY <1>2, <2>1, <2>4 DEF WillSave, Carries
    <3> QED BY <1>2, <1>4, <2>1, <2>4, <3>1 DEF IsCall, WillSave
  <2> HIDE DEF d
  <2>5. CASE c.kind = "close"
    BY <1>2, <1>3, <1>4, <2>1, <2>2, <2>3, <2>4, <2>5
  <2>6. CASE c.kind # "close"
    BY <1>2, <1>3, <2>1, <2>2, <2>3, <2>6
  <2> QED BY <2>5, <2>6
<1>8. CASE CloseCompletes
  <2> DEFINE d == [doc EXCEPT !.open = FALSE]
  <2>1. /\ c.phase = "clear" /\ c.kind \in {"close", "discard"}
        /\ BecomeLeaving(IF doc.open THEN d ELSE doc, Tail(calls), draft)
        /\ c.kind = "discard" => ~owed'
    BY <1>8 DEF CloseCompletes, Waiting, Dispatch, Become
  <2>2. IsRecord(d)
    BY <1>2 DEF IsRecord, RecordFields, ReadOnly
  <2>3. "edit" \notin races => ~owed'
    BY <1>1, <1>2, <2>1 DEF WillSave, Carries
  <2> HIDE DEF d
  <2> QED BY <1>2, <1>3, <2>1, <2>2, <2>3
<1>9. CASE Loaded
  <2> PICK d : d = SetModel(doc, c.content, c.doc.readOnly \/ c.reply.readOnly, c.reply.stamp)
    OBVIOUS
  <2>1. c.kind = "load" /\ BecomeLeaving(IF doc.open THEN d ELSE doc, Tail(calls), draft)
    BY <1>9 DEF Loaded, Waiting, Dispatch, Become
  <2>2. ~doc.dirty
    BY <1>2, <2>1
  <2>3. IsRecord(d)
    BY <1>2, <2>2 DEF IsRecord, RecordFields, ReadOnly, SetModel
  <2>4. "edit" \notin races => ~owed'
    BY <1>1, <1>2, <2>2
  <2> QED BY <1>2, <1>3, <2>1, <2>3, <2>4
<1>10. CASE LoadFails
  <2> PICK d : d = [doc EXCEPT !.status = "error"]
    OBVIOUS
  <2>1. CASE c.kind = "load"
    <3>1. BecomeLeaving(IF doc.open THEN d ELSE doc, Tail(calls), draft)
      BY <1>10, <2>1 DEF LoadFails, Waiting, Dispatch, Become
    <3>2. ~doc.dirty
      BY <1>2, <2>1
    <3>3. IsRecord(d) /\ ("edit" \notin races => ~owed')
      BY <1>1, <1>2, <3>2 DEF IsRecord, RecordFields, ReadOnly
    <3> QED BY <1>2, <1>3, <3>1, <3>3
  <2>2. CASE c.kind # "load"
    <3>1. /\ Unmoved(Tail(calls)) /\ c.phase = "content"
          /\ UNCHANGED <<races, edits, owed, draft>>
      BY <1>10, <2>2 DEF LoadFails, Waiting, world
    <3>2. c.kind # "discard"
      BY <1>2, <3>1 DEF IsCall, Saving
    <3> QED BY <1>1, <3>1, <3>2, AnsweredCall
  <2> QED BY <2>1, <2>2
<1>11. CASE Reloaded
  <2> PICK d : d = MarkSaved(SetModel(doc, c.content, c.reply.readOnly, c.reply.stamp),
                             c.reply.stamp)
    OBVIOUS
  <2>1. BecomeLeaving(IF doc.open THEN d ELSE doc, Tail(calls), None) /\ ~owed'
    BY <1>11 DEF Reloaded, Waiting
  <2>2. IsRecord(d)
    BY <1>2 DEF IsRecord, RecordFields, ReadOnly, SetModel, MarkSaved
  <2> QED BY <1>2, <1>3, <2>1, <2>2
<1> QED BY <1>5, <1>6, <1>7, <1>8, <1>9, <1>10, <1>11

-----------------------------------------------------------------------------
(* Theorems *)

(* No step of the person, of the app, of another program or of the watcher   *)
(* breaks what the two promises rest on.                                     *)
THEOREM Invariant == ASSUME NoneIsNoDraft PROVE Spec => []Inv
<1>1. Inv /\ [Next]_vars => Inv'
  BY InitInv, PersonKeepsInv, RequestsKeepInv, OthersKeepInv, CrashKeepsInv, NewsKeepInv,
     CommandsKeepInv, LastRepliesKeepInv
     DEF Next, Person, Reply
<1> QED BY <1>1, InitInv, PTL DEF Spec

(* Unless the person types while a save that no version guards is running,   *)
(* the last thing typed stays on the screen until it is saved, given up, or  *)
(* lost in a crash, although saves overlap and other programs write, remove  *)
(* and protect the file meanwhile (saveDocument, useAutoSave, appStore).     *)
THEOREM TypedIsKept ==
    ASSUME NoneIsNoDraft, \A s \in Scenarios : "edit" \notin s
    PROVE  Spec => []LastEditIsKept
<1>1. Inv => LastEditIsKept
  BY DEF Inv, EditInv, LastEditIsKept
<1> QED BY <1>1, Invariant, PTL

(* Unless an old draft is discarded after an edit, an edit that is not saved *)
(* has its recovery draft or the timer that writes it, whatever saves,       *)
(* reloads and news of the file come in between (the recovery effect of the  *)
(* editor, and every handler that deletes the draft).                        *)
THEOREM DirtyHasADraft ==
    ASSUME NoneIsNoDraft, \A s \in Scenarios : "answer" \notin s
    PROVE  Spec => []DirtyIsRecoverable
<1>1. Inv => DirtyIsRecoverable
  <2> SUFFICES ASSUME Inv PROVE DirtyIsRecoverable
    OBVIOUS
  <2>1. DraftInv
    BY DEF Inv
  <2>2. ~InFlight({"discard"}) => \A c \in Handlers(calls) : c.kind # "discard"
    BY DEF InFlight, Handlers
  <2> QED BY <2>1, <2>2 DEF DraftInv, DirtyIsRecoverable
<1> QED BY <1>1, Invariant, PTL

-----------------------------------------------------------------------------
(* A clean editor shows the file.  Without the races that CleanMeansSaved    *)
(* leaves out, one save or reload runs at a time and nobody else touches the *)
(* file meanwhile.                                                           *)
Calm == races \cap {"edit", "overlap", "change", "mode"} = {}

Busy(c) == c.kind \in Saving \cup {"reload"}
OneBusy(q) == \A i, j \in 1..Len(q) : Busy(q[i]) /\ Busy(q[j]) => i = j

OneAtATime ==
    /\ OneBusy(calls)
    /\ doc.open /\ doc.status = "loading" => \A c \in Handlers(calls) : ~Busy(c)
    /\ autoTimer => doc.open /\ doc.dirty /\ AutoSaves(doc)

(* What a handler that loads has read is the file.                           *)
Reads(c) == c.kind \in {"load", "reload"} => c.reply = disk /\ c.content = disk.content

(* What a handler that saves has read and written, and what the editor shows *)
(* beside it.                                                                *)
Saves(c) ==
    c.kind \in Saving =>
        /\ c.phase \in {"inspect", "stamp"} => c.reply = disk
        /\ c.phase \in {"written", "stamp"} \/ (c.kind = "auto" /\ c.phase = "clear")
              => disk.exists /\ disk.content = c.content
        /\ c.kind = "auto" /\ c.phase = "clear" => pending = disk.stamp
        /\ doc.open /\ c.phase # "clear" /\ (c.kind = "auto" => edits = c.version)
              => doc.model = c.content
        /\ doc.open /\ c.kind = "auto"
              => doc.dirty /\ (c.phase = "clear" => doc.model = c.content)

(* No news is on its way that would take the place of a notice.              *)
NoNewsOfMode == ~disk.readOnly /\ \A i \in 1..Len(events) : ~events[i].entry.readOnly

(* A clean editor that does not show the file says so as soon as it knows.   *)
DiffersOpenly ==
    doc.open /\ ~doc.dirty /\ doc.model # None /\ disk.exists /\ doc.model # disk.content
        => NoNewsOfMode /\ (doc.source = disk.stamp => doc.status = "external-change")

IsList(q) == \E T : q \in Seq(T)
IsFile(f) == DOMAIN f = {"exists", "readOnly", "content", "stamp"}

CleanInv ==
    /\ OneAtATime
    /\ \A c \in Handlers(calls) : Reads(c) /\ Saves(c)
    /\ DiffersOpenly

(* Modifications are told apart: there is always a stamp that nothing holds. *)
EnoughStamps == \A S : IsFiniteSet(S) => \E s \in Stamps : s \notin S

LEMMA ImageIsFinite ==
    ASSUME NEW S, IsFiniteSet(S), NEW f
    PROVE  IsFiniteSet({f[x] : x \in S})
<1> DEFINE T == {f[x] : x \in S}
           g == [x \in S |-> f[x]]
<1>1. g \in Surjection(S, T)
  BY DEF Surjection
<1> HIDE DEF g
<1> QED BY <1>1, FS_Surjection

LEMMA HeldStamps ==
    ASSUME NEW s
    PROVE  s \in StampsHeld <=>
              \/ s \in {doc.source, disk.stamp, pending}
              \/ s \in {saved.source : saved \in {draft, candidate} \ {None}}
              \/ \E i \in 1..Len(calls) : s \in {calls[i].doc.source, calls[i].reply.stamp}
              \/ \E i \in 1..Len(events) : s = events[i].entry.stamp
BY DEF StampsHeld

LEMMA StampIsFresh ==
    ASSUME EnoughStamps, IsList(calls), IsList(events)
    PROVE  FreshStamp \in Stamps /\ FreshStamp \notin StampsHeld
<1> DEFINE C == 1 .. Len(calls)
           E == 1 .. Len(events)
           a == [i \in C |-> calls[i].doc.source]
           b == [i \in C |-> calls[i].reply.stamp]
           f == [i \in E |-> events[i].entry.stamp]
           A == {a[i] : i \in C}
           B == {b[i] : i \in C}
           F == {f[i] : i \in E}
           G == (({doc.source} \cup {disk.stamp}) \cup {pending})
           D == {draft.source} \cup {candidate.source}
           H == (((G \cup D) \cup A) \cup B) \cup F
<1>1. Len(calls) \in Nat /\ Len(events) \in Nat
  BY DEF IsList
<1>2. IsFiniteSet(C) /\ IsFiniteSet(E)
  BY <1>1, FS_Interval
<1>3. IsFiniteSet(A) /\ IsFiniteSet(B) /\ IsFiniteSet(F)
  <2> HIDE DEF a, b, f, C, E
  <2> QED BY <1>2, ImageIsFinite
<1>4. IsFiniteSet(G) /\ IsFiniteSet(D)
  BY FS_Singleton, FS_AddElement
<1>5. IsFiniteSet(H)
  <2> HIDE DEF A, B, F, G, D
  <2> QED BY <1>3, <1>4, FS_Union
<1>6. StampsHeld \subseteq H
  <2>1. {doc.source, disk.stamp, pending} \subseteq H
    OBVIOUS
  <2>2. {saved.source : saved \in {draft, candidate} \ {None}} \subseteq H
    OBVIOUS
  <2>3. ASSUME NEW i \in C
        PROVE  {calls[i].doc.source, calls[i].reply.stamp} \subseteq H
    <3>1. a[i] \in A /\ b[i] \in B
      BY <2>3
    <3>2. a[i] = calls[i].doc.source /\ b[i] = calls[i].reply.stamp
      BY <2>3
    <3> QED BY <3>1, <3>2
  <2>4. ASSUME NEW i \in E
        PROVE  events[i].entry.stamp \in H
    <3>1. f[i] \in F /\ f[i] = events[i].entry.stamp
      BY <2>4
    <3> QED BY <3>1
  <2> HIDE DEF H
  <2> QED BY <2>1, <2>2, <2>3, <2>4, HeldStamps
<1> HIDE DEF H
<1>7. \E s \in Stamps : s \notin StampsHeld
  <2>1. PICK s \in Stamps : s \notin H
    BY <1>5 DEF EnoughStamps
  <2> QED BY <1>6, <2>1
<1> QED BY <1>7 DEF FreshStamp


(* Queues with one save or reload.                                           *)
LEMMA BusyAppend ==
    ASSUME NEW q, NEW c, IsQueue(q), OneBusy(q),
           Busy(c) => \A b \in Handlers(q) : ~Busy(b)
    PROVE  OneBusy(Append(q, c))
<1>1. PICK T : q \in Seq(T)
  BY DEF IsQueue
<1>2. q \in Seq(T \cup {c}) /\ c \in T \cup {c}
  BY <1>1
<1>3. /\ Len(Append(q, c)) = Len(q) + 1 /\ Len(q) \in Nat
      /\ \A i \in 1..Len(q) : Append(q, c)[i] = q[i]
      /\ Append(q, c)[Len(q) + 1] = c
  BY <1>2
<1> SUFFICES ASSUME NEW i \in 1..Len(q) + 1, NEW j \in 1..Len(q) + 1,
                    Busy(Append(q, c)[i]), Busy(Append(q, c)[j])
             PROVE  i = j
  BY <1>3 DEF OneBusy
<1>4. CASE i \in 1..Len(q) /\ j \in 1..Len(q)
  BY <1>3, <1>4 DEF OneBusy
<1>5. CASE ~Busy(c)
  BY <1>3, <1>4, <1>5
<1>6. CASE Busy(c)
  <2>1. \A k \in 1..Len(q) : ~Busy(q[k])
    BY <1>6 DEF Handlers
  <2> QED BY <1>3, <2>1
<1> QED BY <1>5, <1>6

LEMMA BusyTail ==
    ASSUME NEW q, IsQueue(q), OneBusy(q), q # <<>>
    PROVE  /\ OneBusy(Tail(q))
           /\ Busy(Head(q)) => \A b \in Handlers(Tail(q)) : ~Busy(b)
<1>1. PICK T : q \in Seq(T)
  BY DEF IsQueue
<1>2. /\ Len(q) \in Nat \ {0} /\ Len(Tail(q)) = Len(q) - 1
      /\ \A i \in 1..Len(Tail(q)) : i + 1 \in 1..Len(q) /\ Tail(q)[i] = q[i + 1]
      /\ Head(q) = q[1]
  BY <1>1
<1>3. \A i, j \in 1..Len(Tail(q)) : Busy(Tail(q)[i]) /\ Busy(Tail(q)[j]) => i = j
  BY <1>2 DEF OneBusy
<1>4. Busy(Head(q)) => \A b \in Handlers(Tail(q)) : ~Busy(b)
  <2> SUFFICES ASSUME Busy(q[1]), NEW i \in 1..Len(Tail(q)), Busy(Tail(q)[i])
               PROVE  FALSE
    BY <1>2 DEF Handlers
  <2> QED BY <1>2 DEF OneBusy
<1> QED BY <1>3, <1>4 DEF OneBusy

LEMMA BusyWithoutEffect ==
    ASSUME NEW q, IsQueue(q), OneBusy(q)
    PROVE  OneBusy(WithoutEffect(q))
<1>1. CASE \A i \in 1..Len(q) : ~IsEffect(q[i])
  BY <1>1 DEF WithoutEffect
<1>2. CASE \E i \in 1..Len(q) : IsEffect(q[i])
  <2> DEFINE at == CHOOSE i \in 1..Len(q) : IsEffect(q[i])
             w == [i \in 1 .. Len(q) - 1 |-> q[IF i < at THEN i ELSE i + 1]]
  <2>1. PICK T : q \in Seq(T)
    BY DEF IsQueue
  <2>2. Len(q) \in Nat /\ at \in 1..Len(q) /\ WithoutEffect(q) = w
    BY <1>2, <2>1 DEF WithoutEffect
  <2> HIDE DEF at
  <2>3. ASSUME NEW i \in 1 .. Len(q) - 1, NEW j \in 1 .. Len(q) - 1, Busy(w[i]), Busy(w[j])
        PROVE  i = j
    <3> DEFINE src(k) == IF k < at THEN k ELSE k + 1
    <3>1. w[i] = q[src(i)] /\ w[j] = q[src(j)]
      OBVIOUS
    <3>2. src(i) \in 1..Len(q) /\ src(j) \in 1..Len(q)
      BY <2>2
    <3>3. src(i) = src(j) => i = j
      BY <2>2
    <3> HIDE DEF w, src
    <3> QED BY <2>3, <3>1, <3>2, <3>3 DEF OneBusy
  <2>4. Len(w) = Len(q) - 1
    <3>1. \A i \in 1 .. Len(q) - 1 : w[i] \in T
      BY <2>1, <2>2
    <3>2. w \in [1 .. Len(q) - 1 -> T] /\ Len(q) - 1 \in Nat
      BY <2>2, <3>1
    <3> HIDE DEF w
    <3> QED BY <3>2
  <2> HIDE DEF w
  <2> QED BY <2>2, <2>3, <2>4 DEF OneBusy
<1> QED BY <1>1, <1>2

(* What a handler knows stays true while the file and the screen stay.       *)
LEMMA CallKeeps ==
    ASSUME NEW c, Reads(c), Saves(c), UNCHANGED <<disk, pending, edits>>,
           doc'.open => doc.open /\ doc'.model = doc.model /\ doc'.dirty = doc.dirty
    PROVE  Reads(c)' /\ Saves(c)'
BY DEF Reads, Saves

(* A handler that neither saves nor reloads has nothing to know but the file. *)
LEMMA IdleKeeps ==
    ASSUME NEW c, ~Busy(c), c.kind # "load" \/ (Reads(c) /\ disk' = disk)
    PROVE  Reads(c)' /\ Saves(c)'
BY DEF Reads, Saves, Busy, Saving

(* A step that replaces the record and leaves the file.                      *)
LEMMA CleanRecord ==
    ASSUME CleanInv, NEW d, NEW q, NEW left, BecomeLeaving(d, q, left), disk' = disk,
           IsQueue(q), OneBusy(q),
           d.open /\ d.status = "loading" => \A c \in Handlers(q) : ~Busy(c),
           \A c \in Handlers(q) : Reads(c)' /\ Saves(c)',
           DiffersOpenly'
    PROVE  CleanInv'
<1> DEFINE w == WithoutEffect(q)
<1> PICK load : load = [NewCall("load", "content", disk.content) EXCEPT !.doc = d]
  OBVIOUS
<1> PICK lookup : lookup = NewCall("lookup", "draft", Candidate(left, d))
  OBVIOUS
<1>1. /\ IsQueue(w) /\ OneBusy(w)
      /\ \A c \in Handlers(w) : c \in Handlers(q) /\ ~IsEffect(c)
  BY CancelledEffect, BusyWithoutEffect
<1>2. load.kind = "load" /\ load.reply = disk /\ load.content = disk.content
  BY DEF NewCall
<1>3. lookup.kind = "lookup"
  BY DEF NewCall
<1>4. ~Busy(load) /\ ~Busy(lookup)
  BY <1>2, <1>3 DEF Busy, Saving
<1>5. /\ Handlers(Append(w, load)) = Handlers(w) \cup {load}
      /\ Handlers(Append(w, lookup)) = Handlers(w) \cup {lookup}
  BY <1>1, AppendCall
<1>6. OneBusy(Append(w, load)) /\ OneBusy(Append(w, lookup))
  BY <1>1, <1>4, BusyAppend
<1>7. calls' = Append(w, load) \/ calls' = Append(w, lookup) \/ calls' = w
  BY DEF BecomeLeaving
<1>8. Reads(load)' /\ Saves(load)' /\ Reads(lookup)' /\ Saves(lookup)'
  BY <1>2, <1>3, <1>4 DEF Reads, Saves, Saving
<1> HIDE DEF w
<1>9. \A c \in Handlers(calls') : c \in Handlers(q) \/ c \in {load, lookup}
  BY <1>1, <1>5, <1>7
<1>10. \A c \in Handlers(calls') : Reads(c)' /\ Saves(c)'
  BY <1>8, <1>9
<1>11. OneBusy(calls')
  BY <1>1, <1>6, <1>7
<1>12. doc' = d /\ (autoTimer' => d.open /\ d.dirty /\ AutoSaves(d))
  BY DEF BecomeLeaving, TriggerKey, CleanInv, OneAtATime
<1>13. d.open /\ d.status = "loading" => \A c \in Handlers(calls') : ~Busy(c)
  BY <1>4, <1>9
<1>14. OneAtATime'
  BY <1>11, <1>12, <1>13 DEF OneAtATime, OneBusy, Busy, Handlers, AutoSaves, ReadOnly
<1> QED BY <1>10, <1>14 DEF CleanInv, Handlers

(* A step that leaves the record and the file.                               *)
LEMMA CleanCall ==
    ASSUME CleanInv, UNCHANGED <<doc, disk, pending, edits>>, autoTimer' => autoTimer,
           OneBusy(calls'),
           doc.open /\ doc.status = "loading" => \A c \in Handlers(calls') : ~Busy(c),
           \A c \in Handlers(calls') : c \in Handlers(calls) \/ (Reads(c)' /\ Saves(c)'),
           NoNewsOfMode => NoNewsOfMode'
    PROVE  CleanInv'
<1>1. \A c \in Handlers(calls') : Reads(c)' /\ Saves(c)'
  BY CallKeeps DEF CleanInv
<1>2. DiffersOpenly'
  BY DEF DiffersOpenly, CleanInv
<1>3. OneAtATime'
  BY DEF OneAtATime, OneBusy, Busy, Handlers, AutoSaves, ReadOnly, CleanInv
<1> QED BY <1>1, <1>2, <1>3 DEF CleanInv, Handlers

(* The news of a step that leaves the file and the events.                   *)
LEMMA SameNews ==
    ASSUME UNCHANGED <<disk, events>>
    PROVE  NoNewsOfMode <=> NoNewsOfMode'
BY DEF NoNewsOfMode

(* What is known of a clean editor's handlers.                               *)
LEMMA CleanFacts ==
    ASSUME Inv, CleanInv
    PROVE  /\ IsRecord(doc) /\ IsQueue(calls) /\ OneBusy(calls) /\ edits \in Nat
           /\ doc.open /\ doc.status = "loading" => \A c \in Handlers(calls) : ~Busy(c)
           /\ autoTimer => doc.open /\ doc.dirty /\ AutoSaves(doc)
           /\ \A c \in Handlers(calls) :
                 /\ IsCall(c) /\ Reads(c) /\ Saves(c)
                 /\ c.kind = "load" => doc.open /\ doc.status = "loading"
           /\ DiffersOpenly
BY DEF Inv, QueueInv, EditInv, CleanInv, OneAtATime

LEMMA InitClean == Init => CleanInv /\ IsList(events) /\ IsFile(disk)
<1> SUFFICES ASSUME Init PROVE CleanInv /\ IsList(events) /\ IsFile(disk)
  OBVIOUS
<1>1. calls \in Seq({}) /\ Len(calls) = 0 /\ events \in Seq({})
  BY DEF Init
<1>2. Handlers(calls) = {} /\ OneBusy(calls)
  BY <1>1 DEF Handlers, OneBusy
<1>3. DiffersOpenly /\ OneAtATime
  BY <1>2 DEF Init, NoDoc, DiffersOpenly, OneAtATime
<1>4. IsFile(disk)
  BY DEF Init, IsFile
<1> QED BY <1>1, <1>2, <1>3, <1>4 DEF CleanInv, IsList

(* What the person does to the record.                                       *)
LEMMA PersonKeepsClean ==
    ASSUME Calm, Inv, CleanInv, Open \/ Edit \/ CloseClean \/ Restore
    PROVE  CleanInv'
<1>1. /\ IsRecord(doc) /\ IsQueue(calls) /\ OneBusy(calls) /\ edits \in Nat
      /\ doc.open /\ doc.status = "loading" => \A c \in Handlers(calls) : ~Busy(c)
      /\ \A c \in Handlers(calls) :
            /\ IsCall(c) /\ Reads(c) /\ Saves(c)
            /\ c.kind = "load" => doc.open /\ doc.status = "loading"
      /\ "edit" \notin races
  BY CleanFacts DEF Calm
<1> USE DEF Become
<1>2. CASE Open
  <2> DEFINE d == [NoDoc EXCEPT !.open = TRUE, !.status = "loading",
                                !.readOnly = disk.readOnly, !.source = disk.stamp]
  <2>1. BecomeLeaving(d, calls, draft) /\ disk' = disk /\ calls = <<>>
    BY <1>2 DEF Open, world
  <2>2. Handlers(calls) = {}
    BY <2>1 DEF Handlers
  <2>3. d.model = None /\ doc' = d
    BY <2>1 DEF NoDoc, BecomeLeaving
  <2> HIDE DEF d
  <2>4. DiffersOpenly'
    BY <2>3 DEF DiffersOpenly
  <2> QED BY <1>1, <2>1, <2>2, <2>4, CleanRecord
<1>3. CASE Edit
  <2> DEFINE d == [doc EXCEPT !.model = edits + 1, !.dirty = TRUE, !.revision = @ + 1]
  <2>1. /\ BecomeLeaving(d, calls, draft) /\ disk' = disk /\ pending' = pending
        /\ edits' = edits + 1 /\ doc.open /\ doc.model # None
        /\ ~InFlight({"manual", "close", "discard", "reload"})
        /\ \A i \in 1..Len(calls) : ~(calls[i].kind = "auto" /\ calls[i].phase = "clear")
    BY <1>1, <1>3 DEF Edit, Admits
  <2>2. d.open /\ d.dirty /\ d.status = doc.status /\ doc' = d
    BY <1>1, <2>1 DEF IsRecord, RecordFields, BecomeLeaving
  <2>3. d.status # "loading"
    BY <1>1, <2>1, <2>2 DEF IsRecord
  <2> HIDE DEF d
  <2>4. ASSUME NEW c \in Handlers(calls)
        PROVE  Reads(c)' /\ Saves(c)'
    <3>1. c.kind \notin {"manual", "close", "reload"} /\ ~(c.kind = "auto" /\ c.phase = "clear")
      BY <2>1, <2>4 DEF InFlight, Handlers
    <3>2. Reads(c)'
      BY <1>1, <2>1, <2>4 DEF Reads
    <3>3. c.kind = "auto" => c.version \in Nat /\ c.version <= edits
      BY <1>1, <2>4 DEF Inv, EditInv, WillSave
    <3>4. CASE c.kind = "auto"
      <4>1. edits' # c.version
        BY <1>1, <2>1, <3>3, <3>4
      <4>2. Saves(c)
        BY <1>1, <2>4
      <4> QED BY <2>1, <2>2, <3>1, <3>2, <3>4, <4>1, <4>2 DEF Saves
    <3>5. CASE c.kind # "auto"
      BY <3>1, <3>2, <3>5 DEF Saves, Saving
    <3> QED BY <3>4, <3>5
  <2>5. DiffersOpenly'
    BY <2>2 DEF DiffersOpenly
  <2> QED BY <1>1, <2>1, <2>3, <2>4, <2>5, CleanRecord
<1>4. CASE CloseClean
  <2> DEFINE d == [doc EXCEPT !.open = FALSE]
  <2>1. BecomeLeaving(d, calls, draft) /\ UNCHANGED <<disk, pending, edits>>
    BY <1>4 DEF CloseClean, world
  <2>2. ~d.open /\ doc' = d
    BY <1>1, <2>1 DEF IsRecord, RecordFields, BecomeLeaving
  <2> HIDE DEF d
  <2>3. \A c \in Handlers(calls) : Reads(c)' /\ Saves(c)'
    BY <1>1, <2>1, <2>2, CallKeeps
  <2>4. DiffersOpenly'
    BY <2>2 DEF DiffersOpenly
  <2> QED BY <1>1, <2>1, <2>2, <2>3, <2>4, CleanRecord
<1>5. CASE Restore
  <2> DEFINE protected == candidate.sourceChanged \/ doc.readOnly
             d == [doc EXCEPT !.model = candidate.model, !.readOnly = FALSE, !.dirty = TRUE,
                              !.status = IF protected THEN "conflict" ELSE "editable",
                              !.revision = IF doc.dirty THEN @ ELSE @ + 1]
  <2>1. /\ BecomeLeaving(d, calls, draft) /\ disk' = disk
        /\ ~InFlight(Saving \cup {"reload", "discard"})
    BY <1>1, <1>5 DEF Restore, Admits
  <2>2. d.status # "loading" /\ d.dirty /\ doc' = d
    BY <1>1, <2>1 DEF IsRecord, RecordFields, BecomeLeaving
  <2> HIDE DEF d
  <2>3. \A c \in Handlers(calls) : ~Busy(c)
    BY <2>1 DEF InFlight, Handlers, Busy
  <2>4. \A c \in Handlers(calls) : Reads(c)' /\ Saves(c)'
    BY <1>1, <2>1, <2>3, IdleKeeps
  <2>5. DiffersOpenly'
    BY <2>2 DEF DiffersOpenly
  <2> QED BY <1>1, <2>1, <2>2, <2>3, <2>4, <2>5, CleanRecord
<1> QED BY <1>2, <1>3, <1>4, <1>5

(* A handler starts.                                                         *)
LEMMA RequestsKeepClean ==
    ASSUME Calm, Inv, CleanInv,
           \/ SaveRequested("manual") \/ SaveRequested("close") \/ AutoSaveFires
           \/ ReloadRequested \/ Discard
    PROVE  CleanInv'
<1>1. /\ IsRecord(doc) /\ IsQueue(calls) /\ OneBusy(calls)
      /\ doc.open /\ doc.status = "loading" => \A c \in Handlers(calls) : ~Busy(c)
      /\ autoTimer => doc.open /\ doc.dirty /\ AutoSaves(doc)
      /\ "overlap" \notin races
  BY CleanFacts DEF Calm
<1>2. ASSUME NEW c, calls' = Append(calls, c), ~IsEffect(c),
             UNCHANGED <<doc, disk, pending, edits, events>>, autoTimer' => autoTimer,
             Busy(c) => /\ ~InFlight(Saving \cup {"reload"})
                        /\ ~(doc.open /\ doc.status = "loading"),
             Reads(c) /\ Saves(c)
      PROVE  CleanInv'
  <2>1. /\ IsQueue(calls') /\ Handlers(calls') = Handlers(calls) \cup {c}
    BY <1>1, <1>2, AppendCall
  <2>2. Busy(c) => \A b \in Handlers(calls) : ~Busy(b)
    BY <1>2 DEF InFlight, Busy, Handlers
  <2>3. OneBusy(calls')
    BY <1>1, <1>2, <2>2, BusyAppend
  <2>4. Reads(c)' /\ Saves(c)'
    BY <1>2, CallKeeps
  <2>5. doc.open /\ doc.status = "loading" => \A b \in Handlers(calls') : ~Busy(b)
    BY <1>1, <1>2, <2>1
  <2>6. NoNewsOfMode => NoNewsOfMode'
    BY <1>2, SameNews
  <2>7. \A b \in Handlers(calls') : b \in Handlers(calls) \/ (Reads(b)' /\ Saves(b)')
    BY <2>1, <2>4
  <2> QED BY <1>2, <2>3, <2>5, <2>6, <2>7, CleanCall
<1>3. ASSUME NEW kind \in {"manual", "close"}, SaveRequested(kind) PROVE CleanInv'
  <2> PICK c : c = NewCall(kind, "inspect", doc.model)
    OBVIOUS
  <2>1. /\ calls' = Append(calls, c)
        /\ UNCHANGED <<doc, disk, pending, edits, events, autoTimer>>
        /\ ~InFlight(Saving \cup {"reload"}) /\ doc.model # None
    BY <1>1, <1>3 DEF SaveRequested, world, watcher, Admits
  <2>2. doc.status # "loading"
    BY <1>1, <2>1 DEF IsRecord
  <2>3. ~IsEffect(c) /\ Reads(c) /\ Saves(c)
    BY DEF NewCall, IsEffect, Reads, Saves
  <2> QED BY <1>2, <2>1, <2>2, <2>3
<1>4. CASE AutoSaveFires
  <2> PICK c : c = NewCall("auto", "inspect", doc.model)
    OBVIOUS
  <2>1. /\ calls' = Append(calls, c)
        /\ UNCHANGED <<doc, disk, pending, edits, events>> /\ ~autoTimer' /\ autoTimer
        /\ ~InFlight(Saving \cup {"reload"})
    BY <1>1, <1>4 DEF AutoSaveFires, world, watcher, Admits
  <2>2. doc.status # "loading" /\ doc.dirty
    BY <1>1, <2>1 DEF IsRecord
  <2>3. ~IsEffect(c) /\ Reads(c) /\ Saves(c)
    BY <2>2 DEF NewCall, IsEffect, Reads, Saves
  <2> QED BY <1>2, <2>1, <2>2, <2>3
<1>5. CASE ReloadRequested
  <2> PICK c : c = NewCall("reload", "content", disk.content)
    OBVIOUS
  <2>1. /\ calls' = Append(calls, c)
        /\ UNCHANGED <<doc, disk, pending, edits, events, autoTimer>>
        /\ ~InFlight(Saving) /\ ~InFlight({"reload"})
        /\ doc.status \in {"external-change", "conflict"}
    BY <1>1, <1>5 DEF ReloadRequested, world, watcher, Admits
  <2>2. ~InFlight(Saving \cup {"reload"})
    BY <2>1 DEF InFlight
  <2>3. ~IsEffect(c) /\ Reads(c) /\ Saves(c)
    BY DEF NewCall, IsEffect, Reads, Saves, Saving
  <2> QED BY <1>2, <2>1, <2>2, <2>3
<1>6. CASE Discard
  <2> PICK c : c = NewCall("discard", "clear", None)
    OBVIOUS
  <2>1. /\ calls' = Append(calls, c)
        /\ UNCHANGED <<doc, disk, pending, edits, events, autoTimer>>
    BY <1>6 DEF Discard, watcher
  <2>2. ~IsEffect(c) /\ ~Busy(c) /\ Reads(c) /\ Saves(c)
    BY DEF NewCall, IsEffect, Busy, Reads, Saves, Saving
  <2> QED BY <1>2, <2>1, <2>2
<1> QED BY <1>3, <1>4, <1>5, <1>6

(* A list with an element more, or without its first.                        *)
LEMMA ListSteps ==
    ASSUME NEW q, IsList(q)
    PROVE  /\ \A e : /\ IsList(Append(q, e))
                     /\ Len(Append(q, e)) = Len(q) + 1 /\ Len(q) \in Nat
                     /\ \A i \in 1..Len(q) : Append(q, e)[i] = q[i]
                     /\ Append(q, e)[Len(q) + 1] = e
           /\ q # <<>> => /\ IsList(Tail(q)) /\ Head(q) = q[1] /\ 1 \in 1..Len(q)
                          /\ \A i \in 1..Len(Tail(q)) :
                                i + 1 \in 1..Len(q) /\ Tail(q)[i] = q[i + 1]
<1>1. PICK T : q \in Seq(T)
  BY DEF IsList
<1>2. ASSUME NEW e
      PROVE  /\ IsList(Append(q, e))
             /\ Len(Append(q, e)) = Len(q) + 1 /\ Len(q) \in Nat
             /\ \A i \in 1..Len(q) : Append(q, e)[i] = q[i]
             /\ Append(q, e)[Len(q) + 1] = e
  <2>1. q \in Seq(T \cup {e}) /\ e \in T \cup {e}
    BY <1>1
  <2>2. Append(q, e) \in Seq(T \cup {e})
    BY <2>1
  <2> QED BY <2>1, <2>2 DEF IsList
<1>3. ASSUME q # <<>>
      PROVE  /\ IsList(Tail(q)) /\ Head(q) = q[1] /\ 1 \in 1..Len(q)
             /\ \A i \in 1..Len(Tail(q)) : i + 1 \in 1..Len(q) /\ Tail(q)[i] = q[i + 1]
  <2>1. /\ Tail(q) \in Seq(T) /\ Head(q) = q[1]
        /\ Len(q) \in Nat \ {0} /\ Len(Tail(q)) = Len(q) - 1
        /\ \A i \in 1..Len(Tail(q)) : i + 1 \in 1..Len(q) /\ Tail(q)[i] = q[i + 1]
    BY <1>1, <1>3
  <2> QED BY <2>1 DEF IsList
<1> QED BY <1>2, <1>3

(* Events that the watcher emits or the store has heard.                     *)
LEMMA EventsAreAList == ASSUME IsList(events), [Next]_vars PROVE IsList(events')
<1>1. \A e : IsList(Append(events, e))
  BY ListSteps
<1>2. events # <<>> => IsList(Tail(events))
  BY ListSteps
<1>3. CASE Notice
  BY <1>1, <1>3 DEF Notice
<1>4. CASE Deliver
  BY <1>2, <1>4 DEF Deliver
<1>5. CASE Crash
  <2>1. events' \in Seq({})
    BY <1>5 DEF Crash
  <2> QED BY <2>1 DEF IsList
<1>6. CASE UNCHANGED events
  BY <1>6
<1>7. \/ Notice \/ Deliver \/ Crash \/ UNCHANGED events
  <2>1. CASE Person
    BY <2>1 DEF Person, Open, Edit, SaveRequested, CloseClean, Discard, ReloadRequested,
       Restore, DiscardRecovery, ClosePrompt, watcher
  <2>2. CASE Reply
    BY <2>2 DEF Reply, InspectionFindsAChange, Writes, Reinspects, AutoSaveWritten,
       AutoSaveCompletes, SaveWritten, CloseCompletes, Loaded, LoadFails, Reloaded,
       DraftFound, watcher
  <2>3. CASE AutoSaveFires \/ RecoveryFires \/ OthersWrite \/ OthersRemove \/ OthersChangeMode
    BY <2>3 DEF AutoSaveFires, RecoveryFires, OthersWrite, OthersRemove, OthersChangeMode,
       watcher
  <2>4. CASE UNCHANGED vars
    BY <2>4 DEF vars, watcher
  <2> QED BY <2>1, <2>2, <2>3, <2>4 DEF Next
<1> QED BY <1>3, <1>4, <1>5, <1>6, <1>7

(* The steps that touch the file.                                            *)
LEMMA FileSteps ==
    ASSUME [Next]_vars
    PROVE  Writes \/ OthersChangeMode \/ OthersWrite \/ OthersRemove \/ UNCHANGED disk
<1>1. CASE Person
  BY <1>1 DEF Person, Open, Edit, SaveRequested, CloseClean, Discard, ReloadRequested,
     Restore, DiscardRecovery, ClosePrompt, world
<1>2. CASE Reply
  BY <1>2 DEF Reply, InspectionFindsAChange, Reinspects, AutoSaveWritten,
     AutoSaveCompletes, SaveWritten, CloseCompletes, Loaded, LoadFails, Reloaded,
     DraftFound, world
<1>3. CASE AutoSaveFires \/ RecoveryFires \/ Notice \/ Deliver \/ Crash
  BY <1>3 DEF AutoSaveFires, RecoveryFires, Notice, Deliver, Crash, world
<1>4. CASE UNCHANGED vars
  BY <1>4 DEF vars, world
<1> QED BY <1>1, <1>2, <1>3, <1>4 DEF Next

(* Every write leaves a file with its four attributes.                       *)
LEMMA FileIsAFile == ASSUME IsFile(disk), [Next]_vars PROVE IsFile(disk')
<1>1. CASE Writes \/ OthersChangeMode
  BY <1>1 DEF Writes, OthersChangeMode, IsFile
<1>2. CASE OthersWrite \/ OthersRemove
  BY <1>2 DEF OthersWrite, OthersRemove, IsFile
<1> QED BY <1>1, <1>2, FileSteps

(* What the watcher emits is the file as it is.                              *)
LEMMA NoticeKeepsNews ==
    ASSUME IsList(events), Notice, NoNewsOfMode
    PROVE  NoNewsOfMode'
<1>1. disk' = disk /\ ~disk.readOnly /\ \A i \in 1..Len(events) : ~events[i].entry.readOnly
  BY DEF Notice, world, NoNewsOfMode
<1> PICK e : e = [kind |-> Head(notices), entry |-> disk]
  OBVIOUS
<1>2. events' = events \/ events' = Append(events, e)
  BY DEF Notice
<1>3. CASE events' = events
  BY <1>1, <1>3 DEF NoNewsOfMode
<1>4. CASE events' = Append(events, e)
  <2>1. /\ Len(events') = Len(events) + 1 /\ Len(events) \in Nat
        /\ \A i \in 1..Len(events) : events'[i] = events[i]
        /\ events'[Len(events) + 1] = e
    BY <1>4, ListSteps
  <2>2. ASSUME NEW i \in 1..Len(events') PROVE ~events'[i].entry.readOnly
    <3>1. i \in 1..Len(events) \/ i = Len(events) + 1
      BY <2>1, <2>2
    <3> QED BY <1>1, <2>1, <3>1
  <2> QED BY <1>1, <2>2 DEF NoNewsOfMode
<1> QED BY <1>2, <1>3, <1>4

(* Nobody changes the file between two commands of a handler, and a file     *)
(* that is written again has a stamp of its own.                             *)
LEMMA OthersKeepClean ==
    ASSUME Calm, Inv, CleanInv, EnoughStamps, IsList(events),
           \/ DiscardRecovery \/ ClosePrompt \/ RecoveryFires
           \/ OthersWrite \/ OthersRemove \/ OthersChangeMode \/ Notice
           \/ UNCHANGED vars
    PROVE  CleanInv'
<1>1. /\ IsRecord(doc) /\ IsQueue(calls) /\ OneBusy(calls)
      /\ doc.open /\ doc.status = "loading" => \A c \in Handlers(calls) : ~Busy(c)
      /\ autoTimer => doc.open /\ doc.dirty /\ AutoSaves(doc)
      /\ \A c \in Handlers(calls) : Reads(c) /\ Saves(c)
      /\ DiffersOpenly
      /\ "change" \notin races /\ "mode" \notin races
  BY CleanFacts DEF Calm
<1>2. UNCHANGED <<doc, calls, pending, edits, autoTimer>>
  BY DEF DiscardRecovery, ClosePrompt, RecoveryFires, OthersWrite, OthersRemove,
         OthersChangeMode, Notice, vars, session, world
<1>3. ASSUME disk' = disk, NoNewsOfMode => NoNewsOfMode' PROVE CleanInv'
  BY <1>1, <1>2, <1>3, CleanCall
<1>4. ASSUME DiffersOpenly', BetweenCommands PROVE CleanInv'
  <2>1. ~InFlight(Saving \cup {"load", "reload"})
    BY <1>1, <1>4 DEF BetweenCommands, Admits
  <2>2. ASSUME NEW c \in Handlers(calls) PROVE Reads(c)' /\ Saves(c)'
    <3>1. ~Busy(c) /\ c.kind # "load"
      BY <2>1 DEF InFlight, Handlers, Busy
    <3> QED BY <3>1, IdleKeeps
  <2>3. OneAtATime'
    BY <1>2 DEF OneAtATime, OneBusy, Busy, Handlers, AutoSaves, ReadOnly, CleanInv
  <2> QED BY <1>2, <1>4, <2>2, <2>3 DEF CleanInv, Handlers
<1>5. CASE DiscardRecovery \/ ClosePrompt \/ RecoveryFires \/ UNCHANGED vars
  <2>1. UNCHANGED <<disk, events>>
    BY <1>5 DEF DiscardRecovery, ClosePrompt, RecoveryFires, vars, world, watcher
  <2> QED BY <1>3, <2>1, SameNews
<1>6. CASE Notice
  <2>1. disk' = disk
    BY <1>6 DEF Notice, world
  <2> QED BY <1>3, <1>6, <2>1, NoticeKeepsNews
<1>7. CASE OthersWrite
  <2>1. /\ BetweenCommands /\ events' = events
        /\ \A i \in 1..Len(events) : ~events[i].entry.readOnly
        /\ disk' = [exists |-> TRUE, readOnly |-> FALSE, stamp |-> FreshStamp,
                    content |-> -(changes + 1)]
    BY <1>1, <1>7 DEF OthersWrite, Admits
  <2>2. ~disk'.readOnly /\ disk'.stamp = FreshStamp
    BY <2>1
  <2>3. FreshStamp # doc.source
    <3>1. IsList(calls)
      BY <1>1 DEF IsQueue, IsList
    <3> QED BY <3>1, StampIsFresh, HeldStamps
  <2>4. DiffersOpenly'
    BY <1>2, <2>1, <2>2, <2>3 DEF DiffersOpenly, NoNewsOfMode
  <2> QED BY <1>4, <2>1, <2>4
<1>8. CASE OthersRemove
  <2>1. BetweenCommands /\ ~disk'.exists
    BY <1>8 DEF OthersRemove
  <2>2. DiffersOpenly'
    BY <2>1 DEF DiffersOpenly
  <2> QED BY <1>4, <2>1, <2>2
<1>9. CASE OthersChangeMode
  <2>1. /\ BetweenCommands
        /\ doc.open => doc.status # "external-change" /\ disk.stamp = doc.source
        /\ disk' = [disk EXCEPT !.readOnly = ~@] /\ disk.exists
    BY <1>1, <1>9 DEF OthersChangeMode, Admits
  <2>2. disk'.content = disk.content
    BY <2>1
  <2>3. DiffersOpenly'
    BY <1>1, <1>2, <2>1, <2>2 DEF DiffersOpenly
  <2> QED BY <1>4, <2>1, <2>3
<1> QED BY <1>5, <1>6, <1>7, <1>8, <1>9

LEMMA CrashKeepsClean == ASSUME Crash PROVE CleanInv'
<1>1. doc' = NoDoc /\ calls' = <<>> /\ ~autoTimer'
  BY DEF Crash
<1>2. calls' \in Seq({}) /\ Len(calls') = 0
  BY <1>1
<1>3. Handlers(calls)' = {} /\ OneBusy(calls)'
  BY <1>2 DEF Handlers, OneBusy
<1>4. DiffersOpenly' /\ OneAtATime'
  BY <1>1, <1>3 DEF NoDoc, DiffersOpenly, OneAtATime
<1> QED BY <1>3, <1>4 DEF CleanInv

(* News leaves what the editor shows, and does not make a record load.       *)
LEMMA NewsLeavesTheScreen ==
    ASSUME NEW d, IsRecord(d), NEW n,
           \/ \E file : n = Inspected(d, file)[2]
           \/ \E event : n = Announced(d, event)[2]
    PROVE  /\ IsRecord(n) /\ n.model = d.model /\ n.dirty = d.dirty
           /\ n.open => d.open
           /\ n.status = "loading" => d.status = "loading"
<1> DEFINE Leaves(m) == /\ m.model = d.model /\ m.dirty = d.dirty
                        /\ m.open => d.open
                        /\ m.status = "loading" => d.status = "loading"
<1> USE DEF RecordFields, IsRecord
<1>1. Leaves(d) /\ Leaves(Missing(d)) /\ Leaves(BecomesReadOnly(d)) /\ Leaves(Writable(d))
  BY DEF Missing, BecomesReadOnly, Writable
<1>2. \A stamp, readOnly : Leaves(Modified(d, stamp, readOnly))
  BY DEF Modified
<1> HIDE DEF RecordFields, IsRecord, Leaves
<1>3. ASSUME NEW file PROVE Leaves(Inspected(d, file)[2])
  BY <1>1, <1>2 DEF Inspected
<1>4. ASSUME NEW event PROVE Leaves(Announced(d, event)[2])
  BY <1>1, <1>2 DEF Announced
<1>5. IsRecord(n)
  BY RecordsFollow DEF Follows
<1> QED BY <1>3, <1>4, <1>5 DEF Leaves

(* What an inspection, or an event about a file that can be written, makes   *)
(* of a clean record that names the file and says that it differs, or names  *)
(* another file.                                                             *)
LEMMA DifferenceIsSaid ==
    ASSUME NEW d, IsRecord(d), ~d.dirty, NEW n, n.open,
           \/ \E file : /\ n = Inspected(d, file)[2] /\ ~file.readOnly
                        /\ file.stamp = disk.stamp
           \/ \E event : n = Announced(d, event)[2] /\ ~event.entry.readOnly,
           d.source = disk.stamp => d.status = "external-change"
    PROVE  n.source = disk.stamp => n.status = "external-change"
<1> USE DEF RecordFields, IsRecord
<1>1. ~Missing(d).open
  BY DEF Missing
<1>2. \A stamp, readOnly : Modified(d, stamp, readOnly).status = "external-change"
  BY DEF Modified
<1>3. d.status = "read-only" => (Writable(d).source = d.source)
  BY DEF Writable
<1> HIDE DEF RecordFields, IsRecord
<1>4. ASSUME NEW file, n = Inspected(d, file)[2], ~file.readOnly, file.stamp = disk.stamp
      PROVE  n.source = disk.stamp => n.status = "external-change"
  BY <1>1, <1>2, <1>3, <1>4 DEF Inspected
<1>5. ASSUME NEW event, n = Announced(d, event)[2], ~event.entry.readOnly
      PROVE  n.source = disk.stamp => n.status = "external-change"
  BY <1>1, <1>2, <1>3, <1>5 DEF Announced
<1> QED BY <1>4, <1>5

(* The store hears of the file from an inspection or from the watcher.       *)
LEMMA NewsKeepClean ==
    ASSUME Calm, Inv, CleanInv, IsList(events), InspectionFindsAChange \/ Deliver
    PROVE  CleanInv'
<1>1. /\ IsRecord(doc) /\ IsQueue(calls) /\ OneBusy(calls)
      /\ doc.open /\ doc.status = "loading" => \A c \in Handlers(calls) : ~Busy(c)
      /\ autoTimer => doc.open /\ doc.dirty /\ AutoSaves(doc)
      /\ \A c \in Handlers(calls) : IsCall(c) /\ Reads(c) /\ Saves(c)
      /\ DiffersOpenly
  BY CleanFacts
<1>2. UNCHANGED <<disk, pending, edits>>
  BY DEF InspectionFindsAChange, Deliver, world
<1>3. ASSUME NEW d, NEW q, IsQueue(q), OneBusy(q), Handlers(q) \subseteq Handlers(calls),
             IsRecord(d), d.model = doc.model, d.dirty = doc.dirty, d.open => doc.open,
             d.status = "loading" => doc.status = "loading",
             Become(d, q), NoNewsOfMode => NoNewsOfMode',
             d.open /\ ~doc.dirty /\ NoNewsOfMode
                 /\ (doc.source = disk.stamp => doc.status = "external-change")
               => (d.source = disk.stamp => d.status = "external-change")
      PROVE  CleanInv'
  <2>1. BecomeLeaving(d, q, draft) /\ doc' = d
    BY <1>3 DEF Become, BecomeLeaving
  <2>2. \A c \in Handlers(q) : Reads(c)' /\ Saves(c)'
    BY <1>1, <1>2, <1>3, <2>1, CallKeeps
  <2>3. DiffersOpenly'
    BY <1>1, <1>2, <1>3, <2>1 DEF DiffersOpenly
  <2>4. d.open /\ d.status = "loading" => \A c \in Handlers(q) : ~Busy(c)
    BY <1>1, <1>3
  <2> QED BY <1>2, <1>3, <2>1, <2>2, <2>3, <2>4, CleanRecord
<1>4. ASSUME NEW q, Unmoved(q), IsQueue(q), OneBusy(q), Handlers(q) \subseteq Handlers(calls),
             NoNewsOfMode => NoNewsOfMode'
      PROVE  CleanInv'
  <2>1. calls' = q /\ UNCHANGED <<doc, autoTimer>>
    BY <1>4 DEF Unmoved
  <2> QED BY <1>1, <1>2, <1>4, <2>1, CleanCall
<1>5. CASE InspectionFindsAChange
  <2> PICK c : c = Head(calls)
    OBVIOUS
  <2>1. calls # <<>> /\ c.phase = "inspect" /\ events' = events
    BY <1>5 DEF InspectionFindsAChange, Waiting, watcher
  <2>2. \/ Become(Inspected(doc, c.reply)[2], Tail(calls))
        \/ Unmoved(Tail(calls))
    BY <1>5 DEF InspectionFindsAChange
  <2>3. /\ IsQueue(Tail(calls)) /\ OneBusy(Tail(calls))
        /\ Handlers(calls) = Handlers(Tail(calls)) \cup {c}
    BY <1>1, <2>1, TailCalls, BusyTail
  <2>4. c.reply = disk
    BY <1>1, <2>1, <2>3 DEF IsCall, Saves
  <2>5. NoNewsOfMode => NoNewsOfMode'
    BY <1>2, <2>1, SameNews
  <2> PICK d : d = Inspected(doc, c.reply)[2]
    OBVIOUS
  <2>6. /\ IsRecord(d) /\ d.model = doc.model /\ d.dirty = doc.dirty
        /\ d.open => doc.open
        /\ d.status = "loading" => doc.status = "loading"
    BY <1>1, NewsLeavesTheScreen
  <2>7. d.open /\ ~doc.dirty /\ NoNewsOfMode
            /\ (doc.source = disk.stamp => doc.status = "external-change")
          => (d.source = disk.stamp => d.status = "external-change")
    <3>1. NoNewsOfMode => ~c.reply.readOnly
      BY <2>4 DEF NoNewsOfMode
    <3>2. c.reply.stamp = disk.stamp
      BY <2>4
    <3> QED BY <1>1, <3>1, <3>2, DifferenceIsSaid
  <2>8. Handlers(Tail(calls)) \subseteq Handlers(calls)
    BY <2>3
  <2> QED BY <1>3, <1>4, <2>2, <2>3, <2>5, <2>6, <2>7, <2>8
<1>6. CASE Deliver
  <2> PICK d : d = Announced(doc, Head(events))[2]
    OBVIOUS
  <2>1. /\ events # <<>> /\ events' = Tail(events)
        /\ Become(d, calls) \/ Unmoved(calls)
    BY <1>6 DEF Deliver
  <2>2. /\ Head(events) = events[1] /\ 1 \in 1..Len(events)
        /\ \A i \in 1..Len(events') : i + 1 \in 1..Len(events) /\ events'[i] = events[i + 1]
    BY <2>1, ListSteps
  <2>3. NoNewsOfMode => NoNewsOfMode'
    BY <1>2, <2>2 DEF NoNewsOfMode
  <2>4. /\ IsRecord(d) /\ d.model = doc.model /\ d.dirty = doc.dirty
        /\ d.open => doc.open
        /\ d.status = "loading" => doc.status = "loading"
    BY <1>1, NewsLeavesTheScreen
  <2>5. d.open /\ ~doc.dirty /\ NoNewsOfMode
            /\ (doc.source = disk.stamp => doc.status = "external-change")
          => (d.source = disk.stamp => d.status = "external-change")
    <3>1. NoNewsOfMode => ~Head(events).entry.readOnly
      BY <2>2 DEF NoNewsOfMode
    <3> QED BY <1>1, <3>1, DifferenceIsSaid
  <2> QED BY <1>1, <1>3, <1>4, <2>1, <2>3, <2>4, <2>5
<1> QED BY <1>5, <1>6

(* The handler that waits for its next reply is as busy as before.           *)
LEMMA BusyOnward ==
    ASSUME Inv, OneBusy(calls), calls # <<>>, NEW b, IsEffect(b) <=> IsEffect(Head(calls)),
           Busy(b) => Busy(Head(calls))
    PROVE  /\ IsQueue(Append(Tail(calls), b)) /\ OneBusy(Append(Tail(calls), b))
           /\ Handlers(Append(Tail(calls), b)) = Handlers(Tail(calls)) \cup {b}
           /\ Busy(Head(calls)) => \A e \in Handlers(Tail(calls)) : ~Busy(e)
<1>1. IsQueue(calls)
  BY DEF Inv, QueueInv
<1>2. /\ IsQueue(Tail(calls)) /\ OneBusy(Tail(calls))
      /\ IsEffect(Head(calls)) => \A e \in Handlers(Tail(calls)) : ~IsEffect(e)
      /\ Busy(Head(calls)) => \A e \in Handlers(Tail(calls)) : ~Busy(e)
  BY <1>1, TailCalls, BusyTail
<1> QED BY <1>2, AppendCall, BusyAppend

LEMMA CommandsKeepClean ==
    ASSUME Calm, Inv, CleanInv, IsFile(disk), Writes \/ Reinspects \/ DraftFound
    PROVE  CleanInv'
<1>1. /\ IsRecord(doc) /\ IsQueue(calls) /\ OneBusy(calls)
      /\ doc.open /\ doc.status = "loading" => \A c \in Handlers(calls) : ~Busy(c)
      /\ autoTimer => doc.open /\ doc.dirty /\ AutoSaves(doc)
      /\ \A c \in Handlers(calls) :
            /\ IsCall(c) /\ Reads(c) /\ Saves(c)
            /\ c.kind = "load" => doc.open /\ doc.status = "loading"
      /\ DiffersOpenly
  BY CleanFacts
<1>2. calls # <<>>
  BY DEF Writes, Reinspects, DraftFound, Waiting
<1> PICK c : c = Head(calls)
  OBVIOUS
<1>3. /\ IsQueue(Tail(calls)) /\ OneBusy(Tail(calls))
      /\ Handlers(calls) = Handlers(Tail(calls)) \cup {c}
      /\ Busy(c) => \A b \in Handlers(Tail(calls)) : ~Busy(b)
  BY <1>1, <1>2, TailCalls, BusyTail
<1>4. IsCall(c) /\ Reads(c) /\ Saves(c)
  BY <1>1, <1>3
<1>5. UNCHANGED <<doc, pending, edits, autoTimer, events>>
  BY DEF Writes, Reinspects, DraftFound, watcher, world
<1>6. ASSUME disk' = disk, calls' = Tail(calls) PROVE CleanInv'
  BY <1>1, <1>3, <1>5, <1>6, CleanCall, SameNews
<1>7. CASE Writes
  <2> PICK b : b = [c EXCEPT !.phase = "written"]
    OBVIOUS
  <2>1. /\ c.phase = "inspect"
        /\ \/ /\ disk.exists
              /\ disk' = [disk EXCEPT !.stamp = FreshStamp, !.content = c.content, !.readOnly = FALSE]
              /\ calls' = Append(Tail(calls), b)
           \/ disk' = disk /\ calls' = Tail(calls)
    BY <1>7 DEF Writes, Waiting
  <2>2. c.kind \in Saving /\ c.reply = disk
    BY <1>4, <2>1 DEF IsCall, Saves
  <2>3. CASE disk' = disk /\ calls' = Tail(calls)
    BY <1>6, <2>3
  <2>4. CASE /\ disk.exists
             /\ disk' = [disk EXCEPT !.stamp = FreshStamp, !.content = c.content, !.readOnly = FALSE]
             /\ calls' = Append(Tail(calls), b)
    <3>1. disk'.exists /\ disk'.content = c.content
      BY <2>4 DEF IsFile
    <3>2. /\ b.kind = c.kind /\ b.phase = "written" /\ b.content = c.content
          /\ b.version = c.version
      BY <1>4 DEF IsCall, CallFields
    <3>3. Busy(c) /\ Busy(b) /\ ~IsEffect(b) /\ ~IsEffect(c)
      BY <2>2, <3>2 DEF Busy, Saving, IsEffect
    <3>4. /\ OneBusy(calls') /\ Handlers(calls') = Handlers(Tail(calls)) \cup {b}
      BY <1>1, <1>2, <2>4, <3>3, BusyOnward
    <3>5. ~(doc.open /\ doc.status = "loading")
      BY <1>1, <1>3, <3>3
    <3>6. ASSUME NEW e \in Handlers(Tail(calls)) PROVE Reads(e)' /\ Saves(e)'
      <4>1. ~Busy(e) /\ e.kind # "load"
        BY <1>1, <1>3, <3>3, <3>5
      <4> QED BY <4>1, IdleKeeps
    <3>7. doc.open /\ (c.kind = "auto" => edits = c.version) => doc.model = c.content
      BY <1>4, <2>1, <2>2 DEF Saves
    <3>8. doc.open /\ c.kind = "auto" => doc.dirty
      BY <1>4, <2>1, <2>2 DEF Saves
    <3>9. Reads(b)' /\ Saves(b)'
      BY <1>5, <2>2, <3>1, <3>2, <3>7, <3>8 DEF Reads, Saves, Saving
    <3>10. DiffersOpenly'
      BY <1>5, <3>1, <3>7, <3>8 DEF DiffersOpenly
    <3>11. OneAtATime'
      BY <1>1, <1>5, <3>4, <3>5 DEF OneAtATime, OneBusy, Busy, AutoSaves, ReadOnly
    <3>12. \A e \in Handlers(calls') : Reads(e)' /\ Saves(e)'
      BY <3>4, <3>6, <3>9
    <3> QED BY <3>10, <3>11, <3>12 DEF CleanInv, Handlers
  <2> QED BY <2>1, <2>3, <2>4
<1>8. CASE Reinspects
  <2> PICK b : b = [c EXCEPT !.phase = "stamp", !.reply = disk]
    OBVIOUS
  <2>1. /\ disk' = disk /\ c.phase \in {"written", "content"}
        /\ calls' = Append(Tail(calls), b)
    BY <1>8 DEF Reinspects, Sends, world
  <2>2. /\ b.kind = c.kind /\ b.phase = "stamp" /\ b.content = c.content
        /\ b.version = c.version /\ b.reply = disk
    BY <1>4 DEF IsCall, CallFields
  <2>3. Reads(b)' /\ Saves(b)'
    <3>1. Reads(b)'
      BY <1>4, <2>1, <2>2 DEF Reads
    <3>2. b.kind \in Saving => c.phase = "written"
      BY <1>4, <2>1, <2>2 DEF IsCall, Saving
    <3>3. Saves(b)'
      BY <1>4, <1>5, <2>1, <2>2, <3>2 DEF Saves
    <3> QED BY <3>1, <3>3
  <2>4. (Busy(b) <=> Busy(c)) /\ (IsEffect(b) <=> IsEffect(c))
    BY <2>2 DEF Busy, IsEffect
  <2>5. OneBusy(calls') /\ Handlers(calls') = Handlers(Tail(calls)) \cup {b}
    BY <1>1, <1>2, <2>1, <2>4, BusyOnward
  <2>6. doc.open /\ doc.status = "loading" => \A e \in Handlers(calls') : ~Busy(e)
    BY <1>1, <1>3, <2>4, <2>5
  <2>7. \A e \in Handlers(calls') : e \in Handlers(calls) \/ (Reads(e)' /\ Saves(e)')
    BY <1>3, <2>3, <2>5
  <2> QED BY <1>5, <2>1, <2>5, <2>6, <2>7, CleanCall, SameNews
<1>9. CASE DraftFound
  <2>1. disk' = disk /\ calls' = Tail(calls)
    BY <1>9 DEF DraftFound, world
  <2> QED BY <1>6, <2>1
<1> QED BY <1>7, <1>8, <1>9

(* The last reply of a handler: what is on the screen then, if it is clean,  *)
(* is what the handler wrote or read.                                        *)
LEMMA LastRepliesKeepClean ==
    ASSUME Calm, Inv, CleanInv,
           \/ AutoSaveWritten \/ AutoSaveCompletes \/ SaveWritten \/ CloseCompletes
           \/ Loaded \/ LoadFails \/ Reloaded
    PROVE  CleanInv'
<1>1. /\ IsRecord(doc) /\ IsQueue(calls) /\ OneBusy(calls)
      /\ doc.open /\ doc.status = "loading" => \A c \in Handlers(calls) : ~Busy(c)
      /\ autoTimer => doc.open /\ doc.dirty /\ AutoSaves(doc)
      /\ \A c \in Handlers(calls) :
            /\ IsCall(c) /\ Reads(c) /\ Saves(c)
            /\ c.kind = "load" => doc.open /\ doc.status = "loading"
      /\ DiffersOpenly
  BY CleanFacts
<1>2. calls # <<>> /\ disk' = disk /\ edits' = edits
  <2>1. CASE AutoSaveWritten
    BY <2>1 DEF AutoSaveWritten, Waiting
  <2>2. CASE AutoSaveCompletes \/ Loaded \/ LoadFails
    BY <2>2 DEF AutoSaveCompletes, Loaded, LoadFails, Waiting, world
  <2>3. CASE SaveWritten
    BY <2>3 DEF SaveWritten, Waiting
  <2>4. CASE CloseCompletes
    BY <2>4 DEF CloseCompletes, Waiting
  <2>5. CASE Reloaded
    BY <2>5 DEF Reloaded, Waiting
  <2> QED BY <2>1, <2>2, <2>3, <2>4, <2>5
<1> PICK c : c = Head(calls)
  OBVIOUS
<1>3. /\ IsQueue(Tail(calls)) /\ OneBusy(Tail(calls))
      /\ Handlers(calls) = Handlers(Tail(calls)) \cup {c}
      /\ Busy(c) => \A b \in Handlers(Tail(calls)) : ~Busy(b)
  BY <1>1, <1>2, TailCalls, BusyTail
<1>4. /\ IsCall(c) /\ Reads(c) /\ Saves(c)
      /\ c.kind = "load" => doc.open /\ doc.status = "loading"
  BY <1>1, <1>3
<1>5. ASSUME NEW d, NEW q, NEW left, BecomeLeaving(IF doc.open THEN d ELSE doc, q, left),
             IsQueue(q), OneBusy(q),
             \A b \in Handlers(q) : Busy(b) => ~(doc.open /\ d.open /\ d.status = "loading"),
             \A b \in Handlers(q) : Reads(b)' /\ Saves(b)',
             doc.open /\ d.open /\ disk.exists => d.dirty \/ d.model = disk.content
      PROVE  CleanInv'
  <2> PICK r : r = IF doc.open THEN d ELSE doc
    OBVIOUS
  <2>1. doc' = r /\ BecomeLeaving(r, q, left)
    BY <1>5 DEF BecomeLeaving
  <2>2. DiffersOpenly'
    BY <1>2, <1>5, <2>1 DEF DiffersOpenly
  <2>3. r.open /\ r.status = "loading" => \A b \in Handlers(q) : ~Busy(b)
    BY <1>5
  <2> QED BY <1>2, <1>5, <2>1, <2>2, <2>3, CleanRecord
<1>6. ASSUME \A b \in Handlers(Tail(calls)) : ~Busy(b), NEW b \in Handlers(Tail(calls))
      PROVE  Reads(b)' /\ Saves(b)'
  <2>1. ~Busy(b) /\ Reads(b)
    BY <1>1, <1>3, <1>6
  <2> QED BY <1>2, <2>1, IdleKeeps
<1>7. ASSUME NEW b, b.kind = c.kind PROVE (Busy(b) <=> Busy(c)) /\ (IsEffect(b) <=> IsEffect(c))
  BY <1>7 DEF Busy, IsEffect
<1>8. CASE AutoSaveWritten
  <2> DEFINE d == [doc EXCEPT !.source = IF c.reply.stamp = None THEN @ ELSE c.reply.stamp]
  <2> PICK b : b = [c EXCEPT !.phase = "clear", !.reply = disk]
    OBVIOUS
  <2>1. /\ c.phase = "stamp" /\ c.kind = "auto" /\ pending' = c.reply.stamp
        /\ \/ /\ edits = c.version
              /\ BecomeLeaving(IF doc.open THEN d ELSE doc, Append(Tail(calls), b), draft)
           \/ BecomeLeaving(IF doc.open THEN d ELSE doc, Tail(calls), draft)
    BY <1>8 DEF AutoSaveWritten, Waiting, StillCurrent, Dispatch, Become, Sends
  <2>2. /\ Busy(c) /\ c.reply = disk /\ disk.exists /\ disk.content = c.content
        /\ doc.open => doc.dirty
        /\ doc.open /\ edits = c.version => doc.model = c.content
    BY <1>4, <2>1 DEF Busy, Saves, Saving
  <2>3. /\ d.open = doc.open /\ d.dirty = doc.dirty /\ d.model = doc.model
        /\ d.status = doc.status
    BY <1>1 DEF IsRecord, RecordFields
  <2>4. \A e \in Handlers(Tail(calls)) : ~Busy(e) /\ Reads(e)' /\ Saves(e)'
    BY <1>3, <1>6, <2>2
  <2>5. ~(doc.open /\ doc.status = "loading")
    BY <1>1, <1>3, <2>2
  <2>6. /\ b.kind = "auto" /\ b.phase = "clear" /\ b.content = c.content
        /\ b.version = c.version
    BY <1>4, <2>1 DEF IsCall, CallFields
  <2>7. doc'.open => doc.open /\ doc'.dirty = doc.dirty /\ doc'.model = doc.model
    BY <2>1, <2>3 DEF BecomeLeaving
  <2> HIDE DEF d
  <2>8. CASE /\ edits = c.version
             /\ BecomeLeaving(IF doc.open THEN d ELSE doc, Append(Tail(calls), b), draft)
    <3>1. Reads(b)' /\ Saves(b)'
      BY <1>2, <2>1, <2>2, <2>6, <2>7, <2>8 DEF Reads, Saves, Saving
    <3>2. /\ IsQueue(Append(Tail(calls), b)) /\ OneBusy(Append(Tail(calls), b))
          /\ Handlers(Append(Tail(calls), b)) = Handlers(Tail(calls)) \cup {b}
      BY <1>1, <1>2, <1>7, <2>1, <2>6, BusyOnward
    <3>3. /\ \A e \in Handlers(Append(Tail(calls), b)) : Reads(e)' /\ Saves(e)'
          /\ \A e \in Handlers(Append(Tail(calls), b)) :
                Busy(e) => ~(doc.open /\ d.open /\ d.status = "loading")
      BY <2>3, <2>4, <2>5, <3>1, <3>2
    <3>4. doc.open /\ d.open /\ disk.exists => d.dirty \/ d.model = disk.content
      BY <2>2, <2>3
    <3> QED BY <1>5, <2>8, <3>2, <3>3, <3>4
  <2>9. CASE BecomeLeaving(IF doc.open THEN d ELSE doc, Tail(calls), draft)
    <3>1. doc.open /\ d.open /\ disk.exists => d.dirty \/ d.model = disk.content
      BY <2>2, <2>3
    <3> QED BY <1>3, <1>5, <2>4, <2>9, <3>1
  <2> QED BY <2>1, <2>8, <2>9
<1>9. CASE AutoSaveCompletes
  <2> PICK d : d = MarkSaved(doc, pending)
    OBVIOUS
  <2>1. /\ c.phase = "clear" /\ c.kind = "auto"
        /\ BecomeLeaving(IF doc.open THEN d ELSE doc, Tail(calls), draft)
    BY <1>9 DEF AutoSaveCompletes, Waiting, Dispatch, Become
  <2>2. Busy(c) /\ disk.content = c.content /\ (doc.open => doc.model = c.content)
    BY <1>4, <2>1 DEF Busy, Saves, Saving
  <2>3. d.model = doc.model
    BY <1>1 DEF IsRecord, RecordFields, MarkSaved
  <2>4. \A e \in Handlers(Tail(calls)) : ~Busy(e) /\ Reads(e)' /\ Saves(e)'
    BY <1>3, <1>6, <2>2
  <2> QED BY <1>3, <1>5, <2>1, <2>2, <2>3, <2>4
<1>10. CASE SaveWritten
  <2> PICK d : d = MarkSaved(doc, c.reply.stamp)
    OBVIOUS
  <2> PICK b : b = [c EXCEPT !.phase = "clear", !.reply = disk]
    OBVIOUS
  <2>1. /\ c.phase = "stamp" /\ c.kind \in {"manual", "close"}
        /\ IF c.kind = "close"
             THEN BecomeLeaving(IF doc.open THEN d ELSE doc, Append(Tail(calls), b), draft)
             ELSE BecomeLeaving(IF doc.open THEN d ELSE doc, Tail(calls), draft)
    BY <1>10 DEF SaveWritten, Waiting, Dispatch, Become, Sends
  <2>2. Busy(c) /\ disk.content = c.content /\ (doc.open => doc.model = c.content)
    BY <1>4, <2>1 DEF Busy, Saves, Saving
  <2>3. d.model = doc.model /\ d.status = doc.status
    BY <1>1 DEF IsRecord, RecordFields, MarkSaved
  <2>4. \A e \in Handlers(Tail(calls)) : ~Busy(e) /\ Reads(e)' /\ Saves(e)'
    BY <1>3, <1>6, <2>2
  <2>5. ~(doc.open /\ doc.status = "loading")
    BY <1>1, <1>3, <2>2
  <2>6. doc.open /\ d.open /\ disk.exists => d.dirty \/ d.model = disk.content
    BY <2>2, <2>3
  <2>7. CASE c.kind = "close"
    <3>1. b.kind = "close" /\ b.phase = "clear"
      BY <1>4, <2>7 DEF IsCall, CallFields
    <3>2. Reads(b)' /\ Saves(b)'
      BY <3>1 DEF Reads, Saves
    <3>3. /\ IsQueue(Append(Tail(calls), b)) /\ OneBusy(Append(Tail(calls), b))
          /\ Handlers(Append(Tail(calls), b)) = Handlers(Tail(calls)) \cup {b}
      BY <1>1, <1>2, <1>7, <2>7, <3>1, BusyOnward
    <3>4. /\ \A e \in Handlers(Append(Tail(calls), b)) : Reads(e)' /\ Saves(e)'
          /\ \A e \in Handlers(Append(Tail(calls), b)) :
                Busy(e) => ~(doc.open /\ d.open /\ d.status = "loading")
      BY <2>3, <2>4, <2>5, <3>2, <3>3
    <3> QED BY <1>5, <2>1, <2>6, <2>7, <3>3, <3>4
  <2>8. CASE c.kind # "close"
    BY <1>3, <1>5, <2>1, <2>4, <2>6, <2>8
  <2> QED BY <2>7, <2>8
<1>11. CASE CloseCompletes
  <2> PICK d : d = [doc EXCEPT !.open = FALSE]
    OBVIOUS
  <2>1. BecomeLeaving(IF doc.open THEN d ELSE doc, Tail(calls), draft) /\ pending' = pending
    BY <1>11 DEF CloseCompletes, Dispatch, Become
  <2>2. ~d.open
    BY <1>1 DEF IsRecord, RecordFields
  <2>3. ~doc'.open
    BY <2>1, <2>2 DEF BecomeLeaving
  <2>4. \A b \in Handlers(Tail(calls)) : Reads(b)' /\ Saves(b)'
    BY <1>1, <1>2, <1>3, <2>1, <2>3, CallKeeps
  <2> QED BY <1>3, <1>5, <2>1, <2>2, <2>4
<1>12. CASE Loaded
  <2> PICK d : d = SetModel(doc, c.content, c.doc.readOnly \/ c.reply.readOnly, c.reply.stamp)
    OBVIOUS
  <2>1. c.kind = "load" /\ BecomeLeaving(IF doc.open THEN d ELSE doc, Tail(calls), draft)
    BY <1>12 DEF Loaded, Waiting, Dispatch, Become
  <2>2. d.model = c.content /\ c.content = disk.content
    BY <1>1, <1>4, <2>1 DEF IsRecord, RecordFields, SetModel, Reads
  <2>3. \A e \in Handlers(Tail(calls)) : ~Busy(e)
    BY <1>1, <1>3, <1>4, <2>1
  <2>4. \A e \in Handlers(Tail(calls)) : Reads(e)' /\ Saves(e)'
    BY <1>6, <2>3
  <2> QED BY <1>3, <1>5, <2>1, <2>2, <2>3, <2>4
<1>13. CASE LoadFails
  <2> PICK d : d = [doc EXCEPT !.status = "error"]
    OBVIOUS
  <2>1. c.phase = "content" /\ ~c.reply.exists /\ UNCHANGED <<pending, events>>
    BY <1>13 DEF LoadFails, Waiting, watcher
  <2>2. CASE c.kind = "load"
    <3>1. BecomeLeaving(IF doc.open THEN d ELSE doc, Tail(calls), draft)
      BY <1>13, <2>2 DEF LoadFails, Waiting, Dispatch, Become
    <3>2. ~disk.exists
      BY <1>4, <2>1, <2>2 DEF Reads
    <3>3. \A e \in Handlers(Tail(calls)) : ~Busy(e)
      BY <1>1, <1>3, <1>4, <2>2
    <3>4. \A e \in Handlers(Tail(calls)) : Reads(e)' /\ Saves(e)'
      BY <1>6, <3>3
    <3> QED BY <1>3, <1>5, <3>1, <3>2, <3>3, <3>4
  <2>3. CASE c.kind # "load"
    <3>1. calls' = Tail(calls) /\ UNCHANGED <<doc, autoTimer>>
      BY <1>13, <2>3 DEF LoadFails, Unmoved
    <3> QED BY <1>1, <1>2, <1>3, <2>1, <3>1, CleanCall, SameNews
  <2> QED BY <2>2, <2>3
<1>14. CASE Reloaded
  <2> PICK d : d = MarkSaved(SetModel(doc, c.content, c.reply.readOnly, c.reply.stamp),
                             c.reply.stamp)
    OBVIOUS
  <2>1. /\ c.kind = "reload"
        /\ BecomeLeaving(IF doc.open THEN d ELSE doc, Tail(calls), None)
    BY <1>14 DEF Reloaded, Waiting
  <2>2. d.model = c.content /\ c.content = disk.content
    BY <1>1, <1>4, <2>1 DEF IsRecord, RecordFields, SetModel, MarkSaved, Reads
  <2>3. Busy(c)
    BY <2>1 DEF Busy
  <2>4. \A e \in Handlers(Tail(calls)) : ~Busy(e) /\ Reads(e)' /\ Saves(e)'
    BY <1>3, <1>6, <2>3
  <2> QED BY <1>3, <1>5, <2>1, <2>2, <2>4
<1> QED BY <1>8, <1>9, <1>10, <1>11, <1>12, <1>13, <1>14

LEMMA StepKeepsClean ==
    ASSUME Calm, Inv, CleanInv, EnoughStamps, IsList(events), IsFile(disk), [Next]_vars
    PROVE  CleanInv'
BY PersonKeepsClean, RequestsKeepClean, OthersKeepClean, CrashKeepsClean, NewsKeepClean,
   CommandsKeepClean, LastRepliesKeepClean
   DEF Next, Person, Reply

(* A scenario does not change.                                               *)
LEMMA RacesStay == ASSUME [Next]_vars PROVE races' = races
<1>1. CASE Person
  BY <1>1 DEF Person, Open, Edit, SaveRequested, CloseClean, Discard, ReloadRequested,
     Restore, DiscardRecovery, ClosePrompt, world
<1>2. CASE Reply
  BY <1>2 DEF Reply, InspectionFindsAChange, Writes, Reinspects, AutoSaveWritten,
     AutoSaveCompletes, SaveWritten, CloseCompletes, Loaded, LoadFails, Reloaded,
     DraftFound, world
<1>3. CASE AutoSaveFires \/ RecoveryFires \/ OthersWrite \/ OthersRemove \/ OthersChangeMode
  BY <1>3 DEF AutoSaveFires, RecoveryFires, OthersWrite, OthersRemove, OthersChangeMode,
     world
<1>4. CASE Notice \/ Deliver \/ Crash \/ UNCHANGED vars
  BY <1>4 DEF Notice, Deliver, Crash, vars, world
<1> QED BY <1>1, <1>2, <1>3, <1>4 DEF Next

(* In a scenario without the races that the property leaves out, a clean     *)
(* editor that names the file as it is shows what is in it: however saves,   *)
(* reloads, news of the watcher, restored drafts and crashes interleave, and *)
(* whatever other programs write (classifyInspectedDocument,                 *)
(* classifyExternalDocumentChange, MARK_DOCUMENT_SAVED).                     *)
THEOREM CleanIsSaved ==
    ASSUME NoneIsNoDraft, EnoughStamps
    PROVE  Spec => []CleanMeansSaved
<1> DEFINE Told == /\ IsList(events) /\ IsFile(disk)
                   /\ Calm => CleanInv
<1>1. Init => Told
  BY InitClean
<1>2. Inv /\ Told /\ [Next]_vars => Told'
  <2> SUFFICES ASSUME Inv, Told, [Next]_vars PROVE Told'
    OBVIOUS
  <2>1. Calm' => Calm
    BY RacesStay DEF Calm
  <2>2. IsList(events)' /\ IsFile(disk)'
    BY EventsAreAList, FileIsAFile DEF IsList, IsFile
  <2> QED BY <2>1, <2>2, StepKeepsClean
<1>3. Told => CleanMeansSaved
  <2> SUFFICES ASSUME Told, Calm, DiffersOpenly PROVE CleanMeansSaved
    BY DEF CleanMeansSaved, Calm, CleanInv
  <2> QED BY DEF DiffersOpenly, CleanMeansSaved
<1> HIDE DEF Told
<1> QED BY <1>1, <1>2, <1>3, Invariant, PTL DEF Spec

-----------------------------------------------------------------------------
(* What other programs wrote is replaced only when a session has shown it.   *)
(* Without the races that OthersWorkIsSeen leaves out, nobody else touches   *)
(* the file while a handler that inspects or reads it is on its way, so that *)
(* an unseen file is the one that was inspected.                             *)
Heeded == races \cap {"change", "mode", "answer"} = {}

(* What a handler knows of a file that nobody has seen.                      *)
SeenCall(c) ==
    /\ c.kind \in {"load", "reload"} => c.content = disk.content \/ ~unseen
    /\ c.kind \in Saving /\ c.phase = "inspect" /\ unseen
          => c.reply = disk /\ Inspected(c.doc, disk)[1] # "none"
    /\ c.kind \in Saving /\ c.phase \in {"written", "stamp"} => ~unseen
    /\ c.kind = "auto" /\ c.phase = "clear" => ~unseen
    /\ c.kind = "lookup"
          => doc.open /\ c.content.source = doc.source /\ (doc.source = disk.stamp => ~unseen)

(* A record that names an unseen file refuses to be saved.                   *)
SeenRecord ==
    doc.open /\ (doc.dirty \/ doc.model # None) /\ unseen /\ disk.exists =>
        IF doc.dirty
          THEN doc.source = disk.stamp => doc.status \in {"external-change", "conflict", "missing"}
          ELSE NoNewsOfMode /\ (doc.source = disk.stamp => doc.status = "external-change")

SeenCandidate == candidate # None /\ candidate.source = disk.stamp => ~unseen

SeenInv ==
    /\ autoTimer => doc.open /\ doc.dirty /\ AutoSaves(doc)
    /\ doc.open => doc.source # None
    /\ doc.open /\ doc.model # None => checked
    /\ \A c \in Handlers(calls) : SeenCall(c)
    /\ SeenCandidate
    /\ SeenRecord

(* A file that is there has a stamp, which None is not.                      *)
HasStamp(f) == IsFile(f) /\ (f.exists => f.stamp # None)
NoneIsNoStamp == None \notin Stamps

(* A handler that no new record cancels knows of the file alone.             *)
LEMMA SeenCallKeeps ==
    ASSUME NEW c, SeenCall(c), disk' = disk, unseen' => unseen,
           c.kind # "lookup" \/ doc' = doc
    PROVE  SeenCall(c)'
<1>1. Inspected(c.doc, disk)[1]' = Inspected(c.doc, disk)[1]
  BY DEF Inspected, Missing, BecomesReadOnly, Modified, Writable
<1> QED BY <1>1 DEF SeenCall

(* When the file has been seen there is little to know.                      *)
LEMMA SeenIsSeen ==
    ASSUME NEW c, ~unseen',
           c.kind = "lookup" => doc'.open /\ c.content.source = doc'.source
    PROVE  SeenCall(c)'
BY DEF SeenCall

(* A step that replaces the record and leaves the file.                      *)
LEMMA SeenBecomes ==
    ASSUME SeenInv, NEW d, NEW q, NEW left, BecomeLeaving(d, q, left), disk' = disk,
           IsQueue(q), d.open => d.source # None,
           \A c \in Handlers(q) : ~IsEffect(c) => SeenCall(c),
           candidate' \in {candidate, None},
           d.open /\ d.model # None /\ ~checked /\ d.source = disk.stamp => ~unseen',
           SeenRecord'
    PROVE  SeenInv'
<1> DEFINE w == WithoutEffect(q)
<1> PICK load : load = [NewCall("load", "content", disk.content) EXCEPT !.doc = d]
  OBVIOUS
<1> PICK lookup : lookup = NewCall("lookup", "draft", Candidate(left, d))
  OBVIOUS
<1> DEFINE looks == d.open /\ d.model # None /\ ~checked
<1>1. IsQueue(w) /\ \A c \in Handlers(w) : c \in Handlers(q) /\ ~IsEffect(c)
  BY CancelledEffect
<1>2. load.kind = "load" /\ load.content = disk.content
  BY DEF NewCall
<1>3. lookup.kind = "lookup" /\ lookup.content.source = d.source
  BY DEF NewCall, Candidate
<1>4. /\ Handlers(Append(w, load)) = Handlers(w) \cup {load}
      /\ Handlers(Append(w, lookup)) = Handlers(w) \cup {lookup}
  BY <1>1, AppendCall
<1>5. /\ doc' = d /\ (unseen' => unseen) /\ (checked' <=> checked \/ looks)
      /\ autoTimer' => d.open /\ d.dirty /\ AutoSaves(d)
      /\ calls' = Append(w, load) \/ (calls' = Append(w, lookup) /\ looks) \/ calls' = w
  BY DEF BecomeLeaving, TriggerKey, SeenInv
<1> HIDE DEF w
<1>6. SeenCall(load)'
  BY <1>2 DEF SeenCall, Saving
<1>7. looks => SeenCall(lookup)'
  BY <1>3, <1>5 DEF SeenCall, Saving
<1>8. \A c \in Handlers(w) : SeenCall(c)'
  BY <1>1, <1>5, SeenCallKeeps DEF IsEffect
<1>9. \A c \in Handlers(calls') : SeenCall(c)'
  BY <1>4, <1>5, <1>6, <1>7, <1>8
<1>10. SeenCandidate'
  BY <1>5 DEF SeenCandidate, SeenInv
<1>11. autoTimer' => doc'.open /\ doc'.dirty /\ AutoSaves(doc)'
  BY <1>5 DEF AutoSaves, ReadOnly
<1> QED BY <1>5, <1>9, <1>10, <1>11 DEF SeenInv, Handlers

(* A step that leaves the record.                                            *)
LEMMA SeenStays ==
    ASSUME SeenInv, UNCHANGED <<doc, checked>>, autoTimer' => autoTimer,
           \A c \in Handlers(calls') : SeenCall(c)',
           SeenCandidate', SeenRecord'
    PROVE  SeenInv'
BY DEF SeenInv, Handlers, AutoSaves, ReadOnly

(* The record and the file stay, and no news arrives.                        *)
LEMMA SeenRecordStays ==
    ASSUME SeenRecord, UNCHANGED <<doc, disk>>, unseen' => unseen, NoNewsOfMode => NoNewsOfMode'
    PROVE  SeenRecord'
BY DEF SeenRecord

LEMMA SeenFacts ==
    ASSUME Inv, SeenInv
    PROVE  /\ IsRecord(doc) /\ IsQueue(calls)
           /\ autoTimer => doc.open /\ doc.dirty /\ AutoSaves(doc)
           /\ doc.open => doc.source # None
           /\ doc.open /\ doc.model # None => checked
           /\ \A c \in Handlers(calls) :
                 /\ IsCall(c) /\ SeenCall(c)
                 /\ c.kind = "load" => doc.open /\ doc.status = "loading"
           /\ SeenCandidate /\ SeenRecord
BY DEF Inv, QueueInv, SeenInv

LEMMA InitSeen == ASSUME EnoughStamps, NoneIsNoStamp, Init PROVE SeenInv /\ HasStamp(disk)
<1>1. calls \in Seq({}) /\ Len(calls) = 0
  BY DEF Init
<1>2. Handlers(calls) = {}
  BY <1>1 DEF Handlers
<1>3. \E s \in Stamps : TRUE
  BY FS_EmptySet DEF EnoughStamps
<1>4. (CHOOSE s \in Stamps : TRUE) \in Stamps
  BY <1>3
<1>5. HasStamp(disk)
  BY <1>4 DEF Init, HasStamp, IsFile, NoneIsNoStamp
<1>6. SeenRecord /\ SeenCandidate
  BY DEF Init, NoDoc, SeenRecord, SeenCandidate
<1> QED BY <1>2, <1>5, <1>6 DEF Init, NoDoc, SeenInv

(* A file that is written gets a name of its own.                            *)
LEMMA FileHasAStamp ==
    ASSUME HasStamp(disk), EnoughStamps, NoneIsNoStamp, IsList(calls), IsList(events),
           [Next]_vars
    PROVE  HasStamp(disk')
<1>1. FreshStamp # None
  BY StampIsFresh DEF NoneIsNoStamp
<1>2. IsFile(disk')
  BY FileIsAFile DEF HasStamp
<1>3. CASE UNCHANGED disk
  BY <1>3
<1>4. CASE Writes
  BY <1>1, <1>2, <1>4 DEF Writes, HasStamp, IsFile
<1>5. CASE OthersChangeMode
  BY <1>2, <1>5 DEF OthersChangeMode, HasStamp, IsFile
<1>6. CASE OthersWrite
  <2>1. disk'.stamp = FreshStamp
    BY <1>6 DEF OthersWrite
  <2> QED BY <1>1, <1>2, <2>1 DEF HasStamp
<1>7. CASE OthersRemove
  <2>1. ~disk'.exists
    BY <1>7 DEF OthersRemove
  <2> QED BY <1>2, <2>1 DEF HasStamp
<1> QED BY <1>3, <1>4, <1>5, <1>6, <1>7, FileSteps

(* What the person does to the record.                                       *)
LEMMA PersonKeepsSeen ==
    ASSUME Heeded, Inv, SeenInv, HasStamp(disk), Open \/ Edit \/ CloseClean \/ Restore
    PROVE  SeenInv'
<1>1. /\ IsRecord(doc) /\ IsQueue(calls)
      /\ doc.open => doc.source # None
      /\ doc.open /\ doc.model # None => checked
      /\ \A c \in Handlers(calls) : SeenCall(c)
      /\ SeenCandidate /\ SeenRecord
      /\ "answer" \notin races
  BY SeenFacts DEF Heeded
<1> USE DEF Become
<1>2. CASE Open
  <2> PICK d : d = [NoDoc EXCEPT !.open = TRUE, !.status = "loading",
                                 !.readOnly = disk.readOnly, !.source = disk.stamp]
    OBVIOUS
  <2>1. BecomeLeaving(d, calls, draft) /\ disk' = disk /\ candidate' = None /\ disk.exists
    BY <1>2 DEF Open, world
  <2>2. d.model = None /\ ~d.dirty /\ d.source # None /\ doc' = d
    BY <2>1 DEF NoDoc, BecomeLeaving, HasStamp
  <2>3. SeenRecord'
    BY <2>2 DEF SeenRecord
  <2> QED BY <1>1, <2>1, <2>2, <2>3, SeenBecomes
<1>3. CASE Edit
  <2> PICK d : d = [doc EXCEPT !.model = edits + 1, !.dirty = TRUE, !.revision = @ + 1]
    OBVIOUS
  <2>1. /\ BecomeLeaving(d, calls, draft) /\ disk' = disk /\ candidate' = candidate
        /\ doc.open /\ doc.model # None
    BY <1>3 DEF Edit
  <2>2. d.open /\ d.dirty /\ d.status = doc.status /\ d.source = doc.source
    BY <1>1, <2>1 DEF IsRecord, RecordFields
  <2>3. doc' = d /\ (unseen' => unseen)
    BY <2>1 DEF BecomeLeaving
  <2>4. SeenRecord'
    BY <1>1, <2>1, <2>2, <2>3 DEF SeenRecord
  <2> QED BY <1>1, <2>1, <2>2, <2>4, SeenBecomes
<1>4. CASE CloseClean
  <2> PICK d : d = [doc EXCEPT !.open = FALSE]
    OBVIOUS
  <2>1. BecomeLeaving(d, calls, draft) /\ disk' = disk /\ candidate' = candidate
    BY <1>4 DEF CloseClean, world
  <2>2. ~d.open /\ doc' = d
    BY <1>1, <2>1 DEF IsRecord, RecordFields, BecomeLeaving
  <2>3. SeenRecord'
    BY <2>2 DEF SeenRecord
  <2> QED BY <1>1, <2>1, <2>2, <2>3, SeenBecomes
<1>5. CASE Restore
  <2> DEFINE protected == candidate.sourceChanged \/ doc.readOnly
  <2> PICK d : d = [doc EXCEPT !.model = candidate.model, !.readOnly = FALSE, !.dirty = TRUE,
                              !.status = IF protected THEN "conflict" ELSE "editable",
                              !.revision = IF doc.dirty THEN @ ELSE @ + 1]
    OBVIOUS
  <2>1. /\ BecomeLeaving(d, calls, draft) /\ disk' = disk /\ candidate' = None
        /\ doc.open /\ candidate # None /\ doc.source = candidate.source
    BY <1>1, <1>5 DEF Restore, Admits
  <2>2. d.source = doc.source /\ d.dirty
    BY <1>1 DEF IsRecord, RecordFields
  <2>3. doc' = d /\ (unseen' => unseen)
    BY <2>1 DEF BecomeLeaving
  <2>4. d.source = disk.stamp => ~unseen'
    BY <1>1, <2>1, <2>2, <2>3 DEF SeenCandidate
  <2>5. SeenRecord'
    BY <2>1, <2>2, <2>3, <2>4 DEF SeenRecord
  <2> QED BY <1>1, <2>1, <2>2, <2>4, <2>5, SeenBecomes
<1> QED BY <1>2, <1>3, <1>4, <1>5

(* A handler starts: an unseen file that the record names is refused by the  *)
(* inspection, because the record says that it differs.                      *)
LEMMA RequestsKeepSeen ==
    ASSUME Heeded, Inv, SeenInv, HasStamp(disk),
           \/ SaveRequested("manual") \/ SaveRequested("close") \/ AutoSaveFires
           \/ ReloadRequested \/ Discard
    PROVE  SeenInv'
<1>1. /\ IsRecord(doc) /\ IsQueue(calls)
      /\ autoTimer => doc.open /\ doc.dirty /\ AutoSaves(doc)
      /\ doc.open => doc.source # None
      /\ \A c \in Handlers(calls) : SeenCall(c)
      /\ SeenCandidate /\ SeenRecord
  BY SeenFacts
<1>2. ASSUME NEW c, calls' = Append(calls, c), ~IsEffect(c),
             UNCHANGED <<doc, disk, checked, unseen, candidate, events>>,
             autoTimer' => autoTimer,
             SeenCall(c)
      PROVE  SeenInv'
  <2>1. Handlers(calls') = Handlers(calls) \cup {c}
    BY <1>1, <1>2, AppendCall
  <2>2. \A b \in Handlers(calls') : SeenCall(b)'
    BY <1>1, <1>2, <2>1, SeenCallKeeps
  <2>3. SeenRecord'
    BY <1>1, <1>2, SeenRecordStays, SameNews
  <2>4. SeenCandidate'
    BY <1>1, <1>2 DEF SeenCandidate
  <2> QED BY <1>2, <2>2, <2>3, <2>4, SeenStays
<1>3. ASSUME NEW kind \in {"manual", "close", "auto"}, doc.open,
             doc.model # None \/ doc.dirty, doc.status \notin Refused,
             NEW c, c = NewCall(kind, "inspect", doc.model)
      PROVE  ~IsEffect(c) /\ SeenCall(c)
  <2>1. c.kind = kind /\ c.phase = "inspect" /\ c.reply = disk /\ c.doc = doc
    BY <1>3 DEF NewCall
  <2>2. ASSUME unseen, disk.exists, ~disk.readOnly
        PROVE  doc.source \notin {None, disk.stamp}
    BY <1>1, <1>3, <2>2 DEF SeenRecord, Refused
  <2>3. unseen => Inspected(doc, disk)[1] # "none"
    BY <2>2 DEF Inspected
  <2> QED BY <2>1, <2>3 DEF IsEffect, SeenCall, Saving
<1>4. ASSUME NEW kind \in {"manual", "close"}, SaveRequested(kind) PROVE SeenInv'
  <2> PICK c : c = NewCall(kind, "inspect", doc.model)
    OBVIOUS
  <2>1. /\ calls' = Append(calls, c)
        /\ UNCHANGED <<doc, disk, checked, unseen, candidate, events, autoTimer>>
        /\ doc.open /\ doc.model # None /\ doc.status \notin Refused
    BY <1>4 DEF SaveRequested, world, watcher
  <2> QED BY <1>2, <1>3, <2>1
<1>5. CASE AutoSaveFires
  <2> PICK c : c = NewCall("auto", "inspect", doc.model)
    OBVIOUS
  <2>1. /\ calls' = Append(calls, c)
        /\ UNCHANGED <<doc, disk, checked, unseen, candidate, events>>
        /\ ~autoTimer' /\ autoTimer
    BY <1>5 DEF AutoSaveFires, world, watcher
  <2>2. doc.open /\ doc.dirty /\ doc.status \notin Refused
    BY <1>1, <2>1 DEF AutoSaves, Refused
  <2> QED BY <1>2, <1>3, <2>1, <2>2
<1>6. CASE ReloadRequested
  <2> PICK c : c = NewCall("reload", "content", disk.content)
    OBVIOUS
  <2>1. /\ calls' = Append(calls, c)
        /\ UNCHANGED <<doc, disk, checked, unseen, candidate, events, autoTimer>>
    BY <1>6 DEF ReloadRequested, world, watcher
  <2>2. ~IsEffect(c) /\ SeenCall(c)
    BY DEF NewCall, IsEffect, SeenCall, Saving
  <2> QED BY <1>2, <2>1, <2>2
<1>7. CASE Discard
  <2> PICK c : c = NewCall("discard", "clear", None)
    OBVIOUS
  <2>1. /\ calls' = Append(calls, c)
        /\ UNCHANGED <<doc, disk, checked, unseen, candidate, events, autoTimer>>
    BY <1>7 DEF Discard, watcher
  <2>2. ~IsEffect(c) /\ SeenCall(c)
    BY DEF NewCall, IsEffect, SeenCall, Saving
  <2> QED BY <1>2, <2>1, <2>2
<1> QED BY <1>4, <1>5, <1>6, <1>7

(* Nothing holds the stamp of a file that somebody else has just written.    *)
LEMMA OthersKeepSeen ==
    ASSUME Heeded, Inv, SeenInv, EnoughStamps, IsList(events), IsFile(disk),
           \/ DiscardRecovery \/ ClosePrompt \/ RecoveryFires
           \/ OthersWrite \/ OthersRemove \/ OthersChangeMode \/ Notice
           \/ UNCHANGED vars
    PROVE  SeenInv'
<1>1. /\ IsRecord(doc) /\ IsQueue(calls)
      /\ doc.open => doc.source # None
      /\ \A c \in Handlers(calls) : SeenCall(c)
      /\ SeenCandidate /\ SeenRecord
      /\ "change" \notin races /\ "mode" \notin races
  BY SeenFacts DEF Heeded
<1>2. UNCHANGED <<doc, calls, checked, autoTimer>> /\ candidate' \in {candidate, None}
  BY DEF DiscardRecovery, ClosePrompt, RecoveryFires, OthersWrite, OthersRemove,
         OthersChangeMode, Notice, vars, session, world
<1>3. ASSUME UNCHANGED <<disk, unseen>>, NoNewsOfMode => NoNewsOfMode' PROVE SeenInv'
  <2>1. \A c \in Handlers(calls') : SeenCall(c)'
    BY <1>1, <1>2, <1>3, SeenCallKeeps
  <2>2. SeenCandidate'
    BY <1>1, <1>2, <1>3 DEF SeenCandidate
  <2>3. SeenRecord'
    BY <1>1, <1>2, <1>3, SeenRecordStays
  <2> QED BY <1>2, <2>1, <2>2, <2>3, SeenStays
<1>4. ASSUME BetweenCommands, SeenRecord',
             candidate # None /\ candidate.source = disk'.stamp => ~unseen',
             doc.source = disk'.stamp /\ (doc.source = disk.stamp => ~unseen) => ~unseen'
      PROVE  SeenInv'
  <2>1. ~InFlight(Saving \cup {"load", "reload"})
    BY <1>1, <1>4 DEF BetweenCommands, Admits
  <2>2. ASSUME NEW c \in Handlers(calls) PROVE SeenCall(c)'
    <3>1. c.kind \notin Saving \cup {"load", "reload"}
      BY <2>1 DEF InFlight, Handlers
    <3>2. SeenCall(c)
      BY <1>1
    <3> QED BY <1>2, <1>4, <3>1, <3>2 DEF SeenCall, Saving
  <2>3. SeenCandidate'
    BY <1>2, <1>4 DEF SeenCandidate
  <2> QED BY <1>2, <1>4, <2>2, <2>3, SeenStays
<1>5. CASE DiscardRecovery \/ ClosePrompt \/ RecoveryFires \/ UNCHANGED vars
  <2>1. UNCHANGED <<disk, events, unseen>>
    BY <1>5 DEF DiscardRecovery, ClosePrompt, RecoveryFires, vars, world, watcher, session
  <2> QED BY <1>3, <2>1, SameNews
<1>6. CASE Notice
  <2>1. UNCHANGED <<disk, unseen>>
    BY <1>6 DEF Notice, world, session
  <2> QED BY <1>3, <1>6, <2>1, NoticeKeepsNews
<1>7. CASE OthersWrite
  <2>1. /\ BetweenCommands /\ events' = events
        /\ \A i \in 1..Len(events) : ~events[i].entry.readOnly
        /\ disk' = [exists |-> TRUE, readOnly |-> FALSE, stamp |-> FreshStamp,
                    content |-> -(changes + 1)]
    BY <1>1, <1>7 DEF OthersWrite, Admits
  <2>2. ~disk'.readOnly /\ disk'.stamp = FreshStamp
    BY <2>1
  <2>3. FreshStamp # doc.source /\ (candidate # None => FreshStamp # candidate.source)
    <3>1. IsList(calls)
      BY <1>1 DEF IsQueue, IsList
    <3> QED BY <3>1, StampIsFresh, HeldStamps
  <2>4. SeenRecord'
    BY <1>2, <2>1, <2>2, <2>3 DEF SeenRecord, NoNewsOfMode
  <2> QED BY <1>4, <2>1, <2>2, <2>3, <2>4
<1>8. CASE OthersRemove
  <2>1. BetweenCommands /\ ~disk'.exists /\ ~unseen'
    BY <1>8 DEF OthersRemove
  <2>2. SeenRecord'
    BY <2>1 DEF SeenRecord
  <2> QED BY <1>4, <2>1, <2>2
<1>9. CASE OthersChangeMode
  <2>1. /\ BetweenCommands
        /\ doc.open => doc.status # "external-change" /\ disk.stamp = doc.source
        /\ disk' = [disk EXCEPT !.readOnly = ~@] /\ disk.exists /\ unseen' = unseen
    BY <1>1, <1>9 DEF OthersChangeMode, Admits, session
  <2>2. disk'.stamp = disk.stamp /\ disk'.exists = disk.exists
    BY <2>1 DEF IsFile
  <2>3. SeenRecord'
    BY <1>1, <1>2, <2>1, <2>2 DEF SeenRecord
  <2> QED BY <1>1, <1>4, <2>1, <2>2, <2>3 DEF SeenCandidate
<1> QED BY <1>5, <1>6, <1>7, <1>8, <1>9

LEMMA CrashKeepsSeen == ASSUME Crash PROVE SeenInv'
<1>1. doc' = NoDoc /\ calls' = <<>> /\ ~autoTimer' /\ candidate' = None
  BY DEF Crash
<1>2. calls' \in Seq({}) /\ Len(calls') = 0
  BY <1>1
<1>3. Handlers(calls)' = {}
  BY <1>2 DEF Handlers
<1>4. SeenRecord' /\ SeenCandidate'
  BY <1>1 DEF NoDoc, SeenRecord, SeenCandidate
<1> QED BY <1>1, <1>3, <1>4 DEF SeenInv, NoDoc

(* News of a dirty record is a conflict, or the file is missing.             *)
LEMMA ConflictIsSaid ==
    ASSUME NEW d, IsRecord(d), d.dirty, NEW n,
           \/ \E file : n = Inspected(d, file)[2]
           \/ \E event : n = Announced(d, event)[2]
    PROVE  n = d \/ n.status \in {"conflict", "missing"}
<1> USE DEF RecordFields, IsRecord
<1>1. Missing(d).status = "missing"
  BY DEF Missing
<1>2. BecomesReadOnly(d).status = "conflict"
  BY DEF BecomesReadOnly
<1>3. \A stamp, readOnly : Modified(d, stamp, readOnly).status = "conflict"
  BY DEF Modified
<1>4. ~(d.status = "read-only" /\ d.readOnly)
  BY DEF ReadOnly
<1> HIDE DEF RecordFields, IsRecord
<1>5. ASSUME NEW file
      PROVE  LET m == Inspected(d, file)[2] IN m = d \/ m.status \in {"conflict", "missing"}
  BY <1>1, <1>2, <1>3, <1>4 DEF Inspected
<1>6. ASSUME NEW event
      PROVE  LET m == Announced(d, event)[2] IN m = d \/ m.status \in {"conflict", "missing"}
  BY <1>1, <1>2, <1>3, <1>4 DEF Announced
<1> QED BY <1>5, <1>6

(* News leaves a record with a stamp.                                        *)
LEMMA NewsLeavesAStamp ==
    ASSUME NEW d, IsRecord(d), d.source # None, NEW n,
           \/ \E file : n = Inspected(d, file)[2]
           \/ \E event : n = Announced(d, event)[2]
    PROVE  n.source # None
<1> DEFINE Named(m) == m.source # None
<1> USE DEF RecordFields, IsRecord
<1>1. Named(d) /\ Named(Missing(d)) /\ Named(BecomesReadOnly(d)) /\ Named(Writable(d))
  BY DEF Missing, BecomesReadOnly, Writable
<1>2. \A stamp, readOnly : Named(Modified(d, stamp, readOnly))
  BY DEF Modified
<1> HIDE DEF RecordFields, IsRecord, Named
<1>3. ASSUME NEW file PROVE Named(Inspected(d, file)[2])
  BY <1>1, <1>2 DEF Inspected
<1>4. ASSUME NEW event PROVE Named(Announced(d, event)[2])
  BY <1>1, <1>2 DEF Announced
<1> QED BY <1>3, <1>4 DEF Named

(* News of a file that nobody has seen does not hide that it differs.        *)
LEMMA NewsKeepSeen ==
    ASSUME Heeded, Inv, SeenInv, IsList(events), InspectionFindsAChange \/ Deliver
    PROVE  SeenInv'
<1>1. /\ IsRecord(doc) /\ IsQueue(calls)
      /\ doc.open => doc.source # None
      /\ doc.open /\ doc.model # None => checked
      /\ \A c \in Handlers(calls) : IsCall(c) /\ SeenCall(c)
      /\ SeenCandidate /\ SeenRecord
  BY SeenFacts
<1>2. disk' = disk /\ candidate' = candidate
  BY DEF InspectionFindsAChange, Deliver, world
<1>3. ASSUME NEW d, NEW q, IsQueue(q), Handlers(q) \subseteq Handlers(calls), Become(d, q),
             \/ \E file : d = Inspected(doc, file)[2]
             \/ \E event : d = Announced(doc, event)[2],
             NoNewsOfMode => NoNewsOfMode',
             unseen /\ d.open /\ ~doc.dirty /\ NoNewsOfMode
                 /\ (doc.source = disk.stamp => doc.status = "external-change")
               => (d.source = disk.stamp => d.status = "external-change")
      PROVE  SeenInv'
  <2>1. BecomeLeaving(d, q, draft) /\ doc' = d /\ (unseen' => unseen)
    BY <1>3 DEF Become, BecomeLeaving
  <2>2. d.model = doc.model /\ d.dirty = doc.dirty /\ (d.open => doc.open)
    BY <1>1, <1>3, NewsLeavesTheScreen
  <2>3. d.open => d.source # None
    BY <1>1, <1>3, <2>2, NewsLeavesAStamp
  <2>4. doc.dirty => d = doc \/ d.status \in {"conflict", "missing"}
    BY <1>1, <1>3, ConflictIsSaid
  <2>5. SeenRecord'
    BY <1>1, <1>2, <1>3, <2>1, <2>2, <2>4 DEF SeenRecord
  <2>6. \A c \in Handlers(q) : SeenCall(c)
    BY <1>1, <1>3
  <2> QED BY <1>1, <1>2, <1>3, <2>1, <2>2, <2>3, <2>5, <2>6, SeenBecomes
<1>4. ASSUME NEW q, Unmoved(q), Handlers(q) \subseteq Handlers(calls),
             NoNewsOfMode => NoNewsOfMode'
      PROVE  SeenInv'
  <2>1. calls' = q /\ UNCHANGED <<doc, autoTimer, checked, unseen>>
    BY <1>4 DEF Unmoved
  <2>2. \A c \in Handlers(calls') : SeenCall(c)'
    BY <1>1, <1>2, <1>4, <2>1, SeenCallKeeps
  <2>3. SeenRecord'
    BY <1>1, <1>2, <1>4, <2>1, SeenRecordStays
  <2>4. SeenCandidate'
    BY <1>1, <1>2, <2>1 DEF SeenCandidate
  <2> QED BY <2>1, <2>2, <2>3, <2>4, SeenStays
<1>5. CASE InspectionFindsAChange
  <2> PICK c : c = Head(calls)
    OBVIOUS
  <2>1. calls # <<>> /\ c.phase = "inspect" /\ events' = events
    BY <1>5 DEF InspectionFindsAChange, Waiting, watcher
  <2> PICK d : d = Inspected(doc, c.reply)[2]
    OBVIOUS
  <2>2. Become(d, Tail(calls)) \/ Unmoved(Tail(calls))
    BY <1>5 DEF InspectionFindsAChange
  <2>3. IsQueue(Tail(calls)) /\ Handlers(calls) = Handlers(Tail(calls)) \cup {c}
    BY <1>1, <2>1, TailCalls
  <2>4. unseen => c.reply = disk
    BY <1>1, <2>1, <2>3 DEF IsCall, SeenCall
  <2>5. NoNewsOfMode => NoNewsOfMode'
    BY <1>2, <2>1, SameNews
  <2>6. unseen /\ d.open /\ ~doc.dirty /\ NoNewsOfMode
            /\ (doc.source = disk.stamp => doc.status = "external-change")
          => (d.source = disk.stamp => d.status = "external-change")
    <3>1. unseen /\ NoNewsOfMode => ~c.reply.readOnly
      BY <2>4 DEF NoNewsOfMode
    <3>2. unseen => c.reply.stamp = disk.stamp
      BY <2>4
    <3> QED BY <1>1, <3>1, <3>2, DifferenceIsSaid
  <2>7. Handlers(Tail(calls)) \subseteq Handlers(calls)
    BY <2>3
  <2> QED BY <1>3, <1>4, <2>2, <2>3, <2>5, <2>6, <2>7
<1>6. CASE Deliver
  <2> PICK d : d = Announced(doc, Head(events))[2]
    OBVIOUS
  <2>1. /\ events # <<>> /\ events' = Tail(events)
        /\ Become(d, calls) \/ Unmoved(calls)
    BY <1>6 DEF Deliver
  <2>2. /\ Head(events) = events[1] /\ 1 \in 1..Len(events)
        /\ \A i \in 1..Len(events') : i + 1 \in 1..Len(events) /\ events'[i] = events[i + 1]
    BY <2>1, ListSteps
  <2>3. NoNewsOfMode => NoNewsOfMode'
    BY <1>2, <2>2 DEF NoNewsOfMode
  <2>4. d.open /\ ~doc.dirty /\ NoNewsOfMode
            /\ (doc.source = disk.stamp => doc.status = "external-change")
          => (d.source = disk.stamp => d.status = "external-change")
    <3>1. NoNewsOfMode => ~Head(events).entry.readOnly
      BY <2>2 DEF NoNewsOfMode
    <3> QED BY <1>1, <3>1, DifferenceIsSaid
  <2> QED BY <1>1, <1>3, <1>4, <2>1, <2>3, <2>4
<1> QED BY <1>5, <1>6

LEMMA CommandsKeepSeen ==
    ASSUME Heeded, Inv, SeenInv, Writes \/ Reinspects \/ DraftFound
    PROVE  SeenInv'
<1>1. /\ IsRecord(doc) /\ IsQueue(calls)
      /\ \A c \in Handlers(calls) : IsCall(c) /\ SeenCall(c)
      /\ SeenCandidate /\ SeenRecord
  BY SeenFacts
<1>2. calls # <<>>
  BY DEF Writes, Reinspects, DraftFound, Waiting
<1> PICK c : c = Head(calls)
  OBVIOUS
<1>3. /\ IsQueue(Tail(calls))
      /\ Handlers(calls) = Handlers(Tail(calls)) \cup {c}
      /\ IsEffect(c) => \A e \in Handlers(Tail(calls)) : ~IsEffect(e)
  BY <1>1, <1>2, TailCalls
<1>4. IsCall(c) /\ SeenCall(c)
  BY <1>1, <1>3
<1>5. UNCHANGED <<doc, checked, autoTimer, events>>
  BY DEF Writes, Reinspects, DraftFound, watcher, world
<1>6. ASSUME UNCHANGED <<disk, unseen>>, SeenCandidate',
             \A b \in Handlers(calls') : b \in Handlers(calls) \/ SeenCall(b)'
      PROVE  SeenInv'
  <2>1. \A b \in Handlers(calls') : SeenCall(b)'
    BY <1>1, <1>5, <1>6, SeenCallKeeps
  <2>2. SeenRecord'
    BY <1>1, <1>5, <1>6, SeenRecordStays, SameNews
  <2> QED BY <1>5, <1>6, <2>1, <2>2, SeenStays
<1>7. CASE Writes
  <2> PICK b : b = [c EXCEPT !.phase = "written"]
    OBVIOUS
  <2>1. /\ c.phase = "inspect" /\ candidate' = candidate
        /\ \/ ~unseen' /\ calls' = Append(Tail(calls), b)
           \/ UNCHANGED <<disk, unseen>> /\ calls' = Tail(calls)
    BY <1>7 DEF Writes, Waiting
  <2>2. CASE UNCHANGED <<disk, unseen>> /\ calls' = Tail(calls)
    <3>1. SeenCandidate'
      BY <1>1, <2>1, <2>2 DEF SeenCandidate
    <3> QED BY <1>3, <1>6, <2>2, <3>1
  <2>3. CASE ~unseen' /\ calls' = Append(Tail(calls), b)
    <3>1. c.kind \in Saving
      BY <1>4, <2>1 DEF IsCall
    <3>2. b.kind = c.kind
      BY <1>4 DEF IsCall, CallFields
    <3>3. ~IsEffect(b) /\ b.kind # "lookup"
      BY <3>1, <3>2 DEF IsEffect, Saving
    <3>4. Handlers(calls') = Handlers(Tail(calls)) \cup {b}
      BY <1>3, <2>3, <3>3, AppendCall
    <3>5. ASSUME NEW e \in Handlers(calls')
          PROVE  e.kind = "lookup" => doc'.open /\ e.content.source = doc'.source
      BY <1>1, <1>3, <1>5, <3>3, <3>4 DEF SeenCall
    <3>6. \A e \in Handlers(calls') : SeenCall(e)'
      BY <2>3, <3>5, SeenIsSeen
    <3>7. SeenRecord' /\ SeenCandidate'
      BY <2>3 DEF SeenRecord, SeenCandidate
    <3> QED BY <1>5, <3>6, <3>7, SeenStays
  <2> QED BY <2>1, <2>2, <2>3
<1>8. CASE Reinspects
  <2> PICK b : b = [c EXCEPT !.phase = "stamp", !.reply = disk]
    OBVIOUS
  <2>1. /\ UNCHANGED <<disk, unseen, candidate>> /\ c.phase \in {"written", "content"}
        /\ calls' = Append(Tail(calls), b)
    BY <1>8 DEF Reinspects, Sends, world
  <2>2. b.kind = c.kind /\ b.phase = "stamp" /\ b.content = c.content
    BY <1>4 DEF IsCall, CallFields
  <2>3. c.kind \in Saving => c.phase = "written"
    BY <1>4, <2>1 DEF IsCall, Saving
  <2>4. c.kind # "lookup"
    BY <1>4, <2>1 DEF IsCall, Saving
  <2>5. SeenCall(b)'
    BY <1>4, <2>1, <2>2, <2>3, <2>4 DEF SeenCall
  <2>6. Handlers(calls') = Handlers(Tail(calls)) \cup {b}
    <3>1. IsEffect(b) <=> IsEffect(c)
      BY <2>2 DEF IsEffect
    <3> QED BY <1>3, <2>1, <3>1, AppendCall
  <2>7. SeenCandidate'
    BY <1>1, <2>1 DEF SeenCandidate
  <2> QED BY <1>3, <1>6, <2>1, <2>5, <2>6, <2>7
<1>9. CASE DraftFound
  <2>1. /\ UNCHANGED <<disk, unseen>> /\ calls' = Tail(calls)
        /\ candidate' = c.content /\ c.phase = "draft"
    BY <1>9 DEF DraftFound, world, Waiting
  <2>2. c.kind = "lookup"
    BY <1>4, <2>1 DEF IsCall, Saving
  <2>3. SeenCandidate'
    BY <1>4, <2>1, <2>2 DEF SeenCall, SeenCandidate
  <2> QED BY <1>3, <1>6, <2>1, <2>3
<1> QED BY <1>7, <1>8, <1>9

(* The last reply of a handler that saved finds a file that has been seen,   *)
(* and that of a handler that reads shows it.                                *)
LEMMA LastRepliesKeepSeen ==
    ASSUME Heeded, Inv, SeenInv,
           \/ AutoSaveWritten \/ AutoSaveCompletes \/ SaveWritten \/ CloseCompletes
           \/ Loaded \/ LoadFails \/ Reloaded
    PROVE  SeenInv'
<1>1. /\ IsRecord(doc) /\ IsQueue(calls)
      /\ doc.open => doc.source # None
      /\ doc.open /\ doc.model # None => checked
      /\ \A c \in Handlers(calls) :
            /\ IsCall(c) /\ SeenCall(c)
            /\ c.kind = "load" => doc.open /\ doc.status = "loading"
      /\ SeenCandidate /\ SeenRecord
  BY SeenFacts
<1>2. calls # <<>> /\ disk' = disk /\ candidate' = candidate
  <2>1. CASE AutoSaveWritten
    BY <2>1 DEF AutoSaveWritten, Waiting
  <2>2. CASE AutoSaveCompletes \/ Loaded \/ LoadFails
    BY <2>2 DEF AutoSaveCompletes, Loaded, LoadFails, Waiting, world
  <2>3. CASE SaveWritten
    BY <2>3 DEF SaveWritten, Waiting
  <2>4. CASE CloseCompletes
    BY <2>4 DEF CloseCompletes, Waiting
  <2>5. CASE Reloaded
    BY <2>5 DEF Reloaded, Waiting
  <2> QED BY <2>1, <2>2, <2>3, <2>4, <2>5
<1> PICK c : c = Head(calls)
  OBVIOUS
<1>3. /\ IsQueue(Tail(calls))
      /\ Handlers(calls) = Handlers(Tail(calls)) \cup {c}
      /\ IsEffect(c) => \A e \in Handlers(Tail(calls)) : ~IsEffect(e)
  BY <1>1, <1>2, TailCalls
<1>4. /\ IsCall(c) /\ SeenCall(c)
      /\ c.kind = "load" => doc.open /\ doc.status = "loading"
      /\ \A e \in Handlers(Tail(calls)) : SeenCall(e)
  BY <1>1, <1>3
\* A new record d of a session that is open, when nothing is unseen then.
<1>5. ASSUME NEW d, NEW q, NEW left, BecomeLeaving(IF doc.open THEN d ELSE doc, q, left),
             IsQueue(q), \A e \in Handlers(q) : ~IsEffect(e) => SeenCall(e),
             d.open => d.source # None,
             doc.open /\ d.open => ~unseen' \/ (d.model = None /\ ~d.dirty)
      PROVE  SeenInv'
  <2> PICK r : r = IF doc.open THEN d ELSE doc
    OBVIOUS
  <2>1. BecomeLeaving(r, q, left) /\ doc' = r
    BY <1>5 DEF BecomeLeaving
  <2>2. SeenRecord'
    BY <1>5, <2>1 DEF SeenRecord
  <2>3. r.open => r.source # None /\ (r.model # None => ~unseen')
    BY <1>5
  <2> QED BY <1>2, <1>5, <2>1, <2>2, <2>3, SeenBecomes
<1>6. ASSUME NEW d, NEW q, NEW left, BecomeLeaving(IF doc.open THEN d ELSE doc, q, left)
      PROVE  /\ unseen' => unseen
             /\ doc.open /\ d.open /\ d.model = disk.content => ~unseen'
  BY <1>6 DEF BecomeLeaving
\* The handler goes on to delete the draft.
<1>7. ASSUME NEW b, b = [c EXCEPT !.phase = "clear", !.reply = disk], c.kind \in Saving,
             c.kind = "auto" => ~unseen
      PROVE  /\ IsQueue(Append(Tail(calls), b))
             /\ \A e \in Handlers(Append(Tail(calls), b)) : SeenCall(e)
  <2>1. b.kind = c.kind /\ b.phase = "clear"
    BY <1>4, <1>7 DEF IsCall, CallFields
  <2>2. SeenCall(b)
    BY <1>7, <2>1 DEF SeenCall, Saving
  <2> QED BY <1>3, <1>4, <2>1, <2>2, AppendCall DEF IsEffect
<1>8. CASE AutoSaveWritten
  <2> PICK d : d = [doc EXCEPT !.source = IF c.reply.stamp = None THEN @ ELSE c.reply.stamp]
    OBVIOUS
  <2> PICK b : b = [c EXCEPT !.phase = "clear", !.reply = disk]
    OBVIOUS
  <2>1. /\ c.phase = "stamp" /\ c.kind = "auto"
        /\ \/ BecomeLeaving(IF doc.open THEN d ELSE doc, Append(Tail(calls), b), draft)
           \/ BecomeLeaving(IF doc.open THEN d ELSE doc, Tail(calls), draft)
    BY <1>8 DEF AutoSaveWritten, Waiting, Dispatch, Become, Sends
  <2>2. ~unseen /\ c.kind \in Saving
    BY <1>4, <2>1 DEF SeenCall, Saving
  <2>3. d.open => d.source # None
    BY <1>1 DEF IsRecord, RecordFields
  <2> QED BY <1>3, <1>4, <1>5, <1>6, <1>7, <2>1, <2>2, <2>3
<1>9. CASE AutoSaveCompletes
  <2> PICK d : d = MarkSaved(doc, pending)
    OBVIOUS
  <2>1. /\ c.phase = "clear" /\ c.kind = "auto"
        /\ BecomeLeaving(IF doc.open THEN d ELSE doc, Tail(calls), draft)
    BY <1>9 DEF AutoSaveCompletes, Waiting, Dispatch, Become
  <2>2. ~unseen
    BY <1>4, <2>1 DEF SeenCall, Saving
  <2>3. d.open => d.source # None
    BY <1>1 DEF IsRecord, RecordFields, MarkSaved
  <2> QED BY <1>3, <1>4, <1>5, <1>6, <2>1, <2>2, <2>3
<1>10. CASE SaveWritten
  <2> PICK d : d = MarkSaved(doc, c.reply.stamp)
    OBVIOUS
  <2> PICK b : b = [c EXCEPT !.phase = "clear", !.reply = disk]
    OBVIOUS
  <2>1. /\ c.phase = "stamp" /\ c.kind \in {"manual", "close"}
        /\ \/ BecomeLeaving(IF doc.open THEN d ELSE doc, Append(Tail(calls), b), draft)
           \/ BecomeLeaving(IF doc.open THEN d ELSE doc, Tail(calls), draft)
    BY <1>10 DEF SaveWritten, Waiting, Dispatch, Become, Sends
  <2>2. ~unseen /\ c.kind \in Saving
    BY <1>4, <2>1 DEF SeenCall, Saving
  <2>3. d.open => d.source # None
    BY <1>1 DEF IsRecord, RecordFields, MarkSaved
  <2> QED BY <1>3, <1>4, <1>5, <1>6, <1>7, <2>1, <2>2, <2>3
<1>11. CASE CloseCompletes
  <2> PICK d : d = [doc EXCEPT !.open = FALSE]
    OBVIOUS
  <2>1. BecomeLeaving(IF doc.open THEN d ELSE doc, Tail(calls), draft)
    BY <1>11 DEF CloseCompletes, Dispatch, Become
  <2>2. ~d.open
    BY <1>1 DEF IsRecord, RecordFields
  <2> QED BY <1>3, <1>4, <1>5, <2>1, <2>2
<1>12. CASE Loaded
  <2> PICK d : d = SetModel(doc, c.content, c.doc.readOnly \/ c.reply.readOnly, c.reply.stamp)
    OBVIOUS
  <2>1. c.kind = "load" /\ BecomeLeaving(IF doc.open THEN d ELSE doc, Tail(calls), draft)
    BY <1>12 DEF Loaded, Waiting, Dispatch, Become
  <2>2. /\ d.model = c.content /\ d.open = doc.open
        /\ d.open => d.source # None
    BY <1>1 DEF IsRecord, RecordFields, SetModel
  <2>3. doc.open /\ d.open => ~unseen'
    BY <1>4, <1>6, <2>1, <2>2 DEF SeenCall
  <2> QED BY <1>3, <1>4, <1>5, <2>1, <2>2, <2>3
<1>13. CASE LoadFails
  <2> PICK d : d = [doc EXCEPT !.status = "error"]
    OBVIOUS
  <2>1. events' = events
    BY <1>13 DEF LoadFails, watcher
  <2>2. CASE c.kind = "load"
    <3>1. BecomeLeaving(IF doc.open THEN d ELSE doc, Tail(calls), draft)
      BY <1>13, <2>2 DEF LoadFails, Waiting, Dispatch, Become
    <3>2. doc.model = None /\ ~doc.dirty
      BY <1>1, <1>4, <2>2 DEF IsRecord
    <3>3. d.model = None /\ ~d.dirty /\ (d.open => d.source # None)
      BY <1>1, <3>2 DEF IsRecord, RecordFields
    <3> QED BY <1>3, <1>4, <1>5, <3>1, <3>3
  <2>3. CASE c.kind # "load"
    <3>1. calls' = Tail(calls) /\ UNCHANGED <<doc, autoTimer, checked, unseen>>
      BY <1>13, <2>3 DEF LoadFails, Unmoved
    <3>2. \A e \in Handlers(calls') : SeenCall(e)'
      BY <1>2, <1>4, <3>1, SeenCallKeeps
    <3>3. SeenRecord'
      BY <1>1, <1>2, <2>1, <3>1, SeenRecordStays, SameNews
    <3>4. SeenCandidate'
      BY <1>1, <1>2, <3>1 DEF SeenCandidate
    <3> QED BY <3>1, <3>2, <3>3, <3>4, SeenStays
  <2> QED BY <2>2, <2>3
<1>14. CASE Reloaded
  <2> PICK d : d = MarkSaved(SetModel(doc, c.content, c.reply.readOnly, c.reply.stamp),
                             c.reply.stamp)
    OBVIOUS
  <2>1. /\ c.kind = "reload"
        /\ BecomeLeaving(IF doc.open THEN d ELSE doc, Tail(calls), None)
    BY <1>14 DEF Reloaded, Waiting
  <2>2. /\ d.model = c.content /\ d.open = doc.open
        /\ d.open => d.source # None
    BY <1>1 DEF IsRecord, RecordFields, SetModel, MarkSaved
  <2>3. doc.open /\ d.open => ~unseen'
    BY <1>4, <1>6, <2>1, <2>2 DEF SeenCall
  <2> QED BY <1>3, <1>4, <1>5, <2>1, <2>2, <2>3
<1> QED BY <1>8, <1>9, <1>10, <1>11, <1>12, <1>13, <1>14

LEMMA StepKeepsSeen ==
    ASSUME Heeded, Inv, SeenInv, EnoughStamps, IsList(events), HasStamp(disk), [Next]_vars
    PROVE  SeenInv'
<1>1. IsFile(disk)
  BY DEF HasStamp
<1> QED BY <1>1, PersonKeepsSeen, RequestsKeepSeen, OthersKeepSeen, CrashKeepsSeen,
           NewsKeepSeen, CommandsKeepSeen, LastRepliesKeepSeen
           DEF Next, Person, Reply

(* A file that is written has been inspected, and was not one that nobody    *)
(* has seen.                                                                 *)
LEMMA WritesAreSeen ==
    ASSUME Inv, SeenInv, Writes, disk' # disk
    PROVE  ~unseen
<1> PICK c : c = Head(calls)
  OBVIOUS
<1>1. calls # <<>> /\ c.phase = "inspect" /\ Inspected(c.doc, c.reply)[1] = "none"
  BY DEF Writes, Waiting
<1>2. IsQueue(calls) /\ \A e \in Handlers(calls) : IsCall(e) /\ SeenCall(e)
  BY SeenFacts
<1>3. c \in Handlers(calls)
  BY <1>1, <1>2, TailCalls
<1> QED BY <1>1, <1>2, <1>3 DEF IsCall, SeenCall

(* The app never replaces a file that another program wrote and no session   *)
(* has shown, whatever the person types, and however saves and reloads       *)
(* overlap: the inspection before the write, the stamps of the store and the *)
(* drafts a session restores see to it, in every scenario in which nobody    *)
(* writes between the inspection and the write (saveWorkspaceDocument,       *)
(* classifyInspectedDocument, restoreRecovery).                              *)
THEOREM OthersAreSeen ==
    ASSUME NoneIsNoDraft, NoneIsNoStamp, EnoughStamps
    PROVE  Spec => OthersWorkIsSeen
<1> DEFINE Known == /\ IsList(events) /\ HasStamp(disk)
                    /\ Heeded => SeenInv
<1>1. Init => Known
  BY InitSeen, InitClean
<1>2. Inv /\ Known /\ [Next]_vars => Known'
  <2> SUFFICES ASSUME Inv, Known, [Next]_vars PROVE Known'
    OBVIOUS
  <2>1. Heeded' => Heeded
    BY RacesStay DEF Heeded
  <2>2. IsList(calls)
    BY DEF Inv, QueueInv, IsQueue, IsList
  <2>3. IsList(events)' /\ HasStamp(disk)'
    BY <2>2, EventsAreAList, FileHasAStamp DEF IsList, HasStamp, IsFile
  <2> QED BY <2>1, <2>3, StepKeepsSeen
<1>3. Inv /\ Known /\ [Next]_vars
        => [Writes /\ disk' # disk /\ races \intersect {"change", "mode", "answer"} = {}
              => ~unseen]_vars
  BY WritesAreSeen DEF Heeded
<1> HIDE DEF Known
<1> QED BY <1>1, <1>2, <1>3, Invariant, PTL DEF Spec, OthersWorkIsSeen

=============================================================================
