---------------------------- MODULE DocumentSave ----------------------------
(***************************************************************************)
(* One Markdown document of a workspace from open to close: the session    *)
(* record of the app store, the debounced auto-save, Save, Reload, the     *)
(* recovery draft, and the watcher that tells the session what other       *)
(* programs did to the file.                                               *)
(*                                                                         *)
(* A back-end command (inspect, read, write, delete a draft) runs to its   *)
(* end at one moment, and its caller goes on when the reply arrives.  The  *)
(* commands are synchronous ones, so they run in the order they were sent  *)
(* and their replies arrive in that order: `calls' is the queue of the     *)
(* handlers that wait for one.  Everything else (a keystroke, a timer, a   *)
(* watcher event, another program, a crash) may come between.              *)
(*                                                                         *)
(* Contents are numbers: 1, 2, ... are what the person typed, in order; 0  *)
(* and below is what other programs wrote.  A stamp names a modification   *)
(* of the file; only equality of stamps that something still holds         *)
(* matters, so a name nothing holds is used again.                         *)
(*                                                                         *)
(* Bounds: MaxEdits, MaxChanges, MaxRacing, MaxCrashes, MaxCalls.          *)
(***************************************************************************)
EXTENDS Integers, Sequences, FiniteSets

CONSTANTS None,        \* no content, stamp, draft or candidate
          Stamps,      \* names for modifications of the file
          MaxEdits, MaxChanges, MaxCrashes, MaxCalls,
          MaxRacing,   \* the changes of others in a scenario with races
          Scenarios    \* sets of races, see Admits

ASSUME SaveAssumption ==
    /\ MaxEdits \in Nat /\ MaxChanges \in Nat /\ MaxCrashes \in Nat
    /\ MaxCalls \in Nat /\ MaxRacing \in Nat
    /\ Scenarios \subseteq SUBSET {"edit", "overlap", "change", "answer", "mode"}

VARIABLES
    doc,            \* the DocumentSession in the store
    disk,           \* the file
    draft,          \* the recovery draft on disk, or None
    autoTimer,      \* the auto-save debounce is running
    recoveryTimer,  \* the recovery debounce is running
    calls,          \* handlers waiting for a reply, in the order of the replies
    pending,        \* pendingAutoSaveModified
    checked,        \* checkedRecoveryKeys: this run of the app looked for a draft
    candidate,      \* recoveryCandidate, or None
    notices,        \* raw file-system notices the watcher has not handled
    emitted,        \* kinds of event emitted, for the coalescing window
    events,         \* workspace-change events on their way to the store
    expected,       \* the watcher still expects the file as the app last wrote it
    edits,          \* contents typed so far (and editVersionRef)
    changes,        \* contents other programs wrote so far
    unseen,         \* the file holds what another program wrote and no session showed
    owed,           \* the last thing typed is neither saved nor given up
    crashes,
    races           \* the scenario: the races that may happen in this behaviour

\* What the app's screen and memory hold, what the watcher holds, the rest.
session == <<doc, autoTimer, recoveryTimer, calls, pending, checked, candidate, unseen>>
watcher == <<notices, emitted, events, expected>>
world == <<disk, draft, owed, edits, changes, crashes, races>>
vars == <<session, watcher, world>>

NoDoc == [open |-> FALSE, status |-> "closed", dirty |-> FALSE, readOnly |-> FALSE,
          revision |-> 0, source |-> None, model |-> None]

Refused == {"external-change", "conflict", "missing", "read-only"}

\* canEdit of the editor, and `enabled' of useAutoSave.
ReadOnly(d) == d.readOnly \/ d.status = "read-only"
AutoSaves(d) == d.status = "editable" /\ ~ReadOnly(d)

\* Fault: the key forgets which edit it was scheduled for.
TriggerKeyOfAnyEdit(d) == <<AutoSaves(d), d.dirty>>

\* buildAutoSaveTriggerKey.
TriggerKey(d) == <<AutoSaves(d), d.revision, d.dirty>>

\* Fault: no drafts for a session that auto-save has given up on.
WantsDraftIfSaved(d) == d.dirty /\ AutoSaves(d)

\* The condition of the recovery effect of the editor.
WantsDraft(d) == d.dirty /\ ~ReadOnly(d)

Saving == {"auto", "manual", "close"}
InFlight(kinds) == \E i \in 1..Len(calls) : calls[i].kind \in kinds

(***************************************************************************)
(* The races a scenario leaves out or admits.  "edit": the person types or *)
(* restores while a save that no version guards is running; "overlap": two *)
(* saves, or a save and a reload, at a time; "change": another program     *)
(* writes between two commands of one handler; "answer": the person        *)
(* restores the draft after the session has learnt of another program's    *)
(* change, or discards it after an edit; "mode": the permissions change    *)
(* while a change of the content is unresolved, or the content changes     *)
(* while news of a permission is on its way: BecomesReadOnly takes the     *)
(* place of the notice that the content has changed.                       *)
(***************************************************************************)
Admits(race, quiet) == race \in races \/ quiet

NewCall(kind, phase, content) ==
    [kind |-> kind, phase |-> phase, doc |-> doc, version |-> edits,
     content |-> content, reply |-> disk]

StampsHeld ==
    {doc.source, disk.stamp, pending}
        \union {saved.source : saved \in {draft, candidate} \ {None}}
        \union (UNION {{calls[i].doc.source, calls[i].reply.stamp} : i \in 1..Len(calls)})
        \union {events[i].entry.stamp : i \in 1..Len(events)}
FreshStamp == CHOOSE s \in Stamps : s \notin StampsHeld

\* classifyRecoveryDraft, on the draft and the record of the lookup.
Candidate(saved, d) ==
    [model |-> saved.model, source |-> d.source,
     sourceChanged |-> /\ saved.source # None /\ d.source # None
                       /\ saved.source # d.source]

\* The effects that wait for a reply, which a new record cancels: one at most.
IsEffect(c) == c.kind \in {"load", "lookup"}
WithoutEffect(q) ==
    IF \A i \in 1..Len(q) : ~IsEffect(q[i]) THEN q
    ELSE LET at == CHOOSE i \in 1..Len(q) : IsEffect(q[i])
         IN  [i \in 1 .. Len(q) - 1 |-> q[IF i < at THEN i ELSE i + 1]]

-----------------------------------------------------------------------------
(***************************************************************************)
(* The store replaces the session record by d while the handlers in q      *)
(* wait.  The effects that depend on the record run: the auto-save timer   *)
(* restarts when its key changes, the recovery timer restarts, a load or a *)
(* draft lookup of the old record is cancelled, a record that is loading   *)
(* is loaded, and the first record with a model makes the app look for a   *)
(* draft, once in a run of the app: it finds what `left' holds.            *)
(***************************************************************************)
BecomeLeaving(d, q, left) ==
    LET kept == WithoutEffect(q)
        looks == d.open /\ d.model # None /\ ~checked
    IN  /\ doc' = d
        /\ autoTimer' = (d.open /\ IF doc.open /\ TriggerKey(d) = TriggerKey(doc)
                                     THEN autoTimer ELSE AutoSaves(d) /\ d.dirty)
        /\ recoveryTimer' = (d.open /\ WantsDraft(d))
        /\ checked' = (checked \/ looks)
        /\ calls' = IF d.open /\ d.status = "loading"
                      THEN Append(kept, [NewCall("load", "content", disk.content)
                                           EXCEPT !.doc = d])
                    ELSE IF looks /\ left # None
                      THEN Append(kept, NewCall("lookup", "draft", Candidate(left, d)))
                    ELSE kept
        /\ unseen' = (unseen /\ ~(d.open /\ d.model = disk.content))

Become(d, q) == BecomeLeaving(d, q, draft)

\* The same for a dispatch that a closed session ignores.
Dispatch(d, q) == Become(IF doc.open THEN d ELSE doc, q)

\* A dispatch whose reducer returns the records it was given.
Unmoved(q) == calls' = q /\ UNCHANGED <<doc, autoTimer, recoveryTimer, checked, unseen>>

MarkSaved(d, stamp) ==
    [d EXCEPT !.dirty = FALSE, !.source = IF stamp = None THEN @ ELSE stamp]

SetModel(d, content, readOnly, stamp) ==
    [d EXCEPT !.model = content, !.readOnly = readOnly,
              !.status = IF readOnly THEN "read-only" ELSE "editable",
              !.source = IF stamp = None THEN @ ELSE stamp]

-----------------------------------------------------------------------------
(* What an inspection, or an event of the watcher, makes of a record *)

Modified(d, stamp, readOnly) ==
    [d EXCEPT !.status = IF d.dirty THEN "conflict" ELSE "external-change",
              !.source = IF stamp = None THEN @ ELSE stamp,
              !.readOnly = readOnly]
\* Fault: every session of a file that is gone is dropped.
MissingDropsAll(d) == [d EXCEPT !.open = FALSE]

\* A clean session of a file that is gone is dropped from the store.
Missing(d) == IF d.dirty THEN [d EXCEPT !.status = "missing"] ELSE [d EXCEPT !.open = FALSE]
BecomesReadOnly(d) ==
    [d EXCEPT !.status = IF d.dirty THEN "conflict" ELSE "read-only", !.readOnly = ~d.dirty]
Writable(d) == [d EXCEPT !.status = "editable", !.readOnly = FALSE]

\* Fault: the stamp of the file is not compared.
InspectedByPermission(d, file) ==
    IF ~file.exists THEN <<"missing", Missing(d)>>
    ELSE IF file.readOnly THEN <<"read-only", BecomesReadOnly(d)>>
    ELSE <<"none", d>>

\* classifyInspectedDocument: <<a decision, the record it leads to>>.
Inspected(d, file) ==
    IF ~file.exists THEN <<"missing", Missing(d)>>
    ELSE IF file.readOnly THEN <<"read-only", BecomesReadOnly(d)>>
    ELSE IF d.status = "missing" \/ d.source \notin {None, file.stamp}
      THEN <<"modified", Modified(d, file.stamp, FALSE)>>
    ELSE IF d.status = "read-only" /\ d.readOnly THEN <<"writable", Writable(d)>>
    ELSE <<"none", d>>

\* classifyExternalDocumentChange for events about this file; an event carries
\* the entry as the watcher found it, which need not be there any more.
Announced(d, event) ==
    LET entry == event.entry
    IN  IF event.kind = "remove" THEN <<"missing", Missing(d)>>
        ELSE IF ~entry.exists THEN <<"modified", Modified(d, None, d.readOnly)>>
        ELSE IF entry.readOnly THEN <<"read-only", BecomesReadOnly(d)>>
        ELSE IF d.status = "read-only" /\ d.readOnly THEN <<"writable", Writable(d)>>
        ELSE IF d.status # "missing" /\ d.source = entry.stamp THEN <<"none", d>>
        ELSE <<"modified", Modified(d, entry.stamp, FALSE)>>

-----------------------------------------------------------------------------
(* The person *)

Room == Len(calls) < MaxCalls

\* activateWorkspaceEntry.  A document is opened again only when the calls of
\* its last session are over.
Open ==
    /\ ~doc.open /\ calls = <<>> /\ disk.exists
    /\ Become([NoDoc EXCEPT !.open = TRUE, !.status = "loading",
                            !.readOnly = disk.readOnly, !.source = disk.stamp], calls)
    /\ pending' = None /\ candidate' = None
    /\ UNCHANGED <<watcher, world>>

\* handleTextChange and UPDATE_DOCUMENT_MODEL.
Edit ==
    /\ doc.open /\ doc.model # None /\ ~ReadOnly(doc) /\ edits < MaxEdits
    /\ Admits("edit", /\ ~InFlight({"manual", "close", "discard", "reload"})
                      /\ \A i \in 1..Len(calls) :
                            ~(calls[i].kind = "auto" /\ calls[i].phase = "clear"))
    /\ edits' = edits + 1 /\ owed' = TRUE
    /\ Become([doc EXCEPT !.model = edits + 1, !.dirty = TRUE, !.revision = @ + 1], calls)
    /\ UNCHANGED <<pending, candidate, watcher, disk, draft, changes, crashes, races>>

\* saveDocument up to its inspection: Save, or the Save answer to a close.
SaveRequested(kind) ==
    /\ doc.open /\ doc.model # None /\ doc.status \notin Refused /\ Room
    /\ kind = "close" => doc.dirty
    /\ Admits("overlap", ~InFlight(Saving \union {"reload"}))
    /\ calls' = Append(calls, NewCall(kind, "inspect", doc.model))
    /\ UNCHANGED <<doc, autoTimer, recoveryTimer, pending, checked, candidate, unseen,
                   watcher, world>>

\* requestClose of a clean session, and its Discard answer for a dirty one.
CloseClean ==
    /\ doc.open /\ ~doc.dirty
    /\ Become([doc EXCEPT !.open = FALSE], calls)
    /\ UNCHANGED <<pending, candidate, watcher, world>>

Discard ==
    /\ doc.open /\ doc.dirty /\ Room /\ ~InFlight({"discard"})
    /\ draft' = None
    /\ calls' = Append(calls, NewCall("discard", "clear", None))
    /\ UNCHANGED <<doc, autoTimer, recoveryTimer, pending, checked, candidate, unseen,
                   watcher, disk, owed, edits, changes, crashes, races>>

\* handleReloadActiveDocument, which the notice offers in two states.
ReloadRequested ==
    /\ doc.open /\ doc.status \in {"external-change", "conflict"} /\ Room
    /\ ~InFlight({"reload"})
    /\ Admits("overlap", ~InFlight(Saving))
    /\ calls' = Append(calls, NewCall("reload", "content", disk.content))
    /\ UNCHANGED <<doc, autoTimer, recoveryTimer, pending, checked, candidate, unseen,
                   watcher, world>>

\* restoreRecovery: SET_DOCUMENT_MODEL, SET_DOCUMENT_STATUS, MARK_DOCUMENT_DIRTY.
Restore ==
    /\ doc.open /\ candidate # None
    /\ Admits("edit", ~InFlight(Saving \union {"reload", "discard"}))
    /\ Admits("answer", doc.source = candidate.source)
    /\ LET protected == candidate.sourceChanged \/ doc.readOnly
       IN  Become([doc EXCEPT !.model = candidate.model, !.readOnly = FALSE, !.dirty = TRUE,
                              !.status = IF protected THEN "conflict" ELSE "editable",
                              !.revision = IF doc.dirty THEN @ ELSE @ + 1], calls)
    /\ candidate' = None
    /\ owed' = FALSE
    /\ UNCHANGED <<pending, watcher, disk, draft, edits, changes, crashes, races>>

\* discardRecovery deletes the draft the disk has now; closing the prompt keeps it.
DiscardRecovery ==
    /\ doc.open /\ candidate # None
    /\ Admits("answer", ~doc.dirty)
    /\ candidate' = None
    /\ draft' = None
    /\ UNCHANGED <<doc, autoTimer, recoveryTimer, calls, pending, checked, unseen,
                   watcher, disk, owed, edits, changes, crashes, races>>

ClosePrompt ==
    /\ doc.open /\ candidate # None
    /\ candidate' = None
    /\ UNCHANGED <<doc, autoTimer, recoveryTimer, calls, pending, checked, unseen,
                   watcher, world>>

-----------------------------------------------------------------------------
(* Timers *)

\* useAutoSave's timeout and handleAutoSave up to its inspection.
AutoSaveFires ==
    /\ autoTimer /\ Room
    /\ Admits("overlap", ~InFlight(Saving \union {"reload"}))
    /\ autoTimer' = FALSE
    /\ calls' = Append(calls, NewCall("auto", "inspect", doc.model))
    /\ UNCHANGED <<doc, recoveryTimer, pending, checked, candidate, unseen, watcher, world>>

\* The recovery timeout and handleWriteRecovery.
RecoveryFires ==
    /\ recoveryTimer
    /\ recoveryTimer' = FALSE
    /\ draft' = [model |-> doc.model, source |-> doc.source]
    /\ UNCHANGED <<doc, autoTimer, calls, pending, checked, candidate, unseen,
                   watcher, disk, owed, edits, changes, crashes, races>>

-----------------------------------------------------------------------------
(* Replies: each handler goes on with the reply at the head of the queue *)

Waiting(phase) == calls # <<>> /\ Head(calls).phase = phase
Sends(c, phase) == Append(Tail(calls), [c EXCEPT !.phase = phase, !.reply = disk])

\* inspectDocumentTarget decides on the record the save started from; the store
\* classifies again on the record it has now.
InspectionFindsAChange ==
    /\ Waiting("inspect")
    /\ LET c == Head(calls)
           decision == Inspected(doc, c.reply)
       IN  /\ Inspected(c.doc, c.reply)[1] # "none"
           /\ IF doc.open /\ decision[1] # "none"
                THEN Become(decision[2], Tail(calls)) ELSE Unmoved(Tail(calls))
    /\ UNCHANGED <<pending, candidate, watcher, world>>

\* save_workspace_document under with_expected_write. A temporary file is renamed
\* over the target, so a file marked read-only is replaced by one that is not;
\* a file that is gone ends the handler with a message or a console error.
Writes ==
    /\ Waiting("inspect")
    /\ LET c == Head(calls)
       IN  /\ Inspected(c.doc, c.reply)[1] = "none"
           /\ IF disk.exists
                THEN /\ disk' = [disk EXCEPT !.stamp = FreshStamp, !.content = c.content,
                                             !.readOnly = FALSE]
                     /\ expected' = TRUE
                     /\ unseen' = FALSE
                     /\ owed' = (owed /\ c.content # edits)
                     /\ calls' = Append(Tail(calls), [c EXCEPT !.phase = "written"])
                ELSE /\ expected' = FALSE
                     /\ calls' = Tail(calls)
                     /\ UNCHANGED <<disk, owed, unseen>>
    /\ UNCHANGED <<doc, autoTimer, recoveryTimer, pending, checked, candidate,
                   notices, emitted, events, draft, edits, changes, crashes, races>>

\* saveWorkspaceDocument inspects the file it has just written, and
\* openWorkspaceDocument the file it has just read.
Reinspects ==
    /\ calls # <<>> /\ Head(calls).phase \in {"written", "content"}
    /\ Head(calls).reply.exists
    /\ calls' = Sends(Head(calls), "stamp")
    /\ UNCHANGED <<doc, autoTimer, recoveryTimer, pending, checked, candidate, unseen,
                   watcher, world>>

\* Fault: a save completes whatever was typed since.
CurrentAnyway(c) == c.kind = "auto"

\* handleAutoSave ends; handleAutoSaveComplete starts if nothing was edited.
StillCurrent(c) == TriggerKey(doc) = TriggerKey(c.doc) /\ edits = c.version

AutoSaveWritten ==
    /\ Waiting("stamp") /\ Head(calls).kind = "auto"
    /\ LET c == Head(calls)
           sourced == [doc EXCEPT !.source = IF c.reply.stamp = None THEN @ ELSE c.reply.stamp]
       IN  /\ pending' = c.reply.stamp
           /\ IF StillCurrent(c)
                THEN draft' = None /\ Dispatch(sourced, Sends(c, "clear"))
                ELSE UNCHANGED draft /\ Dispatch(sourced, Tail(calls))
    /\ UNCHANGED <<candidate, watcher, disk, owed, edits, changes, crashes, races>>

AutoSaveCompletes ==
    /\ Waiting("clear") /\ Head(calls).kind = "auto"
    /\ Dispatch(MarkSaved(doc, pending), Tail(calls))
    /\ pending' = None
    /\ UNCHANGED <<candidate, watcher, world>>

\* The rest of saveDocument; a save that closes waits for the draft to go.
SaveWritten ==
    /\ Waiting("stamp") /\ Head(calls).kind \in {"manual", "close"}
    /\ LET c == Head(calls)
       IN  Dispatch(MarkSaved(doc, c.reply.stamp),
                    IF c.kind = "close" THEN Sends(c, "clear") ELSE Tail(calls))
    /\ draft' = None
    /\ UNCHANGED <<pending, candidate, watcher, disk, owed, edits, changes, crashes, races>>

CloseCompletes ==
    /\ Waiting("clear") /\ Head(calls).kind \in {"close", "discard"}
    /\ Dispatch([doc EXCEPT !.open = FALSE], Tail(calls))
    /\ owed' = (owed /\ Head(calls).kind # "discard")
    /\ UNCHANGED <<pending, candidate, watcher, disk, draft, edits, changes, crashes, races>>

Loaded ==
    /\ Waiting("stamp") /\ Head(calls).kind = "load"
    /\ LET c == Head(calls)
       IN  Dispatch(SetModel(doc, c.content, c.doc.readOnly \/ c.reply.readOnly, c.reply.stamp),
                    Tail(calls))
    /\ UNCHANGED <<pending, candidate, watcher, world>>

\* A file that was gone when it was read.
LoadFails ==
    /\ Waiting("content") /\ ~Head(calls).reply.exists
    /\ IF Head(calls).kind = "load"
         THEN Dispatch([doc EXCEPT !.status = "error"], Tail(calls))
         ELSE Unmoved(Tail(calls))
    /\ UNCHANGED <<pending, candidate, watcher, world>>

\* The draft is deleted before the effects of the dispatches run.
Reloaded ==
    /\ Waiting("stamp") /\ Head(calls).kind = "reload"
    /\ LET c == Head(calls)
           reloaded == MarkSaved(SetModel(doc, c.content, c.reply.readOnly, c.reply.stamp),
                                 c.reply.stamp)
       IN  BecomeLeaving(IF doc.open THEN reloaded ELSE doc, Tail(calls), None)
    /\ draft' = None
    /\ owed' = FALSE
    /\ UNCHANGED <<pending, candidate, watcher, disk, edits, changes, crashes, races>>

\* setRecoveryCandidate.
DraftFound ==
    /\ Waiting("draft")
    /\ candidate' = Head(calls).content
    /\ calls' = Tail(calls)
    /\ UNCHANGED <<doc, autoTimer, recoveryTimer, pending, checked, unseen, watcher, world>>

Reply ==
    \/ InspectionFindsAChange \/ Writes \/ Reinspects \/ AutoSaveWritten \/ AutoSaveCompletes
    \/ SaveWritten \/ CloseCompletes \/ Loaded \/ LoadFails \/ Reloaded \/ DraftFound

-----------------------------------------------------------------------------
(* Other programs, the watcher, a crash *)

MayChange == changes < IF races = {} THEN MaxChanges ELSE MaxRacing
BetweenCommands == Admits("change", ~InFlight(Saving \union {"load", "reload"}))

OthersWrite ==
    /\ MayChange /\ BetweenCommands
    /\ ~disk.readOnly
    /\ Admits("mode", \A i \in 1..Len(events) : ~events[i].entry.readOnly)
    /\ changes' = changes + 1
    /\ disk' = [exists |-> TRUE, readOnly |-> FALSE, stamp |-> FreshStamp,
                content |-> -(changes + 1)]
    /\ unseen' = TRUE /\ expected' = FALSE
    /\ notices' = Append(notices, IF disk.exists THEN "modify" ELSE "create")
    /\ UNCHANGED <<doc, autoTimer, recoveryTimer, calls, pending, checked, candidate,
                   emitted, events, draft, owed, edits, crashes, races>>

OthersRemove ==
    /\ disk.exists /\ MayChange /\ BetweenCommands
    /\ changes' = changes + 1
    /\ disk' = [exists |-> FALSE, readOnly |-> FALSE, stamp |-> None, content |-> None]
    /\ unseen' = FALSE /\ expected' = FALSE
    /\ notices' = Append(notices, "remove")
    /\ UNCHANGED <<doc, autoTimer, recoveryTimer, calls, pending, checked, candidate,
                   emitted, events, draft, owed, edits, crashes, races>>

OthersChangeMode ==
    /\ disk.exists /\ MayChange /\ BetweenCommands
    /\ Admits("mode", doc.open => doc.status # "external-change" /\ disk.stamp = doc.source)
    /\ changes' = changes + 1
    /\ disk' = [disk EXCEPT !.readOnly = ~@]
    /\ notices' = Append(notices, "modify")
    /\ UNCHANGED <<session, emitted, events, expected, draft, owed, edits, crashes, races>>

\* normalize_event, should_suppress_expected (which forgets a write after a
\* while, or when the file is not as that write left it) and emit_change
\* (which drops an event like one it has just emitted).
Notice ==
    /\ notices # <<>>
    /\ LET kind == Head(notices)
       IN  \/ expected /\ UNCHANGED <<emitted, events, expected>>
           \/ /\ expected' = FALSE
              /\ \/ /\ events' = Append(events, [kind |-> kind, entry |-> disk])
                    /\ emitted' = emitted \union {kind}
                 \/ kind \in emitted /\ UNCHANGED <<emitted, events>>
    /\ notices' = Tail(notices)
    /\ UNCHANGED <<session, world>>

\* The workspace-change listener and APPLY_WORKSPACE_CHANGE.  The workspace
\* object is new, so a load starts again even if the record is not.
Deliver ==
    /\ events # <<>>
    /\ LET decision == Announced(doc, Head(events))
       IN  IF doc.open /\ (decision[1] # "none" \/ doc.status = "loading")
             THEN Become(decision[2], calls) ELSE Unmoved(calls)
    /\ events' = Tail(events)
    /\ UNCHANGED <<pending, candidate, notices, emitted, expected, world>>

Crash ==
    /\ crashes < MaxCrashes
    /\ crashes' = crashes + 1
    /\ doc' = NoDoc /\ calls' = <<>> /\ autoTimer' = FALSE /\ recoveryTimer' = FALSE
    /\ pending' = None /\ checked' = FALSE /\ candidate' = None
    /\ notices' = <<>> /\ emitted' = {} /\ events' = <<>> /\ expected' = FALSE
    /\ owed' = FALSE
    /\ UNCHANGED <<unseen, disk, draft, edits, changes, races>>

-----------------------------------------------------------------------------
Init ==
    /\ doc = NoDoc
    /\ disk = [exists |-> TRUE, readOnly |-> FALSE, content |-> 0,
               stamp |-> CHOOSE s \in Stamps : TRUE]
    /\ draft = None /\ autoTimer = FALSE /\ recoveryTimer = FALSE
    /\ calls = <<>> /\ pending = None /\ checked = FALSE /\ candidate = None
    /\ notices = <<>> /\ emitted = {} /\ events = <<>> /\ expected = FALSE
    /\ edits = 0 /\ changes = 0 /\ unseen = TRUE /\ owed = FALSE /\ crashes = 0
    /\ races \in Scenarios

Person ==
    \/ Open \/ Edit \/ SaveRequested("manual") \/ SaveRequested("close") \/ CloseClean
    \/ Discard \/ ReloadRequested \/ Restore \/ DiscardRecovery
    \/ ClosePrompt

Next ==
    \/ Person
    \/ AutoSaveFires \/ RecoveryFires
    \/ Reply
    \/ OthersWrite \/ OthersRemove \/ OthersChangeMode
    \/ Notice \/ Deliver
    \/ Crash

Spec == Init /\ [][Next]_vars
FairSpec == Spec /\ WF_vars(Reply) /\ WF_vars(AutoSaveFires)
                 /\ WF_vars(Notice) /\ WF_vars(Deliver)
-----------------------------------------------------------------------------
(* What must hold *)

Content == (-MaxChanges .. MaxEdits) \union {None}
Status == {"closed", "loading", "editable", "read-only", "external-change", "conflict",
           "missing", "error"}

(***************************************************************************)
(* Types, and the combinations of a record's fields that are real: a timer *)
(* runs only for what it would save.                                       *)
(***************************************************************************)
TypeOK ==
    /\ doc.status \in Status /\ doc.model \in Content /\ doc.source \in Stamps \union {None}
    /\ doc.open => doc.status # "closed"
    /\ doc.status = "editable" => ~doc.readOnly
    /\ doc.status = "read-only" => doc.readOnly /\ ~doc.dirty
    /\ disk.exists <=> disk.stamp # None
    /\ disk.exists => disk.content # None
    /\ draft # None => draft.model \in 1..MaxEdits
    /\ autoTimer => doc.open /\ doc.dirty /\ AutoSaves(doc)
    /\ recoveryTimer => doc.open /\ doc.dirty /\ doc.model \in 1..MaxEdits
    /\ Len(calls) <= MaxCalls + 2

(***************************************************************************)
(* A clean editor shows the file it names: if the file still is as the     *)
(* session last knew it, what is on the screen is what is in it.  Not      *)
(* under "edit", where what is typed while a Save is on its way is marked  *)
(* saved with it, "overlap", "change" or "mode".                           *)
(***************************************************************************)
CleanMeansSaved ==
    /\ races \intersect {"edit", "overlap", "change", "mode"} = {}
    /\ doc.open /\ ~doc.dirty /\ doc.model # None /\ doc.status \in {"editable", "read-only"}
    /\ disk.exists /\ doc.source = disk.stamp
    => doc.model = disk.content

(***************************************************************************)
(* The last thing the person typed stays on the screen until it has been   *)
(* saved, or they give it up (discard, reload, restore a draft), or the    *)
(* app crashes.  Closing a clean document asks nobody, and a clean session *)
(* whose file disappears is dropped.  Not under "edit": an edit typed      *)
(* while its document is being closed or reloaded goes with it.            *)
(***************************************************************************)
LastEditIsKept == owed => doc.open /\ doc.model = edits

(***************************************************************************)
(* The app replaces what another program wrote only if some session has    *)
(* shown it.  Not under "change", "mode" or "answer".                      *)
(***************************************************************************)
OthersWorkIsSeen ==
    [][ Writes /\ disk' # disk /\ races \intersect {"change", "mode", "answer"} = {}
          => ~unseen ]_vars

(***************************************************************************)
(* A dirty document survives a crash, up to the debounce: it is in the     *)
(* file, in a recovery draft, or about to be written to one.  Not under    *)
(* "answer": discarding an old draft deletes the draft of a newer edit.    *)
(***************************************************************************)
DirtyIsRecoverable ==
    doc.open /\ doc.dirty /\ ~InFlight({"discard"})
        => \/ recoveryTimer
           \/ draft # None /\ draft.model = doc.model
           \/ disk.content = doc.model

(***************************************************************************)
(* Unsaved edits of an editable document are saved without the person      *)
(* doing anything, unless the document stops being editable or is closed.  *)
(* Not under "overlap" or "change": a write that fails is not tried again, *)
(* and a save refused by its inspection waits for the next edit.           *)
(***************************************************************************)
EditsAreSaved == doc.open /\ doc.dirty /\ AutoSaves(doc) ~> ~(doc.open /\ doc.dirty /\ AutoSaves(doc))
=============================================================================
