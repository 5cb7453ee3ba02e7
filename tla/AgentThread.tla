----------------------------- MODULE AgentThread -----------------------------
(***************************************************************************)
(* The Agent's conversation from the prompt to the history on disk: the    *)
(* panel that starts and stops turns (AgentPanel.tsx), the events a turn   *)
(* sends over its channel (NativeTurnEmitter, agentRuntime.ts), the        *)
(* reducer that orders them by number (agentStore.ts), the reconciliation  *)
(* of a turn whose command has answered, and the threads' records          *)
(* (useAgentThread.ts, agent/repository.rs).                               *)
(*                                                                         *)
(* What a turn does is AgentTurn's; here it sends numbered events, asks    *)
(* for an approval, ends, and its command replies.  A back-end command is  *)
(* synchronous: it takes effect when it is sent, and its reply comes later. *)
(*                                                                         *)
(* Bound: MaxSent events before a turn ends.                               *)
(***************************************************************************)
EXTENDS Naturals, Sequences, FiniteSets

CONSTANTS
    Turn, Thread,
    First,          \* the thread that is open at first
    NoTurn,         \* no turn is active
    NoRecord,       \* nothing on disk, nothing on its way from it
    MaxSent,
    Races           \* the races a run admits, see Admits

ASSUME ThreadAssumption ==
    /\ First \in Thread
    /\ NoTurn \notin Turn
    /\ MaxSent \in Nat
    /\ Races \subseteq {"double", "switch", "overtake", "resurrect"}

VARIABLES
    pc,             \* Turn -> where the panel's submit is
    home,           \* Turn -> the thread it was submitted in
    native,         \* Turn -> where run_agent is
    sent,           \* Turn -> sequence of the next event
    channel,        \* Turn -> the events on their way
    answered,       \* turns whose command has ended and not yet replied
    linked,         \* activeTurns of the runtime
    gaveUp,         \* cancelledTurnIdsRef
    cancels,        \* cancelTurn calls that wait for their reply
    deciding,       \* resolveApproval calls that wait: [turn, sequence]
    frame,          \* queuedEventsRef: deltas that wait for the next frame
    view,           \* the AgentThreadState on the screen
    timer,          \* the debounced save is armed
    saved,          \* Thread -> record on disk
    used,           \* thread ids handed out
    resuming,       \* the record on its way to resumeThread
    deleting,       \* the open thread that is being deleted, as it was shown
    deletedIds,     \* deletedThreadIdsRef
    gone            \* ghost: threads deleted from disk

turnVars == <<pc, home, native, sent, channel, answered>>
panelVars == <<linked, gaveUp, cancels, deciding>>
threadVars == <<frame, view, timer>>
historyVars == <<saved, used, resuming, deleting, deletedIds, gone>>
vars == <<turnVars, panelVars, threadVars, historyVars>>

Terminal == {"completed", "failed", "cancelled"}
Kinds == {"started", "delta", "item", "approvalRequested", "approvalResolved"}
            \cup Terminal
Event == [sequence : Nat, kind : Kinds]
Status == {"absent", "running"} \cup Terminal
Approval == {"none", "pending", "decided"}
View == [thread : Thread, turns : [Turn -> Status], next : [Turn -> Nat],
         pending : [Turn -> SUBSET Event], approval : [Turn -> Approval],
         active : Turn \cup {NoTurn}]
Record == [Turn -> {"absent"} \cup Terminal]
Deletion == [old : View, step : {"unsaved", "saved", "undeleted"}]

\* The types of what is on the screen, on its way and on disk.
TypeOK ==
    /\ pc \in [Turn -> {"new", "titling", "running", "disposing", "over"}]
    /\ home \in [Turn -> Thread]
    /\ native \in [Turn -> {"idle", "running", "approving"} \cup Terminal]
    /\ sent \in [Turn -> Nat]
    /\ channel \in [Turn -> Seq(Event)]
    /\ answered \subseteq Turn
    /\ linked \subseteq Turn /\ gaveUp \subseteq Turn /\ cancels \subseteq Turn
    /\ deciding \subseteq [turn : Turn, sequence : Nat]
    /\ frame \in Seq([turn : Turn, event : Event])
    /\ view \in View
    /\ timer \in BOOLEAN
    /\ saved \in [Thread -> Record \cup {NoRecord}]
    /\ used \subseteq Thread
    /\ resuming \in [thread : Thread, record : Record] \cup {NoRecord}
    /\ deleting \in Deletion \cup {NoRecord}
    /\ deletedIds \subseteq Thread /\ gone \subseteq Thread

(***************************************************************************)
(* The races a run may leave out.  "double": a prompt is submitted while   *)
(* another one's turn has not started; "switch": the thread is changed     *)
(* then; "overtake": the command's reply overtakes more of the turn's      *)
(* events than its last; "resurrect": a thread is deleted while its record *)
(* is on its way to the screen.                                            *)
(***************************************************************************)
Admits(race, quiet) == race \in Races \/ quiet

(* Fault: the turns of the record are not taken over.                        *)
ShownAnew(thread, record) ==
    [thread |-> thread, turns |-> [t \in Turn |-> "absent"],
     next |-> [t \in Turn |-> 0], pending |-> [t \in Turn |-> {}],
     approval |-> [t \in Turn |-> "none"], active |-> NoTurn]

(* createAgentThreadState and hydrateAgentThreadState                        *)
Shown(thread, record) ==
    [thread |-> thread, turns |-> record, next |-> [t \in Turn |-> 0],
     pending |-> [t \in Turn |-> {}], approval |-> [t \in Turn |-> "none"],
     active |-> NoTurn]
Empty == [t \in Turn |-> "absent"]

Init ==
    /\ pc = [t \in Turn |-> "new"]
    /\ home = [t \in Turn |-> First]
    /\ native = [t \in Turn |-> "idle"]
    /\ sent = [t \in Turn |-> 0]
    /\ channel = [t \in Turn |-> <<>>]
    /\ answered = {} /\ linked = {} /\ gaveUp = {} /\ cancels = {}
    /\ deciding = {} /\ frame = <<>>
    /\ view = Shown(First, Empty) /\ timer = FALSE
    /\ saved = [th \in Thread |-> IF th = First THEN Empty ELSE NoRecord]
    /\ used = {First} /\ resuming = NoRecord /\ deleting = NoRecord
    /\ deletedIds = {} /\ gone = {}

-----------------------------------------------------------------------------
(* The reducer *)

(* applyOrderedEvent, for what the properties tell apart.                    *)
Ordered(v, t, kind) ==
    CASE kind = "started" /\ v.turns[t] = "absent" ->
           [v EXCEPT !.turns[t] = "running", !.active = t]
      [] v.turns[t] = "running" /\ kind \in Terminal ->
           [v EXCEPT !.turns[t] = kind, !.active = IF @ = t THEN NoTurn ELSE @]
      [] v.turns[t] = "running" /\ kind = "approvalRequested" ->
           [v EXCEPT !.approval[t] = "pending"]
      [] v.turns[t] = "running" /\ kind = "approvalResolved" ->
           [v EXCEPT !.approval[t] = "decided"]
      [] OTHER -> v

Process(v, t, e) ==
    [Ordered(v, t, e.kind) EXCEPT !.next[t] = e.sequence + 1,
                                  !.pending[t] = @ \ {e}]

(* applyAndFlush: the event, then the buffered ones that follow it.          *)
Flush(v, t, e) ==
    LET due(w) == {p \in w.pending[t] : p.sequence = w.next[t]}
        rounds == Cardinality(v.pending[t])
        after[n \in 0 .. rounds] ==
          IF n = 0 THEN Process(v, t, e)
          ELSE IF due(after[n - 1]) = {} THEN after[n - 1]
          ELSE Process(after[n - 1], t, CHOOSE p \in due(after[n - 1]) : TRUE)
    IN  after[rounds]

(* reduceAgentEvent                                                          *)
Reduce(v, t, e) ==
    CASE home[t] # v.thread \/ e.sequence < v.next[t] -> v
      [] home[t] = v.thread /\ e.sequence = v.next[t] -> Flush(v, t, e)
      [] OTHER ->
           IF \E p \in v.pending[t] : p.sequence = e.sequence THEN v
           ELSE [v EXCEPT !.pending[t] = @ \cup {e}]

(* The deltas that wait for a frame, in order.                               *)
Reduced(v, queue) ==
    LET after[n \in 0 .. Len(queue)] ==
          IF n = 0 THEN v
          ELSE Reduce(after[n - 1], queue[n].turn, queue[n].event)
    IN  after[Len(queue)]

(* Fault: whether a turn is active is read from the state before.            *)
ShowStale(v) ==
    /\ view' = v
    /\ timer' = IF v = view THEN timer ELSE view.active = NoTurn

(* A new state arms the save, unless a turn is active; the old one's is off. *)
Show(v) ==
    /\ view' = v
    /\ timer' = IF v = view THEN timer ELSE v.active = NoTurn

(* emit: a delta waits for the next frame, anything else takes the waiting   *)
(* deltas along.                                                             *)
Emit(t, e) ==
    LET queue == Append(frame, [turn |-> t, event |-> e])
    IN  IF e.kind = "delta" THEN frame' = queue /\ UNCHANGED <<view, timer>>
        ELSE frame' = <<>> /\ Show(Reduced(view, queue))

(* Fault: the settlement is numbered as if the screen had seen it.           *)
SettledAhead(v, t, outcome) ==
    IF v.active = t /\ v.turns[t] = "running"
      THEN Reduce(v, t, [sequence |-> v.next[t] + 1, kind |-> outcome])
      ELSE v

(* reconcileSettledAgentTurn                                                 *)
Settled(v, t, outcome) ==
    IF v.active = t /\ v.turns[t] = "running"
      THEN Reduce(v, t, [sequence |-> v.next[t], kind |-> outcome])
      ELSE v

-----------------------------------------------------------------------------
(* The panel submits a prompt *)

(* retain_persistable_turns: a record keeps the turns that have ended.       *)
Persisted(v) ==
    [t \in Turn |-> IF v.turns[t] \in Terminal THEN v.turns[t] ELSE "absent"]
Save(v) == saved' = [saved EXCEPT ![v.thread] = Persisted(v)]

(* The dialog of a deletion is modal, and stays open until it has ended.     *)
Attended == deleting = NoRecord

Starting == \E t \in Turn : \/ pc[t] = "titling"
                            \/ pc[t] = "running" /\ view.turns[t] = "absent"

Submits(t) ==
    /\ pc[t] = "new" /\ view.active = NoTurn /\ Attended
    /\ Admits("double", ~Starting)
    /\ home' = [home EXCEPT ![t] = view.thread]

(* The thread gets its title from the prompt, which arms the save, and is    *)
(* saved before the turn.                                                    *)
SubmitFirst(t) ==
    /\ Submits(t)
    /\ pc' = [pc EXCEPT ![t] = "titling"]
    /\ timer' = TRUE
    /\ Save(view)
    /\ UNCHANGED <<native, sent, channel, answered, panelVars, frame, view,
                   used, resuming, deleting, deletedIds, gone>>

StartTurn(t) ==
    /\ pc' = [pc EXCEPT ![t] = "running"]
    /\ linked' = linked \cup {t}
    /\ UNCHANGED <<native, sent, channel, answered, gaveUp, cancels, deciding,
                   threadVars, historyVars>>

SubmitNext(t) == Submits(t) /\ StartTurn(t)
TitleSaved(t) == pc[t] = "titling" /\ StartTurn(t) /\ UNCHANGED home

-----------------------------------------------------------------------------
(* The back end runs the turn *)

(* activeTurns holds the turn; what comes when it does not is not listened   *)
(* to, and leaves the channel here at once.                                  *)
Hears(t) == t \in linked

(* Fault: what is on its way is still listened to.                           *)
UnlinkLate(t) ==
    /\ linked' = linked \ {t}
    /\ UNCHANGED channel

Unlink(t) ==
    /\ linked' = linked \ {t}
    /\ channel' = [channel EXCEPT ![t] = <<>>]

Sends(t, kinds) ==
    /\ channel' = [channel EXCEPT ![t] =
         IF Hears(t)
           THEN @ \o [i \in DOMAIN kinds |-> [sequence |-> sent[t] + i - 1,
                                              kind |-> kinds[i]]]
           ELSE <<>>]
    /\ sent' = [sent EXCEPT ![t] = @ + Len(kinds)]

NativeStarts(t) ==
    /\ pc[t] = "running" /\ native[t] = "idle"
    /\ native' = [native EXCEPT ![t] = "running"]
    /\ Sends(t, <<"started">>)
    /\ UNCHANGED <<pc, home, answered, panelVars, threadVars, historyVars>>

(* A refused run rejects the command and sends nothing.                      *)
NativeRefuses(t) ==
    /\ pc[t] = "running" /\ native[t] = "idle"
    /\ native' = [native EXCEPT ![t] = "failed"]
    /\ answered' = answered \cup {t}
    /\ UNCHANGED <<pc, home, sent, channel, panelVars, threadVars, historyVars>>

NativeSends(t) ==
    /\ native[t] = "running" /\ sent[t] < MaxSent
    /\ Sends(t, <<"delta">>)
    /\ UNCHANGED <<pc, home, native, answered, panelVars, threadVars, historyVars>>

NativeAsks(t) ==
    /\ native[t] = "running" /\ sent[t] < MaxSent
    /\ native' = [native EXCEPT ![t] = "approving"]
    /\ Sends(t, <<"approvalRequested">>)
    /\ UNCHANGED <<pc, home, answered, panelVars, threadVars, historyVars>>

(* The reply is a resolution if the turn completed and a rejection if not.   *)
Ends(t, kinds, outcome) ==
    /\ native' = [native EXCEPT ![t] = outcome]
    /\ Sends(t, kinds)
    /\ answered' = answered \cup {t}
    /\ UNCHANGED <<pc, home, panelVars, threadVars, historyVars>>

(* finalize_assistant, turnCompleted                                         *)
NativeCompletes(t) ==
    native[t] = "running" /\ Ends(t, <<"item", "completed">>, "completed")
NativeFails(t) == native[t] = "running" /\ Ends(t, <<"failed">>, "failed")
NativeIsCancelled(t) ==
    /\ native[t] \in {"running", "approving"} /\ t \in gaveUp
    /\ Ends(t, <<"cancelled">>, "cancelled")

-----------------------------------------------------------------------------
(* The runtime of the front end *)

Deliver(t) ==
    /\ channel[t] # <<>>
    /\ channel' = [channel EXCEPT ![t] = Tail(@)]
    /\ Emit(t, Head(channel[t]))
    /\ UNCHANGED <<pc, home, native, sent, answered, panelVars, historyVars>>

Frame ==
    /\ frame # <<>>
    /\ frame' = <<>>
    /\ Show(Reduced(view, frame))
    /\ UNCHANGED <<turnVars, panelVars, historyVars>>

(* Fault: the completion is numbered as one more event.                      *)
SettledNumberOneMore(t) == sent[t]

(* createSettledTurnCompletedEvent: the number of the terminal event.        *)
SettledNumber(t) == sent[t] - 1

(* The command has replied: a resolution is emitted as the turn's completion *)
(* before the turn leaves activeTurns; then the tools are disposed of.       *)
Replies(t) ==
    /\ pc[t] = "running" /\ t \in answered
    /\ Admits("overtake", t \in linked => Len(channel[t]) <= 1)
    /\ answered' = answered \ {t}
    /\ Unlink(t)
    /\ pc' = [pc EXCEPT ![t] = "disposing"]
    /\ IF native[t] = "completed"
         THEN Emit(t, [sequence |-> SettledNumber(t), kind |-> "completed"])
         ELSE UNCHANGED threadVars
    /\ UNCHANGED <<home, native, sent, gaveUp, cancels, deciding, historyVars>>

SettleTurn(t, outcome) == Show(Settled(view, t, outcome)) /\ UNCHANGED frame

(* The finally of submit: no turn stays open whose command has ended.        *)
SubmitEnds(t) ==
    /\ pc[t] = "disposing"
    /\ pc' = [pc EXCEPT ![t] = "over"]
    /\ gaveUp' = gaveUp \ {t}
    /\ SettleTurn(t, IF t \in gaveUp THEN "cancelled" ELSE "failed")
    /\ UNCHANGED <<home, native, sent, channel, answered, linked, cancels,
                   deciding, historyVars>>

(* Stop, or the panel is deactivated.                                        *)
Cancel(t) ==
    /\ view.active = t /\ t \notin cancels
    /\ gaveUp' = gaveUp \cup {t}
    /\ cancels' = cancels \cup {t}
    /\ UNCHANGED <<turnVars, linked, deciding, threadVars, historyVars>>

CancelReplies(t) ==
    /\ t \in cancels
    /\ cancels' = cancels \ {t}
    /\ Unlink(t)
    /\ SettleTurn(t, "cancelled")
    /\ UNCHANGED <<pc, home, native, sent, answered, gaveUp, deciding,
                   historyVars>>

(* The person decides; the number of the event is the one on the screen.     *)
Decide(t) ==
    /\ view.approval[t] = "pending" /\ native[t] = "approving"
    /\ native' = [native EXCEPT ![t] = "running"]
    /\ deciding' = deciding \cup {[turn |-> t, sequence |-> view.next[t]]}
    /\ UNCHANGED <<pc, home, sent, channel, answered, linked, gaveUp, cancels,
                   threadVars, historyVars>>

DecisionReplies(d) ==
    /\ d \in deciding
    /\ deciding' = deciding \ {d}
    /\ Emit(d.turn, [sequence |-> d.sequence, kind |-> "approvalResolved"])
    /\ UNCHANGED <<turnVars, linked, gaveUp, cancels, historyVars>>

-----------------------------------------------------------------------------
(* Threads and their records *)

(* A deleted thread is not saved again.                                      *)
MaySave == view.thread \notin deletedIds

TimerFires ==
    /\ timer
    /\ timer' = FALSE
    /\ IF MaySave THEN Save(view) ELSE UNCHANGED saved
    /\ UNCHANGED <<turnVars, panelVars, frame, view, used, resuming, deleting,
                   deletedIds, gone>>

(* The selector and the header are disabled while a turn is active.          *)
MaySwitch == view.active = NoTurn /\ Attended /\ Admits("switch", ~Starting)

NewThread(th) ==
    /\ MaySwitch
    /\ th \notin used
    /\ used' = used \cup {th}
    /\ Show(Shown(th, Empty))
    /\ saved' = [saved EXCEPT ![th] = Empty]
    /\ UNCHANGED <<turnVars, panelVars, frame, resuming, deleting, deletedIds, gone>>

Resume(th) ==
    /\ MaySwitch
    /\ th # view.thread /\ saved[th] # NoRecord /\ resuming = NoRecord
    /\ resuming' = [thread |-> th, record |-> saved[th]]
    /\ UNCHANGED <<turnVars, panelVars, threadVars, saved, used, deleting,
                   deletedIds, gone>>

Resumed ==
    /\ resuming # NoRecord
    /\ Admits("switch", ~Starting /\ view.active = NoTurn)
    /\ frame' = <<>>
    /\ Show(Shown(resuming.thread, resuming.record))
    /\ resuming' = NoRecord
    /\ UNCHANGED <<turnVars, panelVars, saved, used, deleting, deletedIds, gone>>

DeleteOther(th) ==
    /\ MaySwitch
    /\ th # view.thread /\ saved[th] # NoRecord
    /\ Admits("resurrect", resuming # NoRecord => resuming.thread # th)
    /\ saved' = [saved EXCEPT ![th] = NoRecord]
    /\ gone' = gone \cup {th}
    /\ UNCHANGED <<turnVars, panelVars, threadVars, used, resuming, deleting,
                   deletedIds>>

(* Fault: the deleted thread stays on the screen.                            *)
DeleteCurrentInPlace(th) ==
    /\ MaySwitch
    /\ th \notin used
    /\ used' = used \cup {th}
    /\ deletedIds' = deletedIds \cup {view.thread}
    /\ saved' = [saved EXCEPT ![th] = Empty]
    /\ deleting' = [old |-> view, step |-> "saved"]
    /\ UNCHANGED <<turnVars, panelVars, threadVars, resuming, gone>>

(* The open thread is replaced by a new one, which is saved, if that works.  *)
DeleteCurrent(th) ==
    /\ MaySwitch
    /\ th \notin used
    /\ used' = used \cup {th}
    /\ deletedIds' = deletedIds \cup {view.thread}
    /\ frame' = <<>>
    /\ Show(Shown(th, Empty))
    /\ \E step \in {"saved", "unsaved"} :
        /\ deleting' = [old |-> view, step |-> step]
        /\ saved' = IF step = "saved" THEN [saved EXCEPT ![th] = Empty] ELSE saved
    /\ UNCHANGED <<turnVars, panelVars, resuming, gone>>

(* The replacement was saved: the thread is deleted, if that works.          *)
DeleteGoesOn ==
    /\ deleting # NoRecord /\ deleting.step = "saved"
    /\ \/ /\ saved' = [saved EXCEPT ![deleting.old.thread] = NoRecord]
          /\ gone' = gone \cup {deleting.old.thread}
          /\ deleting' = NoRecord
       \/ /\ deleting' = [deleting EXCEPT !.step = "undeleted"]
          /\ UNCHANGED <<saved, gone>>
    /\ UNCHANGED <<turnVars, panelVars, threadVars, used, resuming, deletedIds>>

(* One of the two has failed.  Without its replacement the thread is shown   *)
(* again as it was.                                                          *)
DeleteFails ==
    /\ deleting # NoRecord /\ deleting.step \in {"unsaved", "undeleted"}
    /\ deletedIds' = deletedIds \ {deleting.old.thread}
    /\ IF deleting.step = "unsaved" THEN Show(deleting.old)
                                    ELSE UNCHANGED <<view, timer>>
    /\ deleting' = NoRecord
    /\ UNCHANGED <<turnVars, panelVars, frame, saved, used, resuming, gone>>

-----------------------------------------------------------------------------
Panel(t) ==
    \/ SubmitFirst(t) \/ SubmitNext(t) \/ TitleSaved(t)
    \/ Cancel(t) \/ CancelReplies(t) \/ Decide(t)
    \/ Replies(t) \/ SubmitEnds(t) \/ Deliver(t)

Native(t) ==
    \/ NativeStarts(t) \/ NativeRefuses(t) \/ NativeSends(t) \/ NativeAsks(t)
    \/ NativeCompletes(t) \/ NativeFails(t) \/ NativeIsCancelled(t)

History ==
    \/ TimerFires \/ Resumed \/ DeleteGoesOn \/ DeleteFails
    \/ \E th \in Thread : \/ NewThread(th) \/ Resume(th)
                          \/ DeleteOther(th) \/ DeleteCurrent(th)

Next ==
    \/ \E t \in Turn : Panel(t) \/ Native(t)
    \/ \E d \in deciding : DecisionReplies(d)
    \/ Frame
    \/ History

Spec == Init /\ [][Next]_vars

(***************************************************************************)
(* Events, replies, frames and timers come; a person need not act, and a   *)
(* turn need not end.                                                      *)
(***************************************************************************)
FairSpec ==
    /\ Spec
    /\ \A t \in Turn : /\ WF_vars(TitleSaved(t)) /\ WF_vars(Deliver(t))
                       /\ WF_vars(Replies(t)) /\ WF_vars(SubmitEnds(t))
                       /\ WF_vars(CancelReplies(t))
    /\ WF_vars(Frame) /\ WF_vars(TimerFires) /\ WF_vars(Resumed)
    /\ WF_vars(DeleteGoesOn) /\ WF_vars(DeleteFails)

-----------------------------------------------------------------------------
(* Properties *)

(***************************************************************************)
(* A turn that the panel shows as working is one of the open thread, and   *)
(* somebody will settle it: its submit has not ended, or its Stop waits    *)
(* for a reply.  Otherwise the composer would stay disabled for ever.      *)
(***************************************************************************)
WorkingIsAwaited ==
    view.active # NoTurn =>
      /\ home[view.active] = view.thread
      /\ view.turns[view.active] = "running"
      /\ pc[view.active] \in {"running", "disposing"} \/ view.active \in cancels

(***************************************************************************)
(* A record keeps what it holds of an ended turn until it is deleted: no   *)
(* save takes a turn back, whichever threads were opened in between.       *)
(***************************************************************************)
HistoryIsKept ==
    [][ \A th \in Thread, t \in Turn :
          saved[th] # NoRecord /\ saved'[th] # NoRecord
            => saved[th][t] \in {"absent", saved'[th][t]} ]_vars

(***************************************************************************)
(* A deleted thread does not come back, by a save of the screen or of a    *)
(* title.  Not under "resurrect": deletedIds protects only the thread that *)
(* was open when it was deleted.                                           *)
(***************************************************************************)
DeletedStaysDeleted == \A th \in gone : saved[th] = NoRecord

(***************************************************************************)
(* A turn that completed is not shown as failed: the completion that its   *)
(* reply stands for has the number of the event it may have overtaken.     *)
(* Not under "overtake": with two events missing it waits for the first,   *)
(* and the end of submit settles the turn as failed.                       *)
(***************************************************************************)
NeverFalselyFailed ==
    \A t \in Turn : native[t] = "completed" => view.turns[t] # "failed"

(***************************************************************************)
(* Once a turn's command has ended, the turn does not stay open on the     *)
(* screen, whatever was lost of its events.  For one turn at a time: of    *)
(* two that run in a thread only the later one is settled.                 *)
(***************************************************************************)
EndedTurnsSettle ==
    \A t \in Turn : native[t] \in Terminal ~> view.turns[t] # "running"

(***************************************************************************)
(* What the screen shows of an ended turn reaches the disk, unless the     *)
(* person leaves the thread or starts another turn first.                  *)
(***************************************************************************)
EndedTurnsAreSaved ==
    \A t \in Turn, th \in Thread :
        view.thread = th /\ view.turns[t] \in Terminal
          ~> \/ saved[th] # NoRecord /\ saved[th][t] # "absent"
             \/ view.thread # th \/ view.active # NoTurn
=============================================================================
