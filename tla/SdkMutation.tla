---------------------------- MODULE SdkMutation ----------------------------
(***************************************************************************)
(* Mutations of one IdeaSketch document through one SDK caller session:    *)
(* executeSdkMutation (lib/ideasketch-sdk/transactions.ts) run one task at *)
(* a time by the document's mutation scheduler, over the session's request *)
(* ledger (module RequestLedger), with the Excalidraw picker               *)
(* (ioService.ts), session disposal (session.ts), a person who keeps       *)
(* editing, and an editor that may refuse, lose or rewrite a commit.       *)
(*                                                                         *)
(* The document is abstracted to the set of changes in it: one mark per    *)
(* request and per edit of the person.  Two digests are equal iff the sets *)
(* are.  Every await of the code separates two actions.                    *)
(***************************************************************************)
EXTENDS RequestLedger, Sequences

CONSTANTS
    Call,           \* calls of the SDK's methods; several may share an id
    Assignments,    \* the ways in which callers choose ids: Call -> RequestId
    IsPicker,       \* Call -> BOOLEAN: io.pickExcalidrawAndAddPage
    Edit,           \* changes the person may make, each at most once
    Succeeded, Rejected   \* the two other terminal results

(* The editor's restore step rewrote the request's elements.                 *)
Rewritten(r) == <<r, "normalised">>

(* Results differ, and so do the marks of requests and of the person.        *)
ASSUME CallAssumption ==
    /\ Assignments \subseteq [Call -> RequestId]
    /\ IsPicker \in [Call -> BOOLEAN]
    /\ {Succeeded, Rejected, Cancelled} = Outcome
    /\ Succeeded \notin {Rejected, Cancelled}
    /\ {"picker", "plan"} \subseteq Payload
    /\ RequestId \cap (Edit \cup {Rewritten(r) : r \in RequestId}) = {}

VARIABLES
    idOf,           \* Call -> the request id its caller passes
    call,           \* Call -> the state of one call
    line,           \* the scheduler's chain for this document: calls in order
    doc,            \* the live document: a set of marks
    edits,          \* pageEditVersion of the mounted editor
    attempt,        \* RequestId -> [before, after]: the reconciliation descriptor
    probe,          \* RequestId -> the live state a reconcile has read
    commits         \* ghost: RequestId -> calls of the host's commit

mvars == <<idOf, call, line, doc, edits, attempt, probe, commits>>
allVars == <<vars, mvars>>

Marks == RequestId \cup Edit \cup {Rewritten(r) : r \in RequestId}

Pc == {"idle",       \* not called
       "picking",    \* the picker is open
       "checking",   \* the snapshot is being verified, before the scheduler
       "queued",     \* in the scheduler's chain
       "planning",   \* prepare() and the digests of before and after
       "settling",   \* commit() returned a receipt: its settlement
       "observing",  \* the live digest after the commit
       "joined",     \* waits for another call's reservation
       "answered"}   \* the call's promise is settled

InitCall == [pc |-> "idle", version |-> 0, before |-> {}, seen |-> {},
             aborted |-> FALSE, answer |-> None]

MInit ==
    /\ Init
    /\ idOf \in Assignments
    /\ call = [c \in Call |-> InitCall]
    /\ line = <<>>
    /\ doc = {}
    /\ edits = 0
    /\ attempt = [r \in RequestId |-> [before |-> {}, after |-> {}]]
    /\ probe = [r \in RequestId |-> {}]
    /\ commits = [r \in RequestId |-> 0]

-----------------------------------------------------------------------------
(* What the ledger says to a call *)

(* The canonical payload digest; a picker's is "pick-excalidraw:" and the id *)
(* (ioService.ts), never that of a plan.                                     *)
PayloadOf(c) == IF IsPicker[c] THEN "picker" ELSE "plan"

Id(c) == idOf[c]

(* Fault: a request is known by its id alone, whatever its payload.          *)
MatchesTheId(c) == Open /\ records[Id(c)].state # "absent"

Matches(c) == Open /\ records[Id(c)].payload = PayloadOf(c)
Joins(c) == Matches(c) /\ records[Id(c)].state = "in-flight"
Replays(c) == Matches(c) /\ records[Id(c)].state \in {"terminal", "indeterminate"}
Conflicts(c) ==
    ~Open \/ (records[Id(c)].state # "absent" /\ ~Matches(c))
NoRoom(c) ==
    records[Id(c)].state = "absent" /\ (HasIndeterminate \/ Cardinality(Known) >= Capacity)

-----------------------------------------------------------------------------
(* Answering a call, and the scheduler's gate *)

Becomes(c, pc) == call' = [call EXCEPT ![c].pc = pc]
Answer(c, a) == call' = [call EXCEPT ![c].pc = "answered", ![c].answer = a]

(* run(): a task runs when every task before it in the chain has released    *)
(* its gate, whatever became of it.                                          *)
Running(c) == line # <<>> /\ Head(line) = c
Release(c) == line' = IF Running(c) THEN Tail(line) ELSE line

(* finish(): complete the reservation; internal_error when that is refused.  *)
Finish(c, o) ==
    IF ~disposed /\ records[Id(c)].state = "in-flight"
    THEN Complete(Id(c), o) /\ Answer(c, o)
    ELSE UNCHANGED vars /\ Answer(c, Rejected)

(* completeReservation (ioService.ts): tries, and answers in either case.    *)
CompleteReservation(c, o) ==
    /\ Answer(c, o)
    /\ IF ~disposed /\ records[Id(c)].state = "in-flight"
       THEN Complete(Id(c), o)
       ELSE UNCHANGED vars

(* A call that only asked and got a rejection, a replay or a promise.        *)
TurnedAway(c) ==
    /\ \/ Conflicts(c) /\ Answer(c, Rejected)
       \/ Replays(c) /\ Answer(c, records[Id(c)].result)
       \/ Joins(c) /\ Becomes(c, "joined")
    /\ UNCHANGED vars

-----------------------------------------------------------------------------
(* A plan: scene.applyPlan up to the scheduler *)

(* The payload is hashed, the ledger looked up, the target captured; the     *)
(* page's edit version it has then is the one the final guard asks for.      *)
CallPlan(c) ==
    /\ ~IsPicker[c]
    /\ call[c].pc = "idle"
    /\ \/ TurnedAway(c)
       \/ /\ Open
          /\ records[Id(c)].state = "absent"
          /\ call' = [call EXCEPT ![c].pc = "checking", ![c].version = edits]
          /\ UNCHANGED vars
    /\ UNCHANGED <<line, doc, edits, attempt, probe, commits>>

(* verifyReadSession and the coverage checks, or pages' preflight, said no.  *)
CheckFails(c) ==
    /\ call[c].pc = "checking"
    /\ IF IsPicker[c] THEN CompleteReservation(c, Rejected)
                      ELSE Answer(c, Rejected) /\ UNCHANGED vars
    /\ UNCHANGED <<line, doc, edits, attempt, probe, commits>>

CheckPasses(c) ==
    /\ call[c].pc = "checking"
    /\ Becomes(c, "queued")
    /\ line' = Append(line, c)
    /\ UNCHANGED <<vars, doc, edits, attempt, probe, commits>>

(* The signal the caller passed: it counts until the commit, not after it.   *)
Abort(c) ==
    /\ ~IsPicker[c]
    /\ call[c].pc \in {"checking", "queued", "planning", "settling", "observing"}
    /\ ~call[c].aborted
    /\ call' = [call EXCEPT ![c].aborted = TRUE]
    /\ UNCHANGED <<vars, line, doc, edits, attempt, probe, commits>>

-----------------------------------------------------------------------------
(* The picker: reserve, let the person choose, apply with the handle *)

PickStart(c) ==
    /\ IsPicker[c]
    /\ call[c].pc = "idle"
    /\ \/ TurnedAway(c)
       \/ NoRoom(c) /\ Answer(c, Rejected) /\ UNCHANGED vars
       \/ ReserveComposite(Id(c), PayloadOf(c)) /\ Becomes(c, "picking")
    /\ UNCHANGED <<line, doc, edits, attempt, probe, commits>>

(* The person cancels, or the file cannot be read or parsed.                 *)
PickFails(c) ==
    /\ call[c].pc = "picking"
    /\ \E o \in {Cancelled, Rejected} : CompleteReservation(c, o)
    /\ UNCHANGED <<line, doc, edits, attempt, probe, commits>>

(* applyImport: pages.applyPlan with the handle, refused once disposing.     *)
Picked(c) ==
    /\ call[c].pc = "picking"
    /\ IF Open THEN Becomes(c, "checking") /\ UNCHANGED vars
               ELSE CompleteReservation(c, Rejected)
    /\ UNCHANGED <<line, doc, edits, attempt, probe, commits>>

-----------------------------------------------------------------------------
(* executeSdkMutation, inside the scheduler *)

(* Reserve and read the state; the target's version was captured before.     *)
StartPlan(c) ==
    /\ Running(c) /\ call[c].pc = "queued" /\ ~IsPicker[c]
    /\ ~call[c].aborted
    /\ Reserve(Id(c), PayloadOf(c))
    /\ call' = [call EXCEPT ![c].pc = "planning", ![c].before = doc]
    /\ UNCHANGED <<line, doc, edits, attempt, probe, commits>>

(* Reserved, but the signal was aborted in the queue: settled at once.       *)
StartAborted(c) ==
    /\ Running(c) /\ call[c].pc = "queued" /\ ~IsPicker[c]
    /\ call[c].aborted
    /\ Open /\ records[Id(c)].state = "absent" /\ ~NoRoom(c)
    /\ records' = [records EXCEPT ![Id(c)] =
         [Absent EXCEPT !.state = "terminal", !.payload = PayloadOf(c),
                        !.result = Cancelled]]
    /\ promise' = [promise EXCEPT ![Id(c)] = Cancelled]
    /\ Answer(c, Cancelled)
    /\ Release(c)
    /\ UNCHANGED <<tokens, minted, awaiting, closing, disposed, ticket, issued,
                   doc, edits, attempt, probe, commits>>

(* The reservation was not granted: a joined call keeps the gate, the others *)
(* open it.                                                                  *)
StartRefused(c) ==
    /\ Running(c) /\ call[c].pc = "queued" /\ ~IsPicker[c]
    /\ \/ TurnedAway(c)
       \/ Open /\ NoRoom(c) /\ Answer(c, Rejected) /\ UNCHANGED vars
    /\ line' = IF Joins(c) THEN line ELSE Tail(line)
    /\ UNCHANGED <<doc, edits, attempt, probe, commits>>

(* The picker's task consumes its handle; beforeExecute takes the version.   *)
StartPicked(c) ==
    /\ Running(c) /\ call[c].pc = "queued" /\ IsPicker[c]
    /\ ConsumeCompositeReservation(Id(c))
    /\ call' = [call EXCEPT ![c].pc = "planning", ![c].before = doc,
                            ![c].version = edits]
    /\ UNCHANGED <<line, doc, edits, attempt, probe, commits>>

HandleIsGood(c) == Open /\ records[Id(c)].state = "in-flight" /\ ~records[Id(c)].consumed

StartPickedRefused(c) ==
    /\ Running(c) /\ call[c].pc = "queued" /\ IsPicker[c]
    /\ ~HandleIsGood(c)
    /\ CompleteReservation(c, Rejected)
    /\ Release(c)
    /\ UNCHANGED <<doc, edits, attempt, probe, commits>>

(* A guard, prepare(), the postconditions or the final guard refuses the     *)
(* plan, or the signal was aborted.                                          *)
PlanEnds(c) ==
    /\ Running(c) /\ call[c].pc = "planning"
    /\ \/ Finish(c, Rejected)
       \/ call[c].aborted /\ Finish(c, Cancelled)
    /\ Release(c)
    /\ UNCHANGED <<doc, edits, attempt, probe, commits>>

(* Fault: the final guard forgets the edit version.                          *)
AnyVersion(c) == ~call[c].aborted

(* finalValidate: nothing was edited since the target was captured.          *)
FinalGuard(c) == ~call[c].aborted /\ call[c].version = edits

(* The plan changes nothing: a success without a commit.                     *)
PlanIsNoop(c) ==
    /\ Running(c) /\ call[c].pc = "planning"
    /\ FinalGuard(c)
    /\ Finish(c, Succeeded)
    /\ Release(c)
    /\ UNCHANGED <<doc, edits, attempt, probe, commits>>

(* The host's commit, in the same turn as the final guard.  It writes the    *)
(* planned state, or a rewritten one, or nothing; and it returns a receipt,  *)
(* returns nothing, throws, or returns something unusable.                   *)
Written(c) == call[c].before \cup {Id(c)}

Commit(c) ==
    /\ Running(c) /\ call[c].pc = "planning"
    /\ FinalGuard(c)
    /\ commits' = [commits EXCEPT ![Id(c)] = @ + 1]
    /\ attempt' = [attempt EXCEPT ![Id(c)] =
                     [before |-> call[c].before, after |-> Written(c)]]
    /\ \/ doc' = Written(c) /\ edits' = edits + 1
       \/ doc' = Written(c) \cup {Rewritten(Id(c))} /\ edits' = edits + 1
       \/ UNCHANGED <<doc, edits>>
    /\ \/ Becomes(c, "settling") /\ UNCHANGED <<vars, line>>
       \/ /\ call' = [call EXCEPT ![c].pc = "observing", ![c].seen = doc']
          /\ UNCHANGED <<vars, line>>
       \/ /\ MarkIndeterminate(Id(c))
          /\ Answer(c, Indeterminate)
          /\ Release(c)
    /\ UNCHANGED probe

(* The receipt settles, or fails: either way the live state is read next.    *)
Settle(c) ==
    /\ Running(c) /\ call[c].pc = "settling"
    /\ call' = [call EXCEPT ![c].pc = "observing", ![c].seen = doc]
    /\ UNCHANGED <<vars, line, doc, edits, attempt, probe, commits>>

(* Fault: whatever is not the planned state counts as a refusal.             *)
ObserveTwoWays(c) ==
    /\ Running(c) /\ call[c].pc = "observing"
    /\ IF call[c].seen = attempt[Id(c)].after
       THEN Finish(c, Succeeded) ELSE Finish(c, Rejected)
    /\ Release(c)
    /\ UNCHANGED <<doc, edits, attempt, probe, commits>>

(* The digest read after the commit is the planned one, the old one, or      *)
(* neither (or it cannot be computed).                                       *)
Observe(c) ==
    /\ Running(c) /\ call[c].pc = "observing"
    /\ \/ call[c].seen = attempt[Id(c)].after /\ Finish(c, Succeeded)
       \/ call[c].seen = attempt[Id(c)].before /\ Finish(c, Rejected)
       \/ MarkIndeterminate(Id(c)) /\ Answer(c, Indeterminate)
    /\ Release(c)
    /\ UNCHANGED <<doc, edits, attempt, probe, commits>>

(* A joined call gets what the reservation's promise settled with.           *)
JoinedAnswer(c) ==
    /\ call[c].pc = "joined"
    /\ promise[Id(c)] # Pending
    /\ Answer(c, promise[Id(c)])
    /\ Release(c)
    /\ UNCHANGED <<vars, doc, edits, attempt, probe, commits>>

-----------------------------------------------------------------------------
(* Reconciliation, disposal, and the person *)

(* Bound: a reconcile starts only while enough tokens are left for every     *)
(* request that may still become indeterminate, so the bound on tokens never *)
(* stops a mutation.                                                         *)
TokensToSpare ==
    minted + Cardinality(awaiting) + Cardinality(InState("absent") \cup InState("in-flight"))
      < MaxTokens

ReconcileStart(t) ==
    /\ TokensToSpare
    /\ ReconcileBegin(t)
    /\ probe' = [probe EXCEPT ![tokens[t]] = doc]
    /\ UNCHANGED <<call, line, doc, edits, attempt, commits>>

ReconcileEnd(r) ==
    /\ \/ probe[r] = attempt[r].after /\ ReconcileSettle(r, Succeeded)
       \/ probe[r] = attempt[r].before /\ ReconcileSettle(r, Rejected)
       \/ ReconcileContinue(r)
    /\ UNCHANGED mvars

(* session.dispose: take the ticket, await the cleanup, then close for good; *)
(* a cleanup that fails gives the ticket back.                               *)
DisposeStart == BeginDisposal /\ UNCHANGED mvars
DisposeFails == ticket # 0 /\ CancelDisposal(ticket) /\ UNCHANGED mvars
DisposeDone == ticket # 0 /\ FinishDisposal(ticket) /\ UNCHANGED mvars

(* The pickers are already ended when the caller's resources cannot be.      *)
DisposeHalfway ==
    /\ ticket # 0 /\ HoldsTicket(ticket)
    /\ records' = HostInteractionsCancelled
    /\ promise' = PromisesCancelled
    /\ ticket' = 0 /\ closing' = FALSE
    /\ UNCHANGED <<tokens, minted, awaiting, disposed, issued>>
    /\ UNCHANGED mvars

PersonEdits(e) ==
    /\ e \notin doc
    /\ doc' = doc \cup {e}
    /\ edits' = edits + 1
    /\ UNCHANGED <<vars, call, line, attempt, probe, commits>>

-----------------------------------------------------------------------------
(* What the code does by itself once a call is made, and the person in front *)
(* of an open picker.                                                        *)
Proceeds(c) ==
    \/ CheckFails(c) \/ CheckPasses(c)
    \/ PickFails(c) \/ Picked(c)
    \/ StartPlan(c) \/ StartAborted(c) \/ StartRefused(c)
    \/ StartPicked(c) \/ StartPickedRefused(c)
    \/ PlanEnds(c) \/ PlanIsNoop(c) \/ Commit(c)
    \/ Settle(c) \/ Observe(c) \/ JoinedAnswer(c)

MNext ==
    /\ UNCHANGED idOf
    /\ \/ \E c \in Call : CallPlan(c) \/ PickStart(c) \/ Abort(c) \/ Proceeds(c)
       \/ \E t \in Token : ReconcileStart(t)
       \/ \E r \in RequestId : ReconcileEnd(r)
       \/ DisposeStart \/ DisposeFails \/ DisposeHalfway \/ DisposeDone
       \/ \E e \in Edit : PersonEdits(e)

(* Weak fairness of every started call: promises of the runtime settle, the  *)
(* person closes the picker, the editor settles its receipts, and a disposal *)
(* ends one way or the other.  Nobody has to call, abort, edit or reconcile. *)
MSafety == MInit /\ [][MNext]_allVars
MSpec ==
    /\ MSafety
    /\ \A c \in Call : WF_allVars(UNCHANGED idOf /\ Proceeds(c))
    /\ WF_allVars(UNCHANGED idOf /\ (DisposeFails \/ DisposeHalfway \/ DisposeDone))

-----------------------------------------------------------------------------
(* Every variable of the composition keeps its type.                         *)
MTypeOK ==
    /\ TypeOK
    /\ idOf \in Assignments
    /\ call \in [Call -> [pc: Pc, version: Nat, before: SUBSET Marks,
                          seen: SUBSET Marks, aborted: BOOLEAN,
                          answer: Outcome \cup {None, Indeterminate}]]
    /\ \A i \in DOMAIN line : line[i] \in Call
    /\ doc \subseteq Marks
    /\ edits \in Nat
    /\ attempt \in [RequestId -> [before: SUBSET Marks, after: SUBSET Marks]]
    /\ probe \in [RequestId -> SUBSET Marks]
    /\ commits \in [RequestId -> Nat]

(* However often a request id is called, retried, replayed or joined, the    *)
(* host's commit runs at most once for it.                                   *)
CommitsAtMostOnce == \A r \in RequestId : commits[r] <= 1

(* A commit that was planned on an old state never lands: no step removes a  *)
(* change, the person's or another request's, from the document.             *)
NoChangeIsLost == [][doc \subseteq doc']_allVars

(* What a request finally reports is what happened to the document: applied  *)
(* if it says succeeded after a commit, untouched if it says rejected or     *)
(* cancelled, also when a reconcile decides after the fact.                  *)
ResultsAreTrue ==
    \A r \in InState("terminal") :
      IF records[r].result = Succeeded
      THEN commits[r] > 0 => r \in doc
      ELSE r \notin doc

(* From the moment the session starts to close no commit starts, although    *)
(* pickers are open and tasks queued.                                        *)
NoCommitOnceClosing == [][commits' # commits => Open]_allVars

(* Every call is answered: no chain of joined calls, pickers and queued      *)
(* tasks waits for itself.  A plan whose task joined a picker of its id      *)
(* would hold the gate the picker's own task is waiting for; the picker's    *)
(* payload, which no plan has, is what keeps them apart.                     *)
EveryCallIsAnswered ==
    \A c \in Call : call[c].pc # "idle" ~> call[c].pc = "answered"
=============================================================================
