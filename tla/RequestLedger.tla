--------------------------- MODULE RequestLedger ---------------------------
(***************************************************************************)
(* The request ledger of one IdeaSketch SDK caller session                 *)
(* (lib/ideasketch-sdk/requestLedger.ts).                                  *)
(*                                                                         *)
(* Every mutation a caller asks for is reserved here under its request id, *)
(* then settled once, or marked indeterminate and reconciled later; a      *)
(* composite request (a picker) is reserved first and turned into a        *)
(* mutation when its one-shot handle is consumed.  Disposal of the session *)
(* takes a ticket, runs the session's cleanup, and finishes or cancels.    *)
(*                                                                         *)
(* A call the code refuses changes nothing, so it is no step of this       *)
(* module.  reconcile is two steps, because it awaits the live digest.     *)
(***************************************************************************)
EXTENDS Naturals, FiniteSets

CONSTANTS
    RequestId,      \* the request ids callers may use
    Payload,        \* canonical payload digests
    Outcome,        \* the terminal results: succeeded, rejected, cancelled, ...
    Cancelled,      \* the result sdkCancelled() of a disposed host interaction
    None,           \* "undefined": no payload, no result, no owner
    Capacity,       \* how many records the ledger holds (512 in the code)
    MaxTokens,      \* bound: reconciliation tokens minted over a behaviour
    MaxTickets      \* bound: disposal tickets issued over a behaviour

ASSUME LedgerAssumption ==
    /\ Cancelled \in Outcome
    /\ {"indeterminate", "pending", None} \cap Outcome = {}
    /\ None \notin {"indeterminate", "pending"}
    /\ None \notin Payload \cup RequestId
    /\ Capacity \in Nat
    /\ MaxTokens \in Nat
    /\ MaxTickets \in Nat

VARIABLES
    records,        \* RequestId -> LedgerRecord; state "absent": no record
    promise,        \* what the promise of a reservation settled with; it is
                    \* held by joined callers and outlives the record
    tokens,         \* reconciliationRecords: token -> request id, or None
    minted,         \* tokens minted so far (createOpaqueToken never repeats)
    awaiting,       \* requests whose reconcile() awaits the live digest
    closing,        \* a disposal holds the ledger
    disposed,       \* the ledger is gone
    ticket,         \* the active disposal ticket, 0 when there is none
    issued          \* tickets issued so far

vars == <<records, promise, tokens, minted, awaiting, closing, disposed, ticket, issued>>

Token == 1..MaxTokens
State == {"absent", "in-flight", "terminal", "indeterminate"}
Phase == {"host-interaction", "mutation"}

(* What getMutationResult and a replay report: a settled result, or that the *)
(* request is indeterminate; which token goes with it is the field `token'.  *)
Indeterminate == "indeterminate"
Pending == "pending"    \* a promise somebody may wait on

LedgerRecord ==
    [state: State, payload: Payload \cup {None}, phase: Phase,
     composite: BOOLEAN, consumed: BOOLEAN,
     result: Outcome \cup {None, Indeterminate},
     token: Token \cup {0}]

Absent ==
    [state |-> "absent", payload |-> None, phase |-> "mutation",
     composite |-> FALSE, consumed |-> FALSE,
     result |-> None, token |-> 0]

Init ==
    /\ records = [r \in RequestId |-> Absent]
    /\ promise = [r \in RequestId |-> None]
    /\ tokens = [t \in Token |-> None]
    /\ minted = 0
    /\ awaiting = {}
    /\ closing = FALSE
    /\ disposed = FALSE
    /\ ticket = 0
    /\ issued = 0

-----------------------------------------------------------------------------
(* Queries of the ledger *)

InState(s) == {r \in RequestId : records[r].state = s}
Known == {r \in RequestId : records[r].state # "absent"}
HasIndeterminate == InState("indeterminate") # {}
InFlightMutation ==
    {r \in InState("in-flight") : records[r].phase = "mutation"}
Open == ~disposed /\ ~closing

-----------------------------------------------------------------------------
(* Reserving *)

(* Fault: the wait for unresolved requests is forgotten, and the payload of  *)
(* a settled id is not looked at, so a retry reserves it again.              *)
ReserveInternalAgain(r, p, composite) ==
    /\ Open
    /\ records[r].state \in {"absent", "terminal"}
    /\ Cardinality(Known) < Capacity
    /\ records' = [records EXCEPT ![r] =
         [Absent EXCEPT !.state = "in-flight", !.payload = p,
                        !.phase = IF composite THEN "host-interaction" ELSE "mutation",
                        !.composite = composite]]
    /\ promise' = [promise EXCEPT ![r] = Pending]
    /\ UNCHANGED <<tokens, minted, awaiting, closing, disposed, ticket, issued>>

(* reserveInternal: a fresh record.  A known id joins, replays or conflicts  *)
(* and leaves the ledger as it is.                                           *)
ReserveInternal(r, p, composite) ==
    /\ Open
    /\ records[r].state = "absent"
    /\ ~HasIndeterminate
    /\ Cardinality(Known) < Capacity
    /\ records' = [records EXCEPT ![r] =
         [Absent EXCEPT !.state = "in-flight", !.payload = p,
                        !.phase = IF composite THEN "host-interaction" ELSE "mutation",
                        !.composite = composite]]
    /\ promise' = [promise EXCEPT ![r] = Pending]
    /\ UNCHANGED <<tokens, minted, awaiting, closing, disposed, ticket, issued>>

Reserve(r, p) == ReserveInternal(r, p, FALSE)
ReserveComposite(r, p) == ReserveInternal(r, p, TRUE)

(* consumeCompositeReservation: the handle works once, before any disposal.  *)
ConsumeCompositeReservation(r) ==
    /\ Open
    /\ records[r].composite
    /\ records[r].state = "in-flight"
    /\ ~records[r].consumed
    /\ records' = [records EXCEPT ![r] =
                     [@ EXCEPT !.consumed = TRUE, !.phase = "mutation"]]
    /\ UNCHANGED <<promise, tokens, minted, awaiting, closing, disposed, ticket, issued>>

-----------------------------------------------------------------------------
(* Settling *)

(* complete: allowed while a disposal is closing the ledger, never after.    *)
Complete(r, o) ==
    /\ ~disposed
    /\ records[r].state = "in-flight"
    /\ records' = [records EXCEPT ![r] =
                     [@ EXCEPT !.state = "terminal", !.result = o]]
    /\ promise' = [promise EXCEPT ![r] = o]
    /\ UNCHANGED <<tokens, minted, awaiting, closing, disposed, ticket, issued>>

(* continueIndeterminate: drop the record's token and mint its successor.    *)
Successor(r) ==
    /\ minted < MaxTokens
    /\ minted' = minted + 1
    /\ tokens' = [t \in Token |->
         IF t = minted + 1 THEN r
         ELSE IF t = records[r].token THEN None ELSE tokens[t]]

(* markIndeterminate: the commit may or may not have been applied.  Its one  *)
(* caller, executeSdkMutation, holds a record that it reserved as a mutation *)
(* or consumed: that is the phase conjunct.                                  *)
MarkIndeterminate(r) ==
    /\ ~disposed
    /\ r \in InFlightMutation
    /\ Successor(r)
    /\ records' = [records EXCEPT ![r] =
                     [@ EXCEPT !.state = "indeterminate", !.token = minted + 1,
                               !.result = Indeterminate]]
    /\ promise' = [promise EXCEPT ![r] = Indeterminate]
    /\ UNCHANGED <<awaiting, closing, disposed, ticket, issued>>

TokenSpent(rec, t) == IF rec.token = t THEN [rec EXCEPT !.token = 0] ELSE rec

(* Fault: the token stays valid while its reconcile awaits the digest.       *)
ReconcileBeginKeepsToken(t) ==
    /\ Open
    /\ tokens[t] # None
    /\ records[tokens[t]].state = "indeterminate"
    /\ awaiting' = awaiting \cup {tokens[t]}
    /\ UNCHANGED <<records, promise, tokens, minted, closing, disposed, ticket, issued>>

(* reconcile up to its await: the token is spent before anything is known.   *)
ReconcileBegin(t) ==
    /\ Open
    /\ tokens[t] # None
    /\ LET r == tokens[t] IN
         /\ records[r].state = "indeterminate"
         /\ records' = [records EXCEPT ![r] = TokenSpent(records[r], t)]
         /\ awaiting' = awaiting \cup {r}
    /\ tokens' = [tokens EXCEPT ![t] = None]
    /\ UNCHANGED <<promise, minted, closing, disposed, ticket, issued>>

(* reconcile after its await, live digest = before or expected after.  The   *)
(* reservation's promise settled long ago and keeps what it said.            *)
ReconcileSettle(r, o) ==
    /\ r \in awaiting
    /\ records' = [records EXCEPT ![r] =
                     [@ EXCEPT !.state = "terminal", !.result = o]]
    /\ awaiting' = awaiting \ {r}
    /\ UNCHANGED <<promise, tokens, minted, closing, disposed, ticket, issued>>

(* reconcile after its await, digest unreadable or neither of the two.       *)
ReconcileContinue(r) ==
    /\ r \in awaiting
    /\ Successor(r)
    /\ records' = [records EXCEPT ![r] = [@ EXCEPT !.token = minted + 1]]
    /\ awaiting' = awaiting \ {r}
    /\ UNCHANGED <<promise, closing, disposed, ticket, issued>>

-----------------------------------------------------------------------------
(* Disposal *)

(* Fault: only running mutations are looked for.                             *)
BeginDisposalUnresolved ==
    /\ Open
    /\ InFlightMutation = {}
    /\ issued < MaxTickets
    /\ closing' = TRUE
    /\ issued' = issued + 1
    /\ ticket' = issued + 1
    /\ UNCHANGED <<records, promise, tokens, minted, awaiting, disposed>>

BeginDisposal ==
    /\ Open
    /\ ~HasIndeterminate
    /\ InFlightMutation = {}
    /\ issued < MaxTickets
    /\ closing' = TRUE
    /\ issued' = issued + 1
    /\ ticket' = issued + 1
    /\ UNCHANGED <<records, promise, tokens, minted, awaiting, disposed>>

(* The ticket check of cancelDisposal and of the two disposal steps: a       *)
(* ticket that was cancelled or finished opens nothing.                      *)
HoldsTicket(k) == closing /\ ticket = k

(* Fault: a picker that has ended is cancelled once more.                    *)
HostInteractionsOfAnyState ==
    {r \in Known : records[r].phase = "host-interaction"}

(* terminalizeHostInteractions: pickers end cancelled, their joiners too.    *)
HostInteractions ==
    {r \in InState("in-flight") : records[r].phase = "host-interaction"}

HostInteractionsCancelled ==
    [r \in RequestId |->
       IF r \in HostInteractions
       THEN [records[r] EXCEPT !.state = "terminal", !.result = Cancelled]
       ELSE records[r]]

PromisesCancelled ==
    [r \in RequestId |-> IF r \in HostInteractions THEN Cancelled ELSE promise[r]]

TerminalizeHostInteractionsForDisposal(k) ==
    /\ HoldsTicket(k)
    /\ records' = HostInteractionsCancelled
    /\ promise' = PromisesCancelled
    /\ UNCHANGED <<tokens, minted, awaiting, closing, disposed, ticket, issued>>

CancelDisposal(k) ==
    /\ ~disposed
    /\ HoldsTicket(k)
    /\ ticket' = 0
    /\ closing' = FALSE
    /\ UNCHANGED <<records, promise, tokens, minted, awaiting, disposed, issued>>

FinishDisposal(k) ==
    /\ HoldsTicket(k)
    /\ ticket' = 0
    /\ disposed' = TRUE
    /\ closing' = FALSE
    /\ records' = [r \in RequestId |-> Absent]
    /\ promise' = PromisesCancelled
    /\ tokens' = [t \in Token |-> None]
    /\ UNCHANGED <<minted, awaiting, issued>>

-----------------------------------------------------------------------------
Next ==
    \/ \E r \in RequestId, p \in Payload : Reserve(r, p)
    \/ \E r \in RequestId, p \in Payload : ReserveComposite(r, p)
    \/ \E r \in RequestId : ConsumeCompositeReservation(r)
    \/ \E r \in RequestId, o \in Outcome : Complete(r, o)
    \/ \E r \in RequestId : MarkIndeterminate(r)
    \/ \E t \in Token : ReconcileBegin(t)
    \/ \E r \in RequestId, o \in Outcome : ReconcileSettle(r, o)
    \/ \E r \in RequestId : ReconcileContinue(r)
    \/ BeginDisposal
    \/ \E k \in 1..MaxTickets : TerminalizeHostInteractionsForDisposal(k)
    \/ \E k \in 1..MaxTickets : CancelDisposal(k)
    \/ \E k \in 1..MaxTickets : FinishDisposal(k)

Spec == Init /\ [][Next]_vars

-----------------------------------------------------------------------------
(* Type and safety *)

(* Every variable keeps its type, and tokens beyond the last one minted are  *)
(* unused.                                                                   *)
TypeOK ==
    /\ records \in [RequestId -> LedgerRecord]
    /\ promise \in [RequestId -> Outcome \cup {None, Indeterminate, Pending}]
    /\ tokens \in [Token -> RequestId \cup {None}]
    /\ minted \in 0..MaxTokens
    /\ awaiting \subseteq RequestId
    /\ closing \in BOOLEAN
    /\ disposed \in BOOLEAN
    /\ ticket \in 0..MaxTickets
    /\ issued \in 0..MaxTickets

(* While a disposal holds the ledger, and after it, no mutation is in        *)
(* flight, none is unresolved and no reconcile still awaits a digest: the    *)
(* refusals of beginDisposal, reserve, consume and reconcile together leave  *)
(* no way in, whatever the order of the calls.                               *)
ClosedMeansSettled ==
    closing \/ disposed =>
        InFlightMutation = {} /\ ~HasIndeterminate /\ awaiting = {}

(* An unresolved mutation can always be resolved, by one caller at a time:   *)
(* either one live token stands for it, or one reconcile is on its way; a    *)
(* token never stands for anything else.                                     *)
UnresolvedHasOneWayOut ==
    /\ \A r \in InState("indeterminate") :
         (r \in awaiting) = ({t \in Token : tokens[t] = r} = {})
    /\ \A r \in RequestId : \A t, u \in Token :
         tokens[t] = r /\ tokens[u] = r => t = u
    /\ \A t \in Token : tokens[t] # None =>
         records[tokens[t]].state = "indeterminate"

(* A caller that joined a reservation is never left waiting on a record that *)
(* is settled or gone: whoever can still settle it is still there.           *)
NoJoinerIsForgotten ==
    \A r \in RequestId : promise[r] = Pending => records[r].state = "in-flight"

(* A settled request keeps its payload and its result until the session is   *)
(* disposed, whatever is retried, completed late or reconciled: this is what *)
(* makes a retry with the same id safe.                                      *)
OutcomeIsFinal ==
    [][\A r \in InState("terminal") :
         records'[r] = records[r] \/ disposed']_vars
=============================================================================
