------------------------ MODULE SdkMutation_proofs ------------------------
(***************************************************************************)
(* The safety of the request ledger and, on top of it, of mutations, for   *)
(* every set of calls, request ids, outcomes, payloads and bounds.         *)
(*                                                                         *)
(* First the ledger, of which Spec speaks.  None of its invariants but     *)
(* TypeOK is inductive alone: that disposal forgets nobody needs that a    *)
(* closed ledger holds no mutation, and that needs the correspondence of   *)
(* records and tokens, which LedgerInv states.                             *)
(*                                                                         *)
(* Then mutations, of which MSpec speaks.  A call holds its request from   *)
(* the moment its reservation is granted until it is answered.  That no    *)
(* two calls hold one request (OneHolder) is what the rest stands on: the  *)
(* ledger's record of a request, its commits and its attempt change only   *)
(* by its holder.                                                          *)
(***************************************************************************)
EXTENDS SdkMutation, TLAPS

-----------------------------------------------------------------------------
(* The ledger *)

(* Tokens and records name each other, and only unresolved records do.       *)
TokensMatchRecords ==
    /\ \A t \in Token : tokens[t] # None =>
         /\ t <= minted
         /\ records[tokens[t]].state = "indeterminate"
         /\ records[tokens[t]].token = t
    /\ \A r \in RequestId :
         records[r].state = "indeterminate" /\ r \notin awaiting =>
           records[r].token \in Token /\ tokens[records[r].token] = r
    /\ \A r \in RequestId :
         records[r].state # "indeterminate" \/ r \in awaiting => records[r].token = 0

(* A reconcile awaits the digest only for a record still unresolved.         *)
AwaitingIsUnresolved == \A r \in awaiting : records[r].state = "indeterminate"

LedgerInv ==
    /\ TypeOK
    /\ ClosedMeansSettled
    /\ TokensMatchRecords
    /\ AwaitingIsUnresolved
    /\ NoJoinerIsForgotten

-----------------------------------------------------------------------------
(* The initial state satisfies the inductive invariant: an empty ledger.     *)
LEMMA InitInv == Init => LedgerInv
<1> SUFFICES ASSUME Init PROVE LedgerInv
  OBVIOUS
<1>1. TypeOK
  <2>1. closing \in BOOLEAN /\ disposed \in BOOLEAN
    BY Zenon DEF Init
  <2>2. Absent \in LedgerRecord
    BY DEF LedgerRecord, Absent, State, Phase, Token
  <2> QED
    BY LedgerAssumption, <2>1, <2>2 DEF Init, TypeOK
<1>2. ClosedMeansSettled /\ AwaitingIsUnresolved
  BY DEF Init, ClosedMeansSettled, AwaitingIsUnresolved
<1>3. TokensMatchRecords
  BY DEF Init, TokensMatchRecords, Absent, Token
<1>4. NoJoinerIsForgotten
  BY LedgerAssumption DEF Init, NoJoinerIsForgotten, Pending
<1> QED
  BY <1>1, <1>2, <1>3, <1>4 DEF LedgerInv

(* A record changed in its state and its result is still a record.           *)
LEMMA RecordUpdates ==
  ASSUME NEW rec \in LedgerRecord, NEW s \in State,
         NEW o \in Outcome \cup {None, Indeterminate}, NEW k \in Token \cup {0}
  PROVE  /\ [rec EXCEPT !.state = s, !.result = o] \in LedgerRecord
         /\ [rec EXCEPT !.token = k] \in LedgerRecord
         /\ [rec EXCEPT !.state = s, !.token = k, !.result = o] \in LedgerRecord
         /\ [rec EXCEPT !.consumed = TRUE, !.phase = "mutation"] \in LedgerRecord
  BY DEF LedgerRecord, Phase

(* A reservation starts as a record, and no record is one.                   *)
LEMMA NewRecords ==
  ASSUME NEW p \in Payload, NEW ph \in Phase, NEW c \in BOOLEAN
  PROVE  /\ Absent \in LedgerRecord
         /\ [Absent EXCEPT !.state = "in-flight", !.payload = p,
                           !.phase = ph, !.composite = c] \in LedgerRecord
  BY DEF LedgerRecord, Absent, State, Phase, Token

(* Every step keeps the types.                                               *)
LEMMA TypeStep == TypeOK /\ [Next]_vars => TypeOK'
<1> SUFFICES ASSUME TypeOK, [Next]_vars PROVE TypeOK'
  OBVIOUS
<1> DEFINE PromiseValue == Outcome \cup {None, Indeterminate, Pending}
<1>0. /\ MaxTokens \in Nat /\ MaxTickets \in Nat
      /\ \A s \in {"in-flight", "terminal", "indeterminate"} : s \in State
      /\ \A ph \in {"host-interaction", "mutation"} : ph \in Phase
      /\ Outcome \cup {Cancelled} = Outcome
      /\ Pending \in PromiseValue /\ Indeterminate \in PromiseValue
  BY LedgerAssumption DEF State, Phase
<1> USE <1>0 DEF TypeOK
<1>1. ASSUME NEW r \in RequestId, NEW p \in Payload, NEW c \in BOOLEAN,
             ReserveInternal(r, p, c)
      PROVE  TypeOK'
  <2> DEFINE ph == IF c THEN "host-interaction" ELSE "mutation"
  <2>1. [Absent EXCEPT !.state = "in-flight", !.payload = p,
                       !.phase = ph, !.composite = c] \in LedgerRecord
    BY NewRecords, ph \in Phase
  <2> QED
    BY <1>1, <2>1 DEF ReserveInternal
<1>2. ASSUME NEW r \in RequestId, ConsumeCompositeReservation(r)
      PROVE  TypeOK'
  <2>1. [records[r] EXCEPT !.consumed = TRUE, !.phase = "mutation"] \in LedgerRecord
    BY RecordUpdates DEF State, Token
  <2> QED
    BY <1>2, <2>1 DEF ConsumeCompositeReservation
<1>3. ASSUME NEW r \in RequestId, NEW o \in Outcome, Complete(r, o)
      PROVE  TypeOK'
  <2>1. [records[r] EXCEPT !.state = "terminal", !.result = o] \in LedgerRecord
    BY RecordUpdates DEF Token
  <2> QED
    BY <1>3, <2>1 DEF Complete
<1>4. ASSUME NEW r \in RequestId, Successor(r)
      PROVE  /\ minted + 1 \in Token \cup {0}
             /\ minted' \in 0..MaxTokens
             /\ tokens' \in [Token -> RequestId \cup {None}]
  BY <1>4 DEF Successor, Token
<1>5. ASSUME NEW r \in RequestId, MarkIndeterminate(r)
      PROVE  TypeOK'
  <2>1. [records[r] EXCEPT !.state = "indeterminate", !.token = minted + 1,
                           !.result = Indeterminate] \in LedgerRecord
    BY <1>4, <1>5, RecordUpdates DEF MarkIndeterminate
  <2> QED
    BY <1>4, <1>5, <2>1 DEF MarkIndeterminate
<1>6. ASSUME NEW t \in Token, ReconcileBegin(t)
      PROVE  TypeOK'
  <2> DEFINE r == tokens[t]
  <2>1. r \in RequestId
    BY <1>6 DEF ReconcileBegin
  <2>2. TokenSpent(records[r], t) \in LedgerRecord
    BY <2>1, RecordUpdates DEF TokenSpent, State
  <2>3. tokens' \in [Token -> RequestId \cup {None}] /\ awaiting' \subseteq RequestId
    BY <1>6, <2>1 DEF ReconcileBegin
  <2> QED
    BY <1>6, <2>1, <2>2, <2>3 DEF ReconcileBegin
<1>7. ASSUME NEW r \in RequestId, NEW o \in Outcome, ReconcileSettle(r, o)
      PROVE  TypeOK'
  <2>1. [records[r] EXCEPT !.state = "terminal", !.result = o] \in LedgerRecord
    BY RecordUpdates DEF Token
  <2> QED
    BY <1>7, <2>1 DEF ReconcileSettle
<1>8. ASSUME NEW r \in RequestId, ReconcileContinue(r)
      PROVE  TypeOK'
  <2>1. [records[r] EXCEPT !.token = minted + 1] \in LedgerRecord
    BY <1>4, <1>8, RecordUpdates DEF ReconcileContinue, State
  <2> QED
    BY <1>4, <1>8, <2>1 DEF ReconcileContinue
<1>9. CASE BeginDisposal
  BY <1>9 DEF BeginDisposal
<1>10. /\ HostInteractionsCancelled \in [RequestId -> LedgerRecord]
       /\ PromisesCancelled \in [RequestId -> PromiseValue]
  <2>1. \A r \in RequestId :
          [records[r] EXCEPT !.state = "terminal", !.result = Cancelled] \in LedgerRecord
    BY RecordUpdates DEF Token
  <2> QED
    BY <2>1 DEF HostInteractionsCancelled, PromisesCancelled
<1>11. ASSUME NEW k \in 1..MaxTickets, TerminalizeHostInteractionsForDisposal(k)
       PROVE  TypeOK'
  BY <1>10, <1>11 DEF TerminalizeHostInteractionsForDisposal
<1>12. ASSUME NEW k \in 1..MaxTickets, CancelDisposal(k)
       PROVE  TypeOK'
  <2>1. closing' \in BOOLEAN /\ disposed' \in BOOLEAN
    BY <1>12, Zenon DEF CancelDisposal
  <2> QED
    BY <1>12, <2>1 DEF CancelDisposal
<1>13. ASSUME NEW k \in 1..MaxTickets, FinishDisposal(k)
       PROVE  TypeOK'
  <2>1. [r \in RequestId |-> Absent] \in [RequestId -> LedgerRecord]
    BY DEF Absent, LedgerRecord, State, Phase, Token
  <2>2. closing' \in BOOLEAN /\ disposed' \in BOOLEAN
    BY <1>13, Zenon DEF FinishDisposal
  <2> QED
    BY <1>10, <1>13, <2>1, <2>2 DEF FinishDisposal
<1>14. CASE UNCHANGED vars
  BY <1>14 DEF vars
<1> HIDE DEF TypeOK
<1> QED
  BY <1>1, <1>2, <1>3, <1>5, <1>6, <1>7, <1>8, <1>9, <1>11, <1>12, <1>13, <1>14
  DEF Next, Reserve, ReserveComposite

-----------------------------------------------------------------------------
(* The inductive invariant.                                                  *)

(* Minting a successor for a record that has no token leaves every other     *)
(* pair of record and token as it was.                                       *)
LEMMA SuccessorTokens ==
  ASSUME TypeOK, TokensMatchRecords, NEW r \in RequestId, Successor(r),
         records[r].token = 0
  PROVE  /\ minted' \in Token /\ minted' = minted + 1
         /\ tokens'[minted'] = r
         /\ \A t \in Token \ {minted'} : tokens'[t] = tokens[t] /\ tokens[t] # r
         /\ tokens[minted'] = None
  BY LedgerAssumption DEF TypeOK, TokensMatchRecords, Successor, Token

(* A record that is, or stays, unresolved and takes the new token keeps      *)
(* records and tokens in step.                                               *)
LEMMA SuccessorKeepsMatch ==
  ASSUME TypeOK, TokensMatchRecords, NEW r \in RequestId, Successor(r),
         records[r].token = 0,
         records'[r].state = "indeterminate", records'[r].token = minted',
         \A q \in RequestId \ {r} : records'[q] = records[q],
         r \notin awaiting', awaiting' \cup {r} = awaiting \cup {r}
  PROVE  TokensMatchRecords'
<1>1. /\ minted' \in Token /\ minted' = minted + 1 /\ tokens'[minted'] = r
      /\ \A t \in Token \ {minted'} : tokens'[t] = tokens[t] /\ tokens[t] # r
      /\ tokens[minted'] = None
  BY SuccessorTokens
<1>2. ASSUME NEW t \in Token, tokens'[t] # None
      PROVE  /\ t <= minted'
             /\ records'[tokens'[t]].state = "indeterminate"
             /\ records'[tokens'[t]].token = t
  <2>1. CASE t = minted'
    BY <1>1, <2>1 DEF Token
  <2>2. CASE t # minted'
    <3>1. tokens'[t] = tokens[t] /\ tokens[t] \in RequestId \ {r}
      BY <1>1, <1>2, <2>2 DEF TypeOK
    <3> QED
      BY <1>1, <1>2, <3>1 DEF TokensMatchRecords, TypeOK, Token
  <2> QED
    BY <2>1, <2>2
<1>3. \A q \in RequestId : records'[q].state = "indeterminate" /\ q \notin awaiting' =>
        records'[q].token \in Token /\ tokens'[records'[q].token] = q
  <2> SUFFICES ASSUME NEW q \in RequestId, records'[q].state = "indeterminate",
                      q \notin awaiting'
               PROVE  records'[q].token \in Token /\ tokens'[records'[q].token] = q
    OBVIOUS
  <2>1. CASE q = r
    BY <1>1, <2>1
  <2>2. CASE q # r
    <3>1. records[q].token \in Token /\ tokens[records[q].token] = q
      BY <2>2 DEF TokensMatchRecords
    <3>2. records[q].token # minted'
      BY <1>1, <3>1, LedgerAssumption
    <3> QED
      BY <1>1, <2>2, <3>1, <3>2
  <2> QED
    BY <2>1, <2>2
<1>4. \A q \in RequestId :
        records'[q].state # "indeterminate" \/ q \in awaiting' => records'[q].token = 0
  BY DEF TokensMatchRecords
<1> QED
  BY <1>2, <1>3, <1>4 DEF TokensMatchRecords

(* Each step keeps the inductive invariant.                                  *)
LEMMA InvStep == LedgerInv /\ [Next]_vars => LedgerInv'
<1> SUFFICES ASSUME LedgerInv, [Next]_vars PROVE LedgerInv'
  OBVIOUS
<1> DEFINE Rest == /\ ClosedMeansSettled
                   /\ TokensMatchRecords
                   /\ AwaitingIsUnresolved
                   /\ NoJoinerIsForgotten
<1>t. TypeOK /\ TypeOK' /\ Rest
  BY TypeStep DEF LedgerInv
<1>a. /\ \A r \in RequestId : records[r] \in LedgerRecord
      /\ Cancelled \in Outcome
      /\ {"indeterminate", "pending", None} \cap Outcome = {}
      /\ None \notin {"indeterminate", "pending"}
      /\ None \notin RequestId
  BY <1>t, LedgerAssumption DEF TypeOK
<1>1. ASSUME NEW r \in RequestId, NEW p \in Payload, NEW c \in BOOLEAN,
             ReserveInternal(r, p, c)
      PROVE  Rest'
  <2>1. ~closing' /\ ~disposed'
    BY <1>1 DEF ReserveInternal, Open
  <2>2. ClosedMeansSettled'
    BY <2>1 DEF ClosedMeansSettled
  <2>3. /\ records'[r].state = "in-flight" /\ records'[r].token = 0
        /\ \A q \in RequestId \ {r} : records'[q] = records[q] /\ promise'[q] = promise[q]
    BY <1>t, <1>1 DEF ReserveInternal, Absent, TypeOK
  <2>4. UNCHANGED <<tokens, minted, awaiting>> /\ records[r].state = "absent"
    BY <1>1 DEF ReserveInternal
  <2>5. TokensMatchRecords'
    BY <1>t, <1>a, <2>3, <2>4 DEF TokensMatchRecords, TypeOK
  <2>6. AwaitingIsUnresolved'
    BY <1>t, <2>3, <2>4 DEF AwaitingIsUnresolved, TypeOK
  <2>7. NoJoinerIsForgotten'
    BY <1>t, <2>3 DEF NoJoinerIsForgotten
  <2> QED
    BY <2>2, <2>5, <2>6, <2>7
<1>2. ASSUME NEW r \in RequestId, ConsumeCompositeReservation(r)
      PROVE  Rest'
  <2>1. ~closing' /\ ~disposed'
    BY <1>2 DEF ConsumeCompositeReservation, Open
  <2>2. ClosedMeansSettled'
    BY <2>1 DEF ClosedMeansSettled
  <2>3. \A q \in RequestId : /\ records'[q].state = records[q].state
                             /\ records'[q].token = records[q].token
    BY <1>t, <1>a, <1>2 DEF ConsumeCompositeReservation, TypeOK, LedgerRecord
  <2>4. UNCHANGED <<tokens, minted, awaiting, promise>>
    BY <1>2 DEF ConsumeCompositeReservation
  <2>5. TokensMatchRecords' /\ AwaitingIsUnresolved' /\ NoJoinerIsForgotten'
    BY <1>t, <1>a, <2>3, <2>4
    DEF TokensMatchRecords, AwaitingIsUnresolved, NoJoinerIsForgotten, TypeOK
  <2> QED
    BY <2>2, <2>5
<1>3. ASSUME NEW r \in RequestId, NEW o \in Outcome, Complete(r, o)
      PROVE  Rest'
  <2>1. /\ records'[r].state = "terminal" /\ records'[r].token = records[r].token
        /\ records[r].state = "in-flight" /\ promise'[r] = o
        /\ \A q \in RequestId \ {r} : records'[q] = records[q] /\ promise'[q] = promise[q]
    BY <1>t, <1>a, <1>3 DEF Complete, TypeOK, LedgerRecord
  <2>2. UNCHANGED <<tokens, minted, awaiting, closing, disposed>>
    BY <1>3 DEF Complete
  <2>3. ClosedMeansSettled'
    BY <1>t, <2>1, <2>2
    DEF ClosedMeansSettled, InFlightMutation, HasIndeterminate, InState
  <2>4. TokensMatchRecords' /\ AwaitingIsUnresolved'
    BY <1>t, <1>a, <2>1, <2>2 DEF TokensMatchRecords, AwaitingIsUnresolved, TypeOK
  <2>5. NoJoinerIsForgotten'
    BY <1>t, <1>a, <2>1 DEF NoJoinerIsForgotten, Pending
  <2> QED
    BY <2>3, <2>4, <2>5
<1>4. ASSUME NEW r \in RequestId, MarkIndeterminate(r)
      PROVE  Rest'
  <2>1. /\ records[r].state = "in-flight" /\ records[r].phase = "mutation"
        /\ Successor(r) /\ records[r].token = 0
    BY <1>t, <1>4
    DEF MarkIndeterminate, InFlightMutation, InState, TokensMatchRecords
  <2>2. /\ records'[r].state = "indeterminate" /\ records'[r].token = minted'
        /\ promise'[r] = Indeterminate
        /\ \A q \in RequestId \ {r} : records'[q] = records[q] /\ promise'[q] = promise[q]
    BY <1>t, <1>a, <1>4, <2>1 DEF MarkIndeterminate, TypeOK, LedgerRecord, Successor
  <2>3. UNCHANGED <<awaiting, closing, disposed>> /\ r \notin awaiting
    BY <1>t, <1>4, <2>1 DEF MarkIndeterminate, AwaitingIsUnresolved
  <2>4. ~closing' /\ ~disposed'
    BY <1>t, <1>4, <2>3 DEF MarkIndeterminate, ClosedMeansSettled
  <2>5. TokensMatchRecords'
    BY <1>t, <2>1, <2>2, <2>3, SuccessorKeepsMatch
  <2>6. ClosedMeansSettled' /\ AwaitingIsUnresolved'
    BY <1>t, <2>2, <2>3, <2>4 DEF ClosedMeansSettled, AwaitingIsUnresolved, TypeOK
  <2>7. NoJoinerIsForgotten'
    BY <1>t, <2>2 DEF NoJoinerIsForgotten, Pending, Indeterminate
  <2> QED
    BY <2>5, <2>6, <2>7
<1>5. ASSUME NEW t \in Token, ReconcileBegin(t)
      PROVE  Rest'
  <2> DEFINE r == tokens[t]
  <2>1. /\ r \in RequestId /\ records[r].state = "indeterminate"
        /\ records[r].token = t
    BY <1>t, <1>5 DEF ReconcileBegin, TypeOK, TokensMatchRecords
  <2>2. /\ records'[r].state = "indeterminate" /\ records'[r].token = 0
        /\ \A q \in RequestId \ {r} : records'[q] = records[q]
    BY <1>t, <1>a, <1>5, <2>1
    DEF ReconcileBegin, TokenSpent, TypeOK, LedgerRecord
  <2>3. /\ awaiting' = awaiting \cup {r}
        /\ UNCHANGED <<promise, minted, closing, disposed>>
        /\ ~closing /\ ~disposed
    BY <1>5 DEF ReconcileBegin, Open
  <2>4. tokens'[t] = None /\ \A u \in Token \ {t} : tokens'[u] = tokens[u]
    BY <1>t, <1>5 DEF ReconcileBegin, TypeOK
  <2>5. ClosedMeansSettled' /\ AwaitingIsUnresolved'
    BY <1>t, <2>1, <2>2, <2>3
    DEF ClosedMeansSettled, AwaitingIsUnresolved, TypeOK
  <2>6. TokensMatchRecords'
    <3>1. \A u \in Token : tokens'[u] # None =>
            /\ tokens'[u] = tokens[u] /\ tokens[u] \in RequestId \ {r}
      BY <1>t, <1>a, <2>1, <2>4 DEF TokensMatchRecords, TypeOK
    <3> QED
      BY <1>t, <1>a, <2>1, <2>2, <2>3, <2>4, <3>1 DEF TokensMatchRecords, TypeOK
  <2>7. NoJoinerIsForgotten'
    BY <1>t, <2>1, <2>2, <2>3 DEF NoJoinerIsForgotten
  <2> QED
    BY <2>5, <2>6, <2>7
<1>6. ASSUME NEW r \in RequestId, NEW o \in Outcome, ReconcileSettle(r, o)
      PROVE  Rest'
  <2>1. /\ r \in awaiting /\ records[r].state = "indeterminate"
        /\ records[r].token = 0 /\ ~closing /\ ~disposed
    BY <1>t, <1>6 DEF ReconcileSettle, AwaitingIsUnresolved, TokensMatchRecords,
                      ClosedMeansSettled
  <2>2. /\ records'[r].state = "terminal" /\ records'[r].token = 0
        /\ \A q \in RequestId \ {r} : records'[q] = records[q]
    BY <1>t, <1>a, <1>6, <2>1 DEF ReconcileSettle, TypeOK, LedgerRecord
  <2>3. /\ awaiting' = awaiting \ {r}
        /\ UNCHANGED <<promise, tokens, minted, closing, disposed>>
    BY <1>6 DEF ReconcileSettle
  <2>4. \A t \in Token : tokens[t] # r
    BY <1>t, <1>a, <2>1 DEF TokensMatchRecords, Token
  <2>5. ClosedMeansSettled' /\ AwaitingIsUnresolved'
    BY <1>t, <2>1, <2>2, <2>3
    DEF ClosedMeansSettled, AwaitingIsUnresolved, TypeOK
  <2>6. TokensMatchRecords'
    BY <1>t, <1>a, <2>1, <2>2, <2>3, <2>4 DEF TokensMatchRecords, TypeOK
  <2>7. NoJoinerIsForgotten'
    BY <1>t, <2>1, <2>2, <2>3 DEF NoJoinerIsForgotten
  <2> QED
    BY <2>5, <2>6, <2>7
<1>7. ASSUME NEW r \in RequestId, ReconcileContinue(r)
      PROVE  Rest'
  <2>1. /\ r \in awaiting /\ records[r].state = "indeterminate"
        /\ records[r].token = 0 /\ ~closing /\ ~disposed /\ Successor(r)
    BY <1>t, <1>7 DEF ReconcileContinue, AwaitingIsUnresolved, TokensMatchRecords,
                      ClosedMeansSettled
  <2>2. /\ records'[r].state = "indeterminate" /\ records'[r].token = minted'
        /\ \A q \in RequestId \ {r} : records'[q] = records[q]
    BY <1>t, <1>a, <1>7, <2>1
    DEF ReconcileContinue, TypeOK, LedgerRecord, Successor
  <2>3. /\ awaiting' = awaiting \ {r}
        /\ UNCHANGED <<promise, closing, disposed>>
    BY <1>7 DEF ReconcileContinue
  <2>4. ClosedMeansSettled' /\ AwaitingIsUnresolved'
    BY <1>t, <2>1, <2>2, <2>3
    DEF ClosedMeansSettled, AwaitingIsUnresolved, TypeOK
  <2>5. TokensMatchRecords'
    BY <1>t, <2>1, <2>2, <2>3, SuccessorKeepsMatch
  <2>6. NoJoinerIsForgotten'
    BY <1>t, <2>1, <2>2, <2>3 DEF NoJoinerIsForgotten
  <2> QED
    BY <2>4, <2>5, <2>6
<1>8. ASSUME BeginDisposal
      PROVE  Rest'
  <2>1. /\ InFlightMutation = {} /\ ~HasIndeterminate
        /\ UNCHANGED <<records, promise, tokens, minted, awaiting>>
    BY <1>8 DEF BeginDisposal
  <2>2. awaiting = {}
    BY <1>t, <2>1 DEF AwaitingIsUnresolved, HasIndeterminate, InState, TypeOK
  <2> QED
    BY <1>t, <2>1, <2>2
    DEF ClosedMeansSettled, TokensMatchRecords, AwaitingIsUnresolved,
        NoJoinerIsForgotten, InFlightMutation, HasIndeterminate, InState
<1>9. ASSUME NEW k \in 1..MaxTickets, HoldsTicket(k)
      PROVE  /\ InFlightMutation = {} /\ ~HasIndeterminate /\ awaiting = {}
             /\ HostInteractions = InState("in-flight")
             /\ \A r \in RequestId : records[r].token = 0
             /\ \A t \in Token : tokens[t] = None
  <2>1. InFlightMutation = {} /\ ~HasIndeterminate /\ awaiting = {}
    BY <1>t, <1>9 DEF HoldsTicket, ClosedMeansSettled
  <2>2. HostInteractions = InState("in-flight")
    BY <1>a, <2>1 DEF HostInteractions, InFlightMutation, InState, LedgerRecord, Phase
  <2> QED
    BY <1>t, <2>1, <2>2
    DEF TokensMatchRecords, HasIndeterminate, InState, TypeOK
<1>10. ASSUME NEW k \in 1..MaxTickets, TerminalizeHostInteractionsForDisposal(k)
       PROVE  Rest'
  <2>1. HoldsTicket(k) /\ UNCHANGED <<tokens, minted, awaiting, closing, disposed>>
    BY <1>10 DEF TerminalizeHostInteractionsForDisposal
  <2>2. \A r \in RequestId :
          /\ records'[r].token = records[r].token
          /\ records'[r].state # "in-flight" /\ records'[r].state # "indeterminate"
    BY ZenonT(40), <1>a, <1>9, <1>10, <2>1
    DEF TerminalizeHostInteractionsForDisposal, HostInteractionsCancelled,
        HasIndeterminate, InState, LedgerRecord, State
  <2>3. \A r \in RequestId : promise'[r] # Pending
    BY <1>t, <1>a, <1>9, <1>10, <2>1
    DEF TerminalizeHostInteractionsForDisposal, PromisesCancelled,
        NoJoinerIsForgotten, InState, Pending
  <2> QED
    BY <1>9, <2>1, <2>2, <2>3
    DEF ClosedMeansSettled, TokensMatchRecords, AwaitingIsUnresolved,
        NoJoinerIsForgotten, InFlightMutation, HasIndeterminate, InState
<1>11. ASSUME NEW k \in 1..MaxTickets, CancelDisposal(k)
       PROVE  Rest'
  BY <1>t, <1>11
  DEF CancelDisposal, ClosedMeansSettled, TokensMatchRecords,
      AwaitingIsUnresolved, NoJoinerIsForgotten, InFlightMutation,
      HasIndeterminate, InState
<1>12. ASSUME NEW k \in 1..MaxTickets, FinishDisposal(k)
       PROVE  Rest'
  <2>1. HoldsTicket(k) /\ UNCHANGED <<minted, awaiting>>
    BY <1>12 DEF FinishDisposal
  <2>2. \A r \in RequestId :
          records'[r].token = 0 /\ records'[r].state = "absent"
    BY <1>12 DEF FinishDisposal, Absent
  <2>3. \A r \in RequestId : promise'[r] # Pending
    BY <1>t, <1>a, <1>9, <1>12, <2>1
    DEF FinishDisposal, PromisesCancelled, NoJoinerIsForgotten, InState, Pending
  <2>4. \A t \in Token : tokens'[t] = None
    BY <1>12 DEF FinishDisposal
  <2> QED
    BY <1>9, <2>1, <2>2, <2>3, <2>4
    DEF ClosedMeansSettled, TokensMatchRecords, AwaitingIsUnresolved,
        NoJoinerIsForgotten, InFlightMutation, HasIndeterminate, InState
<1>13. ASSUME UNCHANGED vars
       PROVE  Rest'
  BY <1>t, <1>13
  DEF vars, ClosedMeansSettled, TokensMatchRecords, AwaitingIsUnresolved,
      NoJoinerIsForgotten, InFlightMutation, HasIndeterminate, InState
<1>14. Rest'
  <2> HIDE DEF Rest
  <2> QED
    BY <1>1, <1>2, <1>3, <1>4, <1>5, <1>6, <1>7, <1>8, <1>10, <1>11, <1>12, <1>13
    DEF Next, Reserve, ReserveComposite
<1> QED
  BY <1>t, <1>14 DEF LedgerInv

-----------------------------------------------------------------------------
(* The inductive invariant holds throughout every behaviour of the ledger.   *)
THEOREM Inductive == Spec => []LedgerInv
<1>1. Init => LedgerInv
  BY InitInv
<1>2. LedgerInv /\ [Next]_vars => LedgerInv'
  BY InvStep
<1> QED
  BY <1>1, <1>2, PTL DEF Spec

(* The ledger keeps its types.                                               *)
THEOREM TypeCorrect == Spec => []TypeOK
<1>1. LedgerInv => TypeOK
  BY DEF LedgerInv
<1> QED
  BY <1>1, Inductive, PTL

(* A closed or closing ledger has no mutation in flight, none unresolved and *)
(* no reconcile on its way.                                                  *)
THEOREM DisposalIsSafe == Spec => []ClosedMeansSettled
<1>1. LedgerInv => ClosedMeansSettled
  BY DEF LedgerInv
<1> QED
  BY <1>1, Inductive, PTL

(* Every unresolved mutation has exactly one way to be resolved.             *)
THEOREM AlwaysOneWayOut == Spec => []UnresolvedHasOneWayOut
<1>1. LedgerInv => UnresolvedHasOneWayOut
  BY LedgerAssumption
  DEF LedgerInv, TypeOK, TokensMatchRecords, UnresolvedHasOneWayOut, InState, Token
<1> QED
  BY <1>1, Inductive, PTL

(* Nobody waits on a reservation that is settled or gone.                    *)
THEOREM JoinersAreAnswered == Spec => []NoJoinerIsForgotten
<1>1. LedgerInv => NoJoinerIsForgotten
  BY DEF LedgerInv
<1> QED
  BY <1>1, Inductive, PTL

(* A settled request keeps its payload and result until disposal.            *)
THEOREM SettledStaysSettled == Spec => OutcomeIsFinal
<1> DEFINE Final == \A r \in InState("terminal") :
                      records'[r] = records[r] \/ disposed'
<1>1. ASSUME LedgerInv, Next
      PROVE  Final
  <2> SUFFICES ASSUME NEW q \in RequestId, records[q].state = "terminal"
               PROVE  records'[q] = records[q] \/ disposed'
    BY DEF InState
  <2>1. TypeOK /\ AwaitingIsUnresolved
    BY <1>1 DEF LedgerInv
  <2>2. ASSUME NEW r \in RequestId, records[r].state # "terminal", NEW v,
               records' = [records EXCEPT ![r] = v]
        PROVE  records'[q] = records[q]
    BY <2>1, <2>2 DEF TypeOK
  <2>3. ASSUME NEW r \in RequestId, NEW p \in Payload, NEW c \in BOOLEAN,
               ReserveInternal(r, p, c)
        PROVE  records'[q] = records[q]
    BY <2>2, <2>3 DEF ReserveInternal
  <2>4. ASSUME NEW r \in RequestId, ConsumeCompositeReservation(r)
        PROVE  records'[q] = records[q]
    BY <2>2, <2>4 DEF ConsumeCompositeReservation
  <2>5. ASSUME NEW r \in RequestId, NEW o \in Outcome, Complete(r, o)
        PROVE  records'[q] = records[q]
    BY <2>2, <2>5 DEF Complete
  <2>6. ASSUME NEW r \in RequestId, MarkIndeterminate(r)
        PROVE  records'[q] = records[q]
    <3>1. records[r].state = "in-flight"
      BY <2>6 DEF MarkIndeterminate, InFlightMutation, InState
    <3> QED
      BY <2>2, <2>6, <3>1 DEF MarkIndeterminate
  <2>7. ASSUME NEW t \in Token, ReconcileBegin(t)
        PROVE  records'[q] = records[q]
    BY <2>1, <2>2, <2>7 DEF ReconcileBegin, TypeOK
  <2>8. ASSUME NEW r \in RequestId, NEW o \in Outcome, ReconcileSettle(r, o)
        PROVE  records'[q] = records[q]
    BY <2>1, <2>2, <2>8 DEF ReconcileSettle, AwaitingIsUnresolved
  <2>9. ASSUME NEW r \in RequestId, ReconcileContinue(r)
        PROVE  records'[q] = records[q]
    BY <2>1, <2>2, <2>9 DEF ReconcileContinue, AwaitingIsUnresolved
  <2>10. ASSUME BeginDisposal \/ \E k \in 1..MaxTickets : CancelDisposal(k)
         PROVE  records'[q] = records[q]
    BY <2>10 DEF BeginDisposal, CancelDisposal
  <2>11. ASSUME NEW k \in 1..MaxTickets, TerminalizeHostInteractionsForDisposal(k)
         PROVE  records'[q] = records[q]
    BY <2>11 DEF TerminalizeHostInteractionsForDisposal, HostInteractionsCancelled,
                 HostInteractions, InState
  <2>12. ASSUME NEW k \in 1..MaxTickets, FinishDisposal(k)
         PROVE  disposed'
    BY <2>12 DEF FinishDisposal
  <2> QED
    BY <1>1, <2>3, <2>4, <2>5, <2>6, <2>7, <2>8, <2>9, <2>10, <2>11, <2>12
    DEF Next, Reserve, ReserveComposite
<1>2. LedgerInv /\ [Next]_vars => [Final]_vars
  BY <1>1
<1> QED
  BY <1>2, Inductive, PTL DEF Spec, OutcomeIsFinal

-----------------------------------------------------------------------------
(* Mutations *)

Answers == Outcome \cup {None, Indeterminate}
CallState == [pc: Pc, version: Nat, before: SUBSET Marks, seen: SUBSET Marks,
              aborted: BOOLEAN, answer: Answers]
Attempt == [before: SUBSET Marks, after: SUBSET Marks]

(* The types that matter here: all but the order of the scheduler's line.    *)
SdkTypes ==
    /\ idOf \in [Call -> RequestId]
    /\ call \in [Call -> CallState]
    /\ doc \in SUBSET Marks
    /\ edits \in Nat
    /\ attempt \in [RequestId -> Attempt]
    /\ probe \in [RequestId -> SUBSET Marks]
    /\ commits \in [RequestId -> Nat]

Waiting == {"picking", "checking", "queued"}
Committed == {"settling", "observing"}
Executing == {"planning"} \cup Committed
Holds(c) == call[c].pc \in Executing \/ (IsPicker[c] /\ call[c].pc \in Waiting)

OneHolder ==
    \A c, d \in Call : Holds(c) /\ Holds(d) /\ Id(c) = Id(d) => c = d

(* The descriptor of a commit tells its effect from its absence.             *)
Attempted(r) == r \notin attempt[r].before /\ r \in attempt[r].after

(* What a call knows of its request and of the document.                     *)
CallInv(c) ==
    /\ call[c].version <= edits
    /\ call[c].pc = "picking" => IsPicker[c]
    /\ Holds(c) => disposed \/ records[Id(c)].state # "absent"
    /\ call[c].pc \in Executing => Id(c) \in InFlightMutation
    /\ call[c].pc = "planning" => Id(c) \notin call[c].before
    /\ call[c].pc = "planning" /\ call[c].version = edits => call[c].before = doc
    /\ Holds(c) /\ call[c].pc \notin Committed => commits[Id(c)] = 0
    /\ call[c].pc \in Committed => Attempted(Id(c))
    /\ call[c].pc = "observing" => (Id(c) \in call[c].seen <=> Id(c) \in doc)

(* What is known of a request from its record.                               *)
Unused(r) ==
    r \in HostInteractions \/ (~disposed /\ records[r].state = "absent")
RequestInv(r) ==
    /\ commits[r] <= 1
    /\ Unused(r) => commits[r] = 0
    /\ commits[r] = 0 => r \notin doc
    /\ records[r].state = "indeterminate" => Attempted(r)
    /\ r \in awaiting => (r \in probe[r] <=> r \in doc)
    /\ records[r].state = "terminal" =>
         IF records[r].result = Succeeded THEN commits[r] > 0 => r \in doc
                                          ELSE r \notin doc

SdkInv ==
    /\ LedgerInv
    /\ SdkTypes
    /\ OneHolder
    /\ \A c \in Call : CallInv(c)
    /\ \A r \in RequestId : RequestInv(r)

-----------------------------------------------------------------------------
(* Steps of the ledger as this module makes them *)

(* A reservation is completed, or was no longer there to be.                 *)
LEMMA Completes ==
    ASSUME TypeOK, NEW r \in RequestId, NEW o \in Outcome,
           Complete(r, o) \/ UNCHANGED vars
    PROVE  /\ [Next]_vars
           /\ UNCHANGED <<awaiting, disposed, closing>>
           /\ \A q \in RequestId \ {r} : records'[q] = records[q]
           /\ \/ records'[r] = records[r]
              \/ /\ records[r].state = "in-flight"
                 /\ records'[r].state = "terminal" /\ records'[r].result = o
<1>1. CASE Complete(r, o)
  <2>1. Next
    BY <1>1 DEF Next
  <2>2. /\ records' = [records EXCEPT ![r] = [@ EXCEPT !.state = "terminal", !.result = o]]
        /\ records[r].state = "in-flight" /\ UNCHANGED <<awaiting, disposed, closing>>
    BY <1>1 DEF Complete
  <2>3. records \in [RequestId -> LedgerRecord]
    BY DEF TypeOK
  <2> QED BY <2>1, <2>2, <2>3 DEF LedgerRecord
<1>2. CASE UNCHANGED vars
  BY <1>2 DEF vars
<1> QED BY <1>1, <1>2

(* A fresh reservation.                                                      *)
LEMMA Reserves ==
    ASSUME TypeOK, NEW r \in RequestId, NEW p \in Payload, NEW b \in BOOLEAN,
           ReserveInternal(r, p, b)
    PROVE  /\ [Next]_vars /\ Open /\ records[r].state = "absent"
           /\ UNCHANGED <<awaiting, disposed, closing>>
           /\ \A q \in RequestId \ {r} : records'[q] = records[q]
           /\ records'[r].state = "in-flight"
           /\ records'[r].phase = IF b THEN "host-interaction" ELSE "mutation"
<1>1. Next
  <2>1. CASE b
    BY <2>1 DEF Next, ReserveComposite
  <2>2. CASE ~b
    <3>1. b = FALSE
      BY <2>2
    <3> QED BY <3>1 DEF Next, Reserve
  <2> QED BY <2>1, <2>2
<1> QED BY <1>1 DEF ReserveInternal, TypeOK, Absent, Open

(* The commit's result is unknown.                                           *)
LEMMA BecomesIndeterminate ==
    ASSUME TypeOK, NEW r \in RequestId, MarkIndeterminate(r)
    PROVE  /\ [Next]_vars
           /\ UNCHANGED <<awaiting, disposed, closing>>
           /\ \A q \in RequestId \ {r} : records'[q] = records[q]
           /\ records'[r].state = "indeterminate"
<1>1. Next
  BY DEF Next
<1>2. records \in [RequestId -> LedgerRecord]
  BY DEF TypeOK
<1>3. /\ records' = [records EXCEPT ![r] =
                       [@ EXCEPT !.state = "indeterminate", !.token = minted + 1,
                                 !.result = Indeterminate]]
      /\ UNCHANGED <<awaiting, disposed, closing>>
  BY DEF MarkIndeterminate
<1> QED BY <1>1, <1>2, <1>3 DEF LedgerRecord

(* A disposal that ends in any way leaves no request in flight.              *)
LEMMA ClosedIsIdle ==
    ASSUME LedgerInv, closing \/ disposed
    PROVE  /\ awaiting = {}
           /\ \A r \in RequestId :
                /\ records[r].state # "indeterminate"
                /\ records[r].state = "in-flight" => r \in HostInteractions
<1>1. InFlightMutation = {} /\ ~HasIndeterminate /\ awaiting = {}
  BY DEF LedgerInv, ClosedMeansSettled
<1>2. \A r \in RequestId : records[r].phase \in Phase
  BY DEF LedgerInv, TypeOK, LedgerRecord
<1> QED
  BY <1>1, <1>2 DEF InFlightMutation, HasIndeterminate, InState, HostInteractions, Phase

-----------------------------------------------------------------------------
(* What a step leaves as it was *)

(* What a call knows stays true when its own state and its request's do.     *)
LEMMA CallStays ==
    ASSUME SdkTypes, NEW c \in Call, CallInv(c), UNCHANGED idOf,
           call'[c] = call[c],
           edits \in Nat, edits' \in Nat, edits <= edits', edits' = edits => doc' = doc,
           records'[Id(c)] = records[Id(c)], disposed' = disposed,
           commits'[Id(c)] = commits[Id(c)], attempt'[Id(c)] = attempt[Id(c)],
           Id(c) \in doc' <=> Id(c) \in doc
    PROVE  CallInv(c)' /\ (Holds(c)' <=> Holds(c))
<1> DEFINE r == Id(c)
<1>1. r \in RequestId /\ r' = r /\ call[c].version \in Nat
  BY DEF SdkTypes, Id, CallState
<1>2. Holds(c)' <=> Holds(c)
  BY DEF Holds
<1>3. call[c].version <= edits'
  BY <1>1 DEF CallInv
<1>4. call[c].version = edits' => edits' = edits
  BY <1>1 DEF CallInv
<1>5. Id(c) \in InFlightMutation <=> (Id(c) \in InFlightMutation)'
  BY <1>1 DEF InFlightMutation, InState
<1>6. Attempted(Id(c)) <=> Attempted(Id(c))'
  BY <1>1 DEF Attempted
<1> QED
  BY <1>1, <1>2, <1>3, <1>4, <1>5, <1>6 DEF CallInv

(* A call that does not hold its request knows nothing of it.                *)
LEMMA BystanderStays ==
    ASSUME SdkTypes, NEW c \in Call, CallInv(c), UNCHANGED idOf,
           call'[c] = call[c], ~Holds(c),
           edits \in Nat, edits' \in Nat, edits <= edits'
    PROVE  CallInv(c)' /\ ~Holds(c)'
<1>1. call[c].version \in Nat
  BY DEF SdkTypes, CallState
<1>2. ~Holds(c)'
  BY DEF Holds
<1>3. call[c].pc \notin Executing
  BY DEF Holds
<1> QED
  BY <1>1, <1>2, <1>3 DEF CallInv, Executing, Committed

(* What is known of a request stays true when nothing about it changes.      *)
LEMMA RequestStays ==
    ASSUME NEW r \in RequestId, RequestInv(r), disposed' = disposed,
           records'[r] = records[r], commits'[r] = commits[r],
           attempt'[r] = attempt[r], probe'[r] = probe[r],
           r \in awaiting' <=> r \in awaiting,
           r \in doc' <=> r \in doc
    PROVE  RequestInv(r)'
<1>1. Unused(r)' <=> Unused(r)
  BY DEF Unused, HostInteractions, InState
<1> QED
  BY <1>1 DEF RequestInv, Attempted

(* A call's step: it may change its own request only if it holds it, or      *)
(* takes it while it is free.                                                *)
LEMMA StepOfCall ==
    ASSUME SdkInv, NEW c \in Call, UNCHANGED <<idOf, probe, awaiting, disposed>>,
           \A d \in Call \ {c} : call'[d] = call[d],
           \A q \in RequestId \ {Id(c)} :
             /\ records'[q] = records[q] /\ commits'[q] = commits[q]
             /\ attempt'[q] = attempt[q] /\ (q \in doc' <=> q \in doc),
           edits <= edits', edits' = edits => doc' = doc,
           \/ Holds(c)
           \/ Open /\ records[Id(c)].state = "absent"
           \/ /\ records'[Id(c)] = records[Id(c)] /\ commits'[Id(c)] = commits[Id(c)]
              /\ attempt'[Id(c)] = attempt[Id(c)] /\ (Id(c) \in doc' <=> Id(c) \in doc)
              /\ ~Holds(c)',
           LedgerInv', SdkTypes', CallInv(c)', RequestInv(Id(c))'
    PROVE  SdkInv'
<1>0. /\ SdkTypes /\ OneHolder /\ \A d \in Call : CallInv(d)
      /\ \A r \in RequestId : RequestInv(r)
      /\ edits \in Nat /\ edits' \in Nat /\ \A d \in Call : Id(d) \in RequestId
  BY DEF SdkInv, SdkTypes, Id
<1>1. \A d \in Call : Id(d)' = Id(d)
  BY DEF Id
<1>2. ASSUME NEW d \in Call \ {c}
      PROVE  /\ CallInv(d)' /\ (Holds(d)' <=> Holds(d))
             /\ Holds(c)' /\ Holds(d)' => Id(d) # Id(c)
  <2>1. CASE Id(d) # Id(c)
    <3>1. CallInv(d)' /\ (Holds(d)' <=> Holds(d))
      BY <1>0, <2>1, CallStays
    <3> QED BY <2>1, <3>1
  <2>2. CASE Id(d) = Id(c) /\ Holds(c)
    <3>1. ~Holds(d)
      BY <1>0, <2>2 DEF OneHolder
    <3> QED BY <1>0, <3>1, BystanderStays
  <2>3. CASE Id(d) = Id(c) /\ Open /\ records[Id(c)].state = "absent"
    <3>1. ~Holds(d)
      BY <1>0, <2>3 DEF CallInv, Open
    <3> QED BY <1>0, <3>1, BystanderStays
  <2>4. CASE /\ Id(d) = Id(c)
             /\ records'[Id(c)] = records[Id(c)] /\ commits'[Id(c)] = commits[Id(c)]
             /\ attempt'[Id(c)] = attempt[Id(c)] /\ (Id(c) \in doc' <=> Id(c) \in doc)
             /\ ~Holds(c)'
    BY <1>0, <2>4, CallStays
  <2> QED BY <2>1, <2>2, <2>3, <2>4
<1>3. OneHolder'
  <2> SUFFICES ASSUME NEW a \in Call, NEW b \in Call, Holds(a)', Holds(b)', Id(a) = Id(b)
               PROVE  a = b
    BY <1>1 DEF OneHolder
  <2>1. CASE a = c \/ b = c
    BY <1>2, <2>1
  <2>2. CASE a # c /\ b # c
    BY <1>0, <1>2, <2>2 DEF OneHolder
  <2> QED BY <2>1, <2>2
<1>4. \A q \in RequestId : RequestInv(q)'
  <2> SUFFICES ASSUME NEW q \in RequestId, q # Id(c) PROVE RequestInv(q)'
    BY <1>0, <1>1
  <2> QED BY <1>0, RequestStays
<1> QED BY <1>2, <1>3, <1>4 DEF SdkInv

-----------------------------------------------------------------------------
(* Steps of a call that leave the document alone *)

quiet == <<idOf, doc, edits, attempt, probe, commits>>

(* A call that is answered, or goes on, keeps its other fields.              *)
LEMMA Answered ==
    ASSUME SdkTypes, NEW c \in Call, NEW a \in Answers, Answer(c, a)
    PROVE  /\ call' \in [Call -> CallState]
           /\ \A d \in Call \ {c} : call'[d] = call[d]
           /\ call'[c].pc = "answered" /\ call'[c].version = call[c].version
<1>1. "answered" \in Pc /\ call[c] \in CallState
  BY DEF Pc, SdkTypes
<1>2. [call[c] EXCEPT !.pc = "answered", !.answer = a] \in CallState
  BY <1>1 DEF CallState
<1>3. call' = [call EXCEPT ![c] = [call[c] EXCEPT !.pc = "answered", !.answer = a]]
  BY DEF Answer
<1> QED BY <1>1, <1>2, <1>3 DEF SdkTypes, CallState

(* A call that goes on keeps its other fields.                               *)
LEMMA MovesOn ==
    ASSUME SdkTypes, NEW c \in Call, NEW p \in Pc, Becomes(c, p)
    PROVE  /\ call' \in [Call -> CallState]
           /\ \A d \in Call \ {c} : call'[d] = call[d]
           /\ call'[c].pc = p /\ call'[c].version = call[c].version
           /\ call'[c].before = call[c].before /\ call'[c].seen = call[c].seen
<1>1. call[c] \in CallState
  BY DEF SdkTypes
<1>2. [call[c] EXCEPT !.pc = p] \in CallState
  BY <1>1 DEF CallState
<1>3. call' = [call EXCEPT ![c] = [call[c] EXCEPT !.pc = p]]
  BY DEF Becomes
<1> QED BY <1>1, <1>2, <1>3 DEF SdkTypes, CallState

(* A call that is not executing moves without touching the ledger.           *)
LEMMA QuietCall ==
    ASSUME SdkInv, NEW c \in Call, UNCHANGED <<vars, quiet>>,
           call' \in [Call -> CallState],
           \A d \in Call \ {c} : call'[d] = call[d],
           call'[c].version <= edits, call'[c].pc \notin Executing \cup {"picking"},
           IsPicker[c] /\ call'[c].pc \in Waiting => call[c].pc \in Waiting
    PROVE  SdkInv'
<1>0. LedgerInv /\ SdkTypes /\ CallInv(c) /\ RequestInv(Id(c)) /\ Id(c) \in RequestId
  BY DEF SdkInv, SdkTypes, Id
<1>1. LedgerInv'
  BY <1>0, InvStep
<1>2. SdkTypes'
  BY <1>0 DEF SdkTypes, quiet
<1>3. RequestInv(Id(c))'
  BY <1>0, RequestStays DEF vars, quiet, Id
<1>4. CallInv(c)' /\ (Holds(c)' => Holds(c))
  <2>1. Holds(c)' => Holds(c) /\ call[c].pc \notin Committed /\ IsPicker[c]
    BY DEF Holds, Waiting, Committed, Executing
  <2>2. call'[c].pc # "planning" /\ call'[c].pc \notin Committed
    BY DEF Executing
  <2> QED
    BY <1>0, <2>1, <2>2 DEF CallInv, vars, quiet, Id, Committed
<1> QED BY <1>0, <1>1, <1>2, <1>3, <1>4, StepOfCall DEF vars, quiet, SdkTypes

(* A call is answered and its reservation, if it still stands, is completed  *)
(* with a result that is true.                                               *)
LEMMA AnswerStep ==
    ASSUME SdkInv, NEW c \in Call, NEW a \in Answers, NEW o \in Outcome,
           UNCHANGED quiet, Answer(c, a),
           UNCHANGED vars \/ (Holds(c) /\ Complete(Id(c), o)),
           Holds(c) => IF o = Succeeded THEN commits[Id(c)] > 0 => Id(c) \in doc
                                        ELSE Id(c) \notin doc
    PROVE  SdkInv'
<1> DEFINE r == Id(c)
<1>0. /\ LedgerInv /\ TypeOK /\ SdkTypes /\ CallInv(c) /\ RequestInv(r) /\ r \in RequestId
  BY DEF SdkInv, SdkTypes, Id, LedgerInv
<1>1. /\ call' \in [Call -> CallState]
      /\ \A d \in Call \ {c} : call'[d] = call[d]
      /\ call'[c].pc = "answered" /\ call'[c].version = call[c].version
  BY <1>0, Answered
<1>2. CASE UNCHANGED vars
  BY <1>0, <1>1, <1>2, QuietCall DEF CallInv, Executing, Committed, Waiting
<1>3. CASE Holds(c) /\ Complete(r, o)
  <2>1. /\ [Next]_vars
        /\ UNCHANGED <<awaiting, disposed, closing>>
        /\ \A q \in RequestId \ {r} : records'[q] = records[q]
        /\ \/ records'[r] = records[r]
           \/ /\ records[r].state = "in-flight"
              /\ records'[r].state = "terminal" /\ records'[r].result = o
    BY <1>0, <1>3, Completes
  <2>2. LedgerInv' /\ SdkTypes' /\ r' = r
    BY <1>0, <1>1, <2>1, InvStep DEF SdkTypes, quiet, Id
  <2>3. CallInv(c)'
    BY <1>0, <1>1 DEF CallInv, Holds, Executing, Committed, Waiting, quiet
  <2>4. RequestInv(r)'
    <3>1. CASE records'[r] = records[r]
      BY <1>0, <2>1, <2>2, <3>1, RequestStays DEF quiet
    <3>2. CASE records'[r].state = "terminal" /\ records'[r].result = o
      <4>1. ~Unused(r)'
        BY <2>2, <3>2 DEF Unused, HostInteractions, InState
      <4> QED BY <1>0, <1>3, <2>1, <2>2, <3>2, <4>1 DEF RequestInv, quiet
    <3> QED BY <2>1, <3>1, <3>2
  <2> QED BY <1>0, <1>1, <1>3, <2>1, <2>2, <2>3, <2>4, StepOfCall DEF quiet, SdkTypes
<1> QED BY <1>2, <1>3

(* A picker that has not started its mutation, or a plan that has not        *)
(* committed, has left no trace in the document.                             *)
LEMMA NoTraceYet ==
    ASSUME SdkInv, NEW c \in Call, Holds(c), call[c].pc \notin Committed
    PROVE  Id(c) \in RequestId /\ commits[Id(c)] = 0 /\ Id(c) \notin doc
  BY DEF SdkInv, SdkTypes, CallInv, RequestInv, Id

(* The outcomes the module names.                                            *)
LEMMA OutcomesDiffer ==
    /\ {Succeeded, Rejected, Cancelled} \subseteq Outcome
    /\ Succeeded # Rejected /\ Succeeded # Cancelled
    /\ Outcome \subseteq Answers /\ Indeterminate \in Answers
  BY CallAssumption DEF Answers

(* What the ledger says to a call that it does not admit.                    *)
LEMMA TurnedAwayStep ==
    ASSUME SdkInv, NEW c \in Call, UNCHANGED quiet, TurnedAway(c)
    PROVE  SdkInv'
<1>0. TypeOK /\ SdkTypes /\ CallInv(c) /\ Id(c) \in RequestId /\ "joined" \in Pc
  BY DEF SdkInv, LedgerInv, SdkTypes, Id, Pc
<1>1. \/ \E a \in Answers : Answer(c, a)
      \/ Becomes(c, "joined")
  <2>1. records[Id(c)].result \in Answers
    BY <1>0 DEF TypeOK, LedgerRecord, Answers
  <2> QED BY <2>1, OutcomesDiffer DEF TurnedAway
<1>2. /\ call' \in [Call -> CallState]
      /\ \A d \in Call \ {c} : call'[d] = call[d]
      /\ call'[c].pc \in {"answered", "joined"} /\ call'[c].version = call[c].version
  BY <1>0, <1>1, Answered, MovesOn
<1> QED
  BY <1>0, <1>2, QuietCall DEF TurnedAway, CallInv, Executing, Committed, Waiting

(* The steps before the scheduler's task runs.                               *)
LEMMA CallPlanStep ==
    ASSUME SdkInv, NEW c \in Call, UNCHANGED idOf, CallPlan(c)
    PROVE  SdkInv'
<1>0. SdkTypes /\ UNCHANGED quiet /\ ~IsPicker[c] /\ edits \in Nat
  BY DEF SdkInv, SdkTypes, CallPlan, quiet
<1>1. CASE TurnedAway(c)
  BY <1>0, <1>1, TurnedAwayStep
<1>2. CASE /\ call' = [call EXCEPT ![c].pc = "checking", ![c].version = edits]
           /\ UNCHANGED vars
  <2>1. /\ call' \in [Call -> CallState]
        /\ \A d \in Call \ {c} : call'[d] = call[d]
        /\ call'[c].pc = "checking" /\ call'[c].version = edits
    <3>1. call[c] \in CallState /\ "checking" \in Pc
      BY <1>0 DEF SdkTypes, Pc
    <3>2. [call[c] EXCEPT !.pc = "checking", !.version = edits] \in CallState
      BY <1>0, <3>1 DEF CallState
    <3>3. call' = [call EXCEPT ![c] = [call[c] EXCEPT !.pc = "checking", !.version = edits]]
      BY <1>2
    <3> QED BY <1>0, <3>1, <3>2, <3>3 DEF SdkTypes, CallState
  <2> QED BY <1>0, <1>2, <2>1, QuietCall DEF Executing, Committed
<1> QED BY <1>1, <1>2 DEF CallPlan

(* The call enters the scheduler's chain.                                    *)
LEMMA CheckPassesStep ==
    ASSUME SdkInv, NEW c \in Call, UNCHANGED idOf, CheckPasses(c)
    PROVE  SdkInv'
<1>0. SdkTypes /\ CallInv(c) /\ "queued" \in Pc /\ UNCHANGED <<vars, quiet>>
  BY DEF SdkInv, Pc, CheckPasses, quiet
<1>1. /\ call' \in [Call -> CallState]
      /\ \A d \in Call \ {c} : call'[d] = call[d]
      /\ call'[c].pc = "queued" /\ call'[c].version = call[c].version
  BY <1>0, MovesOn DEF CheckPasses
<1> QED
  BY <1>0, <1>1, QuietCall DEF CheckPasses, CallInv, Executing, Committed, Waiting

(* A picker's completion before its mutation, or any rejection, is true.     *)
LEMMA CompleteReservationStep ==
    ASSUME SdkInv, NEW c \in Call, NEW o \in {Rejected, Cancelled}, UNCHANGED quiet,
           CompleteReservation(c, o), Holds(c), call[c].pc \notin Committed
    PROVE  SdkInv'
<1>1. Answer(c, o) /\ (UNCHANGED vars \/ Complete(Id(c), o))
  BY DEF CompleteReservation
<1>2. o \in Outcome /\ o \in Answers /\ o # Succeeded
  BY OutcomesDiffer
<1>3. Id(c) \notin doc
  BY NoTraceYet
<1> QED BY <1>1, <1>2, <1>3, AnswerStep

(* A check or a pick that fails, and a pick that succeeds.                   *)
LEMMA BeforeTheTask ==
    ASSUME SdkInv, NEW c \in Call, UNCHANGED idOf,
           CheckFails(c) \/ PickFails(c) \/ Picked(c) \/ StartPickedRefused(c)
    PROVE  SdkInv'
<1>0. SdkTypes /\ CallInv(c) /\ "checking" \in Pc /\ UNCHANGED quiet
  BY DEF SdkInv, Pc, CheckFails, PickFails, Picked, StartPickedRefused, quiet
<1>p. IsPicker[c] /\ call[c].pc \in Waiting => Holds(c) /\ call[c].pc \notin Committed
  BY DEF Holds, Waiting, Committed
<1>1. CASE CheckFails(c)
  <2>1. CASE IsPicker[c]
    BY <1>0, <1>1, <1>p, <2>1, CompleteReservationStep DEF CheckFails, Waiting
  <2>2. CASE ~IsPicker[c]
    <3>1. UNCHANGED vars /\ Answer(c, Rejected) /\ ~Holds(c)
      BY <1>1, <2>2 DEF CheckFails, Holds, Executing, Committed
    <3> QED BY <1>0, <3>1, OutcomesDiffer, AnswerStep
  <2> QED BY <2>1, <2>2
<1>2. CASE ~CheckFails(c) /\ IsPicker[c] /\ call[c].pc \in Waiting
  <2>1. CASE \E o \in {Cancelled, Rejected} : CompleteReservation(c, o)
    BY <1>0, <1>2, <1>p, <2>1, CompleteReservationStep
  <2>2. CASE Becomes(c, "checking") /\ UNCHANGED vars
    <3>1. /\ call' \in [Call -> CallState]
          /\ \A d \in Call \ {c} : call'[d] = call[d]
          /\ call'[c].pc = "checking" /\ call'[c].version = call[c].version
      BY <1>0, <2>2, MovesOn
    <3> QED
      BY <1>0, <1>2, <2>2, <3>1, QuietCall DEF CallInv, Executing, Committed
  <2> QED BY <1>2, <2>1, <2>2 DEF PickFails, Picked, StartPickedRefused
<1>3. ASSUME ~CheckFails(c) PROVE IsPicker[c] /\ call[c].pc \in Waiting
  BY <1>0, <1>3 DEF CallInv, PickFails, Picked, StartPickedRefused, Waiting
<1> QED BY <1>1, <1>2, <1>3

(* A call that is turned away in the task, or waited for another's promise.  *)
LEMMA AnsweredWithout ==
    ASSUME SdkInv, NEW c \in Call, UNCHANGED idOf, StartRefused(c) \/ JoinedAnswer(c)
    PROVE  SdkInv'
<1>0. TypeOK /\ SdkTypes /\ UNCHANGED quiet /\ Id(c) \in RequestId
  BY DEF SdkInv, LedgerInv, SdkTypes, StartRefused, JoinedAnswer, quiet, Id
<1>1. ~Holds(c)
  BY DEF StartRefused, JoinedAnswer, Holds, Executing, Committed, Waiting
<1>2. CASE StartRefused(c)
  BY <1>0, <1>1, <1>2, TurnedAwayStep, AnswerStep, OutcomesDiffer DEF StartRefused
<1>3. CASE JoinedAnswer(c)
  <2>1. promise[Id(c)] \in Answers
    BY <1>0, <1>3 DEF JoinedAnswer, TypeOK, Answers
  <2> QED BY <1>0, <1>1, <1>3, <2>1, AnswerStep, OutcomesDiffer DEF JoinedAnswer
<1> QED BY <1>2, <1>3

(* The reservations that make a call the holder of its request.              *)
LEMMA ReserveStep ==
    ASSUME SdkInv, NEW c \in Call, NEW p \in Payload, NEW b \in BOOLEAN,
           UNCHANGED quiet, ReserveInternal(Id(c), p, b),
           call' \in [Call -> CallState],
           \A d \in Call \ {c} : call'[d] = call[d],
           call'[c].version <= edits,
           \/ ~b /\ call'[c].pc = "planning" /\ call'[c].before = doc
           \/ b /\ IsPicker[c] /\ call'[c].pc = "picking"
    PROVE  SdkInv'
<1> DEFINE r == Id(c)
<1>0. /\ LedgerInv /\ TypeOK /\ SdkTypes /\ CallInv(c) /\ RequestInv(r) /\ r \in RequestId
  BY DEF SdkInv, SdkTypes, Id, LedgerInv
<1>1. /\ [Next]_vars /\ Open /\ records[r].state = "absent"
      /\ UNCHANGED <<awaiting, disposed, closing>>
      /\ \A q \in RequestId \ {r} : records'[q] = records[q]
      /\ records'[r].state = "in-flight"
      /\ records'[r].phase = IF b THEN "host-interaction" ELSE "mutation"
  BY <1>0, Reserves
<1>2. LedgerInv' /\ SdkTypes' /\ r' = r
  BY <1>0, <1>1, InvStep DEF SdkTypes, quiet, Id
<1>3. commits[r] = 0 /\ r \notin doc /\ r \notin awaiting
  <2>1. Unused(r)
    BY <1>1 DEF Unused, Open
  <2> QED BY <1>0, <1>1, <2>1 DEF RequestInv, LedgerInv, AwaitingIsUnresolved
<1>4. CallInv(c)'
  <2>1. ~b => r \in InFlightMutation'
    BY <1>0, <1>1 DEF InFlightMutation, InState
  <2> QED
    BY <1>0, <1>1, <1>2, <1>3, <2>1
    DEF CallInv, Executing, Committed, quiet
<1>5. RequestInv(r)'
  BY <1>0, <1>1, <1>2, <1>3 DEF RequestInv, quiet
<1> QED BY <1>0, <1>1, <1>2, <1>4, <1>5, StepOfCall DEF quiet, SdkTypes

(* A picker takes its request before it opens.                               *)
LEMMA PickStartStep ==
    ASSUME SdkInv, NEW c \in Call, UNCHANGED idOf, PickStart(c)
    PROVE  SdkInv'
<1>0. SdkTypes /\ CallInv(c) /\ UNCHANGED quiet /\ IsPicker[c] /\ "picking" \in Pc
  BY DEF SdkInv, PickStart, quiet, Pc
<1>1. CASE NoRoom(c) /\ Answer(c, Rejected) /\ UNCHANGED vars
  <2>1. ~Holds(c)
    BY DEF PickStart, Holds, Executing, Committed, Waiting
  <2> QED BY <1>0, <1>1, <2>1, AnswerStep, OutcomesDiffer
<1>2. CASE ReserveComposite(Id(c), PayloadOf(c)) /\ Becomes(c, "picking")
  <2>1. /\ call' \in [Call -> CallState]
        /\ \A d \in Call \ {c} : call'[d] = call[d]
        /\ call'[c].pc = "picking" /\ call'[c].version = call[c].version
    BY <1>0, <1>2, MovesOn
  <2>2. PayloadOf(c) \in Payload /\ ReserveInternal(Id(c), PayloadOf(c), TRUE)
    BY <1>2, CallAssumption DEF PayloadOf, ReserveComposite
  <2> QED BY <1>0, <2>1, <2>2, ReserveStep DEF CallInv
<1> QED BY <1>0, <1>1, <1>2, TurnedAwayStep DEF PickStart

(* A plan takes its request when its task runs.                              *)
LEMMA StartPlanStep ==
    ASSUME SdkInv, NEW c \in Call, UNCHANGED idOf, StartPlan(c)
    PROVE  SdkInv'
<1>0. SdkTypes /\ CallInv(c) /\ UNCHANGED quiet /\ "planning" \in Pc /\ doc \in SUBSET Marks
  BY DEF SdkInv, SdkTypes, StartPlan, quiet, Pc
<1>1. /\ call' \in [Call -> CallState]
      /\ \A d \in Call \ {c} : call'[d] = call[d]
      /\ call'[c].pc = "planning" /\ call'[c].version = call[c].version
      /\ call'[c].before = doc
  <2>1. call[c] \in CallState
    BY <1>0 DEF SdkTypes
  <2>2. [call[c] EXCEPT !.pc = "planning", !.before = doc] \in CallState
    BY <1>0, <2>1 DEF CallState
  <2>3. call' = [call EXCEPT ![c] = [call[c] EXCEPT !.pc = "planning", !.before = doc]]
    BY DEF StartPlan
  <2> QED BY <1>0, <2>1, <2>2, <2>3 DEF SdkTypes, CallState
<1>2. PayloadOf(c) \in Payload /\ ReserveInternal(Id(c), PayloadOf(c), FALSE)
  BY CallAssumption DEF StartPlan, PayloadOf, Reserve
<1> QED BY <1>0, <1>1, <1>2, ReserveStep DEF CallInv

(* A picker turns its reservation into a mutation.                           *)
LEMMA StartPickedStep ==
    ASSUME SdkInv, NEW c \in Call, UNCHANGED idOf, StartPicked(c)
    PROVE  SdkInv'
<1> DEFINE r == Id(c)
<1>0. /\ LedgerInv /\ TypeOK /\ SdkTypes /\ CallInv(c) /\ RequestInv(r) /\ r \in RequestId
      /\ UNCHANGED quiet /\ Holds(c) /\ call[c].pc \notin Committed
  BY DEF SdkInv, SdkTypes, Id, LedgerInv, StartPicked, quiet, Holds, Waiting, Committed
<1>1. /\ call' \in [Call -> CallState]
      /\ \A d \in Call \ {c} : call'[d] = call[d]
      /\ call'[c].pc = "planning" /\ call'[c].version = edits /\ call'[c].before = doc
  <2>1. call[c] \in CallState /\ "planning" \in Pc /\ doc \in SUBSET Marks /\ edits \in Nat
    BY <1>0 DEF SdkTypes, Pc
  <2>2. [call[c] EXCEPT !.pc = "planning", !.before = doc, !.version = edits] \in CallState
    BY <2>1 DEF CallState
  <2>3. call' = [call EXCEPT ![c] =
                   [call[c] EXCEPT !.pc = "planning", !.before = doc, !.version = edits]]
    BY DEF StartPicked
  <2> QED BY <1>0, <2>1, <2>2, <2>3 DEF SdkTypes, CallState
<1>2. /\ records' = [records EXCEPT ![r] = [@ EXCEPT !.consumed = TRUE, !.phase = "mutation"]]
      /\ records[r].state = "in-flight" /\ UNCHANGED <<awaiting, disposed>> /\ [Next]_vars
  BY <1>0 DEF StartPicked, ConsumeCompositeReservation, Next
<1>3. /\ \A q \in RequestId \ {r} : records'[q] = records[q]
      /\ records'[r].state = "in-flight" /\ records'[r].phase = "mutation"
  <2>1. records \in [RequestId -> LedgerRecord]
    BY <1>0 DEF TypeOK
  <2> QED BY <1>0, <1>2, <2>1 DEF LedgerRecord
<1>4. LedgerInv' /\ SdkTypes' /\ r' = r
  BY <1>0, <1>1, <1>2, InvStep DEF SdkTypes, quiet, Id
<1>5. commits[r] = 0 /\ r \notin doc
  BY <1>0, NoTraceYet
<1>6. CallInv(c)'
  <2>1. r \in InFlightMutation' /\ edits <= edits
    BY <1>0, <1>3 DEF InFlightMutation, InState, SdkTypes
  <2> QED BY <1>0, <1>1, <1>3, <1>4, <1>5, <2>1 DEF CallInv, Executing, Committed, quiet
<1>7. RequestInv(r)'
  BY <1>0, <1>2, <1>3, <1>4, <1>5 DEF RequestInv, quiet
<1> QED BY <1>0, <1>1, <1>2, <1>3, <1>4, <1>6, <1>7, StepOfCall DEF quiet, SdkTypes

(* A reservation that is settled at once keeps the ledger's invariant.       *)
LEMMA SettledAtOnce ==
    ASSUME LedgerInv, NEW r \in RequestId, NEW p \in Payload,
           Open, records[r].state = "absent",
           records' = [records EXCEPT ![r] =
             [Absent EXCEPT !.state = "terminal", !.payload = p, !.result = Cancelled]],
           promise' = [promise EXCEPT ![r] = Cancelled],
           UNCHANGED <<tokens, minted, awaiting, closing, disposed, ticket, issued>>
    PROVE  LedgerInv' /\ records'[r].state = "terminal" /\ records'[r].result = Cancelled
<1>0. TypeOK /\ TokensMatchRecords /\ AwaitingIsUnresolved /\ NoJoinerIsForgotten
  BY DEF LedgerInv
<1>1. [Absent EXCEPT !.state = "terminal", !.payload = p, !.result = Cancelled] \in LedgerRecord
  BY LedgerAssumption DEF LedgerRecord, Absent, State, Phase, Token
<1>2. TypeOK'
  BY <1>0, <1>1, LedgerAssumption DEF TypeOK
<1>3. /\ records'[r].state = "terminal" /\ records'[r].token = 0
      /\ records'[r].result = Cancelled /\ promise'[r] = Cancelled
      /\ \A q \in RequestId \ {r} : records'[q] = records[q] /\ promise'[q] = promise[q]
  BY <1>0 DEF TypeOK, Absent
<1>4. ClosedMeansSettled'
  BY DEF ClosedMeansSettled, Open
<1>5. TokensMatchRecords' /\ AwaitingIsUnresolved' /\ NoJoinerIsForgotten'
  BY <1>0, <1>3, LedgerAssumption
  DEF TokensMatchRecords, AwaitingIsUnresolved, NoJoinerIsForgotten, TypeOK, Pending
<1> QED BY <1>2, <1>3, <1>4, <1>5 DEF LedgerInv

(* A plan that was aborted in the queue.                                     *)
LEMMA StartAbortedStep ==
    ASSUME SdkInv, NEW c \in Call, UNCHANGED idOf, StartAborted(c)
    PROVE  SdkInv'
<1> DEFINE r == Id(c)
<1>0. /\ LedgerInv /\ TypeOK /\ SdkTypes /\ CallInv(c) /\ RequestInv(r) /\ r \in RequestId
      /\ UNCHANGED quiet /\ UNCHANGED <<awaiting, disposed>>
      /\ Open /\ records[r].state = "absent"
  BY DEF SdkInv, SdkTypes, Id, LedgerInv, StartAborted, quiet
<1>1. /\ call' \in [Call -> CallState]
      /\ \A d \in Call \ {c} : call'[d] = call[d]
      /\ call'[c].pc = "answered" /\ call'[c].version = call[c].version
  BY <1>0, Answered, OutcomesDiffer DEF StartAborted
<1>2. LedgerInv' /\ records'[r].state = "terminal" /\ records'[r].result = Cancelled
  <2>1. PayloadOf(c) \in Payload
    BY CallAssumption DEF PayloadOf
  <2> QED BY <1>0, <2>1, SettledAtOnce DEF StartAborted
<1>3. \A q \in RequestId \ {r} : records'[q] = records[q]
  BY <1>0 DEF StartAborted, TypeOK
<1>4. SdkTypes' /\ r' = r
  BY <1>0, <1>1 DEF SdkTypes, quiet, Id
<1>5. CallInv(c)'
  BY <1>0, <1>1 DEF CallInv, Holds, Executing, Committed, Waiting, quiet
<1>6. RequestInv(r)'
  <2>1. Unused(r) /\ r \notin awaiting
    BY <1>0 DEF Unused, Open, LedgerInv, AwaitingIsUnresolved
  <2> QED
    BY <1>0, <1>2, <1>4, <2>1, OutcomesDiffer
    DEF RequestInv, Unused, HostInteractions, InState, quiet
<1> QED BY <1>0, <1>1, <1>2, <1>3, <1>4, <1>5, <1>6, StepOfCall DEF quiet, SdkTypes

-----------------------------------------------------------------------------
(* The steps of a mutation *)

(* finish() with a result that is true of the document.                      *)
LEMMA FinishStep ==
    ASSUME SdkInv, NEW c \in Call, NEW o \in Outcome, UNCHANGED quiet, Finish(c, o),
           call[c].pc \in Executing,
           IF o = Succeeded THEN commits[Id(c)] > 0 => Id(c) \in doc ELSE Id(c) \notin doc
    PROVE  SdkInv'
<1>1. Holds(c) /\ o \in Answers /\ Rejected \in Answers
  BY OutcomesDiffer DEF Holds
<1>2. \/ Complete(Id(c), o) /\ Answer(c, o)
      \/ UNCHANGED vars /\ Answer(c, Rejected)
  BY DEF Finish
<1> QED BY <1>1, <1>2, AnswerStep

(* A plan that is refused, or changes nothing.                               *)
LEMMA PlanEndsStep ==
    ASSUME SdkInv, NEW c \in Call, UNCHANGED idOf, PlanEnds(c) \/ PlanIsNoop(c)
    PROVE  SdkInv'
<1>1. /\ call[c].pc \in Executing /\ call[c].pc \notin Committed /\ Holds(c)
      /\ UNCHANGED quiet
  BY DEF PlanEnds, PlanIsNoop, Executing, Committed, Holds, quiet
<1>2. commits[Id(c)] = 0 /\ Id(c) \notin doc
  BY <1>1, NoTraceYet
<1>3. \E o \in {Rejected, Cancelled, Succeeded} : Finish(c, o)
  BY DEF PlanEnds, PlanIsNoop
<1> QED BY <1>1, <1>2, <1>3, FinishStep, OutcomesDiffer

(* A call that waits for its commit to settle, or is aborted, keeps its      *)
(* request.                                                                  *)
LEMMA KeepsItsRequest ==
    ASSUME SdkInv, NEW c \in Call, UNCHANGED <<vars, quiet>>,
           call' \in [Call -> CallState],
           \A d \in Call \ {c} : call'[d] = call[d],
           call'[c].version = call[c].version, call'[c].before = call[c].before,
           \/ call[c].pc = "settling" /\ call'[c].pc = "observing" /\ call'[c].seen = doc
           \/ ~IsPicker[c] /\ call'[c].pc = call[c].pc /\ call'[c].seen = call[c].seen
    PROVE  SdkInv'
<1>0. LedgerInv /\ SdkTypes /\ CallInv(c) /\ RequestInv(Id(c)) /\ Id(c) \in RequestId
  BY DEF SdkInv, SdkTypes, Id
<1>1. LedgerInv' /\ SdkTypes' /\ Id(c)' = Id(c) /\ edits <= edits
  BY <1>0, InvStep DEF SdkTypes, quiet, Id
<1>2. RequestInv(Id(c))'
  BY <1>0, <1>1, RequestStays DEF vars, quiet, Id
<1>3. /\ Id(c) \in InFlightMutation' <=> Id(c) \in InFlightMutation
      /\ Attempted(Id(c))' <=> Attempted(Id(c))
      /\ Holds(c)' <=> Holds(c)
  BY <1>1 DEF InFlightMutation, InState, Attempted, vars, quiet, Holds, Executing, Committed,
     Waiting
<1>4. CallInv(c)'
  BY <1>0, <1>1, <1>3 DEF CallInv, Executing, Committed, vars, quiet
<1>5. Holds(c) \/ ~Holds(c)'
  BY <1>3
<1> QED BY <1>0, <1>1, <1>2, <1>4, <1>5, StepOfCall DEF vars, quiet, SdkTypes

(* The receipt settles, or the caller aborts.                                *)
LEMMA SettleStep ==
    ASSUME SdkInv, NEW c \in Call, UNCHANGED idOf, Settle(c) \/ Abort(c)
    PROVE  SdkInv'
<1>0. /\ call \in [Call -> CallState] /\ call[c] \in CallState /\ doc \in SUBSET Marks
      /\ UNCHANGED <<vars, quiet>>
  BY DEF SdkInv, SdkTypes, Settle, Abort, quiet
<1>1. CASE Settle(c)
  <2>1. [call[c] EXCEPT !.pc = "observing", !.seen = doc] \in CallState
    BY <1>0 DEF CallState, Pc
  <2>2. call' = [call EXCEPT ![c] = [call[c] EXCEPT !.pc = "observing", !.seen = doc]]
    BY <1>1 DEF Settle
  <2> QED BY <1>0, <1>1, <2>1, <2>2, KeepsItsRequest DEF CallState, Settle
<1>2. CASE Abort(c)
  <2>1. [call[c] EXCEPT !.aborted = TRUE] \in CallState
    BY <1>0 DEF CallState
  <2>2. call' = [call EXCEPT ![c] = [call[c] EXCEPT !.aborted = TRUE]] /\ ~IsPicker[c]
    BY <1>2 DEF Abort
  <2> QED BY <1>0, <2>1, <2>2, KeepsItsRequest DEF CallState
<1> QED BY <1>1, <1>2

(* The live state after the commit decides the result.                       *)
LEMMA ObserveStep ==
    ASSUME SdkInv, NEW c \in Call, UNCHANGED idOf, Observe(c)
    PROVE  SdkInv'
<1> DEFINE r == Id(c)
<1>0. /\ LedgerInv /\ TypeOK /\ SdkTypes /\ CallInv(c) /\ RequestInv(r) /\ r \in RequestId
      /\ UNCHANGED quiet /\ call[c].pc = "observing" /\ call[c].pc \in Committed
      /\ call[c].pc \in Executing /\ Holds(c)
  BY DEF SdkInv, SdkTypes, Id, LedgerInv, Observe, quiet, Holds, Executing, Committed
<1>1. Attempted(r) /\ (r \in call[c].seen <=> r \in doc) /\ r \in InFlightMutation
  BY <1>0 DEF CallInv
<1>2. CASE call[c].seen = attempt[r].after /\ Finish(c, Succeeded)
  BY <1>0, <1>1, <1>2, FinishStep, OutcomesDiffer DEF Attempted
<1>3. CASE call[c].seen = attempt[r].before /\ Finish(c, Rejected)
  BY <1>0, <1>1, <1>3, FinishStep, OutcomesDiffer DEF Attempted
<1>4. CASE MarkIndeterminate(r) /\ Answer(c, Indeterminate)
  <2>1. /\ call' \in [Call -> CallState]
        /\ \A d \in Call \ {c} : call'[d] = call[d]
        /\ call'[c].pc = "answered" /\ call'[c].version = call[c].version
    BY <1>0, <1>4, Answered, OutcomesDiffer
  <2>2. /\ [Next]_vars /\ UNCHANGED <<awaiting, disposed, closing>>
        /\ \A q \in RequestId \ {r} : records'[q] = records[q]
        /\ records'[r].state = "indeterminate"
    BY <1>0, <1>4, BecomesIndeterminate
  <2>3. LedgerInv' /\ SdkTypes' /\ r' = r
    BY <1>0, <2>1, <2>2, InvStep DEF SdkTypes, quiet, Id
  <2>4. CallInv(c)'
    BY <1>0, <2>1 DEF CallInv, Holds, Executing, Committed, Waiting, quiet
  <2>5. RequestInv(r)'
    BY <1>0, <1>1, <2>2, <2>3
    DEF RequestInv, Unused, HostInteractions, InState, Attempted, quiet
  <2> QED BY <1>0, <2>1, <2>2, <2>3, <2>4, <2>5, StepOfCall DEF quiet, SdkTypes
<1> QED BY <1>2, <1>3, <1>4 DEF Observe

(* The commit: the final guard makes sure that the plan was made of the      *)
(* document as it is, so nothing is lost and only the request's marks come.  *)
LEMMA CommitEffect ==
    ASSUME SdkInv, NEW c \in Call, UNCHANGED idOf, Commit(c)
    PROVE  /\ Id(c) \in RequestId /\ Id(c) \in InFlightMutation /\ Open
           /\ commits[Id(c)] = 0 /\ Id(c) \notin doc /\ Holds(c)
           /\ doc' \in SUBSET Marks /\ edits' \in Nat /\ edits <= edits'
           /\ edits' = edits => doc' = doc
           /\ doc \subseteq doc'
           /\ \A q \in RequestId \ {Id(c)} : q \in doc' <=> q \in doc
           /\ commits' = [commits EXCEPT ![Id(c)] = 1]
           /\ attempt' = [attempt EXCEPT ![Id(c)] = [before |-> doc, after |-> doc \cup {Id(c)}]]
<1>0. /\ LedgerInv /\ SdkTypes /\ CallInv(c) /\ RequestInv(Id(c)) /\ Id(c) \in RequestId
      /\ call[c].pc = "planning" /\ call[c].pc \in Executing /\ call[c].pc \notin Committed
  BY DEF SdkInv, SdkTypes, Id, Commit, Executing, Committed
<1>1. Holds(c) /\ commits[Id(c)] = 0 /\ Id(c) \notin doc /\ Id(c) \in InFlightMutation
  BY <1>0 DEF Holds, CallInv, RequestInv
<1>2. Open
  BY <1>0, <1>1 DEF LedgerInv, ClosedMeansSettled, Open
<1>3. call[c].before = doc
  BY <1>0 DEF Commit, FinalGuard, CallInv
<1>4. \/ doc' = doc \cup {Id(c)} /\ edits' = edits + 1
      \/ doc' = doc \cup {Id(c)} \cup {Rewritten(Id(c))} /\ edits' = edits + 1
      \/ UNCHANGED <<doc, edits>>
  BY <1>3 DEF Commit, Written
<1>5. /\ \A q \in RequestId : q # Rewritten(Id(c))
      /\ Id(c) \in Marks /\ Rewritten(Id(c)) \in Marks
  BY <1>0, CallAssumption DEF Marks
<1>6. doc \in SUBSET Marks /\ edits \in Nat
  BY <1>0 DEF SdkTypes
<1>7. /\ doc' \in SUBSET Marks /\ doc \subseteq doc'
      /\ \A q \in RequestId \ {Id(c)} : q \in doc' <=> q \in doc
  BY <1>4, <1>5, <1>6
<1>8. edits' \in Nat /\ edits <= edits' /\ (edits' = edits => doc' = doc)
  BY <1>4, <1>6
<1>9. commits' = [commits EXCEPT ![Id(c)] = 1]
  BY <1>1 DEF Commit
<1>10. attempt' = [attempt EXCEPT ![Id(c)] = [before |-> doc, after |-> doc \cup {Id(c)}]]
  BY <1>3 DEF Commit, Written
<1> QED BY <1>0, <1>1, <1>2, <1>7, <1>8, <1>9, <1>10

(* After the commit its effect is known from the attempt.                    *)
LEMMA CommitStep ==
    ASSUME SdkInv, NEW c \in Call, UNCHANGED idOf, Commit(c)
    PROVE  SdkInv'
<1> DEFINE r == Id(c)
<1>0. /\ LedgerInv /\ TypeOK /\ SdkTypes /\ CallInv(c) /\ RequestInv(r) /\ r' = r
      /\ UNCHANGED probe
  BY DEF SdkInv, SdkTypes, LedgerInv, Id, Commit
<1>1. /\ r \in RequestId /\ r \in InFlightMutation /\ Open
      /\ commits[r] = 0 /\ r \notin doc /\ Holds(c)
      /\ doc' \in SUBSET Marks /\ edits' \in Nat /\ edits <= edits'
      /\ edits' = edits => doc' = doc
      /\ \A q \in RequestId \ {r} : q \in doc' <=> q \in doc
      /\ commits' = [commits EXCEPT ![r] = 1]
      /\ attempt' = [attempt EXCEPT ![r] = [before |-> doc, after |-> doc \cup {r}]]
  BY CommitEffect
<1>2. /\ \A q \in RequestId \ {r} : commits'[q] = commits[q] /\ attempt'[q] = attempt[q]
      /\ commits'[r] = 1 /\ Attempted(r)'
      /\ commits' \in [RequestId -> Nat] /\ attempt' \in [RequestId -> Attempt]
  <2>1. r \in Marks
    BY <1>1 DEF Marks
  <2>2. doc \in SUBSET Marks /\ commits \in [RequestId -> Nat] /\ attempt \in [RequestId -> Attempt]
    BY <1>0 DEF SdkTypes
  <2>3. [before |-> doc, after |-> doc \cup {r}] \in Attempt
    BY <2>1, <2>2 DEF Attempt
  <2> QED BY <1>0, <1>1, <2>2, <2>3 DEF Attempted
<1>3. records[r].state = "in-flight" /\ records[r].phase = "mutation" /\ r \notin awaiting
  BY <1>0, <1>1 DEF InFlightMutation, InState, LedgerInv, AwaitingIsUnresolved
<1>4. /\ call' \in [Call -> CallState]
      /\ \A d \in Call \ {c} : call'[d] = call[d]
      /\ call'[c].version = call[c].version
      /\ \/ call'[c].pc = "settling" /\ UNCHANGED vars
         \/ call'[c].pc = "observing" /\ call'[c].seen = doc' /\ UNCHANGED vars
         \/ call'[c].pc = "answered" /\ MarkIndeterminate(r)
  <2>1. CASE Becomes(c, "settling") /\ UNCHANGED vars
    <3>1. "settling" \in Pc
      BY DEF Pc
    <3> QED BY <1>0, <2>1, <3>1, MovesOn
  <2>2. CASE call' = [call EXCEPT ![c].pc = "observing", ![c].seen = doc'] /\ UNCHANGED vars
    <3>1. call \in [Call -> CallState] /\ call[c] \in CallState /\ "observing" \in Pc
      BY <1>0 DEF SdkTypes, Pc
    <3>2. [call[c] EXCEPT !.pc = "observing", !.seen = doc'] \in CallState
      BY <1>1, <3>1 DEF CallState
    <3>3. call' = [call EXCEPT ![c] = [call[c] EXCEPT !.pc = "observing", !.seen = doc']]
      BY <2>2
    <3> QED BY <2>2, <3>1, <3>2, <3>3 DEF CallState
  <2>3. CASE MarkIndeterminate(r) /\ Answer(c, Indeterminate)
    BY <1>0, <2>3, Answered, OutcomesDiffer
  <2> QED BY <2>1, <2>2, <2>3 DEF Commit
<1>5. SdkTypes'
  BY <1>0, <1>1, <1>2, <1>4 DEF SdkTypes
<1>6. CASE UNCHANGED vars
  <2>1. LedgerInv' /\ UNCHANGED <<records, awaiting, disposed>> /\ call'[c].pc # "answered"
    <3>1. UNCHANGED <<records, awaiting, disposed>> /\ LedgerInv'
      BY <1>0, <1>6, InvStep DEF vars
    <3>2. ~MarkIndeterminate(r)
      <4>1. CASE MarkIndeterminate(r)
        BY <1>0, <1>1, <1>3, <3>1, <4>1, BecomesIndeterminate
      <4> QED BY <4>1
    <3> QED BY <1>4, <3>1, <3>2
  <2>2. call'[c].pc \in Committed
    BY <1>4, <2>1 DEF Committed
  <2>3. r \in InFlightMutation'
    BY <1>1, <2>1 DEF InFlightMutation, InState
  <2>4. CallInv(c)'
    <3>1. call'[c].version <= edits'
      BY <1>0, <1>1, <1>4 DEF CallInv, SdkTypes, CallState
    <3>2. call'[c].pc \notin {"planning", "picking"}
      BY <2>2 DEF Committed
    <3>3. call'[c].pc = "observing" => call'[c].seen = doc'
      BY <1>4, <2>1
    <3> QED BY <1>0, <1>2, <1>3, <2>1, <2>2, <2>3, <3>1, <3>2, <3>3 DEF CallInv
  <2>5. RequestInv(r)'
    <3>1. ~Unused(r)'
      BY <1>0, <1>3, <2>1 DEF Unused, HostInteractions, InState
    <3> QED BY <1>0, <1>2, <1>3, <2>1, <3>1 DEF RequestInv
  <2> QED BY <1>0, <1>1, <1>2, <1>4, <1>5, <2>1, <2>4, <2>5, StepOfCall
<1>7. CASE call'[c].pc = "answered" /\ MarkIndeterminate(r)
  <2>1. /\ [Next]_vars /\ UNCHANGED <<awaiting, disposed, closing>>
        /\ \A q \in RequestId \ {r} : records'[q] = records[q]
        /\ records'[r].state = "indeterminate"
    BY <1>0, <1>1, <1>7, BecomesIndeterminate
  <2>2. LedgerInv'
    BY <1>0, <2>1, InvStep
  <2>3. CallInv(c)'
    <3>1. call'[c].version <= edits'
      BY <1>0, <1>1, <1>4 DEF CallInv, SdkTypes, CallState
    <3> QED BY <1>7, <3>1 DEF CallInv, Holds, Executing, Committed, Waiting
  <2>4. RequestInv(r)'
    BY <1>0, <1>2, <1>3, <2>1 DEF RequestInv, Unused, HostInteractions, InState
  <2> QED BY <1>0, <1>1, <1>2, <1>4, <1>5, <2>1, <2>2, <2>3, <2>4, StepOfCall
<1> QED BY <1>4, <1>6, <1>7

-----------------------------------------------------------------------------
(* Reconciliation, disposal, and the person *)

(* A step of the ledger for one request, with no call taking part: the       *)
(* request is not being executed.                                            *)
LEMMA StepOfLedger ==
    ASSUME SdkInv, NEW r \in RequestId,
           UNCHANGED <<idOf, call, doc, edits, attempt, commits, disposed>>,
           LedgerInv', probe' \in [RequestId -> SUBSET Marks],
           records[r].state = "indeterminate", records'[r].state # "absent",
           \A q \in RequestId \ {r} :
             /\ records'[q] = records[q] /\ probe'[q] = probe[q]
             /\ q \in awaiting' <=> q \in awaiting,
           RequestInv(r)'
    PROVE  SdkInv'
<1>0. /\ SdkTypes /\ OneHolder /\ \A d \in Call : CallInv(d) /\ Id(d) \in RequestId
      /\ \A q \in RequestId : RequestInv(q)
  BY DEF SdkInv, SdkTypes, Id
<1>1. SdkTypes' /\ OneHolder' /\ edits \in Nat /\ edits <= edits
  BY <1>0 DEF SdkTypes, OneHolder, Holds, Id
<1>2. ASSUME NEW d \in Call PROVE CallInv(d)'
  <2>1. CASE Id(d) # r
    BY <1>0, <1>1, <2>1, CallStays
  <2>2. CASE Id(d) = r
    <3>1. call[d].pc \notin Executing
      BY <1>0, <2>2 DEF CallInv, InFlightMutation, InState
    <3> QED
      BY <1>0, <2>2, <3>1 DEF CallInv, Holds, Id, Executing, Committed
  <2> QED BY <2>1, <2>2
<1>3. \A q \in RequestId : RequestInv(q)'
  <2> SUFFICES ASSUME NEW q \in RequestId, q # r PROVE RequestInv(q)'
    OBVIOUS
  <2> QED BY <1>0, RequestStays
<1> QED BY <1>1, <1>2, <1>3 DEF SdkInv

(* A reconcile reads the live state.                                         *)
LEMMA ReconcileStartStep ==
    ASSUME SdkInv, NEW t \in Token, UNCHANGED idOf, ReconcileStart(t)
    PROVE  SdkInv'
<1> DEFINE r == tokens[t]
<1>0. LedgerInv /\ TypeOK /\ SdkTypes /\ ReconcileBegin(t)
  BY DEF SdkInv, LedgerInv, ReconcileStart
<1>1. /\ r \in RequestId /\ records[r].state = "indeterminate"
      /\ records' = [records EXCEPT ![r] = TokenSpent(records[r], t)]
      /\ awaiting' = awaiting \cup {r} /\ UNCHANGED disposed
  BY <1>0 DEF ReconcileBegin, TypeOK
<1>2. /\ records'[r].state = "indeterminate" /\ records'[r].result = records[r].result
      /\ \A q \in RequestId \ {r} : records'[q] = records[q]
  BY <1>0, <1>1 DEF TokenSpent, TypeOK, LedgerRecord
<1>3. LedgerInv'
  BY <1>0, InvStep DEF Next
<1>4. RequestInv(r)
  BY <1>1 DEF SdkInv
<1>5. probe' = [probe EXCEPT ![r] = doc] /\ UNCHANGED <<call, doc, edits, attempt, commits>>
  BY DEF ReconcileStart
<1>6. /\ probe'[r] = doc /\ probe' \in [RequestId -> SUBSET Marks]
      /\ \A q \in RequestId \ {r} : probe'[q] = probe[q]
  BY <1>0, <1>1, <1>5 DEF SdkTypes
<1>7. /\ commits[r] <= 1 /\ (commits[r] = 0 => r \notin doc) /\ Attempted(r)
  BY <1>1, <1>4 DEF RequestInv
<1>8. \A q \in RequestId : q = r =>
        /\ records'[q].state = "indeterminate" /\ probe'[q] = doc
        /\ commits'[q] = commits[q] /\ attempt'[q] = attempt[q] /\ doc' = doc
  BY <1>2, <1>5, <1>6
<1>9. \A q \in RequestId : q = r => RequestInv(q)'
  BY <1>7, <1>8 DEF RequestInv, Unused, HostInteractions, InState, Attempted
<1>10. PICK q \in RequestId : q = r
  BY <1>1
<1>11. /\ RequestInv(q)' /\ records[q].state = "indeterminate" /\ records'[q].state # "absent"
       /\ \A p \in RequestId \ {q} :
             /\ records'[p] = records[p] /\ probe'[p] = probe[p]
             /\ p \in awaiting' <=> p \in awaiting
  BY <1>1, <1>2, <1>6, <1>9, <1>10
<1> HIDE DEF r
<1> QED BY <1>1, <1>3, <1>5, <1>6, <1>10, <1>11, StepOfLedger

(* A reconcile decides by what it read, which still tells the effect.        *)
LEMMA ReconcileEndStep ==
    ASSUME SdkInv, NEW r \in RequestId, UNCHANGED idOf, ReconcileEnd(r)
    PROVE  SdkInv'
<1>0. LedgerInv /\ TypeOK /\ SdkTypes /\ RequestInv(r) /\ UNCHANGED mvars
  BY DEF SdkInv, LedgerInv, ReconcileEnd
<1>1. /\ r \in awaiting /\ awaiting' = awaiting \ {r} /\ UNCHANGED disposed
      /\ records[r].state = "indeterminate"
  BY <1>0 DEF ReconcileEnd, ReconcileSettle, ReconcileContinue, LedgerInv, AwaitingIsUnresolved
<1>2. LedgerInv'
  <2>1. Next
    BY OutcomesDiffer DEF ReconcileEnd, Next
  <2> QED BY <1>0, <2>1, InvStep
<1>3. \A q \in RequestId \ {r} : records'[q] = records[q]
  BY <1>0 DEF ReconcileEnd, ReconcileSettle, ReconcileContinue, TypeOK
<1>4. \/ records'[r].state = "indeterminate"
      \/ /\ records'[r].state = "terminal" /\ records'[r].result = Succeeded
         /\ probe[r] = attempt[r].after
      \/ /\ records'[r].state = "terminal" /\ records'[r].result = Rejected
         /\ probe[r] = attempt[r].before
  <2>1. records \in [RequestId -> LedgerRecord] /\ records[r] \in LedgerRecord
    BY <1>0 DEF TypeOK
  <2>2. ASSUME NEW o, ReconcileSettle(r, o)
        PROVE  records'[r].state = "terminal" /\ records'[r].result = o
    BY <2>1, <2>2 DEF ReconcileSettle, LedgerRecord
  <2>3. ASSUME ReconcileContinue(r)
        PROVE  records'[r].state = "indeterminate"
    BY <1>1, <2>1, <2>3 DEF ReconcileContinue, LedgerRecord
  <2> QED
    BY <2>2, <2>3 DEF ReconcileEnd
<1>5. Attempted(r) /\ (r \in probe[r] <=> r \in doc)
  BY <1>0, <1>1 DEF RequestInv
<1>6. UNCHANGED <<doc, attempt, commits, probe>>
  BY <1>0 DEF mvars
<1>7. RequestInv(r)'
  BY <1>0, <1>1, <1>4, <1>5, <1>6, OutcomesDiffer
  DEF RequestInv, Unused, HostInteractions, InState, Attempted
<1> QED
  BY <1>0, <1>1, <1>2, <1>3, <1>4, <1>7, StepOfLedger DEF mvars, SdkTypes

(* A step that changes nothing a call or a request depends on.               *)
LEMMA NothingSeen ==
    ASSUME SdkInv, LedgerInv', UNCHANGED <<mvars, records, awaiting, disposed>>
    PROVE  SdkInv'
<1>0. /\ SdkTypes /\ OneHolder /\ \A d \in Call : CallInv(d) /\ Id(d) \in RequestId
      /\ \A q \in RequestId : RequestInv(q)
  BY DEF SdkInv, SdkTypes, Id
<1>1. SdkTypes' /\ OneHolder' /\ edits \in Nat /\ edits <= edits
  BY <1>0 DEF SdkTypes, OneHolder, Holds, Id, mvars
<1>2. \A d \in Call : CallInv(d)'
  BY <1>0, <1>1, CallStays DEF mvars
<1>3. \A q \in RequestId : RequestInv(q)'
  BY <1>0, RequestStays DEF mvars
<1> QED BY <1>1, <1>2, <1>3 DEF SdkInv

(* The pickers are ended and the ticket is given back, in one step.          *)
LEMMA EndedTogether ==
    ASSUME LedgerInv, closing, records' = HostInteractionsCancelled,
           promise' = PromisesCancelled, ticket' = 0, closing' = FALSE,
           UNCHANGED <<tokens, minted, awaiting, disposed, issued>>
    PROVE  /\ LedgerInv'
           /\ \A r \in RequestId :
                IF r \in HostInteractions
                THEN records'[r].state = "terminal" /\ records'[r].result = Cancelled
                ELSE records'[r] = records[r]
<1>0. TypeOK /\ TokensMatchRecords /\ AwaitingIsUnresolved /\ NoJoinerIsForgotten
  BY DEF LedgerInv
<1>1. /\ awaiting = {}
      /\ \A r \in RequestId :
           /\ records[r] \in LedgerRecord /\ records[r].state # "indeterminate"
           /\ records[r].state = "in-flight" => r \in HostInteractions
  BY <1>0, ClosedIsIdle DEF TypeOK
<1>2. \A r \in RequestId :
        /\ records'[r] \in LedgerRecord
        /\ r \in HostInteractions =>
             /\ records'[r].state = "terminal" /\ records'[r].result = Cancelled
             /\ records'[r].token = records[r].token
             /\ promise'[r] = Cancelled
        /\ r \notin HostInteractions =>
             records'[r] = records[r] /\ promise'[r] = promise[r]
  <2>1. \A r \in RequestId :
          [records[r] EXCEPT !.state = "terminal", !.result = Cancelled] \in LedgerRecord
    BY <1>1, LedgerAssumption DEF LedgerRecord, State
  <2> QED
    BY <1>1, <2>1 DEF HostInteractionsCancelled, PromisesCancelled, LedgerRecord
<1>3. TypeOK'
  <2>1. records' \in [RequestId -> LedgerRecord]
    BY <1>2 DEF HostInteractionsCancelled
  <2>2. promise' \in [RequestId -> Outcome \cup {None, Indeterminate, Pending}]
    BY <1>0, LedgerAssumption DEF PromisesCancelled, TypeOK
  <2>3. ticket' \in 0..MaxTickets
    BY LedgerAssumption
  <2>4. closing' \in BOOLEAN /\ disposed' \in BOOLEAN
    BY <1>0, Zenon DEF TypeOK
  <2> QED BY <1>0, <2>1, <2>2, <2>3, <2>4 DEF TypeOK
<1>4. \A r \in RequestId :
        /\ records'[r].state # "in-flight" /\ records'[r].state # "indeterminate"
        /\ records'[r].token = records[r].token
  BY <1>1, <1>2
<1>5. ClosedMeansSettled' /\ AwaitingIsUnresolved'
  BY <1>1, <1>4
  DEF ClosedMeansSettled, AwaitingIsUnresolved, InFlightMutation, HasIndeterminate, InState
<1>6. TokensMatchRecords'
  BY <1>0, <1>1, <1>4 DEF TokensMatchRecords, TypeOK
<1>7. NoJoinerIsForgotten'
  BY <1>0, <1>1, <1>2, LedgerAssumption DEF NoJoinerIsForgotten, Pending
<1> QED BY <1>2, <1>3, <1>5, <1>6, <1>7 DEF LedgerInv

(* While a disposal holds the ledger no call executes, so pickers may be     *)
(* ended and records dropped behind the calls' backs.                        *)
LEMMA DisposalStep ==
    ASSUME SdkInv, UNCHANGED idOf,
           DisposeStart \/ DisposeFails \/ DisposeHalfway \/ DisposeDone
    PROVE  SdkInv'
<1>0. /\ LedgerInv /\ TypeOK /\ SdkTypes /\ OneHolder /\ UNCHANGED mvars
      /\ \A d \in Call : CallInv(d) /\ Id(d) \in RequestId
      /\ \A q \in RequestId : RequestInv(q)
  BY DEF SdkInv, SdkTypes, Id, LedgerInv, DisposeStart, DisposeFails, DisposeHalfway, DisposeDone
<1>1. SdkTypes' /\ OneHolder'
  BY <1>0 DEF SdkTypes, OneHolder, Holds, Id, mvars
<1>2. ticket # 0 => ticket \in 1..MaxTickets
  BY <1>0 DEF TypeOK
<1>3. CASE DisposeStart \/ DisposeFails
  <2>1. Next /\ UNCHANGED <<records, awaiting, disposed>>
    BY <1>2, <1>3 DEF DisposeStart, DisposeFails, Next, BeginDisposal, CancelDisposal
  <2> QED BY <1>0, <2>1, InvStep, NothingSeen
<1>4. ASSUME closing
      PROVE  \A d \in Call : call[d].pc \notin Executing
  BY <1>0, <1>4 DEF LedgerInv, ClosedMeansSettled, CallInv
<1>5. CASE DisposeHalfway
  <2>1. closing /\ UNCHANGED <<awaiting, disposed>>
    BY <1>5 DEF DisposeHalfway, HoldsTicket
  <2>2. /\ LedgerInv'
        /\ \A r \in RequestId :
             IF r \in HostInteractions
             THEN records'[r].state = "terminal" /\ records'[r].result = Cancelled
             ELSE records'[r] = records[r]
    BY <1>0, <1>5, <2>1, EndedTogether DEF DisposeHalfway
  <2>3. \A d \in Call : CallInv(d)'
    <3> SUFFICES ASSUME NEW d \in Call PROVE CallInv(d)'
      OBVIOUS
    <3>1. /\ CallInv(d) /\ call[d].pc \notin Executing /\ call' = call /\ edits' = edits
          /\ commits' = commits /\ Id(d)' = Id(d) /\ Id(d) \in RequestId
          /\ Holds(d)' <=> Holds(d)
      BY <1>0, <1>4, <2>1 DEF mvars, Id, Holds
    <3>2. records'[Id(d)].state = "absent" => records[Id(d)].state = "absent"
      BY <2>2, <3>1
    <3> QED BY <2>1, <3>1, <3>2 DEF CallInv, Executing, Committed
  <2>4. \A r \in RequestId : RequestInv(r)'
    <3> SUFFICES ASSUME NEW r \in RequestId PROVE RequestInv(r)'
      OBVIOUS
    <3>1. CASE r \in HostInteractions
      <4>1. commits[r] = 0 /\ r \notin doc /\ r \notin awaiting
        BY <1>0, <2>1, <3>1, ClosedIsIdle DEF RequestInv, Unused
      <4>2. ~Unused(r)'
        BY <2>2, <3>1 DEF Unused, HostInteractions, InState
      <4> QED
        BY <1>0, <2>1, <2>2, <3>1, <4>1, <4>2, OutcomesDiffer DEF RequestInv, mvars
    <3>2. CASE r \notin HostInteractions
      BY <1>0, <2>1, <2>2, <3>2, RequestStays DEF mvars
    <3> QED BY <3>1, <3>2
  <2> QED BY <1>1, <2>2, <2>3, <2>4 DEF SdkInv
<1>6. CASE DisposeDone
  <2>1. Next /\ closing /\ disposed' /\ \A r \in RequestId : records'[r].state = "absent"
    BY <1>2, <1>6 DEF DisposeDone, Next, FinishDisposal, HoldsTicket, Absent
  <2>2. LedgerInv' /\ awaiting' = {}
    BY <1>0, <1>6, <2>1, InvStep, ClosedIsIdle DEF DisposeDone, FinishDisposal
  <2>3. \A d \in Call : CallInv(d)'
    <3> SUFFICES ASSUME NEW d \in Call PROVE CallInv(d)'
      OBVIOUS
    <3>1. /\ CallInv(d) /\ call[d].pc \notin Executing /\ call' = call /\ edits' = edits
          /\ commits' = commits /\ Id(d)' = Id(d)
          /\ Holds(d)' <=> Holds(d)
      BY <1>0, <1>4, <2>1 DEF mvars, Id, Holds
    <3> QED BY <2>1, <3>1 DEF CallInv, Executing, Committed
  <2>4. \A r \in RequestId : RequestInv(r)'
    BY <1>0, <2>1, <2>2 DEF RequestInv, Unused, HostInteractions, InState, mvars
  <2> QED BY <1>1, <2>2, <2>3, <2>4 DEF SdkInv
<1> QED BY <1>3, <1>5, <1>6

(* The person's edits are marks of their own.                                *)
LEMMA PersonStep ==
    ASSUME SdkInv, NEW e \in Edit, UNCHANGED idOf, PersonEdits(e)
    PROVE  SdkInv'
<1>0. /\ LedgerInv /\ SdkTypes /\ OneHolder /\ edits \in Nat
      /\ \A d \in Call : CallInv(d) /\ Id(d) \in RequestId
      /\ \A q \in RequestId : RequestInv(q)
  BY DEF SdkInv, SdkTypes, Id
<1>1. /\ doc' = doc \cup {e} /\ edits' = edits + 1
      /\ UNCHANGED <<vars, idOf, call, attempt, probe, commits>>
  BY DEF PersonEdits
<1>2. /\ \A r \in RequestId : r \in doc' <=> r \in doc
      /\ edits' \in Nat /\ edits <= edits' /\ edits' # edits
      /\ doc' \in SUBSET Marks
  BY <1>0, <1>1, CallAssumption DEF SdkTypes, Marks
<1>3. LedgerInv' /\ SdkTypes' /\ OneHolder'
  BY <1>0, <1>1, <1>2, InvStep DEF SdkTypes, OneHolder, Holds, Id
<1>4. \A d \in Call : CallInv(d)'
  BY <1>0, <1>1, <1>2, CallStays DEF vars
<1>5. \A q \in RequestId : RequestInv(q)'
  BY <1>0, <1>1, <1>2, RequestStays DEF vars
<1> QED BY <1>3, <1>4, <1>5 DEF SdkInv

-----------------------------------------------------------------------------
(* The invariant *)

(* It holds at the start, when nothing was called.                           *)
LEMMA SdkInit == MInit => SdkInv
<1> SUFFICES ASSUME MInit PROVE SdkInv
  OBVIOUS
<1>1. LedgerInv /\ Init
  BY InitInv DEF MInit
<1>2. InitCall \in CallState
  BY DEF InitCall, CallState, Pc, Answers
<1>3. SdkTypes
  BY <1>2, CallAssumption DEF MInit, SdkTypes, Attempt
<1>4. \A c \in Call : call[c].pc = "idle" /\ call[c].version = 0 /\ edits = 0
  BY DEF MInit, InitCall
<1>5. \A c \in Call : ~Holds(c) /\ CallInv(c)
  BY <1>4 DEF CallInv, Holds, Executing, Committed, Waiting
<1>6. \A r \in RequestId : RequestInv(r)
  BY <1>1 DEF MInit, Init, Absent, RequestInv
<1> QED BY <1>1, <1>3, <1>5, <1>6 DEF SdkInv, OneHolder

(* Every step keeps it.                                                      *)
LEMMA SdkStep == SdkInv /\ [MNext]_allVars => SdkInv'
<1> SUFFICES ASSUME SdkInv, [MNext]_allVars PROVE SdkInv'
  OBVIOUS
<1>1. ASSUME NEW c \in Call, UNCHANGED idOf,
             CallPlan(c) \/ PickStart(c) \/ Abort(c) \/ Proceeds(c)
      PROVE  SdkInv'
  BY <1>1, CallPlanStep, PickStartStep, SettleStep, BeforeTheTask, CheckPassesStep,
     StartPlanStep, StartAbortedStep, AnsweredWithout, StartPickedStep, PlanEndsStep,
     CommitStep, ObserveStep DEF Proceeds
<1>2. CASE UNCHANGED allVars
  <2>1. LedgerInv' /\ UNCHANGED <<mvars, records, awaiting, disposed>>
    BY <1>2, InvStep DEF SdkInv, allVars, vars
  <2> QED BY <2>1, NothingSeen
<1> QED
  BY <1>1, <1>2, ReconcileStartStep, ReconcileEndStep, DisposalStep, PersonStep DEF MNext

(* No behaviour of the mutations leaves the invariant.                       *)
THEOREM Invariant == MSpec => []SdkInv
<1> QED BY SdkInit, SdkStep, PTL DEF MSpec, MSafety

(* The host's commit runs at most once for a request id, however often it is *)
(* called, joined, retried or replayed.                                      *)
THEOREM AtMostOneCommit == MSpec => []CommitsAtMostOnce
<1>1. SdkInv => CommitsAtMostOnce
  BY DEF SdkInv, RequestInv, CommitsAtMostOnce
<1> QED BY <1>1, Invariant, PTL

(* What a request reports is what happened to the document.                  *)
THEOREM ResultsTellTheTruth == MSpec => []ResultsAreTrue
<1>1. SdkInv => ResultsAreTrue
  BY DEF SdkInv, RequestInv, ResultsAreTrue, InState
<1> QED BY <1>1, Invariant, PTL

(* Only a commit and the person change the document, and only a commit the   *)
(* count of commits.                                                         *)
LEMMA OnlyCommits ==
    ASSUME SdkInv, [MNext]_allVars
    PROVE  doc \subseteq doc' /\ (commits' # commits => Open)
<1>1. ASSUME NEW c \in Call, UNCHANGED idOf, Commit(c)
      PROVE  doc \subseteq doc' /\ Open
  BY <1>1, CommitEffect
<1>2. ASSUME NEW c \in Call,
             CallPlan(c) \/ PickStart(c) \/ Abort(c) \/ (Proceeds(c) /\ ~Commit(c))
      PROVE  UNCHANGED <<doc, commits>>
  BY <1>2 DEF CallPlan, PickStart, Abort, Proceeds, CheckFails, CheckPasses, PickFails, Picked,
     StartPlan, StartAborted, StartRefused, StartPicked, StartPickedRefused, PlanEnds,
     PlanIsNoop, Settle, Observe, JoinedAnswer
<1>3. ASSUME \/ \E t \in Token : ReconcileStart(t)
             \/ \E r \in RequestId : ReconcileEnd(r)
             \/ DisposeStart \/ DisposeFails \/ DisposeHalfway \/ DisposeDone
             \/ UNCHANGED allVars
      PROVE  UNCHANGED <<doc, commits>>
  BY <1>3 DEF ReconcileStart, ReconcileEnd, DisposeStart, DisposeFails, DisposeHalfway,
     DisposeDone, allVars, mvars
<1>4. ASSUME NEW e \in Edit, PersonEdits(e)
      PROVE  doc \subseteq doc' /\ UNCHANGED commits
  BY <1>4 DEF PersonEdits
<1> QED BY <1>1, <1>2, <1>3, <1>4 DEF MNext, Proceeds

(* No step removes anybody's change from the document.                       *)
THEOREM NothingIsOverwritten == MSpec => NoChangeIsLost
<1>1. SdkInv /\ [MNext]_allVars => [doc \subseteq doc']_allVars
  BY OnlyCommits
<1> QED BY <1>1, Invariant, PTL DEF MSpec, MSafety, NoChangeIsLost

(* No commit starts once the session is closing.                             *)
THEOREM ClosingStopsCommits == MSpec => NoCommitOnceClosing
<1>1. SdkInv /\ [MNext]_allVars => [commits' # commits => Open]_allVars
  BY OnlyCommits
<1> QED BY <1>1, Invariant, PTL DEF MSpec, MSafety, NoCommitOnceClosing
=============================================================================
