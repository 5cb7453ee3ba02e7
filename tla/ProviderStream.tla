---------------------------- MODULE ProviderStream ----------------------------
(***************************************************************************)
(* One call of provider::complete (agent/provider.rs): attempts at a       *)
(* streaming request, the fallback from Responses to Chat Completions, the *)
(* backoff between attempts, and the events of a stream put together into  *)
(* a text and tool calls, while what can be shown is shown at once.        *)
(*                                                                         *)
(* A provider sends a call in Fragments pieces: an item that is added and  *)
(* an item that is done, or only the latter (Responses), or deltas of its  *)
(* arguments, of which only the first names the call (Chat Completions),   *)
(* if the gateway gives names at all; an item without a name is known by   *)
(* its position, in each of its events anew.  The arguments parse when     *)
(* every piece has arrived.  Empty deltas, usage reports and events of     *)
(* other types change nothing here.                                        *)
(***************************************************************************)
EXTENDS Naturals, Sequences, FiniteSets, SequencesExt

CONSTANTS
    Index,          \* positions of calls in an answer
    Named,          \* the positions to which the gateway gives ids
    Loose,          \* the positions whose items may be done without being
                    \* added, or come under an id and without one
    Fragments,      \* pieces of a call
    MaxAttempts,    \* effective_max_attempts of the retry policy
    MaxText         \* bound: text deltas of an attempt

ASSUME StreamAssumption ==
    /\ Named \subseteq Index /\ Loose \subseteq Index
    /\ Fragments \in Nat \ {0, 1}
    /\ MaxAttempts \in Nat \ {0}
    /\ MaxText \in Nat

VARIABLES
    phase,          \* where complete is
    strategy, attempt,
    text,           \* the deltas of this attempt
    visible,        \* visible_progress of this attempt
    active,         \* active_tools: id -> pieces of its arguments
    toolIds,        \* chat_tool_ids: position -> id
    calls,          \* tool_calls
    result,         \* what complete returned
    cancelled,      \* the run's watch channel
    sent,           \* position -> pieces the provider has sent in this attempt
    cut,            \* ghost: a piece was passed over or came under another id,
                    \* or the stream ended early
    shown,          \* ghost: text deltas emitted since complete was called
    announced,      \* ghost: ids emitted as started or completed
    requests        \* ghost: requests sent

streamVars == <<text, visible, active, toolIds, calls, sent, cut>>
ghostVars == <<shown, announced, requests>>
vars == <<phase, strategy, attempt, streamVars, result, cancelled, ghostVars>>

None == <<>>                    \* no id
Id == Index \X {"given", "made", "indexed"}
Given(i) == <<i, "given">>
Made(i) == <<i, "made">>        \* chat-tool-{index}
Indexed(i) == <<i, "indexed">>  \* responses-tool-{output_index}

Pieces == {"word", "blank"}

\* The types of a call of complete and of the stream it reads.
TypeOK ==
    /\ phase \in {"check", "waiting", "streaming", "backoff", "done"}
    /\ strategy \in {"responses", "chat"}
    /\ attempt \in 1 .. MaxAttempts
    /\ text \in Seq(Pieces) /\ shown \in Seq(Pieces)
    /\ visible \in BOOLEAN /\ cancelled \in BOOLEAN /\ cut \in BOOLEAN
    /\ DOMAIN active \subseteq Id /\ active \in [DOMAIN active -> 0 .. Fragments]
    /\ toolIds \in [Index -> Id \cup {None}]
    /\ calls \in Seq([id : Id, whole : BOOLEAN])
    /\ result \in {"none", "ok", "failed", "cancelled"}
    /\ sent \in [Index -> 0 .. Fragments]
    /\ announced \subseteq Id
    /\ requests \in Nat

NoTools == [id \in {} |-> 0]

Init ==
    /\ phase = "check" /\ strategy = "responses" /\ attempt = 1
    /\ text = <<>> /\ visible = FALSE /\ active = NoTools
    /\ toolIds = [i \in Index |-> None] /\ calls = <<>>
    /\ result = "none" /\ cancelled \in BOOLEAN
    /\ sent = [i \in Index |-> 0] /\ cut = FALSE
    /\ shown = <<>> /\ announced = {} /\ requests = 0

-----------------------------------------------------------------------------
(* The loop of attempts *)

Return(r) == phase' = "done" /\ result' = r

(* The top of the loop: no attempt begins once the run is cancelled.         *)
Attempt ==
    /\ phase = "check"
    /\ IF cancelled
          THEN /\ Return("cancelled")
               /\ UNCHANGED <<streamVars, requests>>
          ELSE /\ phase' = "waiting" /\ requests' = requests + 1
               /\ text' = <<>> /\ visible' = FALSE /\ active' = NoTools
               /\ toolIds' = [i \in Index |-> None] /\ calls' = <<>>
               /\ sent' = [i \in Index |-> 0] /\ cut' = FALSE
               /\ UNCHANGED result
    /\ UNCHANGED <<strategy, attempt, cancelled, shown, announced>>

(* An attempt failed: try the other strategy, try again later, or give up.   *)
AttemptFails(retryable, unsupported) ==
    /\ IF unsupported /\ ~visible /\ strategy = "responses"
          THEN strategy' = "chat" /\ phase' = "check" /\ UNCHANGED result
          ELSE /\ UNCHANGED strategy
               /\ IF retryable /\ ~visible /\ attempt < MaxAttempts
                     THEN phase' = "backoff" /\ UNCHANGED result
                     ELSE Return("failed")
    /\ UNCHANGED <<attempt, streamVars, cancelled, ghostVars>>

BackoffOver ==
    /\ phase = "backoff"
    /\ phase' = "check" /\ attempt' = attempt + 1
    /\ UNCHANGED <<strategy, streamVars, result, cancelled, ghostVars>>

(* cancelled.changed() beside the request, the stream and the backoff.       *)
CancelSeen ==
    /\ cancelled /\ phase \in {"waiting", "streaming", "backoff"}
    /\ Return("cancelled")
    /\ UNCHANGED <<strategy, attempt, streamVars, cancelled, ghostVars>>

(* What the status of an answer says of the attempt (classify_http_failure,  *)
(* is_unsupported_responses_status): 501 is both a missing endpoint and      *)
(* worth a retry.                                                            *)
Status == {400, 401, 404, 405, 408, 429, 500, 501}
Retryable(status) == status \in {408, 429} \cup 500 .. 599
Unsupported(status, named) ==
    status \in {404, 405, 501} \/ (status = 400 /\ named)

HttpFails ==
    /\ phase = "waiting"
    /\ \E status \in Status, named \in BOOLEAN :
        AttemptFails(Retryable(status), Unsupported(status, named))

(* An answer that is no event stream.                                        *)
NotAStream == phase = "waiting" /\ AttemptFails(FALSE, TRUE)

Connected ==
    /\ phase = "waiting"
    /\ phase' = "streaming"
    /\ UNCHANGED <<strategy, attempt, streamVars, result, cancelled, ghostVars>>

-----------------------------------------------------------------------------
(* The events of a stream *)

Reading ==
    /\ phase = "streaming"
    /\ UNCHANGED <<phase, strategy, attempt, result, cancelled, requests>>

(* Text is kept and shown.                                                   *)
TextDelta(piece) ==
    /\ Reading
    /\ Len(text) < MaxText
    /\ text' = Append(text, piece) /\ shown' = Append(shown, piece)
    /\ visible' = TRUE
    /\ UNCHANGED <<active, toolIds, calls, sent, cut, announced>>

(* A summary of the model's reasoning is shown, and is no part of the text.  *)
ActivityDelta ==
    /\ Reading
    /\ visible' = TRUE
    /\ UNCHANGED <<text, active, toolIds, calls, sent, cut, shown, announced>>

ProviderSends(i) ==
    /\ sent[i] < Fragments
    /\ sent' = [sent EXCEPT ![i] = @ + 1]

(* A call that is new is announced.                                          *)
Announce(id) == announced' = IF id \in DOMAIN active THEN announced
                                                     ELSE announced \cup {id}

(* The id of an item of Responses: what the gateway gives, or its position.  *)
ItemId(i, named) == IF named THEN Given(i) ELSE Indexed(i)

MayCarry(i, named) == IF named THEN i \in Named ELSE i \in Loose \/ i \notin Named

(* Responses: an item that is a function call is added.                      *)
ToolStarted(i, named) ==
    /\ Reading /\ strategy = "responses"
    /\ MayCarry(i, named)
    /\ sent[i] = 0 /\ ProviderSends(i)
    /\ visible' = TRUE
    /\ LET id == ItemId(i, named) IN
        /\ Announce(id)
        /\ active' = [x \in DOMAIN active \cup {id} |->
                        IF x \in DOMAIN active THEN active[x] ELSE 0]
    /\ UNCHANGED <<text, toolIds, calls, cut, shown>>

(* Responses: the item is done, with all its arguments, whether or not it    *)
(* was added.  An entry under another id stays in the map.                   *)
ToolCompleted(i, named) ==
    /\ Reading /\ strategy = "responses"
    /\ MayCarry(i, named) /\ (sent[i] = 0 => i \in Loose)
    /\ sent[i] < Fragments
    /\ sent' = [sent EXCEPT ![i] = Fragments]
    /\ visible' = TRUE
    /\ LET id == ItemId(i, named) IN
        /\ active' = [x \in DOMAIN active \ {id} |-> active[x]]
        /\ calls' = Append(calls, [id |-> id, whole |-> TRUE])
        /\ announced' = announced \cup {id}
        /\ cut' = (cut \/ (sent[i] > 0 /\ id \notin DOMAIN active))
    /\ UNCHANGED <<text, toolIds, shown>>

(* Fault: a delta without an id is known by its position alone.              *)
CallByPosition(i, named) == IF named THEN Given(i) ELSE Made(i)

(* Chat Completions: a delta names its call, or belongs to the call that was *)
(* named at its position.                                                    *)
CallOf(i, named) ==
    IF named THEN Given(i)
    ELSE IF toolIds[i] # None THEN toolIds[i] ELSE Made(i)

ToolArgumentsDelta(i, named) ==
    /\ Reading /\ strategy = "chat"
    /\ named => i \in Named
    /\ sent[i] = 0 => (named <=> i \in Named)
    /\ ProviderSends(i)
    /\ visible' = TRUE
    /\ toolIds' = IF named THEN [toolIds EXCEPT ![i] = Given(i)] ELSE toolIds
    /\ LET call == CallOf(i, named) IN
        /\ Announce(call)
        /\ active' = [id \in DOMAIN active \cup {call} |->
                        (IF id \in DOMAIN active THEN active[id] ELSE 0)
                        + (IF id = call THEN 1 ELSE 0)]
    /\ UNCHANGED <<text, calls, cut, shown>>

(* Chat Completions: of an event with text and a call, or with two calls,    *)
(* only the first is read.                                                   *)
PassedOver(i) ==
    /\ phase = "streaming" /\ strategy = "chat"
    /\ ProviderSends(i)
    /\ cut' = TRUE
    /\ UNCHANGED <<phase, strategy, attempt, result, cancelled, text, visible,
                   active, toolIds, calls, ghostVars>>

(* An error event may be retried as long as nothing was shown.               *)
ErrorEvent == phase = "streaming" /\ AttemptFails(~visible, FALSE)

(* An event that does not parse.                                             *)
InvalidEvent == phase = "streaming" /\ AttemptFails(FALSE, ~visible)

(* There is no connection, it breaks, or the client's limits of 15 seconds   *)
(* to connect and 90 for everything are over.                                *)
TransportFails ==
    /\ phase \in {"waiting", "streaming"}
    /\ AttemptFails(TRUE, FALSE)

(* The turn's events cannot be delivered any more.                           *)
EmitFails ==
    /\ phase \in {"waiting", "streaming"}
    /\ Return("failed")
    /\ UNCHANGED <<strategy, attempt, streamVars, cancelled, ghostVars>>

(* The stream ends, whether or not the provider was done: calls that were    *)
(* not completed are taken out of the hash map in any order, with empty      *)
(* arguments when theirs do not parse.                                       *)
Parsed(id) == [id |-> id, whole |-> active[id] = Fragments]

(* Fault: only calls that were completed are returned.                       *)
StreamEndsWithDone(leftover) ==
    /\ phase = "streaming"
    /\ IF "word" \notin Range(text) /\ calls = <<>>
       THEN AttemptFails(FALSE, ~visible)
       ELSE /\ Return("ok")
            /\ cut' = (cut \/ \E i \in Index : sent[i] \in 1 .. Fragments - 1)
            /\ UNCHANGED <<strategy, attempt, text, visible, active, toolIds,
                           calls, sent, cancelled, ghostVars>>

StreamEnds(leftover) ==
    /\ phase = "streaming"
    /\ LET all == calls \o [n \in DOMAIN leftover |-> Parsed(leftover[n])] IN
        IF "word" \notin Range(text) /\ all = <<>>
        THEN AttemptFails(FALSE, ~visible)
        ELSE /\ Return("ok")
             /\ calls' = all
             /\ cut' = (cut \/ \E i \in Index : sent[i] \in 1 .. Fragments - 1)
             /\ UNCHANGED <<strategy, attempt, text, visible, active, toolIds,
                            sent, cancelled, ghostVars>>

-----------------------------------------------------------------------------
Cancel ==
    /\ ~cancelled
    /\ cancelled' = TRUE
    /\ UNCHANGED <<phase, strategy, attempt, streamVars, result, ghostVars>>

Event ==
    \/ \E piece \in Pieces : TextDelta(piece)
    \/ ActivityDelta
    \/ \E i \in Index :
        \/ PassedOver(i)
        \/ \E named \in BOOLEAN :
            ToolStarted(i, named) \/ ToolCompleted(i, named) \/ ToolArgumentsDelta(i, named)

Next ==
    \/ Attempt \/ BackoffOver \/ CancelSeen \/ HttpFails \/ NotAStream \/ Connected
    \/ Event \/ ErrorEvent \/ InvalidEvent \/ TransportFails \/ EmitFails
    \/ \E leftover \in SetToSeqs(DOMAIN active) : StreamEnds(leftover)
    \/ Cancel

Spec == Init /\ [][Next]_vars

-----------------------------------------------------------------------------
(* What must hold *)

(* What was shown is what this attempt has said, and in the end what is      *)
(* returned: nothing shown by an attempt that failed is said again by the    *)
(* next one (complete, the guards on visible_progress).                      *)
ShownIsSaid ==
    phase = "streaming" \/ result = "ok" => shown = text

(* No call of an answer is lost, torn or made twice.  A call that was        *)
(* announced is among those returned, also when the stream was cut: no tool  *)
(* item of the transcript waits for a call that is never made.  And of an    *)
(* answer that was read whole, and whose items kept their ids, every call is *)
(* returned once, with all its arguments, however its pieces are named and   *)
(* mixed with others.                                                        *)
AnnouncedCallsAreMade ==
    result = "ok" => announced \subseteq {calls[n].id : n \in DOMAIN calls}

CallsAreWhole ==
    result = "ok" /\ ~cut =>
        /\ \A n \in DOMAIN calls : calls[n].whole
        /\ Len(calls) = Cardinality({i \in Index : sent[i] > 0})
        /\ \A i \in Index : sent[i] > 0 =>
            \E n \in DOMAIN calls : calls[n].id[1] = i

CallsAreKept == AnnouncedCallsAreMade /\ CallsAreWhole

(* The retry policy bounds the requests: the fallback adds one at most.      *)
RequestsAreBounded == requests <= attempt + 1

(* Once the run is cancelled no request is sent, not after a backoff nor for *)
(* another strategy.                                                         *)
NoRequestOnceCancelled == [][cancelled => requests' = requests]_vars
=============================================================================
