--------------------------- MODULE TurnTranscript ---------------------------
(***************************************************************************)
(* What a turn leaves on the screen (agent/mod.rs): the events of Codex,   *)
(* or after it those of the rounds of Compatibility, each one a call of    *)
(* provider::complete, go through one NativeTurnEmitter, which makes them  *)
(* segments of text and one item for each tool call.                       *)
(*                                                                         *)
(* Plans, approvals, the activity and the error beside a failed call have  *)
(* items of their own, which nothing here depends on.  What decides about  *)
(* a call is in AgentTurn: here it succeeds, fails, is refused, or is lost *)
(* to a timeout.                                                           *)
(***************************************************************************)
EXTENDS ProviderStream

CONSTANTS
    CodexCall,      \* the calls Codex makes, which may be delivered twice
    MaxRounds,      \* policy.max_steps
    MaxItems,       \* bound: items of a transcript, before the last text
    MaxCalls        \* bound: results of the first round that is followed by
                    \* another, and one more in each round

ASSUME TranscriptAssumption ==
    MaxRounds \in Nat /\ MaxItems \in Nat /\ MaxCalls \in Nat

VARIABLES
    runtime,        \* who runs the turn, or how it ended
    at,             \* whether the runtime or a tool is awaited
    todo,           \* the calls that are to be executed
    round,          \* compatibility_tool_rounds
    progressed,     \* runtime_progressed
    items,          \* the transcript
    added,          \* assistant_added
    content,        \* assistant_content
    segment,        \* assistant_segment
    toolItems,      \* the keys of tool_items
    said,           \* ghost: runs of text and calls, of what is not given up
    kept,           \* ghost: said when the round began
    reported        \* ghost: <<id, round>> -> the result given to the runtime

emitterVars == <<items, added, content, segment, toolItems, said>>
roundVars == <<runtime, at, todo, round, progressed, kept, reported>>
providerVars == vars
turnVars == <<providerVars, emitterVars, roundVars>>

Ended == {"completed", "failed", "cancelled"}
Results == {"success", "failure"}

\* An id of a call in this turn: those a gateway gives are new in each round,
\* the others are made of a position and come again.
IdOf(id) == IF id \in Index \X {"given"} THEN <<id, round>> ELSE <<id, 0>>
CodexId(c) == <<<<c, "codex">>, 0>>

TextItem == [key |-> <<"text", segment>>, text |-> <<>>, status |-> "running"]
ToolItem(id) == [key |-> <<"tool", id>>, text |-> <<>>, status |-> "running"]

\* The types of the emitter, and that an item is added once.
TranscriptOK ==
    /\ runtime \in {"codex", "compat"} \cup Ended
    /\ at \in {"runtime", "tools"}
    /\ round \in 0 .. MaxRounds
    /\ \A n, m \in DOMAIN items : items[n].key = items[m].key => n = m
    /\ toolItems = {items[n].key[2] : n \in {m \in DOMAIN items : items[m].key[1] = "tool"}}

TurnInit ==
    /\ Init
    /\ runtime \in {"codex", "compat"}
    /\ at = "runtime" /\ todo = <<>> /\ round = 0 /\ progressed = FALSE
    /\ items = <<>> /\ added = FALSE /\ content = <<>> /\ segment = 0
    /\ toolItems = {}
    /\ said = <<>> /\ kept = <<>> /\ reported = <<>>

-----------------------------------------------------------------------------
(* The emitter *)

\* itemUpdated: an item takes the place of the one with its key.
Updated(list, item) ==
    [n \in DOMAIN list |-> IF list[n].key = item.key THEN item ELSE list[n]]

Present == IF added THEN items ELSE Append(items, TextItem)

\* ensure_assistant, then itemDelta.
AppendAssistantDelta(piece) ==
    /\ Len(Present) <= MaxItems
    /\ added' = TRUE
    /\ content' = Append(content, piece)
    /\ items' = [n \in DOMAIN Present |->
                    IF Present[n].key = <<"text", segment>>
                    THEN [Present[n] EXCEPT !.text = Append(@, piece)]
                    ELSE Present[n]]
    /\ said' = IF said # <<>> /\ Last(said).call = <<>>
               THEN [said EXCEPT ![Len(said)].text = Append(@, piece)]
               ELSE Append(said, [call |-> <<>>, text |-> <<piece>>])
    /\ UNCHANGED <<segment, toolItems>>

\* What is shown of a segment when it is closed is assistant_content.
Closed ==
    IF ~added THEN items
    ELSE Updated(items, [TextItem EXCEPT !.text = content, !.status = "completed"])

(* Fault: the content of a segment goes on into the next one.                *)
EmitToolStartedUncleared(id) ==
    /\ IF id \in toolItems THEN UNCHANGED emitterVars
       ELSE /\ items' = Append(Closed, ToolItem(id))
            /\ toolItems' = toolItems \cup {id}
            /\ added' = FALSE
            /\ segment' = IF added THEN segment + 1 ELSE segment
            /\ said' = Append(said, [call |-> id, text |-> <<>>])
            /\ UNCHANGED content

\* emit_tool_started with close_assistant_segment: a call that has an item
\* already changes nothing.
EmitToolStarted(id) ==
    /\ IF id \in toolItems THEN UNCHANGED emitterVars
       ELSE /\ Len(items) < MaxItems
            /\ items' = Append(Closed, ToolItem(id))
            /\ toolItems' = toolItems \cup {id}
            /\ added' = FALSE /\ content' = <<>>
            /\ segment' = IF added THEN segment + 1 ELSE segment
            /\ said' = Append(said, [call |-> id, text |-> <<>>])

\* ToolCompleted of the provider: the item waits for its result.  A call that
\* was never added has no item, and an update of it is passed over by the
\* front end.
ArgumentsReceived(ids) ==
    /\ items' = [n \in DOMAIN items |->
                    IF \E id \in ids : items[n].key = <<"tool", id>>
                    THEN [items[n] EXCEPT !.status = "running"] ELSE items[n]]
    /\ UNCHANGED <<added, content, segment, toolItems, said>>

\* emit_tool_result.
EmitToolResult(id, result_) ==
    /\ items' = Updated(items, [ToolItem(id) EXCEPT !.status = result_])
    /\ UNCHANGED <<added, content, segment, toolItems, said>>

\* finalize_assistant: a turn that ends without text after its last tool says
\* that it is done.
FinalizeTurn ==
    LET whole == IF content = <<>> THEN <<"done">> ELSE content IN
    /\ runtime' = "completed"
    /\ added' = TRUE /\ content' = whole
    /\ items' = Updated(Present, [TextItem EXCEPT !.text = whole, !.status = "completed"])
    /\ UNCHANGED <<segment, toolItems, said, at, todo, round, progressed, kept, reported,
                   providerVars>>

-----------------------------------------------------------------------------
(* Tools *)

\* What the broker may answer to a call under this id: what it likes when the
\* id is new or was not executed, the recorded success when it comes again, and
\* a refusal when another call was made under it.
ResultsOf(id) == {reported[c] : c \in {d \in DOMAIN reported : d[1] = id}}

Answers(id) ==
    IF "success" \notin ResultsOf(id) THEN Results
    ELSE {"success"} \cup (IF id[1][2] \in {"made", "indexed"} THEN {"failure"} ELSE {})

\* execute_editor_tool and emit_tool_result of the call at the head.
Execute ==
    /\ runtime \notin Ended /\ at = "tools" /\ todo # <<>>
    /\ LET id == Head(todo) IN
        \E answer \in Answers(id) :
            /\ EmitToolResult(id, answer)
            /\ reported' = [c \in DOMAIN reported \cup {<<id, round>>} |->
                                IF c = <<id, round>> THEN answer ELSE reported[c]]
    /\ todo' = Tail(todo)
    /\ at' = IF runtime = "codex" THEN "runtime" ELSE at
    /\ UNCHANGED <<runtime, round, progressed, kept, providerVars>>

\* The turn is stopped while a tool is awaited.
StoppedAtTool ==
    /\ runtime \notin Ended /\ at = "tools" /\ todo # <<>> /\ cancelled
    /\ runtime' = "cancelled"
    /\ UNCHANGED <<at, todo, round, progressed, kept, reported,
                   emitterVars, providerVars>>

-----------------------------------------------------------------------------
(* Codex *)

Codex ==
    /\ runtime = "codex" /\ at = "runtime"
    /\ UNCHANGED <<round, kept, reported, providerVars>>

CodexText(piece) ==
    /\ Codex
    /\ Len(content) < MaxText
    /\ AppendAssistantDelta(piece)
    /\ progressed' = TRUE
    /\ UNCHANGED <<runtime, at, todo>>

\* A request for a tool, also one that is delivered again.
CodexTool(c) ==
    /\ Codex
    /\ EmitToolStarted(CodexId(c))
    /\ progressed' = TRUE
    /\ at' = "tools" /\ todo' = <<CodexId(c)>>
    /\ UNCHANGED runtime

\* A plan, or an approval that was declined.
CodexShows ==
    /\ Codex
    /\ progressed' = TRUE
    /\ UNCHANGED <<runtime, at, todo, emitterVars>>

CodexEnds == runtime = "codex" /\ at = "runtime" /\ FinalizeTurn

CodexIsStopped ==
    /\ Codex
    /\ runtime' = "cancelled"
    /\ UNCHANGED <<at, todo, progressed, emitterVars>>

\* can_fallback_after_codex_failure: Compatibility takes over if nothing was
\* shown.  Codex may also fail when it is given a result.
CodexFails ==
    /\ runtime = "codex"
    /\ IF progressed THEN runtime' = "failed" /\ UNCHANGED <<said, at, todo>>
       ELSE runtime' = "compat" /\ said' = <<>> /\ at' = "runtime" /\ todo' = <<>>
    /\ UNCHANGED <<items, added, content, segment, toolItems, round, progressed,
                   kept, reported, providerVars>>

-----------------------------------------------------------------------------
(* Compatibility *)

Complete ==
    /\ runtime = "compat" /\ at = "runtime"
    /\ UNCHANGED roundVars

\* An attempt begins: what an earlier one said is given up.
CompleteAttempts ==
    /\ Complete
    /\ Attempt
    /\ said' = IF cancelled THEN said ELSE kept
    /\ UNCHANGED <<items, added, content, segment, toolItems>>

CompleteQuietly ==
    /\ Complete
    /\ \/ BackoffOver \/ CancelSeen \/ HttpFails \/ NotAStream \/ Connected
       \/ ActivityDelta \/ ErrorEvent \/ InvalidEvent \/ TransportFails \/ EmitFails
       \/ \E i \in Index : PassedOver(i)
    /\ UNCHANGED emitterVars

CompleteText(piece) == Complete /\ TextDelta(piece) /\ AppendAssistantDelta(piece)

CompleteStarts(i, named) ==
    Complete /\ ToolStarted(i, named) /\ EmitToolStarted(IdOf(ItemId(i, named)))

CompleteDelta(i, named) ==
    LET call == CallOf(i, named) IN
    /\ Complete
    /\ ToolArgumentsDelta(i, named)
    /\ IF call \in DOMAIN active THEN UNCHANGED emitterVars
       ELSE EmitToolStarted(IdOf(call))

CompleteItem(i, named) ==
    Complete /\ ToolCompleted(i, named) /\ ArgumentsReceived({IdOf(ItemId(i, named))})

CompleteEnds(leftover) ==
    /\ Complete
    /\ StreamEnds(leftover)
    /\ ArgumentsReceived({IdOf(id) : id \in DOMAIN active})

\* complete has failed or was cancelled.
RoundFails ==
    /\ runtime = "compat" /\ at = "runtime"
    /\ result \in {"failed", "cancelled"}
    /\ runtime' = result
    /\ UNCHANGED <<at, todo, round, progressed, kept, reported,
                   emitterVars, providerVars>>

\* An answer without calls ends the turn; one round too many fails.
RoundReturns ==
    /\ runtime = "compat" /\ at = "runtime" /\ result = "ok"
    /\ IF calls = <<>> THEN FinalizeTurn
       ELSE /\ IF round = MaxRounds
               THEN runtime' = "failed" /\ UNCHANGED <<at, todo>>
               ELSE /\ at' = "tools"
                    /\ todo' = [n \in DOMAIN calls |-> IdOf(calls[n].id)]
                    /\ UNCHANGED runtime
            /\ UNCHANGED <<round, progressed, kept, reported, emitterVars,
                           providerVars>>

\* The results go to the provider with the next call of complete.
NextRound ==
    /\ runtime = "compat" /\ at = "tools" /\ todo = <<>>
    /\ Cardinality(DOMAIN reported) <= MaxCalls + round
    /\ at' = "runtime" /\ round' = round + 1 /\ kept' = said
    /\ phase' = "check" /\ strategy' = "responses" /\ attempt' = 1
    /\ text' = <<>> /\ visible' = FALSE /\ active' = NoTools
    /\ toolIds' = [i \in Index |-> None] /\ calls' = <<>>
    /\ result' = "none"
    /\ sent' = [i \in Index |-> 0] /\ cut' = FALSE
    /\ shown' = <<>> /\ announced' = {} /\ requests' = 0
    /\ UNCHANGED <<cancelled, runtime, todo, progressed, reported,
                   emitterVars>>

-----------------------------------------------------------------------------
Stop == runtime \notin Ended /\ Cancel /\ UNCHANGED <<roundVars, emitterVars>>

TurnNext ==
    \/ \E piece \in Pieces : CodexText(piece) \/ CompleteText(piece)
    \/ \E c \in CodexCall : CodexTool(c)
    \/ CodexShows \/ CodexEnds \/ CodexIsStopped \/ CodexFails
    \/ Execute \/ StoppedAtTool
    \/ CompleteAttempts \/ CompleteQuietly
    \/ \E i \in Index, named \in BOOLEAN :
        CompleteStarts(i, named) \/ CompleteItem(i, named) \/ CompleteDelta(i, named)
    \/ \E leftover \in SetToSeqs(DOMAIN active) : CompleteEnds(leftover)
    \/ RoundFails \/ RoundReturns \/ NextRound
    \/ Stop

TurnSpec == TurnInit /\ [][TurnNext]_turnVars

-----------------------------------------------------------------------------
(* What must hold *)

(* The transcript is what was said, in the order in which it was said: runs  *)
(* of text between the calls, each whole and in an item of its own, and      *)
(* nothing of an attempt or a runtime that was given up.  A call under an id *)
(* that has an item already is shown in that item.  A turn that had nothing  *)
(* to say after its last tool ends with one line more.                       *)
Shows(item, words) ==
    IF words.call = <<>> THEN item.key[1] = "text" /\ item.text = words.text
                         ELSE item.key = <<"tool", words.call>>

TranscriptIsSaid ==
    /\ \/ Len(items) = Len(said)
       \/ runtime = "completed" /\ Len(items) = Len(said) + 1
            /\ Last(items).text = <<"done">>
    /\ \A n \in DOMAIN said : Shows(items[n], said[n])

(* When a turn completes nothing in its transcript goes on, and every call   *)
(* is shown with the last result the runtime was given under its id.         *)
IsLastResult(given, id, answer) ==
    \E k \in 0 .. MaxRounds :
        /\ <<id, k>> \in DOMAIN given /\ given[<<id, k>>] = answer
        /\ \A l \in k + 1 .. MaxRounds : <<id, l>> \notin DOMAIN given

TranscriptIsSettled ==
    runtime = "completed" =>
        \A n \in DOMAIN items :
            IF items[n].key[1] = "text" THEN items[n].status = "completed"
            ELSE IsLastResult(reported, items[n].key[2], items[n].status)

TranscriptIsTrue == TranscriptIsSaid /\ TranscriptIsSettled
=============================================================================
