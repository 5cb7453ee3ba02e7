----------------------------- MODULE ToolPromise -----------------------------
(***************************************************************************)
(* What an Agent turn promises about its tool calls, whoever runs them:    *)
(* a call is accepted while the turn is open; it changes the document or   *)
(* the workspace at most once; a success is reported only of a call whose  *)
(* change is there, and is never taken back; nothing is accepted or        *)
(* reported once the turn is over.  A call reported as failed may still    *)
(* take effect: its answer timed out, the change itself did not.           *)
(***************************************************************************)
EXTENDS Naturals

CONSTANTS
    Call,          \* the ids of tool calls
    Effectful      \* the calls that change something

VARIABLES
    over,          \* the turn has ended
    accepted,      \* the calls that were accepted
    effects,       \* Call -> how often the call has changed something
    given          \* Call -> what was reported of it

promiseVars == <<over, accepted, effects, given>>

Init ==
    /\ over = FALSE
    /\ accepted = {}
    /\ effects = [c \in Call |-> 0]
    /\ given = [c \in Call |-> {}]

Accept(c) ==
    /\ ~over /\ c \notin accepted
    /\ accepted' = accepted \cup {c}
    /\ UNCHANGED <<over, given>>

TakeEffect(c) ==
    /\ c \in accepted' /\ c \in Effectful
    /\ effects[c] = 0
    /\ effects' = [effects EXCEPT ![c] = 1]

(* A tool of the back end changes the workspace in the step that accepts it. *)
AcceptAndAct(c) ==
    /\ Accept(c)
    /\ effects' = effects \/ TakeEffect(c)

ActLater(c) == TakeEffect(c) /\ UNCHANGED <<over, accepted, given>>

Report(c, result) ==
    /\ ~over /\ c \in accepted
    /\ result = "success" => (c \in Effectful => effects[c] = 1)
    /\ result = "failure" => "success" \notin given[c]
    /\ given' = [given EXCEPT ![c] = @ \cup {result}]
    /\ UNCHANGED <<over, accepted, effects>>

End == over' = TRUE /\ UNCHANGED <<accepted, effects, given>>

Next ==
    \/ End
    \/ \E c \in Call :
        \/ AcceptAndAct(c)
        \/ ActLater(c)
        \/ \E result \in {"success", "failure"} : Report(c, result)

Spec == Init /\ [][Next]_promiseVars
=============================================================================
