------------------------------ MODULE AgentTurn ------------------------------
(***************************************************************************)
(* One Agent turn: run_agent and the drivers it runs (agent/mod.rs), the   *)
(* tool broker's ledger (tool_broker.rs), the waiters of the session state *)
(* (session.rs), and across the channel the front end that executes editor *)
(* tools (lib/agent/agentRuntime.ts, agentToolHost.ts) and stops the turn  *)
(* (AgentPanel.tsx).  The runtime behind a driver, Codex or a provider,    *)
(* asks for any call in any order and repeats ids.                         *)
(*                                                                         *)
(* Every await of the two sides separates two actions.  What a call        *)
(* changes is a count; what it returns is whether it succeeded.            *)
(***************************************************************************)
EXTENDS Naturals, Sequences, FiniteSets

CONSTANTS
    Call,           \* tool call ids
    Tool,           \* tool names
    ToolOf,         \* Call -> Tool
    Needs,          \* Tool -> the tools its descriptor requires
    Kind,           \* Call -> who executes it, see Kinds
    Effectful,      \* the calls that change the document or the workspace
    MaxSteps,       \* policy.max_steps
    MaxBatch,       \* bound: calls in one answer of a provider
    NoCall

Kinds == {"skill", "workspace", "destructive", "editor"}

ASSUME TurnAssumption ==
    /\ ToolOf \in [Call -> Tool]
    /\ Needs \in [Tool -> SUBSET Tool]
    /\ Kind \in [Call -> Kinds]
    /\ Effectful \subseteq {c \in Call : Kind[c] # "skill"}
    /\ MaxSteps \in Nat \ {0} /\ MaxBatch \in Nat
    /\ NoCall \notin Call

VARIABLES
    phase,          \* where run_agent is
    at,             \* what its driver loop waits for
    cur,            \* the call being executed
    todo,           \* Compatibility: the calls of the round not yet begun
    out,            \* the result about to be given to the runtime
    progressed,     \* runtime_progressed
    rounds,         \* compatibility_tool_rounds
    steps,          \* executed_steps of the current broker
    ledger,         \* Call -> entry of the current broker
    reply,          \* Call -> the waiter of a tool result
    approval,       \* Call -> the waiter of a decision
    cancelled,      \* the run's watch channel
    linked,         \* the front end's activeTurns holds the turn
    seen,           \* the panel has been told that the turn started
    stop,           \* how the panel has given the turn up, see Stops
    host,           \* Call -> the front end's execution of the call
    effects,        \* ghost: Call -> changes made by the call
    given,          \* ghost: Call -> results given to the runtime
    endings         \* ghost: terminal events sent

nativeVars == <<phase, at, cur, todo, out, progressed, rounds, steps, ledger,
                endings, given>>
panelVars == <<linked, seen, stop>>
sharedVars == <<reply, approval, cancelled, host, effects>>
vars == <<nativeVars, panelVars, sharedVars>>

Running == {"codex", "compat"}
Ended == {"completed", "cancelled", "failed"}
Settled == {"success", "failure"}
Stops == {"none",        \* the turn is wanted
          "asked",       \* isActive is false: stopped, or run_agent has replied
          "unmounted"}   \* the panel went away and cancelled behind itself

\* The types of the two sides of a turn and of what passes between them.
TypeOK ==
    /\ phase \in {"starting", "selecting", "refused"} \cup Running \cup Ended
    /\ at \in {"idle", "next", "approving", "waiting", "answering"}
    /\ cur \in Call \cup {NoCall}
    /\ todo \in Seq(Call)
    /\ out \in Settled \cup {"refused", "none"}
    /\ progressed \in BOOLEAN /\ cancelled \in BOOLEAN
    /\ rounds \in Nat /\ steps \in 0 .. MaxSteps
    /\ ledger \in [Call -> {"absent", "running"} \cup Settled]
    /\ reply \in [Call -> {"none", "asked"} \cup Settled]
    /\ approval \in [Call -> {"none", "asked", "approved", "rejected"}]
    /\ linked \in BOOLEAN /\ seen \in BOOLEAN
    /\ stop \in Stops
    /\ host \in [Call -> {"none", "sent", "running", "aborted", "over"}
                          \cup Settled]
    /\ effects \in [Call -> Nat]
    /\ given \in [Call -> SUBSET Settled]
    /\ endings \in Nat

Init ==
    /\ phase = "starting" /\ at = "idle" /\ cur = NoCall /\ todo = <<>>
    /\ out = "none" /\ progressed = FALSE /\ rounds = 0 /\ steps = 0
    /\ ledger = [c \in Call |-> "absent"]
    /\ reply = [c \in Call |-> "none"]
    /\ approval = [c \in Call |-> "none"]
    /\ cancelled = FALSE
    /\ linked = TRUE /\ seen = FALSE /\ stop = "none"
    /\ host = [c \in Call |-> "none"]
    /\ effects = [c \in Call |-> 0]
    /\ given = [c \in Call |-> {}]
    /\ endings = 0

-----------------------------------------------------------------------------
(* Starting and ending a turn *)

(* Selection, skills and run id are validated before anything is sent.       *)
Refuse ==
    /\ phase = "starting"
    /\ phase' = "refused"
    /\ UNCHANGED <<at, cur, todo, out, progressed, rounds, steps, ledger,
                   endings, given, panelVars, sharedVars>>

(* start_run and turnStarted; then the runtimes are discovered.              *)
StartRun ==
    /\ phase = "starting"
    /\ phase' = "selecting"
    /\ UNCHANGED <<at, cur, todo, out, progressed, rounds, steps, ledger,
                   endings, given, panelVars, sharedVars>>

FreshBroker ==
    /\ steps' = 0
    /\ ledger' = [c \in Call |-> "absent"]

(* Codex when it is compatible and starts, else Compatibility.               *)
Select ==
    /\ phase = "selecting"
    /\ phase' \in Running
    /\ FreshBroker
    /\ UNCHANGED <<at, cur, todo, out, progressed, rounds, endings, given,
                   panelVars, sharedVars>>

(* The terminal event, unless one was sent; then the guards of run_agent     *)
(* retire the run and its waiters.                                           *)
End(kind) ==
    /\ phase' = kind
    /\ endings' = endings + 1
    /\ at' = "idle" /\ cur' = NoCall /\ todo' = <<>> /\ out' = "none"
    /\ reply' = [c \in Call |-> "none"]
    /\ approval' = [c \in Call |-> "none"]
    /\ UNCHANGED <<progressed, rounds, steps, ledger, given, panelVars,
                   cancelled, host, effects>>

(* A step before the runtimes run fails: the guard sends turnFailed.         *)
SelectFails == phase = "selecting" /\ End("failed")

-----------------------------------------------------------------------------
(* The Codex driver's loop *)

(* Text, activity, a plan or a declined approval.                            *)
CodexProgress ==
    /\ phase = "codex" /\ at = "idle"
    /\ progressed' = TRUE
    /\ UNCHANGED <<phase, at, cur, todo, out, rounds, steps, ledger, endings,
                   given, panelVars, sharedVars>>

CodexEnds == phase = "codex" /\ at = "idle" /\ End("completed")

(* The runtime says cancelled, or its error message does.                    *)
CodexSaysCancelled == phase = "codex" /\ at = "idle" /\ End("cancelled")

(* The runtime failed, or could not take a tool's result.                    *)
CodexFails ==
    /\ phase = "codex" /\ at \in {"idle", "answering"}
    /\ progressed
    /\ End("failed")

(* Fault: the fallback does not ask whether Codex made progress.             *)
FallbackAnyway ==
    /\ phase = "codex" /\ at = "idle"
    /\ phase' = "compat"
    /\ FreshBroker
    /\ UNCHANGED <<at, cur, todo, out, progressed, rounds, endings, given,
                   panelVars, sharedVars>>

Fallback ==
    /\ phase = "codex" /\ at = "idle"
    /\ ~progressed
    /\ phase' = "compat"
    /\ FreshBroker
    /\ UNCHANGED <<at, cur, todo, out, progressed, rounds, endings, given,
                   panelVars, sharedVars>>

-----------------------------------------------------------------------------
(* The Compatibility loop: rounds of a provider *)

RoundCalls(calls) ==
    /\ phase = "compat" /\ at = "idle"
    /\ calls # <<>>
    /\ rounds < MaxSteps
    /\ rounds' = rounds + 1
    /\ todo' = calls /\ at' = "next"
    /\ UNCHANGED <<phase, cur, out, progressed, steps, ledger, endings, given,
                   panelVars, sharedVars>>

RoundBeyondLimit ==
    /\ phase = "compat" /\ at = "idle" /\ rounds = MaxSteps
    /\ End("failed")

RoundAnswers == phase = "compat" /\ at = "idle" /\ End("completed")
RoundFails == phase = "compat" /\ at = "idle" /\ End("failed")

(* The results join the prompt and the next round is asked for.              *)
RoundDone ==
    /\ at = "next" /\ todo = <<>>
    /\ at' = "idle"
    /\ UNCHANGED <<phase, cur, todo, out, progressed, rounds, steps, ledger,
                   endings, given, panelVars, sharedVars>>

-----------------------------------------------------------------------------
(* The tool broker *)

Successful == {ToolOf[c] : c \in {d \in Call : ledger[d] = "success"}}
Ready(c) == Needs[ToolOf[c]] \subseteq Successful

(* The call the runtime asks for next: any of Codex, the round's first.      *)
Asked(c) ==
    \/ phase = "codex" /\ at = "idle" /\ progressed' = TRUE /\ todo' = todo
    \/ /\ at = "next" /\ todo # <<>> /\ c = Head(todo)
       /\ todo' = Tail(todo) /\ UNCHANGED progressed

Answering(c, result) ==
    /\ Asked(c)
    /\ cur' = c /\ out' = result /\ at' = "answering"
    /\ UNCHANGED <<phase, rounds, endings, given, panelVars, cancelled>>

(* Not registered, an id reused for other arguments, invalid arguments, a    *)
(* missing prerequisite or no step left: nothing is entered.                 *)
Invalid(c) ==
    /\ Answering(c, "refused")
    /\ UNCHANGED <<steps, ledger, reply, approval, host, effects>>

Replay(c) ==
    /\ Ready(c) /\ ledger[c] \in Settled
    /\ Answering(c, ledger[c])
    /\ UNCHANGED <<steps, ledger, reply, approval, host, effects>>

(* An earlier execution of the id was never completed.                       *)
StillRunning(c) ==
    /\ Ready(c) /\ ledger[c] = "running"
    /\ Answering(c, "failure")
    /\ UNCHANGED <<steps, ledger, reply, approval, host, effects>>

Admitted(c) ==
    /\ Ready(c) /\ ledger[c] = "absent" /\ steps < MaxSteps
    /\ steps' = steps + 1

(* complete stores the result, or refuses it and the call fails.             *)
Complete(c, result) ==
    \/ ledger' = [ledger EXCEPT ![c] = result] /\ out' = result
    \/ ledger' = [ledger EXCEPT ![c] = "running"] /\ out' = "failure"

Changed(c) == effects' = [effects EXCEPT ![c] = @ + 1]

(* A host tool runs in the same step: it changes what it promises to change  *)
(* and succeeds, or it fails and changes nothing.                            *)
HostResult(c) ==
    \/ /\ ledger' = [ledger EXCEPT ![c] = "failure"]
       /\ out' = "failure" /\ UNCHANGED effects
    \/ /\ Complete(c, "success")
       /\ IF c \in Effectful THEN Changed(c) ELSE UNCHANGED effects

ExecuteHost(c) ==
    /\ Kind[c] \in {"skill", "workspace"}
    /\ Asked(c) /\ Admitted(c)
    /\ HostResult(c)
    /\ cur' = c /\ at' = "answering"
    /\ UNCHANGED <<phase, rounds, endings, given, panelVars, cancelled, reply,
                   approval, host>>

AskApproval(c) ==
    /\ Kind[c] = "destructive"
    /\ Asked(c) /\ Admitted(c)
    /\ ledger' = [ledger EXCEPT ![c] = "running"]
    /\ approval' = [approval EXCEPT ![c] = "asked"]
    /\ cur' = c /\ at' = "approving"
    /\ UNCHANGED <<phase, out, rounds, endings, given, panelVars, cancelled,
                   reply, host, effects>>

(* Fault: the wait takes whichever branch is ready.                          *)
DecidedFirst ==
    /\ at = "approving" /\ approval[cur] = "approved"
    /\ HostResult(cur)
    /\ at' = "answering"
    /\ UNCHANGED <<phase, cur, todo, progressed, rounds, steps, endings, given,
                   panelVars, cancelled, reply, approval, host>>

(* The wait is biased: a cancellation is seen before a decision.             *)
Decided ==
    /\ at = "approving" /\ ~cancelled
    /\ approval[cur] \in {"approved", "rejected"}
    /\ IF approval[cur] = "approved"
          THEN HostResult(cur)
          ELSE /\ ledger' = [ledger EXCEPT ![cur] = "failure"]
               /\ out' = "failure" /\ UNCHANGED effects
    /\ at' = "answering"
    /\ UNCHANGED <<phase, cur, todo, progressed, rounds, steps, endings, given,
                   panelVars, cancelled, reply, approval, host>>

RequestEditor(c) ==
    /\ Kind[c] = "editor"
    /\ Asked(c) /\ Admitted(c)
    /\ ledger' = [ledger EXCEPT ![c] = "running"]
    /\ IF cancelled
          THEN UNCHANGED <<reply, host>>
          ELSE /\ reply' = [reply EXCEPT ![c] = "asked"]
               /\ host' = [host EXCEPT ![c] = "sent"]
    /\ cur' = c /\ at' = "waiting"
    /\ UNCHANGED <<phase, out, rounds, endings, given, panelVars, cancelled,
                   approval, effects>>

ResultArrives ==
    /\ at = "waiting" /\ ~cancelled
    /\ reply[cur] \in Settled
    /\ Complete(cur, reply[cur])
    /\ at' = "answering"
    /\ UNCHANGED <<phase, cur, todo, progressed, rounds, steps, endings, given,
                   panelVars, sharedVars>>

(* Fault: a call that timed out may be begun again.                          *)
TimeoutForgets ==
    /\ at = "waiting" /\ ~cancelled
    /\ reply[cur] = "asked"
    /\ reply' = [reply EXCEPT ![cur] = "none"]
    /\ ledger' = [ledger EXCEPT ![cur] = "absent"]
    /\ out' = "failure" /\ at' = "answering"
    /\ UNCHANGED <<phase, cur, todo, progressed, rounds, steps, endings, given,
                   panelVars, approval, cancelled, host, effects>>

(* Thirty seconds, or a request that could not be sent: the entry stays      *)
(* without a result and the waiter's receiver is dropped.                    *)
ResultTimesOut ==
    /\ at = "waiting" /\ ~cancelled
    /\ reply[cur] = "asked"
    /\ reply' = [reply EXCEPT ![cur] = "none"]
    /\ out' = "failure" /\ at' = "answering"
    /\ UNCHANGED <<phase, cur, todo, progressed, rounds, steps, ledger, endings,
                   given, panelVars, approval, cancelled, host, effects>>

(* driver.tool_result, or the results kept for the provider's next round.    *)
Answer ==
    /\ at = "answering"
    /\ given' = IF out = "refused" THEN given
                                   ELSE [given EXCEPT ![cur] = @ \cup {out}]
    /\ at' = IF phase = "codex" THEN "idle" ELSE "next"
    /\ cur' = NoCall /\ out' = "none"
    /\ UNCHANGED <<phase, todo, progressed, rounds, steps, ledger, endings,
                   panelVars, sharedVars>>

(* Fault: the wait for a decision does not watch the cancellation.           *)
CancelSeenElsewhere ==
    /\ phase \in Running /\ cancelled
    /\ at \in {"idle", "waiting"}
    /\ End("cancelled")

(* The loop, a provider's round, or the wait for a tool or a decision sees   *)
(* the cancellation.                                                         *)
CancelSeen ==
    /\ phase \in Running /\ cancelled
    /\ at \in {"idle", "approving", "waiting"}
    /\ End("cancelled")

-----------------------------------------------------------------------------
(* The front end *)

HostAction(c, from, to) ==
    /\ host[c] = from
    /\ host' = [host EXCEPT ![c] = to]

(* turnStarted reaches the reducer: from now on Stop has a turn to stop.     *)
TurnStartedArrives ==
    /\ phase \notin {"starting", "refused"} /\ linked /\ ~seen
    /\ seen' = TRUE
    /\ UNCHANGED <<nativeVars, sharedVars, linked, stop>>

(* A request for a turn that is gone is dropped; a mutation for a turn that  *)
(* is being stopped can only fail.                                           *)
Deliver(c) ==
    /\ IF ~linked THEN HostAction(c, "sent", "over")
       ELSE IF stop = "asked" /\ c \in Effectful
               THEN HostAction(c, "sent", "aborted")
               ELSE HostAction(c, "sent", "running")
    /\ UNCHANGED <<nativeVars, panelVars, reply, approval, cancelled, effects>>

(* The executor commits through the editor's SDK, or returns a proposal that *)
(* is applied in the same step.                                              *)
HostSucceeds(c) ==
    /\ \/ HostAction(c, "running", "success")
       \/ c \notin Effectful /\ HostAction(c, "aborted", "success")
    /\ IF c \in Effectful THEN Changed(c) ELSE UNCHANGED effects
    /\ UNCHANGED <<nativeVars, panelVars, reply, approval, cancelled>>

(* The editor is no longer the captured one, rejects the change, or was told *)
(* to abort.                                                                 *)
HostFails(c) ==
    /\ \E from \in {"running", "aborted"} : HostAction(c, from, "failure")
    /\ UNCHANGED <<nativeVars, panelVars, reply, approval, cancelled, effects>>

(* submit_agent_tool_result: false and without effect when nobody waits.     *)
SubmitResult(c) ==
    /\ host[c] \in Settled
    /\ host' = [host EXCEPT ![c] = "over"]
    /\ reply' = IF linked /\ reply[c] = "asked"
                   THEN [reply EXCEPT ![c] = host[c]] ELSE reply
    /\ UNCHANGED <<nativeVars, panelVars, approval, cancelled, effects>>

Decide(c, decision) ==
    /\ seen /\ linked /\ approval[c] = "asked"
    /\ approval' = [approval EXCEPT ![c] = decision]
    /\ UNCHANGED <<nativeVars, panelVars, reply, cancelled, host, effects>>

(* Stop, the loss of the Agent's activation, or the panel's unmount: the     *)
(* running executions are aborted before the back end is told.               *)
GiveUp(how) ==
    /\ seen /\ linked /\ stop = "none"
    /\ stop' = how
    /\ host' = [c \in Call |-> IF host[c] = "running" THEN "aborted" ELSE host[c]]
    /\ UNCHANGED <<nativeVars, linked, seen, reply, approval, cancelled, effects>>

(* cancel_agent: there is a run to cancel until run_agent has retired it.    *)
CancelRun ==
    /\ stop # "none" /\ ~cancelled
    /\ phase \in Running \cup {"selecting"}
    /\ cancelled' = TRUE
    /\ UNCHANGED <<nativeVars, panelVars, reply, approval, host, effects>>

(* The reply of cancel_agent forgets the turn, and so does that of run_agent.*)
CancelReplies ==
    /\ linked /\ stop # "none" /\ cancelled
    /\ linked' = FALSE
    /\ UNCHANGED <<nativeVars, sharedVars, seen, stop>>

RunReplies ==
    /\ linked /\ phase \in Ended \cup {"refused"}
    /\ linked' = FALSE /\ stop' = "asked"
    /\ UNCHANGED <<nativeVars, sharedVars, seen>>

-----------------------------------------------------------------------------
Batches == UNION {[1 .. n -> Call] : n \in 1 .. MaxBatch}

Broker(c) ==
    \/ Invalid(c) \/ Replay(c) \/ StillRunning(c)
    \/ ExecuteHost(c) \/ AskApproval(c) \/ RequestEditor(c)

Native ==
    \/ Refuse \/ StartRun \/ Select \/ SelectFails
    \/ CodexProgress \/ CodexEnds \/ CodexSaysCancelled \/ CodexFails \/ Fallback
    \/ \E calls \in Batches : RoundCalls(calls)
    \/ RoundBeyondLimit \/ RoundAnswers \/ RoundFails \/ RoundDone
    \/ \E c \in Call : Broker(c)
    \/ Decided \/ ResultArrives \/ ResultTimesOut \/ Answer \/ CancelSeen

FrontEnd ==
    \/ TurnStartedArrives \/ CancelRun \/ CancelReplies \/ RunReplies
    \/ \E how \in {"asked", "unmounted"} : GiveUp(how)
    \/ \E c \in Call :
        \/ Deliver(c) \/ HostSucceeds(c) \/ HostFails(c) \/ SubmitResult(c)
        \/ \E decision \in {"approved", "rejected"} : Decide(c, decision)

Next == Native \/ FrontEnd

Spec == Init /\ [][Next]_vars

(* tokio runs the turn to its next wait; of the branches of a select that    *)
(* stay ready one is picked at random, so a cancellation is not passed over  *)
(* for ever.                                                                 *)
Fairness ==
    /\ WF_vars(StartRun \/ Refuse) /\ WF_vars(Select \/ SelectFails)
    /\ WF_vars(Answer) /\ WF_vars(RoundDone)
    /\ WF_vars(\E c \in Call : at = "next" /\ Broker(c))
    /\ SF_vars(CancelSeen)

FairSpec == Spec /\ Fairness

-----------------------------------------------------------------------------
(* What must hold *)

Promise == INSTANCE ToolPromise WITH
    over <- phase \in Ended,
    accepted <- {c \in Call : ledger[c] # "absent"}

(* The detailed turn implements the promise of its tool calls: one change at *)
(* most per id, although the runtime repeats ids, results come after their   *)
(* deadline, a completion is refused or the turn falls back to a second      *)
(* runtime with an empty ledger; no success without the change.              *)
KeepsToolPromise == Promise!Spec

(* The calls that change something are within the policy's steps, counted    *)
(* over both brokers of a turn that fell back (tool_broker.rs, mod.rs).      *)
EffectsWithinSteps == Cardinality({c \in Call : effects[c] > 0}) <= MaxSteps

(* A tool changes something only after every tool its descriptor requires    *)
(* was reported to the runtime as successful in this turn.                   *)
PrerequisitesFirst ==
    \A c \in Call : effects[c] > 0 =>
        \A t \in Needs[ToolOf[c]] :
            \E d \in Call : ToolOf[d] = t /\ "success" \in given[d]

(* After Stop no editor tool of the turn changes the document, and once the  *)
(* run is cancelled no destructive tool changes the workspace, approved or   *)
(* not.                                                                      *)
StopHolds == [][
    \A c \in Call :
        \/ Kind[c] = "editor" /\ stop = "asked" /\ phase \notin Ended
        \/ Kind[c] = "destructive" /\ cancelled
        => effects'[c] = effects[c]]_vars

(* A cancelled run ends, whatever it was waiting for.                        *)
CancelledTurnEnds == cancelled ~> phase \in Ended
=============================================================================
