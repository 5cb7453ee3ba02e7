--------------------------- MODULE AgentTools_proofs ---------------------------
(***************************************************************************)
(* The safety of a turn, for any calls, tools, prerequisites, limits and   *)
(* batches: its types, what its steps, its prerequisites and a stop bound, *)
(* and that it implements ToolPromise.                                     *)
(*                                                                         *)
(* The workspace tools follow: the safety of their changes, for any        *)
(* workers, files, contents, contexts and bounds.  A call begins to write  *)
(* only under the live context, loses nobody's change, and is all or       *)
(* nothing; and the ledger of change sets stays within its bounds, its     *)
(* account being the sum of what it holds (by induction over sequences of  *)
(* numbers).                                                               *)
(***************************************************************************)
EXTENDS AgentTurn, WorkspaceAgent, FiniteSetTheorems, SequenceTheorems, TLAPS

(* Turns *)

Entered == {c \in Call : ledger[c] # "absent"}

(* What the driver loop waits for belongs to an entry of the ledger.         *)
WaitsForItsCall ==
    /\ at # "idle" => phase \in Running
    /\ at = "next" => phase = "compat"
    /\ at \in {"approving", "waiting", "answering"} => cur \in Call
    /\ at = "approving" => /\ Kind[cur] = "destructive"
                           /\ ledger[cur] = "running" /\ effects[cur] = 0
    /\ at = "waiting" => Kind[cur] = "editor" /\ ledger[cur] = "running"
    /\ at = "answering" =>
          /\ out \in Settled \cup {"refused"}
          /\ out \in Settled => ledger[cur] # "absent"
          /\ out = "success" <=> ledger[cur] = "success" /\ out # "refused"

(* Before a runtime has made progress its ledger is empty.                   *)
NothingYet ==
    \/ phase \in {"starting", "selecting", "refused"}
    \/ phase = "codex" /\ ~progressed
    => Entered = {}

(* The traces a call leaves in the front end and in the document.            *)
TracesOfCalls ==
    \A c \in Call :
        /\ ledger[c] = "absent" =>
              host[c] = "none" /\ effects[c] = 0 /\ "success" \notin given[c]
        /\ host[c] # "none" => Kind[c] = "editor"
        /\ host[c] \in {"sent", "running", "aborted"} => effects[c] = 0
        /\ effects[c] \in {0, 1}
        /\ effects[c] = 1 => c \in Effectful

(* Wherever a success is noted the change is there.                          *)
SuccessMeansChanged ==
    \A c \in Effectful :
        "success" \in {ledger[c], reply[c], host[c]} => effects[c] = 1

(* The runtime has been told of the successes of the ledger, and of no       *)
(* others, except for the one it is about to be told.                        *)
SuccessIsGiven ==
    \A c \in Call :
        /\ "success" \in given[c] => ledger[c] = "success"
        /\ phase \in Running /\ ledger[c] = "success" =>
              \/ "success" \in given[c]
              \/ at = "answering" /\ cur = c /\ out = "success"

Prepared(c) ==
    \A t \in Needs[ToolOf[c]] :
        \E d \in Call : ToolOf[d] = t /\ "success" \in given[d]

(* Nothing enters the ledger before its prerequisites were given.            *)
EntriesArePrepared == \A c \in Entered : Prepared(c)

StepsAreCounted == IsFiniteSet(Entered) /\ Cardinality(Entered) <= steps

(* A stop leaves no execution that may still change the document.            *)
StopReaches ==
    stop = "asked" /\ phase \notin Ended =>
        \A c \in Effectful : host[c] # "running"

TurnInv ==
    /\ TypeOK /\ WaitsForItsCall /\ NothingYet /\ TracesOfCalls
    /\ SuccessMeansChanged /\ SuccessIsGiven /\ EntriesArePrepared
    /\ StepsAreCounted /\ StopReaches
-----------------------------------------------------------------------------
(* What a step leaves alone it keeps.                                        *)
LEMMA Frame ==
    ASSUME TurnInv
    PROVE  /\ UNCHANGED <<at, phase, cur, out, ledger, effects>> => WaitsForItsCall'
           /\ UNCHANGED <<phase, progressed, ledger>> => NothingYet'
           /\ UNCHANGED <<ledger, host, effects, given>> => TracesOfCalls'
           /\ UNCHANGED <<ledger, reply, host, effects>> => SuccessMeansChanged'
           /\ UNCHANGED <<given, ledger, phase, at, cur, out>> => SuccessIsGiven'
           /\ UNCHANGED <<ledger, given>> => EntriesArePrepared'
           /\ UNCHANGED <<ledger, steps>> => StepsAreCounted'
           /\ UNCHANGED <<stop, phase, host>> => StopReaches'
<1> USE DEF TurnInv
<1>1. UNCHANGED <<at, phase, cur, out, ledger, effects>> => WaitsForItsCall'
  BY DEF WaitsForItsCall
<1>2. UNCHANGED <<phase, progressed, ledger>> => NothingYet'
  BY DEF NothingYet, Entered
<1>3. UNCHANGED <<ledger, host, effects, given>> => TracesOfCalls'
  BY DEF TracesOfCalls
<1>4. UNCHANGED <<ledger, reply, host, effects>> => SuccessMeansChanged'
  BY DEF SuccessMeansChanged
<1>5. UNCHANGED <<given, ledger, phase, at, cur, out>> => SuccessIsGiven'
  BY DEF SuccessIsGiven
<1>6. UNCHANGED <<ledger, given>> => EntriesArePrepared'
  BY DEF EntriesArePrepared, Entered, Prepared
<1>7. UNCHANGED <<ledger, steps>> => StepsAreCounted'
  BY DEF StepsAreCounted, Entered
<1>8. UNCHANGED <<stop, phase, host>> => StopReaches'
  BY DEF StopReaches
<1> QED BY <1>1, <1>2, <1>3, <1>4, <1>5, <1>6, <1>7, <1>8

(* A driver of its own starts with an empty ledger, which it was before.     *)
LEMMA FreshIsEmpty ==
    ASSUME TurnInv, Entered = {}, FreshBroker, given' = given
    PROVE  ledger' = ledger /\ EntriesArePrepared' /\ StepsAreCounted'
<1>1. ledger' = ledger
  BY DEF FreshBroker, TurnInv, TypeOK, Entered
<1>2. Entered' = {} /\ steps' = 0
  BY <1>1 DEF FreshBroker, Entered
<1> QED BY <1>1, <1>2, FS_EmptySet DEF EntriesArePrepared, StepsAreCounted

(* A call that enters the ledger has its prerequisites and takes a step.     *)
LEMMA EnterKeeps ==
    ASSUME TurnInv, NEW c \in Call, Admitted(c), phase \in Running,
           at # "answering", given' = given,
           NEW r \in {"running", "success", "failure"},
           ledger' = [ledger EXCEPT ![c] = r]
    PROVE  EntriesArePrepared' /\ StepsAreCounted'
<1>1. ledger \in [Call -> {"absent", "running", "success", "failure"}]
      /\ steps \in Nat
  BY DEF TurnInv, TypeOK, Settled
<1>2. Entered' = Entered \cup {c} /\ c \notin Entered
  BY <1>1 DEF Entered, Admitted
<1>3. Prepared(c)
  <2> SUFFICES ASSUME NEW t \in Needs[ToolOf[c]]
               PROVE  \E d \in Call : ToolOf[d] = t /\ "success" \in given[d]
    BY DEF Prepared
  <2>1. PICK d \in Call : ToolOf[d] = t /\ ledger[d] = "success"
    BY DEF Admitted, Ready, Successful
  <2> QED BY <2>1 DEF TurnInv, SuccessIsGiven
<1>4. EntriesArePrepared'
  BY <1>2, <1>3 DEF TurnInv, EntriesArePrepared, Prepared
<1>5. IsFiniteSet(Entered') /\ Cardinality(Entered') = Cardinality(Entered) + 1
  BY <1>2, FS_AddElement DEF TurnInv, StepsAreCounted
<1>6. Cardinality(Entered) \in Nat /\ Cardinality(Entered) <= steps
  BY FS_CardinalityType DEF TurnInv, StepsAreCounted
<1>7. StepsAreCounted'
  BY <1>1, <1>5, <1>6 DEF StepsAreCounted, Admitted
<1> QED BY <1>4, <1>7

(* An entry that is completed stays one.                                     *)
LEMMA CompleteKeeps ==
    ASSUME TurnInv, NEW c \in Call, ledger[c] # "absent", UNCHANGED <<given, steps>>,
           NEW r \in {"running", "success", "failure"},
           ledger' = [ledger EXCEPT ![c] = r]
    PROVE  EntriesArePrepared' /\ StepsAreCounted'
<1>1. ledger \in [Call -> {"absent", "running", "success", "failure"}]
  BY DEF TurnInv, TypeOK, Settled
<1>2. Entered' = Entered
  BY <1>1 DEF Entered
<1> QED BY <1>2 DEF TurnInv, EntriesArePrepared, Prepared, StepsAreCounted

(* Who asks for a call has made progress.                                    *)
LEMMA AskedKeeps ==
    ASSUME TurnInv, NEW c \in Call, Asked(c), phase' = phase
    PROVE  /\ todo' \in Seq(Call) /\ progressed' \in BOOLEAN
           /\ phase \in Running /\ at \in {"idle", "next"}
           /\ NothingYet'
<1>1. CASE phase = "codex" /\ at = "idle" /\ progressed' = TRUE /\ todo' = todo
  BY <1>1 DEF TurnInv, TypeOK, Running, NothingYet
<1>2. CASE at = "next" /\ todo # <<>> /\ todo' = Tail(todo) /\ progressed' = progressed
  BY <1>2 DEF TurnInv, TypeOK, WaitsForItsCall, Running, NothingYet
<1> QED BY <1>1, <1>2 DEF Asked

(* The result of a host tool: a change where it is promised, and no success  *)
(* without it.                                                               *)
ResultOf(c, r, n) ==
    /\ ledger' = [ledger EXCEPT ![c] = r]
    /\ effects' = [effects EXCEPT ![c] = n]
    /\ out' \in {"success", "failure"}
    /\ out' = "success" <=> r = "success"
    /\ n = 1 => c \in Effectful
    /\ r = "success" /\ c \in Effectful => n = 1

LEMMA HostResultKeeps ==
    ASSUME TurnInv, NEW c \in Call, effects[c] = 0, HostResult(c)
    PROVE  \E r \in {"running", "success", "failure"}, n \in {0, 1} :
              ResultOf(c, r, n)
<1> USE DEF ResultOf
<1>1. effects \in [Call -> Nat]
  BY DEF TurnInv, TypeOK
<1>2. effects = [effects EXCEPT ![c] = 0]
  BY <1>1
<1>3. CASE /\ ledger' = [ledger EXCEPT ![c] = "failure"]
           /\ out' = "failure" /\ UNCHANGED effects
  BY <1>2, <1>3
<1>4. CASE /\ Complete(c, "success")
           /\ IF c \in Effectful THEN Changed(c) ELSE UNCHANGED effects
  <2>1. \E n \in {0, 1} : /\ effects' = [effects EXCEPT ![c] = n]
                          /\ n = 1 <=> c \in Effectful
    BY <1>1, <1>2, <1>4 DEF Changed
  <2> QED BY <1>4, <2>1 DEF Complete
<1> QED BY <1>3, <1>4 DEF HostResult

LEMMA InvStep == TurnInv /\ [Next]_vars => TurnInv'
<1> SUFFICES ASSUME TurnInv, [Next]_vars PROVE TurnInv'
  OBVIOUS
<1> USE TurnAssumption
<1>0. TypeOK
  BY DEF TurnInv
<1>l. ledger \in [Call -> {"absent", "running", "success", "failure"}]
  BY <1>0 DEF TypeOK, Settled
<1>e. effects \in [Call -> Nat]
  BY <1>0 DEF TypeOK
<1>g. given \in [Call -> SUBSET {"success", "failure"}]
  BY <1>0 DEF TypeOK, Settled
<1>h. host \in [Call -> {"none", "sent", "running", "aborted", "over", "success",
                         "failure"}]
  BY <1>0 DEF TypeOK, Settled
<1>r. reply \in [Call -> {"none", "asked", "success", "failure"}]
  BY <1>0 DEF TypeOK, Settled
<1>1. CASE Refuse
  <2>1. TypeOK'
    BY <1>0, <1>1 DEF Refuse, nativeVars, panelVars, sharedVars, TypeOK, Settled
  <2>2. WaitsForItsCall'
    BY <1>1, <1>e, <1>l DEF Refuse, nativeVars, panelVars, sharedVars, TurnInv,
       WaitsForItsCall, Running, Settled
  <2>3. NothingYet'
    BY <1>1, <1>l DEF Refuse, nativeVars, panelVars, sharedVars, TurnInv,
       NothingYet, Entered
  <2>4. SuccessIsGiven'
    BY <1>1, <1>g, <1>l DEF Refuse, nativeVars, panelVars, sharedVars, TurnInv,
       SuccessIsGiven, Running
  <2>5. StopReaches'
    BY <1>1, <1>h DEF Refuse, nativeVars, panelVars, sharedVars, TurnInv,
       StopReaches, Ended
  <2>6. /\ TracesOfCalls'
        /\ SuccessMeansChanged'
        /\ EntriesArePrepared'
        /\ StepsAreCounted'
    BY <1>1, Frame DEF Refuse, nativeVars, panelVars, sharedVars
  <2> QED BY <2>1, <2>2, <2>3, <2>4, <2>5, <2>6 DEF TurnInv
<1>2. CASE StartRun
  <2>1. TypeOK'
    BY <1>0, <1>2 DEF StartRun, nativeVars, panelVars, sharedVars, TypeOK,
       Settled
  <2>2. WaitsForItsCall'
    BY <1>2, <1>e, <1>l DEF StartRun, nativeVars, panelVars, sharedVars,
       TurnInv, WaitsForItsCall, Running, Settled
  <2>3. NothingYet'
    BY <1>2, <1>l DEF StartRun, nativeVars, panelVars, sharedVars, TurnInv,
       NothingYet, Entered
  <2>4. SuccessIsGiven'
    BY <1>2, <1>g, <1>l DEF StartRun, nativeVars, panelVars, sharedVars,
       TurnInv, SuccessIsGiven, Running
  <2>5. StopReaches'
    BY <1>2, <1>h DEF StartRun, nativeVars, panelVars, sharedVars, TurnInv,
       StopReaches, Ended
  <2>6. /\ TracesOfCalls'
        /\ SuccessMeansChanged'
        /\ EntriesArePrepared'
        /\ StepsAreCounted'
    BY <1>2, Frame DEF StartRun, nativeVars, panelVars, sharedVars
  <2> QED BY <2>1, <2>2, <2>3, <2>4, <2>5, <2>6 DEF TurnInv
<1>3. CASE Select
  <2>1. TypeOK'
    BY <1>0, <1>3 DEF Select, FreshBroker, Running,
       nativeVars, panelVars, sharedVars, TypeOK, Settled
  <2>2. WaitsForItsCall'
    BY <1>3, <1>e, <1>l DEF Select, FreshBroker, Running,
       nativeVars, panelVars, sharedVars, TurnInv, WaitsForItsCall, Settled
  <2>3. NothingYet'
    BY <1>3, <1>l DEF Select, FreshBroker, Running,
       nativeVars, panelVars, sharedVars, TurnInv, NothingYet, Entered
  <2>4. TracesOfCalls'
    BY <1>3, FreshIsEmpty, Frame DEF Select, nativeVars, panelVars, sharedVars, TurnInv,
       NothingYet
  <2>5. SuccessMeansChanged'
    BY <1>3, FreshIsEmpty, Frame DEF Select, nativeVars, panelVars, sharedVars, TurnInv,
       NothingYet
  <2>6. SuccessIsGiven'
    BY <1>3, FreshIsEmpty DEF Select, nativeVars, panelVars, sharedVars, TurnInv,
       NothingYet, SuccessIsGiven, Entered
  <2>7. EntriesArePrepared'
    BY <1>3, FreshIsEmpty, Frame DEF Select, nativeVars, panelVars, sharedVars, TurnInv,
       NothingYet
  <2>8. StepsAreCounted'
    BY <1>3, FreshIsEmpty, Frame DEF Select, nativeVars, panelVars, sharedVars, TurnInv,
       NothingYet
  <2>9. StopReaches'
    BY <1>3, <1>h DEF Select, FreshBroker, Running,
       nativeVars, panelVars, sharedVars, TurnInv, StopReaches, Ended
  <2> QED BY <2>1, <2>2, <2>3, <2>4, <2>5, <2>6, <2>7, <2>8, <2>9 DEF TurnInv
<1>4. CASE CodexProgress
  <2>1. TypeOK'
    BY <1>0, <1>4 DEF CodexProgress, nativeVars, panelVars, sharedVars, TypeOK,
       Settled
  <2>2. NothingYet'
    BY <1>4, <1>l DEF CodexProgress, nativeVars, panelVars, sharedVars, TurnInv,
       NothingYet, Entered
  <2>3. /\ WaitsForItsCall'
        /\ TracesOfCalls'
        /\ SuccessMeansChanged'
        /\ SuccessIsGiven'
        /\ EntriesArePrepared'
        /\ StepsAreCounted'
        /\ StopReaches'
    BY <1>4, Frame DEF CodexProgress, nativeVars, panelVars, sharedVars
  <2> QED BY <2>1, <2>2, <2>3 DEF TurnInv
<1>5. CASE Fallback
  <2>1. TypeOK'
    BY <1>0, <1>5 DEF Fallback, FreshBroker, nativeVars, panelVars, sharedVars,
       TypeOK, Settled, Running
  <2>2. WaitsForItsCall'
    BY <1>5, <1>e, <1>l DEF Fallback, FreshBroker,
       nativeVars, panelVars, sharedVars, TurnInv, WaitsForItsCall, Running,
       Settled
  <2>3. NothingYet'
    BY <1>5, <1>l DEF Fallback, FreshBroker, nativeVars, panelVars, sharedVars,
       TurnInv, NothingYet, Entered
  <2>4. TracesOfCalls'
    BY <1>5, FreshIsEmpty, Frame DEF Fallback, nativeVars, panelVars, sharedVars, TurnInv,
       NothingYet
  <2>5. SuccessMeansChanged'
    BY <1>5, FreshIsEmpty, Frame DEF Fallback, nativeVars, panelVars, sharedVars, TurnInv,
       NothingYet
  <2>6. SuccessIsGiven'
    BY <1>5, FreshIsEmpty DEF Fallback, nativeVars, panelVars, sharedVars, TurnInv,
       NothingYet, SuccessIsGiven, Entered
  <2>7. EntriesArePrepared'
    BY <1>5, FreshIsEmpty, Frame DEF Fallback, nativeVars, panelVars, sharedVars, TurnInv,
       NothingYet
  <2>8. StepsAreCounted'
    BY <1>5, FreshIsEmpty, Frame DEF Fallback, nativeVars, panelVars, sharedVars, TurnInv,
       NothingYet
  <2>9. StopReaches'
    BY <1>5, <1>h DEF Fallback, FreshBroker, nativeVars, panelVars, sharedVars,
       TurnInv, StopReaches, Ended
  <2> QED BY <2>1, <2>2, <2>3, <2>4, <2>5, <2>6, <2>7, <2>8, <2>9 DEF TurnInv
<1>6. ASSUME NEW batch \in Batches,
             RoundCalls(batch)
      PROVE  TurnInv'
  <2>1. TypeOK'
    BY <1>0, <1>6 DEF RoundCalls, nativeVars, panelVars, sharedVars, TypeOK,
       Settled, Batches
  <2>2. WaitsForItsCall'
    BY <1>6, <1>e, <1>l DEF RoundCalls, nativeVars, panelVars, sharedVars,
       TurnInv, WaitsForItsCall, Running, Settled
  <2>3. SuccessIsGiven'
    BY <1>6, <1>g, <1>l DEF RoundCalls, nativeVars, panelVars, sharedVars,
       TurnInv, SuccessIsGiven, Running
  <2>4. /\ NothingYet'
        /\ TracesOfCalls'
        /\ SuccessMeansChanged'
        /\ EntriesArePrepared'
        /\ StepsAreCounted'
        /\ StopReaches'
    BY <1>6, Frame DEF RoundCalls, nativeVars, panelVars, sharedVars
  <2> QED BY <2>1, <2>2, <2>3, <2>4 DEF TurnInv
<1>7. CASE RoundDone
  <2>1. TypeOK'
    BY <1>0, <1>7 DEF RoundDone, nativeVars, panelVars, sharedVars, TypeOK,
       Settled
  <2>2. WaitsForItsCall'
    BY <1>7, <1>e, <1>l DEF RoundDone, nativeVars, panelVars, sharedVars,
       TurnInv, WaitsForItsCall, Running, Settled
  <2>3. SuccessIsGiven'
    BY <1>7, <1>g, <1>l DEF RoundDone, nativeVars, panelVars, sharedVars,
       TurnInv, SuccessIsGiven, Running
  <2>4. /\ NothingYet'
        /\ TracesOfCalls'
        /\ SuccessMeansChanged'
        /\ EntriesArePrepared'
        /\ StepsAreCounted'
        /\ StopReaches'
    BY <1>7, Frame DEF RoundDone, nativeVars, panelVars, sharedVars
  <2> QED BY <2>1, <2>2, <2>3, <2>4 DEF TurnInv
<1>8. ASSUME NEW c \in Call,
             Invalid(c) \/ Replay(c) \/ StillRunning(c)
      PROVE  TurnInv'
  <2>a. Asked(c) /\ phase' = phase
    BY <1>8 DEF Invalid, Replay, StillRunning, Answering
  <2>1. TypeOK'
    BY <1>0, <1>8, <2>a, AskedKeeps DEF Invalid, Replay, StillRunning, Answering,
       nativeVars, panelVars, sharedVars, TypeOK, Settled
  <2>2. WaitsForItsCall'
    BY <1>8, <1>e, <1>l DEF Invalid, Replay, StillRunning, Answering, Asked,
       nativeVars, panelVars, sharedVars, TurnInv, WaitsForItsCall, Running,
       Settled
  <2>3. NothingYet'
    BY <1>8, <1>l DEF Invalid, Replay, StillRunning, Answering, Asked,
       nativeVars, panelVars, sharedVars, TurnInv, NothingYet, Entered
  <2>4. SuccessIsGiven'
    BY <1>8, <1>g, <1>l DEF Invalid, Replay, StillRunning, Answering, Asked,
       nativeVars, panelVars, sharedVars, TurnInv, SuccessIsGiven, Running
  <2>5. /\ TracesOfCalls'
        /\ SuccessMeansChanged'
        /\ EntriesArePrepared'
        /\ StepsAreCounted'
        /\ StopReaches'
    BY <1>8, Frame DEF Invalid, Replay, StillRunning, Answering, Asked,
       nativeVars, panelVars, sharedVars
  <2> QED BY <2>1, <2>2, <2>3, <2>4, <2>5 DEF TurnInv
<1>9. ASSUME NEW c \in Call,
             ExecuteHost(c)
      PROVE  TurnInv'
  <2>a. Asked(c) /\ Admitted(c) /\ HostResult(c) /\ phase' = phase
    BY <1>9 DEF ExecuteHost
  <2>b. /\ ledger[c] = "absent" /\ effects[c] = 0 /\ host[c] = "none"
        /\ steps < MaxSteps /\ steps' = steps + 1
    BY <2>a DEF Admitted, TurnInv, TracesOfCalls
  <2>c. PICK r \in {"running", "success", "failure"}, n \in {0, 1} : ResultOf(c, r, n)
    BY <2>a, <2>b, HostResultKeeps
  <2>d. /\ todo' \in Seq(Call) /\ progressed' \in BOOLEAN
        /\ phase \in Running /\ at \in {"idle", "next"} /\ NothingYet'
    BY <2>a, AskedKeeps
  <2>e. at' = "answering" /\ cur' = c /\ UNCHANGED <<given, host, reply>>
    BY <1>9 DEF ExecuteHost, sharedVars
  <2>1. TypeOK'
    <3>1. /\ ledger' \in [Call -> {"absent", "running", "success", "failure"}]
          /\ effects' \in [Call -> Nat]
      BY <1>l, <1>e, <2>c DEF ResultOf
    <3>2. steps' \in 0 .. MaxSteps
      BY <1>0, <2>b DEF TypeOK
    <3> QED BY <1>0, <1>9, <2>c, <2>d, <3>1, <3>2 DEF ExecuteHost, ResultOf, panelVars,
       TypeOK, Settled
  <2>2. WaitsForItsCall'
    BY <2>a, <2>c, <2>d, <2>e, <1>l DEF ResultOf, WaitsForItsCall, Settled
  <2>3. NothingYet'
    BY <2>d
  <2>4. TracesOfCalls'
    BY <2>b, <2>c, <2>e, <1>l, <1>e DEF ResultOf, TurnInv, TracesOfCalls
  <2>5. SuccessMeansChanged'
    BY <2>b, <2>c, <2>e, <1>l, <1>e DEF ResultOf, TurnInv, SuccessMeansChanged
  <2>6. SuccessIsGiven'
    BY <2>a, <2>b, <2>c, <2>d, <2>e, <1>l DEF ResultOf, TurnInv, TracesOfCalls,
       SuccessIsGiven
  <2>7. EntriesArePrepared'
    BY <2>a, <2>c, <2>d, <2>e, EnterKeeps DEF ResultOf
  <2>8. StepsAreCounted'
    BY <2>a, <2>c, <2>d, <2>e, EnterKeeps DEF ResultOf
  <2>9. StopReaches'
    BY <1>9, Frame DEF ExecuteHost, Asked, Admitted, HostResult, Complete,
       Changed, nativeVars, panelVars, sharedVars
  <2> QED BY <2>1, <2>2, <2>3, <2>4, <2>5, <2>6, <2>7, <2>8, <2>9 DEF TurnInv
<1>10. ASSUME NEW c \in Call,
              AskApproval(c)
       PROVE  TurnInv'
  <2>a. /\ Asked(c) /\ Admitted(c) /\ phase' = phase
        /\ ledger' = [ledger EXCEPT ![c] = "running"]
    BY <1>10 DEF AskApproval
  <2>b. /\ ledger[c] = "absent" /\ effects[c] = 0
        /\ steps < MaxSteps /\ steps' = steps + 1
    BY <2>a DEF Admitted, TurnInv, TracesOfCalls
  <2>d. /\ todo' \in Seq(Call) /\ progressed' \in BOOLEAN
        /\ phase \in Running /\ at \in {"idle", "next"} /\ NothingYet'
    BY <2>a, AskedKeeps
  <2>1. TypeOK'
    <3>1. steps' \in 0 .. MaxSteps
      BY <1>0, <2>b DEF TypeOK
    <3>2. ledger' \in [Call -> {"absent", "running", "success", "failure"}]
      BY <1>l, <2>a
    <3> QED BY <1>0, <1>10, <2>d, <3>1, <3>2 DEF AskApproval, panelVars, TypeOK, Settled
  <2>2. WaitsForItsCall'
    BY <1>10, <2>a, <2>b, <2>d, <1>l DEF AskApproval, WaitsForItsCall
  <2>3. NothingYet'
    BY <2>d
  <2>4. TracesOfCalls'
    BY <1>10, <1>e, <1>g, <1>h, <1>l DEF AskApproval, Asked, Admitted,
       nativeVars, panelVars, sharedVars, TurnInv, TracesOfCalls
  <2>5. SuccessMeansChanged'
    BY <1>10, <1>e, <1>h, <1>l, <1>r DEF AskApproval, Asked, Admitted,
       nativeVars, panelVars, sharedVars, TurnInv, SuccessMeansChanged
  <2>6. SuccessIsGiven'
    BY <1>10, <1>g, <1>l DEF AskApproval, Asked, Admitted,
       nativeVars, panelVars, sharedVars, TurnInv, SuccessIsGiven, Running
  <2>7. EntriesArePrepared'
    BY <1>10, <2>a, <2>d, EnterKeeps DEF AskApproval
  <2>8. StepsAreCounted'
    BY <1>10, <2>a, <2>d, EnterKeeps DEF AskApproval
  <2>9. StopReaches'
    BY <1>10, Frame DEF AskApproval, Asked, Admitted,
       nativeVars, panelVars, sharedVars
  <2> QED BY <2>1, <2>2, <2>3, <2>4, <2>5, <2>6, <2>7, <2>8, <2>9 DEF TurnInv
<1>11. ASSUME NEW c \in Call,
              RequestEditor(c)
       PROVE  TurnInv'
  <2>a. /\ Asked(c) /\ Admitted(c) /\ phase' = phase
        /\ ledger' = [ledger EXCEPT ![c] = "running"]
    BY <1>11 DEF RequestEditor
  <2>b. /\ ledger[c] = "absent" /\ effects[c] = 0
        /\ steps < MaxSteps /\ steps' = steps + 1
    BY <2>a DEF Admitted, TurnInv, TracesOfCalls
  <2>d. /\ todo' \in Seq(Call) /\ progressed' \in BOOLEAN
        /\ phase \in Running /\ at \in {"idle", "next"} /\ NothingYet'
    BY <2>a, AskedKeeps
  <2>1. TypeOK'
    <3>1. steps' \in 0 .. MaxSteps
      BY <1>0, <2>b DEF TypeOK
    <3>2. ledger' \in [Call -> {"absent", "running", "success", "failure"}]
      BY <1>l, <2>a
    <3>3. /\ host' \in [Call -> {"none", "sent", "running", "aborted", "over",
                                 "success", "failure"}]
          /\ reply' \in [Call -> {"none", "asked", "success", "failure"}]
      BY <1>11, <1>h, <1>r DEF RequestEditor
    <3>4. /\ at' = "waiting" /\ cur' = c
          /\ UNCHANGED <<phase, out, rounds, endings, given, panelVars, cancelled,
                         approval, effects>>
      BY <1>11 DEF RequestEditor
    <3> QED BY <1>0, <2>d, <3>1, <3>2, <3>3, <3>4 DEF panelVars, TypeOK, Settled
  <2>2. WaitsForItsCall'
    BY <1>11, <2>a, <2>b, <2>d, <1>l DEF RequestEditor, WaitsForItsCall
  <2>3. NothingYet'
    BY <2>d
  <2>4. TracesOfCalls'
    BY <1>11, <1>e, <1>g, <1>h, <1>l DEF RequestEditor, Asked, Admitted,
       nativeVars, panelVars, sharedVars, TurnInv, TracesOfCalls
  <2>5. SuccessMeansChanged'
    BY <1>11, <1>e, <1>h, <1>l, <1>r DEF RequestEditor, Asked, Admitted,
       nativeVars, panelVars, sharedVars, TurnInv, SuccessMeansChanged
  <2>6. SuccessIsGiven'
    BY <1>11, <1>g, <1>l DEF RequestEditor, Asked, Admitted,
       nativeVars, panelVars, sharedVars, TurnInv, SuccessIsGiven, Running
  <2>7. EntriesArePrepared'
    BY <1>11, <2>a, <2>d, EnterKeeps DEF RequestEditor
  <2>8. StepsAreCounted'
    BY <1>11, <2>a, <2>d, EnterKeeps DEF RequestEditor
  <2>9. StopReaches'
    BY <1>11, <1>h DEF RequestEditor, Asked, Admitted,
       nativeVars, panelVars, sharedVars, TurnInv, StopReaches, Ended
  <2> QED BY <2>1, <2>2, <2>3, <2>4, <2>5, <2>6, <2>7, <2>8, <2>9 DEF TurnInv
<1>12. CASE Decided
  <2>a. /\ cur \in Call /\ Kind[cur] = "destructive"
        /\ ledger[cur] = "running" /\ effects[cur] = 0
        /\ phase \in Running /\ host[cur] = "none"
    BY <1>12 DEF Decided, TurnInv, WaitsForItsCall, TracesOfCalls
  <2>b. /\ at = "approving" /\ at' = "answering"
        /\ UNCHANGED <<phase, cur, todo, progressed, steps, given, host, reply>>
    BY <1>12 DEF Decided
  <2>c. PICK r \in {"running", "success", "failure"}, n \in {0, 1} :
           ResultOf(cur, r, n)
    <3>1. CASE HostResult(cur)
      BY <2>a, <3>1, HostResultKeeps
    <3>2. CASE /\ ledger' = [ledger EXCEPT ![cur] = "failure"]
               /\ out' = "failure" /\ UNCHANGED effects
      <4>1. effects' = [effects EXCEPT ![cur] = 0]
        BY <1>e, <2>a, <3>2
      <4>2. /\ ledger' = [ledger EXCEPT ![cur] = "failure"]
            /\ out' = "failure"
        BY <3>2
      <4>3. /\ "failure" \in {"success", "failure"} /\ "failure" # "success"
            /\ 0 # 1
        OBVIOUS
      <4>4. ResultOf(cur, "failure", 0)
        BY ZenonT(30), <4>1, <4>2, <4>3 DEF ResultOf
      <4> QED BY <4>4
    <3> QED BY <1>12, <3>1, <3>2 DEF Decided
  <2>1. TypeOK'
    <3>1. /\ ledger' \in [Call -> {"absent", "running", "success", "failure"}]
          /\ effects' \in [Call -> Nat]
      <4>1. /\ ledger' = [ledger EXCEPT ![cur] = r]
            /\ effects' = [effects EXCEPT ![cur] = n]
        BY <2>c DEF ResultOf
      <4> QED BY <1>l, <1>e, <2>a, <4>1
    <3> QED BY <1>0, <1>12, <2>c, <3>1 DEF Decided, ResultOf, panelVars, TypeOK, Settled
  <2>2. WaitsForItsCall'
    BY <2>a, <2>b, <2>c, <1>l DEF ResultOf, WaitsForItsCall, Settled
  <2>3. NothingYet'
    BY <2>a, <2>b DEF TurnInv, NothingYet, Entered, Running
  <2>4. TracesOfCalls'
    BY <2>a, <2>b, <2>c, <1>l, <1>e DEF ResultOf, TurnInv, TracesOfCalls
  <2>5. SuccessMeansChanged'
    BY <2>a, <2>b, <2>c, <1>l, <1>e DEF ResultOf, TurnInv, SuccessMeansChanged
  <2>6. SuccessIsGiven'
    BY <2>a, <2>b, <2>c, <1>l DEF ResultOf, TurnInv, SuccessIsGiven
  <2>7. EntriesArePrepared'
    BY <2>a, <2>b, <2>c, CompleteKeeps DEF ResultOf
  <2>8. StepsAreCounted'
    BY <2>a, <2>b, <2>c, CompleteKeeps DEF ResultOf
  <2>9. StopReaches'
    BY <1>12, Frame DEF Decided, HostResult, Complete, Changed,
       nativeVars, panelVars, sharedVars
  <2> QED BY <2>1, <2>2, <2>3, <2>4, <2>5, <2>6, <2>7, <2>8, <2>9 DEF TurnInv
<1>13. CASE ResultArrives
  <2>a. cur \in Call /\ ledger[cur] = "running" /\ phase \in Running
    BY <1>13 DEF ResultArrives, TurnInv, WaitsForItsCall
  <2>b. /\ at = "waiting" /\ at' = "answering"
        /\ UNCHANGED <<phase, cur, todo, progressed, steps, given, host, reply, effects>>
    BY <1>13 DEF ResultArrives, sharedVars
  <2>c. PICK r \in {"running", "success", "failure"} :
           /\ ledger' = [ledger EXCEPT ![cur] = r]
           /\ r = "success" => reply[cur] = "success"
           /\ out' \in {"success", "failure"} /\ (out' = "success" <=> r = "success")
    BY <1>13 DEF ResultArrives, Complete, Settled
  <2>1. TypeOK'
    BY <1>0, <1>13 DEF ResultArrives, Complete,
       nativeVars, panelVars, sharedVars, TypeOK, Settled
  <2>2. WaitsForItsCall'
    BY <2>a, <2>b, <2>c, <1>l DEF WaitsForItsCall, Settled
  <2>3. NothingYet'
    BY <2>a, <2>b DEF TurnInv, NothingYet, Entered, Running
  <2>4. TracesOfCalls'
    BY <2>a, <2>b, <2>c, <1>l DEF TurnInv, TracesOfCalls
  <2>5. SuccessMeansChanged'
    BY <2>a, <2>b, <2>c, <1>l DEF TurnInv, SuccessMeansChanged
  <2>6. SuccessIsGiven'
    BY <2>a, <2>b, <2>c, <1>l DEF TurnInv, SuccessIsGiven
  <2>7. EntriesArePrepared'
    BY <2>a, <2>b, <2>c, CompleteKeeps
  <2>8. StepsAreCounted'
    BY <2>a, <2>b, <2>c, CompleteKeeps
  <2>9. StopReaches'
    BY <1>13, Frame DEF ResultArrives, Complete,
       nativeVars, panelVars, sharedVars
  <2> QED BY <2>1, <2>2, <2>3, <2>4, <2>5, <2>6, <2>7, <2>8, <2>9 DEF TurnInv
<1>14. CASE ResultTimesOut
  <2>1. TypeOK'
    BY <1>0, <1>14 DEF ResultTimesOut, nativeVars, panelVars, sharedVars,
       TypeOK, Settled
  <2>2. WaitsForItsCall'
    BY <1>14, <1>e, <1>l DEF ResultTimesOut, nativeVars, panelVars, sharedVars,
       TurnInv, WaitsForItsCall, Running, Settled
  <2>3. SuccessMeansChanged'
    BY <1>14, <1>e, <1>h, <1>l, <1>r DEF ResultTimesOut,
       nativeVars, panelVars, sharedVars, TurnInv, SuccessMeansChanged
  <2>4. SuccessIsGiven'
    BY <1>14, <1>g, <1>l DEF ResultTimesOut, nativeVars, panelVars, sharedVars,
       TurnInv, SuccessIsGiven, Running
  <2>5. /\ NothingYet'
        /\ TracesOfCalls'
        /\ EntriesArePrepared'
        /\ StepsAreCounted'
        /\ StopReaches'
    BY <1>14, Frame DEF ResultTimesOut, nativeVars, panelVars, sharedVars
  <2> QED BY <2>1, <2>2, <2>3, <2>4, <2>5 DEF TurnInv
<1>15. CASE Answer
  <2>a. /\ cur \in Call /\ phase \in Running
        /\ out \in {"success", "failure", "refused"}
        /\ out \in {"success", "failure"} => ledger[cur] # "absent"
        /\ out = "success" => ledger[cur] = "success"
    BY <1>15 DEF Answer, TurnInv, WaitsForItsCall, Settled
  <2>b. /\ at = "answering" /\ at' # "answering"
        /\ UNCHANGED <<phase, steps, ledger, host, effects>>
    BY <1>15 DEF Answer, sharedVars
  <2>c. /\ given' \in [Call -> SUBSET {"success", "failure"}]
        /\ \A d \in Call :
              "success" \in given'[d] <=>
                 ("success" \in given[d] \/ (d = cur /\ out = "success"))
    <3>1. CASE out = "refused"
      <4>1. given' = given /\ out # "success"
        BY <1>15, <3>1 DEF Answer
      <4> QED BY <1>g, <4>1
    <3>2. CASE out \in {"success", "failure"}
      <4>1. given' = [given EXCEPT ![cur] = @ \cup {out}]
        BY <1>15, <3>2 DEF Answer
      <4>2. given'[cur] = given[cur] \cup {out}
        BY <1>g, <2>a, <4>1
      <4>3. \A d \in Call : d # cur => given'[d] = given[d]
        BY <1>g, <2>a, <4>1
      <4>4. given' \in [Call -> SUBSET {"success", "failure"}]
        BY <1>g, <2>a, <3>2, <4>1
      <4>5. "success" \in {out} <=> out = "success"
        OBVIOUS
      <4>6. "success" \in given'[cur] <=>
               ("success" \in given[cur] \/ out = "success")
        BY <4>2, <4>5
      <4> QED BY <4>3, <4>4, <4>6
    <3> QED BY <2>a, <3>1, <3>2
  <2>1. TypeOK'
    BY <1>0, <1>15, <2>c DEF Answer, panelVars, sharedVars, TypeOK, Settled
  <2>2. WaitsForItsCall'
    BY <1>15, <1>e, <1>l DEF Answer, nativeVars, panelVars, sharedVars, TurnInv,
       WaitsForItsCall, Running, Settled
  <2>3. TracesOfCalls'
    BY <2>a, <2>b, <2>c DEF TurnInv, TracesOfCalls
  <2>4. SuccessIsGiven'
    <3>1. SuccessIsGiven
      BY DEF TurnInv
    <3>2. ASSUME NEW d \in Call, "success" \in given'[d] PROVE ledger'[d] = "success"
      BY <2>a, <2>b, <2>c, <3>1, <3>2 DEF SuccessIsGiven
    <3>3. ASSUME NEW d \in Call, ledger'[d] = "success" PROVE "success" \in given'[d]
      BY <2>a, <2>b, <2>c, <3>1, <3>3 DEF SuccessIsGiven
    <3> QED BY <3>2, <3>3 DEF SuccessIsGiven
  <2>5. EntriesArePrepared'
    <3>1. \A d \in Call : "success" \in given[d] => "success" \in given'[d]
      BY <2>c
    <3>2. ledger' = ledger
      BY <2>b
    <3> QED BY <3>1, <3>2 DEF TurnInv, EntriesArePrepared, Entered, Prepared
  <2>6. /\ NothingYet'
        /\ SuccessMeansChanged'
        /\ StepsAreCounted'
        /\ StopReaches'
    BY <1>15, Frame DEF Answer, nativeVars, panelVars, sharedVars
  <2> QED BY <2>1, <2>2, <2>3, <2>4, <2>5, <2>6 DEF TurnInv
<1>16. CASE TurnStartedArrives
  <2>1. TypeOK'
    BY <1>0, <1>16 DEF TurnStartedArrives, nativeVars, panelVars, sharedVars,
       TypeOK, Settled
  <2>2. /\ WaitsForItsCall'
        /\ NothingYet'
        /\ TracesOfCalls'
        /\ SuccessMeansChanged'
        /\ SuccessIsGiven'
        /\ EntriesArePrepared'
        /\ StepsAreCounted'
        /\ StopReaches'
    BY <1>16, Frame DEF TurnStartedArrives, nativeVars, panelVars, sharedVars
  <2> QED BY <2>1, <2>2 DEF TurnInv
<1>17. ASSUME NEW c \in Call,
              Deliver(c)
       PROVE  TurnInv'
  <2>a. PICK to \in {"over", "aborted", "running"} : HostAction(c, "sent", to)
    BY <1>17 DEF Deliver
  <2>1. TypeOK'
    <3>1. host' \in [Call -> {"none", "sent", "running", "aborted", "over", "success",
                              "failure"}]
      BY <1>h, <2>a DEF HostAction
    <3> QED BY <1>0, <1>17, <3>1 DEF Deliver, nativeVars, panelVars, TypeOK, Settled
  <2>2. TracesOfCalls'
    BY <1>17, <1>e, <1>g, <1>h, <1>l DEF Deliver, HostAction,
       nativeVars, panelVars, sharedVars, TurnInv, TracesOfCalls
  <2>3. SuccessMeansChanged'
    BY <1>17, <1>e, <1>h, <1>l, <1>r DEF Deliver, HostAction,
       nativeVars, panelVars, sharedVars, TurnInv, SuccessMeansChanged
  <2>4. StopReaches'
    BY <1>17, <1>h DEF Deliver, HostAction, nativeVars, panelVars, sharedVars,
       TurnInv, StopReaches, Ended
  <2>5. /\ WaitsForItsCall'
        /\ NothingYet'
        /\ SuccessIsGiven'
        /\ EntriesArePrepared'
        /\ StepsAreCounted'
    BY <1>17, Frame DEF Deliver, HostAction, nativeVars, panelVars, sharedVars
  <2> QED BY <2>1, <2>2, <2>3, <2>4, <2>5 DEF TurnInv
<1>18. ASSUME NEW c \in Call,
              HostSucceeds(c)
       PROVE  TurnInv'
  <2>a. /\ host[c] \in {"running", "aborted"}
        /\ host' = [host EXCEPT ![c] = "success"]
        /\ host[c] = "aborted" => c \notin Effectful
    BY <1>18 DEF HostSucceeds, HostAction
  <2>b. Kind[c] = "editor" /\ effects[c] = 0 /\ ledger[c] # "absent"
    BY <2>a DEF TurnInv, TracesOfCalls
  <2>c. PICK n \in {0, 1} : /\ effects' = [effects EXCEPT ![c] = n]
                            /\ n = 1 <=> c \in Effectful
    BY <1>18, <1>e, <2>b DEF HostSucceeds, Changed
  <2>d. UNCHANGED <<at, cur, out, ledger, given, reply, phase>>
    BY <1>18 DEF HostSucceeds, nativeVars
  <2>1. TypeOK'
    <3>1. /\ host' \in [Call -> {"none", "sent", "running", "aborted", "over",
                                 "success", "failure"}]
          /\ effects' \in [Call -> Nat]
      BY <1>h, <1>e, <2>a, <2>c
    <3> QED BY <1>0, <1>18, <3>1 DEF HostSucceeds, nativeVars, panelVars, TypeOK, Settled
  <2>2. WaitsForItsCall'
    BY <2>b, <2>c, <2>d, <1>e DEF TurnInv, WaitsForItsCall
  <2>3. TracesOfCalls'
    BY <2>a, <2>b, <2>c, <2>d, <1>h, <1>e DEF TurnInv, TracesOfCalls
  <2>4. SuccessMeansChanged'
    BY <2>a, <2>c, <2>d, <1>h, <1>e DEF TurnInv, SuccessMeansChanged
  <2>5. StopReaches'
    BY <1>18, <1>h DEF HostSucceeds, HostAction, Changed,
       nativeVars, panelVars, sharedVars, TurnInv, StopReaches, Ended
  <2>6. /\ NothingYet'
        /\ SuccessIsGiven'
        /\ EntriesArePrepared'
        /\ StepsAreCounted'
    BY <1>18, Frame DEF HostSucceeds, HostAction, Changed,
       nativeVars, panelVars, sharedVars
  <2> QED BY <2>1, <2>2, <2>3, <2>4, <2>5, <2>6 DEF TurnInv
<1>19. ASSUME NEW c \in Call,
              HostFails(c)
       PROVE  TurnInv'
  <2>1. TypeOK'
    BY <1>0, <1>19 DEF HostFails, HostAction, nativeVars, panelVars, sharedVars,
       TypeOK, Settled
  <2>2. TracesOfCalls'
    BY <1>19, <1>e, <1>g, <1>h, <1>l DEF HostFails, HostAction,
       nativeVars, panelVars, sharedVars, TurnInv, TracesOfCalls
  <2>3. SuccessMeansChanged'
    BY <1>19, <1>e, <1>h, <1>l, <1>r DEF HostFails, HostAction,
       nativeVars, panelVars, sharedVars, TurnInv, SuccessMeansChanged
  <2>4. StopReaches'
    BY <1>19, <1>h DEF HostFails, HostAction, nativeVars, panelVars, sharedVars,
       TurnInv, StopReaches, Ended
  <2>5. /\ WaitsForItsCall'
        /\ NothingYet'
        /\ SuccessIsGiven'
        /\ EntriesArePrepared'
        /\ StepsAreCounted'
    BY <1>19, Frame DEF HostFails, HostAction, nativeVars, panelVars, sharedVars
  <2> QED BY <2>1, <2>2, <2>3, <2>4, <2>5 DEF TurnInv
<1>20. ASSUME NEW c \in Call,
              SubmitResult(c)
       PROVE  TurnInv'
  <2>1. TypeOK'
    BY <1>0, <1>20 DEF SubmitResult, nativeVars, panelVars, sharedVars, TypeOK,
       Settled
  <2>2. TracesOfCalls'
    BY <1>20, <1>h DEF SubmitResult, nativeVars, panelVars, TurnInv, TracesOfCalls, Settled
  <2>3. SuccessMeansChanged'
    BY <1>20, <1>e, <1>h, <1>l, <1>r DEF SubmitResult,
       nativeVars, panelVars, sharedVars, TurnInv, SuccessMeansChanged
  <2>4. StopReaches'
    BY <1>20, <1>h DEF SubmitResult, nativeVars, panelVars, sharedVars, TurnInv,
       StopReaches, Ended
  <2>5. /\ WaitsForItsCall'
        /\ NothingYet'
        /\ SuccessIsGiven'
        /\ EntriesArePrepared'
        /\ StepsAreCounted'
    BY <1>20, Frame DEF SubmitResult, nativeVars, panelVars, sharedVars
  <2> QED BY <2>1, <2>2, <2>3, <2>4, <2>5 DEF TurnInv
<1>21. ASSUME NEW c \in Call, NEW decision \in {"approved", "rejected"},
              Decide(c, decision)
       PROVE  TurnInv'
  <2>1. TypeOK'
    BY <1>0, <1>21 DEF Decide, nativeVars, panelVars, sharedVars, TypeOK,
       Settled
  <2>2. /\ WaitsForItsCall'
        /\ NothingYet'
        /\ TracesOfCalls'
        /\ SuccessMeansChanged'
        /\ SuccessIsGiven'
        /\ EntriesArePrepared'
        /\ StepsAreCounted'
        /\ StopReaches'
    BY <1>21, Frame DEF Decide, nativeVars, panelVars, sharedVars
  <2> QED BY <2>1, <2>2 DEF TurnInv
<1>22. ASSUME NEW how \in {"asked", "unmounted"},
              GiveUp(how)
       PROVE  TurnInv'
  <2>1. TypeOK'
    BY <1>0, <1>22 DEF GiveUp, nativeVars, panelVars, sharedVars, TypeOK,
       Settled, Stops
  <2>2. TracesOfCalls'
    BY <1>22, <1>e, <1>g, <1>h, <1>l DEF GiveUp,
       nativeVars, panelVars, sharedVars, TurnInv, TracesOfCalls
  <2>3. SuccessMeansChanged'
    BY <1>22, <1>e, <1>h, <1>l, <1>r DEF GiveUp,
       nativeVars, panelVars, sharedVars, TurnInv, SuccessMeansChanged
  <2>4. StopReaches'
    BY <1>22, <1>h DEF GiveUp, nativeVars, panelVars, sharedVars, TurnInv,
       StopReaches, Ended
  <2>5. /\ WaitsForItsCall'
        /\ NothingYet'
        /\ SuccessIsGiven'
        /\ EntriesArePrepared'
        /\ StepsAreCounted'
    BY <1>22, Frame DEF GiveUp, nativeVars, panelVars, sharedVars
  <2> QED BY <2>1, <2>2, <2>3, <2>4, <2>5 DEF TurnInv
<1>23. CASE CancelRun
  <2>1. TypeOK'
    BY <1>0, <1>23 DEF CancelRun, nativeVars, panelVars, sharedVars, TypeOK,
       Settled
  <2>2. /\ WaitsForItsCall'
        /\ NothingYet'
        /\ TracesOfCalls'
        /\ SuccessMeansChanged'
        /\ SuccessIsGiven'
        /\ EntriesArePrepared'
        /\ StepsAreCounted'
        /\ StopReaches'
    BY <1>23, Frame DEF CancelRun, nativeVars, panelVars, sharedVars
  <2> QED BY <2>1, <2>2 DEF TurnInv
<1>24. CASE CancelReplies
  <2>1. TypeOK'
    BY ZenonT(40), <1>0, <1>24 DEF CancelReplies, nativeVars, panelVars, sharedVars, TypeOK,
       Settled
  <2>2. /\ WaitsForItsCall'
        /\ NothingYet'
        /\ TracesOfCalls'
        /\ SuccessMeansChanged'
        /\ SuccessIsGiven'
        /\ EntriesArePrepared'
        /\ StepsAreCounted'
        /\ StopReaches'
    BY <1>24, Frame DEF CancelReplies, nativeVars, panelVars, sharedVars
  <2> QED BY <2>1, <2>2 DEF TurnInv
<1>25. CASE RunReplies
  <2>1. TypeOK'
    BY <1>0, <1>25 DEF RunReplies, nativeVars, panelVars, sharedVars, TypeOK,
       Settled, Stops
  <2>2. StopReaches'
    BY <1>25, <1>l, <1>h DEF RunReplies, nativeVars, sharedVars, TurnInv, NothingYet,
       TracesOfCalls, Entered, StopReaches, Ended
  <2>3. /\ WaitsForItsCall'
        /\ NothingYet'
        /\ TracesOfCalls'
        /\ SuccessMeansChanged'
        /\ SuccessIsGiven'
        /\ EntriesArePrepared'
        /\ StepsAreCounted'
    BY <1>25, Frame DEF RunReplies, nativeVars, panelVars, sharedVars
  <2> QED BY <2>1, <2>2, <2>3 DEF TurnInv
<1>26. CASE UNCHANGED vars
  <2>1. TypeOK'
    BY <1>0, <1>26 DEF vars, nativeVars, panelVars, sharedVars, TypeOK
  <2> QED BY <1>26, <2>1, Frame DEF vars, nativeVars, panelVars, sharedVars, TurnInv
<1>27. ASSUME NEW kind \in Ended, End(kind) PROVE TurnInv'
  <2>1. TypeOK'
    BY <1>0, <1>27 DEF End, Ended, Settled, panelVars, TypeOK
  <2>2. WaitsForItsCall' /\ NothingYet' /\ StopReaches'
    BY <1>27 DEF End, Ended, WaitsForItsCall, NothingYet, StopReaches
  <2>3. TracesOfCalls' /\ EntriesArePrepared' /\ StepsAreCounted'
    BY <1>27, Frame DEF End
  <2>4. SuccessMeansChanged'
    BY <1>27 DEF End, TurnInv, SuccessMeansChanged
  <2>5. SuccessIsGiven'
    BY <1>27 DEF End, Ended, Running, TurnInv, SuccessIsGiven
  <2> QED BY <2>1, <2>2, <2>3, <2>4, <2>5 DEF TurnInv
<1> QED
  BY <1>1, <1>2, <1>3, <1>4, <1>5, <1>6, <1>7, <1>8, <1>9, <1>10, <1>11, <1>12,
     <1>13, <1>14, <1>15, <1>16, <1>17, <1>18, <1>19, <1>20, <1>21, <1>22,
     <1>23, <1>24, <1>25, <1>26, <1>27
  DEF Next, Native, FrontEnd, Broker, SelectFails, CodexEnds, CodexSaysCancelled,
     CodexFails, RoundBeyondLimit, RoundAnswers, RoundFails, CancelSeen, Ended

-----------------------------------------------------------------------------
LEMMA InvInit == Init => TurnInv
<1> SUFFICES ASSUME Init PROVE TurnInv
  OBVIOUS
<1> USE TurnAssumption
<1>1. TypeOK
  <2>1. /\ phase = "starting" /\ at = "idle" /\ cur = NoCall /\ out = "none"
        /\ progressed \in BOOLEAN /\ cancelled \in BOOLEAN
        /\ linked \in BOOLEAN /\ seen \in BOOLEAN /\ stop \in Stops
    BY DEF Init, Stops
  <2>2. todo \in Seq(Call) /\ rounds \in Nat /\ steps \in 0 .. MaxSteps /\ endings \in Nat
    BY DEF Init
  <2>3. /\ ledger \in [Call -> {"absent", "running"} \cup Settled]
        /\ reply \in [Call -> {"none", "asked"} \cup Settled]
        /\ approval \in [Call -> {"none", "asked", "approved", "rejected"}]
        /\ host \in [Call -> {"none", "sent", "running", "aborted", "over"} \cup Settled]
    BY DEF Init
  <2>4. effects \in [Call -> Nat] /\ given \in [Call -> SUBSET Settled]
    BY DEF Init
  <2> QED BY <2>1, <2>2, <2>3, <2>4 DEF TypeOK
<1>2. Entered = {}
  BY DEF Init, Entered
<1>3. WaitsForItsCall /\ NothingYet /\ TracesOfCalls /\ SuccessMeansChanged
      /\ SuccessIsGiven /\ StopReaches
  BY <1>2 DEF Init, WaitsForItsCall, NothingYet, TracesOfCalls, SuccessMeansChanged,
     SuccessIsGiven, StopReaches
<1>4. EntriesArePrepared /\ StepsAreCounted
  BY <1>2, FS_EmptySet DEF Init, EntriesArePrepared, StepsAreCounted
<1> QED BY <1>1, <1>3, <1>4 DEF TurnInv

(* The invariant holds in every behaviour.                                   *)
THEOREM Invariant == Spec => []TurnInv
<1> QED BY InvInit, InvStep, PTL DEF Spec

(* The variables keep their types; the step counter its limit.               *)
THEOREM TypeCorrect == Spec => []TypeOK
<1>1. TurnInv => TypeOK
  BY DEF TurnInv
<1> QED BY <1>1, Invariant, PTL

(* No tool changes anything before the tools its descriptor requires were    *)
(* reported as successful.                                                   *)
THEOREM PrerequisitesComeFirst == Spec => []PrerequisitesFirst
<1>1. ASSUME TurnInv PROVE PrerequisitesFirst
  <2>1. ASSUME NEW c \in Call, effects[c] > 0 PROVE Prepared(c)
    <3>1. effects[c] # 0
      BY <2>1
    <3>2. c \in Entered
      BY <1>1, <3>1 DEF TurnInv, TracesOfCalls, Entered
    <3> QED BY <1>1, <3>2 DEF TurnInv, EntriesArePrepared
  <2> QED BY <2>1 DEF PrerequisitesFirst, Prepared
<1> QED BY <1>1, Invariant, PTL

(* The calls that change something are within the policy's steps.            *)
THEOREM StepsBoundEffects == Spec => []EffectsWithinSteps
<1>1. ASSUME TurnInv PROVE EffectsWithinSteps
  <2>1. {c \in Call : effects[c] > 0} \subseteq Entered
    BY <1>1 DEF TurnInv, TypeOK, TracesOfCalls, Entered
  <2>2. IsFiniteSet(Entered) /\ Cardinality(Entered) <= steps /\ steps \in 0 .. MaxSteps
    BY <1>1 DEF TurnInv, TypeOK, StepsAreCounted
  <2>3. /\ IsFiniteSet({c \in Call : effects[c] > 0})
        /\ Cardinality({c \in Call : effects[c] > 0}) <= Cardinality(Entered)
    BY <2>1, <2>2, FS_Subset
  <2>4. /\ Cardinality({c \in Call : effects[c] > 0}) \in Nat
        /\ Cardinality(Entered) \in Nat
    BY <2>2, <2>3, FS_CardinalityType
  <2> QED BY <2>2, <2>3, <2>4, TurnAssumption DEF EffectsWithinSteps
<1> QED BY <1>1, Invariant, PTL

-----------------------------------------------------------------------------
(* After a stop no editor tool and no destructive tool changes anything.     *)
LEMMA StopStep ==
    ASSUME TurnInv, [Next]_vars, NEW c \in Call,
           \/ Kind[c] = "editor" /\ stop = "asked" /\ phase \notin Ended
           \/ Kind[c] = "destructive" /\ cancelled
    PROVE  effects'[c] = effects[c]
<1>e. effects \in [Call -> Nat]
  BY DEF TurnInv, TypeOK
<1>1. CASE effects' = effects
  BY <1>1
<1>2. ASSUME NEW d \in Call, ExecuteHost(d) PROVE effects'[c] = effects[c]
  <2>1. d # c
    BY <1>2 DEF ExecuteHost
  <2> QED BY <1>e, <1>2, <2>1 DEF ExecuteHost, HostResult, Changed
<1>3. CASE Decided
  <2>1. cur # c /\ cur \in Call
    BY <1>3 DEF Decided, TurnInv, WaitsForItsCall
  <2> QED BY <1>e, <1>3, <2>1 DEF Decided, HostResult, Changed
<1>4. ASSUME NEW d \in Call, HostSucceeds(d) PROVE effects'[c] = effects[c]
  <2>1. Kind[d] = "editor" /\ (host[d] = "running" \/ d \notin Effectful)
    BY <1>4 DEF HostSucceeds, HostAction, TurnInv, TracesOfCalls
  <2>2. CASE d = c /\ d \in Effectful
    BY <2>1, <2>2 DEF TurnInv, StopReaches
  <2>3. CASE d # c \/ d \notin Effectful
    BY <1>e, <1>4, <2>3 DEF HostSucceeds, Changed
  <2> QED BY <2>2, <2>3
<1> QED
  BY <1>1, <1>2, <1>3, <1>4 DEF Next, Native, FrontEnd, Broker, vars, sharedVars,
     Refuse, StartRun, Select, SelectFails, End, CodexProgress, CodexEnds,
     CodexSaysCancelled, CodexFails, Fallback, RoundCalls, RoundBeyondLimit,
     RoundAnswers, RoundFails, RoundDone, Invalid, Replay, StillRunning, Answering,
     AskApproval, RequestEditor, ResultArrives, ResultTimesOut, Answer, CancelSeen,
     TurnStartedArrives, CancelRun, CancelReplies, RunReplies, GiveUp, Deliver,
     HostFails, SubmitResult, Decide

(* After Stop the turn changes no document, and after the run's cancellation *)
(* no approval makes it change the workspace.                                *)
THEOREM StopIsFinal == Spec => StopHolds
<1>1. TurnInv /\ [Next]_vars =>
         [\A c \in Call :
             \/ Kind[c] = "editor" /\ stop = "asked" /\ phase \notin Ended
             \/ Kind[c] = "destructive" /\ cancelled
             => effects'[c] = effects[c]]_vars
  BY StopStep
<1> QED BY <1>1, Invariant, PTL DEF Spec, StopHolds

-----------------------------------------------------------------------------
(* What the promise does not see.                                            *)
Unseen ==
    /\ phase' \in Ended <=> phase \in Ended
    /\ Entered' = Entered
    /\ effects' = effects
    /\ given' = given

LEMMA UnseenStutters == Unseen => UNCHANGED Promise!promiseVars
<1> SUFFICES ASSUME Unseen PROVE UNCHANGED Promise!promiseVars
  OBVIOUS
<1>1. (phase' \in Ended) = (phase \in Ended)
  <2>1. CASE phase \in Ended
    BY <2>1 DEF Unseen
  <2>2. CASE phase \notin Ended
    BY <2>2 DEF Unseen
  <2> QED BY <2>1, <2>2
<1> QED BY <1>1 DEF Unseen, Entered, Promise!promiseVars

(* A call that enters the ledger of an open turn is accepted.                *)
LEMMA EnterIsAccept ==
    ASSUME TurnInv, NEW c \in Call, NEW r \in {"running", "success", "failure"},
           ledger[c] = "absent", ledger' = [ledger EXCEPT ![c] = r],
           phase \in Running, phase' = phase, given' = given
    PROVE  Promise!Accept(c)
<1>1. ledger \in [Call -> {"absent", "running", "success", "failure"}]
  BY DEF TurnInv, TypeOK, Settled
<1>2. Entered' = Entered \cup {c} /\ c \notin Entered
  BY <1>1 DEF Entered
<1>3. phase \notin Ended /\ (phase' \in Ended) = (phase \in Ended)
  BY DEF Running, Ended
<1> QED BY <1>2, <1>3 DEF Entered, Promise!Accept

(* The one change of an accepted call.                                       *)
LEMMA ChangeIsEffect ==
    ASSUME TurnInv, NEW c \in Call, effects[c] = 0, ledger'[c] # "absent",
           NEW n \in {0, 1}, effects' = [effects EXCEPT ![c] = n],
           n = 1 => c \in Effectful
    PROVE  effects' = effects \/ Promise!TakeEffect(c)
<1>1. effects \in [Call -> Nat]
  BY DEF TurnInv, TypeOK
<1>2. CASE n = 0
  BY <1>1, <1>2
<1>3. CASE n = 1
  <2>1. c \in Entered'
    BY DEF Entered
  <2> QED BY <1>3, <2>1 DEF Entered, Promise!TakeEffect
<1> QED BY <1>2, <1>3

LEMMA StepImplements == TurnInv /\ [Next]_vars => [Promise!Next]_(Promise!promiseVars)
<1> SUFFICES ASSUME TurnInv, [Next]_vars
             PROVE  Promise!Next \/ UNCHANGED Promise!promiseVars
  OBVIOUS
<1>l. ledger \in [Call -> {"absent", "running", "success", "failure"}]
  BY DEF TurnInv, TypeOK, Settled
<1>1. ASSUME NEW kind \in Ended, End(kind) PROVE Promise!Next
  <2>1. (phase' \in Ended) = TRUE
    BY <1>1 DEF End
  <2> QED BY <1>1, <2>1 DEF End, Promise!End, Promise!Next
<1>2. CASE Select \/ Fallback
  <2>1. /\ FreshBroker /\ Entered = {} /\ UNCHANGED <<effects, given>>
        /\ phase \notin Ended /\ phase' \notin Ended
    BY <1>2 DEF Select, Fallback, sharedVars, TurnInv, NothingYet, Ended, Running
  <2>2. ledger' = ledger
    BY <2>1, FreshIsEmpty
  <2> QED BY <2>1, <2>2, UnseenStutters DEF Unseen, Entered
<1>3. CASE Refuse \/ StartRun
  <2>1. UNCHANGED <<ledger, effects, given>> /\ phase \notin Ended /\ phase' \notin Ended
    BY <1>3 DEF Refuse, StartRun, sharedVars, Ended
  <2> QED BY <2>1, UnseenStutters DEF Unseen, Entered
<1>4. CASE UNCHANGED <<phase, ledger, effects, given>>
  BY <1>4, UnseenStutters DEF Unseen, Entered
<1>5. ASSUME NEW c \in Call, ExecuteHost(c) PROVE Promise!Next
  <2>1. /\ Asked(c) /\ ledger[c] = "absent" /\ phase' = phase /\ given' = given
        /\ HostResult(c)
    BY <1>5 DEF ExecuteHost, Admitted
  <2>2. phase \in Running /\ effects[c] = 0
    BY <2>1, AskedKeeps DEF TurnInv, TracesOfCalls
  <2>3. PICK r \in {"running", "success", "failure"}, n \in {0, 1} : ResultOf(c, r, n)
    BY <2>1, <2>2, HostResultKeeps
  <2>4. /\ ledger' = [ledger EXCEPT ![c] = r] /\ effects' = [effects EXCEPT ![c] = n]
        /\ n = 1 => c \in Effectful
    BY <2>3 DEF ResultOf
  <2>5. ledger'[c] # "absent"
    BY <1>l, <2>4
  <2>6. Promise!Accept(c)
    BY <2>1, <2>2, <2>4, EnterIsAccept
  <2>7. effects' = effects \/ Promise!TakeEffect(c)
    BY <2>2, <2>4, <2>5, ChangeIsEffect
  <2> QED BY <2>6, <2>7 DEF Promise!Next, Promise!AcceptAndAct
<1>6. ASSUME NEW c \in Call, AskApproval(c) \/ RequestEditor(c) PROVE Promise!Next
  <2>1. /\ Asked(c) /\ ledger[c] = "absent" /\ phase' = phase /\ given' = given
        /\ ledger' = [ledger EXCEPT ![c] = "running"] /\ effects' = effects
    BY <1>6 DEF AskApproval, RequestEditor, Admitted
  <2>2. phase \in Running
    BY <2>1, AskedKeeps
  <2>3. Promise!Accept(c)
    BY <2>1, <2>2, EnterIsAccept
  <2> QED BY <2>1, <2>3 DEF Promise!Next, Promise!AcceptAndAct
<1>7. ASSUME NEW c \in Call, ledger[c] # "absent", effects[c] = 0,
             NEW r \in {"running", "success", "failure"}, NEW n \in {0, 1},
             ledger' = [ledger EXCEPT ![c] = r], effects' = [effects EXCEPT ![c] = n],
             n = 1 => c \in Effectful, phase' = phase, given' = given
      PROVE  Promise!Next \/ UNCHANGED Promise!promiseVars
  <2>1. ledger'[c] # "absent" /\ Entered' = Entered
    BY <1>l, <1>7 DEF Entered
  <2>2. CASE effects' = effects
    BY <1>7, <2>1, <2>2, UnseenStutters DEF Unseen
  <2>3. CASE Promise!TakeEffect(c)
    <3>1. (phase' \in Ended) = (phase \in Ended)
      BY <1>7
    <3>2. Promise!ActLater(c)
      BY <1>7, <2>1, <2>3, <3>1 DEF Entered, Promise!ActLater
    <3> QED BY <3>2 DEF Promise!Next
  <2>4. effects' = effects \/ Promise!TakeEffect(c)
    BY <1>7, <2>1, ChangeIsEffect
  <2> QED BY <2>2, <2>3, <2>4
<1>8. CASE Decided
  <2>1. cur \in Call /\ ledger[cur] = "running" /\ effects[cur] = 0
    BY <1>8 DEF Decided, TurnInv, WaitsForItsCall
  <2>2. phase' = phase /\ given' = given
    BY <1>8 DEF Decided
  <2>3. CASE HostResult(cur)
    <3>1. PICK r \in {"running", "success", "failure"}, n \in {0, 1} : ResultOf(cur, r, n)
      BY <2>1, <2>3, HostResultKeeps
    <3>2. /\ ledger' = [ledger EXCEPT ![cur] = r]
          /\ effects' = [effects EXCEPT ![cur] = n]
          /\ n = 1 => cur \in Effectful
      BY <3>1 DEF ResultOf
    <3> QED BY <1>7, <2>1, <2>2, <3>2
  <2>4. CASE ledger' = [ledger EXCEPT ![cur] = "failure"] /\ UNCHANGED effects
    <3>1. Entered' = Entered
      BY <1>l, <2>1, <2>4 DEF Entered
    <3> QED BY <2>2, <2>4, <3>1, UnseenStutters DEF Unseen
  <2> QED BY <1>8, <2>3, <2>4 DEF Decided
<1>9. CASE ResultArrives
  <2>1. cur \in Call /\ ledger[cur] = "running" /\ UNCHANGED <<phase, effects, given>>
    BY <1>9 DEF ResultArrives, TurnInv, WaitsForItsCall, sharedVars
  <2>2. PICK r \in {"running", "success", "failure"} : ledger' = [ledger EXCEPT ![cur] = r]
    BY <1>9 DEF ResultArrives, Complete, Settled
  <2>3. Entered' = Entered
    BY <1>l, <2>1, <2>2 DEF Entered
  <2> QED BY <2>1, <2>3, UnseenStutters DEF Unseen
<1>10. CASE Answer
  <2>1. /\ cur \in Call /\ phase \in Running
        /\ out \in {"success", "failure", "refused"}
        /\ out \in {"success", "failure"} => ledger[cur] # "absent"
        /\ out # "refused" => (out = "success" <=> ledger[cur] = "success")
    BY <1>10 DEF Answer, TurnInv, WaitsForItsCall, Settled
  <2>2. UNCHANGED <<phase, ledger, effects>>
    BY <1>10 DEF Answer, sharedVars
  <2>3. CASE out = "refused"
    BY <1>10, <2>2, <2>3, <1>4 DEF Answer
  <2>4. CASE out \in {"success", "failure"}
    <3>1. given' = [given EXCEPT ![cur] = @ \cup {out}]
      BY <1>10, <2>4 DEF Answer
    <3>2. phase \notin Ended /\ (phase' \in Ended) = (phase \in Ended)
      BY <2>1, <2>2 DEF Running, Ended
    <3>3. cur \in Entered /\ Entered' = Entered
      BY <2>1, <2>2, <2>4 DEF Entered
    <3>4. out = "success" => (cur \in Effectful => effects[cur] = 1)
      BY <2>1, <2>4 DEF TurnInv, SuccessMeansChanged
    <3>5. out = "failure" => "success" \notin given[cur]
      BY <2>1, <2>4 DEF TurnInv, SuccessIsGiven
    <3>6. Promise!Report(cur, out)
      BY <2>2, <3>1, <3>2, <3>3, <3>4, <3>5 DEF Entered, Promise!Report
    <3> QED BY <2>1, <2>4, <3>6 DEF Promise!Next
  <2> QED BY <2>1, <2>3, <2>4
<1>11. ASSUME NEW c \in Call, HostSucceeds(c)
       PROVE  Promise!Next \/ UNCHANGED Promise!promiseVars
  <2>1. effects[c] = 0 /\ ledger[c] # "absent" /\ UNCHANGED <<phase, ledger, given>>
    BY <1>11 DEF HostSucceeds, HostAction, TurnInv, TracesOfCalls, nativeVars
  <2>2. CASE c \in Effectful
    <3>1. effects' = [effects EXCEPT ![c] = 1]
      <4>1. effects' = [effects EXCEPT ![c] = effects[c] + 1]
        BY <1>11, <2>2 DEF HostSucceeds, Changed
      <4> QED BY <2>1, <4>1
    <3>2. ledger[c] \in {"running", "success", "failure"}
          /\ ledger' = [ledger EXCEPT ![c] = ledger[c]]
      BY <1>l, <2>1
    <3> QED BY <1>7, <2>1, <2>2, <3>1, <3>2
  <2>3. CASE c \notin Effectful
    BY <1>11, <2>1, <2>3, <1>4 DEF HostSucceeds
  <2> QED BY <2>2, <2>3
<1> QED
  BY <1>1, <1>2, <1>3, <1>4, <1>5, <1>6, <1>8, <1>9, <1>10, <1>11
  DEF Next, Native, FrontEnd, Broker, vars, nativeVars, sharedVars, SelectFails,
     CodexProgress, CodexEnds, CodexSaysCancelled, CodexFails, RoundCalls,
     RoundBeyondLimit, RoundAnswers, RoundFails, RoundDone, Invalid, Replay,
     StillRunning, Answering, ResultTimesOut, CancelSeen, Ended, TurnStartedArrives,
     CancelRun, CancelReplies, RunReplies, GiveUp, Deliver, HostFails, SubmitResult,
     Decide

LEMMA InitImplements == Init => Promise!Init
<1> SUFFICES ASSUME Init PROVE Promise!Init
  OBVIOUS
<1>1. (phase \in Ended) = FALSE /\ {c \in Call : ledger[c] # "absent"} = {}
  BY DEF Init, Ended
<1> QED BY <1>1 DEF Init, Promise!Init

(* A turn with its two runtimes, ledgers, waiters and late results keeps the *)
(* promise of its tool calls: every step is one of the promise or none.      *)
THEOREM ToolPromiseIsKept == Spec => KeepsToolPromise
<1> QED BY InitImplements, StepImplements, Invariant, PTL
        DEF Spec, KeepsToolPromise, Promise!Spec

(* Workspace tools *)

Places == {"idle", "done", "failed", "called", "captured", "planned",
           "checking", "writing", "comparing", "restoring"}

WorkerTypes ==
    /\ disk \in [File -> State \cup {Blocked}]
    /\ context \in Context \cup {NoContext}
    /\ syncing \subseteq Context \cup {NoContext}
    /\ syncs \in Nat
    /\ pc \in [Worker -> Places]
    /\ captured \in [Worker -> Context \cup {NoContext}]
    /\ plan \in [Worker -> Seq(Snapshot)]
    /\ nth \in [Worker -> Nat]
    /\ unrestored \in [Worker -> BOOLEAN]
    /\ foreign \in [Worker -> SUBSET File]

(* What the ledger holds can be undone.                                      *)
LedgerShape ==
    /\ \E S : entries \in Seq(S)
    /\ \A i \in DOMAIN entries :
          /\ entries[i].snapshots \in Seq(Snapshot)
          /\ Distinct(entries[i].snapshots)

Target(w, i) == plan[w][i].file

(* Where a worker is in its plan.                                            *)
Placed(w) ==
    /\ pc[w] \in {"called", "captured"} => plan[w] = <<>>
    /\ pc[w] = "checking" => nth[w] \in 1 .. Len(plan[w]) + 1
    /\ pc[w] \in {"writing", "comparing", "restoring"} => nth[w] \in 1 .. Len(plan[w])
    /\ unrestored[w] => pc[w] \in {"comparing", "restoring", "failed"}
    /\ Distinct(plan[w])

(* What is planned may be changed under the context of the call.             *)
MayChange(w) ==
    pc[w] \in {"captured", "planned"} =>
        /\ captured[w] \in Context
        /\ \A i \in DOMAIN plan[w] : Mutable(w, Target(w, i))

(* A file of the plan is as it was found, or as the call is to leave it.     *)
AsFound(w, i) ==
    \/ pc[w] = "planned"
    \/ pc[w] \in {"checking", "writing"} /\ nth[w] <= i
    \/ pc[w] \in {"comparing", "restoring"} /\ nth[w] < i /\ ~unrestored[w]
    \/ pc[w] = "failed" /\ ~unrestored[w] /\ ~BlocksHalfway

AsWritten(w, i) ==
    \/ pc[w] \in {"checking", "writing"} /\ i < nth[w]
    \/ pc[w] \in {"comparing", "restoring"} /\ i <= nth[w]
    \/ pc[w] = "done"

FilesHold(w) ==
    \A i \in DOMAIN plan[w] : Target(w, i) \notin foreign[w] =>
        /\ AsFound(w, i) => disk[Target(w, i)] = plan[w][i].from
        /\ AsWritten(w, i) => disk[Target(w, i)] = plan[w][i].to

(* Nothing stops being a file half-way.                                      *)
StayFiles(w) ==
    ~BlocksHalfway /\ pc[w] \in Steps =>
        \A i \in DOMAIN plan[w] : i > 1 => disk[Target(w, i)] # Blocked

WorkerInv(w) == Placed(w) /\ MayChange(w) /\ FilesHold(w) /\ StayFiles(w)

AgentInv ==
    /\ WorkerTypes /\ LedgerShape
    /\ \A w \in Worker : WorkerInv(w)
-----------------------------------------------------------------------------
(* Sequences of snapshots *)

LEMMA SnapshotType ==
    ASSUME NEW s \in Seq(Snapshot), NEW i \in DOMAIN s
    PROVE  s[i] \in Snapshot /\ s[i].file \in File /\ s[i].from \in State
           /\ s[i].to \in State /\ i \in Nat /\ i >= 1 /\ i <= Len(s)
<1>1. Len(s) \in Nat /\ DOMAIN s = 1 .. Len(s) /\ s[i] \in Snapshot
  OBVIOUS
<1> QED BY <1>1 DEF Snapshot

(* An undo plans the snapshots of a change set the other way round.          *)
LEMMA ReversedType ==
    ASSUME NEW s \in Seq(Snapshot)
    PROVE  /\ Reversed(s) \in Seq(Snapshot)
           /\ DOMAIN Reversed(s) = DOMAIN s
           /\ \A i \in DOMAIN s : /\ Reversed(s)[i].file = s[i].file
                                  /\ Reversed(s)[i].from = s[i].to
                                  /\ Reversed(s)[i].to = s[i].from
           /\ Distinct(s) => Distinct(Reversed(s))
<1>1. DOMAIN s = 1 .. Len(s) /\ Len(s) \in Nat
  OBVIOUS
<1>2. \A i \in DOMAIN s : [file |-> s[i].file, from |-> s[i].to, to |-> s[i].from]
                             \in Snapshot
  BY SnapshotType DEF Snapshot
<1>3. Reversed(s) \in Seq(Snapshot)
  BY <1>1, <1>2 DEF Reversed
<1>4. /\ DOMAIN Reversed(s) = DOMAIN s
      /\ \A i \in DOMAIN s : /\ Reversed(s)[i].file = s[i].file
                             /\ Reversed(s)[i].from = s[i].to
                             /\ Reversed(s)[i].to = s[i].from
  BY DEF Reversed
<1>5. Distinct(s) => Distinct(Reversed(s))
  BY <1>4 DEF Distinct
<1> QED BY <1>3, <1>4, <1>5

LEMMA AppendType ==
    ASSUME NEW s \in Seq(Snapshot), NEW x \in Snapshot
    PROVE  /\ Append(s, x) \in Seq(Snapshot)
           /\ \A i \in DOMAIN Append(s, x) :
                 \/ i \in DOMAIN s /\ Append(s, x)[i] = s[i]
                 \/ i = Len(s) + 1 /\ Append(s, x)[i] = x
           /\ Distinct(s) /\ x.file \notin FilesOf(s) => Distinct(Append(s, x))
<1>1. /\ Append(s, x) \in Seq(Snapshot)
      /\ \A i \in DOMAIN Append(s, x) :
            \/ i \in DOMAIN s /\ Append(s, x)[i] = s[i]
            \/ i = Len(s) + 1 /\ Append(s, x)[i] = x
  OBVIOUS
<1>2. ASSUME Distinct(s), x.file \notin FilesOf(s) PROVE Distinct(Append(s, x))
  <2>1. \A i \in DOMAIN s : s[i].file # x.file
    BY <1>2 DEF FilesOf
  <2> QED BY <1>1, <1>2, <2>1 DEF Distinct
<1> QED BY <1>1, <1>2

(* What is left of a sequence and one element more holds nothing new.        *)
LEMMA EndOfALongerSequence ==
    ASSUME NEW S, NEW s \in Seq(S), NEW e, NEW m \in 0 .. Len(Append(s, e)),
           NEW t, t = SubSeq(Append(s, e), m + 1, Len(Append(s, e)))
    PROVE  /\ t \in Seq(S \cup {e})
           /\ \A i \in DOMAIN t : t[i] = e \/ \E k \in DOMAIN s : t[i] = s[k]
<1> DEFINE u == Append(s, e)
<1>1. /\ u \in Seq(S \cup {e}) /\ Len(u) = Len(s) + 1 /\ Len(s) \in Nat
      /\ DOMAIN u = 1 .. Len(s) + 1 /\ DOMAIN s = 1 .. Len(s)
      /\ \A i \in 1 .. Len(s) : u[i] = s[i]
      /\ u[Len(s) + 1] = e
  OBVIOUS
<1>2. t = SubSeq(u, m + 1, Len(u)) /\ m \in 0 .. Len(u)
  OBVIOUS
<1> HIDE DEF u
<1>3. \A i \in m + 1 .. Len(u) : u[i] \in S \cup {e}
  BY <1>1
<1>4. m + 1 \in Int /\ Len(u) \in Int
  BY <1>1
<1>5. /\ t \in Seq(S \cup {e})
      /\ Len(t) = IF m + 1 <= Len(u) THEN Len(u) - (m + 1) + 1 ELSE 0
      /\ \A i \in 1 .. Len(u) - (m + 1) + 1 : t[i] = u[m + 1 + i - 1]
  <2> DEFINE r == SubSeq(u, m + 1, Len(u))
  <2>1. /\ r \in Seq(S \cup {e})
        /\ Len(r) = IF m + 1 <= Len(u) THEN Len(u) - (m + 1) + 1 ELSE 0
        /\ \A i \in 1 .. Len(u) - (m + 1) + 1 : r[i] = u[m + 1 + i - 1]
    BY <1>3, <1>4, SubSeqProperties
  <2>2. t = r
    BY <1>2
  <2> HIDE DEF r
  <2> QED BY <2>1, <2>2
<1>6. DOMAIN t = 1 .. Len(t)
  BY <1>5
<1>7. ASSUME NEW i \in DOMAIN t PROVE t[i] = e \/ \E k \in DOMAIN s : t[i] = s[k]
  <2>1. i \in Nat /\ i >= 1 /\ i <= Len(u) - m /\ t[i] = u[m + i]
    BY <1>1, <1>2, <1>5, <1>6
  <2>2. CASE m + i <= Len(s)
    BY <1>1, <1>2, <2>1, <2>2
  <2>3. CASE m + i > Len(s)
    BY <1>1, <1>2, <2>1, <2>3
  <2> QED BY <1>1, <1>2, <2>1, <2>2, <2>3
<1> QED BY <1>5, <1>7

-----------------------------------------------------------------------------
(* A step of somebody else that spares a worker's files, or says that it did *)
(* not, keeps what is known of them.                                         *)
LEMMA Bystander ==
    ASSUME AgentInv, NEW w \in Worker,
           pc'[w] = pc[w], plan'[w] = plan[w], nth'[w] = nth[w],
           unrestored'[w] = unrestored[w], captured'[w] = captured[w],
           \A i \in DOMAIN plan[w] : Target(w, i) \notin foreign'[w] =>
               /\ Target(w, i) \notin foreign[w]
               /\ disk'[Target(w, i)] = disk[Target(w, i)],
           ~BlocksHalfway /\ pc[w] \in Steps =>
               \A i \in DOMAIN plan[w] :
                   i > 1 /\ disk'[Target(w, i)] = Blocked => disk[Target(w, i)] = Blocked
    PROVE  WorkerInv(w)'
<1>0. WorkerInv(w)
  BY DEF AgentInv
<1>1. Placed(w)'
  BY <1>0 DEF WorkerInv, Placed, Distinct
<1>2. MayChange(w)'
  BY <1>0 DEF WorkerInv, MayChange, Mutable, Target
<1>3. FilesHold(w)'
  BY <1>0 DEF WorkerInv, FilesHold, AsFound, AsWritten, Target
<1>4. StayFiles(w)'
  BY <1>0 DEF WorkerInv, StayFiles, Target
<1> QED BY <1>1, <1>2, <1>3, <1>4 DEF WorkerInv

(* A change that is noted for everybody else spares them.                    *)
LEMMA ChangeIsNoted ==
    ASSUME AgentInv, NEW who, NEW f \in File, NEW state, Change(who, f, state),
           NEW w \in Worker, w # who,
           ~BlocksHalfway /\ state = Blocked => ~LaterTarget(f)
    PROVE  /\ \A i \in DOMAIN plan[w] : Target(w, i) \notin foreign'[w] =>
                  /\ Target(w, i) \notin foreign[w]
                  /\ disk'[Target(w, i)] = disk[Target(w, i)]
           /\ ~BlocksHalfway /\ pc[w] \in Steps =>
                 \A i \in DOMAIN plan[w] :
                    i > 1 /\ disk'[Target(w, i)] = Blocked => disk[Target(w, i)] = Blocked
<1>1. disk \in [File -> State \cup {Blocked}] /\ plan[w] \in Seq(Snapshot)
  BY DEF AgentInv, WorkerTypes
<1>2. /\ disk' = [disk EXCEPT ![f] = state]
      /\ foreign'[w] = IF f \in FilesOf(plan[w]) THEN foreign[w] \cup {f} ELSE foreign[w]
  BY DEF Change
<1>3. \A i \in DOMAIN plan[w] : Target(w, i) \in FilesOf(plan[w]) /\ Target(w, i) \in File
  BY <1>1, SnapshotType DEF Target, FilesOf
<1>4. \A i \in DOMAIN plan[w] : Target(w, i) \notin foreign'[w] =>
          Target(w, i) \notin foreign[w] /\ Target(w, i) # f
  BY <1>2, <1>3
<1>5. \A i \in DOMAIN plan[w] : Target(w, i) # f => disk'[Target(w, i)] = disk[Target(w, i)]
  BY <1>1, <1>2, <1>3
<1>6. ASSUME ~BlocksHalfway, pc[w] \in Steps, NEW i \in DOMAIN plan[w], i > 1,
             disk'[Target(w, i)] = Blocked
      PROVE  disk[Target(w, i)] = Blocked
  <2>1. CASE Target(w, i) # f
    BY <1>5, <1>6, <2>1
  <2>2. CASE Target(w, i) = f
    <3>1. state = Blocked
      BY <1>1, <1>2, <1>6, <2>2
    <3>2. i \in 2 .. Len(plan[w])
      BY <1>1, <1>6, SnapshotType
    <3>3. LaterTarget(f)
      BY <1>6, <2>2, <3>2 DEF LaterTarget, Target
    <3> QED BY <1>6, <3>1, <3>3
  <2> QED BY <2>1, <2>2
<1> QED BY <1>4, <1>5, <1>6

LEMMA ChangeType ==
    ASSUME AgentInv, NEW who, NEW f \in File, NEW state \in State \cup {Blocked},
           Change(who, f, state)
    PROVE  /\ disk' \in [File -> State \cup {Blocked}]
           /\ foreign' \in [Worker -> SUBSET File]
<1>1. disk \in [File -> State \cup {Blocked}] /\ foreign \in [Worker -> SUBSET File]
  BY DEF AgentInv, WorkerTypes
<1> QED BY <1>1 DEF Change

(* A worker's own change is no news to it, and leaves its other files alone. *)
LEMMA OwnChange ==
    ASSUME AgentInv, NEW w \in Worker, NEW k \in DOMAIN plan[w], NEW state,
           Change(w, Target(w, k), state)
    PROVE  /\ foreign'[w] = foreign[w] \ {Target(w, k)}
           /\ disk'[Target(w, k)] = state
           /\ \A i \in DOMAIN plan[w] : i # k =>
                 /\ Target(w, i) # Target(w, k)
                 /\ disk'[Target(w, i)] = disk[Target(w, i)]
<1>1. disk \in [File -> State \cup {Blocked}] /\ plan[w] \in Seq(Snapshot)
  BY DEF AgentInv, WorkerTypes
<1>2. \A i \in DOMAIN plan[w] : Target(w, i) \in File
  BY <1>1, SnapshotType DEF Target
<1>3. \A i \in DOMAIN plan[w] : i # k => Target(w, i) # Target(w, k)
  BY DEF AgentInv, WorkerInv, Placed, Distinct, Target
<1> QED BY <1>1, <1>2, <1>3 DEF Change

(* On the way back, what was written before the present place is as written, *)
(* and the rest as found.                                                    *)
LEMMA BackKeeps ==
    ASSUME AgentInv, NEW w \in Worker, StepsBack(w), plan' = plan,
           pc[w] \in {"checking", "writing", "comparing", "restoring"},
           nth[w] \in 1 .. Len(plan[w]),
           \A i \in DOMAIN plan[w] : Target(w, i) \notin foreign'[w] =>
              /\ i < nth[w] => disk'[Target(w, i)] = plan[w][i].to
              /\ nth[w] <= i /\ ~unrestored'[w]
                    => disk'[Target(w, i)] = plan[w][i].from,
           ~BlocksHalfway =>
              \A i \in DOMAIN plan[w] : i > 1 => disk'[Target(w, i)] # Blocked
    PROVE  /\ pc' \in [Worker -> Places] /\ nth' \in [Worker -> Nat]
           /\ \A x \in Worker : x # w => pc'[x] = pc[x] /\ nth'[x] = nth[x]
           /\ WorkerInv(w)'
<1>1. /\ pc \in [Worker -> Places] /\ nth \in [Worker -> Nat]
      /\ plan \in [Worker -> Seq(Snapshot)]
  BY DEF AgentInv, WorkerTypes
<1>2. /\ nth' = [nth EXCEPT ![w] = nth[w] - 1]
      /\ pc' = [pc EXCEPT ![w] = IF nth[w] = 1 THEN "failed" ELSE "comparing"]
  BY DEF StepsBack, Goes
<1>3. /\ pc' \in [Worker -> Places] /\ nth' \in [Worker -> Nat]
      /\ \A x \in Worker : x # w => pc'[x] = pc[x] /\ nth'[x] = nth[x]
  BY <1>1, <1>2 DEF Places
<1>4. /\ nth'[w] = nth[w] - 1 /\ pc'[w] \in {"failed", "comparing"}
      /\ pc'[w] = "failed" => nth[w] = 1
      /\ pc'[w] = "comparing" => nth[w] # 1
  BY <1>1, <1>2
<1>5. /\ plan[w] \in Seq(Snapshot) /\ Len(plan[w]) \in Nat
      /\ \A i \in DOMAIN plan[w] : i \in Nat /\ i >= 1
  BY <1>1, SnapshotType
<1>6. Placed(w)' /\ MayChange(w)'
  <2>1. Distinct(plan[w])
    BY DEF AgentInv, WorkerInv, Placed
  <2> QED BY <1>4, <1>5, <2>1 DEF Placed, MayChange, Distinct
<1>7. FilesHold(w)'
  <2>1. ASSUME NEW i \in DOMAIN plan[w], AsFound(w, i)' PROVE nth[w] <= i /\ ~unrestored'[w]
    BY <1>4, <1>5, <2>1 DEF AsFound
  <2>2. ASSUME NEW i \in DOMAIN plan[w], AsWritten(w, i)' PROVE i < nth[w]
    BY <1>4, <1>5, <2>2 DEF AsWritten
  <2> QED BY <2>1, <2>2 DEF FilesHold, Target
<1>8. StayFiles(w)'
  BY DEF StayFiles, Target
<1> QED BY <1>3, <1>6, <1>7, <1>8 DEF WorkerInv

-----------------------------------------------------------------------------
LEMMA WorkspaceInvStep == AgentInv /\ [WorkspaceNext]_workspaceVars => AgentInv'
<1> SUFFICES ASSUME AgentInv, [WorkspaceNext]_workspaceVars PROVE AgentInv'
  OBVIOUS
<1> USE HostAssumption
<1>0. WorkerTypes /\ LedgerShape
  BY DEF AgentInv
<1>b. \A s \in State : s # Blocked
  BY DEF State, Absent, Blocked
<1>p. pc \in [Worker -> Places]
  BY <1>0 DEF WorkerTypes
<1>d. disk \in [File -> State \cup {Blocked}] /\ foreign \in [Worker -> SUBSET File]
  BY <1>0 DEF WorkerTypes
<1>n. plan \in [Worker -> Seq(Snapshot)] /\ nth \in [Worker -> Nat]
  BY <1>0 DEF WorkerTypes
<1>u. unrestored \in [Worker -> BOOLEAN]
      /\ captured \in [Worker -> Context \cup {NoContext}]
  BY <1>0 DEF WorkerTypes
<1>1. ASSUME UNCHANGED <<disk, pc, captured, plan, nth, unrestored, foreign, entries>>,
             context' \in Context \cup {NoContext}, syncing' \subseteq Context \cup {NoContext},
             syncs' \in Nat
      PROVE  AgentInv'
  <2>1. WorkerTypes'
    BY <1>0, <1>1 DEF WorkerTypes
  <2>2. LedgerShape'
    BY <1>0, <1>1 DEF LedgerShape, Distinct
  <2>3. ASSUME NEW x \in Worker PROVE WorkerInv(x)'
    BY <1>1, Bystander
  <2> QED BY <2>1, <2>2, <2>3 DEF AgentInv
<1>2. ASSUME NEW sent \in Contexts, SyncBegins(sent) PROVE AgentInv'
  <2>1. /\ syncs' \in Nat
        /\ syncing' \subseteq Context \cup {NoContext}
        /\ UNCHANGED <<disk, context, pc, captured, plan, nth, unrestored, foreign>>
    BY <1>0, <1>2 DEF SyncBegins, WorkerTypes, Context, callVars
  <2>2. CASE entries' = entries
    BY <1>0, <1>1, <2>1, <2>2 DEF WorkerTypes
  <2>3. CASE entries' = <<>>
    <3>1. WorkerTypes'
      BY <1>0, <2>1 DEF WorkerTypes
    <3>2. LedgerShape'
      <4>1. <<>> \in Seq({}) /\ DOMAIN <<>> = {}
        OBVIOUS
      <4> QED BY <2>3, <4>1 DEF LedgerShape
    <3>3. ASSUME NEW x \in Worker PROVE WorkerInv(x)'
      BY <2>1, Bystander
    <3> QED BY <3>1, <3>2, <3>3 DEF AgentInv
  <2> QED BY <1>2, <2>2, <2>3 DEF SyncBegins, ledgerVars
<1>3. CASE SyncLeaves
  <2>1. /\ syncs' \in Nat
        /\ syncing' \subseteq Context \cup {NoContext}
        /\ UNCHANGED <<disk, context, pc, captured, plan, nth, unrestored, foreign>>
    BY <1>0, <1>3 DEF SyncLeaves, WorkerTypes, callVars
  <2>2. CASE entries' = entries
    BY <1>0, <1>1, <2>1, <2>2 DEF WorkerTypes
  <2>3. CASE entries' = <<>>
    <3>1. WorkerTypes'
      BY <1>0, <2>1 DEF WorkerTypes
    <3>2. LedgerShape'
      <4>1. <<>> \in Seq({}) /\ DOMAIN <<>> = {}
        OBVIOUS
      <4> QED BY <2>3, <4>1 DEF LedgerShape
    <3>3. ASSUME NEW x \in Worker PROVE WorkerInv(x)'
      BY <2>1, Bystander
    <3> QED BY <3>1, <3>2, <3>3 DEF AgentInv
  <2> QED BY <1>3, <2>2, <2>3 DEF SyncLeaves, ledgerVars
<1>4. CASE SyncEnds
  <2> QED BY <1>0, <1>1, <1>4 DEF SyncEnds, WorkerTypes, callVars, ledgerVars
<1>5. ASSUME NEW w \in Worker, TurnStarts(w) PROVE AgentInv'
  <2> QED BY <1>0, <1>1, <1>5 DEF TurnStarts, WorkerTypes, hostVars, ledgerVars
<1>6. ASSUME NEW w \in Worker, CallTool(w) PROVE AgentInv'
  <2>1. /\ pc' = [pc EXCEPT ![w] = "called"] /\ plan' = [plan EXCEPT ![w] = <<>>]
        /\ captured' = [captured EXCEPT ![w] = NoContext]
        /\ nth' = [nth EXCEPT ![w] = 0] /\ unrestored' = [unrestored EXCEPT ![w] = FALSE]
        /\ foreign' = [foreign EXCEPT ![w] = {}]
        /\ UNCHANGED <<disk, context, syncing, syncs, entries>>
    BY <1>6 DEF CallTool, Goes, hostVars, ledgerVars
  <2>2. WorkerTypes'
    <3>1. /\ pc' \in [Worker -> Places] /\ plan' \in [Worker -> Seq(Snapshot)]
          /\ captured' \in [Worker -> Context \cup {NoContext}] /\ nth' \in [Worker -> Nat]
          /\ unrestored' \in [Worker -> BOOLEAN] /\ foreign' \in [Worker -> SUBSET File]
      BY <1>p, <1>d, <1>n, <1>u, <2>1 DEF Places
    <3> QED BY <1>0, <2>1, <3>1 DEF WorkerTypes
  <2>3. LedgerShape'
    BY <1>0, <2>1 DEF LedgerShape, Distinct
  <2>4. ASSUME NEW x \in Worker, x # w PROVE WorkerInv(x)'
    BY <1>p, <1>d, <1>n, <1>u, <2>1, <2>4, Bystander
  <2>5. WorkerInv(w)'
    <3>1. /\ pc'[w] = "called" /\ plan'[w] = <<>> /\ unrestored'[w] = FALSE
          /\ DOMAIN <<>> = {}
      BY <1>p, <1>n, <1>u, <2>1
    <3> QED BY <3>1 DEF WorkerInv, Placed, MayChange, FilesHold, StayFiles, Distinct
  <2> QED BY <2>2, <2>3, <2>4, <2>5 DEF AgentInv
<1>7. ASSUME NEW w \in Worker, Capture(w) PROVE AgentInv'
  <2>1. /\ pc' = [pc EXCEPT ![w] = "captured"]
        /\ captured' = [captured EXCEPT ![w] = context]
        /\ UNCHANGED <<disk, context, syncing, syncs, entries, plan, nth, unrestored, foreign>>
        /\ pc[w] = "called" /\ context # NoContext
    BY <1>7 DEF Capture, Goes, hostVars, ledgerVars
  <2>2. WorkerTypes'
    <3>1. /\ pc' \in [Worker -> Places]
          /\ captured' \in [Worker -> Context \cup {NoContext}]
      BY <1>0, <1>p, <1>u, <2>1 DEF Places, WorkerTypes
    <3> QED BY <1>0, <2>1, <3>1 DEF WorkerTypes
  <2>3. LedgerShape'
    BY <1>0, <2>1 DEF LedgerShape, Distinct
  <2>4. ASSUME NEW x \in Worker, x # w PROVE WorkerInv(x)'
    BY <1>p, <1>u, <2>1, <2>4, Bystander
  <2>5. WorkerInv(w)'
    <3>1. plan[w] = <<>> /\ ~unrestored[w] /\ DOMAIN <<>> = {}
      BY <2>1 DEF AgentInv, WorkerInv, Placed
    <3>2. pc'[w] = "captured" /\ plan'[w] = <<>> /\ ~unrestored'[w] /\ captured'[w] \in Context
      BY <1>0, <1>p, <1>u, <2>1, <3>1 DEF WorkerTypes
    <3> QED BY <3>1, <3>2 DEF WorkerInv, Placed, MayChange, FilesHold, StayFiles, Distinct
  <2> QED BY <2>2, <2>3, <2>4, <2>5 DEF AgentInv
<1>8. ASSUME NEW w \in Worker, Refused(w) PROVE AgentInv'
  <2>1. /\ pc' = [pc EXCEPT ![w] = "failed"]
        /\ UNCHANGED <<disk, context, syncing, syncs, entries, captured, plan, nth,
                       unrestored, foreign>>
        /\ pc[w] \in {"called", "captured", "planned"}
    BY <1>8 DEF Refused, Goes, hostVars, ledgerVars, callVars
  <2>2. WorkerTypes'
    <3>1. pc' \in [Worker -> Places]
      BY <1>p, <2>1 DEF Places
    <3> QED BY <1>0, <2>1, <3>1 DEF WorkerTypes
  <2>3. LedgerShape'
    BY <1>0, <2>1 DEF LedgerShape, Distinct
  <2>4. ASSUME NEW x \in Worker, x # w PROVE WorkerInv(x)'
    BY <1>p, <2>1, <2>4, Bystander
  <2>5. WorkerInv(w)'
    <3>1. pc'[w] = "failed"
      BY <1>p, <2>1
    <3>2. WorkerInv(w)
      BY DEF AgentInv
    <3>3. Placed(w)' /\ MayChange(w)' /\ StayFiles(w)'
      BY <2>1, <3>1, <3>2 DEF WorkerInv, Placed, MayChange, StayFiles, Steps, Distinct
    <3>4. FilesHold(w)'
      <4>1. CASE pc[w] = "planned"
        BY <2>1, <3>1, <3>2, <4>1 DEF WorkerInv, FilesHold, AsFound, AsWritten, Target
      <4>2. CASE plan[w] = <<>>
        BY <2>1, <4>2 DEF FilesHold
      <4> QED BY <2>1, <3>2, <4>1, <4>2 DEF WorkerInv, Placed
    <3> QED BY <3>3, <3>4 DEF WorkerInv
  <2> QED BY <2>2, <2>3, <2>4, <2>5 DEF AgentInv
<1>9. ASSUME NEW w \in Worker, NEW f \in File, NEW to \in State, PlanOperation(w, f, to)
      PROVE  AgentInv'
  <2> DEFINE new == [file |-> f, from |-> disk[f], to |-> to]
  <2>1. /\ pc' = [pc EXCEPT ![w] = "planned"]
        /\ plan' = [plan EXCEPT ![w] = Append(plan[w], new)]
        /\ UNCHANGED <<disk, context, syncing, syncs, entries, captured, nth,
                       unrestored, foreign>>
        /\ pc[w] \in {"captured", "planned"} /\ f \notin FilesOf(plan[w])
        /\ Mutable(w, f) /\ disk[f] # Blocked
    BY <1>9 DEF PlanOperation, Goes, Applies, hostVars, ledgerVars
  <2>2. new \in Snapshot /\ plan[w] \in Seq(Snapshot)
    BY <1>d, <1>n, <2>1 DEF Snapshot
  <2> HIDE DEF new
  <2>3. /\ Append(plan[w], new) \in Seq(Snapshot)
        /\ \A i \in DOMAIN Append(plan[w], new) :
              \/ i \in DOMAIN plan[w] /\ Append(plan[w], new)[i] = plan[w][i]
              \/ i = Len(plan[w]) + 1 /\ Append(plan[w], new)[i] = new
    BY <2>2, AppendType
  <2>4. new.file = f /\ new.from = disk[f]
    BY DEF new
  <2>5. WorkerTypes'
    <3>1. pc' \in [Worker -> Places] /\ plan' \in [Worker -> Seq(Snapshot)]
      BY <1>p, <1>n, <2>1, <2>3 DEF Places
    <3> QED BY <1>0, <2>1, <3>1 DEF WorkerTypes
  <2>6. LedgerShape'
    BY <1>0, <2>1 DEF LedgerShape, Distinct
  <2>7. ASSUME NEW x \in Worker, x # w PROVE WorkerInv(x)'
    BY <1>p, <1>n, <2>1, <2>7, Bystander
  <2>8. WorkerInv(w)'
    <3>1. pc'[w] = "planned" /\ plan'[w] = Append(plan[w], new)
      BY <1>p, <1>n, <2>1
    <3>2. WorkerInv(w)
      BY DEF AgentInv
    <3>3. Placed(w)'
      <4>1. ~unrestored[w] /\ Distinct(plan[w])
        BY <2>1, <3>2 DEF WorkerInv, Placed
      <4>2. Distinct(Append(plan[w], new))
        BY <2>1, <2>2, <2>4, <4>1, AppendType
      <4>3. Distinct(plan[w])'
        BY <3>1, <4>2 DEF Distinct
      <4> QED BY <2>1, <3>1, <4>1, <4>3 DEF Placed
    <3>4. MayChange(w)'
      <4>1. captured[w] \in Context /\ \A i \in DOMAIN plan[w] : Mutable(w, plan[w][i].file)
        BY <2>1, <3>2 DEF WorkerInv, MayChange, Target
      <4> QED BY <2>1, <2>3, <2>4, <3>1, <4>1 DEF MayChange, Mutable, Target
    <3>5. FilesHold(w)'
      <4>1. \A i \in DOMAIN plan[w] : plan[w][i].file \notin foreign[w] =>
                disk[plan[w][i].file] = plan[w][i].from
        <5>1. CASE pc[w] = "planned"
          BY <3>2, <5>1 DEF WorkerInv, FilesHold, AsFound, Target
        <5>2. CASE plan[w] = <<>>
          BY <5>2
        <5> QED BY <2>1, <3>2, <5>1, <5>2 DEF WorkerInv, Placed
      <4>2. \A i \in DOMAIN plan'[w] : plan'[w][i].file \notin foreign'[w] =>
                disk'[plan'[w][i].file] = plan'[w][i].from
        BY ZenonT(40), <2>1, <2>3, <2>4, <3>1, <4>1
      <4> QED BY <3>1, <4>2 DEF FilesHold, AsFound, AsWritten, Target
    <3>6. StayFiles(w)'
      <4>1. ~BlocksHalfway => \A i \in DOMAIN plan[w] : i > 1 => disk[plan[w][i].file] # Blocked
        BY <2>1, <3>2 DEF WorkerInv, StayFiles, Steps, Target
      <4> QED BY <2>1, <2>3, <2>4, <3>1, <4>1 DEF StayFiles, Target
    <3> QED BY <3>3, <3>4, <3>5, <3>6 DEF WorkerInv
  <2> QED BY <2>5, <2>6, <2>7, <2>8 DEF AgentInv
<1>10. ASSUME NEW w \in Worker, NEW j \in DOMAIN entries, PlanUndo(w, j) PROVE AgentInv'
  <2> DEFINE old == entries[j].snapshots
             new == Reversed(old)
  <2>1. /\ pc' = [pc EXCEPT ![w] = "planned"] /\ plan' = [plan EXCEPT ![w] = new]
        /\ UNCHANGED <<disk, context, syncing, syncs, entries, captured, nth,
                       unrestored, foreign>>
        /\ pc[w] = "captured"
        /\ \A i \in DOMAIN old : Mutable(w, old[i].file) /\ disk[old[i].file] = old[i].to
    BY <1>10 DEF PlanUndo, Goes, hostVars, ledgerVars
  <2>2. old \in Seq(Snapshot) /\ Distinct(old)
    BY <1>0 DEF LedgerShape
  <2>3. /\ new \in Seq(Snapshot) /\ Distinct(new) /\ DOMAIN new = DOMAIN old
        /\ \A i \in DOMAIN old : new[i].file = old[i].file /\ new[i].from = old[i].to
    BY <2>2, ReversedType
  <2>4. \A i \in DOMAIN old : old[i].to # Blocked
    BY <1>b, <2>2, SnapshotType
  <2> HIDE DEF new, old
  <2>5. WorkerTypes'
    <3>1. pc' \in [Worker -> Places] /\ plan' \in [Worker -> Seq(Snapshot)]
      BY <1>p, <1>n, <2>1, <2>3 DEF Places
    <3> QED BY <1>0, <2>1, <3>1 DEF WorkerTypes
  <2>6. LedgerShape'
    BY <1>0, <2>1 DEF LedgerShape, Distinct
  <2>7. ASSUME NEW x \in Worker, x # w PROVE WorkerInv(x)'
    BY <1>p, <1>n, <2>1, <2>7, Bystander
  <2>8. WorkerInv(w)'
    <3>1. pc'[w] = "planned" /\ plan'[w] = new
      BY <1>p, <1>n, <2>1
    <3>2. WorkerInv(w)
      BY DEF AgentInv
    <3>3. Placed(w)'
      <4>1. ~unrestored[w]
        BY <2>1, <3>2 DEF WorkerInv, Placed
      <4>2. Distinct(plan[w])'
        BY <2>3, <3>1 DEF Distinct
      <4> QED BY <2>1, <3>1, <4>1, <4>2 DEF Placed
    <3>4. MayChange(w)'
      <4>1. captured[w] \in Context
        BY <2>1, <3>2 DEF WorkerInv, MayChange
      <4> QED BY <2>1, <2>3, <3>1, <4>1 DEF MayChange, Mutable, Target
    <3>5. FilesHold(w)'
      <4>1. \A i \in DOMAIN new : disk[new[i].file] = new[i].from
        BY <2>1, <2>3
      <4> QED BY <2>1, <3>1, <4>1 DEF FilesHold, AsFound, AsWritten, Target
    <3>6. StayFiles(w)'
      <4>1. \A i \in DOMAIN new : disk[new[i].file] # Blocked
        BY <2>1, <2>3, <2>4
      <4> QED BY <2>1, <3>1, <4>1 DEF StayFiles, Target
    <3> QED BY <3>3, <3>4, <3>5, <3>6 DEF WorkerInv
  <2> QED BY <2>5, <2>6, <2>7, <2>8 DEF AgentInv
<1>11. ASSUME NEW w \in Worker, Recheck(w) PROVE AgentInv'
  <2>1. /\ pc' = [pc EXCEPT ![w] = "checking"] /\ nth' = [nth EXCEPT ![w] = 1]
        /\ UNCHANGED <<disk, context, syncing, syncs, entries, captured, plan,
                       unrestored, foreign>>
        /\ pc[w] = "planned" /\ plan[w] # <<>>
    BY <1>11 DEF Recheck, Goes, hostVars, ledgerVars, callVars
  <2>2. WorkerTypes'
    <3>1. pc' \in [Worker -> Places] /\ nth' \in [Worker -> Nat]
      BY <1>p, <1>n, <2>1 DEF Places
    <3> QED BY <1>0, <2>1, <3>1 DEF WorkerTypes
  <2>3. LedgerShape'
    BY <1>0, <2>1 DEF LedgerShape, Distinct
  <2>4. ASSUME NEW x \in Worker, x # w PROVE WorkerInv(x)'
    BY <1>p, <1>n, <2>1, <2>4, Bystander
  <2>5. WorkerInv(w)'
    <3>1. pc'[w] = "checking" /\ nth'[w] = 1 /\ plan'[w] = plan[w]
      BY <1>p, <1>n, <2>1
    <3>2. WorkerInv(w)
      BY DEF AgentInv
    <3>3. Placed(w)' /\ MayChange(w)' /\ StayFiles(w)'
      <4>1. plan[w] \in Seq(Snapshot) /\ Len(plan[w]) \in Nat
        BY <1>n
      <4> QED BY <2>1, <3>1, <3>2, <4>1 DEF WorkerInv, Placed, MayChange, StayFiles,
             Steps, Distinct, Target
    <3>4. FilesHold(w)'
      <4>1. \A i \in DOMAIN plan[w] : i \in Nat /\ i >= 1
        BY <1>n, SnapshotType
      <4>2. \A i \in DOMAIN plan[w] : AsFound(w, i) /\ ~AsWritten(w, i)'
        BY <2>1, <3>1, <4>1 DEF AsFound, AsWritten
      <4> QED BY <2>1, <3>1, <3>2, <4>2 DEF WorkerInv, FilesHold, Target
    <3> QED BY <3>3, <3>4 DEF WorkerInv
  <2> QED BY <2>2, <2>3, <2>4, <2>5 DEF AgentInv
<1>12. ASSUME NEW w \in Worker, NEW f \in File, NEW g \in File, Move(w, f, g) PROVE AgentInv'
  <2>1. /\ pc' = [pc EXCEPT ![w] = "done"]
        /\ UNCHANGED <<context, syncing, syncs, entries, captured, plan, nth, unrestored>>
        /\ pc[w] = "captured" /\ disk[f] \in Content
        /\ disk' = [disk EXCEPT ![g] = disk[f], ![f] = Absent]
        /\ foreign' = [x \in Worker |-> IF x = w THEN {}
                         ELSE foreign[x] \cup (FilesOf(plan[x]) \cap {f, g})]
    BY <1>12 DEF Move, Goes, hostVars, ledgerVars, callVars
  <2>2. WorkerTypes'
    <3>1. pc' \in [Worker -> Places]
      BY <1>p, <2>1 DEF Places
    <3>2. disk' \in [File -> State \cup {Blocked}]
      BY <1>d, <2>1 DEF State
    <3>3. foreign' \in [Worker -> SUBSET File]
      BY <1>d, <2>1
    <3> QED BY <1>0, <2>1, <3>1, <3>2, <3>3 DEF WorkerTypes
  <2>3. LedgerShape'
    BY <1>0, <2>1 DEF LedgerShape, Distinct
  <2>4. ASSUME NEW x \in Worker, x # w PROVE WorkerInv(x)'
    <3>1. pc'[x] = pc[x]
      BY <1>p, <2>1, <2>4
    <3>2. foreign'[x] = foreign[x] \cup (FilesOf(plan[x]) \cap {f, g})
      BY <2>1, <2>4
    <3>3. \A h \in File : disk'[h] = disk[h] \/ (h \in {f, g} /\ disk'[h] # Blocked)
      BY <1>d, <2>1 DEF Blocked, Absent
    <3>4. \A i \in DOMAIN plan[x] : Target(x, i) \in FilesOf(plan[x]) /\ Target(x, i) \in File
      BY <1>n, SnapshotType DEF Target, FilesOf
    <3> QED BY <2>1, <3>1, <3>2, <3>3, <3>4, Bystander
  <2>5. WorkerInv(w)'
    <3>1. plan[w] = <<>> /\ ~unrestored[w] /\ DOMAIN <<>> = {}
      BY <2>1 DEF AgentInv, WorkerInv, Placed
    <3>2. pc'[w] = "done" /\ plan'[w] = <<>> /\ ~unrestored'[w]
      BY <1>p, <2>1, <3>1
    <3> QED BY <3>1, <3>2 DEF WorkerInv, Placed, MayChange, FilesHold, StayFiles, Distinct
  <2> QED BY <2>2, <2>3, <2>4, <2>5 DEF AgentInv
<1>13. ASSUME NEW w \in Worker, NEW f \in File, Trash(w, f) PROVE AgentInv'
  <2>1. /\ pc' = [pc EXCEPT ![w] = "done"]
        /\ UNCHANGED <<context, syncing, syncs, entries, captured, plan, nth, unrestored>>
        /\ pc[w] = "captured" /\ Change(w, f, Absent)
    BY <1>13 DEF Trash, Goes, hostVars, ledgerVars, callVars
  <2>2. WorkerTypes'
    <3>1. pc' \in [Worker -> Places]
      BY <1>p, <2>1 DEF Places
    <3>2. disk' \in [File -> State \cup {Blocked}] /\ foreign' \in [Worker -> SUBSET File]
      BY <2>1, ChangeType DEF State
    <3> QED BY <1>0, <2>1, <3>1, <3>2 DEF WorkerTypes
  <2>3. LedgerShape'
    BY <1>0, <2>1 DEF LedgerShape, Distinct
  <2>4. ASSUME NEW x \in Worker, x # w PROVE WorkerInv(x)'
    <3>1. pc'[x] = pc[x] /\ Absent # Blocked
      BY <1>p, <2>1, <2>4 DEF Absent, Blocked
    <3> QED BY <2>1, <2>4, <3>1, ChangeIsNoted, Bystander
  <2>5. WorkerInv(w)'
    <3>1. plan[w] = <<>> /\ ~unrestored[w] /\ DOMAIN <<>> = {}
      BY <2>1 DEF AgentInv, WorkerInv, Placed
    <3>2. pc'[w] = "done" /\ plan'[w] = <<>> /\ ~unrestored'[w]
      BY <1>p, <2>1, <3>1
    <3> QED BY <3>1, <3>2 DEF WorkerInv, Placed, MayChange, FilesHold, StayFiles, Distinct
  <2> QED BY <2>2, <2>3, <2>4, <2>5 DEF AgentInv
<1>14. ASSUME NEW w \in Worker, Goes(w, "done"), AllWritten(w),
             UNCHANGED <<disk, context, syncing, syncs, captured, plan, nth, unrestored,
                         foreign>>,
             LedgerShape'
      PROVE  AgentInv'
  <2>1. WorkerTypes'
    <3>1. pc' \in [Worker -> Places]
      BY <1>p, <1>14 DEF Places, Goes
    <3> QED BY <1>0, <1>14, <3>1 DEF WorkerTypes
  <2>2. ASSUME NEW x \in Worker, x # w PROVE WorkerInv(x)'
    BY <1>p, <1>14, <2>2, Bystander DEF Goes
  <2>3. WorkerInv(w)'
    <3>1. pc'[w] = "done" /\ pc[w] = "checking" /\ nth[w] > Len(plan[w])
      BY <1>p, <1>14 DEF Goes, AllWritten
    <3>2. WorkerInv(w)
      BY DEF AgentInv
    <3>3. Placed(w)' /\ MayChange(w)' /\ StayFiles(w)'
      BY <1>14, <3>1, <3>2 DEF WorkerInv, Placed, MayChange, StayFiles, Steps, Distinct
    <3>4. FilesHold(w)'
      <4>1. \A i \in DOMAIN plan[w] : i < nth[w]
        <5>1. plan[w] \in Seq(Snapshot) /\ Len(plan[w]) \in Nat /\ nth[w] \in Nat
          BY <1>n
        <5> QED BY <3>1, <5>1, SnapshotType
      <4>2. \A i \in DOMAIN plan[w] : AsWritten(w, i) /\ ~AsFound(w, i)'
        BY <3>1, <4>1 DEF AsWritten, AsFound
      <4> QED BY <1>14, <3>2, <4>2 DEF WorkerInv, FilesHold, Target
    <3> QED BY <3>3, <3>4 DEF WorkerInv
  <2> QED BY <1>14, <2>1, <2>2, <2>3 DEF AgentInv
<1>15. ASSUME NEW w \in Worker, Record(w) PROVE AgentInv'
  <2> DEFINE set == [id |-> id[w], root |-> captured[w].root,
                     generation |-> captured[w].generation,
                     bytes |-> SnapshotBytes(plan[w]), snapshots |-> plan[w],
                     status |-> "applied"]
             sets == Append(entries, set)
  <2>1. PICK m \in 0 .. Len(sets) : entries' = Drop(sets, m)
    BY <1>15 DEF Record, Kept
  <2>2. set.snapshots \in Seq(Snapshot) /\ Distinct(set.snapshots)
    BY <1>n DEF AgentInv, WorkerInv, Placed
  <2>3. LedgerShape'
    <3>1. PICK S : entries \in Seq(S)
      BY <1>0 DEF LedgerShape
    <3>2. /\ \A i \in DOMAIN entries : /\ entries[i].snapshots \in Seq(Snapshot)
                                       /\ Distinct(entries[i].snapshots)
          /\ set.snapshots \in Seq(Snapshot) /\ Distinct(set.snapshots)
      BY <1>0, <2>2 DEF LedgerShape
    <3> HIDE DEF set
    <3>3. entries' = SubSeq(Append(entries, set), m + 1, Len(Append(entries, set)))
      BY <2>1 DEF Drop
    <3>4. m \in 0 .. Len(Append(entries, set))
      BY <2>1
    <3>5. /\ entries' \in Seq(S \cup {set})
          /\ \A i \in DOMAIN entries' :
                entries'[i] = set \/ \E k \in DOMAIN entries : entries'[i] = entries[k]
      BY SMTT(20), <3>1, <3>3, <3>4, EndOfALongerSequence
    <3>6. \A i \in DOMAIN entries' : /\ entries'[i].snapshots \in Seq(Snapshot)
                                     /\ Distinct(entries'[i].snapshots)
      BY <3>2, <3>5
    <3> QED BY <3>5, <3>6 DEF LedgerShape, Distinct
  <2> QED BY <1>15, <1>14, <2>3 DEF Record, hostVars, callVars
<1>16. ASSUME NEW w \in Worker, MarkUndone(w) PROVE AgentInv'
  <2>1. entries' = [i \in DOMAIN entries |->
                     IF entries[i].id = undone[w]
                       THEN [entries[i] EXCEPT !.status = "undone"] ELSE entries[i]]
    BY <1>16 DEF MarkUndone
  <2>2. LedgerShape'
    <3>1. PICK S : entries \in Seq(S)
      BY <1>0 DEF LedgerShape
    <3>2. PICK n \in Nat : n = Len(entries) /\ DOMAIN entries = 1 .. n
      BY <3>1
    <3>3. \E T : entries' \in [1 .. n -> T]
      <4>1. entries' = [i \in 1 .. n |-> entries'[i]]
        BY <2>1, <3>2
      <4>2. entries' \in [1 .. n -> {entries'[i] : i \in 1 .. n}]
        BY <4>1
      <4> QED BY <4>2
    <3>4. \E T : entries' \in Seq(T)
      <4>1. PICK T : entries' \in [1 .. n -> T]
        BY <3>3
      <4>2. Seq(T) = UNION {[1 .. k -> T] : k \in Nat}
        BY SeqDef
      <4> QED BY <3>2, <4>1, <4>2
    <3>5. \A i \in DOMAIN entries : entries'[i].snapshots = entries[i].snapshots
      BY <2>1
    <3>6. DOMAIN entries' = DOMAIN entries
      BY <2>1
    <3> QED BY <1>0, <3>4, <3>5, <3>6 DEF LedgerShape, Distinct
  <2> QED BY <1>16, <1>14, <2>2 DEF MarkUndone, hostVars, callVars
<1>17. ASSUME NEW w \in Worker, CheckPasses(w) PROVE AgentInv'
  <2>1. /\ pc' = [pc EXCEPT ![w] = "writing"]
        /\ foreign' = [foreign EXCEPT ![w] = @ \ {Target(w, nth[w])}]
        /\ UNCHANGED <<disk, context, syncing, syncs, entries, captured, plan, nth,
                       unrestored>>
        /\ pc[w] = "checking" /\ disk[Target(w, nth[w])] = plan[w][nth[w]].from
    BY <1>17 DEF CheckPasses, Checking, Here, Target, Look, Goes, hostVars, ledgerVars, callVars
  <2>2. nth[w] \in 1 .. Len(plan[w]) /\ Distinct(plan[w]) /\ Len(plan[w]) \in Nat
    <3>1. nth[w] \in Nat /\ plan[w] \in Seq(Snapshot)
      BY <1>n
    <3> QED BY <1>17, <2>1, <3>1 DEF AgentInv, WorkerInv, Placed, CheckPasses, Checking
  <2>3. WorkerTypes'
    <3>1. pc' \in [Worker -> Places] /\ foreign' \in [Worker -> SUBSET File]
      BY <1>p, <1>d, <2>1 DEF Places
    <3> QED BY <1>0, <2>1, <3>1 DEF WorkerTypes
  <2>4. LedgerShape'
    BY <1>0, <2>1 DEF LedgerShape, Distinct
  <2>5. ASSUME NEW x \in Worker, x # w PROVE WorkerInv(x)'
    BY <1>p, <1>d, <2>1, <2>5, Bystander
  <2>6. WorkerInv(w)'
    <3>1. pc'[w] = "writing" /\ foreign'[w] = foreign[w] \ {Target(w, nth[w])}
      BY <1>p, <1>d, <2>1
    <3>2. WorkerInv(w)
      BY DEF AgentInv
    <3>3. Placed(w)' /\ MayChange(w)' /\ StayFiles(w)'
      BY <2>1, <2>2, <3>1, <3>2 DEF WorkerInv, Placed, MayChange, StayFiles, Steps,
         Distinct, Target
    <3>4. FilesHold(w)'
      <4>1. ASSUME NEW i \in DOMAIN plan[w], i # nth[w], Target(w, i) \notin foreign'[w]
            PROVE  Target(w, i) \notin foreign[w]
        <5>1. nth[w] \in DOMAIN plan[w]
          BY <1>n, <2>2
        <5>2. Target(w, i) # Target(w, nth[w])
          BY <2>2, <4>1, <5>1 DEF Distinct, Target
        <5> QED BY <3>1, <4>1, <5>2
      <4>2. ASSUME NEW i \in DOMAIN plan[w]
            PROVE  /\ AsFound(w, i)' => AsFound(w, i)
                   /\ AsWritten(w, i)' => AsWritten(w, i)
                   /\ i = nth[w] => ~AsWritten(w, i)'
        <5>1. i \in Nat /\ nth[w] \in Nat
          BY <1>n, SnapshotType
        <5> QED BY <2>1, <3>1, <5>1 DEF AsFound, AsWritten
      <4>3. ASSUME NEW i \in DOMAIN plan[w], Target(w, i) \notin foreign'[w]
            PROVE  /\ AsFound(w, i)' => disk[Target(w, i)] = plan[w][i].from
                   /\ AsWritten(w, i)' => disk[Target(w, i)] = plan[w][i].to
        <5>1. CASE i = nth[w]
          BY <2>1, <4>2, <5>1
        <5>2. CASE i # nth[w]
          BY <3>2, <4>1, <4>2, <4>3, <5>2 DEF WorkerInv, FilesHold
        <5> QED BY <5>1, <5>2
      <4>4. disk' = disk /\ plan' = plan
        BY <2>1
      <4> QED BY <4>3, <4>4 DEF FilesHold, Target
    <3> QED BY <3>3, <3>4 DEF WorkerInv
  <2> QED BY <2>3, <2>4, <2>5, <2>6 DEF AgentInv
<1>18. ASSUME NEW w \in Worker, ComparePasses(w) PROVE AgentInv'
  <2>1. /\ pc' = [pc EXCEPT ![w] = "restoring"]
        /\ foreign' = [foreign EXCEPT ![w] = @ \ {Target(w, nth[w])}]
        /\ UNCHANGED <<disk, context, syncing, syncs, entries, captured, plan, nth,
                       unrestored>>
        /\ pc[w] = "comparing" /\ disk[Target(w, nth[w])] = plan[w][nth[w]].to
    BY <1>18 DEF ComparePasses, Checking, Here, Target, Look, Goes, hostVars, ledgerVars, callVars
  <2>2. nth[w] \in 1 .. Len(plan[w]) /\ Distinct(plan[w]) /\ Len(plan[w]) \in Nat
    <3>1. nth[w] \in Nat /\ plan[w] \in Seq(Snapshot)
      BY <1>n
    <3> QED BY <1>18, <2>1, <3>1 DEF AgentInv, WorkerInv, Placed, ComparePasses, Checking
  <2>3. WorkerTypes'
    <3>1. pc' \in [Worker -> Places] /\ foreign' \in [Worker -> SUBSET File]
      BY <1>p, <1>d, <2>1 DEF Places
    <3> QED BY <1>0, <2>1, <3>1 DEF WorkerTypes
  <2>4. LedgerShape'
    BY <1>0, <2>1 DEF LedgerShape, Distinct
  <2>5. ASSUME NEW x \in Worker, x # w PROVE WorkerInv(x)'
    BY <1>p, <1>d, <2>1, <2>5, Bystander
  <2>6. WorkerInv(w)'
    <3>1. pc'[w] = "restoring" /\ foreign'[w] = foreign[w] \ {Target(w, nth[w])}
      BY <1>p, <1>d, <2>1
    <3>2. WorkerInv(w)
      BY DEF AgentInv
    <3>3. Placed(w)' /\ MayChange(w)' /\ StayFiles(w)'
      BY <2>1, <2>2, <3>1, <3>2 DEF WorkerInv, Placed, MayChange, StayFiles, Steps,
         Distinct, Target
    <3>4. FilesHold(w)'
      <4>1. ASSUME NEW i \in DOMAIN plan[w], i # nth[w], Target(w, i) \notin foreign'[w]
            PROVE  Target(w, i) \notin foreign[w]
        <5>1. nth[w] \in DOMAIN plan[w]
          BY <1>n, <2>2
        <5>2. Target(w, i) # Target(w, nth[w])
          BY <2>2, <4>1, <5>1 DEF Distinct, Target
        <5> QED BY <3>1, <4>1, <5>2
      <4>2. ASSUME NEW i \in DOMAIN plan[w]
            PROVE  /\ AsFound(w, i)' => AsFound(w, i)
                   /\ AsWritten(w, i)' => AsWritten(w, i)
                   /\ i = nth[w] => ~AsFound(w, i)'
        <5>1. i \in Nat /\ nth[w] \in Nat
          BY <1>n, SnapshotType
        <5> QED BY <2>1, <3>1, <5>1 DEF AsFound, AsWritten
      <4>3. ASSUME NEW i \in DOMAIN plan[w], Target(w, i) \notin foreign'[w]
            PROVE  /\ AsFound(w, i)' => disk[Target(w, i)] = plan[w][i].from
                   /\ AsWritten(w, i)' => disk[Target(w, i)] = plan[w][i].to
        <5>1. CASE i = nth[w]
          BY <2>1, <4>2, <5>1
        <5>2. CASE i # nth[w]
          BY <3>2, <4>1, <4>2, <4>3, <5>2 DEF WorkerInv, FilesHold
        <5> QED BY <5>1, <5>2
      <4>4. disk' = disk /\ plan' = plan
        BY <2>1
      <4> QED BY <4>3, <4>4 DEF FilesHold, Target
    <3> QED BY <3>3, <3>4 DEF WorkerInv
  <2> QED BY <2>3, <2>4, <2>5, <2>6 DEF AgentInv
<1>19. ASSUME NEW w \in Worker, CheckRefuses(w) PROVE AgentInv'
  <2>1. /\ StepsBack(w) /\ pc[w] = "checking"
        /\ UNCHANGED <<disk, context, syncing, syncs, entries, captured, plan, foreign>>
        /\ unrestored' = unrestored
    BY <1>19 DEF CheckRefuses, Checking, hostVars, ledgerVars, callVars
  <2>2. nth[w] \in 1 .. Len(plan[w])
    <3>1. nth[w] \in Nat /\ plan[w] \in Seq(Snapshot) /\ Len(plan[w]) \in Nat
      BY <1>n
    <3> QED BY <1>19, <2>1, <3>1 DEF AgentInv, WorkerInv, Placed, CheckRefuses, Checking
  <2>3. WorkerInv(w)
    BY DEF AgentInv
  <2>u. unrestored' \in [Worker -> BOOLEAN] /\ (\A x \in Worker : x # w => unrestored'[x] = unrestored[x])
        /\ unrestored'[w] = unrestored[w]
    BY <1>u, <2>1
  <2>4. ASSUME NEW i \in DOMAIN plan[w], Target(w, i) \notin foreign'[w]
        PROVE  /\ i < nth[w] => disk'[Target(w, i)] = plan[w][i].to
               /\ nth[w] <= i /\ ~unrestored'[w] => disk'[Target(w, i)] = plan[w][i].from
    <3>1. i \in Nat /\ nth[w] \in Nat
      BY <1>n, SnapshotType
    <3>2. i < nth[w] => AsWritten(w, i)
      BY <2>1, <3>1 DEF AsWritten
    <3>3. nth[w] <= i /\ ~unrestored'[w] => AsFound(w, i)
      BY <2>1, <2>u, <3>1 DEF AsFound
    <3> QED BY <2>1, <2>3, <2>4, <3>2, <3>3 DEF WorkerInv, FilesHold
  <2>5. ~BlocksHalfway =>
           \A i \in DOMAIN plan[w] : i > 1 => disk'[Target(w, i)] # Blocked
    BY <2>1, <2>3 DEF WorkerInv, StayFiles, Steps
  <2>6. /\ pc' \in [Worker -> Places] /\ nth' \in [Worker -> Nat]
        /\ \A x \in Worker : x # w => pc'[x] = pc[x] /\ nth'[x] = nth[x]
        /\ WorkerInv(w)'
    <3>1. plan' = plan /\ StepsBack(w) /\ pc[w] \in {"checking", "writing", "comparing", "restoring"}
      BY <2>1
    <3> QED BY <2>2, <2>4, <2>5, <3>1, BackKeeps
  <2>7. WorkerTypes'
    BY <1>0, <2>1, <2>u, <2>6 DEF WorkerTypes
  <2>8. LedgerShape'
    BY <1>0, <2>1 DEF LedgerShape, Distinct
  <2>9. ASSUME NEW x \in Worker, x # w PROVE WorkerInv(x)'
    BY <2>1, <2>u, <2>6, <2>9, Bystander
  <2> QED BY <2>6, <2>7, <2>8, <2>9 DEF AgentInv
<1>20. ASSUME NEW w \in Worker, WriteFails(w) PROVE AgentInv'
  <2>1. /\ StepsBack(w) /\ pc[w] = "writing"
        /\ UNCHANGED <<disk, context, syncing, syncs, entries, captured, plan, foreign>>
        /\ unrestored' = unrestored
    BY <1>20 DEF WriteFails, Checking, hostVars, ledgerVars, callVars
  <2>2. nth[w] \in 1 .. Len(plan[w])
    <3>1. nth[w] \in Nat /\ plan[w] \in Seq(Snapshot) /\ Len(plan[w]) \in Nat
      BY <1>n
    <3> QED BY <1>20, <2>1, <3>1 DEF AgentInv, WorkerInv, Placed, WriteFails, Checking
  <2>3. WorkerInv(w)
    BY DEF AgentInv
  <2>u. unrestored' \in [Worker -> BOOLEAN] /\ (\A x \in Worker : x # w => unrestored'[x] = unrestored[x])
        /\ unrestored'[w] = unrestored[w]
    BY <1>u, <2>1
  <2>4. ASSUME NEW i \in DOMAIN plan[w], Target(w, i) \notin foreign'[w]
        PROVE  /\ i < nth[w] => disk'[Target(w, i)] = plan[w][i].to
               /\ nth[w] <= i /\ ~unrestored'[w] => disk'[Target(w, i)] = plan[w][i].from
    <3>1. i \in Nat /\ nth[w] \in Nat
      BY <1>n, SnapshotType
    <3>2. i < nth[w] => AsWritten(w, i)
      BY <2>1, <3>1 DEF AsWritten
    <3>3. nth[w] <= i /\ ~unrestored'[w] => AsFound(w, i)
      BY <2>1, <2>u, <3>1 DEF AsFound
    <3> QED BY <2>1, <2>3, <2>4, <3>2, <3>3 DEF WorkerInv, FilesHold
  <2>5. ~BlocksHalfway =>
           \A i \in DOMAIN plan[w] : i > 1 => disk'[Target(w, i)] # Blocked
    BY <2>1, <2>3 DEF WorkerInv, StayFiles, Steps
  <2>6. /\ pc' \in [Worker -> Places] /\ nth' \in [Worker -> Nat]
        /\ \A x \in Worker : x # w => pc'[x] = pc[x] /\ nth'[x] = nth[x]
        /\ WorkerInv(w)'
    <3>1. plan' = plan /\ StepsBack(w) /\ pc[w] \in {"checking", "writing", "comparing", "restoring"}
      BY <2>1
    <3> QED BY <2>2, <2>4, <2>5, <3>1, BackKeeps
  <2>7. WorkerTypes'
    BY <1>0, <2>1, <2>u, <2>6 DEF WorkerTypes
  <2>8. LedgerShape'
    BY <1>0, <2>1 DEF LedgerShape, Distinct
  <2>9. ASSUME NEW x \in Worker, x # w PROVE WorkerInv(x)'
    BY <2>1, <2>u, <2>6, <2>9, Bystander
  <2> QED BY <2>6, <2>7, <2>8, <2>9 DEF AgentInv
<1>21. ASSUME NEW w \in Worker, CompareRefuses(w) PROVE AgentInv'
  <2>1. /\ StepsBack(w) /\ pc[w] = "comparing"
        /\ UNCHANGED <<disk, context, syncing, syncs, entries, captured, plan, foreign>>
        /\ unrestored' = [unrestored EXCEPT ![w] = TRUE]
    BY <1>21 DEF CompareRefuses, Checking, hostVars, ledgerVars, callVars
  <2>2. nth[w] \in 1 .. Len(plan[w])
    <3>1. nth[w] \in Nat /\ plan[w] \in Seq(Snapshot) /\ Len(plan[w]) \in Nat
      BY <1>n
    <3> QED BY <1>21, <2>1, <3>1 DEF AgentInv, WorkerInv, Placed, CompareRefuses, Checking
  <2>3. WorkerInv(w)
    BY DEF AgentInv
  <2>u. unrestored' \in [Worker -> BOOLEAN] /\ (\A x \in Worker : x # w => unrestored'[x] = unrestored[x])
        /\ unrestored'[w] = TRUE
    BY <1>u, <2>1
  <2>4. ASSUME NEW i \in DOMAIN plan[w], Target(w, i) \notin foreign'[w]
        PROVE  /\ i < nth[w] => disk'[Target(w, i)] = plan[w][i].to
               /\ nth[w] <= i /\ ~unrestored'[w] => disk'[Target(w, i)] = plan[w][i].from
    <3>1. i \in Nat /\ nth[w] \in Nat
      BY <1>n, SnapshotType
    <3>2. i < nth[w] => AsWritten(w, i)
      BY <2>1, <3>1 DEF AsWritten
    <3>3. nth[w] <= i /\ ~unrestored'[w] => AsFound(w, i)
      BY <2>1, <2>u, <3>1 DEF AsFound
    <3> QED BY <2>1, <2>3, <2>4, <3>2, <3>3 DEF WorkerInv, FilesHold
  <2>5. ~BlocksHalfway =>
           \A i \in DOMAIN plan[w] : i > 1 => disk'[Target(w, i)] # Blocked
    BY <2>1, <2>3 DEF WorkerInv, StayFiles, Steps
  <2>6. /\ pc' \in [Worker -> Places] /\ nth' \in [Worker -> Nat]
        /\ \A x \in Worker : x # w => pc'[x] = pc[x] /\ nth'[x] = nth[x]
        /\ WorkerInv(w)'
    <3>1. plan' = plan /\ StepsBack(w) /\ pc[w] \in {"checking", "writing", "comparing", "restoring"}
      BY <2>1
    <3> QED BY <2>2, <2>4, <2>5, <3>1, BackKeeps
  <2>7. WorkerTypes'
    BY <1>0, <2>1, <2>u, <2>6 DEF WorkerTypes
  <2>8. LedgerShape'
    BY <1>0, <2>1 DEF LedgerShape, Distinct
  <2>9. ASSUME NEW x \in Worker, x # w PROVE WorkerInv(x)'
    BY <2>1, <2>u, <2>6, <2>9, Bystander
  <2> QED BY <2>6, <2>7, <2>8, <2>9 DEF AgentInv
<1>22. ASSUME NEW w \in Worker, RestoreFails(w) PROVE AgentInv'
  <2>1. /\ StepsBack(w) /\ pc[w] = "restoring"
        /\ UNCHANGED <<disk, context, syncing, syncs, entries, captured, plan, foreign>>
        /\ unrestored' = [unrestored EXCEPT ![w] = TRUE]
    BY <1>22 DEF RestoreFails, Checking, hostVars, ledgerVars, callVars
  <2>2. nth[w] \in 1 .. Len(plan[w])
    <3>1. nth[w] \in Nat /\ plan[w] \in Seq(Snapshot) /\ Len(plan[w]) \in Nat
      BY <1>n
    <3> QED BY <1>22, <2>1, <3>1 DEF AgentInv, WorkerInv, Placed, RestoreFails, Checking
  <2>3. WorkerInv(w)
    BY DEF AgentInv
  <2>u. unrestored' \in [Worker -> BOOLEAN] /\ (\A x \in Worker : x # w => unrestored'[x] = unrestored[x])
        /\ unrestored'[w] = TRUE
    BY <1>u, <2>1
  <2>4. ASSUME NEW i \in DOMAIN plan[w], Target(w, i) \notin foreign'[w]
        PROVE  /\ i < nth[w] => disk'[Target(w, i)] = plan[w][i].to
               /\ nth[w] <= i /\ ~unrestored'[w] => disk'[Target(w, i)] = plan[w][i].from
    <3>1. i \in Nat /\ nth[w] \in Nat
      BY <1>n, SnapshotType
    <3>2. i < nth[w] => AsWritten(w, i)
      BY <2>1, <3>1 DEF AsWritten
    <3>3. nth[w] <= i /\ ~unrestored'[w] => AsFound(w, i)
      BY <2>1, <2>u, <3>1 DEF AsFound
    <3> QED BY <2>1, <2>3, <2>4, <3>2, <3>3 DEF WorkerInv, FilesHold
  <2>5. ~BlocksHalfway =>
           \A i \in DOMAIN plan[w] : i > 1 => disk'[Target(w, i)] # Blocked
    BY <2>1, <2>3 DEF WorkerInv, StayFiles, Steps
  <2>6. /\ pc' \in [Worker -> Places] /\ nth' \in [Worker -> Nat]
        /\ \A x \in Worker : x # w => pc'[x] = pc[x] /\ nth'[x] = nth[x]
        /\ WorkerInv(w)'
    <3>1. plan' = plan /\ StepsBack(w) /\ pc[w] \in {"checking", "writing", "comparing", "restoring"}
      BY <2>1
    <3> QED BY <2>2, <2>4, <2>5, <3>1, BackKeeps
  <2>7. WorkerTypes'
    BY <1>0, <2>1, <2>u, <2>6 DEF WorkerTypes
  <2>8. LedgerShape'
    BY <1>0, <2>1 DEF LedgerShape, Distinct
  <2>9. ASSUME NEW x \in Worker, x # w PROVE WorkerInv(x)'
    BY <2>1, <2>u, <2>6, <2>9, Bystander
  <2> QED BY <2>6, <2>7, <2>8, <2>9 DEF AgentInv
<1>23. ASSUME NEW w \in Worker, CheckCannotRead(w) PROVE AgentInv'
  <2>1. /\ pc' = [pc EXCEPT ![w] = "failed"]
        /\ UNCHANGED <<disk, context, syncing, syncs, entries, captured, plan, nth,
                       unrestored, foreign>>
        /\ pc[w] = "checking" /\ nth[w] <= Len(plan[w])
        /\ disk[Target(w, nth[w])] = Blocked
    BY <1>23 DEF CheckCannotRead, Checking, Here, Target, Goes, hostVars, ledgerVars, callVars
  <2>2. WorkerTypes'
    <3>1. pc' \in [Worker -> Places]
      BY <1>p, <2>1 DEF Places
    <3> QED BY <1>0, <2>1, <3>1 DEF WorkerTypes
  <2>3. LedgerShape'
    BY <1>0, <2>1 DEF LedgerShape, Distinct
  <2>4. ASSUME NEW x \in Worker, x # w PROVE WorkerInv(x)'
    BY <1>p, <2>1, <2>4, Bystander
  <2>5. WorkerInv(w)'
    <3>1. pc'[w] = "failed"
      BY <1>p, <2>1
    <3>2. WorkerInv(w)
      BY DEF AgentInv
    <3>3. Placed(w)' /\ MayChange(w)' /\ StayFiles(w)'
      BY <2>1, <3>1, <3>2 DEF WorkerInv, Placed, MayChange, StayFiles, Steps, Distinct
    <3>4. ~BlocksHalfway => nth[w] = 1
      <4>1. nth[w] \in DOMAIN plan[w] /\ nth[w] \in Nat /\ nth[w] >= 1
        <5>1. plan[w] \in Seq(Snapshot) /\ Len(plan[w]) \in Nat /\ nth[w] \in Nat
          BY <1>n
        <5> QED BY <2>1, <3>2, <5>1 DEF WorkerInv, Placed
      <4>2. ~BlocksHalfway => ~(nth[w] > 1)
        BY <2>1, <3>2, <4>1 DEF WorkerInv, StayFiles, Steps
      <4> QED BY <4>1, <4>2
    <3>5. FilesHold(w)'
      <4>1. \A i \in DOMAIN plan[w] : AsFound(w, i)' => AsFound(w, i)
        <5>1. \A i \in DOMAIN plan[w] : i \in Nat /\ i >= 1
          BY <1>n, SnapshotType
        <5> QED BY <2>1, <3>1, <3>4, <5>1 DEF AsFound
      <4>2. \A i \in DOMAIN plan[w] : ~AsWritten(w, i)'
        BY <3>1 DEF AsWritten
      <4> QED BY <2>1, <3>2, <4>1, <4>2 DEF WorkerInv, FilesHold, Target
    <3> QED BY <3>3, <3>5 DEF WorkerInv
  <2> QED BY <2>2, <2>3, <2>4, <2>5 DEF AgentInv
<1>24. ASSUME NEW w \in Worker, WritePasses(w) PROVE AgentInv'
  <2>1. /\ pc' = [pc EXCEPT ![w] = "checking"] /\ nth' = [nth EXCEPT ![w] = @ + 1]
        /\ UNCHANGED <<context, syncing, syncs, entries, captured, plan, unrestored>>
        /\ pc[w] = "writing" /\ Change(w, Target(w, nth[w]), plan[w][nth[w]].to)
    BY <1>24 DEF WritePasses, Here, Target, Goes, hostVars, ledgerVars, callVars
  <2>2. nth[w] \in 1 .. Len(plan[w]) /\ nth[w] \in DOMAIN plan[w] /\ Len(plan[w]) \in Nat
    <3>1. nth[w] \in Nat /\ plan[w] \in Seq(Snapshot) /\ Len(plan[w]) \in Nat
      BY <1>n
    <3> QED BY <2>1, <3>1 DEF AgentInv, WorkerInv, Placed
  <2>3. WorkerInv(w)
    BY DEF AgentInv
  <2>4. /\ foreign'[w] = foreign[w] \ {Target(w, nth[w])}
        /\ disk'[Target(w, nth[w])] = plan[w][nth[w]].to
        /\ \A i \in DOMAIN plan[w] : i # nth[w] =>
              /\ Target(w, i) # Target(w, nth[w])
              /\ disk'[Target(w, i)] = disk[Target(w, i)]
    BY <2>1, <2>2, OwnChange
  <2>5. plan[w][nth[w]].to \in State /\ Target(w, nth[w]) \in File
        /\ plan[w][nth[w]].to # Blocked
    BY <1>b, <1>n, <2>2, SnapshotType DEF Target
  <2>6. disk' \in [File -> State \cup {Blocked}] /\ foreign' \in [Worker -> SUBSET File]
    BY <2>1, <2>5, ChangeType
  <2>7. LedgerShape'
    BY <1>0, <2>1 DEF LedgerShape, Distinct
  <2>8. ~BlocksHalfway =>
           \A i \in DOMAIN plan[w] : i > 1 => disk'[Target(w, i)] # Blocked
    BY <2>1, <2>3, <2>4, <2>5 DEF WorkerInv, StayFiles, Steps
  <2>9. WorkerTypes'
    <3>1. pc' \in [Worker -> Places] /\ nth' \in [Worker -> Nat]
      BY <1>p, <1>n, <2>1 DEF Places
    <3> QED BY <1>0, <2>1, <2>6, <3>1 DEF WorkerTypes
  <2>10. ASSUME NEW x \in Worker, x # w PROVE WorkerInv(x)'
    <3>1. pc'[x] = pc[x] /\ nth'[x] = nth[x]
      BY <1>p, <1>n, <2>1, <2>10
    <3> QED BY <2>1, <2>5, <2>10, <3>1, ChangeIsNoted, Bystander
  <2>11. WorkerInv(w)'
    <3>1. pc'[w] = "checking" /\ nth'[w] = nth[w] + 1
      BY <1>p, <1>n, <2>1
    <3>2. Placed(w)' /\ MayChange(w)' /\ StayFiles(w)'
      BY <2>1, <2>2, <2>3, <2>8, <3>1 DEF WorkerInv, Placed, MayChange, StayFiles,
         Distinct, Target
    <3>3. FilesHold(w)'
      <4>1. ASSUME NEW i \in DOMAIN plan[w]
            PROVE  /\ i # nth[w] /\ AsFound(w, i)' => AsFound(w, i)
                   /\ i # nth[w] /\ AsWritten(w, i)' => AsWritten(w, i)
                   /\ i = nth[w] => ~AsFound(w, i)'
        <5>1. i \in Nat /\ nth[w] \in Nat
          BY <1>n, SnapshotType
        <5> QED BY <2>1, <3>1, <5>1 DEF AsFound, AsWritten
      <4>2. ASSUME NEW i \in DOMAIN plan[w], Target(w, i) \notin foreign'[w]
            PROVE  /\ AsFound(w, i)' => disk'[Target(w, i)] = plan[w][i].from
                   /\ AsWritten(w, i)' => disk'[Target(w, i)] = plan[w][i].to
        <5>1. CASE i = nth[w]
          BY <2>4, <4>1, <5>1
        <5>2. CASE i # nth[w]
          BY <2>3, <2>4, <4>1, <4>2, <5>2 DEF WorkerInv, FilesHold
        <5> QED BY <5>1, <5>2
      <4> QED BY <2>1, <4>2 DEF FilesHold, Target
    <3> QED BY <3>2, <3>3 DEF WorkerInv
  <2> QED BY <2>7, <2>9, <2>10, <2>11 DEF AgentInv
<1>25. ASSUME NEW w \in Worker, RestorePasses(w) PROVE AgentInv'
  <2>1. /\ StepsBack(w)
        /\ UNCHANGED <<context, syncing, syncs, entries, captured, plan, unrestored>>
        /\ pc[w] = "restoring" /\ Change(w, Target(w, nth[w]), plan[w][nth[w]].from)
    BY <1>25 DEF RestorePasses, Here, Target, hostVars, ledgerVars, callVars
  <2>2. nth[w] \in 1 .. Len(plan[w]) /\ nth[w] \in DOMAIN plan[w] /\ Len(plan[w]) \in Nat
    <3>1. nth[w] \in Nat /\ plan[w] \in Seq(Snapshot) /\ Len(plan[w]) \in Nat
      BY <1>n
    <3> QED BY <2>1, <3>1 DEF AgentInv, WorkerInv, Placed
  <2>3. WorkerInv(w)
    BY DEF AgentInv
  <2>4. /\ foreign'[w] = foreign[w] \ {Target(w, nth[w])}
        /\ disk'[Target(w, nth[w])] = plan[w][nth[w]].from
        /\ \A i \in DOMAIN plan[w] : i # nth[w] =>
              /\ Target(w, i) # Target(w, nth[w])
              /\ disk'[Target(w, i)] = disk[Target(w, i)]
    BY <2>1, <2>2, OwnChange
  <2>5. plan[w][nth[w]].from \in State /\ Target(w, nth[w]) \in File
        /\ plan[w][nth[w]].from # Blocked
    BY <1>b, <1>n, <2>2, SnapshotType DEF Target
  <2>6. disk' \in [File -> State \cup {Blocked}] /\ foreign' \in [Worker -> SUBSET File]
    BY <2>1, <2>5, ChangeType
  <2>7. LedgerShape'
    BY <1>0, <2>1 DEF LedgerShape, Distinct
  <2>8. ~BlocksHalfway =>
           \A i \in DOMAIN plan[w] : i > 1 => disk'[Target(w, i)] # Blocked
    BY <2>1, <2>3, <2>4, <2>5 DEF WorkerInv, StayFiles, Steps
  <2>9. ASSUME NEW i \in DOMAIN plan[w], Target(w, i) \notin foreign'[w]
        PROVE  /\ i < nth[w] => disk'[Target(w, i)] = plan[w][i].to
               /\ nth[w] <= i /\ ~unrestored'[w] => disk'[Target(w, i)] = plan[w][i].from
    <3>1. i \in Nat /\ nth[w] \in Nat
      BY <1>n, SnapshotType
    <3>2. i < nth[w] => AsWritten(w, i)
      BY <2>1, <3>1 DEF AsWritten
    <3>3. nth[w] < i /\ ~unrestored'[w] => AsFound(w, i)
      BY <2>1, <3>1 DEF AsFound
    <3>4. CASE i = nth[w]
      BY <2>4, <3>1, <3>4
    <3>5. CASE i # nth[w]
      BY <2>3, <2>4, <2>9, <3>1, <3>2, <3>3, <3>5 DEF WorkerInv, FilesHold
    <3> QED BY <3>4, <3>5
  <2>10. /\ pc' \in [Worker -> Places] /\ nth' \in [Worker -> Nat]
         /\ \A x \in Worker : x # w => pc'[x] = pc[x] /\ nth'[x] = nth[x]
         /\ WorkerInv(w)'
    <3>1. plan' = plan /\ StepsBack(w) /\ pc[w] \in {"checking", "writing", "comparing", "restoring"}
      BY <2>1
    <3> QED BY <2>2, <2>8, <2>9, <3>1, BackKeeps
  <2>11. WorkerTypes'
    BY <1>0, <2>1, <2>6, <2>10 DEF WorkerTypes
  <2>12. ASSUME NEW x \in Worker, x # w PROVE WorkerInv(x)'
    BY <2>1, <2>5, <2>10, <2>12, ChangeIsNoted, Bystander
  <2> QED BY <2>7, <2>10, <2>11, <2>12 DEF AgentInv
<1>26. ASSUME NEW f \in File, NEW state \in State \cup {Blocked}, OthersDo(f, state)
      PROVE  AgentInv'
  <2>1. /\ Change("other", f, state)
        /\ UNCHANGED <<context, syncing, syncs, entries, pc, captured, plan, nth, unrestored>>
        /\ state = Blocked => BlocksHalfway \/ ~LaterTarget(f)
    BY <1>26 DEF OthersDo, hostVars, ledgerVars, callVars
  <2>2. WorkerTypes'
    BY <1>0, <2>1, ChangeType DEF WorkerTypes
  <2>3. LedgerShape'
    BY <1>0, <2>1 DEF LedgerShape, Distinct
  <2>4. ASSUME NEW x \in Worker PROVE WorkerInv(x)'
    <3>1. x # "other" /\ (~BlocksHalfway /\ state = Blocked => ~LaterTarget(f))
      BY <1>26, <2>1
    <3> HIDE DEF LaterTarget
    <3> QED BY <2>1, <3>1, ChangeIsNoted, Bystander
  <2> QED BY <2>2, <2>3, <2>4 DEF AgentInv
<1>27. CASE UNCHANGED workspaceVars
  <2> QED BY <1>0, <1>1, <1>27 DEF workspaceVars, hostVars, ledgerVars, callVars, WorkerTypes
<1> QED
  BY <1>1, <1>2, <1>3, <1>4, <1>5, <1>6, <1>7, <1>8, <1>9, <1>10, <1>11,
     <1>12, <1>13, <1>14, <1>15, <1>16, <1>17, <1>18, <1>19, <1>20, <1>21,
     <1>22, <1>23, <1>24, <1>25, <1>26, <1>27
  DEF WorkspaceNext, Sync, Plans, Commits, RollsBack

LEMMA WorkspaceInvInit == WorkspaceInit => AgentInv
<1> SUFFICES ASSUME WorkspaceInit PROVE AgentInv
  OBVIOUS
<1> USE HostAssumption
<1>1. WorkerTypes
  <2>1. disk \in [File -> State \cup {Blocked}]
    BY DEF WorkspaceInit, State
  <2>2. /\ pc \in [Worker -> Places] /\ captured \in [Worker -> Context \cup {NoContext}]
        /\ plan \in [Worker -> Seq(Snapshot)] /\ nth \in [Worker -> Nat]
        /\ unrestored \in [Worker -> BOOLEAN] /\ foreign \in [Worker -> SUBSET File]
    BY DEF WorkspaceInit, Places
  <2> QED BY <2>1, <2>2 DEF WorkspaceInit, WorkerTypes
<1>2. LedgerShape
  <2>1. <<>> \in Seq({}) /\ DOMAIN <<>> = {}
    OBVIOUS
  <2> QED BY <2>1 DEF WorkspaceInit, LedgerShape
<1>3. ASSUME NEW w \in Worker PROVE WorkerInv(w)
  <2>1. pc[w] = "idle" /\ plan[w] = <<>> /\ unrestored[w] = FALSE /\ DOMAIN <<>> = {}
    BY DEF WorkspaceInit
  <2> QED BY <2>1 DEF WorkerInv, Placed, MayChange, FilesHold, StayFiles, Distinct, Steps
<1> QED BY <1>1, <1>2, <1>3 DEF AgentInv

(* The invariant holds in every behaviour.                                   *)
THEOREM WorkspaceInvariant == WorkspaceSpec => []AgentInv
<1> QED BY WorkspaceInvInit, WorkspaceInvStep, PTL DEF WorkspaceSpec

-----------------------------------------------------------------------------
(* A call is applied to all its files or to none, or says that its rollback  *)
(* failed, as long as no later target stops being a file half-way.           *)
THEOREM AllOrNothingHolds == WorkspaceSpec => [](~BlocksHalfway => AllOrNothing)
<1>1. ASSUME ~BlocksHalfway, AgentInv PROVE AllOrNothing
  <2> SUFFICES ASSUME NEW w \in Worker, NEW i \in DOMAIN plan[w],
                      plan[w][i].file \notin foreign[w]
               PROVE  /\ pc[w] = "done" => disk[plan[w][i].file] = plan[w][i].to
                      /\ pc[w] = "failed" /\ ~unrestored[w]
                           => disk[plan[w][i].file] = plan[w][i].from
    BY DEF AllOrNothing
  <2>1. FilesHold(w)
    BY <1>1 DEF AgentInv, WorkerInv
  <2>2. /\ pc[w] = "done" => AsWritten(w, i)
        /\ pc[w] = "failed" /\ ~unrestored[w] => AsFound(w, i)
    BY <1>1 DEF AsFound, AsWritten
  <2> QED BY <2>1, <2>2 DEF FilesHold, Target
<1>2. AgentInv => (~BlocksHalfway => AllOrNothing)
  BY <1>1
<1> QED BY <1>2, WorkspaceInvariant, PTL

(* Neither a commit nor a rollback writes over what it has not seen.         *)
THEOREM NothingIsLost == WorkspaceSpec => NoLostUpdate
<1>1. ASSUME AgentInv, NEW w \in Worker, pc[w] \in {"writing", "restoring"},
             Here(w).file \notin foreign[w]
      PROVE  disk[Here(w).file] = IF pc[w] = "writing" THEN Here(w).from ELSE Here(w).to
  <2>1. WorkerInv(w) /\ plan[w] \in Seq(Snapshot) /\ nth[w] \in Nat
    BY <1>1 DEF AgentInv, WorkerTypes
  <2>2. nth[w] \in DOMAIN plan[w]
    BY <1>1, <2>1 DEF WorkerInv, Placed
  <2>3. pc[w] = "writing" => AsFound(w, nth[w])
    BY <2>1 DEF AsFound
  <2>4. pc[w] = "restoring" => AsWritten(w, nth[w])
    BY <2>1 DEF AsWritten
  <2> QED BY <1>1, <2>1, <2>2, <2>3, <2>4 DEF WorkerInv, FilesHold, Here, Target
<1>2. AgentInv => [ \A w \in Worker : pc[w] \in {"writing", "restoring"} =>
          LET f == Here(w).file
          IN  disk'[f] # disk[f] /\ pc'[w] # pc[w] /\ f \notin foreign[w]
                => disk[f] = IF pc[w] = "writing" THEN Here(w).from ELSE Here(w).to ]_workspaceVars
  BY <1>1
<1> QED BY <1>2, WorkspaceInvariant, PTL DEF NoLostUpdate

(* A call begins to write only where the present context lets it.            *)
THEOREM CommitsHoldToTheContext == WorkspaceSpec => CommitsUnderTheLiveContext
<1>1. ASSUME AgentInv, [WorkspaceNext]_workspaceVars, NEW w \in Worker, pc[w] = "planned",
             pc'[w] = "checking"
      PROVE  /\ context # NoContext /\ ~context.readOnly
             /\ \A f \in FilesOf(plan[w]) :
                  RootOf[f] = context.root /\ f \notin context.protected
  <2>1. pc \in [Worker -> Places]
    BY <1>1 DEF AgentInv, WorkerTypes
  <2>2. Recheck(w)
    <3>1. ASSUME NEW x \in Worker, NEW place \in Places, pc' = [pc EXCEPT ![x] = place]
          PROVE  x = w /\ place = "checking"
      BY <1>1, <2>1, <3>1
    <3>2. ASSUME NEW x \in Worker, StepsBack(x) PROVE FALSE
      <4>1. pc' = [pc EXCEPT ![x] = IF nth[x] = 1 THEN "failed" ELSE "comparing"]
        BY <3>2 DEF StepsBack, Goes
      <4> QED BY <1>1, <2>1, <4>1
    <3>3. pc' # pc
      BY <1>1
    <3>4. \A x \in Worker : ~TurnStarts(x) /\ ~CallTool(x) /\ ~Capture(x) /\ ~Refused(x)
      BY <3>1, <3>3 DEF TurnStarts, CallTool, Capture, Refused, Goes, Places
    <3>5. \A x \in Worker : /\ \A f \in File, to \in State : ~PlanOperation(x, f, to)
                            /\ \A i \in DOMAIN entries : ~PlanUndo(x, i)
                            /\ \A f, g \in File : ~Move(x, f, g)
                            /\ \A f \in File : ~Trash(x, f)
      BY <3>1 DEF PlanOperation, PlanUndo, Move, Trash, Goes, Places
    <3>6. \A x \in Worker : ~Record(x) /\ ~MarkUndone(x) /\ ~CheckPasses(x)
                            /\ ~CheckCannotRead(x) /\ ~ComparePasses(x)
      BY <3>1 DEF Record, MarkUndone, CheckPasses, CheckCannotRead, ComparePasses, Goes, Places
    <3>7. \A x \in Worker : ~CheckRefuses(x) /\ ~WriteFails(x) /\ ~CompareRefuses(x)
                            /\ ~RestorePasses(x) /\ ~RestoreFails(x)
      BY <3>2 DEF CheckRefuses, WriteFails, CompareRefuses, RestorePasses, RestoreFails
    <3>8. \A x \in Worker : ~WritePasses(x)
      BY <1>1, <3>1 DEF WritePasses, Goes, Places
    <3>9. \A x \in Worker : Recheck(x) => x = w
      BY <3>1 DEF Recheck, Goes, Places
    <3>10. ~Sync /\ ~(\E f \in File, state \in State \cup {Blocked} : OthersDo(f, state))
           /\ workspaceVars' # workspaceVars
      BY <3>3 DEF Sync, SyncBegins, SyncLeaves, SyncEnds, OthersDo, workspaceVars
    <3> QED BY <1>1, <3>4, <3>5, <3>6, <3>7, <3>8, <3>9, <3>10
            DEF WorkspaceNext, Plans, Commits, RollsBack
  <2>3. WorkerInv(w) /\ plan[w] \in Seq(Snapshot)
    BY <1>1 DEF AgentInv, WorkerTypes
  <2>4. \A f \in FilesOf(plan[w]) : Mutable(w, f)
    BY <1>1, <2>3 DEF WorkerInv, MayChange, FilesOf, Target
  <2> QED BY <2>2, <2>4 DEF Recheck, SameContext, Mutable
<1>2. AgentInv /\ [WorkspaceNext]_workspaceVars => [ \A w \in Worker : pc[w] = "planned" /\ pc'[w] = "checking" =>
          /\ context # NoContext /\ ~context.readOnly
          /\ \A f \in FilesOf(plan[w]) :
               RootOf[f] = context.root /\ f \notin context.protected ]_workspaceVars
  BY <1>1
<1> QED BY <1>2, WorkspaceInvariant, PTL DEF WorkspaceSpec, CommitsUnderTheLiveContext

-----------------------------------------------------------------------------
(* Sums of sequences of numbers *)

(* Otherwise m is not in S: k -> k + 1 would map the elements of S below m   *)
(* into one element fewer.                                                   *)
LEMMA Induction ==
    ASSUME NEW S \in SUBSET Nat, 0 \in S, \A n \in S : n + 1 \in S
    PROVE  S = Nat
<1> SUFFICES ASSUME NEW m \in Nat, m \notin S PROVE FALSE
  OBVIOUS
<1> DEFINE below == (0 .. m) \cap S
           rest == below \ {0}
           next == [k \in below |-> k + 1]
<1>1. /\ IsFiniteSet(below) /\ IsFiniteSet(rest)
      /\ Cardinality(rest) = Cardinality(below) - 1 /\ Cardinality(below) \in Nat
  <2>1. IsFiniteSet(0 .. m)
    BY FS_Interval
  <2>2. IsFiniteSet(below)
    BY <2>1, FS_Subset
  <2>3. 0 \in below
    OBVIOUS
  <2> QED BY <2>2, <2>3, FS_RemoveElement, FS_CardinalityType
<1>2. next \in Injection(below, rest)
  <2>1. ASSUME NEW k \in below PROVE k + 1 \in rest
    OBVIOUS
  <2> QED BY <2>1 DEF Injection, IsInjective
<1>3. Cardinality(below) <= Cardinality(rest)
  <2> HIDE DEF below, rest, next
  <2> QED BY <1>1, <1>2, FS_Injection
<1> QED BY <1>1, <1>3

(* f[n] is the sum of the first n numbers.                                   *)
Sums(f, numbers) ==
    /\ f[0] = 0
    /\ \A n \in 1 .. Len(numbers) : f[n] = f[n - 1] + numbers[n]

LEMMA SumsExist ==
    ASSUME NEW numbers \in Seq(Nat)
    PROVE  \E f \in [0 .. Len(numbers) -> Nat] : Sums(f, numbers)
<1> DEFINE N == Len(numbers)
           Upto(m) ==
        \E f \in [0 .. m -> Nat] :
            f[0] = 0 /\ \A n \in 1 .. m : f[n] = f[n - 1] + numbers[n]
           Reached == {m \in Nat : m <= N => Upto(m)}
<1>0. N \in Nat /\ \A n \in 1 .. N : numbers[n] \in Nat
  OBVIOUS
<1> HIDE DEF N
<1>1. 0 \in Reached
  <2> DEFINE f == [n \in 0 .. 0 |-> 0]
  <2>1. f \in [0 .. 0 -> Nat]
    OBVIOUS
  <2>2. f[0] = 0 /\ \A n \in 1 .. 0 : f[n] = f[n - 1] + numbers[n]
    OBVIOUS
  <2>3. Upto(0)
    BY <2>1, <2>2
  <2> QED BY <2>3
<1>2. ASSUME NEW m \in Reached PROVE m + 1 \in Reached
  <2> SUFFICES ASSUME m + 1 <= N PROVE Upto(m + 1)
    BY m + 1 \in Nat
  <2>0. m <= N /\ m \in Nat /\ m + 1 \in 1 .. N
    BY <1>0
  <2>1. PICK f \in [0 .. m -> Nat] :
              f[0] = 0 /\ \A n \in 1 .. m : f[n] = f[n - 1] + numbers[n]
    BY <2>0
  <2> DEFINE g == [n \in 0 .. m + 1 |-> IF n = m + 1 THEN f[m] + numbers[m + 1] ELSE f[n]]
  <2>2. f[m] + numbers[m + 1] \in Nat
    BY <1>0, <2>0
  <2>3. g \in [0 .. m + 1 -> Nat]
    BY <2>2
  <2>4. g[0] = 0
    BY <2>1
  <2>5. ASSUME NEW n \in 1 .. m + 1 PROVE g[n] = g[n - 1] + numbers[n]
    <3>1. CASE n \in 1 .. m
      <4>1. n # m + 1 /\ n - 1 # m + 1 /\ n - 1 \in 0 .. m + 1 /\ n \in 0 .. m + 1
        BY <3>1
      <4> QED BY <2>1, <3>1, <4>1
    <3>2. CASE n = m + 1
      BY <3>2
    <3> QED BY <3>1, <3>2
  <2> HIDE DEF g
  <2> QED BY <2>3, <2>4, <2>5
<1>3. Reached = Nat
  BY <1>1, <1>2, Induction
<1>4. N \in Reached
  BY <1>0, <1>3
<1>5. Upto(N)
  BY <1>0, <1>4
<1> QED BY <1>5 DEF N, Sums

(* Total is the last of any such sums.                                       *)
LEMMA TotalIsTheSum ==
    ASSUME NEW numbers \in Seq(Nat),
           NEW f \in [0 .. Len(numbers) -> Nat], Sums(f, numbers)
    PROVE  Total(numbers) = f[Len(numbers)] /\ Total(numbers) \in Nat
<1> DEFINE N == Len(numbers)
           first[n \in 0 .. N] == IF n = 0 THEN 0 ELSE first[n - 1] + numbers[n]
           Body(g) == [n \in 0 .. N |-> IF n = 0 THEN 0 ELSE g[n - 1] + numbers[n]]
<1>0. N \in Nat
  OBVIOUS
<1>1. f = Body(f)
  <2>1. \A n \in 0 .. N : n # 0 => n \in 1 .. N
    OBVIOUS
  <2>2. f \in [0 .. N -> Nat]
    OBVIOUS
  <2> HIDE DEF N
  <2>3. f = [n \in 0 .. N |-> f[n]]
    BY <2>2
  <2>4. \A n \in 0 .. N : f[n] = Body(f)[n]
    BY <2>1 DEF Sums, N
  <2> QED BY <2>3, <2>4
<1>2. first = CHOOSE g : g = Body(g)
  OBVIOUS
<1>3. first = Body(first)
  <2> HIDE DEF Body, first
  <2> QED BY <1>1, <1>2
<1>4. Total(numbers) = first[N]
  BY DEF Total
<1> DEFINE Same == {m \in Nat : m <= N => first[m] = f[m]}
<1>5. Same = Nat
  <2> HIDE DEF first, N
  <2>1. 0 \in Same
    BY <1>0, <1>3 DEF Sums
  <2>2. ASSUME NEW m \in Same PROVE m + 1 \in Same
    <3> SUFFICES ASSUME m + 1 <= N PROVE first[m + 1] = f[m + 1]
      BY m + 1 \in Nat
    <3>1. m + 1 # 0 /\ (m + 1) - 1 = m /\ m + 1 \in 0 .. N /\ m <= N /\ m + 1 \in 1 .. N
      BY <1>0
    <3>2. first[m + 1] = Body(first)[m + 1]
      <4> HIDE DEF Body
      <4> QED BY <1>3
    <3>3. first[m + 1] = first[m] + numbers[m + 1]
      BY <3>1, <3>2
    <3>4. f[m + 1] = f[m] + numbers[m + 1]
      BY <3>1 DEF Sums, N
    <3> QED BY <3>1, <3>3, <3>4
  <2> HIDE DEF Same
  <2>3. Same \in SUBSET Nat
    BY DEF Same
  <2> QED BY <2>1, <2>2, <2>3, Induction
<1>6. first[N] = f[N]
  <2> HIDE DEF first, N
  <2> QED BY <1>0, <1>5
<1>7. f[N] \in Nat
  OBVIOUS
<1> HIDE DEF first, N
<1> QED BY <1>4, <1>6, <1>7 DEF N

LEMMA TotalType ==
    ASSUME NEW numbers \in Seq(Nat)
    PROVE  Total(numbers) \in Nat
  BY SumsExist, TotalIsTheSum

(* A number at the end is added.                                             *)
LEMMA TotalOfMore ==
    ASSUME NEW numbers \in Seq(Nat), NEW x \in Nat
    PROVE  Total(Append(numbers, x)) = Total(numbers) + x
<1> DEFINE N == Len(numbers)
           longer == Append(numbers, x)
<1>0. /\ N \in Nat /\ longer \in Seq(Nat) /\ Len(longer) = N + 1
      /\ \A n \in 1 .. N : longer[n] = numbers[n]
      /\ longer[N + 1] = x
  OBVIOUS
<1>1. PICK f \in [0 .. N -> Nat] : Sums(f, numbers)
  BY SumsExist
<1>2. Total(numbers) = f[N]
  BY <1>1, TotalIsTheSum
<1> DEFINE g == [n \in 0 .. N + 1 |-> IF n = N + 1 THEN f[N] + x ELSE f[n]]
<1> HIDE DEF longer
<1>3. g \in [0 .. Len(longer) -> Nat]
  <2> HIDE DEF N
  <2> QED BY <1>0
<1>4. Sums(g, longer)
  <2>0. \A n \in 1 .. N : f[n] = f[n - 1] + numbers[n]
    BY <1>1 DEF Sums
  <2> HIDE DEF N
  <2>1. g[0] = 0
    BY <1>0, <1>1 DEF Sums
  <2>2. ASSUME NEW n \in 1 .. N + 1 PROVE g[n] = g[n - 1] + longer[n]
    <3>1. CASE n \in 1 .. N
      <4>1. n # N + 1 /\ n - 1 # N + 1 /\ n - 1 \in 0 .. N + 1 /\ n \in 0 .. N + 1
        BY <1>0, <3>1
      <4> QED BY <1>0, <2>0, <3>1, <4>1
    <3>2. CASE n = N + 1
      BY <1>0, <3>2
    <3> QED BY <1>0, <3>1, <3>2
  <2> HIDE DEF g
  <2> QED BY <1>0, <2>1, <2>2 DEF Sums
<1>5. g[N + 1] = f[N] + x
  BY <1>0
<1> HIDE DEF g
<1> QED BY <1>0, <1>2, <1>3, <1>4, <1>5, TotalIsTheSum DEF longer

(* The first k numbers and the others make up the total.                     *)
LEMMA TotalInParts ==
    ASSUME NEW numbers \in Seq(Nat), NEW k \in 0 .. Len(numbers)
    PROVE  /\ Total(SubSeq(numbers, 1, k)) \in Nat
           /\ Total(SubSeq(numbers, k + 1, Len(numbers))) \in Nat
           /\ Total(numbers) = Total(SubSeq(numbers, 1, k))
                                 + Total(SubSeq(numbers, k + 1, Len(numbers)))
<1> DEFINE N == Len(numbers)
           head == SubSeq(numbers, 1, k)
           tail == SubSeq(numbers, k + 1, N)
<1>0. /\ N \in Nat /\ k \in Nat /\ k <= N
      /\ head \in Seq(Nat) /\ tail \in Seq(Nat)
      /\ Len(head) = k /\ Len(tail) = N - k
      /\ \A n \in 1 .. k : head[n] = numbers[n]
      /\ \A n \in 1 .. N - k : tail[n] = numbers[k + n]
      /\ \A n \in 1 .. N : numbers[n] \in Nat
  <2>1. N \in Nat /\ k \in Nat /\ k <= N /\ \A n \in 1 .. N : numbers[n] \in Nat
    OBVIOUS
  <2> HIDE DEF N
  <2>2. \A n \in 1 .. k : numbers[n] \in Nat
    BY <2>1
  <2>3. \A n \in k + 1 .. N : numbers[n] \in Nat
    BY <2>1
  <2>4. /\ head \in Seq(Nat) /\ Len(head) = (IF 1 <= k THEN k - 1 + 1 ELSE 0)
        /\ \A n \in 1 .. k - 1 + 1 : head[n] = numbers[1 + n - 1]
    <3>1. 1 \in Int /\ k \in Int
      BY <2>1
    <3> QED BY <2>2, <3>1, SubSeqProperties
  <2>5. /\ tail \in Seq(Nat)
        /\ Len(tail) = (IF k + 1 <= N THEN N - (k + 1) + 1 ELSE 0)
        /\ \A n \in 1 .. N - (k + 1) + 1 : tail[n] = numbers[(k + 1) + n - 1]
    <3>1. k + 1 \in Int /\ N \in Int
      BY <2>1
    <3> QED BY <2>3, <3>1, SubSeqProperties
  <2> HIDE DEF head, tail
  <2>6. Len(head) = k /\ \A n \in 1 .. k : head[n] = numbers[n]
    <3>1. \A n \in 1 .. k : n \in 1 .. k - 1 + 1 /\ 1 + n - 1 = n
      BY <2>1
    <3> QED BY <2>1, <2>4, <3>1
  <2>7. Len(tail) = N - k /\ \A n \in 1 .. N - k : tail[n] = numbers[k + n]
    <3>1. \A n \in 1 .. N - k : n \in 1 .. N - (k + 1) + 1 /\ (k + 1) + n - 1 = k + n
      BY <2>1
    <3> QED BY <2>1, <2>5, <3>1
  <2> QED BY <2>1, <2>4, <2>5, <2>6, <2>7
<1>1. PICK f \in [0 .. N -> Nat] : Sums(f, numbers)
  BY SumsExist
<1>2. Total(numbers) = f[N]
  BY <1>1, TotalIsTheSum
<1>3. PICK g \in [0 .. Len(tail) -> Nat] : Sums(g, tail)
  <2> HIDE DEF tail
  <2> QED BY <1>0, SumsExist
<1>4. Total(tail) = g[N - k]
  <2> HIDE DEF tail
  <2> QED BY <1>0, <1>3, TotalIsTheSum
<1>5. Total(head) = f[k]
  <2> DEFINE h == [n \in 0 .. k |-> f[n]]
  <2> HIDE DEF head, tail
  <2>0. \A n \in 1 .. N : f[n] = f[n - 1] + numbers[n]
    BY <1>1 DEF Sums
  <2> HIDE DEF N
  <2>1. h \in [0 .. Len(head) -> Nat]
    BY <1>0
  <2>2. h[0] = 0
    BY <1>0, <1>1 DEF Sums
  <2>3. ASSUME NEW n \in 1 .. k PROVE h[n] = h[n - 1] + head[n]
    <3>1. n \in 1 .. N /\ n \in 0 .. k /\ n - 1 \in 0 .. k
      BY <1>0
    <3> QED BY <1>0, <2>0, <3>1
  <2>4. h[k] = f[k]
    BY <1>0
  <2> HIDE DEF h
  <2>5. Sums(h, head)
    BY <1>0, <2>2, <2>3 DEF Sums
  <2> QED BY <1>0, <2>1, <2>4, <2>5, TotalIsTheSum
<1> DEFINE Further == {n \in Nat : n <= N - k => f[k + n] = f[k] + g[n]}
<1>6. Further = Nat
  <2>0. /\ \A n \in 1 .. N : f[n] = f[n - 1] + numbers[n]
        /\ \A n \in 1 .. N - k : g[n] = g[n - 1] + tail[n]
        /\ g[0] = 0 /\ g \in [0 .. N - k -> Nat]
    <3> HIDE DEF tail
    <3> QED BY <1>0, <1>1, <1>3 DEF Sums
  <2> HIDE DEF N, head, tail
  <2>1. 0 \in Further
    BY <1>0, <2>0
  <2>2. ASSUME NEW m \in Further PROVE m + 1 \in Further
    <3> SUFFICES ASSUME m + 1 <= N - k PROVE f[k + (m + 1)] = f[k] + g[m + 1]
      BY m + 1 \in Nat
    <3>1. /\ m \in Nat /\ m <= N - k /\ m + 1 \in 1 .. N - k /\ (m + 1) - 1 = m
          /\ k + (m + 1) \in 1 .. N /\ (k + (m + 1)) - 1 = k + m
      BY <1>0
    <3>2. f[k + (m + 1)] = f[k + m] + numbers[k + (m + 1)]
      BY <2>0, <3>1
    <3>3. g[m + 1] = g[m] + tail[m + 1] /\ tail[m + 1] = numbers[k + (m + 1)]
      BY <1>0, <2>0, <3>1
    <3>4. f[k + m] = f[k] + g[m]
      BY <3>1
    <3>5. f[k] \in Nat /\ g[m] \in Nat /\ numbers[k + (m + 1)] \in Nat
      <4>1. k \in 0 .. N /\ m \in 0 .. N - k
        BY <1>0, <3>1
      <4> QED BY <1>0, <1>1, <2>0, <3>1, <4>1
    <3> HIDE DEF Further
    <3> QED BY <3>2, <3>3, <3>4, <3>5
  <2> HIDE DEF Further
  <2>3. Further \in SUBSET Nat
    BY DEF Further
  <2> QED BY <2>1, <2>2, <2>3, Induction
<1>7. f[N] = f[k] + g[N - k]
  <2>1. N - k \in Nat /\ k + (N - k) = N
    BY <1>0
  <2> HIDE DEF N
  <2> QED BY <1>6, <2>1
<1>8. Total(head) \in Nat /\ Total(tail) \in Nat
  <2> HIDE DEF head, tail
  <2> QED BY <1>0, TotalType
<1> QED BY <1>2, <1>4, <1>5, <1>7, <1>8

-----------------------------------------------------------------------------
(* The ledger *)

Weights(sets) == [i \in DOMAIN sets |-> sets[i].bytes]

LEMMA WeightsOfSets ==
    ASSUME NEW sets \in Seq(ChangeSet)
    PROVE  /\ Weights(sets) \in Seq(Nat) /\ Len(Weights(sets)) = Len(sets)
           /\ LedgerBytes(sets) = Total(Weights(sets)) /\ LedgerBytes(sets) \in Nat
<1>1. \A i \in DOMAIN sets : sets[i].bytes \in Nat
  <2>1. ASSUME NEW i \in DOMAIN sets PROVE sets[i] \in ChangeSet
    OBVIOUS
  <2> QED BY <2>1 DEF ChangeSet
<1>2. Weights(sets) \in Seq(Nat) /\ Len(Weights(sets)) = Len(sets)
  BY <1>1 DEF Weights
<1>3. LedgerBytes(sets) = Total(Weights(sets))
  BY DEF LedgerBytes, Weights
<1> QED BY <1>2, <1>3, TotalType

LEMMA WeightsOfMore ==
    ASSUME NEW sets \in Seq(ChangeSet), NEW set \in ChangeSet
    PROVE  LedgerBytes(Append(sets, set)) = LedgerBytes(sets) + set.bytes
<1>1. Append(sets, set) \in Seq(ChangeSet) /\ set.bytes \in Nat
  BY DEF ChangeSet
<1>2. Weights(Append(sets, set)) = Append(Weights(sets), set.bytes)
  <2>1. Weights(sets) \in Seq(Nat) /\ Len(Weights(sets)) = Len(sets)
    BY WeightsOfSets
  <2> QED BY <1>1, <2>1 DEF Weights
<1>3. Total(Append(Weights(sets), set.bytes)) = Total(Weights(sets)) + set.bytes
  BY <1>1, WeightsOfSets, TotalOfMore
<1> QED BY <1>1, <1>2, <1>3, WeightsOfSets

LEMMA WeightsOfPart ==
    ASSUME NEW sets \in Seq(ChangeSet), NEW a \in 1 .. Len(sets) + 1, NEW b \in 0 .. Len(sets)
    PROVE  /\ SubSeq(sets, a, b) \in Seq(ChangeSet)
           /\ Weights(SubSeq(sets, a, b)) = SubSeq(Weights(sets), a, b)
<1>1. /\ Len(sets) \in Nat /\ DOMAIN sets = 1 .. Len(sets) /\ a \in Nat /\ b \in Nat
      /\ \A i \in a .. b : i \in DOMAIN sets /\ sets[i] \in ChangeSet
  OBVIOUS
<1>2. /\ SubSeq(sets, a, b) = [i \in 1 .. 1 + b - a |-> sets[a + i - 1]]
      /\ SubSeq(Weights(sets), a, b) = [i \in 1 .. 1 + b - a |-> Weights(sets)[a + i - 1]]
  BY <1>1
<1>3. \A i \in 1 .. 1 + b - a : a + i - 1 \in a .. b
  BY <1>1
<1>4. SubSeq(sets, a, b) \in Seq(ChangeSet)
  BY <1>1, SubSeqProperties
<1>5. Weights(SubSeq(sets, a, b)) = SubSeq(Weights(sets), a, b)
  BY <1>1, <1>2, <1>3 DEF Weights
<1> QED BY <1>4, <1>5

LEMMA NothingWeighs ==
    LedgerBytes(<<>>) = 0
<1>1. <<>> \in Seq(ChangeSet) /\ Len(<<>>) = 0
  OBVIOUS
<1>2. Len(Weights(<<>>)) = 0 /\ Weights(<<>>) \in Seq(Nat)
  BY <1>1, WeightsOfSets
<1>3. PICK f \in [0 .. Len(Weights(<<>>)) -> Nat] : Sums(f, Weights(<<>>))
  BY <1>2, SumsExist
<1>4. f[0] = 0
  BY <1>3 DEF Sums
<1> QED BY <1>1, <1>2, <1>3, <1>4, WeightsOfSets, TotalIsTheSum

(* What is left after the eviction is what the account says.                 *)
LEMMA KeptFits ==
    ASSUME NEW sets \in Seq(ChangeSet), Kept(sets, LedgerBytes(sets)),
           MaxEntries \in Nat, MaxBytes \in Nat
    PROVE  entries' \in Seq(ChangeSet) /\ bytes' \in Nat /\ LedgerIsBounded'
<1> DEFINE N == Len(sets)
           head(n) == SubSeq(sets, 1, n)
           left(n) == Less(LedgerBytes(sets), LedgerBytes(head(n)))
<1>0. N \in Nat
  OBVIOUS
<1>1. PICK n \in 0 .. N : /\ n = N \/ (N - n <= MaxEntries /\ left(n) <= MaxBytes)
                          /\ entries' = Drop(sets, n) /\ bytes' = left(n)
  BY DEF Kept
<1>2. /\ head(n) \in Seq(ChangeSet) /\ Drop(sets, n) \in Seq(ChangeSet)
      /\ Weights(head(n)) = SubSeq(Weights(sets), 1, n)
      /\ Weights(Drop(sets, n)) = SubSeq(Weights(sets), n + 1, N)
  <2>1. 1 \in 1 .. N + 1 /\ n + 1 \in 1 .. N + 1 /\ N \in 0 .. N
    BY <1>0
  <2> QED BY <2>1, WeightsOfPart DEF Drop
<1>3. /\ LedgerBytes(head(n)) \in Nat /\ LedgerBytes(Drop(sets, n)) \in Nat
      /\ LedgerBytes(sets) = LedgerBytes(head(n)) + LedgerBytes(Drop(sets, n))
  <2>1. /\ LedgerBytes(sets) = Total(Weights(sets)) /\ Weights(sets) \in Seq(Nat)
        /\ n \in 0 .. Len(Weights(sets)) /\ Len(Weights(sets)) = N
    BY WeightsOfSets
  <2>2. /\ LedgerBytes(head(n)) = Total(Weights(head(n)))
        /\ LedgerBytes(Drop(sets, n)) = Total(Weights(Drop(sets, n)))
    BY <1>2, WeightsOfSets
  <2> HIDE DEF head, N
  <2> QED BY <1>2, <2>1, <2>2, TotalInParts
<1>4. bytes' = LedgerBytes(Drop(sets, n)) /\ bytes' \in Nat
  BY <1>1, <1>3 DEF Less
<1>5. Len(Drop(sets, n)) = N - n
  BY <1>0 DEF Drop
<1>6. n = N => LedgerBytes(Drop(sets, n)) = 0
  <2>1. n = N => Drop(sets, n) = <<>>
    BY <1>0, <1>2, <1>5
  <2> QED BY <2>1, NothingWeighs
<1> HIDE DEF N, head
<1>7. Len(entries') <= MaxEntries /\ bytes' <= MaxBytes
  <2>1. CASE n = N
    BY <1>0, <1>1, <1>4, <1>5, <1>6, <2>1
  <2>2. CASE N - n <= MaxEntries /\ left(n) <= MaxBytes
    BY <1>1, <1>5, <2>2
  <2> QED BY <1>1, <2>1, <2>2
<1> QED BY <1>1, <1>2, <1>4, <1>7 DEF LedgerIsBounded

LEMMA EmptyLedger ==
    ASSUME MaxEntries \in Nat, MaxBytes \in Nat, entries' = <<>>, bytes' = 0
    PROVE  entries' \in Seq(ChangeSet) /\ bytes' \in Nat /\ LedgerIsBounded'
<1>1. <<>> \in Seq(ChangeSet) /\ Len(<<>>) = 0
  OBVIOUS
<1> QED BY <1>1, NothingWeighs DEF LedgerIsBounded

(* What a patch holds is a number.                                           *)
LEMMA SnapshotsWeigh ==
    ASSUME HostAssumption, NEW snapshots \in Seq(Snapshot)
    PROVE  SnapshotBytes(snapshots) \in Nat
<1> DEFINE weights == [i \in DOMAIN snapshots |-> Weight(snapshots[i])]
<1>1. \A i \in DOMAIN snapshots : Weight(snapshots[i]) \in Nat
  <2>1. ASSUME NEW state \in State PROVE SizeOf(state) \in Nat
    BY DEF State, SizeOf, HostAssumption
  <2>2. ASSUME NEW i \in DOMAIN snapshots PROVE Weight(snapshots[i]) \in Nat
    <3>1. snapshots[i].from \in State /\ snapshots[i].to \in State
      BY SnapshotType
    <3> QED BY <2>1, <3>1 DEF Weight
  <2> QED BY <2>2
<1>2. weights \in Seq(Nat)
  BY <1>1
<1>3. SnapshotBytes(snapshots) = Total(weights)
  BY DEF SnapshotBytes
<1> HIDE DEF weights
<1> QED BY <1>2, <1>3, TotalType

(* Marking a change set leaves its weight.                                   *)
Marked(sets, n) ==
    [i \in DOMAIN sets |->
       IF sets[i].id = n THEN [sets[i] EXCEPT !.status = "undone"] ELSE sets[i]]

LEMMA MarkedSets ==
    ASSUME NEW sets \in Seq(ChangeSet), NEW n
    PROVE  /\ Marked(sets, n) \in Seq(ChangeSet) /\ Len(Marked(sets, n)) = Len(sets)
           /\ LedgerBytes(Marked(sets, n)) = LedgerBytes(sets)
<1> DEFINE marked == Marked(sets, n)
<1>1. ASSUME NEW set \in ChangeSet
      PROVE  /\ [set EXCEPT !.status = "undone"] \in ChangeSet
             /\ [set EXCEPT !.status = "undone"].bytes = set.bytes
  BY DEF ChangeSet
<1>2. \A i \in DOMAIN sets : marked[i] \in ChangeSet /\ marked[i].bytes = sets[i].bytes
  <2>1. \A i \in DOMAIN sets : sets[i] \in ChangeSet
    OBVIOUS
  <2> QED BY <1>1, <2>1 DEF Marked
<1>3. DOMAIN marked = DOMAIN sets /\ marked = [i \in DOMAIN sets |-> marked[i]]
  BY DEF Marked
<1> HIDE DEF marked
<1>4. marked \in Seq(ChangeSet) /\ Len(marked) = Len(sets)
  <2>1. DOMAIN sets = 1 .. Len(sets) /\ Len(sets) \in Nat
    OBVIOUS
  <2> QED BY <1>2, <1>3, <2>1
<1>5. Weights(marked) = Weights(sets)
  BY <1>2, <1>3 DEF Weights
<1> QED BY <1>4, <1>5, WeightsOfSets DEF marked

(* Types that the invariant above does not need.                             *)
CallTypes ==
    /\ syncs \in 0 .. MaxEvents /\ calls \in 0 .. MaxEvents /\ others \in 0 .. MaxEvents
    /\ permit \in [Worker -> Context \cup {NoContext}]
    /\ id \in [Worker -> Nat] /\ undone \in [Worker -> Nat]

(* A call that has captured its context has one.                             *)
Captured ==
    \A w \in Worker : pc[w] \in Steps \ {"called"} => captured[w] \in Context

LedgerInv ==
    /\ AgentInv /\ CallTypes /\ Captured
    /\ entries \in Seq(ChangeSet) /\ bytes \in Nat /\ LedgerIsBounded

LEMMA OneGoes ==
    ASSUME AgentInv, Captured, NEW w \in Worker, NEW p, Goes(w, p), captured' = captured,
           p \notin Steps \/ p = "called" \/ pc[w] \in Steps \ {"called"}
    PROVE  Captured'
<1>1. pc \in [Worker -> Places]
  BY DEF AgentInv, WorkerTypes
<1>2. \A x \in Worker : pc'[x] = IF x = w THEN p ELSE pc[x]
  BY <1>1 DEF Goes
<1> QED BY <1>2 DEF Captured

LEMMA CallTypesStay ==
    ASSUME LedgerInv, AgentInv', WorkspaceNext, MaxEvents \in Nat
    PROVE  CallTypes' /\ Captured'
<1>0. /\ CallTypes /\ Captured /\ AgentInv
      /\ syncs \in Nat /\ calls \in Nat /\ others \in Nat
      /\ pc \in [Worker -> Places] /\ captured \in [Worker -> Context \cup {NoContext}]
      /\ context \in Context \cup {NoContext}
  BY DEF LedgerInv, CallTypes, AgentInv, WorkerTypes
<1>1. MayHappen => /\ syncs + 1 \in 0 .. MaxEvents /\ calls + 1 \in 0 .. MaxEvents
                   /\ others + 1 \in 0 .. MaxEvents
  BY <1>0 DEF MayHappen
<1>2. ASSUME UNCHANGED <<pc, captured>> PROVE Captured'
  BY <1>0, <1>2 DEF Captured
<1>3. CASE Sync
  <2>1. /\ UNCHANGED <<calls, others, pc, permit, captured, id, undone>>
        /\ syncs' = syncs \/ (MayHappen /\ syncs' = syncs + 1)
    BY <1>3 DEF Sync, SyncBegins, SyncLeaves, SyncEnds, callVars
  <2> QED BY <1>0, <1>1, <1>2, <2>1 DEF CallTypes
<1>4. CASE \E f \in File, state \in State \cup {Blocked} : OthersDo(f, state)
  <2>1. /\ UNCHANGED <<syncs, calls, pc, permit, captured, id, undone>>
        /\ MayHappen /\ others' = others + 1
    BY <1>4 DEF OthersDo, hostVars, callVars
  <2> QED BY <1>0, <1>1, <1>2, <2>1 DEF CallTypes
<1>5. ASSUME NEW w \in Worker, TurnStarts(w) PROVE CallTypes' /\ Captured'
  <2>1. /\ UNCHANGED <<syncs, calls, others, pc, captured, id, undone>>
        /\ permit' = [permit EXCEPT ![w] = context]
    BY <1>5 DEF TurnStarts, hostVars
  <2> QED BY <1>0, <1>2, <2>1 DEF CallTypes
<1>6. ASSUME NEW w \in Worker, CallTool(w) PROVE CallTypes' /\ Captured'
  <2>1. /\ UNCHANGED <<syncs, others, permit>> /\ MayHappen
        /\ calls' = calls + 1 /\ id' = [id EXCEPT ![w] = calls + 1]
        /\ undone' = [undone EXCEPT ![w] = 0]
        /\ captured' = [captured EXCEPT ![w] = NoContext]
        /\ pc' = [pc EXCEPT ![w] = "called"]
    BY <1>6 DEF CallTool, hostVars, Goes
  <2>2. id' \in [Worker -> Nat] /\ undone' \in [Worker -> Nat]
    BY <1>0, <2>1 DEF CallTypes
  <2>3. CallTypes'
    BY <1>0, <1>1, <2>1, <2>2 DEF CallTypes
  <2>4. Captured'
    BY <1>0, <2>1 DEF Captured
  <2> QED BY <2>3, <2>4
<1>7. ASSUME NEW w \in Worker, Capture(w) PROVE CallTypes' /\ Captured'
  <2>1. /\ UNCHANGED <<syncs, calls, others, permit, id, undone>>
        /\ captured' = [captured EXCEPT ![w] = context] /\ context # NoContext
        /\ pc' = [pc EXCEPT ![w] = "captured"]
    BY <1>7 DEF Capture, hostVars, Goes
  <2>2. CallTypes'
    BY <1>0, <2>1 DEF CallTypes
  <2>3. Captured'
    BY <1>0, <2>1 DEF Captured
  <2> QED BY <2>2, <2>3
<1>8. ASSUME NEW w \in Worker, NEW i \in DOMAIN entries, PlanUndo(w, i)
      PROVE  CallTypes' /\ Captured'
  <2>1. /\ UNCHANGED <<syncs, calls, others, permit, captured, id>>
        /\ undone' = [undone EXCEPT ![w] = entries[i].id]
        /\ Goes(w, "planned") /\ pc[w] = "captured"
    BY <1>8 DEF PlanUndo, hostVars
  <2>2. entries[i].id \in Nat
    <3>1. entries \in Seq(ChangeSet)
      BY DEF LedgerInv
    <3>2. entries[i] \in ChangeSet
      BY <3>1
    <3> QED BY <3>2 DEF ChangeSet
  <2>3. undone' \in [Worker -> Nat]
    BY <1>0, <2>1, <2>2 DEF CallTypes
  <2>4. CallTypes'
    BY <1>0, <2>1, <2>3 DEF CallTypes
  <2>5. Captured'
    BY <1>0, <2>1, OneGoes DEF Steps
  <2> QED BY <2>4, <2>5
<1>9. ASSUME NEW w \in Worker,
             UNCHANGED <<syncs, calls, permit, captured, id, undone>>,
             others' = others \/ (MayHappen /\ others' = others + 1),
             NEW p, Goes(w, p),
             p \notin Steps \/ pc[w] \in Steps \ {"called"}
      PROVE  CallTypes' /\ Captured'
  BY <1>0, <1>1, <1>9, OneGoes DEF CallTypes
<1>10. ASSUME NEW w \in Worker,
              \/ Refused(w) \/ Recheck(w) \/ Record(w) \/ MarkUndone(w)
              \/ \E f \in File, to \in State : PlanOperation(w, f, to)
              \/ \E f, g \in File : Move(w, f, g)
              \/ \E f \in File : Trash(w, f)
              \/ CheckPasses(w) \/ CheckRefuses(w) \/ CheckCannotRead(w)
              \/ WritePasses(w) \/ WriteFails(w) \/ RollsBack(w)
       PROVE  CallTypes' /\ Captured'
  <2>1. /\ UNCHANGED <<syncs, calls, permit, captured, id, undone>>
        /\ others' = others \/ (MayHappen /\ others' = others + 1)
    BY <1>10 DEF Refused, Recheck, Record, MarkUndone, PlanOperation, Move, Trash,
       CheckPasses, CheckRefuses, CheckCannotRead, WritePasses, WriteFails, RollsBack,
       ComparePasses, CompareRefuses, RestorePasses, RestoreFails, DiskFails,
       hostVars, callVars
  <2>2. \E p : Goes(w, p) /\ (p \notin Steps \/ pc[w] \in Steps \ {"called"})
    <3>1. CASE Refused(w)
      BY <3>1 DEF Refused, Steps
    <3>2. CASE Recheck(w)
      BY <3>2 DEF Recheck, Steps
    <3>3. CASE Record(w) \/ MarkUndone(w)
      BY <3>3 DEF Record, MarkUndone, Steps
    <3>4. CASE \E f \in File, to \in State : PlanOperation(w, f, to)
      BY <3>4 DEF PlanOperation, Steps
    <3>5. CASE (\E f, g \in File : Move(w, f, g)) \/ (\E f \in File : Trash(w, f))
      BY <3>5 DEF Move, Trash, Steps
    <3>6. CASE CheckPasses(w) \/ CheckCannotRead(w) \/ WritePasses(w) \/ ComparePasses(w)
      BY <3>6 DEF CheckPasses, CheckCannotRead, WritePasses, ComparePasses, Checking, Steps
    <3>7. CASE CheckRefuses(w) \/ WriteFails(w) \/ CompareRefuses(w)
               \/ RestorePasses(w) \/ RestoreFails(w)
      <4>1. StepsBack(w) /\ pc[w] \in {"checking", "writing", "comparing", "restoring"}
        BY <3>7 DEF CheckRefuses, WriteFails, CompareRefuses, RestorePasses, RestoreFails,
           Checking
      <4> QED BY <4>1 DEF StepsBack, Steps
    <3> QED BY <1>10, <3>1, <3>2, <3>3, <3>4, <3>5, <3>6, <3>7 DEF RollsBack
  <2> QED BY <1>9, <2>1, <2>2
<1> QED
  BY <1>3, <1>4, <1>5, <1>6, <1>7, <1>8, <1>10 DEF WorkspaceNext, Plans, Commits

LEMMA LedgerStays ==
    ASSUME LedgerInv, WorkspaceNext, HostAssumption
    PROVE  entries' \in Seq(ChangeSet) /\ bytes' \in Nat /\ LedgerIsBounded'
<1>0. /\ MaxEntries \in Nat /\ MaxBytes \in Nat
      /\ entries \in Seq(ChangeSet) /\ bytes \in Nat /\ bytes = LedgerBytes(entries)
      /\ Len(entries) <= MaxEntries /\ bytes <= MaxBytes
  BY DEF LedgerInv, LedgerIsBounded, HostAssumption
<1>1. ASSUME UNCHANGED ledgerVars
      PROVE  entries' \in Seq(ChangeSet) /\ bytes' \in Nat /\ LedgerIsBounded'
  BY <1>0, <1>1 DEF ledgerVars, LedgerIsBounded
<1>2. CASE Sync
  BY <1>0, <1>1, <1>2, EmptyLedger DEF Sync, SyncBegins, SyncLeaves, SyncEnds
<1>3. ASSUME NEW w \in Worker, Record(w)
      PROVE  entries' \in Seq(ChangeSet) /\ bytes' \in Nat /\ LedgerIsBounded'
  <2> DEFINE set == [id |-> id[w], root |-> captured[w].root,
                     generation |-> captured[w].generation,
                     bytes |-> SnapshotBytes(plan[w]), snapshots |-> plan[w],
                     status |-> "applied"]
  <2>1. pc[w] = "checking" /\ Kept(Append(entries, set), bytes + set.bytes)
    BY <1>3 DEF Record, AllWritten
  <2>2. captured[w] \in Context
    BY <2>1 DEF LedgerInv, Captured, Steps
  <2>3. id[w] \in Nat /\ plan[w] \in Seq(Snapshot)
    BY DEF LedgerInv, CallTypes, AgentInv, WorkerTypes
  <2>4. set \in ChangeSet
    <3>1. SnapshotBytes(plan[w]) \in Nat
      BY <2>3, SnapshotsWeigh
    <3> QED BY <2>2, <2>3, <3>1 DEF ChangeSet, Context
  <2> HIDE DEF set
  <2>5. /\ Append(entries, set) \in Seq(ChangeSet)
        /\ LedgerBytes(Append(entries, set)) = bytes + set.bytes
    BY <1>0, <2>4, WeightsOfMore
  <2>6. Kept(Append(entries, set), LedgerBytes(Append(entries, set)))
    BY <2>1, <2>5
  <2> QED BY <1>0, <2>5, <2>6, KeptFits
<1>4. ASSUME NEW w \in Worker, MarkUndone(w)
      PROVE  entries' \in Seq(ChangeSet) /\ bytes' \in Nat /\ LedgerIsBounded'
  <2>1. /\ entries' = [i \in DOMAIN entries |->
                         IF entries[i].id = undone[w]
                           THEN [entries[i] EXCEPT !.status = "undone"] ELSE entries[i]]
        /\ bytes' = bytes
    BY <1>4 DEF MarkUndone
  <2>2. /\ entries' \in Seq(ChangeSet) /\ Len(entries') = Len(entries)
        /\ LedgerBytes(entries') = LedgerBytes(entries)
    <3>1. entries' = Marked(entries, undone[w])
      BY <2>1 DEF Marked
    <3> QED BY <1>0, <3>1, MarkedSets
  <2> QED BY <1>0, <2>1, <2>2 DEF LedgerIsBounded
<1>5. ASSUME NEW w \in Worker, Plans(w) PROVE UNCHANGED ledgerVars
  BY <1>5 DEF Plans, TurnStarts, CallTool, Capture, Refused, PlanOperation, PlanUndo, Recheck,
     Move, Trash
<1>6. ASSUME NEW w \in Worker, RollsBack(w) PROVE UNCHANGED ledgerVars
  BY <1>6 DEF RollsBack, ComparePasses, CompareRefuses, RestorePasses, RestoreFails
<1>7. ASSUME NEW w \in Worker,
             CheckPasses(w) \/ CheckRefuses(w) \/ CheckCannotRead(w)
               \/ WritePasses(w) \/ WriteFails(w)
      PROVE  UNCHANGED ledgerVars
  BY <1>7 DEF CheckPasses, CheckRefuses, CheckCannotRead, WritePasses, WriteFails
<1>8. CASE \E f \in File, state \in State \cup {Blocked} : OthersDo(f, state)
  BY <1>1, <1>8 DEF OthersDo
<1> QED BY <1>1, <1>2, <1>3, <1>4, <1>5, <1>6, <1>7, <1>8 DEF WorkspaceNext, Commits

LEMMA LedgerInvariant == WorkspaceSpec => []LedgerInv
<1>1. ASSUME WorkspaceInit PROVE LedgerInv
  <2>1. AgentInv
    BY <1>1, WorkspaceInvInit
  <2>2. CallTypes
    BY <1>1, HostAssumption DEF WorkspaceInit, CallTypes, HostAssumption
  <2>3. Captured
    BY <1>1 DEF WorkspaceInit, Captured, Steps
  <2>4. entries \in Seq(ChangeSet) /\ bytes \in Nat /\ LedgerIsBounded
    <3>1. <<>> \in Seq(ChangeSet) /\ Len(<<>>) = 0
      OBVIOUS
    <3>2. LedgerBytes(<<>>) = 0
      BY NothingWeighs
    <3> QED BY <1>1, <3>1, <3>2, HostAssumption DEF WorkspaceInit, LedgerIsBounded, HostAssumption
  <2> QED BY <2>1, <2>2, <2>3, <2>4 DEF LedgerInv
<1>2. ASSUME LedgerInv, [WorkspaceNext]_workspaceVars PROVE LedgerInv'
  <2>1. AgentInv'
    BY <1>2, WorkspaceInvStep DEF LedgerInv
  <2>2. CASE WorkspaceNext
    <3>1. MaxEvents \in Nat
      BY HostAssumption DEF HostAssumption
    <3> QED BY <1>2, <2>1, <2>2, <3>1, HostAssumption, CallTypesStay, LedgerStays
         DEF LedgerInv
  <2>3. CASE UNCHANGED workspaceVars
    <3>1. CallTypes' /\ Captured'
      BY <1>2, <2>3 DEF LedgerInv, CallTypes, Captured, workspaceVars, hostVars, callVars
    <3>2. entries' \in Seq(ChangeSet) /\ bytes' \in Nat /\ LedgerIsBounded'
      BY <1>2, <2>3 DEF LedgerInv, LedgerIsBounded, workspaceVars, ledgerVars
    <3> QED BY <2>1, <3>1, <3>2 DEF LedgerInv
  <2> QED BY <1>2, <2>2, <2>3
<1> QED BY <1>1, <1>2, PTL DEF WorkspaceSpec

(* The account of the ledger is what its change sets weigh, and there are no *)
(* more, nor larger ones, than it may hold (record_change_set), for any      *)
(* sizes of files and any limits.                                            *)
THEOREM LedgerStaysBounded == WorkspaceSpec => []LedgerIsBounded
<1>1. LedgerInv => LedgerIsBounded
  BY DEF LedgerInv
<1> QED BY <1>1, LedgerInvariant, PTL

(* All variables keep their types.                                           *)
THEOREM WorkspaceTypeCorrect == WorkspaceSpec => []WorkspaceTypeOK
<1>1. ASSUME LedgerInv PROVE WorkspaceTypeOK
  <2>1. /\ WorkerTypes /\ CallTypes /\ entries \in Seq(ChangeSet) /\ bytes \in Nat
        /\ \A w \in Worker : Distinct(plan[w])
    BY <1>1 DEF LedgerInv, AgentInv, WorkerInv, Placed
  <2>2. Places = Resting \cup Steps
    BY DEF Places, Resting, Steps
  <2> QED BY <2>1, <2>2 DEF WorkspaceTypeOK, WorkerTypes, CallTypes
<1> QED BY <1>1, LedgerInvariant, PTL

================================================================================
