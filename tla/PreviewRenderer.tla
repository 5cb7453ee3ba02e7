--------------------------- MODULE PreviewRenderer ---------------------------
(***************************************************************************)
(* Thumbnails of cameras: the hook (hooks/useCameraThumbnails.ts) of the   *)
(* camera navigator, the client (lib/previewRenderer.ts) with its lane's   *)
(* executor (lib/latestOnlyExecutor.ts) and cache, and the hidden window   *)
(* that renders.  The lane of slides has the same executor and no user.    *)
(*                                                                         *)
(* A scene is its render key, and a picture is the scene it shows.  What   *)
(* runs between two awaits that really wait is one step: the answer of the *)
(* window fills the cache, is applied, and starts the next job.            *)
(***************************************************************************)
EXTENDS Naturals, FiniteSets

CONSTANTS
    Scene,          \* render keys
    MaxVersions,    \* bound: runs of the hook's effect
    Scenarios,      \* sets of races, see Races
    Nothing         \* no scene, no picture, no job

Races == {"init",   \* a call while the client's first call initialises it
          "torn"}   \* a timer between a render and the effect of that render

ASSUME PreviewAssumption ==
    /\ Nothing \notin Scene \cup [version : Nat, key : Scene, scene : Scene]
    /\ MaxVersions \in Nat
    /\ Scenarios \subseteq SUBSET Races

VARIABLES
    snapshot,       \* snapshotRef: the scene last rendered with, Nothing: closed
    key,            \* renderKey of the effect that ran last
    version,        \* requestVersionRef
    timer,          \* timeoutRef holds a timer, that effect's
    shown,          \* thumbnails
    client,         \* how far ensureInitialized is
    first,          \* the call that initialises the client
    ready,          \* the client knows that the window is ready
    windowReady,    \* PreviewRendererReady in the back end
    activeJob,      \* the executor's job
    awaits,         \* what it waits for
    pendingJob,     \* the job that waits its turn
    cache,          \* cameraCache
    fate,           \* ghost: version -> what became of its call
    races           \* the races this behaviour admits

hookVars == <<snapshot, key, version, timer>>
laneVars == <<activeJob, awaits, pendingJob>>
cameraVars == <<hookVars, shown, client, first, ready, windowReady, laneVars,
                cache, fate, races>>

Versions == 1 .. MaxVersions
Job == [version : Versions, key : Scene, scene : Scene]
Picture == Scene \cup {Nothing}

\* The types of the hook's, the client's and the lane's state.
CameraTypeOK ==
    /\ snapshot \in Picture /\ key \in Picture /\ shown \in Picture
    /\ version \in 0 .. MaxVersions
    /\ timer \in BOOLEAN /\ ready \in BOOLEAN /\ windowReady \in BOOLEAN
    /\ client \in {"new", "listening", "hearsReady", "hearsAll", "done"}
    /\ first \in Job \cup {Nothing}
    /\ activeJob \in Job \cup {Nothing} /\ pendingJob \in Job \cup {Nothing}
    /\ awaits \in {"idle", "ready", "answer", "nothing"}
    /\ cache \in [Scene -> Picture]
    /\ fate \in [Versions -> {"none", "made", "completed", "replaced", "failed"}]
    /\ races \in Scenarios

CameraInit ==
    /\ snapshot = Nothing /\ key = Nothing /\ version = 0 /\ timer = FALSE
    /\ shown = Nothing
    /\ client = "new" /\ first = Nothing /\ ready = FALSE /\ windowReady = FALSE
    /\ activeJob = Nothing /\ awaits = "idle" /\ pendingJob = Nothing
    /\ cache = [s \in Scene |-> Nothing]
    /\ fate = [v \in Versions |-> "none"]
    /\ races \in Scenarios

-----------------------------------------------------------------------------
(* The hook *)

(* The navigator is opened, closed, or given another scene or cameras.  The  *)
(* effect of one render runs before the next render.                         *)
Render(s) ==
    /\ snapshot = key /\ s # key
    /\ version < MaxVersions
    /\ snapshot' = s
    /\ UNCHANGED <<key, version, timer, shown, client, first, ready,
                   windowReady, laneVars, cache, fate, races>>

Effect ==
    /\ snapshot # key
    /\ key' = snapshot
    /\ version' = version + 1
    /\ timer' = (snapshot # Nothing)
    /\ shown' = IF snapshot = Nothing THEN Nothing ELSE shown
    /\ UNCHANGED <<snapshot, client, first, ready, windowReady, laneVars,
                   cache, fate, races>>

-----------------------------------------------------------------------------
(* LatestOnlyExecutor and what its callers do with the result *)

Start(job, isReady) ==
    /\ activeJob' = job
    /\ awaits' = IF isReady THEN "answer" ELSE "ready"

(* A job that waits for the window goes on once the client knows it ready.   *)
Woken == IF ready' /\ awaits = "ready" THEN "answer" ELSE awaits

(* Fault: the caller of the job that is replaced is not told.                *)
ScheduleForgets(job) ==
    /\ fate' = [fate EXCEPT ![job.version] = "made"]
    /\ IF activeJob = Nothing
         THEN Start(job, ready') /\ UNCHANGED pendingJob
         ELSE /\ pendingJob' = job /\ UNCHANGED activeJob
              /\ awaits' = Woken

(* The job runs, or waits in the place of the one that waited.               *)
Schedule(job) ==
    IF activeJob = Nothing
      THEN /\ Start(job, ready')
           /\ fate' = [fate EXCEPT ![job.version] = "made"]
           /\ UNCHANGED pendingJob
      ELSE /\ pendingJob' = job /\ UNCHANGED activeJob
           /\ fate' = [v \in Versions |->
                         CASE v = job.version -> "made"
                           [] pendingJob # Nothing /\ v = pendingJob.version -> "replaced"
                           [] OTHER -> fate[v]]
           /\ awaits' = Woken

(* Fault: whatever comes is shown.                                           *)
ApplyAnyway(job, picture) == shown' = picture

(* The hook takes a result if its effect has not run again since.            *)
Apply(job, picture) == shown' = IF job.version = version THEN picture ELSE shown

(* renderCameras once the client is initialised.                             *)
Arrive(job) ==
    \/ /\ cache[job.key] # Nothing
       /\ Apply(job, cache[job.key])
       /\ fate' = [fate EXCEPT ![job.version] = "completed"]
       /\ awaits' = Woken
       /\ UNCHANGED <<activeJob, pendingJob>>
    \/ /\ cache[job.key] = Nothing
       /\ Schedule(job)
       /\ UNCHANGED shown

(* Fault: the job that waits is not started.                                 *)
EndsAlone(outcome) ==
    /\ fate' = [fate EXCEPT ![activeJob.version] = outcome]
    /\ activeJob' = Nothing /\ awaits' = "idle" /\ UNCHANGED pendingJob

(* run settles its job and starts the one that waits.                        *)
Ends(outcome) ==
    /\ fate' = [fate EXCEPT ![activeJob.version] = outcome]
    /\ IF pendingJob = Nothing
         THEN activeJob' = Nothing /\ awaits' = "idle" /\ UNCHANGED pendingJob
         ELSE Start(pendingJob, ready) /\ pendingJob' = Nothing

-----------------------------------------------------------------------------
(* The timer and the client *)

(* What the timer asks for: the key of its effect, the scene of the last     *)
(* render.                                                                   *)
Asked == [version |-> version, key |-> key, scene |-> snapshot]

TimerFires ==
    /\ timer /\ snapshot # Nothing
    /\ snapshot = key \/ "torn" \in races
    /\ timer' = FALSE
    /\ UNCHANGED <<snapshot, key, version>>

FirstCall ==
    /\ TimerFires
    /\ client = "new"
    /\ client' = "listening"
    /\ first' = Asked
    /\ fate' = [fate EXCEPT ![version] = "made"]
    /\ UNCHANGED <<shown, ready, windowReady, laneVars, cache, races>>

(* initialized is set before the listeners are: only the first call waits.   *)
LaterCall ==
    /\ TimerFires
    /\ client # "new"
    /\ client = "done" \/ "init" \in races
    /\ UNCHANGED <<client, first, ready, windowReady, cache, races>>
    /\ Arrive(Asked)

ListensToReady ==
    /\ client = "listening"
    /\ client' = "hearsReady"
    /\ UNCHANGED <<hookVars, shown, first, ready, windowReady, laneVars, cache,
                   fate, races>>

ListensToAnswers ==
    /\ client = "hearsReady"
    /\ client' = "hearsAll"
    /\ UNCHANGED <<hookVars, shown, first, ready, windowReady, laneVars, cache,
                   fate, races>>

(* Fault: the client does not ask for what it may have missed.               *)
InitialisedByEventsOnly ==
    /\ client = "hearsAll"
    /\ client' = "done" /\ first' = Nothing
    /\ UNCHANGED <<hookVars, ready, windowReady, cache, races>>
    /\ Arrive(first)

(* is_preview_renderer_ready answers, or fails; the first call goes on.      *)
Initialised ==
    /\ client = "hearsAll"
    /\ client' = "done" /\ first' = Nothing
    /\ ready' = (ready \/ windowReady)
    /\ UNCHANGED <<hookVars, windowReady, cache, races>>
    /\ Arrive(first)

(* preview_renderer_ready sets the flag and tells who listens.               *)
WindowReady ==
    /\ ~windowReady
    /\ windowReady' = TRUE
    /\ ready' = IF client \in {"hearsReady", "hearsAll", "done"} THEN TRUE ELSE ready
    /\ awaits' = Woken
    /\ UNCHANGED <<hookVars, shown, client, first, activeJob, pendingJob, cache,
                   fate, races>>

-----------------------------------------------------------------------------
(* What a job waits for *)

(* Ten seconds without the window.                                           *)
ReadyTimesOut ==
    /\ awaits = "ready"
    /\ Ends("failed")
    /\ UNCHANGED <<hookVars, shown, client, first, ready, windowReady, cache,
                   races>>

(* Fault: the picture is kept under the key the hook has by now.             *)
AnsweredUnderPresentKey ==
    /\ awaits = "answer" /\ client \in {"hearsAll", "done"}
    /\ cache' = [s \in Scene |-> IF s = key THEN activeJob.scene ELSE cache[s]]
    /\ Apply(activeJob, activeJob.scene)
    /\ Ends("completed")
    /\ UNCHANGED <<hookVars, client, first, ready, windowReady, races>>

Answered ==
    /\ awaits = "answer" /\ client \in {"hearsAll", "done"}
    /\ cache' = [cache EXCEPT ![activeJob.key] = activeJob.scene]
    /\ Apply(activeJob, activeJob.scene)
    /\ Ends("completed")
    /\ UNCHANGED <<hookVars, client, first, ready, windowReady, races>>

(* The request cannot be sent, or the window answers with an error.          *)
RequestFails ==
    /\ awaits = "answer"
    /\ Ends("failed")
    /\ UNCHANGED <<hookVars, shown, client, first, ready, windowReady, cache,
                   races>>

(* The answer comes before the client listens: the job waits for ever.       *)
AnswerIsMissed ==
    /\ awaits = "answer" /\ client = "hearsReady"
    /\ awaits' = "nothing"
    /\ UNCHANGED <<hookVars, shown, client, first, ready, windowReady, activeJob,
                   pendingJob, cache, fate, races>>

-----------------------------------------------------------------------------
Hook == Effect \/ FirstCall \/ LaterCall
Client == ListensToReady \/ ListensToAnswers \/ Initialised
Lane == ReadyTimesOut \/ Answered \/ RequestFails \/ AnswerIsMissed

CameraNext ==
    (\E s \in Picture : Render(s)) \/ Hook \/ Client \/ WindowReady \/ Lane

CameraSpec == CameraInit /\ [][CameraNext]_cameraVars

(* Effects and timers run, commands are answered, the window starts, and it  *)
(* answers every request; the client has no timeout for the last.            *)
FairCameraSpec ==
    /\ CameraSpec
    /\ WF_cameraVars(Hook) /\ WF_cameraVars(Client) /\ WF_cameraVars(WindowReady)
    /\ WF_cameraVars(Lane)

-----------------------------------------------------------------------------
(* Properties *)

(***************************************************************************)
(* A cached picture is one of the scene its key stands for: reopening the  *)
(* navigator, or going back to an earlier scene, never shows another one.  *)
(* Not under "torn", where the timer takes a newer scene under the older   *)
(* key (useCameraThumbnails.ts, renderCameras).                            *)
(***************************************************************************)
CacheIsTrue == "torn" \notin races => \A s \in Scene : cache[s] \in {Nothing, s}

(***************************************************************************)
(* Once the client is initialised no job waits for a window that is ready, *)
(* whenever the window became ready, so none times out on one              *)
(* (ensureInitialized listens before it asks).                             *)
(***************************************************************************)
ReadyIsNotMissed == client = "done" /\ awaits = "ready" => ~windowReady

(***************************************************************************)
(* The thumbnails never go back to a scene that is not the present one,    *)
(* however late an older answer comes (requestVersionRef).                 *)
(***************************************************************************)
OnlyPresentIsApplied ==
    [][ "torn" \notin races =>
          shown' \in {shown, Nothing, key} ]_cameraVars

(***************************************************************************)
(* Every call of renderCameras is answered: with thumbnails, as replaced,  *)
(* or with an error (LatestOnlyExecutor).  Not under "init": a call that   *)
(* is sent before the client listens is not answered, nor is any after it. *)
(***************************************************************************)
EveryCallIsAnswered ==
    \A v \in Versions :
        (races = {} /\ fate[v] = "made") ~> fate[v] # "made"

(***************************************************************************)
(* The navigator ends up with the thumbnails of what it was last given, or *)
(* with an error for exactly that: never because an older job was kept in  *)
(* its place, and never stuck behind a lane that nobody starts.            *)
(***************************************************************************)
NavigatorCatchesUp ==
    races = {} => <>[](\/ key = Nothing /\ shown = Nothing
                       \/ shown = key
                       \/ version > 0 /\ fate[version] = "failed")
=============================================================================
