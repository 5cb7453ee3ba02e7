# IdeaSlide: a verification project

IdeaSlide (IdeaNote in its own texts) is a Tauri desktop editor for `.is`
sketches and Markdown in a workspace folder. A React front end holds document
sessions and an SDK that plug-ins, dialogs and the agent use to change
documents; a Rust back end reads and writes files, watches the workspace, keeps
recovery drafts and runs agents. This directory models the parts whose
correctness depends on the order of things.

Paths below are relative to the repository.

## Inventory

| Part | State | Operations | Interacts by | Hard because |
|---|---|---|---|---|
| Request ledger, `src/lib/ideasketch-sdk/requestLedger.ts` | records by request id, tokens, disposal ticket | reserve, reserveComposite, consume, complete, markIndeterminate, reconcile, disposal | calls from services and the session | retries, joined promises, an await inside reconcile, disposal at any moment |
| Mutations, `transactions.ts`, `sceneService.ts`, `pagesService.ts`, `ioService.ts`, the Agent's adapter | the scheduler's chain, the live document, its edit version | applyPlan, pickExcalidrawAndAddPage, commit, observe | the ledger, the mounted editor, the person | stale plans, commits that fail half-way, abort signals, queues |
| SDK session, `session.ts` | active, disposing, disposed | dispose | the ledger's ticket, host cleanup | cleanup fails, calls race disposal |
| Document sessions, `src/lib/appStoreReducer.ts`, `src/components/EditorLayout.tsx` | a record per open document (status, dirty, readOnly, revision, model, source stamp) | open, edit, save, reload, close, watcher events | commands to the back end, timers, effects | each handler is several commands; edits, events and timers come in between |
| Auto-save and drafts, `src/hooks/useAutoSave.ts`, `src/lib/recovery.ts`, `src-tauri/src/recovery.rs` | debounce timers, pending stamp, draft on disk, candidate | fire, complete, write, look up, restore, discard draft | the sessions, the disk, crashes | stale snapshots, deleted drafts, crash between steps |
| Workspace watcher, `src-tauri/src/workspace_watcher.rs` | expected own writes, coalescing window, half of a rename | normalise, suppress, emit | file-system notices, events to the store | late, merged and self-inflicted notices |
| Page thumbnails, `src/hooks/usePageThumbnails.ts`, `src/lib/pageThumbnailScheduler.ts`, `pageThumbnailCache.ts` | pending jobs, generation, cached images, what is shown | replace, pause, clear, drain, store, evict, revoke | the editor's props and drafts, render callbacks | stale results, revoked images on the screen, spinners for good |
| Camera thumbnails, `src/hooks/useCameraThumbnails.ts`, `src/lib/previewRenderer.ts`, `latestOnlyExecutor.ts` | a timer, a running and a queued job, what the client knows of the window, a cache | schedule, initialise, send, answer, become ready | events to and from the hidden window | replaced callers, readiness announced while nobody listens |
| Agent turn, `src-tauri/src/agent/mod.rs`, `tool_broker.rs`, `session.rs`, `src/lib/agent/agentRuntime.ts`, `agentToolHost.ts` | the turn's phase, the broker's call ledger and step count, waiters, the front end's executions | start, begin and complete a call, approve, cancel, dispose | a runtime that asks for calls, front-end tools over a channel | repeated ids, late results, stop at any moment, two drivers in one turn |
| Agent thread, `agentStore.ts`, `AgentPanel.tsx`, `useAgentThread.ts`, `repository.rs` | turns on the screen, events out of order, active turn, threads on disk | submit, apply an event, reconcile, approve, save, resume, delete | events from the native turn, commands and their replies | two sources of a turn's end, a save racing a delete |
| Workspace agent, `src-tauri/src/workspace_agent.rs` | active context, bounded ledger of change sets | synchronise, patch, undo, move, trash | files that other programs change, the front end's context | stale preconditions, partial application, rollback that fails |
| Files and tree, `src-tauri/src/workspace.rs`, `commands.rs`, `safe_write.rs` | the file system | inspect, read, atomic write, rename, move, delete | everything above | several commands per operation |
| Agent providers and adapters, `src-tauri/src/agent/provider.rs`, `adapters/` | the attempt, its text and open calls; child processes | request, stream, retry, fall back; spawn, shut down | the Agent turn | what was shown cannot be taken back, pieces of calls come mixed, pipes, time limits |
| Formats, rendering, settings, recents, updates, skills, UI | data | encode, render, load and store | | little ordering |

What makes each part correct, and which part is modelled, is in
`PROJECT.json` (`components`, `hazards`); a hazard names the properties that
would catch it.

## Modules

| Module | Models | Uses |
|---|---|---|
| `RequestLedger` | one caller session's ledger, a step per method (reconcile is two, around its await) | |
| `SdkMutation` | calls of applyPlan and of the picker through the scheduler, against a document that a person edits and an editor that may lose or rewrite commits; disposal | extends `RequestLedger`, calling its actions |
| `SdkMutation_proofs` | the theorems of the ledger and of mutations | `SdkMutation`, TLAPS |
| `DocumentSave` | one Markdown document of a workspace: session record, Save, auto-save, Reload, drafts, watcher, other programs, crash | |
| `DocumentSave_proofs` | its theorems | `DocumentSave`, TLAPS |
| `WorkspaceSessions` | the sessions of a workspace whose paths change: what the Explorer does, other programs, the macOS watcher, the tree | |
| `WorkspaceSessions_proofs` | the theorems of unsaved work, of paths and of the tree | `WorkspaceSessions`, TLAPS |
| `SessionsTruth_proofs` | that a session knows the file at its path | extends `WorkspaceSessions_proofs`, using its invariants |
| `PageThumbnails` | the thumbnails of the page organizer: hook, scheduler, cache, and what the editor does to their props | |
| `PreviewRenderer` | the thumbnails of cameras: hook, client, latest-only lane, and the hidden window's readiness | |
| `Thumbnails_proofs` | the theorems of both kinds of thumbnails | `PageThumbnails`, `PreviewRenderer`, TLAPS |
| `ToolPromise` | abstract: what a turn's tool calls promise (after their prerequisites, at most once, reported truly and at most once) | |
| `AgentTurn` | one turn: `run_agent`, both drivers, the broker, the waiters, the front end's executors, Stop | instantiates `ToolPromise` |
| `ProviderStream` | one call of `provider::complete`: attempts, fallback, backoff, and a stream put together into text and calls | |
| `TurnTranscript` | what a turn leaves on the screen: Codex and the rounds of Compatibility through one emitter of items | extends `ProviderStream`, calling its actions |
| `TurnTranscript_proofs` | the theorems of one call of `complete` and of turns | `TurnTranscript`, TLAPS |
| `AgentThread` | the conversation: submits, numbered events, the reducer, approvals, threads on disk | |
| `AgentThread_proofs` | its theorems | `AgentThread`, TLAPS |
| `WorkspaceAgent` | workers that patch, undo, move and trash files under a context that changes | |
| `AgentTools_proofs` | the theorems of turns, the refinement among them, and of the workspace tools | `AgentTurn`, `WorkspaceAgent`, TLAPS |
| `MC...` | the small instances | |

### RequestLedger

`records` is the Map of the same name; an id without a record has state
`absent`. `promise` is what the promise of a reservation settled with: joined
callers hold it after the record is gone. `tokens` is `reconciliationRecords`.
A refused call changes nothing and is no step. The opaque handle of a picker is
the pair (composite, not consumed). `MaxTokens` and `MaxTickets` bound how many
tokens and tickets a behaviour mints.

### SdkMutation

`line` is the promise chain of `createDocumentMutationScheduler`: a task runs
when all before it have released their gates. Every await is a change of
`call[c].pc`. The document is the set of changes in it, one mark per request
and per edit of the person, so two digests are equal when the sets are; an
editor that rewrites what it is given leaves one mark more. `Commit` is one step
with the final guard because the code runs them in one turn. The picker and a
plan may share a request id; a call that joins keeps the scheduler's gate while
it waits.

### DocumentSave

The module follows the code handler by handler. A Tauri command runs to its end
at one moment and its caller goes on when the reply arrives; the commands are
synchronous on the Rust side, so they run, and answer, in the order they were
sent: `calls` is the queue of waiting handlers, each with what it captured. The
effects React runs on a changed record (timers, loading, draft lookup) are part
of the step that changes it (`BecomeLeaving`). Contents are numbers, so "the
last thing typed" is `edits`. A stamp names a modification time; names that
nothing holds are used again, so that equality of stamps is all that counts.

A save replaces the file by rename (`safe_write.rs:52`) and `require_writable`
looks only at the root and the parent folder, so a file marked read-only by
another program is written all the same and is writable afterwards (`Writes`).
What the mark does is to give the session the status read-only, in which the app
does not save. Permissions of folders, and writes that fail for another reason
than a missing file, are left out.

Not modelled here: standalone documents and their poll, Save As, root-missing
events, the exit dialog; renames, a second document, the news the app's own
writes cause, and events that are dropped are in `WorkspaceSessions`.

**Races.** Some interleavings break some of the properties. Each has a name in
`Admits`, and a run's `Scenarios` list those it admits; the others are left out of
its behaviours. This is what holds and what does not, each cell from a TLC run
with that race alone (two edits, and one change unless the cell says more):

| | edit | overlap | change | answer | mode |
|---|---|---|---|---|---|
| CleanMeansSaved | no | no | no | yes | yes, no with two changes |
| LastEditIsKept | no | yes | yes | yes | yes |
| DirtyIsRecoverable | yes | yes | yes | no | yes |
| OthersWorkIsSeen | yes | yes | no | no | yes, no with two changes |
| EditsAreSaved | yes | no | no | yes | yes |

- *edit*: typing while a Save, a close or a reload is on its way, or in the
  moment between an auto-save's write and its completion;
- *overlap*: two saves, or a save and a reload, at a time;
- *change*: another program acts between two commands of one handler;
- *answer*: the person answers the recovery prompt after the session has
  moved on;
- *mode*: permissions change while a change of the content is unresolved, or the
  content changes while news of a permission is on its way.

Under *mode* the record forgets that it differs from the file: an inspection gives
a clean session the new stamp and the status external-change, and the news that
the file is read-only then replaces that status
(`externalFileChanges.ts:63`), so that the editor shows the old text beside
the new stamp. The second half of the race came out of the proof of
`CleanMeansSaved`: with three changes of other programs the news may be older
than the content, and a run with two changes had not met it.

`CleanMeansSaved` under *edit*: a Save marks the document clean when its write
returns, whatever was typed meanwhile (`EditorLayout.tsx:583`); auto-save
compares edit versions (`useAutoSave.ts:43`), Save does not. The others are
consequences of designs nobody promised otherwise: no compare-and-swap on files, saves that are not serialised, no retry
of a failed auto-save. A behaviour draws its races from `Scenarios` when it
starts, so one run covers several sets of them.

### WorkspaceSessions

`docs` are the store's documents in their order and `tree` its entries, both as
the reducer leaves them (`OPEN_DOCUMENT`, `REMAP_WORKSPACE_PATH`,
`APPLY_WORKSPACE_CHANGE`, `SET_WORKSPACE_ENTRIES`). A path is a sequence of
names, so a rename of a folder moves what is under it; `disk` maps the paths of
the instance to nothing, a folder, or a stamp. Handlers wait in `calls` as in
`DocumentSave`: the command runs when it is sent, and the reply is a later step,
after which the handler may send its next command. What the person asked for
while something was unsaved is in `then`: it goes on when the save has
succeeded. A new scan of the workspace captures the disk when it is sent.

The watcher is the one of macOS. The system reports a rename as two notices that
do not say which half they are: `normalize_ambiguous_rename` looks whether the
path exists when the notice is handled, keeps a half whose path is gone in
`pending`, and pairs it with the next half whose path exists. A write by the app
is itself a rename onto the file, and is recognised by its `expected` stamp.

`emit_change` drops an event when one of the same kind and paths was emitted
within the last 120 ms. The model has no clock, so any event whose kind and paths
are in `emitted` may be dropped (`Emit`). Without the race *repeat* the one that is
dropped says the same, word for word, as the last event on its way, and no scan
was sent in between: these are the repeats the window is there for. With it, any.

A command that fails changes nothing and is no step, except in the handlers that
go on after an error. A Save asks nothing about the session: one that is clean is
written again. Left out, because `DocumentSave` has them: auto-save,
drafts, permissions, and typing during a save of the same session. The paths of an instance are few: what would move outside of them
is not done (`Fits`).

Races. A "no" is a counterexample that TLC found with that race alone, in runs
of three or four acts; a "yes" is a run of four acts without one (three for
*repeat*), and in the last two rows it is proved. In brackets: the property leaves the race out all
the same, because two sessions come to one path there, and as soon as one of
them saves the other does not know its file.

| | hurry | window | meet | claim | overtake | change | replace | repeat |
|---|---|---|---|---|---|---|---|---|
| SessionsTellTheTruth | no | no | no | (yes) | (yes) | no | no | no |
| OneSessionPerPath | yes | no | no | no | no | no | no | yes |
| TreeShowsTheDisk | yes | yes | no | yes | no | yes | yes | no |
| UnsavedWorkStays | yes | yes | yes | yes | yes | yes | yes | yes |

- *hurry*: the person asks for the next thing before the reply to the last one.
  A rename between a save's write and the inspection after it leaves the session
  with its old stamp, so its next save is refused as an external change.
- *window*: halves of two renames meet. A file moved out and another moved in
  within 400 ms look like a rename, and the session follows to a file it never
  showed. Or the news of a write come more than 3 s after it, when the watcher
  has forgotten that the app wrote.
- *meet*: a path is used again while news about it are on their way; or a file
  that was moved away comes back, within 3 s of its save, to the path the app
  saved it at. Its stamp is the expected one, so the watcher takes the news for
  those of the app's own write, and nobody is told that the file is back. Or a
  session is loaded from, and saved to, a file that another program has put back
  after a scan found it gone, before the watcher looks at that notice (`Came`):
  it finds the stamp of the app's save, says nothing, and the reply to the scan
  takes the file out of the tree (seven acts).
- *claim*: a file or folder is renamed to a path that a session still has, of a
  file that has gone. Nothing tells that session, the renamed one comes to the
  same path, and after two reloads both may be edited and saved to one file
  (ten acts).
- *overtake*: an event is delivered before the reply to an older scan, which
  then replaces the newer tree.
- *change*: another program acts between two commands of one handler.
- *replace*: another program renames its file onto an open one, as programs do
  that save atomically. `classifyExternalDocumentChange` looks for the old path
  of a rename only, so the session at the new one is not told, and two sessions
  may come to have the same path.
- *repeat*: an event is dropped that was needed. Another program writes a file,
  the news is delivered, the person opens the file, and it is written again within
  120 ms: the second modification is not told, and a clean session stays
  editable with the old stamp and content. Its next save is refused by its own
  inspection, but what it shows is wrong until then. Or a file is created,
  removed and created again within 120 ms, each news delivered at once: the second
  creation is not told, and the file stays out of the tree until the next scan.

What the model shows and no property claims: a dirty session that is `missing`
stays so when a file is renamed onto its path, or when the news of its own
rename come after an inspection that found it gone, while
`docs/superplan/plans/06-single-active-editor.md:126` has it move to `conflict`
when the file reappears; a removed entry that a dirty session keeps in the tree
stays there after the session is discarded, until the next scan; the app's own
renames are not suppressed, and are applied twice; and the news of a document
the app created, when they come after the first save of it, mark it as changed by
others.

### PageThumbnails

A scene is its render key. `pages`, `active`, `draft`, `demand`, `enabled` and
`paused` are the hook's props: `Props` lists what the editor does to them
(drawing, flushing, switching, adding and removing pages, scrolling, pausing).
The hook's effects run in the step that changes what they depend on
(`Effects`), in the order of the source: drop the images of pages that are gone,
look up what is asked for, which revokes images of older scenes, and give the
scheduler the rest. `drain` is where the scheduler's loop waits; a job is
`fresh` while its generation is the scheduler's. `stable` is in LRU order.

Bounds of the cache: the code counts entries (128) and bytes (32 MB), the model
entries; an image larger than the whole cache is left out. The run's cache of one
entry and its two pages make the image of one page evict that of the other, also
right after both were shown; more entries and pages are for the proof, which asks
only that the cache holds what is asked for (`Capacity >= MaxDemand`). A draft object that
is rebuilt with the same content makes the hook run its effects once more; they
find what they found before, so the model leaves that out too.

### PreviewRenderer

A scene is its render key and a picture is the scene it shows. `client` is how
far `ensureInitialized` has come; its two `listen` calls and the query for
readiness are awaits of their own, because the window announces itself once, at
a moment of its own. `activeJob`, `awaits` and
`pendingJob` are the latest-only executor. Init, Next, Spec and the type invariant
are named for the camera, so that one module can hold the theorems of both kinds
of thumbnails.
`fate` is a ghost: what became of the call of each version.

Two orders of events break properties and are named in `Scenarios`. With
"init", other calls come while the first one initialises: a call that heard
READY between the two `listen`s sends a request whose answer nobody hears, and
the lane stays busy; and the initialising call, coming late, replaces a newer
one in the queue. With "torn", a timer fires between a render and its effect
and caches the newer scene under the older key. The repository's design note
(`docs/superpowers/specs/2026-03-18-camera-thumbnail-renderer-design.md:115`)
calls the readiness race solved. The liveness properties are therefore claimed
of behaviours without races, `CacheIsTrue` and `OnlyPresentIsApplied` of those
without "torn", and the definitions say so; `ReadyIsNotMissed` holds of all.

Left out: the lane of slides, which no component renders; a `listen` that
fails; the bound on the number of cached pictures. The limit of ten seconds on
readiness is an error that is only logged, and a lane's answer has no limit.

### AgentTurn and ToolPromise

`run_agent` and the two drivers are one process (`phase`, `at`); the front end
is the other (`host`, `linked`, `stop`), and a runtime behind the driver asks
for any call at any time, also twice. The broker's `ledger` has an entry per
call id; its rejections (an unknown tool, a missing prerequisite, a repeated
id, the step limit) are disjuncts of `Begin`. A waiter is a `oneshot` channel:
`reply` and `approval` say whether it is registered, answered, or gone.
What a call does to a document is counted in `effects`, what the runtime is
told in `given`; both are ghosts.

`ToolPromise` is the abstract specification: per call, whether it was asked
for, took effect, and was reported, with what result. `AgentTurn` implements it
under `Promise == INSTANCE ToolPromise WITH ...`: a run checks it
(`KeepsToolPromise`), the proofs show it for all calls and tools.

`StopHolds` covers editor tools and destructive tools. A plain workspace tool
already taken up in a round of the compatibility driver is still executed after
Stop: the code looks at the cancellation only between calls of an editor or
around an approval.

What the model shows and no property claims: a tool that timed out may still
make its change, and its id then answers "already running" for ever; a panel
that unmounts before `turnStarted` leaves the native run going; only a turn
whose `turnStarted` arrived can be stopped.

### ProviderStream

`phase` is where the loop of `complete` and the `select!`s of `execute_attempt`
stand. `active` is `active_tools` with the number of pieces its arguments have
got, `toolIds` is `chat_tool_ids`, `visible` is `visible_progress`. The provider
sends a call in `Fragments` pieces, in the order of the pieces but mixed with
others; `sent` counts them. `shown` and `announced` are what the person has been
shown since `complete` was called, over all attempts. What an answer's status
says of the attempt is in `Retryable` and `Unsupported`.

The id of a call is the gateway's, or for one that gives none a position: that of a
delta, which `complete` makes unique within the answer, or
`responses-tool-{output_index}`, made of each event of an item anew. Nothing
makes an item keep its id from one event to the next, or be added before it is
done; `Loose` are the positions of the instance that may come in these ways. A
call that is only done is made, but its update is passed over by the front end,
which was never told of an item. A call whose item is done under another id is
returned with its arguments, and leaves an entry under the first id which is
returned too, at the end, without any: so `CallsAreWhole` is about answers whose
items kept their ids (`cut` remembers the others), and `AnnouncedCallsAreMade`
about all.

Of an event with text beside a call, or with two calls, `parse_chat_event` reads
only the first (`PassedOver`), so `CallsAreWhole` is not about answers
with one, or about those that were cut, either.

What the model shows and no property claims: the calls that are left over at the
end of a stream are returned in the order of a hash map, while
`docs/superplan/plans/bugs/B052-continue-compatibility-turns-after-editor-read-tools.md:55`
has calls keep their execution order, so a call may be made before the one it
requires; a call whose arguments were cut is made with none.

Left out: the body of a request and of an error, wording and telemetry, usage
events, and events that change nothing.

### TurnTranscript

`items` is the transcript as the reducer keeps it, an item for each call and one
for each run of text (`added`, `content`, `segment`, `toolItems` are the
emitter's); plans, approvals, activity and errors have items of their own, which
nothing here depends on. `said` is a ghost: what the runtime said, without what
an attempt or a runtime that was given up had said. A round of Compatibility is
one behaviour of `ProviderStream`, which starts again with the next round. What
decides about a call is in `AgentTurn`: here a call gets any result that the
broker may give under its id.

What the model shows and no property claims: an id that is made of a position
(`provider.rs:372`, `provider.rs:659`) is the same in each round. The second call under it
has no item of its own, so the result of the first is overwritten on the screen;
and the broker, which knows calls by their ids, refuses it, or answers with the
result of the first when name and arguments are the same
(`tool_broker.rs:100`). `docs/rfcs/001-codex-style-generic-agent.md:744` has
every call with a stable id of its own. This is about gateways that give no ids.

### AgentThread

`channel` holds a turn's numbered events in any order, `view` is the thread on
the screen with the events that wait for their predecessors, `frame` the deltas
held for the next animation frame. `native` is where the turn is, `answered`
the turns whose command has ended and whose reply is on its way: the reply may
overtake the events, and `reconcileTurn` then ends the turn by itself. `saved` is the
record of each thread on disk, `timer` the debounced save, `resuming` and
`deletedIds` the commands about threads. The title a thread gets from its first
prompt is not modelled, but arms `timer` as it does in the code.

The deletion of the open thread is two commands: its replacement is saved, then
it is deleted. `deleting` is what is kept meanwhile, and either command may fail
(`DeleteFails`): without its replacement the thread is shown again as it was
before, and in both cases it counts as not deleted. The dialog of a deletion is
modal and closes when it has ended (`Attended`), so nobody submits or switches
during one; events, frames and timers go on.

`Races` names orders that break properties, each from a run with that race
alone: *double* (a second submit before `turnStarted`; with two turns
`EndedTurnsSettle` fails), *switch* (another thread is opened before
`turnStarted`, which leaves a turn without a thread), *overtake* (a reply before
the last events; `NeverFalselyFailed` fails) and *resurrect* (a thread is resumed
while it is being deleted; `DeletedStaysDeleted` fails). Changes in the last
150 ms before a thread is left may not reach the disk.

Left out: diagnostics, notices, usage and what titles say; steering of a running turn,
which the native runtime does not use; a cancel command that fails; the limits
on the length of arrays.

### WorkspaceAgent

The host has two locks, one for the context and one for the ledger of change
sets; nothing locks the files. So a worker's look at the context, its looks at
each file, its writes and its entry in the ledger are steps of their own, and
other programs and other workers step in between. `plan[w]` is a sequence of
snapshots (file, content found, content to write), `nth[w]` the position in it,
`foreign[w]` the files of the plan that somebody else changed since the worker's
last look at them, `unrestored[w]` whether its rollback failed and said so.

`BlocksHalfway` lets a later target of a call stop being a regular file while
the call runs. Then the code returns without the rollback of what it wrote
(see the finding); with it FALSE a call is all or nothing.

`NoLostUpdate` leaves out the files in `foreign[w]`: between the check of a file
and the write to it there is a window that the code does not close. Move and
trash look at the context once, before they act, and not again before
the change itself; `CommitsUnderTheLiveContext` is about patches and their undo.

Left out: listing, reading and searching, which change nothing (a search does
not say that it stops at 50 matches in one file); text edits and diffs.

## Runs

| Run | Bounds | What it shows |
|---|---|---|
| SdkMutation | a plan, its retry, a picker; 2 ids, a ledger of 2, 1 edit by the person, 2 tokens, 1 ticket; fair | at most one commit per id, truthful and final results, no lost change, a closed ledger is settled, an unresolved request has one way out, every call is answered |
| DocumentSave | 2 edits, 2 changes by others, 2 handlers at a time; no race, or overlap with change and mode | clean means saved; the last edit is kept; others' work is shown before it is replaced |
| DocumentRecovery | 2 edits, 1 change, 1 crash; edit; fair | a dirty document has a draft; it is saved by itself |
| PageThumbnails | 2 pages of 2 scenes, a cache of 1, 1 page asked for, 5 images | images are current, exist while shown although others are evicted, and arrive in the end |
| PreviewRenderer | 2 scenes, 6 runs of the hook's effect; no race, init, torn | a cached picture is of its key, nothing stale is applied, readiness is never missed, every call is answered, the navigator catches up |
| AgentTurn | 4 calls (read, write, trash, note), 2 steps, batches of 2 | the steps bound the effects, Stop holds, the abstract promise is kept, a cancelled turn ends |
| TurnTranscript | 2 calls of Codex; 2 more rounds of a gateway's calls, 2 in 2 pieces each, one of them without an id and one whose id may change or that may only be done, results of 1 call in the first of these rounds and one more in each later one; 1 delta of text, 2 attempts, 3 items and the last text | the transcript is what was said, once and in order, with the results the runtime got; no call is lost, torn or made twice |
| AgentThread | 2 turns, 2 threads, 2 events each, no race; symmetric | deleted threads stay deleted, no turn is declared failed that was not, what was shown is not lost from the history |
| AgentThreadSettles | 1 turn, 3 events; double, switch, overtake; fair | whoever shows a turn as working is told of its end; ended turns settle and are saved |
| WorkspaceAgent | 2 workers, 2 files of one workspace and another workspace, 2 contents, 4 events, patches of 2, a ledger of 2 | all or nothing, no lost update, the ledger's bounds, commits under the live context |
| WorkspaceSessions | 4 files, 2 folders, 3 acts of the person or of other programs, 1 edit; no race, or one of hurry, window, claim, change, replace, repeat | sessions and tree agree with the disk once everything is told, no two sessions have one path, unsaved work stays |
| HalfAppliedPatch | as small as the trace needs | the finding |

Two edits are enough to have one snapshot being written and another on the
screen; two handlers at a time are enough for a save to overtake another or a
reload; the stamps are as many as can be held at once. Three calls allow a
retry and a foreign request around one commit. Two calls of a
stream, one without an id, are mixed in every way; two rounds after the first let
an id that is made of a position come again and be executed again; three items
have text before, between and after calls. Two scenes of a page are enough to draw something and go
back to what is being rendered. Six runs of the camera hook's effect give a job
that runs, one that is queued, one that replaces it, and one after each of them.
The four calls of a turn are one for each executor, with a prerequisite between
two of them and one step too few for all. Two turns in two threads are enough
for an event, a save or a delete to meet the wrong one. Two workers with two
files meet in either order, and a ledger of two entries evicts the first. Three
acts open a file, change its path or that of its folder, and do one thing more;
the files are two of one name in two folders, and one to rename to.

The type invariants hold in the same instances; they are not listed with the
runs, and those of `RequestLedger`, `PageThumbnails`, `PreviewRenderer`,
`AgentTurn`, `ProviderStream`, `AgentThread`, `WorkspaceAgent` and
`WorkspaceSessions` are proved. So are `NoJoinerIsForgotten`, `NoCommitOnceClosing`,
`RequestsAreBounded`, `NoRequestOnceCancelled` and `ShownIsSaid`, which no run
lists: `TranscriptIsTrue` says of a whole turn what `ShownIsSaid` says of one call
of `complete`.

Deadlock is not checked: in every model all calls may be answered, the turn
over, or the document closed, with no bound left to do more.

### Fairness

- `SdkMutation`: weak fairness of each started call. Promises of the runtime
  settle, the person closes the picker in the end, and the editor settles its
  commit receipts; the last one the code takes for granted (no timeout), and so
  does the model. Reconciliation, aborts, edits and disposal are never forced,
  only a disposal that began ends.
- `DocumentSave`: weak fairness of replies, of the auto-save timer, and of the
  watcher. Nothing forces the person, other programs or the recovery timer.
- `PageThumbnails`: weak fairness of the timers, of the wait for the main
  thread, and of renders, which end with an error if need be.
  `ThumbnailsCatchUp` speaks of behaviours whose props stop changing; nothing
  forces the person to stop.
- `PreviewRenderer`: weak fairness of the client's awaits, of the hidden window
  becoming ready and answering, of the debounce timer and of the effect after a
  render. The window's answers have no time limit in the code; that they come
  is the assumption under which a lane is ever free again.
- `AgentTurn`: weak fairness of the native side's own steps between its waits,
  and strong fairness of seeing a cancellation: `select!` picks at random among
  the branches that are ready, so it is not passed over for ever. The runtime is
  never forced to end its turn, and the front end never to answer.
- `AgentThread`: weak fairness of events on their way, of replies, of frames, of
  the save timer, and of a deletion that began. The person is never forced to decide an approval.

## Proofs

Eight modules hold theorems. TLC agreed with every invariant below on the small
instance before it was proved.

**SdkMutation_proofs**, first of the ledger, for every set of ids, payloads and
outcomes and all bounds. The assumptions are those of `LedgerAssumption`: the markers differ from
ids, payloads and outcomes. The inductive invariant `LedgerInv` adds to the type
and the stated properties

- `TokensMatchRecords`: a live token and the record it stands for name each
  other. Without it a step that replaces a token could leave a second one.
- `AwaitingIsUnresolved`: what a reconcile awaits is an indeterminate record
  without a token. Without it a reconcile could settle a record that somebody
  reserved again.

`OutcomeIsFinal` is an action property that follows from the invariant: only
reconcile could touch a settled record, and it touches only those it awaits.

Then of mutations, for every set of calls, ids and pickers and all bounds.
Besides the ledger's assumption it needs that the outcomes differ and that what
a request leaves in a document differs from what a person does. The invariant
`SdkInv` adds to `LedgerInv`

- `OneHolder`: no two calls hold one request, where a call holds its request
  from the reservation it was granted until it is answered. Without it a late
  call could settle what another one is about to commit.
- `CallInv`, for each call: its version is not ahead of the edits, an executing
  call's record is in flight as a mutation, its plan was made of the present
  document if the versions agree, its attempt tells the document before from the
  one after, and what it saw of its commit is what happened.
- `RequestInv`, for each request: it committed at most once, a request nobody
  used has not, and what the ledger's probes and results say is what the
  document shows.

From it follow `CommitsAtMostOnce`, `ResultsAreTrue`, `NoChangeIsLost` and
`NoCommitOnceClosing`.

**Thumbnails_proofs**, first of cameras, for every set of scenes and any bound on versions:
`CacheIsTrue`, `ReadyIsNotMissed` and `OnlyPresentIsApplied`. The invariant says
what the active and the queued job know of the version they were made for, and
that a client which has finished initialising knows of a window that is ready.

Then of pages, for every set of pages and scenes and every size of
the cache: `TypeOK`, `ImagesLiveWhileNeeded` and `ShownIsCurrent`. The theorems
assume that names for images do not run out (`ThumbnailAssumption`), which TLC
checks of the run's five. The invariant `ThumbInv` says whose each image is
(`EntriesAreApart`, `ImagesAreOwned`), that what the scheduler holds is asked for
and of the present scene (`JobsAreWanted`), and of an image on the screen that it
is in the slot or in the cache (`ShownIsHeld`), where only images on the screen
are more recent (`ShownIsRecent`). The last is what the claim rests on: the cache
evicts its least recent image without knowing what is shown, and would reach an
image on the screen only after more images than are asked for, which a counting
argument excludes (`ViewsAreFew`). Filtering a sequence is stated by the
positions that stay, with their order proved by counting (`OnlyKeepsOrder`).

**AgentTools_proofs**, first of turns, for every set of calls, tools,
prerequisites and limits. The inductive invariant `TurnInv` relates the two
sides of a turn: `WaitsForItsCall` (the driver waits for the call it began),
`NothingYet` and `TracesOfCalls` (what exists of a call before and after it is
begun), `SuccessMeansChanged` and `SuccessIsGiven` (a success in the ledger is a
change that was made, and is what the runtime is told), `EntriesArePrepared`
(the prerequisites of an entry were given as successes), `StepsAreCounted` and
`StopReaches`. From it follow `EffectsWithinSteps`, `StopHolds`, that
prerequisites come first, and `ToolPromiseIsKept`: every step of the turn is a
step of `ToolPromise` or leaves its variables alone.

Then of the workspace tools, for every set of workers, files and contents. The
invariant `AgentInv` says of each worker where it stands in its plan (`Placed`),
what the files before and after its position hold (`FilesHold`), which of them
it may still change (`MayChange`, `StayFiles`), and of the ledger that its
snapshots can be undone (`LedgerShape`). From it: `AllOrNothing` as long as
`BlocksHalfway` is FALSE, `NoLostUpdate` and `CommitsUnderTheLiveContext`.
`LedgerInv` adds what a call has captured and the types, and gives
`WorkspaceTypeOK` and `LedgerIsBounded`: the account goes down by what each
evicted change set weighs, so what is left is the sum of what stays, and zero
when nothing stays. The sum is a recursive function of the sequence's length;
`TotalIsTheSum` says what it is, `TotalOfMore` and `TotalInParts` how it follows
an append and a cut.

**TurnTranscript_proofs**, first of one call of `complete`, for every set of
positions and ids and any number of pieces, attempts and deltas. The invariant says that until an attempt streams
nothing was shown (`NothingShownYet`), that what was shown is the attempt's text
and what was announced is in the map or returned (`WhatIsShown`), where the
pieces of a call went (`PiecesWereSent`), and how many requests there were
(`RequestsAreCounted`). From it follow `ShownIsSaid`, `AnnouncedCallsAreMade`
and `RequestsAreBounded`; `NoRequestOnceCancelled` holds of every step. For
`CallsAreKept` it is joined by `Assembled`: with items, the calls returned are as
many as the positions sent whole, and the map has the others, if every item kept
its id; with deltas, if no piece was passed over, the
map has one name for each position and as many pieces as were sent for it.

Then of turns, for every set of calls and any number of rounds, items, attempts
and pieces. `TurnKeepsCalls` carries `CallsAreKept` from one call
of `complete` to all rounds of a turn: a step of the turn is a step of
`ProviderStream`, leaves it alone, or begins a round in its initial state. For
`TranscriptIsTrue` there are two invariants.

- `TranscriptInv`, until the turn completes: items and words correspond one to
  one (`OneForOne`), segments are numbered in order and only the open one has
  the present number (`SegmentsInOrder`), the open one is the last item and
  shows `assistant_content` (`OpenSegment`), and when an attempt begins or Codex
  gives way nothing was said that would have to be taken back
  (`NothingToGiveUp`). Without the second a late item could be overwritten by
  the one that closes an earlier segment.
- `Settling`: every text but the open one is closed, and a call that does not
  show its last result is awaited (`ToolsSettled`): it is to be executed, or
  `complete` has announced it. Its result is the last one because results are
  given only for rounds that have begun (`Rounds`). That an awaited call does
  not stay so is where the theorem rests on `ProviderStream`: what was announced
  is returned.

**AgentThread_proofs**, for any number of turns, threads and events.
`EventInv`, which the other invariants extend, keeps the screen in its shape
(`Fine`), the numbers of the events on their way in order (`EventsInOrder`), and
what a native turn may still tell in step with its state (`Phases`). The screen
that a failed deletion would bring back has its shape too, and no turn
(`DeletionIsIdle`).

- `WorkingIsAwaited` is inductive beside it.
- `KeptInv`, for `HistoryIsKept`: a thread that is on the screen, on disk, on its
  way or being deleted was handed out (`ThreadsInUse`), so a new one has no
  record, and what the disk has of a thread is also on the screen, in the record
  on its way, or on the screen that a failed deletion brings back (`ShownIsKept`).
- `GoneInv`, for `DeletedStaysDeleted`, where the race *resurrect* is left out:
  neither the screen, nor a record on its way, nor the thread being deleted is
  one that was deleted.
- `TruthInv`, for `NeverFalselyFailed`, where *overtake* is left out: the active
  turn is in step with its native turn (`ActiveIsInStep`). Nothing is buffered,
  and all that was told is applied or waits for the frame without a gap, so the
  completion of the reply, which has the number of the last event, ends the turn.

A queue of events is folded into the screen by recursion over its length. The
library's principles of induction take an operator and cannot be used, so
induction over the numbers is proved from its pigeonhole (`Induction`), and that
a recursive function exists from that (`Recursion`): a set of screens that every
event keeps is kept by any queue of them (`FlushStays`, `ReducedStays`).

**DocumentSave_proofs**, for any number of edits, changes, crashes, calls and
stamps. The theorems assume that `None` is not a draft record (`NoneIsNoDraft`).
The invariant `Inv` adds to the record's shape

- `QueueInv`: at most one handler in the queue is an effect's, and a load waits
  only for a document that is loading. Without it the cleanup of one effect
  could leave another's reply on its way.
- `EditInv`: while something typed is owed, the open record is dirty and shows
  it, and each save in the queue either carries the last edit or has a version
  that keeps it from marking the document clean.
- `DraftInv`: a dirty document has its draft or the timer that writes one,
  whatever the file holds. `DirtyIsRecoverable` itself is not inductive: the
  file that makes it true may be written by another program.

`LastEditIsKept` follows where no scenario has the race *edit*, and
`DirtyIsRecoverable` where none has *answer*; the other races may all happen
together, which no run can visit.

The other two properties name the races they leave out themselves, and their
invariants are stated of the scenarios without those. Both need that a
modification can always be told from what is still remembered (`EnoughStamps`:
no finite set holds all stamps), so they are about an unbounded supply of names,
where a run has seven that are used again; the second also that `None` is not a
stamp (`NoneIsNoStamp`).

- `CleanInv`, for `CleanMeansSaved`: one save or reload runs at a time
  (`OneAtATime`); what a handler has read is the file (`Reads`), and what a save
  holds is on the screen before it writes and in the file after (`Saves`), except
  an auto-save whose edit is not the last; and a clean record that does not show
  the file says so as soon as it has the file's stamp (`DiffersOpenly`). The last
  is not inductive alone: news of a permission would replace the notice, so it
  also says that no such news is on its way (`NoNewsOfMode`).
- `SeenInv`, for `OthersWorkIsSeen`, where saves may overlap and the person may
  type at any time: a record that names a file nobody has seen has a status that
  refuses a save (`SeenRecord`); what waits in the queue either is about a file
  that has been seen, or will be refused by its inspection, or reads the file
  (`SeenCall`); and a draft is only offered beside the stamp it was looked up for
  (`SeenCandidate`). A file that is written by another program has a stamp that
  no record, call or candidate holds, which is what makes these survive it.

**WorkspaceSessions_proofs** and **SessionsTruth_proofs**, for every set of
paths, folders and names, any sessions and any number of acts:
`UnsavedWorkStays` and `TypeOK` with every race, `TreeShowsTheDisk` with every
race but meet, overtake and repeat, and `OneSessionPerPath` and `SessionsTellTheTruth`
where nothing races. The assumption is that of the module
(`SessionsAssumption`): the paths are a finite set of sequences of names with
the folders above them, nothing is below a file, the first disk is a tree whose
files have the first stamps and whose folders are paths of folders, and `None`
is neither a path, nor half a rename, nor an entry.
`UnsavedWorkStays` is an action property that the state alone does not give:
when a save has ended, what was asked goes on, and closes the session it was
asked for (`Goes`, *clear*), whether or not that session is clean by then. The
invariant `SessionsInv` says why it is:

- `AreApart`: the sessions are records with numbers of their own, none above the
  last that was given. Without it a session could leave the list under another
  one's number.
- `AreInOrder`: a save that is to close a session is a save of that session and
  of no other, and while what was asked waits to go on, that session shows
  nothing unsaved. A person cannot type into the session a save is under way for
  (typing during a save is in `DocumentSave`), and every other step that
  touches the list keeps numbers and makes nothing dirty.

The type invariant (`TypesInv`) is of the disk and the tree (`FilesTyped`), of
the watcher's events (`EventsTyped`) and of sessions and calls (`ScreenTyped`).
The lists are filtered by the positions that stay (`Kept`), as in
`PageThumbnails`.

`OneSessionPerPath` needs to know of every rename before the store does: two
sources tell it of one rename, the reply to the command and the watcher's event,
and the event itself comes of two notices. `PathsInv` says, where nothing races:

- `WaysInv`: a *way* from x to y is a rename that is still to be told, as two
  halves of which the first may wait, as an event, or as the reply of the rename
  command. Neither end is above the other, no session is at or under one of the
  two ends, and any two ways are of the same rename or have nothing to do with
  each other. So what moves from x to y meets nobody there, told once or twice,
  in either order (`MovedPaths`).
- `HandlersInv`: one handler is under way beside loads, and no way touches the
  path of a document that it will open, with one exception. Between the scan that
  follows a creation and its reply another program may move the new file: then
  the rename starts above it, nobody is at its other end, and its event comes
  after the scan (`Later`), so it takes the session along when it has been
  opened. If the file has gone meanwhile, that is still to be told (`GoneTold`),
  so nothing may take its place.
- `IsATree` and `NewsInv`: above what exists are folders, and what is told is
  about paths.

`TreeShowsTheDisk` speaks of the moment when everything has been told. Its
invariant, `ShowInv`, says of every other moment what is still on its way:
wherever the tree, the reply of a scan that waits, or the entry of an event shows
a path otherwise than the disk has it, something is *coming* for that path or a
folder it is in (`Coming`): a half that waits, a notice that the watcher will
not suppress, or an event, for a scan one of those emitted after it, for an
event a later one (`WillShow`).

- Whoever changes the disk tells it, and no notice that will be needed becomes
  one that is suppressed (`TellingDisk`); this is where the proof fails without
  the last case of *meet*, which a run of seven acts then showed to be real.
  Nothing comes to where a removal or a waiting half is still to be told
  (`ToldGone`), so what the watcher says has gone is gone.
- What the watcher hears it tells, waits with or suppresses, and what it tells is
  what the disk holds then (`Hears`, `IsSo`).
- An event may find no folder in the tree to put its entry into. The folder is on
  the disk, since what exists has its folders (`IsATree`, `FoldersHold`), so the
  tree is wrong about it, so its own event is still to come and brings what is
  below it along (`FolderToCome`).
- Where a removal left entries for a session with unsaved work (`retained`) the
  tree may show what is gone. A removal that finds no such session prunes them,
  and every scan empties the set (`RefreshedTree`).
- An event that is dropped repeats the last one on its way, and no scan that is
  to replace the tree was sent after that one: so what the dropped event would
  have told is still to come, after every scan (`EmitTells`, `SilenceTells`).

`SessionsTellTheTruth` speaks of that moment too, and rests on all three of
these (`SessionsTruth_proofs`). Its invariant, `KnowInv`, says where nothing
races that a session that may be edited knows the file at its path or is on the
way to know it:

- `WillKnow`: the stamp of the session is that of the file at its path, or what is
  still to be told will make it a session that may not be edited (`Warned`: a
  removal of the path or of a folder it is in, a half whose mate does not come,
  news of a file with another stamp), or a rename that is still to be told will
  take it to a path of which one of these is true (`Passage`). The same is said of
  what a load has read for a session that is loading.
- `Mending`: or the session is being saved, and then the file is the one that the
  save wrote (`Saves`, in `KnownCall`). Between the write and
  MARK_DOCUMENT_SAVED the session has the old stamp, and its own notice is
  suppressed: nothing but the handler will tell it.
- `PairsInv`: a rename is told as one. Until its second half is handled, and then
  until its event or reply has come, the path that was left stays empty, nothing
  else is told about either end, and the second half is not suppressed; and
  what is told to be removed is gone (`RemovedAreGone`), so a removal that is
  dropped as a repeat was told by the one before it. Without this
  a half could be taken for a removal, or an event about the new file could
  come to a session before the rename that takes it there.
- A save writes at a path where no rename will bring another session: one end of
  every way has no session (`WaysInv`). A step of the watcher loses nothing of what warns
  (`ListensKnown`), and what a session is not told by the event that is delivered
  it is still to be told (`DeliversKnown`).
- What is emitted is told: it is appended, or the last event on its way says the
  same (`EmittedLast`, `EmitsOf`).

Only model-checked: every liveness property, which is outside what the prover
can do. Every invariant and every action property of the passing runs is proved,
under the assumptions named here.

## Finding

A patch of several files whose later target is no longer a regular file returns
its error at once, and what it had written to the earlier files stays
(`workspace_agent.rs:1157`; run HalfAppliedPatch), although
`docs/workspace-format.md:131` says that a failing patch is rolled back.

## Not modelled

- **Standalone documents**, with their poll and write generations, Save As, the
  exit dialog, root-missing events and the relocation of a workspace, new
  folders. They are control of the same kind as `DocumentSave` and
  `WorkspaceSessions`; each would multiply the states of those models past what
  a run can visit, so they want modules of their own.
- **The adapters of the agent**: child processes and JSON-RPC over their pipes. `AgentTurn` has the runtime behind a driver ask for anything at
  any time, which includes what they do. One thing to look at in a model of
  them: an error response to `turn/start` is ignored, and the turn ends only by
  the limit of 300 seconds of inactivity.
- **Promises that need an answer from elsewhere.** The settlement of an editor's
  commit (`transactions.ts:329`) and a request to the hidden window
  (`previewRenderer.ts:426`) have no time limit; the models assume that they
  come. A reconcile whose live digest is neither of the two it knows mints a new
  token each time (`requestLedger.ts:304`), and nothing promises that it ends.
- **SDK read and view services, host and capabilities, formats, rendering, the
  user interface, skills, settings, recents, updates**: functions of data, or
  loading and storing one file. Little happens in an order that matters, and
  what they compute is for tests.

The map covers about a twelfth of the implementation. Much of the rest is of the
last kind: layout, schemas, encoders, projections of scenes.

Next: a module for the adapters' JSON-RPC.
