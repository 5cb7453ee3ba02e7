--------------------------- MODULE WorkspaceAgent ---------------------------
(***************************************************************************)
(* The workspace tools of the Agent (src-tauri/workspace_agent.rs): patches *)
(* of several files, their undo, moves and removals, executed by workers   *)
(* (a turn's thread each) while the front end synchronises the context the *)
(* tools run under and other programs change the same files.               *)
(*                                                                         *)
(* The host's two locks guard the context and the ledger of change sets;   *)
(* nothing guards the files.  So a worker's looks at the context, at the   *)
(* ledger and at each file, and its write after a look, are steps of their *)
(* own.  A file holds a content, nothing, or something that is no regular  *)
(* file ("blocked").  Text editing, digests and diffs are abstracted to    *)
(* the content a file had when the call looked and the one it shall have.  *)
(*                                                                         *)
(* Bounds: MaxEvents, MaxPlan.                                             *)
(***************************************************************************)
EXTENDS Naturals, Sequences

CONSTANTS
    Worker,
    File, Root,
    RootOf,         \* File -> Root: the workspace a file lies in
    Content,        \* what a file may hold
    Size,           \* Content -> Nat
    MaxPatchBytes,  \* the most a patch may hold (2 MB in the code)
    MaxEntries,     \* the most the ledger holds (8 change sets, 4 MB)
    MaxBytes,
    MaxPlan,        \* files one patch may touch (32 in the code)
    MaxEvents,      \* calls, synchronisations, changes by other
                    \* programs and failures of the disk
    Contexts,       \* the contexts the front end sends
    Initially,      \* what the files may hold at first
    NoContext,      \* no workspace is open
    BlocksHalfway   \* whether a later target of a call may stop being a file
                    \* while the call runs

Absent == "absent"
Blocked == "blocked"

ASSUME HostAssumption ==
    /\ RootOf \in [File -> Root]
    /\ Size \in [Content -> Nat]
    /\ {Absent, Blocked} \cap Content = {} /\ "other" \notin Worker
    /\ NoContext \notin [root : Root, readOnly : BOOLEAN,
                          protected : SUBSET File, generation : Nat]
    /\ {MaxPatchBytes, MaxEntries, MaxBytes, MaxPlan} \subseteq Nat
    /\ MaxEvents \in Nat
    /\ Contexts \subseteq [root : Root, readOnly : BOOLEAN, protected : SUBSET File]
    /\ Initially \subseteq [File -> Content \cup {Absent}]
    /\ BlocksHalfway \in BOOLEAN

VARIABLES
    disk,           \* File -> what is there
    context,        \* the active workspace context
    syncing,        \* contexts whose synchronisation has looked at the old one
    syncs,          \* synchronisations begun: the generation of the last
    entries, bytes, \* the ledger
    calls,          \* calls admitted: the id of the last
    others,         \* changes by other programs, failures of the disk
    pc,             \* Worker -> where its call is
    permit,         \* Worker -> the context its turn was offered the tools under
    captured,       \* Worker -> the context its call runs under
    id,             \* Worker -> its call
    undone,         \* Worker -> the change set its call undoes, 0 for a patch
    plan,           \* Worker -> the snapshots of its call, in order
    nth,             \* Worker -> the snapshot it is at
    unrestored,     \* Worker -> its failure says that the rollback failed too
    foreign         \* ghost: Worker -> files of its plan that somebody else
                    \* changed since it last looked at them

hostVars == <<context, syncing, syncs>>
ledgerVars == <<entries, bytes>>
callVars == <<permit, captured, id, undone, plan>>
workspaceVars == <<disk, hostVars, ledgerVars, calls, others, pc, callVars, nth,
          unrestored, foreign>>

Context == [root : Root, readOnly : BOOLEAN, protected : SUBSET File,
            generation : Nat]
State == Content \cup {Absent}
Snapshot == [file : File, from : State, to : State]
ChangeSet == [id : Nat, root : Root, generation : Nat, bytes : Nat,
              snapshots : Seq(Snapshot), status : {"applied", "undone"}]
Resting == {"idle", "done", "failed"}
Steps == {"called", "captured", "planned", "checking", "writing",
          "comparing", "restoring"}

SizeOf(state) == IF state = Absent THEN 0 ELSE Size[state]
Weight(snapshot) == SizeOf(snapshot.from) + SizeOf(snapshot.to)
Total(numbers) ==
    LET first[n \in 0 .. Len(numbers)] ==
          IF n = 0 THEN 0 ELSE first[n - 1] + numbers[n]
    IN  first[Len(numbers)]
SnapshotBytes(snapshots) ==
    Total([i \in DOMAIN snapshots |-> Weight(snapshots[i])])
LedgerBytes(sets) == Total([i \in DOMAIN sets |-> sets[i].bytes])
FilesOf(snapshots) == {snapshots[i].file : i \in DOMAIN snapshots}
Distinct(snapshots) ==
    \A i, j \in DOMAIN snapshots : snapshots[i].file = snapshots[j].file => i = j

\* Types; in particular no plan names a file twice.
WorkspaceTypeOK ==
    /\ disk \in [File -> State \cup {Blocked}]
    /\ context \in Context \cup {NoContext}
    /\ syncing \in SUBSET (Context \cup {NoContext})
    /\ syncs \in 0 .. MaxEvents
    /\ entries \in Seq(ChangeSet)
    /\ bytes \in Nat
    /\ calls \in 0 .. MaxEvents
    /\ others \in 0 .. MaxEvents
    /\ pc \in [Worker -> Resting \cup Steps]
    /\ permit \in [Worker -> Context \cup {NoContext}]
    /\ captured \in [Worker -> Context \cup {NoContext}]
    /\ id \in [Worker -> Nat]
    /\ undone \in [Worker -> Nat]
    /\ plan \in [Worker -> Seq(Snapshot)]
    /\ \A w \in Worker : Distinct(plan[w])
    /\ nth \in [Worker -> Nat]
    /\ unrestored \in [Worker -> BOOLEAN]
    /\ foreign \in [Worker -> SUBSET File]

WorkspaceInit ==
    /\ disk \in Initially
    /\ context = NoContext /\ syncing = {} /\ syncs = 0
    /\ entries = <<>> /\ bytes = 0
    /\ calls = 0 /\ others = 0
    /\ pc = [w \in Worker |-> "idle"]
    /\ permit = [w \in Worker |-> NoContext]
    /\ captured = [w \in Worker |-> NoContext]
    /\ id = [w \in Worker |-> 0]
    /\ undone = [w \in Worker |-> 0]
    /\ plan = [w \in Worker |-> <<>>]
    /\ nth = [w \in Worker |-> 0]
    /\ unrestored = [w \in Worker |-> FALSE]
    /\ foreign = [w \in Worker |-> {}]

MayHappen == calls + syncs + others < MaxEvents

Goes(w, place) == pc' = [pc EXCEPT ![w] = place]

(* Somebody, a worker or another program, changes what is at f.              *)
Change(who, f, state) ==
    /\ disk' = [disk EXCEPT ![f] = state]
    /\ foreign' = [w \in Worker |->
                     IF w = who THEN foreign[w] \ {f}
                     ELSE IF f \in FilesOf(plan[w]) THEN foreign[w] \cup {f}
                     ELSE foreign[w]]

(* w looks at f: what happened to it before is no longer news.               *)
Look(w, f) == foreign' = [foreign EXCEPT ![w] = @ \ {f}]

-----------------------------------------------------------------------------
(* The front end synchronises the context (sync_context) *)

(* A change of the root clears the ledger, before the context is replaced.   *)
SyncBegins(sent) ==
    LET next == [root |-> sent.root, readOnly |-> sent.readOnly,
                 protected |-> sent.protected, generation |-> syncs + 1]
    IN  /\ MayHappen /\ syncing = {}
        /\ syncs' = syncs + 1
        /\ syncing' = {next}
        /\ IF context # NoContext /\ context.root = next.root
             THEN UNCHANGED ledgerVars
             ELSE entries' = <<>> /\ bytes' = 0
        /\ UNCHANGED <<disk, context, calls, others, pc, callVars, nth,
                       unrestored, foreign>>

(* The person left the workspace.                                            *)
SyncLeaves ==
    /\ MayHappen /\ syncing = {}
    /\ syncs' = syncs + 1
    /\ syncing' = {NoContext}
    /\ IF context = NoContext THEN UNCHANGED ledgerVars
                              ELSE entries' = <<>> /\ bytes' = 0
    /\ UNCHANGED <<disk, context, calls, others, pc, callVars, nth,
                   unrestored, foreign>>

SyncEnds ==
    /\ \E next \in syncing : context' = next
    /\ syncing' = {}
    /\ UNCHANGED <<disk, syncs, ledgerVars, calls, others, pc, callVars, nth,
                   unrestored, foreign>>

-----------------------------------------------------------------------------
(* A call up to the moment it may change a file *)

(* A turn starts and is offered the tools of the active context.             *)
TurnStarts(w) ==
    /\ pc[w] \in Resting
    /\ context \notin {NoContext, permit[w]}
    /\ permit' = [permit EXCEPT ![w] = context]
    /\ UNCHANGED <<disk, hostVars, ledgerVars, calls, others, pc, captured, id,
                   undone, plan, nth, unrestored, foreign>>

(* execute: a call of a turn whose context has been replaced is refused,     *)
(* which changes nothing.                                                    *)
CallTool(w) ==
    /\ pc[w] \in Resting
    /\ MayHappen
    /\ permit[w] # NoContext /\ permit[w] = context
    /\ calls' = calls + 1
    /\ id' = [id EXCEPT ![w] = calls + 1]
    /\ undone' = [undone EXCEPT ![w] = 0]
    /\ captured' = [captured EXCEPT ![w] = NoContext]
    /\ plan' = [plan EXCEPT ![w] = <<>>]
    /\ nth' = [nth EXCEPT ![w] = 0]
    /\ unrestored' = [unrestored EXCEPT ![w] = FALSE]
    /\ foreign' = [foreign EXCEPT ![w] = {}]
    /\ Goes(w, "called")
    /\ UNCHANGED <<disk, hostVars, ledgerVars, others, permit>>

(* require_writable_context                                                  *)
Capture(w) ==
    /\ pc[w] = "called"
    /\ context # NoContext /\ ~context.readOnly
    /\ captured' = [captured EXCEPT ![w] = context]
    /\ Goes(w, "captured")
    /\ UNCHANGED <<disk, hostVars, ledgerVars, calls, others, permit, id, undone,
                   plan, nth, unrestored, foreign>>

Mutable(w, f) ==
    /\ RootOf[f] = captured[w].root
    /\ f \notin captured[w].protected

(* A call that is refused, or fails before its first write.                  *)
Refused(w) ==
    /\ pc[w] \in {"called", "captured", "planned"}
    /\ Goes(w, "failed")
    /\ UNCHANGED <<disk, hostVars, ledgerVars, calls, others, callVars, nth,
                   unrestored, foreign>>

(* An operation creates a file that is not there, or replaces or deletes one *)
(* whose digest it knows.                                                    *)
Applies(f, to) == disk[f] # Blocked /\ (disk[f] = Absent => to # Absent)

(* apply_patch looks at the next target.                                     *)
PlanOperation(w, f, to) ==
    LET snapshot == [file |-> f, from |-> disk[f], to |-> to]
        longer == Append(plan[w], snapshot)
    IN  /\ pc[w] \in {"captured", "planned"} /\ undone[w] = 0
        /\ Len(plan[w]) < MaxPlan
        /\ Mutable(w, f) /\ f \notin FilesOf(plan[w])
        /\ Applies(f, to)
        /\ SnapshotBytes(longer) <= MaxPatchBytes
        /\ plan' = [plan EXCEPT ![w] = longer]
        /\ Goes(w, "planned")
        /\ UNCHANGED <<disk, hostVars, ledgerVars, calls, others, permit,
                       captured, id, undone, nth, unrestored, foreign>>

Reversed(snapshots) ==
    [i \in DOMAIN snapshots |-> [file |-> snapshots[i].file,
                                 from |-> snapshots[i].to,
                                 to |-> snapshots[i].from]]

(* undo_change_set finds the change set and looks at its files.  The code    *)
(* looks at one after the other; CheckTarget looks at each again.            *)
PlanUndo(w, i) ==
    LET set == entries[i]
    IN  /\ pc[w] = "captured"
        /\ set.root = captured[w].root
        /\ set.generation = captured[w].generation
        /\ \A j \in DOMAIN set.snapshots :
              /\ Mutable(w, set.snapshots[j].file)
              /\ disk[set.snapshots[j].file] = set.snapshots[j].to
        /\ undone' = [undone EXCEPT ![w] = set.id]
        /\ plan' = [plan EXCEPT ![w] = Reversed(set.snapshots)]
        /\ Goes(w, "planned")
        /\ UNCHANGED <<disk, hostVars, ledgerVars, calls, others, permit,
                       captured, id, nth, unrestored, foreign>>

(* Fault: only the root and the permission are compared.                     *)
SamePlace(w) ==
    /\ context # NoContext
    /\ context.root = captured[w].root
    /\ ~context.readOnly

(* recheck_context: the context the call was planned under still holds.      *)
SameContext(w) ==
    /\ context # NoContext
    /\ context.root = captured[w].root
    /\ context.generation = captured[w].generation
    /\ ~context.readOnly
    /\ context.protected = captured[w].protected

Recheck(w) ==
    /\ pc[w] = "planned" /\ plan[w] # <<>>
    /\ SameContext(w)
    /\ nth' = [nth EXCEPT ![w] = 1]
    /\ Goes(w, "checking")
    /\ UNCHANGED <<disk, hostVars, ledgerVars, calls, others, callVars,
                   unrestored, foreign>>

(* move_entry and trash_entry act in one call of the workspace service.      *)
Move(w, f, g) ==
    /\ pc[w] = "captured"
    /\ Mutable(w, f) /\ RootOf[g] = RootOf[f] /\ f # g
    /\ disk[f] \in Content /\ disk[g] = Absent
    /\ disk' = [disk EXCEPT ![g] = disk[f], ![f] = Absent]
    /\ foreign' = [x \in Worker |-> IF x = w THEN {}
                     ELSE foreign[x] \cup (FilesOf(plan[x]) \cap {f, g})]
    /\ Goes(w, "done")
    /\ UNCHANGED <<hostVars, ledgerVars, calls, others, callVars, nth, unrestored>>

Trash(w, f) ==
    /\ pc[w] = "captured"
    /\ Mutable(w, f) /\ disk[f] # Absent
    /\ Change(w, f, Absent)
    /\ Goes(w, "done")
    /\ UNCHANGED <<hostVars, ledgerVars, calls, others, callVars, nth, unrestored>>

-----------------------------------------------------------------------------
(* apply_snapshots *)

Here(w) == plan[w][nth[w]]
Checking(w) == pc[w] = "checking" /\ nth[w] <= Len(plan[w])
AllWritten(w) == pc[w] = "checking" /\ nth[w] > Len(plan[w])

(* On to the snapshot before, or the rollback is over.                       *)
StepsBack(w) ==
    /\ nth' = [nth EXCEPT ![w] = @ - 1]
    /\ Goes(w, IF nth[w] = 1 THEN "failed" ELSE "comparing")

CheckPasses(w) ==
    /\ Checking(w)
    /\ disk[Here(w).file] = Here(w).from
    /\ Look(w, Here(w).file)
    /\ Goes(w, "writing")
    /\ UNCHANGED <<disk, hostVars, ledgerVars, calls, others, callVars, nth,
                   unrestored>>

(* The file changed since the call was planned: what was written is undone.  *)
CheckRefuses(w) ==
    /\ Checking(w)
    /\ disk[Here(w).file] \notin {Here(w).from, Blocked}
    /\ StepsBack(w)
    /\ UNCHANGED <<disk, hostVars, ledgerVars, calls, others, callVars,
                   unrestored, foreign>>

(* What is there cannot be read: read_optional_file(...)? returns at once.   *)
CheckCannotRead(w) ==
    /\ Checking(w)
    /\ disk[Here(w).file] = Blocked
    /\ Goes(w, "failed")
    /\ UNCHANGED <<disk, hostVars, ledgerVars, calls, others, callVars, nth,
                   unrestored, foreign>>

(* write_bytes replaces what is there now, or creates the file; remove_file  *)
(* needs a file to remove.                                                   *)
Writable(f, to) == IF to = Absent THEN disk[f] \in Content ELSE disk[f] # Blocked

DiskFails == MayHappen /\ others' = others + 1

WritePasses(w) ==
    /\ pc[w] = "writing"
    /\ Writable(Here(w).file, Here(w).to)
    /\ Change(w, Here(w).file, Here(w).to)
    /\ nth' = [nth EXCEPT ![w] = @ + 1]
    /\ Goes(w, "checking")
    /\ UNCHANGED <<hostVars, ledgerVars, calls, others, callVars, unrestored>>

(* The write fails: the file appeared or went in between, or the disk is full. *)
WriteFails(w) ==
    /\ pc[w] = "writing"
    /\ DiskFails \/ (~Writable(Here(w).file, Here(w).to) /\ UNCHANGED others)
    /\ StepsBack(w)
    /\ UNCHANGED <<disk, hostVars, ledgerVars, calls, callVars, unrestored,
                   foreign>>

-----------------------------------------------------------------------------
(* rollback_committed: from the last written snapshot back to the first *)

(* Fault: the rollback writes over whatever the file holds.                  *)
CompareAlwaysPasses(w) ==
    /\ pc[w] = "comparing"
    /\ disk[Here(w).file] # Blocked
    /\ Look(w, Here(w).file)
    /\ Goes(w, "restoring")
    /\ UNCHANGED <<disk, hostVars, ledgerVars, calls, others, callVars, nth,
                   unrestored>>

ComparePasses(w) ==
    /\ pc[w] = "comparing"
    /\ disk[Here(w).file] = Here(w).to
    /\ Look(w, Here(w).file)
    /\ Goes(w, "restoring")
    /\ UNCHANGED <<disk, hostVars, ledgerVars, calls, others, callVars, nth,
                   unrestored>>

(* Unreadable or changed since: the file is left, and the failure says so.   *)
CompareRefuses(w) ==
    /\ pc[w] = "comparing"
    /\ disk[Here(w).file] # Here(w).to
    /\ unrestored' = [unrestored EXCEPT ![w] = TRUE]
    /\ StepsBack(w)
    /\ UNCHANGED <<disk, hostVars, ledgerVars, calls, others, callVars, foreign>>

(* A file the call created is removed if it is there.                        *)
Restorable(f) == disk[f] # Blocked

RestorePasses(w) ==
    /\ pc[w] = "restoring"
    /\ Restorable(Here(w).file)
    /\ Change(w, Here(w).file, Here(w).from)
    /\ StepsBack(w)
    /\ UNCHANGED <<hostVars, ledgerVars, calls, others, callVars, unrestored>>

(* Fault: a failed restoration is not mentioned.                             *)
RestoreFailsSilently(w) ==
    /\ pc[w] = "restoring"
    /\ DiskFails \/ (~Restorable(Here(w).file) /\ UNCHANGED others)
    /\ StepsBack(w)
    /\ UNCHANGED <<disk, hostVars, ledgerVars, calls, callVars,
                   unrestored, foreign>>

RestoreFails(w) ==
    /\ pc[w] = "restoring"
    /\ DiskFails \/ (~Restorable(Here(w).file) /\ UNCHANGED others)
    /\ unrestored' = [unrestored EXCEPT ![w] = TRUE]
    /\ StepsBack(w)
    /\ UNCHANGED <<disk, hostVars, ledgerVars, calls, callVars, foreign>>

-----------------------------------------------------------------------------
(* The ledger of change sets *)

Drop(sets, n) == SubSeq(sets, n + 1, Len(sets))
Less(m, n) == IF m > n THEN m - n ELSE 0

(* Fault: what is evicted is not subtracted.                                 *)
KeptCountingAll(sets, total) ==
    \E n \in 0 .. Len(sets) :
        /\ Len(sets) - n <= MaxEntries
        /\ \A k \in 0 .. n - 1 : Len(sets) - k > MaxEntries
        /\ entries' = Drop(sets, n) /\ bytes' = total

(* Change sets are evicted from the front while there are too many or they   *)
(* are too large.                                                            *)
Kept(sets, total) ==
    LET left(k) == Less(total, LedgerBytes(SubSeq(sets, 1, k)))
        fits(k) == Len(sets) - k <= MaxEntries /\ left(k) <= MaxBytes
    IN  \E n \in 0 .. Len(sets) :
          /\ n = Len(sets) \/ fits(n)
          /\ \A k \in 0 .. n - 1 : ~fits(k)
          /\ entries' = Drop(sets, n) /\ bytes' = left(n)

(* build_change_set and record_change_set                                    *)
Record(w) ==
    LET set == [id |-> id[w], root |-> captured[w].root,
                generation |-> captured[w].generation,
                bytes |-> SnapshotBytes(plan[w]), snapshots |-> plan[w],
                status |-> "applied"]
    IN  /\ AllWritten(w) /\ undone[w] = 0
        /\ Kept(Append(entries, set), bytes + set.bytes)
        /\ Goes(w, "done")
        /\ UNCHANGED <<disk, hostVars, calls, others, callVars, nth, unrestored,
                       foreign>>

(* The change set may have been evicted meanwhile.                           *)
MarkUndone(w) ==
    /\ AllWritten(w) /\ undone[w] # 0
    /\ entries' = [i \in DOMAIN entries |->
                     IF entries[i].id = undone[w]
                       THEN [entries[i] EXCEPT !.status = "undone"] ELSE entries[i]]
    /\ Goes(w, "done")
    /\ UNCHANGED <<disk, hostVars, bytes, calls, others, callVars, nth,
                   unrestored, foreign>>

-----------------------------------------------------------------------------
(* Other programs: an editor saves, removes, or puts a folder or a link there *)

LaterTarget(f) ==
    \E w \in Worker : /\ pc[w] \in Steps
                      /\ \E i \in 2 .. Len(plan[w]) : plan[w][i].file = f

OthersDo(f, state) ==
    /\ MayHappen /\ others' = others + 1
    /\ disk[f] # state
    /\ state \in Content => disk[f] # Blocked
    /\ state = Blocked => BlocksHalfway \/ ~LaterTarget(f)
    /\ Change("other", f, state)
    /\ UNCHANGED <<hostVars, ledgerVars, calls, pc, callVars, nth, unrestored>>

-----------------------------------------------------------------------------
Sync ==
    \/ \E sent \in Contexts : SyncBegins(sent)
    \/ SyncLeaves
    \/ SyncEnds

Plans(w) ==
    \/ TurnStarts(w) \/ CallTool(w) \/ Capture(w) \/ Refused(w)
    \/ \E f \in File, to \in State : PlanOperation(w, f, to)
    \/ \E i \in DOMAIN entries : PlanUndo(w, i)
    \/ Recheck(w)
    \/ \E f, g \in File : Move(w, f, g)
    \/ \E f \in File : Trash(w, f)

Commits(w) ==
    \/ Record(w) \/ MarkUndone(w)
    \/ CheckPasses(w) \/ CheckRefuses(w) \/ CheckCannotRead(w)
    \/ WritePasses(w) \/ WriteFails(w)

RollsBack(w) ==
    \/ ComparePasses(w) \/ CompareRefuses(w)
    \/ RestorePasses(w) \/ RestoreFails(w)

WorkspaceNext ==
    \/ Sync
    \/ \E w \in Worker : Plans(w) \/ Commits(w) \/ RollsBack(w)
    \/ \E f \in File, state \in State \cup {Blocked} : OthersDo(f, state)

WorkspaceSpec == WorkspaceInit /\ [][WorkspaceNext]_workspaceVars

-----------------------------------------------------------------------------
(* Properties *)

(***************************************************************************)
(* The ledger's account of its bytes is that of the change sets it holds,  *)
(* and it holds no more than it may (record_change_set, sync_context).     *)
(***************************************************************************)
LedgerIsBounded ==
    /\ bytes = LedgerBytes(entries)
    /\ Len(entries) <= MaxEntries
    /\ bytes <= MaxBytes

(***************************************************************************)
(* A patch or an undo is applied to all its files or to none, unless its   *)
(* failure says that the rollback failed too: what nobody else has touched *)
(* since holds what the call promised, or what it held before              *)
(* (apply_snapshots, rollback_committed).  Not under BlocksHalfway:        *)
(* MCHalfAppliedPatch.                                                     *)
(***************************************************************************)
AllOrNothing ==
    \A w \in Worker : \A i \in DOMAIN plan[w] :
        LET snapshot == plan[w][i]
        IN  snapshot.file \notin foreign[w] =>
              /\ pc[w] = "done" => disk[snapshot.file] = snapshot.to
              /\ pc[w] = "failed" /\ ~unrestored[w]
                   => disk[snapshot.file] = snapshot.from

(***************************************************************************)
(* A patch, an undo or a rollback writes over nothing but what the call    *)
(* has seen or has put there itself, except for a change between its look  *)
(* at the file and the write that follows.                                 *)
(***************************************************************************)
NoLostUpdate ==
    [][ \A w \in Worker : pc[w] \in {"writing", "restoring"} =>
          LET f == Here(w).file
          IN  disk'[f] # disk[f] /\ pc'[w] # pc[w] /\ f \notin foreign[w]
                => disk[f] = IF pc[w] = "writing" THEN Here(w).from ELSE Here(w).to ]_workspaceVars

(***************************************************************************)
(* A patch or an undo begins to write only if its files lie in the         *)
(* workspace that is open now, which may be written, and none of them is   *)
(* protected now, whatever was the case when it was planned                *)
(* (recheck_context).                                                      *)
(***************************************************************************)
CommitsUnderTheLiveContext ==
    [][ \A w \in Worker : pc[w] = "planned" /\ pc'[w] = "checking" =>
          /\ context # NoContext /\ ~context.readOnly
          /\ \A f \in FilesOf(plan[w]) :
               RootOf[f] = context.root /\ f \notin context.protected ]_workspaceVars
=============================================================================
