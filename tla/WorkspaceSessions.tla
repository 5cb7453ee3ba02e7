--------------------------- MODULE WorkspaceSessions ---------------------------
(***************************************************************************)
(* The sessions of a workspace whose files change their paths: what the    *)
(* person does in the Explorer (open, create, rename, move, trash), what   *)
(* other programs do to files and folders, and how the watcher and the     *)
(* store keep the sessions and the tree in step with the disk.             *)
(*                                                                         *)
(* The watcher is that of macOS, where a rename comes as two notices, one  *)
(* for each path, that do not say which half they are: the watcher looks   *)
(* whether the path exists when it handles the notice, and pairs halves by *)
(* time.                                                                   *)
(*                                                                         *)
(* Commands run when they are sent and reply in order, as in DocumentSave, *)
(* which has the auto-save, the recovery drafts and permissions: they are  *)
(* left out here.  A path is a sequence of names; a file holds a stamp,    *)
(* which stands for its content and its time.                              *)
(*                                                                         *)
(* Bounds: MaxActs, MaxEdits, and the paths.                               *)
(***************************************************************************)
EXTENDS Integers, Sequences, FiniteSets, SequencesExt

CONSTANTS Name,              \* what an entry may be called
          Files, Folders,    \* the paths that may be a file, a folder
          Gone, Folder, None,
          FirstDisk,         \* what the workspace holds when it is opened
          MaxActs,           \* what the person asks for and other programs do
          MaxEdits,
          Scenarios          \* sets of races, see Admits

Path == Files \cup Folders

\* The stamps of the files the workspace holds then are 1..FirstStamps.
FirstStamps == Cardinality({p \in Path : FirstDisk[p] \notin {Gone, Folder}})

\* Paths are names below names; the folders of a path are among the paths, and
\* nothing is below a file.
ASSUME SessionsAssumption ==
    /\ MaxActs \in Nat /\ MaxEdits \in Nat
    /\ Gone # Folder /\ {Gone, Folder, None} \cap Nat = {}
    /\ Files \cap Folders = {}
    /\ IsFiniteSet(Path)
    /\ \A p \in Path : /\ p \in Seq(Name) /\ p # <<>>
                       /\ \A n \in 1..Len(p) : SubSeq(p, 1, n) \in Path
    /\ None \notin Path /\ None \notin [path : Path, mate : Path \cup {None}]
    /\ \A at \in SUBSET Path : None \notin [at -> {Gone, Folder} \cup Nat]
    /\ "file" \notin {Gone, Folder}
    /\ \A p \in Files, q \in Path : IsPrefix(p, q) => q = p
    /\ FirstDisk \in [Path -> {Gone, Folder} \cup 1..FirstStamps]
    /\ \A p \in Path : FirstDisk[p] # Gone => (FirstDisk[p] = Folder <=> p \in Folders)
    /\ \A p, q \in Path : IsPrefix(p, q) /\ FirstDisk[q] # Gone => FirstDisk[p] # Gone
    /\ Scenarios \subseteq SUBSET {"hurry", "replace", "window", "overtake", "change", "meet", "claim",
                                "repeat"}

VARIABLES
    disk,      \* what each path holds: Gone, Folder or a stamp
    stamps,    \* stamps given so far
    docs,      \* the store's documents, in their order
    active,    \* activeSessionId, 0 for none
    tree,      \* the store's entries
    calls,     \* handlers waiting for a reply, in the order of the replies
    notices,   \* notices of the file system the watcher has not handled
    pending,   \* pending_rename: the path of the half that waits, or None
    expected,  \* the stamp a path has as the app last wrote it, or None
    events,    \* workspace-change events on their way to the store
    emitted,   \* what was emitted so far, as COALESCE_WINDOW compares it
    retained,  \* paths whose entries a removal left in the tree
    opened,    \* sessions opened so far
    acts, edits,
    races      \* the races of this behaviour

screen == <<docs, active, tree>>
watcher == <<pending, expected>>
sent == <<events, emitted>>
counts == <<opened, acts, edits>>
vars == <<disk, stamps, screen, calls, notices, watcher, sent, retained, counts,
          races>>

(***************************************************************************)
(* Races.  "hurry": the person asks for the next thing before the reply to *)
(* the last one.  "window": two renames of which each shows one half here  *)
(* meet within the 400 ms of AMBIGUOUS_RENAME_WINDOW, or the halves of one *)
(* do not, or the news of a write come after the 3 s in which it is taken  *)
(* for the app's own.  "meet": something is done to a path while news      *)
(* about it are on their way, or a file comes back to where the app wrote  *)
(* it within those 3 s, or the app saves one of which the watcher has yet  *)
(* to see that it came.  "claim": a file or folder is renamed to a path    *)
(* that a session still has.  "replace": another program renames a file    *)
(* onto an existing one.  "overtake": an event emitted after a scan of the *)
(* workspace is delivered before the reply to the scan.  "change": another *)
(* program changes the workspace between two commands of one handler.      *)
(* "repeat": an event is dropped, as one of its kind and paths was emitted *)
(* within the 120 ms of COALESCE_WINDOW, that is not the last one on its   *)
(* way, or says something else, or was read by a scan.                     *)
(***************************************************************************)
Admits(race, quiet) == race \notin races => quiet

-----------------------------------------------------------------------------
(* Paths and what they hold *)

Parent(p) == Front(p)
Under(p) == {q \in Path : IsPrefix(p, q)}
Remap(p, to, q) == IF IsPrefix(p, q) THEN to \o SubSeq(q, Len(p) + 1, Len(q)) ELSE q

At(p) == IF p \in Path THEN disk[p] ELSE Gone
Shown(held, p) == p \in Path /\ held[p] # Gone
HasParent(held, p) == Len(p) > 1 => held[Parent(p)] = Folder
Prune(held, p) == [q \in Path |-> IF IsPrefix(p, q) THEN Gone ELSE held[q]]

\* fs::rename of p, with all that is under it.
Renamed(held, p, to) ==
    [q \in Path |->
        IF IsPrefix(to, q)
          THEN LET r == Remap(to, p, q) IN IF r \in Path THEN held[r] ELSE Gone
        ELSE Prune(held, p)[q]]

\* One of the paths is above the other, or is it.
Meets(p, q) == IsPrefix(p, q) \/ IsPrefix(q, p)

\* The paths of the instance have room for what moves, which is neither into
\* itself nor onto a folder it is in.
Fits(p, to) ==
    /\ ~Meets(p, to)
    /\ \A q \in Under(p) : disk[q] # Gone
         => Remap(p, to, q) \in IF disk[q] = Folder THEN Folders ELSE Files

\* Fault: the entry of a folder comes without its children.
EntryAlone(p) == IF Shown(disk, p) THEN [q \in {p} |-> disk[q]] ELSE None

\* entry_for: the entry of a path with its children, as the disk is now.
EntryFor(p) == IF Shown(disk, p) THEN [q \in Under(p) |-> disk[q]] ELSE None

-----------------------------------------------------------------------------
(* The store's reducer *)

InMemoryEditable == {"editable", "external-change", "conflict", "missing"}
Refused == {"external-change", "conflict", "missing"}

\* Fault: only the status protects.
ProtectedByStatus(d) == d.status \notin {"editable", "loading"}

\* isProtectedDocumentSession.
Protected(d) == d.dirty \/ d.status \notin {"editable", "loading"}

Each(Change(_)) == [i \in DOMAIN docs |-> Change(docs[i])]
Only(id, d, changed) == IF d.id = id THEN changed ELSE d

\* The elements of s at the positions in at, in their order: a filter stated by
\* the positions that stay, since SelectSeq is recursive and no proof can use it.
Kept(s, at) ==
    [n \in 1..Cardinality(at) |-> s[CHOOSE i \in at : Cardinality({j \in at : j <= i}) = n]]

WithId(ds, id) == Kept(ds, {i \in DOMAIN ds : ds[i].id = id})
Without(id) == Kept(docs, {i \in DOMAIN docs : docs[i].id # id})
HasActive == WithId(docs, active) # <<>>
Active == Head(WithId(docs, active))

NewDoc(p, status, stamp, shows) ==
    [id |-> opened + 1, path |-> p, status |-> status, dirty |-> FALSE,
     source |-> stamp, shows |-> shows]

\* MARK_DOCUMENT_SAVED and SET_DOCUMENT_MODEL.
MarkSaved(id, source, shows) ==
    Each(LAMBDA d : Only(id, d, [d EXCEPT !.dirty = FALSE, !.shows = shows,
                                          !.source = IF source = None THEN @ ELSE source]))
SetModel(id, source) ==
    Each(LAMBDA d : Only(id, d, [d EXCEPT !.status = "editable", !.shows = source,
                                          !.source = source]))
SetStatus(ids, status) ==
    Each(LAMBDA d : IF d.id \in ids THEN [d EXCEPT !.status = status] ELSE d)

\* REMAP_WORKSPACE_PATH.
RemapPaths(p, to) == Each(LAMBDA d : [d EXCEPT !.path = Remap(p, to, d.path)])

\* OPEN_DOCUMENT: sessions that need no protection leave; one that has the
\* path already is shown instead of a new one.
Existing(d) == Kept(docs, {i \in DOMAIN docs : docs[i].path = d.path})

\* Fault: a session that has the path is not looked for.
OpensAnother(d) == Append(Kept(docs, {i \in DOMAIN docs : Protected(docs[i])}), d)

OpenDocument(d) ==
    LET old == Existing(d)
        kept == Kept(docs, {i \in DOMAIN docs : \/ Protected(docs[i])
                                                \/ old # <<>> /\ docs[i].id = Head(old).id})
    IN  IF old # <<>> THEN kept ELSE Append(kept, d)
OpenedId(d) == IF Existing(d) # <<>> THEN Head(Existing(d)).id ELSE d.id

\* classifyExternalDocumentChange; a clean session whose file was removed leaves.
Changed(d, stamp) ==
    [d EXCEPT !.status = IF d.dirty THEN "conflict" ELSE "external-change",
              !.source = IF stamp = None THEN @ ELSE stamp]

\* Fault: the session's own path is compared, not the folders it is in.
ConcernsItself(d, e) == e.path = d.path

Concerns(d, e) ==
    CASE e.kind \in {"rename", "remove"} -> IsPrefix(e.path, d.path)
      [] OTHER -> e.path = d.path
StampOf(e) == IF e.entry = None THEN None ELSE e.entry[e.path]
Classified(d, e) ==
    IF ~Concerns(d, e) THEN d
    ELSE CASE e.kind = "rename" -> [d EXCEPT !.path = Remap(e.path, e.to, @)]
           [] e.kind = "remove" -> [d EXCEPT !.status = "missing"]
           [] OTHER -> IF d.status # "missing" /\ StampOf(e) = d.source THEN d
                       ELSE Changed(d, StampOf(e))
Leaves(d, e) == e.kind = "remove" /\ Concerns(d, e) /\ ~d.dirty

DocsAfter(e) ==
    LET stay == Kept(docs, {i \in DOMAIN docs : ~Leaves(docs[i], e)})
    IN  [i \in DOMAIN stay |-> Classified(stay[i], e)]

\* applyWorkspaceTreeEvent: an entry whose parent is not in the tree is lost;
\* a removed entry stays while a dirty session is under it.
Insert(held, p, entry) ==
    IF entry = None \/ ~HasParent(held, p) THEN held
    ELSE [q \in Path |-> IF q \in DOMAIN entry THEN entry[q] ELSE held[q]]
Retains(e) == e.kind = "remove" /\ \E i \in DOMAIN docs : docs[i].dirty /\ Concerns(docs[i], e)
TreeAfter(e) ==
    IF Retains(e) THEN tree
    ELSE CASE e.kind = "remove" -> Prune(tree, e.path)
           [] e.kind = "rename" -> Insert(Prune(tree, e.path), e.to, e.entry)
           [] OTHER             -> Insert(Prune(tree, e.path), e.path, e.entry)

-----------------------------------------------------------------------------
(* Handlers and their commands *)

Stay == [do |-> "stay", path |-> <<>>, stamp |-> None]
Call(kind) ==
    [kind |-> kind, doc |-> None, path |-> <<>>, to |-> <<>>, reply |-> None,
     ids |-> {}, ahead |-> 0, then |-> Stay]

(***************************************************************************)
(* The store's documents become ds while the handlers in q wait.  The load *)
(* effect runs again when the active record or the workspace is another:   *)
(* it cancels the load that was on its way, and loads the active session   *)
(* if it is loading.                                                       *)
(***************************************************************************)
LoadsAgain(now, q) ==
    LET kept == Kept(q, {i \in DOMAIN q : q[i].kind # "load"})
    IN  IF now # <<>> /\ Head(now).status = "loading"
          THEN Append(kept, [Call("load") EXCEPT !.doc = Head(now), !.reply = At(Head(now).path)])
          ELSE kept

\* The workspace changes too: ac is active, the tree is tr.
Become(ds, ac, tr, q) ==
    LET now == WithId(ds, ac)
    IN  /\ docs' = ds
        /\ active' = IF now = <<>> THEN 0 ELSE ac
        /\ tree' = tr
        /\ calls' = LoadsAgain(now, q)

\* Only the documents change.
DocsBecome(ds, q) ==
    LET now == WithId(ds, active)
    IN  /\ docs' = ds
        /\ active' = IF now = <<>> THEN 0 ELSE active
        /\ calls' = IF now = WithId(docs, active) THEN q ELSE LoadsAgain(now, q)
        /\ UNCHANGED tree

\* Something about the path is on its way, so that to use it again is a race.
Told(p) ==
    \/ pending # None /\ Meets(p, pending.path)
    \/ \E i \in DOMAIN notices : Meets(p, notices[i].path)
    \/ \E i \in DOMAIN events : Meets(p, events[i].path)
                              \/ (events[i].to # <<>> /\ Meets(p, events[i].to))
    \/ \E i \in DOMAIN calls : calls[i].path # <<>> /\ Meets(p, calls[i].path)
Calm(p) == Admits("meet", ~Told(p))

\* What a rename may meet at its target: a session that still has the path, and
\* the stamp of a write that is still expected there.
Claimed(p) == \E i \in DOMAIN docs : IsPrefix(p, docs[i].path)
Takes(p, to) ==
    /\ Admits("claim", ~Claimed(to))
    /\ Admits("meet", expected[to] = None \/ expected[to] # disk[p])
Free(p) == disk[p] = Gone /\ HasParent(disk, p) /\ Calm(p)

\* refreshTree: the scan is made when the command is sent.
Refresh(then) ==
    [Call("refresh") EXCEPT !.reply = disk, !.ahead = Len(events), !.then = then]

Opens(d, q) == /\ Become(OpenDocument(d), OpenedId(d), tree, q)
               /\ opened' = opened + 1

\* The names a new document may get in a folder.
Names(folder) == {p \in Files : Parent(p) = folder /\ Free(p)}

\* What was asked goes on, the active session being saved or clean.
Goes(then, q) ==
    \/ /\ then.do = "stay"
       /\ calls' = q
       /\ UNCHANGED <<screen, opened, disk, stamps, notices>>
    \/ /\ then.do = "open" /\ Calm(then.path)
       /\ Opens(NewDoc(then.path, "loading", then.stamp, None), q)
       /\ UNCHANGED <<disk, stamps, notices>>
    \/ /\ then.do = "link" /\ Calm(then.path)
       /\ calls' = Append(q, [Call("link") EXCEPT !.path = then.path, !.reply = disk[then.path]])
       /\ UNCHANGED <<screen, opened, disk, stamps, notices>>
    \/ /\ then.do = "close"
       /\ DocsBecome(Without(then.stamp), q)
       /\ UNCHANGED <<opened, disk, stamps, notices>>
    \/ /\ then.do = "create"
       /\ \/ /\ Names(then.path) = {}
             /\ calls' = q
             /\ UNCHANGED <<disk, stamps, notices>>
          \/ \E p \in Names(then.path) :
                /\ stamps' = stamps + 1
                /\ disk' = [disk EXCEPT ![p] = stamps']
                /\ notices' = Append(notices, [kind |-> "create", path |-> p, mate |-> None])
                /\ calls' = Append(q, [Call("create") EXCEPT !.path = p, !.reply = stamps'])
       /\ UNCHANGED <<screen, opened>>

Idle == \A i \in DOMAIN calls : calls[i].kind = "load"
MoreActs == acts < MaxActs
MayAsk == MoreActs /\ Admits("hurry", Idle)
Asks == acts' = acts + 1

Init ==
    /\ races \in Scenarios
    /\ disk = FirstDisk
    /\ stamps = FirstStamps
    /\ tree = FirstDisk
    /\ docs = <<>> /\ active = 0
    /\ calls = <<>> /\ notices = <<>> /\ events = <<>>
    /\ emitted = {} /\ retained = {}
    /\ pending = None
    /\ expected = [p \in Path |-> None]
    /\ opened = 0 /\ acts = 0 /\ edits = 0

-----------------------------------------------------------------------------
(* The person *)

(***************************************************************************)
(* prepareActiveDocumentTransition and the save a close asks for: a dirty  *)
(* session is saved first, and what was asked goes on if that succeeds.    *)
(***************************************************************************)
SaveThen(then) ==
    /\ Active.status \notin Refused /\ Active.shows # None
    /\ calls' = Append(calls, [Call("inspect") EXCEPT !.doc = Active, !.then = then,
                                                      !.reply = At(Active.path)])
    /\ UNCHANGED <<screen, opened, disk, stamps, notices>>
Transition(then) ==
    IF HasActive /\ Active.dirty THEN SaveThen(then) ELSE Goes(then, calls)

PersonLeaves == <<watcher, sent, retained, edits, races>>

\* openEntry and activateWorkspaceEntry.
OpenEntry(p) ==
    /\ MayAsk /\ Asks
    /\ tree[p] \notin {Gone, Folder}
    /\ HasActive => Active.path # p
    /\ Transition([do |-> "open", path |-> p, stamp |-> tree[p]])
    /\ UNCHANGED PersonLeaves

\* handleOpenDocumentLink.
OpenLink(p) ==
    /\ MayAsk /\ Asks
    /\ HasActive /\ Active.path # p /\ Active.shows # None
    /\ Transition([do |-> "link", path |-> p, stamp |-> None])
    /\ UNCHANGED PersonLeaves

\* handleCreateDocument, in a folder or at the top; the back end picks a name
\* that is free.
CreateDocument(folder) ==
    /\ MayAsk /\ Asks
    /\ folder # <<>> => tree[folder] = Folder
    /\ Transition([do |-> "create", path |-> folder, stamp |-> None])
    /\ UNCHANGED PersonLeaves

\* handleSave, and the Save answer to a close.
Save ==
    /\ MayAsk /\ Asks
    /\ HasActive /\ SaveThen(Stay)
    /\ UNCHANGED PersonLeaves
CloseSaving ==
    /\ MayAsk /\ Asks
    /\ HasActive /\ Active.dirty
    /\ SaveThen([do |-> "close", path |-> <<>>, stamp |-> active])
    /\ UNCHANGED PersonLeaves

\* requestClose of a clean session, or with the answer Discard.
Close ==
    /\ MayAsk /\ Asks
    /\ HasActive
    /\ DocsBecome(Without(active), calls)
    /\ UNCHANGED <<opened, disk, stamps, notices, PersonLeaves>>

\* handleReloadActiveDocument, which the notice offers in two states.
Reload ==
    /\ MayAsk /\ Asks
    /\ HasActive /\ Active.status \in {"external-change", "conflict"}
    /\ calls' = Append(calls, [Call("reload") EXCEPT !.doc = Active, !.reply = At(Active.path)])
    /\ UNCHANGED <<screen, opened, disk, stamps, notices, PersonLeaves>>

\* UPDATE_DOCUMENT_MODEL and MARK_DOCUMENT_DIRTY; typing during a save of the
\* same session is in DocumentSave.
Edit ==
    /\ edits < MaxEdits
    /\ HasActive /\ Active.shows # None /\ Active.status \in InMemoryEditable
    /\ \A i \in DOMAIN calls :
         calls[i].kind \in {"inspect", "write", "reinspect", "clear", "reload"} => calls[i].doc.id # active
    /\ edits' = edits + 1
    /\ docs' = Each(LAMBDA d : Only(active, d, [d EXCEPT !.dirty = TRUE]))
    /\ UNCHANGED <<disk, stamps, active, tree, calls, notices, watcher, sent, retained,
                   opened, acts, races>>

(***************************************************************************)
(* rename_entry and move_entry: neither writes over an entry that exists.  *)
(* A command that fails leaves a message and changes nothing.              *)
(***************************************************************************)
Halves(p, to) == <<[kind |-> "half", path |-> p, mate |-> to],
                   [kind |-> "half", path |-> to, mate |-> p]>>
Relocates(p, to) ==
    /\ MayAsk /\ Asks
    /\ tree[p] # Gone /\ to \in Path
    /\ Shown(disk, p) /\ Calm(p) /\ Free(to) /\ Fits(p, to) /\ Takes(p, to)
    /\ disk' = Renamed(disk, p, to)
    /\ notices' = notices \o Halves(p, to)
    /\ calls' = Append(calls, [Call("remap") EXCEPT !.path = p, !.to = to])
    /\ UNCHANGED <<stamps, screen, opened, PersonLeaves>>

Rename(p, to) == Relocates(p, to) /\ Parent(p) = Parent(to)

\* handleMove with projectWorkspaceEntryDrop: the tree must show the target
\* folder, and no entry of that name in it.
Move(p, to) ==
    /\ Relocates(p, to)
    /\ Last(p) = Last(to) /\ Parent(p) # Parent(to)
    /\ HasParent(tree, to) /\ tree[to] = Gone

\* handleTrash: the sessions it will mark are those it sees when it is asked.
Trash(p) ==
    /\ MayAsk /\ Asks
    /\ tree[p] # Gone /\ Shown(disk, p) /\ Calm(p)
    /\ disk' = Prune(disk, p)
    /\ notices' = Append(notices, [kind |-> "half", path |-> p, mate |-> None])
    /\ calls' = Append(calls, [Call("trash") EXCEPT
                   !.ids = {docs[i].id : i \in {j \in DOMAIN docs : IsPrefix(p, docs[j].path)}}])
    /\ UNCHANGED <<stamps, screen, opened, PersonLeaves>>

\* The refresh button of the sidebar.
RefreshWorkspace ==
    /\ MayAsk /\ Asks
    /\ calls' = Append(calls, Refresh(Stay))
    /\ UNCHANGED <<screen, opened, disk, stamps, notices, PersonLeaves>>

-----------------------------------------------------------------------------
(* Replies: each handler goes on with the reply at the head of the queue *)

Replied(kind) == calls # <<>> /\ Head(calls).kind = kind
ReplyLeaves == <<pending, sent, retained, acts, edits, races>>

\* SET_DOCUMENT_MODEL, or an error; the load of an older record was cancelled.
Loaded ==
    /\ Replied("load")
    /\ LET c == Head(calls)
       IN  DocsBecome(IF c.reply \in {Gone, Folder} THEN SetStatus({c.doc.id}, "error")
                      ELSE SetModel(c.doc.id, c.reply), Tail(calls))
    /\ UNCHANGED <<opened, disk, stamps, notices, expected, ReplyLeaves>>

\* inspectDocumentTarget finds the file gone or changed: the save ends.
InspectionFindsAChange ==
    /\ Replied("inspect")
    /\ LET c == Head(calls)
       IN  /\ c.reply # c.doc.source
           /\ LET ds == Each(LAMBDA d : Only(c.doc.id, d,
                          IF c.reply = Gone THEN [d EXCEPT !.status = "missing"]
                          ELSE IF c.reply = d.source /\ d.status # "missing" THEN d
                          ELSE Changed(d, c.reply)))
                  stay == {i \in DOMAIN ds :
                             ds[i].status # "missing" \/ ds[i].dirty \/ ds[i].id # c.doc.id}
              IN  DocsBecome(Kept(ds, stay), Tail(calls))
    /\ UNCHANGED <<opened, disk, stamps, notices, expected, ReplyLeaves>>

\* should_suppress_expected.
Suppresses(p) == expected[p] # None /\ disk[p] = expected[p]

\* The watcher has been told that the file at p came, and not looked yet: what
\* the app writes there will be taken for it.
Came(p) == ~Suppresses(p) /\ \E i \in DOMAIN notices :
                                notices[i].path = p /\ notices[i].kind # "modify"

\* save_workspace_document under with_expected_write; the file must be there.
Writes ==
    /\ Replied("inspect")
    /\ LET c == Head(calls)
           p == c.doc.path
       IN  /\ c.reply = c.doc.source
           /\ \/ /\ At(p) \notin {Gone, Folder} /\ Admits("meet", ~Came(p))
                 /\ stamps' = stamps + 1
                 /\ disk' = [disk EXCEPT ![p] = stamps']
                 /\ expected' = [expected EXCEPT ![p] = stamps']
                 /\ notices' = Append(notices, [kind |-> "half", path |-> p, mate |-> None])
                 /\ calls' = Append(Tail(calls), [c EXCEPT !.kind = "write", !.reply = stamps'])
              \/ /\ At(p) \in {Gone, Folder}
                 /\ expected' = [q \in Path |-> IF q = p THEN None ELSE expected[q]]
                 /\ calls' = Tail(calls)
                 /\ UNCHANGED <<disk, stamps, notices>>
    /\ UNCHANGED <<screen, opened, ReplyLeaves>>

\* saveWorkspaceDocument inspects what it wrote.
Written ==
    /\ Replied("write")
    /\ LET c == Head(calls)
       IN  calls' = Append(Tail(calls), [c EXCEPT !.kind = "reinspect", !.reply = At(c.doc.path),
                                                  !.doc.shows = c.reply])
    /\ UNCHANGED <<screen, opened, disk, stamps, notices, expected, ReplyLeaves>>

\* MARK_DOCUMENT_SAVED; the draft is deleted before the handler goes on.
Saved ==
    /\ Replied("reinspect")
    /\ LET c == Head(calls)
       IN  DocsBecome(MarkSaved(c.doc.id, IF c.reply = Gone THEN None ELSE c.reply, c.doc.shows),
                      Append(Tail(calls), [c EXCEPT !.kind = "clear"]))
    /\ UNCHANGED <<opened, disk, stamps, notices, expected, ReplyLeaves>>

GoesOn ==
    /\ Replied("clear")
    /\ Goes(Head(calls).then, Tail(calls))
    /\ UNCHANGED <<expected, ReplyLeaves>>

LinkRead ==
    /\ Replied("link")
    /\ LET c == Head(calls)
       IN  IF c.reply \in {Gone, Folder}
             THEN calls' = Tail(calls) /\ UNCHANGED <<screen, opened>>
             ELSE Opens(NewDoc(c.path, "editable", c.reply, c.reply), Tail(calls))
    /\ UNCHANGED <<disk, stamps, notices, expected, ReplyLeaves>>

Created ==
    /\ Replied("create")
    /\ LET c == Head(calls)
       IN  calls' = Append(Tail(calls),
                           Refresh([do |-> "open", path |-> c.path, stamp |-> c.reply]))
    /\ UNCHANGED <<screen, opened, disk, stamps, notices, expected, ReplyLeaves>>

Reloaded ==
    /\ Replied("reload")
    /\ LET c == Head(calls)
       IN  IF c.reply \in {Gone, Folder}
             THEN calls' = Tail(calls) /\ UNCHANGED screen
             ELSE DocsBecome(Each(LAMBDA d : Only(c.doc.id, d,
                                    [d EXCEPT !.status = "editable", !.dirty = FALSE,
                                              !.source = c.reply, !.shows = c.reply])),
                             Tail(calls))
    /\ UNCHANGED <<opened, disk, stamps, notices, expected, ReplyLeaves>>

\* handleRename and handleMove after their reply, then refreshTree.
Remapped ==
    /\ Replied("remap")
    /\ LET c == Head(calls)
       IN  Become(RemapPaths(c.path, c.to), active, tree, Append(Tail(calls), Refresh(Stay)))
    /\ UNCHANGED <<opened, disk, stamps, notices, expected, ReplyLeaves>>

Trashed ==
    /\ Replied("trash")
    /\ DocsBecome(SetStatus(Head(calls).ids, "missing"),
                  Append(Tail(calls), Refresh(Stay)))
    /\ UNCHANGED <<opened, disk, stamps, notices, expected, ReplyLeaves>>

\* SET_WORKSPACE_ENTRIES, and OPEN_DOCUMENT when the handler created a file.
Refreshed ==
    /\ Replied("refresh")
    /\ LET c == Head(calls)
           d == NewDoc(c.then.path, "loading", c.then.stamp, None)
       IN  \/ /\ c.then.do = "stay"
              /\ Become(docs, active, c.reply, Tail(calls))
              /\ UNCHANGED opened
           \/ /\ c.then.do = "open"
              /\ Become(OpenDocument(d), OpenedId(d), c.reply, Tail(calls))
              /\ opened' = opened + 1
    /\ retained' = {}
    /\ UNCHANGED <<disk, stamps, notices, watcher, sent, acts, edits, races>>

-----------------------------------------------------------------------------
(* The watcher *)

(***************************************************************************)
(* emit_change: an event is dropped if one with its kind and paths was     *)
(* emitted within the last 120 ms, which any of those before may be.  The  *)
(* purpose is to drop what repeats the last event word for word; that may  *)
(* happen to the first of what is emitted at once.                         *)
(***************************************************************************)
Key(e) == <<e.kind, e.path, e.to>>
Repeats(es, n) ==
    /\ n = 1 /\ events # <<>> /\ Last(events) = es[1]
    /\ \A i \in DOMAIN calls : calls[i].kind = "refresh" => calls[i].ahead < Len(events)
Emit(es) ==
    \E at \in SUBSET DOMAIN es :
        /\ \A n \in DOMAIN es \ at :
             Key(es[n]) \in emitted /\ Admits("repeat", Repeats(es, n))
        /\ events' = events \o Kept(es, at)
        /\ emitted' = emitted \cup {Key(es[n]) : n \in at}
Event(kind, p, to) ==
    [kind |-> kind, path |-> p, to |-> to,
     entry |-> CASE kind = "remove" -> None
                 [] kind = "rename" -> EntryFor(to)
                 [] OTHER -> EntryFor(p)]
RemoveOf(p) == Event("remove", p, <<>>)

Forget(p) == expected' = [expected EXCEPT ![p] = IF Suppresses(p) THEN @ ELSE None]

NoticeIs(kind) == notices # <<>> /\ Head(notices).kind \in kind /\ notices' = Tail(notices)
WatcherLeaves == <<disk, stamps, screen, calls, retained, counts, races>>

NoticeSuppressed ==
    /\ NoticeIs({"create", "modify", "remove", "half"})
    /\ Suppresses(Head(notices).path)
    /\ UNCHANGED <<watcher, sent, WatcherLeaves>>

\* normalize_event.
NoticeOfChange ==
    /\ NoticeIs({"create", "modify", "remove"})
    /\ LET n == Head(notices)
       IN  /\ Admits("window", pending # None => pending.path # n.path)
           /\ ~Suppresses(n.path) /\ Forget(n.path)
           /\ Emit(<<Event(n.kind, n.path, <<>>)>>)
    /\ UNCHANGED <<pending, WatcherLeaves>>

\* normalize_ambiguous_rename: the path is gone, so its half waits for another.
HalfGone ==
    /\ NoticeIs({"half"})
    /\ LET n == Head(notices)
       IN  /\ ~Suppresses(n.path) /\ Forget(n.path)
           /\ disk[n.path] = Gone
           /\ pending' = [path |-> n.path, mate |-> n.mate]
           /\ Emit(IF pending = None THEN <<>> ELSE <<RemoveOf(pending.path)>>)
    /\ UNCHANGED WatcherLeaves

\* The path is there: with a half that waits it makes a rename, or, when that
\* is too old, a removal and a creation; alone it is a creation.
HalfThere(es) ==
    /\ NoticeIs({"half"})
    /\ LET n == Head(notices)
       IN  /\ ~Suppresses(n.path) /\ Forget(n.path)
           /\ disk[n.path] # Gone
    /\ Emit(es)
    /\ pending' = None
    /\ UNCHANGED WatcherLeaves
Mates(h, n) == h.mate = n.path /\ n.mate = h.path
Paired ==
    /\ pending # None /\ notices # <<>>
    /\ Admits("window", Mates(pending, Head(notices)))
    /\ HalfThere(<<Event("rename", pending.path, Head(notices).path)>>)
PairedTooLate ==
    /\ pending # None /\ notices # <<>>
    /\ Admits("window", ~Mates(pending, Head(notices)))
    /\ HalfThere(<<RemoveOf(pending.path), Event("create", Head(notices).path, <<>>)>>)
HalfAlone ==
    /\ pending = None /\ notices # <<>>
    /\ HalfThere(<<Event("create", Head(notices).path, <<>>)>>)

\* The thread that waited for the other half.
HalfTimesOut ==
    /\ pending # None
    /\ Admits("window", ~\E i \in DOMAIN notices : Mates(pending, notices[i]))
    /\ Emit(<<RemoveOf(pending.path)>>)
    /\ pending' = None
    /\ UNCHANGED <<notices, expected, WatcherLeaves>>

\* retain, at the next notice: a write that was 3 s ago is no longer expected.
WriteForgotten(p) ==
    /\ expected[p] # None
    /\ Admits("window", \A i \in DOMAIN notices : notices[i].path # p)
    /\ expected' = [expected EXCEPT ![p] = None]
    /\ UNCHANGED <<notices, pending, sent, WatcherLeaves>>

\* APPLY_WORKSPACE_CHANGE.
Deliver ==
    /\ events # <<>>
    /\ Admits("overtake", \A i \in DOMAIN calls : calls[i].kind = "refresh" => calls[i].ahead > 0)
    /\ events' = Tail(events)
    /\ LET e == Head(events)
           q == [i \in DOMAIN calls |->
                   IF calls[i].kind = "refresh" /\ calls[i].ahead > 0
                     THEN [calls[i] EXCEPT !.ahead = @ - 1] ELSE calls[i]]
       IN  /\ Become(DocsAfter(e), active, TreeAfter(e), q)
           /\ retained' = IF Retains(e) THEN retained \cup Under(e.path)
                                       ELSE retained \ Under(e.path)
    /\ UNCHANGED <<disk, stamps, notices, watcher, emitted, counts, races>>

-----------------------------------------------------------------------------
(* Other programs *)

Handling == \E i \in DOMAIN calls : calls[i].kind \notin {"load", "refresh"}
OthersDo(held, ns) ==
    /\ Admits("change", ~Handling)
    /\ acts' = acts + 1
    /\ disk' = held
    /\ notices' = notices \o ns
    /\ UNCHANGED <<screen, calls, watcher, sent, retained, opened, edits, races>>
Notice(kind, p) == <<[kind |-> kind, path |-> p, mate |-> None]>>

OthersWrite(p) ==
    /\ MoreActs /\ disk[p] \notin {Gone, Folder}
    /\ stamps' = stamps + 1
    /\ OthersDo([disk EXCEPT ![p] = stamps'], Notice("modify", p))
OthersCreate(p) ==
    /\ MoreActs /\ Free(p)
    /\ stamps' = stamps + 1
    /\ OthersDo([disk EXCEPT ![p] = stamps'], Notice("create", p))
OthersRemove(p) ==
    /\ MoreActs /\ disk[p] \notin {Gone, Folder}
    /\ OthersDo(Prune(disk, p), Notice("remove", p))
    /\ UNCHANGED stamps
OthersRename(p, to) ==
    /\ MoreActs /\ Shown(disk, p) /\ Calm(p) /\ Fits(p, to) /\ Takes(p, to)
    /\ Admits("replace", disk[to] = Gone) /\ (disk[to] = Gone => Free(to))
    /\ disk[to] # Gone => HasParent(disk, to) /\ {disk[p], disk[to]} \cap {Folder} = {}
    /\ OthersDo(Renamed(disk, p, to), Halves(p, to))
    /\ UNCHANGED stamps
OthersMoveOut(p) ==
    /\ MoreActs /\ Shown(disk, p) /\ Calm(p)
    /\ OthersDo(Prune(disk, p), Notice("half", p))
    /\ UNCHANGED stamps
OthersMoveIn(p) ==
    /\ MoreActs /\ Free(p)
    /\ stamps' = stamps + 1
    /\ OthersDo([disk EXCEPT ![p] = stamps'], Notice("half", p))

-----------------------------------------------------------------------------
Person ==
    \/ \E p \in Files : OpenEntry(p) \/ OpenLink(p)
    \/ \E p \in Folders \cup {<<>>} : CreateDocument(p)
    \/ \E p, to \in Path : Rename(p, to) \/ Move(p, to)
    \/ \E p \in Path : Trash(p)
    \/ Save \/ CloseSaving \/ Close \/ Reload \/ RefreshWorkspace \/ Edit

Replies ==
    \/ Loaded \/ InspectionFindsAChange \/ Writes \/ Written \/ Saved \/ GoesOn
    \/ LinkRead \/ Created \/ Reloaded \/ Remapped \/ Trashed \/ Refreshed

Watcher ==
    \/ NoticeSuppressed \/ NoticeOfChange \/ HalfGone \/ Paired \/ PairedTooLate
    \/ HalfAlone \/ HalfTimesOut \/ Deliver
    \/ \E p \in Files : WriteForgotten(p)

Others ==
    \/ \E p \in Files : OthersWrite(p) \/ OthersCreate(p) \/ OthersRemove(p) \/ OthersMoveIn(p)
    \/ \E p \in Path : OthersMoveOut(p)
    \/ \E p, to \in Path : OthersRename(p, to)

Next == Person \/ Replies \/ Watcher \/ Others

Spec == Init /\ [][Next]_vars

-----------------------------------------------------------------------------
(* Properties *)

\* The variables' types; the active session is one of the store's, and no two
\* sessions have the same id.
TypeOK ==
    /\ disk \in [Path -> {Gone, Folder} \cup 1..stamps]
    /\ tree \in [Path -> {Gone, Folder} \cup 1..stamps]
    /\ expected \in [Path -> {None} \cup 1..stamps]
    /\ active # 0 => HasActive
    /\ \A i, j \in DOMAIN docs : docs[i].id = docs[j].id => i = j
    /\ \A i \in DOMAIN docs : docs[i].id \in 1..opened

\* Nothing is on its way: the screen should be what the disk holds.
Quiet == notices = <<>> /\ pending = None /\ events = <<>> /\ calls = <<>>

\* A session that may be edited and saved knows the file at its path, and
\* shows it if nothing was typed: whatever was renamed, moved, trashed and
\* written, in the app or elsewhere.  Typing over a file one does not show is
\* how work is lost.  Any race can break it.
SessionsTellTheTruth ==
    Quiet /\ races = {} => \A i \in DOMAIN docs :
      LET d == docs[i]
      IN  d.status = "editable" =>
            /\ d.source = At(d.path)
            /\ ~d.dirty => d.shows = At(d.path)

\* No two sessions have the same path, at any time: the path is the key by which
\* a file that is opened again is found, but it changes under renames, which two
\* sources tell the store.
OneSessionPerPath ==
    races = {} => \A i, j \in DOMAIN docs : docs[i].path = docs[j].path => i = j

Kind(held, p) == IF held[p] \in {Gone, Folder} THEN held[p] ELSE "file"
\* The tree, kept by events, is what a new scan would find; an entry without a
\* file stays only where a removal left it for a session with unsaved work.
TreeShowsTheDisk ==
    Quiet /\ races \cap {"meet", "overtake", "repeat"} = {} => \A p \in Path :
      \/ Kind(tree, p) = Kind(disk, p)
      \/ disk[p] = Gone /\ p \in retained

\* Unsaved work leaves the store only by a Save or a Reload of that session or
\* when the person closes it: no opening of another file, no event and no
\* rename drops it, whatever races.
UnsavedWorkStays ==
    [][ \A i \in DOMAIN docs :
          docs[i].dirty =>
            \/ \E j \in DOMAIN docs' : docs'[j].id = docs[i].id /\ docs'[j].dirty
            \/ Close /\ active = docs[i].id
            \/ (Saved \/ Reloaded) /\ Head(calls).doc.id = docs[i].id ]_vars
=============================================================================
