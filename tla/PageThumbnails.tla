--------------------------- MODULE PageThumbnails ---------------------------
(***************************************************************************)
(* The thumbnails of the page organizer: the hook usePageThumbnails, its   *)
(* scheduler (lib/pageThumbnailScheduler.ts), which renders one page at a  *)
(* time and yields to the main thread before each, and its cache           *)
(* (lib/pageThumbnailCache.ts), which owns the object URLs of the images.  *)
(*                                                                         *)
(* A scene is abstracted to its render key.  The page being edited is      *)
(* rendered from a debounced draft and kept in the cache's transient slot, *)
(* the others from the stored page and kept in the stable LRU part.        *)
(*                                                                         *)
(* The effects of the hook run in the step that changes what they depend   *)
(* on: nothing of the hook runs between a render and its effects except    *)
(* what could as well have run before it.                                  *)
(***************************************************************************)
EXTENDS Naturals, Sequences, FiniteSets

CONSTANTS Page, Key,
          Capacity,     \* entries of the stable cache (128, or 32 MB, in the code)
          MaxDemand,    \* bound: pages the organizer asks for at a time
          Url,          \* names for object URLs; a name nobody holds is used again
          None          \* no entry, no job, no URL

Entries == [page : Page, key : Key, url : Url]
Jobs == [page : Page, key : Key, transient : BOOLEAN, fresh : BOOLEAN]

ASSUME ThumbnailAssumption ==
    /\ Capacity \in Nat \ {0}
    /\ MaxDemand \in Nat
    /\ None \notin Url \cup Entries \cup Jobs
    \* Names for images do not run out.
    /\ IsFiniteSet(Url) => Cardinality(Url) > Capacity + 1 + MaxDemand

VARIABLES
    mounted,        \* the organizer is on the screen
    pages,          \* props: page -> key of the stored scene
    active,         \* props: the page being edited
    draft,          \* props: the editor's draft, of the active page or of the last one
    demand,         \* props: the pages asked for, in order of priority
    enabled,        \* props: the organizer shows thumbnails
    paused,         \* props: the person is drawing or dragging
    debounced,      \* debouncedActiveDraft
    stable,         \* the LRU cache, least recently used first
    transient,      \* the transient slot, or None
    live,           \* object URLs created and not revoked
    views,          \* the thumbnails shown: page -> [key, status, url]
    pending,        \* the scheduler's jobs, in order
    drain,          \* what its drain loop awaits: nothing, the main thread, a render
    job             \* the job being rendered, or None; fresh: of this generation

props == <<pages, active, draft, demand, enabled, paused>>
cached == <<stable, transient, live>>
vars == <<mounted, props, debounced, cached, views, pending, drain, job>>

Entry(p, k, u) == [page |-> p, key |-> k, url |-> u]
View(k, status, u) == [key |-> k, status |-> status, url |-> u]
Demands == {d \in UNION {[1..n -> Page] : n \in 0..MaxDemand} :
              \A i, j \in DOMAIN d : d[i] = d[j] => i = j}

Init ==
    /\ mounted = TRUE
    /\ pages \in {[p \in Page |-> k] : k \in Key}
    /\ active \in Page
    /\ draft = [page |-> active, key |-> pages[active]]
    /\ debounced = draft
    /\ demand = <<>> /\ enabled = TRUE /\ paused = FALSE
    /\ stable = <<>> /\ transient = None /\ live = {}
    /\ views = <<>>
    /\ pending = <<>> /\ drain = "idle" /\ job = None

Urls(entries, slot) ==
    {entries[i].url : i \in DOMAIN entries} \cup (IF slot = None THEN {} ELSE {slot.url})
NewUrl == CHOOSE u \in Url :
    u \notin live /\ \A p \in DOMAIN views : views[p].url # u

-----------------------------------------------------------------------------
(* The scheduler *)

\* setPaused(paused || !enabled).
Halted == paused \/ ~enabled

(* Fault: a drain that stopped for a pause is not taken up again.            *)
DrainsOnce(q, halted) ==
    IF drain = "idle" /\ ~halted /\ q # <<>> /\ ~Halted THEN "yielding" ELSE drain

\* drain(), from replace or from the end of a pause: one loop at a time.
Drains(q, halted) == IF drain = "idle" /\ ~halted /\ q # <<>> THEN "yielding" ELSE drain

\* A new generation: the job that is being rendered is not delivered.
Stale == IF job = None THEN None ELSE [job EXCEPT !.fresh = FALSE]

-----------------------------------------------------------------------------
(* The hook's effects on its new props *)

\* The active page is rendered from its draft, unless the draft is another's.
SceneKey(p, ps, act, deb) == IF p = act /\ deb.page = p THEN deb.key ELSE ps[p]

\* The elements of s at the positions in at, in their order.
Only(s, at) ==
    [n \in 1..Cardinality(at) |-> s[CHOOSE i \in at : Cardinality({j \in at : j <= i}) = n]]

\* The effects on stored pages ps, active page act, debounced draft deb, demand
\* asks and view mode on: retainPages and clearTransient; then, for each page asked
\* for, getActive or getStable, which drops an entry of another key and makes the
\* others the most recently used; then replace.
Effects(ps, act, deb, asks, on) ==
    LET asked == IF on THEN {asks[i] : i \in DOMAIN asks} \cap DOMAIN ps ELSE {}
        scene == [p \in asked |-> SceneKey(p, ps, act, deb)]
        slot == IF transient # None /\ transient.page \in DOMAIN ps /\ transient.page = act
                  THEN transient ELSE None
        inSlot == {p \in asked : deb.page = p /\ slot # None /\ slot.page = p
                                    /\ slot.key = scene[p]}
        found == {p \in asked \ inSlot :
                    \E i \in DOMAIN stable : stable[i].page = p /\ stable[i].key = scene[p]}
        missing == asked \ (inSlot \cup found)
        entryOf(p) == stable[CHOOSE i \in DOMAIN stable : stable[i].page = p]
        jobOf(p) == [page |-> p, key |-> scene[p],
                     transient |-> p = act /\ deb.page = act, fresh |-> TRUE]
        untouched == {i \in DOMAIN stable : stable[i].page \in DOMAIN ps \ (asked \ inSlot)}
        used == Only(asks, {i \in DOMAIN asks : asks[i] \in found})
        queued == Only(asks, {i \in DOMAIN asks : asks[i] \in missing})
    IN  /\ stable' = Only(stable, untouched) \o [n \in DOMAIN used |-> entryOf(used[n])]
        /\ transient' = slot
        /\ live' = live \ (Urls(stable, transient) \ Urls(stable', transient'))
        /\ views' = [p \in asked |->
                       IF p \in inSlot THEN View(scene[p], "ready", slot.url)
                       ELSE IF p \in found THEN View(scene[p], "ready", entryOf(p).url)
                       ELSE View(scene[p], "loading", None)]
        /\ pending' = [n \in DOMAIN queued |-> jobOf(queued[n])]
        /\ job' = Stale
        /\ drain' = Drains(pending', paused \/ ~on)

-----------------------------------------------------------------------------
(* What the rest of the editor does to the props *)

\* The person draws: the draft the editor publishes has another key.
Draw(k) ==
    /\ mounted /\ draft.page = active /\ draft.key # k
    /\ draft' = [draft EXCEPT !.key = k]
    /\ UNCHANGED <<mounted, pages, active, demand, enabled, paused, debounced,
                   cached, views, pending, drain, job>>

\* The draft is flushed into the document, on a save or before another page
\* becomes active; a page switched to is drafted one render later.
Flushed == [pages EXCEPT ![draft.page] = draft.key]

Flush ==
    /\ mounted /\ draft.page = active /\ pages[active] # draft.key
    /\ pages' = Flushed
    /\ UNCHANGED <<mounted, active, draft, demand, enabled, paused, debounced>>
    /\ Effects(Flushed, active, debounced, demand, enabled)

Activate(p) ==
    /\ mounted /\ draft.page = active /\ p \in DOMAIN pages \ {active}
    /\ active' = p /\ pages' = Flushed
    /\ UNCHANGED <<mounted, draft, demand, enabled, paused, debounced>>
    /\ Effects(Flushed, p, debounced, demand, enabled)

DraftFollows ==
    /\ mounted /\ draft.page # active
    /\ draft' = [page |-> active, key |-> pages[active]]
    /\ UNCHANGED <<mounted, pages, active, demand, enabled, paused, debounced,
                   cached, views, pending, drain, job>>

\* A plan flushes the draft before it deletes a page or adds one; a neighbour
\* takes the place of the active page, and a new page becomes active.
RemovePage(p) ==
    /\ mounted /\ draft.page = active /\ p \in DOMAIN pages /\ DOMAIN pages # {p}
    /\ pages' = [q \in DOMAIN pages \ {p} |-> Flushed[q]]
    /\ active' \in IF p = active THEN DOMAIN pages' ELSE {active}
    /\ UNCHANGED <<mounted, draft, demand, enabled, paused, debounced>>
    /\ Effects(pages', active', debounced, demand, enabled)

AddPage(p, k) ==
    /\ mounted /\ draft.page = active
    /\ p \notin DOMAIN pages \cup {debounced.page}      \* ids are new
    /\ pages' = [q \in DOMAIN pages \cup {p} |-> IF q = p THEN k ELSE Flushed[q]]
    /\ active' = p
    /\ UNCHANGED <<mounted, draft, demand, enabled, paused, debounced>>
    /\ Effects(pages', active', debounced, demand, enabled)

Scroll(d) ==
    /\ mounted /\ d # demand /\ \A i \in DOMAIN d : d[i] \in DOMAIN pages
    /\ demand' = d
    /\ UNCHANGED <<mounted, pages, active, draft, enabled, paused, debounced>>
    /\ Effects(pages, active, debounced, d, enabled)

ChangeViewMode ==
    /\ mounted
    /\ enabled' = ~enabled
    /\ UNCHANGED <<mounted, pages, active, draft, demand, paused, debounced>>
    /\ Effects(pages, active, debounced, demand, ~enabled)

\* Only setPaused depends on it.
ChangePaused ==
    /\ mounted
    /\ paused' = ~paused
    /\ drain' = Drains(pending, ~paused \/ ~enabled)
    /\ UNCHANGED <<mounted, pages, active, draft, demand, enabled, debounced,
                   cached, views, pending, job>>

Unmount ==
    /\ mounted
    /\ mounted' = FALSE
    /\ pending' = <<>> /\ job' = Stale
    /\ stable' = <<>> /\ transient' = None /\ live' = live \ Urls(stable, transient)
    /\ views' = <<>>
    /\ UNCHANGED <<props, debounced, drain>>

Props ==
    \/ \E k \in Key : Draw(k)
    \/ Flush
    \/ \E p \in Page : Activate(p) \/ RemovePage(p) \/ \E k \in Key : AddPage(p, k)
    \/ \E d \in Demands : Scroll(d)
    \/ ChangeViewMode \/ ChangePaused \/ Unmount

-----------------------------------------------------------------------------
(* What goes on by itself *)

\* The timeout of the debounce, or at once when the draft is of another page.
Debounce ==
    /\ mounted /\ draft # debounced
    /\ debounced' = draft
    /\ UNCHANGED <<mounted, props>>
    /\ Effects(pages, active, draft, demand, enabled)

\* yieldToMain is over: take the next job, unless there is a reason to stop.
Yielded ==
    /\ drain = "yielding"
    /\ IF Halted \/ pending = <<>>
         THEN drain' = "idle" /\ UNCHANGED <<pending, job>>
         ELSE drain' = "rendering" /\ job' = Head(pending) /\ pending' = Tail(pending)
    /\ UNCHANGED <<mounted, props, debounced, cached, views>>

Shows(view) == views' = [p \in DOMAIN views \cup {job.page} |->
                           IF p = job.page THEN view ELSE views[p]]

\* setTransient: one slot, and what was in it is revoked.
StoreTransient(u) ==
    /\ transient' = Entry(job.page, job.key, u)
    /\ live' = (live \ Urls(<<>>, transient)) \cup {u}
    /\ UNCHANGED stable

(* Fault: what is evicted is not revoked.                                    *)
StoreUnrevoked(u) ==
    LET others == Only(stable, {i \in DOMAIN stable : stable[i].page # job.page})
    IN  /\ stable' = Append(IF Len(others) < Capacity THEN others ELSE Tail(others),
                            Entry(job.page, job.key, u))
        /\ live' = (live \ (Urls(stable, None) \ Urls(others, None))) \cup {u}
        /\ UNCHANGED transient

\* setStable: the page's old entry goes, and the least recently used one if
\* the cache is full.
StoreStable(u) ==
    LET others == Only(stable, {i \in DOMAIN stable : stable[i].page # job.page})
        room == IF Len(others) < Capacity THEN others ELSE Tail(others)
    IN  /\ stable' = Append(room, Entry(job.page, job.key, u))
        /\ live' = (live \ (Urls(stable, None) \ Urls(room, None))) \cup {u}
        /\ UNCHANGED transient

(* Fault: every result is delivered.                                         *)
DeliversAny == mounted

\* job.generation === this.generation
Delivers == job.fresh

\* onResult with an image or without one, onError.
Rendered ==
    /\ drain = "rendering"
    /\ IF Delivers
         THEN \/ LET u == NewUrl
                 IN  /\ IF job.transient THEN StoreTransient(u) ELSE StoreStable(u)
                     /\ Shows(View(job.key, "ready", u))
              \/ Shows(View(job.key, "empty", None)) /\ UNCHANGED cached
              \/ Shows(View(job.key, "error", None)) /\ UNCHANGED cached
         ELSE UNCHANGED <<views, cached>>
    /\ job' = None
    /\ drain' = IF ~Halted /\ pending # <<>> THEN "yielding" ELSE "idle"
    /\ UNCHANGED <<mounted, props, debounced, pending>>

Next == Props \/ DraftFollows \/ Debounce \/ Yielded \/ Rendered

(* Weak fairness of what goes on by itself: a render ends, with an error if  *)
(* need be, the main thread gets idle, and timers fire.                      *)
Spec == Init /\ [][Next]_vars
             /\ WF_vars(DraftFollows) /\ WF_vars(Debounce) /\ WF_vars(Yielded) /\ WF_vars(Rendered)

-----------------------------------------------------------------------------
(* Types; in particular the scheduler renders exactly when it has a job, and *)
(* no page is queued twice.                                                  *)
TypeOK ==
    /\ pages \in UNION {[ps -> Key] : ps \in SUBSET Page}
    /\ active \in DOMAIN pages
    /\ demand \in Demands
    /\ Len(stable) <= Capacity
    /\ live \subseteq Url
    /\ \A p \in DOMAIN views : views[p].status = "ready" <=> views[p].url # None
    /\ drain = "rendering" <=> job # None
    /\ \A i, j \in DOMAIN pending : pending[i].page = pending[j].page => i = j

(* The images that have not been revoked are those of the cache, so revoking *)
(* what the cache drops leaks nothing, and nothing is left when the organizer *)
(* is gone, although a render may still be running then; and a thumbnail on   *)
(* the screen never names a revoked one, whatever was evicted, replaced,      *)
(* removed or redrawn, as long as no more pages are asked for than the cache  *)
(* has room for.                                                              *)
ImagesLiveWhileNeeded ==
    /\ live = Urls(stable, transient)
    /\ MaxDemand <= Capacity => \A p \in DOMAIN views : views[p].url \in live \cup {None}

(* What is shown for a page, a spinner or an image, is what the page looked  *)
(* like when the props last changed: no late render shows an older scene.    *)
ShownIsCurrent ==
    \A p \in DOMAIN views :
        /\ p \in DOMAIN pages
        /\ views[p].key = SceneKey(p, pages, active, debounced)

(* Unless the props keep changing, every page asked for ends up with a       *)
(* picture of its present scene, an empty one or an error: no pause, new     *)
(* demand or discarded render leaves a spinner for good.                     *)
CaughtUp ==
    mounted /\ ~Halted =>
        \A i \in DOMAIN demand : demand[i] \in DOMAIN pages =>
            /\ demand[i] \in DOMAIN views
            /\ views[demand[i]].status # "loading"
            /\ views[demand[i]].key = IF demand[i] = active THEN draft.key ELSE pages[demand[i]]

ThumbnailsCatchUp == []<><<props' # props>>_vars \/ <>[]CaughtUp
=============================================================================
