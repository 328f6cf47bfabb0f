----------------------------- MODULE LinkViewer -----------------------------
(***************************************************************************)
(* What a batch link or an inbox does with its files once they are listed  *)
(* (web/static/app.js): a row's preview and download, the gallery with its *)
(* stage and its prefetching, and "Download all", all of which decrypt     *)
(* through one memo, plainCache, because each fetch of a file counts as a  *)
(* download of the link.                                                   *)
(*                                                                         *)
(* A use is a call of decryptMember and what is done with its result:      *)
(* "preview" and "download" of a row, "stage" for the latest call of       *)
(* showGalleryItem and "stale" for one that was stepped past, "prefetch"   *)
(* for a pump of the `from'-th opening of the gallery, and "zip".          *)
(***************************************************************************)
EXTENDS Integers, Sequences, FiniteSets, Functions

CONSTANTS
    Count,              \* files in the list, which are 1 .. Count
    Previewable,        \* those the gallery shows
    Small,              \* those it fetches in advance
    Verified,           \* those the roster vouches for
    PREFETCH_PARALLEL,
    Clicked,            \* bound: those whose row is used
    MaxFails,           \* bound: failed fetches
    MaxOpens,           \* bound: times the gallery is opened
    MaxUses             \* bound: uses under way when the user starts another

ViewerAssumption ==
    /\ Count \in Nat \ {0} /\ MaxFails \in Nat /\ MaxOpens \in Nat /\ MaxUses \in Nat
    /\ Previewable \subseteq 1 .. Count /\ Small \subseteq 1 .. Count
    /\ Verified \subseteq 1 .. Count /\ Clicked \subseteq 1 .. Count
    /\ PREFETCH_PARALLEL \in Nat \ {0}

Members == 1 .. Count
NoItem == 0

VARIABLES
    plainCache, \* per file: "none", "pending" or "ready"
    fetched,    \* per file: downloads spent on it
    failures,   \* per file: those that failed
    uses,       \* the calls of decryptMember that have not been dealt with
    busy, done, \* rows whose button shows progress, or a full bar
    panels,     \* rows with an open preview
    kept,       \* files handed to the browser, or taken into an archive
    zip,        \* where "Download all" is: the file it is at, or 0
    building,   \* ZIP.build is running
    open, item, \* the gallery: whether it is open, galleryIndex
    view,       \* the file its stage shows
    error,      \* its error line is shown
    nodes,      \* galleryNodes: the files rendered for the stage
    opens, todo \* openings so far; per opening, what its queue still holds

calls == <<plainCache, fetched, uses, busy, done>>
archive == <<zip, building>>
gallery == <<open, item, view, error, nodes, opens, todo>>
vars == <<plainCache, fetched, failures, uses, busy, done, panels, kept, zip, building,
          open, item, view, error, nodes, opens, todo>>

Init ==
    /\ plainCache = [m \in Members |-> "none"]
    /\ fetched = [m \in Members |-> 0] /\ failures = [m \in Members |-> 0]
    /\ uses = {} /\ busy = {} /\ done = {} /\ panels = {} /\ kept = {}
    /\ zip = 0 /\ building = FALSE
    /\ open = FALSE /\ item = NoItem /\ view = NoItem /\ error = FALSE
    /\ nodes = {} /\ opens = 0 /\ todo = [k \in 1 .. MaxOpens |-> {}]

-----------------------------------------------------------------------------
(* decryptMember.  A file that is neither there nor on its way is fetched; *)
(* whoever asks meanwhile shares the result.                               *)

Use(m, kind, k) == [file |-> m, kind |-> kind, from |-> k, at |-> "waiting"]

(* Mutant: the memo holds results, not what is on its way.                 *)
MemoisedReady(m) == plainCache[m] = "ready"

Memoised(m) == plainCache[m] # "none"

\* With `others', `b' and `d' as the uses and the rows there are, the uses
\* `new' begin.  A row shows progress for those that say so at once, and for
\* whoever drives a fetch.
Begin(new, others, b, d) ==
    LET fetching == {m \in Members : ~Memoised(m) /\ \E u \in new : u.file = m}
        shown == {u.file : u \in {v \in new : v.kind \in {"preview", "download", "zip"}}}
                    \cup fetching
    IN
    /\ uses' = others \cup
                   {[u EXCEPT !.at = IF plainCache[u.file] = "ready" THEN "ready" ELSE @] : u \in new}
    /\ plainCache' = [m \in Members |-> IF m \in fetching THEN "pending" ELSE plainCache[m]]
    /\ fetched' = [m \in Members |-> IF m \in fetching THEN fetched[m] + 1 ELSE fetched[m]]
    /\ busy' = b \cup shown /\ done' = d \ shown

\* endRowProgress(m, ok) for a use that ends, before others begin.
EndAndBegin(u, ok, new) ==
    Begin(new, uses \ {u}, busy \ {u.file}, IF ok THEN done \cup {u.file} ELSE done \ {u.file})
End(u, ok) == EndAndBegin(u, ok, {})

\* What has its result goes on before the event loop takes anything else.
Idle == \A u \in uses : u.at \in {"waiting", "rendering"}

Rendered(u) == u.at = "rendering" /\ Idle

Wake(m, how) == uses' = {[u EXCEPT !.at = IF u.file = m /\ @ = "waiting" THEN how ELSE @] : u \in uses}

Decrypted(m) ==
    /\ Idle /\ plainCache[m] = "pending"
    /\ plainCache' = [plainCache EXCEPT ![m] = "ready"]
    /\ Wake(m, "ready")
    /\ UNCHANGED <<fetched, failures, busy, done, panels, kept, archive, gallery>>

\* A failed attempt is dropped, so that the next use tries again.
Fails(m) ==
    /\ Idle /\ plainCache[m] = "pending" /\ FoldFunction(+, 0, failures) < MaxFails
    /\ plainCache' = [plainCache EXCEPT ![m] = "none"]
    /\ failures' = [failures EXCEPT ![m] = @ + 1]
    /\ Wake(m, "lost")
    /\ UNCHANGED <<fetched, busy, done, panels, kept, archive, gallery>>

-----------------------------------------------------------------------------
(* Rows.  An open gallery is modal: the page behind it takes no clicks.    *)

Running(m, kind) == \E u \in uses : u.file = m /\ u.kind = kind
Room == Cardinality(uses) < MaxUses

ClosePreview(m) ==
    /\ Idle /\ ~open /\ m \in panels
    /\ panels' = panels \ {m}
    /\ UNCHANGED <<calls, failures, kept, archive, gallery>>

TogglePreview(m) ==
    /\ Idle /\ Room /\ ~open /\ m \in (Previewable \cap Clicked) \ panels
    /\ ~Running(m, "preview")
    /\ Begin({Use(m, "preview", 0)}, uses, busy, done)
    /\ UNCHANGED <<failures, panels, kept, archive, gallery>>

DownloadMember(m) ==
    /\ Idle /\ Room /\ ~open /\ m \in Clicked /\ ~Running(m, "download")
    /\ Begin({Use(m, "download", 0)}, uses, busy, done)
    /\ UNCHANGED <<failures, panels, kept, archive, gallery>>

\* renderPreviewInto takes time, and may refuse what it is given.
Render(u) ==
    /\ u.kind \in {"preview", "stage"} /\ u.at = "ready"
    /\ uses' = (uses \ {u}) \cup {[u EXCEPT !.at = "rendering"]}
    /\ UNCHANGED <<plainCache, fetched, failures, busy, done, panels, kept, archive, gallery>>

\* Back to idle, not to "done": nothing was saved.
PreviewEnds(u) ==
    /\ u.kind = "preview" /\ (u.at = "lost" \/ Rendered(u))
    /\ \/ u.at = "rendering" /\ panels' = panels \cup {u.file}
       \/ UNCHANGED panels
    /\ End(u, FALSE)
    /\ UNCHANGED <<failures, kept, archive, gallery>>

DownloadEnds(u) ==
    /\ u.kind = "download" /\ u.at # "waiting"
    /\ kept' = IF u.at = "ready" THEN kept \cup {u.file} ELSE kept
    /\ End(u, u.at = "ready")
    /\ UNCHANGED <<failures, panels, archive, gallery>>

-----------------------------------------------------------------------------
(* "Download all": the files the roster vouches for, one after the other,  *)
(* then ZIP.build, which may find them too large.                          *)

After(m) == {n \in Verified : n > m}
First(S) == CHOOSE m \in S : \A n \in S : m <= n

DownloadAll ==
    /\ Idle /\ Room /\ ~open /\ zip = 0 /\ ~building /\ Verified # {}
    /\ zip' = First(Verified)
    /\ Begin({Use(zip', "zip", 0)}, uses, busy, done)
    /\ UNCHANGED <<failures, panels, kept, building, gallery>>

ZipTakes(u) ==
    LET rest == After(u.file) IN
    /\ u.kind = "zip" /\ u.at = "ready"
    /\ zip' = IF rest = {} THEN 0 ELSE First(rest)
    /\ building' = (rest = {})
    /\ kept' = kept \cup {u.file}
    /\ EndAndBegin(u, TRUE, IF rest = {} THEN {} ELSE {Use(First(rest), "zip", 0)})
    /\ UNCHANGED <<failures, panels, gallery>>

\* A failure resets whatever row shows progress.
ZipLoses(u) ==
    /\ u.kind = "zip" /\ u.at = "lost"
    /\ zip' = 0
    /\ Begin({}, uses \ {u}, {}, done)
    /\ UNCHANGED <<failures, panels, kept, building, gallery>>

BuildZip ==
    /\ Idle /\ building /\ building' = FALSE
    /\ UNCHANGED calls \/ Begin({}, uses, {}, done)
    /\ UNCHANGED <<failures, panels, kept, zip, gallery>>

-----------------------------------------------------------------------------
(* The gallery.                                                            *)

\* Another gallerySeq makes the latest use of the stage a stale one.
SteppedPast ==
    {IF u.kind = "stage" THEN [u EXCEPT !.kind = "stale"] ELSE u : u \in uses}

\* showGalleryItem(m), while other uses begin with it.
ShowItem(m, new) ==
    /\ item' = m /\ error' = FALSE
    /\ view' = IF m \in nodes THEN m ELSE NoItem
    /\ Begin(new \cup (IF m \in nodes THEN {} ELSE {Use(m, "stage", 0)}), SteppedPast, busy, done)

\* The stage goes first; the queue has what is small and not memoised then.
OpenGallery ==
    LET k == opens + 1
        queue == {m \in Previewable \cap Small : ~Memoised(m) /\ m # First(Previewable)}
    IN
    /\ Idle /\ Room /\ ~open /\ opens < MaxOpens /\ Previewable # {}
    /\ \E pumped \in SUBSET queue :
          /\ \/ Cardinality(pumped) = PREFETCH_PARALLEL
             \/ pumped = queue /\ Cardinality(queue) < PREFETCH_PARALLEL
          /\ todo' = [todo EXCEPT ![k] = queue \ pumped]
          /\ ShowItem(First(Previewable), {Use(m, "prefetch", k) : m \in pumped})
    /\ open' = TRUE /\ opens' = k
    /\ UNCHANGED <<failures, panels, kept, archive, nodes>>

\* An arrow, a key or a tile.
Step(m) ==
    /\ Idle /\ Room /\ open /\ m \in Previewable
    /\ ShowItem(m, {})
    /\ UNCHANGED <<failures, panels, kept, archive, open, nodes, opens, todo>>

CloseGallery ==
    /\ Idle /\ open /\ open' = FALSE
    /\ UNCHANGED <<calls, failures, panels, kept, archive, item, view, error, nodes, opens, todo>>

\* The item is rendered, or there is an error in its place.
StageEnds(u) ==
    /\ u.kind = "stage" /\ (u.at = "lost" \/ Rendered(u))
    /\ \/ /\ u.at = "rendering"
          /\ nodes' = nodes \cup {u.file} /\ view' = u.file /\ UNCHANGED error
       \/ error' = TRUE /\ UNCHANGED <<nodes, view>>
    /\ End(u, FALSE)
    /\ UNCHANGED <<failures, panels, kept, archive, open, item, opens, todo>>

StaleEnds(u) ==
    /\ u.kind = "stale" /\ (u.at \in {"ready", "lost"} \/ Rendered(u))
    /\ End(u, FALSE)
    /\ UNCHANGED <<failures, panels, kept, archive, gallery>>

\* A pump takes the next file of its queue, unless the gallery is closed.  It
\* says nothing of a failure.
PumpGoesOn(u) ==
    LET left == IF open THEN todo[u.from] ELSE {} IN
    /\ u.kind = "prefetch" /\ u.at # "waiting"
    /\ \/ left = {} /\ End(u, FALSE) /\ UNCHANGED todo
       \/ \E m \in left :
             /\ todo' = [todo EXCEPT ![u.from] = @ \ {m}]
             /\ EndAndBegin(u, FALSE, {Use(m, "prefetch", u.from)})
    /\ UNCHANGED <<failures, panels, kept, archive, open, item, view, error, nodes, opens>>

-----------------------------------------------------------------------------
UseGoesOn(u) ==
    \/ Render(u) \/ PreviewEnds(u) \/ DownloadEnds(u) \/ ZipTakes(u) \/ ZipLoses(u)
    \/ StageEnds(u) \/ StaleEnds(u) \/ PumpGoesOn(u)

Fetch(m) == Decrypted(m) \/ Fails(m)

User ==
    \/ DownloadAll \/ OpenGallery \/ CloseGallery
    \/ \E m \in Members : ClosePreview(m) \/ TogglePreview(m) \/ DownloadMember(m) \/ Step(m)

Next ==
    \/ User \/ BuildZip
    \/ \E m \in Members : Fetch(m)
    \/ \E u \in uses : UseGoesOn(u)

Spec == Init /\ [][Next]_vars

-----------------------------------------------------------------------------
Kinds == {"preview", "download", "zip", "stage", "stale", "prefetch"}

TypeOK ==
    /\ plainCache \in [Members -> {"none", "pending", "ready"}]
    /\ fetched \in [Members -> Nat] /\ failures \in [Members -> Nat]
    /\ uses \subseteq [file : Members, kind : Kinds, from : 0 .. MaxOpens,
                       at : {"waiting", "ready", "lost", "rendering"}]
    /\ busy \subseteq Members /\ done \subseteq Members /\ panels \subseteq Previewable
    /\ kept \subseteq Members
    /\ zip \in Members \cup {0} /\ building \in BOOLEAN
    /\ open \in BOOLEAN /\ error \in BOOLEAN /\ nodes \subseteq Previewable
    /\ item \in Members \cup {NoItem} /\ view \in Members \cup {NoItem}
    /\ opens \in 0 .. MaxOpens /\ todo \in [1 .. MaxOpens -> SUBSET (Previewable \cap Small)]

\* However previews, downloads, the gallery and an archive race for a file, it
\* is fetched anew only after a fetch that failed (app.js:1255).
SpentOnce ==
    \A m \in Members :
        fetched[m] = failures[m] + (IF plainCache[m] = "none" THEN 0 ELSE 1)

\* The stage shows the current item, its error, or nothing while that item is
\* on its way, whatever finishes late that the user has stepped past.
StageShowsItem ==
    /\ view # NoItem => view = item
    /\ item # NoItem => \/ view = item \/ error
                        \/ \E u \in uses : u.kind = "stage" /\ u.file = item

\* A full bar on a row says its file was saved, or taken into an archive
\* (app.js:1481); a row that shows progress has work under way or to come.
BarsTrue ==
    /\ done \subseteq kept
    /\ \A m \in busy : \E u \in uses : u.file = m
=============================================================================
