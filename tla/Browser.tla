------------------------------ MODULE Browser ------------------------------
(***************************************************************************)
(* The browser client as a whole: the upload page, the other pages of      *)
(* web/static/app.js, the container and key code of e2e.js and the archive *)
(* writer of zip.js.  `part' is the one a behaviour is about.  The parts   *)
(* share no state in the browser (what one of them leaves on the server is *)
(* an input of another), so the others stay as they start.                 *)
(***************************************************************************)
EXTENDS UploadPage

CONSTANTS
    Answers, NoRoster, MaxLoads,                            \* LinkListing
    ListCount, Previewable, Small, Verified, PREFETCH_PARALLEL, Clicked,
    MaxFails, MaxOpens, MaxUses,                               \* LinkViewer
    MaxUnlocks, MaxClicks,                                  \* FileLanding
    MaxAdded, TooLarge, MaxFiles, MaxSubs, MaxLost,         \* DropSender
    Count, Group, Queries, Hits, NAME_STORE_MAX,            \* HistoryPage
    MaxLanded,                                              \* StorageBars
    ZOOM_MAX, Views, Wide, PAN,                             \* ZoomOverlay
    Contents, Size, CHUNK, TAG, WORD, FLUSH, MaxPieces,     \* Container
    Shares, Ids, Lengths, NAME_PAD, MAX_BODY, MaxSealed,    \* Sealing
    Units, BUDGET, MAX_DEPTH,                               \* IsoWalk
    NameSet, Sizes, MaxMembers, MAX32, MAX16,               \* ZipArchive
    LOCAL_LEN, CENTRAL_LEN, EOCD_LEN, NAME_LEN

VARIABLES
    part,
    value, before, disabled, shown, singleUse, paramsConfirmed,     \* ShareOptions
    optionsLocked,
    source, password, pc, answer, at, notes, array, members,        \* LinkListing
    named, unverified, warning, headers, listed, archive,
    plainCache, fetched, failures, uses, busy, done, panels, kept,  \* LinkViewer
    zip, building, open, item, view, error, nodes, opens, todo,
    link, unlock, fileKey, previewKind, inFlight, spent, preview,   \* FileLanding
    clicks, download, name, saved, pageWarning,
    publicKey, added, running, sending, step, row, submission,      \* DropSender
    roster, seq, sent, submissions, delivered, vouched, lost,
    rows, hidden, hiddenGroups, query, collapsed, foldMemory,       \* HistoryPage
    checked, anchor, counted, bulkAll, groupBoxes, names,
    landed, barsTimer, barsInFlight, barsAgain, usage, barsShown,   \* StorageBars
    failed,
    zoomed, width, loaded, scale, tx, pointers, pinch, dragged,     \* ZoomOverlay
    file, version, phase, chunk, attempt, reader, parts, flushed,   \* Container
    pending, stop, blob,
    slots, blobOpened,                                              \* Sealing
    stack, budget, readTo, found, kind, picture, player,            \* IsoWalk
    entries, seen, zipNames, placed, central, offset, trailer,      \* ZipArchive
    result

optionsVars == <<value, before, disabled, shown, singleUse, paramsConfirmed,
                 optionsLocked>>
listingVars == <<source, password, pc, answer, at, notes, array, members,
                 named, unverified, warning, headers, listed, archive>>
viewerVars == <<plainCache, fetched, failures, uses, busy, done, panels,
                kept, zip, building, open, item, view, error, nodes, opens,
                todo>>
landingVars == <<link, unlock, fileKey, previewKind, inFlight, spent,
                 preview, clicks, download, name, saved, pageWarning>>
senderVars == <<publicKey, added, running, sending, step, row, submission,
                roster, seq, sent, submissions, delivered, vouched, lost>>
historyVars == <<rows, hidden, hiddenGroups, query, collapsed, foldMemory,
                 checked, anchor, counted, bulkAll, groupBoxes, names>>
barsVars == <<landed, barsTimer, barsInFlight, barsAgain, usage, barsShown,
              failed>>
zoomVars == <<zoomed, width, loaded, scale, tx, pointers, pinch, dragged>>
containerVars == <<file, version, phase, chunk, attempt, reader, parts,
                   flushed, pending, stop, blob>>
sealingVars == <<slots, blobOpened>>
walkVars == <<stack, budget, readTo, found, kind, picture, player>>
zipVars == <<entries, seen, zipNames, placed, central, offset, trailer,
             result>>

Options == INSTANCE ShareOptions
Listing == INSTANCE LinkListing
Viewer == INSTANCE LinkViewer WITH Count <- ListCount
Landing == INSTANCE FileLanding WITH warning <- pageWarning, fetched <- spent
Sender == INSTANCE DropSender
    WITH Oversize <- TooLarge, current <- sending, stored <- delivered,
         sealed <- vouched, opened <- submissions
History == INSTANCE HistoryPage
Bars == INSTANCE StorageBars WITH shown <- barsShown, answer <- usage
Zoom == INSTANCE ZoomOverlay WITH open <- zoomed, view <- width
Object == INSTANCE Container WITH Files <- Contents
Blobs == INSTANCE Sealing WITH opened <- blobOpened
Walk == INSTANCE IsoWalk
Zip == INSTANCE ZipArchive WITH names <- zipNames

ASSUME BrowserAssumption ==
    /\ Listing!ListingAssumption /\ Landing!LandingAssumption
    /\ Viewer!ViewerAssumption /\ Sender!SenderAssumption /\ History!HistoryAssumption
    /\ Bars!BarsAssumption /\ Zoom!ZoomAssumption /\ Walk!WalkAssumption
    /\ Zip!ZipAssumption /\ Blobs!SealingAssumption /\ Object!ContainerAssumption

-----------------------------------------------------------------------------
\* What a part starts with that depends on the link, the screen or the file.
PlainLink ==
    [version |-> 5, password |-> FALSE, limited |-> FALSE, viewable |-> FALSE,
     honest |-> TRUE, opens |-> TRUE, manifest |-> TRUE]
FirstView == CHOOSE v \in Views : TRUE
FirstContent == CHOOSE f \in Contents : TRUE

Parts == {"upload"} \cup {"options", "listing", "viewer", "landing",
                          "sender", "history", "bars", "zoom", "container",
                          "sealing", "walk", "zip"}

BrowserInit ==
    /\ part \in Parts
    /\ Init
    /\ Options!Init
    /\ Listing!Init /\ (part # "listing" => source = "batch" /\ ~password)
    /\ Viewer!Init
    /\ Landing!Init /\ (part # "landing" => link = PlainLink)
    /\ Sender!Init
    /\ History!Init
    /\ Bars!Init
    /\ Zoom!Init /\ (part # "zoom" => width = FirstView)
    /\ Object!Init /\ (part # "container" => file = FirstContent /\ phase = "reading")
    /\ Blobs!Init
    /\ Walk!Init /\ (part # "walk" => stack = <<>>)
    /\ Zip!Init /\ (part # "zip" => entries = <<>>)

Others ==
    /\ UNCHANGED part
    /\ IF part = "upload" THEN TRUE ELSE UNCHANGED vars
    /\ IF part = "options" THEN TRUE ELSE UNCHANGED optionsVars
    /\ IF part = "listing" THEN TRUE ELSE UNCHANGED listingVars
    /\ IF part = "viewer" THEN TRUE ELSE UNCHANGED viewerVars
    /\ IF part = "landing" THEN TRUE ELSE UNCHANGED landingVars
    /\ IF part = "sender" THEN TRUE ELSE UNCHANGED senderVars
    /\ IF part = "history" THEN TRUE ELSE UNCHANGED historyVars
    /\ IF part = "bars" THEN TRUE ELSE UNCHANGED barsVars
    /\ IF part = "zoom" THEN TRUE ELSE UNCHANGED zoomVars
    /\ IF part = "container" THEN TRUE ELSE UNCHANGED containerVars
    /\ IF part = "sealing" THEN TRUE ELSE UNCHANGED sealingVars
    /\ IF part = "walk" THEN TRUE ELSE UNCHANGED walkVars
    /\ IF part = "zip" THEN TRUE ELSE UNCHANGED zipVars

BrowserNext ==
    \/ part = "upload" /\ Next /\ Others
    \/ part = "options" /\ Options!Next /\ Others
    \/ part = "listing" /\ Listing!Next /\ Others
    \/ part = "viewer" /\ Viewer!Next /\ Others
    \/ part = "landing" /\ Landing!Next /\ Others
    \/ part = "sender" /\ Sender!Next /\ Others
    \/ part = "history" /\ History!Next /\ Others
    \/ part = "bars" /\ Bars!Next /\ Others
    \/ part = "zoom" /\ Zoom!Next /\ Others
    \/ part = "container" /\ Object!Next /\ Others
    \/ part = "sealing" /\ Blobs!Next /\ Others
    \/ part = "walk" /\ Walk!Next /\ Others
    \/ part = "zip" /\ Zip!Next /\ Others

client ==
    <<part, vars, optionsVars, listingVars, viewerVars, landingVars,
      senderVars, historyVars, barsVars, zoomVars, containerVars,
      sealingVars, walkVars, zipVars>>

BrowserSpec == BrowserInit /\ [][BrowserNext]_client

\* The fairness of UploadPage, whose steps a closed upload page has none of.
FairBrowser ==
    /\ BrowserSpec /\ WF_vars(Queue) /\ WF_vars(Roster)
    /\ \A t \in Tasks : WF_vars(Transfer(t))

-----------------------------------------------------------------------------
BrowserTypeOK ==
    /\ part \in Parts
    /\ TypeOK
    /\ part = "options" => Options!TypeOK
    /\ part = "listing" => Listing!TypeOK
    /\ part = "viewer" => Viewer!TypeOK
    /\ part = "landing" => Landing!TypeOK
    /\ part = "sender" => Sender!TypeOK
    /\ part = "history" => History!TypeOK
    /\ part = "bars" => Bars!TypeOK
    /\ part = "zoom" => Zoom!TypeOK
    /\ part = "container" => Object!TypeOK
    /\ part = "sealing" => Blobs!TypeOK
    /\ part = "walk" => Walk!TypeOK
    /\ part = "zip" => Zip!TypeOK

-----------------------------------------------------------------------------
(* What is checked of each part; the others are as they start.             *)

\* Files are listed as what their sender sealed, and of a batch none is left out
\* without a warning (module LinkListing).
ListTrue == part = "listing" => Listing!ListVouched /\ Listing!ListComplete

\* Nor is any left out of an inbox, which is not so: what is found of one
\* delivery is replaced by what is found of the next (app.js:1116).
InboxTold == part = "listing" => Listing!InboxComplete

\* Previews, the gallery, downloads and an archive that share one memo and one
\* row per file neither spend a download twice nor tell the user what is not so
\* (module LinkViewer).
FilesShared ==
    part = "viewer" => Viewer!SpentOnce /\ Viewer!StageShowsItem /\ Viewer!BarsTrue

\* A visit to a link costs one download and saves under the sender's name; a
\* visit to a drop leaves one delivery, listed file by file (modules FileLanding
\* and DropSender).
VisitsAddUp ==
    /\ part = "landing" => Landing!FetchedOnce /\ Landing!NameAuthentic
    /\ part = "sender" => Sender!OneDelivery /\ Sender!SentVouched

\* What a page shows is what its buttons act on: terms that are held, rows that
\* are counted, uploads that are in the bars, a picture that is in view (modules
\* ShareOptions, HistoryPage, StorageBars and ZoomOverlay).
PagesConsistent ==
    /\ part = "options" => Options!TermsHeld
    /\ part = "history" => History!DeletesWhatIsShown /\ History!NamesBounded
    /\ part = "bars" => Bars!BarsCatchUp
    /\ part = "zoom" => Zoom!PictureInView

\* What was stored opens, and nothing opens as what it is not (modules Container
\* and Sealing).
OpensAsSealed ==
    /\ part = "container" => Object!StoredOpens /\ Object!OpenedIsSealed
    /\ part = "sealing" => Blobs!OpensInPlace /\ Blobs!NothingTold

\* Reading a strange file goes forward and explains itself, and writing an
\* archive gives one that can be read (modules IsoWalk and ZipArchive).
BytesInBounds ==
    /\ part = "walk" => Walk!ReadsForward /\ Walk!SilenceExplained
    /\ part = "zip" => Zip!Unpackable
=============================================================================
