---------------------------- MODULE ShareLifecycle ----------------------------
(***************************************************************************)
(* The life of a share: a file row or a batch row with its member rows in  *)
(* PostgreSQL, and the ciphertext blobs on disk that no transaction spans. *)
(* Uploads write the blob and then the row, downloads count a slot and     *)
(* then open the blob, the last download and the sweeper archive rows and  *)
(* then unlink blobs, owners delete rows and then unlink blobs, and thirty *)
(* days after archiving the sweeper purges what is left.  Every statement  *)
(* is an action of its own and everything above runs concurrently.         *)
(*                                                                         *)
(* Drops and their submissions have a life of their own and are not here;  *)
(* quota is UploadQuota's.                                                 *)
(***************************************************************************)
EXTENDS Naturals, FiniteSets

CONSTANTS
  Files,         \* files that may be uploaded (row and blob share the id)
  Batches,       \* batches a signed-in owner may create
  NoBatch,       \* a file shared on its own
  BatchOf,       \* file -> its batch, or NoBatch
  MaxDownloads,  \* file or batch -> max_downloads, 0 for NULL; 0 for members
  Expires,       \* files and batches with an expires_at; never members
  Readers,       \* download requests
  Wants,         \* download request -> the file it asks for
  Owners,        \* delete requests
  Sweeper,       \* the background goroutine
  Faults         \* what may go wrong in this instance

Things == Files \cup Batches
Singles == {f \in Files : BatchOf[f] = NoBatch}
Members(b) == {f \in Files : BatchOf[f] = b}
Shares == Singles \cup Batches
LinkOf(f) == IF BatchOf[f] = NoBatch THEN f ELSE BatchOf[f]
Procs == Readers \cup Owners \cup {Sweeper}

(* "error": a statement fails with no effect, or its request is cancelled
   first.  "cut": the same for archiveBatchMembers, which parts the second
   half of a batch's retirement from the first.  "lostAck": a statement takes
   effect and its caller is told it failed.  "crash": the server stops between
   two statements and starts again.                                         *)
ASSUME ShareAssumption ==
  /\ IsFiniteSet(Files) /\ IsFiniteSet(Readers)
  /\ Files \cap Batches = {} /\ NoBatch \notin Things
  /\ Wants \in [Readers -> Files]
  /\ BatchOf \in [Files -> Batches \cup {NoBatch}]
  /\ MaxDownloads \in [Things -> Nat]
  /\ Expires \subseteq Shares
  /\ \A f \in Files \ Singles : MaxDownloads[f] = 0
  /\ Readers \cap Owners = {} /\ Sweeper \notin Readers \cup Owners
  /\ Faults \subseteq {"error", "cut", "lostAck", "crash"}

VARIABLES
  row,     \* file or batch -> its row: "none" yet, "live", "archived" or "gone"
  count,   \* file or batch -> download_count
  dead,    \* things whose expires_at has passed
  old,     \* archived things whose archived_at is archiveRetention ago
  blob,    \* files whose ciphertext is on disk
  up,      \* file -> where its upload request is
  at,      \* download request -> where it is
  seen,    \* download request -> download_count of its link when it was loaded
  sweep,   \* the sweeper's next statement
  due,     \* batches it has archived and whose members it has yet to archive
  todo,    \* process -> blobs it has yet to unlink
  served   \* link -> responses that started to stream a blob

vars == <<row, count, dead, old, blob, up, at, seen, sweep, due, todo, served>>
links == <<count, dead, old>>
reading == <<at, seen, served>>
sweeping == <<sweep, due>>

Rows == {"none", "live", "archived", "gone"}
UploadPhases == {"new", "write", "insert", "undo", "done", "failed"}
ReadPhases == {"new", "linked", "loaded", "paid", "serving", "archive", "members", "ended"}
SweepPhases == {"files", "purgeFiles", "batches", "members"}

TypeOK ==
  /\ row \in [Things -> Rows]
  /\ count \in [Things -> Nat]
  /\ dead \subseteq Expires
  /\ old \subseteq Things
  /\ blob \subseteq Files
  /\ up \in [Files -> UploadPhases]
  /\ at \in [Readers -> ReadPhases]
  /\ seen \in [Readers -> Nat]
  /\ sweep \in SweepPhases
  /\ due \subseteq Batches
  /\ todo \in [Procs -> SUBSET Files]
  /\ served \in [Things -> Nat]

(* No request yet, nothing counted, nothing expired. *)
Quiet ==
  /\ count = [t \in Things |-> 0]
  /\ dead = {}
  /\ old = {}
  /\ at = [d \in Readers |-> "new"]
  /\ seen = [d \in Readers |-> 0]
  /\ sweep = "files"
  /\ due = {}
  /\ todo = [p \in Procs |-> {}]
  /\ served = [t \in Things |-> 0]

Init ==
  /\ Quiet
  /\ row = [t \in Things |-> "none"]
  /\ blob = {}
  /\ up = [f \in Files |-> "new"]

(* Or start where every share has been created and every upload is over. *)
InitShared ==
  /\ Quiet
  /\ row = [t \in Things |-> "live"]
  /\ blob = Files
  /\ up = [f \in Files |-> "done"]

Limited(t) == MaxDownloads[t] > 0
Spent(t) == Limited(t) /\ count[t] >= MaxDownloads[t]
Over(t) == t \in dead \/ Spent(t)

SetRows(S, to) == row' = [t \in Things |-> IF t \in S THEN to ELSE row[t]]
May(fault) == fault \in Faults

-----------------------------------------------------------------------------
(* Uploads *)

(* handleCreateBatch *)
CreateBatch(b) ==
  /\ row[b] = "none"
  /\ SetRows({b}, "live")
  /\ UNCHANGED <<links, blob, up, reading, sweeping, todo>>

(* loadBatchForUpload: the batch is looked at once, before the body is stored. *)
BatchOpen(f) == BatchOf[f] # NoBatch => row[BatchOf[f]] = "live" /\ BatchOf[f] \notin dead

Begin(f) ==
  /\ up[f] = "new"
  /\ up' = [up EXCEPT ![f] = IF BatchOpen(f) THEN "write" ELSE "failed"]
  /\ UNCHANGED <<row, links, blob, reading, sweeping, todo>>

WriteBlob(f) ==
  /\ up[f] = "write"
  /\ blob' = blob \cup {f}
  /\ up' = [up EXCEPT ![f] = "insert"]
  /\ UNCHANGED <<row, links, reading, sweeping, todo>>

(* The INSERT of finalizeUpload.  batch_id is a foreign key and nothing else
   of the batch is looked at again.                                        *)
Insertable(f) == BatchOf[f] # NoBatch => row[BatchOf[f]] # "gone"

Insert(f) ==
  /\ up[f] = "insert"
  /\ Insertable(f)
  /\ SetRows({f}, "live")
  /\ \/ up' = [up EXCEPT ![f] = "done"]
     \/ May("lostAck") /\ up' = [up EXCEPT ![f] = "undo"]
  /\ UNCHANGED <<links, blob, reading, sweeping, todo>>

(* Any refusal or failure after the blob was opened. *)
InsertFails(f) ==
  /\ up[f] = "insert"
  /\ ~Insertable(f) \/ May("error")
  /\ up' = [up EXCEPT ![f] = "undo"]
  /\ UNCHANGED <<row, links, blob, reading, sweeping, todo>>

(* os.Remove(dstPath) *)
RemoveOwn(f) ==
  /\ up[f] = "undo"
  /\ blob' = blob \ {f}
  /\ up' = [up EXCEPT ![f] = "failed"]
  /\ UNCHANGED <<row, links, reading, sweeping, todo>>

-----------------------------------------------------------------------------
(* Downloads *)

LinkWanted(d) == LinkOf(Wants[d])

(* dispatchFileRoutes and dispatchBatchRoutes: load the link and turn away
   what is missing, used up, archived or expired.                          *)
Load(d) ==
  LET l == LinkWanted(d) IN
  /\ at[d] = "new"
  /\ seen' = [seen EXCEPT ![d] = count[l]]
  /\ at' = [at EXCEPT ![d] =
       IF row[l] # "live" \/ Over(l) THEN "ended"
       ELSE IF l \in Batches THEN "linked" ELSE "loaded"]
  /\ UNCHANGED <<row, links, blob, up, served, sweeping, todo>>

(* handleBatchFileRaw looks the member up in a statement of its own. *)
FindMember(d) ==
  /\ at[d] = "linked"
  /\ at' = [at EXCEPT ![d] = IF row[Wants[d]] = "live" THEN "loaded" ELSE "ended"]
  /\ UNCHANGED <<row, links, blob, up, seen, served, sweeping, todo>>

(* Mutant: the limit was checked when the link was loaded, not by the UPDATE. *)
CountableUnchecked(l) == row[l] \in {"live", "archived"} /\ l \notin dead

(* Mutant: the UPDATE asks for the limit alone. *)
CountableExpired(l) == row[l] \in {"live", "archived"} /\ ~Spent(l)

(* consumeDownload, consumeBatchDownload: one conditional UPDATE, which asks
   for the limit and the expiry and not for archived_at.                   *)
Countable(l) == row[l] \in {"live", "archived"} /\ ~Over(l)

Consume(d) ==
  LET l == LinkWanted(d) IN
  /\ at[d] = "loaded"
  /\ IF Countable(l)
       THEN /\ count' = [count EXCEPT ![l] = @ + 1]
            /\ \/ at' = [at EXCEPT ![d] = "paid"]
               \/ May("lostAck") /\ at' = [at EXCEPT ![d] = "ended"]
       ELSE /\ at' = [at EXCEPT ![d] = "ended"]
            /\ UNCHANGED count
  /\ UNCHANGED <<row, dead, old, blob, up, seen, served, sweeping, todo>>

(* os.Open: an open file goes on streaming whoever unlinks it, a missing one
   is an error to the downloader.  serveBlob returns nothing, so a batch
   download goes on to archiveBatchIfSpent either way.                      *)
Open(d) ==
  LET f == Wants[d] IN
  /\ at[d] = "paid"
  /\ IF f \in blob
       THEN /\ served' = [served EXCEPT ![LinkOf(f)] = @ + 1]
            /\ at' = [at EXCEPT ![d] = "serving"]
       ELSE /\ at' = [at EXCEPT ![d] = IF f \in Singles THEN "ended" ELSE "serving"]
            /\ UNCHANGED served
  /\ UNCHANGED <<row, links, blob, up, seen, sweeping, todo>>

(* Mutant: the count is read afresh, with this download's slot in it already. *)
FinishByFreshCount(d) ==
  LET l == LinkWanted(d) IN
  /\ at[d] = "serving"
  /\ at' = [at EXCEPT ![d] =
       IF Limited(l) /\ count[l] + 1 >= MaxDownloads[l] THEN "archive" ELSE "ended"]
  /\ UNCHANGED <<row, links, blob, up, seen, served, sweeping, todo>>

(* archiveIfSpent, archiveBatchIfSpent: was this the last slot, by the count
   loaded at the start?                                                     *)
Finish(d) ==
  LET l == LinkWanted(d) IN
  /\ at[d] = "serving"
  /\ at' = [at EXCEPT ![d] =
       IF Limited(l) /\ seen[d] + 1 >= MaxDownloads[l] THEN "archive" ELSE "ended"]
  /\ UNCHANGED <<row, links, blob, up, seen, served, sweeping, todo>>

(* archiveFile, and the first statement of archiveBatch. *)
Archive(d) ==
  LET l == LinkWanted(d) IN
  /\ at[d] = "archive"
  /\ row[l] = "live"
  /\ SetRows({l}, "archived")
  /\ \/ /\ at' = [at EXCEPT ![d] = IF l \in Batches THEN "members" ELSE "ended"]
        /\ todo' = [todo EXCEPT ![d] = IF l \in Batches THEN {} ELSE {l}]
     \/ /\ May("lostAck")
        /\ at' = [at EXCEPT ![d] = "ended"]
        /\ UNCHANGED todo
  /\ UNCHANGED <<links, blob, up, seen, served, sweeping>>

LiveMembers(b) == {f \in Members(b) : row[f] = "live"}

(* archiveBatchMembers *)
ArchiveMembers(d) ==
  LET S == LiveMembers(LinkWanted(d)) IN
  /\ at[d] = "members"
  /\ SetRows(S, "archived")
  /\ at' = [at EXCEPT ![d] = "ended"]
  /\ \/ todo' = [todo EXCEPT ![d] = S]
     \/ May("lostAck") /\ UNCHANGED todo
  /\ UNCHANGED <<links, blob, up, seen, served, sweeping>>

(* Nothing left to archive; or the statement fails, as it does when the
   downloader hangs up: these run on the request's context.               *)
EndRead(d) ==
  /\ \/ at[d] = "archive" /\ row[LinkWanted(d)] # "live"
     \/ at[d] \in {"linked", "loaded", "archive"} /\ May("error")
     \/ at[d] = "members" /\ May("cut")
  /\ at' = [at EXCEPT ![d] = "ended"]
  /\ UNCHANGED <<row, links, blob, up, seen, served, sweeping, todo>>

-----------------------------------------------------------------------------
(* Deletes *)

Stored(f) == row[f] \in {"live", "archived"}

(* Mutant: the blobs are unlinked even when the DELETE failed. *)
DeleteBlobsAnyway(o, S) ==
  /\ todo[o] = {}
  /\ S # {} /\ \A f \in S : Stored(f)
  /\ \/ SetRows(S, "gone") /\ old' = old \ S
     \/ May("error") /\ UNCHANGED <<row, old>>
  /\ todo' = [todo EXCEPT ![o] = S]
  /\ UNCHANGED <<count, dead, blob, up, reading, sweeping>>

(* Mutant: the names are looked up when the rows are gone. *)
DeleteThenLookUp(o, S) ==
  /\ todo[o] = {}
  /\ S # {} /\ \A f \in S : Stored(f)
  /\ SetRows(S, "gone")
  /\ old' = old \ S
  /\ UNCHANGED <<count, dead, blob, up, reading, sweeping, todo>>

(* handleDelete and handleBulkDelete: the rows first, in one statement, then
   their blobs.                                                            *)
Delete(o, S) ==
  /\ todo[o] = {}
  /\ S # {} /\ \A f \in S : Stored(f)
  /\ SetRows(S, "gone")
  /\ \/ todo' = [todo EXCEPT ![o] = S]
     \/ May("lostAck") /\ UNCHANGED todo
  /\ old' = old \ S
  /\ UNCHANGED <<count, dead, blob, up, reading, sweeping>>

(* removeBlob, removeBlobs: one os.Remove, a missing file being no error. *)
Unlink(p, f) ==
  /\ f \in todo[p]
  /\ blob' = blob \ {f}
  /\ todo' = [todo EXCEPT ![p] = @ \ {f}]
  /\ UNCHANGED <<row, links, up, reading, sweeping>>

-----------------------------------------------------------------------------
(* The sweeper: one statement after the other, unlinking in between *)

Sweeping(stage) == sweep = stage /\ todo[Sweeper] = {}

(* The names a statement returned are unlinked next; if its answer is lost,
   so are they.                                                            *)
Collect(S) == \/ todo' = [todo EXCEPT ![Sweeper] = S]
              \/ May("lostAck") /\ UNCHANGED todo

(* Mutant: only what has expired is swept, not what is used up. *)
SweepExpiredOnly ==
  LET S == {f \in Files : row[f] = "live" /\ f \in dead} IN
  /\ Sweeping("files")
  /\ SetRows(S, "archived")
  /\ todo' = [todo EXCEPT ![Sweeper] = S]
  /\ sweep' = "purgeFiles"
  /\ UNCHANGED <<links, blob, up, reading, due>>

(* sweepExpiredFiles, stage 1 *)
SweepFiles ==
  LET S == {f \in Files : row[f] = "live" /\ Over(f)} IN
  /\ Sweeping("files")
  /\ SetRows(S, "archived")
  /\ \/ todo' = [todo EXCEPT ![Sweeper] = S] /\ sweep' = "purgeFiles"
     \/ May("lostAck") /\ UNCHANGED todo /\ sweep' = "batches"
  /\ UNCHANGED <<links, blob, up, reading, due>>

(* Mutant: what is purged is chosen by its expiry. *)
PurgeExpiredOnly ==
  LET S == {f \in Files : row[f] = "archived" /\ f \in old /\ f \in dead} IN
  /\ Sweeping("purgeFiles")
  /\ SetRows(S, "gone")
  /\ old' = old \ S
  /\ Collect(S)
  /\ sweep' = "batches"
  /\ UNCHANGED <<count, dead, blob, up, reading, due>>

(* sweepExpiredFiles, stage 2 *)
PurgeFiles ==
  LET S == {f \in Files : row[f] = "archived" /\ f \in old} IN
  /\ Sweeping("purgeFiles")
  /\ SetRows(S, "gone")
  /\ old' = old \ S
  /\ Collect(S)
  /\ sweep' = "batches"
  /\ UNCHANGED <<count, dead, blob, up, reading, due>>

(* sweepExpiredBatches, stage 1 *)
SweepBatches ==
  LET S == {b \in Batches : row[b] = "live" /\ Over(b)} IN
  /\ Sweeping("batches")
  /\ SetRows(S, "archived")
  /\ \/ due' = S /\ sweep' = "members"
     \/ May("lostAck") /\ UNCHANGED due /\ sweep' = "files"
  /\ UNCHANGED <<links, blob, up, reading, todo>>

(* Mutant: the members are archived and their blobs forgotten. *)
SweepMemberRowsOnly(b) ==
  /\ Sweeping("members")
  /\ b \in due
  /\ SetRows(LiveMembers(b), "archived")
  /\ due' = due \ {b}
  /\ UNCHANGED <<links, blob, up, reading, sweep, todo>>

(* archiveBatchMembers, for one of them *)
SweepMembers(b) ==
  /\ Sweeping("members")
  /\ b \in due
  /\ SetRows(LiveMembers(b), "archived")
  /\ Collect(LiveMembers(b))
  /\ due' = due \ {b}
  /\ UNCHANGED <<links, blob, up, reading, sweep>>

(* Mutant: an archived batch is purged without waiting out its retention. *)
PurgeBatchesAtOnce ==
  LET S == {b \in Batches : row[b] = "archived"}
      C == {f \in Files : BatchOf[f] \in S /\ Stored(f)} IN
  /\ Sweeping("members")
  /\ due = {}
  /\ SetRows(S \cup C, "gone")
  /\ old' = old \ (S \cup C)
  /\ sweep' = "files"
  /\ UNCHANGED <<count, dead, blob, up, reading, due, todo>>

(* sweepExpiredBatches, stage 2: member rows cascade away with the batch. *)
PurgeBatches ==
  LET S == {b \in Batches : row[b] = "archived" /\ b \in old}
      C == {f \in Files : BatchOf[f] \in S /\ Stored(f)} IN
  /\ Sweeping("members")
  /\ due = {}
  /\ SetRows(S \cup C, "gone")
  /\ old' = old \ (S \cup C)
  /\ sweep' = "files"
  /\ UNCHANGED <<count, dead, blob, up, reading, due, todo>>

(* A statement fails: sweepExpiredFiles and sweepExpiredBatches give up their
   remaining statements for this minute, archiveBatchMembers only its batch. *)
SweepFails ==
  /\ todo[Sweeper] = {}
  /\ \/ /\ May("error")
        /\ due = {}
        /\ sweep' = IF sweep \in {"files", "purgeFiles"} THEN "batches" ELSE "files"
        /\ UNCHANGED due
     \/ /\ May("cut")
        /\ \E b \in due : due' = due \ {b}
        /\ UNCHANGED sweep
  /\ UNCHANGED <<row, links, blob, up, reading, todo>>

-----------------------------------------------------------------------------
(* Time and crashes *)

(* Mutant: a member is given the expiry of its batch. *)
ExpireMembersToo(t) ==
  /\ row[t] = "live"
  /\ dead' = dead \cup {t}
  /\ UNCHANGED <<row, count, old, blob, up, reading, sweeping, todo>>

(* expires_at passes; a member has none of its own. *)
Expire(t) ==
  /\ t \in Expires
  /\ row[t] = "live"
  /\ t \notin dead
  /\ dead' = dead \cup {t}
  /\ UNCHANGED <<row, count, old, blob, up, reading, sweeping, todo>>

(* Requests and sweeps that have not finished with a share. *)
InFlight(t) ==
  LET mine == {t} \cup {f \in Files : BatchOf[f] = t} IN
  \/ \E f \in Files \cap mine : up[f] \in {"write", "insert", "undo"}
  \/ \E d \in Readers : LinkWanted(d) = t /\ at[d] \notin {"new", "ended"}
  \/ \E p \in Procs : todo[p] \cap mine # {}
  \/ t \in due

(* archiveRetention passes: thirty days, longer than any request runs.  A
   member is archived after its batch.                                      *)
Age(t) ==
  /\ row[t] = "archived"
  /\ t \notin old
  /\ ~InFlight(t)
  /\ t \in Files \ Singles => BatchOf[t] \in old
  /\ old' = old \cup {t}
  /\ UNCHANGED <<row, count, dead, blob, up, reading, sweeping, todo>>

(* The server dies and comes back: rows and blobs are all that survives. *)
Crash ==
  /\ May("crash")
  /\ up' = [f \in Files |-> IF up[f] \in {"write", "insert", "undo"} THEN "failed" ELSE up[f]]
  /\ at' = [d \in Readers |-> IF at[d] = "new" THEN "new" ELSE "ended"]
  /\ sweep' = "files"
  /\ due' = {}
  /\ todo' = [p \in Procs |-> {}]
  /\ UNCHANGED <<row, links, blob, seen, served>>

-----------------------------------------------------------------------------
Upload(f) == Begin(f) \/ WriteBlob(f) \/ Insert(f) \/ InsertFails(f) \/ RemoveOwn(f)

Download(d) ==
  \/ Load(d) \/ FindMember(d) \/ Consume(d) \/ Open(d) \/ Finish(d)
  \/ Archive(d) \/ ArchiveMembers(d) \/ EndRead(d)

Sweep ==
  \/ SweepFiles \/ PurgeFiles \/ SweepBatches \/ PurgeBatches
  \/ \E b \in Batches : SweepMembers(b)

Next ==
  \/ \E b \in Batches : CreateBatch(b)
  \/ \E f \in Files : Upload(f)
  \/ \E d \in Readers : Download(d)
  \/ \E o \in Owners, S \in SUBSET Files : Delete(o, S)
  \/ \E p \in Procs, f \in Files : Unlink(p, f)
  \/ Sweep \/ SweepFails
  \/ \E t \in Things : Expire(t) \/ Age(t)
  \/ Crash

(* Requests that run go on, the sweeper's ticker fires every minute and its
   statements do not fail for ever, and thirty days pass.                   *)
Fairness ==
  /\ \A f \in Files : WF_vars(Upload(f))
  /\ \A d \in Readers : WF_vars(Download(d))
  /\ \A p \in Procs : WF_vars(\E f \in Files : Unlink(p, f))
  /\ SF_vars(SweepFiles) /\ SF_vars(PurgeFiles) /\ SF_vars(SweepBatches) /\ SF_vars(PurgeBatches)
  /\ \A b \in Batches : WF_vars(SweepMembers(b))
  /\ \A t \in Things : WF_vars(Age(t))

Spec == Init /\ [][Next]_vars
SharedSpec == InitShared /\ [][Next]_vars /\ Fairness

-----------------------------------------------------------------------------
(* Properties *)

(* However many downloads race, no link hands out more blobs than its limit
   (consumeDownload and consumeBatchDownload count before they open).       *)
ServedWithinLimit == \A l \in Shares : Limited(l) => served[l] <= MaxDownloads[l]

(* A file whose upload was confirmed can be downloaded for as long as it is
   listed: whoever unlinks a blob has first made sure that its row is archived
   or gone (handleBulkDelete: 'a blob removed for a DELETE that then failed
   would leave a listed file that cannot be downloaded').  An upload that was
   told it failed although its INSERT was committed is the exception: it
   removes its own blob and leaves the row.                                 *)
LiveHasBlob == \A f \in Files : row[f] = "live" /\ up[f] = "done" => f \in blob

(* Nothing is archived early, although the download that archives decides by
   a count it loaded before it streamed the file: a share goes only when it
   has expired or is used up, a member only with its batch.                 *)
ArchivedIsOver ==
  \A t \in Things :
    row[t] = "archived" =>
      IF t \in Shares THEN Over(t) ELSE row[BatchOf[t]] = "archived"

(* An expired or used-up link is retired, by its last download or, when that
   stopped half-way or two of them raced, by the sweeper.                   *)
SharesRetire == \A l \in Shares : (row[l] = "live" /\ Over(l)) ~> row[l] # "live"

(* The ciphertext of a single share whose row was archived or deleted is
   removed from the disk.                                                  *)
BlobsCollected ==
  \A f \in Singles : (f \in blob /\ row[f] \in {"archived", "gone"}) ~> f \notin blob

(* What has been archived is purged for good in the end. *)
ArchivedPurged == \A t \in Things : row[t] = "archived" ~> row[t] = "gone"

(* sweeper.go on purging a batch: 'cascades its member file rows away; their
   blobs went at archive time'.                                             *)
PurgedBlobsGone ==
  [][\A f \in Files \ Singles :
       row[BatchOf[f]] = "archived" /\ row'[BatchOf[f]] = "gone" /\ row[f] # "none"
         => f \notin blob]_vars

(* README: 'A link that expires or exhausts its downloads is archived
   immediately: the blob is deleted', and 'Batches follow the same two stages':
   what is on disk for an archived batch is removed.                        *)
MembersFollow ==
  \A f \in Files \ Singles :
    (row[BatchOf[f]] = "archived" /\ f \in blob) ~> f \notin blob

(* Every share, single or batch, keeps the promise of ShareLink. *)
LinkState(l) ==
  IF row[l] = "none" THEN "unborn" ELSE IF row[l] = "live" THEN "open" ELSE "closed"

Link == INSTANCE ShareLink WITH
  Links <- Shares,
  Withdrawable <- Singles,
  Limit <- MaxDownloads,
  state <- [l \in Shares |-> LinkState(l)],
  fetched <- [l \in Shares |-> count[l]],
  expired <- dead

ImplementsLink == Link!Spec

-----------------------------------------------------------------------------
(* Why it works: the inductive invariant behind the safety properties *)

(* A file has no row before its INSERT. *)
RowInv == \A f \in Files : up[f] \in {"new", "write", "insert"} => row[f] = "none"

(* The count a download loaded is a lower bound of the count now, and its own
   slot comes on top: if that makes the last slot, the share is used up.      *)
SlotInv ==
  \A d \in Readers :
    LET l == LinkWanted(d) IN
    /\ at[d] \in {"linked", "loaded"} => seen[d] <= count[l]
    /\ at[d] \in {"paid", "serving"} => seen[d] < count[l]
    /\ at[d] \in {"archive", "members"} => Spent(l)
    /\ at[d] = "members" => row[l] \in {"archived", "gone"}

(* A member never outlives its batch, in either sense. *)
MemberInv ==
  /\ \A f \in Files \ Singles :
       /\ row[f] \in {"live", "archived"} => row[BatchOf[f]] \in {"live", "archived"}
       /\ up[f] \in {"write", "insert"} => row[BatchOf[f]] # "none"
  /\ \A b \in due : row[b] \in {"archived", "gone"}

(* Slots that are counted and not yet served. *)
Paid(l) == {d \in Readers : at[d] = "paid" /\ LinkWanted(d) = l}

CountInv ==
  \A l \in Shares :
    /\ served[l] + Cardinality(Paid(l)) <= count[l]
    /\ Limited(l) => count[l] <= MaxDownloads[l]

(* Blobs are written before and unlinked after. *)
BlobInv ==
  /\ \A p \in Procs : \A f \in todo[p] : row[f] \in {"archived", "gone"}
  /\ \A f \in Files :
       /\ up[f] = "insert" => f \in blob
       /\ row[f] = "live" /\ up[f] = "done" => f \in blob

IInv ==
  /\ TypeOK /\ RowInv /\ SlotInv /\ MemberInv /\ ArchivedIsOver /\ CountInv /\ BlobInv

-----------------------------------------------------------------------------
(* What becomes of the blob of a member, whatever goes wrong *)

(* A process has archived this batch and has yet to archive its members. *)
Awaited(b) == b \in due \/ \E d \in Readers : at[d] = "members" /\ LinkWanted(d) = b
Listed(f) == \E p \in Procs : f \in todo[p]

(* The steps that forget the blob of a member.  Its upload ends after its
   batch was archived.                                                     *)
ArrivesLate(f) ==
  row[f] = "none" /\ row'[f] = "live" /\ row[BatchOf[f]] = "archived"

(* Its batch is archived and nobody is told, or whoever was going to archive
   the members gives up or dies (archiveBatch, sweepExpiredBatches).         *)
LeftLive(f) ==
  /\ row[f] = "live" /\ row'[f] = "live" /\ row'[BatchOf[f]] = "archived"
  /\ row[BatchOf[f]] = "live" \/ Awaited(BatchOf[f])
  /\ ~Awaited(BatchOf[f])'

(* It is archived or deleted and nobody is told its name; its batch stays. *)
NameLost(f) ==
  /\ row[f] = "live" /\ row'[f] # "live" /\ row'[BatchOf[f]] = row[BatchOf[f]]
  /\ ~Listed(f)'

(* The process that was going to unlink it dies. *)
ListLost(f) == Listed(f) /\ f \in blob' /\ ~Listed(f)'

Forgotten(f) == ArrivesLate(f) \/ LeftLive(f) \/ NameLost(f) \/ ListLost(f)

(* Nothing else does: a member that none of this befell is in store only as
   long as somebody has yet to archive or to unlink it, and thirty days
   after its batch was archived it is not.                                 *)
KeptInv(f) ==
  LET b == BatchOf[f] IN
  /\ f \in blob /\ row[f] # "none" =>
       \/ row[f] = "live" /\ (row[b] = "live" \/ Awaited(b))
       \/ Listed(f)
  /\ b \in old =>
       /\ row[b] = "archived"
       /\ up[f] \notin {"write", "insert", "undo"}
       /\ f \in blob => row[f] = "none"

(* A request that has not ended has nothing to unlink yet, and the sweeper no
   batch at hand before it has archived one.                                 *)
TidyInv ==
  /\ \A d \in Readers : at[d] # "ended" => todo[d] = {}
  /\ due # {} => sweep = "members"
=============================================================================
