----------------------------- MODULE DropLifecycle -----------------------------
(***************************************************************************)
(* The life of an upload link: a drop, the submissions its senders open,   *)
(* the files they send and the blobs of those files.  Senders pass a gate  *)
(* that is read once and then take their time; the owner closes the link   *)
(* or deletes it in two statements; an admin deletes the owner; every      *)
(* minute the sweeper runs through sweepExpiredFiles, sweepExpiredBatches  *)
(* and sweepExpiredDrops, which overlap, and a statement that fails ends   *)
(* one of the three for that minute.  Rows cascade: a drop takes its       *)
(* submissions with it and a submission its files.                         *)
(*                                                                         *)
(* How many bytes, files and submissions fit is UploadQuota's question.    *)
(* Lost answers and crashes are modelled in ShareLifecycle and not again   *)
(* here.                                                                   *)
(***************************************************************************)
EXTENDS Naturals, FiniteSets

CONSTANTS
  Drops,        \* upload links
  Submissions,  \* batches senders may open on them
  Files,        \* files they may send
  DropOf,       \* submission -> its drop
  Into,         \* file -> its submission
  Expiring,     \* drops with an expires_at, which their submissions copy
  Deleters,     \* delete requests of owners (two clicks are two requests)
  Target,       \* delete request -> the drop it is for
  Removable,    \* drops whose owner's account an admin may delete
  MaxFails      \* statements of the sweeper that fail before it is left alone

Things == Drops \cup Submissions \cup Files
DropFor(f) == DropOf[Into[f]]
Under(d) == {s \in Submissions : DropOf[s] = d}
SentTo(d) == {f \in Files : DropFor(f) = d}
Inside(s) == {f \in Files : Into[f] = s}

ASSUME DropAssumption ==
  /\ Drops \cap Submissions = {} /\ Drops \cap Files = {} /\ Submissions \cap Files = {}
  /\ DropOf \in [Submissions -> Drops]
  /\ Into \in [Files -> Submissions]
  /\ Expiring \subseteq Drops
  /\ Target \in [Deleters -> Drops]
  /\ Removable \subseteq Drops
  /\ MaxFails \in Nat

VARIABLES
  row,      \* drop, submission or file -> its row
  closed,   \* drops with closed_at set
  dead,     \* drops whose expires_at has passed
  old,      \* things archived archiveRetention ago
  blob,     \* files whose ciphertext is on disk
  gate,     \* submission -> where the request that opens it is
  up,       \* file -> where its upload is
  names,    \* delete request -> stored names its first statement returned
  at,       \* delete request -> where it is
  sweep,    \* the sweeper's next statement
  due,      \* submissions it has archived and whose files it has yet to archive
  todo,     \* blobs the sweeper has yet to unlink
  fails     \* statements of the sweeper that have failed

vars == <<row, closed, dead, old, blob, gate, up, names, at, sweep, due, todo, fails>>
link == <<closed, dead>>
sending == <<gate, up>>
deleting == <<names, at>>
sweeping == <<sweep, due, todo, fails>>

(* A deleted row and a purged one leave the same nothing in the database; they
   are told apart by who removed them.                                        *)
Rows == {"none", "live", "archived", "deleted", "purged"}
Removed == {"deleted", "purged"}
GatePhases == {"new", "passed", "opened", "refused"}
UploadPhases == {"new", "write", "insert", "undo", "done", "failed"}
DeletePhases == {"new", "files", "unlink", "ended"}
SweepPhases == {"purgeFiles", "subs", "members", "purgeSubs",
                "files", "batches", "drops", "purgeDrops"}

TypeOK ==
  /\ row \in [Things -> Rows]
  /\ closed \subseteq Drops
  /\ dead \subseteq Expiring
  /\ old \subseteq Things
  /\ blob \subseteq Files
  /\ gate \in [Submissions -> GatePhases]
  /\ up \in [Files -> UploadPhases]
  /\ names \in [Deleters -> SUBSET Files]
  /\ at \in [Deleters -> DeletePhases]
  /\ sweep \in SweepPhases
  /\ due \subseteq Submissions
  /\ todo \subseteq Files
  /\ fails \in 0..MaxFails

Init ==
  /\ row = [t \in Things |-> "none"]
  /\ closed = {}
  /\ dead = {}
  /\ old = {}
  /\ blob = {}
  /\ gate = [s \in Submissions |-> "new"]
  /\ up = [f \in Files |-> "new"]
  /\ names = [o \in Deleters |-> {}]
  /\ at = [o \in Deleters |-> "new"]
  /\ sweep = "purgeFiles"
  /\ due = {}
  /\ todo = {}
  /\ fails = 0

Exists(t) == row[t] \in {"live", "archived"}
Live(S) == {t \in S : row[t] = "live"}
SetRows(S, to) == row' = [t \in Things |-> IF t \in S THEN to ELSE row[t]]

-----------------------------------------------------------------------------
(* Senders *)

(* handleCreateDrop *)
CreateDrop(d) ==
  /\ row[d] = "none"
  /\ SetRows({d}, "live")
  /\ UNCHANGED <<link, old, blob, sending, deleting, sweeping>>

(* dropMeta.open, on the row that loadDropByPublicID read at the start. *)
Open(d) == row[d] = "live" /\ d \notin closed \cup dead

AskSubmission(s) ==
  /\ gate[s] = "new"
  /\ row[DropOf[s]] # "none"
  /\ gate' = [gate EXCEPT ![s] = IF Open(DropOf[s]) THEN "passed" ELSE "refused"]
  /\ UNCHANGED <<row, link, old, blob, up, deleting, sweeping>>

(* The INSERT of handleOpenSubmission: drop_id is a foreign key and nothing
   else of the drop is looked at again.                                     *)
OpenSubmission(s) ==
  /\ gate[s] = "passed"
  /\ Exists(DropOf[s])
  /\ SetRows({s}, "live")
  /\ gate' = [gate EXCEPT ![s] = "opened"]
  /\ UNCHANGED <<link, old, blob, up, deleting, sweeping>>

RefuseSubmission(s) ==
  /\ gate[s] = "passed"
  /\ gate' = [gate EXCEPT ![s] = "refused"]
  /\ UNCHANGED <<row, link, old, blob, up, deleting, sweeping>>

(* handleDropUpload: the drop is open and loadSubmission finds the submission. *)
Begin(f) ==
  /\ up[f] = "new"
  /\ gate[Into[f]] = "opened"
  /\ up' = [up EXCEPT ![f] =
       IF Open(DropFor(f)) /\ row[Into[f]] = "live" THEN "write" ELSE "failed"]
  /\ UNCHANGED <<row, link, old, blob, gate, deleting, sweeping>>

WriteBlob(f) ==
  /\ up[f] = "write"
  /\ blob' = blob \cup {f}
  /\ up' = [up EXCEPT ![f] = "insert"]
  /\ UNCHANGED <<row, link, old, gate, deleting, sweeping>>

(* The INSERT of finalizeUpload; batch_id is a foreign key. *)
Insert(f) ==
  /\ up[f] = "insert"
  /\ Exists(Into[f])
  /\ SetRows({f}, "live")
  /\ up' = [up EXCEPT ![f] = "done"]
  /\ UNCHANGED <<link, old, blob, gate, deleting, sweeping>>

(* The submission is gone, a limit is reached, a statement fails. *)
InsertFails(f) ==
  /\ up[f] = "insert"
  /\ up' = [up EXCEPT ![f] = "undo"]
  /\ UNCHANGED <<row, link, old, blob, gate, deleting, sweeping>>

(* os.Remove(dstPath) *)
RemoveOwn(f) ==
  /\ up[f] = "undo"
  /\ blob' = blob \ {f}
  /\ up' = [up EXCEPT ![f] = "failed"]
  /\ UNCHANGED <<row, link, old, gate, deleting, sweeping>>

-----------------------------------------------------------------------------
(* Owners and admins *)

(* Mutant: the submissions are closed instead. *)
CloseSubmissions(d) ==
  /\ Exists(d)
  /\ d \notin closed
  /\ closed' = closed \cup Under(d)
  /\ UNCHANGED <<row, dead, old, blob, sending, deleting, sweeping>>

(* POST /drops/{id}/close, and closeDropIfFull after the last file that fits. *)
Close(d) ==
  /\ Exists(d)
  /\ d \notin closed
  /\ closed' = closed \cup {d}
  /\ UNCHANGED <<row, dead, old, blob, sending, deleting, sweeping>>

(* POST /drops/{id}/delete, first statement: the rows of the files, whose
   names it returns.                                                       *)
DeleteFiles(o) ==
  LET S == {f \in SentTo(Target[o]) : Exists(f)} IN
  /\ at[o] = "new"
  /\ Exists(Target[o])
  /\ SetRows(S, "deleted")
  /\ old' = old \ S
  /\ names' = [names EXCEPT ![o] = S]
  /\ at' = [at EXCEPT ![o] = "files"]
  /\ UNCHANGED <<link, blob, sending, sweeping>>

(* The drop, its submissions and the files they still have. *)
Cascade(D) ==
  {t \in Things :
     /\ Exists(t)
     /\ \/ t \in D
        \/ \E d \in D : t \in Under(d) \cup SentTo(d)}

(* ... second statement: the row of the drop.  Nobody's drop is a 404, before
   any blob is removed.                                                      *)
DeleteDrop(o) ==
  LET C == Cascade({Target[o]}) IN
  /\ at[o] = "files"
  /\ IF Exists(Target[o])
       THEN /\ SetRows(C, "deleted")
            /\ old' = old \ C
            /\ at' = [at EXCEPT ![o] = "unlink"]
            /\ UNCHANGED names
       ELSE /\ at' = [at EXCEPT ![o] = "ended"]
            /\ names' = [names EXCEPT ![o] = {}]
            /\ UNCHANGED <<row, old>>
  /\ UNCHANGED <<link, blob, sending, sweeping>>

(* ... and removeBlobs. *)
DeleteBlob(o, f) ==
  /\ at[o] = "unlink"
  /\ f \in names[o]
  /\ blob' = blob \ {f}
  /\ names' = [names EXCEPT ![o] = @ \ {f}]
  /\ UNCHANGED <<row, link, old, sending, at, sweeping>>

(* handleAdminDeleteUser: drops cascade from their owner's row. *)
DeleteOwner(d) ==
  LET C == Cascade({d}) IN
  /\ d \in Removable
  /\ Exists(d)
  /\ SetRows(C, "deleted")
  /\ old' = old \ C
  /\ UNCHANGED <<link, blob, sending, deleting, sweeping>>

-----------------------------------------------------------------------------
(* The sweeper *)

Sweeping(stage) == sweep = stage /\ todo = {}

(* Stage 2 of sweepExpiredFiles.  Its stage 1 concerns no file of a drop:
   they have neither an expiry nor a download limit.                       *)
PurgeFiles ==
  LET S == {f \in Files : row[f] = "archived" /\ f \in old} IN
  /\ Sweeping("purgeFiles")
  /\ SetRows(S, "purged")
  /\ old' = old \ S
  /\ todo' = S
  /\ sweep' = "subs"
  /\ UNCHANGED <<link, blob, sending, deleting, due, fails>>

(* sweepExpiredBatches, stage 1: a submission expires with its drop. *)
SweepSubmissions ==
  LET S == Live({s \in Submissions : DropOf[s] \in dead}) IN
  /\ Sweeping("subs")
  /\ SetRows(S, "archived")
  /\ due' = S
  /\ sweep' = "members"
  /\ UNCHANGED <<link, old, blob, sending, deleting, todo, fails>>

(* archiveBatchMembers *)
SweepMembers(s) ==
  LET S == Live(Inside(s)) IN
  /\ Sweeping("members")
  /\ s \in due
  /\ SetRows(S, "archived")
  /\ todo' = S
  /\ due' = due \ {s}
  /\ UNCHANGED <<link, old, blob, sending, deleting, sweep, fails>>

(* sweepExpiredBatches, stage 2 *)
PurgeSubmissions ==
  LET S == {s \in Submissions : row[s] = "archived" /\ s \in old}
      C == S \cup {f \in Files : Into[f] \in S /\ Exists(f)} IN
  /\ Sweeping("members")
  /\ due = {}
  /\ SetRows(C, "purged")
  /\ old' = old \ C
  /\ sweep' = "files"
  /\ UNCHANGED <<link, blob, sending, deleting, due, todo, fails>>

(* Mutant: a drop that is not open any more is swept. *)
NotOpen(d) == Exists(d) /\ d \in dead \cup closed

Expired(d) == Exists(d) /\ d \in dead

(* Mutant: the names are selected first, whether or not the UPDATE succeeds. *)
SweepFilesSelectFirst ==
  LET S == Live({f \in Files : Expired(DropFor(f))}) IN
  /\ Sweeping("files")
  /\ \/ SetRows(S, "archived") /\ UNCHANGED fails
     \/ fails < MaxFails /\ fails' = fails + 1 /\ UNCHANGED row
  /\ todo' = S
  /\ sweep' = "batches"
  /\ UNCHANGED <<link, old, blob, sending, deleting, due>>

(* Mutant: what arrives after its drop was archived is passed over. *)
SweepFilesOnce ==
  LET S == Live({f \in Files : row[DropFor(f)] = "live" /\ DropFor(f) \in dead}) IN
  /\ Sweeping("files")
  /\ SetRows(S, "archived")
  /\ todo' = S
  /\ sweep' = "batches"
  /\ UNCHANGED <<link, old, blob, sending, deleting, due, fails>>

(* sweepExpiredDrops, first statement: every minute again, so that it also
   finds what arrived since.                                               *)
SweepFiles ==
  LET S == Live({f \in Files : Expired(DropFor(f))}) IN
  /\ Sweeping("files")
  /\ SetRows(S, "archived")
  /\ todo' = S
  /\ sweep' = "batches"
  /\ UNCHANGED <<link, old, blob, sending, deleting, due, fails>>

(* ... second *)
SweepBatches ==
  /\ Sweeping("batches")
  /\ SetRows(Live({s \in Submissions : Expired(DropOf[s])}), "archived")
  /\ sweep' = "drops"
  /\ UNCHANGED <<link, old, blob, sending, deleting, due, todo, fails>>

(* Mutant: closed drops are passed over. *)
SweepOpenDrops ==
  /\ Sweeping("drops")
  /\ SetRows(Live({d \in Drops : Expired(d) /\ d \notin closed}), "archived")
  /\ sweep' = "purgeDrops"
  /\ UNCHANGED <<link, old, blob, sending, deleting, due, todo, fails>>

(* ... third *)
SweepDrops ==
  /\ Sweeping("drops")
  /\ SetRows(Live({d \in Drops : Expired(d)}), "archived")
  /\ sweep' = "purgeDrops"
  /\ UNCHANGED <<link, old, blob, sending, deleting, due, todo, fails>>

(* ... and fourth: the purge, which cascades. *)
PurgeDrops ==
  LET C == Cascade({d \in Drops : row[d] = "archived" /\ d \in old}) IN
  /\ Sweeping("purgeDrops")
  /\ SetRows(C, "purged")
  /\ old' = old \ C
  /\ sweep' = "purgeFiles"
  /\ UNCHANGED <<link, blob, sending, deleting, due, todo, fails>>

(* os.Remove, one name after the other. *)
Unlink(f) ==
  /\ f \in todo
  /\ blob' = blob \ {f}
  /\ todo' = todo \ {f}
  /\ UNCHANGED <<row, link, old, sending, deleting, sweep, due, fails>>

(* A statement fails and with it the rest of its function, for this minute;
   archiveBatchMembers only gives up its submission.                        *)
SweepFails ==
  /\ fails < MaxFails
  /\ fails' = fails + 1
  /\ todo = {}
  /\ \/ /\ due = {}
        /\ sweep' = CASE sweep = "purgeFiles" -> "subs"
                      [] sweep \in {"subs", "members"} -> "files"
                      [] OTHER -> "purgeFiles"
        /\ UNCHANGED due
     \/ /\ \E s \in due : due' = due \ {s}
        /\ UNCHANGED sweep
  /\ UNCHANGED <<row, link, old, blob, sending, deleting, todo>>

-----------------------------------------------------------------------------
(* Time *)

(* expires_at passes, for the drop and its submissions at once. *)
Expire(d) ==
  /\ d \in Expiring
  /\ Exists(d)
  /\ d \notin dead
  /\ dead' = dead \cup {d}
  /\ UNCHANGED <<row, closed, old, blob, sending, deleting, sweeping>>

DropOfThing(t) ==
  CASE t \in Drops -> t
    [] t \in Submissions -> DropOf[t]
    [] OTHER -> DropFor(t)

(* archiveRetention passes.  Thirty days are longer than any request runs and
   hold a sweep that gets through: no sender is still at work and nothing that
   has expired is still live.                                                *)
Settled(d) ==
  /\ \A s \in Under(d) : gate[s] # "passed" /\ s \notin due
  /\ \A f \in SentTo(d) : up[f] \notin {"write", "insert", "undo"} /\ f \notin todo
  /\ \A o \in Deleters : Target[o] = d => at[o] \in {"new", "ended"} \/ names[o] = {}
  /\ Live(Under(d) \cup SentTo(d)) = {}

Age(t) ==
  /\ row[t] = "archived"
  /\ t \notin old
  /\ Settled(DropOfThing(t))
  /\ old' = old \cup {t}
  /\ UNCHANGED <<row, link, blob, sending, deleting, sweeping>>

-----------------------------------------------------------------------------
Send(f) == Begin(f) \/ WriteBlob(f) \/ Insert(f) \/ InsertFails(f) \/ RemoveOwn(f)

Visit(s) == AskSubmission(s) \/ OpenSubmission(s) \/ RefuseSubmission(s)

Delete(o) == DeleteFiles(o) \/ DeleteDrop(o) \/ \E f \in Files : DeleteBlob(o, f)

Sweep ==
  \/ PurgeFiles \/ SweepSubmissions \/ PurgeSubmissions
  \/ \E s \in Submissions : SweepMembers(s)
  \/ SweepFiles \/ SweepBatches \/ SweepDrops \/ PurgeDrops
  \/ \E f \in Files : Unlink(f)
  \/ SweepFails

Next ==
  \/ \E d \in Drops : CreateDrop(d) \/ Close(d) \/ DeleteOwner(d) \/ Expire(d)
  \/ \E s \in Submissions : Visit(s)
  \/ \E f \in Files : Send(f)
  \/ \E o \in Deleters : Delete(o)
  \/ Sweep
  \/ \E t \in Things : Age(t)

(* Requests that run go on, the sweeper's ticker fires every minute, and
   thirty days pass.                                                        *)
Fairness ==
  /\ \A s \in Submissions : WF_vars(Visit(s))
  /\ \A f \in Files : WF_vars(Send(f))
  /\ \A o \in Deleters : WF_vars(at[o] # "new" /\ Delete(o))
  /\ WF_vars(Sweep)
  /\ \A t \in Things : WF_vars(Age(t))

Spec == Init /\ [][Next]_vars /\ Fairness

-----------------------------------------------------------------------------
(* Properties *)

(* What the owner's inbox lists can be downloaded: handleInboxManifest lists
   the live files of live submissions.                                      *)
InboxHasBlob ==
  \A f \in Files : row[f] = "live" /\ row[Into[f]] = "live" => f \in blob

(* sweeper.go: 'A closed drop is NOT swept.  Closing means "no more files", not
   "delete what you already have"': nothing of a drop is archived or purged
   before its expiry, by any of the sweeper's three functions.               *)
KeptUntilExpiry ==
  [][\A t \in Things :
       row'[t] \in {"archived", "purged"} /\ row'[t] # row[t] => DropOfThing(t) \in dead]_vars

(* An expired drop is emptied: whatever has arrived, even after the sweeper
   had been through, is removed from the disk, unless somebody deletes it.  *)
ExpiredEmptied ==
  \A f \in Files :
    (row[f] \in {"live", "archived"} /\ DropFor(f) \in dead)
      ~> (f \notin blob \/ row[f] = "deleted")

(* ... and purged in the end, rows and all, or deleted. *)
ExpiredPurged == \A d \in Drops : (d \in dead) ~> (row[d] \in Removed)

(* handlers_drops.go: 'Deleting a drop deletes what was sent to it.  The rows
   cascade; the blobs have to be collected first, because nothing else will
   know their names afterwards': the blobs whose names were collected are
   removed.                                                                  *)
DeletedEmptied ==
  \A o \in Deleters, f \in Files : (f \in names[o]) ~> (f \notin blob)

-----------------------------------------------------------------------------
(* Why it works: the inductive invariant behind the safety properties *)

(* What is archived, and what is about to be, belongs to an expired drop. *)
ExpiryInv ==
  /\ \A t \in Things : row[t] = "archived" => DropOfThing(t) \in dead
  /\ \A s \in due : DropOf[s] \in dead

(* A file has no row before its INSERT and its blob as long as it is live;
   what is due to be unlinked is archived or gone.                          *)
BlobInv ==
  /\ \A f \in Files :
       /\ up[f] \in {"new", "write", "insert", "undo"} => row[f] = "none"
       /\ up[f] = "insert" => f \in blob
       /\ row[f] = "live" => f \in blob
  /\ \A f \in todo : row[f] \in {"archived"} \cup Removed
  /\ \A o \in Deleters : \A f \in names[o] : row[f] \in Removed

IInv == TypeOK /\ ExpiryInv /\ BlobInv
=============================================================================
