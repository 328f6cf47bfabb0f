----------------------------- MODULE UploadQuota -----------------------------
(***************************************************************************)
(* The upload protocol of storage.go, storeUpload (handlers.go) and        *)
(* handleOpenSubmission (handlers_drops.go) as far as the limits go: every *)
(* transaction that counts takes the advisory lock quotaLockKey, reads the *)
(* files table and then the reservations table in separate READ COMMITTED  *)
(* statements, decides, and writes.  Every statement sees the rows of its  *)
(* own moment but compares them with NOW(), which is the moment the        *)
(* transaction BEGAN, before it waited for the lock.  What does NOT take   *)
(* the lock runs in between: releasing a reservation, its time running     *)
(* out, the sweeper, files expiring or being archived or deleted, an owner *)
(* closing a drop.                                                         *)
(*                                                                         *)
(* Limits are constant here: what an admin's edit of a limit does to       *)
(* usage that is already there is not this module's question.  Accounts,   *)
(* drops and submissions stay: their deletion and expiry only lets go of   *)
(* rows, and DropLifecycle follows it.                                     *)
(***************************************************************************)
EXTENDS QuotaRules

CONSTANTS
  Slow,     \* uploads whose reservation may come to outlive reservationTTL
  Nobody    \* the advisory lock is free

Actors == Uploads \cup Submissions

ASSUME SlowAssumption == Slow \subseteq Uploads

ASSUME NobodyAssumption == Nobody \notin Actors

VARIABLES
  pc,       \* where each request is (a submission stands for the request that opens it)
  step,     \* the last statement of the request's open transaction, "none" outside one
  lock,     \* holder of the advisory lock
  seen,     \* request -> the rows its transaction's latest reads returned
  now,      \* request -> what NOW() of its transaction makes lapsed and expired
  files,    \* uploads with a files row, archived_at NULL
  expired,  \* those of files whose expires_at has passed
  resv,     \* uploads with a row in upload_reservations
  lapsed,   \* those of resv older than reservationTTL
  opened,   \* submissions with a batches row, archived_at NULL
  closed    \* drops with closed_at set

vars == <<pc, step, lock, seen, now, files, expired, resv, lapsed, opened, closed>>
tx == <<step, lock, seen, now>>
rows == <<files, expired, resv, lapsed, opened, closed>>

Phases == {"new", "reserve", "write", "finalize", "release", "fill",
           "open", "stored", "opened", "failed"}
Ended == {"stored", "opened", "failed"}
Steps == {"none", "started", "begun", "files", "usage",
          "dropBegun", "dropFiles", "dropUsage", "admitted"}

Nothing == [files |-> {}, resv |-> {}]
NoClock == [expired |-> {}, lapsed |-> {}]

(* activeFileWhere, at this moment. *)
Active == files \ expired

(* The reservations every count includes: created_at > NOW() - reservationTTL. *)
Live == resv \ lapsed

TypeOK ==
  /\ pc \in [Actors -> Phases]
  /\ step \in [Actors -> Steps]
  /\ lock \in Actors \cup {Nobody}
  /\ seen \in [Actors -> [files : SUBSET Uploads, resv : SUBSET Uploads]]
  /\ now \in [Actors -> [expired : SUBSET Uploads, lapsed : SUBSET Uploads]]
  /\ files \subseteq Uploads
  /\ expired \subseteq files
  /\ resv \subseteq Uploads
  /\ lapsed \subseteq resv
  /\ opened \subseteq Submissions
  /\ closed \subseteq Drops

Init ==
  /\ pc = [a \in Actors |-> "new"]
  /\ step = [a \in Actors |-> "none"]
  /\ lock = Nobody
  /\ seen = [a \in Actors |-> Nothing]
  /\ now = [a \in Actors |-> NoClock]
  /\ files = {}
  /\ expired = {}
  /\ resv = {}
  /\ lapsed = {}
  /\ opened = {}
  /\ closed = {}

-----------------------------------------------------------------------------
(* Before the first transaction *)

(* dropMeta.open and loadSubmission, read once when the request arrives. *)
GateOpen(a) ==
  IF a \in Submissions
    THEN DropOf[a] \notin closed
    ELSE InDrop(a) => DropFor(a) \notin closed /\ Into[a] \in opened

Arrive(a) ==
  /\ pc[a] = "new"
  /\ GateOpen(a)
  /\ pc' = [pc EXCEPT ![a] = IF a \in Submissions THEN "open" ELSE "reserve"]
  /\ UNCHANGED <<tx, rows>>

(* A closed drop, an unparsable form, too little disk (checkDiskFree). *)
TurnAway(a) ==
  /\ pc[a] = "new"
  /\ pc' = [pc EXCEPT ![a] = "failed"]
  /\ UNCHANGED <<tx, rows>>

-----------------------------------------------------------------------------
(* The counting transaction *)

InTx(a) == step[a] # "none"

(* BEGIN fixes NOW() for the whole transaction. *)
Begin(a) ==
  /\ pc[a] \in {"reserve", "finalize", "open"}
  /\ ~InTx(a)
  /\ now' = [now EXCEPT ![a] = [expired |-> expired, lapsed |-> lapsed]]
  /\ step' = [step EXCEPT ![a] = "started"]
  /\ UNCHANGED <<pc, lock, seen, rows>>

(* Mutant: the count is taken without waiting for the lock. *)
CountUnlocked(a) ==
  /\ step[a] = "started"
  /\ lock' = a
  /\ step' = [step EXCEPT ![a] = IF pc[a] = "open" THEN "dropBegun" ELSE "begun"]
  /\ UNCHANGED <<pc, seen, now, rows>>

(* pg_advisory_xact_lock blocks until the holder's transaction ends. *)
TakeLock(a) ==
  /\ step[a] = "started"
  /\ lock = Nobody
  /\ lock' = a
  /\ step' = [step EXCEPT ![a] = IF pc[a] = "open" THEN "dropBegun" ELSE "begun"]
  /\ UNCHANGED <<pc, seen, now, rows>>

(* Mutant: finalizeUpload counts before it deletes its own reservation. *)
OwnStillThere(a) == {}

(* finalizeUpload deletes its own reservation first, so its transaction no
   longer sees it; everybody else still does until the commit.             *)
OwnDeleted(a) == IF pc[a] = "finalize" THEN {a} ELSE {}

(* loadUsage / loadDropUsage, first statement: the files table. *)
ReadFiles(a) ==
  /\ step[a] \in {"begun", "dropBegun"}
  /\ seen' = [seen EXCEPT ![a].files = files \ now[a].expired]
  /\ step' = [step EXCEPT ![a] = IF @ = "begun" THEN "files" ELSE "dropFiles"]
  /\ UNCHANGED <<pc, lock, now, rows>>

(* loadUsage / loadDropUsage, second statement: the reservations table. *)
ReadReservations(a) ==
  /\ step[a] \in {"files", "dropFiles"}
  /\ seen' = [seen EXCEPT ![a].resv = (resv \ now[a].lapsed) \ OwnDeleted(a)]
  /\ step' = [step EXCEPT ![a] = IF @ = "files" THEN "usage" ELSE "dropUsage"]
  /\ UNCHANGED <<pc, lock, now, rows>>

Incoming(a) == IF pc[a] = "finalize" THEN Size[a] ELSE Booking(a)

(* Mutant: only stored files are counted. *)
OverQuotaStored(a) == QuotaViolation(a, seen[a].files, {}, Incoming(a))

OverQuota(a) == QuotaViolation(a, seen[a].files, seen[a].resv, Incoming(a))

(* The submissions of the drop are counted last; only holders of the lock
   insert them, so the count is the current one.                           *)
OverDrop(a) ==
  IF a \in Submissions
    THEN SubmissionViolation(a, seen[a].files, seen[a].resv, opened)
    ELSE DropViolation(a, seen[a].files, seen[a].resv, Incoming(a))

(* Mutant: the limits of a drop are only checked when the space is reserved. *)
PassQuotaOnce(a) ==
  /\ step[a] = "usage"
  /\ ~OverQuota(a)
  /\ step' = [step EXCEPT ![a] =
       IF InDrop(a) /\ pc[a] = "reserve" THEN "dropBegun" ELSE "admitted"]
  /\ UNCHANGED <<pc, lock, seen, now, rows>>

(* The account and instance limits hold; an upload into a drop counts again
   for the drop.                                                           *)
PassQuota(a) ==
  /\ step[a] = "usage"
  /\ ~OverQuota(a)
  /\ step' = [step EXCEPT ![a] = IF InDrop(a) THEN "dropBegun" ELSE "admitted"]
  /\ UNCHANGED <<pc, lock, seen, now, rows>>

PassDrop(a) ==
  /\ step[a] = "dropUsage"
  /\ ~OverDrop(a)
  /\ step' = [step EXCEPT ![a] = "admitted"]
  /\ UNCHANGED <<pc, lock, seen, now, rows>>

(* Mutant: a session lock (pg_advisory_lock), which outlives the transaction. *)
EndTxLocked(a, next) ==
  /\ step' = [step EXCEPT ![a] = "none"]
  /\ seen' = [seen EXCEPT ![a] = Nothing]
  /\ now' = [now EXCEPT ![a] = NoClock]
  /\ pc' = [pc EXCEPT ![a] = next]
  /\ UNCHANGED lock

(* The end of a transaction, either way, releases the lock. *)
EndTx(a, next) ==
  /\ lock' = IF lock = a THEN Nobody ELSE lock
  /\ step' = [step EXCEPT ![a] = "none"]
  /\ seen' = [seen EXCEPT ![a] = Nothing]
  /\ now' = [now EXCEPT ![a] = NoClock]
  /\ pc' = [pc EXCEPT ![a] = next]

(* A failed finalizeUpload leaves the deferred releaseReservation to run. *)
AfterFailure(a) == IF pc[a] = "finalize" THEN "release" ELSE "failed"

(* errQuotaExceeded or errDropLimit: the request is over a limit. *)
Refuse(a) ==
  /\ \/ step[a] = "usage" /\ OverQuota(a)
     \/ step[a] = "dropUsage" /\ OverDrop(a)
  /\ EndTx(a, AfterFailure(a))
  /\ UNCHANGED rows

(* A statement fails, or the client goes away and cancels the request context. *)
Fail(a) ==
  /\ InTx(a)
  /\ EndTx(a, AfterFailure(a))
  /\ UNCHANGED rows

(* Mutant: the reservation stays beside the file it was for. *)
WrittenTwice(a) ==
  /\ \/ pc[a] = "reserve" /\ resv' = resv \cup {a} /\ UNCHANGED <<files, opened>>
     \/ pc[a] = "finalize" /\ files' = files \cup {a} /\ UNCHANGED <<resv, opened>>
     \/ pc[a] = "open" /\ opened' = opened \cup {a} /\ UNCHANGED <<files, resv>>
  /\ UNCHANGED <<expired, lapsed, closed>>

(* What a committed transaction wrote. *)
Written(a) ==
  \/ /\ pc[a] = "reserve"
     /\ resv' = resv \cup {a}
     /\ UNCHANGED <<files, expired, lapsed, opened, closed>>
  \/ /\ pc[a] = "finalize"
     /\ files' = files \cup {a}
     /\ resv' = resv \ {a}
     /\ lapsed' = lapsed \ {a}
     /\ UNCHANGED <<expired, opened, closed>>
  \/ /\ pc[a] = "open"
     /\ opened' = opened \cup {a}
     /\ UNCHANGED <<files, expired, resv, lapsed, closed>>

AfterCommit(a) ==
  CASE pc[a] = "reserve"  -> "write"
    [] pc[a] = "finalize" -> IF InDrop(a) THEN "fill" ELSE "stored"
    [] pc[a] = "open"     -> "opened"

Commit(a) ==
  /\ step[a] = "admitted"
  /\ Written(a)
  /\ EndTx(a, AfterCommit(a))

(* The commit reaches the database and its acknowledgement does not come
   back: tx.Commit returns an error although the rows are there.           *)
CommitUnacknowledged(a) ==
  /\ step[a] = "admitted"
  /\ Written(a)
  /\ EndTx(a, AfterFailure(a))

-----------------------------------------------------------------------------
(* Between the two transactions, and after them *)

(* Every check of storeUpload passes and the blob is complete on disk.  Of
   those checks the ceiling is the one the limits depend on.               *)
WriteBlob(r) ==
  /\ pc[r] = "write"
  /\ Size[r] <= Ceiling(r)
  /\ pc' = [pc EXCEPT ![r] = "finalize"]
  /\ UNCHANGED <<tx, rows>>

(* A check of storeUpload fails, the disk does, or the client goes away. *)
AbandonBlob(r) ==
  /\ pc[r] = "write"
  /\ pc' = [pc EXCEPT ![r] = "release"]
  /\ UNCHANGED <<tx, rows>>

(* releaseReservation *)
Release(r) ==
  /\ pc[r] = "release"
  /\ resv' = resv \ {r}
  /\ lapsed' = lapsed \ {r}
  /\ pc' = [pc EXCEPT ![r] = "failed"]
  /\ UNCHANGED <<tx, files, expired, opened, closed>>

(* ... which only logs when the database does not answer within its 5 seconds. *)
ReleaseFails(r) ==
  /\ pc[r] = "release"
  /\ pc' = [pc EXCEPT ![r] = "failed"]
  /\ UNCHANGED <<tx, rows>>

(* closeDropIfFull: one statement that counts and closes. *)
Full(d) ==
  /\ Limits[d].MaxFiles > 0
  /\ Cardinality(files \cap SentTo(d)) >= Limits[d].MaxFiles

CloseIfFull(r) ==
  /\ pc[r] = "fill"
  /\ closed' = IF Full(DropFor(r)) THEN closed \cup {DropFor(r)} ELSE closed
  /\ pc' = [pc EXCEPT ![r] = "stored"]
  /\ UNCHANGED <<tx, files, expired, resv, lapsed, opened>>

(* ... and which only logs when it fails. *)
CloseFails(r) ==
  /\ pc[r] = "fill"
  /\ pc' = [pc EXCEPT ![r] = "stored"]
  /\ UNCHANGED <<tx, rows>>

(* The process or its connection dies: an open transaction rolls back, the
   lock goes with it, a committed reservation stays.                       *)
Crash(a) ==
  /\ pc[a] \notin Ended \cup {"new"}
  /\ EndTx(a, "failed")
  /\ UNCHANGED rows

-----------------------------------------------------------------------------
(* Around the requests *)

(* reservationTTL passes, however long a slow upload still needs, and also when
   the upload is over and has left its reservation behind.                    *)
Lapse(r) ==
  /\ r \in Live \cap Slow
  /\ lapsed' = lapsed \cup {r}
  /\ UNCHANGED <<pc, tx, files, expired, resv, opened, closed>>

(* Mutant: the comparison with reservationTTL is the wrong way round. *)
SweepFresh ==
  /\ lapsed # {}
  /\ resv' = lapsed
  /\ UNCHANGED <<pc, tx, files, expired, lapsed, opened, closed>>

(* sweepStaleReservations *)
SweepReservations ==
  /\ lapsed # {}
  /\ resv' = resv \ lapsed
  /\ lapsed' = {}
  /\ UNCHANGED <<pc, tx, files, expired, opened, closed>>

(* The expiry of a file passes.  Files of a drop have none of their own. *)
Expire(r) ==
  /\ r \in Active
  /\ ~InDrop(r)
  /\ expired' = expired \cup {r}
  /\ UNCHANGED <<pc, tx, files, resv, lapsed, opened, closed>>

(* Mutant: the row goes and is still counted among the expired ones. *)
RetireRowOnly(r) ==
  /\ r \in files
  /\ files' = files \ {r}
  /\ UNCHANGED <<pc, tx, expired, resv, lapsed, opened, closed>>

(* A files row is archived or deleted, by its owner or by the sweeper. *)
Retire(r) ==
  /\ r \in files
  /\ files' = files \ {r}
  /\ expired' = expired \ {r}
  /\ UNCHANGED <<pc, tx, resv, lapsed, opened, closed>>

(* POST /drops/{id}/close *)
OwnerCloses(d) ==
  /\ d \notin closed
  /\ closed' = closed \cup {d}
  /\ UNCHANGED <<pc, tx, files, expired, resv, lapsed, opened>>

-----------------------------------------------------------------------------
Transact(a) ==
  \/ Begin(a) \/ TakeLock(a) \/ ReadFiles(a) \/ ReadReservations(a)
  \/ PassQuota(a) \/ PassDrop(a) \/ Refuse(a) \/ Commit(a)

Request(a) == Arrive(a) \/ TurnAway(a) \/ Transact(a)

Mishap(a) == Fail(a) \/ CommitUnacknowledged(a) \/ Crash(a)

Handle(r) ==
  \/ WriteBlob(r) \/ AbandonBlob(r) \/ Release(r) \/ ReleaseFails(r)
  \/ CloseIfFull(r) \/ CloseFails(r)

Next ==
  \/ \E a \in Actors : Request(a) \/ Mishap(a)
  \/ \E r \in Uploads : Handle(r) \/ Lapse(r) \/ Expire(r) \/ Retire(r)
  \/ SweepReservations
  \/ \E d \in Drops : OwnerCloses(d)

(* A handler that runs goes on running (or fails or crashes, which ends it
   too); time passes; the sweeper's ticker fires every minute.  The lock
   needs no strong fairness: a request takes it twice at most, so it cannot
   be taken for ever by others.                                            *)
Fairness ==
  /\ \A a \in Actors : WF_vars(Transact(a))
  /\ \A r \in Uploads : WF_vars(Handle(r)) /\ WF_vars(Lapse(r))
  /\ WF_vars(SweepReservations)

Spec == Init /\ [][Next]_vars
FairSpec == Spec /\ Fairness

-----------------------------------------------------------------------------
(* Properties *)

(* No account ever holds more than its quota: what is stored plus what
   uploads in flight have booked stays within its bytes and its file count,
   however the transactions of concurrent uploads interleave with releases,
   expiries, the sweeper and crashes (reserveUpload and finalizeUpload).    *)
AccountsRespected == AccountsWithin(Active, Live)

(* The same for QUOTA_TOTAL_BYTES, across all accounts. *)
InstanceRespected == InstanceWithin(Active, Live)

(* No drop ever holds more bytes or files than its owner allowed, and no
   submission more files, uploads in flight included (loadDropUsage).       *)
DropsRespected == DropsWithin(Active, Live)

(* Senders arriving together never open more submissions on a drop than its
   owner allowed (handleOpenSubmission).                                    *)
SubmissionsRespected == SubmissionsWithin(opened)

(* A reservation is a promise: an upload that comes to finalizeUpload with
   its reservation alive is refused only if something that was counted
   against it has meanwhile stopped counting.                               *)
BookingHonoured ==
  \A r \in Uploads :
    ( /\ pc[r] = "finalize"
      /\ r \in Live
      /\ seen[r].files \subseteq Active
      /\ seen[r].resv \subseteq Live )
    => /\ step[r] = "usage" => ~OverQuota(r)
       /\ step[r] = "dropUsage" => ~OverDrop(r)

(* Quota taken by an upload that has ended without storing anything is given
   back: by releaseReservation, or by the sweeper when that never ran or did
   not get through.                                                         *)
ReservationsDrain ==
  \A r \in Slow : (pc[r] \in Ended /\ r \in resv) ~> r \notin resv

(* Every request that got as far as a transaction ends: the advisory lock
   never leaves uploads waiting for one another for ever.                   *)
RequestsEnd == \A a \in Actors : (pc[a] # "new") ~> (pc[a] \in Ended)

(* The protocol implements the one-step accounting of QuotaLedger. *)
Ledger == INSTANCE QuotaLedger WITH stored <- Active, booked <- Live

ImplementsLedger == Ledger!Spec

-----------------------------------------------------------------------------
(* Why it works: the inductive invariant behind the properties above *)

Counting == Steps \ {"none", "started"}

(* Which actor can be at which point of the code. *)
PhaseInv ==
  \A a \in Actors :
    /\ pc[a] \in {"reserve", "write", "finalize", "release", "fill"} => a \in Uploads
    /\ pc[a] = "open" => a \in Submissions
    /\ pc[a] = "fill" => InDrop(a)
    /\ InTx(a) => pc[a] \in {"reserve", "finalize", "open"}
    /\ step[a] \in {"begun", "files", "usage"} => a \in Uploads
    /\ step[a] \in {"dropBegun", "dropFiles", "dropUsage"} /\ a \in Uploads => InDrop(a)
    /\ pc[a] = "finalize" => Size[a] <= Ceiling(a)

(* Whoever counts holds the lock. *)
LockInv == \A a \in Actors : step[a] \in Counting => lock = a

(* A request has no row before the transaction that inserts it. *)
RowInv ==
  \A r \in Uploads :
    /\ pc[r] \in {"new", "reserve"} => r \notin resv
    /\ pc[r] \in {"new", "reserve", "write", "finalize"} => r \notin files

(* NOW() is in the past: what it makes lapsed or expired still is, and the
   rows that can still be inserted are not among it.                        *)
ClockInv ==
  \A a \in Actors, r \in Uploads :
    /\ r \in now[a].lapsed => r \notin Live /\ pc[r] \notin {"new", "reserve"}
    /\ r \in now[a].expired =>
         r \notin Active /\ pc[r] \notin {"new", "reserve", "write", "finalize"}

(* The rows read so far include every row that counts now. *)
SnapshotInv ==
  \A a \in Actors :
    /\ step[a] \in {"files", "usage", "dropFiles", "dropUsage"} => Active \subseteq seen[a].files
    /\ step[a] \in {"usage", "dropUsage"} => Live \ {a} \subseteq seen[a].resv
    /\ step[a] \in {"usage", "dropUsage"} /\ pc[a] = "finalize" => a \notin seen[a].resv

(* A check that passed still passes. *)
Passed(a) ==
  /\ step[a] \in {"dropBegun", "dropFiles", "dropUsage", "admitted"} /\ a \in Uploads =>
       ~QuotaViolation(a, Active, Live \ {a}, Incoming(a))
  /\ step[a] = "admitted" /\ a \in Uploads /\ InDrop(a) =>
       ~DropViolation(a, Active, Live \ {a}, Incoming(a))
  /\ step[a] = "admitted" /\ a \in Submissions =>
       ~SubmissionViolation(a, Active, Live, opened)

PassedInv == \A a \in Actors : Passed(a)

LimitsInv == AllWithin(Active, Live) /\ SubmissionsWithin(opened)

(* While a transaction counts, what counts can only shrink: the lock keeps
   every other admission out, and releases, expiries and deletions go the
   safe way.  So a decision made on rows read earlier, against a NOW() older
   still, is sound when its transaction commits.                            *)
IInv ==
  /\ TypeOK /\ PhaseInv /\ LockInv /\ RowInv /\ ClockInv
  /\ SnapshotInv /\ PassedInv /\ LimitsInv
=============================================================================
