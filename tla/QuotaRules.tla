------------------------------ MODULE QuotaRules ------------------------------
(***************************************************************************)
(* The arithmetic of storage.go: what an upload books, what counts against *)
(* an account, the instance and a drop, and when one more upload or one    *)
(* more submission would be over a limit.  Pure operators: the modules     *)
(* QuotaLedger (the promise) and UploadQuota (the protocol) extend this    *)
(* one.                                                                    *)
(*                                                                         *)
(* A limit of 0 means "none", as in the code.  Usage is computed from the  *)
(* SET of uploads that have an active files row and the SET that have a    *)
(* live reservation, which is what the SQL aggregates range over.          *)
(***************************************************************************)
EXTENDS Naturals, FiniteSets

CONSTANTS
  Uploads,       \* upload requests; a request is also the file it may store
  Submissions,   \* submissions a sender may open on a drop (batches.drop_id set)
  Users,         \* accounts; every upload is charged to one
  Drops,         \* upload links
  NoSubmission,  \* the target of an ordinary, signed-in upload
  Owner,         \* upload -> the account charged (the session's, or the drop's owner)
  Into,          \* upload -> the submission it goes into, or NoSubmission
  DropOf,        \* submission -> its drop
  Length,        \* upload -> Content-Length of the request, 0 when unknown
  Size,          \* upload -> plain_size, the bytes the files row is charged
  UploadCap,     \* no account's per-file ceiling is above this
  MaxUpload,     \* account -> per-file ceiling (override, else the default)
  Quota,         \* account -> [bytes, files], overrides and defaults resolved
  TotalBytes,    \* QUOTA_TOTAL_BYTES
  Limits         \* drop -> the owner's dropLimits

ASSUME RequestsAssumption ==
  /\ IsFiniteSet(Uploads)
  /\ IsFiniteSet(Submissions)
  /\ Uploads \cap Submissions = {}
  /\ NoSubmission \notin Submissions
  /\ Owner \in [Uploads -> Users]
  /\ Into \in [Uploads -> Submissions \cup {NoSubmission}]
  /\ DropOf \in [Submissions -> Drops]
  /\ Length \in [Uploads -> Nat]
  /\ Size \in [Uploads -> Nat]

ASSUME LimitsAssumption ==
  /\ UploadCap \in Nat \ {0}
  /\ MaxUpload \in [Users -> 1..UploadCap]
  /\ Quota \in [Users -> [bytes : Nat, files : Nat]]
  /\ TotalBytes \in Nat
  /\ Limits \in [Drops -> [MaxFileBytes : Nat, MaxTotalBytes : Nat, MaxFiles : Nat,
                           MaxPerSubmission : Nat, MaxSubmissions : Nat]]

(* A known Content-Length counts the whole multipart body, ciphertext and
   framing, so it is never below the plain size the form declares.        *)
ASSUME LengthCoversBody == \A r \in Uploads : Length[r] > 0 => Size[r] <= Length[r]

-----------------------------------------------------------------------------
(* Who is measured together *)

InDrop(r) == Into[r] # NoSubmission
DropFor(r) == DropOf[Into[r]]

OwnedBy(u) == {r \in Uploads : Owner[r] = u}
SentTo(d) == {r \in Uploads : InDrop(r) /\ DropFor(r) = d}
Within(s) == {r \in Uploads : Into[r] = s}
OnDrop(d) == {s \in Submissions : DropOf[s] = d}

-----------------------------------------------------------------------------
(* What one request books *)

(* uploadContext.ceiling: a drop lowers its owner's ceiling, never raises it. *)
Ceiling(r) ==
  LET cap == MaxUpload[Owner[r]] IN
  IF InDrop(r) /\ Limits[DropFor(r)].MaxFileBytes \in 1..cap
    THEN Limits[DropFor(r)].MaxFileBytes
    ELSE cap

(* reserveUpload: an unknown or absurd length books the full ceiling. *)
Booking(r) == IF Length[r] \in 1..Ceiling(r) THEN Length[r] ELSE Ceiling(r)

-----------------------------------------------------------------------------
(* SUM(bytes) over a set of uploads, as the number of (upload, byte) pairs:
   the sum of w over S is the size of a disjoint union of S's bytes.        *)
Bytes(w, S) == Cardinality({p \in S \X (1..UploadCap) : p[2] <= w[p[1]]})

Booked == [r \in Uploads |-> Booking(r)]

(* Active files F and live reservations R, among the uploads in scope S. *)
BytesHeld(F, R, S) == Bytes(Size, F \cap S) + Bytes(Booked, R \cap S)
FilesHeld(F, R, S) == Cardinality(F \cap S) + Cardinality(R \cap S)

Over(limit, amount) == limit > 0 /\ amount > limit

(* App.quotaViolation *)
QuotaViolation(r, F, R, incoming) ==
  LET u == Owner[r] IN
  \/ Over(TotalBytes, BytesHeld(F, R, Uploads) + incoming)
  \/ Over(Quota[u].bytes, BytesHeld(F, R, OwnedBy(u)) + incoming)
  \/ Over(Quota[u].files, FilesHeld(F, R, OwnedBy(u)) + 1)

(* dropViolation *)
DropViolation(r, F, R, incoming) ==
  LET l == Limits[DropFor(r)] IN
  \/ Over(l.MaxTotalBytes, BytesHeld(F, R, SentTo(DropFor(r))) + incoming)
  \/ Over(l.MaxFiles, FilesHeld(F, R, SentTo(DropFor(r))) + 1)
  \/ Over(l.MaxPerSubmission, FilesHeld(F, R, Within(Into[r])) + 1)

(* Neither refuses: what admits an upload, at reservation and again at the end. *)
Room(r, F, R, incoming) ==
  /\ ~QuotaViolation(r, F, R, incoming)
  /\ InDrop(r) => ~DropViolation(r, F, R, incoming)

(* dropAcceptsAnotherSubmission, negated: opening s is refused. *)
SubmissionViolation(s, F, R, opened) ==
  LET d == DropOf[s]
      l == Limits[d] IN
  \/ Over(l.MaxSubmissions, Cardinality(opened \cap OnDrop(d)) + 1)
  \/ l.MaxFiles > 0 /\ FilesHeld(F, R, SentTo(d)) >= l.MaxFiles

-----------------------------------------------------------------------------
(* Every limit respected by active files F, live reservations R and opened
   submissions.                                                            *)

AccountsWithin(F, R) ==
  \A u \in Users :
    /\ ~Over(Quota[u].bytes, BytesHeld(F, R, OwnedBy(u)))
    /\ ~Over(Quota[u].files, FilesHeld(F, R, OwnedBy(u)))

InstanceWithin(F, R) == ~Over(TotalBytes, BytesHeld(F, R, Uploads))

DropsWithin(F, R) ==
  /\ \A d \in Drops :
       /\ ~Over(Limits[d].MaxTotalBytes, BytesHeld(F, R, SentTo(d)))
       /\ ~Over(Limits[d].MaxFiles, FilesHeld(F, R, SentTo(d)))
  /\ \A s \in Submissions :
       ~Over(Limits[DropOf[s]].MaxPerSubmission, FilesHeld(F, R, Within(s)))

AllWithin(F, R) == AccountsWithin(F, R) /\ InstanceWithin(F, R) /\ DropsWithin(F, R)

SubmissionsWithin(opened) ==
  \A d \in Drops : ~Over(Limits[d].MaxSubmissions, Cardinality(opened \cap OnDrop(d)))
=============================================================================
