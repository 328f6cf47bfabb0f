----------------------------- MODULE QuotaLedger -----------------------------
(***************************************************************************)
(* What storage.go promises the owner of a quota, with no lock, no SQL     *)
(* statement and no crash in sight: an upload is booked in one step if     *)
(* every limit leaves room for it, a booking becomes a stored file in one  *)
(* step if every limit leaves room for the real size, and anything may be  *)
(* given back at any time.  UploadQuota implements this.                   *)
(***************************************************************************)
EXTENDS QuotaRules

VARIABLES
  stored,   \* uploads whose file counts against the limits
  booked,   \* uploads whose reservation counts against the limits
  opened    \* submissions open on their drop

ledger == <<stored, booked, opened>>

Init ==
  /\ stored = {}
  /\ booked = {}
  /\ opened = {}

Book(r) ==
  /\ Room(r, stored, booked \ {r}, Booking(r))
  /\ booked' = booked \cup {r}
  /\ UNCHANGED <<stored, opened>>

Store(r) ==
  /\ Room(r, stored, booked \ {r}, Size[r])
  /\ stored' = stored \cup {r}
  /\ booked' = booked \ {r}
  /\ UNCHANGED opened

(* A booking is released or its time runs out. *)
GiveBack(r) ==
  /\ booked' = booked \ {r}
  /\ UNCHANGED <<stored, opened>>

(* A stored file is deleted, archived or expires. *)
Retire(r) ==
  /\ stored' = stored \ {r}
  /\ UNCHANGED <<booked, opened>>

Open(s) ==
  /\ ~SubmissionViolation(s, stored, booked, opened)
  /\ opened' = opened \cup {s}
  /\ UNCHANGED <<stored, booked>>

Next ==
  \/ \E r \in Uploads : Book(r) \/ Store(r) \/ GiveBack(r) \/ Retire(r)
  \/ \E s \in Submissions : Open(s)

Spec == Init /\ [][Next]_ledger
=============================================================================
