----------------------------- MODULE DropSender -----------------------------
(***************************************************************************)
(* Sending files to a drop (web/static/app.js): the key of the recipient,  *)
(* the submission that the first file opens, the files one after the       *)
(* other, and the sealed roster that is sent after each; and what the      *)
(* server makes of it, whose answers may be lost.  Files are named by the  *)
(* position in which they were added.                                      *)
(***************************************************************************)
EXTENDS Integers, Sequences, FiniteSets

CONSTANTS
    MaxAdded,   \* bound: files added
    Oversize,   \* those over the size limit
    MaxFiles,   \* files the drop takes in a submission; 0: any number
    MaxSubs,    \* submissions the drop takes
    MaxLost     \* bound: requests or answers the network loses

SenderAssumption ==
    /\ MaxAdded \in Nat /\ Oversize \subseteq 1 .. MaxAdded
    /\ MaxFiles \in Nat /\ MaxSubs \in Nat /\ MaxLost \in Nat

Picked == 1 .. MaxAdded
Subs == 1 .. MaxSubs
NoSub == 0

VARIABLES
    publicKey,  \* "none", "there" or "bad": the recipient's key on this page
    added,      \* files added so far
    running,    \* the chain of sendOne: the files that wait, in order
    current,    \* the file being sent, or 0
    step,       \* how far it is
    row,        \* per file: what its row says
    submission, \* the submission of this visit, or NoSub
    roster, seq,\* its member list and number
    sent,       \* files that were sent
    opened,     \* server: submissions opened
    stored,     \* server: pairs of a stored file and its submission
    sealed,     \* server: per submission, the number and files of its roster
    lost        \* requests and answers lost so far

page == <<publicKey, added, running, current, step, row, submission, roster, seq, sent>>
vars == <<publicKey, added, running, current, step, row, submission, roster, seq,
          sent, opened, stored, sealed, lost>>

Init ==
    /\ publicKey = "none" /\ added = 0 /\ running = <<>> /\ current = 0 /\ step = "idle"
    /\ row = [f \in Picked |-> "none"]
    /\ submission = NoSub /\ roster = {} /\ seq = 0 /\ sent = 0
    /\ opened = 0 /\ stored = {} /\ lost = 0
    /\ sealed = [s \in Subs |-> [seq |-> 0, files |-> {}]]

-----------------------------------------------------------------------------
\* unsealKey: a key that does not open was not sealed for this link, and
\* nothing is encrypted to it.
UnsealKey ==
    /\ publicKey = "none"
    /\ publicKey' \in {"there", "bad"}
    /\ UNCHANGED <<added, running, current, step, row, submission, roster, seq,
                   sent, opened, stored, sealed, lost>>

\* enqueueFiles: of n files chosen together those are dropped that would exceed
\* the limit, as far as files were sent by now.
EnqueueFiles(n) ==
    LET room == IF MaxFiles = 0 \/ sent + n <= MaxFiles THEN n
                ELSE IF MaxFiles > sent THEN MaxFiles - sent ELSE 0
    IN
    /\ added + n <= MaxAdded
    /\ added' = added + n
    /\ running' = running \o [i \in 1 .. room |-> added + i]
    /\ row' = [f \in Picked |-> IF f \in added + 1 .. added + room THEN "queued" ELSE row[f]]
    /\ UNCHANGED <<publicKey, current, step, submission, roster, seq, sent, opened,
                   stored, sealed, lost>>

SendNext ==
    /\ current = 0 /\ running # <<>>
    /\ current' = Head(running) /\ running' = Tail(running)
    /\ step' = "opening"
    /\ UNCHANGED <<publicKey, added, row, submission, roster, seq, sent, opened,
                   stored, sealed, lost>>

\* The file being sent is done with, and its row says how.
Ends(how) ==
    /\ row' = [row EXCEPT ![current] = how]
    /\ current' = 0 /\ step' = "idle"

Lose == lost < MaxLost /\ lost' = lost + 1

\* An oversize file, or one for which there is no key yet, goes nowhere.
NotSent ==
    /\ step = "opening"
    /\ current \in Oversize \/ (submission = NoSub /\ publicKey # "there")
    /\ Ends("failed")
    /\ UNCHANGED <<publicKey, added, running, submission, roster, seq, sent, opened,
                   stored, sealed, lost>>

\* ensureSubmission: the one there is, or a new one.  Refused, or its answer
\* lost, the file fails and the next will ask again.
EnsureSubmission ==
    /\ step = "opening" /\ current \notin Oversize
    /\ \/ /\ submission # NoSub /\ step' = "sending"
          /\ UNCHANGED <<current, row, submission, roster, seq, opened, lost>>
       \/ /\ submission = NoSub /\ publicKey = "there" /\ opened < MaxSubs
          /\ opened' = opened + 1
          /\ \/ /\ submission' = opened' /\ roster' = {} /\ seq' = 0 /\ step' = "sending"
                /\ UNCHANGED <<current, row, lost>>
             \/ Lose /\ Ends("failed") /\ UNCHANGED <<submission, roster, seq>>
       \/ /\ submission = NoSub /\ publicKey = "there"
          /\ Ends("failed")
          /\ UNCHANGED <<submission, roster, seq, opened, lost>>
    /\ UNCHANGED <<publicKey, added, running, sent, stored, sealed>>

\* The upload: the server takes it while the submission has room, or answers
\* that the drop is closed or the quota used up.
Held(s) == Cardinality({p \in stored : p[2] = s})

Upload ==
    /\ step = "sending"
    /\ \/ /\ MaxFiles = 0 \/ Held(submission) < MaxFiles
          /\ stored' = stored \cup {<<current, submission>>}
          /\ \/ /\ roster' = roster \cup {current} /\ seq' = seq + 1
                /\ step' = "vouching"
                /\ UNCHANGED <<current, row, lost>>
             \/ Lose /\ Ends("failed") /\ UNCHANGED <<roster, seq>>
       \/ Ends("failed") /\ UNCHANGED <<stored, roster, seq, lost>>
    /\ UNCHANGED <<publicKey, added, running, submission, sent, opened, sealed>>

\* The roster.  An answer counts whatever it says; none at all makes the row
\* say the file has failed.
StoreRoster ==
    /\ sealed[submission].seq < seq
    /\ sealed' = [sealed EXCEPT ![submission] = [seq |-> seq, files |-> roster]]

SendRoster ==
    /\ step = "vouching"
    /\ \/ /\ StoreRoster \/ UNCHANGED sealed
          /\ Ends("sent") /\ sent' = sent + 1
          /\ UNCHANGED lost
       \/ /\ StoreRoster \/ UNCHANGED sealed
          /\ Lose /\ Ends("failed") /\ UNCHANGED sent
    /\ UNCHANGED <<publicKey, added, running, submission, roster, seq, opened, stored>>

Next ==
    \/ UnsealKey \/ SendNext \/ NotSent \/ EnsureSubmission \/ Upload \/ SendRoster
    \/ \E n \in 1 .. 2 : EnqueueFiles(n)

Spec == Init /\ [][Next]_vars

-----------------------------------------------------------------------------
TypeOK ==
    /\ publicKey \in {"none", "there", "bad"} /\ added \in 0 .. MaxAdded
    /\ running \in Seq(Picked) /\ current \in 0 .. MaxAdded
    /\ step \in {"idle", "opening", "sending", "vouching"}
    /\ row \in [Picked -> {"none", "queued", "sent", "failed"}]
    /\ submission \in 0 .. MaxSubs /\ roster \subseteq Picked /\ seq \in Nat
    /\ sent \in Nat /\ opened \in 0 .. MaxSubs /\ stored \subseteq Picked \X Subs
    /\ sealed \in [Subs -> [seq : Nat, files : SUBSET Picked]]
    /\ lost \in 0 .. MaxLost

\* All that a visit sends is one delivery: an answer that was lost leaves an
\* empty submission behind, never one with a part of the files (app.js:2211).
OneDelivery ==
    /\ \A p, q \in stored : p[2] = q[2]
    /\ \A s \in 1 .. opened \ {submission} : Held(s) = 0

\* A row that says "sent" is of a file that is stored, and listed in the roster
\* on the server once the latest one has got there; and no number of losses
\* makes the page count more than the drop takes (app.js:2387).
SentVouched ==
    /\ \A f \in Picked : row[f] = "sent" =>
          /\ <<f, submission>> \in stored
          /\ sealed[submission].seq = seq => f \in sealed[submission].files
    /\ sent = Cardinality({f \in Picked : row[f] = "sent"})
    /\ MaxFiles # 0 => sent <= MaxFiles
=============================================================================
