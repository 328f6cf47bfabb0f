----------------------------- MODULE UploadPage -----------------------------
(***************************************************************************)
(* The upload page of the browser client (web/static/app.js): the two      *)
(* steps of the form, the queue of files, the retried transfers, the link  *)
(* all files of a visit go to, and the sealed roster that is rewritten     *)
(* after each of them; and what the server keeps of it.                    *)
(*                                                                         *)
(* A task <<f, n>> is the n-th call of uploadOne for file f.  The queue    *)
(* (uploadChain) runs one call at a time, but a call ends when its body    *)
(* has been handed to the network, so several bodies may be on their way.  *)
(* A request <<f, n, k>> is the k-th transfer of a task; the row the       *)
(* server stores for it is named after it.                                 *)
(***************************************************************************)
EXTENDS Integers, Sequences, FiniteSets

CONSTANTS
    Files,          \* what the user may add
    Oversize,       \* those that may be over the size limit
    Retried,        \* bound: those the user retries
    Flaky,          \* bound: those whose transfers the network loses
    MaxRuns,        \* bound: calls of uploadOne for one file
    MaxLinks,       \* bound: links of one visit
    NET_ATTEMPTS    \* transfers before a row asks the user to retry

ASSUME UploadAssumption ==
    /\ Oversize \subseteq Files /\ Retried \subseteq Files
    /\ Flaky \subseteq Files
    /\ MaxRuns \in Nat \ {0} /\ MaxLinks \in Nat \ {0}
    /\ NET_ATTEMPTS \in Nat \ {0}

Tasks == Files \X (1 .. MaxRuns)
Rows == Tasks \X (1 .. NET_ATTEMPTS)
Links == 1 .. MaxLinks
NoTask == <<>>

VARIABLES
    form,       \* step 1: what holds the terms of the next link
    chain,      \* uploadChain: the calls that wait, in order
    current,    \* the call under way, or NoTask
    task,       \* per call: phase, cancel token, attempt, link of its body
    size,       \* per file: whether it is over the limit, once it is added
    button,     \* per file: the button in its row
    batch,      \* batchState: link (0: none), count, roster, rosterSeq
    records,    \* rosterChain: rows to be recorded, in order
    recording,  \* how far the first of them is, and what it has taken along
    wire,       \* server: transfers it has not finished with
    stored,     \* server: the link under which each stored row is
    links,      \* server: links made so far
    posts,      \* server: roster updates on their way
    sealed      \* server: batches.roster and roster_seq

upload == <<form, chain, current, task, size, button, batch, records, recording>>
server == <<wire, stored, links, posts, sealed>>
vars == <<form, chain, current, task, size, button, batch, records,
          recording, wire, stored, links, posts, sealed>>

NoLink == [link |-> 0, count |-> 0, roster |-> {}, seq |-> 0, panel |-> FALSE]
\* A row offers nothing, to cancel its n-th call, or to retry; "Start a new
\* link" takes the rows there are off the page.
NoButton == 0
RetryButton == MaxRuns + 1
Detached == MaxRuns + 2
Shows(f, b) == button' = [button EXCEPT ![f] = IF @ = Detached THEN @ ELSE b]

NotRecording == [step |-> "idle", link |-> 0, files |-> {}]
Fresh == [phase |-> "none", aborted |-> FALSE, tries |-> 0, link |-> 0]
Start == [confirmed |-> FALSE, locked |-> FALSE]

Init ==
    /\ form = Start
    /\ chain = <<>> /\ current = NoTask
    /\ task = [t \in Tasks |-> Fresh]
    /\ size = [f \in Files |-> "unknown"]
    /\ button = [f \in Files |-> NoButton]
    /\ batch = NoLink
    /\ records = <<>> /\ recording = NotRecording
    /\ wire = {} /\ stored = {} /\ links = 0 /\ posts = {}
    /\ sealed = [l \in Links |-> [seq |-> 0, of |-> 0, files |-> {}]]

-----------------------------------------------------------------------------
(* Step 1: the terms, which module ShareOptions has.  They are read-only   *)
(* once confirmed, and once a link has been made under them.               *)

Confirm ==
    /\ ~form.confirmed
    /\ form' = [form EXCEPT !.confirmed = TRUE]
    /\ UNCHANGED <<chain, current, task, size, button, batch, records, recording, server>>

EditStep ==
    /\ form.confirmed /\ ~form.locked
    /\ form' = [form EXCEPT !.confirmed = FALSE]
    /\ UNCHANGED <<chain, current, task, size, button, batch, records, recording, server>>

-----------------------------------------------------------------------------
(* The queue.                                                              *)

\* handleFiles: a drop is turned away until step 1 is confirmed.
AddFile(f) ==
    /\ form.confirmed /\ task[<<f, 1>>].phase = "none"
    /\ task' = [task EXCEPT ![<<f, 1>>].phase = "queued"]
    /\ \E s \in {"fits"} \cup (IF f \in Oversize THEN {"too large"} ELSE {}) :
          size' = [size EXCEPT ![f] = s]
    /\ Shows(f, 1)
    /\ chain' = Append(chain, <<f, 1>>)
    /\ UNCHANGED <<form, current, batch, records, recording, server>>

\* The cancel button of a row that waits leaves nothing to press; that of a
\* call under way leaves a retry button.  A call on the stack goes on to its
\* next look at the token; what is on the wire may still be stored.
Cancel(f) ==
    LET t == <<f, button[f]>> IN
    /\ button[f] \in 1 .. MaxRuns
    /\ Shows(f, IF task[t].phase = "queued" THEN NoButton ELSE RetryButton)
    /\ task' = [task EXCEPT ![t].aborted = TRUE,
                            ![t].phase = IF @ \in {"sending", "waiting"} THEN "cancelled" ELSE @]
    /\ UNCHANGED <<form, chain, current, size, batch, records, recording, server>>

\* A retry joins the queue; the button stays until its turn comes.
Retry(f) ==
    /\ f \in Retried /\ button[f] = RetryButton
    /\ \E n \in 2 .. MaxRuns :
          /\ task[<<f, n>>].phase = "none" /\ task[<<f, n - 1>>].phase # "none"
          /\ task' = [task EXCEPT ![<<f, n>>].phase = "queued"]
          /\ chain' = Append(chain, <<f, n>>)
    /\ UNCHANGED <<form, current, size, button, batch, records, recording, server>>

\* fail(kind): the row explains itself, and offers a retry if that may help.
Fails(t, retryable) ==
    /\ task' = [task EXCEPT ![t].phase = "failed"]
    /\ Shows(t[1], IF retryable THEN RetryButton ELSE NoButton)

\* uploadOne starts.  Cancelled while it waited, it returns at once; a file
\* over the size limit fails before anything is done with it; any other goes to
\* the link of this visit, or waits for one.
TakeNext ==
    /\ chain # <<>> /\ current = NoTask
    /\ chain' = Tail(chain)
    /\ LET t == Head(chain) IN
       \/ /\ task[t].aborted
          /\ task' = [task EXCEPT ![t].phase = "cancelled"]
          /\ UNCHANGED <<current, button>>
       \/ /\ ~task[t].aborted /\ size[t[1]] = "too large"
          /\ Fails(t, FALSE) /\ UNCHANGED current
       \/ /\ ~task[t].aborted /\ size[t[1]] = "fits"
          /\ current' = t
          /\ task' = [task EXCEPT ![t].phase = IF batch.link = 0 THEN "linking" ELSE "sealing",
                                  ![t].link = batch.link]
          /\ Shows(t[1], t[2])
    /\ UNCHANGED <<form, size, batch, records, recording, server>>

\* ensureBatch, which freezes the terms.  Only the call under way is in here.
EnsureBatch ==
    /\ current # NoTask /\ task[current].phase = "linking" /\ links < MaxLinks
    /\ links' = links + 1
    /\ batch' = [batch EXCEPT !.link = links', !.roster = {}, !.seq = 0]
    /\ form' = [form EXCEPT !.locked = TRUE]
    /\ IF task[current].aborted
       THEN /\ task' = [task EXCEPT ![current].phase = "cancelled"]
            /\ current' = NoTask
       ELSE /\ task' = [task EXCEPT ![current].phase = "sealing", ![current].link = links']
            /\ UNCHANGED current
    /\ UNCHANGED <<chain, size, button, records, recording, wire, stored, posts, sealed>>

BatchFails ==
    /\ current # NoTask /\ task[current].phase = "linking"
    /\ Fails(current, TRUE) /\ current' = NoTask
    /\ UNCHANGED <<form, chain, size, batch, records, recording, server>>

\* The name is sealed with the key batchState holds at this moment: none, if
\* a new link was started since.
Seal ==
    /\ current # NoTask /\ task[current].phase = "sealing"
    /\ IF batch.link = 0
       THEN Fails(current, TRUE) /\ current' = NoTask
       ELSE /\ task' = [task EXCEPT ![current].phase = "encrypting"]
            /\ UNCHANGED <<button, current>>
    /\ UNCHANGED <<form, chain, size, batch, records, recording, server>>

Sent(t) == <<t, task'[t].tries>>

\* encryptFile: done, given up at a chunk boundary, or the file is gone.
\* sendAttempt is not awaited: with the body on its way the call is over and
\* the queue goes on.
Encrypted ==
    /\ current # NoTask /\ task[current].phase = "encrypting"
    /\ current' = NoTask
    /\ IF task[current].aborted
       THEN /\ task' = [task EXCEPT ![current].phase = "cancelled"]
            /\ UNCHANGED wire
       ELSE /\ task' = [task EXCEPT ![current].phase = "sending", ![current].tries = 1]
            /\ wire' = wire \cup {Sent(current)}
    /\ UNCHANGED <<form, chain, size, button, batch, records, recording,
                   stored, links, posts, sealed>>

(* Mutant: the chain does not go on after a call that threw.               *)
EncryptFailsStalled ==
    /\ current # NoTask /\ task[current].phase = "encrypting"
    /\ Fails(current, TRUE) /\ UNCHANGED current
    /\ UNCHANGED <<form, chain, size, batch, records, recording, server>>

EncryptFails ==
    /\ current # NoTask /\ task[current].phase = "encrypting"
    /\ Fails(current, TRUE) /\ current' = NoTask
    /\ UNCHANGED <<form, chain, size, batch, records, recording, server>>
-----------------------------------------------------------------------------
(* The transfers of sendAttempt.  A request the client has given up on, or  *)
(* aborted, may still be in the server's hands and stored.                  *)

ServerStores(r) ==
    /\ r \in wire
    /\ wire' = wire \ {r}
    /\ stored' = stored \cup {<<r, task[r[1]].link>>}
    /\ UNCHANGED <<upload, links, posts, sealed>>

Last(t) == <<t, task[t].tries>>
Holds(r) == \E l \in Links : <<r, l>> \in stored

\* onload with 2xx: the file is counted, the link shown, the member recorded.
Answered(t) ==
    /\ task[t].phase = "sending" /\ Holds(Last(t))
    /\ task' = [task EXCEPT ![t].phase = "done"]
    /\ Shows(t[1], NoButton)
    /\ batch' = [batch EXCEPT !.count = @ + 1, !.panel = @ \/ batch.link # 0]
    /\ records' = Append(records, Last(t))
    /\ UNCHANGED <<form, chain, current, size, recording, server>>

\* The server's considered no: quota and the like may be retried by hand, a
\* lost session or a limit may not.
Refused(t) ==
    /\ task[t].phase = "sending" /\ Last(t) \in wire
    /\ wire' = wire \ {Last(t)}
    /\ \E retryable \in BOOLEAN : Fails(t, retryable)
    /\ UNCHANGED <<form, chain, current, size, batch, records, recording,
                   stored, links, posts, sealed>>

\* retryOrFail: a dead socket or a proxy's 502, whatever became of the body.
NetworkError(t) ==
    /\ t[1] \in Flaky /\ task[t].phase = "sending"
    /\ \/ task[t].tries >= NET_ATTEMPTS /\ Fails(t, TRUE)
       \/ /\ task[t].tries < NET_ATTEMPTS
          /\ task' = [task EXCEPT ![t].phase = "waiting"]
          /\ UNCHANGED button
    /\ UNCHANGED <<form, chain, current, size, batch, records, recording, server>>

\* The timer: the same body, encrypted once, is sent again.
SendAgain(t) ==
    /\ task[t].phase = "waiting"
    /\ task' = [task EXCEPT ![t].phase = "sending", ![t].tries = @ + 1]
    /\ wire' = wire \cup {Sent(t)}
    /\ UNCHANGED <<form, chain, current, size, button, batch, records, recording,
                   stored, links, posts, sealed>>

-----------------------------------------------------------------------------
(* The roster.                                                             *)

\* recordMember, when the chain reaches it: with no link it is done.  The list
\* it will add to is the one there is now.
Record ==
    /\ records # <<>> /\ recording.step = "idle"
    /\ IF batch.link = 0
       THEN records' = Tail(records) /\ UNCHANGED recording
       ELSE /\ recording' = [recording EXCEPT !.step = "hashing", !.link = batch.link]
            /\ UNCHANGED records
    /\ UNCHANGED <<form, chain, current, task, size, button, batch, server>>

\* The manifest is hashed: the row enters that list, which a new link has put
\* away; the list of the link there is now gets the next number and is sealed
\* for it, or cannot be.
Listed == IF batch.link = recording.link THEN batch.roster \cup {Head(records)} ELSE batch.roster

(* Mutant: the list is sent again under the number it had.                 *)
NumberedOnce == [batch EXCEPT !.roster = Listed, !.seq = 1]
Numbered == [batch EXCEPT !.roster = Listed, !.seq = @ + 1]

Enlist ==
    /\ recording.step = "hashing"
    /\ batch' = Numbered
    /\ IF batch.link = 0
       THEN recording' = NotRecording /\ records' = Tail(records)
       ELSE /\ recording' = [step |-> "sealing", link |-> batch.link, files |-> Listed]
            /\ UNCHANGED records
    /\ UNCHANGED <<form, chain, current, task, size, button, server>>

\* Sealed, it goes to the link there is by then, under that link's number.
SendRoster ==
    /\ recording.step = "sealing"
    /\ recording' = [NotRecording EXCEPT !.step = "sending"]
    /\ posts' = IF batch.link = 0 THEN posts
                ELSE posts \cup {[link |-> batch.link, seq |-> batch.seq,
                                  of |-> recording.link, files |-> recording.files]}
    /\ UNCHANGED <<form, chain, current, task, size, button, batch, records, wire, stored,
                   links, sealed>>

(* Mutant: the list that arrives last wins.                                *)
StoreRosterAny(p) ==
    /\ p \in posts
    /\ posts' = posts \ {p}
    /\ sealed' = [sealed EXCEPT ![p.link] = [seq |-> p.seq, of |-> p.of, files |-> p.files]]
    /\ UNCHANGED <<upload, wire, stored, links>>

\* handleBatchRoster: UPDATE ... WHERE roster_seq < $2.
StoreRoster(p) ==
    /\ p \in posts
    /\ posts' = posts \ {p}
    /\ sealed' = IF sealed[p.link].seq < p.seq
                 THEN [sealed EXCEPT ![p.link] = [seq |-> p.seq, of |-> p.of, files |-> p.files]]
                 ELSE sealed
    /\ UNCHANGED <<upload, wire, stored, links>>

\* The server answers without storing it; fetch takes that for a success.
RosterRefused(p) ==
    /\ p \in posts
    /\ posts' = posts \ {p}
    /\ UNCHANGED <<upload, wire, stored, links, sealed>>

\* fetch has an answer or gives up, and the update may still be on its way.
Recorded ==
    /\ recording.step = "sending"
    /\ recording' = NotRecording /\ records' = Tail(records)
    /\ UNCHANGED <<form, chain, current, task, size, button, batch, server>>

\* "Start a new link": the terms open again and the rows go off the page;
\* calls, transfers and records that were under way are not told.
NewLink ==
    /\ batch.panel
    /\ batch' = NoLink
    /\ form' = [form EXCEPT !.locked = FALSE, !.confirmed = FALSE]
    /\ button' = [f \in Files |-> IF task[<<f, 1>>].phase = "none" THEN NoButton ELSE Detached]
    /\ UNCHANGED <<chain, current, task, size, records, recording, server>>

-----------------------------------------------------------------------------
User ==
    \/ Confirm \/ EditStep \/ NewLink
    \/ \E f \in Files : AddFile(f) \/ Cancel(f) \/ Retry(f)

Queue == TakeNext \/ EnsureBatch \/ BatchFails \/ Seal \/ Encrypted \/ EncryptFails
Transfer(t) == Answered(t) \/ Refused(t) \/ NetworkError(t) \/ SendAgain(t)
Roster == Record \/ Enlist \/ SendRoster \/ Recorded

Next ==
    \/ User \/ Queue \/ Roster
    \/ \E t \in Tasks : Transfer(t)
    \/ \E r \in Rows : ServerStores(r)
    \/ \E p \in posts : StoreRoster(p) \/ RosterRefused(p)

Spec == Init /\ [][Next]_vars

\* The event loop runs what is ready, timers fire, and a transfer ends in an
\* answer or an error.  Nothing is assumed of the user or of the server.
FairSpec ==
    /\ Spec /\ WF_vars(Queue) /\ WF_vars(Roster)
    /\ \A t \in Tasks : WF_vars(Transfer(t))

-----------------------------------------------------------------------------
Phases == {"none", "queued", "linking", "sealing", "encrypting", "sending",
           "waiting", "done", "failed", "cancelled"}
Over == {"done", "failed", "cancelled"}

TypeOK ==
    /\ form \in [confirmed : BOOLEAN, locked : BOOLEAN]
    /\ chain \in Seq(Tasks) /\ current \in Tasks \cup {NoTask}
    /\ task \in [Tasks -> [phase : Phases, aborted : BOOLEAN,
                           tries : 0 .. NET_ATTEMPTS, link : 0 .. MaxLinks]]
    /\ size \in [Files -> {"unknown", "fits", "too large"}] /\ button \in [Files -> 0 .. MaxRuns + 2]
    /\ batch \in [link : 0 .. MaxLinks, count : Nat, roster : SUBSET Rows,
                  seq : Nat, panel : BOOLEAN]
    /\ records \in Seq(Rows)
    /\ recording \in [step : {"idle", "hashing", "sealing", "sending"}, link : 0 .. MaxLinks,
                      files : SUBSET Rows]
    /\ wire \subseteq Rows /\ stored \subseteq Rows \X Links
    /\ links \in 0 .. MaxLinks
    /\ posts \subseteq [link : Links, seq : Nat, of : Links, files : SUBSET Rows]
    /\ sealed \in [Links -> [seq : Nat, of : 0 .. MaxLinks, files : SUBSET Rows]]

\* The stored roster of a link never loses a member, in whatever order the
\* updates arrive that the client sent, gave up on or had refused
\* (handlers_batch.go:205 keeps the highest number).
RosterGrows ==
    [][\A l \in Links : sealed[l].files \subseteq sealed'[l].files]_vars

\* What the server holds for a link was sealed for that link, even if a new one
\* was started between two steps of recording a file; and when the latest list
\* is in place, it vouches for every file of the link whose upload the client
\* saw succeed: none is lost between two updates (app.js:3500).
RosterComplete ==
    /\ \A l \in Links : sealed[l].seq > 0 => sealed[l].of = l
    /\ records = <<>> /\ batch.link # 0 /\ sealed[batch.link].seq = batch.seq
          => \A t \in Tasks :
                task[t].phase = "done" /\ task[t].link = batch.link
                    => Last(t) \in sealed[batch.link].files

\* A failure or a cancellation does not stall the queue: the page always comes
\* to rest, every file that was queued being sent, failed or cancelled
\* (app.js:3093).  As a file is called MaxRuns times at most, that is as much as
\* to say that every call that is queued ends.
QueueDrains == []<>(\A t \in Tasks : task[t].phase \in Over \cup {"none"})
=============================================================================
