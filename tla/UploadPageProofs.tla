-------------------------- MODULE UploadPageProofs --------------------------
(***************************************************************************)
(* The sealed roster of a link, for any files, retries, links and orders   *)
(* of messages: it never loses a member, it is never stored under another  *)
(* link, and once it has caught up it names every file of the link that    *)
(* the client saw stored.                                                  *)
(***************************************************************************)
EXTENDS UploadPage, SequenceTheorems, TLAPS

(* A call waits once, runs alone, and has a link before it has a body.     *)
ChainInv ==
    /\ \A i \in 1 .. Len(chain) : task[chain[i]].phase = "queued"
    /\ \A i, j \in 1 .. Len(chain) : chain[i] = chain[j] => i = j
CurrentInv ==
    current # NoTask => task[current].phase \in {"linking", "sealing", "encrypting"}
LinkInv ==
    \A t \in Tasks :
       /\ task[t].phase \in {"sealing", "encrypting", "sending", "waiting"} => task[t].link \in Links
       /\ task[t].phase = "waiting" => task[t].tries < NET_ATTEMPTS
WireInv ==
    \A r \in wire :
       task[r[1]].link \in Links /\ task[r[1]].phase \notin {"none", "queued", "linking"}
CallsInv == ChainInv /\ CurrentInv /\ LinkInv /\ WireInv

(* A link is new when it is made: nothing bears its number yet.            *)
FreshInv ==
    /\ batch.link <= links
    /\ \A t \in Tasks : task[t].link <= links
    /\ \A p \in posts : p.link <= links
    /\ \A l \in Links : l > links => sealed[l].seq = 0 /\ sealed[l].files = {}

(* Where a file that is done is recorded: it waits, it is in the list, or  *)
(* it belongs to a link that was put away.                                 *)
Waits(r) == \E i \in 1 .. Len(records) : records[i] = r
Elsewhere(r) == batch.link = 0 \/ task[r[1]].link # batch.link
RecordInv ==
    /\ \A i \in 1 .. Len(records) : task[records[i][1]].phase = "done"
    /\ batch.link # 0 => \A t \in Tasks :
          task[t].phase = "done" /\ task[t].link = batch.link =>
             Last(t) \in batch.roster \/ Waits(Last(t))
    /\ recording.step # "idle" => records # <<>>
    /\ recording.step \in {"hashing", "sealing"} => recording.link # 0
    /\ recording.step = "hashing" => batch.link = recording.link \/ Elsewhere(Head(records))
    /\ recording.step \in {"sealing", "sending"} =>
          Head(records) \in batch.roster \/ Elsewhere(Head(records))

(* The list in the browser is at least as long as any that was sent, and   *)
(* the one with its number is that list.                                   *)
NewestInv ==
    /\ batch.seq = 0 => batch.roster = {}
    /\ recording.step = "sealing" /\ batch.seq > 0 =>
          recording.link = batch.link /\ recording.files = batch.roster
    /\ \A p \in posts : p.link = batch.link /\ p.seq > 0 =>
          /\ p.seq <= batch.seq /\ p.files \subseteq batch.roster
          /\ p.seq = batch.seq => p.files = batch.roster
    /\ batch.link # 0 =>
          /\ sealed[batch.link].seq <= batch.seq
          /\ sealed[batch.link].files \subseteq batch.roster
          /\ sealed[batch.link].seq = batch.seq => sealed[batch.link].files = batch.roster

(* A list with a higher number contains those with a lower one.            *)
OrderInv ==
    /\ \A p, q \in posts : p.link = q.link /\ 0 < p.seq /\ p.seq < q.seq => p.files \subseteq q.files
    /\ \A p \in posts : sealed[p.link].seq < p.seq => sealed[p.link].files \subseteq p.files
    /\ \A p \in posts : p.seq > 0 => p.of = p.link
    /\ \A l \in Links : sealed[l].seq > 0 => sealed[l].of = l

IInv == TypeOK /\ CallsInv /\ FreshInv /\ RecordInv /\ NewestInv /\ OrderInv

-----------------------------------------------------------------------------
(* The types, by name.                                                     *)
Call == [phase : Phases, aborted : BOOLEAN, tries : 0 .. NET_ATTEMPTS, link : 0 .. MaxLinks]
Calls == [Tasks -> Call]
Buttons == [Files -> 0 .. MaxRuns + 2]
Batch == [link : 0 .. MaxLinks, count : Nat, roster : SUBSET Rows, seq : Nat, panel : BOOLEAN]
Recording == [step : {"idle", "hashing", "sealing", "sending"}, link : 0 .. MaxLinks,
              files : SUBSET Rows]
Posts == [link : Links, seq : Nat, of : Links, files : SUBSET Rows]
Sealed == [Links -> [seq : Nat, of : 0 .. MaxLinks, files : SUBSET Rows]]

UploadTyped ==
    /\ form \in [confirmed : BOOLEAN, locked : BOOLEAN]
    /\ size \in [Files -> {"unknown", "fits", "too large"}]
    /\ chain \in Seq(Tasks) /\ current \in Tasks \cup {NoTask}
    /\ task \in Calls /\ button \in Buttons
RosterTyped ==
    /\ batch \in Batch /\ records \in Seq(Rows) /\ recording \in Recording
    /\ posts \subseteq Posts /\ sealed \in Sealed
WireTyped ==
    /\ wire \subseteq Rows /\ stored \subseteq Rows \X Links /\ links \in 0 .. MaxLinks

LEMMA TypesByName ==
  /\ TypeOK <=> UploadTyped /\ RosterTyped /\ WireTyped
  /\ TypeOK' <=> UploadTyped' /\ RosterTyped' /\ WireTyped'
BY DEF TypeOK, UploadTyped, RosterTyped, WireTyped, Calls, Call, Buttons, Batch, Recording,
   Posts, Sealed

LEMMA FirstCall ==
  ASSUME NEW f \in Files, NEW n \in 1 .. MaxRuns PROVE <<f, n>> \in Tasks
BY DEF Tasks

LEMMA TaskFile ==
  ASSUME NEW t \in Tasks PROVE t[1] \in Files
BY DEF Tasks

LEMMA RowTask ==
  ASSUME NEW r \in Rows PROVE r[1] \in Tasks
BY DEF Rows

LEMMA AppendTyped ==
  ASSUME NEW S, NEW q \in Seq(S), NEW e \in S PROVE Append(q, e) \in Seq(S)
OBVIOUS

LEMMA TailTyped ==
  ASSUME NEW S, NEW q \in Seq(S), q # <<>> PROVE Head(q) \in S /\ Tail(q) \in Seq(S)
OBVIOUS

LEMMA HeadFirst ==
  ASSUME NEW S, NEW q \in Seq(S), q # <<>> PROVE 1 \in 1 .. Len(q) /\ q[1] = Head(q)
OBVIOUS

LEMMA PhaseOnly ==
  ASSUME task \in Calls, NEW t \in Tasks, NEW p, task' = [task EXCEPT ![t].phase = p]
  PROVE  /\ task'[t].phase = p /\ task'[t].link = task[t].link /\ task'[t].tries = task[t].tries
         /\ \A u \in Tasks \ {t} : task'[u] = task[u]
BY DEF Calls, Call

(* A call gets another phase; or a link, or the number of its transfer,    *)
(* with it.                                                                *)
LEMMA PhaseTyped ==
  ASSUME task \in Calls, NEW t \in Tasks, NEW p \in Phases
  PROVE  /\ [task EXCEPT ![t].phase = p] \in Calls
         /\ \A l \in 0 .. MaxLinks : [task EXCEPT ![t].phase = p, ![t].link = l] \in Calls
         /\ \A n \in 0 .. NET_ATTEMPTS : [task EXCEPT ![t].phase = p, ![t].tries = n] \in Calls
BY DEF Calls, Call

(* The list grows; the panel is shown, or the count goes up.               *)
LEMMA BatchTyped ==
  ASSUME batch \in Batch
  PROVE  /\ \A s \in SUBSET Rows : [batch EXCEPT !.roster = s, !.seq = @ + 1] \in Batch
         /\ \A b \in BOOLEAN : [batch EXCEPT !.count = @ + 1, !.panel = b] \in Batch
<1>1. batch.seq + 1 \in Nat /\ batch.count + 1 \in Nat
  BY DEF Batch
<1>2. ASSUME NEW s \in SUBSET Rows, NEW n \in Nat
      PROVE  [batch EXCEPT !.roster = s, !.seq = n] \in Batch
  BY DEF Batch
<1>3. ASSUME NEW b \in BOOLEAN, NEW n \in Nat
      PROVE  [batch EXCEPT !.count = n, !.panel = b] \in Batch
  BY DEF Batch
<1> QED
  BY <1>1, <1>2, <1>3

LEMMA ShowsTyped ==
  ASSUME button \in Buttons, NEW f \in Files, NEW b \in 0 .. MaxRuns + 2, Shows(f, b)
  PROVE  button' \in Buttons
BY UploadAssumption DEF Shows, Detached, Buttons

LEMMA FailsTyped ==
  ASSUME button \in Buttons, task \in Calls, NEW t \in Tasks, NEW b \in BOOLEAN, Fails(t, b)
  PROVE  button' \in Buttons /\ task' \in Calls
<1>1. task' \in Calls
  BY DEF Fails, Calls, Call, Phases
<1>2. (IF b THEN RetryButton ELSE NoButton) \in 0 .. MaxRuns + 2
  BY UploadAssumption DEF RetryButton, NoButton
<1> QED
  BY <1>1, <1>2, ShowsTyped, TaskFile DEF Fails

LEMMA UploadTypedStep ==
  TypeOK /\ CallsInv /\ [Next]_vars => UploadTyped'
<1> SUFFICES ASSUME TypeOK, CallsInv, [Next]_vars PROVE UploadTyped'
  OBVIOUS
<1>0. UploadTyped /\ RosterTyped /\ WireTyped
  BY TypesByName
<1>1. ASSUME Confirm PROVE UploadTyped'
  BY <1>0, <1>1 DEF Confirm, UploadTyped, server
<1>2. ASSUME EditStep PROVE UploadTyped'
  BY <1>0, <1>2 DEF EditStep, UploadTyped, server
<1>3. ASSUME NewLink PROVE UploadTyped'
  <2>1. button' \in Buttons
    BY <1>3, UploadAssumption DEF NewLink, Buttons, Detached, NoButton
  <2> QED
    BY <1>0, <1>3, <2>1 DEF NewLink, UploadTyped, server
<1>4. ASSUME NEW f \in Files, AddFile(f) PROVE UploadTyped'
  <2>1. <<f, 1>> \in Tasks /\ 1 \in 0 .. MaxRuns + 2
    BY FirstCall, UploadAssumption
  <2>2. task' \in Calls
    <3>1. task' = [task EXCEPT ![<<f, 1>>].phase = "queued"] /\ "queued" \in Phases
      BY <1>4 DEF AddFile, Phases
    <3> QED
      BY <1>0, <2>1, <3>1, PhaseTyped DEF UploadTyped
  <2>3. button' \in Buttons
    BY <1>0, <1>4, <2>1, ShowsTyped DEF AddFile, UploadTyped
  <2>4. chain' \in Seq(Tasks)
    BY <1>0, <1>4, <2>1, AppendTyped DEF AddFile, UploadTyped
  <2>5. size' \in [Files -> {"unknown", "fits", "too large"}]
    BY <1>0, <1>4 DEF AddFile, UploadTyped
  <2> QED
    BY <1>0, <1>4, <2>2, <2>3, <2>4, <2>5 DEF AddFile, UploadTyped
<1>5. ASSUME NEW f \in Files, Cancel(f) PROVE UploadTyped'
  <2>1. <<f, button[f]>> \in Tasks
    BY <1>5, FirstCall DEF Cancel
  <2>2. task' \in Calls
    <3>1. PICK p \in Phases :
             task' = [task EXCEPT ![<<f, button[f]>>] = [@ EXCEPT !.aborted = TRUE, !.phase = p]]
      <4>1. task[<<f, button[f]>>] \in Call
        BY <1>0, <2>1 DEF UploadTyped, Calls
      <4>2. task[<<f, button[f]>>].phase \in Phases
        BY <4>1 DEF Call
      <4>3. "cancelled" \in Phases
        BY DEF Phases
      <4> QED
        BY <1>5, <4>2, <4>3 DEF Cancel
    <3>2. \A c \in Call : [c EXCEPT !.aborted = TRUE, !.phase = p] \in Call
      BY DEF Call
    <3> QED
      BY <1>0, <2>1, <3>1, <3>2 DEF UploadTyped, Calls
  <2>3. \A b \in {NoButton, RetryButton} : b \in 0 .. MaxRuns + 2
    BY UploadAssumption DEF NoButton, RetryButton
  <2>4. button' \in Buttons
    BY <1>0, <1>5, <2>3, ShowsTyped DEF Cancel, UploadTyped
  <2> QED
    BY <1>0, <1>5, <2>2, <2>4 DEF Cancel, UploadTyped, server
<1>6. ASSUME NEW f \in Files, Retry(f) PROVE UploadTyped'
  <2>1. PICK n \in 2 .. MaxRuns :
           /\ task' = [task EXCEPT ![<<f, n>>].phase = "queued"]
           /\ chain' = Append(chain, <<f, n>>)
    BY <1>6 DEF Retry
  <2>2. <<f, n>> \in Tasks
    BY FirstCall, UploadAssumption
  <2>3. task' \in Calls
    BY <1>0, <2>1, <2>2 DEF UploadTyped, Calls, Call, Phases
  <2>4. chain' \in Seq(Tasks)
    BY <1>0, <2>1, <2>2, AppendTyped DEF UploadTyped
  <2> QED
    BY <1>0, <1>6, <2>3, <2>4 DEF Retry, UploadTyped
<1>7. ASSUME TakeNext PROVE UploadTyped'
  <2> DEFINE t == Head(chain)
  <2>1. t \in Tasks /\ chain' \in Seq(Tasks)
    BY <1>0, <1>7, TailTyped DEF TakeNext, UploadTyped
  <2>2. CASE task[t].aborted /\ task' = [task EXCEPT ![t].phase = "cancelled"]
              /\ UNCHANGED <<current, button>>
    <3>1. task' \in Calls
      BY <1>0, <2>1, <2>2 DEF UploadTyped, Calls, Call, Phases
    <3> QED
      BY <1>0, <1>7, <2>1, <2>2, <3>1 DEF TakeNext, UploadTyped
  <2>3. CASE Fails(t, FALSE) /\ UNCHANGED current
    BY <1>0, <1>7, <2>1, <2>3, FailsTyped DEF TakeNext, UploadTyped
  <2>4. CASE /\ current' = t
             /\ task' = [task EXCEPT ![t].phase = IF batch.link = 0 THEN "linking" ELSE "sealing",
                                     ![t].link = batch.link]
             /\ Shows(t[1], t[2])
    <3>1. task' \in Calls
      BY <1>0, <2>1, <2>4, PhaseTyped DEF UploadTyped, RosterTyped, Batch, Phases
    <3>2. t[1] \in Files /\ t[2] \in 0 .. MaxRuns + 2
      BY <2>1, UploadAssumption DEF Tasks
    <3>3. button' \in Buttons
      BY <1>0, <2>4, <3>2, ShowsTyped DEF UploadTyped
    <3> QED
      BY <1>0, <1>7, <2>1, <2>4, <3>1, <3>3 DEF TakeNext, UploadTyped
  <2> QED
    BY <1>7, <2>2, <2>3, <2>4 DEF TakeNext
<1>8. ASSUME EnsureBatch PROVE UploadTyped'
  <2>1. current \in Tasks
    BY <1>0, <1>8 DEF EnsureBatch, UploadTyped
  <2>2. links' \in 0 .. MaxLinks
    BY <1>0, <1>8, UploadAssumption DEF EnsureBatch, WireTyped
  <2>3. task' \in Calls
    <3>1. {"cancelled", "sealing"} \subseteq Phases
      BY DEF Phases
    <3>2. CASE task[current].aborted
      <4>1. task' = [task EXCEPT ![current].phase = "cancelled"]
        BY <1>8, <3>2 DEF EnsureBatch
      <4> QED
        BY <1>0, <2>1, <3>1, <4>1, PhaseTyped DEF UploadTyped
    <3>3. CASE ~task[current].aborted
      <4>1. task' = [task EXCEPT ![current].phase = "sealing", ![current].link = links']
        BY <1>8, <3>3 DEF EnsureBatch
      <4> QED
        BY <1>0, <2>1, <2>2, <3>1, <4>1, PhaseTyped DEF UploadTyped
    <3> QED
      BY <3>2, <3>3
  <2>4. current' \in Tasks \cup {NoTask} /\ form' \in [confirmed : BOOLEAN, locked : BOOLEAN]
    BY <1>0, <1>8 DEF EnsureBatch, UploadTyped
  <2> QED
    BY <1>0, <1>8, <2>3, <2>4 DEF EnsureBatch, UploadTyped
<1>9. ASSUME BatchFails PROVE UploadTyped'
  BY <1>0, <1>9, FailsTyped DEF BatchFails, UploadTyped, server
<1>10. ASSUME Seal PROVE UploadTyped'
  <2>1. CASE batch.link = 0
    BY <1>0, <1>10, <2>1, FailsTyped DEF Seal, UploadTyped, server
  <2>2. CASE batch.link # 0
    <3>1. task' \in Calls
      BY <1>0, <1>10, <2>2, PhaseTyped DEF Seal, UploadTyped, Phases
    <3> QED
      BY <1>0, <1>10, <2>2, <3>1 DEF Seal, UploadTyped, server
  <2> QED
    BY <2>1, <2>2
<1>11. ASSUME Encrypted PROVE UploadTyped'
  <2>1. task' \in Calls
    <3>1. current \in Tasks /\ {"cancelled", "sending"} \subseteq Phases
      BY <1>0, <1>11 DEF Encrypted, UploadTyped, Phases
    <3>2. CASE task[current].aborted
      <4>1. task' = [task EXCEPT ![current].phase = "cancelled"]
        BY <1>11, <3>2 DEF Encrypted
      <4> QED
        BY <1>0, <3>1, <4>1, PhaseTyped DEF UploadTyped
    <3>3. CASE ~task[current].aborted
      <4>1. task' = [task EXCEPT ![current].phase = "sending", ![current].tries = 1]
        BY <1>11, <3>3 DEF Encrypted
      <4>2. 1 \in 0 .. NET_ATTEMPTS
        BY UploadAssumption
      <4> QED
        BY <1>0, <3>1, <4>1, <4>2, PhaseTyped DEF UploadTyped
    <3> QED
      BY <3>2, <3>3
  <2> QED
    BY <1>0, <1>11, <2>1 DEF Encrypted, UploadTyped
<1>12. ASSUME EncryptFails PROVE UploadTyped'
  BY <1>0, <1>12, FailsTyped DEF EncryptFails, UploadTyped, server
<1>13. ASSUME Roster PROVE UploadTyped'
  BY <1>0, <1>13 DEF Roster, Record, Enlist, SendRoster, Recorded, UploadTyped, server
<1>14. ASSUME NEW t \in Tasks, Answered(t) PROVE UploadTyped'
  <2>1. task' \in Calls
    BY <1>0, <1>14 DEF Answered, UploadTyped, Calls, Call, Phases
  <2>2. NoButton \in 0 .. MaxRuns + 2
    BY UploadAssumption DEF NoButton
  <2>3. button' \in Buttons
    BY <1>0, <1>14, <2>2, TaskFile, ShowsTyped DEF Answered, UploadTyped
  <2> QED
    BY <1>0, <1>14, <2>1, <2>3 DEF Answered, UploadTyped
<1>15. ASSUME NEW t \in Tasks, Refused(t) PROVE UploadTyped'
  BY <1>0, <1>15, FailsTyped DEF Refused, UploadTyped
<1>16. ASSUME NEW t \in Tasks, NetworkError(t) PROVE UploadTyped'
  <2>1. CASE Fails(t, TRUE)
    BY <1>0, <1>16, <2>1, FailsTyped DEF NetworkError, UploadTyped
  <2>2. CASE task' = [task EXCEPT ![t].phase = "waiting"] /\ UNCHANGED button
    <3>1. task' \in Calls
      BY <1>0, <2>2 DEF UploadTyped, Calls, Call, Phases
    <3> QED
      BY <1>0, <1>16, <2>2, <3>1 DEF NetworkError, UploadTyped
  <2> QED
    BY <1>16, <2>1, <2>2 DEF NetworkError
<1>17. ASSUME NEW t \in Tasks, SendAgain(t) PROVE UploadTyped'
  <2>1. task[t].tries \in 0 .. NET_ATTEMPTS /\ task[t].tries < NET_ATTEMPTS
    BY <1>0, <1>17 DEF SendAgain, CallsInv, LinkInv, UploadTyped, Calls, Call
  <2>2. task[t].tries + 1 \in 0 .. NET_ATTEMPTS
    BY <2>1, UploadAssumption
  <2>3. task' \in Calls
    BY <1>0, <1>17, <2>2, PhaseTyped DEF SendAgain, UploadTyped, Phases
  <2> QED
    BY <1>0, <1>17, <2>3 DEF SendAgain, UploadTyped
<1>18. ASSUME NEW r \in Rows, ServerStores(r) PROVE UploadTyped'
  BY <1>0, <1>18 DEF ServerStores, UploadTyped, upload
<1>19. ASSUME NEW p \in posts, StoreRoster(p) \/ RosterRefused(p) PROVE UploadTyped'
  BY <1>0, <1>19 DEF StoreRoster, RosterRefused, UploadTyped, upload
<1>20. ASSUME UNCHANGED vars PROVE UploadTyped'
  BY <1>0, <1>20 DEF vars, UploadTyped
<1> QED
  BY <1>1, <1>2, <1>3, <1>4, <1>5, <1>6, <1>7, <1>8, <1>9, <1>10, <1>11, <1>12, <1>13,
     <1>14, <1>15, <1>16, <1>17, <1>18, <1>19, <1>20 DEF Next, User, Queue, Transfer

LEMMA WireTypedStep ==
  TypeOK /\ CallsInv /\ [Next]_vars => WireTyped'
<1> SUFFICES ASSUME TypeOK, CallsInv, [Next]_vars PROVE WireTyped'
  OBVIOUS
<1>0. UploadTyped /\ RosterTyped /\ WireTyped
  BY TypesByName
<1>1. ASSUME User \/ TakeNext \/ BatchFails \/ Seal \/ EncryptFails \/ Roster PROVE WireTyped'
  BY <1>0, <1>1 DEF User, Confirm, EditStep, NewLink, AddFile, Cancel, Retry, TakeNext, BatchFails,
     Seal, EncryptFails, Roster, Record, Enlist, SendRoster, Recorded, WireTyped, server
<1>2. ASSUME EnsureBatch PROVE WireTyped'
  BY <1>0, <1>2, UploadAssumption DEF EnsureBatch, WireTyped
<1>3. ASSUME Encrypted PROVE WireTyped'
  <2>1. CASE task[current].aborted
    BY <1>0, <1>3, <2>1 DEF Encrypted, WireTyped
  <2>2. CASE ~task[current].aborted
    <3>1. current \in Tasks
      BY <1>0, <1>3 DEF Encrypted, UploadTyped
    <3>2. task'[current].tries = 1
      BY <1>0, <1>3, <2>2, <3>1 DEF Encrypted, UploadTyped, Calls, Call
    <3>3. Sent(current) \in Rows
      BY <3>1, <3>2, UploadAssumption DEF Sent, Rows
    <3> QED
      BY <1>0, <1>3, <2>2, <3>3 DEF Encrypted, WireTyped
  <2> QED
    BY <2>1, <2>2
<1>4. ASSUME NEW t \in Tasks, Answered(t) \/ Refused(t) \/ NetworkError(t) PROVE WireTyped'
  BY <1>0, <1>4 DEF Answered, Refused, NetworkError, WireTyped, server
<1>5. ASSUME NEW t \in Tasks, SendAgain(t) PROVE WireTyped'
  <2>1. task[t].tries \in 0 .. NET_ATTEMPTS /\ task[t].tries < NET_ATTEMPTS
    BY <1>0, <1>5 DEF SendAgain, CallsInv, LinkInv, UploadTyped, Calls, Call
  <2>2. task'[t].tries = task[t].tries + 1
    BY <1>0, <1>5 DEF SendAgain, UploadTyped, Calls, Call
  <2>3. task'[t].tries \in 1 .. NET_ATTEMPTS
    BY <2>1, <2>2, UploadAssumption
  <2>4. Sent(t) \in Rows
    BY <2>3 DEF Sent, Rows
  <2> QED
    BY <1>0, <1>5, <2>4 DEF SendAgain, WireTyped
<1>6. ASSUME NEW r \in Rows, ServerStores(r) PROVE WireTyped'
  <2>1. task[r[1]].link \in Links
    BY <1>6 DEF ServerStores, CallsInv, WireInv
  <2> QED
    BY <1>0, <1>6, <2>1 DEF ServerStores, WireTyped
<1>7. ASSUME NEW p \in posts, StoreRoster(p) \/ RosterRefused(p) PROVE WireTyped'
  BY <1>0, <1>7 DEF StoreRoster, RosterRefused, WireTyped
<1>8. ASSUME UNCHANGED vars PROVE WireTyped'
  BY <1>0, <1>8 DEF vars, WireTyped
<1> QED
  BY <1>1, <1>2, <1>3, <1>4, <1>5, <1>6, <1>7, <1>8 DEF Next, Queue, Transfer

LEMMA RosterTypedStep ==
  TypeOK /\ RecordInv /\ [Next]_vars => RosterTyped'
<1> SUFFICES ASSUME TypeOK, RecordInv, [Next]_vars PROVE RosterTyped'
  OBVIOUS
<1>0. UploadTyped /\ RosterTyped /\ WireTyped
  BY TypesByName
<1>1. ASSUME \/ \E f \in Files : AddFile(f) \/ Cancel(f) \/ Retry(f)
             \/ Confirm \/ EditStep \/ TakeNext \/ BatchFails \/ Seal \/ Encrypted \/ EncryptFails
             \/ \E t \in Tasks : Refused(t) \/ NetworkError(t) \/ SendAgain(t)
             \/ \E r \in Rows : ServerStores(r)
      PROVE  RosterTyped'
  BY <1>0, <1>1 DEF Confirm, EditStep, AddFile, Cancel, Retry, TakeNext, BatchFails, Seal, Encrypted,
     EncryptFails, Refused, NetworkError, SendAgain, ServerStores, RosterTyped, upload, server
<1>2. ASSUME NewLink PROVE RosterTyped'
  <2>1. batch' \in Batch
    BY <1>2, UploadAssumption DEF NewLink, NoLink, Batch
  <2> QED
    BY <1>0, <1>2, <2>1 DEF NewLink, RosterTyped, server
<1>3. ASSUME EnsureBatch PROVE RosterTyped'
  <2>1. links' \in 0 .. MaxLinks
    BY <1>0, <1>3, UploadAssumption DEF EnsureBatch, WireTyped
  <2>2. batch' \in Batch
    BY <1>0, <1>3, <2>1 DEF EnsureBatch, RosterTyped, Batch
  <2> QED
    BY <1>0, <1>3, <2>2 DEF EnsureBatch, RosterTyped
<1>4. ASSUME NEW t \in Tasks, Answered(t) PROVE RosterTyped'
  <2>1. Last(t) \in Rows
    BY <1>0, <1>4 DEF Answered, Holds, WireTyped
  <2>2. records' \in Seq(Rows)
    BY <1>0, <1>4, <2>1, AppendTyped DEF Answered, RosterTyped
  <2>3. batch' \in Batch
    <3> DEFINE open == batch.panel \/ batch.link # 0
    <3>1. open \in BOOLEAN
      OBVIOUS
    <3>2. batch' = [batch EXCEPT !.count = @ + 1, !.panel = open]
      BY <1>4 DEF Answered
    <3> HIDE DEF open
    <3> QED
      BY <1>0, <3>1, <3>2, BatchTyped DEF RosterTyped
  <2> QED
    BY <1>0, <1>4, <2>2, <2>3 DEF Answered, RosterTyped, server
<1>5. ASSUME Record PROVE RosterTyped'
  <2>1. CASE batch.link = 0
    BY <1>0, <1>5, <2>1, TailTyped DEF Record, RosterTyped, server
  <2>2. CASE batch.link # 0
    <3>1. recording' \in Recording
      BY <1>0, <1>5, <2>2 DEF Record, RosterTyped, Recording, Batch
    <3> QED
      BY <1>0, <1>5, <2>2, <3>1 DEF Record, RosterTyped, server
  <2> QED
    BY <2>1, <2>2
<1>6. ASSUME Enlist PROVE RosterTyped'
  <2>1. Head(records) \in Rows /\ Tail(records) \in Seq(Rows)
    BY <1>0, <1>6, TailTyped DEF Enlist, RecordInv, RosterTyped
  <2>2. Listed \in SUBSET Rows
    BY <1>0, <2>1 DEF Listed, RosterTyped, Batch
  <2>3. batch' \in Batch
    BY <1>0, <1>6, <2>2, BatchTyped DEF Enlist, Numbered, RosterTyped
  <2>4. NotRecording \in Recording /\ batch.link \in 0 .. MaxLinks
    BY <1>0, UploadAssumption DEF NotRecording, RosterTyped, Recording, Batch
  <2>5. [step |-> "sealing", link |-> batch.link, files |-> Listed] \in Recording
    BY <2>2, <2>4 DEF Recording
  <2>6. recording' \in Recording /\ records' \in Seq(Rows)
    BY <1>0, <1>6, <2>1, <2>4, <2>5 DEF Enlist, RosterTyped
  <2> QED
    BY <1>0, <1>6, <2>3, <2>6 DEF Enlist, RosterTyped, server
<1>7. ASSUME SendRoster PROVE RosterTyped'
  <2>1. recording' \in Recording
    BY <1>7, UploadAssumption DEF SendRoster, NotRecording, Recording
  <2>2. ASSUME batch.link # 0
        PROVE  [link |-> batch.link, seq |-> batch.seq, of |-> recording.link,
                files |-> recording.files] \in Posts
    <3>1. batch.link \in Links /\ recording.link \in Links
      BY <1>0, <1>7, <2>2, UploadAssumption
         DEF SendRoster, RecordInv, RosterTyped, Recording, Batch, Links
    <3> QED
      BY <1>0, <3>1 DEF RosterTyped, Recording, Batch, Posts
  <2>3. posts' \subseteq Posts
    BY <1>0, <1>7, <2>2 DEF SendRoster, RosterTyped
  <2> QED
    BY <1>0, <1>7, <2>1, <2>3 DEF SendRoster, RosterTyped
<1>8. ASSUME Recorded PROVE RosterTyped'
  <2>1. recording' \in Recording
    BY <1>8, UploadAssumption DEF Recorded, NotRecording, Recording
  <2>2. records' \in Seq(Rows)
    <3>1. records \in Seq(Rows) /\ records # <<>> /\ records' = Tail(records)
      BY <1>0, <1>8 DEF Recorded, RecordInv, RosterTyped
    <3> QED
      BY <3>1, TailTyped
  <2> QED
    BY <1>0, <1>8, <2>1, <2>2 DEF Recorded, RosterTyped, server
<1>9. ASSUME NEW p \in posts, StoreRoster(p) PROVE RosterTyped'
  <2>1. sealed' \in Sealed
    <3>1. /\ p \in Posts /\ sealed \in Sealed
          /\ [seq |-> p.seq, of |-> p.of, files |-> p.files] \in
                [seq : Nat, of : 0 .. MaxLinks, files : SUBSET Rows]
      BY <1>0, UploadAssumption DEF RosterTyped, Posts, Links
    <3>2. \/ sealed' = sealed
          \/ sealed' = [sealed EXCEPT ![p.link] = [seq |-> p.seq, of |-> p.of, files |-> p.files]]
      BY <1>9 DEF StoreRoster
    <3> QED
      BY <3>1, <3>2 DEF Sealed
  <2> QED
    BY <1>0, <1>9, <2>1 DEF StoreRoster, RosterTyped, upload
<1>10. ASSUME NEW p \in posts, RosterRefused(p) PROVE RosterTyped'
  BY <1>0, <1>10 DEF RosterRefused, RosterTyped, upload
<1>11. ASSUME UNCHANGED vars PROVE RosterTyped'
  BY <1>0, <1>11 DEF vars, RosterTyped
<1> QED
  BY <1>1, <1>2, <1>3, <1>4, <1>5, <1>6, <1>7, <1>8, <1>9, <1>10, <1>11
     DEF Next, User, Queue, Transfer, Roster

-----------------------------------------------------------------------------
(* The calls.                                                              *)

(* A call gets on, and no call gets into the queue: the queue stays as it  *)
(* is, or loses this call; what is on the wire keeps its link.             *)
Advances(t) ==
    /\ \A u \in Tasks \ {t} : task'[u] = task[u]
    /\ \/ UNCHANGED chain /\ (task[t].phase = "queued" => task'[t].phase = "queued")
       \/ chain # <<>> /\ t = Head(chain) /\ chain' = Tail(chain)
    /\ current' # NoTask =>
          /\ current' \in {t, current}
          /\ t = current' => task'[t].phase \in {"linking", "sealing", "encrypting"}
    /\ task'[t].phase \in {"sealing", "encrypting", "sending", "waiting"} => task'[t].link \in Links
    /\ task'[t].phase = "waiting" => task'[t].tries < NET_ATTEMPTS
    /\ \A r \in wire' : r \in wire \/ r[1] = t
    /\ (\E r \in wire' : r[1] = t) =>
          task'[t].link \in Links /\ task'[t].phase \notin {"none", "queued", "linking"}

LEMMA CallAdvances ==
  ASSUME TypeOK, TypeOK', CallsInv, NEW t \in Tasks, Advances(t)
  PROVE  CallsInv'
<1>1. chain \in Seq(Tasks) /\ wire' \subseteq Rows
  BY DEF TypeOK
<1>2. ChainInv'
  <2>1. CASE UNCHANGED chain /\ (task[t].phase = "queued" => task'[t].phase = "queued")
    BY <1>1, <2>1 DEF CallsInv, ChainInv, Advances
  <2>2. CASE chain # <<>> /\ t = Head(chain) /\ chain' = Tail(chain)
    <3>1. /\ 1 \in 1 .. Len(chain) /\ chain[1] = t
          /\ \A i \in 1 .. Len(chain') : i + 1 \in 1 .. Len(chain) /\ chain'[i] = chain[i + 1]
      BY <1>1, <2>2
    <3>2. \A i \in 1 .. Len(chain') : chain'[i] \in Tasks \ {t}
      BY <1>1, <3>1 DEF CallsInv, ChainInv
    <3> QED
      BY <3>1, <3>2 DEF CallsInv, ChainInv, Advances
  <2> QED
    BY <2>1, <2>2 DEF Advances
<1>3. CurrentInv'
  <2>1. current \in Tasks \cup {NoTask}
    BY TypesByName DEF UploadTyped
  <2> QED
    BY <2>1 DEF CallsInv, CurrentInv, Advances
<1>4. LinkInv'
  BY DEF CallsInv, LinkInv, Advances
<1>5. WireInv'
  BY <1>1, RowTask DEF CallsInv, WireInv, Advances
<1> QED
  BY <1>2, <1>3, <1>4, <1>5 DEF CallsInv

(* A call is queued.                                                       *)
LEMMA CallQueued ==
  ASSUME TypeOK, TypeOK', CallsInv, NEW t \in Tasks, task[t].phase = "none",
         task' = [task EXCEPT ![t].phase = "queued"], chain' = Append(chain, t),
         UNCHANGED <<current, wire>>
  PROVE  CallsInv'
<1>1. /\ chain \in Seq(Tasks) /\ wire \subseteq Rows /\ current \in Tasks \cup {NoTask}
      /\ task'[t].phase = "queued" /\ \A u \in Tasks \ {t} : task'[u] = task[u]
  BY TypesByName DEF UploadTyped, WireTyped, Calls, Call
<1>2. ChainInv'
  <2>1. /\ Len(chain') = Len(chain) + 1 /\ chain'[Len(chain) + 1] = t
        /\ \A i \in 1 .. Len(chain) : chain'[i] = chain[i] /\ chain[i] \in Tasks
    BY <1>1
  <2>2. \A i \in 1 .. Len(chain) : chain[i] # t
    BY DEF CallsInv, ChainInv
  <2>3. \A i \in 1 .. Len(chain') : i \in 1 .. Len(chain) \/ i = Len(chain) + 1
    BY <1>1, <2>1
  <2> QED
    BY <1>1, <2>1, <2>2, <2>3 DEF CallsInv, ChainInv
<1>3. CurrentInv' /\ LinkInv'
  BY <1>1 DEF CallsInv, CurrentInv, LinkInv
<1>4. WireInv'
  BY <1>1, RowTask DEF CallsInv, WireInv
<1> QED
  BY <1>2, <1>3, <1>4 DEF CallsInv

LEMMA CallsStep ==
  TypeOK /\ TypeOK' /\ CallsInv /\ [Next]_vars => CallsInv'
<1> SUFFICES ASSUME TypeOK, TypeOK', CallsInv, [Next]_vars PROVE CallsInv'
  OBVIOUS
<1>0. UploadTyped /\ RosterTyped /\ WireTyped
  BY TypesByName
<1>1. ASSUME UNCHANGED <<chain, current, task, wire>> PROVE CallsInv'
  BY <1>1 DEF CallsInv, ChainInv, CurrentInv, LinkInv, WireInv
<1>2. ASSUME NEW f \in Files, AddFile(f) PROVE CallsInv'
  <2>1. <<f, 1>> \in Tasks
    BY FirstCall, UploadAssumption
  <2> QED
    BY <1>2, <2>1, CallQueued DEF AddFile, server
<1>3. ASSUME NEW f \in Files, Retry(f) PROVE CallsInv'
  <2>1. PICK n \in 2 .. MaxRuns :
           /\ task[<<f, n>>].phase = "none"
           /\ task' = [task EXCEPT ![<<f, n>>].phase = "queued"]
           /\ chain' = Append(chain, <<f, n>>)
    BY <1>3 DEF Retry
  <2>2. <<f, n>> \in Tasks
    BY FirstCall, UploadAssumption
  <2> QED
    BY <1>3, <2>1, <2>2, CallQueued DEF Retry, server
<1>4. ASSUME NEW f \in Files, Cancel(f) PROVE CallsInv'
  <2> DEFINE t == <<f, button[f]>>
  <2>1. t \in Tasks
    BY <1>4, FirstCall DEF Cancel
  <2>2. /\ task'[t].link = task[t].link /\ task'[t].tries = task[t].tries
        /\ task'[t].phase = IF task[t].phase \in {"sending", "waiting"} THEN "cancelled" ELSE task[t].phase
        /\ \A u \in Tasks \ {t} : task'[u] = task[u]
    BY <1>0, <1>4, <2>1 DEF Cancel, UploadTyped, Calls, Call
  <2>3. UNCHANGED <<chain, current, wire>>
    BY <1>4 DEF Cancel, server
  <2> HIDE DEF t
  <2>4. Advances(t)
    BY <2>1, <2>2, <2>3 DEF Advances, CallsInv, LinkInv, WireInv, CurrentInv
  <2> QED
    BY <2>1, <2>4, CallAdvances
<1>5. ASSUME TakeNext PROVE CallsInv'
  <2> DEFINE t == Head(chain)
  <2>1. /\ t \in Tasks /\ chain # <<>> /\ t = Head(chain) /\ chain' = Tail(chain)
        /\ wire' = wire /\ current = NoTask
    BY <1>0, <1>5, TailTyped DEF TakeNext, UploadTyped, server
  <2>2. 1 \in 1 .. Len(chain) /\ chain[1] = t
    BY <1>0, <2>1, HeadFirst DEF UploadTyped
  <2>3. \A r \in wire : r[1] # t
    BY <2>2 DEF CallsInv, ChainInv, WireInv
  <2>4. \A u \in Tasks \ {t} : task'[u] = task[u]
    BY <1>0, <1>5, <2>1 DEF TakeNext, Fails, UploadTyped, Calls
  <2>5. ASSUME task'[t].phase \in {"cancelled", "failed"}, UNCHANGED current PROVE Advances(t)
    <3> HIDE DEF t
    <3> QED
      BY <2>1, <2>3, <2>4, <2>5 DEF Advances
  <2>6. ASSUME current' = t,
               task' = [task EXCEPT ![t].phase = IF batch.link = 0 THEN "linking" ELSE "sealing",
                                    ![t].link = batch.link]
        PROVE  Advances(t)
    <3>1. /\ task'[t].phase = IF batch.link = 0 THEN "linking" ELSE "sealing"
          /\ task'[t].link = batch.link
      BY <1>0, <2>1, <2>6 DEF UploadTyped, Calls, Call
    <3>2. batch.link # 0 => batch.link \in Links
      BY <1>0, UploadAssumption DEF RosterTyped, Batch, Links
    <3>3. current' = t
      BY <2>6
    <3> HIDE DEF t
    <3>4. CASE batch.link = 0
      BY <2>1, <2>3, <2>4, <3>1, <3>3, <3>4 DEF Advances
    <3>5. CASE batch.link # 0
      BY <2>1, <2>3, <2>4, <3>1, <3>2, <3>3, <3>5 DEF Advances
    <3> QED
      BY <3>4, <3>5
  <2>7. \/ task' = [task EXCEPT ![t].phase = "cancelled"] /\ UNCHANGED current
        \/ task' = [task EXCEPT ![t].phase = "failed"] /\ UNCHANGED current
        \/ /\ current' = t
           /\ task' = [task EXCEPT ![t].phase = IF batch.link = 0 THEN "linking" ELSE "sealing",
                                   ![t].link = batch.link]
    BY <1>5 DEF TakeNext, Fails
  <2>8. Advances(t)
    <3> HIDE DEF t
    <3>1. CASE task' = [task EXCEPT ![t].phase = "cancelled"] /\ UNCHANGED current
      BY <1>0, <2>1, <2>5, <3>1, PhaseOnly DEF UploadTyped
    <3>2. CASE task' = [task EXCEPT ![t].phase = "failed"] /\ UNCHANGED current
      BY <1>0, <2>1, <2>5, <3>2, PhaseOnly DEF UploadTyped
    <3> QED
      BY <2>6, <2>7, <3>1, <3>2
  <2> QED
    BY <2>1, <2>8, CallAdvances
<1>6. ASSUME BatchFails \/ EncryptFails \/ (Seal /\ batch.link = 0) PROVE CallsInv'
  <2>1. /\ current \in Tasks /\ current' = NoTask /\ UNCHANGED <<chain, wire>>
        /\ task[current].phase \in {"linking", "sealing", "encrypting"}
        /\ task' = [task EXCEPT ![current].phase = "failed"]
    BY <1>0, <1>6 DEF BatchFails, EncryptFails, Seal, Fails, UploadTyped, server
  <2>2. /\ task'[current].phase = "failed" /\ task'[current].link = task[current].link
        /\ \A u \in Tasks \ {current} : task'[u] = task[u]
    BY <1>0, <2>1 DEF UploadTyped, Calls, Call
  <2>3. Advances(current)
    BY <2>1, <2>2 DEF Advances, CallsInv, WireInv
  <2> QED
    BY <2>1, <2>3, CallAdvances
<1>7. ASSUME EnsureBatch PROVE CallsInv'
  <2>1. /\ current \in Tasks /\ task[current].phase = "linking" /\ UNCHANGED <<chain, wire>>
    BY <1>0, <1>7 DEF EnsureBatch, UploadTyped
  <2>2. \A r \in wire : r[1] # current
    BY <2>1 DEF CallsInv, WireInv
  <2>3. CASE task[current].aborted
    <3>1. /\ task'[current].phase = "cancelled" /\ current' = NoTask
          /\ \A u \in Tasks \ {current} : task'[u] = task[u]
      BY <1>0, <1>7, <2>1, <2>3, PhaseOnly DEF EnsureBatch, UploadTyped
    <3>2. Advances(current)
      BY <2>1, <2>2, <3>1 DEF Advances
    <3> QED
      BY <2>1, <3>2, CallAdvances
  <2>4. CASE ~task[current].aborted
    <3>1. task' = [task EXCEPT ![current].phase = "sealing", ![current].link = links'] /\ current' = current
      BY <1>7, <2>4 DEF EnsureBatch
    <3>2. links' \in Links
      BY <1>0, <1>7, UploadAssumption DEF EnsureBatch, WireTyped, Links
    <3>3. /\ task'[current].phase = "sealing" /\ task'[current].link = links'
          /\ \A u \in Tasks \ {current} : task'[u] = task[u]
      BY <1>0, <2>1, <3>1 DEF UploadTyped, Calls, Call
    <3>4. Advances(current)
      BY <2>1, <2>2, <3>1, <3>2, <3>3 DEF Advances
    <3> QED
      BY <2>1, <3>4, CallAdvances
  <2> QED
    BY <2>3, <2>4
<1>8. ASSUME Seal, batch.link # 0 PROVE CallsInv'
  <2>1. /\ current \in Tasks /\ task[current].phase = "sealing"
        /\ UNCHANGED <<chain, wire, current>>
        /\ task' = [task EXCEPT ![current].phase = "encrypting"]
    BY <1>0, <1>8 DEF Seal, UploadTyped, server
  <2>2. /\ task'[current].phase = "encrypting" /\ task'[current].link = task[current].link
        /\ \A u \in Tasks \ {current} : task'[u] = task[u]
    BY <1>0, <2>1 DEF UploadTyped, Calls, Call
  <2>3. Advances(current)
    BY <2>1, <2>2 DEF Advances, CallsInv, LinkInv, WireInv
  <2> QED
    BY <2>1, <2>3, CallAdvances
<1>9. ASSUME Encrypted PROVE CallsInv'
  <2>1. /\ current \in Tasks /\ task[current].phase = "encrypting" /\ current' = NoTask
        /\ UNCHANGED chain
    BY <1>0, <1>9 DEF Encrypted, UploadTyped
  <2>2. task[current].link \in Links
    BY <2>1 DEF CallsInv, LinkInv
  <2>3. \A r \in wire' : r \in wire \/ r[1] = current
    BY <1>9 DEF Encrypted, Sent
  <2>4. CASE task[current].aborted
    <3>1. /\ task'[current].phase = "cancelled" /\ task'[current].link = task[current].link
          /\ \A u \in Tasks \ {current} : task'[u] = task[u]
      BY <1>0, <1>9, <2>1, <2>4, PhaseOnly DEF Encrypted, UploadTyped
    <3>2. Advances(current)
      BY <2>1, <2>2, <2>3, <3>1 DEF Advances
    <3> QED
      BY <2>1, <3>2, CallAdvances
  <2>5. CASE ~task[current].aborted
    <3>1. task' = [task EXCEPT ![current].phase = "sending", ![current].tries = 1]
      BY <1>9, <2>5 DEF Encrypted
    <3>2. /\ task'[current].phase = "sending" /\ task'[current].link = task[current].link
          /\ \A u \in Tasks \ {current} : task'[u] = task[u]
      BY <1>0, <2>1, <3>1 DEF UploadTyped, Calls, Call
    <3>3. Advances(current)
      BY <2>1, <2>2, <2>3, <3>2 DEF Advances
    <3> QED
      BY <2>1, <3>3, CallAdvances
  <2> QED
    BY <2>4, <2>5
<1>10. ASSUME NEW t \in Tasks, Answered(t) \/ Refused(t) \/ NetworkError(t) PROVE CallsInv'
  <2>1. UNCHANGED <<chain, current>> /\ task[t].phase = "sending" /\ wire' \subseteq wire
    BY <1>10 DEF Answered, Refused, NetworkError, server
  <2>2. \/ task' = [task EXCEPT ![t].phase = "done"]
        \/ task' = [task EXCEPT ![t].phase = "failed"]
        \/ task' = [task EXCEPT ![t].phase = "waiting"] /\ task[t].tries < NET_ATTEMPTS
    BY <1>10 DEF Answered, Refused, NetworkError, Fails
  <2>3. \A u \in Tasks \ {t} : task'[u] = task[u]
    BY <1>0, <2>2 DEF UploadTyped, Calls
  <2>4. /\ task'[t].phase \in {"done", "failed", "waiting"}
        /\ task'[t].link = task[t].link
        /\ task'[t].phase = "waiting" => task'[t].tries < NET_ATTEMPTS
    <3>1. task \in Calls
      BY <1>0 DEF UploadTyped
    <3>2. CASE task' = [task EXCEPT ![t].phase = "done"]
      <4>1. task'[t].phase = "done" /\ task'[t].link = task[t].link
        BY <3>1, <3>2, PhaseOnly
      <4> QED
        BY <4>1
    <3>3. CASE task' = [task EXCEPT ![t].phase = "failed"]
      <4>1. task'[t].phase = "failed" /\ task'[t].link = task[t].link
        BY <3>1, <3>3, PhaseOnly
      <4> QED
        BY <4>1
    <3>4. CASE task' = [task EXCEPT ![t].phase = "waiting"] /\ task[t].tries < NET_ATTEMPTS
      BY <3>1, <3>4, PhaseOnly
    <3> QED
      BY <2>2, <3>2, <3>3, <3>4
  <2>5. task[t].link \in Links /\ (current # NoTask => current # t)
    BY <2>1 DEF CallsInv, LinkInv, CurrentInv
  <2>6. Advances(t)
    BY <2>1, <2>3, <2>4, <2>5 DEF Advances
  <2> QED
    BY <2>6, CallAdvances
<1>11. ASSUME NEW t \in Tasks, SendAgain(t) PROVE CallsInv'
  <2>1. UNCHANGED <<chain, current>> /\ task[t].phase = "waiting"
    BY <1>11 DEF SendAgain
  <2>2. task' = [task EXCEPT ![t].phase = "sending", ![t].tries = task[t].tries + 1]
    BY <1>0, <1>11 DEF SendAgain, UploadTyped, Calls
  <2>3. /\ task'[t].phase = "sending" /\ task'[t].link = task[t].link
        /\ \A u \in Tasks \ {t} : task'[u] = task[u]
    BY <1>0, <2>2 DEF UploadTyped, Calls, Call
  <2>4. task[t].link \in Links /\ (current # NoTask => current # t)
    BY <2>1 DEF CallsInv, LinkInv, CurrentInv
  <2>5. \A r \in wire' : r \in wire \/ r[1] = t
    BY <1>11 DEF SendAgain, Sent
  <2>6. Advances(t)
    BY <2>1, <2>3, <2>4, <2>5 DEF Advances
  <2> QED
    BY <2>6, CallAdvances
<1>12. ASSUME NEW r \in Rows, ServerStores(r) PROVE CallsInv'
  BY <1>12 DEF ServerStores, upload, CallsInv, ChainInv, CurrentInv, LinkInv, WireInv
<1>13. ASSUME \/ Confirm \/ EditStep \/ NewLink \/ Roster \/ UNCHANGED vars
              \/ \E p \in posts : StoreRoster(p) \/ RosterRefused(p)
       PROVE  UNCHANGED <<chain, current, task, wire>>
  BY <1>13 DEF Confirm, EditStep, NewLink, Roster, Record, Enlist, SendRoster, Recorded,
     StoreRoster, RosterRefused, upload, server, vars
<1> QED
  BY <1>1, <1>2, <1>3, <1>4, <1>5, <1>6, <1>7, <1>8, <1>9, <1>10,
     <1>11, <1>12, <1>13 DEF Next, User, Queue, Transfer

-----------------------------------------------------------------------------
(* The roster.                                                             *)

RosterInv == FreshInv /\ RecordInv /\ NewestInv /\ OrderInv
rosterVars == <<batch, records, recording, links, posts, sealed>>

(* A call moves without being done, or stays done as it was.               *)
Stirs(t) ==
    /\ \A u \in Tasks \ {t} : task'[u] = task[u]
    /\ task'[t].phase = "done" <=> task[t].phase = "done"
    /\ task[t].phase = "done" => task'[t].link = task[t].link /\ task'[t].tries = task[t].tries
    /\ task'[t].link \in {task[t].link, batch.link}

LEMMA RecordedRow ==
  ASSUME TypeOK, RecordInv, NEW i \in 1 .. Len(records)
  PROVE  records[i] \in Rows /\ records[i][1] \in Tasks /\ task[records[i][1]].phase = "done"
<1>1. records[i] \in Rows
  BY TypesByName DEF RosterTyped
<1> QED
  BY <1>1, RowTask DEF RecordInv

LEMMA StirsQuietly ==
  ASSUME TypeOK, RosterInv, UNCHANGED rosterVars, NEW t \in Tasks, Stirs(t)
  PROVE  RosterInv'
<1>1. FreshInv'
  BY DEF RosterInv, FreshInv, rosterVars, Stirs
<1>2. \A u \in Tasks : /\ task'[u].phase = "done" <=> task[u].phase = "done"
                       /\ task[u].phase = "done" => task'[u].link = task[u].link /\ Last(u)' = Last(u)
  BY DEF Stirs, Last
<1>3. RecordInv'
  <2>1. \A i \in 1 .. Len(records) :
           /\ records[i][1] \in Tasks
           /\ task'[records[i][1]].phase = "done" /\ task'[records[i][1]].link = task[records[i][1]].link
    BY <1>2, RecordedRow DEF RosterInv
  <2>2. recording.step # "idle" => Elsewhere(Head(records))' = Elsewhere(Head(records))
    <3>1. recording.step # "idle" => 1 \in 1 .. Len(records) /\ records[1] = Head(records)
      BY HeadFirst DEF TypeOK, RosterInv, RecordInv
    <3> QED
      BY <2>1, <3>1 DEF Elsewhere, rosterVars
  <2>3. \A u \in Tasks : task'[u].phase = "done" => Waits(Last(u))' = Waits(Last(u))
    BY <1>2 DEF Waits, rosterVars
  <2> QED
    BY <1>2, <2>1, <2>2, <2>3 DEF RosterInv, RecordInv, rosterVars
<1>4. NewestInv' /\ OrderInv'
  BY DEF RosterInv, NewestInv, OrderInv, rosterVars
<1> QED
  BY <1>1, <1>3, <1>4 DEF RosterInv

LEMMA NothingStirs ==
  ASSUME TypeOK, RosterInv, UNCHANGED <<rosterVars, task>>
  PROVE  RosterInv'
<1>1. FreshInv'
  BY DEF RosterInv, FreshInv, rosterVars
<1>2. RecordInv'
  BY DEF RosterInv, RecordInv, rosterVars, Waits, Elsewhere, Last
<1>3. NewestInv'
  BY DEF RosterInv, NewestInv, rosterVars
<1>4. OrderInv'
  BY DEF RosterInv, OrderInv, rosterVars
<1> QED
  BY <1>1, <1>2, <1>3, <1>4 DEF RosterInv

LEMMA QueuedStirs ==
  ASSUME task \in Calls, NEW t \in Tasks, task[t].phase = "none",
         task' = [task EXCEPT ![t].phase = "queued"]
  PROVE  Stirs(t)
<1>1. /\ task'[t].phase = "queued" /\ task'[t].link = task[t].link
      /\ \A u \in Tasks \ {t} : task'[u] = task[u]
  BY PhaseOnly
<1> QED
  BY <1>1 DEF Stirs

(* The steps of the page and of the server that are not about the roster.  *)
OtherStep ==
    \/ Confirm \/ EditStep \/ TakeNext \/ BatchFails \/ Seal \/ Encrypted \/ EncryptFails
    \/ \E f \in Files : AddFile(f) \/ Cancel(f) \/ Retry(f)
    \/ \E t \in Tasks : Refused(t) \/ NetworkError(t) \/ SendAgain(t)
    \/ \E r \in Rows : ServerStores(r)
    \/ UNCHANGED vars

LEMMA QuietCallStep ==
  ASSUME TypeOK, CallsInv, RosterInv, OtherStep
  PROVE  RosterInv'
<1>0. UploadTyped /\ RosterTyped /\ WireTyped
  BY TypesByName
<1>1. ASSUME Confirm \/ EditStep \/ UNCHANGED vars \/ \E r \in Rows : ServerStores(r)
      PROVE  RosterInv'
  <2>1. UNCHANGED <<rosterVars, task>>
    BY <1>1 DEF Confirm, EditStep, ServerStores, rosterVars, upload, server, vars
  <2> QED
    BY <2>1, NothingStirs
<1>2. ASSUME NEW f \in Files, AddFile(f) PROVE RosterInv'
  <2>1. <<f, 1>> \in Tasks
    BY FirstCall, UploadAssumption
  <2>2. /\ task[<<f, 1>>].phase = "none"
        /\ task' = [task EXCEPT ![<<f, 1>>].phase = "queued"] /\ UNCHANGED rosterVars
    BY <1>2 DEF AddFile, server, rosterVars
  <2>3. Stirs(<<f, 1>>)
    BY <1>0, <2>1, <2>2, QueuedStirs DEF UploadTyped
  <2> QED
    BY <2>1, <2>2, <2>3, StirsQuietly
<1>3. ASSUME NEW f \in Files, Retry(f) PROVE RosterInv'
  <2>1. PICK n \in 2 .. MaxRuns :
           /\ task[<<f, n>>].phase = "none"
           /\ task' = [task EXCEPT ![<<f, n>>].phase = "queued"]
    BY <1>3 DEF Retry
  <2>2. <<f, n>> \in Tasks /\ UNCHANGED rosterVars
    BY <1>3, FirstCall, UploadAssumption DEF Retry, server, rosterVars
  <2>3. Stirs(<<f, n>>)
    BY <1>0, <2>1, <2>2, QueuedStirs DEF UploadTyped
  <2> QED
    BY <2>2, <2>3, StirsQuietly
<1>4. ASSUME NEW f \in Files, Cancel(f) PROVE RosterInv'
  <2> DEFINE t == <<f, button[f]>>
  <2>1. t \in Tasks /\ UNCHANGED rosterVars
    BY <1>4, FirstCall DEF Cancel, server, rosterVars
  <2>2. /\ task'[t].link = task[t].link /\ task'[t].tries = task[t].tries
        /\ task'[t].phase = IF task[t].phase \in {"sending", "waiting"} THEN "cancelled" ELSE task[t].phase
        /\ \A u \in Tasks \ {t} : task'[u] = task[u]
    BY <1>0, <1>4, <2>1 DEF Cancel, UploadTyped, Calls, Call
  <2> HIDE DEF t
  <2>3. Stirs(t)
    BY <2>2 DEF Stirs
  <2> QED
    BY <2>1, <2>3, StirsQuietly
<1>5. ASSUME TakeNext PROVE RosterInv'
  <2> DEFINE t == Head(chain)
  <2>1. t \in Tasks /\ UNCHANGED rosterVars
    BY <1>0, <1>5, TailTyped DEF TakeNext, UploadTyped, server, rosterVars
  <2>2. task[t].phase = "queued"
    <3>1. chain \in Seq(Tasks) /\ chain # <<>>
      BY <1>0, <1>5 DEF TakeNext, UploadTyped
    <3>2. 1 \in 1 .. Len(chain) /\ chain[1] = t
      BY <3>1, HeadFirst
    <3> QED
      BY <3>2 DEF CallsInv, ChainInv
  <2>3. \/ \E p \in {"cancelled", "failed"} : task' = [task EXCEPT ![t].phase = p]
        \/ \E p \in {"linking", "sealing"} :
              task' = [task EXCEPT ![t].phase = p, ![t].link = batch.link]
    BY <1>5 DEF TakeNext, Fails
  <2> HIDE DEF t
  <2>4. ASSUME NEW p \in {"cancelled", "failed"}, task' = [task EXCEPT ![t].phase = p] PROVE Stirs(t)
    <3>1. /\ task'[t].phase = p /\ task'[t].link = task[t].link
          /\ \A u \in Tasks \ {t} : task'[u] = task[u]
      BY <1>0, <2>1, <2>4, PhaseOnly DEF UploadTyped
    <3> QED
      BY <2>2, <3>1 DEF Stirs
  <2>5. ASSUME NEW p \in {"linking", "sealing"},
               task' = [task EXCEPT ![t].phase = p, ![t].link = batch.link]
        PROVE  Stirs(t)
    <3>1. /\ task'[t].phase = p /\ task'[t].link = batch.link
          /\ \A u \in Tasks \ {t} : task'[u] = task[u]
      BY <1>0, <2>1, <2>5 DEF UploadTyped, Calls, Call
    <3> QED
      BY <2>2, <3>1 DEF Stirs
  <2> QED
    BY <2>1, <2>3, <2>4, <2>5, StirsQuietly
<1>6. ASSUME BatchFails \/ Seal \/ EncryptFails \/ Encrypted PROVE RosterInv'
  <2>1. current \in Tasks /\ UNCHANGED rosterVars /\ task[current].phase # "done"
    BY <1>0, <1>6 DEF BatchFails, Seal, EncryptFails, Encrypted, UploadTyped, server, rosterVars
  <2>2. \/ \E p \in {"failed", "cancelled", "encrypting"} : task' = [task EXCEPT ![current].phase = p]
        \/ task' = [task EXCEPT ![current].phase = "sending", ![current].tries = 1]
    BY <1>6 DEF BatchFails, Seal, EncryptFails, Encrypted, Fails
  <2>3. ASSUME NEW p \in {"failed", "cancelled", "encrypting"},
               task' = [task EXCEPT ![current].phase = p]
        PROVE  Stirs(current)
    <3>1. /\ task'[current].phase = p /\ task'[current].link = task[current].link
          /\ \A u \in Tasks \ {current} : task'[u] = task[u]
      BY <1>0, <2>1, <2>3, PhaseOnly DEF UploadTyped
    <3> QED
      BY <2>1, <3>1 DEF Stirs
  <2>4. ASSUME task' = [task EXCEPT ![current].phase = "sending", ![current].tries = 1]
        PROVE  Stirs(current)
    <3>1. /\ task'[current].phase = "sending" /\ task'[current].link = task[current].link
          /\ \A u \in Tasks \ {current} : task'[u] = task[u]
      BY <1>0, <2>1, <2>4 DEF UploadTyped, Calls, Call
    <3> QED
      BY <2>1, <3>1 DEF Stirs
  <2> QED
    BY <2>1, <2>2, <2>3, <2>4, StirsQuietly
<1>7. ASSUME NEW t \in Tasks, Refused(t) \/ NetworkError(t) \/ SendAgain(t) PROVE RosterInv'
  <2>1. UNCHANGED rosterVars /\ task[t].phase # "done"
    BY <1>7 DEF Refused, NetworkError, SendAgain, server, rosterVars
  <2>2. \/ \E p \in {"failed", "waiting"} : task' = [task EXCEPT ![t].phase = p]
        \/ task' = [task EXCEPT ![t].phase = "sending", ![t].tries = @ + 1]
    BY <1>7 DEF Refused, NetworkError, SendAgain, Fails
  <2>3. ASSUME NEW p \in {"failed", "waiting"}, task' = [task EXCEPT ![t].phase = p] PROVE Stirs(t)
    <3>1. /\ task'[t].phase = p /\ task'[t].link = task[t].link
          /\ \A u \in Tasks \ {t} : task'[u] = task[u]
      BY <1>0, <2>3, PhaseOnly DEF UploadTyped
    <3> QED
      BY <2>1, <3>1 DEF Stirs
  <2>4. ASSUME task' = [task EXCEPT ![t].phase = "sending", ![t].tries = @ + 1] PROVE Stirs(t)
    <3>1. /\ task'[t].phase = "sending" /\ task'[t].link = task[t].link
          /\ \A u \in Tasks \ {t} : task'[u] = task[u]
      BY <1>0, <2>4 DEF UploadTyped, Calls, Call
    <3> QED
      BY <2>1, <3>1 DEF Stirs
  <2> QED
    BY <2>1, <2>2, <2>3, <2>4, StirsQuietly
<1> QED
  BY <1>1, <1>2, <1>3, <1>4, <1>5, <1>6, <1>7 DEF OtherStep
LEMMA FreshByParts ==
  ASSUME FreshInv, batch'.link <= links', links <= links',
         \A t \in Tasks : task'[t].link <= links',
         posts' \subseteq posts, sealed' = sealed, links \in Nat, links' \in Nat, posts \subseteq Posts
  PROVE  FreshInv'
<1>1. \A p \in posts' : p.link <= links'
  BY DEF FreshInv, Posts, Links
<1>2. \A l \in Links : l > links' => l > links
  BY DEF Links
<1> QED
  BY <1>1, <1>2 DEF FreshInv

LEMMA EnsureBatchStep ==
  ASSUME TypeOK, TypeOK', CallsInv, RosterInv, EnsureBatch
  PROVE  RosterInv'
<1>0. UploadTyped /\ RosterTyped /\ WireTyped /\ UploadTyped' /\ RosterTyped' /\ WireTyped'
  BY TypesByName
<1>1. /\ current \in Tasks /\ task[current].phase = "linking"
      /\ links' = links + 1 /\ links' \in Links /\ links \in Nat
      /\ UNCHANGED <<records, recording, posts, sealed>>
  <2>1. /\ current \in Tasks /\ task[current].phase = "linking"
        /\ links' = links + 1 /\ links < MaxLinks
        /\ UNCHANGED <<records, recording, posts, sealed>>
    BY <1>0 DEF EnsureBatch, UploadTyped
  <2>2. links \in 0 .. MaxLinks /\ MaxLinks \in Nat
    BY <1>0, UploadAssumption DEF WireTyped
  <2> QED
    BY <2>1, <2>2 DEF Links
<1>2. batch'.link = links + 1 /\ batch'.roster = {} /\ batch'.seq = 0
  BY <1>0, <1>1 DEF EnsureBatch, RosterTyped, Batch
<1>3. /\ \A u \in Tasks \ {current} : task'[u] = task[u]
      /\ task'[current].phase # "done" /\ task'[current].link \in {task[current].link, links'}
  <2>1. CASE task[current].aborted
    <3>1. task' = [task EXCEPT ![current].phase = "cancelled"]
      BY <2>1 DEF EnsureBatch
    <3>2. /\ task'[current].phase = "cancelled" /\ task'[current].link = task[current].link
          /\ \A u \in Tasks \ {current} : task'[u] = task[u]
      BY <1>0, <1>1, <3>1, PhaseOnly DEF UploadTyped
    <3> QED
      BY <3>2
  <2>2. CASE ~task[current].aborted
    <3>1. task' = [task EXCEPT ![current].phase = "sealing", ![current].link = links']
      BY <2>2 DEF EnsureBatch
    <3>2. /\ task'[current].phase = "sealing" /\ task'[current].link = links'
          /\ \A u \in Tasks \ {current} : task'[u] = task[u]
      BY <1>0, <1>1, <3>1 DEF UploadTyped, Calls, Call
    <3> QED
      BY <3>2
  <2> QED
    BY <2>1, <2>2
<1>4. \A u \in Tasks : task[u].link \in Nat /\ task[u].link <= links
  <2>1. \A u \in Tasks : task[u].link \in 0 .. MaxLinks
    BY <1>0 DEF UploadTyped, Calls, Call
  <2> QED
    BY <2>1, UploadAssumption DEF RosterInv, FreshInv
<1>5. \A u \in Tasks : task[u].phase = "done" => task'[u] = task[u]
  BY <1>1, <1>3
<1>6. FreshInv'
  <2>1. \A u \in Tasks : task'[u].link <= links'
    BY <1>1, <1>3, <1>4
  <2>2. links' \in Nat /\ links <= links' /\ batch'.link <= links'
    BY <1>1, <1>2
  <2> QED
    BY <1>0, <1>1, <2>1, <2>2, FreshByParts DEF RosterInv, RosterTyped
<1>7. RecordInv'
  <2>1. \A i \in 1 .. Len(records) :
           /\ records[i] \in Rows /\ records[i][1] \in Tasks
           /\ task'[records[i][1]] = task[records[i][1]] /\ task[records[i][1]].phase = "done"
    BY <1>5, RecordedRow DEF RosterInv
  <2>2. \A u \in Tasks : task'[u].phase = "done" => task'[u].link # batch'.link
    BY <1>1, <1>2, <1>3, <1>4
  <2>3. recording.step # "idle" => Elsewhere(Head(records))'
    <3>1. recording.step # "idle" => 1 \in 1 .. Len(records) /\ records[1] = Head(records)
      BY <1>0, HeadFirst DEF RosterTyped, RosterInv, RecordInv
    <3> QED
      BY <1>1, <2>1, <2>2, <3>1 DEF Elsewhere
  <2> QED
    BY <1>1, <2>1, <2>2, <2>3 DEF RosterInv, RecordInv
<1>8. NewestInv'
  <2>1. \A p \in posts : p.link # batch'.link
    BY <1>0, <1>1, <1>2 DEF RosterTyped, Posts, Links, RosterInv, FreshInv
  <2>2. sealed[links'].seq = 0 /\ sealed[links'].files = {}
    BY <1>1 DEF RosterInv, FreshInv
  <2> QED
    BY <1>1, <1>2, <2>1, <2>2 DEF NewestInv
<1>9. OrderInv'
  BY <1>1 DEF RosterInv, OrderInv
<1> QED
  BY <1>6, <1>7, <1>8, <1>9 DEF RosterInv

LEMMA NewLinkStep ==
  ASSUME TypeOK, RosterInv, NewLink
  PROVE  RosterInv'
<1>0. UploadTyped /\ RosterTyped /\ WireTyped
  BY TypesByName
<1>1. /\ UNCHANGED <<task, records, recording, links, posts, sealed>>
      /\ batch'.link = 0 /\ batch'.roster = {} /\ batch'.seq = 0
  BY DEF NewLink, NoLink, server
<1>2. FreshInv'
  BY <1>0, <1>1, FreshByParts DEF RosterInv, FreshInv, RosterTyped, WireTyped
<1>3. RecordInv'
  BY <1>1 DEF RosterInv, RecordInv, Elsewhere
<1>4. NewestInv'
  BY <1>0, <1>1 DEF NewestInv, RosterTyped, Posts, Links
<1>5. OrderInv'
  BY <1>1 DEF RosterInv, OrderInv
<1> QED
  BY <1>2, <1>3, <1>4, <1>5 DEF RosterInv

LEMMA AnsweredStep ==
  ASSUME TypeOK, RosterInv, NEW t \in Tasks, Answered(t)
  PROVE  RosterInv'
<1>0. UploadTyped /\ RosterTyped /\ WireTyped
  BY TypesByName
<1>1. /\ UNCHANGED <<recording, links, posts, sealed>>
      /\ task[t].phase = "sending" /\ task' = [task EXCEPT ![t].phase = "done"]
  BY DEF Answered, server
<1>2. batch'.link = batch.link /\ batch'.roster = batch.roster /\ batch'.seq = batch.seq
  BY <1>0 DEF Answered, RosterTyped, Batch
<1>3. /\ task'[t].phase = "done" /\ task'[t].link = task[t].link
      /\ \A u \in Tasks \ {t} : task'[u] = task[u]
      /\ \A u \in Tasks : task'[u].link = task[u].link /\ Last(u)' = Last(u)
  <2>1. /\ task'[t].phase = "done" /\ task'[t].link = task[t].link /\ task'[t].tries = task[t].tries
        /\ \A u \in Tasks \ {t} : task'[u] = task[u]
    BY <1>0, <1>1, PhaseOnly DEF UploadTyped
  <2> QED
    BY <2>1 DEF Last
<1>4. /\ Len(records') = Len(records) + 1 /\ records'[Len(records')] = Last(t)
      /\ \A i \in 1 .. Len(records) : records'[i] = records[i]
      /\ Len(records) \in Nat
  BY <1>0 DEF Answered, RosterTyped
<1>5. FreshInv'
  BY <1>1, <1>2, <1>3 DEF RosterInv, FreshInv
<1>6. RecordInv'
  <2>1. ASSUME NEW i \in 1 .. Len(records') PROVE task'[records'[i][1]].phase = "done"
    <3>1. CASE i \in 1 .. Len(records)
      BY <1>3, <1>4, <3>1, RecordedRow DEF RosterInv
    <3>2. CASE i = Len(records')
      BY <1>3, <1>4, <3>2 DEF Last
    <3> QED
      BY <1>4, <3>1, <3>2
  <2>2. Waits(Last(t))' /\ \A r : Waits(r) => Waits(r)'
    <3>1. Len(records') \in 1 .. Len(records')
      BY <1>4
    <3>2. \A i \in 1 .. Len(records) : i \in 1 .. Len(records')
      BY <1>4
    <3> QED
      BY <1>3, <1>4, <3>1, <3>2 DEF Waits
  <2>3. recording.step # "idle" => /\ Len(records') # 0 /\ Head(records') = Head(records)
                                   /\ Elsewhere(Head(records))' = Elsewhere(Head(records))
    <3>1. ASSUME recording.step # "idle"
          PROVE  1 \in 1 .. Len(records) /\ records[1] = Head(records) /\ records[1][1] \in Tasks
      <4>1. 1 \in 1 .. Len(records) /\ records[1] = Head(records)
        BY <1>0, <3>1, HeadFirst DEF RosterTyped, RosterInv, RecordInv
      <4> QED
        BY <4>1, RecordedRow DEF RosterInv
    <3>2. recording.step # "idle" => Head(records') = records'[1] /\ Len(records') # 0
      BY <1>4, <3>1
    <3> QED
      BY <1>2, <1>3, <1>4, <3>1, <3>2 DEF Elsewhere
  <2>4. Len(records') # 0 => records' # <<>>
    OBVIOUS
  <2>5. batch.link # 0 => \A u \in Tasks :
           task'[u].phase = "done" /\ task'[u].link = batch.link =>
              Last(u)' \in batch.roster \/ Waits(Last(u))'
    BY <1>3, <2>2 DEF RosterInv, RecordInv
  <2> QED
    BY <1>1, <1>2, <2>1, <2>3, <2>4, <2>5 DEF RosterInv, RecordInv
<1>7. NewestInv'
  BY <1>1, <1>2 DEF RosterInv, NewestInv
<1>8. OrderInv'
  BY <1>1 DEF RosterInv, OrderInv
<1> QED
  BY <1>5, <1>6, <1>7, <1>8 DEF RosterInv

(* What is left of a queue without its first member.                       *)
LEMMA TailShifts ==
  ASSUME NEW S, NEW q \in Seq(S), q # <<>>
  PROVE  /\ \A i \in 1 .. Len(Tail(q)) : i + 1 \in 1 .. Len(q) /\ Tail(q)[i] = q[i + 1]
         /\ \A i \in 1 .. Len(q) :
               q[i] = Head(q) \/ (i - 1 \in 1 .. Len(Tail(q)) /\ Tail(q)[i - 1] = q[i])
OBVIOUS

(* The first record is done with: it is in the list, or it belongs to a    *)
(* link that was put away.                                                 *)
LEMMA HeadGoes ==
  ASSUME TypeOK, RecordInv, records # <<>>, records' = Tail(records),
         recording'.step = "idle", UNCHANGED task, batch'.link = batch.link,
         batch.roster \subseteq batch'.roster,
         Head(records) \in batch'.roster \/ Elsewhere(Head(records))
  PROVE  RecordInv'
<1>1. records \in Seq(Rows)
  BY TypesByName DEF RosterTyped
<1>2. /\ \A i \in 1 .. Len(records') : i + 1 \in 1 .. Len(records) /\ records'[i] = records[i + 1]
      /\ \A i \in 1 .. Len(records) :
            records[i] = Head(records) \/ (i - 1 \in 1 .. Len(records') /\ records'[i - 1] = records[i])
  BY <1>1, TailShifts
<1>3. \A i \in 1 .. Len(records') : task'[records'[i][1]].phase = "done"
  BY <1>2 DEF RecordInv
<1>4. \A r : Waits(r) => r = Head(records) \/ Waits(r)'
  <2> SUFFICES ASSUME NEW r, Waits(r), r # Head(records) PROVE Waits(r)'
    OBVIOUS
  <2>1. PICK i \in 1 .. Len(records) : records[i] = r
    BY DEF Waits
  <2>2. i - 1 \in 1 .. Len(records') /\ records'[i - 1] = r
    BY <1>2, <2>1
  <2> QED
    BY <2>2 DEF Waits
<1>5. ASSUME batch'.link # 0, NEW t \in Tasks, task'[t].phase = "done", task'[t].link = batch'.link
      PROVE  Last(t)' \in batch'.roster \/ Waits(Last(t))'
  <2>1. Last(t)' = Last(t) /\ Last(t)[1] = t
    BY DEF Last
  <2>2. Last(t) \in batch.roster \/ Waits(Last(t))
    BY <1>5 DEF RecordInv
  <2>3. ~Elsewhere(Last(t))
    BY <1>5, <2>1 DEF Elsewhere
  <2> QED
    BY <1>4, <2>1, <2>2, <2>3
<1> QED
  BY <1>3, <1>5 DEF RecordInv

LEMMA RecordStep ==
  ASSUME TypeOK, RosterInv, Record
  PROVE  RosterInv'
<1>0. UploadTyped /\ RosterTyped /\ WireTyped
  BY TypesByName
<1>1. UNCHANGED <<task, batch, links, posts, sealed>> /\ records # <<>> /\ recording.step = "idle"
  BY DEF Record, server
<1>2. \/ batch.link = 0 /\ records' = Tail(records) /\ recording' = recording
      \/ /\ batch.link # 0 /\ records' = records
         /\ recording'.step = "hashing" /\ recording'.link = batch.link
  BY <1>0 DEF Record, RosterTyped, Recording
<1>3. FreshInv' /\ OrderInv'
  BY <1>1 DEF RosterInv, FreshInv, OrderInv
<1>4. RecordInv'
  <2>1. CASE batch.link = 0 /\ records' = Tail(records) /\ recording' = recording
    BY <1>1, <2>1, HeadGoes DEF RosterInv, Elsewhere
  <2>2. CASE /\ batch.link # 0 /\ records' = records
             /\ recording'.step = "hashing" /\ recording'.link = batch.link
    BY <1>1, <2>2 DEF RosterInv, RecordInv, Waits, Elsewhere, Last
  <2> QED
    BY <1>2, <2>1, <2>2
<1>5. NewestInv'
  BY <1>1, <1>2 DEF RosterInv, NewestInv
<1> QED
  BY <1>3, <1>4, <1>5 DEF RosterInv

LEMMA RecordedStep ==
  ASSUME TypeOK, RosterInv, Recorded
  PROVE  RosterInv'
<1>1. /\ UNCHANGED <<task, batch, links, posts, sealed>> /\ recording.step = "sending"
      /\ records' = Tail(records) /\ recording'.step = "idle"
  BY DEF Recorded, NotRecording, server
<1>2. FreshInv' /\ OrderInv'
  BY <1>1 DEF RosterInv, FreshInv, OrderInv
<1>3. RecordInv'
  <2>1. records # <<>> /\ (Head(records) \in batch.roster \/ Elsewhere(Head(records)))
    BY <1>1 DEF RosterInv, RecordInv
  <2> QED
    BY <1>1, <2>1, HeadGoes DEF RosterInv
<1>4. NewestInv'
  BY <1>1 DEF RosterInv, NewestInv
<1> QED
  BY <1>2, <1>3, <1>4 DEF RosterInv

LEMMA EnlistStep ==
  ASSUME TypeOK, RosterInv, Enlist
  PROVE  RosterInv'
<1>0. UploadTyped /\ RosterTyped /\ WireTyped
  BY TypesByName
<1>1. /\ UNCHANGED <<task, links, posts, sealed>> /\ recording.step = "hashing"
      /\ batch' = [batch EXCEPT !.roster = Listed, !.seq = @ + 1]
  BY DEF Enlist, Numbered, server
<1>2. batch'.link = batch.link /\ batch'.roster = Listed /\ batch'.seq = batch.seq + 1
  BY <1>0, <1>1 DEF RosterTyped, Batch
<1>3. /\ batch.roster \subseteq Listed
      /\ Head(records) \in Listed \/ Elsewhere(Head(records))
      /\ records # <<>>
  BY <1>1 DEF Listed, RosterInv, RecordInv
<1>4. \/ batch.link = 0 /\ recording'.step = "idle" /\ records' = Tail(records)
      \/ /\ batch.link # 0 /\ records' = records /\ recording'.step = "sealing"
         /\ recording'.link = batch.link /\ recording'.files = Listed
  BY DEF Enlist, NotRecording
<1>5. FreshInv' /\ OrderInv'
  BY <1>1, <1>2 DEF RosterInv, FreshInv, OrderInv
<1>6. RecordInv'
  <2>1. CASE batch.link = 0 /\ recording'.step = "idle" /\ records' = Tail(records)
    BY <1>1, <1>2, <1>3, <2>1, HeadGoes DEF RosterInv
  <2>2. CASE /\ batch.link # 0 /\ records' = records /\ recording'.step = "sealing"
             /\ recording'.link = batch.link
    <3>1. /\ \A r : Waits(r)' = Waits(r) /\ Elsewhere(r)' = Elsewhere(r)
          /\ \A t \in Tasks : Last(t)' = Last(t)
      BY <1>1, <1>2, <2>2 DEF Waits, Elsewhere, Last
    <3> QED
      BY <1>1, <1>2, <1>3, <2>2, <3>1 DEF RosterInv, RecordInv
  <2> QED
    BY <1>4, <2>1, <2>2
<1>7. NewestInv'
  <2>1. batch.seq \in Nat /\ \A p \in posts : p.seq \in Nat
    BY <1>0 DEF RosterTyped, Batch, Posts
  <2>2. batch.link # 0 => sealed[batch.link].seq \in Nat
    BY <1>0 DEF RosterTyped, Batch, Sealed, Links
  <2>3. batch'.seq > 0 /\ batch'.seq > batch.seq /\ batch'.seq # 0
    BY <1>2, <2>1
  <2>4. \A p \in posts : p.link = batch.link /\ p.seq > 0 =>
           p.seq <= batch'.seq /\ p.files \subseteq batch'.roster /\ p.seq # batch'.seq
    BY <1>2, <1>3, <2>1 DEF RosterInv, NewestInv
  <2>5. batch.link # 0 => /\ sealed[batch.link].seq <= batch'.seq
                          /\ sealed[batch.link].files \subseteq batch'.roster
                          /\ sealed[batch.link].seq # batch'.seq
    BY <1>2, <1>3, <2>1, <2>2 DEF RosterInv, NewestInv
  <2>6. recording'.step = "sealing" => recording'.link = batch'.link /\ recording'.files = batch'.roster
    BY <1>2, <1>4
  <2> QED
    BY <1>1, <1>2, <2>3, <2>4, <2>5, <2>6 DEF NewestInv
<1> QED
  BY <1>5, <1>6, <1>7 DEF RosterInv

LEMMA ListSentStep ==
  ASSUME TypeOK, RosterInv, SendRoster
  PROVE  RosterInv'
<1>0. UploadTyped /\ RosterTyped /\ WireTyped
  BY TypesByName
<1>1. /\ UNCHANGED <<task, batch, records, links, sealed>>
      /\ recording.step = "sealing" /\ recording'.step = "sending"
  BY DEF SendRoster, NotRecording
<1> DEFINE new == [link |-> batch.link, seq |-> batch.seq, of |-> recording.link,
                   files |-> recording.files]
<1>2. \A p \in posts' : p \in posts \/ (batch.link # 0 /\ p = new)
  BY DEF SendRoster
<1>3. /\ new.link = batch.link /\ new.seq = batch.seq
      /\ new.seq > 0 => new.files = batch.roster /\ new.of = batch.link
  BY <1>1 DEF RosterInv, NewestInv
<1>4. batch.seq \in Nat /\ \A p \in posts : p.seq \in Nat
  BY <1>0 DEF RosterTyped, Batch, Posts
<1> HIDE DEF new
<1>5. FreshInv'
  BY <1>1, <1>2, <1>3 DEF RosterInv, FreshInv
<1>6. RecordInv'
  BY <1>1 DEF RosterInv, RecordInv, Waits, Elsewhere, Last
<1>7. NewestInv'
  <2>1. new.seq > 0 => new.seq <= batch.seq /\ new.files = batch.roster
    BY <1>3, <1>4
  <2> QED
    BY <1>1, <1>2, <2>1 DEF RosterInv, NewestInv
<1>8. OrderInv'
  <2>1. ASSUME NEW p \in posts', NEW q \in posts', p.link = q.link, 0 < p.seq, p.seq < q.seq
        PROVE  p.files \subseteq q.files
    <3>1. CASE p \in posts /\ q \in posts
      BY <2>1, <3>1 DEF RosterInv, OrderInv
    <3>2. CASE p \in posts /\ q = new
      <4>1. p.files \subseteq batch.roster /\ q.seq > 0
        BY <1>3, <1>4, <2>1, <3>2 DEF RosterInv, NewestInv
      <4> QED
        BY <1>3, <3>2, <4>1
    <3>3. CASE p = new
      <4>1. q.seq <= batch.seq
        BY <1>2, <1>3, <1>4, <2>1, <3>3 DEF RosterInv, NewestInv
      <4>2. q.seq \in Nat
        BY <1>2, <1>3, <1>4
      <4> QED
        BY <1>3, <1>4, <2>1, <3>3, <4>1, <4>2
    <3> QED
      BY <1>2, <3>1, <3>2, <3>3
  <2>2. ASSUME NEW p \in posts', sealed[p.link].seq < p.seq PROVE sealed[p.link].files \subseteq p.files
    <3>1. CASE p \in posts
      BY <2>2, <3>1 DEF RosterInv, OrderInv
    <3>2. CASE batch.link # 0 /\ p = new
      <4>1. sealed[batch.link].seq \in Nat
        BY <1>0, <3>2 DEF RosterTyped, Batch, Sealed, Links
      <4>2. p.seq > 0
        BY <1>3, <1>4, <2>2, <3>2, <4>1
      <4> QED
        BY <1>3, <3>2, <4>2 DEF RosterInv, NewestInv
    <3> QED
      BY <1>2, <3>1, <3>2
  <2>3. \A p \in posts' : p.seq > 0 => p.of = p.link
    BY <1>2, <1>3 DEF RosterInv, OrderInv
  <2> QED
    BY <1>1, <2>1, <2>2, <2>3 DEF RosterInv, OrderInv
<1> QED
  BY <1>5, <1>6, <1>7, <1>8 DEF RosterInv

(* The server keeps the list it has, or takes one with a higher number.    *)
LEMMA TakenIn ==
  ASSUME TypeOK, NEW p \in posts, StoreRoster(p) \/ RosterRefused(p)
  PROVE  /\ p.link \in Links /\ p.seq \in Nat /\ sealed[p.link].seq \in Nat
         /\ posts' \subseteq posts
         /\ UNCHANGED <<task, batch, records, recording, links>>
         /\ \/ sealed' = sealed
            \/ /\ sealed[p.link].seq < p.seq
               /\ sealed'[p.link].seq = p.seq /\ sealed'[p.link].files = p.files
               /\ sealed'[p.link].of = p.of
               /\ \A l \in Links \ {p.link} : sealed'[l] = sealed[l]
<1>0. RosterTyped
  BY TypesByName
<1>1. p.link \in Links /\ p.seq \in Nat
  BY <1>0 DEF RosterTyped, Posts
<1>2. sealed[p.link].seq \in Nat
  BY <1>0, <1>1 DEF RosterTyped, Sealed
<1>3. posts' \subseteq posts /\ UNCHANGED <<task, batch, records, recording, links>>
  BY DEF StoreRoster, RosterRefused, upload
<1>4. CASE sealed' = [sealed EXCEPT ![p.link] = [seq |-> p.seq, of |-> p.of, files |-> p.files]]
           /\ sealed[p.link].seq < p.seq
  BY <1>0, <1>1, <1>2, <1>3, <1>4 DEF RosterTyped, Sealed
<1>5. CASE sealed' = sealed
  BY <1>1, <1>2, <1>3, <1>5
<1> QED
  BY <1>4, <1>5 DEF StoreRoster, RosterRefused

LEMMA StoreStep ==
  ASSUME TypeOK, RosterInv, NEW p \in posts, StoreRoster(p) \/ RosterRefused(p)
  PROVE  RosterInv'
<1>0. UploadTyped /\ RosterTyped /\ WireTyped
  BY TypesByName
<1>1. /\ p.link \in Links /\ p.seq \in Nat /\ sealed[p.link].seq \in Nat
      /\ posts' \subseteq posts
      /\ UNCHANGED <<task, batch, records, recording, links>>
  BY TakenIn
<1>2. CASE sealed' = sealed
  <2>1. FreshInv' /\ OrderInv'
    BY <1>1, <1>2 DEF RosterInv, FreshInv, OrderInv
  <2>2. RecordInv'
    BY <1>1 DEF RosterInv, RecordInv, Waits, Elsewhere, Last
  <2>3. NewestInv'
    BY <1>1, <1>2 DEF RosterInv, NewestInv
  <2> QED
    BY <2>1, <2>2, <2>3 DEF RosterInv
<1>3. CASE /\ sealed[p.link].seq < p.seq
           /\ sealed'[p.link].seq = p.seq /\ sealed'[p.link].files = p.files
           /\ sealed'[p.link].of = p.of
           /\ \A l \in Links \ {p.link} : sealed'[l] = sealed[l]
  <2>1. p.seq > 0
    BY <1>1, <1>3
  <2>2. FreshInv'
    <3>1. links \in Nat /\ p.link \in Nat /\ p.link <= links
      BY <1>0, <1>1, UploadAssumption DEF WireTyped, Links, RosterInv, FreshInv
    <3>2. \A l \in Links : l > links => l # p.link
      BY <3>1 DEF Links
    <3> QED
      BY <1>1, <1>3, <3>2 DEF RosterInv, FreshInv
  <2>3. RecordInv'
    BY <1>1 DEF RosterInv, RecordInv, Waits, Elsewhere, Last
  <2>4. NewestInv'
    <3>1. batch.link # 0 => batch.link \in Links
      BY <1>0, UploadAssumption DEF RosterTyped, Batch, Links
    <3>2. batch.link = p.link => /\ p.seq <= batch.seq /\ p.files \subseteq batch.roster
                                 /\ p.seq = batch.seq => p.files = batch.roster
      BY <2>1 DEF RosterInv, NewestInv
    <3> QED
      BY <1>1, <1>3, <3>1, <3>2 DEF RosterInv, NewestInv
  <2>5. OrderInv'
    <3>1. \A q \in posts' : q.link \in Links
      BY <1>0, <1>1 DEF RosterTyped, Posts
    <3>2. ASSUME NEW q \in posts', sealed'[q.link].seq < q.seq
          PROVE  sealed'[q.link].files \subseteq q.files
      <4>1. CASE q.link = p.link
        BY <1>1, <1>3, <2>1, <3>2, <4>1 DEF RosterInv, OrderInv
      <4>2. CASE q.link # p.link
        BY <1>1, <1>3, <3>1, <3>2, <4>2 DEF RosterInv, OrderInv
      <4> QED
        BY <4>1, <4>2
    <3>3. \A l \in Links : sealed'[l].seq > 0 => sealed'[l].of = l
      BY <1>3, <2>1 DEF RosterInv, OrderInv
    <3> QED
      BY <1>1, <3>2, <3>3 DEF RosterInv, OrderInv
  <2> QED
    BY <2>2, <2>3, <2>4, <2>5 DEF RosterInv
<1> QED
  BY <1>2, <1>3, TakenIn

-----------------------------------------------------------------------------
(* The invariant.                                                          *)

LEMMA InitInv == Init => IInv
<1> SUFFICES ASSUME Init PROVE IInv
  OBVIOUS
<1> USE DEF Init
<1>1. UploadTyped
  BY UploadAssumption DEF UploadTyped, Start, Calls, Call, Phases, Fresh, Buttons, NoButton
<1>2. RosterTyped
  BY UploadAssumption DEF RosterTyped, Batch, NoLink, Recording, NotRecording, Sealed
<1>3. WireTyped
  BY UploadAssumption DEF WireTyped
<1>4. CallsInv
  BY DEF CallsInv, ChainInv, CurrentInv, LinkInv, WireInv, Fresh
<1>5. FreshInv
  BY DEF FreshInv, Fresh, NoLink, Links
<1>6. RecordInv
  BY DEF RecordInv, NoLink, NotRecording
<1>7. NewestInv /\ OrderInv
  BY DEF NewestInv, OrderInv, NoLink, NotRecording
<1> QED
  BY <1>1, <1>2, <1>3, <1>4, <1>5, <1>6, <1>7, TypesByName DEF IInv

LEMMA StepInv == IInv /\ [Next]_vars => IInv'
<1> SUFFICES ASSUME IInv, [Next]_vars PROVE IInv'
  OBVIOUS
<1>1. TypeOK /\ CallsInv /\ RosterInv
  BY DEF IInv, RosterInv
<1>2. TypeOK'
  BY <1>1, UploadTypedStep, WireTypedStep, RosterTypedStep, TypesByName DEF RosterInv
<1>3. CallsInv'
  BY <1>1, <1>2, CallsStep
<1>4. RosterInv'
  <2>1. CASE OtherStep
    BY <1>1, <2>1, QuietCallStep
  <2>2. CASE EnsureBatch
    BY <1>1, <1>2, <2>2, EnsureBatchStep
  <2>3. CASE NewLink
    BY <1>1, <2>3, NewLinkStep
  <2>4. CASE Roster
    BY <1>1, <2>4, RecordStep, EnlistStep, ListSentStep, RecordedStep DEF Roster
  <2>5. CASE \E t \in Tasks : Answered(t)
    BY <1>1, <2>5, AnsweredStep
  <2>6. CASE \E p \in posts : StoreRoster(p) \/ RosterRefused(p)
    BY <1>1, <2>6, StoreStep
  <2> QED
    BY <2>1, <2>2, <2>3, <2>4, <2>5, <2>6 DEF Next, User, Queue, Transfer, OtherStep
<1> QED
  BY <1>2, <1>3, <1>4 DEF IInv, RosterInv

(* Every reachable state satisfies the inductive invariant: the queue, the *)
(* rosters on their way and the ones the server holds.                     *)
THEOREM Invariant == Spec => []IInv
BY InitInv, StepInv, PTL DEF Spec

(* The page and what the server keeps of it stay well formed.              *)
THEOREM TypeCorrect == Spec => []TypeOK
<1>1. IInv => TypeOK
  BY DEF IInv
<1> QED
  BY <1>1, Invariant, PTL

(* Whatever order the updates of a roster arrive in, however many of them  *)
(* are refused or given up on, the roster the server holds for a link only *)
(* ever gains members.                                                     *)
THEOREM RosterNeverShrinks == Spec => RosterGrows
<1> DEFINE Grows == \A l \in Links : sealed[l].files \subseteq sealed'[l].files
<1>1. ASSUME IInv, [Next]_vars PROVE Grows
  <2>1. CASE \E p \in posts : StoreRoster(p) \/ RosterRefused(p)
    BY <1>1, <2>1, TakenIn DEF IInv, OrderInv
  <2>2. CASE UNCHANGED sealed
    BY <2>2
  <2>3. \/ UNCHANGED sealed
        \/ \E p \in posts : StoreRoster(p) \/ RosterRefused(p)
    BY <1>1 DEF Next, User, Queue, Transfer, Roster, Confirm, EditStep, NewLink, AddFile, Cancel,
       Retry, TakeNext, EnsureBatch, BatchFails, Seal, Encrypted, EncryptFails, Answered, Refused,
       NetworkError, SendAgain, Record, Enlist, SendRoster, Recorded, ServerStores, server, vars
  <2> QED
    BY <2>1, <2>2, <2>3
<1> QED
  BY <1>1, Invariant, PTL DEF Spec, RosterGrows

(* What the server holds for a link was sealed for it; and once the latest *)
(* list is in place it names every file of the link the client saw stored. *)
THEOREM RosterNamesAll == Spec => []RosterComplete
<1>1. ASSUME IInv PROVE RosterComplete
  <2>1. \A l \in Links : sealed[l].seq > 0 => sealed[l].of = l
    BY <1>1 DEF IInv, OrderInv
  <2>2. ASSUME records = <<>>, batch.link # 0, sealed[batch.link].seq = batch.seq,
               NEW t \in Tasks, task[t].phase = "done", task[t].link = batch.link
        PROVE  Last(t) \in sealed[batch.link].files
    <3>1. Last(t) \in batch.roster \/ Waits(Last(t))
      BY <1>1, <2>2 DEF IInv, RecordInv
    <3>2. ~Waits(Last(t))
      BY <2>2 DEF Waits
    <3>3. sealed[batch.link].files = batch.roster
      BY <1>1, <2>2 DEF IInv, NewestInv
    <3> QED
      BY <3>1, <3>2, <3>3
  <2> QED
    BY <2>1, <2>2 DEF RosterComplete
<1> QED
  BY <1>1, Invariant, PTL
=============================================================================
