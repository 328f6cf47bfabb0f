---------------------------- MODULE BrowserProofs ---------------------------
(***************************************************************************)
(* Visits add up, for links of every kind and for any files, limits and    *)
(* losses: a visit to a link costs one download at most and saves under    *)
(* the name the sender gave; a visit to a drop leaves one delivery, and a  *)
(* row that says "sent" is of a file that is stored and listed.  And the   *)
(* pages stay consistent, for any order of clicks, uploads and answers:    *)
(* the terms of a link are held for as long as they must be, the storage   *)
(* bars catch up, the owner's list deletes what it shows selected, and an  *)
(* enlarged picture stays in view.  At the end, the types of these parts.  *)
(***************************************************************************)
EXTENDS Browser, FiniteSetTheorems, SequenceTheorems, WellFoundedInduction, TLAPS

(* Induction: a set of numbers that has any has a least one.               *)
LEMMA Least ==
  ASSUME NEW T \in SUBSET Nat, T # {}
  PROVE  \E n \in T : \A m \in T : n <= m
<1> DEFINE R == {p \in Nat \X Nat : p[1] < p[2]}
<1>1. IsWellFoundedOn(R, Nat)
  BY NatLessThanWellFounded DEF OpToRel
<1>2. \A x, y \in Nat : x < y => <<x, y>> \in R
  OBVIOUS
<1> HIDE DEF R
<1>3. PICK n \in T : \A m \in T : ~(<<m, n>> \in R)
  BY <1>1, WFMin
<1>4. ASSUME NEW m \in T PROVE n <= m
  <2>1. ~(<<m, n>> \in R) /\ m \in Nat /\ n \in Nat
    BY <1>3
  <2> QED
    BY <1>2, <2>1
<1> QED
  BY <1>4

LEMMA FromZero ==
  ASSUME NEW T, 0 \in T, \A n \in Nat : n \in T => n + 1 \in T
  PROVE  Nat \subseteq T
<1> SUFFICES ASSUME Nat \ T # {} PROVE FALSE
  OBVIOUS
<1>1. PICK n \in Nat \ T : \A m \in Nat \ T : n <= m
  BY Least
<1> QED
  BY <1>1

(* Recursion: what starts somewhere and goes on step by step exists.       *)
Moves(S, n) == [S \X (1 .. n) -> S]
Runs(f, S, n, base, next) ==
    /\ f \in [0 .. n -> S] /\ f[0] = base
    /\ \A i \in 1 .. n : f[i] = next[<<f[i - 1], i>>]

LEMMA Recursion ==
  ASSUME NEW S, NEW n, NEW base, NEW next, n \in Nat, base \in S, next \in Moves(S, n)
  PROVE  \E f : Runs(f, S, n, base, next)
<1> DEFINE Reached(k) == \E f \in [0 .. k -> S] :
                            f[0] = base /\ \A i \in 1 .. k : f[i] = next[<<f[i - 1], i>>]
           T == {k \in Nat : k > n \/ Reached(k)}
<1>1. 0 \in T
  <2> DEFINE f == [i \in 0 .. 0 |-> base]
  <2>1. f \in [0 .. 0 -> S] /\ f[0] = base /\ \A i \in 1 .. 0 : f[i] = next[<<f[i - 1], i>>]
    OBVIOUS
  <2> HIDE DEF f
  <2> QED
    BY <2>1
<1>2. ASSUME NEW k \in Nat, k \in T, k + 1 <= n PROVE Reached(k + 1)
  <2>1. Reached(k)
    BY <1>2
  <2>2. PICK f \in [0 .. k -> S] :
           f[0] = base /\ \A i \in 1 .. k : f[i] = next[<<f[i - 1], i>>]
    BY <2>1
  <2> DEFINE g == [i \in 0 .. k + 1 |-> IF i <= k THEN f[i] ELSE next[<<f[k], k + 1>>]]
  <2>3. next[<<f[k], k + 1>>] \in S
    BY <1>2 DEF Moves
  <2>4. g \in [0 .. k + 1 -> S] /\ g[0] = base /\ g[k + 1] = next[<<f[k], k + 1>>]
    BY <2>2, <2>3
  <2>5. \A i \in 0 .. k : g[i] = f[i]
    OBVIOUS
  <2>6. ASSUME NEW i \in 1 .. k + 1 PROVE g[i] = next[<<g[i - 1], i>>]
    <3> HIDE DEF g
    <3>1. CASE i = k + 1
      BY <2>4, <2>5, <3>1
    <3>2. CASE i # k + 1
      <4>1. i \in 1 .. k /\ i \in 0 .. k /\ i - 1 \in 0 .. k
        BY <3>2
      <4> QED
        BY <2>2, <2>5, <4>1
    <3> QED
      BY <3>1, <3>2
  <2> HIDE DEF g
  <2> QED
    BY <2>4, <2>6
<1> HIDE DEF Reached
<1>3. \A k \in Nat : k \in T => k + 1 \in T
  BY <1>2
<1>4. n \in T
  BY <1>1, <1>3, FromZero
<1>5. Reached(n)
  BY <1>4
<1> QED
  BY <1>5 DEF Reached, Runs

(* The one fetch of a page is counted when it begins; and until its result *)
(* is there, nothing has touched the name the server gave.                 *)
LandingInv ==
    /\ inFlight \in {"none", "fetching", "ready", "failed"}
    /\ spent = IF inFlight = "none" THEN 0 ELSE 1
    /\ clicks \in Nat
    /\ link.limited => ~previewKind /\ (clicks = 0 => inFlight = "none")
    /\ Landing!ManifestNames /\ ~link.honest =>
          /\ name = IF inFlight = "ready" THEN "manifest" ELSE "served"
          /\ inFlight = "ready" => pageWarning = "renamed"
          /\ saved \subseteq {"manifest"}

(* Every file is in one place: it waits, it is being sent, or it is done   *)
(* with; those not added yet are in none.                                  *)
QueueInv ==
    /\ \A i \in 1 .. Len(running) : row[running[i]] = "queued" /\ running[i] # sending
    /\ \A i, j \in 1 .. Len(running) : running[i] = running[j] => i = j
    /\ step = "idle" <=> sending = 0
    /\ sending # 0 => row[sending] = "queued"
    /\ \A f \in Sender!Picked : f > added => row[f] = "none"

(* The submission of this visit is the only one that anything was put in,  *)
(* and the roster the server has of it is no newer than the page's.        *)
DeliveryInv ==
    /\ \A p \in delivered : p[2] = submission
    /\ step \in {"sending", "vouching"} => submission # 0
    /\ step = "vouching" => <<sending, submission>> \in delivered /\ sending \in roster
    /\ \A f \in Sender!Picked : row[f] = "sent" => <<f, submission>> \in delivered /\ f \in roster
    /\ \A s \in Sender!Subs : s # submission => vouched[s].seq = 0 /\ vouched[s].files = {}
    /\ submission # 0 => /\ vouched[submission].seq <= seq
                         /\ vouched[submission].seq = seq => vouched[submission].files = roster

SentRows == {f \in Sender!Picked : row[f] = "sent"}
CountInv ==
    /\ sent = Cardinality(SentRows)
    /\ MaxFiles # 0 => Sender!Held(submission) <= MaxFiles

SenderInv == Sender!TypeOK /\ QueueInv /\ DeliveryInv /\ CountInv

LEMMA LandingStep ==
  ASSUME LandingInv, Landing!Next
  PROVE  LandingInv'
<1>1. CASE Landing!Click
  BY <1>1 DEF LandingInv, Landing!Click, Landing!GetPlain, Landing!ManifestNames
<1>2. CASE Landing!Decrypted
  BY <1>2 DEF LandingInv, Landing!Decrypted, Landing!AdoptManifest, Landing!ManifestNames
<1>3. CASE Landing!Fails
  BY <1>3 DEF LandingInv, Landing!Fails, Landing!ManifestNames
<1>4. CASE Landing!RenderPreview
  BY <1>4 DEF LandingInv, Landing!RenderPreview, Landing!ManifestNames
<1>5. CASE Landing!Save
  BY <1>5 DEF LandingInv, Landing!Save, Landing!ManifestNames
<1>6. CASE \E a \in Landing!Attempts : Landing!Unlock(a) \/ Landing!Unlocked(a)
  BY <1>6 DEF LandingInv, Landing!Unlock, Landing!Unlocked, Landing!ManifestNames
<1>7. ASSUME NEW a \in Landing!Attempts, Landing!OpenSealedName(a) PROVE LandingInv'
  <2>1. UNCHANGED <<link, clicks, saved>>
    BY <1>7 DEF Landing!OpenSealedName
  <2>2. Landing!ManifestNames => name' = name /\ pageWarning' = pageWarning
    BY <1>7 DEF Landing!OpenSealedName, Landing!ManifestNames, Landing!SealedName
  <2>3. link.limited => ~previewKind'
    BY <1>7 DEF Landing!OpenSealedName, LandingInv
  <2>4. \/ UNCHANGED <<inFlight, spent>>
        \/ ~link.limited /\ inFlight = "none" /\ inFlight' = "fetching" /\ spent' = spent + 1
    BY <1>7, <2>3 DEF Landing!OpenSealedName, Landing!GetPlain
  <2>5. Landing!ManifestNames' = Landing!ManifestNames
    BY <2>1 DEF Landing!ManifestNames
  <2> QED
    BY <2>1, <2>2, <2>3, <2>4, <2>5 DEF LandingInv
<1> QED
  BY <1>1, <1>2, <1>3, <1>4, <1>5, <1>6, <1>7 DEF Landing!Next

-----------------------------------------------------------------------------
(* The drop.                                                               *)

LEMMA SenderConstants ==
  /\ MaxAdded \in Nat /\ MaxFiles \in Nat /\ MaxSubs \in Nat /\ MaxLost \in Nat
  /\ Sender!Picked = 1 .. MaxAdded /\ Sender!Subs = 1 .. MaxSubs
BY BrowserAssumption DEF Sender!SenderAssumption, Sender!Picked, Sender!Subs

(* The types of the queue and of the deliveries, by name.                  *)
QueueTyped ==
    /\ added \in 0 .. MaxAdded /\ running \in Seq(Sender!Picked) /\ sending \in 0 .. MaxAdded
    /\ step \in {"idle", "opening", "sending", "vouching"}
    /\ row \in [Sender!Picked -> {"none", "queued", "sent", "failed"}]
    /\ publicKey \in {"none", "there", "bad"} /\ lost \in 0 .. MaxLost
DeliveryTyped ==
    /\ submission \in 0 .. MaxSubs /\ submissions \in 0 .. MaxSubs
    /\ roster \subseteq Sender!Picked /\ seq \in Nat /\ sent \in Nat
    /\ delivered \subseteq Sender!Picked \X Sender!Subs
    /\ vouched \in [Sender!Subs -> [seq : Nat, files : SUBSET Sender!Picked]]

LEMMA SenderTypes ==
  /\ Sender!TypeOK <=> QueueTyped /\ DeliveryTyped
  /\ Sender!TypeOK' <=> QueueTyped' /\ DeliveryTyped'
BY DEF Sender!TypeOK, QueueTyped, DeliveryTyped

(* The file that is being sent is one of the files, and it was not sent.   *)
LEMMA SendingIsFile ==
  ASSUME SenderInv, step # "idle"
  PROVE  sending \in Sender!Picked /\ row[sending] = "queued"
BY SenderTypes, SenderConstants DEF SenderInv, QueueInv, QueueTyped

(* Its row says how it ended, and no other row changes.                    *)
LEMMA EndsAlone ==
  ASSUME SenderInv, step # "idle", NEW how \in {"sent", "failed"}, Sender!Ends(how),
         UNCHANGED <<added, running>>
  PROVE  /\ row' \in [Sender!Picked -> {"none", "queued", "sent", "failed"}]
         /\ row'[sending] = how /\ \A f \in Sender!Picked \ {sending} : row'[f] = row[f]
         /\ sending' = 0 /\ step' = "idle" /\ QueueInv'
<1>1. sending \in Sender!Picked /\ row \in [Sender!Picked -> {"none", "queued", "sent", "failed"}]
  BY SendingIsFile, SenderTypes DEF SenderInv, QueueTyped
<1>2. /\ row' \in [Sender!Picked -> {"none", "queued", "sent", "failed"}]
      /\ row'[sending] = how /\ \A f \in Sender!Picked \ {sending} : row'[f] = row[f]
      /\ sending' = 0 /\ step' = "idle"
  BY <1>1 DEF Sender!Ends
<1>3. \A i \in 1 .. Len(running) : running[i] \in Sender!Picked /\ running[i] # 0
  BY SenderTypes, SenderConstants DEF SenderInv, QueueTyped
<1>4. sending <= added
  <2>1. row[sending] # "none"
    BY SendingIsFile
  <2>2. sending \in Nat /\ added \in Nat
    BY <1>1, SenderTypes, SenderConstants DEF SenderInv, QueueTyped
  <2> QED
    BY <1>1, <2>1, <2>2 DEF SenderInv, QueueInv
<1>5. \A f \in Sender!Picked : f > added => f # sending
  BY <1>4, SenderTypes, SenderConstants DEF SenderInv, QueueTyped
<1> QED
  BY <1>2, <1>3, <1>5 DEF SenderInv, QueueInv

(* Counting.                                                               *)

(* The instance counts as everybody else does.                             *)
LEMMA OneCardinality == \A S : Sender!Cardinality(S) = Cardinality(S)
BY Zenon DEF Sender!Cardinality, Cardinality, Sender!IsFiniteSet, IsFiniteSet

LEMMA FilesFinite ==
  ASSUME SenderInv
  PROVE  /\ IsFiniteSet(Sender!Picked) /\ IsFiniteSet(delivered)
         /\ IsFiniteSet(SentRows) /\ IsFiniteSet(SentRows')
<1>1. IsFiniteSet(Sender!Picked) /\ IsFiniteSet(Sender!Subs)
  BY SenderConstants, FS_Interval
<1>2. IsFiniteSet(delivered)
  BY <1>1, FS_Product, FS_Subset, SenderTypes DEF SenderInv, DeliveryTyped
<1> QED
  BY <1>1, <1>2, FS_Subset DEF SentRows

LEMMA SentGrows ==
  ASSUME SenderInv, NEW f \in Sender!Picked, row[f] = "queued", NEW how \in {"sent", "failed"},
         row'[f] = how, \A g \in Sender!Picked \ {f} : row'[g] = row[g]
  PROVE  Cardinality(SentRows') = IF how = "sent" THEN sent + 1 ELSE sent
<1>1. SentRows' = IF how = "sent" THEN SentRows \cup {f} ELSE SentRows
  BY DEF SentRows
<1>2. f \notin SentRows
  BY DEF SentRows
<1> QED
  BY <1>1, <1>2, FilesFinite, FS_AddElement DEF SenderInv, CountInv

(* The page has counted no more files than the server holds.               *)
LEMMA SentHeld ==
  ASSUME SenderInv
  PROVE  sent <= Sender!Held(submission)
<1> DEFINE H == {p \in delivered : p[2] = submission}
           pair == [f \in SentRows |-> <<f, submission>>]
<1>1. IsFiniteSet(H)
  BY FilesFinite, FS_Subset
<1>2. pair \in [SentRows -> H]
  BY DEF SenderInv, DeliveryInv, SentRows
<1>3. \A f, g \in SentRows : pair[f] = pair[g] => f = g
  OBVIOUS
<1>4. pair \in Injection(SentRows, H)
  BY <1>2, <1>3 DEF Injection, IsInjective
<1>5. Cardinality(SentRows) <= Cardinality(H)
  BY <1>1, <1>4, FS_Injection
<1>6. Sender!Held(submission) = Cardinality(H)
  BY OneCardinality DEF Sender!Held
<1>7. sent = Cardinality(SentRows)
  BY DEF SenderInv, CountInv
<1> QED
  BY <1>5, <1>6, <1>7

-----------------------------------------------------------------------------
(* The steps of the sender.                                                *)

LEMMA QueueOnly ==
  ASSUME SenderInv, QueueInv', QueueTyped',
         UNCHANGED <<submission, roster, seq, sent, submissions, delivered, vouched>>,
         step' \in {"idle", "opening"},
         \A f \in Sender!Picked : row'[f] = "sent" <=> row[f] = "sent"
  PROVE  SenderInv'
<1>1. DeliveryTyped'
  BY SenderTypes DEF SenderInv, DeliveryTyped
<1>2. DeliveryInv'
  BY DEF SenderInv, DeliveryInv
<1>3. SentRows' = SentRows
  BY DEF SentRows
<1>4. CountInv'
  BY <1>3 DEF SenderInv, CountInv, Sender!Held
<1> QED
  BY <1>1, <1>2, <1>4, SenderTypes DEF SenderInv

LEMMA UnsealKeyStep ==
  ASSUME SenderInv, Sender!UnsealKey
  PROVE  SenderInv'
<1>1. /\ UNCHANGED <<added, running, sending, step, row, submission, roster, seq, sent,
                     submissions, delivered, vouched, lost>>
      /\ publicKey' \in {"there", "bad"}
  BY DEF Sender!UnsealKey
<1>2. QueueTyped' /\ DeliveryTyped'
  BY <1>1, SenderTypes DEF SenderInv, QueueTyped, DeliveryTyped
<1>3. QueueInv' /\ DeliveryInv' /\ CountInv'
  BY <1>1 DEF SenderInv, QueueInv, DeliveryInv, CountInv, SentRows, Sender!Held
<1> QED
  BY <1>2, <1>3, SenderTypes DEF SenderInv

LEMMA SendNextStep ==
  ASSUME SenderInv, Sender!SendNext
  PROVE  SenderInv'
<1>1. /\ UNCHANGED <<publicKey, added, row, submission, roster, seq, sent, submissions,
                     delivered, vouched, lost>>
      /\ running # <<>> /\ sending = 0 /\ step' = "opening"
      /\ sending' = Head(running) /\ running' = Tail(running)
  BY DEF Sender!SendNext
<1>2. running \in Seq(Sender!Picked) /\ QueueTyped
  BY SenderTypes DEF SenderInv, QueueTyped
<1>3. /\ running' \in Seq(Sender!Picked) /\ sending' \in Sender!Picked
      /\ 1 \in 1 .. Len(running) /\ running[1] = sending'
      /\ \A i \in 1 .. Len(running') : /\ i + 1 \in 1 .. Len(running) /\ i + 1 # 1
                                       /\ running'[i] = running[i + 1]
  BY <1>1, <1>2
<1>4. QueueTyped' /\ sending' # 0
  BY <1>1, <1>2, <1>3, SenderConstants DEF QueueTyped
<1>5. QueueInv'
  <2>1. \A i \in 1 .. Len(running') : row[running'[i]] = "queued" /\ running'[i] # sending'
    BY <1>3 DEF SenderInv, QueueInv
  <2>2. \A i, j \in 1 .. Len(running') : running'[i] = running'[j] => i = j
    <3>1. \A i, j \in 1 .. Len(running') : running'[i] = running'[j] => i + 1 = j + 1
      BY <1>3 DEF SenderInv, QueueInv
    <3> QED
      BY <3>1
  <2>3. row[sending'] = "queued"
    BY <1>3 DEF SenderInv, QueueInv
  <2> QED
    BY <1>1, <1>4, <2>1, <2>2, <2>3 DEF SenderInv, QueueInv
<1> QED
  BY <1>1, <1>4, <1>5, QueueOnly

LEMMA NotSentStep ==
  ASSUME SenderInv, Sender!NotSent
  PROVE  SenderInv'
<1>1. /\ UNCHANGED <<publicKey, added, running, submission, roster, seq, sent, submissions,
                     delivered, vouched, lost>>
      /\ step = "opening" /\ Sender!Ends("failed")
  BY DEF Sender!NotSent
<1>2. /\ row' \in [Sender!Picked -> {"none", "queued", "sent", "failed"}]
      /\ row'[sending] = "failed" /\ \A f \in Sender!Picked \ {sending} : row'[f] = row[f]
      /\ sending' = 0 /\ step' = "idle" /\ QueueInv'
  BY <1>1, EndsAlone
<1>3. QueueTyped'
  BY <1>1, <1>2, SenderTypes, SenderConstants DEF SenderInv, QueueTyped
<1>4. \A f \in Sender!Picked : row'[f] = "sent" <=> row[f] = "sent"
  BY <1>1, <1>2, SendingIsFile
<1> QED
  BY <1>1, <1>2, <1>3, <1>4, QueueOnly

LEMMA EnqueueStep ==
  ASSUME SenderInv, NEW n \in 1 .. 2, Sender!EnqueueFiles(n)
  PROVE  SenderInv'
<1> DEFINE room == IF MaxFiles = 0 \/ sent + n <= MaxFiles THEN n
                   ELSE IF MaxFiles > sent THEN MaxFiles - sent ELSE 0
           new == [i \in 1 .. room |-> added + i]
<1>1. /\ UNCHANGED <<publicKey, sending, step, submission, roster, seq, sent, submissions,
                     delivered, vouched, lost>>
      /\ added + n <= MaxAdded /\ added' = added + n /\ running' = running \o new
      /\ row' = [f \in Sender!Picked |-> IF f \in added + 1 .. added + room THEN "queued" ELSE row[f]]
  BY DEF Sender!EnqueueFiles
<1>2. QueueTyped /\ sent \in Nat
  BY SenderTypes DEF SenderInv, DeliveryTyped
<1>3. room \in 0 .. n
  BY <1>2, SenderConstants
<1> HIDE DEF room
<1>4. /\ \A i \in 1 .. room : added + i \in Sender!Picked /\ added + i > added
      /\ \A f \in Sender!Picked : f \in added + 1 .. added + room => f > added
      /\ \A f \in Sender!Picked : f > added' => f > added /\ f \notin added + 1 .. added + room
      /\ added \in Nat /\ added' \in 0 .. MaxAdded
  BY <1>1, <1>2, <1>3, SenderConstants DEF QueueTyped
<1>5. new \in Seq(Sender!Picked) /\ Len(new) = room /\ \A i \in 1 .. room : new[i] = added + i
  BY <1>3, <1>4
<1> HIDE DEF new
<1>6. /\ running \in Seq(Sender!Picked) /\ running' \in Seq(Sender!Picked)
      /\ Len(running) \in Nat /\ Len(running') = Len(running) + room
      /\ \A i \in 1 .. Len(running) : running'[i] = running[i]
      /\ \A i \in 1 .. Len(running') : i > Len(running) =>
            i - Len(running) \in 1 .. room /\ running'[i] = added + (i - Len(running))
  <2>1. /\ running' \in Seq(Sender!Picked) /\ Len(running') = Len(running) + Len(new)
        /\ \A i \in 1 .. Len(running) + Len(new) :
              running'[i] = IF i <= Len(running) THEN running[i] ELSE new[i - Len(running)]
    BY <1>1, <1>2, <1>5, ConcatProperties DEF QueueTyped
  <2>2. running \in Seq(Sender!Picked) /\ Len(running) \in Nat
    BY <1>2 DEF QueueTyped
  <2> QED
    BY <1>3, <1>5, <2>1, <2>2
<1>7. QueueTyped'
  BY <1>1, <1>2, <1>4, <1>6 DEF QueueTyped
<1>8. \A f \in Sender!Picked : row'[f] = row[f] \/ (row[f] = "none" /\ row'[f] = "queued")
  BY <1>1, <1>4 DEF SenderInv, QueueInv
<1>9. QueueInv'
  <2>1. ASSUME NEW i \in 1 .. Len(running')
        PROVE  row'[running'[i]] = "queued" /\ running'[i] # sending
    <3>1. CASE i \in 1 .. Len(running)
      BY <1>2, <1>6, <1>8, <3>1 DEF QueueTyped, SenderInv, QueueInv
    <3>2. CASE i > Len(running)
      <4>1. running'[i] \in added + 1 .. added + room /\ running'[i] \in Sender!Picked
        BY <1>3, <1>4, <1>6, <3>2
      <4>2. row'[running'[i]] = "queued" /\ row[running'[i]] = "none"
        BY <1>1, <1>4, <4>1 DEF SenderInv, QueueInv
      <4>3. running'[i] # 0
        BY <4>1, SenderConstants
      <4> QED
        BY <4>2, <4>3 DEF SenderInv, QueueInv
    <3> QED
      BY <1>6, <3>1, <3>2
  <2>2. ASSUME NEW i \in 1 .. Len(running'), NEW j \in 1 .. Len(running'), running'[i] = running'[j]
        PROVE  i = j
    <3>1. \A k \in 1 .. Len(running') : k > Len(running) => row[running'[k]] = "none"
      <4>1. \A k \in 1 .. Len(running') : k > Len(running) =>
               running'[k] \in Sender!Picked /\ running'[k] > added
        BY <1>4, <1>6
      <4> QED
        BY <4>1 DEF SenderInv, QueueInv
    <3>2. \A k \in 1 .. Len(running) : row[running'[k]] = "queued"
      BY <1>6 DEF SenderInv, QueueInv
    <3>3. CASE i \in 1 .. Len(running) /\ j \in 1 .. Len(running)
      BY <1>6, <2>2, <3>3 DEF SenderInv, QueueInv
    <3>4. CASE i > Len(running) /\ j > Len(running)
      BY <1>4, <1>6, <2>2, <3>4
    <3>5. (i > Len(running) \/ i \in 1 .. Len(running)) /\ (j > Len(running) \/ j \in 1 .. Len(running))
      BY <1>6
    <3> QED
      BY <2>2, <3>1, <3>2, <3>3, <3>4, <3>5
  <2>3. \A f \in Sender!Picked : f > added' => row'[f] = "none"
    BY <1>1, <1>4 DEF SenderInv, QueueInv
  <2>4. sending' # 0 => row'[sending'] = "queued"
    BY <1>1, <1>2, <1>8, SendingIsFile DEF SenderInv, QueueInv
  <2> QED
    BY <1>1, <2>1, <2>2, <2>3, <2>4 DEF SenderInv, QueueInv
<1>10. SenderInv'
  <2>1. \A f \in Sender!Picked : row'[f] = "sent" <=> row[f] = "sent"
    BY <1>8
  <2>2. DeliveryTyped' /\ DeliveryInv'
    BY <1>1, <2>1, SenderTypes DEF SenderInv, DeliveryTyped, DeliveryInv
  <2>3. SentRows' = SentRows
    BY <2>1 DEF SentRows
  <2>4. CountInv'
    BY <1>1, <2>3 DEF SenderInv, CountInv, Sender!Held
  <2> QED
    BY <1>7, <1>9, <2>2, <2>4, SenderTypes DEF SenderInv
<1> QED
  BY <1>10

LEMMA EnsureSubmissionStep ==
  ASSUME SenderInv, Sender!EnsureSubmission
  PROVE  SenderInv'
<1>1. /\ step = "opening"
      /\ UNCHANGED <<publicKey, added, running, sent, delivered, vouched>>
  BY DEF Sender!EnsureSubmission
<1>2. QueueTyped /\ DeliveryTyped /\ sending \in Sender!Picked
  BY <1>1, SenderTypes, SendingIsFile DEF SenderInv
<1>3. CASE /\ submission # 0 /\ step' = "sending"
           /\ UNCHANGED <<sending, row, submission, roster, seq, submissions, lost>>
  <2>1. QueueTyped' /\ DeliveryTyped'
    BY <1>1, <1>2, <1>3 DEF QueueTyped, DeliveryTyped
  <2>2. QueueInv' /\ DeliveryInv'
    BY <1>1, <1>3 DEF SenderInv, QueueInv, DeliveryInv
  <2>3. CountInv'
    BY <1>1, <1>3 DEF SenderInv, CountInv, SentRows, Sender!Held
  <2> QED
    BY <2>1, <2>2, <2>3, SenderTypes DEF SenderInv
<1>4. CASE /\ submission = 0 /\ submissions < MaxSubs /\ submissions' = submissions + 1
           /\ submission' = submissions' /\ roster' = {} /\ seq' = 0 /\ step' = "sending"
           /\ UNCHANGED <<sending, row, lost>>
  <2>1. /\ submission' \in Sender!Subs /\ submission' # 0 /\ submissions' \in 0 .. MaxSubs
        /\ submission' \in 0 .. MaxSubs
    BY <1>2, <1>4, SenderConstants DEF DeliveryTyped
  <2>2. delivered = {}
    BY <1>2, <1>4, SenderConstants DEF SenderInv, DeliveryInv, DeliveryTyped
  <2>3. QueueTyped' /\ DeliveryTyped'
    BY <1>1, <1>2, <1>4, <2>1 DEF QueueTyped, DeliveryTyped
  <2>4. QueueInv'
    BY <1>1, <1>4 DEF SenderInv, QueueInv
  <2>5. DeliveryInv'
    <3>1. \A f \in Sender!Picked : row[f] # "sent"
      BY <2>2 DEF SenderInv, DeliveryInv
    <3>2. \A s \in Sender!Subs : vouched[s].seq = 0 /\ vouched[s].files = {}
      BY <1>4, SenderConstants DEF SenderInv, DeliveryInv
    <3>3. vouched[submission'].seq <= 0
      BY <2>1, <3>2
    <3> QED
      BY <1>1, <1>4, <2>1, <2>2, <3>1, <3>2, <3>3 DEF DeliveryInv
  <2>6. CountInv'
    <3>1. {p \in delivered' : p[2] = submission'} = {}
      BY <1>1, <2>2
    <3>2. Sender!Held(submission)' = 0
      BY <3>1, OneCardinality, FS_EmptySet DEF Sender!Held
    <3> QED
      BY <1>1, <1>4, <3>2, SenderConstants DEF SenderInv, CountInv, SentRows
  <2> QED
    BY <2>3, <2>4, <2>5, <2>6, SenderTypes DEF SenderInv
<1>5. CASE /\ submissions' \in 0 .. MaxSubs /\ lost' \in 0 .. MaxLost
           /\ Sender!Ends("failed") /\ UNCHANGED <<submission, roster, seq>>
  <2>1. /\ row' \in [Sender!Picked -> {"none", "queued", "sent", "failed"}]
        /\ row'[sending] = "failed" /\ \A f \in Sender!Picked \ {sending} : row'[f] = row[f]
        /\ sending' = 0 /\ step' = "idle" /\ QueueInv'
    BY <1>1, <1>5, EndsAlone
  <2>2. \A f \in Sender!Picked : row'[f] = "sent" <=> row[f] = "sent"
    BY <1>1, <2>1, SendingIsFile
  <2>3. QueueTyped' /\ DeliveryTyped'
    BY <1>1, <1>2, <1>5, <2>1, SenderConstants DEF QueueTyped, DeliveryTyped
  <2>4. DeliveryInv'
    BY <1>1, <1>5, <2>1, <2>2 DEF SenderInv, DeliveryInv
  <2>5. CountInv'
    <3>1. SentRows' = SentRows
      BY <2>2 DEF SentRows
    <3> QED
      BY <1>1, <1>5, <3>1 DEF SenderInv, CountInv, Sender!Held
  <2> QED
    BY <2>1, <2>3, <2>4, <2>5, SenderTypes DEF SenderInv
<1>6. submissions + 1 \in 0 .. MaxSubs \/ ~(submissions < MaxSubs)
  BY <1>2, SenderConstants DEF DeliveryTyped
<1>7. lost + 1 \in 0 .. MaxLost \/ ~(lost < MaxLost)
  BY <1>2, SenderConstants DEF QueueTyped
<1> QED
  BY <1>2, <1>3, <1>4, <1>5, <1>6, <1>7
     DEF Sender!EnsureSubmission, Sender!NoSub, Sender!Lose, QueueTyped, DeliveryTyped

(* An upload takes one place, or none if its answer was lost before.       *)
LEMMA HeldGrows ==
  ASSUME SenderInv, MaxFiles = 0 \/ Sender!Held(submission) < MaxFiles,
         delivered' = delivered \cup {<<sending, submission>>}, submission' = submission
  PROVE  MaxFiles # 0 => Sender!Held(submission)' <= MaxFiles
<1> DEFINE H == {p \in delivered : p[2] = submission}
           x == <<sending, submission>>
<1>1. {p \in delivered' : p[2] = submission'} = H \cup {x}
  OBVIOUS
<1>2. IsFiniteSet(H)
  BY FilesFinite, FS_Subset
<1>3. Cardinality(H) \in Nat /\ Cardinality(H \cup {x}) <= Cardinality(H) + 1
  <2>1. Cardinality(H) \in Nat
    BY <1>2, FS_CardinalityType
  <2>2. Cardinality(H \cup {x}) = IF x \in H THEN Cardinality(H) ELSE Cardinality(H) + 1
    BY <1>2, FS_AddElement
  <2> QED
    BY <2>1, <2>2
<1>4. Cardinality(H \cup {x}) \in Nat
  BY <1>2, FS_AddElement, FS_CardinalityType
<1>5. Sender!Held(submission) = Cardinality(H) /\ Sender!Held(submission)' = Cardinality(H \cup {x})
  BY <1>1, OneCardinality DEF Sender!Held
<1> HIDE DEF H, x
<1> QED
  BY <1>3, <1>4, <1>5, SenderConstants

LEMMA UploadStep ==
  ASSUME SenderInv, Sender!Upload
  PROVE  SenderInv'
<1>1. /\ step = "sending" /\ submission # 0
      /\ UNCHANGED <<publicKey, added, running, submission, sent, submissions, vouched>>
  BY DEF Sender!Upload, SenderInv, DeliveryInv
<1>2. QueueTyped /\ DeliveryTyped /\ sending \in Sender!Picked
  BY <1>1, SenderTypes, SendingIsFile DEF SenderInv
<1>3. submission \in Sender!Subs /\ <<sending, submission>> \in Sender!Picked \X Sender!Subs
  BY <1>1, <1>2, SenderConstants DEF DeliveryTyped
<1> DEFINE Stored == /\ MaxFiles = 0 \/ Sender!Held(submission) < MaxFiles
                     /\ delivered' = delivered \cup {<<sending, submission>>}
<1>4. CASE /\ Stored /\ roster' = roster \cup {sending} /\ seq' = seq + 1 /\ step' = "vouching"
           /\ UNCHANGED <<sending, row, lost>>
  <2>1. QueueTyped' /\ DeliveryTyped'
    BY <1>1, <1>2, <1>3, <1>4 DEF QueueTyped, DeliveryTyped
  <2>2. QueueInv'
    BY <1>1, <1>4 DEF SenderInv, QueueInv
  <2>3. DeliveryInv'
    <3>1. vouched[submission].seq <= seq /\ vouched[submission].seq \in Nat /\ seq \in Nat
      BY <1>1, <1>2, <1>3 DEF SenderInv, DeliveryInv, DeliveryTyped
    <3>2. vouched[submission].seq <= seq' /\ vouched[submission].seq # seq'
      BY <1>4, <3>1
    <3>3. \A p \in delivered' : p[2] = submission
      BY <1>4 DEF SenderInv, DeliveryInv
    <3> QED
      BY <1>1, <1>4, <3>2, <3>3 DEF SenderInv, DeliveryInv
  <2>4. CountInv'
    BY <1>1, <1>4, HeldGrows DEF SenderInv, CountInv, SentRows
  <2> QED
    BY <2>1, <2>2, <2>3, <2>4, SenderTypes DEF SenderInv
<1>5. CASE /\ Stored \/ UNCHANGED delivered
           /\ lost' \in 0 .. MaxLost /\ Sender!Ends("failed") /\ UNCHANGED <<roster, seq>>
  <2>1. /\ row' \in [Sender!Picked -> {"none", "queued", "sent", "failed"}]
        /\ row'[sending] = "failed" /\ \A f \in Sender!Picked \ {sending} : row'[f] = row[f]
        /\ sending' = 0 /\ step' = "idle" /\ QueueInv'
    BY <1>1, <1>5, EndsAlone
  <2>2. \A f \in Sender!Picked : row'[f] = "sent" <=> row[f] = "sent"
    BY <1>1, <2>1, SendingIsFile
  <2>3. delivered \subseteq delivered' /\ \A p \in delivered' : p \in delivered \/ p = <<sending, submission>>
    BY <1>5
  <2>4. QueueTyped' /\ DeliveryTyped'
    BY <1>1, <1>2, <1>3, <1>5, <2>1, <2>3, SenderConstants DEF QueueTyped, DeliveryTyped
  <2>5. DeliveryInv'
    <3>1. \A p \in delivered' : p[2] = submission
      BY <2>3 DEF SenderInv, DeliveryInv
    <3> QED
      BY <1>1, <1>5, <2>1, <2>2, <2>3, <3>1 DEF SenderInv, DeliveryInv
  <2>6. CountInv'
    <3>1. SentRows' = SentRows
      BY <2>2 DEF SentRows
    <3>2. MaxFiles # 0 => Sender!Held(submission)' <= MaxFiles
      <4>1. CASE Stored
        BY <1>1, <4>1, HeldGrows
      <4>2. CASE UNCHANGED delivered
        BY <1>1, <4>2 DEF SenderInv, CountInv, Sender!Held
      <4> QED
        BY <1>5, <4>1, <4>2
    <3> QED
      BY <1>1, <3>1, <3>2 DEF SenderInv, CountInv
  <2> QED
    BY <2>1, <2>4, <2>5, <2>6, SenderTypes DEF SenderInv
<1>6. lost + 1 \in 0 .. MaxLost \/ ~(lost < MaxLost)
  BY <1>2, SenderConstants DEF QueueTyped
<1> QED
  BY <1>2, <1>4, <1>5, <1>6 DEF Sender!Upload, Sender!Lose, QueueTyped

LEMMA SendRosterStep ==
  ASSUME SenderInv, Sender!SendRoster
  PROVE  SenderInv'
<1>1. /\ step = "vouching" /\ submission # 0
      /\ <<sending, submission>> \in delivered /\ sending \in roster
      /\ UNCHANGED <<publicKey, added, running, submission, roster, seq, submissions, delivered>>
  BY DEF Sender!SendRoster, SenderInv, DeliveryInv
<1>2. QueueTyped /\ DeliveryTyped /\ sending \in Sender!Picked /\ row[sending] = "queued"
  BY <1>1, SenderTypes, SendingIsFile DEF SenderInv
<1>3. submission \in Sender!Subs
  BY <1>1, <1>2, SenderConstants DEF DeliveryTyped
<1>4. PICK how \in {"sent", "failed"} :
         /\ Sender!Ends(how) /\ sent' = IF how = "sent" THEN sent + 1 ELSE sent
         /\ lost' \in 0 .. MaxLost
  <2>1. lost + 1 \in 0 .. MaxLost \/ ~(lost < MaxLost)
    BY <1>2, SenderConstants DEF QueueTyped
  <2>2. CASE Sender!Ends("sent") /\ sent' = sent + 1 /\ UNCHANGED lost
    BY <1>2, <2>2 DEF QueueTyped
  <2>3. CASE Sender!Lose /\ Sender!Ends("failed") /\ UNCHANGED sent
    BY <2>1, <2>3 DEF Sender!Lose
  <2> QED
    BY <2>2, <2>3 DEF Sender!SendRoster
<1>5. /\ row' \in [Sender!Picked -> {"none", "queued", "sent", "failed"}]
      /\ row'[sending] = how /\ \A f \in Sender!Picked \ {sending} : row'[f] = row[f]
      /\ sending' = 0 /\ step' = "idle" /\ QueueInv'
  BY <1>1, <1>4, EndsAlone
<1>6. /\ \A s \in Sender!Subs \ {submission} : vouched'[s] = vouched[s]
      /\ vouched' \in [Sender!Subs -> [seq : Nat, files : SUBSET Sender!Picked]]
      /\ vouched'[submission].seq <= seq
      /\ vouched'[submission].seq = seq => vouched'[submission].files = roster
  <2>1. /\ vouched \in [Sender!Subs -> [seq : Nat, files : SUBSET Sender!Picked]]
        /\ seq \in Nat /\ roster \subseteq Sender!Picked
    BY <1>2 DEF DeliveryTyped
  <2>2. CASE UNCHANGED vouched
    BY <1>1, <2>1, <2>2 DEF SenderInv, DeliveryInv
  <2>3. CASE vouched' = [vouched EXCEPT ![submission] = [seq |-> seq, files |-> roster]]
    BY <1>3, <2>1, <2>3
  <2> QED
    BY <2>2, <2>3 DEF Sender!SendRoster, Sender!StoreRoster
<1>7. QueueTyped' /\ DeliveryTyped'
  <2>1. sent' \in Nat
    BY <1>2, <1>4 DEF DeliveryTyped
  <2>2. QueueTyped'
    BY <1>1, <1>2, <1>4, <1>5, SenderConstants DEF QueueTyped
  <2>3. DeliveryTyped'
    BY <1>1, <1>2, <1>4, <1>6, <2>1, SenderConstants DEF DeliveryTyped
  <2> QED
    BY <2>2, <2>3
<1>8. DeliveryInv'
  <2>1. \A f \in Sender!Picked : row'[f] = "sent" => f = sending \/ row[f] = "sent"
    BY <1>5
  <2>2. \A s \in Sender!Subs : s # submission => vouched'[s].seq = 0 /\ vouched'[s].files = {}
    BY <1>6 DEF SenderInv, DeliveryInv
  <2> QED
    BY <1>1, <1>5, <1>6, <2>1, <2>2 DEF SenderInv, DeliveryInv
<1>9. CountInv'
  <2>1. Cardinality(SentRows') = sent'
    BY <1>2, <1>4, <1>5, SentGrows
  <2> QED
    BY <1>1, <2>1 DEF SenderInv, CountInv, Sender!Held
<1> QED
  BY <1>5, <1>7, <1>8, <1>9, SenderTypes DEF SenderInv

LEMMA SenderStep ==
  ASSUME SenderInv, Sender!Next
  PROVE  SenderInv'
BY UnsealKeyStep, SendNextStep, NotSentStep, EnsureSubmissionStep, UploadStep, SendRosterStep,
   EnqueueStep DEF Sender!Next

-----------------------------------------------------------------------------
(* Any part of the client.                                                 *)

VisitInv ==
    /\ part = "landing" => LandingInv
    /\ part = "sender" => SenderInv

LEMMA VisitInit == BrowserInit => VisitInv
<1> SUFFICES ASSUME BrowserInit PROVE VisitInv
  OBVIOUS
<1>1. LandingInv
  BY DEF BrowserInit, Landing!Init, LandingInv, Landing!ManifestNames
<1>2. SenderInv
  <2> USE DEF BrowserInit, Sender!Init, Sender!NoSub
  <2>1. QueueTyped /\ DeliveryTyped
    BY SenderConstants DEF QueueTyped, DeliveryTyped
  <2>2. QueueInv /\ DeliveryInv
    BY DEF QueueInv, DeliveryInv
  <2>3. CountInv
    <3>1. SentRows = {} /\ {p \in delivered : p[2] = submission} = {}
      BY DEF SentRows
    <3> QED
      BY <3>1, OneCardinality, FS_EmptySet, SenderConstants DEF CountInv, Sender!Held
  <2> QED
    BY <2>1, <2>2, <2>3, SenderTypes DEF SenderInv
<1> QED
  BY <1>1, <1>2 DEF VisitInv

LEMMA VisitStep == VisitInv /\ [BrowserNext]_client => VisitInv'
<1> SUFFICES ASSUME VisitInv, [BrowserNext]_client PROVE VisitInv'
  OBVIOUS
<1>1. part' = part
  BY DEF BrowserNext, Others, client
<1>2. CASE part = "landing"
  <2>1. Landing!Next \/ UNCHANGED landingVars
    BY <1>2 DEF BrowserNext, client
  <2>2. ASSUME UNCHANGED landingVars PROVE LandingInv'
    BY <1>2, <2>2 DEF landingVars, VisitInv, LandingInv, Landing!ManifestNames
  <2>3. LandingInv'
    BY <1>2, <2>1, <2>2, LandingStep DEF VisitInv
  <2> QED
    BY <1>1, <1>2, <2>3 DEF VisitInv
<1>3. CASE part = "sender"
  <2>1. Sender!Next \/ UNCHANGED senderVars
    BY <1>3 DEF BrowserNext, client
  <2>2. ASSUME UNCHANGED senderVars PROVE SenderInv'
    <3>1. SenderInv
      BY <1>3 DEF VisitInv
    <3>2. QueueTyped' /\ DeliveryTyped'
      BY <2>2, <3>1, SenderTypes DEF senderVars, SenderInv, QueueTyped, DeliveryTyped
    <3>3. QueueInv' /\ DeliveryInv'
      BY <2>2, <3>1 DEF senderVars, SenderInv, QueueInv, DeliveryInv
    <3>4. CountInv'
      BY <2>2, <3>1 DEF senderVars, SenderInv, CountInv, SentRows, Sender!Held
    <3> QED
      BY <3>2, <3>3, <3>4, SenderTypes DEF SenderInv
  <2>3. SenderInv'
    BY <1>3, <2>1, <2>2, SenderStep DEF VisitInv
  <2> QED
    BY <1>1, <1>3, <2>3 DEF VisitInv
<1> QED
  BY <1>1, <1>2, <1>3 DEF VisitInv

LEMMA LandingAddsUp ==
  ASSUME LandingInv
  PROVE  Landing!FetchedOnce /\ Landing!NameAuthentic
BY DEF LandingInv, Landing!FetchedOnce, Landing!NameAuthentic, Landing!ManifestNames

LEMMA SenderAddsUp ==
  ASSUME SenderInv
  PROVE  Sender!OneDelivery /\ Sender!SentVouched
<1>1. Sender!OneDelivery
  <2>1. \A p, q \in delivered : p[2] = q[2]
    BY DEF SenderInv, DeliveryInv
  <2>2. ASSUME NEW s \in (1 .. submissions) \ {submission} PROVE Sender!Held(s) = 0
    <3>1. {p \in delivered : p[2] = s} = {}
      BY DEF SenderInv, DeliveryInv
    <3> QED
      BY <3>1, OneCardinality, FS_EmptySet DEF Sender!Held
  <2> QED
    BY <2>1, <2>2 DEF Sender!OneDelivery
<1>2. Sender!SentVouched
  <2>1. ASSUME NEW f \in Sender!Picked, row[f] = "sent"
        PROVE  /\ <<f, submission>> \in delivered
               /\ vouched[submission].seq = seq => f \in vouched[submission].files
    <3>1. <<f, submission>> \in delivered /\ f \in roster
      BY <2>1 DEF SenderInv, DeliveryInv
    <3>2. submission # 0
      BY <3>1, SenderTypes, SenderConstants DEF SenderInv, DeliveryTyped
    <3> QED
      BY <3>1, <3>2 DEF SenderInv, DeliveryInv
  <2>2. sent = Sender!Cardinality({f \in Sender!Picked : row[f] = "sent"})
    BY OneCardinality DEF SenderInv, CountInv, SentRows
  <2>3. MaxFiles # 0 => sent <= MaxFiles
    <3>1. sent \in Nat /\ sent <= Sender!Held(submission)
      BY SentHeld, SenderTypes DEF SenderInv, DeliveryTyped
    <3>2. Sender!Held(submission) \in Nat
      <4>1. IsFiniteSet({p \in delivered : p[2] = submission})
        BY FilesFinite, FS_Subset
      <4> QED
        BY <4>1, OneCardinality, FS_CardinalityType DEF Sender!Held
    <3> QED
      BY <3>1, <3>2, SenderConstants DEF SenderInv, CountInv
  <2> QED
    BY <2>1, <2>2, <2>3 DEF Sender!SentVouched
<1> QED
  BY <1>1, <1>2

(* A visit to a link spends one download at most, none of a limited link   *)
(* before somebody clicks, and saves nothing under a name the sender did   *)
(* not give; a visit to a drop is one delivery, whose sent files are       *)
(* stored and listed and no more than the drop takes, whatever is lost.    *)
THEOREM EveryVisitAddsUp == BrowserSpec => []VisitsAddUp
<1>1. VisitInv => VisitsAddUp
  BY LandingAddsUp, SenderAddsUp DEF VisitInv, VisitsAddUp
<1> QED
  BY <1>1, VisitInit, VisitStep, PTL DEF BrowserSpec

-----------------------------------------------------------------------------
(* The terms of a link and the storage bars.                               *)

(* What is disabled follows from the three flags, and Single-Use holds the *)
(* two fields it drives.                                                   *)
Terms == [expires : Options!Choices, date : Options!Dates, max : Options!Downloads]
TermsInv ==
    /\ value \in Terms /\ before \in Terms
    /\ disabled = Options!Disabled(optionsLocked, paramsConfirmed, singleUse)
    /\ singleUse => value.expires = "hour" /\ value.max = "one"
    /\ shown = (value.expires = "custom")

LEMMA StartingTerms ==
  /\ Options!Clean \in Terms /\ Options!Nothing \in Terms /\ Options!Clean.expires = "day"
  /\ \A v \in Terms : [v EXCEPT !.expires = "hour", !.max = "one"] \in Terms
BY DEF Options!Clean, Options!Nothing, Terms, Options!Choices, Options!Dates, Options!Downloads

LEMMA TermsStep ==
  ASSUME TermsInv, Options!Next
  PROVE  TermsInv'
<1>1. ASSUME NEW c \in Options!Choices, Options!ChooseExpiry(c) PROVE TermsInv'
  <2>1. /\ UNCHANGED <<before, disabled, singleUse, paramsConfirmed, optionsLocked>>
        /\ value' \in Terms /\ ~singleUse /\ shown' = (value'.expires = "custom")
    BY <1>1 DEF Options!ChooseExpiry, Options!SyncCustomExpiry, TermsInv, Terms, Options!Dates,
       Options!Disabled, Options!Fields
  <2> QED
    BY <2>1 DEF TermsInv
<1>2. ASSUME NEW d \in Options!Dates, Options!EnterDate(d) PROVE TermsInv'
  <2>1. /\ UNCHANGED <<before, disabled, shown, singleUse, paramsConfirmed, optionsLocked>>
        /\ value' \in Terms /\ value'.expires = value.expires /\ value'.max = value.max
    BY <1>2 DEF Options!EnterDate, TermsInv, Terms
  <2> QED
    BY <2>1 DEF TermsInv
<1>3. ASSUME NEW m \in Options!Downloads, Options!EnterMax(m) PROVE TermsInv'
  <2>1. /\ UNCHANGED <<before, disabled, shown, singleUse, paramsConfirmed, optionsLocked>>
        /\ value' \in Terms /\ value'.expires = value.expires /\ ~singleUse
    BY <1>3 DEF Options!EnterMax, TermsInv, Terms, Options!Disabled, Options!Fields
  <2> QED
    BY <2>1 DEF TermsInv
<1>4. ASSUME Options!SetSingleUse PROVE TermsInv'
  <2>1. /\ value' \in Terms /\ before' \in Terms
        /\ singleUse' => value'.expires = "hour" /\ value'.max = "one"
    <3>1. CASE singleUse
      BY <1>4, <3>1, StartingTerms DEF Options!SetSingleUse, TermsInv
    <3>2. CASE ~singleUse
      <4>1. value' = [value EXCEPT !.expires = "hour", !.max = "one"] /\ before' = value
        BY <1>4, <3>2 DEF Options!SetSingleUse
      <4>2. value'.expires = "hour" /\ value'.max = "one"
        BY <4>1 DEF TermsInv, Terms
      <4> QED
        BY <4>1, <4>2, StartingTerms DEF TermsInv
    <3> QED
      BY <3>1, <3>2
  <2> QED
    BY <1>4, <2>1 DEF Options!SetSingleUse, Options!SyncCustomExpiry, Options!ApplyOptionState, TermsInv
<1>5. ASSUME \/ Options!Confirm \/ Options!EditStep \/ Options!SetOptionsLocked \/ Options!NewLink
      PROVE  TermsInv'
  BY <1>5 DEF Options!Confirm, Options!EditStep, Options!SetParamsConfirmed,
     Options!SetOptionsLocked, Options!NewLink, Options!ApplyOptionState, TermsInv
<1>6. ASSUME Options!ResetOptions PROVE TermsInv'
  <2>1. value' \in Terms /\ before' \in Terms
    BY <1>6, StartingTerms DEF Options!ResetOptions
  <2> QED
    BY <1>6, <2>1 DEF Options!ResetOptions, Options!SyncCustomExpiry, Options!ApplyOptionState, TermsInv
<1> QED
  BY <1>1, <1>2, <1>3, <1>4, <1>5, <1>6 DEF Options!Next

LEMMA TermsAreHeld ==
  ASSUME TermsInv
  PROVE  Options!TermsHeld
BY DEF TermsInv, Options!TermsHeld, Options!Disabled, Options!Fields, Options!SnapshotOptions

(* With nothing left to be asked for, the request in flight has the answer *)
(* that the bars will need.                                                *)
BarsInv ==
    /\ landed \in Nat /\ landed <= MaxLanded /\ barsShown \in Nat /\ barsShown <= landed
    /\ usage # Bars!Unanswered => usage \in Nat /\ barsShown <= usage /\ usage <= landed
    /\ usage # Bars!Unanswered \/ barsAgain => barsInFlight
    /\ usage # Bars!Unanswered /\ ~barsTimer /\ ~barsAgain => usage = landed
    /\ ~barsTimer /\ ~barsInFlight /\ ~failed => barsShown = landed

LEMMA BarsStep ==
  ASSUME BarsInv, Bars!Next
  PROVE  BarsInv'
<1>0. MaxLanded \in Nat /\ Bars!Unanswered = MaxLanded + 1 /\ Bars!Unanswered' = Bars!Unanswered
  BY BrowserAssumption DEF Bars!BarsAssumption, Bars!Unanswered
<1>1. CASE Bars!RefreshStorageBars
  BY <1>0, <1>1 DEF Bars!RefreshStorageBars, BarsInv
<1>2. CASE Bars!TimerFires
  BY <1>0, <1>2 DEF Bars!TimerFires, Bars!FetchStorageBars, BarsInv
<1>3. CASE Bars!UsageAnswers
  BY <1>0, <1>3 DEF Bars!UsageAnswers, BarsInv
<1>4. CASE Bars!SwapBars
  BY <1>0, <1>4 DEF Bars!SwapBars, Bars!FetchAgain, BarsInv
<1>5. CASE Bars!FetchFails
  BY <1>0, <1>5 DEF Bars!FetchFails, Bars!FetchAgain, BarsInv
<1> QED
  BY <1>1, <1>2, <1>3, <1>4, <1>5 DEF Bars!Next

(* The picture is clamped wherever it is put, and the frame of a pinch is  *)
(* taken from the pointers as they are.                                    *)
PanInv ==
    /\ scale \in 1 .. ZOOM_MAX /\ tx \in Int
    /\ zoomed => Zoom!Abs(tx) <= Zoom!MaxX(scale, width, loaded) /\ (scale = 1 => tx = 0)
ScreenInv ==
    /\ zoomed \in BOOLEAN /\ loaded \in BOOLEAN /\ width \in Views
    /\ pointers \in [Zoom!Fingers -> Int] /\ pinch = Zoom!Frame(pointers)
ZoomInv == PanInv /\ ScreenInv

LEMMA ZoomConstants ==
  /\ ZOOM_MAX \in Nat \ {0} /\ Wide \in Nat /\ PAN \in Nat /\ Views # {}
  /\ \A v \in Views : v \in Nat /\ v <= Zoom!Up
  /\ Zoom!Up \in Nat \ {0} /\ Zoom!ZOOM_MIN = 1 /\ Zoom!Fingers = {1, 2}
<1>1. Zoom!Up \in Nat \ {0}
  BY SMT DEF Zoom!Up
<1> QED
  BY <1>1, BrowserAssumption DEF Zoom!ZoomAssumption, Zoom!ZOOM_MIN, Zoom!Fingers

LEMMA Clamping ==
  ASSUME NEW t \in Int, NEW s \in Nat, NEW v \in Nat, NEW known \in BOOLEAN
  PROVE  /\ Zoom!MaxX(s, v, known) \in Nat
         /\ s = 1 => Zoom!MaxX(s, v, known) = 0
         /\ Zoom!Clamped(t, s, v, known) \in Int
         /\ Zoom!Abs(Zoom!Clamped(t, s, v, known)) <= Zoom!MaxX(s, v, known)
         /\ Zoom!Abs(0) <= Zoom!MaxX(s, v, known)
         /\ s = 1 => Zoom!Clamped(t, s, v, known) = 0
<1> DEFINE fitted == Zoom!Fitted(v, known)
           overhang == fitted * s - v
<1>1. fitted \in Nat /\ fitted <= v
  BY ZoomConstants DEF Zoom!Fitted, Zoom!Smaller
<1>2. overhang \in Int /\ (s = 1 => overhang <= 0)
  BY <1>1
<1>3. Zoom!MaxX(s, v, known) = Zoom!Larger(0, overhang \div 2)
  BY DEF Zoom!MaxX
<1> HIDE DEF overhang, fitted
<1>4. overhang \div 2 \in Int /\ (overhang <= 0 => overhang \div 2 <= 0)
  BY <1>2
<1> DEFINE m == Zoom!MaxX(s, v, known)
<1>5. m \in Nat /\ (s = 1 => m = 0)
  BY <1>2, <1>3, <1>4 DEF Zoom!Larger
<1>6. Zoom!Clamped(t, s, v, known) = Zoom!Larger(-m, Zoom!Smaller(m, t))
  BY DEF Zoom!Clamped
<1> HIDE DEF m
<1>7. /\ Zoom!Larger(-m, Zoom!Smaller(m, t)) \in Int
      /\ Zoom!Abs(Zoom!Larger(-m, Zoom!Smaller(m, t))) <= m /\ Zoom!Abs(0) <= m
      /\ m = 0 => Zoom!Larger(-m, Zoom!Smaller(m, t)) = 0
  BY <1>5 DEF Zoom!Larger, Zoom!Smaller, Zoom!Abs
<1> QED
  BY <1>5, <1>6, <1>7 DEF m

LEMMA Applied ==
  ASSUME ZoomInv, ScreenInv', NEW s \in 1 .. ZOOM_MAX, NEW t \in Int, Zoom!ApplyZoom(s, t)
  PROVE  PanInv'
<1>1. scale' = s /\ tx' = IF zoomed THEN Zoom!Clamped(t, s, width', loaded') ELSE 0
  BY DEF Zoom!ApplyZoom
<1>2. width' \in Nat /\ loaded' \in BOOLEAN /\ s \in Nat
  BY ZoomConstants DEF ScreenInv
<1>3. /\ Zoom!Clamped(t, s, width', loaded') \in Int
      /\ Zoom!Abs(Zoom!Clamped(t, s, width', loaded')) <= Zoom!MaxX(s, width', loaded')
      /\ Zoom!Abs(0) <= Zoom!MaxX(s, width', loaded')
      /\ s = 1 => Zoom!Clamped(t, s, width', loaded') = 0
  BY <1>2, Clamping
<1>4. tx' \in Int /\ Zoom!Abs(tx') <= Zoom!MaxX(s, width', loaded') /\ (s = 1 => tx' = 0)
  BY <1>1, <1>3
<1> QED
  BY <1>1, <1>4 DEF PanInv

(* Zooming about a point stays within the scales.                          *)
LEMMA Zooms ==
  ASSUME ZoomInv, ScreenInv', NEW next \in Int, NEW d \in Int, NEW t \in Int,
         Zoom!ZoomTo(next, d, t)
  PROVE  PanInv'
<1> DEFINE s == Zoom!Scale(next)
           anchored == Zoom!Anchored(scale, t, s, d)
<1>1. s \in 1 .. ZOOM_MAX
  BY ZoomConstants DEF Zoom!Scale, Zoom!Larger, Zoom!Smaller
<1>2. Zoom!ApplyZoom(s, anchored)
  BY DEF Zoom!ZoomTo
<1>3. anchored \in Int
  <2>1. scale \in Nat \ {0}
    BY ZoomConstants DEF ZoomInv, PanInv
  <2> DEFINE moved == s * (d - t)
  <2>2. moved \in Int
    <3> HIDE DEF s
    <3> QED
      BY <1>1
  <2>3. anchored = d - moved \div scale
    BY DEF Zoom!Anchored
  <2> HIDE DEF moved, anchored
  <2> QED
    BY <2>1, <2>2, <2>3
<1> HIDE DEF s, anchored
<1> QED
  BY <1>1, <1>2, <1>3, Applied

LEMMA ZoomStep ==
  ASSUME ZoomInv, Zoom!Next
  PROVE  ZoomInv'
<1>0. /\ width \in Nat /\ scale \in Nat \ {0} /\ tx \in Int
      /\ Zoom!Places \subseteq Int /\ Zoom!Up \notin Zoom!Places
  BY ZoomConstants DEF ZoomInv, ScreenInv, PanInv, Zoom!Places
<1>1. Zoom!Steps \subseteq Int
  BY <1>0 DEF Zoom!Steps
<1>2. 1 \in 1 .. ZOOM_MAX /\ scale \in 1 .. ZOOM_MAX
  BY ZoomConstants DEF ZoomInv, PanInv
<1>3. CASE Zoom!Wheel
  <2>1. ScreenInv'
    BY <1>3 DEF Zoom!Wheel, ZoomInv, ScreenInv, Zoom!Frame, Zoom!Fingers
  <2>2. PICK next \in Zoom!Steps, d \in Zoom!Places : Zoom!ZoomTo(next, d, tx)
    BY <1>3 DEF Zoom!Wheel
  <2> QED
    BY <1>0, <1>1, <2>1, <2>2, Zooms DEF ZoomInv
<1>4. CASE Zoom!Keys
  <2>1. ScreenInv'
    BY <1>4 DEF Zoom!Keys, ZoomInv, ScreenInv, Zoom!Frame, Zoom!Fingers
  <2>2. CASE \E next \in Zoom!Steps : Zoom!ZoomTo(next, 0, tx)
    BY <1>0, <1>1, <2>1, <2>2, Zooms DEF ZoomInv
  <2>3. CASE Zoom!ApplyZoom(1, 0)
    BY <1>2, <2>1, <2>3, Applied DEF ZoomInv
  <2>4. ASSUME NEW by \in {-PAN, PAN}, Zoom!ApplyZoom(scale, tx + by) PROVE ZoomInv'
    <3>1. tx + by \in Int
      BY <1>0, ZoomConstants
    <3> QED
      BY <1>2, <2>1, <2>4, <3>1, Applied DEF ZoomInv
  <2> QED
    BY <1>4, <2>2, <2>3, <2>4, ZoomConstants DEF Zoom!Keys
<1>5. ASSUME NEW i \in Zoom!Fingers, Zoom!PointerDown(i) \/ Zoom!EndPointer(i) PROVE ZoomInv'
  <2>1. /\ UNCHANGED <<zoomed, width, loaded, scale, tx>> /\ pinch' = Zoom!Frame(pointers')
        /\ \E x \in Int : pointers' = [pointers EXCEPT ![i] = x]
    BY <1>0, <1>5, ZoomConstants DEF Zoom!PointerDown, Zoom!EndPointer
  <2>2. PanInv'
    BY <2>1 DEF ZoomInv, PanInv
  <2>3. pointers' \in [Zoom!Fingers -> Int]
    BY <2>1 DEF ZoomInv, ScreenInv
  <2>4. ScreenInv'
    BY <2>1, <2>3 DEF ZoomInv, ScreenInv
  <2> QED
    BY <2>2, <2>4 DEF ZoomInv
<1>6. ASSUME NEW i \in Zoom!Fingers, Zoom!PointerMove(i) PROVE ZoomInv'
  <2>1. PICK x \in Zoom!Places \ {pointers[i]} :
           /\ pointers' = [pointers EXCEPT ![i] = x]
           /\ IF Zoom!Down = Zoom!Fingers
              THEN LET now == Zoom!PinchFrame(pointers') IN
                   /\ pinch' = now
                   /\ IF pinch.dist = 0 THEN UNCHANGED <<scale, tx>>
                      ELSE Zoom!ZoomTo((scale * now.dist) \div pinch.dist, now.mid,
                                       tx + now.mid - pinch.mid)
              ELSE /\ UNCHANGED pinch
                   /\ IF scale > 1 THEN Zoom!ApplyZoom(scale, tx + x - pointers[i])
                      ELSE UNCHANGED <<scale, tx>>
    BY <1>6, ZoomConstants DEF Zoom!PointerMove
  <2>2. pointers[i] # Zoom!Up /\ UNCHANGED <<zoomed, width, loaded>>
    BY <1>6 DEF Zoom!PointerMove
  <2>3. pointers \in [Zoom!Fingers -> Int] /\ pinch = Zoom!Frame(pointers) /\ x \in Int
    BY <1>0 DEF ZoomInv, ScreenInv
  <2>4. pointers' \in [Zoom!Fingers -> Int] /\ pointers'[i] = x /\ x # Zoom!Up
        /\ \A j \in Zoom!Fingers \ {i} : pointers'[j] = pointers[j]
    BY <1>0, <2>1, <2>3
  <2>5. \A p \in [Zoom!Fingers -> Int] :
           Zoom!PinchFrame(p).dist \in Nat /\ Zoom!PinchFrame(p).mid \in Int
    BY ZoomConstants DEF Zoom!PinchFrame, Zoom!Abs
  <2>6. CASE Zoom!Down = Zoom!Fingers
    <3> DEFINE now == Zoom!PinchFrame(pointers')
    <3>1. \A j \in Zoom!Fingers : pointers[j] # Zoom!Up
      BY <2>6 DEF Zoom!Down
    <3>2. pinch' = now /\ pinch = Zoom!PinchFrame(pointers) /\ Zoom!Frame(pointers') = now
      BY <2>1, <2>3, <2>4, <2>6, <3>1 DEF Zoom!Frame
    <3>3. ScreenInv'
      BY <2>2, <2>4, <3>2 DEF ZoomInv, ScreenInv
    <3>4. CASE pinch.dist = 0
      <4>1. UNCHANGED <<scale, tx>>
        BY <2>1, <2>6, <3>4
      <4> QED
        BY <2>2, <3>3, <4>1 DEF ZoomInv, PanInv
    <3>5. CASE pinch.dist # 0
      <4> DEFINE next == (scale * now.dist) \div pinch.dist
                 t == tx + now.mid - pinch.mid
      <4>1. Zoom!ZoomTo(next, now.mid, t)
        BY <2>1, <2>6, <3>5
      <4>2. now.mid \in Int /\ pinch.mid \in Int /\ now.dist \in Nat /\ pinch.dist \in Nat \ {0}
        BY <2>3, <2>4, <2>5, <3>2, <3>5
      <4>3. next \in Int
        <5> DEFINE wide == scale * now.dist
        <5>1. wide \in Int
          BY <1>0, <4>2
        <5> HIDE DEF wide
        <5> QED
          BY <4>2, <5>1 DEF wide
      <4>4. t \in Int
        BY <1>0, <4>2
      <4> HIDE DEF next, t, now
      <4> QED
        BY <3>3, <4>1, <4>2, <4>3, <4>4, Zooms DEF ZoomInv
    <3> QED
      BY <3>4, <3>5
  <2>7. CASE Zoom!Down # Zoom!Fingers
    <3>1. PICK j \in Zoom!Fingers : pointers[j] = Zoom!Up
      BY <2>7 DEF Zoom!Down
    <3>2. j # i /\ pointers'[j] = Zoom!Up
      BY <2>2, <2>4, <3>1
    <3>3. pinch = Zoom!NoPinch /\ Zoom!Frame(pointers') = Zoom!NoPinch /\ pinch' = pinch
      BY <2>1, <2>3, <2>7, <3>1, <3>2 DEF Zoom!Frame
    <3>4. ScreenInv'
      BY <2>2, <2>4, <3>3 DEF ZoomInv, ScreenInv
    <3>5. CASE UNCHANGED <<scale, tx>>
      BY <2>2, <3>4, <3>5 DEF ZoomInv, PanInv
    <3>6. CASE Zoom!ApplyZoom(scale, tx + x - pointers[i])
      <4>1. tx + x - pointers[i] \in Int
        BY <1>0, <2>3
      <4> QED
        BY <1>2, <3>4, <3>6, <4>1, Applied DEF ZoomInv
    <3> QED
      BY <2>1, <2>7, <3>5, <3>6
  <2> QED
    BY <2>6, <2>7
<1>7. CASE Zoom!Click \/ Zoom!Close
  <2>1. /\ zoomed' \in BOOLEAN /\ (zoomed' => zoomed)
        /\ UNCHANGED <<width, loaded, pointers, pinch>>
    BY <1>7 DEF Zoom!Click, Zoom!Close, ZoomInv, ScreenInv
  <2>2. ScreenInv'
    BY <2>1 DEF ZoomInv, ScreenInv, Zoom!Frame, Zoom!Fingers
  <2>3. Zoom!ApplyZoom(1, 0) \/ UNCHANGED <<scale, tx>>
    BY <1>7, ZoomConstants DEF Zoom!Click, Zoom!Close
  <2>4. PanInv'
    <3>1. CASE Zoom!ApplyZoom(1, 0)
      BY <1>2, <2>2, <3>1, Applied
    <3>2. CASE UNCHANGED <<scale, tx>>
      BY <2>1, <3>2 DEF ZoomInv, PanInv
    <3> QED
      BY <2>3, <3>1, <3>2
  <2> QED
    BY <2>2, <2>4 DEF ZoomInv
<1>8. CASE Zoom!OpenZoom
  <2>1. /\ zoomed' = TRUE /\ loaded' = FALSE /\ width' = width /\ Zoom!ApplyZoom(1, 0)
        /\ pointers' = [i \in Zoom!Fingers |-> Zoom!Up] /\ pinch' = Zoom!NoPinch
    BY <1>8, ZoomConstants DEF Zoom!OpenZoom
  <2>2. pointers' \in [Zoom!Fingers -> Int] /\ Zoom!Frame(pointers') = Zoom!NoPinch
    BY <2>1, ZoomConstants DEF Zoom!Frame
  <2>3. ScreenInv'
    BY <2>1, <2>2 DEF ZoomInv, ScreenInv
  <2> QED
    BY <1>2, <2>1, <2>3, Applied DEF ZoomInv
<1>9. CASE Zoom!Load \/ Zoom!Resize
  <2>1. /\ UNCHANGED <<zoomed, pointers, pinch>>
        /\ width' \in Views /\ loaded' \in BOOLEAN
    BY <1>9 DEF Zoom!Load, Zoom!Resize, ZoomInv, ScreenInv
  <2>2. ScreenInv'
    BY <2>1 DEF ZoomInv, ScreenInv, Zoom!Frame, Zoom!Fingers
  <2>3. CASE Zoom!ApplyZoom(scale, tx)
    BY <1>0, <1>2, <2>2, <2>3, Applied DEF ZoomInv
  <2>4. CASE ~zoomed /\ Zoom!Resize /\ UNCHANGED <<scale, tx>>
    BY <2>1, <2>2, <2>4 DEF ZoomInv, PanInv
  <2> QED
    BY <1>9, <2>3, <2>4 DEF Zoom!Load, Zoom!Resize
<1> QED
  BY <1>3, <1>4, <1>5, <1>6, <1>7, <1>8, <1>9 DEF Zoom!Next

-----------------------------------------------------------------------------
(* The owner's list.                                                       *)

(* What is selected is among the rows the search leaves, and the count and *)
(* the boxes above the list and its groups follow from it.                 *)
Shown(g, visible) == {r \in visible : Group[r] = g}
Boxes(visible, picked) ==
    {g \in History!Groups : Shown(g, visible) # {} /\ Shown(g, visible) \subseteq picked}

SelectionInv ==
    /\ rows \subseteq History!Rows /\ hidden \subseteq rows /\ checked \subseteq History!Visible
    /\ counted = History!Cardinality(checked)
    /\ bulkAll = (History!Visible # {} /\ checked = History!Visible)
    /\ groupBoxes = Boxes(History!Visible, checked)

Distinct(s) == \A i, j \in 1 .. Len(s) : s[i] = s[j] => i = j
NamesInv ==
    names \in Seq(History!Rows) /\ Distinct(names) /\ Len(names) <= NAME_STORE_MAX

(* The names that are left are a part of those there were, in their order. *)
LEMMA FewerNames ==
  ASSUME NEW s \in Seq(History!Rows), Distinct(s), NEW gone
  PROVE  /\ History!Without(s, gone) \in Seq(History!Rows) /\ Distinct(History!Without(s, gone))
         /\ Len(History!Without(s, gone)) <= Len(s)
<1> DEFINE S == Seq(History!Rows)
           n == Len(s)
           body(f) == [i \in 0 .. n |->
                          IF i = 0 THEN <<>>
                          ELSE IF s[i] \in gone THEN f[i - 1] ELSE Append(f[i - 1], s[i])]
           next == [p \in S \X (1 .. n) |-> IF s[p[2]] \in gone THEN p[1] ELSE Append(p[1], s[p[2]])]
           rest == CHOOSE f : f = body(f)
<1>1. /\ n \in Nat /\ <<>> \in S /\ \A i \in 1 .. n : s[i] \in History!Rows
      /\ \A q \in S, i \in 1 .. n : Append(q, s[i]) \in S
  OBVIOUS
<1>2. next \in Moves(S, n)
  BY <1>1 DEF Moves
<1>3. \A q \in S, i \in 1 .. n :
         next[<<q, i>>] = IF s[i] \in gone THEN q ELSE Append(q, s[i])
  OBVIOUS
<1> HIDE DEF S, next
<1>r. PICK f : Runs(f, S, n, <<>>, next)
  <2>1. n \in Nat /\ <<>> \in S
    BY <1>1
  <2> HIDE DEF n
  <2> QED
    BY <1>2, <2>1, Recursion
<1>4. /\ f \in [0 .. n -> S] /\ f[0] = <<>>
      /\ \A i \in 1 .. n : f[i] = next[<<f[i - 1], i>>]
  BY <1>r DEF Runs
<1>5. f = body(f)
  <2>1. ASSUME NEW i \in 0 .. n PROVE f[i] = body(f)[i]
    <3>1. CASE i = 0
      BY <1>4, <3>1
    <3>2. CASE i # 0
      <4>1. i \in 1 .. n /\ i - 1 \in 0 .. n /\ f[i - 1] \in S
        BY <1>1, <1>4, <3>2
      <4> QED
        BY <1>3, <1>4, <3>2, <4>1
    <3> QED
      BY <3>1, <3>2
  <2> QED
    BY <1>4, <2>1
<1>6. rest = body(rest)
  BY <1>5
<1>7. History!Without(s, gone) = rest[n]
  BY DEF History!Without
<1>8. /\ rest[0] = <<>>
      /\ \A i \in 1 .. n : rest[i] = IF s[i] \in gone THEN rest[i - 1] ELSE Append(rest[i - 1], s[i])
  <2> HIDE DEF rest
  <2>1. \A i \in 0 .. n : rest[i] = IF i = 0 THEN <<>>
                          ELSE IF s[i] \in gone THEN rest[i - 1] ELSE Append(rest[i - 1], s[i])
    BY <1>6
  <2> QED
    BY <1>1, <2>1
<1> HIDE DEF rest
<1> DEFINE Part(q, k) == /\ q \in S /\ Len(q) <= k /\ Distinct(q)
                         /\ \A i \in 1 .. Len(q) : \E j \in 1 .. k : q[i] = s[j]
           T == {k \in Nat : k > n \/ Part(rest[k], k)}
<1>9. 0 \in T
  BY <1>1, <1>8 DEF Distinct
<1>10. ASSUME NEW k \in Nat, k \in T, k + 1 <= n PROVE Part(rest[k + 1], k + 1)
  <2> DEFINE q == rest[k]
  <2>1. q \in S /\ Len(q) <= k /\ Distinct(q) /\ \A i \in 1 .. Len(q) : \E j \in 1 .. k : q[i] = s[j]
    BY <1>10
  <2>2. k + 1 \in 1 .. n /\ rest[k + 1] = IF s[k + 1] \in gone THEN q ELSE Append(q, s[k + 1])
    BY <1>8, <1>10
  <2> HIDE DEF q
  <2>3. CASE rest[k + 1] = q
    BY <2>1, <2>3
  <2>4. CASE rest[k + 1] = Append(q, s[k + 1])
    <3> DEFINE a == Append(q, s[k + 1])
    <3>1. /\ a \in S /\ Len(q) \in Nat /\ Len(a) = Len(q) + 1
          /\ \A i \in 1 .. Len(q) : a[i] = q[i]
          /\ a[Len(q) + 1] = s[k + 1]
      BY <1>1, <2>1, <2>2 DEF S
    <3>2. \A i \in 1 .. Len(q) : a[i] # s[k + 1]
      BY <2>1, <2>2, <3>1 DEF Distinct
    <3> HIDE DEF a
    <3>3. Distinct(a)
      BY <2>1, <3>1, <3>2 DEF Distinct
    <3>4. \A i \in 1 .. Len(a) : \E j \in 1 .. k + 1 : a[i] = s[j]
      BY <2>1, <3>1
    <3> QED
      BY <2>1, <2>4, <3>1, <3>3, <3>4 DEF a
  <2> QED
    BY <2>2, <2>3, <2>4
<1> HIDE DEF Part
<1>11. \A k \in Nat : k \in T => k + 1 \in T
  BY <1>1, <1>10
<1>12. n \in T
  BY <1>1, <1>9, <1>11, FromZero
<1>13. Part(rest[n], n)
  BY <1>1, <1>12
<1> QED
  BY <1>7, <1>13 DEF Part, S

LEMMA HistoryConstants ==
  /\ Count \in Nat /\ NAME_STORE_MAX \in Nat /\ History!Rows = 1 .. Count
  /\ \A q \in Queries : Hits[q] \subseteq History!Rows
BY BrowserAssumption DEF History!HistoryAssumption, History!Rows

LEMMA RememberStep ==
  ASSUME NamesInv, NEW r \in History!Rows, History!RememberName(r)
  PROVE  NamesInv'
<1> DEFINE s == IF r \in History!Remembered(names) THEN names ELSE Append(names, r)
           over == Len(s) - NAME_STORE_MAX
<1>1. names' = IF over > 0 THEN SubSeq(s, over + 1, Len(s)) ELSE s
  BY DEF History!RememberName
<1>2. s \in Seq(History!Rows) /\ Distinct(s) /\ Len(s) \in Nat
  <2>1. CASE r \in History!Remembered(names)
    BY <2>1 DEF NamesInv
  <2>2. CASE r \notin History!Remembered(names)
    <3>1. s = Append(names, r) /\ names \in Seq(History!Rows) /\ Distinct(names)
      BY <2>2 DEF NamesInv
    <3>2. \A i \in 1 .. Len(names) : names[i] # r
      BY <2>2, <3>1 DEF History!Remembered
    <3>3. /\ s \in Seq(History!Rows) /\ Len(names) \in Nat /\ Len(s) = Len(names) + 1
          /\ s[Len(names) + 1] = r /\ \A i \in 1 .. Len(names) : s[i] = names[i]
      BY <3>1
    <3> HIDE DEF s
    <3> QED
      BY <3>1, <3>2, <3>3 DEF Distinct
  <2> QED
    BY <2>1, <2>2
<1> HIDE DEF s
<1>3. NAME_STORE_MAX \in Nat
  BY HistoryConstants
<1>4. CASE over > 0
  <2>1. over \in Nat /\ \A i \in over + 1 .. Len(s) : s[i] \in History!Rows
    BY <1>2, <1>3, <1>4
  <2>2. /\ names' \in Seq(History!Rows) /\ Len(names') = NAME_STORE_MAX
        /\ \A i \in 1 .. Len(names') : names'[i] = s[over + i]
    <3>1. names' = SubSeq(s, over + 1, Len(s))
      BY <1>1, <1>4
    <3>2. /\ names' \in Seq(History!Rows)
          /\ Len(names') = IF over + 1 <= Len(s) THEN Len(s) - (over + 1) + 1 ELSE 0
          /\ \A i \in 1 .. Len(s) - (over + 1) + 1 : names'[i] = s[over + 1 + i - 1]
      BY <1>2, <2>1, <3>1, SubSeqProperties
    <3> QED
      BY <1>2, <1>3, <2>1, <3>2
  <2>3. Distinct(names')
    <3>1. \A i \in 1 .. Len(names') : over + i \in 1 .. Len(s)
      BY <1>2, <1>3, <2>1, <2>2
    <3>2. \A i, j \in 1 .. Len(names') : names'[i] = names'[j] => over + i = over + j
      BY <1>2, <2>2, <3>1 DEF Distinct
    <3>3. \A i, j \in 1 .. Len(names') : over + i = over + j => i = j
      BY <1>3, <2>1, <2>2
    <3> QED
      BY <3>2, <3>3 DEF Distinct
  <2> QED
    BY <1>3, <2>2, <2>3 DEF NamesInv
<1>5. CASE ~(over > 0)
  BY <1>1, <1>2, <1>3, <1>5 DEF NamesInv
<1> QED
  BY <1>4, <1>5

LEMMA NamesStep ==
  ASSUME NamesInv, History!Next
  PROVE  NamesInv'
<1>1. ASSUME NEW gone, History!Delete(gone) PROVE NamesInv'
  <2>1. names' = History!Without(names, gone)
    BY <1>1 DEF History!Delete
  <2>2. names \in Seq(History!Rows) /\ Distinct(names) /\ Len(names) \in Nat
    BY DEF NamesInv
  <2>3. names' \in Seq(History!Rows) /\ Distinct(names') /\ Len(names') <= Len(names)
    BY <2>1, <2>2, FewerNames
  <2> QED
    BY <2>2, <2>3, HistoryConstants DEF NamesInv
<1>2. CASE UNCHANGED names
  BY <1>2 DEF NamesInv, Distinct
<1>3. CASE \E r \in History!Rows : History!RememberName(r)
  BY <1>3, RememberStep
<1> QED
  BY <1>1, <1>2, <1>3 DEF History!Next, History!FoldAll, History!SelectAll, History!BulkDelete,
     History!Search, History!SetFolded, History!SelectGroup, History!DeleteRow, History!Select

(* Whatever is selected of the rows that are visible then, is counted.     *)
LEMMA Syncs ==
  ASSUME NEW visible, NEW picked, picked \subseteq visible, visible = History!Visible',
         rows' \subseteq History!Rows, hidden' \subseteq rows', History!Sync(visible, picked)
  PROVE  SelectionInv'
<1>1. /\ checked' = picked /\ counted' = History!Cardinality(picked \cap visible)
      /\ bulkAll' = (visible # {} /\ visible \subseteq picked)
      /\ groupBoxes' = Boxes(visible, picked)
  BY DEF History!Sync, Boxes, Shown
<1>2. picked \cap visible = picked
  OBVIOUS
<1>3. counted' = History!Cardinality(checked')
  BY <1>1, <1>2
<1>4. bulkAll' = (History!Visible' # {} /\ checked' = History!Visible')
  <2>1. visible \subseteq picked <=> picked = visible
    OBVIOUS
  <2> QED
    BY <1>1, <2>1
<1>5. groupBoxes' = Boxes(History!Visible', checked')
  BY <1>1
<1>6. Boxes(History!Visible', checked') = Boxes(History!Visible, checked)'
  BY DEF Boxes, Shown
<1> QED
  BY <1>1, <1>3, <1>4, <1>5, <1>6 DEF SelectionInv

LEMMA SelectionStep ==
  ASSUME SelectionInv, History!Next
  PROVE  SelectionInv'
<1>0. rows \subseteq History!Rows /\ hidden \subseteq rows /\ checked \subseteq History!Visible
  BY DEF SelectionInv
<1>1. ASSUME UNCHANGED <<rows, hidden, checked, counted, bulkAll, groupBoxes>> PROVE SelectionInv'
  BY <1>1 DEF SelectionInv, History!Visible, Boxes, Shown
<1>2. ASSUME NEW picked, picked \subseteq History!Visible, UNCHANGED <<rows, hidden>>,
             History!Sync(History!Visible, picked)
      PROVE  SelectionInv'
  <2>1. History!Visible' = History!Visible
    BY <1>2 DEF History!Visible
  <2> QED
    BY <1>0, <1>2, <2>1, Syncs
<1>3. ASSUME NEW q, History!Search(q) PROVE SelectionInv'
  <2> DEFINE hits == rows \cap Hits[q]
  <2>1. rows' = rows /\ hidden' = rows \ hits /\ History!Sync(hits, checked \cap hits)
    BY <1>3 DEF History!Search, History!OnListFiltered
  <2>2. hits = History!Visible'
    BY <2>1 DEF History!Visible
  <2>3. checked \cap hits \subseteq hits
    OBVIOUS
  <2> HIDE DEF hits
  <2>4. rows' \subseteq History!Rows /\ hidden' \subseteq rows'
    BY <1>0, <2>1
  <2> QED
    BY <2>1, <2>2, <2>3, <2>4, Syncs
<1>4. ASSUME NEW r, NEW shift, History!Select(r, shift) PROVE SelectionInv'
  <2> DEFINE on == r \notin checked
             range == IF shift /\ anchor \in History!Visible
                 THEN {i \in History!Visible : (anchor <= i /\ i <= r) \/ (r <= i /\ i <= anchor)}
                 ELSE {r}
             picked == IF on THEN checked \cup range ELSE checked \ range
  <2>1. History!Sync(History!Visible, picked) /\ UNCHANGED <<rows, hidden>>
    BY <1>4 DEF History!Select, History!list
  <2>2. picked \subseteq History!Visible
    <3>1. r \in History!Visible
      BY <1>4 DEF History!Select, History!Clickable
    <3>2. range \subseteq History!Visible
      BY <3>1
    <3> HIDE DEF range
    <3> QED
      BY <1>0, <3>2
  <2> HIDE DEF picked
  <2> QED
    BY <1>2, <2>1, <2>2
<1>5. CASE History!SelectAll
  <2> DEFINE picked == IF bulkAll THEN checked \ History!Visible ELSE checked \cup History!Visible
  <2>1. History!Sync(History!Visible, picked) /\ UNCHANGED <<rows, hidden>>
    BY <1>5 DEF History!SelectAll, History!list
  <2>2. picked \subseteq History!Visible
    BY <1>0
  <2> HIDE DEF picked
  <2> QED
    BY <1>2, <2>1, <2>2
<1>6. ASSUME NEW g, History!SelectGroup(g) PROVE SelectionInv'
  <2> DEFINE mine == {r \in History!Visible : Group[r] = g}
             picked == IF g \in groupBoxes THEN checked \ mine ELSE checked \cup mine
  <2>1. History!Sync(History!Visible, picked) /\ UNCHANGED <<rows, hidden>>
    BY <1>6 DEF History!SelectGroup, History!list
  <2>2. picked \subseteq History!Visible
    BY <1>0
  <2> HIDE DEF picked
  <2> QED
    BY <1>2, <2>1, <2>2
<1>7. ASSUME NEW gone, History!Delete(gone) PROVE SelectionInv'
  <2> DEFINE none == {}
  <2>1. rows' = rows \ gone /\ hidden' = {} /\ History!Sync(rows', none)
    BY <1>7 DEF History!Delete
  <2>2. rows' = History!Visible' /\ rows' \subseteq History!Rows /\ hidden' \subseteq rows'
    BY <1>0, <2>1 DEF History!Visible
  <2>3. none \subseteq rows'
    OBVIOUS
  <2> HIDE DEF none
  <2> QED
    BY <2>1, <2>2, <2>3, Syncs
<1>8. ASSUME History!FoldAll \/ (\E g : History!SetFolded(g)) \/ (\E r : History!RememberName(r))
      PROVE  SelectionInv'
  BY <1>1, <1>8 DEF History!FoldAll, History!SetFolded, History!RememberName,
     History!list, History!marks
<1> QED
  BY <1>3, <1>4, <1>5, <1>6, <1>7, <1>8 DEF History!Next, History!BulkDelete, History!DeleteRow

LEMMA HistoryShows ==
  ASSUME SelectionInv, NamesInv
  PROVE  History!DeletesWhatIsShown /\ History!NamesBounded
<1>1. History!Cardinality(History!Remembered(names)) = Len(names)
  <2>1. names \in [1 .. Len(names) -> History!Remembered(names)] /\ Len(names) \in Nat
    BY DEF NamesInv, History!Remembered
  <2>2. names \in Injection(1 .. Len(names), History!Remembered(names))
    BY <2>1 DEF NamesInv, Distinct, Injection, IsInjective
  <2>3. names \in Surjection(1 .. Len(names), History!Remembered(names))
    BY <2>1 DEF Surjection, History!Remembered
  <2>4. IsFiniteSet(1 .. Len(names)) /\ Cardinality(1 .. Len(names)) = Len(names)
    <3>1. \A n \in Nat : IsFiniteSet(1 .. n) /\ Cardinality(1 .. n) = n
      BY FS_Interval
    <3> QED
      BY <2>1, <3>1
  <2>5. Cardinality(History!Remembered(names)) = Cardinality(1 .. Len(names))
    BY <2>2, <2>3, <2>4, FS_Surjection
  <2> QED
    BY <2>4, <2>5, Zenon DEF History!Cardinality, Cardinality, History!IsFiniteSet, IsFiniteSet
<1>2. groupBoxes = {g \in History!Groups : LET mine == {r \in History!Visible : Group[r] = g}
                                            IN mine # {} /\ mine \subseteq checked}
  BY DEF SelectionInv, Boxes, Shown
<1> QED
  BY <1>1, <1>2 DEF SelectionInv, NamesInv, History!DeletesWhatIsShown, History!NamesBounded

PageInv ==
    /\ part = "options" => TermsInv
    /\ part = "bars" => BarsInv
    /\ part = "history" => SelectionInv /\ NamesInv
    /\ part = "zoom" => ZoomInv

LEMMA PageInit == BrowserInit => PageInv
<1>1. BrowserInit => TermsInv
  <2>1. BrowserInit => /\ value = Options!Clean /\ before = Options!Nothing /\ disabled = {}
                       /\ shown = FALSE /\ ~singleUse /\ ~paramsConfirmed /\ ~optionsLocked
    BY DEF BrowserInit, Options!Init
  <2> QED
    BY <2>1, StartingTerms DEF TermsInv, Options!Disabled
<1>2. BrowserInit => BarsInv
  BY BrowserAssumption DEF BrowserInit, Bars!Init, BarsInv, Bars!BarsAssumption
<1>3. BrowserInit => SelectionInv /\ NamesInv
  <2> SUFFICES ASSUME History!Init PROVE SelectionInv /\ NamesInv
    BY DEF BrowserInit
  <2>1. History!Cardinality({}) = 0
    BY FS_EmptySet, Zenon DEF History!Cardinality, Cardinality, History!IsFiniteSet, IsFiniteSet
  <2>2. SelectionInv
    BY <2>1 DEF History!Init, SelectionInv, History!Visible, Boxes, Shown
  <2>3. NamesInv
    <3>1. names = <<>>
      BY DEF History!Init
    <3>2. names \in Seq(History!Rows) /\ Len(names) = 0
      BY <3>1
    <3> QED
      BY <3>2, HistoryConstants DEF NamesInv, Distinct
  <2> QED
    BY <2>2, <2>3
<1>4. BrowserInit => ZoomInv
  <2> SUFFICES ASSUME Zoom!Init PROVE ZoomInv
    BY DEF BrowserInit
  <2>1. Zoom!Frame(pointers) = Zoom!NoPinch /\ pointers \in [Zoom!Fingers -> Int]
    BY ZoomConstants DEF Zoom!Init, Zoom!Frame
  <2>2. PanInv
    BY ZoomConstants DEF Zoom!Init, PanInv
  <2>3. ScreenInv
    BY <2>1 DEF Zoom!Init, ScreenInv
  <2> QED
    BY <2>2, <2>3 DEF ZoomInv
<1> QED
  BY <1>1, <1>2, <1>3, <1>4 DEF PageInv

LEMMA PageStep == PageInv /\ [BrowserNext]_client => PageInv'
<1> SUFFICES ASSUME PageInv, [BrowserNext]_client PROVE PageInv'
  OBVIOUS
<1>1. part' = part
  BY DEF BrowserNext, Others, client
<1>2. CASE part = "options"
  <2>1. Options!Next \/ UNCHANGED optionsVars
    BY <1>2 DEF BrowserNext, client
  <2>2. ASSUME UNCHANGED optionsVars PROVE TermsInv'
    BY <1>2, <2>2 DEF optionsVars, PageInv, TermsInv
  <2> QED
    BY <1>1, <1>2, <2>1, <2>2, TermsStep DEF PageInv
<1>3. CASE part = "bars"
  <2>1. Bars!Next \/ UNCHANGED barsVars
    BY <1>3 DEF BrowserNext, client
  <2>2. ASSUME UNCHANGED barsVars PROVE BarsInv'
    BY <1>3, <2>2 DEF barsVars, PageInv, BarsInv, Bars!Unanswered
  <2> QED
    BY <1>1, <1>3, <2>1, <2>2, BarsStep DEF PageInv
<1>4. CASE part = "history"
  <2>1. History!Next \/ UNCHANGED historyVars
    BY <1>4 DEF BrowserNext, client
  <2>2. ASSUME UNCHANGED historyVars PROVE SelectionInv' /\ NamesInv'
    BY <1>4, <2>2 DEF historyVars, PageInv, SelectionInv, History!Visible, Boxes, Shown, NamesInv, Distinct
  <2> QED
    BY <1>1, <1>4, <2>1, <2>2, SelectionStep, NamesStep DEF PageInv
<1>5. CASE part = "zoom"
  <2>1. Zoom!Next \/ UNCHANGED zoomVars
    BY <1>5 DEF BrowserNext, client
  <2>2. ASSUME UNCHANGED zoomVars PROVE ZoomInv'
    BY <1>5, <2>2 DEF zoomVars, PageInv, ZoomInv, PanInv, ScreenInv
  <2> QED
    BY <1>1, <1>5, <2>1, <2>2, ZoomStep DEF PageInv
<1> QED
  BY <1>1, <1>2, <1>3, <1>4, <1>5 DEF PageInv

(* No order of confirming, editing, locking and Single-Use frees a field   *)
(* that one of them still holds.                                           *)
THEOREM TermsStayHeld == BrowserSpec => [](part = "options" => Options!TermsHeld)
<1>1. PageInv => (part = "options" => Options!TermsHeld)
  BY TermsAreHeld DEF PageInv
<1> QED
  BY <1>1, PageInit, PageStep, PTL DEF BrowserSpec

(* However many uploads land while the bars are being fetched, the bars    *)
(* account for all of them once nothing is scheduled or in flight, unless  *)
(* the last request failed.                                                *)
THEOREM BarsDoCatchUp == BrowserSpec => [](part = "bars" => Bars!BarsCatchUp)
<1>1. PageInv => (part = "bars" => Bars!BarsCatchUp)
  BY DEF PageInv, BarsInv, Bars!BarsCatchUp
<1> QED
  BY <1>1, PageInit, PageStep, PTL DEF BrowserSpec

(* And the page acts on what it shows: besides the terms and the bars,     *)
(* what would be deleted is what is visible and counted, however it was    *)
(* searched, ranged and folded, the store of names keeps to its limit with *)
(* no name twice, and an enlarged picture is never panned past its edge.   *)
THEOREM PagesStayConsistent == BrowserSpec => []PagesConsistent
<1>1. ZoomInv => Zoom!PictureInView
  BY ZoomConstants DEF ZoomInv, PanInv, ScreenInv, Zoom!PictureInView
<1>2. PageInv => PagesConsistent
  BY <1>1, TermsAreHeld, HistoryShows DEF PageInv, BarsInv, Bars!BarsCatchUp, PagesConsistent
<1> QED
  BY <1>2, PageInit, PageStep, PTL DEF BrowserSpec

-----------------------------------------------------------------------------
(* The types of the pages, which the invariants above give most of.        *)

LEMMA OptionsTyped ==
  ASSUME TermsInv', Options!TypeOK, Options!Next
  PROVE  Options!TypeOK'
<1>1. /\ value' \in Terms /\ before' \in Terms /\ disabled' \subseteq Options!Fields
      /\ shown' \in BOOLEAN
  BY DEF TermsInv, Options!Disabled
<1>2. {singleUse', paramsConfirmed', optionsLocked'} \subseteq BOOLEAN
  BY DEF Options!TypeOK, Options!Next, Options!ChooseExpiry, Options!EnterDate, Options!EnterMax,
     Options!SetSingleUse, Options!Confirm, Options!EditStep, Options!SetParamsConfirmed,
     Options!SetOptionsLocked, Options!NewLink, Options!ResetOptions
<1> QED
  BY <1>1, <1>2 DEF Options!TypeOK, Terms

(* What a page knows of its link does not change.                          *)
LinkTyped ==
    link \in [version : Landing!Versions, password : BOOLEAN, limited : BOOLEAN,
              viewable : BOOLEAN, honest : BOOLEAN, opens : BOOLEAN, manifest : BOOLEAN]

LEMMA LandingTyped ==
  ASSUME LandingInv', LinkTyped, Landing!TypeOK, Landing!Next
  PROVE  LinkTyped' /\ Landing!TypeOK'
<1> USE DEF Landing!TypeOK
<1>1. LinkTyped'
  BY DEF Landing!Next, Landing!Click, Landing!Decrypted, Landing!Fails, Landing!RenderPreview,
     Landing!Save, Landing!Unlock, Landing!Unlocked, Landing!OpenSealedName, LinkTyped
<1>2. inFlight' \in {"none", "fetching", "ready", "failed"} /\ spent' \in Nat
  BY DEF LandingInv
<1>3. unlock' \in [Landing!Attempts -> {"idle", "asking", "refused", "naming", "in"}]
  BY DEF Landing!Next, Landing!Click, Landing!Decrypted, Landing!Fails, Landing!RenderPreview,
     Landing!Save, Landing!Unlock, Landing!Unlocked, Landing!OpenSealedName
<1>4. {fileKey', previewKind', download'} \subseteq BOOLEAN
  BY DEF Landing!Next, Landing!Click, Landing!Decrypted, Landing!Fails, Landing!RenderPreview,
     Landing!Save, Landing!Unlock, Landing!Unlocked, Landing!OpenSealedName, LinkTyped
<1>5. preview' \in {"no", "waiting", "shown", "failed"}
  BY DEF Landing!Next, Landing!Click, Landing!Decrypted, Landing!Fails, Landing!RenderPreview,
     Landing!Save, Landing!Unlock, Landing!Unlocked, Landing!OpenSealedName
<1>6. clicks' \in 0 .. MaxClicks
  <2>1. CASE Landing!Click
    BY <2>1, BrowserAssumption DEF Landing!Click, Landing!LandingAssumption
  <2>2. CASE ~Landing!Click
    BY <2>2 DEF Landing!Next, Landing!Decrypted, Landing!Fails, Landing!RenderPreview,
       Landing!Save, Landing!Unlock, Landing!Unlocked, Landing!OpenSealedName
  <2> QED
    BY <2>1, <2>2
<1>7. name' \in Landing!Names /\ pageWarning' \in {"none", "legacy", "renamed", "unsealable"}
  BY DEF Landing!Next, Landing!Click, Landing!Decrypted, Landing!Fails, Landing!RenderPreview,
     Landing!Save, Landing!Unlock, Landing!Unlocked, Landing!OpenSealedName, Landing!AdoptManifest,
     Landing!Names
<1>8. saved' \subseteq Landing!Names
  BY DEF Landing!Next, Landing!Click, Landing!Decrypted, Landing!Fails, Landing!RenderPreview,
     Landing!Save, Landing!Unlock, Landing!Unlocked, Landing!OpenSealedName
<1> QED
  BY <1>1, <1>2, <1>3, <1>4, <1>5, <1>6, <1>7, <1>8

LEMMA BarsTyped ==
  ASSUME BarsInv', Bars!TypeOK, Bars!Next
  PROVE  Bars!TypeOK'
<1>1. MaxLanded \in Nat
  BY BrowserAssumption DEF Bars!BarsAssumption
<1>2. {barsTimer', barsInFlight', barsAgain', failed'} \subseteq BOOLEAN
  BY DEF Bars!TypeOK, Bars!Next, Bars!RefreshStorageBars, Bars!TimerFires, Bars!FetchStorageBars,
     Bars!UsageAnswers, Bars!SwapBars, Bars!FetchFails, Bars!FetchAgain
<1> QED
  BY <1>1, <1>2 DEF BarsInv, Bars!TypeOK, Bars!Unanswered

LEMMA ZoomTyped ==
  ASSUME ZoomInv', Zoom!TypeOK, Zoom!Next
  PROVE  Zoom!TypeOK'
<1>1. dragged' \in BOOLEAN
  BY DEF Zoom!TypeOK, Zoom!Next, Zoom!Wheel, Zoom!Keys, Zoom!Click, Zoom!Close, Zoom!OpenZoom,
     Zoom!Load, Zoom!Resize, Zoom!PointerDown, Zoom!PointerMove, Zoom!EndPointer
<1>2. pinch' \in [dist : Nat, mid : Int]
  <2>1. pointers'[1] \in Int /\ pointers'[2] \in Int
    BY ZoomConstants DEF ZoomInv, ScreenInv
  <2>2. Zoom!PinchFrame(pointers') \in [dist : Nat, mid : Int]
    BY <2>1 DEF Zoom!PinchFrame, Zoom!Abs
  <2> QED
    BY <2>2 DEF ZoomInv, ScreenInv, Zoom!Frame, Zoom!NoPinch
<1> QED
  BY <1>1, <1>2, ZoomConstants DEF ZoomInv, PanInv, ScreenInv, Zoom!TypeOK

FoldsTyped ==
    /\ hiddenGroups \subseteq History!Groups /\ collapsed \subseteq History!Groups
    /\ foldMemory \in (SUBSET History!Groups) \cup {History!NoMemory}

LEMMA HistoryTyped ==
  ASSUME SelectionInv', NamesInv', History!TypeOK, History!Next
  PROVE  History!TypeOK'
<1>1. counted' \in 0 .. Count
  <2>1. IsFiniteSet(History!Rows) /\ Cardinality(History!Rows) = Count
    <3>1. \A n \in Nat : IsFiniteSet(1 .. n) /\ Cardinality(1 .. n) = n
      BY FS_Interval
    <3> QED
      BY <3>1, HistoryConstants
  <2>2. checked' \subseteq History!Rows /\ counted' = History!Cardinality(checked')
    BY DEF SelectionInv, History!Visible
  <2>3. History!Cardinality(checked') = Cardinality(checked')
    BY Zenon DEF History!Cardinality, Cardinality, History!IsFiniteSet, IsFiniteSet
  <2>4. Cardinality(checked') \in Nat /\ Cardinality(checked') <= Count
    BY <2>1, <2>2, FS_Subset, FS_CardinalityType
  <2> QED
    BY <2>2, <2>3, <2>4, HistoryConstants
<1>2. groupBoxes' \subseteq History!Groups
  BY DEF History!TypeOK, History!Next, History!FoldAll, History!SelectAll, History!BulkDelete,
     History!Delete, History!Search, History!OnListFiltered, History!SetFolded, History!SelectGroup,
     History!DeleteRow, History!RememberName, History!Select, History!Sync, History!marks
<1>3. FoldsTyped'
  <2>0. FoldsTyped
    BY DEF History!TypeOK, FoldsTyped
  <2>1. ASSUME NEW q, History!Search(q) PROVE FoldsTyped'
    <3>1. hiddenGroups' \subseteq History!Groups
      BY <2>1 DEF History!Search
    <3>2. collapsed' \subseteq History!Groups
      BY <2>0, <2>1, Zenon DEF History!Search, FoldsTyped
    <3>3. foldMemory' \in (SUBSET History!Groups) \cup {History!NoMemory}
      BY <2>0, <2>1, Zenon DEF History!Search, FoldsTyped
    <3> QED
      BY <3>1, <3>2, <3>3 DEF FoldsTyped
  <2>2. ASSUME NEW gone, History!Delete(gone) PROVE FoldsTyped'
    <3>1. hiddenGroups' \subseteq History!Groups
      BY <2>2 DEF History!Delete
    <3>2. collapsed' = {} /\ foldMemory' = History!NoMemory
      BY <2>2 DEF History!Delete
    <3> QED
      BY <3>1, <3>2 DEF FoldsTyped
  <2>3. CASE History!FoldAll \/ \E g \in History!Groups : History!SetFolded(g)
    BY <2>0, <2>3 DEF History!FoldAll, History!SetFolded, History!list, FoldsTyped
  <2>4. ASSUME UNCHANGED <<hiddenGroups, collapsed, foldMemory>> PROVE FoldsTyped'
    BY <2>0, <2>4 DEF FoldsTyped
  <2> QED
    BY <2>1, <2>2, <2>3, <2>4 DEF History!Next, History!SelectAll, History!BulkDelete,
       History!SelectGroup, History!DeleteRow, History!RememberName, History!Select,
       History!list, History!folds
<1>4. query' \in Queries /\ anchor' \in History!Rows \cup {History!NoAnchor}
  BY BrowserAssumption DEF History!HistoryAssumption,
     History!TypeOK, History!Next, History!FoldAll, History!SelectAll, History!BulkDelete,
     History!Delete, History!Search, History!SetFolded, History!SelectGroup,
     History!DeleteRow, History!RememberName, History!Select, History!list, History!marks
<1>5. bulkAll' \in BOOLEAN
  BY DEF SelectionInv
<1> QED
  BY <1>1, <1>2, <1>3, <1>4, <1>5 DEF SelectionInv, NamesInv, FoldsTyped, History!Visible, History!TypeOK

PageTyped ==
    /\ part = "options" => Options!TypeOK
    /\ part = "landing" => LinkTyped /\ Landing!TypeOK
    /\ part = "bars" => Bars!TypeOK
    /\ part = "zoom" => Zoom!TypeOK
    /\ part = "history" => History!TypeOK

LEMMA PageTypedInit == BrowserInit => PageTyped
<1> SUFFICES ASSUME BrowserInit PROVE PageTyped
  OBVIOUS
<1>0. Options!Init /\ Landing!Init /\ Bars!Init /\ Zoom!Init /\ History!Init
  BY DEF BrowserInit
<1>1. Options!TypeOK
  BY <1>0, StartingTerms DEF Options!Init, Options!TypeOK, Terms
<1>2. LinkTyped /\ Landing!TypeOK
  <2>1. LinkTyped
    BY <1>0 DEF Landing!Init, LinkTyped
  <2>2. previewKind \in BOOLEAN
    BY <1>0, <2>1 DEF Landing!Init, LinkTyped
  <2>3. 0 \in 0 .. MaxClicks
    BY BrowserAssumption DEF Landing!LandingAssumption
  <2> QED
    BY <1>0, <2>1, <2>2, <2>3 DEF Landing!Init, Landing!TypeOK, Landing!Names
<1>3. Bars!TypeOK
  <2>1. MaxLanded \in Nat
    BY BrowserAssumption DEF Bars!BarsAssumption
  <2>2. {barsTimer, barsInFlight, barsAgain, failed} \subseteq BOOLEAN
    BY <1>0 DEF Bars!Init
  <2>3. landed = 0 /\ barsShown = 0 /\ usage = MaxLanded + 1 /\ ~barsAgain
    BY <1>0 DEF Bars!Init, Bars!Unanswered
  <2> QED
    BY <2>1, <2>2, <2>3 DEF Bars!TypeOK, Bars!Unanswered
<1>4. Zoom!TypeOK
  <2>1. pointers \in [Zoom!Fingers -> Int] /\ pinch \in [dist : Nat, mid : Int]
    BY <1>0, ZoomConstants DEF Zoom!Init, Zoom!NoPinch
  <2>2. {zoomed, loaded, dragged} \subseteq BOOLEAN /\ width \in Views /\ scale = 1 /\ tx = 0
    BY <1>0, ZoomConstants DEF Zoom!Init
  <2> QED
    BY <2>1, <2>2, ZoomConstants DEF Zoom!TypeOK
<1>5. History!TypeOK
  <2>1. "" \in Queries /\ 0 \in 0 .. Count /\ names \in Seq(History!Rows)
    <3>1. "" \in Queries
      BY BrowserAssumption DEF History!HistoryAssumption
    <3>2. names = <<>>
      BY <1>0 DEF History!Init
    <3>3. names \in Seq(History!Rows)
      BY <3>2
    <3>4. 0 \in 0 .. Count
      BY HistoryConstants
    <3> QED
      BY <3>1, <3>3, <3>4
  <2> QED
    BY <1>0, <2>1 DEF History!Init, History!TypeOK
<1> QED
  BY <1>1, <1>2, <1>3, <1>4, <1>5 DEF PageTyped

LEMMA PageTypedStep ==
  VisitInv' /\ PageInv' /\ PageTyped /\ [BrowserNext]_client => PageTyped'
<1> SUFFICES ASSUME VisitInv', PageInv', PageTyped, [BrowserNext]_client PROVE PageTyped'
  OBVIOUS
<1>0. part' = part
  BY DEF BrowserNext, Others, client
<1>1. CASE part = "options"
  <2>1. Options!Next \/ UNCHANGED optionsVars
    BY <1>1 DEF BrowserNext, client
  <2>2. ASSUME UNCHANGED optionsVars PROVE Options!TypeOK'
    BY <1>1, <2>2 DEF optionsVars, PageTyped, Options!TypeOK
  <2> QED
    BY <1>0, <1>1, <2>1, <2>2, OptionsTyped DEF PageInv, PageTyped
<1>2. CASE part = "landing"
  <2>1. Landing!Next \/ UNCHANGED landingVars
    BY <1>2 DEF BrowserNext, client
  <2>2. ASSUME UNCHANGED landingVars PROVE LinkTyped' /\ Landing!TypeOK'
    BY <1>2, <2>2 DEF landingVars, PageTyped, LinkTyped, Landing!TypeOK
  <2> QED
    BY <1>0, <1>2, <2>1, <2>2, LandingTyped DEF VisitInv, PageTyped
<1>3. CASE part = "bars"
  <2>1. Bars!Next \/ UNCHANGED barsVars
    BY <1>3 DEF BrowserNext, client
  <2>2. ASSUME UNCHANGED barsVars PROVE Bars!TypeOK'
    BY <1>3, <2>2 DEF barsVars, PageTyped, Bars!TypeOK, Bars!Unanswered
  <2> QED
    BY <1>0, <1>3, <2>1, <2>2, BarsTyped DEF PageInv, PageTyped
<1>4. CASE part = "zoom"
  <2>1. Zoom!Next \/ UNCHANGED zoomVars
    BY <1>4 DEF BrowserNext, client
  <2>2. ASSUME UNCHANGED zoomVars PROVE Zoom!TypeOK'
    BY <1>4, <2>2 DEF zoomVars, PageTyped, Zoom!TypeOK
  <2> QED
    BY <1>0, <1>4, <2>1, <2>2, ZoomTyped DEF PageInv, PageTyped
<1>5. CASE part = "history"
  <2>1. History!Next \/ UNCHANGED historyVars
    BY <1>5 DEF BrowserNext, client
  <2>2. ASSUME UNCHANGED historyVars PROVE History!TypeOK'
    BY <1>5, <2>2 DEF historyVars, PageTyped, History!TypeOK
  <2> QED
    BY <1>0, <1>5, <2>1, <2>2, HistoryTyped DEF PageInv, PageTyped
<1> QED
  BY <1>0, <1>1, <1>2, <1>3, <1>4, <1>5 DEF PageTyped
=============================================================================
