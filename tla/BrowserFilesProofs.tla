------------------------- MODULE BrowserFilesProofs -------------------------
(***************************************************************************)
(* Files in the browser, for any files, links and answers: a list shows    *)
(* unmarked only what its sender vouches for, its files are fetched once   *)
(* however many want them, a strange file is walked through once, and an   *)
(* archive of them can be unpacked; and the types of what that takes.      *)
(***************************************************************************)
EXTENDS BrowserProofs

-----------------------------------------------------------------------------
(* The list of files on a link and in an inbox.  A list is loaded again    *)
(* while an earlier load is under way, and a load then checks the rows of  *)
(* another: what holds of all of them is that rows are only taken away or  *)
(* put in the order of a roster that vouches for each, and marks are only  *)
(* added.                                                                  *)

(* Loads that have their answer, and what they have of it.                 *)
Had(l) == pc[l] \in {"naming", "verifying", "opening", "done"}
Places == {"idle", "deriving", "refused", "fetching", "failed",
           "naming", "verifying", "opening", "done"}
IdsDiffer(g) == \A i, j \in DOMAIN g : g[i].file.id = g[j].file.id => i = j

ListShape ==
    /\ source \in {"batch", "inbox"}
    /\ source = "inbox" => ~password
    /\ pc \in [Listing!Loads -> Places]
    /\ ~password => \A l \in Listing!Loads \ {1} : pc[l] = "idle"
    /\ answer \in [Listing!Loads -> Answers \cup {<<>>}]
    /\ array = [l \in Listing!Loads |-> array[l]]
    /\ members \in Listing!Loads \cup {0} /\ at \in Nat \ {0}
    /\ members # 0 => Had(members)
    /\ listed => members # 0

AnswersHad ==
    \A l \in Listing!Loads : Had(l) =>
       /\ answer[l] \in Answers /\ members # 0
       /\ IF source = "batch" THEN Len(answer[l]) = 1 /\ pc[l] # "opening"
                              ELSE pc[l] \in {"opening", "done"}

(* What a row is worth.                                                    *)
Good(l, d, i) ==
    /\ answer[l][d].files[i].name # "damaged"
    /\ answer[l][d].old \/ /\ Listing!RosterOpens(answer[l][d], Listing!Rows(l, d))
                           /\ Listing!Vouched(answer[l][d], Listing!Rows(l, d), i,
                                              Listing!Range(Listing!Rows(l, d)))

(* A batch: rows that were put in order have ids that differ.              *)
PartOfBatch(g, l) ==
    /\ g \in Seq(Listing!Range(g))
    /\ \/ g = Listing!Rows(l, 1)
       \/ /\ Listing!Range(g) \subseteq Listing!Range(Listing!Rows(l, 1))
          /\ IdsDiffer(Listing!Rows(l, 1))
Marked(g) == \A o \in Listing!Range(g) : o.file.name = "damaged" => o \in unverified

BatchRows ==
    source = "batch" => \A l \in Listing!Loads :
       /\ Had(l) => PartOfBatch(array[l], l)
       /\ pc[l] \in {"verifying", "done"} => Marked(array[l])
BatchVouched ==
    source = "batch" /\ members # 0 /\ pc[members] = "done" =>
       Listing!Range(array[members]) \ unverified \subseteq Listing!Genuine(members)
InOrder(g) == \E l \in Listing!Loads :
    pc[l] = "done" /\ Listing!FileIds(g) = answer[l][1].roster
Unwarned == warning \subseteq {"reordered"}
BatchComplete ==
    source = "batch" /\ members # 0 /\ pc[members] \notin {"naming", "verifying"} =>
       (Unwarned => InOrder(array[members]))

(* An inbox, loaded once.                                                  *)
OfInbox(o) == o.at[2] \in DOMAIN answer[1] /\ o \in Listing!Range(Listing!Rows(1, o.at[2]))
InboxRows ==
    source = "inbox" =>
       /\ array[1] \in Seq(Listing!Range(array[1]))
       /\ \A o \in Listing!Range(array[1]) :
             OfInbox(o) /\ (o \notin unverified => o \in Listing!Genuine(1))
       /\ pc[1] = "done" => headers = Listing!DeliveryHeaders(1)

(* A list that was loaded once, however often it was asked for.            *)
Once == \A l \in Listing!Loads \ {1} : ~Had(l)
OnceInv ==
    Once =>
       /\ pc[1] \notin {"verifying", "opening", "done"} => unverified = {}
       /\ pc[1] # "done" => ~listed /\ archive = {}
       /\ archive \subseteq Listing!Genuine(1)
       /\ unverified \cap Listing!Genuine(1) = {}
       /\ pc[1] \in {"naming", "verifying"} => array[1] = Listing!Rows(1, 1)
       /\ pc[1] = "verifying" => Listing!Range(array[1]) \subseteq named

ListInv ==
    /\ ListShape /\ AnswersHad /\ BatchRows /\ BatchVouched /\ BatchComplete
    /\ InboxRows /\ OnceInv

LEMMA ListConstants ==
  /\ MaxLoads \in Nat \ {0} /\ 1 \in Listing!Loads
  /\ \A a \in Answers : a \in Seq(Listing!Range(a))
BY BrowserAssumption DEF Listing!ListingAssumption, Listing!Loads

LEMMA DeliveryIs ==
  ASSUME NEW a, NEW d, a \in Answers, d \in Listing!Range(a)
  PROVE  /\ d.files \in Seq(Listing!Range(d.files))
         /\ d.roster # NoRoster => d.roster \in Seq(Listing!Range(d.roster))
BY BrowserAssumption DEF Listing!ListingAssumption

(* The list is true of what it shows.                                      *)
LEMMA ListHolds == ListInv /\ part = "listing" => ListTrue
<1> SUFFICES ASSUME ListInv, Listing!Settled, listed
             PROVE  Listing!ListVouched /\ Listing!ListComplete
  BY DEF ListTrue, Listing!ListVouched, Listing!ListComplete
<1>1. members \in Listing!Loads /\ members # 0 /\ Had(members) /\ pc[members] = "done"
  BY DEF ListInv, ListShape, Listing!Settled, Had
<1>2. source = "inbox" => members = 1
  BY <1>1 DEF ListInv, ListShape
<1>3. Listing!Range(array[members]) \ unverified \subseteq Listing!Genuine(members)
  BY <1>1, <1>2 DEF ListInv, ListShape, BatchVouched, InboxRows
<1>4. ASSUME Listing!OneLoad
      PROVE  /\ Listing!Genuine(members) \cap Listing!Range(array[members]) \cap unverified = {}
             /\ archive \subseteq Listing!Genuine(members)
  <2>1. Once
    BY <1>4 DEF Once, Had, Listing!OneLoad
  <2>2. members = 1
    BY <1>1, <2>1 DEF Once
  <2> QED
    BY <2>1, <2>2 DEF ListInv, OnceInv
<1>5. Listing!ListVouched
  BY <1>3, <1>4 DEF Listing!ListVouched
<1>6. CASE source = "batch"
  <2>1. Unwarned => InOrder(array[members])
    BY <1>1, <1>6 DEF ListInv, BatchComplete
  <2> QED
    BY <1>5, <1>6, <2>1 DEF Listing!ListComplete, InOrder, Unwarned
<1>7. CASE source = "inbox"
  <2>1. headers = Listing!DeliveryHeaders(1)
    BY <1>1, <1>2, <1>7 DEF ListInv, InboxRows
  <2>2. \A o \in Listing!Range(array[1]) :
           answer[1][o.at[2]].note = "fine" => o.at[2] \in headers
    BY <2>1 DEF Listing!DeliveryHeaders
  <2> QED
    BY <1>2, <1>5, <1>7, <2>2 DEF Listing!ListComplete
<1> QED
  BY <1>6, <1>7 DEF ListInv, ListShape

-----------------------------------------------------------------------------
(* Rows, and what may be said of them.                                     *)
LEMMA RowIs ==
  ASSUME NEW l, NEW d, NEW i, i \in DOMAIN answer[l][d].files
  PROVE  /\ Listing!Rows(l, d)[i].file = answer[l][d].files[i]
         /\ Listing!Rows(l, d)[i].at[2] = d /\ Listing!Rows(l, d)[i].at[3] = i
BY DEF Listing!Rows

LEMMA RowsDomain == \A l, d : DOMAIN Listing!Rows(l, d) = DOMAIN answer[l][d].files
BY DEF Listing!Rows

LEMMA RowsDiffer ==
  ASSUME NEW l, NEW d, NEW e, NEW i, NEW j,
         i \in DOMAIN Listing!Rows(l, d), j \in DOMAIN Listing!Rows(l, e),
         Listing!Rows(l, d)[i] = Listing!Rows(l, e)[j]
  PROVE  d = e /\ i = j
BY RowIs, RowsDomain

IsGood(l, o) ==
    \E d \in DOMAIN answer[l] : \E i \in DOMAIN Listing!Rows(l, d) :
       o = Listing!Rows(l, d)[i] /\ Good(l, d, i)

LEMMA GenuineIs ==
  ASSUME NEW l, NEW o
  PROVE  o \in Listing!Genuine(l) <=> IsGood(l, o)
<1> DEFINE Kept(d) == {j \in DOMAIN Listing!Rows(l, d) : Good(l, d, j)}
<1>1. Listing!Genuine(l) =
        UNION {{Listing!Rows(l, d)[i] : i \in Kept(d)} : d \in DOMAIN answer[l]}
  BY DEF Listing!Genuine, Good
<1> HIDE DEF Kept
<1>2. o \in Listing!Genuine(l) <=>
        \E d \in DOMAIN answer[l] : \E i \in Kept(d) : o = Listing!Rows(l, d)[i]
  BY <1>1
<1> QED
  BY <1>2 DEF Kept, IsGood

(* Only what the answer says decides.                                      *)
LEMMA GenuineKept ==
  ASSUME NEW l, answer'[l] = answer[l], source' = source
  PROVE  /\ Listing!Genuine(l)' = Listing!Genuine(l)
         /\ \A d : Listing!Rows(l, d)' = Listing!Rows(l, d)
<1>1. \A d : Listing!Rows(l, d)' = Listing!Rows(l, d)
  BY DEF Listing!Rows
<1> QED
  BY <1>1 DEF Listing!Genuine, Listing!RosterOpens, Listing!Vouched, Listing!Entered

LEMMA AnswerIs ==
  ASSUME NEW a, NEW d, a \in Answers, d \in DOMAIN a
  PROVE  /\ a[d].files \in Seq(Listing!Range(a[d].files)) /\ DOMAIN a = 1 .. Len(a)
         /\ a[d].roster # NoRoster => a[d].roster \in Seq(Listing!Range(a[d].roster))
<1>1. a[d] \in Listing!Range(a)
  BY DEF Listing!Range
<1>2. DOMAIN a = 1 .. Len(a)
  BY ListConstants
<1> QED
  BY <1>1, <1>2, DeliveryIs

(* Rows are put in another order only when all are vouched for and it is   *)
(* the order alone that is wrong.                                          *)
LEMMA PutInOrder ==
  ASSUME NEW d, NEW g, NEW m,
         d.roster # NoRoster => d.roster \in Seq(Listing!Range(d.roster)),
         Listing!Notes(d, g, m) = {"reordered"}
  PROVE  /\ ~d.old /\ Listing!RosterOpens(d, g) /\ Listing!Range(g) \cap m = {}
         /\ Listing!Range(Listing!Ordered(d, g, m)) \subseteq Listing!Range(g)
         /\ Listing!FileIds(Listing!Ordered(d, g, m)) = d.roster
         /\ Listing!Ordered(d, g, m) \in Seq(Listing!Range(Listing!Ordered(d, g, m)))
<1> DEFINE h == Listing!Ordered(d, g, m)
           pick(i) == CHOOSE o \in Listing!Range(g) : o.file.id = d.roster[i]
<1>1. Listing!Notes(d, g, m) = {"reordered"} /\ h = [i \in DOMAIN d.roster |-> pick(i)]
  BY DEF Listing!Ordered
<1>2. ~d.old /\ Listing!RosterOpens(d, g) /\ Listing!Findings(d, g, m) = {}
  BY <1>1 DEF Listing!Notes, Listing!Findings
<1>3. /\ Listing!Range(g) \cap m = {}
      /\ Listing!Range(d.roster) \subseteq Listing!Range(Listing!FileIds(g))
  BY <1>2 DEF Listing!Findings
<1>4. d.roster \in Seq(Listing!Range(d.roster))
  BY <1>2 DEF Listing!RosterOpens
<1>5. ASSUME NEW i \in DOMAIN d.roster
      PROVE  pick(i) \in Listing!Range(g) /\ pick(i).file.id = d.roster[i]
  <2>1. d.roster[i] \in Listing!Range(Listing!FileIds(g))
    BY <1>3 DEF Listing!Range
  <2>2. \E o \in Listing!Range(g) : o.file.id = d.roster[i]
    BY <2>1 DEF Listing!Range, Listing!FileIds
  <2> QED
    BY <2>2
<1> HIDE DEF pick
<1>6. Listing!Range(h) \subseteq Listing!Range(g)
  <2>1. \A o \in Listing!Range(h) : \E i \in DOMAIN d.roster : o = pick(i)
    BY <1>1 DEF Listing!Range
  <2> QED
    BY <1>5, <2>1
<1>7. Listing!FileIds(h) = [i \in DOMAIN d.roster |-> d.roster[i]]
  BY <1>1, <1>5 DEF Listing!FileIds
<1>8. DOMAIN d.roster = 1 .. Len(d.roster) /\ Len(d.roster) \in Nat
      /\ d.roster = [i \in DOMAIN d.roster |-> d.roster[i]]
  BY <1>4
<1>9. h \in Seq(Listing!Range(h))
  <2>1. h = [i \in 1 .. Len(d.roster) |-> pick(i)]
    BY <1>1, <1>8
  <2>2. \A i \in 1 .. Len(d.roster) : pick(i) \in Listing!Range(h)
    BY <2>1 DEF Listing!Range
  <2> HIDE DEF h
  <2> QED
    BY <1>8, <2>1, <2>2
<1> QED
  BY <1>2, <1>3, <1>6, <1>7, <1>8, <1>9

(* No note but that of the order: the ids are those of the roster.         *)
LEMMA NoOtherNote ==
  ASSUME NEW d, NEW g, NEW m,
         d.roster # NoRoster => d.roster \in Seq(Listing!Range(d.roster)),
         Listing!Notes(d, g, m) \subseteq {"reordered"}
  PROVE  Listing!FileIds(Listing!Ordered(d, g, m)) = d.roster
<1>1. ~d.old /\ Listing!RosterOpens(d, g)
  BY DEF Listing!Notes
<1>2. Listing!Findings(d, g, m) = {}
  BY <1>1 DEF Listing!Notes, Listing!Findings
<1>3. CASE Listing!Notes(d, g, m) = {"reordered"}
  BY <1>3, PutInOrder
<1>4. CASE Listing!Notes(d, g, m) # {"reordered"}
  <2>1. Listing!FileIds(g) = d.roster
    BY <1>1, <1>2, <1>4 DEF Listing!Notes
  <2> QED
    BY <1>4, <2>1 DEF Listing!Ordered
<1> QED
  BY <1>3, <1>4

(* The rows of a delivery are put in order, or stay as they are.           *)
LEMMA OrderedRows ==
  ASSUME NEW d, NEW g, NEW m,
         d.roster # NoRoster => d.roster \in Seq(Listing!Range(d.roster)),
         g \in Seq(Listing!Range(g))
  PROVE  LET h == Listing!Ordered(d, g, m) IN
         /\ Listing!Range(h) \subseteq Listing!Range(g) /\ h \in Seq(Listing!Range(h))
         /\ h # g => /\ ~d.old /\ Listing!RosterOpens(d, g)
                     /\ Listing!Range(g) \cap m = {}
<1>1. CASE Listing!Notes(d, g, m) = {"reordered"}
  BY <1>1, PutInOrder
<1>2. CASE Listing!Notes(d, g, m) # {"reordered"}
  BY <1>2 DEF Listing!Ordered
<1> QED
  BY <1>1, <1>2

(* What the roster does not vouch for is marked.                           *)
LEMMA Unmarked ==
  ASSUME NEW d, NEW g, NEW known, NEW i, i \in DOMAIN g,
         g[i] \notin Listing!Marks(d, g, known)
  PROVE  d.old \/ (Listing!RosterOpens(d, g) /\ Listing!Vouched(d, g, i, known))
BY DEF Listing!Marks, Listing!Range

LEMMA OnlyMarked ==
  ASSUME NEW d, NEW g, NEW known, NEW o, o \in Listing!Marks(d, g, known)
  PROVE  /\ ~d.old /\ o \in Listing!Range(g)
         /\ \E i \in DOMAIN g :
               o = g[i] /\ ~(Listing!RosterOpens(d, g) /\ Listing!Vouched(d, g, i, known))
BY DEF Listing!Marks, Listing!Range

(* Rows all vouched for have ids that differ.                              *)
LEMMA VouchedDiffer ==
  ASSUME NEW d, NEW g, NEW known, g \in Seq(Listing!Range(g)),
         \A i \in DOMAIN g : Listing!Vouched(d, g, i, known)
  PROVE  IdsDiffer(g)
<1> SUFFICES ASSUME NEW i \in DOMAIN g, NEW j \in DOMAIN g, g[i].file.id = g[j].file.id
             PROVE  i = j
  BY DEF IdsDiffer
<1>1. DOMAIN g = 1 .. Len(g) /\ Len(g) \in Nat
  OBVIOUS
<1>2. ASSUME NEW k \in DOMAIN g, NEW n \in DOMAIN g, k < n
      PROVE  g[k].file.id # g[n].file.id
  <2>1. k \in 1 .. n - 1
    BY <1>1, <1>2
  <2>2. \A x \in 1 .. n - 1 : g[x].file.id # g[n].file.id
    BY DEF Listing!Vouched, Listing!Entered
  <2> QED
    BY <2>1, <2>2
<1>3. i < j \/ j < i \/ i = j
  BY <1>1
<1> QED
  BY <1>2, <1>3

LEMMA RangeOf == \A g, o : o \in Listing!Range(g) <=> \E i \in DOMAIN g : o = g[i]
BY DEF Listing!Range

(* What a roster vouches for in the rows at hand, it vouches for in the    *)
(* rows as they came.                                                      *)
LEMMA BatchBelieved ==
  ASSUME NEW l, NEW g, NEW m, source = "batch", answer[l] \in Answers, Len(answer[l]) = 1,
         PartOfBatch(g, l),
         \A o \in Listing!Range(g) : o.file.name = "damaged" => o \in m,
         Listing!Marks(answer[l][1], g, named) \subseteq m
  PROVE  Listing!Range(g) \ m \subseteq Listing!Genuine(l)
<1> DEFINE d == answer[l][1]
           h == Listing!Rows(l, 1)
<1> SUFFICES ASSUME NEW o, o \in Listing!Range(g), o \notin m PROVE IsGood(l, o)
  BY GenuineIs
<1>1. PICK i \in DOMAIN g : o = g[i]
  BY RangeOf
<1>2. 1 \in DOMAIN answer[l]
  BY AnswerIs
<1>3. PICK j \in DOMAIN h : o = h[j] /\ (g = h => j = i) /\ (g # h => IdsDiffer(h))
  <2>1. CASE g = h
    BY <1>1, <2>1
  <2>2. CASE g # h
    <3>1. o \in Listing!Range(h) /\ IdsDiffer(h)
      BY <2>2 DEF PartOfBatch
    <3> QED
      BY <2>2, <3>1, RangeOf
  <2> QED
    BY <2>1, <2>2
<1>4. h[j].file = d.files[j]
  BY <1>3, RowIs, RowsDomain
<1>5. d.files[j].name # "damaged"
  BY <1>3, <1>4
<1>6. d.old \/ (Listing!RosterOpens(d, g) /\ Listing!Vouched(d, g, i, named))
  BY <1>1, Unmarked
<1>7. ASSUME ~d.old
      PROVE  Listing!RosterOpens(d, h) /\ Listing!Vouched(d, h, j, Listing!Range(h))
  <2>1. Listing!RosterOpens(d, h)
    BY <1>6, <1>7 DEF Listing!RosterOpens
  <2>2. /\ h[j].file.id \in Listing!Range(d.roster) /\ h[j].file.fits /\ h[j].file.here
        /\ \A k \in 1 .. i - 1 : g[k].file.id # g[i].file.id
    BY <1>1, <1>3, <1>6, <1>7 DEF Listing!Vouched, Listing!Entered
  <2>3. h[j] \in Listing!Range(h)
    BY RangeOf
  <2>4. \A k \in 1 .. j - 1 : h[k].file.id # h[j].file.id
    <3>1. CASE g = h
      BY <1>3, <2>2, <3>1
    <3>2. CASE g # h
      <4>1. DOMAIN h = 1 .. Len(d.files) /\ Len(d.files) \in Nat
        BY <1>2, AnswerIs, RowsDomain
      <4>2. \A k \in 1 .. j - 1 : k \in DOMAIN h /\ k # j
        BY <4>1
      <4> QED
        BY <1>3, <3>2, <4>2 DEF IdsDiffer
    <3> QED
      BY <3>1, <3>2
  <2> HIDE DEF d, h
  <2> QED
    BY <2>1, <2>2, <2>3, <2>4 DEF Listing!Vouched, Listing!Entered
<1>8. Good(l, 1, j)
  BY <1>5, <1>7 DEF Good
<1> QED
  BY <1>2, <1>3, <1>8 DEF IsGood

(* And nothing genuine is marked while the rows are as they came.          *)
LEMMA GenuineUnmarked ==
  ASSUME NEW l, NEW d, NEW known, NEW o, d \in DOMAIN answer[l],
         Listing!Range(Listing!Rows(l, d)) \subseteq known,
         \/ o \in Listing!Marks(answer[l][d], Listing!Rows(l, d), known)
         \/ o \in Listing!Range(Listing!Rows(l, d)) /\ o.file.name = "damaged"
  PROVE  ~IsGood(l, o)
<1> DEFINE h == Listing!Rows(l, d)
<1> SUFFICES ASSUME NEW e \in DOMAIN answer[l], NEW j \in DOMAIN Listing!Rows(l, e),
                    o = Listing!Rows(l, e)[j], Good(l, e, j)
             PROVE  FALSE
  BY DEF IsGood
<1>1. o \in Listing!Range(h)
  BY OnlyMarked
<1>2. e = d /\ j \in DOMAIN h /\ o = h[j]
  <2>1. PICK i \in DOMAIN h : o = h[i]
    BY <1>1, RangeOf
  <2> QED
    BY <2>1, RowsDiffer
<1>3. o.file.name # "damaged"
  BY <1>2, RowIs, RowsDomain DEF Good
<1>4. PICK i \in DOMAIN h : /\ ~answer[l][d].old /\ o = h[i]
                            /\ ~(/\ Listing!RosterOpens(answer[l][d], h)
                                 /\ Listing!Vouched(answer[l][d], h, i, known))
  BY <1>3, OnlyMarked
<1>5. i = j
  BY <1>2, <1>4, RowsDiffer
<1>6. h[i] \in known
  BY RangeOf
<1>7. /\ Listing!RosterOpens(answer[l][d], h)
      /\ Listing!Vouched(answer[l][d], h, j, Listing!Range(h))
  BY <1>2, <1>4 DEF Good
<1> HIDE DEF h
<1>8. Listing!Vouched(answer[l][d], h, i, known)
  BY <1>5, <1>6, <1>7 DEF Listing!Vouched
<1> QED
  BY <1>4, <1>7, <1>8

-----------------------------------------------------------------------------
(* Steps.                                                                  *)

(* A load that has no answer yet goes on, or ends: nothing else changes.   *)
Quiet == UNCHANGED <<source, password, answer, at, notes, array, members, named,
                     unverified, warning, headers, listed, archive>>
Before == {"idle", "deriving", "refused", "fetching", "failed"}

LEMMA RowsStay ==
  ASSUME NEW l, NEW h, source' = source, answer'[l] = answer[l], array'[l] = h,
         unverified \subseteq unverified'
  PROVE  /\ PartOfBatch(h, l) => PartOfBatch(array[l], l)'
         /\ Marked(h) => Marked(array[l])'
<1>1. Listing!Rows(l, 1)' = Listing!Rows(l, 1)
  BY GenuineKept
<1>2. PartOfBatch(h, l) => PartOfBatch(array[l], l)'
  BY <1>1 DEF PartOfBatch, IdsDiffer, Listing!Range
<1>3. Marked(h) => Marked(array[l])'
  BY DEF Marked, Listing!Range
<1> QED
  BY <1>2, <1>3

LEMMA QuietStep ==
  ASSUME ListInv, Quiet, NEW l, l \in Listing!Loads, NEW p, pc[l] \in Before, p \in Before,
         pc' = [pc EXCEPT ![l] = p], ~password => l = 1
  PROVE  ListInv'
<1>1. /\ \A k \in Listing!Loads : Had(k)' <=> Had(k)
      /\ \A k \in Listing!Loads : Had(k) => pc'[k] = pc[k]
      /\ \A k \in Listing!Loads : k # l => pc'[k] = pc[k]
      /\ pc'[l] = p /\ ~Had(l) /\ pc' \in [Listing!Loads -> Places]
  BY DEF ListInv, ListShape, Had, Before, Places
<1>2. /\ UNCHANGED <<source, password, answer, at, array, members, named>>
      /\ UNCHANGED <<unverified, warning, headers, listed, archive>>
  BY DEF Quiet
<1>3. \A k : /\ Listing!Genuine(k)' = Listing!Genuine(k)
             /\ \A d : Listing!Rows(k, d)' = Listing!Rows(k, d)
  BY <1>2, GenuineKept
<1>4. ListShape'
  BY <1>1, <1>2 DEF ListInv, ListShape, Listing!Loads
<1>5. AnswersHad'
  BY <1>1, <1>2 DEF ListInv, AnswersHad, Listing!Loads
<1>6. BatchRows'
  <2>1. \A k \in Listing!Loads : pc'[k] \in {"verifying", "done"} => pc[k] \in {"verifying", "done"}
    BY <1>1 DEF Before
  <2>2. \A k \in Listing!Loads : /\ PartOfBatch(array[k], k) => PartOfBatch(array[k], k)'
                                 /\ Marked(array[k]) => Marked(array[k])'
    BY <1>2, RowsStay
  <2> QED
    BY <1>1, <1>2, <2>1, <2>2 DEF ListInv, BatchRows, Listing!Loads
<1>7. BatchVouched'
  BY <1>1, <1>2, <1>3 DEF ListInv, ListShape, BatchVouched, Listing!Range
<1>8. BatchComplete'
  <2>1. \A g : InOrder(g) => InOrder(g)'
    BY <1>1, <1>2 DEF InOrder, Listing!FileIds, Had, Listing!Loads
  <2> QED
    BY <1>1, <1>2, <2>1 DEF ListInv, ListShape, BatchComplete, Unwarned
<1>9. InboxRows'
  <2>1. pc'[1] = "done" => pc[1] = "done"
    BY <1>1, ListConstants DEF Before
  <2>2. \A o : OfInbox(o) => OfInbox(o)'
    BY <1>2, <1>3 DEF OfInbox, Listing!Range
  <2>3. Listing!DeliveryHeaders(1)' = Listing!DeliveryHeaders(1)
    BY <1>2 DEF Listing!DeliveryHeaders, Listing!Range
  <2> QED
    BY <1>2, <1>3, <2>1, <2>2, <2>3 DEF ListInv, InboxRows, Listing!Range
<1>10. OnceInv'
  <2>1. Once' => Once
    BY <1>1 DEF Once, Listing!Loads
  <2>2. pc'[1] = pc[1] \/ (pc'[1] \in Before /\ pc[1] \in Before)
    BY <1>1, ListConstants
  <2> QED
    BY <1>2, <1>3, <2>1, <2>2 DEF ListInv, OnceInv, Listing!Range, Before
<1> QED
  BY <1>4, <1>5, <1>6, <1>7, <1>8, <1>9, <1>10 DEF ListInv

LEMMA IsList ==
  ASSUME NEW h, NEW n, n \in Nat, h = [i \in 1 .. n |-> h[i]]
  PROVE  h \in Seq(Listing!Range(h))
<1>1. DOMAIN h = 1 .. n
  OBVIOUS
<1>2. \A i \in 1 .. n : h[i] \in Listing!Range(h)
  BY <1>1, RangeOf
<1> QED
  BY <1>2

LEMMA RowsSequence ==
  ASSUME NEW l, NEW d, answer[l] \in Answers, d \in DOMAIN answer[l]
  PROVE  Listing!Rows(l, d) \in Seq(Listing!Range(Listing!Rows(l, d)))
<1> DEFINE h == Listing!Rows(l, d)
           n == Len(answer[l][d].files)
<1>1. n \in Nat /\ DOMAIN answer[l][d].files = 1 .. n
  BY AnswerIs
<1>2. h = [i \in 1 .. n |-> h[i]]
  BY <1>1 DEF Listing!Rows
<1> HIDE DEF h, n
<1> QED
  BY <1>1, <1>2, IsList DEF h

LEMMA ListStays ==
  ASSUME ListInv, Quiet, pc' = pc
  PROVE  ListInv'
<1>1. /\ UNCHANGED <<source, password, pc, answer, at, array, members, named>>
      /\ UNCHANGED <<unverified, warning, headers, listed, archive>>
  BY DEF Quiet
<1>2. \A k : /\ Listing!Genuine(k)' = Listing!Genuine(k)
             /\ \A d : Listing!Rows(k, d)' = Listing!Rows(k, d)
  BY <1>1, GenuineKept
<1>3. ListShape' /\ AnswersHad'
  BY <1>1 DEF ListInv, ListShape, AnswersHad, Had, Listing!Loads
<1>4. BatchRows'
  BY <1>1, RowsStay DEF ListInv, BatchRows, Had, Listing!Loads
<1>5. BatchVouched' /\ BatchComplete'
  <2>1. \A g : InOrder(g) => InOrder(g)'
    BY <1>1 DEF InOrder, Listing!FileIds, Listing!Loads
  <2> QED
    BY <1>1, <1>2, <2>1 DEF ListInv, BatchVouched, BatchComplete, Unwarned, Listing!Range
<1>6. InboxRows'
  <2>1. \A o : OfInbox(o) => OfInbox(o)'
    BY <1>1, <1>2 DEF OfInbox, Listing!Range
  <2>2. Listing!DeliveryHeaders(1)' = Listing!DeliveryHeaders(1)
    BY <1>1 DEF Listing!DeliveryHeaders, Listing!Range
  <2> QED
    BY <1>1, <1>2, <2>1, <2>2 DEF ListInv, InboxRows, Listing!Range
<1>7. OnceInv'
  <2>1. Once' => Once
    BY <1>1 DEF Once, Had, Listing!Loads
  <2> QED
    BY <1>1, <1>2, <2>1 DEF ListInv, OnceInv, Listing!Range
<1> QED
  BY <1>3, <1>4, <1>5, <1>6, <1>7 DEF ListInv

(* The step of a load that has its answer, or of the page.                 *)
LEMMA FetchedStep ==
  ASSUME ListInv, NEW l, l \in Listing!Loads, Listing!Fetched(l)
  PROVE  ListInv'
<1>1. PICK a \in Answers :
        /\ source = "batch" => Len(a) = 1
        /\ answer' = [answer EXCEPT ![l] = a]
        /\ array' = [array EXCEPT ![l] = IF source = "batch" THEN Listing!Rows(l, 1)' ELSE <<>>]
  BY DEF Listing!Fetched
<1>2. /\ pc[l] = "fetching" /\ members' = l
      /\ pc' = [pc EXCEPT ![l] = IF source = "batch" THEN "naming" ELSE "opening"]
      /\ UNCHANGED <<source, password, at, named, unverified>>
      /\ UNCHANGED <<warning, headers, listed, archive>>
  BY DEF Listing!Fetched
<1>3. /\ answer'[l] = a /\ pc'[l] = IF source = "batch" THEN "naming" ELSE "opening"
      /\ array'[l] = IF source = "batch" THEN Listing!Rows(l, 1)' ELSE <<>>
      /\ \A k \in Listing!Loads : k # l => /\ pc'[k] = pc[k] /\ answer'[k] = answer[k]
                                          /\ array'[k] = array[k] /\ (Had(k)' <=> Had(k))
      /\ pc' \in [Listing!Loads -> Places] /\ answer' \in [Listing!Loads -> Answers \cup {<<>>}]
      /\ array' = [k \in Listing!Loads |-> array'[k]] /\ Had(l)' /\ ~Had(l)
  BY <1>1, <1>2 DEF ListInv, ListShape, Had, Places
<1>4. l \in Nat \ {0} /\ (source = "inbox" => l = 1)
  BY <1>2, ListConstants DEF ListInv, ListShape, Listing!Loads
<1>5. ListShape'
  BY <1>2, <1>3, <1>4 DEF ListInv, ListShape, Listing!Loads
<1>6. AnswersHad'
  <2>1. ASSUME NEW k \in Listing!Loads, Had(k)'
        PROVE  /\ answer'[k] \in Answers /\ members' # 0
               /\ IF source' = "batch" THEN Len(answer'[k]) = 1 /\ pc'[k] # "opening"
                                       ELSE pc'[k] \in {"opening", "done"}
    <3>1. CASE k = l
      BY <1>1, <1>2, <1>3, <1>4, <3>1
    <3>2. CASE k # l
      BY <1>2, <1>3, <1>4, <2>1, <3>2 DEF ListInv, AnswersHad
    <3> QED
      BY <3>1, <3>2
  <2> QED
    BY <2>1 DEF AnswersHad, Listing!Loads
<1>7. BatchRows'
  <2> SUFFICES ASSUME source = "batch", NEW k \in Listing!Loads
               PROVE  /\ Had(k)' => PartOfBatch(array[k], k)'
                      /\ pc'[k] \in {"verifying", "done"} => Marked(array[k])'
    BY <1>2 DEF BatchRows, Listing!Loads
  <2>1. CASE k = l
    <3>1. 1 \in DOMAIN a
      BY <1>1, AnswerIs
    <3>2. Listing!Rows(l, 1)' \in Seq(Listing!Range(Listing!Rows(l, 1))')
      <4> DEFINE n == Len(a[1].files)
                 h == Listing!Rows(l, 1)'
      <4>1. n \in Nat /\ DOMAIN a[1].files = 1 .. n
        BY <1>1, <3>1, AnswerIs
      <4>2. h = [i \in 1 .. n |-> h[i]]
        BY <1>3, <4>1 DEF Listing!Rows
      <4> HIDE DEF n, h
      <4>3. h \in Seq(Listing!Range(h))
        BY <4>1, <4>2, IsList
      <4> QED
        BY <4>3 DEF h, Listing!Range
    <3>3. PartOfBatch(array[l], l)'
      BY <1>3, <3>2 DEF PartOfBatch, Listing!Range
    <3> QED
      BY <1>3, <2>1, <3>3
  <2>2. CASE k # l
    BY <1>2, <1>3, <2>2, RowsStay DEF ListInv, BatchRows
  <2> QED
    BY <2>1, <2>2
<1>8. BatchVouched' /\ BatchComplete'
  BY <1>2, <1>3 DEF BatchVouched, BatchComplete
<1>9. InboxRows'
  <2> SUFFICES ASSUME source = "inbox" PROVE InboxRows'
    BY <1>2 DEF InboxRows
  <2>1. array'[1] = <<>> /\ pc'[1] = "opening"
    BY <1>3, <1>4
  <2>2. Listing!Range(array'[1]) = {}
    BY <2>1 DEF Listing!Range
  <2>3. array'[1] \in Seq(Listing!Range(array'[1]))
    BY <2>1
  <2> QED
    BY <2>1, <2>2, <2>3 DEF InboxRows, Listing!Range
<1>10. OnceInv'
  <2> SUFFICES ASSUME Once' PROVE OnceInv'
    BY DEF OnceInv
  <2>1. l = 1 /\ Once
    BY <1>3 DEF Once, Listing!Loads
  <2>2. unverified = {} /\ ~listed /\ archive = {}
    BY <1>2, <2>1 DEF ListInv, OnceInv
  <2>3. pc'[1] = "naming" => array'[1] = Listing!Rows(1, 1)'
    BY <1>3, <2>1
  <2>4. pc'[1] \in {"naming", "opening"}
    BY <1>3, <2>1
  <2> QED
    BY <1>2, <2>2, <2>3, <2>4 DEF OnceInv
<1> QED
  BY <1>5, <1>6, <1>7, <1>8, <1>9, <1>10 DEF ListInv

LEMMA NamedStep ==
  ASSUME ListInv, NEW l, l \in Listing!Loads, Listing!NameMembers(l)
  PROVE  ListInv'
<1>1. /\ pc[l] = "naming" /\ pc' = [pc EXCEPT ![l] = "verifying"]
      /\ named' = named \cup Listing!Range(array[l])
      /\ unverified' = unverified \cup {o \in Listing!Range(array[l]) : o.file.name = "damaged"}
      /\ UNCHANGED <<source, password, answer, at, array, members>>
      /\ UNCHANGED <<warning, headers, listed, archive>>
  BY DEF Listing!NameMembers, Listing!OpenNames
<1>2. /\ \A k \in Listing!Loads : Had(k)' <=> Had(k)
      /\ \A k \in Listing!Loads : k # l => pc'[k] = pc[k]
      /\ pc'[l] = "verifying" /\ Had(l) /\ pc' \in [Listing!Loads -> Places]
  BY <1>1 DEF ListInv, ListShape, Had, Places
<1>3. source = "batch" /\ l # 0
  BY <1>1, <1>2 DEF ListInv, ListShape, AnswersHad, Listing!Loads
<1>4. \A k : /\ Listing!Genuine(k)' = Listing!Genuine(k)
             /\ \A d : Listing!Rows(k, d)' = Listing!Rows(k, d)
  BY <1>1, GenuineKept
<1>5. ListShape'
  <2>1. \A k \in Listing!Loads : pc'[k] = "idle" <=> pc[k] = "idle"
    BY <1>1, <1>2
  <2> QED
    BY <1>1, <1>2, <2>1 DEF ListInv, ListShape, Listing!Loads
<1>6. AnswersHad'
  BY <1>1, <1>2, <1>3 DEF ListInv, AnswersHad, Listing!Loads
<1>7. BatchRows'
  <2>1. ASSUME NEW k \in Listing!Loads
        PROVE  /\ PartOfBatch(array[k], k) => PartOfBatch(array[k], k)'
               /\ Marked(array[k]) => Marked(array[k])'
    BY <1>1, RowsStay
  <2>2. Marked(array[l])'
    BY <1>1 DEF Marked, Listing!Range
  <2>3. \A k \in Listing!Loads : k # l /\ pc'[k] \in {"verifying", "done"} => Marked(array[k])
    BY <1>2, <1>3 DEF ListInv, BatchRows
  <2> QED
    BY <1>1, <1>2, <1>3, <2>1, <2>2, <2>3 DEF ListInv, BatchRows, Listing!Loads
<1>8. BatchVouched'
  BY <1>1, <1>2, <1>4 DEF ListInv, ListShape, BatchVouched, Listing!Range
<1>9. BatchComplete'
  <2>1. \A g : InOrder(g) => InOrder(g)'
    BY <1>1, <1>2 DEF InOrder, Listing!FileIds, Listing!Loads
  <2> QED
    BY <1>1, <1>2, <2>1 DEF ListInv, ListShape, BatchComplete, Unwarned
<1>10. InboxRows'
  BY <1>1, <1>3 DEF InboxRows
<1>11. OnceInv'
  <2> SUFFICES ASSUME Once' PROVE OnceInv'
    BY DEF OnceInv
  <2>1. l = 1 /\ Once
    BY <1>2 DEF Once, Listing!Loads
  <2>2. unverified = {} /\ ~listed /\ archive = {} /\ array[1] = Listing!Rows(1, 1)
    BY <1>1, <2>1 DEF ListInv, OnceInv
  <2>3. 1 \in DOMAIN answer[1]
    BY <1>2, <1>3, <2>1, AnswerIs DEF ListInv, AnswersHad
  <2>4. \A o \in unverified' : o \notin Listing!Genuine(1)
    BY <1>1, <2>1, <2>2, <2>3, GenuineUnmarked, GenuineIs
  <2>5. Listing!Range(array[1]) \subseteq named'
    BY <1>1, <2>1
  <2> QED
    BY <1>1, <1>2, <1>4, <2>1, <2>2, <2>4, <2>5 DEF OnceInv, Listing!Range
<1> QED
  BY <1>5, <1>6, <1>7, <1>8, <1>9, <1>10, <1>11 DEF ListInv

LEMMA VerifyStep ==
  ASSUME ListInv, NEW l, l \in Listing!Loads, Listing!VerifyMembers(l)
  PROVE  ListInv'
<1> DEFINE d == answer[l][1]
           g == array[members]
           m == unverified'
           h == Listing!Ordered(d, g, m)
<1>1. /\ pc[l] = "verifying" /\ pc' = [pc EXCEPT ![l] = "done"]
      /\ m = unverified \cup Listing!Marks(d, g, named)
      /\ warning' = Listing!Notes(d, g, m) /\ listed' = TRUE
      /\ array' = [array EXCEPT ![members] = h]
      /\ UNCHANGED <<source, password, answer, at, members, named>>
      /\ UNCHANGED <<headers, archive>>
  BY DEF Listing!VerifyMembers, Listing!Warn
<1>2. /\ \A k \in Listing!Loads : Had(k)' <=> Had(k)
      /\ \A k \in Listing!Loads : k # l => pc'[k] = pc[k]
      /\ pc'[l] = "done" /\ Had(l) /\ pc' \in [Listing!Loads -> Places]
  BY <1>1 DEF ListInv, ListShape, Had, Places
<1>3. /\ source = "batch" /\ members # 0 /\ members \in Listing!Loads /\ Had(members)
      /\ answer[l] \in Answers /\ Len(answer[l]) = 1
  BY <1>1, <1>2 DEF ListInv, ListShape, AnswersHad
<1>4. \A k : /\ Listing!Genuine(k)' = Listing!Genuine(k)
             /\ \A e : Listing!Rows(k, e)' = Listing!Rows(k, e)
  BY <1>1, GenuineKept
<1>5. /\ array'[members] = h /\ array' = [k \in Listing!Loads |-> array'[k]]
      /\ \A k \in Listing!Loads : k # members => array'[k] = array[k]
  BY <1>1, <1>3 DEF ListInv, ListShape
<1>6. PartOfBatch(g, members)
  BY <1>3 DEF ListInv, BatchRows
<1>7. d.roster # NoRoster => d.roster \in Seq(Listing!Range(d.roster))
  <2>1. 1 \in DOMAIN answer[l]
    BY <1>3, AnswerIs
  <2> QED
    BY <1>3, <2>1, AnswerIs
<1>8. /\ Listing!Range(h) \subseteq Listing!Range(g) /\ h \in Seq(Listing!Range(h))
      /\ h # g => /\ ~d.old /\ Listing!RosterOpens(d, g)
                  /\ Listing!Range(g) \cap m = {}
  BY <1>6, <1>7, OrderedRows DEF PartOfBatch
<1> HIDE DEF d, g, m, h
<1>9. PartOfBatch(h, members)
  <2>1. CASE h = g
    BY <1>6, <2>1
  <2>2. CASE h # g
    <3>1. \A i \in DOMAIN g : Listing!Vouched(d, g, i, named)
      <4>1. \A i \in DOMAIN g : g[i] \notin Listing!Marks(d, g, named)
        BY <1>1, <1>8, <2>2, RangeOf
      <4> QED
        BY <1>8, <2>2, <4>1, Unmarked
    <3>2. IdsDiffer(g)
      BY <1>6, <3>1, VouchedDiffer DEF PartOfBatch
    <3>3. /\ Listing!Range(g) \subseteq Listing!Range(Listing!Rows(members, 1))
          /\ IdsDiffer(Listing!Rows(members, 1))
      BY <1>6, <3>2 DEF PartOfBatch
    <3> QED
      BY <1>8, <3>3 DEF PartOfBatch
  <2> QED
    BY <2>1, <2>2
<1>10. ListShape'
  <2>1. \A k \in Listing!Loads : pc'[k] = "idle" <=> pc[k] = "idle"
    BY <1>1, <1>2
  <2> QED
    BY <1>1, <1>2, <1>3, <1>5, <2>1 DEF ListInv, ListShape, Listing!Loads
<1>11. AnswersHad'
  BY <1>1, <1>2, <1>3 DEF ListInv, AnswersHad, Listing!Loads
<1>12. unverified \subseteq m
  BY <1>1
<1>13. BatchRows'
  <2> SUFFICES ASSUME NEW k \in Listing!Loads
               PROVE  /\ Had(k)' => PartOfBatch(array[k], k)'
                      /\ pc'[k] \in {"verifying", "done"} => Marked(array[k])'
    BY DEF BatchRows, Listing!Loads
  <2>1. pc'[k] \in {"verifying", "done"} => Marked(array[k])
    BY <1>1, <1>2, <1>3 DEF ListInv, BatchRows
  <2>2. CASE k = members
    <3>1. /\ PartOfBatch(array[k], k)'
          /\ Marked(h) => Marked(array[k])'
      BY <1>1, <1>5, <1>9, <1>12, <2>2, RowsStay DEF m
    <3>2. Marked(g) => Marked(h)
      BY <1>8 DEF Marked
    <3> QED
      BY <2>1, <2>2, <3>1, <3>2 DEF g
  <2>3. CASE k # members
    <3>1. /\ PartOfBatch(array[k], k) => PartOfBatch(array[k], k)'
          /\ Marked(array[k]) => Marked(array[k])'
      BY <1>1, <1>5, <1>12, <2>3, RowsStay DEF m
    <3> QED
      BY <1>2, <1>3, <2>1, <3>1 DEF ListInv, BatchRows
  <2> QED
    BY <2>2, <2>3
<1>14. BatchVouched'
  <2> SUFFICES ASSUME pc'[members] = "done"
               PROVE  Listing!Range(h) \ m \subseteq Listing!Genuine(members)
    BY <1>1, <1>4, <1>5 DEF BatchVouched, Listing!Range, m
  <2>1. CASE members = l
    <3>1. Marked(g)
      BY <1>1, <1>3, <2>1 DEF ListInv, BatchRows, g
    <3>2. \A o \in Listing!Range(g) : o.file.name = "damaged" => o \in m
      BY <1>12, <3>1 DEF Marked
    <3>3. Listing!Marks(answer[l][1], g, named) \subseteq m
      BY <1>1 DEF d
    <3>4. Listing!Range(g) \ m \subseteq Listing!Genuine(l)
      BY <1>3, <1>6, <2>1, <3>2, <3>3, BatchBelieved
    <3> QED
      BY <1>8, <2>1, <3>4
  <2>2. CASE members # l
    <3>1. Listing!Range(g) \ unverified \subseteq Listing!Genuine(members)
      BY <1>2, <1>3, <2>2 DEF ListInv, BatchVouched, g
    <3> QED
      BY <1>8, <1>12, <3>1
  <2> QED
    BY <2>1, <2>2
<1>15. BatchComplete'
  <2> SUFFICES ASSUME Unwarned' PROVE InOrder(array[members])'
    BY DEF BatchComplete
  <2>1. Listing!FileIds(h) = d.roster
    BY <1>1, <1>7, NoOtherNote DEF Unwarned, h
  <2>2. Listing!FileIds(array[members])' = answer'[l][1].roster
    BY <1>1, <1>5, <2>1 DEF Listing!FileIds, d
  <2> QED
    BY <1>2, <2>2 DEF InOrder, Listing!Loads
<1>16. InboxRows'
  BY <1>1, <1>3 DEF InboxRows
<1>17. OnceInv'
  <2> SUFFICES ASSUME Once' PROVE OnceInv'
    BY DEF OnceInv
  <2>1. l = 1 /\ members = 1 /\ Once
    BY <1>2, <1>3 DEF Once, Listing!Loads
  <2>2. /\ ~listed /\ archive = {} /\ unverified \cap Listing!Genuine(1) = {}
        /\ g = Listing!Rows(1, 1) /\ Listing!Range(g) \subseteq named
    BY <1>1, <2>1 DEF ListInv, OnceInv, g
  <2>3. 1 \in DOMAIN answer[1]
    BY <1>3, <2>1, AnswerIs
  <2>4. \A o \in Listing!Marks(d, g, named) : o \notin Listing!Genuine(1)
    BY <2>1, <2>2, <2>3, GenuineUnmarked, GenuineIs DEF d
  <2>5. m \cap Listing!Genuine(1) = {}
    BY <1>1, <2>2, <2>4
  <2>6. pc'[1] = "done"
    BY <1>2, <2>1
  <2> QED
    BY <1>1, <1>4, <2>2, <2>5, <2>6 DEF OnceInv, m
<1> QED
  BY <1>10, <1>11, <1>13, <1>14, <1>15, <1>16, <1>17 DEF ListInv

LEMMA RangeAppended ==
  ASSUME NEW g, NEW h, g \in Seq(Listing!Range(g)), h \in Seq(Listing!Range(h))
  PROVE  /\ Listing!Range(g \o h) = Listing!Range(g) \cup Listing!Range(h)
         /\ g \o h \in Seq(Listing!Range(g \o h))
<1> DEFINE S == Listing!Range(g) \cup Listing!Range(h)
<1>1. g \in Seq(S) /\ h \in Seq(S) /\ Len(g) \in Nat /\ Len(h) \in Nat
      /\ DOMAIN g = 1 .. Len(g) /\ DOMAIN h = 1 .. Len(h)
  <2>1. /\ Len(g) \in Nat /\ DOMAIN g = 1 .. Len(g) /\ \A i \in 1 .. Len(g) : g[i] \in S
        /\ g = [i \in 1 .. Len(g) |-> g[i]]
    OBVIOUS
  <2>2. /\ Len(h) \in Nat /\ DOMAIN h = 1 .. Len(h) /\ \A i \in 1 .. Len(h) : h[i] \in S
        /\ h = [i \in 1 .. Len(h) |-> h[i]]
    OBVIOUS
  <2> QED
    BY <2>1, <2>2
<1> HIDE DEF S
<1>2. /\ Len(g \o h) = Len(g) + Len(h) /\ g \o h \in Seq(S)
      /\ \A i \in 1 .. Len(g) + Len(h) :
            (g \o h)[i] = IF i <= Len(g) THEN g[i] ELSE h[i - Len(g)]
  BY <1>1, ConcatProperties
<1>3. DOMAIN (g \o h) = 1 .. Len(g) + Len(h)
  BY <1>2
<1>4. \A i \in 1 .. Len(g) : g[i] = (g \o h)[i] /\ i \in DOMAIN (g \o h)
  BY <1>1, <1>2, <1>3
<1>5. \A i \in 1 .. Len(h) : h[i] = (g \o h)[Len(g) + i] /\ Len(g) + i \in DOMAIN (g \o h)
  <2>1. ASSUME NEW i \in 1 .. Len(h)
        PROVE  /\ Len(g) + i \in 1 .. Len(g) + Len(h) /\ ~(Len(g) + i <= Len(g))
               /\ (Len(g) + i) - Len(g) = i
    BY <1>1
  <2> QED
    BY <1>2, <1>3, <2>1
<1>6. \A i \in DOMAIN (g \o h) :
         \/ i \in DOMAIN g /\ (g \o h)[i] = g[i]
         \/ i - Len(g) \in DOMAIN h /\ (g \o h)[i] = h[i - Len(g)]
  BY <1>1, <1>2, <1>3
<1>7. ASSUME NEW o, o \in Listing!Range(g \o h)
      PROVE  o \in Listing!Range(g) \cup Listing!Range(h)
  <2>1. PICK i \in DOMAIN (g \o h) : o = (g \o h)[i]
    BY ONLY <1>7, RangeOf, Zenon
  <2>2. \/ i \in DOMAIN g /\ o = g[i]
        \/ i - Len(g) \in DOMAIN h /\ o = h[i - Len(g)]
    BY <1>6, <2>1
  <2>3. o \in Listing!Range(g) \/ o \in Listing!Range(h)
    BY ONLY <2>2, RangeOf, Zenon
  <2> QED
    BY <2>3
<1>8. ASSUME NEW o, o \in Listing!Range(g) \cup Listing!Range(h)
      PROVE  o \in Listing!Range(g \o h)
  <2>1. CASE o \in Listing!Range(g)
    <3>1. PICK i \in DOMAIN g : o = g[i]
      BY ONLY <2>1, RangeOf, Zenon
    <3> QED
      BY <1>1, <1>4, <3>1, RangeOf, Zenon
  <2>2. CASE o \in Listing!Range(h)
    <3>1. PICK i \in DOMAIN h : o = h[i]
      BY ONLY <2>2, RangeOf, Zenon
    <3> QED
      BY <1>1, <1>5, <3>1, RangeOf, Zenon
  <2> QED
    BY <1>8, <2>1, <2>2
<1>9. Listing!Range(g \o h) = Listing!Range(g) \cup Listing!Range(h)
  BY <1>7, <1>8
<1> QED
  BY <1>2, <1>9 DEF S

(* A delivery of an inbox.                                                 *)
LEMMA DeliveryStep ==
  ASSUME ListInv, NEW l, l \in Listing!Loads, Listing!OpenDelivery(l)
  PROVE  ListInv'
<1> DEFINE d == answer[1][at]
           g == Listing!Rows(1, at)
           known == named \cup Listing!Range(g)
           m == unverified'
           h == Listing!Ordered(d, g, m)
<1>1. /\ pc[l] = "opening" /\ at <= Len(answer[l]) /\ at' = at + 1
      /\ UNCHANGED <<source, password, pc, answer, members>>
      /\ UNCHANGED <<headers, listed, archive>>
  BY DEF Listing!OpenDelivery
<1>2. Had(l) /\ source = "inbox" /\ l = 1
  <2>1. Had(l) /\ source = "inbox"
    BY <1>1 DEF Had, ListInv, ListShape, AnswersHad
  <2> QED
    BY <1>1, <2>1 DEF ListInv, ListShape
<1>3. /\ answer[1] \in Answers /\ at \in DOMAIN answer[1]
  <2>1. answer[1] \in Answers /\ at \in Nat \ {0}
    BY <1>2, ListConstants DEF ListInv, ListShape, AnswersHad
  <2>2. DOMAIN answer[1] = 1 .. Len(answer[1]) /\ Len(answer[1]) \in Nat
    BY <2>1, ListConstants
  <2> QED
    BY <1>1, <1>2, <2>1, <2>2
<1>4. \A k : /\ Listing!Genuine(k)' = Listing!Genuine(k)
             /\ \A e : Listing!Rows(k, e)' = Listing!Rows(k, e)
  BY <1>1, GenuineKept
<1>5. \/ UNCHANGED <<unverified, array>>
      \/ /\ m = unverified \cup Listing!Marks(d, g, known)
                   \cup {o \in Listing!Range(g) : o.file.name = "damaged"}
         /\ array' = [array EXCEPT ![1] = array[1] \o h]
  BY <1>2 DEF Listing!OpenDelivery
<1>6. /\ d.roster # NoRoster => d.roster \in Seq(Listing!Range(d.roster))
      /\ g \in Seq(Listing!Range(g))
  BY <1>3, AnswerIs, RowsSequence
<1>7. Listing!Range(h) \subseteq Listing!Range(g) /\ h \in Seq(Listing!Range(h))
  BY <1>6, OrderedRows
<1>8. array' = [k \in Listing!Loads |-> array'[k]] /\ (array'[1] = array[1] \/ array'[1] = array[1] \o h)
  BY <1>5, ListConstants DEF ListInv, ListShape
<1> HIDE DEF h
<1>9. ListShape'
  <2>1. at' \in Nat \ {0}
    BY <1>1 DEF ListInv, ListShape
  <2> QED
    BY <1>1, <1>8, <2>1 DEF ListInv, ListShape, Had, Listing!Loads
<1>10. AnswersHad'
  BY <1>1 DEF ListInv, AnswersHad, Had, Listing!Loads
<1>11. BatchRows' /\ BatchVouched' /\ BatchComplete'
  BY <1>1, <1>2 DEF BatchRows, BatchVouched, BatchComplete
<1>12. InboxRows'
  <2>1. /\ array[1] \in Seq(Listing!Range(array[1])) /\ pc'[1] # "done"
        /\ \A o \in Listing!Range(array[1]) :
              OfInbox(o) /\ (o \notin unverified => o \in Listing!Genuine(1))
    BY <1>1, <1>2 DEF ListInv, InboxRows
  <2>2. \A o : OfInbox(o) => OfInbox(o)'
    BY <1>1, <1>4 DEF OfInbox, Listing!Range
  <2>3. CASE UNCHANGED <<unverified, array>>
    BY <1>1, <1>4, <2>1, <2>2, <2>3 DEF InboxRows, Listing!Range
  <2>4. CASE /\ m = unverified \cup Listing!Marks(d, g, known)
                       \cup {o \in Listing!Range(g) : o.file.name = "damaged"}
             /\ array' = [array EXCEPT ![1] = array[1] \o h]
    <3>1. /\ array'[1] = array[1] \o h
          /\ Listing!Range(array[1] \o h) = Listing!Range(array[1]) \cup Listing!Range(h)
          /\ array'[1] \in Seq(Listing!Range(array[1] \o h))
      BY <1>7, <2>1, <2>4, ListConstants, RangeAppended DEF ListInv, ListShape
    <3>2. ASSUME NEW o, o \in Listing!Range(g)
          PROVE  OfInbox(o) /\ (o \notin m => o \in Listing!Genuine(1))
      <4>1. PICK i \in DOMAIN g : o = g[i]
        BY <3>2, RangeOf
      <4>2. g[i].file = d.files[i] /\ g[i].at[2] = at
        BY <4>1, RowIs, RowsDomain
      <4>3. ASSUME o \notin m PROVE Good(1, at, i)
        <5>1. d.files[i].name # "damaged" /\ g[i] \notin Listing!Marks(d, g, known)
          BY <2>4, <3>2, <4>1, <4>2, <4>3
        <5> HIDE DEF known, d, g
        <5>2. d.old \/ (Listing!RosterOpens(d, g) /\ Listing!Vouched(d, g, i, known))
          BY <5>1, <4>1, Unmarked
        <5>3. g[i] \in Listing!Range(g)
          BY <4>1, RangeOf
        <5>4. Listing!Vouched(d, g, i, known) => Listing!Vouched(d, g, i, Listing!Range(g))
          BY <5>3 DEF Listing!Vouched
        <5> QED
          BY <5>1, <5>2, <5>4 DEF Good, d, g
      <4>4. o \notin m => o \in Listing!Genuine(1)
        BY <1>3, <4>1, <4>3, GenuineIs DEF IsGood
      <4> QED
        BY <1>3, <3>2, <4>1, <4>2, <4>4 DEF OfInbox
    <3>3. unverified \subseteq m
      BY <2>4
    <3>4. \A o \in Listing!Range(array[1] \o h) :
             OfInbox(o) /\ (o \notin m => o \in Listing!Genuine(1))
      BY <1>7, <2>1, <3>1, <3>2, <3>3
    <3> QED
      BY <1>1, <1>4, <2>1, <2>2, <3>1, <3>4 DEF InboxRows, Listing!Range
  <2> QED
    BY <1>5, <2>3, <2>4
<1>13. OnceInv'
  <2> SUFFICES ASSUME Once' PROVE OnceInv'
    BY DEF OnceInv
  <2>1. Once
    BY <1>1 DEF Once, Had, Listing!Loads
  <2>2. pc[1] = "opening" /\ ~listed /\ archive = {} /\ unverified \cap Listing!Genuine(1) = {}
    BY <1>1, <1>2, <2>1 DEF ListInv, OnceInv
  <2>3. m \cap Listing!Genuine(1) = {}
    <3>1. CASE UNCHANGED <<unverified, array>>
      BY <2>2, <3>1
    <3>2. CASE m = unverified \cup Listing!Marks(d, g, known)
                     \cup {o \in Listing!Range(g) : o.file.name = "damaged"}
      <4>1. Listing!Range(g) \subseteq known
        OBVIOUS
      <4> HIDE DEF known
      <4>2. \A o : \/ o \in Listing!Marks(d, g, known)
                   \/ o \in Listing!Range(g) /\ o.file.name = "damaged"
                   => o \notin Listing!Genuine(1)
        BY <1>3, <4>1, GenuineUnmarked, GenuineIs
      <4> QED
        BY <2>2, <3>2, <4>2
    <3> QED
      BY <1>5, <3>1, <3>2
  <2> QED
    BY <1>1, <1>4, <2>2, <2>3 DEF OnceInv
<1> QED
  BY <1>9, <1>10, <1>11, <1>12, <1>13 DEF ListInv

LEMMA ShowStep ==
  ASSUME ListInv, NEW l, l \in Listing!Loads, Listing!ShowInbox(l)
  PROVE  ListInv'
<1>1. /\ pc[l] = "opening" /\ pc' = [pc EXCEPT ![l] = "done"] /\ listed' = TRUE
      /\ headers' = Listing!DeliveryHeaders(l)
      /\ UNCHANGED <<source, password, answer, at, array, members>>
      /\ UNCHANGED <<named, unverified, archive>>
  BY DEF Listing!ShowInbox
<1>2. Had(l) /\ source = "inbox" /\ l = 1
  <2>1. Had(l) /\ source = "inbox"
    BY <1>1 DEF Had, ListInv, ListShape, AnswersHad
  <2> QED
    BY <1>1, <2>1 DEF ListInv, ListShape
<1>3. /\ \A k \in Listing!Loads : Had(k)' <=> Had(k)
      /\ \A k \in Listing!Loads : k # 1 => pc'[k] = pc[k]
      /\ pc'[1] = "done" /\ pc' \in [Listing!Loads -> Places]
  BY <1>1, <1>2 DEF ListInv, ListShape, Had, Places
<1>4. \A k : /\ Listing!Genuine(k)' = Listing!Genuine(k)
             /\ \A e : Listing!Rows(k, e)' = Listing!Rows(k, e)
  BY <1>1, GenuineKept
<1>5. ListShape'
  BY <1>1, <1>2, <1>3 DEF ListInv, ListShape, AnswersHad, Listing!Loads
<1>6. AnswersHad'
  BY <1>1, <1>2, <1>3 DEF ListInv, AnswersHad, Listing!Loads
<1>7. BatchRows' /\ BatchVouched' /\ BatchComplete'
  BY <1>1, <1>2 DEF BatchRows, BatchVouched, BatchComplete
<1>8. InboxRows'
  <2>1. \A o : OfInbox(o) => OfInbox(o)'
    BY <1>1, <1>4 DEF OfInbox, Listing!Range
  <2>2. Listing!DeliveryHeaders(1)' = headers'
    BY <1>1, <1>2 DEF Listing!DeliveryHeaders, Listing!Range
  <2> QED
    BY <1>1, <1>2, <1>4, <2>1, <2>2 DEF ListInv, InboxRows, Listing!Range
<1>9. OnceInv'
  <2>1. Once' => Once
    BY <1>3 DEF Once, Listing!Loads
  <2> QED
    BY <1>1, <1>2, <1>3, <1>4, <2>1 DEF ListInv, OnceInv
<1> QED
  BY <1>5, <1>6, <1>7, <1>8, <1>9 DEF ListInv

LEMMA ArchiveStep ==
  ASSUME ListInv, Listing!DownloadAll
  PROVE  ListInv'
<1>1. /\ listed /\ archive' = Listing!Range(array[members]) \ unverified
      /\ UNCHANGED <<source, password, pc, answer, at, array, members>>
      /\ UNCHANGED <<named, unverified, warning, headers, listed>>
  BY DEF Listing!DownloadAll
<1>2. \A k : /\ Listing!Genuine(k)' = Listing!Genuine(k)
             /\ \A e : Listing!Rows(k, e)' = Listing!Rows(k, e)
  BY <1>1, GenuineKept
<1>3. ListShape' /\ AnswersHad'
  BY <1>1 DEF ListInv, ListShape, AnswersHad, Had, Listing!Loads
<1>4. BatchRows'
  BY <1>1, RowsStay DEF ListInv, BatchRows, Had, Listing!Loads
<1>5. BatchVouched' /\ BatchComplete'
  <2>1. \A g : InOrder(g) => InOrder(g)'
    BY <1>1 DEF InOrder, Listing!FileIds, Listing!Loads
  <2> QED
    BY <1>1, <1>2, <2>1 DEF ListInv, BatchVouched, BatchComplete, Unwarned, Listing!Range
<1>6. InboxRows'
  <2>1. \A o : OfInbox(o) => OfInbox(o)'
    BY <1>1, <1>2 DEF OfInbox, Listing!Range
  <2>2. Listing!DeliveryHeaders(1)' = Listing!DeliveryHeaders(1)
    BY <1>1 DEF Listing!DeliveryHeaders, Listing!Range
  <2> QED
    BY <1>1, <1>2, <2>1, <2>2 DEF ListInv, InboxRows, Listing!Range
<1>7. OnceInv'
  <2> SUFFICES ASSUME Once' PROVE OnceInv'
    BY DEF OnceInv
  <2>1. Once
    BY <1>1 DEF Once, Had, Listing!Loads
  <2>2. pc[1] = "done" /\ members = 1
    <3>1. members \in Listing!Loads /\ Had(members)
      BY <1>1 DEF ListInv, ListShape
    <3> QED
      BY <1>1, <2>1, <3>1 DEF ListInv, OnceInv, Once
  <2>3. Listing!Range(array[1]) \ unverified \subseteq Listing!Genuine(1)
    BY <2>2 DEF ListInv, ListShape, BatchVouched, InboxRows
  <2> QED
    BY <1>1, <1>2, <2>1, <2>2, <2>3 DEF ListInv, OnceInv, Listing!Range
<1> QED
  BY <1>3, <1>4, <1>5, <1>6, <1>7 DEF ListInv

LEMMA EarlyStep ==
  ASSUME ListInv, NEW l, l \in Listing!Loads,
         Listing!Unlock(l) \/ Listing!Unlocked(l) \/ Listing!LoadFails(l)
  PROVE  ListInv'
<1>1. PICK p \in Before : pc' = [pc EXCEPT ![l] = p] /\ pc[l] \in Before
  BY DEF Listing!Unlock, Listing!Unlocked, Listing!LoadFails, Before
<1>2. Quiet
  BY DEF Listing!Unlock, Listing!Unlocked, Listing!LoadFails, Quiet
<1>3. ~password => l = 1
  BY DEF Listing!Unlock, Listing!Unlocked, Listing!LoadFails, ListInv, ListShape
<1> QED
  BY <1>1, <1>2, <1>3, QuietStep

LEMMA ListStep ==
  ASSUME ListInv, Listing!Next
  PROVE  ListInv'
BY EarlyStep, FetchedStep, NamedStep, VerifyStep, DeliveryStep, ShowStep, ArchiveStep
   DEF Listing!Next

LEMMA ListInit == BrowserInit => ListInv
<1> SUFFICES ASSUME Listing!Init PROVE ListInv
  BY DEF BrowserInit
<1>1. /\ source \in {"batch", "inbox"} /\ (source = "inbox" => ~password)
      /\ pc = [l \in Listing!Loads |-> "idle"] /\ at = 1
      /\ answer = [l \in Listing!Loads |-> <<>>] /\ array = [l \in Listing!Loads |-> <<>>]
      /\ members = 0 /\ unverified = {} /\ listed = FALSE /\ archive = {}
  BY DEF Listing!Init
<1>2. \A l \in Listing!Loads : pc[l] = "idle" /\ ~Had(l)
  BY <1>1 DEF Had
<1>3. ListShape
  BY <1>1 DEF ListShape, Places
<1>4. AnswersHad /\ BatchRows /\ BatchVouched /\ BatchComplete
  BY <1>1, <1>2 DEF AnswersHad, BatchRows, BatchVouched, BatchComplete
<1>5. InboxRows
  <2>1. array[1] = <<>> /\ pc[1] = "idle"
    BY <1>1, ListConstants
  <2>2. Listing!Range(array[1]) = {} /\ array[1] \in Seq(Listing!Range(array[1]))
    BY <2>1 DEF Listing!Range
  <2> QED
    BY <2>1, <2>2 DEF InboxRows
<1>6. OnceInv
  BY <1>1, <1>2, ListConstants DEF OnceInv
<1> QED
  BY <1>3, <1>4, <1>5, <1>6 DEF ListInv

ListedInv == part = "listing" => ListInv

LEMMA ListedStep == ListedInv /\ [BrowserNext]_client => ListedInv'
<1> SUFFICES ASSUME ListedInv, [BrowserNext]_client, part = "listing" PROVE ListedInv'
  BY DEF ListedInv, BrowserNext, Others, client
<1>1. Listing!Next \/ UNCHANGED listingVars
  BY DEF BrowserNext, client
<1>2. ASSUME UNCHANGED listingVars PROVE ListInv'
  <2>1. Quiet /\ pc' = pc
    BY <1>2 DEF listingVars, Quiet
  <2>2. ListInv
    BY DEF ListedInv
  <2> QED
    BY <2>1, <2>2, ListStays
<1> QED
  BY <1>1, <1>2, ListStep DEF ListedInv

(* Whatever the server answers, and however often the list is loaded while *)
(* an earlier load is under way, a row that is shown unmarked is one that  *)
(* the roster of its delivery vouches for, and a batch that is shown       *)
(* without a warning is whole and in its sender's order.                   *)
THEOREM ListsTellTrue == BrowserSpec => []ListTrue
<1>1. BrowserInit => ListedInv
  BY ListInit DEF ListedInv
<1>2. ListedInv => ListTrue
  BY ListHolds DEF ListedInv, ListTrue
<1> QED
  BY <1>1, <1>2, ListedStep, PTL DEF BrowserSpec

-----------------------------------------------------------------------------
(* The rows a list has named, marked or archived are rows it still has: no *)
(* load replaces rows of an earlier one, and rows put in order all stay.   *)
Here(o) == \E l \in Listing!Loads : o \in Listing!Range(array[l])
RowsHere == \A o \in named \cup unverified \cup archive : Here(o)
Unloaded == \A l \in Listing!Loads : pc[l] \in Before => array[l] = <<>>
AllNotes == {"legacy", "no_roster", "unverified", "missing", "reordered", "sealed"}
ListTyped == RowsHere /\ Unloaded /\ warning \subseteq AllNotes /\ notes \subseteq {"sealed"}

LEMMA ListTypes ==
  ASSUME ListInv, ListTyped
  PROVE  Listing!TypeOK
<1>1. \A o : Here(o) => o \in UNION {Listing!Range(array[l]) : l \in Listing!Loads}
  BY DEF Here
<1>2. /\ named \cup unverified \subseteq UNION {Listing!Range(array[l]) : l \in Listing!Loads}
      /\ archive \subseteq UNION {Listing!Range(array[l]) : l \in Listing!Loads}
  BY <1>1 DEF ListTyped, RowsHere
<1>3. members \in 0 .. MaxLoads /\ at \in Nat
  BY ListConstants DEF ListInv, ListShape, Listing!Loads
<1> QED
  BY <1>2, <1>3 DEF ListInv, ListShape, Places, ListTyped, AllNotes, Listing!TypeOK

LEMMA OrderKeeps ==
  ASSUME NEW d, NEW g, NEW m, NEW known,
         d.roster # NoRoster => d.roster \in Seq(Listing!Range(d.roster)),
         g \in Seq(Listing!Range(g)), Listing!Marks(d, g, known) \subseteq m
  PROVE  Listing!Range(Listing!Ordered(d, g, m)) = Listing!Range(g)
<1> DEFINE h == Listing!Ordered(d, g, m)
<1>1. CASE Listing!Notes(d, g, m) # {"reordered"}
  BY <1>1 DEF Listing!Ordered
<1>2. CASE Listing!Notes(d, g, m) = {"reordered"}
  <2>1. /\ ~d.old /\ Listing!RosterOpens(d, g) /\ Listing!Range(g) \cap m = {}
        /\ Listing!Range(h) \subseteq Listing!Range(g) /\ Listing!FileIds(h) = d.roster
    BY <1>2, PutInOrder
  <2> HIDE DEF h
  <2>2. \A i \in DOMAIN g : Listing!Vouched(d, g, i, known)
    <3>1. \A i \in DOMAIN g : g[i] \notin Listing!Marks(d, g, known)
      BY <2>1, RangeOf
    <3> QED
      BY <2>1, <3>1, Unmarked
  <2>3. IdsDiffer(g)
    BY <2>2, VouchedDiffer
  <2>4. ASSUME NEW o, o \in Listing!Range(g) PROVE o \in Listing!Range(h)
    <3>1. PICK i \in DOMAIN g : o = g[i]
      BY <2>4, RangeOf
    <3>2. g[i].file.id \in Listing!Range(Listing!FileIds(h))
      BY <2>1, <2>2 DEF Listing!Vouched, Listing!Entered
    <3>3. PICK k \in DOMAIN h : g[i].file.id = h[k].file.id
      BY <3>2 DEF Listing!Range, Listing!FileIds
    <3>4. PICK j \in DOMAIN g : h[k] = g[j]
      BY <2>1, RangeOf
    <3>5. i = j
      BY <2>3, <3>3, <3>4 DEF IdsDiffer
    <3> QED
      BY <3>1, <3>4, <3>5, RangeOf
  <2> QED
    BY <2>1, <2>4 DEF h
<1> QED
  BY <1>1, <1>2

LEMMA NotesAre ==
  ASSUME NEW d, NEW g, NEW m
  PROVE  Listing!Notes(d, g, m) \subseteq AllNotes
BY DEF Listing!Notes, Listing!Findings, AllNotes

(* Rows that stay, and what is said of them.                               *)
LEMMA RowsKept ==
  ASSUME RowsHere, \A l \in Listing!Loads : Listing!Range(array[l]) \subseteq Listing!Range(array'[l]),
         NEW new, \A o \in new : Here(o)',
         named' \cup unverified' \cup archive' \subseteq named \cup unverified \cup archive \cup new
  PROVE  RowsHere'
<1>1. Listing!Loads' = Listing!Loads /\ \A l : Listing!Range(array[l])' = Listing!Range(array'[l])
  BY DEF Listing!Loads, Listing!Range
<1>2. \A o : Here(o) => Here(o)'
  BY <1>1 DEF Here
<1> QED
  BY <1>2 DEF RowsHere

LEMMA ListTypedStep ==
  ASSUME ListInv, ListTyped, Listing!Next
  PROVE  ListTyped'
<1>0. /\ RowsHere /\ Unloaded /\ warning \subseteq AllNotes /\ notes \subseteq {"sealed"}
      /\ Listing!Loads' = Listing!Loads
  BY DEF ListTyped, Listing!Loads
<1>1. ASSUME NEW l \in Listing!Loads,
             Listing!Unlock(l) \/ Listing!Unlocked(l) \/ Listing!LoadFails(l)
      PROVE  ListTyped'
  <2>1. /\ UNCHANGED <<notes, array, named, unverified, warning, archive>>
        /\ pc[l] \in Before /\ \A k \in Listing!Loads : k # l => pc'[k] = pc[k]
    BY <1>1 DEF Listing!Unlock, Listing!Unlocked, Listing!LoadFails, Before, ListInv, ListShape
  <2>2. RowsHere'
    BY <1>0, <2>1 DEF RowsHere, Here, Listing!Range
  <2> QED
    BY <1>0, <2>1, <2>2 DEF ListTyped, Unloaded
<1>2. ASSUME NEW l \in Listing!Loads, Listing!Fetched(l) PROVE ListTyped'
  <2>1. /\ UNCHANGED <<notes, named, unverified, warning, archive>>
        /\ pc[l] = "fetching" /\ pc'[l] \notin Before
        /\ \A k \in Listing!Loads : k # l => pc'[k] = pc[k] /\ array'[k] = array[k]
    BY <1>2 DEF Listing!Fetched, Before, ListInv, ListShape
  <2>2. Listing!Range(array[l]) = {}
    BY <1>0, <2>1 DEF Unloaded, Before, Listing!Range
  <2>3. \A k \in Listing!Loads : Listing!Range(array[k]) \subseteq Listing!Range(array'[k])
    BY <2>1, <2>2
  <2>4. RowsHere'
    <3> DEFINE none == {}
    <3>1. named' \cup unverified' \cup archive' \subseteq named \cup unverified \cup archive \cup none
      BY <2>1
    <3>2. \A o \in none : Here(o)'
      OBVIOUS
    <3> HIDE DEF none
    <3> QED
      BY <1>0, <2>3, <3>1, <3>2, RowsKept
  <2> QED
    BY <1>0, <2>1, <2>4 DEF ListTyped, Unloaded
<1>3. ASSUME NEW l \in Listing!Loads, Listing!NameMembers(l) PROVE ListTyped'
  <2>1. /\ UNCHANGED <<notes, array, warning, archive>>
        /\ pc[l] = "naming" /\ pc'[l] \notin Before
        /\ \A k \in Listing!Loads : k # l => pc'[k] = pc[k]
        /\ named' = named \cup Listing!Range(array[l])
        /\ unverified' \subseteq unverified \cup Listing!Range(array[l])
    BY <1>3 DEF Listing!NameMembers, Listing!OpenNames, Before, ListInv, ListShape
  <2>2. \A o \in Listing!Range(array[l]) : Here(o)'
    BY <2>1 DEF Here, Listing!Range, Listing!Loads
  <2>3. RowsHere'
    BY <1>0, <2>1, <2>2, RowsKept
  <2> QED
    BY <1>0, <2>1, <2>3 DEF ListTyped, Unloaded
<1>4. ASSUME NEW l \in Listing!Loads, Listing!VerifyMembers(l) PROVE ListTyped'
  <2> DEFINE d == answer[l][1]
             g == array[members]
             m == unverified'
             h == Listing!Ordered(d, g, m)
  <2>1. /\ m = unverified \cup Listing!Marks(d, g, named) /\ warning' = Listing!Notes(d, g, m)
        /\ array' = [array EXCEPT ![members] = h]
        /\ pc[l] = "verifying" /\ pc' = [pc EXCEPT ![l] = "done"]
        /\ UNCHANGED <<notes, named, archive>>
    BY <1>4 DEF Listing!VerifyMembers, Listing!Warn
  <2>2. /\ Had(l) /\ members # 0 /\ members \in Listing!Loads /\ Had(members)
        /\ source = "batch" /\ answer[l] \in Answers /\ Len(answer[l]) = 1
    BY <2>1 DEF ListInv, ListShape, AnswersHad, Had
  <2>3. d.roster # NoRoster => d.roster \in Seq(Listing!Range(d.roster))
    BY <2>2, AnswerIs
  <2>4. g \in Seq(Listing!Range(g))
    BY <2>2 DEF ListInv, BatchRows, PartOfBatch
  <2>5. Listing!Range(h) = Listing!Range(g)
    BY <2>1, <2>3, <2>4, OrderKeeps
  <2>6. warning' \subseteq AllNotes
    BY <2>1, NotesAre
  <2>7. Listing!Marks(d, g, named) \subseteq Listing!Range(g)
    BY OnlyMarked
  <2> HIDE DEF d, g, h
  <2>8. /\ array'[members] = h
        /\ \A k \in Listing!Loads : k # members => array'[k] = array[k]
        /\ pc'[l] = "done" /\ \A k \in Listing!Loads : k # l => pc'[k] = pc[k]
    BY <2>1, <2>2 DEF ListInv, ListShape
  <2>9. \A k \in Listing!Loads : Listing!Range(array[k]) \subseteq Listing!Range(array'[k])
    BY <2>5, <2>8 DEF g
  <2>10. \A o \in Listing!Range(g) : Here(o)'
    BY <2>2, <2>5, <2>8 DEF Here, Listing!Range, Listing!Loads
  <2>11. RowsHere'
    BY <1>0, <2>1, <2>7, <2>9, <2>10, RowsKept
  <2>12. Unloaded'
    <3>1. pc[members] \notin Before
      BY <2>2 DEF Had, Before
    <3>2. pc'[members] \notin Before
      BY <2>2, <2>8, <3>1 DEF Before
    <3> QED
      BY <1>0, <2>8, <3>2 DEF Unloaded, Before
  <2> QED
    BY <1>0, <2>1, <2>6, <2>11, <2>12 DEF ListTyped
<1>5. ASSUME NEW l \in Listing!Loads, Listing!OpenDelivery(l) PROVE ListTyped'
  <2> DEFINE d == answer[1][at]
             g == Listing!Rows(1, at)
             known == named \cup Listing!Range(g)
             m == unverified'
             h == Listing!Ordered(d, g, m)
  <2>1. /\ pc[l] = "opening" /\ at <= Len(answer[l])
        /\ UNCHANGED <<pc, archive>>
        /\ notes' \subseteq notes \cup {"sealed"}
    BY <1>5 DEF Listing!OpenDelivery
  <2>2. Had(l) /\ source = "inbox" /\ l = 1
    <3>1. Had(l) /\ source = "inbox"
      BY <2>1 DEF Had, ListInv, ListShape, AnswersHad
    <3> QED
      BY <2>1, <3>1 DEF ListInv, ListShape
  <2>3. answer[1] \in Answers /\ at \in DOMAIN answer[1]
    <3>1. answer[1] \in Answers /\ at \in Nat \ {0}
      BY <2>2, ListConstants DEF ListInv, ListShape, AnswersHad
    <3>2. DOMAIN answer[1] = 1 .. Len(answer[1]) /\ Len(answer[1]) \in Nat
      BY <3>1, ListConstants
    <3> QED
      BY <2>1, <2>2, <3>1, <3>2
  <2>4. \/ UNCHANGED <<named, unverified, warning, array>>
        \/ /\ m = unverified \cup Listing!Marks(d, g, known)
                     \cup {o \in Listing!Range(g) : o.file.name = "damaged"}
           /\ array' = [array EXCEPT ![1] = array[1] \o h]
           /\ named' = known /\ warning' = Listing!Notes(d, g, m)
    BY <1>5, <2>2 DEF Listing!OpenDelivery, Listing!Warn
  <2>5. CASE UNCHANGED <<named, unverified, warning, array>>
    <3>1. RowsHere'
      BY <1>0, <2>1, <2>5 DEF RowsHere, Here, Listing!Range
    <3> QED
      BY <1>0, <2>1, <2>5, <3>1 DEF ListTyped, Unloaded
  <2>6. CASE ~UNCHANGED <<named, unverified, warning, array>>
    <3>1. /\ d.roster # NoRoster => d.roster \in Seq(Listing!Range(d.roster))
          /\ g \in Seq(Listing!Range(g))
      BY <2>3, AnswerIs, RowsSequence
    <3>2. /\ m = unverified \cup Listing!Marks(d, g, known)
                   \cup {o \in Listing!Range(g) : o.file.name = "damaged"}
          /\ array' = [array EXCEPT ![1] = array[1] \o h]
          /\ named' = known /\ warning' = Listing!Notes(d, g, m)
      BY <2>4, <2>6
    <3>3. Listing!Range(h) = Listing!Range(g) /\ h \in Seq(Listing!Range(h))
      BY <3>1, <3>2, OrderKeeps, OrderedRows
    <3>4. warning' \subseteq AllNotes
      BY <3>2, NotesAre
    <3>5. Listing!Marks(d, g, known) \subseteq Listing!Range(g)
      BY OnlyMarked
    <3>6. array[1] \in Seq(Listing!Range(array[1]))
      BY <2>2 DEF ListInv, InboxRows
    <3>7. known = named \cup Listing!Range(g)
      OBVIOUS
    <3> HIDE DEF known, d, g, h
    <3>8. array'[1] = array[1] \o h /\ \A k \in Listing!Loads : k # 1 => array'[k] = array[k]
      BY <3>2, ListConstants DEF ListInv, ListShape
    <3>9. Listing!Range(array'[1]) = Listing!Range(array[1]) \cup Listing!Range(g)
      BY <3>3, <3>6, <3>8, RangeAppended
    <3>10. \A k \in Listing!Loads : Listing!Range(array[k]) \subseteq Listing!Range(array'[k])
      BY <3>8, <3>9
    <3>11. \A o \in Listing!Range(g) : Here(o)'
      BY <3>9, ListConstants DEF Here, Listing!Range, Listing!Loads
    <3>12. named' \cup m \cup archive' \subseteq named \cup unverified \cup archive \cup Listing!Range(g)
      BY <2>1, <3>2, <3>5, <3>7
    <3>13. RowsHere'
      BY <1>0, <3>10, <3>11, <3>12, RowsKept
    <3>14. Unloaded'
      BY <1>0, <2>1, <2>2, <3>8 DEF Unloaded, Before
    <3> QED
      BY <1>0, <2>1, <3>4, <3>13, <3>14 DEF ListTyped
  <2> QED
    BY <2>5, <2>6
<1>6. ASSUME NEW l \in Listing!Loads, Listing!ShowInbox(l) PROVE ListTyped'
  <2>1. /\ UNCHANGED <<notes, array, named, unverified, archive>>
        /\ pc[l] = "opening" /\ pc'[l] = "done"
        /\ \A k \in Listing!Loads : k # l => pc'[k] = pc[k]
        /\ warning' = notes \/ warning' = warning
    BY <1>6 DEF Listing!ShowInbox, Listing!Warn, ListInv, ListShape
  <2>2. RowsHere'
    BY <1>0, <2>1 DEF RowsHere, Here, Listing!Range
  <2>3. warning' \subseteq AllNotes
    BY <1>0, <2>1 DEF AllNotes
  <2> QED
    BY <1>0, <2>1, <2>2, <2>3 DEF ListTyped, Unloaded, Before
<1>7. ASSUME Listing!DownloadAll PROVE ListTyped'
  <2>1. /\ UNCHANGED <<pc, notes, array, named, unverified, warning>>
        /\ listed /\ archive' \subseteq Listing!Range(array[members])
    BY <1>7 DEF Listing!DownloadAll
  <2>2. members \in Listing!Loads
    BY <2>1 DEF ListInv, ListShape
  <2>3. \A o \in Listing!Range(array[members]) : Here(o)'
    BY <2>1, <2>2 DEF Here, Listing!Range, Listing!Loads
  <2>4. RowsHere'
    <3>1. \A l \in Listing!Loads : Listing!Range(array[l]) \subseteq Listing!Range(array'[l])
      BY <2>1
    <3>2. named' \cup unverified' \cup archive'
             \subseteq named \cup unverified \cup archive \cup Listing!Range(array[members])
      BY <2>1
    <3> QED
      BY <1>0, <2>3, <3>1, <3>2, RowsKept
  <2> QED
    BY <1>0, <2>1, <2>4 DEF ListTyped, Unloaded
<1> QED
  BY <1>1, <1>2, <1>3, <1>4, <1>5, <1>6, <1>7 DEF Listing!Next

LEMMA ListTypedInit == BrowserInit => ListTyped
BY DEF BrowserInit, Listing!Init, ListTyped, RowsHere, Unloaded

ListedTyped == part = "listing" => ListTyped

LEMMA ListedTypedStep == ListedInv /\ ListedTyped /\ [BrowserNext]_client => ListedTyped'
<1> SUFFICES ASSUME ListedInv, ListedTyped, [BrowserNext]_client, part = "listing"
             PROVE  ListedTyped'
  BY DEF ListedTyped, BrowserNext, Others, client
<1>1. Listing!Next \/ UNCHANGED listingVars
  BY DEF BrowserNext, client
<1>2. ASSUME UNCHANGED listingVars PROVE ListTyped'
  BY <1>2 DEF listingVars, ListedTyped, ListTyped, RowsHere, Here, Unloaded, Listing!Loads, Listing!Range
<1> QED
  BY <1>1, <1>2, ListTypedStep DEF ListedInv, ListedTyped

-----------------------------------------------------------------------------
(* The files of a list, fetched.                                           *)

(* What each kind of use may be of.                                        *)
UseInv ==
    \A u \in uses :
       /\ u.kind \in {"preview", "stage"} => u.file \in Previewable
       /\ u.kind = "stage" => u.file = item
       /\ u.kind = "prefetch" => u.from \in 1 .. MaxOpens

ViewerInv ==
    /\ Viewer!TypeOK /\ UseInv
    /\ Viewer!SpentOnce /\ Viewer!StageShowsItem /\ Viewer!BarsTrue

(* The types, by what writes them.                                         *)
AUse == [file : Viewer!Members, kind : Viewer!Kinds, from : 0 .. MaxOpens,
         at : {"waiting", "ready", "lost", "rendering"}]
CallsTyped ==
    /\ plainCache \in [Viewer!Members -> {"none", "pending", "ready"}]
    /\ fetched \in [Viewer!Members -> Nat] /\ failures \in [Viewer!Members -> Nat]
    /\ uses \subseteq AUse /\ busy \subseteq Viewer!Members /\ done \subseteq Viewer!Members
PanelsTyped ==
    /\ panels \subseteq Previewable /\ kept \subseteq Viewer!Members
    /\ zip \in Viewer!Members \cup {0} /\ building \in BOOLEAN
GalleryTyped ==
    /\ open \in BOOLEAN /\ error \in BOOLEAN /\ nodes \subseteq Previewable
    /\ item \in Viewer!Members \cup {0} /\ view \in Viewer!Members \cup {0}
    /\ opens \in 0 .. MaxOpens /\ todo \in [1 .. MaxOpens -> SUBSET (Previewable \cap Small)]

LEMMA ViewerTypes ==
  /\ Viewer!TypeOK <=> CallsTyped /\ PanelsTyped /\ GalleryTyped
  /\ Viewer!TypeOK' <=> CallsTyped' /\ PanelsTyped' /\ GalleryTyped'
BY DEF Viewer!TypeOK, CallsTyped, PanelsTyped, GalleryTyped, AUse, Viewer!NoItem

LEMMA ViewerConstants ==
  /\ ListCount \in Nat \ {0} /\ MaxOpens \in Nat /\ Viewer!Members = 1 .. ListCount
  /\ Previewable \subseteq Viewer!Members /\ Small \subseteq Viewer!Members
  /\ Verified \subseteq Viewer!Members /\ 0 \notin Viewer!Members
BY BrowserAssumption DEF Viewer!ViewerAssumption, Viewer!Members

(* The first of some files is one of them.                                 *)
LEMMA FirstIsOne ==
  ASSUME NEW S \in SUBSET Viewer!Members, S # {}
  PROVE  Viewer!First(S) \in S
<1>1. S \in SUBSET Nat
  BY ViewerConstants
<1>2. \E m \in S : \A n \in S : m <= n
  BY <1>1, Least
<1> QED
  BY <1>2 DEF Viewer!First

(* A use asks for one file.                                                *)
LEMMA UseTyped ==
  ASSUME NEW m \in Viewer!Members, NEW sort \in Viewer!Kinds, NEW k \in 0 .. MaxOpens
  PROVE  /\ Viewer!Use(m, sort, k) \in AUse
         /\ Viewer!Use(m, sort, k).file = m /\ Viewer!Use(m, sort, k).kind = sort
         /\ Viewer!Use(m, sort, k).from = k
BY DEF Viewer!Use, AUse

(* Uses begin: each file that is new to the memo is fetched once, and the  *)
(* uses there are afterwards are those that stay and those that begin.     *)
Same(u, v) == u.file = v.file /\ u.kind = v.kind /\ u.from = v.from

LEMMA Begins ==
  ASSUME CallsTyped, Viewer!SpentOnce, UNCHANGED failures,
         NEW new, NEW others, NEW b, NEW d,
         new \subseteq AUse, others \subseteq AUse,
         b \subseteq Viewer!Members, d \subseteq Viewer!Members,
         Viewer!Begin(new, others, b, d), \A m \in b : \E u \in others : u.file = m
  PROVE  /\ CallsTyped' /\ Viewer!SpentOnce'
         /\ others \subseteq uses'
         /\ \A u \in uses' : u \in others \/ \E v \in new : Same(u, v)
         /\ \A v \in new : \E u \in uses' : Same(u, v)
         /\ \A m \in busy' : \E u \in uses' : u.file = m
         /\ done' \subseteq d
<1> DEFINE fetching == {m \in Viewer!Members : ~Viewer!Memoised(m) /\ \E u \in new : u.file = m}
           started == [u \in new |-> [u EXCEPT !.at = IF plainCache[u.file] = "ready" THEN "ready" ELSE @]]
<1>1. /\ uses' = others \cup {started[u] : u \in new}
      /\ plainCache' = [m \in Viewer!Members |-> IF m \in fetching THEN "pending" ELSE plainCache[m]]
      /\ fetched' = [m \in Viewer!Members |-> IF m \in fetching THEN fetched[m] + 1 ELSE fetched[m]]
  BY DEF Viewer!Begin
<1>2. \A u \in new : started[u] \in AUse /\ Same(started[u], u)
  BY DEF AUse, Same
<1>3. busy' \subseteq b \cup {v.file : v \in new} /\ done' \subseteq d
  BY DEF Viewer!Begin
<1>4. CallsTyped'
  <2>1. uses' \subseteq AUse
    BY <1>1, <1>2
  <2>2. {v.file : v \in new} \subseteq Viewer!Members
    BY DEF AUse
  <2>3. /\ plainCache' \in [Viewer!Members -> {"none", "pending", "ready"}]
        /\ fetched' \in [Viewer!Members -> Nat] /\ failures' \in [Viewer!Members -> Nat]
    BY <1>1 DEF CallsTyped
  <2> QED
    BY <1>3, <2>1, <2>2, <2>3 DEF CallsTyped
<1>5. Viewer!SpentOnce'
  <2> SUFFICES ASSUME NEW m \in Viewer!Members
               PROVE  fetched'[m] = failures[m] + (IF plainCache'[m] = "none" THEN 0 ELSE 1)
    BY DEF Viewer!SpentOnce
  <2>1. fetched[m] = failures[m] + (IF plainCache[m] = "none" THEN 0 ELSE 1)
    BY DEF Viewer!SpentOnce
  <2>2. m \in fetching => plainCache[m] = "none"
    BY DEF Viewer!Memoised
  <2>3. failures[m] \in Nat /\ fetched[m] \in Nat
    BY DEF CallsTyped
  <2> QED
    BY <1>1, <2>1, <2>2, <2>3
<1>6. \A v \in new : \E u \in uses' : Same(u, v)
  BY <1>1, <1>2
<1>7. \A m \in busy' : \E u \in uses' : u.file = m
  <2> SUFFICES ASSUME NEW m \in busy', m \notin b PROVE \E u \in uses' : u.file = m
    BY <1>1
  <2>1. PICK v \in new : v.file = m
    BY <1>3
  <2> QED
    BY <1>6, <2>1 DEF Same
<1>8. \A u \in uses' : u \in others \/ \E v \in new : Same(u, v)
  BY <1>1, <1>2
<1>9. others \subseteq uses' /\ done' \subseteq d
  BY <1>1, <1>3
<1> HIDE DEF fetching, started
<1> QED
  BY <1>4, <1>5, <1>6, <1>7, <1>8, <1>9

(* Uses begin and one of them, or none, ends.                              *)
Rest(ended) == uses \ ended
Fits(new, ended, b, d) ==
    /\ new \subseteq AUse /\ ended \subseteq uses
    /\ b \subseteq busy /\ \A m \in b : \A u \in ended : u.file # m
    /\ d \subseteq Viewer!Members

LEMMA GoesOn ==
  ASSUME ViewerInv, UNCHANGED failures, NEW new, NEW ended, NEW others, NEW b, NEW d,
         Fits(new, ended, b, d), others = Rest(ended), Viewer!Begin(new, others, b, d)
  PROVE  /\ CallsTyped' /\ Viewer!SpentOnce'
         /\ others \subseteq uses'
         /\ \A u \in uses' : u \in others \/ \E v \in new : Same(u, v)
         /\ \A v \in new : \E u \in uses' : Same(u, v)
         /\ \A m \in busy' : \E u \in uses' : u.file = m
         /\ done' \subseteq d
<1>1. CallsTyped /\ others \in SUBSET AUse /\ b \in SUBSET Viewer!Members
  BY ViewerTypes DEF ViewerInv, CallsTyped, Fits, Rest
<1>2. \A m \in b : \E u \in others : u.file = m
  BY DEF Fits, Rest, ViewerInv, Viewer!BarsTrue
<1>3. Viewer!SpentOnce
  BY DEF ViewerInv
<1>4. new \subseteq AUse /\ d \subseteq Viewer!Members
  BY DEF Fits
<1> QED
  BY <1>1, <1>2, <1>3, <1>4, Begins

(* While the stage stays as it is, and its use if it has one, the rest of  *)
(* the page can be looked at by itself.                                    *)
LEMMA StageAlone ==
  ASSUME ViewerInv, CallsTyped', PanelsTyped', GalleryTyped', Viewer!SpentOnce', UseInv',
         UNCHANGED <<item, view, error>>,
         \A u \in uses : u.kind = "stage" => \E v \in uses' : Same(v, u),
         done' \subseteq kept', \A m \in busy' : \E u \in uses' : u.file = m
  PROVE  ViewerInv'
<1>1. Viewer!StageShowsItem'
  BY DEF ViewerInv, Viewer!StageShowsItem, Viewer!NoItem, Same
<1> QED
  BY <1>1, ViewerTypes DEF ViewerInv, Viewer!BarsTrue

(* A use waits no more.                                                    *)
LEMMA Wakes ==
  ASSUME ViewerInv, NEW m \in Viewer!Members, NEW how \in {"ready", "lost"}, Viewer!Wake(m, how)
  PROVE  /\ uses' \subseteq AUse
         /\ \A u \in uses' : \E v \in uses : Same(u, v)
         /\ \A u \in uses : \E v \in uses' : Same(v, u)
<1> DEFINE woken(u) == [u EXCEPT !.at = IF u.file = m /\ @ = "waiting" THEN how ELSE @]
<1>1. uses \subseteq AUse
  BY ViewerTypes DEF ViewerInv, CallsTyped
<1>2. \A u \in uses : woken(u) \in AUse /\ Same(woken(u), u)
  BY <1>1 DEF AUse, Same
<1>3. uses' = {woken(u) : u \in uses}
  BY DEF Viewer!Wake
<1> QED
  BY <1>2, <1>3

LEMMA FetchStep ==
  ASSUME ViewerInv, NEW m \in Viewer!Members, Viewer!Fetch(m)
  PROVE  ViewerInv'
<1> DEFINE how == IF Viewer!Decrypted(m) THEN "ready" ELSE "lost"
<1>1. /\ Viewer!Wake(m, how) /\ how \in {"ready", "lost"} /\ plainCache[m] = "pending"
      /\ UNCHANGED <<fetched, busy, done, panels, kept, zip, building,
                     open, item, view, error, nodes, opens, todo>>
      /\ \/ plainCache' = [plainCache EXCEPT ![m] = "ready"] /\ UNCHANGED failures
         \/ /\ plainCache' = [plainCache EXCEPT ![m] = "none"]
            /\ failures' = [failures EXCEPT ![m] = @ + 1]
  BY DEF Viewer!Fetch, Viewer!Decrypted, Viewer!Fails, Viewer!archive, Viewer!gallery
<1>2. /\ uses' \subseteq AUse
      /\ \A u \in uses' : \E v \in uses : Same(u, v)
      /\ \A u \in uses : \E v \in uses' : Same(v, u)
  BY <1>1, Wakes
<1>3. CallsTyped /\ PanelsTyped /\ GalleryTyped
  BY ViewerTypes DEF ViewerInv
<1>4. CallsTyped' /\ PanelsTyped' /\ GalleryTyped'
  <2>1. PanelsTyped' /\ GalleryTyped'
    BY <1>1, <1>3 DEF PanelsTyped, GalleryTyped
  <2>2. plainCache' \in [Viewer!Members -> {"none", "pending", "ready"}]
    BY <1>1, <1>3 DEF CallsTyped
  <2>3. failures' \in [Viewer!Members -> Nat]
    BY <1>1, <1>3 DEF CallsTyped
  <2> QED
    BY <1>1, <1>2, <1>3, <2>1, <2>2, <2>3 DEF CallsTyped
<1>5. Viewer!SpentOnce'
  <2> SUFFICES ASSUME NEW n \in Viewer!Members
               PROVE  fetched[n] = failures'[n] + (IF plainCache'[n] = "none" THEN 0 ELSE 1)
    BY <1>1 DEF Viewer!SpentOnce
  <2>1. fetched[n] = failures[n] + (IF plainCache[n] = "none" THEN 0 ELSE 1)
    BY DEF ViewerInv, Viewer!SpentOnce
  <2> QED
    BY <1>1, <1>3, <2>1 DEF CallsTyped
<1>6. UseInv'
  BY <1>1, <1>2 DEF ViewerInv, UseInv, Same
<1>7. done' \subseteq kept' /\ \A n \in busy' : \E u \in uses' : u.file = n
  BY <1>1, <1>2 DEF ViewerInv, Viewer!BarsTrue, Same
<1> QED
  BY <1>1, <1>2, <1>4, <1>5, <1>6, <1>7, StageAlone

(* Uses that have nothing to do with the stage begin and end.              *)
Aside(new) ==
    \A u \in new : /\ u.kind # "stage" /\ (u.kind = "preview" => u.file \in Previewable)
                   /\ u.kind = "prefetch" => u.from \in 1 .. MaxOpens

LEMMA Worked ==
  ASSUME ViewerInv, UNCHANGED failures, UNCHANGED <<item, view, error>>, PanelsTyped', GalleryTyped',
         NEW new, NEW ended, NEW others, NEW b, NEW d,
         Fits(new, ended, b, d), others = Rest(ended), Viewer!Begin(new, others, b, d),
         \A u \in ended : u.kind # "stage",
         Aside(new),
         d \subseteq kept'
  PROVE  ViewerInv'
<1>1. /\ CallsTyped' /\ Viewer!SpentOnce'
      /\ others \subseteq uses'
      /\ \A u \in uses' : u \in others \/ \E v \in new : Same(u, v)
      /\ \A v \in new : \E u \in uses' : Same(u, v)
      /\ \A m \in busy' : \E u \in uses' : u.file = m
      /\ done' \subseteq d
  BY GoesOn
<1>2. UseInv'
  BY <1>1 DEF Fits, Rest, Aside, ViewerInv, UseInv, Same
<1>3. \A u \in uses : u.kind = "stage" => \E v \in uses' : Same(v, u)
  BY <1>1 DEF Same, Fits, Rest
<1> QED
  BY <1>1, <1>2, <1>3, StageAlone

(* One that says so on a row ends, and others may begin.                   *)
LEMMA EndsWorked ==
  ASSUME ViewerInv, UNCHANGED failures, UNCHANGED <<item, view, error>>, PanelsTyped', GalleryTyped',
         NEW new, NEW u, NEW ok, new \subseteq AUse, u \in uses, ok \in BOOLEAN,
         Viewer!EndAndBegin(u, ok, new), u.kind # "stage",
         Aside(new),
         kept \subseteq kept', ok => u.file \in kept'
  PROVE  ViewerInv'
<1> DEFINE d == IF ok THEN done \cup {u.file} ELSE done \ {u.file}
           b == busy \ {u.file}
           ended == {u}
           others == Rest(ended)
<1>1. Viewer!Begin(new, others, b, d)
  BY DEF Viewer!EndAndBegin, Rest
<1>2. d \in SUBSET Viewer!Members /\ d \subseteq kept'
  <2>1. u.file \in Viewer!Members /\ done \subseteq Viewer!Members
    BY ViewerTypes DEF ViewerInv, CallsTyped, AUse
  <2>2. done \subseteq kept'
    BY DEF ViewerInv, Viewer!BarsTrue
  <2> QED
    BY <2>1, <2>2
<1>3. b \subseteq busy /\ \A m \in b : \A v \in ended : v.file # m
  OBVIOUS
<1>4. ended \subseteq uses /\ \A v \in ended : v.kind # "stage"
  OBVIOUS
<1>5. Fits(new, ended, b, d)
  BY <1>2, <1>3, <1>4 DEF Fits
<1>6. others = Rest(ended)
  OBVIOUS
<1> HIDE DEF b, d, ended, others
<1> QED
  BY <1>1, <1>2, <1>3, <1>4, <1>5, <1>6, Worked

(* Nothing but the page around the uses changes.                           *)
LEMMA CallsStay ==
  ASSUME ViewerInv, UNCHANGED <<plainCache, fetched, uses, busy, done, failures, kept>>,
         UNCHANGED <<item, view, error>>, PanelsTyped', GalleryTyped'
  PROVE  ViewerInv'
<1>1. CallsTyped'
  BY ViewerTypes DEF ViewerInv, CallsTyped
<1>2. Viewer!SpentOnce' /\ UseInv'
  BY DEF ViewerInv, Viewer!SpentOnce, UseInv
<1>3. done' \subseteq kept' /\ \A m \in busy' : \E u \in uses' : u.file = m
  BY DEF ViewerInv, Viewer!BarsTrue
<1>4. \A u \in uses : u.kind = "stage" => \E v \in uses' : Same(v, u)
  BY DEF Same
<1> QED
  BY <1>1, <1>2, <1>3, <1>4, StageAlone

LEMMA RowStep ==
  ASSUME ViewerInv, NEW m \in Viewer!Members,
         Viewer!ClosePreview(m) \/ Viewer!TogglePreview(m) \/ Viewer!DownloadMember(m)
  PROVE  ViewerInv'
<1>1. PanelsTyped /\ GalleryTyped /\ CallsTyped
  BY ViewerTypes DEF ViewerInv
<1>2. CASE Viewer!ClosePreview(m)
  <2>1. PanelsTyped' /\ GalleryTyped'
    BY <1>1, <1>2 DEF Viewer!ClosePreview, Viewer!archive, Viewer!gallery, PanelsTyped, GalleryTyped
  <2> QED
    BY <1>2, <2>1, CallsStay DEF Viewer!ClosePreview, Viewer!calls, Viewer!gallery
<1>3. ASSUME Viewer!TogglePreview(m) \/ Viewer!DownloadMember(m) PROVE ViewerInv'
  <2>1. PICK sort \in {"preview", "download"} :
           /\ Viewer!Begin({Viewer!Use(m, sort, 0)}, uses, busy, done)
           /\ sort = "preview" => m \in Previewable
    BY <1>3 DEF Viewer!TogglePreview, Viewer!DownloadMember
  <2>2. UNCHANGED <<failures, panels, kept, zip, building, open, item, view, error, nodes, opens, todo>>
    BY <1>3 DEF Viewer!TogglePreview, Viewer!DownloadMember, Viewer!archive, Viewer!gallery
  <2>3. PanelsTyped' /\ GalleryTyped'
    BY <1>1, <2>2 DEF PanelsTyped, GalleryTyped
  <2> DEFINE new == {Viewer!Use(m, sort, 0)}
             none == {}
  <2>4. /\ new \in SUBSET AUse
        /\ Aside(new)
    BY <2>1, UseTyped, ViewerConstants DEF Viewer!Kinds, Aside
  <2>5. Viewer!Begin(new, uses, busy, done) /\ uses = Rest(none)
    BY <2>1 DEF Rest
  <2>6. done \in SUBSET Viewer!Members /\ done \subseteq kept'
    BY <1>1, <2>2 DEF ViewerInv, CallsTyped, Viewer!BarsTrue
  <2>7. /\ \A n \in busy : \A u \in none : u.file # n
        /\ \A u \in none : u.kind # "stage"
        /\ none \in SUBSET uses
    OBVIOUS
  <2>8. busy \in SUBSET busy /\ UNCHANGED <<failures, item, view, error>>
    BY <2>2
  <2>9. Fits(new, none, busy, done)
    BY <2>4, <2>6, <2>7 DEF Fits
  <2> HIDE DEF new, none
  <2> QED
    BY <2>3, <2>4, <2>5, <2>6, <2>7, <2>8, <2>9, Worked
<1> QED
  BY <1>2, <1>3

LEMMA RenderStep ==
  ASSUME ViewerInv, NEW u \in uses, Viewer!Render(u)
  PROVE  ViewerInv'
<1> DEFINE shows == [u EXCEPT !.at = "rendering"]
<1>1. PanelsTyped /\ GalleryTyped /\ CallsTyped
  BY ViewerTypes DEF ViewerInv
<1>2. /\ uses' = (uses \ {u}) \cup {shows}
      /\ UNCHANGED <<plainCache, fetched, failures, busy, done, panels, kept, zip, building,
                     open, item, view, error, nodes, opens, todo>>
  BY DEF Viewer!Render, Viewer!archive, Viewer!gallery
<1>3. shows \in AUse /\ Same(shows, u)
  BY <1>1 DEF CallsTyped, AUse, Same
<1> HIDE DEF shows
<1>4. PanelsTyped' /\ GalleryTyped'
  BY <1>1, <1>2 DEF PanelsTyped, GalleryTyped
<1>5. CallsTyped' /\ Viewer!SpentOnce'
  BY <1>1, <1>2, <1>3 DEF CallsTyped, ViewerInv, Viewer!SpentOnce
<1>6. /\ \A v \in uses' : \E w \in uses : Same(v, w)
      /\ \A w \in uses : \E v \in uses' : Same(v, w)
  BY <1>2, <1>3 DEF Same
<1>7. UseInv'
  <2> SUFFICES ASSUME NEW v \in uses'
               PROVE  /\ v.kind \in {"preview", "stage"} => v.file \in Previewable
                      /\ v.kind = "stage" => v.file = item'
                      /\ v.kind = "prefetch" => v.from \in 1 .. MaxOpens
    BY DEF UseInv
  <2>1. PICK w \in uses : v.file = w.file /\ v.kind = w.kind /\ v.from = w.from
    BY <1>6 DEF Same
  <2>2. UseInv /\ item' = item
    BY <1>2 DEF ViewerInv
  <2> QED
    BY ONLY <2>1, <2>2 DEF UseInv
<1>8. done' \subseteq kept' /\ \A m \in busy' : \E v \in uses' : v.file = m
  BY <1>2, <1>6 DEF ViewerInv, Viewer!BarsTrue, Same
<1> QED
  BY <1>2, <1>4, <1>5, <1>6, <1>7, <1>8, StageAlone

LEMMA RowEnds ==
  ASSUME ViewerInv, NEW u \in uses,
         Viewer!PreviewEnds(u) \/ Viewer!DownloadEnds(u) \/ Viewer!StaleEnds(u)
  PROVE  ViewerInv'
<1>1. PanelsTyped /\ GalleryTyped /\ u \in AUse
  BY ViewerTypes DEF ViewerInv, CallsTyped
<1> DEFINE none == {}
<1>2. PICK ok \in BOOLEAN :
         /\ Viewer!EndAndBegin(u, ok, none) /\ u.kind # "stage"
         /\ kept \subseteq kept' /\ kept' \subseteq Viewer!Members /\ (ok => u.file \in kept')
  <2>1. CASE Viewer!PreviewEnds(u) \/ Viewer!StaleEnds(u)
    BY <1>1, <2>1 DEF Viewer!PreviewEnds, Viewer!StaleEnds, Viewer!End, PanelsTyped
  <2>2. CASE Viewer!DownloadEnds(u)
    BY <1>1, <2>2 DEF Viewer!DownloadEnds, Viewer!End, PanelsTyped, AUse
  <2> QED
    BY <2>1, <2>2
<1>3. /\ UNCHANGED <<failures, zip, building, open, item, view, error, nodes, opens, todo>>
      /\ panels' \subseteq Previewable
  <2>1. CASE Viewer!PreviewEnds(u)
    <3>1. u.file \in Previewable
      BY <2>1 DEF Viewer!PreviewEnds, ViewerInv, UseInv
    <3> QED
      BY <1>1, <2>1, <3>1 DEF Viewer!PreviewEnds, PanelsTyped, Viewer!archive, Viewer!gallery
  <2>2. CASE Viewer!DownloadEnds(u) \/ Viewer!StaleEnds(u)
    BY <1>1, <2>2 DEF Viewer!DownloadEnds, Viewer!StaleEnds, PanelsTyped, Viewer!archive, Viewer!gallery
  <2> QED
    BY <2>1, <2>2
<1>4. PanelsTyped' /\ GalleryTyped'
  BY <1>1, <1>2, <1>3 DEF PanelsTyped, GalleryTyped
<1>5. none \subseteq AUse /\ Aside(none)
  BY DEF Aside
<1> HIDE DEF none
<1> QED
  BY <1>2, <1>3, <1>4, <1>5, EndsWorked

-----------------------------------------------------------------------------
(* The archive.                                                            *)

LEMMA ZipUse ==
  ASSUME NEW S \in SUBSET Verified, S # {}
  PROVE  /\ Viewer!First(S) \in Viewer!Members
         /\ {Viewer!Use(Viewer!First(S), "zip", 0)} \subseteq AUse
         /\ Aside({Viewer!Use(Viewer!First(S), "zip", 0)})
<1>1. Viewer!First(S) \in Viewer!Members
  BY FirstIsOne, ViewerConstants
<1> DEFINE u == Viewer!Use(Viewer!First(S), "zip", 0)
<1>2. u \in AUse /\ u.kind = "zip"
  BY <1>1, UseTyped, ViewerConstants DEF Viewer!Kinds
<1> HIDE DEF u
<1>3. {u} \subseteq AUse /\ Aside({u})
  BY <1>2 DEF Aside
<1> QED
  BY <1>1, <1>3 DEF u

LEMMA ZipStep ==
  ASSUME ViewerInv,
         Viewer!DownloadAll \/ Viewer!BuildZip
            \/ \E u \in uses : Viewer!ZipTakes(u) \/ Viewer!ZipLoses(u)
  PROVE  ViewerInv'
<1>1. PanelsTyped /\ GalleryTyped /\ CallsTyped /\ done \subseteq kept
  BY ViewerTypes DEF ViewerInv, Viewer!BarsTrue
<1> DEFINE none == {}
<1>2. /\ none \subseteq AUse /\ none \subseteq uses /\ none \subseteq busy /\ Aside(none)
      /\ Rest(none) = uses /\ \A u \in none : u.kind # "stage"
  BY DEF Aside, Rest
<1>3. done \subseteq Viewer!Members
  BY <1>1 DEF CallsTyped
<1>4. CASE Viewer!DownloadAll
  <2> DEFINE new == {Viewer!Use(Viewer!First(Verified), "zip", 0)}
  <2>1. Verified # {} /\ zip' = Viewer!First(Verified) /\ Viewer!Begin(new, uses, busy, done)
    BY <1>4 DEF Viewer!DownloadAll
  <2>2. UNCHANGED <<failures, panels, kept, building, open, item, view, error, nodes, opens, todo>>
    BY <1>4 DEF Viewer!DownloadAll, Viewer!gallery
  <2>3. Viewer!First(Verified) \in Viewer!Members /\ new \subseteq AUse /\ Aside(new)
    BY <2>1, ZipUse
  <2> HIDE DEF new
  <2>4. PanelsTyped' /\ GalleryTyped'
    BY <1>1, <2>1, <2>2, <2>3 DEF PanelsTyped, GalleryTyped
  <2>5. Fits(new, none, busy, done)
    BY <1>2, <1>3, <2>3 DEF Fits
  <2> HIDE DEF none
  <2> QED
    BY <1>1, <1>2, <2>1, <2>2, <2>3, <2>4, <2>5, Worked DEF Aside
<1>5. CASE Viewer!BuildZip
  <2>1. UNCHANGED <<failures, panels, kept, zip, open, item, view, error, nodes, opens, todo>>
    BY <1>5 DEF Viewer!BuildZip, Viewer!gallery
  <2>2. PanelsTyped' /\ GalleryTyped'
    BY <1>1, <1>5, <2>1 DEF PanelsTyped, GalleryTyped, Viewer!BuildZip
  <2>3. CASE UNCHANGED <<plainCache, fetched, uses, busy, done>>
    BY <2>1, <2>2, <2>3, CallsStay
  <2>4. CASE Viewer!Begin(none, uses, none, done)
    <3>1. Fits(none, none, none, done)
      BY <1>2, <1>3 DEF Fits
    <3> HIDE DEF none
    <3> QED
      BY <1>1, <1>2, <2>1, <2>2, <2>4, <3>1, Worked DEF Aside
  <2> QED
    BY <1>5, <2>3, <2>4 DEF Viewer!BuildZip, Viewer!calls
<1>6. ASSUME NEW u \in uses, Viewer!ZipTakes(u) PROVE ViewerInv'
  <2> DEFINE rest == Viewer!After(u.file)
             new == IF rest = {} THEN {} ELSE {Viewer!Use(Viewer!First(rest), "zip", 0)}
             ok == TRUE
  <2>1. /\ zip' = IF rest = {} THEN 0 ELSE Viewer!First(rest)
        /\ building' = (rest = {}) /\ kept' = kept \cup {u.file} /\ u.kind # "stage"
        /\ Viewer!EndAndBegin(u, ok, new)
        /\ UNCHANGED <<failures, panels, open, item, view, error, nodes, opens, todo>>
    BY <1>6 DEF Viewer!ZipTakes, Viewer!gallery
  <2>2. rest \in SUBSET Verified
    BY DEF Viewer!After
  <2>3. new \subseteq AUse /\ Aside(new) /\ (rest # {} => Viewer!First(rest) \in Viewer!Members)
    BY <1>2, <2>2, ZipUse
  <2>4. u.file \in Viewer!Members
    BY <1>1 DEF CallsTyped, AUse
  <2>5. PanelsTyped' /\ GalleryTyped'
    BY <1>1, <2>1, <2>3, <2>4 DEF PanelsTyped, GalleryTyped
  <2>6. kept \subseteq kept' /\ u.file \in kept' /\ ok \in BOOLEAN
    BY <2>1
  <2> HIDE DEF new, ok
  <2> QED
    BY <2>1, <2>3, <2>5, <2>6, EndsWorked
<1>7. ASSUME NEW u \in uses, Viewer!ZipLoses(u) PROVE ViewerInv'
  <2> DEFINE ended == {u}
  <2>1. /\ zip' = 0 /\ u.kind # "stage" /\ Viewer!Begin(none, Rest(ended), none, done)
        /\ UNCHANGED <<failures, panels, kept, building, open, item, view, error, nodes, opens, todo>>
    BY <1>7 DEF Viewer!ZipLoses, Viewer!gallery, Rest
  <2>2. PanelsTyped' /\ GalleryTyped'
    BY <1>1, <2>1 DEF PanelsTyped, GalleryTyped
  <2>3. Fits(none, ended, none, done) /\ \A v \in ended : v.kind # "stage"
    BY <1>2, <1>3, <2>1 DEF Fits
  <2> HIDE DEF none, ended
  <2> QED
    BY <1>1, <1>2, <2>1, <2>2, <2>3, Worked
<1> QED
  BY <1>4, <1>5, <1>6, <1>7

-----------------------------------------------------------------------------
(* The gallery.                                                            *)

QueuesTyped ==
    /\ open \in BOOLEAN /\ opens \in 0 .. MaxOpens
    /\ todo \in [1 .. MaxOpens -> SUBSET (Previewable \cap Small)]

(* Stepping to an item makes the latest use of the stage a stale one, so   *)
(* that the one that begins is the only one of the stage.                  *)
LEMMA MovesOn ==
  ASSUME ViewerInv, NEW m, NEW new, m \in Previewable, new \subseteq AUse, Aside(new),
         Viewer!ShowItem(m, new), UNCHANGED <<failures, kept, nodes>>,
         PanelsTyped', QueuesTyped'
  PROVE  ViewerInv'
<1> DEFINE past(u) == IF u.kind = "stage" THEN [u EXCEPT !.kind = "stale"] ELSE u
           others == Viewer!SteppedPast
           asked == {Viewer!Use(m, "stage", 0)}
           first == IF m \in nodes THEN {} ELSE asked
           all == new \cup first
<1>1. CallsTyped /\ PanelsTyped /\ GalleryTyped /\ Viewer!SpentOnce
  BY ViewerTypes DEF ViewerInv
<1>2. \A u \in uses : /\ past(u) \in AUse /\ past(u).file = u.file /\ past(u).from = u.from
                      /\ past(u).kind # "stage"
                      /\ past(u).kind \in {"preview", "prefetch"} => past(u).kind = u.kind
  BY <1>1 DEF CallsTyped, AUse, Viewer!Kinds
<1>3. others = {past(u) : u \in uses}
  BY DEF Viewer!SteppedPast
<1> HIDE DEF past, others
<1>4. /\ others \subseteq AUse /\ \A v \in others : v.kind # "stage"
      /\ \A n \in busy : \E v \in others : v.file = n
  BY <1>2, <1>3 DEF ViewerInv, Viewer!BarsTrue
<1>5. \A v \in others : /\ v.kind = "preview" => v.file \in Previewable
                        /\ v.kind = "prefetch" => v.from \in 1 .. MaxOpens
  BY <1>2, <1>3 DEF ViewerInv, UseInv
<1>6. /\ m \in Viewer!Members /\ Viewer!Use(m, "stage", 0) \in AUse
      /\ Viewer!Use(m, "stage", 0).kind = "stage" /\ Viewer!Use(m, "stage", 0).file = m
  BY UseTyped, ViewerConstants DEF Viewer!Kinds
<1>7. all \subseteq AUse /\ \A v \in first : v.kind = "stage" /\ v.file = m
  BY <1>6
<1>8. /\ item' = m /\ error' = FALSE /\ view' = IF m \in nodes THEN m ELSE 0
      /\ Viewer!Begin(all, others, busy, done)
  BY DEF Viewer!ShowItem, Viewer!NoItem, others
<1>9. m \notin nodes => Viewer!Use(m, "stage", 0) \in all
  OBVIOUS
<1>10. \A v \in all : v \in new \/ v \in first
  OBVIOUS
<1> HIDE DEF all, first, asked
<1>11. busy \subseteq Viewer!Members /\ done \subseteq Viewer!Members
  BY <1>1 DEF CallsTyped
<1>12. /\ CallsTyped' /\ Viewer!SpentOnce'
       /\ others \subseteq uses'
       /\ \A u \in uses' : u \in others \/ \E v \in all : Same(u, v)
       /\ \A v \in all : \E u \in uses' : Same(u, v)
       /\ \A n \in busy' : \E u \in uses' : u.file = n
       /\ done' \subseteq done
  <2>1. CallsTyped /\ Viewer!SpentOnce /\ failures' = failures
    BY <1>1
  <2> QED
    BY ONLY <2>1, <1>4, <1>7, <1>8, <1>11, Begins
<1>13. GalleryTyped'
  BY <1>1, <1>6, <1>8, ViewerConstants DEF GalleryTyped, QueuesTyped
<1>14. UseInv'
  BY <1>4, <1>5, <1>7, <1>8, <1>10, <1>12 DEF UseInv, Same, Aside
<1>15. Viewer!StageShowsItem'
  BY <1>6, <1>8, <1>9, <1>12 DEF Viewer!StageShowsItem, Viewer!NoItem, Same
<1>16. Viewer!BarsTrue'
  BY <1>12 DEF ViewerInv, Viewer!BarsTrue
<1> QED
  BY <1>12, <1>13, <1>14, <1>15, <1>16, ViewerTypes DEF ViewerInv

LEMMA GalleryStep ==
  ASSUME ViewerInv,
         Viewer!OpenGallery \/ Viewer!CloseGallery \/ \E m \in Viewer!Members : Viewer!Step(m)
  PROVE  ViewerInv'
<1>1. CallsTyped /\ PanelsTyped /\ GalleryTyped
  BY ViewerTypes DEF ViewerInv
<1> DEFINE none == {}
<1>2. none \subseteq AUse /\ Aside(none)
  BY DEF Aside
<1>3. CASE Viewer!OpenGallery
  <2> DEFINE k == opens + 1
             m == Viewer!First(Previewable)
             queue == {n \in Previewable \cap Small : ~Viewer!Memoised(n) /\ n # m}
  <2>1. PICK pumped \in SUBSET queue :
           /\ todo' = [todo EXCEPT ![k] = queue \ pumped]
           /\ Viewer!ShowItem(m, {Viewer!Use(n, "prefetch", k) : n \in pumped})
    BY <1>3 DEF Viewer!OpenGallery
  <2> DEFINE new == {Viewer!Use(n, "prefetch", k) : n \in pumped}
  <2>2. /\ opens < MaxOpens /\ Previewable # {} /\ open' = TRUE /\ opens' = k
        /\ UNCHANGED <<failures, panels, kept, zip, building, nodes>>
    BY <1>3 DEF Viewer!OpenGallery, Viewer!archive
  <2>3. k \in 1 .. MaxOpens /\ k \in 0 .. MaxOpens
    BY <1>1, <2>2, ViewerConstants DEF GalleryTyped
  <2>4. m \in Previewable
    BY <2>2, FirstIsOne, ViewerConstants
  <2>5. queue \subseteq Previewable \cap Small
    OBVIOUS
  <2> HIDE DEF k, m, queue
  <2>6. new \subseteq AUse /\ Aside(new)
    <3>1. \A n \in pumped : /\ Viewer!Use(n, "prefetch", k) \in AUse
                            /\ Viewer!Use(n, "prefetch", k).kind = "prefetch"
                            /\ Viewer!Use(n, "prefetch", k).from = k
      BY <2>3, <2>5, UseTyped, ViewerConstants DEF Viewer!Kinds
    <3> QED
      BY <2>3, <3>1 DEF Aside
  <2>7. QueuesTyped'
    BY <1>1, <2>1, <2>2, <2>3, <2>5 DEF GalleryTyped, QueuesTyped
  <2>8. PanelsTyped'
    BY <1>1, <2>2 DEF PanelsTyped
  <2>9. Viewer!ShowItem(m, new)
    BY <2>1
  <2> HIDE DEF new
  <2> QED
    BY <2>2, <2>3, <2>4, <2>6, <2>7, <2>8, <2>9, MovesOn
<1>4. CASE Viewer!CloseGallery
  <2>1. PanelsTyped' /\ GalleryTyped'
    BY <1>1, <1>4 DEF Viewer!CloseGallery, Viewer!archive, PanelsTyped, GalleryTyped
  <2> QED
    BY <1>4, <2>1, CallsStay DEF Viewer!CloseGallery, Viewer!calls
<1>5. ASSUME NEW m \in Viewer!Members, Viewer!Step(m) PROVE ViewerInv'
  <2>1. /\ m \in Previewable /\ Viewer!ShowItem(m, none)
        /\ UNCHANGED <<failures, panels, kept, zip, building, open, nodes, opens, todo>>
    BY <1>5 DEF Viewer!Step, Viewer!archive
  <2>2. PanelsTyped'
    BY <1>1, <2>1 DEF PanelsTyped
  <2>3. QueuesTyped'
    BY <1>1, <2>1 DEF GalleryTyped, QueuesTyped
  <2> HIDE DEF none
  <2> QED
    BY <1>2, <2>1, <2>2, <2>3, MovesOn
<1> QED
  BY <1>3, <1>4, <1>5

(* The latest use of the stage ends: it was for the current item.          *)
LEMMA StageStep ==
  ASSUME ViewerInv, NEW u \in uses, Viewer!StageEnds(u)
  PROVE  ViewerInv'
<1> DEFINE none == {}
           ended == {u}
           d == done \ {u.file}
           b == busy \ {u.file}
<1>1. CallsTyped /\ PanelsTyped /\ GalleryTyped /\ u \in AUse
  BY ViewerTypes DEF ViewerInv, CallsTyped
<1>2. /\ Viewer!Begin(none, Rest(ended), b, d)
      /\ UNCHANGED <<failures, panels, kept, zip, building, open, item, opens, todo>>
      /\ \/ nodes' = nodes \cup {u.file} /\ view' = u.file /\ UNCHANGED error
         \/ error' = TRUE /\ UNCHANGED <<nodes, view>>
  BY DEF Viewer!StageEnds, Viewer!End, Viewer!EndAndBegin, Viewer!archive, Rest
<1>3. u.file \in Previewable /\ u.file = item
  BY DEF Viewer!StageEnds, ViewerInv, UseInv
<1>4. Fits(none, ended, b, d)
  BY <1>1 DEF Fits, CallsTyped
<1>5. d \subseteq kept
  BY DEF ViewerInv, Viewer!BarsTrue
<1>6. PanelsTyped' /\ GalleryTyped'
  BY <1>1, <1>2, <1>3 DEF PanelsTyped, GalleryTyped, AUse
<1>7. Rest(ended) \subseteq uses /\ \A v \in none : FALSE
  BY DEF Rest
<1> HIDE DEF none, ended, b, d
<1>8. /\ CallsTyped' /\ Viewer!SpentOnce'
      /\ \A v \in uses' : v \in Rest(ended) \/ \E w \in none : Same(v, w)
      /\ \A m \in busy' : \E v \in uses' : v.file = m
      /\ done' \subseteq d
  BY <1>2, <1>4, GoesOn
<1>9. UseInv'
  BY <1>2, <1>7, <1>8 DEF ViewerInv, UseInv
<1>10. Viewer!StageShowsItem'
  <2>1. view # 0 => view = item
    BY DEF ViewerInv, Viewer!StageShowsItem, Viewer!NoItem
  <2> QED
    BY <1>2, <1>3, <2>1 DEF Viewer!StageShowsItem, Viewer!NoItem
<1>11. Viewer!BarsTrue'
  BY <1>2, <1>5, <1>8 DEF Viewer!BarsTrue
<1> QED
  BY <1>6, <1>8, <1>9, <1>10, <1>11, ViewerTypes DEF ViewerInv

LEMMA PumpStep ==
  ASSUME ViewerInv, NEW u \in uses, Viewer!PumpGoesOn(u)
  PROVE  ViewerInv'
<1> DEFINE ok == FALSE
<1>1. PanelsTyped /\ GalleryTyped /\ u \in AUse
  BY ViewerTypes DEF ViewerInv, CallsTyped
<1>2. /\ u.kind = "prefetch" /\ u.kind # "stage" /\ u.from \in 1 .. MaxOpens
      /\ UNCHANGED <<failures, panels, kept, zip, building, open, item, view, error, nodes, opens>>
  BY DEF Viewer!PumpGoesOn, Viewer!archive, ViewerInv, UseInv
<1>3. u.from \in 0 .. MaxOpens
  BY <1>1 DEF AUse
<1>4. PICK new : /\ Viewer!EndAndBegin(u, ok, new) /\ new \subseteq AUse /\ Aside(new)
                 /\ todo' \in [1 .. MaxOpens -> SUBSET (Previewable \cap Small)]
  <2> DEFINE none == {}
  <2>1. CASE Viewer!EndAndBegin(u, ok, none) /\ UNCHANGED todo
    <3>1. none \subseteq AUse /\ Aside(none)
      BY DEF Aside
    <3> QED
      BY <1>1, <2>1, <3>1 DEF GalleryTyped
  <2>2. ASSUME NEW m \in todo[u.from], todo' = [todo EXCEPT ![u.from] = @ \ {m}],
               Viewer!EndAndBegin(u, ok, {Viewer!Use(m, "prefetch", u.from)})
        PROVE  \E new : /\ Viewer!EndAndBegin(u, ok, new) /\ new \subseteq AUse /\ Aside(new)
                        /\ todo' \in [1 .. MaxOpens -> SUBSET (Previewable \cap Small)]
    <3> DEFINE v == Viewer!Use(m, "prefetch", u.from)
    <3>1. m \in Viewer!Members
      BY <1>1, <1>2, ViewerConstants DEF GalleryTyped
    <3>2. v \in AUse /\ v.kind = "prefetch" /\ v.from = u.from
      BY <1>3, <3>1, UseTyped DEF Viewer!Kinds
    <3>3. todo' \in [1 .. MaxOpens -> SUBSET (Previewable \cap Small)]
      BY <1>1, <1>2, <2>2 DEF GalleryTyped
    <3>4. Viewer!EndAndBegin(u, ok, {v})
      BY <2>2
    <3> HIDE DEF v
    <3>5. {v} \subseteq AUse /\ Aside({v})
      BY <1>2, <3>2 DEF Aside
    <3> QED
      BY <3>3, <3>4, <3>5
  <2> QED
    BY <2>1, <2>2 DEF Viewer!PumpGoesOn, Viewer!End
<1>5. PanelsTyped' /\ GalleryTyped'
  BY <1>1, <1>2, <1>4 DEF PanelsTyped, GalleryTyped
<1>6. ok \in BOOLEAN /\ ~ok
  OBVIOUS
<1> HIDE DEF ok
<1> QED
  BY <1>2, <1>4, <1>5, <1>6, EndsWorked

LEMMA ViewerStep ==
  ASSUME ViewerInv, Viewer!Next
  PROVE  ViewerInv'
BY RowStep, FetchStep, RenderStep, RowEnds, ZipStep, GalleryStep, StageStep, PumpStep
   DEF Viewer!Next, Viewer!User, Viewer!UseGoesOn

LEMMA ViewerInit == BrowserInit => ViewerInv
<1> SUFFICES ASSUME Viewer!Init PROVE ViewerInv
  BY DEF BrowserInit
<1>1. CallsTyped /\ PanelsTyped
  BY ViewerConstants DEF Viewer!Init, CallsTyped, PanelsTyped
<1>2. GalleryTyped
  <2>1. todo = [k \in 1 .. MaxOpens |-> {}] /\ opens \in 0 .. MaxOpens
    BY ViewerConstants DEF Viewer!Init
  <2>2. todo \in [1 .. MaxOpens -> SUBSET (Previewable \cap Small)]
    BY <2>1
  <2> QED
    BY <2>1, <2>2 DEF Viewer!Init, Viewer!NoItem, GalleryTyped
<1>3. UseInv /\ Viewer!StageShowsItem /\ Viewer!BarsTrue
  BY DEF Viewer!Init, Viewer!NoItem, UseInv, Viewer!StageShowsItem, Viewer!BarsTrue
<1>4. Viewer!SpentOnce
  BY DEF Viewer!Init, Viewer!SpentOnce
<1> QED
  BY <1>1, <1>2, <1>3, <1>4, ViewerTypes DEF ViewerInv

FilesInv == part = "viewer" => ViewerInv

LEMMA FilesStep == FilesInv /\ [BrowserNext]_client => FilesInv'
<1> SUFFICES ASSUME FilesInv, [BrowserNext]_client, part = "viewer" PROVE FilesInv'
  BY DEF FilesInv, BrowserNext, Others, client
<1>1. Viewer!Next \/ UNCHANGED viewerVars
  BY DEF BrowserNext, client
<1>2. ASSUME UNCHANGED viewerVars PROVE ViewerInv'
  <2>1. /\ UNCHANGED <<plainCache, fetched, failures, uses, busy, done, kept>>
        /\ UNCHANGED <<item, view, error>>
        /\ UNCHANGED <<panels, zip, building, open, nodes, opens, todo>>
    BY <1>2 DEF viewerVars
  <2>2. PanelsTyped' /\ GalleryTyped'
    BY <2>1, ViewerTypes DEF FilesInv, ViewerInv, PanelsTyped, GalleryTyped
  <2> QED
    BY <2>1, <2>2, CallsStay DEF FilesInv
<1> QED
  BY <1>1, <1>2, ViewerStep DEF FilesInv

(* However previews, downloads, the gallery with its prefetching and an    *)
(* archive race for the files of a list, a file is fetched anew only after *)
(* a fetch that failed, the stage shows the current item or nothing, and a *)
(* full bar is of a file that was handed over.                             *)
THEOREM FilesAreShared == BrowserSpec => []FilesShared
<1>1. BrowserInit => FilesInv
  BY ViewerInit DEF FilesInv
<1>2. FilesInv => FilesShared
  BY DEF FilesInv, ViewerInv, FilesShared
<1> QED
  BY <1>1, <1>2, FilesStep, PTL DEF BrowserSpec

-----------------------------------------------------------------------------
(* The walk through a strange file.                                        *)

(* Every level ends before all those above it go on, and nothing is left   *)
(* to be read before what was read last.                                   *)
Frames == [at : Nat, end : 0 .. Units, depth : 0 .. MAX_DEPTH, entries : BOOLEAN]
Ahead(s, to) == \A i \in 1 .. Len(s) : s[i].at >= to
Nested(s) == \A i, j \in 1 .. Len(s) : i < j => s[j].end <= s[i].at

WalkInv ==
    /\ stack \in Seq(Frames) /\ budget \in 0 .. BUDGET /\ readTo \in 0 .. Units
    /\ Ahead(stack, readTo) /\ Nested(stack)

(* Once the walk is over the player has what was found, and it gives up on *)
(* a file only for what is missing.                                        *)
PlayerInv ==
    /\ found \subseteq {"video", "sound"} /\ kind \in {"video", "audio"}
    /\ picture \in Walk!Pictures
    /\ player \in {"sniffing", "loaded", "ready", "running", "explained"}
    /\ player # "sniffing" => stack = <<>>
    /\ Walk!SilenceExplained

LEMMA WalkConstants == Units \in Nat /\ BUDGET \in Nat /\ MAX_DEPTH \in Nat
BY BrowserAssumption DEF Walk!WalkAssumption

LEMMA FrameFields ==
  /\ \A f \in Frames : f.at \in Nat /\ f.end \in 0 .. Units /\ f.end \in Nat /\ f.depth \in 0 .. MAX_DEPTH
  /\ \A f \in Frames, by \in Nat : LET g == [f EXCEPT !.at = @ + by]
                                  IN  g \in Frames /\ g.at = f.at + by /\ g.end = f.end
  /\ \A start \in Nat, end \in 0 .. Units, depth \in 0 .. MAX_DEPTH, e \in BOOLEAN :
        LET g == Walk!Frame(start, end, depth, e)
        IN  g \in Frames /\ g.at = start /\ g.end = end
<1>1. \A f \in Frames : f.at \in Nat /\ f.end \in 0 .. Units /\ f.end \in Nat /\ f.depth \in 0 .. MAX_DEPTH
  BY WalkConstants DEF Frames
<1>2. ASSUME NEW f \in Frames, NEW by \in Nat
      PROVE  LET g == [f EXCEPT !.at = @ + by]
             IN  g \in Frames /\ g.at = f.at + by /\ g.end = f.end
  <2>1. f.at + by \in Nat
    BY <1>1
  <2> QED
    BY <2>1 DEF Frames
<1>3. ASSUME NEW start \in Nat, NEW end \in 0 .. Units, NEW depth \in 0 .. MAX_DEPTH, NEW e \in BOOLEAN
      PROVE  LET g == Walk!Frame(start, end, depth, e)
             IN  g \in Frames /\ g.at = start /\ g.end = end
  BY DEF Frames, Walk!Frame
<1> QED
  BY <1>1, <1>2, <1>3

LEMMA FurtherAhead ==
  ASSUME NEW s, NEW a, NEW b, s \in Seq(Frames), a \in Nat, b \in Nat, a <= b, Ahead(s, b)
  PROVE  Ahead(s, a)
<1>1. \A i \in 1 .. Len(s) : s[i] \in Frames
  BY ElementOfSeq
<1>2. \A i \in 1 .. Len(s) : s[i].at \in Nat
  BY <1>1, FrameFields
<1> QED
  BY <1>2 DEF Ahead

(* What is left of a stack when its top goes, or is replaced.              *)
LEMMA StackTop ==
  ASSUME WalkInv, stack # <<>>
  PROVE  /\ Len(stack) \in Nat \ {0} /\ Walk!Top = stack[Len(stack)] /\ Walk!Top \in Frames
         /\ Walk!Front(stack) \in Seq(Frames) /\ Len(Walk!Front(stack)) = Len(stack) - 1
         /\ \A i \in 1 .. Len(stack) - 1 : /\ Walk!Front(stack)[i] = stack[i]
                                           /\ stack[i].at >= Walk!Top.end
<1>1. stack \in Seq(Frames) /\ Len(stack) \in Nat \ {0}
  BY DEF WalkInv
<1>2. Walk!Top = stack[Len(stack)] /\ Walk!Top \in Frames
  BY <1>1 DEF Walk!Top, Walk!Last
<1>3. /\ Walk!Front(stack) \in Seq(Frames) /\ Len(Walk!Front(stack)) = Len(stack) - 1
      /\ \A i \in 1 .. Len(stack) - 1 : Walk!Front(stack)[i] = stack[i]
  <2>1. \A i \in 1 .. Len(stack) - 1 : stack[i] \in Frames
    BY <1>1
  <2>2. Len(stack) - 1 \in Int /\ 1 \in Int
    BY <1>1
  <2> DEFINE f == SubSeq(stack, 1, Len(stack) - 1)
  <2>3. /\ f \in Seq(Frames)
        /\ Len(f) = IF 1 <= Len(stack) - 1 THEN Len(stack) - 1 - 1 + 1 ELSE 0
        /\ \A i \in 1 .. Len(stack) - 1 - 1 + 1 : f[i] = stack[1 + i - 1]
    BY <2>1, <2>2, SubSeqProperties
  <2>4. Walk!Front(stack) = f
    BY DEF Walk!Front
  <2> HIDE DEF f
  <2> QED
    BY <1>1, <2>3, <2>4
<1>4. \A i \in 1 .. Len(stack) - 1 : stack[i].at >= Walk!Top.end
  <2>1. \A i \in 1 .. Len(stack) - 1 : stack[Len(stack)].end <= stack[i].at
    BY <1>1 DEF WalkInv, Nested
  <2>2. \A i \in 1 .. Len(stack) : stack[i] \in Frames
    BY <1>1
  <2>3. \A f \in Frames : f.at \in Nat /\ f.end \in Nat
    BY WalkConstants DEF Frames
  <2>4. \A i \in 1 .. Len(stack) : stack[i].at \in Nat /\ stack[i].end \in Nat
    BY <2>2, <2>3
  <2> QED
    BY <1>1, <1>2, <2>1, <2>4
<1> QED
  BY <1>1, <1>2, <1>3, <1>4

(* One frame more, on a stack that ends before it.                         *)
LEMMA Pushed ==
  ASSUME NEW s, NEW f, NEW to, s \in Seq(Frames), f \in Frames, to \in Nat,
         Ahead(s, to), Nested(s), f.at >= to, \A i \in 1 .. Len(s) : f.end <= s[i].at
  PROVE  Append(s, f) \in Seq(Frames) /\ Ahead(Append(s, f), to) /\ Nested(Append(s, f))
<1> DEFINE a == Append(s, f)
<1>1. /\ a \in Seq(Frames) /\ Len(s) \in Nat /\ Len(a) = Len(s) + 1
      /\ \A i \in 1 .. Len(s) : a[i] = s[i]
      /\ a[Len(s) + 1] = f
  OBVIOUS
<1> HIDE DEF a
<1>2. Ahead(a, to)
  BY <1>1 DEF Ahead
<1>3. Nested(a)
  <2> SUFFICES ASSUME NEW i \in 1 .. Len(a), NEW j \in 1 .. Len(a), i < j
               PROVE  a[j].end <= a[i].at
    BY DEF Nested
  <2>1. i \in 1 .. Len(s)
    BY <1>1
  <2>2. CASE j = Len(s) + 1
    BY <1>1, <2>1, <2>2
  <2>3. CASE j # Len(s) + 1
    <3>1. j \in 1 .. Len(s)
      BY <1>1, <2>3
    <3> QED
      BY <1>1, <2>1, <3>1 DEF Nested
  <2> QED
    BY <2>2, <2>3
<1> QED
  BY <1>1, <1>2, <1>3 DEF a

LEMMA WalkStep ==
  ASSUME WalkInv, Walk!Next
  PROVE  WalkInv'
<1> USE WalkConstants
<1> DEFINE top == Walk!Top
           front == Walk!Front(stack)
           n == Len(stack)
<1>1. ASSUME stack # <<>>
      PROVE  /\ n \in Nat \ {0} /\ top = stack[n] /\ top \in Frames
             /\ top.at \in Nat /\ top.end \in 0 .. Units
             /\ front \in Seq(Frames) /\ Len(front) = n - 1
             /\ \A i \in 1 .. n - 1 : /\ front[i] = stack[i] /\ stack[i].at >= top.end
                                      /\ stack[i].at \in Nat
             /\ Nested(front) /\ Ahead(front, top.end) /\ Ahead(front, readTo)
  <2>1. /\ n \in Nat \ {0} /\ top = stack[n] /\ top \in Frames
        /\ front \in Seq(Frames) /\ Len(front) = n - 1
        /\ \A i \in 1 .. n - 1 : front[i] = stack[i] /\ stack[i].at >= top.end
    BY <1>1, StackTop
  <2> HIDE DEF top, front
  <2>2. \A i \in 1 .. n - 1 : stack[i].at \in Nat
    <3>1. stack \in Seq(Frames)
      BY DEF WalkInv
    <3>2. \A i \in 1 .. n : stack[i] \in Frames
      BY <3>1
    <3>3. \A f \in Frames : f.at \in Nat
      BY FrameFields
    <3> QED
      BY <2>1, <3>2, <3>3
  <2>3. Nested(front) /\ Ahead(front, top.end) /\ Ahead(front, readTo)
    BY <2>1 DEF WalkInv, Nested, Ahead
  <2> QED
    BY <2>1, <2>2, <2>3, FrameFields
<1> HIDE DEF top, front
<1>0. ASSUME stack # <<>>
      PROVE  n \in Nat \ {0} /\ top.at \in Nat /\ top.end \in 0 .. Units /\ top.end \in Nat
  <2>1. n \in Nat \ {0} /\ top \in Frames
    BY <1>0, <1>1
  <2> QED
    BY <2>1, FrameFields
<1>2. readTo \in 0 .. Units /\ budget \in 0 .. BUDGET
  BY DEF WalkInv
<1>3. CASE stack = <<>>
  BY <1>3 DEF WalkInv, Walk!Next, Walk!WalkBox, Walk!SampleEntry, Walk!WalkEnds, Walk!More,
     Walk!Show, Walk!Error, Walk!Metadata, Walk!TimeUpdate, Walk!Goes
<1>4. CASE Walk!WalkEnds
  BY <1>1, <1>2, <1>4 DEF Walk!WalkEnds, WalkInv, front
<1>5. ASSUME Walk!More, NEW h \in Walk!Headers, Walk!Read(h), stack' = front
      PROVE  WalkInv'
  <2>1. /\ stack # <<>> /\ top.at + 2 <= top.end /\ budget > 0
        /\ budget' = budget - 1 /\ readTo' = top.at + 2
    BY <1>5 DEF Walk!More, Walk!Read, Walk!HEAD, top
  <2>2. Ahead(front, top.at + 2)
    <3>1. top.at + 2 \in Nat /\ top.end \in Nat
      BY <1>0, <2>1
    <3>2. front \in Seq(Frames) /\ Ahead(front, top.end)
      BY <1>1, <2>1
    <3> QED
      BY <2>1, <3>1, <3>2, FurtherAhead
  <2> QED
    BY <1>1, <1>2, <1>5, <2>1, <2>2 DEF WalkInv
(* The top moves on, past the header at least.                             *)
<1>6. ASSUME Walk!More, NEW h \in Walk!Headers, Walk!Read(h), NEW by \in Nat, by >= 2
      PROVE  LET over == [top EXCEPT !.at = @ + by]
                 rest == Append(front, over)
             IN  /\ rest \in Seq(Frames) /\ Ahead(rest, readTo') /\ Nested(rest)
                 /\ Len(rest) = n /\ rest[n] = over /\ \A i \in 1 .. n - 1 : rest[i] = stack[i]
                 /\ \A i \in 1 .. n : rest[i].at >= top.at + by \/ rest[i].at >= top.end
                 /\ readTo' \in 0 .. Units /\ budget' \in 0 .. BUDGET /\ readTo' = top.at + 2
  <2> DEFINE over == [top EXCEPT !.at = @ + by]
             rest == Append(front, over)
  <2>1. /\ stack # <<>> /\ top.at + 2 <= top.end /\ budget > 0
        /\ budget' = budget - 1 /\ readTo' = top.at + 2
    BY <1>6 DEF Walk!More, Walk!Read, Walk!HEAD, top
  <2>2. over \in Frames /\ over.at = top.at + by /\ over.end = top.end
    BY <1>1, <1>6, <2>1, FrameFields
  <2> HIDE DEF over
  <2>3. /\ readTo' \in Nat /\ readTo' \in 0 .. Units /\ budget' \in 0 .. BUDGET
        /\ over.at >= readTo' /\ readTo' <= top.end
    BY <1>0, <1>2, <1>6, <2>1, <2>2
  <2>7. /\ \A i \in 1 .. Len(front) : over.end <= front[i].at
        /\ Ahead(front, readTo')
    <3>1. \A i \in 1 .. Len(front) : over.end <= front[i].at
      <4>1. \A i \in 1 .. n - 1 : front[i].at >= top.end /\ front[i].at \in Nat
        BY <1>1, <2>1
      <4>2. Len(front) = n - 1 /\ top.end \in Nat
        BY <1>0, <1>1, <2>1
      <4> QED
        BY <2>2, <4>1, <4>2
    <3>2. front \in Seq(Frames) /\ Ahead(front, top.end) /\ top.end \in Nat
      BY <1>0, <1>1, <2>1
    <3> QED
      BY <2>3, <3>1, <3>2, FurtherAhead
  <2>4. rest \in Seq(Frames) /\ Ahead(rest, readTo') /\ Nested(rest)
    BY <1>1, <2>1, <2>2, <2>3, <2>7, Pushed
  <2>5. Len(rest) = n /\ rest[n] = over /\ \A i \in 1 .. n - 1 : rest[i] = stack[i]
    BY <1>1, <2>1, <2>2
  <2>6. \A i \in 1 .. n : rest[i].at >= top.at + by \/ rest[i].at >= top.end
    <3>1. \A i \in 1 .. n : i = n \/ i \in 1 .. n - 1
      BY <1>0, <2>1
    <3>2. \A i \in 1 .. n - 1 : rest[i].at >= top.end
      BY <1>1, <2>1, <2>5
    <3>3. rest[n].at = top.at + by /\ top.at + by \in Nat
      BY <1>0, <1>6, <2>1, <2>2, <2>5
    <3> HIDE DEF rest
    <3> QED
      BY <3>1, <3>2, <3>3
  <2> QED
    BY <2>1, <2>3, <2>4, <2>5, <2>6 DEF over
<1>7. CASE Walk!SampleEntry
  <2>1. PICK h \in Walk!Headers :
           /\ Walk!More /\ Walk!Read(h)
           /\ stack' = IF h.size < 2 THEN front ELSE [stack EXCEPT ![n].at = @ + h.size]
    BY <1>7 DEF Walk!SampleEntry, Walk!HEAD, front
  <2>2. CASE h.size < 2
    BY <1>5, <2>1, <2>2
  <2>3. CASE ~(h.size < 2)
    <3> DEFINE over == [top EXCEPT !.at = @ + h.size]
               rest == Append(front, over)
    <3>1. stack # <<>> /\ h.size \in Nat /\ h.size >= 2
      BY <2>1, <2>3 DEF Walk!More, Walk!Headers
    <3>2. /\ rest \in Seq(Frames) /\ Ahead(rest, readTo') /\ Nested(rest)
          /\ Len(rest) = n /\ rest[n] = over /\ \A i \in 1 .. n - 1 : rest[i] = stack[i]
          /\ readTo' \in 0 .. Units /\ budget' \in 0 .. BUDGET
      BY <1>6, <2>1, <3>1
    <3>3. stack' = rest
      <4>1. stack' = [stack EXCEPT ![n].at = @ + h.size]
        BY <2>1, <2>3
      <4>2. stack \in Seq(Frames)
        BY DEF WalkInv
      <4>3. over = [stack[n] EXCEPT !.at = @ + h.size]
        BY <1>1, <3>1
      <4> HIDE DEF over, rest
      <4>4. stack' \in Seq(Frames) /\ Len(stack') = n
            /\ stack'[n] = over /\ \A i \in 1 .. n - 1 : stack'[i] = stack[i]
        <5>1. n \in Nat \ {0} /\ over \in Frames
          <6>1. rest \in Seq(Frames) /\ Len(rest) = n /\ n \in Nat \ {0} /\ rest[n] = over
            BY <1>1, <3>1, <3>2
          <6> QED
            BY <6>1
        <5>2. stack' = [stack EXCEPT ![n] = over]
          BY <4>1, <4>3
        <5> QED
          BY <4>2, <5>1, <5>2
      <4>5. \A i \in 1 .. n : stack'[i] = rest[i]
        <5>1. n \in Nat \ {0}
          BY <1>1, <3>1
        <5>2. \A i \in 1 .. n : i = n \/ i \in 1 .. n - 1
          BY <5>1
        <5> QED
          BY <3>2, <4>4, <5>2
      <4> QED
        BY <3>2, <4>4, <4>5, SeqEqual
    <3> HIDE DEF over, rest
    <3> QED
      BY <3>2, <3>3 DEF WalkInv
  <2> QED
    BY <2>2, <2>3
<1>8. CASE Walk!WalkBox
  <2>1. PICK h \in Walk!Headers :
           /\ Walk!More /\ Walk!Read(h)
           /\ IF Walk!Nonsense(h) THEN stack' = front
              ELSE LET over == [top EXCEPT !.at = @ + Walk!BoxSize(h)]
                       upto == Walk!Smaller(top.at + Walk!BoxSize(h), top.end)
                       body == top.at + Walk!HeadLen(h)
                       rest == Append(front, over)
                   IN stack' = CASE h.type = "stsd" ->
                                      Append(rest, Walk!Frame(body + 2, upto, top.depth, TRUE))
                                 [] h.type = "parent" /\ top.depth < MAX_DEPTH ->
                                      Append(rest, Walk!Frame(body, upto, top.depth + 1, FALSE))
                                 [] OTHER -> rest
    BY <1>8 DEF Walk!WalkBox, front, top
  <2>2. CASE Walk!Nonsense(h)
    BY <1>5, <2>1, <2>2
  <2>3. CASE ~Walk!Nonsense(h)
    <3> DEFINE by == Walk!BoxSize(h)
               len == Walk!HeadLen(h)
               over == [top EXCEPT !.at = @ + by]
               upto == Walk!Smaller(top.at + by, top.end)
               rest == Append(front, over)
    <3>1. stack # <<>> /\ top.at + 2 <= top.end
      BY <2>1 DEF Walk!More, Walk!HEAD, top
    <3>2. by \in Nat /\ len \in {2, 4} /\ by >= len
      <4>1. by \in Int /\ len \in {2, 4}
        BY <1>1, <3>1 DEF Walk!BoxSize, Walk!HeadLen, Walk!Headers, Walk!HEAD, Walk!WIDE, top
      <4>2. ~(by < len)
        BY <2>3 DEF Walk!Nonsense
      <4> HIDE DEF by, len
      <4> QED
        BY <4>1, <4>2
    <3> HIDE DEF by, len
    <3>3. /\ rest \in Seq(Frames) /\ Ahead(rest, readTo') /\ Nested(rest)
          /\ Len(rest) = n
          /\ \A i \in 1 .. n : rest[i].at >= top.at + by \/ rest[i].at >= top.end
          /\ readTo' \in 0 .. Units /\ budget' \in 0 .. BUDGET /\ readTo' = top.at + 2
      <4>1. by \in Nat /\ by >= 2
        BY <3>2
      <4>2. Walk!More /\ Walk!Read(h)
        BY <2>1
      <4> QED
        BY ONLY <1>6, <4>1, <4>2
    <3> HIDE DEF rest
    <3>4. upto \in 0 .. Units /\ upto <= top.at + by /\ upto <= top.end
      BY <1>0, <3>1, <3>2 DEF Walk!Smaller
    <3> HIDE DEF upto
    <3>5. \A i \in 1 .. Len(rest) : upto <= rest[i].at
      <4>1. \A i \in 1 .. n : rest[i] \in Frames
        BY <3>3
      <4>2. \A i \in 1 .. n : rest[i].at \in Nat
        BY <4>1, FrameFields
      <4>3. top.at + by \in Nat /\ top.end \in Nat /\ upto \in Nat /\ Len(rest) = n
        BY <1>0, <3>1, <3>2, <3>3, <3>4
      <4>4. \A i \in 1 .. n : rest[i].at >= top.at + by \/ rest[i].at >= top.end
        BY <3>3
      <4> QED
        BY <3>4, <4>2, <4>3, <4>4
    <3>6. ASSUME NEW f \in Frames, f.end = upto, f.at >= readTo', stack' = Append(rest, f)
          PROVE  WalkInv'
      <4>1. readTo' \in Nat /\ \A i \in 1 .. Len(rest) : f.end <= rest[i].at
        BY <3>3, <3>5, <3>6
      <4>2. Append(rest, f) \in Seq(Frames) /\ Ahead(Append(rest, f), readTo')
            /\ Nested(Append(rest, f))
        BY <3>3, <3>6, <4>1, Pushed
      <4> QED
        BY <3>3, <3>6, <4>2 DEF WalkInv
    <3>7. CASE stack' = rest
      BY <3>3, <3>7 DEF WalkInv
    <3>0. /\ top.at \in Nat /\ top.depth \in 0 .. MAX_DEPTH
          /\ readTo' = top.at + 2 /\ upto \in 0 .. Units
      BY <1>1, <3>1, <3>3, <3>4, FrameFields
    <3>8. ASSUME NEW start, NEW depth, NEW e \in BOOLEAN, depth \in 0 .. MAX_DEPTH,
                 start = top.at + len \/ start = top.at + len + 2,
                 stack' = Append(rest, Walk!Frame(start, upto, depth, e))
          PROVE  WalkInv'
      <4> DEFINE f == Walk!Frame(start, upto, depth, e)
      <4>1. start \in Nat /\ start >= readTo'
        BY <3>0, <3>2, <3>8
      <4>2. f \in Frames /\ f.end = upto /\ f.at = start
        BY <3>0, <3>8, <4>1, FrameFields
      <4> HIDE DEF f
      <4>3. f.at >= readTo'
        BY <4>1, <4>2
      <4> QED
        BY <3>6, <3>8, <4>2, <4>3 DEF f
    <3>9. top.depth < MAX_DEPTH => top.depth + 1 \in 0 .. MAX_DEPTH
      BY <3>0, WalkConstants
    <3>10. CASE stack' = Append(rest, Walk!Frame(top.at + len + 2, upto, top.depth, TRUE))
      BY <3>0, <3>8, <3>10
    <3>11. CASE /\ top.depth < MAX_DEPTH
                /\ stack' = Append(rest, Walk!Frame(top.at + len, upto, top.depth + 1, FALSE))
      BY <3>8, <3>9, <3>11
    <3> QED
      BY <2>1, <2>3, <3>7, <3>10, <3>11 DEF by, len, upto, rest
  <2> QED
    BY <2>2, <2>3
<1> QED
  BY <1>3, <1>4, <1>7, <1>8 DEF Walk!Next, Walk!Show, Walk!Error, Walk!Metadata, Walk!TimeUpdate, Walk!Goes

(* The player is shown a file when the walk is over, which found what it    *)
(* found by then.                                                          *)
LEMMA PlayerStep ==
  ASSUME PlayerInv, Walk!Next
  PROVE  PlayerInv'
<1> USE DEF PlayerInv, Walk!SilenceExplained, Walk!Watched
<1>1. CASE Walk!WalkBox \/ Walk!WalkEnds
  <2>1. stack # <<>> /\ UNCHANGED <<found, kind, picture, player>>
    BY <1>1 DEF Walk!WalkBox, Walk!WalkEnds, Walk!More, Walk!Read
  <2> QED
    BY <2>1
<1>2. CASE Walk!SampleEntry
  <2>1. PICK h \in Walk!Headers :
           /\ stack # <<>> /\ UNCHANGED <<kind, picture, player>>
           /\ found' = found \cup ({h.type} \cap {"video", "sound"})
    BY <1>2 DEF Walk!SampleEntry, Walk!More, Walk!Read
  <2> QED
    BY <2>1
<1>3. CASE Walk!Show
  BY <1>3 DEF Walk!Show, Walk!Goes
<1>4. CASE Walk!Error
  BY <1>4 DEF Walk!Error, Walk!Goes
<1>5. CASE Walk!Metadata
  BY <1>5 DEF Walk!Metadata, Walk!Goes, Walk!Width0
<1>6. CASE Walk!TimeUpdate
  <2>1. /\ stack = <<>> /\ player = "ready" /\ UNCHANGED <<stack, found, kind, picture>>
        /\ player' = IF Walk!Watched /\ Walk!NoFrames THEN "explained" ELSE "running"
    BY <1>6 DEF Walk!TimeUpdate, Walk!Goes
  <2> QED
    BY <2>1 DEF Walk!NoFrames
<1> QED
  BY <1>1, <1>2, <1>3, <1>4, <1>5, <1>6 DEF Walk!Next

LEMMA WalkInit == BrowserInit => WalkInv /\ PlayerInv
<1> SUFFICES ASSUME Walk!Init PROVE WalkInv /\ PlayerInv
  BY DEF BrowserInit
<1> USE WalkConstants
<1>1. PlayerInv
  BY DEF Walk!Init, PlayerInv, Walk!SilenceExplained, Walk!Pictures
<1>2. /\ budget \in 0 .. BUDGET /\ readTo \in 0 .. Units /\ readTo = 0
  BY DEF Walk!Init
<1> DEFINE f == Walk!Frame(0, Units, 0, FALSE)
<1>3. f \in Frames /\ f.at = 0
  <2>1. 0 \in Nat /\ Units \in 0 .. Units /\ 0 \in 0 .. MAX_DEPTH /\ FALSE \in BOOLEAN
    OBVIOUS
  <2> QED
    BY <2>1, FrameFields
<1>4. stack = <<f>> \/ stack = <<>>
  BY DEF Walk!Init
<1> HIDE DEF f
<1>5. CASE stack = <<>>
  BY <1>1, <1>2, <1>5 DEF WalkInv, Ahead, Nested
<1>6. CASE stack = <<f>>
  <2>1. stack \in Seq(Frames) /\ Len(stack) = 1 /\ stack[1] = f
    BY <1>3, <1>6
  <2>2. \A i \in 1 .. Len(stack) : i = 1
    BY <2>1
  <2>3. Ahead(stack, readTo)
    BY <1>2, <1>3, <2>1, <2>2 DEF Ahead
  <2>4. Nested(stack)
    BY <2>2 DEF Nested
  <2> QED
    BY <1>1, <1>2, <2>1, <2>3, <2>4 DEF WalkInv
<1> QED
  BY <1>4, <1>5, <1>6

LEMMA WalkBounds ==
  ASSUME WalkInv, PlayerInv
  PROVE  Walk!ReadsForward /\ Walk!SilenceExplained
<1>1. ASSUME stack # <<>> PROVE Walk!Top.at >= readTo
  <2>1. Len(stack) \in Nat \ {0} /\ Walk!Top = stack[Len(stack)]
    BY <1>1, StackTop
  <2> QED
    BY <2>1 DEF WalkInv, Ahead
<1>2. ASSUME NEW i \in DOMAIN stack, i > 1 PROVE stack[i].end <= stack[i - 1].at
  <2>1. i \in 1 .. Len(stack) /\ i - 1 \in 1 .. Len(stack) /\ i - 1 < i
    BY <1>2 DEF WalkInv
  <2> QED
    BY <2>1 DEF WalkInv, Nested
<1> QED
  BY <1>1, <1>2 DEF Walk!ReadsForward, PlayerInv

-----------------------------------------------------------------------------
(* The archive.                                                            *)

Members == [name : NameSet, size : Sizes]

(* The names given out are those of the members so far, no two alike.      *)
GivenInv ==
    /\ zipNames \in Seq(DOMAIN seen) /\ Len(zipNames) <= Len(entries)
    /\ IsFiniteSet(DOMAIN seen) /\ Cardinality(DOMAIN seen) <= Len(zipNames)
    /\ \A m \in DOMAIN seen : seen[m] \in Nat
    /\ \A i, j \in 1 .. Len(zipNames) : zipNames[i] = zipNames[j] => i = j

(* No 32-bit field has wrapped, as long as what was written ends within the *)
(* limit, and the record at the end is about the directory that is there.   *)
TrailerTrue ==
    /\ trailer.at = offset /\ trailer.len = Zip!DirectoryLen
    /\ trailer.count = Zip!Counter(Len(placed))

LaidInv ==
    /\ placed \in Seq([at : Nat, size : Nat]) /\ Len(placed) <= Len(entries)
    /\ central = placed /\ offset \in 0 .. MAX32
    /\ result \in {"building", "built", "too big"}
    /\ result = "built" => /\ Len(zipNames) = Len(placed) /\ Zip!ArchiveLen <= MAX32
                          /\ TrailerTrue

ZipInv ==
    /\ entries \in Seq(Members) /\ Len(entries) <= MaxMembers
    /\ GivenInv /\ LaidInv

LEMMA ZipConstants ==
  /\ \A m \in NameSet : m[2] \in Seq(Nat)
  /\ \A x \in Sizes : x \in Nat
  /\ MaxMembers \in Nat /\ MAX32 \in Nat /\ MAX16 \in Nat
  /\ LOCAL_LEN \in Nat /\ CENTRAL_LEN \in Nat /\ EOCD_LEN \in Nat /\ NAME_LEN \in Nat
BY BrowserAssumption DEF Zip!ZipAssumption

LEMMA NumberedDistinct ==
  ASSUME NEW m, NEW k, NEW l, m[2] \in Seq(Nat), k \in Nat, l \in Nat,
         Zip!Numbered(m, k) = Zip!Numbered(m, l)
  PROVE  k = l
<1>1. Append(m[2], k) = Append(m[2], l)
  BY DEF Zip!Numbered
<1>2. /\ Append(m[2], k)[Len(m[2]) + 1] = k
      /\ Append(m[2], l)[Len(m[2]) + 1] = l
  BY AppendProperties
<1> QED
  BY <1>1, <1>2

(* As many numbers as there may be members are enough to find a free name. *)
LEMMA FreeName ==
  ASSUME GivenInv, NEW m, m[2] \in Seq(Nat), m \in DOMAIN seen, Len(zipNames) < MaxMembers
  PROVE  Zip!FirstFree(m) \in Nat /\ Zip!Numbered(m, Zip!FirstFree(m)) \notin DOMAIN seen
<1> DEFINE a == seen[m] + 1
           b == seen[m] + 1 + MaxMembers
           free == {n \in a .. b : Zip!Numbered(m, n) \notin DOMAIN seen}
<1>1. a \in Nat /\ b = a + MaxMembers /\ MaxMembers \in Nat /\ Len(zipNames) \in Nat
  BY ZipConstants DEF GivenInv
<1> HIDE DEF a, b
<1>2. free # {}
  <2> SUFFICES ASSUME \A n \in a .. b : Zip!Numbered(m, n) \in DOMAIN seen PROVE FALSE
    OBVIOUS
  <2> DEFINE f == [n \in a .. b |-> Zip!Numbered(m, n)]
  <2>1. IsFiniteSet(a .. b) /\ Cardinality(a .. b) = MaxMembers + 1
    <3>1. a \in Int /\ b \in Int /\ ~(a > b) /\ b - a + 1 = MaxMembers + 1
      BY <1>1
    <3> QED
      BY <3>1, FS_Interval
  <2>2. /\ IsFiniteSet(DOMAIN seen) /\ Cardinality(DOMAIN seen) < Cardinality(a .. b)
    <3>1. IsFiniteSet(DOMAIN seen) /\ Cardinality(DOMAIN seen) <= Len(zipNames)
      BY DEF GivenInv
    <3>2. Cardinality(DOMAIN seen) \in Nat
      BY <3>1, FS_CardinalityType
    <3> QED
      BY <1>1, <2>1, <3>1, <3>2
  <2>3. f \in [a .. b -> DOMAIN seen]
    OBVIOUS
  <2>4. PICK k \in a .. b, l \in a .. b : k # l /\ f[k] = f[l]
    <3> DEFINE T == DOMAIN seen
               S == a .. b
    <3>1. IsFiniteSet(T) /\ IsFiniteSet(S) /\ Cardinality(T) < Cardinality(S) /\ f \in [S -> T]
      BY <2>1, <2>2, <2>3
    <3> HIDE DEF f, S, T
    <3>2. \E k, l \in S : k # l /\ f[k] = f[l]
      BY <3>1, FS_PigeonHole
    <3> QED
      BY <3>2 DEF S
  <2>5. k \in Nat /\ l \in Nat /\ Zip!Numbered(m, k) = Zip!Numbered(m, l)
    BY <1>1, <2>4
  <2> QED
    BY <2>4, <2>5, NumberedDistinct
<1>3. PICK n \in free : \A k \in free : n <= k
  <2>1. free \in SUBSET Nat
    BY <1>1
  <2> HIDE DEF free
  <2> QED
    BY <1>2, <2>1, Least
<1>4. /\ n \in a .. b /\ Zip!Numbered(m, n) \notin DOMAIN seen
      /\ \A k \in a .. (n - 1) : Zip!Numbered(m, k) \in DOMAIN seen
  <2>1. n \in a .. b /\ Zip!Numbered(m, n) \notin DOMAIN seen
    OBVIOUS
  <2>2. ASSUME NEW k \in a .. (n - 1) PROVE Zip!Numbered(m, k) \in DOMAIN seen
    <3>1. k \in a .. b /\ ~(n <= k)
      BY <1>1, <2>1
    <3> QED
      BY <1>3, <3>1
  <2> QED
    BY <2>1, <2>2
<1>5. /\ Zip!FirstFree(m) \in a .. b
      /\ Zip!Numbered(m, Zip!FirstFree(m)) \notin DOMAIN seen
  BY <1>4 DEF Zip!FirstFree, a, b
<1> QED
  BY <1>1, <1>5

LEMMA NameGiven ==
  ASSUME GivenInv, NEW m, m[2] \in Seq(Nat), Len(zipNames) < MaxMembers
  PROVE  /\ Zip!Given(m) \notin DOMAIN seen
         /\ DOMAIN Zip!Marked(m) = (DOMAIN seen) \cup {Zip!Given(m)}
         /\ \A x \in DOMAIN Zip!Marked(m) : Zip!Marked(m)[x] \in Nat
<1>1. \A x \in DOMAIN seen : seen[x] \in Nat
  BY DEF GivenInv
<1>2. CASE m \in DOMAIN seen
  <2> DEFINE n == Zip!FirstFree(m)
             g == Zip!Given(m)
  <2>1. n \in Nat /\ g \notin DOMAIN seen
    BY <1>2, FreeName DEF Zip!Given
  <2> HIDE DEF n, g
  <2> DEFINE with == [x \in {m, g} |-> IF x = m THEN n ELSE 1]
             marked == [x \in (DOMAIN seen) \cup (DOMAIN with) |->
                           IF x \in DOMAIN with THEN with[x] ELSE seen[x]]
  <2>2. Zip!Marked(m) = marked
    BY <1>2 DEF Zip!Marked, n, g
  <2>3. DOMAIN marked = (DOMAIN seen) \cup {g}
    BY <1>2
  <2>4. \A x \in DOMAIN marked : marked[x] \in Nat
    BY <1>1, <2>1
  <2> HIDE DEF marked
  <2> QED
    BY <2>1, <2>2, <2>3, <2>4 DEF g
<1>3. CASE m \notin DOMAIN seen
  BY <1>1, <1>3 DEF Zip!Given, Zip!Marked
<1> QED
  BY <1>2, <1>3

LEMMA NameStep ==
  ASSUME ZipInv, Zip!Name
  PROVE  ZipInv'
<1> DEFINE m == entries[Len(zipNames) + 1].name
           g == Zip!Given(m)
<1>1. /\ result = "building" /\ Len(zipNames) < Len(entries)
      /\ zipNames' = Append(zipNames, g) /\ seen' = Zip!Marked(m)
      /\ UNCHANGED <<entries, placed, central, offset, result>>
  BY DEF Zip!Name
<1>2. Len(zipNames) \in Nat /\ Len(entries) \in Nat /\ Len(entries) <= MaxMembers
  BY DEF ZipInv, GivenInv
<1>3. m[2] \in Seq(Nat)
  <2>1. Len(zipNames) + 1 \in 1 .. Len(entries) /\ entries \in Seq(Members)
    BY <1>1, <1>2 DEF ZipInv
  <2>2. entries[Len(zipNames) + 1] \in Members
    BY <2>1
  <2> QED
    BY <2>2, ZipConstants DEF Members
<1> HIDE DEF m
<1>4. /\ g \notin DOMAIN seen /\ DOMAIN seen' = (DOMAIN seen) \cup {g}
      /\ \A x \in DOMAIN seen' : seen'[x] \in Nat
  <2>1. Len(zipNames) < MaxMembers
    BY <1>1, <1>2, ZipConstants
  <2> QED
    BY <1>1, <1>3, <2>1, NameGiven DEF ZipInv
<1> HIDE DEF g
<1> DEFINE old == DOMAIN seen
           new == DOMAIN seen'
           n == Len(zipNames)
<1>5. /\ zipNames \in Seq(old) /\ IsFiniteSet(old) /\ Cardinality(old) <= n
      /\ \A i, j \in 1 .. n : zipNames[i] = zipNames[j] => i = j
  BY DEF ZipInv, GivenInv
<1>6. g \notin old /\ new = old \cup {g}
  BY <1>4
<1> HIDE DEF old, new
<1>7. /\ zipNames' \in Seq(new) /\ Len(zipNames') = n + 1 /\ zipNames'[n + 1] = g
      /\ \A i \in 1 .. n : zipNames'[i] = zipNames[i]
  <2>1. zipNames \in Seq(new) /\ g \in new
    BY <1>5, <1>6, SeqMonotonic
  <2> QED
    BY <1>1, <2>1, AppendProperties
<1>8. IsFiniteSet(new) /\ Cardinality(new) <= n + 1
  <2>1. IsFiniteSet(new) /\ Cardinality(new) = Cardinality(old) + 1
    BY <1>5, <1>6, FS_AddElement
  <2>2. Cardinality(old) \in Nat
    BY <1>5, FS_CardinalityType
  <2> QED
    BY <1>2, <1>5, <2>1, <2>2
<1>9. ASSUME NEW i \in 1 .. n + 1, NEW j \in 1 .. n + 1, zipNames'[i] = zipNames'[j]
      PROVE  i = j
  <2>1. \A k \in 1 .. n : zipNames[k] \in old
    BY <1>5, ElementOfSeq
  <2>2. \A k \in 1 .. n : zipNames'[k] # g
    BY <1>6, <1>7, <2>1
  <2>3. \A k \in 1 .. n + 1 : k = n + 1 \/ k \in 1 .. n
    BY <1>2
  <2> QED
    BY <1>5, <1>7, <1>9, <2>2, <2>3
<1>10. GivenInv'
  <2>1. Len(zipNames') <= Len(entries')
    BY <1>1, <1>2, <1>7
  <2>2. \A i, j \in 1 .. Len(zipNames') : zipNames'[i] = zipNames'[j] => i = j
    BY <1>7, <1>9
  <2> QED
    BY <1>4, <1>7, <1>8, <2>1, <2>2 DEF GivenInv, new
<1>11. LaidInv'
  BY <1>1 DEF ZipInv, LaidInv
<1> QED
  BY <1>1, <1>10, <1>11 DEF ZipInv

LEMMA FieldKeeps ==
  ASSUME NEW x, x \in 0 .. MAX32
  PROVE  Zip!Field(x) = x
<1>1. x \in Nat /\ MAX32 \in Nat /\ x < MAX32 + 1
  BY ZipConstants
<1> QED
  BY <1>1 DEF Zip!Field

LEMMA WriteStep ==
  ASSUME ZipInv, Zip!Write
  PROVE  ZipInv'
<1> DEFINE bytes == entries[Len(placed) + 1].size
           p == [at |-> offset, size |-> bytes]
           P == [at : Nat, size : Nat]
<1>1. /\ result = "building" /\ Len(zipNames) = Len(entries) /\ Len(placed) < Len(entries)
      /\ UNCHANGED <<entries, seen, zipNames>>
      /\ \/ /\ Zip!MemberFits(bytes)
            /\ placed' = Append(placed, p)
            /\ central' = Append(central, [at |-> Zip!Field(offset), size |-> Zip!Field(bytes)])
            /\ offset' = offset + LOCAL_LEN + NAME_LEN + bytes
            /\ UNCHANGED result
         \/ result' = "too big" /\ UNCHANGED <<placed, central, offset>>
  BY DEF Zip!Write
<1>2. /\ placed \in Seq(P) /\ Len(placed) \in Nat /\ Len(entries) \in Nat
      /\ entries \in Seq(Members)
      /\ central = placed /\ offset \in 0 .. MAX32 /\ result' # "built"
  <2>1. placed \in Seq(P) /\ entries \in Seq(Members)
    BY DEF ZipInv, LaidInv
  <2>2. Len(placed) \in Nat /\ Len(entries) \in Nat
    BY <2>1, LenProperties
  <2>3. central = placed /\ offset \in 0 .. MAX32
    BY DEF ZipInv, LaidInv
  <2>4. result' # "built"
    BY <1>1
  <2> QED
    BY <2>1, <2>2, <2>3, <2>4
<1>3. bytes \in Nat
  <2> DEFINE n == Len(placed)
  <2>3. n < Len(entries) /\ n \in Nat /\ Len(entries) \in Nat /\ entries \in Seq(Members)
    BY <1>1, <1>2
  <2> HIDE DEF n
  <2>4. n + 1 \in 1 .. Len(entries)
    BY <2>3
  <2>1. Len(placed) + 1 \in 1 .. Len(entries) /\ entries \in Seq(Members)
    BY <2>3, <2>4 DEF n
  <2>2. entries[Len(placed) + 1] \in Members
    BY <2>1
  <2> QED
    BY <2>2, ZipConstants DEF Members
<1> HIDE DEF bytes
<1>4. GivenInv'
  BY <1>1 DEF ZipInv, GivenInv
<1>5. CASE UNCHANGED <<placed, central, offset>> /\ result' = "too big"
  <2>1. LaidInv'
    BY <1>1, <1>5 DEF ZipInv, LaidInv
  <2> QED
    BY <1>1, <1>4, <2>1 DEF ZipInv
<1>6. CASE /\ Zip!MemberFits(bytes) /\ placed' = Append(placed, p)
           /\ central' = Append(central, [at |-> Zip!Field(offset), size |-> Zip!Field(bytes)])
           /\ offset' = offset + LOCAL_LEN + NAME_LEN + bytes /\ UNCHANGED result
  <2>1. bytes \in 0 .. MAX32 /\ offset' \in 0 .. MAX32
    BY <1>2, <1>3, <1>6, ZipConstants DEF Zip!MemberFits
  <2>2. Zip!Field(offset) = offset /\ Zip!Field(bytes) = bytes
    BY <1>2, <2>1, FieldKeeps
  <2>3. central' = placed'
    BY <1>2, <1>6, <2>2
  <2>4. p \in P
    BY <1>2, <1>3, ZipConstants
  <2> HIDE DEF p, P
  <2>5. placed' \in Seq(P) /\ Len(placed') = Len(placed) + 1
    BY <1>2, <1>6, <2>4, AppendProperties
  <2>6. LaidInv'
    BY <1>1, <1>2, <1>6, <2>1, <2>3, <2>5 DEF ZipInv, LaidInv, P
  <2> QED
    BY <1>1, <1>4, <2>6 DEF ZipInv
<1> QED
  BY <1>1, <1>5, <1>6

LEMMA DirectoryBytes ==
  ASSUME ZipInv
  PROVE  /\ Zip!DirectoryLen \in Nat /\ offset \in 0 .. MAX32 /\ Len(placed) \in Nat
         /\ Zip!ArchiveLen = offset + Zip!DirectoryLen + EOCD_LEN
         /\ Zip!ArchiveLen \in Nat /\ Zip!DirectoryLen <= Zip!ArchiveLen
<1> DEFINE P == [at : Nat, size : Nat]
<1>1. offset \in 0 .. MAX32 /\ central = placed /\ placed \in Seq(P)
  BY DEF ZipInv, LaidInv
<1> HIDE DEF P
<1>2. Len(placed) \in Nat
  BY <1>1, LenProperties
<1>3. Zip!DirectoryLen \in Nat
  BY <1>1, <1>2, ZipConstants DEF Zip!DirectoryLen
<1>4. Zip!ArchiveLen = offset + Zip!DirectoryLen + EOCD_LEN
  BY DEF Zip!ArchiveLen
<1> QED
  BY <1>1, <1>2, <1>3, <1>4, ZipConstants

LEMMA ZipFinishStep ==
  ASSUME ZipInv, Zip!Finish
  PROVE  ZipInv'
<1>1. /\ Len(zipNames) = Len(placed) /\ UNCHANGED <<entries, seen, zipNames, placed, central, offset>>
      /\ Zip!ArchiveLen' = Zip!ArchiveLen /\ Zip!DirectoryLen' = Zip!DirectoryLen
      /\ IF Zip!ArchiveLen > MAX32 THEN result' = "too big"
         ELSE /\ result' = "built"
              /\ trailer' = [count |-> Zip!Counter(Len(central)),
                             len |-> Zip!Field(Zip!DirectoryLen), at |-> Zip!Field(offset)]
  BY DEF Zip!Finish, Zip!ArchiveLen, Zip!DirectoryLen
<1>2. /\ Zip!ArchiveLen \in Nat /\ Zip!DirectoryLen \in Nat /\ offset \in 0 .. MAX32
      /\ Zip!DirectoryLen <= Zip!ArchiveLen
  BY DirectoryBytes
<1>3. ASSUME result' = "built" PROVE Zip!ArchiveLen' <= MAX32 /\ TrailerTrue'
  <2>1. Zip!ArchiveLen <= MAX32
    BY <1>1, <1>2, <1>3, ZipConstants
  <2>2. Zip!Field(Zip!DirectoryLen) = Zip!DirectoryLen /\ Zip!Field(offset) = offset
    <3>1. Zip!DirectoryLen \in 0 .. MAX32
      BY <1>2, <2>1, ZipConstants
    <3> QED
      BY <1>2, <3>1, FieldKeeps
  <2>3. trailer' = [count |-> Zip!Counter(Len(placed)), len |-> Zip!DirectoryLen, at |-> offset]
    <3>1. central = placed
      BY DEF ZipInv, LaidInv
    <3>2. ~(Zip!ArchiveLen > MAX32)
      BY <1>2, <2>1, ZipConstants
    <3>3. trailer' = [count |-> Zip!Counter(Len(central)),
                      len |-> Zip!Field(Zip!DirectoryLen), at |-> Zip!Field(offset)]
      BY <1>1, <3>2
    <3> QED
      BY <2>2, <3>1, <3>3
  <2>4. TrailerTrue'
    BY <1>1, <2>3 DEF TrailerTrue, Zip!Counter
  <2> QED
    BY <1>1, <2>1, <2>4
<1>4. LaidInv'
  <2>1. result' \in {"too big", "built"}
    BY <1>1
  <2> QED
    BY <1>1, <1>3, <2>1 DEF ZipInv, LaidInv
<1>5. GivenInv'
  BY <1>1 DEF ZipInv, GivenInv
<1> QED
  BY <1>1, <1>4, <1>5 DEF ZipInv

LEMMA ArchiveInit == BrowserInit => ZipInv
<1> SUFFICES ASSUME Zip!Init PROVE ZipInv
  BY DEF BrowserInit
<1>1. entries \in Seq(Members) /\ Len(entries) <= MaxMembers
  <2>1. PICK n \in 0 .. MaxMembers : entries \in [1 .. n -> Members]
    BY DEF Zip!Init, Members
  <2>2. n \in Nat /\ n <= MaxMembers
    BY ZipConstants
  <2> QED
    BY <2>1, <2>2
<1>2. Len(entries) \in Nat /\ Len(<<>>) = 0
  BY <1>1
<1>3. GivenInv
  <2>1. DOMAIN seen = {} /\ zipNames = <<>>
    BY DEF Zip!Init
  <2>2. IsFiniteSet(DOMAIN seen) /\ Cardinality(DOMAIN seen) = 0
    BY <2>1, FS_EmptySet
  <2> QED
    BY <1>2, <2>1, <2>2 DEF GivenInv
<1>4. LaidInv
  <2>1. placed = <<>> /\ central = <<>> /\ offset = 0 /\ result = "building"
    BY DEF Zip!Init
  <2> QED
    BY <1>2, <2>1, ZipConstants DEF LaidInv
<1> QED
  BY <1>1, <1>3, <1>4 DEF ZipInv

(* The counter of members is right if and only if it has not wrapped.      *)
LEMMA CounterKeeps ==
  ASSUME NEW x \in Nat
  PROVE  x <= MAX16 <=> Zip!Counter(x) = x
<1>1. MAX16 \in Nat
  BY ZipConstants
<1>2. Zip!Counter(x) \in 0 .. MAX16
  BY <1>1 DEF Zip!Counter
<1>3. ASSUME x <= MAX16 PROVE Zip!Counter(x) = x
  BY <1>1, <1>3 DEF Zip!Counter
<1> QED
  BY <1>1, <1>2, <1>3

LEMMA ZipUnpackable ==
  ASSUME ZipInv
  PROVE  Zip!Unpackable
<1>1. Zip!IsInjective(zipNames)
  BY DEF Zip!IsInjective, ZipInv, GivenInv
<1>2. ASSUME result = "built"
      PROVE  /\ central = placed /\ Len(zipNames) = Len(placed)
             /\ trailer.at = offset /\ trailer.len = Zip!DirectoryLen
             /\ trailer.at + trailer.len + EOCD_LEN <= MAX32
             /\ Len(placed) <= MAX16 <=> trailer.count = Len(placed)
  <2>1. /\ central = placed /\ Len(zipNames) = Len(placed) /\ Zip!ArchiveLen <= MAX32
        /\ trailer.at = offset /\ trailer.len = Zip!DirectoryLen
        /\ trailer.count = Zip!Counter(Len(placed))
    BY <1>2 DEF ZipInv, LaidInv, TrailerTrue
  <2>2. Len(placed) \in Nat /\ Zip!ArchiveLen = offset + Zip!DirectoryLen + EOCD_LEN
    BY DirectoryBytes
  <2>3. Len(placed) <= MAX16 <=> Zip!Counter(Len(placed)) = Len(placed)
    BY <2>2, CounterKeeps
  <2> QED
    BY <2>1, <2>2, <2>3
<1> QED
  BY <1>1, <1>2 DEF Zip!Unpackable

-----------------------------------------------------------------------------
BytesInv ==
    /\ part = "walk" => WalkInv /\ PlayerInv
    /\ part = "zip" => ZipInv

LEMMA BytesStep == BytesInv /\ [BrowserNext]_client => BytesInv'
<1> SUFFICES ASSUME BytesInv, [BrowserNext]_client PROVE BytesInv'
  OBVIOUS
<1>1. part' = part
  BY DEF BrowserNext, Others, client
<1>2. ASSUME part = "walk" PROVE WalkInv' /\ PlayerInv'
  <2>1. Walk!Next \/ UNCHANGED walkVars
    BY <1>2 DEF BrowserNext, client
  <2>2. ASSUME UNCHANGED walkVars PROVE WalkInv' /\ PlayerInv'
    BY <1>2, <2>2 DEF walkVars, BytesInv, WalkInv, PlayerInv, Walk!SilenceExplained, Walk!Watched
  <2> QED
    BY <1>2, <2>1, <2>2, WalkStep, PlayerStep DEF BytesInv
<1>3. ASSUME part = "zip" PROVE ZipInv'
  <2>1. Zip!Next \/ UNCHANGED zipVars
    BY <1>3 DEF BrowserNext, client
  <2>2. ASSUME UNCHANGED zipVars PROVE ZipInv'
    <3>1. UNCHANGED <<entries, seen, zipNames, placed, central, offset, trailer, result>>
      BY <2>2 DEF zipVars
    <3> QED
      BY <1>3, <3>1 DEF BytesInv, ZipInv, GivenInv, LaidInv, TrailerTrue, Zip!ArchiveLen,
         Zip!DirectoryLen, Zip!Counter
  <2> QED
    BY <1>3, <2>1, <2>2, NameStep, WriteStep, ZipFinishStep DEF BytesInv, Zip!Next
<1> QED
  BY <1>1, <1>2, <1>3 DEF BytesInv

(* However the lengths in a strange video lie, it is read forward and each *)
(* level ends where the one above has moved on to, and a player that gives *)
(* up says so of a file that does not show; and the archive of any members *)
(* has no name twice, no 32-bit field of its directory or of the record at *)
(* its end has wrapped, and the count in that record is right for as many  *)
(* members as 16 bits can count, and for no more.                          *)
THEOREM BytesStayInBounds == BrowserSpec => []BytesInBounds
<1>1. BrowserInit => BytesInv
  BY WalkInit, ArchiveInit DEF BytesInv
<1>2. BytesInv => BytesInBounds
  BY WalkBounds, ZipUnpackable DEF BytesInv, BytesInBounds
<1> QED
  BY <1>1, <1>2, BytesStep, PTL DEF BrowserSpec

(* And both are of their types.                                            *)
LEMMA WalkTypes ==
  ASSUME WalkInv, PlayerInv
  PROVE  Walk!TypeOK
<1>1. \A i \in DOMAIN stack : stack[i] \in Frames
  BY DEF WalkInv
<1>2. \A i \in DOMAIN stack : stack[i].depth \in 0 .. MAX_DEPTH /\ stack[i].end <= Units
  BY <1>1, WalkConstants DEF Frames
<1> QED
  BY <1>2 DEF WalkInv, PlayerInv, Walk!TypeOK

LEMMA ZipTypes ==
  ASSUME ZipInv
  PROVE  Zip!TypeOK
<1>1. Zip!Range(zipNames) \subseteq DOMAIN seen
  <2>1. \A i \in DOMAIN zipNames : zipNames[i] \in DOMAIN seen
    BY DEF ZipInv, GivenInv
  <2> QED
    BY <2>1 DEF Zip!Range
<1>2. offset \in Nat
  <2>1. offset \in 0 .. MAX32
    BY DEF ZipInv, LaidInv
  <2>2. MAX32 \in Nat
    BY ZipConstants
  <2> QED
    BY <2>1, <2>2
<1> QED
  BY <1>1, <1>2 DEF ZipInv, GivenInv, LaidInv, Zip!TypeOK
=============================================================================
