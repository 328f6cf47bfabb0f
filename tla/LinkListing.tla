---------------------------- MODULE LinkListing ----------------------------
(***************************************************************************)
(* The list on a batch link and in the inbox of a drop                     *)
(* (web/static/app.js): unlocking, fetching the manifest, opening sealed   *)
(* names, checking the list against the roster its sender sealed, and the  *)
(* choice of what goes into "Download all".  A batch is one delivery; in   *)
(* an inbox each delivery has keys and a roster of its own.                *)
(*                                                                         *)
(* A delivery as the server returns it: whether its keys can be recovered, *)
(* the sender's note, whether it is older than rosters, the ids its roster *)
(* lists in order (NoRoster if there is none that opens), and its rows.    *)
(* Of a row: id, how it is named, whether name, size, type and digest are  *)
(* those of its roster entry, and whether its manifest names this batch.   *)
(***************************************************************************)
EXTENDS Integers, Sequences, FiniteSets

CONSTANTS
    Answers,    \* the lists of deliveries the server may answer with
    NoRoster,   \* the roster of a delivery that has none
    MaxLoads    \* bound: times the list is loaded

VARIABLES
    source,     \* "batch" or "inbox"
    password,   \* whether the link asks for one
    pc,         \* per load: where it is
    answer,     \* per load: what the server returned
    at, notes,  \* loadInbox: the delivery it is at, what it has noted itself
    array,      \* per load: its rows, in order; a row is the object
                \*   [at |-> <<load, delivery, position>>, file |-> ...]
    members,    \* the load whose array is `members'; 0: it is empty
    named,      \* objects whose name is known
    unverified, \* objects marked as such
    warning,    \* the notes in the warning box
    headers,    \* deliveries announced by a header
    listed,     \* renderList has run: the list and its buttons are there
    archive     \* what the last "Download all" has included

vars == <<source, password, pc, answer, at, notes, array, members, named,
          unverified, warning, headers, listed, archive>>

Range(s) == {s[i] : i \in DOMAIN s}

\* An answer lists deliveries, and a delivery and its roster list files.
ListingAssumption ==
    /\ MaxLoads \in Nat \ {0}
    /\ \A a \in Answers :
          /\ a \in Seq(Range(a))
          /\ \A d \in Range(a) :
                /\ d.files \in Seq(Range(d.files))
                /\ d.roster # NoRoster => d.roster \in Seq(Range(d.roster))

Loads == 1 .. MaxLoads
Rows(l, d) == [i \in DOMAIN answer[l][d].files |->
                  [at |-> <<l, d, i>>, file |-> answer[l][d].files[i]]]

Init ==
    /\ source \in {"batch", "inbox"} /\ password \in BOOLEAN
    /\ source = "inbox" => ~password
    /\ pc = [l \in Loads |-> "idle"]
    /\ answer = [l \in Loads |-> <<>>] /\ array = [l \in Loads |-> <<>>]
    /\ at = 1 /\ notes = {}
    /\ members = 0 /\ named = {} /\ unverified = {}
    /\ warning = {} /\ headers = {} /\ listed = FALSE
    /\ archive = {}

-----------------------------------------------------------------------------
(* Getting in.  A link that carries its secret loads once; Enter in the    *)
(* password field asks again while an earlier attempt is under way, for    *)
(* only the button is disabled.                                            *)

LockShown == \A l \in Loads : pc[l] \in {"idle", "deriving", "refused"}

Unlock(l) ==
    /\ pc[l] = "idle" /\ \A k \in 1 .. l - 1 : pc[k] # "idle"
    /\ IF password THEN LockShown ELSE l = 1
    /\ pc' = [pc EXCEPT ![l] = "deriving"]
    /\ UNCHANGED <<source, password, answer, at, notes, array, members, named,
                   unverified, warning, headers, listed, archive>>

\* The server takes the password, or does not; then the list is fetched, or
\* is not.
Unlocked(l) ==
    /\ pc[l] = "deriving"
    /\ \/ pc' = [pc EXCEPT ![l] = "fetching"]
       \/ password /\ pc' = [pc EXCEPT ![l] = "refused"]
    /\ UNCHANGED <<source, password, answer, at, notes, array, members, named,
                   unverified, warning, headers, listed, archive>>

LoadFails(l) ==
    /\ pc[l] = "fetching"
    /\ pc' = [pc EXCEPT ![l] = "failed"]
    /\ UNCHANGED <<source, password, answer, at, notes, array, members, named,
                   unverified, warning, headers, listed, archive>>

-----------------------------------------------------------------------------
(* The two checks.                                                         *)

(* Mutant: a name that does not open leaves a number and no mark.          *)
OpenNamesQuietly(objects) == named' = named \cup objects /\ UNCHANGED unverified

\* openNames: a row whose sealed name does not open is marked.
OpenNames(objects) ==
    /\ named' = named \cup objects
    /\ unverified' = unverified \cup {o \in objects : o.file.name = "damaged"}

\* verifyRoster, over the rows g of a delivery d, of which the names of
\* `known' are there.  An empty delivery of an inbox has no row to take its
\* roster key from.
RosterOpens(d, g) == d.roster # NoRoster /\ (source = "batch" \/ g # <<>>)

\* A row is vouched for by the entry of its id, which serves only one row.
Entered(d, g, i) ==
    /\ g[i].file.id \in Range(d.roster)
    /\ \A j \in 1 .. i - 1 : g[j].file.id # g[i].file.id
Vouched(d, g, i, known) ==
    Entered(d, g, i) /\ g[i] \in known /\ g[i].file.fits /\ g[i].file.here

Marks(d, g, known) ==
    IF d.old THEN {}
    ELSE IF RosterOpens(d, g)
    THEN {g[i] : i \in {j \in DOMAIN g : ~Vouched(d, g, j, known)}}
    ELSE Range(g)

FileIds(g) == [i \in DOMAIN g |-> g[i].file.id]

Findings(d, g, marked) ==
    (IF Range(g) \cap marked # {} THEN {"unverified"} ELSE {})
        \cup (IF Range(d.roster) \subseteq Range(FileIds(g)) THEN {} ELSE {"missing"})

\* What the check has to say, and the rows in the order in which the sender
\* sealed them if the order is all that is wrong.
Notes(d, g, marked) ==
    IF d.old THEN {"legacy"}
    ELSE IF ~RosterOpens(d, g) THEN {"no_roster"}
    ELSE IF Findings(d, g, marked) = {} /\ FileIds(g) # d.roster THEN {"reordered"}
    ELSE Findings(d, g, marked)

Ordered(d, g, marked) ==
    IF Notes(d, g, marked) # {"reordered"} THEN g
    ELSE [i \in DOMAIN d.roster |-> CHOOSE o \in Range(g) : o.file.id = d.roster[i]]

\* warn: the box shows these notes and no others.
Warn(these) == warning' = these

-----------------------------------------------------------------------------
(* loadManifest.  The rows of a batch become the members at once, and are  *)
(* checked afterwards; those of an inbox are added as they are checked.    *)

Fetched(l) ==
    /\ pc[l] = "fetching"
    /\ \E a \in Answers :
          /\ source = "batch" => Len(a) = 1
          /\ answer' = [answer EXCEPT ![l] = a]
          /\ array' = [array EXCEPT ![l] = IF source = "batch" THEN Rows(l, 1)' ELSE <<>>]
    /\ members' = l
    /\ pc' = [pc EXCEPT ![l] = IF source = "batch" THEN "naming" ELSE "opening"]
    /\ UNCHANGED <<source, password, at, notes, named, unverified, warning,
                   headers, listed, archive>>

NameMembers(l) ==
    /\ pc[l] = "naming"
    /\ OpenNames(Range(array[l]))
    /\ pc' = [pc EXCEPT ![l] = "verifying"]
    /\ UNCHANGED <<source, password, answer, at, notes, array, members, warning,
                   headers, listed, archive>>

\* verifyRoster(data, members): the rows are those of whatever `members' is by
\* now, and so is the list that is drawn.
VerifyMembers(l) ==
    LET d == answer[l][1]  g == array[members] IN
    /\ pc[l] = "verifying"
    /\ unverified' = unverified \cup Marks(d, g, named)
    /\ Warn(Notes(d, g, unverified'))
    /\ array' = [array EXCEPT ![members] = Ordered(d, g, unverified')]
    /\ pc' = [pc EXCEPT ![l] = "done"] /\ listed' = TRUE
    /\ UNCHANGED <<source, password, answer, at, notes, members, named, headers, archive>>

\* One delivery of an inbox: its keys, its note, its names, its roster.
OpenDelivery(l) ==
    LET d == answer[l][at]  g == Rows(l, at)
        nowNamed == named \cup Range(g)
    IN
    /\ pc[l] = "opening" /\ at <= Len(answer[l])
    /\ at' = at + 1
    /\ notes' = notes \cup IF d.opens /\ d.note # "damaged" THEN {} ELSE {"sealed"}
    /\ IF d.opens
       THEN /\ named' = nowNamed
            /\ unverified' = unverified \cup Marks(d, g, nowNamed)
                                \cup {o \in Range(g) : o.file.name = "damaged"}
            /\ Warn(Notes(d, g, unverified'))
            /\ array' = [array EXCEPT ![l] = @ \o Ordered(d, g, unverified')]
       ELSE UNCHANGED <<named, unverified, warning, array>>
    /\ UNCHANGED <<source, password, pc, answer, members, headers, listed, archive>>

\* deliveryHeader: a delivery is announced if there is another to tell it from,
\* or if its sender left a note.
DeliveryHeaders(l) ==
    LET shown == {o.at[2] : o \in Range(array[l])} IN
    {d \in shown : shown # {d} \/ answer[l][d].note = "fine"}

ShowInbox(l) ==
    /\ pc[l] = "opening" /\ at > Len(answer[l])
    /\ IF notes # {} THEN Warn(notes) ELSE UNCHANGED warning
    /\ headers' = DeliveryHeaders(l)
    /\ pc' = [pc EXCEPT ![l] = "done"] /\ listed' = TRUE
    /\ UNCHANGED <<source, password, answer, at, notes, array, members, named,
                   unverified, archive>>

\* "Download all" takes the rows that are not marked at the click.
DownloadAll ==
    /\ listed /\ array[members] # <<>>
    /\ archive' = Range(array[members]) \ unverified
    /\ UNCHANGED <<source, password, pc, answer, at, notes, array, members, named,
                   unverified, warning, headers, listed>>

Next ==
    \/ DownloadAll
    \/ \E l \in Loads :
          \/ Unlock(l) \/ Unlocked(l) \/ LoadFails(l) \/ Fetched(l)
          \/ NameMembers(l) \/ VerifyMembers(l) \/ OpenDelivery(l) \/ ShowInbox(l)

Spec == Init /\ [][Next]_vars

-----------------------------------------------------------------------------
\* The rows of load l that its own roster vouches for.
Genuine(l) ==
    LET All(d) == Rows(l, d) IN
    UNION {{All(d)[i] : i \in {j \in DOMAIN All(d) :
                /\ answer[l][d].files[j].name # "damaged"
                /\ answer[l][d].old \/ /\ RosterOpens(answer[l][d], All(d))
                                       /\ Vouched(answer[l][d], All(d), j, Range(All(d)))}}
              : d \in DOMAIN answer[l]}

Settled == \A l \in Loads : pc[l] \in {"idle", "refused", "failed", "done"}
OneLoad == \A l \in Loads \ {1} : pc[l] \in {"idle", "refused"}

TypeOK ==
    /\ pc \in [Loads -> {"idle", "deriving", "refused", "fetching", "failed",
                         "naming", "verifying", "opening", "done"}]
    /\ answer \in [Loads -> Answers \cup {<<>>}] /\ at \in Nat
    /\ members \in 0 .. MaxLoads
    /\ named \cup unverified \subseteq UNION {Range(array[l]) : l \in Loads}
    /\ warning \subseteq {"legacy", "no_roster", "unverified", "missing", "reordered", "sealed"}
    /\ archive \subseteq UNION {Range(array[l]) : l \in Loads}

\* Once every load is over, the list, whichever load it came from, leaves no
\* row unmarked that the roster of its delivery does not vouch for; and if the
\* list was loaded once, it marks no other, and "Download all" has taken none
\* of the marked (app.js:1163, app.js:1885).
ListVouched ==
    Settled /\ listed =>
        /\ Range(array[members]) \ unverified \subseteq Genuine(members)
        /\ OneLoad => /\ Genuine(members) \cap Range(array[members]) \cap unverified = {}
                      /\ archive \subseteq Genuine(members)

\* A batch shown without a warning is what its sender sealed, every file of it
\* and in that order, however often the list was loaded.  Of an inbox this says
\* only that it does not swallow the note of a delivery it lists (app.js:1397):
\* what its rosters miss is the matter of InboxComplete.
ListComplete ==
    Settled /\ listed =>
        IF source = "batch"
        THEN warning \subseteq {"reordered"} => \E l \in Loads :
                 pc[l] = "done" /\ FileIds(array[members]) = answer[l][1].roster
        ELSE \A o \in Range(array[members]) :
                 answer[1][o.at[2]].note = "fine" => o.at[2] \in headers

\* An inbox names, like a batch, every file that a roster it could open lists
\* and the server did not offer (README.md:616, app.js:1163).  The code does
\* not see to it: loadInbox checks its deliveries one by one, each check puts
\* its own notes into the box in place of those before (app.js:1116), and a
\* delivery that does not open replaces them once more.
InboxComplete ==
    source = "inbox" /\ Settled /\ listed =>
        \A d \in DOMAIN answer[members] :
            LET sent == answer[members][d]  g == Rows(members, d) IN
            /\ sent.opens /\ ~sent.old /\ RosterOpens(sent, g)
            /\ ~(Range(sent.roster) \subseteq Range(FileIds(g)))
            => "missing" \in warning
=============================================================================
