---------------------------- MODULE HistoryPage ----------------------------
(***************************************************************************)
(* The owner's list of files (web/static/app.js): folding the groups of a  *)
(* batch, the live search, the selection for bulk deletion, and the names  *)
(* this browser remembers of files whose names the server cannot read.     *)
(* Rows are numbered from top to bottom.                                   *)
(***************************************************************************)
EXTENDS Integers, Sequences, FiniteSets

CONSTANTS
    Count,          \* rows
    Group,          \* the group of a row, or 0
    Queries, Hits,  \* searches, and the rows that match each; "" matches all
    NAME_STORE_MAX

HistoryAssumption ==
    /\ Count \in Nat /\ Group \in [1 .. Count -> Nat]
    /\ Hits \in [Queries -> SUBSET (1 .. Count)]
    /\ "" \in Queries /\ Hits[""] = 1 .. Count
    /\ NAME_STORE_MAX \in Nat

Rows == 1 .. Count
Groups == {Group[r] : r \in Rows} \ {0}
NoMemory == {-1}
NoAnchor == 0

VARIABLES
    rows,       \* rows there are: deleted ones go with the next page
    hidden,     \* rows the search has hidden
    hiddenGroups,
    collapsed,  \* groups that are folded
    foldMemory, \* those that were when the search began, or NoMemory
    query,
    checked,    \* rows that are selected
    anchor,     \* the box clicked last, for a range
    counted,    \* what bulkCount and the confirmation say
    bulkAll, groupBoxes,    \* the boxes that stand for several
    names       \* localStorage: ids of remembered names, oldest first

list == <<rows, hidden, hiddenGroups, query>>
folds == <<collapsed, foldMemory>>
marks == <<checked, anchor, counted, bulkAll, groupBoxes>>
vars == <<rows, hidden, hiddenGroups, query, collapsed, foldMemory, checked,
          anchor, counted, bulkAll, groupBoxes, names>>

Init ==
    /\ rows = Rows /\ hidden = {} /\ hiddenGroups = {} /\ query = ""
    /\ collapsed = {} /\ foldMemory = NoMemory
    /\ checked = {} /\ anchor = NoAnchor /\ counted = 0
    /\ bulkAll = FALSE /\ groupBoxes = {}
    /\ names = <<>>

-----------------------------------------------------------------------------
(* Folding.                                                                *)

SetFolded(g) ==
    /\ g \in Groups \ hiddenGroups
    /\ collapsed' = IF g \in collapsed THEN collapsed \ {g} ELSE collapsed \cup {g}
    /\ UNCHANGED <<list, foldMemory, marks, names>>

FoldAll == collapsed' \in {{}, Groups} /\ UNCHANGED <<list, foldMemory, marks, names>>

(* sync: the count and the boxes follow from what is selected of the rows  *)
(* the search leaves.                                                      *)

Sync(visible, picked) ==
    /\ checked' = picked
    /\ counted' = Cardinality(picked \cap visible)
    /\ bulkAll' = (visible # {} /\ visible \subseteq picked)
    /\ groupBoxes' = {g \in Groups : LET mine == {r \in visible : Group[r] = g}
                                     IN mine # {} /\ mine \subseteq picked}

Visible == rows \ hidden

(* Mutant: a row the search hides stays selected.                          *)
OnListFilteredKept(visible) == Sync(visible, checked)

\* A row the search hides is no longer selected.
OnListFiltered(visible) == Sync(visible, checked \cap visible)

Search(q) ==
    LET hits == rows \cap Hits[q] IN
    /\ q \in Queries /\ q # query /\ query' = q
    /\ hidden' = rows \ hits
    /\ hiddenGroups' = {g \in Groups : \A r \in hits : Group[r] # g}
    /\ collapsed' = IF q # "" THEN {} ELSE IF foldMemory # NoMemory THEN foldMemory ELSE collapsed
    /\ foldMemory' = IF q = "" THEN NoMemory
                     ELSE IF foldMemory = NoMemory THEN collapsed ELSE foldMemory
    /\ OnListFiltered(hits)
    /\ UNCHANGED <<rows, anchor, names>>

-----------------------------------------------------------------------------
(* Selection.                                                              *)

\* A box of a folded group cannot be clicked.
Clickable(r) == r \in Visible /\ Group[r] \notin collapsed

\* With shift, all rows from the last one clicked to this one follow it.
Select(r, shift) ==
    LET on == r \notin checked
        range == IF shift /\ anchor \in Visible
                 THEN {i \in Visible : (anchor <= i /\ i <= r) \/ (r <= i /\ i <= anchor)}
                 ELSE {r}
    IN
    /\ Clickable(r)
    /\ anchor' = r
    /\ Sync(Visible, IF on THEN checked \cup range ELSE checked \ range)
    /\ UNCHANGED <<list, folds, names>>

SelectAll ==
    /\ Sync(Visible, IF bulkAll THEN checked \ Visible ELSE checked \cup Visible)
    /\ anchor' = NoAnchor
    /\ UNCHANGED <<list, folds, names>>

SelectGroup(g) ==
    LET mine == {r \in Visible : Group[r] = g} IN
    /\ g \in Groups \ hiddenGroups
    /\ Sync(Visible, IF g \in groupBoxes THEN checked \ mine ELSE checked \cup mine)
    /\ anchor' = NoAnchor
    /\ UNCHANGED <<list, folds, names>>

-----------------------------------------------------------------------------
(* The store of names.                                                     *)

Without(s, gone) ==
    LET kept[i \in 0 .. Len(s)] ==
            IF i = 0 THEN <<>>
            ELSE IF s[i] \in gone THEN kept[i - 1] ELSE Append(kept[i - 1], s[i])
    IN kept[Len(s)]
Remembered(s) == {s[i] : i \in DOMAIN s}

\* rememberName, by the upload page in another tab: a name learned again keeps
\* its place, and the oldest go when there are too many.
RememberName(r) ==
    LET s == IF r \in Remembered(names) THEN names ELSE Append(names, r)
        over == Len(s) - NAME_STORE_MAX
    IN
    /\ names' = IF over > 0 THEN SubSeq(s, over + 1, Len(s)) ELSE s
    /\ UNCHANGED <<list, folds, marks>>

\* The confirmed form submits every box that is checked, or the row of its own
\* button; their names are forgotten with it, and a new page is loaded.
Delete(gone) ==
    /\ rows' = rows \ gone
    /\ names' = Without(names, gone)
    /\ hidden' = {} /\ hiddenGroups' = {g \in Groups : \A r \in rows' : Group[r] # g}
    /\ query' = ""
    /\ collapsed' = {} /\ foldMemory' = NoMemory /\ anchor' = NoAnchor
    /\ Sync(rows', {})

BulkDelete == counted > 0 /\ Delete(checked)
DeleteRow(r) == Clickable(r) /\ Delete({r})

Next ==
    \/ FoldAll \/ SelectAll \/ BulkDelete
    \/ \E q \in Queries : Search(q)
    \/ \E g \in Groups : SetFolded(g) \/ SelectGroup(g)
    \/ \E r \in Rows : DeleteRow(r) \/ RememberName(r) \/ \E shift \in BOOLEAN : Select(r, shift)

Spec == Init /\ [][Next]_vars

-----------------------------------------------------------------------------
TypeOK ==
    /\ rows \subseteq Rows /\ hidden \subseteq rows /\ checked \subseteq rows
    /\ hiddenGroups \subseteq Groups /\ collapsed \subseteq Groups
    /\ foldMemory \in (SUBSET Groups) \cup {NoMemory}
    /\ query \in Queries /\ anchor \in Rows \cup {NoAnchor}
    /\ counted \in 0 .. Count /\ bulkAll \in BOOLEAN /\ groupBoxes \subseteq Groups
    /\ names \in Seq(Rows)

\* What the form would delete is what its button has counted and what the list
\* shows, whatever was searched, ranged and folded since it was selected
\* (app.js:2778); and a box that stands for several rows, all of them or those
\* of a group, is set if there are such rows to see and all of them are.
DeletesWhatIsShown ==
    /\ checked \subseteq Visible /\ counted = Cardinality(checked)
    /\ bulkAll = (Visible # {} /\ checked = Visible)
    /\ groupBoxes = {g \in Groups : LET mine == {r \in Visible : Group[r] = g}
                                    IN mine # {} /\ mine \subseteq checked}

\* The store of names does not outgrow its limit and holds no name twice,
\* whatever is remembered, learned again and deleted in between.  It may hold
\* the name of a file that is gone: another tab can write it back.
NamesBounded ==
    /\ Len(names) <= NAME_STORE_MAX
    /\ Cardinality(Remembered(names)) = Len(names)
=============================================================================
