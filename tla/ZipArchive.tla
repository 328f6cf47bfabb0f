----------------------------- MODULE ZipArchive -----------------------------
(***************************************************************************)
(* The archive of a batch, built in the tab (web/static/zip.js): names     *)
(* made distinct, members laid one after another behind a header each, a   *)
(* directory of where they start, all of it in fields of limited width.    *)
(*                                                                         *)
(* A name is a stem, the numbers put behind it and an extension:           *)
(* "scan (2).pdf" is <<"scan", <<2>>, "pdf">>.                             *)
(***************************************************************************)
EXTENDS Naturals, Sequences, FiniteSets, Functions

CONSTANTS
    NameSet,    \* names members may have
    Sizes,      \* sizes they may have
    MaxMembers, \* bound: members of an archive
    MAX32,      \* largest value of a size or an offset
    MAX16,      \* largest value of the counter of members
    LOCAL_LEN, CENTRAL_LEN, EOCD_LEN, NAME_LEN \* lengths of headers and names

ZipAssumption ==
    /\ \A m \in NameSet : m[2] \in Seq(Nat)
    /\ Sizes \subseteq Nat /\ {MaxMembers, MAX32, MAX16} \subseteq Nat
    /\ {LOCAL_LEN, CENTRAL_LEN, EOCD_LEN, NAME_LEN} \subseteq Nat

VARIABLES
    entries,    \* the members, decrypted: name and size
    seen,       \* names given out, and the last number tried behind each
    names,      \* names in the archive
    placed,     \* members written, each with where it really starts
    central,    \* what the directory says of them
    offset,     \* where the next one goes
    trailer,    \* the record at the end: how many members the directory
                \*   lists, how long it is and where it starts
    result      \* "building", "built" or "too big"

vars == <<entries, seen, names, placed, central, offset, trailer, result>>

Field(x) == x % (MAX32 + 1)
Counter(x) == x % (MAX16 + 1)
Numbered(name, n) == <<name[1], Append(name[2], n), name[3]>>

(* Mutant: the number is counted, and not looked up.                        *)
FirstFreeCounted(name) == seen[name] + 1

\* uniqueNames: a name that was given out gets a number, the next one behind it
\* that gives a name nobody has.
FirstFree(name) ==
    CHOOSE n \in (seen[name] + 1) .. (seen[name] + 1 + MaxMembers) :
        /\ Numbered(name, n) \notin DOMAIN seen
        /\ \A k \in (seen[name] + 1) .. (n - 1) : Numbered(name, k) \in DOMAIN seen
Given(name) == IF name \in DOMAIN seen THEN Numbered(name, FirstFree(name)) ELSE name
Marked(name) ==
    LET n == FirstFree(name)
        with == [m \in {name, Given(name)} |-> IF m = name THEN n ELSE 1]
    IN IF name \in DOMAIN seen
       THEN [m \in (DOMAIN seen) \cup (DOMAIN with) |-> IF m \in DOMAIN with THEN with[m] ELSE seen[m]]
       ELSE [m \in (DOMAIN seen) \cup {name} |-> IF m = name THEN 1 ELSE seen[m]]

Name ==
    /\ result = "building" /\ Len(names) < Len(entries)
    /\ LET name == entries[Len(names) + 1].name
       IN names' = Append(names, Given(name)) /\ seen' = Marked(name)
    /\ UNCHANGED <<entries, placed, central, offset, trailer, result>>

\* build: one member behind the others, refused if it would end past the limit.
MemberFits(size) == size <= MAX32 /\ offset + LOCAL_LEN + NAME_LEN + size <= MAX32

Write ==
    /\ result = "building" /\ Len(names) = Len(entries) /\ Len(placed) < Len(entries)
    /\ LET size == entries[Len(placed) + 1].size
       IN IF MemberFits(size)
          THEN /\ placed' = Append(placed, [at |-> offset, size |-> size])
               /\ central' = Append(central, [at |-> Field(offset), size |-> Field(size)])
               /\ offset' = offset + LOCAL_LEN + NAME_LEN + size
               /\ UNCHANGED result
          ELSE result' = "too big" /\ UNCHANGED <<placed, central, offset>>
    /\ UNCHANGED <<entries, seen, names, trailer>>

\* The directory comes last, and its own length counts.  Nothing asks how many
\* members there are: past MAX16 the counter starts again from 0.
DirectoryLen == Len(central) * (CENTRAL_LEN + NAME_LEN)
ArchiveLen == offset + DirectoryLen + EOCD_LEN
Finish ==
    /\ result = "building" /\ Len(names) = Len(entries) /\ Len(placed) = Len(entries)
    /\ IF ArchiveLen > MAX32
       THEN result' = "too big" /\ UNCHANGED trailer
       ELSE /\ result' = "built"
            /\ trailer' = [count |-> Counter(Len(central)),
                           len |-> Field(DirectoryLen), at |-> Field(offset)]
    /\ UNCHANGED <<entries, seen, names, placed, central, offset>>

Init ==
    /\ entries \in UNION {[1 .. n -> [name : NameSet, size : Sizes]] : n \in 0 .. MaxMembers}
    /\ seen = [m \in {} |-> 0] /\ names = <<>> /\ placed = <<>> /\ central = <<>>
    /\ offset = 0 /\ trailer = [count |-> 0, len |-> 0, at |-> 0]
    /\ result = "building"

Next == Name \/ Write \/ Finish

Spec == Init /\ [][Next]_vars

-----------------------------------------------------------------------------
TypeOK ==
    /\ Len(names) <= Len(entries) /\ Len(placed) <= Len(entries)
    /\ Len(central) = Len(placed) /\ offset \in Nat
    /\ result \in {"building", "built", "too big"}
    /\ Range(names) \subseteq DOMAIN seen

\* No two members of an archive have one name, whatever names they came with
\* and however those look like numbered ones.  One that is handed out has a
\* directory that says where each member is and how long, a record that says
\* where the directory is and how long, no 32-bit field of either having
\* wrapped, and, if it has no more than MAX16 members, how many: with more, the
\* archive is handed out all the same and its count is wrong (zip.js:156).
Unpackable ==
    /\ IsInjective(names)
    /\ result = "built" =>
          /\ central = placed /\ Len(names) = Len(placed)
          /\ trailer.at = offset /\ trailer.len = DirectoryLen
          /\ trailer.at + trailer.len + EOCD_LEN <= MAX32
          /\ Len(placed) <= MAX16 <=> trailer.count = Len(placed)
=============================================================================
