------------------------------ MODULE IsoWalk ------------------------------
(***************************************************************************)
(* Looking for the codec in a video, and watching whether it plays         *)
(* (web/static/app.js: sniffIso, isoWalk, isoSampleEntries, watchPlayable, *)
(* renderPreviewInto).                                                     *)
(*                                                                         *)
(* The file is a stranger's: every header that is read may say anything.   *)
(* Lengths are in units of four bytes, so a header is two units and one    *)
(* with a 64-bit length four.                                              *)
(***************************************************************************)
EXTENDS Naturals, Sequences, SequencesExt

CONSTANTS
    Units,      \* length of the file
    BUDGET,     \* headers read at most
    MAX_DEPTH   \* levels descended at most

WalkAssumption == Units \in Nat /\ BUDGET \in Nat /\ MAX_DEPTH \in Nat

VARIABLES
    stack,      \* the walks under way, the innermost last
    budget,     \* headers that may still be read
    readTo,     \* where the last header read ended, 0 before the first
    found,      \* "video" and "sound" sample entries found
    kind,       \* "video" or "audio", by the type the sender sealed
    picture,    \* what the browser makes of it, see Pictures
    player      \* "sniffing", "loaded", "ready", "running" or "explained"

vars == <<stack, budget, readTo, found, kind, picture, player>>

HEAD == 2
WIDE == 4
Smaller(a, b) == IF a <= b THEN a ELSE b
Frame(at, end, depth, entries) == [at |-> at, end |-> end, depth |-> depth, entries |-> entries]

-----------------------------------------------------------------------------
(* The walk.                                                               *)

Top == Last(stack)
More == stack # <<>> /\ Top.at + HEAD <= Top.end /\ budget > 0

\* A length of one unit less than a header is nonsense, none means the rest,
\* and a 64-bit one is believed if its high half is zero.
Headers == [size : 0 .. Units + 1, type : {"parent", "stsd", "video", "sound"}, wide : BOOLEAN]
HeadLen(h) == IF h.wide THEN WIDE ELSE HEAD
BoxSize(h) == IF h.size = 0 /\ ~h.wide THEN Top.end - Top.at ELSE h.size
Nonsense(h) == BoxSize(h) < HeadLen(h) \/ (h.wide /\ Top.at + WIDE > Top.end)

Read(h) ==
    /\ budget' = budget - 1
    /\ readTo' = Top.at + HEAD
    /\ UNCHANGED <<kind, picture, player>>

\* A box is stepped over, and gone into first if it is on the way down: past
\* the eight bytes before its entries if it is the sample table.
WalkBox ==
    /\ More /\ ~Top.entries
    /\ \E h \in Headers :
          /\ Read(h) /\ UNCHANGED found
          /\ IF Nonsense(h) THEN stack' = Front(stack)
             ELSE LET over == [Top EXCEPT !.at = @ + BoxSize(h)]
                      stop == Smaller(Top.at + BoxSize(h), Top.end)
                      body == Top.at + HeadLen(h)
                      rest == Append(Front(stack), over)
                  IN stack' = CASE h.type = "stsd" ->
                                     Append(rest, Frame(body + 2, stop, Top.depth, TRUE))
                                [] h.type = "parent" /\ Top.depth < MAX_DEPTH ->
                                     Append(rest, Frame(body, stop, Top.depth + 1, FALSE))
                                [] OTHER -> rest

\* An entry counts even when its length is nonsense, which ends the list.
SampleEntry ==
    /\ More /\ Top.entries
    /\ \E h \in Headers :
          /\ Read(h)
          /\ found' = found \cup ({h.type} \cap {"video", "sound"})
          /\ stack' = IF h.size < HEAD THEN Front(stack)
                      ELSE [stack EXCEPT ![Len(stack)].at = @ + h.size]

WalkEnds ==
    /\ stack # <<>> /\ ~More
    /\ stack' = Front(stack)
    /\ UNCHANGED <<budget, readTo, found, kind, picture, player>>

-----------------------------------------------------------------------------
(* The player.                                                             *)

\* A file is refused; or plays with its picture, without a video track, with
\* one that has no decoder, or with one that decodes nothing.
Pictures == {"refused", "shown", "absent", "undecoded", "empty"}
Width0 == picture \in {"absent", "undecoded"}
NoFrames == picture # "shown"

\* Only a video in which a known codec was found is watched.
Watched == kind = "video" /\ "video" \in found

Goes(from, to) ==
    /\ stack = <<>> /\ player = from /\ player' = to
    /\ UNCHANGED <<stack, budget, readTo, found>>

\* The element gets the bytes once the walk is over.
Show == Goes("sniffing", "loaded") /\ kind' \in {"video", "audio"} /\ picture' \in Pictures

\* fail: the player is taken down and says why.
Error ==
    picture = "refused" /\ Goes("loaded", "explained") /\ UNCHANGED <<kind, picture>>

\* checkPicture, at loadedmetadata and again at loadeddata.
Metadata ==
    /\ picture # "refused"
    /\ Goes("loaded", IF Watched /\ Width0 THEN "explained" ELSE "ready")
    /\ UNCHANGED <<kind, picture>>

\* Playback that has run for a moment.
TimeUpdate ==
    /\ Goes("ready", IF Watched /\ NoFrames THEN "explained" ELSE "running")
    /\ UNCHANGED <<kind, picture>>

Init ==
    /\ stack \in {<<Frame(0, Units, 0, FALSE)>>, <<>>}  \* or no such container
    /\ budget = BUDGET /\ readTo = 0 /\ found = {}
    /\ kind = "audio" /\ picture = "shown" /\ player = "sniffing"

Next == WalkBox \/ SampleEntry \/ WalkEnds \/ Show \/ Error \/ Metadata \/ TimeUpdate

Spec == Init /\ [][Next]_vars

-----------------------------------------------------------------------------
TypeOK ==
    /\ \A i \in DOMAIN stack : stack[i].depth \in 0 .. MAX_DEPTH /\ stack[i].end <= Units
    /\ budget \in 0 .. BUDGET /\ readTo \in 0 .. Units
    /\ found \subseteq {"video", "sound"} /\ kind \in {"video", "audio"}
    /\ picture \in Pictures
    /\ player \in {"sniffing", "loaded", "ready", "running", "explained"}

\* A malformed file cannot spin the tab: nothing is read twice, however lengths
\* lie and boxes nest, and every level ends where the one above has moved on to.
ReadsForward ==
    /\ stack # <<>> /\ More => Top.at >= readTo
    /\ \A i \in DOMAIN stack : i > 1 => stack[i].end <= stack[i - 1].at

\* A video whose codec is known does not go on playing without a picture, and
\* a file that plays, or has only sound, is left alone.
SilenceExplained ==
    /\ player = "running" /\ Watched => picture = "shown"
    /\ player = "explained" => picture # "shown" /\ (picture = "absent" => "video" \in found)
=============================================================================
