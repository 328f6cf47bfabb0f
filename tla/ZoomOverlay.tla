---------------------------- MODULE ZoomOverlay ----------------------------
(***************************************************************************)
(* Enlarging a picture (web/static/app.js): a scale and a translation in   *)
(* screen pixels, moved by the wheel, by one or two fingers and by keys,   *)
(* and clamped to the picture after each of them.  Both axes are alike, so *)
(* there is one here; positions are measured from the centre of the        *)
(* overlay, and scales are whole numbers, rounded down.                    *)
(***************************************************************************)
EXTENDS Integers, FiniteSets

CONSTANTS
    ZOOM_MAX,   \* the largest scale
    Views,      \* widths the overlay may have, before and after a resize
    Wide,       \* natural width of the picture, fitted into a view no wider
    PAN         \* pixels an arrow key moves the picture

VARIABLES
    open,       \* the dialog is shown
    view,       \* clientWidth
    loaded,     \* the picture has its natural size
    scale, tx,  \* zoomState
    pointers,   \* positions of the pointers that are down, by id
    pinch,      \* spread and midpoint of the previous frame, or NoPinch
    dragged     \* the pointers have travelled more than a click may

vars == <<open, view, loaded, scale, tx, pointers, pinch, dragged>>

ZOOM_MIN == 1
Fingers == {1, 2}
Up == 1000000       \* a pointer that is not down
NoPinch == [dist |-> 0, mid |-> 0]

ZoomAssumption ==
    /\ ZOOM_MAX \in Nat \ {0} /\ Wide \in Nat /\ PAN \in Nat
    /\ Views # {} /\ Views \subseteq 0 .. Up

Larger(a, b) == IF a >= b THEN a ELSE b
Smaller(a, b) == IF a <= b THEN a ELSE b
Abs(x) == IF x < 0 THEN -x ELSE x
Down == {i \in Fingers : pointers[i] # Up}

Init ==
    /\ open = FALSE /\ view \in Views /\ loaded = FALSE
    /\ scale = ZOOM_MIN /\ tx = 0
    /\ pointers = [i \in Fingers |-> Up] /\ pinch = NoPinch /\ dragged = FALSE

-----------------------------------------------------------------------------
\* zoomFitted, and half the overhang of the picture at scale s.
Fitted(v, known) == IF known THEN Smaller(v, Wide) ELSE v
MaxX(s, v, known) == Larger(0, (Fitted(v, known) * s - v) \div 2)

\* applyZoom: no edge of the picture is left behind.  A dialog that is closed
\* has no width, and the clamp puts the picture in its middle.
Clamped(t, s, v, known) == Larger(-MaxX(s, v, known), Smaller(MaxX(s, v, known), t))
ApplyZoom(s, t) ==
    /\ scale' = s
    /\ tx' = IF open THEN Clamped(t, s, view', loaded') ELSE 0

\* zoomTo: the point under the anchor d stays where it is.
Scale(next) == Larger(ZOOM_MIN, Smaller(ZOOM_MAX, next))
Anchored(s, t, next, d) == d - (next * (d - t)) \div s
ZoomTo(next, d, t) == ApplyZoom(Scale(next), Anchored(scale, t, Scale(next), d))

Places == {-(view \div 2), 0, view \div 2}
Steps == {scale * 2, scale \div 2}

Wheel ==
    /\ open
    /\ UNCHANGED <<open, view, loaded, pointers, pinch, dragged>>
    /\ \E next \in Steps, d \in Places : ZoomTo(next, d, tx)

\* Keys: + and - zoom about the middle, 0 resets, arrows pan what is zoomed.
Keys ==
    /\ open
    /\ UNCHANGED <<open, view, loaded, pointers, pinch, dragged>>
    /\ \/ \E next \in Steps : ZoomTo(next, 0, tx)
       \/ ApplyZoom(ZOOM_MIN, 0)
       \/ scale > ZOOM_MIN /\ \E by \in {-PAN, PAN} : ApplyZoom(scale, tx + by)

-----------------------------------------------------------------------------
(* Pointers: one pans, two pinch.                                          *)

PinchFrame(p) == [dist |-> Abs(p[1] - p[2]), mid |-> (p[1] + p[2]) \div 2]
Frame(p) == IF \A i \in Fingers : p[i] # Up THEN PinchFrame(p) ELSE NoPinch

PointerDown(i) ==
    /\ open /\ pointers[i] = Up
    /\ \E x \in Places : pointers' = [pointers EXCEPT ![i] = x]
    /\ pinch' = Frame(pointers') /\ dragged' = FALSE
    /\ UNCHANGED <<open, view, loaded, scale, tx>>

PointerMove(i) ==
    /\ open /\ pointers[i] # Up
    /\ UNCHANGED <<open, view, loaded>>
    /\ \E x \in Places \ {pointers[i]} :
          /\ pointers' = [pointers EXCEPT ![i] = x]
          /\ dragged' \in {dragged, TRUE}
          /\ IF Down = Fingers
             THEN LET now == PinchFrame(pointers') IN
                  /\ pinch' = now
                  /\ IF pinch.dist = 0 THEN UNCHANGED <<scale, tx>>
                     ELSE ZoomTo((scale * now.dist) \div pinch.dist, now.mid,
                                 tx + now.mid - pinch.mid)
             ELSE /\ UNCHANGED pinch
                  /\ IF scale > ZOOM_MIN THEN ApplyZoom(scale, tx + x - pointers[i])
                     ELSE UNCHANGED <<scale, tx>>

EndPointer(i) ==
    /\ pointers[i] # Up
    /\ pointers' = [pointers EXCEPT ![i] = Up]
    /\ pinch' = Frame(pointers')
    /\ UNCHANGED <<open, view, loaded, scale, tx, dragged>>

\* A zoomed picture goes back to fitting the screen, a fitted one goes away.
\* Escape and the button close as well.
Click ==
    /\ open /\ Down = {} /\ ~dragged
    /\ UNCHANGED <<view, loaded, pointers, pinch, dragged>>
    /\ IF scale > ZOOM_MIN THEN UNCHANGED open /\ ApplyZoom(ZOOM_MIN, 0)
       ELSE open' = FALSE /\ UNCHANGED <<scale, tx>>

Close ==
    /\ open /\ open' = FALSE
    /\ UNCHANGED <<view, loaded, scale, tx, pointers, pinch, dragged>>

\* Another picture, whose size is known once it has been decoded.
OpenZoom ==
    /\ ~open /\ open' = TRUE /\ loaded' = FALSE
    /\ pointers' = [i \in Fingers |-> Up] /\ pinch' = NoPinch /\ dragged' = FALSE
    /\ UNCHANGED view
    /\ ApplyZoom(ZOOM_MIN, 0)

Load ==
    /\ ~loaded /\ loaded' = TRUE
    /\ UNCHANGED <<open, view, pointers, pinch, dragged>>
    /\ ApplyZoom(scale, tx)

Resize ==
    /\ view' \in Views \ {view}
    /\ UNCHANGED <<open, loaded, pointers, pinch, dragged>>
    /\ IF open THEN ApplyZoom(scale, tx) ELSE UNCHANGED <<scale, tx>>

Next ==
    \/ Wheel \/ Keys \/ Click \/ Close \/ OpenZoom \/ Load \/ Resize
    \/ \E i \in Fingers : PointerDown(i) \/ PointerMove(i) \/ EndPointer(i)

Spec == Init /\ [][Next]_vars

-----------------------------------------------------------------------------
TypeOK ==
    /\ {open, loaded, dragged} \subseteq BOOLEAN /\ view \in Views
    /\ scale \in ZOOM_MIN .. ZOOM_MAX /\ tx \in Int
    /\ pointers \in [Fingers -> Int] /\ pinch \in [dist : Nat, mid : Int]

\* Whatever wheel, fingers, keys, decoding and rotation do in whatever order,
\* an open picture is not panned past its edge, and one that fits is centred;
\* and the frame of a pinch is that of the fingers that are down now.
PictureInView ==
    /\ open => Abs(tx) <= MaxX(scale, view, loaded)
    /\ open /\ scale = ZOOM_MIN => tx = 0
    /\ pinch = Frame(pointers)
=============================================================================
