---------------------------- MODULE StorageBars ----------------------------
(***************************************************************************)
(* The storage bars of the page (web/static/app.js): every upload that     *)
(* lands asks for a refresh, refreshes are put off and coalesced, and one  *)
(* that is asked for while another is in flight is remembered.             *)
(***************************************************************************)
EXTENDS Naturals

CONSTANT MaxLanded      \* bound: uploads that land

BarsAssumption == MaxLanded \in Nat

VARIABLES
    landed,         \* uploads that have landed; the server knows of them
    barsTimer,      \* a refresh is scheduled
    barsInFlight, barsAgain,
    answer,         \* what the request in flight will say, or Unanswered
    shown,          \* the uploads the bars account for
    failed          \* the last request brought nothing

vars == <<landed, barsTimer, barsInFlight, barsAgain, answer, shown, failed>>

Unanswered == MaxLanded + 1

Init ==
    /\ landed = 0 /\ shown = 0 /\ answer = Unanswered
    /\ barsTimer = FALSE /\ barsInFlight = FALSE /\ barsAgain = FALSE
    /\ failed = FALSE

\* An upload lands, and refreshStorageBars starts the timer anew.
RefreshStorageBars ==
    /\ landed < MaxLanded
    /\ landed' = landed + 1 /\ barsTimer' = TRUE
    /\ UNCHANGED <<barsInFlight, barsAgain, answer, shown, failed>>

FetchStorageBars ==
    IF barsInFlight
    THEN barsAgain' = TRUE /\ UNCHANGED <<barsInFlight, answer>>
    ELSE barsInFlight' = TRUE /\ answer' = Unanswered /\ UNCHANGED barsAgain

TimerFires ==
    /\ barsTimer /\ barsTimer' = FALSE
    /\ FetchStorageBars
    /\ UNCHANGED <<landed, shown, failed>>

\* The server looks at what has landed by now.
UsageAnswers ==
    /\ barsInFlight /\ answer = Unanswered
    /\ answer' = landed
    /\ UNCHANGED <<landed, barsTimer, barsInFlight, barsAgain, shown, failed>>

(* Mutant: a refresh that was asked for meanwhile is not started.          *)
FetchAgainForgotten ==
    /\ barsInFlight' = FALSE /\ UNCHANGED barsAgain
    /\ answer' = Unanswered

\* However the request ends, one that was asked for meanwhile follows.
FetchAgain ==
    /\ barsInFlight' = barsAgain /\ barsAgain' = FALSE
    /\ answer' = Unanswered

SwapBars ==
    /\ answer # Unanswered
    /\ shown' = answer /\ failed' = FALSE
    /\ FetchAgain /\ UNCHANGED <<landed, barsTimer>>

\* Offline, or not signed in any more: the bars stay as they are.
FetchFails ==
    /\ barsInFlight /\ failed' = TRUE
    /\ FetchAgain /\ UNCHANGED <<landed, barsTimer, shown>>

Next == RefreshStorageBars \/ TimerFires \/ UsageAnswers \/ SwapBars \/ FetchFails
Spec == Init /\ [][Next]_vars

-----------------------------------------------------------------------------
TypeOK ==
    /\ landed \in 0 .. MaxLanded /\ shown \in 0 .. MaxLanded /\ answer \in 0 .. MaxLanded + 1
    /\ {barsTimer, barsInFlight, barsAgain, failed} \subseteq BOOLEAN
    /\ barsAgain \/ answer # Unanswered => barsInFlight

\* When nothing is scheduled or in flight the bars show every upload that has
\* landed, unless the last request failed: none is lost between two requests,
\* and no old answer replaces a newer one (app.js:661).
BarsCatchUp ==
    /\ ~barsTimer /\ ~barsInFlight /\ ~failed => shown = landed
    /\ answer # Unanswered => answer >= shown
=============================================================================
