---------------------------- MODULE ShareOptions ----------------------------
(***************************************************************************)
(* Step 1 of the upload page (web/static/app.js): the fields that state a  *)
(* link's terms, and the three independent reasons for which they may be   *)
(* read-only: the step is confirmed, a link has been made under the terms, *)
(* or Single-Use drives them.  The password, which Single-Use leaves       *)
(* alone, is one of the fields; its text is not modelled.                  *)
(***************************************************************************)
EXTENDS Integers, FiniteSets

Choices == {"never", "hour", "day", "custom"}   \* #opt-expires
Dates == {"", "week", "picked"}                 \* #opt-expires-at
Downloads == {"", "one", "many"}                \* #opt-max
Fields == {"expires", "date", "password", "max"}

VARIABLES
    value,      \* what the fields show
    before,     \* preSingleUse, or Nothing
    disabled,   \* the fields the DOM does not let one edit
    shown,      \* whether the row of the custom date is there
    singleUse, paramsConfirmed, optionsLocked

vars == <<value, before, disabled, shown, singleUse, paramsConfirmed, optionsLocked>>

Nothing == [expires |-> "never", date |-> "", max |-> ""]
Clean == [expires |-> "day", date |-> "", max |-> ""]

(* applyOptionState: what is disabled follows from the three flags.        *)
Disabled(locked, confirmed, single) ==
    IF locked \/ confirmed THEN Fields
    ELSE IF single THEN Fields \ {"password"} ELSE {}

ApplyOptionState == disabled' = Disabled(optionsLocked', paramsConfirmed', singleUse')
SyncCustomExpiry == shown' = (value'.expires = "custom")

Init ==
    /\ value = Clean /\ before = Nothing
    /\ disabled = {} /\ shown = FALSE
    /\ singleUse = FALSE /\ paramsConfirmed = FALSE /\ optionsLocked = FALSE

-----------------------------------------------------------------------------
\* A custom expiry with no date yet starts a week from now.
ChooseExpiry(c) ==
    /\ "expires" \notin disabled
    /\ value' = [value EXCEPT !.expires = c,
                              !.date = IF c = "custom" /\ @ = "" THEN "week" ELSE @]
    /\ SyncCustomExpiry
    /\ UNCHANGED <<before, disabled, singleUse, paramsConfirmed, optionsLocked>>

EnterDate(d) ==
    /\ "date" \notin disabled /\ shown
    /\ value' = [value EXCEPT !.date = d]
    /\ UNCHANGED <<before, disabled, shown, singleUse, paramsConfirmed, optionsLocked>>

EnterMax(m) ==
    /\ "max" \notin disabled
    /\ value' = [value EXCEPT !.max = m]
    /\ UNCHANGED <<before, disabled, shown, singleUse, paramsConfirmed, optionsLocked>>

\* setSingleUse: one hour and one download, and back to what there was.
SetSingleUse ==
    /\ ~(paramsConfirmed \/ optionsLocked)
    /\ IF singleUse
       THEN value' = before /\ before' = Nothing
       ELSE value' = [value EXCEPT !.expires = "hour", !.max = "one"] /\ before' = value
    /\ singleUse' = ~singleUse
    /\ UNCHANGED <<paramsConfirmed, optionsLocked>>
    /\ SyncCustomExpiry /\ ApplyOptionState

SetParamsConfirmed(on) ==
    /\ paramsConfirmed' = on
    /\ UNCHANGED <<value, before, shown, singleUse, optionsLocked>>
    /\ ApplyOptionState

Confirm == ~paramsConfirmed /\ SetParamsConfirmed(TRUE)
EditStep == paramsConfirmed /\ ~optionsLocked /\ SetParamsConfirmed(FALSE)

\* ensureBatch has made a link, perhaps after the step was opened again.
SetOptionsLocked ==
    /\ ~optionsLocked /\ optionsLocked' = TRUE
    /\ UNCHANGED <<value, before, shown, singleUse, paramsConfirmed>>
    /\ ApplyOptionState

NewLink ==
    /\ optionsLocked /\ optionsLocked' = FALSE /\ paramsConfirmed' = FALSE
    /\ UNCHANGED <<value, before, shown, singleUse>>
    /\ ApplyOptionState

\* The page comes back out of the browser's cache: the form starts clean, but
\* a link that was made is still there.
ResetOptions ==
    /\ value' = Clean /\ before' = Nothing
    /\ singleUse' = FALSE /\ paramsConfirmed' = FALSE
    /\ UNCHANGED optionsLocked
    /\ SyncCustomExpiry /\ ApplyOptionState

\* snapshotOptions, as the server reads it (parseExpiry, parseMaxDownloads):
\* a custom expiry without a date sends none, which is a link without end.
SnapshotOptions ==
    [expires |-> IF value.expires # "custom" THEN value.expires
                 ELSE IF value.date # "" THEN value.date ELSE "never",
     max |-> value.max]

Next ==
    \/ \E c \in Choices : ChooseExpiry(c)
    \/ \E d \in Dates : EnterDate(d)
    \/ \E m \in Downloads : EnterMax(m)
    \/ SetSingleUse \/ Confirm \/ EditStep
    \/ SetOptionsLocked \/ NewLink \/ ResetOptions

Spec == Init /\ [][Next]_vars

-----------------------------------------------------------------------------
TypeOK ==
    /\ value \in [expires : Choices, date : Dates, max : Downloads]
    /\ before \in [expires : Choices, date : Dates, max : Downloads]
    /\ disabled \subseteq Fields
    /\ {shown, singleUse, paramsConfirmed, optionsLocked} \subseteq BOOLEAN

\* No order of confirming, editing, locking, unlocking, Single-Use and a
\* return from the cache frees a field that one of the three reasons still
\* holds (app.js:2817), so that a Single-Use link is sent as one hour and one
\* download; and turning it off gives back a form whose date row fits it.
TermsHeld ==
    /\ optionsLocked \/ paramsConfirmed => disabled = Fields
    /\ singleUse => /\ SnapshotOptions = [expires |-> "hour", max |-> "one"]
                    /\ Fields \ {"password"} \subseteq disabled
    /\ shown = (value.expires = "custom")
=============================================================================
