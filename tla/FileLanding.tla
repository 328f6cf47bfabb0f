---------------------------- MODULE FileLanding ----------------------------
(***************************************************************************)
(* The page of a link to one file (web/static/app.js): the key from the    *)
(* fragment or the password, the sealed name, the preview the page shows   *)
(* by itself, and the download; both use the one ciphertext that getPlain  *)
(* fetches, because a fetch counts as a download of the link.              *)
(*                                                                         *)
(* What differs between container versions: up to 3 the server knows the   *)
(* name and the type; from 2 on a manifest vouches for the file, in 2 and  *)
(* 3 for its name as well; from 4 on the name comes sealed, from 5 on so   *)
(* does the type.                                                          *)
(***************************************************************************)
EXTENDS Naturals, FiniteSets

CONSTANTS MaxUnlocks, MaxClicks    \* bounds: unlocks tried, downloads clicked

LandingAssumption == MaxUnlocks \in Nat /\ MaxClicks \in Nat

Versions == 1 .. 5
Names == {"served", "sealed", "manifest"}   \* where the name shown comes from

VARIABLES
    link,       \* the link: its version, whether it has a password or a limit,
                \*   whether the type is one a browser can show, and what the
                \*   server returns: the name the sender gave, a sealed name
                \*   that opens, the manifest
    unlock,     \* per attempt: where it is
    fileKey,    \* whether the key is there
    previewKind,
    inFlight,   \* getPlain: "none", "fetching", "ready" or "failed"
    fetched,    \* downloads spent
    preview,    \* the page's own use: "no", "waiting", "shown" or "failed"
    clicks, download,   \* the button: presses, and whether one waits
    name,       \* the name shown
    saved,      \* the names files were saved under
    warning     \* the last warning

vars == <<link, unlock, fileKey, previewKind, inFlight, fetched, preview,
          clicks, download, name, saved, warning>>

Attempts == 1 .. MaxUnlocks
SealedName == link.version >= 4
ManifestNames == link.version \in {2, 3}

Init ==
    /\ link \in [version : Versions, password : BOOLEAN, limited : BOOLEAN,
                 viewable : BOOLEAN, honest : BOOLEAN, opens : BOOLEAN, manifest : BOOLEAN]
    /\ link.opens \/ link.version >= 4
    /\ link.honest \/ ManifestNames
    /\ link.manifest \/ link.version = 2
    /\ unlock = [a \in Attempts |-> "idle"]
    /\ fileKey = FALSE
    /\ previewKind = (link.version < 5 /\ link.viewable /\ ~link.limited)
    /\ inFlight = "none" /\ fetched = 0 /\ preview = "no"
    /\ clicks = 0 /\ download = FALSE
    /\ name = "served" /\ saved = {} /\ warning = "none"

-----------------------------------------------------------------------------
(* Enter in the password field starts another attempt while the lock is    *)
(* shown: only the button is disabled.                                     *)

Unlock(a) ==
    /\ unlock[a] = "idle" /\ \A b \in 1 .. a - 1 : unlock[b] # "idle"
    /\ link.password \/ a = 1
    /\ \A b \in Attempts : unlock[b] \in {"idle", "asking", "refused"}
    /\ unlock' = [unlock EXCEPT ![a] = "asking"]
    /\ UNCHANGED <<link, fileKey, previewKind, inFlight, fetched, preview,
                   clicks, download, name, saved, warning>>

Unlocked(a) ==
    /\ unlock[a] = "asking"
    /\ \/ /\ unlock' = [unlock EXCEPT ![a] = "naming"]
          /\ fileKey' = TRUE
       \/ /\ link.password /\ UNCHANGED fileKey
          /\ unlock' = [unlock EXCEPT ![a] = "refused"]
    /\ UNCHANGED <<link, previewKind, inFlight, fetched, preview, clicks,
                   download, name, saved, warning>>

(* Mutant: only a result is shared, not a fetch that is under way.         *)
GetPlainAgain ==
    /\ inFlight' = IF inFlight = "ready" THEN inFlight ELSE "fetching"
    /\ fetched' = IF inFlight = "ready" THEN fetched ELSE fetched + 1

\* getPlain: the first use fetches, every other shares what it gets, a failure
\* included.
GetPlain ==
    /\ inFlight' = IF inFlight = "none" THEN "fetching" ELSE inFlight
    /\ fetched' = IF inFlight = "none" THEN fetched + 1 ELSE fetched

\* openSealedName, and with the type it brings the decision whether there is
\* a preview; then startSession shows it.
OpenSealedName(a) ==
    /\ unlock[a] = "naming"
    /\ unlock' = [unlock EXCEPT ![a] = "in"]
    /\ IF SealedName /\ link.opens
       THEN /\ name' = "sealed"
            /\ previewKind' = (previewKind \/ (link.viewable /\ ~link.limited))
       ELSE UNCHANGED <<name, previewKind>>
    /\ warning' = IF SealedName /\ ~link.opens THEN "unsealable" ELSE warning
    /\ IF previewKind'
       THEN GetPlain /\ preview' = "waiting"
       ELSE UNCHANGED <<inFlight, fetched, preview>>
    /\ UNCHANGED <<link, fileKey, clicks, download, saved>>

Click ==
    /\ fileKey /\ ~download /\ clicks < MaxClicks
    /\ clicks' = clicks + 1 /\ download' = TRUE
    /\ GetPlain
    /\ UNCHANGED <<link, unlock, fileKey, previewKind, preview, name, saved, warning>>

\* adoptManifest: the name the manifest vouches for wins, and a difference is
\* pointed out.
AdoptManifest ==
    IF link.version = 1 THEN warning' = "legacy" /\ UNCHANGED name
    ELSE IF ManifestNames /\ ~link.honest /\ name = "served"
    THEN warning' = "renamed" /\ name' = "manifest"
    ELSE UNCHANGED <<warning, name>>

Decrypted ==
    /\ inFlight = "fetching" /\ (link.version = 2 => link.manifest)
    /\ inFlight' = "ready"
    /\ AdoptManifest
    /\ UNCHANGED <<link, unlock, fileKey, previewKind, fetched, preview, clicks,
                   download, saved>>

\* The network, a wrong key, a manifest that is missing or does not fit.
Fails ==
    /\ inFlight = "fetching" /\ inFlight' = "failed"
    /\ UNCHANGED <<link, unlock, fileKey, previewKind, fetched, preview, clicks,
                   download, name, saved, warning>>

RenderPreview ==
    /\ preview = "waiting" /\ inFlight \in {"ready", "failed"}
    /\ preview' = IF inFlight = "ready" THEN "shown" ELSE "failed"
    /\ UNCHANGED <<link, unlock, fileKey, previewKind, inFlight, fetched, clicks,
                   download, name, saved, warning>>

Save ==
    /\ download /\ inFlight \in {"ready", "failed"}
    /\ download' = FALSE
    /\ saved' = IF inFlight = "ready" THEN saved \cup {name} ELSE saved
    /\ UNCHANGED <<link, unlock, fileKey, previewKind, inFlight, fetched, preview,
                   clicks, name, warning>>

Next ==
    \/ Click \/ Decrypted \/ Fails \/ RenderPreview \/ Save
    \/ \E a \in Attempts : Unlock(a) \/ Unlocked(a) \/ OpenSealedName(a)

Spec == Init /\ [][Next]_vars

-----------------------------------------------------------------------------
TypeOK ==
    /\ unlock \in [Attempts -> {"idle", "asking", "refused", "naming", "in"}]
    /\ {fileKey, previewKind, download} \subseteq BOOLEAN
    /\ inFlight \in {"none", "fetching", "ready", "failed"} /\ fetched \in Nat
    /\ preview \in {"no", "waiting", "shown", "failed"} /\ clicks \in 0 .. MaxClicks
    /\ name \in Names /\ saved \subseteq Names
    /\ warning \in {"none", "legacy", "renamed", "unsealable"}

\* A visit spends one download at most, however many unlocks, previews and
\* clicks race; and none at all of a limited link before somebody clicks.
FetchedOnce == fetched <= 1 /\ (link.limited /\ clicks = 0 => fetched = 0)

\* Nothing is saved under a name other than the one the sender gave, when a
\* manifest says which that was; and the difference is pointed out
\* (app.js:898).
NameAuthentic ==
    ManifestNames /\ ~link.honest =>
        /\ saved \subseteq {"manifest"}
        /\ inFlight = "ready" => name = "manifest" /\ warning = "renamed"
=============================================================================
