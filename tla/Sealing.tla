------------------------------ MODULE Sealing ------------------------------
(***************************************************************************)
(* Keys and small sealed blobs (web/static/e2e.js): what hangs off the     *)
(* secret of a link, of a password and of a drop, and the wrapped file     *)
(* keys, names, rosters, notes and drop keys sealed on those branches.     *)
(*                                                                         *)
(* A derived key is its root and the labels on the way to it; AES-GCM      *)
(* opens what was sealed under the same key for the same additional data.  *)
(* The store hands out any blob it holds for any other.                    *)
(***************************************************************************)
EXTENDS Naturals, Sequences, FiniteSets

CONSTANTS
    Shares,     \* batches, drops and password shares, each with its own secret
    Ids,        \* manifest ids; the file each names
    Lengths,    \* lengths of bodies, in bytes of JSON
    NAME_PAD,   \* names and notes are padded to a multiple of this
    MAX_BODY,   \* and refused beyond this
    MaxSealed   \* blobs sealed

VARIABLES
    slots,      \* the blobs held, and what each was put down as
    opened      \* the last request, and what the blob it was given opened to

vars == <<slots, opened>>

BRACE == 123    \* the first byte of bare JSON

\* The longest body ends a padding, and the high byte of its length is no brace.
SealingAssumption ==
    /\ Lengths \subseteq Nat \ {0} /\ MaxSealed \in Nat
    /\ NAME_PAD \in Nat \ {0} /\ MAX_BODY \in {n * NAME_PAD : n \in 0 .. BRACE * 256}
    /\ MAX_BODY <= BRACE * 256

KINDS == {"wrap", "name", "roster", "note", "pk"}

-----------------------------------------------------------------------------
(* Key schedules: labels(), dropLabels() and the derivations.              *)

Hkdf(k, label) == [k EXCEPT !.path = Append(@, label)]
Secret(s, of) == [root |-> <<of, s>>, path |-> <<>>]

\* deriveBatchKeys: three branches of one secret.
DeriveBatchKeys(secret) ==
    [wrap |-> Hkdf(secret, "batch"), roster |-> Hkdf(secret, "roster"),
     name |-> Hkdf(secret, "name")]

\* deriveUrlKey, derivePasswordKeys: the key of a file that is its own share,
\* and the proof of a password that alone is sent.
DeriveUrlKey(secret) == Hkdf(secret, "url")
DerivePasswordKeys(s) ==
    LET master == Secret(s, "password and salt")
    IN [key |-> Hkdf(master, "enc"), auth |-> Hkdf(master, "auth"),
        roster |-> Hkdf(master, "roster"), name |-> Hkdf(master, "name")]

\* The owner's secret gives the seed of the key pair and the public link's
\* secret, and that the token and the key the public key is sealed under.
DeriveDropOwnerKeys(s) ==
    LET k == Secret(s, "drop") IN [kemSeed |-> Hkdf(k, "kem"), share |-> Hkdf(k, "share")]
DeriveDropShareKeys(shareSecret) ==
    [pk |-> Hkdf(shareSecret, "pk"), token |-> Hkdf(shareSecret, "up")]

\* A submission: what was encapsulated, salted with its ciphertext, is the
\* secret of a batch, and has a branch for the note besides.
DeriveSubmissionKeys(s) ==
    LET root == Hkdf(Secret(s, "encapsulated"), "sub")
        keys == DeriveBatchKeys(root)
    IN [wrap |-> keys.wrap, roster |-> keys.roster, name |-> keys.name,
        note |-> Hkdf(root, "note")]

KeyOf(s, kind) ==
    IF kind = "pk" THEN DeriveDropShareKeys(DeriveDropOwnerKeys(s).share).pk
    ELSE DeriveSubmissionKeys(s)[kind]

\* What a server is told of a share, and all that opens something.
Told(s) == {DerivePasswordKeys(s).auth, DeriveDropShareKeys(DeriveDropOwnerKeys(s).share).token}
Keys(s) ==
    {KeyOf(s, kind) : kind \in KINDS} \cup {DeriveUrlKey(Secret(s, "link"))}
        \cup {DerivePasswordKeys(s).key, DerivePasswordKeys(s).name, DerivePasswordKeys(s).roster}
        \cup {DeriveDropOwnerKeys(s).kemSeed, DeriveDropOwnerKeys(s).share}

-----------------------------------------------------------------------------
(* Bodies and their padding.                                               *)

PaddedKinds == {"name", "note"}
IdsOf(kind) == IF kind \in {"name", "wrap"} THEN Ids ELSE {""}

\* padNameBody: two bytes of length, the JSON, zeros.  The first names were
\* sealed as they were.
Padded(len) == ((2 + len + NAME_PAD - 1) \div NAME_PAD) * NAME_PAD
PadNameBody(body) ==
    [len |-> Padded(body.len), first |-> <<body.len \div 256, body.len % 256>>, body |-> body]
BareBody(body) == [len |-> body.len, first |-> <<BRACE, 34>>, body |-> body]

\* unpadNameBody: the length of the JSON it finds, or 0 where it gives up.
UnpadNameBody(padded) ==
    LET len == padded.first[1] * 256 + padded.first[2]
    IN IF padded.first[1] = BRACE THEN padded.len
       ELSE IF 2 + len > padded.len THEN 0 ELSE len

\* What is bound in besides the key: the file for its name, the share for its
\* roster, note and public key, nothing for a wrapped key.
AAD(s, kind, id) ==
    CASE kind = "name" -> <<"name", id>>
      [] kind = "wrap" -> <<"none">>
      [] OTHER -> <<kind, s>>

Fits(kind, len) == kind \in PaddedKinds => 2 + len <= MAX_BODY

\* sealName, sealNote, sealRoster, wrapFileKey, sealDropPublicKey.
SealBlob(s, kind, id, bare, body) ==
    [key |-> KeyOf(s, kind), aad |-> AAD(s, kind, id),
     sealed |-> IF kind \in PaddedKinds /\ ~bare THEN PadNameBody(body) ELSE BareBody(body)]

\* What is on the wire besides a nonce and a tag.
WireLen(blob) == blob.sealed.len

\* openName, openNote, openRoster, unwrapFileKey, openDropPublicKey.  A body
\* that is not cut where its JSON ends does not parse; a roster names its share.
OpensBlob(s, kind, id, blob) ==
    /\ blob.key = KeyOf(s, kind) /\ blob.aad = AAD(s, kind, id)
    /\ kind \in PaddedKinds => UnpadNameBody(blob.sealed) = blob.sealed.body.len
    /\ kind = "roster" => blob.sealed.body.share = s

-----------------------------------------------------------------------------
Unopened == <<>>
Init == slots = {} /\ opened = Unopened

\* Only names were ever sealed bare, by an earlier build.
Seal(s, kind, id, bare, len) ==
    /\ id \in IdsOf(kind) /\ (bare => kind = "name") /\ Fits(kind, len)
    /\ Cardinality(slots) < MaxSealed
    /\ \A slot \in slots : slot.at # <<s, kind, id>>
    /\ LET body == [share |-> s, kind |-> kind, id |-> id, len |-> len]
       IN slots' = slots \cup {[at |-> <<s, kind, id>>, bare |-> bare,
                                blob |-> SealBlob(s, kind, id, bare, body)]}
    /\ opened' = Unopened

\* A request for one blob, answered with any that is held.
Open(s, kind, id) ==
    /\ id \in IdsOf(kind)
    /\ \E slot \in slots :
          opened' = IF OpensBlob(s, kind, id, slot.blob)
                    THEN <<s, kind, id, slot.blob.sealed.body>> ELSE Unopened
    /\ UNCHANGED slots

Next ==
    \E s \in Shares, kind \in KINDS, id \in Ids \cup {""} :
        \/ \E bare \in BOOLEAN, len \in Lengths : Seal(s, kind, id, bare, len)
        \/ Open(s, kind, id)

Spec == Init /\ [][Next]_vars

-----------------------------------------------------------------------------
TypeOK ==
    /\ Cardinality(slots) <= MaxSealed
    /\ \A slot \in slots : slot.at \in Shares \X KINDS \X (Ids \cup {""})
    /\ opened = Unopened \/ Len(opened) = 4

\* A blob opens only as what it was sealed as, for the share and, a name, for
\* the file it was sealed for, wherever the store hands it out; and where it
\* belongs it does open.
OpensInPlace ==
    /\ opened # Unopened =>
          /\ opened[4].share = opened[1] /\ opened[4].kind = opened[2]
          /\ opened[2] = "name" => opened[4].id = opened[3]
    /\ \A slot \in slots : OpensBlob(slot.at[1], slot.at[2], slot.at[3], slot.blob)

\* A padded blob's length is one of a few whatever is in it; and what a server
\* is told to check a password or a token by is no key of anything.
NothingTold ==
    /\ \A slot \in slots : slot.at[2] \in PaddedKinds /\ ~slot.bare =>
          /\ WireLen(slot.blob) % NAME_PAD = 0 /\ WireLen(slot.blob) <= MAX_BODY
          /\ WireLen(slot.blob) - NAME_PAD < 2 + slot.blob.sealed.body.len
    /\ \A s, t \in Shares : Told(s) \cap Keys(t) = {}
=============================================================================
