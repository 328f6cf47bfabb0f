------------------------ MODULE BrowserSealingProofs ------------------------
(***************************************************************************)
(* What was sealed opens, and nothing opens as what it is not, for files   *)
(* of any length, chunks and counters of any size, and any secrets,        *)
(* lengths and blobs: small blobs open in place only (module Sealing), and *)
(* a stored object opens to its file whatever is served (Container).       *)
(* Last, the client as a whole: its uploads are those of UploadPage, and   *)
(* every part of it stays of its type.                                     *)
(***************************************************************************)
EXTENDS BrowserFilesProofs, UploadPageProofs

-----------------------------------------------------------------------------
(* Sealed blobs.                                                           *)

LEMMA LengthsTyped == \A len \in Lengths : len \in Nat
BY BrowserAssumption DEF Blobs!SealingAssumption

LEMMA SealingConstants ==
  /\ NAME_PAD \in Nat \ {0} /\ MAX_BODY \in Nat /\ MAX_BODY <= 31488
  /\ \E n \in Nat : MAX_BODY = n * NAME_PAD
<1>1. Blobs!SealingAssumption
  BY BrowserAssumption
<1>2. NAME_PAD \in Nat \ {0}
  BY <1>1 DEF Blobs!SealingAssumption
<1>3. MAX_BODY \in {n * NAME_PAD : n \in 0 .. Blobs!BRACE * 256} /\ MAX_BODY <= Blobs!BRACE * 256
  BY <1>1 DEF Blobs!SealingAssumption
<1>4. 0 .. Blobs!BRACE * 256 \subseteq Nat /\ Blobs!BRACE * 256 = 31488
  BY DEF Blobs!BRACE
<1>5. \E n \in Nat : MAX_BODY = n * NAME_PAD
  <2> DEFINE counts == 0 .. Blobs!BRACE * 256
  <2>1. counts \subseteq Nat /\ MAX_BODY \in {n * NAME_PAD : n \in counts}
    BY <1>3, <1>4
  <2> HIDE DEF counts
  <2> QED
    BY <2>1, Zenon
<1>6. MAX_BODY \in Nat
  BY <1>2, <1>5
<1>7. MAX_BODY <= 31488
  BY <1>3, <1>4
<1> QED
  BY <1>2, <1>5, <1>6, <1>7

(* What is put down is a blob that was sealed for the place it is put.     *)
Body(s, sort, id, len) == [share |-> s, kind |-> sort, id |-> id, len |-> len]
SlotInv(slot) ==
    \E s, sort, id, len :
        /\ s \in Shares /\ sort \in Blobs!KINDS /\ len \in Lengths
        /\ Blobs!Fits(sort, len) /\ slot.at = <<s, sort, id>>
        /\ slot.blob.key = Blobs!KeyOf(s, sort) /\ slot.blob.aad = Blobs!AAD(s, sort, id)
        /\ slot.blob.sealed = IF sort \in Blobs!PaddedKinds /\ ~slot.bare
                              THEN Blobs!PadNameBody(Body(s, sort, id, len))
                              ELSE Blobs!BareBody(Body(s, sort, id, len))

BlobsInv ==
    /\ \A slot \in slots : SlotInv(slot)
    /\ blobOpened # Blobs!Unopened =>
          /\ blobOpened[4].share = blobOpened[1] /\ blobOpened[4].kind = blobOpened[2]
          /\ blobOpened[2] = "name" => blobOpened[4].id = blobOpened[3]

(* The label a key has on its branch, and the root it hangs off.           *)
LEMMA Branches ==
  ASSUME NEW s, NEW of, NEW a, NEW b
  PROVE  /\ Blobs!Hkdf(Blobs!Secret(s, of), a) = [root |-> <<of, s>>, path |-> <<a>>]
         /\ Blobs!Hkdf(Blobs!Hkdf(Blobs!Secret(s, of), a), b)
               = [root |-> <<of, s>>, path |-> <<a, b>>]
<1>1. \A root, path, label :
         Blobs!Hkdf([root |-> root, path |-> path], label) = [root |-> root, path |-> Append(path, label)]
  BY DEF Blobs!Hkdf
<1>2. Append(<<>>, a) = <<a>>
  OBVIOUS
<1>3. Append(<<a>>, b) = <<a, b>>
  <2> DEFINE S == {a, b}
             one == Append(<<a>>, b)
             two == <<a, b>>
  <2>1. /\ one \in Seq(S) /\ two \in Seq(S) /\ Len(one) = Len(two)
        /\ \A i \in 1 .. Len(one) : one[i] = two[i]
    OBVIOUS
  <2> HIDE DEF S, one, two
  <2>2. one = two
    BY <2>1, SeqEqual
  <2> QED
    BY <2>2 DEF one, two
<1>4. Blobs!Secret(s, of) = [root |-> <<of, s>>, path |-> <<>>]
  BY DEF Blobs!Secret
<1>5. Blobs!Hkdf([root |-> <<of, s>>, path |-> <<>>], a)
         = [root |-> <<of, s>>, path |-> Append(<<>>, a)]
  BY <1>1
<1>6. Blobs!Hkdf(Blobs!Secret(s, of), a) = [root |-> <<of, s>>, path |-> <<a>>]
  BY <1>2, <1>4, <1>5
<1>7. Blobs!Hkdf([root |-> <<of, s>>, path |-> <<a>>], b)
         = [root |-> <<of, s>>, path |-> Append(<<a>>, b)]
  BY <1>1
<1> QED
  BY <1>3, <1>6, <1>7

LEMMA KeyPaths ==
  ASSUME NEW s
  PROVE  /\ Blobs!KeyOf(s, "pk") = [root |-> <<"drop", s>>, path |-> <<"share", "pk">>]
         /\ \A sort \in {"roster", "name", "note"} :
               Blobs!KeyOf(s, sort) = [root |-> <<"encapsulated", s>>, path |-> <<"sub", sort>>]
         /\ Blobs!KeyOf(s, "wrap") = [root |-> <<"encapsulated", s>>, path |-> <<"sub", "batch">>]
<1>1. /\ Blobs!KeyOf(s, "pk") = Blobs!Hkdf(Blobs!Hkdf(Blobs!Secret(s, "drop"), "share"), "pk")
      /\ \A sort \in {"roster", "name", "note"} : Blobs!KeyOf(s, sort)
            = Blobs!Hkdf(Blobs!Hkdf(Blobs!Secret(s, "encapsulated"), "sub"), sort)
      /\ Blobs!KeyOf(s, "wrap")
            = Blobs!Hkdf(Blobs!Hkdf(Blobs!Secret(s, "encapsulated"), "sub"), "batch")
  BY DEF Blobs!KeyOf, Blobs!DeriveDropShareKeys, Blobs!DeriveDropOwnerKeys,
         Blobs!DeriveSubmissionKeys, Blobs!DeriveBatchKeys
<1> QED
  BY <1>1, Branches

LEMMA KeyDistinct ==
  ASSUME NEW s, NEW t, NEW k, NEW l, k \in Blobs!KINDS, l \in Blobs!KINDS,
         Blobs!KeyOf(s, k) = Blobs!KeyOf(t, l)
  PROVE  s = t /\ k = l
<1> DEFINE Label(sort) == IF sort = "wrap" THEN "batch" ELSE sort
<1>1. ASSUME NEW u, NEW m, m \in Blobs!KINDS
      PROVE  Blobs!KeyOf(u, m).root[2] = u /\ Blobs!KeyOf(u, m).path[2] = Label(m)
  BY <1>1, KeyPaths DEF Blobs!KINDS
<1>2. s = t /\ Label(k) = Label(l)
  BY <1>1
<1>3. \A m, n \in Blobs!KINDS : Label(m) = Label(n) => m = n
  BY DEF Blobs!KINDS
<1> QED
  BY <1>2, <1>3

LEMMA Paddings ==
  ASSUME NEW len, len \in Nat, 2 + len <= MAX_BODY
  PROVE  /\ Blobs!Padded(len) \in Nat /\ 2 + len <= Blobs!Padded(len)
         /\ Blobs!Padded(len) <= MAX_BODY /\ Blobs!Padded(len) - NAME_PAD < 2 + len
         /\ Blobs!Padded(len) % NAME_PAD = 0
<1> DEFINE y == 2 + len + NAME_PAD - 1
           q == y \div NAME_PAD
<1>1. PICK n \in Nat : MAX_BODY = n * NAME_PAD
  BY SealingConstants
<1>2. NAME_PAD \in Nat \ {0} /\ n \in Nat /\ n * NAME_PAD \in Nat /\ y \in Nat
  <2>1. NAME_PAD \in Nat \ {0} /\ MAX_BODY \in Nat
    BY SealingConstants
  <2> QED
    BY <1>1, <2>1
<1>3. y = len + NAME_PAD + 1 /\ len + 2 <= n * NAME_PAD
  BY <1>1, <1>2
<1> HIDE DEF y
<1>4. q \in Nat /\ q * NAME_PAD <= y /\ y < q * NAME_PAD + NAME_PAD
  BY <1>2
<1> HIDE DEF q
<1>5. q * NAME_PAD \in Nat /\ (q * NAME_PAD) % NAME_PAD = 0
  BY <1>2, <1>4
<1>6. q * NAME_PAD <= n * NAME_PAD
  <2>1. q * NAME_PAD < (n + 1) * NAME_PAD
    <3>1. (n + 1) * NAME_PAD = n * NAME_PAD + NAME_PAD
      BY <1>2
    <3> QED
      BY <1>2, <1>3, <1>4, <1>5, <3>1
  <2>2. q < n + 1
    BY <1>2, <1>4, <2>1
  <2>3. q <= n
    BY <1>2, <1>4, <2>2
  <2> QED
    BY <1>2, <1>4, <2>3
<1>7. Blobs!Padded(len) = q * NAME_PAD
  BY DEF Blobs!Padded, q, y
<1>8. q * NAME_PAD >= 2 + len /\ q * NAME_PAD - NAME_PAD < 2 + len
  BY <1>2, <1>3, <1>4, <1>5
<1> QED
  BY <1>1, <1>5, <1>6, <1>7, <1>8

(* The first two bytes of a body that was padded give back its length.     *)
LEMMA Unpads ==
  ASSUME NEW len, len \in Nat, 2 + len <= MAX_BODY, NEW body, body.len = len
  PROVE  Blobs!UnpadNameBody(Blobs!PadNameBody(body)) = len
<1> DEFINE high == len \div 256
           low == len % 256
<1>1. len < 31488 /\ 2 + len <= Blobs!Padded(len) /\ Blobs!Padded(len) \in Nat
  BY SealingConstants, Paddings
<1>2. high \in Nat /\ high # 123 /\ high * 256 + low = len
  BY <1>1
<1> HIDE DEF high, low
<1> DEFINE padded == Blobs!PadNameBody(body)
<1>3. padded.len = Blobs!Padded(len) /\ padded.first[1] = high /\ padded.first[2] = low
  BY DEF Blobs!PadNameBody, high, low
<1> HIDE DEF padded
<1>4. padded.first[1] # Blobs!BRACE /\ padded.first[1] * 256 + padded.first[2] = len
  BY <1>2, <1>3 DEF Blobs!BRACE
<1>5. ~(2 + len > padded.len)
  BY <1>1, <1>3
<1>6. Blobs!UnpadNameBody(padded) = len
  BY <1>4, <1>5 DEF Blobs!UnpadNameBody
<1> QED
  BY <1>6 DEF padded

LEMMA InPlace ==
  ASSUME NEW slot, SlotInv(slot)
  PROVE  /\ Blobs!OpensBlob(slot.at[1], slot.at[2], slot.at[3], slot.blob)
         /\ slot.at[2] \in Blobs!PaddedKinds /\ ~slot.bare =>
               /\ Blobs!WireLen(slot.blob) % NAME_PAD = 0 /\ Blobs!WireLen(slot.blob) <= MAX_BODY
               /\ Blobs!WireLen(slot.blob) - NAME_PAD < 2 + slot.blob.sealed.body.len
<1>1. PICK s, sort, id, len :
         /\ s \in Shares /\ sort \in Blobs!KINDS /\ len \in Lengths
         /\ Blobs!Fits(sort, len) /\ slot.at = <<s, sort, id>>
         /\ slot.blob.key = Blobs!KeyOf(s, sort) /\ slot.blob.aad = Blobs!AAD(s, sort, id)
         /\ slot.blob.sealed = IF sort \in Blobs!PaddedKinds /\ ~slot.bare
                               THEN Blobs!PadNameBody(Body(s, sort, id, len))
                               ELSE Blobs!BareBody(Body(s, sort, id, len))
  BY DEF SlotInv
<1> DEFINE body == Body(s, sort, id, len)
           held == slot.blob
<1>2. /\ slot.at[1] = s /\ slot.at[2] = sort /\ slot.at[3] = id
      /\ held.key = Blobs!KeyOf(s, sort) /\ held.aad = Blobs!AAD(s, sort, id)
  BY <1>1
<1>3. body.share = s /\ body.len = len
  BY DEF Body
<1>4. len \in Nat
  BY <1>1, LengthsTyped
<1>5. ASSUME sort \in Blobs!PaddedKinds, ~slot.bare
      PROVE  held.sealed = Blobs!PadNameBody(body) /\ 2 + len <= MAX_BODY
  BY <1>1, <1>5 DEF Blobs!Fits
<1>6. ASSUME ~(sort \in Blobs!PaddedKinds /\ ~slot.bare)
      PROVE  held.sealed = Blobs!BareBody(body)
  BY <1>1, <1>6
<1> HIDE DEF body, held
<1>7. CASE sort \in Blobs!PaddedKinds /\ ~slot.bare
  <2>1. held.sealed = Blobs!PadNameBody(body) /\ 2 + len <= MAX_BODY
    BY <1>5, <1>7
  <2>2. held.sealed.len = Blobs!Padded(body.len) /\ held.sealed.body = body
    BY ONLY <2>1 DEF Blobs!PadNameBody
  <2>3. held.sealed.len = Blobs!Padded(len) /\ held.sealed.body.len = len /\ held.sealed.body.share = s
    BY <1>3, <2>2
  <2>4. Blobs!UnpadNameBody(held.sealed) = len
    BY <1>3, <1>4, <2>1, Unpads
  <2>5. Blobs!OpensBlob(s, sort, id, held)
    BY <1>2, <2>3, <2>4 DEF Blobs!OpensBlob
  <2>6. /\ Blobs!WireLen(held) % NAME_PAD = 0 /\ Blobs!WireLen(held) <= MAX_BODY
        /\ Blobs!WireLen(held) - NAME_PAD < 2 + held.sealed.body.len
    BY <1>4, <2>1, <2>3, Paddings DEF Blobs!WireLen
  <2> QED
    BY <1>2, <2>5, <2>6 DEF held
<1>8. CASE ~(sort \in Blobs!PaddedKinds /\ ~slot.bare)
  <2>1. held.sealed = Blobs!BareBody(body)
    BY <1>6, <1>8
  <2>2. /\ held.sealed.len = body.len /\ held.sealed.body = body
        /\ held.sealed.first[1] = Blobs!BRACE
    BY ONLY <2>1 DEF Blobs!BareBody
  <2>3. Blobs!UnpadNameBody(held.sealed) = held.sealed.body.len /\ held.sealed.body.share = s
    BY <1>3, <2>2 DEF Blobs!UnpadNameBody
  <2>4. Blobs!OpensBlob(s, sort, id, held)
    BY <1>2, <2>3 DEF Blobs!OpensBlob
  <2> QED
    BY <1>2, <1>8, <2>4 DEF held
<1> QED
  BY <1>7, <1>8

LEMMA SealStep ==
  ASSUME BlobsInv, NEW s \in Shares, NEW sort \in Blobs!KINDS, NEW id,
         NEW bare \in BOOLEAN, NEW len \in Lengths, Blobs!Seal(s, sort, id, bare, len)
  PROVE  BlobsInv'
<1> DEFINE new == [at |-> <<s, sort, id>>, bare |-> bare,
                   blob |-> Blobs!SealBlob(s, sort, id, bare, Body(s, sort, id, len))]
<1>1. slots' = slots \cup {new} /\ blobOpened' = Blobs!Unopened
  BY DEF Blobs!Seal, Body
<1>2. SlotInv(new)
  BY DEF Blobs!Seal, Blobs!SealBlob, SlotInv
<1> HIDE DEF new
<1>3. Blobs!Unopened' = Blobs!Unopened
  BY DEF Blobs!Unopened
<1> QED
  BY <1>1, <1>2, <1>3 DEF BlobsInv

LEMMA OpenStep ==
  ASSUME BlobsInv, NEW s \in Shares, NEW sort \in Blobs!KINDS, NEW id,
         Blobs!Open(s, sort, id)
  PROVE  BlobsInv'
<1>1. PICK slot \in slots :
         blobOpened' = IF Blobs!OpensBlob(s, sort, id, slot.blob)
                       THEN <<s, sort, id, slot.blob.sealed.body>> ELSE Blobs!Unopened
  BY DEF Blobs!Open
<1>2. UNCHANGED slots /\ Blobs!Unopened' = Blobs!Unopened
  BY DEF Blobs!Open, Blobs!Unopened
<1>3. CASE ~Blobs!OpensBlob(s, sort, id, slot.blob)
  BY <1>1, <1>2, <1>3 DEF BlobsInv
<1>4. CASE Blobs!OpensBlob(s, sort, id, slot.blob)
  <2>0. SlotInv(slot)
    BY DEF BlobsInv
  <2>1. PICK t, k, i, len :
           /\ t \in Shares /\ k \in Blobs!KINDS
           /\ slot.blob.key = Blobs!KeyOf(t, k) /\ slot.blob.aad = Blobs!AAD(t, k, i)
           /\ \/ slot.blob.sealed = Blobs!PadNameBody(Body(t, k, i, len))
              \/ slot.blob.sealed = Blobs!BareBody(Body(t, k, i, len))
    BY <2>0 DEF SlotInv
  <2> DEFINE body == slot.blob.sealed.body
  <2>2. body = Body(t, k, i, len)
    BY <2>1 DEF Blobs!PadNameBody, Blobs!BareBody
  <2> HIDE DEF body
  <2>3. t = s /\ k = sort
    <3>1. Blobs!KeyOf(t, k) = Blobs!KeyOf(s, sort)
      BY <1>4, <2>1 DEF Blobs!OpensBlob
    <3> QED
      BY ONLY <2>1, <3>1, KeyDistinct, sort \in Blobs!KINDS
  <2>4. sort = "name" => i = id
    <3>1. Blobs!AAD(t, k, i) = Blobs!AAD(s, sort, id)
      BY <1>4, <2>1 DEF Blobs!OpensBlob
    <3> QED
      BY <2>3, <3>1 DEF Blobs!AAD
  <2>5. body.share = s /\ body.kind = sort /\ (sort = "name" => body.id = id)
    BY <2>2, <2>3, <2>4 DEF Body
  <2>6. blobOpened' = <<s, sort, id, body>>
    BY <1>1, <1>4 DEF body
  <2> QED
    BY <1>2, <2>5, <2>6 DEF BlobsInv
<1> QED
  BY <1>3, <1>4

(* No key of anything ends its branch where one of the two proofs does.    *)
LEMMA NothingKept ==
  ASSUME NEW s, NEW t
  PROVE  Blobs!Told(s) \cap Blobs!Keys(t) = {}
<1>1. ASSUME NEW u, NEW of, NEW a, NEW b
      PROVE  /\ LET p == Blobs!Hkdf(Blobs!Secret(u, of), a).path IN Len(p) = 1 /\ p[1] = a
             /\ LET p == Blobs!Hkdf(Blobs!Hkdf(Blobs!Secret(u, of), a), b).path
                IN  Len(p) = 2 /\ p[1] = a /\ p[2] = b
  BY Branches
<1>2. ASSUME NEW k, k \in Blobs!Told(s)
      PROVE  k.path[1] = "auth" \/ (Len(k.path) = 2 /\ k.path[1] = "share" /\ k.path[2] = "up")
  <2>1. \/ k = Blobs!Hkdf(Blobs!Secret(s, "password and salt"), "auth")
        \/ k = Blobs!Hkdf(Blobs!Hkdf(Blobs!Secret(s, "drop"), "share"), "up")
    BY <1>2 DEF Blobs!Told, Blobs!DerivePasswordKeys, Blobs!DeriveDropShareKeys,
                Blobs!DeriveDropOwnerKeys
  <2>4. \A of, a : Blobs!Hkdf(Blobs!Secret(s, of), a).path[1] = a
    BY <1>1
  <2>2. Blobs!Hkdf(Blobs!Secret(s, "password and salt"), "auth").path[1] = "auth"
    BY <2>4
  <2>3. LET p == Blobs!Hkdf(Blobs!Hkdf(Blobs!Secret(s, "drop"), "share"), "up").path
        IN  Len(p) = 2 /\ p[1] = "share" /\ p[2] = "up"
    BY <1>1
  <2> QED
    BY <2>1, <2>2, <2>3
<1>3. ASSUME NEW k, k \in Blobs!Keys(t)
      PROVE  \/ Len(k.path) = 1 /\ k.path[1] # "auth"
             \/ k.path[1] = "sub"
             \/ k.path[1] = "share" /\ k.path[2] = "pk"
  <2>1. CASE \E sort \in Blobs!KINDS : k = Blobs!KeyOf(t, sort)
    BY <2>1, KeyPaths DEF Blobs!KINDS
  <2>2. CASE ~\E sort \in Blobs!KINDS : k = Blobs!KeyOf(t, sort)
    <3>1. \/ k = Blobs!Hkdf(Blobs!Secret(t, "link"), "url")
          \/ k = Blobs!Hkdf(Blobs!Secret(t, "password and salt"), "enc")
          \/ k = Blobs!Hkdf(Blobs!Secret(t, "password and salt"), "name")
          \/ k = Blobs!Hkdf(Blobs!Secret(t, "password and salt"), "roster")
          \/ k = Blobs!Hkdf(Blobs!Secret(t, "drop"), "kem")
          \/ k = Blobs!Hkdf(Blobs!Secret(t, "drop"), "share")
      BY <1>3, <2>2 DEF Blobs!Keys, Blobs!DeriveUrlKey, Blobs!DerivePasswordKeys,
                        Blobs!DeriveDropOwnerKeys
    <3>2. \A of, a : LET p == Blobs!Hkdf(Blobs!Secret(t, of), a).path IN Len(p) = 1 /\ p[1] = a
      BY <1>1
    <3>3. CASE k = Blobs!Hkdf(Blobs!Secret(t, "link"), "url")
      BY <3>2, <3>3
    <3>4. CASE k = Blobs!Hkdf(Blobs!Secret(t, "password and salt"), "enc")
      BY <3>2, <3>4
    <3>5. CASE k = Blobs!Hkdf(Blobs!Secret(t, "password and salt"), "name")
      BY <3>2, <3>5
    <3>6. CASE k = Blobs!Hkdf(Blobs!Secret(t, "password and salt"), "roster")
      BY <3>2, <3>6
    <3>7. CASE k = Blobs!Hkdf(Blobs!Secret(t, "drop"), "kem")
      BY <3>2, <3>7
    <3>8. CASE k = Blobs!Hkdf(Blobs!Secret(t, "drop"), "share")
      BY <3>2, <3>8
    <3> QED
      BY <3>1, <3>3, <3>4, <3>5, <3>6, <3>7, <3>8
  <2> QED
    BY <2>1, <2>2
<1> QED
  BY <1>2, <1>3

LEMMA SealingInit == BrowserInit => BlobsInv
BY DEF BrowserInit, Blobs!Init, BlobsInv

LEMMA SealedOpens ==
  ASSUME BlobsInv
  PROVE  Blobs!OpensInPlace /\ Blobs!NothingTold
<1>1. \A slot \in slots : SlotInv(slot)
  BY DEF BlobsInv
<1>2. Blobs!OpensInPlace
  BY <1>1, InPlace DEF BlobsInv, Blobs!OpensInPlace
<1>3. Blobs!NothingTold
  BY <1>1, InPlace, NothingKept DEF Blobs!NothingTold
<1> QED
  BY <1>2, <1>3

-----------------------------------------------------------------------------
(* One sequence after another.                                             *)
Joined(f, s, S, n, base) ==
    /\ f \in [0 .. n -> S] /\ f[0] = base
    /\ \A i \in 1 .. n : f[i] = f[i - 1] \o s[i]

LEMMA Joins ==
  ASSUME NEW S, NEW n, NEW s, NEW base, n \in Nat, base \in S,
         \A q \in S, i \in 1 .. n : q \o s[i] \in S
  PROVE  \E f : Joined(f, s, S, n, base)
<1> DEFINE next == [p \in S \X (1 .. n) |-> p[1] \o s[p[2]]]
<1>1. next \in Moves(S, n)
  BY DEF Moves
<1>2. \A q \in S, i \in 1 .. n : next[<<q, i>>] = q \o s[i]
  OBVIOUS
<1> HIDE DEF next
<1>3. PICK f : Runs(f, S, n, base, next)
  BY <1>1, Recursion
<1>4. \A i \in 1 .. n : i - 1 \in 0 .. n
  OBVIOUS
<1>5. Joined(f, s, S, n, base)
  BY <1>2, <1>3, <1>4 DEF Joined, Runs
<1> QED
  BY <1>5

LEMMA Flattening ==
  ASSUME NEW A, NEW s, s \in Seq(Seq(A))
  PROVE  \E f \in [0 .. Len(s) -> Seq(A)] :
            /\ f[0] = <<>> /\ \A i \in 1 .. Len(s) : f[i] = f[i - 1] \o s[i]
            /\ Object!FlattenSeq(s) = f[Len(s)]
<1> DEFINE S == Seq(A)
           n == Len(s)
           body(g) == [i \in 1 .. n |-> IF i = 1 THEN s[i] ELSE g[i - 1] \o s[i]]
           flatten == CHOOSE g : g = body(g)
<1>1. /\ n \in Nat /\ <<>> \in S /\ \A i \in 1 .. n : s[i] \in S
      /\ \A q \in S, i \in 1 .. n : q \o s[i] \in S
  <2>1. n \in Nat /\ \A i \in 1 .. n : s[i] \in S
    BY LenProperties, ElementOfSeq
  <2>2. \A q, r \in S : q \o r \in S
    BY ConcatProperties
  <2> QED
    BY <2>1, <2>2
<1>2. \A q \in S : <<>> \o q = q
  BY ConcatEmptySeq
<1> HIDE DEF S
<1> DEFINE none == <<>>
<1>3. none \in S /\ n \in Nat /\ \A q \in S, i \in 1 .. n : q \o s[i] \in S
  BY <1>1
<1>4. PICK f : Joined(f, s, S, n, none)
  <2> HIDE DEF none, n
  <2> QED
    BY <1>3, Joins
<1>5. f \in [0 .. n -> S] /\ f[0] = <<>> /\ \A i \in 1 .. n : f[i] = f[i - 1] \o s[i]
  BY <1>4 DEF Joined
<1>6. \A i \in 1 .. n : f[i - 1] \in S /\ f[i] \in S /\ f[i] = f[i - 1] \o s[i]
  <2>1. \A i \in 1 .. n : i \in 0 .. n /\ i - 1 \in 0 .. n
    BY <1>1
  <2> QED
    BY <1>5, <2>1
<1> DEFINE h == [i \in 1 .. n |-> f[i]]
<1>7. h = body(h)
  <2>1. ASSUME NEW i \in 1 .. n PROVE h[i] = body(h)[i]
    <3>1. CASE i = 1
      BY <1>1, <1>2, <1>5, <1>6, <3>1
    <3>2. CASE i # 1
      <4>1. i - 1 \in 1 .. n
        BY <1>1, <3>2
      <4> QED
        BY <1>6, <3>2, <4>1
    <3> QED
      BY <3>1, <3>2
  <2> QED
    BY <2>1
<1>8. flatten = body(flatten)
  BY <1>7
<1>9. n # 0 => Object!FlattenSeq(s) = flatten[n]
  BY DEF Object!FlattenSeq
<1>10. \A i \in 1 .. n : flatten[i] = IF i = 1 THEN s[i] ELSE flatten[i - 1] \o s[i]
  <2> HIDE DEF flatten
  <2> QED
    BY <1>8
<1> HIDE DEF flatten
<1> DEFINE T == {k \in Nat : k = 0 \/ k > n \/ flatten[k] = f[k]}
<1>11. ASSUME NEW k \in Nat, k \in T PROVE k + 1 \in T
  <2>1. CASE k + 1 > n
    BY <2>1
  <2>2. CASE k = 0 /\ k + 1 <= n
    <3>1. 1 \in 1 .. n /\ s[1] \in S
      BY <1>1, <2>2
    <3>2. f[1] = f[0] \o s[1] /\ flatten[1] = s[1]
      <4> DEFINE i == 1
      <4>1. i \in 1 .. n /\ i - 1 = 0
        BY <3>1
      <4> HIDE DEF i
      <4>2. f[i] = f[0] \o s[i]
        BY <1>6, <4>1
      <4> QED
        BY <1>10, <3>1, <4>2 DEF i
    <3> QED
      BY <1>2, <1>5, <2>2, <3>1, <3>2
  <2>3. CASE k # 0 /\ k + 1 <= n
    <3> DEFINE i == k + 1
    <3>1. flatten[k] = f[k] /\ i \in 1 .. n /\ i # 1 /\ i - 1 = k /\ i \in Nat
      BY <1>1, <1>11, <2>3
    <3> HIDE DEF i
    <3>2. flatten[i] = flatten[i - 1] \o s[i] /\ f[i] = f[i - 1] \o s[i]
      BY <1>6, <1>10, <3>1
    <3>3. flatten[i] = f[i]
      BY <3>1, <3>2
    <3> QED
      BY <3>1, <3>3 DEF i
  <2> QED
    BY <1>1, <2>1, <2>2, <2>3
<1>12. n \in T
  <2>1. 0 \in T
    OBVIOUS
  <2> HIDE DEF T
  <2> QED
    BY <1>1, <1>11, <2>1, FromZero
<1>13. Object!FlattenSeq(s) = f[n]
  <2>1. CASE n = 0
    <3>1. s = <<>>
      BY <2>1, EmptySeq
    <3> QED
      BY <1>5, <2>1, <3>1 DEF Object!FlattenSeq
  <2>2. CASE n # 0
    BY <1>1, <1>9, <1>12, <2>2
  <2> QED
    BY <2>1, <2>2
<1> QED
  BY <1>5, <1>6, <1>13 DEF S

(* The first k of them.                                                    *)
Take(s, k) == [i \in 1 .. k |-> s[i]]

LEMMA Taken ==
  ASSUME NEW A, NEW s, s \in Seq(Seq(A)), NEW k, k \in 0 .. Len(s)
  PROVE  Take(s, k) \in Seq(Seq(A)) /\ Len(Take(s, k)) = k /\ \A i \in 1 .. k : Take(s, k)[i] = s[i]
<1> DEFINE S == Seq(A)
<1>1. k \in Nat /\ \A i \in 1 .. k : s[i] \in S
  <2>1. Len(s) \in Nat /\ \A i \in 1 .. Len(s) : s[i] \in S
    BY LenProperties, ElementOfSeq
  <2> QED
    BY <2>1
<1> HIDE DEF S
<1>2. Take(s, k) \in [1 .. k -> S]
  BY <1>1 DEF Take
<1> QED
  BY <1>1, <1>2 DEF Take, S

LEMMA FlattenTake ==
  ASSUME NEW A, NEW s, s \in Seq(Seq(A))
  PROVE  /\ Object!FlattenSeq(s) \in Seq(A)
         /\ Object!FlattenSeq(Take(s, 0)) = <<>>
         /\ Object!FlattenSeq(Take(s, Len(s))) = Object!FlattenSeq(s)
         /\ \A k \in 1 .. Len(s) :
               Object!FlattenSeq(Take(s, k)) = Object!FlattenSeq(Take(s, k - 1)) \o s[k]
<1> DEFINE n == Len(s)
           S == Seq(A)
<1>0. n \in Nat
  BY LenProperties
<1>1. PICK f \in [0 .. n -> S] :
         /\ f[0] = <<>> /\ \A i \in 1 .. n : f[i] = f[i - 1] \o s[i]
         /\ Object!FlattenSeq(s) = f[n]
  BY Flattening
<1>2. ASSUME NEW k \in 0 .. n PROVE Object!FlattenSeq(Take(s, k)) = f[k]
  <2> DEFINE t == Take(s, k)
  <2>1. t \in Seq(S) /\ Len(t) = k /\ \A i \in 1 .. k : t[i] = s[i]
    BY Taken
  <2> HIDE DEF t
  <2>2. PICK g \in [0 .. k -> S] :
           /\ g[0] = <<>> /\ \A i \in 1 .. k : g[i] = g[i - 1] \o t[i]
           /\ Object!FlattenSeq(t) = g[k]
    BY <2>1, Flattening
  <2> DEFINE T == {j \in Nat : j > k \/ g[j] = f[j]}
  <2>3. ASSUME NEW j \in Nat, j \in T PROVE j + 1 \in T
    <3>1. CASE j + 1 > k
      BY <3>1
    <3>2. CASE j + 1 <= k
      <4> DEFINE i == j + 1
      <4>1. g[j] = f[j] /\ i \in 1 .. k /\ i \in 1 .. n /\ i - 1 = j /\ i \in Nat
        BY <1>0, <2>3, <3>2
      <4> HIDE DEF i
      <4>2. g[i] = g[i - 1] \o t[i] /\ f[i] = f[i - 1] \o s[i] /\ t[i] = s[i]
        BY <1>1, <2>1, <2>2, <4>1
      <4>3. g[i] = f[i]
        BY <4>1, <4>2
      <4> QED
        BY <4>1, <4>3 DEF i
    <3> QED
      BY <1>0, <3>1, <3>2
  <2>4. 0 \in T
    BY <1>1, <2>2
  <2>5. k \in T
    <3> HIDE DEF T
    <3>1. k \in Nat /\ \A j \in Nat : j \in T => j + 1 \in T
      BY <1>0, <2>3
    <3>2. Nat \subseteq T
      BY ONLY <2>4, <3>1, FromZero
    <3> QED
      BY <3>1, <3>2
  <2> QED
    BY <1>0, <2>2, <2>5 DEF t
<1>3. \A k \in 1 .. n : k \in 0 .. n /\ k - 1 \in 0 .. n
  BY <1>0
<1>4. f[n] \in S /\ 0 \in 0 .. n /\ n \in 0 .. n
  BY <1>0, <1>1
<1> HIDE DEF S, n
<1> QED
  BY <1>1, <1>2, <1>3, <1>4 DEF S, n

(* Where one of them lies in the whole.                                    *)
LEMMA PartOf ==
  ASSUME NEW A, NEW s, s \in Seq(Seq(A)), NEW k, k \in 1 .. Len(s), s[k] # <<>>
  PROVE  SubSeq(Object!FlattenSeq(s), Len(Object!FlattenSeq(Take(s, k - 1))) + 1,
                Len(Object!FlattenSeq(Take(s, k)))) = s[k]
<1> DEFINE n == Len(s)
           G == [i \in 0 .. n |-> Object!FlattenSeq(Take(s, i))]
           h == k - 1
           S == Seq(A)
<1>1. n \in Nat /\ k \in 1 .. n /\ h \in 0 .. n /\ h + 1 = k /\ k \in 0 .. n
  BY LenProperties
<1>2. \A i \in 0 .. n : G[i] \in S
  <2>1. ASSUME NEW i \in 0 .. n PROVE G[i] \in S
    <3>1. Take(s, i) \in Seq(S)
      BY <2>1, Taken
    <3>2. Object!FlattenSeq(Take(s, i)) \in S
      BY <3>1, FlattenTake
    <3> QED
      BY <3>2
  <2> QED
    BY <2>1
<1>3. \A i \in 1 .. n : G[i] = G[i - 1] \o s[i] /\ s[i] \in S
  <2>1. \A i \in 1 .. n : i \in 0 .. n /\ i - 1 \in 0 .. n
    BY <1>1
  <2>2. \A i \in 1 .. n : s[i] \in S
    BY ElementOfSeq
  <2>3. \A i \in 1 .. n : Object!FlattenSeq(Take(s, i)) = Object!FlattenSeq(Take(s, i - 1)) \o s[i]
    BY FlattenTake
  <2> QED
    BY <2>1, <2>2, <2>3
<1>4. G[n] = Object!FlattenSeq(s) /\ G[h] = Object!FlattenSeq(Take(s, h))
      /\ G[k] = Object!FlattenSeq(Take(s, k))
  <2>1. Object!FlattenSeq(Take(s, n)) = Object!FlattenSeq(s)
    BY FlattenTake
  <2>2. n \in 0 .. n
    BY <1>1
  <2> HIDE DEF n, h
  <2> QED
    BY <1>1, <2>1, <2>2
<1> HIDE DEF n, G, h
<1>5. /\ G[k] = G[h] \o s[k] /\ s[k] \in Seq(A) /\ G[h] \in Seq(A) /\ Len(s[k]) \in Nat \ {0}
      /\ Len(G[h]) \in Nat
  <2>1. k - 1 = h
    BY <1>1
  <2>2. G[k] = G[h] \o s[k] /\ s[k] \in Seq(A) /\ G[h] \in Seq(A)
    BY <1>1, <1>2, <1>3, <2>1
  <2>3. Len(s[k]) \in Nat \ {0}
    BY <2>2, EmptySeq
  <2> QED
    BY <2>2, <2>3, LenProperties
<1> DEFINE from == Len(G[h]) + 1
           to == Len(G[k])
           Lies(x) == SubSeq(G[x], from, to) = s[k] /\ to <= Len(G[x])
           T == {m \in Nat : k + m > n \/ Lies(k + m)}
<1>6. /\ from \in Nat /\ 1 <= from /\ from <= to /\ to \in Nat
      /\ SubSeq(G[k], from, to) = s[k]
  <2> DEFINE a == G[h]
             b == s[k]
  <2>1. a \in Seq(A) /\ b \in Seq(A) /\ Len(a) \in Nat /\ Len(b) \in Nat \ {0}
        /\ from = Len(a) + 1 /\ to = Len(a \o b) /\ G[k] = a \o b
    BY <1>5
  <2> HIDE DEF a, b, from, to
  <2>2. to = Len(a) + Len(b)
    BY <2>1, ConcatProperties
  <2>3. from \in Len(a) + 1 .. Len(a) + Len(b) /\ to \in Len(a) + 1 .. Len(a) + Len(b)
    BY <2>1, <2>2
  <2>4. from - Len(a) = 1 /\ to - Len(a) = Len(b)
    BY <2>1, <2>2
  <2>5. SubSeq(a \o b, from, to) = SubSeq(b, from - Len(a), to - Len(a))
    BY <2>1, <2>3, SubSeqOfConcat2
  <2>6. SubSeq(b, 1, Len(b)) = b
    BY <2>1, SubSeqFull
  <2>7. SubSeq(a \o b, from, to) = b
    BY <2>4, <2>5, <2>6
  <2>8. SubSeq(G[k], from, to) = s[k]
    BY <2>1, <2>7 DEF b
  <2>9. from \in Nat /\ 1 <= from /\ from <= to /\ to \in Nat
    BY <2>1, <2>2
  <2> QED
    BY <2>8, <2>9
<1>7. to <= Len(G[k])
  BY <1>6
<1>8. Lies(k)
  BY <1>6, <1>7
<1> HIDE DEF from, to, Lies
<1>9. 0 \in T
  <2>1. k + 0 = k
    BY <1>1
  <2> QED
    BY <1>8, <2>1
<1>10. ASSUME NEW m \in Nat, m \in T PROVE m + 1 \in T
  <2>1. CASE k + m + 1 > n
    <3> DEFINE j == k + (m + 1)
    <3>1. j > n /\ m + 1 \in Nat
      BY <1>1, <2>1
    <3>2. k \in Nat /\ n \in Nat
      BY <1>1
    <3> QED
      BY <3>1, <3>2
  <2>2. CASE k + m + 1 <= n
    <3> DEFINE i == k + m
               j == k + (m + 1)
    <3>1. j \in 1 .. n /\ j - 1 = i /\ i \in 0 .. n
      BY <1>1, <2>2
    <3>2. Lies(i)
      BY <1>1, <1>10, <2>2
    <3> HIDE DEF i, j
    <3> DEFINE a == G[i]
               b == s[j]
    <3>3. G[j] = a \o b /\ a \in Seq(A) /\ b \in Seq(A)
      BY <1>2, <1>3, <3>1
    <3>4. to <= Len(a) /\ SubSeq(a, from, to) = s[k]
      BY <3>2 DEF Lies
    <3> HIDE DEF a, b
    <3>5. Len(a) \in Nat /\ Len(b) \in Nat /\ Len(a \o b) = Len(a) + Len(b)
      BY <3>3, LenProperties, ConcatProperties
    <3>6. from \in 1 .. Len(a) /\ to \in 1 .. Len(a)
      BY <1>6, <3>4, <3>5
    <3>7. SubSeq(a \o b, from, to) = SubSeq(a, from, to)
      BY <3>3, <3>6, SubSeqOfConcat1
    <3>8. Lies(j)
      BY <1>6, <3>3, <3>4, <3>5, <3>7 DEF Lies
    <3> QED
      BY <3>8 DEF j
  <2> QED
    BY <1>1, <2>1, <2>2
<1> DEFINE d == n - k
<1>11. d \in Nat /\ k + d = n
  BY <1>1
<1>12. d \in T
  <2> HIDE DEF T, d
  <2>1. d \in Nat /\ \A m \in Nat : m \in T => m + 1 \in T
    BY <1>10, <1>11
  <2>2. Nat \subseteq T
    BY ONLY <1>9, <2>1, FromZero
  <2> QED
    BY <2>1, <2>2
<1>13. SubSeq(G[n], from, to) = s[k]
  BY <1>1, <1>11, <1>12 DEF Lies
<1> QED
  BY <1>4, <1>13 DEF from, to, h

-----------------------------------------------------------------------------
(* Counts of chunks and their counters.                                    *)

LEMMA ContainerConstants ==
  /\ CHUNK \in Nat \ {0} /\ TAG \in Nat \ {0} /\ WORD \in Nat \ {0} /\ FLUSH \in Nat \ {0}
  /\ \A f : f \in Contents => Size[f] \in Nat /\ Object!ChunkCount(Size[f]) < WORD * WORD
BY BrowserAssumption DEF Object!ContainerAssumption

LEMMA Counting ==
  ASSUME NEW len, len \in Nat
  PROVE  /\ Object!ChunkCount(len) \in Nat \ {0} /\ len <= Object!ChunkCount(len) * CHUNK
         /\ \A k \in Nat : k < Object!ChunkCount(len) =>
               k * CHUNK \in Nat /\ k * CHUNK <= len /\ (k # 0 => k * CHUNK < len)
<1> DEFINE y == len + CHUNK - 1
           q == y \div CHUNK
           n == IF 1 >= q THEN 1 ELSE q
<1>1. CHUNK \in Nat \ {0}
  BY ContainerConstants
<1>2. Object!ChunkCount(len) = n
  BY DEF Object!ChunkCount, Object!Larger
<1>3. y \in Nat /\ y = len + CHUNK - 1
  BY <1>1
<1> HIDE DEF y
<1>4. q \in Nat /\ q * CHUNK <= y /\ y < q * CHUNK + CHUNK /\ q * CHUNK \in Nat
  BY <1>1, <1>3
<1> HIDE DEF q
<1>5. len <= n * CHUNK /\ n \in Nat \ {0}
  <2>1. CASE 1 >= q
    <3>1. q * CHUNK <= CHUNK
      <4>1. q = 0 \/ q = 1
        BY <1>4, <2>1
      <4> QED
        BY <1>1, <4>1
    <3>2. n * CHUNK = CHUNK
      BY <1>1, <2>1
    <3>3. CASE q = 1
      BY <1>1, <1>3, <1>4, <3>2, <3>3
    <3>4. CASE q = 0
      BY <1>1, <1>3, <1>4, <3>2, <3>4
    <3> QED
      BY <1>4, <2>1, <3>3, <3>4
  <2>2. CASE ~(1 >= q)
    BY <1>1, <1>3, <1>4, <2>2
  <2> QED
    BY <2>1, <2>2
<1>6. ASSUME NEW k \in Nat, k < n PROVE k * CHUNK \in Nat /\ k * CHUNK <= len /\ (k # 0 => k * CHUNK < len)
  <2>1. CASE k = 0
    BY <1>1, <2>1
  <2>2. CASE k # 0
    <3>1. n = q /\ k + 1 <= q
      BY <1>4, <1>6, <2>2
    <3>2. (k + 1) * CHUNK = k * CHUNK + CHUNK /\ k * CHUNK \in Nat
      BY <1>1
    <3>3. (k + 1) * CHUNK <= q * CHUNK
      BY <1>1, <1>4, <3>1
    <3> QED
      BY <1>1, <1>3, <1>4, <3>2, <3>3
  <2> QED
    BY <2>1, <2>2
<1> HIDE DEF n
<1> QED
  BY <1>2, <1>5, <1>6

LEMMA NonceOnce ==
  ASSUME NEW i, NEW j, i \in Nat, j \in Nat, i < WORD * WORD, j < WORD * WORD,
         Object!ChunkNonce(i) = Object!ChunkNonce(j)
  PROVE  i = j
<1>1. WORD \in Nat \ {0}
  BY ContainerConstants
<1>2. ASSUME NEW k, k \in Nat, k < WORD * WORD
      PROVE  (k \div WORD) % WORD = k \div WORD /\ k = WORD * (k \div WORD) + (k % WORD)
  <2> DEFINE q == k \div WORD
  <2>1. q \in Nat /\ q * WORD <= k /\ k = WORD * q + (k % WORD)
    BY <1>1, <1>2
  <2> HIDE DEF q
  <2>2. q < WORD
    <3>1. q * WORD < WORD * WORD
      BY <1>1, <1>2, <2>1
    <3> QED
      BY <1>1, <2>1, <3>1
  <2>3. q % WORD = q
    BY <1>1, <2>1, <2>2
  <2> QED
    BY <2>1, <2>3 DEF q
<1>3. (i \div WORD) % WORD = (j \div WORD) % WORD /\ i % WORD = j % WORD
  BY DEF Object!ChunkNonce
<1> QED
  BY <1>1, <1>2, <1>3

-----------------------------------------------------------------------------
(* The slices of a file, and the file they make up.                        *)
Stuff == Contents \X Nat
Slices(f, k) == [i \in 1 .. k |-> Object!Slice(f, i - 1)]
Chunks(f, v, k) == [i \in 1 .. k |-> Object!SealedChunk(f, v, i - 1)]
End(f, k) == IF k * CHUNK <= Size[f] THEN k * CHUNK ELSE Size[f]

LEMMA PlainTyped ==
  ASSUME NEW f, f \in Contents
  PROVE  Object!Plain(f) \in Seq(Stuff) /\ Len(Object!Plain(f)) = Size[f]
<1>1. Size[f] \in Nat
  BY ContainerConstants
<1>2. Object!Plain(f) \in [1 .. Size[f] -> Stuff]
  BY <1>1 DEF Object!Plain, Stuff
<1> QED
  BY <1>1, <1>2

LEMMA Ends ==
  ASSUME NEW f, f \in Contents, NEW i, i \in Nat, i < Object!ChunkCount(Size[f])
  PROVE  /\ i + 1 \in Nat /\ i * CHUNK \in Nat /\ End(f, i) = i * CHUNK
         /\ End(f, i + 1) \in Nat /\ End(f, i) <= End(f, i + 1) /\ End(f, i + 1) <= Size[f]
         /\ Object!Smaller((i + 1) * CHUNK, Size[f]) = End(f, i + 1)
         /\ End(f, i + 1) <= (i + 1) * CHUNK /\ (i + 1) * CHUNK = i * CHUNK + CHUNK
<1>1. Size[f] \in Nat /\ CHUNK \in Nat \ {0}
  BY ContainerConstants
<1>2. i * CHUNK \in Nat /\ i * CHUNK <= Size[f]
  BY <1>1, Counting
<1>3. (i + 1) * CHUNK = i * CHUNK + CHUNK
  BY <1>1
<1> DEFINE a == i * CHUNK
           b == (i + 1) * CHUNK
<1>4. a \in Nat /\ a <= Size[f] /\ b = a + CHUNK
  BY <1>2, <1>3
<1> HIDE DEF a, b
<1>5. End(f, i) = a
  BY <1>1, <1>2 DEF End, a
<1>6. /\ Object!Smaller(b, Size[f]) = End(f, i + 1)
      /\ End(f, i + 1) = IF b <= Size[f] THEN b ELSE Size[f]
  BY DEF Object!Smaller, End, b
<1>7. End(f, i + 1) \in Nat /\ a <= End(f, i + 1) /\ End(f, i + 1) <= Size[f] /\ End(f, i + 1) <= b
  BY <1>1, <1>4, <1>6
<1> QED
  BY <1>4, <1>5, <1>6, <1>7 DEF a, b

LEMMA Sliced ==
  ASSUME NEW f, f \in Contents, NEW i, i \in Nat, i < Object!ChunkCount(Size[f])
  PROVE  /\ Object!Slice(f, i) \in Seq(Stuff)
         /\ Len(Object!Slice(f, i)) = End(f, i + 1) - End(f, i)
         /\ SubSeq(Object!Plain(f), 1, End(f, i)) \o Object!Slice(f, i)
               = SubSeq(Object!Plain(f), 1, End(f, i + 1))
<1> DEFINE s == Object!Plain(f)
           a == End(f, i)
           b == End(f, i + 1)
<1>1. s \in Seq(Stuff) /\ Len(s) = Size[f] /\ Size[f] \in Nat
  BY PlainTyped, ContainerConstants
<1>2. a \in Nat /\ b \in Nat /\ a <= b /\ b <= Len(s)
  BY <1>1, Ends
<1>3. Object!Slice(f, i) = SubSeq(s, a + 1, b)
  BY Ends DEF Object!Slice
<1> HIDE DEF s, a, b
<1>4. /\ SubSeq(s, a + 1, b) \in Seq(Stuff)
      /\ Len(SubSeq(s, a + 1, b)) = IF a + 1 <= b THEN b - (a + 1) + 1 ELSE 0
  <2>1. \A j \in a + 1 .. b : s[j] \in Stuff
    <3>1. \A j \in a + 1 .. b : j \in 1 .. Len(s)
      BY <1>1, <1>2
    <3> QED
      BY <1>1, <3>1, ElementOfSeq
  <2>2. a + 1 \in Int /\ b \in Int
    BY <1>2
  <2> QED
    BY <2>1, <2>2, SubSeqProperties
<1>5. Len(SubSeq(s, a + 1, b)) = b - a
  BY <1>2, <1>4
<1>6. SubSeq(s, 1, a) \o SubSeq(s, a + 1, b) = SubSeq(s, 1, b)
  <2> DEFINE m == 1
  <2>1. m \in 1 .. Len(s) + 1 /\ a \in m - 1 .. Len(s) /\ b \in a .. Len(s)
    BY <1>1, <1>2
  <2> HIDE DEF m
  <2>2. SubSeq(s, m, a) \o SubSeq(s, a + 1, b) = SubSeq(s, m, b)
    BY <1>1, <2>1, ConcatAdjacentSubSeq
  <2> QED
    BY <2>2 DEF m
<1> QED
  BY <1>3, <1>4, <1>5, <1>6 DEF s, a, b

LEMMA Reassembled ==
  ASSUME NEW f, f \in Contents, NEW k, k \in Nat, k <= Object!ChunkCount(Size[f])
  PROVE  Object!FlattenSeq(Slices(f, k)) = SubSeq(Object!Plain(f), 1, End(f, k))
<1> DEFINE n == Object!ChunkCount(Size[f])
           s == Slices(f, n)
           G(x) == Object!FlattenSeq(Take(s, x))
           T == {x \in Nat : x > n \/ G(x) = SubSeq(Object!Plain(f), 1, End(f, x))}
<1>1. n \in Nat /\ Size[f] \in Nat /\ CHUNK \in Nat \ {0}
  BY Counting, ContainerConstants
<1> HIDE DEF n
<1>2. s \in Seq(Seq(Stuff)) /\ Len(s) = n
  <2>1. \A i \in 1 .. n : Object!Slice(f, i - 1) \in Seq(Stuff)
    <3>1. \A i \in 1 .. n : i - 1 \in Nat /\ i - 1 < n
      BY <1>1
    <3>2. \A i \in Nat : i < n => Object!Slice(f, i) \in Seq(Stuff)
      BY Sliced DEF n
    <3> QED
      BY <3>1, <3>2
  <2> DEFINE S == Seq(Stuff)
  <2> HIDE DEF S
  <2>2. s \in [1 .. n -> S]
    BY <2>1 DEF Slices, S
  <2>3. s \in Seq(S) /\ Len(s) = n
    BY <1>1, <2>2
  <2> QED
    BY <2>3 DEF S
<1>3. \A i \in 1 .. n : s[i] = Object!Slice(f, i - 1)
  BY DEF Slices
<1>4. 0 \in T
  <2>1. G(0) = <<>>
    BY <1>2, FlattenTake
  <2>2. 0 * CHUNK = 0 /\ 0 <= Size[f]
    BY <1>1
  <2>3. End(f, 0) = 0
    BY <2>2 DEF End
  <2>4. SubSeq(Object!Plain(f), 1, 0) = <<>>
    BY SubSeqEmpty
  <2>5. G(0) = SubSeq(Object!Plain(f), 1, End(f, 0))
    BY <2>1, <2>3, <2>4
  <2> HIDE DEF G
  <2> QED
    BY <2>5
<1>5. ASSUME NEW x \in Nat, x \in T PROVE x + 1 \in T
  <2>1. CASE x + 1 > n
    <3> HIDE DEF G
    <3> QED
      BY <1>1, <2>1
  <2>2. CASE x + 1 <= n
    <3> DEFINE i == x + 1
    <3>0. x < n /\ i \in 1 .. n /\ i - 1 = x /\ i \in Nat
      BY <1>1, <2>2
    <3>1. G(x) = SubSeq(Object!Plain(f), 1, End(f, x))
      <4> HIDE DEF G
      <4> QED
        BY <1>1, <1>5, <3>0
    <3>2. SubSeq(Object!Plain(f), 1, End(f, x)) \o Object!Slice(f, x)
             = SubSeq(Object!Plain(f), 1, End(f, i))
      BY <3>0, Sliced DEF n
    <3> HIDE DEF i
    <3>3. s[i] = Object!Slice(f, x)
      BY <1>3, <3>0
    <3> HIDE DEF s
    <3>4. G(i) = G(x) \o s[i]
      <4>1. \A j \in 1 .. Len(s) : G(j) = G(j - 1) \o s[j]
        BY <1>2, FlattenTake
      <4>2. G(i) = G(i - 1) \o s[i]
        BY <1>2, <3>0, <4>1
      <4> QED
        BY <3>0, <4>2
    <3> HIDE DEF G
    <3>5. G(i) = SubSeq(Object!Plain(f), 1, End(f, i))
      BY <3>1, <3>2, <3>3, <3>4
    <3> QED
      BY <3>0, <3>5 DEF i
  <2> QED
    BY <1>1, <2>1, <2>2
<1>6. k \in T
  <2> HIDE DEF T
  <2>1. \A x \in Nat : x \in T => x + 1 \in T
    BY <1>5
  <2>2. Nat \subseteq T
    BY ONLY <1>4, <2>1, FromZero
  <2> QED
    BY <2>2
<1>7. k <= n
  BY DEF n
<1>8. Take(s, k) = Slices(f, k)
  <2>1. \A i \in 1 .. k : i \in 1 .. n
    BY <1>1, <1>7
  <2> QED
    BY <1>3, <2>1 DEF Take, Slices
<1>9. G(k) = SubSeq(Object!Plain(f), 1, End(f, k))
  <2> HIDE DEF G
  <2> QED
    BY <1>1, <1>6, <1>7
<1> HIDE DEF s
<1> QED
  BY <1>8, <1>9

(* All of it is the file.                                                  *)
LEMMA AllOfIt ==
  ASSUME NEW f, f \in Contents
  PROVE  /\ End(f, Object!ChunkCount(Size[f])) = Size[f]
         /\ Object!FlattenSeq(Slices(f, Object!ChunkCount(Size[f]))) = Object!Plain(f)
<1> DEFINE n == Object!ChunkCount(Size[f])
<1>1. n \in Nat /\ Size[f] \in Nat /\ CHUNK \in Nat \ {0} /\ Size[f] <= n * CHUNK
  BY Counting, ContainerConstants
<1>2. Object!FlattenSeq(Slices(f, n)) = SubSeq(Object!Plain(f), 1, End(f, n))
  BY <1>1, Reassembled
<1> HIDE DEF n
<1>3. End(f, n) = Size[f]
  <2>1. n * CHUNK \in Nat
    BY <1>1
  <2> QED
    BY <1>1, <2>1 DEF End
<1>4. SubSeq(Object!Plain(f), 1, Size[f]) = Object!Plain(f)
  BY PlainTyped, SubSeqFull
<1> QED
  BY <1>2, <1>3, <1>4 DEF n

-----------------------------------------------------------------------------
(* Sealed chunks, and the cells that anything served is made of.           *)
SealOf(f, v, i) ==
    [key |-> f, nonce |-> Object!ChunkNonce(i), aad |-> Object!AAD(f, v),
     plain |-> Object!Slice(f, i)]
ChunkOf(c, f, v, i) == c.kind = "chunk" /\ c.seal = SealOf(f, v, i)

LEMMA Sealing ==
  ASSUME NEW f, f \in Contents, NEW v, NEW i, i \in Nat, i < Object!ChunkCount(Size[f])
  PROVE  LET p == Object!SealedChunk(f, v, i)
             n == Len(Object!Slice(f, i)) + TAG
         IN  /\ n \in Nat \ {0} /\ n = End(f, i + 1) - End(f, i) + TAG
             /\ \A A : (\A k \in 1 .. n : p[k] \in A) => p \in Seq(A) /\ Len(p) = n
             /\ p # <<>> /\ DOMAIN p = 1 .. n
             /\ \A k \in 1 .. n : ChunkOf(p[k], f, v, i) /\ p[k].at = k
<1> DEFINE n == Len(Object!Slice(f, i)) + TAG
           seal == SealOf(f, v, i)
           p == [k \in 1 .. n |-> [kind |-> "chunk", seal |-> seal, at |-> k]]
<1>1. n \in Nat \ {0} /\ n = End(f, i + 1) - End(f, i) + TAG
  <2>1. Len(Object!Slice(f, i)) = End(f, i + 1) - End(f, i) /\ Object!Slice(f, i) \in Seq(Stuff)
    BY Sliced
  <2>2. TAG \in Nat \ {0}
    BY ContainerConstants
  <2> QED
    BY <2>1, <2>2, LenProperties
<1>2. Object!SealedChunk(f, v, i) = p
  BY DEF Object!SealedChunk, Object!SealChunk, SealOf
<1> HIDE DEF n, seal
<1>3. DOMAIN p = 1 .. n /\ \A k \in 1 .. n : p[k].kind = "chunk" /\ p[k].seal = seal /\ p[k].at = k
  OBVIOUS
<1>4. p # <<>>
  <2>1. 1 \in DOMAIN p
    BY <1>1
  <2>2. DOMAIN <<>> = {}
    OBVIOUS
  <2> HIDE DEF p
  <2> QED
    BY <2>1, <2>2
<1>5. p = [k \in 1 .. n |-> p[k]]
  OBVIOUS
<1> HIDE DEF p
<1>6. ASSUME NEW A, \A k \in 1 .. n : p[k] \in A PROVE p \in Seq(A) /\ Len(p) = n
  <2>1. p \in [1 .. n -> A]
    BY <1>5, <1>6
  <2> QED
    BY <1>1, <2>1
<1>7. \A k \in 1 .. n : ChunkOf(p[k], f, v, i)
  BY <1>3 DEF ChunkOf, seal
<1> QED
  BY <1>1, <1>2, <1>3, <1>4, <1>6, <1>7 DEF n

Made == Object!Pieces \cup {Object!WriteHeader(m) : m \in Object!Manifests}
Cells == UNION {{p[k] : k \in DOMAIN p} : p \in Made}
ChunkCell(c) ==
    \E f, v, i :
        /\ <<f, v>> \in Object!Ever /\ i \in Nat /\ i < Object!ChunkCount(Size[f])
        /\ ChunkOf(c, f, v, i)
HeadCell(c) == c.kind # "chunk" /\ (c.kind = "manifest" => c.m \in Object!Manifests)

LEMMA EverIs ==
  ASSUME file \in Contents
  PROVE  /\ <<file, version>> \in Object!Ever
         /\ \A e \in Object!Ever : e = <<e[1], e[2]>> /\ e[1] \in Contents
         /\ \A f, v : <<f, v>> \in Object!Ever => f \in Contents /\ (f = file => v = version)
BY DEF Object!Ever

LEMMA HeaderIs ==
  ASSUME NEW m
  PROVE  LET h == Object!WriteHeader(m)
         IN  /\ \A A : h[1] \in A /\ h[2] \in A => h \in Seq(A)
             /\ Len(h) = 2 /\ DOMAIN h = 1 .. 2
             /\ h[1].kind = "magic" /\ h[1].v = m.v /\ h[2].kind = "manifest" /\ h[2].m = m
<1> DEFINE a == [kind |-> "magic", v |-> m.v]
           b == [kind |-> "manifest", m |-> m]
<1>1. Object!WriteHeader(m) = <<a, b>>
  BY DEF Object!WriteHeader
<1>2. a.kind = "magic" /\ a.v = m.v /\ b.kind = "manifest" /\ b.m = m
  OBVIOUS
<1> HIDE DEF a, b
<1> QED
  BY <1>1, <1>2

LEMMA CellIs ==
  ASSUME file \in Contents, NEW c, c \in Cells
  PROVE  ChunkCell(c) \/ HeadCell(c)
<1>1. PICK p : p \in Made /\ \E k \in DOMAIN p : c = p[k]
  BY DEF Cells
<1>2. CASE p \in Object!Pieces
  <2>1. PICK e \in Object!Ever : \E i \in 0 .. Object!ChunkCount(Size[e[1]]) - 1 :
                                    p = Object!SealedChunk(e[1], e[2], i)
    BY <1>2 DEF Object!Pieces
  <2> DEFINE f == e[1]
             v == e[2]
  <2>2. PICK i \in 0 .. Object!ChunkCount(Size[f]) - 1 : p = Object!SealedChunk(f, v, i)
    BY <2>1
  <2>3. f \in Contents /\ <<f, v>> \in Object!Ever
    BY EverIs
  <2> HIDE DEF f, v
  <2>4. i \in Nat /\ i < Object!ChunkCount(Size[f])
    <3>1. Object!ChunkCount(Size[f]) \in Nat
      BY <2>3, Counting, ContainerConstants
    <3> QED
      BY <2>2, <3>1
  <2>5. \A k \in DOMAIN p : ChunkOf(p[k], f, v, i)
    BY <2>2, <2>3, <2>4, Sealing
  <2> QED
    BY <1>1, <2>3, <2>4, <2>5 DEF ChunkCell
<1>3. CASE p \notin Object!Pieces
  <2>1. PICK m : m \in Object!Manifests /\ p = Object!WriteHeader(m)
    BY <1>1, <1>3 DEF Made
  <2>2. c = p[1] \/ c = p[2]
    BY <1>1, <2>1, HeaderIs
  <2>3. p[1].kind = "magic" /\ p[2].kind = "manifest" /\ p[2].m = m
    BY <2>1, HeaderIs
  <2> QED
    BY <2>1, <2>2, <2>3 DEF HeadCell
<1> QED
  BY <1>2, <1>3

LEMMA CellsOf ==
  ASSUME NEW p, p \in Made, NEW k, k \in DOMAIN p
  PROVE  p[k] \in Cells
BY DEF Cells

LEMMA PieceTyped ==
  ASSUME file \in Contents
  PROVE  /\ \A p \in Object!Pieces : p \in Seq(Cells)
         /\ \A m \in Object!Manifests : Object!WriteHeader(m) \in Seq(Cells)
         /\ \A i \in Nat : i < Object!ChunkCount(Size[file]) =>
               Object!SealedChunk(file, version, i) \in Object!Pieces
         /\ Object!AAD(file, version) \in Object!Manifests
<1>1. ASSUME NEW p, p \in Object!Pieces PROVE p \in Seq(Cells)
  <2>1. PICK e \in Object!Ever : \E i \in 0 .. Object!ChunkCount(Size[e[1]]) - 1 :
                                    p = Object!SealedChunk(e[1], e[2], i)
    BY <1>1 DEF Object!Pieces
  <2> DEFINE f == e[1]
             v == e[2]
  <2>2. PICK i \in 0 .. Object!ChunkCount(Size[f]) - 1 : p = Object!SealedChunk(f, v, i)
    BY <2>1
  <2>3. f \in Contents
    BY EverIs
  <2> HIDE DEF f, v
  <2>4. i \in Nat /\ i < Object!ChunkCount(Size[f])
    <3>1. Object!ChunkCount(Size[f]) \in Nat
      BY <2>3, Counting, ContainerConstants
    <3> QED
      BY <2>2, <3>1
  <2>5. p \in Made
    BY <1>1 DEF Made
  <2>6. \A k \in DOMAIN p : p[k] \in Cells
    BY <2>5, CellsOf
  <2> QED
    BY <2>2, <2>3, <2>4, <2>6, Sealing
<1>2. ASSUME NEW m, m \in Object!Manifests PROVE Object!WriteHeader(m) \in Seq(Cells)
  <2> DEFINE h == Object!WriteHeader(m)
  <2>1. h \in Made
    BY <1>2 DEF Made
  <2>2. DOMAIN h = 1 .. 2
    BY HeaderIs
  <2> HIDE DEF h
  <2>3. h[1] \in Cells /\ h[2] \in Cells
    BY <2>1, <2>2, CellsOf
  <2> QED
    BY <2>3, HeaderIs DEF h
<1>3. ASSUME NEW i, i \in Nat, i < Object!ChunkCount(Size[file])
      PROVE Object!SealedChunk(file, version, i) \in Object!Pieces
  <2> DEFINE e == <<file, version>>
             of(d) == {Object!SealedChunk(d[1], d[2], j) : j \in 0 .. Object!ChunkCount(Size[d[1]]) - 1}
  <2>1. e \in Object!Ever /\ e[1] = file /\ e[2] = version
    BY EverIs
  <2>2. i \in 0 .. Object!ChunkCount(Size[file]) - 1
    <3>1. Object!ChunkCount(Size[file]) \in Nat
      BY Counting, ContainerConstants
    <3> QED
      BY <1>3, <3>1
  <2>3. Object!SealedChunk(file, version, i) \in of(e)
    BY <2>1, <2>2
  <2>4. Object!Pieces = UNION {of(d) : d \in Object!Ever}
    BY DEF Object!Pieces
  <2> HIDE DEF of, e
  <2> QED
    BY <2>1, <2>3, <2>4
<1>4. Object!AAD(file, version) \in Object!Manifests
  <2> DEFINE e == <<file, version>>
  <2>1. e \in Object!Ever /\ e[1] = file /\ e[2] = version
    BY EverIs
  <2> HIDE DEF e
  <2> QED
    BY <2>1 DEF Object!Manifests
<1> QED
  BY <1>1, <1>2, <1>3, <1>4

(* What opens as the chunk i of the file is that chunk.                    *)
LEMMA OnlyOwn ==
  ASSUME file \in Contents, NEW cells, cells \in Seq(Cells), NEW i, i \in Nat, i < WORD * WORD,
         NEW aad, Object!OpensChunk(cells, file, i, aad)
  PROVE  /\ aad = Object!AAD(file, version) /\ i < Object!ChunkCount(Size[file])
         /\ cells[1].seal.plain = Object!Slice(file, i)
<1> DEFINE c == cells[1]
<1>1. c.kind = "chunk" /\ c.seal.key = file /\ c.seal.nonce = Object!ChunkNonce(i)
      /\ c.seal.aad = aad /\ cells # <<>>
  BY DEF Object!OpensChunk, Object!Whole
<1>2. c \in Cells
  <2>1. Len(cells) \in Nat \ {0}
    BY <1>1, EmptySeq
  <2> QED
    BY <2>1, ElementOfSeq
<1> HIDE DEF c
<1>3. ChunkCell(c)
  BY <1>1, <1>2, CellIs DEF HeadCell
<1>4. PICK f, v, j : /\ <<f, v>> \in Object!Ever /\ j \in Nat /\ j < Object!ChunkCount(Size[f])
                     /\ ChunkOf(c, f, v, j)
  BY <1>3 DEF ChunkCell
<1>5. c.seal = SealOf(f, v, j)
  BY <1>4 DEF ChunkOf
<1>6. /\ c.seal.key = f /\ c.seal.nonce = Object!ChunkNonce(j) /\ c.seal.aad = Object!AAD(f, v)
      /\ c.seal.plain = Object!Slice(f, j)
  BY <1>5 DEF SealOf
<1>7. f = file /\ v = version
  BY <1>1, <1>4, <1>6, EverIs
<1>8. j < WORD * WORD
  <2>1. /\ Object!ChunkCount(Size[file]) < WORD * WORD /\ Object!ChunkCount(Size[file]) \in Nat
        /\ WORD * WORD \in Nat
    BY ContainerConstants, Counting
  <2> QED
    BY <1>4, <1>7, <2>1
<1>9. i = j
  BY <1>1, <1>4, <1>6, <1>8, NonceOnce
<1> QED
  BY <1>1, <1>4, <1>6, <1>7, <1>9 DEF c

-----------------------------------------------------------------------------
(* What opens, of whatever was served.                                     *)
Piece(ct, lead, i) ==
    SubSeq(ct, lead + i * (CHUNK + TAG) + 1,
           Object!Smaller(lead + (i + 1) * (CHUNK + TAG), Len(ct)))

LEMMA PieceCells ==
  ASSUME NEW A, NEW ct, ct \in Seq(A), NEW lead, lead \in Nat, NEW i, i \in Nat
  PROVE  Piece(ct, lead, i) \in Seq(A)
<1> DEFINE a == lead + i * (CHUNK + TAG) + 1
           b == Object!Smaller(lead + (i + 1) * (CHUNK + TAG), Len(ct))
<1>1. Len(ct) \in Nat /\ CHUNK + TAG \in Nat
  BY ContainerConstants, LenProperties
<1>2. i * (CHUNK + TAG) \in Nat /\ (i + 1) * (CHUNK + TAG) \in Nat
  BY <1>1
<1>3. a \in Nat /\ 1 <= a
  BY <1>2
<1>4. b \in Nat /\ b <= Len(ct)
  BY <1>1, <1>2 DEF Object!Smaller
<1> HIDE DEF a, b
<1>5. \A j \in a .. b : ct[j] \in A
  <2>1. \A j \in a .. b : j \in 1 .. Len(ct)
    BY <1>1, <1>3, <1>4
  <2> QED
    BY <2>1, ElementOfSeq
<1>6. SubSeq(ct, a, b) \in Seq(A)
  <2>1. a \in Int /\ b \in Int
    BY <1>3, <1>4
  <2> QED
    BY <1>5, <2>1, SubSeqProperties
<1> QED
  BY <1>6 DEF Piece, a, b

Opens(ct, lead, n, f, aad) ==
    \A i \in 0 .. n - 1 : Object!OpensChunk(Piece(ct, lead, i), f, i, aad)
Plains(ct, lead, n) == [i \in 1 .. n |-> Piece(ct, lead, i - 1)[1].seal.plain]

LEMMA OpenChunksIs ==
  ASSUME NEW ct, NEW lead, NEW n, NEW f, NEW aad
  PROVE  Object!OpenChunks(ct, lead, n, f, aad) =
            IF Opens(ct, lead, n, f, aad)
            THEN [ok |-> TRUE, cells |-> Object!FlattenSeq(Plains(ct, lead, n))]
            ELSE Object!Refused
BY DEF Object!OpenChunks, Opens, Plains, Piece

LEMMA OpenedChunks ==
  ASSUME NEW ct, NEW lead, NEW n, NEW aad,
         file \in Contents, ct \in Seq(Cells), lead \in Nat, n \in Nat,
         Object!OpenChunks(ct, lead, n, file, aad).ok
  PROVE  /\ n # 0 => aad = Object!AAD(file, version)
         /\ n <= Object!ChunkCount(Size[file])
         /\ Object!OpenChunks(ct, lead, n, file, aad).cells = Object!FlattenSeq(Slices(file, n))
<1> DEFINE N == Object!ChunkCount(Size[file])
<1>1. N \in Nat \ {0} /\ N < WORD * WORD /\ WORD * WORD \in Nat
  BY Counting, ContainerConstants
<1>2. Object!Refused.ok = FALSE
  BY DEF Object!Refused
<1>3. Opens(ct, lead, n, file, aad)
  BY <1>2, OpenChunksIs
<1>4. Object!OpenChunks(ct, lead, n, file, aad).cells = Object!FlattenSeq(Plains(ct, lead, n))
  BY <1>3, OpenChunksIs
<1> HIDE DEF N
<1>5. ASSUME NEW i, i \in Nat, i < n, i < WORD * WORD
      PROVE  /\ aad = Object!AAD(file, version) /\ i < N
             /\ Piece(ct, lead, i)[1].seal.plain = Object!Slice(file, i)
  <2> DEFINE cells == Piece(ct, lead, i)
  <2>1. cells \in Seq(Cells)
    BY <1>5, PieceCells
  <2>2. Object!OpensChunk(cells, file, i, aad)
    <3>1. i \in 0 .. n - 1
      BY <1>5
    <3> QED
      BY <1>3, <3>1 DEF Opens
  <2> HIDE DEF cells
  <2>3. /\ aad = Object!AAD(file, version) /\ i < Object!ChunkCount(Size[file])
        /\ cells[1].seal.plain = Object!Slice(file, i)
    BY <1>5, <2>1, <2>2, OnlyOwn
  <2> QED
    BY <2>3 DEF cells, N
<1>6. n <= N
  <2> SUFFICES ASSUME ~(n <= N) PROVE FALSE
    OBVIOUS
  <2>1. N \in Nat /\ N < n /\ N < WORD * WORD
    BY <1>1
  <2>2. N < N
    BY <1>5, <2>1
  <2> QED
    BY <1>1, <2>2
<1>7. \A i \in 0 .. n - 1 : Piece(ct, lead, i)[1].seal.plain = Object!Slice(file, i)
  <2>1. \A i \in 0 .. n - 1 : i \in Nat /\ i < n /\ i < WORD * WORD
    BY <1>1, <1>6
  <2> QED
    BY <1>5, <2>1
<1>8. n # 0 => aad = Object!AAD(file, version)
  <2>1. n # 0 => 0 \in Nat /\ 0 < n /\ 0 < WORD * WORD
    BY <1>1
  <2> QED
    BY <1>5, <2>1
<1>9. Plains(ct, lead, n) = Slices(file, n)
  <2>1. \A i \in 1 .. n : i - 1 \in 0 .. n - 1
    OBVIOUS
  <2>2. \A i \in 1 .. n : Piece(ct, lead, i - 1)[1].seal.plain = Object!Slice(file, i - 1)
    BY <1>7, <2>1
  <2> QED
    BY <2>2 DEF Plains, Slices
<1> QED
  BY <1>4, <1>6, <1>8, <1>9 DEF N

LEMMA NoneParses == \A m : Object!ParseManifest(m) => m # Object!NoManifest
<1>1. Object!NoManifest.v = 1
  BY DEF Object!NoManifest
<1>2. ASSUME NEW m, Object!ParseManifest(m) PROVE m.v # 1
  <2>1. m.v \in 2 .. 5
    BY <1>2 DEF Object!ParseManifest, Object!VERSION
  <2> QED
    BY ONLY <2>1
<1> QED
  BY <1>1, <1>2

LEMMA ManifestIs ==
  ASSUME file \in Contents, NEW m, m \in Object!Manifests \cup {Object!NoManifest},
         Object!ParseManifest(m)
  PROVE  \E f, v : f \in Contents /\ m = Object!BuildManifest(f, v)
<1>1. m # Object!NoManifest
  BY NoneParses
<1>2. PICK e \in Object!Ever : m = Object!AAD(e[1], e[2])
  BY <1>1 DEF Object!Manifests
<1>3. e[1] \in Contents
  BY EverIs
<1>4. m = Object!BuildManifest(e[1], e[2])
  BY <1>1, <1>2 DEF Object!AAD
<1> QED
  BY <1>3, <1>4

LEMMA DecryptedChunks ==
  ASSUME file \in Contents, NEW ct, ct \in Seq(Cells), NEW lead, lead \in Nat,
         NEW m, m \in Object!Manifests \cup {Object!NoManifest},
         Object!DecryptChunks(ct, lead, file, m).ok
  PROVE  Object!DecryptChunks(ct, lead, file, m).cells = Object!Plain(file)
<1> DEFINE out == Object!OpenChunks(ct, lead, m.chunks, file, m)
<1>1. Object!Refused.ok = FALSE
  BY DEF Object!Refused
<1>2. /\ Object!ParseManifest(m) /\ out.ok
      /\ Object!DecryptChunks(ct, lead, file, m) = out
  BY <1>1 DEF Object!DecryptChunks
<1>3. PICK f, v : f \in Contents /\ m = Object!BuildManifest(f, v)
  BY <1>2, ManifestIs
<1>4. m.chunks = Object!ChunkCount(Size[f]) /\ m.id = f
  BY <1>3 DEF Object!BuildManifest
<1>5. m.chunks \in Nat \ {0}
  BY <1>3, <1>4, Counting, ContainerConstants
<1> DEFINE n == m.chunks
<1>n. n \in Nat \ {0} /\ out = Object!OpenChunks(ct, lead, n, file, m)
  BY <1>5
<1> HIDE DEF n, out
<1>6. m = Object!AAD(file, version) /\ out.cells = Object!FlattenSeq(Slices(file, n))
  <2>1. Object!OpenChunks(ct, lead, n, file, m).ok /\ n \in Nat /\ n # 0
    BY <1>2, <1>n
  <2>2. file \in Contents /\ ct \in Seq(Cells) /\ lead \in Nat
    OBVIOUS
  <2>3. m = Object!AAD(file, version)
    BY ONLY <2>1, <2>2, OpenedChunks
  <2>4. Object!OpenChunks(ct, lead, n, file, m).cells = Object!FlattenSeq(Slices(file, n))
    BY ONLY <2>1, <2>2, OpenedChunks, Zenon
  <2> QED
    BY <1>n, <2>3, <2>4
<1>7. m.chunks = Object!ChunkCount(Size[file])
  <2>1. Object!AAD(file, version) # Object!NoManifest
    BY <1>2, <1>6, NoneParses
  <2>2. m = Object!BuildManifest(file, version)
    BY <1>6, <2>1 DEF Object!AAD
  <2> QED
    BY <2>2 DEF Object!BuildManifest
<1>8. Object!FlattenSeq(Slices(file, m.chunks)) = Object!Plain(file)
  BY <1>7, AllOfIt
<1> QED
  BY <1>2, <1>6, <1>8 DEF n, out

Sound(out, claimed) ==
    out.ok => \/ out.cells = Object!Plain(file)
              \/ /\ claimed = 1
                 /\ \E n \in 0 .. (IF version = 1 THEN Object!ChunkCount(Size[file]) ELSE 0) :
                       out.cells = SubSeq(Object!Plain(file), 1, n * CHUNK)

LEMMA LegacyOpened ==
  ASSUME file \in Contents, NEW ct, ct \in Seq(Cells)
  PROVE  Sound(Object!DecryptLegacy(ct, file), 1)
<1> DEFINE n == (Len(ct) + CHUNK + TAG - 1) \div (CHUNK + TAG)
           out == Object!OpenChunks(ct, 0, n, file, Object!NoManifest)
           N == Object!ChunkCount(Size[file])
<1>1. Object!DecryptLegacy(ct, file) = out
  BY DEF Object!DecryptLegacy
<1>2. n \in Nat
  <2> DEFINE y == Len(ct) + CHUNK + TAG - 1
             d == CHUNK + TAG
  <2>1. y \in Nat /\ d \in Nat \ {0}
    BY ContainerConstants, LenProperties
  <2> HIDE DEF y, d
  <2>2. y \div d \in Nat
    BY <2>1
  <2> QED
    BY <2>2 DEF y, d
<1> HIDE DEF n
<1>3. SUFFICES ASSUME out.ok PROVE Sound(out, 1)
  BY <1>1 DEF Sound
<1>4. /\ n # 0 => Object!NoManifest = Object!AAD(file, version)
      /\ n <= N /\ out.cells = Object!FlattenSeq(Slices(file, n))
  <2>1. 0 \in Nat
    OBVIOUS
  <2> QED
    BY <1>2, <1>3, <2>1, OpenedChunks
<1>5. N \in Nat /\ Size[file] \in Nat /\ CHUNK \in Nat
  BY Counting, ContainerConstants
<1>6. n # 0 => version = 1
  <2>1. version # 1 => Object!AAD(file, version).v = version
    BY DEF Object!AAD, Object!BuildManifest
  <2>2. Object!NoManifest.v = 1
    BY DEF Object!NoManifest
  <2> QED
    BY <1>4, <2>1, <2>2
<1> HIDE DEF out
<1>7. CASE n = N
  <2>1. out.cells = Object!Plain(file)
    BY <1>4, <1>7, AllOfIt
  <2> QED
    BY <2>1 DEF Sound
<1>8. CASE n # N
  <2>0. n < N
    BY <1>2, <1>4, <1>5, <1>8
  <2>1. End(file, n) = n * CHUNK
    BY <1>2, <2>0, Ends
  <2>2. out.cells = SubSeq(Object!Plain(file), 1, n * CHUNK)
    BY <1>2, <1>4, <2>1, Reassembled
  <2>3. n \in 0 .. (IF version = 1 THEN N ELSE 0)
    BY <1>2, <1>4, <1>5, <1>6
  <2> QED
    BY <2>2, <2>3 DEF Sound
<1> HIDE DEF N
<1> QED
  BY <1>7, <1>8

LEMMA OpenedSound ==
  ASSUME file \in Contents, NEW v, v \in Object!Versions, NEW ct, ct \in Seq(Cells),
         NEW note, note \in Object!Manifests \cup {Object!NoManifest}
  PROVE  Sound(Object!OpenFile(v, ct, file, note), v)
<1> DEFINE out == Object!OpenFile(v, ct, file, note)
<1>0. Object!Refused.ok = FALSE
  BY DEF Object!Refused
<1>1. CASE v >= 3
  <2> DEFINE m == ct[2].m
  <2>1. out = Object!DecryptFile(ct, file, note)
    BY <1>1 DEF Object!OpenFile
  <2>2. SUFFICES ASSUME out.ok PROVE out.cells = Object!Plain(file)
    BY DEF Sound
  <2>3. Object!HasHeader(ct) /\ out = Object!DecryptChunks(ct, 2, file, m)
    BY <1>0, <2>1, <2>2 DEF Object!DecryptFile, Object!HEADER
  <2>4. m \in Object!Manifests
    <3>1. Len(ct) \in Nat /\ 2 <= Len(ct) /\ ct[2].kind = "manifest"
      BY <2>3, LenProperties DEF Object!HasHeader, Object!HEADER
    <3>2. ct[2] \in Cells
      BY <3>1, ElementOfSeq
    <3> DEFINE c == ct[2]
    <3> HIDE DEF c
    <3>3. c \in Cells /\ c.kind = "manifest"
      BY <3>1, <3>2 DEF c
    <3>4. HeadCell(c)
      BY <3>3, CellIs DEF ChunkCell, ChunkOf
    <3> QED
      BY <3>3, <3>4 DEF HeadCell, c
  <2> HIDE DEF m, out
  <2>5. 2 \in Nat
    OBVIOUS
  <2> QED
    BY <2>2, <2>3, <2>4, <2>5, DecryptedChunks
<1>2. CASE v = 2
  <2>1. out = Object!DecryptV2(ct, file, note)
    BY <1>2 DEF Object!OpenFile
  <2>2. SUFFICES ASSUME out.ok PROVE out.cells = Object!Plain(file)
    BY DEF Sound
  <2>3. out = Object!DecryptChunks(ct, 0, file, note)
    BY <1>0, <2>1, <2>2 DEF Object!DecryptV2
  <2> HIDE DEF out
  <2>4. 0 \in Nat
    OBVIOUS
  <2> QED
    BY <2>2, <2>3, <2>4, DecryptedChunks
<1>3. CASE v = 1
  <2>1. out = Object!DecryptLegacy(ct, file)
    BY <1>3 DEF Object!OpenFile
  <2> HIDE DEF out
  <2>2. Sound(out, v)
    BY <1>3, <2>1, LegacyOpened
  <2> QED
    BY <2>2 DEF out
<1> QED
  BY <1>1, <1>2, <1>3 DEF Object!Versions, Object!VERSION

(* Whatever is served is made of those cells.                              *)
LEMMA ServedTyped ==
  ASSUME file \in Contents, NEW head, head \in Object!Headers, NEW body, body \in Object!Bodies,
         NEW cut, cut \in Nat
  PROVE  LET ct == head \o body
         IN SubSeq(ct, 1, Len(ct) - Object!Smaller(cut, Len(ct))) \in Seq(Cells)
<1>1. head \in Seq(Cells)
  <2>1. CASE head = <<>>
    BY <2>1
  <2>2. CASE head # <<>>
    <3>1. PICK m : m \in Object!Manifests /\ head = Object!WriteHeader(m)
      BY <2>2 DEF Object!Headers
    <3> QED
      BY <3>1, PieceTyped
  <2> QED
    BY <2>1, <2>2
<1>2. body \in Seq(Cells)
  <2> DEFINE of(n) == [1 .. n -> Object!Pieces]
  <2>1. PICK p : p \in UNION {of(n) : n \in 0 .. MaxPieces} /\ body = Object!FlattenSeq(p)
    BY DEF Object!Bodies
  <2>2. PICK n : n \in Nat /\ p \in of(n)
    <3> HIDE DEF of
    <3> QED
      BY <2>1
  <2>3. p \in [1 .. n -> Seq(Cells)]
    BY <2>2, PieceTyped
  <2> DEFINE S == Seq(Cells)
  <2>4. p \in Seq(S)
    <3> HIDE DEF S
    <3>1. p \in [1 .. n -> S]
      BY <2>3 DEF S
    <3> QED
      BY <2>2, <3>1
  <2> QED
    BY <2>1, <2>4, FlattenTake
<1> DEFINE ct == head \o body
           to == Len(ct) - Object!Smaller(cut, Len(ct))
<1>3. ct \in Seq(Cells)
  BY <1>1, <1>2, ConcatProperties
<1> HIDE DEF ct
<1>4. to \in Nat /\ to <= Len(ct) /\ Len(ct) \in Nat
  <2>1. Len(ct) \in Nat
    BY <1>3, LenProperties
  <2> QED
    BY <2>1 DEF Object!Smaller
<1> HIDE DEF to
<1>5. SubSeq(ct, 1, to) \in Seq(Cells)
  <2> DEFINE m == 1
  <2>1. \A j \in m .. to : ct[j] \in Cells
    <3>1. \A j \in m .. to : j \in 1 .. Len(ct)
      BY <1>4
    <3> QED
      BY <1>3, <3>1, ElementOfSeq
  <2>2. m \in Int /\ to \in Int
    BY <1>4
  <2> HIDE DEF m
  <2>3. SubSeq(ct, m, to) \in Seq(Cells)
    BY <2>1, <2>2, SubSeqProperties
  <2> QED
    BY <2>3 DEF m
<1> QED
  BY <1>5 DEF to, ct

LEMMA VisitSound ==
  ASSUME file \in Contents, Object!Open
  PROVE  Sound(blob', blob'.claimed)
<1>1. PICK head, body, cut, v, note :
        /\ head \in Object!Headers /\ body \in Object!Bodies /\ cut \in 0 .. TAG
        /\ v \in Object!Versions /\ note \in Object!Manifests \cup {Object!NoManifest}
        /\ blob' = Object!Visit(head, body, cut, v, note)
  BY DEF Object!Open
<1> DEFINE ct == head \o body
           served == SubSeq(ct, 1, Len(ct) - Object!Smaller(cut, Len(ct)))
           out == Object!OpenFile(v, served, file, note)
<1>2. served \in Seq(Cells)
  <2>1. cut \in Nat
    BY <1>1
  <2> QED
    BY <1>1, <2>1, ServedTyped
<1>3. blob' = [claimed |-> v, ok |-> out.ok, cells |-> out.cells]
  BY <1>1 DEF Object!Visit
<1> HIDE DEF served
<1>4. Sound(out, v)
  BY <1>1, <1>2, OpenedSound
<1> HIDE DEF out
<1>5. blob'.ok = out.ok /\ blob'.cells = out.cells /\ blob'.claimed = v
  BY <1>3
<1> QED
  BY <1>4, <1>5 DEF Sound

-----------------------------------------------------------------------------
(* What was sealed opens.                                                  *)

LEMMA ChunksTyped ==
  ASSUME file \in Contents, NEW k, k \in Nat, k <= Object!ChunkCount(Size[file])
  PROVE  /\ Chunks(file, version, k) \in Seq(Seq(Cells)) /\ Len(Chunks(file, version, k)) = k
         /\ Object!FlattenSeq(Chunks(file, version, k)) \in Seq(Cells)
<1> DEFINE S == Seq(Cells)
           s == Chunks(file, version, k)
<1>1. \A i \in 1 .. k : Object!SealedChunk(file, version, i - 1) \in S
  <2>1. \A i \in 1 .. k : i - 1 \in Nat /\ i - 1 < Object!ChunkCount(Size[file])
    BY Counting, ContainerConstants
  <2> QED
    BY <2>1, PieceTyped
<1> HIDE DEF S
<1>2. s \in [1 .. k -> S]
  BY <1>1 DEF Chunks
<1> HIDE DEF s
<1>3. s \in Seq(S) /\ Len(s) = k
  BY <1>2
<1>4. Object!FlattenSeq(s) \in Seq(Cells)
  BY <1>3, FlattenTake DEF S
<1> QED
  BY <1>3, <1>4 DEF S, s

LEMMA NextChunk ==
  ASSUME file \in Contents, NEW k, k \in Nat, k < Object!ChunkCount(Size[file])
  PROVE  Object!FlattenSeq(Chunks(file, version, k + 1))
            = Object!FlattenSeq(Chunks(file, version, k)) \o Object!SealedChunk(file, version, k)
<1> DEFINE i == k + 1
           s == Chunks(file, version, i)
<1>1. i \in Nat /\ i <= Object!ChunkCount(Size[file]) /\ i - 1 = k /\ i \in 1 .. i
      /\ \A j \in 1 .. k : j \in 1 .. i
  BY Counting, ContainerConstants
<1> HIDE DEF i
<1>2. s \in Seq(Seq(Cells)) /\ Len(s) = i
  BY <1>1, ChunksTyped
<1>3. Take(s, k) = Chunks(file, version, k) /\ s[i] = Object!SealedChunk(file, version, k)
  BY <1>1 DEF Take, Chunks
<1> HIDE DEF s
<1>4. Object!FlattenSeq(Take(s, i)) = Object!FlattenSeq(s)
  BY <1>2, FlattenTake
<1>5. Object!FlattenSeq(Take(s, i)) = Object!FlattenSeq(Take(s, i - 1)) \o s[i]
  <2>1. \A j \in 1 .. Len(s) :
           Object!FlattenSeq(Take(s, j)) = Object!FlattenSeq(Take(s, j - 1)) \o s[j]
    BY <1>2, FlattenTake
  <2> QED
    BY <1>1, <1>2, <2>1
<1>6. Object!FlattenSeq(s) = Object!FlattenSeq(Take(s, k)) \o s[i]
  BY <1>1, <1>4, <1>5
<1> QED
  BY <1>3, <1>6 DEF s, i

LEMMA SealedLength ==
  ASSUME file \in Contents, NEW k, k \in Nat, k <= Object!ChunkCount(Size[file])
  PROVE  Len(Object!FlattenSeq(Chunks(file, version, k))) = k * TAG + End(file, k)
<1> DEFINE n == Object!ChunkCount(Size[file])
           L(x) == Len(Object!FlattenSeq(Chunks(file, version, x)))
           T == {x \in Nat : x > n \/ L(x) = x * TAG + End(file, x)}
<1>1. n \in Nat /\ TAG \in Nat /\ CHUNK \in Nat /\ Size[file] \in Nat
  BY Counting, ContainerConstants
<1>2. L(0) = 0 * TAG + End(file, 0)
  <2>1. 0 <= n /\ 0 \in Nat
    BY <1>1
  <2>2. Chunks(file, version, 0) \in Seq(Seq(Cells)) /\ Len(Chunks(file, version, 0)) = 0
    BY <2>1, ChunksTyped
  <2>3. Chunks(file, version, 0) = <<>>
    BY <2>2, EmptySeq
  <2>4. Object!FlattenSeq(Chunks(file, version, 0)) = <<>>
    BY <2>3 DEF Object!FlattenSeq
  <2>5. L(0) = 0
    BY <2>4
  <2>6. End(file, 0) = 0 /\ 0 * TAG = 0
    BY <1>1 DEF End
  <2> HIDE DEF L
  <2> QED
    BY <2>5, <2>6
<1>3. ASSUME NEW x \in Nat, x < n, L(x) = x * TAG + End(file, x)
      PROVE  L(x + 1) = (x + 1) * TAG + End(file, x + 1)
  <2> DEFINE a == Object!FlattenSeq(Chunks(file, version, x))
             b == Object!SealedChunk(file, version, x)
             c == Object!FlattenSeq(Chunks(file, version, x + 1))
  <2>1. a \in Seq(Cells) /\ b \in Seq(Cells) /\ c = a \o b
    <3>1. x <= n
      BY <1>1, <1>3
    <3> QED
      BY <1>3, <3>1, ChunksTyped, NextChunk, PieceTyped
  <2>2. Len(b) = End(file, x + 1) - End(file, x) + TAG
    BY <1>3, <2>1, LenProperties, Sealing
  <2>3. Len(a) = x * TAG + End(file, x)
    BY <1>3
  <2>4. End(file, x) \in Nat /\ End(file, x + 1) \in Nat /\ x * TAG \in Nat
        /\ (x + 1) * TAG = x * TAG + TAG
    <3>1. x * TAG \in Nat /\ (x + 1) * TAG = x * TAG + TAG
      BY <1>1
    <3> QED
      BY <1>3, <3>1, Ends
  <2> HIDE DEF a, b, c
  <2>5. Len(c) = Len(a) + Len(b)
    BY <2>1, ConcatProperties
  <2>6. Len(c) = (x + 1) * TAG + End(file, x + 1)
    <3> DEFINE p == x * TAG
               q == (x + 1) * TAG
               d == End(file, x)
               e == End(file, x + 1)
    <3>1. p \in Nat /\ d \in Nat /\ e \in Nat /\ TAG \in Nat /\ q = p + TAG
      BY <1>1, <2>4
    <3>2. Len(c) = (p + d) + ((e - d) + TAG)
      BY <2>2, <2>3, <2>5
    <3> HIDE DEF p, q, d, e
    <3>3. Len(c) = q + e
      BY ONLY <3>1, <3>2
    <3> QED
      BY <3>3 DEF q, e
  <2> QED
    BY <2>6 DEF c
<1> HIDE DEF L, n
<1>4. 0 \in T
  BY <1>2
<1>5. ASSUME NEW x \in Nat, x \in T PROVE x + 1 \in T
  BY <1>1, <1>3, <1>5
<1>6. k \in T
  <2> HIDE DEF T
  <2>1. \A x \in Nat : x \in T => x + 1 \in T
    BY <1>5
  <2>2. Nat \subseteq T
    BY ONLY <1>4, <2>1, FromZero
  <2> QED
    BY <2>2
<1>7. L(k) = k * TAG + End(file, k)
  <2>1. k <= n
    BY DEF n
  <2> QED
    BY <1>1, <1>6, <2>1
<1> QED
  BY <1>7 DEF L

(* Where the chunk i of an object lies behind its header.                  *)
LEMMA ChunkLies ==
  ASSUME file \in Contents, NEW head, head \in Seq(Cells),
         NEW i, i \in Nat, i < Object!ChunkCount(Size[file])
  PROVE  LET n == Object!ChunkCount(Size[file])
             ct == head \o Object!FlattenSeq(Chunks(file, version, n))
         IN Piece(ct, Len(head), i) = Object!SealedChunk(file, version, i)
<1> DEFINE n == Object!ChunkCount(Size[file])
           s == Chunks(file, version, n)
           whole == Object!FlattenSeq(s)
           ct == head \o whole
           b == Object!SealedChunk(file, version, i)
           x == i * TAG + End(file, i)
           y == (i + 1) * TAG + End(file, i + 1)
           w == n * TAG + Size[file]
           off == Len(head)
<1>1. n \in Nat /\ TAG \in Nat \ {0} /\ CHUNK \in Nat \ {0} /\ Size[file] \in Nat /\ off \in Nat
      /\ i + 1 <= n /\ i + 1 \in Nat
  BY Counting, ContainerConstants, LenProperties
<1>2. s \in Seq(Seq(Cells)) /\ Len(s) = n /\ whole \in Seq(Cells)
  BY <1>1, ChunksTyped
<1>3. Len(whole) = w
  BY <1>1, SealedLength, AllOfIt
<1>4. SubSeq(whole, x + 1, y) = b
  <2> DEFINE k == i + 1
  <2>1. k \in 1 .. n /\ k - 1 = i /\ k \in Nat /\ i <= n
    BY <1>1
  <2>2. s[k] = b
    BY <2>1 DEF Chunks
  <2>3. Take(s, i) = Chunks(file, version, i) /\ Take(s, k) = Chunks(file, version, k)
    <3>1. \A j \in 1 .. k : j \in 1 .. n
      BY <1>1
    <3>2. \A j \in 1 .. i : j \in 1 .. n
      BY <1>1
    <3> QED
      BY <3>1, <3>2 DEF Take, Chunks
  <2>4. Len(Object!FlattenSeq(Take(s, i))) = x
    BY <2>1, <2>3, SealedLength
  <2>5. Len(Object!FlattenSeq(Take(s, k))) = y
    BY <1>1, <2>3, SealedLength
  <2>6. b # <<>>
    BY Sealing
  <2> HIDE DEF s, x, y, b, n, k
  <2>7. SubSeq(Object!FlattenSeq(s), Len(Object!FlattenSeq(Take(s, k - 1))) + 1,
               Len(Object!FlattenSeq(Take(s, k)))) = s[k]
    BY <1>2, <2>1, <2>2, <2>6, PartOf
  <2> QED
    BY <2>1, <2>2, <2>4, <2>5, <2>7
<1>5. /\ x \in Nat /\ y \in Nat /\ w \in Nat /\ x < y /\ y <= w
      /\ i * (CHUNK + TAG) = x
      /\ y = IF (i + 1) * (CHUNK + TAG) <= w THEN (i + 1) * (CHUNK + TAG) ELSE w
  <2> DEFINE p == i * CHUNK
             q == i * TAG
             r == n * TAG
             e == End(file, i + 1)
  <2>1. p \in Nat /\ End(file, i) = p /\ e \in Nat /\ p <= e /\ e <= Size[file]
        /\ (i + 1) * CHUNK = p + CHUNK
    BY Ends
  <2>2. q \in Nat /\ r \in Nat /\ (i + 1) * TAG = q + TAG /\ q + TAG <= r
    <3>1. q \in Nat /\ r \in Nat /\ (i + 1) * TAG = q + TAG
      BY <1>1
    <3>2. (i + 1) * TAG <= n * TAG
      BY <1>1
    <3> QED
      BY <3>1, <3>2
  <2>3. i * (CHUNK + TAG) = p + q /\ (i + 1) * (CHUNK + TAG) = p + q + CHUNK + TAG
    BY <1>1
  <2>4. i + 1 = n \/ (e = p + CHUNK /\ p + CHUNK <= Size[file])
    <3>1. CASE i + 1 = n
      BY <3>1
    <3>2. CASE i + 1 # n
      <4> DEFINE j == i + 1
      <4>1. j \in Nat /\ j < Object!ChunkCount(Size[file])
        BY <1>1, <3>2
      <4> HIDE DEF j
      <4>2. End(file, j) = j * CHUNK /\ j * CHUNK <= Size[file]
        BY <4>1, Ends, Counting, <1>1
      <4> QED
        BY <2>1, <4>2 DEF j
    <3> QED
      BY <3>1, <3>2
  <2>5. e = IF p + CHUNK <= Size[file] THEN p + CHUNK ELSE Size[file]
    BY <2>1 DEF End
  <2>6. i + 1 = n => r = q + TAG
    BY <2>2
  <2>7. x = q + p /\ y = q + TAG + e /\ w = r + Size[file]
    BY <2>1, <2>2
  <2> HIDE DEF p, q, r, e, x, y, w, n
  <2>8. x \in Nat /\ y \in Nat /\ w \in Nat /\ x < y /\ y <= w
    BY <1>1, <2>1, <2>2, <2>7
  <2>9. y = IF p + q + CHUNK + TAG <= w THEN p + q + CHUNK + TAG ELSE w
    <3> DEFINE bytes == Size[file]
    <3>1. /\ p \in Nat /\ q \in Nat /\ r \in Nat /\ e \in Nat /\ bytes \in Nat
          /\ CHUNK \in Nat /\ TAG \in Nat
      BY <1>1, <2>1, <2>2
    <3>2. q + TAG <= r /\ y = q + TAG + e /\ w = r + bytes
      BY <2>2, <2>7
    <3>3. e = IF p + CHUNK <= bytes THEN p + CHUNK ELSE bytes
      BY <2>5
    <3>4. i + 1 # n => e = p + CHUNK /\ p + CHUNK <= bytes
      BY <2>4
    <3> HIDE DEF bytes
    <3>5. CASE i + 1 = n
      <4>1. r = q + TAG
        BY <2>6, <3>5
      <4> QED
        BY ONLY <3>1, <3>2, <3>3, <4>1
    <3>6. CASE i + 1 # n
      <4>1. e = p + CHUNK /\ p + CHUNK <= bytes
        BY <3>4, <3>6
      <4> QED
        BY ONLY <3>1, <3>2, <4>1
    <3> QED
      BY <3>5, <3>6
  <2>10. i * (CHUNK + TAG) = x
    BY <2>1, <2>2, <2>3, <2>7
  <2>11. (i + 1) * (CHUNK + TAG) = p + q + CHUNK + TAG
    BY <2>3
  <2> QED
    BY <2>8, <2>9, <2>10, <2>11
<1>6. Len(ct) = off + w
  <2> HIDE DEF whole, w
  <2> QED
    BY <1>2, <1>3, ConcatProperties
<1> DEFINE z == (i + 1) * (CHUNK + TAG)
<1>7. z \in Nat /\ y = IF z <= w THEN z ELSE w
  BY <1>1, <1>5
<1>8. off + i * (CHUNK + TAG) + 1 = off + x + 1
  BY <1>5
<1> HIDE DEF z, x, y, w, n, s, b
<1>9. Object!Smaller(off + z, Len(ct)) = off + y
  BY <1>1, <1>5, <1>6, <1>7 DEF Object!Smaller
<1> HIDE DEF ct
<1>10. Piece(ct, off, i) = SubSeq(ct, off + x + 1, off + y)
  BY <1>8, <1>9 DEF Piece, z
<1>11. SubSeq(ct, off + x + 1, off + y) = SubSeq(whole, x + 1, y)
  <2> DEFINE from == off + x + 1
             to == off + y
  <2>1. from \in off + 1 .. off + Len(whole) /\ to \in off + 1 .. off + Len(whole)
        /\ from - off = x + 1 /\ to - off = y
    BY <1>1, <1>3, <1>5
  <2> HIDE DEF from, to, whole
  <2>2. SubSeq(head \o whole, from, to) = SubSeq(whole, from - off, to - off)
    BY <1>2, <2>1, SubSeqOfConcat2
  <2> QED
    BY <2>1, <2>2 DEF from, to, ct
<1> QED
  BY <1>4, <1>10, <1>11 DEF ct, b, s, n

LEMMA OwnOpens ==
  ASSUME file \in Contents, NEW head, head \in Seq(Cells)
  PROVE  LET n == Object!ChunkCount(Size[file])
             ct == head \o Object!FlattenSeq(Chunks(file, version, n))
         IN  /\ Object!OpenChunks(ct, Len(head), n, file, Object!AAD(file, version))
                   = [ok |-> TRUE, cells |-> Object!Plain(file)]
             /\ Len(ct) = Len(head) + Size[file] + n * TAG
<1> DEFINE n == Object!ChunkCount(Size[file])
           whole == Object!FlattenSeq(Chunks(file, version, n))
           ct == head \o whole
           off == Len(head)
           aad == Object!AAD(file, version)
<1>1. n \in Nat /\ TAG \in Nat /\ Size[file] \in Nat /\ off \in Nat
  BY Counting, ContainerConstants, LenProperties
<1>2. Len(ct) = off + Size[file] + n * TAG
  <2>1. whole \in Seq(Cells) /\ Len(whole) = n * TAG + Size[file] /\ n * TAG \in Nat
    BY <1>1, ChunksTyped, SealedLength, AllOfIt
  <2> HIDE DEF n, whole
  <2>2. Len(ct) = off + Len(whole)
    BY <2>1, ConcatProperties
  <2> QED
    BY <1>1, <2>1, <2>2
<1>3. \A i \in Nat : i < n => Piece(ct, off, i) = Object!SealedChunk(file, version, i)
  BY ChunkLies
<1> HIDE DEF ct
<1>4. ASSUME NEW i, i \in Nat, i < n
      PROVE  /\ Object!OpensChunk(Piece(ct, off, i), file, i, aad)
             /\ Piece(ct, off, i)[1].seal.plain = Object!Slice(file, i)
  <2> DEFINE p == Object!SealedChunk(file, version, i)
             len == Len(Object!Slice(file, i)) + TAG
             seal == SealOf(file, version, i)
  <2>1. /\ len \in Nat \ {0} /\ p # <<>> /\ DOMAIN p = 1 .. len
        /\ \A k \in 1 .. len : ChunkOf(p[k], file, version, i) /\ p[k].at = k
        /\ p \in Seq(Cells) /\ Len(p) = len
    <3>1. p \in Seq(Cells)
      BY <1>4, PieceTyped
    <3>2. \A k \in DOMAIN p : p[k] \in Cells
      <4>1. DOMAIN p = 1 .. Len(p)
        BY <3>1, LenProperties
      <4> QED
        BY <3>1, <4>1, ElementOfSeq
    <3> QED
      BY <1>4, <3>1, <3>2, Sealing
  <2>2. seal.key = file /\ seal.nonce = Object!ChunkNonce(i) /\ seal.aad = aad
        /\ seal.plain = Object!Slice(file, i)
    BY DEF SealOf
  <2> HIDE DEF p, seal
  <2>3. \A k \in 1 .. len : p[k].kind = "chunk" /\ p[k].seal = seal /\ p[k].at = k
    BY <2>1 DEF ChunkOf, seal
  <2>4. 1 \in 1 .. len
    BY <2>1
  <2>5. p[1].kind = "chunk" /\ p[1].seal = seal
    BY <2>3, <2>4
  <2>6. Len(p) = Len(p[1].seal.plain) + TAG
    BY <2>1, <2>2, <2>5
  <2> HIDE DEF len
  <2>7. Object!Whole(p)
    BY <2>1, <2>3, <2>5, <2>6 DEF Object!Whole
  <2>8. Object!OpensChunk(p, file, i, aad)
    BY <2>2, <2>5, <2>7 DEF Object!OpensChunk
  <2>9. Piece(ct, off, i) = p
    BY <1>3, <1>4 DEF p
  <2>10. p[1].seal.plain = Object!Slice(file, i)
    BY <2>2, <2>5
  <2> QED
    BY <2>8, <2>9, <2>10
<1>5. Opens(ct, off, n, file, aad)
  <2>1. \A i \in 0 .. n - 1 : i \in Nat /\ i < n
    BY <1>1
  <2> HIDE DEF n
  <2> QED
    BY <1>4, <2>1 DEF Opens
<1>6. Plains(ct, off, n) = Slices(file, n)
  <2>1. \A i \in 1 .. n : i - 1 \in Nat /\ i - 1 < n
    BY <1>1
  <2> HIDE DEF n
  <2>2. \A i \in 1 .. n : Piece(ct, off, i - 1)[1].seal.plain = Object!Slice(file, i - 1)
    BY <1>4, <2>1
  <2> QED
    BY <2>2 DEF Plains, Slices
<1>7. Object!FlattenSeq(Slices(file, n)) = Object!Plain(file)
  BY AllOfIt
<1>8. Object!OpenChunks(ct, off, n, file, aad) = [ok |-> TRUE, cells |-> Object!Plain(file)]
  BY <1>5, <1>6, <1>7, OpenChunksIs
<1> QED
  BY <1>2, <1>8 DEF ct

LEMMA SealedFileIs ==
  ASSUME file \in Contents
  PROVE  Object!SealedFile(file, version) =
            (IF version >= 3 THEN Object!WriteHeader(Object!AAD(file, version)) ELSE <<>>)
               \o Object!FlattenSeq(Chunks(file, version, Object!ChunkCount(Size[file])))
BY DEF Object!SealedFile, Chunks

LEMMA WholeDecrypted ==
  ASSUME file \in Contents, version \in 2 .. 5, NEW head, head \in Seq(Cells),
         NEW ct, ct = head \o Object!FlattenSeq(Chunks(file, version, Object!ChunkCount(Size[file])))
  PROVE  Object!DecryptChunks(ct, Len(head), file, Object!AAD(file, version))
            = [ok |-> TRUE, cells |-> Object!Plain(file)]
<1> DEFINE m == Object!AAD(file, version)
           n == Object!ChunkCount(Size[file])
           good == [ok |-> TRUE, cells |-> Object!Plain(file)]
           off == Len(head)
<1>1. m = Object!BuildManifest(file, version)
  BY DEF Object!AAD
<1>2. m.v = version /\ m.size = Size[file] /\ m.chunks = n /\ m.chunk = CHUNK
  BY <1>1 DEF Object!BuildManifest
<1> HIDE DEF m
<1>3. Object!ParseManifest(m)
  BY <1>2, ContainerConstants DEF Object!ParseManifest, Object!VERSION
<1>4. Object!OpenChunks(ct, off, n, file, m) = good /\ Len(ct) = off + Size[file] + n * TAG
  BY OwnOpens DEF m
<1>5. Object!LengthFits(ct, off, m)
  BY <1>2, <1>4 DEF Object!LengthFits
<1>6. good.ok = TRUE /\ Len(good.cells) = m.size
  BY <1>2, PlainTyped
<1> HIDE DEF n, good
<1>7. Object!DecryptChunks(ct, off, file, m) = good
  BY <1>2, <1>3, <1>4, <1>5, <1>6 DEF Object!DecryptChunks
<1> QED
  BY <1>7 DEF m, good

LEMMA OneQuotient ==
  ASSUME NEW y, NEW d, NEW n, NEW q, y \in Nat, d \in Nat \ {0}, n \in Nat, q \in Nat,
         n * d <= y, y < n * d + d, q * d <= y, y < q * d + d
  PROVE  q = n
<1>1. ASSUME NEW a, NEW b, a \in Nat, b \in Nat, a * d <= y, y < b * d + d PROVE ~(b < a)
  <2>1. SUFFICES ASSUME b + 1 <= a PROVE FALSE
    BY <1>1
  <2>2. (b + 1) * d = b * d + d /\ (b + 1) * d <= a * d /\ a * d \in Nat /\ b * d \in Nat
    BY <1>1, <2>1
  <2> QED
    BY <1>1, <2>2
<1> QED
  BY <1>1

LEMMA LegacyCount ==
  ASSUME NEW f, f \in Contents
  PROVE  (Size[f] + Object!ChunkCount(Size[f]) * TAG + CHUNK + TAG - 1) \div (CHUNK + TAG)
            = Object!ChunkCount(Size[f])
<1> DEFINE n == Object!ChunkCount(Size[f])
           bytes == Size[f]
           m == n - 1
           d == CHUNK + TAG
           y == bytes + n * TAG + CHUNK + TAG - 1
           q == y \div d
<1>1. /\ n \in Nat \ {0} /\ bytes \in Nat /\ TAG \in Nat \ {0} /\ CHUNK \in Nat \ {0}
      /\ bytes <= n * CHUNK /\ m * CHUNK <= bytes /\ m \in Nat
  <2>1. n \in Nat \ {0} /\ bytes \in Nat /\ bytes <= n * CHUNK
    BY Counting, ContainerConstants
  <2>2. m \in Nat /\ m < n
    BY <2>1
  <2>3. m * CHUNK <= bytes
    BY <2>1, <2>2, Counting
  <2> QED
    BY <2>1, <2>2, <2>3, ContainerConstants
<1> HIDE DEF n, bytes
<1>2. n * CHUNK = m * CHUNK + CHUNK /\ n * CHUNK \in Nat /\ n * TAG \in Nat /\ m * CHUNK \in Nat
      /\ n * d = n * CHUNK + n * TAG
  BY <1>1
<1>3. y \in Nat /\ d \in Nat \ {0} /\ n * d <= y /\ y < n * d + d
  <2> DEFINE a == n * CHUNK
             b == n * TAG
             c == m * CHUNK
  <2>1. a = c + CHUNK /\ a \in Nat /\ b \in Nat /\ c \in Nat /\ c <= bytes /\ bytes <= a
        /\ n * d = a + b /\ y = bytes + b + CHUNK + TAG - 1 /\ d = CHUNK + TAG
    BY <1>1, <1>2
  <2> HIDE DEF a, b, c, y, d
  <2> QED
    BY <1>1, <2>1
<1> HIDE DEF y, d, m
<1>4. q \in Nat /\ q * d <= y /\ y < q * d + d
  BY <1>3
<1> HIDE DEF q
<1>5. q = n
  <2>1. n \in Nat
    BY <1>1
  <2> QED
    BY <1>3, <1>4, <2>1, OneQuotient
<1> QED
  BY <1>5 DEF q, y, d, n, bytes

LEMMA StoredDoesOpen ==
  ASSUME file \in Contents, version \in Object!Versions
  PROVE  Object!OpenFile(version, Object!SealedFile(file, version), file,
                         IF version = 1 THEN Object!NoManifest ELSE Object!AAD(file, version))
            = [ok |-> TRUE, cells |-> Object!Plain(file)]
<1> DEFINE ct == Object!SealedFile(file, version)
           m == Object!AAD(file, version)
           n == Object!ChunkCount(Size[file])
           whole == Object!FlattenSeq(Chunks(file, version, n))
           good == [ok |-> TRUE, cells |-> Object!Plain(file)]
           none == <<>>
           note == IF version = 1 THEN Object!NoManifest ELSE m
<1>1. whole \in Seq(Cells) /\ none \in Seq(Cells) /\ Len(none) = 0 /\ n \in Nat /\ Size[file] \in Nat
  BY ChunksTyped, Counting, ContainerConstants
<1>2. version # 1 => m.v = version
  BY DEF Object!AAD, Object!BuildManifest
<1>3. CASE version >= 3
  <2> DEFINE head == Object!WriteHeader(m)
  <2>1. /\ head \in Seq(Cells) /\ Len(head) = 2 /\ head[1].kind = "magic" /\ head[1].v = m.v
        /\ head[2].kind = "manifest" /\ head[2].m = m
    BY HeaderIs, PieceTyped
  <2>2. ct = head \o whole
    BY <1>3, SealedFileIs
  <2>3. version \in 3 .. 5 /\ version \in 2 .. 5 /\ version # 1
    BY <1>3 DEF Object!Versions, Object!VERSION
  <2> HIDE DEF head, m
  <2>4. Object!DecryptChunks(ct, 2, file, m) = good
    BY <2>1, <2>2, <2>3, WholeDecrypted DEF m
  <2> HIDE DEF ct, n, good, whole
  <2>5. Len(ct) >= 2 /\ ct[1] = head[1] /\ ct[2] = head[2]
    <3>1. Len(ct) = Len(head) + Len(whole) /\ Len(whole) \in Nat
          /\ \A i \in 1 .. Len(head) + Len(whole) :
                ct[i] = IF i <= Len(head) THEN head[i] ELSE whole[i - Len(head)]
      BY <1>1, <2>1, <2>2, LenProperties, ConcatProperties
    <3> QED
      BY <2>1, <3>1
  <2>6. Object!HasHeader(ct) /\ ct[2].m = m
    BY <1>2, <2>1, <2>3, <2>5 DEF Object!HasHeader, Object!HEADER, Object!VERSION
  <2>7. Object!DecryptFile(ct, file, m) = good
    BY <2>4, <2>6 DEF Object!DecryptFile, Object!HEADER
  <2>8. Object!OpenFile(version, ct, file, m) = good
    BY <1>3, <2>7 DEF Object!OpenFile
  <2> QED
    BY <2>3, <2>8 DEF ct, good, m
<1>4. CASE version = 2
  <2>1. ct = none \o whole
    BY <1>4, SealedFileIs
  <2>2. version \in 2 .. 5 /\ ~(version >= 3) /\ version # 1
    BY <1>4
  <2> HIDE DEF none, m
  <2>3. Object!DecryptChunks(ct, 0, file, m) = good
    BY <1>1, <2>1, <2>2, WholeDecrypted DEF m
  <2>4. m # Object!NoManifest
    <3>1. Object!NoManifest.v = 1
      BY DEF Object!NoManifest
    <3> QED
      BY <1>2, <1>4, <3>1
  <2> HIDE DEF ct, n, good, whole
  <2>5. Object!DecryptV2(ct, file, m) = good
    BY <2>3, <2>4 DEF Object!DecryptV2
  <2>6. Object!OpenFile(version, ct, file, m) = good
    BY <1>4, <2>2, <2>5 DEF Object!OpenFile
  <2> QED
    BY <2>2, <2>6 DEF ct, good, m
<1>5. CASE version = 1
  <2>1. ct = none \o whole /\ m = Object!NoManifest
    BY <1>5, SealedFileIs DEF Object!AAD
  <2> HIDE DEF none, m
  <2>2. Object!OpenChunks(ct, 0, n, file, m) = good /\ Len(ct) = Size[file] + n * TAG
    <3>1. Object!OpenChunks(ct, Len(none), n, file, m) = good
          /\ Len(ct) = Len(none) + Size[file] + n * TAG
      BY <1>1, <2>1, OwnOpens DEF m
    <3> HIDE DEF n, good, ct
    <3> QED
      BY <1>1, <3>1
  <2>3. (Len(ct) + CHUNK + TAG - 1) \div (CHUNK + TAG) = n
    <3>1. Len(ct) + CHUNK + TAG - 1 = Size[file] + n * TAG + CHUNK + TAG - 1
      BY <2>2
    <3> QED
      BY <3>1, LegacyCount
  <2> HIDE DEF ct, n, good, whole
  <2>4. Object!DecryptLegacy(ct, file) = good
    BY <2>1, <2>2, <2>3 DEF Object!DecryptLegacy
  <2>5. ~(version >= 3) /\ version # 2
    BY <1>5
  <2>6. Object!OpenFile(version, ct, file, Object!NoManifest) = good
    BY <1>5, <2>4, <2>5 DEF Object!OpenFile
  <2> QED
    BY <1>5, <2>6 DEF ct, good
<1> QED
  BY <1>3, <1>4, <1>5 DEF Object!Versions, Object!VERSION

-----------------------------------------------------------------------------
(* An object so far is its header and the chunks read, wherever they are;  *)
(* what reaches the store is all of it.                                    *)
SoFar(k) ==
    Object!WriteHeader(Object!AAD(file, version)) \o Object!FlattenSeq(Chunks(file, version, k))

ReadingInv ==
    /\ version = Object!VERSION /\ chunk \in Nat /\ chunk < Object!ChunkCount(Size[file])
    /\ parts \in Seq(Cells) /\ flushed \in Seq(Cells) /\ flushed \o parts = SoFar(chunk)

ContainerInv ==
    /\ file \in Contents /\ version \in Object!Versions
    /\ phase = "reading" => ReadingInv
    /\ phase = "stored" => flushed = Object!SealedFile(file, version)
    /\ phase \in {"aborted", "gone"} => flushed \o parts = <<>>
    /\ Sound(blob, blob.claimed)

LEMMA SoFarNext ==
  ASSUME file \in Contents, NEW k, k \in Nat, k < Object!ChunkCount(Size[file])
  PROVE  /\ SoFar(k + 1) = SoFar(k) \o Object!SealedChunk(file, version, k)
         /\ Object!SealedChunk(file, version, k) \in Seq(Cells)
<1> DEFINE head == Object!WriteHeader(Object!AAD(file, version))
           a == Object!FlattenSeq(Chunks(file, version, k))
           b == Object!SealedChunk(file, version, k)
<1>1. head \in Seq(Cells) /\ a \in Seq(Cells) /\ b \in Seq(Cells)
  <2>1. k <= Object!ChunkCount(Size[file])
    BY Counting, ContainerConstants
  <2> QED
    BY <2>1, PieceTyped, ChunksTyped
<1>2. Object!FlattenSeq(Chunks(file, version, k + 1)) = a \o b
  BY NextChunk
<1> HIDE DEF head, a, b
<1>3. (head \o a) \o b = head \o (a \o b)
  BY <1>1, ConcatAssociative
<1> QED
  BY <1>1, <1>2, <1>3 DEF SoFar, head, a, b

\* Only a slice of the right length is sealed.
LEMMA WholeSlice ==
  ASSUME file \in Contents, NEW k, k \in Nat, k < Object!ChunkCount(Size[file]),
         NEW got, got \in 0 .. Len(Object!Slice(file, k)),
         Len(SubSeq(Object!Slice(file, k), 1, got)) = Len(Object!Slice(file, k))
  PROVE  SubSeq(Object!Slice(file, k), 1, got) = Object!Slice(file, k)
<1> DEFINE s == Object!Slice(file, k)
<1>1. s \in Seq(Stuff) /\ Len(s) \in Nat
  BY Sliced, LenProperties
<1> HIDE DEF s
<1>2. Len(SubSeq(s, 1, got)) = got
  <2> DEFINE m == 1
  <2>1. \A j \in m .. got : s[j] \in Stuff
    <3>1. \A j \in m .. got : j \in 1 .. Len(s)
      BY <1>1 DEF s
    <3> QED
      BY <1>1, <3>1, ElementOfSeq
  <2>2. m \in Int /\ got \in Int
    BY <1>1 DEF s
  <2> HIDE DEF m
  <2>3. Len(SubSeq(s, m, got)) = IF m <= got THEN got - m + 1 ELSE 0
    BY <2>1, <2>2, SubSeqProperties
  <2>4. got \in Nat
    BY <1>1 DEF s
  <2> QED
    BY <2>3, <2>4 DEF m
<1>3. got = Len(s)
  BY <1>2 DEF s
<1>4. SubSeq(s, 1, Len(s)) = s
  BY <1>1, SubSeqFull
<1> QED
  BY <1>3, <1>4 DEF s

LEMMA EncryptStep ==
  ASSUME ContainerInv, phase = "reading", Object!EncryptChunk(Object!Slice(file, chunk)),
         UNCHANGED <<file, version, stop, blob>>
  PROVE  ContainerInv'
<1> DEFINE n == Object!ChunkCount(Size[file])
           ct == Object!SealedChunk(file, version, chunk)
<1>1. /\ file \in Contents /\ version \in Object!Versions /\ version = Object!VERSION
      /\ chunk \in Nat /\ chunk < n /\ n \in Nat /\ parts \in Seq(Cells) /\ flushed \in Seq(Cells)
      /\ flushed \o parts = SoFar(chunk)
  BY Counting, ContainerConstants DEF ContainerInv, ReadingInv
<1>2. ct \in Seq(Cells) /\ SoFar(chunk + 1) = SoFar(chunk) \o ct
  BY <1>1, SoFarNext
<1>3. /\ \/ parts' = <<>> /\ flushed' = flushed \o parts \o ct
         \/ parts' = parts \o ct /\ flushed' = flushed /\ chunk + 1 # n
      /\ chunk' = chunk + 1
      /\ \/ phase' = "stored" /\ chunk + 1 = n /\ parts' = <<>>
         \/ phase' = "reading" /\ chunk + 1 # n
  BY <1>1 DEF Object!EncryptChunk, Object!SealedChunk
<1> HIDE DEF n, ct
<1> DEFINE sofar == flushed \o parts
           whole == sofar \o ct
<1>4. /\ sofar \in Seq(Cells) /\ whole \in Seq(Cells) /\ parts \o ct \in Seq(Cells)
      /\ flushed \o (parts \o ct) = whole /\ whole \o <<>> = whole
  <2>1. sofar \in Seq(Cells) /\ parts \o ct \in Seq(Cells)
    BY <1>1, <1>2, ConcatProperties
  <2>2. flushed \o (parts \o ct) = whole
    <3>1. parts \in Seq(Cells) /\ flushed \in Seq(Cells) /\ ct \in Seq(Cells)
      BY <1>1, <1>2
    <3> QED
      BY ONLY <3>1, ConcatAssociative
  <2> HIDE DEF sofar
  <2>3. whole \in Seq(Cells)
    BY <1>2, <2>1, ConcatProperties
  <2> HIDE DEF whole
  <2>4. whole \o <<>> = whole
    BY <2>3, ConcatEmptySeq
  <2> QED
    BY <2>1, <2>2, <2>3, <2>4 DEF sofar, whole
<1>5. parts' \in Seq(Cells) /\ flushed' \in Seq(Cells) /\ flushed' \o parts' = SoFar(chunk + 1)
  <2>1. whole = SoFar(chunk + 1)
    BY <1>1, <1>2
  <2>2. CASE parts' = <<>> /\ flushed' = flushed \o parts \o ct
    <3>1. flushed' = whole /\ <<>> \in Seq(Cells)
      BY <2>2
    <3> HIDE DEF whole
    <3> QED
      BY <1>4, <2>1, <2>2, <3>1
  <2>3. CASE parts' = parts \o ct /\ flushed' = flushed
    <3> HIDE DEF whole
    <3> QED
      BY <1>1, <1>4, <2>1, <2>3
  <2> QED
    BY <1>3, <2>2, <2>3
<1>6. chunk + 1 \in Nat /\ (chunk + 1 # n => chunk + 1 < n)
  BY <1>1
<1>7. phase' = "stored" => flushed' = Object!SealedFile(file, version)
  <2> SUFFICES ASSUME phase' = "stored" PROVE flushed' = Object!SealedFile(file, version)
    OBVIOUS
  <2>1. flushed' = SoFar(chunk + 1) /\ chunk + 1 = n
    <3>1. parts' = <<>> /\ chunk + 1 = n
      BY <1>3
    <3>2. flushed' \o <<>> = flushed'
      BY <1>5, ConcatEmptySeq
    <3> QED
      BY <1>5, <3>1, <3>2
  <2>2. version >= 3
    BY <1>1 DEF Object!VERSION
  <2> QED
    BY <1>1, <2>1, <2>2, SealedFileIs DEF SoFar, n
<1>8. UNCHANGED <<Cells, file, version, blob>>
  BY DEF Cells, Made, Object!Pieces, Object!Manifests, Object!Ever
<1>9. phase' = "reading" => ReadingInv'
  BY <1>1, <1>3, <1>5, <1>6, <1>8 DEF ReadingInv, SoFar, n
<1>10. phase' \notin {"aborted", "gone"}
  BY <1>3
<1>11. Sound(blob, blob.claimed)'
  BY <1>8 DEF ContainerInv, Sound
<1> QED
  BY <1>1, <1>3, <1>7, <1>8, <1>9, <1>10, <1>11 DEF ContainerInv, Object!SealedFile, Object!SealedChunk

\* What the object does not hang on may change.
LEMMA SameObject ==
  ASSUME ContainerInv, UNCHANGED <<file, version, chunk, parts, flushed>>,
         phase' \in {phase, "opened"}, Sound(blob, blob.claimed)'
  PROVE  ContainerInv'
<1>1. UNCHANGED <<Cells, file, version>>
  BY DEF Cells, Made, Object!Pieces, Object!Manifests, Object!Ever
<1>2. phase' = "reading" => ReadingInv'
  BY <1>1 DEF ContainerInv, ReadingInv, SoFar
<1> QED
  BY <1>1, <1>2 DEF ContainerInv, Object!SealedFile, Object!SealedChunk

\* Of an object that is given up nothing is left.
LEMMA NothingLeft ==
  ASSUME ContainerInv, UNCHANGED <<file, version, blob>>, phase' \in {"aborted", "gone"},
         Object!Drop
  PROVE  ContainerInv'
<1>1. parts' = <<>> /\ flushed' = <<>>
  BY DEF Object!Drop
<1>2. <<>> \o <<>> = <<>>
  OBVIOUS
<1>3. flushed' \o parts' = <<>>
  BY <1>1, <1>2
<1>4. Sound(blob, blob.claimed)'
  BY DEF ContainerInv, Sound
<1> QED
  BY <1>3, <1>4 DEF ContainerInv

LEMMA ContainerStep ==
  ASSUME ContainerInv, Object!Next
  PROVE  ContainerInv'
<1>1. file \in Contents /\ Sound(blob, blob.claimed)
  BY DEF ContainerInv
<1>2. UNCHANGED <<file, version, blob>> => Sound(blob, blob.claimed)'
  BY <1>1 DEF Sound
<1>3. CASE Object!ReadSlice
  <2>1. phase = "reading" /\ UNCHANGED <<file, version, stop, blob>>
    BY <1>3 DEF Object!ReadSlice
  <2>2. CASE Object!NextReader
    <3>1. \/ UNCHANGED <<phase, parts, flushed, chunk>>
          \/ phase' = "gone" /\ Object!Drop
      BY <2>2 DEF Object!NextReader
    <3>2. CASE UNCHANGED <<phase, parts, flushed, chunk>>
      BY <1>2, <2>1, <3>2, SameObject
    <3>3. CASE phase' = "gone" /\ Object!Drop
      BY <2>1, <3>3, NothingLeft
    <3> QED
      BY <3>1, <3>2, <3>3
  <2>3. CASE ~Object!NextReader
    <3>1. PICK got \in 0 .. Object!Want :
             LET buf == SubSeq(Object!Slice(file, chunk), 1, got)
             IN Object!Sized(buf) /\ Object!EncryptChunk(buf)
      BY <1>3, <2>3 DEF Object!ReadSlice
    <3>2. chunk \in Nat /\ chunk < Object!ChunkCount(Size[file])
      BY <2>1 DEF ContainerInv, ReadingInv
    <3>3. SubSeq(Object!Slice(file, chunk), 1, got) = Object!Slice(file, chunk)
      BY <1>1, <3>1, <3>2, WholeSlice DEF Object!Sized, Object!Want
    <3>4. Object!EncryptChunk(Object!Slice(file, chunk))
      BY <3>1, <3>3
    <3> QED
      BY <2>1, <3>4, EncryptStep
  <2> QED
    BY <2>2, <2>3
<1>4. CASE Object!Cancel
  <2>1. UNCHANGED <<file, version, phase, chunk, parts, flushed, blob>>
    BY <1>4 DEF Object!Cancel
  <2> QED
    BY <1>2, <2>1, SameObject
<1>5. CASE Object!Aborted
  <2>1. UNCHANGED <<file, version, blob>> /\ phase' = "aborted" /\ Object!Drop
    BY <1>5 DEF Object!Aborted
  <2> QED
    BY <2>1, NothingLeft
<1>6. CASE Object!Open
  <2>1. UNCHANGED <<file, version, chunk, parts, flushed>> /\ phase' = "opened"
    BY <1>6 DEF Object!Open
  <2>2. Sound(blob, blob.claimed)'
    <3>1. Sound(blob', blob'.claimed)
      BY <1>1, <1>6, VisitSound
    <3> QED
      BY <2>1, <3>1 DEF Sound
  <2> QED
    BY <2>1, <2>2, SameObject
<1> QED
  BY <1>3, <1>4, <1>5, <1>6 DEF Object!Next

LEMMA ContainerInit == BrowserInit /\ part = "container" => ContainerInv
<1> SUFFICES ASSUME BrowserInit, part = "container" PROVE ContainerInv
  OBVIOUS
<1>1. Object!Init
  BY DEF BrowserInit
<1>2. file \in Contents /\ version \in Object!Versions /\ phase \in {"reading", "stored"} /\ chunk = 0
  BY <1>1 DEF Object!Init
<1>3. Sound(blob, blob.claimed)
  BY <1>1 DEF Object!Init, Object!Unopened, Sound
<1>4. CASE phase = "stored"
  BY <1>1, <1>2, <1>3, <1>4 DEF Object!Init, ContainerInv
<1>5. CASE phase = "reading"
  <2> DEFINE head == Object!WriteHeader(Object!AAD(file, version))
             none == <<>>
             n == Object!ChunkCount(Size[file])
  <2>1. version = Object!VERSION /\ parts = head /\ flushed = none
    BY <1>1, <1>5 DEF Object!Init
  <2>2. 0 \in Nat /\ 0 < n /\ 0 <= n
    BY <1>2, Counting, ContainerConstants
  <2>3. head \in Seq(Cells) /\ none \in Seq(Cells)
    BY <1>2, PieceTyped
  <2>4. Object!FlattenSeq(Chunks(file, version, 0)) = none
    <3>1. Chunks(file, version, 0) \in Seq(Seq(Cells)) /\ Len(Chunks(file, version, 0)) = 0
      BY <1>2, <2>2, ChunksTyped
    <3>2. Chunks(file, version, 0) = <<>>
      BY <3>1, EmptySeq
    <3> QED
      BY <3>2 DEF Object!FlattenSeq
  <2>5. none \o head = head /\ head \o none = head
    BY <2>3, ConcatEmptySeq
  <2> HIDE DEF head, none, n
  <2>6. flushed \o parts = SoFar(0)
    BY <2>1, <2>4, <2>5 DEF SoFar, head
  <2>7. ReadingInv
    BY <1>2, <2>1, <2>2, <2>3, <2>6 DEF ReadingInv, n
  <2> QED
    BY <1>2, <1>3, <1>5, <2>7 DEF ContainerInv
<1> QED
  BY <1>2, <1>4, <1>5

LEMMA ContainerOpens == ContainerInv => Object!StoredOpens /\ Object!OpenedIsSealed
<1> SUFFICES ASSUME ContainerInv PROVE Object!StoredOpens /\ Object!OpenedIsSealed
  OBVIOUS
<1>1. Object!StoredOpens
  BY StoredDoesOpen DEF ContainerInv, Object!StoredOpens
<1>2. Object!OpenedIsSealed
  BY DEF ContainerInv, Sound, Object!OpenedIsSealed
<1> QED
  BY <1>1, <1>2

(* The case that OpenedIsSealed excepts is there: an object of whatever    *)
(* version, said to be of the first and served empty, has no chunk that    *)
(* could fail to open, and opens as an empty file.  The comment at         *)
(* e2e.js:773 and README.md:559 say that version confusion fails closed in *)
(* both directions.                                                        *)
THEOREM EmptyOpensAsFirstVersion ==
  ASSUME NEW f \in Contents, NEW manifest
  PROVE  Object!OpenFile(1, <<>>, f, manifest) = [ok |-> TRUE, cells |-> <<>>]
<1> DEFINE d == CHUNK + TAG
           y == Len(<<>>) + CHUNK + TAG - 1
           n == y \div d
<1>1. Object!OpenFile(1, <<>>, f, manifest) = Object!DecryptLegacy(<<>>, f)
  BY DEF Object!OpenFile
<1>2. n = 0
  <2>1. d \in Nat \ {0} /\ y = d - 1
    BY ContainerConstants
  <2> HIDE DEF y, d
  <2>2. y \in Nat /\ 0 * d <= y /\ y < 0 * d + d
    BY <2>1
  <2>3. n \in Nat /\ n * d <= y /\ y < n * d + d
    BY <2>1, <2>2
  <2> HIDE DEF n
  <2> QED
    BY <2>1, <2>2, <2>3, OneQuotient
<1>3. Object!DecryptLegacy(<<>>, f) = Object!OpenChunks(<<>>, 0, n, f, Object!NoManifest)
  BY DEF Object!DecryptLegacy
<1> HIDE DEF n
<1>4. Object!OpenChunks(<<>>, 0, 0, f, Object!NoManifest)
          = [ok |-> TRUE, cells |-> Object!FlattenSeq(<<>>)]
  <2>1. 0 .. 0 - 1 = {} /\ 1 .. 0 = {}
    OBVIOUS
  <2> QED
    BY <2>1 DEF Object!OpenChunks
<1>5. Object!FlattenSeq(<<>>) = <<>>
  BY DEF Object!FlattenSeq
<1> QED
  BY <1>1, <1>2, <1>3, <1>4, <1>5

-----------------------------------------------------------------------------
OpensInv ==
    /\ part = "container" => ContainerInv
    /\ part = "sealing" => BlobsInv

LEMMA OpensStep == OpensInv /\ [BrowserNext]_client => OpensInv'
<1> SUFFICES ASSUME OpensInv, [BrowserNext]_client PROVE OpensInv'
  OBVIOUS
<1>1. part' = part
  BY DEF BrowserNext, Others, client
<1>2. ASSUME part = "container" PROVE ContainerInv'
  <2>1. Object!Next \/ UNCHANGED containerVars
    BY <1>2 DEF BrowserNext, client
  <2>2. ASSUME UNCHANGED containerVars PROVE ContainerInv'
    <3>1. UNCHANGED <<file, version, phase, chunk, parts, flushed, blob>>
      BY <2>2 DEF containerVars
    <3>2. ContainerInv
      BY <1>2 DEF OpensInv
    <3>3. Sound(blob, blob.claimed)'
      BY <3>1, <3>2 DEF ContainerInv, Sound
    <3> QED
      BY <3>1, <3>2, <3>3, SameObject
  <2> QED
    BY <1>2, <2>1, <2>2, ContainerStep DEF OpensInv
<1>3. ASSUME part = "sealing" PROVE BlobsInv'
  <2>1. Blobs!Next \/ UNCHANGED sealingVars
    BY <1>3 DEF BrowserNext, client
  <2>2. BlobsInv
    BY <1>3 DEF OpensInv
  <2>3. CASE UNCHANGED sealingVars
    BY <2>2, <2>3 DEF sealingVars, BlobsInv
  <2>4. CASE Blobs!Next
    <3>1. PICK s, sort, id :
             /\ s \in Shares /\ sort \in Blobs!KINDS
             /\ \/ \E bare, len : /\ bare \in BOOLEAN /\ len \in Lengths
                                  /\ Blobs!Seal(s, sort, id, bare, len)
                \/ Blobs!Open(s, sort, id)
      BY <2>4 DEF Blobs!Next
    <3> QED
      BY <2>2, <3>1, SealStep, OpenStep
  <2> QED
    BY <2>1, <2>3, <2>4
<1> QED
  BY <1>1, <1>2, <1>3 DEF OpensInv

(* A file is stored so that it opens to itself, however often a read of it *)
(* failed, and a cancelled or unreadable one leaves nothing; whatever is   *)
(* served for it opens to the file or not at all, unless it is said to be  *)
(* of the first version: one that is may be cut to whole chunks, and one   *)
(* that is not may open as an empty file.  A wrapped key, a name, a note,  *)
(* a roster or a drop's key opens only as what it was sealed as, and none  *)
(* of their keys is told to the server.                                    *)
THEOREM EverythingOpensAsSealed == BrowserSpec => []OpensAsSealed
<1>1. BrowserInit => OpensInv
  BY ContainerInit, SealingInit DEF OpensInv
<1>2. OpensInv => OpensAsSealed
  BY ContainerOpens, SealedOpens DEF OpensInv, OpensAsSealed
<1> QED
  BY <1>1, <1>2, OpensStep, PTL DEF BrowserSpec
-----------------------------------------------------------------------------
(* The types of an object on its way, and of the blobs held.               *)

BlobTyped == blob.ok \in BOOLEAN /\ blob.claimed \in 0 .. Object!VERSION
ReadTyped ==
    /\ phase \in {"reading", "stored", "opened", "gone", "aborted"}
    /\ chunk \in 0 .. Object!ChunkCount(Size[file]) /\ attempt \in 0 .. Object!ATTEMPTS - 1
    /\ reader \in {"direct", "fallback"} /\ pending \in 0 .. FLUSH - 1 /\ stop \in BOOLEAN
ObjectTyped == ReadTyped /\ BlobTyped

\* A blob opens or it does not, under some version that was asked for.
LEMMA VisitTyped == Object!Open => BlobTyped'
<1> SUFFICES ASSUME Object!Open PROVE BlobTyped'
  OBVIOUS
<1>1. PICK head, body, cut, v, note :
        v \in Object!Versions /\ blob' = Object!Visit(head, body, cut, v, note)
  BY DEF Object!Open
<1> DEFINE ct == head \o body
           served == SubSeq(ct, 1, Len(ct) - Object!Smaller(cut, Len(ct)))
           out == Object!OpenFile(v, served, file, note)
<1>2. blob' = [claimed |-> v, ok |-> out.ok, cells |-> out.cells]
  BY <1>1 DEF Object!Visit
<1> HIDE DEF served
<1>3. \A offset0, n, aad : Object!OpenChunks(served, offset0, n, file, aad).ok \in BOOLEAN
  <2> TAKE offset0, n, aad
  <2> DEFINE all == [ok |-> TRUE, cells |-> Object!FlattenSeq([i \in 1 .. n |->
                        SubSeq(served, offset0 + (i - 1) * (CHUNK + TAG) + 1,
                               Object!Smaller(offset0 + (i - 1 + 1) * (CHUNK + TAG),
                                              Len(served)))[1].seal.plain])]
  <2>1. Object!OpenChunks(served, offset0, n, file, aad) \in {all, Object!Refused}
    BY DEF Object!OpenChunks
  <2>2. all.ok = TRUE /\ Object!Refused.ok = FALSE
    BY DEF Object!Refused
  <2> HIDE DEF all
  <2> QED
    BY <2>1, <2>2
<1>4. Object!Refused.ok \in BOOLEAN
  BY DEF Object!Refused
<1>5. out.ok \in BOOLEAN
  <2>1. \A offset0, m : Object!DecryptChunks(served, offset0, file, m).ok \in BOOLEAN
    BY <1>3, <1>4 DEF Object!DecryptChunks
  <2>2. CASE v >= 3
    BY <1>4, <2>1, <2>2 DEF Object!OpenFile, Object!DecryptFile
  <2>3. CASE v = 2
    BY <1>4, <2>1, <2>3 DEF Object!OpenFile, Object!DecryptV2
  <2>4. CASE v = 1
    BY <1>3, <2>4 DEF Object!OpenFile, Object!DecryptLegacy
  <2> QED
    BY <1>1, <2>2, <2>3, <2>4 DEF Object!Versions, Object!VERSION
<1> HIDE DEF out
<1>6. v \in 0 .. Object!VERSION
  BY <1>1 DEF Object!Versions, Object!VERSION
<1> QED
  BY <1>2, <1>5, <1>6 DEF BlobTyped, Object!VERSION

LEMMA ObjectTypedStep ==
  ASSUME ContainerInv, ObjectTyped, Object!Next
  PROVE  ObjectTyped'
<1>1. /\ file \in Contents /\ Object!ChunkCount(Size[file]) \in Nat
      /\ FLUSH \in Nat \ {0}
  BY Counting, ContainerConstants DEF ContainerInv
<1>2. UNCHANGED blob => BlobTyped'
  BY DEF ObjectTyped, BlobTyped
<1>3. CASE Object!ReadSlice
  <2>1. phase = "reading" /\ UNCHANGED <<file, version, stop, blob>>
    BY <1>3 DEF Object!ReadSlice
  <2>2. chunk \in Nat /\ chunk < Object!ChunkCount(Size[file]) /\ version = Object!VERSION
    BY <2>1 DEF ContainerInv, ReadingInv
  <2>3. CASE Object!NextReader
    BY <1>1, <1>2, <2>1, <2>3 DEF ObjectTyped, ReadTyped, Object!NextReader, Object!ATTEMPTS
  <2>4. CASE ~Object!NextReader
    <3>1. PICK got \in 0 .. Object!Want :
             LET buf == SubSeq(Object!Slice(file, chunk), 1, got)
             IN Object!Sized(buf) /\ Object!EncryptChunk(buf)
      BY <1>3, <2>4 DEF Object!ReadSlice
    <3>2. SubSeq(Object!Slice(file, chunk), 1, got) = Object!Slice(file, chunk)
      BY <1>1, <2>2, <3>1, WholeSlice DEF Object!Sized, Object!Want
    <3>3. Object!EncryptChunk(Object!Slice(file, chunk))
      BY <3>1, <3>2
    <3> DEFINE ct == Object!SealedChunk(file, version, chunk)
               n == Object!ChunkCount(Size[file])
    <3>4. Len(ct) \in Nat
      BY <1>1, <2>2, SoFarNext, LenProperties
    <3>5. /\ pending' = (IF pending + Len(ct) >= FLUSH THEN 0 ELSE pending + Len(ct))
          /\ chunk' = chunk + 1 /\ phase' \in {phase, "stored"}
          /\ reader' = "direct" /\ attempt' = 0
      BY <2>2, <3>3 DEF Object!EncryptChunk, Object!SealedChunk, Object!StartChunk
    <3> HIDE DEF ct
    <3>6. pending' \in 0 .. FLUSH - 1 /\ chunk' \in 0 .. n
      BY <1>1, <2>2, <3>4, <3>5 DEF ObjectTyped, ReadTyped
    <3> HIDE DEF n
    <3> QED
      BY <1>2, <2>1, <3>5, <3>6 DEF ObjectTyped, ReadTyped, Object!ATTEMPTS, n
  <2> QED
    BY <2>3, <2>4
<1>4. CASE Object!Cancel
  BY <1>2, <1>4 DEF ObjectTyped, ReadTyped, Object!Cancel
<1>5. CASE Object!Aborted
  BY <1>2, <1>5 DEF ObjectTyped, ReadTyped, Object!Aborted
<1>6. CASE Object!Open
  <2>1. BlobTyped'
    BY <1>6, VisitTyped
  <2> QED
    BY <1>6, <2>1 DEF ObjectTyped, ReadTyped, Object!Open
<1> QED
  BY <1>3, <1>4, <1>5, <1>6 DEF Object!Next

LEMMA ObjectTypes ==
  ASSUME ContainerInv, ObjectTyped
  PROVE  Object!TypeOK
BY DEF ContainerInv, ObjectTyped, ReadTyped, BlobTyped, Object!TypeOK

LEMMA SameCardinality == \A S : Blobs!Cardinality(S) = Cardinality(S)
BY Zenon DEF Blobs!Cardinality, Cardinality, Blobs!IsFiniteSet, IsFiniteSet

SealedTyped == IsFiniteSet(slots) /\ Blobs!TypeOK

LEMMA SealedTypedStep ==
  ASSUME SealedTyped, Blobs!Next
  PROVE  SealedTyped'
<1>1. PICK s, sort, id :
         /\ s \in Shares /\ sort \in Blobs!KINDS /\ id \in Ids \cup {""}
         /\ \/ \E bare, len : /\ bare \in BOOLEAN /\ len \in Lengths
                              /\ Blobs!Seal(s, sort, id, bare, len)
            \/ Blobs!Open(s, sort, id)
  BY DEF Blobs!Next
<1>2. ASSUME NEW bare, NEW len, Blobs!Seal(s, sort, id, bare, len) PROVE SealedTyped'
  <2> DEFINE body == [share |-> s, kind |-> sort, id |-> id, len |-> len]
             new == [at |-> <<s, sort, id>>, bare |-> bare,
                     blob |-> Blobs!SealBlob(s, sort, id, bare, body)]
  <2>1. slots' = slots \cup {new} /\ new.at = <<s, sort, id>>
    BY <1>2 DEF Blobs!Seal
  <2> HIDE DEF new
  <2>2. Cardinality(slots) < MaxSealed /\ MaxSealed \in Nat
    BY <1>2, SameCardinality, BrowserAssumption DEF Blobs!Seal, Blobs!SealingAssumption
  <2>3. IsFiniteSet(slots') /\ Cardinality(slots') <= Cardinality(slots) + 1
    <3>1. /\ IsFiniteSet(slots \cup {new})
          /\ \/ Cardinality(slots \cup {new}) = Cardinality(slots)
             \/ Cardinality(slots \cup {new}) = Cardinality(slots) + 1
      BY FS_AddElement DEF SealedTyped
    <3>2. Cardinality(slots) \in Nat
      BY FS_CardinalityType DEF SealedTyped
    <3> QED
      BY <2>1, <3>1, <3>2
  <2>4. Cardinality(slots) \in Nat /\ Cardinality(slots') \in Nat
    BY <2>3, FS_CardinalityType DEF SealedTyped
  <2>5. Blobs!Cardinality(slots') <= MaxSealed
    BY <2>2, <2>3, <2>4, SameCardinality
  <2>6. \A slot \in slots' : slot.at \in Shares \X Blobs!KINDS \X (Ids \cup {""})
    <3>1. <<s, sort, id>> \in Shares \X Blobs!KINDS \X (Ids \cup {""})
      BY <1>1
    <3>2. \A slot \in slots : slot.at \in Shares \X Blobs!KINDS \X (Ids \cup {""})
      BY DEF SealedTyped, Blobs!TypeOK
    <3> QED
      BY <2>1, <3>1, <3>2
  <2>7. blobOpened' = Blobs!Unopened
    BY <1>2 DEF Blobs!Seal
  <2> QED
    BY <2>3, <2>5, <2>6, <2>7 DEF SealedTyped, Blobs!TypeOK, Blobs!KINDS, Blobs!Unopened
<1>3. CASE Blobs!Open(s, sort, id)
  <2>1. PICK body : blobOpened' = <<s, sort, id, body>> \/ blobOpened' = Blobs!Unopened
    BY <1>3 DEF Blobs!Open
  <2>2. Len(<<s, sort, id, body>>) = 4
    OBVIOUS
  <2>3. slots' = slots
    BY <1>3 DEF Blobs!Open
  <2> QED
    BY <2>1, <2>2, <2>3 DEF SealedTyped, Blobs!TypeOK, Blobs!KINDS, Blobs!Unopened
<1> QED
  BY <1>1, <1>2, <1>3

OpensTyped ==
    /\ part = "container" => ObjectTyped
    /\ part = "sealing" => SealedTyped

LEMMA OpensTypedInit == BrowserInit => OpensTyped
<1> SUFFICES ASSUME BrowserInit PROVE OpensTyped
  OBVIOUS
<1>1. ObjectTyped
  <2>1. Object!Init
    BY DEF BrowserInit
  <2>2. file \in Contents
    BY <2>1 DEF Object!Init
  <2>3. Object!ChunkCount(Size[file]) \in Nat /\ FLUSH \in Nat \ {0}
    BY <2>2, Counting, ContainerConstants
  <2>4. /\ phase \in {"reading", "stored"} /\ chunk = 0 /\ attempt = 0
        /\ reader = "direct" /\ pending = 0 /\ stop = FALSE
        /\ blob = [claimed |-> 0, ok |-> FALSE, cells |-> <<>>]
    BY <2>1 DEF Object!Init, Object!Unopened
  <2>5. ReadTyped
    <3>1. chunk \in 0 .. Object!ChunkCount(Size[file]) /\ pending \in 0 .. FLUSH - 1
      BY <2>3, <2>4
    <3>2. attempt \in 0 .. Object!ATTEMPTS - 1
      BY <2>4 DEF Object!ATTEMPTS
    <3> QED
      BY <2>4, <3>1, <3>2 DEF ReadTyped
  <2>6. BlobTyped
    BY <2>4 DEF BlobTyped, Object!VERSION
  <2> QED
    BY <2>5, <2>6 DEF ObjectTyped
<1>2. SealedTyped
  <2>1. slots = {} /\ blobOpened = Blobs!Unopened
    BY DEF BrowserInit, Blobs!Init
  <2>2. IsFiniteSet({}) /\ Blobs!Cardinality({}) = 0
    BY FS_EmptySet, SameCardinality
  <2>3. MaxSealed \in Nat
    BY BrowserAssumption DEF Blobs!SealingAssumption
  <2> QED
    BY <2>1, <2>2, <2>3 DEF SealedTyped, Blobs!TypeOK
<1> QED
  BY <1>1, <1>2 DEF OpensTyped

LEMMA OpensTypedStep == OpensInv /\ OpensTyped /\ [BrowserNext]_client => OpensTyped'
<1> SUFFICES ASSUME OpensInv, OpensTyped, [BrowserNext]_client PROVE OpensTyped'
  OBVIOUS
<1>1. part' = part
  BY DEF BrowserNext, Others, client
<1>2. ASSUME part = "container" PROVE ObjectTyped'
  <2>1. Object!Next \/ UNCHANGED containerVars
    BY <1>2 DEF BrowserNext, client
  <2>2. CASE UNCHANGED containerVars
    BY <1>2, <2>2 DEF OpensTyped, ObjectTyped, ReadTyped, BlobTyped, containerVars
  <2> QED
    BY <1>2, <2>1, <2>2, ObjectTypedStep DEF OpensInv, OpensTyped
<1>3. ASSUME part = "sealing" PROVE SealedTyped'
  <2>1. Blobs!Next \/ UNCHANGED sealingVars
    BY <1>3 DEF BrowserNext, client
  <2>2. CASE UNCHANGED sealingVars
    BY <1>3, <2>2 DEF OpensTyped, SealedTyped, Blobs!TypeOK, Blobs!KINDS, Blobs!Unopened,
       sealingVars
  <2> QED
    BY <1>3, <2>1, <2>2, SealedTypedStep DEF OpensTyped
<1> QED
  BY <1>1, <1>2, <1>3 DEF OpensTyped

-----------------------------------------------------------------------------
(* The client as a whole.                                                  *)

(* The client's uploads go as those of the upload page alone do, whatever  *)
(* the other pages are at: all that is proved of the page holds of them.   *)
THEOREM ClientUploads == BrowserSpec => Spec
<1>1. BrowserInit => Init
  BY DEF BrowserInit
<1>2. [BrowserNext]_client => [Next]_vars
  <2> SUFFICES ASSUME [BrowserNext]_client PROVE Next \/ UNCHANGED vars
    OBVIOUS
  <2>1. CASE BrowserNext
    <3>1. CASE part = "upload"
      BY <2>1, <3>1 DEF BrowserNext
    <3>2. CASE part # "upload"
      <4>1. Others
        BY <2>1, <3>2 DEF BrowserNext
      <4> QED
        BY <3>2, <4>1 DEF Others
    <3> QED
      BY <3>1, <3>2
  <2>2. CASE UNCHANGED client
    BY <2>2 DEF client
  <2> QED
    BY <2>1, <2>2
<1> QED
  BY <1>1, <1>2, PTL DEF BrowserSpec, Spec

\* Which part a behaviour is about never changes.
LEMMA OnePart ==
  /\ BrowserInit => part \in Parts
  /\ part \in Parts /\ [BrowserNext]_client => (part \in Parts)'
<1>1. BrowserInit => part \in Parts
  BY DEF BrowserInit
<1>2. [BrowserNext]_client => part' = part
  BY DEF BrowserNext, Others, client
<1>3. Parts' = Parts
  BY DEF Parts
<1> QED
  BY <1>1, <1>2, <1>3

PartsInv == VisitInv /\ PageInv /\ ListedInv /\ FilesInv /\ BytesInv /\ OpensInv
PartsTyped == part \in Parts /\ PageTyped /\ ListedTyped /\ OpensTyped

(* The parts keep their types together: each from the invariant that its   *)
(* own safety rests on.                                                    *)
LEMMA PartsInit == BrowserInit => PartsInv /\ PartsTyped
BY VisitInit, PageInit, ListInit, ViewerInit, WalkInit, ArchiveInit, ContainerInit, SealingInit,
   PageTypedInit, ListTypedInit, OpensTypedInit, OnePart
   DEF PartsInv, PartsTyped, ListedInv, FilesInv, BytesInv, OpensInv, ListedTyped

LEMMA PartsStep == PartsInv /\ PartsTyped /\ [BrowserNext]_client => PartsInv' /\ PartsTyped'
<1> SUFFICES ASSUME PartsInv, PartsTyped, [BrowserNext]_client PROVE PartsInv' /\ PartsTyped'
  OBVIOUS
<1>1. PartsInv'
  BY VisitStep, PageStep, ListedStep, FilesStep, BytesStep, OpensStep DEF PartsInv
<1>2. PageTyped' /\ ListedTyped' /\ OpensTyped'
  BY <1>1, PageTypedStep, ListedTypedStep, OpensTypedStep DEF PartsInv, PartsTyped
<1> QED
  BY <1>1, <1>2, OnePart DEF PartsTyped

LEMMA PartsTypes ==
  ASSUME PartsInv, PartsTyped, TypeOK
  PROVE  BrowserTypeOK
<1>1. part = "options" => Options!TypeOK
  BY DEF PartsTyped, PageTyped
<1>2. part = "listing" => Listing!TypeOK
  BY ListTypes DEF PartsInv, PartsTyped, ListedInv, ListedTyped
<1>3. part = "viewer" => Viewer!TypeOK
  BY DEF PartsInv, FilesInv, ViewerInv
<1>4. part = "landing" => Landing!TypeOK
  BY DEF PartsTyped, PageTyped
<1>5. part = "sender" => Sender!TypeOK
  BY DEF PartsInv, VisitInv, SenderInv
<1>6. part = "history" => History!TypeOK
  BY DEF PartsTyped, PageTyped
<1>7. part = "bars" => Bars!TypeOK
  BY DEF PartsTyped, PageTyped
<1>8. part = "zoom" => Zoom!TypeOK
  BY DEF PartsTyped, PageTyped
<1>9. part = "container" => Object!TypeOK
  BY ObjectTypes DEF PartsInv, PartsTyped, OpensInv, OpensTyped
<1>10. part = "sealing" => Blobs!TypeOK
  BY DEF PartsTyped, OpensTyped, SealedTyped
<1>11. part = "walk" => Walk!TypeOK
  BY WalkTypes DEF PartsInv, BytesInv
<1>12. part = "zip" => Zip!TypeOK
  BY ZipTypes DEF PartsInv, BytesInv
<1>13. part \in Parts
  BY DEF PartsTyped
<1> QED
  BY <1>1, <1>2, <1>3, <1>4, <1>5, <1>6, <1>7, <1>8, <1>9, <1>10, <1>11, <1>12, <1>13
     DEF BrowserTypeOK

(* Whatever a page is asked to do and however its requests are answered,   *)
(* every part of the client stays of its type.                             *)
THEOREM ClientIsTyped == BrowserSpec => []BrowserTypeOK
<1>1. PartsInv /\ PartsTyped /\ TypeOK => BrowserTypeOK
  BY PartsTypes
<1> QED
  BY <1>1, PartsInit, PartsStep, ClientUploads, TypeCorrect, PTL DEF BrowserSpec
=============================================================================
