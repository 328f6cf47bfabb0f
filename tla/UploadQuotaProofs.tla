--------------------------- MODULE UploadQuotaProofs ---------------------------
(***************************************************************************)
(* The limits of UploadQuota hold for any number of uploads, submissions,  *)
(* accounts and drops, any sizes and any limits: the parts of IInv are     *)
(* preserved one after the other, and the properties follow from IInv.     *)
(* First, what the sums and counts of QuotaRules do when an upload is      *)
(* added to or taken from the sets they range over.                        *)
(***************************************************************************)
EXTENDS UploadQuota, FiniteSetTheorems, TLAPS

-----------------------------------------------------------------------------
(* A sum over a set of uploads is a number. *)
LEMMA BytesType ==
  ASSUME NEW S \in SUBSET Uploads, NEW w \in [Uploads -> Nat]
  PROVE  /\ IsFiniteSet({p \in S \X (1..UploadCap) : p[2] <= w[p[1]]})
         /\ Bytes(w, S) \in Nat
<1> DEFINE P == {p \in S \X (1..UploadCap) : p[2] <= w[p[1]]}
<1>1. IsFiniteSet(S)
  BY FS_Subset, RequestsAssumption
<1>2. IsFiniteSet(1..UploadCap)
  BY FS_Interval, LimitsAssumption
<1>3. IsFiniteSet(S \X (1..UploadCap))
  BY <1>1, <1>2, FS_Product
<1>4. IsFiniteSet(P)
  <2>1. P \in SUBSET (S \X (1..UploadCap))
    OBVIOUS
  <2> QED BY <1>3, <2>1, FS_Subset
<1>5. Cardinality(P) \in Nat
  BY <1>4, FS_CardinalityType
<1> QED BY <1>4, <1>5 DEF Bytes

(* Fewer uploads hold no more bytes. *)
LEMMA BytesMonotone ==
  ASSUME NEW T \in SUBSET Uploads, NEW S \in SUBSET T, NEW w \in [Uploads -> Nat]
  PROVE  Bytes(w, S) <= Bytes(w, T)
<1> DEFINE P(X) == {p \in X \X (1..UploadCap) : p[2] <= w[p[1]]}
<1>1. IsFiniteSet(P(T))
  BY BytesType
<1>2. P(S) \in SUBSET P(T)
  OBVIOUS
<1>3. Cardinality(P(S)) <= Cardinality(P(T))
  BY <1>1, <1>2, FS_Subset
<1> QED BY <1>3 DEF Bytes

(* One upload holds its own bytes. *)
LEMMA BytesOfOne ==
  ASSUME NEW r \in Uploads, NEW w \in [Uploads -> Nat], w[r] <= UploadCap
  PROVE  Bytes(w, {r}) = w[r]
<1>1. {p \in {r} \X (1..UploadCap) : p[2] <= w[p[1]]} = {r} \X (1..w[r])
  BY LimitsAssumption
<1>2. IsFiniteSet({r}) /\ Cardinality({r}) = 1
  BY FS_Singleton
<1>3. IsFiniteSet(1..w[r]) /\ Cardinality(1..w[r]) = w[r]
  BY FS_Interval
<1>4. Cardinality({r} \X (1..w[r])) = Cardinality({r}) * Cardinality(1..w[r])
  BY <1>2, <1>3, FS_Product
<1>5. Cardinality({r} \X (1..w[r])) = w[r]
  BY <1>2, <1>3, <1>4
<1> QED BY <1>1, <1>5, Zenon DEF Bytes

(* One more upload adds exactly its own bytes. *)
LEMMA BytesAdd ==
  ASSUME NEW S \in SUBSET Uploads, NEW r \in Uploads, NEW w \in [Uploads -> Nat],
         r \notin S, w[r] <= UploadCap
  PROVE  Bytes(w, S \cup {r}) = Bytes(w, S) + w[r]
<1> DEFINE P(X) == {p \in X \X (1..UploadCap) : p[2] <= w[p[1]]}
<1>1. P(S \cup {r}) = P(S) \cup P({r}) /\ P(S) \cap P({r}) = {}
  OBVIOUS
<1>2. IsFiniteSet(P(S)) /\ IsFiniteSet(P({r}))
  BY BytesType
<1>3. Cardinality(P(S) \cap P({r})) = 0
  BY <1>1, FS_EmptySet
<1>4. Cardinality(P(S \cup {r})) = Cardinality(P(S)) + Cardinality(P({r})) - 0
  BY <1>1, <1>2, <1>3, FS_Union
<1>5. Bytes(w, S) \in Nat /\ Bytes(w, {r}) = w[r]
  BY BytesType, BytesOfOne
<1> QED BY <1>4, <1>5 DEF Bytes

-----------------------------------------------------------------------------
(* What a request books is a positive size within the instance's cap, and
   never less than the file it stores.                                      *)
LEMMA BookingBounds ==
  ASSUME NEW r \in Uploads
  PROVE  /\ Ceiling(r) \in 1..UploadCap
         /\ Booking(r) \in 1..UploadCap
         /\ Size[r] <= Ceiling(r) => Size[r] <= Booking(r)
<1>1. MaxUpload[Owner[r]] \in 1..UploadCap
  BY RequestsAssumption, LimitsAssumption
<1>2. Ceiling(r) \in 1..UploadCap
  BY <1>1, LimitsAssumption DEF Ceiling
<1>3. Length[r] \in Nat /\ Size[r] \in Nat
  BY RequestsAssumption
<1> QED BY <1>2, <1>3, LimitsAssumption, LengthCoversBody DEF Booking

(* What a file weighs and what a reservation weighs are numbers of bytes. *)
LEMMA Weights == Size \in [Uploads -> Nat] /\ Booked \in [Uploads -> Nat]
BY RequestsAssumption, BookingBounds DEF Booked

(* What a set of rows holds, in bytes and in files, are natural numbers. *)
LEMMA HeldType ==
  ASSUME NEW F \in SUBSET Uploads, NEW R \in SUBSET Uploads, NEW S \in SUBSET Uploads
  PROVE  BytesHeld(F, R, S) \in Nat /\ FilesHeld(F, R, S) \in Nat
<1>1. IsFiniteSet(F \cap S) /\ IsFiniteSet(R \cap S)
  BY FS_Subset, RequestsAssumption
<1>2. Cardinality(F \cap S) \in Nat /\ Cardinality(R \cap S) \in Nat
  BY <1>1, FS_CardinalityType
<1>3. Bytes(Size, F \cap S) \in Nat /\ Bytes(Booked, R \cap S) \in Nat
  BY BytesType, Weights
<1> QED BY <1>2, <1>3 DEF BytesHeld, FilesHeld

(* Fewer files and fewer reservations hold no more. *)
LEMMA HeldMonotone ==
  ASSUME NEW F \in SUBSET Uploads, NEW R \in SUBSET Uploads, NEW S \in SUBSET Uploads,
         NEW F1 \in SUBSET F, NEW R1 \in SUBSET R
  PROVE  /\ BytesHeld(F1, R1, S) <= BytesHeld(F, R, S)
         /\ FilesHeld(F1, R1, S) <= FilesHeld(F, R, S)
<1>1. Bytes(Size, F1 \cap S) <= Bytes(Size, F \cap S)
  BY BytesMonotone, Weights
<1>2. Bytes(Booked, R1 \cap S) <= Bytes(Booked, R \cap S)
  BY BytesMonotone, Weights
<1>3. IsFiniteSet(F \cap S) /\ IsFiniteSet(R \cap S)
  BY FS_Subset, RequestsAssumption
<1>4. Cardinality(F1 \cap S) <= Cardinality(F \cap S)
  BY <1>3, FS_Subset
<1>5. Cardinality(R1 \cap S) <= Cardinality(R \cap S)
  BY <1>3, FS_Subset
<1>6. /\ Bytes(Size, F1 \cap S) \in Nat /\ Bytes(Size, F \cap S) \in Nat
      /\ Bytes(Booked, R1 \cap S) \in Nat /\ Bytes(Booked, R \cap S) \in Nat
  BY BytesType, Weights
<1>7. /\ Cardinality(F1 \cap S) \in Nat /\ Cardinality(F \cap S) \in Nat
      /\ Cardinality(R1 \cap S) \in Nat /\ Cardinality(R \cap S) \in Nat
  BY FS_Subset, FS_CardinalityType, RequestsAssumption
<1> QED BY <1>1, <1>2, <1>4, <1>5, <1>6, <1>7 DEF BytesHeld, FilesHeld

(* A reservation that is not there yet adds one file and what it books to
   every scope it belongs to, and nothing to the others.                    *)
LEMMA HeldBook ==
  ASSUME NEW F \in SUBSET Uploads, NEW R \in SUBSET Uploads, NEW S \in SUBSET Uploads,
         NEW r \in Uploads, r \notin R
  PROVE  IF r \in S
           THEN /\ BytesHeld(F, R \cup {r}, S) = BytesHeld(F, R, S) + Booking(r)
                /\ FilesHeld(F, R \cup {r}, S) = FilesHeld(F, R, S) + 1
           ELSE /\ BytesHeld(F, R \cup {r}, S) = BytesHeld(F, R, S)
                /\ FilesHeld(F, R \cup {r}, S) = FilesHeld(F, R, S)
<1>1. CASE r \in S
  <2>1. (R \cup {r}) \cap S = (R \cap S) \cup {r} /\ r \notin R \cap S
    BY <1>1
  <2>2. Bytes(Booked, (R \cap S) \cup {r}) = Bytes(Booked, R \cap S) + Booking(r)
    <3>1. Booked[r] = Booking(r) /\ Booked[r] <= UploadCap
      BY BookingBounds, LimitsAssumption DEF Booked
    <3> QED BY <2>1, <3>1, BytesAdd, Weights
  <2>3. Cardinality((R \cap S) \cup {r}) = Cardinality(R \cap S) + 1
    <3>1. IsFiniteSet(R \cap S)
      BY FS_Subset, RequestsAssumption
    <3> QED BY <2>1, <3>1, FS_AddElement
  <2>4. /\ Bytes(Size, F \cap S) \in Nat /\ Bytes(Booked, R \cap S) \in Nat
        /\ Booking(r) \in Nat
    <3>1. Bytes(Size, F \cap S) \in Nat /\ Bytes(Booked, R \cap S) \in Nat
      BY BytesType, Weights
    <3>2. Booking(r) \in Nat
      BY BookingBounds, LimitsAssumption
    <3> QED BY <3>1, <3>2
  <2>5. Cardinality(F \cap S) \in Nat /\ Cardinality(R \cap S) \in Nat
    BY FS_Subset, FS_CardinalityType, RequestsAssumption
  <2>6. BytesHeld(F, R \cup {r}, S) = BytesHeld(F, R, S) + Booking(r)
    <3>1. Bytes(Booked, (R \cup {r}) \cap S) = Bytes(Booked, R \cap S) + Booking(r)
      BY <2>1, <2>2, Zenon
    <3> QED BY <2>4, <3>1 DEF BytesHeld
  <2>7. FilesHeld(F, R \cup {r}, S) = FilesHeld(F, R, S) + 1
    <3>1. Cardinality((R \cup {r}) \cap S) = Cardinality(R \cap S) + 1
      BY <2>1, <2>3, Zenon
    <3> QED BY <2>5, <3>1 DEF FilesHeld
  <2> QED BY <1>1, <2>6, <2>7
<1>2. CASE r \notin S
  <2>1. (R \cup {r}) \cap S = R \cap S
    BY <1>2
  <2> QED BY <1>2, <2>1 DEF BytesHeld, FilesHeld
<1> QED BY <1>1, <1>2

(* A file that is not there yet likewise, with its real size. *)
LEMMA HeldStore ==
  ASSUME NEW F \in SUBSET Uploads, NEW R \in SUBSET Uploads, NEW S \in SUBSET Uploads,
         NEW r \in Uploads, r \notin F, Size[r] <= UploadCap
  PROVE  IF r \in S
           THEN /\ BytesHeld(F \cup {r}, R, S) = BytesHeld(F, R, S) + Size[r]
                /\ FilesHeld(F \cup {r}, R, S) = FilesHeld(F, R, S) + 1
           ELSE /\ BytesHeld(F \cup {r}, R, S) = BytesHeld(F, R, S)
                /\ FilesHeld(F \cup {r}, R, S) = FilesHeld(F, R, S)
<1>1. CASE r \in S
  <2>1. (F \cup {r}) \cap S = (F \cap S) \cup {r} /\ r \notin F \cap S
    BY <1>1
  <2>2. Bytes(Size, (F \cap S) \cup {r}) = Bytes(Size, F \cap S) + Size[r]
    BY <2>1, BytesAdd, Weights
  <2>3. Cardinality((F \cap S) \cup {r}) = Cardinality(F \cap S) + 1
    <3>1. IsFiniteSet(F \cap S)
      BY FS_Subset, RequestsAssumption
    <3> QED BY <2>1, <3>1, FS_AddElement
  <2>4. /\ Bytes(Size, F \cap S) \in Nat /\ Bytes(Booked, R \cap S) \in Nat
        /\ Size[r] \in Nat
    BY BytesType, Weights
  <2>5. Cardinality(F \cap S) \in Nat /\ Cardinality(R \cap S) \in Nat
    BY FS_Subset, FS_CardinalityType, RequestsAssumption
  <2>6. BytesHeld(F \cup {r}, R, S) = BytesHeld(F, R, S) + Size[r]
    <3>1. Bytes(Size, (F \cup {r}) \cap S) = Bytes(Size, F \cap S) + Size[r]
      BY <2>1, <2>2, Zenon
    <3> QED BY <2>4, <3>1 DEF BytesHeld
  <2>7. FilesHeld(F \cup {r}, R, S) = FilesHeld(F, R, S) + 1
    <3>1. Cardinality((F \cup {r}) \cap S) = Cardinality(F \cap S) + 1
      BY <2>1, <2>3, Zenon
    <3> QED BY <2>5, <3>1 DEF FilesHeld
  <2> QED BY <1>1, <2>6, <2>7
<1>2. CASE r \notin S
  <2>1. (F \cup {r}) \cap S = F \cap S
    BY <1>2
  <2> QED BY <1>2, <2>1 DEF BytesHeld, FilesHeld
<1> QED BY <1>1, <1>2

-----------------------------------------------------------------------------
(* A count that has room now still has it when there is less to count: what
   makes a snapshot read a moment ago safe to decide on.                    *)
LEMMA RoomMonotone ==
  ASSUME NEW F \in SUBSET Uploads, NEW R \in SUBSET Uploads,
         NEW F1 \in SUBSET F, NEW R1 \in SUBSET R,
         NEW r \in Uploads, NEW n \in Nat
  PROVE  /\ ~QuotaViolation(r, F, R, n) => ~QuotaViolation(r, F1, R1, n)
         /\ InDrop(r) /\ ~DropViolation(r, F, R, n) => ~DropViolation(r, F1, R1, n)
<1>1. /\ OwnedBy(Owner[r]) \in SUBSET Uploads
      /\ SentTo(DropFor(r)) \in SUBSET Uploads
      /\ Within(Into[r]) \in SUBSET Uploads
  BY DEF OwnedBy, SentTo, Within
<1>2. ASSUME NEW S \in SUBSET Uploads, NEW limit \in Nat
      PROVE  /\ Over(limit, BytesHeld(F1, R1, S) + n) => Over(limit, BytesHeld(F, R, S) + n)
             /\ Over(limit, FilesHeld(F1, R1, S) + 1) => Over(limit, FilesHeld(F, R, S) + 1)
  <2>1. /\ BytesHeld(F1, R1, S) <= BytesHeld(F, R, S)
        /\ FilesHeld(F1, R1, S) <= FilesHeld(F, R, S)
    BY HeldMonotone
  <2>2. /\ BytesHeld(F1, R1, S) \in Nat /\ FilesHeld(F1, R1, S) \in Nat
        /\ BytesHeld(F, R, S) \in Nat /\ FilesHeld(F, R, S) \in Nat
    BY HeldType
  <2> QED BY <2>1, <2>2 DEF Over
<1>3. ~QuotaViolation(r, F, R, n) => ~QuotaViolation(r, F1, R1, n)
  <2>1. TotalBytes \in Nat /\ Quota[Owner[r]].bytes \in Nat /\ Quota[Owner[r]].files \in Nat
    BY RequestsAssumption, LimitsAssumption
  <2> QED BY <1>1, <1>2, <2>1 DEF QuotaViolation
<1>4. ASSUME InDrop(r)
      PROVE  ~DropViolation(r, F, R, n) => ~DropViolation(r, F1, R1, n)
  <2>1. DropFor(r) \in Drops
    BY <1>4, RequestsAssumption DEF InDrop, DropFor
  <2>2. /\ Limits[DropFor(r)].MaxTotalBytes \in Nat
        /\ Limits[DropFor(r)].MaxFiles \in Nat
        /\ Limits[DropFor(r)].MaxPerSubmission \in Nat
    BY <2>1, LimitsAssumption
  <2> QED BY <1>1, <1>2, <2>2 DEF DropViolation
<1> QED BY <1>3, <1>4

(* Removing rows breaks no limit. *)
LEMMA WithinMonotone ==
  ASSUME NEW F \in SUBSET Uploads, NEW R \in SUBSET Uploads,
         NEW F1 \in SUBSET F, NEW R1 \in SUBSET R,
         AllWithin(F, R)
  PROVE  AllWithin(F1, R1)
<1>1. ASSUME NEW S \in SUBSET Uploads, NEW limit \in Nat
      PROVE  /\ Over(limit, BytesHeld(F1, R1, S)) => Over(limit, BytesHeld(F, R, S))
             /\ Over(limit, FilesHeld(F1, R1, S)) => Over(limit, FilesHeld(F, R, S))
  <2>1. /\ BytesHeld(F1, R1, S) <= BytesHeld(F, R, S)
        /\ FilesHeld(F1, R1, S) <= FilesHeld(F, R, S)
    BY HeldMonotone
  <2>2. /\ BytesHeld(F1, R1, S) \in Nat /\ FilesHeld(F1, R1, S) \in Nat
        /\ BytesHeld(F, R, S) \in Nat /\ FilesHeld(F, R, S) \in Nat
    BY HeldType
  <2> QED BY <2>1, <2>2 DEF Over
<1>2. AccountsWithin(F1, R1)
  <2>1. \A u \in Users : /\ Quota[u].bytes \in Nat /\ Quota[u].files \in Nat
                         /\ OwnedBy(u) \in SUBSET Uploads
    BY LimitsAssumption DEF OwnedBy
  <2> QED BY <1>1, <2>1 DEF AccountsWithin, AllWithin
<1>3. InstanceWithin(F1, R1)
  BY <1>1, LimitsAssumption DEF InstanceWithin, AllWithin
<1>4. DropsWithin(F1, R1)
  <2>1. \A d \in Drops : /\ Limits[d].MaxTotalBytes \in Nat /\ Limits[d].MaxFiles \in Nat
                         /\ Limits[d].MaxPerSubmission \in Nat
                         /\ SentTo(d) \in SUBSET Uploads
    BY LimitsAssumption DEF SentTo
  <2>2. \A s \in Submissions : DropOf[s] \in Drops /\ Within(s) \in SUBSET Uploads
    BY RequestsAssumption DEF Within
  <2> QED BY <1>1, <2>1, <2>2 DEF DropsWithin, AllWithin
<1> QED BY <1>2, <1>3, <1>4 DEF AllWithin

-----------------------------------------------------------------------------
(* F1 and R1 hold one upload r of n bytes more than F and R, in the scopes r
   belongs to, and nothing else.                                            *)
Adds(r, n, F, R, F1, R1) ==
  \A S \in SUBSET Uploads :
    IF r \in S
      THEN /\ BytesHeld(F1, R1, S) = BytesHeld(F, R, S) + n
           /\ FilesHeld(F1, R1, S) = FilesHeld(F, R, S) + 1
      ELSE /\ BytesHeld(F1, R1, S) = BytesHeld(F, R, S)
           /\ FilesHeld(F1, R1, S) = FilesHeld(F, R, S)

(* Admission: adding an upload the limits have room for leaves them respected. *)
LEMMA Admit ==
  ASSUME NEW F \in SUBSET Uploads, NEW R \in SUBSET Uploads,
         NEW F1 \in SUBSET Uploads, NEW R1 \in SUBSET Uploads,
         NEW r \in Uploads, NEW n \in Nat,
         AllWithin(F, R),
         Room(r, F, R, n),
         Adds(r, n, F, R, F1, R1)
  PROVE  AllWithin(F1, R1)
<1> USE DEF Adds
<1>1. AccountsWithin(F1, R1)
  <2> SUFFICES ASSUME NEW u \in Users
               PROVE  /\ ~Over(Quota[u].bytes, BytesHeld(F1, R1, OwnedBy(u)))
                      /\ ~Over(Quota[u].files, FilesHeld(F1, R1, OwnedBy(u)))
    BY DEF AccountsWithin
  <2>1. OwnedBy(u) \in SUBSET Uploads
    BY DEF OwnedBy
  <2>2. CASE r \in OwnedBy(u)
    <3>1. Owner[r] = u
      BY <2>2 DEF OwnedBy
    <3> QED BY <2>1, <2>2, <3>1 DEF Room, QuotaViolation
  <2>3. CASE r \notin OwnedBy(u)
    BY <2>1, <2>3 DEF AllWithin, AccountsWithin
  <2> QED BY <2>2, <2>3
<1>2. InstanceWithin(F1, R1)
  BY DEF InstanceWithin, Room, QuotaViolation
<1>3. ASSUME NEW d \in Drops
      PROVE  /\ ~Over(Limits[d].MaxTotalBytes, BytesHeld(F1, R1, SentTo(d)))
             /\ ~Over(Limits[d].MaxFiles, FilesHeld(F1, R1, SentTo(d)))
  <2>1. SentTo(d) \in SUBSET Uploads
    BY DEF SentTo
  <2>2. CASE r \in SentTo(d)
    <3>1. InDrop(r) /\ DropFor(r) = d
      BY <2>2 DEF SentTo
    <3> QED BY <2>1, <2>2, <3>1 DEF Room, DropViolation
  <2>3. CASE r \notin SentTo(d)
    BY <2>1, <2>3 DEF AllWithin, DropsWithin
  <2> QED BY <2>2, <2>3
<1>4. ASSUME NEW s \in Submissions
      PROVE  ~Over(Limits[DropOf[s]].MaxPerSubmission, FilesHeld(F1, R1, Within(s)))
  <2>1. Within(s) \in SUBSET Uploads
    BY DEF Within
  <2>2. CASE r \in Within(s)
    <3>1. InDrop(r) /\ Into[r] = s /\ DropFor(r) = DropOf[s]
      BY <2>2, RequestsAssumption DEF Within, InDrop, DropFor
    <3> QED BY <2>1, <2>2, <3>1 DEF Room, DropViolation
  <2>3. CASE r \notin Within(s)
    BY <2>1, <2>3 DEF AllWithin, DropsWithin
  <2> QED BY <2>2, <2>3
<1>5. DropsWithin(F1, R1)
  BY <1>3, <1>4 DEF DropsWithin
<1> QED BY <1>1, <1>2, <1>5 DEF AllWithin

(* A reservation for which there was room breaks no limit. *)
LEMMA AdmitBook ==
  ASSUME NEW F \in SUBSET Uploads, NEW R \in SUBSET Uploads, NEW r \in Uploads \ R,
         AllWithin(F, R), Room(r, F, R, Booking(r))
  PROVE  AllWithin(F, R \cup {r})
<1>1. Booking(r) \in Nat
  BY BookingBounds, LimitsAssumption
<1>2. R \cup {r} \in SUBSET Uploads
  OBVIOUS
<1>3. Adds(r, Booking(r), F, R, F, R \cup {r})
  BY HeldBook DEF Adds
<1>4. r \in Uploads
  OBVIOUS
<1> QED BY <1>1, <1>2, <1>3, <1>4, Admit

(* ... nor does a file. *)
LEMMA AdmitStore ==
  ASSUME NEW F \in SUBSET Uploads, NEW R \in SUBSET Uploads, NEW r \in Uploads \ F,
         Size[r] <= UploadCap, AllWithin(F, R), Room(r, F, R, Size[r])
  PROVE  AllWithin(F \cup {r}, R)
<1>1. Size[r] \in Nat
  BY RequestsAssumption
<1>2. F \cup {r} \in SUBSET Uploads
  OBVIOUS
<1>3. Adds(r, Size[r], F, R, F \cup {r}, R)
  BY HeldStore DEF Adds
<1>4. r \in Uploads
  OBVIOUS
<1> QED BY <1>1, <1>2, <1>3, <1>4, Admit

(* The converse, which makes a booking a promise: a reservation that fits
   together with everything else leaves room for its file once it is gone.  *)
LEMMA BookingSuffices ==
  ASSUME NEW F \in SUBSET Uploads, NEW R \in SUBSET Uploads, NEW r \in Uploads \ R,
         Size[r] <= Ceiling(r), AllWithin(F, R \cup {r})
  PROVE  Room(r, F, R, Size[r])
<1>1. Size[r] <= Booking(r) /\ Booking(r) \in Nat /\ Size[r] \in Nat
  BY BookingBounds, LimitsAssumption, RequestsAssumption
<1>2. ASSUME NEW S \in SUBSET Uploads, r \in S, NEW limit \in Nat
      PROVE  /\ Over(limit, BytesHeld(F, R, S) + Size[r])
                  => Over(limit, BytesHeld(F, R \cup {r}, S))
             /\ Over(limit, FilesHeld(F, R, S) + 1)
                  => Over(limit, FilesHeld(F, R \cup {r}, S))
  <2>1. /\ BytesHeld(F, R \cup {r}, S) = BytesHeld(F, R, S) + Booking(r)
        /\ FilesHeld(F, R \cup {r}, S) = FilesHeld(F, R, S) + 1
    BY <1>2, HeldBook
  <2>2. BytesHeld(F, R, S) \in Nat /\ FilesHeld(F, R, S) \in Nat
    BY HeldType
  <2> QED BY <1>1, <2>1, <2>2 DEF Over
<1>3. ~QuotaViolation(r, F, R, Size[r])
  <2>1. /\ OwnedBy(Owner[r]) \in SUBSET Uploads /\ r \in OwnedBy(Owner[r])
        /\ Owner[r] \in Users
    BY RequestsAssumption DEF OwnedBy
  <2>2. TotalBytes \in Nat /\ Quota[Owner[r]].bytes \in Nat /\ Quota[Owner[r]].files \in Nat
    BY <2>1, LimitsAssumption
  <2> QED BY <1>2, <2>1, <2>2 DEF QuotaViolation, AllWithin, AccountsWithin, InstanceWithin
<1>4. ASSUME InDrop(r) PROVE ~DropViolation(r, F, R, Size[r])
  <2>1. /\ DropFor(r) \in Drops /\ Into[r] \in Submissions
        /\ SentTo(DropFor(r)) \in SUBSET Uploads /\ r \in SentTo(DropFor(r))
        /\ Within(Into[r]) \in SUBSET Uploads /\ r \in Within(Into[r])
    BY <1>4, RequestsAssumption DEF InDrop, DropFor, SentTo, Within
  <2>2. /\ Limits[DropFor(r)].MaxTotalBytes \in Nat
        /\ Limits[DropFor(r)].MaxFiles \in Nat
        /\ Limits[DropFor(r)].MaxPerSubmission \in Nat
    BY <2>1, LimitsAssumption
  <2> QED BY <1>2, <2>1, <2>2 DEF DropViolation, DropFor, AllWithin, DropsWithin
<1> QED BY <1>3, <1>4 DEF Room

-----------------------------------------------------------------------------
(* Submissions *)
LEMMA OpenAdmits ==
  ASSUME NEW F \in SUBSET Uploads, NEW R \in SUBSET Uploads,
         NEW O \in SUBSET Submissions, IsFiniteSet(O), NEW s \in Submissions,
         SubmissionsWithin(O), ~SubmissionViolation(s, F, R, O)
  PROVE  SubmissionsWithin(O \cup {s})
<1> SUFFICES ASSUME NEW d \in Drops
             PROVE  ~Over(Limits[d].MaxSubmissions, Cardinality((O \cup {s}) \cap OnDrop(d)))
  BY DEF SubmissionsWithin
<1>1. CASE s \in (O \cap OnDrop(d)) \/ s \notin OnDrop(d)
  <2>1. (O \cup {s}) \cap OnDrop(d) = O \cap OnDrop(d)
    BY <1>1
  <2> QED BY <2>1 DEF SubmissionsWithin
<1>2. CASE s \in OnDrop(d) /\ s \notin O
  <2>1. (O \cup {s}) \cap OnDrop(d) = (O \cap OnDrop(d)) \cup {s}
    BY <1>2
  <2>2. IsFiniteSet(O \cap OnDrop(d))
    BY FS_Subset
  <2>3. Cardinality((O \cap OnDrop(d)) \cup {s}) = Cardinality(O \cap OnDrop(d)) + 1
    BY <1>2, <2>2, FS_AddElement
  <2>4. DropOf[s] = d
    BY <1>2 DEF OnDrop
  <2> QED BY <2>1, <2>3, <2>4 DEF SubmissionViolation
<1> QED BY <1>1, <1>2

(* Removing rows does not make a drop refuse a submission it took. *)
LEMMA SubmissionRoomMonotone ==
  ASSUME NEW F \in SUBSET Uploads, NEW R \in SUBSET Uploads,
         NEW F1 \in SUBSET F, NEW R1 \in SUBSET R,
         NEW O, NEW s \in Submissions, ~SubmissionViolation(s, F, R, O)
  PROVE  ~SubmissionViolation(s, F1, R1, O)
<1>1. DropOf[s] \in Drops /\ Limits[DropOf[s]].MaxFiles \in Nat
  BY RequestsAssumption, LimitsAssumption
<1>2. SentTo(DropOf[s]) \in SUBSET Uploads
  BY DEF SentTo
<1>3. FilesHeld(F1, R1, SentTo(DropOf[s])) <= FilesHeld(F, R, SentTo(DropOf[s]))
  BY <1>2, HeldMonotone
<1>4. /\ FilesHeld(F1, R1, SentTo(DropOf[s])) \in Nat
      /\ FilesHeld(F, R, SentTo(DropOf[s])) \in Nat
  BY <1>2, HeldType
<1> QED BY <1>1, <1>3, <1>4 DEF SubmissionViolation

(* With nothing stored, nothing booked and nothing opened, every limit holds. *)
LEMMA NothingHeld == AllWithin({}, {}) /\ SubmissionsWithin({})
<1>1. \A S : {} \cap S = {}
  OBVIOUS
<1>2. Cardinality({}) = 0
  BY FS_EmptySet
<1>3. \A w : Bytes(w, {}) = 0
  <2> SUFFICES ASSUME NEW w PROVE Bytes(w, {}) = 0
    OBVIOUS
  <2>1. {p \in {} \X (1..UploadCap) : p[2] <= w[p[1]]} = {}
    OBVIOUS
  <2> QED BY <1>2, <2>1, Zenon DEF Bytes
<1>4. \A S : BytesHeld({}, {}, S) = 0 /\ FilesHeld({}, {}, S) = 0
  <2> SUFFICES ASSUME NEW S PROVE BytesHeld({}, {}, S) = 0 /\ FilesHeld({}, {}, S) = 0
    OBVIOUS
  <2>1. Bytes(Size, {} \cap S) = 0 /\ Bytes(Booked, {} \cap S) = 0 /\ Cardinality({} \cap S) = 0
    BY <1>1, <1>2, <1>3, Zenon
  <2> QED BY <2>1 DEF BytesHeld, FilesHeld
<1>5. AllWithin({}, {})
  <2>1. \A limit \in Nat : ~Over(limit, 0)
    BY DEF Over
  <2>2. \A u \in Users : Quota[u].bytes \in Nat /\ Quota[u].files \in Nat
    BY LimitsAssumption
  <2>3. \A d \in Drops : /\ Limits[d].MaxTotalBytes \in Nat /\ Limits[d].MaxFiles \in Nat
                         /\ Limits[d].MaxPerSubmission \in Nat
    BY LimitsAssumption
  <2>4. TotalBytes \in Nat /\ \A s \in Submissions : DropOf[s] \in Drops
    BY LimitsAssumption, RequestsAssumption
  <2> QED BY <1>4, <2>1, <2>2, <2>3, <2>4
        DEF AllWithin, AccountsWithin, InstanceWithin, DropsWithin
<1>6. SubmissionsWithin({})
  <2>1. \A d : Cardinality({} \cap OnDrop(d)) = 0
    BY <1>1, <1>2, Zenon
  <2>2. \A d \in Drops : Limits[d].MaxSubmissions \in Nat
    BY LimitsAssumption
  <2> QED BY <2>1, <2>2 DEF SubmissionsWithin, Over
<1> QED BY <1>5, <1>6

-----------------------------------------------------------------------------
(* Type correctness *)

(* Every step keeps every variable in its type.  It takes PhaseInv: only an
   upload has a row in files, and only one into a drop fills a drop.        *)
LEMMA TypeStep == TypeOK /\ PhaseInv /\ [Next]_vars => TypeOK'
<1> SUFFICES ASSUME TypeOK, PhaseInv, [Next]_vars PROVE TypeOK'
  OBVIOUS
<1> USE DEF TypeOK, Phases, Steps, Nothing, NoClock, tx, rows
<1>1. ASSUME NEW a \in Actors, Arrive(a) PROVE TypeOK'
  BY <1>1 DEF Arrive
<1>2. ASSUME NEW a \in Actors, TurnAway(a) PROVE TypeOK'
  BY <1>2 DEF TurnAway
<1>3. ASSUME NEW a \in Actors, Begin(a) PROVE TypeOK'
  BY <1>3 DEF Begin
<1>4. ASSUME NEW a \in Actors, TakeLock(a) PROVE TypeOK'
  BY <1>4 DEF TakeLock
<1>5. ASSUME NEW a \in Actors, ReadFiles(a) PROVE TypeOK'
  BY <1>5 DEF ReadFiles
<1>6. ASSUME NEW a \in Actors, ReadReservations(a) PROVE TypeOK'
  BY <1>6 DEF ReadReservations, OwnDeleted
<1>7. ASSUME NEW a \in Actors, PassQuota(a) PROVE TypeOK'
  BY <1>7 DEF PassQuota
<1>8. ASSUME NEW a \in Actors, PassDrop(a) PROVE TypeOK'
  BY <1>8 DEF PassDrop
<1>9. ASSUME NEW a \in Actors, Refuse(a) PROVE TypeOK'
  BY <1>9 DEF Refuse, EndTx, AfterFailure
<1>10. ASSUME NEW a \in Actors, Fail(a) PROVE TypeOK'
  BY <1>10 DEF Fail, EndTx, AfterFailure
<1>11. ASSUME NEW a \in Actors, Commit(a) PROVE TypeOK'
  BY <1>11 DEF Commit, EndTx, AfterCommit, Written, PhaseInv, InTx
<1>12. ASSUME NEW a \in Actors, CommitUnacknowledged(a) PROVE TypeOK'
  BY <1>12 DEF CommitUnacknowledged, EndTx, AfterFailure, Written, PhaseInv
<1>13. ASSUME NEW a \in Actors, Crash(a) PROVE TypeOK'
  BY <1>13 DEF Crash, EndTx
<1>14. ASSUME NEW r \in Uploads, WriteBlob(r) PROVE TypeOK'
  BY <1>14 DEF WriteBlob, Actors
<1>15. ASSUME NEW r \in Uploads, AbandonBlob(r) PROVE TypeOK'
  BY <1>15 DEF AbandonBlob, Actors
<1>16. ASSUME NEW r \in Uploads, Release(r) PROVE TypeOK'
  BY <1>16 DEF Release, Actors
<1>17. ASSUME NEW r \in Uploads, ReleaseFails(r) PROVE TypeOK'
  BY <1>17 DEF ReleaseFails, Actors
<1>18. ASSUME NEW r \in Uploads, CloseIfFull(r) PROVE TypeOK'
  BY <1>18, RequestsAssumption DEF CloseIfFull, Actors, PhaseInv, InDrop, DropFor
<1>19. ASSUME NEW r \in Uploads, CloseFails(r) PROVE TypeOK'
  BY <1>19 DEF CloseFails, Actors
<1>20. ASSUME NEW r \in Uploads, Lapse(r) PROVE TypeOK'
  BY <1>20 DEF Lapse, Live, Actors
<1>21. ASSUME NEW r \in Uploads, Expire(r) PROVE TypeOK'
  BY <1>21 DEF Expire, Active, Actors
<1>22. ASSUME NEW r \in Uploads, Retire(r) PROVE TypeOK'
  BY <1>22 DEF Retire, Actors
<1>23. ASSUME SweepReservations PROVE TypeOK'
  BY <1>23 DEF SweepReservations
<1>24. ASSUME NEW d \in Drops, OwnerCloses(d) PROVE TypeOK'
  BY <1>24 DEF OwnerCloses
<1>25. ASSUME UNCHANGED vars PROVE TypeOK'
  BY <1>25 DEF vars
<1> QED
  BY <1>1, <1>2, <1>3, <1>4, <1>5, <1>6, <1>7, <1>8, <1>9, <1>10, <1>11, <1>12,
     <1>13, <1>14, <1>15, <1>16, <1>17, <1>18, <1>19, <1>20, <1>21, <1>22, <1>23, <1>24, <1>25
     DEF Next, Request, Transact, Mishap, Handle

(* Which actor can be where is preserved. *)
LEMMA PhaseStep == TypeOK /\ PhaseInv /\ [Next]_vars => PhaseInv'
<1> SUFFICES ASSUME TypeOK, PhaseInv, [Next]_vars PROVE PhaseInv'
  OBVIOUS
<1> USE DEF TypeOK, PhaseInv, Phases, Steps, InTx, tx, rows
<1>1. ASSUME NEW a \in Actors, Arrive(a) PROVE PhaseInv'
  BY <1>1 DEF Arrive, Actors
<1>2. ASSUME NEW a \in Actors, TurnAway(a) PROVE PhaseInv'
  BY <1>2 DEF TurnAway
<1>3. ASSUME NEW a \in Actors, Begin(a) PROVE PhaseInv'
  BY <1>3 DEF Begin
<1>4. ASSUME NEW a \in Actors, TakeLock(a) PROVE PhaseInv'
  BY <1>4, RequestsAssumption DEF TakeLock, Actors
<1>5. ASSUME NEW a \in Actors, ReadFiles(a) PROVE PhaseInv'
  BY <1>5 DEF ReadFiles
<1>6. ASSUME NEW a \in Actors, ReadReservations(a) PROVE PhaseInv'
  BY <1>6 DEF ReadReservations, OwnDeleted
<1>7. ASSUME NEW a \in Actors, PassQuota(a) PROVE PhaseInv'
  BY <1>7 DEF PassQuota
<1>8. ASSUME NEW a \in Actors, PassDrop(a) PROVE PhaseInv'
  BY <1>8 DEF PassDrop
<1>9. ASSUME NEW a \in Actors, Refuse(a) PROVE PhaseInv'
  BY <1>9 DEF Refuse, EndTx, AfterFailure
<1>10. ASSUME NEW a \in Actors, Fail(a) PROVE PhaseInv'
  BY <1>10 DEF Fail, EndTx, AfterFailure
<1>11. ASSUME NEW a \in Actors, Commit(a) PROVE PhaseInv'
  BY <1>11 DEF Commit, EndTx, AfterCommit, Written
<1>12. ASSUME NEW a \in Actors, CommitUnacknowledged(a) PROVE PhaseInv'
  BY <1>12 DEF CommitUnacknowledged, EndTx, AfterFailure, Written
<1>13. ASSUME NEW a \in Actors, Crash(a) PROVE PhaseInv'
  BY <1>13 DEF Crash, EndTx
<1>14. ASSUME NEW r \in Uploads, WriteBlob(r) PROVE PhaseInv'
  BY <1>14 DEF WriteBlob, Actors
<1>15. ASSUME NEW r \in Uploads, AbandonBlob(r) PROVE PhaseInv'
  BY <1>15 DEF AbandonBlob, Actors
<1>16. ASSUME NEW r \in Uploads, Release(r) PROVE PhaseInv'
  BY <1>16 DEF Release, Actors
<1>17. ASSUME NEW r \in Uploads, ReleaseFails(r) PROVE PhaseInv'
  BY <1>17 DEF ReleaseFails, Actors
<1>18. ASSUME NEW r \in Uploads, CloseIfFull(r) PROVE PhaseInv'
  BY <1>18 DEF CloseIfFull, Actors
<1>19. ASSUME NEW r \in Uploads, CloseFails(r) PROVE PhaseInv'
  BY <1>19 DEF CloseFails, Actors
<1>20. ASSUME NEW r \in Uploads, Lapse(r) PROVE PhaseInv'
  BY <1>20 DEF Lapse, Live, Actors
<1>21. ASSUME NEW r \in Uploads, Expire(r) PROVE PhaseInv'
  BY <1>21 DEF Expire, Active, Actors
<1>22. ASSUME NEW r \in Uploads, Retire(r) PROVE PhaseInv'
  BY <1>22 DEF Retire, Actors
<1>23. ASSUME SweepReservations PROVE PhaseInv'
  BY <1>23 DEF SweepReservations
<1>24. ASSUME NEW d \in Drops, OwnerCloses(d) PROVE PhaseInv'
  BY <1>24 DEF OwnerCloses
<1>25. ASSUME UNCHANGED vars PROVE PhaseInv'
  BY <1>25 DEF vars
<1> QED
  BY <1>1, <1>2, <1>3, <1>4, <1>5, <1>6, <1>7, <1>8, <1>9, <1>10, <1>11, <1>12,
     <1>13, <1>14, <1>15, <1>16, <1>17, <1>18, <1>19, <1>20, <1>21, <1>22, <1>23, <1>24, <1>25
     DEF Next, Request, Transact, Mishap, Handle

(* The lock is taken only when nobody counts, and given up only by its holder. *)
LEMMA LockStep == TypeOK /\ LockInv /\ [Next]_vars => LockInv'
<1> SUFFICES ASSUME TypeOK, LockInv, [Next]_vars PROVE LockInv'
  OBVIOUS
<1> USE DEF TypeOK, LockInv, Counting, Steps, Phases, tx, rows
<1>1. ASSUME NEW a \in Actors, Arrive(a) PROVE LockInv'
  BY <1>1 DEF Arrive
<1>2. ASSUME NEW a \in Actors, TurnAway(a) PROVE LockInv'
  BY <1>2 DEF TurnAway
<1>3. ASSUME NEW a \in Actors, Begin(a) PROVE LockInv'
  BY <1>3 DEF Begin
<1>4. ASSUME NEW a \in Actors, TakeLock(a) PROVE LockInv'
  BY <1>4, NobodyAssumption DEF TakeLock
<1>5. ASSUME NEW a \in Actors, ReadFiles(a) PROVE LockInv'
  BY <1>5 DEF ReadFiles
<1>6. ASSUME NEW a \in Actors, ReadReservations(a) PROVE LockInv'
  BY <1>6 DEF ReadReservations, OwnDeleted
<1>7. ASSUME NEW a \in Actors, PassQuota(a) PROVE LockInv'
  BY <1>7 DEF PassQuota
<1>8. ASSUME NEW a \in Actors, PassDrop(a) PROVE LockInv'
  BY <1>8 DEF PassDrop
<1>9. ASSUME NEW a \in Actors, Refuse(a) PROVE LockInv'
  BY <1>9 DEF Refuse, EndTx, AfterFailure
<1>10. ASSUME NEW a \in Actors, Fail(a) PROVE LockInv'
  BY <1>10 DEF Fail, EndTx, AfterFailure
<1>11. ASSUME NEW a \in Actors, Commit(a) PROVE LockInv'
  BY <1>11 DEF Commit, EndTx, AfterCommit, Written
<1>12. ASSUME NEW a \in Actors, CommitUnacknowledged(a) PROVE LockInv'
  BY <1>12 DEF CommitUnacknowledged, EndTx, AfterFailure, Written
<1>13. ASSUME NEW a \in Actors, Crash(a) PROVE LockInv'
  BY <1>13 DEF Crash, EndTx
<1>14. ASSUME NEW r \in Uploads, WriteBlob(r) PROVE LockInv'
  BY <1>14 DEF WriteBlob, Actors
<1>15. ASSUME NEW r \in Uploads, AbandonBlob(r) PROVE LockInv'
  BY <1>15 DEF AbandonBlob, Actors
<1>16. ASSUME NEW r \in Uploads, Release(r) PROVE LockInv'
  BY <1>16 DEF Release, Actors
<1>17. ASSUME NEW r \in Uploads, ReleaseFails(r) PROVE LockInv'
  BY <1>17 DEF ReleaseFails, Actors
<1>18. ASSUME NEW r \in Uploads, CloseIfFull(r) PROVE LockInv'
  BY <1>18 DEF CloseIfFull, Actors
<1>19. ASSUME NEW r \in Uploads, CloseFails(r) PROVE LockInv'
  BY <1>19 DEF CloseFails, Actors
<1>20. ASSUME NEW r \in Uploads, Lapse(r) PROVE LockInv'
  BY <1>20 DEF Lapse, Live, Actors
<1>21. ASSUME NEW r \in Uploads, Expire(r) PROVE LockInv'
  BY <1>21 DEF Expire, Active, Actors
<1>22. ASSUME NEW r \in Uploads, Retire(r) PROVE LockInv'
  BY <1>22 DEF Retire, Actors
<1>23. ASSUME SweepReservations PROVE LockInv'
  BY <1>23 DEF SweepReservations
<1>24. ASSUME NEW d \in Drops, OwnerCloses(d) PROVE LockInv'
  BY <1>24 DEF OwnerCloses
<1>25. ASSUME UNCHANGED vars PROVE LockInv'
  BY <1>25 DEF vars
<1> QED
  BY <1>1, <1>2, <1>3, <1>4, <1>5, <1>6, <1>7, <1>8, <1>9, <1>10, <1>11, <1>12,
     <1>13, <1>14, <1>15, <1>16, <1>17, <1>18, <1>19, <1>20, <1>21, <1>22, <1>23, <1>24, <1>25
     DEF Next, Request, Transact, Mishap, Handle

(* Rows appear only where a commit puts them. *)
LEMMA RowStep == TypeOK /\ RowInv /\ [Next]_vars => RowInv'
<1> SUFFICES ASSUME TypeOK, RowInv, [Next]_vars PROVE RowInv'
  OBVIOUS
<1> USE DEF TypeOK, RowInv, Phases, tx, rows
<1>1. ASSUME NEW a \in Actors, Arrive(a) PROVE RowInv'
  BY <1>1 DEF Arrive
<1>2. ASSUME NEW a \in Actors, TurnAway(a) PROVE RowInv'
  BY <1>2 DEF TurnAway
<1>3. ASSUME NEW a \in Actors, Begin(a) PROVE RowInv'
  BY <1>3 DEF Begin
<1>4. ASSUME NEW a \in Actors, TakeLock(a) PROVE RowInv'
  BY <1>4 DEF TakeLock
<1>5. ASSUME NEW a \in Actors, ReadFiles(a) PROVE RowInv'
  BY <1>5 DEF ReadFiles
<1>6. ASSUME NEW a \in Actors, ReadReservations(a) PROVE RowInv'
  BY <1>6 DEF ReadReservations, OwnDeleted
<1>7. ASSUME NEW a \in Actors, PassQuota(a) PROVE RowInv'
  BY <1>7 DEF PassQuota
<1>8. ASSUME NEW a \in Actors, PassDrop(a) PROVE RowInv'
  BY <1>8 DEF PassDrop
<1>9. ASSUME NEW a \in Actors, Refuse(a) PROVE RowInv'
  BY <1>9 DEF Refuse, EndTx, AfterFailure
<1>10. ASSUME NEW a \in Actors, Fail(a) PROVE RowInv'
  BY <1>10 DEF Fail, EndTx, AfterFailure
<1>11. ASSUME NEW a \in Actors, Commit(a) PROVE RowInv'
  BY <1>11 DEF Commit, EndTx, AfterCommit, Written
<1>12. ASSUME NEW a \in Actors, CommitUnacknowledged(a) PROVE RowInv'
  BY <1>12 DEF CommitUnacknowledged, EndTx, AfterFailure, Written
<1>13. ASSUME NEW a \in Actors, Crash(a) PROVE RowInv'
  BY <1>13 DEF Crash, EndTx
<1>14. ASSUME NEW r \in Uploads, WriteBlob(r) PROVE RowInv'
  BY <1>14 DEF WriteBlob, Actors
<1>15. ASSUME NEW r \in Uploads, AbandonBlob(r) PROVE RowInv'
  BY <1>15 DEF AbandonBlob, Actors
<1>16. ASSUME NEW r \in Uploads, Release(r) PROVE RowInv'
  BY <1>16 DEF Release, Actors
<1>17. ASSUME NEW r \in Uploads, ReleaseFails(r) PROVE RowInv'
  BY <1>17 DEF ReleaseFails, Actors
<1>18. ASSUME NEW r \in Uploads, CloseIfFull(r) PROVE RowInv'
  BY <1>18 DEF CloseIfFull, Actors
<1>19. ASSUME NEW r \in Uploads, CloseFails(r) PROVE RowInv'
  BY <1>19 DEF CloseFails, Actors
<1>20. ASSUME NEW r \in Uploads, Lapse(r) PROVE RowInv'
  BY <1>20 DEF Lapse, Live, Actors
<1>21. ASSUME NEW r \in Uploads, Expire(r) PROVE RowInv'
  BY <1>21 DEF Expire, Active, Actors
<1>22. ASSUME NEW r \in Uploads, Retire(r) PROVE RowInv'
  BY <1>22 DEF Retire, Actors
<1>23. ASSUME SweepReservations PROVE RowInv'
  BY <1>23 DEF SweepReservations
<1>24. ASSUME NEW d \in Drops, OwnerCloses(d) PROVE RowInv'
  BY <1>24 DEF OwnerCloses
<1>25. ASSUME UNCHANGED vars PROVE RowInv'
  BY <1>25 DEF vars
<1> QED
  BY <1>1, <1>2, <1>3, <1>4, <1>5, <1>6, <1>7, <1>8, <1>9, <1>10, <1>11, <1>12,
     <1>13, <1>14, <1>15, <1>16, <1>17, <1>18, <1>19, <1>20, <1>21, <1>22, <1>23, <1>24, <1>25
     DEF Next, Request, Transact, Mishap, Handle

(* Nothing that NOW() made lapsed or expired starts counting again. *)
LEMMA ClockStep == TypeOK /\ RowInv /\ ClockInv /\ [Next]_vars => ClockInv'
<1> SUFFICES ASSUME TypeOK, RowInv, ClockInv, [Next]_vars PROVE ClockInv'
  OBVIOUS
<1> USE DEF TypeOK, RowInv, ClockInv, Active, Live, NoClock, Phases, tx, rows
<1>1. ASSUME NEW a \in Actors, Arrive(a) PROVE ClockInv'
  BY <1>1 DEF Arrive
<1>2. ASSUME NEW a \in Actors, TurnAway(a) PROVE ClockInv'
  BY <1>2 DEF TurnAway
<1>3. ASSUME NEW a \in Actors, Begin(a) PROVE ClockInv'
  BY <1>3 DEF Begin
<1>4. ASSUME NEW a \in Actors, TakeLock(a) PROVE ClockInv'
  BY <1>4 DEF TakeLock
<1>5. ASSUME NEW a \in Actors, ReadFiles(a) PROVE ClockInv'
  BY <1>5 DEF ReadFiles
<1>6. ASSUME NEW a \in Actors, ReadReservations(a) PROVE ClockInv'
  BY <1>6 DEF ReadReservations, OwnDeleted
<1>7. ASSUME NEW a \in Actors, PassQuota(a) PROVE ClockInv'
  BY <1>7 DEF PassQuota
<1>8. ASSUME NEW a \in Actors, PassDrop(a) PROVE ClockInv'
  BY <1>8 DEF PassDrop
<1>9. ASSUME NEW a \in Actors, Refuse(a) PROVE ClockInv'
  BY <1>9 DEF Refuse, EndTx, AfterFailure
<1>10. ASSUME NEW a \in Actors, Fail(a) PROVE ClockInv'
  BY <1>10 DEF Fail, EndTx, AfterFailure
<1>11. ASSUME NEW a \in Actors, Commit(a) PROVE ClockInv'
  BY <1>11 DEF Commit, EndTx, AfterCommit, Written
<1>12. ASSUME NEW a \in Actors, CommitUnacknowledged(a) PROVE ClockInv'
  BY <1>12 DEF CommitUnacknowledged, EndTx, AfterFailure, Written
<1>13. ASSUME NEW a \in Actors, Crash(a) PROVE ClockInv'
  BY <1>13 DEF Crash, EndTx
<1>14. ASSUME NEW r \in Uploads, WriteBlob(r) PROVE ClockInv'
  BY <1>14 DEF WriteBlob, Actors
<1>15. ASSUME NEW r \in Uploads, AbandonBlob(r) PROVE ClockInv'
  BY <1>15 DEF AbandonBlob, Actors
<1>16. ASSUME NEW r \in Uploads, Release(r) PROVE ClockInv'
  BY <1>16 DEF Release, Actors
<1>17. ASSUME NEW r \in Uploads, ReleaseFails(r) PROVE ClockInv'
  BY <1>17 DEF ReleaseFails, Actors
<1>18. ASSUME NEW r \in Uploads, CloseIfFull(r) PROVE ClockInv'
  BY <1>18 DEF CloseIfFull, Actors
<1>19. ASSUME NEW r \in Uploads, CloseFails(r) PROVE ClockInv'
  BY <1>19 DEF CloseFails, Actors
<1>20. ASSUME NEW r \in Uploads, Lapse(r) PROVE ClockInv'
  BY <1>20 DEF Lapse, Live, Actors
<1>21. ASSUME NEW r \in Uploads, Expire(r) PROVE ClockInv'
  BY <1>21 DEF Expire, Active, Actors
<1>22. ASSUME NEW r \in Uploads, Retire(r) PROVE ClockInv'
  BY <1>22 DEF Retire, Actors
<1>23. ASSUME SweepReservations PROVE ClockInv'
  BY <1>23 DEF SweepReservations
<1>24. ASSUME NEW d \in Drops, OwnerCloses(d) PROVE ClockInv'
  BY <1>24 DEF OwnerCloses
<1>25. ASSUME UNCHANGED vars PROVE ClockInv'
  BY <1>25 DEF vars
<1> QED
  BY <1>1, <1>2, <1>3, <1>4, <1>5, <1>6, <1>7, <1>8, <1>9, <1>10, <1>11, <1>12,
     <1>13, <1>14, <1>15, <1>16, <1>17, <1>18, <1>19, <1>20, <1>21, <1>22, <1>23, <1>24, <1>25
     DEF Next, Request, Transact, Mishap, Handle

(* The rows read so far go on including every row that counts. *)
LEMMA SnapshotStep ==
  TypeOK /\ PhaseInv /\ LockInv /\ ClockInv /\ SnapshotInv /\ [Next]_vars => SnapshotInv'
<1> SUFFICES ASSUME TypeOK, PhaseInv, LockInv, ClockInv, SnapshotInv, [Next]_vars
      PROVE SnapshotInv'
  OBVIOUS
<1> USE DEF TypeOK, LockInv, ClockInv, SnapshotInv, Counting, Steps, Phases, Active, Live,
     tx, rows
<1>1. ASSUME NEW a \in Actors, Arrive(a) PROVE SnapshotInv'
  BY <1>1 DEF Arrive
<1>2. ASSUME NEW a \in Actors, TurnAway(a) PROVE SnapshotInv'
  BY <1>2 DEF TurnAway
<1>3. ASSUME NEW a \in Actors, Begin(a) PROVE SnapshotInv'
  BY <1>3 DEF Begin
<1>4. ASSUME NEW a \in Actors, TakeLock(a) PROVE SnapshotInv'
  BY <1>4 DEF TakeLock
<1>5. ASSUME NEW a \in Actors, ReadFiles(a) PROVE SnapshotInv'
  BY <1>5 DEF ReadFiles
<1>6. ASSUME NEW a \in Actors, ReadReservations(a) PROVE SnapshotInv'
  BY <1>6 DEF ReadReservations, OwnDeleted
<1>7. ASSUME NEW a \in Actors, PassQuota(a) PROVE SnapshotInv'
  BY <1>7 DEF PassQuota
<1>8. ASSUME NEW a \in Actors, PassDrop(a) PROVE SnapshotInv'
  BY <1>8 DEF PassDrop
<1>9. ASSUME NEW a \in Actors, Refuse(a) PROVE SnapshotInv'
  BY <1>9 DEF Refuse, EndTx, AfterFailure
<1>10. ASSUME NEW a \in Actors, Fail(a) PROVE SnapshotInv'
  BY <1>10 DEF Fail, EndTx, AfterFailure
<1>11. ASSUME NEW a \in Actors, Commit(a) PROVE SnapshotInv'
  BY <1>11 DEF Commit, EndTx, AfterCommit, Written
<1>12. ASSUME NEW a \in Actors, CommitUnacknowledged(a) PROVE SnapshotInv'
  BY <1>12 DEF CommitUnacknowledged, EndTx, AfterFailure, Written
<1>13. ASSUME NEW a \in Actors, Crash(a) PROVE SnapshotInv'
  BY <1>13 DEF Crash, EndTx
<1>14. ASSUME NEW r \in Uploads, WriteBlob(r) PROVE SnapshotInv'
  BY <1>14 DEF WriteBlob, Actors, PhaseInv, InTx
<1>15. ASSUME NEW r \in Uploads, AbandonBlob(r) PROVE SnapshotInv'
  BY <1>15 DEF AbandonBlob, Actors
<1>16. ASSUME NEW r \in Uploads, Release(r) PROVE SnapshotInv'
  BY <1>16 DEF Release, Actors
<1>17. ASSUME NEW r \in Uploads, ReleaseFails(r) PROVE SnapshotInv'
  BY <1>17 DEF ReleaseFails, Actors
<1>18. ASSUME NEW r \in Uploads, CloseIfFull(r) PROVE SnapshotInv'
  BY <1>18 DEF CloseIfFull, Actors
<1>19. ASSUME NEW r \in Uploads, CloseFails(r) PROVE SnapshotInv'
  BY <1>19 DEF CloseFails, Actors
<1>20. ASSUME NEW r \in Uploads, Lapse(r) PROVE SnapshotInv'
  BY <1>20 DEF Lapse, Live, Actors
<1>21. ASSUME NEW r \in Uploads, Expire(r) PROVE SnapshotInv'
  BY <1>21 DEF Expire, Active, Actors
<1>22. ASSUME NEW r \in Uploads, Retire(r) PROVE SnapshotInv'
  BY <1>22 DEF Retire, Actors
<1>23. ASSUME SweepReservations PROVE SnapshotInv'
  BY <1>23 DEF SweepReservations
<1>24. ASSUME NEW d \in Drops, OwnerCloses(d) PROVE SnapshotInv'
  BY <1>24 DEF OwnerCloses
<1>25. ASSUME UNCHANGED vars PROVE SnapshotInv'
  BY <1>25 DEF vars
<1> QED
  BY <1>1, <1>2, <1>3, <1>4, <1>5, <1>6, <1>7, <1>8, <1>9, <1>10, <1>11, <1>12,
     <1>13, <1>14, <1>15, <1>16, <1>17, <1>18, <1>19, <1>20, <1>21, <1>22, <1>23, <1>24, <1>25
     DEF Next, Request, Transact, Mishap, Handle

-----------------------------------------------------------------------------
(* Except by the commit of an admission, what counts only ever loses a file or
   a reservation.                                                            *)

Counts == <<Active, Live, opened>>

LosesOne ==
  \E r \in Uploads :
    \/ Active' = Active \ {r} /\ UNCHANGED <<Live, opened>>
    \/ Live' = Live \ {r} /\ UNCHANGED <<Active, opened>>

CountsShrink == UNCHANGED Counts \/ LosesOne

Commits(a) == Commit(a) \/ CommitUnacknowledged(a)

Cleared == {"dropBegun", "dropFiles", "dropUsage", "admitted"}

(* How a request gets past a check: by passing it. *)
ClearedBy(b) ==
  step'[b] \in Cleared =>
    /\ pc'[b] = pc[b]
    /\ b \in Uploads => step[b] \in Cleared \/ PassQuota(b)
    /\ step'[b] = "admitted" => step[b] = "admitted" \/ PassQuota(b) \/ PassDrop(b)

(* Every step shrinks what counts or is a commit. *)
LEMMA ShrinkStep == TypeOK /\ [Next]_vars =>
  CountsShrink \/ \E a \in Actors : Commits(a)
<1> SUFFICES ASSUME TypeOK, [Next]_vars PROVE CountsShrink \/ \E a \in Actors : Commits(a)
  OBVIOUS
<1> USE DEF TypeOK, CountsShrink, Counts, LosesOne, Active, Live, tx, rows
<1>1. ASSUME NEW b \in Actors, Arrive(b) PROVE CountsShrink \/ \E a \in Actors : Commits(a)
  BY <1>1 DEF Arrive
<1>2. ASSUME NEW b \in Actors, TurnAway(b) PROVE CountsShrink \/ \E a \in Actors : Commits(a)
  BY <1>2 DEF TurnAway
<1>3. ASSUME NEW b \in Actors, Begin(b) PROVE CountsShrink \/ \E a \in Actors : Commits(a)
  BY <1>3 DEF Begin
<1>4. ASSUME NEW b \in Actors, TakeLock(b) PROVE CountsShrink \/ \E a \in Actors : Commits(a)
  BY <1>4 DEF TakeLock
<1>5. ASSUME NEW b \in Actors, ReadFiles(b) PROVE CountsShrink \/ \E a \in Actors : Commits(a)
  BY <1>5 DEF ReadFiles
<1>6. ASSUME NEW b \in Actors, ReadReservations(b)
      PROVE CountsShrink \/ \E a \in Actors : Commits(a)
  BY <1>6 DEF ReadReservations, OwnDeleted
<1>7. ASSUME NEW b \in Actors, PassQuota(b) PROVE CountsShrink \/ \E a \in Actors : Commits(a)
  BY <1>7 DEF PassQuota
<1>8. ASSUME NEW b \in Actors, PassDrop(b) PROVE CountsShrink \/ \E a \in Actors : Commits(a)
  BY <1>8 DEF PassDrop
<1>9. ASSUME NEW b \in Actors, Refuse(b) PROVE CountsShrink \/ \E a \in Actors : Commits(a)
  BY <1>9 DEF Refuse, EndTx, AfterFailure
<1>10. ASSUME NEW b \in Actors, Fail(b) PROVE CountsShrink \/ \E a \in Actors : Commits(a)
  BY <1>10 DEF Fail, EndTx, AfterFailure
<1>11. ASSUME NEW b \in Actors, Commit(b) PROVE CountsShrink \/ \E a \in Actors : Commits(a)
  BY <1>11 DEF Commits, Commit, EndTx, AfterCommit, Written
<1>12. ASSUME NEW b \in Actors, CommitUnacknowledged(b)
      PROVE CountsShrink \/ \E a \in Actors : Commits(a)
  BY <1>12 DEF Commits, CommitUnacknowledged, EndTx, AfterFailure, Written
<1>13. ASSUME NEW b \in Actors, Crash(b) PROVE CountsShrink \/ \E a \in Actors : Commits(a)
  BY <1>13 DEF Crash, EndTx
<1>14. ASSUME NEW r \in Uploads, WriteBlob(r)
      PROVE CountsShrink \/ \E a \in Actors : Commits(a)
  BY <1>14 DEF WriteBlob, Actors
<1>15. ASSUME NEW r \in Uploads, AbandonBlob(r)
      PROVE CountsShrink \/ \E a \in Actors : Commits(a)
  BY <1>15 DEF AbandonBlob, Actors
<1>16. ASSUME NEW r \in Uploads, Release(r) PROVE CountsShrink \/ \E a \in Actors : Commits(a)
  BY <1>16 DEF Release, Actors
<1>17. ASSUME NEW r \in Uploads, ReleaseFails(r)
      PROVE CountsShrink \/ \E a \in Actors : Commits(a)
  BY <1>17 DEF ReleaseFails, Actors
<1>18. ASSUME NEW r \in Uploads, CloseIfFull(r)
      PROVE CountsShrink \/ \E a \in Actors : Commits(a)
  BY <1>18 DEF CloseIfFull, Actors
<1>19. ASSUME NEW r \in Uploads, CloseFails(r)
      PROVE CountsShrink \/ \E a \in Actors : Commits(a)
  BY <1>19 DEF CloseFails, Actors
<1>20. ASSUME NEW r \in Uploads, Lapse(r) PROVE CountsShrink \/ \E a \in Actors : Commits(a)
  BY <1>20 DEF Lapse, Live, Actors
<1>21. ASSUME NEW r \in Uploads, Expire(r) PROVE CountsShrink \/ \E a \in Actors : Commits(a)
  BY <1>21 DEF Expire, Active, Actors
<1>22. ASSUME NEW r \in Uploads, Retire(r) PROVE CountsShrink \/ \E a \in Actors : Commits(a)
  BY <1>22 DEF Retire, Actors
<1>23. ASSUME SweepReservations PROVE CountsShrink \/ \E a \in Actors : Commits(a)
  BY <1>23 DEF SweepReservations
<1>24. ASSUME NEW d \in Drops, OwnerCloses(d)
      PROVE CountsShrink \/ \E a \in Actors : Commits(a)
  BY <1>24 DEF OwnerCloses
<1>25. ASSUME UNCHANGED vars PROVE CountsShrink \/ \E a \in Actors : Commits(a)
  BY <1>25 DEF vars
<1> QED
  BY <1>1, <1>2, <1>3, <1>4, <1>5, <1>6, <1>7, <1>8, <1>9, <1>10, <1>11, <1>12,
     <1>13, <1>14, <1>15, <1>16, <1>17, <1>18, <1>19, <1>20, <1>21, <1>22, <1>23, <1>24, <1>25
     DEF Next, Request, Transact, Mishap, Handle

(* Every step clears a check only by passing it. *)
LEMMA ClearedStep == TypeOK /\ PhaseInv /\ [Next]_vars => \A b \in Actors : ClearedBy(b)
<1> SUFFICES ASSUME TypeOK, PhaseInv, [Next]_vars PROVE \A b \in Actors : ClearedBy(b)
  OBVIOUS
<1> USE DEF TypeOK, ClearedBy, Cleared, Steps, tx, rows
<1>1. ASSUME NEW a \in Actors, Arrive(a) PROVE \A b \in Actors : ClearedBy(b)
  BY <1>1 DEF Arrive, PhaseInv, InTx
<1>2. ASSUME NEW a \in Actors, TurnAway(a) PROVE \A b \in Actors : ClearedBy(b)
  BY <1>2 DEF TurnAway, PhaseInv, InTx
<1>3. ASSUME NEW a \in Actors, Begin(a) PROVE \A b \in Actors : ClearedBy(b)
  BY <1>3 DEF Begin
<1>4. ASSUME NEW a \in Actors, TakeLock(a) PROVE \A b \in Actors : ClearedBy(b)
  BY <1>4, RequestsAssumption DEF TakeLock, PhaseInv
<1>5. ASSUME NEW a \in Actors, ReadFiles(a) PROVE \A b \in Actors : ClearedBy(b)
  BY <1>5 DEF ReadFiles
<1>6. ASSUME NEW a \in Actors, ReadReservations(a) PROVE \A b \in Actors : ClearedBy(b)
  BY <1>6 DEF ReadReservations, OwnDeleted
<1>7. ASSUME NEW a \in Actors, PassQuota(a) PROVE \A b \in Actors : ClearedBy(b)
  BY <1>7 DEF PassQuota
<1>8. ASSUME NEW a \in Actors, PassDrop(a) PROVE \A b \in Actors : ClearedBy(b)
  BY <1>8 DEF PassDrop
<1>9. ASSUME NEW a \in Actors, Refuse(a) PROVE \A b \in Actors : ClearedBy(b)
  BY <1>9 DEF Refuse, EndTx, AfterFailure
<1>10. ASSUME NEW a \in Actors, Fail(a) PROVE \A b \in Actors : ClearedBy(b)
  BY <1>10 DEF Fail, EndTx, AfterFailure
<1>11. ASSUME NEW a \in Actors, Commit(a) PROVE \A b \in Actors : ClearedBy(b)
  BY <1>11 DEF Commit, EndTx, AfterCommit, Written
<1>12. ASSUME NEW a \in Actors, CommitUnacknowledged(a) PROVE \A b \in Actors : ClearedBy(b)
  BY <1>12 DEF CommitUnacknowledged, EndTx, AfterFailure, Written
<1>13. ASSUME NEW a \in Actors, Crash(a) PROVE \A b \in Actors : ClearedBy(b)
  BY <1>13 DEF Crash, EndTx
<1>14. ASSUME NEW r \in Uploads, WriteBlob(r) PROVE \A b \in Actors : ClearedBy(b)
  BY <1>14 DEF WriteBlob, Actors, PhaseInv, InTx
<1>15. ASSUME NEW r \in Uploads, AbandonBlob(r) PROVE \A b \in Actors : ClearedBy(b)
  BY <1>15 DEF AbandonBlob, Actors, PhaseInv, InTx
<1>16. ASSUME NEW r \in Uploads, Release(r) PROVE \A b \in Actors : ClearedBy(b)
  BY <1>16 DEF Release, Actors, PhaseInv, InTx
<1>17. ASSUME NEW r \in Uploads, ReleaseFails(r) PROVE \A b \in Actors : ClearedBy(b)
  BY <1>17 DEF ReleaseFails, Actors, PhaseInv, InTx
<1>18. ASSUME NEW r \in Uploads, CloseIfFull(r) PROVE \A b \in Actors : ClearedBy(b)
  BY <1>18 DEF CloseIfFull, Actors, PhaseInv, InTx
<1>19. ASSUME NEW r \in Uploads, CloseFails(r) PROVE \A b \in Actors : ClearedBy(b)
  BY <1>19 DEF CloseFails, Actors, PhaseInv, InTx
<1>20. ASSUME NEW r \in Uploads, Lapse(r) PROVE \A b \in Actors : ClearedBy(b)
  BY <1>20 DEF Lapse, Live, Actors
<1>21. ASSUME NEW r \in Uploads, Expire(r) PROVE \A b \in Actors : ClearedBy(b)
  BY <1>21 DEF Expire, Active, Actors
<1>22. ASSUME NEW r \in Uploads, Retire(r) PROVE \A b \in Actors : ClearedBy(b)
  BY <1>22 DEF Retire, Actors
<1>23. ASSUME SweepReservations PROVE \A b \in Actors : ClearedBy(b)
  BY <1>23 DEF SweepReservations
<1>24. ASSUME NEW d \in Drops, OwnerCloses(d) PROVE \A b \in Actors : ClearedBy(b)
  BY <1>24 DEF OwnerCloses
<1>25. ASSUME UNCHANGED vars PROVE \A b \in Actors : ClearedBy(b)
  BY <1>25 DEF vars
<1> QED
  BY <1>1, <1>2, <1>3, <1>4, <1>5, <1>6, <1>7, <1>8, <1>9, <1>10, <1>11, <1>12,
     <1>13, <1>14, <1>15, <1>16, <1>17, <1>18, <1>19, <1>20, <1>21, <1>22, <1>23, <1>24, <1>25
     DEF Next, Request, Transact, Mishap, Handle

(* The numbers the checks compare. *)
LEMMA Counted ==
  ASSUME TypeOK, PhaseInv, NEW b \in Uploads
  PROVE  /\ Active \in SUBSET Uploads
         /\ Live \in SUBSET Uploads
         /\ Live \ {b} \in SUBSET Uploads
         /\ Incoming(b) \in Nat
<1>1. Booking(b) \in Nat /\ Size[b] \in Nat
  BY BookingBounds, LimitsAssumption, RequestsAssumption
<1> QED BY <1>1 DEF Incoming, TypeOK, Active, Live

(* While a request holds the lock no other commits. *)
LEMMA OneCommits ==
  ASSUME TypeOK, LockInv, NEW a \in Actors, Commits(a), NEW b \in Actors
  PROVE  step'[b] \notin Counting
<1>1. step[a] = "admitted" /\ step' = [step EXCEPT ![a] = "none"]
  BY DEF Commits, Commit, CommitUnacknowledged, EndTx
<1>2. lock = a
  BY <1>1 DEF LockInv, Counting, Steps
<1>3. a # b => step[b] \notin Counting
  BY <1>2 DEF LockInv
<1> QED BY <1>1, <1>3 DEF TypeOK, Counting

(* A check that passed still passes: it passed on rows that include all that
   counts now, and from then on what counts shrinks.                        *)
LEMMA PassedStep ==
  ASSUME TypeOK, TypeOK', PhaseInv, LockInv, SnapshotInv, PassedInv,
         CountsShrink \/ \E a \in Actors : Commits(a),
         \A b \in Actors : ClearedBy(b)
  PROVE  PassedInv'
<1> SUFFICES ASSUME NEW b \in Actors PROVE Passed(b)'
  BY DEF PassedInv
<1>1. CASE \E a \in Actors : Commits(a)
  <2>1. step'[b] \notin Cleared
    BY <1>1, OneCommits DEF Cleared, Counting, Steps
  <2> QED BY <2>1 DEF Passed, Cleared
<1>2. CASE CountsShrink /\ step'[b] \notin Cleared
  BY <1>2 DEF Passed, Cleared
<1>3. CASE CountsShrink /\ step'[b] \in Cleared
  <2>1. /\ Incoming(b)' = Incoming(b)
        /\ Active' \in SUBSET Active /\ Live' \in SUBSET Live
        /\ Live' \ {b} \in SUBSET (Live \ {b})
        /\ opened' = opened
    BY <1>3 DEF CountsShrink, Counts, LosesOne, ClearedBy, Incoming
  <2>2. ASSUME b \in Uploads PROVE ~QuotaViolation(b, Active', Live' \ {b}, Incoming(b)')
    <3>1. CASE step[b] \in Cleared
      <4>1. ~QuotaViolation(b, Active, Live \ {b}, Incoming(b))
        BY <2>2, <3>1 DEF PassedInv, Passed, Cleared
      <4> QED BY <2>1, <2>2, <4>1, Counted, RoomMonotone
    <3>2. CASE PassQuota(b)
      <4>1. /\ ~QuotaViolation(b, seen[b].files, seen[b].resv, Incoming(b))
            /\ step[b] = "usage"
        BY <3>2 DEF PassQuota, OverQuota
      <4>2. Active' \in SUBSET seen[b].files /\ Live' \ {b} \in SUBSET seen[b].resv
        BY <2>1, <4>1 DEF SnapshotInv
      <4>3. seen[b].files \in SUBSET Uploads /\ seen[b].resv \in SUBSET Uploads
        BY DEF TypeOK
      <4> QED BY <2>1, <2>2, <4>1, <4>2, <4>3, Counted, RoomMonotone
    <3> QED BY <1>3, <2>2, <3>1, <3>2 DEF ClearedBy
  <2>3. ASSUME b \in Uploads, InDrop(b), step'[b] = "admitted"
        PROVE  ~DropViolation(b, Active', Live' \ {b}, Incoming(b)')
    <3>1. CASE step[b] = "admitted"
      <4>1. ~DropViolation(b, Active, Live \ {b}, Incoming(b))
        BY <2>3, <3>1 DEF PassedInv, Passed
      <4> QED BY <2>1, <2>3, <4>1, Counted, RoomMonotone
    <3>2. CASE PassDrop(b)
      <4>1. /\ ~DropViolation(b, seen[b].files, seen[b].resv, Incoming(b))
            /\ step[b] = "dropUsage"
        BY <2>3, <3>2, RequestsAssumption DEF PassDrop, OverDrop
      <4>2. Active' \in SUBSET seen[b].files /\ Live' \ {b} \in SUBSET seen[b].resv
        BY <2>1, <4>1 DEF SnapshotInv
      <4>3. seen[b].files \in SUBSET Uploads /\ seen[b].resv \in SUBSET Uploads
        BY DEF TypeOK
      <4>4. Incoming(b) \in Nat
        BY <2>3, Counted
      <4>5. ~DropViolation(b, Active', Live' \ {b}, Incoming(b))
        BY <2>3, <4>1, <4>2, <4>3, <4>4, RoomMonotone
      <4> QED BY <2>1, <4>5, Zenon
    <3>3. ~PassQuota(b)
      BY <2>3 DEF PassQuota, TypeOK
    <3> QED BY <1>3, <2>3, <3>1, <3>2, <3>3 DEF ClearedBy
  <2>4. ASSUME b \in Submissions, step'[b] = "admitted"
        PROVE  ~SubmissionViolation(b, Active', Live', opened')
    <3>0. Active \in SUBSET Uploads /\ Live \in SUBSET Uploads /\ Live \ {b} = Live
      BY <2>4, RequestsAssumption DEF TypeOK, Active, Live
    <3>1. CASE step[b] = "admitted"
      <4>1. ~SubmissionViolation(b, Active, Live, opened)
        BY <2>4, <3>1 DEF PassedInv, Passed
      <4> QED BY <2>1, <2>4, <3>0, <4>1, SubmissionRoomMonotone
    <3>2. CASE PassDrop(b)
      <4>1. /\ ~SubmissionViolation(b, seen[b].files, seen[b].resv, opened)
            /\ step[b] = "dropUsage"
        BY <2>4, <3>2 DEF PassDrop, OverDrop
      <4>2. Active' \in SUBSET seen[b].files /\ Live' \in SUBSET seen[b].resv
        BY <2>1, <3>0, <4>1 DEF SnapshotInv
      <4>3. seen[b].files \in SUBSET Uploads /\ seen[b].resv \in SUBSET Uploads
        BY DEF TypeOK
      <4> QED BY <2>1, <2>4, <4>1, <4>2, <4>3, SubmissionRoomMonotone
    <3>3. ~PassQuota(b)
      BY <2>4, RequestsAssumption DEF PassQuota, PhaseInv
    <3> QED BY <1>3, <2>4, <3>1, <3>2, <3>3 DEF ClearedBy
  <2> QED BY <2>2, <2>3, <2>4 DEF Passed
<1> QED BY <1>1, <1>2, <1>3

-----------------------------------------------------------------------------
(* The limits themselves *)

(* The commit of reserveUpload respects the limits: quotaViolation and
   dropViolation passed with at least the rows that count now.           *)
LEMMA ReserveCommits ==
  ASSUME TypeOK, RowInv, PassedInv, LimitsInv,
         NEW a \in Uploads, pc[a] = "reserve", step[a] = "admitted", Written(a)
  PROVE  LimitsInv'
<1>1. a \notin resv /\ a \notin lapsed /\ Live \ {a} = Live
  BY DEF RowInv, TypeOK, Live
<1>2. Active' = Active /\ Live' = Live \cup {a} /\ opened' = opened
  BY <1>1 DEF Written, Active, Live
<1>3. Room(a, Active, Live, Booking(a))
  <2>1. Incoming(a) = Booking(a)
    BY DEF Incoming
  <2>2. Passed(a)
    BY DEF PassedInv, Actors
  <2> QED BY <1>1, <2>1, <2>2 DEF Passed, Room
<1>4. Active \in SUBSET Uploads /\ Live \in SUBSET Uploads /\ a \in Uploads \ Live
  BY <1>1 DEF TypeOK, Active, Live
<1>5. AllWithin(Active, Live \cup {a})
  BY <1>3, <1>4, AdmitBook DEF LimitsInv
<1> QED BY <1>2, <1>5 DEF LimitsInv

(* ... the commit of finalizeUpload, which replaces the reservation. *)
LEMMA FinalizeCommits ==
  ASSUME TypeOK, PhaseInv, RowInv, PassedInv, LimitsInv,
         NEW a \in Uploads, pc[a] = "finalize", step[a] = "admitted", Written(a)
  PROVE  LimitsInv'
<1>1. a \notin files /\ a \notin expired
  BY DEF RowInv, TypeOK
<1>2. Active' = Active \cup {a} /\ Live' = Live \ {a} /\ opened' = opened
  BY <1>1 DEF Written, Active, Live
<1>3. Room(a, Active, Live \ {a}, Size[a])
  <2>1. Incoming(a) = Size[a]
    BY DEF Incoming
  <2>2. Passed(a)
    BY DEF PassedInv, Actors
  <2> QED BY <2>1, <2>2 DEF Passed, Room
<1>4. /\ Active \in SUBSET Uploads /\ Live \in SUBSET Uploads
      /\ Live \ {a} \in SUBSET Live /\ Live \ {a} \in SUBSET Uploads
      /\ a \in Uploads \ Active
  BY <1>1 DEF TypeOK, Active, Live
<1>5. AllWithin(Active, Live \ {a})
  BY <1>4, WithinMonotone DEF LimitsInv
<1>6. Size[a] <= UploadCap
  <2>1. Size[a] <= Ceiling(a)
    BY DEF PhaseInv, Actors
  <2> QED BY <2>1, BookingBounds, LimitsAssumption, RequestsAssumption
<1>7. AllWithin(Active \cup {a}, Live \ {a})
  BY <1>3, <1>4, <1>5, <1>6, AdmitStore
<1> QED BY <1>2, <1>7 DEF LimitsInv

(* ... and the commit of handleOpenSubmission. *)
LEMMA OpenCommits ==
  ASSUME TypeOK, PassedInv, LimitsInv,
         NEW a \in Submissions, pc[a] = "open", step[a] = "admitted", Written(a)
  PROVE  LimitsInv'
<1>1. Active' = Active /\ Live' = Live /\ opened' = opened \cup {a}
  BY DEF Written, Active, Live
<1>2. ~SubmissionViolation(a, Active, Live, opened)
  BY DEF PassedInv, Passed, Actors
<1>3. /\ Active \in SUBSET Uploads /\ Live \in SUBSET Uploads
      /\ opened \in SUBSET Submissions
  BY DEF TypeOK, Active, Live
<1>4. IsFiniteSet(opened)
  BY <1>3, FS_Subset, RequestsAssumption
<1>5. SubmissionsWithin(opened \cup {a})
  BY <1>2, <1>3, <1>4, OpenAdmits DEF LimitsInv
<1> QED BY <1>1, <1>5 DEF LimitsInv

(* So every step respects them. *)
LEMMA LimitsStep ==
  ASSUME TypeOK, PhaseInv, RowInv, PassedInv, LimitsInv,
         CountsShrink \/ \E a \in Actors : Commits(a)
  PROVE  LimitsInv'
<1>1. CASE CountsShrink
  <2>1. /\ Active' \in SUBSET Active /\ Live' \in SUBSET Live /\ opened' = opened
        /\ Active \in SUBSET Uploads /\ Live \in SUBSET Uploads
    BY <1>1 DEF CountsShrink, Counts, LosesOne, TypeOK, Active, Live
  <2>2. AllWithin(Active', Live')
    BY <2>1, WithinMonotone DEF LimitsInv
  <2> QED BY <2>1, <2>2 DEF LimitsInv
<1>2. CASE \E a \in Actors : Commits(a)
  <2>1. PICK a \in Actors : Commits(a)
    BY <1>2
  <2>2. step[a] = "admitted" /\ Written(a)
    BY <2>1 DEF Commits, Commit, CommitUnacknowledged
  <2>3. pc[a] \in {"reserve", "finalize"} => a \in Uploads
    BY DEF PhaseInv
  <2>4. pc[a] = "open" => a \in Submissions
    BY DEF PhaseInv
  <2>5. pc[a] \in {"reserve", "finalize", "open"}
    BY <2>2 DEF PhaseInv, InTx
  <2> QED BY <2>2, <2>3, <2>4, <2>5, ReserveCommits, FinalizeCommits, OpenCommits
<1> QED BY <1>1, <1>2

-----------------------------------------------------------------------------
(* The theorems *)

(* The inductive invariant holds with no request made. *)
LEMMA InitInvariant == Init => IInv
<1> SUFFICES ASSUME Init PROVE IInv
  OBVIOUS
<1>1. Active = {} /\ Live = {} /\ opened = {}
  BY DEF Init, Active, Live
<1>2. LimitsInv
  BY <1>1, NothingHeld DEF LimitsInv
<1>3. TypeOK
  BY DEF Init, TypeOK, Phases, Steps, Nothing, NoClock
<1>4. PhaseInv /\ LockInv /\ RowInv /\ ClockInv
  BY DEF Init, PhaseInv, LockInv, RowInv, ClockInv, InTx, NoClock, Counting, Actors
<1>5. SnapshotInv /\ PassedInv
  BY DEF Init, SnapshotInv, PassedInv, Passed
<1> QED BY <1>2, <1>3, <1>4, <1>5 DEF IInv

(* ... and every step preserves it. *)
LEMMA NextInvariant == IInv /\ [Next]_vars => IInv'
<1> SUFFICES ASSUME IInv, [Next]_vars PROVE IInv'
  OBVIOUS
<1>1. TypeOK' /\ PhaseInv'
  BY TypeStep, PhaseStep DEF IInv
<1>2. LockInv' /\ RowInv' /\ ClockInv' /\ SnapshotInv'
  BY LockStep, RowStep, ClockStep, SnapshotStep DEF IInv
<1>3. CountsShrink \/ \E a \in Actors : Commits(a)
  BY ShrinkStep DEF IInv
<1>4. \A b \in Actors : ClearedBy(b)
  BY ClearedStep DEF IInv
<1>5. PassedInv'
  BY <1>1, <1>3, <1>4, PassedStep DEF IInv
<1>6. LimitsInv'
  BY <1>3, LimitsStep DEF IInv
<1> QED BY <1>1, <1>2, <1>5, <1>6 DEF IInv

(* The invariant behind everything below. *)
THEOREM Invariant == Spec => []IInv
BY InitInvariant, NextInvariant, PTL DEF Spec

(* Every variable of the upload protocol keeps its type. *)
THEOREM TypeCorrect == Spec => []TypeOK
<1>1. IInv => TypeOK
  BY DEF IInv
<1> QED BY <1>1, Invariant, PTL

(* No interleaving of uploads, releases, expiries, sweeps and crashes takes an
   account over its quota (storage.go, reserveUpload and finalizeUpload).     *)
THEOREM AccountsSafe == Spec => []AccountsRespected
<1>1. IInv => AccountsRespected
  BY DEF IInv, LimitsInv, AllWithin, AccountsRespected
<1> QED BY <1>1, Invariant, PTL

(* ... nor the instance over QUOTA_TOTAL_BYTES. *)
THEOREM InstanceSafe == Spec => []InstanceRespected
<1>1. IInv => InstanceRespected
  BY DEF IInv, LimitsInv, AllWithin, InstanceRespected
<1> QED BY <1>1, Invariant, PTL

(* ... nor a drop or one of its submissions over what its owner set. *)
THEOREM DropsSafe == Spec => []DropsRespected
<1>1. IInv => DropsRespected
  BY DEF IInv, LimitsInv, AllWithin, DropsRespected
<1> QED BY <1>1, Invariant, PTL

(* Senders racing for a drop never open more submissions than it allows. *)
THEOREM SubmissionsSafe == Spec => []SubmissionsRespected
<1>1. IInv => SubmissionsRespected
  BY DEF IInv, LimitsInv, SubmissionsRespected
<1> QED BY <1>1, Invariant, PTL

(* An upload whose reservation is alive at finalizeUpload, and against which
   nothing is counted that has gone, is not refused.                         *)
THEOREM BookingsHonoured == Spec => []BookingHonoured
<1>1. IInv => BookingHonoured
  <2> SUFFICES ASSUME IInv, NEW r \in Uploads, pc[r] = "finalize", r \in Live,
                      seen[r].files \subseteq Active, seen[r].resv \subseteq Live
               PROVE  /\ step[r] = "usage" => ~OverQuota(r)
                      /\ step[r] = "dropUsage" => ~OverDrop(r)
    BY DEF BookingHonoured
  <2>1. /\ Active \in SUBSET Uploads /\ Live \ {r} \in SUBSET Uploads
        /\ r \in Uploads \ (Live \ {r}) /\ (Live \ {r}) \cup {r} = Live
    BY DEF IInv, TypeOK, Active, Live
  <2>2. Size[r] <= Ceiling(r) /\ Size[r] \in Nat
    BY RequestsAssumption DEF IInv, PhaseInv, Actors
  <2>3. Room(r, Active, Live \ {r}, Size[r])
    <3>1. AllWithin(Active, (Live \ {r}) \cup {r})
      BY <2>1 DEF IInv, LimitsInv
    <3> QED BY <2>1, <2>2, <3>1, BookingSuffices
  <2>4. ASSUME step[r] \in {"usage", "dropUsage"}
        PROVE  /\ ~QuotaViolation(r, seen[r].files, seen[r].resv, Size[r])
               /\ InDrop(r) => ~DropViolation(r, seen[r].files, seen[r].resv, Size[r])
    <3>1. seen[r].files \in SUBSET Active /\ seen[r].resv \in SUBSET (Live \ {r})
      BY <2>4 DEF IInv, SnapshotInv, Actors
    <3> QED BY <2>1, <2>2, <2>3, <3>1, RoomMonotone DEF Room
  <2>5. step[r] = "dropUsage" => InDrop(r)
    BY DEF IInv, PhaseInv, Actors
  <2>6. Incoming(r) = Size[r] /\ r \notin Submissions
    BY RequestsAssumption DEF Incoming
  <2> QED BY <2>4, <2>5, <2>6 DEF OverQuota, OverDrop
<1> QED BY <1>1, Invariant, PTL

-----------------------------------------------------------------------------
(* Refinement *)

(* The instance's copy of QuotaRules is QuotaRules. *)
LEMMA SameRules ==
  /\ \A r, F, R, n : Ledger!Room(r, F, R, n) = Room(r, F, R, n)
  /\ \A r : Ledger!Booking(r) = Booking(r)
  /\ \A s, F, R, O : Ledger!SubmissionViolation(s, F, R, O) = SubmissionViolation(s, F, R, O)
<1>0. \A S : Ledger!Cardinality(S) = Cardinality(S)
  BY DEF Cardinality, Ledger!Cardinality
<1>1. \A r : Ledger!Booking(r) = Booking(r)
  BY DEF Booking, Ceiling, InDrop, DropFor,
         Ledger!Booking, Ledger!Ceiling, Ledger!InDrop, Ledger!DropFor
<1>2. \A w, S : Ledger!Bytes(w, S) = Bytes(w, S)
  BY <1>0 DEF Bytes, Ledger!Bytes
<1>3. Ledger!Booked = Booked
  BY <1>1 DEF Booked, Ledger!Booked
<1>4. \A F, R, S : /\ Ledger!BytesHeld(F, R, S) = BytesHeld(F, R, S)
                  /\ Ledger!FilesHeld(F, R, S) = FilesHeld(F, R, S)
  BY <1>0, <1>2, <1>3 DEF BytesHeld, FilesHeld, Ledger!BytesHeld, Ledger!FilesHeld
<1>5. \A limit, n : Ledger!Over(limit, n) = Over(limit, n)
  BY DEF Over, Ledger!Over
<1>6. /\ \A u : Ledger!OwnedBy(u) = OwnedBy(u)
      /\ \A d : Ledger!SentTo(d) = SentTo(d) /\ Ledger!OnDrop(d) = OnDrop(d)
      /\ \A s : Ledger!Within(s) = Within(s)
      /\ \A r : Ledger!InDrop(r) = InDrop(r) /\ Ledger!DropFor(r) = DropFor(r)
  BY DEF OwnedBy, SentTo, OnDrop, Within, InDrop, DropFor, Ledger!OwnedBy, Ledger!SentTo,
         Ledger!OnDrop, Ledger!Within, Ledger!InDrop, Ledger!DropFor
<1>7. \A r, F, R, n : /\ Ledger!QuotaViolation(r, F, R, n) = QuotaViolation(r, F, R, n)
                     /\ Ledger!DropViolation(r, F, R, n) = DropViolation(r, F, R, n)
  BY <1>4, <1>5, <1>6 DEF QuotaViolation, DropViolation,
                          Ledger!QuotaViolation, Ledger!DropViolation
<1>8. \A r, F, R, n : Ledger!Room(r, F, R, n) = Room(r, F, R, n)
  BY <1>6, <1>7 DEF Room, Ledger!Room
<1>9. \A s, F, R, O : Ledger!SubmissionViolation(s, F, R, O) = SubmissionViolation(s, F, R, O)
  BY <1>0, <1>4, <1>5, <1>6 DEF SubmissionViolation, Ledger!SubmissionViolation
<1> QED BY <1>1, <1>8, <1>9

(* The initial states map to the initial state of the ledger. *)
LEMMA LedgerInit == Init => Ledger!Init
BY DEF Init, Ledger!Init, Active, Live

(* Every step is an entry of the ledger or leaves it alone. *)
LEMMA LedgerStep == IInv /\ [Next]_vars => [Ledger!Next]_(Ledger!ledger)
<1> SUFFICES ASSUME IInv, [Next]_vars PROVE Ledger!Next \/ UNCHANGED Ledger!ledger
  OBVIOUS
<1>1. CASE \E a \in Actors : Commits(a)
  <2>1. PICK a \in Actors : Commits(a)
    BY <1>1
  <2>2. step[a] = "admitted" /\ Written(a) /\ pc[a] \in {"reserve", "finalize", "open"}
    BY <2>1 DEF Commits, Commit, CommitUnacknowledged, IInv, PhaseInv, InTx
  <2>3. Passed(a)
    BY DEF IInv, PassedInv
  <2>4. CASE pc[a] = "reserve"
    <3>1. a \in Uploads /\ a \notin resv
      BY <2>4 DEF IInv, PhaseInv, RowInv
    <3>2. Active' = Active /\ Live' = Live \cup {a} /\ opened' = opened
      BY <2>2, <2>4, <3>1 DEF Written, Active, Live, IInv, TypeOK
    <3>3. Room(a, Active, Live \ {a}, Booking(a))
      BY <2>2, <2>3, <2>4, <3>1 DEF Passed, Room, Incoming
    <3> QED BY <3>1, <3>2, <3>3, SameRules DEF Ledger!Next, Ledger!Book
  <2>5. CASE pc[a] = "finalize"
    <3>1. a \in Uploads /\ a \notin files
      BY <2>5 DEF IInv, PhaseInv, RowInv
    <3>2. Active' = Active \cup {a} /\ Live' = Live \ {a} /\ opened' = opened
      BY <2>2, <2>5, <3>1 DEF Written, Active, Live, IInv, TypeOK
    <3>3. Room(a, Active, Live \ {a}, Size[a])
      BY <2>2, <2>3, <2>5, <3>1 DEF Passed, Room, Incoming
    <3> QED BY <3>1, <3>2, <3>3, SameRules DEF Ledger!Next, Ledger!Store
  <2>6. CASE pc[a] = "open"
    <3>1. a \in Submissions
      BY <2>6 DEF IInv, PhaseInv
    <3>2. Active' = Active /\ Live' = Live /\ opened' = opened \cup {a}
      BY <2>2, <2>6 DEF Written, Active, Live
    <3>3. ~SubmissionViolation(a, Active, Live, opened)
      BY <2>2, <2>3, <3>1 DEF Passed
    <3> QED BY <3>1, <3>2, <3>3, SameRules DEF Ledger!Next, Ledger!Open
  <2> QED BY <2>2, <2>4, <2>5, <2>6
<1>2. CASE LosesOne
  BY <1>2 DEF LosesOne, Ledger!Next, Ledger!Retire, Ledger!GiveBack
<1>3. CASE UNCHANGED Counts
  BY <1>3 DEF Counts, Ledger!ledger
<1> QED BY <1>1, <1>2, <1>3, ShrinkStep DEF IInv, CountsShrink

(* The locked, statement-by-statement protocol implements the one-step
   accounting of QuotaLedger.                                           *)
THEOREM Implements == Spec => ImplementsLedger
BY LedgerInit, LedgerStep, Invariant, PTL DEF Spec, ImplementsLedger, Ledger!Spec
=============================================================================
