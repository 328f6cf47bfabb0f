--------------------------- MODULE MCShareLifecycle ---------------------------
(* Small instances of ShareLifecycle: which files, in which batch, with which *)
(* limits, and who asks for them.                                             *)
EXTENDS ShareLifecycle, TLC

CONSTANTS f1, f2, b1, d1, d2, d3

(* A batch of one member and two downloads, which three requests race for. *)
RaceBatch == f1 :> b1
RaceLimit == f1 :> 0 @@ b1 :> 2
RaceWants == [d \in {d1, d2, d3} |-> f1]
RaceExpires == {b1}

(* A single share of one download, which may also expire, beside a one-member
   batch of one.                                                           *)
PairBatch == f1 :> NoBatch @@ f2 :> b1
PairLimit == f1 :> 1 @@ f2 :> 0 @@ b1 :> 1
PairWants == d1 :> f1 @@ d2 :> f2
PairExpires == {f1}

(* A batch of two members and one download. *)
BatchBatch == [f \in {f1, f2} |-> b1]
BatchLimit == f1 :> 0 @@ f2 :> 0 @@ b1 :> 1
BatchWants == d1 :> f1 @@ d2 :> f2
BatchExpires == {b1}
=============================================================================
