---------------------------- MODULE MCUploadQuota ----------------------------
(* Small instances of UploadQuota: who uploads what, into what, under which *)
(* limits.  The configurations pick one definition per constant.            *)
EXTENDS UploadQuota, TLC

CONSTANTS r1, r2, r3, s1, s2, alice, d1

NoLimits == [MaxFileBytes |-> 0, MaxTotalBytes |-> 0, MaxFiles |-> 0,
             MaxPerSubmission |-> 0, MaxSubmissions |-> 0]
Unlimited == [bytes |-> 0, files |-> 0]

(* Two uploads into the same submission of alice's drop, and one by alice. *)
MixedOwner == [r \in {r1, r2, r3} |-> alice]
MixedInto == r1 :> s1 @@ r2 :> s1 @@ r3 :> NoSubmission
MixedLength == r1 :> 2 @@ r2 :> 1 @@ r3 :> 0
MixedSize == r1 :> 2 @@ r2 :> 1 @@ r3 :> 1
AliceTwoFiles == alice :> [bytes |-> 0, files |-> 2]
AliceTwoBytesEach == alice :> 2
OneSubmission == s1 :> d1
OneFileDrop == d1 :> [NoLimits EXCEPT !.MaxFiles = 1, !.MaxFileBytes = 2]

(* Two submissions race for a drop that takes a single delivery of a single
   file, and one upload of unknown length into the first of them.           *)
SenderOwner == r1 :> alice
SenderInto == r1 :> s1
SenderLength == r1 :> 0
SenderSize == r1 :> 1
TwoSubmissions == s1 :> d1 @@ s2 :> d1
OneDelivery == d1 :> [NoLimits EXCEPT !.MaxSubmissions = 1, !.MaxFiles = 1]
NoQuota == alice :> Unlimited
=============================================================================
