---------------------------- MODULE MCDropLifecycle ----------------------------
(* One drop with one submission of two files, and its owner's delete requests. *)
EXTENDS DropLifecycle, TLC

CONSTANTS d1, s1, f1, f2, o1, o2

OneDropOf == [s \in Submissions |-> d1]
AllInto == [f \in Files |-> s1]
OneTarget == [o \in Deleters |-> d1]
=============================================================================
