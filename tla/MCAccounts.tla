------------------------------ MODULE MCAccounts ------------------------------
(* An instance older than super-admins with one admin, its first super-admin, an
   account of the identity provider and one that may be created. *)
EXTENDS Accounts, TLC

CONSTANTS root, ann, sam, bob, r1, r2, r3, r4

RequestSymmetry == Permutations(Requests)
=============================================================================
