------------------------------- MODULE ShareLink -------------------------------
(***************************************************************************)
(* What a share link promises the person who sends it: it opens once, it   *)
(* is fetched no more often than its download limit allows and never after *)
(* its expiry, it is retired only once one of the two has ended it or its  *)
(* owner withdrew it, and it never opens again.  No tables, no blobs, no   *)
(* sweeper: ShareLifecycle implements this.                                *)
(***************************************************************************)
EXTENDS Naturals

CONSTANTS
  Links,         \* share links: /files/{id} and /b/{id}
  Withdrawable,  \* links their owner can delete
  Limit          \* link -> download limit, 0 when there is none

VARIABLES
  state,    \* link -> "unborn", "open" or "closed"
  fetched,  \* link -> downloads counted against it
  expired   \* links whose expiry has passed

link == <<state, fetched, expired>>

Exhausted(l) == Limit[l] > 0 /\ fetched[l] >= Limit[l]

Init ==
  /\ state = [l \in Links |-> "unborn"]
  /\ fetched = [l \in Links |-> 0]
  /\ expired = {}

Publish(l) ==
  /\ state[l] = "unborn"
  /\ state' = [state EXCEPT ![l] = "open"]
  /\ UNCHANGED <<fetched, expired>>

Fetch(l) ==
  /\ state[l] = "open"
  /\ l \notin expired
  /\ ~Exhausted(l)
  /\ fetched' = [fetched EXCEPT ![l] = @ + 1]
  /\ UNCHANGED <<state, expired>>

Expire(l) ==
  /\ state[l] = "open"
  /\ expired' = expired \cup {l}
  /\ UNCHANGED <<state, fetched>>

Closing(S) ==
  /\ state' = [l \in Links |-> IF l \in S THEN "closed" ELSE state[l]]
  /\ UNCHANGED <<fetched, expired>>

(* One sweep may retire several links at once ... *)
Retire(S) ==
  /\ \A l \in S : state[l] = "open" /\ (l \in expired \/ Exhausted(l))
  /\ Closing(S)

(* ... and one bulk delete may withdraw several. *)
Withdraw(S) ==
  /\ S \subseteq Withdrawable
  /\ \A l \in S : state[l] # "unborn"
  /\ Closing(S)

Next ==
  \/ \E l \in Links : Publish(l) \/ Fetch(l) \/ Expire(l)
  \/ \E S \in SUBSET Links : Retire(S) \/ Withdraw(S)

Spec == Init /\ [][Next]_link
=============================================================================
