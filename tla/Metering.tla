------------------------------ MODULE Metering ------------------------------
(***************************************************************************)
(* What metering promises the operator.  Every unit a user sends is        *)
(* pending until it is settled, and it is settled once: charged, or given  *)
(* up.  What was charged or given up is never taken back, and nothing is   *)
(* charged before it was used.                                             *)
(***************************************************************************)
EXTENDS Integers

CONSTANT Users        \* the users that are charged

VARIABLES
  used,               \* of each user: all units sent,
  pending,            \* those not settled yet,
  charged, lost       \* and those charged or given up

vars == <<used, pending, charged, lost>>

Init ==
  /\ used = [u \in Users |-> 0]
  /\ pending = used /\ charged = used /\ lost = used

Use(u) ==
  /\ used' = [used EXCEPT ![u] = @ + 1]
  /\ pending' = [pending EXCEPT ![u] = @ + 1]
  /\ UNCHANGED <<charged, lost>>

(* Some of what is pending, of any number of users, is settled at once. *)
Settle ==
  /\ used' = used
  /\ charged' \in [Users -> Nat] /\ lost' \in [Users -> Nat]
  /\ \A u \in Users : /\ charged'[u] >= charged[u] /\ lost'[u] >= lost[u]
                      /\ charged'[u] + lost'[u] <= used[u]
  /\ pending' = [u \in Users |-> used[u] - (charged'[u] + lost'[u])]

Next == Settle \/ \E u \in Users : Use(u)

Spec == Init /\ [][Next]_vars
=============================================================================
