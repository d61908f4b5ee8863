------------------------------ MODULE LockTable ------------------------------
(***************************************************************************)
(* What nocs.jobs promises to everything that moves equipment: each        *)
(* resource (an equipment role) has at most one owner, an owner takes all  *)
(* the resources it asks for in one step or none of them, and a resource   *)
(* changes owner only by becoming free in between.                         *)
(***************************************************************************)
CONSTANTS Resources, Owners, Free

VARIABLE owner

Init == owner = [r \in Resources |-> Free]

\* o takes every resource of R, all of which are free.
Grab(o, R) ==
  /\ \A r \in R : owner[r] = Free
  /\ owner' = [r \in Resources |-> IF r \in R THEN o ELSE owner[r]]

\* o gives back everything it owns.
Drop(o) ==
  owner' = [r \in Resources |-> IF owner[r] = o THEN Free ELSE owner[r]]

Next ==
  \E o \in Owners :
    \/ \E R \in SUBSET Resources : Grab(o, R)
    \/ Drop(o)

Spec == Init /\ [][Next]_owner
=============================================================================
