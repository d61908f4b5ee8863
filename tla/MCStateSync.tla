----------------------------- MODULE MCStateSync -----------------------------
(* A branch of two keys and a key apart; changes that set the branch as one   *)
(* value, one key inside it, and a key inside it and the one apart.           *)
EXTENDS StateSync, TLC

CONSTANTS k1, k2, k3, a

Branch == {k1, k2}
TheBranches == {Branch}

ThePatches ==
  {[body |-> (k1 :> a) @@ (k2 :> None), whole |-> {Branch}],
   [body |-> (k1 :> None) @@ (k3 :> a), whole |-> {}],
   [body |-> k2 :> a, whole |-> {}]}
=============================================================================
