------------------------- MODULE MCWeightedRoundRobin -------------------------
(* Three requesters with unequal weights 2, 1, 3. *)
EXTENDS WeightedRoundRobin, TLC

const_weights == 0 :> 2 @@ 1 :> 1 @@ 2 :> 3

================================================================================
