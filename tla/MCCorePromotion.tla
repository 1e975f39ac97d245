--------------------------- MODULE MCCorePromotion ---------------------------
(* TLC instance of CorePromotion. *)
EXTENDS CorePromotion, TLC

PromotionSymmetry == Permutations(Assets) \cup Permutations(Identities)
==============================================================================
