------------------------ MODULE MCIdentityLifecycle ------------------------
(* TLC instance of IdentityLifecycle. *)
EXTENDS IdentityLifecycle, TLC

\* Keys are only compared for equality: the ledger's sort order is not modelled.
KeySymmetry == Permutations(Keys)
============================================================================
