----------------------- MODULE MCDiscoveryStateStore -----------------------
(* TLC instance of DiscoveryStateStore. *)
EXTENDS DiscoveryStateStore, TLC

StoreSymmetry == Permutations(Processes) \cup Permutations(Keys)
============================================================================
