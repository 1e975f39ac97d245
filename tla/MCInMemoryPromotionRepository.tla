------------------- MODULE MCInMemoryPromotionRepository -------------------
(* The in-memory repository as an instance of its own, so that a module     *)
(* about other promotion components can EXTEND this one.                    *)
EXTENDS PromotionPolicy, TLC

VARIABLES by_asset_id, asset_id_by_identity, plant, initial, added, persisted

Memory == INSTANCE InMemoryPromotionRepository
MemorySpec == Memory!Spec

\* The lookups agree, and the plant owns the core objects apply created.
LookupsAgreeWithPlant == Memory!LookupsAgreeWithPlant

\* The in-memory adapter implements the repository port's atomic apply.
MemoryImplementsPort == Memory!ImplementsPort

\* Asset IDs, identities, core fields and objects are only compared for equality.
RepositorySymmetry ==
  Permutations(Assets) \cup Permutations(Identities)
    \cup Permutations(Signatures) \cup Permutations(Objects)
============================================================================
