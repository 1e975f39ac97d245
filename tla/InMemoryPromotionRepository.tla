--------------------- MODULE InMemoryPromotionRepository ---------------------
(***************************************************************************)
(* assembly.promotion_repository.InMemoryPromotionRepository: two          *)
(* dictionaries kept in step, and a Plant that receives the core object of *)
(* every created asset, but not of the records the constructor is given.   *)
(* The plant also gains assets the repository never sees (parsers build    *)
(* plants), which are ID collisions for apply.  The use without a plant is *)
(* the SQLite adapter's, modelled in SqlitePromotionRepository.            *)
(***************************************************************************)
EXTENDS PromotionPolicy

VARIABLES
  by_asset_id,            \* the stored records, one per asset ID
  asset_id_by_identity,   \* <<identity, asset>> pairs
  plant,                  \* <<asset, object>> pairs in plant.assets
  initial,                \* history: <<asset, object>> pairs of initial_records
  added,                  \* history: <<asset, object>> pairs apply gave the plant
  persisted               \* history: what the applied batches claimed

vars == <<by_asset_id, asset_id_by_identity, plant, initial, added, persisted>>

PlantIds == {p[1] : p \in plant}

Owned(S) == {<<r.asset, r.core.object>> : r \in S}

\* __init__ raises when two initial records share an asset or an identity; it
\* does not add them to the plant, nor look whether the plant holds their IDs.
\* A plant that is not empty yet is one AddUnrelatedAsset filled first.
Init ==
  /\ by_asset_id \in Batch /\ OneToOne(by_asset_id)
  /\ asset_id_by_identity = {<<r.identity, r.asset>> : r \in by_asset_id}
  /\ initial = Owned(by_asset_id)
  /\ plant = {} /\ added = {} /\ persisted = {}

(***************************************************************************)
(* Validation looks the identity up in asset_id_by_identity, the asset in  *)
(* by_asset_id, and a new asset ID in the plant.                           *)
(***************************************************************************)
_validate_batch(B) ==
  /\ OneToOne(B)
  /\ \A r \in B :
       /\ \A p \in asset_id_by_identity : p[1] = r.identity => p[2] = r.asset
       /\ \A s \in StoredFor(by_asset_id, r.asset) :
            s.identity = r.identity /\ Advances(s, r)
       /\ StoredFor(by_asset_id, r.asset) = {} => r.asset \notin PlantIds

Created(B) == {r \in B : Status(by_asset_id, r) = "created"}

\* Mutant: records are stored as they are validated, so a refused batch may leave
\* one behind.
ApplyOneByOne(B) ==
  \E ok \in {B} \cup {{r} : r \in B} :
    /\ _validate_batch(ok)
    /\ by_asset_id' = Applied(by_asset_id, ok)
    /\ asset_id_by_identity' = asset_id_by_identity
         \cup {<<r.identity, r.asset>> : r \in Changed(by_asset_id, ok)}
    /\ plant' = plant \cup Owned(Created(ok))
    /\ added' = added \cup Owned(Created(ok))
    /\ persisted' = persisted \cup (IF ok = B THEN Claims(B) ELSE {})
    /\ UNCHANGED initial

apply(B) ==
  /\ _validate_batch(B)
  /\ by_asset_id' = Applied(by_asset_id, B)
  /\ asset_id_by_identity' = asset_id_by_identity
       \cup {<<r.identity, r.asset>> : r \in Changed(by_asset_id, B)}
  /\ plant' = plant \cup Owned(Created(B))
  /\ added' = added \cup Owned(Created(B))
  /\ persisted' = persisted \cup Claims(B)
  /\ UNCHANGED initial

\* PromotionRepositoryError: raised before the first assignment.
refuse(B) ==
  /\ ~_validate_batch(B)
  /\ UNCHANGED vars

\* Plant.add_asset called by other code, for any ID: it appends what it is given.
AddUnrelatedAsset(a, o) ==
  /\ plant' = plant \cup {<<a, o>>}
  /\ UNCHANGED <<by_asset_id, asset_id_by_identity, initial, added, persisted>>

Next ==
  \/ \E B \in Batch : apply(B)
  \/ \E B \in Batch : refuse(B)
  \/ \E a \in Assets, o \in Objects : AddUnrelatedAsset(a, o)

Spec == Init /\ [][Next]_vars

------------------------------------------------------------------------------
(* Correctness *)

\* After any creates, updates and refusals, whatever records the repository started
\* from and whatever other code adds to the plant, the two dictionaries describe the
\* same one-to-one mapping, so both lookups agree; and each stored asset still has
\* the core object it came with: either an initial record's, or one that apply gave
\* to the plant and the plant still holds.  An asset is never in both groups, so an
\* update never adds a second object of the asset to the plant.
LookupsAgreeWithPlant ==
  /\ OneToOne(by_asset_id)
  /\ asset_id_by_identity = {<<r.identity, r.asset>> : r \in by_asset_id}
  /\ Owned(by_asset_id) = initial \cup added
  /\ initial \cap added = {}
  /\ added \subseteq plant

\* The in-memory adapter implements the repository port's atomic apply.
Port == INSTANCE PromotionStore WITH records <- by_asset_id
ImplementsPort == Port!Spec
==============================================================================
