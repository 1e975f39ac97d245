------------------------- MODULE CorePromotionProofs -------------------------
(***************************************************************************)
(* TLAPS proofs about core promotion: what the repository stores stays     *)
(* matched with a ledger that keeps advancing, for any identities, any     *)
(* number of generations and any interleaving of captures, copies and      *)
(* promotions; and about the in-memory repository, the one that applies    *)
(* promotions within a process: its lookups agree and it implements the    *)
(* repository port.                                                        *)
(***************************************************************************)
EXTENDS CorePromotion, MCInMemoryPromotionRepository, PromotionPolicyProofs

(***************************************************************************)
(* The inductive invariant.  A promotion is built from the operator's      *)
(* copy, so the proof needs that a copy never runs ahead of the ledger     *)
(* (HeldBehind); the rest is typing and the two properties themselves.     *)
(***************************************************************************)
LedgerType ==
  /\ generations \in [Identities -> Seq(Generation)]
  /\ held \in [Identities -> Nat]

HeldBehind ==
  \A i \in Identities :
    held[i] <= Len(generations[i]) /\ Len(generations[i]) <= MaxGeneration

CoreInv ==
  /\ LedgerType
  /\ HeldBehind
  /\ stored \subseteq PromotionRecord
  /\ PromotionsMatchLedger
  /\ OverridesAcknowledged

\* A stored record's claim on the ledger, as one statement about the record.
Matched(r) ==
  /\ r.generation <= Len(generations[r.identity])
  /\ r.evidence = {g.evidence : g \in Claimed(r)}
  /\ \A g \in Claimed(r) : g.at <= r.promoted_at
  /\ (\E g \in Claimed(r) : g.overridden) => r.acknowledged

\* The two properties together say that every stored record is matched.
LEMMA MatchedStored ==
  PromotionsMatchLedger /\ OverridesAcknowledged <=> \A r \in stored : Matched(r)
  BY DEF PromotionsMatchLedger, OverridesAcknowledged, Matched

\* Replacing the core object keeps every other field of a promotion record, and
\* the fields that are kept are all that Matched looks at.
LEMMA KeepCorePromotion ==
  ASSUME NEW S \in SUBSET PromotionRecord, NEW r \in PromotionRecord
  PROVE  /\ KeepCore(S, r) \in PromotionRecord
         /\ KeepCore(S, r).identity = r.identity
         /\ KeepCore(S, r).generation = r.generation
         /\ KeepCore(S, r).evidence = r.evidence
         /\ KeepCore(S, r).promoted_at = r.promoted_at
         /\ KeepCore(S, r).acknowledged = r.acknowledged
  <1>1. CASE StoredFor(S, r.asset) = {}
    BY <1>1 DEF KeepCore
  <1>2. CASE StoredFor(S, r.asset) # {}
    <2> DEFINE s == CHOOSE s \in StoredFor(S, r.asset) : TRUE
    <2>1. s \in StoredFor(S, r.asset)
      BY <1>2
    <2>2. s.core \in [signature : Signatures \ IllFormed, object : Objects]
      BY <2>1 DEF StoredFor, PromotionRecord
    <2>3. KeepCore(S, r) = [r EXCEPT !.core = s.core]
      BY <1>2 DEF KeepCore
    <2> HIDE DEF s
    <2> QED
      BY <2>2, <2>3 DEF PromotionRecord
  <1> QED
    BY <1>1, <1>2

\* What promote_lifecycle_identities builds from a valid request is a well-formed
\* record that is matched with the ledger, although the copy it reads may be old.
LEMMA PromotedRecordMatched ==
  ASSUME CoreInv, NEW q \in Request, q.identity \in Active, _validate_request(q)
  PROVE  PromotedRecord(q) \in PromotionRecord /\ Matched(PromotedRecord(q))
  <1> DEFINE r == PromotedRecord(q)
             i == q.identity
  <1>1. /\ i \in Identities /\ q.at \in Times /\ q.signature \in Signatures \ IllFormed
        /\ q.asset \in Assets /\ q.acknowledge \in BOOLEAN /\ q.object \in Objects
    BY DEF Request, _validate_request
  <1>2. /\ held[i] \in 1 .. Len(generations[i]) /\ held[i] <= MaxGeneration
        /\ generations[i] \in Seq(Generation)
    BY <1>1, MaxGenerationAssumption DEF CoreInv, LedgerType, HeldBehind, Active
  <1>3. \A n \in 1 .. held[i] : generations[i][n] \in Generation
    BY <1>2
  <1>4. r.identity = i /\ r.generation = held[i] /\ r.promoted_at = q.at
        /\ r.acknowledged = q.acknowledge /\ r.asset = q.asset
        /\ r.evidence = {g.evidence : g \in HeldGenerations(i)}
        /\ r.core = [signature |-> q.signature, object |-> q.object]
    BY DEF PromotedRecord
  <1>5. HeldGenerations(i) \subseteq Generation
    BY <1>3 DEF HeldGenerations
  <1>6. r.evidence \subseteq EvidenceKeys
    BY <1>4, <1>5 DEF Generation
  <1>7. r \in PromotionRecord
    <2>1. held[i] \in 1 .. MaxGeneration
      BY <1>2, MaxGenerationAssumption
    <2>2. r = [asset |-> q.asset, identity |-> i,
               core |-> [signature |-> q.signature, object |-> q.object],
               generation |-> held[i], evidence |-> r.evidence,
               promoted_at |-> q.at, acknowledged |-> q.acknowledge]
      BY DEF PromotedRecord
    <2> HIDE DEF r
    <2> QED
      BY <1>1, <1>6, <2>1, <2>2 DEF PromotionRecord
  <1>8. Claimed(r) = HeldGenerations(i)
    BY <1>4 DEF Claimed, HeldGenerations
  <1> HIDE DEF r
  <1>9. Matched(r)
    BY <1>2, <1>4, <1>8 DEF Matched, _validate_request
  <1> QED
    BY <1>7, <1>9 DEF r

\* A record that agrees with a matched one on what Matched looks at is matched.
LEMMA MatchedFields ==
  ASSUME NEW r, NEW s, Matched(r), s.identity = r.identity, s.generation = r.generation,
         s.evidence = r.evidence, s.promoted_at = r.promoted_at,
         s.acknowledged = r.acknowledged
  PROVE  Matched(s)
  BY DEF Matched, Claimed

\* A capture that appends a generation leaves every matched record matched.
LEMMA ObserveKeepsMatched ==
  ASSUME CoreInv, NEW i \in Identities, NEW g \in Generation, Observe(i, g),
         NEW r \in stored
  PROVE  Matched(r)'
  <1>1. Matched(r) /\ r \in PromotionRecord
    BY MatchedStored DEF CoreInv
  <1>2. r.identity \in Identities /\ r.generation \in Nat
    BY <1>1, MaxGenerationAssumption DEF PromotionRecord
  <1>3. /\ Len(generations'[r.identity]) \in Nat
        /\ Len(generations[r.identity]) \in Nat
        /\ Len(generations[r.identity]) <= Len(generations'[r.identity])
        /\ \A n \in 1 .. Len(generations[r.identity]) :
             generations'[r.identity][n] = generations[r.identity][n]
    <2>1. CASE r.identity = i
      <3>1. generations'[i] = Append(generations[i], g) /\ generations[i] \in Seq(Generation)
        BY DEF Observe, CoreInv, LedgerType
      <3> QED
        BY <2>1, <3>1
    <2>2. CASE r.identity # i
      BY <1>2, <2>2 DEF Observe, CoreInv, LedgerType
    <2> QED
      BY <2>1, <2>2
  <1>4. r.generation <= Len(generations[r.identity])
    BY <1>1 DEF Matched
  <1>5. \A n \in 1 .. r.generation :
          generations'[r.identity][n] = generations[r.identity][n]
    BY <1>2, <1>3, <1>4
  <1>6. Claimed(r)' = Claimed(r)
    BY <1>5 DEF Claimed
  <1>7. r.generation <= Len(generations'[r.identity])
    BY <1>2, <1>3, <1>4
  <1> QED
    BY <1>1, <1>6, <1>7 DEF Matched

\* Applying promotions of the held copy stores only matched records.
LEMMA PromoteKeepsMatched ==
  ASSUME CoreInv, NEW R \in Requests, Promote(R)
  PROVE  /\ stored' \subseteq PromotionRecord
         /\ \A r \in stored' : Matched(r)
  <1> DEFINE B == {PromotedRecord(q) : q \in R}
  <1>1. stored' = Applied(stored, B)
    BY DEF Promote
  <1>2. \A q \in R : q \in Request /\ q.identity \in Active /\ _validate_request(q)
    BY DEF Promote, Promotable, Requests
  <1>3. \A b \in B : b \in PromotionRecord /\ Matched(b)
    BY <1>2, PromotedRecordMatched
  <1>4. stored \subseteq PromotionRecord /\ \A r \in stored : Matched(r)
    BY MatchedStored DEF CoreInv
  <1> HIDE DEF B
  <1>5. ASSUME NEW r \in stored'
        PROVE  r \in PromotionRecord /\ Matched(r)
    <2>1. CASE r \in stored
      BY <1>4, <2>1
    <2>2. CASE \E b \in Changed(stored, B) : r = KeepCore(stored, b)
      <3>1. PICK b \in B : r = KeepCore(stored, b)
        BY <2>2 DEF Changed
      <3>2. b \in PromotionRecord /\ Matched(b)
        BY <1>3
      <3> QED
        BY <1>4, <3>1, <3>2, KeepCorePromotion, MatchedFields
    <2> QED
      BY <1>1, <1>5, <2>1, <2>2 DEF Applied
  <1> QED
    BY <1>5

\* Every step keeps the invariant: Observe only appends to the ledger, Transition
\* leaves the histories alone, TakeCopy copies the current lengths, and Promote
\* stores what the copy justifies.
LEMMA CoreInvStep ==
  ASSUME CoreInv, [Next]_vars
  PROVE  CoreInv'
  <1> USE DEF CoreInv
  <1>1. ASSUME NEW i \in Identities, NEW g \in Generation, Observe(i, g)
        PROVE  CoreInv'
    <2>1. generations[i] \in Seq(Generation) /\ Len(generations[i]) < MaxGeneration
      BY <1>1 DEF Observe, LedgerType
    <2>2. LedgerType'
      BY <1>1, <2>1 DEF Observe, LedgerType
    <2>3. Len(generations'[i]) = Len(generations[i]) + 1
          /\ \A j \in Identities \ {i} : generations'[j] = generations[j]
      BY <1>1, <2>1 DEF Observe, LedgerType
    <2>4. HeldBehind'
      <3> SUFFICES ASSUME NEW j \in Identities
                   PROVE  held'[j] <= Len(generations'[j])
                          /\ Len(generations'[j]) <= MaxGeneration
        BY DEF HeldBehind
      <3>1. held'[j] = held[j] /\ held[j] \in Nat
        BY <1>1 DEF Observe, LedgerType
      <3>2. Len(generations[j]) \in Nat /\ held[j] <= Len(generations[j])
            /\ Len(generations[j]) <= MaxGeneration
        BY DEF LedgerType, HeldBehind
      <3>3. CASE j = i
        BY <2>1, <2>3, <3>1, <3>2, <3>3, MaxGenerationAssumption
      <3>4. CASE j # i
        BY <2>3, <3>1, <3>2, <3>4
      <3> QED
        BY <3>3, <3>4
    <2>5. stored' = stored
      BY <1>1 DEF Observe
    <2>6. \A r \in stored : Matched(r)'
      BY <1>1, ObserveKeepsMatched
    <2>7. (PromotionsMatchLedger /\ OverridesAcknowledged)'
      BY <2>5, <2>6 DEF Matched, PromotionsMatchLedger, OverridesAcknowledged
    <2> QED
      BY <2>2, <2>4, <2>5, <2>7
  <1>2. CASE UNCHANGED <<generations, held, stored>>
    <2>1. LedgerType' /\ HeldBehind' /\ stored' = stored
      BY <1>2 DEF LedgerType, HeldBehind
    <2>2. \A r : Claimed(r)' = Claimed(r)
      BY <1>2 DEF Claimed
    <2>3. (PromotionsMatchLedger /\ OverridesAcknowledged)'
      BY <1>2, <2>2 DEF PromotionsMatchLedger, OverridesAcknowledged
    <2> QED
      BY <2>1, <2>3
  <1>3. ASSUME NEW i \in Identities, Transition(i)
        PROVE  CoreInv'
    BY <1>2, <1>3 DEF Transition
  <1>4. CASE TakeCopy
    <2>1. generations' = generations /\ stored' = stored
          /\ held' = [i \in Identities |-> Len(generations[i])]
      BY <1>4 DEF TakeCopy
    <2>2. \A i \in Identities : Len(generations[i]) \in Nat
      BY DEF LedgerType
    <2>3. LedgerType' /\ HeldBehind'
      BY <2>1, <2>2, MaxGenerationAssumption DEF LedgerType, HeldBehind
    <2> QED
      BY <2>1, <2>3 DEF PromotionsMatchLedger, OverridesAcknowledged, Claimed
  <1>5. ASSUME NEW R \in Requests, Promote(R)
        PROVE  CoreInv'
    <2>1. generations' = generations /\ held' = held
      BY <1>5 DEF Promote
    <2>2. stored' \subseteq PromotionRecord /\ \A r \in stored' : Matched(r)
      BY <1>5, PromoteKeepsMatched
    <2>3. \A r : Claimed(r)' = Claimed(r)
      BY <2>1 DEF Claimed
    <2>4. (PromotionsMatchLedger /\ OverridesAcknowledged)'
      BY <2>1, <2>2, <2>3 DEF Matched, PromotionsMatchLedger, OverridesAcknowledged
    <2> QED
      BY <2>1, <2>2, <2>4 DEF LedgerType, HeldBehind
  <1>6. CASE UNCHANGED vars
    BY <1>2, <1>6 DEF vars
  <1> QED
    BY <1>1, <1>3, <1>4, <1>5, <1>6 DEF Next

\* Before the first capture the invariant holds.
LEMMA CoreInvInit == Init => CoreInv
  BY MaxGenerationAssumption
  DEF Init, CoreInv, LedgerType, HeldBehind, PromotionsMatchLedger, OverridesAcknowledged

\* Whatever captures, identity transitions, stale copies and promotions happen in
\* whatever order, each stored promotion refers to a prefix of its identity's
\* generations, holds exactly their evidence and predates none of them: the load
\* of discovery_state_store never refuses what core_promotion stored.
THEOREM PromotionsStayMatched == Spec => []PromotionsMatchLedger
  <1>1. CoreInv /\ [Next]_vars => CoreInv'
    BY CoreInvStep
  <1>2. CoreInv => PromotionsMatchLedger
    BY DEF CoreInv
  <1> QED
    BY <1>1, <1>2, CoreInvInit, PTL DEF Spec

\* No sequence of captures and promotions stores an asset whose generations include
\* a conflict override that its promotion did not acknowledge.
THEOREM OverridesStayAcknowledged == Spec => []OverridesAcknowledged
  <1>1. CoreInv /\ [Next]_vars => CoreInv'
    BY CoreInvStep
  <1>2. CoreInv => OverridesAcknowledged
    BY DEF CoreInv
  <1> QED
    BY <1>1, <1>2, CoreInvInit, PTL DEF Spec

------------------------------------------------------------------------------
(* The in-memory repository *)

\* The rules the repository enforces are the ones of PromotionPolicy.
LEMMA MemoryPolicy ==
  /\ Memory!Record = Record
  /\ Memory!Batch = Batch
  /\ \A S : Memory!OneToOne(S) <=> OneToOne(S)
  /\ \A S, a : Memory!StoredFor(S, a) = StoredFor(S, a)
  /\ \A s, r : Memory!Advances(s, r) <=> Advances(s, r)
  /\ \A S, r : Memory!Status(S, r) = Status(S, r)
  /\ \A S, B : Memory!Changed(S, B) = Changed(S, B)
  /\ \A S, B : Memory!Applied(S, B) = Applied(S, B)
  /\ \A B : Memory!Claims(B) = Claims(B)
  <1>1. Memory!Record = Record
    BY DEF Memory!Record, Record, Memory!CoreAsset, CoreAsset
  <1>2. Memory!Batch = Batch
    BY <1>1 DEF Memory!Batch, Batch
  <1>3. \A S : Memory!OneToOne(S) <=> OneToOne(S)
    BY DEF Memory!OneToOne, OneToOne
  <1>4. \A S, a : Memory!StoredFor(S, a) = StoredFor(S, a)
    BY DEF Memory!StoredFor, StoredFor
  <1>5. \A s, r : Memory!Advances(s, r) <=> Advances(s, r)
    BY DEF Memory!Advances, Advances
  <1>6. \A S, r : Memory!Status(S, r) = Status(S, r)
    BY <1>4 DEF Memory!Status, Status
  <1>7. \A S, B : Memory!Changed(S, B) = Changed(S, B)
    BY <1>6 DEF Memory!Changed, Changed
  <1>8. \A S, r : Memory!KeepCore(S, r) = KeepCore(S, r)
    BY <1>4 DEF Memory!KeepCore, KeepCore
  <1>9. \A S, B : Memory!Applied(S, B) = Applied(S, B)
    BY <1>7, <1>8 DEF Memory!Applied, Applied
  <1>10. \A B : Memory!Claims(B) = Claims(B)
    BY DEF Memory!Claims, Claims
  <1> QED
    BY <1>1, <1>2, <1>3, <1>4, <1>5, <1>6, <1>7, <1>9, <1>10

\* The inductive invariant of the repository: the agreement itself, on records.
MemoryInv ==
  /\ by_asset_id \subseteq Record
  /\ LookupsAgreeWithPlant

\* While the two dictionaries agree, looking an identity up in one and an asset up
\* in the other finds what Admissible asks of the stored records.
LEMMA ValidIsAdmissible ==
  ASSUME MemoryInv, NEW B \in Batch, Memory!_validate_batch(B)
  PROVE  /\ B \subseteq Record
         /\ OneToOne(by_asset_id)
         /\ Admissible(by_asset_id, {}, B)
         /\ Admissible(by_asset_id, Memory!PlantIds, B)
  <1>1. B \subseteq Record
    BY DEF Batch
  <1>2. OneToOne(by_asset_id)
    BY MemoryPolicy DEF MemoryInv, LookupsAgreeWithPlant, Memory!LookupsAgreeWithPlant
  <1>3. asset_id_by_identity = {<<s.identity, s.asset>> : s \in by_asset_id}
    BY DEF MemoryInv, LookupsAgreeWithPlant, Memory!LookupsAgreeWithPlant
  <1>4. OneToOne(B)
    BY MemoryPolicy DEF Memory!_validate_batch
  <1>5. ASSUME NEW r \in B
        PROVE  /\ LinksAgree(by_asset_id, r)
               /\ \A s \in StoredFor(by_asset_id, r.asset) : Advances(s, r)
               /\ StoredFor(by_asset_id, r.asset) = {} => r.asset \notin Memory!PlantIds
    <2>1. /\ \A p \in asset_id_by_identity : p[1] = r.identity => p[2] = r.asset
          /\ \A s \in StoredFor(by_asset_id, r.asset) : s.identity = r.identity /\ Advances(s, r)
          /\ StoredFor(by_asset_id, r.asset) = {} => r.asset \notin Memory!PlantIds
      BY MemoryPolicy DEF Memory!_validate_batch
    <2>2. ASSUME NEW s \in by_asset_id, s.identity = r.identity
          PROVE  s.asset = r.asset
      <3>1. <<s.identity, s.asset>> \in asset_id_by_identity
        BY <1>3
      <3>2. <<s.identity, s.asset>>[1] = r.identity => <<s.identity, s.asset>>[2] = r.asset
        BY <2>1, <3>1
      <3> QED
        BY <2>2, <3>2
    <2> QED
      BY <2>1, <2>2 DEF LinksAgree, StoredFor
  <1> QED
    BY <1>1, <1>2, <1>4, <1>5 DEF Admissible

\* The identity dictionary only gains the links of the changed records, and that
\* keeps it the inverse of the asset dictionary: an update keeps its identity.
LEMMA LinksOfApplied ==
  ASSUME NEW S \in SUBSET Record, NEW B \in SUBSET Record, OneToOne(S), Admissible(S, {}, B)
  PROVE  {<<r.identity, r.asset>> : r \in S}
           \cup {<<r.identity, r.asset>> : r \in Changed(S, B)}
         = {<<r.identity, r.asset>> : r \in Applied(S, B)}
  <1>1. \A r \in Changed(S, B) :
          /\ r \in B /\ r \in Record
          /\ KeepCore(S, r).identity = r.identity /\ KeepCore(S, r).asset = r.asset
          /\ KeepCore(S, r) \in Applied(S, B)
    BY KeepCoreFields DEF Changed, Applied
  <1>2. ASSUME NEW s \in S
        PROVE  \E t \in Applied(S, B) : t.identity = s.identity /\ t.asset = s.asset
    BY AppliedForward DEF Forward
  <1>3. ASSUME NEW t \in Applied(S, B)
        PROVE  t \in S \/ \E r \in Changed(S, B) : t.identity = r.identity /\ t.asset = r.asset
    BY <1>1 DEF Applied
  <1> QED
    BY <1>1, <1>2, <1>3

\* Each stored asset keeps the object it came with: an update keeps the stored core,
\* and only a created asset, which was not stored before, brings its own.
LEMMA OwnedByApplied ==
  ASSUME NEW S \in SUBSET Record, NEW B \in SUBSET Record, OneToOne(S), Admissible(S, {}, B)
  PROVE  LET C == {b \in B : Status(S, b) = "created"}
         IN  /\ Memory!Owned(Applied(S, B)) = Memory!Owned(S) \cup Memory!Owned(C)
             /\ Memory!Owned(S) \cap Memory!Owned(C) = {}
  <1> DEFINE C == {b \in B : Status(S, b) = "created"}
  <1>1. ASSUME NEW r \in C
        PROVE  /\ r \in Changed(S, B) /\ KeepCore(S, r) = r
               /\ \A s \in S : s.asset # r.asset
    BY DEF Changed, Status, KeepCore, StoredFor
  <1>2. ASSUME NEW r \in Changed(S, B), r \notin C
        PROVE  \E s \in S : KeepCore(S, r).core = s.core /\ KeepCore(S, r).asset = s.asset
    <2>1. r \in B /\ r \in Record /\ StoredFor(S, r.asset) # {}
      BY <1>2 DEF Changed, Status
    <2>2. PICK s \in S : s.asset = r.asset
      BY <2>1 DEF StoredFor
    <2>3. KeepCore(S, r).core = s.core /\ KeepCore(S, r).asset = s.asset
      BY <2>1, <2>2, KeepCoreStored, KeepCoreFields
    <2> QED
      BY <2>3
  <1>3. ASSUME NEW s \in S
        PROVE  \E t \in Applied(S, B) : t.core = s.core /\ t.asset = s.asset
    <2>1. CASE \A r \in Changed(S, B) : r.asset # s.asset
      BY <2>1 DEF Applied
    <2>2. ASSUME NEW r \in Changed(S, B), r.asset = s.asset
          PROVE  \E t \in Applied(S, B) : t.core = s.core /\ t.asset = s.asset
      <3>1. r \in Record
        BY DEF Changed
      <3>2. KeepCore(S, r).core = s.core /\ KeepCore(S, r).asset = s.asset
        BY <2>2, <3>1, KeepCoreStored, KeepCoreFields
      <3> QED
        BY <3>2 DEF Applied
    <2> QED
      BY <2>1, <2>2
  <1>4. ASSUME NEW t \in Applied(S, B)
        PROVE  t \in C \/ \E s \in S : t.core = s.core /\ t.asset = s.asset
    BY <1>1, <1>2 DEF Applied
  <1>5. C \subseteq Applied(S, B)
    BY <1>1 DEF Applied
  <1>6. \A r \in C, s \in S : s.asset # r.asset
    BY <1>1
  <1> HIDE DEF C
  <1>7. Memory!Owned(Applied(S, B)) = Memory!Owned(S) \cup Memory!Owned(C)
    BY <1>3, <1>4, <1>5 DEF Memory!Owned
  <1>8. Memory!Owned(S) \cap Memory!Owned(C) = {}
    BY <1>6 DEF Memory!Owned
  <1> QED
    BY <1>7, <1>8 DEF C

\* Applying a valid batch keeps the invariant.
LEMMA ApplyKeepsLookups ==
  ASSUME MemoryInv, NEW B \in Batch, Memory!apply(B)
  PROVE  MemoryInv'
  <1> DEFINE S == by_asset_id
             C == {b \in B : Status(S, b) = "created"}
  <1>1. /\ B \subseteq Record /\ S \subseteq Record /\ OneToOne(S)
        /\ Admissible(S, {}, B) /\ Admissible(S, Memory!PlantIds, B)
    BY ValidIsAdmissible DEF MemoryInv, Memory!apply
  <1>2. /\ by_asset_id' = Applied(S, B)
        /\ asset_id_by_identity' =
             asset_id_by_identity \cup {<<r.identity, r.asset>> : r \in Changed(S, B)}
        /\ plant' = plant \cup Memory!Owned(C)
        /\ added' = added \cup Memory!Owned(C) /\ initial' = initial
    BY MemoryPolicy DEF Memory!apply, Memory!Created
  <1>3. /\ asset_id_by_identity = {<<r.identity, r.asset>> : r \in S}
        /\ Memory!Owned(S) = initial \cup added /\ initial \cap added = {}
        /\ added \subseteq plant
    BY DEF MemoryInv, LookupsAgreeWithPlant, Memory!LookupsAgreeWithPlant
  <1>4. by_asset_id' \subseteq Record /\ OneToOne(by_asset_id')
    BY <1>1, <1>2, AppliedType, AppliedOneToOne
  <1>5. asset_id_by_identity' = {<<r.identity, r.asset>> : r \in by_asset_id'}
    BY <1>1, <1>2, <1>3, LinksOfApplied
  <1>6. /\ Memory!Owned(Applied(S, B)) = Memory!Owned(S) \cup Memory!Owned(C)
        /\ Memory!Owned(S) \cap Memory!Owned(C) = {}
    BY <1>1, OwnedByApplied
  <1> HIDE DEF S, C
  <1>7. Memory!Owned(by_asset_id)' = initial' \cup added'
    BY <1>2, <1>3, <1>6 DEF Memory!Owned
  <1>8. initial' \cap added' = {} /\ added' \subseteq plant'
    BY <1>2, <1>3, <1>6
  <1> QED
    BY <1>4, <1>5, <1>7, <1>8, MemoryPolicy
    DEF MemoryInv, LookupsAgreeWithPlant, Memory!LookupsAgreeWithPlant

\* Every step of the repository, or of the code that shares its plant, keeps it.
LEMMA MemoryInvStep ==
  ASSUME MemoryInv, [Memory!Next]_(Memory!vars)
  PROVE  MemoryInv'
  <1>1. ASSUME NEW B \in Batch, Memory!apply(B)
        PROVE  MemoryInv'
    BY <1>1, ApplyKeepsLookups
  <1>2. CASE UNCHANGED Memory!vars
    BY <1>2 DEF MemoryInv, LookupsAgreeWithPlant, Memory!LookupsAgreeWithPlant, Memory!vars,
       Memory!OneToOne, Memory!Owned
  <1>3. ASSUME NEW a \in Assets, NEW o \in Objects, Memory!AddUnrelatedAsset(a, o)
        PROVE  MemoryInv'
    <2>1. /\ by_asset_id' = by_asset_id /\ asset_id_by_identity' = asset_id_by_identity
          /\ initial' = initial /\ added' = added /\ plant \subseteq plant'
      BY <1>3 DEF Memory!AddUnrelatedAsset
    <2> QED
      BY <2>1 DEF MemoryInv, LookupsAgreeWithPlant, Memory!LookupsAgreeWithPlant,
         Memory!OneToOne, Memory!Owned
  <1> QED
    BY <1>1, <1>2, <1>3, MemoryPolicy DEF Memory!Next, Memory!refuse

\* The records a repository may start from satisfy the invariant.
LEMMA MemoryInvInit == Memory!Init => MemoryInv
  <1>1. Memory!Init => by_asset_id \subseteq Record
    BY MemoryPolicy DEF Memory!Init, Batch
  <1> QED
    BY <1>1 DEF Memory!Init, MemoryInv, LookupsAgreeWithPlant, Memory!LookupsAgreeWithPlant

\* From any initial records, after any creates, updates, refusals and assets other
\* code adds to the plant under any ID, both lookups of the repository agree, every
\* stored asset has the core object it came with, and the plant owns the ones apply
\* created.
THEOREM LookupsStayInAgreement == MemorySpec => []LookupsAgreeWithPlant
  <1>1. MemoryInv /\ [Memory!Next]_(Memory!vars) => MemoryInv'
    BY MemoryInvStep
  <1>2. MemoryInv => LookupsAgreeWithPlant
    BY DEF MemoryInv
  <1> QED
    BY <1>1, <1>2, MemoryInvInit, PTL DEF MemorySpec, Memory!Spec

\* The same behaviours implement the repository port: the records change only by
\* whole admissible batches, and a refused batch or a plant asset changes nothing.
THEOREM InMemoryImplementsPort == MemorySpec => MemoryImplementsPort
  <1>1. Memory!Init => Memory!Port!Init
    <2>1. Memory!Port!Record = Record
      BY DEF Memory!Port!Record, Record, Memory!Port!CoreAsset, CoreAsset
    <2>2. Memory!Init => by_asset_id \subseteq Record
      BY MemoryPolicy DEF Memory!Init, Batch
    <2> QED
      BY <2>1, <2>2 DEF Memory!Init, Memory!Port!Init, Memory!OneToOne, Memory!Port!OneToOne
  <1>2. MemoryInv /\ [Memory!Next]_(Memory!vars)
          => [Memory!Port!Next]_<<by_asset_id, persisted>>
    <2>1. Memory!Port!Batch = Batch
      BY DEF Memory!Port!Batch, Batch, Memory!Port!Record, Record, Memory!Port!CoreAsset, CoreAsset
    <2>2. \A S, a : Memory!Port!StoredFor(S, a) = StoredFor(S, a)
      BY DEF Memory!Port!StoredFor, StoredFor
    <2>3. \A S, B : Memory!Port!Admissible(S, {}, B) <=> Admissible(S, {}, B)
      BY <2>2 DEF Memory!Port!Admissible, Admissible, Memory!Port!OneToOne, OneToOne,
         Memory!Port!LinksAgree, LinksAgree, Memory!Port!Advances, Advances
    <2>4. \A S, r : Memory!Port!Status(S, r) = Status(S, r)
                    /\ Memory!Port!KeepCore(S, r) = KeepCore(S, r)
      BY <2>2 DEF Memory!Port!Status, Status, Memory!Port!KeepCore, KeepCore
    <2>5. \A S, B : Memory!Port!Applied(S, B) = Applied(S, B)
      BY <2>4 DEF Memory!Port!Applied, Applied, Memory!Port!Changed, Changed
    <2>6. \A B : Memory!Port!Claims(B) = Claims(B)
      BY DEF Memory!Port!Claims, Claims
    <2>7. ASSUME MemoryInv, NEW B \in Batch, Memory!apply(B)
          PROVE  Memory!Port!Next
      <3>1. Admissible(by_asset_id, {}, B)
        BY <2>7, ValidIsAdmissible DEF Memory!apply
      <3>2. by_asset_id' = Applied(by_asset_id, B) /\ persisted' = persisted \cup Claims(B)
        BY <2>7, MemoryPolicy DEF Memory!apply
      <3>3. Memory!Port!Apply(B)
        BY <2>3, <2>5, <2>6, <3>1, <3>2 DEF Memory!Port!Apply
      <3> QED
        BY <2>1, <3>3 DEF Memory!Port!Next
    <2>8. CASE UNCHANGED <<by_asset_id, persisted>>
      BY <2>8
    <2>9. Memory!Next \/ UNCHANGED Memory!vars
            => (\E B \in Batch : Memory!apply(B)) \/ UNCHANGED <<by_asset_id, persisted>>
      BY MemoryPolicy DEF Memory!Next, Memory!refuse, Memory!AddUnrelatedAsset, Memory!vars
    <2> QED
      BY <2>7, <2>8, <2>9
  <1>3. MemoryInv /\ [Memory!Next]_(Memory!vars) => MemoryInv'
    BY MemoryInvStep
  <1> QED
    BY <1>1, <1>2, <1>3, MemoryInvInit, PTL
    DEF MemorySpec, Memory!Spec, MemoryImplementsPort, Memory!ImplementsPort, Memory!Port!Spec
==============================================================================
