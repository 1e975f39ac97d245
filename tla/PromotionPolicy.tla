--------------------------- MODULE PromotionPolicy ---------------------------
(***************************************************************************)
(* The rules InMemoryPromotionRepository.apply enforces, as operators on   *)
(* the set S of stored promotion records and the set B of records of one   *)
(* batch.  Both adapters use them: the SQLite one builds an in-memory      *)
(* repository from its rows and applies the batch to it.                   *)
(*                                                                         *)
(* generation_numbers is modelled by its length: promotion copies every    *)
(* generation of a lifecycle identity, and those are numbered 1, 2, 3, ... *)
(* (theorem GenerationsConsecutive), so "prefix" is <=.                     *)
(***************************************************************************)
EXTENDS Integers

CONSTANTS
  Assets,         \* core asset IDs
  Identities,     \* durable lifecycle identity keys
  Signatures,     \* the approved core fields, as _asset_signature compares them
  Objects,        \* identities of the Python Asset objects built for one asset ID
  EvidenceKeys,
  MaxGeneration   \* bound: generations of one identity

ASSUME MaxGenerationAssumption == MaxGeneration \in Nat

CoreAsset == [signature : Signatures, object : Objects]

Record == [asset : Assets, identity : Identities, core : CoreAsset,
           generation : 1 .. MaxGeneration, evidence : SUBSET EvidenceKeys]

\* Bound: a batch holds at most two records.
Batch == {{}} \cup {{r, s} : r, s \in Record}

OneToOne(S) ==
  \A r, s \in S : r.asset = s.asset \/ r.identity = s.identity => r = s

StoredFor(S, a) == {s \in S : s.asset = a}

\* Mutant: only a later generation is accepted.
AdvancesStrictly(s, r) ==
  /\ s.core.signature = r.core.signature
  /\ s.generation < r.generation
  /\ s.evidence \subseteq r.evidence

LinksAgree(S, r) ==
  /\ \A s \in S : s.identity = r.identity => s.asset = r.asset
  /\ \A s \in S : s.asset = r.asset => s.identity = r.identity

\* A stored record only moves forward: same core fields, a longer or equal
\* generation history, no evidence given up.
Advances(s, r) ==
  /\ s.core.signature = r.core.signature
  /\ s.generation <= r.generation
  /\ s.evidence \subseteq r.evidence

Admissible(S, taken, B) ==
  /\ OneToOne(B)
  /\ \A r \in B :
       /\ LinksAgree(S, r)
       /\ \A s \in StoredFor(S, r.asset) : Advances(s, r)
       /\ StoredFor(S, r.asset) = {} => r.asset \notin taken

Status(S, r) ==
  IF StoredFor(S, r.asset) = {} THEN "created"
  ELSE IF \E s \in StoredFor(S, r.asset) : s.generation = r.generation
  THEN "unchanged" ELSE "updated"

\* Mutant: an update brings its own core object along.
KeepNewCore(S, r) == r

\* replace(record, core_asset=existing.core_asset)
KeepCore(S, r) ==
  IF StoredFor(S, r.asset) = {} THEN r
  ELSE [r EXCEPT !.core = (CHOOSE s \in StoredFor(S, r.asset) : TRUE).core]

Changed(S, B) == {r \in B : Status(S, r) # "unchanged"}

Applied(S, B) ==
  {s \in S : \A r \in Changed(S, B) : r.asset # s.asset}
    \cup {KeepCore(S, r) : r \in Changed(S, B)}

\* What a caller has been told is persisted once its batch was applied.
Claims(B) == {<<r.asset, r.identity, r.generation>> : r \in B}

\* What no sequence of applied batches may do to the stored records: drop one,
\* bind its asset to another identity, change its approved core fields, shorten
\* its generation history or give up evidence.
Forward(S, T) ==
  \A s \in S : \E t \in T :
    /\ t.asset = s.asset
    /\ t.identity = s.identity
    /\ t.core.signature = s.core.signature
    /\ s.generation <= t.generation
    /\ s.evidence \subseteq t.evidence
==============================================================================
