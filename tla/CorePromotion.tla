---------------------------- MODULE CorePromotion ----------------------------
(***************************************************************************)
(* discovery.core_promotion together with the two components it connects:  *)
(* promote_lifecycle_identities turns active identities of a lifecycle     *)
(* ledger into promotion records, and a repository applies them.  The      *)
(* ledger an operator promotes from is a copy taken earlier, while other   *)
(* captures keep advancing the ledger itself.                              *)
(***************************************************************************)
EXTENDS PromotionPolicy, Sequences

CONSTANTS
  MaxTime,    \* bound: observation and promotion times are 0 .. MaxTime
  IllFormed   \* signatures of a plain asset that carry device fields

ASSUME PromotionTimeAssumption == MaxTime \in Nat
ASSUME IllFormedAssumption == IllFormed \subseteq Signatures

Times == 0 .. MaxTime

VARIABLES
  generations,  \* [identity -> its DurableIdentityGenerations, oldest first]
  inactive,     \* inactive_identity_keys
  held,         \* the operator's copy: how many generations of each identity,
  heldInactive, \* and which inactive keys, it contains
  stored        \* the records of the promotion repository

vars == <<generations, inactive, held, heldInactive, stored>>

Generation == [at : Times, overridden : BOOLEAN, evidence : EvidenceKeys]

Request == [identity : Identities, asset : Assets, at : Times, acknowledge : BOOLEAN,
            signature : Signatures, object : Objects]

Init ==
  /\ generations = [i \in Identities |-> <<>>]
  /\ inactive = {}
  /\ held = [i \in Identities |-> 0]
  /\ heldInactive = {}
  /\ stored = {}

(***************************************************************************)
(* The lifecycle, as IdentityLifecycle lets it advance: one more           *)
(* generation of a key that is not inactive, or the transition of an       *)
(* active one.                                                             *)
(***************************************************************************)
Observe(i, g) ==
  /\ i \notin inactive
  /\ Len(generations[i]) < MaxGeneration
  /\ generations' = [generations EXCEPT ![i] = Append(@, g)]
  /\ UNCHANGED <<inactive, held, heldInactive, stored>>

Transition(i) ==
  /\ generations[i] # <<>>
  /\ i \notin inactive
  /\ inactive' = inactive \cup {i}
  /\ UNCHANGED <<generations, held, heldInactive, stored>>

\* The operator's tool reads the current ledger.
TakeCopy ==
  /\ held' = [i \in Identities |-> Len(generations[i])]
  /\ heldInactive' = inactive
  /\ UNCHANGED <<generations, inactive, stored>>

(***************************************************************************)
(* promote_lifecycle_identities, on the held copy.                         *)
(***************************************************************************)
Active == {i \in Identities : held[i] > 0} \ heldInactive

HeldGenerations(i) == {generations[i][n] : n \in 1 .. held[i]}

\* Mutant: an override needs no acknowledgement.
ValidUnacknowledged(q) ==
  /\ \A g \in HeldGenerations(q.identity) : g.at <= q.at
  /\ q.signature \notin IllFormed
_validate_request(q) ==
  /\ \A g \in HeldGenerations(q.identity) : g.at <= q.at
  /\ (\E g \in HeldGenerations(q.identity) : g.overridden) => q.acknowledge
  /\ q.signature \notin IllFormed

\* Requests name active identities, each identity and each asset ID once.
Promotable(R) ==
  /\ \A q \in R : q.identity \in Active /\ _validate_request(q)
  /\ OneToOne(R)

\* Mutant: the record claims every generation of the current ledger.
PromotedAhead(q) ==
  [asset |-> q.asset, identity |-> q.identity,
   core |-> [signature |-> q.signature, object |-> q.object],
   generation |-> MaxGeneration,
   evidence |-> {g.evidence : g \in HeldGenerations(q.identity)},
   promoted_at |-> q.at, acknowledged |-> q.acknowledge]

PromotedRecord(q) ==
  [asset |-> q.asset, identity |-> q.identity,
   core |-> [signature |-> q.signature, object |-> q.object],
   generation |-> held[q.identity],
   evidence |-> {g.evidence : g \in HeldGenerations(q.identity)},
   promoted_at |-> q.at, acknowledged |-> q.acknowledge]

\* persist_promotions(promote_lifecycle_identities(copy, R), repository).  A
\* CorePromotionError or PromotionRepositoryError changes nothing.
Promote(R) ==
  LET B == {PromotedRecord(q) : q \in R}
  IN  /\ Promotable(R)
      /\ Admissible(stored, {}, B)
      /\ stored' = Applied(stored, B)
      /\ UNCHANGED <<generations, inactive, held, heldInactive>>

\* Bound: at most two requests in one operation.
Requests == {{q, r} : q, r \in Request}

Next ==
  \/ \E i \in Identities, g \in Generation : Observe(i, g)
  \/ \E i \in Identities : Transition(i)
  \/ TakeCopy
  \/ \E R \in Requests : Promote(R)

Spec == Init /\ [][Next]_vars

------------------------------------------------------------------------------
(* Correctness *)

PromotionRecord ==
  [asset : Assets, identity : Identities,
   core : [signature : Signatures \ IllFormed, object : Objects],
   generation : 1 .. MaxGeneration, evidence : SUBSET EvidenceKeys,
   promoted_at : Times, acknowledged : BOOLEAN]

\* The generations a stored promotion claims, by number, all exist in the ledger.
Claimed(r) == {generations[r.identity][n] : n \in 1 .. r.generation}

\* A stored promotion refers to a prefix of its identity's generations, retains
\* exactly their evidence and predates none of them: the link
\* DiscoveryStateFileStore re-checks on every load.
PromotionsMatchLedger ==
  \A r \in stored :
    /\ r.generation <= Len(generations[r.identity])
    /\ r.evidence = {g.evidence : g \in Claimed(r)}
    /\ \A g \in Claimed(r) : g.at <= r.promoted_at

\* No promotion conceals a conflict override: if any generation behind a stored
\* asset was accepted over a conflict, its latest promotion acknowledged that.
OverridesAcknowledged ==
  \A r \in stored : (\E g \in Claimed(r) : g.overridden) => r.acknowledged

==============================================================================
