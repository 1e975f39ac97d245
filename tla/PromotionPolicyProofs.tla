------------------------ MODULE PromotionPolicyProofs ------------------------
(***************************************************************************)
(* TLAPS proofs that an admissible batch keeps the promotion records one   *)
(* to one and moves them forward, for any records and any batch.           *)
(***************************************************************************)
EXTENDS PromotionPolicy, TLAPS

\* Keeping the stored core object changes no other field of a record.
LEMMA KeepCoreFields ==
  ASSUME NEW S \in SUBSET Record, NEW r \in Record
  PROVE  /\ KeepCore(S, r) \in Record
         /\ KeepCore(S, r).asset = r.asset
         /\ KeepCore(S, r).identity = r.identity
         /\ KeepCore(S, r).generation = r.generation
         /\ KeepCore(S, r).evidence = r.evidence
  <1>1. CASE StoredFor(S, r.asset) = {}
    BY <1>1 DEF KeepCore
  <1>2. CASE StoredFor(S, r.asset) # {}
    <2> DEFINE s == CHOOSE s \in StoredFor(S, r.asset) : TRUE
    <2>1. s \in StoredFor(S, r.asset)
      BY <1>2
    <2>2. s.core \in CoreAsset
      BY <2>1 DEF StoredFor, Record
    <2>3. KeepCore(S, r) = [r EXCEPT !.core = s.core]
      BY <1>2 DEF KeepCore
    <2> HIDE DEF s
    <2> QED
      BY <2>2, <2>3 DEF Record
  <1> QED
    BY <1>1, <1>2

\* An update keeps the very core asset that is stored.
LEMMA KeepCoreStored ==
  ASSUME NEW S \in SUBSET Record, OneToOne(S), NEW r \in Record,
         NEW s \in S, s.asset = r.asset
  PROVE  KeepCore(S, r).core = s.core
  <1>1. StoredFor(S, r.asset) = {s}
    BY DEF StoredFor, OneToOne
  <1>2. (CHOOSE x \in StoredFor(S, r.asset) : TRUE) = s
    BY <1>1
  <1> QED
    BY <1>1, <1>2 DEF KeepCore, Record

\* Applying records to records gives records.
LEMMA AppliedType ==
  ASSUME NEW S \in SUBSET Record, NEW B \in SUBSET Record
  PROVE  Applied(S, B) \subseteq Record
  BY KeepCoreFields DEF Applied, Changed

\* An admissible batch keeps the mapping between assets and identities one to one.
LEMMA AppliedOneToOne ==
  ASSUME NEW S \in SUBSET Record, NEW B \in SUBSET Record, NEW taken,
         OneToOne(S), Admissible(S, taken, B)
  PROVE  OneToOne(Applied(S, B))
  <1> SUFFICES ASSUME NEW x \in Applied(S, B), NEW y \in Applied(S, B),
                      x.asset = y.asset \/ x.identity = y.identity
               PROVE  x = y
    BY DEF OneToOne
  <1>1. \A z \in Applied(S, B) :
          \/ z \in S /\ \A r \in Changed(S, B) : r.asset # z.asset
          \/ \E r \in Changed(S, B) : z = KeepCore(S, r)
    BY DEF Applied
  <1>2. Changed(S, B) \subseteq B
    BY DEF Changed
  <1>3. \A s \in S, r \in B : s.asset = r.asset <=> s.identity = r.identity
    BY DEF Admissible, LinksAgree
  <1>4. ASSUME NEW r \in Changed(S, B), NEW s \in S, \A q \in Changed(S, B) : q.asset # s.asset
        PROVE  KeepCore(S, r).asset # s.asset /\ KeepCore(S, r).identity # s.identity
    BY <1>2, <1>3, <1>4, KeepCoreFields
  <1>5. CASE x \in S /\ (\A r \in Changed(S, B) : r.asset # x.asset)
    BY <1>1, <1>4, <1>5 DEF OneToOne
  <1>6. ASSUME NEW r \in Changed(S, B), x = KeepCore(S, r)
        PROVE  x = y
    <2>1. PICK q \in Changed(S, B) : y = KeepCore(S, q)
      BY <1>1, <1>4, <1>6
    <2>2. r.asset = q.asset \/ r.identity = q.identity
      BY <1>2, <1>6, <2>1, KeepCoreFields
    <2>3. r = q
      BY <1>2, <2>2 DEF Admissible, OneToOne
    <2> QED
      BY <1>6, <2>1, <2>3
  <1> QED
    BY <1>1, <1>5, <1>6

\* An admissible batch drops, rebinds and shortens nothing.
LEMMA AppliedForward ==
  ASSUME NEW S \in SUBSET Record, NEW B \in SUBSET Record, NEW taken,
         OneToOne(S), Admissible(S, taken, B)
  PROVE  Forward(S, Applied(S, B))
  <1> SUFFICES ASSUME NEW s \in S
               PROVE  \E t \in Applied(S, B) :
                        t.asset = s.asset /\ t.identity = s.identity /\ Advances(s, t)
    BY DEF Forward, Advances
  <1>1. CASE \A r \in Changed(S, B) : r.asset # s.asset
    <2>1. s \in Applied(S, B)
      BY <1>1 DEF Applied
    <2>2. s.generation \in Int
      BY MaxGenerationAssumption DEF Record
    <2>3. Advances(s, s)
      BY <2>2 DEF Advances
    <2> QED
      BY <2>1, <2>3
  <1>2. ASSUME NEW r \in Changed(S, B), r.asset = s.asset
        PROVE  \E t \in Applied(S, B) :
                 t.asset = s.asset /\ t.identity = s.identity /\ Advances(s, t)
    <2>1. r \in B /\ r \in Record /\ s \in StoredFor(S, r.asset)
      BY <1>2 DEF Changed, StoredFor
    <2>2. Advances(s, r) /\ r.identity = s.identity
      BY <2>1, <1>2 DEF Admissible, LinksAgree
    <2>3. KeepCore(S, r) \in Applied(S, B)
      BY DEF Applied
    <2>4. KeepCore(S, r).core = s.core
      BY <2>1, <1>2, KeepCoreStored
    <2>5. Advances(s, KeepCore(S, r))
      BY <2>1, <2>2, <2>4, KeepCoreFields DEF Advances
    <2> QED
      BY <1>2, <2>1, <2>2, <2>3, <2>5, KeepCoreFields
  <1> QED
    BY <1>1, <1>2

\* After a batch is applied, each of its records is stored at its generation.
LEMMA AppliedContains ==
  ASSUME NEW S \in SUBSET Record, NEW B \in SUBSET Record, NEW taken,
         OneToOne(S), Admissible(S, taken, B), NEW r \in B
  PROVE  \E t \in Applied(S, B) :
           /\ t.asset = r.asset /\ t.identity = r.identity
           /\ t.generation = r.generation
  <1>1. CASE r \in Changed(S, B)
    BY <1>1, KeepCoreFields DEF Applied
  <1>2. CASE r \notin Changed(S, B)
    <2>1. PICK s \in StoredFor(S, r.asset) : s.generation = r.generation
      BY <1>2 DEF Changed, Status
    <2>2. s \in S /\ s.asset = r.asset /\ s.identity = r.identity
      BY <2>1 DEF StoredFor, Admissible, LinksAgree
    <2>3. \A q \in Changed(S, B) : q.asset # s.asset
      BY <1>2, <2>2 DEF Changed, Admissible, OneToOne
    <2> QED
      BY <2>1, <2>2, <2>3 DEF Applied
  <1> QED
    BY <1>1, <1>2
=============================================================================
