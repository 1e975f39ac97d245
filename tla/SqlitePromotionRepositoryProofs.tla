------------------- MODULE SqlitePromotionRepositoryProofs -------------------
(***************************************************************************)
(* TLAPS proofs about the SQLite adapter, for any number of writers and    *)
(* any batches: it implements the repository port, and what was persisted  *)
(* stays persisted.                                                        *)
(***************************************************************************)
EXTENDS SqlitePromotionRepository, PromotionPolicyProofs

\* A writer is inside a transaction exactly while it holds the lock.
LockHeld == \A w \in Writers : pc[w] \in InTransaction <=> lock = w

\* What a transaction has written is its batch applied to the committed state.
RowsAreApplied ==
  \A w \in Writers : pc[w] = "written" =>
    Admissible(db, {}, batch[w]) /\ rows[w] = Applied(db, batch[w])

IInv ==
  /\ TypeOK
  /\ LockHeld
  /\ TransactionReadsLatest
  /\ RowsAreApplied
  /\ OneToOne(db)
  /\ PersistedPromotionsSurvive

-----------------------------------------------------------------------------
LEMMA BatchRecords == ASSUME TypeOK, NEW w \in Writers
                      PROVE  batch[w] \in Batch /\ batch[w] \subseteq Record
  <1>1. batch[w] \in Batch
    BY InputsAssumption DEF TypeOK, Batch
  <1> QED
    BY <1>1 DEF Batch

\* Upserting everything the batch left adds nothing to it.
LEMMA UpsertApplied ==
  ASSUME NEW S \in SUBSET Record, NEW T \in SUBSET Record, Forward(S, T)
  PROVE  Upsert(S, T) = T
  BY DEF Upsert, Forward

LEMMA InitIInv == Init => IInv
  <1> SUFFICES ASSUME Init PROVE IInv
    OBVIOUS
  <1>1. TypeOK
    BY DEF Init, TypeOK, Places
  <1>2. LockHeld
    BY NobodyAssumption DEF Init, LockHeld, InTransaction
  <1> QED
    BY <1>1, <1>2 DEF Init, IInv, TransactionReadsLatest, RowsAreApplied, OneToOne,
       PersistedPromotionsSurvive

\* The committed rows change only in Commit, and there by one admissible batch.
LEMMA CommitApplies ==
  ASSUME IInv, NEW w \in Writers, Commit(w)
  PROVE  /\ batch[w] \in Batch
         /\ Admissible(db, {}, batch[w])
         /\ db' = Applied(db, batch[w])
         /\ db' \subseteq Record
         /\ OneToOne(db')
         /\ Forward(db, db')
  <1>1. TypeOK /\ OneToOne(db) /\ db \subseteq Record
    BY DEF IInv, TypeOK
  <1>2. batch[w] \in Batch /\ batch[w] \subseteq Record
    BY <1>1, BatchRecords
  <1>3. Admissible(db, {}, batch[w]) /\ rows[w] = Applied(db, batch[w])
    BY DEF IInv, RowsAreApplied, Commit, Goto
  <1>4. rows[w] \subseteq Record
    BY <1>1, <1>2, <1>3, AppliedType
  <1>5. Forward(db, rows[w]) /\ OneToOne(rows[w])
    BY <1>1, <1>2, <1>3, AppliedForward, AppliedOneToOne
  <1>6. db' = rows[w]
    BY <1>1, <1>4, <1>5, UpsertApplied DEF Commit
  <1> QED
    BY <1>2, <1>3, <1>4, <1>5, <1>6

\* Moving forward keeps every persisted promotion.
LEMMA SurvivesForward ==
  ASSUME NEW S \in SUBSET Record, NEW T \in SUBSET Record, Forward(S, T),
         NEW r \in Record, NEW s \in S,
         s.asset = r.asset, s.identity = r.identity, s.generation >= r.generation
  PROVE  \E t \in T : t.asset = r.asset /\ t.identity = r.identity /\ t.generation >= r.generation
  <1>1. PICK t \in T : t.asset = s.asset /\ t.identity = s.identity /\ s.generation <= t.generation
    BY DEF Forward
  <1>2. s.generation \in Int /\ t.generation \in Int /\ r.generation \in Int
    BY MaxGenerationAssumption DEF Record
  <1> QED
    BY <1>1, <1>2

LEMMA CommitStep ==
  ASSUME IInv, NEW w \in Writers, Commit(w)
  PROVE  IInv'
  <1> USE DEF Commit, Goto, EndTransaction
  <1>1. TypeOK /\ LockHeld /\ db \subseteq Record /\ persisted \subseteq Record
    BY DEF IInv, TypeOK
  <1>2. /\ batch[w] \subseteq Record
        /\ Admissible(db, {}, batch[w]) /\ db' = Applied(db, batch[w])
        /\ db' \subseteq Record /\ OneToOne(db') /\ Forward(db, db')
    BY <1>1, BatchRecords, CommitApplies
  <1>3. pc'[w] = "committed" /\ \A v \in Writers : v # w => pc'[v] = pc[v]
    BY <1>1 DEF TypeOK
  <1>4. lock = w /\ \A v \in Writers : v # w => pc[v] \notin InTransaction
    BY <1>1 DEF LockHeld, InTransaction
  <1>5. TypeOK'
    BY <1>1, <1>2 DEF TypeOK, Places
  <1>6. LockHeld'
    BY <1>3, <1>4, NobodyAssumption DEF LockHeld, InTransaction
  <1>7. TransactionReadsLatest' /\ RowsAreApplied'
    BY <1>3, <1>4 DEF TransactionReadsLatest, RowsAreApplied, InTransaction
  <1>8. PersistedPromotionsSurvive'
    <2> SUFFICES ASSUME NEW r \in persisted \cup batch[w]
                 PROVE  \E s \in db' : s.asset = r.asset /\ s.identity = r.identity
                                        /\ s.generation >= r.generation
      BY DEF PersistedPromotionsSurvive
    <2>1. CASE r \in persisted
      <3>1. PICK s \in db : s.asset = r.asset /\ s.identity = r.identity
                            /\ s.generation >= r.generation
        BY <2>1 DEF IInv, PersistedPromotionsSurvive
      <3> QED
        BY <1>1, <1>2, <2>1, <3>1, SurvivesForward
    <2>2. CASE r \in batch[w]
      <3>1. OneToOne(db)
        BY DEF IInv
      <3>2. PICK t \in Applied(db, batch[w]) :
              t.asset = r.asset /\ t.identity = r.identity /\ t.generation = r.generation
        BY <1>1, <1>2, <2>2, <3>1, AppliedContains
      <3>3. r.generation \in Int
        BY <1>2, <2>2, MaxGenerationAssumption DEF Record
      <3> QED
        BY <1>2, <3>2, <3>3
    <2> QED
      BY <2>1, <2>2
  <1> QED
    BY <1>2, <1>5, <1>6, <1>7, <1>8 DEF IInv

\* Steps that leave the rows, the lock and every transaction alone.
LEMMA OutsideStep ==
  ASSUME IInv, NEW w \in Writers, UNCHANGED <<db, lock, loaded, rows, persisted>>,
         pc[w] \notin InTransaction, NEW p \in Places \ InTransaction,
         pc' = [pc EXCEPT ![w] = p],
         NEW B \in Inputs \cup {{}},
         batch' = batch \/ batch' = [batch EXCEPT ![w] = B]
  PROVE  IInv'
  <1>1. TypeOK'
    BY DEF IInv, TypeOK
  <1>2. pc'[w] = p /\ \A v \in Writers : v # w => pc'[v] = pc[v] /\ batch'[v] = batch[v]
    BY DEF IInv, TypeOK
  <1> QED
    BY <1>1, <1>2 DEF IInv, LockHeld, TransactionReadsLatest, RowsAreApplied, InTransaction,
       PersistedPromotionsSurvive

\* Rolling back, for whatever reason, only gives up the writer's own transaction.
LEMMA RollbackStep ==
  ASSUME IInv, NEW w \in Writers, EndTransaction(w), UNCHANGED <<db, batch, persisted>>,
         NEW p \in Places \ InTransaction, pc' = [pc EXCEPT ![w] = p]
  PROVE  IInv'
  <1> USE DEF EndTransaction
  <1>1. TypeOK'
    BY DEF IInv, TypeOK
  <1>2. pc'[w] = p /\ \A v \in Writers : v # w => pc'[v] = pc[v] /\ rows'[v] = rows[v]
                                                  /\ loaded'[v] = loaded[v]
    BY DEF IInv, TypeOK
  <1>3. LockHeld'
    BY <1>2, NobodyAssumption DEF IInv, LockHeld
  <1> QED
    BY <1>1, <1>2, <1>3 DEF IInv, TransactionReadsLatest, RowsAreApplied, InTransaction,
       PersistedPromotionsSurvive

LEMMA NextIInv == IInv /\ [Next]_vars => IInv'
  <1> SUFFICES ASSUME IInv, [Next]_vars PROVE IInv'
    OBVIOUS
  <1>1. CASE UNCHANGED vars
    BY <1>1 DEF vars, IInv, TypeOK, LockHeld, TransactionReadsLatest, RowsAreApplied,
       PersistedPromotionsSurvive
  <1>2. ASSUME NEW w \in Writers, Step(w)
        PROVE  IInv'
    <2> USE DEF Goto
    <2>1. TypeOK
      BY DEF IInv
    <2>2. ASSUME NEW B \in Inputs, Submit(w, B) PROVE IInv'
      BY <2>2, OutsideStep DEF Submit, Places, InTransaction
    <2>3. CASE Begin(w)
      <3>1. pc'[w] = "locked" /\ \A v \in Writers : v # w => pc'[v] = pc[v]
        BY <2>1, <2>3 DEF Begin, TypeOK
      <3>2. TypeOK'
        BY <2>1, <2>3 DEF Begin, TypeOK, Places, InTransaction
      <3>3. LockHeld'
        BY <2>3, <3>1, NobodyAssumption DEF Begin, IInv, LockHeld, InTransaction
      <3> QED
        BY <2>3, <3>1, <3>2, <3>3 DEF Begin, IInv, TransactionReadsLatest, RowsAreApplied,
           PersistedPromotionsSurvive
    <2>4. CASE LockTimeout(w)
      BY <2>4, OutsideStep DEF LockTimeout, Places, InTransaction
    <2>5. CASE Load(w)
      <3>1. /\ pc'[w] = "loaded" /\ loaded'[w] = db
            /\ \A v \in Writers : v # w => pc'[v] = pc[v] /\ loaded'[v] = loaded[v]
        BY <2>1, <2>5 DEF Load, TypeOK
      <3>2. TypeOK'
        BY <2>1, <2>5 DEF Load, TypeOK, Places, InTransaction
      <3> QED
        BY <2>5, <3>1, <3>2 DEF Load, IInv, LockHeld, TransactionReadsLatest, RowsAreApplied,
           InTransaction, PersistedPromotionsSurvive
    <2>6. CASE Write(w)
      <3>1. /\ pc'[w] = "written" /\ rows'[w] = Applied(loaded[w], batch[w])
            /\ \A v \in Writers : v # w => pc'[v] = pc[v] /\ rows'[v] = rows[v]
        BY <2>1, <2>6 DEF Write, TypeOK
      <3>2. loaded[w] = db /\ Admissible(loaded[w], {}, batch[w])
        BY <2>6 DEF Write, IInv, TransactionReadsLatest
      <3>3. Applied(loaded[w], batch[w]) \subseteq Record
        BY <2>1, <3>2, BatchRecords, AppliedType DEF TypeOK
      <3>4. TypeOK'
        BY <2>1, <2>6, <3>3 DEF Write, TypeOK, Places, InTransaction
      <3> QED
        BY <2>6, <3>1, <3>2, <3>4 DEF Write, IInv, LockHeld, TransactionReadsLatest,
           RowsAreApplied, InTransaction, PersistedPromotionsSurvive
    <2>7. CASE Refuse(w)
      BY <2>7, RollbackStep DEF Refuse, Places, InTransaction
    <2>8. CASE Commit(w)
      BY <2>8, CommitStep
    <2>9. CASE DatabaseError(w)
      BY <2>9, RollbackStep DEF DatabaseError, Places, InTransaction
    <2>10. CASE Reply(w)
      BY <2>10, OutsideStep DEF Reply, Places, InTransaction
    <2>11. CASE Crash(w)
      BY <2>11, RollbackStep DEF Crash, Places, InTransaction
    <2>12. CASE Retry(w)
      BY <2>12, OutsideStep DEF Retry, Places, InTransaction
    <2>13. CASE Finish(w)
      BY <2>13, OutsideStep DEF Finish, Places, InTransaction
    <2> QED
      BY <1>2, <2>2, <2>3, <2>4, <2>5, <2>6, <2>7, <2>8, <2>9, <2>10, <2>11, <2>12, <2>13
      DEF Step
  <1> QED
    BY <1>1, <1>2 DEF Next

THEOREM SpecIInv == Spec => []IInv
  BY InitIInv, NextIInv, PTL DEF Spec

-----------------------------------------------------------------------------
(* The properties of the adapter *)

\* Every behaviour keeps the types of the rows, the lock and the running calls.
THEOREM TypeCorrect == Spec => []TypeOK
  <1>1. IInv => TypeOK
    BY DEF IInv
  <1> QED
    BY SpecIInv, <1>1, PTL

\* BEGIN IMMEDIATE makes what a transaction read stay true until it commits.
THEOREM ReadsStayLatest == Spec => []TransactionReadsLatest
  <1>1. IInv => TransactionReadsLatest
    BY DEF IInv
  <1> QED
    BY SpecIInv, <1>1, PTL

\* A persisted promotion survives every failure, crash, retry and other writer.
THEOREM PromotionsSurvive == Spec => []PersistedPromotionsSurvive
  <1>1. IInv => PersistedPromotionsSurvive
    BY DEF IInv
  <1> QED
    BY SpecIInv, <1>1, PTL

\* A step changes the rows only by committing an admissible batch.
LEMMA RowsChangeByCommit ==
  IInv /\ [Next]_vars => UNCHANGED <<db, persisted>> \/ \E w \in Writers : Commit(w)
  BY DEF Next, Step, Submit, Begin, LockTimeout, Load, Write, Refuse, DatabaseError, Reply,
     Crash, Retry, Finish, vars

\* No committed promotion is ever dropped, rebound, altered or shortened.
THEOREM HistoryForward == Spec => HistoryMovesForward
  <1>1. IInv /\ [Next]_vars => [Forward(db, db')]_db
    BY RowsChangeByCommit, CommitApplies
  <1> QED
    BY SpecIInv, <1>1, PTL DEF Spec, HistoryMovesForward

\* The adapter implements the atomic repository port, whatever its writers do.
THEOREM SqliteImplementsPort == Spec => ImplementsPort
  <1>1. Init => Port!Init
    BY DEF Init, Port!Init, Port!OneToOne, Claims
  <1>2. IInv /\ [Next]_vars => [Port!Next]_<<db, Claims(persisted)>>
    <2>1. Port!Batch = Batch
      BY DEF Port!Batch, Batch, Port!Record, Record, Port!CoreAsset, CoreAsset
    <2>2. \A B : Port!Admissible(db, {}, B) <=> Admissible(db, {}, B)
      BY DEF Port!Admissible, Admissible, Port!OneToOne, OneToOne, Port!LinksAgree, LinksAgree,
         Port!StoredFor, StoredFor, Port!Advances, Advances
    <2>3. \A r : Port!Status(db, r) = Status(db, r)
      BY DEF Port!Status, Status, Port!StoredFor, StoredFor
    <2>4. \A r : Port!KeepCore(db, r) = KeepCore(db, r)
      BY DEF Port!KeepCore, KeepCore, Port!StoredFor, StoredFor
    <2>5. \A B : Port!Applied(db, B) = Applied(db, B)
      BY <2>3, <2>4 DEF Port!Applied, Applied, Port!Changed, Changed
    <2> QED
      <3>1. CASE UNCHANGED <<db, persisted>>
        BY <3>1 DEF Claims
      <3>2. ASSUME NEW w \in Writers, Commit(w), IInv
            PROVE  Port!Next
        <4>1. Port!Claims(batch[w]) = Claims(batch[w])
          BY DEF Port!Claims, Claims
        <4>2. Claims(persisted)' = Claims(persisted) \cup Claims(batch[w])
          BY <3>2 DEF Claims, Commit
        <4> QED
          BY <3>2, <4>1, <4>2, CommitApplies, <2>1, <2>2, <2>5 DEF Port!Next, Port!Apply
      <3> QED
        BY RowsChangeByCommit, <3>1, <3>2
  <1> QED
    BY SpecIInv, <1>1, <1>2, PTL DEF Spec, ImplementsPort, Port!Spec
(***************************************************************************)
(* Replaying.  A persisted record stays covered: the row of its asset has  *)
(* gone on to a later generation, or is still at this one with the same    *)
(* core fields and no evidence the record lacks.  PersistedPromotionsSurvive *)
(* alone says nothing of the evidence, which Advances compares.            *)
(***************************************************************************)
Covers(s, r) ==
  /\ s.asset = r.asset
  /\ s.identity = r.identity
  /\ s.core.signature = r.core.signature
  /\ \/ s.generation > r.generation
     \/ s.generation = r.generation /\ s.evidence \subseteq r.evidence

PersistedCovered == \A r \in persisted : \E s \in db : Covers(s, r)

\* An applied batch has its own records covered, and keeps covered what was.
LEMMA AppliedCovers ==
  ASSUME NEW S \in SUBSET Record, NEW B \in SUBSET Record, OneToOne(S),
         Admissible(S, {}, B), NEW r \in Record,
         r \in B \/ \E s \in S : Covers(s, r)
  PROVE  \E t \in Applied(S, B) : Covers(t, r)
  <1>1. \A q \in Record : q.generation \in Int
    BY MaxGenerationAssumption DEF Record
  <1>2. ASSUME NEW b \in Changed(S, B)
        PROVE  /\ KeepCore(S, b) \in Applied(S, B) /\ b \in B /\ b \in Record
               /\ KeepCore(S, b).core.signature = b.core.signature
    <2>1. KeepCore(S, b) \in Applied(S, B) /\ b \in B /\ b \in Record
      BY DEF Applied, Changed
    <2>2. CASE StoredFor(S, b.asset) = {}
      BY <2>1, <2>2 DEF KeepCore
    <2>3. ASSUME NEW s \in StoredFor(S, b.asset)
          PROVE  KeepCore(S, b).core.signature = b.core.signature
      <3>1. s \in S /\ s.asset = b.asset /\ Advances(s, b)
        BY <2>1 DEF StoredFor, Admissible
      <3>2. KeepCore(S, b).core = s.core
        BY <2>1, <3>1, KeepCoreStored
      <3> QED
        BY <3>1, <3>2 DEF Advances
    <2> QED
      BY <2>1, <2>2, <2>3
  <1>3. CASE r \in Changed(S, B)
    <2>1. Covers(KeepCore(S, r), r)
      BY <1>2, <1>3, KeepCoreFields DEF Covers
    <2> QED
      BY <1>2, <1>3, <2>1
  <1>4. ASSUME NEW s \in S, Covers(s, r), r \notin Changed(S, B)
        PROVE  \E t \in Applied(S, B) : Covers(t, r)
    <2>1. CASE \A b \in Changed(S, B) : b.asset # s.asset
      BY <1>4, <2>1 DEF Applied
    <2>2. ASSUME NEW b \in Changed(S, B), b.asset = s.asset
          PROVE  Covers(KeepCore(S, b), r)
      <3>1. s \in StoredFor(S, b.asset) /\ Status(S, b) # "unchanged" /\ b \in B
        BY <2>2 DEF StoredFor, Changed
      <3>2. s.generation # b.generation
        BY <3>1 DEF Status
      <3>3. Advances(s, b) /\ s.identity = b.identity
        BY <2>2, <3>1 DEF Admissible, LinksAgree
      <3>4. b.generation > s.generation
        BY <1>1, <3>1, <3>2, <3>3 DEF Advances
      <3>5. b.generation > r.generation
        BY <1>1, <1>4, <3>1, <3>4 DEF Covers
      <3>6. /\ KeepCore(S, b).asset = b.asset /\ KeepCore(S, b).identity = b.identity
            /\ KeepCore(S, b).generation = b.generation
            /\ KeepCore(S, b).core.signature = b.core.signature
        BY <1>2, <3>1, KeepCoreFields
      <3> QED
        BY <1>4, <2>2, <3>3, <3>5, <3>6 DEF Covers, Advances
    <2> QED
      BY <1>2, <2>1, <2>2
  <1>5. CASE r \in B /\ r \notin Changed(S, B)
    <2>1. PICK s \in StoredFor(S, r.asset) : s.generation = r.generation
      BY <1>5 DEF Changed, Status
    <2>2. s \in S /\ s.asset = r.asset /\ s.identity = r.identity /\ Advances(s, r)
      BY <1>5, <2>1 DEF StoredFor, Admissible, LinksAgree
    <2>3. Covers(s, r)
      BY <2>1, <2>2 DEF Covers, Advances
    <2> QED
      BY <1>4, <1>5, <2>2, <2>3
  <1> QED
    BY <1>3, <1>4, <1>5

\* A record whose row covers it at its own generation is accepted and adds nothing.
LEMMA CoveredReplay ==
  ASSUME NEW S \in SUBSET Record, OneToOne(S), NEW r \in Record,
         NEW s \in S, Covers(s, r), s.generation = r.generation
  PROVE  Admissible(S, {}, {r}) /\ Applied(S, {r}) = S
  <1>1. StoredFor(S, r.asset) = {s}
    BY DEF StoredFor, OneToOne, Covers
  <1>2. s.generation \in Int
    BY MaxGenerationAssumption DEF Record
  <1>3. Advances(s, r) /\ LinksAgree(S, r)
    BY <1>2 DEF Advances, LinksAgree, OneToOne, Covers
  <1>4. Admissible(S, {}, {r})
    BY <1>1, <1>3 DEF Admissible, OneToOne
  <1>5. Status(S, r) = "unchanged"
    BY <1>1 DEF Status
  <1>6. Changed(S, {r}) = {}
    BY <1>5 DEF Changed
  <1> QED
    BY <1>4, <1>6 DEF Applied

\* A caller that lost its reply may replay: each record of its batch is accepted
\* without changing a row, unless another caller has taken the asset further.
THEOREM ReplaysAreHarmless == Spec => []ReplayIsHarmless
  <1>1. Init => PersistedCovered
    BY DEF Init, PersistedCovered
  <1>2. IInv /\ PersistedCovered /\ [Next]_vars => PersistedCovered'
    <2>1. ASSUME NEW w \in Writers, Commit(w), IInv, PersistedCovered
          PROVE  PersistedCovered'
      <3>1. TypeOK /\ OneToOne(db) /\ db \subseteq Record /\ persisted \subseteq Record
        BY <2>1 DEF IInv, TypeOK
      <3>2. batch[w] \subseteq Record /\ Admissible(db, {}, batch[w])
            /\ db' = Applied(db, batch[w])
        BY <2>1, <3>1, BatchRecords, CommitApplies
      <3>3. persisted' = persisted \cup batch[w]
        BY <2>1 DEF Commit
      <3>4. ASSUME NEW r \in persisted'
            PROVE  \E t \in Applied(db, batch[w]) : Covers(t, r)
        <4>1. r \in Record /\ (r \in batch[w] \/ \E s \in db : Covers(s, r))
          BY <2>1, <3>1, <3>2, <3>3 DEF PersistedCovered
        <4> QED
          BY <3>1, <3>2, <4>1, AppliedCovers
      <3> QED
        BY <3>2, <3>4 DEF PersistedCovered
    <2>2. CASE UNCHANGED <<db, persisted>>
      BY <2>2 DEF PersistedCovered
    <2> QED
      BY <2>1, <2>2, RowsChangeByCommit
  <1>3. IInv /\ PersistedCovered => ReplayIsHarmless
    <2> SUFFICES ASSUME IInv, PersistedCovered, NEW r \in persisted
                 PROVE  \/ \E s \in db : s.asset = r.asset /\ s.generation > r.generation
                        \/ Admissible(db, {}, {r}) /\ Applied(db, {r}) = db
      BY DEF ReplayIsHarmless
    <2>1. OneToOne(db) /\ db \subseteq Record /\ r \in Record
      BY DEF IInv, TypeOK
    <2>2. PICK s \in db : Covers(s, r)
      BY DEF PersistedCovered
    <2>3. CASE s.generation = r.generation
      BY <2>1, <2>2, <2>3, CoveredReplay
    <2> QED
      BY <2>2, <2>3 DEF Covers
  <1> QED
    BY SpecIInv, <1>1, <1>2, <1>3, PTL DEF Spec
=============================================================================
