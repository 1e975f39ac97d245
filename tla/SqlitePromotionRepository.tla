---------------------- MODULE SqlitePromotionRepository ----------------------
(***************************************************************************)
(* assembly.sqlite_promotion_repository: processes share one database file *)
(* and apply batches in BEGIN IMMEDIATE transactions.  A call of apply is  *)
(* Submit, Begin, Load, Write, Commit, Reply; it can instead time out on   *)
(* the write lock, be refused by the promotion policy, fail with a         *)
(* database error, or die with its process at any point.  A caller whose   *)
(* call failed or whose process died may retry the whole batch.            *)
(*                                                                         *)
(* SQLite itself is external: the reserved lock admits one writer, an      *)
(* uncommitted transaction is invisible to others and vanishes when its    *)
(* connection rolls back or dies.                                          *)
(***************************************************************************)
EXTENDS PromotionPolicy

CONSTANTS
  Writers,   \* processes or application instances
  Nobody,    \* the value of lock when no transaction holds the reservation
  Inputs     \* bound: the batches that callers submit

ASSUME NobodyAssumption == Nobody \notin Writers
ASSUME InputsAssumption == Inputs \subseteq Batch

VARIABLES
  db,      \* the committed rows of table promotion
  lock,    \* the writer that holds the reserved lock
  pc,      \* where each writer is in apply
  batch,   \* the CorePromotionResult each writer is applying
  loaded,  \* the records its transaction read
  rows,    \* the records its transaction has written, not yet committed
  persisted  \* history: the records of every batch that was committed

vars == <<db, lock, pc, batch, loaded, rows, persisted>>

InTransaction == {"locked", "loaded", "written"}

Init ==
  /\ db = {} /\ lock = Nobody /\ persisted = {}
  /\ pc = [w \in Writers |-> "idle"]
  /\ batch = [w \in Writers |-> {}]
  /\ loaded = [w \in Writers |-> {}]
  /\ rows = [w \in Writers |-> {}]

Goto(w, from, to) == pc[w] = from /\ pc' = [pc EXCEPT ![w] = to]

Submit(w, B) ==
  /\ Goto(w, "idle", "waiting")
  /\ batch' = [batch EXCEPT ![w] = B]
  /\ UNCHANGED <<db, lock, loaded, rows, persisted>>

\* Mutant: a deferred BEGIN takes no lock.
BeginDeferred(w) ==
  /\ Goto(w, "waiting", "locked")
  /\ lock' = w
  /\ UNCHANGED <<db, batch, loaded, rows, persisted>>

\* Mutant: a caller waits for the lock for ever.
LockNeverTimesOut(w) == FALSE /\ UNCHANGED vars

\* BEGIN IMMEDIATE
Begin(w) ==
  /\ lock = Nobody
  /\ Goto(w, "waiting", "locked")
  /\ lock' = w
  /\ UNCHANGED <<db, batch, loaded, rows, persisted>>

\* The finite timeout expires while another writer holds the lock.
LockTimeout(w) ==
  /\ lock # Nobody
  /\ Goto(w, "waiting", "failed")
  /\ UNCHANGED <<db, lock, batch, loaded, rows, persisted>>

\* SELECT document FROM promotion, and the in-memory repository built from it.
Load(w) ==
  /\ Goto(w, "locked", "loaded")
  /\ loaded' = [loaded EXCEPT ![w] = db]
  /\ UNCHANGED <<db, lock, batch, rows, persisted>>

\* Leave the transaction and release the lock, if this writer holds it.
EndTransaction(w) ==
  /\ lock' = IF lock = w THEN Nobody ELSE lock
  /\ loaded' = [loaded EXCEPT ![w] = {}]
  /\ rows' = [rows EXCEPT ![w] = {}]

\* reference.apply(result), then one upsert for each record of the reference.
Write(w) ==
  /\ Goto(w, "loaded", "written")
  /\ Admissible(loaded[w], {}, batch[w])
  /\ rows' = [rows EXCEPT ![w] = Applied(loaded[w], batch[w])]
  /\ UNCHANGED <<db, lock, batch, loaded, persisted>>

\* Mutant: without a transaction, the record before the refused one is kept.
RefuseHalfway(w) ==
  /\ Goto(w, "loaded", "refused")
  /\ ~Admissible(loaded[w], {}, batch[w])
  /\ \E r \in batch[w] : /\ Admissible(loaded[w], {}, {r})
                         /\ db' = Applied(loaded[w], {r})
  /\ EndTransaction(w)
  /\ UNCHANGED <<batch, persisted>>

\* PromotionRepositoryError out of reference.apply: the connection rolls back.
Refuse(w) ==
  /\ Goto(w, "loaded", "refused")
  /\ ~Admissible(loaded[w], {}, batch[w])
  /\ EndTransaction(w)
  /\ UNCHANGED <<db, batch, persisted>>

\* INSERT ... ON CONFLICT(asset_id) DO UPDATE, for all of R.
Upsert(table, R) == {s \in table : \A r \in R : r.asset # s.asset} \cup R

\* Mutant: the table is written but the transaction is not committed.
CommitForgotten(w) ==
  /\ Goto(w, "written", "committed")
  /\ EndTransaction(w)
  /\ persisted' = persisted \cup batch[w]
  /\ UNCHANGED <<db, batch>>

Commit(w) ==
  /\ Goto(w, "written", "committed")
  /\ db' = Upsert(db, rows[w])
  /\ EndTransaction(w)
  /\ persisted' = persisted \cup batch[w]
  /\ UNCHANGED batch

\* Any sqlite3.Error inside the transaction: rolled back, reported as
\* PromotionRepositoryError.
DatabaseError(w) ==
  /\ pc[w] \in InTransaction
  /\ pc' = [pc EXCEPT ![w] = "failed"]
  /\ EndTransaction(w)
  /\ UNCHANGED <<db, batch, persisted>>

\* The caller receives its PromotionPersistenceResult.
Reply(w) ==
  /\ Goto(w, "committed", "done")
  /\ UNCHANGED <<db, lock, batch, loaded, rows, persisted>>

\* The process dies; after Commit its caller never learns of the success.
Crash(w) ==
  /\ pc[w] \in InTransaction \cup {"waiting", "committed"}
  /\ pc' = [pc EXCEPT ![w] = "failed"]
  /\ EndTransaction(w)
  /\ UNCHANGED <<db, batch, persisted>>

\* "callers may retry the whole idempotent batch"
Retry(w) ==
  /\ Goto(w, "failed", "waiting")
  /\ UNCHANGED <<db, lock, batch, loaded, rows, persisted>>

\* The caller moves on to other work.
Finish(w) ==
  /\ pc[w] \in {"done", "refused", "failed"}
  /\ pc' = [pc EXCEPT ![w] = "idle"]
  /\ batch' = [batch EXCEPT ![w] = {}]
  /\ UNCHANGED <<db, lock, loaded, rows, persisted>>

Step(w) ==
  \/ \E B \in Inputs : Submit(w, B)
  \/ Begin(w) \/ LockTimeout(w) \/ Load(w) \/ Write(w) \/ Refuse(w)
  \/ Commit(w) \/ DatabaseError(w) \/ Reply(w) \/ Crash(w) \/ Retry(w) \/ Finish(w)

Next == \E w \in Writers : Step(w)

Spec == Init /\ [][Next]_vars

\* sqlite3.connect waits at most timeout_seconds for the lock, and a running
\* apply takes its next statement: nothing else is assumed to happen.
Progress(w) ==
  \/ Begin(w) \/ LockTimeout(w) \/ Load(w) \/ Write(w) \/ Refuse(w) \/ Commit(w) \/ Reply(w)
FairSpec == Spec /\ \A w \in Writers : WF_vars(Progress(w))

------------------------------------------------------------------------------
(* Correctness *)

Places == InTransaction \cup {"idle", "waiting", "committed", "done", "refused", "failed"}

\* Rows, locals of the calls and the lock have their types.
TypeOK ==
  /\ db \subseteq Record
  /\ lock \in Writers \cup {Nobody}
  /\ pc \in [Writers -> Places]
  /\ batch \in [Writers -> Inputs \cup {{}}]
  /\ loaded \in [Writers -> SUBSET Record]
  /\ rows \in [Writers -> SUBSET Record]
  /\ persisted \subseteq Record

\* What a transaction read is still the committed state when it decides and when
\* it commits: no other writer can get in between.
TransactionReadsLatest ==
  \A w \in Writers : pc[w] \in {"loaded", "written"} => loaded[w] = db

\* A promotion that was persisted, whether or not its caller heard of it, stays
\* persisted, at that generation or a later one, through every later call,
\* failure and crash.
PersistedPromotionsSurvive ==
  \A r \in persisted : \E s \in db :
    s.asset = r.asset /\ s.identity = r.identity /\ s.generation >= r.generation

\* No transaction drops, rebinds, alters or shortens a committed promotion.
HistoryMovesForward == [][Forward(db, db')]_db

\* Whatever callers retry, interrupt or interleave, the database changes only by
\* whole admissible batches applied to the state just before.
Port == INSTANCE PromotionStore WITH records <- db, persisted <- Claims(persisted)
ImplementsPort == Port!Spec

\* Retrying after a lost reply is safe: replaying a persisted promotion is
\* accepted and changes nothing, unless another caller has meanwhile persisted a
\* later generation of the asset; then the replay is refused and changes nothing.
ReplayIsHarmless ==
  \A r \in persisted :
    \/ \E s \in db : s.asset = r.asset /\ s.generation > r.generation
    \/ Admissible(db, {}, {r}) /\ Applied(db, {r}) = db

\* No caller waits for ever: a submitted batch gets a result or an error.
EveryCallAnswered ==
  \A w \in Writers :
    pc[w] = "waiting" ~> pc[w] \in {"done", "refused", "failed"}
==============================================================================
