------------------------- MODULE DiscoveryStateStore -------------------------
(***************************************************************************)
(* discovery.state_store.DiscoveryStateFileStore and the initialise        *)
(* command: one JSON document holding the lifecycle ledger and the         *)
(* promotions, replaced atomically, guarded by an expected revision.       *)
(* Callers load, work, and save later; a save is CheckSave (load, stale,   *)
(* forward and cross-link checks), WriteTemp, Sync, Replace and Return,    *)
(* and may fail, die, or be cut off by a power loss between any two steps. *)
(*                                                                         *)
(* A generation is its key, its number and the caller that recorded it     *)
(* (standing for its reviews and evidence).  Events add nothing: the       *)
(* ledger's generations and inactive keys determine them (theorem          *)
(* LedgerExplained), so they are kept or lost together.                    *)
(***************************************************************************)
EXTENDS Integers, FiniteSets

CONSTANTS
  Processes, Keys, Assets,
  MaxNumber,     \* bound: generations of one key
  MaxRevision,   \* bound: revisions written
  MaxBoots,      \* bound: power losses
  Overlapping    \* TRUE: nothing keeps the saves of two processes apart

ASSUME StoreBounds == MaxNumber \in Nat /\ MaxRevision \in Nat /\ MaxBoots \in Nat
ASSUME OverlappingAssumption == Overlapping \in BOOLEAN

VARIABLES
  file,      \* the document at self.path; revision 0 stands for no file
  onDisk,    \* the documents a power loss can leave at that path
  boots,     \* power losses so far
  pc,        \* where each process is
  base,      \* the document each process loaded before it did its work
  draft,     \* the document it is trying to save
  creating   \* TRUE while the process runs initialise_state

vars == <<file, onDisk, boots, pc, base, draft, creating>>

Generation == [key : Keys, number : 1 .. MaxNumber, by : Processes]
Promotion == [asset : Assets, identity : Keys, upto : 1 .. MaxNumber]
Document == [revision : 0 .. MaxRevision, torn : BOOLEAN, generations : SUBSET Generation,
             inactive : SUBSET Keys, promotions : SUBSET Promotion]

Nothing == [revision |-> 0, torn |-> FALSE, generations |-> {}, inactive |-> {}, promotions |-> {}]

NumbersOf(d, k) == {g.number : g \in {h \in d.generations : h.key = k}}
Count(d, k) == Cardinality({g \in d.generations : g.key = k})

_validate_cross_links(d) ==
  /\ \A k \in Keys : NumbersOf(d, k) = 1 .. Count(d, k)
  /\ \A p, q \in d.promotions : p.asset = q.asset \/ p.identity = q.identity => p = q
  /\ \A p \in d.promotions : p.upto <= Count(d, p.identity)

\* Mutant: the ledger's history is compared, the promotions are not.
ForwardLedgerOnly(d, e) ==
  d.generations \subseteq e.generations /\ d.inactive \subseteq e.inactive

_validate_forward(d, e) ==
  /\ d.generations \subseteq e.generations
  /\ d.inactive \subseteq e.inactive
  /\ \A p \in d.promotions : \E q \in e.promotions :
       q.asset = p.asset /\ q.identity = p.identity /\ p.upto <= q.upto

Init ==
  /\ file = Nothing /\ onDisk = {Nothing} /\ boots = 0
  /\ pc = [p \in Processes |-> "idle"]
  /\ base = [p \in Processes |-> Nothing]
  /\ draft = [p \in Processes |-> Nothing]
  /\ creating = [p \in Processes |-> FALSE]

\* Back to idle, successfully or not: the locals of the call are gone.
Done(p) ==
  /\ pc' = [pc EXCEPT ![p] = "idle"]
  /\ base' = [base EXCEPT ![p] = Nothing]
  /\ draft' = [draft EXCEPT ![p] = Nothing]
  /\ creating' = [creating EXCEPT ![p] = FALSE]

Goto(p, from, to) == pc[p] = from /\ pc' = [pc EXCEPT ![p] = to]

\* DiscoveryStateFileStore.load; a torn or inconsistent document raises instead.
Load(p) ==
  /\ ~file.torn /\ _validate_cross_links(file)
  /\ Goto(p, "idle", "working")
  /\ base' = [base EXCEPT ![p] = file]
  /\ UNCHANGED <<file, onDisk, boots, draft, creating>>

\* initialise_state: refuses an existing path, then calls save with an empty state
\* and expected_revision 0.
Initialise(p) ==
  /\ file.revision = 0
  /\ Goto(p, "idle", "working")
  /\ creating' = [creating EXCEPT ![p] = TRUE]
  /\ UNCHANGED <<file, onDisk, boots, base, draft>>

(***************************************************************************)
(* What a caller may bring to save: its copy unchanged; one generation     *)
(* more, a key retired, one promotion made or changed; or, carelessly,     *)
(* a generation left out, or only freshly computed promotions.             *)
(***************************************************************************)
Drafts(d, p) ==
  {d}
  \cup {[d EXCEPT !.generations = @ \cup {g}] : g \in {h \in Generation : h.by = p}}
  \cup {[d EXCEPT !.inactive = @ \cup {k}] : k \in Keys}
  \cup {[d EXCEPT !.promotions = {r \in @ : r.asset # q.asset} \cup {q}] : q \in Promotion}
  \cup {[d EXCEPT !.generations = @ \ {g}] : g \in d.generations}
  \cup {[d EXCEPT !.promotions = {}], [d EXCEPT !.inactive = {}]}

Brought(p) == IF creating[p] THEN {Nothing} ELSE Drafts(base[p], p)

Writing == {"checked", "temporary", "synced"}

\* The saves of different processes do not overlap unless Overlapping.
MayStart(p) ==
  /\ pc[p] = "working"
  /\ Overlapping \/ \A q \in Processes : pc[q] \notin Writing

\* Mutant: the caller's expected revision is not compared.
AcceptableStale(p, d) ==
  /\ ~file.torn /\ _validate_cross_links(file)
  /\ _validate_forward(file, d)
  /\ _validate_cross_links(d)

\* What save raises on: an unreadable file, a stale revision, lost history, bad links.
Acceptable(p, d) ==
  /\ ~file.torn /\ _validate_cross_links(file)
  /\ file.revision = base[p].revision
  /\ _validate_forward(file, d)
  /\ _validate_cross_links(d)

\* comparable == current_data: an existing document that differs at most in revision.
Identical(d) == file.revision > 0 /\ file = [d EXCEPT !.revision = file.revision]

NextRevision == file.revision + 1

CheckSave(p) ==
  /\ MayStart(p)
  /\ file.revision < MaxRevision
  /\ \E d \in Brought(p) :
       /\ Acceptable(p, d) /\ ~Identical(d)
       /\ draft' = [draft EXCEPT ![p] = [d EXCEPT !.revision = NextRevision]]
  /\ pc' = [pc EXCEPT ![p] = "checked"]
  /\ UNCHANGED <<file, onDisk, boots, base, creating>>

\* An identical replay returns the current state and writes nothing.
Replay(p) ==
  /\ MayStart(p)
  /\ \E d \in Brought(p) : Acceptable(p, d) /\ Identical(d)
  /\ Done(p)
  /\ UNCHANGED <<file, onDisk, boots>>

\* DiscoveryStatePersistenceError before anything is written.
Refuse(p) ==
  /\ MayStart(p)
  /\ \E d \in Brought(p) : ~Acceptable(p, d)
  /\ Done(p)
  /\ UNCHANGED <<file, onDisk, boots>>

\* tempfile.NamedTemporaryFile and stream.write: bytes the disk need not have yet.
WriteTemp(p) ==
  /\ Goto(p, "checked", "temporary")
  /\ UNCHANGED <<file, onDisk, boots, base, draft, creating>>

\* stream.flush(); os.fsync(stream.fileno())
Sync(p) ==
  /\ Goto(p, "temporary", "synced")
  /\ UNCHANGED <<file, onDisk, boots, base, draft, creating>>

\* Mutant: the temporary file is renamed before its bytes are on disk.
ReplaceUnsynced(p) ==
  /\ pc[p] = "temporary"
  /\ file' = draft[p]
  /\ onDisk' = onDisk \cup {draft[p], [draft[p] EXCEPT !.torn = TRUE]}
  /\ Done(p)
  /\ UNCHANGED boots

\* os.replace: the bytes are durable, the directory entry need not be yet.
Replace(p) ==
  /\ pc[p] = "synced"
  /\ file' = draft[p]
  /\ onDisk' = onDisk \cup {draft[p]}
  /\ Done(p)
  /\ UNCHANGED boots

\* OSError unlinks the temporary file; a killed process leaves it behind.  In
\* either case the document at self.path is as it was.
Abort(p) ==
  /\ pc[p] # "idle"
  /\ Done(p)
  /\ UNCHANGED <<file, onDisk, boots>>

\* External: the file system writes the directory entry out.
FlushDirectory ==
  /\ onDisk # {file}
  /\ onDisk' = {file}
  /\ UNCHANGED <<file, boots, pc, base, draft, creating>>

\* External: the machine with the file stops, and saves under way with it.  Any of
\* the recorded documents comes back.  Callers that have not called save yet (on
\* another machine, or with an exported copy) keep what they loaded.
PowerLoss ==
  LET Kept(p) == pc[p] \notin Writing
  IN /\ boots < MaxBoots
     /\ boots' = boots + 1
     /\ \E d \in onDisk : file' = d /\ onDisk' = {d}
     /\ pc' = [p \in Processes |-> IF Kept(p) THEN pc[p] ELSE "idle"]
     /\ base' = [p \in Processes |-> IF Kept(p) THEN base[p] ELSE Nothing]
     /\ draft' = [p \in Processes |-> Nothing]
     /\ creating' = [p \in Processes |-> Kept(p) /\ creating[p]]

Next ==
  \/ \E p \in Processes :
       \/ Load(p) \/ Initialise(p) \/ CheckSave(p) \/ Replay(p) \/ Refuse(p)
       \/ WriteTemp(p) \/ Sync(p) \/ Replace(p) \/ Abort(p)
  \/ FlushDirectory
  \/ PowerLoss

Spec == Init /\ [][Next]_vars

------------------------------------------------------------------------------
(* Correctness *)

\* The document, what may be on disk and the locals of every caller have their types.
TypeOK ==
  /\ file \in Document /\ onDisk \subseteq Document /\ boots \in 0 .. MaxBoots
  /\ pc \in [Processes -> Writing \cup {"idle", "working"}]
  /\ base \in [Processes -> Document] /\ draft \in [Processes -> Document]
  /\ creating \in [Processes -> BOOLEAN]

\* load never fails on a document this store wrote: what is at the path, and
\* whatever a power loss can leave there, is complete and consistently linked.
StoredDocumentsLoad ==
  \A d \in onDisk \cup {file} : ~d.torn /\ _validate_cross_links(d)

\* Document e still holds everything document d recorded.
Retains(d, e) ==
  /\ d.generations \subseteq e.generations /\ d.inactive \subseteq e.inactive
  /\ \A p \in d.promotions : \E q \in e.promotions :
       q.asset = p.asset /\ q.identity = p.identity /\ q.upto >= p.upto

\* A save never discards a generation, an inactive key or a promotion of the
\* document it replaces, even when revision numbers are used a second time after
\* a power loss took the file back.  (A power loss itself can.)
NoHistoryLost ==
  [][boots' = boots => Retains(file, file')]_file

\* The expected revision is enough to keep readers and writers consistent: as long
\* as no power loss took the file back, the document a save replaces is the very
\* document its caller loaded, so nobody's update was overlooked.
SavesBuildOnWhatTheyRead ==
  [][\A p \in Processes :
       pc[p] = "synced" /\ file' = draft[p] /\ file' # file /\ boots' = 0
         => file = base[p]]_vars

\* "Create a new empty revision-one state without overwriting a file.": the empty
\* document of initialise_state never takes the place of one with history.
InitialiseNeverOverwrites ==
  [][\A p \in Processes :
       creating[p] /\ pc[p] = "synced" /\ file' = draft[p] => Retains(file, file')]_vars
==============================================================================
