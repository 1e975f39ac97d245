# TwinForge in TLA+

TwinForge reads the engineering files and live discovery evidence of industrial
plants, builds a vendor-neutral model of them, and generates reports and
controller code. Most of its 430 Python modules are translations from one data
format to another. This project models the parts that keep *state over time*, where
what a sequence of calls, processes, crashes or controller scans can do is what the
repository's tests can hardly reach, and the translations whose result must *mean* what
its input meant: for those the property compares two executions, not two documents.

## The system

| Part | State it keeps | Operations | Hard behaviour |
|---|---|---|---|
| identity lifecycle (`discovery/identity_lifecycle.py`) | append-only ledger: generations, events, inactive keys | `advance_identity_lifecycle`: observe accepted candidates, apply transition directives | order of directives in one call, chains over many calls, time stamps, a refusal half way |
| core promotion (`discovery/core_promotion.py`) | none; reads a ledger | `promote_lifecycle_identities` | the ledger has moved on since it was read; conflict overrides that arrive later |
| promotion repository (`assembly/promotion_repository.py`) | records by asset, index by identity, the plant | `apply` | all-or-nothing batches, two dictionaries in step, object ownership |
| SQLite adapter (`assembly/sqlite_promotion_repository.py`) | table `promotion`, reserved lock | `apply` | concurrent processes, lock time-out, crash around the commit, lost replies, retries |
| discovery state file (`discovery/state_store.py`, `cli/discovery_state.py`) | one JSON document with a revision | `load`, `save`, `initialise_state` | stale writers, check-then-replace, process death, power loss |
| PowerFlex 525 core (`runtime/powerflex525_core.py`) | run latches, start timer | `scan` | ownership changes, interlocks, delays that change while timing |
| emitted PowerFlex block (`exporters/powerflex525_core.py`) | the same, in structured text | one call per PLC scan | DINT and REAL arithmetic; two versions of one logic drifting apart |
| Sys_Module (`runtime/sys_module_core.py`, `runtime/sys_module_runtime.py`) | one-shot latch, outputs | `cycle`, `prescan` | adapter calls that fail between the read and the write |
| CODESYS module binding (`exporters/codesys_sys_module_iec.py`) | command latch, requested value, blocked flag | one call per scan | a second command while `DED.Reconfigure` works on the first |
| OpenPLC counter and timer (`targets/openplc/counter.py`, `native_declarations.py`) | value, latches, edge memory, retained time | one call per scan | wrap-around, both counts and a reset in one scan, uneven scans |
| OpenPLC ladder lowering (`targets/openplc/native_*.py`) | position in the routine, resolved groups | validate, resolve, lower | three walks that must agree; admission against what is drawn |
| Machine Expert - Basic readers (`parsers/machine_expert_basic/`) | a graph of edges; a symbolic accumulator and its stacks | `build_network`, `build_network_from_instruction_list` | merges in any order, shared conditions, nested branches |
| execution order (`analysis/execution_order.py`) | unmet dependencies | sort in waves | dataflow without wires, overrides, cycles |
| cyclic images (`analysis/cyclic_io.py`, `runtime/cyclic_io.py`) | image bytes | layout, `encode`, `decode` | bits over words, signs, byte order, ends of ranges |
| CIP captures (`discovery/software_inventory_capture.py`, `routed_capture.py`, `controller_metadata_capture.py`, `cip_infrastructure_capture.py`) | progress, one-shot latches, budgets | capture | failing responses, budgets, repeated calls, online edits |
| SNMP walk and conversion (`discovery/snmp_pysnmp.py`, `snmp_conversion.py`) | records, budgets; three output files | walk, convert | budget ends a walk without an error; two converters at once |
| topology and network drift (`discovery/snmprec.py`, `topology.py`, `drift.py`) | relationships found so far and where each reported link is | lower, correlate, compare | rows in any order, unresolved interfaces, several agents, incomplete captures |
| review receipts and report bundles (`cli/review_validation.py`, `cli/l5x_report.py`, `cli/report_bundle.py`) | a receipt; a directory of reports and its manifest | validate, verify, generate | edits between two reads, a stop between two files, power loss |
| other parsers, converters, IR, structured text, analyses, exporters, CLI | none that outlives a call | – | – |

How they meet: accepted candidates feed the lifecycle ledger; promotion reads the
ledger and produces a batch for the repository port; the state file stores ledger
and promotions together and checks that one refers to the other. The PowerFlex core
is the reference the emitted block must follow on the controller. The other PLC-side
components and the commands run alone: they share libraries, not state.

`PROJECT.json` lists every component, and every hazard with its source line and the
property that would catch it.

## Modules

| Module | Models | Role |
|---|---|---|
| `IdentityLifecycle` | the ledger | one call is `Observe`, any number of `ApplyDirective`s, and `Return` or `RejectDirective` |
| `PromotionPolicy` | rules of `InMemoryPromotionRepository.apply` | operators on sets of records, shared by all modules below |
| `PromotionStore` | the `PromotionRepository` port | abstract specification: whole admissible batches, atomically |
| `InMemoryPromotionRepository` | the in-memory adapter and the plant | implements `PromotionStore` |
| `SqlitePromotionRepository` | the SQLite adapter | implements `PromotionStore` under concurrency and failure |
| `CorePromotion` | `promote_lifecycle_identities` | composes a growing ledger, callers with copies of it, and the policy |
| `DiscoveryStateStore` | the state file | every file-system step an action |
| `PowerFlex525Core` | the Python core | one action per scan |
| `TF_PowerFlex525_Core` | the emitted block | runs beside `PowerFlex525Core` on the same inputs |
| `SysModuleRuntime` | Sys_Module core and its runtime | read, scan and Mode write are separate steps; any of them may fail |
| `CodesysModuleBinding` | the generated scan around `DED.Reconfigure` | the library block is external |
| `TF_COUNTER` | the emitted counter block | in lock step with CTU, CTD, done and RES rungs |
| `TF_RTO` | the emitted retentive timer | in lock step with an accumulator that is given the time directly |
| `OpenPLCLadder` | admission and lowering of a ladder routine | one action per rung or group of each walk |
| `SmbpLadder` | the grid reader | wire, prune, one pass of the reduction per step |
| `SmbpInstructionList` | the Instruction List reader | one action per line, then the factoring of paths |
| `ExecutionOrder` | `resolve_fbd_execution_order` for one network | checks, one wave per step |
| `CyclicIO` | packed images | one member, word or bit per step |
| `SoftwareInventoryCapture` | symbol upload under budgets | pages against a controller edited online |
| `RoutedCapture` | routed controllers and chassis | providers that outlive a capture |
| `ControllerMetadataCapture` | metadata and infrastructure plans | one request per step |
| `SnmpWalk` | the bounded walk | one row per step |
| `SnmpConversion` | `convert_snmp_walk` | two processes, every move of a file a step |
| `TopologyDrift` | lowering, correlation and network drift of two captures | one LLDP or bridge row per step |
| `ReviewReceipt` | `review validate`, `review verify-receipt` | every read and write a step, beside an editor |
| `ReportBundle` | `report`, `reports verify` | every file a step, beside an editor |
| `PlcPrograms`, `Commands` | – | the PLC-side components, and the commands, side by side: an instance of each over variables of its own, and the assumptions on their constants |
| `MCPlcPrograms`, `MCCommands` | – | TLC instances of these two (the first adds the two recursive rung readers), see below |
| other `MC...` | – | TLC instances: input sets and symmetries |
| `...Proofs` | – | theorems |

State and actions carry the source's names where possible. Conventions:

* **Sets for dictionaries and tuples.** A dictionary keyed by a field of its values is
  a set of records; uniqueness of the key is then a property (`OneToOne`), not given.
* **Generations by length.** `generation_numbers` of a promotion is modelled by its
  length. This is sound because generations are numbered 1, 2, 3, ...: theorem
  `GenerationsConsecutive`. In the state file the numbers are kept and checked.
* **Time** is a small number. Only comparisons of time stamps matter.
* **Data.** Evidence is a set of keys, the approved core fields a single signature,
  a review is its outcome. Wording, sorting of output tuples and the JSON text are
  left out; a document on disk is whole or *torn* (does not parse).
* **Files** are the version of the bytes they were computed from; a digest identifies a
  version.
* **History variables** (`persisted`, `heldFor`, `seen`, `issued`, `started`, `applied`,
  `count`, `quiet`, `sent`, ...) record what happened and influence nothing, except that
  some bound the instance.
* Definitions introduced by "Mutant" are plausible wrong versions of the definition
  that follows; no specification uses them. They show that a property can fail.
* A property that no run lists states what a document says and the code does not do;
  see "Disagreements".

### What each model keeps of its code

*IdentityLifecycle.* The code works on local copies and returns a new state at the
end, or raises. The model keeps the copies (`wGenerations`, ...), so a refusal in the
middle is a real step and `AppendOnly` speaks about what became visible.

*InMemoryPromotionRepository.* The constructor's initial records enter both dictionaries
and not the plant, and `Plant.add_asset` appends whatever other code gives it, an ID the
plant already holds included. So the property does not say that an ID is unique in the
plant, nor that the plant owns every stored object: it says that every stored object is
one of the initial ones or one this repository added when it created the asset (`initial`,
`added`), and that what it added is in the plant.

*SqlitePromotionRepository.* `apply` is `Begin` (BEGIN IMMEDIATE), `Load`, `Write` or
`Refuse`, `Commit`, `Reply`. A call can also end in `LockTimeout`, `DatabaseError` or
`Crash`; after `Commit` a crash loses the reply only. `Retry` resubmits the batch of a
failed call. SQLite is external: one reserved lock, invisible uncommitted writes,
rollback when a connection ends.

*DiscoveryStateStore.* A save loads the file, compares the revision, checks that the
new document extends the old one and that promotions refer to ledger entries, writes a
temporary file, syncs it and replaces the path. The rename is durable only some time
later: `onDisk` holds the documents a power loss may leave. The constant `Overlapping`
says whether saves of two processes may run between each other's steps; the
architecture document restricts the store to "optimistic concurrency", so the safety
runs use `FALSE`, and one run uses `TRUE`.

*PowerFlex525Core* and *TF_PowerFlex525_Core.* Speeds are integers in thousandths of a
hertz, so conversions to hundredths are visible. The block's timer wraps at `DintMax`.
`REAL_TO_INT` is external and rounds to nearest; ties do not occur in the inputs.

*SysModuleRuntime.* Mode is the set of its bits. `Scan` leaves a write intent that
`WriteMode` applies to what the module holds by then, or `WriteFails` drops. `ReadFails`
is a cycle of its own: the core does not see its inputs.

*CodesysModuleBinding.* The scan copies the adapter's observations, runs the body and
calls the library block, in that order, so a completion is seen one scan later.

*TF_COUNTER, TF_RTO.* The source rungs are the reference, from the instruction rules that
`docs/architecture/counter-execution.md` lists, in the order the group has them; a DINT
is a few bits wide, so that it wraps within the instance. Scans of the timer are unevenly
spaced.

*OpenPLCLadder.* A rung is its instructions, before, in and after a branch; of the outputs
those are kept that a group or a coil can take, a rung with any other (MOV, ADD, ...) is
rejected by validation. The property
about logic evaluates the source rung and the lowered one for every state of the tags;
contacts in front of a branch are left to `ladder_branch`, which shows they are lost.

*SmbpLadder.* The drawing is given its meaning independently of the graph: power flows
column by column through conducting cells and along tied rows. The graph, after every
step, must energise the same coils and pins for every state of the contacts.
*SmbpInstructionList.* The list is executed on a boolean accumulator. Elements are
objects: a leaf is named by its line, so equality stands for Python's `is`. The order in
which outputs are written is not part of the property: `_factor` groups paths by their
first element, so an output can move before one written between two of its group. An `N`
between `AND(` and its parenthesis inverts the whole path in the network; the element is
marked unsupported and such lists are left out.

*ExecutionOrder.* A diagram is its blocks, links, positions, shared variables and which
blocks each execAfter text names. The reference is the longest chain of dependencies.

*CyclicIO.* A REAL is the raw word it is encoded as. Bytes have two bits.

*Captures.* A request may succeed, fail with a status, or break the connection; the code
decides which of these ends a loop. Latches and budgets of a provider survive a failed
capture, and a second capture over the same provider is part of the instance. Each
provider keeps a budget of its own: the controller provider per route, the chassis provider
one for its chassis. A controller that sits in a slot of the mapped chassis can therefore get
a request from each of them, and `OneRequestPerRoute` counts per provider.

*TopologyDrift.* The recorded rows of each agent are lowered one after the other. A bridge
row recorded without its port column, as a walk that ended at its budget may leave it, and
an LLDP row whose index has fewer than three parts are skipped (`HasPort`, `IsWhole`) and
leave no trace. The property claims the evidence of the whole rows only, and that the
others are evidence for nothing: the loss is silent in the code. Management addresses are
in the model because `topology.py` resolves remote nodes by them; only fixtures
(`discovery/fake.py`) fill them, `snmprec.py` does not.

A forwarding entry finds the link it corroborates through a place in the list of
relationships, under a key of chassis and interface, so the loops are kept row by row.
Where an agent reports one chassis twice on one interface, the entry goes to the report
that comes last: such captures can differ in a confidence when only the order of rows
changed, and the property excludes them. Repeated relationship keys (a duplicated LLDP
row) make the whole drift state be refused (`BuildState`). A capture may have no answering
agent at all; two captures have the same rows only if the same agents answered.

*ReviewReceipt, ReportBundle, SnmpConversion.* Each read, digest, write and rename is a
step, and an editor or a second process acts between them. A `quiet` flag records whether
anyone did: the properties say what holds for a quiet run, and what verification finds
out later about one that was not. A receipt keeps what its writer had loaded beside it, on
disk too, so that one a power loss brings back is still judged by its own validation. The
alarm and cause-and-effect kinds of a review parse the source first, an I/O mapping loads
the review first; the I/O card library that is read with it, and that a receipt does not
digest, is part of the parameter `Reconciles`. A generation may stop between two files or
in the middle of one; the manifest digests the source, then the review.

## Runs

| Run | Bounds | Shows |
|---|---|---|
| `lifecycle` | 3 keys, 2 times, 4 generations | events explain the ledger, order of time stamps, append-only, retired keys stay retired |
| `lifecycle_reuse` (violation) | same | two directives of one call can retire two keys in favour of each other |
| `promotion` | 2 assets, 2 identities, 2 generations, 2 times | records correspond to the ledger and predate none of it, overrides acknowledged |
| `repository` | 2 assets, 2 identities, 2 core signatures, 2 objects, 2 generations, batches of up to 2, any one-to-one initial records | in-memory adapter implements the port; index and plant ownership |
| `sqlite` | 2 writers, 6 batches | adapter implements the port under interleaving and failure; replays harmless; every call answered |
| `state_store` | 2 processes, 2 keys, 1 asset, 3 revisions, 1 power loss, saves kept apart | file always loads, history never discarded, saves build on what was read |
| `state_overlap` (violation) | 2 processes, saves may overlap | `state init` can overwrite a document created meanwhile |
| `drive` | all owners, gates, delays 0–3; `DintMax` 7 | delay honoured, runs permitted, block and core agree |
| `block_speed` (violation) | speeds with a third decimal | rounding against truncation |
| `plc_programs` | see below | counter, timer, ladder lowering, Sys_Module, its CODESYS binding, both Machine Expert - Basic readers, execution order, cyclic images |
| `ladder_branch` (violation) | the ladder routines of `plc_programs` | a contact in front of a branch is admitted and lost |
| `commands` | see below | SNMP walk and conversion, inventory, routed and metadata captures, topology and drift, receipts, bundles |

`plc_programs` and `commands` each check several components that share nothing. Variable
`program` (or `group`) chooses the component that runs; the others stay in one fixed
initial state, so the state space is the sum and not the product, and a property of a
component is evaluated on every state of that component.

Instances of `plc_programs`: a three-bit DINT with presets at its ends, at zero and just
above, started from three values with any done bit and any latches; a timer with presets up to 10 and scans 0 to 3 apart; every routine of up to three
rungs from a set that holds each recognised group and its near misses, and concatenations
of groups; three Mode bits and five module states; two rows by two columns of contacts,
wires and vertical links with four kinds of output, plus a bridge, a counter and an
unknown element; lists of five to seven lines in three dialects (branch points,
parentheses, function blocks), enough for each construct with two outputs; every set of
links over three blocks with positions, shared variables and overrides, chains and cycles
of four; images with words and bits in several orders, too short and too long, and values
at both ends of an INT and one beyond.

Instances of `commands`: SNMP trees of one root or three, which may overlap or be empty,
with budgets around the number of their rows; four symbols with a gap in their instance
numbers, page and request budgets of 1, 2 and 4, one online edit, two calls; two
controllers and two chassis (two slots and one), captured twice; four metadata requests,
two calls; receipts over three versions of review and source, two edits and three runs;
bundles over two versions, two edits and three runs; two converters over two versions,
one edit and three runs; two switches, up to two LLDP rows and two bridge rows, whole or
not, with all, some or no ports resolved, compared with a second capture that has the rows reversed, a
row less, nothing resolved, another target or no answering agent, or is not complete.

Why the bounds are enough: three keys allow a chain, a merge and a split with a
bystander; two writers or processes with retries show every order of two
transactions, and nothing in the code counts its rivals; two assets and two
identities are what it takes to violate a one-to-one mapping; a second power loss
adds nothing to `onDisk` that a first cannot leave. The batches of `sqlite` create,
extend, replay, rebind an identity, rebind an asset, and mix a fresh asset with one
that another caller may have overtaken. The drive inputs combine each owner with
every pair of commands, then with every setting of permissives, interlocks, bypass
and availability, then feedback bits, then changing delays; combinations of *all* of
them at once are left to the proofs, which hold for every set of inputs.

Deadlock is checked in every run but `commands`, whose programs end when they are done;
in the other runs a finished conversion stays finished (`Finished`).

*Fairness.* Only `sqlite` states liveness. `sqlite3.connect` is given a finite timeout
and a running call executes its next statement, so `Progress(w)` (weakly fair)
contains the steps of a call and the expiry of its wait. Nothing is assumed of
crashes, errors, retries or new calls. Weak fairness suffices because a waiting writer
always has either `Begin` or `LockTimeout` enabled.

## Proofs

The theorems hold for all values of the constants, including any number of keys,
writers, processes and inputs.

* `IdentityLifecycleProofs`. The properties speak of the visible ledger, but a call
  builds its successor in working copies. The inductive invariant therefore states
  every property twice, for the ledger and for the copies, and adds how the two are
  related (the copies contain the ledger; `transitioned` and `active` follow from the
  copies). Append-only and "retired for good" are then consequences of one step.
* `PromotionPolicyProofs`. Lemmas on the operators: what `Applied` keeps and adds, that
  an admissible batch preserves the one-to-one mapping and moves history forward.
* `SqlitePromotionRepositoryProofs`. The core of the invariant is that a writer in a
  transaction holds the lock, hence there is at most one, hence what it loaded is still
  the table and what it wrote is the result of an admissible batch on that table.
  `Commit` then maps to one `Apply` of `PromotionStore`, every other step to a stutter
  (`SqliteImplementsPort`).
* `DiscoveryStateStoreProofs`. `FileAlwaysLoads` needs that everything that may ever be
  on disk is whole, and that a process past `Sync` holds a synced, consistent draft.
  `HistoryKept` and `SavesBuild` assume `~Overlapping`: at most one process is between
  its check and its replace, so what it compared with is still the file.
* `PowerFlex525Proofs`. `DelayHonoured` relates the timer to `heldFor`, the time for
  which a run has really been requested: the timer never exceeds it. `BlockFollows`
  assumes that the longest delay plus one scan time fits a DINT; without it the sum
  wraps before it is compared with the delay.
* `CorePromotionProofs`. A promotion is built from a copy of the ledger that may be old.
  The invariant needs that a copy never runs ahead of the ledger (`HeldBehind`) and that what is
  stored came from such a copy; a batch that passes the policy then moves a record forward
  along the same prefix. For the in-memory adapter the invariant ties the index to the
  records and the stored objects to the initial and the added ones, and each `apply` is one `Apply` of `PromotionStore`
  (`InMemoryImplementsPort`).
* `PlcProgramsProofs`, one section for each component:
  * *Execution order.* `OrderIsSound`: a block that remains waits for exactly its unordered
    dependencies and no rank exceeds the number of ordered blocks; a cardinality argument
    (`WaveRanks`) then puts each wave above all earlier ones. Shared variables enter because
    the checks refuse a network whose shared pairs are not all links. `OrderIsDocumented`
    adds a level for each ordered block (`Levels`): the waves are the levels, a level is the
    longest chain into its block (`DepthIsLevel`), and when blocks remain of which none is
    ready, the one of least rank in any proposed order has a dependency behind it
    (`StuckHasNoOrder`).
  * *Sys_Module.* A write intent is made only by a scan that finds the latch clear, and
    leaves it set (`LatchCovers`).
  * *CODESYS binding.* `xExecute` is high only after the scan that latched the request, and
    while an operation runs neither the requested Enable nor the adapter's has moved since
    it started (`BindingInv`).
  * *Retentive timer.* The block's time has two parts, retained and running; the invariant
    says that the source accumulator is all in the first while the source timer is not
    enabled, and the sum of both while it is, up to the preset.
  * *Counter.* One scan of the block is compared with the rungs in either order, with the
    wrap at both ends, count by count (`UpThenDown`, `DownThenUp`): after each count value
    and latches agree, and a latch that is still clear means that no wrap has happened.
  * *Ladder.* Three walks step through the same routine. The invariant says that validation
    stopped at every rung at which the lowering stops (`Stops`; no rung starts a timer group
    and a counter group), so the spans of the plan tile the routine; and that every graph drawn so far has the logic of its rung
    (`Drawn`).
  * *Cyclic images.* While members are laid out, words follow each other up to `offset` and a
    bit has the bounds noted for its target, or none (`Packed`); validation refuses the empty
    bounds of a bit that comes before its word, and then words are apart (`LayoutIsSound`).
    While encode runs, the image is the base image except where a field has been written, and
    a written word whose bits are not asked for holds the bytes of its value (`Written`,
    `EncodeKeepsNeighbours`). This is `RoundTrip` up to the arithmetic of one word.
* `CommandsProofs`, likewise:
  * *Conversion.* What a converter moved is in place and, until two overlap, its own.
  * *Receipts.* While nobody has edited since the command began, what was loaded and what was
    digested are the present files (`QuietCommand`), whichever was loaded first; so what a
    command writes or compares is sound (`EvidenceIsSound`), and every receipt that a power
    loss may leave is as sound as when it was written (`FilesInv`).
  * *Bundles.* Verification checks files one by one; the invariant says what a quiet
    verification has established at each point (`QuietVerification`).
  * *Metadata.* Values decoded so far are those of the evidence so far.
  * *Routed capture.* Requests on a route are bounded by the budgets spent by each provider
    (`BudgetsSpent`), and items no longer to do have exactly one answer (`Answered`).
  * *SNMP walk.* Rows already read and rows to come make up the current root; every root
    before it is complete or the budget is used.
  * *Inventory.* Every steady symbol below the cursor has been filed, and the cursor of a
    page is one past its last symbol, so an edit between pages cannot hide one.
  * *Drift.* While an agent is lowered, what is kept are the whole rows read so far, in their
    order. While rows are correlated, the invariant describes the list of relationships by the rows read so far
    (`Described`): there is one relationship for each LLDP row and one for each forwarding
    entry without a report, in any order, and the evidence of a report is its own row and
    the entries that corroborate it. In the middle of an agent, `Linked` adds that
    `neighbour_links` finds the *last* report of each link among the rows of that agent; with
    it a forwarding entry is appended or joined to the right report
    (`ReachabilityIsDescribed`, `CorroborationIsDescribed`), and without the reset at the next
    agent it would be false. The description of a capture wholly read (`Correlated`) names
    no order, so two captures of the same rows have the same records (`SameRowsAlike`),
    provided no link is reported twice: only then is the last report of a link also its last
    in the other order. Unique keys, which `BuildState` checks, make "no finding" the same as
    "the same records" (`NothingFound`).

Assumptions on the constants, each named in the module that declares them and evaluated by
TLC in the runs: bounds and counts are natural numbers; presets and initial values fit a
DINT (`CounterAssumption`); ticks are natural (`TickAssumption`); a network
has finitely many numbered blocks (`DiagramsAssumption`); a routine is a sequence of rungs
(`ProgramsAssumption`); the members of a data type are a sequence and each has a type,
`"LINT"` for any without a size (`ContractsAssumption`); SNMP roots are sequences of distinct rows (`WalkAssumption`); routes
are ordered and a route map gives the slots of a chassis different routes
(`RoutedAssumption`, which `CipChassisSlotRouteMap` checks); `"none"` is no field
(`MetadataAssumption`); instance numbers fit their field (`InventoryAssumption`); no version
is 0, which stands for a missing file (`VersionAssumption`); in a capture each agent is read
once and each row of a table has an OID of its own (`DriftAssumption`: the targets of a scope
are unique in `contracts.py`, `capture.py` reads each once, and `snmprec.py` keeps rows in a
dict keyed by OID). The bounds on calls, runs and
edits occur only as guards, so the theorems hold for every value of them.

Only model-checked:

* `EveryCallAnswered`: liveness under fairness is beyond the prover.
* `NetworkKeepsWiring` and `NetworkComputesList`: the rung readers build and evaluate trees,
  their modules are recursive, and the prover cannot use them.
* `RoundTrip`: that the bytes of a word, weighted and summed, give the word again, and what
  setting a bit does to the other bits, are inductions over the width with powers of two,
  which the prover cannot do. What does not depend on that (no field touches the bytes of
  another) is proved at the level of bytes.
* The violations, of course: a counterexample is TLC's.

## Disagreements between code and documents

1. `lifecycle_reuse`: "Transitioned source keys become inactive and cannot later be
   reused silently." One call may contain the directives A → B and B → A. Both are
   accepted, both keys become inactive and neither has a successor.
2. `state_overlap`: `initialise_state` promises not to overwrite a file, but tests for
   it before a save that replaces unconditionally.
3. `block_speed`: the core truncates a speed to hundredths of a hertz and says that
   Logix does; the emitted block uses `REAL_TO_INT`, which rounds.
4. `ladder_branch`: `validate_program` says it rejects what is outside the evidenced
   subset; `XIC(a)[XIC(b),XIC(c)]OTE(d)` is admitted and lowered to `b OR c`.

The following were found in the same way. The modules state what the document says as a
property; no run lists it, because it does not hold. To see the counterexample, name the
property in the component's MC module (`UploadNotRepeated == Inventory!UploadNotRepeated`)
and put it alone into the cfg.

| Property | The document says | The code does |
|---|---|---|
| `SysModuleRuntime!ReadFailuresKeepEdges` | "Read failures do not scan the core, so they neither change outputs nor consume an input edge." (`runtime/sys_module_runtime.py:61`) | a command that is low only in cycles whose read fails stays latched, and its next rising edge writes nothing |
| `TF_COUNTER!CoilFollowsRungs` | the adapter "rejects rather than guesses when ... source ordering cannot be represented by one state-owner call" (`docs/architecture/counter-execution.md:75`) | the block resets before it shows Q; the source rungs copy `.DN` before their RES |
| `TF_RTO!ResetTimerStaysClear` | "clearing of elapsed time and status through reset" (`docs/experiments/OpenPLC-native-project-compatibility.md:290`) | with a preset of zero, an input on in the reset scan and off in the next makes the timer done |
| `OpenPLCLadder!CounterMembersNotWritten` | rejects when "another instruction writes a counter member" (`docs/architecture/counter-execution.md:75`) | `XIC(a)OTE(C.DN)` beside the group of C is exported |
| `SoftwareInventoryCapture!UploadNotRepeated` | "without repeating the controller upload" (`docs/architecture/logix-symbol-page-codec.md:39`) | a program scope's request names no program, so controller symbols come again |
| `RoutedCapture!RequestedSlotsHaveOutcomes` | "Every requested slot must produce exactly one evidence outcome" (`docs/architecture/cip-chassis-evidence.md:8`) | an identity that cannot be decoded drops the slots read before it |
| `ControllerMetadataCapture!ResponsesKept` | "Every response becomes `CipObjectEvidence`, including failed requests." (`docs/architecture/cip-controller-metadata-capture.md:13`) | a type mismatch or a broken connection raises and loses the evidence so far |
| `ReviewReceipt!ReceiptNamesValidatedBytes` | "SHA-256 hashes of the exact review and L5X bytes" (`docs/offline-usage.md:270`) | files are read once to be validated and again to be digested |
| `ReviewReceipt!ReceiptIsWhole` | "Replace one receipt only after its complete bytes reach disk." (`cli/review_validation.py:187`) | there is no sync before the replace |
| `ReportBundle!ManifestNamesAppliedInputs` | digests "for the source L5X, any applied review overlays" (`docs/offline-usage.md:324`) | the manifest reads the inputs again after the reports were computed |
| `ReportBundle!CompleteBundleVerifies` | "write every report, replacing old reports" (`exporters/text_report.py:19`) | a receipt of an earlier bundle stays and fails verification |
| `SnmpConversion!NeverOverwritten` | "Existing output, sidecar, or receipt files are never overwritten." (`docs/architecture/snmp-recording-conversion.md:36`) | existence is checked before the decode, `os.replace` comes after it |
| `SnmpConversion!ConvertedBytesApproved` | "an exact input SHA-256 checksum" (`docs/architecture/snmp-recording-conversion.md:30`) | checksum and records come from two reads |
| `SnmpWalk!PartialNotReturned` | "Partial observations are not returned as if the capture had completed normally." (`docs/architecture/snmp-request-safety-policy.md:31`) | the walker ends without an error at the varbind budget |
| `TopologyDrift!CorroborationIsResolved` | corroborated "when a forwarding entry reports the same chassis MAC through the same explicitly resolved interface" (`docs/architecture/discovery-topology-correlation.md:33`) | two unresolved interfaces are equal, so an entry on any unresolved bridge port corroborates |

## Plan

Done: the modules above. Next, in this order:

1. Candidate acceptance as operators, composed with `IdentityLifecycle`.
2. The Sequential Function Chart and Control Expert ladder readers, whose graphs are
   larger relatives of `SmbpLadder`.
3. Identity and module reconciliation as operators against reference definitions.

## Not modelled

The remaining parsers, the converters, exporters, analyses, the IR and the
structured-text front end, most of the code by volume, are single-pass functions over
large documents: no state, no interleaving, and an input space that a model checker
cannot bound usefully. The catalogues of parameters and elements are data. Codecs and
vendor libraries (pycomm3, pysnmp) are byte layout and I/O. `PROJECT.json` gives the
reason for each component.
