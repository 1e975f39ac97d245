------------------------------ MODULE Commands ------------------------------
(***************************************************************************)
(* The commands that capture from devices or write documents, each a       *)
(* process of its own: the SNMP walk, and beside it an instance of each of *)
(* the other components over variables of its own.  Their properties are   *)
(* given here under their own names.                                       *)
(***************************************************************************)
EXTENDS SnmpWalk

CONSTANTS
    \* RoutedCapture
    ControllerRoutes, Chassis, Slots,
    \* ControllerMetadataCapture
    Count, Fields,
    \* SoftwareInventoryCapture
    Instances, MaxInstance, Kind, CapabilitySets, RequestBudgets, MaxTableEdits,
    MaxCalls,        \* bound on the calls of each of these three
    \* ReviewReceipt
    ReviewVersions, Reconciles, ReviewItems,
    \* ReportBundle
    BundleVersions, BundleReconciles,
    MaxEdits,        \* bound on the edits of a review and its source
    \* SnmpConversion
    Converters, WalkVersions, MaxInputEdits,
    MaxRuns,         \* bound on the runs of each of these three
    \* TopologyDrift
    Comparisons, unresolved

\* Routes have an order; a route map gives the slots of a chassis different routes
\* (chassis.py).
ASSUME RoutedAssumption ==
    /\ ControllerRoutes \subseteq Nat /\ Chassis \subseteq Nat
    /\ \A c \in Chassis : Slots[c] \in Seq(Nat) /\ IsInjective(Slots[c])

\* A plan has requests, and a field is a name other than "none".
ASSUME MetadataAssumption == Count \in Nat /\ "none" \notin Fields

\* Instance numbers are positive and fit their field in a symbol record.
ASSUME InventoryAssumption == MaxInstance \in Nat /\ Instances \subseteq 1..MaxInstance

\* A version is a digest; 0 stands for no file.
ASSUME VersionAssumption ==
    /\ 0 \notin ReviewVersions /\ 0 \notin BundleVersions /\ 0 \notin WalkVersions

IsSequence(q) == Len(q) \in Nat /\ DOMAIN q = 1..Len(q)

\* The rows of a table have OIDs of their own: a record file is read into a dict keyed
\* by OID (snmprec.py).
IsTable(q) == IsSequence(q) /\ \A i, j \in DOMAIN q : q[i].oid = q[j].oid => i = j

\* The targets of a scope are unique, and each is read once (contracts.py, capture.py).
IsCapture(s) ==
    /\ IsSequence(s.nodes)
    /\ \A a, b \in DOMAIN s.nodes : s.nodes[a].target = s.nodes[b].target => a = b
    /\ \A a \in DOMAIN s.nodes : IsTable(s.nodes[a].lldp) /\ IsTable(s.nodes[a].fdb)

ASSUME DriftAssumption ==
    \A c \in Comparisons : \A i \in {1, 2} : c.complete[i] \in BOOLEAN /\ IsCapture(c.captures[i])

VARIABLES
    \* TopologyDrift
    comparison, side, at, driftRow, neighbours, entries, observations, neighbour_links, nodes,
    relationships, topologies, findings, driftPhase,
    \* RoutedCapture
    route, allowed, permit, mapped, unencodable, requested, captured, routedPhase,
    controllersTodo, chassisTodo, slot, slots, controllers, chassis, diagnostics,
    wire, routedCalls,
    \* ControllerMetadataCapture
    semantic, permitted, metadataExecuted, metadataPhase, next, evidence, values,
    received, observation, metadataCalls,
    \* SoftwareInventoryCapture
    plan, table, honest, steady, tableEdits, programs, executed, inventoryPhase, used,
    items, cursor, seen, pagesSent, calls,
    \* ReviewReceipt
    review, source, receipt, durable, pc, loaded, digest, observed, result, quiet,
    basis, basisQuiet, edits, runs,
    \* ReportBundle
    bundleReview, bundleSource, dir, manifest, gen, ver, bundleEdits, bundleRuns,
    \* SnmpConversion
    input, files, approved, clean, converter, decoded, converting, overlap,
    inputEdits, conversions

Routed == INSTANCE RoutedCapture WITH
    plan <- route, phase <- routedPhase, calls <- routedCalls

Metadata == INSTANCE ControllerMetadataCapture WITH
    executed <- metadataExecuted, phase <- metadataPhase, calls <- metadataCalls

Inventory == INSTANCE SoftwareInventoryCapture WITH
    Budgets <- RequestBudgets, MaxEdits <- MaxTableEdits,
    edits <- tableEdits, phase <- inventoryPhase, sent <- pagesSent

Receipt == INSTANCE ReviewReceipt WITH Versions <- ReviewVersions, Items <- ReviewItems

Bundle == INSTANCE ReportBundle WITH
    Versions <- BundleVersions, Reconciles <- BundleReconciles,
    review <- bundleReview, source <- bundleSource, edits <- bundleEdits, runs <- bundleRuns

Conversion == INSTANCE SnmpConversion WITH
    Versions <- WalkVersions, MaxEdits <- MaxInputEdits,
    pc <- converter, edits <- inputEdits, runs <- conversions

Drift == INSTANCE TopologyDrift WITH
    None <- unresolved, phase <- driftPhase, row <- driftRow

(***************************************************************************)
(* The components' properties, under their own names.                      *)
(***************************************************************************)

\* A route gets at most one request from each provider, and only a permitted one.
OneRequestPerRoute == Routed!OneRequestPerRoute

\* A returned snapshot answers for every plan item once.
EveryItemAnswered == Routed!EveryItemAnswered

\* The observation's fields are those its evidence decodes to.
FieldsMatchEvidence == Metadata!FieldsMatchEvidence

\* A returned inventory holds every requested symbol that was there all along.
ObservationIsWhole == Inventory!ObservationIsWhole

\* A receipt made without an edit in between names bytes that reconcile.
QuietReceiptIsSound == Receipt!QuietReceiptIsSound

\* A bundle that verifies is whole and of one generation.
VerifiedBundleIsOneGeneration == Bundle!VerifiedBundleIsOneGeneration

\* "The receipt is written last and therefore acts as the completion marker."
ReceiptMarksCompletion == Conversion!ReceiptMarksCompletion

\* Network drift is explained by the rows of the two captures.
DriftIsExplained == Drift!DriftIsExplained
=============================================================================
