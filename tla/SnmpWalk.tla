------------------------------ MODULE SnmpWalk ------------------------------
(***************************************************************************)
(* The bounded walk behind both SNMP providers (_read_records in           *)
(* discovery/snmp_pysnmp.py).  Each root of the policy has rows, in the    *)
(* order the agent gives them; roots may overlap.                          *)
(***************************************************************************)
EXTENDS Naturals, Sequences, FiniteSets, SequencesExt

CONSTANTS Trees,          \* possible agents: the rows below each root, in order
          VarbindBudgets, \* max_varbinds
          ResponseBudgets \* max_responses

\* An agent gives the rows below a root in order, so no row twice.
ASSUME WalkAssumption ==
    /\ \A t \in Trees : /\ DOMAIN t = 1..Len(t) /\ Len(t) \in Nat
                        /\ \A i \in DOMAIN t : /\ DOMAIN t[i] = 1..Len(t[i]) /\ Len(t[i]) \in Nat
                                               /\ IsInjective(t[i])
    /\ VarbindBudgets \subseteq Nat \ {0} /\ ResponseBudgets \subseteq Nat \ {0}

VARIABLES tree, max_varbinds, max_responses,
          root, row, maxRows,  \* the walk of one root: position and row limit
          records, responses, phase,
          sent                 \* history: requests the walker sent

vars == <<tree, max_varbinds, max_responses, root, row, maxRows, records, responses,
          phase, sent>>

policy == <<tree, max_varbinds, max_responses>>

Init ==
    /\ tree \in Trees /\ max_varbinds \in VarbindBudgets
    /\ max_responses \in ResponseBudgets
    /\ root = 1 /\ row = 0 /\ maxRows = 0 /\ records = {} /\ responses = 0
    /\ phase = "root" /\ sent = 0

Remaining == max_varbinds - Cardinality(records)

\* The next root gets what is left of the varbind budget.
BeginRoot ==
    /\ phase = "root" /\ root <= Len(tree)
    /\ IF Cardinality(records) >= max_varbinds THEN phase' = "failed" /\ UNCHANGED maxRows
       ELSE phase' = "walking" /\ maxRows' = Remaining
    /\ row' = 1
    /\ UNCHANGED <<policy, root, records, responses, sent>>

\* Mutant: a root is skipped.
EndRootSkips == root' = root + 2 /\ phase' = "root"

EndRoot == root' = root + 1 /\ phase' = "root"

\* external: walk_cmd asks for the next row and ends below the root's last one, or
\* after maxRows rows.
WalkEnds ==
    /\ phase = "walking" /\ (row > Len(tree[root]) \/ row > maxRows)
    /\ EndRoot
    /\ sent' = IF row > maxRows THEN sent ELSE sent + 1
    /\ UNCHANGED <<policy, row, maxRows, records, responses>>

OverBudget(n) == n > max_responses

Response ==
    /\ phase = "walking" /\ row <= Len(tree[root]) /\ row <= maxRows
    /\ responses' = responses + 1 /\ sent' = sent + 1
    /\ IF OverBudget(responses + 1) THEN phase' = "failed" /\ UNCHANGED <<row, records>>
       ELSE /\ records' = records \cup {tree[root][row]}
            /\ row' = row + 1
            /\ phase' = IF Cardinality(records') > max_varbinds THEN "failed" ELSE phase
    /\ UNCHANGED <<policy, root, maxRows>>

\* A timeout after its retries, or an agent error, comes as a response of its own.
WalkFails ==
    /\ phase = "walking" /\ row <= maxRows
    /\ responses' = responses + 1 /\ sent' = sent + 1
    /\ phase' = "failed"
    /\ UNCHANGED <<policy, root, row, maxRows, records>>

Return ==
    /\ phase = "root" /\ root > Len(tree)
    /\ phase' = "done"
    /\ UNCHANGED <<policy, root, row, maxRows, records, responses, sent>>

Next == BeginRoot \/ WalkEnds \/ Response \/ WalkFails \/ Return

Spec == Init /\ [][Next]_vars

(***************************************************************************)
(* Properties.                                                             *)
(***************************************************************************)

Allowlisted == UNION {ToSet(tree[i]) : i \in DOMAIN tree}

\* No row lies below two roots.
Disjoint ==
    \A i, j \in DOMAIN tree : i # j => ToSet(tree[i]) \cap ToSet(tree[j]) = {}

\* A returned capture is short only when the rows read, those read twice counted,
\* reached the varbind budget; and when the roots do not overlap it is short in the
\* last root only.
ShortOnlyAtBudget ==
    phase = "done" =>
        /\ records = Allowlisted \/ responses >= max_varbinds
        /\ Disjoint => \A i \in DOMAIN tree : i < Len(tree) => ToSet(tree[i]) \subseteq records

\* "Exhausting either budget raises a structured DiscoveryProviderError and stops
\* the capture. Partial observations are not returned as if the capture had
\* completed normally."
PartialNotReturned == phase = "done" => records = Allowlisted
=============================================================================
