--------------------------- MODULE ExecutionOrder ---------------------------
(***************************************************************************)
(* The execution order of the blocks of one FBD network                    *)
(* (src/src/twinforge/analysis/execution_order.py): the network is refused *)
(* unless its links, execAfter overrides and shared variables are all      *)
(* accounted for, and is then sorted in waves, each wave by grid position. *)
(* A block is its index, the order is the rank of each block.              *)
(***************************************************************************)
EXTENDS Integers, FiniteSets

CONSTANT Diagrams     \* FBD networks

VARIABLES
    diagram,     \* the network: see the instance for its fields
    remaining,   \* the dependencies not yet met of each block not yet ordered
    rank,        \* the place of each ordered block
    basis,       \* what the order stored with the network rests on
    outcome      \* "pending", "sorting", or what became of the network

vars == <<diagram, remaining, rank, basis, outcome>>

Blocks == diagram.blocks

------------------------------------------------------------------------------
(* A block with an execAfter text has in after[i] the blocks of that name. *)

BadOverride == \E i \in diagram.named : \A j \in Blocks \ {i} : diagram.after[i] # {j}

Overrides == {p \in Blocks \X Blocks : p[2] \in diagram.named /\ p[1] \in diagram.after[p[2]]}

SharedPairs ==
    {p \in Blocks \X Blocks : p[1] # p[2] /\ \E g \in diagram.shared : p[1] \in g.writers /\ p[2] \in g.readers}

\* Mutant: the shared variables are not compared with the links.
IncompleteGraphLinksOnly == ~diagram.trusted

\* _dependency_graph gives up on a link without both ends, and on dataflow
\* through a shared variable that no link shows.
IncompleteGraph == ~diagram.trusted \/ ~(SharedPairs \subseteq diagram.links)

Depends(i) == {j \in Blocks : <<j, i>> \in diagram.links \cup Overrides}

Ambiguous == diagram.clean /\ \E g \in diagram.shared : Cardinality(g.writers) > 1

Init ==
    /\ diagram \in Diagrams
    /\ remaining = [i \in {} |-> {}]
    /\ rank = [i \in {} |-> 0]
    /\ basis \in {"none", "evidence", "shared_variable_dataflow"}
    /\ outcome = "pending"

\* The checks before the sort, in the code's order; an order inferred from shared
\* variables is withdrawn even from a network this run excludes.
Check ==
    /\ outcome = "pending"
    /\ basis' = IF basis = "shared_variable_dataflow" THEN "none" ELSE basis
    /\ outcome' = IF basis' # "none" \/ diagram.excluded \/ Cardinality(Blocks) < 2 \/ ~diagram.pure
                  THEN "skipped"
                  ELSE IF BadOverride THEN "unresolved_execution_after"
                  ELSE IF Ambiguous THEN "ambiguous_block_order"
                  ELSE IF IncompleteGraph \/ ~diagram.placed THEN "skipped"
                  ELSE "sorting"
    /\ remaining' = IF outcome' = "sorting" THEN [i \in Blocks |-> Depends(i)] ELSE remaining
    /\ UNCHANGED <<diagram, rank>>

Ready == {i \in DOMAIN remaining : remaining[i] = {}}

\* Mutant: blocks of a wave keep the order of the objects.
AheadByObject(i, j) == i < j

\* Position order within a wave; equal positions keep the order of the objects.
Ahead(i, j) ==
    \/ diagram.position[i] < diagram.position[j]
    \/ diagram.position[i] = diagram.position[j] /\ i < j

Wave ==
    /\ outcome = "sorting"
    /\ Ready # {}
    /\ LET done == Cardinality(DOMAIN rank)
       IN  rank' = [i \in DOMAIN rank \cup Ready |->
                       IF i \in Ready THEN done + 1 + Cardinality({j \in Ready : Ahead(j, i)})
                       ELSE rank[i]]
    /\ remaining' = [i \in DOMAIN remaining \ Ready |-> remaining[i] \ Ready]
    /\ UNCHANGED <<diagram, basis, outcome>>

Cycle ==
    /\ outcome = "sorting"
    /\ Ready = {} /\ DOMAIN remaining # {}
    /\ outcome' = "cyclic_block_dependency"
    /\ UNCHANGED <<diagram, remaining, rank, basis>>

Store ==
    /\ outcome = "sorting"
    /\ DOMAIN remaining = {}
    /\ outcome' = "resolved"
    /\ basis' = IF diagram.named = {} THEN "documented_dependency_order"
                ELSE "dependency_order_with_exec_after"
    /\ UNCHANGED <<diagram, remaining, rank>>

Finished == outcome \notin {"pending", "sorting"} /\ UNCHANGED vars

Next == Check \/ Wave \/ Cycle \/ Store \/ Finished

Spec == Init /\ [][Next]_vars

------------------------------------------------------------------------------
\* Every dependency the network shows: links, overrides, and a shared variable
\* written by one block and read by another.
Dependencies == diagram.links \cup Overrides \cup SharedPairs

\* The order recorded for a network runs every block after all it depends on,
\* through a link, an override or a shared variable.
OrderRespectsDependencies ==
    outcome = "resolved" =>
        /\ DOMAIN rank = Blocks
        /\ \A p \in Dependencies : rank[p[1]] < rank[p[2]]

\* The longest chain of dependencies into a block.
Depth(i) ==
    LET depth[j \in Blocks] ==
            LET before == {depth[k] : k \in Depends(j)}
            IN  IF before = {} THEN 0 ELSE 1 + CHOOSE m \in before : \A n \in before : n <= m
    IN  depth[i]

\* The order is the documented one: a block runs before one that stands ahead of
\* it on the grid only where the other is deeper in the dependencies; and a network
\* called cyclic has no order at all.
OrderFollowsPosition ==
    /\ outcome = "resolved" =>
           /\ \A i, j \in Blocks : rank[i] = rank[j] => i = j
           /\ \A i, j \in Blocks : rank[i] < rank[j] /\ diagram.position[j] < diagram.position[i]
                                     => Depth(i) < Depth(j)
    /\ outcome = "cyclic_block_dependency" =>
           \A order \in [Blocks -> 1..Cardinality(Blocks)] :
               \E p \in Dependencies : order[p[1]] >= order[p[2]]
=============================================================================
