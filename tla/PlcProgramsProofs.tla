-------------------------- MODULE PlcProgramsProofs --------------------------
(***************************************************************************)
(* TLAPS proofs about the PLC-side components, for every value of their    *)
(* constants: widths of the counter, presets, scan times, Mode bits and    *)
(* networks.  One section per component, each with the inductive invariant *)
(* its property needs.                                                     *)
(***************************************************************************)
EXTENDS PlcPrograms, FiniteSetTheorems, TLAPS

------------------------------------------------------------------------------
(***************************************************************************)
(* ExecutionOrder: the order recorded for a network respects every         *)
(* dependency, whatever the network.  The invariant: what is not yet       *)
(* ordered still waits for exactly its unordered dependencies, what is     *)
(* ordered came after all of its own, and no rank exceeds the number of    *)
(* ordered blocks, so the next wave is ranked above everything before it.  *)
(***************************************************************************)

\* The instance counts sets with its own copy of Cardinality, which is the same.
LEMMA OrderCardinality == \A S : Order!Cardinality(S) = Cardinality(S)
BY Zenon DEF Order!Cardinality, Cardinality

\* Blocks are ordered or remain.
Partition ==
    /\ DOMAIN remaining \cap DOMAIN rank = {}
    /\ DOMAIN remaining \cup DOMAIN rank = Order!Blocks

\* A remaining block waits for its unordered dependencies.
Waits == \A i \in DOMAIN remaining : remaining[i] = Order!Depends(i) \ DOMAIN rank

\* An ordered block has its dependencies before it.
Ranked ==
    \A i \in DOMAIN rank :
        /\ rank[i] \in Nat /\ rank[i] <= Cardinality(DOMAIN rank)
        /\ \A j \in Order!Depends(i) : j \in DOMAIN rank /\ rank[j] < rank[i]

Sorting == Partition /\ Waits /\ Ranked /\ Order!SharedPairs \subseteq diagram.links

OrderInv ==
    /\ diagram \in Diagrams
    /\ DOMAIN rank = {} \/ outcome # "pending"
    /\ outcome \in {"sorting", "resolved"} => Sorting
    /\ outcome = "resolved" => DOMAIN remaining = {}

\* A wave ranks its blocks above everything ordered before and within the new
\* number of ordered blocks.
LEMMA WaveRanks ==
    ASSUME diagram \in Diagrams, Partition,
           NEW i \in Order!Ready
    PROVE  LET done == Cardinality(DOMAIN rank)
               ahead == Cardinality({j \in Order!Ready : Order!Ahead(j, i)})
           IN  /\ done \in Nat /\ ahead \in Nat
               /\ done + 1 + ahead <= Cardinality(DOMAIN rank \cup Order!Ready)
<1> DEFINE A == {j \in Order!Ready : Order!Ahead(j, i)}
<1>1. IsFiniteSet(Order!Blocks) /\ Order!Ready \subseteq Order!Blocks /\ DOMAIN rank \subseteq Order!Blocks
      /\ Order!Ready \cap DOMAIN rank = {}
  BY DiagramsAssumption DEF Partition, Order!Ready, Order!Blocks
<1>2. IsFiniteSet(Order!Ready) /\ IsFiniteSet(DOMAIN rank)
  BY <1>1, FS_Subset
<1>3. i \notin A
  <2>1. i \in Nat /\ diagram.position[i] \in Int
    BY <1>1, DiagramsAssumption DEF Order!Blocks
  <2>2. QED
    BY <2>1 DEF Order!Ahead
<1>4. A \subseteq Order!Ready \ {i} /\ IsFiniteSet(Order!Ready \ {i})
  BY <1>2, <1>3, FS_Subset
<1>5. Cardinality(A) <= Cardinality(Order!Ready \ {i}) /\ Cardinality(A) \in Nat
  BY <1>4, FS_Subset, FS_CardinalityType
<1>6. Cardinality(Order!Ready \ {i}) = Cardinality(Order!Ready) - 1
  BY <1>2, FS_RemoveElement
<1>7. Cardinality(DOMAIN rank \cup Order!Ready) = Cardinality(DOMAIN rank) + Cardinality(Order!Ready)
  <2>1. Cardinality(DOMAIN rank \cap Order!Ready) = 0
    <3>1. DOMAIN rank \cap Order!Ready = {}
      BY <1>1
    <3>2. QED
      BY <3>1, FS_EmptySet
  <2>2. Cardinality(DOMAIN rank \cup Order!Ready)
            = Cardinality(DOMAIN rank) + Cardinality(Order!Ready) - Cardinality(DOMAIN rank \cap Order!Ready)
    BY <1>2, FS_Union
  <2>3. Cardinality(DOMAIN rank) \in Nat /\ Cardinality(Order!Ready) \in Nat
    BY <1>2, FS_CardinalityType
  <2>4. QED
    BY <2>1, <2>2, <2>3
<1>8. Cardinality(Order!Ready) \in Nat /\ Cardinality(DOMAIN rank) \in Nat
  BY <1>2, FS_CardinalityType
<1>9. QED
  BY <1>5, <1>6, <1>7, <1>8

LEMMA OrderInvInit ==
    ASSUME Order!Init
    PROVE  OrderInv
BY DEF Order!Init, OrderInv

LEMMA CheckKeepsOrder ==
    ASSUME OrderInv, Order!Check
    PROVE  OrderInv'
<1>1. diagram' = diagram /\ rank' = rank /\ outcome = "pending" /\ DOMAIN rank = {}
  BY DEF Order!Check, OrderInv
<1>2. outcome' \notin {"pending", "resolved"} /\ diagram' \in Diagrams
  BY <1>1 DEF Order!Check, OrderInv
<1>3. ASSUME outcome' = "sorting" PROVE Sorting'
  <2>1. remaining' = [i \in Order!Blocks |-> Order!Depends(i)] /\ ~Order!IncompleteGraph
    BY <1>1, <1>3 DEF Order!Check
  <2>2. Order!Blocks' = Order!Blocks /\ Order!SharedPairs' = Order!SharedPairs /\ \A i : Order!Depends(i)' = Order!Depends(i)
    BY <1>1 DEF Order!Blocks, Order!SharedPairs, Order!Depends, Order!Overrides
  <2>3. (Order!SharedPairs \subseteq diagram.links)'
    BY <1>1, <2>1, <2>2 DEF Order!IncompleteGraph
  <2>4. Partition' /\ Ranked'
    BY <1>1, <2>1, <2>2 DEF Partition, Ranked
  <2>5. Waits'
    BY <1>1, <2>1, <2>2 DEF Waits
  <2>6. QED
    BY <2>3, <2>4, <2>5 DEF Sorting
<1>4. QED
  BY <1>1, <1>2, <1>3 DEF OrderInv

LEMMA WaveKeepsOrder ==
    ASSUME OrderInv, Order!Wave
    PROVE  OrderInv'
<1> DEFINE done == Cardinality(DOMAIN rank)
           ahead(i) == Cardinality({j \in Order!Ready : Order!Ahead(j, i)})
<1>1. diagram' = diagram /\ outcome' = outcome /\ outcome = "sorting" /\ Sorting
  BY DEF Order!Wave, OrderInv
<1>2. Order!Blocks' = Order!Blocks /\ Order!SharedPairs' = Order!SharedPairs /\ \A i : Order!Depends(i)' = Order!Depends(i)
  BY <1>1 DEF Order!Blocks, Order!SharedPairs, Order!Depends, Order!Overrides
<1>3. /\ rank' = [i \in DOMAIN rank \cup Order!Ready |->
                     IF i \in Order!Ready THEN done + 1 + ahead(i) ELSE rank[i]]
      /\ remaining' = [i \in DOMAIN remaining \ Order!Ready |-> remaining[i] \ Order!Ready]
  BY OrderCardinality DEF Order!Wave
<1>4. /\ DOMAIN rank' = DOMAIN rank \cup Order!Ready
      /\ DOMAIN remaining' = DOMAIN remaining \ Order!Ready
      /\ Order!Ready \subseteq DOMAIN remaining
  BY <1>3 DEF Order!Ready
<1>5. Partition'
  BY <1>1, <1>2, <1>4 DEF Sorting, Partition
<1>6. Waits'
  BY <1>1, <1>2, <1>3, <1>4 DEF Sorting, Waits
<1>7. Ranked'
  <2> SUFFICES ASSUME NEW i \in DOMAIN rank'
               PROVE  /\ rank'[i] \in Nat /\ rank'[i] <= Cardinality(DOMAIN rank')
                      /\ \A j \in Order!Depends(i) : j \in DOMAIN rank' /\ rank'[j] < rank'[i]
    BY <1>2 DEF Ranked
  <2>1. CASE i \in Order!Ready
    <3>1. /\ done \in Nat /\ ahead(i) \in Nat
          /\ done + 1 + ahead(i) <= Cardinality(DOMAIN rank \cup Order!Ready)
      BY <1>1, <2>1, WaveRanks DEF OrderInv, Sorting
    <3>2. rank'[i] = done + 1 + ahead(i)
      BY <1>3, <1>4, <2>1
    <3>3. Order!Depends(i) \subseteq DOMAIN rank
      BY <1>1, <2>1 DEF Order!Ready, Sorting, Waits
    <3>4. \A j \in Order!Depends(i) : j \notin Order!Ready /\ rank'[j] = rank[j] /\ rank[j] \in Nat /\ rank[j] <= done
      BY <1>1, <1>3, <1>4, <3>3 DEF Sorting, Partition, Ranked
    <3> HIDE DEF done, ahead
    <3>5. rank'[i] \in Nat /\ rank'[i] <= Cardinality(DOMAIN rank')
      BY <1>4, <3>1, <3>2
    <3>6. \A j \in Order!Depends(i) : j \in DOMAIN rank' /\ rank'[j] < rank'[i]
      BY <1>4, <3>1, <3>2, <3>3, <3>4
    <3>7. QED
      BY <3>5, <3>6
  <2>2. CASE i \notin Order!Ready
    <3>1. i \in DOMAIN rank /\ rank'[i] = rank[i]
      BY <1>3, <1>4, <2>2
    <3>2. \A j \in Order!Depends(i) : j \in DOMAIN rank /\ rank[j] < rank[i]
      BY <1>1, <3>1 DEF Sorting, Ranked
    <3>3. \A j \in DOMAIN rank : j \notin Order!Ready /\ rank'[j] = rank[j]
      BY <1>1, <1>3, <1>4 DEF Sorting, Partition
    <3>4. Cardinality(DOMAIN rank) <= Cardinality(DOMAIN rank') /\ Cardinality(DOMAIN rank') \in Nat
          /\ Cardinality(DOMAIN rank) \in Nat
      <4>1. IsFiniteSet(Order!Blocks) /\ DOMAIN rank' \subseteq Order!Blocks /\ DOMAIN rank \subseteq DOMAIN rank'
        BY <1>1, <1>2, <1>4, <1>5, DiagramsAssumption DEF OrderInv, Order!Blocks, Partition
      <4>2. QED
        BY <4>1, FS_Subset, FS_CardinalityType
    <3>5. rank[i] \in Nat /\ rank[i] <= Cardinality(DOMAIN rank)
      BY <1>1, <3>1 DEF Sorting, Ranked
    <3>6. rank'[i] \in Nat /\ rank'[i] <= Cardinality(DOMAIN rank')
      BY <3>1, <3>4, <3>5
    <3>7. \A j \in Order!Depends(i) : j \in DOMAIN rank' /\ rank'[j] < rank'[i]
      BY <1>4, <3>1, <3>2, <3>3
    <3>8. QED
      BY <3>6, <3>7
  <2>3. QED
    BY <2>1, <2>2
<1>8. QED
  BY <1>1, <1>2, <1>5, <1>6, <1>7 DEF OrderInv, Sorting

\* No step takes the network out of the invariant.
LEMMA OrderInvStep ==
    ASSUME OrderInv, [Order!Next]_(Order!vars)
    PROVE  OrderInv'
<1> USE DEF OrderInv
<1>1. CASE Order!Check
  BY <1>1, CheckKeepsOrder
<1>2. CASE Order!Wave
  BY <1>2, WaveKeepsOrder
<1>3. CASE Order!Cycle
  BY <1>3 DEF Order!Cycle
<1>4. CASE Order!Store
  <2>1. Sorting' <=> Sorting
    BY <1>4 DEF Order!Store, Sorting, Partition, Waits, Ranked, Order!SharedPairs, Order!Blocks, Order!Depends, Order!Overrides
  <2>2. QED
    BY <1>4, <2>1 DEF Order!Store
<1>5. CASE Order!Finished \/ UNCHANGED Order!vars
  BY <1>5 DEF Order!Finished, Order!vars, Sorting, Partition, Waits, Ranked, Order!SharedPairs, Order!Blocks, Order!Depends, Order!Overrides
<1>6. QED
  BY <1>1, <1>2, <1>3, <1>4, <1>5 DEF Order!Next

\* A recorded order respects links, overrides and shared variables.
LEMMA OrderInvSound ==
    ASSUME OrderInv
    PROVE  Order!OrderRespectsDependencies
<1> SUFFICES ASSUME outcome = "resolved"
             PROVE  /\ DOMAIN rank = Order!Blocks
                    /\ \A p \in Order!Dependencies : rank[p[1]] < rank[p[2]]
  BY DEF Order!OrderRespectsDependencies
<1>1. Sorting /\ DOMAIN rank = Order!Blocks
  BY DEF OrderInv, Sorting, Partition
<1>2. ASSUME NEW p \in Order!Dependencies PROVE rank[p[1]] < rank[p[2]]
  <2>1. p \in diagram.links \cup Order!Overrides
    BY <1>1, <1>2 DEF Sorting, Order!Dependencies
  <2>2. p \in Order!Blocks \X Order!Blocks
    BY <2>1, DiagramsAssumption DEF OrderInv, Order!Overrides, Order!Blocks
  <2>3. p = <<p[1], p[2]>> /\ p[1] \in Order!Blocks /\ p[2] \in Order!Blocks
    BY <2>2
  <2>4. p[1] \in Order!Depends(p[2])
    BY <2>1, <2>3 DEF Order!Depends
  <2>5. QED
    BY <1>1, <2>3, <2>4 DEF Sorting, Ranked
<1>3. QED
  BY <1>1, <1>2

\* Whatever the network, an order is only recorded when every block comes after all
\* the blocks its links, overrides and shared variables make it depend on.
THEOREM OrderIsSound == Order!Spec => []OrderRespectsDependencies
<1>1. Order!Init => OrderInv
  BY OrderInvInit
<1>2. OrderInv /\ [Order!Next]_(Order!vars) => OrderInv'
  BY OrderInvStep
<1>3. OrderInv => OrderRespectsDependencies
  BY OrderInvSound DEF OrderRespectsDependencies
<1>4. QED
  BY <1>1, <1>2, <1>3, PTL DEF Order!Spec

(***************************************************************************)
(* The order is the documented one.  The waves of the sort are the levels  *)
(* of the network: the invariant carries a level for each ordered block,   *)
(* one more than the highest level among the blocks it depends on, and     *)
(* says that a block is ready now because one it depends on was in the     *)
(* last wave.  The longest chain into a block is then its level.           *)
(***************************************************************************)

Levels(L, w) ==
    /\ w \in Nat /\ L \in [DOMAIN rank -> Nat]
    /\ \A i \in DOMAIN rank :
          /\ L[i] < w
          /\ \A k \in Order!Depends(i) : L[k] < L[i]
          /\ (L[i] = 0 /\ Order!Depends(i) = {}) \/ \E k \in Order!Depends(i) : L[k] + 1 = L[i]
    /\ \A i \in DOMAIN remaining : remaining[i] = {} =>
          (w = 0 /\ Order!Depends(i) = {}) \/ \E k \in Order!Depends(i) : L[k] + 1 = w
    /\ \A i, j \in DOMAIN rank :
          /\ rank[i] = rank[j] => i = j
          /\ rank[i] < rank[j] =>
                L[i] < L[j] \/ (L[i] = L[j] /\ diagram.position[i] <= diagram.position[j])

\* A cyclic network: blocks remain and each waits for another one that does.
Stuck == Partition /\ Waits /\ Order!Ready = {} /\ DOMAIN remaining # {}

PlacedInv ==
    /\ OrderInv
    /\ outcome \in {"sorting", "resolved"} => \E L, w : Levels(L, w)
    /\ outcome = "cyclic_block_dependency" => Stuck

LEMMA LeastNatural ==
    ASSUME NEW S \in SUBSET Nat, S # {}
    PROVE  \E n \in S : \A m \in S : n <= m
<1>1. \E n \in S : \A m \in S : <<m, n>> \notin OpToRel(<, Nat)
  BY NatLessThanWellFounded, WFMin
<1>2. \A n, m \in Nat : <<m, n>> \notin OpToRel(<, Nat) => ~(m < n)
  BY Zenon DEF OpToRel
<1>3. \A n, m \in Nat : ~(m < n) => n <= m
  OBVIOUS
<1>4. QED
  BY <1>1, <1>2, <1>3, Zenon

\* The blocks of a wave are counted in the order of their positions.
LEMMA AheadCounts ==
    ASSUME diagram \in Diagrams, Partition, NEW i \in Order!Ready, NEW j \in Order!Ready,
           Order!Ahead(j, i)
    PROVE  Cardinality({k \in Order!Ready : Order!Ahead(k, j)})
           < Cardinality({k \in Order!Ready : Order!Ahead(k, i)})
<1> DEFINE A(n) == {k \in Order!Ready : Order!Ahead(k, n)}
<1>1. Order!Ready \subseteq Order!Blocks /\ IsFiniteSet(Order!Blocks) /\ Order!Blocks \subseteq Nat
  BY DiagramsAssumption DEF Partition, Order!Ready, Order!Blocks
<1>2. \A k \in Order!Ready : k \in Nat /\ diagram.position[k] \in Int
  BY <1>1, DiagramsAssumption DEF Order!Blocks
<1>3. \A k \in Order!Ready : Order!Ahead(k, j) => Order!Ahead(k, i)
  BY <1>2 DEF Order!Ahead
<1>4. ~Order!Ahead(j, j)
  BY <1>2 DEF Order!Ahead
<1>5. A(j) \subseteq A(i) /\ j \in A(i) /\ j \notin A(j) /\ A(i) \subseteq Order!Blocks
  BY <1>1, <1>3, <1>4
<1>6. IsFiniteSet(A(i))
  BY <1>1, <1>5, FS_Subset
<1>7. QED
  BY <1>5, <1>6, FS_Subset, FS_CardinalityType

LEMMA AheadTotal ==
    ASSUME diagram \in Diagrams, Partition, NEW i \in Order!Ready, NEW j \in Order!Ready
    PROVE  /\ i = j \/ Order!Ahead(i, j) \/ Order!Ahead(j, i)
           /\ ~Order!Ahead(j, i) => diagram.position[i] <= diagram.position[j]
<1>1. /\ i \in Nat /\ j \in Nat /\ diagram.position[i] \in Int /\ diagram.position[j] \in Int
  BY DiagramsAssumption DEF Partition, Order!Ready, Order!Blocks
<1>2. QED
  BY <1>1 DEF Order!Ahead

LEMMA WaveKeepsLevels ==
    ASSUME OrderInv, Order!Wave, NEW L, NEW w, Levels(L, w)
    PROVE  \E M, v : Levels(M, v)'
<1> DEFINE done == Cardinality(DOMAIN rank)
           ahead(i) == Cardinality({j \in Order!Ready : Order!Ahead(j, i)})
           M == [i \in DOMAIN rank \cup Order!Ready |-> IF i \in Order!Ready THEN w ELSE L[i]]
<1>1. diagram' = diagram /\ outcome = "sorting" /\ Sorting /\ Partition /\ diagram \in Diagrams
  BY DEF Order!Wave, OrderInv, Sorting
<1>2. \A i : Order!Depends(i)' = Order!Depends(i)
  BY <1>1 DEF Order!Blocks, Order!Depends, Order!Overrides
<1>3. /\ rank' = [i \in DOMAIN rank \cup Order!Ready |->
                     IF i \in Order!Ready THEN done + 1 + ahead(i) ELSE rank[i]]
      /\ remaining' = [i \in DOMAIN remaining \ Order!Ready |-> remaining[i] \ Order!Ready]
  BY OrderCardinality DEF Order!Wave
<1>4. /\ DOMAIN rank' = DOMAIN rank \cup Order!Ready
      /\ DOMAIN remaining' = DOMAIN remaining \ Order!Ready
      /\ Order!Ready \subseteq DOMAIN remaining /\ Order!Ready \cap DOMAIN rank = {}
  BY <1>1, <1>3 DEF Order!Ready, Partition
<1>5. \A i \in Order!Ready : rank'[i] = done + 1 + ahead(i) /\ done \in Nat /\ ahead(i) \in Nat
  BY <1>1, <1>3, WaveRanks
<1>6. \A i \in DOMAIN rank : rank'[i] = rank[i] /\ rank[i] \in Nat /\ rank[i] <= done
  BY <1>1, <1>3, <1>4 DEF Sorting, Ranked
<1>7. /\ w \in Nat /\ w + 1 \in Nat /\ M \in [DOMAIN rank' -> Nat]
      /\ \A i \in Order!Ready : M[i] = w
      /\ \A i \in DOMAIN rank : M[i] = L[i] /\ L[i] \in Nat /\ L[i] < w
  BY <1>4 DEF Levels
<1> HIDE DEF M, done, ahead
<1>8. ASSUME NEW i \in DOMAIN rank'
      PROVE  /\ M[i] < w + 1
             /\ \A k \in Order!Depends(i) : M[k] < M[i]
             /\ (M[i] = 0 /\ Order!Depends(i) = {}) \/ \E k \in Order!Depends(i) : M[k] + 1 = M[i]
  <2>1. CASE i \in Order!Ready
    <3>1. Order!Depends(i) \subseteq DOMAIN rank /\ remaining[i] = {} /\ i \in DOMAIN remaining
      BY <1>1, <2>1 DEF Order!Ready, Sorting, Waits
    <3>2. (w = 0 /\ Order!Depends(i) = {}) \/ \E k \in Order!Depends(i) : L[k] + 1 = w
      BY <3>1 DEF Levels
    <3>3. QED
      BY <1>7, <2>1, <3>1, <3>2
  <2>2. CASE i \in DOMAIN rank
    <3>1. Order!Depends(i) \subseteq DOMAIN rank
      BY <1>1, <2>2 DEF Sorting, Ranked
    <3>2. /\ \A k \in Order!Depends(i) : L[k] < L[i]
          /\ (L[i] = 0 /\ Order!Depends(i) = {}) \/ \E k \in Order!Depends(i) : L[k] + 1 = L[i]
      BY <2>2 DEF Levels
    <3>3. QED
      BY <1>7, <2>2, <3>1, <3>2
  <2>3. QED
    BY <1>4, <2>1, <2>2
<1>9. ASSUME NEW i \in DOMAIN remaining', remaining'[i] = {}
      PROVE  \E k \in Order!Depends(i) : M[k] + 1 = w + 1
  <2>1. /\ i \in DOMAIN remaining /\ remaining[i] # {} /\ remaining[i] \ Order!Ready = {}
        /\ remaining[i] \subseteq Order!Depends(i)
    BY <1>1, <1>3, <1>4, <1>9 DEF Order!Ready, Sorting, Waits
  <2>2. PICK k \in Order!Ready : k \in Order!Depends(i)
    BY <2>1
  <2>3. QED
    BY <1>7, <2>2
<1>10. ASSUME NEW i \in DOMAIN rank', NEW j \in DOMAIN rank'
       PROVE  /\ rank'[i] = rank'[j] => i = j
              /\ rank'[i] < rank'[j] =>
                    M[i] < M[j] \/ (M[i] = M[j] /\ diagram.position[i] <= diagram.position[j])
  <2>1. CASE i \in DOMAIN rank /\ j \in DOMAIN rank
    BY <1>6, <1>7, <2>1 DEF Levels
  <2>2. CASE i \in DOMAIN rank /\ j \in Order!Ready
    <3>1. rank'[i] < rank'[j]
      BY <1>5, <1>6, <2>2
    <3>2. M[i] < M[j]
      BY <1>7, <2>2
    <3>3. rank'[i] # rank'[j]
      BY <1>5, <1>6, <2>2
    <3>4. QED
      BY <3>1, <3>2, <3>3
  <2>3. CASE i \in Order!Ready /\ j \in DOMAIN rank
    <3>1. ~(rank'[i] < rank'[j]) /\ rank'[i] # rank'[j]
      BY <1>5, <1>6, <2>3
    <3>2. QED
      BY <3>1
  <2>4. CASE i \in Order!Ready /\ j \in Order!Ready
    <3>1. /\ Order!Ahead(i, j) => ahead(i) < ahead(j)
          /\ Order!Ahead(j, i) => ahead(j) < ahead(i)
      BY <1>1, <2>4, AheadCounts DEF ahead
    <3>2. /\ i = j \/ Order!Ahead(i, j) \/ Order!Ahead(j, i)
          /\ ~Order!Ahead(j, i) => diagram.position[i] <= diagram.position[j]
      BY <1>1, <2>4, AheadTotal
    <3>3. /\ rank'[i] = rank'[j] => ahead(i) = ahead(j)
          /\ rank'[i] < rank'[j] => ahead(i) < ahead(j)
          /\ ahead(i) \in Nat /\ ahead(j) \in Nat
      BY <1>5, <2>4
    <3>4. rank'[i] = rank'[j] => i = j
      BY <3>1, <3>2, <3>3
    <3>5. rank'[i] < rank'[j] => diagram.position[i] <= diagram.position[j]
      BY <3>1, <3>2, <3>3
    <3>6. M[i] = M[j]
      BY <1>7, <2>4
    <3>7. QED
      BY <3>4, <3>5, <3>6
  <2>5. QED
    BY <1>4, <2>1, <2>2, <2>3, <2>4
<1>11. PICK v, N : v = w + 1 /\ N = M
  OBVIOUS
<1>12. Levels(N, v)'
  BY <1>1, <1>2, <1>7, <1>8, <1>9, <1>10, <1>11 DEF Levels
<1>13. QED
  BY <1>12

\* What the longest chain into block j is, given those into the blocks before it.
Longest(f, j) ==
    LET before == {f[k] : k \in Order!Depends(j)}
    IN  IF before = {} THEN 0 ELSE 1 + CHOOSE m \in before : \A n \in before : n <= m

Unfolds(f) == f = [j \in Order!Blocks |-> Longest(f, j)]

LEMMA DepthUnfolds ==
    \A i : Order!Depth(i) = (CHOOSE f : Unfolds(f))[i]
  BY Zenon DEF Order!Depth, Unfolds, Longest

LEMMA LongestIsLevel ==
    ASSUME NEW L, NEW w, Levels(L, w), DOMAIN rank = Order!Blocks, NEW j \in Order!Blocks,
           NEW f, \A k \in Order!Depends(j) : f[k] = L[k]
    PROVE  Longest(f, j) = L[j]
<1> DEFINE before == {f[k] : k \in Order!Depends(j)}
           top == CHOOSE m \in before : \A n \in before : n <= m
<1>1. /\ \A k \in Order!Depends(j) : k \in Order!Blocks
      /\ L[j] \in Nat /\ \A k \in Order!Depends(j) : L[k] \in Nat
  BY DEF Levels, Order!Depends
<1>2. /\ \A k \in Order!Depends(j) : L[k] < L[j]
      /\ (L[j] = 0 /\ Order!Depends(j) = {}) \/ \E k \in Order!Depends(j) : L[k] + 1 = L[j]
  BY DEF Levels
<1>3. CASE Order!Depends(j) = {}
  <2>1. L[j] = 0 /\ before = {}
    BY <1>2, <1>3
  <2>2. QED
    BY <2>1 DEF Longest
<1>4. ASSUME NEW k \in Order!Depends(j), L[k] + 1 = L[j] PROVE Longest(f, j) = L[j]
  <2>1. before # {} /\ L[k] \in before
    BY <1>4
  <2>2. \A n \in before : n \in Nat /\ n < L[j]
    BY <1>1, <1>2
  <2>3. \A n \in before : n <= L[k]
    BY <1>1, <1>4, <2>2
  <2>4. top \in before /\ \A n \in before : n <= top
    BY <2>1, <2>3
  <2> HIDE DEF before, top
  <2>5. top = L[k]
    BY <1>1, <1>4, <2>1, <2>2, <2>3, <2>4
  <2>6. Longest(f, j) = 1 + top
    BY <2>1 DEF Longest, before, top
  <2>7. QED
    BY <1>1, <1>4, <2>5, <2>6
<1>5. QED
  BY <1>2, <1>3, <1>4

\* The depth of a block is its level: the levels satisfy the recursion, and nothing
\* else does.
LEMMA DepthIsLevel ==
    ASSUME diagram \in Diagrams, NEW L, NEW w, Levels(L, w), DOMAIN rank = Order!Blocks,
           NEW i \in Order!Blocks
    PROVE  Order!Depth(i) = L[i]
<1> DEFINE f == CHOOSE g : Unfolds(g)
<1>1. L = [j \in Order!Blocks |-> Longest(L, j)]
  <2>1. L = [j \in Order!Blocks |-> L[j]]
    BY DEF Levels
  <2>2. \A j \in Order!Blocks : Longest(L, j) = L[j]
    BY LongestIsLevel
  <2>3. QED
    BY <2>1, <2>2
<1>2. Unfolds(f)
  BY <1>1, Zenon DEF Unfolds
<1> HIDE DEF f
<1>3. \A j \in Order!Blocks : f[j] = Longest(f, j)
  BY <1>2 DEF Unfolds
<1>4. ASSUME NEW b \in Order!Blocks, f[b] # L[b] PROVE FALSE
  <2> DEFINE T == {L[j] : j \in {q \in Order!Blocks : f[q] # L[q]}}
  <2>1. T \subseteq Nat /\ T # {}
    BY <1>4 DEF Levels
  <2>2. PICK n \in T : \A m \in T : n <= m
    BY <2>1, LeastNatural
  <2>3. PICK j \in Order!Blocks : f[j] # L[j] /\ L[j] = n
    BY <2>2
  <2>4. \A k \in Order!Depends(j) : k \in Order!Blocks /\ L[k] \in Nat /\ L[k] < n
    BY <2>3 DEF Levels, Order!Depends
  <2>5. \A k \in Order!Depends(j) : f[k] = L[k]
    BY <2>1, <2>2, <2>4
  <2>6. QED
    BY <1>3, <2>3, <2>5, LongestIsLevel
<1>5. QED
  BY <1>4, DepthUnfolds DEF f

\* A network whose blocks wait for each other has no order at all: the first of them
\* in such an order would wait for an earlier one.
LEMMA StuckHasNoOrder ==
    ASSUME diagram \in Diagrams, Stuck, NEW N, NEW order \in [Order!Blocks -> 1..N]
    PROVE  \E p \in Order!Dependencies : order[p[1]] >= order[p[2]]
<1> DEFINE T == {order[i] : i \in DOMAIN remaining}
<1>1. DOMAIN remaining \subseteq Order!Blocks /\ \A i \in Order!Blocks : order[i] \in Nat
  BY DEF Stuck, Partition
<1>2. T \subseteq Nat /\ T # {}
  BY <1>1 DEF Stuck
<1>3. PICK n \in T : \A m \in T : n <= m
  BY <1>2, LeastNatural
<1>4. PICK i \in DOMAIN remaining : order[i] = n
  BY <1>3
<1>5. remaining[i] = Order!Depends(i) \ DOMAIN rank /\ remaining[i] # {}
  BY <1>4 DEF Stuck, Waits, Order!Ready
<1>6. PICK j \in Order!Depends(i) : j \notin DOMAIN rank
  BY <1>5
<1>7. j \in DOMAIN remaining /\ <<j, i>> \in Order!Dependencies
  BY <1>6 DEF Order!Depends, Order!Dependencies, Stuck, Partition
<1>8. order[j] >= order[i]
  BY <1>1, <1>3, <1>4, <1>7
<1>9. QED
  BY <1>7, <1>8

LEMMA PlacedInvStep ==
    ASSUME PlacedInv, [Order!Next]_(Order!vars)
    PROVE  PlacedInv'
<1>1. OrderInv /\ OrderInv'
  BY OrderInvStep DEF PlacedInv
<1>2. CASE Order!Check
  <2>1. /\ diagram' = diagram /\ rank' = rank /\ DOMAIN rank = {} /\ outcome' # "resolved"
        /\ outcome' # "cyclic_block_dependency"
    BY <1>1, <1>2 DEF Order!Check, OrderInv
  <2>2. ASSUME outcome' = "sorting" PROVE \E L, w : Levels(L, w)'
    <3>1. remaining' = [i \in Order!Blocks |-> Order!Depends(i)]
      BY <1>2, <2>2 DEF Order!Check
    <3>2. \A i : Order!Depends(i)' = Order!Depends(i)
      BY <2>1 DEF Order!Blocks, Order!Depends, Order!Overrides
    <3>3. Levels([i \in {} |-> 0], 0)'
      BY <2>1, <3>1, <3>2 DEF Levels
    <3>4. QED
      BY <3>3
  <2>3. QED
    BY <1>1, <2>1, <2>2 DEF PlacedInv
<1>3. CASE Order!Wave
  <2>1. outcome = "sorting" /\ outcome' = "sorting"
    BY <1>3 DEF Order!Wave
  <2>2. \E L, w : Levels(L, w)'
    BY <1>1, <1>3, <2>1, WaveKeepsLevels DEF PlacedInv
  <2>3. QED
    BY <1>1, <2>1, <2>2 DEF PlacedInv
<1>4. CASE Order!Cycle
  <2>1. /\ outcome = "sorting" /\ Order!Ready = {} /\ DOMAIN remaining # {}
        /\ outcome' = "cyclic_block_dependency" /\ UNCHANGED <<diagram, remaining, rank>>
    BY <1>4 DEF Order!Cycle
  <2>2. Stuck
    BY <1>1, <2>1 DEF OrderInv, Sorting, Stuck
  <2>3. Stuck'
    BY <2>1, <2>2 DEF Stuck, Partition, Waits, Order!Ready, Order!Blocks, Order!Depends, Order!Overrides
  <2>4. QED
    BY <1>1, <2>1, <2>3 DEF PlacedInv
<1>5. CASE Order!Store \/ Order!Finished \/ UNCHANGED Order!vars
  <2>1. /\ UNCHANGED <<diagram, remaining, rank>>
        /\ outcome' = outcome \/ (outcome = "sorting" /\ outcome' = "resolved")
    BY <1>5 DEF Order!Store, Order!Finished, Order!vars
  <2>2. \A L, w : Levels(L, w)' <=> Levels(L, w)
    BY <2>1 DEF Levels, Order!Blocks, Order!Depends, Order!Overrides
  <2>3. Stuck' <=> Stuck
    BY <2>1 DEF Stuck, Partition, Waits, Order!Ready, Order!Blocks, Order!Depends, Order!Overrides
  <2>4. QED
    BY <1>1, <2>1, <2>2, <2>3 DEF PlacedInv
<1>6. QED
  BY <1>2, <1>3, <1>4, <1>5 DEF Order!Next

\* Whatever the network, the order recorded for it is that of the longest chains of
\* dependencies and, within one length, of the positions on the grid; and a network
\* is called cyclic only when no order respects its dependencies.
THEOREM OrderIsDocumented == Order!Spec => []OrderFollowsPosition
<1>1. Order!Init => PlacedInv
  BY OrderInvInit DEF PlacedInv, Order!Init
<1>2. PlacedInv => OrderFollowsPosition
  <2>1. SUFFICES ASSUME PlacedInv PROVE Order!OrderFollowsPosition
    BY DEF OrderFollowsPosition
  <2>2. diagram \in Diagrams
    BY <2>1 DEF PlacedInv, OrderInv
  <2>3. ASSUME outcome = "resolved"
        PROVE  /\ \A i, j \in Order!Blocks : rank[i] = rank[j] => i = j
               /\ \A i, j \in Order!Blocks :
                     rank[i] < rank[j] /\ diagram.position[j] < diagram.position[i]
                         => Order!Depth(i) < Order!Depth(j)
    <3>1. PICK L, w : Levels(L, w)
      BY <2>1, <2>3 DEF PlacedInv
    <3>2. DOMAIN rank = Order!Blocks
      BY <2>1, <2>3 DEF PlacedInv, OrderInv, Sorting, Partition
    <3>3. \A i \in Order!Blocks : Order!Depth(i) = L[i] /\ diagram.position[i] \in Int
      BY <2>2, <3>1, <3>2, DepthIsLevel, DiagramsAssumption DEF Order!Blocks
    <3>4. \A i, j \in Order!Blocks :
             /\ rank[i] = rank[j] => i = j
             /\ rank[i] < rank[j] =>
                   L[i] < L[j] \/ (L[i] = L[j] /\ diagram.position[i] <= diagram.position[j])
      BY <3>1, <3>2 DEF Levels
    <3>5. QED
      BY <3>3, <3>4
  <2>4. ASSUME outcome = "cyclic_block_dependency",
               NEW order \in [Order!Blocks -> 1..Order!Cardinality(Order!Blocks)]
        PROVE  \E p \in Order!Dependencies : order[p[1]] >= order[p[2]]
    BY <2>1, <2>2, <2>4, StuckHasNoOrder DEF PlacedInv
  <2>5. QED
    BY <2>3, <2>4 DEF Order!OrderFollowsPosition
<1>3. PlacedInv /\ [Order!Next]_(Order!vars) => PlacedInv'
  BY PlacedInvStep
<1>4. QED
  BY <1>1, <1>2, <1>3, PTL DEF Order!Spec

------------------------------------------------------------------------------
(***************************************************************************)
(* SysModuleRuntime.  A write intent is only made by a scan that finds the *)
(* latch clear, and leaves it set; nothing but a scan without a command    *)
(* clears it, and that scan starts the count again.                        *)
(***************************************************************************)
LatchCovers ==
    /\ osr \in BOOLEAN
    /\ issued \in {0, 1}
    /\ issued = 1 => osr

LEMMA LatchCoversStep ==
    ASSUME LatchCovers, [SysModule!Next]_(SysModule!vars)
    PROVE  LatchCovers'
<1> USE DEF LatchCovers
<1>1. ASSUME NEW inhibit \in BOOLEAN, NEW uninhibit \in BOOLEAN, SysModule!Scan(inhibit, uninhibit)
      PROVE  LatchCovers'
  <2>1. osr' = (inhibit \/ uninhibit)
    BY <1>1 DEF SysModule!Scan
  <2>2. CASE ~(inhibit \/ uninhibit)
    BY <1>1, <2>1, <2>2 DEF SysModule!Scan
  <2>3. CASE (inhibit \/ uninhibit) /\ osr
    <3>1. intent' = SysModule!None
      BY <1>1, <2>3 DEF SysModule!Scan, SysModule!ModeWrite
    <3>2. QED
      BY <1>1, <2>1, <2>3, <3>1 DEF SysModule!Scan
  <2>4. CASE (inhibit \/ uninhibit) /\ ~osr
    BY <1>1, <2>1, <2>4 DEF SysModule!Scan
  <2>5. QED
    BY <2>2, <2>3, <2>4
<1>2. CASE UNCHANGED <<osr, issued>>
  BY <1>2
<1>3. QED
  BY <1>1, <1>2 DEF SysModule!Next, SysModule!ReadFails, SysModule!WriteMode, SysModule!WriteFails,
     SysModule!prescan, SysModule!ModuleStep, SysModule!vars

\* However reads and writes fail and whatever the module does meanwhile, one
\* assertion of the command asks for at most one Mode write.
THEOREM OneWriteAlways == SysModule!Spec => []OneWritePerAssertion
<1>1. ASSUME SysModule!Init PROVE LatchCovers
  <2>1. osr = FALSE /\ issued = 0
    BY <1>1 DEF SysModule!Init
  <2>2. issued # 1
    BY <2>1
  <2>3. QED
    BY <2>1, <2>2 DEF LatchCovers
<1>2. LatchCovers /\ [SysModule!Next]_(SysModule!vars) => LatchCovers'
  BY LatchCoversStep
<1>3. LatchCovers => OneWritePerAssertion
  BY DEF LatchCovers, OneWritePerAssertion, SysModule!OneWritePerAssertion
<1>4. QED
  BY <1>1, <1>2, <1>3, PTL DEF SysModule!Spec

------------------------------------------------------------------------------
(***************************************************************************)
(* CodesysModuleBinding.  xExecute is only high after a scan that latched  *)
(* its command, and while an operation runs neither the requested Enable   *)
(* nor the adapter's has moved since it started.                           *)
(***************************************************************************)
BindingInv ==
    /\ CommandLatch \in BOOLEAN /\ xExecute \in BOOLEAN
    /\ xExecute => CommandLatch
    /\ reconfigure \in {"busy", "done"} => started = RequestedEnable /\ Enable = started
    /\ reconfigure = "done" => applied = started

\* A scan that accepts a command gives DED.Reconfigure a rising edge while it is
\* not busy.
LEMMA AcceptedScanStarts ==
    ASSUME BindingInv,
           NEW inhibit \in BOOLEAN, NEW uninhibit \in BOOLEAN, NEW can \in BOOLEAN,
           Binding!Scan(inhibit, uninhibit, can), RequestReconfigure'
    PROVE  ~xExecute /\ reconfigure # "busy"
BY DEF BindingInv, Binding!Scan, Binding!Body, Binding!Accepts, Binding!CommandEdge

LEMMA BindingInvStep ==
    ASSUME BindingInv, [Binding!Next]_(Binding!vars)
    PROVE  BindingInv'
<1>1. ASSUME NEW inhibit \in BOOLEAN, NEW uninhibit \in BOOLEAN, NEW can \in BOOLEAN,
             Binding!Scan(inhibit, uninhibit, can)
      PROVE  BindingInv'
  <2> USE <1>1 DEF Binding!Scan, Binding!Body
  <2>1. /\ CommandLatch' = (inhibit \/ uninhibit)
        /\ RequestReconfigure' = Binding!Accepts(inhibit, uninhibit)
        /\ xExecute' = RequestReconfigure'
    BY DEF Binding!Reconfigure
  <2>2. Binding!Accepts(inhibit, uninhibit) => (inhibit \/ uninhibit)
    BY DEF Binding!Accepts, Binding!CommandEdge
  <2>3. Binding!Accepts(inhibit, uninhibit) \in BOOLEAN
    BY DEF Binding!Accepts
  <2>4. CASE RequestReconfigure'
    <3>1. ~xExecute /\ reconfigure # "busy"
      BY <2>4, AcceptedScanStarts
    <3>2. Enable' = RequestedEnable' /\ started' = Enable'
      BY <2>4, <3>1 DEF Binding!Reconfigure
    <3>3. reconfigure' = "done" => applied' = started'
      BY <2>4, <3>1 DEF Binding!Reconfigure
    <3>4. QED
      BY <2>1, <2>2, <2>3, <3>2, <3>3 DEF BindingInv
  <2>5. CASE ~RequestReconfigure'
    <3>1. Enable' = Enable /\ RequestedEnable' = RequestedEnable /\ started' = started
      BY <2>5 DEF Binding!Reconfigure
    <3>2. reconfigure' \in {"busy", "done"} => reconfigure = "busy"
      BY <2>5 DEF Binding!Reconfigure
    <3>3. reconfigure' = "done" => applied' = started'
      BY <2>5 DEF Binding!Reconfigure
    <3>4. QED
      BY <2>1, <2>2, <2>3, <3>1, <3>2, <3>3 DEF BindingInv
  <2>6. QED
    BY <2>4, <2>5
<1>2. CASE UNCHANGED Binding!vars
  BY <1>2 DEF Binding!vars, BindingInv
<1>3. QED
  BY <1>1, <1>2 DEF Binding!Next

LEMMA BindingInvInit == Binding!Init => BindingInv
BY DEF Binding!Init, BindingInv

\* An operation that DED.Reconfigure reports done has applied the Enable value the
\* block last asked for, and the adapter still has it.
THEOREM DoneIsLastRequest == Binding!Spec => []DoneAppliesLastRequest
<1>1. BindingInv /\ [Binding!Next]_(Binding!vars) => BindingInv'
  BY BindingInvStep
<1>2. BindingInv => DoneAppliesLastRequest
  BY DEF BindingInv, DoneAppliesLastRequest, Binding!DoneAppliesLastRequest
<1>3. QED
  BY <1>1, <1>2, BindingInvInit, PTL DEF Binding!Spec

\* Every pulse on xExecute is a rising edge to a library block that is not busy.
THEOREM RequestsStart == Binding!Spec => EveryRequestStarts
<1>1. BindingInv /\ [Binding!Next]_(Binding!vars) => BindingInv'
  BY BindingInvStep
<1>2. BindingInv /\ [Binding!Next]_(Binding!vars)
        => [RequestReconfigure' => ~xExecute /\ reconfigure # "busy"]_(Binding!vars)
  BY AcceptedScanStarts DEF Binding!Next
<1>3. QED
  BY <1>1, <1>2, BindingInvInit, PTL
  DEF Binding!Spec, EveryRequestStarts, Binding!EveryRequestStarts

------------------------------------------------------------------------------
(***************************************************************************)
(* TF_RTO.  The block keeps its time in two parts, so the invariant says   *)
(* where the source timer's ACC is: all of it in RetainedTime while the    *)
(* source timer is not enabled, RetainedTime and the running segment       *)
(* together while it is.  EN is not WasEnabled: a reset scan clears EN and *)
(* still records the input, which is harmless as long as the segment timer *)
(* was stopped and the preset is above zero.                               *)
(***************************************************************************)
SourceTimer == [EN : BOOLEAN, DN : BOOLEAN, ACC : Nat]
Segment == [state : {"off", "timing", "done"}, ET : Nat, Q : BOOLEAN]

TimerDone ==
    /\ timer.ACC = PT /\ RetainedTime = PT

TimerRunning ==
    /\ timer.ACC < PT
    /\ timer.EN => /\ WasEnabled
                   /\ SegmentTimer.state = "timing" /\ ~SegmentTimer.Q
                   /\ timer.ACC = RetainedTime + SegmentTimer.ET
    /\ ~timer.EN => /\ SegmentTimer = RTO!Stopped
                    /\ timer.ACC = RetainedTime

TimerInv ==
    /\ PT \in Nat
    /\ PT > 0 =>
         /\ RetainedTime \in Nat /\ Q \in BOOLEAN /\ WasEnabled \in BOOLEAN
         /\ timer \in SourceTimer /\ SegmentTimer \in Segment
         /\ BlockFollowsTimer
         /\ Q => TimerDone
         /\ ~Q => TimerRunning

\* The cases of TON on a running or stopped segment.
LEMMA TonCases ==
    ASSUME NEW t \in Segment, NEW pt \in Nat, NEW dt \in Nat, t.state # "done"
    PROVE  /\ t.state = "off" =>
                RTO!TON(t, TRUE, pt, dt) = [state |-> "timing", ET |-> 0, Q |-> FALSE]
           /\ t.state = "timing" /\ t.ET + dt >= pt =>
                RTO!TON(t, TRUE, pt, dt) = [state |-> "done", ET |-> pt, Q |-> TRUE]
           /\ t.state = "timing" /\ t.ET + dt < pt =>
                RTO!TON(t, TRUE, pt, dt) = [t EXCEPT !.ET = t.ET + dt]
BY DEF RTO!TON, Segment

\* The branch a scan takes is fixed by its inputs and by Q.
LEMMA TimerBranch ==
    ASSUME NEW in, NEW reset, NEW dt, RTO!Scan(in, reset, dt)
    PROVE  /\ Enabled' = in /\ timerReset' = reset
           /\ timerReset' => RTO!Reset
           /\ ~timerReset' /\ ~Enabled' => RTO!Disabled
           /\ ~timerReset' /\ Enabled' /\ Q => RTO!Held
           /\ ~timerReset' /\ Enabled' /\ ~Q => RTO!AlreadyReached \/ RTO!Timing(dt)
BY Zenon DEF RTO!Scan, RTO!Reset, RTO!AlreadyReached, RTO!Timing, RTO!Disabled, RTO!Held

\* A drop of the input keeps Q, and adds the segment that was running.
LEMMA DropAddsSegment ==
    ASSUME RTO!Disabled, ~Q,
           WasEnabled => ~(RetainedTime + SegmentTimer.ET >= PT)
    PROVE  /\ ~Q'
           /\ RetainedTime' = IF WasEnabled THEN RetainedTime + SegmentTimer.ET ELSE RetainedTime
           /\ SegmentTimer' = RTO!Stopped /\ ET' = RetainedTime' /\ TT' = FALSE
<1>1. CASE WasEnabled
  BY <1>1, Zenon DEF RTO!Disabled
<1>2. CASE ~WasEnabled
  BY <1>2, Zenon DEF RTO!Disabled
<1>3. QED
  BY <1>1, <1>2

\* The source timer while it is enabled and not done.
LEMMA SourceAccumulates ==
    ASSUME NEW t \in SourceTimer, NEW dt \in Nat, PT \in Nat, ~t.DN
    PROVE  LET acc == IF t.EN THEN t.ACC + dt ELSE t.ACC
           IN  /\ acc >= PT => RTO!RTO(t, TRUE, dt) = [EN |-> TRUE, DN |-> TRUE, ACC |-> PT]
               /\ ~(acc >= PT) => RTO!RTO(t, TRUE, dt) = [EN |-> TRUE, DN |-> FALSE, ACC |-> acc]
<1>1. t.EN \in BOOLEAN /\ t.DN = FALSE
  BY DEF SourceTimer
<1>2. CASE t.EN
  BY <1>1, <1>2 DEF RTO!RTO
<1>3. CASE ~t.EN
  BY <1>1, <1>3 DEF RTO!RTO
<1>4. QED
  BY <1>1, <1>2, <1>3

\* One scan of the block and of the source rungs keeps them together.
LEMMA TimerScan ==
    ASSUME TimerInv, PT > 0, NEW in \in BOOLEAN, NEW reset \in BOOLEAN, NEW dt \in 0 .. MaxStep,
           RTO!Scan(in, reset, dt)
    PROVE  TimerInv'
<1>1. /\ PT' = PT /\ WasEnabled' = in
      /\ timer' = RTO!Rungs(timer, in, reset, dt)
  BY DEF RTO!Scan
<1>2. PT \in Nat /\ dt \in Nat
  BY TickAssumption DEF TimerInv
<1>3. /\ RetainedTime \in Nat /\ Q \in BOOLEAN /\ WasEnabled \in BOOLEAN
      /\ timer \in SourceTimer /\ SegmentTimer \in Segment
      /\ ET = timer.ACC /\ Q = timer.DN
      /\ Q => TimerDone
      /\ ~Q => TimerRunning
  BY DEF TimerInv, BlockFollowsTimer, RTO!BlockFollowsTimer
<1>4. timer.EN \in BOOLEAN /\ timer.DN \in BOOLEAN /\ timer.ACC \in Nat /\ SegmentTimer.ET \in Nat
  BY <1>3 DEF SourceTimer, Segment
<1>5. RTO!Stopped \in Segment /\ RTO!Stopped.ET = 0 /\ RTO!Stopped.state = "off"
  BY DEF RTO!Stopped, Segment
<1>6. Enabled' = in /\ timerReset' = reset
  BY TimerBranch
\* The new state satisfies the invariant when the timer is done or running in it.
<1>7. ASSUME RetainedTime' \in Nat, SegmentTimer' \in Segment, timer' \in SourceTimer,
             Q' = timer'.DN, ET' = timer'.ACC, TT' = (timer'.EN /\ ~timer'.DN),
             Q' => TimerDone', ~Q' => TimerRunning'
      PROVE  TimerInv'
  <2>1. Q' \in BOOLEAN
    BY <1>7 DEF SourceTimer
  <2>2. BlockFollowsTimer'
    BY <1>7 DEF BlockFollowsTimer, RTO!BlockFollowsTimer
  <2>3. QED
    BY <1>1, <1>2, <1>7, <2>1, <2>2 DEF TimerInv
<1>8. CASE reset = TRUE
  <2>1. timer' = [EN |-> FALSE, DN |-> FALSE, ACC |-> 0]
    BY <1>1, <1>8 DEF RTO!Rungs
  <2>2. RTO!Reset
    BY <1>6, <1>8, TimerBranch
  <2>3. /\ SegmentTimer' = RTO!Stopped /\ RetainedTime' = 0 /\ ET' = 0
        /\ Q' = FALSE /\ TT' = FALSE
    BY <2>2 DEF RTO!Reset
  <2>4. timer' \in SourceTimer /\ timer'.EN = FALSE /\ timer'.DN = FALSE /\ timer'.ACC = 0
    BY <2>1 DEF SourceTimer
  <2>5. TimerRunning'
    BY <1>1, <1>2, <2>3, <2>4 DEF TimerRunning
  <2>6. QED
    BY <1>5, <1>7, <2>3, <2>4, <2>5
<1>9. CASE reset = FALSE /\ in = FALSE
  <2>1. RTO!Disabled
    BY <1>6, <1>9, TimerBranch
  <2>2. timer.ACC >= PT => timer.ACC = PT
    BY <1>2, <1>3, <1>4 DEF TimerDone, TimerRunning
  <2>3. timer' = [EN |-> FALSE, DN |-> timer.DN,
                  ACC |-> IF timer.ACC >= PT THEN PT ELSE timer.ACC]
    <3>1. timer' = RTO!RTO(timer, FALSE, dt)
      BY <1>1, <1>9 DEF RTO!Rungs
    <3>2. timer.DN \/ FALSE = timer.DN
      BY <1>4
    <3>3. QED
      BY <1>4, <3>1, <3>2 DEF RTO!RTO
  <2>4. timer' \in SourceTimer /\ timer'.EN = FALSE /\ timer'.DN = timer.DN /\ timer'.ACC = timer.ACC
    BY <1>2, <1>4, <2>2, <2>3 DEF SourceTimer
  <2>5. Q' = Q /\ RetainedTime' = timer.ACC
        /\ SegmentTimer' = RTO!Stopped /\ ET' = RetainedTime' /\ TT' = FALSE
    <3>1. CASE Q
      <4>1. RetainedTime = timer.ACC
        BY <1>3, <3>1 DEF TimerDone
      <4>2. RetainedTime' = RetainedTime /\ Q'
            /\ SegmentTimer' = RTO!Stopped /\ ET' = RetainedTime' /\ TT' = FALSE
        BY <2>1, <3>1, Zenon DEF RTO!Disabled
      <4>3. Q' \in BOOLEAN
        BY <2>1 DEF RTO!Disabled
      <4>4. QED
        BY <1>3, <3>1, <4>1, <4>2, <4>3
    <3>2. CASE ~Q
      <4>1. TimerRunning
        BY <1>3, <3>2
      <4>2. RetainedTime + SegmentTimer.ET = timer.ACC /\ ~(timer.ACC >= PT)
        BY <1>2, <1>3, <1>4, <1>5, <4>1 DEF TimerRunning
      <4>3. ~WasEnabled => RetainedTime = timer.ACC
        BY <1>4, <4>1 DEF TimerRunning
      <4>4. /\ ~Q'
            /\ RetainedTime' = IF WasEnabled THEN RetainedTime + SegmentTimer.ET ELSE RetainedTime
            /\ SegmentTimer' = RTO!Stopped /\ ET' = RetainedTime' /\ TT' = FALSE
        BY <2>1, <3>2, <4>2, DropAddsSegment
      <4>5. RetainedTime' = timer.ACC
        BY <1>3, <4>2, <4>3, <4>4
      <4>6. Q' \in BOOLEAN
        BY <2>1 DEF RTO!Disabled
      <4>7. QED
        BY <1>3, <3>2, <4>4, <4>5, <4>6
    <3>3. QED
      BY <1>3, <3>1, <3>2
  <2>6. Q' => TimerDone'
    BY <1>1, <1>3, <2>4, <2>5 DEF TimerDone
  <2>7. ~Q' => TimerRunning'
    <3>1. ~Q' => timer'.ACC < PT'
      BY <1>1, <1>3, <2>4, <2>5 DEF TimerRunning
    <3>2. QED
      BY <2>4, <2>5, <3>1 DEF TimerRunning
  <2>8. TT' = (timer'.EN /\ ~timer'.DN)
    BY <2>4, <2>5
  <2>9. QED
    BY <1>3, <1>4, <1>5, <1>7, <2>4, <2>5, <2>6, <2>7, <2>8
<1>10. CASE reset = FALSE /\ in = TRUE /\ Q
  <2>1. RTO!Held
    BY <1>6, <1>10, TimerBranch
  <2>2. timer.ACC = PT /\ RetainedTime = PT /\ timer.DN = TRUE
    BY <1>3, <1>4, <1>10 DEF TimerDone
  <2>3. timer' = RTO!RTO(timer, TRUE, dt)
    BY <1>1, <1>10 DEF RTO!Rungs
  <2>4. timer' = [EN |-> TRUE, DN |-> TRUE, ACC |-> PT]
    BY <1>2, <2>2, <2>3 DEF RTO!RTO
  <2>5. /\ SegmentTimer' = RTO!Stopped /\ ET' = PT /\ TT' = FALSE /\ Q' = Q
        /\ RetainedTime' = PT
    BY <2>1, <2>2 DEF RTO!Held
  <2>6. timer' \in SourceTimer /\ timer'.ACC = PT /\ timer'.DN = TRUE /\ timer'.EN = TRUE
    BY <1>2, <2>4 DEF SourceTimer
  <2>7. Q' /\ Q' = TRUE /\ TimerDone'
    BY <1>1, <1>3, <1>10, <2>5, <2>6 DEF TimerDone
  <2>8. QED
    BY <1>2, <1>5, <1>7, <2>5, <2>6, <2>7
<1>11. CASE reset = FALSE /\ in = TRUE /\ ~Q
  <2>1. TimerRunning /\ ~timer.DN
    BY <1>3, <1>11
  <2>2. RetainedTime < PT /\ PT - RetainedTime \in Nat /\ SegmentTimer.state # "done"
    <3>1. CASE timer.EN
      BY <1>2, <1>3, <1>4, <2>1, <3>1 DEF TimerRunning
    <3>2. CASE ~timer.EN
      BY <1>2, <1>3, <1>4, <1>5, <2>1, <3>2 DEF TimerRunning
    <3>3. QED
      BY <1>4, <3>1, <3>2
  <2>3. RTO!Timing(dt)
    <3>1. RTO!AlreadyReached \/ RTO!Timing(dt)
      BY <1>6, <1>11, TimerBranch
    <3>2. ~(RetainedTime >= PT)
      BY <1>2, <1>3, <2>2
    <3>3. QED
      BY <3>1, <3>2 DEF RTO!AlreadyReached
  <2>4. /\ SegmentTimer' = RTO!TON(SegmentTimer, TRUE, PT - RetainedTime, dt)
        /\ Q' = SegmentTimer'.Q
        /\ RetainedTime' = (IF Q' THEN PT ELSE RetainedTime)
        /\ ET' = (IF Q' THEN PT ELSE RetainedTime + SegmentTimer'.ET)
        /\ TT' = ~Q'
    BY <2>3 DEF RTO!Timing
  <2>5. timer' = RTO!RTO(timer, TRUE, dt)
    BY <1>1, <1>11 DEF RTO!Rungs
  <2>6. CASE ~timer.EN
    <3>1. SegmentTimer.state = "off" /\ timer.ACC = RetainedTime
      BY <1>5, <2>1, <2>6 DEF TimerRunning
    <3>2. SegmentTimer' = [state |-> "timing", ET |-> 0, Q |-> FALSE]
      BY <1>2, <1>3, <2>2, <2>4, <3>1, TonCases
    <3>3. /\ SegmentTimer' \in Segment /\ SegmentTimer'.state = "timing"
          /\ SegmentTimer'.ET = 0 /\ SegmentTimer'.Q = FALSE
      BY <3>2 DEF Segment
    <3>4. Q' = FALSE
      BY <2>4, <3>3
    <3>5. RetainedTime' = RetainedTime /\ ET' = RetainedTime /\ TT' = TRUE
      <4>1. RetainedTime + 0 = RetainedTime
        BY <1>3
      <4>2. RetainedTime' = RetainedTime /\ ET' = RetainedTime + SegmentTimer'.ET /\ TT' = TRUE
        BY <2>4, <3>4
      <4>3. QED
        BY <3>3, <4>1, <4>2
    <3>6. timer' = [EN |-> TRUE, DN |-> FALSE, ACC |-> RetainedTime]
      <4>1. ~(timer.ACC >= PT)
        BY <1>2, <1>3, <2>2, <3>1
      <4>2. QED
        BY <1>2, <1>3, <2>1, <2>5, <2>6, <3>1, <4>1, SourceAccumulates
    <3>7. timer' \in SourceTimer /\ timer'.EN = TRUE /\ timer'.DN = FALSE /\ timer'.ACC = RetainedTime
      BY <1>3, <3>6 DEF SourceTimer
    <3>8. TimerRunning'
      <4>1. timer'.ACC < PT'
        BY <1>1, <2>2, <3>7
      <4>2. timer'.ACC = RetainedTime' + SegmentTimer'.ET
        BY <1>3, <3>3, <3>5, <3>7
      <4>3. WasEnabled'
        BY <1>1, <1>11
      <4>4. QED
        BY <3>3, <3>7, <4>1, <4>2, <4>3 DEF TimerRunning
    <3>9. QED
      BY <1>3, <1>7, <3>3, <3>4, <3>5, <3>7, <3>8
  <2>7. CASE timer.EN
    <3>1. SegmentTimer.state = "timing" /\ timer.ACC = RetainedTime + SegmentTimer.ET
          /\ ~SegmentTimer.Q
      BY <2>1, <2>7 DEF TimerRunning
    <3>2. CASE timer.ACC + dt >= PT
      <4>1. SegmentTimer.ET + dt >= PT - RetainedTime
        BY <1>2, <1>3, <1>4, <3>1, <3>2
      <4>2. SegmentTimer' = [state |-> "done", ET |-> PT - RetainedTime, Q |-> TRUE]
        BY <1>2, <1>3, <2>2, <2>4, <3>1, <4>1, TonCases
      <4>3. SegmentTimer' \in Segment /\ SegmentTimer'.Q = TRUE
        BY <2>2, <4>2 DEF Segment
      <4>4. Q' = TRUE
        BY <2>4, <4>3
      <4>5. RetainedTime' = PT /\ ET' = PT /\ TT' = FALSE
        BY <2>4, <4>4
      <4>6. timer' = [EN |-> TRUE, DN |-> TRUE, ACC |-> PT]
        BY <1>2, <1>3, <2>1, <2>5, <2>7, <3>2, SourceAccumulates
      <4>7. timer' \in SourceTimer /\ timer'.EN = TRUE /\ timer'.DN = TRUE /\ timer'.ACC = PT
        BY <1>2, <4>6 DEF SourceTimer
      <4>8. TimerDone'
        BY <1>1, <4>5, <4>7 DEF TimerDone
      <4>9. QED
        BY <1>2, <1>7, <4>3, <4>4, <4>5, <4>7, <4>8
    <3>3. CASE ~(timer.ACC + dt >= PT)
      <4>1. SegmentTimer.ET + dt < PT - RetainedTime
        BY <1>2, <1>3, <1>4, <3>1, <3>3
      <4>2. SegmentTimer' = [SegmentTimer EXCEPT !.ET = SegmentTimer.ET + dt]
        BY <1>2, <1>3, <2>2, <2>4, <3>1, <4>1, TonCases
      <4>3. /\ SegmentTimer' \in Segment /\ SegmentTimer'.state = "timing"
            /\ SegmentTimer'.ET = SegmentTimer.ET + dt /\ SegmentTimer'.Q = SegmentTimer.Q
        BY <1>2, <1>3, <1>4, <3>1, <4>2 DEF Segment
      <4>4. SegmentTimer.Q = FALSE
        BY <1>3, <3>1 DEF Segment
      <4>5. Q' = FALSE
        BY <2>4, <4>3, <4>4
      <4>6. RetainedTime' = RetainedTime /\ TT' = TRUE
            /\ ET' = RetainedTime + (SegmentTimer.ET + dt)
        BY <2>4, <4>3, <4>5
      <4>7. timer' = [EN |-> TRUE, DN |-> FALSE, ACC |-> timer.ACC + dt]
        BY <1>2, <1>3, <2>1, <2>5, <2>7, <3>3, SourceAccumulates
      <4>8. timer.ACC + dt = RetainedTime + (SegmentTimer.ET + dt) /\ timer.ACC + dt \in Nat
            /\ timer.ACC + dt < PT
        BY <1>2, <1>3, <1>4, <3>1, <3>3
      <4>9. /\ timer' \in SourceTimer /\ timer'.EN = TRUE /\ timer'.DN = FALSE
            /\ timer'.ACC = timer.ACC + dt
        BY <4>7, <4>8 DEF SourceTimer
      <4>10. TimerRunning'
        BY <1>1, <1>11, <3>1, <4>3, <4>4, <4>6, <4>8, <4>9 DEF TimerRunning
      <4>11. QED
        BY <1>3, <1>7, <4>3, <4>5, <4>6, <4>8, <4>9, <4>10
    <3>4. QED
      BY <3>2, <3>3
  <2>8. QED
    BY <1>4, <2>6, <2>7
<1>12. QED
  BY <1>3, <1>8, <1>9, <1>10, <1>11

\* For every preset and every sequence of enables, drops, resets and scan times, the
\* block's elapsed time, done and timing outputs are those of the source timer.
THEOREM BlockIsTimer == RTO!Spec => []BlockFollowsTimer
<1>1. ASSUME RTO!Init PROVE TimerInv
  <2>1. PT \in Nat
    BY <1>1, TickAssumption DEF RTO!Init
  <2>2. /\ timer = [EN |-> FALSE, DN |-> FALSE, ACC |-> 0] /\ SegmentTimer = RTO!Stopped
        /\ Q = FALSE /\ ET = 0 /\ TT = FALSE /\ RetainedTime = 0 /\ WasEnabled = FALSE
    BY <1>1 DEF RTO!Init
  <2>3. QED
    BY <2>1, <2>2 DEF TimerInv, TimerRunning, SourceTimer, Segment, RTO!Stopped,
       BlockFollowsTimer, RTO!BlockFollowsTimer
<1>2. TimerInv /\ [RTO!Next]_(RTO!vars) => TimerInv'
  <2>1. ASSUME TimerInv, NEW in \in BOOLEAN, NEW reset \in BOOLEAN, NEW dt \in 0 .. MaxStep,
               RTO!Scan(in, reset, dt), ~(PT > 0)
        PROVE  TimerInv'
    BY <2>1 DEF TimerInv, RTO!Scan
  <2>2. ASSUME TimerInv, UNCHANGED RTO!vars
        PROVE  TimerInv'
    BY <2>2 DEF TimerInv, RTO!vars, TimerDone, TimerRunning, BlockFollowsTimer, RTO!BlockFollowsTimer
  <2>3. QED
    BY <2>1, <2>2, TimerScan DEF RTO!Next
<1>3. TimerInv => BlockFollowsTimer
  BY DEF TimerInv, BlockFollowsTimer, RTO!BlockFollowsTimer
<1>4. QED
  BY <1>1, <1>2, <1>3, PTL DEF RTO!Spec

------------------------------------------------------------------------------
(***************************************************************************)
(* TF_COUNTER.  The block decides both edges from the memory of the last   *)
(* scan, counts, and compares once; the rungs decide, count and compare    *)
(* one after the other.  Agreement is proved count by count: after each    *)
(* one the value and the latches agree, and a latch that is still clear    *)
(* means that no wrap has happened.                                        *)
(***************************************************************************)
Dint == MinDint .. MaxDint

BlockState == [CV : Dint, Q : BOOLEAN, OV : BOOLEAN, UN : BOOLEAN,
               WasCU : BOOLEAN, WasCD : BOOLEAN, Initialized : BOOLEAN]
CounterTag == [ACC : Dint, DN : BOOLEAN, OV : BOOLEAN, UN : BOOLEAN,
               CU : BOOLEAN, CD : BOOLEAN, scanned : BOOLEAN]

\* The value and both latches of a block and of a tag agree.
SameCount(c, t) == c.CV = t.ACC /\ c.OV = t.OV /\ c.UN = t.UN

\* n is what a clear pair of latches says the value is.
TrueCount(c, n) == ~c.OV /\ ~c.UN => c.CV = n

CounterInv ==
    /\ PV \in Dint /\ UP_FIRST \in BOOLEAN /\ count \in Int
    /\ fb \in BlockState /\ ladder \in CounterTag
    /\ BlockFollowsRungs

LEMMA DintBounds ==
    /\ 0 \in Dint /\ MinDint \in Int /\ MaxDint \in Int /\ MinDint < MaxDint
    /\ \A v \in Dint : v # MaxDint => v + 1 \in Dint
    /\ \A v \in Dint : v # MinDint => v - 1 \in Dint
    /\ Dint \subseteq Int /\ MinDint \in Dint /\ MaxDint \in Dint
BY CounterAssumption DEF Dint, MinDint

\* CountUp: one more, or the other end of the DINT and the overflow latch.
LEMMA CountUpFields ==
    ASSUME NEW c \in BlockState, NEW n \in Int, TrueCount(c, n)
    PROVE  /\ CountUp(c) \in BlockState
           /\ CountUp(c).CV = IF c.CV = MaxDint THEN MinDint ELSE c.CV + 1
           /\ CountUp(c).OV = (c.OV \/ c.CV = MaxDint)
           /\ CountUp(c).UN = c.UN
           /\ CountUp(c).Q = c.Q /\ CountUp(c).Initialized = c.Initialized
           /\ TrueCount(CountUp(c), n + 1)
<1>1. c.CV \in Dint /\ c.OV \in BOOLEAN
  BY DEF BlockState
<1>2. CASE c.CV = MaxDint
  <2>1. CountUp(c) = [c EXCEPT !.CV = MinDint, !.OV = TRUE]
    BY <1>2 DEF CountUp
  <2>2. /\ CountUp(c) \in BlockState /\ CountUp(c).CV = MinDint /\ CountUp(c).OV = TRUE
        /\ CountUp(c).UN = c.UN /\ CountUp(c).Q = c.Q /\ CountUp(c).Initialized = c.Initialized
    BY <2>1, DintBounds DEF BlockState
  <2>3. QED
    BY <1>2, <2>2 DEF TrueCount
<1>3. CASE c.CV # MaxDint
  <2>1. CountUp(c) = [c EXCEPT !.CV = c.CV + 1]
    BY <1>3 DEF CountUp
  <2>2. /\ CountUp(c) \in BlockState /\ CountUp(c).CV = c.CV + 1 /\ CountUp(c).OV = c.OV
        /\ CountUp(c).UN = c.UN /\ CountUp(c).Q = c.Q /\ CountUp(c).Initialized = c.Initialized
    BY <1>1, <1>3, <2>1, DintBounds DEF BlockState
  <2>3. TrueCount(CountUp(c), n + 1)
    BY <2>2 DEF TrueCount
  <2>4. QED
    BY <1>1, <1>3, <2>2, <2>3
<1>4. QED
  BY <1>2, <1>3

LEMMA CountDownFields ==
    ASSUME NEW c \in BlockState, NEW n \in Int, TrueCount(c, n)
    PROVE  /\ CountDown(c) \in BlockState
           /\ CountDown(c).CV = IF c.CV = MinDint THEN MaxDint ELSE c.CV - 1
           /\ CountDown(c).UN = (c.UN \/ c.CV = MinDint)
           /\ CountDown(c).OV = c.OV
           /\ CountDown(c).Q = c.Q /\ CountDown(c).Initialized = c.Initialized
           /\ TrueCount(CountDown(c), n - 1)
<1>1. c.CV \in Dint /\ c.UN \in BOOLEAN
  BY DEF BlockState
<1>2. CASE c.CV = MinDint
  <2>1. CountDown(c) = [c EXCEPT !.CV = MaxDint, !.UN = TRUE]
    BY <1>2 DEF CountDown
  <2>2. /\ CountDown(c) \in BlockState /\ CountDown(c).CV = MaxDint /\ CountDown(c).UN = TRUE
        /\ CountDown(c).OV = c.OV /\ CountDown(c).Q = c.Q
        /\ CountDown(c).Initialized = c.Initialized
    BY <2>1, DintBounds DEF BlockState
  <2>3. QED
    BY <1>2, <2>2 DEF TrueCount
<1>3. CASE c.CV # MinDint
  <2>1. CountDown(c) = [c EXCEPT !.CV = c.CV - 1]
    BY <1>3 DEF CountDown
  <2>2. /\ CountDown(c) \in BlockState /\ CountDown(c).CV = c.CV - 1 /\ CountDown(c).UN = c.UN
        /\ CountDown(c).OV = c.OV /\ CountDown(c).Q = c.Q
        /\ CountDown(c).Initialized = c.Initialized
    BY <1>1, <1>3, <2>1, DintBounds DEF BlockState
  <2>3. TrueCount(CountDown(c), n - 1)
    BY <2>2 DEF TrueCount
  <2>4. QED
    BY <1>1, <1>3, <2>2, <2>3
<1>4. QED
  BY <1>2, <1>3

\* The block's side of one rung, given the tag whose edge memory the rung reads:
\* the state it leaves and the true count.
UpOf(c, t, cu) == IF cu /\ ~t.CU THEN CountUp(c) ELSE c
DownOf(c, t, cd) == IF cd /\ ~t.CD THEN CountDown(c) ELSE c
CountAfterUp(n, t, cu) == IF cu /\ ~t.CU THEN n + 1 ELSE n
CountAfterDown(n, t, cd) == IF cd /\ ~t.CD THEN n - 1 ELSE n

\* The block state c, the tag t and the true count n between two rungs.
Agree(c, t, n) ==
    /\ c \in BlockState /\ t \in CounterTag /\ n \in Int
    /\ SameCount(c, t) /\ TrueCount(c, n)

\* One CTU rung and the block's count up on the same edge.
LEMMA CountUpAgrees ==
    ASSUME PV \in Dint, NEW c, NEW t, NEW n, Agree(c, t, n), NEW cu \in BOOLEAN
    PROVE  /\ Agree(UpOf(c, t, cu), CTU(t, cu), CountAfterUp(n, t, cu))
           /\ UpOf(c, t, cu).Q = c.Q /\ UpOf(c, t, cu).Initialized = c.Initialized
           /\ CTU(t, cu).CU = cu /\ CTU(t, cu).CD = t.CD /\ CTU(t, cu).scanned = t.scanned
           /\ (cu /\ ~t.CU) => CTU(t, cu).DN = (UpOf(c, t, cu).CV >= PV)
           /\ ~(cu /\ ~t.CU) => CTU(t, cu).DN = t.DN /\ UpOf(c, t, cu) = c
<1> DEFINE d == UpOf(c, t, cu)
           m == CountAfterUp(n, t, cu)
<1>1. t.ACC \in Dint /\ t.OV \in BOOLEAN /\ t.CU \in BOOLEAN /\ t.DN \in BOOLEAN
  BY DEF Agree, CounterTag
<1>2. CASE cu /\ ~t.CU
  <2> DEFINE v == IF t.ACC = MaxDint THEN MinDint ELSE t.ACC + 1
             o == t.OV \/ t.ACC = MaxDint
  <2>1. v \in Dint /\ o \in BOOLEAN /\ (v >= PV) \in BOOLEAN
    <3>1. v \in Dint
      BY <1>1, DintBounds
    <3>2. o \in BOOLEAN /\ (v >= PV) \in BOOLEAN
      OBVIOUS
    <3>3. QED
      BY <3>1, <3>2
  <2>2. CTU(t, cu) = [t EXCEPT !.ACC = v, !.OV = o, !.DN = v >= PV, !.CU = TRUE]
    BY <1>2 DEF CTU, CounterTag, Agree
  <2> HIDE DEF v, o
  <2>3. /\ CTU(t, cu) \in CounterTag
        /\ CTU(t, cu).ACC = v /\ CTU(t, cu).OV = o /\ CTU(t, cu).UN = t.UN
        /\ CTU(t, cu).DN = (v >= PV) /\ CTU(t, cu).CU = TRUE /\ CTU(t, cu).CD = t.CD
        /\ CTU(t, cu).scanned = t.scanned
    BY <2>1, <2>2 DEF CounterTag, Agree
  <2>4. d = CountUp(c) /\ m = n + 1 /\ cu = TRUE
    BY <1>2 DEF UpOf, CountAfterUp
  <2>5. /\ CountUp(c) \in BlockState /\ CountUp(c).CV = v /\ CountUp(c).OV = o
        /\ CountUp(c).UN = c.UN /\ CountUp(c).Q = c.Q
        /\ CountUp(c).Initialized = c.Initialized /\ TrueCount(CountUp(c), n + 1)
    BY CountUpFields DEF SameCount, Agree, v, o
  <2>6. c.UN = t.UN /\ n + 1 \in Int
    BY DEF Agree, SameCount
  <2> HIDE DEF d, m
  <2>7. Agree(d, CTU(t, cu), m)
    BY <2>3, <2>4, <2>5, <2>6 DEF SameCount, Agree
  <2>8. /\ d.Q = c.Q /\ d.Initialized = c.Initialized
        /\ CTU(t, cu).CU = cu /\ CTU(t, cu).DN = (d.CV >= PV)
    BY <2>3, <2>4, <2>5
  <2>9. QED
    BY <1>2, <2>3, <2>7, <2>8 DEF d, m
<1>3. CASE ~(cu /\ ~t.CU)
  <2>1. CTU(t, cu) = [t EXCEPT !.CU = cu]
    BY <1>3 DEF CTU
  <2>2. /\ CTU(t, cu) \in CounterTag
        /\ CTU(t, cu).ACC = t.ACC /\ CTU(t, cu).OV = t.OV /\ CTU(t, cu).UN = t.UN
        /\ CTU(t, cu).DN = t.DN /\ CTU(t, cu).CU = cu /\ CTU(t, cu).CD = t.CD
        /\ CTU(t, cu).scanned = t.scanned
    BY <2>1 DEF CounterTag, Agree
  <2>3. d = c /\ m = n
    BY <1>3 DEF UpOf, CountAfterUp
  <2> HIDE DEF d, m
  <2>4. Agree(d, CTU(t, cu), m)
    BY <2>2, <2>3 DEF SameCount, Agree
  <2>5. QED
    BY <1>3, <2>2, <2>3, <2>4 DEF d, m
<1>4. QED
  BY <1>2, <1>3

\* One CTD rung and the block's count down on the same edge.
LEMMA CountDownAgrees ==
    ASSUME PV \in Dint, NEW c, NEW t, NEW n, Agree(c, t, n), NEW cd \in BOOLEAN
    PROVE  /\ Agree(DownOf(c, t, cd), CTD(t, cd), CountAfterDown(n, t, cd))
           /\ DownOf(c, t, cd).Q = c.Q /\ DownOf(c, t, cd).Initialized = c.Initialized
           /\ CTD(t, cd).CD = cd /\ CTD(t, cd).CU = t.CU /\ CTD(t, cd).scanned = t.scanned
           /\ (cd /\ ~t.CD) => CTD(t, cd).DN = (DownOf(c, t, cd).CV >= PV)
           /\ ~(cd /\ ~t.CD) => CTD(t, cd).DN = t.DN /\ DownOf(c, t, cd) = c
<1> DEFINE d == DownOf(c, t, cd)
           m == CountAfterDown(n, t, cd)
<1>1. t.ACC \in Dint /\ t.UN \in BOOLEAN /\ t.CD \in BOOLEAN /\ t.DN \in BOOLEAN
  BY DEF Agree, CounterTag
<1>2. CASE cd /\ ~t.CD
  <2> DEFINE v == IF t.ACC = MinDint THEN MaxDint ELSE t.ACC - 1
             o == t.UN \/ t.ACC = MinDint
  <2>1. v \in Dint /\ o \in BOOLEAN /\ (v >= PV) \in BOOLEAN
    <3>1. v \in Dint
      BY <1>1, DintBounds
    <3>2. o \in BOOLEAN /\ (v >= PV) \in BOOLEAN
      OBVIOUS
    <3>3. QED
      BY <3>1, <3>2
  <2>2. CTD(t, cd) = [t EXCEPT !.ACC = v, !.UN = o, !.DN = v >= PV, !.CD = TRUE]
    BY <1>2 DEF CTD, CounterTag, Agree
  <2> HIDE DEF v, o
  <2>3. /\ CTD(t, cd) \in CounterTag
        /\ CTD(t, cd).ACC = v /\ CTD(t, cd).UN = o /\ CTD(t, cd).OV = t.OV
        /\ CTD(t, cd).DN = (v >= PV) /\ CTD(t, cd).CD = TRUE /\ CTD(t, cd).CU = t.CU
        /\ CTD(t, cd).scanned = t.scanned
    BY <2>1, <2>2 DEF CounterTag, Agree
  <2>4. d = CountDown(c) /\ m = n - 1 /\ cd = TRUE
    BY <1>2 DEF DownOf, CountAfterDown
  <2>5. /\ CountDown(c) \in BlockState /\ CountDown(c).CV = v /\ CountDown(c).UN = o
        /\ CountDown(c).OV = c.OV /\ CountDown(c).Q = c.Q
        /\ CountDown(c).Initialized = c.Initialized /\ TrueCount(CountDown(c), n - 1)
    BY CountDownFields DEF SameCount, Agree, v, o
  <2>6. c.OV = t.OV /\ n - 1 \in Int
    BY DEF Agree, SameCount
  <2> HIDE DEF d, m
  <2>7. Agree(d, CTD(t, cd), m)
    BY <2>3, <2>4, <2>5, <2>6 DEF SameCount, Agree
  <2>8. /\ d.Q = c.Q /\ d.Initialized = c.Initialized
        /\ CTD(t, cd).CD = cd /\ CTD(t, cd).DN = (d.CV >= PV)
    BY <2>3, <2>4, <2>5
  <2>9. QED
    BY <1>2, <2>3, <2>7, <2>8 DEF d, m
<1>3. CASE ~(cd /\ ~t.CD)
  <2>1. CTD(t, cd) = [t EXCEPT !.CD = cd]
    BY <1>3 DEF CTD
  <2>2. /\ CTD(t, cd) \in CounterTag
        /\ CTD(t, cd).ACC = t.ACC /\ CTD(t, cd).UN = t.UN /\ CTD(t, cd).OV = t.OV
        /\ CTD(t, cd).DN = t.DN /\ CTD(t, cd).CD = cd /\ CTD(t, cd).CU = t.CU
        /\ CTD(t, cd).scanned = t.scanned
    BY <2>1 DEF CounterTag, Agree
  <2>3. d = c /\ m = n
    BY <1>3 DEF DownOf, CountAfterDown
  <2> HIDE DEF d, m
  <2>4. Agree(d, CTD(t, cd), m)
    BY <2>2, <2>3 DEF SameCount, Agree
  <2>5. QED
    BY <1>3, <2>2, <2>3, <2>4 DEF d, m
<1>4. QED
  BY <1>2, <1>3

\* What a scan without RES leaves: c and t are the block and the tag before its
\* counts, b and s after them, m the true count then.
BothCounted(c, t, b, s, m) ==
    /\ Agree(b, s, m) /\ b.Q = s.DN /\ b.WasCU = s.CU /\ b.WasCD = s.CD
    /\ b.Initialized = c.Initialized /\ s.scanned = t.scanned

\* Both counts of one scan, the CTU rung first.
LEMMA UpThenDown ==
    ASSUME PV \in Dint, UP_FIRST = TRUE, NEW c, NEW t, NEW k, Agree(c, t, k),
           c.Q = t.DN, c.WasCU = t.CU, c.WasCD = t.CD, NEW CU \in BOOLEAN, NEW CD \in BOOLEAN
    PROVE  BothCounted(c, t, BlockCounts(c, CU, CD), Counted(t, CU, CD),
                       CountAfterDown(CountAfterUp(k, t, CU), t, CD))
<1> DEFINE t1 == CTU(t, CU)
           t2 == CTD(t1, CD)
           c1 == UpOf(c, t, CU)
           c2 == DownOf(c1, t1, CD)
           k1 == CountAfterUp(k, t, CU)
           k2 == CountAfterDown(k1, t1, CD)
           q == IF (CU /\ ~t.CU) \/ (CD /\ ~t.CD) THEN c2.CV >= PV ELSE c2.Q
           b == BlockCounts(c, CU, CD)
<1>1. /\ Agree(c1, t1, k1) /\ c1.Q = c.Q /\ c1.Initialized = c.Initialized
      /\ t1.CU = CU /\ t1.CD = t.CD /\ t1.scanned = t.scanned
      /\ (CU /\ ~t.CU) => t1.DN = (c1.CV >= PV)
      /\ ~(CU /\ ~t.CU) => t1.DN = t.DN /\ c1 = c
  BY CountUpAgrees
<1>2. b = [c2 EXCEPT !.Q = q, !.WasCU = CU, !.WasCD = CD]
  <2>1. t1.CD = t.CD
    BY <1>1
  <2> HIDE DEF t1
  <2>2. QED
    BY <2>1 DEF BlockCounts, UpOf, DownOf
<1>3. Counted(t, CU, CD) = t2
  BY DEF Counted
<1>4. k2 = CountAfterDown(k1, t, CD)
  BY <1>1 DEF CountAfterDown
<1> HIDE DEF c1, t1, k1, b
<1>5. /\ Agree(c2, t2, k2) /\ c2.Q = c1.Q /\ c2.Initialized = c1.Initialized
      /\ t2.CD = CD /\ t2.CU = t1.CU /\ t2.scanned = t1.scanned
      /\ (CD /\ ~t1.CD) => t2.DN = (c2.CV >= PV)
      /\ ~(CD /\ ~t1.CD) => t2.DN = t1.DN /\ c2 = c1
  BY <1>1, CountDownAgrees
<1> HIDE DEF c2, t2, k2
<1>6. q = t2.DN
  <2>1. CASE CD /\ ~t.CD
    <3>1. q = (c2.CV >= PV)
      BY <2>1
    <3>2. t2.DN = (c2.CV >= PV)
      BY <1>1, <1>5, <2>1
    <3>3. QED
      BY <3>1, <3>2
  <2>2. CASE ~(CD /\ ~t.CD) /\ (CU /\ ~t.CU)
    <3>1. q = (c2.CV >= PV)
      BY <2>2
    <3>2. t1.DN = (c1.CV >= PV)
      BY <1>1, <2>2
    <3>3. t2.DN = t1.DN /\ c2 = c1
      BY <1>1, <1>5, <2>2
    <3>4. QED
      BY <3>1, <3>2, <3>3
  <2>3. CASE ~(CD /\ ~t.CD) /\ ~(CU /\ ~t.CU)
    <3>1. q = c2.Q
      BY <2>3
    <3>2. t2.DN = t1.DN /\ t1.DN = t.DN
      BY <1>1, <1>5, <2>3
    <3>3. QED
      BY <1>1, <1>5, <3>1, <3>2
  <2>4. QED
    BY <2>1, <2>2, <2>3
<1>7. q \in BOOLEAN /\ c2 \in BlockState
  BY <1>5, <1>6 DEF CounterTag, Agree
<1> HIDE DEF q
<1>8. /\ b \in BlockState /\ b.Q = q /\ b.WasCU = CU /\ b.WasCD = CD
      /\ b.CV = c2.CV /\ b.OV = c2.OV /\ b.UN = c2.UN /\ b.Initialized = c2.Initialized
  BY <1>2, <1>7 DEF BlockState
<1>9. Agree(b, t2, k2)
  BY <1>5, <1>8 DEF Agree, SameCount, TrueCount
<1>10. /\ b.Q = t2.DN /\ b.WasCU = t2.CU /\ b.WasCD = t2.CD
       /\ b.Initialized = c.Initialized /\ t2.scanned = t.scanned
  BY <1>1, <1>5, <1>6, <1>8
<1>11. BothCounted(c, t, b, t2, k2)
  BY <1>9, <1>10 DEF BothCounted
<1>12. QED
  BY <1>3, <1>4, <1>11 DEF b, k1

\* Both counts of one scan, the CTD rung first.
LEMMA DownThenUp ==
    ASSUME PV \in Dint, UP_FIRST = FALSE, NEW c, NEW t, NEW k, Agree(c, t, k),
           c.Q = t.DN, c.WasCU = t.CU, c.WasCD = t.CD, NEW CU \in BOOLEAN, NEW CD \in BOOLEAN
    PROVE  BothCounted(c, t, BlockCounts(c, CU, CD), Counted(t, CU, CD),
                       CountAfterUp(CountAfterDown(k, t, CD), t, CU))
<1> DEFINE t1 == CTD(t, CD)
           t2 == CTU(t1, CU)
           c1 == DownOf(c, t, CD)
           c2 == UpOf(c1, t1, CU)
           k1 == CountAfterDown(k, t, CD)
           k2 == CountAfterUp(k1, t1, CU)
           q == IF (CU /\ ~t.CU) \/ (CD /\ ~t.CD) THEN c2.CV >= PV ELSE c2.Q
           b == BlockCounts(c, CU, CD)
<1>1. /\ Agree(c1, t1, k1) /\ c1.Q = c.Q /\ c1.Initialized = c.Initialized
      /\ t1.CD = CD /\ t1.CU = t.CU /\ t1.scanned = t.scanned
      /\ (CD /\ ~t.CD) => t1.DN = (c1.CV >= PV)
      /\ ~(CD /\ ~t.CD) => t1.DN = t.DN /\ c1 = c
  BY CountDownAgrees
<1>2. b = [c2 EXCEPT !.Q = q, !.WasCU = CU, !.WasCD = CD]
  <2>1. t1.CU = t.CU
    BY <1>1
  <2> HIDE DEF t1
  <2>2. QED
    BY <2>1 DEF BlockCounts, DownOf, UpOf
<1>3. Counted(t, CU, CD) = t2
  BY DEF Counted
<1>4. k2 = CountAfterUp(k1, t, CU)
  BY <1>1 DEF CountAfterUp
<1> HIDE DEF c1, t1, k1, b
<1>5. /\ Agree(c2, t2, k2) /\ c2.Q = c1.Q /\ c2.Initialized = c1.Initialized
      /\ t2.CU = CU /\ t2.CD = t1.CD /\ t2.scanned = t1.scanned
      /\ (CU /\ ~t1.CU) => t2.DN = (c2.CV >= PV)
      /\ ~(CU /\ ~t1.CU) => t2.DN = t1.DN /\ c2 = c1
  BY <1>1, CountUpAgrees
<1> HIDE DEF c2, t2, k2
<1>6. q = t2.DN
  <2>1. CASE CU /\ ~t.CU
    <3>1. q = (c2.CV >= PV)
      BY <2>1
    <3>2. t2.DN = (c2.CV >= PV)
      BY <1>1, <1>5, <2>1
    <3>3. QED
      BY <3>1, <3>2
  <2>2. CASE ~(CU /\ ~t.CU) /\ (CD /\ ~t.CD)
    <3>1. q = (c2.CV >= PV)
      BY <2>2
    <3>2. t1.DN = (c1.CV >= PV)
      BY <1>1, <2>2
    <3>3. t2.DN = t1.DN /\ c2 = c1
      BY <1>1, <1>5, <2>2
    <3>4. QED
      BY <3>1, <3>2, <3>3
  <2>3. CASE ~(CU /\ ~t.CU) /\ ~(CD /\ ~t.CD)
    <3>1. q = c2.Q
      BY <2>3
    <3>2. t2.DN = t1.DN /\ t1.DN = t.DN
      BY <1>1, <1>5, <2>3
    <3>3. QED
      BY <1>1, <1>5, <3>1, <3>2
  <2>4. QED
    BY <2>1, <2>2, <2>3
<1>7. q \in BOOLEAN /\ c2 \in BlockState
  BY <1>5, <1>6 DEF CounterTag, Agree
<1> HIDE DEF q
<1>8. /\ b \in BlockState /\ b.Q = q /\ b.WasCU = CU /\ b.WasCD = CD
      /\ b.CV = c2.CV /\ b.OV = c2.OV /\ b.UN = c2.UN /\ b.Initialized = c2.Initialized
  BY <1>2, <1>7 DEF BlockState
<1>9. Agree(b, t2, k2)
  BY <1>5, <1>8 DEF Agree, SameCount, TrueCount
<1>10. /\ b.Q = t2.DN /\ b.WasCU = t2.CU /\ b.WasCD = t2.CD
       /\ b.Initialized = c.Initialized /\ t2.scanned = t.scanned
  BY <1>1, <1>5, <1>6, <1>8
<1>11. BothCounted(c, t, b, t2, k2)
  BY <1>9, <1>10 DEF BothCounted
<1>12. QED
  BY <1>3, <1>4, <1>11 DEF b, k1
\* The first call and the prescan take the edge memory from the same inputs, so
\* that neither side sees an edge in its first scan.
LEMMA FirstCallAgrees ==
    ASSUME CounterInv, NEW CU \in BOOLEAN, NEW CD \in BOOLEAN
    PROVE  LET f == FirstCall(fb, CU, CD)
               p == Prescan(ladder, CU, CD)
           IN  /\ Agree(f, p, count) /\ f.Q = p.DN /\ f.WasCU = p.CU /\ f.WasCD = p.CD
               /\ f.Initialized = TRUE /\ p.scanned = TRUE
               /\ (CU /\ ~p.CU) <=> (CU /\ fb.Initialized /\ ~fb.WasCU)
               /\ (CD /\ ~p.CD) <=> (CD /\ fb.Initialized /\ ~fb.WasCD)
<1> DEFINE f == FirstCall(fb, CU, CD)
           p == Prescan(ladder, CU, CD)
<1>1. fb \in BlockState /\ ladder \in CounterTag /\ BlockFollowsRungs /\ count \in Int
  BY DEF CounterInv
<1>2. CASE fb.Initialized = TRUE
  <2>1. f = fb /\ p = ladder
    BY <1>1, <1>2 DEF FirstCall, Prescan, BlockFollowsRungs
  <2>2. Agree(fb, ladder, count)
    BY <1>1 DEF Agree, SameCount, TrueCount, BlockFollowsRungs
  <2> HIDE DEF f, p
  <2>3. QED
    BY <1>1, <1>2, <2>1, <2>2 DEF BlockFollowsRungs, f, p
<1>3. CASE fb.Initialized = FALSE
  <2>1. /\ f = [fb EXCEPT !.WasCU = CU, !.WasCD = CD, !.Initialized = TRUE]
        /\ p = [ladder EXCEPT !.CU = CU, !.CD = CD, !.scanned = TRUE]
    BY <1>1, <1>3 DEF FirstCall, Prescan, BlockFollowsRungs
  <2>2. /\ f \in BlockState /\ f.CV = fb.CV /\ f.Q = fb.Q /\ f.OV = fb.OV /\ f.UN = fb.UN
        /\ f.WasCU = CU /\ f.WasCD = CD /\ f.Initialized = TRUE
    BY <1>1, <2>1 DEF BlockState
  <2>3. /\ p \in CounterTag /\ p.ACC = ladder.ACC /\ p.DN = ladder.DN /\ p.OV = ladder.OV
        /\ p.UN = ladder.UN /\ p.CU = CU /\ p.CD = CD /\ p.scanned = TRUE
    BY <1>1, <2>1 DEF CounterTag
  <2> HIDE DEF f, p
  <2>4. Agree(f, p, count)
    BY <1>1, <2>2, <2>3 DEF Agree, SameCount, TrueCount, BlockFollowsRungs
  <2>5. f.Q = p.DN
    BY <1>1, <2>2, <2>3 DEF BlockFollowsRungs
  <2>6. QED
    BY <1>3, <2>2, <2>3, <2>4, <2>5 DEF f, p
<1>4. fb.Initialized \in BOOLEAN
  BY <1>1 DEF BlockState
<1>5. QED
  BY <1>2, <1>3, <1>4

\* One scan: both sides count alike, and RES clears both to the same state.
LEMMA CounterScan ==
    ASSUME CounterInv, NEW CU \in BOOLEAN, NEW CD \in BOOLEAN, NEW reset \in BOOLEAN,
           Scan(CU, CD, reset)
    PROVE  CounterInv'
<1> DEFINE f == FirstCall(fb, CU, CD)
           p == Prescan(ladder, CU, CD)
           t == Counted(p, CU, CD)
           b == BlockCounts(f, CU, CD)
           ups == IF CU /\ fb.Initialized /\ ~fb.WasCU THEN 1 ELSE 0
           downs == IF CD /\ fb.Initialized /\ ~fb.WasCD THEN 1 ELSE 0
<1>1. /\ fb' = IF reset THEN BlockReset(f) ELSE b
      /\ ladder' = RES(t, reset)
      /\ count' = IF reset THEN 0 ELSE count + ups - downs
      /\ PV' = PV /\ UP_FIRST' = UP_FIRST
  BY DEF Scan, BlockBody
<1>2. /\ Agree(f, p, count) /\ f.Q = p.DN /\ f.WasCU = p.CU /\ f.WasCD = p.CD
      /\ f.Initialized = TRUE /\ p.scanned = TRUE
      /\ (CU /\ ~p.CU) <=> (CU /\ fb.Initialized /\ ~fb.WasCU)
      /\ (CD /\ ~p.CD) <=> (CD /\ fb.Initialized /\ ~fb.WasCD)
  BY FirstCallAgrees
<1>3. PV \in Dint /\ UP_FIRST \in BOOLEAN /\ count \in Int
  BY DEF CounterInv
<1> HIDE DEF f, p
<1>4. BothCounted(f, p, b, t, count + ups - downs)
  <2>1. CASE UP_FIRST = TRUE
    <3>1. BothCounted(f, p, b, t, CountAfterDown(CountAfterUp(count, p, CU), p, CD))
      BY <1>2, <1>3, <2>1, UpThenDown
    <3>2. CountAfterDown(CountAfterUp(count, p, CU), p, CD) = count + ups - downs
      BY <1>2, <1>3 DEF CountAfterDown, CountAfterUp
    <3>3. QED
      BY <3>1, <3>2
  <2>2. CASE UP_FIRST = FALSE
    <3>1. BothCounted(f, p, b, t, CountAfterUp(CountAfterDown(count, p, CD), p, CU))
      BY <1>2, <1>3, <2>2, DownThenUp
    <3>2. CountAfterUp(CountAfterDown(count, p, CD), p, CU) = count + ups - downs
      BY <1>2, <1>3 DEF CountAfterDown, CountAfterUp
    <3>3. QED
      BY <3>1, <3>2
  <2>3. QED
    BY <1>3, <2>1, <2>2
<1> DEFINE m == count + ups - downs
<1> HIDE DEF b, t, ups, downs, m
<1>5. /\ Agree(b, t, m) /\ b.Q = t.DN /\ b.WasCU = t.CU /\ b.WasCD = t.CD
      /\ b.Initialized = TRUE /\ t.scanned = TRUE
  BY <1>2, <1>4 DEF BothCounted, m
<1>6. CASE reset = FALSE
  <2>1. fb' = b /\ ladder' = t /\ count' = m
    BY <1>1, <1>6 DEF RES, m
  <2>2. BlockFollowsRungs'
    BY <1>5, <2>1 DEF BlockFollowsRungs, Agree, SameCount, TrueCount
  <2>3. QED
    BY <1>1, <1>3, <1>5, <2>1, <2>2 DEF CounterInv, Agree, Dint, MinDint
<1>7. CASE reset = TRUE
  <2>1. /\ fb' = [f EXCEPT !.CV = 0, !.Q = FALSE, !.OV = FALSE, !.UN = FALSE,
                           !.WasCU = FALSE, !.WasCD = FALSE]
        /\ ladder' = [t EXCEPT !.ACC = 0, !.DN = FALSE, !.OV = FALSE, !.UN = FALSE,
                               !.CU = FALSE, !.CD = FALSE]
        /\ count' = 0
    BY <1>1, <1>7 DEF RES, BlockReset
  <2>2. f \in BlockState /\ t \in CounterTag
    BY <1>2, <1>5 DEF Agree
  <2>3. /\ fb' \in BlockState /\ fb'.CV = 0 /\ fb'.Q = FALSE /\ fb'.OV = FALSE /\ fb'.UN = FALSE
        /\ fb'.WasCU = FALSE /\ fb'.WasCD = FALSE /\ fb'.Initialized = f.Initialized
    BY <2>1, <2>2, DintBounds DEF BlockState
  <2>4. /\ ladder' \in CounterTag /\ ladder'.ACC = 0 /\ ladder'.DN = FALSE
        /\ ladder'.OV = FALSE /\ ladder'.UN = FALSE
        /\ ladder'.CU = FALSE /\ ladder'.CD = FALSE /\ ladder'.scanned = t.scanned
    BY <2>1, <2>2, DintBounds DEF CounterTag
  <2>5. BlockFollowsRungs'
    BY <1>2, <1>5, <2>1, <2>3, <2>4 DEF BlockFollowsRungs
  <2>6. QED
    BY <1>1, <1>3, <2>1, <2>3, <2>4, <2>5 DEF CounterInv
<1>8. QED
  BY <1>6, <1>7

\* After every scan the emitted counter block holds what the source CTU, CTD and
\* RES rungs leave in the COUNTER tag, over wraps, resets, both rung orders and
\* every preset, and without a latch set its value is the true count.
THEOREM BlockIsRungs == Spec => []BlockFollowsRungs
<1>1. Init => CounterInv
  <2>1. SUFFICES ASSUME Init PROVE CounterInv
    OBVIOUS
  <2>2. PICK acc \in InitialValues, dn, ov, un \in BOOLEAN :
            /\ fb = [CV |-> acc, Q |-> dn, OV |-> ov, UN |-> un,
                     WasCU |-> FALSE, WasCD |-> FALSE, Initialized |-> FALSE]
            /\ ladder = [ACC |-> acc, DN |-> dn, OV |-> ov, UN |-> un,
                         CU |-> FALSE, CD |-> FALSE, scanned |-> FALSE]
            /\ count = acc
    BY <2>1 DEF Init
  <2>3. acc \in Dint /\ PV \in Dint /\ UP_FIRST \in BOOLEAN
    BY <2>1, CounterAssumption DEF Init, Dint
  <2>4. fb \in BlockState /\ ladder \in CounterTag
    BY <2>2, <2>3 DEF BlockState, CounterTag
  <2>5. BlockFollowsRungs
    BY <2>2 DEF BlockFollowsRungs
  <2>6. QED
    BY <2>2, <2>3, <2>4, <2>5, DintBounds DEF CounterInv
<1>2. CounterInv /\ [Next]_vars => CounterInv'
  <2>1. SUFFICES ASSUME CounterInv, [Next]_vars PROVE CounterInv'
    OBVIOUS
  <2>2. CASE Next
    <3>1. PICK CU, CD, reset \in BOOLEAN : Scan(CU, CD, reset)
      BY <2>2 DEF Next
    <3>2. QED
      BY <2>1, <3>1, CounterScan
  <2>3. CASE UNCHANGED vars
    BY <2>1, <2>3 DEF vars, CounterInv, BlockFollowsRungs, Dint, MinDint, BlockState, CounterTag
  <2>4. QED
    BY <2>1, <2>2, <2>3
<1>3. CounterInv => BlockFollowsRungs
  BY DEF CounterInv
<1>4. QED
  BY <1>1, <1>2, <1>3, PTL DEF Spec

------------------------------------------------------------------------------
(***************************************************************************)
(* OpenPLCLadder: the lowered networks stand for every rung once and in    *)
(* order, and a rung without a condition before its branch keeps its       *)
(* logic.  validate_program and ladder_document walk the rungs each with   *)
(* its own order of the group matchers; they meet at the same rungs        *)
(* because no rung starts a timer group and a counter group.  The          *)
(* invariant keeps the set of rungs the first walk stopped at, which the   *)
(* last walk stays in.                                                     *)
(***************************************************************************)

\* The rungs the walk moves on by from rung i, and that validate_program let it.
Stride(i) == IF Ladder!TimerGroup(i) > 0 THEN Ladder!TimerGroup(i)
             ELSE IF Ladder!CounterGroup(i) > 0 THEN Ladder!CounterGroup(i) ELSE 1

Admitted(i) ==
    /\ Ladder!ParsedAt(i) # nothing
    /\ \/ Ladder!TimerGroup(i) > 0 \/ Ladder!CounterGroup(i) > 0
       \/ Ladder!Ordinary(Ladder!ParsedAt(i))

\* Stops of a walk that has come to rung index, and of one that is over.
StopsSoFar(S) ==
    /\ 1 \in S /\ index \in S
    /\ \A i \in S : i <= index /\ (i # index => Admitted(i) /\ i + Stride(i) \in S)

Stops(S) ==
    /\ 1 \in S
    /\ \A i \in S : Admitted(i) /\ (i + Stride(i) <= Len(rungs) => i + Stride(i) \in S)

\* The networks so far stand for the rungs up to n, once and in order.
Lowered(n) ==
    /\ \A k \in 1..Len(plan) : plan[k].rungs \subseteq 1..n
    /\ \A r \in 1..n : \E k \in 1..Len(plan) : r \in plan[k].rungs
    /\ \A i, j \in 1..Len(plan) : i < j =>
          \A q \in plan[i].rungs, r \in plan[j].rungs : q < r

\* A network that is no block is drawn from one admitted rung.
Drawn ==
    \A k \in 1..Len(plan) : plan[k].graph # nothing =>
        \E i \in 1..Len(rungs) :
            /\ plan[k].rungs = {i} /\ Ladder!ParsedAt(i) # nothing
            /\ Ladder!Ordinary(Ladder!ParsedAt(i))
            /\ plan[k].graph = Ladder!LowerBoolean(Ladder!ParsedAt(i))

LadderInv ==
    /\ rungs \in Programs /\ index \in Nat \ {0}
    /\ \E S : plan \in Seq(S)
    /\ Drawn
    /\ phase \in {"validate", "types", "counters", "declare", "rejected"} => plan = <<>>
    /\ phase = "validate" => \E S \in SUBSET Nat : StopsSoFar(S)
    /\ phase \in {"types", "counters", "declare"} => \E S \in SUBSET Nat : Stops(S)
    /\ phase = "declare" => index = 1
    /\ phase = "lower" => Lowered(index - 1) /\ \E S \in SUBSET Nat : Stops(S) /\ index \in S
    /\ phase = "done" => Lowered(Len(rungs))
    /\ phase \in {"validate", "types", "counters", "declare", "lower", "done", "rejected"}

LEMMA ParsedInside ==
    ASSUME NEW i, Ladder!ParsedAt(i) # nothing
    PROVE  i \in 1..Len(rungs)
  BY DEF Ladder!ParsedAt

\* A group ends within the routine, and no rung starts two.
LEMMA GroupsEndInside ==
    ASSUME NEW i \in Nat
    PROVE  /\ Ladder!CounterGroup(i) \in Nat /\ Ladder!TimerGroup(i) \in Nat
           /\ Ladder!CounterGroup(i) > 0 => i + Ladder!CounterGroup(i) - 1 \in 1..Len(rungs)
           /\ Ladder!TimerGroup(i) > 0 => i + Ladder!TimerGroup(i) - 1 \in 1..Len(rungs)
           /\ ~(Ladder!CounterGroup(i) > 0 /\ Ladder!TimerGroup(i) > 0)
<1> DEFINE op == Ladder!ParsedAt(i).outputs[1].op
<1>1. \/ Ladder!CounterGroup(i) = 0
      \/ /\ Ladder!CounterGroup(i) = 3 /\ i + 2 \in 1..Len(rungs) /\ op \in {"CTU", "CTD"}
      \/ /\ Ladder!CounterGroup(i) = 4 /\ i + 3 \in 1..Len(rungs) /\ op \in {"CTU", "CTD"}
  <2> DEFINE paired == /\ Ladder!IsCount(Ladder!ParsedAt(i)) /\ Ladder!IsCount(Ladder!ParsedAt(i + 1))
                       /\ Ladder!ParsedAt(i + 1).outputs[1].op # op
             counts == IF paired THEN 2 ELSE 1
             tag == Ladder!ParsedAt(i).outputs[1].tag
  <2>1. \/ Ladder!CounterGroup(i) = 0
        \/ /\ Ladder!CounterGroup(i) = counts + 2 /\ Ladder!IsCount(Ladder!ParsedAt(i))
           /\ Ladder!IsReset(Ladder!ParsedAt(i + counts + 1), tag)
    BY DEF Ladder!CounterGroup
  <2>2. Ladder!IsCount(Ladder!ParsedAt(i)) => op \in {"CTU", "CTD"}
    BY DEF Ladder!IsCount
  <2>3. Ladder!IsReset(Ladder!ParsedAt(i + counts + 1), tag) => i + counts + 1 \in 1..Len(rungs)
    BY ParsedInside DEF Ladder!IsReset, Ladder!SingleContact
  <2>4. counts = 1 \/ counts = 2
    OBVIOUS
  <2> HIDE DEF counts, tag, op
  <2>5. CASE counts = 1
    BY <2>1, <2>2, <2>3, <2>5
  <2>6. CASE counts = 2
    BY <2>1, <2>2, <2>3, <2>6
  <2>7. QED
    BY <2>4, <2>5, <2>6
<1>2. \/ Ladder!TimerGroup(i) = 0
      \/ /\ Ladder!TimerGroup(i) = 2 /\ i + 1 \in 1..Len(rungs) /\ op \in {"TON", "TOF", "RTO"}
      \/ /\ Ladder!TimerGroup(i) = 3 /\ i + 2 \in 1..Len(rungs) /\ op \in {"TON", "TOF", "RTO"}
  <2>1. \A j, t : Ladder!IsDone(Ladder!ParsedAt(j), t) => j \in 1..Len(rungs)
    BY ParsedInside DEF Ladder!IsDone, Ladder!SingleContact
  <2>2. \A j, t : Ladder!IsReset(Ladder!ParsedAt(j), t) => j \in 1..Len(rungs)
    BY ParsedInside DEF Ladder!IsReset, Ladder!SingleContact
  <2>3. QED
    BY <2>1, <2>2 DEF Ladder!TimerGroup
<1>3. QED
  BY <1>1, <1>2

LEMMA StrideInside ==
    ASSUME NEW i \in Nat, Admitted(i)
    PROVE  /\ Stride(i) \in Nat \ {0} /\ i \in 1..Len(rungs)
           /\ i + Stride(i) - 1 \in 1..Len(rungs)
<1>1. i \in 1..Len(rungs)
  BY ParsedInside DEF Admitted
<1>2. CASE Ladder!TimerGroup(i) > 0
  BY <1>1, <1>2, GroupsEndInside DEF Stride
<1>3. CASE ~(Ladder!TimerGroup(i) > 0) /\ Ladder!CounterGroup(i) > 0
  BY <1>1, <1>3, GroupsEndInside DEF Stride
<1>4. CASE ~(Ladder!TimerGroup(i) > 0) /\ ~(Ladder!CounterGroup(i) > 0)
  <2>1. Stride(i) = 1
    BY <1>4 DEF Stride
  <2>2. QED
    BY <1>1, <2>1
<1>5. QED
  BY <1>2, <1>3, <1>4

LEMMA LadderInvInit == Ladder!Init => LadderInv
<1>1. SUFFICES ASSUME Ladder!Init PROVE LadderInv
  OBVIOUS
<1>2. rungs \in Programs /\ phase = "validate" /\ index = 1 /\ plan = <<>>
  BY <1>1 DEF Ladder!Init
<1>3. StopsSoFar({1}) /\ {1} \in SUBSET Nat
  BY <1>2 DEF StopsSoFar
<1>4. plan \in Seq({}) /\ Len(plan) = 0
  BY <1>2
<1>5. Drawn
  BY <1>4 DEF Drawn
<1>6. QED
  BY <1>2, <1>3, <1>4, <1>5 DEF LadderInv

\* What the walks read of the routine does not change.
LEMMA RungsRead ==
    ASSUME rungs' = rungs
    PROVE  \A i : /\ Ladder!ParsedAt(i)' = Ladder!ParsedAt(i)
                  /\ Ladder!TimerGroup(i)' = Ladder!TimerGroup(i)
                  /\ Ladder!CounterGroup(i)' = Ladder!CounterGroup(i)
                  /\ Stride(i)' = Stride(i) /\ (Admitted(i)' <=> Admitted(i))
<1>1. \A i : Ladder!ParsedAt(i)' = Ladder!ParsedAt(i)
  BY DEF Ladder!ParsedAt
<1>2. \A i : Ladder!TimerGroup(i)' = Ladder!TimerGroup(i)
  BY <1>1 DEF Ladder!TimerGroup
<1>3. \A i : Ladder!CounterGroup(i)' = Ladder!CounterGroup(i)
  BY <1>1 DEF Ladder!CounterGroup
<1>4. QED
  BY <1>1, <1>2, <1>3 DEF Stride, Admitted

\* The stops of a walk depend on the routine alone.
LEMMA StopsStay ==
    ASSUME NEW S, rungs' = rungs
    PROVE  /\ Stops(S)' <=> Stops(S)
           /\ index' = index => (StopsSoFar(S)' <=> StopsSoFar(S))
  BY RungsRead DEF Stops, StopsSoFar

LEMMA DrawnStays ==
    ASSUME Drawn, UNCHANGED <<rungs, plan>>
    PROVE  Drawn'
  BY RungsRead DEF Drawn

LEMMA RejectKeepsLadder ==
    ASSUME LadderInv, Ladder!Reject, phase \in {"validate", "types", "counters", "declare"}
    PROVE  LadderInv'
<1>1. phase' = "rejected" /\ UNCHANGED <<rungs, index, plan>> /\ plan = <<>>
  BY DEF Ladder!Reject, LadderInv
<1>2. Drawn'
  BY <1>1, DrawnStays DEF LadderInv
<1>3. QED
  BY <1>1, <1>2 DEF LadderInv

\* A walk that only reads moves to its next rung or to the next walk.
LEMMA AdvanceKeepsLadder ==
    ASSUME LadderInv, phase \in {"types", "counters"}, NEW n \in Nat \ {0}, NEW next,
           <<phase, next>> \in {<<"types", "counters">>, <<"counters", "declare">>},
           Ladder!Advance(n, next), UNCHANGED <<rungs, plan>>
    PROVE  LadderInv'
<1>1. PICK S \in SUBSET Nat : Stops(S)
  BY DEF LadderInv
<1>2. Stops(S)'
  BY <1>1, StopsStay
<1>3. /\ index' \in Nat \ {0} /\ phase' \in {phase, next} /\ (phase' = "declare" => index' = 1)
      /\ phase' \in {"types", "counters", "declare"}
  BY DEF Ladder!Advance, LadderInv
<1>4. Drawn'
  BY DrawnStays DEF LadderInv
<1>5. plan = <<>>
  BY DEF LadderInv
<1>6. QED
  BY <1>1, <1>2, <1>3, <1>4, <1>5 DEF LadderInv

LEMMA ValidateKeepsLadder ==
    ASSUME LadderInv, Ladder!ValidateRung
    PROVE  LadderInv'
<1>1. CASE Ladder!Reject
  BY <1>1, RejectKeepsLadder DEF Ladder!ValidateRung
<1>2. CASE ~Ladder!Reject
  <2>1. /\ phase = "validate" /\ Admitted(index) /\ Ladder!Advance(Stride(index), "types")
        /\ UNCHANGED <<rungs, plan>>
    BY <1>2, GroupsEndInside DEF Ladder!ValidateRung, Admitted, Stride, LadderInv
  <2>2. PICK S \in SUBSET Nat : StopsSoFar(S)
    BY <2>1 DEF LadderInv
  <2>3. /\ index \in Nat \ {0} /\ Stride(index) \in Nat \ {0} /\ plan = <<>>
        /\ rungs \in Programs /\ Len(rungs) \in Nat
    BY <2>1, StrideInside, ProgramsAssumption DEF LadderInv
  <2>4. Drawn'
    BY <2>1, DrawnStays DEF LadderInv
  <2>5. CASE index + Stride(index) > Len(rungs)
    <3>1. phase' = "types" /\ index' = 1
      BY <2>1, <2>5 DEF Ladder!Advance
    <3>2. Stops(S)
      BY <2>1, <2>2, <2>3, <2>5 DEF StopsSoFar, Stops
    <3>3. Stops(S)'
      BY <2>1, <3>2, StopsStay
    <3>4. QED
      BY <2>1, <2>2, <2>3, <2>4, <3>1, <3>3 DEF LadderInv
  <2>6. CASE ~(index + Stride(index) > Len(rungs))
    <3>1. phase' = "validate" /\ index' = index + Stride(index) /\ index' \in Nat \ {0}
      BY <2>1, <2>3, <2>6 DEF Ladder!Advance
    <3>2. PICK R \in SUBSET Nat : R = S \cup {index'}
      BY <2>2, <3>1
    <3>3. index' > index /\ index' \in R /\ 1 \in R
      BY <2>2, <2>3, <3>1, <3>2 DEF StopsSoFar
    <3>4. ASSUME NEW i \in R
          PROVE  i <= index' /\ (i # index' => Admitted(i) /\ i + Stride(i) \in R)
      BY <2>1, <2>2, <2>3, <3>1, <3>2, <3>3 DEF StopsSoFar
    <3>5. StopsSoFar(R)'
      BY <2>1, <3>3, <3>4, RungsRead DEF StopsSoFar
    <3>6. QED
      BY <2>1, <2>3, <2>4, <3>1, <3>2, <3>5 DEF LadderInv
  <2>7. QED
    BY <2>5, <2>6
<1>3. QED
  BY <1>1, <1>2

LEMMA ResolveKeepsLadder ==
    ASSUME LadderInv, Ladder!ResolveTimer \/ Ladder!ResolveCounter
    PROVE  LadderInv'
<1>1. CASE Ladder!Reject
  BY <1>1, RejectKeepsLadder DEF Ladder!ResolveTimer, Ladder!ResolveCounter
<1>2. index \in Nat
  BY DEF LadderInv
<1>3. CASE ~Ladder!Reject /\ Ladder!ResolveTimer
  <2> DEFINE n == IF Ladder!TimerGroup(index) > 0 THEN Ladder!TimerGroup(index) ELSE 1
  <2>1. phase = "types" /\ Ladder!Advance(n, "counters") /\ UNCHANGED <<rungs, plan>>
    BY <1>3 DEF Ladder!ResolveTimer
  <2>2. n \in Nat \ {0}
    BY <1>2, GroupsEndInside
  <2> HIDE DEF n
  <2>3. QED
    BY <2>1, <2>2, AdvanceKeepsLadder
<1>4. CASE ~Ladder!Reject /\ Ladder!ResolveCounter
  <2> DEFINE n == IF Ladder!CounterGroup(index) > 0 THEN Ladder!CounterGroup(index) ELSE 1
  <2>1. phase = "counters" /\ Ladder!Advance(n, "declare") /\ UNCHANGED <<rungs, plan>>
    BY <1>4 DEF Ladder!ResolveCounter
  <2>2. n \in Nat \ {0}
    BY <1>2, GroupsEndInside
  <2> HIDE DEF n
  <2>3. QED
    BY <2>1, <2>2, AdvanceKeepsLadder
<1>5. QED
  BY <1>1, <1>3, <1>4

LEMMA DeclareKeepsLadder ==
    ASSUME LadderInv, Ladder!Declare
    PROVE  LadderInv'
<1>1. CASE Ladder!Reject
  BY <1>1, RejectKeepsLadder DEF Ladder!Declare
<1>2. CASE ~Ladder!Reject
  <2>1. phase = "declare" /\ phase' = "lower" /\ UNCHANGED <<rungs, index, plan>>
    BY <1>2 DEF Ladder!Declare
  <2>2. PICK S \in SUBSET Nat : Stops(S)
    BY <2>1 DEF LadderInv
  <2>3. Stops(S)' /\ index' = 1 /\ index' \in S /\ plan' = <<>> /\ Len(plan') = 0
    BY <2>1, <2>2, StopsStay DEF LadderInv, Stops
  <2>4. Lowered(index - 1)'
    BY <2>3 DEF Lowered
  <2>5. Drawn'
    BY <2>1, DrawnStays DEF LadderInv
  <2>6. QED
    BY <2>1, <2>2, <2>3, <2>4, <2>5 DEF LadderInv
<1>3. QED
  BY <1>1, <1>2

\* ladder_document draws the group or rung at index and moves past it.
LEMMA EmitKeepsLadder ==
    ASSUME LadderInv, NEW block, NEW graph, Ladder!Emit(Stride(index), block, graph),
           graph # nothing => /\ Stride(index) = 1 /\ Ladder!Ordinary(Ladder!ParsedAt(index))
                              /\ graph = Ladder!LowerBoolean(Ladder!ParsedAt(index))
    PROVE  LadderInv'
<1> DEFINE n == Stride(index)
           e == [rungs |-> index..(index + n - 1), block |-> block, graph |-> graph]
<1>1. phase = "lower" /\ plan' = Append(plan, e) /\ Ladder!Advance(n, "done") /\ rungs' = rungs
  BY DEF Ladder!Emit
<1>2. PICK S \in SUBSET Nat : Stops(S) /\ index \in S
  BY <1>1 DEF LadderInv
<1>3. /\ n \in Nat \ {0} /\ index \in 1..Len(rungs) /\ index + n - 1 \in 1..Len(rungs)
      /\ Len(rungs) \in Nat /\ Admitted(index) /\ (index + n <= Len(rungs) => index + n \in S)
  BY <1>2, StrideInside, ProgramsAssumption DEF Stops, LadderInv
<1>4. PICK T : plan \in Seq(T)
  BY DEF LadderInv
<1>5. /\ plan' \in Seq(T \cup {e}) /\ Len(plan) \in Nat /\ Len(plan') = Len(plan) + 1
      /\ plan'[Len(plan) + 1] = e /\ \A k \in 1..Len(plan) : plan'[k] = plan[k]
  BY <1>1, <1>4
<1>6. \A k \in 1..Len(plan') : k \in 1..Len(plan) \/ k = Len(plan) + 1
  BY <1>5
<1>7. e.rungs = index..(index + n - 1) /\ e.graph = graph
  OBVIOUS
<1> HIDE DEF e, n
<1>8. Drawn'
  <2>1. SUFFICES ASSUME NEW k \in 1..Len(plan'), plan'[k].graph # nothing
                 PROVE  \E i \in 1..Len(rungs) :
                           /\ plan'[k].rungs = {i} /\ Ladder!ParsedAt(i) # nothing
                           /\ Ladder!Ordinary(Ladder!ParsedAt(i))
                           /\ plan'[k].graph = Ladder!LowerBoolean(Ladder!ParsedAt(i))
    BY <1>1, RungsRead DEF Drawn
  <2>2. CASE k \in 1..Len(plan)
    BY <1>5, <2>1, <2>2 DEF LadderInv, Drawn
  <2>3. CASE k = Len(plan) + 1
    <3>1. n = 1 /\ Ladder!Ordinary(Ladder!ParsedAt(index))
          /\ graph = Ladder!LowerBoolean(Ladder!ParsedAt(index)) /\ plan'[k] = e
      BY <1>5, <1>7, <2>1, <2>3 DEF n
    <3>2. e.rungs = {index}
      BY <1>3, <1>7, <3>1
    <3>3. QED
      BY <1>3, <1>7, <3>1, <3>2 DEF Admitted
  <2>4. QED
    BY <1>6, <2>2, <2>3
<1>9. ASSUME NEW m, m = index + n - 1
      PROVE  /\ \A k \in 1..Len(plan') : plan'[k].rungs \subseteq 1..m
             /\ \A r \in 1..m : \E k \in 1..Len(plan') : r \in plan'[k].rungs
             /\ \A i, j \in 1..Len(plan') : i < j =>
                   \A q \in plan'[i].rungs, r \in plan'[j].rungs : q < r
  <2>1. /\ \A k \in 1..Len(plan) : plan[k].rungs \subseteq 1..(index - 1)
        /\ \A r \in 1..(index - 1) : \E k \in 1..Len(plan) : r \in plan[k].rungs
        /\ \A i, j \in 1..Len(plan) : i < j =>
              \A q \in plan[i].rungs, r \in plan[j].rungs : q < r
    BY <1>1 DEF LadderInv, Lowered
  <2>2. /\ 1..(index - 1) \subseteq 1..m /\ e.rungs \subseteq 1..m
        /\ \A r \in 1..m : r \in 1..(index - 1) \/ r \in e.rungs
        /\ \A q \in 1..(index - 1), r \in e.rungs : q < r
    BY <1>3, <1>7, <1>9
  <2>3. \A k \in 1..Len(plan') : plan'[k].rungs \subseteq 1..m
    BY <1>5, <1>6, <2>1, <2>2
  <2>4. \A r \in 1..m : \E k \in 1..Len(plan') : r \in plan'[k].rungs
    <3>1. SUFFICES ASSUME NEW r \in 1..m PROVE \E k \in 1..Len(plan') : r \in plan'[k].rungs
      OBVIOUS
    <3>2. CASE r \in 1..(index - 1)
      BY <1>5, <2>1, <3>2
    <3>3. CASE r \in e.rungs
      BY <1>5, <3>3
    <3>4. QED
      BY <2>2, <3>2, <3>3
  <2>5. ASSUME NEW i \in 1..Len(plan'), NEW j \in 1..Len(plan'), i < j,
               NEW q \in plan'[i].rungs, NEW r \in plan'[j].rungs
        PROVE  q < r
    <3>1. i \in 1..Len(plan) /\ plan'[i] = plan[i] /\ q \in 1..(index - 1)
      BY <1>5, <2>1, <2>5
    <3>2. CASE j \in 1..Len(plan)
      BY <1>5, <2>1, <2>5, <3>1, <3>2
    <3>3. CASE j = Len(plan) + 1
      BY <1>5, <2>2, <2>5, <3>1, <3>3
    <3>4. QED
      BY <1>6, <3>2, <3>3
  <2>6. QED
    BY <2>3, <2>4, <2>5
<1>10. CASE index + n > Len(rungs)
  <2>1. phase' = "done" /\ index' = 1 /\ index + n - 1 = Len(rungs)
    BY <1>1, <1>3, <1>10 DEF Ladder!Advance
  <2>2. Lowered(Len(rungs))'
    BY <1>1, <1>9, <2>1 DEF Lowered
  <2>3. QED
    BY <1>1, <1>5, <1>8, <2>1, <2>2 DEF LadderInv
<1>11. CASE ~(index + n > Len(rungs))
  <2>1. phase' = "lower" /\ index' = index + n /\ index + n - 1 = index' - 1 /\ index' \in Nat \ {0}
    BY <1>1, <1>3, <1>11 DEF Ladder!Advance
  <2>2. Lowered(index - 1)'
    BY <1>9, <2>1 DEF Lowered
  <2>3. Stops(S)' /\ index' \in S
    BY <1>1, <1>2, <1>3, <1>11, <2>1, StopsStay
  <2>4. QED
    BY <1>1, <1>2, <1>5, <1>8, <2>1, <2>2, <2>3 DEF LadderInv
<1>12. QED
  BY <1>10, <1>11

LEMMA LowerKeepsLadder ==
    ASSUME LadderInv, Ladder!LowerCounter \/ Ladder!LowerTimer \/ Ladder!LowerRung
    PROVE  LadderInv'
<1>1. index \in Nat /\ phase = "lower"
  BY DEF LadderInv, Ladder!LowerCounter, Ladder!LowerTimer, Ladder!LowerRung, Ladder!Emit
<1>2. /\ Ladder!CounterGroup(index) \in Nat /\ Ladder!TimerGroup(index) \in Nat
      /\ ~(Ladder!CounterGroup(index) > 0 /\ Ladder!TimerGroup(index) > 0)
  BY <1>1, GroupsEndInside
<1>3. CASE Ladder!LowerCounter
  <2>1. Stride(index) = Ladder!CounterGroup(index)
    BY <1>2, <1>3 DEF Stride, Ladder!LowerCounter
  <2>2. Ladder!Emit(Stride(index), Ladder!ParsedAt(index).outputs[1].tag, nothing)
    BY <1>3, <2>1 DEF Ladder!LowerCounter
  <2>3. QED
    BY <2>2, EmitKeepsLadder
<1>4. CASE Ladder!LowerTimer
  <2>1. Stride(index) = Ladder!TimerGroup(index)
    BY <1>2, <1>4 DEF Stride, Ladder!LowerTimer
  <2>2. Ladder!Emit(Stride(index), Ladder!ParsedAt(index).outputs[1].tag, nothing)
    BY <1>4, <2>1 DEF Ladder!LowerTimer
  <2>3. QED
    BY <2>2, EmitKeepsLadder
<1>5. CASE Ladder!LowerRung
  <2>1. Stride(index) = 1 /\ Ladder!CounterGroup(index) = 0 /\ Ladder!TimerGroup(index) = 0
    BY <1>5 DEF Stride, Ladder!LowerRung
  <2>2. Ladder!Emit(Stride(index), nothing, Ladder!LowerBoolean(Ladder!ParsedAt(index)))
    BY <1>5, <2>1 DEF Ladder!LowerRung
  <2>3. Admitted(index)
    BY <1>1 DEF LadderInv, Stops
  <2>4. Ladder!Ordinary(Ladder!ParsedAt(index))
    BY <2>1, <2>3 DEF Admitted
  <2>5. QED
    BY <2>1, <2>2, <2>4, EmitKeepsLadder
<1>6. QED
  BY <1>3, <1>4, <1>5

LEMMA LadderStutter ==
    ASSUME LadderInv, UNCHANGED Ladder!vars
    PROVE  LadderInv'
<1>1. UNCHANGED <<rungs, phase, index, plan>>
  BY DEF Ladder!vars
<1>2. Drawn'
  BY <1>1, DrawnStays DEF LadderInv
<1>3. \A S : (Stops(S)' <=> Stops(S)) /\ (StopsSoFar(S)' <=> StopsSoFar(S))
  BY <1>1, StopsStay
<1>4. QED
  BY <1>1, <1>2, <1>3 DEF LadderInv, Lowered

LEMMA LadderInvAlways == Ladder!Spec => []LadderInv
<1>1. LadderInv /\ [Ladder!Next]_(Ladder!vars) => LadderInv'
  BY ValidateKeepsLadder, ResolveKeepsLadder, DeclareKeepsLadder, LowerKeepsLadder, LadderStutter
     DEF Ladder!Next, Ladder!Finished
<1>2. QED
  BY <1>1, LadderInvInit, PTL DEF Ladder!Spec

\* Whatever the routine, the networks ladder_document has drawn stand for different
\* rungs in the routine's order, and once it is done for all of them.
THEOREM RungsLoweredOnce == Ladder!Spec => []EveryRungLoweredOnce
<1>1. LadderInv => EveryRungLoweredOnce
  <2>1. SUFFICES ASSUME LadderInv PROVE Ladder!EveryRungLoweredOnce
    BY DEF EveryRungLoweredOnce
  <2>2. CASE phase \in {"lower", "done"}
    <3>1. PICK n : Lowered(n) /\ (phase = "done" => n = Len(rungs))
      BY <2>1, <2>2 DEF LadderInv
    <3>2. UNION {plan[i].rungs : i \in 1..Len(plan)} = 1..n
      BY <3>1 DEF Lowered
    <3>3. QED
      BY <3>1, <3>2 DEF Lowered, Ladder!EveryRungLoweredOnce
  <2>3. CASE phase \notin {"lower", "done"}
    BY <2>1, <2>3 DEF LadderInv, Ladder!EveryRungLoweredOnce
  <2>4. QED
    BY <2>2, <2>3
<1>2. QED
  BY <1>1, LadderInvAlways, PTL

\* An admitted rung without a condition before its branch is drawn with its logic:
\* contacts that are all normally open in a row, or two such paths with at most one
\* contact in front.
LEMMA OrdinaryKeepsLogic ==
    ASSUME NEW rung, NEW memory, rung.before = <<>>, Ladder!parse(rung) # nothing,
           Ladder!Ordinary(Ladder!parse(rung))
    PROVE  Ladder!SourceValue(rung, memory)
           <=> Ladder!GraphValue(Ladder!LowerBoolean(Ladder!parse(rung)), memory)
<1> DEFINE p == Ladder!parse(rung)
           tail == SelectSeq(rung.after, Ladder!IsCondition)
           g == Ladder!LowerBoolean(p)
<1>1. p.branches = rung.paths /\ p.tail = tail
  BY DEF Ladder!parse
<1>2. Len(tail) \in Nat
  OBVIOUS
<1>3. Ladder!AllHold(rung.before, memory)
  BY DEF Ladder!AllHold
<1>4. CASE Ladder!SerialSupported(p)
  <2>1. rung.paths = <<>> /\ \A i \in 1..Len(tail) : tail[i].op = "XIC"
    BY <1>1, <1>4 DEF Ladder!SerialSupported
  <2>2. g.either = <<>> /\ Len(g.series) = Len(tail)
        /\ \A i \in 1..Len(tail) : g.series[i] = [op |-> "XIC", tag |-> tail[i].tag, member |-> tail[i].member]
    BY <1>1, <1>2, <2>1 DEF Ladder!LowerBoolean
  <2> HIDE DEF g, tail, p
  <2>3. \A i \in 1..Len(tail) : /\ g.series[i].op = tail[i].op
                                /\ Ladder!Operand(g.series[i]) = Ladder!Operand(tail[i])
    <3>1. SUFFICES ASSUME NEW i \in 1..Len(tail)
                   PROVE  /\ g.series[i].op = tail[i].op
                          /\ Ladder!Operand(g.series[i]) = Ladder!Operand(tail[i])
      BY Zenon
    <3>2. /\ g.series[i] = [op |-> "XIC", tag |-> tail[i].tag, member |-> tail[i].member]
          /\ tail[i].op = "XIC"
      BY <2>1, <2>2, Zenon
    <3>3. g.series[i].op = "XIC" /\ g.series[i].tag = tail[i].tag /\ g.series[i].member = tail[i].member
      BY <3>2
    <3>4. QED
      BY <3>2, <3>3 DEF Ladder!Operand
  <2>4. \A c, d : c.op = d.op /\ Ladder!Operand(c) = Ladder!Operand(d)
                  => (Ladder!Holds(c, memory) <=> Ladder!Holds(d, memory))
    BY Zenon DEF Ladder!Holds
  <2>5. Ladder!AllHold(g.series, memory) <=> Ladder!AllHold(tail, memory)
    BY <2>2, <2>3, <2>4, Zenon DEF Ladder!AllHold
  <2>6. QED
    BY <1>3, <2>1, <2>2, <2>5 DEF Ladder!SourceValue, Ladder!GraphValue, g, tail, p
<1>5. CASE Ladder!ParallelSupported(p)
  <2>1. /\ Len(rung.paths) = 2
        /\ \A b \in 1..2 : Len(rung.paths[b]) = 1 /\ rung.paths[b][1].op = "XIC"
    BY <1>1, <1>5 DEF Ladder!ParallelSupported
  <2>2. rung.paths # <<>>
    BY <2>1
  <2>3. g.series = tail /\ g.either = <<rung.paths[1][1], rung.paths[2][1]>>
    BY <1>1, <2>2 DEF Ladder!LowerBoolean, Ladder!ParallelRung
  <2>4. g.either # <<>> /\ g.either[1] = rung.paths[1][1] /\ g.either[2] = rung.paths[2][1]
    BY <2>3
  <2> HIDE DEF g, tail, p
  <2>5. \A b \in 1..2 : Ladder!AllHold(rung.paths[b], memory) <=> Ladder!Holds(g.either[b], memory)
    <3>1. 1..1 = {1} /\ 1..2 = {1, 2}
      OBVIOUS
    <3>2. QED
      BY <2>1, <2>4, <3>1, Zenon DEF Ladder!AllHold
  <2>6. QED
    BY <1>3, <2>1, <2>2, <2>3, <2>4, <2>5 DEF Ladder!SourceValue, Ladder!GraphValue, g, tail, p
<1>6. QED
  BY <1>4, <1>5 DEF Ladder!Ordinary

\* A rung validate_program admits with no condition before its branch is drawn as a
\* network that gives its coil what the source rung gives its output, whatever the
\* operands hold.
THEOREM LoweredRungsKeepLogic == Ladder!Spec => []LoweringKeepsLogic
<1>1. LadderInv => LoweringKeepsLogic
  <2>1. SUFFICES ASSUME LadderInv, NEW k \in 1..Len(plan), plan[k].graph # nothing,
                        Ladder!RungOf(plan[k]).before = <<>>,
                        NEW memory \in [Ladder!Operands(Ladder!RungOf(plan[k])) -> BOOLEAN]
                 PROVE  Ladder!SourceValue(Ladder!RungOf(plan[k]), memory)
                        = Ladder!GraphValue(plan[k].graph, memory)
    BY DEF LoweringKeepsLogic, Ladder!LoweringKeepsLogic, Ladder!SameLogic, Ladder!Graphs
  <2>2. PICK i \in 1..Len(rungs) :
            /\ plan[k].rungs = {i} /\ Ladder!ParsedAt(i) # nothing
            /\ Ladder!Ordinary(Ladder!ParsedAt(i))
            /\ plan[k].graph = Ladder!LowerBoolean(Ladder!ParsedAt(i))
    BY <2>1 DEF LadderInv, Drawn
  <2>3. Ladder!RungOf(plan[k]) = rungs[i] /\ Ladder!ParsedAt(i) = Ladder!parse(rungs[i])
    BY <2>2 DEF Ladder!RungOf, Ladder!ParsedAt
  <2>4. Ladder!SourceValue(rungs[i], memory) <=> Ladder!GraphValue(plan[k].graph, memory)
    BY <2>1, <2>2, <2>3, OrdinaryKeepsLogic
  <2>5. QED
    BY <2>3, <2>4 DEF Ladder!SourceValue, Ladder!GraphValue
<1>2. QED
  BY <1>1, LadderInvAlways, PTL

------------------------------------------------------------------------------
(***************************************************************************)
(* CyclicIO: where the words of an accepted layout are, and which bytes of *)
(* an image encode leaves alone.  What the arithmetic of the bytes comes   *)
(* to is left to the runs.                                                 *)
(***************************************************************************)

IsWord(f) == f.target = "none"
Lies(f, i) == f.offset < i /\ i <= f.offset + f.size
Accepted == imagePhase \in {"ready", "words", "bits", "image", "decoded"}
Encoding == imagePhase \in {"words", "bits", "image", "decoded"}

\* Bit g has the bounds of the word it names.
LiesOver(F, g) ==
    \E k \in DOMAIN F :
        /\ IsWord(F[k]) /\ F[k].name = F[g].target
        /\ F[k].offset = F[g].offset /\ F[k].size = F[g].size

\* encode was given a bit of word f.
BitAsked(f) ==
    \E g \in DOMAIN fields :
        ~IsWord(fields[g]) /\ fields[g].target = f.name /\ fields[g].name \in DOMAIN values

\* Byte i of word f when its value is v.
ByteOf(f, v, i) ==
    ((v % Cyclic!Radix(f.size)) \div Cyclic!Radix(Cyclic!Place(f, i))) % Cyclic!Radix(1)

\* No byte of an accepted layout is in two words, and every bit lies over the bytes of
\* the one word it names.
WordsApart ==
    Accepted =>
        /\ \A k \in DOMAIN fields : \A i \in Int :
              Lies(fields[k], i) => i \in 1..contract.size
        /\ \A k, l \in DOMAIN fields : \A i \in Int :
              IsWord(fields[k]) /\ IsWord(fields[l]) /\ Lies(fields[k], i) /\ Lies(fields[l], i)
                 => k = l
        /\ \A g \in DOMAIN fields : ~IsWord(fields[g]) => LiesOver(fields, g)

\* In what encode returns, a word that was given holds the bytes of its value and one
\* that was not holds those of the base image, unless one of its bits was given; and a
\* byte of no word is the base image's.
NeighboursKept ==
    imagePhase \in {"image", "decoded"} =>
        /\ \A k \in DOMAIN fields : IsWord(fields[k]) /\ ~BitAsked(fields[k]) =>
              \A i \in Int : Lies(fields[k], i) =>
                 image[i] = IF fields[k].name \in DOMAIN values
                            THEN ByteOf(fields[k], values[fields[k].name], i) ELSE base[i]
        /\ \A i \in 1..contract.size :
              (\A k \in DOMAIN fields : ~Lies(fields[k], i)) => image[i] = base[i]

Sequence(F) == \E S : F \in Seq(S)

\* The layout F so far: words follow each other up to the end o, O knows them, and a
\* bit has the bounds of the word of its target, or none.
Packed(F, o, O) ==
    /\ Sequence(F)
    /\ o \in Nat
    /\ \A k \in DOMAIN F : F[k].offset \in Nat /\ F[k].size \in Nat
    /\ \A k \in DOMAIN F : IsWord(F[k]) => F[k].offset + F[k].size <= o
    /\ \A k, l \in DOMAIN F : IsWord(F[k]) /\ IsWord(F[l]) /\ k < l =>
          F[k].offset + F[k].size <= F[l].offset
    /\ \A n \in DOMAIN O : \E k \in DOMAIN F :
          IsWord(F[k]) /\ F[k].name = n /\ O[n] = <<F[k].offset, F[k].size>>
    /\ \A g \in DOMAIN F : ~IsWord(F[g]) /\ F[g].size # 0 => LiesOver(F, g)

\* The image while encode writes the fields it was given.
Written ==
    /\ DOMAIN image = 1..contract.size
    /\ DOMAIN values \subseteq {fields[k].name : k \in DOMAIN fields}
    /\ todo \subseteq DOMAIN values
    /\ imagePhase \in {"image", "decoded"} => todo = {}
    /\ \A i \in 1..contract.size :
          (\A k \in DOMAIN fields : Lies(fields[k], i) => fields[k].name \notin DOMAIN values \ todo)
             => image[i] = base[i]
    /\ \A k \in DOMAIN fields :
          IsWord(fields[k]) /\ ~BitAsked(fields[k]) /\ fields[k].name \in DOMAIN values \ todo =>
             \A i \in Int : Lies(fields[k], i) =>
                image[i] = ByteOf(fields[k], values[fields[k].name], i)

\* The fields of an accepted layout have names of their own.
Unique == \A k, l \in DOMAIN fields : fields[k].name = fields[l].name => k = l

\* The layout is packed; once it is accepted words are apart; and while encode runs the
\* image is the base image but for what has been written.
CyclicInv ==
    /\ contract \in Contracts
    /\ Packed(fields, offset, offsets)
    /\ Accepted => WordsApart /\ Unique /\ contract.size \in Nat \ {0}
    /\ Encoding => Written

\* Appending keeps every field and adds one.
LEMMA OneMoreField ==
    ASSUME NEW R, NEW x, Sequence(R)
    PROVE  /\ Sequence(Append(R, x))
           /\ DOMAIN R = 1..Len(R) /\ Len(R) \in Nat
           /\ DOMAIN Append(R, x) = 1..(Len(R) + 1)
           /\ Append(R, x)[Len(R) + 1] = x
           /\ \A i \in 1..Len(R) : Append(R, x)[i] = R[i]
<1>1. PICK S : R \in Seq(S)
  BY DEF Sequence
<1>2. R \in Seq(S \cup {x})
  BY <1>1
<1>3. Append(R, x) \in Seq(S \cup {x})
  BY <1>2
<1>4. QED
  BY <1>2, <1>3 DEF Sequence

\* A field with bounds is appended, and what lies over a word still does.
LEMMA FieldsGrow ==
    ASSUME NEW F, NEW o, NEW O, Packed(F, o, O), NEW x
    PROVE  LET G == Append(F, x)
               N == Len(F) + 1
           IN  /\ Sequence(G)
               /\ N \in DOMAIN G /\ N \notin DOMAIN F /\ G[N] = x
               /\ DOMAIN G = DOMAIN F \cup {N}
               /\ \A k \in DOMAIN F : k \in DOMAIN G /\ k \in Nat /\ k < N /\ G[k] = F[k]
               /\ N \in Nat
               /\ \A g \in DOMAIN F : LiesOver(F, g) => LiesOver(G, g)
<1> DEFINE G == Append(F, x)
           N == Len(F) + 1
<1>1. /\ Sequence(G)
      /\ DOMAIN F = 1..Len(F) /\ Len(F) \in Nat
      /\ DOMAIN G = 1..N /\ G[N] = x
      /\ \A i \in 1..Len(F) : G[i] = F[i]
  BY OneMoreField DEF Packed
<1> HIDE DEF G
<1>2. /\ N \in DOMAIN G /\ N \notin DOMAIN F
      /\ DOMAIN G = DOMAIN F \cup {N}
      /\ \A k \in DOMAIN F : k \in DOMAIN G /\ k \in Nat /\ k < N /\ G[k] = F[k]
      /\ N \in Nat
  BY <1>1
<1> HIDE DEF N
<1>3. \A g \in DOMAIN F : LiesOver(F, g) => LiesOver(G, g)
  BY <1>2 DEF LiesOver
<1>4. QED
  BY <1>1, <1>2, <1>3 DEF G, N

\* offsets with one more word.
Noted(O, n, b) == [k \in DOMAIN O \cup {n} |-> IF k = n THEN b ELSE O[k]]

\* A word goes to the end of the words before it.
LEMMA WordIsPacked ==
    ASSUME NEW F, NEW o, NEW O, Packed(F, o, O), NEW x,
           IsWord(x), x.offset = o, x.size \in Nat
    PROVE  Packed(Append(F, x), o + x.size, Noted(O, x.name, <<o, x.size>>))
<1> DEFINE G == Append(F, x)
           N == Len(F) + 1
           P == Noted(O, x.name, <<o, x.size>>)
<1>1. /\ Sequence(G)
      /\ N \in DOMAIN G /\ N \notin DOMAIN F /\ G[N] = x
      /\ DOMAIN G = DOMAIN F \cup {N}
      /\ \A k \in DOMAIN F : k \in DOMAIN G /\ k \in Nat /\ k < N /\ G[k] = F[k]
      /\ N \in Nat
      /\ \A g \in DOMAIN F : LiesOver(F, g) => LiesOver(G, g)
  BY FieldsGrow
<1> HIDE DEF G, N
<1>2. o \in Nat /\ o + x.size \in Nat
  BY DEF Packed
<1>3. /\ \A k \in DOMAIN G : G[k].offset \in Nat /\ G[k].size \in Nat
      /\ \A k \in DOMAIN G : IsWord(G[k]) => G[k].offset + G[k].size <= o + x.size
  <2>1. ASSUME NEW k \in DOMAIN F
        PROVE  /\ G[k].offset \in Nat /\ G[k].size \in Nat
               /\ IsWord(G[k]) => G[k].offset + G[k].size <= o + x.size
    BY <1>1, <1>2 DEF Packed
  <2>2. G[N].offset \in Nat /\ G[N].size \in Nat /\ G[N].offset + G[N].size <= o + x.size
    BY <1>1, <1>2
  <2>3. QED
    BY <1>1, <2>1, <2>2
<1>4. ASSUME NEW k \in DOMAIN G, NEW l \in DOMAIN G, IsWord(G[k]), IsWord(G[l]), k < l
      PROVE  G[k].offset + G[k].size <= G[l].offset
  <2>1. k \in DOMAIN F
    BY <1>1, <1>4
  <2>2. CASE l \in DOMAIN F
    BY <1>1, <1>4, <2>1, <2>2 DEF Packed
  <2>3. CASE l = N
    BY <1>1, <1>4, <2>1, <2>3 DEF Packed
  <2>4. QED
    BY <1>1, <2>2, <2>3
<1>5. ASSUME NEW n \in DOMAIN P
      PROVE  \E k \in DOMAIN G :
                IsWord(G[k]) /\ G[k].name = n /\ P[n] = <<G[k].offset, G[k].size>>
  <2>1. CASE n = x.name
    <3>1. P[n] = <<x.offset, x.size>>
      BY <1>5, <2>1 DEF Noted
    <3>2. QED
      BY <1>1, <2>1, <3>1
  <2>2. CASE n # x.name
    <3>1. n \in DOMAIN O /\ P[n] = O[n]
      BY <1>5, <2>2 DEF Noted
    <3>2. PICK k \in DOMAIN F :
             IsWord(F[k]) /\ F[k].name = n /\ O[n] = <<F[k].offset, F[k].size>>
      BY <3>1 DEF Packed
    <3>3. QED
      BY <1>1, <3>1, <3>2
  <2>3. QED
    BY <2>1, <2>2
<1> HIDE DEF P
<1>6. \A g \in DOMAIN G : ~IsWord(G[g]) /\ G[g].size # 0 => LiesOver(G, g)
  BY <1>1 DEF Packed
<1>7. Packed(G, o + x.size, P)
  BY <1>1, <1>2, <1>3, <1>4, <1>5, <1>6 DEF Packed
<1>8. QED
  BY <1>7 DEF G, P

\* A bit takes the bounds noted for its target, or none.
LEMMA BitIsPacked ==
    ASSUME NEW F, NEW o, NEW O, Packed(F, o, O), NEW x, NEW b, ~IsWord(x),
           b = IF x.target \in DOMAIN O THEN O[x.target] ELSE <<0, 0>>,
           x.offset = b[1], x.size = b[2]
    PROVE  Packed(Append(F, x), o, O)
<1> DEFINE G == Append(F, x)
           N == Len(F) + 1
<1>1. /\ Sequence(G)
      /\ N \in DOMAIN G /\ N \notin DOMAIN F /\ G[N] = x
      /\ DOMAIN G = DOMAIN F \cup {N}
      /\ \A k \in DOMAIN F : k \in DOMAIN G /\ k \in Nat /\ k < N /\ G[k] = F[k]
      /\ N \in Nat
      /\ \A g \in DOMAIN F : LiesOver(F, g) => LiesOver(G, g)
  BY FieldsGrow
<1> HIDE DEF G, N
<1>2. \/ x.offset = 0 /\ x.size = 0
      \/ \E k \in DOMAIN F :
            /\ IsWord(F[k]) /\ F[k].name = x.target
            /\ F[k].offset = x.offset /\ F[k].size = x.size
  <2>1. CASE x.target \in DOMAIN O
    <3>1. PICK k \in DOMAIN F :
             IsWord(F[k]) /\ F[k].name = x.target /\ O[x.target] = <<F[k].offset, F[k].size>>
      BY <2>1 DEF Packed
    <3>2. b = <<F[k].offset, F[k].size>>
      BY <2>1, <3>1
    <3>3. QED
      BY <3>1, <3>2
  <2>2. CASE x.target \notin DOMAIN O
    BY <2>2
  <2>3. QED
    BY <2>1, <2>2
<1>3. x.offset \in Nat /\ x.size \in Nat
  BY <1>2 DEF Packed
<1>4. \A k \in DOMAIN G : IsWord(G[k]) => k \in DOMAIN F
  BY <1>1
<1>5. \A k \in DOMAIN G : G[k].offset \in Nat /\ G[k].size \in Nat
  BY <1>1, <1>3 DEF Packed
<1>6. /\ \A k \in DOMAIN G : IsWord(G[k]) => G[k].offset + G[k].size <= o
      /\ \A k, l \in DOMAIN G : IsWord(G[k]) /\ IsWord(G[l]) /\ k < l =>
            G[k].offset + G[k].size <= G[l].offset
  BY <1>1, <1>4 DEF Packed
<1>7. ASSUME NEW n \in DOMAIN O
      PROVE  \E k \in DOMAIN G :
                IsWord(G[k]) /\ G[k].name = n /\ O[n] = <<G[k].offset, G[k].size>>
  <2>1. PICK k \in DOMAIN F :
           IsWord(F[k]) /\ F[k].name = n /\ O[n] = <<F[k].offset, F[k].size>>
    BY DEF Packed
  <2>2. QED
    BY <1>1, <2>1
<1>8. ASSUME NEW g \in DOMAIN G, ~IsWord(G[g]), G[g].size # 0
      PROVE  LiesOver(G, g)
  <2>1. CASE g \in DOMAIN F
    BY <1>1, <1>8, <2>1 DEF Packed
  <2>2. CASE g = N
    <3>1. PICK k \in DOMAIN F :
             /\ IsWord(F[k]) /\ F[k].name = x.target
             /\ F[k].offset = x.offset /\ F[k].size = x.size
      BY <1>1, <1>2, <1>8, <2>2
    <3>2. QED
      BY <1>1, <2>2, <3>1 DEF LiesOver
  <2>3. QED
    BY <1>1, <2>1, <2>2
<1>9. Packed(G, o, O)
  BY <1>1, <1>5, <1>6, <1>7, <1>8 DEF Packed
<1>10. QED
  BY <1>9 DEF G

\* Nothing is laid out at first.
LEMMA CyclicInvInit == Cyclic!Init => CyclicInv
<1>1. Sequence(<<>>)
  BY <<>> \in Seq({}) DEF Sequence
<1>2. DOMAIN <<>> = {}
  OBVIOUS
<1>3. Packed(<<>>, 0, <<>>)
  BY <1>1, <1>2 DEF Packed
<1>4. QED
  BY <1>3 DEF Cyclic!Init, CyclicInv, Accepted, Encoding

\* One member laid out.
LEMMA LayoutKeepsCyclic ==
    ASSUME CyclicInv, Cyclic!Layout
    PROVE  CyclicInv'
<1> DEFINE m == contract.members[Len(fields) + 1]
           b == IF m.target \in DOMAIN offsets THEN offsets[m.target] ELSE <<0, 0>>
           sz == Cyclic!_atomic_size[m.type]
<1>1. /\ imagePhase = "layout" /\ UNCHANGED <<contract, imagePhase>>
      /\ Len(fields) < Len(contract.members)
  BY DEF Cyclic!Layout
<1>2. Len(fields) \in Nat
  BY OneMoreField DEF CyclicInv, Packed
<1>3. m.type \in {"BOOL", "SINT", "INT", "DINT", "REAL", "LINT"}
  <2>1. Len(contract.members) \in Nat
    BY ContractsAssumption DEF CyclicInv
  <2>2. Len(fields) + 1 \in 1..Len(contract.members)
    BY <1>1, <1>2, <2>1
  <2>3. QED
    BY <2>2, ContractsAssumption DEF CyclicInv
<1>4. sz \in Nat
  BY <1>3 DEF Cyclic!_atomic_size
<1>5. Packed(fields', offset', offsets')
  <2>1. CASE m.target # "none"
    <3> DEFINE x == [name |-> m.name, type |-> m.type, target |-> m.target, bit |-> m.bit,
                     offset |-> b[1], size |-> b[2]]
    <3>1. fields' = Append(fields, x) /\ UNCHANGED <<offset, offsets>>
      BY <2>1 DEF Cyclic!Layout, Cyclic!NoTarget
    <3>2. ~IsWord(x) /\ x.target = m.target /\ x.offset = b[1] /\ x.size = b[2]
      BY <2>1 DEF IsWord
    <3> HIDE DEF x
    <3>3. Packed(Append(fields, x), offset, offsets)
      BY <3>2, BitIsPacked DEF CyclicInv
    <3>4. QED
      BY <3>1, <3>3
  <2>2. CASE m.target = "none"
    <3> DEFINE x == [name |-> m.name, type |-> m.type, target |-> "none", bit |-> -1,
                     offset |-> offset, size |-> sz]
    <3>1. /\ fields' = Append(fields, x) /\ offset' = offset + sz
          /\ offsets' = Noted(offsets, m.name, <<offset, sz>>)
      BY <2>2 DEF Cyclic!Layout, Cyclic!NoTarget, Noted
    <3>2. IsWord(x) /\ x.name = m.name /\ x.offset = offset /\ x.size = sz
      BY DEF IsWord
    <3> HIDE DEF x, sz
    <3>3. Packed(Append(fields, x), offset + x.size, Noted(offsets, x.name, <<offset, x.size>>))
      BY <1>4, <3>2, WordIsPacked DEF CyclicInv
    <3>4. QED
      BY <3>1, <3>2, <3>3
  <2>3. QED
    BY <2>1, <2>2
<1>6. QED
  BY <1>1, <1>5 DEF CyclicInv, Accepted, Encoding

\* Words that follow each other share no byte.
LEMMA PackedApart ==
    ASSUME NEW F, NEW o, NEW O, Packed(F, o, O), NEW k \in DOMAIN F, NEW l \in DOMAIN F,
           NEW i \in Int, IsWord(F[k]), IsWord(F[l]), Lies(F[k], i), Lies(F[l], i)
    PROVE  k = l
<1>1. k \in Nat /\ l \in Nat
  <2>1. Sequence(F)
    BY DEF Packed
  <2>2. DOMAIN F = 1..Len(F) /\ Len(F) \in Nat
    BY <2>1, OneMoreField
  <2>3. QED
    BY <2>2
<1>2. /\ F[k].offset \in Nat /\ F[k].size \in Nat /\ F[l].offset \in Nat /\ F[l].size \in Nat
      /\ k < l => F[k].offset + F[k].size <= F[l].offset
      /\ l < k => F[l].offset + F[l].size <= F[k].offset
  BY DEF Packed
<1>3. QED
  BY <1>1, <1>2 DEF Lies

\* The layout is accepted or refused.
LEMMA ValidateKeepsCyclic ==
    ASSUME CyclicInv, Cyclic!Validate
    PROVE  CyclicInv'
<1>1. /\ imagePhase = "layout" /\ UNCHANGED <<contract, fields, offset, offsets, values>>
      /\ imagePhase' = IF Cyclic!Valid THEN "ready" ELSE "error"
  BY DEF Cyclic!Validate
<1>2. Packed(fields, offset, offsets)' /\ contract' \in Contracts
  BY <1>1 DEF CyclicInv
<1>3. CASE ~Cyclic!Valid
  BY <1>1, <1>2, <1>3 DEF CyclicInv, Accepted, Encoding
<1>4. CASE Cyclic!Valid
  <2>1. /\ contract.size \in Nat \ {0} /\ Unique
        /\ \A k \in DOMAIN fields :
              fields[k].size > 0 /\ fields[k].offset + fields[k].size <= contract.size
    BY <1>4, ContractsAssumption DEF CyclicInv, Cyclic!Valid, Unique, Cyclic!Range
  <2>2. \A k \in DOMAIN fields : \A i \in Int : Lies(fields[k], i) => i \in 1..contract.size
    <3>1. \A k \in DOMAIN fields : fields[k].offset \in Nat /\ fields[k].size \in Nat
      BY DEF CyclicInv, Packed
    <3>2. QED
      BY <2>1, <3>1 DEF Lies
  <2>3. \A k, l \in DOMAIN fields : \A i \in Int :
           IsWord(fields[k]) /\ IsWord(fields[l]) /\ Lies(fields[k], i) /\ Lies(fields[l], i) => k = l
    BY PackedApart DEF CyclicInv
  <2>4. \A g \in DOMAIN fields : ~IsWord(fields[g]) => LiesOver(fields, g)
    BY <2>1 DEF CyclicInv, Packed
  <2>5. WordsApart'
    BY <1>1, <2>2, <2>3, <2>4 DEF WordsApart
  <2>6. Unique'
    BY <1>1, <2>1 DEF Unique
  <2>7. QED
    BY <1>1, <1>2, <1>4, <2>1, <2>5, <2>6 DEF CyclicInv, Encoding
<1>5. QED
  BY <1>3, <1>4

\* A field is written at its own bytes only, and a word with its own value.
LEMMA WriteKeepsWritten ==
    ASSUME CyclicInv, imagePhase \in {"words", "bits"},
           UNCHANGED <<contract, fields, base, values, imagePhase>>,
           NEW k \in DOMAIN fields, fields[k].name \in todo, todo' = todo \ {fields[k].name},
           DOMAIN image' = DOMAIN image,
           \A i \in 1..contract.size : ~Lies(fields[k], i) => image'[i] = image[i],
           IsWord(fields[k]) => \A i \in 1..contract.size : Lies(fields[k], i) =>
              image'[i] = ByteOf(fields[k], values[fields[k].name], i)
    PROVE  Written'
<1> DEFINE n == fields[k].name
           done == DOMAIN values \ todo
           now == DOMAIN values \ (todo \ {n})
<1>1. Written /\ WordsApart /\ Unique /\ Accepted
  BY DEF CyclicInv, Accepted, Encoding
<1>2. /\ n \in DOMAIN values /\ n \in now
      /\ \A x : x \in now => x \in done \/ x = n
      /\ \A x : x \in done => x \in now
  BY <1>1 DEF Written
<1> HIDE DEF done, now
<1>3. ASSUME NEW i \in 1..contract.size,
             \A l \in DOMAIN fields : Lies(fields[l], i) => fields[l].name \notin now
      PROVE  image'[i] = base[i]
  <2>1. ~Lies(fields[k], i)
    BY <1>2, <1>3
  <2>2. \A l \in DOMAIN fields : Lies(fields[l], i) => fields[l].name \notin done
    BY <1>2, <1>3
  <2>3. image[i] = base[i]
    BY <1>1, <2>2 DEF Written, done
  <2>4. QED
    BY <2>1, <2>3
<1>4. ASSUME NEW l \in DOMAIN fields, IsWord(fields[l]), ~BitAsked(fields[l]),
             fields[l].name \in now, NEW i \in Int, Lies(fields[l], i)
      PROVE  image'[i] = ByteOf(fields[l], values[fields[l].name], i)
  <2>1. i \in 1..contract.size
    BY <1>1, <1>4 DEF WordsApart
  <2>2. CASE l = k
    BY <1>4, <2>1, <2>2
  <2>3. CASE l # k
    <3>1. fields[l].name \in done
      BY <1>1, <1>2, <1>4, <2>3 DEF Unique
    <3>2. image[i] = ByteOf(fields[l], values[fields[l].name], i)
      BY <1>1, <1>4, <3>1 DEF Written, done
    <3>3. ~Lies(fields[k], i)
      <4>1. CASE IsWord(fields[k])
        BY <1>1, <1>4, <2>3, <4>1 DEF WordsApart
      <4>2. CASE ~IsWord(fields[k])
        <5>1. PICK j \in DOMAIN fields :
                 /\ IsWord(fields[j]) /\ fields[j].name = fields[k].target
                 /\ fields[j].offset = fields[k].offset /\ fields[j].size = fields[k].size
          BY <1>1, <4>2 DEF WordsApart, LiesOver
        <5>2. SUFFICES ASSUME Lies(fields[k], i) PROVE FALSE
          OBVIOUS
        <5>3. Lies(fields[j], i)
          BY <5>1, <5>2 DEF Lies
        <5>4. j = l
          BY <1>1, <1>4, <5>1, <5>3 DEF WordsApart
        <5>5. QED
          BY <1>2, <1>4, <4>2, <5>1, <5>4 DEF BitAsked
      <4>3. QED
        BY <4>1, <4>2
    <3>4. QED
      BY <2>1, <3>2, <3>3
  <2>4. QED
    BY <2>2, <2>3
<1>5. /\ (DOMAIN values \ todo)' = now /\ todo' \subseteq DOMAIN values
      /\ DOMAIN image' = 1..contract.size
      /\ DOMAIN values \subseteq {fields[l].name : l \in DOMAIN fields}
  BY <1>1 DEF Written, now
<1>6. \A l \in DOMAIN fields : BitAsked(fields[l])' <=> BitAsked(fields[l])
  BY DEF BitAsked
<1>7. \A l \in DOMAIN fields, i \in Int :
         ByteOf(fields[l], values[fields[l].name], i)' = ByteOf(fields[l], values[fields[l].name], i)
  BY DEF ByteOf, Cyclic!Radix, Cyclic!Place
<1>8. QED
  BY <1>3, <1>4, <1>5, <1>6, <1>7 DEF Written

\* A call of encode starts from its base image.
LEMMA EncodeKeepsCyclic ==
    ASSUME CyclicInv, NEW byte, NEW short \in {0, 1}, NEW request,
           Cyclic!Encode([i \in 1..(contract.size - short) |-> (byte * i) % Cyclic!Radix(1)],
                         request)
    PROVE  CyclicInv'
<1> DEFINE bytes == [i \in 1..(contract.size - short) |-> (byte * i) % Cyclic!Radix(1)]
<1>1. imagePhase = "ready" /\ UNCHANGED <<contract, fields, offset, offsets>>
  BY DEF Cyclic!Encode
<1>2. contract.size \in Nat \ {0} /\ WordsApart /\ Unique /\ Accepted
  BY <1>1 DEF CyclicInv, Accepted
<1>3. Packed(fields, offset, offsets)' /\ contract' \in Contracts /\ contract'.size \in Nat \ {0}
  BY <1>1, <1>2 DEF CyclicInv
<1>4. WordsApart' /\ Unique'
  BY <1>1, <1>2 DEF WordsApart, Unique
<1>5. CASE imagePhase' = "error"
  BY <1>3, <1>5 DEF CyclicInv, Accepted, Encoding
<1>6. CASE imagePhase' # "error"
  <2>1. /\ Len(bytes) = contract.size
        /\ DOMAIN request \subseteq {f.name : f \in Cyclic!Range(fields)}
        /\ base' = bytes /\ image' = bytes /\ values' = request /\ todo' = DOMAIN request
        /\ imagePhase' = "words"
    BY <1>6 DEF Cyclic!Encode
  <2>2. DOMAIN bytes = 1..contract.size
    <3>1. contract.size - short \in Nat
      BY <1>2
    <3>2. Len(bytes) = contract.size - short /\ DOMAIN bytes = 1..(contract.size - short)
      BY <3>1
    <3>3. QED
      BY <2>1, <3>2
  <2>3. DOMAIN request \subseteq {fields[k].name : k \in DOMAIN fields}
    BY <2>1 DEF Cyclic!Range
  <2> HIDE DEF bytes
  <2>4. Written'
    BY <1>1, <2>1, <2>2, <2>3 DEF Written
  <2>5. QED
    BY <1>3, <1>4, <2>4 DEF CyclicInv
<1>7. QED
  BY <1>5, <1>6

\* The dictionary of fields finds the field of a name.
LEMMA FieldOfName ==
    ASSUME CyclicInv, Encoding, NEW n \in todo
    PROVE  \E k \in DOMAIN fields : fields[k].name = n /\ Cyclic!Field(n) = fields[k]
<1>1. Written /\ Unique
  BY DEF CyclicInv, Accepted, Encoding
<1>2. PICK k \in DOMAIN fields : fields[k].name = n
  BY <1>1 DEF Written
<1>3. fields[k] \in Cyclic!Range(fields)
  BY DEF Cyclic!Range
<1>4. \A f \in Cyclic!Range(fields) : f.name = n => f = fields[k]
  BY <1>1, <1>2 DEF Cyclic!Range, Unique
<1>5. Cyclic!Field(n) = fields[k]
  BY <1>2, <1>3, <1>4 DEF Cyclic!Field
<1>6. QED
  BY <1>2, <1>5

\* The slice the code assigns to is where the field lies.
LEMMA SliceLies ==
    ASSUME CyclicInv, NEW k \in DOMAIN fields, NEW i \in Int
    PROVE  i \in Cyclic!Slice(fields[k]) <=> Lies(fields[k], i)
<1>1. fields[k].offset \in Nat /\ fields[k].size \in Nat
  BY DEF CyclicInv, Packed
<1>2. QED
  BY <1>1 DEF Cyclic!Slice, Lies

\* A write leaves the layout alone.
LEMMA WrittenSuffices ==
    ASSUME CyclicInv, Encoding, imagePhase' = "error" \/ Written',
           imagePhase' \in {"words", "bits", "image", "decoded", "error"},
           UNCHANGED <<contract, fields, offset, offsets>>
    PROVE  CyclicInv'
<1>1. WordsApart /\ Unique /\ contract.size \in Nat \ {0} /\ Accepted
  BY DEF CyclicInv, Accepted, Encoding
<1>2. WordsApart' /\ Unique' /\ contract'.size \in Nat \ {0}
  BY <1>1 DEF WordsApart, Unique
<1>3. Packed(fields, offset, offsets)' /\ contract' \in Contracts
  BY DEF CyclicInv
<1>4. QED
  BY <1>2, <1>3 DEF CyclicInv, Accepted, Encoding

\* One word written, or the call refused.
LEMMA WriteWordKeepsCyclic ==
    ASSUME CyclicInv, NEW n \in todo, Cyclic!WriteWord(n)
    PROVE  CyclicInv'
<1>1. /\ imagePhase = "words" /\ UNCHANGED <<contract, fields, offset, offsets, base, values>>
      /\ todo' = todo \ {n} /\ Encoding /\ Written
  BY DEF Cyclic!WriteWord, Encoding, CyclicInv
<1>2. PICK k \in DOMAIN fields : fields[k].name = n /\ Cyclic!Field(n) = fields[k]
  BY <1>1, FieldOfName
<1>3. CASE imagePhase' = "error"
  BY <1>1, <1>3, WrittenSuffices
<1>4. CASE imagePhase' # "error"
  <2>1. /\ imagePhase' = imagePhase
        /\ image' = Cyclic!ToBytes(fields[k], values[n] % Cyclic!Radix(fields[k].size))
    BY <1>2, <1>4 DEF Cyclic!WriteWord
  <2>2. DOMAIN image = 1..contract.size
    BY <1>1 DEF Written
  <2>3. \A i \in 1..contract.size : i \in Cyclic!Slice(fields[k]) <=> Lies(fields[k], i)
    BY SliceLies, <1>1, ContractsAssumption DEF CyclicInv
  <2>4. /\ DOMAIN image' = DOMAIN image
        /\ \A i \in 1..contract.size :
              image'[i] = IF i \in Cyclic!Slice(fields[k]) THEN ByteOf(fields[k], values[n], i)
                          ELSE image[i]
    BY <2>1, <2>2 DEF Cyclic!ToBytes, ByteOf
  <2>5. Written'
    BY <1>1, <1>2, <2>1, <2>3, <2>4, WriteKeepsWritten
  <2>6. QED
    BY <1>1, <2>1, <2>5, WrittenSuffices
<1>5. QED
  BY <1>3, <1>4

\* One bit written.
LEMMA WriteBitKeepsCyclic ==
    ASSUME CyclicInv, NEW n \in todo, Cyclic!WriteBit(n)
    PROVE  CyclicInv'
<1>1. /\ imagePhase = "bits"
      /\ UNCHANGED <<contract, fields, offset, offsets, base, values, imagePhase>>
      /\ todo' = todo \ {n} /\ Encoding /\ Written
  BY DEF Cyclic!WriteBit, Encoding, CyclicInv
<1>2. PICK k \in DOMAIN fields : fields[k].name = n /\ Cyclic!Field(n) = fields[k]
  BY <1>1, FieldOfName
<1>3. ~IsWord(fields[k]) /\ \E w : image' = Cyclic!ToBytes(fields[k], w)
  BY <1>2 DEF Cyclic!WriteBit, IsWord, Cyclic!IsOverlay, Cyclic!NoTarget
<1>4. DOMAIN image = 1..contract.size
  BY <1>1 DEF Written
<1>5. \A i \in 1..contract.size : i \in Cyclic!Slice(fields[k]) <=> Lies(fields[k], i)
  BY SliceLies, <1>1, ContractsAssumption DEF CyclicInv
<1>6. /\ DOMAIN image' = DOMAIN image
      /\ \A i \in 1..contract.size : i \notin Cyclic!Slice(fields[k]) => image'[i] = image[i]
  BY <1>3, <1>4 DEF Cyclic!ToBytes
<1>7. Written'
  BY <1>1, <1>2, <1>3, <1>5, <1>6, WriteKeepsWritten
<1>8. QED
  BY <1>1, <1>7, WrittenSuffices

\* The loops end, and decode reads.
LEMMA OthersKeepCyclic ==
    ASSUME CyclicInv,
           \/ Cyclic!WordsWritten \/ Cyclic!BitsWritten \/ Cyclic!Decode
           \/ Cyclic!Finished \/ UNCHANGED Cyclic!vars
    PROVE  CyclicInv'
<1>1. CASE Cyclic!WordsWritten \/ Cyclic!BitsWritten \/ Cyclic!Decode
  <2>1. /\ Encoding /\ imagePhase' \in {"bits", "image", "decoded"}
        /\ imagePhase' \in {"image", "decoded"} => todo = {}
        /\ UNCHANGED <<contract, fields, offset, offsets, base, image, values, todo>>
    BY <1>1 DEF Cyclic!WordsWritten, Cyclic!BitsWritten, Cyclic!Decode, Encoding, CyclicInv, Written
  <2>2. Written
    BY <2>1 DEF CyclicInv
  <2>3. Written'
    BY <2>1, <2>2 DEF Written, BitAsked, ByteOf, Cyclic!Radix, Cyclic!Place
  <2>4. QED
    BY <2>1, <2>3, WrittenSuffices
<1>2. CASE Cyclic!Finished \/ UNCHANGED Cyclic!vars
  BY <1>2 DEF Cyclic!Finished, Cyclic!vars, CyclicInv, Accepted, Encoding, WordsApart, Unique,
              Written, BitAsked, ByteOf, Cyclic!Radix, Cyclic!Place
<1>3. QED
  BY <1>1, <1>2

\* Every step keeps the invariant.
LEMMA CyclicInvNext == CyclicInv /\ [Cyclic!Next]_(Cyclic!vars) => CyclicInv'
BY LayoutKeepsCyclic, ValidateKeepsCyclic, EncodeKeepsCyclic, WriteWordKeepsCyclic,
   WriteBitKeepsCyclic, OthersKeepCyclic DEF Cyclic!Next

\* What the invariant says of a finished image.
LEMMA CyclicInvKeeps == CyclicInv => WordsApart /\ NeighboursKept
<1>1. SUFFICES ASSUME CyclicInv, imagePhase \in {"image", "decoded"} PROVE NeighboursKept
  BY DEF CyclicInv, WordsApart, NeighboursKept
<1>2. Written /\ WordsApart /\ Accepted /\ todo = {}
  BY <1>1 DEF CyclicInv, Accepted, Encoding, Written
<1>3. ASSUME NEW k \in DOMAIN fields, IsWord(fields[k]), ~BitAsked(fields[k]),
             NEW i \in Int, Lies(fields[k], i)
      PROVE  image[i] = IF fields[k].name \in DOMAIN values
                        THEN ByteOf(fields[k], values[fields[k].name], i) ELSE base[i]
  <2>1. CASE fields[k].name \in DOMAIN values
    BY <1>2, <1>3, <2>1 DEF Written
  <2>2. CASE fields[k].name \notin DOMAIN values
    <3>1. i \in 1..contract.size
      BY <1>2, <1>3 DEF WordsApart
    <3>2. ASSUME NEW l \in DOMAIN fields, Lies(fields[l], i)
          PROVE  fields[l].name \notin DOMAIN values
      <4>1. CASE IsWord(fields[l])
        BY <1>2, <1>3, <2>2, <3>2, <4>1 DEF WordsApart
      <4>2. CASE ~IsWord(fields[l])
        <5>1. PICK j \in DOMAIN fields :
                 /\ IsWord(fields[j]) /\ fields[j].name = fields[l].target
                 /\ fields[j].offset = fields[l].offset /\ fields[j].size = fields[l].size
          BY <1>2, <4>2 DEF WordsApart, LiesOver
        <5>2. Lies(fields[j], i)
          BY <3>2, <5>1 DEF Lies
        <5>3. j = k
          BY <1>2, <1>3, <5>1, <5>2 DEF WordsApart
        <5>4. QED
          BY <1>3, <4>2, <5>1, <5>3 DEF BitAsked
      <4>3. QED
        BY <4>1, <4>2
    <3>3. QED
      BY <1>2, <2>2, <3>1, <3>2 DEF Written
  <2>3. QED
    BY <2>1, <2>2
<1>4. \A i \in 1..contract.size :
         (\A k \in DOMAIN fields : ~Lies(fields[k], i)) => image[i] = base[i]
  BY <1>2 DEF Written
<1>5. QED
  BY <1>3, <1>4 DEF NeighboursKept

\* For every data type, connection size and byte order: an accepted layout puts each byte
\* into at most one word and each bit over the word it names.
THEOREM LayoutIsSound == Cyclic!Spec => []WordsApart
BY CyclicInvInit, CyclicInvNext, CyclicInvKeeps, PTL DEF Cyclic!Spec

\* Whatever encode is given, in whatever order: words it is given come out as the bytes
\* of their values, and every byte of another word, or of none, as in the base image.
THEOREM EncodeKeepsNeighbours == Cyclic!Spec => []NeighboursKept
BY CyclicInvInit, CyclicInvNext, CyclicInvKeeps, PTL DEF Cyclic!Spec
=============================================================================
