------------------------------ MODULE MCCommands ------------------------------
(***************************************************************************)
(* TLC instance of the commands that capture from devices or write         *)
(* documents.  Each command is a process of its own and the groups below   *)
(* share no files; each behaviour runs one of them and leaves the others   *)
(* in one of their initial states.                                         *)
(***************************************************************************)
EXTENDS Commands

\* Up to three roots; the second may lie within the first, or be empty.
Rows == {<<>>, <<1>>, <<1, 2>>, <<1, 2, 3>>, <<2, 3>>, <<4, 5>>}
MCTrees == {<<a, b, c>> : a, b, c \in Rows} \cup {<<a>> : a \in Rows}

\* One switch with two ports, each facing one of two chassis; the address of one is
\* a target.  A second switch learns the first chassis on its own port 1.  An LLDP row
\* may have a short index, a bridge row may lack its port.
LldpRows ==
    LET Row(i, p, c, r, A, n) == [oid |-> i, port |-> p, chassis |-> c, remote |-> r,
                                  addresses |-> A, index |-> n]
        firsts == {Row(1, p, c, "x", {}, 3) : p \in {1, 2}, c \in {"c", "d"}}
                    \cup {Row(1, 1, "c", "x", {"ip2"}, 3), Row(1, 1, "c", "x", {}, 2)}
        seconds == {Row(2, p, c, "x", {}, 3) : p \in {1, 2}, c \in {"c", "d"}}
                     \cup {Row(2, 1, "c", "y", {}, 3), Row(2, 2, "d", "x", {}, 2)}
    IN  {<<>>} \cup {<<r>> : r \in firsts} \cup {<<r, q>> : r \in firsts, q \in seconds}
FdbRows ==
    LET Row(c, p) == [oid |-> c, mac |-> c, port |-> p]
    IN  {<<>>} \cup {<<Row(c, p)>> : c \in {"c", "d"}, p \in {1, 2}}
          \cup {<<Row("c", p), Row("d", q)>> : p \in {1, 2}, q \in {1, 2, unresolved}}
Switch(lldp, fdb, ports, bridge) ==
    [target |-> "sw1", lldp |-> lldp, fdb |-> fdb, names |-> [n \in {"eth1", "eth2"} |->
        IF n = "eth1" THEN 1 ELSE 2],
     portIds |-> [p \in ports |-> IF p = 1 THEN "eth1" ELSE "eth2"],
     basePorts |-> [p \in bridge |-> p]]
Taken(switch, second) ==
    [targets |-> <<[key |-> "sw1", address |-> "ip1"], [key |-> second, address |-> "ip2"]>>,
     nodes |-> <<switch, [target |-> "sw2", lldp |-> <<>>,
                          fdb |-> <<[oid |-> "c", mac |-> "c", port |-> 1]>>,
                          names |-> <<>>, portIds |-> <<>>, basePorts |-> switch.basePorts]>>]
Backwards(q) == [i \in 1..Len(q) |-> q[Len(q) + 1 - i]]

\* The second capture: the rows in another order (once declared incomplete), the last
\* neighbour gone, the last entry aged out, nothing resolved, the target renamed, or
\* no agent answering.
Second(l, f, p, q) ==
    LET turned == Taken(Switch(Backwards(l), Backwards(f), p, q), "t2")
    IN  <<<<turned, TRUE>>, <<turned, FALSE>>,
          <<Taken(Switch(SubSeq(l, 1, Len(l) - 1), f, p, q), "t2"), TRUE>>,
          <<Taken(Switch(l, SubSeq(f, 1, Len(f) - 1), p, q), "t2"), TRUE>>,
          <<Taken(Switch(l, f, {}, {}), "t2"), TRUE>>, <<Taken(Switch(l, f, p, q), "t3"), TRUE>>,
          <<[turned EXCEPT !.nodes = <<>>], TRUE>>>>
Pair(l, f, ports, second) ==
    [captures |-> <<Taken(Switch(l, f, ports[1], ports[2]), "t2"), second[1]>>,
     complete |-> <<TRUE, second[2]>>]
Variants ==
    {Pair(l, f, ports, Second(l, f, ports[1], ports[2])[i]) : l \in LldpRows, f \in FdbRows,
        ports \in {<<{1, 2}, {1, 2}>>, <<{1}, {1, 2}>>, <<{}, {}>>}, i \in 1..7}
MCComparisons == {c : c \in Variants}
OneTaken == Taken(Switch(<<>>, <<>>, {}, {}), "t2")

\* Two controllers and two chassis, one with two slots; controller 2 sits in a slot.
MCSlots == (1 :> <<2, 11>>) @@ (2 :> <<21>>)

MCKind == (1 :> "programs") @@ (2 :> "tag_definitions") @@ (4 :> "programs") @@ (5 :> "tasks")

\* Reviews 1 and 2 have as many items, review 3 has fewer; source 3 fits no review.
MCReconciles == {<<1, 1>>, <<2, 2>>, <<3, 1>>}
MCItems == <<2, 2, 1>>

\* Review 2 fits source 1 only.
MCBundleReconciles == {<<1, 1>>, <<1, 2>>, <<2, 1>>}

VARIABLE group   \* what runs

drift == <<comparison, side, at, driftRow, neighbours, entries, observations, neighbour_links,
           nodes, relationships, topologies, findings, driftPhase>>
routed == <<route, allowed, permit, mapped, unencodable, requested, captured, routedPhase,
            controllersTodo, chassisTodo, slot, slots, controllers, chassis, diagnostics,
            wire, routedCalls>>
metadata == <<semantic, permitted, metadataExecuted, metadataPhase, next, evidence, values,
              received, observation, metadataCalls>>
inventory == <<plan, table, honest, steady, tableEdits, programs, executed, inventoryPhase,
               used, items, cursor, seen, pagesSent, calls>>
reviewed == <<review, source, receipt, durable, pc, loaded, digest, observed, result, quiet,
              basis, basisQuiet, edits, runs>>
bundle == <<bundleReview, bundleSource, dir, manifest, gen, ver, bundleEdits, bundleRuns>>
conversion == <<input, files, approved, clean, converter, decoded, converting, overlap,
                inputEdits, conversions>>

\* The values S of a component's parameters when it runs, one of them when it does not.
Parameter(name, S) == IF group = name THEN S ELSE {CHOOSE v \in S : TRUE}

CommandsInit ==
    /\ group \in {"walk", "routed", "metadata", "inventory", "receipt", "bundle", "conversion",
                   "drift"}
    /\ IF group = "drift" THEN TRUE
       ELSE comparison = [captures |-> <<OneTaken, OneTaken>>, complete |-> <<TRUE, TRUE>>]
    /\ Drift!Init
    /\ tree \in Parameter("walk", Trees)
    /\ max_varbinds \in Parameter("walk", VarbindBudgets)
    /\ max_responses \in Parameter("walk", ResponseBudgets) /\ Init
    /\ IF group = "routed" THEN TRUE
       ELSE /\ route = [controllers |-> {1}, chassis |-> {}] /\ allowed = {} /\ permit = {}
            /\ mapped = 1 /\ unencodable = {}
    /\ Routed!Init
    /\ IF group = "metadata" THEN TRUE
       ELSE semantic = [r \in 1..4 |-> "none"] /\ permitted = FALSE
    /\ Metadata!Init
    /\ IF group = "inventory" THEN TRUE
       ELSE /\ plan = [capabilities |-> {"programs"}, maximum_requests |-> 1, permit |-> "none"]
            /\ table = {} /\ honest = TRUE
    /\ Inventory!Init
    /\ review \in Parameter("receipt", 1..3) /\ source \in Parameter("receipt", 1..3)
    /\ Receipt!Init
    /\ bundleReview \in Parameter("bundle", 1..2) /\ bundleSource \in Parameter("bundle", 1..2)
    /\ Bundle!Init
    /\ input \in Parameter("conversion", 1..2)
    /\ clean \in Parameter("conversion", [{"a", "b"} -> BOOLEAN])
    /\ Conversion!Init

CommandsNext ==
    /\ UNCHANGED group
    /\ \/ /\ group = "walk" /\ Next
          /\ UNCHANGED <<drift, routed, metadata, inventory, reviewed, bundle, conversion>>
       \/ /\ group = "routed" /\ Routed!Next
          /\ UNCHANGED <<vars, drift, metadata, inventory, reviewed, bundle, conversion>>
       \/ /\ group = "metadata" /\ Metadata!Next
          /\ UNCHANGED <<vars, drift, routed, inventory, reviewed, bundle, conversion>>
       \/ /\ group = "inventory" /\ Inventory!Next
          /\ UNCHANGED <<vars, drift, routed, metadata, reviewed, bundle, conversion>>
       \/ /\ group = "receipt" /\ Receipt!Next
          /\ UNCHANGED <<vars, drift, routed, metadata, inventory, bundle, conversion>>
       \/ /\ group = "bundle" /\ Bundle!Next
          /\ UNCHANGED <<vars, drift, routed, metadata, inventory, reviewed, conversion>>
       \/ /\ group = "conversion" /\ Conversion!Next
          /\ UNCHANGED <<vars, drift, routed, metadata, inventory, reviewed, bundle>>
       \/ /\ group = "drift" /\ Drift!Next
          /\ UNCHANGED <<vars, routed, metadata, inventory, reviewed, bundle, conversion>>

CommandsSpec ==
    /\ CommandsInit
    /\ [][CommandsNext]_<<group, vars, drift, routed, metadata, inventory, reviewed, bundle, conversion>>
===============================================================================
