---------------------------- MODULE TopologyDrift ----------------------------
(***************************************************************************)
(* From the SNMP rows of two captures to the network drift between them:   *)
(* discovery.snmprec lowers the LLDP and bridge rows of each agent, one    *)
(* row after the other, and skips those that are not whole; then           *)
(* discovery.topology correlates what is left into relationships, and      *)
(* discovery.drift compares the relationships of the two captures.  MAC    *)
(* addresses stand for their lower-case form; labels and addresses of      *)
(* nodes are left out, nothing reads them back here.  A row carries the    *)
(* management addresses of its neighbour: snmprec never fills them, a      *)
(* fixture (discovery.fake) may.                                           *)
(***************************************************************************)
EXTENDS Integers, Sequences, FiniteSets

CONSTANTS
    Comparisons,   \* pairs of captures with their declared completeness
    None           \* an interface nobody resolved, a column nobody recorded

VARIABLES
    comparison,        \* [captures, complete], one of each per side
    side,              \* 1 for the baseline, 2 for the current capture
    at, row,           \* the agent (0 before the first) and the row the loops have
                       \* come to
    neighbours,        \* the LLDP rows of the agent that were lowered
    entries,           \* and its bridge rows
    observations,      \* the nodes of the snapshot, with the rows that were lowered
    neighbour_links,   \* <<chassis, interface>> -> place in relationships
    nodes,             \* keys of the topology nodes
    relationships,     \* TopologyRelationshipCandidates in the order found
    topologies,        \* the relationships of the captures done
    findings,          \* DriftFindings: <<key, change>>
    phase

correlation == <<neighbour_links, nodes, relationships>>
lowering == <<neighbours, entries, observations>>
vars == <<comparison, side, at, row, lowering, correlation, topologies, findings, phase>>

Agents == comparison.captures[side].nodes
Recorded == Agents[at]

\* The DiscoverySnapshot that was lowered from the recordings.
Snapshot == [targets |-> comparison.captures[side].targets, nodes |-> observations]
Observed == Snapshot.nodes[at]

Get(f, k) == IF k \in DOMAIN f THEN f[k] ELSE None

------------------------------------------------------------------------------
(* Lowering of the recorded rows of one agent. *)

\* The index of an LLDP row has time mark, port and number; a bridge row that was
\* recorded without its port column has no port.
IsWhole(r) == r.index >= 3
HasPort(e) == e.port # None

\* What the lowered LLDP rows of a node say: the port is resolved through its port
\* ID and the interface of that name.
_neighbours(n) ==
    [i \in 1..Len(n.lldp) |->
        [oid |-> n.lldp[i].oid, port |-> n.lldp[i].port, chassis |-> n.lldp[i].chassis,
         remote |-> n.lldp[i].remote, addresses |-> n.lldp[i].addresses,
         interface |-> Get(n.names, Get(n.portIds, n.lldp[i].port))]]

\* The bridge port is resolved through the base-port table.
_forwarding_entries(n) ==
    [i \in 1..Len(n.fdb) |->
        [oid |-> n.fdb[i].oid, mac |-> n.fdb[i].mac, port |-> n.fdb[i].port,
         interface |-> Get(n.basePorts, n.fdb[i].port)]]

NextAgent ==
    /\ phase = "agents"
    /\ at < Len(Agents)
    /\ at' = at + 1 /\ row' = 1
    /\ neighbours' = <<>> /\ entries' = <<>>
    /\ phase' = "lldp rows"
    /\ UNCHANGED <<comparison, side, observations, correlation, topologies, findings>>

LowerNeighbour ==
    /\ phase = "lldp rows"
    /\ row <= Len(Recorded.lldp)
    /\ neighbours' = IF IsWhole(Recorded.lldp[row])
                     THEN Append(neighbours, Recorded.lldp[row]) ELSE neighbours
    /\ row' = row + 1
    /\ UNCHANGED <<comparison, side, at, entries, observations, correlation, topologies,
                   findings, phase>>

StartEntries ==
    /\ phase = "lldp rows"
    /\ row > Len(Recorded.lldp)
    /\ row' = 1
    /\ phase' = "fdb rows"
    /\ UNCHANGED <<comparison, side, at, lowering, correlation, topologies, findings>>

LowerEntry ==
    /\ phase = "fdb rows"
    /\ row <= Len(Recorded.fdb)
    /\ entries' = IF HasPort(Recorded.fdb[row])
                  THEN Append(entries, Recorded.fdb[row]) ELSE entries
    /\ row' = row + 1
    /\ UNCHANGED <<comparison, side, at, neighbours, observations, correlation, topologies,
                   findings, phase>>

\* The SnmpNodeObservation of the agent, with what was lowered.
ObserveNode ==
    /\ phase = "fdb rows"
    /\ row > Len(Recorded.fdb)
    /\ observations' = Append(observations,
          [target |-> Recorded.target, lldp |-> neighbours, fdb |-> entries,
           names |-> Recorded.names, portIds |-> Recorded.portIds,
           basePorts |-> Recorded.basePorts])
    /\ phase' = "agents"
    /\ UNCHANGED <<comparison, side, at, row, neighbours, entries, correlation, topologies,
                   findings>>

\* The snapshot is complete and correlation starts over its nodes.
Correlate ==
    /\ phase = "agents"
    /\ at = Len(Agents)
    /\ at' = 0 /\ row' = 1
    /\ phase' = "nodes"
    /\ UNCHANGED <<comparison, side, lowering, correlation, topologies, findings>>

------------------------------------------------------------------------------
(* Correlation. *)

TargetKey(t) == <<"target", t>>

\* A later target with the same address replaces an earlier one.
_known_target_by_address(snapshot) ==
    LET targets == snapshot.targets
        last(a) == CHOOSE i \in 1..Len(targets) :
                      /\ targets[i].address = a
                      /\ \A j \in (i + 1)..Len(targets) : targets[j].address # a
    IN  [a \in {targets[i].address : i \in 1..Len(targets)} |->
            TargetKey(targets[last(a)].key)]

\* One known target among the management addresses, or the chassis itself.
_remote_node_key(addresses, chassis, known) ==
    LET matches == {known[a] : a \in addresses \cap DOMAIN known}
    IN  IF Cardinality(matches) = 1 THEN CHOOSE m \in matches : TRUE
        ELSE <<"chassis", chassis>>

Source == TargetKey(Observed.target)

Targets(snapshot) ==
    {TargetKey(snapshot.targets[i].key) : i \in 1..Len(snapshot.targets)}

Init ==
    /\ comparison \in Comparisons
    /\ side = 1 /\ at = 0 /\ row = 1
    /\ neighbours = <<>> /\ entries = <<>> /\ observations = <<>>
    /\ neighbour_links = <<>>
    /\ nodes = Targets(comparison.captures[1])
    /\ relationships = <<>>
    /\ topologies = <<>>
    /\ findings = {}
    /\ phase = "agents"

Neighbour ==
    LET r == _neighbours(Observed)[row]
        target == _remote_node_key(r.addresses, r.chassis, _known_target_by_address(Snapshot))
    IN  /\ phase = "neighbours"
        /\ row <= Len(Observed.lldp)
        /\ nodes' = nodes \cup {Source, target}
        /\ relationships' = Append(relationships,
              [key |-> <<Source, "lldp", r.port, target, r.remote>>,
               type |-> "reported_neighbour", source |-> Source, target |-> target,
               interface |-> r.interface, port |-> r.port, remote |-> r.remote,
               confidence |-> "protocol_reported",
               evidence |-> {<<"lldp", Observed.target, r.oid>>}])
        /\ neighbour_links' =
              [k \in DOMAIN neighbour_links \cup {<<r.chassis, r.interface>>} |->
                  IF k = <<r.chassis, r.interface>> THEN Len(relationships) + 1
                  ELSE neighbour_links[k]]
        /\ row' = row + 1
        /\ UNCHANGED <<comparison, side, at, lowering, topologies, findings, phase>>

StartForwarding ==
    /\ phase = "neighbours"
    /\ row > Len(Observed.lldp)
    /\ nodes' = nodes \cup {Source}
    /\ phase' = "forwarding"
    /\ row' = 1
    /\ UNCHANGED <<comparison, side, at, lowering, neighbour_links, relationships, topologies,
                   findings>>

\* A forwarding entry for the chassis and interface of a reported neighbour
\* corroborates the last such report; any other one is reachability of its own.
Forward ==
    LET e == _forwarding_entries(Observed)[row]
        link == <<e.mac, e.interface>>
        evidence == <<"bridge_fdb", Observed.target, e.oid>>
        target == <<"mac", e.mac>>
    IN  /\ phase = "forwarding"
        /\ row <= Len(Observed.fdb)
        /\ IF link \in DOMAIN neighbour_links
           THEN /\ LET current == relationships[neighbour_links[link]]
                   IN  relationships' = [relationships EXCEPT ![neighbour_links[link]] =
                          [current EXCEPT !.confidence = "corroborated",
                                          !.evidence = current.evidence \cup {evidence}]]
                /\ UNCHANGED nodes
           ELSE /\ relationships' = Append(relationships,
                      [key |-> <<Source, "fdb", e.port, target, None>>,
                       type |-> "mac_reachability", source |-> Source, target |-> target,
                       interface |-> e.interface, port |-> e.port, remote |-> None,
                       confidence |-> "indirect", evidence |-> {evidence}])
                /\ nodes' = nodes \cup {target}
        /\ row' = row + 1
        /\ UNCHANGED <<comparison, side, at, lowering, neighbour_links, topologies, findings, phase>>

\* The loop over the observed nodes has not started, or has done with one.  A capture
\* may hold no node: no agent answered.
RowsDone == phase = "nodes" \/ (phase = "forwarding" /\ row > Len(Observed.fdb))

\* Mutant: the links of one node are still looked up for the next one.
NextNodeKeepsLinks ==
    /\ RowsDone
    /\ at < Len(Snapshot.nodes)
    /\ at' = at + 1 /\ row' = 1
    /\ phase' = "neighbours"
    /\ UNCHANGED <<comparison, side, lowering, correlation, topologies, findings>>

NextNode ==
    /\ RowsDone
    /\ at < Len(Snapshot.nodes)
    /\ at' = at + 1 /\ row' = 1
    /\ neighbour_links' = <<>>
    /\ phase' = "neighbours"
    /\ UNCHANGED <<comparison, side, lowering, nodes, relationships, topologies, findings>>

------------------------------------------------------------------------------
(* Drift. *)

\* DiscoveryDriftState refuses records of one domain with the same key.
RepeatedKey ==
    \E i, j \in 1..Len(relationships) : i # j /\ relationships[i].key = relationships[j].key

\* build_discovery_drift_state: the relationships become records only where the
\* network domain is declared complete.
BuildState ==
    /\ RowsDone
    /\ at = Len(Snapshot.nodes)
    /\ IF comparison.complete[side] /\ RepeatedKey
       THEN /\ phase' = "refused"
            /\ UNCHANGED <<side, at, row, lowering, correlation, topologies>>
       ELSE /\ topologies' = Append(topologies, relationships)
            /\ IF side = 1
               THEN /\ side' = 2 /\ at' = 0 /\ row' = 1
                    /\ neighbours' = <<>> /\ entries' = <<>> /\ observations' = <<>>
                    /\ neighbour_links' = <<>>
                    /\ nodes' = Targets(comparison.captures[2])
                    /\ relationships' = <<>>
                    /\ phase' = "agents"
               ELSE /\ phase' = "comparing"
                    /\ UNCHANGED <<side, at, row, lowering, correlation>>
    /\ UNCHANGED <<comparison, findings>>

Range(s) == {s[i] : i \in DOMAIN s}

\* The attributes of a record: everything but its evidence.
Attributes(r) == <<r.type, r.source, r.target, r.interface, r.port, r.remote, r.confidence>>

detect_discovery_drift(before, after) ==
    LET keys(T) == {r.key : r \in Range(T)}
        of(T, k) == Attributes(CHOOSE r \in Range(T) : r.key = k)
    IN  {<<k, "added">> : k \in keys(after) \ keys(before)}
          \cup {<<k, "removed">> : k \in keys(before) \ keys(after)}
          \cup {<<k, "changed">> : k \in {c \in keys(before) \cap keys(after) :
                                              of(before, c) # of(after, c)}}

Compare ==
    /\ phase = "comparing"
    /\ findings' = IF comparison.complete[1] /\ comparison.complete[2]
                   THEN detect_discovery_drift(topologies[1], topologies[2]) ELSE {}
    /\ phase' = "compared"
    /\ UNCHANGED <<comparison, side, at, row, lowering, correlation, topologies>>

Next ==
    \/ NextAgent \/ LowerNeighbour \/ StartEntries \/ LowerEntry \/ ObserveNode \/ Correlate
    \/ Neighbour \/ StartForwarding \/ Forward \/ NextNode \/ BuildState
    \/ Compare

Spec == Init /\ [][Next]_vars

------------------------------------------------------------------------------
\* The rows of an agent that are lowered to observations.
Neighbours(n) == {r \in Range(n.lldp) : IsWhole(r)}
Entries(n) == {e \in Range(n.fdb) : HasPort(e)}

\* All these rows of a capture, each with the agent that reported it.
Rows(capture) ==
    UNION {{<<"lldp", n.target, r.oid>> : r \in Neighbours(n)}
             \cup {<<"bridge_fdb", n.target, e.oid>> : e \in Entries(n)} :
           n \in Range(capture.nodes)}

\* Every row that is whole is evidence for exactly one relationship, of the node that
\* reported it, a row that is not is evidence for none, and a link is corroborated
\* exactly when both tables support it.
EvidenceKept(capture, topology) ==
    /\ \A e \in Rows(capture) :
          Cardinality({i \in DOMAIN topology : e \in topology[i].evidence}) = 1
    /\ \A r \in Range(topology) :
          /\ r.evidence \subseteq Rows(capture)
          /\ \A e \in r.evidence : r.source = TargetKey(e[2])
          /\ (r.confidence = "corroborated") = (Cardinality({e[1] : e \in r.evidence}) = 2)

\* The same agents of two captures hold the same whole rows, in any order.
SameRows(s, t) ==
    /\ s.targets = t.targets /\ Len(s.nodes) = Len(t.nodes)
    /\ \A i \in DOMAIN s.nodes :
          /\ s.nodes[i].target = t.nodes[i].target
          /\ Neighbours(s.nodes[i]) = Neighbours(t.nodes[i])
          /\ Entries(s.nodes[i]) = Entries(t.nodes[i])
          /\ s.nodes[i].names = t.nodes[i].names
          /\ s.nodes[i].portIds = t.nodes[i].portIds
          /\ s.nodes[i].basePorts = t.nodes[i].basePorts

\* An agent reports one chassis twice on one interface (or twice on none): the
\* forwarding entry then corroborates whichever report comes last.
ReportedTwice(s) ==
    \E n \in Range(s.nodes) : \E i, j \in DOMAIN n.lldp :
        /\ i # j /\ IsWhole(n.lldp[i]) /\ IsWhole(n.lldp[j])
        /\ _neighbours(n)[i].chassis = _neighbours(n)[j].chassis
        /\ _neighbours(n)[i].interface = _neighbours(n)[j].interface

Links(topology) == {r.key : r \in {q \in Range(topology) : q.type = "reported_neighbour"}}

\* Network drift is explained by the recorded rows of the two captures: each topology
\* keeps the evidence of every whole row where it was observed, and nothing of a row
\* that lowering skips; an agent that merely answers in another order, or with other
\* rows that are not whole, causes no finding, unless it reports a chassis twice on
\* one interface; and without a finding both captures show the same links.  Nothing
\* is found where either capture is incomplete.
DriftIsExplained ==
    phase = "compared" =>
        LET s == comparison.captures[1]
            t == comparison.captures[2]
        IN  /\ EvidenceKept(s, topologies[1]) /\ EvidenceKept(t, topologies[2])
            /\ SameRows(s, t) /\ ~ReportedTwice(s) => findings = {}
            /\ IF \A i \in {1, 2} : comparison.complete[i]
               THEN findings = {} => Links(topologies[1]) = Links(topologies[2])
               ELSE findings = {}

\* "An LLDP relationship becomes `corroborated` when a forwarding entry reports the
\* same chassis MAC through the same explicitly resolved interface."
CorroborationIsResolved ==
    \A r \in Range(relationships) : r.confidence = "corroborated" => r.interface # None
==============================================================================
