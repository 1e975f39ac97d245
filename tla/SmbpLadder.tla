----------------------------- MODULE SmbpLadder -----------------------------
(***************************************************************************)
(* A Machine Expert - Basic rung becomes a network                         *)
(* (src/src/twinforge/parsers/machine_expert_basic/ladder.py): the cells   *)
(* of a grid are read as a graph between the left rail and one sink, edges *)
(* on no path are dropped, and parallel and series edges are merged until  *)
(* one is left.  A cell is its kind, its place and the sides it is         *)
(* connected on; an instruction is known by its place.                     *)
(***************************************************************************)
EXTENDS Integers, Sequences, SequencesExt, FiniteSets, FiniteSetsExt, TLC

CONSTANT Grids     \* rungs: sequences of cells [kind, row, column, links]

VARIABLES cells, edges, disconnected, phase

vars == <<cells, edges, disconnected, phase>>

------------------------------------------------------------------------------
(* The element table; WriteVarBasic has the pins of a timer. *)

Blocks == [timer |-> [inputs |-> {0}, outputs |-> {0}],
           drum |-> [inputs |-> {0, 1}, outputs |-> {0}],
           counter |-> [inputs |-> 0..3, outputs |-> 0..2]]

IsBlock(c) == c.kind \in DOMAIN Blocks

IsCondition(c) == c.kind \in {"contact", "comparison"}

Known(c) == c.kind \in {"wire", "vertical", "coil"} \/ IsCondition(c) \/ IsBlock(c)

Right(c) == c.column + (IF c.kind = "comparison" \/ IsBlock(c) THEN 2 ELSE 1)

Reads(c) == "Left" \in c.links

(* Nodes are the vertical edges of the grid; a node is named by the topmost
   of those joined with it, and column zero is the rail. *)
Rail == <<0, 0>>
Sink == <<-2, -2>>

Tied(row, column) ==
    \E c \in Range(cells) :
        /\ Right(c) = column
        /\ \/ c.row = row /\ "Down" \in c.links
           \/ c.row = row + 1 /\ "Up" \in c.links

Find(row, column) ==
    IF column = 0 THEN Rail
    ELSE <<Min({top \in -1..row : \A r \in top..(row - 1) : Tied(r, column)}), column>>

WiredFrom(row, column) ==
    \E c \in Range(cells) : c.row = row /\ c.column = column /\ Reads(c)

Leaf(op, row, column) == [op |-> op, row |-> row, column |-> column]

\* An input pin is placed at its block.
Pin(c, p) == [op |-> "pin", row |-> c.row, column |-> c.column, pin |-> p]

Edge(source, target, series, row, column) ==
    [source |-> source, target |-> target, series |-> series, order |-> <<row, column>>]

\* What one cell adds, blocks with their output pins.
CellEdges(c) ==
    LET source == Find(c.row, c.column)
        target == Find(c.row, Right(c))
    IN  IF c.kind = "wire" /\ Reads(c) /\ target # source
        THEN <<Edge(source, target, <<>>, c.row, c.column)>>
        ELSE IF IsCondition(c) /\ Reads(c)
        THEN <<Edge(source, target, <<Leaf("contact", c.row, c.column)>>, c.row, c.column)>>
        ELSE IF c.kind = "coil" /\ Reads(c)
        THEN <<Edge(source, IF WiredFrom(c.row, Right(c)) THEN target ELSE Sink,
                    <<Leaf("coil", c.row, c.column)>>, c.row, c.column)>>
        ELSE IF IsBlock(c)
        THEN LET pins == SetToSortSeq({p \in Blocks[c.kind].outputs : WiredFrom(c.row + p, Right(c))}, <)
             IN  [i \in 1..Len(pins) |->
                    Edge(Rail, Find(c.row + pins[i], Right(c)),
                         <<Leaf("output", c.row + pins[i], c.column)>>, c.row + pins[i], c.column)]
        ELSE <<>>

\* The input pins whose node something drives.
PinEdges(c, driven) ==
    IF ~IsBlock(c) THEN <<>>
    ELSE LET pins == SetToSortSeq({p \in Blocks[c.kind].inputs :
                                      Find(c.row + p, c.column) \in driven}, <)
         IN  [i \in 1..Len(pins) |->
                Edge(Find(c.row + pins[i], c.column), Sink,
                     <<Pin(c, pins[i])>>, c.row + pins[i], c.column)]

Init ==
    /\ cells \in Grids
    /\ edges = <<>>
    /\ disconnected = {}
    /\ phase = "wire"

\* build_network up to the pruning.
Wire ==
    LET first == FlattenSeq([i \in 1..Len(cells) |-> CellEdges(cells[i])])
        driven == {Rail} \cup {e.target : e \in Range(first)}
    IN  /\ phase = "wire"
        /\ IF \A c \in Range(cells) : Known(c)
           THEN /\ edges' = first \o FlattenSeq([i \in 1..Len(cells) |->
                                                    PinEdges(cells[i], driven)])
                /\ phase' = "prune"
           ELSE phase' = "unresolved" /\ UNCHANGED edges
        /\ UNCHANGED <<cells, disconnected>>

\* The vertices reachable from one vertex along a set of arcs.
Reachable(arcs, from) ==
    LET reach[n \in 0..Cardinality(arcs)] ==
            IF n = 0 THEN {from}
            ELSE LET last == reach[n - 1]
                 IN  last \cup {arc[2] : arc \in {c \in arcs : c[1] \in last}}
    IN  reach[Cardinality(arcs)]

Prune ==
    LET forward == Reachable({<<e.source, e.target>> : e \in Range(edges)}, Rail)
        backward == Reachable({<<e.target, e.source>> : e \in Range(edges)}, Sink)
        kept == SelectSeq(edges, LAMBDA e : e.source \in forward /\ e.target \in backward)
    IN  /\ phase = "prune"
        /\ disconnected' = {l \in UNION {Range(e.series) : e \in Range(edges)} :
                               \A e \in Range(kept) : l \notin Range(e.series)}
        /\ edges' = kept
        /\ phase' = IF \E e \in Range(kept) : e.target = Sink THEN "reduce" ELSE "unresolved"
        /\ UNCHANGED cells

------------------------------------------------------------------------------
(* Series and parallel reduction. *)

Before(p, q) == p[1] < q[1] \/ (p[1] = q[1] /\ p[2] < q[2])

NoPosition == <<-9, -9>>

RECURSIVE FirstPosition(_)
FirstPosition(series) ==
    IF series = <<>> THEN NoPosition
    ELSE LET e == Head(series)
             found == IF e.op = "parallel"
                      THEN {FirstPosition(b) : b \in Range(e.branches)} \ {NoPosition}
                      ELSE {<<e.row, e.column>>}
         IN  IF found = {} THEN FirstPosition(Tail(series))
             ELSE CHOOSE p \in found : \A q \in found : ~Before(q, p)

\* The branches of one edge: a lone parallel is flattened into its own.
Branches(e) ==
    LET keyed(s) == [key |-> IF FirstPosition(s) = NoPosition THEN e.order ELSE FirstPosition(s),
                     series |-> s]
    IN  IF Len(e.series) = 1 /\ e.series[1].op = "parallel"
        THEN [i \in 1..Len(e.series[1].branches) |-> keyed(e.series[1].branches[i])]
        ELSE <<keyed(e.series)>>

_parallel(group) ==
    LET sorted == SortSeq(FlattenSeq([i \in 1..Len(group) |-> Branches(group[i])]),
                          LAMBDA p, q : Before(p.key, q.key))
    IN  <<[op |-> "parallel", branches |-> [i \in 1..Len(sorted) |-> sorted[i].series]]>>

\* Edges between the same two vertices become one.
MergeParallel(E) ==
    LET Ends(e) == <<e.source, e.target>>
        Group(e) == SelectSeq(E, LAMBDA d : Ends(d) = Ends(e))
        firsts == SelectSeq([i \in 1..Len(E) |-> i],
                            LAMBDA i : \A j \in 1..(i - 1) : Ends(E[j]) # Ends(E[i]))
        Merged(e) ==
            LET group == Group(e)
                orders == {d.order : d \in Range(group)}
            IN  IF Len(group) = 1 THEN e
                ELSE [e EXCEPT !.series = _parallel(group),
                               !.order = CHOOSE p \in orders : \A q \in orders : ~Before(q, p)]
    IN  [i \in 1..Len(firsts) |-> Merged(E[firsts[i]])]

Into(E, v) == {i \in 1..Len(E) : E[i].target = v}
OutOf(E, v) == {i \in 1..Len(E) : E[i].source = v}

\* Mutant: a vertex with one way in is merged into the first of several ways out.
InSeriesFirst(E, v) ==
    /\ v \notin {Rail, Sink}
    /\ Cardinality(Into(E, v)) = 1
    /\ OutOf(E, v) # {}

\* One inner vertex with one edge on each side disappears.
InSeries(E, v) ==
    /\ v \notin {Rail, Sink}
    /\ Cardinality(Into(E, v)) = 1
    /\ Cardinality(OutOf(E, v)) = 1

MergeSeries(E) ==
    LET inner == {i \in 1..Len(E) : InSeries(E, E[i].target)}
    IN  IF inner = {} THEN E
        ELSE LET first == Min(inner)
                 second == Min(OutOf(E, E[first].target))
                 others == SelectSeq([i \in 1..Len(E) |-> i], LAMBDA i : i \notin {first, second})
             IN  Append([i \in 1..Len(others) |-> E[others[i]]],
                        [E[first] EXCEPT !.target = E[second].target,
                                         !.series = E[first].series \o E[second].series])

\* One pass of _reduce's loop.
Reduce ==
    LET next == MergeSeries(MergeParallel(edges))
    IN  /\ phase = "reduce"
        /\ next # edges
        /\ edges' = next
        /\ UNCHANGED <<cells, disconnected, phase>>

Finish ==
    /\ phase = "reduce"
    /\ MergeSeries(MergeParallel(edges)) = edges
    /\ phase' = IF Len(edges) = 1 /\ edges[1].source = Rail /\ edges[1].target = Sink
                THEN "network" ELSE "unresolved"
    /\ UNCHANGED <<cells, edges, disconnected>>

Finished == phase \in {"network", "unresolved"} /\ UNCHANGED vars

Next == Wire \/ Prune \/ Reduce \/ Finish \/ Finished

Spec == Init /\ [][Next]_vars

------------------------------------------------------------------------------
(* What the drawing means, and what the network means. *)

\* The leaves whose state the program does not decide.
Inputs ==
    {Leaf("contact", c.row, c.column) : c \in {d \in Range(cells) : IsCondition(d)}}
        \cup UNION {{Leaf("output", c.row + p, c.column) : p \in Blocks[c.kind].outputs} :
                        c \in {d \in Range(cells) : IsBlock(d)}}

\* The rows with power at each column when the inputs in on conduct.
Power(on) ==
    LET rows == -1..5
        Spread(lit, k) == {r \in rows : \E s \in lit :
                              \A q \in Min({r, s})..(Max({r, s}) - 1) : Tied(q, k)}
        Drives(c, r, k, left) ==
            \/ /\ (c.kind \in {"wire", "coil"} \/ IsCondition(c)) /\ Right(c) = k /\ c.row = r
               /\ Reads(c)
               /\ c.row \in left[k - c.column]
               /\ IsCondition(c) => Leaf("contact", c.row, c.column) \in on
            \/ /\ IsBlock(c) /\ Right(c) = k /\ (r - c.row) \in Blocks[c.kind].outputs
               /\ WiredFrom(r, k)
               /\ Leaf("output", r, c.column) \in on
        power[k \in 0..6] ==
            IF k = 0 THEN rows
            ELSE LET near == power[k - 1]
                     far == IF k > 1 THEN power[k - 2] ELSE {}
                     left == <<near, far>>
                 IN  Spread({r \in rows : \E c \in Range(cells) : Drives(c, r, k, left)}, k)
    IN  power

\* The coils and pins the drawing energises.
DrawnLit(on) ==
    LET power == Power(on)
    IN  {Leaf("coil", c.row, c.column) :
            c \in {d \in Range(cells) : d.kind = "coil" /\ Reads(d) /\ d.row \in power[d.column]}}
        \cup UNION {{Pin(c, p) :
                        p \in {q \in Blocks[c.kind].inputs : (c.row + q) \in power[c.column]}} :
                    c \in {d \in Range(cells) : IsBlock(d)}}

\* Whether power leaves a series that it enters, and what it energises.
RECURSIVE Flow(_, _)
Flow(series, on) ==
    IF series = <<>> THEN [out |-> TRUE, lit |-> {}]
    ELSE LET e == Head(series)
             branches == IF e.op = "parallel" THEN {Flow(b, on) : b \in Range(e.branches)} ELSE {}
             passes == IF e.op = "parallel" THEN \E f \in branches : f.out
                       ELSE e.op \in {"contact", "output"} => e \in on
             lit == IF e.op = "parallel" THEN UNION {f.lit : f \in branches}
                    ELSE {e} \ Inputs
             rest == IF passes THEN Flow(Tail(series), on) ELSE [out |-> FALSE, lit |-> {}]
         IN  [out |-> rest.out, lit |-> lit \cup rest.lit]

\* The coils and pins the edges energise.
EdgesLit(on) ==
    LET conducting == {e \in Range(edges) : Flow(e.series, on).out}
        live == Reachable({<<e.source, e.target>> : e \in conducting}, Rail)
    IN  UNION {Flow(e.series, on).lit : e \in {d \in Range(edges) : d.source \in live}}

\* From the first graph to the finished network, whatever is merged, dropped or
\* reordered on the way, every coil and block pin is energised by exactly the
\* states of the contacts that energise it in the drawing.
NetworkKeepsWiring ==
    phase \in {"prune", "reduce", "network"} =>
        \A on \in SUBSET Inputs : EdgesLit(on) = DrawnLit(on)
=============================================================================
