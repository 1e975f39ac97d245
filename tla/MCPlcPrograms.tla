---------------------------- MODULE MCPlcPrograms ----------------------------
(***************************************************************************)
(* TLC instance of PlcPrograms, with the two Machine Expert - Basic        *)
(* readers beside its components.  Each behaviour runs one of the          *)
(* components and leaves the others in one of their initial states.        *)
(***************************************************************************)
EXTENDS PlcPrograms, Sequences

CONSTANTS a, b, x, T, C, D

(* Ladder routines. *)

I(op, tag) == [op |-> op, tag |-> tag, member |-> "value"]
DN(op, tag) == [op |-> op, tag |-> tag, member |-> "DN"]
Rung(before, paths, after) == [before |-> before, paths |-> paths, after |-> after]
Serial(contacts, output) == Rung(<<>>, <<>>, Append(contacts, output))
Paths == <<<<I("XIC", a)>>, <<I("XIC", b)>>>>

CTUof(c) == Serial(<<I("XIC", a)>>, I("CTU", c))
CTDof(c) == Serial(<<I("XIC", b)>>, I("CTD", c))
Timer(op) == Serial(<<I("XIC", a)>>, I(op, T))
Done(tag) == Serial(<<DN("XIC", tag)>>, I("OTE", x))
Resets(tag) == Serial(<<I("XIC", b)>>, I("RES", tag))

\* Ordinary rungs, some of them outside the supported subset.
Plain ==
    {Serial(<<I("XIC", a)>>, I("OTE", x)), Serial(<<I("XIC", a), I("XIO", b)>>, I("OTE", x)),
     Serial(<<I("XIC", a)>>, DN("OTE", C)), Rung(<<>>, Paths, <<I("OTE", x)>>),
     Rung(<<>>, Paths, <<I("XIO", x), I("OTE", x)>>),
     Rung(<<I("XIC", x)>>, Paths, <<I("OTE", x)>>),
     Rung(<<>>, <<<<I("XIC", a)>>>>, <<I("OTE", x)>>)}

Single == Plain \cup
    {CTUof(C), CTDof(C), CTDof(D), Timer("TON"), Timer("RTO"),
     Done(C), Done(T), Resets(C), Resets(T)}

\* The groups the exporter recognises, and near misses of them.
Groups ==
    {<<CTUof(C), Done(C), Resets(C)>>, <<CTDof(C), CTUof(C), Done(C), Resets(C)>>,
     <<CTUof(C), CTDof(D), Done(C), Resets(C)>>, <<CTUof(D), Done(D), Resets(D)>>,
     <<Timer("TON"), Done(T)>>, <<Timer("RTO"), Done(T), Resets(T)>>,
     <<Timer("RTO"), Done(T)>>}

Pieces == Groups \cup {<<r>> : r \in Plain}

MCPrograms ==
    UNION {[1..n -> Single] : n \in 1..3}
        \cup {p \o q : p, q \in Pieces} \cup {p \o q \o r : p, q, r \in Pieces}

(* A three-bit DINT wraps within the bound at both ends; presets at the ends, at
   zero and just above it. *)
MCPresets == {-4, 0, 1, 3}
MCInitialValues == {-2, 0, 2}

(* Machine Expert - Basic rungs: two rows by two columns of contacts and wires
   before the outputs, a bridge, a counter with several pins, and an element the
   reader does not know. *)

Cell(kind, row, column, links) == [kind |-> kind, row |-> row, column |-> column, links |-> links]
Flat == {"Left"}
ToBelow == {"Left", "Down"}
ToAbove == {"Left", "Up"}
Top(k) == {<<>>} \cup {<<Cell(kind, 0, k, links)>> : kind \in {"contact", "wire"}, links \in {Flat, ToBelow}}
Bottom(k) ==
    {<<>>, <<Cell("contact", 1, k, Flat)>>, <<Cell("contact", 1, k, ToAbove)>>,
     <<Cell("wire", 1, k, Flat)>>, <<Cell("vertical", 1, k, {"Up"})>>}
Ends ==
    {<<Cell("coil", 0, 2, Flat)>>, <<Cell("coil", 0, 2, Flat), Cell("coil", 1, 2, Flat)>>,
     <<Cell("coil", 0, 2, Flat), Cell("coil", 0, 3, Flat)>>,
     <<Cell("drum", 0, 2, Flat), Cell("coil", 0, 4, Flat)>>}
Bridge ==
    <<Cell("contact", 0, 0, ToBelow), Cell("contact", 0, 1, ToBelow), Cell("contact", 0, 2, Flat),
      Cell("coil", 0, 3, Flat), Cell("comparison", 1, 1, ToAbove), Cell("comparison", 2, 0, ToAbove)>>
CounterRung ==
    <<Cell("contact", 0, 0, Flat), Cell("contact", 2, 0, Flat), Cell("counter", 0, 1, Flat),
      Cell("coil", 1, 3, Flat), Cell("coil", 2, 3, Flat)>>

MCGrids ==
    {p \o q \o r \o s \o e : p \in Top(0), q \in Top(1), r \in Bottom(0), s \in Bottom(1), e \in Ends}
        \cup {Bridge, CounterRung, <<Cell("unknown", 0, 0, Flat), Cell("coil", 0, 1, Flat)>>}

\* Instruction lists: branch points, parentheses, and function blocks.
MCDialects ==
    {[ops |-> {"LD", "AND", "ST", "MPS", "MRD", "MPP"}, length |-> 7],
     [ops |-> {"LD", "AND", "OR", "AND(", "OR(", ")", "ST", "N"}, length |-> 5],
     [ops |-> {"LD", "AND", "BLK", "IN", "OUT_BLK", "ST", "END_BLK"}, length |-> 7]}

(* FBD networks: every set of links over three blocks, with positions, shared
   variables and execAfter texts; four blocks in chains and cycles; and networks the
   checks before the sort set aside. *)

FBD(blocks, links, position, groups, named, after) ==
    [blocks |-> blocks, links |-> links, position |-> position, shared |-> groups,
     named |-> named, after |-> [i \in blocks |-> after], trusted |-> TRUE, clean |-> TRUE,
     pure |-> TRUE, placed |-> TRUE, excluded |-> FALSE]
Variable(writers, readers) == [writers |-> writers, readers |-> readers]
ThreeBlocks ==
    {FBD(1..3, l, p, s, o[1], o[2]) :
        l \in SUBSET {q \in (1..3) \X (1..3) : q[1] # q[2]},
        p \in {<<1, 2, 3>>, <<3, 2, 1>>, <<2, 2, 1>>},
        s \in {{}, {Variable({1}, {2})}, {Variable({3}, {1, 3})}, {Variable({1, 2}, {3})}},
        o \in {<<{}, {}>>, <<{1}, {2}>>, <<{3}, {1}>>, <<{1}, {2, 3}>>, <<{2}, {2}>>}}
FourBlocks ==
    {FBD(1..4, l, p, {}, {}, {}) :
        l \in SUBSET {<<4, 3>>, <<3, 2>>, <<2, 1>>, <<1, 4>>, <<4, 1>>, <<2, 4>>},
        p \in {<<1, 2, 3, 4>>, <<2, 1, 4, 3>>}}
TwoBlocks == FBD(1..2, {}, <<1, 2>>, {}, {}, {})

Networks ==
    ThreeBlocks \cup FourBlocks \cup {TwoBlocks}
        \cup {[d EXCEPT !.clean = FALSE] : d \in {e \in ThreeBlocks : e.named = {} /\ e.shared # {}}}
        \cup {[TwoBlocks EXCEPT ![f] = ~@] : f \in {"trusted", "pure", "placed", "excluded"}}

\* The same set, enumerated once.
MCDiagrams == {d : d \in Networks}

(* Cyclic images of two-bit bytes: words and bits in several orders, a bit before
   its word, a bit beyond its word, a name twice, a type without a size, and images
   too short and too long; values at both ends of an INT and beyond. *)

Word(name, type) == [name |-> name, type |-> type, target |-> "none", bit |-> -1]
Bit(name, target, bit) == [name |-> name, type |-> "BOOL", target |-> target, bit |-> bit]

MCContracts ==
    [members : {<<Word("speed", "INT")>>,
                <<Word("status", "INT"), Bit("ready", "status", 0), Bit("fault", "status", 3),
                  Word("speed", "INT")>>,
                <<Word("flag", "BOOL"), Word("status", "SINT"), Bit("ready", "status", 1),
                  Word("speed", "REAL")>>,
                <<Word("status", "DINT"), Bit("fault", "status", 7), Word("speed", "SINT")>>,
                <<Bit("ready", "status", 0), Word("status", "INT")>>,
                <<Word("status", "SINT"), Bit("fault", "status", 2)>>,
                <<Word("status", "SINT"), Word("status", "SINT")>>, <<Word("speed", "LINT")>>},
     size : {0, 2, 4, 6}, order : {"little", "big"}]
MCSamples ==
    {[status |-> -2, ready |-> 1, fault |-> 0, speed |-> 7, flag |-> 1],
     [status |-> -8, ready |-> 0, fault |-> 1, speed |-> 8, flag |-> 0]}

------------------------------------------------------------------------------
(* Mode bits: the inhibit bit, its neighbour above and the sign bit; states:
   standby, running, inhibited, a firmware update and one with no alias. *)
MCModeBits == {2, 3, 15}
MCEntryStates == {0, 4, 6, 9, 13}
MCTimerPresets == {0, 1, 5, 7, 10}
MCTimers == {T}
MCCounters == {C, D}

VARIABLES
    program,                                                   \* what runs
    cells, edges, disconnected, gridPhase,
    dialect, list, acc, parens, branch_points, sinks, block, network, listPhase

sysModule == <<osr, outputs, intent, report, mode, entry, command, issued>>
binding == <<CommandLatch, RequestReconfigure, RequestedEnable, ReconfigureBlocked, Enable,
             CanReconfigure, reconfigure, xExecute, started, applied>>
rto == <<PT, Q, ET, TT, SegmentTimer, RetainedTime, WasEnabled, timer, Enabled, timerReset>>
ladderPlan == <<rungs, phase, index, types, shared, plan>>
grid == <<cells, edges, disconnected, gridPhase>>
instructionList == <<dialect, list, acc, parens, branch_points, sinks, block, network, listPhase>>
order == <<diagram, remaining, rank, basis, outcome>>
cyclic == <<contract, fields, offset, offsets, base, image, values, todo, decoded, imagePhase>>

Grid == INSTANCE SmbpLadder WITH Grids <- MCGrids, phase <- gridPhase
List == INSTANCE SmbpInstructionList WITH Dialects <- MCDialects, program <- list,
                                          outputs <- sinks, phase <- listPhase

ProgramsInit ==
    /\ program \in {"counter", "timer", "ladder", "sys_module", "binding",
                   "grid", "list", "order", "cyclic"}
    /\ Init /\ (IF program = "counter" THEN TRUE
                ELSE PV = 0 /\ UP_FIRST /\ fb.CV = 0 /\ ~fb.Q /\ ~fb.OV /\ ~fb.UN)
    /\ PT \in (IF program = "timer" THEN TimerPresets ELSE {5}) /\ RTO!Init
    /\ rungs \in (IF program = "ladder" THEN Programs ELSE {<<CTUof(C)>>}) /\ Ladder!Init
    /\ entry \in (IF program = "sys_module" THEN EntryStates ELSE {0})
    /\ mode \in (IF program = "sys_module" THEN SUBSET ModeBits ELSE {{}})
    /\ SysModule!Init
    /\ Enable \in (IF program = "binding" THEN BOOLEAN ELSE {TRUE})
    /\ CanReconfigure \in (IF program = "binding" THEN BOOLEAN ELSE {TRUE}) /\ Binding!Init
    /\ cells \in (IF program = "grid" THEN MCGrids ELSE {Bridge}) /\ Grid!Init
    /\ dialect \in (IF program = "list" THEN MCDialects ELSE {CHOOSE d \in MCDialects : TRUE})
    /\ List!Init
    /\ diagram \in (IF program = "order" THEN Diagrams ELSE {TwoBlocks})
    /\ (IF program = "order" THEN TRUE ELSE basis = "none") /\ Order!Init
    /\ contract \in (IF program = "cyclic" THEN Contracts ELSE {CHOOSE c \in Contracts : TRUE})
    /\ Cyclic!Init

ProgramsNext ==
    /\ UNCHANGED program
    /\ \/ /\ program = "counter" /\ Next
          /\ UNCHANGED <<rto, ladderPlan, sysModule, binding, grid, instructionList, order, cyclic>>
       \/ /\ program = "timer" /\ RTO!Next
          /\ UNCHANGED <<vars, ladderPlan, sysModule, binding, grid, instructionList, order, cyclic>>
       \/ /\ program = "ladder" /\ Ladder!Next
          /\ UNCHANGED <<vars, rto, sysModule, binding, grid, instructionList, order, cyclic>>
       \/ /\ program = "sys_module" /\ SysModule!Next
          /\ UNCHANGED <<vars, rto, ladderPlan, binding, grid, instructionList, order, cyclic>>
       \/ /\ program = "binding" /\ Binding!Next
          /\ UNCHANGED <<vars, rto, ladderPlan, sysModule, grid, instructionList, order, cyclic>>
       \/ /\ program = "grid" /\ Grid!Next
          /\ UNCHANGED <<vars, rto, ladderPlan, sysModule, binding, instructionList, order, cyclic>>
       \/ /\ program = "list" /\ List!Next
          /\ UNCHANGED <<vars, rto, ladderPlan, sysModule, binding, grid, order, cyclic>>
       \/ /\ program = "order" /\ Order!Next
          /\ UNCHANGED <<vars, rto, ladderPlan, sysModule, binding, grid, instructionList, cyclic>>
       \/ /\ program = "cyclic" /\ Cyclic!Next
          /\ UNCHANGED <<vars, rto, ladderPlan, sysModule, binding, grid, instructionList, order>>

ProgramsSpec ==
    /\ ProgramsInit
    /\ [][ProgramsNext]_<<program, vars, rto, ladderPlan, sysModule, binding,
                         grid, instructionList, order, cyclic>>

(* The readers' properties, under their own names. *)

\* A Machine Expert - Basic grid and its network energise the same outputs.
NetworkKeepsWiring == Grid!NetworkKeepsWiring

\* An instruction list and its network energise the same outputs.
NetworkComputesList == List!NetworkComputesList
==============================================================================
