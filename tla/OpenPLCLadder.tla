--------------------------- MODULE OpenPLCLadder ---------------------------
(***************************************************************************)
(* Admission and lowering of a Rockwell ladder routine to native OpenPLC   *)
(* ladder (targets/openplc): validate_program walks the rungs and skips    *)
(* whole timer and counter groups, the instance types and shared counters  *)
(* are resolved, and ladder_document walks the rungs again and lowers each *)
(* group to one block and each other rung to contacts and a coil.          *)
(*                                                                         *)
(* A rung is its instructions: those before a branch, the branch's paths,  *)
(* and those after it.  An instruction is [op, tag, member].               *)
(***************************************************************************)
EXTENDS Naturals, Sequences, FiniteSets

CONSTANTS Programs,          \* the routines tried: sequences of rungs
          Timers, Counters,  \* tags by data type
          None

VARIABLES
    rungs,    \* the routine's rungs
    phase,    \* what the exporter is doing, or how it ended
    index,    \* source_index of the current walk
    types,    \* timer_instruction_types so far: <<timer, instruction>> pairs
    shared,   \* shared_counter_names so far
    plan      \* the lowered networks so far

vars == <<rungs, phase, index, types, shared, plan>>

(***************************************************************************)
(* parse_supported_rung.                                                   *)
(***************************************************************************)

Conditions == {"XIC", "XIO"}
\* The outputs that a group or a coil can take; MOV, ADD and the other outputs of the
\* parser make a rung that validate_program rejects.
OutputOps == {"OTE", "OTL", "OTU", "TON", "TOF", "RTO", "CTU", "CTD", "RES"}

IsOutput(instruction) == instruction.op \in OutputOps
IsCondition(instruction) == ~IsOutput(instruction)
AllConditions(path) == \A i \in 1..Len(path) : path[i].op \in Conditions

\* None unless outputs exist, follow every condition, and a branch is two or
\* more paths of contacts only.
parse(rung) ==
    IF \/ rung.paths # <<>> /\ Len(rung.paths) < 2
       \/ ~AllConditions(rung.before)
       \/ \E p \in 1..Len(rung.paths) :
             rung.paths[p] = <<>> \/ ~AllConditions(rung.paths[p])
       \/ ~\E i \in 1..Len(rung.after) : IsOutput(rung.after[i])
       \/ \E i, j \in 1..Len(rung.after) :
             i < j /\ IsOutput(rung.after[i]) /\ rung.after[j].op \in Conditions
    THEN None
    ELSE [prefix |-> rung.before, branches |-> rung.paths,
          tail |-> SelectSeq(rung.after, IsCondition),
          outputs |-> SelectSeq(rung.after, IsOutput)]

ParsedAt(i) == IF i \in 1..Len(rungs) THEN parse(rungs[i]) ELSE None

\* One XIC contact and one output: XIC(x)op(y).
SingleContact(p) ==
    /\ p # None
    /\ p.branches = <<>>
    /\ Len(p.tail) = 1 /\ p.tail[1].op = "XIC" /\ Len(p.outputs) = 1

IsDone(p, tag) ==
    /\ SingleContact(p)
    /\ p.tail[1].tag = tag /\ p.tail[1].member = "DN" /\ p.outputs[1].op = "OTE"

IsReset(p, tag) ==
    SingleContact(p) /\ p.outputs[1].op = "RES" /\ p.outputs[1].tag = tag

(***************************************************************************)
(* match_counter_group and match_timer_group.                              *)
(***************************************************************************)

IsCount(p) == SingleContact(p) /\ p.outputs[1].op \in {"CTU", "CTD"}

\* The number of rungs of the counter group that starts at i, zero if none does.
CounterGroup(i) ==
    LET first  == ParsedAt(i)
        second == ParsedAt(i + 1)
        paired == /\ IsCount(first) /\ IsCount(second)
                  /\ second.outputs[1].op # first.outputs[1].op
        counts == IF paired THEN 2 ELSE 1
    IN  IF /\ IsCount(first)
           /\ paired => second.outputs[1].tag = first.outputs[1].tag
           /\ IsDone(ParsedAt(i + counts), first.outputs[1].tag)
           /\ IsReset(ParsedAt(i + counts + 1), first.outputs[1].tag)
           /\ first.outputs[1].tag \in Counters
        THEN counts + 2 ELSE 0

TimerGroup(i) ==
    LET first == ParsedAt(i)
        timer == first.outputs[1].tag
    IN  IF /\ SingleContact(first)
           /\ first.outputs[1].op \in {"TON", "TOF", "RTO"}
           /\ IsDone(ParsedAt(i + 1), timer)
           /\ timer \in Timers
           /\ first.outputs[1].op = "RTO" => IsReset(ParsedAt(i + 2), timer)
        THEN IF first.outputs[1].op = "RTO" THEN 3 ELSE 2
        ELSE 0

(***************************************************************************)
(* validate_program.                                                       *)
(***************************************************************************)

SerialSupported(p) ==
    p.branches = <<>> /\ p.tail # <<>> /\ \A i \in 1..Len(p.tail) : p.tail[i].op = "XIC"

\* The conditions before the branch are not looked at.
ParallelSupported(p) ==
    /\ Len(p.branches) = 2
    /\ \A b \in 1..2 : Len(p.branches[b]) = 1 /\ p.branches[b][1].op = "XIC"
    /\ \/ p.tail = <<>>
       \/ Len(p.tail) = 1 /\ p.tail[1].op \in Conditions

Ordinary(p) ==
    /\ SerialSupported(p) \/ ParallelSupported(p)
    /\ Len(p.outputs) = 1 /\ p.outputs[1].op = "OTE"

Init ==
    /\ rungs \in Programs
    /\ phase = "validate" /\ index = 1
    /\ types = {} /\ shared = {} /\ plan = <<>>

\* A walk moves on by n rungs, or to the next phase at the end of the routine.
Advance(n, next) ==
    IF index + n > Len(rungs)
    THEN phase' = next /\ index' = 1
    ELSE phase' = phase /\ index' = index + n

Reject ==
    /\ phase' = "rejected"
    /\ UNCHANGED <<rungs, index, types, shared, plan>>

ValidateRung ==
    LET timer == TimerGroup(index)
        counter == CounterGroup(index)
        p == ParsedAt(index)
    IN  /\ phase = "validate"
        /\ IF p = None \/ (timer = 0 /\ counter = 0 /\ ~Ordinary(p)) THEN Reject
           ELSE /\ Advance(IF timer > 0 THEN timer ELSE IF counter > 0 THEN counter
                           ELSE 1, "types")
                /\ UNCHANGED <<rungs, types, shared, plan>>

\* timer_instruction_types: one instance has one block type.
ResolveTimer ==
    LET n == TimerGroup(index)
        use == ParsedAt(index).outputs[1]
    IN  /\ phase = "types"
        /\ IF n > 0 /\ \E t \in types : t[1] = use.tag /\ t[2] # use.op THEN Reject
           ELSE /\ types' = IF n > 0 THEN types \cup {<<use.tag, use.op>>} ELSE types
                /\ Advance(IF n > 0 THEN n ELSE 1, "counters")
                /\ UNCHANGED <<rungs, shared, plan>>

\* shared_counter_names: one group owns a counter.
ResolveCounter ==
    LET n == CounterGroup(index)
        tag == ParsedAt(index).outputs[1].tag
    IN  /\ phase = "counters"
        /\ IF n > 0 /\ tag \in shared THEN Reject
           ELSE /\ shared' = IF n > 0 THEN shared \cup {tag} ELSE shared
                /\ Advance(IF n > 0 THEN n ELSE 1, "declare")
                /\ UNCHANGED <<rungs, types, plan>>

TagsOf(path) == {path[j].tag : j \in 1..Len(path)}

\* The counters the routine mentions stand for the program's COUNTER tags; each
\* must have its group.
Mentioned ==
    {t \in Counters : \E i \in 1..Len(rungs) :
        LET p == ParsedAt(i)
        IN  \/ t \in TagsOf(p.prefix \o p.tail \o p.outputs)
            \/ \E b \in 1..Len(p.branches) : t \in TagsOf(p.branches[b])}

Declare ==
    /\ phase = "declare"
    /\ IF Mentioned \subseteq shared
       THEN phase' = "lower" /\ UNCHANGED <<rungs, index, types, shared, plan>>
       ELSE Reject

\* Mutant: the contacts after the branch are drawn as normally open.
ParallelRungOpen(p) ==
    [series |-> [i \in 1..Len(p.tail) |-> [p.tail[i] EXCEPT !.op = "XIC"]],
     either |-> <<p.branches[1][1], p.branches[2][1]>>, coil |-> p.outputs[1]]

\* The first contact of each path, with the one tail contact in front of them.
ParallelRung(p) ==
    [series |-> p.tail,
     either |-> <<p.branches[1][1], p.branches[2][1]>>, coil |-> p.outputs[1]]

\* lower_boolean_rung: a serial rung's contacts are all drawn as normally open.
LowerBoolean(p) ==
    IF p.branches # <<>> THEN ParallelRung(p)
    ELSE [series |-> [i \in 1..Len(p.tail) |->
                         [op |-> "XIC", tag |-> p.tail[i].tag, member |-> p.tail[i].member]],
          either |-> <<>>, coil |-> p.outputs[1]]

\* ladder_document: a network names the source rungs it stands for.
Emit(n, block, graph) ==
    /\ phase = "lower"
    /\ plan' = Append(plan, [rungs |-> index..(index + n - 1),
                             block |-> block, graph |-> graph])
    /\ Advance(n, "done")
    /\ UNCHANGED <<rungs, types, shared>>

LowerCounter ==
    LET n == CounterGroup(index)
    IN  n > 0 /\ Emit(n, ParsedAt(index).outputs[1].tag, None)

\* Mutant: only the first rung of a timer group is consumed.
LowerTimerStepsOne ==
    LET n == TimerGroup(index)
    IN  /\ phase = "lower" /\ CounterGroup(index) = 0 /\ n > 0
        /\ plan' = Append(plan, [rungs |-> index..(index + n - 1),
                                 block |-> ParsedAt(index).outputs[1].tag,
                                 graph |-> None])
        /\ Advance(1, "done")
        /\ UNCHANGED <<rungs, types, shared>>

LowerTimer ==
    LET n == TimerGroup(index)
    IN  CounterGroup(index) = 0 /\ n > 0 /\ Emit(n, ParsedAt(index).outputs[1].tag, None)

LowerRung ==
    /\ CounterGroup(index) = 0 /\ TimerGroup(index) = 0
    /\ Emit(1, None, LowerBoolean(ParsedAt(index)))

Finished == phase \in {"done", "rejected"} /\ UNCHANGED vars

Next ==
    \/ ValidateRung \/ ResolveTimer \/ ResolveCounter
    \/ Declare \/ LowerCounter \/ LowerTimer \/ LowerRung
    \/ Finished

Spec == Init /\ [][Next]_vars

(***************************************************************************)
(* Properties.                                                             *)
(***************************************************************************)

Operand(i) == <<i.tag, i.member>>
Instructions(path) == {path[i] : i \in 1..Len(path)}
Operands(rung) ==
    {Operand(i) : i \in Instructions(rung.before) \cup Instructions(rung.after)
                     \cup UNION {Instructions(rung.paths[p]) : p \in 1..Len(rung.paths)}}

Holds(i, memory) == IF i.op = "XIC" THEN memory[Operand(i)] ELSE ~memory[Operand(i)]
AllHold(path, memory) == \A i \in 1..Len(path) : Holds(path[i], memory)

\* What the source rung and the drawn network give their output.
SourceValue(rung, memory) ==
    /\ AllHold(rung.before, memory)
    /\ rung.paths = <<>> \/ \E p \in 1..Len(rung.paths) : AllHold(rung.paths[p], memory)
    /\ AllHold(SelectSeq(rung.after, IsCondition), memory)
GraphValue(g, memory) ==
    /\ AllHold(g.series, memory)
    /\ g.either = <<>> \/ \E k \in 1..2 : Holds(g.either[k], memory)

Graphs(n) == n.graph # None
RungOf(n) == rungs[CHOOSE i \in n.rungs : TRUE]
SameLogic(n) ==
    \A memory \in [Operands(RungOf(n)) -> BOOLEAN] :
        SourceValue(RungOf(n), memory) = GraphValue(n.graph, memory)

\* A lowered routine stands for every source rung exactly once and in order,
\* although three walks with different group orders decided where groups begin.
EveryRungLoweredOnce ==
    /\ \A i, j \in 1..Len(plan) : i < j =>
          \A a \in plan[i].rungs, b \in plan[j].rungs : a < b
    /\ phase = "done" => UNION {plan[i].rungs : i \in 1..Len(plan)} = 1..Len(rungs)

\* A rung with no condition before its branch keeps its logic: the network gives
\* its coil what the source gives the output, for every state of the operands.
LoweringKeepsLogic ==
    \A i \in 1..Len(plan) :
        (Graphs(plan[i]) /\ RungOf(plan[i]).before = <<>>) => SameLogic(plan[i])

\* "Reject source constructs outside the runtime-evidenced native subset": every
\* rung that is admitted keeps its logic.
AdmittedRungsKeepLogic ==
    \A i \in 1..Len(plan) : Graphs(plan[i]) => SameLogic(plan[i])

\* "The initial adapter rejects rather than guesses when ... another instruction
\* writes a counter member".
CounterMembersNotWritten ==
    \A i \in 1..Len(plan) : Graphs(plan[i]) => plan[i].graph.coil.tag \notin Counters
=============================================================================
