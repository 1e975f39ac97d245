------------------------ MODULE SmbpInstructionList ------------------------
(***************************************************************************)
(* A Machine Expert - Basic rung written as an Instruction List becomes a  *)
(* ladder network                                                          *)
(* (src/src/twinforge/parsers/machine_expert_basic/instruction_list.py).   *)
(* The list is replayed with a condition in place of the accumulator, each *)
(* output keeps its whole path from the rail, and paths are joined where   *)
(* they share element objects.  The operand of a line is a contact of its  *)
(* own, the most general choice; N, R and F forms are contacts like any    *)
(* other, S, R, STN and assignments are outputs like ST.  XOR, which only  *)
(* adds an element marked unsupported, is left out.                        *)
(***************************************************************************)
EXTENDS Integers, Sequences, SequencesExt, FiniteSets

CONSTANT Dialects     \* [ops, length]: instructions in use and the bound on lines

VARIABLES dialect, program, acc, parens, branch_points, outputs, block, network, phase

vars == <<dialect, program, acc, parens, branch_points, outputs, block, network, phase>>

------------------------------------------------------------------------------
(* Elements are objects: a leaf is named by its line, a parallel by minus its
   line, so that equality is the identity Python's "is" tests. *)

Leaf(op, line) == [id |-> line, op |-> op]

_or(line, first, second) == [id |-> -line, op |-> "parallel", branches |-> <<first, second>>]

Conditions == {"LD", "AND", "OR", "AND(", "OR("}

\* What an operand of line n contributes: nothing for the constant 1, the block's
\* output inside the output part of a block, else a contact.
Operand(kind, n) ==
    CASE kind = "1" -> <<>>
      [] kind = "Q" -> <<Leaf("output", n)>>
      [] OTHER -> <<Leaf("contact", n)>>

Init ==
    /\ dialect \in Dialects
    /\ program = <<>>
    /\ acc = <<>> /\ parens = <<>> /\ branch_points = <<>> /\ outputs = <<>>
    /\ block = "none"
    /\ network = <<>>
    /\ phase = "read"

\* A rung starts by loading a condition or calling a block, and a block's pins and
\* outputs each load theirs.
Starts(op) ==
    (program = <<>> \/ Last(program).op \in {"BLK", "OUT_BLK"}) => op \in {"LD", "BLK", "END_BLK"}

\* Lines the interpreter refuses.
Refused(op, kind) ==
    \/ op = ")" /\ parens = <<>>
    \/ op \in {"MRD", "MPP"} /\ branch_points = <<>>
    \/ op \in {"OUT_BLK", "END_BLK"} /\ block = "none"
    \/ op = "IN" /\ block # "in"
    \/ kind = "Q" /\ block # "out"

Emit(leaf) == outputs' = Append(outputs, Append(acc, leaf))

Call(op) ==
    /\ op \in {"BLK", "OUT_BLK", "END_BLK"}
    /\ block' = [BLK |-> "in", OUT_BLK |-> "out", END_BLK |-> "none"][op]
    /\ UNCHANGED <<acc, parens, branch_points, outputs>>

Output(op, n) ==
    /\ op \in {"ST", "IN"}
    /\ Emit(Leaf("sink", n))
    /\ UNCHANGED <<acc, parens, branch_points, block>>

Push ==
    /\ branch_points' = Append(branch_points, acc)
    /\ UNCHANGED <<acc, parens, outputs, block>>

Restore(op) ==
    /\ acc' = Last(branch_points)
    /\ branch_points' = IF op = "MPP" THEN Front(branch_points) ELSE branch_points
    /\ UNCHANGED <<parens, outputs, block>>

Negate(n) ==
    /\ acc' = Append(acc, Leaf("not", n))
    /\ UNCHANGED <<parens, branch_points, outputs, block>>

Close(n) ==
    LET open == Last(parens)
    IN  /\ acc' = IF open.kind = "AND(" THEN open.acc \o acc ELSE <<_or(n, open.acc, acc)>>
        /\ parens' = Front(parens)
        /\ UNCHANGED <<branch_points, outputs, block>>

\* Mutant: OR binds to the last element only.
ConditionOrLast(op, kind, n) ==
    /\ op \in Conditions
    /\ acc' = CASE op = "AND" -> acc \o Operand(kind, n)
                [] op = "OR" /\ acc # <<>> ->
                     Append(Front(acc), _or(n, <<Last(acc)>>, Operand(kind, n)))
                [] OTHER -> Operand(kind, n)
    /\ parens' = IF op \in {"AND(", "OR("} THEN Append(parens, [acc |-> acc, kind |-> op]) ELSE parens
    /\ UNCHANGED <<branch_points, outputs, block>>

Condition(op, kind, n) ==
    /\ op \in Conditions
    /\ acc' = CASE op = "AND" -> acc \o Operand(kind, n)
                [] op = "OR" -> <<_or(n, acc, Operand(kind, n))>>
                [] OTHER -> Operand(kind, n)
    /\ parens' = IF op \in {"AND(", "OR("} THEN Append(parens, [acc |-> acc, kind |-> op]) ELSE parens
    /\ UNCHANGED <<branch_points, outputs, block>>

\* One line of the list.
Line(op, kind) ==
    LET n == Len(program) + 1
    IN  /\ phase = "read" /\ n <= dialect.length
        /\ kind # "bit" => op = "LD"
        /\ Starts(op)
        /\ program' = Append(program, [op |-> op, kind |-> kind])
        /\ IF Refused(op, kind)
           THEN phase' = "unresolved" /\ UNCHANGED <<acc, parens, branch_points, outputs, block>>
           ELSE /\ UNCHANGED phase
                /\ \/ Call(op)
                   \/ Output(op, n)
                   \/ op = "MPS" /\ Push
                   \/ op \in {"MRD", "MPP"} /\ Restore(op)
                   \/ op = "N" /\ Negate(n)
                   \/ op = ")" /\ Close(n)
                   \/ Condition(op, kind, n)
        /\ UNCHANGED <<dialect, network>>

\* Output paths that share leading elements become branches.
RECURSIVE _factor(_)
_factor(paths) ==
    LET share == /\ Len(paths) > 1
                 /\ \A i \in DOMAIN paths : paths[i] # <<>> /\ paths[i][1] = paths[1][1]
        Tails == [i \in DOMAIN paths |-> Tail(paths[i])]
        firsts == SelectSeq([i \in DOMAIN paths |-> i],
                            LAMBDA i : paths[i] = <<>> \/ \A j \in 1..(i - 1) :
                                paths[j] = <<>> \/ paths[j][1] # paths[i][1])
        Group(i) == IF paths[i] = <<>> THEN <<paths[i]>>
                    ELSE SelectSeq(paths, LAMBDA p : p # <<>> /\ p[1] = paths[i][1])
    IN  IF share THEN <<paths[1][1]>> \o _factor(Tails)
        ELSE IF Len(paths) = 1 THEN paths[1]
        ELSE <<[id |-> 0, op |-> "parallel",
                branches |-> [k \in DOMAIN firsts |-> _factor(Group(firsts[k]))]]>>

End ==
    /\ phase = "read" /\ program # <<>>
    /\ IF parens # <<>> \/ branch_points # <<>> \/ block # "none" \/ outputs = <<>>
       THEN phase' = "unresolved" /\ UNCHANGED network
       ELSE phase' = "network" /\ network' = _factor(outputs)
    /\ UNCHANGED <<dialect, program, acc, parens, branch_points, outputs, block>>

Finished == phase \in {"network", "unresolved"} /\ UNCHANGED vars

Next == End \/ Finished \/ \E op \in dialect.ops, kind \in {"bit", "1", "Q"} : Line(op, kind)

Spec == Init /\ [][Next]_vars

------------------------------------------------------------------------------
(* What the list computes, and what the network computes. *)

IsInput(l) == l.op \in Conditions /\ l.kind # "1"

\* One line on the boolean accumulator: on holds the lines whose operand is true.
Execute(s, n, on) ==
    LET l == program[n]
        value == l.kind = "1" \/ n \in on
    IN  CASE l.op = "LD" -> [s EXCEPT !.acc = value]
          [] l.op = "AND" -> [s EXCEPT !.acc = @ /\ value]
          [] l.op = "OR" -> [s EXCEPT !.acc = @ \/ value]
          [] l.op = "N" -> [s EXCEPT !.acc = ~@]
          [] l.op \in {"AND(", "OR("} ->
                [s EXCEPT !.parens = Append(@, <<s.acc, l.op>>), !.acc = value]
          [] l.op = ")" ->
                LET open == Last(s.parens)
                IN  [s EXCEPT !.parens = Front(@),
                              !.acc = IF open[2] = "AND(" THEN open[1] /\ @ ELSE open[1] \/ @]
          [] l.op = "MPS" -> [s EXCEPT !.branches = Append(@, s.acc)]
          [] l.op = "MRD" -> [s EXCEPT !.acc = Last(s.branches)]
          [] l.op = "MPP" -> [s EXCEPT !.acc = Last(s.branches), !.branches = Front(@)]
          [] l.op \in {"ST", "IN"} -> [s EXCEPT !.lit = IF s.acc THEN @ \cup {n} ELSE @]
          [] OTHER -> s

ListLit(on) ==
    FoldLeft(LAMBDA s, n : Execute(s, n, on),
             [acc |-> TRUE, parens |-> <<>>, branches |-> <<>>, lit |-> {}],
             [n \in DOMAIN program |-> n]).lit

\* Power through a series: what leaves it, and the sinks it energises.
RECURSIVE Flow(_, _, _)
Flow(series, power, on) ==
    IF series = <<>> THEN [out |-> power, lit |-> {}]
    ELSE LET e == Head(series)
             inner == IF e.op = "parallel"
                      THEN {Flow(e.branches[i], power, on) : i \in DOMAIN e.branches} ELSE {}
             through == CASE e.op = "parallel" -> \E f \in inner : f.out
                          [] e.op = "not" -> ~power
                          [] e.op = "sink" -> power
                          [] OTHER -> power /\ e.id \in on
             rest == Flow(Tail(series), through, on)
         IN  [out |-> rest.out,
              lit |-> rest.lit \cup UNION {f.lit : f \in inner}
                        \cup (IF e.op = "sink" /\ power THEN {e.id} ELSE {})]

\* The parentheses open before line n.
Open(n) ==
    FoldLeft(LAMBDA s, m : IF program[m].op \in {"AND(", "OR("} THEN Append(s, program[m].op)
                           ELSE IF program[m].op = ")" THEN Front(s) ELSE s,
             <<>>, [m \in 1..(n - 1) |-> m])

\* Every output and block pin of a converted list is energised by exactly the
\* operand states for which the list drives it, however branches, parentheses and
\* shared conditions were taken apart and joined.  Left out: an N between AND( and
\* its parenthesis, whose element the network marks as unsupported.
NetworkComputesList ==
    phase = "network" /\ (\A n \in DOMAIN program :
                             program[n].op = "N" => "AND(" \notin Range(Open(n))) =>
        \A on \in SUBSET {n \in DOMAIN program : IsInput(program[n])} :
            Flow(network, TRUE, on).lit = ListLit(on)
============================================================================
