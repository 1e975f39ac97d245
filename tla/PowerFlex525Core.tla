--------------------------- MODULE PowerFlex525Core ---------------------------
(***************************************************************************)
(* runtime.powerflex525_core.PowerFlex525Core: the scan logic of a drive   *)
(* function block.  One scan arbitrates the command owners, latches the    *)
(* two run directions, times the start delay and builds the command word,  *)
(* a set of bits.  Each pair of forward/reverse fields is a function on    *)
(* Directions.  override_command is set and cleared within one scan, so it *)
(* is not state.  Speeds are integers, in thousandths of a hertz, without  *)
(* the rounding of floats.  The derived status outputs (starting, stopping *)
(* and the like) are left out.                                             *)
(***************************************************************************)
EXTENDS Integers

CONSTANTS
  Inputs,    \* bound: the inputs that scans are given
  MaxHeld    \* bound: how far the history variable heldFor counts

Directions == {"forward", "reverse"}
Opposite(d) == IF d = "forward" THEN "reverse" ELSE "forward"

\* The owners whose run commands latch, selected through _selected_commands.
Latching == {"operator", "external", "maintenance"}
Owners == Latching \cup {"program"}
Sources == Owners \cup {"none", "override", "local"}

Commands == [run : [Directions -> BOOLEAN], jog : [Directions -> BOOLEAN],
             stop : BOOLEAN, reset : BOOLEAN, speed : Int]

Input == [source : Sources, commands : [Owners -> Commands],
          override_command : Int, override_speed : Int,
          program_override : BOOLEAN, program_override_speed : Int,
          permissive : BOOLEAN, nb_permissive : BOOLEAN,
          interlock : BOOLEAN, nb_interlock : BOOLEAN, bypass : BOOLEAN,
          run_available : [Directions -> BOOLEAN], jog_available : [Directions -> BOOLEAN],
          ready : BOOLEAN, active : BOOLEAN, ethernet : BOOLEAN,
          keypad_status : BOOLEAN, keypad_command : BOOLEAN,
          maximum_speed : Int, jog_speed : Int, start_delay : Nat, elapsed : Nat]

ASSUME InputsAssumption == Inputs \subseteq Input
ASSUME MaxHeldAssumption == MaxHeld \in Nat /\ \A in \in Inputs : in.start_delay <= MaxHeld

VARIABLES
  run,            \* PowerFlexCoreState.run_forward and run_reverse
  start_elapsed,  \* PowerFlexCoreState.start_elapsed_ms
  logic_command,  \* the bits of the last output's logic_command
  speed_command,  \* the last output's speed_command
  heldFor,        \* history: scan time for which a run had been requested
  seen            \* history: delay, permissives and interlocks of the last scan

vars == <<run, start_elapsed, logic_command, speed_command, heldFor, seen>>

AtMost(a, b) == IF a <= b THEN a ELSE b
AtLeast(a, b) == IF a >= b THEN a ELSE b

Running(r) == \E d \in Directions : r[d]
Idle == [d \in Directions |-> FALSE]

Init ==
  /\ run = Idle /\ start_elapsed = 0
  /\ logic_command = {} /\ speed_command = 0
  /\ heldFor = 0 /\ seen = [delay |-> 0, permissives |-> TRUE, interlocks |-> TRUE]

permissives_ok(in) == (in.permissive \/ in.bypass) /\ in.nb_permissive
interlocks_ok(in) == (in.interlock \/ in.bypass) /\ in.nb_interlock

(***************************************************************************)
(* _apply_source_commands: what becomes of the run latch of one direction. *)
(***************************************************************************)
\* Mutant: an override starts the drive whatever the interlocks say.
OverrideRunsAnyway(d, held, in) ==
  LET Code == IF d = "forward" THEN 2 ELSE 3
      Other == IF d = "forward" THEN 3 ELSE 2
  IN  \/ permissives_ok(in) /\ in.override_command = Code
      \/ /\ interlocks_ok(in) /\ in.override_command # 1
         /\ held /\ ~(permissives_ok(in) /\ in.override_command = Other)

ProgramRun(d, held, in) ==
  LET c == in.commands["program"]
  IN  c.run[d] /\ (permissives_ok(in) \/ held) /\ interlocks_ok(in) /\ ~c.stop

LatchedRun(d, held, in) ==
  LET c == in.commands[in.source]
  IN  /\ \/ held
         \/ c.run[d] /\ in.run_available[d] /\ permissives_ok(in) /\ ~c.run[Opposite(d)]
      /\ interlocks_ok(in)
      /\ ~c.stop

OverrideRun(d, held, in) ==
  LET Code == IF d = "forward" THEN 2 ELSE 3
      Other == IF d = "forward" THEN 3 ELSE 2
  IN  /\ in.override_command # 1 /\ interlocks_ok(in)
      /\ \/ in.override_command = Code /\ permissives_ok(in)
         \/ held /\ ~(in.override_command = Other /\ permissives_ok(in))

_apply_source_commands(in) ==
  [d \in Directions |->
     \/ in.source = "program" /\ ProgramRun(d, run[d], in)
     \/ in.source \in Latching /\ LatchedRun(d, run[d], in)
     \/ in.source = "override" /\ OverrideRun(d, run[d], in)]

\* The selected speed reference, 0 for no owner and for local control.
reference_speed(in) ==
  CASE in.source = "program" ->
         IF in.program_override THEN in.program_override_speed
         ELSE in.commands["program"].speed
    [] in.source \in Latching -> in.commands[in.source].speed
    [] in.source = "override" -> in.override_speed
    [] OTHER -> 0

_jog_commands(in) ==
  [d \in Directions |->
     \/ /\ in.source \in Latching
        /\ in.jog_available[d] /\ permissives_ok(in)
        /\ in.commands[in.source].jog[d] /\ ~in.commands[in.source].jog[Opposite(d)]
     \/ /\ in.source = "program"
        /\ in.commands["program"].jog[d] /\ ~in.commands["program"].jog[Opposite(d)]]

\* Mutant: the timer keeps its value while no run is requested.
TimerKept(requested, in) ==
  IF requested THEN AtMost(in.start_delay, start_elapsed + in.elapsed) ELSE start_elapsed

_update_start_timer(requested, in) ==
  IF requested THEN AtMost(in.start_delay, start_elapsed + in.elapsed) ELSE 0

\* The command word as _logic_command builds it; timer_done needs a requested run.
_logic_command(r, j, elapsed, in) ==
  LET running == Running(r)
      jogging == Running(j)
      timer_done == running /\ elapsed >= in.start_delay
      stop == in.active /\ in.ethernet /\ ~(in.keypad_status \/ running \/ jogging)
  IN  (IF stop THEN {"stop"} ELSE {})
      \cup (IF in.ready /\ timer_done /\ ~stop /\ (running \/ jogging) THEN {"start"} ELSE {})
      \cup (IF in.ready /\ ~(stop \/ running) /\ jogging THEN {"jog"} ELSE {})
      \cup (IF \E o \in Owners : in.commands[o].reset THEN {"clear_fault"} ELSE {})
      \cup {d \in Directions : r[d] \/ j[d]}
      \cup (IF in.keypad_command THEN {"keypad_control"} ELSE {})

SpeedReference(j, in) ==
  IF Running(j) THEN in.jog_speed ELSE reference_speed(in)

Bounded(speed, in) == AtMost(AtLeast(speed, 0), in.maximum_speed)

\* int() truncates toward zero: thousandths to hundredths of a hertz.
Truncated(x) == IF x >= 0 THEN x \div 10 ELSE -((-x) \div 10)

_speed_command(speed, in) == Truncated(Bounded(speed, in))

scan(in) ==
  LET j == _jog_commands(in)
      requested == Running(run')
  IN  /\ run' = _apply_source_commands(in)
      /\ start_elapsed' = _update_start_timer(requested, in)
      /\ logic_command' = _logic_command(run', j, start_elapsed', in)
      /\ speed_command' = _speed_command(SpeedReference(j, in), in)
      /\ heldFor' = IF ~requested THEN 0
                    ELSE AtMost(MaxHeld, (IF Running(run) THEN heldFor ELSE 0) + in.elapsed)
      /\ seen' = [delay |-> in.start_delay, permissives |-> permissives_ok(in),
                  interlocks |-> interlocks_ok(in)]

\* prescan() leaves the retained state and the last output alone.
prescan == UNCHANGED vars

\* PowerFlexCoreState.reset(), at a target's discretion.
reset ==
  /\ run' = Idle /\ start_elapsed' = 0
  /\ UNCHANGED <<logic_command, speed_command, heldFor, seen>>

Next == (\E in \in Inputs : scan(in)) \/ prescan \/ reset

Spec == Init /\ [][Next]_vars

------------------------------------------------------------------------------
(* Correctness *)

Bits == {"stop", "start", "jog", "clear_fault", "keypad_control"} \cup Directions

\* The latches, the timer and the last output have their types.
TypeOK ==
  /\ run \in [Directions -> BOOLEAN]
  /\ start_elapsed \in 0 .. MaxHeld /\ heldFor \in 0 .. MaxHeld
  /\ logic_command \subseteq Bits /\ speed_command \in Int
  /\ seen \in [delay : 0 .. MaxHeld, permissives : BOOLEAN, interlocks : BOOLEAN]

\* The drive is never told to start before a run has been requested for the whole
\* start delay, although the delay may change from scan to scan, the owner and the
\* direction may change under a continuous request, and prescans intervene.
StartDelayHonoured == "start" \in logic_command => heldFor >= seen.delay

\* Whoever owns the commands, no run begins without permissives, and none begins,
\* continues or is told to start against the interlocks.
RunsArePermitted ==
  [][/\ \A d \in Directions : run'[d] => seen'.interlocks /\ (run[d] \/ seen'.permissives)
     /\ "start" \in logic_command' => seen'.interlocks]_vars

\* The command word never asks for two of stop, start and jog at once, and a stop
\* never comes with a direction.
OneMotionCommand ==
  /\ \A b, c \in {"stop", "start", "jog"} : {b, c} \subseteq logic_command => b = c
  /\ "stop" \in logic_command => logic_command \cap Directions = {}
==============================================================================
