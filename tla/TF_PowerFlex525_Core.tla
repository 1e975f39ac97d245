------------------------- MODULE TF_PowerFlex525_Core -------------------------
(***************************************************************************)
(* The structured-text function block that exporters.powerflex525_core     *)
(* emits for a PLC, executed beside the Python core it restates: every     *)
(* scan gives both the same input.  The block's timer is a DINT, its       *)
(* command word a number, its speed a REAL converted by REAL_TO_INT.       *)
(***************************************************************************)
EXTENDS PowerFlex525Core

CONSTANT DintMax   \* 2147483647 on a PLC; small for model checking

ASSUME DintMaxAssumption == DintMax \in Nat

VARIABLES
  RunFwd, RunRev, StartElapsedMs,   \* retained locals of the block
  Out_LogicCommand, SpeedRef, Out_SpeedCommand

block == <<RunFwd, RunRev, StartElapsedMs, Out_LogicCommand, SpeedRef, Out_SpeedCommand>>

BlockInit ==
  /\ Init
  /\ RunFwd = FALSE /\ RunRev = FALSE /\ StartElapsedMs = 0
  /\ Out_LogicCommand = 0 /\ SpeedRef = 0 /\ Out_SpeedCommand = 0

\* Inp_Source: the position of the owner in PowerFlexCommandSource.
SourceCode(s) ==
  CASE s = "none" -> 0 [] s = "program" -> 1 [] s = "operator" -> 2 [] s = "external" -> 3
    [] s = "override" -> 4 [] s = "maintenance" -> 5 [] s = "local" -> 6

\* The owner whose Inp_O..., Inp_X... or Inp_M... inputs branch 2, 3 or 5 reads.
BranchOwner(n) == CASE n = 2 -> "operator" [] n = 3 -> "external" [] n = 5 -> "maintenance"

\* DINT addition of two non-negative values wraps around.
DintAdd(a, b) == IF a + b > DintMax THEN a + b - 2 * (DintMax + 1) ELSE a + b

Out_PermOK(in) == (in.permissive \/ in.bypass) /\ in.nb_permissive
Out_IntlkOK(in) == (in.interlock \/ in.bypass) /\ in.nb_interlock

(***************************************************************************)
(* IF Inp_Source = 1 ... ELSIF ... END_IF: what each branch assigns to     *)
(* RunFwd (d = "forward") and to RunRev (d = "reverse").                   *)
(***************************************************************************)
Held(d) == IF d = "forward" THEN RunFwd ELSE RunRev

ProgramBranch(in, d, c) ==
  c.run[d] /\ (Out_PermOK(in) \/ Held(d)) /\ Out_IntlkOK(in) /\ ~c.stop

\* Mutant: the latch branch forgets to exclude the opposite command.
LatchBranchBoth(in, d, c) ==
  /\ Held(d) \/ (c.run[d] /\ in.run_available[d] /\ Out_PermOK(in))
  /\ Out_IntlkOK(in) /\ ~c.stop

LatchBranch(in, d, c) ==
  /\ Held(d) \/ (c.run[d] /\ in.run_available[d] /\ Out_PermOK(in) /\ ~c.run[Opposite(d)])
  /\ Out_IntlkOK(in) /\ ~c.stop

OverrideBranch(in, d) ==
  IF in.override_command = 1 \/ ~Out_IntlkOK(in) THEN FALSE
  ELSE IF in.override_command = 2 /\ Out_PermOK(in) THEN d = "forward"
  ELSE IF in.override_command = 3 /\ Out_PermOK(in) THEN d = "reverse"
  ELSE Held(d)

RunBranch(in, d) ==
  LET n == SourceCode(in.source)
  IN  \/ n = 1 /\ ProgramBranch(in, d, in.commands["program"])
      \/ n \in {2, 3, 5} /\ LatchBranch(in, d, in.commands[BranchOwner(n)])
      \/ n = 4 /\ OverrideBranch(in, d)

Out_RefSpeed(in) ==
  LET n == SourceCode(in.source)
  IN  IF n = 1 THEN (IF in.program_override THEN in.program_override_speed
                     ELSE in.commands["program"].speed)
      ELSE IF n \in {2, 3, 5} THEN in.commands[BranchOwner(n)].speed
      ELSE IF n = 4 THEN in.override_speed ELSE 0

\* Out_JogFwd and Out_JogRev: any owner's branch, gated, or the program's, ungated.
JogBranch(in, d) ==
  LET n == SourceCode(in.source)
      On(o) == in.commands[o].jog[d] /\ ~in.commands[o].jog[Opposite(d)]
  IN  \/ /\ in.jog_available[d] /\ Out_PermOK(in)
         /\ \E m \in {2, 3, 5} : n = m /\ On(BranchOwner(m))
      \/ n = 1 /\ On("program")

Weight(condition, w) == IF condition THEN w ELSE 0

\* External: IEC 61131-3 REAL_TO_INT rounds to the nearest integer.
REAL_TO_INT(x) == (x + 5) \div 10

\* IF SpeedRef < 0.0 ... ELSIF SpeedRef > Inp_MaxSpeed ... END_IF
Clamp(speed, in) ==
  IF speed < 0 THEN 0 ELSE IF speed > in.maximum_speed THEN in.maximum_speed ELSE speed

Timer(requested, in) ==
  LET t == DintAdd(StartElapsedMs, in.elapsed)
  IN  IF ~requested THEN 0 ELSE IF t >= in.start_delay THEN in.start_delay ELSE t

TimerDone(requested, in) == requested /\ DintAdd(StartElapsedMs, in.elapsed) >= in.start_delay

\* StopCmd, StartCmd, JogCmd and ResetCmd, and the number they are packed into.
CommandWord(fwd, rev, jogFwd, jogRev, done, in) ==
  LET running == fwd \/ rev
      jogging == jogFwd \/ jogRev
      StopCmd == in.active /\ in.ethernet /\ ~(in.keypad_status \/ running \/ jogging)
      StartCmd == in.ready /\ done /\ ~StopCmd /\ (running \/ jogging)
      JogCmd == in.ready /\ ~(StopCmd \/ running) /\ jogging
      ResetCmd == \E o \in Owners : in.commands[o].reset
  IN  Weight(StopCmd, 1) + Weight(StartCmd, 2) + Weight(JogCmd, 4) + Weight(ResetCmd, 8)
        + Weight(fwd \/ jogFwd, 16) + Weight(rev \/ jogRev, 32) + Weight(in.keypad_command, 64)

Execute(in) ==
  LET fwd == RunBranch(in, "forward")
      rev == RunBranch(in, "reverse")
      jogFwd == JogBranch(in, "forward")
      jogRev == JogBranch(in, "reverse")
      done == TimerDone(fwd \/ rev, in)
  IN  /\ RunFwd' = fwd
      /\ RunRev' = rev
      /\ StartElapsedMs' = Timer(fwd \/ rev, in)
      /\ Out_LogicCommand' = CommandWord(fwd, rev, jogFwd, jogRev, done, in)
      /\ SpeedRef' = Clamp(IF jogFwd \/ jogRev THEN in.jog_speed ELSE Out_RefSpeed(in), in)
      /\ Out_SpeedCommand' = REAL_TO_INT(SpeedRef')

BlockNext == \E in \in Inputs : scan(in) /\ Execute(in)

BlockSpec == BlockInit /\ [][BlockNext]_<<vars, block>>

------------------------------------------------------------------------------
(* Correctness *)

\* The number a set of command bits stands for.
Word(S) ==
  Weight("stop" \in S, 1) + Weight("start" \in S, 2) + Weight("jog" \in S, 4)
    + Weight("clear_fault" \in S, 8) + Weight("forward" \in S, 16)
    + Weight("reverse" \in S, 32) + Weight("keypad_control" \in S, 64)

\* The emitted block never drifts from the Python core: after any sequence of scans
\* both hold the same latches and timer and issue the same command word.
BlockFollowsCore ==
  /\ RunFwd = run["forward"] /\ RunRev = run["reverse"]
  /\ StartElapsedMs = start_elapsed
  /\ Out_LogicCommand = Word(logic_command)

\* "Logix assignment from REAL to INT truncates toward zero.": the block's speed
\* command is the one the core computes.
SpeedCommandsAgree == Out_SpeedCommand = speed_command
==============================================================================
