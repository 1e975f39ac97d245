--------------------------- MODULE PowerFlex525Proofs ---------------------------
(***************************************************************************)
(* TLAPS proofs about the drive core and the function block emitted from   *)
(* it, for every input a scan may be given.                                *)
(***************************************************************************)
EXTENDS TF_PowerFlex525_Core, TLAPS

\* The timer never runs ahead of the time a run has really been requested.
TimerBehindRequest ==
  /\ Running(run) => start_elapsed <= heldFor
  /\ ~Running(run) => start_elapsed = 0

\* The last start was given with the interlocks healthy.
StartWasInterlocked == "start" \in logic_command => seen.interlocks

IInv == TypeOK /\ TimerBehindRequest /\ StartDelayHonoured /\ StartWasInterlocked

-----------------------------------------------------------------------------
LEMMA InputFields ==
  ASSUME NEW in \in Inputs
  PROVE  /\ in \in Input
         /\ in.start_delay \in 0 .. MaxHeld /\ in.elapsed \in Nat /\ in.maximum_speed \in Int
         /\ permissives_ok(in) \in BOOLEAN /\ interlocks_ok(in) \in BOOLEAN
  BY InputsAssumption, MaxHeldAssumption DEF Input, permissives_ok, interlocks_ok

LEMMA Runs ==
  ASSUME NEW in \in Inputs, run \in [Directions -> BOOLEAN]
  PROVE  _apply_source_commands(in) \in [Directions -> BOOLEAN]
  BY DEF _apply_source_commands

LEMMA SpeedIsInteger ==
  ASSUME NEW in \in Inputs, NEW j
  PROVE  _speed_command(SpeedReference(j, in), in) \in Int
  <1>1. in \in Input /\ in.maximum_speed \in Int
    BY InputFields
  <1>2. reference_speed(in) \in Int
    <2>1. \A o \in Owners : in.commands[o].speed \in Int
      BY <1>1 DEF Input, Commands
    <2>2. in.program_override_speed \in Int /\ in.override_speed \in Int
      BY <1>1 DEF Input
    <2> QED
      BY <2>1, <2>2 DEF reference_speed, Owners
  <1>3. SpeedReference(j, in) \in Int
    BY <1>1, <1>2 DEF SpeedReference, Input
  <1>4. Bounded(SpeedReference(j, in), in) \in Int
    BY <1>1, <1>3 DEF Bounded, AtMost, AtLeast
  <1>5. \A x \in Int : Truncated(x) \in Int
    BY DEF Truncated
  <1> QED
    BY <1>4, <1>5 DEF _speed_command

LEMMA LogicBits ==
  ASSUME NEW in, NEW r, NEW j, NEW e
  PROVE  _logic_command(r, j, e, in) \subseteq Bits
  BY DEF _logic_command, Bits

\* A start bit means a requested run whose timer has reached the delay.
LEMMA StartMeansDone ==
  ASSUME NEW in, NEW r, NEW j, NEW e, "start" \in _logic_command(r, j, e, in)
  PROVE  Running(r) /\ e >= in.start_delay
  BY DEF _logic_command, Directions

\* Whoever owns the commands: a run needs the interlocks, and a new one the permissives.
LEMMA RunsGated ==
  ASSUME NEW in, NEW d \in Directions, _apply_source_commands(in)[d]
  PROVE  interlocks_ok(in) /\ (run[d] \/ permissives_ok(in))
  BY DEF _apply_source_commands, ProgramRun, LatchedRun, OverrideRun

LEMMA InitIInv == Init => IInv
  BY MaxHeldAssumption DEF Init, IInv, TypeOK, TimerBehindRequest, StartDelayHonoured, Running,
     Idle, Directions, Bits, StartWasInterlocked

LEMMA ScanStep ==
  ASSUME IInv, NEW in \in Inputs, scan(in)
  PROVE  IInv'
  <1> USE InputFields
  <1>1. TypeOK
    BY DEF IInv
  <1>2. run' \in [Directions -> BOOLEAN]
    BY <1>1, Runs DEF TypeOK, scan
  <1>3. start_elapsed' = IF Running(run') THEN AtMost(in.start_delay, start_elapsed + in.elapsed) ELSE 0
    BY DEF scan, _update_start_timer
  <1>4. heldFor' = IF ~Running(run') THEN 0
                   ELSE AtMost(MaxHeld, (IF Running(run) THEN heldFor ELSE 0) + in.elapsed)
    BY DEF scan
  <1>5. start_elapsed \in 0 .. MaxHeld /\ heldFor \in 0 .. MaxHeld /\ MaxHeld \in Nat
    BY <1>1, MaxHeldAssumption DEF TypeOK
  <1>6. start_elapsed' \in 0 .. MaxHeld /\ heldFor' \in 0 .. MaxHeld
    BY <1>3, <1>4, <1>5 DEF AtMost
  <1>7. seen' = [delay |-> in.start_delay, permissives |-> permissives_ok(in),
                 interlocks |-> interlocks_ok(in)]
    BY DEF scan
  <1>8. logic_command' \subseteq Bits /\ speed_command' \in Int
    BY LogicBits, SpeedIsInteger DEF scan
  <1>9. TypeOK'
    BY <1>2, <1>6, <1>7, <1>8 DEF TypeOK
  <1>10. start_elapsed <= (IF Running(run) THEN heldFor ELSE 0)
    BY <1>5 DEF IInv, TimerBehindRequest
  <1>11. TimerBehindRequest'
    <2>1. Running(run') => start_elapsed' <= heldFor'
      BY <1>3, <1>4, <1>5, <1>10 DEF AtMost
    <2> QED
      BY <2>1, <1>3 DEF TimerBehindRequest, Running
  <1>12. StartDelayHonoured'
    <2> SUFFICES ASSUME "start" \in logic_command'
                 PROVE  heldFor' >= in.start_delay
      BY <1>7 DEF StartDelayHonoured
    <2>1. Running(run') /\ start_elapsed' >= in.start_delay
      BY StartMeansDone DEF scan
    <2>2. start_elapsed' <= heldFor'
      BY <1>11, <2>1 DEF TimerBehindRequest, Running
    <2> QED
      BY <1>6, <2>1, <2>2
  <1>13. StartWasInterlocked'
    <2> SUFFICES ASSUME "start" \in logic_command' PROVE interlocks_ok(in)
      BY <1>7 DEF StartWasInterlocked
    <2>1. Running(run')
      BY StartMeansDone DEF scan
    <2> QED
      BY <2>1, RunsGated DEF scan, Running
  <1> QED
    BY <1>9, <1>11, <1>12, <1>13 DEF IInv

LEMMA NextIInv == IInv /\ [Next]_vars => IInv'
  <1> SUFFICES ASSUME IInv, [Next]_vars PROVE IInv'
    OBVIOUS
  <1>1. CASE UNCHANGED vars
    BY <1>1 DEF vars, IInv, TypeOK, TimerBehindRequest, Running, StartDelayHonoured,
       StartWasInterlocked
  <1>2. CASE reset
    BY <1>2, MaxHeldAssumption DEF reset, IInv, TypeOK, TimerBehindRequest, Running, Idle,
       Directions, StartDelayHonoured, StartWasInterlocked
  <1> QED
    BY <1>1, <1>2, ScanStep DEF Next, prescan

-----------------------------------------------------------------------------
(* The properties of the core *)

\* The latches, the timer and the outputs keep their types.
THEOREM TypeCorrect == Spec => []TypeOK
  <1>1. IInv => TypeOK
    BY DEF IInv
  <1> QED
    BY InitIInv, NextIInv, <1>1, PTL DEF Spec

\* No start before a run was requested for the whole, possibly changing, delay.
THEOREM DelayHonoured == Spec => []StartDelayHonoured
  <1>1. IInv => StartDelayHonoured
    BY DEF IInv
  <1> QED
    BY InitIInv, NextIInv, <1>1, PTL DEF Spec

\* No owner starts a run without permissives, or runs or starts against the interlocks.
THEOREM RunsPermitted == Spec => RunsArePermitted
  <1> DEFINE Permitted ==
        /\ \A d \in Directions : run'[d] => seen'.interlocks /\ (run[d] \/ seen'.permissives)
        /\ "start" \in logic_command' => seen'.interlocks
  <1>1. IInv /\ [Next]_vars => [Permitted]_vars
    <2> SUFFICES ASSUME IInv, Next, IInv' PROVE Permitted \/ UNCHANGED vars
      BY NextIInv
    <2>1. "start" \in logic_command' => seen'.interlocks
      BY DEF IInv, StartWasInterlocked
    <2>2. CASE reset
      BY <2>1, <2>2 DEF reset, Idle
    <2>3. ASSUME NEW in \in Inputs, scan(in) PROVE Permitted
      BY <2>1, <2>3, RunsGated DEF scan
    <2> QED
      BY <2>2, <2>3 DEF Next, prescan
  <1> QED
    BY InitIInv, NextIInv, <1>1, PTL DEF Spec, RunsArePermitted

\* Stop, start and jog exclude one another, and a stop carries no direction.
THEOREM OneCommand == Spec => []OneMotionCommand
  <1>1. Init => OneMotionCommand
    BY DEF Init, OneMotionCommand
  <1>2. OneMotionCommand /\ [Next]_vars => OneMotionCommand'
    <2> SUFFICES ASSUME OneMotionCommand, [Next]_vars PROVE OneMotionCommand'
      OBVIOUS
    <2>1. CASE UNCHANGED logic_command
      BY <2>1 DEF OneMotionCommand
    <2>2. ASSUME NEW in \in Inputs, scan(in) PROVE OneMotionCommand'
      <3> DEFINE j == _jog_commands(in)
      <3>1. logic_command' = _logic_command(run', j, start_elapsed', in)
        BY <2>2 DEF scan
      <3>2. "stop" \in logic_command' => ~Running(run') /\ ~Running(j)
        BY <3>1 DEF _logic_command, Directions
      <3>3. /\ "start" \in logic_command' => Running(run')
            /\ "jog" \in logic_command' => Running(j) /\ ~Running(run')
        BY <3>1 DEF _logic_command, Directions
      <3>4. \A d \in Directions : d \in logic_command' => Running(run') \/ Running(j)
        BY <3>1 DEF _logic_command, Directions, Running
      <3> QED
        BY <3>2, <3>3, <3>4 DEF OneMotionCommand
    <2> QED
      BY <2>1, <2>2 DEF Next, prescan, reset, vars
  <1> QED
    BY <1>1, <1>2, PTL DEF Spec

-----------------------------------------------------------------------------
(* The block follows the core *)

\* A latch agrees after the branches when it agreed before.
LEMMA BranchesFollow ==
  ASSUME NEW in \in Inputs, NEW d \in Directions, run \in [Directions -> BOOLEAN],
         Held(d) = run[d]
  PROVE  RunBranch(in, d) <=> _apply_source_commands(in)[d]
  <1>1. in.source \in Sources
    BY InputFields DEF Input
  <1>2. /\ Out_PermOK(in) = permissives_ok(in)
        /\ Out_IntlkOK(in) = interlocks_ok(in)
    BY DEF Out_PermOK, permissives_ok, Out_IntlkOK, interlocks_ok
  <1>3. CASE in.source = "program"
    BY <1>2, <1>3 DEF RunBranch, SourceCode, ProgramBranch, _apply_source_commands, ProgramRun,
       Latching
  <1>4. CASE in.source \in Latching
    <2>1. SourceCode(in.source) \in {2, 3, 5} /\ BranchOwner(SourceCode(in.source)) = in.source
      BY <1>4 DEF Latching, SourceCode, BranchOwner
    <2>2. in.source \notin {"program", "override"}
      BY <1>4 DEF Latching
    <2>3. RunBranch(in, d) <=> LatchBranch(in, d, in.commands[in.source])
      BY <2>1 DEF RunBranch, LatchBranch
    <2>4. _apply_source_commands(in)[d] <=> LatchedRun(d, run[d], in)
      BY <1>4, <2>2 DEF _apply_source_commands, LatchedRun
    <2> QED
      BY <1>2, <2>3, <2>4 DEF LatchBranch, LatchedRun
  <1>5. CASE in.source = "override"
    <2>1. RunBranch(in, d) <=> OverrideBranch(in, d)
      BY <1>5 DEF RunBranch, SourceCode, OverrideBranch
    <2>2. _apply_source_commands(in)[d] <=> OverrideRun(d, run[d], in)
      BY <1>5 DEF _apply_source_commands, OverrideRun, Latching
    <2>3. d = "forward" \/ d = "reverse"
      BY DEF Directions
    <2> QED
      BY <1>2, <2>1, <2>2, <2>3 DEF OverrideBranch, OverrideRun
  <1>6. CASE in.source \in {"none", "local"}
    BY <1>6 DEF RunBranch, SourceCode, _apply_source_commands, Latching
  <1> QED
    BY <1>1, <1>3, <1>4, <1>5, <1>6 DEF Sources, Owners

LEMMA JogsFollow ==
  ASSUME NEW in \in Inputs, NEW d \in Directions
  PROVE  JogBranch(in, d) = _jog_commands(in)[d]
  <1>1. in.source \in Sources
    BY InputFields DEF Input
  <1>2. Out_PermOK(in) = permissives_ok(in)
    BY DEF Out_PermOK, permissives_ok
  <1>3. \A m \in {2, 3, 5} : SourceCode(in.source) = m => in.source = BranchOwner(m)
    BY <1>1 DEF SourceCode, BranchOwner, Sources, Owners, Latching
  <1>4. in.source \in Latching => \E m \in {2, 3, 5} : SourceCode(in.source) = m
    BY DEF SourceCode, Latching
  <1>5. \A m \in {2, 3, 5} : BranchOwner(m) \in Latching
    BY DEF BranchOwner, Latching
  <1>6. SourceCode(in.source) = 1 <=> in.source = "program"
    BY <1>1 DEF SourceCode, Sources, Owners, Latching
  <1> QED
    BY <1>2, <1>3, <1>4, <1>5, <1>6 DEF JogBranch, _jog_commands

\* The DINT sum does not wrap, so the block's timer is the core's.
LEMMA TimersFollow ==
  ASSUME NEW in \in Inputs, NEW requested \in BOOLEAN,
         MaxHeld + in.elapsed <= DintMax,
         StartElapsedMs = start_elapsed, start_elapsed \in 0 .. MaxHeld
  PROVE  /\ Timer(requested, in) = _update_start_timer(requested, in)
         /\ TimerDone(requested, in)
              <=> requested /\ _update_start_timer(requested, in) >= in.start_delay
  <1>1. in.elapsed \in Nat /\ in.start_delay \in Nat /\ MaxHeld \in Nat /\ DintMax \in Nat
    BY InputFields, MaxHeldAssumption, DintMaxAssumption
  <1>2. DintAdd(StartElapsedMs, in.elapsed) = start_elapsed + in.elapsed
    BY <1>1 DEF DintAdd
  <1> QED
    BY <1>1, <1>2 DEF Timer, TimerDone, _update_start_timer, AtMost

LEMMA WordFollows ==
  ASSUME NEW in \in Inputs, NEW r \in [Directions -> BOOLEAN], NEW j \in [Directions -> BOOLEAN],
         NEW e, NEW fwd, NEW rev, NEW jogFwd, NEW jogRev, NEW done,
         fwd <=> r["forward"], rev <=> r["reverse"],
         jogFwd <=> j["forward"], jogRev <=> j["reverse"],
         done <=> Running(r) /\ e >= in.start_delay
  PROVE  CommandWord(fwd, rev, jogFwd, jogRev, done, in) = Word(_logic_command(r, j, e, in))
  <1> DEFINE L == _logic_command(r, j, e, in)
  <1> DEFINE running == fwd \/ rev
  <1> DEFINE jogging == jogFwd \/ jogRev
  <1> DEFINE StopCmd == in.active /\ in.ethernet /\ ~(in.keypad_status \/ running \/ jogging)
  <1>1. /\ Running(r) <=> running
        /\ Running(j) <=> jogging
    BY DEF Running, Directions
  <1>2. /\ "stop" \in L <=> StopCmd
        /\ "start" \in L <=> in.ready /\ done /\ ~StopCmd /\ (running \/ jogging)
        /\ "jog" \in L <=> in.ready /\ ~(StopCmd \/ running) /\ jogging
        /\ "clear_fault" \in L <=> \E o \in Owners : in.commands[o].reset
        /\ "forward" \in L <=> fwd \/ jogFwd
        /\ "reverse" \in L <=> rev \/ jogRev
        /\ "keypad_control" \in L <=> in.keypad_command
    BY <1>1 DEF _logic_command, Directions
  <1> QED
    BY <1>2 DEF CommandWord, Word, Weight

LEMMA BlockInitFollows == BlockInit => IInv /\ BlockFollowsCore
  <1>1. Word({}) = 0
    BY DEF Word, Weight
  <1> QED
    BY <1>1, InitIInv DEF BlockInit, Init, Idle, Directions, BlockFollowsCore

LEMMA BlockStepFollows ==
  ASSUME \A in \in Inputs : MaxHeld + in.elapsed <= DintMax,
         IInv, BlockFollowsCore, NEW in \in Inputs, scan(in), Execute(in)
  PROVE  BlockFollowsCore'
  <1> DEFINE j == _jog_commands(in)
  <1> DEFINE fwd == RunBranch(in, "forward")
  <1> DEFINE rev == RunBranch(in, "reverse")
  <1> DEFINE running == run'["forward"] \/ run'["reverse"]
  <1>1. run \in [Directions -> BOOLEAN] /\ start_elapsed \in 0 .. MaxHeld
    BY DEF IInv, TypeOK
  <1>2. run' = _apply_source_commands(in) /\ run' \in [Directions -> BOOLEAN]
    BY <1>1, Runs DEF scan
  <1>3. fwd = run'["forward"] /\ rev = run'["reverse"]
    <2>1. Held("forward") = run["forward"] /\ Held("reverse") = run["reverse"]
      BY DEF BlockFollowsCore, Held
    <2>2. (fwd <=> run'["forward"]) /\ (rev <=> run'["reverse"])
      BY <1>1, <1>2, <2>1, BranchesFollow DEF Directions
    <2>3. fwd \in BOOLEAN /\ rev \in BOOLEAN
      BY DEF RunBranch
    <2> HIDE DEF fwd, rev
    <2> QED
      BY <1>2, <2>2, <2>3 DEF Directions
  <1>4. /\ JogBranch(in, "forward") = j["forward"]
        /\ JogBranch(in, "reverse") = j["reverse"]
    BY JogsFollow DEF Directions
  <1>5. j \in [Directions -> BOOLEAN]
    BY DEF _jog_commands
  <1>6. Running(run') = running /\ running \in BOOLEAN
    BY <1>2 DEF Running, Directions
  <1>7. /\ Timer(running, in) = start_elapsed'
        /\ TimerDone(running, in) <=> Running(run') /\ start_elapsed' >= in.start_delay
    BY <1>1, <1>6, TimersFollow DEF BlockFollowsCore, scan
  <1>8. RunFwd' = run'["forward"] /\ RunRev' = run'["reverse"] /\ StartElapsedMs' = start_elapsed'
    BY <1>3, <1>7 DEF Execute
  <1>9. Out_LogicCommand' = Word(logic_command')
    <2>1. logic_command' = _logic_command(run', j, start_elapsed', in)
      BY DEF scan
    <2>2. TimerDone(fwd \/ rev, in) <=> Running(run') /\ start_elapsed' >= in.start_delay
      BY <1>3, <1>7
    <2>3. (fwd <=> run'["forward"]) /\ (rev <=> run'["reverse"])
      BY <1>3
    <2>4. (JogBranch(in, "forward") <=> j["forward"]) /\ (JogBranch(in, "reverse") <=> j["reverse"])
      BY <1>4
    <2>5. CommandWord(fwd, rev, JogBranch(in, "forward"), JogBranch(in, "reverse"),
                      TimerDone(fwd \/ rev, in), in) = Word(logic_command')
      <3> HIDE DEF fwd, rev, j
      <3> QED
        BY <1>2, <1>5, <2>1, <2>2, <2>3, <2>4, WordFollows
    <2> QED
      BY <2>5 DEF Execute
  <1> QED
    BY <1>8, <1>9 DEF BlockFollowsCore

\* As long as the DINT sum of the timer cannot overflow, the emitted block and the
\* Python core stay in step for ever, whatever inputs their scans are given.
THEOREM BlockFollows ==
  ASSUME \A in \in Inputs : MaxHeld + in.elapsed <= DintMax
  PROVE  BlockSpec => []BlockFollowsCore
  <1>1. IInv /\ BlockFollowsCore /\ [BlockNext]_<<vars, block>> => (IInv /\ BlockFollowsCore)'
    <2> SUFFICES ASSUME IInv, BlockFollowsCore, [BlockNext]_<<vars, block>>
                 PROVE  IInv' /\ BlockFollowsCore'
      OBVIOUS
    <2>1. CASE UNCHANGED <<vars, block>>
      BY <2>1, NextIInv DEF vars, block, BlockFollowsCore
    <2>2. ASSUME NEW in \in Inputs, scan(in), Execute(in) PROVE IInv' /\ BlockFollowsCore'
      BY <2>2, ScanStep, BlockStepFollows
    <2> QED
      BY <2>1, <2>2 DEF BlockNext
  <1> QED
    BY BlockInitFollows, <1>1, PTL DEF BlockSpec
=============================================================================
