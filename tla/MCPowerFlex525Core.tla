------------------------- MODULE MCPowerFlex525Core -------------------------
(* TLC instance of PowerFlex525Core. *)
EXTENDS PowerFlex525Core

Pairs == [Directions -> BOOLEAN]
Both == [d \in Directions |-> TRUE]

Quiet == [run |-> Idle, jog |-> Idle, stop |-> FALSE, reset |-> FALSE, speed |-> 0]

\* A healthy drive, no owner, everything available, no delay.
Healthy ==
  [source |-> "none", commands |-> [o \in Owners |-> Quiet],
   override_command |-> 0, override_speed |-> 25,
   program_override |-> FALSE, program_override_speed |-> 15,
   permissive |-> TRUE, nb_permissive |-> TRUE, interlock |-> TRUE, nb_interlock |-> TRUE,
   bypass |-> FALSE, run_available |-> Both, jog_available |-> Both,
   ready |-> TRUE, active |-> FALSE, ethernet |-> TRUE,
   keypad_status |-> FALSE, keypad_command |-> FALSE,
   maximum_speed |-> 60, jog_speed |-> 20, start_delay |-> 0, elapsed |-> 1]

With(in, o, c) == [in EXCEPT !.source = o, !.commands[o] = c]

\* Every owner with every pair of run commands, with and without stop.
Arbitration ==
  {With(Healthy, o, [Quiet EXCEPT !.run = r, !.stop = s, !.speed = v]) :
     o \in Owners, r \in Pairs, s \in BOOLEAN, v \in {-30, 40, 90}}
  \cup {[Healthy EXCEPT !.source = s, !.override_command = n] :
          s \in {"none", "local", "override"}, n \in 0 .. 3}

\* The same commands against permissives, interlocks, bypass and availability.
Gates ==
  UNION {{[in EXCEPT !.permissive = a, !.nb_permissive = b, !.interlock = c, !.nb_interlock = e,
                     !.bypass = f, !.run_available = g] :
            a \in BOOLEAN, b \in BOOLEAN, c \in BOOLEAN, e \in BOOLEAN, f \in BOOLEAN,
            g \in {Both, Idle}} :
         in \in {With(Healthy, o, [Quiet EXCEPT !.run["forward"] = TRUE]) : o \in Owners}
                \cup {[Healthy EXCEPT !.source = "override", !.override_command = n] : n \in 2 .. 3}}

\* Jogging, drive feedback, and the pass-through bits.
Feedback ==
  UNION {{[in EXCEPT !.ready = a, !.active = b, !.ethernet = c, !.keypad_status = e,
                     !.keypad_command = f, !.jog_available = g, !.nb_permissive = h] :
            a \in BOOLEAN, b \in BOOLEAN, c \in BOOLEAN, e \in BOOLEAN, f \in BOOLEAN,
            g \in {Both, Idle}, h \in BOOLEAN} :
         in \in {With(Healthy, o, [Quiet EXCEPT !.jog = j, !.reset = (o = "external")]) :
                   o \in {"program", "external"}, j \in Pairs}}

\* Start delays that change while time passes.
Delays ==
  {[With(Healthy, o, [Quiet EXCEPT !.run = r]) EXCEPT !.start_delay = n, !.elapsed = t] :
     o \in {"program", "operator"}, r \in Pairs, n \in 0 .. 3, t \in 0 .. 2}

MCInputs == Arbitration \cup Gates \cup Feedback \cup Delays

\* Speeds whose third decimal matters to the conversion.
SpeedInputs ==
  {With(Healthy, "program", [Quiet EXCEPT !.run["forward"] = TRUE, !.speed = v]) : v \in {10, 14, 16}}
=============================================================================
