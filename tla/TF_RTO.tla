------------------------------- MODULE TF_RTO -------------------------------
(***************************************************************************)
(* The retentive timer that OpenPLC lowering gives a Rockwell RTO          *)
(* (TF_RTO_BODY in targets/openplc/native_declarations.py): it is built    *)
(* from an IEC TON that loses its time whenever its input drops, so the    *)
(* block adds the segments up itself.  It runs in lock step with a         *)
(* retentive accumulator that is given the time between scans directly.    *)
(***************************************************************************)
EXTENDS Naturals

CONSTANTS Presets,   \* values of PT, in ticks
          MaxStep    \* longest time between two scans, in ticks

VARIABLES
    PT,
    Q, ET, TT,                              \* the block's outputs
    SegmentTimer, RetainedTime, WasEnabled, \* its locals
    timer,                                  \* the TIMER of the source rungs
    Enabled, RESET                          \* the inputs of the last scan

vars == <<PT, Q, ET, TT, SegmentTimer, RetainedTime, WasEnabled, timer,
          Enabled, RESET>>

(***************************************************************************)
(* IEC TON, called dt ticks after the previous call.                       *)
(***************************************************************************)
Stopped == [state |-> "off", ET |-> 0, Q |-> FALSE]

TON(t, in, pt, dt) ==
    CASE ~in -> Stopped
      [] in /\ t.state = "off" -> [state |-> "timing", ET |-> 0, Q |-> FALSE]
      [] in /\ t.state = "timing" /\ t.ET + dt >= pt ->
            [state |-> "done", ET |-> pt, Q |-> TRUE]
      [] in /\ t.state = "timing" /\ t.ET + dt < pt -> [t EXCEPT !.ET = @ + dt]
      [] in /\ t.state = "done" -> t

(***************************************************************************)
(* TF_RTO_BODY, one disjunct per branch.                                   *)
(***************************************************************************)
Reset ==
    /\ RESET'
    /\ SegmentTimer' = Stopped
    /\ RetainedTime' = 0 /\ ET' = 0 /\ Q' = FALSE /\ TT' = FALSE

\* Enabled holds and the preset was reached in an earlier segment.
AlreadyReached ==
    /\ ~RESET' /\ Enabled' /\ ~Q /\ RetainedTime >= PT
    /\ RetainedTime' = PT /\ ET' = PT /\ Q' = TRUE /\ TT' = FALSE
    /\ SegmentTimer' = Stopped

Timing(dt) ==
    /\ ~RESET' /\ Enabled' /\ ~Q /\ RetainedTime < PT
    /\ SegmentTimer' = TON(SegmentTimer, TRUE, PT - RetainedTime, dt)
    /\ Q' = SegmentTimer'.Q
    /\ RetainedTime' = IF Q' THEN PT ELSE RetainedTime
    /\ ET' = IF Q' THEN PT ELSE RetainedTime + SegmentTimer'.ET
    /\ TT' = ~Q'

\* Mutant: the running segment is lost when the input drops.
DisabledDropsSegment ==
    /\ ~RESET' /\ ~Enabled'
    /\ SegmentTimer' = Stopped
    /\ ET' = RetainedTime /\ TT' = FALSE
    /\ UNCHANGED <<Q, RetainedTime>>

\* The segment that ends is added to what is retained, once.
Disabled ==
    LET sum == IF WasEnabled /\ ~Q THEN RetainedTime + SegmentTimer.ET
               ELSE RetainedTime
        reached == WasEnabled /\ ~Q /\ sum >= PT
    IN  /\ ~RESET' /\ ~Enabled'
        /\ RetainedTime' = IF reached THEN PT ELSE sum
        /\ Q' = (Q \/ reached)
        /\ SegmentTimer' = Stopped
        /\ ET' = RetainedTime' /\ TT' = FALSE

Held ==
    /\ ~RESET' /\ Enabled' /\ Q
    /\ SegmentTimer' = Stopped
    /\ ET' = RetainedTime /\ TT' = FALSE
    /\ UNCHANGED <<Q, RetainedTime>>

(***************************************************************************)
(* The source rungs: RTO accumulates from one enabled scan to the next,    *)
(* then the done rung reads .DN, then RES.                                 *)
(***************************************************************************)
RTO(t, in, dt) ==
    LET acc == IF in /\ t.EN /\ ~t.DN THEN t.ACC + dt ELSE t.ACC
    IN  [EN  |-> in,
         DN  |-> t.DN \/ (in /\ acc >= PT),
         ACC |-> IF acc >= PT THEN PT ELSE acc]

Rungs(t, in, reset, dt) ==
    IF reset THEN [EN |-> FALSE, DN |-> FALSE, ACC |-> 0] ELSE RTO(t, in, dt)

Init ==
    /\ PT \in Presets
    /\ Q = FALSE /\ ET = 0 /\ TT = FALSE
    /\ SegmentTimer = Stopped /\ RetainedTime = 0 /\ WasEnabled = FALSE
    /\ timer = [EN |-> FALSE, DN |-> FALSE, ACC |-> 0]
    /\ Enabled = FALSE /\ RESET = FALSE

Scan(in, reset, dt) ==
    /\ Enabled' = in /\ RESET' = reset
    /\ Reset \/ AlreadyReached \/ Timing(dt) \/ Disabled \/ Held
    /\ WasEnabled' = in
    /\ timer' = Rungs(timer, in, reset, dt)
    /\ UNCHANGED PT

Next == \E in, reset \in BOOLEAN, dt \in 0..MaxStep : Scan(in, reset, dt)

Spec == Init /\ [][Next]_vars

(***************************************************************************)
(* Properties.                                                             *)
(***************************************************************************)

\* For a preset above zero the elapsed time, the done bit and the timing bit are
\* those of the source timer after every scan, however often the enabling input
\* drops and however unevenly the scans come: no segment is lost or counted twice.
BlockFollowsTimer ==
    PT > 0 => /\ ET = timer.ACC /\ Q = timer.DN
              /\ TT = (timer.EN /\ ~timer.DN)

\* "Runtime tests confirmed ... clearing of elapsed time and status through
\* reset": in the scan after a reset a timer that is not enabled is not done.
ResetTimerStaysClear == [][(RESET /\ ~RESET' /\ ~Enabled') => ~Q']_vars
=============================================================================
