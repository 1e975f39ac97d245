------------------------ MODULE CodesysModuleBinding ------------------------
(***************************************************************************)
(* The generated CODESYS program around TF_Codesys_ENIP_ModuleBinding      *)
(* (exporters/codesys_sys_module_iec.py): one scan copies the observations *)
(* of the remote adapter into the block, runs the block's body, applies    *)
(* the requested Enable and calls the one DED.Reconfigure instance.        *)
(*                                                                         *)
(* DED.Reconfigure is a library block, modelled from this use of it: a     *)
(* rising edge of xExecute starts an operation on the device's Enable, and *)
(* it shows the result for one call when xExecute is already low.          *)
(***************************************************************************)
EXTENDS Naturals

VARIABLES
    CommandLatch,       \* the block's only local
    RequestReconfigure, RequestedEnable, ReconfigureBlocked,  \* its outputs
    Enable,             \* the remote adapter's Enable property
    CanReconfigure,     \* what DED.CanReconfigure reported to the scan
    fb,                 \* DED.Reconfigure: idle, busy, done or error
    xExecute,           \* the value it was last called with
    started,            \* the Enable value its last operation started from
    applied             \* the Enable value its last finished operation applied

vars == <<CommandLatch, RequestReconfigure, RequestedEnable, ReconfigureBlocked,
          Enable, CanReconfigure, fb, xExecute, started, applied>>

Init ==
    /\ CommandLatch = FALSE /\ RequestReconfigure = FALSE
    /\ RequestedEnable = FALSE /\ ReconfigureBlocked = FALSE
    /\ Enable \in BOOLEAN /\ started = Enable /\ applied = Enable
    /\ CanReconfigure \in BOOLEAN
    /\ fb = "idle" /\ xExecute = FALSE

CommandEdge(inhibit, uninhibit) == (inhibit \/ uninhibit) /\ ~CommandLatch

\* Mutant: the command is taken by level, not by edge.
AcceptsLevel(inhibit, uninhibit) ==
    (inhibit \/ uninhibit) /\ CanReconfigure' /\ fb # "busy"

\* Accepted only on an idle library block of a node that can be reconfigured.
Accepts(inhibit, uninhibit) ==
    CommandEdge(inhibit, uninhibit) /\ CanReconfigure' /\ fb # "busy"

\* Mutant: a refused command moves the requested value too.
BodyRequestsFirst(inhibit, uninhibit) ==
    /\ RequestReconfigure' = Accepts(inhibit, uninhibit)
    /\ RequestedEnable' = IF CommandEdge(inhibit, uninhibit) THEN ~inhibit
                          ELSE RequestedEnable
    /\ ReconfigureBlocked' =
          /\ ~RequestReconfigure' /\ fb # "done"
          /\ CommandEdge(inhibit, uninhibit) \/ ReconfigureBlocked
    /\ CommandLatch' = (inhibit \/ uninhibit)

\* The block's body, over the inputs the program copied before the call.  The
\* completion of an operation clears Blocked last, whatever set it.
Body(inhibit, uninhibit) ==
    /\ RequestReconfigure' = Accepts(inhibit, uninhibit)
    /\ RequestedEnable' = IF RequestReconfigure' THEN ~inhibit ELSE RequestedEnable
    /\ ReconfigureBlocked' =
          /\ ~RequestReconfigure' /\ fb # "done"
          /\ CommandEdge(inhibit, uninhibit) \/ ReconfigureBlocked
    /\ CommandLatch' = (inhibit \/ uninhibit)

\* The call of DED.Reconfigure that ends the scan.
Reconfigure(execute) ==
    LET starts == execute /\ ~xExecute /\ fb # "busy"
    IN  /\ started' = IF starts THEN Enable' ELSE started
        /\ \/ (starts \/ fb = "busy") /\ fb' = "busy" /\ applied' = applied
           \/ (starts \/ fb = "busy") /\ fb' = "error" /\ applied' = applied
           \/ (starts \/ fb = "busy") /\ fb' = "done" /\ applied' = started'
           \/ ~starts /\ fb # "busy" /\ applied' = applied
              /\ fb' = IF execute THEN fb ELSE "idle"
        /\ xExecute' = execute

\* The capability comes and goes with the node's bus, from scan to scan.
Scan(inhibit, uninhibit, can) ==
    /\ CanReconfigure' = can
    /\ Body(inhibit, uninhibit)
    /\ Enable' = IF RequestReconfigure' THEN RequestedEnable' ELSE Enable
    /\ Reconfigure(RequestReconfigure')

Next == \E inhibit, uninhibit, can \in BOOLEAN : Scan(inhibit, uninhibit, can)

Spec == Init /\ [][Next]_vars

(***************************************************************************)
(* Properties.                                                             *)
(***************************************************************************)

\* The pulse the program gives xExecute always starts an operation: it comes as
\* a rising edge, to a library block that is not working on an earlier one.
EveryRequestStarts ==
    [][RequestReconfigure' => ~xExecute /\ fb # "busy"]_vars

\* An operation reported done has applied the last Enable value the block asked
\* for: no later command moved Enable under an operation in progress.
DoneAppliesLastRequest == fb = "done" => applied = RequestedEnable /\ Enable = applied

=============================================================================
