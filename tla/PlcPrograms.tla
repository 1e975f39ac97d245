----------------------------- MODULE PlcPrograms -----------------------------
(***************************************************************************)
(* The PLC-side components side by side: the counter block (whose module   *)
(* this one extends), the timer block, the ladder lowering, Sys_Module and *)
(* its CODESYS binding, the execution order and the cyclic I/O images.     *)
(* They share no state: each is an instance over variables of its own, and *)
(* its properties are given here under their own names.                    *)
(***************************************************************************)
EXTENDS TF_COUNTER, FiniteSets, Sequences

CONSTANTS
    TimerPresets, MaxStep,                 \* TF_RTO: presets, longest time between scans
    ModeBits, EntryStates,                 \* Sys_Module: Mode bits, status nibbles
    Programs, Timers, Counters, nothing,   \* OpenPLCLadder
    Diagrams,                              \* ExecutionOrder: FBD networks
    ByteBits, Contracts, Samples           \* CyclicIO

\* Presets and scan intervals are counted in ticks.
ASSUME TickAssumption == TimerPresets \subseteq Nat /\ MaxStep \in Nat

\* A network has finitely many numbered blocks at numbered positions, and its links
\* are between them.
ASSUME DiagramsAssumption ==
    \A d \in Diagrams :
        /\ d.blocks \subseteq Nat /\ IsFiniteSet(d.blocks)
        /\ d.links \subseteq d.blocks \X d.blocks
        /\ \A i \in d.blocks : d.position[i] \in Int

\* A routine is a sequence of rungs.
ASSUME ProgramsAssumption == \A r \in Programs : DOMAIN r = 1..Len(r) /\ Len(r) \in Nat

\* The members of a data type have a type that is known or not ("LINT"), and an image
\* has a size.
ASSUME ContractsAssumption ==
    \A c \in Contracts :
        /\ DOMAIN c.members = 1..Len(c.members) /\ Len(c.members) \in Nat
        /\ \A i \in 1..Len(c.members) :
              c.members[i].type \in {"BOOL", "SINT", "INT", "DINT", "REAL", "LINT"}
        /\ c.size \in Nat

VARIABLES
    osr, outputs, intent, report, mode, entry, command, issued,
    CommandLatch, RequestReconfigure, RequestedEnable, ReconfigureBlocked, Enable,
    CanReconfigure, reconfigure, xExecute, started, applied,
    PT, Q, ET, TT, SegmentTimer, RetainedTime, WasEnabled, timer, Enabled, timerReset,
    rungs, phase, index, types, shared, plan,
    diagram, remaining, rank, basis, outcome,
    contract, fields, offset, offsets, base, image, values, todo, decoded, imagePhase

SysModule == INSTANCE SysModuleRuntime WITH Bits <- ModeBits
Binding == INSTANCE CodesysModuleBinding WITH fb <- reconfigure
RTO == INSTANCE TF_RTO WITH Presets <- TimerPresets, RESET <- timerReset
Ladder == INSTANCE OpenPLCLadder WITH None <- nothing
Order == INSTANCE ExecutionOrder
Cyclic == INSTANCE CyclicIO WITH phase <- imagePhase

------------------------------------------------------------------------------
(* Properties *)

\* The retentive timer block follows the timer of the source rungs.
BlockFollowsTimer == RTO!BlockFollowsTimer

\* The lowered networks stand for every source rung once and in order.
EveryRungLoweredOnce == Ladder!EveryRungLoweredOnce

\* A lowered rung without a condition before its branch computes what it did.
LoweringKeepsLogic == Ladder!LoweringKeepsLogic

\* "Reject source constructs outside the runtime-evidenced native subset": every
\* rung that validate_program admits computes what it did.
AdmittedRungsKeepLogic == Ladder!AdmittedRungsKeepLogic

\* One assertion of the Sys_Module command asks for at most one Mode write.
OneWritePerAssertion == SysModule!OneWritePerAssertion

\* A finished DED.Reconfigure applied the Enable value that was last requested.
DoneAppliesLastRequest == Binding!DoneAppliesLastRequest

\* Every pulse on xExecute starts an operation.
EveryRequestStarts == Binding!EveryRequestStarts

\* A recorded execution order runs every block after what it depends on.
OrderRespectsDependencies == Order!OrderRespectsDependencies

\* A recorded execution order is the documented one, and a cyclic network has none.
OrderFollowsPosition == Order!OrderFollowsPosition

\* A decoded cyclic image holds what was encoded into it.
RoundTrip == Cyclic!RoundTrip
=============================================================================
