-------------------------- MODULE SysModuleRuntime --------------------------
(***************************************************************************)
(* The Sys_Module scan core (runtime/sys_module_core.py) driven by its     *)
(* runtime (runtime/sys_module_runtime.py) over a module-service adapter.  *)
(* A cycle reads the module's attributes, scans the core and applies at    *)
(* most one Mode write.  The read and the write are two operations on a    *)
(* module that others also write, so they are two steps here.              *)
(*                                                                         *)
(* A 16-bit word is the set of its bit numbers that are one; the status    *)
(* nibble of EntryStatus is the number entry_status \div 4096.             *)
(***************************************************************************)
EXTENDS Naturals

CONSTANTS Bits,        \* the Mode bits that anyone sets
          EntryStates  \* the status nibbles the module reports

InhibitBit == 2        \* 0x0004

None == [none |-> TRUE]

VARIABLES
    osr,      \* the core's shared one-shot latch
    outputs,  \* the core's last outputs
    intent,   \* the Mode write of the cycle in progress, None between cycles
    report,   \* the failure the last cycle reported, if any
    mode,     \* the module's Mode attribute
    entry,    \* the module's status nibble
    command,  \* history: the last cycle was asked to inhibit or uninhibit
    issued    \* history: write intents since a scan last saw no command

vars == <<osr, outputs, intent, report, mode, entry, command, issued>>

(***************************************************************************)
(* The core.                                                               *)
(***************************************************************************)

\* Status word bits: 0..7, 9 and 10 name the state itself, 11 is Disconnected.
decode_entry_status(state) ==
    ({state} \cap ((0..7) \cup {9, 10}))
        \cup (IF state \in {4, 6} THEN {} ELSE {11})

ClearedOutputs == [entry |-> 0, mode |-> {}, status |-> {}]

\* A command the latch has already seen writes nothing; inhibit is tried first.
ModeWrite(latch, snapshot, inhibit, uninhibit) ==
    IF latch \/ ~(inhibit \/ uninhibit) THEN None
    ELSE [mode |-> IF inhibit THEN snapshot \cup {InhibitBit}
                   ELSE snapshot \ {InhibitBit}]

(***************************************************************************)
(* The runtime.                                                            *)
(***************************************************************************)

Init ==
    /\ osr = FALSE /\ outputs = ClearedOutputs
    /\ intent = None /\ report = "none"
    /\ mode \in SUBSET Bits /\ entry \in EntryStates
    /\ command = FALSE /\ issued = 0

\* cycle, when read_snapshot raises: the core is not scanned.
ReadFails(inhibit, uninhibit) ==
    /\ intent = None
    /\ command' = (inhibit \/ uninhibit)
    /\ report' = "read_failure"
    /\ UNCHANGED <<osr, outputs, intent, mode, entry, issued>>

\* cycle, up to the Mode write: scan latches the command whatever it writes.
Scan(inhibit, uninhibit) ==
    /\ intent = None
    /\ intent' = ModeWrite(osr, mode, inhibit, uninhibit)
    /\ osr' = (inhibit \/ uninhibit)
    /\ outputs' = [entry |-> entry, mode |-> mode,
                   status |-> decode_entry_status(entry)]
    /\ command' = (inhibit \/ uninhibit)
    /\ issued' = IF ~(inhibit \/ uninhibit) THEN 0
                 ELSE IF intent' = None THEN issued ELSE issued + 1
    /\ report' = "none"
    /\ UNCHANGED <<mode, entry>>

WriteMode ==
    /\ intent # None
    /\ mode' = intent.mode /\ intent' = None
    /\ UNCHANGED <<osr, outputs, report, entry, command, issued>>

\* Mutant: a failed write gives the command back.
RearmsAfterFailure ==
    /\ intent # None
    /\ intent' = None /\ report' = "write_failure" /\ osr' = FALSE
    /\ UNCHANGED <<outputs, mode, entry, command, issued>>

\* write_mode raises: reported, and not tried again.
WriteFails ==
    /\ intent # None
    /\ intent' = None /\ report' = "write_failure"
    /\ UNCHANGED <<osr, outputs, mode, entry, command, issued>>

\* prescan clears the outputs and not the latch.
prescan ==
    /\ intent = None
    /\ outputs' = ClearedOutputs
    /\ UNCHANGED <<osr, intent, report, mode, entry, command, issued>>

\* The module's own state changes, or another client writes its Mode.
ModuleStep ==
    /\ \/ entry' \in EntryStates /\ UNCHANGED mode
       \/ \E b \in Bits :
             /\ mode' = (IF b \in mode THEN mode \ {b} ELSE mode \cup {b})
             /\ UNCHANGED entry
    /\ UNCHANGED <<osr, outputs, intent, report, command, issued>>

Next ==
    \/ \E inhibit, uninhibit \in BOOLEAN :
          ReadFails(inhibit, uninhibit) \/ Scan(inhibit, uninhibit)
    \/ WriteMode \/ WriteFails \/ prescan \/ ModuleStep

Spec == Init /\ [][Next]_vars

(***************************************************************************)
(* Properties.                                                             *)
(***************************************************************************)

\* However writes fail and whatever cycles are lost between, one assertion of
\* the shared command asks for at most one Mode write: a failed write is not
\* repeated until a scan has seen both inputs low.
OneWritePerAssertion == issued <= 1

\* "Read failures do not scan the core, so they neither change outputs nor
\* consume an input edge": once a cycle was run with no command, the command's
\* next assertion that the core scans asks for a write.
ReadFailuresKeepEdges ==
    [][(~command /\ command' /\ report' # "read_failure") => intent' # None]_vars
=============================================================================
