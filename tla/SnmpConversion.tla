---------------------------- MODULE SnmpConversion ----------------------------
(***************************************************************************)
(* convert_snmp_walk (discovery/snmp_conversion.py): one approved walk is  *)
(* converted into a recording, a sidecar of unparsed lines and a receipt,  *)
(* by processes that may run side by side and stop anywhere.  A file is    *)
(* the version of the input it was computed from, 0 when it is absent.     *)
(* Temporary files have unique names and are left out.                     *)
(***************************************************************************)
EXTENDS Naturals, Sequences

CONSTANTS Converters, Versions, MaxEdits, MaxRuns

\* Mutant: the receipt is moved first.
PayloadsReceiptFirst == <<"receipt", "output", "sidecar">>

\* The order in which the temporary files are moved into place.
Payloads == <<"output", "sidecar", "receipt">>

Files == {"output", "sidecar", "receipt"}

VARIABLES
    input,       \* the walk
    files,       \* output, sidecar and receipt
    approved,    \* the checksum in each converter's plan
    clean,       \* the plan does not permit unparsed lines
    pc, decoded, \* of each converter
    converting,  \* history: the version approved for what the receipt describes
    overlap,     \* history: two conversions ran at once
    edits, runs

vars == <<input, files, approved, clean, pc, decoded, converting, overlap, edits, runs>>

\* Where a converter is: at rest, about to decode, or about to move file 1, 2 or 3.
Idle == 0
Decoding == 4

Init ==
    /\ input \in Versions /\ files = [f \in Files |-> 0]
    /\ approved = [c \in Converters |-> 0] /\ clean \in [Converters -> BOOLEAN]
    /\ pc = [c \in Converters |-> Idle] /\ decoded = [c \in Converters |-> 0]
    /\ converting = 0 /\ overlap = FALSE /\ edits = 0 /\ runs = 0

Goto(c, to) == pc' = [pc EXCEPT ![c] = to]

\* The input has the approved checksum and no output exists yet.
Begin(c, version) ==
    /\ pc[c] = Idle /\ runs < MaxRuns /\ runs' = runs + 1
    /\ approved' = [approved EXCEPT ![c] = version]
    /\ input = version /\ \A f \in Files : files[f] = 0
    /\ Goto(c, Decoding)
    /\ overlap' = (overlap \/ \E d \in Converters \ {c} : pc[d] # Idle)
    /\ UNCHANGED <<input, files, clean, decoded, converting, edits>>

\* read_snmpwalk opens the input again.
Decode(c) ==
    /\ pc[c] = Decoding
    /\ \E unparsed \in BOOLEAN :
          Goto(c, IF unparsed /\ clean[c] THEN Idle ELSE 1)
    /\ decoded' = [decoded EXCEPT ![c] = input]
    /\ UNCHANGED <<input, files, approved, clean, converting, overlap, edits, runs>>

\* os.replace, one file after the other.
Move(c) ==
    /\ pc[c] \in 1..3
    /\ files' = [files EXCEPT ![Payloads[pc[c]]] = decoded[c]]
    /\ converting' = IF Payloads[pc[c]] = "receipt" THEN approved[c] ELSE converting
    /\ Goto(c, IF pc[c] = 3 THEN Idle ELSE pc[c] + 1)
    /\ UNCHANGED <<input, approved, clean, decoded, overlap, edits, runs>>

\* A write or a replacement fails, or the process ends.
Stop(c) ==
    /\ pc[c] # Idle /\ Goto(c, Idle)
    /\ UNCHANGED <<input, files, approved, clean, decoded, converting, overlap, edits, runs>>

Edit ==
    /\ edits < MaxEdits /\ edits' = edits + 1
    /\ input' \in Versions \ {input}
    /\ UNCHANGED <<files, approved, clean, pc, decoded, converting, overlap, runs>>

Next == \/ \E c \in Converters : \/ \E v \in Versions : Begin(c, v)
                                 \/ Decode(c) \/ Move(c) \/ Stop(c)
        \/ Edit

Spec == Init /\ [][Next]_vars

(***************************************************************************)
(* Properties.                                                             *)
(***************************************************************************)

\* "The receipt is written last and therefore acts as the completion marker": with
\* a receipt in place the other files are there, whatever stopped and whoever else
\* ran, and without a second conversion at the same time they are its own.
ReceiptMarksCompletion ==
    files["receipt"] # 0 =>
        /\ \A f \in Files : files[f] # 0
        /\ ~overlap => \A f \in Files : files[f] = files["receipt"]

\* "Existing output, sidecar, or receipt files are never overwritten."
NeverOverwritten == [][\A f \in Files : files[f] # 0 => files'[f] = files[f]]_files

\* The plan requires "an exact input SHA-256 checksum": what is converted has it.
ConvertedBytesApproved == converting # 0 => files["receipt"] = converting
=============================================================================
