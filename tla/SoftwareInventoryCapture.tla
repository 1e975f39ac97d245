---------------------- MODULE SoftwareInventoryCapture ----------------------
(***************************************************************************)
(* One permitted software inventory capture                                *)
(* (discovery/software_inventory_capture.py) through the Logix Symbol page *)
(* transport (logix_symbol_pycomm3.py, logix_symbol_codec.py), against a   *)
(* controller that is edited while its symbols are uploaded.  A symbol is  *)
(* its instance number; an item is a symbol and the program it is filed    *)
(* under.  The observation is sorted on return, so items are kept as a     *)
(* set.                                                                    *)
(***************************************************************************)
EXTENDS Integers, Sequences, FiniteSets, FiniteSetsExt, SequencesExt

CONSTANTS Instances,       \* instance numbers a symbol can have
          Kind,            \* the kind the codec reads from each symbol's name
          CapabilitySets,  \* capabilities a plan can request
          Budgets,         \* maximum_requests
          MaxEdits, MaxCalls

None == 0

VARIABLES
    plan,      \* CipSoftwareInventoryPlan and the permit the executor is given
    table,     \* external: the instances the controller holds
    honest,    \* external: the controller answers from the instance asked for
    steady,    \* history: instances held since the capture began
    edits,
    programs,  \* the transport's _programs
    executed, phase, used, items, cursor, seen,  \* the executor
    sent,      \* history: requests put on the wire
    calls

device == <<table, honest, steady, edits>>
vars == <<plan, device, programs, executed, phase, used, items, cursor, seen,
          sent, calls>>

Start == [scope |-> "controller", program |-> 0, instance |-> 0]

(***************************************************************************)
(* The page transport.                                                     *)
(***************************************************************************)

\* What the request asks for: the request names an instance, never a program.
Remaining(start) == {i \in table : i >= start \/ ~honest}

\* decode_logix_symbol_page accepts a whole rest, or a nonempty part of it.
Pages(start) ==
    {p \in SUBSET Remaining(start) :
        /\ p = {} => Remaining(start) = {}
        /\ \A i \in p, j \in Remaining(start) : j < i => j \in p}

Lowered(i, scopeProgram) ==
    [instance |-> i,
     parent |-> IF Kind[i] \in {"routines", "tag_definitions"} THEN scopeProgram
                ELSE None]

Items(p, scopeProgram) ==
    {Lowered(i, scopeProgram) : i \in {j \in p : Kind[j] \in plan.capabilities}}

RememberPrograms(p) ==
    programs \o SetToSortSeq({i \in p : Kind[i] = "programs"} \ ToSet(programs), <)

\* Mutant: the next page starts one instance too far.
PageCursorSkipsOne(p, start) ==
    IF p = Remaining(start) THEN None ELSE Max(p) + 2

PageCursor(p, start) ==
    IF p = Remaining(start) THEN None ELSE Max(p) + 1

ProgramScopesRequired ==
    {"routines", "tag_definitions"} \cap plan.capabilities # {}

Cursor(scope, program, instance) ==
    [scope |-> scope, program |-> program, instance |-> instance]

\* The cursors that may follow: none when the upload is over.
NextCursor(numeric, known) ==
    IF numeric # None THEN {Cursor(cursor.scope, cursor.program, numeric)}
    ELSE IF cursor.scope = "controller"
    THEN {c \in {Cursor("program", 0, 0)} : ProgramScopesRequired /\ known # <<>>}
    ELSE {c \in {Cursor("program", cursor.program + 1, 0)} : c.program < Len(known)}

(***************************************************************************)
(* The executor.                                                           *)
(***************************************************************************)

Init ==
    /\ plan \in [capabilities : CapabilitySets, maximum_requests : Budgets,
                 permit : {"matching", "other", "none"}]
    /\ table \in SUBSET Instances /\ honest \in BOOLEAN /\ steady = {} /\ edits = 0
    /\ programs = <<>> /\ executed = FALSE /\ phase = "idle"
    /\ used = 0 /\ items = {} /\ cursor = Start /\ seen = {} /\ sent = 0 /\ calls = 0

Preflight == plan.permit = "matching" /\ ~executed

\* capture: once past preflight the plan is spent, whatever happens to it.
Capture ==
    /\ phase # "reading" /\ calls < MaxCalls /\ Preflight
    /\ executed' = TRUE /\ phase' = "reading"
    /\ used' = 0 /\ items' = {} /\ cursor' = Start /\ seen' = {}
    /\ steady' = table /\ calls' = calls + 1
    /\ UNCHANGED <<plan, table, honest, edits, programs, sent>>

CaptureRefused ==
    /\ phase # "reading" /\ calls < MaxCalls /\ ~Preflight
    /\ calls' = calls + 1
    /\ UNCHANGED <<plan, device, programs, executed, phase, used, items, cursor,
                   seen, sent>>

BudgetExhausted ==
    /\ phase = "reading" /\ used >= plan.maximum_requests
    /\ phase' = "failed"
    /\ UNCHANGED <<plan, device, programs, executed, used, items, cursor, seen,
                   sent, calls>>

\* One iteration of the loop that receives page p.
Accept(p) ==
    LET known == IF cursor.scope = "controller" THEN RememberPrograms(p) ELSE programs
        scopeProgram == IF cursor.scope = "program" THEN programs[cursor.program + 1]
                        ELSE None
        next == NextCursor(PageCursor(p, cursor.instance), known)
    IN  /\ programs' = known
        /\ used' = used + 1 /\ sent' = sent + 1
        /\ items' = items \cup Items(p, scopeProgram)
        /\ phase' = IF next = {} THEN "done"
                    ELSE IF next \subseteq seen THEN "failed" ELSE "reading"
        /\ IF next \subseteq seen THEN UNCHANGED <<cursor, seen>>
           ELSE /\ cursor' = CHOOSE c \in next : TRUE
                /\ seen' = seen \cup next

ReadPage ==
    /\ phase = "reading" /\ used < plan.maximum_requests
    /\ \E p \in Pages(cursor.instance) : Accept(p)
    /\ UNCHANGED <<plan, device, executed, calls>>

\* No connection, no usable reply, another status, a malformed record, or a
\* partial page without records: the error leaves the loop.
PageFails ==
    /\ phase = "reading" /\ used < plan.maximum_requests
    /\ phase' = "failed" /\ sent' = sent + 1
    /\ UNCHANGED <<plan, device, programs, executed, used, items, cursor, seen, calls>>

\* An online edit adds or deletes a symbol between two pages.
EditController ==
    /\ phase = "reading" /\ edits < MaxEdits
    /\ edits' = edits + 1
    /\ \E i \in Instances :
          /\ table' = IF i \in table THEN table \ {i} ELSE table \cup {i}
          /\ steady' = steady \ {i}
    /\ UNCHANGED <<plan, honest, programs, executed, phase, used, items, cursor,
                   seen, sent, calls>>

Next == Capture \/ CaptureRefused \/ BudgetExhausted \/ ReadPage \/ PageFails
        \/ EditController

Spec == Init /\ [][Next]_vars

(***************************************************************************)
(* Properties.                                                             *)
(***************************************************************************)

\* A capture that returns an observation returns every requested symbol the
\* controller held all along, however the pages fell, whatever was edited between
\* them and however close the budget was: a cut-off upload is never returned.
ObservationIsWhole ==
    phase = "done" /\ honest =>
        \A i \in steady : Kind[i] \in plan.capabilities =>
            [instance |-> i, parent |-> None] \in items

\* "Its opaque state moves from controller enumeration into each discovered
\* program scope without repeating the controller upload": no symbol of the
\* controller is filed twice.
UploadNotRepeated ==
    honest => \A a, b \in items : a.instance = b.instance => a = b
=============================================================================
