----------------------------- MODULE TF_COUNTER -----------------------------
(***************************************************************************)
(* The function block that OpenPLC lowering gives a Rockwell COUNTER       *)
(* (targets/openplc/counter.py), run in lock step with the source rungs it *)
(* replaces: CTU and CTD in their source order, the rung that copies .DN   *)
(* to an output, and RES, with the instruction rules that                  *)
(* docs/architecture/counter-execution.md lists.                           *)
(***************************************************************************)
EXTENDS Integers

CONSTANTS MaxDint,   \* 2^31 - 1; smaller for model checking
          Presets, InitialValues,
          MaxCount   \* bound on the true count, for model checking

MinDint == -MaxDint - 1

ASSUME CounterAssumption ==
    /\ MaxDint \in Nat /\ MaxCount \in Nat
    /\ Presets \subseteq MinDint..MaxDint
    /\ InitialValues \subseteq MinDint..MaxDint /\ InitialValues # {}

VARIABLES
    PV, UP_FIRST,   \* the block's constant inputs
    fb,             \* the block's outputs and locals
    ladder,         \* the COUNTER tag as the source rungs leave it
    coil,           \* the done outputs of the block and of the source rungs
    RESET,          \* the reset input of the last scan
    count           \* history: ups less downs since the last reset

vars == <<PV, UP_FIRST, fb, ladder, coil, RESET, count>>

(***************************************************************************)
(* TF_COUNTER_BODY.                                                        *)
(***************************************************************************)

CountUp(c) ==
    IF c.CV = MaxDint THEN [c EXCEPT !.CV = MinDint, !.OV = TRUE]
    ELSE [c EXCEPT !.CV = @ + 1]

CountDown(c) ==
    IF c.CV = MinDint THEN [c EXCEPT !.CV = MaxDint, !.UN = TRUE]
    ELSE [c EXCEPT !.CV = @ - 1]

BlockReset(c) == [c EXCEPT !.CV = 0, !.Q = FALSE, !.OV = FALSE, !.UN = FALSE,
                           !.WasCU = FALSE, !.WasCD = FALSE]

\* Mutant: done only above the preset.
BlockCountsDoneAbove(c, CU, CD) ==
    LET up(x)   == IF CU /\ ~c.WasCU THEN CountUp(x) ELSE x
        down(x) == IF CD /\ ~c.WasCD THEN CountDown(x) ELSE x
        n == IF UP_FIRST THEN down(up(c)) ELSE up(down(c))
    IN  [n EXCEPT !.Q = IF (CU /\ ~c.WasCU) \/ (CD /\ ~c.WasCD)
                        THEN n.CV > PV ELSE @,
                  !.WasCU = CU, !.WasCD = CD]

BlockCounts(c, CU, CD) ==
    LET up(x)   == IF CU /\ ~c.WasCU THEN CountUp(x) ELSE x
        down(x) == IF CD /\ ~c.WasCD THEN CountDown(x) ELSE x
        n == IF UP_FIRST THEN down(up(c)) ELSE up(down(c))
    IN  [n EXCEPT !.Q = IF (CU /\ ~c.WasCU) \/ (CD /\ ~c.WasCD)
                        THEN n.CV >= PV ELSE @,
                  !.WasCU = CU, !.WasCD = CD]

\* The first call takes its edge memory from the inputs it is called with.
FirstCall(c, CU, CD) ==
    IF c.Initialized THEN c
    ELSE [c EXCEPT !.WasCU = CU, !.WasCD = CD, !.Initialized = TRUE]

BlockBody(c, CU, CD, reset) ==
    LET f == FirstCall(c, CU, CD)
    IN  IF reset THEN BlockReset(f) ELSE BlockCounts(f, CU, CD)

(***************************************************************************)
(* The source rungs.                                                       *)
(***************************************************************************)

\* A count instruction counts when its rung goes true, then compares with .PRE.
CTU(t, cu) ==
    LET n == [t EXCEPT !.ACC = IF @ = MaxDint THEN MinDint ELSE @ + 1,
                       !.OV = @ \/ t.ACC = MaxDint]
    IN  IF cu /\ ~t.CU THEN [n EXCEPT !.DN = n.ACC >= PV, !.CU = TRUE]
        ELSE [t EXCEPT !.CU = cu]

CTD(t, cd) ==
    LET n == [t EXCEPT !.ACC = IF @ = MinDint THEN MaxDint ELSE @ - 1,
                       !.UN = @ \/ t.ACC = MinDint]
    IN  IF cd /\ ~t.CD THEN [n EXCEPT !.DN = n.ACC >= PV, !.CD = TRUE]
        ELSE [t EXCEPT !.CD = cd]

RES(t, reset) ==
    IF reset THEN [t EXCEPT !.ACC = 0, !.DN = FALSE, !.OV = FALSE, !.UN = FALSE,
                            !.CU = FALSE, !.CD = FALSE]
    ELSE t

Prescan(t, CU, CD) ==
    IF t.scanned THEN t
    ELSE [t EXCEPT !.CU = CU, !.CD = CD, !.scanned = TRUE]

Counted(t, CU, CD) == IF UP_FIRST THEN CTD(CTU(t, CU), CD) ELSE CTU(CTD(t, CD), CU)

(***************************************************************************)
(* Lock-step execution.                                                    *)
(***************************************************************************)

Init ==
    /\ PV \in Presets /\ UP_FIRST \in BOOLEAN
    /\ \E acc \in InitialValues, dn, ov, un \in BOOLEAN :
          /\ fb = [CV |-> acc, Q |-> dn, OV |-> ov, UN |-> un,
                   WasCU |-> FALSE, WasCD |-> FALSE, Initialized |-> FALSE]
          /\ ladder = [ACC |-> acc, DN |-> dn, OV |-> ov, UN |-> un,
                       CU |-> FALSE, CD |-> FALSE, scanned |-> FALSE]
          /\ count = acc
    /\ coil = [block |-> FALSE, rungs |-> FALSE] /\ RESET = FALSE

Scan(CU, CD, reset) ==
    LET t == Counted(Prescan(ladder, CU, CD), CU, CD)
        ups == IF CU /\ fb.Initialized /\ ~fb.WasCU THEN 1 ELSE 0
        downs == IF CD /\ fb.Initialized /\ ~fb.WasCD THEN 1 ELSE 0
    IN  /\ count' = IF reset THEN 0 ELSE count + ups - downs
        /\ count' \in -MaxCount..MaxCount
        /\ fb' = BlockBody(fb, CU, CD, reset)
        /\ ladder' = RES(t, reset)
        /\ coil' = [block |-> fb'.Q, rungs |-> t.DN]
        /\ RESET' = reset
        /\ UNCHANGED <<PV, UP_FIRST>>

Next == \E CU, CD, reset \in BOOLEAN : Scan(CU, CD, reset)

Spec == Init /\ [][Next]_vars

(***************************************************************************)
(* Properties.                                                             *)
(***************************************************************************)

\* After every scan the block holds what the source rungs leave in the COUNTER:
\* value, done, overflow and underflow latches and edge memory, over wraps at
\* both ends, both counts in one scan in either rung order, and resets; and unless a
\* latch is set that is the true count since the last reset.
BlockFollowsRungs ==
    /\ fb.CV = ladder.ACC /\ fb.Q = ladder.DN
    /\ fb.OV = ladder.OV /\ fb.UN = ladder.UN
    /\ fb.WasCU = ladder.CU /\ fb.WasCD = ladder.CD
    /\ fb.Initialized = ladder.scanned
    /\ ~fb.OV /\ ~fb.UN => fb.CV = count

\* "The initial adapter rejects rather than guesses when ... source ordering
\* cannot be represented by one state-owner call": the done output of every scan
\* is the one the source rungs give in their order.
CoilFollowsRungs == coil.block = coil.rungs
=============================================================================
