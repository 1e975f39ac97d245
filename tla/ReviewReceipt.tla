---------------------------- MODULE ReviewReceipt ----------------------------
(***************************************************************************)
(* `review validate` and `review verify-receipt` (cli/review_validation.py *)
(* with exporters/review_validation_receipt.py), while an engineer edits   *)
(* the review and the source, and the machine may lose power.  A file is   *)
(* the version of its bytes; a digest identifies a version.                *)
(***************************************************************************)
EXTENDS Naturals

CONSTANTS Versions,     \* versions of the review and of the source
          Reconciles,   \* the <<review, source>> pairs that reconcile
          Items,        \* the item count of each review version
          MaxEdits, MaxRuns

\* No file, and a file whose bytes are not all there.
NoReceipt == [review |-> 0, source |-> 0, item_count |-> 0]
Torn == [NoReceipt EXCEPT !.item_count = 1]

Commands == {"validate", "verify"}

VARIABLES
    review, source,    \* the input files
    receipt,           \* the receipt file
    durable,           \* what a power loss may leave in its place
    pc, loaded, digest, observed, result,  \* of each command
    quiet,             \* history: no edit since the command began
    basis,             \* history: what the writer of the receipt had loaded
    basisQuiet, edits, runs

inputs == <<review, source>>
file == <<receipt, durable, basis, basisQuiet>>
vars == <<inputs, file, pc, loaded, digest, observed, result, quiet, edits, runs>>

Blank == [review |-> 0, source |-> 0]

\* A receipt file with what its writer had loaded, and whether without an edit.
Written(r, b, q) == [receipt |-> r, basis |-> b, quiet |-> q]

Init ==
    /\ review \in Versions /\ source \in Versions
    /\ receipt = NoReceipt /\ basis = Blank /\ basisQuiet = TRUE
    /\ durable = {Written(NoReceipt, Blank, TRUE)}
    /\ pc = [c \in Commands |-> "idle"] /\ result = [c \in Commands |-> "none"]
    /\ loaded = [c \in Commands |-> Blank] /\ digest = [c \in Commands |-> Blank]
    /\ observed = NoReceipt /\ quiet = [c \in Commands |-> TRUE]
    /\ edits = 0 /\ runs = 0

Goto(c, from, to) == pc[c] = from /\ pc' = [pc EXCEPT ![c] = to]

Fail(c) == /\ pc' = [pc EXCEPT ![c] = "idle"]
           /\ result' = [result EXCEPT ![c] = "failed"]

\* _load_and_reconcile parses the source first, or for an I/O mapping loads the review
\* first; what the I/O card library adds to the reconciliation is in Reconciles.
LoadFirst(c, kind) ==
    /\ runs < MaxRuns /\ runs' = runs + 1
    /\ Goto(c, "idle", "load")
    /\ loaded' = [loaded EXCEPT ![c] = IF kind = "io-mapping"
                                       THEN [Blank EXCEPT !.review = review]
                                       ELSE [Blank EXCEPT !.source = source]]
    /\ result' = [result EXCEPT ![c] = "none"]
    /\ quiet' = [quiet EXCEPT ![c] = TRUE]
    /\ UNCHANGED <<inputs, file, digest, observed, edits>>

\* The loaded document once the input that is still missing has been read.
Completed(document) ==
    IF document.review = 0 THEN [document EXCEPT !.review = review]
    ELSE [document EXCEPT !.source = source]

\* Mutant: the review is not reconciled with the source.
LoadSecondUnchecked(c) ==
    /\ Goto(c, "load", IF c = "verify" THEN "read" ELSE "digest")
    /\ loaded' = [loaded EXCEPT ![c] = Completed(@)]
    /\ UNCHANGED <<inputs, file, digest, observed, result, quiet, edits, runs>>

LoadSecond(c) ==
    /\ pc[c] = "load"
    /\ loaded' = [loaded EXCEPT ![c] = Completed(@)]
    /\ IF <<loaded'[c].review, loaded'[c].source>> \in Reconciles
       THEN Goto(c, "load", IF c = "verify" THEN "read" ELSE "digest") /\ UNCHANGED result
       ELSE Fail(c)
    /\ UNCHANGED <<inputs, file, digest, observed, quiet, edits, runs>>

\* verify_review_validation_result reads the receipt before it digests.
ReadReceipt ==
    /\ pc["verify"] = "read"
    /\ observed' = receipt
    /\ IF receipt \in {NoReceipt, Torn} THEN Fail("verify")
       ELSE Goto("verify", "read", "digest") /\ UNCHANGED result
    /\ UNCHANGED <<inputs, file, loaded, digest, quiet, edits, runs>>

DigestReview(c) ==
    /\ Goto(c, "digest", "digest source")
    /\ digest' = [digest EXCEPT ![c].review = review]
    /\ UNCHANGED <<inputs, file, loaded, observed, result, quiet, edits, runs>>

DigestSource(c) ==
    /\ Goto(c, "digest source", "conclude")
    /\ digest' = [digest EXCEPT ![c].source = source]
    /\ UNCHANGED <<inputs, file, loaded, observed, result, quiet, edits, runs>>

\* review_validation_result_data: digests of the files, counts of the document.
Evidence(c) ==
    [review |-> digest[c].review, source |-> digest[c].source,
     item_count |-> Items[loaded[c].review]]

\* _write_atomic: the replaced file is not synchronized.
WriteReceipt ==
    /\ Goto("validate", "conclude", "idle")
    /\ result' = [result EXCEPT !["validate"] = "ok"]
    /\ receipt' = Evidence("validate")
    /\ basis' = loaded["validate"] /\ basisQuiet' = quiet["validate"]
    /\ durable' = durable \cup {Written(Torn, Blank, FALSE),
                                Written(receipt', basis', basisQuiet')}
    /\ UNCHANGED <<inputs, loaded, digest, observed, quiet, edits, runs>>

\* The write or the replacement fails: the old receipt stays.
WriteFails ==
    /\ pc["validate"] = "conclude" /\ Fail("validate")
    /\ UNCHANGED <<inputs, file, loaded, digest, observed, quiet, edits, runs>>

CompareReceipt ==
    /\ pc["verify"] = "conclude"
    /\ IF observed = Evidence("verify")
       THEN Goto("verify", "conclude", "idle") /\ result' = [result EXCEPT !["verify"] = "ok"]
       ELSE Fail("verify")
    /\ UNCHANGED <<inputs, file, loaded, digest, observed, quiet, edits, runs>>

Edit ==
    /\ edits < MaxEdits /\ edits' = edits + 1
    /\ \/ review' \in Versions \ {review} /\ UNCHANGED source
       \/ source' \in Versions \ {source} /\ UNCHANGED review
    /\ quiet' = [c \in Commands |-> FALSE]
    /\ UNCHANGED <<file, pc, loaded, digest, observed, result, runs>>

\* The operating system writes its buffers back in its own time.
WriteBack ==
    /\ LET written == {Written(receipt, basis, basisQuiet)}
       IN  durable # written /\ durable' = written
    /\ UNCHANGED <<inputs, receipt, basis, basisQuiet, pc, loaded, digest, observed,
                   result, quiet, edits, runs>>

PowerLoss ==
    /\ \E left \in durable :
          /\ durable # {left} /\ durable' = {left}
          /\ receipt' = left.receipt /\ basis' = left.basis /\ basisQuiet' = left.quiet
    /\ pc' = [c \in Commands |-> "idle"] /\ result' = [c \in Commands |-> "none"]
    /\ UNCHANGED <<inputs, loaded, digest, observed, quiet, edits, runs>>

Next ==
    \/ \E c \in Commands, kind \in {"alarm", "io-mapping"} : LoadFirst(c, kind)
    \/ \E c \in Commands : LoadSecond(c) \/ DigestReview(c) \/ DigestSource(c)
    \/ ReadReceipt \/ WriteReceipt \/ WriteFails \/ CompareReceipt
    \/ Edit \/ WriteBack \/ PowerLoss

Spec == Init /\ [][Next]_vars

(***************************************************************************)
(* Properties.                                                             *)
(***************************************************************************)

\* A receipt names a review and a source that reconcile, with the item count of that
\* review.
Sound(r) ==
    <<r.review, r.source>> \in Reconciles /\ r.item_count = Items[r.review]

\* A receipt made without an edit in between is sound, also after a power loss that
\* brought it back; and a receipt that verifies, with no edit since the verification
\* began, is sound and names the files as they are, whoever wrote it and when.
QuietReceiptIsSound ==
    /\ receipt \notin {NoReceipt, Torn} /\ basisQuiet => Sound(receipt)
    /\ result["verify"] = "ok" /\ quiet["verify"] =>
          Sound(observed) /\ observed.review = review /\ observed.source = source

\* "The receipt includes SHA-256 hashes of the exact review and L5X bytes": the
\* bytes that were validated.
ReceiptNamesValidatedBytes ==
    basis # Blank => receipt.review = basis.review /\ receipt.source = basis.source

\* "Replace one receipt only after its complete bytes reach disk."
ReceiptIsWhole == receipt # Torn
=============================================================================
