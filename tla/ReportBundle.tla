---------------------------- MODULE ReportBundle ----------------------------
(***************************************************************************)
(* `report` and `reports verify` (cli/l5x_report.py, cli/report_bundle.py, *)
(* exporters/report_manifest.py and TextReportBundle.write_to): a bundle   *)
(* of reports, a review receipt and a manifest is generated into a         *)
(* directory that may hold an earlier bundle, and verified, while the      *)
(* inputs are edited and a generation may stop between two files.  A file  *)
(* is the version of its bytes; the reports stand for one file and the two *)
(* reviews for one.                                                        *)
(***************************************************************************)
EXTENDS Naturals, Sequences

CONSTANTS Versions,    \* versions of the source and of the review
          Reconciles,  \* the <<review, source>> pairs that reconcile
          MaxEdits, MaxRuns

Unapplied == 0   \* the digest of a review that is not given

\* What a file holds: the versions it was computed from; Torn is half written.
Pair(r, s) == [review |-> r, source |-> s]
Absent == Pair(0, 0)
Torn == Pair(1, 0)

Names == <<"reports", "alarm_review_validation">>   \* the order they are written in

VARIABLES
    review, source,
    dir, manifest,     \* the directory: file contents, and the manifest
    gen,               \* the generation under way
    ver,               \* the verification under way
    edits, runs

vars == <<review, source, dir, manifest, gen, ver, edits, runs>>

NoFiles == [reports |-> Absent, alarm_review_validation |-> Absent]
NoManifest == [inputs |-> Absent, files |-> NoFiles, quiet |-> TRUE]

Init ==
    /\ review \in Versions /\ source \in Versions
    /\ dir = NoFiles /\ manifest = NoManifest
    /\ gen = [pc |-> "idle", reviewed |-> FALSE, loaded |-> Absent, files |-> NoFiles,
              inputs |-> Absent, quiet |-> TRUE]
    /\ ver = [pc |-> "idle", reviewed |-> FALSE, manifest |-> NoManifest, quiet |-> TRUE]
    /\ edits = 0 /\ runs = 0

(***************************************************************************)
(* export_l5x_reports.                                                     *)
(***************************************************************************)

ParseSource(reviewed) ==
    /\ gen.pc = "idle" /\ runs < MaxRuns /\ runs' = runs + 1
    /\ gen' = [gen EXCEPT !.pc = "apply", !.reviewed = reviewed, !.quiet = TRUE,
                          !.loaded = Pair(Unapplied, source), !.files = NoFiles]
    /\ UNCHANGED <<review, source, dir, manifest, ver, edits>>

\* apply_alarm_review rejects a review that does not reconcile: nothing is written.
ApplyReview ==
    /\ gen.pc = "apply"
    /\ LET l == [gen.loaded EXCEPT !.review = IF gen.reviewed THEN review ELSE Unapplied]
       IN  gen' = IF gen.reviewed /\ <<review, gen.loaded.source>> \notin Reconciles
                  THEN [gen EXCEPT !.pc = "idle"]
                  ELSE [gen EXCEPT !.pc = "receipt", !.loaded = l, !.files.reports = l]
    /\ UNCHANGED <<review, source, dir, manifest, ver, edits, runs>>

\* The receipt digests the files as they are now, not as they were loaded.
MakeReceipt ==
    /\ gen.pc = "receipt"
    /\ gen' = [gen EXCEPT !.pc = "manifest",
                          !.files.alarm_review_validation =
                              IF gen.reviewed THEN Pair(review, source) ELSE Absent]
    /\ UNCHANGED <<review, source, dir, manifest, ver, edits, runs>>

\* The manifest digests the files once more, the source before the review.
DigestSource ==
    /\ gen.pc = "manifest"
    /\ gen' = [gen EXCEPT !.pc = "digest review", !.inputs = Pair(Unapplied, source)]
    /\ UNCHANGED <<review, source, dir, manifest, ver, edits, runs>>

MakeManifest ==
    /\ gen.pc = "digest review"
    /\ gen' = [gen EXCEPT !.pc = "reports",
                  !.inputs.review = IF gen.reviewed THEN review ELSE Unapplied]
    /\ UNCHANGED <<review, source, dir, manifest, ver, edits, runs>>

\* write_to replaces the files of this bundle, one after the other and in place, and
\* removes none; a file it does not write stays from an earlier bundle.
WriteFile(name, next) ==
    /\ gen.pc = name
    /\ dir' = IF gen.files[name] = Absent THEN dir
              ELSE [dir EXCEPT ![name] = gen.files[name]]
    /\ gen' = [gen EXCEPT !.pc = next]
    /\ ver' = [ver EXCEPT !.quiet = FALSE]
    /\ UNCHANGED <<review, source, manifest, edits, runs>>

WriteManifest ==
    /\ gen.pc = "write manifest"
    /\ manifest' = [inputs |-> gen.inputs, files |-> gen.files, quiet |-> gen.quiet]
    /\ gen' = [gen EXCEPT !.pc = "idle"]
    /\ ver' = [ver EXCEPT !.quiet = FALSE]
    /\ UNCHANGED <<review, source, dir, edits, runs>>

\* The process ends between two files, or ends or finds the disk full in the middle of
\* one.
StopWriting ==
    /\ gen.pc \in {"reports", "alarm_review_validation", "write manifest"}
    /\ \/ UNCHANGED <<dir, manifest>>
       \/ gen.pc = "write manifest" /\ manifest' = NoManifest /\ UNCHANGED dir
       \/ /\ gen.pc # "write manifest" /\ gen.files[gen.pc] # Absent
          /\ dir' = [dir EXCEPT ![gen.pc] = Torn] /\ UNCHANGED manifest
    /\ gen' = [gen EXCEPT !.pc = "idle"]
    /\ ver' = [ver EXCEPT !.quiet = FALSE]
    /\ UNCHANGED <<review, source, edits, runs>>

Generate == \/ \E reviewed \in BOOLEAN : ParseSource(reviewed)
            \/ ApplyReview \/ MakeReceipt \/ DigestSource \/ MakeManifest
            \/ WriteFile("reports", "alarm_review_validation")
            \/ WriteFile("alarm_review_validation", "write manifest")
            \/ WriteManifest \/ StopWriting

(***************************************************************************)
(* verify_engineering_report_bundle.                                       *)
(***************************************************************************)

Verdict(ok, next) == ver' = [ver EXCEPT !.pc = IF ok THEN next ELSE "failed"]

ReadManifest(reviewed) ==
    /\ ver.pc \in {"idle", "ok", "failed"} /\ runs < MaxRuns /\ runs' = runs + 1
    /\ ver' = [pc |-> IF manifest = NoManifest THEN "failed" ELSE "inputs",
               reviewed |-> reviewed, manifest |-> manifest, quiet |-> TRUE]
    /\ UNCHANGED <<review, source, dir, manifest, gen, edits>>

\* The kinds supplied are the manifest's, and each has the recorded digest.
InputsMatch ==
    /\ ver.reviewed = (ver.manifest.inputs.review # Unapplied)
    /\ ver.manifest.inputs = Pair(IF ver.reviewed THEN review ELSE Unapplied, source)

VerifyInputs ==
    /\ ver.pc = "inputs" /\ Verdict(InputsMatch, "files")
    /\ UNCHANGED <<review, source, dir, manifest, gen, edits, runs>>

\* Mutant: only the listed files are compared.
ListedFilesMatch ==
    \A i \in DOMAIN Names : ver.manifest.files[Names[i]] # Absent =>
        dir[Names[i]] = ver.manifest.files[Names[i]]

\* The directory holds the listed files and no other, each with its content.
FilesMatch == dir = ver.manifest.files

VerifyFiles ==
    /\ ver.pc = "files" /\ Verdict(FilesMatch, "receipts")
    /\ UNCHANGED <<review, source, dir, manifest, gen, edits, runs>>

\* A review needs a receipt that names the manifested inputs, and nothing else has one.
VerifyReceipts ==
    /\ ver.pc = "receipts"
    /\ LET listed == ver.manifest.files.alarm_review_validation # Absent
       IN  Verdict(IF ver.manifest.inputs.review = Unapplied THEN ~listed
                   ELSE listed /\ dir.alarm_review_validation = ver.manifest.inputs, "ok")
    /\ UNCHANGED <<review, source, dir, manifest, gen, edits, runs>>

Verify == (\E reviewed \in BOOLEAN : ReadManifest(reviewed)) \/ VerifyInputs
          \/ VerifyFiles \/ VerifyReceipts

Edit ==
    /\ edits < MaxEdits /\ edits' = edits + 1
    /\ \/ review' \in Versions \ {review} /\ UNCHANGED source
       \/ source' \in Versions \ {source} /\ UNCHANGED review
    /\ gen' = [gen EXCEPT !.quiet = FALSE] /\ ver' = [ver EXCEPT !.quiet = FALSE]
    /\ UNCHANGED <<dir, manifest, runs>>

Next == Generate \/ Verify \/ Edit

Spec == Init /\ [][Next]_vars

(***************************************************************************)
(* Properties.                                                             *)
(***************************************************************************)

Verified == ver.pc = "ok" /\ ver.quiet

\* A bundle that verifies while nothing changes is one generation's: no file of an
\* earlier bundle, no half-written file, and a receipt for the review that was
\* given and for no other, whatever was interrupted before.
VerifiedBundleIsOneGeneration ==
    Verified =>
        /\ dir = manifest.files /\ Torn \notin {dir[Names[i]] : i \in DOMAIN Names}
        /\ dir.alarm_review_validation =
              IF manifest.inputs.review = Unapplied THEN Absent ELSE manifest.inputs

\* "It records SHA-256 digests and byte sizes for the source L5X, any applied
\* review overlays": the digests are of the source and the review that were applied.
ManifestNamesAppliedInputs == manifest # NoManifest => manifest.files.reports = manifest.inputs

\* "Create *directory* and write every report, replacing old reports.": after a
\* complete, undisturbed generation the bundle verifies against its inputs.
CompleteBundleVerifies ==
    ver.pc = "failed" /\ ver.quiet /\ gen.pc = "idle" /\ manifest.quiet =>
        \/ manifest = NoManifest \/ dir.reports = Torn \/ dir.alarm_review_validation = Torn
        \/ manifest.inputs # Pair(IF ver.reviewed THEN review ELSE Unapplied, source)
        \/ dir.reports # manifest.files.reports
=============================================================================
