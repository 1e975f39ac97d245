--------------------------- MODULE CommandsProofs ---------------------------
(***************************************************************************)
(* Proofs about the commands that capture from devices or write documents, *)
(* for every plan, device, agent and number of runs, edits and failures.   *)
(***************************************************************************)
EXTENDS Commands, FiniteSetTheorems, NaturalsInduction, TLAPS

(***************************************************************************)
(* The converter of an approved walk.                                      *)
(***************************************************************************)

\* The first two files a converter has moved are in place; while it has had the
\* directory to itself there is no receipt yet, and they are its own.
MovedInPlace(c) ==
    /\ converter[c] \in {2, 3} => files["output"] # 0
    /\ converter[c] = 3 => files["sidecar"] # 0
    /\ converter[c] # 0 /\ ~overlap =>
          /\ files["receipt"] = 0
          /\ converter[c] \in {2, 3} => files["output"] = decoded[c]
          /\ converter[c] = 3 => files["sidecar"] = decoded[c]

ConversionInv ==
    /\ input \in WalkVersions /\ overlap \in BOOLEAN
    /\ converter \in [Converters -> 0..4]
    /\ decoded \in [Converters -> WalkVersions \cup {0}]
    /\ DOMAIN files = {"output", "sidecar", "receipt"}
    /\ \A c \in Converters : converter[c] \in 1..3 => decoded[c] # 0
    /\ ~overlap => \A c, d \in Converters : converter[c] # 0 /\ converter[d] # 0 => c = d
    /\ \A c \in Converters : MovedInPlace(c)
    /\ ReceiptMarksCompletion

LEMMA ConversionInvInit == Conversion!Init => ConversionInv
<1>1. SUFFICES ASSUME Conversion!Init PROVE ConversionInv
  OBVIOUS
<1>2. /\ input \in WalkVersions /\ overlap = FALSE
      /\ converter = [c \in Converters |-> 0] /\ decoded = [c \in Converters |-> 0]
      /\ files = [f \in {"output", "sidecar", "receipt"} |-> 0]
  BY <1>1 DEF Conversion!Init, Conversion!Files, Conversion!Idle
<1>3. converter \in [Converters -> 0..4] /\ decoded \in [Converters -> WalkVersions \cup {0}]
  BY <1>2
<1>4. \A c \in Converters : converter[c] = 0
  BY <1>2
<1>5. files["receipt"] = 0 /\ DOMAIN files = {"output", "sidecar", "receipt"}
  BY <1>2
<1>6. \A c \in Converters : MovedInPlace(c)
  BY <1>4 DEF MovedInPlace
<1>7. overlap \in BOOLEAN /\ ReceiptMarksCompletion
  BY <1>2, <1>5 DEF ReceiptMarksCompletion, Conversion!ReceiptMarksCompletion
<1>8. QED
  BY <1>2, <1>3, <1>4, <1>5, <1>6, <1>7 DEF ConversionInv

\* A converter that begins finds no file; from then on another one beginning is an
\* overlap.
LEMMA BeginKeepsConversion ==
    ASSUME ConversionInv, NEW c \in Converters, NEW v \in WalkVersions, Conversion!Begin(c, v)
    PROVE  ConversionInv'
<1>1. /\ UNCHANGED <<input, files, decoded>> /\ converter' = [converter EXCEPT ![c] = 4]
      /\ \A f \in {"output", "sidecar", "receipt"} : files[f] = 0
      /\ overlap' = (overlap \/ \E d \in Converters \ {c} : converter[d] # 0)
      /\ converter[c] = 0
  BY DEF Conversion!Begin, Conversion!Goto, Conversion!Files, Conversion!Idle, Conversion!Decoding
<1>2. converter' \in [Converters -> 0..4] /\ overlap' \in BOOLEAN
  BY <1>1 DEF ConversionInv
<1>3. \A d \in Converters : converter'[d] = IF d = c THEN 4 ELSE converter[d]
  BY <1>1 DEF ConversionInv
<1>4. ~overlap' => \A d, e \in Converters : converter'[d] # 0 /\ converter'[e] # 0 => d = e
  BY <1>1, <1>3 DEF ConversionInv
<1>5. \A d \in Converters : MovedInPlace(d)'
  <2>1. SUFFICES ASSUME NEW d \in Converters PROVE MovedInPlace(d)'
    OBVIOUS
  <2>2. files'["output"] = 0 /\ files'["sidecar"] = 0 /\ files'["receipt"] = 0
    BY <1>1
  <2>3. converter'[d] \notin {2, 3}
    BY <1>1, <1>3 DEF ConversionInv, MovedInPlace
  <2>4. QED
    BY <2>2, <2>3 DEF MovedInPlace
<1>6. ReceiptMarksCompletion'
  BY <1>1 DEF ReceiptMarksCompletion, Conversion!ReceiptMarksCompletion
<1>7. QED
  BY <1>1, <1>2, <1>3, <1>4, <1>5, <1>6 DEF ConversionInv

LEMMA DecodeKeepsConversion ==
    ASSUME ConversionInv, NEW c \in Converters, Conversion!Decode(c)
    PROVE  ConversionInv'
BY VersionAssumption
   DEF Conversion!Decode, Conversion!Goto, Conversion!Files, Conversion!Idle, Conversion!Decoding,
       ConversionInv, MovedInPlace, ReceiptMarksCompletion, Conversion!ReceiptMarksCompletion

LEMMA MoveKeepsConversion ==
    ASSUME ConversionInv, NEW c \in Converters, Conversion!Move(c)
    PROVE  ConversionInv'
<1>1. CASE converter[c] = 1
  BY <1>1 DEF Conversion!Move, Conversion!Goto, Conversion!Files, Conversion!Idle, Conversion!Payloads,
       ConversionInv, MovedInPlace, ReceiptMarksCompletion, Conversion!ReceiptMarksCompletion
<1>2. CASE converter[c] = 2
  BY <1>2 DEF Conversion!Move, Conversion!Goto, Conversion!Files, Conversion!Idle, Conversion!Payloads,
       ConversionInv, MovedInPlace, ReceiptMarksCompletion, Conversion!ReceiptMarksCompletion
<1>3. CASE converter[c] = 3
  BY <1>3 DEF Conversion!Move, Conversion!Goto, Conversion!Files, Conversion!Idle, Conversion!Payloads,
       ConversionInv, MovedInPlace, ReceiptMarksCompletion, Conversion!ReceiptMarksCompletion
<1>4. QED
  BY <1>1, <1>2, <1>3 DEF Conversion!Move

LEMMA StopKeepsConversion ==
    ASSUME ConversionInv, NEW c \in Converters, Conversion!Stop(c)
    PROVE  ConversionInv'
BY DEF Conversion!Stop, Conversion!Goto, Conversion!Files, Conversion!Idle,
       ConversionInv, MovedInPlace, ReceiptMarksCompletion, Conversion!ReceiptMarksCompletion

\* "The receipt is written last and therefore acts as the completion marker": with a
\* receipt the recording and the sidecar are there too, whatever stopped, and unless
\* two conversions ran at once all three are of one decoded walk; for any number of
\* converters.
THEOREM ReceiptIsLast == Conversion!Spec => []ReceiptMarksCompletion
<1>1. ConversionInv /\ [Conversion!Next]_(Conversion!vars) => ConversionInv'
  <2>1. SUFFICES ASSUME ConversionInv, [Conversion!Next]_(Conversion!vars) PROVE ConversionInv'
    OBVIOUS
  <2>2. CASE UNCHANGED Conversion!vars
    BY <2>1, <2>2 DEF Conversion!vars, ConversionInv, MovedInPlace, ReceiptMarksCompletion,
                      Conversion!ReceiptMarksCompletion, Conversion!Files
  <2>3. CASE Conversion!Edit
    BY <2>1, <2>3 DEF Conversion!Edit, ConversionInv, MovedInPlace, ReceiptMarksCompletion,
                      Conversion!ReceiptMarksCompletion, Conversion!Files
  <2>4. ASSUME NEW c \in Converters,
               \/ \E v \in WalkVersions : Conversion!Begin(c, v)
               \/ Conversion!Decode(c) \/ Conversion!Move(c) \/ Conversion!Stop(c)
        PROVE  ConversionInv'
    BY <2>1, <2>4, BeginKeepsConversion, DecodeKeepsConversion, MoveKeepsConversion,
       StopKeepsConversion
  <2>5. QED
    BY <2>1, <2>2, <2>3, <2>4 DEF Conversion!Next
<1>2. ConversionInv => ReceiptMarksCompletion
  BY DEF ConversionInv
<1>3. QED
  BY <1>1, <1>2, ConversionInvInit, PTL DEF Conversion!Spec

(***************************************************************************)
(* `review validate` and `review verify-receipt`.                          *)
(***************************************************************************)

\* What a command that no edit disturbed has read, up to where it is.
QuietCommand(c) ==
    quiet[c] =>
        /\ pc[c] = "load" =>
              \/ loaded[c].review = 0 /\ loaded[c].source = source
              \/ loaded[c].review = review
        /\ pc[c] \notin {"idle", "load"} =>
              loaded[c].review = review /\ <<review, source>> \in Reconciles
        /\ pc[c] \in {"digest source", "conclude"} => digest[c].review = review
        /\ pc[c] = "conclude" => digest[c].source = source

\* What the last verification established, if nothing was edited since it began.
QuietVerdict ==
    result["verify"] = "ok" =>
        /\ pc["verify"] = "idle"
        /\ quiet["verify"] =>
              Receipt!Sound(observed) /\ observed.review = review /\ observed.source = source

\* A receipt written without an edit in between is sound if it is a receipt at all.
SoundFile(r, undisturbed) ==
    r \notin {Receipt!NoReceipt, Receipt!Torn} /\ undisturbed => Receipt!Sound(r)

\* The receipt in place, and every one that a power loss may leave in its place.
FilesInv ==
    SoundFile(receipt, basisQuiet) /\ \A d \in durable : SoundFile(d.receipt, d.quiet)

PerCommand(S) == [{"validate", "verify"} -> S]
Loaded == [review : ReviewVersions \cup {0}, source : ReviewVersions \cup {0}]

CommandType ==
    /\ pc \in PerCommand({"idle", "load", "read", "digest", "digest source", "conclude"})
    /\ loaded \in PerCommand(Loaded) /\ digest \in PerCommand(Loaded)
    /\ quiet \in PerCommand(BOOLEAN)
    /\ result \in PerCommand({"none", "ok", "failed"})
    /\ review \in ReviewVersions /\ source \in ReviewVersions

ReceiptInv ==
    /\ CommandType
    /\ \A c \in {"validate", "verify"} : QuietCommand(c)
    /\ QuietVerdict
    /\ FilesInv

LEMMA ReceiptInvInit == Receipt!Init => ReceiptInv
<1>1. SUFFICES ASSUME Receipt!Init PROVE ReceiptInv
  OBVIOUS
<1>2. /\ review \in ReviewVersions /\ source \in ReviewVersions /\ receipt = Receipt!NoReceipt
      /\ pc = [c \in {"validate", "verify"} |-> "idle"]
      /\ result = [c \in {"validate", "verify"} |-> "none"]
      /\ loaded = [c \in {"validate", "verify"} |-> [review |-> 0, source |-> 0]]
      /\ digest = [c \in {"validate", "verify"} |-> [review |-> 0, source |-> 0]]
      /\ quiet = [c \in {"validate", "verify"} |-> TRUE]
      /\ durable = {Receipt!Written(Receipt!NoReceipt, Receipt!Blank, TRUE)}
  BY <1>1 DEF Receipt!Init, Receipt!Commands, Receipt!Blank
<1>3. CommandType
  BY <1>2 DEF CommandType, PerCommand, Loaded
<1>4. QuietVerdict /\ \A c \in {"validate", "verify"} : QuietCommand(c)
  BY <1>2 DEF QuietCommand, QuietVerdict
<1>5. FilesInv
  <2>1. Receipt!Written(Receipt!NoReceipt, Receipt!Blank, TRUE).receipt = Receipt!NoReceipt
    BY DEF Receipt!Written
  <2>2. QED
    BY <1>2, <2>1 DEF FilesInv, SoundFile
<1>6. QED
  BY <1>3, <1>4, <1>5 DEF ReceiptInv

\* A step leaves the other command where it is.
OthersStay(c) ==
    \A d \in {"validate", "verify"} \ {c} :
        /\ pc'[d] = pc[d] /\ loaded'[d] = loaded[d] /\ digest'[d] = digest[d]
        /\ quiet'[d] = quiet[d] /\ result'[d] = result[d]

LEMMA OtherKeepsQuiet ==
    ASSUME ReceiptInv, NEW c \in {"validate", "verify"}, UNCHANGED <<review, source>>,
           OthersStay(c), QuietCommand(c)'
    PROVE  \A d \in {"validate", "verify"} : QuietCommand(d)'
<1>1. ASSUME NEW d \in {"validate", "verify"}, d # c PROVE QuietCommand(d)'
  <2>1. QuietCommand(d)
    BY DEF ReceiptInv
  <2>2. /\ pc'[d] = pc[d] /\ loaded'[d] = loaded[d] /\ digest'[d] = digest[d]
        /\ quiet'[d] = quiet[d]
    BY <1>1 DEF OthersStay
  <2>3. QED
    BY <2>1, <2>2 DEF QuietCommand
<1>2. QED
  BY <1>1

\* A verification that is at work has no verdict, and no other step changes one.
LEMMA WorkKeepsVerdict ==
    ASSUME ReceiptInv, NEW c \in {"validate", "verify"}, UNCHANGED <<review, source>>,
           OthersStay(c), c = "verify" => result'["verify"] # "ok",
           c = "validate" => UNCHANGED observed
    PROVE  QuietVerdict'
<1>1. CASE c = "verify"
  BY <1>1 DEF QuietVerdict
<1>2. CASE c = "validate"
  <2>1. /\ pc'["verify"] = pc["verify"] /\ quiet'["verify"] = quiet["verify"]
        /\ result'["verify"] = result["verify"] /\ observed' = observed
    BY <1>2 DEF OthersStay
  <2>2. QuietVerdict
    BY DEF ReceiptInv
  <2>3. QED
    BY <2>1, <2>2 DEF QuietVerdict, Receipt!Sound
<1>3. QED
  BY <1>1, <1>2

LEMMA SameFiles ==
    ASSUME ReceiptInv, UNCHANGED <<receipt, durable, basisQuiet>>
    PROVE  FilesInv'
BY DEF ReceiptInv, FilesInv, SoundFile, Receipt!Sound, Receipt!NoReceipt, Receipt!Torn

\* The steps that read an input to validate it.
LEMMA FirstLoadKeepsReceipt ==
    ASSUME ReceiptInv, NEW c \in {"validate", "verify"}, NEW kind, Receipt!LoadFirst(c, kind)
    PROVE  ReceiptInv'
<1> DEFINE doc == IF kind = "io-mapping" THEN [Receipt!Blank EXCEPT !.review = review]
                  ELSE [Receipt!Blank EXCEPT !.source = source]
<1>1. /\ pc' = [pc EXCEPT ![c] = "load"] /\ result' = [result EXCEPT ![c] = "none"]
      /\ loaded' = [loaded EXCEPT ![c] = doc] /\ quiet' = [quiet EXCEPT ![c] = TRUE]
      /\ UNCHANGED <<review, source, receipt, durable, basisQuiet, digest, observed>>
  BY DEF Receipt!LoadFirst, Receipt!Goto, Receipt!inputs, Receipt!file
<1>2. /\ doc \in Loaded
      /\ (doc.review = 0 /\ doc.source = source) \/ doc.review = review
  BY DEF ReceiptInv, CommandType, Loaded, Receipt!Blank
<1> HIDE DEF doc
<1>3. /\ pc'[c] = "load" /\ result'[c] = "none" /\ loaded'[c] = doc
      /\ OthersStay(c) /\ CommandType'
  BY <1>1, <1>2 DEF ReceiptInv, CommandType, PerCommand, OthersStay
<1>4. QuietCommand(c)'
  BY <1>1, <1>2, <1>3 DEF QuietCommand
<1>5. QED
  BY <1>1, <1>3, <1>4, OtherKeepsQuiet, WorkKeepsVerdict, SameFiles DEF ReceiptInv

LEMMA SecondLoadKeepsReceipt ==
    ASSUME ReceiptInv, NEW c \in {"validate", "verify"}, Receipt!LoadSecond(c)
    PROVE  ReceiptInv'
<1> DEFINE doc == Receipt!Completed(loaded[c])
           fits == <<doc.review, doc.source>> \in Reconciles
<1>1. /\ pc[c] = "load" /\ loaded' = [loaded EXCEPT ![c] = doc]
      /\ UNCHANGED <<review, source, receipt, durable, basisQuiet, digest, observed, quiet>>
      /\ IF <<loaded'[c].review, loaded'[c].source>> \in Reconciles
         THEN /\ pc' = [pc EXCEPT ![c] = IF c = "verify" THEN "read" ELSE "digest"]
              /\ result' = result
         ELSE pc' = [pc EXCEPT ![c] = "idle"] /\ result' = [result EXCEPT ![c] = "failed"]
  BY DEF Receipt!LoadSecond, Receipt!Goto, Receipt!Fail, Receipt!inputs, Receipt!file
<1>2. loaded[c] \in Loaded /\ review \in ReviewVersions /\ source \in ReviewVersions
  BY DEF ReceiptInv, CommandType, PerCommand
<1>3. /\ doc \in Loaded
      /\ IF loaded[c].review = 0 THEN doc.review = review /\ doc.source = loaded[c].source
         ELSE doc.review = loaded[c].review /\ doc.source = source
  BY <1>2 DEF Receipt!Completed, Loaded
<1> HIDE DEF doc
<1>4. loaded'[c] = doc
  BY <1>1 DEF ReceiptInv, CommandType, PerCommand
<1>5. IF fits
      THEN /\ pc' = [pc EXCEPT ![c] = IF c = "verify" THEN "read" ELSE "digest"]
           /\ result' = result
      ELSE pc' = [pc EXCEPT ![c] = "idle"] /\ result' = [result EXCEPT ![c] = "failed"]
  BY <1>1, <1>4
<1> HIDE DEF fits
<1>a. /\ pc \in PerCommand({"idle", "load", "read", "digest", "digest source", "conclude"})
      /\ loaded \in PerCommand(Loaded) /\ result \in PerCommand({"none", "ok", "failed"})
  BY DEF ReceiptInv, CommandType
<1>b. PICK to \in {"idle", "read", "digest"} :
          pc' = [pc EXCEPT ![c] = to] /\ (fits <=> to # "idle")
  BY <1>5
<1>c. pc' \in PerCommand({"idle", "load", "read", "digest", "digest source", "conclude"})
  BY <1>a, <1>b DEF PerCommand
<1>d. loaded' \in PerCommand(Loaded)
  BY <1>1, <1>3, <1>a DEF PerCommand
<1>e. result' \in PerCommand({"none", "ok", "failed"})
  BY <1>5, <1>a DEF PerCommand
<1>f. CommandType'
  BY <1>1, <1>c, <1>d, <1>e DEF ReceiptInv, CommandType
<1>g. ASSUME NEW d \in {"validate", "verify"} \ {c}
      PROVE  pc'[d] = pc[d] /\ loaded'[d] = loaded[d] /\ result'[d] = result[d]
  <2>1. pc'[d] = pc[d]
    BY <1>a, <1>b DEF PerCommand
  <2>2. loaded'[d] = loaded[d]
    BY <1>1, <1>a DEF PerCommand
  <2>3. result'[d] = result[d]
    BY <1>5, <1>a DEF PerCommand
  <2>4. QED
    BY <2>1, <2>2, <2>3
<1>h. OthersStay(c)
  BY <1>1, <1>g DEF OthersStay
<1>6. /\ OthersStay(c) /\ CommandType' /\ (fits => pc'[c] \in {"read", "digest"})
      /\ (~fits => pc'[c] = "idle")
  <2>1. pc'[c] = to
    BY <1>a, <1>b DEF PerCommand
  <2>2. QED
    BY <1>b, <1>f, <1>h, <2>1
<1>7. ASSUME c = "verify" PROVE result'["verify"] # "ok"
  <2>1. result["verify"] # "ok"
    BY <1>1, <1>7 DEF ReceiptInv, QuietVerdict
  <2>2. result'["verify"] = result["verify"] \/ result'["verify"] = "failed"
    BY <1>5, <1>7 DEF ReceiptInv, CommandType, PerCommand
  <2>3. QED
    BY <2>1, <2>2
<1>8. QuietCommand(c)'
  <2>1. CASE ~fits
    BY <1>6, <2>1 DEF QuietCommand
  <2>2. CASE fits
    <3>1. QuietCommand(c) /\ review # 0
      BY <1>2, VersionAssumption DEF ReceiptInv
    <3>2. quiet[c] => doc.review = review /\ doc.source = source
      BY <1>1, <1>3, <3>1 DEF QuietCommand
    <3>3. quiet[c] => <<review, source>> \in Reconciles
      BY <2>2, <3>2 DEF fits
    <3>4. QED
      BY <1>1, <1>4, <1>6, <2>2, <3>2, <3>3 DEF QuietCommand
  <2>3. QED
    BY <2>1, <2>2
<1>9. QuietVerdict'
  BY <1>1, <1>6, <1>7, WorkKeepsVerdict
<1>10. QED
  BY <1>1, <1>6, <1>8, <1>9, OtherKeepsQuiet, SameFiles DEF ReceiptInv

\* A digest is filed and its command moves on.
LEMMA DigestIsFiled ==
    ASSUME ReceiptInv, NEW c \in {"validate", "verify"},
           NEW to \in {"digest source", "conclude"}, NEW read \in Loaded,
           pc' = [pc EXCEPT ![c] = to], digest' = [digest EXCEPT ![c] = read],
           UNCHANGED <<review, source, loaded, result, quiet>>
    PROVE  CommandType' /\ OthersStay(c) /\ pc'[c] = to /\ digest'[c] = read
<1>1. /\ pc \in PerCommand({"idle", "load", "read", "digest", "digest source", "conclude"})
      /\ digest \in PerCommand(Loaded)
  BY DEF ReceiptInv, CommandType
<1>2. /\ pc' \in PerCommand({"idle", "load", "read", "digest", "digest source", "conclude"})
      /\ pc'[c] = to /\ \A d \in {"validate", "verify"} \ {c} : pc'[d] = pc[d]
  BY <1>1 DEF PerCommand
<1>3. /\ digest' \in PerCommand(Loaded) /\ digest'[c] = read
      /\ \A d \in {"validate", "verify"} \ {c} : digest'[d] = digest[d]
  BY <1>1 DEF PerCommand
<1>4. CommandType'
  BY <1>2, <1>3 DEF ReceiptInv, CommandType
<1>5. OthersStay(c)
  BY <1>2, <1>3 DEF OthersStay
<1>6. QED
  BY <1>2, <1>3, <1>4, <1>5

\* The steps that read an input to digest it.
LEMMA DigestsKeepReceipt ==
    ASSUME ReceiptInv, NEW c \in {"validate", "verify"},
           Receipt!DigestReview(c) \/ Receipt!DigestSource(c)
    PROVE  ReceiptInv'
<1>1. /\ UNCHANGED <<review, source, receipt, durable, basisQuiet, loaded, observed, result, quiet>>
      /\ \/ /\ pc[c] = "digest" /\ pc' = [pc EXCEPT ![c] = "digest source"]
            /\ digest' = [digest EXCEPT ![c].review = review]
         \/ /\ pc[c] = "digest source" /\ pc' = [pc EXCEPT ![c] = "conclude"]
            /\ digest' = [digest EXCEPT ![c].source = source]
  BY DEF Receipt!DigestReview, Receipt!DigestSource, Receipt!Goto, Receipt!inputs, Receipt!file
<1>2. digest[c] \in Loaded /\ review \in ReviewVersions /\ source \in ReviewVersions
  BY DEF ReceiptInv, CommandType, PerCommand
<1>3. c = "verify" => result'["verify"] # "ok"
  BY <1>1 DEF ReceiptInv, QuietVerdict
<1>4. CASE pc[c] = "digest" /\ pc' = [pc EXCEPT ![c] = "digest source"]
           /\ digest' = [digest EXCEPT ![c].review = review]
  <2> DEFINE read == [digest[c] EXCEPT !.review = review]
  <2>a. read \in Loaded /\ read.review = review
    BY <1>2 DEF Loaded
  <2>b. digest' = [digest EXCEPT ![c] = read]
    BY <1>4, Zenon
  <2>1. digest' = [digest EXCEPT ![c] = read] /\ read \in Loaded /\ read.review = review
    BY <2>a, <2>b
  <2> HIDE DEF read
  <2>2. /\ CommandType' /\ OthersStay(c) /\ pc'[c] = "digest source" /\ digest'[c] = read
    BY <1>1, <1>4, <2>1, DigestIsFiled
  <2>3. QuietCommand(c)'
    BY <1>1, <1>4, <2>1, <2>2 DEF ReceiptInv, QuietCommand
  <2>4. QED
    BY <1>1, <1>3, <2>2, <2>3, OtherKeepsQuiet, WorkKeepsVerdict, SameFiles DEF ReceiptInv
<1>5. CASE pc[c] = "digest source" /\ pc' = [pc EXCEPT ![c] = "conclude"]
           /\ digest' = [digest EXCEPT ![c].source = source]
  <2> DEFINE read == [digest[c] EXCEPT !.source = source]
  <2>a. read \in Loaded /\ read.review = digest[c].review /\ read.source = source
    BY <1>2 DEF Loaded
  <2>b. digest' = [digest EXCEPT ![c] = read]
    BY <1>5, Zenon
  <2>1. digest' = [digest EXCEPT ![c] = read] /\ read \in Loaded /\ read.review = digest[c].review /\ read.source = source
    BY <2>a, <2>b
  <2> HIDE DEF read
  <2>2. /\ CommandType' /\ OthersStay(c) /\ pc'[c] = "conclude" /\ digest'[c] = read
    BY <1>1, <1>5, <2>1, DigestIsFiled
  <2>3. QuietCommand(c)'
    BY <1>1, <1>5, <2>1, <2>2 DEF ReceiptInv, QuietCommand
  <2>4. QED
    BY <1>1, <1>3, <2>2, <2>3, OtherKeepsQuiet, WorkKeepsVerdict, SameFiles DEF ReceiptInv
<1>6. QED
  BY <1>1, <1>4, <1>5

\* A command that ends has read nothing any more.
LEMMA EndsKeepReceipt ==
    ASSUME ReceiptInv, NEW c \in {"validate", "verify"}, NEW verdict \in {"ok", "failed"},
           pc' = [pc EXCEPT ![c] = "idle"], result' = [result EXCEPT ![c] = verdict],
           UNCHANGED <<review, source, loaded, digest, quiet>>
    PROVE  /\ CommandType' /\ OthersStay(c) /\ result'[c] = verdict /\ pc'[c] = "idle"
           /\ \A d \in {"validate", "verify"} : QuietCommand(d)'
<1>1. CommandType' /\ OthersStay(c) /\ pc'[c] = "idle" /\ result'[c] = verdict
  BY DEF ReceiptInv, CommandType, PerCommand, OthersStay
<1>2. QuietCommand(c)'
  BY <1>1 DEF QuietCommand
<1>3. QED
  BY <1>1, <1>2, OtherKeepsQuiet

\* What a command is about to write, or to compare, is sound.
LEMMA EvidenceIsSound ==
    ASSUME ReceiptInv, NEW c \in {"validate", "verify"}, pc[c] = "conclude", quiet[c]
    PROVE  /\ Receipt!Sound(Receipt!Evidence(c))
           /\ Receipt!Evidence(c).review = review /\ Receipt!Evidence(c).source = source
<1>1. /\ loaded[c].review = review /\ <<review, source>> \in Reconciles
      /\ digest[c].review = review /\ digest[c].source = source
  BY DEF ReceiptInv, QuietCommand
<1>2. /\ Receipt!Evidence(c).review = review /\ Receipt!Evidence(c).source = source
      /\ Receipt!Evidence(c).item_count = ReviewItems[review]
  BY <1>1 DEF Receipt!Evidence
<1>3. QED
  BY <1>1, <1>2 DEF Receipt!Sound

LEMMA WriteKeepsReceipt ==
    ASSUME ReceiptInv, Receipt!WriteReceipt
    PROVE  ReceiptInv'
<1> DEFINE torn == Receipt!Written(Receipt!Torn, Receipt!Blank, FALSE)
           whole == Receipt!Written(receipt', basis', basisQuiet')
<1>1. /\ pc["validate"] = "conclude" /\ pc' = [pc EXCEPT !["validate"] = "idle"]
      /\ result' = [result EXCEPT !["validate"] = "ok"]
      /\ receipt' = Receipt!Evidence("validate") /\ basisQuiet' = quiet["validate"]
      /\ durable' = durable \cup {torn, whole}
      /\ UNCHANGED <<review, source, loaded, digest, observed, quiet>>
  BY DEF Receipt!WriteReceipt, Receipt!Goto, Receipt!inputs
<1>2. /\ CommandType' /\ OthersStay("validate")
      /\ \A d \in {"validate", "verify"} : QuietCommand(d)'
  BY <1>1, EndsKeepReceipt
<1>3. QuietVerdict'
  BY <1>1, <1>2, WorkKeepsVerdict
<1>4. SoundFile(receipt, basisQuiet)'
  <2>1. basisQuiet' => Receipt!Sound(receipt')
    BY <1>1, EvidenceIsSound
  <2>2. QED
    BY <2>1 DEF SoundFile, Receipt!Sound
<1>5. /\ torn.receipt = Receipt!Torn
      /\ whole.receipt = receipt' /\ whole.quiet = basisQuiet'
  BY DEF Receipt!Written
<1> HIDE DEF torn, whole
<1>6. ASSUME NEW d \in durable' PROVE SoundFile(d.receipt, d.quiet)
  <2>1. CASE d \in durable
    BY <2>1 DEF ReceiptInv, FilesInv
  <2>2. CASE d = torn
    BY <1>5, <2>2 DEF SoundFile
  <2>3. CASE d = whole
    BY <1>4, <1>5, <2>3 DEF SoundFile, Receipt!Sound
  <2>4. QED
    BY <1>1, <1>6, <2>1, <2>2, <2>3
<1>7. QED
  BY <1>2, <1>3, <1>4, <1>6 DEF ReceiptInv, FilesInv, SoundFile, Receipt!Sound

LEMMA CompareKeepsReceipt ==
    ASSUME ReceiptInv, Receipt!CompareReceipt
    PROVE  ReceiptInv'
<1>1. /\ pc["verify"] = "conclude" /\ pc' = [pc EXCEPT !["verify"] = "idle"]
      /\ UNCHANGED <<review, source, receipt, durable, basisQuiet, loaded, digest, observed, quiet>>
      /\ \/ /\ observed = Receipt!Evidence("verify")
            /\ result' = [result EXCEPT !["verify"] = "ok"]
         \/ result' = [result EXCEPT !["verify"] = "failed"]
  BY DEF Receipt!CompareReceipt, Receipt!Goto, Receipt!Fail, Receipt!inputs, Receipt!file
<1>2. CASE observed = Receipt!Evidence("verify") /\ result' = [result EXCEPT !["verify"] = "ok"]
  <2>1. /\ CommandType' /\ pc'["verify"] = "idle"
        /\ \A d \in {"validate", "verify"} : QuietCommand(d)'
    BY <1>1, <1>2, EndsKeepReceipt
  <2>2. quiet["verify"] =>
            Receipt!Sound(observed) /\ observed.review = review /\ observed.source = source
    BY <1>1, <1>2, EvidenceIsSound
  <2>3. QuietVerdict'
    BY <1>1, <2>1, <2>2 DEF QuietVerdict, Receipt!Sound
  <2>4. QED
    BY <1>1, <2>1, <2>3, SameFiles DEF ReceiptInv
<1>3. CASE result' = [result EXCEPT !["verify"] = "failed"]
  <2>1. /\ CommandType' /\ OthersStay("verify") /\ result'["verify"] = "failed"
        /\ \A d \in {"validate", "verify"} : QuietCommand(d)'
    BY <1>1, <1>3, EndsKeepReceipt
  <2>2. QED
    BY <1>1, <2>1, WorkKeepsVerdict, SameFiles DEF ReceiptInv
<1>4. QED
  BY <1>1, <1>2, <1>3

LEMMA ReadKeepsReceipt ==
    ASSUME ReceiptInv, Receipt!ReadReceipt
    PROVE  ReceiptInv'
<1>1. /\ pc["verify"] = "read"
      /\ UNCHANGED <<review, source, receipt, durable, basisQuiet, loaded, digest, quiet>>
      /\ \/ /\ pc' = [pc EXCEPT !["verify"] = "idle"]
            /\ result' = [result EXCEPT !["verify"] = "failed"]
         \/ pc' = [pc EXCEPT !["verify"] = "digest"] /\ result' = result
  BY DEF Receipt!ReadReceipt, Receipt!Goto, Receipt!Fail, Receipt!inputs, Receipt!file
<1>2. CASE pc' = [pc EXCEPT !["verify"] = "idle"] /\ result' = [result EXCEPT !["verify"] = "failed"]
  <2>1. /\ CommandType' /\ OthersStay("verify") /\ result'["verify"] = "failed"
        /\ \A d \in {"validate", "verify"} : QuietCommand(d)'
    BY <1>1, <1>2, EndsKeepReceipt
  <2>2. QED
    BY <1>1, <2>1, WorkKeepsVerdict, SameFiles DEF ReceiptInv
<1>3. CASE pc' = [pc EXCEPT !["verify"] = "digest"] /\ result' = result
  <2>1. /\ CommandType' /\ OthersStay("verify") /\ pc'["verify"] = "digest"
    BY <1>1, <1>3 DEF ReceiptInv, CommandType, PerCommand, OthersStay
  <2>2. QuietCommand("verify")'
    BY <1>1, <2>1 DEF ReceiptInv, QuietCommand
  <2>3. result'["verify"] # "ok"
    BY <1>1, <1>3 DEF ReceiptInv, QuietVerdict
  <2>4. QED
    BY <1>1, <2>1, <2>2, <2>3, OtherKeepsQuiet, WorkKeepsVerdict, SameFiles DEF ReceiptInv
<1>4. QED
  BY <1>1, <1>2, <1>3

\* An edit disturbs every command that is at work, and the last verdict.
LEMMA EditKeepsReceipt ==
    ASSUME ReceiptInv, Receipt!Edit
    PROVE  ReceiptInv'
<1>1. /\ review' \in ReviewVersions /\ source' \in ReviewVersions
      /\ UNCHANGED <<receipt, durable, basisQuiet, pc, loaded, digest, result>>
      /\ quiet' = [c \in {"validate", "verify"} |-> FALSE]
  BY DEF ReceiptInv, CommandType, Receipt!Edit, Receipt!Commands, Receipt!file
<1>2. quiet' \in PerCommand(BOOLEAN) /\ \A c \in {"validate", "verify"} : ~quiet'[c]
  BY <1>1, Zenon DEF PerCommand
<1>3. CommandType'
  BY <1>1, <1>2 DEF ReceiptInv, CommandType
<1>4. QuietVerdict' /\ \A c \in {"validate", "verify"} : QuietCommand(c)'
  BY <1>1, <1>2 DEF ReceiptInv, QuietCommand, QuietVerdict
<1>5. QED
  BY <1>1, <1>3, <1>4, SameFiles DEF ReceiptInv

\* Write-back keeps the receipt in place; a power loss leaves one of the durable ones.
LEMMA DiskKeepsReceipt ==
    ASSUME ReceiptInv, Receipt!WriteBack \/ Receipt!PowerLoss
    PROVE  ReceiptInv'
<1>1. CASE Receipt!WriteBack
  <2> DEFINE kept == Receipt!Written(receipt, basis, basisQuiet)
  <2>1. /\ UNCHANGED <<review, source, receipt, basisQuiet, pc, loaded, digest, observed, result, quiet>>
        /\ durable' = {kept}
    BY <1>1 DEF Receipt!WriteBack, Receipt!inputs
  <2>2. kept.receipt = receipt /\ kept.quiet = basisQuiet
    BY DEF Receipt!Written
  <2> HIDE DEF kept
  <2>3. SoundFile(receipt, basisQuiet)
    BY DEF ReceiptInv, FilesInv
  <2>4. FilesInv'
    BY <2>1, <2>2, <2>3 DEF FilesInv, SoundFile, Receipt!Sound, Receipt!NoReceipt, Receipt!Torn
  <2>5. QED
    BY <2>1, <2>4 DEF ReceiptInv, CommandType, QuietCommand, QuietVerdict, Receipt!Sound
<1>2. CASE Receipt!PowerLoss
  <2>1. PICK left \in durable :
            durable' = {left} /\ receipt' = left.receipt /\ basisQuiet' = left.quiet
    BY <1>2 DEF Receipt!PowerLoss
  <2>2. /\ UNCHANGED <<review, source, loaded, digest, quiet>>
        /\ pc' = [c \in {"validate", "verify"} |-> "idle"]
        /\ result' = [c \in {"validate", "verify"} |-> "none"]
    BY <1>2 DEF Receipt!PowerLoss, Receipt!Commands, Receipt!inputs
  <2>3. SoundFile(left.receipt, left.quiet)
    BY DEF ReceiptInv, FilesInv
  <2>4. FilesInv'
    BY <2>1, <2>3 DEF FilesInv, SoundFile, Receipt!Sound, Receipt!NoReceipt, Receipt!Torn
  <2>5. CommandType'
    BY <2>2 DEF ReceiptInv, CommandType, PerCommand
  <2>6. QuietVerdict' /\ \A c \in {"validate", "verify"} : QuietCommand(c)'
    BY <2>2 DEF QuietCommand, QuietVerdict
  <2>7. QED
    BY <2>4, <2>5, <2>6 DEF ReceiptInv
<1>3. QED
  BY <1>1, <1>2

\* A receipt made without an edit in between names a review and a source that
\* reconcile, also one that a power loss brought back; and a receipt that verifies
\* with no edit since names the files as they are, which reconcile.
THEOREM QuietReceipts == Receipt!Spec => []QuietReceiptIsSound
<1>1. ReceiptInv /\ [Receipt!Next]_(Receipt!vars) => ReceiptInv'
  <2>1. SUFFICES ASSUME ReceiptInv, [Receipt!Next]_(Receipt!vars) PROVE ReceiptInv'
    OBVIOUS
  <2>2. CASE Receipt!ReadReceipt
    BY <2>1, <2>2, ReadKeepsReceipt
  <2>3. CASE Receipt!WriteReceipt
    BY <2>1, <2>3, WriteKeepsReceipt
  <2>4. CASE Receipt!WriteFails
    <3>1. /\ UNCHANGED <<review, source, receipt, durable, basisQuiet, loaded, digest, observed, quiet>>
          /\ pc' = [pc EXCEPT !["validate"] = "idle"]
          /\ result' = [result EXCEPT !["validate"] = "failed"]
      BY <2>4 DEF Receipt!WriteFails, Receipt!Fail, Receipt!inputs, Receipt!file
    <3>2. /\ CommandType' /\ OthersStay("validate")
          /\ \A d \in {"validate", "verify"} : QuietCommand(d)'
      BY <2>1, <3>1, EndsKeepReceipt
    <3>3. QED
      BY <2>1, <3>1, <3>2, WorkKeepsVerdict, SameFiles DEF ReceiptInv
  <2>5. CASE Receipt!CompareReceipt
    BY <2>1, <2>5, CompareKeepsReceipt
  <2>6. CASE Receipt!Edit
    BY <2>1, <2>6, EditKeepsReceipt
  <2>7. CASE Receipt!WriteBack \/ Receipt!PowerLoss
    BY <2>1, <2>7, DiskKeepsReceipt
  <2>8. CASE UNCHANGED Receipt!vars
    <3>1. FilesInv'
      BY <2>1, <2>8, SameFiles DEF Receipt!vars, Receipt!file
    <3>2. QED
      BY <2>1, <2>8, <3>1 DEF Receipt!vars, Receipt!inputs, ReceiptInv, CommandType, QuietCommand,
                              QuietVerdict, Receipt!Sound
  <2>9. ASSUME NEW c \in {"validate", "verify"},
               \/ \E kind \in {"alarm", "io-mapping"} : Receipt!LoadFirst(c, kind)
               \/ Receipt!LoadSecond(c) \/ Receipt!DigestReview(c) \/ Receipt!DigestSource(c)
        PROVE  ReceiptInv'
    BY <2>1, <2>9, FirstLoadKeepsReceipt, SecondLoadKeepsReceipt, DigestsKeepReceipt
  <2>10. QED
    BY <2>1, <2>2, <2>3, <2>4, <2>5, <2>6, <2>7, <2>8, <2>9 DEF Receipt!Next, Receipt!Commands
<1>2. ReceiptInv => QuietReceiptIsSound
  BY DEF ReceiptInv, FilesInv, SoundFile, QuietVerdict, QuietReceiptIsSound,
         Receipt!QuietReceiptIsSound
<1>3. QED
  BY <1>1, <1>2, ReceiptInvInit, PTL DEF Receipt!Spec

(***************************************************************************)
(* `report` and `reports verify`.                                          *)
(***************************************************************************)

\* The files a generation or a manifest lists are whole.
WholeFiles(f) ==
    f.reports # Bundle!Torn /\ f.alarm_review_validation # Bundle!Torn

Inputs == [review : BundleVersions \cup {0, 1}, source : BundleVersions \cup {0}]
BundleFiles == [reports : Inputs, alarm_review_validation : Inputs]
Manifest == [inputs : Inputs, files : BundleFiles, quiet : BOOLEAN]

BundleType ==
    /\ bundleReview \in BundleVersions /\ bundleSource \in BundleVersions
    /\ dir \in BundleFiles /\ manifest \in Manifest
    /\ gen \in [pc : {"idle", "apply", "receipt", "manifest", "reports",
                      "digest review", "alarm_review_validation", "write manifest"},
                reviewed : BOOLEAN, loaded : Inputs, files : BundleFiles, inputs : Inputs,
                quiet : BOOLEAN]
    /\ ver \in [pc : {"idle", "inputs", "files", "receipts", "ok", "failed"},
                reviewed : BOOLEAN, manifest : Manifest, quiet : BOOLEAN]

\* What a verification that nothing disturbed has compared, up to where it is.
QuietVerification ==
    ver.quiet =>
        /\ ver.pc \in {"inputs", "files", "receipts", "ok"} => ver.manifest = manifest
        /\ ver.pc \in {"receipts", "ok"} => dir = manifest.files
        /\ ver.pc = "ok" =>
              dir.alarm_review_validation =
                  IF manifest.inputs.review = 0 THEN Bundle!Absent ELSE manifest.inputs

BundleInv ==
    /\ BundleType
    /\ gen.pc = "apply" => gen.loaded.source # 0
    /\ WholeFiles(gen.files) /\ WholeFiles(manifest.files)
    /\ QuietVerification

LEMMA BundleConstants ==
    /\ Bundle!Absent = [review |-> 0, source |-> 0] /\ Bundle!Torn = [review |-> 1, source |-> 0]
    /\ Bundle!Absent \in Inputs /\ Bundle!Torn \in Inputs /\ Bundle!Absent # Bundle!Torn
    /\ Bundle!NoFiles \in BundleFiles /\ WholeFiles(Bundle!NoFiles)
    /\ Bundle!NoManifest \in Manifest /\ WholeFiles(Bundle!NoManifest.files)
<1>1. /\ Bundle!Absent = [review |-> 0, source |-> 0] /\ Bundle!Torn = [review |-> 1, source |-> 0]
  BY DEF Bundle!Absent, Bundle!Torn, Bundle!Pair
<1>2. Bundle!Absent \in Inputs /\ Bundle!Torn \in Inputs
  BY <1>1 DEF Inputs
<1>3. Bundle!Absent # Bundle!Torn
  <2>1. Bundle!Absent.review # Bundle!Torn.review
    BY <1>1
  <2>2. QED
    BY <2>1
<1>4. Bundle!NoFiles \in BundleFiles /\ WholeFiles(Bundle!NoFiles)
  BY <1>2, <1>3 DEF Bundle!NoFiles, BundleFiles, WholeFiles
<1>5. Bundle!NoManifest \in Manifest /\ WholeFiles(Bundle!NoManifest.files)
  BY <1>2, <1>4 DEF Bundle!NoManifest, Manifest
<1>6. QED
  BY <1>1, <1>2, <1>3, <1>4, <1>5

LEMMA BundleInvInit == Bundle!Init => BundleInv
<1>1. SUFFICES ASSUME Bundle!Init PROVE BundleInv
  OBVIOUS
<1>2. BundleType
  BY <1>1, BundleConstants DEF Bundle!Init, BundleType
<1>3. gen.pc = "idle" /\ gen.files = Bundle!NoFiles /\ manifest = Bundle!NoManifest /\ ver.pc = "idle"
  BY <1>1 DEF Bundle!Init
<1>4. QED
  BY <1>2, <1>3, BundleConstants DEF BundleInv, QuietVerification

\* A step of the generation that writes nothing leaves a verification as it is.
LEMMA PreparingKeepsBundle ==
    ASSUME BundleInv,
           \/ \E reviewed \in BOOLEAN : Bundle!ParseSource(reviewed)
           \/ Bundle!ApplyReview \/ Bundle!MakeReceipt \/ Bundle!DigestSource \/ Bundle!MakeManifest
    PROVE  BundleInv'
<1>1. UNCHANGED <<bundleReview, bundleSource, dir, manifest, ver>>
  BY DEF Bundle!ParseSource, Bundle!ApplyReview, Bundle!MakeReceipt, Bundle!DigestSource,
         Bundle!MakeManifest
<1>2. QuietVerification' /\ WholeFiles(manifest.files)'
  BY <1>1 DEF BundleInv, QuietVerification, WholeFiles
<1>3. /\ bundleReview \in BundleVersions /\ bundleSource \in BundleVersions
      /\ bundleReview # 0 /\ bundleSource # 0
      /\ 0 \in BundleVersions \cup {0, 1} /\ bundleReview \in BundleVersions \cup {0, 1}
  BY VersionAssumption DEF BundleInv, BundleType
<1>4. ASSUME NEW reviewed \in BOOLEAN, Bundle!ParseSource(reviewed) PROVE BundleInv'
  <2>1. gen' = [gen EXCEPT !.pc = "apply", !.reviewed = reviewed, !.quiet = TRUE,
                           !.loaded = [review |-> 0, source |-> bundleSource],
                           !.files = Bundle!NoFiles]
    BY <1>4 DEF Bundle!ParseSource, Bundle!Pair, Bundle!Unapplied
  <2>2. [review |-> 0, source |-> bundleSource] \in Inputs
    BY <1>3 DEF Inputs
  <2>3. BundleType'
    BY <1>1, <2>1, <2>2, BundleConstants DEF BundleInv, BundleType
  <2>4. gen'.loaded.source = bundleSource /\ gen'.files = Bundle!NoFiles
    BY <2>1 DEF BundleInv, BundleType
  <2>5. QED
    BY <1>2, <1>3, <2>3, <2>4, BundleConstants DEF BundleInv
<1>5. CASE Bundle!ApplyReview
  <2> DEFINE l == [gen.loaded EXCEPT !.review = IF gen.reviewed THEN bundleReview ELSE 0]
  <2>1. /\ gen.pc = "apply"
        /\ \/ gen' = [gen EXCEPT !.pc = "idle"]
           \/ gen' = [gen EXCEPT !.pc = "receipt", !.loaded = l, !.files.reports = l]
    BY <1>5 DEF Bundle!ApplyReview, Bundle!Unapplied
  <2>2. gen.loaded \in Inputs /\ gen.files \in BundleFiles /\ gen.loaded.source # 0
    BY <2>1 DEF BundleInv, BundleType
  <2>3. l \in Inputs /\ l.source = gen.loaded.source
    BY <1>3, <2>2 DEF Inputs
  <2>4. l # Bundle!Torn
    BY <2>2, <2>3, BundleConstants
  <2> HIDE DEF l
  <2>5. CASE gen' = [gen EXCEPT !.pc = "idle"]
    <3>1. gen'.pc = "idle" /\ gen'.files = gen.files /\ BundleType'
      BY <1>1, <2>5 DEF BundleInv, BundleType
    <3>2. QED
      BY <1>2, <3>1 DEF BundleInv
  <2>6. CASE gen' = [gen EXCEPT !.pc = "receipt", !.loaded = l, !.files.reports = l]
    <3>1. /\ gen'.pc = "receipt" /\ gen'.files = [gen.files EXCEPT !.reports = l]
          /\ gen'.loaded = l
      BY <2>6 DEF BundleInv, BundleType
    <3>2. gen'.files \in BundleFiles /\ WholeFiles(gen'.files)
      BY <2>2, <2>3, <2>4, <3>1 DEF BundleFiles, WholeFiles, BundleInv
    <3>3. BundleType'
      BY <1>1, <2>3, <2>6, <3>1, <3>2 DEF BundleInv, BundleType
    <3>4. QED
      BY <1>2, <3>1, <3>2, <3>3 DEF BundleInv
  <2>7. QED
    BY <2>1, <2>5, <2>6
<1>6. CASE Bundle!MakeReceipt
  <2> DEFINE r == IF gen.reviewed THEN [review |-> bundleReview, source |-> bundleSource]
                  ELSE Bundle!Absent
  <2>1. gen' = [gen EXCEPT !.pc = "manifest", !.files.alarm_review_validation = r]
    BY <1>6 DEF Bundle!MakeReceipt, Bundle!Pair
  <2>2. r \in Inputs
    BY <1>3, BundleConstants DEF Inputs
  <2>3. r # Bundle!Torn
    <3>1. CASE gen.reviewed
      <4>1. r.source # 0
        BY <1>3, <3>1
      <4>2. QED
        BY <4>1, BundleConstants
    <3>2. CASE ~gen.reviewed
      BY <3>2, BundleConstants
    <3>3. QED
      BY <3>1, <3>2
  <2> HIDE DEF r
  <2>4. gen'.pc = "manifest" /\ gen'.files = [gen.files EXCEPT !.alarm_review_validation = r]
    BY <2>1 DEF BundleInv, BundleType
  <2>5. gen'.files \in BundleFiles /\ WholeFiles(gen'.files)
    BY <2>2, <2>3, <2>4 DEF BundleFiles, WholeFiles, BundleInv, BundleType
  <2>6. BundleType'
    BY <1>1, <2>1, <2>4, <2>5 DEF BundleInv, BundleType
  <2>7. QED
    BY <1>2, <2>4, <2>5, <2>6 DEF BundleInv
<1>7. CASE Bundle!DigestSource
  <2> DEFINE i == [review |-> 0, source |-> bundleSource]
  <2>1. gen' = [gen EXCEPT !.pc = "digest review", !.inputs = i]
    BY <1>7 DEF Bundle!DigestSource, Bundle!Pair, Bundle!Unapplied
  <2>2. i \in Inputs
    BY <1>3 DEF Inputs
  <2> HIDE DEF i
  <2>3. gen'.pc = "digest review" /\ gen'.files = gen.files /\ BundleType'
    BY <1>1, <2>1, <2>2 DEF BundleInv, BundleType
  <2>4. QED
    BY <1>2, <2>3 DEF BundleInv
<1>8. CASE Bundle!MakeManifest
  <2> DEFINE i == [gen.inputs EXCEPT !.review = IF gen.reviewed THEN bundleReview ELSE 0]
  <2>1. gen' = [gen EXCEPT !.pc = "reports", !.inputs = i]
    BY <1>8 DEF Bundle!MakeManifest, Bundle!Unapplied, BundleInv, BundleType
  <2>2. i \in Inputs
    BY <1>3 DEF Inputs, BundleInv, BundleType
  <2> HIDE DEF i
  <2>3. gen'.pc = "reports" /\ gen'.files = gen.files /\ BundleType'
    BY <1>1, <2>1, <2>2 DEF BundleInv, BundleType
  <2>4. QED
    BY <1>2, <2>3 DEF BundleInv
<1>9. QED
  BY <1>4, <1>5, <1>6, <1>7, <1>8

\* A step that writes disturbs a verification under way.
LEMMA WritingKeepsBundle ==
    ASSUME BundleInv,
           \/ \E name \in {"reports", "alarm_review_validation"},
                 next_ \in {"alarm_review_validation", "write manifest"} :
                 Bundle!WriteFile(name, next_)
           \/ Bundle!WriteManifest \/ Bundle!StopWriting \/ Bundle!Edit
    PROVE  BundleInv'
<1>1. ver' = [ver EXCEPT !.quiet = FALSE]
  BY DEF Bundle!WriteFile, Bundle!WriteManifest, Bundle!StopWriting, Bundle!Edit
<1>2. ver'.quiet = FALSE
  BY <1>1 DEF BundleInv, BundleType
<1>3. QuietVerification'
  BY <1>2 DEF QuietVerification
<1>4. ver' \in [pc : {"idle", "inputs", "files", "receipts", "ok", "failed"},
                reviewed : BOOLEAN, manifest : Manifest, quiet : BOOLEAN]
  BY <1>1 DEF BundleInv, BundleType
<1>5. ASSUME NEW name \in {"reports", "alarm_review_validation"},
             NEW next_ \in {"alarm_review_validation", "write manifest"},
             Bundle!WriteFile(name, next_)
      PROVE  BundleInv'
  <2>1. /\ dir' = dir \/ dir' = [dir EXCEPT ![name] = gen.files[name]]
        /\ gen' = [gen EXCEPT !.pc = next_] /\ UNCHANGED <<bundleReview, bundleSource, manifest>>
    BY <1>5 DEF Bundle!WriteFile
  <2>2. gen.files[name] \in Inputs
    BY DEF BundleInv, BundleType, BundleFiles
  <2>3. dir' \in BundleFiles
    BY <2>1, <2>2 DEF BundleInv, BundleType, BundleFiles
  <2>4. gen'.pc = next_ /\ gen'.files = gen.files
    BY <2>1 DEF BundleInv, BundleType
  <2>5. BundleType'
    BY <1>4, <2>1, <2>3 DEF BundleInv, BundleType
  <2>6. QED
    BY <1>3, <2>1, <2>4, <2>5 DEF BundleInv
<1>6. CASE Bundle!WriteManifest
  <2>1. /\ manifest' = [inputs |-> gen.inputs, files |-> gen.files, quiet |-> gen.quiet]
        /\ gen' = [gen EXCEPT !.pc = "idle"] /\ UNCHANGED <<bundleReview, bundleSource, dir>>
    BY <1>6 DEF Bundle!WriteManifest
  <2>2. manifest' \in Manifest /\ manifest'.files = gen.files
    BY <2>1 DEF BundleInv, BundleType, Manifest
  <2>3. gen'.pc = "idle" /\ gen'.files = gen.files /\ BundleType'
    BY <1>4, <2>1, <2>2 DEF BundleInv, BundleType
  <2>4. QED
    BY <1>3, <2>2, <2>3 DEF BundleInv
<1>7. CASE Bundle!StopWriting
  <2>1. /\ manifest' = manifest \/ manifest' = Bundle!NoManifest
        /\ \/ dir' = dir
           \/ \E name \in {"reports", "alarm_review_validation"} :
                 dir' = [dir EXCEPT ![name] = Bundle!Torn]
        /\ gen' = [gen EXCEPT !.pc = "idle"] /\ UNCHANGED <<bundleReview, bundleSource>>
    BY <1>7 DEF Bundle!StopWriting, BundleInv, BundleType, BundleFiles
  <2>2. dir' \in BundleFiles
    BY <2>1, BundleConstants DEF BundleInv, BundleType, BundleFiles
  <2>3. manifest' \in Manifest /\ WholeFiles(manifest'.files)
    BY <2>1, BundleConstants DEF BundleInv, BundleType
  <2>4. gen'.pc = "idle" /\ gen'.files = gen.files /\ BundleType'
    BY <1>4, <2>1, <2>2, <2>3 DEF BundleInv, BundleType
  <2>5. QED
    BY <1>3, <2>3, <2>4 DEF BundleInv
<1>8. CASE Bundle!Edit
  <2>1. /\ bundleReview' \in BundleVersions /\ bundleSource' \in BundleVersions
        /\ gen' = [gen EXCEPT !.quiet = FALSE] /\ UNCHANGED <<dir, manifest>>
    BY <1>8 DEF Bundle!Edit, BundleInv, BundleType
  <2>2. gen'.pc = gen.pc /\ gen'.files = gen.files /\ gen'.loaded = gen.loaded /\ BundleType'
    BY <1>4, <2>1 DEF BundleInv, BundleType
  <2>3. QED
    BY <1>3, <2>1, <2>2 DEF BundleInv
<1>9. QED
  BY <1>5, <1>6, <1>7, <1>8

\* The three comparisons of a verification.
LEMMA VerifyingKeepsBundle ==
    ASSUME BundleInv, Bundle!Verify
    PROVE  BundleInv'
<1>1. UNCHANGED <<bundleReview, bundleSource, dir, manifest, gen>>
  BY DEF Bundle!Verify, Bundle!ReadManifest, Bundle!VerifyInputs, Bundle!VerifyFiles,
         Bundle!VerifyReceipts
<1> DEFINE Kept == /\ ver' \in [pc : {"idle", "inputs", "files", "receipts", "ok", "failed"},
                                reviewed : BOOLEAN, manifest : Manifest, quiet : BOOLEAN]
                  /\ QuietVerification'
<1>2. ASSUME NEW reviewed \in BOOLEAN, Bundle!ReadManifest(reviewed) PROVE Kept
  <2>1. ver' = [pc |-> IF manifest = Bundle!NoManifest THEN "failed" ELSE "inputs",
                reviewed |-> reviewed, manifest |-> manifest, quiet |-> TRUE]
    BY <1>2 DEF Bundle!ReadManifest
  <2>2. ver'.pc \in {"failed", "inputs"} /\ ver'.manifest = manifest
    BY <2>1
  <2>3. QuietVerification'
    BY <1>1, <2>2 DEF QuietVerification
  <2>4. QED
    BY <2>1, <2>3 DEF BundleInv, BundleType
<1>3. ASSUME NEW ok, NEW to \in {"files", "receipts", "ok"}, Bundle!Verdict(ok, to)
      PROVE  /\ ver' \in [pc : {"idle", "inputs", "files", "receipts", "ok", "failed"},
                          reviewed : BOOLEAN, manifest : Manifest, quiet : BOOLEAN]
             /\ ver'.pc = IF ok THEN to ELSE "failed"
             /\ ver'.manifest = ver.manifest /\ ver'.quiet = ver.quiet
  BY <1>3 DEF Bundle!Verdict, BundleInv, BundleType
<1>4. ASSUME Bundle!VerifyInputs PROVE Kept
  <2>1. ver.pc = "inputs" /\ Bundle!Verdict(Bundle!InputsMatch, "files")
    BY <1>4 DEF Bundle!VerifyInputs
  <2>2. ver'.pc \in {"files", "failed"} /\ ver'.manifest = ver.manifest /\ ver'.quiet = ver.quiet
    BY <1>3, <2>1
  <2>3. QuietVerification'
    BY <1>1, <2>1, <2>2 DEF QuietVerification, BundleInv
  <2>4. QED
    BY <1>3, <2>1, <2>3
<1>5. ASSUME Bundle!VerifyFiles PROVE Kept
  <2>1. ver.pc = "files" /\ Bundle!Verdict(dir = ver.manifest.files, "receipts")
    BY <1>5 DEF Bundle!VerifyFiles, Bundle!FilesMatch
  <2>2. /\ ver'.pc = IF dir = ver.manifest.files THEN "receipts" ELSE "failed"
        /\ ver'.manifest = ver.manifest /\ ver'.quiet = ver.quiet
    BY <1>3, <2>1
  <2>3. QuietVerification'
    BY <1>1, <2>1, <2>2 DEF QuietVerification, BundleInv
  <2>4. QED
    BY <1>3, <2>1, <2>3
<1>6. ASSUME Bundle!VerifyReceipts PROVE Kept
  <2> DEFINE listed == ver.manifest.files.alarm_review_validation # Bundle!Absent
             fits == IF ver.manifest.inputs.review = 0 THEN ~listed
                     ELSE listed /\ dir.alarm_review_validation = ver.manifest.inputs
  <2>1. ver.pc = "receipts" /\ Bundle!Verdict(fits, "ok")
    BY <1>6 DEF Bundle!VerifyReceipts, Bundle!Unapplied
  <2>2. /\ ver'.pc = IF fits THEN "ok" ELSE "failed"
        /\ ver'.manifest = ver.manifest /\ ver'.quiet = ver.quiet
    BY <1>3, <2>1
  <2>3. QuietVerification'
    BY <1>1, <2>1, <2>2 DEF QuietVerification, BundleInv
  <2>4. QED
    BY <1>3, <2>1, <2>3
<1>7. Kept
  BY <1>2, <1>4, <1>5, <1>6 DEF Bundle!Verify
<1>8. QED
  BY <1>1, <1>7 DEF BundleInv, BundleType, WholeFiles

\* A bundle that verifies while nothing changes is whole and of one generation, with
\* a receipt for the review that was given and for no other, whatever was
\* interrupted, regenerated or edited before.
THEOREM VerifiedBundles == Bundle!Spec => []VerifiedBundleIsOneGeneration
<1>1. BundleInv /\ [Bundle!Next]_(Bundle!vars) => BundleInv'
  <2>1. SUFFICES ASSUME BundleInv, [Bundle!Next]_(Bundle!vars) PROVE BundleInv'
    OBVIOUS
  <2>2. CASE Bundle!Generate
    BY <2>1, <2>2, PreparingKeepsBundle, WritingKeepsBundle DEF Bundle!Generate
  <2>3. CASE Bundle!Verify
    BY <2>1, <2>3, VerifyingKeepsBundle
  <2>4. CASE Bundle!Edit
    BY <2>1, <2>4, WritingKeepsBundle
  <2>5. CASE UNCHANGED Bundle!vars
    BY <2>1, <2>5 DEF Bundle!vars, BundleInv, BundleType, WholeFiles, QuietVerification
  <2>6. QED
    BY <2>1, <2>2, <2>3, <2>4, <2>5 DEF Bundle!Next
<1>2. BundleInv => VerifiedBundleIsOneGeneration
  BY DEF BundleInv, QuietVerification, WholeFiles, VerifiedBundleIsOneGeneration,
         Bundle!VerifiedBundleIsOneGeneration, Bundle!Verified, Bundle!Names, Bundle!Unapplied
<1>3. QED
  BY <1>1, <1>2, BundleInvInit, PTL DEF Bundle!Spec

(***************************************************************************)
(* The controller metadata capture.                                        *)
(***************************************************************************)

Responses == (1..Count) \X {0, 1}

\* The fields v are those that the successes in the evidence e decode to.
FieldsOf(v, e) ==
    /\ \A r \in 1..Count : semantic[r] \in Fields =>
          (v[semantic[r]] = r) = (<<r, 0>> \in Metadata!ToSet(e))

BlankObservation == [fields |-> [f \in Fields |-> 0], evidence |-> <<>>]

MetadataInv ==
    /\ semantic \in [1..Count -> Fields \cup {"none"}]
    /\ \A a, b \in 1..Count : a # b /\ semantic[a] = semantic[b] => semantic[a] = "none"
    /\ next \in Nat \ {0} /\ metadataExecuted \in BOOLEAN
    /\ metadataPhase \in {"idle", "running", "done", "raised"}
    /\ values \in [Fields -> 0..Count] /\ evidence \in Seq(Responses)
    /\ metadataPhase # "idle" => metadataExecuted
    /\ metadataPhase # "done" => observation = BlankObservation
    /\ metadataPhase = "running" =>
          /\ FieldsOf(values, evidence)
          /\ \A x \in Metadata!ToSet(evidence) : x[1] < next
    /\ FieldsMatchEvidence

LEMMA EvidenceSets ==
    ASSUME NEW e \in Seq(Responses)
    PROVE  /\ Metadata!ToSet(<<>>) = {}
           /\ \A x : Metadata!ToSet(Append(e, x)) = Metadata!ToSet(e) \cup {x}
           /\ <<>> \o e = e
<1>1. Metadata!ToSet(<<>>) = {}
  BY DEF Metadata!ToSet
<1>2. ASSUME NEW x PROVE Metadata!ToSet(Append(e, x)) = Metadata!ToSet(e) \cup {x}
  <2>1. /\ DOMAIN Append(e, x) = 1..(Len(e) + 1) /\ DOMAIN e = 1..Len(e) /\ Len(e) \in Nat
        /\ Append(e, x)[Len(e) + 1] = x /\ \A i \in 1..Len(e) : Append(e, x)[i] = e[i]
    OBVIOUS
  <2>2. 1..(Len(e) + 1) = (1..Len(e)) \cup {Len(e) + 1}
    BY <2>1
  <2>3. QED
    BY <2>1, <2>2 DEF Metadata!ToSet
<1>3. <<>> \o e = e
  OBVIOUS
<1>4. QED
  BY <1>1, <1>2, <1>3

LEMMA MetadataInvInit == Metadata!Init => MetadataInv
<1>1. SUFFICES ASSUME Metadata!Init PROVE MetadataInv
  OBVIOUS
<1>2. /\ semantic \in [1..Count -> Fields \cup {"none"}]
      /\ \A a, b \in 1..Count : a # b /\ semantic[a] = semantic[b] => semantic[a] = "none"
      /\ metadataExecuted = FALSE /\ metadataPhase = "idle" /\ next = 1 /\ evidence = <<>>
      /\ values = [f \in Fields |-> 0] /\ observation = BlankObservation
  BY <1>1 DEF Metadata!Init, Metadata!Requests, Metadata!None, BlankObservation
<1>3. values \in [Fields -> 0..Count] /\ evidence \in Seq(Responses)
  BY <1>2, MetadataAssumption
<1>4. FieldsMatchEvidence
  <2>1. SUFFICES ASSUME NEW f \in Fields, NEW r \in 1..Count, semantic[r] = f
                 PROVE  (observation.fields[f] = r) = (<<r, 0>> \in Metadata!ToSet(observation.evidence))
    BY DEF FieldsMatchEvidence, Metadata!FieldsMatchEvidence, Metadata!Requests
  <2>2. observation.fields[f] = 0 /\ observation.evidence = <<>>
    BY <1>2 DEF BlankObservation
  <2>3. <<r, 0>> \notin Metadata!ToSet(observation.evidence)
    BY <2>2 DEF Metadata!ToSet
  <2>4. QED
    BY <2>2, <2>3
<1>5. next \in Nat \ {0}
  BY <1>2
<1>6. metadataExecuted \in BOOLEAN
  BY <1>2, Zenon
<1>7. QED
  BY <1>2, <1>3, <1>4, <1>5, <1>6 DEF MetadataInv

\* A response is appended with the value it decodes to; no earlier request fills the
\* same field.
LEMMA RespondKeepsMetadata ==
    ASSUME MetadataInv, Metadata!Respond
    PROVE  MetadataInv'
<1>1. PICK status \in {0, 1} : /\ evidence' = Append(evidence, <<next, status>>)
                               /\ values' = Metadata!Decoded(next, status)
  BY DEF Metadata!Respond
<1>2. /\ metadataPhase = "running" /\ next \in 1..Count /\ next' = next + 1
      /\ UNCHANGED <<semantic, metadataExecuted, metadataPhase, observation>>
  <2>1. metadataPhase = "running" /\ next <= Count /\ next \in Nat /\ Count \in Nat
    BY MetadataAssumption DEF Metadata!Respond, MetadataInv
  <2>2. next >= 1
    BY DEF MetadataInv
  <2>3. QED
    BY <2>1, <2>2 DEF Metadata!Respond
<1>3. evidence' \in Seq(Responses)
  BY <1>1, <1>2 DEF MetadataInv, Responses
<1>4. Metadata!ToSet(evidence') = Metadata!ToSet(evidence) \cup {<<next, status>>}
  BY <1>1, EvidenceSets DEF MetadataInv
<1>5. /\ values' \in [Fields -> 0..Count]
      /\ FieldsOf(values, evidence)'
  <2>1. ASSUME NEW r \in 1..Count, semantic[r] \in Fields
        PROVE  (values[semantic[r]] = r) = (<<r, 0>> \in Metadata!ToSet(evidence))
    BY <1>2, <2>1 DEF MetadataInv, FieldsOf
  <2>2. <<next, 0>> \notin Metadata!ToSet(evidence)
    <3>1. \A x \in Metadata!ToSet(evidence) : x[1] < next
      BY <1>2 DEF MetadataInv
    <3>2. QED
      BY <1>2, <3>1
  <2>3. CASE status = 0 /\ semantic[next] # "none"
    <3>1. values' = [values EXCEPT ![semantic[next]] = next] /\ semantic[next] \in Fields
      BY <1>1, <1>2, <2>3 DEF Metadata!Decoded, Metadata!None, MetadataInv
    <3>2. values' \in [Fields -> 0..Count]
      BY <1>2, <3>1 DEF MetadataInv
    <3>3. ASSUME NEW r \in 1..Count, semantic[r] \in Fields
          PROVE  (values'[semantic[r]] = r) = (<<r, 0>> \in Metadata!ToSet(evidence'))
      <4>1. CASE r = next
        BY <1>4, <2>3, <3>1, <4>1 DEF MetadataInv
      <4>2. CASE r # next
        <5>1. semantic[r] # semantic[next]
          BY <1>2, <2>3, <3>1, <4>2, MetadataAssumption DEF MetadataInv
        <5>2. values'[semantic[r]] = values[semantic[r]]
          BY <3>1, <3>3, <5>1 DEF MetadataInv
        <5>3. <<r, 0>> \in Metadata!ToSet(evidence') <=> <<r, 0>> \in Metadata!ToSet(evidence)
          BY <1>4, <4>2
        <5>4. QED
          BY <2>1, <3>3, <5>2, <5>3
      <4>3. QED
        BY <4>1, <4>2
    <3>4. QED
      BY <1>2, <3>2, <3>3 DEF FieldsOf
  <2>4. CASE ~(status = 0 /\ semantic[next] # "none")
    <3>1. values' = values
      BY <1>1, <2>4 DEF Metadata!Decoded, Metadata!None
    <3>2. ASSUME NEW r \in 1..Count, semantic[r] \in Fields
          PROVE  (values'[semantic[r]] = r) = (<<r, 0>> \in Metadata!ToSet(evidence'))
      <4>1. <<r, 0>> \in Metadata!ToSet(evidence') <=> <<r, 0>> \in Metadata!ToSet(evidence)
        BY <1>2, <1>4, <2>4, <3>2, MetadataAssumption
      <4>2. QED
        BY <2>1, <3>1, <3>2, <4>1
    <3>3. QED
      BY <1>2, <3>1, <3>2 DEF FieldsOf, MetadataInv
  <2>5. QED
    BY <2>3, <2>4
<1>6. \A x \in Metadata!ToSet(evidence') : x[1] < next'
  <2>1. \A x \in Metadata!ToSet(evidence) : x \in Responses /\ x[1] < next
    BY <1>2 DEF MetadataInv, Metadata!ToSet
  <2>2. QED
    BY <1>2, <1>4, <2>1 DEF Responses
<1>7. FieldsMatchEvidence'
  BY <1>2 DEF MetadataInv, FieldsMatchEvidence, Metadata!FieldsMatchEvidence
<1>8. QED
  BY <1>2, <1>3, <1>5, <1>6, <1>7 DEF MetadataInv

\* The capture is applied to an observation that has neither fields nor evidence yet.
LEMMA ApplyKeepsMetadata ==
    ASSUME MetadataInv, Metadata!ReturnAndApply
    PROVE  MetadataInv'
<1>1. /\ metadataPhase = "running" /\ metadataPhase' = "done"
      /\ observation' =
            [fields |-> [f \in Fields |-> IF values[f] # 0 THEN values[f] ELSE observation.fields[f]],
             evidence |-> observation.evidence \o evidence]
      /\ UNCHANGED <<semantic, metadataExecuted, next, evidence, values>>
  BY DEF Metadata!ReturnAndApply
<1>2. observation = BlankObservation /\ FieldsOf(values, evidence)
  BY <1>1 DEF MetadataInv
<1>3. observation.evidence = <<>> /\ \A f \in Fields : observation.fields[f] = 0
  BY <1>2 DEF BlankObservation
<1>4. observation'.evidence = evidence
  BY <1>1, <1>3, EvidenceSets DEF MetadataInv
<1>5. \A f \in Fields : observation'.fields[f] = values[f]
  BY <1>1, <1>3
<1>6. FieldsMatchEvidence'
  <2>1. SUFFICES ASSUME NEW f \in Fields, NEW r \in 1..Count, semantic[r] = f
                 PROVE  (observation'.fields[f] = r)
                            = (<<r, 0>> \in Metadata!ToSet(observation'.evidence))
    BY <1>1 DEF FieldsMatchEvidence, Metadata!FieldsMatchEvidence, Metadata!Requests
  <2>2. QED
    BY <1>2, <1>4, <1>5, <2>1 DEF FieldsOf
<1>7. QED
  BY <1>1, <1>6 DEF MetadataInv, FieldsOf

\* The fields of a controller observation are exactly those that its own evidence
\* decodes to, for every mapping of requests to fields: a capture that raised, was
\* refused or was called again leaves no value behind.
THEOREM FieldsAreEvidenced == Metadata!Spec => []FieldsMatchEvidence
<1>1. MetadataInv /\ [Metadata!Next]_(Metadata!vars) => MetadataInv'
  <2>1. SUFFICES ASSUME MetadataInv, [Metadata!Next]_(Metadata!vars) PROVE MetadataInv'
    OBVIOUS
  <2>2. CASE Metadata!Capture
    <3>1. /\ metadataPhase = "idle" /\ metadataPhase' = "running" /\ metadataExecuted' = TRUE
          /\ next' = 1 /\ evidence' = <<>> /\ values' = [f \in Fields |-> 0]
          /\ UNCHANGED <<semantic, observation>>
      BY <2>1, <2>2 DEF Metadata!Capture, Metadata!Preflight, MetadataInv
    <3>2. Metadata!ToSet(evidence') = {}
      BY <3>1 DEF Metadata!ToSet
    <3>3. FieldsOf(values, evidence)'
      <4>1. ASSUME NEW r \in 1..Count, semantic[r] \in Fields
            PROVE  values'[semantic[r]] = 0
        BY <3>1, <4>1
      <4>2. QED
        BY <3>1, <3>2, <4>1 DEF FieldsOf
    <3>4. values' \in [Fields -> 0..Count] /\ evidence' \in Seq(Responses)
      BY <3>1, MetadataAssumption
    <3>5. FieldsMatchEvidence'
      BY <2>1, <3>1 DEF MetadataInv, FieldsMatchEvidence, Metadata!FieldsMatchEvidence
    <3>6. QED
      BY <2>1, <3>1, <3>2, <3>3, <3>4, <3>5 DEF MetadataInv
  <2>3. CASE Metadata!Respond
    BY <2>1, <2>3, RespondKeepsMetadata
  <2>4. CASE Metadata!ReturnAndApply
    BY <2>1, <2>4, ApplyKeepsMetadata
  <2>5. CASE Metadata!DecoderFails \/ Metadata!TransportFails
    <3>1. /\ metadataPhase = "running" /\ metadataPhase' = "raised"
          /\ UNCHANGED <<semantic, metadataExecuted, next, evidence, values, observation>>
      BY <2>5 DEF Metadata!DecoderFails, Metadata!TransportFails
    <3>2. FieldsMatchEvidence'
      BY <2>1, <3>1 DEF MetadataInv, FieldsMatchEvidence, Metadata!FieldsMatchEvidence
    <3>3. QED
      BY <2>1, <3>1, <3>2 DEF MetadataInv
  <2>6. CASE Metadata!CaptureRefused \/ UNCHANGED Metadata!vars
    <3>1. UNCHANGED <<metadataPhase, semantic, metadataExecuted, next, evidence, values, observation>>
      BY <2>6 DEF Metadata!CaptureRefused, Metadata!vars
    <3>2. FieldsMatchEvidence' /\ (FieldsOf(values, evidence) => FieldsOf(values, evidence)')
      BY <2>1, <3>1 DEF MetadataInv, FieldsMatchEvidence, Metadata!FieldsMatchEvidence, FieldsOf
    <3>3. QED
      BY <2>1, <3>1, <3>2 DEF MetadataInv
  <2>7. QED
    BY <2>1, <2>2, <2>3, <2>4, <2>5, <2>6 DEF Metadata!Next
<1>2. MetadataInv => FieldsMatchEvidence
  BY DEF MetadataInv
<1>3. QED
  BY <1>1, <1>2, MetadataInvInit, PTL DEF Metadata!Spec

(***************************************************************************)
(* The routed capture.                                                     *)
(***************************************************************************)

SlotsOf(c) == Routed!ToSet(Slots[c])

\* The chassis provider has sent its request on route r.
SlotSpent(r) ==
    captured /\ \E j \in 1..Len(Slots[mapped]) : Slots[mapped][j] = r /\ (slot # 0 => j < slot)

\* The requests on a route are those its providers have recorded as spent.
BudgetsSpent ==
    \A r \in Routed!Routes :
        wire[r] <= (IF r \in requested THEN 1 ELSE 0) + (IF SlotSpent(r) THEN 1 ELSE 0)

\* Before an item's turn nothing answers for it, afterwards one thing does.
ControllerAnswered(r) ==
    IF r \in controllersTodo THEN r \notin controllers /\ <<"controller", r>> \notin diagnostics
    ELSE r \in controllers <=> <<"controller", r>> \notin diagnostics

Observed(c) == \E o \in chassis : o[1] = c

ChassisAnswered(c) ==
    IF c \in chassisTodo THEN ~Observed(c) /\ <<"chassis", c>> \notin diagnostics
    ELSE Observed(c) <=> <<"chassis", c>> \notin diagnostics

Answered ==
    /\ \A r \in route.controllers : ControllerAnswered(r)
    /\ \A c \in route.chassis : ChassisAnswered(c)
    /\ \A o \in chassis : Len(o[2]) = Len(Slots[o[1]])

RoutedType ==
    /\ route.controllers \subseteq ControllerRoutes /\ route.chassis \subseteq Chassis
    /\ mapped \in Chassis /\ captured \in BOOLEAN
    /\ requested \subseteq allowed \cap permit
    /\ captured => SlotsOf(mapped) \subseteq permit
    /\ controllersTodo \subseteq route.controllers /\ chassisTodo \subseteq route.chassis
    /\ wire \in [Routed!Routes -> Nat]
    /\ slot \in Nat /\ slots \in Seq(Routed!Outcomes)

\* Where the chassis provider is.
SlotInv ==
    IF slot = 0 THEN slots = <<>>
    ELSE /\ captured /\ chassisTodo # {} /\ Routed!Current = mapped
         /\ slot <= Len(Slots[mapped]) + 1 /\ Len(slots) = slot - 1

RoutedInv ==
    /\ RoutedType /\ SlotInv /\ BudgetsSpent
    /\ routedPhase \in {"running", "done"} => Answered
    /\ routedPhase = "done" => controllersTodo = {} /\ chassisTodo = {}

LEMMA MinMember ==
    ASSUME NEW S \in SUBSET Nat, S # {}
    PROVE  Routed!Min(S) \in S /\ \A n \in S : Routed!Min(S) <= n
<1>1. \E n \in S : \A m \in S : <<m, n>> \notin OpToRel(<, Nat)
  BY NatLessThanWellFounded, WFMin
<1>2. \A n, m \in Nat : <<m, n>> \notin OpToRel(<, Nat) => ~(m < n)
  BY Zenon DEF OpToRel
<1>3. \A n, m \in Nat : ~(m < n) => n <= m
  OBVIOUS
<1>4. \E n \in S : \A m \in S : n <= m
  BY <1>1, <1>2, <1>3, Zenon
<1>5. QED
  BY <1>4 DEF Routed!Min

LEMMA SentType ==
    ASSUME NEW r \in Routed!Routes, wire \in [Routed!Routes -> Nat], Routed!Sent(r)
    PROVE  wire' \in [Routed!Routes -> Nat]
  BY DEF Routed!Sent

LEMMA SlotRoutes ==
    ASSUME NEW c \in Chassis
    PROVE  /\ Slots[c] \in Seq(Nat) /\ Len(Slots[c]) \in Nat
           /\ SlotsOf(c) = {Slots[c][j] : j \in 1..Len(Slots[c])} /\ SlotsOf(c) \subseteq Routed!Routes
           /\ \A i, j \in 1..Len(Slots[c]) : Slots[c][i] = Slots[c][j] => i = j
<1>1. Slots[c] \in Seq(Nat) /\ IsInjective(Slots[c])
  BY RoutedAssumption
<1>2. DOMAIN Slots[c] = 1..Len(Slots[c]) /\ Len(Slots[c]) \in Nat
  BY <1>1
<1>3. SlotsOf(c) = {Slots[c][j] : j \in 1..Len(Slots[c])}
  BY <1>2 DEF SlotsOf, Routed!ToSet
<1>4. SlotsOf(c) \subseteq Routed!Routes
  BY DEF SlotsOf, Routed!Routes
<1>5. \A i, j \in 1..Len(Slots[c]) : Slots[c][i] = Slots[c][j] => i = j
  BY <1>1, <1>2 DEF IsInjective
<1>6. QED
  BY <1>1, <1>2, <1>3, <1>4, <1>5

LEMMA RoutedInvInit == Routed!Init => RoutedInv
<1>1. SUFFICES ASSUME Routed!Init PROVE RoutedInv
  OBVIOUS
<1>2. /\ route \in [controllers : SUBSET ControllerRoutes, chassis : SUBSET Chassis]
      /\ mapped \in Chassis /\ requested = {} /\ captured = FALSE /\ routedPhase = "idle"
      /\ controllersTodo = {} /\ chassisTodo = {} /\ slot = 0 /\ slots = <<>>
      /\ wire = [r \in Routed!Routes |-> 0]
  BY <1>1 DEF Routed!Init
<1>3. captured \in BOOLEAN
  BY <1>2, Zenon
<1>4. RoutedType
  BY <1>2, <1>3 DEF RoutedType
<1>5. BudgetsSpent
  BY <1>2 DEF BudgetsSpent
<1>6. QED
  BY <1>2, <1>4, <1>5 DEF RoutedInv, SlotInv

\* A controller is read on a route of the allowlist and of the permit that has not been
\* requested, and is spent by that.
LEMMA ReadControllerKeepsRouted ==
    ASSUME RoutedInv, Routed!ReadController
    PROVE  RoutedInv'
<1> DEFINE r == Routed!Min(controllersTodo)
<1>1. /\ routedPhase = "running" /\ controllersTodo # {} /\ controllersTodo' = controllersTodo \ {r}
      /\ UNCHANGED <<route, allowed, permit, mapped, captured, routedPhase, chassisTodo, slot, slots,
                     chassis>>
  BY DEF Routed!ReadController, Routed!ControllerDone, Routed!config
<1>2. controllersTodo \subseteq ControllerRoutes /\ ControllerRoutes \subseteq Nat
  BY RoutedAssumption DEF RoutedInv, RoutedType
<1>3. r \in controllersTodo /\ r \in Routed!Routes /\ r \in route.controllers
  <2>1. r \in controllersTodo
    BY <1>1, <1>2, MinMember
  <2>2. QED
    BY <1>2, <2>1 DEF Routed!Routes, RoutedInv, RoutedType
<1>4. \/ /\ diagnostics' = diagnostics \cup {<<"controller", r>>}
         /\ UNCHANGED <<requested, wire, controllers>>
      \/ /\ r \in allowed /\ r \in permit /\ r \notin requested
         /\ wire' = [wire EXCEPT ![r] = @ + 1] /\ requested' = requested \cup {r}
         /\ \/ controllers' = controllers \cup {r} /\ diagnostics' = diagnostics
            \/ controllers' = controllers /\ diagnostics' = diagnostics \cup {<<"controller", r>>}
  BY DEF Routed!ReadController, Routed!ControllerRefused, Routed!Permitted, Routed!ControllerSpends,
         Routed!Sent
<1> HIDE DEF r
<1>5. RoutedType'
  BY <1>1, <1>3, <1>4 DEF RoutedInv, RoutedType, SlotsOf
<1>6. SlotInv'
  BY <1>1 DEF RoutedInv, SlotInv, Routed!Current
<1>7. BudgetsSpent'
  <2>1. SUFFICES ASSUME NEW q \in Routed!Routes
                 PROVE  wire'[q] <= (IF q \in requested' THEN 1 ELSE 0)
                                    + (IF SlotSpent(q) THEN 1 ELSE 0)
    BY <1>1 DEF BudgetsSpent, SlotSpent
  <2>2. /\ wire[q] \in Nat
        /\ wire[q] <= (IF q \in requested THEN 1 ELSE 0) + (IF SlotSpent(q) THEN 1 ELSE 0)
    BY DEF RoutedInv, RoutedType, BudgetsSpent
  <2>3. CASE UNCHANGED <<requested, wire>>
    BY <2>2, <2>3
  <2>4. CASE /\ r \notin requested /\ requested' = requested \cup {r}
             /\ wire' = [wire EXCEPT ![r] = @ + 1]
    <3>1. wire'[q] = IF q = r THEN wire[q] + 1 ELSE wire[q]
      BY <2>4 DEF RoutedInv, RoutedType
    <3>2. QED
      BY <2>2, <2>4, <3>1
  <2>5. QED
    BY <1>4, <2>3, <2>4
<1>8. Answered'
  <2>1. Answered
    BY <1>1 DEF RoutedInv
  <2>2. ASSUME NEW q \in route.controllers PROVE ControllerAnswered(q)'
    <3>1. ControllerAnswered(q)
      BY <2>1 DEF Answered
    <3>2. CASE q = r
      BY <1>1, <1>3, <1>4, <3>1, <3>2 DEF ControllerAnswered
    <3>3. CASE q # r
      BY <1>1, <1>4, <3>1, <3>3 DEF ControllerAnswered
    <3>4. QED
      BY <3>2, <3>3
  <2>3. ASSUME NEW c \in route.chassis PROVE ChassisAnswered(c)'
    <3>1. <<"chassis", c>> \in diagnostics' <=> <<"chassis", c>> \in diagnostics
      BY <1>4
    <3>2. Observed(c)' <=> Observed(c)
      BY <1>1 DEF Observed
    <3>3. QED
      BY <1>1, <2>1, <3>1, <3>2 DEF Answered, ChassisAnswered
  <2>4. QED
    BY <1>1, <2>1, <2>2, <2>3 DEF Answered
<1>9. QED
  BY <1>1, <1>5, <1>6, <1>7, <1>8 DEF RoutedInv

\* What every step of a chassis read leaves alone, and the chassis it is at.
LEMMA CurrentChassis ==
    ASSUME RoutedInv, Routed!Reading
    PROVE  /\ Routed!Current \in chassisTodo /\ Routed!Current \in route.chassis
           /\ Routed!Current \in Chassis /\ routedPhase = "running" /\ Answered
<1>1. chassisTodo \subseteq Chassis /\ Chassis \subseteq Nat /\ chassisTodo # {}
  BY RoutedAssumption DEF RoutedInv, RoutedType, Routed!Reading
<1>2. Routed!Current \in chassisTodo
  BY <1>1, MinMember DEF Routed!Current
<1>3. QED
  BY <1>1, <1>2 DEF RoutedInv, RoutedType, Routed!Reading

\* A chassis that is refused, or whose slot cannot be decoded, becomes a diagnostic.
LEMMA DiagnosticAnswers ==
    ASSUME RoutedInv, Routed!Reading, Routed!NextChassis,
           diagnostics' = diagnostics \cup {<<"chassis", Routed!Current>>},
           UNCHANGED <<route, controllersTodo, controllers, chassis>>
    PROVE  Answered'
<1>1. /\ Answered /\ chassisTodo' = chassisTodo \ {Routed!Current}
      /\ Routed!Current \in chassisTodo
  BY CurrentChassis DEF Routed!NextChassis
<1>2. ASSUME NEW q \in route.controllers PROVE ControllerAnswered(q)'
  <2>1. <<"controller", q>> \in diagnostics' <=> <<"controller", q>> \in diagnostics
    OBVIOUS
  <2>2. QED
    BY <1>1, <2>1 DEF Answered, ControllerAnswered
<1>3. ASSUME NEW c \in route.chassis PROVE ChassisAnswered(c)'
  <2>1. Observed(c)' <=> Observed(c)
    BY DEF Observed
  <2>2. CASE c = Routed!Current
    BY <1>1, <2>1, <2>2 DEF Answered, ChassisAnswered
  <2>3. CASE c # Routed!Current
    <3>1. <<"chassis", c>> \in diagnostics' <=> <<"chassis", c>> \in diagnostics
      BY <2>3
    <3>2. c \in chassisTodo' <=> c \in chassisTodo
      BY <1>1, <2>3
    <3>3. QED
      BY <1>1, <2>1, <3>1, <3>2 DEF Answered, ChassisAnswered
  <2>4. QED
    BY <2>2, <2>3
<1>4. QED
  BY <1>1, <1>2, <1>3 DEF Answered

LEMMA RefuseKeepsRouted ==
    ASSUME RoutedInv, Routed!RefuseChassis
    PROVE  RoutedInv'
<1>1. /\ Routed!Reading /\ Routed!NextChassis /\ slot = 0 /\ slot' = 0 /\ slots' = <<>>
      /\ chassisTodo' = chassisTodo \ {Routed!Current}
      /\ diagnostics' = diagnostics \cup {<<"chassis", Routed!Current>>}
      /\ UNCHANGED <<route, allowed, permit, mapped, requested, captured, routedPhase,
                     controllersTodo, controllers, chassis, wire>>
  BY DEF Routed!RefuseChassis, Routed!NextChassis, Routed!config
<1>2. Answered' /\ routedPhase' = "running"
  BY <1>1, DiagnosticAnswers, CurrentChassis
<1>3. RoutedType' /\ SlotInv'
  BY <1>1 DEF RoutedInv, RoutedType, SlotsOf, SlotInv
<1>4. BudgetsSpent'
  BY <1>1 DEF RoutedInv, BudgetsSpent, SlotSpent
<1>5. QED
  BY <1>2, <1>3, <1>4 DEF RoutedInv

\* The requests of a route keep within the budgets when neither changes but for the
\* slots the chassis provider is past.
LEMMA BudgetsStay ==
    ASSUME RoutedInv, UNCHANGED <<requested, wire>>,
           \A r \in Routed!Routes : SlotSpent(r) => SlotSpent(r)'
    PROVE  BudgetsSpent'
<1>1. SUFFICES ASSUME NEW r \in Routed!Routes
               PROVE  wire[r] <= (IF r \in requested THEN 1 ELSE 0) + (IF SlotSpent(r)' THEN 1 ELSE 0)
  BY DEF BudgetsSpent
<1>2. /\ wire[r] \in Nat
      /\ wire[r] <= (IF r \in requested THEN 1 ELSE 0) + (IF SlotSpent(r) THEN 1 ELSE 0)
  BY DEF RoutedInv, RoutedType, BudgetsSpent
<1>3. SlotSpent(r) => SlotSpent(r)'
  OBVIOUS
<1>4. QED
  BY <1>2, <1>3

LEMMA BeginChassisKeepsRouted ==
    ASSUME RoutedInv, Routed!BeginChassis
    PROVE  RoutedInv'
<1>1. /\ Routed!Reading /\ slot = 0 /\ slot' = 1 /\ captured' = TRUE /\ captured = FALSE
      /\ Routed!Current = mapped /\ SlotsOf(mapped) \subseteq permit
      /\ UNCHANGED <<route, allowed, permit, mapped, requested, routedPhase, controllersTodo,
                     chassisTodo, slots, controllers, chassis, diagnostics, wire>>
  BY DEF Routed!BeginChassis, Routed!ChassisRefused, Routed!Permitted, Routed!config,
         Routed!snapshot, SlotsOf, RoutedInv, RoutedType
<1>2. mapped \in Chassis /\ chassisTodo # {} /\ Answered /\ routedPhase = "running"
  BY <1>1, CurrentChassis DEF Routed!Reading
<1>3. captured' \in BOOLEAN
  BY <1>1, Zenon
<1>4. RoutedType'
  BY <1>1, <1>3 DEF RoutedInv, RoutedType, SlotsOf
<1>5. SlotInv'
  BY <1>1, <1>2, SlotRoutes DEF RoutedInv, SlotInv, Routed!Current
<1>6. BudgetsSpent'
  BY <1>1, BudgetsStay DEF SlotSpent
<1>7. Answered'
  BY <1>1, <1>2 DEF Answered, ControllerAnswered, ChassisAnswered, Observed
<1>8. QED
  BY <1>1, <1>2, <1>4, <1>5, <1>6, <1>7 DEF RoutedInv

\* The slot being read has not been sent a request by the chassis provider before: its
\* route is on no earlier slot.
LEMMA SlotIsFresh ==
    ASSUME RoutedInv, Routed!Reading, slot \in 1..Len(Slots[Routed!Current])
    PROVE  /\ captured /\ Routed!Current = mapped /\ mapped \in Chassis
           /\ slot \in 1..Len(Slots[mapped]) /\ Len(slots) = slot - 1
           /\ Routed!SlotRoute = Slots[mapped][slot] /\ Routed!SlotRoute \in Routed!Routes
           /\ ~SlotSpent(Routed!SlotRoute)
<1>1. Routed!Current \in Chassis
  BY CurrentChassis
<1>2. Len(Slots[Routed!Current]) \in Nat
  BY <1>1, SlotRoutes
<1>3. slot # 0
  BY <1>2
<1>4. /\ captured /\ Routed!Current = mapped /\ Len(slots) = slot - 1
  BY <1>3 DEF RoutedInv, SlotInv
<1>5. /\ Routed!SlotRoute = Slots[mapped][slot] /\ Routed!SlotRoute \in Routed!Routes
  BY <1>1, <1>4, SlotRoutes DEF Routed!SlotRoute
<1>6. ~SlotSpent(Routed!SlotRoute)
  BY <1>1, <1>2, <1>3, <1>4, <1>5, SlotRoutes DEF SlotSpent
<1>7. QED
  BY <1>1, <1>4, <1>5, <1>6

\* So the request keeps within the budgets.
LEMMA SlotRequestIsSpent ==
    ASSUME RoutedInv, Routed!Reading, slot \in 1..Len(Slots[Routed!Current]),
           Routed!Sent(Routed!SlotRoute), slot' \in {0, slot + 1},
           UNCHANGED <<mapped, captured, requested>>
    PROVE  BudgetsSpent'
<1>1. /\ captured /\ slot \in 1..Len(Slots[mapped]) /\ Len(Slots[mapped]) \in Nat
      /\ Routed!SlotRoute = Slots[mapped][slot] /\ Routed!SlotRoute \in Routed!Routes
      /\ ~SlotSpent(Routed!SlotRoute)
  BY SlotIsFresh, SlotRoutes
<1>2. \A r : (SlotSpent(r) \/ r = Slots[mapped][slot]) => SlotSpent(r)'
  BY <1>1 DEF SlotSpent
<1>3. SUFFICES ASSUME NEW r \in Routed!Routes
               PROVE  wire'[r] <= (IF r \in requested THEN 1 ELSE 0) + (IF SlotSpent(r)' THEN 1 ELSE 0)
  BY DEF BudgetsSpent
<1>4. /\ wire[r] \in Nat
      /\ wire[r] <= (IF r \in requested THEN 1 ELSE 0) + (IF SlotSpent(r) THEN 1 ELSE 0)
  BY DEF RoutedInv, RoutedType, BudgetsSpent
<1>5. wire'[r] = IF r = Routed!SlotRoute THEN wire[r] + 1 ELSE wire[r]
  BY DEF Routed!Sent, RoutedInv, RoutedType
<1>6. SlotSpent(r) => SlotSpent(r)'
  BY <1>2
<1>7. r = Routed!SlotRoute => ~SlotSpent(r) /\ SlotSpent(r)'
  BY <1>1, <1>2
<1>8. QED
  BY <1>4, <1>5, <1>6, <1>7

LEMMA ReadSlotKeepsRouted ==
    ASSUME RoutedInv, Routed!ReadSlot
    PROVE  RoutedInv'
<1>1. /\ Routed!Reading /\ slot \in 1..Len(Slots[Routed!Current]) /\ Routed!Sent(Routed!SlotRoute)
      /\ slot' = slot + 1
      /\ UNCHANGED <<route, allowed, permit, mapped, requested, captured, routedPhase,
                     controllersTodo, chassisTodo, controllers, chassis, diagnostics>>
  BY DEF Routed!ReadSlot, Routed!config, Routed!snapshot
<1>2. PICK o \in Routed!Outcomes : slots' = Append(slots, o)
  BY DEF Routed!ReadSlot
<1>3. /\ captured /\ Routed!Current = mapped /\ mapped \in Chassis
      /\ slot \in 1..Len(Slots[mapped]) /\ Len(slots) = slot - 1
  BY <1>1, SlotIsFresh
<1>4. Len(Slots[mapped]) \in Nat /\ chassisTodo # {} /\ Answered /\ routedPhase = "running"
  BY <1>1, <1>3, SlotRoutes, CurrentChassis DEF Routed!Reading
<1>5. slots \in Seq(Routed!Outcomes) /\ slots' \in Seq(Routed!Outcomes) /\ Len(slots') = Len(slots) + 1
  BY <1>2 DEF RoutedInv, RoutedType
<1>6. RoutedType'
  <2>1. wire' \in [Routed!Routes -> Nat]
    BY <1>1, SentType, SlotIsFresh DEF RoutedInv, RoutedType
  <2>2. slot' \in Nat
    BY <1>1 DEF RoutedInv, RoutedType
  <2>3. QED
    BY <1>1, <1>5, <2>1, <2>2 DEF RoutedInv, RoutedType, SlotsOf
<1>7. SlotInv'
  BY <1>1, <1>3, <1>4, <1>5 DEF SlotInv, Routed!Current
<1>8. BudgetsSpent'
  BY <1>1, SlotRequestIsSpent
<1>9. Answered'
  BY <1>1, <1>4 DEF Answered, ControllerAnswered, ChassisAnswered, Observed
<1>10. QED
  BY <1>1, <1>4, <1>6, <1>7, <1>8, <1>9 DEF RoutedInv

LEMMA SlotUndecodableKeepsRouted ==
    ASSUME RoutedInv, Routed!SlotUndecodable
    PROVE  RoutedInv'
<1>1. /\ Routed!Reading /\ slot \in 1..Len(Slots[Routed!Current]) /\ Routed!Sent(Routed!SlotRoute)
      /\ Routed!NextChassis /\ slot' = 0 /\ slots' = <<>>
      /\ chassisTodo' = chassisTodo \ {Routed!Current}
      /\ diagnostics' = diagnostics \cup {<<"chassis", Routed!Current>>}
      /\ UNCHANGED <<route, allowed, permit, mapped, requested, captured, routedPhase,
                     controllersTodo, controllers, chassis>>
  BY DEF Routed!SlotUndecodable, Routed!NextChassis, Routed!config
<1>2. Answered' /\ routedPhase' = "running"
  BY <1>1, DiagnosticAnswers, CurrentChassis
<1>3. RoutedType' /\ SlotInv'
  <2>1. wire' \in [Routed!Routes -> Nat]
    BY <1>1, SentType, SlotIsFresh DEF RoutedInv, RoutedType
  <2>2. QED
    BY <1>1, <2>1 DEF RoutedInv, RoutedType, SlotsOf, SlotInv
<1>4. BudgetsSpent'
  BY <1>1, SlotRequestIsSpent
<1>5. QED
  BY <1>2, <1>3, <1>4 DEF RoutedInv

LEMMA EndChassisKeepsRouted ==
    ASSUME RoutedInv, Routed!EndChassis
    PROVE  RoutedInv'
<1> DEFINE c == Routed!Current
<1>1. /\ Routed!Reading /\ slot > Len(Slots[c]) /\ chassis' = chassis \cup {<<c, slots>>}
      /\ slot' = 0 /\ slots' = <<>> /\ chassisTodo' = chassisTodo \ {c}
      /\ UNCHANGED <<route, allowed, permit, mapped, requested, captured, routedPhase,
                     controllersTodo, controllers, diagnostics, wire>>
  BY DEF Routed!EndChassis, Routed!NextChassis, Routed!config
<1>2. /\ c \in chassisTodo /\ c \in route.chassis /\ c \in Chassis
      /\ routedPhase = "running" /\ Answered
  BY <1>1, CurrentChassis
<1>3. Len(Slots[c]) \in Nat /\ slot \in Nat
  BY <1>2, SlotRoutes DEF RoutedInv, RoutedType
<1>4. slot # 0 /\ c = mapped /\ Len(slots) = Len(Slots[c])
  BY <1>1, <1>3 DEF RoutedInv, SlotInv
<1> HIDE DEF c
<1>5. RoutedType' /\ SlotInv'
  BY <1>1 DEF RoutedInv, RoutedType, SlotsOf, SlotInv
<1>6. BudgetsSpent'
  BY <1>1, BudgetsStay DEF SlotSpent
<1>7. Answered'
  <2>1. ASSUME NEW r \in route.controllers PROVE ControllerAnswered(r)'
    BY <1>1, <1>2 DEF Answered, ControllerAnswered
  <2>2. ASSUME NEW d \in route.chassis PROVE ChassisAnswered(d)'
    <3>1. Observed(d)' <=> Observed(d) \/ d = c
      <4>1. <<c, slots>>[1] = c /\ <<c, slots>> \in chassis' /\ chassis \subseteq chassis'
        BY <1>1
      <4>2. \A o \in chassis' : o \in chassis \/ o = <<c, slots>>
        BY <1>1
      <4>3. QED
        BY <4>1, <4>2, Zenon DEF Observed
    <3>2. ChassisAnswered(d)
      BY <1>2 DEF Answered
    <3>3. d \in chassisTodo' <=> d \in chassisTodo /\ d # c
      BY <1>1
    <3>4. QED
      BY <1>1, <1>2, <3>1, <3>2, <3>3 DEF ChassisAnswered
  <2>3. \A o \in chassis' : Len(o[2]) = Len(Slots[o[1]])
    BY <1>1, <1>2, <1>4 DEF Answered
  <2>4. QED
    BY <1>1, <2>1, <2>2, <2>3 DEF Answered
<1>8. QED
  BY <1>1, <1>2, <1>5, <1>6, <1>7 DEF RoutedInv

LEMMA BeginKeepsRouted ==
    ASSUME RoutedInv, Routed!Begin
    PROVE  RoutedInv'
<1>1. /\ routedPhase' = "running" /\ controllersTodo' = route.controllers
      /\ chassisTodo' = route.chassis /\ slot' = 0 /\ slots' = <<>>
      /\ controllers' = {} /\ chassis' = {} /\ diagnostics' = {}
      /\ UNCHANGED <<route, allowed, permit, mapped, requested, captured, wire>>
  BY DEF Routed!Begin, Routed!config
<1>2. RoutedType' /\ SlotInv'
  BY <1>1 DEF RoutedInv, RoutedType, SlotsOf, SlotInv
<1>3. BudgetsSpent'
  BY <1>1, BudgetsStay DEF SlotSpent
<1>4. Answered'
  BY <1>1 DEF Answered, ControllerAnswered, ChassisAnswered, Observed
<1>5. QED
  BY <1>1, <1>2, <1>3, <1>4 DEF RoutedInv

LEMMA PhaseKeepsRouted ==
    ASSUME RoutedInv, Routed!SlotUnencodable \/ Routed!Return
    PROVE  RoutedInv'
<1>1. /\ \/ routedPhase' = "raised"
         \/ routedPhase' = "done" /\ routedPhase = "running" /\ controllersTodo = {} /\ chassisTodo = {}
      /\ UNCHANGED <<route, allowed, permit, mapped, requested, captured, controllersTodo,
                     chassisTodo, slot, slots, controllers, chassis, diagnostics, wire>>
  BY DEF Routed!SlotUnencodable, Routed!Return, Routed!config, Routed!snapshot
<1>2. RoutedType' /\ SlotInv' /\ BudgetsSpent'
  BY <1>1, BudgetsStay DEF RoutedInv, RoutedType, SlotsOf, SlotInv, SlotSpent, Routed!Current
<1>3. routedPhase = "running" => Answered'
  BY <1>1 DEF RoutedInv, Answered, ControllerAnswered, ChassisAnswered, Observed
<1>4. QED
  BY <1>1, <1>2, <1>3 DEF RoutedInv

LEMMA RoutedStutter ==
    ASSUME RoutedInv, UNCHANGED Routed!vars
    PROVE  RoutedInv'
  BY DEF Routed!vars, Routed!config, Routed!snapshot, RoutedInv, RoutedType, SlotsOf, SlotInv,
         BudgetsSpent, SlotSpent, Routed!Current, Answered, ControllerAnswered, ChassisAnswered,
         Observed

LEMMA RoutedInvAlways == Routed!Spec => []RoutedInv
<1>1. RoutedInv /\ [Routed!Next]_(Routed!vars) => RoutedInv'
  BY ReadControllerKeepsRouted, RefuseKeepsRouted, BeginChassisKeepsRouted, ReadSlotKeepsRouted,
     SlotUndecodableKeepsRouted, EndChassisKeepsRouted, BeginKeepsRouted, PhaseKeepsRouted,
     RoutedStutter DEF Routed!Next
<1>2. QED
  BY <1>1, RoutedInvInit, PTL DEF Routed!Spec

\* However many captures run over the same providers and whatever their requests
\* answer, a route gets at most one request from each provider that has it, and only
\* a route the operator permit names gets any.
THEOREM RequestsStaySingle == Routed!Spec => []OneRequestPerRoute
<1>1. RoutedInv => OneRequestPerRoute
  <2>1. SUFFICES ASSUME RoutedInv, NEW r \in Routed!Routes, wire[r] > 0
                 PROVE  r \in permit /\ wire[r] <= Routed!Readers(r)
    BY DEF OneRequestPerRoute, Routed!OneRequestPerRoute
  <2>2. /\ wire[r] \in Nat
        /\ wire[r] <= (IF r \in requested THEN 1 ELSE 0) + (IF SlotSpent(r) THEN 1 ELSE 0)
    BY <2>1 DEF RoutedInv, RoutedType, BudgetsSpent
  <2>3. r \in requested => r \in allowed /\ r \in permit
    BY <2>1 DEF RoutedInv, RoutedType
  <2>4. SlotSpent(r) => r \in SlotsOf(mapped) /\ r \in permit
    BY <2>1, SlotRoutes DEF RoutedInv, RoutedType, SlotSpent
  <2>5. QED
    BY <2>1, <2>2, <2>3, <2>4 DEF Routed!Readers, SlotsOf
<1>2. QED
  BY <1>1, RoutedInvAlways, PTL

\* A snapshot capture_routed_cip returns answers for every item of its plan by an
\* observation or a diagnostic and never both, and a chassis observation has an
\* outcome for each slot of the route map.
THEOREM ItemsAreAnswered == Routed!Spec => []EveryItemAnswered
<1>1. RoutedInv => EveryItemAnswered
  <2>1. SUFFICES ASSUME RoutedInv, routedPhase = "done"
                 PROVE  Routed!EveryItemAnswered
    BY DEF EveryItemAnswered, Routed!EveryItemAnswered
  <2>2. Answered /\ controllersTodo = {} /\ chassisTodo = {}
    BY <2>1 DEF RoutedInv
  <2>3. \A r \in route.controllers : (r \in controllers) # (<<"controller", r>> \in diagnostics)
    BY <2>2 DEF Answered, ControllerAnswered
  <2>4. ASSUME NEW c \in route.chassis
        PROVE  (\E o \in chassis : o[1] = c) # (<<"chassis", c>> \in diagnostics)
    <3>1. Observed(c) <=> <<"chassis", c>> \notin diagnostics
      BY <2>2 DEF Answered, ChassisAnswered
    <3>2. QED
      BY <3>1 DEF Observed
  <2>5. QED
    BY <2>2, <2>3, <2>4 DEF Answered, Routed!EveryItemAnswered
<1>2. QED
  BY <1>1, RoutedInvAlways, PTL

(***************************************************************************)
(* The SNMP walk.                                                          *)
(***************************************************************************)

\* The first n rows below root i, and all of them.
Rows(i, n) == {tree[i][k] : k \in 1..n}
Complete(i) == ToSet(tree[i]) \subseteq records

WalkType ==
    /\ tree \in Trees /\ max_varbinds \in Nat \ {0} /\ max_responses \in Nat \ {0}
    /\ root \in 1..(Len(tree) + 1) /\ row \in Nat /\ maxRows \in Nat /\ responses \in Nat
    /\ IsFiniteSet(records) /\ Cardinality(records) <= responses /\ records \subseteq Allowlisted

\* Inside a root: how far the walk is, and that every row read has cost a response.
InRoot ==
    phase = "walking" =>
        /\ root <= Len(tree) /\ row >= 1 /\ row <= Len(tree[root]) + 1
        /\ maxRows <= max_varbinds /\ responses >= max_varbinds - maxRows + row - 1
        /\ Rows(root, row - 1) \subseteq records

\* A root left behind is complete unless the budget is used up.
RootsLeft ==
    phase # "failed" => \A i \in 1..(root - 1) : Complete(i) \/ responses >= max_varbinds

\* Without overlaps every row read is new, so the records count the rows.
RowsAreNew ==
    Disjoint =>
        /\ phase = "walking" =>
              /\ Cardinality(records) = max_varbinds - maxRows + row - 1
              /\ \A i \in 1..(root - 1) : Complete(i)
              /\ \A x \in records : x \in Rows(root, row - 1)
                                    \/ \E i \in 1..(root - 1) : x \in ToSet(tree[i])
        /\ phase \in {"root", "done"} =>
              /\ \A i \in 1..(root - 1) : Complete(i) \/ (i = root - 1 /\ Cardinality(records) >= max_varbinds)
              /\ \A x \in records : \E i \in 1..(root - 1) : x \in ToSet(tree[i])

WalkInv ==
    /\ WalkType /\ InRoot /\ RootsLeft /\ RowsAreNew
    /\ phase = "done" => root = Len(tree) + 1

\* What is known of the rows below a root.
LEMMA RowsOfRoot ==
    ASSUME tree \in Trees, NEW i \in 1..Len(tree)
    PROVE  /\ DOMAIN tree = 1..Len(tree) /\ Len(tree) \in Nat /\ Len(tree[i]) \in Nat
           /\ ToSet(tree[i]) = Rows(i, Len(tree[i])) /\ ToSet(tree[i]) \subseteq Allowlisted
           /\ \A n \in 1..Len(tree[i]) : tree[i][n] \in ToSet(tree[i])
           /\ \A n \in 1..Len(tree[i]), k \in 1..Len(tree[i]) : tree[i][n] = tree[i][k] => n = k
<1>1. DOMAIN tree = 1..Len(tree) /\ Len(tree) \in Nat
  BY WalkAssumption
<1>2. DOMAIN tree[i] = 1..Len(tree[i]) /\ Len(tree[i]) \in Nat /\ IsInjective(tree[i])
  BY <1>1, WalkAssumption
<1>3. ToSet(tree[i]) = Rows(i, Len(tree[i])) /\ ToSet(tree[i]) \subseteq Allowlisted
  BY <1>1, <1>2 DEF ToSet, Rows, Allowlisted
<1>4. QED
  BY <1>1, <1>2, <1>3 DEF ToSet, IsInjective

LEMMA TreeLength ==
    ASSUME tree \in Trees PROVE DOMAIN tree = 1..Len(tree) /\ Len(tree) \in Nat
  BY WalkAssumption

LEMMA WalkInvInit == Init => WalkInv
<1>1. SUFFICES ASSUME Init PROVE WalkInv
  OBVIOUS
<1>2. /\ tree \in Trees /\ max_varbinds \in Nat \ {0} /\ max_responses \in Nat \ {0}
      /\ root = 1 /\ row = 0 /\ maxRows = 0 /\ records = {} /\ responses = 0 /\ phase = "root"
  BY <1>1, WalkAssumption DEF Init
<1>3. IsFiniteSet(records) /\ Cardinality(records) = 0
  BY <1>2, FS_EmptySet
<1>4. WalkType
  BY <1>2, <1>3, TreeLength DEF WalkType
<1>5. QED
  BY <1>2, <1>4 DEF WalkInv, InRoot, RootsLeft, RowsAreNew

LEMMA BeginRootKeepsWalk ==
    ASSUME WalkInv, BeginRoot
    PROVE  WalkInv'
<1>1. /\ phase = "root" /\ root <= Len(tree) /\ row' = 1
      /\ UNCHANGED <<tree, max_varbinds, max_responses, root, records, responses>>
  BY DEF BeginRoot, policy
<1>2. /\ tree \in Trees /\ max_varbinds \in Nat \ {0} /\ root \in 1..(Len(tree) + 1)
      /\ responses \in Nat /\ maxRows \in Nat /\ Len(tree) \in Nat
      /\ Cardinality(records) \in Nat /\ Cardinality(records) <= responses
      /\ root \in 1..Len(tree) /\ Len(tree[root]) \in Nat
  BY <1>1, RowsOfRoot, TreeLength, FS_CardinalityType DEF WalkInv, WalkType
<1>3. \/ phase' = "failed" /\ maxRows' = maxRows
      \/ /\ phase' = "walking" /\ Cardinality(records) < max_varbinds
         /\ maxRows' = max_varbinds - Cardinality(records)
  BY <1>2 DEF BeginRoot, Remaining
<1>4. WalkType'
  BY <1>1, <1>2, <1>3 DEF WalkInv, WalkType, Allowlisted
<1>5. InRoot'
  <2>1. ASSUME phase' = "walking"
        PROVE  /\ maxRows' <= max_varbinds /\ responses >= max_varbinds - maxRows' + 1 - 1
    BY <1>2, <1>3, <2>1
  <2>3. Rows(root, 1 - 1)' = {}
    BY DEF Rows
  <2>4. QED
    BY <1>1, <1>2, <2>1, <2>3 DEF InRoot, Rows
<1>6. RootsLeft'
  BY <1>1, <1>3 DEF WalkInv, RootsLeft, Complete
<1>7. RowsAreNew'
  <2>1. SUFFICES ASSUME Disjoint, phase' = "walking"
                 PROVE  /\ Cardinality(records) = max_varbinds - maxRows' + 1 - 1
                        /\ \A i \in 1..(root - 1) : Complete(i)
                        /\ \A x \in records : \E i \in 1..(root - 1) : x \in ToSet(tree[i])
    BY <1>1, <1>3 DEF RowsAreNew, Disjoint, Complete
  <2>2. /\ Cardinality(records) < max_varbinds
        /\ maxRows' = max_varbinds - Cardinality(records)
    BY <1>3, <2>1
  <2>3. /\ \A i \in 1..(root - 1) :
              Complete(i) \/ (i = root - 1 /\ Cardinality(records) >= max_varbinds)
        /\ \A x \in records : \E i \in 1..(root - 1) : x \in ToSet(tree[i])
    BY <1>1, <2>1 DEF WalkInv, RowsAreNew
  <2>4. ~(Cardinality(records) >= max_varbinds)
    BY <1>2, <2>2
  <2>5. Cardinality(records) = max_varbinds - maxRows' + 1 - 1
    BY <1>2, <2>2
  <2>6. QED
    BY <2>3, <2>4, <2>5
<1>8. QED
  BY <1>3, <1>4, <1>5, <1>6, <1>7 DEF WalkInv

LEMMA WalkEndsKeepsWalk ==
    ASSUME WalkInv, WalkEnds
    PROVE  WalkInv'
<1>1. /\ phase = "walking" /\ (row > Len(tree[root]) \/ row > maxRows)
      /\ root' = root + 1 /\ phase' = "root"
      /\ UNCHANGED <<tree, max_varbinds, max_responses, row, maxRows, records, responses>>
  BY DEF WalkEnds, EndRoot, policy
<1>2. /\ root \in 1..Len(tree) /\ Len(tree) \in Nat /\ Len(tree[root]) \in Nat /\ row \in Nat
      /\ row >= 1 /\ row <= Len(tree[root]) + 1 /\ maxRows \in Nat /\ max_varbinds \in Nat
      /\ responses \in Nat /\ responses >= max_varbinds - maxRows + row - 1
      /\ Rows(root, row - 1) \subseteq records /\ tree \in Trees
      /\ Cardinality(records) \in Nat
  BY <1>1, RowsOfRoot, TreeLength, FS_CardinalityType DEF WalkInv, WalkType, InRoot
<1>3. ToSet(tree[root]) = Rows(root, Len(tree[root]))
  BY <1>2, RowsOfRoot
<1>4. Complete(root) \/ row > maxRows
  <2>1. CASE row > Len(tree[root])
    <3>1. row - 1 = Len(tree[root])
      BY <1>2, <2>1
    <3>2. QED
      BY <1>2, <1>3, <3>1 DEF Complete
  <2>2. QED
    BY <1>1, <2>1
<1>5. \A i \in 1..(root' - 1) : i \in 1..(root - 1) \/ i = root
  BY <1>1, <1>2
<1>6. WalkType'
  BY <1>1, <1>2 DEF WalkInv, WalkType, Allowlisted
<1>7. InRoot'
  BY <1>1 DEF InRoot
<1>8. RootsLeft'
  <2>1. Complete(root) \/ responses >= max_varbinds
    BY <1>2, <1>4
  <2>2. \A i \in 1..(root - 1) : Complete(i) \/ responses >= max_varbinds
    BY <1>1 DEF WalkInv, RootsLeft
  <2>3. \A i \in 1..(root' - 1) : Complete(i) \/ responses >= max_varbinds
    BY <1>5, <2>1, <2>2
  <2>4. QED
    BY <1>1, <2>3 DEF RootsLeft, Complete
<1>9. RowsAreNew'
  <2>1. SUFFICES ASSUME Disjoint
                 PROVE  /\ \A i \in 1..(root' - 1) :
                              Complete(i) \/ (i = root' - 1 /\ Cardinality(records) >= max_varbinds)
                        /\ \A x \in records : \E i \in 1..(root' - 1) : x \in ToSet(tree[i])
    BY <1>1 DEF RowsAreNew, Disjoint, Complete
  <2>2. /\ Cardinality(records) = max_varbinds - maxRows + row - 1
        /\ \A i \in 1..(root - 1) : Complete(i)
        /\ \A x \in records : x \in Rows(root, row - 1)
                              \/ \E i \in 1..(root - 1) : x \in ToSet(tree[i])
    BY <1>1, <2>1 DEF WalkInv, RowsAreNew
  <2>3. Complete(root) \/ Cardinality(records) >= max_varbinds
    BY <1>2, <1>4, <2>2
  <2>4. root = root' - 1 /\ root \in 1..(root' - 1) /\ 1..(root - 1) \subseteq 1..(root' - 1)
    BY <1>1, <1>2
  <2>5. Rows(root, row - 1) \subseteq ToSet(tree[root])
    BY <1>2, <1>3 DEF Rows
  <2>6. \A x \in records : \E i \in 1..(root' - 1) : x \in ToSet(tree[i])
    BY <2>2, <2>4, <2>5
  <2>7. QED
    BY <1>5, <2>2, <2>3, <2>4, <2>6
<1>10. QED
  BY <1>1, <1>6, <1>7, <1>8, <1>9 DEF WalkInv

\* A response within the budget gives a row: a new one when no other root has it.
LEMMA RowIsRead ==
    ASSUME WalkInv, phase = "walking", row <= Len(tree[root]), row <= maxRows,
           responses' = responses + 1, records' = records \cup {tree[root][row]}, row' = row + 1,
           phase' \in {"walking", "failed"},
           UNCHANGED <<tree, max_varbinds, max_responses, root, maxRows>>
    PROVE  WalkInv'
<1> DEFINE x == tree[root][row]
<1>1. /\ root \in 1..Len(tree) /\ Len(tree) \in Nat /\ Len(tree[root]) \in Nat /\ row \in Nat
      /\ row >= 1 /\ maxRows \in Nat /\ max_varbinds \in Nat /\ maxRows <= max_varbinds
      /\ responses \in Nat /\ responses >= max_varbinds - maxRows + row - 1
      /\ Rows(root, row - 1) \subseteq records /\ tree \in Trees
      /\ IsFiniteSet(records) /\ Cardinality(records) \in Nat /\ Cardinality(records) <= responses
  <2>1. tree \in Trees /\ Len(tree) \in Nat
    BY TreeLength DEF WalkInv, WalkType
  <2>2. root \in 1..Len(tree)
    BY <2>1 DEF WalkInv, WalkType, InRoot
  <2>3. Len(tree[root]) \in Nat
    BY <2>1, <2>2, RowsOfRoot
  <2>4. IsFiniteSet(records) /\ Cardinality(records) \in Nat /\ Cardinality(records) <= responses
    BY FS_CardinalityType DEF WalkInv, WalkType
  <2>5. QED
    BY <2>1, <2>2, <2>3, <2>4 DEF WalkInv, WalkType, InRoot
<1>2. row \in 1..Len(tree[root]) /\ x \in ToSet(tree[root]) /\ x \in Allowlisted
  BY <1>1, RowsOfRoot
<1>3. Rows(root, row) = Rows(root, row - 1) \cup {x}
  BY <1>1 DEF Rows
<1>4. row' - 1 = row
  BY <1>1
<1>5. /\ IsFiniteSet(records') /\ Cardinality(records') \in Nat
      /\ Cardinality(records') = IF x \in records THEN Cardinality(records) ELSE Cardinality(records) + 1
  BY <1>1, FS_AddElement, FS_CardinalityType
<1> HIDE DEF x
<1>6. records' = records \cup {x}
  BY DEF x
<1>7. WalkType'
  <2>1. responses' \in Nat /\ row' \in Nat
    BY <1>1
  <2>2. Cardinality(records') <= Cardinality(records) + 1
    BY <1>1, <1>5
  <2>3. Cardinality(records') <= responses'
    BY <1>1, <1>5, <2>2
  <2>4. QED
    BY <1>2, <1>5, <1>6, <2>1, <2>3 DEF WalkInv, WalkType, Allowlisted
<1>8. InRoot'
  <2>1. /\ row' >= 1 /\ row' <= Len(tree[root]) + 1
        /\ responses' >= max_varbinds - maxRows + row' - 1
    <3>1. Len(tree[root]) \in Nat /\ row \in Nat /\ row >= 1 /\ row <= Len(tree[root])
      BY <1>1
    <3>2. /\ responses \in Nat /\ max_varbinds \in Nat /\ maxRows \in Nat
          /\ responses >= max_varbinds - maxRows + row - 1
      BY <1>1
    <3>3. row' = row + 1 /\ responses' = responses + 1
      OBVIOUS
    <3>4. row' >= 1 /\ row' <= Len(tree[root]) + 1
      BY <3>1, <3>3
    <3>5. responses' >= max_varbinds - maxRows + row' - 1
      BY <3>1, <3>2, <3>3
    <3>6. QED
      BY <3>4, <3>5
  <2>2. Rows(root, row) \subseteq records'
    BY <1>1, <1>3, <1>6
  <2>3. Rows(root, row' - 1) \subseteq records'
    BY <1>4, <2>2
  <2>4. QED
    BY <1>1, <2>1, <2>3 DEF InRoot, Rows
<1>9. RootsLeft'
  <2>1. \A i \in 1..(root - 1) : Complete(i) \/ responses >= max_varbinds
    BY DEF WalkInv, RootsLeft
  <2>2. responses >= max_varbinds => responses' >= max_varbinds
    BY <1>1
  <2>3. QED
    BY <1>6, <2>1, <2>2 DEF RootsLeft, Complete
<1>10. RowsAreNew'
  <2>1. SUFFICES ASSUME Disjoint
                 PROVE  /\ Cardinality(records') = max_varbinds - maxRows + row' - 1
                        /\ \A i \in 1..(root - 1) : ToSet(tree[i]) \subseteq records'
                        /\ \A y \in records' : y \in Rows(root, row' - 1)
                                               \/ \E i \in 1..(root - 1) : y \in ToSet(tree[i])
    BY DEF RowsAreNew, Disjoint, Complete, Rows
  <2>2. /\ Cardinality(records) = max_varbinds - maxRows + row - 1
        /\ \A i \in 1..(root - 1) : Complete(i)
        /\ \A y \in records : y \in Rows(root, row - 1)
                              \/ \E i \in 1..(root - 1) : y \in ToSet(tree[i])
    BY <2>1 DEF WalkInv, RowsAreNew
  <2>3. x \notin Rows(root, row - 1)
    <3>1. SUFFICES ASSUME NEW k \in 1..(row - 1), tree[root][k] = tree[root][row] PROVE FALSE
      BY DEF Rows, x
    <3>2. \A n \in 1..Len(tree[root]), m \in 1..Len(tree[root]) :
              tree[root][n] = tree[root][m] => n = m
      BY <1>1, <1>2, RowsOfRoot
    <3>3. k \in 1..Len(tree[root]) /\ row \in 1..Len(tree[root]) /\ k # row
      BY <1>1, <1>2
    <3>4. QED
      BY <3>1, <3>2, <3>3
  <2>4. \A i \in 1..(root - 1) : x \notin ToSet(tree[i])
    BY <1>1, <1>2, <2>1, TreeLength DEF Disjoint
  <2>5. x \notin records
    BY <2>2, <2>3, <2>4
  <2>6. Cardinality(records') = max_varbinds - maxRows + row' - 1
    BY <1>1, <1>5, <2>2, <2>5
  <2>7. \A y \in records' : y \in Rows(root, row' - 1)
                            \/ \E i \in 1..(root - 1) : y \in ToSet(tree[i])
    BY <1>3, <1>4, <1>6, <2>2
  <2>8. QED
    BY <1>6, <2>2, <2>6, <2>7 DEF Complete
<1>11. QED
  BY <1>7, <1>8, <1>9, <1>10 DEF WalkInv

\* A walk that has failed stays so: only the types are left to keep.
LEMMA FailureKeepsWalk ==
    ASSUME WalkInv, phase' = "failed", responses' = responses + 1,
           UNCHANGED <<tree, max_varbinds, max_responses, root, row, maxRows, records>>
    PROVE  WalkInv'
<1>1. Cardinality(records) \in Nat /\ responses \in Nat /\ Cardinality(records) <= responses
  BY FS_CardinalityType DEF WalkInv, WalkType
<1>2. responses' \in Nat /\ Cardinality(records) <= responses'
  BY <1>1
<1>3. WalkType'
  BY <1>2 DEF WalkInv, WalkType, Allowlisted
<1>4. QED
  BY <1>3 DEF WalkInv, InRoot, RootsLeft, RowsAreNew

LEMMA ResponseKeepsWalk ==
    ASSUME WalkInv, Response
    PROVE  WalkInv'
<1>1. CASE OverBudget(responses + 1)
  BY <1>1, FailureKeepsWalk DEF Response, policy
<1>2. CASE ~OverBudget(responses + 1)
  <2>1. /\ phase = "walking" /\ row <= Len(tree[root]) /\ row <= maxRows
        /\ responses' = responses + 1 /\ records' = records \cup {tree[root][row]}
        /\ row' = row + 1 /\ phase' \in {"walking", "failed"}
        /\ UNCHANGED <<tree, max_varbinds, max_responses, root, maxRows>>
    BY <1>2 DEF Response, policy
  <2>2. QED
    BY <2>1, RowIsRead
<1>3. QED
  BY <1>1, <1>2

LEMMA WalkStutter ==
    ASSUME WalkInv, UNCHANGED <<tree, max_varbinds, max_responses, root, row, maxRows, records, responses>>,
           \/ phase' = phase
           \/ phase = "root" /\ phase' = "done" /\ root > Len(tree)
    PROVE  WalkInv'
<1>1. root > Len(tree) => root = Len(tree) + 1
  BY TreeLength DEF WalkInv, WalkType
<1>2. QED
  BY <1>1 DEF WalkInv, WalkType, InRoot, RootsLeft, RowsAreNew, Complete, Disjoint, Rows, Allowlisted

LEMMA WalkInvAlways == Spec => []WalkInv
<1>1. WalkInv /\ [Next]_vars => WalkInv'
  <2>1. SUFFICES ASSUME WalkInv, [Next]_vars PROVE WalkInv'
    OBVIOUS
  <2>2. CASE BeginRoot
    BY <2>1, <2>2, BeginRootKeepsWalk
  <2>3. CASE WalkEnds
    BY <2>1, <2>3, WalkEndsKeepsWalk
  <2>4. CASE Response
    BY <2>1, <2>4, ResponseKeepsWalk
  <2>5. CASE WalkFails
    BY <2>1, <2>5, FailureKeepsWalk DEF WalkFails, policy
  <2>6. CASE Return
    BY <2>1, <2>6, WalkStutter DEF Return, policy
  <2>7. CASE UNCHANGED vars
    BY <2>1, <2>7, WalkStutter DEF vars
  <2>8. QED
    BY <2>1, <2>2, <2>3, <2>4, <2>5, <2>6, <2>7 DEF Next
<1>2. QED
  BY <1>1, WalkInvInit, PTL DEF Spec

\* A capture _read_records returns without an error misses a row only when as many
\* responses as max_varbinds allows were read, and, unless two roots overlap, only
\* of the last root: an earlier root cut short leaves no budget for the next one,
\* which then fails the capture.
THEOREM ShortCapturesAtBudget == Spec => []ShortOnlyAtBudget
<1>1. WalkInv => ShortOnlyAtBudget
  <2>1. SUFFICES ASSUME WalkInv, phase = "done"
                 PROVE  /\ records = Allowlisted \/ responses >= max_varbinds
                        /\ Disjoint => \A i \in DOMAIN tree : i < Len(tree) => Complete(i)
    BY DEF ShortOnlyAtBudget, Complete
  <2>2. /\ DOMAIN tree = 1..Len(tree) /\ Len(tree) \in Nat /\ root - 1 = Len(tree)
        /\ records \subseteq Allowlisted
    BY <2>1, TreeLength DEF WalkInv, WalkType
  <2>3. \A i \in 1..Len(tree) : Complete(i) \/ responses >= max_varbinds
    BY <2>1, <2>2 DEF WalkInv, RootsLeft
  <2>4. (\A i \in 1..Len(tree) : Complete(i)) => Allowlisted \subseteq records
    BY <2>2 DEF Allowlisted, Complete
  <2>5. Disjoint => \A i \in 1..Len(tree) : i # Len(tree) => Complete(i)
    BY <2>1, <2>2 DEF WalkInv, RowsAreNew
  <2>6. records = Allowlisted \/ responses >= max_varbinds
    BY <2>2, <2>3, <2>4
  <2>7. \A i \in DOMAIN tree : i < Len(tree) => i # Len(tree) /\ i \in 1..Len(tree)
    BY <2>2
  <2>8. QED
    BY <2>5, <2>6, <2>7, Zenon
<1>2. QED
  BY <1>1, WalkInvAlways, PTL

(***************************************************************************)
(* The software inventory capture.                                         *)
(***************************************************************************)

LEMMA MaxMember ==
    ASSUME NEW S \in SUBSET (1..MaxInstance), S # {}
    PROVE  Inventory!Max(S) \in S /\ \A i \in S : i <= Inventory!Max(S)
<1> DEFINE T == {MaxInstance - i : i \in S}
<1>1. MaxInstance \in Nat /\ T \subseteq Nat /\ T # {}
  <2>1. MaxInstance \in Nat /\ \A i \in S : i \in 1..MaxInstance
    BY InventoryAssumption
  <2>2. \A i \in S : MaxInstance - i \in Nat
    BY <2>1
  <2>3. QED
    BY <2>1, <2>2, Zenon
<1>2. Routed!Min(T) \in T /\ \A n \in T : Routed!Min(T) <= n
  BY <1>1, MinMember
<1>3. PICK m \in S : Routed!Min(T) = MaxInstance - m
  BY <1>2
<1>4. \A i \in S : MaxInstance - m <= MaxInstance - i
  BY <1>2, <1>3
<1>5. \A i \in S : m >= i
  BY <1>1, <1>4
<1>6. QED
  BY <1>5 DEF Inventory!Max

\* A symbol that was asked for is in the observation.
Listed(i) == Kind[i] \in plan.capabilities => [instance |-> i, parent |-> 0] \in items

\* Before the programs' scopes the symbols below the cursor are listed, from then on
\* all of them.
InventoryInv ==
    /\ table \subseteq 1..MaxInstance /\ steady \subseteq table
    /\ cursor.instance \in Nat /\ cursor.scope \in {"controller", "program"}
    /\ inventoryPhase = "reading" /\ honest =>
          \A i \in steady : cursor.scope = "program" \/ i < cursor.instance => Listed(i)
    /\ inventoryPhase = "done" /\ honest => \A i \in steady : Listed(i)

LEMMA InventoryInvInit == Inventory!Init => InventoryInv
  BY InventoryAssumption DEF Inventory!Init, InventoryInv, Inventory!Start

\* What a page of an honest controller holds.
LEMMA PageOfRest ==
    ASSUME InventoryInv, honest, NEW p \in Inventory!Pages(cursor.instance)
    PROVE  /\ p \subseteq table
           /\ p = Inventory!Remaining(cursor.instance) =>
                 \A i \in table : i < cursor.instance \/ i \in p
           /\ p # Inventory!Remaining(cursor.instance) =>
                 \A i \in table : i < Inventory!Max(p) + 1 => i < cursor.instance \/ i \in p
<1>1. /\ p \subseteq Inventory!Remaining(cursor.instance)
      /\ p = {} => Inventory!Remaining(cursor.instance) = {}
      /\ \A i \in p, j \in Inventory!Remaining(cursor.instance) : j < i => j \in p
  BY DEF Inventory!Pages
<1>2. Inventory!Remaining(cursor.instance) = {i \in table : i >= cursor.instance}
  BY DEF Inventory!Remaining
<1>3. /\ p \subseteq table /\ table \subseteq 1..MaxInstance /\ MaxInstance \in Nat
      /\ cursor.instance \in Nat
  BY <1>1, <1>2, InventoryAssumption DEF InventoryInv
<1>4. \A i \in table : i < cursor.instance \/ i \in Inventory!Remaining(cursor.instance)
  BY <1>2, <1>3
<1>5. ASSUME p # Inventory!Remaining(cursor.instance), NEW i \in table,
             i < Inventory!Max(p) + 1, i \in Inventory!Remaining(cursor.instance)
      PROVE  i \in p
  <2>1. Inventory!Max(p) \in p
    BY <1>1, <1>3, <1>5, MaxMember
  <2>2. Inventory!Max(p) \in 1..MaxInstance /\ i \in 1..MaxInstance
    BY <1>3, <2>1
  <2>3. i < Inventory!Max(p) \/ i = Inventory!Max(p)
    BY <1>3, <1>5, <2>2
  <2>4. QED
    BY <1>1, <1>5, <2>1, <2>3
<1>6. QED
  BY <1>3, <1>4, <1>5

\* The next cursor, and the page's items.
LEMMA PageKeepsInventory ==
    ASSUME InventoryInv, Inventory!ReadPage
    PROVE  InventoryInv'
<1>1. PICK p \in Inventory!Pages(cursor.instance) : Inventory!Accept(p)
  BY DEF Inventory!ReadPage
<1>2. inventoryPhase = "reading" /\ UNCHANGED <<plan, table, honest, steady>>
  BY DEF Inventory!ReadPage, Inventory!device
<1> DEFINE known == IF cursor.scope = "controller" THEN Inventory!RememberPrograms(p) ELSE programs
           scopeProgram == IF cursor.scope = "program" THEN programs[cursor.program + 1] ELSE 0
           numeric == Inventory!PageCursor(p, cursor.instance)
           nxt == Inventory!NextCursor(numeric, known)
<1>3. /\ items' = items \cup Inventory!Items(p, scopeProgram)
      /\ inventoryPhase' = IF nxt = {} THEN "done"
                           ELSE IF nxt \subseteq seen THEN "failed" ELSE "reading"
      /\ IF nxt \subseteq seen THEN cursor' = cursor ELSE cursor' \in nxt
  <2>1. nxt # {} => (CHOOSE c \in nxt : TRUE) \in nxt
    BY Zenon
  <2>2. ~(nxt \subseteq seen) => nxt # {}
    OBVIOUS
  <2>3. QED
    BY <1>1, <2>1, <2>2 DEF Inventory!Accept, Inventory!None
<1>4. /\ table \subseteq 1..MaxInstance /\ steady \subseteq table /\ MaxInstance \in Nat
      /\ cursor.instance \in Nat /\ cursor.scope \in {"controller", "program"}
      /\ honest => \A i \in steady : cursor.scope = "program" \/ i < cursor.instance => Listed(i)
  BY <1>2, InventoryAssumption DEF InventoryInv
<1>5. \A i : Listed(i) => Listed(i)'
  BY <1>2, <1>3 DEF Listed
<1>6. cursor.scope = "controller" => \A i \in p : Listed(i)'
  <2>1. SUFFICES ASSUME cursor.scope = "controller", NEW i \in p, Kind[i] \in plan.capabilities
                 PROVE  [instance |-> i, parent |-> 0] \in items'
    BY <1>2 DEF Listed
  <2>2. scopeProgram = 0 /\ Inventory!Lowered(i, scopeProgram) = [instance |-> i, parent |-> 0]
    BY <2>1 DEF Inventory!Lowered, Inventory!None
  <2>3. Inventory!Lowered(i, scopeProgram) \in Inventory!Items(p, scopeProgram)
    BY <2>1 DEF Inventory!Items
  <2>4. QED
    BY <1>3, <2>2, <2>3
<1>7. p \subseteq 1..MaxInstance
  BY <1>4 DEF Inventory!Pages, Inventory!Remaining
<1>8. \/ numeric = 0 /\ p = Inventory!Remaining(cursor.instance)
      \/ /\ numeric = Inventory!Max(p) + 1 /\ p # Inventory!Remaining(cursor.instance)
         /\ numeric \in Nat /\ numeric # 0
  <2>1. p # Inventory!Remaining(cursor.instance) => p # {}
    BY DEF Inventory!Pages
  <2>2. p # {} => Inventory!Max(p) \in 1..MaxInstance
    BY <1>7, MaxMember
  <2>3. p # {} => Inventory!Max(p) + 1 \in Nat /\ Inventory!Max(p) + 1 # 0
    BY <1>4, <2>2
  <2>4. QED
    BY <2>1, <2>3 DEF Inventory!PageCursor, Inventory!None
<1>9. \A c \in nxt : /\ c.instance \in Nat /\ c.scope \in {"controller", "program"}
                     /\ numeric # 0 => c.instance = numeric /\ c.scope = cursor.scope
                     /\ numeric = 0 => c.scope = "program"
  BY <1>4, <1>8 DEF Inventory!NextCursor, Inventory!Cursor, Inventory!None
<1>10. nxt = {} => numeric = 0
  BY DEF Inventory!NextCursor, Inventory!None
<1> HIDE DEF known, scopeProgram, numeric, nxt
<1>11. ASSUME honest, numeric = 0, NEW i \in steady PROVE Listed(i)'
  BY <1>4, <1>5, <1>6, <1>8, <1>11, PageOfRest
<1>12. ASSUME honest, numeric # 0, NEW i \in steady, cursor.scope = "program" \/ i < numeric
       PROVE  Listed(i)'
  BY <1>4, <1>5, <1>6, <1>8, <1>12, PageOfRest
<1>13. cursor'.instance \in Nat /\ cursor'.scope \in {"controller", "program"}
  BY <1>3, <1>4, <1>9
<1>14. ASSUME inventoryPhase' = "done", honest, NEW i \in steady PROVE Listed(i)'
  BY <1>3, <1>10, <1>11, <1>14
<1>15. ASSUME inventoryPhase' = "reading", honest, NEW i \in steady,
              cursor'.scope = "program" \/ i < cursor'.instance
       PROVE  Listed(i)'
  <2>1. cursor' \in nxt
    BY <1>3, <1>15
  <2>2. CASE numeric = 0
    BY <1>11, <1>15, <2>2
  <2>3. CASE numeric # 0
    BY <1>9, <1>12, <1>15, <2>1, <2>3
  <2>4. QED
    BY <2>2, <2>3
<1>16. QED
  BY <1>2, <1>4, <1>13, <1>14, <1>15 DEF InventoryInv

LEMMA OthersKeepInventory ==
    ASSUME InventoryInv,
           \/ Inventory!Capture \/ Inventory!CaptureRefused \/ Inventory!BudgetExhausted
           \/ Inventory!PageFails \/ Inventory!EditController \/ UNCHANGED Inventory!vars
    PROVE  InventoryInv'
<1>1. CASE Inventory!Capture
  <2>1. /\ inventoryPhase' = "reading" /\ table' = table /\ steady' = table
        /\ cursor'.instance = 0 /\ cursor'.scope = "controller"
    BY <1>1 DEF Inventory!Capture, Inventory!Start
  <2>2. \A i \in table : ~(i < 0)
    BY InventoryAssumption DEF InventoryInv
  <2>3. QED
    BY <2>1, <2>2 DEF InventoryInv
<1>2. CASE \/ Inventory!CaptureRefused \/ Inventory!BudgetExhausted \/ Inventory!PageFails
           \/ UNCHANGED Inventory!vars
  <2>1. /\ UNCHANGED <<plan, table, honest, steady, items, cursor>>
        /\ inventoryPhase' \in {inventoryPhase, "failed"}
    BY <1>2 DEF Inventory!CaptureRefused, Inventory!BudgetExhausted, Inventory!PageFails,
                Inventory!vars, Inventory!device
  <2>2. QED
    BY <2>1 DEF InventoryInv, Listed
<1>3. CASE Inventory!EditController
  <2>1. /\ UNCHANGED <<plan, honest, items, cursor, inventoryPhase>>
        /\ \E i \in Instances :
              /\ table' = IF i \in table THEN table \ {i} ELSE table \cup {i}
              /\ steady' = steady \ {i}
    BY <1>3 DEF Inventory!EditController
  <2>2. table' \subseteq 1..MaxInstance /\ steady' \subseteq table' /\ steady' \subseteq steady
    BY <2>1, InventoryAssumption DEF InventoryInv
  <2>3. QED
    BY <2>1, <2>2 DEF InventoryInv, Listed
<1>4. QED
  BY <1>1, <1>2, <1>3

\* A capture that returns has every requested symbol the controller held all along,
\* however the pages fell, whatever was edited between them and however close the
\* request budget was: a page that is not the rest moves the cursor past its own
\* symbols only.
THEOREM ObservationStaysWhole == Inventory!Spec => []ObservationIsWhole
<1>1. InventoryInv /\ [Inventory!Next]_(Inventory!vars) => InventoryInv'
  BY PageKeepsInventory, OthersKeepInventory DEF Inventory!Next
<1>2. InventoryInv => ObservationIsWhole
  BY DEF InventoryInv, Listed, ObservationIsWhole, Inventory!ObservationIsWhole, Inventory!None
<1>3. QED
  BY <1>1, <1>2, InventoryInvInit, PTL DEF Inventory!Spec

(***************************************************************************)
(* Network drift.                                                          *)
(***************************************************************************)

\* Rows of agent a of capture c: what they link, and the evidence they give.
LldpLink(c, a, j) ==
    <<c.nodes[a].lldp[j].chassis, Drift!_neighbours(c.nodes[a])[j].interface>>
FdbLink(c, a, m) ==
    <<c.nodes[a].fdb[m].mac, Drift!_forwarding_entries(c.nodes[a])[m].interface>>
LldpEvidence(c, a, j) == <<"lldp", c.nodes[a].target, c.nodes[a].lldp[j].oid>>
FdbEvidence(c, a, m) == <<"bridge_fdb", c.nodes[a].target, c.nodes[a].fdb[m].oid>>
LldpCount(c, a) == Len(c.nodes[a].lldp)
FdbCount(c, a) == Len(c.nodes[a].fdb)

\* Report j is the last of its link; forwarding entry m has no report.
LastReport(c, a, j) ==
    \A i \in (j + 1)..LldpCount(c, a) : LldpLink(c, a, i) # LldpLink(c, a, j)
Unreported(c, a, m) ==
    \A j \in 1..LldpCount(c, a) : LldpLink(c, a, j) # FdbLink(c, a, m)
Corroborates(c, a, m, j) == LastReport(c, a, j) /\ FdbLink(c, a, m) = LldpLink(c, a, j)

\* The first f[a] forwarding entries that corroborate report j.
Support(c, f, a, j) == {m \in 1..f[a] : Corroborates(c, a, m, j)}

RemoteNode(c, a, j) ==
    Drift!_remote_node_key(c.nodes[a].lldp[j].addresses, c.nodes[a].lldp[j].chassis,
                           Drift!_known_target_by_address(c))
Node(c, a) == Drift!TargetKey(c.nodes[a].target)

\* The relationship that report j, and that an unreported forwarding entry m, stand for.
Report(c, f, a, j) ==
    [key |-> <<Node(c, a), "lldp", c.nodes[a].lldp[j].port, RemoteNode(c, a, j),
               c.nodes[a].lldp[j].remote>>,
     type |-> "reported_neighbour", source |-> Node(c, a), target |-> RemoteNode(c, a, j),
     interface |-> Drift!_neighbours(c.nodes[a])[j].interface,
     port |-> c.nodes[a].lldp[j].port, remote |-> c.nodes[a].lldp[j].remote,
     confidence |-> IF Support(c, f, a, j) = {} THEN "protocol_reported" ELSE "corroborated",
     evidence |-> {LldpEvidence(c, a, j)} \cup {FdbEvidence(c, a, m) : m \in Support(c, f, a, j)}]
Reachability(c, a, m) ==
    [key |-> <<Node(c, a), "fdb", c.nodes[a].fdb[m].port, <<"mac", c.nodes[a].fdb[m].mac>>,
               unresolved>>,
     type |-> "mac_reachability", source |-> Node(c, a),
     target |-> <<"mac", c.nodes[a].fdb[m].mac>>,
     interface |-> Drift!_forwarding_entries(c.nodes[a])[m].interface,
     port |-> c.nodes[a].fdb[m].port, remote |-> unresolved,
     confidence |-> "indirect", evidence |-> {FdbEvidence(c, a, m)}]

Sequence(R) == \E S : R \in Seq(S)

\* R holds the relationships of the first l[a] reports and f[a] forwarding entries of
\* each agent a: each once, and nothing else.
Described(c, l, f, R) ==
    /\ Sequence(R)
    /\ \A i, k \in 1..Len(R) : \A e \in R[i].evidence : e \in R[k].evidence => i = k
    /\ \A i \in 1..Len(R) : \E a \in DOMAIN c.nodes :
          \/ \E j \in 1..l[a] : R[i] = Report(c, f, a, j)
          \/ \E m \in 1..f[a] : Unreported(c, a, m) /\ R[i] = Reachability(c, a, m)
    /\ \A a \in DOMAIN c.nodes :
          /\ \A j \in 1..l[a] : \E i \in 1..Len(R) : R[i] = Report(c, f, a, j)
          /\ \A m \in 1..f[a] :
                IF Unreported(c, a, m) THEN \E i \in 1..Len(R) : R[i] = Reachability(c, a, m)
                ELSE \E j \in 1..l[a] : Corroborates(c, a, m, j)

\* links finds, among the first p reports of agent a, the last of each link.
Linked(c, f, a, p, links, R) ==
    /\ \A j \in 1..p : LldpLink(c, a, j) \in DOMAIN links
    /\ \A k \in DOMAIN links : \E j \in 1..p :
          /\ LldpLink(c, a, j) = k
          /\ \A i \in (j + 1)..p : LldpLink(c, a, i) # k
          /\ links[k] \in 1..Len(R)
          /\ R[links[k]] = Report(c, f, a, j)

\* Of the counted rows: all of the agents before n, x of agent n.
Through(counts, n, x) ==
    [a \in DOMAIN counts |-> IF a < n THEN counts[a] ELSE IF a = n THEN x ELSE 0]
LldpCounts(c) == [a \in DOMAIN c.nodes |-> LldpCount(c, a)]
FdbCounts(c) == [a \in DOMAIN c.nodes |-> FdbCount(c, a)]

\* The loops have read p reports and q forwarding entries of agent n of capture c.
Seen(c, n, p, q, links, R) ==
    /\ n \in DOMAIN c.nodes
    /\ p \in 0..LldpCount(c, n) /\ q \in 0..FdbCount(c, n)
    /\ Described(c, Through(LldpCounts(c), n, p), Through(FdbCounts(c), n, q), R)
    /\ Linked(c, Through(FdbCounts(c), n, q), n, p, links, R)

\* The relationships of a capture wholly read.
Correlated(c, R) == Described(c, LldpCounts(c), FdbCounts(c), R)

\* One more row of agent a; another relationship in place x.
OneMore(counts, a) == [counts EXCEPT ![a] = counts[a] + 1]
Replaced(R, x, r) == [R EXCEPT ![x] = r]

UniqueKeys(R) == \A i, j \in 1..Len(R) : R[i].key = R[j].key => i = j

\* A report with one more piece of evidence; links with one more, to place x.
Corroborated(r, e) == [r EXCEPT !.confidence = "corroborated", !.evidence = r.evidence \cup {e}]
Pointing(links, K, x) == [k \in DOMAIN links \cup {K} |-> IF k = K THEN x ELSE links[k]]

\* What the proofs use of a sequence, of whatever elements.
LEMMA SequenceFacts ==
    ASSUME NEW R, Sequence(R)
    PROVE  Len(R) \in Nat /\ DOMAIN R = 1..Len(R)
<1>1. PICK S : R \in Seq(S)
  BY DEF Sequence
<1>2. QED
  BY <1>1

\* Appending keeps every place and adds one.
LEMMA SequenceAppend ==
    ASSUME NEW R, NEW x, Sequence(R)
    PROVE  /\ Sequence(Append(R, x))
           /\ Len(Append(R, x)) = Len(R) + 1
           /\ Append(R, x)[Len(R) + 1] = x
           /\ \A i \in 1..Len(R) : Append(R, x)[i] = R[i]
<1>1. PICK S : R \in Seq(S)
  BY DEF Sequence
<1>2. R \in Seq(S \cup {x})
  BY <1>1
<1>3. Append(R, x) \in Seq(S \cup {x})
  BY <1>2
<1>4. QED
  BY <1>2, <1>3 DEF Sequence

\* Replacing changes one place only.
LEMMA SequenceReplace ==
    ASSUME NEW R, NEW x, NEW i \in 1..Len(R), Sequence(R)
    PROVE  /\ Sequence(Replaced(R, i, x))
           /\ Len(Replaced(R, i, x)) = Len(R)
           /\ Replaced(R, i, x)[i] = x
           /\ \A k \in 1..Len(R) : k # i => Replaced(R, i, x)[k] = R[k]
<1>1. PICK S : R \in Seq(S)
  BY DEF Sequence
<1>2. R \in Seq(S \cup {x})
  BY <1>1
<1>3. [R EXCEPT ![i] = x] \in Seq(S \cup {x})
  BY <1>2
<1>4. QED
  BY <1>2, <1>3 DEF Sequence, Replaced

\* Evidence tells the rows of a capture apart.
LEMMA EvidenceIsOneRow ==
    ASSUME NEW c, IsCapture(c), NEW a \in DOMAIN c.nodes, NEW b \in DOMAIN c.nodes
    PROVE  /\ \A i \in 1..LldpCount(c, a), j \in 1..LldpCount(c, b) :
                 LldpEvidence(c, a, i) = LldpEvidence(c, b, j) => a = b /\ i = j
           /\ \A i \in 1..FdbCount(c, a), j \in 1..FdbCount(c, b) :
                 FdbEvidence(c, a, i) = FdbEvidence(c, b, j) => a = b /\ i = j
           /\ \A i, j : LldpEvidence(c, a, i) # FdbEvidence(c, b, j)
<1>1. /\ \A i, j \in 1..LldpCount(c, a) :
            c.nodes[a].lldp[i].oid = c.nodes[a].lldp[j].oid => i = j
      /\ \A i, j \in 1..FdbCount(c, a) :
            c.nodes[a].fdb[i].oid = c.nodes[a].fdb[j].oid => i = j
      /\ c.nodes[a].target = c.nodes[b].target => a = b
  BY DEF IsCapture, IsTable, IsSequence, LldpCount, FdbCount
<1>2. QED
  BY <1>1 DEF LldpEvidence, FdbEvidence

\* The row counts of an agent are natural numbers.
LEMMA CaptureCounts ==
    ASSUME NEW c, IsCapture(c), NEW a \in DOMAIN c.nodes
    PROVE  LldpCount(c, a) \in Nat /\ FdbCount(c, a) \in Nat
BY DEF IsCapture, IsTable, IsSequence, LldpCount, FdbCount

\* Only one report of a link is its last.
LEMMA OneLastReport ==
    ASSUME NEW c, NEW a, LldpCount(c, a) \in Nat,
           NEW i \in 1..LldpCount(c, a), NEW j \in 1..LldpCount(c, a),
           LastReport(c, a, i), LastReport(c, a, j), LldpLink(c, a, i) = LldpLink(c, a, j)
    PROVE  i = j
BY DEF LastReport

\* The fields of a relationship that the proofs look at.
LEMMA ReportFields ==
    ASSUME NEW c, NEW f, NEW a, NEW j
    PROVE  /\ Report(c, f, a, j).type = "reported_neighbour"
           /\ Report(c, f, a, j).source = Node(c, a)
           /\ Report(c, f, a, j).confidence =
                 IF Support(c, f, a, j) = {} THEN "protocol_reported" ELSE "corroborated"
           /\ Report(c, f, a, j).evidence =
                 {LldpEvidence(c, a, j)} \cup {FdbEvidence(c, a, m) : m \in Support(c, f, a, j)}
BY DEF Report

\* The same for an entry without a report.
LEMMA ReachabilityFields ==
    ASSUME NEW c, NEW a, NEW m
    PROVE  /\ Reachability(c, a, m).type = "mac_reachability"
           /\ Reachability(c, a, m).source = Node(c, a)
           /\ Reachability(c, a, m).confidence = "indirect"
           /\ Reachability(c, a, m).evidence = {FdbEvidence(c, a, m)}
BY DEF Reachability

\* A report depends on what has been read only through its support.
LEMMA SameSupport ==
    ASSUME NEW c, NEW f, NEW g, NEW a, NEW j, Support(c, f, a, j) = Support(c, g, a, j)
    PROVE  Report(c, f, a, j) = Report(c, g, a, j)
BY DEF Report

\* So many rows of each agent have been read.
Progress(c, l, f) ==
    /\ IsCapture(c)
    /\ l \in [DOMAIN c.nodes -> Nat] /\ f \in [DOMAIN c.nodes -> Nat]
    /\ \A a \in DOMAIN c.nodes : l[a] <= LldpCount(c, a) /\ f[a] <= FdbCount(c, a)

\* A row that is evidence for a relationship has been read, and which one it is for.
LEMMA EvidenceOfReport ==
    ASSUME NEW c, NEW l, NEW f, NEW R, Progress(c, l, f), Described(c, l, f, R),
           NEW i \in 1..Len(R), NEW a \in DOMAIN c.nodes, NEW j \in 1..LldpCount(c, a),
           LldpEvidence(c, a, j) \in R[i].evidence
    PROVE  j \in 1..l[a] /\ R[i] = Report(c, f, a, j)
<1>1. IsCapture(c) /\ l[a] \in Nat
  BY DEF Progress
<1>2. PICK b \in DOMAIN c.nodes :
         \/ \E k \in 1..l[b] : R[i] = Report(c, f, b, k)
         \/ \E m \in 1..f[b] : Unreported(c, b, m) /\ R[i] = Reachability(c, b, m)
  BY DEF Described
<1>3. \A m : LldpEvidence(c, a, j) # FdbEvidence(c, b, m)
  BY <1>1, EvidenceIsOneRow
<1>4. PICK k \in 1..l[b] : R[i] = Report(c, f, b, k)
  BY <1>2, <1>3, ReachabilityFields
<1>5. LldpEvidence(c, a, j) = LldpEvidence(c, b, k)
  BY <1>3, <1>4, ReportFields
<1>6. l[b] \in Nat /\ LldpCount(c, b) \in Nat /\ l[b] <= LldpCount(c, b)
  BY CaptureCounts DEF Progress
<1>7. k \in 1..LldpCount(c, b)
  BY <1>4, <1>6
<1>8. a = b /\ j = k
  BY <1>1, <1>5, <1>7, EvidenceIsOneRow
<1>9. QED
  BY <1>4, <1>8

\* The same for a forwarding entry: it is unreported, or supports the last report.
LEMMA EvidenceOfEntry ==
    ASSUME NEW c, NEW l, NEW f, NEW R, Progress(c, l, f), Described(c, l, f, R),
           NEW i \in 1..Len(R), NEW a \in DOMAIN c.nodes, NEW m \in 1..FdbCount(c, a),
           FdbEvidence(c, a, m) \in R[i].evidence
    PROVE  /\ m \in 1..f[a]
           /\ \/ Unreported(c, a, m) /\ R[i] = Reachability(c, a, m)
              \/ \E j \in 1..l[a] : m \in Support(c, f, a, j) /\ R[i] = Report(c, f, a, j)
<1>1. IsCapture(c) /\ f[a] \in Nat
  BY DEF Progress
<1>2. PICK b \in DOMAIN c.nodes :
         \/ \E k \in 1..l[b] : R[i] = Report(c, f, b, k)
         \/ \E n \in 1..f[b] : Unreported(c, b, n) /\ R[i] = Reachability(c, b, n)
  BY DEF Described
<1>3. \A j : LldpEvidence(c, b, j) # FdbEvidence(c, a, m)
  BY <1>1, EvidenceIsOneRow
<1>4. f[b] \in Nat /\ FdbCount(c, b) \in Nat /\ f[b] <= FdbCount(c, b)
  BY CaptureCounts DEF Progress
<1>5. \A n \in 1..f[b] : FdbEvidence(c, a, m) = FdbEvidence(c, b, n) => a = b /\ m = n
  <2>1. \A n \in 1..f[b] : n \in 1..FdbCount(c, b)
    BY <1>4
  <2>2. QED
    BY <1>1, <2>1, EvidenceIsOneRow
<1>6. CASE \E n \in 1..f[b] : Unreported(c, b, n) /\ R[i] = Reachability(c, b, n)
  BY <1>5, <1>6, ReachabilityFields
<1>7. CASE \E k \in 1..l[b] : R[i] = Report(c, f, b, k)
  <2>1. PICK k \in 1..l[b] : R[i] = Report(c, f, b, k)
    BY <1>7
  <2>2. PICK n \in Support(c, f, b, k) : FdbEvidence(c, a, m) = FdbEvidence(c, b, n)
    BY <1>3, <2>1, ReportFields
  <2>3. n \in 1..f[b]
    BY <2>2 DEF Support
  <2>4. a = b /\ m = n
    BY <1>5, <2>2, <2>3
  <2>5. QED
    BY <2>1, <2>2, <2>3, <2>4
<1>8. QED
  BY <1>2, <1>6, <1>7

\* The next report of an agent whose forwarding entries have not been looked at.
LEMMA ReportIsDescribed ==
    ASSUME NEW c, NEW l, NEW f, NEW R, Progress(c, l, f), Described(c, l, f, R),
           NEW a \in DOMAIN c.nodes, l[a] < LldpCount(c, a), f[a] = 0
    PROVE  /\ Progress(c, OneMore(l, a), f)
           /\ Described(c, OneMore(l, a), f, Append(R, Report(c, f, a, l[a] + 1)))
<1> DEFINE j == l[a] + 1
           ll == OneMore(l, a)
           new == Report(c, f, a, j)
           RR == Append(R, new)
<1>1. /\ l \in [DOMAIN c.nodes -> Nat] /\ f \in [DOMAIN c.nodes -> Nat] /\ IsCapture(c)
      /\ LldpCount(c, a) \in Nat /\ j \in Nat
  BY CaptureCounts DEF Progress
<1>2. /\ ll \in [DOMAIN c.nodes -> Nat] /\ ll[a] = j
      /\ \A b \in DOMAIN c.nodes : b # a => ll[b] = l[b]
      /\ j \in 1..LldpCount(c, a) /\ j \in 1..ll[a]
      /\ \A b \in DOMAIN c.nodes : \A k \in 1..l[b] : k \in 1..ll[b]
      /\ \A k \in 1..j : k = j \/ k \in 1..l[a]
  BY <1>1 DEF OneMore
<1>3. Progress(c, ll, f)
  BY <1>1, <1>2 DEF Progress
<1>4. /\ Sequence(R) /\ Len(R) \in Nat
      /\ Sequence(RR) /\ Len(RR) = Len(R) + 1 /\ RR[Len(R) + 1] = new
      /\ \A i \in 1..Len(R) : RR[i] = R[i]
      /\ \A i \in 1..Len(RR) : i = Len(R) + 1 \/ i \in 1..Len(R)
      /\ \A i \in 1..Len(R) : i \in 1..Len(RR)
      /\ Len(R) + 1 \in 1..Len(RR)
  BY SequenceFacts, SequenceAppend DEF Described
<1>5. new.evidence = {LldpEvidence(c, a, j)}
  BY <1>1, ReportFields DEF Support
<1>6. \A i \in 1..Len(R) : LldpEvidence(c, a, j) \notin R[i].evidence
  BY <1>1, <1>2, EvidenceOfReport
<1> HIDE DEF j, ll, new, RR
<1>7. \A i, k \in 1..Len(RR) : \A e \in RR[i].evidence : e \in RR[k].evidence => i = k
  <2>1. \A i, k \in 1..Len(R) : \A e \in R[i].evidence : e \in R[k].evidence => i = k
    BY DEF Described
  <2>2. QED
    BY <1>4, <1>5, <1>6, <2>1
<1>8. \A i \in 1..Len(RR) : \E b \in DOMAIN c.nodes :
         \/ \E k \in 1..ll[b] : RR[i] = Report(c, f, b, k)
         \/ \E m \in 1..f[b] : Unreported(c, b, m) /\ RR[i] = Reachability(c, b, m)
  <2>1. \A i \in 1..Len(R) : \E b \in DOMAIN c.nodes :
           \/ \E k \in 1..l[b] : R[i] = Report(c, f, b, k)
           \/ \E m \in 1..f[b] : Unreported(c, b, m) /\ R[i] = Reachability(c, b, m)
    BY DEF Described
  <2>2. TAKE i \in 1..Len(RR)
  <2>3. CASE i = Len(R) + 1
    BY <1>2, <1>4, <2>3 DEF new
  <2>4. CASE i \in 1..Len(R)
    BY <1>2, <1>4, <2>1, <2>4
  <2>5. QED
    BY <1>4, <2>3, <2>4
<1>9. ASSUME NEW b \in DOMAIN c.nodes
      PROVE  /\ \A k \in 1..ll[b] : \E i \in 1..Len(RR) : RR[i] = Report(c, f, b, k)
             /\ \A m \in 1..f[b] :
                   IF Unreported(c, b, m) THEN \E i \in 1..Len(RR) : RR[i] = Reachability(c, b, m)
                   ELSE \E k \in 1..ll[b] : Corroborates(c, b, m, k)
  <2>1. /\ \A k \in 1..l[b] : \E i \in 1..Len(R) : R[i] = Report(c, f, b, k)
        /\ \A m \in 1..f[b] :
              IF Unreported(c, b, m) THEN \E i \in 1..Len(R) : R[i] = Reachability(c, b, m)
              ELSE \E k \in 1..l[b] : Corroborates(c, b, m, k)
    BY DEF Described
  <2>2. ASSUME NEW k \in 1..ll[b] PROVE \E i \in 1..Len(RR) : RR[i] = Report(c, f, b, k)
    <3>1. CASE b = a /\ k = j
      BY <1>4, <3>1 DEF new
    <3>2. CASE k \in 1..l[b]
      BY <1>4, <2>1, <3>2
    <3>3. QED
      BY <1>2, <2>2, <3>1, <3>2
  <2>3. QED
    BY <1>2, <1>4, <2>1, <2>2
<1>10. Described(c, ll, f, RR)
  BY <1>4, <1>7, <1>8, <1>9 DEF Described
<1>11. QED
  BY <1>3, <1>10 DEF ll, RR, new, j

\* One more forwarding entry of agent a: the supports it leaves alone.
LEMMA SupportAfterEntry ==
    ASSUME NEW c, NEW l, NEW f, Progress(c, l, f), NEW a \in DOMAIN c.nodes,
           NEW b \in DOMAIN c.nodes, NEW k
    PROVE  Support(c, OneMore(f, a), b, k) =
              IF b = a /\ Corroborates(c, a, f[a] + 1, k) THEN Support(c, f, b, k) \cup {f[a] + 1}
              ELSE Support(c, f, b, k)
<1> DEFINE m == f[a] + 1
           g == OneMore(f, a)
<1>1. f \in [DOMAIN c.nodes -> Nat]
  BY DEF Progress
<1>2. g[a] = m /\ \A d \in DOMAIN c.nodes : d # a => g[d] = f[d]
  BY <1>1 DEF OneMore
<1>3. 1..m = (1..f[a]) \cup {m}
  BY <1>1
<1> HIDE DEF m, g
<1>4. CASE b # a
  BY <1>2, <1>4 DEF Support, m, g
<1>5. CASE b = a /\ Corroborates(c, a, m, k)
  BY <1>2, <1>3, <1>5 DEF Support, m, g
<1>6. CASE b = a /\ ~Corroborates(c, a, m, k)
  BY <1>2, <1>3, <1>6 DEF Support, m, g
<1>7. QED
  BY <1>4, <1>5, <1>6 DEF m, g

\* The counts after one more entry of agent a.
LEMMA ProgressAfterEntry ==
    ASSUME NEW c, NEW l, NEW f, Progress(c, l, f), NEW a \in DOMAIN c.nodes,
           f[a] < FdbCount(c, a)
    PROVE  /\ Progress(c, l, OneMore(f, a))
           /\ f[a] + 1 \in 1..FdbCount(c, a) /\ f[a] + 1 \in 1..OneMore(f, a)[a]
           /\ f[a] + 1 \notin 1..f[a]
           /\ \A b \in DOMAIN c.nodes : \A n \in 1..f[b] : n \in 1..OneMore(f, a)[b]
           /\ \A b \in DOMAIN c.nodes : \A n \in 1..OneMore(f, a)[b] :
                 n \in 1..f[b] \/ (b = a /\ n = f[a] + 1)
<1>1. /\ f \in [DOMAIN c.nodes -> Nat] /\ IsCapture(c)
      /\ FdbCount(c, a) \in Nat /\ f[a] + 1 \in Nat
  BY CaptureCounts DEF Progress
<1>2. QED
  BY <1>1 DEF Progress, OneMore

\* The next forwarding entry has no report.
LEMMA ReachabilityIsDescribed ==
    ASSUME NEW c, NEW l, NEW f, NEW R, Progress(c, l, f), Described(c, l, f, R),
           NEW a \in DOMAIN c.nodes, f[a] < FdbCount(c, a), Unreported(c, a, f[a] + 1)
    PROVE  /\ Described(c, l, OneMore(f, a), Append(R, Reachability(c, a, f[a] + 1)))
           /\ \A b \in DOMAIN c.nodes : \A k \in 1..l[b] :
                 Report(c, OneMore(f, a), b, k) = Report(c, f, b, k)
<1> DEFINE m == f[a] + 1
           g == OneMore(f, a)
           new == Reachability(c, a, m)
           RR == Append(R, new)
<1>1. /\ Progress(c, l, g) /\ m \in 1..FdbCount(c, a) /\ m \in 1..g[a] /\ m \notin 1..f[a]
      /\ \A b \in DOMAIN c.nodes : \A n \in 1..f[b] : n \in 1..g[b]
      /\ \A b \in DOMAIN c.nodes : \A n \in 1..g[b] : n \in 1..f[b] \/ (b = a /\ n = m)
  BY ProgressAfterEntry
<1>2. ASSUME NEW b \in DOMAIN c.nodes, NEW k \in 1..l[b]
      PROVE  Report(c, g, b, k) = Report(c, f, b, k)
  <2>1. ~(b = a /\ Corroborates(c, a, m, k))
    <3>1. l[b] \in Nat /\ LldpCount(c, b) \in Nat /\ l[b] <= LldpCount(c, b)
      BY CaptureCounts DEF Progress
    <3>2. k \in 1..LldpCount(c, b)
      BY <3>1
    <3>3. QED
      BY <3>2 DEF Unreported, Corroborates
  <2>2. Support(c, g, b, k) = Support(c, f, b, k)
    <3>1. Support(c, g, b, k) =
             IF b = a /\ Corroborates(c, a, m, k) THEN Support(c, f, b, k) \cup {m}
             ELSE Support(c, f, b, k)
      BY SupportAfterEntry
    <3> HIDE DEF m, g
    <3>2. QED
      BY <2>1, <3>1
  <2>3. QED
    BY <2>2, SameSupport
<1>3. /\ Sequence(R) /\ Len(R) \in Nat
      /\ Sequence(RR) /\ Len(RR) = Len(R) + 1 /\ RR[Len(R) + 1] = new
      /\ \A i \in 1..Len(R) : RR[i] = R[i]
      /\ \A i \in 1..Len(RR) : i = Len(R) + 1 \/ i \in 1..Len(R)
      /\ \A i \in 1..Len(R) : i \in 1..Len(RR)
      /\ Len(R) + 1 \in 1..Len(RR)
  BY SequenceFacts, SequenceAppend DEF Described
<1>4. new.evidence = {FdbEvidence(c, a, m)}
  BY ReachabilityFields
<1>5. \A i \in 1..Len(R) : FdbEvidence(c, a, m) \notin R[i].evidence
  BY <1>1, EvidenceOfEntry
<1>6. Unreported(c, a, m)
  OBVIOUS
<1> HIDE DEF m, g, new, RR
<1>7. \A i, k \in 1..Len(RR) : \A e \in RR[i].evidence : e \in RR[k].evidence => i = k
  <2>1. \A i, k \in 1..Len(R) : \A e \in R[i].evidence : e \in R[k].evidence => i = k
    BY DEF Described
  <2>2. QED
    BY <1>3, <1>4, <1>5, <2>1
<1>8. \A i \in 1..Len(RR) : \E b \in DOMAIN c.nodes :
         \/ \E k \in 1..l[b] : RR[i] = Report(c, g, b, k)
         \/ \E n \in 1..g[b] : Unreported(c, b, n) /\ RR[i] = Reachability(c, b, n)
  <2>1. \A i \in 1..Len(R) : \E b \in DOMAIN c.nodes :
           \/ \E k \in 1..l[b] : R[i] = Report(c, f, b, k)
           \/ \E n \in 1..f[b] : Unreported(c, b, n) /\ R[i] = Reachability(c, b, n)
    BY DEF Described
  <2>2. TAKE i \in 1..Len(RR)
  <2>3. CASE i = Len(R) + 1
    BY <1>1, <1>3, <1>6, <2>3 DEF new
  <2>4. CASE i \in 1..Len(R)
    BY <1>1, <1>2, <1>3, <2>1, <2>4
  <2>5. QED
    BY <1>3, <2>3, <2>4
<1>9. ASSUME NEW b \in DOMAIN c.nodes
      PROVE  /\ \A k \in 1..l[b] : \E i \in 1..Len(RR) : RR[i] = Report(c, g, b, k)
             /\ \A n \in 1..g[b] :
                   IF Unreported(c, b, n) THEN \E i \in 1..Len(RR) : RR[i] = Reachability(c, b, n)
                   ELSE \E k \in 1..l[b] : Corroborates(c, b, n, k)
  <2>1. /\ \A k \in 1..l[b] : \E i \in 1..Len(R) : R[i] = Report(c, f, b, k)
        /\ \A n \in 1..f[b] :
              IF Unreported(c, b, n) THEN \E i \in 1..Len(R) : R[i] = Reachability(c, b, n)
              ELSE \E k \in 1..l[b] : Corroborates(c, b, n, k)
    BY DEF Described
  <2>2. \A k \in 1..l[b] : \E i \in 1..Len(RR) : RR[i] = Report(c, g, b, k)
    BY <1>2, <1>3, <2>1
  <2>3. ASSUME NEW n \in 1..g[b]
        PROVE  IF Unreported(c, b, n) THEN \E i \in 1..Len(RR) : RR[i] = Reachability(c, b, n)
               ELSE \E k \in 1..l[b] : Corroborates(c, b, n, k)
    <3>1. CASE n \in 1..f[b]
      BY <1>3, <2>1, <3>1
    <3>2. CASE b = a /\ n = m
      BY <1>3, <1>6, <3>2 DEF new
    <3>3. QED
      BY <1>1, <3>1, <3>2
  <2>4. QED
    BY <2>2, <2>3
<1>10. Described(c, l, g, RR)
  BY <1>3, <1>7, <1>8, <1>9 DEF Described
<1>11. QED
  BY <1>2, <1>10 DEF g, RR, new, m

\* The next forwarding entry corroborates report j, in place x.
LEMMA CorroborationIsDescribed ==
    ASSUME NEW c, NEW l, NEW f, NEW R, Progress(c, l, f), Described(c, l, f, R),
           NEW a \in DOMAIN c.nodes, f[a] < FdbCount(c, a),
           NEW j \in 1..l[a], Corroborates(c, a, f[a] + 1, j),
           NEW x \in 1..Len(R), R[x] = Report(c, f, a, j)
    PROVE  /\ Described(c, l, OneMore(f, a), Replaced(R, x, Report(c, OneMore(f, a), a, j)))
           /\ \A b \in DOMAIN c.nodes : \A k \in 1..l[b] :
                 ~(b = a /\ k = j) => Report(c, OneMore(f, a), b, k) = Report(c, f, b, k)
<1> DEFINE m == f[a] + 1
           g == OneMore(f, a)
           new == Report(c, g, a, j)
           RR == Replaced(R, x, new)
<1>1. /\ Progress(c, l, g) /\ m \in 1..FdbCount(c, a) /\ m \in 1..g[a] /\ m \notin 1..f[a]
      /\ \A b \in DOMAIN c.nodes : \A n \in 1..f[b] : n \in 1..g[b]
      /\ \A b \in DOMAIN c.nodes : \A n \in 1..g[b] : n \in 1..f[b] \/ (b = a /\ n = m)
  BY ProgressAfterEntry
<1>2. \A b \in DOMAIN c.nodes : \A k \in 1..l[b] : k \in 1..LldpCount(c, b)
  <2>1. \A b \in DOMAIN c.nodes : l[b] \in Nat /\ LldpCount(c, b) \in Nat /\ l[b] <= LldpCount(c, b)
    BY CaptureCounts DEF Progress
  <2>2. QED
    BY <2>1
<1>3. ASSUME NEW b \in DOMAIN c.nodes, NEW k \in 1..l[b], ~(b = a /\ k = j)
      PROVE  Report(c, g, b, k) = Report(c, f, b, k)
  <2>1. ~(b = a /\ Corroborates(c, a, m, k))
    <3>1. LldpCount(c, a) \in Nat
      BY CaptureCounts DEF Progress
    <3>2. QED
      BY <1>2, <1>3, <3>1, OneLastReport DEF Corroborates
  <2>2. Support(c, g, b, k) = Support(c, f, b, k)
    <3>1. Support(c, g, b, k) =
             IF b = a /\ Corroborates(c, a, m, k) THEN Support(c, f, b, k) \cup {m}
             ELSE Support(c, f, b, k)
      BY SupportAfterEntry
    <3> HIDE DEF m, g
    <3>2. QED
      BY <2>1, <3>1
  <2>3. QED
    BY <2>2, SameSupport
<1>4. /\ Sequence(R) /\ Len(R) \in Nat
      /\ Sequence(RR) /\ Len(RR) = Len(R) /\ RR[x] = new
      /\ \A i \in 1..Len(R) : i # x => RR[i] = R[i]
  <2>1. Sequence(R)
    BY DEF Described
  <2> HIDE DEF new
  <2>2. QED
    BY <2>1, SequenceFacts, SequenceReplace
<1>5. new.evidence = R[x].evidence \cup {FdbEvidence(c, a, m)}
  <2>1. Support(c, g, a, j) = Support(c, f, a, j) \cup {m}
    BY SupportAfterEntry
  <2> HIDE DEF m, g
  <2>2. QED
    BY <2>1, ReportFields DEF new
<1>6. \A i \in 1..Len(R) : FdbEvidence(c, a, m) \notin R[i].evidence
  BY <1>1, EvidenceOfEntry
<1>7. Corroborates(c, a, m, j)
  OBVIOUS
<1> HIDE DEF m, g, new, RR
<1>8. \A i, k \in 1..Len(R) : \A e \in R[i].evidence : e \in R[k].evidence => i = k
  BY DEF Described
<1>9. \A i, k \in 1..Len(RR) : \A e \in RR[i].evidence : e \in RR[k].evidence => i = k
  BY <1>4, <1>5, <1>6, <1>8
<1>10. \A i \in 1..Len(R) : R[i] = Report(c, f, a, j) => i = x
  <2>1. LldpEvidence(c, a, j) \in Report(c, f, a, j).evidence
    BY ReportFields
  <2>2. QED
    BY <1>8, <2>1
<1>11. \A i \in 1..Len(RR) : \E b \in DOMAIN c.nodes :
         \/ \E k \in 1..l[b] : RR[i] = Report(c, g, b, k)
         \/ \E n \in 1..g[b] : Unreported(c, b, n) /\ RR[i] = Reachability(c, b, n)
  <2>1. \A i \in 1..Len(R) : \E b \in DOMAIN c.nodes :
           \/ \E k \in 1..l[b] : R[i] = Report(c, f, b, k)
           \/ \E n \in 1..f[b] : Unreported(c, b, n) /\ R[i] = Reachability(c, b, n)
    BY DEF Described
  <2>2. TAKE i \in 1..Len(RR)
  <2>3. CASE i = x
    BY <1>4, <2>3 DEF new
  <2>4. CASE i # x
    <3>1. RR[i] = R[i] /\ i \in 1..Len(R)
      BY <1>4, <2>4
    <3>2. PICK b \in DOMAIN c.nodes :
             \/ \E k \in 1..l[b] : R[i] = Report(c, f, b, k)
             \/ \E n \in 1..f[b] : Unreported(c, b, n) /\ R[i] = Reachability(c, b, n)
      BY <2>1, <3>1
    <3>3. ASSUME NEW k \in 1..l[b], R[i] = Report(c, f, b, k) PROVE R[i] = Report(c, g, b, k)
      BY <1>3, <1>10, <2>4, <3>1, <3>3
    <3>4. QED
      BY <1>1, <3>1, <3>2, <3>3
  <2>5. QED
    BY <2>3, <2>4
<1>12. ASSUME NEW b \in DOMAIN c.nodes
       PROVE  /\ \A k \in 1..l[b] : \E i \in 1..Len(RR) : RR[i] = Report(c, g, b, k)
              /\ \A n \in 1..g[b] :
                    IF Unreported(c, b, n) THEN \E i \in 1..Len(RR) : RR[i] = Reachability(c, b, n)
                    ELSE \E k \in 1..l[b] : Corroborates(c, b, n, k)
  <2>1. /\ \A k \in 1..l[b] : \E i \in 1..Len(R) : R[i] = Report(c, f, b, k)
        /\ \A n \in 1..f[b] :
              IF Unreported(c, b, n) THEN \E i \in 1..Len(R) : R[i] = Reachability(c, b, n)
              ELSE \E k \in 1..l[b] : Corroborates(c, b, n, k)
    BY DEF Described
  <2>2. ASSUME NEW k \in 1..l[b] PROVE \E i \in 1..Len(RR) : RR[i] = Report(c, g, b, k)
    <3>1. CASE b = a /\ k = j
      BY <1>4, <3>1 DEF new
    <3>2. CASE ~(b = a /\ k = j)
      <4>1. PICK i \in 1..Len(R) : R[i] = Report(c, f, b, k)
        BY <2>1
      <4>2. i # x
        <5>1. LldpEvidence(c, b, k) \in R[i].evidence
          BY <4>1, ReportFields
        <5>2. k \in 1..LldpCount(c, b) /\ j \in 1..LldpCount(c, a)
          BY <1>2
        <5>3. ASSUME i = x PROVE FALSE
          <6>1. LldpEvidence(c, b, k) \in Report(c, f, a, j).evidence
            BY <5>1, <5>3
          <6>2. IsCapture(c)
            BY DEF Progress
          <6>3. QED
            BY <3>2, <5>2, <6>1, <6>2, ReportFields, EvidenceIsOneRow
        <5>4. QED
          BY <5>3
      <4>3. QED
        BY <1>3, <1>4, <3>2, <4>1, <4>2
    <3>3. QED
      BY <3>1, <3>2
  <2>3. ASSUME NEW n \in 1..g[b]
        PROVE  IF Unreported(c, b, n) THEN \E i \in 1..Len(RR) : RR[i] = Reachability(c, b, n)
               ELSE \E k \in 1..l[b] : Corroborates(c, b, n, k)
    <3>1. CASE n \in 1..f[b] /\ ~Unreported(c, b, n)
      BY <2>1, <3>1
    <3>2. CASE n \in 1..f[b] /\ Unreported(c, b, n)
      <4>1. PICK i \in 1..Len(R) : R[i] = Reachability(c, b, n)
        BY <2>1, <3>2
      <4>2. i # x
        BY <4>1, ReachabilityFields, ReportFields
      <4>3. QED
        BY <1>4, <3>2, <4>1, <4>2
    <3>3. CASE b = a /\ n = m
      <4>1. ~Unreported(c, a, m)
        BY <1>2, <1>7 DEF Unreported, Corroborates
      <4>2. QED
        BY <1>7, <3>3, <4>1
    <3>4. QED
      BY <1>1, <3>1, <3>2, <3>3
  <2>4. QED
    BY <2>2, <2>3
<1>13. Described(c, l, g, RR)
  BY <1>4, <1>9, <1>11, <1>12 DEF Described
<1>14. QED
  BY <1>3, <1>13 DEF g, RR, new, m

\* A new report takes over its link: the code overwrites neighbour_links.
LEMMA LinkedAfterReport ==
    ASSUME NEW c, NEW f, NEW a, NEW p \in Nat, NEW links, NEW R, Sequence(R),
           Linked(c, f, a, p, links, R)
    PROVE  Linked(c, f, a, p + 1, Pointing(links, LldpLink(c, a, p + 1), Len(R) + 1),
                  Append(R, Report(c, f, a, p + 1)))
<1> DEFINE K == LldpLink(c, a, p + 1)
           ll == Pointing(links, K, Len(R) + 1)
           new == Report(c, f, a, p + 1)
           RR == Append(R, new)
<1>1. /\ DOMAIN ll = DOMAIN links \cup {K} /\ ll[K] = Len(R) + 1
      /\ \A k \in DOMAIN links : k # K => ll[k] = links[k]
  BY DEF Pointing
<1>2. /\ Len(R) \in Nat /\ Len(RR) = Len(R) + 1 /\ RR[Len(R) + 1] = new
      /\ \A i \in 1..Len(R) : RR[i] = R[i]
  <2> HIDE DEF new
  <2>1. QED
    BY SequenceFacts, SequenceAppend
<1>3. /\ \A j \in 1..p : LldpLink(c, a, j) \in DOMAIN links
      /\ \A k \in DOMAIN links : \E j \in 1..p :
            /\ LldpLink(c, a, j) = k
            /\ \A i \in (j + 1)..p : LldpLink(c, a, i) # k
            /\ links[k] \in 1..Len(R)
            /\ R[links[k]] = Report(c, f, a, j)
  BY DEF Linked
<1>4. new = Report(c, f, a, p + 1) /\ K = LldpLink(c, a, p + 1)
  OBVIOUS
<1> HIDE DEF K, ll, new, RR
<1>5. \A j \in 1..(p + 1) : LldpLink(c, a, j) \in DOMAIN ll
  <2>1. TAKE j \in 1..(p + 1)
  <2>2. j = p + 1 \/ j \in 1..p
    OBVIOUS
  <2>3. QED
    BY <1>1, <1>3, <1>4, <2>2
<1>6. ASSUME NEW k \in DOMAIN ll
      PROVE  \E j \in 1..(p + 1) :
                /\ LldpLink(c, a, j) = k
                /\ \A i \in (j + 1)..(p + 1) : LldpLink(c, a, i) # k
                /\ ll[k] \in 1..Len(RR)
                /\ RR[ll[k]] = Report(c, f, a, j)
  <2>1. CASE k = K
    <3>1. p + 1 \in 1..(p + 1) /\ (p + 2)..(p + 1) = {} /\ Len(R) + 1 \in 1..Len(RR)
      BY <1>2
    <3>2. WITNESS p + 1 \in 1..(p + 1)
    <3>3. QED
      BY <1>1, <1>2, <1>4, <2>1, <3>1
  <2>2. CASE k # K
    <3>1. k \in DOMAIN links /\ ll[k] = links[k]
      BY <1>1, <2>2
    <3>2. PICK j \in 1..p :
             /\ LldpLink(c, a, j) = k
             /\ \A i \in (j + 1)..p : LldpLink(c, a, i) # k
             /\ links[k] \in 1..Len(R)
             /\ R[links[k]] = Report(c, f, a, j)
      BY <1>3, <3>1
    <3>3. \A i \in (j + 1)..(p + 1) : LldpLink(c, a, i) # k
      <4>1. TAKE i \in (j + 1)..(p + 1)
      <4>2. i = p + 1 \/ i \in (j + 1)..p
        BY <3>2
      <4>3. QED
        BY <1>4, <2>2, <3>2, <4>2
    <3>4. j \in 1..(p + 1) /\ links[k] \in 1..Len(RR) /\ RR[links[k]] = R[links[k]]
      BY <1>2, <3>2
    <3>5. QED
      BY <3>1, <3>2, <3>3, <3>4
  <2>3. QED
    BY <2>1, <2>2
<1>7. Linked(c, f, a, p + 1, ll, RR)
  BY <1>5, <1>6 DEF Linked
<1>8. QED
  BY <1>7 DEF ll, RR, new, K

\* What is in the places the links point to is all that Linked asks of relationships.
LEMMA LinkedElsewhere ==
    ASSUME NEW c, NEW f, NEW g, NEW a, NEW p \in Nat, NEW links, NEW R, NEW RR,
           Linked(c, f, a, p, links, R), Len(R) \in Nat, Len(RR) \in Nat, Len(R) <= Len(RR),
           \A k \in DOMAIN links : \A j \in 1..p :
              LldpLink(c, a, j) = k /\ links[k] \in 1..Len(R) /\ R[links[k]] = Report(c, f, a, j)
                 => RR[links[k]] = Report(c, g, a, j)
    PROVE  Linked(c, g, a, p, links, RR)
<1>1. ASSUME NEW k \in DOMAIN links
      PROVE  \E j \in 1..p :
                /\ LldpLink(c, a, j) = k
                /\ \A i \in (j + 1)..p : LldpLink(c, a, i) # k
                /\ links[k] \in 1..Len(RR)
                /\ RR[links[k]] = Report(c, g, a, j)
  <2>1. PICK j \in 1..p :
           /\ LldpLink(c, a, j) = k
           /\ \A i \in (j + 1)..p : LldpLink(c, a, i) # k
           /\ links[k] \in 1..Len(R)
           /\ R[links[k]] = Report(c, f, a, j)
    BY DEF Linked
  <2>2. links[k] \in 1..Len(RR)
    BY <2>1
  <2>3. QED
    BY <2>1, <2>2
<1>2. QED
  BY <1>1 DEF Linked

\* The lookup of a forwarding entry finds the report it corroborates, or there is none.
LEMMA LinkedFinds ==
    ASSUME NEW c, NEW f, NEW a, NEW links, NEW R, NEW m, LldpCount(c, a) \in Nat,
           Linked(c, f, a, LldpCount(c, a), links, R)
    PROVE  IF FdbLink(c, a, m) \in DOMAIN links
           THEN /\ links[FdbLink(c, a, m)] \in 1..Len(R)
                /\ \E j \in 1..LldpCount(c, a) :
                      /\ Corroborates(c, a, m, j)
                      /\ R[links[FdbLink(c, a, m)]] = Report(c, f, a, j)
           ELSE Unreported(c, a, m)
<1>1. CASE FdbLink(c, a, m) \in DOMAIN links
  <2>1. PICK j \in 1..LldpCount(c, a) :
           /\ LldpLink(c, a, j) = FdbLink(c, a, m)
           /\ \A i \in (j + 1)..LldpCount(c, a) : LldpLink(c, a, i) # FdbLink(c, a, m)
           /\ links[FdbLink(c, a, m)] \in 1..Len(R)
           /\ R[links[FdbLink(c, a, m)]] = Report(c, f, a, j)
    BY <1>1 DEF Linked
  <2>2. Corroborates(c, a, m, j)
    BY <2>1 DEF Corroborates, LastReport
  <2>3. QED
    BY <1>1, <2>1, <2>2
<1>2. CASE FdbLink(c, a, m) \notin DOMAIN links
  BY <1>2 DEF Linked, Unreported
<1>3. QED
  BY <1>1, <1>2

\* The relationship a report is appended as.
LEMMA NewReport ==
    ASSUME NEW c, NEW n, NEW j \in 1..LldpCount(c, n), NEW f, f[n] = 0
    PROVE  LET r == Drift!_neighbours(c.nodes[n])[j]
               target == Drift!_remote_node_key(r.addresses, r.chassis,
                                                Drift!_known_target_by_address(c))
           IN  /\ <<r.chassis, r.interface>> = LldpLink(c, n, j)
               /\ Report(c, f, n, j) =
                     [key |-> <<Node(c, n), "lldp", r.port, target, r.remote>>,
                      type |-> "reported_neighbour", source |-> Node(c, n), target |-> target,
                      interface |-> r.interface, port |-> r.port, remote |-> r.remote,
                      confidence |-> "protocol_reported",
                      evidence |-> {<<"lldp", c.nodes[n].target, r.oid>>}]
<1> DEFINE r == Drift!_neighbours(c.nodes[n])[j]
           given == c.nodes[n].lldp[j]
<1>1. /\ r.oid = given.oid /\ r.port = given.port /\ r.chassis = given.chassis
      /\ r.remote = given.remote /\ r.addresses = given.addresses
  BY DEF Drift!_neighbours, LldpCount
<1>2. Support(c, f, n, j) = {}
  BY DEF Support
<1> HIDE DEF r
<1>3. QED
  BY <1>1, <1>2 DEF Report, RemoteNode, LldpEvidence, LldpLink, r

\* The relationship an unreported forwarding entry is appended as.
LEMMA NewReachability ==
    ASSUME NEW c, NEW n, NEW m \in 1..FdbCount(c, n)
    PROVE  LET e == Drift!_forwarding_entries(c.nodes[n])[m]
           IN  /\ <<e.mac, e.interface>> = FdbLink(c, n, m)
               /\ <<"bridge_fdb", c.nodes[n].target, e.oid>> = FdbEvidence(c, n, m)
               /\ Reachability(c, n, m) =
                     [key |-> <<Node(c, n), "fdb", e.port, <<"mac", e.mac>>, unresolved>>,
                      type |-> "mac_reachability", source |-> Node(c, n),
                      target |-> <<"mac", e.mac>>,
                      interface |-> e.interface, port |-> e.port, remote |-> unresolved,
                      confidence |-> "indirect",
                      evidence |-> {<<"bridge_fdb", c.nodes[n].target, e.oid>>}]
<1> DEFINE e == Drift!_forwarding_entries(c.nodes[n])[m]
           given == c.nodes[n].fdb[m]
<1>1. e.oid = given.oid /\ e.port = given.port /\ e.mac = given.mac
  BY DEF Drift!_forwarding_entries, FdbCount
<1> HIDE DEF e
<1>2. QED
  BY <1>1 DEF Reachability, FdbEvidence, FdbLink, e

\* What a corroborating entry makes of a report.
LEMMA RecordUpdate ==
    ASSUME NEW key, NEW type, NEW from, NEW to, NEW interface, NEW port, NEW remote,
           NEW confidence, NEW known, NEW better, NEW more
    PROVE  LET old == [key |-> key, type |-> type, source |-> from, target |-> to,
                       interface |-> interface, port |-> port, remote |-> remote,
                       confidence |-> confidence, evidence |-> known]
               half == [key |-> key, type |-> type, source |-> from, target |-> to,
                        interface |-> interface, port |-> port, remote |-> remote,
                        confidence |-> better, evidence |-> known]
               new == [key |-> key, type |-> type, source |-> from, target |-> to,
                       interface |-> interface, port |-> port, remote |-> remote,
                       confidence |-> better, evidence |-> more]
           IN  /\ [old EXCEPT !.confidence = better] = half
               /\ [half EXCEPT !.evidence = more] = new
               /\ half.evidence = known
OBVIOUS

\* A corroborated report is the report with one more entry in its support.
LEMMA NewCorroboration ==
    ASSUME NEW c, NEW n, NEW m, NEW f, NEW g, NEW j,
           Support(c, g, n, j) = Support(c, f, n, j) \cup {m}
    PROVE  Corroborated(Report(c, f, n, j), FdbEvidence(c, n, m)) = Report(c, g, n, j)
<1> DEFINE F == Support(c, f, n, j)
           G == Support(c, g, n, j)
           E(S) == {LldpEvidence(c, n, j)} \cup {FdbEvidence(c, n, k) : k \in S}
           Rec(confidence, known) ==
              [key |-> <<Node(c, n), "lldp", c.nodes[n].lldp[j].port, RemoteNode(c, n, j),
                         c.nodes[n].lldp[j].remote>>,
               type |-> "reported_neighbour", source |-> Node(c, n), target |-> RemoteNode(c, n, j),
               interface |-> Drift!_neighbours(c.nodes[n])[j].interface,
               port |-> c.nodes[n].lldp[j].port, remote |-> c.nodes[n].lldp[j].remote,
               confidence |-> confidence, evidence |-> known]
<1>1. G = F \cup {m} /\ G # {}
  OBVIOUS
<1>2. E(G) = E(F) \cup {FdbEvidence(c, n, m)}
  <2> HIDE DEF F, G
  <2>1. QED
    BY <1>1
<1>3. Report(c, g, n, j) = Rec("corroborated", E(G))
  BY <1>1 DEF Report
<1>4. PICK old : Report(c, f, n, j) = Rec(old, E(F))
  BY DEF Report
<1>5. /\ [Rec(old, E(F)) EXCEPT !.confidence = "corroborated"] = Rec("corroborated", E(F))
      /\ Rec("corroborated", E(F)).evidence = E(F)
  <2> HIDE DEF E
  <2>1. QED
    BY RecordUpdate
<1>6. [Rec("corroborated", E(F)) EXCEPT !.evidence = E(G)] = Rec("corroborated", E(G))
  <2> HIDE DEF E
  <2>1. QED
    BY RecordUpdate
<1> HIDE DEF Rec, E, F, G
<1>7. Corroborated(Rec(old, E(F)), FdbEvidence(c, n, m)) = Rec("corroborated", E(G))
  <2>1. Rec(old, E(F)).evidence = E(F)
    BY RecordUpdate DEF Rec
  <2>2. QED
    BY <1>2, <1>5, <1>6, <2>1 DEF Corroborated
<1>8. QED
  BY <1>3, <1>4, <1>7

\* The counts of what has been read, agent by agent.
LEMMA ThroughFacts ==
    ASSUME NEW counts, DOMAIN counts \subseteq Nat, counts \in [DOMAIN counts -> Nat],
           NEW n, n \in DOMAIN counts, NEW x, x \in Nat, x <= counts[n]
    PROVE  /\ Through(counts, n, x) \in [DOMAIN counts -> Nat]
           /\ \A a \in DOMAIN counts : Through(counts, n, x)[a] <= counts[a]
           /\ Through(counts, n, x)[n] = x
<1> DEFINE D == DOMAIN counts
<1>1. Through(counts, n, x) = [a \in D |-> IF a < n THEN counts[a] ELSE IF a = n THEN x ELSE 0]
  BY DEF Through
<1>2. QED
  BY <1>1

\* One more row of agent n.
LEMMA ThroughOneMore ==
    ASSUME NEW counts, DOMAIN counts \subseteq Nat, counts \in [DOMAIN counts -> Nat],
           NEW n, n \in DOMAIN counts, NEW x, x \in Nat, x <= counts[n]
    PROVE  Through(counts, n, x + 1) = OneMore(Through(counts, n, x), n)
<1> DEFINE D == DOMAIN counts
<1>1. Through(counts, n, x) = [a \in D |-> IF a < n THEN counts[a] ELSE IF a = n THEN x ELSE 0]
  BY DEF Through
<1>2. Through(counts, n, x + 1) =
         [a \in D |-> IF a < n THEN counts[a] ELSE IF a = n THEN x + 1 ELSE 0]
  BY DEF Through
<1>3. Through(counts, n, x) \in [D -> Nat] /\ Through(counts, n, x)[n] = x
  BY ThroughFacts
<1>4. OneMore(Through(counts, n, x), n) =
         [a \in D |-> IF a = n THEN x + 1 ELSE Through(counts, n, x)[a]]
  BY <1>3 DEF OneMore
<1>5. \A a \in D : (IF a = n THEN x + 1 ELSE Through(counts, n, x)[a]) =
                      (IF a < n THEN counts[a] ELSE IF a = n THEN x + 1 ELSE 0)
  BY <1>1
<1>6. QED
  BY <1>2, <1>4, <1>5, Zenon

\* All of agent n is none of agent n + 1.
LEMMA ThroughNext ==
    ASSUME NEW counts, NEW n, n \in Nat, DOMAIN counts \subseteq Nat
    PROVE  Through(counts, n, counts[n]) = Through(counts, n + 1, 0)
<1>1. \A a \in DOMAIN counts : Through(counts, n, counts[n])[a] = Through(counts, n + 1, 0)[a]
  BY DEF Through
<1>2. QED
  BY <1>1 DEF Through

\* All of the last agent is everything.
LEMMA ThroughLast ==
    ASSUME NEW N \in Nat, NEW counts \in [1..N -> Nat]
    PROVE  Through(counts, N, counts[N]) = counts
<1>1. \A a \in 1..N : Through(counts, N, counts[N])[a] = counts[a]
  BY DEF Through
<1>2. QED
  BY <1>1 DEF Through

\* The counts of a whole capture.
LEMMA CountsOfCapture ==
    ASSUME NEW c, IsCapture(c)
    PROVE  /\ Len(c.nodes) \in Nat /\ DOMAIN c.nodes = 1..Len(c.nodes)
           /\ LldpCounts(c) \in [DOMAIN c.nodes -> Nat] /\ FdbCounts(c) \in [DOMAIN c.nodes -> Nat]
           /\ \A a \in DOMAIN c.nodes :
                 LldpCounts(c)[a] = LldpCount(c, a) /\ FdbCounts(c)[a] = FdbCount(c, a)
<1>1. Len(c.nodes) \in Nat /\ DOMAIN c.nodes = 1..Len(c.nodes)
  BY DEF IsCapture, IsSequence
<1>2. \A a \in DOMAIN c.nodes : LldpCount(c, a) \in Nat /\ FdbCount(c, a) \in Nat
  BY CaptureCounts
<1>3. QED
  BY <1>1, <1>2 DEF LldpCounts, FdbCounts

\* The counts of what has been read, and after one row more.
LEMMA SeenProgress ==
    ASSUME NEW c, NEW n, NEW p, NEW q, IsCapture(c), n \in DOMAIN c.nodes,
           p \in Nat, p <= LldpCount(c, n), q \in Nat, q <= FdbCount(c, n)
    PROVE  /\ Progress(c, Through(LldpCounts(c), n, p), Through(FdbCounts(c), n, q))
           /\ Through(LldpCounts(c), n, p)[n] = p /\ Through(FdbCounts(c), n, q)[n] = q
           /\ Through(LldpCounts(c), n, p + 1) = OneMore(Through(LldpCounts(c), n, p), n)
           /\ Through(FdbCounts(c), n, q + 1) = OneMore(Through(FdbCounts(c), n, q), n)
<1> DEFINE L == LldpCounts(c)
           F == FdbCounts(c)
           D == DOMAIN c.nodes
<1>1. /\ D \subseteq Nat /\ L \in [D -> Nat] /\ F \in [D -> Nat]
      /\ \A a \in D : L[a] = LldpCount(c, a) /\ F[a] = FdbCount(c, a)
      /\ n \in D /\ DOMAIN L = D /\ DOMAIN F = D
  BY CountsOfCapture
<1>2. LldpCount(c, n) \in Nat /\ FdbCount(c, n) \in Nat
  BY CaptureCounts
<1>3. p \in Nat /\ q \in Nat /\ p <= L[n] /\ q <= F[n]
  BY <1>1, <1>2
<1> HIDE DEF L, F, D
<1>4. /\ Through(L, n, p) \in [D -> Nat] /\ Through(L, n, p)[n] = p
      /\ \A a \in D : Through(L, n, p)[a] <= L[a]
      /\ Through(F, n, q) \in [D -> Nat] /\ Through(F, n, q)[n] = q
      /\ \A a \in D : Through(F, n, q)[a] <= F[a]
  BY <1>1, <1>3, ThroughFacts
<1>5. /\ Through(L, n, p + 1) = OneMore(Through(L, n, p), n)
      /\ Through(F, n, q + 1) = OneMore(Through(F, n, q), n)
  BY <1>1, <1>3, ThroughOneMore
<1>6. Progress(c, Through(L, n, p), Through(F, n, q))
  BY <1>1, <1>4 DEF Progress, D
<1>7. QED
  BY <1>4, <1>5, <1>6 DEF L, F

\* What being in the middle of agent n says of the rows read.
LEMMA SeenFacts ==
    ASSUME NEW c, NEW n, NEW p, NEW q, NEW links, NEW R, IsCapture(c), Seen(c, n, p, q, links, R)
    PROVE  /\ n \in DOMAIN c.nodes /\ LldpCount(c, n) \in Nat /\ FdbCount(c, n) \in Nat
           /\ p \in Nat /\ p <= LldpCount(c, n) /\ q \in Nat /\ q <= FdbCount(c, n)
           /\ Progress(c, Through(LldpCounts(c), n, p), Through(FdbCounts(c), n, q))
           /\ Through(LldpCounts(c), n, p)[n] = p /\ Through(FdbCounts(c), n, q)[n] = q
           /\ Through(LldpCounts(c), n, p + 1) = OneMore(Through(LldpCounts(c), n, p), n)
           /\ Through(FdbCounts(c), n, q + 1) = OneMore(Through(FdbCounts(c), n, q), n)
           /\ Described(c, Through(LldpCounts(c), n, p), Through(FdbCounts(c), n, q), R)
           /\ Linked(c, Through(FdbCounts(c), n, q), n, p, links, R)
           /\ Sequence(R)
<1>1. n \in DOMAIN c.nodes /\ p \in 0..LldpCount(c, n) /\ q \in 0..FdbCount(c, n)
  BY DEF Seen
<1>2. /\ LldpCount(c, n) \in Nat /\ FdbCount(c, n) \in Nat
      /\ p \in Nat /\ p <= LldpCount(c, n) /\ q \in Nat /\ q <= FdbCount(c, n)
  BY <1>1, CaptureCounts
<1>3. /\ Progress(c, Through(LldpCounts(c), n, p), Through(FdbCounts(c), n, q))
      /\ Through(LldpCounts(c), n, p)[n] = p /\ Through(FdbCounts(c), n, q)[n] = q
      /\ Through(LldpCounts(c), n, p + 1) = OneMore(Through(LldpCounts(c), n, p), n)
      /\ Through(FdbCounts(c), n, q + 1) = OneMore(Through(FdbCounts(c), n, q), n)
  BY <1>1, <1>2, SeenProgress
<1>4. /\ Described(c, Through(LldpCounts(c), n, p), Through(FdbCounts(c), n, q), R)
      /\ Linked(c, Through(FdbCounts(c), n, q), n, p, links, R)
  BY DEF Seen
<1>5. Sequence(R)
  BY <1>4 DEF Described
<1>6. QED
  BY <1>1, <1>2, <1>3, <1>4, <1>5

\* One more report.
LEMMA SeenReport ==
    ASSUME NEW c, IsCapture(c), NEW n, NEW p, NEW links, NEW R, Seen(c, n, p, 0, links, R),
           p < LldpCount(c, n), NEW new, new = Report(c, Through(FdbCounts(c), n, 0), n, p + 1)
    PROVE  Seen(c, n, p + 1, 0, Pointing(links, LldpLink(c, n, p + 1), Len(R) + 1), Append(R, new))
<1> DEFINE l == Through(LldpCounts(c), n, p)
           f == Through(FdbCounts(c), n, 0)
           ll == Pointing(links, LldpLink(c, n, p + 1), Len(R) + 1)
<1>1. /\ n \in DOMAIN c.nodes /\ LldpCount(c, n) \in Nat /\ FdbCount(c, n) \in Nat /\ p \in Nat
      /\ Described(c, l, f, R) /\ Linked(c, f, n, p, links, R) /\ Sequence(R)
  BY SeenFacts
<1>2. Progress(c, l, f) /\ l[n] = p /\ f[n] = 0 /\ Through(LldpCounts(c), n, p + 1) = OneMore(l, n)
  BY SeenFacts
<1>3. Through(FdbCounts(c), n, 0) = f
  OBVIOUS
<1>4. new = Report(c, f, n, p + 1)
  BY <1>2
<1> HIDE DEF l, f
<1>6. Described(c, OneMore(l, n), f, Append(R, new))
  <2>1. l[n] < LldpCount(c, n)
    BY <1>2
  <2>2. Described(c, OneMore(l, n), f, Append(R, Report(c, f, n, l[n] + 1)))
    BY <1>1, <1>2, <2>1, ReportIsDescribed
  <2>3. QED
    BY <1>2, <1>4, <2>2
<1>7. Linked(c, f, n, p + 1, ll, Append(R, new))
  BY <1>1, <1>4, LinkedAfterReport
<1>8. p + 1 \in 0..LldpCount(c, n) /\ 0 \in 0..FdbCount(c, n)
  BY <1>1
<1> HIDE DEF ll
<1>9. Seen(c, n, p + 1, 0, ll, Append(R, new))
  BY <1>1, <1>2, <1>3, <1>6, <1>7, <1>8 DEF Seen
<1>10. QED
  BY <1>9 DEF ll

\* One more forwarding entry, without a report.
LEMMA SeenReachability ==
    ASSUME NEW c, IsCapture(c), NEW n, NEW q, NEW links, NEW R,
           Seen(c, n, LldpCount(c, n), q, links, R), q < FdbCount(c, n),
           FdbLink(c, n, q + 1) \notin DOMAIN links
    PROVE  Seen(c, n, LldpCount(c, n), q + 1, links, Append(R, Reachability(c, n, q + 1)))
<1> DEFINE l == Through(LldpCounts(c), n, LldpCount(c, n))
           f == Through(FdbCounts(c), n, q)
           g == OneMore(f, n)
           RR == Append(R, Reachability(c, n, q + 1))
<1>1. /\ n \in DOMAIN c.nodes /\ LldpCount(c, n) \in Nat /\ FdbCount(c, n) \in Nat /\ q \in Nat
      /\ Described(c, l, f, R) /\ Linked(c, f, n, LldpCount(c, n), links, R) /\ Sequence(R)
  BY SeenFacts
<1>2. /\ Progress(c, l, f) /\ l[n] = LldpCount(c, n) /\ f[n] = q
      /\ Through(FdbCounts(c), n, q + 1) = g
  BY SeenFacts
<1>3. Through(LldpCounts(c), n, LldpCount(c, n)) = l
  OBVIOUS
<1>4. Unreported(c, n, q + 1)
  BY <1>1, LinkedFinds
<1> HIDE DEF l, f
<1>6. /\ Described(c, l, g, RR)
      /\ \A b \in DOMAIN c.nodes : \A k \in 1..l[b] : Report(c, g, b, k) = Report(c, f, b, k)
  <2>1. f[n] < FdbCount(c, n) /\ f[n] + 1 = q + 1 /\ Unreported(c, n, f[n] + 1)
    BY <1>2, <1>4
  <2>2. /\ Described(c, l, g, Append(R, Reachability(c, n, f[n] + 1)))
        /\ \A b \in DOMAIN c.nodes : \A k \in 1..l[b] : Report(c, g, b, k) = Report(c, f, b, k)
    BY <1>1, <1>2, <2>1, ReachabilityIsDescribed
  <2>3. QED
    BY <2>1, <2>2
<1>7. /\ Len(R) \in Nat /\ Len(RR) = Len(R) + 1
      /\ \A i \in 1..Len(R) : RR[i] = R[i]
  BY <1>1, SequenceFacts, SequenceAppend
<1> HIDE DEF g, RR
<1>8. Linked(c, g, n, LldpCount(c, n), links, RR)
  <2>1. Len(RR) \in Nat /\ Len(R) <= Len(RR)
    BY <1>7
  <2>2. \A k \in DOMAIN links : \A j \in 1..LldpCount(c, n) :
           LldpLink(c, n, j) = k /\ links[k] \in 1..Len(R) /\ R[links[k]] = Report(c, f, n, j)
              => RR[links[k]] = Report(c, g, n, j)
    BY <1>1, <1>2, <1>6, <1>7
  <2>3. QED
    BY <1>1, <1>7, <2>1, <2>2, LinkedElsewhere
<1>9. q + 1 \in 0..FdbCount(c, n) /\ LldpCount(c, n) \in 0..LldpCount(c, n)
  BY <1>1
<1>10. Seen(c, n, LldpCount(c, n), q + 1, links, RR)
  BY <1>1, <1>2, <1>3, <1>6, <1>8, <1>9 DEF Seen
<1>11. QED
  BY <1>10 DEF RR

\* One more forwarding entry, for the report in the place its link points to.
LEMMA SeenCorroboration ==
    ASSUME NEW c, IsCapture(c), NEW n, NEW q, NEW links, NEW R,
           Seen(c, n, LldpCount(c, n), q, links, R), q < FdbCount(c, n),
           FdbLink(c, n, q + 1) \in DOMAIN links,
           NEW x, x = links[FdbLink(c, n, q + 1)]
    PROVE  /\ x \in 1..Len(R)
           /\ Seen(c, n, LldpCount(c, n), q + 1, links,
                   Replaced(R, x, Corroborated(R[x], FdbEvidence(c, n, q + 1))))
<1> DEFINE l == Through(LldpCounts(c), n, LldpCount(c, n))
           f == Through(FdbCounts(c), n, q)
           g == OneMore(f, n)
           new == Corroborated(R[x], FdbEvidence(c, n, q + 1))
           RR == Replaced(R, x, new)
<1>1. /\ n \in DOMAIN c.nodes /\ LldpCount(c, n) \in Nat /\ FdbCount(c, n) \in Nat /\ q \in Nat
      /\ Described(c, l, f, R) /\ Linked(c, f, n, LldpCount(c, n), links, R) /\ Sequence(R)
  BY SeenFacts
<1>2. /\ Progress(c, l, f) /\ l[n] = LldpCount(c, n) /\ f[n] = q
      /\ Through(FdbCounts(c), n, q + 1) = g
  BY SeenFacts
<1>3. Through(LldpCounts(c), n, LldpCount(c, n)) = l
  OBVIOUS
<1>4. x \in 1..Len(R)
  BY <1>1, LinkedFinds
<1>5. PICK j \in 1..LldpCount(c, n) : Corroborates(c, n, q + 1, j) /\ R[x] = Report(c, f, n, j)
  BY <1>1, LinkedFinds
<1> HIDE DEF l, f
<1>7. new = Report(c, g, n, j)
  <2>1. f[n] + 1 = q + 1
    BY <1>2
  <2>2. Support(c, OneMore(f, n), n, j) =
           IF n = n /\ Corroborates(c, n, f[n] + 1, j) THEN Support(c, f, n, j) \cup {f[n] + 1}
           ELSE Support(c, f, n, j)
    BY <1>1, <1>2, SupportAfterEntry
  <2>3. Support(c, g, n, j) = Support(c, f, n, j) \cup {q + 1}
    BY <1>5, <2>1, <2>2
  <2>4. QED
    BY <1>5, <2>3, NewCorroboration
<1> HIDE DEF new
<1>8. /\ Described(c, l, g, RR)
      /\ \A b \in DOMAIN c.nodes : \A k \in 1..l[b] :
            ~(b = n /\ k = j) => Report(c, g, b, k) = Report(c, f, b, k)
  <2>1. /\ f[n] < FdbCount(c, n) /\ f[n] + 1 = q + 1 /\ j \in 1..l[n]
        /\ Corroborates(c, n, f[n] + 1, j)
    BY <1>2, <1>5
  <2>2. /\ Described(c, l, g, Replaced(R, x, Report(c, g, n, j)))
        /\ \A b \in DOMAIN c.nodes : \A k \in 1..l[b] :
              ~(b = n /\ k = j) => Report(c, g, b, k) = Report(c, f, b, k)
    BY <1>1, <1>2, <1>4, <1>5, <2>1, CorroborationIsDescribed
  <2>3. QED
    BY <1>7, <2>1, <2>2
<1>9. /\ Len(R) \in Nat /\ Len(RR) = Len(R) /\ RR[x] = new
      /\ \A i \in 1..Len(R) : i # x => RR[i] = R[i]
  BY <1>1, <1>4, SequenceFacts, SequenceReplace
<1> HIDE DEF g, RR
<1>10. Linked(c, g, n, LldpCount(c, n), links, RR)
  <2>1. ASSUME NEW k \in DOMAIN links, NEW i \in 1..LldpCount(c, n), LldpLink(c, n, i) = k,
               links[k] \in 1..Len(R), R[links[k]] = Report(c, f, n, i)
        PROVE  RR[links[k]] = Report(c, g, n, i)
    <3>1. CASE i = j
      <4>1. links[k] = x
        BY <1>5, <2>1, <3>1 DEF Corroborates
      <4>2. QED
        BY <1>7, <1>9, <3>1, <4>1
    <3>2. CASE i # j
      <4>1. links[k] # x
        <5>1. LldpEvidence(c, n, i) \in Report(c, f, n, i).evidence
          BY ReportFields
        <5>2. LldpEvidence(c, n, i) \notin Report(c, f, n, j).evidence
          BY <1>1, <3>2, ReportFields, EvidenceIsOneRow
        <5>3. QED
          BY <1>5, <2>1, <5>1, <5>2
      <4>2. QED
        BY <1>1, <1>2, <1>8, <1>9, <2>1, <3>2, <4>1
    <3>3. QED
      BY <3>1, <3>2
  <2>2. Len(RR) \in Nat /\ Len(R) <= Len(RR)
    BY <1>9
  <2>3. QED
    BY <1>1, <1>9, <2>1, <2>2, LinkedElsewhere
<1>11. q + 1 \in 0..FdbCount(c, n) /\ LldpCount(c, n) \in 0..LldpCount(c, n)
  BY <1>1
<1>12. Seen(c, n, LldpCount(c, n), q + 1, links, RR)
  BY <1>1, <1>2, <1>3, <1>8, <1>10, <1>11 DEF Seen
<1>13. QED
  BY <1>4, <1>12 DEF RR, new

\* The empty list.
LEMMA EmptySequence ==
    Sequence(<<>>) /\ Len(<<>>) = 0 /\ 1..Len(<<>>) = {} /\ DOMAIN <<>> = {}
<1>1. <<>> \in Seq({})
  OBVIOUS
<1>2. QED
  BY <1>1 DEF Sequence

\* Nothing read yet.
LEMMA SeenNothing ==
    ASSUME NEW c, IsCapture(c)
    PROVE  IF Len(c.nodes) = 0 THEN Correlated(c, <<>>) ELSE Seen(c, 1, 0, 0, <<>>, <<>>)
<1>1. /\ Len(c.nodes) \in Nat /\ DOMAIN c.nodes = 1..Len(c.nodes)
      /\ \A a \in DOMAIN c.nodes : LldpCount(c, a) \in Nat /\ FdbCount(c, a) \in Nat
  BY CountsOfCapture, CaptureCounts
<1>2. Sequence(<<>>) /\ Len(<<>>) = 0 /\ 1..Len(<<>>) = {} /\ DOMAIN <<>> = {}
  BY EmptySequence
<1>3. CASE Len(c.nodes) = 0
  <2>1. DOMAIN c.nodes = {}
    BY <1>1, <1>3
  <2>2. QED
    BY <1>2, <1>3, <2>1 DEF Correlated, Described
<1>4. CASE Len(c.nodes) # 0
  <2>1. 1 \in DOMAIN c.nodes /\ 0 \in 0..LldpCount(c, 1) /\ 0 \in 0..FdbCount(c, 1)
    BY <1>1, <1>4
  <2>2. \A a \in DOMAIN c.nodes :
           1..Through(LldpCounts(c), 1, 0)[a] = {} /\ 1..Through(FdbCounts(c), 1, 0)[a] = {}
    BY <1>1 DEF Through, LldpCounts, FdbCounts
  <2>3. Described(c, Through(LldpCounts(c), 1, 0), Through(FdbCounts(c), 1, 0), <<>>)
    BY <1>2, <2>2 DEF Described
  <2>4. Linked(c, Through(FdbCounts(c), 1, 0), 1, 0, <<>>, <<>>)
    BY <1>2 DEF Linked
  <2>5. QED
    BY <1>4, <2>1, <2>3, <2>4 DEF Seen
<1>5. QED
  BY <1>3, <1>4

\* An agent wholly read: the next one, or the end.
LEMMA SeenAgent ==
    ASSUME NEW c, IsCapture(c), NEW n, NEW links, NEW R,
           Seen(c, n, LldpCount(c, n), FdbCount(c, n), links, R)
    PROVE  IF n = Len(c.nodes) THEN Correlated(c, R)
           ELSE n + 1 \in DOMAIN c.nodes /\ Seen(c, n + 1, 0, 0, <<>>, R)
<1>1. /\ Len(c.nodes) \in Nat /\ DOMAIN c.nodes = 1..Len(c.nodes)
      /\ LldpCounts(c) \in [1..Len(c.nodes) -> Nat] /\ FdbCounts(c) \in [1..Len(c.nodes) -> Nat]
      /\ \A a \in DOMAIN c.nodes :
            /\ LldpCounts(c)[a] = LldpCount(c, a) /\ FdbCounts(c)[a] = FdbCount(c, a)
            /\ LldpCount(c, a) \in Nat /\ FdbCount(c, a) \in Nat
  BY CountsOfCapture, CaptureCounts
<1>2. /\ n \in DOMAIN c.nodes
      /\ Described(c, Through(LldpCounts(c), n, LldpCount(c, n)),
                   Through(FdbCounts(c), n, FdbCount(c, n)), R)
  BY DEF Seen
<1>3. CASE n = Len(c.nodes)
  <2>1. /\ LldpCounts(c)[n] = LldpCount(c, n) /\ FdbCounts(c)[n] = FdbCount(c, n)
        /\ n = Len(c.nodes)
    BY <1>1, <1>2, <1>3
  <2>2. Through(LldpCounts(c), n, LldpCount(c, n)) = LldpCounts(c)
    BY <1>1, <2>1, ThroughLast
  <2>3. Through(FdbCounts(c), n, FdbCount(c, n)) = FdbCounts(c)
    BY <1>1, <2>1, ThroughLast
  <2>4. QED
    BY <1>2, <1>3, <2>2, <2>3 DEF Correlated
<1>4. CASE n # Len(c.nodes)
  <2>1. n + 1 \in DOMAIN c.nodes
    BY <1>1, <1>2, <1>4
  <2>2. Described(c, Through(LldpCounts(c), n + 1, 0), Through(FdbCounts(c), n + 1, 0), R)
    <3>1. /\ n \in Nat
          /\ DOMAIN LldpCounts(c) \subseteq Nat /\ DOMAIN FdbCounts(c) \subseteq Nat
          /\ LldpCounts(c)[n] = LldpCount(c, n) /\ FdbCounts(c)[n] = FdbCount(c, n)
      BY <1>1, <1>2
    <3>2. Through(LldpCounts(c), n, LldpCount(c, n)) = Through(LldpCounts(c), n + 1, 0)
      BY <3>1, ThroughNext
    <3>3. Through(FdbCounts(c), n, FdbCount(c, n)) = Through(FdbCounts(c), n + 1, 0)
      BY <3>1, ThroughNext
    <3>4. QED
      BY <1>2, <3>2, <3>3
  <2>3. Linked(c, Through(FdbCounts(c), n + 1, 0), n + 1, 0, <<>>, R)
    BY DEF Linked
  <2>4. 0 \in 0..LldpCount(c, n + 1) /\ 0 \in 0..FdbCount(c, n + 1)
    BY <1>1, <2>1
  <2>5. QED
    BY <1>4, <2>1, <2>2, <2>3, <2>4 DEF Seen
<1>5. QED
  BY <1>3, <1>4

\* Drift counts with the same Cardinality.
LEMMA DriftCardinality == \A S : Drift!Cardinality(S) = Cardinality(S)
BY Zenon DEF Drift!Cardinality, Cardinality

\* One row is counted once.
LEMMA OneElement == \A x : Drift!Cardinality({x}) = 1
<1>1. \A x : Cardinality({x}) = 1
  BY FS_Singleton
<1>2. QED
  BY <1>1, DriftCardinality

\* The protocols a finding has evidence from, counted.
LEMMA TwoProtocols ==
    /\ Drift!Cardinality({"lldp", "bridge_fdb"}) = 2
    /\ Drift!Cardinality({"lldp"}) = 1
    /\ Drift!Cardinality({"bridge_fdb"}) = 1
<1>1. Cardinality({"lldp"}) = 1 /\ Cardinality({"bridge_fdb"}) = 1
  BY FS_Singleton
<1>2. IsFiniteSet({"lldp"}) /\ "bridge_fdb" \notin {"lldp"}
  BY FS_Singleton
<1>3. Cardinality({"lldp"} \cup {"bridge_fdb"}) = 1 + 1
  BY <1>1, <1>2, FS_AddElement
<1>4. {"lldp"} \cup {"bridge_fdb"} = {"lldp", "bridge_fdb"}
  OBVIOUS
<1>5. Cardinality({"lldp", "bridge_fdb"}) = 2
  BY <1>3, <1>4
<1>6. /\ Drift!Cardinality({"lldp", "bridge_fdb"}) = Cardinality({"lldp", "bridge_fdb"})
      /\ Drift!Cardinality({"lldp"}) = Cardinality({"lldp"})
      /\ Drift!Cardinality({"bridge_fdb"}) = Cardinality({"bridge_fdb"})
  BY DriftCardinality, Zenon
<1>7. QED
  BY <1>1, <1>5, <1>6

\* All rows of a snapshot, each with its agent.
AllRows(c) ==
    UNION {{<<"lldp", n.target, r.oid>> : r \in Drift!Range(n.lldp)}
             \cup {<<"bridge_fdb", n.target, e.oid>> : e \in Drift!Range(n.fdb)} :
           n \in Drift!Range(c.nodes)}

\* They are the evidence its rows give.
LEMMA RowsOfCapture ==
    ASSUME NEW c, IsCapture(c)
    PROVE  /\ \A e \in AllRows(c) : \E a \in DOMAIN c.nodes :
                 \/ \E j \in 1..LldpCount(c, a) : e = LldpEvidence(c, a, j)
                 \/ \E m \in 1..FdbCount(c, a) : e = FdbEvidence(c, a, m)
           /\ \A a \in DOMAIN c.nodes :
                 /\ \A j \in 1..LldpCount(c, a) : LldpEvidence(c, a, j) \in AllRows(c)
                 /\ \A m \in 1..FdbCount(c, a) : FdbEvidence(c, a, m) \in AllRows(c)
<1>1. ASSUME NEW e \in AllRows(c)
      PROVE  \E a \in DOMAIN c.nodes :
                 \/ \E j \in 1..LldpCount(c, a) : e = LldpEvidence(c, a, j)
                 \/ \E m \in 1..FdbCount(c, a) : e = FdbEvidence(c, a, m)
  BY DEF AllRows, Drift!Range, IsCapture, IsTable, IsSequence, LldpCount, FdbCount,
         LldpEvidence, FdbEvidence
<1>2. ASSUME NEW a \in DOMAIN c.nodes
      PROVE  /\ \A j \in 1..LldpCount(c, a) : LldpEvidence(c, a, j) \in AllRows(c)
             /\ \A m \in 1..FdbCount(c, a) : FdbEvidence(c, a, m) \in AllRows(c)
  <2> DEFINE n == c.nodes[a]
  <2>1. /\ n \in Drift!Range(c.nodes)
        /\ DOMAIN n.lldp = 1..LldpCount(c, a) /\ DOMAIN n.fdb = 1..FdbCount(c, a)
    BY DEF Drift!Range, IsCapture, IsTable, IsSequence, LldpCount, FdbCount
  <2>2. /\ \A j : LldpEvidence(c, a, j) = <<"lldp", n.target, n.lldp[j].oid>>
        /\ \A m : FdbEvidence(c, a, m) = <<"bridge_fdb", n.target, n.fdb[m].oid>>
    BY DEF LldpEvidence, FdbEvidence
  <2> HIDE DEF n
  <2>3. /\ \A r \in Drift!Range(n.lldp) : <<"lldp", n.target, r.oid>> \in AllRows(c)
        /\ \A e \in Drift!Range(n.fdb) : <<"bridge_fdb", n.target, e.oid>> \in AllRows(c)
    BY <2>1 DEF AllRows
  <2>4. /\ \A j \in DOMAIN n.lldp : n.lldp[j] \in Drift!Range(n.lldp)
        /\ \A m \in DOMAIN n.fdb : n.fdb[m] \in Drift!Range(n.fdb)
    BY DEF Drift!Range
  <2>5. QED
    BY <2>1, <2>2, <2>3, <2>4
<1>3. QED
  BY <1>1, <1>2

\* In the relationships of a capture every row is evidence for just one.
LEMMA EvidenceIsOnce ==
    ASSUME NEW c, IsCapture(c), NEW R, Correlated(c, R), NEW e \in AllRows(c)
    PROVE  Drift!Cardinality({i \in DOMAIN R : e \in R[i].evidence}) = 1
<1>1. /\ Described(c, LldpCounts(c), FdbCounts(c), R) /\ DOMAIN R = 1..Len(R)
      /\ \A a \in DOMAIN c.nodes :
            LldpCounts(c)[a] = LldpCount(c, a) /\ FdbCounts(c)[a] = FdbCount(c, a)
  BY SequenceFacts, CountsOfCapture DEF Correlated, Described
<1>2. \E a \in DOMAIN c.nodes :
         \/ \E j \in 1..LldpCount(c, a) : e = LldpEvidence(c, a, j)
         \/ \E m \in 1..FdbCount(c, a) : e = FdbEvidence(c, a, m)
  BY RowsOfCapture
<1>3. PICK a \in DOMAIN c.nodes :
         \/ \E j \in 1..LldpCount(c, a) : e = LldpEvidence(c, a, j)
         \/ \E m \in 1..FdbCount(c, a) : e = FdbEvidence(c, a, m)
  BY <1>2
<1>4. /\ \A j \in 1..LldpCount(c, a) : \E i \in 1..Len(R) : R[i] = Report(c, FdbCounts(c), a, j)
      /\ \A m \in 1..FdbCount(c, a) :
            IF Unreported(c, a, m) THEN \E i \in 1..Len(R) : R[i] = Reachability(c, a, m)
            ELSE \E j \in 1..LldpCount(c, a) : Corroborates(c, a, m, j)
  BY <1>1 DEF Described
<1>5. \E i \in 1..Len(R) : e \in R[i].evidence
  <2>1. ASSUME NEW j \in 1..LldpCount(c, a), e = LldpEvidence(c, a, j)
        PROVE  \E i \in 1..Len(R) : e \in R[i].evidence
    BY <1>4, <2>1, ReportFields
  <2>2. ASSUME NEW m \in 1..FdbCount(c, a), e = FdbEvidence(c, a, m), Unreported(c, a, m)
        PROVE  \E i \in 1..Len(R) : e \in R[i].evidence
    BY <1>4, <2>2, ReachabilityFields
  <2>3. ASSUME NEW m \in 1..FdbCount(c, a), e = FdbEvidence(c, a, m), ~Unreported(c, a, m)
        PROVE  \E i \in 1..Len(R) : e \in R[i].evidence
    <3>1. PICK j \in 1..LldpCount(c, a) : Corroborates(c, a, m, j)
      BY <1>4, <2>3
    <3>2. m \in Support(c, FdbCounts(c), a, j)
      BY <1>1, <3>1 DEF Support
    <3>3. e \in Report(c, FdbCounts(c), a, j).evidence
      BY <2>3, <3>2, ReportFields
    <3>4. QED
      BY <1>4, <3>3
  <2>4. QED
    BY <1>3, <2>1, <2>2, <2>3
<1>6. PICK i \in 1..Len(R) : e \in R[i].evidence
  BY <1>5
<1>7. \A k \in 1..Len(R) : e \in R[k].evidence => k = i
  BY <1>1, <1>6 DEF Described
<1>8. {k \in DOMAIN R : e \in R[k].evidence} = {i}
  BY <1>1, <1>6, <1>7
<1>9. QED
  BY <1>8, OneElement

\* The first clause of the property, about the rows E: evidence of every row, under
\* its own node.
EvidenceOf(E, R) ==
    /\ \A e \in E : Drift!Cardinality({i \in DOMAIN R : e \in R[i].evidence}) = 1
    /\ \A r \in Drift!Range(R) :
          /\ r.evidence \subseteq E
          /\ \A e \in r.evidence : r.source = Drift!TargetKey(e[2])
          /\ (r.confidence = "corroborated") = (Drift!Cardinality({e[1] : e \in r.evidence}) = 2)

LEMMA EvidenceIsKept ==
    ASSUME NEW c, IsCapture(c), NEW R, Correlated(c, R)
    PROVE  EvidenceOf(AllRows(c), R)
<1>1. ASSUME NEW r \in Drift!Range(R)
      PROVE  /\ r.evidence \subseteq AllRows(c)
             /\ \A e \in r.evidence : r.source = Drift!TargetKey(e[2])
             /\ (r.confidence = "corroborated") = (Drift!Cardinality({e[1] : e \in r.evidence}) = 2)
  <2>1. PICK i \in 1..Len(R) : r = R[i]
    BY SequenceFacts DEF Drift!Range, Correlated, Described
  <2>2. PICK a \in DOMAIN c.nodes :
           \/ \E j \in 1..LldpCounts(c)[a] : r = Report(c, FdbCounts(c), a, j)
           \/ \E m \in 1..FdbCounts(c)[a] : r = Reachability(c, a, m)
    BY <2>1 DEF Correlated, Described
  <2>0. /\ LldpCounts(c)[a] = LldpCount(c, a) /\ FdbCounts(c)[a] = FdbCount(c, a)
        /\ \A j \in 1..LldpCount(c, a) : LldpEvidence(c, a, j) \in AllRows(c)
        /\ \A m \in 1..FdbCount(c, a) : FdbEvidence(c, a, m) \in AllRows(c)
    BY RowsOfCapture, CountsOfCapture
  <2> DEFINE P == {e[1] : e \in r.evidence}
  <2>3. SUFFICES /\ r.evidence \subseteq AllRows(c)
                 /\ \A e \in r.evidence : r.source = Drift!TargetKey(e[2])
                 /\ (r.confidence = "corroborated") = (Drift!Cardinality(P) = 2)
    OBVIOUS
  <2>4. CASE \E m \in 1..FdbCount(c, a) : r = Reachability(c, a, m)
    <3>1. PICK m \in 1..FdbCount(c, a) : r = Reachability(c, a, m)
      BY <2>4
    <3>2. /\ r.source = Node(c, a) /\ r.evidence = {FdbEvidence(c, a, m)}
          /\ r.confidence # "corroborated"
      BY <3>1, ReachabilityFields
    <3>3. P = {"bridge_fdb"}
      BY <3>2 DEF FdbEvidence
    <3> HIDE DEF P
    <3>4. Drift!Cardinality(P) # 2
      BY <3>3, TwoProtocols
    <3>5. QED
      BY <2>0, <3>2, <3>4 DEF FdbEvidence, Node
  <2>5. CASE \E j \in 1..LldpCount(c, a) : r = Report(c, FdbCounts(c), a, j)
    <3>1. PICK j \in 1..LldpCount(c, a) : r = Report(c, FdbCounts(c), a, j)
      BY <2>5
    <3> DEFINE S == Support(c, FdbCounts(c), a, j)
    <3>2. /\ r.source = Node(c, a)
          /\ r.confidence = IF S = {} THEN "protocol_reported" ELSE "corroborated"
          /\ r.evidence = {LldpEvidence(c, a, j)} \cup {FdbEvidence(c, a, m) : m \in S}
      BY <3>1, ReportFields
    <3>0. r.evidence \subseteq AllRows(c)
      BY <2>0, <3>2 DEF Support
    <3> HIDE DEF S
    <3>3. \A e \in r.evidence : r.source = Drift!TargetKey(e[2])
      BY <3>2 DEF LldpEvidence, FdbEvidence, Node
    <3>4. LldpEvidence(c, a, j)[1] = "lldp" /\ \A m : FdbEvidence(c, a, m)[1] = "bridge_fdb"
      BY DEF LldpEvidence, FdbEvidence
    <3>5. IF S = {} THEN P = {"lldp"} ELSE P = {"lldp", "bridge_fdb"}
      BY <3>2, <3>4
    <3> HIDE DEF P
    <3>6. CASE S = {}
      <4>1. P = {"lldp"}
        BY <3>5, <3>6
      <4>2. Drift!Cardinality(P) = 1
        BY <4>1, TwoProtocols
      <4>3. QED
        BY <3>0, <3>2, <3>3, <3>6, <4>2
    <3>7. CASE S # {}
      <4>1. P = {"lldp", "bridge_fdb"}
        BY <3>5, <3>7
      <4>2. Drift!Cardinality(P) = 2
        BY <4>1, TwoProtocols
      <4>3. QED
        BY <3>0, <3>2, <3>3, <3>7, <4>2
    <3>8. QED
      BY <3>6, <3>7
  <2>6. QED
    BY <2>0, <2>2, <2>4, <2>5
<1>2. QED
  BY <1>1, EvidenceIsOnce DEF EvidenceOf

\* The comparison finds nothing exactly when every relationship has its like.
Alike(R, Q) ==
    /\ \A i \in 1..Len(R) : \E k \in 1..Len(Q) :
          Q[k].key = R[i].key /\ Drift!Attributes(Q[k]) = Drift!Attributes(R[i])
    /\ \A k \in 1..Len(Q) : \E i \in 1..Len(R) : R[i].key = Q[k].key

\* With unique keys a key names one record.
LEMMA RecordOfKey ==
    ASSUME NEW R, Sequence(R), UniqueKeys(R), NEW i \in 1..Len(R)
    PROVE  (CHOOSE r \in Drift!Range(R) : r.key = R[i].key) = R[i]
<1>1. DOMAIN R = 1..Len(R)
  BY SequenceFacts
<1>2. R[i] \in Drift!Range(R)
  BY <1>1 DEF Drift!Range
<1>3. \A r \in Drift!Range(R) : r.key = R[i].key => r = R[i]
  BY <1>1 DEF Drift!Range, UniqueKeys
<1>4. QED
  BY <1>2, <1>3

\* No finding is the same as each list having the records of the other.
LEMMA NothingFound ==
    ASSUME NEW R, NEW Q, Sequence(R), Sequence(Q), UniqueKeys(R), UniqueKeys(Q)
    PROVE  Drift!detect_discovery_drift(R, Q) = {} <=> Alike(R, Q)
<1> DEFINE keys(T) == {r.key : r \in Drift!Range(T)}
           of(T, k) == Drift!Attributes(CHOOSE r \in Drift!Range(T) : r.key = k)
           common == {k \in keys(R) \cap keys(Q) : of(R, k) # of(Q, k)}
<1>1. Drift!detect_discovery_drift(R, Q) =
         {<<k, "added">> : k \in keys(Q) \ keys(R)} \cup {<<k, "removed">> : k \in keys(R) \ keys(Q)}
           \cup {<<k, "changed">> : k \in common}
  BY DEF Drift!detect_discovery_drift
<1>2. DOMAIN R = 1..Len(R) /\ DOMAIN Q = 1..Len(Q)
  BY SequenceFacts
<1>3. /\ keys(R) = {R[i].key : i \in 1..Len(R)}
      /\ keys(Q) = {Q[i].key : i \in 1..Len(Q)}
  BY <1>2 DEF Drift!Range
<1>4. /\ \A i \in 1..Len(R) : of(R, R[i].key) = Drift!Attributes(R[i])
      /\ \A k \in 1..Len(Q) : of(Q, Q[k].key) = Drift!Attributes(Q[k])
  BY RecordOfKey
<1> HIDE DEF keys, of, common
<1>5. Drift!detect_discovery_drift(R, Q) = {} <=> keys(R) = keys(Q) /\ common = {}
  BY <1>1
<1>6. common = {k \in keys(R) \cap keys(Q) : of(R, k) # of(Q, k)}
  BY DEF common
<1>7. ASSUME keys(R) = keys(Q), common = {} PROVE Alike(R, Q)
  <2>1. ASSUME NEW i \in 1..Len(R)
        PROVE  \E k \in 1..Len(Q) :
                  Q[k].key = R[i].key /\ Drift!Attributes(Q[k]) = Drift!Attributes(R[i])
    <3>1. R[i].key \in keys(R) /\ R[i].key \in keys(Q)
      BY <1>3, <1>7
    <3>2. PICK k \in 1..Len(Q) : Q[k].key = R[i].key
      BY <1>3, <3>1
    <3>3. of(R, R[i].key) = of(Q, R[i].key)
      BY <1>6, <1>7, <3>1
    <3>4. QED
      BY <1>4, <3>2, <3>3
  <2>2. ASSUME NEW k \in 1..Len(Q) PROVE \E i \in 1..Len(R) : R[i].key = Q[k].key
    <3>1. Q[k].key \in keys(R)
      BY <1>3, <1>7
    <3>2. QED
      BY <1>3, <3>1
  <2>3. QED
    BY <2>1, <2>2 DEF Alike
<1>8. ASSUME Alike(R, Q) PROVE keys(R) = keys(Q) /\ common = {}
  <2>1. keys(R) = keys(Q)
    <3>1. ASSUME NEW x \in keys(R) PROVE x \in keys(Q)
      <4>1. PICK i \in 1..Len(R) : x = R[i].key
        BY <1>3
      <4>2. QED
        BY <1>3, <1>8, <4>1 DEF Alike
    <3>2. ASSUME NEW x \in keys(Q) PROVE x \in keys(R)
      <4>1. PICK k \in 1..Len(Q) : x = Q[k].key
        BY <1>3
      <4>2. QED
        BY <1>3, <1>8, <4>1 DEF Alike
    <3>3. QED
      BY <3>1, <3>2
  <2>2. ASSUME NEW x \in keys(R) PROVE of(R, x) = of(Q, x)
    <3>1. PICK i \in 1..Len(R) : x = R[i].key
      BY <1>3
    <3>2. PICK k \in 1..Len(Q) :
             Q[k].key = R[i].key /\ Drift!Attributes(Q[k]) = Drift!Attributes(R[i])
      BY <1>8 DEF Alike
    <3>3. QED
      BY <1>4, <3>1, <3>2
  <2>3. QED
    BY <1>6, <2>1, <2>2
<1>9. QED
  BY <1>5, <1>7, <1>8

\* Lists with the same records have the same links.
LEMMA AlikeLinks ==
    ASSUME NEW R, NEW Q, Sequence(R), Sequence(Q), UniqueKeys(R), UniqueKeys(Q), Alike(R, Q)
    PROVE  Drift!Links(R) = Drift!Links(Q)
<1>1. DOMAIN R = 1..Len(R) /\ DOMAIN Q = 1..Len(Q)
  BY SequenceFacts
<1>2. \A r, q : Drift!Attributes(r) = Drift!Attributes(q) => r.type = q.type
  BY DEF Drift!Attributes
<1>3. \A i \in 1..Len(R) : \E k \in 1..Len(Q) : Q[k].key = R[i].key /\ Q[k].type = R[i].type
  BY <1>2 DEF Alike
<1>4. \A k \in 1..Len(Q) : \E i \in 1..Len(R) : Q[k].key = R[i].key /\ Q[k].type = R[i].type
  <2>1. TAKE k \in 1..Len(Q)
  <2>2. PICK i \in 1..Len(R) : R[i].key = Q[k].key
    BY DEF Alike
  <2>3. PICK j \in 1..Len(Q) : Q[j].key = R[i].key /\ Q[j].type = R[i].type
    BY <1>3
  <2>4. j = k
    BY <2>2, <2>3 DEF UniqueKeys
  <2>5. QED
    BY <2>2, <2>3, <2>4
<1>5. ASSUME NEW T, DOMAIN T = 1..Len(T), NEW x
      PROVE  x \in Drift!Links(T) <=>
                \E i \in 1..Len(T) : T[i].key = x /\ T[i].type = "reported_neighbour"
  BY <1>5 DEF Drift!Links, Drift!Range
<1>6. \A x : x \in Drift!Links(R) <=> x \in Drift!Links(Q)
  <2>1. TAKE x
  <2>2. x \in Drift!Links(R) <=>
           \E i \in 1..Len(R) : R[i].key = x /\ R[i].type = "reported_neighbour"
    BY <1>1, <1>5
  <2>3. x \in Drift!Links(Q) <=>
           \E i \in 1..Len(Q) : Q[i].key = x /\ Q[i].type = "reported_neighbour"
    BY <1>1, <1>5
  <2>4. ASSUME x \in Drift!Links(R) PROVE x \in Drift!Links(Q)
    BY <1>3, <2>2, <2>3, <2>4
  <2>5. ASSUME x \in Drift!Links(Q) PROVE x \in Drift!Links(R)
    BY <1>4, <2>2, <2>3, <2>5
  <2>6. QED
    BY <2>4, <2>5
<1>7. QED
  BY <1>6

\* Two snapshots hold the same rows of the same agents.
SameTables(s, t) ==
    /\ s.targets = t.targets /\ Len(s.nodes) = Len(t.nodes)
    /\ \A a \in DOMAIN s.nodes :
          /\ s.nodes[a].target = t.nodes[a].target
          /\ Drift!Range(s.nodes[a].lldp) = Drift!Range(t.nodes[a].lldp)
          /\ Drift!Range(s.nodes[a].fdb) = Drift!Range(t.nodes[a].fdb)
          /\ s.nodes[a].names = t.nodes[a].names
          /\ s.nodes[a].portIds = t.nodes[a].portIds
          /\ s.nodes[a].basePorts = t.nodes[a].basePorts

\* Two captures of the same agents, each with the same rows, in any order.
LEMMA SameRowsFacts ==
    ASSUME NEW s, NEW t, IsCapture(s), IsCapture(t), SameTables(s, t)
    PROVE  /\ DOMAIN s.nodes = DOMAIN t.nodes
           /\ \A a \in DOMAIN s.nodes :
                 /\ Node(s, a) = Node(t, a)
                 /\ \A j \in 1..LldpCount(s, a) : \E i \in 1..LldpCount(t, a) :
                       t.nodes[a].lldp[i] = s.nodes[a].lldp[j]
                 /\ \A m \in 1..FdbCount(s, a) : \E n \in 1..FdbCount(t, a) :
                       t.nodes[a].fdb[n] = s.nodes[a].fdb[m]
                 /\ \A i \in 1..LldpCount(t, a) : \E j \in 1..LldpCount(s, a) :
                       s.nodes[a].lldp[j] = t.nodes[a].lldp[i]
                 /\ \A n \in 1..FdbCount(t, a) : \E m \in 1..FdbCount(s, a) :
                       s.nodes[a].fdb[m] = t.nodes[a].fdb[n]
                 /\ s.nodes[a].names = t.nodes[a].names
                 /\ s.nodes[a].portIds = t.nodes[a].portIds
                 /\ s.nodes[a].basePorts = t.nodes[a].basePorts
           /\ SameTables(t, s)
<1>1. /\ s.targets = t.targets /\ Len(s.nodes) = Len(t.nodes)
      /\ DOMAIN s.nodes = 1..Len(s.nodes) /\ DOMAIN t.nodes = 1..Len(t.nodes)
  BY DEF SameTables, IsCapture, IsSequence
<1>2. DOMAIN s.nodes = DOMAIN t.nodes
  BY <1>1
<1>3. ASSUME NEW a \in DOMAIN s.nodes
      PROVE  /\ s.nodes[a].target = t.nodes[a].target
             /\ Drift!Range(s.nodes[a].lldp) = Drift!Range(t.nodes[a].lldp)
             /\ Drift!Range(s.nodes[a].fdb) = Drift!Range(t.nodes[a].fdb)
             /\ s.nodes[a].names = t.nodes[a].names
             /\ s.nodes[a].portIds = t.nodes[a].portIds
             /\ s.nodes[a].basePorts = t.nodes[a].basePorts
             /\ DOMAIN s.nodes[a].lldp = 1..LldpCount(s, a)
             /\ DOMAIN t.nodes[a].lldp = 1..LldpCount(t, a)
             /\ DOMAIN s.nodes[a].fdb = 1..FdbCount(s, a)
             /\ DOMAIN t.nodes[a].fdb = 1..FdbCount(t, a)
  BY <1>2 DEF SameTables, IsCapture, IsTable, IsSequence, LldpCount, FdbCount
<1>4. SameTables(t, s)
  BY <1>1, <1>2, <1>3 DEF SameTables
<1>5. ASSUME NEW a \in DOMAIN s.nodes
      PROVE  /\ \A j \in 1..LldpCount(s, a) : \E i \in 1..LldpCount(t, a) :
                   t.nodes[a].lldp[i] = s.nodes[a].lldp[j]
             /\ \A m \in 1..FdbCount(s, a) : \E n \in 1..FdbCount(t, a) :
                   t.nodes[a].fdb[n] = s.nodes[a].fdb[m]
  <2>1. \A j \in 1..LldpCount(s, a) : s.nodes[a].lldp[j] \in Drift!Range(t.nodes[a].lldp)
    BY <1>3 DEF Drift!Range
  <2>2. \A m \in 1..FdbCount(s, a) : s.nodes[a].fdb[m] \in Drift!Range(t.nodes[a].fdb)
    BY <1>3 DEF Drift!Range
  <2>3. QED
    BY <1>3, <2>1, <2>2 DEF Drift!Range
<1>6. ASSUME NEW a \in DOMAIN s.nodes
      PROVE  /\ \A i \in 1..LldpCount(t, a) : \E j \in 1..LldpCount(s, a) :
                   s.nodes[a].lldp[j] = t.nodes[a].lldp[i]
             /\ \A n \in 1..FdbCount(t, a) : \E m \in 1..FdbCount(s, a) :
                   s.nodes[a].fdb[m] = t.nodes[a].fdb[n]
  <2>1. \A i \in 1..LldpCount(t, a) : t.nodes[a].lldp[i] \in Drift!Range(s.nodes[a].lldp)
    BY <1>3 DEF Drift!Range
  <2>2. \A n \in 1..FdbCount(t, a) : t.nodes[a].fdb[n] \in Drift!Range(s.nodes[a].fdb)
    BY <1>3 DEF Drift!Range
  <2>3. QED
    BY <1>3, <2>1, <2>2 DEF Drift!Range
<1>7. QED
  BY <1>2, <1>3, <1>4, <1>5, <1>6 DEF Node

\* Capture t has every row that s has of agent a.
RowsIn(s, t, a) ==
    /\ \A j \in 1..LldpCount(s, a) : \E i \in 1..LldpCount(t, a) :
          t.nodes[a].lldp[i] = s.nodes[a].lldp[j]
    /\ \A m \in 1..FdbCount(s, a) : \E n \in 1..FdbCount(t, a) :
          t.nodes[a].fdb[n] = s.nodes[a].fdb[m]

LEMMA SameRowsElsewhere ==
    ASSUME NEW s, NEW t, IsCapture(s), IsCapture(t), SameTables(s, t), NEW a \in DOMAIN s.nodes
    PROVE  RowsIn(s, t, a) /\ RowsIn(t, s, a)
BY SameRowsFacts DEF RowsIn

\* The same row, in either capture, links and stands for the same.
LEMMA SameReport ==
    ASSUME NEW s, NEW t, IsCapture(s), IsCapture(t), SameTables(s, t),
           NEW a \in DOMAIN s.nodes,
           NEW j \in 1..LldpCount(s, a), NEW i \in 1..LldpCount(t, a),
           t.nodes[a].lldp[i] = s.nodes[a].lldp[j]
    PROVE  /\ LldpLink(t, a, i) = LldpLink(s, a, j)
           /\ RemoteNode(t, a, i) = RemoteNode(s, a, j)
           /\ Drift!_neighbours(t.nodes[a])[i].interface = Drift!_neighbours(s.nodes[a])[j].interface
<1>1. s.nodes[a].names = t.nodes[a].names /\ s.nodes[a].portIds = t.nodes[a].portIds
  BY SameRowsFacts
<1>2. s.targets = t.targets
  BY DEF SameTables
<1>3. /\ Drift!_neighbours(s.nodes[a])[j].interface =
            Drift!Get(s.nodes[a].names, Drift!Get(s.nodes[a].portIds, s.nodes[a].lldp[j].port))
      /\ Drift!_neighbours(t.nodes[a])[i].interface =
            Drift!Get(t.nodes[a].names, Drift!Get(t.nodes[a].portIds, t.nodes[a].lldp[i].port))
  BY DEF Drift!_neighbours, LldpCount
<1>4. Drift!_known_target_by_address(s) = Drift!_known_target_by_address(t)
  BY <1>2 DEF Drift!_known_target_by_address
<1>5. QED
  BY <1>1, <1>3, <1>4 DEF LldpLink, RemoteNode

\* The same for a forwarding entry.
LEMMA SameEntry ==
    ASSUME NEW s, NEW t, IsCapture(s), IsCapture(t), SameTables(s, t),
           NEW a \in DOMAIN s.nodes,
           NEW m \in 1..FdbCount(s, a), NEW n \in 1..FdbCount(t, a),
           t.nodes[a].fdb[n] = s.nodes[a].fdb[m]
    PROVE  /\ FdbLink(t, a, n) = FdbLink(s, a, m)
           /\ Drift!_forwarding_entries(t.nodes[a])[n].interface =
                 Drift!_forwarding_entries(s.nodes[a])[m].interface
<1>1. s.nodes[a].basePorts = t.nodes[a].basePorts
  BY SameRowsFacts
<1>2. /\ Drift!_forwarding_entries(s.nodes[a])[m].interface =
            Drift!Get(s.nodes[a].basePorts, s.nodes[a].fdb[m].port)
      /\ Drift!_forwarding_entries(t.nodes[a])[n].interface =
            Drift!Get(t.nodes[a].basePorts, t.nodes[a].fdb[n].port)
  BY DEF Drift!_forwarding_entries, FdbCount
<1>3. QED
  BY <1>1, <1>2 DEF FdbLink

\* No agent reports one link twice.
SingleReports(s) ==
    \A a \in DOMAIN s.nodes : \A i, j \in 1..LldpCount(s, a) :
        LldpLink(s, a, i) = LldpLink(s, a, j) => i = j

\* Being the only report of a link does not depend on the order of the rows.
LEMMA SingleInAnyOrder ==
    ASSUME NEW s, NEW t, IsCapture(s), IsCapture(t), SameTables(s, t), SingleReports(s)
    PROVE  SingleReports(t)
<1>1. DOMAIN s.nodes = DOMAIN t.nodes /\ SameTables(t, s)
  BY SameRowsFacts
<1>2. SUFFICES ASSUME NEW a \in DOMAIN t.nodes,
                      NEW i \in 1..LldpCount(t, a), NEW j \in 1..LldpCount(t, a),
                      LldpLink(t, a, i) = LldpLink(t, a, j)
               PROVE  i = j
  BY DEF SingleReports
<1>3. RowsIn(t, s, a)
  BY <1>1, SameRowsElsewhere
<1>4. PICK x \in 1..LldpCount(s, a) : s.nodes[a].lldp[x] = t.nodes[a].lldp[i]
  BY <1>3 DEF RowsIn
<1>5. PICK y \in 1..LldpCount(s, a) : s.nodes[a].lldp[y] = t.nodes[a].lldp[j]
  BY <1>3 DEF RowsIn
<1>6. LldpLink(s, a, x) = LldpLink(t, a, i) /\ LldpLink(s, a, y) = LldpLink(t, a, j)
  BY <1>1, <1>4, <1>5, SameReport
<1>7. x = y
  BY <1>1, <1>2, <1>6 DEF SingleReports
<1>8. t.nodes[a].lldp[i].oid = t.nodes[a].lldp[j].oid
  BY <1>4, <1>5, <1>7
<1>9. QED
  BY <1>8 DEF IsCapture, IsTable, IsSequence, LldpCount

\* Such a report is supported by every entry of its link.
LEMMA SingleSupport ==
    ASSUME NEW s, IsCapture(s), SingleReports(s), NEW a \in DOMAIN s.nodes,
           NEW j \in 1..LldpCount(s, a)
    PROVE  /\ LastReport(s, a, j)
           /\ Support(s, FdbCounts(s), a, j) =
                 {m \in 1..FdbCount(s, a) : FdbLink(s, a, m) = LldpLink(s, a, j)}
<1>1. LldpCount(s, a) \in Nat
  BY CaptureCounts
<1>2. \A i \in (j + 1)..LldpCount(s, a) : i \in 1..LldpCount(s, a) /\ i # j
  BY <1>1
<1>3. LastReport(s, a, j)
  BY <1>2 DEF LastReport, SingleReports
<1>4. QED
  BY <1>3, CountsOfCapture DEF Support, Corroborates

\* A relationship of one capture has its like in the other.
LEMMA SameRowsMatch ==
    ASSUME NEW s, NEW t, IsCapture(s), IsCapture(t), SameTables(s, t), SingleReports(s),
           NEW R, NEW Q, Correlated(s, R), Correlated(t, Q), NEW x \in 1..Len(R)
    PROVE  \E y \in 1..Len(Q) :
              Q[y].key = R[x].key /\ Drift!Attributes(Q[y]) = Drift!Attributes(R[x])
<1>1. /\ DOMAIN s.nodes = DOMAIN t.nodes /\ SingleReports(t) /\ SameTables(t, s)
      /\ \A a \in DOMAIN s.nodes :
            /\ LldpCounts(s)[a] = LldpCount(s, a) /\ FdbCounts(s)[a] = FdbCount(s, a)
            /\ LldpCounts(t)[a] = LldpCount(t, a) /\ FdbCounts(t)[a] = FdbCount(t, a)
            /\ Node(s, a) = Node(t, a)
  BY SameRowsFacts, SingleInAnyOrder, CountsOfCapture
<1>2. \A a \in DOMAIN s.nodes : RowsIn(s, t, a) /\ RowsIn(t, s, a)
  BY SameRowsElsewhere
<1>3. PICK a \in DOMAIN s.nodes :
         \/ \E j \in 1..LldpCount(s, a) : R[x] = Report(s, FdbCounts(s), a, j)
         \/ \E m \in 1..FdbCount(s, a) : Unreported(s, a, m) /\ R[x] = Reachability(s, a, m)
  BY <1>1 DEF Correlated, Described
<1>4. CASE \E j \in 1..LldpCount(s, a) : R[x] = Report(s, FdbCounts(s), a, j)
  <2>1. PICK j \in 1..LldpCount(s, a) : R[x] = Report(s, FdbCounts(s), a, j)
    BY <1>4
  <2>2. PICK i \in 1..LldpCount(t, a) : t.nodes[a].lldp[i] = s.nodes[a].lldp[j]
    BY <1>2 DEF RowsIn
  <2>3. /\ LldpLink(t, a, i) = LldpLink(s, a, j)
        /\ RemoteNode(t, a, i) = RemoteNode(s, a, j)
        /\ Drift!_neighbours(t.nodes[a])[i].interface = Drift!_neighbours(s.nodes[a])[j].interface
    BY <2>2, SameReport
  <2>4. PICK y \in 1..Len(Q) : Q[y] = Report(t, FdbCounts(t), a, i)
    BY <1>1 DEF Correlated, Described
  <2>5. Support(s, FdbCounts(s), a, j) = {} <=> Support(t, FdbCounts(t), a, i) = {}
    <3>1. /\ Support(s, FdbCounts(s), a, j) =
                {m \in 1..FdbCount(s, a) : FdbLink(s, a, m) = LldpLink(s, a, j)}
          /\ Support(t, FdbCounts(t), a, i) =
                {m \in 1..FdbCount(t, a) : FdbLink(t, a, m) = LldpLink(s, a, j)}
      BY <1>1, <2>3, SingleSupport
    <3>2. ASSUME NEW m \in 1..FdbCount(s, a), FdbLink(s, a, m) = LldpLink(s, a, j)
          PROVE  \E n \in 1..FdbCount(t, a) : FdbLink(t, a, n) = LldpLink(s, a, j)
      <4>1. PICK n \in 1..FdbCount(t, a) : t.nodes[a].fdb[n] = s.nodes[a].fdb[m]
        BY <1>2 DEF RowsIn
      <4>2. QED
        BY <3>2, <4>1, SameEntry
    <3>3. ASSUME NEW n \in 1..FdbCount(t, a), FdbLink(t, a, n) = LldpLink(s, a, j)
          PROVE  \E m \in 1..FdbCount(s, a) : FdbLink(s, a, m) = LldpLink(s, a, j)
      <4>1. PICK m \in 1..FdbCount(s, a) : s.nodes[a].fdb[m] = t.nodes[a].fdb[n]
        BY <1>2 DEF RowsIn
      <4>2. QED
        BY <1>1, <3>3, <4>1, SameEntry
    <3>4. QED
      BY <3>1, <3>2, <3>3
  <2>6. Q[y].key = R[x].key /\ Drift!Attributes(Q[y]) = Drift!Attributes(R[x])
    BY <1>1, <2>1, <2>2, <2>3, <2>4, <2>5 DEF Report, Drift!Attributes
  <2>7. QED
    BY <2>6
<1>5. CASE \E m \in 1..FdbCount(s, a) : Unreported(s, a, m) /\ R[x] = Reachability(s, a, m)
  <2>1. PICK m \in 1..FdbCount(s, a) : Unreported(s, a, m) /\ R[x] = Reachability(s, a, m)
    BY <1>5
  <2>2. PICK n \in 1..FdbCount(t, a) : t.nodes[a].fdb[n] = s.nodes[a].fdb[m]
    BY <1>2 DEF RowsIn
  <2>3. /\ FdbLink(t, a, n) = FdbLink(s, a, m)
        /\ Drift!_forwarding_entries(t.nodes[a])[n].interface =
              Drift!_forwarding_entries(s.nodes[a])[m].interface
    BY <2>2, SameEntry
  <2>4. Unreported(t, a, n)
    <3>1. ASSUME NEW i \in 1..LldpCount(t, a), LldpLink(t, a, i) = FdbLink(t, a, n) PROVE FALSE
      <4>1. PICK j \in 1..LldpCount(s, a) : s.nodes[a].lldp[j] = t.nodes[a].lldp[i]
        BY <1>2 DEF RowsIn
      <4>2. LldpLink(s, a, j) = LldpLink(t, a, i)
        BY <1>1, <4>1, SameReport
      <4>3. QED
        BY <2>1, <2>3, <3>1, <4>2 DEF Unreported
    <3>2. QED
      BY <3>1 DEF Unreported
  <2>5. PICK y \in 1..Len(Q) : Q[y] = Reachability(t, a, n)
    BY <1>1, <2>4 DEF Correlated, Described
  <2>6. Q[y].key = R[x].key /\ Drift!Attributes(Q[y]) = Drift!Attributes(R[x])
    BY <1>1, <2>1, <2>2, <2>3, <2>5 DEF Reachability, Drift!Attributes
  <2>7. QED
    BY <2>6
<1>6. QED
  BY <1>3, <1>4, <1>5

\* So lists built from the same rows have the same records.
LEMMA SameRowsAlike ==
    ASSUME NEW s, NEW t, IsCapture(s), IsCapture(t), SameTables(s, t),
           SingleReports(s), NEW R, NEW Q, Correlated(s, R), Correlated(t, Q)
    PROVE  Alike(R, Q)
<1>1. SingleReports(s) /\ SingleReports(t) /\ SameTables(t, s)
  BY SingleInAnyOrder, SameRowsFacts
<1>2. \A x \in 1..Len(R) : \E y \in 1..Len(Q) :
         Q[y].key = R[x].key /\ Drift!Attributes(Q[y]) = Drift!Attributes(R[x])
  BY <1>1, SameRowsMatch
<1>3. \A y \in 1..Len(Q) : \E x \in 1..Len(R) : R[x].key = Q[y].key
  BY <1>1, SameRowsMatch
<1>4. QED
  BY <1>2, <1>3 DEF Alike

(***************************************************************************)
(* Lowering: from the recorded rows to the snapshot.                       *)
(***************************************************************************)

\* R is what is kept of the first n rows of table q, whose whole rows have places W.
Keeps(R, q, n, W) ==
    /\ Sequence(R)
    /\ \A k \in 1..Len(R) : \E i \in 1..n : i \in W /\ R[k] = q[i]
    /\ \A i \in 1..n : i \in W => \E k \in 1..Len(R) : R[k] = q[i]
    /\ \A k, m \in 1..Len(R) : R[k].oid = R[m].oid => k = m

Whole(r) == {i \in DOMAIN r.lldp : Drift!IsWhole(r.lldp[i])}
Ported(r) == {i \in DOMAIN r.fdb : Drift!HasPort(r.fdb[i])}

\* Observation o keeps the whole rows of the recorded agent r.
LoweredNode(o, r) ==
    /\ o.target = r.target /\ o.names = r.names /\ o.portIds = r.portIds
    /\ o.basePorts = r.basePorts
    /\ Keeps(o.lldp, r.lldp, Len(r.lldp), Whole(r))
    /\ Keeps(o.fdb, r.fdb, Len(r.fdb), Ported(r))

\* The observations O are those of the first agents of capture c; l those of them all.
LoweredTo(c, O) ==
    /\ Sequence(O)
    /\ \A a \in 1..Len(O) : a \in DOMAIN c.nodes /\ LoweredNode(O[a], c.nodes[a])
Lowered(c, l) ==
    l.targets = c.targets /\ LoweredTo(c, l.nodes) /\ Len(l.nodes) = Len(c.nodes)

\* Nothing is kept of no rows.
LEMMA KeepsNothing ==
    ASSUME NEW q, NEW W
    PROVE  Keeps(<<>>, q, 0, W)
BY EmptySequence DEF Keeps

\* One more row: kept where it is whole.
LEMMA KeepsOneMore ==
    ASSUME NEW R, NEW q, NEW W, NEW n \in Nat, Keeps(R, q, n, W), IsTable(q), n + 1 <= Len(q)
    PROVE  IF n + 1 \in W THEN Keeps(Append(R, q[n + 1]), q, n + 1, W) ELSE Keeps(R, q, n + 1, W)
<1> DEFINE p == n + 1
           I == 1..n
           J == 1..p
           D == 1..Len(R)
<1>1. /\ \A i \in J : i \in I \/ i = p
      /\ \A i \in I : i \in J
      /\ p \in J
  OBVIOUS
<1>2. /\ Sequence(R) /\ Len(R) \in Nat
      /\ \A k \in D : \E i \in I : i \in W /\ R[k] = q[i]
      /\ \A i \in I : i \in W => \E k \in D : R[k] = q[i]
      /\ \A k, m \in D : R[k].oid = R[m].oid => k = m
  BY SequenceFacts DEF Keeps
<1>3. \A i \in I : q[i].oid # q[p].oid
  BY DEF IsTable, IsSequence
<1>4. ASSUME NEW k \in D
      PROVE  \E i \in J : i \in W /\ R[k] = q[i]
  <2>1. PICK i \in I : i \in W /\ R[k] = q[i]
    BY <1>2
  <2>2. QED
    BY <1>1, <2>1
<1>5. CASE p \notin W
  <2> HIDE DEF I, J, D
  <2>1. \A i \in J : i \in W => \E k \in D : R[k] = q[i]
    BY <1>1, <1>2, <1>5
  <2>2. Keeps(R, q, p, W)
    BY <1>2, <1>4, <2>1 DEF Keeps, J, D
  <2>3. QED
    BY <1>5, <2>2
<1>6. CASE p \in W
  <2> DEFINE A == Append(R, q[p])
             N == Len(R) + 1
             B == 1..N
  <2>1. /\ Sequence(A) /\ Len(A) = N /\ A[N] = q[p]
        /\ \A k \in D : A[k] = R[k]
    BY <1>2, SequenceAppend
  <2>2. /\ \A k \in B : k \in D \/ k = N
        /\ \A k \in D : k \in B
        /\ N \in B
    BY <1>2
  <2> HIDE DEF A, N, B, D, I, J, p
  <2>3. ASSUME NEW k \in B
        PROVE  \E i \in J : i \in W /\ A[k] = q[i]
    <3>1. CASE k = N
      BY <1>1, <1>6, <2>1, <3>1
    <3>2. CASE k \in D
      <4>1. PICK i \in J : i \in W /\ R[k] = q[i]
        BY <1>4, <3>2
      <4>2. QED
        BY <2>1, <3>2, <4>1
    <3>3. QED
      BY <2>2, <3>1, <3>2
  <2>4. ASSUME NEW i \in J, i \in W
        PROVE  \E k \in B : A[k] = q[i]
    <3>1. CASE i = p
      BY <2>1, <2>2, <3>1
    <3>2. CASE i \in I
      <4>1. PICK k \in D : R[k] = q[i]
        BY <1>2, <2>4, <3>2
      <4>2. QED
        BY <2>1, <2>2, <4>1
    <3>3. QED
      BY <1>1, <3>1, <3>2
  <2>5. ASSUME NEW k \in D
        PROVE  A[k].oid # A[N].oid
    <3>1. PICK i \in I : R[k] = q[i]
      BY <1>2
    <3>2. QED
      BY <1>3, <2>1, <3>1
  <2>6. ASSUME NEW k \in B, NEW m \in B, A[k].oid = A[m].oid
        PROVE  k = m
    <3>1. CASE k \in D /\ m \in D
      BY <1>2, <2>1, <2>6, <3>1
    <3>2. CASE k = N \/ m = N
      BY <2>2, <2>5, <2>6, <3>2
    <3>3. QED
      BY <2>2, <3>1, <3>2
  <2>7. Keeps(A, q, p, W)
    BY <2>1, <2>3, <2>4, <2>6 DEF Keeps, J, B
  <2>8. QED
    BY <1>6, <2>7 DEF A, p
<1>7. QED
  BY <1>5, <1>6

\* A table whose rows before row r are read, with R kept of them.
TableRead(R, q, r, W) ==
    r \in Nat /\ r # 0 /\ r <= Len(q) + 1 /\ Keeps(R, q, r - 1, W)

\* Before the first row.
LEMMA TableUnread ==
    ASSUME NEW q, NEW W, IsTable(q)
    PROVE  TableRead(<<>>, q, 1, W)
<1>1. Len(q) \in Nat /\ 1 - 1 = 0
  BY DEF IsTable, IsSequence
<1>2. Keeps(<<>>, q, 1 - 1, W)
  BY <1>1, KeepsNothing
<1>3. 1 <= Len(q) + 1
  BY <1>1
<1>4. QED
  BY <1>2, <1>3 DEF TableRead

\* The row, kept where it is whole, is read.
LEMMA TableRow ==
    ASSUME NEW R, NEW q, NEW r, NEW W, IsTable(q), TableRead(R, q, r, W), r <= Len(q)
    PROVE  /\ r \in DOMAIN q
           /\ r \in W => TableRead(Append(R, q[r]), q, r + 1, W)
           /\ r \notin W => TableRead(R, q, r + 1, W)
<1> DEFINE L == Len(q)
           m == r - 1
<1>1. r \in Nat /\ r # 0 /\ r <= L /\ L \in Nat /\ DOMAIN q = 1..L
  BY DEF TableRead, IsTable, IsSequence
<1>2. Keeps(R, q, m, W)
  BY DEF TableRead
<1> HIDE DEF L
<1>3. /\ m \in Nat /\ m + 1 = r /\ m + 1 <= L /\ (r + 1) - 1 = r /\ r \in DOMAIN q
      /\ r + 1 \in Nat /\ r + 1 # 0 /\ r + 1 <= L + 1
  BY <1>1
<1> HIDE DEF m
<1>4. m + 1 <= Len(q)
  BY <1>3 DEF L
<1>5. IF m + 1 \in W THEN Keeps(Append(R, q[m + 1]), q, m + 1, W) ELSE Keeps(R, q, m + 1, W)
  BY <1>2, <1>3, <1>4, KeepsOneMore
<1>6. IF r \in W THEN Keeps(Append(R, q[r]), q, (r + 1) - 1, W) ELSE Keeps(R, q, (r + 1) - 1, W)
  BY <1>3, <1>5
<1>7. r + 1 <= Len(q) + 1
  BY <1>3 DEF L
<1>8. QED
  BY <1>3, <1>6, <1>7 DEF TableRead

\* After the last row.
LEMMA TableDone ==
    ASSUME NEW R, NEW q, NEW r, NEW W, IsTable(q), TableRead(R, q, r, W), r > Len(q)
    PROVE  Keeps(R, q, Len(q), W)
<1> DEFINE L == Len(q)
<1>1. r \in Nat /\ r > L /\ r <= L + 1 /\ L \in Nat /\ Keeps(R, q, r - 1, W)
  BY DEF TableRead, IsTable, IsSequence
<1> HIDE DEF L
<1>2. r - 1 = L
  BY <1>1
<1>3. QED
  BY <1>1, <1>2 DEF L

\* One more agent.
LEMMA LoweredOneMore ==
    ASSUME NEW c, NEW O, NEW o, LoweredTo(c, O), Len(O) + 1 \in DOMAIN c.nodes,
           LoweredNode(o, c.nodes[Len(O) + 1])
    PROVE  LoweredTo(c, Append(O, o)) /\ Len(Append(O, o)) = Len(O) + 1
<1> DEFINE A == Append(O, o)
           N == Len(O) + 1
<1>1. /\ Sequence(A) /\ Len(A) = N /\ A[N] = o
      /\ \A k \in 1..Len(O) : A[k] = O[k]
  BY SequenceAppend DEF LoweredTo
<1>2. \A a \in 1..N : a \in 1..Len(O) \/ a = N
  BY SequenceFacts DEF LoweredTo
<1>3. N \in DOMAIN c.nodes /\ LoweredNode(o, c.nodes[N])
  OBVIOUS
<1> HIDE DEF A, N
<1>4. \A a \in 1..N : a \in DOMAIN c.nodes /\ LoweredNode(A[a], c.nodes[a])
  BY <1>1, <1>2, <1>3 DEF LoweredTo
<1>5. LoweredTo(c, A) /\ Len(A) = N
  BY <1>1, <1>4 DEF LoweredTo
<1>6. QED
  BY <1>5 DEF A, N

\* What a kept table is: a table, of the whole rows.
LEMMA KeptTable ==
    ASSUME NEW R, NEW q, NEW W, IsTable(q), W \subseteq DOMAIN q, Keeps(R, q, Len(q), W)
    PROVE  /\ IsTable(R)
           /\ Drift!Range(R) = {q[i] : i \in W}
<1>1. Len(R) \in Nat /\ DOMAIN R = 1..Len(R) /\ DOMAIN q = 1..Len(q)
  BY SequenceFacts DEF Keeps, IsTable, IsSequence
<1>2. IsTable(R)
  BY <1>1 DEF Keeps, IsTable, IsSequence
<1>3. ASSUME NEW k \in DOMAIN R PROVE R[k] \in {q[i] : i \in W}
  <2>1. PICK i \in 1..Len(q) : i \in W /\ R[k] = q[i]
    BY <1>1 DEF Keeps
  <2>2. QED
    BY <2>1
<1>4. ASSUME NEW i \in W PROVE \E k \in DOMAIN R : R[k] = q[i]
  <2>1. i \in 1..Len(q)
    BY <1>1
  <2>2. QED
    BY <1>1, <2>1 DEF Keeps
<1>5. Drift!Range(R) = {q[i] : i \in W}
  BY <1>3, <1>4 DEF Drift!Range
<1>6. QED
  BY <1>2, <1>5

\* The snapshot of a capture, agent by agent: the tables of the whole rows.
LEMMA LoweredAgent ==
    ASSUME NEW c, IsCapture(c), NEW l, Lowered(c, l)
    PROVE  /\ IsSequence(l.nodes) /\ DOMAIN l.nodes = DOMAIN c.nodes
           /\ \A a \in DOMAIN c.nodes :
                 /\ LoweredNode(l.nodes[a], c.nodes[a])
                 /\ IsTable(l.nodes[a].lldp) /\ IsTable(l.nodes[a].fdb)
                 /\ Drift!Range(l.nodes[a].lldp) = Drift!Neighbours(c.nodes[a])
                 /\ Drift!Range(l.nodes[a].fdb) = Drift!Entries(c.nodes[a])
<1>1. /\ Sequence(l.nodes) /\ Len(l.nodes) = Len(c.nodes)
      /\ \A a \in 1..Len(l.nodes) : LoweredNode(l.nodes[a], c.nodes[a])
  BY DEF Lowered, LoweredTo
<1>2. Len(l.nodes) \in Nat /\ DOMAIN l.nodes = 1..Len(l.nodes) /\ DOMAIN c.nodes = 1..Len(c.nodes)
  BY <1>1, SequenceFacts DEF IsCapture, IsSequence
<1>3. ASSUME NEW a \in DOMAIN c.nodes
      PROVE  /\ LoweredNode(l.nodes[a], c.nodes[a])
             /\ IsTable(l.nodes[a].lldp) /\ IsTable(l.nodes[a].fdb)
             /\ Drift!Range(l.nodes[a].lldp) = Drift!Neighbours(c.nodes[a])
             /\ Drift!Range(l.nodes[a].fdb) = Drift!Entries(c.nodes[a])
  <2> DEFINE o == l.nodes[a]
             n == c.nodes[a]
  <2>1. LoweredNode(o, n)
    BY <1>1, <1>2
  <2>2. IsTable(n.lldp) /\ IsTable(n.fdb)
    BY DEF IsCapture
  <2> HIDE DEF o, n
  <2>3. Whole(n) \subseteq DOMAIN n.lldp /\ Ported(n) \subseteq DOMAIN n.fdb
    BY DEF Whole, Ported
  <2>4. /\ IsTable(o.lldp) /\ Drift!Range(o.lldp) = {n.lldp[i] : i \in Whole(n)}
        /\ IsTable(o.fdb) /\ Drift!Range(o.fdb) = {n.fdb[i] : i \in Ported(n)}
    BY <2>1, <2>2, <2>3, KeptTable DEF LoweredNode
  <2>5. /\ {n.lldp[i] : i \in Whole(n)} = Drift!Neighbours(n)
        /\ {n.fdb[i] : i \in Ported(n)} = Drift!Entries(n)
    BY DEF Whole, Ported, Drift!Neighbours, Drift!Entries, Drift!Range
  <2>6. QED
    BY <2>1, <2>4, <2>5 DEF o, n
<1>4. QED
  BY <1>1, <1>2, <1>3 DEF IsSequence

\* The snapshot of a capture is one again.
LEMMA LoweredIsCapture ==
    ASSUME NEW c, IsCapture(c), NEW l, Lowered(c, l)
    PROVE  IsCapture(l)
<1>1. \A a \in DOMAIN c.nodes : l.nodes[a].target = c.nodes[a].target
  BY LoweredAgent DEF LoweredNode
<1>2. QED
  BY <1>1, LoweredAgent DEF IsCapture

\* All rows of the snapshot are the whole rows of the capture.
LEMMA LoweredRows ==
    ASSUME NEW c, IsCapture(c), NEW l, Lowered(c, l)
    PROVE  AllRows(l) = Drift!Rows(c)
<1>1. /\ DOMAIN l.nodes = DOMAIN c.nodes
      /\ \A a \in DOMAIN c.nodes :
            /\ l.nodes[a].target = c.nodes[a].target
            /\ Drift!Range(l.nodes[a].lldp) = Drift!Neighbours(c.nodes[a])
            /\ Drift!Range(l.nodes[a].fdb) = Drift!Entries(c.nodes[a])
  BY LoweredAgent DEF LoweredNode
<1> DEFINE E(a) == {<<"lldp", c.nodes[a].target, r.oid>> : r \in Drift!Neighbours(c.nodes[a])}
                     \cup {<<"bridge_fdb", c.nodes[a].target, e.oid>> : e \in Drift!Entries(c.nodes[a])}
           F(a) == {<<"lldp", l.nodes[a].target, r.oid>> : r \in Drift!Range(l.nodes[a].lldp)}
                     \cup {<<"bridge_fdb", l.nodes[a].target, e.oid>> : e \in Drift!Range(l.nodes[a].fdb)}
<1>2. \A a \in DOMAIN c.nodes : E(a) = F(a)
  BY <1>1
<1>3. AllRows(l) = UNION {F(a) : a \in DOMAIN l.nodes}
  BY DEF AllRows, Drift!Range
<1>4. Drift!Rows(c) = UNION {E(a) : a \in DOMAIN c.nodes}
  BY DEF Drift!Rows, Drift!Range
<1> HIDE DEF E, F
<1>5. QED
  BY <1>1, <1>2, <1>3, <1>4

\* Captures with the same whole rows have snapshots with the same rows.
LEMMA LoweredSame ==
    ASSUME NEW s, NEW t, IsCapture(s), IsCapture(t), Drift!SameRows(s, t),
           NEW k, NEW l, Lowered(s, k), Lowered(t, l)
    PROVE  SameTables(k, l)
<1>1. /\ s.targets = t.targets /\ Len(s.nodes) = Len(t.nodes) /\ DOMAIN s.nodes = DOMAIN t.nodes
      /\ \A a \in DOMAIN s.nodes :
            /\ s.nodes[a].target = t.nodes[a].target
            /\ Drift!Neighbours(s.nodes[a]) = Drift!Neighbours(t.nodes[a])
            /\ Drift!Entries(s.nodes[a]) = Drift!Entries(t.nodes[a])
            /\ s.nodes[a].names = t.nodes[a].names
            /\ s.nodes[a].portIds = t.nodes[a].portIds
            /\ s.nodes[a].basePorts = t.nodes[a].basePorts
  BY DEF Drift!SameRows, IsCapture, IsSequence
<1>2. k.targets = l.targets /\ Len(k.nodes) = Len(l.nodes)
  BY <1>1 DEF Lowered
<1>3. DOMAIN k.nodes = DOMAIN s.nodes
  BY LoweredAgent
<1>4. ASSUME NEW a \in DOMAIN s.nodes
      PROVE  /\ k.nodes[a].target = l.nodes[a].target
             /\ Drift!Range(k.nodes[a].lldp) = Drift!Range(l.nodes[a].lldp)
             /\ Drift!Range(k.nodes[a].fdb) = Drift!Range(l.nodes[a].fdb)
             /\ k.nodes[a].names = l.nodes[a].names
             /\ k.nodes[a].portIds = l.nodes[a].portIds
             /\ k.nodes[a].basePorts = l.nodes[a].basePorts
  BY <1>1, LoweredAgent DEF LoweredNode
<1>5. QED
  BY <1>2, <1>3, <1>4 DEF SameTables

\* Without a link reported twice in whole rows, each link of the snapshot has one report.
LEMMA NotReportedTwice ==
    ASSUME NEW c, IsCapture(c), ~Drift!ReportedTwice(c), NEW l, Lowered(c, l)
    PROVE  SingleReports(l)
<1>1. DOMAIN l.nodes = DOMAIN c.nodes
  BY LoweredAgent
<1>2. SUFFICES ASSUME NEW a \in DOMAIN c.nodes,
                      NEW i \in 1..LldpCount(l, a), NEW j \in 1..LldpCount(l, a),
                      LldpLink(l, a, i) = LldpLink(l, a, j), i # j
               PROVE  FALSE
  BY <1>1 DEF SingleReports
<1> DEFINE o == l.nodes[a]
           n == c.nodes[a]
<1>3. /\ LoweredNode(o, n) /\ n \in Drift!Range(c.nodes) /\ DOMAIN n.lldp = 1..Len(n.lldp)
  BY LoweredAgent DEF Drift!Range, IsCapture, IsTable, IsSequence
<1>4. /\ i \in 1..Len(o.lldp) /\ j \in 1..Len(o.lldp)
      /\ o.lldp[i].chassis = o.lldp[j].chassis
      /\ Drift!_neighbours(o)[i].interface = Drift!_neighbours(o)[j].interface
  BY <1>2 DEF LldpCount, LldpLink
<1> HIDE DEF o, n
<1>5. Keeps(o.lldp, n.lldp, Len(n.lldp), Whole(n)) /\ o.names = n.names /\ o.portIds = n.portIds
  BY <1>3 DEF LoweredNode
<1>6. PICK x \in 1..Len(n.lldp) : x \in Whole(n) /\ o.lldp[i] = n.lldp[x]
  BY <1>4, <1>5 DEF Keeps
<1>7. PICK y \in 1..Len(n.lldp) : y \in Whole(n) /\ o.lldp[j] = n.lldp[y]
  BY <1>4, <1>5 DEF Keeps
<1>8. x # y
  <2>1. o.lldp[i].oid # o.lldp[j].oid
    BY <1>2, <1>4, <1>5 DEF Keeps
  <2>2. n.lldp[x].oid # n.lldp[y].oid
    BY <1>6, <1>7, <2>1
  <2>3. QED
    BY <2>2
<1>9. /\ Drift!_neighbours(n)[x].chassis = Drift!_neighbours(n)[y].chassis
      /\ Drift!_neighbours(n)[x].interface = Drift!_neighbours(n)[y].interface
  BY <1>4, <1>5, <1>6, <1>7 DEF Drift!_neighbours
<1>10. QED
  BY <1>3, <1>6, <1>7, <1>8, <1>9 DEF Drift!ReportedTwice, Whole

\* The topology of capture i holds the relationships of all whole rows; where the domain
\* is complete their keys are unique.
Finished(i) ==
    /\ \E l : Lowered(comparison.captures[i], l) /\ Correlated(l, topologies[i])
    /\ comparison.complete[i] => UniqueKeys(topologies[i])

Lowerings == {"agents", "lldp rows", "fdb rows"}
Correlations == {"nodes", "neighbours", "forwarding"}
Capture == comparison.captures[side]

\* Agent a of capture c is the next after the observations O.
AtAgent(c, a, O) == a \in DOMAIN c.nodes /\ a = Len(O) + 1
LldpRead(c, a, r, R) == TableRead(R, c.nodes[a].lldp, r, Whole(c.nodes[a]))
LldpDone(c, a, R) == Keeps(R, c.nodes[a].lldp, Len(c.nodes[a].lldp), Whole(c.nodes[a]))
FdbRead(c, a, r, R) == TableRead(R, c.nodes[a].fdb, r, Ported(c.nodes[a]))
Observation(c, a, N, E) ==
    [target |-> c.nodes[a].target, lldp |-> N, fdb |-> E, names |-> c.nodes[a].names,
     portIds |-> c.nodes[a].portIds, basePorts |-> c.nodes[a].basePorts]

\* The agents before the current one are lowered, and of it the rows read so far; the
\* correlation finds the whole capture lowered.
Lowering ==
    /\ driftPhase \in Lowerings => relationships = <<>> /\ LoweredTo(Capture, observations)
    /\ driftPhase = "agents" => Len(observations) = at
    /\ driftPhase \in {"lldp rows", "fdb rows"} => AtAgent(Capture, at, observations)
    /\ driftPhase = "lldp rows" => LldpRead(Capture, at, driftRow, neighbours) /\ entries = <<>>
    /\ driftPhase = "fdb rows" =>
          LldpDone(Capture, at, neighbours) /\ FdbRead(Capture, at, driftRow, entries)
    /\ driftPhase \in Correlations => Lowered(Capture, Drift!Snapshot)

\* The rows of an agent, one after the other.
LEMMA AgentRows ==
    ASSUME NEW c, IsCapture(c), NEW a \in DOMAIN c.nodes, NEW r, NEW N, NEW E
    PROVE  /\ LldpRead(c, a, 1, <<>>) /\ FdbRead(c, a, 1, <<>>)
           /\ LldpRead(c, a, r, N) /\ r <= Len(c.nodes[a].lldp) =>
                 IF Drift!IsWhole(c.nodes[a].lldp[r])
                 THEN LldpRead(c, a, r + 1, Append(N, c.nodes[a].lldp[r]))
                 ELSE LldpRead(c, a, r + 1, N)
           /\ LldpRead(c, a, r, N) /\ r > Len(c.nodes[a].lldp) => LldpDone(c, a, N)
           /\ FdbRead(c, a, r, E) /\ r <= Len(c.nodes[a].fdb) =>
                 IF Drift!HasPort(c.nodes[a].fdb[r])
                 THEN FdbRead(c, a, r + 1, Append(E, c.nodes[a].fdb[r]))
                 ELSE FdbRead(c, a, r + 1, E)
           /\ LldpDone(c, a, N) /\ FdbRead(c, a, r, E) /\ r > Len(c.nodes[a].fdb) =>
                 LoweredNode(Observation(c, a, N, E), c.nodes[a])
<1> DEFINE n == c.nodes[a]
           q == n.lldp
           b == n.fdb
<1>1. IsTable(q) /\ IsTable(b)
  BY DEF IsCapture
<1>2. /\ \A i \in DOMAIN q : i \in Whole(n) <=> Drift!IsWhole(q[i])
      /\ \A i \in DOMAIN b : i \in Ported(n) <=> Drift!HasPort(b[i])
  BY DEF Whole, Ported
<1>3. /\ \A x, R : LldpRead(c, a, x, R) <=> TableRead(R, q, x, Whole(n))
      /\ \A x, R : FdbRead(c, a, x, R) <=> TableRead(R, b, x, Ported(n))
      /\ \A R : LldpDone(c, a, R) <=> Keeps(R, q, Len(q), Whole(n))
  BY DEF LldpRead, FdbRead, LldpDone
<1>4. LoweredNode(Observation(c, a, N, E), n)
        <=> Keeps(N, q, Len(q), Whole(n)) /\ Keeps(E, b, Len(b), Ported(n))
  BY DEF LoweredNode, Observation
<1> HIDE DEF q, b, n
<1>5. LldpRead(c, a, 1, <<>>) /\ FdbRead(c, a, 1, <<>>)
  BY <1>1, <1>3, TableUnread
<1>6. LldpRead(c, a, r, N) /\ r <= Len(q) =>
         IF Drift!IsWhole(q[r]) THEN LldpRead(c, a, r + 1, Append(N, q[r]))
         ELSE LldpRead(c, a, r + 1, N)
  BY <1>1, <1>2, <1>3, TableRow
<1>7. LldpRead(c, a, r, N) /\ r > Len(q) => LldpDone(c, a, N)
  BY <1>1, <1>3, TableDone
<1>8. FdbRead(c, a, r, E) /\ r <= Len(b) =>
         IF Drift!HasPort(b[r]) THEN FdbRead(c, a, r + 1, Append(E, b[r]))
         ELSE FdbRead(c, a, r + 1, E)
  BY <1>1, <1>2, <1>3, TableRow
<1>9. LldpDone(c, a, N) /\ FdbRead(c, a, r, E) /\ r > Len(b) =>
         LoweredNode(Observation(c, a, N, E), n)
  BY <1>1, <1>3, <1>4, TableDone
<1>10. QED
  BY <1>5, <1>6, <1>7, <1>8, <1>9 DEF q, b, n

Reading ==
    /\ driftPhase = "nodes" => at = 0 /\ relationships = <<>>
    /\ driftPhase = "neighbours" =>
          /\ driftRow \in Nat
          /\ Seen(Drift!Snapshot, at, driftRow - 1, 0, neighbour_links, relationships)
    /\ driftPhase = "forwarding" =>
          /\ driftRow \in Nat
          /\ Seen(Drift!Snapshot, at, LldpCount(Drift!Snapshot, at), driftRow - 1,
                  neighbour_links, relationships)

Finishing ==
    /\ driftPhase \in Lowerings \cup Correlations =>
          IF side = 1 THEN topologies = <<>>
          ELSE Sequence(topologies) /\ Len(topologies) = 1 /\ Finished(1)
    /\ driftPhase \in {"comparing", "compared"} => Finished(1) /\ Finished(2)
    /\ driftPhase = "compared" =>
          findings = IF comparison.complete[1] /\ comparison.complete[2]
                     THEN Drift!detect_discovery_drift(topologies[1], topologies[2]) ELSE {}

DriftInv ==
    /\ comparison \in Comparisons /\ side \in {1, 2}
    /\ driftPhase \in Lowerings \cup Correlations \cup {"refused", "comparing", "compared"}
    /\ Lowering /\ Reading /\ Finishing

\* The recordings are a capture, and so is the snapshot correlation reads.
LEMMA SnapshotIsCapture ==
    ASSUME DriftInv
    PROVE  /\ IsCapture(Capture)
           /\ driftPhase \in Correlations =>
                 IsCapture(Drift!Snapshot) /\ Lowered(Capture, Drift!Snapshot)
<1>1. IsCapture(Capture)
  BY DriftAssumption DEF DriftInv, Capture
<1>2. driftPhase \in Correlations => Lowered(Capture, Drift!Snapshot)
  BY DEF DriftInv, Lowering
<1>3. QED
  BY <1>1, <1>2, LoweredIsCapture

\* Nothing is read at first.
LEMMA DriftInvInit == Drift!Init => DriftInv
<1>1. LoweredTo(comparison.captures[1], <<>>) /\ Len(<<>>) = 0
  BY EmptySequence DEF LoweredTo
<1>2. QED
  BY <1>1 DEF Drift!Init, DriftInv, Lowering, Reading, Finishing, Lowerings, Correlations, Capture

\* The loops change neither what is compared nor what is finished.
LEMMA FinishingStays ==
    ASSUME Finishing, driftPhase \in Lowerings \cup Correlations,
           driftPhase' \in Lowerings \cup Correlations,
           UNCHANGED <<comparison, side, topologies>>
    PROVE  Finishing'
BY DEF Finishing, Finished, Lowerings, Correlations

\* Correlation leaves the snapshot alone.
LEMMA LoweringStays ==
    ASSUME Lowering, driftPhase \in Correlations, driftPhase' \in Correlations,
           UNCHANGED <<comparison, side, Drift!lowering>>
    PROVE  Lowering'
BY DEF Lowering, Lowerings, Correlations, Capture, Drift!Snapshot, Drift!lowering

\* The next agent, none of whose rows is read.
LEMMA NextAgentKeepsDrift ==
    ASSUME DriftInv, Drift!NextAgent
    PROVE  DriftInv'
<1>1. /\ driftPhase = "agents" /\ at < Len(Capture.nodes) /\ Len(observations) = at
      /\ relationships = <<>> /\ LoweredTo(Capture, observations) /\ IsCapture(Capture)
  BY SnapshotIsCapture DEF Drift!NextAgent, Drift!Agents, DriftInv, Lowering, Lowerings, Capture
<1>2. /\ at' = at + 1 /\ driftRow' = 1 /\ driftPhase' = "lldp rows"
      /\ neighbours' = <<>> /\ entries' = <<>>
      /\ UNCHANGED <<comparison, side, observations, relationships, topologies>>
  BY DEF Drift!NextAgent, Drift!correlation
<1>3. Capture' = Capture
  BY <1>2 DEF Capture
<1>4. at + 1 \in DOMAIN Capture.nodes
  <2> DEFINE L == Len(Capture.nodes)
  <2>1. L \in Nat /\ DOMAIN Capture.nodes = 1..L
    BY <1>1 DEF IsCapture, IsSequence
  <2>2. at \in Nat /\ at < L
    BY <1>1, SequenceFacts DEF LoweredTo
  <2> HIDE DEF L
  <2>3. at + 1 \in 1..L
    BY <2>1, <2>2
  <2>4. QED
    BY <2>1, <2>3
<1>5. AtAgent(Capture, at + 1, observations) /\ LldpRead(Capture, at + 1, 1, <<>>)
  BY <1>1, <1>4, AgentRows DEF AtAgent
<1>6. Lowering'
  BY <1>1, <1>2, <1>3, <1>5 DEF Lowering, Lowerings, Correlations
<1>7. Reading' /\ Finishing'
  BY <1>1, <1>2, FinishingStays DEF DriftInv, Reading, Lowerings
<1>8. QED
  BY <1>2, <1>6, <1>7 DEF DriftInv, Lowerings

\* One recorded LLDP row: kept if it is whole.
LEMMA LowerNeighbourKeepsDrift ==
    ASSUME DriftInv, Drift!LowerNeighbour
    PROVE  DriftInv'
<1> DEFINE c == Capture
           q == Capture.nodes[at].lldp
<1>1. /\ driftPhase = "lldp rows" /\ driftRow <= Len(q) /\ AtAgent(c, at, observations)
      /\ LldpRead(c, at, driftRow, neighbours) /\ entries = <<>>
      /\ relationships = <<>> /\ LoweredTo(c, observations) /\ IsCapture(c)
  BY SnapshotIsCapture
  DEF Drift!LowerNeighbour, Drift!Recorded, Drift!Agents, DriftInv, Lowering, Lowerings, Capture
<1>2. /\ driftRow' = driftRow + 1
      /\ neighbours' = IF Drift!IsWhole(q[driftRow]) THEN Append(neighbours, q[driftRow])
                       ELSE neighbours
      /\ UNCHANGED <<comparison, side, at, entries, observations, relationships, topologies,
                     driftPhase>>
  BY DEF Drift!LowerNeighbour, Drift!Recorded, Drift!Agents, Drift!correlation, Capture
<1>3. Capture' = c
  BY <1>2 DEF Capture
<1>4. at \in DOMAIN c.nodes
  BY <1>1 DEF AtAgent
<1> HIDE DEF c
<1>5. IF Drift!IsWhole(q[driftRow])
      THEN LldpRead(c, at, driftRow + 1, Append(neighbours, q[driftRow]))
      ELSE LldpRead(c, at, driftRow + 1, neighbours)
  BY <1>1, <1>4, AgentRows DEF c
<1> HIDE DEF q
<1>6. LldpRead(c, at, driftRow + 1, neighbours')
  BY <1>2, <1>5
<1>7. Lowering'
  BY <1>1, <1>2, <1>3, <1>6 DEF Lowering, Lowerings, Correlations
<1>8. Reading' /\ Finishing'
  BY <1>1, <1>2, FinishingStays DEF DriftInv, Reading, Lowerings
<1>9. QED
  BY <1>1, <1>2, <1>7, <1>8 DEF DriftInv, Lowerings

\* The LLDP rows of the agent are all read.
LEMMA StartEntriesKeepsDrift ==
    ASSUME DriftInv, Drift!StartEntries
    PROVE  DriftInv'
<1> DEFINE c == Capture
<1>1. /\ driftPhase = "lldp rows" /\ driftRow > Len(c.nodes[at].lldp)
      /\ AtAgent(c, at, observations)
      /\ LldpRead(c, at, driftRow, neighbours) /\ entries = <<>>
      /\ relationships = <<>> /\ LoweredTo(c, observations) /\ IsCapture(c)
  BY SnapshotIsCapture
  DEF Drift!StartEntries, Drift!Recorded, Drift!Agents, DriftInv, Lowering, Lowerings, Capture
<1>2. /\ driftRow' = 1 /\ driftPhase' = "fdb rows"
      /\ UNCHANGED <<comparison, side, at, neighbours, entries, observations, relationships,
                     topologies>>
  BY DEF Drift!StartEntries, Drift!correlation, Drift!lowering
<1>3. Capture' = c
  BY <1>2 DEF Capture
<1>4. at \in DOMAIN c.nodes
  BY <1>1 DEF AtAgent
<1> HIDE DEF c
<1>5. LldpDone(c, at, neighbours) /\ FdbRead(c, at, 1, entries)
  BY <1>1, <1>4, AgentRows
<1>6. Lowering'
  BY <1>1, <1>2, <1>3, <1>5 DEF Lowering, Lowerings, Correlations
<1>7. Reading' /\ Finishing'
  BY <1>1, <1>2, FinishingStays DEF DriftInv, Reading, Lowerings
<1>8. QED
  BY <1>2, <1>6, <1>7 DEF DriftInv, Lowerings

\* One recorded bridge row: kept if it has its port.
LEMMA LowerEntryKeepsDrift ==
    ASSUME DriftInv, Drift!LowerEntry
    PROVE  DriftInv'
<1> DEFINE c == Capture
           q == Capture.nodes[at].fdb
<1>1. /\ driftPhase = "fdb rows" /\ driftRow <= Len(q) /\ AtAgent(c, at, observations)
      /\ LldpDone(c, at, neighbours) /\ FdbRead(c, at, driftRow, entries)
      /\ relationships = <<>> /\ LoweredTo(c, observations) /\ IsCapture(c)
  BY SnapshotIsCapture
  DEF Drift!LowerEntry, Drift!Recorded, Drift!Agents, DriftInv, Lowering, Lowerings, Capture
<1>2. /\ driftRow' = driftRow + 1
      /\ entries' = IF Drift!HasPort(q[driftRow]) THEN Append(entries, q[driftRow]) ELSE entries
      /\ UNCHANGED <<comparison, side, at, neighbours, observations, relationships, topologies,
                     driftPhase>>
  BY DEF Drift!LowerEntry, Drift!Recorded, Drift!Agents, Drift!correlation, Capture
<1>3. Capture' = c
  BY <1>2 DEF Capture
<1>4. at \in DOMAIN c.nodes
  BY <1>1 DEF AtAgent
<1> HIDE DEF c
<1>5. IF Drift!HasPort(q[driftRow])
      THEN FdbRead(c, at, driftRow + 1, Append(entries, q[driftRow]))
      ELSE FdbRead(c, at, driftRow + 1, entries)
  BY <1>1, <1>4, AgentRows DEF c
<1> HIDE DEF q
<1>6. FdbRead(c, at, driftRow + 1, entries')
  BY <1>2, <1>5
<1>7. Lowering'
  BY <1>1, <1>2, <1>3, <1>6 DEF Lowering, Lowerings, Correlations
<1>8. Reading' /\ Finishing'
  BY <1>1, <1>2, FinishingStays DEF DriftInv, Reading, Lowerings
<1>9. QED
  BY <1>1, <1>2, <1>7, <1>8 DEF DriftInv, Lowerings

\* The observation of an agent whose rows are all read.
LEMMA ObserveNodeKeepsDrift ==
    ASSUME DriftInv, Drift!ObserveNode
    PROVE  DriftInv'
<1> DEFINE c == Capture
           o == Observation(c, at, neighbours, entries)
<1>1. /\ driftPhase = "fdb rows" /\ driftRow > Len(c.nodes[at].fdb)
      /\ AtAgent(c, at, observations)
      /\ LldpDone(c, at, neighbours) /\ FdbRead(c, at, driftRow, entries)
      /\ relationships = <<>> /\ LoweredTo(c, observations) /\ IsCapture(c)
  BY SnapshotIsCapture
  DEF Drift!ObserveNode, Drift!Recorded, Drift!Agents, DriftInv, Lowering, Lowerings, Capture
<1>2. /\ observations' = Append(observations, o) /\ driftPhase' = "agents"
      /\ UNCHANGED <<comparison, side, at, relationships, topologies>>
  BY DEF Drift!ObserveNode, Drift!Recorded, Drift!Agents, Drift!correlation, Capture, Observation
<1>3. Capture' = c
  BY <1>2 DEF Capture
<1>4. at \in DOMAIN c.nodes /\ at = Len(observations) + 1
  BY <1>1 DEF AtAgent
<1> HIDE DEF c
<1>5. LoweredNode(o, c.nodes[at])
  BY <1>1, <1>4, AgentRows
<1> HIDE DEF o
<1>6. LoweredTo(c, observations') /\ Len(observations') = at
  <2>1. /\ Len(observations) + 1 \in DOMAIN c.nodes
        /\ LoweredNode(o, c.nodes[Len(observations) + 1])
    BY <1>4, <1>5
  <2>2. /\ LoweredTo(c, Append(observations, o))
        /\ Len(Append(observations, o)) = Len(observations) + 1
    BY <1>1, <2>1, LoweredOneMore
  <2>3. QED
    BY <1>2, <1>4, <2>2
<1>7. Lowering'
  BY <1>1, <1>2, <1>3, <1>6 DEF Lowering, Lowerings, Correlations
<1>8. Reading' /\ Finishing'
  BY <1>1, <1>2, FinishingStays DEF DriftInv, Reading, Lowerings
<1>9. QED
  BY <1>2, <1>7, <1>8 DEF DriftInv, Lowerings

\* The capture is lowered.
LEMMA CorrelateKeepsDrift ==
    ASSUME DriftInv, Drift!Correlate
    PROVE  DriftInv'
<1>1. /\ driftPhase = "agents" /\ Len(observations) = Len(Capture.nodes)
      /\ relationships = <<>> /\ LoweredTo(Capture, observations)
  BY DEF Drift!Correlate, Drift!Agents, DriftInv, Lowering, Lowerings, Capture
<1>2. /\ at' = 0 /\ driftPhase' = "nodes"
      /\ UNCHANGED <<comparison, side, observations, relationships, topologies>>
  BY DEF Drift!Correlate, Drift!correlation, Drift!lowering
<1>3. Capture' = Capture /\ Drift!Snapshot' = Drift!Snapshot
  BY <1>2 DEF Capture, Drift!Snapshot
<1>4. Lowered(Capture, Drift!Snapshot)
  BY <1>1 DEF Lowered, Drift!Snapshot, Capture
<1>5. Lowering'
  BY <1>2, <1>3, <1>4 DEF Lowering, Lowerings
<1>6. Reading' /\ Finishing'
  BY <1>1, <1>2, FinishingStays DEF DriftInv, Reading, Lowerings, Correlations
<1>7. QED
  BY <1>2, <1>5, <1>6 DEF DriftInv, Correlations

\* One LLDP row read.
LEMMA NeighbourKeepsDrift ==
    ASSUME DriftInv, Drift!Neighbour
    PROVE  DriftInv'
<1> DEFINE c == Drift!Snapshot
           f == Through(FdbCounts(c), at, 0)
           new == Report(c, f, at, driftRow)
           K == LldpLink(c, at, driftRow)
<1>1. /\ driftPhase = "neighbours" /\ driftRow \in Nat
      /\ Seen(c, at, driftRow - 1, 0, neighbour_links, relationships)
      /\ driftRow <= LldpCount(c, at) /\ IsCapture(c)
  BY SnapshotIsCapture DEF DriftInv, Reading, Drift!Neighbour, Drift!Observed, LldpCount,
     Correlations
<1>2. /\ UNCHANGED <<comparison, side, at, Drift!lowering, topologies, findings, driftPhase>>
      /\ driftRow' = driftRow + 1
  BY DEF Drift!Neighbour
<1>3. Drift!Snapshot' = c
  BY <1>2 DEF Drift!Snapshot, Drift!lowering
<1>4. /\ at \in DOMAIN c.nodes /\ LldpCount(c, at) \in Nat /\ driftRow - 1 \in Nat
      /\ f[at] = 0
  BY <1>1, SeenFacts
<1>5. driftRow \in 1..LldpCount(c, at) /\ driftRow - 1 < LldpCount(c, at)
      /\ (driftRow - 1) + 1 = driftRow /\ driftRow' - 1 = driftRow
  BY <1>1, <1>2, <1>4
<1> HIDE DEF f
<1>6. /\ relationships' = Append(relationships, new)
      /\ neighbour_links' = Pointing(neighbour_links, K, Len(relationships) + 1)
  <2>1. LET r == Drift!_neighbours(c.nodes[at])[driftRow]
            target == Drift!_remote_node_key(r.addresses, r.chassis,
                                             Drift!_known_target_by_address(c))
        IN  /\ <<r.chassis, r.interface>> = K
            /\ new = [key |-> <<Node(c, at), "lldp", r.port, target, r.remote>>,
                      type |-> "reported_neighbour", source |-> Node(c, at), target |-> target,
                      interface |-> r.interface, port |-> r.port, remote |-> r.remote,
                      confidence |-> "protocol_reported",
                      evidence |-> {<<"lldp", c.nodes[at].target, r.oid>>}]
    BY <1>4, <1>5, NewReport
  <2>2. Drift!Observed = c.nodes[at] /\ Drift!Source = Node(c, at)
    BY DEF Drift!Observed, Drift!Source, Node
  <2> HIDE DEF new, K
  <2>3. QED
    BY <2>1, <2>2 DEF Drift!Neighbour, Pointing
<1>7. new = Report(c, Through(FdbCounts(c), at, 0), at, (driftRow - 1) + 1)
  BY <1>5 DEF f
<1> HIDE DEF c, new, K
<1>8. Seen(c, at, driftRow, 0, neighbour_links', relationships')
  <2>1. Seen(c, at, (driftRow - 1) + 1, 0,
             Pointing(neighbour_links, LldpLink(c, at, (driftRow - 1) + 1), Len(relationships) + 1),
             Append(relationships, new))
    BY <1>1, <1>5, <1>7, SeenReport
  <2>2. QED
    BY <1>5, <1>6, <2>1 DEF K
<1>9. Reading'
  BY <1>1, <1>2, <1>3, <1>5, <1>8 DEF Reading
<1>10. Lowering' /\ Finishing'
  BY <1>1, <1>2, LoweringStays, FinishingStays DEF DriftInv, Lowerings, Correlations
<1>11. QED
  BY <1>1, <1>2, <1>9, <1>10 DEF DriftInv, Correlations

\* The reports of the agent are all read.
LEMMA StartForwardingKeepsDrift ==
    ASSUME DriftInv, Drift!StartForwarding
    PROVE  DriftInv'
<1> DEFINE c == Drift!Snapshot
<1>1. /\ driftPhase = "neighbours" /\ driftRow \in Nat
      /\ Seen(c, at, driftRow - 1, 0, neighbour_links, relationships)
      /\ driftRow > LldpCount(c, at) /\ IsCapture(c)
  BY SnapshotIsCapture DEF DriftInv, Reading, Drift!StartForwarding, Drift!Observed, LldpCount,
     Correlations
<1>2. /\ UNCHANGED <<comparison, side, at, Drift!lowering, neighbour_links, relationships,
                     topologies, findings>>
      /\ driftRow' = 1 /\ driftPhase' = "forwarding"
  BY DEF Drift!StartForwarding
<1>3. Drift!Snapshot' = c
  BY <1>2 DEF Drift!Snapshot, Drift!lowering
<1>4. LldpCount(c, at) \in Nat /\ driftRow - 1 <= LldpCount(c, at)
  BY <1>1, SeenFacts
<1>5. driftRow - 1 = LldpCount(c, at) /\ driftRow' - 1 = 0
  BY <1>1, <1>2, <1>4
<1> HIDE DEF c
<1>6. Seen(c, at, LldpCount(c, at), driftRow' - 1, neighbour_links, relationships)
  BY <1>1, <1>5
<1>7. Reading'
  BY <1>1, <1>2, <1>3, <1>6 DEF Reading
<1>8. Lowering' /\ Finishing'
  BY <1>1, <1>2, LoweringStays, FinishingStays DEF DriftInv, Lowerings, Correlations
<1>9. QED
  BY <1>1, <1>2, <1>7, <1>8 DEF DriftInv, Correlations

\* One forwarding row read: it corroborates the last report of its link, or stands alone.
LEMMA ForwardKeepsDrift ==
    ASSUME DriftInv, Drift!Forward
    PROVE  DriftInv'
<1> DEFINE c == Drift!Snapshot
           K == FdbLink(c, at, driftRow)
           e == FdbEvidence(c, at, driftRow)
           x == neighbour_links[K]
           R == relationships
           new == Corroborated(R[x], e)
<1>1. /\ driftPhase = "forwarding" /\ driftRow \in Nat
      /\ Seen(c, at, LldpCount(c, at), driftRow - 1, neighbour_links, R)
      /\ driftRow <= FdbCount(c, at) /\ IsCapture(c)
  BY SnapshotIsCapture DEF DriftInv, Reading, Drift!Forward, Drift!Observed, FdbCount,
     Correlations
<1>2. /\ UNCHANGED <<comparison, side, at, Drift!lowering, neighbour_links, topologies, findings,
                     driftPhase>>
      /\ driftRow' = driftRow + 1
  BY DEF Drift!Forward
<1>3. Drift!Snapshot' = c
  BY <1>2 DEF Drift!Snapshot, Drift!lowering
<1>4. /\ at \in DOMAIN c.nodes /\ FdbCount(c, at) \in Nat /\ driftRow - 1 \in Nat
      /\ Sequence(R)
  BY <1>1, SeenFacts
<1>5. driftRow \in 1..FdbCount(c, at) /\ driftRow - 1 < FdbCount(c, at)
      /\ (driftRow - 1) + 1 = driftRow /\ driftRow' - 1 = driftRow
  BY <1>1, <1>2, <1>4
<1>6. IF K \in DOMAIN neighbour_links THEN R' = Replaced(R, x, new)
      ELSE R' = Append(R, Reachability(c, at, driftRow))
  <2>1. LET y == Drift!_forwarding_entries(c.nodes[at])[driftRow]
        IN  /\ <<y.mac, y.interface>> = K
            /\ <<"bridge_fdb", c.nodes[at].target, y.oid>> = e
            /\ Reachability(c, at, driftRow) =
                  [key |-> <<Node(c, at), "fdb", y.port, <<"mac", y.mac>>, unresolved>>,
                   type |-> "mac_reachability", source |-> Node(c, at),
                   target |-> <<"mac", y.mac>>,
                   interface |-> y.interface, port |-> y.port, remote |-> unresolved,
                   confidence |-> "indirect",
                   evidence |-> {<<"bridge_fdb", c.nodes[at].target, y.oid>>}]
    BY <1>5, NewReachability
  <2>2. Drift!Observed = c.nodes[at] /\ Drift!Source = Node(c, at)
    BY DEF Drift!Observed, Drift!Source, Node
  <2> HIDE DEF K, e
  <2>3. CASE K \in DOMAIN neighbour_links
    BY <2>1, <2>2, <2>3 DEF Drift!Forward, Replaced, Corroborated
  <2>4. CASE K \notin DOMAIN neighbour_links
    BY <2>1, <2>2, <2>4 DEF Drift!Forward
  <2>5. QED
    BY <2>3, <2>4
<1> HIDE DEF c, R, new, x
<1>7. Seen(c, at, LldpCount(c, at), driftRow, neighbour_links, R')
  <2>1. CASE K \notin DOMAIN neighbour_links
    <3>1. FdbLink(c, at, (driftRow - 1) + 1) \notin DOMAIN neighbour_links
      BY <1>5, <2>1
    <3>2. Seen(c, at, LldpCount(c, at), (driftRow - 1) + 1, neighbour_links,
               Append(R, Reachability(c, at, (driftRow - 1) + 1)))
      BY <1>1, <1>5, <3>1, SeenReachability
    <3>3. QED
      BY <1>5, <1>6, <2>1, <3>2
  <2>2. CASE K \in DOMAIN neighbour_links
    <3>1. /\ FdbLink(c, at, (driftRow - 1) + 1) \in DOMAIN neighbour_links
          /\ x = neighbour_links[FdbLink(c, at, (driftRow - 1) + 1)]
      BY <1>5, <2>2 DEF x
    <3>2. /\ x \in 1..Len(R)
          /\ Seen(c, at, LldpCount(c, at), (driftRow - 1) + 1, neighbour_links,
                  Replaced(R, x, Corroborated(R[x], FdbEvidence(c, at, (driftRow - 1) + 1))))
      BY <1>1, <1>5, <3>1, SeenCorroboration
    <3>3. QED
      BY <1>5, <1>6, <2>2, <3>2 DEF new
  <2>3. QED
    BY <2>1, <2>2
<1>8. Reading'
  BY <1>1, <1>2, <1>3, <1>5, <1>7 DEF Reading, R
<1>9. Lowering' /\ Finishing'
  BY <1>1, <1>2, LoweringStays, FinishingStays DEF DriftInv, Lowerings, Correlations
<1>10. QED
  BY <1>1, <1>2, <1>8, <1>9 DEF DriftInv, Correlations

\* The next agent, with no links of the one before.
LEMMA NextNodeKeepsDrift ==
    ASSUME DriftInv, Drift!NextNode
    PROVE  DriftInv'
<1> DEFINE c == Drift!Snapshot
<1>1. /\ IsCapture(c) /\ Len(c.nodes) \in Nat /\ at < Len(c.nodes)
      /\ driftPhase \in {"nodes", "forwarding"}
  BY SnapshotIsCapture, CountsOfCapture DEF DriftInv, Drift!NextNode, Drift!RowsDone, Correlations
<1>2. /\ UNCHANGED <<comparison, side, Drift!lowering, nodes, relationships, topologies, findings>>
      /\ at' = at + 1 /\ driftRow' = 1 /\ neighbour_links' = <<>> /\ driftPhase' = "neighbours"
  BY DEF Drift!NextNode
<1>3. Drift!Snapshot' = c
  BY <1>2 DEF Drift!Snapshot, Drift!lowering
<1>4. Seen(c, at + 1, 0, 0, <<>>, relationships)
  <2>1. CASE driftPhase = "nodes"
    <3>1. at = 0 /\ relationships = <<>>
      BY <2>1 DEF DriftInv, Reading
    <3>2. Len(c.nodes) # 0 /\ at + 1 = 1
      BY <1>1, <3>1
    <3>3. QED
      BY <1>1, <3>1, <3>2, SeenNothing
  <2>2. CASE driftPhase = "forwarding"
    <3>1. /\ driftRow \in Nat /\ driftRow > FdbCount(c, at)
          /\ Seen(c, at, LldpCount(c, at), driftRow - 1, neighbour_links, relationships)
      BY <2>2 DEF DriftInv, Reading, Drift!NextNode, Drift!RowsDone, Drift!Observed, FdbCount
    <3>2. FdbCount(c, at) \in Nat /\ driftRow - 1 <= FdbCount(c, at)
      BY <1>1, <3>1, SeenFacts
    <3>3. driftRow - 1 = FdbCount(c, at)
      BY <3>1, <3>2
    <3>4. at # Len(c.nodes)
      BY <1>1
    <3> HIDE DEF c
    <3>5. QED
      BY <1>1, <3>1, <3>3, <3>4, SeenAgent
  <2>3. QED
    BY <1>1, <2>1, <2>2
<1>5. driftRow' - 1 = 0
  BY <1>2
<1> HIDE DEF c
<1>6. Reading'
  BY <1>2, <1>3, <1>4, <1>5 DEF Reading
<1>7. Lowering' /\ Finishing'
  BY <1>1, <1>2, LoweringStays, FinishingStays DEF DriftInv, Lowerings, Correlations
<1>8. QED
  BY <1>1, <1>2, <1>6, <1>7 DEF DriftInv, Correlations

\* The first and the second relationship list a state is built from.
LEMMA FirstTwo ==
    ASSUME NEW T, NEW x, Sequence(T)
    PROVE  /\ Len(T) = 0 => /\ Sequence(Append(T, x)) /\ Len(Append(T, x)) = 1
                            /\ Append(T, x)[1] = x
           /\ Len(T) = 1 => Append(T, x)[1] = T[1] /\ Append(T, x)[2] = x
<1> DEFINE A == Append(T, x)
<1>1. /\ Sequence(A) /\ Len(A) = Len(T) + 1 /\ A[Len(T) + 1] = x
      /\ \A i \in 1..Len(T) : A[i] = T[i]
  BY SequenceAppend
<1> HIDE DEF A
<1>2. ASSUME Len(T) = 0 PROVE Len(A) = 1 /\ A[1] = x
  <2>1. Len(T) + 1 = 1
    BY <1>2
  <2>2. QED
    BY <1>1, <2>1
<1>3. ASSUME Len(T) = 1 PROVE A[1] = T[1] /\ A[2] = x
  <2>1. Len(T) + 1 = 2 /\ 1 \in 1..Len(T)
    BY <1>3
  <2>2. QED
    BY <1>1, <2>1
<1>4. QED
  BY <1>1, <1>2, <1>3 DEF A

\* A capture wholly read: refused for a repeated key, or kept.
LEMMA BuildStateKeepsDrift ==
    ASSUME DriftInv, Drift!BuildState
    PROVE  DriftInv'
<1> DEFINE c == Drift!Snapshot
<1>1. /\ IsCapture(c) /\ Len(c.nodes) \in Nat /\ at = Len(c.nodes)
      /\ driftPhase \in {"nodes", "forwarding"}
      /\ comparison \in Comparisons /\ side \in {1, 2} /\ UNCHANGED <<comparison, findings>>
      /\ Lowered(comparison.captures[side], c)
  BY SnapshotIsCapture, CountsOfCapture
  DEF DriftInv, Drift!BuildState, Drift!RowsDone, Correlations, Capture
<1>2. Correlated(c, relationships)
  <2>1. CASE driftPhase = "nodes"
    <3>1. at = 0 /\ relationships = <<>>
      BY <2>1 DEF DriftInv, Reading
    <3>2. QED
      BY <1>1, <3>1, SeenNothing
  <2>2. CASE driftPhase = "forwarding"
    <3>1. /\ driftRow \in Nat /\ driftRow > FdbCount(c, at)
          /\ Seen(c, at, LldpCount(c, at), driftRow - 1, neighbour_links, relationships)
      BY <2>2 DEF DriftInv, Reading, Drift!BuildState, Drift!RowsDone, Drift!Observed, FdbCount
    <3>2. FdbCount(c, at) \in Nat /\ driftRow - 1 <= FdbCount(c, at)
      BY <1>1, <3>1, SeenFacts
    <3>3. driftRow - 1 = FdbCount(c, at)
      BY <3>1, <3>2
    <3> HIDE DEF c
    <3>4. QED
      BY <1>1, <3>1, <3>3, SeenAgent
  <2>3. QED
    BY <1>1, <2>1, <2>2
<1>3. CASE comparison.complete[side] /\ Drift!RepeatedKey
  <2>1. driftPhase' = "refused" /\ side' = side
    BY <1>3 DEF Drift!BuildState
  <2>2. QED
    BY <1>1, <2>1 DEF DriftInv, Lowering, Reading, Finishing, Lowerings, Correlations
<1>4. CASE ~(comparison.complete[side] /\ Drift!RepeatedKey)
  <2>1. comparison.complete[side] => UniqueKeys(relationships)
    BY <1>4 DEF Drift!RepeatedKey, UniqueKeys
  <2>2. topologies' = Append(topologies, relationships)
    BY <1>4 DEF Drift!BuildState
  <2>3. CASE side = 1
    <3>1. /\ side' = 2 /\ at' = 0 /\ relationships' = <<>> /\ driftPhase' = "agents"
          /\ observations' = <<>>
      BY <1>4, <2>3 DEF Drift!BuildState
    <3>2. topologies = <<>>
      BY <1>1, <2>3 DEF DriftInv, Finishing, Correlations
    <3>3. Sequence(topologies') /\ Len(topologies') = 1 /\ topologies'[1] = relationships
      <4>1. Sequence(topologies) /\ Len(topologies) = 0
        BY <3>2, EmptySequence
      <4>2. /\ Sequence(Append(topologies, relationships))
            /\ Len(Append(topologies, relationships)) = 1
            /\ Append(topologies, relationships)[1] = relationships
        BY <4>1, FirstTwo
      <4>3. QED
        BY <2>2, <4>2
    <3>4. Finished(1)'
      <4> HIDE DEF c
      <4>1. QED
        BY <1>1, <1>2, <2>1, <2>3, <3>3 DEF Finished
    <3>5. Reading' /\ Finishing'
      BY <3>1, <3>3, <3>4 DEF Reading, Finishing
    <3>6. Lowering'
      <4>1. LoweredTo(Capture', <<>>) /\ Len(<<>>) = 0
        BY EmptySequence DEF LoweredTo
      <4>2. QED
        BY <3>1, <4>1 DEF Lowering, Correlations
    <3>7. QED
      BY <1>1, <3>1, <3>5, <3>6 DEF DriftInv, Lowerings
  <2>4. CASE side = 2
    <3>1. side' = 2 /\ driftPhase' = "comparing"
      BY <1>4, <2>4 DEF Drift!BuildState
    <3>2. Sequence(topologies) /\ Len(topologies) = 1 /\ Finished(1)
      BY <1>1, <2>4 DEF DriftInv, Finishing, Correlations
    <3>3. topologies'[1] = topologies[1] /\ topologies'[2] = relationships
      <4>1. /\ Append(topologies, relationships)[1] = topologies[1]
            /\ Append(topologies, relationships)[2] = relationships
        BY <3>2, FirstTwo
      <4>2. QED
        BY <2>2, <4>1
    <3>4. Finished(1)' /\ Finished(2)'
      <4> HIDE DEF c
      <4>1. QED
        BY <1>1, <1>2, <2>1, <2>4, <3>2, <3>3 DEF Finished
    <3>5. Lowering' /\ Reading' /\ Finishing'
      BY <3>1, <3>4 DEF Lowering, Reading, Finishing, Lowerings, Correlations
    <3>6. QED
      BY <1>1, <3>1, <3>5 DEF DriftInv
  <2>5. QED
    BY <1>1, <2>3, <2>4
<1>5. QED
  BY <1>3, <1>4

\* The comparison changes the findings only.
LEMMA CompareKeepsDrift ==
    ASSUME DriftInv, Drift!Compare \/ UNCHANGED Drift!vars
    PROVE  DriftInv'
<1>1. CASE Drift!Compare
  <2>1. /\ driftPhase = "comparing" /\ driftPhase' = "compared"
        /\ UNCHANGED <<comparison, side, topologies>>
        /\ findings' = IF comparison.complete[1] /\ comparison.complete[2]
                       THEN Drift!detect_discovery_drift(topologies[1], topologies[2]) ELSE {}
    BY <1>1 DEF Drift!Compare
  <2>2. Finished(1)' /\ Finished(2)'
    BY <2>1 DEF DriftInv, Finishing, Finished
  <2>3. Finishing'
    BY <2>1, <2>2 DEF Finishing, Lowerings, Correlations
  <2>4. Lowering' /\ Reading'
    BY <2>1 DEF Lowering, Reading, Lowerings, Correlations
  <2>5. QED
    BY <2>1, <2>3, <2>4 DEF DriftInv
<1>2. CASE UNCHANGED Drift!vars
  <2>1. UNCHANGED <<comparison, side, at, driftRow, neighbours, entries, observations,
                    neighbour_links, relationships, topologies, findings, driftPhase>>
    BY <1>2 DEF Drift!vars, Drift!lowering, Drift!correlation
  <2>2. Capture' = Capture /\ Drift!Snapshot' = Drift!Snapshot
    BY <2>1 DEF Capture, Drift!Snapshot
  <2>3. Lowering'
    BY <2>1, <2>2 DEF DriftInv, Lowering
  <2>4. Reading'
    BY <2>1, <2>2 DEF DriftInv, Reading
  <2>5. Finishing'
    BY <2>1 DEF DriftInv, Finishing, Finished
  <2>6. QED
    BY <2>1, <2>3, <2>4, <2>5 DEF DriftInv
<1>3. QED
  BY <1>1, <1>2

\* What the invariant says once the captures are compared.
LEMMA DriftInvExplains == DriftInv => DriftIsExplained
<1>1. SUFFICES ASSUME DriftInv, driftPhase = "compared" PROVE DriftIsExplained
  BY DEF DriftIsExplained, Drift!DriftIsExplained
<1> DEFINE s == comparison.captures[1]
           t == comparison.captures[2]
           R == topologies[1]
           Q == topologies[2]
           complete == comparison.complete[1] /\ comparison.complete[2]
<1>2. /\ \E k : Lowered(s, k) /\ Correlated(k, R)
      /\ \E l : Lowered(t, l) /\ Correlated(l, Q)
      /\ complete => UniqueKeys(R) /\ UniqueKeys(Q)
      /\ findings = IF complete THEN Drift!detect_discovery_drift(R, Q) ELSE {}
  BY <1>1 DEF DriftInv, Finishing, Finished
<1>3. IsCapture(s) /\ IsCapture(t)
  BY <1>1, DriftAssumption DEF DriftInv
<1> HIDE DEF s, t, R, Q
<1>4. PICK k : Lowered(s, k) /\ Correlated(k, R)
  BY <1>2
<1>5. PICK l : Lowered(t, l) /\ Correlated(l, Q)
  BY <1>2
<1>6. IsCapture(k) /\ IsCapture(l) /\ Sequence(R) /\ Sequence(Q)
  BY <1>3, <1>4, <1>5, LoweredIsCapture DEF Correlated, Described
<1>7. Drift!EvidenceKept(s, R) /\ Drift!EvidenceKept(t, Q)
  <2>1. EvidenceOf(Drift!Rows(s), R) /\ EvidenceOf(Drift!Rows(t), Q)
    BY <1>3, <1>4, <1>5, <1>6, EvidenceIsKept, LoweredRows
  <2>2. QED
    BY <2>1 DEF EvidenceOf, Drift!EvidenceKept
<1>8. Drift!SameRows(s, t) /\ ~Drift!ReportedTwice(s) => findings = {}
  <2>1. SUFFICES ASSUME Drift!SameRows(s, t), ~Drift!ReportedTwice(s) PROVE findings = {}
    OBVIOUS
  <2>2. SameTables(k, l) /\ SingleReports(k)
    BY <1>3, <1>4, <1>5, <2>1, LoweredSame, NotReportedTwice
  <2>3. Alike(R, Q)
    BY <1>4, <1>5, <1>6, <2>2, SameRowsAlike
  <2>4. QED
    BY <1>2, <1>6, <2>3, NothingFound
<1>9. complete /\ findings = {} => Drift!Links(R) = Drift!Links(Q)
  BY <1>2, <1>6, NothingFound, AlikeLinks
<1>10. ~complete => findings = {}
  BY <1>2
<1>11. complete <=> \A i \in {1, 2} : comparison.complete[i]
  OBVIOUS
<1>12. QED
  BY <1>7, <1>8, <1>9, <1>10, <1>11 DEF DriftIsExplained, Drift!DriftIsExplained, s, t, R, Q

\* Whatever rows two captures hold, whole or not, in whatever order their agents
\* answered: every whole row is evidence for just one relationship, of its own node, and
\* a row that lowering skips for none; the same whole rows cause no finding unless a
\* chassis is reported twice on one interface; no finding means the same links; and an
\* incomplete capture causes none.
THEOREM DriftStaysExplained == Drift!Spec => []DriftIsExplained
<1>1. DriftInv /\ [Drift!Next]_(Drift!vars) => DriftInv'
  BY NextAgentKeepsDrift, LowerNeighbourKeepsDrift, StartEntriesKeepsDrift, LowerEntryKeepsDrift,
     ObserveNodeKeepsDrift, CorrelateKeepsDrift, NeighbourKeepsDrift, StartForwardingKeepsDrift,
     ForwardKeepsDrift, NextNodeKeepsDrift, BuildStateKeepsDrift, CompareKeepsDrift DEF Drift!Next
<1>2. QED
  BY <1>1, DriftInvInit, DriftInvExplains, PTL DEF Drift!Spec
=============================================================================
