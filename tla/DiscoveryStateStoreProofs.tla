---------------------- MODULE DiscoveryStateStoreProofs ----------------------
(***************************************************************************)
(* TLAPS proofs about the state file, for any callers, keys, revisions and *)
(* number of power losses.                                                 *)
(***************************************************************************)
EXTENDS DiscoveryStateStore, FiniteSetTheorems, TLAPS

Loads(d) == ~d.torn /\ _validate_cross_links(d)

\* A document on its way to the file can be loaded; unless saves overlap, it also
\* continues the file as it is, under the next revision.
DraftsReady ==
  \A p \in Processes : pc[p] \in Writing =>
    /\ Loads(draft[p])
    /\ ~Overlapping =>
         /\ _validate_forward(file, draft[p])
         /\ file.revision = base[p].revision
         /\ draft[p].revision = file.revision + 1

\* Unless saves overlap, one process at a time is writing.
OneWriter ==
  ~Overlapping =>
    \A p, q \in Processes : pc[p] \in Writing /\ pc[q] \in Writing => p = q

\* Before any power loss a loaded document of the current revision is the file, and
\* only the missing file has revision 0.
RevisionsIdentify ==
  ~Overlapping /\ boots = 0 =>
    \A p \in Processes :
      /\ base[p].revision <= file.revision
      /\ base[p].revision = file.revision => base[p] = file
      /\ file.revision = 0 => file = Nothing

\* What callers hold was read from a complete document.
HeldComplete == \A p \in Processes : ~base[p].torn

IInv ==
  /\ TypeOK
  /\ HeldComplete
  /\ StoredDocumentsLoad
  /\ DraftsReady
  /\ OneWriter
  /\ RevisionsIdentify

-----------------------------------------------------------------------------
LEMMA NothingLoads == Nothing \in Document /\ Loads(Nothing)
  <1>1. Nothing \in Document
    BY StoreBounds DEF Nothing, Document
  <1>2. \A k \in Keys : NumbersOf(Nothing, k) = {} /\ {g \in Nothing.generations : g.key = k} = {}
    BY DEF NumbersOf, Nothing
  <1>3. Cardinality({}) = 0
    BY FS_EmptySet
  <1>4. \A k \in Keys : Count(Nothing, k) = 0
    BY <1>2, <1>3 DEF Count
  <1>5. 1 .. 0 = {}
    OBVIOUS
  <1> QED
    BY <1>1, <1>2, <1>4, <1>5 DEF Loads, _validate_cross_links, Nothing

\* What a caller brings to save is a document.
LEMMA BroughtDocuments ==
  ASSUME TypeOK, NEW p \in Processes, NEW d \in Brought(p)
  PROVE  d \in Document
  <1>1. base[p] \in Document
    BY DEF TypeOK
  <1>2. ASSUME NEW e \in Document PROVE Drafts(e, p) \subseteq Document
    BY <1>2 DEF Drafts, Document
  <1> QED
    BY <1>1, <1>2, NothingLoads DEF Brought

LEMMA InitIInv == Init => IInv
  <1> SUFFICES ASSUME Init PROVE IInv
    OBVIOUS
  <1>1. TypeOK
    BY NothingLoads, StoreBounds DEF Init, TypeOK
  <1>2. StoredDocumentsLoad
    BY NothingLoads DEF Init, StoredDocumentsLoad, Loads
  <1>3. DraftsReady /\ OneWriter
    BY DEF Init, DraftsReady, OneWriter, Writing
  <1>4. RevisionsIdentify /\ HeldComplete
    BY DEF Init, RevisionsIdentify, HeldComplete, Nothing
  <1> QED
    BY <1>1, <1>2, <1>3, <1>4 DEF IInv

\* A call that ends without replacing the file.
LEMMA DoneStep ==
  ASSUME IInv, NEW p \in Processes, Done(p), UNCHANGED <<file, onDisk, boots>>
  PROVE  IInv'
  <1>1. TypeOK'
    BY NothingLoads DEF IInv, TypeOK, Done
  <1>2. /\ pc'[p] = "idle" /\ base'[p] = Nothing
        /\ \A q \in Processes : q # p =>
             pc'[q] = pc[q] /\ base'[q] = base[q] /\ draft'[q] = draft[q]
    BY DEF IInv, TypeOK, Done
  <1>3. StoredDocumentsLoad'
    BY DEF IInv, StoredDocumentsLoad
  <1>4. DraftsReady' /\ OneWriter'
    BY <1>2 DEF IInv, DraftsReady, OneWriter, Writing
  <1>5. file.revision \in Nat
    BY StoreBounds DEF IInv, TypeOK, Document
  <1>6. RevisionsIdentify'
    <2> SUFFICES ASSUME ~Overlapping, boots = 0, NEW q \in Processes
                 PROVE  /\ base'[q].revision <= file.revision
                        /\ base'[q].revision = file.revision => base'[q] = file
                        /\ file.revision = 0 => file = Nothing
      BY DEF RevisionsIdentify
    <2>1. Nothing.revision = 0
      BY DEF Nothing
    <2>2. /\ base[q].revision <= file.revision
          /\ base[q].revision = file.revision => base[q] = file
          /\ file.revision = 0 => file = Nothing
      BY DEF IInv, RevisionsIdentify
    <2> QED
      BY <1>2, <1>5, <2>1, <2>2
  <1>7. HeldComplete'
    BY <1>2 DEF IInv, HeldComplete, Nothing
  <1> QED
    BY <1>1, <1>3, <1>4, <1>6, <1>7 DEF IInv

\* A process moves on; the file and all documents stay.
LEMMA MoveStep ==
  ASSUME IInv, NEW p \in Processes, UNCHANGED <<file, onDisk, boots, base, draft>>,
         NEW x \in Writing \cup {"working"}, pc' = [pc EXCEPT ![p] = x],
         x \in Writing => pc[p] \in Writing,
         creating' \in [Processes -> BOOLEAN]
  PROVE  IInv'
  <1>1. TypeOK'
    BY DEF IInv, TypeOK
  <1>2. \A q \in Processes : pc'[q] \in Writing => pc[q] \in Writing
    BY DEF IInv, TypeOK
  <1> QED
    BY <1>1, <1>2 DEF IInv, StoredDocumentsLoad, DraftsReady, OneWriter, RevisionsIdentify,
       HeldComplete

\* A caller that loads holds a complete copy of the file.
LEMMA LoadStep ==
  ASSUME IInv, NEW p \in Processes, Load(p)
  PROVE  IInv'
  <1>1. TypeOK'
    BY DEF IInv, TypeOK, Load, Goto
  <1>2. /\ pc'[p] = "working" /\ base'[p] = file
        /\ \A q \in Processes : q # p => pc'[q] = pc[q] /\ base'[q] = base[q]
    BY DEF IInv, TypeOK, Load, Goto
  <1>3. UNCHANGED <<file, onDisk, boots, draft>>
    BY DEF Load
  <1>4. StoredDocumentsLoad'
    BY <1>3 DEF IInv, StoredDocumentsLoad
  <1>5. DraftsReady' /\ OneWriter'
    BY <1>2, <1>3 DEF IInv, DraftsReady, OneWriter, Writing
  <1>6. file.revision \in Nat
    BY StoreBounds DEF IInv, TypeOK, Document
  <1>7. RevisionsIdentify'
    BY <1>2, <1>3, <1>6 DEF IInv, RevisionsIdentify
  <1>8. HeldComplete'
    BY <1>2, <1>3 DEF IInv, HeldComplete, StoredDocumentsLoad
  <1> QED
    BY <1>1, <1>4, <1>5, <1>7, <1>8 DEF IInv

\* What a caller brings was complete when it was read.
LEMMA BroughtComplete ==
  ASSUME IInv, NEW p \in Processes, NEW d \in Brought(p)
  PROVE  ~d.torn
  <1>1. base[p] \in Document /\ ~base[p].torn
    BY DEF IInv, TypeOK, HeldComplete
  <1>2. ASSUME NEW e \in Document, ~e.torn, NEW f \in Drafts(e, p) PROVE ~f.torn
    BY <1>2 DEF Drafts, Document
  <1> QED
    BY <1>1, <1>2 DEF Brought, Nothing

\* A save that passes its checks has a loadable draft that continues the file.
LEMMA CheckSaveStep ==
  ASSUME IInv, NEW p \in Processes, CheckSave(p)
  PROVE  IInv'
  <1>1. PICK d \in Brought(p) :
          /\ Acceptable(p, d)
          /\ draft' = [draft EXCEPT ![p] = [d EXCEPT !.revision = NextRevision]]
    BY DEF CheckSave
  <1> DEFINE e == [d EXCEPT !.revision = NextRevision]
  <1>2. d \in Document /\ file \in Document /\ file.revision \in Nat /\ TypeOK
    BY BroughtDocuments, StoreBounds DEF IInv, TypeOK, Document
  <1>3. e \in Document /\ e.revision = file.revision + 1
        /\ e.torn = d.torn /\ e.generations = d.generations
        /\ e.inactive = d.inactive /\ e.promotions = d.promotions
    BY <1>2, StoreBounds DEF CheckSave, NextRevision, Document
  <1>4. _validate_forward(file, e) /\ Loads(e)
    BY <1>1, <1>3, BroughtComplete
    DEF Acceptable, _validate_forward, _validate_cross_links, NumbersOf, Count, Loads
  <1>5. /\ pc'[p] = "checked" /\ draft'[p] = e
        /\ \A q \in Processes : q # p => pc'[q] = pc[q] /\ draft'[q] = draft[q]
    BY <1>1, <1>2 DEF CheckSave, TypeOK
  <1> HIDE DEF e
  <1>6. UNCHANGED <<file, onDisk, boots, base, creating>>
    BY DEF CheckSave
  <1>7. file.revision = base[p].revision
    BY <1>1 DEF Acceptable
  <1>8. TypeOK'
    BY <1>1, <1>2, <1>3, <1>6 DEF CheckSave, TypeOK, Writing, e
  <1>9. DraftsReady'
    BY <1>3, <1>4, <1>5, <1>6, <1>7 DEF IInv, DraftsReady
  <1>10. OneWriter'
    BY <1>5 DEF CheckSave, MayStart, IInv, OneWriter
  <1>11. StoredDocumentsLoad' /\ RevisionsIdentify' /\ HeldComplete'
    BY <1>6 DEF IInv, StoredDocumentsLoad, RevisionsIdentify, HeldComplete
  <1> QED
    BY <1>8, <1>9, <1>10, <1>11 DEF IInv

\* os.replace: the new file loads, continues the old one and outdates every copy.
LEMMA ReplaceStep ==
  ASSUME IInv, NEW p \in Processes, Replace(p)
  PROVE  IInv'
  <1>1. TypeOK /\ pc[p] \in Writing /\ file' = draft[p] /\ boots' = boots
    BY DEF IInv, Replace, Writing
  <1>2. /\ pc'[p] = "idle" /\ base'[p] = Nothing
        /\ \A q \in Processes : q # p =>
             pc'[q] = pc[q] /\ base'[q] = base[q] /\ draft'[q] = draft[q]
    BY <1>1 DEF TypeOK, Replace, Done
  <1>3. TypeOK'
    BY <1>1, NothingLoads DEF TypeOK, Replace, Done
  <1>4. Loads(draft[p])
    BY <1>1 DEF IInv, DraftsReady
  <1>5. StoredDocumentsLoad'
    BY <1>1, <1>4 DEF IInv, StoredDocumentsLoad, Loads, Replace
  <1>6. ~Overlapping => \A q \in Processes : q # p => pc[q] \notin Writing
    BY <1>1 DEF IInv, OneWriter
  <1>7. DraftsReady' /\ OneWriter'
    BY <1>2, <1>6 DEF IInv, DraftsReady, OneWriter, Writing
  <1>8. file.revision \in Nat
    BY <1>1, StoreBounds DEF TypeOK, Document
  <1>9. RevisionsIdentify'
    <2> SUFFICES ASSUME ~Overlapping, boots = 0, NEW q \in Processes
                 PROVE  base'[q].revision < file'.revision /\ file'.revision > 0
      BY <1>1, <1>3, StoreBounds DEF RevisionsIdentify, TypeOK, Document
    <2>1. file'.revision = file.revision + 1
      BY <1>1 DEF IInv, DraftsReady
    <2>2. base[q].revision <= file.revision /\ base[q].revision \in Nat
      BY <1>1, StoreBounds DEF IInv, RevisionsIdentify, TypeOK, Document
    <2>3. base'[q].revision = base[q].revision \/ base'[q].revision = 0
      BY <1>2 DEF Nothing
    <2> QED
      BY <1>8, <2>1, <2>2, <2>3
  <1>10. HeldComplete'
    BY <1>2 DEF IInv, HeldComplete, Nothing
  <1> QED
    BY <1>3, <1>5, <1>7, <1>9, <1>10 DEF IInv

\* A power loss brings back a document that was complete when it was replaced.
LEMMA PowerLossStep == IInv /\ PowerLoss => IInv'
  <1> SUFFICES ASSUME IInv, PowerLoss PROVE IInv'
    OBVIOUS
  <1>1. TypeOK
    BY DEF IInv
  <1>2. TypeOK'
    BY <1>1, NothingLoads, StoreBounds DEF PowerLoss, TypeOK, Writing
  <1>3. StoredDocumentsLoad'
    BY DEF PowerLoss, IInv, StoredDocumentsLoad
  <1>4. \A p \in Processes : pc'[p] \notin Writing
    BY <1>1 DEF PowerLoss, TypeOK, Writing
  <1>5. DraftsReady' /\ OneWriter'
    BY <1>4 DEF DraftsReady, OneWriter
  <1>6. boots' # 0
    BY <1>1, StoreBounds DEF PowerLoss, TypeOK
  <1>7. RevisionsIdentify'
    BY <1>6 DEF RevisionsIdentify
  <1>8. HeldComplete'
    BY DEF PowerLoss, IInv, HeldComplete, Nothing
  <1> QED
    BY <1>2, <1>3, <1>5, <1>7, <1>8 DEF IInv

LEMMA FlushStep == IInv /\ FlushDirectory => IInv'
  BY DEF FlushDirectory, IInv, TypeOK, StoredDocumentsLoad, DraftsReady, OneWriter,
     RevisionsIdentify, HeldComplete

LEMMA NextIInv == IInv /\ [Next]_vars => IInv'
  <1> SUFFICES ASSUME IInv, [Next]_vars PROVE IInv'
    OBVIOUS
  <1>1. CASE UNCHANGED vars
    BY <1>1 DEF vars, IInv, TypeOK, StoredDocumentsLoad, DraftsReady, OneWriter,
       RevisionsIdentify, HeldComplete
  <1> creating \in [Processes -> BOOLEAN]
    BY DEF IInv, TypeOK
  <1>2. ASSUME NEW p \in Processes, Load(p) PROVE IInv'
    BY <1>2, LoadStep
  <1>3. ASSUME NEW p \in Processes, Initialise(p) PROVE IInv'
    <2>1. creating' \in [Processes -> BOOLEAN]
      BY <1>3 DEF Initialise
    <2>2. UNCHANGED <<file, onDisk, boots, base, draft>>
          /\ pc' = [pc EXCEPT ![p] = "working"] /\ "working" \notin Writing
      BY <1>3 DEF Initialise, Goto, Writing
    <2> QED
      BY <2>1, <2>2, MoveStep
  <1>4. ASSUME NEW p \in Processes, CheckSave(p) PROVE IInv'
    BY <1>4, CheckSaveStep
  <1>5. ASSUME NEW p \in Processes, Replay(p) \/ Refuse(p) \/ Abort(p) PROVE IInv'
    BY <1>5, DoneStep DEF Replay, Refuse, Abort
  <1>6. ASSUME NEW p \in Processes, WriteTemp(p) \/ Sync(p) PROVE IInv'
    <2>1. PICK x \in {"temporary", "synced"} : pc' = [pc EXCEPT ![p] = x] /\ pc[p] \in Writing
      BY <1>6 DEF WriteTemp, Sync, Goto, Writing
    <2>2. UNCHANGED <<file, onDisk, boots, base, draft>> /\ creating' = creating
      BY <1>6 DEF WriteTemp, Sync
    <2>3. x \in Writing
      BY DEF Writing
    <2> QED
      BY <2>1, <2>2, <2>3, MoveStep
  <1>7. ASSUME NEW p \in Processes, Replace(p) PROVE IInv'
    BY <1>7, ReplaceStep
  <1> QED
    BY <1>1, <1>2, <1>3, <1>4, <1>5, <1>6, <1>7, FlushStep, PowerLossStep DEF Next

THEOREM SpecIInv == Spec => []IInv
  BY InitIInv, NextIInv, PTL DEF Spec

-----------------------------------------------------------------------------
(* The properties of the file store *)

\* The file, what a power loss can leave and the callers' documents have their types.
THEOREM TypeCorrect == Spec => []TypeOK
  <1>1. IInv => TypeOK
    BY DEF IInv
  <1> QED
    BY SpecIInv, <1>1, PTL

\* Even when saves overlap, no crash or power loss leaves a file load refuses.
THEOREM FileAlwaysLoads == Spec => []StoredDocumentsLoad
  <1>1. IInv => StoredDocumentsLoad
    BY DEF IInv
  <1> QED
    BY SpecIInv, <1>1, PTL

\* The file changes only by os.replace and by power loss.
LEMMA FileChanges ==
  ASSUME IInv, [Next]_vars, file' # file, boots' = boots
  PROVE  \E p \in Processes : Replace(p)
  <1>1. ~PowerLoss
    BY DEF PowerLoss, IInv, TypeOK
  <1> QED
    BY <1>1 DEF Next, Load, Initialise, CheckSave, Replay, Refuse, WriteTemp, Sync, Abort,
       FlushDirectory, vars

\* When saves do not overlap, no save discards history, also when a power loss let
\* two documents carry one revision number.
THEOREM HistoryKept == ASSUME ~Overlapping PROVE Spec => NoHistoryLost
  <1>1. IInv /\ [Next]_vars => [boots' = boots => Retains(file, file')]_file
    <2> SUFFICES ASSUME IInv, [Next]_vars, file' # file, boots' = boots
                 PROVE  Retains(file, file')
      OBVIOUS
    <2>1. PICK p \in Processes : Replace(p)
      BY FileChanges
    <2>2. _validate_forward(file, draft[p]) /\ file' = draft[p] /\ draft[p] \in Document
          /\ file \in Document
      BY <2>1 DEF IInv, TypeOK, DraftsReady, Replace, Writing
    <2> QED
      BY <2>2 DEF _validate_forward, Retains, Document, Promotion
  <1> QED
    BY SpecIInv, <1>1, PTL DEF Spec, NoHistoryLost

\* When saves do not overlap and before any power loss, a save replaces exactly the
\* document its caller had loaded: the expected revision misses no update.
THEOREM SavesBuild == ASSUME ~Overlapping PROVE Spec => SavesBuildOnWhatTheyRead
  <1>1. IInv /\ [Next]_vars =>
          [\A p \in Processes :
             pc[p] = "synced" /\ file' = draft[p] /\ file' # file /\ boots' = 0
               => file = base[p]]_vars
    <2> SUFFICES ASSUME IInv, [Next]_vars, NEW p \in Processes,
                        pc[p] = "synced", file' = draft[p], file' # file, boots' = 0
                 PROVE  file = base[p]
      OBVIOUS
    <2>1. boots = 0
      BY StoreBounds DEF IInv, TypeOK, Next, Load, Initialise, CheckSave, Replay, Refuse,
         WriteTemp, Sync, Abort, Replace, FlushDirectory, PowerLoss, vars
    <2>2. file.revision = base[p].revision
      BY DEF IInv, DraftsReady, Writing
    <2> QED
      BY <2>1, <2>2 DEF IInv, RevisionsIdentify
  <1> QED
    BY SpecIInv, <1>1, PTL DEF Spec, SavesBuildOnWhatTheyRead
=============================================================================
