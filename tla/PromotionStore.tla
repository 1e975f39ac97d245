---------------------------- MODULE PromotionStore ----------------------------
(***************************************************************************)
(* What the PromotionRepository port promises: a batch is validated and    *)
(* persisted as a whole, or it changes nothing.                            *)
(***************************************************************************)
EXTENDS PromotionPolicy

VARIABLES
  records,    \* the committed promotion records
  persisted   \* history: what the applied batches claimed

\* A repository starts empty or from records that are one-to-one already.
Init == records \in SUBSET Record /\ OneToOne(records) /\ persisted = {}

\* PromotionRepository.apply: one complete batch, atomically.
Apply(B) ==
  /\ Admissible(records, {}, B)
  /\ records' = Applied(records, B)
  /\ persisted' = persisted \cup Claims(B)

Next == \E B \in Batch : Apply(B)

Spec == Init /\ [][Next]_<<records, persisted>>
===============================================================================
