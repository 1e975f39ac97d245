-------------------- MODULE MCSqlitePromotionRepository --------------------
(* TLC instance of SqlitePromotionRepository.                               *)
EXTENDS SqlitePromotionRepository

CONSTANTS a1, a2, i1, i2, s1, o1, e1, e2

Promotion(a, i, g, E) ==
  [asset |-> a, identity |-> i, core |-> [signature |-> s1, object |-> o1],
   generation |-> g, evidence |-> E]

\* Batches that create, extend, replay, rebind an identity, rebind an asset, or
\* mix a fresh asset with one that another caller may have overtaken.
MCInputs ==
  { {Promotion(a1, i1, 1, {e1})},
    {Promotion(a1, i1, 2, {e1, e2})},
    {Promotion(a2, i1, 1, {e1})},
    {Promotion(a1, i2, 1, {e2})},
    {Promotion(a1, i1, 1, {e1}), Promotion(a2, i2, 1, {e2})},
    {Promotion(a1, i1, 2, {e2}), Promotion(a2, i2, 2, {e2})} }
============================================================================
