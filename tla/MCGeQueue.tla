------------------------------ MODULE MCGeQueue -----------------------------
(* GeQueue on small instances.                                             *)
EXTENDS GeQueue, TLC

CONSTANTS w1, w2, w3, w4, u1

\* Watched requests are interchangeable; u1 is queued without a callback, the
\* way frame handlers queue their refresh requests.
Symmetry == Permutations(Watched)
=============================================================================
