------------------------- MODULE MCSessionLifecycle -------------------------
(* Instances of SessionLifecycle for TLC.                                  *)
EXTENDS SessionLifecycle, TLC

\* HTTP workers are interchangeable: no action tells one from another.
WorkerSymmetry == Permutations(Workers)
=============================================================================
