----------------------------- MODULE MCVarTrends -----------------------------
(* The instance of VarTrends that TLC checks.                               *)
EXTENDS VarTrends
==============================================================================
