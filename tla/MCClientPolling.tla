-------------------------- MODULE MCClientPolling --------------------------
(* The instance of ClientPolling that TLC checks. *)
EXTENDS ClientPolling

OneLife == [p \in Platforms |-> 1]
=============================================================================
