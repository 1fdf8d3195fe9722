------------------------------ MODULE MCLifecycle ------------------------------
(***************************************************************************)
(* A bounded instance of the agent's life for TLC.                         *)
(***************************************************************************)
EXTENDS Lifecycle

CONSTANTS s1, s2

TwoStoppers == {s1, s2}

================================================================================
