------------------------------ MODULE MCArgChecks ------------------------------
(***************************************************************************)
(* A bounded instance of the argument checks for TLC.                      *)
(***************************************************************************)
EXTENDS ArgChecks

CONSTANTS f1, f2

Fields == {f1, f2}
Kinds == {"str", "int", "float", "bool"}
Types == {"string", "integer", "number", "unknown", "union"}

================================================================================
