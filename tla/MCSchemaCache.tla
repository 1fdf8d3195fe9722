----------------------------- MODULE MCSchemaCache -----------------------------
(***************************************************************************)
(* A bounded instance of the schema cache for TLC.                         *)
(***************************************************************************)
EXTENDS SchemaCache

CONSTANTS t1, t2, o1, o2, c1, c2

Types == {t1, t2}
Ops == {o1, o2}
ThreeKeys == {<<t1, o1>>, <<t1, o2>>, <<t2, o1>>}
Callers == {c1, c2}
SecondMalformed == {1}

================================================================================
