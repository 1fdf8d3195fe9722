----------------------------- MODULE MCVersioning -----------------------------
(***************************************************************************)
(* A bounded instance of version resolution for TLC.                       *)
(***************************************************************************)
EXTENDS Versioning, TLC

CONSTANTS near, far, v1, v2, a1, a2

Modules == {near, far}
Versions == {v1, v2}
TwoAgents == {a1, a2}

\* One module's source is a directory below the other's.
Homes == near :> 0 @@ far :> 1

\* None, one, one after a missing one, one behind a broken one.
Installs == {<<>>, <<v1>>, <<Missing, v1>>, <<Broken, v1>>}

Symmetry == Permutations(TwoAgents)

================================================================================
