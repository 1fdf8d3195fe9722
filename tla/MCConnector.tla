------------------------------ MODULE MCConnector ------------------------------
(***************************************************************************)
(* Bounded instances of the connector for TLC.                             *)
(***************************************************************************)
EXTENDS ConnectorProperties, TLC

CONSTANTS r1, r2, s1, s2

TwoRequests == {r1, r2}
OneRequest == {r1}
SecondBad == {r2}
OneStopper == {s1}
TwoStoppers == {s1, s2}
Nobody == {}

\* The tasks that call disconnect() are interchangeable.
Stoppers == Permutations(TwoStoppers)

================================================================================
