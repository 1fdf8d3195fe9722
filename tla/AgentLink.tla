------------------------------- MODULE AgentLink -------------------------------
(***************************************************************************)
(* What a BusConnector (khonliang_bus/connector.py) is to the agent that   *)
(* owns it: connect_and_register() succeeds or fails once; then run()      *)
(* replaces every link it loses until it finds _running cleared, and is    *)
(* over for good. Connector implements it.                                 *)
(*                                                                         *)
(* A stop is noticed where run() looks: one that finds the link up lets    *)
(* the agent never register again; one that finds it lost may be noticed   *)
(* after a last registration.                                              *)
(***************************************************************************)

VARIABLES
  phase,       \* of the connector: off, up, lost, over
  running,     \* _running
  registered,  \* the property `registered'
  asked        \* whether disconnect() was ever called

link == <<phase, running, registered, asked>>

Init == phase = "off" /\ ~running /\ ~registered /\ ~asked

\* connect_and_register() returns, and run() begins.
Register ==
  /\ phase = "off" /\ phase' = "up"
  /\ running' = TRUE /\ registered' = TRUE
  /\ UNCHANGED asked

Abort == phase = "off" /\ phase' = "over" /\ UNCHANGED <<running, registered, asked>>

Lose ==
  /\ phase = "up" /\ running /\ phase' = "lost"
  /\ registered' = FALSE
  /\ UNCHANGED <<running, asked>>

Restore ==
  /\ phase = "lost" /\ running /\ phase' = "up"
  /\ registered' = TRUE
  /\ UNCHANGED <<running, asked>>

End ==
  /\ phase \in {"up", "lost"} /\ ~running /\ phase' = "over"
  /\ UNCHANGED registered \/ (phase = "lost" /\ registered' = TRUE)
  /\ UNCHANGED <<running, asked>>

\* disconnect() begins; without a socket it is already at its end.
Stop ==
  /\ running' = FALSE /\ asked' = TRUE
  /\ registered' \in {registered, FALSE}
  /\ UNCHANGED phase

\* disconnect() ends.
Stopped == asked /\ registered' = FALSE /\ UNCHANGED <<phase, running, asked>>

Next == Register \/ Abort \/ Lose \/ Restore \/ End \/ Stop \/ Stopped

Spec == Init /\ [][Next]_link
===============================================================================
