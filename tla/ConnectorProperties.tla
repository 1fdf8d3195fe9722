-------------------------- MODULE ConnectorProperties --------------------------
(***************************************************************************)
(* What the connector must guarantee, whatever the order in which the      *)
(* link, the bus, the handlers and the shutdown tasks act.                 *)
(***************************************************************************)
EXTENDS Connector

IsReply(f) == f.type \in {"response", "error"}

\* Position of request r among the frames delivered on c.
Arrival(c, r) == CHOOSE i \in 1..Len(inbox[c]) : inbox[c][i] = r

Pow2[n \in Nat] == IF n = 0 THEN 1 ELSE 2 * Pow2[n - 1]

\* The delay the n-th consecutive failure leads to.
Backoff(n) ==
  IF InitDelay * Pow2[n] <= MaxDelay THEN InitDelay * Pow2[n] ELSE MaxDelay

\* Every disconnect() that was called has returned.
StopDone == asked # {} /\ \A s \in Stopper : dpc[s] \in {"idle", "done"}

-----------------------------------------------------------------------------
(* Safety *)

\* The agent calls itself registered only on a connection whose register frame
\* the bus accepted, and never while it is looking for the next one: the
\* `registered' property other code reads (connector.py:78) is not a leftover.
HonestRegistration ==
  registered => /\ ws # None
                /\ ack[ws] = "registered"
                /\ pc \notin DownPcs

\* On every connection the register frame comes first and once, and on a
\* reconnection no heartbeat, reply or event of another task slips in before
\* the bus has accepted it (connector.py:222, :260).
RegisterFirst ==
  \A c \in Conn :
    /\ \A i \in 1..Len(wire[c]) : (wire[c][i].type = "register") <=> (i = 1)
    /\ c > 1 /\ ack[c] # "registered" => Len(wire[c]) <= 1

\* A reply goes out on the connection its request came in on, in the order of
\* the requests, and a request gets at most one: the reconnection, the error
\* branch of _handle_bus_message and disconnect() never misroute or repeat it.
RepliesInOrder ==
  \A c \in Conn : \A i \in 1..Len(wire[c]) : IsReply(wire[c][i]) =>
    /\ \E k \in 1..rd[c] : inbox[c][k] = wire[c][i].id
    /\ \A j \in 1..(i - 1) :
         IsReply(wire[c][j]) => Arrival(c, wire[c][j].id) < Arrival(c, wire[c][i].id)

\* The sleep after the n-th failure in a row is InitDelay * 2^n, capped, and a
\* link that works always starts again from InitDelay (connector.py:180-220).
BackoffExact ==
  /\ pc \in UpPcs => delay = InitDelay
  /\ pc = "sleep" => delay = Backoff(fails)

\* An open socket is the connector's, or the one in its handshake, or one
\* whose answer was no JSON object (the leak of connector.py:251).
NoStraySocket ==
  \A c \in Conn : st[c] = "open" =>
    \/ c = ws
    \/ c = dialed /\ pc = "reack"
    \/ ack[c] = "garbage"

\* The bus never holds two connections of this agent as registered.
OneLiveLink == \A c, d \in Conn : BusHolds(c) /\ BusHolds(d) => c = d

\* A disconnect() called while the link was up is final: once it has returned
\* the agent is not registered and the bus holds no connection of it.
StopIsFinal ==
  StopDone /\ asked \subseteq UpPcs =>
    ~registered /\ \A c \in Conn : ~BusHolds(c)

Phase ==
  CASE pc \in ConnectPcs \ {"failed"} -> "off"
    [] pc \in UpPcs -> "up"
    [] pc \in DownPcs -> "lost"
    [] OTHER -> "over"

Link == INSTANCE AgentLink
  WITH phase <- Phase, running <- running, registered <- registered, asked <- asked # {}

\* The connector is what AgentLink promises its agent: whatever the bus, the
\* network and the shutdown tasks do, a run() that was stopped while up never
\* registers again, a lost link is given up only by a stop, `registered' is true
\* from a registration to the next loss or stop, and what is over stays over.
LinkImplemented == Link!Spec

-----------------------------------------------------------------------------
(* Liveness, under FairSpec *)

\* A lost link is replaced by a registered one, unless the agent is stopped
\* (connector.py:176, "Auto-reconnects on connection loss").
Reconnects == (pc = "sleep" /\ running) ~> (registered \/ ~running)

\* disconnect() ends a run() that had begun, in whatever await it finds it.
StopEnds == (asked \cap (UpPcs \cup DownPcs) # {}) ~> (pc = "stopped")

\* A request that arrived is answered, if only with an error, as long as its
\* link stays up, run() goes on, and the result can be encoded.
RequestsAnswered ==
  \A c \in Conn, r \in Request \ Unencodable :
    (\E i \in 1..Len(inbox[c]) : inbox[c][i] = r) ~>
       \/ \E i \in 1..Len(wire[c]) : IsReply(wire[c][i]) /\ wire[c][i].id = r
       \/ st[c] # "open"
       \/ pc = "stopped"

-----------------------------------------------------------------------------
(* Strengthenings, for the proofs *)

\* What pc says of the connection: the argument for HonestRegistration.
LinkInv ==
  /\ pc \in ConnectPcs => ~registered
  /\ pc \in {"ack", "refuse"} \cup UpPcs => ws # None
  /\ pc \in DownPcs => ~registered /\ ws = None
  /\ pc \in {"reack", "closing"} => dialed # 0
  /\ registered => ws # None /\ ack[ws] = "registered"

\* Only the handshake writes to a connection the connector does not carry yet:
\* the argument for RegisterFirst.
WireInv ==
  /\ pc \in {"init", "dial"} => dialed = 0
  /\ \A c \in Conn : c > dialed => wire[c] = <<>> /\ ack[c] = "none"
  /\ ws # None => Len(wire[ws]) > 0
  /\ pc = "reack" => Len(wire[dialed]) > 0
  /\ ws > 1 => ack[ws] = "registered"

\* The argument for BackoffExact: the delay is doubled after the sleep, before
\* the attempt whose failure is counted.
BackoffInv ==
  /\ pc \in ConnectPcs \cup UpPcs => delay = InitDelay /\ fails = 0
  /\ pc = "sleep" => delay = Backoff(fails)
  /\ pc \in DownPcs \ {"sleep"} => delay = Backoff(fails + 1)

\* The argument for StopIsFinal: after stops that all found the link up, run()
\* keeps its socket, and every disconnect() is about that one.
StoppedUp == asked # {} /\ asked \subseteq UpPcs

StopInv ==
  /\ asked # {} => \E s \in Stopper : dpc[s] # "idle"
  /\ StoppedUp =>
       /\ ~running /\ pc \in UpPcs \cup {"stopped"} /\ ws # None
       /\ \A s \in Stopper :
            /\ dpc[s] = "closing" => dws[s] = ws
            /\ dpc[s] = "done" => ~registered /\ st[ws] # "open"

\* How many frames of c the receive loop is done with.
Handled(c) == IF pc = "handler" /\ c = ws THEN rd[c] - 1 ELSE rd[c]

HandlerInv ==
  pc = "handler" =>
    /\ ws # None /\ rd[ws] > 0
    /\ cur = inbox[ws][rd[ws]] /\ cur \in Request

InboxInv ==
  \A c \in Conn :
    /\ rd[c] <= Len(inbox[c])
    /\ \A k, l \in 1..Len(inbox[c]) :
         inbox[c][k] = inbox[c][l] /\ inbox[c][k] \in Request => k = l

\* Every reply answers a request that is handled.
RepliesHandled ==
  \A c \in Conn : \A i \in 1..Len(wire[c]) : IsReply(wire[c][i]) =>
    \E k \in 1..Handled(c) : inbox[c][k] = wire[c][i].id /\ inbox[c][k] \in Request

RepliesOrdered ==
  \A c \in Conn : \A i \in 1..Len(wire[c]) : \A j \in 1..(i - 1) :
    IsReply(wire[c][j]) /\ IsReply(wire[c][i]) =>
      \A k, l \in 1..Len(inbox[c]) :
        inbox[c][k] = wire[c][j].id /\ inbox[c][l] = wire[c][i].id => k < l

\* The argument for RepliesInOrder: the request in the handler comes after
\* every one that has been replied to.
ReplyInv == HandlerInv /\ InboxInv /\ RepliesHandled /\ RepliesOrdered

-----------------------------------------------------------------------------
(* What the documentation says and the code does not do: see the README *)

\* "Clean disconnect: deregister and close." (connector.py:358), whenever it
\* is called: false when it finds run() reconnecting.
StopAlwaysFinal ==
  StopDone /\ pc \in {"stopped", "failed"} =>
    ~registered /\ \A c \in Conn : ~BusHolds(c)

================================================================================
