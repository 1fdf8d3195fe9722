------------------------------- MODULE Connector -------------------------------
(***************************************************************************)
(* BusConnector (khonliang_bus/connector.py): the one WebSocket an agent   *)
(* keeps to the bus, with the task that runs it, the heartbeat task and    *)
(* the tasks that call disconnect().                                       *)
(*                                                                         *)
(* The tasks are coroutines of one asyncio loop: an action is the code     *)
(* between two awaits that really suspend, and pc, hb and dpc name the     *)
(* await where the main task, the heartbeat task and each stopper wait.    *)
(* A write to an open socket is one step: websockets.send suspends only    *)
(* under back-pressure, and a frame written to a link that then drops is   *)
(* in the same position as one whose write raised.                         *)
(*                                                                         *)
(* External: the socket library and the bus. A connection is named by the  *)
(* order in which it was dialled, so the local variable new_ws of run() is *)
(* always the connection `dialed'.                                         *)
(***************************************************************************)
EXTENDS Integers, Sequences

CONSTANTS
  MaxConns,     \* bound: connections one run may open
  Request,      \* requests the bus may send, each at most once
  NoRequest,    \* no request is being handled
  Unencodable,  \* requests whose result json.dumps(allow_nan=False) rejects
  Stopper,      \* tasks that call disconnect() (SIGTERM, SIGINT, shutdown())
  InitDelay,    \* reconnect_delay
  MaxDelay,     \* max_reconnect_delay
  MaxFaults,    \* bound: refused dials, lost links, bad answers, bad payloads
  MaxChatter    \* bound: heartbeats, publishes and pings together

ASSUME BoundsAssumption ==
  /\ MaxConns \in Nat \ {0}
  /\ MaxFaults \in Nat
  /\ MaxChatter \in Nat


\* The defaults are 2.0 and 60.0 seconds; nothing in the code orders them, a
\* cap below the first delay would only shorten it.
ASSUME DelayAssumption ==
  InitDelay \in Nat \ {0} /\ MaxDelay \in Nat /\ InitDelay <= MaxDelay

Conn == 1..MaxConns
None == 0

\* A bus-to-agent frame that is no request; "junk" is a text json.loads
\* rejects, or a JSON value without .get.
Control == {"ping", "junk"}

ASSUME RequestAssumption ==
  /\ NoRequest \notin Request
  /\ Unencodable \subseteq Request
  /\ Request \cap Control = {}

FrameType == {"register", "heartbeat", "publish", "response", "error", "pong",
              "deregister"}
Frame == [type : FrameType, id : Request \cup {NoRequest}]
Plain(t) == [type |-> t, id |-> NoRequest]

VARIABLES
  pc,          \* where the task of connect_and_register() and run() waits
  ws,          \* _ws
  registered,  \* _registered
  running,     \* _running
  delay,       \* run()'s local delay
  cur,         \* the request whose handler is running
  hb,          \* the heartbeat task
  dpc,         \* where each disconnect() waits
  dws,         \* the connection each disconnect() is closing
  st,          \* state of each connection, as the agent's socket reports it
  dialed,      \* how many connections were opened
  wire,        \* the frames written to each connection
  ack,         \* the bus's answer to the register frame
  inbox,       \* every later frame that reached the agent's buffer
  rd,          \* how many of them the receive loop has taken
  faults,      \* faults spent
  chatter,     \* chatter spent
  fails,       \* history: attempts that failed since the last registration
  asked        \* history: pc at each call of disconnect()

agentVars == <<ws, registered, running, delay, cur>>
linkVars  == <<st, dialed, wire, ack, inbox, rd>>
stopVars  == <<dpc, dws, asked>>
budget    == <<faults, chatter>>
vars == <<pc, agentVars, hb, stopVars, linkVars, budget, fails>>

ConnectPcs == {"init", "dial", "ack", "refuse", "failed"}
UpPcs      == {"recv", "handler", "errsleep"}
DownPcs    == {"sleep", "redial", "reack", "closing"}
Pcs        == ConnectPcs \cup UpPcs \cup DownPcs \cup {"stopped"}

TypeOK ==
  /\ pc \in Pcs
  /\ ws \in Conn \cup {None}
  /\ registered \in BOOLEAN
  /\ running \in BOOLEAN
  /\ delay \in InitDelay..MaxDelay
  /\ cur \in Request \cup {NoRequest}
  /\ hb \in {"none", "sleep", "cancelled", "done"}
  /\ dpc \in [Stopper -> {"idle", "hbwait", "close", "closing", "done"}]
  /\ dws \in [Stopper -> Conn \cup {None}]
  /\ asked \in SUBSET Pcs
  /\ st \in [Conn -> {"unused", "open", "closing", "closed"}]
  /\ dialed \in Conn \cup {0}
  /\ wire \in [Conn -> Seq(Frame)]
  /\ ack \in [Conn -> {"none", "registered", "rejected", "garbage"}]
  /\ inbox \in [Conn -> Seq(Request \cup Control)]
  /\ rd \in [Conn -> Nat]
  /\ faults \in Nat
  /\ chatter \in Nat
  /\ fails \in Nat

Init ==
  /\ pc = "init"
  /\ ws = None
  /\ registered = FALSE
  /\ running = FALSE
  /\ delay = InitDelay
  /\ cur = NoRequest
  /\ hb = "none"
  /\ dpc = [s \in Stopper |-> "idle"]
  /\ dws = [s \in Stopper |-> None]
  /\ asked = {}
  /\ st = [c \in Conn |-> "unused"]
  /\ dialed = 0
  /\ wire = [c \in Conn |-> <<>>]
  /\ ack = [c \in Conn |-> "none"]
  /\ inbox = [c \in Conn |-> <<>>]
  /\ rd = [c \in Conn |-> 0]
  /\ faults = 0
  /\ chatter = 0
  /\ fails = 0

-----------------------------------------------------------------------------
(* Helpers *)

Fault == faults < MaxFaults /\ faults' = faults + 1 /\ UNCHANGED chatter
Chat  == chatter < MaxChatter /\ chatter' = chatter + 1 /\ UNCHANGED faults

\* _is_open
IsOpen == ws # None /\ st[ws] = "open"

\* send(): one frame on the current socket, or a warning and nothing.
Send(frame) ==
  wire' = IF IsOpen THEN [wire EXCEPT ![ws] = Append(@, frame)] ELSE wire

\* The dial and the register frame: a new socket opens with that frame alone.
Dial ==
  /\ dialed < MaxConns
  /\ dialed' = dialed + 1
  /\ st' = [st EXCEPT ![dialed + 1] = "open"]
  /\ wire' = [wire EXCEPT ![dialed + 1] = Append(@, Plain("register"))]
  /\ UNCHANGED <<ack, inbox, rd>>

\* min(delay * 2, max_reconnect_delay)
Doubled(d) == IF 2 * d <= MaxDelay THEN 2 * d ELSE MaxDelay

\* Back at `while self._running' with _ws None.
Retry == pc' = IF running THEN "sleep" ELSE "stopped"

-----------------------------------------------------------------------------
(* connect_and_register(), and the start of run(), which start() calls with *)
(* no await between                                                         *)

\* start() up to the dial; a payload json.dumps rejects raises before it.
Connect ==
  /\ pc = "init"
  /\ \/ pc' = "dial" /\ UNCHANGED budget
     \/ pc' = "failed" /\ Fault
  /\ UNCHANGED <<agentVars, hb, stopVars, linkVars, fails>>

DialRefused ==
  /\ pc = "dial"
  /\ Fault
  /\ pc' = "failed"
  /\ UNCHANGED <<agentVars, hb, stopVars, linkVars, fails>>

\* _ws is assigned before the register frame is answered.
DialOk ==
  /\ pc = "dial"
  /\ Dial
  /\ ws' = dialed'
  /\ pc' = "ack"
  /\ UNCHANGED <<registered, running, delay, cur, hb, stopVars, budget, fails>>

\* The answer "registered", then run() up to its first recv.
Registered ==
  /\ pc = "ack"
  /\ ack[ws] = "registered"
  /\ registered' = TRUE
  /\ running' = TRUE
  /\ hb' = "sleep"
  /\ delay' = InitDelay
  /\ pc' = "recv"
  /\ UNCHANGED <<ws, cur, stopVars, linkVars, budget, fails>>

\* Another type: the socket is closed, then RuntimeError.
Rejected ==
  /\ pc = "ack"
  /\ ack[ws] = "rejected"
  /\ st' = [st EXCEPT ![ws] = IF @ = "open" THEN "closing" ELSE @]
  /\ pc' = "refuse"
  /\ UNCHANGED <<agentVars, hb, stopVars, dialed, wire, ack, inbox, rd, budget, fails>>

RejectedClosed ==
  /\ pc = "refuse"
  /\ st[ws] = "closed"
  /\ pc' = "failed"
  /\ UNCHANGED <<agentVars, hb, stopVars, linkVars, budget, fails>>

\* An answer that is no JSON object, or a link lost before any answer: the
\* exception leaves connect_and_register() and nothing closes the socket.
AckFails ==
  /\ pc = "ack"
  /\ \/ ack[ws] = "garbage"
     \/ ack[ws] = "none" /\ st[ws] = "closed"
  /\ pc' = "failed"
  /\ UNCHANGED <<agentVars, hb, stopVars, linkVars, budget, fails>>

-----------------------------------------------------------------------------
(* run(): the receive loop *)

HasFrame == rd[ws] < Len(inbox[ws])
NextFrame == inbox[ws][rd[ws] + 1]
TakeFrame ==
  /\ rd' = [rd EXCEPT ![ws] = @ + 1]
  /\ UNCHANGED <<st, dialed, ack, inbox>>

\* A request enters the handler; the loop waits for it.
ReceiveRequest ==
  /\ pc = "recv"
  /\ HasFrame
  /\ NextFrame \in Request
  /\ TakeFrame
  /\ cur' = NextFrame
  /\ pc' = "handler"
  /\ UNCHANGED <<wire, ws, registered, running, delay, hb, stopVars, budget, fails>>

\* Faulty variant: the send raises after its write, and the handler's except
\* branch answers again.
HandlerReturnsTwice ==
  /\ pc = "handler"
  /\ Send([type |-> "response", id |-> cur])
  /\ delay' = InitDelay
  /\ UNCHANGED <<pc, cur, st, dialed, ack, inbox, rd, ws, registered, running, hb, stopVars,
                 budget, fails>>

\* The handler returns: a response, unless the result cannot be encoded.
HandlerReturns ==
  /\ pc = "handler"
  /\ IF cur \in Unencodable
       THEN UNCHANGED wire
       ELSE Send([type |-> "response", id |-> cur])
  /\ cur' = NoRequest
  /\ delay' = InitDelay
  /\ pc' = "recv"
  /\ UNCHANGED <<st, dialed, ack, inbox, rd, ws, registered, running, hb, stopVars,
                 budget, fails>>

\* Faulty variant: the exception is only logged.
HandlerRaisesSilently ==
  /\ pc = "handler"
  /\ cur' = NoRequest
  /\ delay' = InitDelay
  /\ pc' = "recv"
  /\ UNCHANGED <<linkVars, ws, registered, running, hb, stopVars, budget, fails>>

\* The handler raises: an error frame.
HandlerRaises ==
  /\ pc = "handler"
  /\ Send([type |-> "error", id |-> cur])
  /\ cur' = NoRequest
  /\ delay' = InitDelay
  /\ pc' = "recv"
  /\ UNCHANGED <<st, dialed, ack, inbox, rd, ws, registered, running, hb, stopVars,
                 budget, fails>>

ReceivePing ==
  /\ pc = "recv"
  /\ HasFrame
  /\ NextFrame = "ping"
  /\ TakeFrame
  /\ Send(Plain("pong"))
  /\ delay' = InitDelay
  /\ UNCHANGED <<pc, ws, registered, running, cur, hb, stopVars, budget, fails>>

\* Any other exception: the socket stays, the loop sleeps and receives again.
ReceiveJunk ==
  /\ pc = "recv"
  /\ HasFrame
  /\ NextFrame = "junk"
  /\ TakeFrame
  /\ pc' = IF running THEN "errsleep" ELSE "stopped"
  /\ UNCHANGED <<wire, agentVars, hb, stopVars, budget, fails>>

\* Faulty variant: an unexpected error reconnects, with the old socket open.
ErrorSleepReconnects ==
  /\ pc = "errsleep"
  /\ pc' = IF running THEN "redial" ELSE "stopped"
  /\ UNCHANGED <<agentVars, hb, stopVars, linkVars, budget, fails>>

ErrorSleepDone ==
  /\ pc = "errsleep"
  /\ pc' = IF running THEN "recv" ELSE "stopped"
  /\ UNCHANGED <<agentVars, hb, stopVars, linkVars, budget, fails>>

\* Faulty variant: _registered is cleared only by disconnect().
LinkLostStillRegistered ==
  /\ pc = "recv"
  /\ ~HasFrame
  /\ st[ws] = "closed"
  /\ IF running THEN pc' = "sleep" /\ ws' = None ELSE pc' = "stopped" /\ UNCHANGED ws
  /\ UNCHANGED <<registered, running, delay, cur, hb, stopVars, linkVars, budget, fails>>

\* The end of the link shows once the buffered frames are handled. While
\* running it is a loss: both fields are cleared before the first sleep.
LinkLost ==
  /\ pc = "recv"
  /\ ~HasFrame
  /\ st[ws] = "closed"
  /\ IF running
       THEN pc' = "sleep" /\ registered' = FALSE /\ ws' = None
       ELSE pc' = "stopped" /\ UNCHANGED <<registered, ws>>
  /\ UNCHANGED <<running, delay, cur, hb, stopVars, linkVars, budget, fails>>

-----------------------------------------------------------------------------
(* run(): the reconnection *)

\* The delay doubles after each sleep; _running is not read here.
SleepDone ==
  /\ pc = "sleep"
  /\ delay' = Doubled(delay)
  /\ pc' = "redial"
  /\ UNCHANGED <<ws, registered, running, cur, hb, stopVars, linkVars, budget, fails>>

\* Faulty variant: a refused dial ends run().
RedialRefusedGivesUp ==
  /\ pc = "redial"
  /\ Fault
  /\ fails' = fails + 1
  /\ pc' = "stopped"
  /\ UNCHANGED <<agentVars, hb, stopVars, linkVars>>

RedialRefused ==
  /\ pc = "redial"
  /\ Fault
  /\ fails' = fails + 1
  /\ Retry
  /\ UNCHANGED <<agentVars, hb, stopVars, linkVars>>

\* Faulty variant: _ws is the new socket before the bus has accepted it.
RedialOkEarly ==
  /\ pc = "redial"
  /\ Dial
  /\ ws' = dialed'
  /\ pc' = "reack"
  /\ UNCHANGED <<registered, running, delay, cur, hb, stopVars, budget, fails>>

\* The new socket stays in a local variable until the bus has accepted it.
RedialOk ==
  /\ pc = "redial"
  /\ Dial
  /\ pc' = "reack"
  /\ UNCHANGED <<agentVars, hb, stopVars, budget, fails>>

\* The payload became unencodable since start(): the new socket is closed.
RedialUnencodable ==
  /\ pc = "redial"
  /\ Fault
  /\ dialed < MaxConns
  /\ dialed' = dialed + 1
  /\ st' = [st EXCEPT ![dialed + 1] = "closing"]
  /\ pc' = "closing"
  /\ UNCHANGED <<agentVars, hb, stopVars, wire, ack, inbox, rd, fails>>

\* Faulty variant: the delay is not reset.
ReregisteredNoReset ==
  /\ pc = "reack"
  /\ ack[dialed] = "registered"
  /\ registered' = TRUE
  /\ ws' = dialed
  /\ fails' = 0
  /\ pc' = IF running THEN "recv" ELSE "stopped"
  /\ UNCHANGED <<running, delay, cur, hb, stopVars, linkVars, budget>>

\* Faulty variant: `while True' instead of `while self._running'.
ReregisteredForever ==
  /\ pc = "reack"
  /\ ack[dialed] = "registered"
  /\ registered' = TRUE
  /\ delay' = InitDelay
  /\ ws' = dialed
  /\ fails' = 0
  /\ pc' = "recv"
  /\ UNCHANGED <<running, cur, hb, stopVars, linkVars, budget>>

\* Only now does the connector carry the new socket.
Reregistered ==
  /\ pc = "reack"
  /\ ack[dialed] = "registered"
  /\ registered' = TRUE
  /\ delay' = InitDelay
  /\ ws' = dialed
  /\ fails' = 0
  /\ pc' = IF running THEN "recv" ELSE "stopped"
  /\ UNCHANGED <<running, cur, hb, stopVars, linkVars, budget>>

\* Faulty variant: a rejected socket is dropped without a close.
ReackRejectedLeaks ==
  /\ pc = "reack"
  /\ ack[dialed] = "rejected"
  /\ fails' = fails + 1
  /\ Retry
  /\ UNCHANGED <<agentVars, hb, stopVars, linkVars, budget>>

ReackRejected ==
  /\ pc = "reack"
  /\ ack[dialed] = "rejected"
  /\ st' = [st EXCEPT ![dialed] = IF @ = "open" THEN "closing" ELSE @]
  /\ pc' = "closing"
  /\ UNCHANGED <<agentVars, hb, stopVars, dialed, wire, ack, inbox, rd, budget, fails>>

\* No JSON object, or the link is lost: nothing closes new_ws.
ReackFails ==
  /\ pc = "reack"
  /\ \/ ack[dialed] = "garbage"
     \/ ack[dialed] = "none" /\ st[dialed] = "closed"
  /\ fails' = fails + 1
  /\ Retry
  /\ UNCHANGED <<agentVars, hb, stopVars, linkVars, budget>>

NewSocketClosed ==
  /\ pc = "closing"
  /\ st[dialed] = "closed"
  /\ fails' = fails + 1
  /\ Retry
  /\ UNCHANGED <<agentVars, hb, stopVars, linkVars, budget>>

-----------------------------------------------------------------------------
(* The heartbeat task, and publish() from any other task *)

Heartbeat ==
  /\ hb = "sleep"
  /\ IsOpen
  /\ Chat
  /\ Send(Plain("heartbeat"))
  /\ UNCHANGED <<pc, agentVars, hb, stopVars, st, dialed, ack, inbox, rd, fails>>

HeartbeatEnds ==
  /\ hb = "cancelled"
  /\ hb' = "done"
  /\ UNCHANGED <<pc, agentVars, stopVars, linkVars, budget, fails>>

\* Before start() has created the connector it raises; afterwards it writes or
\* drops, as send() does. report_gap() is the same.
Publish ==
  /\ Chat
  /\ pc # "init"
  /\ Send(Plain("publish"))
  /\ UNCHANGED <<pc, agentVars, hb, stopVars, st, dialed, ack, inbox, rd, fails>>

-----------------------------------------------------------------------------
(* disconnect() *)

\* After the heartbeat task has ended: deregister and close, or only clear.
Farewell(s) ==
  IF IsOpen
    THEN /\ Send(Plain("deregister"))
         /\ dpc' = [dpc EXCEPT ![s] = "close"]
         /\ UNCHANGED registered
    ELSE /\ dpc' = [dpc EXCEPT ![s] = "done"]
         /\ registered' = FALSE
         /\ UNCHANGED wire

\* Faulty variant: _running stays set.
DisconnectStillRunning(s) ==
  /\ dpc[s] = "idle"
  /\ pc # "init"
  /\ asked' = asked \cup {pc}
  /\ IF hb \in {"sleep", "cancelled"}
       THEN /\ hb' = "cancelled"
            /\ dpc' = [dpc EXCEPT ![s] = "hbwait"]
            /\ UNCHANGED <<wire, registered>>
       ELSE UNCHANGED hb /\ Farewell(s)
  /\ UNCHANGED <<pc, ws, running, delay, cur, dws, st, dialed, ack, inbox, rd, budget,
                 fails>>

Disconnect(s) ==
  /\ dpc[s] = "idle"
  /\ pc # "init"
  /\ running' = FALSE
  /\ asked' = asked \cup {pc}
  /\ IF hb \in {"sleep", "cancelled"}
       THEN /\ hb' = "cancelled"
            /\ dpc' = [dpc EXCEPT ![s] = "hbwait"]
            /\ UNCHANGED <<wire, registered>>
       ELSE UNCHANGED hb /\ Farewell(s)
  /\ UNCHANGED <<pc, ws, delay, cur, dws, st, dialed, ack, inbox, rd, budget, fails>>

Deregister(s) ==
  /\ dpc[s] = "hbwait"
  /\ hb = "done"
  /\ Farewell(s)
  /\ UNCHANGED <<pc, ws, running, delay, cur, hb, dws, asked, st, dialed, ack, inbox,
                 rd, budget, fails>>

\* _ws is read again after the send: None raises, and the exception is eaten.
CloseSocket(s) ==
  /\ dpc[s] = "close"
  /\ IF ws = None
       THEN /\ dpc' = [dpc EXCEPT ![s] = "done"]
            /\ registered' = FALSE
            /\ UNCHANGED <<dws, st>>
       ELSE /\ dpc' = [dpc EXCEPT ![s] = "closing"]
            /\ dws' = [dws EXCEPT ![s] = ws]
            /\ st' = [st EXCEPT ![ws] = IF @ = "open" THEN "closing" ELSE @]
            /\ UNCHANGED registered
  /\ UNCHANGED <<pc, ws, running, delay, cur, hb, asked, dialed, wire, ack, inbox, rd,
                 budget, fails>>

SocketClosed(s) ==
  /\ dpc[s] = "closing"
  /\ st[dws[s]] = "closed"
  /\ dpc' = [dpc EXCEPT ![s] = "done"]
  /\ registered' = FALSE
  /\ UNCHANGED <<pc, ws, running, delay, cur, hb, dws, asked, linkVars, budget, fails>>

-----------------------------------------------------------------------------
(* External: the bus and the network *)

HasSent(c, t) == \E i \in 1..Len(wire[c]) : wire[c][i].type = t

BusAnswers(c) ==
  /\ st[c] = "open"
  /\ ack[c] = "none"
  /\ HasSent(c, "register")
  /\ \/ ack' = [ack EXCEPT ![c] = "registered"] /\ UNCHANGED budget
     \/ \E a \in {"rejected", "garbage"} : ack' = [ack EXCEPT ![c] = a] /\ Fault
  /\ UNCHANGED <<pc, agentVars, hb, stopVars, st, dialed, wire, inbox, rd, fails>>

\* What the bus believes registered: accepted, and not deregistered.
BusHolds(c) == st[c] = "open" /\ ack[c] = "registered" /\ ~HasSent(c, "deregister")

Delivered(r) == \E c \in Conn : \E i \in 1..Len(inbox[c]) : inbox[c][i] = r

BusRequest(c, r) ==
  /\ BusHolds(c)
  /\ ~Delivered(r)
  /\ inbox' = [inbox EXCEPT ![c] = Append(@, r)]
  /\ UNCHANGED <<pc, agentVars, hb, stopVars, st, dialed, wire, ack, rd, budget, fails>>

BusControl(c, k) ==
  /\ BusHolds(c)
  /\ IF k = "ping" THEN Chat ELSE Fault
  /\ inbox' = [inbox EXCEPT ![c] = Append(@, k)]
  /\ UNCHANGED <<pc, agentVars, hb, stopVars, st, dialed, wire, ack, rd, fails>>

\* The bus or the network ends an open link, cleanly or not.
LinkDrops(c) ==
  /\ st[c] = "open"
  /\ Fault
  /\ st' = [st EXCEPT ![c] = "closed"]
  /\ UNCHANGED <<pc, agentVars, hb, stopVars, dialed, wire, ack, inbox, rd, fails>>

\* The close handshake ends, or its timeout does it.
CloseCompletes(c) ==
  /\ st[c] = "closing"
  /\ st' = [st EXCEPT ![c] = "closed"]
  /\ UNCHANGED <<pc, agentVars, hb, stopVars, dialed, wire, ack, inbox, rd, budget, fails>>

-----------------------------------------------------------------------------

ConnectStep ==
  \/ Connect \/ DialRefused \/ DialOk
  \/ Registered \/ Rejected \/ RejectedClosed \/ AckFails

ReceiveStep ==
  \/ ReceiveRequest \/ HandlerReturns \/ HandlerRaises
  \/ ReceivePing \/ ReceiveJunk \/ ErrorSleepDone \/ LinkLost

ReconnectStep ==
  \/ SleepDone \/ RedialRefused \/ RedialOk \/ RedialUnencodable
  \/ Reregistered \/ ReackRejected \/ ReackFails \/ NewSocketClosed

MainStep == ConnectStep \/ ReceiveStep \/ ReconnectStep

StopStep(s) == Deregister(s) \/ CloseSocket(s) \/ SocketClosed(s)

BusStep ==
  \E c \in Conn :
    \/ BusAnswers(c)
    \/ \E r \in Request : BusRequest(c, r)
    \/ \E k \in Control : BusControl(c, k)
    \/ LinkDrops(c)
    \/ CloseCompletes(c)

Next ==
  \/ MainStep
  \/ Heartbeat \/ HeartbeatEnds \/ Publish
  \/ \E s \in Stopper : Disconnect(s) \/ StopStep(s)
  \/ BusStep

Spec == Init /\ [][Next]_vars

(***************************************************************************)
(* The event loop runs every task that can run, so the main task, the      *)
(* cancelled heartbeat and a begun disconnect() proceed; handlers return;  *)
(* the bus answers a register frame on a link that stays up (nothing in    *)
(* the connector bounds that wait); a close handshake ends (the library's  *)
(* close timeout). Calls, faults, requests and chatter are unfair.         *)
(***************************************************************************)
Fairness ==
  /\ WF_vars(MainStep)
  /\ WF_vars(HeartbeatEnds)
  /\ \A s \in Stopper : WF_vars(StopStep(s))
  /\ \A c \in Conn : WF_vars(BusAnswers(c)) /\ WF_vars(CloseCompletes(c))

FairSpec == Spec /\ Fairness

================================================================================
