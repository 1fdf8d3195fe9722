------------------------------- MODULE Lifecycle -------------------------------
(***************************************************************************)
(* BaseAgent.start() and shutdown() (khonliang_bus/agent.py): the life of  *)
(* an agent, with its HTTP client, its connector and the tasks that stop   *)
(* it. Signal handlers and callers of shutdown() are the same: tasks that  *)
(* run shutdown() once.                                                    *)
(*                                                                         *)
(* The connector is what Connector.tla shows of it: a link that is up, is  *)
(* being replaced, or is closed by disconnect(). External: the bus, the    *)
(* network, and the subclass's skills and welcome.                         *)
(***************************************************************************)
EXTENDS Integers

CONSTANTS
  Stopper,    \* tasks that call shutdown()
  MaxStarts,  \* bound: calls of start() on one agent
  MaxLosses   \* bound: links lost

ASSUME BoundsAssumption == MaxStarts \in Nat \ {0} /\ MaxLosses \in Nat

VARIABLES
  pc,       \* where the task of start() waits
  cause,    \* what made start() fail
  welcome,  \* start()'s local welcome
  http,     \* _http: open or closed
  link,     \* the connector's link to the bus
  running,  \* the connector's _running
  spc,      \* where each shutdown() waits
  connector,  \* whether _connector is set
  starts,   \* calls of start()
  losses,   \* losses spent
  asked     \* history: the situation at each call of shutdown()

vars ==
  <<pc, cause, welcome, http, link, running, spc, connector, starts, losses, asked>>

Ended == {"raised", "cancelled", "ended"}
Pcs == {"idle", "welcome", "connecting", "failing", "running", "leaving"} \cup Ended
Links == {"off", "up", "retry", "closing", "down"}

\* Where a shutdown() finds the agent: in its message loop, the link tells.
Situation == IF pc = "running" THEN link ELSE pc

TypeOK ==
  /\ pc \in Pcs
  /\ cause \in {"none", "setup", "connect", "cancel"}
  /\ welcome \in {"none", "dict"}
  /\ http \in {"open", "closed"}
  /\ link \in Links
  /\ running \in BOOLEAN
  /\ spc \in [Stopper -> {"idle", "disconnect", "http", "done"}]
  /\ connector \in BOOLEAN
  /\ starts \in 0..MaxStarts
  /\ losses \in 0..MaxLosses
  /\ asked \subseteq Pcs \cup Links

\* __init__ opens the HTTP client.
Init ==
  /\ pc = "idle"
  /\ cause = "none"
  /\ welcome = "none"
  /\ http = "open"
  /\ link = "off"
  /\ running = FALSE
  /\ spc = [s \in Stopper |-> "idle"]
  /\ connector = FALSE
  /\ starts = 0
  /\ losses = 0
  /\ asked = {}

-----------------------------------------------------------------------------
(* start() *)

\* The skills, the new connector and the launch fields, up to the welcome. A
\* subclass's register_skills() may raise, before the connector is made. A failed
\* start() may be repeated on the same agent.
Start ==
  /\ pc \in {"idle", "raised"}
  /\ starts < MaxStarts
  /\ starts' = starts + 1
  /\ welcome' = "none"
  /\ \/ /\ pc' = "raised" /\ cause' = "setup"
        /\ UNCHANGED <<connector, running, link>>
     \/ /\ pc' = "welcome" /\ cause' = "none"
        /\ connector' = TRUE /\ running' = FALSE /\ link' = "off"
  /\ UNCHANGED <<http, spc, losses, asked>>

\* What handle_welcome, or a subclass's, comes back with.
Candidate == {"dict", "not_dict", "unencodable"}

\* Only a dict that json.dumps accepts goes into the registration.
WelcomeReturns ==
  /\ pc = "welcome"
  /\ \E c \in Candidate : welcome' = IF c = "dict" THEN c ELSE "none"
  /\ pc' = "connecting"
  /\ UNCHANGED <<cause, http, link, running, spc, connector, starts, losses, asked>>

\* Faulty variant: the exception of handle_welcome leaves start().
WelcomeRaisesThrough ==
  /\ pc = "welcome"
  /\ pc' = "raised"
  /\ cause' = "setup"
  /\ UNCHANGED <<welcome, http, link, running, spc, connector, starts, losses, asked>>

WelcomeRaises ==
  /\ pc = "welcome"
  /\ pc' = "connecting"
  /\ UNCHANGED <<cause, welcome, http, link, running, spc, connector, starts, losses, asked>>

\* connect_and_register() raises; a CancelledError passes `except Exception'.
ConnectFails ==
  /\ pc = "connecting"
  /\ pc' = "failing"
  /\ cause' = "connect"
  /\ UNCHANGED <<welcome, http, link, running, spc, connector, starts, losses, asked>>

FailedHttpCloses ==
  /\ pc = "failing"
  /\ http' = "closed"
  /\ pc' = "raised"
  /\ UNCHANGED <<cause, welcome, link, running, spc, connector, starts, losses, asked>>

\* start() is cancelled before run(): neither `except' nor `finally' is there.
CancelledEarly ==
  /\ pc \in {"welcome", "connecting"}
  /\ pc' = "cancelled"
  /\ UNCHANGED <<cause, welcome, http, link, running, spc, connector, starts, losses, asked>>

\* From the bus's answer to the first receive of run() nothing suspends: the
\* signal handlers are installed and _running is set in one step.
Connected ==
  /\ pc = "connecting"
  /\ pc' = "running"
  /\ link' = "up"
  /\ running' = TRUE
  /\ UNCHANGED <<cause, welcome, http, spc, connector, starts, losses, asked>>

LinkLost ==
  /\ pc = "running"
  /\ link = "up"
  /\ losses < MaxLosses
  /\ losses' = losses + 1
  /\ link' = "retry"
  /\ UNCHANGED <<pc, cause, welcome, http, running, spc, connector, starts, asked>>

\* Faulty variant: run() goes on after a stop it met while reconnecting.
RelinkedForever ==
  /\ pc = "running"
  /\ link = "retry"
  /\ link' = "up"
  /\ UNCHANGED <<pc, cause, welcome, http, running, spc, connector, starts, losses, asked>>

\* The reconnection ends, with a new link or without, and only then is _running
\* looked at.
Relinked ==
  /\ pc = "running"
  /\ link = "retry"
  /\ link' = "up"
  /\ pc' = IF running THEN "running" ELSE "leaving"
  /\ UNCHANGED <<cause, welcome, http, running, spc, connector, starts, losses, asked>>

RelinkFails ==
  /\ pc = "running"
  /\ link = "retry"
  /\ losses < MaxLosses
  /\ losses' = losses + 1
  /\ pc' = IF running THEN "running" ELSE "leaving"
  /\ UNCHANGED <<cause, welcome, http, link, running, spc, connector, starts, asked>>

\* The link that disconnect() closed ends run().
RunEnds ==
  /\ pc = "running"
  /\ link = "down"
  /\ pc' = "leaving"
  /\ UNCHANGED <<cause, welcome, http, link, running, spc, connector, starts, losses, asked>>

\* run() is cancelled: the link stays, with the heartbeat task.
CancelledRunning ==
  /\ pc = "running"
  /\ pc' = "leaving"
  /\ cause' = "cancel"
  /\ UNCHANGED <<welcome, http, link, running, spc, connector, starts, losses, asked>>

\* Faulty variant: the `finally' is missing.
LeaveHttpOpen ==
  /\ pc = "leaving"
  /\ pc' = IF cause = "cancel" THEN "cancelled" ELSE "ended"
  /\ UNCHANGED <<cause, welcome, http, link, running, spc, connector, starts, losses, asked>>

\* The `finally' of run().
Leave ==
  /\ pc = "leaving"
  /\ http' = "closed"
  /\ pc' = IF cause = "cancel" THEN "cancelled" ELSE "ended"
  /\ UNCHANGED <<cause, welcome, link, running, spc, connector, starts, losses, asked>>

-----------------------------------------------------------------------------
(* shutdown() *)

\* Faulty variant: the HTTP client is closed before the connector is asked.
ShutdownHttpFirst(s) ==
  /\ spc[s] = "idle"
  /\ asked' = asked \cup {Situation}
  /\ http' = "closed"
  /\ spc' = [spc EXCEPT ![s] = "disconnect"]
  /\ UNCHANGED <<pc, cause, welcome, link, running, connector, starts, losses>>

\* disconnect() up to its first await: a link that is up begins to close, one
\* that is being replaced has no socket to close.
Shutdown(s) ==
  /\ spc[s] = "idle"
  /\ asked' = asked \cup {Situation}
  /\ IF ~connector
       THEN spc' = [spc EXCEPT ![s] = "http"] /\ UNCHANGED <<running, link>>
       ELSE /\ spc' = [spc EXCEPT ![s] = "disconnect"]
            /\ running' = FALSE
            /\ link' = IF link = "up" THEN "closing" ELSE link
  /\ UNCHANGED <<pc, cause, welcome, http, connector, starts, losses>>

LinkClosed ==
  /\ link = "closing"
  /\ link' = "down"
  /\ UNCHANGED <<pc, cause, welcome, http, running, spc, connector, starts, losses, asked>>

DisconnectReturns(s) ==
  /\ spc[s] = "disconnect"
  /\ link # "closing"
  /\ spc' = [spc EXCEPT ![s] = "http"]
  /\ UNCHANGED <<pc, cause, welcome, http, link, running, connector, starts, losses, asked>>

HttpCloses(s) ==
  /\ spc[s] = "http"
  /\ http' = "closed"
  /\ spc' = [spc EXCEPT ![s] = "done"]
  /\ UNCHANGED <<pc, cause, welcome, link, running, connector, starts, losses, asked>>

-----------------------------------------------------------------------------

StartStep ==
  \/ WelcomeReturns \/ WelcomeRaises \/ Connected \/ ConnectFails \/ FailedHttpCloses
  \/ Relinked \/ RelinkFails \/ RunEnds \/ Leave

ShutdownStep(s) == DisconnectReturns(s) \/ HttpCloses(s)

Next ==
  \/ Start \/ CancelledEarly \/ CancelledRunning \/ StartStep \/ LinkLost \/ LinkClosed
  \/ \E s \in Stopper : Shutdown(s) \/ ShutdownStep(s)

Spec == Init /\ [][Next]_vars

\* The event loop runs what can run, and a close handshake ends. Nobody has to
\* start, stop or cancel the agent.
FairSpec ==
  /\ Spec
  /\ WF_vars(StartStep)
  /\ WF_vars(LinkClosed)
  /\ \A s \in Stopper : WF_vars(ShutdownStep(s))

-----------------------------------------------------------------------------
(* Properties *)

\* Situations before the message loop, where shutdown() is undone by run(), and
\* the reconnection, where it goes unnoticed.
Untimely == {"idle", "raised", "welcome", "connecting", "failing", "retry"}

\* An agent that serves requests has its HTTP client: on a first start() it is
\* closed only after the link is, unless shutdown() came at an untimely moment.
\* A repeated start() serves with the client the failed one closed.
ServesWhole ==
  pc = "running" /\ link = "up" /\ starts = 1 /\ asked \cap Untimely = {} => http = "open"

\* However start() ends once it has called connect_and_register(), short of a
\* cancellation there, the HTTP client is closed ("Wrap in try/finally so _http
\* is cleaned up on failure", agent.py:1251).
EndsClean ==
  pc = "ended" \/ (pc \in {"raised", "cancelled"} /\ cause \in {"connect", "cancel"})
    => http = "closed"

\* A bad welcome never holds an agent off the bus (agent.py:1182): whichever way
\* it fails, start() goes on until the bus decides.
WelcomeNeverBlocks ==
  pc = "welcome" ~> (pc \in {"running", "cancelled"} \/ cause = "connect")

\* A shutdown() during the message loop ends start(), on a link that works and
\* on one that is being replaced.
ShutdownEnds == (asked \cap {"up", "retry"} # {}) ~> (pc \in Ended)

\* The connector's life, as AgentLink has it; a cancelled run() stays where it was.
Phase ==
  CASE link = "off" -> "off"
    [] link # "off" /\ pc # "running" /\ cause # "cancel" -> "over"
    [] OTHER -> IF link = "retry" THEN "lost" ELSE "up"

Link == INSTANCE AgentLink
  WITH phase <- Phase, running <- running, registered <- link = "up", asked <- asked # {}

\* The link this module gives the connector is one that AgentLink allows, and
\* so one of those that Connector implements: no link is won, lost or given up
\* in another way, whenever shutdown() is called and however start() fails, is
\* repeated or cancelled.
LinkAsPromised == Link!Spec

\* The argument for ServesWhole: after timely shutdowns of a first start(), each
\* is as far as the link has let it come, and the HTTP client is closed last.
Timely == starts <= 1 /\ asked \cap Untimely = {}
Leaving == pc \in Ended \cup {"leaving"}

StopInv ==
  /\ pc = "idle" <=> starts = 0
  /\ pc \in {"welcome", "connecting", "running"} => connector
  /\ pc = "running" => link # "off"
  /\ Timely => \A s \in Stopper :
       /\ spc[s] = "disconnect" => Leaving \/ (pc = "running" /\ link \in {"closing", "down"})
       /\ spc[s] \in {"http", "done"} => Leaving \/ (pc = "running" /\ link = "down")
  /\ Timely /\ http = "closed" => Leaving \/ (pc = "running" /\ link = "down")

\* The argument for EndsClean: nothing has failed before the bus is asked.
CauseInv == pc \in {"welcome", "connecting", "running"} => cause = "none"

\* The argument for LinkAsPromised: _running says whether run() will go on.
RunInv ==
  /\ link \in {"off", "closing", "down"} => ~running
  /\ pc = "running" /\ link = "up" => running
  /\ pc \in {"welcome", "connecting"} => connector
  /\ link # "off" => connector /\ pc \in {"running", "leaving", "ended", "cancelled"}

================================================================================
