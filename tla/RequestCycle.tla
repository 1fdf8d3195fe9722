----------------------------- MODULE RequestCycle -----------------------------
(***************************************************************************)
(* Agents that call one another with BaseAgent.request()                   *)
(* (khonliang_bus/agent.py) from inside their handlers, while the receive  *)
(* loop of each (BusConnector.run) awaits the handler and takes nothing    *)
(* else. A call is an HTTP request to the bus, which holds it for its      *)
(* timeout; the caller's own read timeout is a grace longer. A reply goes  *)
(* over the agent's link, and send() drops it where it cannot go: the bus  *)
(* then holds a call that nothing will answer.                             *)
(*                                                                         *)
(* Time is discrete. It passes only when no task can run: while a message  *)
(* is on its way, a handler computes, or everybody waits. External: the    *)
(* bus, which sends well-formed frames, the network, how long a lost link  *)
(* takes to be replaced (Connector has the steps), and what the handlers   *)
(* do (Follows bounds what they call).                                     *)
(***************************************************************************)
EXTENDS Integers, Sequences

CONSTANTS
  Agent,      \* agents, one receive loop each
  Op,         \* their operations
  At,         \* At[o]: the agent that handles operation o
  Follows,    \* Follows[o]: the operations the handler of o may call
  Asked,      \* the operations that clients outside every handler call
  Timeouts,   \* Timeouts[o]: values of request()'s timeout in calls of o
  Grace,      \* what request() adds to it for the HTTP read timeout
  Lags,       \* how slow networks are: time a call and its answer spend there
  Unsendable, \* the operations with results that json.dumps may reject
  MaxCalls,   \* bound: calls
  MaxLosses,  \* bound: links lost
  MaxWork     \* bound: time that handlers spend computing, in all

ASSUME GraphAssumption ==
  /\ Op # {} /\ Asked \subseteq Op /\ Unsendable \subseteq Op
  /\ At \in [Op -> Agent] /\ Follows \in [Op -> SUBSET Op]

ASSUME TimeAssumption ==
  /\ Timeouts \in [Op -> SUBSET Int]
  /\ Lags # {} /\ Lags \subseteq Nat /\ Grace \in Nat
  /\ MaxCalls \in Nat /\ MaxWork \in Nat /\ MaxLosses \in Nat

Id == 1..MaxCalls
Nobody == 0   \* no request; as a caller, a client outside every handler

VARIABLES
  net,     \* the network's Lag in this behaviour, at most
  phase,   \* where each call is
  op,      \* its operation
  by,      \* the request whose handler made it
  limit,   \* its timeout
  age,     \* time its caller has waited
  held,    \* time the bus has held it
  lag,     \* time it may still spend on the network
  inbox,   \* frames of each agent's link that the receive loop has not taken
  cur,     \* the request whose handler each receive loop awaits
  up,      \* whether each agent's link is open
  losses,  \* links lost
  work,    \* time handlers have computed
  delayed  \* history: calls held up while time passed

calls == <<phase, op, by, limit>>
clocks == <<net, age, held, lag, work, delayed>>
loops == <<inbox, cur>>
links == <<up, losses>>
vars == <<calls, clocks, loops, links>>

\* A call the bus holds is open until its request or its reply is dropped.
Held == {"open", "lost"}
Envelopes == {"answer", "timeout"}
Transit == {"posted"} \cup Envelopes
Pending == Held \cup Transit
Phases == {"unused", "done", "gaveup"} \cup Pending

AtLeast0(t) == IF t < 0 THEN 0 ELSE t

\* Faulty variant: a negative timeout eats the grace.
ReadTimeoutSigned(c) == limit[c] + Grace

\* The HTTP read timeout of request().
ReadTimeout(c) == AtLeast0(limit[c]) + Grace

TypeOK ==
  /\ net \in Lags
  /\ phase \in [Id -> Phases]
  /\ op \in [Id -> Op]
  /\ by \in [Id -> Id \cup {Nobody}]
  /\ limit \in [Id -> Int]
  /\ age \in [Id -> Nat]
  /\ held \in [Id -> Nat]
  /\ lag \in [Id -> 0..net]
  /\ inbox \in [Agent -> Seq(Id)]
  /\ cur \in [Agent -> Id \cup {Nobody}]
  /\ up \in [Agent -> BOOLEAN]
  /\ losses \in 0..MaxLosses
  /\ work \in 0..MaxWork
  /\ delayed \subseteq Id

\* The data of a call that has not been made is anything: Post sets it.
Init ==
  /\ net \in Lags
  /\ phase = [c \in Id |-> "unused"]
  /\ op = [c \in Id |-> CHOOSE o \in Op : TRUE]
  /\ by = [c \in Id |-> Nobody]
  /\ limit = [c \in Id |-> 0]
  /\ age = [c \in Id |-> 0]
  /\ held = [c \in Id |-> 0]
  /\ lag = [c \in Id |-> net]
  /\ inbox = [a \in Agent |-> <<>>]
  /\ cur = [a \in Agent |-> Nobody]
  /\ up = [a \in Agent |-> TRUE]
  /\ losses = 0
  /\ work = 0
  /\ delayed = {}

-------------------------------------------------------------------------------
(***************************************************************************)
(* What waits for what.                                                    *)
(***************************************************************************)

Awaited(r) == {n \in Id : by[n] = r /\ phase[n] \in Pending}

\* A handler that runs and is not waiting for a call it made.
Computes(a) == cur[a] # Nobody /\ Awaited(cur[a]) = {}

Queued(a) == {inbox[a][i] : i \in DOMAIN inbox[a]}

Running == {cur[a] : a \in Agent} \ {Nobody}

\* What request r cannot end without: the held call its handler awaits, or,
\* while it is queued, the request that keeps its agent's loop busy.
Needs(r) ==
  IF r \in Running
  THEN {n \in Awaited(r) : phase[n] \in Held}
  ELSE {cur[a] : a \in {b \in Agent : r \in Queued(b)}} \ {Nobody}

IsKnot(S) == \A r \in S : Needs(r) \cap S # {}

\* The requests in a knot of waiting agents, or behind one.
Stuck == UNION {S \in SUBSET Id : IsKnot(S)}

\* The requests in a knot, lost ones, and those behind either.
HeldUp ==
  UNION {S \in SUBSET Id : \A r \in S : phase[r] = "lost" \/ Needs(r) \cap S # {}}

-------------------------------------------------------------------------------
(***************************************************************************)
(* request(): the HTTP call.                                               *)
(***************************************************************************)

\* The ids are taken in order.
Post(c, o, r) ==
  /\ phase[c] = "unused"
  /\ \A d \in Id : d < c => phase[d] # "unused"
  /\ phase' = [phase EXCEPT ![c] = "posted"]
  /\ op' = [op EXCEPT ![c] = o]
  /\ by' = [by EXCEPT ![c] = r]
  /\ \E t \in Timeouts[o] : limit' = [limit EXCEPT ![c] = t]
  /\ UNCHANGED <<clocks, loops, links>>

\* A client outside every handler.
Ask(c) == \E o \in Asked : Post(c, o, Nobody)

\* A handler awaits request().
HandlerCalls(a) ==
  /\ Computes(a)
  /\ \E c \in Id, o \in Follows[op[cur[a]]] : Post(c, o, cur[a])

\* The call is over, and so are its clocks.
Ends(c, how) ==
  /\ phase' = [phase EXCEPT ![c] = how]
  /\ age' = [age EXCEPT ![c] = 0]
  /\ held' = [held EXCEPT ![c] = 0]
  /\ lag' = [lag EXCEPT ![c] = net]
  /\ UNCHANGED <<op, by, limit, net, work, delayed, cur, links>>

\* Faulty variant: request() waits on when the envelope says timeout.
ReturnsAnswersOnly(c) == phase[c] = "answer" /\ Ends(c, "done") /\ UNCHANGED inbox

\* The envelope arrives, whatever it says; request() returns it.
Returns(c) == phase[c] \in Envelopes /\ Ends(c, "done") /\ UNCHANGED inbox

\* External: the bus forwards a call.
Reaches(c) == inbox' = [inbox EXCEPT ![At[op[c]]] = Append(@, c)]

\* httpx.ReadTimeout instead of an envelope. A request still on its way may
\* reach its agent all the same, and its handler runs for nobody.
GivesUp(c) ==
  /\ phase[c] \in Pending
  /\ age[c] >= ReadTimeout(c)
  /\ Ends(c, "gaveup")
  /\ UNCHANGED inbox \/ (phase[c] = "posted" /\ up[At[op[c]]] /\ Reaches(c))

-------------------------------------------------------------------------------
(***************************************************************************)
(* The bus: holds a call, forwards it, and answers it once.                *)
(***************************************************************************)

\* A frame written to a link that has ended is lost.
Forward(c) ==
  /\ phase[c] = "posted"
  /\ \/ /\ up[At[op[c]]]
        /\ phase' = [phase EXCEPT ![c] = "open"]
        /\ Reaches(c)
     \/ /\ ~up[At[op[c]]]
        /\ phase' = [phase EXCEPT ![c] = "lost"]
        /\ UNCHANGED inbox
  /\ UNCHANGED <<op, by, limit, clocks, cur, links>>

\* The bus may know that the agent's link has ended, and say so in an envelope.
Refuse(c) ==
  /\ phase[c] \in {"posted"} \cup Held
  /\ ~up[At[op[c]]]
  /\ phase' = [phase EXCEPT ![c] = "answer"]
  /\ UNCHANGED <<op, by, limit, clocks, loops, links>>

Expire(c) ==
  /\ phase[c] \in Held
  /\ held[c] >= limit[c]
  /\ phase' = [phase EXCEPT ![c] = "timeout"]
  /\ UNCHANGED <<op, by, limit, clocks, loops, links>>

-------------------------------------------------------------------------------
(***************************************************************************)
(* The receive loop and the handler it awaits.                             *)
(***************************************************************************)

\* Frames that arrived before the link ended are taken all the same.
Take(a) ==
  /\ cur[a] = Nobody /\ inbox[a] # <<>>
  /\ cur' = [cur EXCEPT ![a] = Head(inbox[a])]
  /\ inbox' = [inbox EXCEPT ![a] = Tail(@)]
  /\ UNCHANGED <<calls, clocks, links>>

\* Faulty variant: the loop does not survive an answer nobody waits for.
AnswerInTime(a, fits) ==
  /\ Computes(a) /\ phase[cur[a]] = "open"
  /\ phase' = [phase EXCEPT ![cur[a]] = IF fits /\ up[a] THEN "answer" ELSE "lost"]
  /\ cur' = [cur EXCEPT ![a] = Nobody]
  /\ UNCHANGED <<op, by, limit, clocks, inbox, links>>

\* send() drops a reply that does not fit JSON, or finds no open link; the bus
\* drops one that comes too late. Either way the loop goes on.
Answer(a, fits) ==
  /\ Computes(a)
  /\ phase' = [phase EXCEPT ![cur[a]] =
                 IF @ # "open" THEN @ ELSE IF fits /\ up[a] THEN "answer" ELSE "lost"]
  /\ cur' = [cur EXCEPT ![a] = Nobody]
  /\ UNCHANGED <<op, by, limit, clocks, inbox, links>>

\* The response of an operation with results json.dumps rejects may be dropped.
HandlerReturns(a) ==
  \E fits \in BOOLEAN : Answer(a, fits) /\ (fits \/ op[cur[a]] \in Unsendable)

\* Faulty variant: no error frame for a handler that raises.
HandlerRaisesSilently(a) ==
  /\ Computes(a)
  /\ cur' = [cur EXCEPT ![a] = Nobody]
  /\ UNCHANGED <<calls, clocks, inbox, links>>

\* An error frame is text, which always fits.
HandlerRaises(a) == Answer(a, TRUE)

-------------------------------------------------------------------------------
(***************************************************************************)
(* The agents' links.                                                      *)
(***************************************************************************)

Dropped(a, n) == {inbox[a][i] : i \in (n + 1)..Len(inbox[a])}

\* A link ends; all but the first n frames on it never arrive.
LinkDrops(a) ==
  /\ up[a] /\ losses < MaxLosses
  /\ up' = [up EXCEPT ![a] = FALSE]
  /\ losses' = losses + 1
  /\ \E n \in 0..Len(inbox[a]) :
       /\ inbox' = [inbox EXCEPT ![a] = SubSeq(@, 1, n)]
       /\ phase' = [c \in Id |-> IF phase[c] = "open" /\ c \in Dropped(a, n)
                                   THEN "lost" ELSE phase[c]]
  /\ UNCHANGED <<op, by, limit, clocks, cur>>

\* run() has noticed, after the handler and the frames before the end, and has
\* registered on a new link.
LinkRestored(a) ==
  /\ ~up[a] /\ cur[a] = Nobody /\ inbox[a] = <<>>
  /\ up' = [up EXCEPT ![a] = TRUE]
  /\ UNCHANGED <<calls, clocks, loops, losses>>

-------------------------------------------------------------------------------
(***************************************************************************)
(* Time. It passes when every loop is busy or has nothing to take, nothing *)
(* is due, and what is under way may take longer.                          *)
(***************************************************************************)

InTransit(c) == phase[c] \in Transit
Due(c) ==
  \/ phase[c] \in Pending /\ age[c] >= ReadTimeout(c)
  \/ phase[c] \in Held /\ held[c] >= limit[c]

Tick ==
  /\ \E c \in Id : phase[c] \in Pending
  /\ \A c \in Id : ~Due(c) /\ (InTransit(c) => lag[c] > 0)
  /\ \A a \in Agent : cur[a] = Nobody => inbox[a] = <<>>
  /\ work' = IF \E a \in Agent : Computes(a) THEN work + 1 ELSE work
  /\ work' <= MaxWork
  /\ age' = [c \in Id |-> IF phase[c] \in Pending THEN age[c] + 1 ELSE age[c]]
  /\ held' = [c \in Id |-> IF phase[c] \in Held THEN held[c] + 1 ELSE held[c]]
  /\ lag' = [c \in Id |-> IF InTransit(c) THEN lag[c] - 1 ELSE lag[c]]
  /\ delayed' = delayed \cup HeldUp
  /\ UNCHANGED <<net, calls, loops, links>>

-------------------------------------------------------------------------------
HandlerEnds(a) == HandlerReturns(a) \/ HandlerRaises(a)
CallStep(c) == Forward(c) \/ Expire(c) \/ Returns(c) \/ GivesUp(c)

Next ==
  \/ \E c \in Id : Ask(c) \/ CallStep(c) \/ Refuse(c)
  \/ \E a \in Agent : HandlerCalls(a) \/ Take(a) \/ HandlerEnds(a)
  \/ \E a \in Agent : LinkDrops(a) \/ LinkRestored(a)
  \/ Tick

\* The event loops run what is ready, messages arrive, timers fire and time
\* passes; a handler that only computes comes to an end. No link has to last, or
\* to come back.
Fairness ==
  /\ \A c \in Id : WF_vars(CallStep(c))
  /\ \A a \in Agent : WF_vars(Take(a)) /\ WF_vars(HandlerEnds(a))
  /\ WF_vars(Tick)

Spec == Init /\ [][Next]_vars /\ Fairness
-------------------------------------------------------------------------------
(***************************************************************************)
(* Properties.                                                             *)
(***************************************************************************)

\* On a network faster than the grace, the HTTP read timeout never beats the
\* bus: the caller gets the envelope that says "timeout", with its trace id,
\* not httpx.ReadTimeout (agent.py:1598).
EnvelopeFirst == net < Grace => \A c \in Id : phase[c] # "gaveup"

\* A call given more time than the network and all handlers use can expire
\* only if it was held up: by agents that wait for one another, or by a call
\* whose request or reply was dropped, as not JSON or with a link. Neither an
\* error, nor a late answer, nor a request whose caller has given up, nor what
\* was dropped elsewhere, costs another call its time.
OnlyHeldUpExpire ==
  \A c \in Id :
    phase[c] = "timeout" /\ limit[c] > MaxCalls * net + MaxWork => c \in delayed

\* Every call comes to an end for its caller, in a cycle, on a slow network and
\* where its reply was dropped, too.
CallsEnd == \A c \in Id : phase[c] = "posted" ~> phase[c] \in {"done", "gaveup"}

\* No agent is blocked for good: its receive loop gets its turn again.
AgentsFree == \A a \in Agent : []<>(cur[a] = Nobody)
===============================================================================
