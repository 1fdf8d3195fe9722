---------------------------- MODULE ConnectorProofs ----------------------------
(***************************************************************************)
(* What holds of the connector for any number of connections, requests and *)
(* shutdown tasks and any budget of faults: an honest registration, sent   *)
(* first; exact delays; no socket left open but the known one; a stop that *)
(* is final; replies in order, at most one for each request; and that it   *)
(* implements AgentLink.                                                   *)
(***************************************************************************)
EXTENDS ConnectorProperties, WellFoundedInduction, TLAPS

-----------------------------------------------------------------------------
(* Powers of two. Induction is the least counterexample, which the order of *)
(* the naturals has by WellFoundedInduction.                                *)

\* A set of naturals that is not empty has a least element.
LEMMA LeastNatural ==
  ASSUME NEW T, T \subseteq Nat, T # {}
  PROVE  \E x \in T : \A y \in T : x <= y
  <1> DEFINE R == OpToRel(<, Nat)
  <1>1. IsWellFoundedOn(R, Nat)
    BY NatLessThanWellFounded
  <1>2. \A x, y \in Nat : x < y => <<x, y>> \in R
    BY DEF OpToRel
  <1> HIDE DEF R
  <1>3. PICK x \in T : \A y \in T : ~ (<<y, x>> \in R)
    BY <1>1, WFMin
  <1>4. \A y \in T : ~(y < x)
    BY <1>2, <1>3
  <1> QED BY <1>4

\* Pow2 is what its definition says: there is such a function.
Powers(n) == {g \in [Nat -> Nat] : g[0] = 1 /\ \A i \in 1..n : g[i] = 2 * g[i - 1]}

LEMMA PowersExist == \A n \in Nat : Powers(n) # {}
  <1> SUFFICES ASSUME {n \in Nat : Powers(n) = {}} # {} PROVE FALSE
    OBVIOUS
  <1>1. PICK n \in Nat : Powers(n) = {} /\ \A m \in Nat : Powers(m) = {} => n <= m
    BY LeastNatural
  <1>2. CASE n = 0
    <2>1. [i \in Nat |-> 1] \in Powers(n)
      BY <1>2 DEF Powers
    <2> QED
      BY <1>1, <2>1
  <1>3. CASE n # 0
    <2>1. n - 1 \in Nat /\ Powers(n - 1) # {}
      BY <1>1, <1>3
    <2>2. PICK g \in Powers(n - 1) : TRUE
      BY <2>1
    <2> DEFINE h == [g EXCEPT ![n] = 2 * g[n - 1]]
    <2>3. g \in [Nat -> Nat] /\ g[n - 1] \in Nat
      BY <2>1, <2>2 DEF Powers
    <2>4. \A i \in Nat : h[i] = IF i = n THEN 2 * g[n - 1] ELSE g[i]
      BY <2>3
    <2>5. h \in [Nat -> Nat] /\ h[0] = 1
      BY <1>3, <2>2, <2>3 DEF Powers
    <2>6. \A i \in 1..n : h[i] = 2 * h[i - 1]
      BY <1>3, <2>2, <2>4 DEF Powers
    <2> QED
      BY <1>1, <2>5, <2>6 DEF Powers
  <1> QED
    BY <1>2, <1>3

LEMMA PowersAgree ==
  ASSUME NEW m \in Nat, NEW n \in Nat, NEW g \in Powers(m), NEW h \in Powers(n)
  PROVE  \A i \in Nat : i <= m /\ i <= n => g[i] = h[i]
  <1> DEFINE T == {i \in Nat : i <= m /\ i <= n /\ g[i] # h[i]}
  <1> SUFFICES ASSUME T # {} PROVE FALSE
    OBVIOUS
  <1>1. PICK i \in T : \A j \in T : i <= j
    BY LeastNatural
  <1>2. i # 0
    BY DEF Powers
  <1>3. i - 1 \in Nat /\ i - 1 \notin T
    BY <1>1, <1>2
  <1>4. g[i - 1] = h[i - 1]
    BY <1>3
  <1>5. g[i] = 2 * g[i - 1] /\ h[i] = 2 * h[i - 1]
    BY <1>2 DEF Powers
  <1> QED
    BY <1>4, <1>5

LEMMA Pow2Equation ==
  Pow2 = [n \in Nat |-> IF n = 0 THEN 1 ELSE 2 * Pow2[n - 1]]
  <1> DEFINE f == [n \in Nat |-> (CHOOSE g \in Powers(n) : TRUE)[n]]
  <1>1. ASSUME NEW n \in Nat, NEW g \in Powers(n)
        PROVE  \A i \in 0..n : f[i] = g[i]
    <2> TAKE i \in 0..n
    <2>1. (CHOOSE h \in Powers(i) : TRUE) \in Powers(i)
      BY PowersExist
    <2>2. (CHOOSE h \in Powers(i) : TRUE)[i] = g[i]
      BY <1>1, <2>1, PowersAgree
    <2> QED
      BY <2>2
  <1>2. \A n \in Nat : f[n] = IF n = 0 THEN 1 ELSE 2 * f[n - 1]
    <2> TAKE n \in Nat
    <2>1. PICK g \in Powers(n) : TRUE
      BY PowersExist
    <2>2. f[n] = g[n] /\ (n # 0 => f[n - 1] = g[n - 1])
      BY <1>1, <2>1
    <2> HIDE DEF f
    <2> QED
      BY <2>1, <2>2 DEF Powers
  <1>3. f = [n \in Nat |-> IF n = 0 THEN 1 ELSE 2 * f[n - 1]]
    <2> HIDE DEF f
    <2>1. f \in [Nat -> {f[n] : n \in Nat}]
      BY DEF f
    <2> QED
      BY <1>2, <2>1
  <1> HIDE DEF f
  <1> QED
    BY <1>3 DEF Pow2

LEMMA Pow2Doubles ==
  /\ Pow2[0] = 1
  /\ \A n \in Nat : Pow2[n] \in Nat /\ Pow2[n + 1] = 2 * Pow2[n]
  <1>1. \A n \in Nat : Pow2[n] = IF n = 0 THEN 1 ELSE 2 * Pow2[n - 1]
    BY Pow2Equation
  <1> DEFINE T == {n \in Nat : Pow2[n] \notin Nat}
  <1>2. T = {}
    <2> SUFFICES ASSUME T # {} PROVE FALSE
      OBVIOUS
    <2>1. PICK n \in T : \A m \in T : n <= m
      BY LeastNatural
    <2>2. n # 0 /\ n - 1 \in Nat /\ n - 1 \notin T
      BY <1>1, <2>1
    <2> QED
      BY <1>1, <2>2
  <1> QED
    BY <1>1, <1>2

\* Doubling the delay after a failure is one power of two more, under the cap.
LEMMA BackoffDoubles ==
  ASSUME NEW n \in Nat
  PROVE  /\ Backoff(0) = InitDelay
         /\ Doubled(Backoff(n)) = Backoff(n + 1)
  <1>1. Pow2[0] = 1 /\ Pow2[n] \in Nat /\ Pow2[n + 1] = 2 * Pow2[n]
    BY Pow2Doubles
  <1>2. InitDelay * 1 = InitDelay
    BY DelayAssumption
  <1>3. \A p \in Nat : InitDelay * p \in Nat /\ InitDelay * (2 * p) = 2 * (InitDelay * p)
    BY DelayAssumption
  <1> DEFINE d == InitDelay * Pow2[n]
  <1>4. d \in Nat /\ InitDelay * Pow2[n + 1] = 2 * d
    BY <1>1, <1>3
  <1>5. Backoff(n) = (IF d <= MaxDelay THEN d ELSE MaxDelay)
        /\ Backoff(n + 1) = (IF 2 * d <= MaxDelay THEN 2 * d ELSE MaxDelay)
    BY <1>4 DEF Backoff
  <1> HIDE DEF d
  <1>6. Doubled(Backoff(n)) = Backoff(n + 1)
    BY <1>4, <1>5, DelayAssumption DEF Doubled
  <1> QED
    BY <1>1, <1>2, <1>6, DelayAssumption DEF Backoff

-----------------------------------------------------------------------------
USE BoundsAssumption, RequestAssumption, DelayAssumption DEF Conn, None

-----------------------------------------------------------------------------
(* Helpers *)

\* Frames without a request are frames.
LEMMA PlainTyped ==
  ASSUME NEW t \in FrameType
  PROVE  Plain(t) \in Frame
  BY DEF Plain, Frame

\* send() writes a well-formed frame, or nothing.
LEMMA SendTyped ==
  ASSUME TypeOK, NEW f \in Frame, Send(f)
  PROVE  wire' \in [Conn -> Seq(Frame)]
  <1>1. CASE IsOpen
    <2>1. ws \in Conn /\ wire[ws] \in Seq(Frame)
      BY <1>1 DEF TypeOK, IsOpen
    <2>2. Append(wire[ws], f) \in Seq(Frame)
      BY <2>1
    <2> QED BY <1>1, <2>1, <2>2 DEF TypeOK, Send
  <1>2. CASE ~IsOpen
    BY <1>2 DEF TypeOK, Send
  <1> QED BY <1>1, <1>2

\* The backoff never leaves its range.
LEMMA DoubledTyped ==
  ASSUME NEW d \in InitDelay..MaxDelay
  PROVE  Doubled(d) \in InitDelay..MaxDelay
  BY DEF Doubled

-----------------------------------------------------------------------------
(* Types *)

LEMMA TypeInit == Init => TypeOK
  <1> SUFFICES ASSUME Init PROVE TypeOK
    OBVIOUS
  <1>1. wire \in [Conn -> Seq(Frame)]
    <2>1. <<>> \in Seq(Frame)
      OBVIOUS
    <2> QED BY <2>1 DEF Init
  <1>2. inbox \in [Conn -> Seq(Request \cup Control)]
    <2>1. <<>> \in Seq(Request \cup Control)
      OBVIOUS
    <2> QED BY <2>1 DEF Init
  <1>3. delay \in InitDelay..MaxDelay /\ rd \in [Conn -> Nat]
    BY DEF Init
  <1> QED BY <1>1, <1>2, <1>3 DEF Init, TypeOK, Pcs, ConnectPcs

\* Every step of every task, of the bus and of the network keeps the types.
LEMMA TypeNext == TypeOK /\ [Next]_vars => TypeOK'
  <1> SUFFICES ASSUME TypeOK, [Next]_vars PROVE TypeOK'
    OBVIOUS
  <1> USE DEF TypeOK, Pcs, ConnectPcs, UpPcs, DownPcs, agentVars, linkVars, stopVars, budget
  <1>1. ASSUME ConnectStep PROVE TypeOK'
    <2>1. CASE Connect
      <3>1. CASE pc' = "dial" /\ UNCHANGED budget BY <2>1, <3>1 DEF Connect
      <3>2. CASE pc' = "failed" /\ Fault BY <2>1, <3>2 DEF Connect, Fault
      <3> QED BY <2>1, <3>1, <3>2 DEF Connect
    <2>2. CASE DialRefused BY <2>2 DEF DialRefused, Fault
    <2>3. CASE DialOk
      <3>1. Append(wire[dialed + 1], Plain("register")) \in Seq(Frame)
        BY <2>3, PlainTyped DEF DialOk, Dial, FrameType
      <3> QED BY <2>3, <3>1 DEF DialOk, Dial
    <2>4. CASE Registered BY <2>4 DEF Registered
    <2>5. CASE Rejected BY <2>5 DEF Rejected
    <2>6. CASE RejectedClosed BY <2>6 DEF RejectedClosed
    <2>7. CASE AckFails BY <2>7 DEF AckFails
    <2> QED BY <1>1, <2>1, <2>2, <2>3, <2>4, <2>5, <2>6, <2>7 DEF ConnectStep
  <1>2. ASSUME ReceiveStep PROVE TypeOK'
    <2>0. ASSUME TakeFrame PROVE rd' \in [Conn -> Nat]
      <3>1. CASE ws \in Conn BY <2>0, <3>1 DEF TakeFrame
      <3>2. CASE ws \notin Conn BY <2>0, <3>2 DEF TakeFrame
      <3> QED BY <3>1, <3>2
    <2>1. CASE ReceiveRequest
      <3>1. cur' \in Request
        BY <2>1 DEF ReceiveRequest
      <3> QED BY <2>0, <2>1, <3>1 DEF ReceiveRequest, TakeFrame
    <2>2. CASE HandlerReturns
      <3>1. [type |-> "response", id |-> cur] \in Frame
        BY DEF Frame, FrameType
      <3>2. wire' \in [Conn -> Seq(Frame)]
        BY <2>2, <3>1, SendTyped DEF HandlerReturns
      <3>3. delay' \in InitDelay..MaxDelay
        BY <2>2 DEF HandlerReturns
      <3> QED BY <2>2, <3>2, <3>3 DEF HandlerReturns
    <2>3. CASE HandlerRaises
      <3>1. [type |-> "error", id |-> cur] \in Frame
        BY DEF Frame, FrameType
      <3>2. wire' \in [Conn -> Seq(Frame)]
        BY <2>3, <3>1, SendTyped DEF HandlerRaises
      <3> QED BY <2>3, <3>2 DEF HandlerRaises
    <2>4. CASE ReceivePing
      <3>1. wire' \in [Conn -> Seq(Frame)]
        BY <2>4, PlainTyped, SendTyped DEF ReceivePing, FrameType
      <3>2. delay' \in InitDelay..MaxDelay
        BY <2>4 DEF ReceivePing
      <3> QED BY <2>0, <2>4, <3>1, <3>2 DEF ReceivePing, TakeFrame
    <2>5. CASE ReceiveJunk BY <2>0, <2>5 DEF ReceiveJunk, TakeFrame
    <2>6. CASE ErrorSleepDone BY <2>6 DEF ErrorSleepDone
    <2>7. CASE LinkLost BY <2>7 DEF LinkLost
    <2> QED BY <1>2, <2>1, <2>2, <2>3, <2>4, <2>5, <2>6, <2>7 DEF ReceiveStep
  <1>3. ASSUME ReconnectStep PROVE TypeOK'
    <2>1. CASE SleepDone BY <2>1, DoubledTyped DEF SleepDone
    <2>2. CASE RedialRefused BY <2>2 DEF RedialRefused, Fault, Retry
    <2>3. CASE RedialOk
      <3>1. Append(wire[dialed + 1], Plain("register")) \in Seq(Frame)
        BY <2>3, PlainTyped DEF RedialOk, Dial, FrameType
      <3> QED BY <2>3, <3>1 DEF RedialOk, Dial
    <2>4. CASE RedialUnencodable BY <2>4 DEF RedialUnencodable, Fault
    <2>5. CASE Reregistered BY <2>5 DEF Reregistered
    <2>6. CASE ReackRejected BY <2>6 DEF ReackRejected
    <2>7. CASE ReackFails BY <2>7 DEF ReackFails, Retry
    <2>8. CASE NewSocketClosed BY <2>8 DEF NewSocketClosed, Retry
    <2> QED BY <1>3, <2>1, <2>2, <2>3, <2>4, <2>5, <2>6, <2>7, <2>8 DEF ReconnectStep
  <1>4. CASE Heartbeat
    <2>1. wire' \in [Conn -> Seq(Frame)]
      BY <1>4, PlainTyped, SendTyped DEF Heartbeat, FrameType
    <2> QED BY <1>4, <2>1 DEF Heartbeat, Chat
  <1>5. CASE HeartbeatEnds BY <1>5 DEF HeartbeatEnds
  <1>6. CASE Publish
    <2>1. wire' \in [Conn -> Seq(Frame)]
      BY <1>6, PlainTyped, SendTyped DEF Publish, FrameType
    <2>2. faults' \in Nat /\ chatter' \in Nat
      BY <1>6 DEF Publish, Chat
    <2> QED BY <1>6, <2>1, <2>2 DEF Publish
  <1>7. ASSUME NEW s \in Stopper, Disconnect(s) \/ StopStep(s) PROVE TypeOK'
    <2>1. ASSUME Farewell(s)
          PROVE  /\ wire' \in [Conn -> Seq(Frame)]
                 /\ registered' \in BOOLEAN
                 /\ dpc' \in [Stopper -> {"idle", "hbwait", "close", "closing", "done"}]
      BY <2>1, PlainTyped, SendTyped DEF Farewell, FrameType
    <2>2. CASE Disconnect(s)
      <3>1. asked' \in SUBSET Pcs
        BY <2>2 DEF Disconnect
      <3>2. CASE hb \in {"sleep", "cancelled"} BY <2>2, <3>1, <3>2 DEF Disconnect
      <3>3. CASE hb \notin {"sleep", "cancelled"} BY <2>1, <2>2, <3>1, <3>3 DEF Disconnect
      <3> QED BY <3>2, <3>3
    <2>3. CASE Deregister(s) BY <2>1, <2>3 DEF Deregister
    <2>4. CASE CloseSocket(s)
      <3>1. CASE ws = None BY <2>4, <3>1 DEF CloseSocket
      <3>2. CASE ws # None
        <4>1. st' \in [Conn -> {"unused", "open", "closing", "closed"}]
          BY <2>4, <3>2 DEF CloseSocket
        <4>2. dws' \in [Stopper -> Conn \cup {None}]
          <5>1. ws \in Conn /\ dws' = [dws EXCEPT ![s] = ws]
            BY <2>4, <3>2 DEF CloseSocket
          <5> QED BY <5>1
        <4>3. dpc' \in [Stopper -> {"idle", "hbwait", "close", "closing", "done"}]
          BY <2>4, <3>2 DEF CloseSocket
        <4> QED BY <2>4, <3>2, <4>1, <4>2, <4>3 DEF CloseSocket
      <3> QED BY <3>1, <3>2
    <2>5. CASE SocketClosed(s)
      <3>1. dpc' \in [Stopper -> {"idle", "hbwait", "close", "closing", "done"}]
        BY <2>5 DEF SocketClosed
      <3> QED BY <2>5, <3>1, ZenonT(60) DEF SocketClosed
    <2> QED BY <1>7, <2>2, <2>3, <2>4, <2>5 DEF StopStep
  <1>8. ASSUME BusStep PROVE TypeOK'
    <2> SUFFICES ASSUME NEW c \in Conn,
                        \/ BusAnswers(c)
                        \/ \E r \in Request : BusRequest(c, r)
                        \/ \E k \in Control : BusControl(c, k)
                        \/ LinkDrops(c)
                        \/ CloseCompletes(c)
                 PROVE  TypeOK'
      BY <1>8 DEF BusStep
    <2>1. CASE BusAnswers(c)
      <3>1. ack' \in [Conn -> {"none", "registered", "rejected", "garbage"}]
        <4>1. PICK v \in {"registered", "rejected", "garbage"} : ack' = [ack EXCEPT ![c] = v]
          BY <2>1 DEF BusAnswers
        <4> QED BY <4>1
      <3>2. faults' \in Nat /\ chatter' \in Nat
        BY <2>1 DEF BusAnswers, Fault
      <3> QED BY <2>1, <3>1, <3>2 DEF BusAnswers
    <2>2. ASSUME NEW r \in Request, BusRequest(c, r) PROVE TypeOK'
      <3>1. Append(inbox[c], r) \in Seq(Request \cup Control)
        OBVIOUS
      <3> QED BY <2>2, <3>1 DEF BusRequest
    <2>3. ASSUME NEW k \in Control, BusControl(c, k) PROVE TypeOK'
      <3>1. Append(inbox[c], k) \in Seq(Request \cup Control)
        OBVIOUS
      <3>2. faults' \in Nat /\ chatter' \in Nat
        BY <2>3 DEF BusControl, Chat, Fault
      <3> QED BY <2>3, <3>1, <3>2 DEF BusControl
    <2>4. CASE LinkDrops(c) BY <2>4 DEF LinkDrops, Fault
    <2>5. CASE CloseCompletes(c) BY <2>5 DEF CloseCompletes
    <2> QED BY <2>1, <2>2, <2>3, <2>4, <2>5
  <1>9. CASE UNCHANGED vars BY <1>9 DEF vars
  <1> QED BY <1>1, <1>2, <1>3, <1>4, <1>5, <1>6, <1>7, <1>8, <1>9 DEF Next, MainStep

\* Every variable keeps its type; in particular the reconnect delay stays
\* between reconnect_delay and max_reconnect_delay, whatever fails how often.
THEOREM TypeCorrect == Spec => []TypeOK
  BY TypeInit, TypeNext, PTL DEF Spec

-----------------------------------------------------------------------------
(* Honest registration *)

LEMMA LinkInit == Init => LinkInv
  BY DEF Init, LinkInv, ConnectPcs, UpPcs, DownPcs

\* pc, _ws, _registered and the answers move together in every step.
LEMMA LinkNext == TypeOK /\ LinkInv /\ [Next]_vars => LinkInv'
  <1> SUFFICES ASSUME TypeOK, LinkInv, [Next]_vars PROVE LinkInv'
    OBVIOUS
  <1> USE DEF LinkInv, Pcs, ConnectPcs, UpPcs, DownPcs, agentVars, linkVars, stopVars
  <1>0. ws \in Conn \cup {None} /\ dialed \in Conn \cup {0} /\ pc \in Pcs
    BY DEF TypeOK
  <1>1. ASSUME ConnectStep PROVE LinkInv'
    <2>1. CASE Connect BY <2>1 DEF Connect
    <2>2. CASE DialRefused BY <2>2 DEF DialRefused
    <2>3. CASE DialOk BY <1>0, <2>3 DEF DialOk, Dial
    <2>4. CASE Registered BY <2>4 DEF Registered
    <2>5. CASE Rejected BY <2>5 DEF Rejected
    <2>6. CASE RejectedClosed BY <2>6 DEF RejectedClosed
    <2>7. CASE AckFails BY <2>7 DEF AckFails
    <2> QED BY <1>1, <2>1, <2>2, <2>3, <2>4, <2>5, <2>6, <2>7 DEF ConnectStep
  <1>2. ASSUME ReceiveStep PROVE LinkInv'
    <2>1. CASE ReceiveRequest BY <2>1 DEF ReceiveRequest, TakeFrame
    <2>2. CASE HandlerReturns BY <2>2 DEF HandlerReturns
    <2>3. CASE HandlerRaises BY <2>3 DEF HandlerRaises
    <2>4. CASE ReceivePing BY <2>4 DEF ReceivePing, TakeFrame
    <2>5. CASE ReceiveJunk BY <2>5 DEF ReceiveJunk, TakeFrame
    <2>6. CASE ErrorSleepDone BY <2>6 DEF ErrorSleepDone
    <2>7. CASE LinkLost BY <2>7 DEF LinkLost
    <2> QED BY <1>2, <2>1, <2>2, <2>3, <2>4, <2>5, <2>6, <2>7 DEF ReceiveStep
  <1>3. ASSUME ReconnectStep PROVE LinkInv'
    <2>1. CASE SleepDone BY <2>1 DEF SleepDone
    <2>2. CASE RedialRefused BY <2>2 DEF RedialRefused, Retry
    <2>3. CASE RedialOk BY <1>0, <2>3 DEF RedialOk, Dial
    <2>4. CASE RedialUnencodable BY <1>0, <2>4 DEF RedialUnencodable
    <2>5. CASE Reregistered BY <2>5 DEF Reregistered
    <2>6. CASE ReackRejected BY <2>6 DEF ReackRejected
    <2>7. CASE ReackFails BY <2>7 DEF ReackFails, Retry
    <2>8. CASE NewSocketClosed BY <2>8 DEF NewSocketClosed, Retry
    <2> QED BY <1>3, <2>1, <2>2, <2>3, <2>4, <2>5, <2>6, <2>7, <2>8 DEF ReconnectStep
  <1>4. CASE Heartbeat BY <1>4 DEF Heartbeat
  <1>5. CASE HeartbeatEnds BY <1>5 DEF HeartbeatEnds
  <1>6. CASE Publish BY <1>6 DEF Publish
  <1>7. ASSUME NEW s \in Stopper, Disconnect(s) \/ StopStep(s) PROVE LinkInv'
    <2>1. ASSUME Farewell(s) PROVE registered' => registered
      BY <2>1 DEF Farewell
    <2>2. CASE Disconnect(s)
      <3>1. registered' => registered
        BY <2>1, <2>2 DEF Disconnect
      <3> QED BY <2>2, <3>1 DEF Disconnect
    <2>3. CASE Deregister(s) BY <2>1, <2>3 DEF Deregister
    <2>4. CASE CloseSocket(s) BY <2>4 DEF CloseSocket
    <2>5. CASE SocketClosed(s) BY <2>5 DEF SocketClosed
    <2> QED BY <1>7, <2>2, <2>3, <2>4, <2>5 DEF StopStep
  <1>8. ASSUME BusStep PROVE LinkInv'
    <2> SUFFICES ASSUME NEW c \in Conn,
                        \/ BusAnswers(c)
                        \/ \E r \in Request : BusRequest(c, r)
                        \/ \E k \in Control : BusControl(c, k)
                        \/ LinkDrops(c)
                        \/ CloseCompletes(c)
                 PROVE  LinkInv'
      BY <1>8 DEF BusStep
    <2>1. CASE BusAnswers(c)
      <3>1. \A d \in Conn : ack[d] = "registered" => ack'[d] = "registered"
        BY <2>1 DEF BusAnswers, TypeOK
      <3> QED BY <1>0, <2>1, <3>1 DEF BusAnswers
    <2>2. ASSUME NEW r \in Request, BusRequest(c, r) PROVE LinkInv'
      BY <2>2 DEF BusRequest
    <2>3. ASSUME NEW k \in Control, BusControl(c, k) PROVE LinkInv'
      BY <2>3 DEF BusControl
    <2>4. CASE LinkDrops(c) BY <2>4 DEF LinkDrops
    <2>5. CASE CloseCompletes(c) BY <2>5 DEF CloseCompletes
    <2> QED BY <2>1, <2>2, <2>3, <2>4, <2>5
  <1>9. CASE UNCHANGED vars BY <1>9 DEF vars
  <1> QED BY <1>1, <1>2, <1>3, <1>4, <1>5, <1>6, <1>7, <1>8, <1>9 DEF Next, MainStep

\* The agent never calls itself registered on a connection the bus has not
\* accepted, nor while it reconnects.
THEOREM RegistrationHonest == Spec => []HonestRegistration
  <1>1. LinkInv => HonestRegistration
    BY DEF LinkInv, HonestRegistration
  <1> QED BY TypeInit, TypeNext, LinkInit, LinkNext, <1>1, PTL DEF Spec

-----------------------------------------------------------------------------
(* The register frame first *)

OrderInv == WireInv /\ RegisterFirst

\* A step of pc that neither enters the handshake nor goes back before it.
PcMoves ==
  /\ pc' = "reack" => pc = "reack"
  /\ pc' \in {"init", "dial"} => pc \in {"init", "dial"}

LEMMA OrderInit == Init => OrderInv
  BY DEF Init, OrderInv, WireInv, RegisterFirst

\* A step that writes nothing and at most lets go of the socket.
LEMMA QuietKeepsOrder ==
  ASSUME TypeOK, OrderInv, PcMoves, UNCHANGED <<wire, ack, dialed>>, ws' \in {ws, None}
  PROVE  OrderInv'
  BY DEF TypeOK, OrderInv, WireInv, RegisterFirst, PcMoves

\* A frame that is no register frame goes behind one.
LEMMA SendKeepsOrder ==
  ASSUME TypeOK, OrderInv, PcMoves, UNCHANGED <<ws, ack, dialed>>,
         NEW f \in Frame, f.type # "register", Send(f)
  PROVE  OrderInv'
  <1>1. CASE ~IsOpen
    BY <1>1, QuietKeepsOrder DEF Send
  <1>2. CASE IsOpen
    <2>1. ws \in Conn /\ wire[ws] \in Seq(Frame) /\ Len(wire[ws]) > 0
      BY <1>2 DEF TypeOK, IsOpen, OrderInv, WireInv
    <2>2. wire' = [wire EXCEPT ![ws] = Append(wire[ws], f)]
      BY <1>2 DEF Send
    <2>3. \A c \in Conn : wire'[c] = IF c = ws THEN Append(wire[ws], f) ELSE wire[c]
      BY <2>2 DEF TypeOK
    <2>4. WireInv'
      <3>1. Len(wire'[ws]) > 0
        <4>1. wire'[ws] = Append(wire[ws], f)
          BY <2>1, <2>3
        <4>2. Len(Append(wire[ws], f)) = Len(wire[ws]) + 1 /\ Len(wire[ws]) \in Nat
          BY <2>1
        <4> QED BY <2>1, <4>1, <4>2
      <3>2. ws <= dialed
        BY <2>1 DEF OrderInv, WireInv, TypeOK
      <3>3. ASSUME pc' = "reack" PROVE Len(wire'[dialed]) > 0
        <4>1. Len(wire[dialed]) > 0 /\ (dialed = ws => Len(wire'[dialed]) > 0)
          BY <3>1, <3>3 DEF OrderInv, WireInv, PcMoves
        <4>2. CASE dialed \in Conn BY <2>3, <4>1, <4>2
        <4>3. CASE dialed \notin Conn
          BY <4>1, <4>3, <2>2 DEF TypeOK
        <4> QED BY <4>2, <4>3
      <3>4. \A c \in Conn : c > dialed => wire'[c] = <<>> /\ ack[c] = "none"
        <4> SUFFICES ASSUME NEW c \in Conn, c > dialed
                     PROVE  wire'[c] = <<>> /\ ack[c] = "none"
          OBVIOUS
        <4>1. dialed \in Nat
          BY DEF TypeOK
        <4>2. c # ws
          BY <2>1, <3>2, <4>1
        <4> QED BY <2>3, <4>2 DEF OrderInv, WireInv
      <3> QED BY <3>1, <3>3, <3>4 DEF OrderInv, WireInv, PcMoves
    <2>5. RegisterFirst'
      <3> SUFFICES ASSUME NEW c \in Conn
                   PROVE  /\ \A i \in 1..Len(wire'[c]) :
                               (wire'[c][i].type = "register") <=> (i = 1)
                          /\ c > 1 /\ ack[c] # "registered" => Len(wire'[c]) <= 1
        BY DEF RegisterFirst
      <3>1. CASE c # ws
        BY <2>3, <3>1 DEF OrderInv, RegisterFirst
      <3>2. CASE c = ws
        <4>1. /\ Len(wire'[c]) = Len(wire[c]) + 1
              /\ \A i \in 1..Len(wire[c]) : wire'[c][i] = wire[c][i]
              /\ wire'[c][Len(wire[c]) + 1] = f
          <5>1. wire'[c] = Append(wire[c], f) /\ wire[c] \in Seq(Frame)
            BY <2>1, <2>3, <3>2
          <5> QED BY <5>1
        <4>2. Len(wire[c]) \in Nat
          BY <2>1, <3>2
        <4>3. \A i \in 1..Len(wire'[c]) : (wire'[c][i].type = "register") <=> (i = 1)
          BY <2>1, <3>2, <4>1, <4>2 DEF OrderInv, RegisterFirst
        <4>4. c > 1 => ack[c] = "registered"
          BY <3>2 DEF OrderInv, WireInv
        <4> QED BY <4>3, <4>4
      <3> QED BY <3>1, <3>2
    <2> QED BY <2>4, <2>5 DEF OrderInv
  <1> QED BY <1>1, <1>2

\* A new connection starts with its register frame.
LEMMA DialKeepsOrder ==
  ASSUME TypeOK, OrderInv, Dial, pc' \in {"ack", "reack"},
         \/ ws' = ws
         \/ ws' = dialed' /\ dialed = 0
  PROVE  OrderInv'
  <1>1. /\ dialed \in Nat /\ dialed + 1 \in Conn /\ dialed' = dialed + 1
        /\ wire[dialed + 1] = <<>> /\ ack[dialed + 1] = "none" /\ ack' = ack
    <2>1. dialed \in Nat /\ dialed + 1 \in Conn /\ dialed' = dialed + 1 /\ ack' = ack
      BY DEF TypeOK, Dial
    <2> QED BY <2>1 DEF OrderInv, WireInv
  <1>2. wire' = [wire EXCEPT ![dialed + 1] = Append(<<>>, Plain("register"))]
    BY <1>1 DEF Dial
  <1>3. \A c \in Conn : wire'[c] =
          IF c = dialed + 1 THEN Append(<<>>, Plain("register")) ELSE wire[c]
    BY <1>1, <1>2 DEF TypeOK
  <1>4. Append(<<>>, Plain("register")) = <<Plain("register")>>
    OBVIOUS
  <1>5. Plain("register").type = "register"
    BY DEF Plain
  <1>6. RegisterFirst'
    <2> SUFFICES ASSUME NEW c \in Conn
                 PROVE  /\ \A i \in 1..Len(wire'[c]) :
                             (wire'[c][i].type = "register") <=> (i = 1)
                        /\ c > 1 /\ ack[c] # "registered" => Len(wire'[c]) <= 1
      BY <1>1 DEF RegisterFirst
    <2>1. CASE c = dialed + 1
      <3>1. wire'[c] = <<Plain("register")>>
        BY <1>1, <1>3, <1>4, <2>1
      <3>2. Len(wire'[c]) = 1 /\ wire'[c][1] = Plain("register")
        BY <3>1
      <3> QED BY <1>5, <3>2
    <2>2. CASE c # dialed + 1
      BY <1>3, <2>2 DEF OrderInv, RegisterFirst
    <2> QED BY <2>1, <2>2
  <1>7. WireInv'
    <2>1. ws # None => ws # dialed + 1
      BY <1>1 DEF OrderInv, WireInv, TypeOK
    <2>2. Len(<<Plain("register")>>) = 1
      OBVIOUS
    <2>3. Len(wire'[dialed']) = 1
      BY <1>1, <1>3, <1>4, <2>2
    <2>4. \A c \in Conn : c > dialed' => wire'[c] = <<>> /\ ack'[c] = "none"
      BY <1>1, <1>3 DEF OrderInv, WireInv
    <2>5. CASE ws' = ws
      <3>1. ws # None => wire'[ws] = wire[ws]
        BY <1>3, <2>1 DEF TypeOK
      <3> QED BY <1>1, <2>3, <2>4, <2>5, <3>1 DEF OrderInv, WireInv
    <2>6. CASE ws' = dialed' /\ dialed = 0
      BY <1>1, <2>3, <2>4, <2>6 DEF WireInv
    <2> QED BY <2>5, <2>6
  <1> QED BY <1>6, <1>7 DEF OrderInv

\* Every step keeps the register frame first: it writes nothing, or writes to
\* the socket in use, or opens a new one, or moves to the one just accepted.
LEMMA OrderNext == TypeOK /\ LinkInv /\ OrderInv /\ [Next]_vars => OrderInv'
  <1> SUFFICES ASSUME TypeOK, LinkInv, OrderInv, [Next]_vars PROVE OrderInv'
    OBVIOUS
  <1> USE DEF agentVars, linkVars, stopVars
  <1>1. ASSUME ConnectStep PROVE OrderInv'
    <2>1. CASE Connect BY <2>1, QuietKeepsOrder DEF Connect, PcMoves
    <2>2. CASE DialRefused BY <2>2, QuietKeepsOrder DEF DialRefused, PcMoves
    <2>3. CASE DialOk
      <3>1. dialed = 0
        BY <2>3 DEF DialOk, OrderInv, WireInv
      <3> QED BY <2>3, <3>1, DialKeepsOrder DEF DialOk
    <2>4. CASE Registered BY <2>4, QuietKeepsOrder DEF Registered, PcMoves
    <2>5. CASE Rejected BY <2>5, QuietKeepsOrder DEF Rejected, PcMoves
    <2>6. CASE RejectedClosed BY <2>6, QuietKeepsOrder DEF RejectedClosed, PcMoves
    <2>7. CASE AckFails BY <2>7, QuietKeepsOrder DEF AckFails, PcMoves
    <2> QED BY <1>1, <2>1, <2>2, <2>3, <2>4, <2>5, <2>6, <2>7 DEF ConnectStep
  <1>2. ASSUME ReceiveStep PROVE OrderInv'
    <2>1. CASE ReceiveRequest
      BY <2>1, QuietKeepsOrder DEF ReceiveRequest, TakeFrame, PcMoves
    <2>2. CASE HandlerReturns
      <3>1. PcMoves /\ UNCHANGED <<ws, ack, dialed>>
        BY <2>2 DEF HandlerReturns, PcMoves
      <3>2. CASE cur \in Unencodable
        BY <2>2, <3>1, <3>2, QuietKeepsOrder DEF HandlerReturns
      <3>3. CASE cur \notin Unencodable
        <4>1. [type |-> "response", id |-> cur] \in Frame
          BY DEF TypeOK, Frame, FrameType
        <4> QED BY <2>2, <3>1, <3>3, <4>1, SendKeepsOrder DEF HandlerReturns
      <3> QED BY <3>2, <3>3
    <2>3. CASE HandlerRaises
      <3>1. PcMoves /\ UNCHANGED <<ws, ack, dialed>>
        BY <2>3 DEF HandlerRaises, PcMoves
      <3>2. [type |-> "error", id |-> cur] \in Frame
        BY DEF TypeOK, Frame, FrameType
      <3> QED BY <2>3, <3>1, <3>2, SendKeepsOrder DEF HandlerRaises
    <2>4. CASE ReceivePing
      <3>1. PcMoves /\ UNCHANGED <<ws, ack, dialed>>
        BY <2>4 DEF ReceivePing, TakeFrame, PcMoves
      <3>2. Plain("pong") \in Frame /\ Plain("pong").type # "register"
        BY PlainTyped DEF FrameType, Plain
      <3> QED BY <2>4, <3>1, <3>2, SendKeepsOrder DEF ReceivePing
    <2>5. CASE ReceiveJunk BY <2>5, QuietKeepsOrder DEF ReceiveJunk, TakeFrame, PcMoves
    <2>6. CASE ErrorSleepDone BY <2>6, QuietKeepsOrder DEF ErrorSleepDone, PcMoves
    <2>7. CASE LinkLost BY <2>7, QuietKeepsOrder DEF LinkLost, PcMoves
    <2> QED BY <1>2, <2>1, <2>2, <2>3, <2>4, <2>5, <2>6, <2>7 DEF ReceiveStep
  <1>3. ASSUME ReconnectStep PROVE OrderInv'
    <2>1. CASE SleepDone BY <2>1, QuietKeepsOrder DEF SleepDone, PcMoves
    <2>2. CASE RedialRefused BY <2>2, QuietKeepsOrder DEF RedialRefused, Retry, PcMoves
    <2>3. CASE RedialOk BY <2>3, DialKeepsOrder DEF RedialOk
    <2>4. CASE RedialUnencodable
      <3>1. dialed' = dialed + 1 /\ dialed \in Nat /\ UNCHANGED <<ws, wire, ack>>
        BY <2>4 DEF RedialUnencodable, TypeOK
      <3>2. pc' = "closing"
        BY <2>4 DEF RedialUnencodable
      <3> QED BY <3>1, <3>2 DEF OrderInv, WireInv, RegisterFirst
    <2>5. CASE Reregistered
      <3>1. /\ pc = "reack" /\ pc' \notin {"init", "dial", "reack"}
            /\ ws' = dialed /\ ack[dialed] = "registered" /\ UNCHANGED <<wire, ack, dialed>>
        BY <2>5 DEF Reregistered
      <3> QED BY <3>1 DEF OrderInv, WireInv, RegisterFirst
    <2>6. CASE ReackRejected BY <2>6, QuietKeepsOrder DEF ReackRejected, PcMoves
    <2>7. CASE ReackFails BY <2>7, QuietKeepsOrder DEF ReackFails, Retry, PcMoves
    <2>8. CASE NewSocketClosed BY <2>8, QuietKeepsOrder DEF NewSocketClosed, Retry, PcMoves
    <2> QED BY <1>3, <2>1, <2>2, <2>3, <2>4, <2>5, <2>6, <2>7, <2>8 DEF ReconnectStep
  <1>4. CASE Heartbeat
    <2>1. Plain("heartbeat") \in Frame /\ Plain("heartbeat").type # "register"
      BY PlainTyped DEF FrameType, Plain
    <2> QED BY <1>4, <2>1, SendKeepsOrder DEF Heartbeat, PcMoves
  <1>5. CASE HeartbeatEnds BY <1>5, QuietKeepsOrder DEF HeartbeatEnds, PcMoves
  <1>6. CASE Publish
    <2>1. PcMoves /\ UNCHANGED <<ws, ack, dialed>>
      BY <1>6 DEF Publish, PcMoves
    <2>2. Plain("publish") \in Frame /\ Plain("publish").type # "register"
      BY PlainTyped DEF FrameType, Plain
    <2> QED BY <1>6, <2>1, <2>2, SendKeepsOrder DEF Publish
  <1>7. ASSUME NEW s \in Stopper, Disconnect(s) \/ StopStep(s) PROVE OrderInv'
    <2>1. PcMoves /\ UNCHANGED <<ws, ack, dialed>>
      BY <1>7 DEF Disconnect, StopStep, Deregister, CloseSocket, SocketClosed, PcMoves
    <2>2. CASE UNCHANGED wire BY <2>1, <2>2, QuietKeepsOrder
    <2>3. CASE Send(Plain("deregister"))
      <3>1. Plain("deregister") \in Frame /\ Plain("deregister").type # "register"
        BY PlainTyped DEF FrameType, Plain
      <3> QED BY <2>1, <2>3, <3>1, SendKeepsOrder
    <2>4. UNCHANGED wire \/ Send(Plain("deregister"))
      BY <1>7 DEF Disconnect, StopStep, Deregister, CloseSocket, SocketClosed, Farewell
    <2> QED BY <2>2, <2>3, <2>4
  <1>8. ASSUME BusStep PROVE OrderInv'
    <2> SUFFICES ASSUME NEW c \in Conn,
                        \/ BusAnswers(c)
                        \/ \E r \in Request : BusRequest(c, r)
                        \/ \E k \in Control : BusControl(c, k)
                        \/ LinkDrops(c)
                        \/ CloseCompletes(c)
                 PROVE  OrderInv'
      BY <1>8 DEF BusStep
    <2>1. CASE BusAnswers(c)
      <3>1. UNCHANGED <<pc, ws, wire, dialed>> /\ ack[c] = "none"
        BY <2>1 DEF BusAnswers
      <3>2. \A d \in Conn : d # c => ack'[d] = ack[d]
        BY <2>1 DEF BusAnswers, TypeOK
      <3>3. ~(c > dialed)
        <4>1. wire[c] # <<>>
          BY <2>1 DEF BusAnswers, HasSent
        <4> QED BY <4>1 DEF OrderInv, WireInv
      <3>4. WireInv'
        <4>1. \A d \in Conn : d > dialed => wire[d] = <<>> /\ ack'[d] = "none"
          BY <3>2, <3>3 DEF OrderInv, WireInv
        <4>2. ASSUME ws > 1 PROVE ack'[ws] = "registered"
          <5>1. ws \in Conn /\ ack[ws] = "registered"
            BY <4>2 DEF OrderInv, WireInv, TypeOK
          <5> QED BY <3>1, <3>2, <5>1
        <4> QED BY <3>1, <4>1, <4>2 DEF OrderInv, WireInv
      <3>5. RegisterFirst'
        BY <3>1, <3>2 DEF OrderInv, RegisterFirst
      <3> QED BY <3>4, <3>5 DEF OrderInv
    <2>2. ASSUME NEW r \in Request, BusRequest(c, r) PROVE OrderInv'
      BY <2>2, QuietKeepsOrder DEF BusRequest, PcMoves
    <2>3. ASSUME NEW k \in Control, BusControl(c, k) PROVE OrderInv'
      BY <2>3, QuietKeepsOrder DEF BusControl, PcMoves
    <2>4. CASE LinkDrops(c) BY <2>4, QuietKeepsOrder DEF LinkDrops, PcMoves
    <2>5. CASE CloseCompletes(c) BY <2>5, QuietKeepsOrder DEF CloseCompletes, PcMoves
    <2> QED BY <2>1, <2>2, <2>3, <2>4, <2>5
  <1>9. CASE UNCHANGED vars BY <1>9, QuietKeepsOrder DEF vars, PcMoves
  <1> QED BY <1>1, <1>2, <1>3, <1>4, <1>5, <1>6, <1>7, <1>8, <1>9 DEF Next, MainStep

\* On every connection the register frame comes first and once, and a
\* reconnection carries nothing else until the bus has accepted it.
THEOREM RegisterComesFirst == Spec => []RegisterFirst
  <1>1. OrderInv => RegisterFirst
    BY DEF OrderInv
  <1> QED BY TypeInit, TypeNext, LinkInit, LinkNext, OrderInit, OrderNext, <1>1, PTL DEF Spec

-----------------------------------------------------------------------------
(* The connector implements AgentLink                                       *)

\* A disconnect() that is under way was called.
AskedInv == \A s \in Stopper : dpc[s] # "idle" => asked # {}

LEMMA AskedInit == Init => AskedInv
  BY DEF Init, AskedInv

LEMMA AskedNext == TypeOK /\ AskedInv /\ [Next]_vars => AskedInv'
  <1> SUFFICES ASSUME TypeOK, AskedInv, [Next]_vars PROVE AskedInv'
    OBVIOUS
  <1> USE DEF AskedInv
  <1>1. CASE UNCHANGED stopVars BY <1>1 DEF stopVars
  <1>2. ASSUME NEW s \in Stopper, Disconnect(s) PROVE AskedInv'
    BY <1>2 DEF Disconnect
  <1>3. ASSUME NEW s \in Stopper, StopStep(s) PROVE AskedInv'
    <2>1. asked' = asked /\ dpc[s] # "idle"
      BY <1>3 DEF StopStep, Deregister, CloseSocket, SocketClosed
    <2> QED BY <2>1
  <1>4. ASSUME MainStep PROVE UNCHANGED stopVars
    <2>1. CASE ConnectStep
      BY <2>1 DEF ConnectStep, Connect, DialRefused, DialOk, Registered, Rejected,
                  RejectedClosed, AckFails
    <2>2. CASE ReceiveStep
      BY <2>2 DEF ReceiveStep, ReceiveRequest, HandlerReturns, HandlerRaises, ReceivePing,
                  ReceiveJunk, ErrorSleepDone, LinkLost
    <2>3. CASE ReconnectStep
      BY <2>3 DEF ReconnectStep, SleepDone, RedialRefused, RedialOk, RedialUnencodable,
                  Reregistered, ReackRejected, ReackFails, NewSocketClosed
    <2> QED BY <1>4, <2>1, <2>2, <2>3 DEF MainStep
  <1>5. ASSUME Heartbeat \/ HeartbeatEnds \/ Publish PROVE UNCHANGED stopVars
    BY <1>5 DEF Heartbeat, HeartbeatEnds, Publish
  <1>6. ASSUME BusStep PROVE UNCHANGED stopVars
    BY <1>6 DEF BusStep, BusAnswers, BusRequest, BusControl, LinkDrops, CloseCompletes
  <1>7. CASE UNCHANGED vars BY <1>1, <1>7 DEF vars
  <1> QED BY <1>1, <1>2, <1>3, <1>4, <1>5, <1>6, <1>7 DEF Next

LinkStep == [Link!Next]_(Link!link)

\* A step that leaves phase, flags and stops alone is a stutter.
LEMMA QuietLink ==
  ASSUME UNCHANGED <<Phase, running, registered, asked>>
  PROVE  LinkStep
  BY DEF LinkStep, Link!link

\* run() goes back to its loop: to sleep, or out of it if stopped.
LEMMA RetryLink ==
  ASSUME pc \in DownPcs, Retry, UNCHANGED <<running, registered, asked>>
  PROVE  LinkStep
  <1>1. CASE running
    BY <1>1, QuietLink DEF Retry, Phase, DownPcs, UpPcs, ConnectPcs
  <1>2. CASE ~running
    <2>1. Phase = "lost" /\ Phase' = "over"
      BY <1>2 DEF Retry, Phase, DownPcs, UpPcs, ConnectPcs
    <2> QED BY <1>2, <2>1 DEF LinkStep, Link!Next, Link!End
  <1> QED BY <1>1, <1>2

LEMMA LinkSpecInit == Init => Link!Init
  BY DEF Init, Link!Init, Phase, ConnectPcs, UpPcs, DownPcs

LEMMA ConnectLink == TypeOK /\ LinkInv /\ ConnectStep => LinkStep
  <1> SUFFICES ASSUME TypeOK, LinkInv, ConnectStep PROVE LinkStep
    OBVIOUS
  <1> USE DEF Phase, ConnectPcs, UpPcs, DownPcs
  <1>1. CASE Registered
    <2>1. /\ Phase = "off" /\ Phase' = "up"
          /\ running' = TRUE /\ registered' = TRUE /\ UNCHANGED asked
      BY <1>1 DEF Registered, stopVars
    <2> QED BY <2>1 DEF LinkStep, Link!Next, Link!Register
  <1>2. CASE DialOk \/ Rejected
    BY <1>2, QuietLink DEF DialOk, Rejected, agentVars, stopVars
  <1>3. ASSUME Connect \/ DialRefused \/ RejectedClosed \/ AckFails PROVE LinkStep
    <2>1. /\ Phase = "off" /\ Phase' \in {"off", "over"}
          /\ UNCHANGED <<running, registered, asked>>
      BY <1>3 DEF Connect, DialRefused, RejectedClosed, AckFails, agentVars, stopVars
    <2> QED BY <2>1, QuietLink DEF LinkStep, Link!Next, Link!Abort
  <1> QED BY <1>1, <1>2, <1>3 DEF ConnectStep

LEMMA ReceiveLink == TypeOK /\ LinkInv /\ ReceiveStep => LinkStep
  <1> SUFFICES ASSUME TypeOK, LinkInv, ReceiveStep PROVE LinkStep
    OBVIOUS
  <1> USE DEF Phase, ConnectPcs, UpPcs, DownPcs
  <1>1. CASE ReceiveRequest \/ HandlerReturns \/ HandlerRaises \/ ReceivePing
    <2>1. pc \in UpPcs /\ pc' \in UpPcs
      BY <1>1 DEF ReceiveRequest, HandlerReturns, HandlerRaises, ReceivePing
    <2>2. Phase = "up" /\ Phase' = "up"
      BY <2>1
    <2>3. UNCHANGED <<running, registered, asked>>
      BY <1>1 DEF ReceiveRequest, HandlerReturns, HandlerRaises, ReceivePing, stopVars
    <2> QED BY <2>2, <2>3, QuietLink
  <1>2. ASSUME ReceiveJunk \/ ErrorSleepDone PROVE LinkStep
    <2>1. Phase = "up" /\ UNCHANGED <<running, registered, asked>>
      BY <1>2 DEF ReceiveJunk, ErrorSleepDone, agentVars, stopVars
    <2>2. Phase' = IF running THEN "up" ELSE "over"
      BY <1>2 DEF ReceiveJunk, ErrorSleepDone
    <2> QED BY <2>1, <2>2, QuietLink DEF LinkStep, Link!Next, Link!End
  <1>3. CASE LinkLost
    <2>1. Phase = "up" /\ UNCHANGED <<running, asked>>
      BY <1>3 DEF LinkLost, stopVars
    <2>2. CASE running
      BY <1>3, <2>1, <2>2 DEF LinkLost, LinkStep, Link!Next, Link!Lose
    <2>3. CASE ~running
      BY <1>3, <2>1, <2>3 DEF LinkLost, LinkStep, Link!Next, Link!End
    <2> QED BY <2>2, <2>3
  <1> QED BY <1>1, <1>2, <1>3 DEF ReceiveStep

LEMMA ReconnectLink == TypeOK /\ LinkInv /\ ReconnectStep => LinkStep
  <1> SUFFICES ASSUME TypeOK, LinkInv, ReconnectStep PROVE LinkStep
    OBVIOUS
  <1>1. CASE RedialRefused \/ ReackFails \/ NewSocketClosed
    BY <1>1, RetryLink
       DEF RedialRefused, ReackFails, NewSocketClosed, DownPcs, agentVars, stopVars
  <1>2. CASE SleepDone \/ RedialOk \/ RedialUnencodable \/ ReackRejected
    BY <1>2, QuietLink
       DEF SleepDone, RedialOk, RedialUnencodable, ReackRejected, agentVars, stopVars,
           Phase, ConnectPcs, UpPcs, DownPcs
  <1>3. CASE Reregistered
    <2>1. /\ Phase = "lost" /\ Phase' = IF running THEN "up" ELSE "over"
          /\ registered' = TRUE /\ UNCHANGED <<running, asked>>
      BY <1>3 DEF Reregistered, stopVars, Phase, ConnectPcs, UpPcs, DownPcs
    <2> QED BY <2>1 DEF LinkStep, Link!Next, Link!Restore, Link!End
  <1> QED BY <1>1, <1>2, <1>3 DEF ReconnectStep

\* disconnect() clears `registered' at its end, or at once without a socket.
LEMMA StopLink ==
  ASSUME AskedInv, NEW s \in Stopper, Disconnect(s) \/ StopStep(s)
  PROVE  LinkStep
  <1>1. UNCHANGED Phase
    BY DEF Disconnect, StopStep, Deregister, CloseSocket, SocketClosed, Phase
  <1>2. UNCHANGED registered \/ registered' = FALSE
    BY DEF Disconnect, StopStep, Deregister, CloseSocket, SocketClosed, Farewell, linkVars
  <1>3. CASE Disconnect(s)
    <2>1. running' = FALSE /\ (asked' # {}) = TRUE
      BY <1>3 DEF Disconnect
    <2> QED BY <1>1, <1>2, <2>1 DEF LinkStep, Link!Next, Link!Stop
  <1>4. CASE StopStep(s)
    <2>1. asked # {} /\ UNCHANGED <<running, asked>>
      BY <1>4 DEF AskedInv, StopStep, Deregister, CloseSocket, SocketClosed
    <2> QED BY <1>1, <1>2, <2>1, QuietLink DEF LinkStep, Link!Next, Link!Stopped
  <1> QED BY <1>3, <1>4

LEMMA LinkSpecNext == TypeOK /\ LinkInv /\ AskedInv /\ [Next]_vars => LinkStep
  <1> SUFFICES ASSUME TypeOK, LinkInv, AskedInv, [Next]_vars PROVE LinkStep
    OBVIOUS
  <1>1. ASSUME Heartbeat \/ HeartbeatEnds \/ Publish PROVE LinkStep
    BY <1>1, QuietLink DEF Heartbeat, HeartbeatEnds, Publish, agentVars, stopVars, Phase
  <1>2. ASSUME BusStep PROVE LinkStep
    BY <1>2, QuietLink
       DEF BusStep, BusAnswers, BusRequest, BusControl, LinkDrops, CloseCompletes,
           agentVars, stopVars, Phase
  <1>3. CASE UNCHANGED vars
    BY <1>3, QuietLink DEF vars, agentVars, stopVars, Phase
  <1> QED
    BY <1>1, <1>2, <1>3, ConnectLink, ReceiveLink, ReconnectLink, StopLink DEF Next, MainStep

\* A connector never registers again after a stop that found it up, gives up a
\* lost link only because of a stop, and tells the truth about `registered': it
\* implements AgentLink.
THEOREM LinkRefined == Spec => LinkImplemented
  <1>1. TypeOK /\ LinkInv /\ AskedInv /\ [Next]_vars => [Link!Next]_(Link!link)
    BY LinkSpecNext DEF LinkStep
  <1> QED
    BY TypeInit, TypeNext, LinkInit, LinkNext, AskedInit, AskedNext, LinkSpecInit, <1>1, PTL
       DEF Spec, LinkImplemented, Link!Spec

-----------------------------------------------------------------------------
(* The delays *)

LEMMA BackoffInit == Init => BackoffInv
  BY DEF Init, BackoffInv, ConnectPcs, UpPcs, DownPcs

\* The delay is doubled or reset exactly where failures are counted or
\* forgotten.
LEMMA BackoffNext == TypeOK /\ BackoffInv /\ [Next]_vars => BackoffInv'
  <1> SUFFICES ASSUME TypeOK, BackoffInv, [Next]_vars PROVE BackoffInv'
    OBVIOUS
  <1> USE DEF BackoffInv, ConnectPcs, UpPcs, DownPcs
  <1>0. fails \in Nat
    BY DEF TypeOK
  <1>a. ASSUME UNCHANGED <<pc, delay, fails>> PROVE BackoffInv'
    BY <1>a DEF Backoff
  <1>b. ASSUME pc \in ConnectPcs \cup UpPcs, delay' = InitDelay \/ UNCHANGED delay,
               UNCHANGED fails, pc' \in ConnectPcs \cup UpPcs \cup {"sleep", "stopped"}
        PROVE  BackoffInv'
    BY <1>b, BackoffDoubles
  <1>c. ASSUME pc \in DownPcs \ {"sleep"}, UNCHANGED delay,
               \/ fails' = fails /\ pc' \in {"reack", "closing"}
               \/ fails' = fails + 1 /\ pc' \in {"sleep", "stopped"}
        PROVE  BackoffInv'
    BY <1>c
  <1>1. ASSUME ConnectStep PROVE BackoffInv'
    BY <1>1, <1>b DEF ConnectStep, Connect, DialRefused, DialOk, Registered, Rejected,
       RejectedClosed, AckFails, agentVars
  <1>2. ASSUME ReceiveStep PROVE BackoffInv'
    BY <1>2, <1>b DEF ReceiveStep, ReceiveRequest, HandlerReturns, HandlerRaises,
       ReceivePing, ReceiveJunk, ErrorSleepDone, LinkLost, agentVars
  <1>3. ASSUME ReconnectStep PROVE BackoffInv'
    <2>1. CASE SleepDone
      <3>1. delay' = Backoff(fails + 1)
        BY <1>0, <2>1, BackoffDoubles DEF SleepDone
      <3> QED BY <2>1, <3>1 DEF SleepDone
    <2>2. CASE Reregistered
      BY <2>2 DEF Reregistered
    <2>3. CASE RedialRefused \/ ReackFails \/ NewSocketClosed
      BY <1>c, <2>3 DEF RedialRefused, ReackFails, NewSocketClosed, Retry, agentVars
    <2>4. CASE RedialOk \/ RedialUnencodable \/ ReackRejected
      BY <1>c, <2>4 DEF RedialOk, RedialUnencodable, ReackRejected, agentVars
    <2> QED BY <1>3, <2>1, <2>2, <2>3, <2>4 DEF ReconnectStep
  <1>4. Heartbeat \/ HeartbeatEnds \/ Publish \/ BusStep \/ UNCHANGED vars
          => UNCHANGED <<pc, delay, fails>>
    BY DEF Heartbeat, HeartbeatEnds, Publish, BusStep, BusAnswers, BusRequest, BusControl,
       LinkDrops, CloseCompletes, vars, agentVars
  <1>5. (\E s \in Stopper : Disconnect(s) \/ StopStep(s)) => UNCHANGED <<pc, delay, fails>>
    BY DEF Disconnect, StopStep, Deregister, CloseSocket, SocketClosed
  <1> QED BY <1>a, <1>1, <1>2, <1>3, <1>4, <1>5 DEF Next, MainStep

\* The n-th failure in a row is followed by a sleep of InitDelay * 2^n, capped,
\* for every first delay, every cap and every n; a working link starts again.
THEOREM BackoffIsExact == Spec => []BackoffExact
  <1>1. BackoffInv => BackoffExact
    BY DEF BackoffInv, BackoffExact, UpPcs
  <1> QED BY TypeInit, TypeNext, BackoffInit, BackoffNext, <1>1, PTL DEF Spec

-----------------------------------------------------------------------------
(* Open sockets *)

\* A step that opens nothing, and does not move on from a socket that is open.
LEMMA QuietSockets ==
  ASSUME NoStraySocket, UNCHANGED dialed,
         pc = "reack" => pc' = "reack",
         ws # None => ws' = ws \/ st[ws] # "open",
         \A c \in Conn : st'[c] = "open" => st[c] = "open",
         \A c \in Conn : ack[c] = "garbage" => ack'[c] = "garbage"
  PROVE  NoStraySocket'
  BY DEF NoStraySocket

\* A handshake that ends leaves its socket closed, or with the bus's garbage.
LEMMA HandshakeOver ==
  ASSUME NoStraySocket, UNCHANGED <<dialed, ws, ack>>, dialed # 0,
         \A c \in Conn : st'[c] = "open" => st[c] = "open",
         st'[dialed] # "open" \/ ack[dialed] = "garbage"
  PROVE  NoStraySocket'
  BY DEF NoStraySocket

\* The new socket is carried at once, or is in its handshake.
LEMMA DialSockets ==
  ASSUME TypeOK, NoStraySocket, Dial, pc # "reack",
         \/ ws' = dialed' /\ ws = None
         \/ ws' = ws /\ pc' = "reack"
  PROVE  NoStraySocket'
  <1>1. /\ dialed' = dialed + 1 /\ ack' = ack
        /\ \A c \in Conn : st'[c] = "open" => st[c] = "open" \/ c = dialed'
    BY DEF TypeOK, Dial
  <1> QED BY <1>1 DEF NoStraySocket

LEMMA SocketInit == Init => NoStraySocket
  BY DEF Init, NoStraySocket

LEMMA SocketNext == TypeOK /\ LinkInv /\ OrderInv /\ NoStraySocket /\ [Next]_vars => NoStraySocket'
  <1> SUFFICES ASSUME TypeOK, LinkInv, OrderInv, NoStraySocket, [Next]_vars
               PROVE  NoStraySocket'
    OBVIOUS
  <1> USE DEF agentVars, linkVars, stopVars
  <1>1. ASSUME ConnectStep PROVE NoStraySocket'
    <2>1. CASE Connect \/ DialRefused \/ Registered \/ RejectedClosed \/ AckFails
      BY <2>1, QuietSockets DEF Connect, DialRefused, Registered, RejectedClosed, AckFails
    <2>2. CASE DialOk
      <3>1. ws = None
        <4>1. dialed = 0
          BY <2>2 DEF DialOk, OrderInv, WireInv
        <4>2. ASSUME ws # None PROVE FALSE
          <5>1. ws \in Conn /\ wire[ws] = <<>>
            BY <4>1, <4>2 DEF TypeOK, OrderInv, WireInv
          <5> QED BY <4>2, <5>1 DEF OrderInv, WireInv
        <4> QED BY <4>2
      <3> QED BY <2>2, <3>1, DialSockets DEF DialOk
    <2>3. CASE Rejected
      <3>1. \A c \in Conn : st'[c] = "open" => st[c] = "open"
        BY <2>3 DEF Rejected, TypeOK
      <3> QED BY <2>3, <3>1, QuietSockets DEF Rejected
    <2> QED BY <1>1, <2>1, <2>2, <2>3 DEF ConnectStep
  <1>2. ASSUME ReceiveStep PROVE NoStraySocket'
    <2>1. CASE LinkLost
      BY <2>1, QuietSockets DEF LinkLost
    <2>2. CASE ~LinkLost
      <3>1. UNCHANGED <<ws, dialed, st, ack>> /\ pc # "reack"
        BY <1>2, <2>2 DEF ReceiveStep, ReceiveRequest, HandlerReturns, HandlerRaises,
                          ReceivePing, ReceiveJunk, ErrorSleepDone, TakeFrame
      <3> QED BY <3>1, QuietSockets
    <2> QED BY <2>1, <2>2
  <1>3. ASSUME ReconnectStep PROVE NoStraySocket'
    <2>1. pc \in DownPcs /\ ws = None
      BY <1>3 DEF LinkInv, DownPcs, ReconnectStep, SleepDone, RedialRefused, RedialOk,
                  RedialUnencodable, Reregistered, ReackRejected, ReackFails, NewSocketClosed
    <2>2. CASE SleepDone \/ RedialRefused \/ NewSocketClosed
      BY <2>2, QuietSockets DEF SleepDone, RedialRefused, NewSocketClosed
    <2>3. CASE RedialOk
      BY <2>3, DialSockets DEF RedialOk
    <2>4. CASE RedialUnencodable
      <3>1. /\ dialed' = dialed + 1 /\ pc # "reack" /\ UNCHANGED <<ws, ack>>
            /\ \A c \in Conn : st'[c] = "open" => st[c] = "open"
        BY <2>4 DEF RedialUnencodable, TypeOK
      <3> QED BY <3>1 DEF NoStraySocket
    <2>5. CASE Reregistered
      BY <2>1, <2>5 DEF Reregistered, NoStraySocket
    <2>6. CASE ReackRejected
      <3>1. dialed \in Conn
        BY <2>6 DEF ReackRejected, LinkInv, TypeOK
      <3>2. /\ st'[dialed] # "open" /\ UNCHANGED <<dialed, ws, ack>> /\ dialed # 0
            /\ \A c \in Conn : st'[c] = "open" => st[c] = "open"
        BY <2>6, <3>1 DEF ReackRejected, TypeOK
      <3> QED BY <3>2, HandshakeOver
    <2>7. CASE ReackFails
      BY <2>7, HandshakeOver DEF ReackFails, LinkInv
    <2> QED BY <1>3, <2>2, <2>3, <2>4, <2>5, <2>6, <2>7 DEF ReconnectStep
  <1>4. ASSUME Heartbeat \/ HeartbeatEnds \/ Publish PROVE NoStraySocket'
    BY <1>4, QuietSockets DEF Heartbeat, HeartbeatEnds, Publish
  <1>5. ASSUME NEW s \in Stopper, Disconnect(s) \/ StopStep(s) PROVE NoStraySocket'
    <2>1. \A c \in Conn : st'[c] = "open" => st[c] = "open"
      BY <1>5 DEF Disconnect, StopStep, Deregister, CloseSocket, SocketClosed, TypeOK
    <2>2. UNCHANGED <<pc, ws, dialed, ack>>
      BY <1>5 DEF Disconnect, StopStep, Deregister, CloseSocket, SocketClosed
    <2> QED BY <2>1, <2>2, QuietSockets
  <1>6. ASSUME BusStep PROVE NoStraySocket'
    <2>1. /\ UNCHANGED <<pc, ws, dialed>>
          /\ \A c \in Conn : st'[c] = "open" => st[c] = "open"
      BY <1>6 DEF BusStep, BusAnswers, BusRequest, BusControl, LinkDrops, CloseCompletes, TypeOK
    <2>2. \A c \in Conn : ack[c] = "garbage" => ack'[c] = "garbage"
      BY <1>6 DEF BusStep, BusAnswers, BusRequest, BusControl, LinkDrops, CloseCompletes, TypeOK
    <2> QED BY <2>1, <2>2, QuietSockets
  <1>7. CASE UNCHANGED vars
    BY <1>7, QuietSockets DEF vars
  <1> QED BY <1>1, <1>2, <1>3, <1>4, <1>5, <1>6, <1>7 DEF Next, MainStep

SafeInv == TypeOK /\ LinkInv /\ OrderInv /\ NoStraySocket

LEMMA SafeAlways == Spec => []SafeInv
  <1>1. Init => SafeInv
    BY TypeInit, LinkInit, OrderInit, SocketInit DEF SafeInv
  <1>2. SafeInv /\ [Next]_vars => SafeInv'
    BY TypeNext, LinkNext, OrderNext, SocketNext DEF SafeInv
  <1> QED BY <1>1, <1>2, PTL DEF Spec

\* No reconnection, however it fails, and no stop leaves a socket open that
\* nothing will close, but the one of an answer that is no JSON object.
THEOREM SocketsAccountedFor == Spec => []NoStraySocket
  <1>1. SafeInv => NoStraySocket
    BY DEF SafeInv
  <1> QED BY <1>1, SafeAlways, PTL

\* What the bus holds is the socket in use, or the one just accepted.
LEMMA HeldSocket ==
  ASSUME NoStraySocket, NEW c \in Conn, BusHolds(c)
  PROVE  c = ws \/ (c = dialed /\ pc = "reack")
  BY DEF NoStraySocket, BusHolds

\* The bus never holds two connections of one agent as registered.
THEOREM LiveLinkIsOne == Spec => []OneLiveLink
  <1>1. SafeInv => OneLiveLink
    <2> SUFFICES ASSUME SafeInv, NEW c \in Conn, NEW d \in Conn, BusHolds(c), BusHolds(d)
                 PROVE  c = d
      BY DEF OneLiveLink
    <2>1. pc = "reack" => ws = None
      BY DEF SafeInv, LinkInv, DownPcs
    <2> QED BY <2>1, HeldSocket DEF SafeInv
  <1> QED BY <1>1, SafeAlways, PTL

-----------------------------------------------------------------------------
(* Stops *)

\* A step of anybody but the stoppers that leaves a stopped connector stopped.
LEMMA CalmStop ==
  ASSUME TypeOK, StopInv, UNCHANGED stopVars,
         StoppedUp =>
           /\ pc' \in UpPcs \cup {"stopped"} /\ UNCHANGED <<ws, running>>
           /\ registered' => registered
           /\ st'[ws] = "open" => st[ws] = "open"
  PROVE  StopInv'
  BY DEF StopInv, StoppedUp, stopVars

LEMMA StopInvInit == Init => StopInv
  BY DEF Init, StopInv, StoppedUp

\* Without a socket in use, or with a lost one, disconnect() only clears.
LEMMA FarewellStops ==
  ASSUME TypeOK, NEW s \in Stopper, Farewell(s), ws # None
  PROVE  /\ dpc' \in [Stopper -> {"idle", "hbwait", "close", "closing", "done"}]
         /\ registered' => registered
         /\ dpc'[s] \in {"close", "done"}
         /\ dpc'[s] = "done" => ~registered' /\ st[ws] # "open"
         /\ \A t \in Stopper \ {s} : dpc'[t] = dpc[t]
  BY DEF Farewell, IsOpen, TypeOK

LEMMA DisconnectStops ==
  ASSUME TypeOK, LinkInv, AskedInv, StopInv, NEW s \in Stopper, Disconnect(s)
  PROVE  StopInv'
  <1>1. asked' # {} /\ dpc'[s] # "idle"
    BY DEF Disconnect, Farewell, TypeOK
  <1>2. ASSUME StoppedUp'
        PROVE  /\ ~running' /\ pc' \in UpPcs \cup {"stopped"} /\ ws' # None
               /\ \A t \in Stopper :
                    /\ dpc'[t] = "closing" => dws'[t] = ws'
                    /\ dpc'[t] = "done" => ~registered' /\ st'[ws'] # "open"
    <2>1. pc \in UpPcs /\ asked \subseteq UpPcs
      BY <1>2 DEF StoppedUp, Disconnect
    <2>2. UNCHANGED <<pc, ws, st, dws>> /\ ~running' /\ ws # None
      BY <2>1 DEF Disconnect, LinkInv
    <2>3. \A t \in Stopper : /\ dpc[t] = "closing" => dws[t] = ws
                             /\ dpc[t] = "done" => ~registered /\ st[ws] # "open"
      <3>1. CASE asked = {}
        BY <3>1 DEF AskedInv
      <3>2. CASE asked # {}
        BY <2>1, <3>2 DEF StopInv, StoppedUp
      <3> QED BY <3>1, <3>2
    <2>4. /\ registered' => registered
          /\ dpc'[s] = "done" => ~registered' /\ st[ws] # "open"
          /\ dpc'[s] # "closing"
          /\ \A t \in Stopper \ {s} : dpc'[t] = dpc[t]
      <3>1. CASE hb \in {"sleep", "cancelled"}
        BY <3>1 DEF Disconnect, TypeOK
      <3>2. CASE hb \notin {"sleep", "cancelled"}
        BY <2>2, <3>2, FarewellStops DEF Disconnect
      <3> QED BY <3>1, <3>2
    <2> QED BY <2>1, <2>2, <2>3, <2>4
  <1> QED BY <1>1, <1>2 DEF StopInv

LEMMA StopStepStops ==
  ASSUME TypeOK, StopInv, NEW s \in Stopper, StopStep(s)
  PROVE  StopInv'
  <1>1. /\ UNCHANGED <<pc, ws, running, asked>>
        /\ dpc'[s] # "idle" /\ \A t \in Stopper \ {s} : dpc'[t] = dpc[t]
    BY DEF StopStep, Deregister, CloseSocket, SocketClosed, Farewell, TypeOK
  <1>2. ASSUME StoppedUp
        PROVE  \A t \in Stopper : /\ dpc'[t] = "closing" => dws'[t] = ws
                                  /\ dpc'[t] = "done" => ~registered' /\ st'[ws] # "open"
    <2>0. /\ ws \in Conn
          /\ \A t \in Stopper : /\ dpc[t] = "closing" => dws[t] = ws
                                /\ dpc[t] = "done" => ~registered /\ st[ws] # "open"
      BY <1>2 DEF StopInv, TypeOK
    <2>1. CASE Deregister(s)
      BY <1>1, <2>0, <2>1, FarewellStops DEF Deregister
    <2>2. CASE CloseSocket(s)
      <3>1. /\ dpc'[s] = "closing" /\ dws' = [dws EXCEPT ![s] = ws] /\ UNCHANGED registered
            /\ st'[ws] = "open" => st[ws] = "open"
        BY <2>0, <2>2 DEF CloseSocket, TypeOK
      <3>2. dws'[s] = ws /\ \A t \in Stopper \ {s} : dws'[t] = dws[t]
        BY <2>0, <3>1 DEF TypeOK
      <3> QED BY <1>1, <2>0, <3>1, <3>2
    <2>3. CASE SocketClosed(s)
      <3>1. st[ws] = "closed" /\ UNCHANGED <<st, dws>> /\ ~registered' /\ dpc'[s] = "done"
        BY <2>0, <2>3 DEF SocketClosed, linkVars, TypeOK
      <3> QED BY <1>1, <2>0, <3>1
    <2> QED BY <2>1, <2>2, <2>3 DEF StopStep
  <1> QED BY <1>1, <1>2 DEF StopInv, StoppedUp

LEMMA StopInvNext == TypeOK /\ LinkInv /\ AskedInv /\ StopInv /\ [Next]_vars => StopInv'
  <1> SUFFICES ASSUME TypeOK, LinkInv, AskedInv, StopInv, [Next]_vars PROVE StopInv'
    OBVIOUS
  <1> USE DEF agentVars, linkVars
  <1>1. ASSUME ConnectStep \/ ReconnectStep PROVE StopInv'
    <2>1. pc \notin UpPcs \cup {"stopped"} /\ UNCHANGED stopVars
      BY <1>1 DEF UpPcs, ConnectStep, Connect, DialRefused, DialOk, Registered, Rejected,
                  RejectedClosed, AckFails, ReconnectStep, SleepDone, RedialRefused, RedialOk,
                  RedialUnencodable, Reregistered, ReackRejected, ReackFails, NewSocketClosed
    <2> QED BY <2>1, CalmStop DEF StopInv
  <1>2. ASSUME ReceiveStep PROVE StopInv'
    <2>1. pc' \in UpPcs \cup {"stopped"} \/ (running /\ LinkLost)
      BY <1>2 DEF ReceiveStep, ReceiveRequest, HandlerReturns, HandlerRaises, ReceivePing,
                  ReceiveJunk, ErrorSleepDone, LinkLost, UpPcs
    <2>2. UNCHANGED <<stopVars, running, st>> /\ (~running => UNCHANGED <<ws, registered>>)
      BY <1>2 DEF ReceiveStep, ReceiveRequest, HandlerReturns, HandlerRaises, ReceivePing,
                  ReceiveJunk, ErrorSleepDone, LinkLost, TakeFrame
    <2> QED BY <2>1, <2>2, CalmStop DEF StopInv
  <1>3. ASSUME Heartbeat \/ HeartbeatEnds \/ Publish PROVE StopInv'
    BY <1>3, CalmStop DEF Heartbeat, HeartbeatEnds, Publish, StopInv
  <1>4. ASSUME BusStep PROVE StopInv'
    <2>1. \A c \in Conn : st'[c] = "open" => st[c] = "open"
      BY <1>4 DEF BusStep, BusAnswers, BusRequest, BusControl, LinkDrops, CloseCompletes, TypeOK
    <2>2. UNCHANGED <<pc, ws, running, registered, stopVars>>
      BY <1>4 DEF BusStep, BusAnswers, BusRequest, BusControl, LinkDrops, CloseCompletes
    <2>3. StoppedUp => ws \in Conn
      BY DEF StopInv, TypeOK
    <2> QED BY <2>1, <2>2, <2>3, CalmStop DEF StopInv
  <1>5. CASE UNCHANGED vars
    BY <1>5, CalmStop DEF vars, StopInv
  <1> QED
    BY <1>1, <1>2, <1>3, <1>4, <1>5, DisconnectStops, StopStepStops DEF Next, MainStep

\* Stops that find the link up are final, however many cross one another, the
\* handler that runs, and the end of the link.
THEOREM StopsAreFinal == Spec => []StopIsFinal
  <1>1. SafeInv /\ StopInv => StopIsFinal
    <2> SUFFICES ASSUME SafeInv, StopInv, StopDone, asked \subseteq UpPcs
                 PROVE  ~registered /\ \A c \in Conn : ~BusHolds(c)
      BY DEF StopIsFinal
    <2>1. StoppedUp /\ \E s \in Stopper : dpc[s] = "done"
      BY DEF StopInv, StopDone, StoppedUp
    <2>2. ~registered /\ st[ws] # "open" /\ pc # "reack"
      BY <2>1 DEF StopInv, UpPcs
    <2> QED BY <2>2, HeldSocket DEF SafeInv, BusHolds
  <1>2. Spec => []StopInv
    BY TypeInit, TypeNext, LinkInit, LinkNext, AskedInit, AskedNext, StopInvInit, StopInvNext,
       PTL DEF Spec
  <1> QED BY <1>1, <1>2, SafeAlways, PTL


-----------------------------------------------------------------------------
(* Replies: steps that reply to nothing *)

\* Every connection's frames stay, or get one more that is no reply.
LEMMA OldReplies ==
  ASSUME TypeOK, NEW c \in Conn, NEW f \in Frame, ~IsReply(f),
         wire'[c] = wire[c] \/ wire'[c] = Append(wire[c], f)
  PROVE  \A i \in 1..Len(wire'[c]) :
           IsReply(wire'[c][i]) => i \in 1..Len(wire[c]) /\ wire'[c][i] = wire[c][i]
  <1>1. wire[c] \in Seq(Frame) /\ Len(wire[c]) \in Nat
    BY DEF TypeOK
  <1>2. CASE wire'[c] = wire[c]
    BY <1>2
  <1>3. CASE wire'[c] = Append(wire[c], f)
    <2>1. Len(wire'[c]) = Len(wire[c]) + 1
      BY <1>1, <1>3
    <2>2. wire'[c][Len(wire[c]) + 1] = f
      BY <1>1, <1>3
    <2>3. \A i \in 1..Len(wire[c]) : wire'[c][i] = wire[c][i]
      BY <1>1, <1>3
    <2> QED BY <1>1, <2>1, <2>2, <2>3
  <1> QED BY <1>2, <1>3

\* The receive loop goes on, and the frames it is done with stay so.
LEMMA NoReply ==
  ASSUME TypeOK, TypeOK', ReplyInv, HandlerInv', UNCHANGED inbox,
         NEW f \in Frame, ~IsReply(f),
         \A c \in Conn : wire'[c] = wire[c] \/ wire'[c] = Append(wire[c], f),
         \A c \in Conn : rd'[c] <= Len(inbox[c]) /\ Handled(c) <= Handled(c)'
  PROVE  ReplyInv'
  <1>1. InboxInv'
    BY DEF ReplyInv, InboxInv
  <1>2. RepliesHandled'
    <2> SUFFICES ASSUME NEW c \in Conn, NEW i \in 1..Len(wire'[c]), IsReply(wire'[c][i])
                 PROVE  \E k \in 1..Handled(c)' :
                          inbox'[c][k] = wire'[c][i].id /\ inbox'[c][k] \in Request
      BY DEF RepliesHandled, IsReply
    <2>1. i \in 1..Len(wire[c]) /\ wire'[c][i] = wire[c][i]
      BY OldReplies
    <2>2. PICK k \in 1..Handled(c) : inbox[c][k] = wire[c][i].id /\ inbox[c][k] \in Request
      BY <2>1 DEF ReplyInv, RepliesHandled
    <2>3. Handled(c) \in Int /\ Handled(c)' \in Int
      <3>1. rd[c] \in Nat /\ rd'[c] \in Nat
        BY DEF TypeOK
      <3> QED BY <3>1 DEF Handled
    <2>4. k \in 1..Handled(c)'
      BY <2>2, <2>3
    <2> QED BY <2>1, <2>2, <2>4
  <1>3. RepliesOrdered'
    <2> SUFFICES ASSUME NEW c \in Conn,
                        NEW i \in 1..Len(wire'[c]), NEW j \in 1..(i - 1),
                        IsReply(wire'[c][j]), IsReply(wire'[c][i]),
                        NEW k \in 1..Len(inbox[c]), NEW l \in 1..Len(inbox[c]),
                        inbox[c][k] = wire'[c][j].id, inbox[c][l] = wire'[c][i].id
                 PROVE  k < l
      BY DEF RepliesOrdered, IsReply
    <2>1. Len(wire'[c]) \in Nat
      BY DEF TypeOK
    <2>2. j \in 1..Len(wire'[c])
      BY <2>1
    <2>3. /\ i \in 1..Len(wire[c]) /\ wire'[c][i] = wire[c][i]
          /\ wire'[c][j] = wire[c][j]
      BY <2>2, OldReplies
    <2> QED BY <2>3 DEF ReplyInv, RepliesOrdered
  <1> QED BY <1>1, <1>2, <1>3 DEF ReplyInv

LEMMA QuietReplies ==
  ASSUME TypeOK, TypeOK', ReplyInv, UNCHANGED <<inbox, rd>>,
         NEW f \in Frame, ~IsReply(f),
         \A c \in Conn : wire'[c] = wire[c] \/ wire'[c] = Append(wire[c], f),
         pc = "handler" \/ pc' = "handler" => UNCHANGED <<pc, ws, cur>>
  PROVE  ReplyInv'
  <1>1. HandlerInv'
    BY DEF ReplyInv, HandlerInv
  <1>2. \A c \in Conn : rd'[c] <= Len(inbox[c]) /\ Handled(c) <= Handled(c)'
    <2>1. \A c \in Conn : rd[c] \in Nat
      BY DEF TypeOK
    <2> QED BY <2>1 DEF ReplyInv, InboxInv, Handled
  <1> QED BY <1>1, <1>2, NoReply

\* What send() and a dial write.
LEMMA Sent ==
  ASSUME TypeOK, NEW f \in Frame, Send(f)
  PROVE  \A c \in Conn : wire'[c] = wire[c] \/ wire'[c] = Append(wire[c], f)
  BY DEF Send, IsOpen, TypeOK

LEMMA PlainNoReply ==
  ASSUME NEW t \in FrameType \ {"response", "error"}
  PROVE  Plain(t) \in Frame /\ ~IsReply(Plain(t))
  BY PlainTyped DEF Plain, IsReply

LEMMA DialReplies ==
  ASSUME TypeOK, TypeOK', ReplyInv, Dial, pc # "handler", pc' # "handler"
  PROVE  ReplyInv'
  <1> DEFINE f == Plain("register")
  <1>1. f \in Frame /\ ~IsReply(f)
    BY PlainNoReply DEF FrameType
  <1>2. \A c \in Conn : wire'[c] = wire[c] \/ wire'[c] = Append(wire[c], f)
    BY DEF Dial, TypeOK
  <1>3. UNCHANGED <<inbox, rd>>
    BY DEF Dial
  <1> HIDE DEF f
  <1> QED BY <1>1, <1>2, <1>3, QuietReplies

-----------------------------------------------------------------------------
(* Replies: the receive loop *)

LEMMA Taken ==
  ASSUME TypeOK, ReplyInv, ws \in Conn, HasFrame, TakeFrame
  PROVE  /\ rd'[ws] = rd[ws] + 1 /\ rd'[ws] <= Len(inbox[ws])
         /\ \A c \in Conn \ {ws} : rd'[c] = rd[c]
         /\ \A c \in Conn : rd[c] \in Nat /\ Len(inbox[c]) \in Nat /\ rd'[c] <= Len(inbox[c])
  <1>1. \A c \in Conn : rd[c] \in Nat /\ Len(inbox[c]) \in Nat
    BY DEF TypeOK
  <1>2. rd' = [rd EXCEPT ![ws] = rd[ws] + 1]
    BY DEF TakeFrame
  <1>3. rd'[ws] = rd[ws] + 1 /\ \A c \in Conn \ {ws} : rd'[c] = rd[c]
    BY <1>2 DEF TypeOK
  <1> QED BY <1>1, <1>3 DEF HasFrame, ReplyInv, InboxInv

\* A frame is taken; a request goes into the handler.
LEMMA TakeReplies ==
  ASSUME TypeOK, TypeOK', ReplyInv, pc = "recv", ws \in Conn, HasFrame, TakeFrame,
         UNCHANGED ws,
         NEW f \in Frame, ~IsReply(f),
         \A c \in Conn : wire'[c] = wire[c] \/ wire'[c] = Append(wire[c], f),
         pc' = "handler" => cur' = NextFrame /\ NextFrame \in Request
  PROVE  ReplyInv'
  <1>1. UNCHANGED inbox
    BY DEF TakeFrame
  <1>2. HandlerInv'
    BY <1>1, Taken DEF HandlerInv, NextFrame
  <1>3. \A c \in Conn : Handled(c) <= Handled(c)'
    <2> SUFFICES ASSUME NEW c \in Conn PROVE Handled(c) <= Handled(c)'
      OBVIOUS
    <2>1. CASE c = ws
      BY <2>1, Taken DEF Handled
    <2>2. CASE c # ws
      BY <2>2, Taken DEF Handled
    <2> QED BY <2>1, <2>2
  <1> QED BY <1>1, <1>2, <1>3, Taken, NoReply

\* The handler is over without a reply: unencodable, or no open socket.
LEMMA SilentHandler ==
  ASSUME TypeOK, TypeOK', ReplyInv, pc' # "handler", UNCHANGED <<inbox, rd, wire>>
  PROVE  ReplyInv'
  <1> DEFINE f == Plain("pong")
  <1>1. f \in Frame /\ ~IsReply(f)
    BY PlainNoReply DEF FrameType
  <1>2. \A c \in Conn : rd'[c] <= Len(inbox[c]) /\ Handled(c) <= Handled(c)'
    <2>1. \A c \in Conn : rd[c] \in Nat
      BY DEF TypeOK
    <2> QED BY <2>1 DEF ReplyInv, InboxInv, Handled
  <1>3. HandlerInv'
    BY DEF HandlerInv
  <1> HIDE DEF f
  <1> QED BY <1>1, <1>2, <1>3, NoReply

\* The reply is the last one, to the last request.
LEMMA HandlerReplies ==
  ASSUME TypeOK, TypeOK', ReplyInv, pc = "handler", pc' # "handler",
         UNCHANGED <<ws, inbox, rd>>,
         NEW t \in {"response", "error"}, Send([type |-> t, id |-> cur])
  PROVE  ReplyInv'
  <1> DEFINE f == [type |-> t, id |-> cur]
             n == Len(wire[ws])
  <1>0. CASE ~IsOpen
    BY <1>0, SilentHandler DEF Send
  <1>1. CASE IsOpen
    <2>1. /\ ws \in Conn /\ wire[ws] \in Seq(Frame) /\ n \in Nat
          /\ rd[ws] \in Nat /\ rd[ws] > 0 /\ rd[ws] <= Len(inbox[ws])
          /\ Len(inbox[ws]) \in Nat
          /\ inbox[ws][rd[ws]] = cur /\ cur \in Request
      BY DEF TypeOK, ReplyInv, HandlerInv, InboxInv
    <2>2. f \in Frame /\ f.id = cur
      BY <2>1 DEF Frame, FrameType
    <2>3. wire' = [wire EXCEPT ![ws] = Append(wire[ws], f)]
      BY <1>1 DEF Send
    <2>4. wire'[ws] = Append(wire[ws], f) /\ \A c \in Conn \ {ws} : wire'[c] = wire[c]
      BY <2>1, <2>3 DEF TypeOK
    <2> HIDE DEF f
    <2>5. /\ Len(wire'[ws]) = n + 1 /\ wire'[ws][n + 1] = f
          /\ \A i \in 1..n : wire'[ws][i] = wire[ws][i]
      BY <2>1, <2>2, <2>4
    <2> HIDE DEF n
    <2>6. /\ \A c \in Conn : rd[c] \in Nat
          /\ Handled(ws) = rd[ws] - 1 /\ Handled(ws)' = rd[ws]
          /\ \A c \in Conn \ {ws} : Handled(c)' = Handled(c)
      BY DEF Handled, TypeOK
    \* Earlier replies were to earlier requests.
    <2>7. ASSUME NEW j \in 1..n, IsReply(wire[ws][j])
          PROVE  \E k \in 1..(rd[ws] - 1) :
                   inbox[ws][k] = wire[ws][j].id /\ inbox[ws][k] \in Request
      BY <2>1, <2>6, <2>7 DEF ReplyInv, RepliesHandled, n
    <2>8. RepliesHandled'
      <3> SUFFICES ASSUME NEW c \in Conn, NEW i \in 1..Len(wire'[c]), IsReply(wire'[c][i])
                   PROVE  \E k \in 1..Handled(c)' :
                            inbox[c][k] = wire'[c][i].id /\ inbox[c][k] \in Request
        BY DEF RepliesHandled, IsReply
      <3>1. CASE c # ws
        BY <2>4, <2>6, <3>1 DEF ReplyInv, RepliesHandled
      <3>2. CASE c = ws /\ i = n + 1
        BY <2>1, <2>2, <2>5, <2>6, <3>2
      <3>3. CASE c = ws /\ i # n + 1
        <4>1. i \in 1..n /\ wire'[ws][i] = wire[ws][i]
          BY <2>1, <2>5, <3>3
        <4>2. PICK k \in 1..(rd[ws] - 1) : inbox[ws][k] = wire[ws][i].id /\ inbox[ws][k] \in Request
          BY <2>7, <3>3, <4>1
        <4>3. k \in 1..rd[ws]
          BY <2>1
        <4> QED BY <2>6, <3>3, <4>1, <4>2, <4>3
      <3> QED BY <3>1, <3>2, <3>3
    <2>9. RepliesOrdered'
      <3> SUFFICES ASSUME NEW c \in Conn,
                          NEW i \in 1..Len(wire'[c]), NEW j \in 1..(i - 1),
                          IsReply(wire'[c][j]), IsReply(wire'[c][i]),
                          NEW k \in 1..Len(inbox[c]), NEW l \in 1..Len(inbox[c]),
                          inbox[c][k] = wire'[c][j].id, inbox[c][l] = wire'[c][i].id
                   PROVE  k < l
        BY DEF RepliesOrdered, IsReply
      <3>1. CASE c # ws
        <4>1. wire'[c] = wire[c]
          BY <2>4, <3>1
        <4> QED BY <4>1 DEF ReplyInv, RepliesOrdered, IsReply
      <3>2. CASE c = ws /\ i = n + 1
        <4>1. j \in 1..n /\ wire'[ws][j] = wire[ws][j]
          BY <2>1, <2>5, <3>2
        <4>2. PICK m \in 1..(rd[ws] - 1) : inbox[ws][m] = wire[ws][j].id /\ inbox[ws][m] \in Request
          BY <2>7, <3>2, <4>1
        <4>3. m \in 1..Len(inbox[ws]) /\ rd[ws] \in 1..Len(inbox[ws]) /\ m < rd[ws]
          BY <2>1
        <4>4. k = m
          BY <3>2, <4>1, <4>2, <4>3 DEF ReplyInv, InboxInv
        <4>5. l = rd[ws]
          BY <2>1, <2>2, <2>5, <3>2, <4>3 DEF ReplyInv, InboxInv
        <4> QED BY <4>3, <4>4, <4>5
      <3>3. CASE c = ws /\ i # n + 1
        <4>1. i \in 1..n /\ j \in 1..n
          BY <2>1, <2>5, <3>3
        <4>2. wire'[ws][i] = wire[ws][i] /\ wire'[ws][j] = wire[ws][j]
          BY <2>5, <4>1
        <4> QED BY <3>3, <4>1, <4>2 DEF ReplyInv, RepliesOrdered, n
      <3> QED BY <3>1, <3>2, <3>3
    <2>10. HandlerInv' /\ InboxInv'
      BY DEF HandlerInv, InboxInv, ReplyInv
    <2> QED BY <2>8, <2>9, <2>10 DEF ReplyInv
  <1> QED BY <1>0, <1>1

-----------------------------------------------------------------------------
(* Replies: the bus *)

\* A request the bus has not sent before, or a control frame, comes in last.
Arrives(b, r) ==
  /\ \A i \in 1..Len(inbox[b]) : r \in Request => inbox[b][i] # r
  /\ inbox' = [inbox EXCEPT ![b] = Append(@, r)]
  /\ UNCHANGED <<pc, ws, cur, wire, rd>>

LEMMA ArrivesReplies ==
  ASSUME TypeOK, ReplyInv, NEW b \in Conn, NEW r \in Request \cup Control, Arrives(b, r)
  PROVE  ReplyInv'
  <1> DEFINE n == Len(inbox[b])
  <1>0. UNCHANGED <<pc, ws, cur, wire, rd>>
    BY DEF Arrives
  <1>1. /\ \A c \in Conn : rd[c] \in Nat /\ Len(inbox[c]) \in Nat /\ rd[c] <= Len(inbox[c])
        /\ inbox[b] \in Seq(Request \cup Control)
        /\ \A c \in Conn : Len(wire[c]) \in Nat
    BY DEF TypeOK, ReplyInv, InboxInv
  <1>2. /\ inbox'[b] = Append(inbox[b], r) /\ \A c \in Conn \ {b} : inbox'[c] = inbox[c]
        /\ \A i \in 1..n : r \in Request => inbox[b][i] # r
    BY DEF Arrives, TypeOK
  <1>3. /\ Len(inbox'[b]) = n + 1 /\ inbox'[b][n + 1] = r
        /\ \A i \in 1..n : inbox'[b][i] = inbox[b][i]
    BY <1>1, <1>2
  <1>4. /\ \A c \in Conn : Len(inbox'[c]) \in Nat /\ Len(inbox[c]) <= Len(inbox'[c])
        /\ \A c \in Conn : \A i \in 1..Len(inbox[c]) : inbox'[c][i] = inbox[c][i]
    <2> SUFFICES ASSUME NEW c \in Conn
                 PROVE  /\ Len(inbox'[c]) \in Nat /\ Len(inbox[c]) <= Len(inbox'[c])
                        /\ \A i \in 1..Len(inbox[c]) : inbox'[c][i] = inbox[c][i]
      OBVIOUS
    <2>1. CASE c = b
      BY <1>1, <1>3, <2>1
    <2>2. CASE c # b
      BY <1>1, <1>2, <2>2
    <2> QED BY <2>1, <2>2
  <1>5. HandlerInv'
    <2> SUFFICES ASSUME pc = "handler"
                 PROVE  inbox'[ws][rd[ws]] = inbox[ws][rd[ws]]
      BY <1>0 DEF ReplyInv, HandlerInv
    <2>1. ws \in Conn /\ rd[ws] \in 1..Len(inbox[ws])
      BY <1>1 DEF TypeOK, ReplyInv, HandlerInv
    <2> QED BY <1>4, <2>1
  <1>6. InboxInv'
    <2> SUFFICES ASSUME NEW c \in Conn
                 PROVE  /\ rd[c] <= Len(inbox'[c])
                        /\ \A k, l \in 1..Len(inbox'[c]) :
                             inbox'[c][k] = inbox'[c][l] /\ inbox'[c][k] \in Request => k = l
      BY <1>0 DEF InboxInv
    <2>1. CASE c # b
      BY <1>2, <2>1 DEF ReplyInv, InboxInv
    <2>2. CASE c = b
      <3>1. rd[c] <= Len(inbox'[c])
        BY <1>1, <1>3, <2>2
      <3>2. ASSUME NEW k \in 1..Len(inbox'[b]), NEW l \in 1..Len(inbox'[b]),
                   inbox'[b][k] = inbox'[b][l], inbox'[b][k] \in Request
            PROVE  k = l
        <4>1. (k \in 1..n \/ k = n + 1) /\ (l \in 1..n \/ l = n + 1)
          BY <1>1, <1>3
        <4>2. CASE k \in 1..n /\ l \in 1..n
          BY <1>3, <3>2, <4>2 DEF ReplyInv, InboxInv
        <4>3. CASE k = n + 1 /\ l \in 1..n
          BY <1>2, <1>3, <3>2, <4>3
        <4>4. CASE k \in 1..n /\ l = n + 1
          BY <1>2, <1>3, <3>2, <4>4
        <4> QED BY <4>1, <4>2, <4>3, <4>4
      <3> QED BY <2>2, <3>1, <3>2
    <2> QED BY <2>1, <2>2
  <1>7. \A c \in Conn : Handled(c)' = Handled(c)
    BY <1>0 DEF Handled
  <1>8. \A c \in Conn : \A i \in 1..Len(wire[c]) : IsReply(wire[c][i]) =>
          \E k \in 1..Len(inbox[c]) :
            /\ k \in 1..Handled(c)
            /\ inbox[c][k] = wire[c][i].id /\ inbox[c][k] \in Request
    <2> SUFFICES ASSUME NEW c \in Conn, NEW i \in 1..Len(wire[c]), IsReply(wire[c][i])
                 PROVE  \E k \in 1..Len(inbox[c]) :
                          /\ k \in 1..Handled(c)
                          /\ inbox[c][k] = wire[c][i].id /\ inbox[c][k] \in Request
      OBVIOUS
    <2>1. Handled(c) \in Int /\ Handled(c) <= Len(inbox[c])
      BY <1>1 DEF Handled
    <2>2. PICK k \in 1..Handled(c) : inbox[c][k] = wire[c][i].id /\ inbox[c][k] \in Request
      BY DEF ReplyInv, RepliesHandled
    <2>3. k \in 1..Len(inbox[c])
      BY <1>1, <2>1
    <2> QED BY <2>2, <2>3
  <1>9. RepliesHandled'
    <2> SUFFICES ASSUME NEW c \in Conn, NEW i \in 1..Len(wire'[c]), IsReply(wire'[c][i])
                 PROVE  \E k \in 1..Handled(c)' :
                          inbox'[c][k] = wire'[c][i].id /\ inbox'[c][k] \in Request
      BY DEF RepliesHandled, IsReply
    <2>1. wire'[c] = wire[c] /\ i \in 1..Len(wire[c]) /\ IsReply(wire[c][i])
      BY <1>0 DEF IsReply
    <2>2. PICK k \in 1..Len(inbox[c]) : /\ k \in 1..Handled(c)
                                        /\ inbox[c][k] = wire[c][i].id /\ inbox[c][k] \in Request
      BY <1>8, <2>1
    <2>3. inbox'[c][k] = inbox[c][k] /\ Handled(c)' = Handled(c)
      BY <1>4, <1>7
    <2> QED BY <2>1, <2>2, <2>3
  <1>10. ASSUME NEW c \in Conn,
                NEW i \in 1..Len(wire[c]), NEW j \in 1..(i - 1),
                IsReply(wire[c][j]), IsReply(wire[c][i]),
                NEW k \in 1..Len(inbox'[c]), NEW l \in 1..Len(inbox'[c]),
                inbox'[c][k] = wire[c][j].id, inbox'[c][l] = wire[c][i].id
         PROVE  k < l
    <2>1. j \in 1..Len(wire[c])
      BY <1>1
    <2>2. PICK m \in 1..Len(inbox[c]) : inbox[c][m] = wire[c][j].id /\ inbox[c][m] \in Request
      BY <1>8, <1>10, <2>1
    <2>3. PICK o \in 1..Len(inbox[c]) : inbox[c][o] = wire[c][i].id /\ inbox[c][o] \in Request
      BY <1>8, <1>10
    <2>4. m \in 1..Len(inbox'[c]) /\ o \in 1..Len(inbox'[c])
      BY <1>1, <1>4
    <2>5. inbox'[c][m] = inbox[c][m] /\ inbox'[c][o] = inbox[c][o]
      BY <1>4
    <2>6. k = m /\ l = o
      BY <1>6, <1>10, <2>2, <2>3, <2>4, <2>5 DEF InboxInv
    <2> QED BY <1>10, <2>2, <2>3, <2>6 DEF ReplyInv, RepliesOrdered
  <1>11. RepliesOrdered'
    <2> SUFFICES ASSUME NEW c \in Conn,
                        NEW i \in 1..Len(wire'[c]), NEW j \in 1..(i - 1),
                        IsReply(wire'[c][j]), IsReply(wire'[c][i]),
                        NEW k \in 1..Len(inbox'[c]), NEW l \in 1..Len(inbox'[c]),
                        inbox'[c][k] = wire'[c][j].id, inbox'[c][l] = wire'[c][i].id
                 PROVE  k < l
      BY DEF RepliesOrdered, IsReply
    <2>1. /\ wire'[c] = wire[c] /\ i \in 1..Len(wire[c])
          /\ IsReply(wire[c][j]) /\ IsReply(wire[c][i])
      BY <1>0 DEF IsReply
    <2> QED BY <1>10, <2>1
  <1> QED BY <1>5, <1>6, <1>9, <1>11 DEF ReplyInv

-----------------------------------------------------------------------------
(* Replies: every step *)

LEMMA ReplyInit == Init => ReplyInv
  BY DEF Init, ReplyInv, HandlerInv, InboxInv, RepliesHandled, RepliesOrdered

LEMMA ReplyNext == TypeOK /\ LinkInv /\ ReplyInv /\ [Next]_vars /\ TypeOK' => ReplyInv'
  <1> SUFFICES ASSUME TypeOK, LinkInv, ReplyInv, [Next]_vars, TypeOK' PROVE ReplyInv'
    OBVIOUS
  <1> USE DEF agentVars, linkVars, stopVars
  <1>0. /\ Plain("pong") \in Frame /\ ~IsReply(Plain("pong"))
        /\ Plain("heartbeat") \in Frame /\ ~IsReply(Plain("heartbeat"))
        /\ Plain("publish") \in Frame /\ ~IsReply(Plain("publish"))
        /\ Plain("deregister") \in Frame /\ ~IsReply(Plain("deregister"))
    BY PlainNoReply DEF FrameType
  <1>q. ASSUME UNCHANGED <<inbox, rd, wire>>,
               pc = "handler" \/ pc' = "handler" => UNCHANGED <<pc, ws, cur>>
        PROVE  ReplyInv'
    BY <1>0, <1>q, QuietReplies
  <1>1. ASSUME ConnectStep PROVE ReplyInv'
    <2>1. pc \notin UpPcs /\ pc' # "handler"
      BY <1>1 DEF UpPcs, ConnectStep, Connect, DialRefused, DialOk, Registered, Rejected,
                  RejectedClosed, AckFails
    <2>2. CASE DialOk
      BY <2>1, <2>2, DialReplies DEF DialOk, UpPcs
    <2>3. CASE ~DialOk
      BY <1>1, <1>q, <2>1, <2>3
         DEF UpPcs, ConnectStep, Connect, DialRefused, Registered, Rejected, RejectedClosed,
             AckFails
    <2> QED BY <2>2, <2>3
  <1>2. ASSUME ReceiveStep PROVE ReplyInv'
    <2>0. ws \in Conn
      BY <1>2 DEF ReceiveStep, ReceiveRequest, HandlerReturns, HandlerRaises, ReceivePing,
                  ReceiveJunk, ErrorSleepDone, LinkLost, LinkInv, UpPcs, TypeOK
    <2>1. CASE ReceiveRequest
      <3>1. /\ pc = "recv" /\ HasFrame /\ TakeFrame /\ UNCHANGED <<ws, wire>>
            /\ cur' = NextFrame /\ NextFrame \in Request
        BY <2>1 DEF ReceiveRequest
      <3> QED BY <1>0, <2>0, <3>1, TakeReplies
    <2>2. CASE HandlerReturns
      <3>1. pc = "handler" /\ pc' # "handler" /\ UNCHANGED <<ws, inbox, rd>>
        BY <2>2 DEF HandlerReturns
      <3>2. CASE cur \in Unencodable
        BY <2>2, <3>1, <3>2, SilentHandler DEF HandlerReturns
      <3>3. CASE cur \notin Unencodable
        BY <2>2, <3>1, <3>3, HandlerReplies DEF HandlerReturns
      <3> QED BY <3>2, <3>3
    <2>3. CASE HandlerRaises
      <3>1. pc = "handler" /\ pc' # "handler" /\ UNCHANGED <<ws, inbox, rd>>
        BY <2>3 DEF HandlerRaises
      <3> QED BY <2>3, <3>1, HandlerReplies DEF HandlerRaises
    <2>4. CASE ReceivePing
      <3>1. pc = "recv" /\ pc' = "recv" /\ HasFrame /\ TakeFrame /\ UNCHANGED ws
            /\ Send(Plain("pong"))
        BY <2>4 DEF ReceivePing
      <3>2. \A c \in Conn : wire'[c] = wire[c] \/ wire'[c] = Append(wire[c], Plain("pong"))
        BY <1>0, <3>1, Sent
      <3> QED BY <1>0, <2>0, <3>1, <3>2, TakeReplies
    <2>5. CASE ReceiveJunk
      <3>1. pc = "recv" /\ pc' # "handler" /\ HasFrame /\ TakeFrame /\ UNCHANGED <<ws, wire>>
        BY <2>5 DEF ReceiveJunk
      <3> QED BY <1>0, <2>0, <3>1, TakeReplies
    <2>6. CASE ErrorSleepDone \/ LinkLost
      BY <1>q, <2>6 DEF ErrorSleepDone, LinkLost
    <2> QED BY <1>2, <2>1, <2>2, <2>3, <2>4, <2>5, <2>6 DEF ReceiveStep
  <1>3. ASSUME ReconnectStep PROVE ReplyInv'
    <2>1. pc # "handler" /\ pc' # "handler"
      BY <1>3 DEF ReconnectStep, SleepDone, RedialRefused, RedialOk, RedialUnencodable,
                  Reregistered, ReackRejected, ReackFails, NewSocketClosed, Retry
    <2>2. CASE RedialOk
      BY <2>1, <2>2, DialReplies DEF RedialOk
    <2>3. CASE ~RedialOk
      BY <1>3, <1>q, <2>1, <2>3
         DEF ReconnectStep, SleepDone, RedialRefused, RedialUnencodable,
             Reregistered, ReackRejected, ReackFails, NewSocketClosed
    <2> QED BY <2>2, <2>3
  <1>4. CASE Heartbeat
    BY <1>0, <1>4, Sent, QuietReplies DEF Heartbeat
  <1>5. CASE HeartbeatEnds
    BY <1>5, <1>q DEF HeartbeatEnds
  <1>6. CASE Publish
    BY <1>0, <1>6, Sent, QuietReplies DEF Publish
  <1>7. ASSUME NEW s \in Stopper, Disconnect(s) \/ StopStep(s) PROVE ReplyInv'
    <2>1. UNCHANGED <<pc, ws, cur, inbox, rd>>
      BY <1>7 DEF Disconnect, StopStep, Deregister, CloseSocket, SocketClosed
    <2>2. UNCHANGED wire \/ Send(Plain("deregister"))
      BY <1>7 DEF Disconnect, StopStep, Deregister, CloseSocket, SocketClosed, Farewell
    <2>3. CASE UNCHANGED wire
      BY <1>q, <2>1, <2>3
    <2>4. CASE Send(Plain("deregister"))
      BY <1>0, <2>1, <2>4, Sent, QuietReplies
    <2> QED BY <2>2, <2>3, <2>4
  <1>8. ASSUME BusStep PROVE ReplyInv'
    <2> SUFFICES ASSUME NEW c \in Conn,
                        \/ BusAnswers(c)
                        \/ \E r \in Request : BusRequest(c, r)
                        \/ \E k \in Control : BusControl(c, k)
                        \/ LinkDrops(c)
                        \/ CloseCompletes(c)
                 PROVE  ReplyInv'
      BY <1>8 DEF BusStep
    <2>1. CASE BusAnswers(c) \/ LinkDrops(c) \/ CloseCompletes(c)
      BY <1>q, <2>1 DEF BusAnswers, LinkDrops, CloseCompletes
    <2>2. ASSUME NEW r \in Request, BusRequest(c, r) PROVE ReplyInv'
      BY <2>2, ArrivesReplies DEF BusRequest, Delivered, Arrives
    <2>3. ASSUME NEW k \in Control, BusControl(c, k) PROVE ReplyInv'
      BY <2>3, ArrivesReplies DEF BusControl, Arrives
    <2> QED BY <2>1, <2>2, <2>3
  <1>9. CASE UNCHANGED vars
    BY <1>9, <1>q DEF vars
  <1> QED BY <1>1, <1>2, <1>3, <1>4, <1>5, <1>6, <1>7, <1>8, <1>9 DEF Next, MainStep

-----------------------------------------------------------------------------

\* Each request arrives once on its connection, so it has one position there.
LEMMA ArrivalIs ==
  ASSUME InboxInv, NEW c \in Conn, NEW k \in 1..Len(inbox[c]), inbox[c][k] \in Request
  PROVE  Arrival(c, inbox[c][k]) = k
  BY DEF InboxInv, Arrival

LEMMA InOrder == TypeOK /\ ReplyInv => RepliesInOrder
  <1> SUFFICES ASSUME TypeOK, ReplyInv,
                      NEW c \in Conn, NEW i \in 1..Len(wire[c]), IsReply(wire[c][i])
               PROVE  /\ \E k \in 1..rd[c] : inbox[c][k] = wire[c][i].id
                      /\ \A j \in 1..(i - 1) : IsReply(wire[c][j]) =>
                           Arrival(c, wire[c][j].id) < Arrival(c, wire[c][i].id)
    BY DEF RepliesInOrder
  <1>1. rd[c] \in Nat /\ Len(inbox[c]) \in Nat /\ rd[c] <= Len(inbox[c]) /\ Len(wire[c]) \in Nat
    BY DEF TypeOK, ReplyInv, InboxInv
  <1>2. Handled(c) \in Int /\ Handled(c) <= rd[c]
    BY <1>1 DEF Handled
  <1>3. ASSUME NEW j \in 1..Len(wire[c]), IsReply(wire[c][j])
        PROVE  \E k \in 1..rd[c] :
                 inbox[c][k] = wire[c][j].id /\ Arrival(c, wire[c][j].id) = k
    <2>1. PICK k \in 1..Handled(c) : inbox[c][k] = wire[c][j].id /\ inbox[c][k] \in Request
      BY <1>3 DEF ReplyInv, RepliesHandled
    <2>2. k \in 1..rd[c] /\ k \in 1..Len(inbox[c])
      BY <1>1, <1>2
    <2> QED BY <2>1, <2>2, ArrivalIs DEF ReplyInv
  <1>4. ASSUME NEW j \in 1..(i - 1), IsReply(wire[c][j])
        PROVE  Arrival(c, wire[c][j].id) < Arrival(c, wire[c][i].id)
    <2>1. j \in 1..Len(wire[c])
      BY <1>1
    <2>2. PICK k \in 1..rd[c] : inbox[c][k] = wire[c][j].id /\ Arrival(c, wire[c][j].id) = k
      BY <1>3, <1>4, <2>1
    <2>3. PICK l \in 1..rd[c] : inbox[c][l] = wire[c][i].id /\ Arrival(c, wire[c][i].id) = l
      BY <1>3
    <2>4. k \in 1..Len(inbox[c]) /\ l \in 1..Len(inbox[c])
      BY <1>1
    <2>5. k < l
      BY <1>4, <2>2, <2>3, <2>4 DEF ReplyInv, RepliesOrdered
    <2> QED BY <2>2, <2>3, <2>5
  <1> QED BY <1>3, <1>4

\* Every reply goes out on the connection its request came in on, once, and in
\* the order of the requests, for any number of connections and requests.
THEOREM RepliesAlwaysInOrder == Spec => []RepliesInOrder
  <1>1. TypeOK /\ LinkInv /\ ReplyInv /\ [Next]_vars => ReplyInv'
    BY TypeNext, ReplyNext
  <1> QED
    BY TypeInit, TypeNext, LinkInit, LinkNext, ReplyInit, <1>1, InOrder, PTL DEF Spec
================================================================================
