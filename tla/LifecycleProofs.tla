---------------------------- MODULE LifecycleProofs ----------------------------
(***************************************************************************)
(* What holds of an agent's life for any number of stoppers, starts and    *)
(* lost links: its types, and that it serves with an open HTTP client.     *)
(***************************************************************************)
EXTENDS Lifecycle, TLAPS

\* The actions other than those of one stopper.
MainNext ==
  Start \/ CancelledEarly \/ CancelledRunning \/ StartStep \/ LinkLost \/ LinkClosed

\* The first state has the types.
LEMMA InitTyped == Init => TypeOK
<1>1. 0 \in 0..MaxStarts /\ 0 \in 0..MaxLosses
  BY BoundsAssumption DEF BoundsAssumption
<1> QED
  BY <1>1 DEF Init, TypeOK, Pcs, Links

\* Every step of start(), of the connector and of the network keeps the types.
LEMMA MainTyped == TypeOK /\ MainNext => TypeOK'
<1> SUFFICES ASSUME TypeOK, MainNext PROVE TypeOK'
  OBVIOUS
<1> USE BoundsAssumption DEF BoundsAssumption, TypeOK, Pcs, Links, Ended
<1>1. CASE Start
  <2>1. starts' \in 0..MaxStarts
    BY <1>1 DEF Start
  <2> QED
    BY <1>1, <2>1 DEF Start
<1>2. CASE CancelledEarly
  BY <1>2 DEF CancelledEarly
<1>3. CASE CancelledRunning
  BY <1>3 DEF CancelledRunning
<1>4. CASE WelcomeReturns
  BY <1>4 DEF WelcomeReturns, Candidate
<1>5. CASE WelcomeRaises
  BY <1>5 DEF WelcomeRaises
<1>6. CASE Connected
  BY <1>6 DEF Connected
<1>7. CASE ConnectFails
  BY <1>7 DEF ConnectFails
<1>8. CASE FailedHttpCloses
  BY <1>8 DEF FailedHttpCloses
<1>9. CASE Relinked
  BY <1>9 DEF Relinked
<1>10. CASE RelinkFails
  BY <1>10 DEF RelinkFails
<1>11. CASE RunEnds
  BY <1>11 DEF RunEnds
<1>12. CASE Leave
  BY <1>12 DEF Leave
<1>13. CASE LinkLost
  BY <1>13 DEF LinkLost
<1>14. CASE LinkClosed
  BY <1>14 DEF LinkClosed
<1> QED
  BY <1>1, <1>2, <1>3, <1>4, <1>5, <1>6, <1>7, <1>8, <1>9, <1>10, <1>11, <1>12, <1>13,
     <1>14 DEF MainNext, StartStep

\* Every step of a shutdown() keeps the types.
LEMMA ShutdownTyped ==
  ASSUME NEW s \in Stopper, TypeOK, Shutdown(s) \/ ShutdownStep(s)
  PROVE  TypeOK'
<1> USE DEF TypeOK
<1>1. CASE Shutdown(s)
  <2>1. Situation \in Pcs \cup Links
    BY DEF Situation
  <2> QED
    BY <1>1, <2>1 DEF Shutdown, Links
<1>2. CASE DisconnectReturns(s)
  BY <1>2 DEF DisconnectReturns
<1>3. CASE HttpCloses(s)
  BY <1>3 DEF HttpCloses
<1> QED
  BY <1>1, <1>2, <1>3 DEF ShutdownStep

\* No step of the agent breaks the types.
LEMMA NextTyped == TypeOK /\ [Next]_vars => TypeOK'
<1> SUFFICES ASSUME TypeOK, [Next]_vars PROVE TypeOK'
  OBVIOUS
<1>1. CASE MainNext
  BY <1>1, MainTyped
<1>2. CASE \E s \in Stopper : Shutdown(s) \/ ShutdownStep(s)
  BY <1>2, ShutdownTyped
<1>3. CASE UNCHANGED vars
  BY <1>3 DEF vars, TypeOK
<1> QED
  BY <1>1, <1>2, <1>3 DEF Next, MainNext

\* The agent keeps its types: the welcome it registers is a dict or nothing.
THEOREM TypeCorrect == Spec => []TypeOK
<1> QED
  BY InitTyped, NextTyped, PTL DEF Spec

-----------------------------------------------------------------------------
(* An agent that serves has its HTTP client *)

\* Once it is not, it never again is a first start() with timely shutdowns only.
LEMMA TimelyBefore ==
  ASSUME TypeOK, [Next]_vars, Timely'
  PROVE  Timely
<1> USE DEF TypeOK, Timely
<1>1. starts <= starts' /\ asked \subseteq asked'
  <2>1. CASE MainNext
    BY <2>1 DEF MainNext, Start, CancelledEarly, CancelledRunning, StartStep,
       WelcomeReturns, WelcomeRaises, Connected, ConnectFails, FailedHttpCloses, Relinked,
       RelinkFails, RunEnds, Leave, LinkLost, LinkClosed
  <2>2. CASE \E s \in Stopper : Shutdown(s) \/ ShutdownStep(s)
    BY <2>2 DEF Shutdown, ShutdownStep, DisconnectReturns, HttpCloses
  <2>3. CASE UNCHANGED vars
    BY <2>3 DEF vars
  <2> QED
    BY <2>1, <2>2, <2>3 DEF Next, MainNext
<1>2. starts \in Nat /\ starts' \in Nat
  BY NextTyped
<1> QED
  BY <1>1, <1>2

\* No shutdown() has begun, and nothing is closed, at the first state.
LEMMA InitStops == Init => StopInv
  BY DEF Init, StopInv

\* The steps of start(), of the connector and of the network.
LEMMA MainStops == TypeOK /\ StopInv /\ MainNext => StopInv'
<1> SUFFICES ASSUME TypeOK, StopInv, MainNext PROVE StopInv'
  OBVIOUS
<1>0. Timely' => Timely
  BY TimelyBefore DEF Next, MainNext
<1> USE <1>0 DEF TypeOK, StopInv, Leaving, Ended, Pcs, Links
<1>1. CASE Start
  BY <1>1 DEF Start, Timely
<1>2. CASE CancelledEarly
  BY <1>2 DEF CancelledEarly
<1>3. CASE CancelledRunning
  BY <1>3 DEF CancelledRunning
<1>4. CASE WelcomeReturns
  BY <1>4 DEF WelcomeReturns
<1>5. CASE WelcomeRaises
  BY <1>5 DEF WelcomeRaises
<1>6. CASE Connected
  BY <1>6 DEF Connected
<1>7. CASE ConnectFails
  BY <1>7 DEF ConnectFails
<1>8. CASE FailedHttpCloses
  BY <1>8 DEF FailedHttpCloses
<1>9. CASE Relinked
  BY <1>9 DEF Relinked
<1>10. CASE RelinkFails
  BY <1>10 DEF RelinkFails
<1>11. CASE RunEnds
  BY <1>11 DEF RunEnds
<1>12. CASE Leave
  BY <1>12 DEF Leave
<1>13. CASE LinkLost
  BY <1>13 DEF LinkLost
<1>14. CASE LinkClosed
  BY <1>14 DEF LinkClosed
<1> QED
  BY <1>1, <1>2, <1>3, <1>4, <1>5, <1>6, <1>7, <1>8, <1>9, <1>10, <1>11, <1>12, <1>13,
     <1>14 DEF MainNext, StartStep

\* The steps of a shutdown(): one that is timely finds a link that is up or closing.
LEMMA ShutdownStops ==
  ASSUME NEW s \in Stopper, TypeOK, StopInv, Shutdown(s) \/ ShutdownStep(s)
  PROVE  StopInv'
<1>0. Timely' => Timely
  BY TimelyBefore DEF Next
<1> USE <1>0 DEF TypeOK, StopInv, Leaving, Ended, Pcs, Links
<1>1. CASE Shutdown(s)
  <2>1. Timely' => Leaving \/ (pc = "running" /\ link \in {"up", "closing", "down"})
    BY <1>1 DEF Shutdown, Timely, Situation, Untimely
  <2> QED
    BY <1>1, <2>1 DEF Shutdown
<1>2. CASE DisconnectReturns(s)
  BY <1>2 DEF DisconnectReturns
<1>3. CASE HttpCloses(s)
  BY <1>3 DEF HttpCloses
<1> QED
  BY <1>1, <1>2, <1>3 DEF ShutdownStep

\* However the stoppers interleave with the rest, StopInv holds.
LEMMA NextStops == TypeOK /\ StopInv /\ [Next]_vars => StopInv'
<1> SUFFICES ASSUME TypeOK, StopInv, [Next]_vars PROVE StopInv'
  OBVIOUS
<1>1. CASE MainNext
  BY <1>1, MainStops
<1>2. CASE \E s \in Stopper : Shutdown(s) \/ ShutdownStep(s)
  BY <1>2, ShutdownStops
<1>3. CASE UNCHANGED vars
  BY <1>3 DEF vars, StopInv, Timely, Leaving
<1> QED
  BY <1>1, <1>2, <1>3 DEF Next, MainNext

\* An agent whose shutdowns come while its link is up, or later, serves no
\* request with a closed HTTP client, however many tasks call shutdown() and
\* however often the link is lost and replaced.
THEOREM ServesWholeHolds == Spec => []ServesWhole
<1>1. TypeOK /\ StopInv => ServesWhole
  BY DEF TypeOK, StopInv, ServesWhole, Timely, Leaving, Ended
<1> QED
  BY <1>1, InitTyped, InitStops, NextTyped, NextStops, PTL DEF Spec

-----------------------------------------------------------------------------
(* However start() ends, the HTTP client is closed *)

CleanInv == CauseInv /\ EndsClean

\* A start() that has not ended, or failed in its setup, owes nothing.
LEMMA InitClean == Init => CleanInv
  BY DEF Init, CleanInv, CauseInv, EndsClean

\* The steps of start() close the client on every way out that owes it; no step
\* opens it again.
LEMMA MainClean == CleanInv /\ MainNext => CleanInv'
<1> USE DEF CleanInv, CauseInv, EndsClean
<1>1. CleanInv /\ (Start \/ CancelledEarly \/ CancelledRunning) => CleanInv'
  BY DEF Start, CancelledEarly, CancelledRunning
<1>2. CleanInv /\ (WelcomeReturns \/ WelcomeRaises \/ Connected) => CleanInv'
  BY DEF WelcomeReturns, WelcomeRaises, Connected
<1>3. CleanInv /\ (ConnectFails \/ FailedHttpCloses) => CleanInv'
  BY DEF ConnectFails, FailedHttpCloses
<1>4. CleanInv /\ (Relinked \/ RelinkFails \/ RunEnds \/ Leave) => CleanInv'
  BY DEF Relinked, RelinkFails, RunEnds, Leave
<1>5. CleanInv /\ (LinkLost \/ LinkClosed) => CleanInv'
  BY DEF LinkLost, LinkClosed
<1> QED
  BY <1>1, <1>2, <1>3, <1>4, <1>5 DEF MainNext, StartStep

\* A shutdown() only closes the client.
LEMMA ShutdownClean ==
  ASSUME NEW s \in Stopper, CleanInv, Shutdown(s) \/ ShutdownStep(s)
  PROVE  CleanInv'
  BY DEF CleanInv, CauseInv, EndsClean, ShutdownStep, Shutdown, DisconnectReturns, HttpCloses

\* However start() ends once it has called the bus, except by a cancellation
\* of that call, its HTTP client is closed.
THEOREM EndsCleanHolds == Spec => []EndsClean
<1>1. CleanInv /\ [Next]_vars => CleanInv'
  <2> SUFFICES ASSUME CleanInv, [Next]_vars PROVE CleanInv'
    OBVIOUS
  <2>1. CASE MainNext
    BY <2>1, MainClean
  <2>2. CASE \E s \in Stopper : Shutdown(s) \/ ShutdownStep(s)
    BY <2>2, ShutdownClean
  <2>3. CASE UNCHANGED vars
    BY <2>3 DEF vars, CleanInv, CauseInv, EndsClean
  <2> QED
    BY <2>1, <2>2, <2>3 DEF Next, MainNext
<1>2. CleanInv => EndsClean
  BY DEF CleanInv
<1> QED
  BY <1>1, <1>2, InitClean, PTL DEF Spec

-----------------------------------------------------------------------------
(* The connector's link is the one of AgentLink *)

\* There is no connector, and it does not run.
LEMMA InitRun == Init => RunInv
  BY DEF Init, RunInv

\* Every step keeps _running true to the link.
LEMMA NextRun == TypeOK /\ RunInv /\ [Next]_vars => RunInv'
<1> SUFFICES ASSUME TypeOK, RunInv, [Next]_vars PROVE RunInv'
  OBVIOUS
<1> USE DEF TypeOK, RunInv
<1>1. CASE Start \/ CancelledEarly \/ CancelledRunning
  BY <1>1 DEF Start, CancelledEarly, CancelledRunning
<1>2. CASE WelcomeReturns \/ WelcomeRaises \/ Connected
  BY <1>2 DEF WelcomeReturns, WelcomeRaises, Connected
<1>3. CASE ConnectFails \/ FailedHttpCloses
  BY <1>3 DEF ConnectFails, FailedHttpCloses
<1>4. CASE Relinked \/ RelinkFails \/ RunEnds \/ Leave
  BY <1>4 DEF Relinked, RelinkFails, RunEnds, Leave
<1>5. CASE LinkLost \/ LinkClosed
  BY <1>5 DEF LinkLost, LinkClosed
<1>6. CASE \E s \in Stopper : Shutdown(s)
  BY <1>6 DEF Shutdown
<1>7. CASE \E s \in Stopper : ShutdownStep(s)
  BY <1>7 DEF ShutdownStep, DisconnectReturns, HttpCloses
<1>8. CASE UNCHANGED vars
  BY <1>8 DEF vars
<1> QED
  BY <1>1, <1>2, <1>3, <1>4, <1>5, <1>6, <1>7, <1>8 DEF Next, StartStep

LinkStep == [Link!Next]_(Link!link)

\* The steps that leave the connector where it was.
LEMMA QuietSteps ==
  ASSUME TypeOK, RunInv,
         \/ Start \/ CancelledEarly \/ CancelledRunning \/ WelcomeReturns \/ WelcomeRaises
         \/ ConnectFails \/ FailedHttpCloses \/ Leave \/ LinkClosed
         \/ \E s \in Stopper : ShutdownStep(s)
         \/ UNCHANGED vars
  PROVE  LinkStep
<1> USE DEF TypeOK, RunInv, Phase
<1>1. UNCHANGED <<Phase, running, link = "up", asked>>
  <2>1. CASE Start \/ CancelledEarly \/ CancelledRunning
    BY <2>1 DEF Start, CancelledEarly, CancelledRunning
  <2>2. CASE WelcomeReturns \/ WelcomeRaises \/ ConnectFails \/ FailedHttpCloses
    BY <2>2 DEF WelcomeReturns, WelcomeRaises, ConnectFails, FailedHttpCloses
  <2>3. CASE Leave \/ LinkClosed
    BY <2>3 DEF Leave, LinkClosed
  <2>4. CASE \E s \in Stopper : ShutdownStep(s)
    BY <2>4 DEF ShutdownStep, DisconnectReturns, HttpCloses
  <2>5. CASE UNCHANGED vars
    BY <2>5 DEF vars
  <2> QED
    BY <2>1, <2>2, <2>3, <2>4, <2>5
<1> QED
  BY <1>1 DEF LinkStep, Link!link

\* Winning, losing and giving up a link.
LEMMA LinkSteps ==
  ASSUME TypeOK, RunInv, CauseInv,
         Connected \/ LinkLost \/ Relinked \/ RelinkFails \/ RunEnds
  PROVE  LinkStep
<1> USE DEF TypeOK, RunInv, CauseInv, Phase, LinkStep, Link!Next
<1>1. CASE Connected
  <2>1. Link!Register
    BY <1>1 DEF Connected, Link!Register
  <2> QED
    BY <2>1
<1>2. CASE LinkLost
  <2>1. Link!Lose
    BY <1>2 DEF LinkLost, Link!Lose
  <2> QED
    BY <2>1
<1>3. CASE Relinked
  <2>1. CASE running
    <3>1. Link!Restore
      BY <1>3, <2>1 DEF Relinked, Link!Restore
    <3> QED
      BY <3>1
  <2>2. CASE ~running
    <3>1. Link!End
      BY <1>3, <2>2 DEF Relinked, Link!End
    <3> QED
      BY <3>1
  <2> QED
    BY <2>1, <2>2
<1>4. CASE RelinkFails
  <2>1. CASE running
    BY <1>4, <2>1 DEF RelinkFails, Link!link
  <2>2. CASE ~running
    <3>1. Link!End
      BY <1>4, <2>2 DEF RelinkFails, Link!End
    <3> QED
      BY <3>1
  <2> QED
    BY <2>1, <2>2
<1>5. CASE RunEnds
  <2>1. Link!End
    BY <1>5 DEF RunEnds, Link!End
  <2> QED
    BY <2>1
<1> QED
  BY <1>1, <1>2, <1>3, <1>4, <1>5

\* A shutdown() asks the connector to stop, if there is one.
LEMMA ShutdownLink ==
  ASSUME TypeOK, RunInv, NEW s \in Stopper, Shutdown(s)
  PROVE  LinkStep
<1> USE DEF TypeOK, RunInv, Phase
<1>1. running' = FALSE /\ (asked' # {}) = TRUE
  BY DEF Shutdown
<1>2. UNCHANGED Phase
  BY DEF Shutdown
<1>3. (link = "up")' \in {link = "up", FALSE}
  BY DEF Shutdown
<1> QED
  BY <1>1, <1>2, <1>3 DEF LinkStep, Link!Next, Link!Stop

\* Whenever shutdown() is called and however start() fails, is repeated or
\* cancelled, its connector goes only through what AgentLink allows.
THEOREM LinkPromiseKept == Spec => LinkAsPromised
<1>1. Init => Link!Init
  BY DEF Init, Link!Init, Phase
<1>2. TypeOK /\ RunInv /\ CauseInv /\ [Next]_vars => [Link!Next]_(Link!link)
  BY QuietSteps, LinkSteps, ShutdownLink DEF Next, StartStep, LinkStep
<1>3. CauseInv /\ [Next]_vars => CauseInv'
  <2> USE DEF CauseInv
  <2>1. CauseInv /\ (Start \/ CancelledEarly \/ CancelledRunning) => CauseInv'
    BY DEF Start, CancelledEarly, CancelledRunning
  <2>2. CauseInv /\ StartStep => CauseInv'
    BY DEF StartStep, WelcomeReturns, WelcomeRaises, Connected, ConnectFails,
       FailedHttpCloses, Relinked, RelinkFails, RunEnds, Leave
  <2>3. CauseInv /\ (LinkLost \/ LinkClosed \/ UNCHANGED vars) => CauseInv'
    BY DEF LinkLost, LinkClosed, vars
  <2>4. CauseInv /\ (\E s \in Stopper : Shutdown(s) \/ ShutdownStep(s)) => CauseInv'
    BY DEF ShutdownStep, Shutdown, DisconnectReturns, HttpCloses
  <2> QED
    BY <2>1, <2>2, <2>3, <2>4 DEF Next
<1>4. Init => CauseInv
  BY DEF Init, CauseInv
<1> QED
  BY <1>1, <1>2, <1>3, <1>4, InitTyped, NextTyped, InitRun, NextRun, PTL
     DEF Spec, LinkAsPromised, Link!Spec

================================================================================
