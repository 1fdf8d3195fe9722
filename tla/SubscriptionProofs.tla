--------------------------- MODULE SubscriptionProofs ---------------------------
(***************************************************************************)
(* What holds of a subscription for any number of messages and faults: its *)
(* types, and that it resumes where the acks are: nothing acked comes      *)
(* back, and nothing the consumer did not see is acked.                    *)
(***************************************************************************)
EXTENDS Subscription, WellFoundedInduction, TLAPS

-----------------------------------------------------------------------------
(* Powers of two. Induction is the least counterexample, which the order of *)
(* the naturals has by WellFoundedInduction.                                *)

\* A set of naturals that is not empty has a least element.
LEMMA LeastNatural ==
  ASSUME NEW T, T \subseteq Nat, T # {}
  PROVE  \E x \in T : \A y \in T : x <= y
  <1> DEFINE R == OpToRel(<, Nat)
  <1>1. IsWellFoundedOn(R, Nat)
    BY NatLessThanWellFounded
  <1>2. \A x, y \in Nat : x < y => <<x, y>> \in R
    BY DEF OpToRel
  <1> HIDE DEF R
  <1>3. PICK x \in T : \A y \in T : ~ (<<y, x>> \in R)
    BY <1>1, WFMin
  <1>4. \A y \in T : ~(y < x)
    BY <1>2, <1>3
  <1> QED BY <1>4

\* Pow2 is what its definition says: there is such a function.
Powers(n) == {g \in [Nat -> Nat] : g[0] = 1 /\ \A i \in 1..n : g[i] = 2 * g[i - 1]}

LEMMA PowersExist == \A n \in Nat : Powers(n) # {}
  <1> SUFFICES ASSUME {n \in Nat : Powers(n) = {}} # {} PROVE FALSE
    OBVIOUS
  <1>1. PICK n \in Nat : Powers(n) = {} /\ \A m \in Nat : Powers(m) = {} => n <= m
    BY LeastNatural
  <1>2. CASE n = 0
    <2>1. [i \in Nat |-> 1] \in Powers(n)
      BY <1>2 DEF Powers
    <2> QED
      BY <1>1, <2>1
  <1>3. CASE n # 0
    <2>1. n - 1 \in Nat /\ Powers(n - 1) # {}
      BY <1>1, <1>3
    <2>2. PICK g \in Powers(n - 1) : TRUE
      BY <2>1
    <2> DEFINE h == [g EXCEPT ![n] = 2 * g[n - 1]]
    <2>3. g \in [Nat -> Nat] /\ g[n - 1] \in Nat
      BY <2>1, <2>2 DEF Powers
    <2>4. \A i \in Nat : h[i] = IF i = n THEN 2 * g[n - 1] ELSE g[i]
      BY <2>3
    <2>5. h \in [Nat -> Nat] /\ h[0] = 1
      BY <1>3, <2>2, <2>3 DEF Powers
    <2>6. \A i \in 1..n : h[i] = 2 * h[i - 1]
      BY <1>3, <2>2, <2>4 DEF Powers
    <2> QED
      BY <1>1, <2>5, <2>6 DEF Powers
  <1> QED
    BY <1>2, <1>3

LEMMA PowersAgree ==
  ASSUME NEW m \in Nat, NEW n \in Nat, NEW g \in Powers(m), NEW h \in Powers(n)
  PROVE  \A i \in Nat : i <= m /\ i <= n => g[i] = h[i]
  <1> DEFINE T == {i \in Nat : i <= m /\ i <= n /\ g[i] # h[i]}
  <1> SUFFICES ASSUME T # {} PROVE FALSE
    OBVIOUS
  <1>1. PICK i \in T : \A j \in T : i <= j
    BY LeastNatural
  <1>2. i # 0
    BY DEF Powers
  <1>3. i - 1 \in Nat /\ i - 1 \notin T
    BY <1>1, <1>2
  <1>4. g[i - 1] = h[i - 1]
    BY <1>3
  <1>5. g[i] = 2 * g[i - 1] /\ h[i] = 2 * h[i - 1]
    BY <1>2 DEF Powers
  <1> QED
    BY <1>4, <1>5

LEMMA Pow2Equation ==
  Pow2 = [n \in Nat |-> IF n = 0 THEN 1 ELSE 2 * Pow2[n - 1]]
  <1> DEFINE f == [n \in Nat |-> (CHOOSE g \in Powers(n) : TRUE)[n]]
  <1>1. ASSUME NEW n \in Nat, NEW g \in Powers(n)
        PROVE  \A i \in 0..n : f[i] = g[i]
    <2> TAKE i \in 0..n
    <2>1. (CHOOSE h \in Powers(i) : TRUE) \in Powers(i)
      BY PowersExist
    <2>2. (CHOOSE h \in Powers(i) : TRUE)[i] = g[i]
      BY <1>1, <2>1, PowersAgree
    <2> QED
      BY <2>2
  <1>2. \A n \in Nat : f[n] = IF n = 0 THEN 1 ELSE 2 * f[n - 1]
    <2> TAKE n \in Nat
    <2>1. PICK g \in Powers(n) : TRUE
      BY PowersExist
    <2>2. f[n] = g[n] /\ (n # 0 => f[n - 1] = g[n - 1])
      BY <1>1, <2>1
    <2> HIDE DEF f
    <2> QED
      BY <2>1, <2>2 DEF Powers
  <1>3. f = [n \in Nat |-> IF n = 0 THEN 1 ELSE 2 * f[n - 1]]
    <2> HIDE DEF f
    <2>1. f \in [Nat -> {f[n] : n \in Nat}]
      BY DEF f
    <2> QED
      BY <1>2, <2>1
  <1> HIDE DEF f
  <1> QED
    BY <1>3 DEF Pow2

LEMMA Pow2Doubles ==
  /\ Pow2[0] = 1
  /\ \A n \in Nat : Pow2[n] \in Nat /\ Pow2[n + 1] = 2 * Pow2[n]
  <1>1. \A n \in Nat : Pow2[n] = IF n = 0 THEN 1 ELSE 2 * Pow2[n - 1]
    BY Pow2Equation
  <1> DEFINE T == {n \in Nat : Pow2[n] \notin Nat}
  <1>2. T = {}
    <2> SUFFICES ASSUME T # {} PROVE FALSE
      OBVIOUS
    <2>1. PICK n \in T : \A m \in T : n <= m
      BY LeastNatural
    <2>2. n # 0 /\ n - 1 \in Nat /\ n - 1 \notin T
      BY <1>1, <2>1
    <2> QED
      BY <1>1, <2>2
  <1> QED
    BY <1>1, <1>2

\* Doubling the delay after a failure is one power of two more, under the cap.
LEMMA BackoffDoubles ==
  ASSUME NEW n \in Nat
  PROVE  /\ Backoff(0) = InitDelay
         /\ Doubled(Backoff(n)) = Backoff(n + 1)
  <1>1. Pow2[0] = 1 /\ Pow2[n] \in Nat /\ Pow2[n + 1] = 2 * Pow2[n]
    BY Pow2Doubles
  <1>2. InitDelay * 1 = InitDelay
    BY DelayAssumption
  <1>3. \A p \in Nat : InitDelay * p \in Nat /\ InitDelay * (2 * p) = 2 * (InitDelay * p)
    BY DelayAssumption
  <1> DEFINE d == InitDelay * Pow2[n]
  <1>4. d \in Nat /\ InitDelay * Pow2[n + 1] = 2 * d
    BY <1>1, <1>3
  <1>5. Backoff(n) = (IF d <= MaxDelay THEN d ELSE MaxDelay)
        /\ Backoff(n + 1) = (IF 2 * d <= MaxDelay THEN 2 * d ELSE MaxDelay)
    BY <1>4 DEF Backoff
  <1> HIDE DEF d
  <1>6. Doubled(Backoff(n)) = Backoff(n + 1)
    BY <1>4, <1>5, DelayAssumption DEF Doubled
  <1> QED
    BY <1>1, <1>2, <1>6, DelayAssumption DEF Backoff

-----------------------------------------------------------------------------
\* The steps of the generator but Subscribed and Yield, of the bus and the network.
Quiet ==
  \/ DialRefused \/ DialRaises \/ LossSeen \/ CloseSeen \/ SleepDone \/ Skip
  \/ LinkEnds \/ BusError

TypedInv == TypeOK /\ BufInv

\* The two halves of TypeOK.
Flags ==
  reconnect \in BOOLEAN /\ known \in BOOLEAN /\ past \in BOOLEAN /\ again \in BOOLEAN

Data ==
  /\ fromId \in Pos
  /\ pc \in {"dial", "recv", "yielded", "sleep", "raised", "ended"}
  /\ delay \in InitDelay..MaxDelay
  /\ cur \in Pos
  /\ link \in {"none", "open", "broken", "closed"}
  /\ buf \in Seq(Msg)
  /\ published \in Pos
  /\ acked \in 0..published
  /\ sent \in 0..published
  /\ faults \in 0..MaxFaults
  /\ fails \in Nat
  /\ base \in Pos \cup {-1}
  /\ seen \subseteq Msg

LEMMA Halves == (TypeOK <=> Flags /\ Data) /\ (TypeOK' <=> (Flags /\ Data)')
  BY DEF TypeOK, Flags, Data

-----------------------------------------------------------------------------
(* Types, and the order of what is buffered *)

LEMMA TypedInit == Init => TypedInv
<1> SUFFICES ASSUME Init PROVE TypedInv
  OBVIOUS
<1> USE BoundsAssumption, DelayAssumption DEF Pos, Msg
<1>1. acked \in 0..published
  BY DEF Init
<1>2. delay \in InitDelay..MaxDelay /\ faults \in 0..MaxFaults
  BY DEF Init
<1>3. buf \in Seq(Msg) /\ Len(buf) = 0
  BY DEF Init
<1>4. Data
  BY <1>1, <1>2, <1>3 DEF Init, Data
<1>5. Flags
  BY Zenon DEF Init, Flags
<1> QED
  BY <1>3, <1>4, <1>5, Halves DEF Init, TypedInv, BufInv, Active

\* The delay never leaves its range.
LEMMA DoubledInRange ==
  ASSUME NEW d \in InitDelay..MaxDelay
  PROVE  Doubled(d) \in InitDelay..MaxDelay
  BY DelayAssumption DEF Doubled

LEMMA SubscribedTyped == TypedInv /\ Subscribed => TypedInv'
<1> SUFFICES ASSUME TypedInv, Subscribed PROVE TypedInv'
  OBVIOUS
<1> USE BoundsAssumption, DelayAssumption
    DEF TypedInv, TypeOK, BufInv, Pos, Msg, Subscribed, argVars, busVars
<1>1. StartAt \in 0..published
  BY DEF StartAt
<1>2. buf' \in Seq(1..MaxMsgs) /\ Len(buf') = 0
  OBVIOUS
<1>3. TypeOK'
  BY <1>1, <1>2
<1>4. BufInv'
  BY <1>1, <1>2 DEF Active
<1> QED
  BY <1>3, <1>4

LEMMA QuietTyped == TypedInv /\ Quiet => TypedInv'
<1> SUFFICES ASSUME TypedInv, Quiet PROVE TypedInv'
  OBVIOUS
<1>1. Flags' /\ Data /\ BufInv
  <2>1. UNCHANGED <<reconnect, known, past, again>>
    BY DEF Quiet, DialRefused, DialRaises, LossSeen, CloseSeen, SleepDone, Skip, LinkEnds,
           BusError, argVars, busVars
  <2> QED
    BY <2>1, Halves DEF TypedInv, Flags
<1> USE BoundsAssumption, DelayAssumption
    DEF Data, BufInv, Active, Front, Pos, Msg, argVars, busVars, Fault
<1>2. CASE DialRefused \/ LossSeen
  <2>1. /\ pc' \in {"sleep", "raised"} /\ fails' \in Nat /\ faults' \in 0..MaxFaults
        /\ link' = "none"
    BY <1>1, <1>2 DEF DialRefused, LossSeen, Failed
  <2>2. buf' = <<>> /\ UNCHANGED <<fromId, delay, cur, published, acked, sent, base, seen>>
    BY <1>2 DEF DialRefused, LossSeen, Failed
  <2>3. buf' \in Seq(Msg) /\ Len(buf') = 0
    BY <2>2
  <2>4. Data'
    BY ONLY <1>1, <2>1, <2>2, <2>3 DEF Data
  <2>5. BufInv'
    BY ONLY <1>1, <2>1, <2>2, <2>3 DEF BufInv, Active
  <2> QED
    BY <1>1, <2>4, <2>5, Halves DEF TypedInv
<1>3. CASE DialRaises
  BY <1>1, <1>3, Halves DEF TypedInv, DialRaises
<1>4. CASE CloseSeen
  BY <1>1, <1>4, Halves DEF TypedInv, CloseSeen
<1>5. CASE SleepDone
  BY <1>1, <1>5, DoubledInRange, Halves DEF TypedInv, SleepDone
<1>6. CASE Skip
  BY <1>1, <1>6, Halves DEF TypedInv, Skip
<1>7. CASE LinkEnds
  BY <1>1, <1>7, Halves DEF TypedInv, LinkEnds
<1>8. CASE BusError
  BY <1>1, <1>8, Halves DEF TypedInv, BusError
<1> QED
  BY <1>2, <1>3, <1>4, <1>5, <1>6, <1>7, <1>8 DEF Quiet

\* The head of the buffer is the next position.
LEMMA YieldTyped == TypedInv /\ Yield => TypedInv' /\ cur' = Front + 1 /\ Front' = Front + 1
<1> SUFFICES ASSUME TypedInv, Yield
             PROVE  TypedInv' /\ cur' = Front + 1 /\ Front' = Front + 1
  OBVIOUS
<1> USE DEF TypedInv, Yield, argVars, busVars
<1>1. buf \in Seq(Msg) /\ buf # <<>> /\ sent \in Int
  BY BoundsAssumption DEF TypeOK, Pos
<1>2. /\ Head(buf) = buf[1] /\ Head(buf) \in Msg /\ Len(buf) \in Nat /\ Len(buf) > 0
      /\ buf' \in Seq(Msg) /\ Len(buf') = Len(buf) - 1
      /\ \A i \in 1..Len(buf') : buf'[i] = buf[i + 1]
  BY <1>1
<1>3. cur' = Front + 1 /\ Front' = Front + 1
  BY <1>1, <1>2 DEF BufInv, Front
<1>4. TypeOK'
  <2>1. again' \in BOOLEAN /\ UNCHANGED <<reconnect, known, past>>
    BY Zenon
  <2>2. /\ cur' = Head(buf) /\ seen' = seen \cup {Head(buf)} /\ pc' = "yielded"
        /\ UNCHANGED <<fromId, delay, link, published, acked, sent, faults, fails, base>>
    OBVIOUS
  <2>3. Flags /\ Data
    BY Halves
  <2>4. Flags'
    BY <2>1, <2>3 DEF Flags
  <2>5. cur' \in Pos /\ seen' \subseteq Msg
    <3>1. Head(buf) \in Msg /\ seen \subseteq Msg
      BY <1>2, <2>3 DEF Data
    <3>2. Msg \subseteq Pos
      BY BoundsAssumption DEF Msg, Pos
    <3> QED
      BY ONLY <2>2, <3>1, <3>2
  <2>6. Data'
    BY ONLY <1>2, <2>2, <2>3, <2>5 DEF Data
  <2> QED
    BY <2>4, <2>6, Halves
<1>5. \A i \in 1..Len(buf') : buf'[i] = Front' + i
  BY <1>1, <1>2, <1>3 DEF BufInv, Front
<1> QED
  BY <1>3, <1>4, <1>5 DEF BufInv, Active

LEMMA ConsumerTyped ==
  ASSUME TypedInv, Ack \/ (\E m \in Msg : Nack(m))
  PROVE  TypedInv' /\ UNCHANGED Front /\ (Ack => cur = Front)
<1> USE BoundsAssumption
    DEF TypedInv, TypeOK, BufInv, Active, Front, Pos, Msg, argVars, busVars
<1>1. CASE Ack
  <2>1. cur <= published
    BY <1>1 DEF Ack
  <2> QED
    BY <1>1, <2>1 DEF Ack
<1>2. CASE \E m \in Msg : Nack(m)
  BY <1>2 DEF Nack, Ack
<1> QED
  BY <1>1, <1>2

LEMMA BusTyped == TypedInv /\ (PublishMsg \/ Deliver) => TypedInv' /\ UNCHANGED Front
<1> SUFFICES ASSUME TypedInv, PublishMsg \/ Deliver PROVE TypedInv' /\ UNCHANGED Front
  OBVIOUS
<1> USE BoundsAssumption DEF TypedInv, argVars, busVars
<1>1. CASE PublishMsg
  BY <1>1 DEF PublishMsg, TypeOK, BufInv, Active, Front, Pos, Msg
<1>2. CASE Deliver
  <2>1. buf \in Seq(Msg) /\ sent \in Nat /\ sent + 1 \in Msg /\ sent + 1 <= published
    BY <1>2 DEF Deliver, TypeOK, Pos, Msg
  <2>2. /\ buf' \in Seq(Msg) /\ Len(buf) \in Nat /\ Len(buf') = Len(buf) + 1
        /\ \A i \in 1..Len(buf) : buf'[i] = buf[i]
        /\ buf'[Len(buf) + 1] = sent + 1
    BY <1>2, <2>1 DEF Deliver
  <2>3. UNCHANGED Front
    BY <1>2, <2>1, <2>2 DEF Deliver, Front
  <2>4. TypeOK'
    BY <1>2, <2>1, <2>2 DEF Deliver, TypeOK, Pos, Msg
  <2>5. \A i \in 1..Len(buf') : buf'[i] = Front' + i
    BY <2>1, <2>2, <2>3 DEF BufInv, Front
  <2> QED
    BY <1>2, <2>3, <2>4, <2>5 DEF Deliver, BufInv, Active
<1> QED
  BY <1>1, <1>2

LEMMA TypedNext == TypedInv /\ [Next]_vars => TypedInv'
<1>1. TypedInv /\ UNCHANGED vars => TypedInv'
  BY DEF TypedInv, TypeOK, BufInv, Active, Front, vars, argVars, busVars
<1> QED
  BY <1>1, SubscribedTyped, QuietTyped, YieldTyped, ConsumerTyped, BusTyped
     DEF Next, GeneratorStep, ConsumerStep, Quiet

\* A subscription keeps its types for any log and any faults; its delay stays
\* between reconnect_delay and max_reconnect_delay.
THEOREM TypeCorrect == Spec => []TypeOK
<1>1. TypedInv => TypeOK
  BY DEF TypedInv
<1> QED
  BY <1>1, TypedInit, TypedNext, PTL DEF Spec

-----------------------------------------------------------------------------
(* Where a subscription resumes *)

LEMMA ResumeInit == Init => ResumeInv
<1> SUFFICES ASSUME Init PROVE ResumeInv
  OBVIOUS
<1> QED
  BY DEF Init, ResumeInv, Active

\* A link starts at the ack position, up to which everything was seen.
LEMMA SubscribedResumes == TypedInv /\ ResumeInv /\ Subscribed => ResumeInv'
<1> SUFFICES ASSUME TypedInv, ResumeInv, Subscribed, fromId = 0 PROVE ResumeInv'
  BY DEF ResumeInv, Subscribed, argVars
<1> USE DEF Subscribed, argVars, busVars
<1>1. acked \in Int /\ published \in Int /\ acked <= published
  BY BoundsAssumption DEF TypedInv, TypeOK, Pos
<1>2. sent' = (IF known THEN acked ELSE published) /\ Len(buf') = 0
  BY DEF StartAt
<1>3. Front' = IF known THEN acked ELSE published
  BY <1>1, <1>2 DEF Front
<1>4. past => base' = IF base = -1 THEN acked ELSE base
  BY DEF StartAt, ResumeInv
<1>5. past => \A m \in (base' + 1)..acked : m \in seen
  BY <1>1, <1>4 DEF ResumeInv
<1> QED
  BY <1>1, <1>3, <1>5 DEF ResumeInv, Active

LEMMA QuietResumes == TypedInv /\ ResumeInv /\ Quiet => ResumeInv'
<1> SUFFICES ASSUME TypedInv, ResumeInv, Quiet PROVE ResumeInv'
  OBVIOUS
<1> USE DEF ResumeInv, Active, Front, argVars, busVars
<1>1. CASE DialRefused \/ LossSeen
  BY <1>1 DEF DialRefused, LossSeen, Fault, Failed
<1>2. CASE DialRaises \/ CloseSeen \/ SleepDone
  BY <1>2 DEF DialRaises, CloseSeen, SleepDone
<1>3. CASE Skip \/ LinkEnds \/ BusError
  BY <1>3 DEF Skip, LinkEnds, BusError
<1> QED
  BY <1>1, <1>2, <1>3 DEF Quiet

LEMMA YieldResumes == TypedInv /\ ResumeInv /\ Yield => ResumeInv'
<1> SUFFICES ASSUME TypedInv, ResumeInv, Yield, fromId = 0 PROVE ResumeInv'
  BY DEF ResumeInv, Yield, argVars
<1> USE DEF Yield, argVars, busVars
<1>1. acked \in Int /\ base \in Int /\ Front \in Int
  BY BoundsAssumption DEF TypedInv, TypeOK, Pos, Front
<1>2. cur' = Front + 1 /\ Front' = Front + 1
  BY YieldTyped
<1>3. cur' > acked /\ acked <= Front'
  BY <1>1, <1>2 DEF ResumeInv, Active
<1>4. ~(cur' <= acked)
  BY <1>1, <1>2, <1>3
<1>5. ~again'
  BY <1>4, Zenon DEF ResumeInv
<1>6. past => \A m \in (base + 1)..Front' : m \in seen'
  BY <1>1, <1>2 DEF ResumeInv, Active
<1> QED
  BY <1>3, <1>5, <1>6 DEF ResumeInv, Active

\* The consumer acks no further than it has come; a nack only goes back.
LEMMA ConsumerResumes ==
  ASSUME TypedInv, ResumeInv, Ack \/ (\E m \in Msg : Nack(m))
  PROVE  ResumeInv'
<1> SUFFICES ASSUME fromId = 0 PROVE ResumeInv'
  BY DEF ResumeInv, Ack, Nack, argVars
<1>1. acked \in Int /\ base \in Int /\ Front \in Int /\ UNCHANGED Front /\ (Ack => cur = Front)
  BY ConsumerTyped, BoundsAssumption DEF TypedInv, TypeOK, Pos, Front
<1>2. CASE Ack
  BY <1>1, <1>2 DEF Ack, ResumeInv, Active, argVars
<1>3. CASE \E m \in Msg : Nack(m)
  BY <1>1, <1>3 DEF Nack, ResumeInv, Active, argVars, Msg
<1> QED
  BY <1>2, <1>3

LEMMA BusResumes == TypedInv /\ ResumeInv /\ (PublishMsg \/ Deliver) => ResumeInv'
<1> SUFFICES ASSUME TypedInv, ResumeInv, PublishMsg \/ Deliver PROVE ResumeInv'
  OBVIOUS
<1>1. UNCHANGED Front
  BY BusTyped
<1> QED
  BY <1>1 DEF PublishMsg, Deliver, ResumeInv, Active, argVars, busVars

LEMMA ResumeNext == TypedInv /\ ResumeInv /\ [Next]_vars => ResumeInv'
<1>1. ResumeInv /\ UNCHANGED vars => ResumeInv'
  BY DEF ResumeInv, Active, Front, vars, argVars, busVars
<1> QED
  BY <1>1, SubscribedResumes, QuietResumes, YieldResumes, ConsumerResumes, BusResumes
     DEF Next, GeneratorStep, ConsumerStep, Quiet

\* With from_id = "", no acked message is yielded again, for any log, any faults,
\* and any acks and nacks that cross them.
THEOREM NothingAckedAgain == Spec => []NoAckedAgain
<1>1. ResumeInv => NoAckedAgain
  BY DEF ResumeInv, NoAckedAgain
<1> QED
  BY <1>1, TypedInit, TypedNext, ResumeInit, ResumeNext, PTL DEF Spec

\* A subscriber that had an ack position never acks past a message it did not get.
THEOREM AcksCoverSeen == Spec => []AckCoversSeen
<1>1. ResumeInv => AckCoversSeen
  BY DEF ResumeInv, AckCoversSeen
<1> QED
  BY <1>1, TypedInit, TypedNext, ResumeInit, ResumeNext, PTL DEF Spec

-----------------------------------------------------------------------------
(* The delays *)

LEMMA BackoffInit == Init => BackoffInv
<1>1. Backoff(0) = InitDelay
  BY BackoffDoubles
<1> QED
  BY <1>1 DEF Init, BackoffInv

\* A failure is counted where the generator goes to sleep, and the delay is
\* doubled where it wakes.
LEMMA BackoffNext == TypeOK /\ BackoffInv /\ [Next]_vars => BackoffInv'
<1> SUFFICES ASSUME TypeOK, BackoffInv, [Next]_vars PROVE BackoffInv'
  OBVIOUS
<1> USE DEF BackoffInv
<1>0. fails \in Nat /\ Backoff(0) = InitDelay
  BY BackoffDoubles DEF TypeOK
<1>1. CASE Subscribed
  BY <1>1 DEF Subscribed
<1>2. CASE DialRefused \/ LossSeen
  <2>1. delay' = delay /\ delay = Backoff(fails)
    BY <1>0, <1>2 DEF DialRefused, LossSeen
  <2>2. (pc' = "sleep" /\ fails' = fails + 1) \/ pc' = "raised"
    BY <1>2 DEF DialRefused, LossSeen, Failed
  <2>3. (fails + 1) - 1 = fails /\ fails + 1 > 0
    BY <1>0
  <2> QED
    BY <2>1, <2>2, <2>3
<1>3. CASE CloseSeen
  BY <1>0, <1>3 DEF CloseSeen
<1>4. CASE SleepDone
  <2>1. fails - 1 \in Nat /\ (fails - 1) + 1 = fails /\ delay = Backoff(fails - 1)
    BY <1>0, <1>4 DEF SleepDone
  <2>2. Doubled(delay) = Backoff(fails)
    BY <2>1, BackoffDoubles
  <2> QED
    BY <1>4, <2>2 DEF SleepDone
<1>5. CASE DialRaises \/ BusError
  BY <1>5 DEF DialRaises, BusError
<1>6. CASE Yield \/ ConsumerStep
  BY <1>6 DEF Yield, ConsumerStep, Ack, Nack, Skip
<1>7. CASE PublishMsg \/ Deliver \/ LinkEnds \/ UNCHANGED vars
  <2>1. UNCHANGED <<pc, delay, fails>>
    BY <1>7 DEF PublishMsg, Deliver, LinkEnds, vars
  <2> QED
    BY <2>1 DEF Backoff
<1> QED
  BY <1>1, <1>2, <1>3, <1>4, <1>5, <1>6, <1>7 DEF Next, GeneratorStep

\* The n-th failure in a row is followed by a sleep of InitDelay * 2^(n-1),
\* capped, for every first delay, every cap and every n.
THEOREM BackoffIsExact == Spec => []BackoffExact
<1>1. BackoffInv => BackoffExact
  BY DEF BackoffInv, BackoffExact
<1> QED
  BY <1>1, TypedInit, TypedNext, BackoffInit, BackoffNext, PTL DEF Spec, TypedInv

================================================================================
