------------------------------ MODULE Subscription ------------------------------
(***************************************************************************)
(* BusClient.subscribe (khonliang_bus/client.py): an async generator over  *)
(* the messages of one topic, with ack() and nack() called by its consumer *)
(* between two messages. Messages are named by their position in the       *)
(* topic's log; position 0 stands for "".                                  *)
(*                                                                         *)
(* External: the bus, as the docstrings of subscribe, ack and nack state   *)
(* it (a log, an ack position per subscriber, delivery in order from the   *)
(* position the subscription starts at), and the socket library, whose     *)
(* `async for' ends without an exception when the peer closes cleanly.     *)
(***************************************************************************)
EXTENDS Integers, Sequences

CONSTANTS
  MaxMsgs,    \* bound: messages published on the topic
  MaxFaults,  \* bound: dials that fail and links that end
  InitDelay,  \* reconnect_delay
  MaxDelay    \* max_reconnect_delay

ASSUME BoundsAssumption == MaxMsgs \in Nat /\ MaxFaults \in Nat
ASSUME DelayAssumption ==
  InitDelay \in Nat \ {0} /\ MaxDelay \in Nat /\ InitDelay <= MaxDelay

Msg == 1..MaxMsgs
Pos == 0..MaxMsgs

VARIABLES
  fromId,     \* the from_id argument
  reconnect,  \* the reconnect argument
  pc,         \* where the generator waits
  delay,      \* its local delay
  cur,        \* the message the consumer holds
  link,       \* the socket: none, open, broken by a loss, closed cleanly
  buf,        \* messages in the socket's buffer
  published,  \* external: the length of the topic's log
  acked,      \* external: the subscriber's ack position
  known,      \* external: the subscriber has an ack position
  sent,       \* external: the last position sent on this link
  faults,     \* faults spent
  fails,      \* history: failures since the last subscription
  past,       \* history: it had one before the first subscription
  base,       \* history: the position the first subscription started at
  seen,       \* history: messages the consumer got
  again       \* history: a message the consumer got was acked already

argVars == <<fromId, reconnect>>
busVars == <<published, acked, known>>
vars == <<argVars, pc, delay, cur, link, buf, busVars, sent, faults, fails, past, base, seen,
          again>>

TypeOK ==
  /\ fromId \in Pos
  /\ reconnect \in BOOLEAN
  /\ pc \in {"dial", "recv", "yielded", "sleep", "raised", "ended"}
  /\ delay \in InitDelay..MaxDelay
  /\ cur \in Pos
  /\ link \in {"none", "open", "broken", "closed"}
  /\ buf \in Seq(Msg)
  /\ published \in Pos
  /\ acked \in 0..published
  /\ known \in BOOLEAN
  /\ sent \in 0..published
  /\ faults \in 0..MaxFaults
  /\ fails \in Nat
  /\ past \in BOOLEAN
  /\ base \in Pos \cup {-1}
  /\ seen \subseteq Msg
  /\ again \in BOOLEAN

\* The subscriber may have a past: messages, and an ack position in them.
Init ==
  /\ published \in Pos
  /\ fromId \in 0..published
  /\ reconnect \in BOOLEAN
  /\ known \in BOOLEAN
  /\ acked \in IF known THEN 0..published ELSE {0}
  /\ pc = "dial"
  /\ delay = InitDelay
  /\ cur = 0
  /\ link = "none"
  /\ buf = <<>>
  /\ sent = 0
  /\ faults = 0
  /\ fails = 0
  /\ past = known
  /\ base = -1
  /\ seen = {}
  /\ again = FALSE

-----------------------------------------------------------------------------
(* subscribe() *)

Fault == faults < MaxFaults /\ faults' = faults + 1

\* External: where the bus starts a subscription: after from_id, after the last
\* acked message, or with new messages only.
StartAt == IF fromId # 0 THEN fromId ELSE IF known THEN acked ELSE published

\* Faulty variant: the delay is reset only when a message arrives.
SubscribedNoReset ==
  /\ pc = "dial"
  /\ link' = "open"
  /\ sent' = StartAt
  /\ base' = IF base = -1 THEN StartAt ELSE base
  /\ buf' = <<>>
  /\ fails' = 0
  /\ pc' = "recv"
  /\ UNCHANGED <<argVars, delay, cur, busVars, faults, past, seen, again>>

\* Faulty variant: a reconnection asks again for the first position.
SubscribedAtBase ==
  /\ pc = "dial"
  /\ link' = "open"
  /\ sent' = IF base = -1 THEN StartAt ELSE base
  /\ base' = IF base = -1 THEN StartAt ELSE base
  /\ buf' = <<>>
  /\ fails' = 0
  /\ delay' = InitDelay
  /\ pc' = "recv"
  /\ UNCHANGED <<argVars, cur, busVars, faults, past, seen, again>>

\* Faulty variant: every subscription starts with new messages.
SubscribedAtEnd ==
  /\ pc = "dial"
  /\ link' = "open"
  /\ sent' = published
  /\ base' = IF base = -1 THEN StartAt ELSE base
  /\ buf' = <<>>
  /\ fails' = 0
  /\ delay' = InitDelay
  /\ pc' = "recv"
  /\ UNCHANGED <<argVars, cur, busVars, faults, past, seen, again>>

\* The connection opens and the subscription, with the same from_id each time,
\* is sent; the delay starts again from the first.
Subscribed ==
  /\ pc = "dial"
  /\ link' = "open"
  /\ sent' = StartAt
  /\ base' = IF base = -1 THEN StartAt ELSE base
  /\ buf' = <<>>
  /\ fails' = 0
  /\ delay' = InitDelay
  /\ pc' = "recv"
  /\ UNCHANGED <<argVars, cur, busVars, faults, past, seen, again>>

\* The `except': the error goes to the caller, or the generator sleeps.
Failed ==
  /\ link' = "none"
  /\ buf' = <<>>
  /\ IF reconnect
       THEN pc' = "sleep" /\ fails' = fails + 1
       ELSE pc' = "raised" /\ UNCHANGED fails

\* Faulty variant: a refused dial ends the iteration.
DialRefusedEnds ==
  /\ pc = "dial"
  /\ Fault
  /\ pc' = "ended"
  /\ UNCHANGED <<argVars, delay, cur, link, buf, busVars, sent, fails, past, base, seen,
                 again>>

DialRefused ==
  /\ pc = "dial"
  /\ Fault
  /\ Failed
  /\ UNCHANGED <<argVars, delay, cur, busVars, sent, past, base, seen, again>>

\* A handshake answered with another status, or a clean close before the send:
\* exceptions that are none of the three, and go to the caller.
DialRaises ==
  /\ pc = "dial"
  /\ Fault
  /\ pc' = "raised"
  /\ UNCHANGED <<argVars, delay, cur, link, buf, busVars, sent, fails, past, base, seen, again>>

\* `yield': the consumer gets the next buffered message.
Yield ==
  /\ pc = "recv"
  /\ buf # <<>>
  /\ cur' = Head(buf)
  /\ buf' = Tail(buf)
  /\ seen' = seen \cup {Head(buf)}
  /\ again' = (again \/ Head(buf) <= acked)
  /\ pc' = "yielded"
  /\ UNCHANGED <<argVars, delay, link, busVars, sent, faults, fails, past, base>>

\* A lost link shows when its buffer is empty.
LossSeen ==
  /\ pc = "recv"
  /\ link = "broken"
  /\ buf = <<>>
  /\ Failed
  /\ UNCHANGED <<argVars, delay, cur, busVars, sent, faults, past, base, seen, again>>

\* A clean close ends the `async for' without an exception, the `except
\* ConnectionClosedOK' is not reached, and the loop dials again at once.
CloseSeen ==
  /\ pc = "recv"
  /\ link = "closed"
  /\ buf = <<>>
  /\ link' = "none"
  /\ pc' = "dial"
  /\ UNCHANGED <<argVars, delay, cur, buf, busVars, sent, faults, fails, past, base, seen, again>>

Doubled(d) == IF 2 * d <= MaxDelay THEN 2 * d ELSE MaxDelay

SleepDone ==
  /\ pc = "sleep"
  /\ delay' = Doubled(delay)
  /\ pc' = "dial"
  /\ UNCHANGED <<argVars, cur, link, buf, busVars, sent, faults, fails, past, base, seen, again>>

-----------------------------------------------------------------------------
(* The consumer, before it asks for the next message *)

\* ack() of the message it holds.
Ack ==
  /\ pc = "yielded"
  /\ acked' = IF cur > acked THEN cur ELSE acked
  /\ known' = TRUE
  /\ pc' = "recv"
  /\ cur' = 0
  /\ UNCHANGED <<argVars, delay, link, buf, published, sent, faults, fails, past, base, seen,
                 again>>

\* nack() of a message it got: "rolls back the ack position so this message (and
\* any after it) will be redelivered on next subscribe" (client.py:136).
Nack(m) ==
  /\ pc = "yielded"
  /\ m \in seen
  /\ acked' = IF m <= acked THEN m - 1 ELSE acked
  /\ pc' = "recv"
  /\ cur' = 0
  /\ UNCHANGED <<argVars, delay, link, buf, published, known, sent, faults, fails, past,
                 base, seen, again>>

\* Neither, or the POST failed.
Skip ==
  /\ pc = "yielded"
  /\ pc' = "recv"
  /\ cur' = 0
  /\ UNCHANGED <<argVars, delay, link, buf, busVars, sent, faults, fails, past, base, seen,
                 again>>

-----------------------------------------------------------------------------
(* External: publishers, the bus and the network *)

PublishMsg ==
  /\ published < MaxMsgs
  /\ published' = published + 1
  /\ UNCHANGED <<argVars, pc, delay, cur, link, buf, acked, known, sent, faults, fails, past,
                 base, seen, again>>

Deliver ==
  /\ link = "open"
  /\ sent < published
  /\ sent' = sent + 1
  /\ buf' = Append(buf, sent + 1)
  /\ UNCHANGED <<argVars, pc, delay, cur, link, busVars, faults, fails, past, base, seen, again>>

\* The bus closes (it stops, say), or the link is lost.
LinkEnds ==
  /\ link = "open"
  /\ Fault
  /\ link' \in {"broken", "closed"}
  /\ UNCHANGED <<argVars, pc, delay, cur, buf, busVars, sent, fails, past, base, seen, again>>

\* The bus reports an error: RuntimeError to the caller, after the messages it
\* sent before.
BusError ==
  /\ pc = "recv"
  /\ link = "open"
  /\ buf = <<>>
  /\ Fault
  /\ pc' = "raised"
  /\ link' = "none"
  /\ UNCHANGED <<argVars, delay, cur, buf, busVars, sent, fails, past, base, seen, again>>

GeneratorStep ==
  Subscribed \/ DialRefused \/ DialRaises \/ Yield \/ LossSeen \/ CloseSeen \/ SleepDone

ConsumerStep == Ack \/ (\E m \in Msg : Nack(m)) \/ Skip

Next == GeneratorStep \/ ConsumerStep \/ PublishMsg \/ Deliver \/ LinkEnds \/ BusError

Spec == Init /\ [][Next]_vars

\* The consumer goes on iterating, and the bus delivers what it has.
FairSpec == Spec /\ WF_vars(GeneratorStep) /\ WF_vars(ConsumerStep) /\ WF_vars(Deliver)

-----------------------------------------------------------------------------
(* Properties *)

\* A subscriber that had an ack position before never acks its way past a
\* message it did not get: through losses, reconnections, acks and nacks the
\* position moves only over messages its consumer saw.
AckCoversSeen ==
  fromId = 0 /\ past /\ base # -1 => \A m \in (base + 1)..acked : m \in seen

\* A message that was acked is not delivered again, whatever was in the buffer
\* when the link ended (from_id = "").
NoAckedAgain == fromId = 0 => ~again

Pow2[n \in Nat] == IF n = 0 THEN 1 ELSE 2 * Pow2[n - 1]

\* The delay after n failures more than the first.
Backoff(n) ==
  IF InitDelay * Pow2[n] <= MaxDelay THEN InitDelay * Pow2[n] ELSE MaxDelay

\* The sleep after the n-th failure in a row is InitDelay * 2^(n-1), capped.
BackoffExact == pc = "sleep" => delay = Backoff(fails - 1)

\* Such a subscriber gets every message published, unless subscribe raises.
EventuallySeen ==
  \A m \in Msg :
    (fromId = 0 /\ past /\ reconnect /\ base # -1 /\ base < m /\ m <= published)
      ~> (m \in seen \/ pc = "raised")

\* "Clean close, don't reconnect" (client.py:192), and no reconnection with
\* reconnect=False (client.py:199): false, a clean close leads to a new dial.
NoRedialWhenOff == ~reconnect /\ base # -1 => pc # "dial"

-----------------------------------------------------------------------------
(* Strengthenings, for the proofs *)

\* The argument for BackoffExact: the delay is doubled after the sleep, reset
\* by a subscription, and kept by a clean close.
BackoffInv ==
  /\ pc \in {"recv", "yielded"} => delay = InitDelay /\ fails = 0
  /\ pc = "dial" => delay = Backoff(fails)
  /\ pc = "sleep" => fails > 0 /\ delay = Backoff(fails - 1)

Active == pc \in {"recv", "yielded"}

\* The position the link has come to with the consumer.
Front == sent - Len(buf)

\* What is buffered continues what was yielded.
BufInv ==
  /\ fromId <= published
  /\ \A i \in 1..Len(buf) : buf[i] = Front + i
  /\ pc = "yielded" => cur = Front
  /\ Active => base # -1

\* The argument for NoAckedAgain and AckCoversSeen: a link starts at the ack
\* position, which then moves no further than the consumer.
ResumeInv ==
  fromId = 0 =>
    /\ ~again
    /\ Active => acked <= Front
    /\ past => known
    /\ past /\ base # -1 => \A m \in (base + 1)..acked : m \in seen
    /\ past /\ Active => \A m \in (base + 1)..Front : m \in seen

================================================================================
