-------------------------- MODULE RequestCycleProofs --------------------------
(***************************************************************************)
(* RequestCycle, for every set of agents, every call graph and every       *)
(* timeout: types, the order of the two timeouts, what a knot is, and that *)
(* a patient call expires only behind a knot or a dropped frame.           *)
(***************************************************************************)
EXTENDS RequestCycle, SequenceTheorems, FiniteSetTheorems, TLAPS

(***************************************************************************)
(* What each clock of a call says in each phase: its caller has waited for *)
(* what the network took and for what the bus held it.                     *)
(***************************************************************************)
Elapsed(c) == age[c] + lag[c] = net + held[c]
ClockOK(c) ==
  /\ net < Grace => phase[c] # "gaveup"
  /\ phase[c] = "unused" => age[c] = 0 /\ lag[c] = net
  /\ phase[c] \in {"unused", "posted"} => held[c] = 0
  /\ phase[c] \in Pending => Elapsed(c) /\ held[c] <= AtLeast0(limit[c])
ClockInv == \A c \in Id : ClockOK(c)

(***************************************************************************)
(* Where requests are: at the agent that handles them, and made by a       *)
(* handler that may make them.                                             *)
(***************************************************************************)
AtHome(a, r) == phase[r] # "unused" /\ At[op[r]] = a
HomeInv ==
  /\ \A a \in Agent : cur[a] # Nobody => AtHome(a, cur[a])
  /\ \A a \in Agent : \A i \in 1..Len(inbox[a]) : AtHome(a, inbox[a][i])
CallerInv ==
  \A n \in Id :
    phase[n] # "unused" /\ by[n] # Nobody =>
      phase[by[n]] # "unused" /\ op[n] \in Follows[op[by[n]]]

(***************************************************************************)
(* A knot is a cycle of agents: each stuck agent serves an operation whose *)
(* handler may call an operation of a stuck agent, itself included.        *)
(***************************************************************************)
StuckAgents == {At[op[r]] : r \in Stuck}
KnotsAreCycles ==
  \A a \in StuckAgents :
    \E o \in Op : At[o] = a /\ \E n \in Follows[o] : At[n] \in StuckAgents

-------------------------------------------------------------------------------
\* The end of a handler: a reply that fits JSON, or one that does not.
Replies(a) == \E fits \in BOOLEAN : Answer(a, fits)

LEMMA InitTypes == Init => TypeOK
  BY GraphAssumption, TimeAssumption
  DEF Init, TypeOK, Phases, Pending, Held, Transit, Envelopes, Nobody

\* The case split of every step: a call is made, by whom it may be, or one
\* action of a call, of a loop, or of time.
LEMMA Cases ==
  ASSUME TypeOK, Next
  PROVE  \/ \E c \in Id, o \in Op, r \in Id \cup {Nobody} :
              /\ Post(c, o, r)
              /\ r # Nobody => /\ r \in Running
                              /\ o \in Follows[op[r]]
         \/ \E c \in Id : Forward(c) \/ Refuse(c) \/ Expire(c) \/ Returns(c) \/ GivesUp(c)
         \/ \E a \in Agent : Take(a) \/ Replies(a)
         \/ \E a \in Agent : LinkDrops(a) \/ LinkRestored(a)
         \/ Tick
  <1>1. CASE \E c \in Id : Ask(c)
    BY <1>1, GraphAssumption DEF Ask
  <1>2. CASE \E a \in Agent : HandlerCalls(a)
    <2>1. PICK a \in Agent : HandlerCalls(a)
      BY <1>2
    <2>2. cur[a] \in Id /\ cur[a] \in Running
      BY <2>1 DEF TypeOK, HandlerCalls, Computes, Running
    <2>3. PICK c \in Id, o \in Follows[op[cur[a]]] : Post(c, o, cur[a])
      BY <2>1 DEF HandlerCalls
    <2>4. op[cur[a]] \in Op
      BY <2>2 DEF TypeOK
    <2>5. o \in Op
      BY <2>3, <2>4, GraphAssumption
    <2>6. cur[a] # Nobody
      BY <2>2 DEF Running
    <2> QED
      BY <2>2, <2>3, <2>5, <2>6
  <1> QED
    BY <1>1, <1>2 DEF Next, CallStep, HandlerEnds, HandlerReturns, HandlerRaises, Replies

LEMMA ReachTyped ==
  ASSUME TypeOK, NEW c \in Id, Reaches(c)
  PROVE  inbox' \in [Agent -> Seq(Id)]
  <1>1. At[op[c]] \in Agent
    BY GraphAssumption DEF TypeOK
  <1>2. Append(inbox[At[op[c]]], c) \in Seq(Id)
    BY <1>1, AppendProperties DEF TypeOK
  <1> QED
    BY <1>1, <1>2 DEF Reaches, TypeOK

\* What a link that ends does to the frames on it, and to their calls.
LEMMA DropTyped ==
  ASSUME TypeOK, NEW a \in Agent, LinkDrops(a)
  PROVE  /\ inbox' \in [Agent -> Seq(Id)]
         /\ \A d \in Id : phase'[d] = phase[d] \/ (phase[d] = "open" /\ phase'[d] = "lost")
         /\ \A d \in Id, b \in Agent : \A i \in DOMAIN inbox[b] :
              inbox[b][i] = d /\ phase'[d] = "open"
                => i \in DOMAIN inbox'[b] /\ inbox'[b][i] = d
         /\ \A b \in Agent : \A i \in DOMAIN inbox'[b] :
              i \in DOMAIN inbox[b] /\ inbox'[b][i] = inbox[b][i]
  <1>0. inbox \in [Agent -> Seq(Id)] /\ inbox[a] \in Seq(Id)
    BY DEF TypeOK
  <1>1. PICK n \in 0..Len(inbox[a]) :
          /\ inbox' = [inbox EXCEPT ![a] = SubSeq(@, 1, n)]
          /\ phase' = [d \in Id |-> IF phase[d] = "open" /\ d \in Dropped(a, n)
                                      THEN "lost" ELSE phase[d]]
    BY DEF LinkDrops
  <1>2. /\ SubSeq(inbox[a], 1, n) \in Seq(Id) /\ DOMAIN SubSeq(inbox[a], 1, n) = 1..n
        /\ \A i \in 1..n : SubSeq(inbox[a], 1, n)[i] = inbox[a][i]
        /\ 1..n \subseteq DOMAIN inbox[a]
    BY <1>0
  <1>3. \A b \in Agent : inbox'[b] = IF b = a THEN SubSeq(inbox[a], 1, n) ELSE inbox[b]
    BY <1>0, <1>1
  <1>4. inbox' \in [Agent -> Seq(Id)]
    BY <1>0, <1>1, <1>2
  <1>5. \A d \in Id : phase'[d] = phase[d] \/ (phase[d] = "open" /\ phase'[d] = "lost")
    BY <1>1
  <1>6. ASSUME NEW d \in Id, NEW b \in Agent, NEW i \in DOMAIN inbox[b],
               inbox[b][i] = d, phase'[d] = "open"
        PROVE  i \in DOMAIN inbox'[b] /\ inbox'[b][i] = d
    <2>1. CASE b # a
      BY <1>3, <1>6, <2>1
    <2>2. CASE b = a
      <3>1. d \notin Dropped(a, n)
        BY <1>1, <1>6
      <3>2. i \notin (n + 1)..Len(inbox[a]) /\ i \in 1..Len(inbox[a])
        BY <1>0, <1>6, <2>2, <3>1 DEF Dropped
      <3>3. i \in 1..n
        BY <3>2
      <3> QED
        BY <1>2, <1>3, <1>6, <2>2, <3>3
    <2> QED
      BY <2>1, <2>2
  <1>7. ASSUME NEW b \in Agent, NEW i \in DOMAIN inbox'[b]
        PROVE  i \in DOMAIN inbox[b] /\ inbox'[b][i] = inbox[b][i]
    BY <1>2, <1>3, <1>7
  <1> QED
    BY <1>4, <1>5, <1>6, <1>7

LEMMA TypesKept == TypeOK /\ [Next]_vars => TypeOK'
  <1> SUFFICES ASSUME TypeOK, [Next]_vars PROVE TypeOK'
    OBVIOUS
  <1> USE DEF Phases, Pending, Held, Transit, Envelopes
  <1>1. ASSUME NEW c \in Id, NEW o \in Op, NEW r \in Id \cup {Nobody}, Post(c, o, r)
        PROVE  TypeOK'
    <2>1. PICK t \in Timeouts[o] : limit' = [limit EXCEPT ![c] = t]
      BY <1>1 DEF Post
    <2>2. t \in Int
      BY <2>1, TimeAssumption
    <2> QED
      BY <1>1, <2>1, <2>2 DEF Post, TypeOK, clocks, loops, links
  <1>2. ASSUME NEW c \in Id, Forward(c)
        PROVE  TypeOK'
    <2>2. inbox' \in [Agent -> Seq(Id)]
      BY <1>2, ReachTyped DEF Forward, TypeOK
    <2>3. phase' \in [Id -> Phases]
      BY <1>2 DEF Forward, TypeOK
    <2>4. UNCHANGED <<op, by, limit, net, age, held, lag, work, delayed, cur, up, losses>>
      BY <1>2 DEF Forward, clocks, links
    <2> QED
      BY <2>2, <2>3, <2>4 DEF TypeOK
  <1>3. ASSUME NEW c \in Id, Refuse(c) \/ Expire(c)
        PROVE  TypeOK'
    BY <1>3 DEF Refuse, Expire, TypeOK, clocks, loops, links
  <1>4. ASSUME NEW c \in Id, Returns(c) \/ GivesUp(c)
        PROVE  TypeOK'
    <2>1. PICK how \in {"done", "gaveup"} : Ends(c, how)
      BY <1>4 DEF Returns, GivesUp
    <2>2. phase' \in [Id -> Phases]
      BY <2>1 DEF Ends, TypeOK
    <2>3. age' \in [Id -> Nat] /\ held' \in [Id -> Nat]
      BY <2>1 DEF Ends, TypeOK
    <2>4. net' = net /\ lag' \in [Id -> 0..net]
      BY <2>1, TimeAssumption DEF Ends, TypeOK
    <2>5. UNCHANGED <<op, by, limit, cur, work, delayed, up, losses>>
      BY <2>1 DEF Ends, links
    <2>6. inbox' \in [Agent -> Seq(Id)]
      BY <1>4, ReachTyped DEF Returns, GivesUp, TypeOK
    <2> QED
      BY <2>2, <2>3, <2>4, <2>5, <2>6 DEF TypeOK
  <1>5. ASSUME NEW a \in Agent, Take(a)
        PROVE  TypeOK'
    <2>1. inbox[a] \in Seq(Id) /\ inbox[a] # <<>>
      BY <1>5 DEF Take, TypeOK
    <2>2. Head(inbox[a]) \in Id /\ Tail(inbox[a]) \in Seq(Id)
      BY <2>1, HeadTailProperties
    <2> QED
      BY <1>5, <2>2 DEF Take, TypeOK, calls, clocks, links
  <1>6. ASSUME NEW a \in Agent, Replies(a)
        PROVE  TypeOK'
    BY <1>6 DEF Replies, Answer, Computes, TypeOK, clocks, links
  <1>7. ASSUME Tick
        PROVE  TypeOK'
    <2>1. UNCHANGED <<phase, op, by, limit, net, inbox, cur, up, losses>>
      BY <1>7 DEF Tick, calls, loops, links
    <2>2. age' \in [Id -> Nat] /\ held' \in [Id -> Nat]
      BY <1>7 DEF Tick, TypeOK
    <2>3. lag' \in [Id -> 0..net]
      BY <1>7, TimeAssumption DEF Tick, TypeOK, InTransit
    <2>4. work' \in 0..MaxWork
      BY <1>7, TimeAssumption DEF Tick, TypeOK
    <2>5. delayed' \subseteq Id
      BY <1>7 DEF Tick, TypeOK, HeldUp
    <2> QED
      BY <2>1, <2>2, <2>3, <2>4, <2>5 DEF TypeOK
  <1>8. CASE UNCHANGED vars
    BY <1>8 DEF vars, calls, clocks, loops, links, TypeOK
  <1>9. ASSUME NEW a \in Agent, LinkDrops(a)
        PROVE  TypeOK'
    <2>1. inbox' \in [Agent -> Seq(Id)]
      BY <1>9, DropTyped
    <2>2. phase' \in [Id -> Phases]
      BY <1>9 DEF LinkDrops, TypeOK
    <2>3. up' \in [Agent -> BOOLEAN] /\ losses' \in 0..MaxLosses
      BY <1>9, TimeAssumption DEF LinkDrops, TypeOK
    <2>4. UNCHANGED <<op, by, limit, net, age, held, lag, work, delayed, cur>>
      BY <1>9 DEF LinkDrops, clocks
    <2> QED
      BY <2>1, <2>2, <2>3, <2>4 DEF TypeOK
  <1>10. ASSUME NEW a \in Agent, LinkRestored(a)
         PROVE  TypeOK'
    BY <1>10 DEF LinkRestored, TypeOK, calls, clocks, loops
  <1> QED
    BY <1>1, <1>2, <1>3, <1>4, <1>5, <1>6, <1>7, <1>8, <1>9, <1>10, Cases

\* Every variable has its type, for every call graph and every timeout.
THEOREM TypeCorrect == Spec => []TypeOK
  BY InitTypes, TypesKept, PTL DEF Spec

-------------------------------------------------------------------------------
(***************************************************************************)
(* The clocks.                                                             *)
(***************************************************************************)

LEMMA InitClocks == Init => ClockInv
  BY TimeAssumption DEF Init, ClockInv, ClockOK, Pending, Held, Transit, Envelopes

\* The caller's clock is what the network and the bus used of it, less than
\* its read timeout if the network is faster than the grace.
LEMMA NotYet ==
  ASSUME TypeOK, ClockInv, NEW c \in Id, phase[c] \in Pending, net < Grace
  PROVE  age[c] < ReadTimeout(c)
  <1>1. age[c] \in Nat /\ held[c] \in Nat /\ lag[c] \in 0..net /\ limit[c] \in Int
        /\ net \in Nat /\ Grace \in Nat
    BY TimeAssumption DEF TypeOK
  <1>2. age[c] + lag[c] = net + held[c] /\ held[c] <= AtLeast0(limit[c])
    BY DEF ClockInv, ClockOK, Elapsed
  <1>3. AtLeast0(limit[c]) \in Nat
    BY <1>1 DEF AtLeast0
  <1> QED
    BY <1>1, <1>2, <1>3, TimeAssumption DEF ReadTimeout

LEMMA ClocksKept == TypeOK /\ ClockInv /\ [Next]_vars => ClockInv'
  <1> SUFFICES ASSUME TypeOK, ClockInv, [Next]_vars, NEW d \in Id
               PROVE  ClockOK(d)'
    BY DEF ClockInv
  <1> USE DEF Pending, Held, Transit, Envelopes
  <1>0. ClockOK(d)
    BY DEF ClockInv
  <1>a. phase \in [Id -> Phases] /\ age \in [Id -> Nat] /\ held \in [Id -> Nat]
          /\ lag \in [Id -> 0..net] /\ limit \in [Id -> Int]
          /\ net \in Nat
    BY TimeAssumption DEF TypeOK
  <1>1. ASSUME NEW c \in Id, NEW o \in Op, NEW r \in Id \cup {Nobody}, Post(c, o, r)
        PROVE  ClockOK(d)'
    <2>1. PICK t \in Timeouts[o] : limit' = [limit EXCEPT ![c] = t]
      BY <1>1 DEF Post
    <2>2. t \in Int
      BY <2>1, TimeAssumption
    <2>3. UNCHANGED <<net, age, held, lag>>
      BY <1>1 DEF Post, clocks
    <2>4. phase[c] = "unused" /\ phase' = [phase EXCEPT ![c] = "posted"]
      BY <1>1 DEF Post
    <2>5. CASE d = c
      BY <2>1, <2>2, <2>3, <2>4, <2>5, <1>0, <1>a, TimeAssumption
         DEF ClockOK, Elapsed, AtLeast0
    <2>6. CASE d # c
      <3>1. phase'[d] = phase[d] /\ limit'[d] = limit[d]
        BY <2>1, <2>4, <2>6, <1>a
      <3> QED
        BY <3>1, <2>3, <1>0 DEF ClockOK, Elapsed, AtLeast0
    <2> QED
      BY <2>5, <2>6
  <1>2. ASSUME NEW c \in Id, Forward(c) \/ Refuse(c) \/ Expire(c)
        PROVE  ClockOK(d)'
    <2>1. UNCHANGED <<net, age, held, lag, limit>>
      BY <1>2 DEF Forward, Refuse, Expire, clocks
    <2>2. phase[c] \in {"posted", "open", "lost"}
      BY <1>2 DEF Forward, Refuse, Expire
    <2>3. PICK p \in {"open", "lost", "answer", "timeout"} : phase' = [phase EXCEPT ![c] = p]
      BY <1>2 DEF Forward, Refuse, Expire
    <2>4. phase'[d] = IF d = c THEN p ELSE phase[d]
      BY <2>3, <1>a
    <2> QED
      BY <2>1, <2>2, <2>3, <2>4, <1>0 DEF ClockOK, Elapsed, AtLeast0
  <1>3. ASSUME NEW c \in Id, NEW how \in {"done", "gaveup"}, Ends(c, how),
               net < Grace => how = "done"
        PROVE  ClockOK(d)'
    <2>2. phase'[d] = (IF d = c THEN how ELSE phase[d]) /\ UNCHANGED <<limit, net>>
      BY <1>3, <1>a DEF Ends
    <2>3. d # c => age'[d] = age[d] /\ held'[d] = held[d] /\ lag'[d] = lag[d]
      BY <1>3, <1>a DEF Ends
    <2>4. CASE d = c
      BY <1>3, <2>2, <2>4 DEF ClockOK
    <2>5. CASE d # c
      BY <2>2, <2>3, <2>5, <1>0 DEF ClockOK, Elapsed, AtLeast0
    <2> QED
      BY <2>4, <2>5
  <1>4. ASSUME NEW c \in Id, Returns(c) \/ GivesUp(c)
        PROVE  ClockOK(d)'
    <2>1. CASE Returns(c)
      BY <1>3, <2>1 DEF Returns
    <2>2. CASE GivesUp(c)
      <3>1. ASSUME net < Grace PROVE FALSE
        <4>1. age[c] < ReadTimeout(c) /\ age[c] >= ReadTimeout(c)
          BY <2>2, <3>1, NotYet DEF GivesUp
        <4>2. age[c] \in Int /\ ReadTimeout(c) \in Int
          BY <1>a, TimeAssumption DEF ReadTimeout, AtLeast0
        <4> QED
          BY <4>1, <4>2
      <3> QED
        BY <1>3, <2>2, <3>1 DEF GivesUp
    <2> QED
      BY <1>4, <2>1, <2>2
  <1>5. ASSUME NEW a \in Agent, Take(a)
        PROVE  ClockOK(d)'
    BY <1>5, <1>0 DEF Take, calls, clocks, ClockOK, Elapsed, AtLeast0
  <1>6. ASSUME NEW a \in Agent, Replies(a)
        PROVE  ClockOK(d)'
    <2>1. UNCHANGED <<net, age, held, lag, limit>>
      BY <1>6 DEF Replies, Answer, clocks
    <2>2. phase'[d] = phase[d] \/ (phase[d] = "open" /\ phase'[d] \in {"answer", "lost"})
      BY <1>6, <1>a DEF Replies, Answer
    <2> QED
      BY <2>1, <2>2, <1>0 DEF ClockOK, Elapsed, AtLeast0
  <1>7. ASSUME Tick
        PROVE  ClockOK(d)'
    <2>1. UNCHANGED <<phase, limit, net>>
      BY <1>7 DEF Tick, calls
    <2>2. age'[d] = IF phase[d] \in Pending THEN age[d] + 1 ELSE age[d]
      BY <1>7 DEF Tick
    <2>3. held'[d] = IF phase[d] \in Held THEN held[d] + 1 ELSE held[d]
      BY <1>7 DEF Tick
    <2>4. lag'[d] = IF phase[d] \in Transit THEN lag[d] - 1 ELSE lag[d]
      BY <1>7 DEF Tick, InTransit
    <2>5. phase[d] \in Held => held[d] < limit[d]
      BY <1>7, <1>a DEF Tick, Due
    <2>6. age[d] \in Nat /\ held[d] \in Nat /\ lag[d] \in 0..net /\ limit[d] \in Int
          /\ net \in Nat
      BY <1>a
    <2>7. CASE phase[d] \in Held
      BY <2>1, <2>2, <2>3, <2>4, <2>5, <2>6, <2>7, <1>0, TimeAssumption
         DEF ClockOK, Elapsed, AtLeast0
    <2>8. CASE phase[d] \in Transit
      BY <2>1, <2>2, <2>3, <2>4, <2>6, <2>8, <1>0, TimeAssumption
         DEF ClockOK, Elapsed, AtLeast0
    <2>9. CASE phase[d] \notin Pending
      BY <2>1, <2>2, <2>3, <2>4, <2>9, <1>0 DEF ClockOK
    <2> QED
      BY <2>7, <2>8, <2>9
  <1>8. CASE UNCHANGED vars
    BY <1>8, <1>0 DEF vars, calls, clocks, ClockOK, Elapsed, AtLeast0
  <1>9. ASSUME NEW a \in Agent, LinkDrops(a) \/ LinkRestored(a)
        PROVE  ClockOK(d)'
    <2>1. UNCHANGED <<net, age, held, lag, limit>>
      BY <1>9 DEF LinkDrops, LinkRestored, calls, clocks
    <2>2. phase'[d] = phase[d] \/ (phase[d] = "open" /\ phase'[d] = "lost")
      BY <1>9, DropTyped DEF LinkRestored, calls
    <2> QED
      BY <2>1, <2>2, <1>0 DEF ClockOK, Elapsed, AtLeast0
  <1> QED
    BY <1>1, <1>2, <1>4, <1>5, <1>6, <1>7, <1>8, <1>9, Cases

\* request() always returns the bus's envelope, for every timeout, negative
\* ones included, as long as the network takes less than the grace.
THEOREM EnvelopeAlwaysFirst == Spec => []EnvelopeFirst
  <1>1. TypeOK /\ ClockInv => EnvelopeFirst
    BY DEF ClockInv, ClockOK, EnvelopeFirst
  <1> QED
    BY <1>1, InitTypes, TypesKept, InitClocks, ClocksKept, PTL DEF Spec

-------------------------------------------------------------------------------
(***************************************************************************)
(* Requests are at home, and knots are cycles.                             *)
(***************************************************************************)

LEMMA InitHomes == Init => HomeInv /\ CallerInv
  BY DEF Init, HomeInv, CallerInv

\* A call that has been made stays made, with its operation and its caller.
LEMMA MadeStaysMade ==
  ASSUME TypeOK, [Next]_vars, NEW n \in Id, phase[n] # "unused"
  PROVE  phase'[n] # "unused" /\ op'[n] = op[n] /\ by'[n] = by[n]
  <1> USE DEF TypeOK
  <1>1. ASSUME NEW c \in Id, NEW o \in Op, NEW r \in Id \cup {Nobody}, Post(c, o, r)
        PROVE  phase'[n] # "unused" /\ op'[n] = op[n] /\ by'[n] = by[n]
    BY <1>1 DEF Post
  <1>2. ASSUME NEW c \in Id, Forward(c) \/ Refuse(c) \/ Expire(c)
        PROVE  phase'[n] # "unused" /\ op'[n] = op[n] /\ by'[n] = by[n]
    BY <1>2 DEF Forward, Refuse, Expire
  <1>3. ASSUME NEW c \in Id, Returns(c) \/ GivesUp(c)
        PROVE  phase'[n] # "unused" /\ op'[n] = op[n] /\ by'[n] = by[n]
    BY <1>3 DEF Returns, GivesUp, Ends
  <1>4. ASSUME NEW a \in Agent, Replies(a)
        PROVE  phase'[n] # "unused" /\ op'[n] = op[n] /\ by'[n] = by[n]
    BY <1>4 DEF Replies, Answer
  <1>5. (\E a \in Agent : Take(a)) \/ Tick \/ UNCHANGED vars
          => UNCHANGED <<phase, op, by>>
    BY DEF Take, Tick, vars, calls
  <1>6. ASSUME NEW a \in Agent, LinkDrops(a) \/ LinkRestored(a)
        PROVE  phase'[n] # "unused" /\ op'[n] = op[n] /\ by'[n] = by[n]
    BY <1>6, DropTyped DEF LinkDrops, LinkRestored, calls
  <1> QED
    BY <1>1, <1>2, <1>3, <1>4, <1>5, <1>6, Cases

LEMMA HomesKept == TypeOK /\ HomeInv /\ [Next]_vars => HomeInv'
  <1> SUFFICES ASSUME TypeOK, HomeInv, [Next]_vars PROVE HomeInv'
    OBVIOUS
  <1>0. cur \in [Agent -> Id \cup {Nobody}] /\ inbox \in [Agent -> Seq(Id)]
    BY DEF TypeOK
  <1>a. ASSUME NEW a \in Agent, NEW r \in Id, AtHome(a, r)
        PROVE  AtHome(a, r)'
    BY <1>a, MadeStaysMade DEF AtHome
  <1>b. ASSUME UNCHANGED <<cur, inbox>>
        PROVE  HomeInv'
    <2>1. ASSUME NEW a \in Agent, cur[a] # Nobody
          PROVE  AtHome(a, cur[a])'
      BY <1>0, <1>a, <1>b, <2>1 DEF HomeInv, AtHome
    <2>2. ASSUME NEW a \in Agent, NEW i \in 1..Len(inbox[a])
          PROVE  AtHome(a, inbox[a][i])'
      <3>1. inbox[a][i] \in Id /\ AtHome(a, inbox[a][i])
        BY <1>0 DEF HomeInv
      <3> QED
        BY <3>1, <1>a, <1>b DEF AtHome
    <2> QED
      BY <1>b, <2>1, <2>2 DEF HomeInv
  <1>1. ASSUME NEW c \in Id, phase[c] # "unused", Reaches(c), UNCHANGED cur
        PROVE  HomeInv'
    <2>1. At[op[c]] \in Agent
      BY GraphAssumption DEF TypeOK
    <2>2. cur' = cur /\ inbox' = [inbox EXCEPT ![At[op[c]]] = Append(@, c)]
      BY <1>1 DEF Reaches
    <2>3. AtHome(At[op[c]], c)
      BY <1>1 DEF AtHome
    <2>4. ASSUME NEW a \in Agent, cur'[a] # Nobody
          PROVE  AtHome(a, cur[a])'
      BY <1>0, <1>a, <2>2, <2>4 DEF HomeInv, AtHome
    <2>5. ASSUME NEW a \in Agent, NEW i \in 1..Len(inbox'[a])
          PROVE  AtHome(a, inbox[a][i])'
      <3>1. CASE inbox'[a] = inbox[a]
        <4>1. inbox[a][i] \in Id /\ AtHome(a, inbox[a][i])
          BY <1>0, <2>5, <3>1 DEF HomeInv
        <4> QED
          BY <4>1, <1>a, <3>1 DEF AtHome
      <3>2. CASE a = At[op[c]] /\ inbox'[a] = Append(inbox[a], c)
        <4>1. CASE i = Len(inbox[a]) + 1
          <5>1. inbox'[a][i] = c
            BY <1>0, <3>2, <4>1, AppendProperties
          <5>2. AtHome(a, c)'
            BY <1>a, <2>3, <3>2
          <5> QED
            BY <5>1, <5>2 DEF AtHome
        <4>2. CASE i \in 1..Len(inbox[a])
          <5>1. inbox[a][i] \in Id /\ AtHome(a, inbox[a][i])
            BY <1>0, <4>2 DEF HomeInv
          <5>2. inbox'[a][i] = inbox[a][i]
            BY <1>0, <3>2, <4>2, AppendProperties
          <5> QED
            BY <5>1, <5>2, <1>a DEF AtHome
        <4> QED
          BY <1>0, <2>5, <3>2, <4>1, <4>2, AppendProperties
      <3> QED
        BY <1>0, <2>1, <2>2, <3>1, <3>2
    <2> QED
      BY <2>4, <2>5 DEF HomeInv
  <1>2. ASSUME NEW b \in Agent, Take(b)
        PROVE  HomeInv'
    <2>1. inbox[b] \in Seq(Id) /\ inbox[b] # <<>>
      BY <1>0, <1>2 DEF Take
    <2>2. Head(inbox[b]) = inbox[b][1] /\ 1 \in 1..Len(inbox[b])
      BY <2>1
    <2>3. Head(inbox[b]) \in Id /\ AtHome(b, Head(inbox[b]))
      BY <1>0, <2>2 DEF HomeInv
    <2>4. ASSUME NEW a \in Agent, cur'[a] # Nobody
          PROVE  AtHome(a, cur[a])'
      <3>1. cur'[a] = IF a = b THEN Head(inbox[b]) ELSE cur[a]
        BY <1>0, <1>2 DEF Take
      <3>2. cur'[a] \in Id /\ AtHome(a, cur'[a])
        BY <1>0, <2>3, <2>4, <3>1 DEF HomeInv
      <3> QED
        BY <3>2, MadeStaysMade DEF AtHome
    <2>5. ASSUME NEW a \in Agent, NEW i \in 1..Len(inbox'[a])
          PROVE  AtHome(a, inbox[a][i])'
      <3>1. inbox'[a] = IF a = b THEN Tail(inbox[b]) ELSE inbox[a]
        BY <1>0, <1>2 DEF Take
      <3>2. PICK j \in 1..Len(inbox[a]) : inbox'[a][i] = inbox[a][j]
        <4>1. CASE a = b
          <5>1. i + 1 \in 1..Len(inbox[a]) /\ Tail(inbox[a])[i] = inbox[a][i + 1]
            BY <2>1, <2>5, <3>1, <4>1, HeadTailProperties
          <5> QED
            BY <3>1, <4>1, <5>1
        <4>2. CASE a # b
          BY <2>5, <3>1, <4>2
        <4> QED
          BY <4>1, <4>2
      <3>3. inbox[a][j] \in Id /\ AtHome(a, inbox[a][j])
        BY <1>0, <3>2 DEF HomeInv
      <3> QED
        BY <3>2, <3>3, MadeStaysMade DEF AtHome
    <2> QED
      BY <2>4, <2>5 DEF HomeInv
  <1>3. ASSUME NEW b \in Agent, Replies(b)
        PROVE  HomeInv'
    <2>1. inbox' = inbox /\ \A a \in Agent : cur'[a] \in {cur[a], Nobody}
      BY <1>0, <1>3 DEF Replies, Answer
    <2>2. ASSUME NEW a \in Agent, cur'[a] # Nobody
          PROVE  AtHome(a, cur[a])'
      <3>1. cur'[a] = cur[a] /\ cur[a] \in Id /\ AtHome(a, cur[a])
        BY <1>0, <2>1, <2>2 DEF HomeInv
      <3> QED
        BY <3>1, <1>a DEF AtHome
    <2>3. ASSUME NEW a \in Agent, NEW i \in 1..Len(inbox[a])
          PROVE  AtHome(a, inbox[a][i])'
      <3>1. inbox[a][i] \in Id /\ AtHome(a, inbox[a][i])
        BY <1>0 DEF HomeInv
      <3> QED
        BY <3>1, <2>1, <1>a DEF AtHome
    <2> QED
      BY <2>1, <2>2, <2>3 DEF HomeInv
  <1>4. ASSUME NEW c \in Id,
               Forward(c) \/ Refuse(c) \/ Expire(c) \/ Returns(c) \/ GivesUp(c)
        PROVE  HomeInv'
    <2>1. CASE UNCHANGED <<cur, inbox>>
      BY <1>b, <2>1
    <2>2. CASE Reaches(c) /\ UNCHANGED cur /\ phase[c] = "posted"
      BY <1>1, <2>2
    <2> QED
      BY <1>4, <2>1, <2>2 DEF Forward, Refuse, Expire, Returns, GivesUp, Ends, loops
  <1>5. (\E c \in Id, o \in Op, r \in Id \cup {Nobody} : Post(c, o, r))
          => UNCHANGED <<cur, inbox>>
    BY DEF Post, loops
  <1>6. Tick \/ UNCHANGED vars => UNCHANGED <<cur, inbox>>
    BY DEF Tick, vars, loops
  <1>7. ASSUME NEW b \in Agent, LinkDrops(b)
        PROVE  HomeInv'
    <2>1. ASSUME NEW a \in Agent, cur'[a] # Nobody
          PROVE  AtHome(a, cur[a])'
      <3>1. cur'[a] = cur[a] /\ cur[a] \in Id /\ AtHome(a, cur[a])
        BY <1>0, <1>7, <2>1 DEF LinkDrops, HomeInv
      <3> QED
        BY <3>1, <1>a DEF AtHome
    <2>2. ASSUME NEW a \in Agent, NEW i \in 1..Len(inbox'[a])
          PROVE  AtHome(a, inbox[a][i])'
      <3>1. i \in 1..Len(inbox[a]) /\ inbox'[a][i] = inbox[a][i]
        BY <1>0, <1>7, DropTyped
      <3>2. inbox[a][i] \in Id /\ AtHome(a, inbox[a][i])
        BY <1>0, <3>1 DEF HomeInv
      <3> QED
        BY <3>1, <3>2, <1>a DEF AtHome
    <2> QED
      BY <2>1, <2>2 DEF HomeInv
  <1>8. (\E a \in Agent : LinkRestored(a)) => UNCHANGED <<cur, inbox>>
    BY DEF LinkRestored, loops
  <1> QED
    BY <1>b, <1>2, <1>3, <1>4, <1>5, <1>6, <1>7, <1>8, Cases

LEMMA CallersKept == TypeOK /\ HomeInv /\ CallerInv /\ [Next]_vars => CallerInv'
  <1> SUFFICES ASSUME TypeOK, HomeInv, CallerInv, [Next]_vars,
                      NEW n \in Id, phase'[n] # "unused", by'[n] # Nobody
               PROVE  phase'[by'[n]] # "unused" /\ op'[n] \in Follows[op'[by'[n]]]
    BY DEF CallerInv
  <1>0. by \in [Id -> Id \cup {Nobody}]
    BY DEF TypeOK
  <1>1. CASE phase[n] # "unused"
    <2>1. by'[n] = by[n] /\ op'[n] = op[n]
      BY <1>1, MadeStaysMade
    <2>2. by[n] \in Id /\ phase[by[n]] # "unused" /\ op[n] \in Follows[op[by[n]]]
      BY <1>0, <1>1, <2>1 DEF CallerInv
    <2>3. phase'[by[n]] # "unused" /\ op'[by[n]] = op[by[n]]
      BY <2>2, MadeStaysMade
    <2> QED
      BY <2>1, <2>2, <2>3
  <1>2. CASE phase[n] = "unused"
    <2>1. PICK c \in Id, o \in Op, r \in Id \cup {Nobody} :
            /\ Post(c, o, r)
            /\ r # Nobody => r \in Running /\ o \in Follows[op[r]]
      <3>1. ASSUME NEW c \in Id,
                   Forward(c) \/ Refuse(c) \/ Expire(c) \/ Returns(c) \/ GivesUp(c)
            PROVE  phase'[n] = "unused"
        BY <1>2, <3>1 DEF Forward, Refuse, Expire, Returns, GivesUp, Ends, TypeOK,
                          Pending, Held, Transit, Envelopes
      <3>2. ASSUME NEW a \in Agent, Take(a) \/ Replies(a)
            PROVE  phase'[n] = "unused"
        BY <1>2, <3>2 DEF Take, Replies, Answer, TypeOK, calls
      <3>3. Tick \/ UNCHANGED vars => phase' = phase
        BY DEF Tick, vars, calls
      <3>4. ASSUME NEW a \in Agent, LinkDrops(a) \/ LinkRestored(a)
            PROVE  phase'[n] = "unused"
        BY <1>2, <3>4, DropTyped DEF LinkRestored, calls
      <3> QED
        BY <1>2, <3>1, <3>2, <3>3, <3>4, Cases
    <2>2. n = c
      BY <1>2, <2>1 DEF Post, TypeOK
    <2>3. op'[n] = o /\ by'[n] = r
      BY <2>1, <2>2 DEF Post, TypeOK
    <2>4. r \in Running /\ o \in Follows[op[r]]
      BY <2>1, <2>3
    <2>5. PICK a \in Agent : r = cur[a] /\ r # Nobody
      BY <2>4 DEF Running
    <2>6. r \in Id /\ phase[r] # "unused"
      BY <2>1, <2>5 DEF HomeInv, AtHome
    <2>7. phase'[r] # "unused" /\ op'[r] = op[r]
      BY <2>6, MadeStaysMade
    <2> QED
      BY <2>3, <2>4, <2>7
  <1> QED
    BY <1>1, <1>2

\* A running request that is stuck awaits a stuck call that its handler may
\* make.
LEMMA StuckCalls ==
  ASSUME TypeOK, HomeInv, CallerInv, NEW S \in SUBSET Id, IsKnot(S),
         NEW r \in S, r \in Running
  PROVE  \E n \in S : op[n] \in Follows[op[r]]
  <1>1. PICK n \in Needs(r) \cap S : TRUE
    BY DEF IsKnot
  <1>2. n \in Id /\ by[n] = r /\ phase[n] \in Held /\ r # Nobody
    BY <1>1 DEF Needs, Awaited, Running
  <1> QED
    BY <1>1, <1>2 DEF CallerInv, Held

LEMMA Knots == TypeOK /\ HomeInv /\ CallerInv => KnotsAreCycles
  <1> SUFFICES ASSUME TypeOK, HomeInv, CallerInv, NEW a \in StuckAgents
               PROVE  \E o \in Op :
                        At[o] = a /\ \E n \in Follows[o] : At[n] \in StuckAgents
    BY DEF KnotsAreCycles
  <1>1. PICK r \in Stuck : At[op[r]] = a
    BY DEF StuckAgents
  <1>2. PICK S \in SUBSET Id : IsKnot(S) /\ r \in S
    BY <1>1 DEF Stuck
  <1>3. S \subseteq Stuck
    BY <1>2 DEF Stuck
  <1>4. PICK q \in S : q \in Running /\ At[op[q]] = a
    <2>1. CASE r \in Running
      BY <1>1, <1>2, <2>1
    <2>2. CASE r \notin Running
      <3>1. PICK q \in Needs(r) \cap S : TRUE
        BY <1>2 DEF IsKnot
      <3>2. PICK b \in Agent : r \in Queued(b) /\ q = cur[b] /\ q # Nobody
        BY <2>2, <3>1 DEF Needs
      <3>3. At[op[r]] = b
        <4>1. inbox[b] \in Seq(Id)
          BY DEF TypeOK
        <4>2. PICK i \in 1..Len(inbox[b]) : r = inbox[b][i]
          BY <3>2, <4>1 DEF Queued
        <4> QED
          BY <4>2 DEF HomeInv, AtHome
      <3>4. At[op[q]] = b
        BY <3>2 DEF HomeInv, AtHome
      <3> QED
        BY <1>1, <3>1, <3>2, <3>3, <3>4 DEF Running
    <2> QED
      BY <2>1, <2>2
  <1>5. PICK n \in S : op[n] \in Follows[op[q]]
    BY <1>2, <1>4, StuckCalls
  <1>6. op[q] \in Op /\ At[op[n]] \in StuckAgents
    BY <1>3, <1>4, <1>5 DEF TypeOK, StuckAgents
  <1> QED
    BY <1>4, <1>5, <1>6

\* Agents get stuck only in a cycle of the call graph, or behind one: along
\* calls that never lead back to an agent, no loop waits for good.
THEOREM OnlyCyclesKnot == Spec => []KnotsAreCycles
  BY InitTypes, TypesKept, InitHomes, HomesKept, CallersKept, Knots, PTL DEF Spec

-------------------------------------------------------------------------------
(***************************************************************************)
(* Where the time of a call goes. Every step of the clock is a step of a   *)
(* handler, a step of a message, or one for which the call is held up;     *)
(* there are only so many of the first two. What messages have left is a   *)
(* set, one element a step.                                                *)
(***************************************************************************)
LagUnits == Id \X (1..net)
LagLeft ==
  {u \in LagUnits : phase[u[1]] \notin {"done", "gaveup"} /\ u[2] <= lag[u[1]]}
LagSpent == Cardinality(LagUnits) - Cardinality(LagLeft)

\* What the bus has forwarded, and was not dropped, is in a handler, or queued.
Delivered ==
  \A c \in Id : phase[c] = "open" => c \in Running \/ \E a \in Agent : c \in Queued(a)

\* What is not held up waits for handlers and messages only.
Patience(c) == phase[c] \in Held /\ c \notin delayed => held[c] <= work + LagSpent
PatienceInv == \A c \in Id : Patience(c)

LEMMA LagCounted ==
  ASSUME TypeOK
  PROVE  /\ IsFiniteSet(LagUnits) /\ Cardinality(LagUnits) = MaxCalls * net
         /\ IsFiniteSet(LagLeft) /\ LagSpent \in Nat /\ LagSpent <= MaxCalls * net
  <1>1. net \in Nat /\ MaxCalls \in Nat
    BY TimeAssumption DEF TypeOK
  <1>2. IsFiniteSet(Id) /\ Cardinality(Id) = MaxCalls
    BY <1>1, FS_Interval DEF Id
  <1>3. IsFiniteSet(1..net) /\ Cardinality(1..net) = net
    BY <1>1, FS_Interval
  <1>4. IsFiniteSet(LagUnits) /\ Cardinality(LagUnits) = MaxCalls * net
    BY <1>2, <1>3, FS_Product DEF LagUnits
  <1>5. LagLeft \in SUBSET LagUnits
    BY DEF LagLeft
  <1>6. IsFiniteSet(LagLeft) /\ Cardinality(LagLeft) <= Cardinality(LagUnits)
    BY <1>4, <1>5, FS_Subset
  <1>7. Cardinality(LagLeft) \in Nat /\ Cardinality(LagUnits) \in Nat
    BY <1>4, <1>6, FS_CardinalityType
  <1> QED
    BY <1>4, <1>6, <1>7 DEF LagSpent

\* How a step changes what one call has left.
LEMMA LagSteps ==
  ASSUME TypeOK, [Next]_vars
  PROVE  /\ net' = net
         /\ \A d \in Id : /\ phase[d] \in {"done", "gaveup"} => phase'[d] = phase[d]
                          /\ phase'[d] \notin {"done", "gaveup"} => lag'[d] <= lag[d]
         /\ ~Tick => UNCHANGED work /\ UNCHANGED delayed
  <1>0. /\ phase \in [Id -> Phases] /\ lag \in [Id -> 0..net] /\ net \in Nat
    BY TimeAssumption DEF TypeOK
  <1>a. \A d \in Id : lag[d] \in Int
    BY <1>0
  <1>1. ASSUME NEW c \in Id, NEW o \in Op, NEW r \in Id \cup {Nobody}, Post(c, o, r)
        PROVE  /\ UNCHANGED <<net, lag, work, delayed>>
               /\ \A d \in Id : phase[d] \in {"done", "gaveup"} => phase'[d] = phase[d]
    BY <1>0, <1>1 DEF Post, clocks
  <1>2. ASSUME NEW c \in Id, Forward(c) \/ Refuse(c) \/ Expire(c)
        PROVE  /\ UNCHANGED <<net, lag, work, delayed>>
               /\ \A d \in Id : phase[d] \in {"done", "gaveup"} => phase'[d] = phase[d]
    BY <1>0, <1>2 DEF Forward, Refuse, Expire, Held, clocks
  <1>3. ASSUME NEW c \in Id, Returns(c) \/ GivesUp(c)
        PROVE  /\ UNCHANGED <<net, work, delayed>>
               /\ phase[c] \in Pending /\ phase'[c] \in {"done", "gaveup"}
               /\ \A d \in Id \ {c} : phase'[d] = phase[d] /\ lag'[d] = lag[d]
    BY <1>0, <1>3 DEF Returns, GivesUp, Ends, Pending, Transit
  <1>4. ASSUME NEW a \in Agent, Take(a) \/ Replies(a)
        PROVE  /\ UNCHANGED <<net, lag, work, delayed>>
               /\ \A d \in Id : phase[d] \in {"done", "gaveup"} => phase'[d] = phase[d]
    BY <1>0, <1>4 DEF Take, Replies, Answer, calls, clocks
  <1>5. ASSUME Tick
        PROVE  /\ UNCHANGED <<net, phase>>
               /\ \A d \in Id : lag'[d] <= lag[d]
    BY <1>0, <1>5 DEF Tick, calls
  <1>6. UNCHANGED vars => UNCHANGED <<net, phase, lag, work, delayed>>
    BY DEF vars, calls, clocks
  <1>7. CASE \E c \in Id : Returns(c) \/ GivesUp(c)
    <2>1. PICK c \in Id : Returns(c) \/ GivesUp(c)
      BY <1>7
    <2>2. \A d \in Id : /\ phase[d] \in {"done", "gaveup"} => phase'[d] = phase[d]
                        /\ phase'[d] \notin {"done", "gaveup"} => lag'[d] = lag[d]
      BY <1>3, <2>1 DEF Pending, Held, Transit, Envelopes
    <2> QED
      BY <1>3, <1>a, <2>1, <2>2
  <1>8. ASSUME NEW a \in Agent, LinkDrops(a) \/ LinkRestored(a)
        PROVE  /\ UNCHANGED <<net, lag, work, delayed>>
               /\ \A d \in Id : phase[d] \in {"done", "gaveup"} => phase'[d] = phase[d]
    BY <1>8, DropTyped DEF LinkDrops, LinkRestored, calls, clocks
  <1> QED
    BY <1>1, <1>2, <1>4, <1>5, <1>6, <1>7, <1>8, <1>a, Cases

\* Messages only ever use up what they have left.
LEMMA LagDrains ==
  ASSUME TypeOK, [Next]_vars
  PROVE  LagUnits' = LagUnits /\ LagLeft' \subseteq LagLeft
  <1>1. LagUnits' = LagUnits
    BY LagSteps DEF LagUnits
  <1>2. ASSUME NEW u \in LagLeft'
        PROVE  u \in LagLeft
    <2>1. u \in LagUnits /\ u[1] \in Id /\ u[2] \in Int
      BY <1>1 DEF LagLeft, LagUnits
    <2>2. phase'[u[1]] \notin {"done", "gaveup"} /\ u[2] <= lag'[u[1]]
      BY DEF LagLeft
    <2>3. phase[u[1]] \notin {"done", "gaveup"} /\ lag'[u[1]] <= lag[u[1]]
      BY <2>1, <2>2, LagSteps
    <2>4. lag[u[1]] \in Int /\ lag'[u[1]] \in Int
      BY <2>1, TypesKept, TimeAssumption DEF TypeOK
    <2> QED
      BY <2>1, <2>2, <2>3, <2>4 DEF LagLeft
  <1> QED
    BY <1>1, <1>2

LEMMA LagSpentGrows ==
  ASSUME TypeOK, [Next]_vars
  PROVE  /\ LagSpent' \in Nat /\ LagSpent <= LagSpent'
         /\ LagLeft' # LagLeft => LagSpent + 1 <= LagSpent'
  <1>1. LagUnits' = LagUnits /\ LagLeft' \in SUBSET LagLeft
    BY LagDrains
  <1>2. IsFiniteSet(LagUnits) /\ IsFiniteSet(LagLeft)
    BY LagCounted
  <1>3. /\ IsFiniteSet(LagLeft') /\ Cardinality(LagLeft') <= Cardinality(LagLeft)
        /\ Cardinality(LagLeft) = Cardinality(LagLeft') => LagLeft = LagLeft'
    BY <1>1, <1>2, FS_Subset
  <1>4. /\ Cardinality(LagUnits) \in Nat /\ Cardinality(LagLeft) \in Nat
        /\ Cardinality(LagLeft') \in Nat
    BY <1>2, <1>3, FS_CardinalityType
  <1>5. LagSpent' = Cardinality(LagUnits) - Cardinality(LagLeft')
    BY <1>1 DEF LagSpent
  <1>6. LagSpent \in Nat
    BY LagCounted
  <1> QED
    BY <1>3, <1>4, <1>5, <1>6 DEF LagSpent

-------------------------------------------------------------------------------
(***************************************************************************)
(* Forwarded calls are somewhere.                                          *)
(***************************************************************************)

Placed(c) == c \in Running \/ \E a \in Agent : c \in Queued(a)

LEMMA StaysPlaced ==
  ASSUME TypeOK, [Next]_vars, NEW c \in Id, Placed(c),
         phase[c] = "open", phase'[c] = "open"
  PROVE  Placed(c)'
  <1>0. cur \in [Agent -> Id \cup {Nobody}] /\ inbox \in [Agent -> Seq(Id)]
    BY DEF TypeOK
  <1>a. c # Nobody
    BY DEF Id, Nobody
  <1> DEFINE Keeps == /\ \A a \in Agent : cur[a] = c => cur'[a] = c
                      /\ \A a \in Agent : \A i \in DOMAIN inbox[a] :
                           \/ i \in DOMAIN inbox'[a] /\ inbox'[a][i] = inbox[a][i]
  <1>b. ASSUME Keeps PROVE Placed(c)'
    BY <1>b, <1>a DEF Placed, Running, Queued
  <1>1. ASSUME NEW d \in Id, Reaches(d), UNCHANGED cur
        PROVE  Keeps
    <2>1. ASSUME NEW a \in Agent, NEW i \in DOMAIN inbox[a]
          PROVE  i \in DOMAIN inbox'[a] /\ inbox'[a][i] = inbox[a][i]
      <3>1. inbox[a] \in Seq(Id) /\ i \in 1..Len(inbox[a])
        BY <1>0
      <3>2. inbox'[a] = inbox[a] \/ inbox'[a] = Append(inbox[a], d)
        BY <1>0, <1>1 DEF Reaches
      <3> QED
        BY <3>1, <3>2, AppendProperties
    <2> QED
      BY <1>1, <2>1
  <1>2. ASSUME NEW a \in Agent, Take(a)
        PROVE  Placed(c)'
    <2>1. inbox[a] \in Seq(Id) /\ inbox[a] # <<>> /\ cur[a] = Nobody
      BY <1>0, <1>2 DEF Take
    <2>2. cur' = [cur EXCEPT ![a] = Head(inbox[a])]
          /\ inbox' = [inbox EXCEPT ![a] = Tail(@)]
      BY <1>2 DEF Take
    <2>3. CASE c \in Running
      BY <1>0, <1>a, <2>1, <2>2, <2>3 DEF Placed, Running
    <2>4. CASE \E b \in Agent : c \in Queued(b)
      <3>0. PICK b \in Agent : c \in Queued(b)
        BY <2>4
      <3>1. PICK i \in DOMAIN inbox[b] : c = inbox[b][i]
        BY <3>0 DEF Queued
      <3>2. CASE b # a
        <4>1. inbox'[b] = inbox[b]
          BY <1>0, <2>2, <3>2
        <4> QED
          BY <3>1, <4>1 DEF Placed, Queued
      <3>3. CASE b = a /\ i = 1
        <4>1. cur'[a] = c
          BY <1>0, <2>1, <2>2, <3>1, <3>3
        <4> QED
          BY <1>a, <4>1 DEF Placed, Running
      <3>4. CASE b = a /\ i # 1
        <4>1. i \in 2..Len(inbox[a])
          BY <2>1, <3>1, <3>4
        <4>2. i - 1 \in DOMAIN Tail(inbox[a]) /\ Tail(inbox[a])[i - 1] = c
          BY <2>1, <3>1, <3>4, <4>1, HeadTailProperties
        <4>3. inbox'[a] = Tail(inbox[a])
          BY <1>0, <2>2
        <4> QED
          BY <4>2, <4>3 DEF Placed, Queued
      <3> QED
        BY <3>2, <3>3, <3>4
    <2> QED
      BY <2>3, <2>4 DEF Placed
  <1>3. ASSUME NEW a \in Agent, Replies(a)
        PROVE  Keeps
    <2>1. cur[a] # c
      BY <1>0, <1>3 DEF Replies, Answer, TypeOK
    <2> QED
      BY <1>0, <1>3, <2>1 DEF Replies, Answer
  <1>4. ASSUME UNCHANGED <<cur, inbox>>
        PROVE  Keeps
    BY <1>4
  <1>5. \A d \in Id : Forward(d) \/ Refuse(d) \/ Expire(d) \/ Returns(d) \/ GivesUp(d) =>
          UNCHANGED cur /\ (UNCHANGED inbox \/ Reaches(d))
    BY DEF Forward, Refuse, Expire, Returns, GivesUp, Ends, loops
  <1>6. (\E d \in Id, o \in Op, r \in Id \cup {Nobody} : Post(d, o, r))
          \/ Tick \/ UNCHANGED vars => UNCHANGED <<cur, inbox>>
    BY DEF Post, Tick, vars, loops
  <1>7. ASSUME NEW a \in Agent, LinkDrops(a)
        PROVE  Placed(c)'
    <2>1. CASE c \in Running
      BY <1>7, <2>1 DEF LinkDrops, Placed, Running
    <2>2. CASE \E b \in Agent : c \in Queued(b)
      <3>0. PICK b \in Agent : c \in Queued(b)
        BY <2>2
      <3>1. PICK i \in DOMAIN inbox[b] : inbox[b][i] = c
        BY <3>0 DEF Queued
      <3>2. i \in DOMAIN inbox'[b] /\ inbox'[b][i] = c
        BY <1>7, <3>1, DropTyped
      <3> QED
        BY <3>2 DEF Placed, Queued
    <2> QED
      BY <2>1, <2>2 DEF Placed
  <1>8. (\E a \in Agent : LinkRestored(a)) => UNCHANGED <<cur, inbox>>
    BY DEF LinkRestored, loops
  <1> QED
    BY <1>b, <1>1, <1>2, <1>3, <1>4, <1>5, <1>6, <1>7, <1>8, Cases

\* A call the bus holds was held, or was posted and has just been forwarded.
LEMMA Opens ==
  ASSUME TypeOK, [Next]_vars, NEW c \in Id, phase'[c] \in Held
  PROVE  \/ phase[c] = "posted" /\ Forward(c)
         \/ /\ phase[c] \in Held /\ phase'[c] \in {phase[c], "lost"}
            /\ ~Tick => held'[c] = held[c]
  <1> USE DEF Held
  <1> DEFINE Stays == phase[c] \in Held /\ phase'[c] \in {phase[c], "lost"}
                      /\ held'[c] = held[c]
  <1>0. /\ phase \in [Id -> Phases] /\ cur \in [Agent -> Id \cup {Nobody}]
        /\ held \in [Id -> Nat]
    BY DEF TypeOK
  <1>1. ASSUME NEW d \in Id, NEW o \in Op, NEW r \in Id \cup {Nobody}, Post(d, o, r)
        PROVE  Stays
    BY <1>0, <1>1 DEF Post, clocks
  <1>2. ASSUME NEW d \in Id, Forward(d)
        PROVE  (c = d /\ phase[c] = "posted") \/ Stays
    BY <1>0, <1>2 DEF Forward, clocks
  <1>3. ASSUME NEW d \in Id, Refuse(d) \/ Expire(d) \/ Returns(d) \/ GivesUp(d)
        PROVE  Stays
    BY <1>0, <1>3 DEF Refuse, Expire, Returns, GivesUp, Ends, clocks
  <1>4. ASSUME NEW a \in Agent, Take(a) \/ Replies(a)
        PROVE  Stays
    BY <1>0, <1>4 DEF Take, Replies, Answer, calls, clocks
  <1>5. Tick => phase'[c] = phase[c]
    BY DEF Tick, calls
  <1>6. UNCHANGED vars => Stays
    BY DEF vars, calls, clocks
  <1>7. ASSUME NEW a \in Agent, LinkDrops(a) \/ LinkRestored(a)
        PROVE  Stays
    <2>1. held' = held
      BY <1>7 DEF LinkDrops, LinkRestored, clocks
    <2>2. CASE LinkDrops(a)
      <3>1. phase'[c] = phase[c] \/ (phase[c] = "open" /\ phase'[c] = "lost")
        BY <2>2, DropTyped
      <3> QED
        BY <2>1, <3>1
    <2>3. CASE LinkRestored(a)
      BY <2>1, <2>3 DEF LinkRestored, calls
    <2> QED
      BY <1>7, <2>2, <2>3
  <1> QED
    BY <1>1, <1>2, <1>3, <1>4, <1>5, <1>6, <1>7, Cases

LEMMA DeliveredKept == TypeOK /\ Delivered /\ [Next]_vars => Delivered'
  <1> SUFFICES ASSUME TypeOK, Delivered, [Next]_vars, NEW c \in Id, phase'[c] = "open"
               PROVE  Placed(c)'
    BY DEF Delivered, Placed
  <1>1. CASE phase[c] = "posted" /\ Forward(c)
    <2>1. At[op[c]] \in Agent /\ inbox[At[op[c]]] \in Seq(Id)
      BY GraphAssumption DEF TypeOK
    <2>2. inbox'[At[op[c]]] = Append(inbox[At[op[c]]], c)
      <3>1. phase \in [Id -> Phases] /\ inbox \in [Agent -> Seq(Id)]
        BY DEF TypeOK
      <3>2. Reaches(c)
        BY <1>1, <3>1 DEF Forward
      <3> QED
        BY <2>1, <3>1, <3>2 DEF Reaches
    <2>3. Len(inbox[At[op[c]]]) + 1 \in DOMAIN inbox'[At[op[c]]]
          /\ inbox'[At[op[c]]][Len(inbox[At[op[c]]]) + 1] = c
      BY <2>1, <2>2, AppendProperties
    <2> QED
      BY <2>1, <2>3 DEF Placed, Queued
  <1>2. CASE phase[c] = "open"
    BY <1>2, StaysPlaced DEF Delivered, Placed
  <1> QED
    BY <1>1, <1>2, Opens DEF Held

-------------------------------------------------------------------------------
(***************************************************************************)
(* While a call is held, a handler works, a message moves, or the call is  *)
(* held up.                                                                *)
(***************************************************************************)

\* If nothing computes and nothing moves, all that agents handle or have queued
\* waits for itself and for what was dropped.
LEMMA AllWait ==
  ASSUME TypeOK, Delivered, NEW c \in Id, phase[c] \in Held,
         \A a \in Agent : cur[a] = Nobody => inbox[a] = <<>>,
         \A a \in Agent : ~Computes(a),
         \A d \in Id : ~InTransit(d)
  PROVE  c \in HeldUp
  <1> DEFINE S == {r \in Id : Placed(r) \/ phase[r] = "lost"}
  <1>0. cur \in [Agent -> Id \cup {Nobody}] /\ inbox \in [Agent -> Seq(Id)]
    BY DEF TypeOK
  <1>1. ASSUME NEW r \in S, r \in Running
        PROVE  Needs(r) \cap S # {}
    <2>1. PICK a \in Agent : cur[a] = r /\ r # Nobody
      BY <1>1 DEF Running
    <2>2. PICK n \in Awaited(r) : TRUE
      BY <2>1 DEF Computes
    <2>3. n \in Id /\ phase[n] \in Held
      BY <2>2 DEF Awaited, InTransit, Pending
    <2>4. n \in Needs(r)
      BY <1>1, <2>2, <2>3 DEF Needs
    <2> QED
      BY <2>3, <2>4 DEF Delivered, Placed, Held
  <1>2. ASSUME NEW r \in S, r \notin Running, phase[r] # "lost"
        PROVE  Needs(r) \cap S # {}
    <2>1. PICK a \in Agent : r \in Queued(a)
      BY <1>2 DEF Placed
    <2>2. inbox[a] # <<>>
      BY <2>1 DEF Queued
    <2>3. cur[a] # Nobody /\ cur[a] \in Id
      BY <1>0, <2>2
    <2>4. cur[a] \in Needs(r)
      BY <1>2, <2>1, <2>3 DEF Needs
    <2>5. cur[a] \in S
      BY <2>3 DEF Placed, Running
    <2> QED
      BY <2>4, <2>5
  <1>3. \A r \in S : phase[r] = "lost" \/ Needs(r) \cap S # {}
    BY <1>1, <1>2
  <1>4. c \in S /\ S \in SUBSET Id
    BY DEF Delivered, Placed, Held
  <1> HIDE DEF S
  <1> QED
    BY <1>3, <1>4 DEF HeldUp

\* A step of time for a call not held up is a step of a handler or a message.
LEMMA TimeIsSpent ==
  ASSUME TypeOK, Delivered, Tick, NEW c \in Id, phase[c] \in Held, c \notin delayed'
  PROVE  work' = work + 1 \/ LagLeft' # LagLeft
  <1>1. c \notin HeldUp
    BY DEF Tick
  <1>2. (\E a \in Agent : Computes(a)) \/ (\E d \in Id : InTransit(d))
    BY <1>1, AllWait DEF Tick
  <1>3. CASE \E a \in Agent : Computes(a)
    BY <1>3 DEF Tick
  <1>4. CASE \E d \in Id : InTransit(d)
    <2>1. PICK d \in Id : InTransit(d)
      BY <1>4
    <2>2. lag[d] \in 1..net /\ net \in Nat
      BY <2>1, TimeAssumption DEF Tick, TypeOK
    <2>3. phase[d] \notin {"done", "gaveup"}
      BY <2>1 DEF InTransit, Transit, Envelopes
    <2>4. <<d, lag[d]>> \in LagLeft
      BY <2>2, <2>3 DEF LagLeft, LagUnits
    <2>5. lag'[d] = lag[d] - 1
      BY <2>1 DEF Tick
    <2>6. ~ (lag[d] <= lag'[d])
      BY <2>2, <2>5
    <2>7. <<d, lag[d]>> \notin LagLeft'
      BY <2>6 DEF LagLeft
    <2> QED
      BY <2>4, <2>7
  <1> QED
    BY <1>2, <1>3, <1>4

LEMMA PatienceKept ==
  TypeOK /\ ClockInv /\ Delivered /\ PatienceInv /\ [Next]_vars => PatienceInv'
  <1> SUFFICES ASSUME TypeOK, ClockInv, Delivered, PatienceInv, [Next]_vars,
                      NEW c \in Id, phase'[c] \in Held, c \notin delayed'
               PROVE  held'[c] <= work' + LagSpent'
    BY DEF PatienceInv, Patience
  <1>1. /\ LagSpent \in Nat /\ LagSpent' \in Nat /\ LagSpent <= LagSpent'
        /\ LagLeft' # LagLeft => LagSpent + 1 <= LagSpent'
    BY LagCounted, LagSpentGrows
  <1>a. LagSpent' \in Nat
    BY <1>1
  <1>2. held[c] \in Nat /\ work \in Nat
    BY TimeAssumption DEF TypeOK
  <1>3. CASE phase[c] = "posted" /\ Forward(c)
    <2>1. held'[c] = 0 /\ work' \in Nat
      BY <1>2, <1>3 DEF ClockInv, ClockOK, Forward, clocks
    <2>2. \A x, y \in Nat : 0 <= x + y
      OBVIOUS
    <2> QED
      BY <1>a, <2>1, <2>2
  <1>4. CASE phase[c] \in Held /\ ~Tick /\ held'[c] = held[c]
    <2>1. work' = work /\ delayed' = delayed
      BY <1>4, LagSteps
    <2>2. held[c] <= work + LagSpent
      BY <1>4, <2>1 DEF PatienceInv, Patience
    <2> QED
      BY <1>1, <1>2, <1>4, <2>1, <2>2
  <1>5. CASE phase[c] \in Held /\ Tick
    <2>1. c \notin delayed
      BY <1>5 DEF Tick
    <2>2. held[c] <= work + LagSpent
      BY <1>5, <2>1 DEF PatienceInv, Patience
    <2>3. held'[c] = held[c] + 1
      BY <1>5 DEF Tick
    <2>4. work' \in {work, work + 1} /\ (work' = work + 1 \/ LagLeft' # LagLeft)
      BY <1>5, TimeIsSpent DEF Tick
    <2> QED
      BY <1>1, <1>2, <2>2, <2>3, <2>4
  <1> QED
    BY <1>3, <1>4, <1>5, Opens

\* A call expires when the bus has held it for its timeout, and no sooner.
LEMMA Expires ==
  ASSUME TypeOK, [Next]_vars, NEW c \in Id, phase'[c] = "timeout"
  PROVE  \/ phase[c] = "timeout" /\ limit'[c] = limit[c]
         \/ /\ phase[c] \in Held /\ held[c] >= limit[c]
            /\ limit'[c] = limit[c] /\ delayed' = delayed
  <1>0. phase \in [Id -> Phases] /\ limit \in [Id -> Int]
    BY DEF TypeOK
  <1>1. ASSUME NEW d \in Id, NEW o \in Op, NEW r \in Id \cup {Nobody}, Post(d, o, r)
        PROVE  phase[c] = "timeout" /\ limit'[c] = limit[c]
    BY <1>0, <1>1 DEF Post
  <1>2. ASSUME NEW d \in Id, Forward(d) \/ Refuse(d) \/ Returns(d) \/ GivesUp(d)
        PROVE  phase[c] = "timeout" /\ limit'[c] = limit[c]
    BY <1>0, <1>2 DEF Forward, Refuse, Returns, GivesUp, Ends
  <1>3. ASSUME NEW d \in Id, Expire(d)
        PROVE  /\ limit'[c] = limit[c] /\ delayed' = delayed
               /\ \/ phase[c] = "timeout"
                  \/ phase[c] \in Held /\ held[c] >= limit[c]
    BY <1>0, <1>3 DEF Expire, clocks
  <1>4. ASSUME NEW a \in Agent, Take(a) \/ Replies(a)
        PROVE  phase[c] = "timeout" /\ limit'[c] = limit[c]
    BY <1>0, <1>4 DEF Take, Replies, Answer, calls
  <1>5. Tick \/ UNCHANGED vars => phase[c] = "timeout" /\ limit'[c] = limit[c]
    BY DEF Tick, vars, calls
  <1>6. ASSUME NEW a \in Agent, LinkDrops(a) \/ LinkRestored(a)
        PROVE  phase[c] = "timeout" /\ limit'[c] = limit[c]
    BY <1>6, DropTyped DEF LinkDrops, LinkRestored, calls
  <1> QED
    BY <1>1, <1>2, <1>3, <1>4, <1>5, <1>6, Cases

LEMMA OnlyHeldUpKept ==
  TypeOK /\ PatienceInv /\ OnlyHeldUpExpire /\ [Next]_vars => OnlyHeldUpExpire'
  <1> SUFFICES ASSUME TypeOK, PatienceInv, OnlyHeldUpExpire, [Next]_vars,
                      NEW c \in Id, phase'[c] = "timeout",
                      limit'[c] > MaxCalls * net' + MaxWork
               PROVE  c \in delayed'
    BY DEF OnlyHeldUpExpire
  <1>1. net' = net /\ delayed \subseteq delayed'
    BY LagSteps DEF Tick
  <1>2. CASE phase[c] = "timeout" /\ limit'[c] = limit[c]
    BY <1>1, <1>2 DEF OnlyHeldUpExpire
  <1>3. CASE /\ phase[c] \in Held /\ held[c] >= limit[c]
             /\ limit'[c] = limit[c] /\ delayed' = delayed
    <2> DEFINE K == MaxCalls * net
    <2>1. LagSpent \in Nat /\ LagSpent <= K /\ K \in Int
      <3>1. IsFiniteSet(LagUnits) /\ Cardinality(LagUnits) = K
        BY LagCounted
      <3>2. K \in Nat
        BY <3>1, FS_CardinalityType
      <3> QED
        BY <3>2, LagCounted
    <2>2. held[c] \in Nat /\ work \in 0..MaxWork /\ limit[c] \in Int /\ MaxWork \in Nat
      BY TimeAssumption DEF TypeOK
    <2>3. limit[c] > K + MaxWork
      BY <1>1, <1>3
    <2>4. c \notin delayed => held[c] <= work + LagSpent
      BY <1>3 DEF PatienceInv, Patience
    <2> HIDE DEF K
    <2> QED
      BY <1>3, <2>1, <2>2, <2>3, <2>4
  <1> QED
    BY <1>2, <1>3, Expires

LEMMA InitPatience == Init => Delivered /\ PatienceInv /\ OnlyHeldUpExpire
  BY DEF Init, Delivered, PatienceInv, Patience, OnlyHeldUpExpire, Held

\* A call with more time than all handlers and the network use can expire only
\* where agents wait for one another, or for a call whose request or reply was
\* dropped, whatever the agents, the call graph, the timeouts, the network, and
\* what send() drops.
THEOREM ExpiriesHaveACause == Spec => []OnlyHeldUpExpire
  BY InitTypes, TypesKept, InitClocks, ClocksKept, InitPatience, DeliveredKept,
     PatienceKept, OnlyHeldUpKept, PTL DEF Spec

===============================================================================
