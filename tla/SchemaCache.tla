------------------------------ MODULE SchemaCache ------------------------------
(***************************************************************************)
(* BaseAgent.request_typed (khonliang_bus/agent.py): calls to another      *)
(* agent whose arguments are first checked against that agent's schema,    *)
(* fetched through its help skill and cached per (agent_type, operation).  *)
(*                                                                         *)
(* Callers are coroutines of one event loop: they interleave at the two    *)
(* awaits, the schema fetch and the request itself. A target that restarts *)
(* declares the next schema version for all its operations; arguments are  *)
(* named by the version they fit. External: the bus and the targets.       *)
(***************************************************************************)
EXTENDS Integers

CONSTANTS
  Type,         \* agent types that are called
  Op,           \* operations
  Key,          \* the (agent_type, operation) pairs that are called
  Caller,       \* coroutines that call request_typed
  Absent,       \* no slot in the cache
  Failed,       \* _SCHEMA_FETCH_FAILED
  MaxVersion,   \* bound: how often a target restarts with a new schema
  MaxCalls,     \* bound: calls in one run
  Malformed     \* versions whose schema the Skill constructor rejects

Version == 0..MaxVersion
Slot == Version \cup {Absent, Failed}
AnyKey == CHOOSE k \in Key : TRUE

ASSUME KeyAssumption == Key \subseteq Type \X Op /\ Key # {}
ASSUME VersionAssumption == MaxVersion \in Nat /\ Malformed \subseteq Version
ASSUME CallsAssumption == MaxCalls \in Nat
ASSUME SlotAssumption ==
  /\ Absent \notin Version
  /\ Failed \notin Version
  /\ Absent # Failed

VARIABLES
  cache,    \* _remote_schema_cache
  pc,       \* where each caller waits
  key,      \* the slot each caller that fetches needs
  args,     \* the arguments of its call
  answer,   \* what its fetch came back with
  live,     \* the schema version each target declares now
  calls,    \* calls begun
  floor,    \* history: the target's version when the slot was last invalidated
  crossed,  \* history: the slot was invalidated during the caller's fetch
  late,     \* history: such a fetch filled the slot
  learned   \* history: a fetch returned a schema since the slot was last dropped

callVars == <<pc, key, args, answer, calls>>
history == <<floor, crossed, late, learned>>
vars == <<cache, callVars, live, history>>

TypeOK ==
  /\ cache \in [Key -> Slot]
  /\ pc \in [Caller -> {"idle", "fetch", "fetched", "request"}]
  /\ key \in [Caller -> Key]
  /\ args \in [Caller -> Version]
  /\ answer \in [Caller -> Version \cup {Failed}]
  /\ live \in [Type -> Version]
  /\ calls \in 0..MaxCalls
  /\ floor \in [Key -> Version]
  /\ crossed \in [Caller -> BOOLEAN]
  /\ late \in [Key -> BOOLEAN]
  /\ learned \in [Key -> BOOLEAN]

Init ==
  /\ cache = [k \in Key |-> Absent]
  /\ pc = [c \in Caller |-> "idle"]
  /\ key = [c \in Caller |-> AnyKey]
  /\ args = [c \in Caller |-> 0]
  /\ answer = [c \in Caller |-> Failed]
  /\ live = [t \in Type |-> 0]
  /\ calls = 0
  /\ floor = [k \in Key |-> 0]
  /\ crossed = [c \in Caller |-> FALSE]
  /\ late = [k \in Key |-> FALSE]
  /\ learned = [k \in Key |-> FALSE]

-----------------------------------------------------------------------------
(* request_typed *)

\* Faulty variants: the last fetch wins; the first one does, whatever it got.
StoredLast(old, new) == new
StoredFirst(old, new) == IF old = Absent THEN new ELSE old

\* The stampede guard: the first fetch takes the slot, a real schema replaces a
\* remembered failure, and nothing else is overwritten.
Stored(old, new) ==
  IF old = Absent \/ (old = Failed /\ new # Failed) THEN new ELSE old

\* The check against schema s (ArgChecks has it in detail): a failed fetch and a
\* malformed schema skip it, and only a call that fails it is not dispatched.
Passes(s, a) == s = Failed \/ s \in Malformed \/ s = a

\* The call ends with the validator's error, or goes out.
Dispatch(c, s, a) == pc' = [pc EXCEPT ![c] = IF Passes(s, a) THEN "request" ELSE "idle"]

Begin(c) ==
  /\ pc[c] = "idle"
  /\ calls < MaxCalls
  /\ calls' = calls + 1

\* Arguments that are neither None nor a dict are refused at the entry.
CallBadArgs(c) ==
  /\ Begin(c)
  /\ UNCHANGED <<cache, pc, key, args, answer, live, history>>

\* A hit goes on without an await, whatever the slot holds.
CallHit(c, k, a) ==
  /\ Begin(c)
  /\ cache[k] # Absent
  /\ Dispatch(c, cache[k], a)
  /\ UNCHANGED <<cache, key, args, answer, live, history>>

CallMiss(c, k, a) ==
  /\ Begin(c)
  /\ cache[k] = Absent
  /\ pc' = [pc EXCEPT ![c] = "fetch"]
  /\ key' = [key EXCEPT ![c] = k]
  /\ args' = [args EXCEPT ![c] = a]
  /\ UNCHANGED <<cache, answer, live, history>>

\* External: the target answers with the schema it declares at that moment, or
\* the bus, the target or the envelope fails (the six `return None').
FetchAnswered(c) ==
  /\ pc[c] = "fetch"
  /\ pc' = [pc EXCEPT ![c] = "fetched"]
  /\ \E v \in {live[key[c][1]], Failed} : answer' = [answer EXCEPT ![c] = v]
  /\ UNCHANGED <<cache, key, args, calls, live, history>>

\* The caller's locals die with its call, and are reset.
Forgotten(c) ==
  /\ key' = [key EXCEPT ![c] = AnyKey]
  /\ args' = [args EXCEPT ![c] = 0]
  /\ answer' = [answer EXCEPT ![c] = Failed]
  /\ crossed' = [crossed EXCEPT ![c] = FALSE]

\* Faulty variant: a failed fetch is tried again before the call goes out.
FetchReturnsRetries(c) ==
  /\ pc[c] = "fetched"
  /\ IF answer[c] = Failed
       THEN /\ pc' = [pc EXCEPT ![c] = "fetch"]
            /\ UNCHANGED <<cache, key, args, answer, crossed>>
       ELSE /\ cache' = [cache EXCEPT ![key[c]] = Stored(@, answer[c])]
            /\ Dispatch(c, answer[c], args[c])
            /\ Forgotten(c)
  /\ UNCHANGED <<calls, live, floor, late, learned>>

\* The fetch returns: a warning if it failed, the store and the check, no await.
FetchReturns(c) ==
  /\ pc[c] = "fetched"
  /\ LET k == key[c]
         new == Stored(cache[k], answer[c])
     IN /\ cache' = [cache EXCEPT ![k] = new]
        /\ learned' = [learned EXCEPT ![k] = @ \/ answer[c] # Failed]
        /\ late' = [late EXCEPT ![k] = IF new # cache[k] THEN crossed[c] ELSE @]
        /\ Dispatch(c, new, args[c])
  /\ Forgotten(c)
  /\ UNCHANGED <<calls, live, floor>>

RequestDone(c) ==
  /\ pc[c] = "request"
  /\ pc' = [pc EXCEPT ![c] = "idle"]
  /\ UNCHANGED <<cache, key, args, answer, calls, live, history>>

-----------------------------------------------------------------------------
(* invalidate_schema_cache, in its three forms, and the targets *)

\* Faulty variant: only remembered failures are dropped.
ForgetFailures(K) ==
  /\ cache' = [k \in Key |-> IF k \in K /\ cache[k] = Failed THEN Absent ELSE cache[k]]
  /\ UNCHANGED <<late, learned>>

Forget(K) ==
  /\ cache' = [k \in Key |-> IF k \in K THEN Absent ELSE cache[k]]
  /\ late' = [k \in Key |-> late[k] /\ k \notin K]
  /\ learned' = [k \in Key |-> learned[k] /\ k \notin K]

Covered(t, o) ==
  {k \in Key : k[1] = t /\ (o = Absent \/ k[2] = o)}

Invalidate(K) ==
  /\ Forget(K)
  /\ floor' = [k \in Key |-> IF k \in K THEN live[k[1]] ELSE floor[k]]
  /\ crossed' = [c \in Caller |-> crossed[c] \/ (key[c] \in K /\ pc[c] \in {"fetch", "fetched"})]
  /\ UNCHANGED <<callVars, live>>

InvalidateAll == Invalidate(Key)
InvalidateType(t) == Invalidate(Covered(t, Absent))
InvalidateOne(t, o) == Invalidate(Covered(t, o))

\* External: a target restarts with a changed schema.
Restart(t) ==
  /\ live[t] < MaxVersion
  /\ live' = [live EXCEPT ![t] = @ + 1]
  /\ UNCHANGED <<cache, callVars, history>>

-----------------------------------------------------------------------------

CallerStep(c) == FetchReturns(c) \/ RequestDone(c)

Next ==
  \/ \E c \in Caller :
       \/ CallBadArgs(c)
       \/ \E k \in Key, a \in Version : CallHit(c, k, a) \/ CallMiss(c, k, a)
       \/ FetchAnswered(c)
       \/ CallerStep(c)
  \/ InvalidateAll
  \/ \E t \in Type : InvalidateType(t) \/ Restart(t)
  \/ \E t \in Type, o \in Op : InvalidateOne(t, o)

Spec == Init /\ [][Next]_vars

\* The HTTP timeouts of request() bound the fetch and the request.
FairSpec ==
  Spec /\ \A c \in Caller : WF_vars(CallerStep(c)) /\ WF_vars(FetchAnswered(c))

-----------------------------------------------------------------------------
(* Properties *)

\* Each slot goes through absent, failed and schema as the stampede guard says,
\* whichever callers, restarts and invalidations interleave (agent.py:1675).
Slots == INSTANCE SchemaSlots WITH slot <- cache, Schema <- Version
SlotsImplemented == Slots!Spec

\* Once a fetch brought a schema the slot holds one until it is dropped: a
\* caller whose own fetch failed cannot make later calls go out unchecked.
NoPoison == \A k \in Key : learned[k] => cache[k] \in Version

\* After an invalidation the slot is older than the target was then only if a
\* fetch that was under way filled it: no fetch begun later reads old news.
StaleOnlyIfCrossed ==
  \A k \in Key : cache[k] \in Version /\ cache[k] < floor[k] => late[k]

\* A call always ends, whatever the fetch meets ("so the caller isn't blocked
\* on validation infrastructure", agent.py:1634).
CallsEnd == \A c \in Caller : pc[c] # "idle" ~> pc[c] = "idle"

\* The argument for StaleOnlyIfCrossed: what a fetch brings back is no older
\* than the last invalidation it did not cross.
FloorInv ==
  /\ \A k \in Key : floor[k] <= live[k[1]]
  /\ \A c \in Caller :
       pc[c] = "fetched" /\ answer[c] # Failed /\ ~crossed[c] => answer[c] >= floor[key[c]]

================================================================================
