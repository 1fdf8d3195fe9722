--------------------------- MODULE SchemaCacheProofs ---------------------------
(***************************************************************************)
(* What holds of the schema cache for any number of callers, targets,      *)
(* operations and schema versions.                                         *)
(***************************************************************************)
EXTENDS SchemaCache, TLAPS

USE KeyAssumption, VersionAssumption, CallsAssumption, SlotAssumption

\* What a slot holds after a store comes from the store or from before.
LEMMA StoredTyped ==
  ASSUME NEW old \in Slot, NEW new \in Version \cup {Failed}
  PROVE  Stored(old, new) \in Version \cup {Failed}
  BY DEF Stored, Slot

\* The default slot of an idle caller is one of the slots.
LEMMA AnyKeyTyped == AnyKey \in Key
  BY DEF AnyKey

LEMMA TypeInit == Init => TypeOK
  BY AnyKeyTyped DEF Init, TypeOK, Slot, Version

LEMMA TypeNext == TypeOK /\ [Next]_vars => TypeOK'
  <1> SUFFICES ASSUME TypeOK, [Next]_vars PROVE TypeOK'
    OBVIOUS
  <1> USE DEF TypeOK, callVars, history
  <1>0. ASSUME NEW c \in Caller, NEW s, NEW a, Dispatch(c, s, a)
        PROVE  pc' \in [Caller -> {"idle", "fetch", "fetched", "request"}]
    BY <1>0 DEF Dispatch
  <1>1. ASSUME NEW c \in Caller, CallBadArgs(c) PROVE TypeOK'
    BY <1>1 DEF CallBadArgs, Begin
  <1>2. ASSUME NEW c \in Caller, NEW k \in Key, NEW a \in Version, CallHit(c, k, a)
        PROVE  TypeOK'
    BY <1>0, <1>2 DEF CallHit, Begin
  <1>3. ASSUME NEW c \in Caller, NEW k \in Key, NEW a \in Version, CallMiss(c, k, a)
        PROVE  TypeOK'
    BY <1>3 DEF CallMiss, Begin
  <1>4. ASSUME NEW c \in Caller, FetchAnswered(c) PROVE TypeOK'
    <2>1. live[key[c][1]] \in Version
      OBVIOUS
    <2> QED BY <1>4, <2>1 DEF FetchAnswered
  <1>5. ASSUME NEW c \in Caller, FetchReturns(c) PROVE TypeOK'
    <2>1. Stored(cache[key[c]], answer[c]) \in Version \cup {Failed}
      BY StoredTyped
    <2>2. cache' \in [Key -> Slot]
      BY <1>5, <2>1 DEF FetchReturns, Slot
    <2>3. learned' \in [Key -> BOOLEAN] /\ late' \in [Key -> BOOLEAN]
      BY <1>5 DEF FetchReturns
    <2>4. pc' \in [Caller -> {"idle", "fetch", "fetched", "request"}]
      BY <1>0, <1>5 DEF FetchReturns
    <2>5. key' \in [Caller -> Key] /\ args' \in [Caller -> Version]
      BY <1>5, AnyKeyTyped DEF FetchReturns, Forgotten, Version
    <2>6. answer' \in [Caller -> Version \cup {Failed}] /\ crossed' \in [Caller -> BOOLEAN]
      BY <1>5 DEF FetchReturns, Forgotten
    <2> QED BY <1>5, <2>2, <2>3, <2>4, <2>5, <2>6 DEF FetchReturns
  <1>6. ASSUME NEW c \in Caller, RequestDone(c) PROVE TypeOK'
    BY <1>6 DEF RequestDone
  <1>7. ASSUME NEW K \in SUBSET Key, Invalidate(K) PROVE TypeOK'
    <2>1. cache' \in [Key -> Slot]
      BY <1>7 DEF Invalidate, Forget, Slot
    <2>2. learned' \in [Key -> BOOLEAN] /\ late' \in [Key -> BOOLEAN]
      BY <1>7 DEF Invalidate, Forget
    <2>3. floor' \in [Key -> Version]
      BY <1>7 DEF Invalidate
    <2>4. crossed' \in [Caller -> BOOLEAN]
      BY <1>7 DEF Invalidate
    <2> QED BY <1>7, <2>1, <2>2, <2>3, <2>4 DEF Invalidate
  <1>8. ASSUME NEW t \in Type, Restart(t) PROVE TypeOK'
    BY <1>8 DEF Restart, Version
  <1>9. CASE UNCHANGED vars
    BY <1>9 DEF vars
  <1> QED
    BY <1>1, <1>2, <1>3, <1>4, <1>5, <1>6, <1>7, <1>8, <1>9
       DEF Next, CallerStep, InvalidateAll, InvalidateType, InvalidateOne, Covered

\* The cache, the callers and the histories keep their types for every instance.
THEOREM TypeCorrect == Spec => []TypeOK
  BY TypeInit, TypeNext, PTL DEF Spec

-----------------------------------------------------------------------------
(* NoPoison is inductive on typed states.                                  *)

LEMMA PoisonInit == Init => NoPoison
  BY DEF Init, NoPoison

LEMMA PoisonNext == TypeOK /\ NoPoison /\ [Next]_vars => NoPoison'
  <1> SUFFICES ASSUME TypeOK, NoPoison, [Next]_vars PROVE NoPoison'
    OBVIOUS
  <1> USE DEF NoPoison
  <1>1. ASSUME cache' = cache, learned' = learned PROVE NoPoison'
    BY <1>1
  <1>2. ASSUME NEW c \in Caller, FetchReturns(c) PROVE NoPoison'
    <2>1. key[c] \in Key /\ answer[c] \in Version \cup {Failed} /\ cache[key[c]] \in Slot
      BY DEF TypeOK
    <2>2. SUFFICES ASSUME NEW k \in Key, learned'[k] PROVE cache'[k] \in Version
      OBVIOUS
    <2>3. CASE k # key[c]
      BY <1>2, <2>2, <2>3 DEF FetchReturns, TypeOK
    <2>4. CASE k = key[c]
      <3>1. cache'[k] = Stored(cache[k], answer[c])
        BY <1>2, <2>4 DEF FetchReturns, TypeOK
      <3>2. learned[k] \/ answer[c] # Failed
        BY <1>2, <2>2, <2>4 DEF FetchReturns, TypeOK
      <3>3. learned[k] => Stored(cache[k], answer[c]) = cache[k]
        BY DEF Stored
      <3>4. answer[c] # Failed => Stored(cache[k], answer[c]) \in Version
        BY <2>1, <2>4 DEF Stored, Slot
      <3> QED BY <3>1, <3>2, <3>3, <3>4
    <2> QED BY <2>3, <2>4
  <1>3. ASSUME NEW K \in SUBSET Key, Invalidate(K) PROVE NoPoison'
    BY <1>3 DEF Invalidate, Forget
  <1> QED
    BY <1>1, <1>2, <1>3
       DEF Next, CallerStep, CallBadArgs, CallHit, CallMiss, FetchAnswered, RequestDone,
           InvalidateAll, InvalidateType, InvalidateOne, Covered, Restart, vars, callVars,
           history

\* A failed fetch never hides a schema another caller learned (the stampede
\* guard, agent.py:1675), for any number of callers and keys.
THEOREM NoPoisonHolds == Spec => []NoPoison
  BY PoisonInit, PoisonNext, TypeCorrect, PTL DEF Spec

-----------------------------------------------------------------------------
(* Staleness: FloorInv says what a fetch under way may bring back, and with *)
(* it StaleOnlyIfCrossed is inductive.                                      *)

FreshInv == FloorInv /\ StaleOnlyIfCrossed

LEMMA FreshInit == Init => FreshInv
  <1> SUFFICES ASSUME Init PROVE FreshInv
    OBVIOUS
  <1>1. \A k \in Key : k[1] \in Type
    OBVIOUS
  <1>2. FloorInv
    BY <1>1 DEF Init, FloorInv
  <1>3. StaleOnlyIfCrossed
    BY DEF Init, StaleOnlyIfCrossed
  <1> QED BY <1>2, <1>3 DEF FreshInv

LEMMA FreshNext == TypeOK /\ FreshInv /\ [Next]_vars => FreshInv'
  <1> SUFFICES ASSUME TypeOK, FreshInv, [Next]_vars PROVE FreshInv'
    OBVIOUS
  <1> USE DEF FreshInv
  <1>0. /\ \A k \in Key : k[1] \in Type /\ live[k[1]] \in Nat /\ floor[k] \in Nat
        /\ \A c \in Caller : key[c] \in Key /\ key[c][1] \in Type
    BY DEF TypeOK, Version
  <1>1. ASSUME UNCHANGED <<cache, key, answer, live, floor, late, crossed>>,
               \A c \in Caller : pc'[c] = "fetched" => pc[c] = "fetched"
        PROVE  FreshInv'
    BY <1>1 DEF FloorInv, StaleOnlyIfCrossed
  <1>2. ASSUME NEW c \in Caller, NEW s, NEW a, Dispatch(c, s, a)
        PROVE  \A d \in Caller : pc'[d] = "fetched" => pc[d] = "fetched" /\ d # c
    BY <1>2 DEF Dispatch, TypeOK
  <1>3. ASSUME NEW c \in Caller, NEW k \in Key, NEW a \in Version, CallHit(c, k, a)
        PROVE  FreshInv'
    BY <1>1, <1>2, <1>3 DEF CallHit, history
  <1>4. ASSUME NEW c \in Caller, NEW k \in Key, NEW a \in Version, CallMiss(c, k, a)
        PROVE  FreshInv'
    <2>1. \A d \in Caller : pc'[d] = "fetched" => pc[d] = "fetched" /\ key'[d] = key[d]
      BY <1>4 DEF CallMiss, TypeOK
    <2> QED BY <1>4, <2>1 DEF CallMiss, history, FloorInv, StaleOnlyIfCrossed
  <1>5. ASSUME NEW c \in Caller, FetchAnswered(c) PROVE FreshInv'
    <2>1. StaleOnlyIfCrossed'
      BY <1>5 DEF FetchAnswered, history, StaleOnlyIfCrossed
    <2>2. FloorInv'
      <3>1. \A d \in Caller \ {c} : pc'[d] = pc[d] /\ answer'[d] = answer[d]
        BY <1>5 DEF FetchAnswered, TypeOK
      <3>2. answer'[c] # Failed => answer'[c] = live[key[c][1]]
        BY <1>5 DEF FetchAnswered, TypeOK
      <3>3. live[key[c][1]] >= floor[key[c]]
        BY <1>0 DEF FloorInv
      <3> QED BY <1>5, <3>1, <3>2, <3>3 DEF FetchAnswered, history, FloorInv
    <2> QED BY <2>1, <2>2
  <1>6. ASSUME NEW c \in Caller, FetchReturns(c) PROVE FreshInv'
    <2>1. \A d \in Caller : pc'[d] = "fetched" => pc[d] = "fetched" /\ d # c
      BY <1>2, <1>6 DEF FetchReturns
    <2>2. \A d \in Caller \ {c} :
            key'[d] = key[d] /\ answer'[d] = answer[d] /\ crossed'[d] = crossed[d]
      BY <1>6 DEF FetchReturns, Forgotten, TypeOK
    <2>3. UNCHANGED <<live, floor>>
      BY <1>6 DEF FetchReturns
    <2>4. FloorInv'
      BY <2>1, <2>2, <2>3 DEF FloorInv
    <2>5. StaleOnlyIfCrossed'
      <3> SUFFICES ASSUME NEW k \in Key, cache'[k] \in Version, cache'[k] < floor[k]
                   PROVE  late'[k]
        BY <2>3 DEF StaleOnlyIfCrossed
      <3>1. CASE cache'[k] = cache[k]
        <4>1. late'[k] = late[k]
          BY <1>6, <3>1 DEF FetchReturns, TypeOK
        <4> QED BY <3>1, <4>1 DEF StaleOnlyIfCrossed
      <3>2. CASE cache'[k] # cache[k]
        <4>1. k = key[c] /\ cache'[k] = Stored(cache[k], answer[c])
          BY <1>6, <3>2 DEF FetchReturns, TypeOK
        <4>2. late'[k] = crossed[c]
          BY <1>6, <3>2, <4>1 DEF FetchReturns, TypeOK
        <4>3. cache'[k] = answer[c] /\ answer[c] # Failed
          BY <3>2, <4>1 DEF Stored
        <4>4. crossed[c] \in BOOLEAN /\ answer[c] \in Nat
          BY <4>3 DEF TypeOK, Version
        <4>5. ~crossed[c] => answer[c] >= floor[k]
          BY <1>6, <4>1, <4>3 DEF FetchReturns, FloorInv
        <4> QED BY <1>0, <4>2, <4>3, <4>4, <4>5
      <3> QED BY <3>1, <3>2
    <2> QED BY <2>4, <2>5
  <1>7. ASSUME NEW c \in Caller, RequestDone(c) PROVE FreshInv'
    <2>1. \A d \in Caller : pc'[d] = "fetched" => pc[d] = "fetched"
      BY <1>7 DEF RequestDone, TypeOK
    <2> QED BY <1>1, <1>7, <2>1 DEF RequestDone, history
  <1>8. ASSUME NEW K \in SUBSET Key, Invalidate(K) PROVE FreshInv'
    <2>1. \A k \in Key : floor'[k] = IF k \in K THEN live[k[1]] ELSE floor[k]
      BY <1>8 DEF Invalidate
    <2>2. UNCHANGED <<pc, key, answer, live>>
      BY <1>8 DEF Invalidate, callVars
    <2>3. \A c \in Caller : pc[c] = "fetched" /\ ~crossed'[c] => ~crossed[c] /\ key[c] \notin K
      BY <1>8 DEF Invalidate, TypeOK
    <2>4. FloorInv'
      BY <1>0, <2>1, <2>2, <2>3 DEF FloorInv
    <2>5. \A k \in Key : cache'[k] = IF k \in K THEN Absent ELSE cache[k]
      BY <1>8 DEF Invalidate, Forget
    <2>6. \A k \in Key \ K : late'[k] = late[k]
      BY <1>8 DEF Invalidate, Forget, TypeOK
    <2>7. StaleOnlyIfCrossed'
      BY <2>1, <2>5, <2>6 DEF StaleOnlyIfCrossed
    <2> QED BY <2>4, <2>7
  <1>9. ASSUME NEW t \in Type, Restart(t) PROVE FreshInv'
    <2>1. \A u \in Type : live'[u] >= live[u]
      BY <1>9 DEF Restart, TypeOK, Version
    <2>2. \A k \in Key : floor[k] <= live'[k[1]]
      <3> TAKE k \in Key
      <3>1. live'[k[1]] \in Nat
        BY <1>0, <1>9 DEF Restart, TypeOK, Version
      <3> QED BY <1>0, <2>1, <3>1 DEF FloorInv
    <2> QED BY <1>9, <2>2 DEF Restart, callVars, history, FloorInv, StaleOnlyIfCrossed
  <1>10. ASSUME NEW c \in Caller, CallBadArgs(c) PROVE FreshInv'
    BY <1>1, <1>10 DEF CallBadArgs, history
  <1>11. CASE UNCHANGED vars
    BY <1>1, <1>11 DEF vars, callVars, history
  <1> QED
    BY <1>3, <1>4, <1>5, <1>6, <1>7, <1>8, <1>9, <1>10, <1>11
       DEF Next, CallerStep, InvalidateAll, InvalidateType, InvalidateOne, Covered

\* invalidate_schema_cache (agent.py:1830) works but for the fetches it crosses:
\* whatever is cached is as new as the last invalidation, or was put there by a
\* fetch that was under way when it ran.
THEOREM StaleOnlyIfCrossedHolds == Spec => []StaleOnlyIfCrossed
  <1>1. Init => FreshInv
    BY FreshInit
  <1>2. TypeOK /\ FreshInv /\ [Next]_vars => FreshInv'
    BY FreshNext
  <1>3. FreshInv => StaleOnlyIfCrossed
    BY DEF FreshInv
  <1> QED BY <1>1, <1>2, <1>3, TypeCorrect, PTL DEF Spec

-----------------------------------------------------------------------------
(* The refinement: every step fills, upgrades or drops slots, or leaves the *)
(* cache alone.                                                             *)

LEMMA SlotsInit == Init => Slots!Init
  BY DEF Init, Slots!Init

LEMMA SlotsNext == TypeOK /\ [Next]_vars => [Slots!Next]_cache
  <1> SUFFICES ASSUME TypeOK, [Next]_vars, cache' # cache PROVE Slots!Next
    OBVIOUS
  <1>1. ASSUME NEW c \in Caller, FetchReturns(c) PROVE Slots!Next
    <2>1. key[c] \in Key /\ answer[c] \in Version \cup {Failed} /\ cache[key[c]] \in Slot
      BY DEF TypeOK
    <2>2. cache' = [cache EXCEPT ![key[c]] = Stored(cache[key[c]], answer[c])]
      BY <1>1 DEF FetchReturns
    <2>3. Stored(cache[key[c]], answer[c]) # cache[key[c]]
      BY <2>1, <2>2 DEF TypeOK
    <2>4. CASE cache[key[c]] = Absent
      <3>1. cache' = [cache EXCEPT ![key[c]] = answer[c]]
        BY <2>2, <2>4 DEF Stored
      <3>2. Slots!Fill(key[c])
        BY <2>1, <2>4, <3>1 DEF Slots!Fill
      <3> QED BY <2>1, <3>2 DEF Slots!Next
    <2>5. CASE cache[key[c]] # Absent
      <3>1. cache[key[c]] = Failed /\ answer[c] # Failed
        BY <2>3, <2>5 DEF Stored
      <3>2. cache' = [cache EXCEPT ![key[c]] = answer[c]]
        BY <2>2, <3>1 DEF Stored
      <3>3. Slots!Upgrade(key[c])
        BY <2>1, <3>1, <3>2 DEF Slots!Upgrade
      <3> QED BY <2>1, <3>3 DEF Slots!Next
    <2> QED BY <2>4, <2>5
  <1>2. ASSUME NEW K \in SUBSET Key, Invalidate(K) PROVE Slots!Next
    <2>1. Slots!Drop(K)
      BY <1>2 DEF Invalidate, Forget, Slots!Drop
    <2> QED BY <2>1 DEF Slots!Next
  <1> QED
    BY <1>1, <1>2
       DEF Next, CallerStep, CallBadArgs, CallHit, CallMiss, FetchAnswered, RequestDone,
           InvalidateAll, InvalidateType, InvalidateOne, Covered, Restart, vars

\* request_typed and invalidate_schema_cache implement the slot specification
\* of SchemaSlots, for any number of callers, keys and versions.
THEOREM SlotsRefined == Spec => SlotsImplemented
  <1>1. Init => Slots!Init
    BY SlotsInit
  <1>2. TypeOK /\ [Next]_vars => [Slots!Next]_cache
    BY SlotsNext
  <1> QED BY <1>1, <1>2, TypeCorrect, PTL DEF Spec, SlotsImplemented, Slots!Spec

================================================================================
