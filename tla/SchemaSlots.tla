------------------------------ MODULE SchemaSlots ------------------------------
(***************************************************************************)
(* What the comment on the stampede guard of request_typed promises        *)
(* (agent.py:1675-1687): a slot of the schema cache is filled once, a      *)
(* remembered failure may give way to a real schema, and nothing else      *)
(* changes it but an invalidation.                                         *)
(***************************************************************************)
CONSTANTS Key, Schema, Absent, Failed

VARIABLE slot

Init == slot = [k \in Key |-> Absent]

Fill(k) ==
  /\ slot[k] = Absent
  /\ \E v \in Schema \cup {Failed} : slot' = [slot EXCEPT ![k] = v]

Upgrade(k) ==
  /\ slot[k] = Failed
  /\ \E v \in Schema : slot' = [slot EXCEPT ![k] = v]

Drop(K) == slot' = [k \in Key |-> IF k \in K THEN Absent ELSE slot[k]]

Next ==
  \/ \E k \in Key : Fill(k) \/ Upgrade(k)
  \/ \E K \in SUBSET Key : Drop(K)

Spec == Init /\ [][Next]_slot

================================================================================
