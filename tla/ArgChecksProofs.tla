---------------------------- MODULE ArgChecksProofs ----------------------------
(***************************************************************************)
(* What holds of the argument checks for any names, kinds and schemas.     *)
(***************************************************************************)
EXTENDS ArgChecks, TLAPS

-----------------------------------------------------------------------------
(* The table of types, and what a finished check has shown                 *)

\* The tests of _SCHEMA_TYPE_CHECKS are the JSON types, with a bool no number;
\* a type that is no key of the table admits every value.
LEMMA CheckedExact ==
  ASSUME NEW t \in Declared, NEW k \in Kind
  PROVE  Checked(t, k) <=> (t \in TypeName => k \in Fits(t))
  <1>1. t \in TypeName \cup {"untyped", "unknown", "union"}
    BY DeclaredAssumption
  <1>2. k \in {"str", "int", "float", "bool", "list", "dict", "null"}
    BY KindAssumption
  <1>3. CASE t \notin TypeName
    BY <1>1, <1>3 DEF Checked, TypeName
  <1>4. CASE t \in TypeName
    BY <1>2, <1>4 DEF Checked, TypeName, Fits, IsInt
  <1> QED BY <1>3, <1>4

LEMMA SchemaTyped ==
  ASSUME NEW s \in Schema
  PROVE  DOMAIN s \subseteq Field /\ \A f \in DOMAIN s : s[f] \in Declaration
  BY DEF Schema

LEMMA ArgsTyped ==
  ASSUME NEW a \in Args
  PROVE  DOMAIN a \subseteq Field /\ \A f \in DOMAIN a : a[f] \in Kind
  BY DEF Args

\* Arguments with declared names only conform to a schema exactly when no
\* declaration finds its argument missing or mistyped.
LEMMA ConformsExact ==
  ASSUME NEW s \in Schema, NEW a \in Args, DOMAIN a \subseteq DOMAIN s
  PROVE  Conforms(s, a) <=> \A f \in DOMAIN s : ~Missing(s, a, f) /\ ~Mistyped(s, a, f)
  <1>1. \A f \in DOMAIN s : s[f].required \in BOOLEAN /\ s[f].type \in Declared
    BY SchemaTyped DEF Declaration
  <1>2. \A f \in DOMAIN a :
          Checked(s[f].type, a[f]) <=> (s[f].type \in TypeName => a[f] \in Fits(s[f].type))
    BY <1>1, ArgsTyped, CheckedExact
  <1>3. ({f \in DOMAIN s : s[f].required} \subseteq DOMAIN a)
          <=> \A f \in DOMAIN s : ~Missing(s, a, f)
    BY <1>1 DEF Missing
  <1>4. (\A f \in DOMAIN a : s[f].type \in TypeName => a[f] \in Fits(s[f].type))
          <=> \A f \in DOMAIN s : ~Mistyped(s, a, f)
    BY <1>2 DEF Mistyped
  <1> QED BY <1>3, <1>4 DEF Conforms

-----------------------------------------------------------------------------
(* Types *)

LEMMA NoArgsTyped == NoArgs \in Args /\ NoSchema \in Schema
  <1>1. NoArgs \in [{} -> Kind] /\ NoSchema \in [{} -> Declaration]
    BY DEF NoArgs, NoSchema
  <1> QED BY <1>1 DEF Args, Schema

LEMMA NormalisedTyped ==
  ASSUME args \in Args \cup {Null, NotObject}, args # NotObject
  PROVE  Normalised \in Args
  BY NoArgsTyped DEF Normalised

LEMMA TypeInit == Init => TypeOK
  BY NoArgsTyped DEF Init, TypeOK, Policy

LEMMA TypeNext == TypeOK /\ LoopInv /\ [Next]_vars => TypeOK'
  <1> SUFFICES ASSUME TypeOK, LoopInv, [Next]_vars PROVE TypeOK'
    OBVIOUS
  <1> USE DEF TypeOK
  <1>1. CASE Plain
    BY <1>1, NoArgsTyped DEF Plain
  <1>2. CASE TypedNotObject
    BY <1>2 DEF TypedNotObject, Early
  <1>3. CASE TypedUnchecked
    BY <1>3, NormalisedTyped DEF TypedUnchecked
  <1>4. CASE TypedChecked
    BY <1>4, NormalisedTyped, SchemaTyped DEF TypedChecked, Begin, Early
  <1>5. CASE EarlyStep
    BY <1>5 DEF EarlyStep, FieldPasses, FieldRefused, FieldRaises, AllPassed, Early, LoopInv
  <1>6. CASE Deliver
    BY <1>6 DEF Deliver
  <1>7. CASE DispatchNotObject
    BY <1>7 DEF DispatchNotObject, Late
  <1>8. CASE DispatchUnknown
    BY <1>8, NormalisedTyped DEF DispatchUnknown, Late
  <1>9. CASE DispatchPermissive
    BY <1>9, NormalisedTyped DEF DispatchPermissive, Late
  <1>10. CASE DispatchStrict
    BY <1>10, NormalisedTyped, SchemaTyped DEF DispatchStrict, Begin, Late
  <1>11. CASE LateStep
    BY <1>11 DEF LateStep, FieldPasses, FieldRefused, FieldRaises, AllPassed, Late, LoopInv
  <1>12. CASE UNCHANGED vars
    BY <1>12 DEF vars
  <1> QED
    BY <1>1, <1>2, <1>3, <1>4, <1>5, <1>6, <1>7, <1>8, <1>9, <1>10, <1>11, <1>12
       DEF Next, CallerStep, TargetStep

-----------------------------------------------------------------------------
(* The loop invariant *)

LEMMA LoopInit == Init => LoopInv
  BY DEF Init, LoopInv

LEMMA LoopNext == TypeOK /\ LoopInv /\ [Next]_vars => LoopInv'
  <1> SUFFICES ASSUME TypeOK, LoopInv, [Next]_vars PROVE LoopInv'
    OBVIOUS
  <1> USE DEF LoopInv, Passed, Missing, Mistyped, Unhashable
  <1>1. CASE Plain
    BY <1>1 DEF Plain
  <1>2. CASE TypedNotObject
    BY <1>2 DEF TypedNotObject
  <1>3. CASE TypedUnchecked
    BY <1>3 DEF TypedUnchecked
  <1>4. CASE TypedChecked
    <2>1. Normalised \in Args
      BY <1>4, NormalisedTyped DEF TypedChecked, TypeOK
    <2> QED BY <1>4, <2>1 DEF TypedChecked, Begin
  <1>5. CASE EarlyStep
    <2>1. ASSUME NEW f \in todo, FieldPasses(mine, f) PROVE LoopInv'
      BY <1>5, <2>1 DEF EarlyStep, FieldPasses
    <2>2. ASSUME NEW f \in todo, FieldRefused(mine, f, "refused_early") PROVE LoopInv'
      BY <2>2 DEF FieldRefused
    <2>3. ASSUME NEW f \in todo, FieldRaises(mine, f, "raised_early") PROVE LoopInv'
      BY <2>3 DEF FieldRaises
    <2>4. CASE AllPassed("sent")
      BY <1>5, <2>4 DEF EarlyStep, AllPassed
    <2> QED BY <1>5, <2>1, <2>2, <2>3, <2>4 DEF EarlyStep
  <1>6. CASE Deliver
    BY <1>6 DEF Deliver
  <1>7. CASE DispatchNotObject
    BY <1>7 DEF DispatchNotObject
  <1>8. CASE DispatchUnknown
    BY <1>8 DEF DispatchUnknown
  <1>9. CASE DispatchPermissive
    <2>1. Normalised \in Args
      BY <1>9, NormalisedTyped DEF DispatchPermissive, TypeOK
    <2> QED BY <1>9, <2>1 DEF DispatchPermissive
  <1>10. CASE DispatchStrict
    <2>1. Normalised \in Args
      BY <1>10, NormalisedTyped DEF DispatchStrict, TypeOK
    <2>2. typed => args' = args
      BY <1>10, OutsideAssumption DEF DispatchStrict, TypeOK, Normalised
    <2> QED BY <1>10, <2>1, <2>2 DEF DispatchStrict, Begin
  <1>11. CASE LateStep
    <2>1. ASSUME NEW f \in todo, FieldPasses(theirs, f) PROVE LoopInv'
      BY <1>11, <2>1 DEF LateStep, FieldPasses
    <2>2. ASSUME NEW f \in todo, FieldRefused(theirs, f, "refused_late") PROVE LoopInv'
      BY <2>2 DEF FieldRefused
    <2>3. ASSUME NEW f \in todo, FieldRaises(theirs, f, "raised_late") PROVE LoopInv'
      BY <2>3 DEF FieldRaises
    <2>4. CASE AllPassed("handled")
      BY <1>11, <2>4 DEF LateStep, AllPassed
    <2> QED BY <1>11, <2>1, <2>2, <2>3, <2>4 DEF LateStep
  <1>12. CASE UNCHANGED vars
    BY <1>12 DEF vars
  <1> QED
    BY <1>1, <1>2, <1>3, <1>4, <1>5, <1>6, <1>7, <1>8, <1>9, <1>10, <1>11, <1>12
       DEF Next, CallerStep, TargetStep

Inv == TypeOK /\ LoopInv

LEMMA InvHolds == Spec => []Inv
  <1>1. Init => Inv
    BY TypeInit, LoopInit DEF Inv
  <1>2. Inv /\ [Next]_vars => Inv'
    BY TypeNext, LoopNext DEF Inv
  <1> QED BY <1>1, <1>2, PTL DEF Spec

\* Every call keeps its types, and the arguments of a call that request_typed
\* lets out are an object.
THEOREM TypeCorrect == Spec => []TypeOK
  <1>1. Inv => TypeOK
    BY DEF Inv
  <1> QED BY <1>1, InvHolds, PTL

-----------------------------------------------------------------------------
(* The three outcomes: a step that ends a call ends it as its check says.  *)

LEMMA HandlerSafeNext == Inv /\ HandlerSafe /\ [Next]_vars => HandlerSafe'
  <1> SUFFICES ASSUME Inv, HandlerSafe, [Next]_vars, pc' = "handled"
               PROVE  args' \in Args /\ (policy' = "strict" => Conforms(theirs', args'))
    BY DEF HandlerSafe
  <1> USE DEF Inv
  <1>1. CASE DispatchPermissive
    BY <1>1, NormalisedTyped DEF DispatchPermissive, TypeOK
  <1>2. CASE LateStep
    <2>1. AllPassed("handled")
      BY <1>2 DEF LateStep, FieldPasses, FieldRefused, FieldRaises
    <2>2. todo = {} /\ UNCHANGED <<args, theirs, policy>> /\ pc = "late"
      BY <1>2, <2>1 DEF AllPassed, LateStep
    <2>3. args \in Args /\ Passed(theirs, DOMAIN theirs)
      BY <2>2 DEF LoopInv
    <2>4. Conforms(theirs, args)
      BY <2>3, ConformsExact DEF Passed, TypeOK
    <2> QED BY <2>2, <2>3, <2>4
  <1>3. CASE EarlyStep
    BY <1>3 DEF EarlyStep, FieldPasses, FieldRefused, FieldRaises, AllPassed
  <1>4. CASE UNCHANGED vars
    BY <1>4 DEF vars, HandlerSafe
  <1> QED
    BY <1>1, <1>2, <1>3, <1>4
       DEF Next, CallerStep, TargetStep, Plain, TypedNotObject, TypedUnchecked, TypedChecked,
           Deliver, DispatchNotObject, DispatchUnknown, DispatchStrict, Begin

\* A declaration whose argument is missing or mistyped refutes conformance.
LEMMA Refuted ==
  ASSUME NEW s \in Schema, NEW a \in Args, NEW f \in DOMAIN s,
         Missing(s, a, f) \/ Mistyped(s, a, f)
  PROVE  ~Conforms(s, a)
  <1>1. CASE DOMAIN a \subseteq DOMAIN s
    BY <1>1, ConformsExact
  <1>2. CASE ~(DOMAIN a \subseteq DOMAIN s)
    BY <1>2 DEF Conforms
  <1> QED BY <1>1, <1>2

LEMMA RefusalNext == Inv /\ RefusalJustified /\ [Next]_vars => RefusalJustified'
  <1> SUFFICES ASSUME Inv, RefusalJustified, [Next]_vars PROVE RefusalJustified'
    OBVIOUS
  <1> USE DEF Inv, RefusalJustified
  <1>1. CASE TypedNotObject
    BY <1>1 DEF TypedNotObject
  <1>2. CASE TypedChecked
    BY <1>2 DEF TypedChecked, Begin, Conforms
  <1>3. CASE EarlyStep
    <2>1. ASSUME NEW f \in todo, FieldRefused(mine, f, "refused_early")
          PROVE  RefusalJustified'
      <3>1. mine \in Schema /\ args \in Args /\ f \in DOMAIN mine
        BY <1>3 DEF EarlyStep, LoopInv, TypeOK
      <3> QED BY <2>1, <3>1, Refuted DEF FieldRefused
    <2> QED BY <1>3, <2>1 DEF EarlyStep, FieldPasses, FieldRaises, AllPassed
  <1>4. CASE DispatchNotObject
    BY <1>4 DEF DispatchNotObject
  <1>5. CASE DispatchStrict
    BY <1>5 DEF DispatchStrict, Begin, Conforms
  <1>6. CASE LateStep
    <2>1. ASSUME NEW f \in todo, FieldRefused(theirs, f, "refused_late")
          PROVE  RefusalJustified'
      <3>1. theirs \in Schema /\ args \in Args /\ f \in DOMAIN theirs
        BY <1>6 DEF LateStep, LoopInv, TypeOK
      <3> QED BY <2>1, <3>1, Refuted DEF FieldRefused
    <2> QED BY <1>6, <2>1 DEF LateStep, FieldPasses, FieldRaises, AllPassed
  <1>7. CASE UNCHANGED vars
    BY <1>7 DEF vars
  <1> QED
    BY <1>1, <1>2, <1>3, <1>4, <1>5, <1>6, <1>7
       DEF Next, CallerStep, TargetStep, Plain, TypedUnchecked, Deliver, DispatchUnknown,
           DispatchPermissive

LEMMA AgreeNext == Inv /\ SidesAgree /\ [Next]_vars => SidesAgree'
  <1> SUFFICES ASSUME Inv, SidesAgree, [Next]_vars, typed', mine' = theirs'
               PROVE  pc' \notin {"refused_late", "raised_late"}
    BY DEF SidesAgree
  <1> USE DEF Inv
  <1>1. theirs' \in Schema /\ mine' # Failed /\ typed
    <2>1. theirs' \in Schema
      BY TypeNext DEF TypeOK
    <2>2. typed' = typed
      BY DEF Next, CallerStep, TargetStep, Plain, TypedNotObject, TypedUnchecked, TypedChecked,
             EarlyStep, LateStep, FieldPasses, FieldRefused, FieldRaises, AllPassed, Deliver,
             DispatchNotObject, DispatchUnknown, DispatchPermissive, DispatchStrict, vars
    <2> QED BY <2>1, <2>2, OutsideAssumption
  <1>2. CASE DispatchNotObject
    BY <1>1, <1>2, OutsideAssumption DEF DispatchNotObject, TypeOK
  <1>3. CASE DispatchStrict
    <2>1. Normalised = args
      BY <1>1, <1>3, OutsideAssumption DEF DispatchStrict, TypeOK, Normalised
    <2>2. DOMAIN args \subseteq DOMAIN theirs
      BY <1>1, <1>3 DEF DispatchStrict, LoopInv, Passed
    <2> QED BY <1>3, <2>1, <2>2 DEF DispatchStrict, Begin
  <1>4. CASE LateStep
    <2>1. mine = theirs /\ pc = "late" /\ todo \subseteq DOMAIN theirs
      BY <1>4 DEF LateStep, FieldPasses, FieldRefused, FieldRaises, AllPassed, LoopInv
    <2>2. \A f \in todo : /\ ~Missing(theirs, args, f)
                          /\ ~Mistyped(theirs, args, f)
                          /\ ~Unhashable(theirs, args, f)
      BY <1>1, <1>4, <2>1 DEF LateStep, FieldPasses, FieldRefused, FieldRaises, AllPassed,
                              LoopInv, Passed
    <2> QED BY <1>4, <2>1, <2>2
         DEF LateStep, FieldPasses, FieldRefused, FieldRaises, AllPassed
  <1>5. CASE EarlyStep
    BY <1>5 DEF EarlyStep, FieldPasses, FieldRefused, FieldRaises, AllPassed
  <1>6. CASE UNCHANGED vars
    BY <1>6 DEF vars, SidesAgree
  <1> QED
    BY <1>2, <1>3, <1>4, <1>5, <1>6
       DEF Next, CallerStep, TargetStep, Plain, TypedNotObject, TypedUnchecked, TypedChecked,
           Deliver, DispatchUnknown, DispatchPermissive, Begin

\* No handler of a strict skill (agent.py:1350) ever runs on arguments that its
\* schema does not admit, in whatever order the declarations are looked at.
THEOREM HandlersSafe == Spec => []HandlerSafe
  <1>1. Init => HandlerSafe
    BY DEF Init, HandlerSafe
  <1> QED BY <1>1, HandlerSafeNext, InvHolds, PTL DEF Spec

\* A call whose arguments conform to the schema of the side that checks it is
\* not refused (_validate_args_against_schema, agent.py:1413).
THEOREM RefusalsJustified == Spec => []RefusalJustified
  <1>1. Init => RefusalJustified
    BY DEF Init, RefusalJustified
  <1> QED BY <1>1, RefusalNext, InvHolds, PTL DEF Spec

\* With one schema on both sides, what passes request_typed passes the target.
THEOREM SidesAlwaysAgree == Spec => []SidesAgree
  <1>1. Init => SidesAgree
    BY DEF Init, SidesAgree
  <1> QED BY <1>1, AgreeNext, InvHolds, PTL DEF Spec

================================================================================
