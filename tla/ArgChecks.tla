------------------------------- MODULE ArgChecks -------------------------------
(***************************************************************************)
(* One call of a skill, from the caller's request_typed() or request() to  *)
(* the target's _dispatch_request() (khonliang_bus/agent.py), and the      *)
(* schema check both sides run: the caller's early one against the schema  *)
(* it fetched, the target's late one against the schema it declares.       *)
(*                                                                         *)
(* A value is its JSON kind. A schema maps names to declarations; one that *)
(* is no dict is skipped by the check, as an optional untyped one is. The  *)
(* loop over a schema runs in its insertion order, here in any order.      *)
(*                                                                         *)
(* External: the bus, and where the schemas of the two sides come from.    *)
(***************************************************************************)
CONSTANTS
  Field,      \* names of arguments
  Kind,       \* JSON kinds of the values in a call
  Declared,   \* what "type" of a declaration may be
  Null,       \* args is None, or null on the wire
  NotObject,  \* args is neither None nor a dict
  Failed      \* no schema to check early: the fetch, or Skill(), failed

ASSUME KindAssumption == Kind \subseteq {"str", "int", "float", "bool", "list", "dict", "null"}

\* The keys of _SCHEMA_TYPE_CHECKS; "untyped" stands for no type, "unknown" for
\* a string that is no key, "union" for a list such as ["string", "null"].
TypeName == {"string", "integer", "number", "boolean", "array", "object", "null"}
ASSUME DeclaredAssumption == Declared \subseteq TypeName \cup {"untyped", "unknown", "union"}

Declaration == [required : BOOLEAN, type : Declared]
Schema == UNION {[D -> Declaration] : D \in SUBSET Field}
Args == UNION {[D -> Kind] : D \in SUBSET Field}
NoArgs == [f \in {} |-> "null"]
NoSchema == [f \in {} |-> [required |-> FALSE, type |-> "untyped"]]

ASSUME OutsideAssumption ==
  /\ Null \notin Args
  /\ NotObject \notin Args
  /\ Null # NotObject
  /\ Failed \notin Schema

\* What the target knows of the operation: no handler; a handler whose Skill is
\* missing or not strict_args; a handler with a strict Skill.
Policy == {"unknown", "permissive", "strict"}

Early == {"refused_early", "raised_early"}
Late  == {"refused_late", "raised_late", "unknown_operation", "handled"}

VARIABLES
  typed,   \* the call is made through request_typed
  args,    \* its arguments
  mine,    \* the schema the caller checks against
  theirs,  \* the schema the target checks against
  policy,  \* what the target knows of the operation
  pc,      \* where the call is
  todo     \* the declarations the check under way has not looked at

vars == <<typed, args, mine, theirs, policy, pc, todo>>

TypeOK ==
  /\ typed \in BOOLEAN
  /\ args \in Args \cup {Null, NotObject}
  /\ typed /\ pc \notin {"call", "refused_early"} => args \in Args
  /\ mine \in Schema \cup {Failed}
  /\ theirs \in Schema
  /\ policy \in Policy
  /\ pc \in {"call", "early", "sent", "delivered", "late"} \cup Early \cup Late
  /\ todo \in SUBSET Field

Init ==
  /\ typed \in BOOLEAN
  /\ args \in Args \cup {Null, NotObject}
  /\ mine \in Schema \cup {Failed}
  /\ theirs = NoSchema
  /\ policy = "unknown"
  /\ pc = "call"
  /\ todo = {}

-----------------------------------------------------------------------------
(* _validate_args_against_schema *)

\* Faulty variant: the types are tested with isinstance alone.
CheckedLoosely(t, k) ==
  /\ t = "integer" => k \in {"int", "bool"}
  /\ t = "number" => k \in {"int", "float", "bool"}
  /\ t = "string" => k = "str"
  /\ t = "boolean" => k = "bool"
  /\ t = "array" => k = "list"
  /\ t = "object" => k = "dict"
  /\ t = "null" => k = "null"

\* Faulty variant: a whole number is no "number".
CheckedFloats(t, k) ==
  /\ t = "integer" => k = "int"
  /\ t = "number" => k = "float"
  /\ t = "string" => k = "str"
  /\ t = "boolean" => k = "bool"
  /\ t = "array" => k = "list"
  /\ t = "object" => k = "dict"
  /\ t = "null" => k = "null"

\* isinstance(True, int) holds in Python; the table excludes it.
IsInt(k) == k \in {"int", "bool"}
Checked(t, k) ==
  /\ t = "integer" => IsInt(k) /\ k # "bool"
  /\ t = "number" => (IsInt(k) \/ k = "float") /\ k # "bool"
  /\ t = "string" => k = "str"
  /\ t = "boolean" => k = "bool"
  /\ t = "array" => k = "list"
  /\ t = "object" => k = "dict"
  /\ t = "null" => k = "null"

Missing(s, a, f)  == f \notin DOMAIN a /\ s[f].required
Mistyped(s, a, f) == f \in DOMAIN a /\ ~Checked(s[f].type, a[f])

\* A list cannot be looked up in the table: TypeError.
Unhashable(s, a, f) == f \in DOMAIN a /\ s[f].type = "union"

\* The check begins: unknown names first, then one declaration after another.
Begin(s, a, loop, refused) ==
  IF DOMAIN a \subseteq DOMAIN s
    THEN pc' = loop /\ todo' = DOMAIN s
    ELSE pc' = refused /\ UNCHANGED todo

FieldPasses(s, f) ==
  /\ ~Missing(s, args, f) /\ ~Mistyped(s, args, f) /\ ~Unhashable(s, args, f)
  /\ todo' = todo \ {f}
  /\ UNCHANGED <<typed, args, mine, theirs, policy, pc>>

FieldRefused(s, f, refused) ==
  /\ Missing(s, args, f) \/ Mistyped(s, args, f)
  /\ pc' = refused
  /\ todo' = {}
  /\ UNCHANGED <<typed, args, mine, theirs, policy>>

FieldRaises(s, f, raised) ==
  /\ Unhashable(s, args, f)
  /\ pc' = raised
  /\ todo' = {}
  /\ UNCHANGED <<typed, args, mine, theirs, policy>>

AllPassed(next) ==
  /\ todo = {}
  /\ pc' = next
  /\ UNCHANGED <<typed, args, mine, theirs, policy, todo>>

-----------------------------------------------------------------------------
(* The caller *)

Normalised == IF args = Null THEN NoArgs ELSE args

\* request(), or another client's frame: `args or {}', or whatever it sends.
Plain ==
  /\ pc = "call" /\ ~typed
  /\ \/ UNCHANGED args
     \/ args \in {Null, NotObject} /\ args' = NoArgs
  /\ pc' = "sent"
  /\ UNCHANGED <<typed, mine, theirs, policy, todo>>

TypedNotObject ==
  /\ pc = "call" /\ typed
  /\ args = NotObject
  /\ pc' = "refused_early"
  /\ UNCHANGED <<typed, args, mine, theirs, policy, todo>>

\* Faulty variant: without a schema the arguments go out as they came.
TypedUncheckedRaw ==
  /\ pc = "call" /\ typed
  /\ args # NotObject
  /\ mine = Failed
  /\ pc' = "sent"
  /\ UNCHANGED <<typed, args, mine, theirs, policy, todo>>

\* No schema: the call goes out unchecked.
TypedUnchecked ==
  /\ pc = "call" /\ typed
  /\ args # NotObject
  /\ mine = Failed
  /\ args' = Normalised
  /\ pc' = "sent"
  /\ UNCHANGED <<typed, mine, theirs, policy, todo>>

\* Faulty variant: only the names are checked early.
TypedCheckedNames ==
  /\ pc = "call" /\ typed
  /\ args # NotObject
  /\ mine # Failed
  /\ args' = Normalised
  /\ pc' = IF DOMAIN Normalised \subseteq DOMAIN mine THEN "sent" ELSE "refused_early"
  /\ UNCHANGED <<typed, mine, theirs, policy, todo>>

TypedChecked ==
  /\ pc = "call" /\ typed
  /\ args # NotObject
  /\ mine # Failed
  /\ args' = Normalised
  /\ Begin(mine, Normalised, "early", "refused_early")
  /\ UNCHANGED <<typed, mine, theirs, policy>>

EarlyStep ==
  /\ pc = "early"
  /\ \/ \E f \in todo :
          \/ FieldPasses(mine, f)
          \/ FieldRefused(mine, f, "refused_early")
          \/ FieldRaises(mine, f, "raised_early")
     \/ AllPassed("sent")

-----------------------------------------------------------------------------
(* The bus, and the target's _dispatch_request *)

\* External: the bus routes the call to a target with some schema and policy.
Deliver ==
  /\ pc = "sent"
  /\ theirs' \in Schema
  /\ policy' \in Policy
  /\ pc' = "delivered"
  /\ UNCHANGED <<typed, args, mine, todo>>

\* The shape is looked at before the operation.
DispatchNotObject ==
  /\ pc = "delivered"
  /\ args = NotObject
  /\ pc' = "refused_late"
  /\ UNCHANGED <<typed, args, mine, theirs, policy, todo>>

DispatchUnknown ==
  /\ pc = "delivered"
  /\ args # NotObject
  /\ policy = "unknown"
  /\ args' = Normalised
  /\ pc' = "unknown_operation"
  /\ UNCHANGED <<typed, mine, theirs, policy, todo>>

DispatchPermissive ==
  /\ pc = "delivered"
  /\ args # NotObject
  /\ policy = "permissive"
  /\ args' = Normalised
  /\ pc' = "handled"
  /\ UNCHANGED <<typed, mine, theirs, policy, todo>>

DispatchStrict ==
  /\ pc = "delivered"
  /\ args # NotObject
  /\ policy = "strict"
  /\ args' = Normalised
  /\ Begin(theirs, Normalised, "late", "refused_late")
  /\ UNCHANGED <<typed, mine, theirs, policy>>

LateStep ==
  /\ pc = "late"
  /\ \/ \E f \in todo :
          \/ FieldPasses(theirs, f)
          \/ FieldRefused(theirs, f, "refused_late")
          \/ FieldRaises(theirs, f, "raised_late")
     \/ AllPassed("handled")

CallerStep == Plain \/ TypedNotObject \/ TypedUnchecked \/ TypedChecked \/ EarlyStep
TargetStep ==
  DispatchNotObject \/ DispatchUnknown \/ DispatchPermissive \/ DispatchStrict \/ LateStep

Next == CallerStep \/ Deliver \/ TargetStep

Spec == Init /\ [][Next]_vars

-----------------------------------------------------------------------------
(* Properties *)

\* What a schema asks for, in JSON's terms and without an order of checks.
Fits(t) ==
  [string |-> {"str"}, integer |-> {"int"}, number |-> {"int", "float"}, boolean |-> {"bool"},
   array |-> {"list"}, object |-> {"dict"}, null |-> {"null"}][t]

Conforms(s, a) ==
  /\ DOMAIN a \subseteq DOMAIN s
  /\ {f \in DOMAIN s : s[f].required} \subseteq DOMAIN a
  /\ \A f \in DOMAIN a : s[f].type \in TypeName => a[f] \in Fits(s[f].type)

\* The handler of a strict skill runs only on arguments its schema admits, and
\* every handler gets a dict, whatever the caller checked or sent.
HandlerSafe ==
  pc = "handled" => args \in Args /\ (policy = "strict" => Conforms(theirs, args))

\* A call is refused only for a reason: its arguments are no object, or do not
\* conform to the schema of the side that refuses it.
RefusalJustified ==
  /\ pc = "refused_early" => args = NotObject \/ ~Conforms(mine, args)
  /\ pc = "refused_late" => args = NotObject \/ ~Conforms(theirs, args)

\* Two sides with one schema agree: what request_typed lets through on a check
\* is neither refused nor crashed on by the target (agent.py:1702, "same error
\* shape as the dispatcher-side path, same field-name semantics").
SidesAgree ==
  typed /\ mine = theirs => pc \notin {"refused_late", "raised_late"}

\* "A malformed remote schema [...] shouldn't block the caller" (agent.py:1704):
\* false, a type that is a list raises TypeError out of request_typed.
MalformedNeverBlocks == pc # "raised_early"

\* The argument for the three: what the checks have established so far.
Passed(s, done) ==
  /\ DOMAIN args \subseteq DOMAIN s
  /\ \A f \in done : ~Missing(s, args, f) /\ ~Mistyped(s, args, f) /\ ~Unhashable(s, args, f)

LoopInv ==
  /\ pc \in {"early", "late", "handled"} => args \in Args
  /\ pc = "early" => /\ typed /\ mine # Failed
                     /\ todo \subseteq DOMAIN mine
                     /\ Passed(mine, DOMAIN mine \ todo)
  /\ typed /\ mine # Failed /\ pc \in {"sent", "delivered", "late"} =>
       Passed(mine, DOMAIN mine)
  /\ pc = "late" => /\ policy = "strict"
                    /\ todo \subseteq DOMAIN theirs
                    /\ Passed(theirs, DOMAIN theirs \ todo)

================================================================================
