------------------------------- MODULE Registry -------------------------------
(***************************************************************************)
(* The records agents describe themselves with: the registry contracts     *)
(* (khonliang_bus/registry.py) and Skill (khonliang_bus/agent.py). An      *)
(* agent builds one from keyword arguments, sends its to_dict(), and       *)
(* whoever reads that builds the record again.                             *)
(*                                                                         *)
(* Values are strings that name what the program tells apart. "P" is a     *)
(* record inside another, "D" one with its defaults only, "dict P" what    *)
(* to_dict() makes of it: the record inside is a record of this module in  *)
(* its own right. A field's kind says how its value is checked.            *)
(***************************************************************************)
EXTENDS FiniteSets

CONSTANT
  Inputs   \* what programs build records of: [class, args]

Raises == "raises"

-------------------------------------------------------------------------------
(***************************************************************************)
(* The classes and the kinds of their fields.                              *)
(***************************************************************************)

RuntimeProfile ==
  [model_size |-> "enum", reasoning |-> "enum", context_need |-> "enum", latency |-> "enum",
   cost |-> "enum", locality |-> "enum", budget_usd |-> "budget", deadline_ms |-> "limit",
   prefer_local |-> "on", allow_external |-> "off", metadata |-> "mapping"]

ExecutionRun == [tier |-> "tier", count |-> "count", role |-> "text", metadata |-> "mapping"]

ExecutionProfile ==
  [profile_id |-> "id", runs |-> "records", mode |-> "enum", aggregation |-> "enum",
   output_mode |-> "enum", max_duration_ms |-> "limit", supports_async |-> "off",
   supports_resume |-> "off", supports_cancel |-> "off", idempotent |-> "on",
   metadata |-> "mapping"]

OutputContract ==
  [content_type |-> "content", summary_fields |-> "list", output_mode |-> "enum",
   artifact_kind |-> "text", schema |-> "mapping", metadata |-> "mapping"]

ProviderDescriptor ==
  [provider_id |-> "id", version |-> "text", provider_type |-> "enum", status |-> "enum",
   locality |-> "enum", declared_profile |-> "record", metadata |-> "mapping"]

SkillDescriptor ==
  [skill_id |-> "id", provider_id |-> "id", name |-> "id", capability |-> "text",
   description |-> "text", aliases |-> "list", authority |-> "enum", status |-> "enum",
   execution_profiles |-> "records", output_contract |-> "record",
   runtime_profile |-> "record", input_schema |-> "mapping", metadata |-> "mapping"]

CapabilityRoute ==
  [capability |-> "id", owner |-> "id", fallbacks |-> "list", status |-> "enum",
   deprecated_aliases |-> "mapping", metadata |-> "mapping"]

Skill ==
  [name |-> "name", description |-> "text", since |-> "text", capability |-> "text",
   parameters |-> "dict", metadata |-> "dict", input_schema |-> "schema",
   output_contract |-> "option", runtime_profile |-> "option", authority |-> "enum",
   status |-> "enum", aliases |-> "list", execution_profiles |-> "records",
   default_timeout_s |-> "timeout", prompt |-> "prompt", strict_args |-> "strict",
   examples |-> "aspect", pairs_with |-> "aspect", not_appropriate_for |-> "aspect"]

Kinds ==
  [RuntimeProfile |-> RuntimeProfile, ExecutionRun |-> ExecutionRun,
   ExecutionProfile |-> ExecutionProfile, OutputContract |-> OutputContract,
   ProviderDescriptor |-> ProviderDescriptor, SkillDescriptor |-> SkillDescriptor,
   CapabilityRoute |-> CapabilityRoute, Skill |-> Skill]

Class == DOMAIN Kinds
Fields(c) == DOMAIN Kinds[c]

Unset == "unset"

\* The default of each kind; "unset" where the argument is required.
Default ==
  [id |-> Unset, name |-> Unset, tier |-> Unset, text |-> "", prompt |-> "", enum |-> "member",
   mapping |-> "{}", dict |-> "{}", schema |-> "{}", list |-> "[]", records |-> "[]",
   aspect |-> "[]", on |-> "True", off |-> "False", strict |-> "False", count |-> "1",
   budget |-> "None", limit |-> "None", timeout |-> "None", option |-> "None",
   record |-> "D", content |-> "json"]

Required(c) == {f \in Fields(c) : Default[Kinds[c][f]] = Unset}

-------------------------------------------------------------------------------
(***************************************************************************)
(* The checks of __post_init__: what a value becomes, by kind.             *)
(***************************************************************************)

\* A check that takes some values as they are, and refuses the others.
Taken(values, refused) ==
  [v \in values \cup refused |-> IF v \in refused THEN Raises ELSE v]

\* One that makes something of None, too.
OrNone(values, some, refused) ==
  [v \in values \cup {"None"} \cup refused |->
     IF v \in refused THEN Raises ELSE IF v = "None" THEN some ELSE v]

\* _coerce_enum: a member, or the value of one.
Enumerated == Taken({"member", "other"}, {"bogus", "None"})

\* A one-letter string where a list belongs becomes a list of its letters.
Listed ==
  [v \in {"[]", "[x]", "", "x", "None"} |->
     CASE v = "" -> "[]" [] v = "x" -> "[x]" [] v = "None" -> Raises [] OTHER -> v]

\* A record, or the dict of one.
Nested(none) ==
  [v \in {"P", "D", "dict P", "dict D", "{}", "[]", "None"} |->
     CASE v = "dict P" -> "P" [] v \in {"dict D", "{}"} -> "D"
       [] v = "[]" -> Raises [] v = "None" -> none [] OTHER -> v]

Records ==
  [v \in {"[]", "[P]", "[dict P]", "[None]"} |->
     CASE v = "[dict P]" -> "[P]" [] v = "[None]" -> Raises [] OTHER -> v]

Coerced ==
  [enum    |-> Enumerated,
   tier    |-> Taken({"member", "other"}, {"bogus"}),
   id      |-> Taken({"x"}, {"", "None"}),
   content |-> Taken({"json", "x"}, {"", "None"}),
   name    |-> Taken({"x", ""}, {}),
   text    |-> Taken({"x", ""}, {}),
   mapping |-> OrNone({"{}", "{k}", "{m}"}, "{}", {"[x]"}),
   dict    |-> Taken({"{}", "{k}"}, {"None"}),
   schema  |-> OrNone({"{}", "{k}", "{m}"}, "{}", {}),
   list    |-> Listed,
   aspect  |-> OrNone({"[]", "[x]"}, "[]", {"x", "{k}", "[None]"}),
   prompt  |-> OrNone({"", "x"}, "", {"False", "{}"}),
   on      |-> Taken({"True", "False"}, {}),
   off     |-> Taken({"True", "False"}, {}),
   strict  |-> Taken({"True", "False"}, {"1", "None"}),
   budget  |-> Taken({"None", "0", "1"}, {"-1"}),
   limit   |-> Taken({"None", "1"}, {"0", "-1"}),
   timeout |-> Taken({"None", "1"}, {"0", "-1", "True"}),
   count   |-> Taken({"1", "2"}, {"0", "None"}),
   record  |-> Nested(Raises),
   option  |-> Nested("None"),
   records |-> Records]

Raw(c, f) == DOMAIN Coerced[Kinds[c][f]]

\* Arguments of the class, with values that tell their checks apart.
WellTyped(c, args) ==
  /\ c \in Class /\ DOMAIN args \subseteq Fields(c)
  /\ \A f \in DOMAIN args : args[f] \in Raw(c, f)

ASSUME InputAssumption == \A input \in Inputs : WellTyped(input.class, input.args)

Given(c, args, f) == IF f \in DOMAIN args THEN args[f] ELSE Default[Kinds[c][f]]
Field(c, args, f) == Coerced[Kinds[c][f]][Given(c, args, f)]

\* The class accepts the keyword arguments.
Accepts(c, args) ==
  /\ Required(c) \subseteq DOMAIN args /\ DOMAIN args \subseteq Fields(c)
  /\ \A f \in Fields(c) : Field(c, args, f) # Raises

\* The record it makes of them. A skill without an input_schema takes its
\* parameters for one.
Built(c, args) ==
  [f \in Fields(c) |->
     IF f = "input_schema" /\ c = "Skill" /\ Field(c, args, f) = "{}"
     THEN Field(c, args, "parameters") ELSE Field(c, args, f)]

-------------------------------------------------------------------------------
(***************************************************************************)
(* to_dict(): what goes over the wire.                                     *)
(***************************************************************************)

\* Faulty variant: `if value', which drops False and 0 as well.
EmptyFalsy == {"None", "", "[]", "{}", "False", "0"}

\* The values left out.
Empty == {"None", "", "[]", "{}"}

Serialized(v) ==
  CASE v = "P" -> "dict P" [] v = "D" -> "dict D" [] v = "[P]" -> "[dict P]" [] OTHER -> v

\* What Skill.to_dict() always writes.
AlwaysWritten == {"name", "description", "parameters", "since"}

SkillWritten(r) ==
  AlwaysWritten \cup {f \in DOMAIN r \ {"input_schema", "strict_args"} : r[f] \notin Empty}
  \cup (IF r.input_schema \notin Empty \cup {r.parameters} THEN {"input_schema"} ELSE {})
  \cup (IF r.strict_args = "True" THEN {"strict_args"} ELSE {})

Written(c, r) ==
  IF c = "Skill" THEN SkillWritten(r) ELSE {f \in DOMAIN r : r[f] \notin Empty}

ToDict(c, r) == [f \in Written(c, r) |-> Serialized(r[f])]

-------------------------------------------------------------------------------
(***************************************************************************)
(* A record's way from one program to another.                             *)
(***************************************************************************)

VARIABLES
  class,     \* the class of the record
  record,    \* what the first program built
  wire,      \* what it sent
  received   \* what the other one built of it

records == <<class, record, wire, received>>

Nothing == <<>>
Refusal == <<Raises>>

RecordInit ==
  /\ class = "Skill"
  /\ record = Nothing /\ wire = Nothing /\ received = Nothing

\* A program builds a record. Arguments that are refused raise, and there is none.
Build ==
  /\ record = Nothing
  /\ \E input \in Inputs :
       /\ Accepts(input.class, input.args)
       /\ class' = input.class
       /\ record' = Built(input.class, input.args)
  /\ UNCHANGED <<wire, received>>

Or(v, w, unset) == IF v = unset THEN w ELSE v

\* The arguments of Skill.descriptor().
Described(r) ==
  [f \in Fields("SkillDescriptor") |->
     CASE f \in {"skill_id", "provider_id"} -> "x"
       [] f = "capability" -> Or(r.capability, r.name, "")
       [] f \in {"output_contract", "runtime_profile"} -> Or(r[f], "D", "None")
       [] OTHER -> r[f]]

Describe ==
  /\ record # Nothing /\ class = "Skill" /\ wire = Nothing
  /\ Accepts("SkillDescriptor", Described(record))
  /\ class' = "SkillDescriptor"
  /\ record' = Built("SkillDescriptor", Described(record))
  /\ UNCHANGED <<wire, received>>

Send ==
  /\ record # Nothing /\ wire = Nothing
  /\ wire' = ToDict(class, record)
  /\ UNCHANGED <<class, record, received>>

\* from_dict(), or Skill(**data)
Receive ==
  /\ wire # Nothing /\ received = Nothing
  /\ received' = IF Accepts(class, wire) THEN Built(class, wire) ELSE Refusal
  /\ UNCHANGED <<class, record, wire>>

RecordNext == Build \/ Describe \/ Send \/ Receive

RecordSpec == RecordInit /\ [][RecordNext]_records

\* A record that has been built holds only values its checks give; a skill has
\* its parameters for an input_schema, or one that says something.
WellBuilt(c, r) ==
  /\ c \in Class /\ r = [f \in Fields(c) |-> r[f]]
  /\ \A f \in Fields(c) :
       r[f] # Raises /\ \E v \in Raw(c, f) : r[f] = Coerced[Kinds[c][f]][v]
  /\ c = "Skill" /\ r.input_schema = "{}" => r.parameters = "{}"

RecordInv ==
  /\ record # Nothing => WellBuilt(class, record)
  /\ wire # Nothing => record # Nothing /\ wire = ToDict(class, record)
  /\ received # Nothing => wire # Nothing /\ received = record

\* What arrives is what was sent: no value a program may set, and no default
\* it may override, is lost, replaced or refused on the way. BaseAgent's own
\* _all_skills() relies on it for the built-in skills.
RoundTrip == received \in {Nothing, record}
===============================================================================
