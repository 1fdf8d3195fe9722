-------------------------------- MODULE Catalog -------------------------------
(***************************************************************************)
(* What an agent says it can do and what it does (BaseAgent in             *)
(* khonliang_bus/agent.py): its handlers, collected from its classes; its  *)
(* skills, composed with the built-in ones at every call; the registration *)
(* and the welcome that start() publishes; the answers of help; and the    *)
(* skills that dispatching caches. The bus may start the process again     *)
(* from what it registered.                                                *)
(*                                                                         *)
(* A name is a sequence of words. A skill is its name, its schema, whether *)
(* it asks for strict checks, and whether its parameters are the object of *)
(* a class-level descriptor: Registry has the rest. External: the subclass *)
(* (Designs), its callers, and the bus.                                    *)
(***************************************************************************)
EXTENDS Integers, Launch, SequencesExt

CONSTANTS
  Designs,   \* agent classes: [mro, offers], see DesignAssumption
  Launches   \* command lines agents run with

BuiltInSkills == <<<<"health", "check">>, <<"welcome">>, <<"help">>>>
BuiltInNames == ToSet(BuiltInSkills)

Attribute(n) == <<"handle">> \o n   \* the method of a built-in

\* BaseAgent's own methods and their operations.
Base == [m \in {Attribute(n) : n \in BuiltInNames} |-> Tail(m)]

Plain == <<>>   \* the operation of a method without @handler

\* A class is its methods with their operations, the most basic class first;
\* register_skills() returns one of the lists in offers at each call.
ASSUME DesignAssumption ==
  \A d \in Designs :
    /\ d.mro \in Seq(ToSet(d.mro)) /\ d.mro # <<>> /\ d.mro[1] = Base
    /\ d.offers # {} /\ \A offer \in d.offers : offer \in Seq(ToSet(offer))
    /\ \A k \in DOMAIN d.mro : \A m, n \in DOMAIN d.mro[k] :
         d.mro[k][m] = d.mro[k][n] /\ m # n => d.mro[k][m] = Plain

ASSUME LaunchAssumption ==
  \A line \in Launches :
    /\ line \in Seq(ToSet(line))
    /\ line # <<>> /\ Head(line) \in {Executable} \cup PythonNames

VARIABLES
  design,    \* the agent's class
  argv,      \* sys.orig_argv of its process
  declared,  \* the schemas of the class-level built-in descriptors
  skills,    \* the list start() composed
  bus,       \* what the bus holds of the agent
  cache,     \* _skills_by_op_cache
  told,      \* what help told a caller, by name
  served,    \* what the last dispatch ran, and what it checked
  launched   \* history: the command line the agent was first run with

process == <<declared, skills, cache, told, served>>
vars == <<design, launched, argv, bus, process>>

None == <<>>
Pristine == [n \in BuiltInNames |-> "built in"]

Init ==
  /\ design \in Designs
  /\ launched \in Launches /\ argv = launched
  /\ declared = Pristine
  /\ skills = None /\ bus = None /\ cache = None /\ told = None /\ served = None

-------------------------------------------------------------------------------
(***************************************************************************)
(* Classes and skills.                                                     *)
(***************************************************************************)

\* The classes of d with a method decorated for op.
Decorating(d, op) == {k \in DOMAIN d.mro : \E m \in DOMAIN d.mro[k] : d.mro[k][m] = op}

\* Faulty variant: the classes are walked from the subclass to the base.
ServingBase(d, op) == Min(Decorating(d, op))

\* The one whose method serves it.
Serving(d, op) == Max(Decorating(d, op))

Operations(d) == UNION {{d.mro[k][m] : m \in DOMAIN d.mro[k]} : k \in DOMAIN d.mro} \ {Plain}

\* The method that runs: the attribute found there, as self has it.
Handler(d, op) ==
  LET k == Serving(d, op)
      m == CHOOSE a \in DOMAIN d.mro[k] : d.mro[k][a] = op
  IN [class |-> Max({j \in DOMAIN d.mro : m \in DOMAIN d.mro[j]}), method |-> m]

\* The class from_mcp makes of a server's tools, in order: a method and a skill
\* without parameters for each.
FromMcp(tools) ==
  [mro |-> <<Base, [m \in {<<"_handle">> \o t : t \in ToSet(tools)} |-> Tail(m)]>>,
   offers |-> {[i \in DOMAIN tools |->
                  [name |-> tools[i], schema |-> "none", strict |-> FALSE, aliased |-> FALSE]]}]

Names(list) == {list[i].name : i \in DOMAIN list}

BuiltIn(n) == [name |-> n, schema |-> declared[n], strict |-> FALSE, aliased |-> TRUE]

\* Faulty variant: the parameters are kept.
RebuiltShallow(s) == s

\* Skill(**s.to_dict()): __post_init__ copies the parameters deeply.
Rebuilt(s) == [s EXCEPT !.aliased = FALSE]

\* A built-in skill, unless the subclass has one of its name.
Extra(n, offer) == IF n \in Names(offer) THEN <<>> ELSE <<Rebuilt(BuiltIn(n))>>

AllSkills(offer) ==
  offer \o Extra(BuiltInSkills[1], offer) \o Extra(BuiltInSkills[2], offer)
        \o Extra(BuiltInSkills[3], offer)

\* A dict by name: the last skill of a name stays.
ByName(list) ==
  [n \in Names(list) |-> list[Max({i \in DOMAIN list : list[i].name = n})]]

-------------------------------------------------------------------------------
(***************************************************************************)
(* start(): the registration and the welcome.                              *)
(***************************************************************************)

Category(n) ==
  IF n \in BuiltInNames THEN "builtin" ELSE IF Len(n) > 1 THEN Head(n) ELSE "misc"

\* skill_count and skills_by_category of the full welcome; a category's skills
\* are at their places in the list.
ComposeWelcome(list) ==
  [count |-> Len(list),
   groups |-> [c \in {Category(n) : n \in Names(list)} |->
                 RestrictValues(list, LAMBDA s : Category(s.name) = c)]]

\* register_skills() is called once.
Start ==
  /\ skills = None
  /\ \E offer \in design.offers : skills' = AllSkills(offer)
  /\ UNCHANGED <<design, launched, argv, bus, declared, cache, told, served>>

Published(list, welcomed) ==
  [skills |-> list, welcome |-> ComposeWelcome(welcomed), spec |-> CaptureLaunchSpec(argv)]

\* Faulty variant: handle_welcome is not given the list.
RegisterAnew ==
  /\ skills # None /\ bus = None
  /\ \E offer \in design.offers : bus' = Published(skills, AllSkills(offer))
  /\ UNCHANGED <<design, launched, argv, process>>

\* connect_and_register with the welcome of handle_welcome(_skills=skills).
Register ==
  /\ skills # None /\ bus = None
  /\ bus' = Published(skills, skills)
  /\ UNCHANGED <<design, launched, argv, process>>

-------------------------------------------------------------------------------
(***************************************************************************)
(* Requests, and what callers do with the answers.                         *)
(***************************************************************************)

\* The skill that the arguments of op are checked against, if any.
Checked(op, own) == IF op \in DOMAIN own THEN own[op] ELSE None

\* The first dispatch of a known operation fills the cache.
Dispatch(op) ==
  /\ bus # None /\ op \in Operations(design)
  /\ \E offer \in design.offers :
       cache' = IF cache = None THEN ByName(AllSkills(offer)) ELSE cache
  /\ served' =
       [op |-> op, ran |-> Handler(design, op), checked |-> Checked(op, cache')]
  /\ UNCHANGED <<design, launched, argv, bus, declared, skills, told>>

HandleHelp ==
  /\ bus # None
  /\ \E offer \in design.offers : told' = ByName(AllSkills(offer))
  /\ UNCHANGED <<design, launched, argv, bus, declared, skills, cache, served>>

\* A caller in the same process changes the parameters of a built-in skill it
\* was told of; the object may be the descriptor's own.
Edit(n) ==
  /\ n \in DOMAIN told \ UNION {Names(offer) : offer \in design.offers}
  /\ told' = [told EXCEPT ![n].schema = "edited"]
  /\ declared' = IF told[n].aliased THEN [declared EXCEPT ![n] = "edited"] ELSE declared
  /\ UNCHANGED <<design, launched, argv, bus, skills, cache, served>>

\* The process is gone, and the bus starts it from the launch_spec; the new
\* registration replaces the old one.
Respawn ==
  /\ bus # None
  /\ argv' = Respawned(bus.spec)
  /\ declared' = Pristine
  /\ skills' = None /\ bus' = None /\ cache' = None /\ told' = None /\ served' = None
  /\ UNCHANGED <<design, launched>>

Next ==
  \/ Start \/ Register \/ HandleHelp \/ Respawn
  \/ \E op \in UNION {Operations(d) : d \in Designs} : Dispatch(op)
  \/ \E n \in BuiltInNames : Edit(n)

Spec == Init /\ [][Next]_vars
-------------------------------------------------------------------------------
(***************************************************************************)
(* What the properties rest on, conjunct by conjunct.                      *)
(***************************************************************************)

\* The command line respawned is the first one but for the interpreter, and the
\* bus has it as it is.
LaunchInv ==
  /\ launched \in Launches
  /\ argv \in Seq(ToSet(argv)) /\ argv # <<>>
  /\ Head(argv) \in {Executable} \cup PythonNames
  /\ Program(argv) = Program(launched)
  /\ bus # None => bus.spec = CaptureLaunchSpec(argv)

\* The welcome was composed from the list registered with it.
BusInv == bus # None => bus.welcome = ComposeWelcome(bus.skills)

Edited(n) == [name |-> n, schema |-> "edited", strict |-> FALSE, aliased |-> FALSE]

\* A caller was told some list's skills, but for built-in ones it has edited.
ToldInv ==
  told # None => \E offer \in design.offers :
    LET own == ByName(AllSkills(offer))
    IN /\ DOMAIN told = DOMAIN own
       /\ \A n \in DOMAIN told : told[n] \in {own[n], Edited(n)}

\* What is cached and what the last dispatch checked are some list's skills, and
\* it ran the handler of its operation.
ServedInv ==
  /\ cache # None => \E offer \in design.offers : cache = ByName(AllSkills(offer))
  /\ served # None =>
       /\ served.op \in Operations(design) /\ served.ran = Handler(design, served.op)
       /\ \E offer \in design.offers :
            served.checked = Checked(served.op, ByName(AllSkills(offer)))

CatalogInv ==
  /\ design \in Designs /\ declared = Pristine
  /\ LaunchInv /\ BusInv /\ ToldInv /\ ServedInv

-------------------------------------------------------------------------------
(***************************************************************************)
(* Properties.                                                             *)
(***************************************************************************)

Times(n, list) == Cardinality({i \in DOMAIN list : list[i].name = n})

\* The welcome the bus keeps is about the skills it has registered: as many,
\* each in one category, as often as registered, and no other; also when
\* register_skills() gives another list at each call (agent.py:1187), and when
\* the prefix of a name is the name of a bucket (agent.py:887).
OneCatalog ==
  bus # None =>
    LET groups == bus.welcome.groups
    IN /\ bus.welcome.count = Len(bus.skills)
       /\ \A c \in DOMAIN groups : Names(groups[c]) \subseteq Names(bus.skills)
       /\ \A n \in Names(bus.skills) : \E c \in DOMAIN groups :
            /\ Times(n, groups[c]) = Times(n, bus.skills)
            /\ \A e \in DOMAIN groups \ {c} : n \notin Names(groups[e])

Stable == \A offer, other \in design.offers : offer = other

\* A request runs the handler of the class that last claimed its operation, or
\* of one below it, and never one that this class replaced; and if
\* register_skills() is stable, its arguments are checked against the
\* subclass's skill where there is one, which is also what help tells of.
ServedAsDeclared ==
  served # None =>
    /\ \A k \in Decorating(design, served.op) : served.ran.class >= k
    /\ Stable => \A offer \in design.offers :
         served.op \in Names(offer) => served.checked \in ToSet(offer)
    /\ Stable /\ told # None /\ served.op \in DOMAIN told =>
         told[served.op].schema \in {served.checked.schema, "edited"}

\* Whatever callers do with the skills they were given, every agent of the
\* process goes on to declare the built-in ones as they were written.
BuiltInsPristine == declared = Pristine

\* However often the bus starts the agent from its launch_spec, it runs the
\* program it was first run with; and the configuration in the launch_spec is
\* the one it uses, if the command line gives one at most.
RespawnSame ==
  /\ Program(argv) = Program(launched)
  /\ bus # None /\ Cardinality(ConfigAt(launched)) <= 1 =>
       bus.spec.config = FromCli(Program(launched))
===============================================================================
