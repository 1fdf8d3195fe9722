-------------------------------- MODULE Launch --------------------------------
(***************************************************************************)
(* How an agent describes its own command line to the bus                  *)
(* (khonliang_bus/launch.py), which may start it again from that, and what *)
(* BaseAgent.from_cli takes from the same line. An argument is a string    *)
(* that stands for itself; Joined gives the value in "--config=value".     *)
(***************************************************************************)
EXTENDS Sequences, FiniteSetsExt

CONSTANTS
  Executable,   \* sys.executable, a path
  PythonNames,  \* spellings of it whose basename is python, pythonX or pythonX.Y
  Joined,       \* the arguments "--config=value", each with its value
  NoConfig      \* no configuration

\* Faulty variant: the interpreter is known by its path alone.
StripExactly(argv) == IF argv # <<>> /\ Head(argv) = Executable THEN Tail(argv) ELSE argv

\* An argument list without its interpreter, if it begins with one.
StripInterpreter(argv) ==
  IF argv # <<>> /\ Head(argv) \in {Executable} \cup PythonNames THEN Tail(argv) ELSE argv

\* Where a configuration is given.
ConfigAt(argv) ==
  {i \in DOMAIN argv :
     argv[i] \in DOMAIN Joined \/ (argv[i] = "--config" /\ i < Len(argv))}

ConfigValue(argv, i) == IF argv[i] \in DOMAIN Joined THEN Joined[argv[i]] ELSE argv[i + 1]

\* launch_spec.config: the first one.
ParseConfigArg(argv) ==
  IF ConfigAt(argv) = {} THEN NoConfig ELSE ConfigValue(argv, Min(ConfigAt(argv)))

\* The configuration the agent is given: argparse takes the last one.
FromCli(argv) ==
  IF ConfigAt(argv) = {} THEN NoConfig ELSE ConfigValue(argv, Max(ConfigAt(argv)))

CaptureLaunchSpec(argv) ==
  LET args == StripInterpreter(argv)
  IN [executable |-> Executable, args |-> args, config |-> ParseConfigArg(args)]

\* The process the bus starts from a launch_spec; its interpreter runs
\* everything after itself.
Respawned(spec) == <<spec.executable>> \o spec.args
Program(argv) == Tail(argv)
===============================================================================
