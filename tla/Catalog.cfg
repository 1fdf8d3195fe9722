SPECIFICATION MCSpec
CONSTANTS
  Executable = "/usr/bin/python3"
  PythonNames = {"python3", "python3.12"}
  NoConfig = "no config"
  Joined <- JoinedValues
  Designs <- AllDesigns
  Launches <- AllLaunches
  Inputs <- AnyTwo
INVARIANTS
  OneCatalog
  ServedAsDeclared
  BuiltInsPristine
  RespawnSame
  RoundTrip
CHECK_DEADLOCK FALSE
