SPECIFICATION Spec
CONSTANTS
  Main = Main
  Absent = Absent
  None = None
  Default = Default
  Pinned = Pinned
  NoFile = NoFile
  Bad = Bad
  Missing = Missing
  Broken = Broken
  near = near
  far = far
  v1 = v1
  v2 = v2
  a1 = a1
  a2 = a2
  Module <- Modules
  Agent <- TwoAgents
  Version <- Versions
  Home <- Homes
  Installed <- Installs
  Top = 2
  MaxEdits = 1
SYMMETRY Symmetry
INVARIANTS
  TypeOK
  AsFirstSeen
