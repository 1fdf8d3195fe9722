------------------------------ MODULE Versioning ------------------------------
(***************************************************************************)
(* The version an agent reports (khonliang_bus/versioning.py, and its use  *)
(* in BaseAgent.__init__): looked up from the pyproject.toml of the        *)
(* repository that holds the agent's module, else from the installed       *)
(* distributions, and cached per module name until the process ends, while *)
(* files are edited, repositories made and distributions reinstalled.      *)
(*                                                                         *)
(* The directories above the modules are one path: Dir d + 1 is the parent *)
(* of d. All modules are of one top-level package. External: the disk, the *)
(* interpreter's __main__ and the installed distributions.                 *)
(***************************************************************************)
EXTENDS Integers, Sequences, FiniteSetsExt

CONSTANTS
  Module,    \* dotted names of the modules that define agents
  Main,      \* "__main__"
  Agent,     \* agents constructed in one process
  Version,   \* version strings
  Absent,    \* no entry in the cache, or no agent yet
  None,      \* None
  Default,   \* BaseAgent.version, or <unknown> for --version
  Pinned,    \* a version the subclass sets itself
  NoFile,    \* no pyproject.toml
  Bad,       \* one that is unreadable or names no version
  Missing,   \* a distribution that is not found
  Broken,    \* one whose metadata raises anything else
  Top,       \* the topmost directory
  Home,      \* the directory of each module's source, or None
  Installed, \* the distributions the package may have
  MaxEdits   \* bound: changes of the disk

Dir == 0..Top
Key == Module \cup {Main}
Answer == Version \cup {None}

ASSUME DirAssumption == Top \in Nat /\ Home \in [Module -> Dir \cup {None}]
ASSUME InstalledAssumption == Installed \subseteq Seq(Version \cup {Missing, Broken})
ASSUME EditsAssumption == MaxEdits \in Nat

\* None, and what is no version at all, is told apart from every version.
ASSUME MarkerAssumption ==
  /\ Absent \notin Version \cup {None}
  /\ {None, Bad, NoFile, Missing, Broken} \cap Version = {}
  /\ Bad # NoFile /\ Missing # Broken

VARIABLES
  git,      \* which directories hold a .git
  project,  \* the pyproject.toml of each directory
  dists,    \* the distributions that provide the package
  edits,    \* changes spent
  main,     \* the module of python -m, or None
  cache,    \* _resolution_cache
  version,  \* what each agent reports
  module,   \* the module of its class
  printed,  \* what --version printed before the process ended
  first     \* history: what each first lookup should have found

disk == <<git, project, dists, edits>>
vars == <<disk, main, cache, version, module, printed, first>>

TypeOK ==
  /\ git \in [Dir -> BOOLEAN]
  /\ project \in [Dir -> Version \cup {NoFile, Bad}]
  /\ dists \in Installed
  /\ edits \in 0..MaxEdits
  /\ main \in Module \cup {None}
  /\ cache \in [Key -> Answer \cup {Absent}]
  /\ version \in [Agent -> Version \cup {Absent, Default, Pinned}]
  /\ module \in [Agent -> Key]
  /\ printed \in [key : Key, shown : Version \cup {Absent, Default}]
  /\ first \in [Key -> Answer \cup {Absent}]

\* A process that has looked nothing up.
Fresh ==
  [cache   |-> [k \in Key |-> Absent],
   version |-> [a \in Agent |-> Absent],
   module  |-> [a \in Agent |-> Main],
   printed |-> [key |-> Main, shown |-> Absent]]

Init ==
  /\ git \in [Dir -> BOOLEAN]
  /\ project \in [Dir -> Version \cup {NoFile, Bad}]
  /\ dists \in Installed
  /\ edits = 0
  /\ main \in Module \cup {None}
  /\ cache = Fresh.cache
  /\ version = Fresh.version
  /\ module = Fresh.module
  /\ printed = Fresh.printed
  /\ first = Fresh.cache

-----------------------------------------------------------------------------
(* resolve_version *)

\* Faulty variant: the walk goes on above the repository.
FromPyprojectUnanchored(m) ==
  LET Walk[d \in Home[m]..Top] ==
        IF project[d] # NoFile THEN IF project[d] = Bad THEN None ELSE project[d]
        ELSE IF d = Top THEN None ELSE Walk[d + 1]
  IN IF Home[m] = None \/ ~\E d \in Home[m]..Top : git[d] THEN None ELSE Walk[Home[m]]

\* What the directories from h up to r say: the first pyproject.toml decides,
\* whatever it holds.
Walk(h, r) ==
  LET up[d \in h..r] ==
        IF project[d] # NoFile THEN IF project[d] = Bad THEN None ELSE project[d]
        ELSE IF d = r THEN None ELSE up[d + 1]
  IN up

\* The first .git at or above the source is the repository's root, where the
\* walk ends.
FromPyproject(m) ==
  IF Home[m] = None \/ ~\E d \in Home[m]..Top : git[d] THEN None
  ELSE Walk(Home[m], Min({d \in Home[m]..Top : git[d]}))[Home[m]]

\* The first distribution found; one that breaks ends the search.
Scan ==
  LET from[i \in 1..Len(dists) + 1] ==
        IF i > Len(dists) \/ dists[i] = Broken THEN None
        ELSE IF dists[i] = Missing THEN from[i + 1] ELSE dists[i]
  IN from

FromMetadata == Scan[1]

\* A script, or a REPL, has no module name to look for.
Effective(k) == IF k = Main THEN main ELSE k

Uncached(k) ==
  IF Effective(k) = None THEN None
  ELSE LET found == FromPyproject(Effective(k)) IN IF found # None THEN found ELSE FromMetadata

Resolved(k) == IF cache[k] # Absent THEN cache[k] ELSE Uncached(k)

-----------------------------------------------------------------------------
(* What the lookup is for *)

\* Directories of the repository of m: none below them, from its source up, is
\* a repository's root, and they or one above them is.
InRepo(m) ==
  {d \in Dir : Home[m] # None /\ Home[m] <= d /\ (\E g \in d..Top : git[g])
               /\ \A g \in Home[m]..(d - 1) : ~git[g]}

\* The versions that m's repository declares nearest to its source: one or none.
Declared(m) ==
  {project[d] : d \in {e \in InRepo(m) : project[e] # NoFile
                         /\ \A f \in InRepo(m) : f < e => project[f] = NoFile}} \ {Bad}

\* The versions of the first distribution that is found.
Provided ==
  {dists[i] : i \in {j \in DOMAIN dists : \A n \in 1..(j - 1) : dists[n] = Missing}}
    \ {Missing, Broken}

Sole(S) == IF S = {} THEN None ELSE CHOOSE v \in S : TRUE

Expected(k) ==
  IF Effective(k) = None THEN None
  ELSE LET own == Declared(Effective(k)) IN Sole(IF own # {} THEN own ELSE Provided)

-----------------------------------------------------------------------------
(* The process *)

Running == printed.shown = Absent

Lookup(k) ==
  /\ Running
  /\ cache' = [cache EXCEPT ![k] = Resolved(k)]
  /\ first' = [first EXCEPT ![k] = IF cache[k] = Absent THEN Expected(k) ELSE @]
  /\ UNCHANGED <<disk, main>>

\* Faulty variant: a lookup that found nothing overwrites the default.
ConstructOverwrites(a, k) ==
  /\ version[a] = Absent
  /\ Lookup(k)
  /\ version' = [version EXCEPT ![a] = Resolved(k)]
  /\ module' = [module EXCEPT ![a] = k]
  /\ UNCHANGED printed

\* An agent whose class sets no version is constructed.
Construct(a, k) ==
  /\ version[a] = Absent
  /\ Lookup(k)
  /\ version' = [version EXCEPT ![a] = IF Resolved(k) = None THEN Default ELSE Resolved(k)]
  /\ module' = [module EXCEPT ![a] = k]
  /\ UNCHANGED printed

\* One whose class does: nothing is looked up.
ConstructPinned(a, k) ==
  /\ Running
  /\ version[a] = Absent
  /\ version' = [version EXCEPT ![a] = Pinned]
  /\ module' = [module EXCEPT ![a] = k]
  /\ UNCHANGED <<disk, main, cache, printed, first>>

\* The --version option prints and exits.
VersionFlag(k) ==
  /\ Lookup(k)
  /\ printed' = [key |-> k, shown |-> IF Resolved(k) = None THEN Default ELSE Resolved(k)]
  /\ UNCHANGED <<version, module>>

\* External: the program is started again, as any module or as a script.
Restart ==
  /\ main' \in Module \cup {None}
  /\ cache' = Fresh.cache
  /\ version' = Fresh.version
  /\ module' = Fresh.module
  /\ printed' = Fresh.printed
  /\ first' = Fresh.cache
  /\ UNCHANGED disk

\* External: a pyproject.toml is written or removed, a repository is made or
\* removed, the package is installed again.
Edit ==
  /\ edits < MaxEdits
  /\ edits' = edits + 1
  /\ \/ \E d \in Dir : \/ git' = [git EXCEPT ![d] = ~@] /\ UNCHANGED project
                       \/ /\ \E p \in Version \cup {NoFile, Bad} :
                               project' = [project EXCEPT ![d] = p]
                          /\ UNCHANGED git
        /\ UNCHANGED dists
     \/ dists' \in Installed /\ UNCHANGED <<git, project>>
  /\ UNCHANGED <<main, cache, version, module, printed, first>>

Next ==
  \/ \E k \in Key : VersionFlag(k) \/ \E a \in Agent : Construct(a, k) \/ ConstructPinned(a, k)
  \/ Restart
  \/ Edit

Spec == Init /\ [][Next]_vars

-----------------------------------------------------------------------------
(* Properties *)

Shown(v) == IF v = None THEN Default ELSE v

\* Every agent of a process, and its --version, reports the version its module
\* had when the process first asked (versioning.py:25): that of its repository,
\* never of a project above or beside it (:20), or else the installed one.
\* Later edits of the disk do not show before a restart, and then do (:22).
AsFirstSeen ==
  /\ \A a \in Agent : version[a] \notin {Absent, Pinned} => version[a] = Shown(first[module[a]])
  /\ ~Running => printed.shown = Shown(first[printed.key])

-----------------------------------------------------------------------------
(* Strengthening, for the proofs *)

\* The argument for AsFirstSeen: the cache holds what was there at the first
\* lookup, and every version reported came from it.
Reported(k, v) == cache[k] # Absent /\ v = Shown(cache[k])

CacheInv ==
  /\ first = cache
  /\ \A a \in Agent : version[a] \notin {Absent, Pinned} => Reported(module[a], version[a])
  /\ ~Running => Reported(printed.key, printed.shown)

================================================================================
