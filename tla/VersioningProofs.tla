--------------------------- MODULE VersioningProofs ---------------------------
(***************************************************************************)
(* What holds of version resolution for any modules, directories, agents,  *)
(* distributions and edits: the lookup finds what the repository declares, *)
(* or else what is installed, and a process sticks to what it found first. *)
(***************************************************************************)
EXTENDS Versioning, WellFoundedInduction, TLAPS

-----------------------------------------------------------------------------
(* Least elements: the induction of the two walks *)

\* A set of naturals that is not empty has a least element.
LEMMA LeastNatural ==
  ASSUME NEW T, T \subseteq Nat, T # {}
  PROVE  \E x \in T : \A y \in T : x <= y
  <1> DEFINE R == OpToRel(<, Nat)
  <1>1. IsWellFoundedOn(R, Nat)
    BY NatLessThanWellFounded
  <1>2. \A x, y \in Nat : x < y => <<x, y>> \in R
    BY DEF OpToRel
  <1> HIDE DEF R
  <1>3. PICK x \in T : \A y \in T : ~ (<<y, x>> \in R)
    BY <1>1, WFMin
  <1>4. \A y \in T : ~(y < x)
    BY <1>2, <1>3
  <1> QED BY <1>4

LEMMA MinIs ==
  ASSUME NEW S, S \subseteq Nat, NEW x \in S, \A y \in S : x <= y
  PROVE  Min(S) = x
  <1>1. \A z \in S : (\A y \in S : z <= y) => z = x
    OBVIOUS
  <1> QED
    BY <1>1 DEF Min

LEMMA MinIsLeast ==
  ASSUME NEW S, S \subseteq Nat, S # {}
  PROVE  Min(S) \in S /\ \A y \in S : Min(S) <= y
  BY LeastNatural, MinIs

-----------------------------------------------------------------------------
(* The walk up the directories *)

Says(d) == IF project[d] = Bad THEN None ELSE project[d]

\* The walk is the function its definition describes: one such function is what
\* the nearest pyproject.toml of each directory says.
LEMMA WalkEquation ==
  ASSUME NEW h \in Nat, NEW r \in Nat
  PROVE  \A d \in h..r : Walk(h, r)[d] =
           IF project[d] # NoFile THEN Says(d)
           ELSE IF d = r THEN None ELSE Walk(h, r)[d + 1]
  <1> DEFINE Files(d) == {e \in d..r : project[e] # NoFile}
             f == [d \in h..r |-> IF Files(d) = {} THEN None ELSE Says(Min(Files(d)))]
  <1>1. \A d \in h..r : f[d] =
          IF project[d] # NoFile THEN Says(d) ELSE IF d = r THEN None ELSE f[d + 1]
    <2> TAKE d \in h..r
    <2>0. Files(d) \subseteq Nat /\ f[d] = IF Files(d) = {} THEN None ELSE Says(Min(Files(d)))
      OBVIOUS
    <2>1. CASE project[d] # NoFile
      <3>0. d \in Files(d) /\ \A e \in Files(d) : d <= e
        BY <2>1
      <3>1. Min(Files(d)) = d
        <4> HIDE DEF Files
        <4> QED BY <2>0, <3>0, MinIs
      <3> QED
        BY <2>0, <2>1, <3>1
    <2>2. CASE project[d] = NoFile /\ d = r
      <3>1. Files(d) = {}
        BY <2>2
      <3> QED
        BY <2>0, <2>2, <3>1
    <2>3. CASE project[d] = NoFile /\ d # r
      <3>1. Files(d + 1) = Files(d) /\ d + 1 \in h..r
        BY <2>3
      <3>2. f[d + 1] = IF Files(d + 1) = {} THEN None ELSE Says(Min(Files(d + 1)))
        BY <3>1
      <3> HIDE DEF f, Files
      <3> QED
        BY <2>0, <2>3, <3>1, <3>2
    <2> QED
      BY <2>1, <2>2, <2>3
  <1>2. f = [d \in h..r |->
               IF project[d] # NoFile THEN IF project[d] = Bad THEN None ELSE project[d]
               ELSE IF d = r THEN None ELSE f[d + 1]]
    <2>1. f = [d \in h..r |-> f[d]]
      OBVIOUS
    <2> HIDE DEF f
    <2> QED
      BY <1>1, <2>1 DEF Says
  <1> HIDE DEF f
  <1> DEFINE IsWalk(w) ==
               w = [d \in h..r |->
                      IF project[d] # NoFile THEN IF project[d] = Bad THEN None ELSE project[d]
                      ELSE IF d = r THEN None ELSE w[d + 1]]
  <1>3. Walk(h, r) = CHOOSE w : IsWalk(w)
    BY DEF Walk
  <1>4. IsWalk(f)
    BY <1>2
  <1>5. IsWalk(Walk(h, r))
    <2> HIDE DEF IsWalk
    <2> QED BY <1>3, <1>4
  <1> QED
    BY <1>5 DEF Says
\* From the source, the walk says what the nearest pyproject.toml says.
LEMMA WalkFinds ==
  ASSUME NEW h \in Nat, NEW r \in Nat, h <= r
  PROVE  /\ \A d \in h..r :
              project[d] # NoFile /\ (\A e \in h..(d - 1) : project[e] = NoFile) =>
                Walk(h, r)[h] = Says(d)
         /\ (\A d \in h..r : project[d] = NoFile) => Walk(h, r)[h] = None
  <1> DEFINE Clear(d) == \A e \in h..(d - 1) : project[e] = NoFile
             T == {d \in h..r : Clear(d) /\ Walk(h, r)[d] # Walk(h, r)[h]}
  <1>1. T = {}
    <2> SUFFICES ASSUME T # {} PROVE FALSE
      OBVIOUS
    <2>0. T \subseteq Nat
      OBVIOUS
    <2>1. PICK d \in T : \A e \in T : d <= e
      <3> HIDE DEF T
      <3> QED BY <2>0, LeastNatural
    <2>2. d # h /\ d - 1 \in h..r /\ Clear(d - 1) /\ project[d - 1] = NoFile
      BY <2>1
    <2>3. Walk(h, r)[d - 1] = Walk(h, r)[h]
      BY <2>1, <2>2
    <2>4. Walk(h, r)[d - 1] = Walk(h, r)[d]
      BY <2>1, <2>2, WalkEquation
    <2> QED
      BY <2>1, <2>3, <2>4
  <1>2. \A d \in h..r : Clear(d) => Walk(h, r)[d] = Walk(h, r)[h]
    BY <1>1
  <1>3. ASSUME NEW d \in h..r, project[d] # NoFile, Clear(d)
        PROVE  Walk(h, r)[h] = Says(d)
    BY <1>2, <1>3, WalkEquation
  <1>4. ASSUME \A d \in h..r : project[d] = NoFile
        PROVE  Walk(h, r)[h] = None
    <2>1. r \in h..r /\ Clear(r)
      BY <1>4
    <2>2. Walk(h, r)[r] = None
      BY <1>4, <2>1, WalkEquation
    <2> QED
      BY <1>2, <2>1, <2>2
  <1> QED
    BY <1>3, <1>4

\* The repository of a module is what the walk passes.
LEMMA RepoIsWalked ==
  ASSUME NEW m \in Module, Home[m] # None, \E d \in Home[m]..Top : git[d]
  PROVE  LET root == Min({d \in Home[m]..Top : git[d]})
         IN  /\ Home[m] \in Nat /\ root \in Nat /\ Home[m] <= root
             /\ InRepo(m) = Home[m]..root
  <1> DEFINE G == {d \in Home[m]..Top : git[d]}
             root == Min(G)
  <1>1. Home[m] \in Nat /\ Top \in Nat /\ Home[m] <= Top
    BY DirAssumption DEF Dir
  <1>2. G \subseteq Nat /\ G # {}
    BY <1>1
  <1>3. root \in G /\ \A d \in G : root <= d
    BY <1>2, MinIsLeast
  <1> HIDE DEF root
  <1>4. root \in Home[m]..Top /\ git[root]
    BY <1>3
  <1>5. ASSUME NEW d \in InRepo(m)
        PROVE  d \in Home[m]..root
    <2>1. d \in Dir /\ Home[m] <= d /\ \A g \in Home[m]..(d - 1) : ~git[g]
      BY DEF InRepo
    <2> QED
      BY <1>1, <1>4, <2>1 DEF Dir
  <1>6. ASSUME NEW d \in Home[m]..root
        PROVE  d \in InRepo(m)
    <2>1. d \in Dir /\ root \in d..Top
      BY <1>1, <1>4 DEF Dir
    <2>2. \A g \in Home[m]..(d - 1) : ~git[g]
      BY <1>1, <1>3, <1>4, <2>1 DEF Dir
    <2> QED
      BY <1>1, <1>4, <2>1, <2>2 DEF InRepo
  <1>7. InRepo(m) = Home[m]..root
    BY <1>5, <1>6
  <1>8. root \in Nat /\ Home[m] <= root
    BY <1>1, <1>4
  <1> QED
    BY <1>1, <1>7, <1>8 DEF root

LEMMA SoleOfOne == \A v : Sole({v}) = v
  BY DEF Sole

\* resolve_version finds in the files what the module's repository declares.
LEMMA FilesFound ==
  ASSUME TypeOK, NEW m \in Module
  PROVE  /\ Declared(m) = {} => FromPyproject(m) = None
         /\ Declared(m) # {} => /\ FromPyproject(m) = Sole(Declared(m))
                                /\ FromPyproject(m) \in Version
  <1>0. project \in [Dir -> Version \cup {NoFile, Bad}] /\ None \notin Version
        /\ Bad \notin Version /\ NoFile \notin Version /\ Bad # NoFile
    BY MarkerAssumption DEF TypeOK
  <1>1. CASE Home[m] = None \/ ~\E d \in Home[m]..Top : git[d]
    <2>1. FromPyproject(m) = None
      BY <1>1 DEF FromPyproject
    <2>2. InRepo(m) = {}
      <3> SUFFICES ASSUME NEW d \in InRepo(m) PROVE FALSE
        OBVIOUS
      <3>1. d \in Dir /\ Home[m] # None /\ Home[m] <= d /\ \E g \in d..Top : git[g]
        BY DEF InRepo
      <3>2. Home[m] \in Nat /\ Top \in Nat
        BY <3>1, DirAssumption DEF Dir
      <3> QED
        BY <1>1, <3>1, <3>2 DEF Dir
    <2>3. Declared(m) = {}
      BY <2>2 DEF Declared
    <2> QED
      BY <2>1, <2>3
  <1>2. CASE Home[m] # None /\ \E d \in Home[m]..Top : git[d]
    <2> DEFINE h == Home[m]
               r == Min({d \in Home[m]..Top : git[d]})
    <2>1. h \in Nat /\ r \in Nat /\ h <= r /\ InRepo(m) = h..r
      BY <1>2, RepoIsWalked
    <2>2. FromPyproject(m) = Walk(h, r)[h]
      BY <1>2 DEF FromPyproject
    <2>3. h..r \subseteq Dir
      BY <2>1 DEF InRepo
    <2> HIDE DEF h, r
    <2> DEFINE Files == {d \in h..r : project[d] # NoFile}
               Nearest == {e \in h..r : project[e] # NoFile
                             /\ \A f \in h..r : f < e => project[f] = NoFile}
    <2>4. Declared(m) = {project[d] : d \in Nearest} \ {Bad}
      BY <2>1 DEF Declared
    <2>5. CASE Files = {}
      <3>1. Nearest = {} /\ Walk(h, r)[h] = None
        BY <2>1, <2>5, WalkFinds
      <3> QED
        BY <2>2, <2>4, <3>1
    <2>6. CASE Files # {}
      <3>0. Files \subseteq Nat
        BY <2>1
      <3>1. PICK d \in Files : \A e \in Files : d <= e
        <4> HIDE DEF Files
        <4> QED BY <2>6, <3>0, LeastNatural
      <3>2. Nearest = {d}
        BY <2>1, <3>1
      <3>3. Walk(h, r)[h] = Says(d)
        BY <2>1, <3>1, WalkFinds
      <3>4. Declared(m) = {project[d]} \ {Bad}
        BY <2>4, <3>2
      <3>5. project[d] \in Version \cup {Bad}
        BY <1>0, <2>3, <3>1
      <3>6. CASE project[d] = Bad
        BY <2>2, <3>3, <3>4, <3>6 DEF Says
      <3>7. CASE project[d] # Bad
        <4>1. Declared(m) = {project[d]}
          BY <3>4, <3>7
        <4> QED
          BY <2>2, <3>3, <3>5, <3>7, <4>1, SoleOfOne DEF Says
      <3> QED
        BY <3>6, <3>7
    <2> QED
      BY <2>5, <2>6
  <1> QED
    BY <1>1, <1>2

-----------------------------------------------------------------------------
(* The walk over the distributions *)

LEMMA ScanEquation ==
  ASSUME dists \in Seq(Version \cup {Missing, Broken})
  PROVE  \A i \in 1..Len(dists) + 1 : Scan[i] =
           IF i > Len(dists) \/ dists[i] = Broken THEN None
           ELSE IF dists[i] = Missing THEN Scan[i + 1] ELSE dists[i]
  <1> DEFINE n == Len(dists)
             Hits(i) == {j \in i..n : dists[j] # Missing}
             Hit(j) == IF dists[j] = Broken THEN None ELSE dists[j]
             f == [i \in 1..n + 1 |-> IF Hits(i) = {} THEN None ELSE Hit(Min(Hits(i)))]
             IsScan(g) ==
               g = [i \in 1..n + 1 |->
                      IF i > Len(dists) \/ dists[i] = Broken THEN None
                      ELSE IF dists[i] = Missing THEN g[i + 1] ELSE dists[i]]
  <1>0. n \in Nat
    OBVIOUS
  <1>1. \A i \in 1..n + 1 : f[i] =
          IF i > n \/ dists[i] = Broken THEN None
          ELSE IF dists[i] = Missing THEN f[i + 1] ELSE dists[i]
    <2> TAKE i \in 1..n + 1
    <2> HIDE DEF n
    <2>0. Hits(i) \subseteq Nat /\ f[i] = IF Hits(i) = {} THEN None ELSE Hit(Min(Hits(i)))
      OBVIOUS
    <2>1. CASE i > n
      <3>1. Hits(i) = {}
        BY <1>0, <2>1
      <3> QED
        BY <2>0, <2>1, <3>1
    <2>2. CASE i <= n /\ dists[i] # Missing
      <3>0. i \in Hits(i) /\ \A j \in Hits(i) : i <= j
        BY <1>0, <2>2
      <3>1. Min(Hits(i)) = i /\ Hits(i) # {}
        <4> HIDE DEF Hits
        <4> QED BY <2>0, <3>0, MinIs
      <3>2. ~(i > n)
        BY <1>0, <2>2
      <3> QED
        BY <2>0, <2>2, <3>1, <3>2
    <2>3. CASE i <= n /\ dists[i] = Missing
      <3>1. Hits(i + 1) = Hits(i) /\ i + 1 \in 1..n + 1 /\ ~(i > n)
        BY <1>0, <2>3
      <3>2. f[i + 1] = IF Hits(i + 1) = {} THEN None ELSE Hit(Min(Hits(i + 1)))
        BY <3>1
      <3>3. Missing # Broken
        BY MarkerAssumption
      <3> HIDE DEF f, Hits
      <3> QED
        BY <2>0, <2>3, <3>1, <3>2, <3>3
    <2> QED
      BY <1>0, <2>1, <2>2, <2>3
  <1>2. IsScan(f)
    <2>1. f = [i \in 1..n + 1 |-> f[i]]
      OBVIOUS
    <2> HIDE DEF f
    <2> QED
      BY <1>1, <2>1
  <1>3. Scan = CHOOSE g : IsScan(g)
    BY DEF Scan
  <1> HIDE DEF f
  <1>4. IsScan(Scan)
    <2> HIDE DEF IsScan
    <2> QED BY <1>2, <1>3
  <1> QED
    BY <1>4
\* resolve_version finds in the metadata what the first distribution provides.
LEMMA MetadataFound ==
  ASSUME TypeOK
  PROVE  FromMetadata = Sole(Provided) /\ FromMetadata \in Answer
  <1> DEFINE n == Len(dists)
             Skipped(i) == \A j \in 1..(i - 1) : dists[j] = Missing
             Firsts == {i \in DOMAIN dists : Skipped(i) /\ dists[i] # Missing}
             T == {i \in 1..n + 1 : Skipped(i) /\ Scan[i] # Scan[1]}
  <1>0. dists \in Seq(Version \cup {Missing, Broken}) /\ n \in Nat /\ DOMAIN dists = 1..n
        /\ \A i \in 1..n : dists[i] \in Version \cup {Missing, Broken}
    BY InstalledAssumption DEF TypeOK
  <1>1. \A i \in 1..n + 1 : Scan[i] =
           IF i > n \/ dists[i] = Broken THEN None
           ELSE IF dists[i] = Missing THEN Scan[i + 1] ELSE dists[i]
    BY <1>0, ScanEquation
  <1>a. Missing # Broken /\ Missing \notin Version /\ Broken \notin Version
    BY MarkerAssumption
  <1> HIDE DEF n
  <1>2. T = {}
    <2> SUFFICES ASSUME T # {} PROVE FALSE
      OBVIOUS
    <2>0. T \subseteq Nat
      BY <1>0
    <2>1. PICK i \in T : \A j \in T : i <= j
      <3> HIDE DEF T
      <3> QED BY <2>0, LeastNatural
    <2>2. i # 1 /\ i - 1 \in 1..n /\ Skipped(i - 1) /\ dists[i - 1] = Missing
      BY <1>0, <2>1
    <2>3. Scan[i - 1] = Scan[1]
      BY <1>0, <2>1, <2>2
    <2>4. Scan[i - 1] = Scan[i]
      <3>1. i - 1 \in 1..n + 1 /\ ~(i - 1 > n) /\ (i - 1) + 1 = i
        BY <1>0, <2>1, <2>2
      <3> QED
        BY <1>1, <1>a, <2>2, <3>1
    <2> QED
      BY <2>1, <2>3, <2>4
  <1>3. CASE \A i \in 1..n : dists[i] = Missing
    <2>1. n + 1 \in 1..n + 1 /\ Skipped(n + 1) /\ n + 1 > n
      BY <1>0, <1>3
    <2>2. Scan[n + 1] = None /\ Scan[n + 1] = Scan[1]
      BY <1>1, <1>2, <2>1
    <2>3. Provided = {}
      BY <1>0, <1>3 DEF Provided
    <2> QED
      BY <2>2, <2>3 DEF FromMetadata, Sole, Answer
  <1>4. CASE \E i \in 1..n : dists[i] # Missing
    <2> DEFINE H == {i \in 1..n : dists[i] # Missing}
    <2>0. H \subseteq Nat /\ H # {}
      BY <1>0, <1>4
    <2>1. PICK i \in H : \A j \in H : i <= j
      <3> HIDE DEF H
      <3> QED BY <2>0, LeastNatural
    <2>2. i \in 1..n /\ i \in 1..n + 1 /\ ~(i > n) /\ Skipped(i) /\ dists[i] # Missing
      BY <1>0, <2>1
    <2>3. Scan[1] = Scan[i]
      BY <1>2, <2>2
    <2>4. Scan[1] = IF dists[i] = Broken THEN None ELSE dists[i]
      BY <1>1, <2>2, <2>3
    <2>5. \A j \in 1..n : Skipped(j) => j = i \/ dists[j] = Missing
      BY <1>0, <2>1, <2>2
    <2>6. Provided = {dists[i]} \ {Missing, Broken}
      BY <1>0, <2>2, <2>5 DEF Provided
    <2>7. CASE dists[i] = Broken
      <3>1. Provided = {}
        BY <2>6, <2>7
      <3> QED
        BY <2>4, <2>7, <3>1 DEF FromMetadata, Sole, Answer
    <2>8. CASE dists[i] # Broken
      <3>1. Provided = {dists[i]} /\ dists[i] \in Version
        BY <1>0, <2>2, <2>6, <2>8
      <3> QED
        BY <2>4, <2>8, <3>1, SoleOfOne DEF FromMetadata, Answer
    <2> QED
      BY <2>7, <2>8
  <1> QED
    BY <1>3, <1>4

\* A lookup that is not cached finds what it should.
LEMMA FoundAsExpected ==
  ASSUME TypeOK, NEW k \in Key
  PROVE  Uncached(k) = Expected(k) /\ Uncached(k) \in Answer
  <1>1. CASE Effective(k) = None
    BY <1>1 DEF Uncached, Expected, Answer
  <1>2. CASE Effective(k) # None
    <2>1. Effective(k) \in Module
      BY <1>2 DEF Effective, Key, TypeOK
    <2>2. /\ Declared(Effective(k)) = {} => FromPyproject(Effective(k)) = None
          /\ Declared(Effective(k)) # {} =>
               /\ FromPyproject(Effective(k)) = Sole(Declared(Effective(k)))
               /\ FromPyproject(Effective(k)) \in Version
      BY <2>1, FilesFound
    <2>3. FromMetadata = Sole(Provided) /\ FromMetadata \in Answer
      BY MetadataFound
    <2>4. None \notin Version
      BY MarkerAssumption
    <2> QED
      BY <1>2, <2>2, <2>3, <2>4 DEF Uncached, Expected, Answer
  <1> QED
    BY <1>1, <1>2

-----------------------------------------------------------------------------
(* The process *)

LEMMA ResolvedTyped ==
  ASSUME TypeOK, NEW k \in Key
  PROVE  Resolved(k) \in Answer
  <1>1. Uncached(k) \in Answer
    BY FoundAsExpected
  <1>2. cache[k] # Absent => cache[k] \in Answer
    BY DEF TypeOK
  <1> QED
    BY <1>1, <1>2 DEF Resolved

LEMMA FreshTyped ==
  /\ Fresh.cache \in [Key -> Answer \cup {Absent}]
  /\ Fresh.version \in [Agent -> Version \cup {Absent, Default, Pinned}]
  /\ Fresh.module \in [Agent -> Key]
  /\ Fresh.printed \in [key : Key, shown : Version \cup {Absent, Default}]
  BY DEF Fresh, Key

LEMMA InitTypes == Init => TypeOK
  <1> SUFFICES ASSUME Init PROVE TypeOK
    OBVIOUS
  <1>1. edits \in 0..MaxEdits
    BY EditsAssumption DEF Init
  <1> QED
    BY <1>1, FreshTyped DEF Init, TypeOK

LEMMA LookupTyped ==
  ASSUME TypeOK, NEW k \in Key, Lookup(k)
  PROVE  /\ cache' \in [Key -> Answer \cup {Absent}]
         /\ first' \in [Key -> Answer \cup {Absent}]
         /\ Shown(Resolved(k)) \in Version \cup {Default}
         /\ UNCHANGED <<disk, main>>
  <1>1. Resolved(k) \in Answer
    BY ResolvedTyped
  <1>2. cache' \in [Key -> Answer \cup {Absent}]
    BY <1>1 DEF Lookup, TypeOK
  <1>3. Expected(k) \in Answer
    BY FoundAsExpected
  <1>4. first' \in [Key -> Answer \cup {Absent}]
    BY <1>3 DEF Lookup, TypeOK
  <1> QED
    BY <1>1, <1>2, <1>4 DEF Lookup, Shown, Answer

LEMMA TypesKept == TypeOK /\ [Next]_vars => TypeOK'
  <1> SUFFICES ASSUME TypeOK, [Next]_vars PROVE TypeOK'
    OBVIOUS
  <1>1. ASSUME NEW k \in Key, VersionFlag(k)
        PROVE  TypeOK'
    <2>1. Lookup(k) /\ printed' = [key |-> k, shown |-> Shown(Resolved(k))]
          /\ UNCHANGED <<version, module>>
      BY <1>1 DEF VersionFlag, Shown
    <2> QED
      BY <2>1, LookupTyped DEF TypeOK, disk
  <1>2. ASSUME NEW k \in Key, NEW a \in Agent, Construct(a, k)
        PROVE  TypeOK'
    <2>1. Lookup(k) /\ version' = [version EXCEPT ![a] = Shown(Resolved(k))]
          /\ module' = [module EXCEPT ![a] = k] /\ UNCHANGED printed
      BY <1>2 DEF Construct, Shown
    <2>2. Shown(Resolved(k)) \in Version \cup {Default}
      BY <2>1, LookupTyped
    <2>3. version' \in [Agent -> Version \cup {Absent, Default, Pinned}]
          /\ module' \in [Agent -> Key]
      BY <2>1, <2>2 DEF TypeOK
    <2> QED
      BY <2>1, <2>3, LookupTyped DEF TypeOK, disk
  <1>3. ASSUME NEW k \in Key, NEW a \in Agent, ConstructPinned(a, k)
        PROVE  TypeOK'
    BY <1>3 DEF ConstructPinned, TypeOK, disk
  <1>4. ASSUME Restart PROVE TypeOK'
    BY <1>4, FreshTyped DEF Restart, TypeOK, disk
  <1>5. ASSUME Edit PROVE TypeOK'
    <2>1. edits' \in 0..MaxEdits
      BY <1>5, EditsAssumption DEF Edit, TypeOK
    <2>2. git' \in [Dir -> BOOLEAN]
      BY <1>5 DEF Edit, TypeOK
    <2>3. project' \in [Dir -> Version \cup {NoFile, Bad}]
      BY <1>5 DEF Edit, TypeOK
    <2>4. dists' \in Installed
      BY <1>5 DEF Edit, TypeOK
    <2>5. UNCHANGED <<main, cache, version, module, printed, first>>
      BY <1>5 DEF Edit
    <2> QED
      BY <2>1, <2>2, <2>3, <2>4, <2>5 DEF TypeOK
  <1>6. CASE UNCHANGED vars
    BY <1>6 DEF vars, disk, TypeOK
  <1> QED
    BY <1>1, <1>2, <1>3, <1>4, <1>5, <1>6 DEF Next

\* Versions, caches and histories keep their types, whatever is edited: an
\* agent's version is never None.
THEOREM TypeCorrect == Spec => []TypeOK
  BY InitTypes, TypesKept, PTL DEF Spec

\* A lookup leaves every entry of the cache, and fills its own if it was empty
\* with what should be there.
LEMMA LookupCaches ==
  ASSUME TypeOK, CacheInv, NEW k \in Key, Lookup(k)
  PROVE  /\ first' = cache'
         /\ cache'[k] = Resolved(k) /\ Resolved(k) # Absent
         /\ \A j \in Key : cache[j] # Absent => cache'[j] = cache[j]
  <1>1. Resolved(k) = IF cache[k] # Absent THEN cache[k] ELSE Expected(k)
    BY FoundAsExpected DEF Resolved
  <1>2. Resolved(k) # Absent
    BY ResolvedTyped, MarkerAssumption DEF Answer
  <1>3. cache' = [cache EXCEPT ![k] = Resolved(k)]
        /\ first' = [first EXCEPT ![k] = IF cache[k] = Absent THEN Expected(k) ELSE @]
    BY DEF Lookup
  <1>4. cache \in [Key -> Answer \cup {Absent}] /\ first = cache
    BY DEF TypeOK, CacheInv
  <1>5. \A j \in Key : cache'[j] = IF j = k THEN Resolved(k) ELSE cache[j]
    BY <1>3, <1>4
  <1>6. first' = cache'
    BY <1>1, <1>3, <1>4
  <1>7. \A j \in Key : cache[j] # Absent => cache'[j] = cache[j]
    BY <1>1, <1>5
  <1> QED
    BY <1>2, <1>5, <1>6, <1>7
LEMMA CacheInit == Init => CacheInv
  BY DEF Init, CacheInv, Fresh, Running

\* What was reported is what the cache says, and stays so.
LEMMA CacheKept == TypeOK /\ CacheInv /\ [Next]_vars => CacheInv'
  <1> SUFFICES ASSUME TypeOK, CacheInv, [Next]_vars PROVE CacheInv'
    OBVIOUS
  <1>0. /\ module \in [Agent -> Key] /\ printed.key \in Key
        /\ version \in [Agent -> Version \cup {Absent, Default, Pinned}]
    BY DEF TypeOK
  <1>a. /\ \A a \in Agent : version[a] \notin {Absent, Pinned} =>
             cache[module[a]] # Absent /\ version[a] = Shown(cache[module[a]])
        /\ ~Running => cache[printed.key] # Absent /\ printed.shown = Shown(cache[printed.key])
    BY DEF CacheInv, Reported
  <1>1. ASSUME NEW k \in Key, VersionFlag(k)
        PROVE  CacheInv'
    <2>1. Lookup(k) /\ printed' = [key |-> k, shown |-> Shown(Resolved(k))]
          /\ UNCHANGED <<version, module>>
      BY <1>1 DEF VersionFlag, Shown
    <2>2. /\ first' = cache' /\ cache'[k] = Resolved(k) /\ Resolved(k) # Absent
          /\ \A j \in Key : cache[j] # Absent => cache'[j] = cache[j]
      BY <2>1, LookupCaches
    <2>3. ASSUME NEW a \in Agent, version'[a] \notin {Absent, Pinned}
          PROVE  cache'[module'[a]] # Absent /\ version'[a] = Shown(cache'[module'[a]])
      BY <1>0, <1>a, <2>1, <2>2, <2>3
    <2>4. printed'.key = k /\ printed'.shown = Shown(cache'[k])
      BY <2>1, <2>2
    <2> QED
      BY <2>2, <2>3, <2>4 DEF CacheInv, Reported, Shown
  <1>2. ASSUME NEW k \in Key, NEW a \in Agent, Construct(a, k)
        PROVE  CacheInv'
    <2>1. Lookup(k) /\ version' = [version EXCEPT ![a] = Shown(Resolved(k))]
          /\ module' = [module EXCEPT ![a] = k] /\ UNCHANGED printed
      BY <1>2 DEF Construct, Shown
    <2>2. /\ first' = cache' /\ cache'[k] = Resolved(k) /\ Resolved(k) # Absent
          /\ \A j \in Key : cache[j] # Absent => cache'[j] = cache[j]
      BY <2>1, LookupCaches
    <2>3. ASSUME NEW b \in Agent, version'[b] \notin {Absent, Pinned}
          PROVE  cache'[module'[b]] # Absent /\ version'[b] = Shown(cache'[module'[b]])
      <3>1. CASE b = a
        <4>1. version'[b] = Shown(Resolved(k)) /\ module'[b] = k
          BY <1>0, <2>1, <3>1
        <4> QED
          BY <2>2, <4>1
      <3>2. CASE b # a
        <4>1. version'[b] = version[b] /\ module'[b] = module[b] /\ module[b] \in Key
          BY <1>0, <2>1, <3>2
        <4> QED
          BY <1>a, <2>2, <2>3, <4>1
      <3> QED
        BY <3>1, <3>2
    <2>4. Running'
      BY <2>1 DEF Lookup, Running
    <2> QED
      BY <2>2, <2>3, <2>4 DEF CacheInv, Reported, Shown
  <1>3. ASSUME NEW k \in Key, NEW a \in Agent, ConstructPinned(a, k)
        PROVE  CacheInv'
    <2>1. /\ Running /\ UNCHANGED <<cache, printed, first>>
          /\ version' = [version EXCEPT ![a] = Pinned]
          /\ module' = [module EXCEPT ![a] = k]
      BY <1>3 DEF ConstructPinned
    <2>2. ASSUME NEW b \in Agent, version'[b] \notin {Absent, Pinned}
          PROVE  version'[b] = version[b] /\ module'[b] = module[b]
      BY <1>0, <2>1, <2>2
    <2> QED
      BY <1>a, <2>1, <2>2 DEF CacheInv, Reported, Shown, Running
  <1>4. ASSUME Restart PROVE CacheInv'
    BY <1>4 DEF Restart, CacheInv, Fresh, Running
  <1>5. CASE Edit \/ UNCHANGED vars
    BY <1>5, <1>a DEF Edit, vars, CacheInv, Reported, Shown, Running
  <1> QED
    BY <1>1, <1>2, <1>3, <1>4, <1>5 DEF Next

\* Every agent, and --version, reports the version its module had when the
\* process first asked: the one its repository declares, or the one installed.
THEOREM FirstSeenReported == Spec => []AsFirstSeen
  <1>1. CacheInv => AsFirstSeen
    BY DEF CacheInv, AsFirstSeen, Reported
  <1> QED
    BY <1>1, InitTypes, TypesKept, CacheInit, CacheKept, PTL DEF Spec

===============================================================================
