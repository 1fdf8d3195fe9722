----------------------------- MODULE CatalogProofs -----------------------------
(***************************************************************************)
(* What holds of an agent's catalog for any classes, lists of skills and   *)
(* command lines: the bus's welcome is about the skills it has registered, *)
(* requests are served and checked as the classes declare, the built-in    *)
(* skills stay as written, and a respawned agent is the same program. And  *)
(* what holds of the records agents describe themselves with, for any      *)
(* arguments they are built from: they arrive as they were sent.           *)
(***************************************************************************)
EXTENDS Catalog, Registry, FiniteSetTheorems, SequenceTheorems, WellFoundedInduction, TLAPS

-----------------------------------------------------------------------------
(* Greatest elements *)

\* A set of naturals that is not empty has a least element.
LEMMA LeastNatural ==
  ASSUME NEW T, T \subseteq Nat, T # {}
  PROVE  \E x \in T : \A y \in T : x <= y
  <1> DEFINE R == OpToRel(<, Nat)
  <1>1. IsWellFoundedOn(R, Nat)
    BY NatLessThanWellFounded
  <1>2. \A x, y \in Nat : x < y => <<x, y>> \in R
    BY DEF OpToRel
  <1> HIDE DEF R
  <1>3. PICK x \in T : \A y \in T : ~ (<<y, x>> \in R)
    BY <1>1, WFMin
  <1>4. \A y \in T : ~(y < x)
    BY <1>2, <1>3
  <1> QED BY <1>4

\* A set of positions has a greatest element, which is its Max.
LEMMA MaxIsGreatest ==
  ASSUME NEW n \in Nat, NEW S, S \subseteq 1..n, S # {}
  PROVE  Max(S) \in S /\ \A y \in S : y <= Max(S)
  <1> DEFINE T == {n - i : i \in S}
  <1>1. T \subseteq Nat /\ T # {}
    <2>1. \A i \in S : n - i \in Nat
      OBVIOUS
    <2> QED BY <2>1
  <1>2. PICK t \in T : \A u \in T : t <= u
    <2> HIDE DEF T
    <2> QED BY <1>1, LeastNatural
  <1>3. PICK x \in S : t = n - x
    OBVIOUS
  <1>4. \A y \in S : n - x <= n - y
    BY <1>2, <1>3
  <1>5. \A y \in S : x >= y
    BY <1>4
  <1>6. Max(S) \in S /\ \A y \in S : Max(S) >= y
    BY <1>5 DEF Max
  <1>7. \A a, b \in 1..n : a >= b => b <= a
    OBVIOUS
  <1> QED BY <1>6, <1>7

-----------------------------------------------------------------------------
(* Lists of skills *)

\* What list adds to the subclass's offer is built-in skills that it lacks.
Continues(list, offer) ==
  /\ list \in Seq(ToSet(list)) /\ Len(list) >= Len(offer)
  /\ \A i \in 1..Len(offer) : list[i] = offer[i]
  /\ \A i \in DOMAIN list \ 1..Len(offer) :
       list[i].name \notin Names(offer) /\ list[i] = Rebuilt(BuiltIn(list[i].name))

LEMMA ExtraContinues ==
  ASSUME NEW offer, offer \in Seq(ToSet(offer)), NEW list, Continues(list, offer), NEW n
  PROVE  Continues(list \o Extra(n, offer), offer)
  <1>1. CASE n \in Names(offer)
    <2>1. list \o Extra(n, offer) = list
      BY <1>1 DEF Extra, Continues
    <2> QED BY <2>1
  <1>2. CASE n \notin Names(offer)
    <2> DEFINE s == Rebuilt(BuiltIn(n))
               longer == list \o <<s>>
    <2>1. list \o Extra(n, offer) = longer
      BY <1>2 DEF Extra
    <2>2. s.name = n /\ s = Rebuilt(BuiltIn(s.name))
      BY DEF Rebuilt, BuiltIn
    <2> HIDE DEF s
    <2>3. /\ Len(longer) = Len(list) + 1 /\ longer[Len(longer)] = s
          /\ \A i \in 1..Len(list) : longer[i] = list[i]
          /\ DOMAIN longer = 1..Len(longer) /\ DOMAIN list = 1..Len(list)
          /\ Len(list) \in Nat /\ Len(offer) \in Nat
      BY DEF Continues
    <2>4. longer \in Seq(ToSet(longer))
      <3>1. ToSet(list) \subseteq ToSet(longer) /\ s \in ToSet(longer)
        BY <2>3 DEF ToSet
      <3>2. list \in Seq(ToSet(longer))
        BY <3>1 DEF Continues
      <3> QED BY <3>1, <3>2
    <2> HIDE DEF longer
    <2>5. \A i \in 1..Len(offer) : longer[i] = offer[i]
      BY <2>3 DEF Continues
    <2>6. \A i \in DOMAIN longer \ 1..Len(offer) :
            longer[i].name \notin Names(offer) /\ longer[i] = Rebuilt(BuiltIn(longer[i].name))
      <3> TAKE i \in DOMAIN longer \ 1..Len(offer)
      <3>1. CASE i = Len(longer)
        BY <1>2, <2>2, <2>3, <3>1
      <3>2. CASE i # Len(longer)
        <4>1. i \in DOMAIN list \ 1..Len(offer) /\ longer[i] = list[i]
          BY <2>3, <3>2
        <4> QED BY <4>1 DEF Continues
      <3> QED BY <3>1, <3>2
    <2>7. Len(longer) >= Len(offer)
      BY <2>3 DEF Continues
    <2> QED BY <2>1, <2>4, <2>5, <2>6, <2>7 DEF Continues
  <1> QED BY <1>1, <1>2

LEMMA AllSkillsContinue ==
  ASSUME NEW offer, offer \in Seq(ToSet(offer))
  PROVE  Continues(AllSkills(offer), offer)
  <1>1. Continues(offer, offer)
    BY DEF Continues
  <1> QED BY <1>1, ExtraContinues DEF AllSkills

\* Of the skills with one name a dict holds one.
LEMMA ByNameHolds ==
  ASSUME NEW list, list \in Seq(ToSet(list)), NEW n \in Names(list)
  PROVE  \E i \in DOMAIN list : list[i].name = n /\ ByName(list)[n] = list[i]
  <1> DEFINE S == {i \in DOMAIN list : list[i].name = n}
  <1>1. S \subseteq 1..Len(list) /\ S # {} /\ Len(list) \in Nat
    BY DEF Names
  <1>2. Max(S) \in S
    <2> HIDE DEF S
    <2> QED BY <1>1, MaxIsGreatest
  <1>3. ByName(list)[n] = list[Max(S)]
    BY DEF ByName
  <1> QED BY <1>2, <1>3

\* The skill of a name is the subclass's, or else the built-in one.
LEMMA OwnSkill ==
  ASSUME NEW offer, offer \in Seq(ToSet(offer)), NEW n \in Names(AllSkills(offer))
  PROVE  LET own == ByName(AllSkills(offer))
         IN IF n \in Names(offer) THEN own[n] \in ToSet(offer)
                                  ELSE own[n] = Rebuilt(BuiltIn(n))
  <1> DEFINE list == AllSkills(offer)
  <1>1. Continues(list, offer) /\ n \in Names(list)
    BY AllSkillsContinue
  <1> HIDE DEF list
  <1>2. PICK i \in DOMAIN list : list[i].name = n /\ ByName(list)[n] = list[i]
    BY <1>1, ByNameHolds DEF Continues
  <1>3. CASE i \in 1..Len(offer)
    <2>1. list[i] = offer[i] /\ i \in DOMAIN offer
      BY <1>1, <1>3 DEF Continues
    <2> QED BY <1>2, <2>1 DEF Names, ToSet, list
  <1>4. CASE i \notin 1..Len(offer)
    BY <1>1, <1>2, <1>4 DEF Continues, list
  <1> QED BY <1>3, <1>4

\* The subclass's names are among them.
LEMMA OfferedNames ==
  ASSUME NEW offer, offer \in Seq(ToSet(offer))
  PROVE  Names(offer) \subseteq Names(AllSkills(offer))
  <1> DEFINE list == AllSkills(offer)
  <1>1. Continues(list, offer)
    BY AllSkillsContinue
  <1> HIDE DEF list
  <1>2. \A i \in DOMAIN offer : i \in DOMAIN list /\ list[i] = offer[i]
    BY <1>1 DEF Continues
  <1> QED BY <1>2 DEF Names, list

-----------------------------------------------------------------------------
(* Handlers *)

\* What runs for an operation is at or below the class that last claimed it.
LEMMA HandlerIsLast ==
  ASSUME NEW d \in Designs, NEW op \in Operations(d)
  PROVE  \A k \in Decorating(d, op) : Handler(d, op).class >= k
  <1>1. Decorating(d, op) \subseteq 1..Len(d.mro) /\ Len(d.mro) \in Nat
    BY DesignAssumption DEF Decorating
  <1>2. Decorating(d, op) # {}
    BY DEF Decorating, Operations
  <1>3. /\ Serving(d, op) \in Decorating(d, op)
        /\ \A k \in Decorating(d, op) : k <= Serving(d, op)
    BY <1>1, <1>2, MaxIsGreatest DEF Serving
  <1> DEFINE s == Serving(d, op)
             m == CHOOSE a \in DOMAIN d.mro[s] : d.mro[s][a] = op
             Defining == {j \in DOMAIN d.mro : m \in DOMAIN d.mro[j]}
  <1>4. m \in DOMAIN d.mro[s]
    BY <1>3 DEF Decorating
  <1>5. Handler(d, op).class = Max(Defining)
    BY DEF Handler
  <1>6. s \in Defining /\ Defining \subseteq 1..Len(d.mro)
    BY <1>1, <1>3, <1>4 DEF Decorating
  <1>7. Max(Defining) \in Defining /\ s <= Max(Defining)
    <2> HIDE DEF Defining, s
    <2> QED BY <1>1, <1>6, MaxIsGreatest
  <1>8. Max(Defining) \in Nat /\ s \in Nat /\ \A k \in Decorating(d, op) : k \in Nat
    BY <1>1, <1>6, <1>7
  <1> HIDE DEF Defining, s
  <1>9. \A k \in Decorating(d, op) : k <= s
    BY <1>3 DEF s
  <1> QED BY <1>5, <1>7, <1>8, <1>9

-----------------------------------------------------------------------------
(* Command lines *)

\* An agent's command line loses its interpreter, and nothing else.
LEMMA Stripped ==
  ASSUME NEW line, line # <<>>, Head(line) \in {Executable} \cup PythonNames
  PROVE  CaptureLaunchSpec(line) =
           [executable |-> Executable, args |-> Program(line),
            config |-> ParseConfigArg(Program(line))]
  BY DEF CaptureLaunchSpec, StripInterpreter, Program

LEMMA ProgramIsList ==
  ASSUME NEW line, line \in Seq(ToSet(line)), line # <<>>
  PROVE  Program(line) \in Seq(ToSet(Program(line)))
  <1> DEFINE rest == Tail(line)
  <1>1. rest \in Seq(ToSet(line))
    BY HeadTailProperties
  <1> HIDE DEF rest
  <1>2. Len(rest) \in Nat /\ DOMAIN rest = 1..Len(rest) /\ rest \in [1..Len(rest) -> ToSet(rest)]
    BY <1>1 DEF ToSet
  <1>3. rest \in Seq(ToSet(rest))
    BY <1>1, <1>2
  <1> QED BY <1>3 DEF Program, rest

\* The bus puts the interpreter back.
LEMMA RespawnedIs ==
  ASSUME NEW args, args \in Seq(ToSet(args)), NEW spec, spec.executable = Executable,
         spec.args = args
  PROVE  /\ Respawned(spec) \in Seq(ToSet(Respawned(spec))) /\ Respawned(spec) # <<>>
         /\ Head(Respawned(spec)) = Executable /\ Program(Respawned(spec)) = args
  <1> DEFINE line == <<Executable>> \o args
  <1>1. Respawned(spec) = line
    BY DEF Respawned
  <1>2. /\ Len(line) = Len(args) + 1 /\ line[1] = Executable /\ Len(args) \in Nat
        /\ \A i \in 1..Len(args) : line[i + 1] = args[i]
        /\ DOMAIN line = 1..Len(line) /\ DOMAIN args = 1..Len(args)
    OBVIOUS
  <1>3. line \in Seq(ToSet(line))
    <2>1. Executable \in ToSet(line) /\ ToSet(args) \subseteq ToSet(line)
      <3> HIDE DEF line
      <3>1. 1 \in DOMAIN line /\ \A i \in DOMAIN args : i + 1 \in DOMAIN line
        BY <1>2
      <3>2. \A i \in DOMAIN args : args[i] = line[i + 1]
        BY <1>2
      <3> QED BY <1>2, <3>1, <3>2 DEF ToSet
    <2>2. args \in Seq(ToSet(line))
      BY <2>1
    <2> QED BY <2>1, <2>2
  <1>4. line # <<>> /\ Head(line) = Executable /\ Tail(line) = args
    <2>1. PICK S : S = ToSet(args) \cup {Executable}
      OBVIOUS
    <2>2. args \in Seq(S) /\ Executable \in S
      BY <2>1
    <2>3. line \in Seq(S) /\ line # <<>>
      BY <2>2
    <2>4. /\ Head(line) = line[1] /\ Tail(line) \in Seq(S) /\ Len(Tail(line)) = Len(args)
          /\ \A i \in 1..Len(args) : Tail(line)[i] = line[i + 1]
      <3> HIDE DEF line
      <3> QED BY <1>2, <2>3
    <2>5. \A i \in 1..Len(args) : Tail(line)[i] = args[i]
      BY <1>2, <2>4
    <2>6. Tail(line) = args
      <3> HIDE DEF line
      <3> QED BY <2>2, <2>4, <2>5, SeqEqual
    <2> QED BY <1>2, <2>3, <2>4, <2>6
  <1> QED BY <1>1, <1>3, <1>4 DEF Program

\* With one configuration at most, the first is the last.
LEMMA OneConfig ==
  ASSUME NEW line, line \in Seq(ToSet(line)), line # <<>>,
         Cardinality(ConfigAt(line)) <= 1
  PROVE  ParseConfigArg(Program(line)) = FromCli(Program(line))
  <1> DEFINE rest == Program(line)
             At == ConfigAt(rest)
  <1>1. /\ Len(line) \in Nat /\ Len(line) = Len(rest) + 1 /\ Len(rest) \in Nat
        /\ \A i \in 1..Len(rest) : rest[i] = line[i + 1]
        /\ DOMAIN rest = 1..Len(rest) /\ DOMAIN line = 1..Len(line)
    <2>1. PICK S : S = ToSet(line)
      OBVIOUS
    <2>2. line \in Seq(S)
      BY <2>1
    <2> QED BY <2>2 DEF Program
  <1> HIDE DEF rest
  <1>2. \A i \in At : i \in Nat /\ i + 1 \in ConfigAt(line)
    BY <1>1 DEF ConfigAt
  <1>3. IsFiniteSet(ConfigAt(line))
    <2>1. ConfigAt(line) \in SUBSET (1..Len(line)) /\ IsFiniteSet(1..Len(line))
      BY <1>1, FS_Interval DEF ConfigAt
    <2> QED BY <2>1, FS_Subset
  <1>4. \A i, j \in ConfigAt(line) : i = j
    <2> SUFFICES ASSUME NEW i \in ConfigAt(line), NEW j \in ConfigAt(line), i # j
                 PROVE  FALSE
      OBVIOUS
    <2>1. IsFiniteSet({i}) /\ Cardinality({i}) = 1
      BY FS_Singleton
    <2>2. PICK S : S = {i} /\ IsFiniteSet(S) /\ Cardinality(S) = 1 /\ j \notin S
      BY <2>1
    <2>3. PICK both : both = S \cup {j}
      OBVIOUS
    <2>4. Cardinality(both) = 2
      <3>1. Cardinality(S \cup {j}) = Cardinality(S) + 1
        BY <2>2, FS_AddElement, Zenon
      <3> QED BY <2>2, <2>3, <3>1
    <2>5. both \in SUBSET ConfigAt(line)
      BY <2>2, <2>3
    <2>6. Cardinality(both) <= Cardinality(ConfigAt(line))
      BY <1>3, <2>5, FS_Subset
    <2>7. Cardinality(ConfigAt(line)) \in Nat
      BY <1>3, FS_CardinalityType
    <2> QED BY <2>4, <2>6, <2>7
  <1>5. \A i, j \in At : i = j
    BY <1>2, <1>4
  <1>6. CASE At = {}
    BY <1>6 DEF ParseConfigArg, FromCli, rest
  <1>7. CASE At # {}
    <2>1. PICK i \in At : At = {i}
      BY <1>5, <1>7
    <2>2. i \in Nat
      BY <1>2
    <2>3. Min({i}) = i /\ Max({i}) = i
      BY <2>2 DEF Min, Max
    <2> QED BY <2>1, <2>3 DEF ParseConfigArg, FromCli, rest
  <1> QED BY <1>6, <1>7

-----------------------------------------------------------------------------
(* The invariant *)

LEMMA CatalogInit == Init => CatalogInv
  <1> SUFFICES ASSUME Init PROVE CatalogInv
    OBVIOUS
  <1>1. LaunchInv
    BY LaunchAssumption DEF Init, LaunchInv
  <1>2. BusInv /\ ToldInv /\ ServedInv
    BY DEF Init, BusInv, ToldInv, ServedInv
  <1> QED BY <1>1, <1>2 DEF Init, CatalogInv

\* Lists are composed as before as long as the descriptors are.
LEMMA SkillsKept ==
  ASSUME UNCHANGED declared
  PROVE  \A offer : AllSkills(offer)' = AllSkills(offer)
  BY DEF AllSkills, Extra, BuiltIn

LEMMA LaunchKept ==
  ASSUME LaunchInv, UNCHANGED <<argv, launched>>,
         bus' # None => bus'.spec = CaptureLaunchSpec(argv)
  PROVE  LaunchInv'
  BY DEF LaunchInv

LEMMA ToldKept ==
  ASSUME ToldInv, UNCHANGED <<design, declared, told>>
  PROVE  ToldInv'
  BY SkillsKept DEF ToldInv

LEMMA ServedKept ==
  ASSUME ServedInv, UNCHANGED <<design, declared, cache, served>>
  PROVE  ServedInv'
  BY SkillsKept DEF ServedInv

\* Edited is what the edit makes of a copy.
LEMMA EditedIs ==
  ASSUME NEW n, NEW s, NEW skill,
         skill = [name |-> n, schema |-> s, strict |-> FALSE, aliased |-> FALSE]
  PROVE  [skill EXCEPT !.schema = "edited"] = Edited(n)
  <1> DEFINE fields == {"name", "schema", "strict", "aliased"}
             edit == [skill EXCEPT !.schema = "edited"]
             e == Edited(n)
  <1>1. /\ DOMAIN skill = fields
        /\ edit = [k \in fields |-> IF k = "schema" THEN "edited" ELSE skill[k]]
    OBVIOUS
  <1>2. e = [k \in fields |-> e[k]]
    BY DEF Edited
  <1>3. /\ e["name"] = skill["name"] /\ e["schema"] = "edited"
        /\ e["strict"] = skill["strict"] /\ e["aliased"] = skill["aliased"]
    BY DEF Edited
  <1> HIDE DEF edit, e
  <1>4. \A k \in fields : e[k] = IF k = "schema" THEN "edited" ELSE skill[k]
    BY <1>3
  <1> QED BY <1>1, <1>2, <1>4 DEF e, edit

\* Rebuilding a skill detaches it.
LEMMA RebuiltIs ==
  ASSUME NEW n, NEW s, NEW b \in BOOLEAN, NEW a \in BOOLEAN, NEW v \in BOOLEAN, NEW skill,
         skill = [name |-> n, schema |-> s, strict |-> b, aliased |-> a]
  PROVE  [skill EXCEPT !.aliased = v] = [name |-> n, schema |-> s, strict |-> b, aliased |-> v]
  OBVIOUS

\* A caller changes no skill but its own copy of a built-in one.
LEMMA EditNext ==
  ASSUME CatalogInv, NEW n \in BuiltInNames, Edit(n)
  PROVE  declared' = declared /\ ToldInv'
  <1>1. told # None
    BY DEF Edit, None
  <1>2. PICK offer \in design.offers :
          LET own == ByName(AllSkills(offer))
          IN /\ DOMAIN told = DOMAIN own
             /\ \A m \in DOMAIN told : told[m] \in {own[m], Edited(m)}
    BY <1>1 DEF CatalogInv, ToldInv
  <1> DEFINE own == ByName(AllSkills(offer))
  <1>3. n \in DOMAIN told /\ n \notin Names(offer)
    BY DEF Edit
  <1>4. own[n] = Rebuilt(BuiltIn(n))
    <2>1. offer \in Seq(ToSet(offer))
      BY DesignAssumption DEF CatalogInv
    <2>2. n \in Names(AllSkills(offer))
      BY <1>2, <1>3 DEF ByName
    <2> QED BY <1>3, <2>1, <2>2, OwnSkill
  <1>5. \/ told[n] = [name |-> n, schema |-> declared[n], strict |-> FALSE, aliased |-> FALSE]
        \/ told[n] = Edited(n)
    <2>1. Rebuilt(BuiltIn(n)) =
            [name |-> n, schema |-> declared[n], strict |-> FALSE, aliased |-> FALSE]
      <3>1. FALSE \in BOOLEAN /\ TRUE \in BOOLEAN
        OBVIOUS
      <3>2. PICK skill : skill = BuiltIn(n)
        OBVIOUS
      <3>3. skill = [name |-> n, schema |-> declared[n], strict |-> FALSE, aliased |-> TRUE]
        BY <3>2 DEF BuiltIn
      <3>4. [skill EXCEPT !.aliased = FALSE] =
              [name |-> n, schema |-> declared[n], strict |-> FALSE, aliased |-> FALSE]
        BY <3>1, <3>3, RebuiltIs
      <3> QED BY <3>2, <3>4 DEF Rebuilt
    <2> QED BY <1>2, <1>3, <1>4, <2>1
  <1>6. declared' = declared
    BY <1>5 DEF Edit, Edited
  <1>7. told'[n] = Edited(n) /\ DOMAIN told' = DOMAIN told
        /\ \A m \in DOMAIN told : m # n => told'[m] = told[m]
    <2>1. PICK d :
            told[n] = [name |-> n, schema |-> d, strict |-> FALSE, aliased |-> FALSE]
      BY <1>5 DEF Edited
    <2>2. [told[n] EXCEPT !.schema = "edited"] = Edited(n)
      BY <2>1, EditedIs
    <2>3. told' = [told EXCEPT ![n] = [told[n] EXCEPT !.schema = "edited"]]
      BY DEF Edit
    <2> HIDE DEF Edited
    <2> QED BY <1>3, <2>2, <2>3
  <1>8. DOMAIN told' = DOMAIN own /\ \A m \in DOMAIN told' : told'[m] \in {own[m], Edited(m)}
    BY <1>2, <1>7
  <1>9. design' = design /\ AllSkills(offer)' = AllSkills(offer)
    BY <1>6, SkillsKept DEF Edit
  <1> HIDE DEF own
  <1>10. offer \in design'.offers /\ own = ByName(AllSkills(offer)')
    BY <1>9 DEF own
  <1> QED BY <1>6, <1>8, <1>10 DEF ToldInv

LEMMA CatalogNext == CatalogInv /\ [Next]_vars => CatalogInv'
  <1> SUFFICES ASSUME CatalogInv, [Next]_vars PROVE CatalogInv'
    OBVIOUS
  <1>1. ASSUME Start PROVE CatalogInv'
    <2>1. UNCHANGED <<design, launched, argv, bus, declared, cache, told, served>>
      BY <1>1 DEF Start
    <2> QED BY <2>1, LaunchKept, ToldKept, ServedKept DEF CatalogInv, LaunchInv, BusInv
  <1>2. ASSUME Register PROVE CatalogInv'
    <2>1. UNCHANGED <<design, launched, argv, declared, cache, told, served>>
      BY <1>2 DEF Register, process
    <2>2. bus'.welcome = ComposeWelcome(bus'.skills) /\ bus'.spec = CaptureLaunchSpec(argv)
      BY <1>2 DEF Register, Published
    <2> QED BY <2>1, <2>2, LaunchKept, ToldKept, ServedKept DEF CatalogInv, BusInv
  <1>3. ASSUME NEW op, Dispatch(op) PROVE CatalogInv'
    <2>1. UNCHANGED <<design, launched, argv, bus, declared, skills, told>>
      BY <1>3 DEF Dispatch
    <2>2. ServedInv'
      <3>1. PICK offer \in design.offers :
              cache' = IF cache = None THEN ByName(AllSkills(offer)) ELSE cache
        BY <1>3 DEF Dispatch
      <3>2. PICK kept \in design.offers : cache' = ByName(AllSkills(kept))
        BY <3>1 DEF CatalogInv, ServedInv
      <3>3. /\ served'.op = op /\ served'.ran = Handler(design, op)
            /\ served'.checked = Checked(op, cache') /\ op \in Operations(design)
        BY <1>3 DEF Dispatch
      <3>4. AllSkills(kept)' = AllSkills(kept)
        BY <2>1, SkillsKept
      <3> QED BY <2>1, <3>2, <3>3, <3>4 DEF ServedInv
    <2> QED BY <2>1, <2>2, LaunchKept, ToldKept DEF CatalogInv, LaunchInv, BusInv
  <1>4. ASSUME HandleHelp PROVE CatalogInv'
    <2>1. UNCHANGED <<design, launched, argv, bus, declared, skills, cache, served>>
      BY <1>4 DEF HandleHelp
    <2>2. ToldInv'
      <3>1. PICK offer \in design.offers : told' = ByName(AllSkills(offer))
        BY <1>4 DEF HandleHelp
      <3>2. AllSkills(offer)' = AllSkills(offer)
        BY <2>1, SkillsKept
      <3> QED BY <2>1, <3>1, <3>2 DEF ToldInv
    <2> QED BY <2>1, <2>2, LaunchKept, ServedKept DEF CatalogInv, LaunchInv, BusInv
  <1>5. ASSUME NEW n \in BuiltInNames, Edit(n) PROVE CatalogInv'
    <2>1. UNCHANGED <<design, launched, argv, bus, skills, cache, served>>
      BY <1>5 DEF Edit
    <2>2. declared' = declared /\ ToldInv'
      BY <1>5, EditNext
    <2> QED BY <2>1, <2>2, LaunchKept, ServedKept DEF CatalogInv, LaunchInv, BusInv
  <1>6. ASSUME Respawn PROVE CatalogInv'
    <2>1. /\ UNCHANGED <<design, launched>> /\ declared' = Pristine /\ bus' = None
          /\ told' = None /\ cache' = None /\ served' = None /\ argv' = Respawned(bus.spec)
          /\ bus.spec = CaptureLaunchSpec(argv)
      BY <1>6 DEF Respawn, CatalogInv, LaunchInv
    <2>2. bus.spec.executable = Executable /\ bus.spec.args = Program(argv)
      BY <2>1, Stripped DEF CatalogInv, LaunchInv
    <2>3. Program(argv) \in Seq(ToSet(Program(argv)))
      BY ProgramIsList DEF CatalogInv, LaunchInv
    <2>4. LaunchInv'
      <3>1. /\ argv' \in Seq(ToSet(argv')) /\ argv' # <<>>
            /\ Head(argv') = Executable /\ Program(argv') = Program(argv)
        BY <2>1, <2>2, <2>3, RespawnedIs
      <3> QED BY <2>1, <3>1 DEF CatalogInv, LaunchInv
    <2> QED BY <2>1, <2>4 DEF CatalogInv, BusInv, ToldInv, ServedInv
  <1>7. CASE UNCHANGED vars
    <2>1. UNCHANGED <<design, launched, argv, bus, declared, cache, told, served>>
      BY <1>7 DEF vars, process
    <2> QED BY <2>1, LaunchKept, ToldKept, ServedKept DEF CatalogInv, LaunchInv, BusInv
  <1> QED BY <1>1, <1>2, <1>3, <1>4, <1>5, <1>6, <1>7 DEF Next

-----------------------------------------------------------------------------
(* What it gives *)

LEMMA CatalogHolds == Spec => []CatalogInv
  BY CatalogInit, CatalogNext, PTL DEF Spec

\* No caller changes a built-in skill for anybody else.
THEOREM BuiltInsStay == Spec => []BuiltInsPristine
  <1>1. CatalogInv => BuiltInsPristine
    BY DEF CatalogInv, BuiltInsPristine
  <1> QED BY <1>1, CatalogHolds, PTL

\* The bus's welcome is about the skills it has registered.
THEOREM OneCatalogHolds == Spec => []OneCatalog
  <1>1. CatalogInv => OneCatalog
    <2> SUFFICES ASSUME CatalogInv, bus # None PROVE OneCatalog
      BY DEF OneCatalog
    <2> DEFINE list == bus.skills
               groups == bus.welcome.groups
    <2>1. bus.welcome = ComposeWelcome(list)
      BY DEF CatalogInv, BusInv
    <2>2. /\ bus.welcome.count = Len(list)
          /\ DOMAIN groups = {Category(n) : n \in Names(list)}
          /\ \A c \in DOMAIN groups :
               /\ DOMAIN groups[c] = {i \in DOMAIN list : Category(list[i].name) = c}
               /\ \A i \in DOMAIN groups[c] : groups[c][i] = list[i]
      BY <2>1 DEF ComposeWelcome, RestrictValues, Restrict
    <2> HIDE DEF list, groups
    <2>3. \A c \in DOMAIN groups :
            /\ Names(groups[c]) \subseteq Names(list)
            /\ \A n \in Names(groups[c]) : Category(n) = c
      BY <2>2 DEF Names
    <2>4. ASSUME NEW n \in Names(list)
          PROVE  /\ Category(n) \in DOMAIN groups
                 /\ Times(n, groups[Category(n)]) = Times(n, list)
                 /\ \A e \in DOMAIN groups \ {Category(n)} : n \notin Names(groups[e])
      <3>1. Category(n) \in DOMAIN groups
        BY <2>2
      <3>2. {i \in DOMAIN groups[Category(n)] : groups[Category(n)][i].name = n} =
              {i \in DOMAIN list : list[i].name = n}
        BY <2>2, <3>1
      <3> QED BY <2>3, <3>1, <3>2 DEF Times
    <2> QED BY <2>2, <2>3, <2>4 DEF OneCatalog, list, groups
  <1> QED BY <1>1, CatalogHolds, PTL

\* Requests are served by the last class that claims them, and checked against
\* the skill it declares.
THEOREM ServedAsDeclaredHolds == Spec => []ServedAsDeclared
  <1>1. CatalogInv => ServedAsDeclared
    <2> SUFFICES ASSUME CatalogInv, served # None PROVE ServedAsDeclared
      BY DEF ServedAsDeclared
    <2>1. PICK offer \in design.offers :
            served.checked = Checked(served.op, ByName(AllSkills(offer)))
      BY DEF CatalogInv, ServedInv
    <2> DEFINE own == ByName(AllSkills(offer))
    <2>2. offer \in Seq(ToSet(offer))
      BY DesignAssumption DEF CatalogInv
    <2>3. \A k \in Decorating(design, served.op) : served.ran.class >= k
      BY HandlerIsLast DEF CatalogInv, ServedInv
    <2>4. served.op \in Names(offer) => served.checked \in ToSet(offer)
      <3> SUFFICES ASSUME served.op \in Names(offer) PROVE served.checked \in ToSet(offer)
        OBVIOUS
      <3>1. served.op \in Names(AllSkills(offer))
        BY <2>2, OfferedNames
      <3>2. served.checked = own[served.op]
        BY <2>1, <3>1 DEF Checked, ByName
      <3> QED BY <2>2, <3>1, <3>2, OwnSkill
    <2>5. ASSUME Stable, told # None, served.op \in DOMAIN told
          PROVE  told[served.op].schema \in {served.checked.schema, "edited"}
      <3>1. /\ DOMAIN told = DOMAIN own
            /\ \A n \in DOMAIN told : told[n] \in {own[n], Edited(n)}
        BY <2>5 DEF Stable, CatalogInv, ToldInv
      <3>2. served.checked = own[served.op]
        BY <2>1, <2>5, <3>1 DEF Checked
      <3> QED BY <2>5, <3>1, <3>2 DEF Edited
    <2>6. Stable => \A other \in design.offers : other = offer
      BY DEF Stable
    <2> QED BY <2>3, <2>4, <2>5, <2>6 DEF ServedAsDeclared
  <1> QED BY <1>1, CatalogHolds, PTL

\* However often it is respawned, an agent is the program it was.
THEOREM RespawnSameHolds == Spec => []RespawnSame
  <1>1. CatalogInv => RespawnSame
    <2> SUFFICES ASSUME CatalogInv PROVE RespawnSame
      OBVIOUS
    <2>1. Program(argv) = Program(launched)
      BY DEF CatalogInv, LaunchInv
    <2>2. ASSUME bus # None, Cardinality(ConfigAt(launched)) <= 1
          PROVE  bus.spec.config = FromCli(Program(launched))
      <3>1. bus.spec.config = ParseConfigArg(Program(launched))
        BY <2>1, <2>2, Stripped DEF CatalogInv, LaunchInv
      <3>2. ParseConfigArg(Program(launched)) = FromCli(Program(launched))
        BY <2>2, OneConfig, LaunchAssumption DEF CatalogInv, LaunchInv
      <3> QED BY <3>1, <3>2
    <2> QED BY <2>1, <2>2 DEF RespawnSame
  <1> QED BY <1>1, CatalogHolds, PTL

-----------------------------------------------------------------------------
(* Records: kinds and classes *)

\* What a check gives is sent and taken again, and what is not sent is what an
\* argument is by default; a default is checked itself.
Faithful(k) ==
  /\ \A v \in DOMAIN Coerced[k] :
       LET w == Coerced[k][v]
       IN w # Raises =>
            /\ Serialized(w) \in DOMAIN Coerced[k] /\ Coerced[k][Serialized(w)] = w
            /\ w \in Empty /\ k # "name" => Default[k] # Unset /\ Coerced[k][Default[k]] = w
  /\ Default[k] # Unset => Default[k] \in DOMAIN Coerced[k]

LEMMA KindsFaithful == \A k \in DOMAIN Coerced : Faithful(k)
  <1> USE DEF Taken, OrNone, Faithful, Serialized, Empty, Unset, Raises
  <1>1. Faithful("enum")
    <2>1. Coerced["enum"] = Enumerated /\ Default["enum"] = "member"
      BY DEF Coerced, Default
    <2> QED BY <2>1 DEF Enumerated
  <1>2. Faithful("tier")
    <2>1. Coerced["tier"] = Taken({"member", "other"}, {"bogus"}) /\ Default["tier"] = Unset
      BY DEF Coerced, Default
    <2> QED BY <2>1
  <1>3. Faithful("id")
    <2>1. Coerced["id"] = Taken({"x"}, {"", "None"}) /\ Default["id"] = Unset
      BY DEF Coerced, Default
    <2> QED BY <2>1
  <1>4. Faithful("content")
    <2>1. Coerced["content"] = Taken({"json", "x"}, {"", "None"}) /\ Default["content"] = "json"
      BY DEF Coerced, Default
    <2> QED BY <2>1
  <1>5. Faithful("name")
    <2>1. Coerced["name"] = Taken({"x", ""}, {}) /\ Default["name"] = Unset
      BY DEF Coerced, Default
    <2> QED BY <2>1
  <1>6. Faithful("text")
    <2>1. Coerced["text"] = Taken({"x", ""}, {}) /\ Default["text"] = ""
      BY DEF Coerced, Default
    <2> QED BY <2>1
  <1>7. Faithful("mapping")
    <2>1. /\ Coerced["mapping"] = OrNone({"{}", "{k}", "{m}"}, "{}", {"[x]"})
          /\ Default["mapping"] = "{}"
      BY DEF Coerced, Default
    <2> QED BY <2>1
  <1>8. Faithful("dict")
    <2>1. Coerced["dict"] = Taken({"{}", "{k}"}, {"None"}) /\ Default["dict"] = "{}"
      BY DEF Coerced, Default
    <2> QED BY <2>1
  <1>9. Faithful("schema")
    <2>1. Coerced["schema"] = OrNone({"{}", "{k}", "{m}"}, "{}", {}) /\ Default["schema"] = "{}"
      BY DEF Coerced, Default
    <2> QED BY <2>1
  <1>10. Faithful("list")
    <2>1. Coerced["list"] = Listed /\ Default["list"] = "[]"
      BY DEF Coerced, Default
    <2> QED BY <2>1 DEF Listed
  <1>11. Faithful("aspect")
    <2>1. /\ Coerced["aspect"] = OrNone({"[]", "[x]"}, "[]", {"x", "{k}", "[None]"})
          /\ Default["aspect"] = "[]"
      BY DEF Coerced, Default
    <2> QED BY <2>1
  <1>12. Faithful("prompt")
    <2>1. Coerced["prompt"] = OrNone({"", "x"}, "", {"False", "{}"}) /\ Default["prompt"] = ""
      BY DEF Coerced, Default
    <2> QED BY <2>1
  <1>13. Faithful("on")
    <2>1. Coerced["on"] = Taken({"True", "False"}, {}) /\ Default["on"] = "True"
      BY DEF Coerced, Default
    <2> QED BY <2>1
  <1>14. Faithful("off")
    <2>1. Coerced["off"] = Taken({"True", "False"}, {}) /\ Default["off"] = "False"
      BY DEF Coerced, Default
    <2> QED BY <2>1
  <1>15. Faithful("strict")
    <2>1. Coerced["strict"] = Taken({"True", "False"}, {"1", "None"}) /\ Default["strict"] = "False"
      BY DEF Coerced, Default
    <2> QED BY <2>1
  <1>16. Faithful("budget")
    <2>1. Coerced["budget"] = Taken({"None", "0", "1"}, {"-1"}) /\ Default["budget"] = "None"
      BY DEF Coerced, Default
    <2> QED BY <2>1
  <1>17. Faithful("limit")
    <2>1. Coerced["limit"] = Taken({"None", "1"}, {"0", "-1"}) /\ Default["limit"] = "None"
      BY DEF Coerced, Default
    <2> QED BY <2>1
  <1>18. Faithful("timeout")
    <2>1. /\ Coerced["timeout"] = Taken({"None", "1"}, {"0", "-1", "True"})
          /\ Default["timeout"] = "None"
      BY DEF Coerced, Default
    <2> QED BY <2>1
  <1>19. Faithful("count")
    <2>1. Coerced["count"] = Taken({"1", "2"}, {"0", "None"}) /\ Default["count"] = "1"
      BY DEF Coerced, Default
    <2> QED BY <2>1
  <1>20. Faithful("record")
    <2>1. Coerced["record"] = Nested(Raises) /\ Default["record"] = "D"
      BY DEF Coerced, Default
    <2> QED BY <2>1 DEF Nested
  <1>21. Faithful("option")
    <2>1. Coerced["option"] = Nested("None") /\ Default["option"] = "None"
      BY DEF Coerced, Default
    <2> QED BY <2>1 DEF Nested
  <1>22. Faithful("records")
    <2>1. Coerced["records"] = Records /\ Default["records"] = "[]"
      BY DEF Coerced, Default
    <2> QED BY <2>1 DEF Records
  <1> HIDE DEF Faithful
  <1>23. \A k \in DOMAIN Coerced :
          k \in {"enum", "tier", "id", "content", "name", "text", "mapping", "dict",
                 "schema", "list", "aspect", "prompt", "on", "off", "strict", "budget",
                 "limit", "timeout", "count", "record", "option", "records"}
    BY DEF Coerced
  <1> QED BY <1>1, <1>2, <1>3, <1>4, <1>5, <1>6, <1>7, <1>8, <1>9, <1>10, <1>11, <1>12,
            <1>13, <1>14, <1>15, <1>16, <1>17, <1>18, <1>19, <1>20, <1>21, <1>22, <1>23, Zenon

LEMMA KindsKnown ==
  \A c \in Class : \A f \in Fields(c) :
    /\ Kinds[c][f] \in DOMAIN Coerced
    /\ Kinds[c][f] = "name" => c = "Skill" /\ f = "name"
  <1> USE DEF Fields, Kinds, Coerced
  <1> DEFINE Known(c) ==
        \A f \in Fields(c) : /\ Kinds[c][f] \in DOMAIN Coerced
                             /\ Kinds[c][f] = "name" => c = "Skill" /\ f = "name"
  <1>1. Known("RuntimeProfile")
    BY DEF RuntimeProfile
  <1>2. Known("ExecutionRun")
    BY DEF ExecutionRun
  <1>3. Known("ExecutionProfile")
    BY DEF ExecutionProfile
  <1>4. Known("OutputContract")
    BY DEF OutputContract
  <1>5. Known("ProviderDescriptor")
    BY DEF ProviderDescriptor
  <1>6. Known("SkillDescriptor")
    BY DEF SkillDescriptor
  <1>7. Known("CapabilityRoute")
    BY DEF CapabilityRoute
  <1>8. Known("Skill")
    BY DEF Skill
  <1>9. \A c \in Class :
          c \in {"RuntimeProfile", "ExecutionRun", "ExecutionProfile", "OutputContract",
                 "ProviderDescriptor", "SkillDescriptor", "CapabilityRoute", "Skill"}
    BY DEF Class
  <1> HIDE DEF Known
  <1>10. \A c \in Class : Known(c)
    BY <1>1, <1>2, <1>3, <1>4, <1>5, <1>6, <1>7, <1>8, <1>9, Zenon
  <1> QED BY <1>10 DEF Known

\* What a check gives, kind by kind, where another one takes it.
Gives(k, values) ==
  \A v \in DOMAIN Coerced[k] : Coerced[k][v] \in values \cup {Raises}

LEMMA KindsGive ==
  /\ Gives("name", {"x", ""}) /\ Gives("text", {"x", ""})
  /\ Gives("list", {"[]", "[x]"}) /\ Gives("enum", {"member", "other"})
  /\ Gives("records", {"[]", "[P]"}) /\ Gives("option", {"None", "P", "D"})
  /\ Gives("schema", {"{}", "{k}", "{m}"}) /\ Gives("dict", {"{}", "{k}"})
  /\ Gives("strict", {"True", "False"})
  <1> USE DEF Coerced, Gives, Taken, OrNone, Raises
  <1>1. Gives("name", {"x", ""}) /\ Gives("text", {"x", ""})
    OBVIOUS
  <1>2. Gives("list", {"[]", "[x]"})
    BY DEF Listed
  <1>3. Gives("enum", {"member", "other"})
    BY DEF Enumerated
  <1>4. Gives("records", {"[]", "[P]"})
    BY DEF Records
  <1>5. Gives("option", {"None", "P", "D"})
    BY DEF Nested
  <1>6. Gives("schema", {"{}", "{k}", "{m}"})
    OBVIOUS
  <1>7. Gives("dict", {"{}", "{k}"})
    OBVIOUS
  <1>8. Gives("strict", {"True", "False"})
    OBVIOUS
  <1> HIDE DEF Gives
  <1> QED BY <1>1, <1>2, <1>3, <1>4, <1>5, <1>6, <1>7, <1>8

-----------------------------------------------------------------------------
(* Records: building, sending and reading them *)

\* A field is what its check makes of a value it knows.
LEMMA FieldChecked ==
  ASSUME NEW c, NEW args, WellTyped(c, args), Required(c) \subseteq DOMAIN args,
         NEW f \in Fields(c)
  PROVE  \E v \in Raw(c, f) : Field(c, args, f) = Coerced[Kinds[c][f]][v]
  <1>1. Given(c, args, f) \in Raw(c, f)
    <2>1. CASE f \in DOMAIN args
      BY <2>1 DEF Given, WellTyped
    <2>2. CASE f \notin DOMAIN args
      <3>1. Default[Kinds[c][f]] # Unset
        BY <2>2 DEF Required
      <3> QED BY <2>2, <3>1, KindsFaithful, KindsKnown DEF WellTyped, Given, Raw, Faithful
    <2> QED BY <2>1, <2>2
  <1> QED BY <1>1 DEF Field

\* Of arguments the class accepts it makes a record that is well built.
LEMMA BuiltIsWellBuilt ==
  ASSUME NEW c, NEW args, WellTyped(c, args), Accepts(c, args)
  PROVE  WellBuilt(c, Built(c, args))
  <1> DEFINE r == Built(c, args)
  <1>1. c \in Class /\ r = [f \in Fields(c) |-> r[f]]
    BY DEF WellTyped, Built
  <1>2. \A f \in Fields(c) :
          /\ Field(c, args, f) # Raises
          /\ \E v \in Raw(c, f) : Field(c, args, f) = Coerced[Kinds[c][f]][v]
    BY FieldChecked DEF Accepts
  <1>3. \A f \in Fields(c) : f # "input_schema" \/ c # "Skill" => r[f] = Field(c, args, f)
    BY DEF Built
  <1>4. ASSUME c = "Skill"
        PROVE  /\ r["input_schema"] # Raises
               /\ \E v \in Raw(c, "input_schema") :
                    r["input_schema"] = Coerced[Kinds[c]["input_schema"]][v]
               /\ r["input_schema"] = "{}" => r["parameters"] = "{}"
    <2>1. /\ "input_schema" \in Fields(c) /\ Kinds[c]["input_schema"] = "schema"
          /\ "parameters" \in Fields(c) /\ Kinds[c]["parameters"] = "dict"
      BY <1>4 DEF Fields, Kinds, Skill
    <2>2. r["input_schema"] = IF Field(c, args, "input_schema") = "{}" THEN r["parameters"]
                              ELSE Field(c, args, "input_schema")
      BY <1>3, <1>4, <2>1 DEF Built
    <2>3. r["parameters"] \in {"{}", "{k}"}
      BY <1>2, <1>3, <2>1, KindsGive DEF Gives, Raw
    <2>4. \A v \in {"{}", "{k}"} : v \in DOMAIN Coerced["schema"] /\ Coerced["schema"][v] = v
      BY DEF Coerced, OrNone
    <2> QED BY <1>2, <2>1, <2>2, <2>3, <2>4 DEF Raw, Raises
  <1> HIDE DEF r
  <1> QED BY <1>1, <1>2, <1>3, <1>4 DEF WellBuilt, r

\* A field that is sent, or left out because it is empty, comes back.
LEMMA FieldBack ==
  ASSUME NEW c, NEW r, WellBuilt(c, r), NEW d, NEW f \in Fields(c),
         f \in DOMAIN d => d[f] = Serialized(r[f]),
         f \notin DOMAIN d => r[f] \in Empty /\ Kinds[c][f] # "name"
  PROVE  Field(c, d, f) = r[f] /\ (f \notin DOMAIN d => f \notin Required(c))
  <1> DEFINE k == Kinds[c][f]
  <1>1. PICK v \in DOMAIN Coerced[k] : r[f] = Coerced[k][v] /\ r[f] # Raises
    BY DEF WellBuilt, Raw
  <1>2. Faithful(k)
    BY KindsFaithful, KindsKnown DEF WellBuilt
  <1>3. /\ Coerced[k][Serialized(r[f])] = r[f]
        /\ r[f] \in Empty /\ k # "name" => Default[k] # Unset /\ Coerced[k][Default[k]] = r[f]
    BY <1>1, <1>2 DEF Faithful
  <1> QED BY <1>3 DEF Field, Given, Required

\* The values of a skill's fields.
LEMMA SkillFields ==
  ASSUME NEW r, WellBuilt("Skill", r)
  PROVE  /\ r["name"] \in {"x", ""} /\ r["capability"] \in {"x", ""}
         /\ r["description"] \in {"x", ""}
         /\ r["authority"] \in {"member", "other"} /\ r["status"] \in {"member", "other"}
         /\ r["output_contract"] \in {"None", "P", "D"}
         /\ r["runtime_profile"] \in {"None", "P", "D"}
         /\ r["parameters"] \in {"{}", "{k}"} /\ r["metadata"] \in {"{}", "{k}"}
         /\ r["aliases"] \in {"[]", "[x]"} /\ r["execution_profiles"] \in {"[]", "[P]"}
         /\ r["input_schema"] \in {"{}", "{k}", "{m}"}
         /\ r["strict_args"] \in {"True", "False"}
  <1>1. \A f \in DOMAIN Skill :
          \E v \in DOMAIN Coerced[Skill[f]] : r[f] = Coerced[Skill[f]][v] /\ r[f] # Raises
    BY DEF WellBuilt, Fields, Kinds, Raw
  <1> DEFINE Holds(f, k) == \E v \in DOMAIN Coerced[k] : r[f] = Coerced[k][v] /\ r[f] # Raises
  <1>2. ASSUME NEW f, NEW k, NEW values, Holds(f, k), Gives(k, values)
        PROVE  r[f] \in values
    BY <1>2 DEF Gives
  <1>3. /\ Holds("name", "name") /\ Holds("capability", "text") /\ Holds("description", "text")
        /\ Holds("authority", "enum") /\ Holds("status", "enum")
        /\ Holds("output_contract", "option") /\ Holds("runtime_profile", "option")
        /\ Holds("parameters", "dict") /\ Holds("metadata", "dict")
        /\ Holds("aliases", "list") /\ Holds("execution_profiles", "records")
        /\ Holds("input_schema", "schema") /\ Holds("strict_args", "strict")
    <2>1. \A f \in DOMAIN Skill : Holds(f, Skill[f])
      BY <1>1
    <2> HIDE DEF Holds
    <2> QED BY <2>1 DEF Skill
  <1> HIDE DEF Holds
  <1>4. /\ r["name"] \in {"x", ""} /\ r["capability"] \in {"x", ""}
        /\ r["description"] \in {"x", ""}
    BY <1>2, <1>3, KindsGive, Zenon
  <1>5. r["authority"] \in {"member", "other"} /\ r["status"] \in {"member", "other"}
    BY <1>2, <1>3, KindsGive, Zenon
  <1>6. /\ r["output_contract"] \in {"None", "P", "D"}
        /\ r["runtime_profile"] \in {"None", "P", "D"}
    BY <1>2, <1>3, KindsGive, Zenon
  <1>7. r["parameters"] \in {"{}", "{k}"} /\ r["metadata"] \in {"{}", "{k}"}
    BY <1>2, <1>3, KindsGive, Zenon
  <1>8. r["aliases"] \in {"[]", "[x]"} /\ r["execution_profiles"] \in {"[]", "[P]"}
    BY <1>2, <1>3, KindsGive, Zenon
  <1>9. r["input_schema"] \in {"{}", "{k}", "{m}"} /\ r["strict_args"] \in {"True", "False"}
    BY <1>2, <1>3, KindsGive, Zenon
  <1> QED BY <1>4, <1>5, <1>6, <1>7, <1>8, <1>9

LEMMA OthersBack ==
  ASSUME NEW c, NEW r, WellBuilt(c, r), c # "Skill"
  PROVE  Accepts(c, ToDict(c, r)) /\ Built(c, ToDict(c, r)) = r
  <1> DEFINE d == ToDict(c, r)
  <1>1. /\ DOMAIN d = {f \in Fields(c) : r[f] \notin Empty}
        /\ \A f \in DOMAIN d : d[f] = Serialized(r[f])
    BY DEF ToDict, Written, WellBuilt
  <1> HIDE DEF d
  <1>2. \A f \in Fields(c) : Kinds[c][f] # "name"
    BY KindsKnown DEF WellBuilt
  <1>3. \A f \in Fields(c) : Field(c, d, f) = r[f] /\ (f \notin DOMAIN d => f \notin Required(c))
    BY <1>1, <1>2, FieldBack
  <1>4. Accepts(c, d)
    BY <1>1, <1>3 DEF Accepts, WellBuilt, Required
  <1>5. Built(c, d) = r
    <2>1. Built(c, d) = [f \in Fields(c) |-> r[f]]
      BY <1>3 DEF Built
    <2> QED BY <2>1 DEF WellBuilt
  <1> QED BY <1>4, <1>5 DEF d

LEMMA SkillBack ==
  ASSUME NEW r, WellBuilt("Skill", r)
  PROVE  Accepts("Skill", ToDict("Skill", r)) /\ Built("Skill", ToDict("Skill", r)) = r
  <1> DEFINE d == ToDict("Skill", r)
  <1>1. /\ DOMAIN d = SkillWritten(r)
        /\ \A f \in DOMAIN d : d[f] = Serialized(r[f])
    BY DEF ToDict, Written
  <1> HIDE DEF d
  <1>2. /\ {"input_schema", "parameters", "strict_args", "name"} \subseteq Fields("Skill")
        /\ Kinds["Skill"]["input_schema"] = "schema" /\ Kinds["Skill"]["parameters"] = "dict"
        /\ Kinds["Skill"]["strict_args"] = "strict" /\ AlwaysWritten \subseteq Fields("Skill")
    BY DEF Fields, Kinds, Skill, AlwaysWritten
  <1>3. DOMAIN r = Fields("Skill") /\ \A f \in Fields("Skill") : r[f] # Raises
    BY DEF WellBuilt
  <1>4. /\ r["input_schema"] \in {"{}", "{k}", "{m}"} /\ r["parameters"] \in {"{}", "{k}"}
        /\ r["strict_args"] \in {"True", "False"}
    BY SkillFields
  <1>5. DOMAIN d \subseteq Fields("Skill")
    BY <1>1, <1>2, <1>3 DEF SkillWritten
  <1>6. ASSUME NEW f \in Fields("Skill"), f \notin {"input_schema", "strict_args"}
        PROVE  Field("Skill", d, f) = r[f] /\ (f \notin DOMAIN d => f \notin Required("Skill"))
    <2>1. f \notin DOMAIN d => r[f] \in Empty /\ f # "name"
      BY <1>1, <1>3, <1>6 DEF SkillWritten, AlwaysWritten
    <2>2. Kinds["Skill"][f] = "name" => f = "name"
      BY KindsKnown DEF WellBuilt
    <2> QED BY <1>1, <2>1, <2>2, FieldBack
  <1>7. /\ Field("Skill", d, "strict_args") = r["strict_args"]
        /\ "strict_args" \notin Required("Skill")
    <2>1. Default["strict"] = "False" /\ Coerced["strict"]["False"] = "False"
          /\ Coerced["strict"]["True"] = "True"
      BY DEF Default, Coerced, Taken
    <2>2. "strict_args" \in DOMAIN d <=> r["strict_args"] = "True"
      BY <1>1, <1>2, <1>3 DEF SkillWritten, AlwaysWritten
    <2>3. "strict_args" \in DOMAIN d => d["strict_args"] = "True"
      BY <1>1, <2>2 DEF Serialized
    <2> QED BY <1>2, <1>4, <2>1, <2>2, <2>3 DEF Field, Given, Required, Unset
  <1>8. /\ Field("Skill", d, "input_schema") =
             IF r["input_schema"] \in Empty \cup {r["parameters"]} THEN "{}" ELSE r["input_schema"]
        /\ "input_schema" \notin Required("Skill")
    <2>1. /\ Default["schema"] = "{}" /\ Coerced["schema"]["{}"] = "{}"
          /\ Coerced["schema"]["{k}"] = "{k}" /\ Coerced["schema"]["{m}"] = "{m}"
      BY DEF Default, Coerced, OrNone
    <2>2. "input_schema" \in DOMAIN d <=> r["input_schema"] \notin Empty \cup {r["parameters"]}
      BY <1>1, <1>2, <1>3 DEF SkillWritten, AlwaysWritten
    <2>3. "input_schema" \in DOMAIN d => d["input_schema"] = r["input_schema"]
      BY <1>1, <1>4 DEF Serialized
    <2> QED BY <1>2, <1>4, <2>1, <2>2, <2>3 DEF Field, Given, Required, Unset
  <1>9. Accepts("Skill", d)
    <2>1. \A f \in Fields("Skill") : f \in Required("Skill") => f \in DOMAIN d
      BY <1>6, <1>7, <1>8
    <2>2. \A f \in Fields("Skill") : Field("Skill", d, f) # Raises
      BY <1>3, <1>4, <1>6, <1>7, <1>8 DEF Raises
    <2> QED BY <1>5, <2>1, <2>2 DEF Accepts, Required
  <1>10. Built("Skill", d) = [f \in Fields("Skill") |-> r[f]]
    <2>1. \A f \in Fields("Skill") \ {"input_schema"} : Field("Skill", d, f) = r[f]
      BY <1>6, <1>7
    <2>2. Field("Skill", d, "parameters") = r["parameters"]
      BY <1>2, <2>1
    <2>3. r["input_schema"] =
            IF Field("Skill", d, "input_schema") = "{}" THEN r["parameters"]
            ELSE Field("Skill", d, "input_schema")
      BY <1>4, <1>8 DEF WellBuilt, Empty
    <2> QED BY <2>1, <2>2, <2>3 DEF Built
  <1> QED BY <1>9, <1>10 DEF d, WellBuilt

\* What a program sends, the other one takes for the same record.
LEMMA RecordBack ==
  ASSUME NEW c, NEW r, WellBuilt(c, r)
  PROVE  Accepts(c, ToDict(c, r)) /\ Built(c, ToDict(c, r)) = r
  BY OthersBack, SkillBack

\* The arguments of descriptor() are ones its checks know.
LEMMA DescribedTyped ==
  ASSUME NEW r, WellBuilt("Skill", r)
  PROVE  WellTyped("SkillDescriptor", Described(r))
  <1> DEFINE a == Described(r)
             t == Kinds["SkillDescriptor"]
  <1>1. DOMAIN a = Fields("SkillDescriptor") /\ "SkillDescriptor" \in Class
    BY DEF Described, Class, Kinds
  <1>3. /\ {"id", "text", "list", "enum", "records", "record", "mapping"} \subseteq DOMAIN Coerced
        /\ "x" \in DOMAIN Coerced["id"] /\ "" \in DOMAIN Coerced["id"]
        /\ {"x", ""} \subseteq DOMAIN Coerced["text"]
        /\ {"[]", "[x]"} \subseteq DOMAIN Coerced["list"]
        /\ {"member", "other"} \subseteq DOMAIN Coerced["enum"]
        /\ {"[]", "[P]"} \subseteq DOMAIN Coerced["records"]
        /\ {"P", "D"} \subseteq DOMAIN Coerced["record"]
        /\ {"{}", "{k}", "{m}"} \subseteq DOMAIN Coerced["mapping"]
    BY DEF Coerced, Taken, OrNone, Listed, Enumerated, Records, Nested
  <1>4. /\ r["name"] \in {"x", ""} /\ r["capability"] \in {"x", ""}
        /\ r["description"] \in {"x", ""} /\ r["aliases"] \in {"[]", "[x]"}
        /\ r["authority"] \in {"member", "other"} /\ r["status"] \in {"member", "other"}
        /\ r["execution_profiles"] \in {"[]", "[P]"}
        /\ r["output_contract"] \in {"None", "P", "D"}
        /\ r["runtime_profile"] \in {"None", "P", "D"}
        /\ r["input_schema"] \in {"{}", "{k}", "{m}"} /\ r["metadata"] \in {"{}", "{k}"}
    BY SkillFields
  <1>5. \A f \in Fields("SkillDescriptor") :
          f \in {"skill_id", "provider_id", "name", "capability", "description", "aliases",
                 "authority", "status", "execution_profiles", "output_contract",
                 "runtime_profile", "input_schema", "metadata"}
    BY DEF Fields, Kinds, SkillDescriptor
  <1>6. /\ t["skill_id"] = "id" /\ t["provider_id"] = "id" /\ t["name"] = "id"
        /\ t["capability"] = "text" /\ t["description"] = "text" /\ t["aliases"] = "list"
        /\ t["authority"] = "enum" /\ t["status"] = "enum"
        /\ t["execution_profiles"] = "records" /\ t["output_contract"] = "record"
        /\ t["runtime_profile"] = "record" /\ t["input_schema"] = "mapping"
        /\ t["metadata"] = "mapping"
    BY DEF Kinds, SkillDescriptor
  <1>7. /\ a["skill_id"] = "x" /\ a["provider_id"] = "x"
        /\ a["capability"] \in {"x", ""}
        /\ a["output_contract"] \in {"P", "D"} /\ a["runtime_profile"] \in {"P", "D"}
        /\ \A f \in {"name", "description", "aliases", "authority", "status",
                     "execution_profiles", "input_schema", "metadata"} : a[f] = r[f]
    <2>1. {"skill_id", "provider_id", "name", "capability", "description", "aliases",
           "authority", "status", "execution_profiles", "output_contract",
           "runtime_profile", "input_schema", "metadata"} \subseteq Fields("SkillDescriptor")
      BY DEF Fields, Kinds, SkillDescriptor
    <2> QED BY <1>4, <2>1 DEF Described, Or
  <1> HIDE DEF a, t
  <1>8. \A f \in Fields("SkillDescriptor") : a[f] \in DOMAIN Coerced[t[f]]
    <2> DEFINE Takes(f) == a[f] \in DOMAIN Coerced[t[f]]
    <2>1. Takes("skill_id") /\ Takes("provider_id") /\ Takes("name")
      BY <1>3, <1>4, <1>6, <1>7
    <2>2. Takes("capability") /\ Takes("description") /\ Takes("aliases")
      BY <1>3, <1>4, <1>6, <1>7
    <2>3. Takes("authority") /\ Takes("status") /\ Takes("execution_profiles")
      BY <1>3, <1>4, <1>6, <1>7
    <2>4. Takes("output_contract") /\ Takes("runtime_profile")
      BY <1>3, <1>4, <1>6, <1>7
    <2>5. Takes("input_schema") /\ Takes("metadata")
      BY <1>3, <1>4, <1>6, <1>7
    <2> HIDE DEF Takes
    <2>6. \A f \in Fields("SkillDescriptor") : Takes(f)
      BY <1>5, <2>1, <2>2, <2>3, <2>4, <2>5
    <2> QED BY <2>6 DEF Takes
  <1> QED BY <1>1, <1>8 DEF WellTyped, Raw, a, t

\* What arrives is what was sent, whatever arguments programs give.
THEOREM RecordsArrive == RecordSpec => []RoundTrip
  <1>1. RecordInit => RecordInv
    BY DEF RecordInit, RecordInv
  <1>2. RecordInv /\ [RecordNext]_records => RecordInv'
    <2> SUFFICES ASSUME RecordInv, [RecordNext]_records PROVE RecordInv'
      OBVIOUS
    <2>1. CASE Build
      <3>1. PICK input \in Inputs :
              /\ Accepts(input.class, input.args) /\ class' = input.class
              /\ record' = Built(input.class, input.args) /\ UNCHANGED <<wire, received>>
              /\ record = Nothing
        BY <2>1 DEF Build
      <3>2. WellTyped(input.class, input.args)
        BY <3>1, InputAssumption
      <3>3. WellBuilt(class', record')
        BY <3>1, <3>2, BuiltIsWellBuilt
      <3> QED BY <3>1, <3>3 DEF RecordInv
    <2>2. CASE Describe
      <3>1. WellTyped("SkillDescriptor", Described(record))
        BY <2>2, DescribedTyped DEF Describe, RecordInv
      <3>2. WellBuilt(class', record')
        BY <2>2, <3>1, BuiltIsWellBuilt DEF Describe
      <3> QED BY <2>2, <3>2 DEF Describe, RecordInv
    <2>3. CASE Send
      BY <2>3 DEF Send, RecordInv
    <2>4. CASE Receive
      BY <2>4, RecordBack DEF Receive, RecordInv
    <2>5. CASE UNCHANGED records
      BY <2>5 DEF records, RecordInv
    <2> QED BY <2>1, <2>2, <2>3, <2>4, <2>5 DEF RecordNext
  <1>3. RecordInv => RoundTrip
    BY DEF RecordInv, RoundTrip
  <1> QED BY <1>1, <1>2, <1>3, PTL DEF RecordSpec
================================================================================
