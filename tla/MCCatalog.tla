------------------------------- MODULE MCCatalog ------------------------------
(***************************************************************************)
(* A bounded instance for TLC of what agents publish: their catalogs, and, *)
(* apart from them, the records they describe themselves with. The two     *)
(* have no state in common; a behaviour takes up one of them.              *)
(***************************************************************************)
EXTENDS Catalog, Registry, TLC

Offer(n, schema, strict) ==
  [name |-> n, schema |-> schema, strict |-> strict, aliased |-> FALSE]

Log == <<"git", "log">>
Check == <<"health", "check">>
Method(words, op) == words :> op

\* Nothing of its own.
Bare == [mro |-> <<Base>>, offers |-> {<<>>}]

\* Names that share a prefix, have none, or have that of a bucket; one twice.
Prefixed ==
  [mro |-> <<Base, Method(<<"log">>, Log)>>,
   offers |-> {<<Offer(Log, "old", FALSE), Offer(<<"git", "show">>, "own", FALSE),
                 Offer(<<"search">>, "own", FALSE), Offer(<<"misc", "x">>, "own", FALSE),
                 Offer(<<"builtin", "x">>, "own", FALSE), Offer(Log, "own", TRUE)>>}]

\* A built-in replaced under another method's name, whose own method a class
\* below overrides without decorating it.
Overrides ==
  [mro |-> <<Base, Method(<<"custom">>, Check), Method(<<"custom">>, Plain)>>,
   offers |-> {<<Offer(Check, "own", TRUE)>>}]

\* A list that changes from call to call.
Dynamic ==
  [mro |-> <<Base, Method(<<"log">>, Log)>>,
   offers |-> {<<>>, <<Offer(Log, "own", TRUE)>>,
               <<Offer(Log, "new", FALSE), Offer(Check, "own", FALSE)>>}]

AllDesigns == {Bare, Prefixed, Overrides, Dynamic, FromMcp(<<<<"search">>, <<"welcome">>>>)}

JoinedValues == "--config=a" :> "a" @@ "--config=b" :> "b"

AllLaunches ==
  {<<how>> \o <<"-m", "agent", "--id", "x">> \o given :
     how \in {"/usr/bin/python3", "python3", "python3.12"},
     given \in {<<>>, <<"--config", "a">>, <<"--config=b">>,
                <<"--config", "a", "--config=b">>, <<"--config=b", "--verbose">>}}

Minimal(c) == [f \in Required(c) |-> IF f = "tier" THEN "member" ELSE "x"]

\* Any two arguments beside the required ones (bound: two).
AnyTwo ==
  UNION {UNION {
    {[class |-> c, args |-> f :> v @@ g :> w @@ Minimal(c)] : v \in Raw(c, f), w \in Raw(c, g)}
      : f, g \in Fields(c)} : c \in Class}

MCInit == Init /\ RecordInit

\* Records are published by an agent of one kind, before it starts.
RecordsOnly ==
  design = Bare /\ skills = None /\ argv = launched
  /\ launched = CHOOSE l \in Launches : TRUE

MCNext ==
  \/ record = Nothing /\ Next /\ UNCHANGED records
  \/ RecordsOnly /\ RecordNext /\ UNCHANGED vars

MCSpec == MCInit /\ [][MCNext]_<<vars, records>>
===============================================================================
