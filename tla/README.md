# Formal verification of khonliang-bus-lib

TLA+ modules, TLC runs and TLAPS proofs about `src/khonliang_bus`: the library
with which an agent connects to the khonliang bus, serves skills over one
WebSocket, calls other agents, and subscribes to topics.

    tlc -workers 2 -config ConnectorSafety.cfg MCConnector    # a run
    tlapm ConnectorProofs.tla                                 # a proof module

`PROJECT.json` lists the components, the runs, for every property a mutant of the
code's definition that breaks it, the source lines of every definition, the
findings, the hazards and the theorems.

## 1. The system

Everything runs in one asyncio event loop per agent process. There are no threads:
two coroutines interleave only at an `await` that suspends, and that is the grain of
every action in this project. The bus server is another repository; what the library
relies on is modelled as external actions.

| Component | State it keeps | Operations | What is hard | What makes it correct |
|---|---|---|---|---|
| **Bus connector** (`connector.py`) | `_ws`, `_registered`, `_running`, `_heartbeat_task`, the registration payload, `run()`'s local delay | `connect_and_register`, `run` (receive and reconnect loops), `_handle_bus_message`, `send`, `publish`, `report_gap`, `disconnect`, the heartbeat task | a stop at any await of `run()`, two stoppers, a loss while a handler runs, a reconnection failing half way | `registered` is never stale, registration first, replies once and in order, one live link, a stop stays a stop, reconnection, exact backoff |
| **Agent lifecycle** (`agent.py`: `start`, `shutdown`) | `_http`, `_connector`, the signal handlers | `start`, `shutdown` | a bad welcome, a failing or cancelled start, shutdown racing a reconnection | serving with a live HTTP client, clean-up on every way out, a shutdown that ends |
| **Typed requests, schema cache** (`request_typed`) | `_remote_schema_cache` | `request_typed`, `_fetch_remote_skill_schema`, `invalidate_schema_cache` | callers that miss together, failures remembered, invalidation during a fetch | a failure never hides a schema, staleness has one cause |
| **Argument checks and dispatch** | handlers, the skill descriptors | `_dispatch_request`, `_validate_args_against_schema` | two sides checking the same call, bool as int, odd declarations | strict handlers see only conforming arguments, no unjust refusal, both sides agree |
| **Bus client** (`client.py`) | a subscription's link and delay; the bus keeps the ack position | `subscribe`, `ack`, `nack`; one-shot calls (`register`, `publish`, `services`, ...) | acks racing a loss, buffers that outlive a link, clean closes | nothing acked unseen, nothing acked delivered again, every message arrives |
| **Version resolution** (`versioning.py`) | `_resolution_cache` | `resolve_version`, `--version`, `BaseAgent.__init__` | where the walk ends, what the cache remembers | the version of the agent's own repository, as first seen |
| **Requests between agents** (`request`) | none; the bus holds the calls, each receive loop one handler | `request` (HTTP, timeout plus grace), the receive loop that awaits each handler | agents that wait for each other, two timeouts that race, answers after the timeout, replies that are dropped | the timeout envelope comes first, every call ends, only a knot of agents or a dropped frame costs a call its time |
| **Skill catalog** (`_collect_handlers`, `_all_skills`, `handle_welcome`, `handle_help`) | the handlers, the skills cached at the first dispatch, the class-level built-in skills | `register_skills`, `start`'s registration and welcome, dispatch, help, `from_mcp` | overridden handlers, shared descriptors, a list that changes between calls, prefix categories | one catalog: what is registered, told, checked and served agree |
| **Records** (`registry.py`, `Skill`) | immutable values | `__post_init__`, `to_dict`, `from_dict`, `Skill.descriptor` | coercions, falsy values left out of the wire format | what arrives is what was sent |
| **Launch capture** (`launch.py`) and `from_cli` | none | argv into `launch_spec` and into the agent's configuration | interpreter names, two spellings of `--config` | a respawn runs the same program |
| **Test harness, facade** | a list of calls; none | direct calls of handlers, re-exports | nothing interleaves | not modelled |

Interactions: `start()` creates the connector with `_dispatch_request` as its callback
and blocks in `run()`; signal handlers and callers create `shutdown()` tasks, which call
`disconnect()`; the connector awaits each handler before it receives the next frame; a
handler that calls another agent goes through `request()` over HTTP to the bus, not over
the WebSocket; `request_typed` makes two such calls on a miss, the first one to the
target's `help` skill; the target validates again in `_dispatch_request`.

## 2. The modules

| Module | Models | Composes |
|---|---|---|
| `AgentLink` | abstract: what a connector is to the agent that owns it | |
| `Connector` | `BusConnector` | |
| `ConnectorProperties` | its properties and the strengthenings of their proofs | extends `Connector`, `INSTANCE AgentLink` as refinement target |
| `Lifecycle` | `BaseAgent.start` and `shutdown` | `INSTANCE AgentLink` as refinement target |
| `RequestCycle` | `BaseAgent.request` between agents, their receive loops, the bus and time | |
| `SchemaSlots` | abstract: what one cache slot goes through | |
| `SchemaCache` | `request_typed`, the fetch and the invalidation | `INSTANCE SchemaSlots` as refinement target |
| `ArgChecks` | one call, checked by the caller, by the target, or both | |
| `Launch` | argv, `launch_spec` and `from_cli`, as operators | |
| `Catalog` | handlers, skills, registration, welcome, help, dispatch, respawn | extends `Launch` |
| `Registry` | the record classes and a record's way over the wire | |
| `Subscription` | `BusClient.subscribe` with `ack` and `nack` | |
| `Versioning` | `resolve_version`, its use and its cache | |
| `MC...` | bounded instances for TLC; `MCCatalog` has `Catalog` and `Registry` | extend the modules they instantiate |
| `...Proofs` | theorems | extend the module of their name and `TLAPS`; `CatalogProofs` is about `Catalog` and `Registry` |

`AgentLink` is where the two halves of an agent meet: `Connector` implements it from
below, with sockets, frames and interleaved tasks, and the link that `Lifecycle` uses
in place of a connector stays within it.

Operators with a name such as `LinkLostStillRegistered`, under a comment "Faulty
variant", are not part of any specification: each is a plausible bug of the definition
next to it, and shows that a property can fail.

### Connector

One action is the code between two suspending awaits. `pc` names the await of the task
that runs `connect_and_register()` and then `run()`: `init`, `dial`, `ack` (waiting for
the answer to the register frame), `refuse` (closing a rejected first socket), then
`recv`, `handler`, `errsleep` while the link is up and `sleep`, `redial`, `reack`,
`closing` while it is being replaced. `hb` is the heartbeat task, `dpc[s]` each task
that calls `disconnect()`. A connection is the number of its dial; `st`, `wire`, `ack`,
`inbox` are its socket state, the frames written, the bus's answer and the frames sent
by the bus. `_ws` is `ws`; the local `new_ws` of a reconnection is always the last
connection dialled, `dialed`.

Two abstractions: a write to an open socket is one step (websockets suspends only under
back-pressure), and skill payloads are reduced to whether `json.dumps(allow_nan=False)`
accepts them (`Unencodable`).

### AgentLink

Four phases (off, up, lost, over), `_running`, `registered`, and whether `disconnect()`
was ever called. It says that a registration succeeds or is given up once, that a lost
link is replaced only while `_running` is set, and that `registered` may still become
true once after a stop that finds the link lost, and is not said to change otherwise.
Both refinement mappings are an operator `Phase`, in `ConnectorProperties` by `pc`, in
`Lifecycle` by `pc` and its link.

### RequestCycle

A call is `posted` to the bus, `open` while the bus holds it, then an `answer` or a
`timeout` on its way back, and `done`; or `gaveup`, if the HTTP read timeout comes
first; one that is still `posted` then may reach its agent all the same. `net` is how
slow the network is in a behaviour. `inbox[a]` and `cur[a]` are the frames an agent has
not taken and the request whose handler its receive loop awaits. `Follows` bounds what
handlers may call; they may also compute, return and raise.

`Answer` is the end of `_handle_bus_message` with its `send()`: a response or an error
goes out, unless it does not fit JSON (results of `Unsendable` operations may not; an
error is text, which does) or finds no open link. Then the call is `lost`: the bus goes
on holding it, nobody will answer, and the receive loop takes the next frame. A request
is `lost`, too, with a link that ends (`LinkDrops`, which keeps a prefix of the frames on
it) or that has ended (`Forward`); the bus may instead answer that the agent is gone
(`Refuse`). A link is replaced once the loop is through with the frames of the old one
(`LinkRestored`). The bus is taken to send well-formed frames, so the loop's error sleep
does not occur here; `Connector` has it, and the steps of the replacement.

`age` and `held` are the clocks of `request()` and of the bus. Time is discrete and
passes (`Tick`) only when nothing is ready: no task can run, no timer is due, no message
has spent its network delay. `Stuck` is the set of requests in a knot of waiting agents,
or behind one, as a greatest fixed point; `HeldUp` adds lost calls and what waits behind
them, and `delayed` records who was held up while time passed.

### Catalog, Launch and Registry

A class is a sequence of dicts from methods to decorated operations, `BaseAgent` first.
`Decorating`, `Serving` and `Handler` are the walk of `_collect_handlers` and the
binding by attribute name; `AllSkills` is `_all_skills`, whose copies may or may not
share their parameters with the class-level descriptors (`aliased`); `ByName` is the
dict of `_skill_for_operation` and of `handle_help`. `register_skills()` returns any of
a set of lists at each call. `Respawn` is the bus starting the process again from its
`launch_spec`: everything of the process is new, the command line is `Respawned(spec)`.

In `Registry` a value is a string naming what the program tells apart (`"0"`, `"True"`,
`"[x]"`, `"dict P"`, ...). `Coerced` is the checks of the `__post_init__` methods, as a
table by kind of field: what each value becomes, or `raises`. `Build`, `Describe`,
`Send` and `Receive` take one record of any class through them.

### SchemaCache and SchemaSlots

Callers are coroutines that meet at two awaits, the schema fetch and the request.
A schema is the version its target had when it answered; arguments are named by the
version they fit, so `Passes` is the whole of the check (`ArgChecks` has it in detail).
`FetchAnswered` is the moment the target answers, `FetchReturns` the resumption of the
caller: an invalidation can fall between. The slot of the abstract specification is
absent, failed or a schema, and moves only by a fill, an upgrade of a failure, or a drop.

### ArgChecks

A value is its JSON kind, a declaration a type name and a `required` flag. Both checks
run through `_validate_args_against_schema`, whose loop is one action per declaration,
in any order (dict order in the code). `union` stands for a JSON Schema list of types:
not hashable, so the membership test of agent.py:1470 raises.

### Subscription

The bus is external: a log, an ack position per subscriber, in-order delivery from
where a subscription starts, as the docstrings of `subscribe`, `ack` and `nack` say.
The consumer may `ack`, `nack` a position, or neither before it asks for the next one.
What was in the buffer of a link that ended is still yielded first, as websockets does.

### Lifecycle

The connector is reduced to its link: `up`, `retry` (being replaced), `closing` and
`down` (by `disconnect()`); `Connector` shows the steps in between. `asked` records in
which situation each `shutdown()` was called. From the bus's answer to the first receive
nothing suspends, so registering, installing the signal handlers and entering the
message loop are one step (`Connected`).

### Versioning

The directories above the modules are a path; any of them may hold a `.git` and a
pyproject.toml that names a version or does not. `FromPyproject` and `FromMetadata` are
the loops of the code, as recursive functions; `Expected` is the reference definition,
by sets, that they are compared with at each first lookup.

## 3. The runs

| Run | Instance | Shows |
|---|---|---|
| `connector_safety` | 3 connections, 2 requests (1 unencodable), 2 stoppers, 1 fault, 1 heartbeat, publish or ping | `HonestRegistration`, `RegisterFirst`, `RepliesInOrder`, `OneLiveLink`, `StopIsFinal`, refinement `LinkImplemented` |
| `connector_live` | 5 connections, 3 faults, 1 request, 1 stopper, delays 2, 4, 7 | `BackoffExact`, `NoStraySocket`; `Reconnects`, `StopEnds`, `RequestsAnswered` |
| `lifecycle` | 2 stoppers, 2 starts, 3 losses | `ServesWhole`, `EndsClean`, `WelcomeNeverBlocks`, `ShutdownEnds`, refinement `LinkAsPromised` |
| `request_cycle` | 3 agents, 4 operations (1 with results `send()` may drop), 3 calls, 1 lost link, timeouts -1, 2 and 5, grace 1, network delay 0 or 1, work 1 | `EnvelopeFirst`, `OnlyHeldUpExpire`; `CallsEnd`, `AgentsFree` |
| `schema_cache` | 2 callers, 3 slots over 2 types and 2 operations, 2 versions (1 malformed), 2 calls | `NoPoison`, `StaleOnlyIfCrossed`, refinement `SlotsImplemented`, `CallsEnd` |
| `arg_checks` | 2 names, 5 declared types, 4 kinds: every schema and every argument set | `TypeOK`, `HandlerSafe`, `RefusalJustified`, `SidesAgree` |
| `catalog` | 5 agent classes, 15 command lines; every record class with any two arguments | `OneCatalog`, `ServedAsDeclared`, `BuiltInsPristine`, `RespawnSame`, `RoundTrip` |
| `subscription` | 4 messages, 4 faults, any `from_id`, any past | `AckCoversSeen`, `NoAckedAgain`, `BackoffExact`, `EventuallySeen` |
| `versioning` | 3 directories, all their contents, 2 modules, 2 agents, 1 edit | `TypeOK`, `AsFirstSeen` |
| `stop_always_final`, `arg_malformed`, `subscription_redial` | small | violations: see section 6 |

The type invariants of the modules that have a proof are theorems (section 4) and not
checked again in every run; TLC found each of them true before it was proved.

Why the bounds are enough:

- *Connections and faults.* An interleaving that matters involves one link, its
  successor and the stop; one fault gives the second connection, the third covers a stop
  during the replacement. `connector_live` has three faults in a row, so the delay
  reaches its cap (2, 4, then 7 instead of 8).
- *Stoppers.* Two are SIGTERM and SIGINT, or a signal and a caller; a third would wait
  where the second does. They are interchangeable, and the safety run uses the symmetry;
  the liveness runs use none.
- *Agents and calls.* Two agents that call each other make a knot without any operation
  leading back to itself; the third is behind both. Three calls are a knot, or a chain
  whose last reply is dropped and two calls behind it; one lost link drops a request, a
  reply, or both of one agent. A timeout of -1 meets the floor, 2 expires while the call is
  queued, and 5 is just more than the network and all computing can use (3 * 1 + 1), the
  premise of `OnlyHeldUpExpire`. One network is faster than the grace, and
  `EnvelopeFirst` is about it; the other is not, and callers give up on it.
- *Designs and arguments.* One class per hazard: nothing of its own; names that repeat,
  share a prefix or have that of a bucket; a built-in replaced under another method's
  name and overridden below; a list that changes; FastMCP tools. Command lines have each
  interpreter spelling with no, one and two `--config`. Fields of a record are checked one
  by one, `input_schema` against `parameters` being the one pair that interacts.
- *Callers and slots.* Two callers make a stampede; the three slots are two operations of
  one type and one of another, so each form of invalidation leaves something alone.
- *Schemas.* Two names give a missing and a present argument, an unknown one, and an
  order between a bad declaration and a bad value; the five types are a plain one, the
  two that bool and int confuse, an unknown name and an unhashable one.
- *Messages.* With four there are messages before, at and after an ack position and still
  one undelivered; four faults reach the cap and start again after a success.
- *Directories.* Three give a nested repository, one without, and a foreign project above.

`CHECK_DEADLOCK FALSE` stands where the system may stop: `run()` has ended, a generator
has returned or raised, the calls have been answered, a record has arrived, or the
bounds are spent. The
versioning run checks deadlock.

**Fairness.** Only the event loop and what bounds a wait are fair. Every task that can
run is run (weak fairness of each task's steps: asyncio's ready queue is a FIFO); a close
handshake ends (the library's close timeout); the schema fetch is answered or fails
(the HTTP timeout of `request()`). In `connector_live` the bus answers a register frame
on a link that stays up: the code does not bound that wait, which is listed as a hazard.
`lifecycle` assumes the same of
connecting and reconnecting. In `request_cycle` time passes, messages arrive within the
network delay, timers fire, and a handler that only computes comes to an end; that a
handler gets its answer is not assumed, nor that a link lasts or comes back: the timeouts
have to see to it. In `subscription` the consumer goes on iterating and the bus delivers what it holds. No
fault, call, publish, restart, signal or cancellation is fair.

## 4. What is proved

TLAPS, for every value of the constants that satisfies the named assumptions. Those say:
bounds are positive and `InitDelay <= MaxDelay`; markers (`None`, `Absent`, `Missing`, ...)
lie outside the data they mark; requests are no control frames; lists are sequences; a
class begins with `BaseAgent`'s own methods, and within one class body no two methods
share an operation (`DesignAssumption`); a command line begins with an interpreter
(`LaunchAssumption`); the arguments of a record are among the values `Registry` tells
apart (`InputAssumption`). Every invariant that a passing run checks is stated by one of
these theorems; each strengthening below was found true by TLC before it was proved.

- **`ConnectorProofs`**: `TypeCorrect`; `RegistrationHonest` (`[]HonestRegistration`) and
  `RegisterComesFirst` (`[]RegisterFirst`). `HonestRegistration` alone
  is not inductive: it does not say which socket and which answer the main task has in
  hand when it sets `_registered`. `LinkInv` ties each `pc` to what `_ws`, `_registered`
  and the answer may be. `WireInv` adds that a connection not yet dialled is empty and
  that one carried as `_ws` has its register frame; with it `RegisterFirst` is inductive,
  because heartbeat, publish, replies and deregister all go through `send()` on `_ws`,
  while only the handshake writes to a connection that is not `_ws`.
  `LinkRefined`: `Spec => LinkImplemented`, every step of the connector is a step of
  `AgentLink` or leaves it alone, by `LinkInv` and `AskedInv` (`_running` is cleared only
  once somebody has called `disconnect()`).
  `SocketsAccountedFor` (`[]NoStraySocket`, inductive with `LinkInv` and `WireInv`) and
  from it `LiveLinkIsOne` (`[]OneLiveLink`); `StopsAreFinal` (`[]StopIsFinal`) through
  `StopInv`: after stops that found the link up, `run()` keeps the socket it has, and every
  `disconnect()` under way is about that socket. `RepliesAlwaysInOrder`
  (`[]RepliesInOrder`) through `ReplyInv`: a request has one position among the frames of
  its connection, and the one in the handler comes after every one that has been replied
  to. `BackoffIsExact` (`[]BackoffExact`) through `BackoffInv`, which says at each await
  whether the failure last seen is in the delay yet.
- **`LifecycleProofs`**: `TypeCorrect`; `ServesWholeHolds` through `StopInv` (a timely
  `shutdown()` is only as far as the link lets it be, and the client is closed last);
  `EndsCleanHolds` through `CauseInv`; `LinkPromiseKept`: `Spec => LinkAsPromised`
  through `RunInv` (`_running` says whether `run()` will go on).
- **`RequestCycleProofs`**: `TypeCorrect`; `EnvelopeAlwaysFirst` (`[]EnvelopeFirst`), for
  any call graph and timeouts, on any network faster than the grace: `ClockInv` bounds
  what a caller has waited by what the bus has held the call and the network delay it
  has used up. `OnlyCyclesKnot`: agents get stuck only in a cycle of the call graph
  between agents, or behind one. `ExpiriesHaveACause` (`[]OnlyHeldUpExpire`): a
  patient call expires only in or behind a knot, or a call whose request or reply was
  dropped, for any call graph and whatever is dropped. Every step of the clock is paid for:
  a message uses up delay it has left, or a handler its work, or else each call the bus
  holds is lost or waits for agents that all wait for others or for a lost call
  (`Delivered`: what is open is in a handler or in a queue; `AllWait`), and is held up.
  What messages have left is counted as the set of (call, unit) pairs, so a step that uses
  delay up takes an element from it, and `PatienceInv` bounds the time of a call that was
  not held up by the work and the delay used up so far.
- **`CatalogProofs`**, on `Catalog`, for any classes, lists of skills and command lines:
  `BuiltInsStay` (`[]BuiltInsPristine`), `OneCatalogHolds`, `ServedAsDeclaredHolds` and
  `RespawnSameHolds`, all from `CatalogInv`. Its parts say that the class-level
  descriptors are as written, that the welcome the bus has was composed from the list
  registered with it (`BusInv`), that what is cached, checked or told to a caller is what
  some list of `register_skills()` makes of itself and the built-ins (`ServedInv`,
  `ToldInv`), and that a respawned command line is the first one but for the interpreter
  (`LaunchInv`). Under them are lemmas about the operators: a walk of the classes ends at
  the most derived definition, `_all_skills` adds a built-in only where the name is free,
  and a dict by name has the last entry of each.
  On `Registry`, `RecordsArrive` (`RecordSpec => []RoundTrip`): for any arguments, through
  `RecordInv`. A record that was built holds only what its checks give (`WellBuilt`); kind
  by kind these values survive `to_dict` and `from_dict` and pass the check again
  unchanged, and the two fields of a skill that interact do so only before it is built.
- **`SubscriptionProofs`**: `TypeCorrect`; `NothingAckedAgain` (`[]NoAckedAgain`) and
  `AcksCoverSeen` (`[]AckCoversSeen`). `BufInv` says that what is buffered continues what
  was yielded; `ResumeInv` that a link starts at the ack position and the position then
  moves no further than the consumer. `BackoffIsExact` through its own `BackoffInv`.
- **`SchemaCacheProofs`**: `TypeCorrect`; `NoPoisonHolds`; `StaleOnlyIfCrossedHolds`
  through `FloorInv` (what a fetch brings back is no older than the last invalidation it
  did not cross); `SlotsRefined`: `Spec => SlotsImplemented`, the refinement, each step a
  step of `SchemaSlots` or a stutter.
- **`ArgChecksProofs`**: `TypeCorrect`, `HandlersSafe`, `RefusalsJustified`,
  `SidesAlwaysAgree`, for any schemas, through `LoopInv`: the declarations the loop has
  left behind are satisfied, and the arguments were compared with the schema's names
  before it began.
- **`VersioningProofs`**, for any directories, distributions and modules: `TypeCorrect`
  and `FirstSeenReported` (`[]AsFirstSeen`). The walk to the repository and the scan of
  the distributions are shown equal to their set definitions (`Expected`), and `CacheInv`
  says that every version reported came from the cache, which keeps what was there at the
  first lookup.

Where data has to be gone through (the powers of two of a backoff, the walk up the
directories, the scan of the distributions, the last entry of a list), the proofs argue
by a least counterexample: the prover cannot use the induction theorems, which take an
operator, but `WellFoundedInduction`'s `WFMin` takes a set. The recursive functions of
`Versioning`, and the one that stands for a power of two, are shown to satisfy their
equations by exhibiting such a function.

Only model-checked: liveness under fairness (`Reconnects`, `StopEnds`,
`RequestsAnswered`, the two `CallsEnd`, `AgentsFree`, `EventuallySeen`,
`WelcomeNeverBlocks`, `ShutdownEnds`), which is outside the prover's reach. The three
violations of section 6 are counterexamples, and TLC's too.

## 5. What is deliberately stated narrowly

- `StopIsFinal` speaks of stops called while the link was up, `ServesWhole` of shutdowns
  in the message loop and of a first `start()`: outside these the code does not hold it
  (section 6, and the hazards at agent.py:1273 and connector.py:219).
- `NoStraySocket` admits the socket of a reconnection whose answer is no JSON object:
  connector.py:251 leaves it open. `OneLiveLink` shows that the bus holds none of those.
- `RequestsAnswered` leaves out unencodable results, which `send()` drops by design.
- `EndsClean` leaves out a cancellation of `connect_and_register()`, which `except
  Exception` does not see: the client stays open then.
- `ServedAsDeclared` compares skills only for an agent whose `register_skills()` is stable.
- `RespawnSame` is about interpreters the heuristic recognises, and compares the
  configurations when the command line gives one at most, without abbreviations.
- `RoundTrip` is about the fields a class has; `from_dict` raises on any other.
- `OnlyHeldUpExpire` gives the call more time than the network and the handlers can use. It
  exempts calls held up by a knot, or by a request or reply that was dropped (as not JSON,
  or with a link): those do expire without any other fault.
- `EnvelopeFirst` is about networks faster than the grace; on a slower one `request()` may
  raise `httpx.ReadTimeout`, and `CallsEnd` counts that as an end.
- `AckCoversSeen` and `EventuallySeen` speak of a subscriber that had an ack position.

## 6. Findings

1. `stop_always_final`: `disconnect()` during a reconnection is lost; the agent registers
   again and stays registered on an open socket (connector.py:219-260; before `run()`: 178).
2. `arg_malformed`: a remote schema with a list as `type` makes `request_typed` raise
   `TypeError` instead of falling through (agent.py:1470, 1721).
3. `subscription_redial`: a clean close redials at once, even with `reconnect=False`
   (client.py:191).

Seen while modelling, without a run of their own:

- A fetch under way puts the old schema back after `invalidate_schema_cache()`
  (agent.py:1689; the docstring at 1636 says the cache is cleared).
- A subscriber that has acked nothing loses what is published between two connections
  (client.py:181, docstring 168).
- `publish()` on a lost link drops the event instead of raising (agent.py:1531);
  `BaseAgent.nack` ignores the HTTP status (1533).
- Callers that miss a schema together each warn (agent.py:1777), and a miss of
  `request_typed` may wait for two timeouts, the fetch's and the call's.
- Nothing bounds the wait for the bus's answer to the register frame (connector.py:251),
  and a link lost between dial and answer leaves `connect_and_register()` as
  `ConnectionClosed` (161).
- `resolve_version()` raises for a pyproject.toml that is not UTF-8 (`UnicodeDecodeError`,
  versioning.py:140) or whose `project` is no table (versioning.py:144); `Versioning` leaves
  such files out.
- A NaN or infinite `default_timeout_s` passes `Skill()`; the registration's `json.dumps`
  then fails (agent.py:258).
- A welcome `@handler` under another method's name is served, but `start()` publishes the
  one of `handle_welcome` (agent.py:1187).
- With a dynamic `register_skills()` dispatch checks by the list of the first request
  (agent.py:1376; the docstring at 1363 says it runs once at construction).
- `launch_spec.config` is the first `--config`, `argparse` takes the last one and its
  abbreviations (launch.py:42); an interpreter the heuristic does not know (`pypy3`,
  `python3.13t`) becomes an argument of the respawned process (launch.py:55).

## 7. Not modelled, and why

- The bus server is another repository; its obligations are the external actions.
- Wording, logging, formatting and payload contents; the detail levels of welcome and
  help, the editorial and documentation gaps, the health payload: text composed from the
  skills that `Catalog` has, with no state.
- One-shot HTTP calls without state (`BusClient.register` and the like, `_do_install`,
  `_do_uninstall`, the session context calls): nothing to interleave.
- Subprocess and file access of `launch.py` (`_git_info`) and `versioning.py`: I/O, external.
- `Collaboration` and `Welcome`: plain values written once into the registration.
- The test harness calls one agent's handlers in memory, one at a time; the facade
  re-exports.

## 8. What is left

1. Safety lemmas under the liveness properties, where TLC's instance is small: that a
   waiting call is always known to a timer, and that a `disconnect()` under way always has
   a step to take or a handshake to wait for.
2. `BusClient`'s registry calls and the test harness, should they come to keep state.
