# STARTER-core: specification and proofs

STARTER connects services, processes that own inputs and outputs (sensors,
actuators), with a Core that watches all of them and evaluates rules. A service
is an `STServer` announced by mDNS. The Core finds it, starts an `STClient` that
mirrors its points, evaluates the rules whenever a value changes, and writes
outputs back. A debug server lets a debugger stop the evaluation.

This directory holds TLA+ modules of that system, the TLC configurations that
check them and TLAPS proofs about them. Line numbers refer to the repository.

## Inventory

| Part | State | Operations | Hard behaviour |
|---|---|---|---|
| Peer registry (`src/mdns.c`) | `pending_clients`, `clients`, `PendingClient` records | service added, service removed, start finished | withdrawals and late results cross starts in flight; borrowed pointers |
| Identifier tables (`src/main.c` 450-522) | `all_inputs`, `all_outputs` | rebuild | two peers with one id; entries of peers that went |
| `STClient` (`lib/client.c`) | state, connection, mirrored points | async start, change handlers, SetInput and SetOutput | snapshot against subscription; cancellation between calls; synchronous calls that time out |
| `STInput`, `STOutput` (`lib/input.c`, `lib/output.c`) | min, max, step, val, flags | setters | each setter rounds to the step and checks against the others |
| `STServer` (`lib/server.c`) | points, connections | serve methods, tell changes | rejected writes, death of the process |
| Rule engine (`src/engine.c`) | labels, triggers | apply | stale mirror; nested passes; failing assignments |
| Expressions, variables (`src/expr.c`, `src/var.c`) | what CHANGED saw last and EVAL froze, values | evaluate, set | self-triggering, functions with a memory, numeric edges |
| Debug server (`src/debug-server.c`) | connections, pause, break- and watchpoints, peer list | stop, continue, set, list, add, remove | a stop inside a rule pass; skipped passes; several debuggers |
| Discovery (`lib/mdns.c`, `lib/mdns-service.c`) | browsers, list of resolved services | browse, resolve, remove | answers after removals; several instances of a name |
| Statistics (`lib/stats.c`, `*-collector.c`) | entries with min, max, last; previous counters | collect, update, tell | failing reads; change threshold; first values |
| History (`lib/mysql-client.c`) | a database connection | store label, store value, look up the last one | outages and deaths between three queries |
| Rules language (`src/rules.y`, `src/lex.l`) | none after start-up | parse | none at run time |

The Core is one process with one GLib main loop. Its parts interact by direct
calls and GObject signals: `STMDNS` signals the registry, the registry starts an
`STClient` and is called back, the client's change handler sets the mirrored
point, whose `val-changed` signal runs the engine, which writes through the
client. What is concurrent is the order of callbacks, the services, and GDBus's
worker thread, which reads messages before the main loop handles them.

What makes each part correct:

- registry: a record lives as long as its start; a peer is known only while
  mDNS advertises it; the tables name live clients; a result concerns its own start;
- client and points: a mirror follows its point; an assertion of the point
  constructors never fails; the loop always comes back;
- engine: once nothing is under way, targets are as the first true entry of their block
  says; a rule respects the manual override; passes end;
- debug server: its peer list is the Core's; what debuggers see is what the Core has;
  a stop is known to all of them and ends; a handle keeps its meaning;
- discovery: what stays on the network gets listed, what has gone gets off the list,
  and the signals follow the list although they know names only;
- statistics: extremes and rates account for every sample stored, and the Core's
  copy follows them within the thresholds;
- history: it ends with the present value of each point, and repeats nothing.

## Modules

| Module | What it is |
|---|---|
| `PeerTable` | abstract: what a peer table promises, a peer going absent, connecting, ready |
| `PeerRegistry` | the registry with the asynchronous start of the clients it drives |
| `PeerRegistryProofs` | inductive invariant, safety theorems, progress of a start, refinement of `PeerTable` |
| `MCPeerRegistry` | symmetry for TLC |
| `IoPoint` | the setters of a point, as operators on records |
| `PointMirror` | one point in a service and in the Core: server, wire, worker thread, client, rules, debugger; built on `IoPoint` |
| `PointMirrorProofs` | rounding and the setters of a point; inductive invariants and safety theorems of `PointMirror`, the work a callback has left |
| `MCPointMirror` | initial points for TLC |
| `Engine` | the rule engine: passes, nested passes, variables, and what sets them off or holds them up |
| `EngineProofs` | evaluation and references through variables; inductive invariants and safety theorems of `Engine`, the descent of passes |
| `MCEngine` | seven small rule files for TLC |
| `RuleFunctions` | EVAL, CHANGED and FLAG in nested passes |
| `RuleFunctionsProofs` | places of expressions and evaluation; inductive invariant and safety theorems of `RuleFunctions` |
| `MCRuleFunctions` | four small rule files for TLC |
| `Discovery` | browsers, resolvers and the list of services between the Avahi daemon and `PeerTable` |
| `DiscoveryProofs` | inductive invariant, safety theorems and an action property of `Discovery`, refinement of `PeerTable` |
| `MCDiscovery` | a name on two links and under two types |
| `DebugServer` | the debug server and the debuggers attached to it |
| `DebugServerProofs` | inductive invariant and safety theorems of `DebugServer` |
| `MCDebugServer` | two sessions of two debuggers |
| `Statistics` | collector, entries, threshold, signal and the client's copy |
| `StatisticsProofs` | inductive invariant and safety theorems of `Statistics` |
| `MCStatistics` | samples for TLC |
| `History` | the database client with the handlers that use it |
| `HistoryProofs` | inductive invariant, safety theorems and an action property of `History` |
| `MCHistory` | three values, two of which six digits do not tell apart |

Definitions called mutants in comments are variants with a plausible bug; no
specification uses them. They show that each property can be broken: with the
mutant in place of the definition after it, TLC finds the property violated.

### PeerRegistry

One action is one callback of the main loop, run to its end. `rec` is the heap of
`PendingClient` records by address, because the address is what
`on_client_start_finished` gets as `user_data`. `OnServiceAdded` allocates a
record and a client and begins the start; `OnConnected`, `OnGetInputs`,
`OnGetOutputs`, `OnGetStats` are its completions; the last one is followed, in
the same callback, by `register_ready_client`. `OnServiceRemoved` cancels and
frees; the cancelled start is found so by its next completion
(`OnCancelledCall`), and its error comes one iteration later (`OnLateResult`),
with the address of the freed record.

Reading the freed record is undefined. `OnLateResult` takes every outcome: the
memory does not look like a pending record and the result is ignored; the process
dies; or the allocator has given the address to another start (`RecordReuse`) and
the callback takes that start for its own. Two points of order are worth a look
in the code: `st_client_start_async` keeps the caller's cancellable, so
`pending_client_free` reaches the start; and `register_ready_client` returns
before `engine_apply` when the debugger has stopped evaluation, which
`unevaluated` remembers.

Left out: addresses and ports (Discovery has the place of a peer), the history write
for a new peer's points (History), the points' contents (PointMirror), statistics.

### IoPoint and PointMirror

Values are integers, multiples of a common unit; steps are positive. So rounding
is exact and `nearly_equal` is equality. `RoundToStep` rounds halves away from
zero, as `round` does.

`PointMirror` follows one point. `wire` and `loop` are the two queues a message
passes: the socket, read by the worker thread, and the sources of the main loop.
`ReceiveSignal` drops a signal when there is no subscription at that moment;
`OnStats` subscribes. `OnSignal` is the change handler: five setters in turn, each
on the point the ones before have left, and after a change of the value the rules
run in the middle (`pass`, `EndPass`), before the flags are set. `RuleSetsValue`
and `RuleSetsFlag` are the two forms of an assignment; the rules may do any such
writes, at most `MaxWrites` a pass. `Write` blocks the main loop
(`pass.at = "calling"`) until the answer or the timeout; signals are queued
meanwhile and not handled, since `g_dbus_connection_call_sync` runs a context of
its own. A call that timed out may still be served (`late`). `missed` and `heard`
are history variables for the properties. `ServiceDies` loses what had not been
sent; it also stands for what may happen in `handle_method_call` after a rejected
write, which answers an invocation twice.

Left out: description and unit, names, several points at a time (others appear
as `OtherPointChanges`), the release of the client after the service is withdrawn.

### Engine

`conf` is the rules file: label blocks and triggers as records of expressions, and what
VAR declares. An expression is a literal, a reference, or an operator over one
reference; `VarValues` and `RefsOf` follow variables to the expressions they hold. A
variable is assigned an expression, not a value, so variables may come to refer to
one another in a circle; evaluating it, or searching it for an id, recurs without
end and exhausts the stack of the process (`Dies`).

`stack` holds the passes under way. `ConsiderRule` is one round of the loops of
`engine_apply`: it finds out whether the rule concerns the pass and which assignments
it makes. `SetOutput`, `SetVariable` and `SetNothing` are `assign_apply` by the kind of
the target. Setting a variable calls its change callback there and then, which begins
a pass on top of the others (`Notice`) unless the debugger holds it. Conditions are
evaluated when a rule is considered and values when they are assigned, as in the
code: the services may act in between, other callbacks of the Core may not
(`Idle`). `MaxDepth` is how many passes the stack of the process has room for.

`mirror` is what the Core reads, `actual` what the service has, `events` the changes between
them. `missed` and `astray` are history variables: what the debugger held back, and
why an output may differ from what its rule gave it last.

Left out: expressions over several ids, functions and FLAG (RuleFunctions has some), several points of one peer, and the handles of
break- and watchpoints, of which only the ids matter here. The debug server is
compiled in, as by default; without it a circle of variables shows at the next evaluation
instead of at once. With it `main.c` 201 evaluates a variable's expression before the
rules do, which matters only for EVAL and CHANGED.

### RuleFunctions

`memory` is what the nodes of the parsed rules keep: an EVAL the value it froze, a CHANGED
the value it saw last. `Outcomes` is `expr_eval`, whose results come with what the nodes
remember then; the evaluation that freezes an EVAL has any result, since the function ends
without one. `ConsiderEntry` evaluates one condition of a block, because each may change the
memory, and `SetVariable` takes over the node itself, with what it remembers, and has the
debug server evaluate it (`DebuggerLooks`). Passes nest as in Engine. `ValueChanges`,
`FlagFollows` and `FlagChanges` are the change handler: a pass between the value and the flags,
none after the flags. What the debugger holds is `held`.

`stale`, `unclear`, `last` and `owed` are history variables: which ids changed without a
pass, the outputs of rules with an EVAL that was met for the first time, and what the CHANGEDs owe.
`Affected` finds these rules by the EVAL's node, since two rules may have one EVAL through a
variable. `FunctionsAssumption` says what the parser makes: expressions, rules of one entry or
more, and a node of its own for each function written (`OwnNodes`), which is what makes a CHANGED
belong to one condition. `ChangeReportedOnce` is
about rules whose first condition is a CHANGED. One behind a variable, or after another condition,
reports to whoever evaluates it first, be it the debug server, and skips what no pass showed it.

Left out: calls to the services and operators (Engine has them), outputs as arguments (their
handler is the inputs'), functions of functions, MIN, MAX, ROUND and LIMIT.

### Discovery

`net` is what is offered on the network, an instance being a name and a type on one
link. The daemon's part is external and as free as Avahi's interface allows: it tells the
browsers of an instance and takes it back, in order; it answers a resolver at any time,
from its cache, also after it took the instance back; or it lets the resolver time out.
`OnType`, `OnNew`, `OnFound`, `OnResolverFailed` and `OnRemove` are the callbacks of
`lib/mdns.c`, `OnRunning` and `OnFailure` those of the client's state, after
which nothing connects anew. `services` is the list; `present` is what the two signals
say, which carry only a name, and moves as `PeerTable` does, an instance of which is part of
the module. `at` is the entry a peer connects to; a start fails when nothing is offered there.

The list is kept by every field of a service, the removal by four of them
(`RemoveInstance`), and the signal by name and type (`Remaining`). What follows from the
difference is in the properties: a name stays announced as long as an instance of its type
does, but withdrawing the last instance of a second type of the name withdraws the peer
although the first type is still listed (`PresentIsListed` has this exception), and a
peer that moved keeps the place it was first seen at (`PeerKeptByItsType`). A
service that answers after its removal stays on the list until it is announced and
removed again (`GhostsAnswerLate`); nothing reconnects a peer whose start failed meanwhile.

A type browser, a browser for a type or a resolver may be impossible to make (the daemon limits the
objects of a client), which the code only logs. A type without a browser is not in
`service_browsers`, so another type browser, made when the client is running anew, has it
tried again (`OnType`); a resolver is not tried again before its instance comes anew. `refused`
and `lost` remember what failed last, for `OfferedGetsListed`.

Left out: publishing one's own service.

### DebugServer

Each debugger has a queue of what was sent to it (`sent`) and keeps what it was told
(`held`, `seenPeers`, `seen`, `mine`). The debugger's side is external: it reads in order,
waits for one reply before the next call, drops what it knew of the points when a peer
changes, and attaches by asking for the status. The Core's side is the callbacks of
`debug-server.c`: `OnNewConnection`, `OnClosed` and one action for each method, and the
events that the rest of the Core reports. A `session` fixes which calls the debuggers make
in a behaviour, so that each run of TLC looks at one subject.

Points and the pause survive the disconnection of the debugger that set them. `Continue` is
not broadcast: another debugger that saw the stop takes the Core to be stopped until it asks
or continues itself, which `StopsKnown` does not contradict, since it is about the other
direction. Two peers that export the same id are excluded (`Owner`), because the events
name the id only. `intercept_apply` with an id, and `st_core_debug_stop`, are called by tests
only.

### Statistics

The nine entries are read from three files of `/proc`; one entry of each stands for all.
`Collect` is one period: any of the files may be unreadable. Without `stat` nothing is
stored; without `io` the counter is kept, so that the next rate covers two periods.
`Stores` updates the entries and tells of a change if any entry differs by its threshold from
what it was one sample before. Numbers are in fractions of the threshold, which is 1 in the code, so
that whole numbers, of kilobytes, priorities and threads, are multiples of it
(`StatisticsAssumption`); nothing else is assumed of samples. `Far` and
`Tiny` are the values a new entry starts with. `OnStats` takes the snapshot and subscribes
after it, as in PointMirror.

`ReadsCountedOnce` is about what the counter grew between samples. The rate itself is that
divided by five seconds (`process-stats-collector.c` 65), whereas the collectors are made to sample once a
second (`lib/server.c` 615, `src/main.c` 590): the entries of `io` and of context switches show a fifth
of the rate.

Left out: overflow of the counters, the arithmetic of CPU and context-switch rates, the
setters of single entries, which no code calls.

### History

A query blocks the main loop, so a registration is three steps that nothing of the Core
can interrupt but its end: `StoreLabel`, `GetLastValue`, `StoreFirst`. Between them the
database may go. A query is answered, or carried out and its answer lost, or not carried
out (`Outcomes`); the client library makes a lost connection anew, at once or one query
later, so `Reconnects = TRUE` includes what happens without. `rows` is the table in the
order of its identifiers, each row with the time the database gave it; the last row is looked up
by time, so ties matter (`NewestRows`), and so does `%lf`, which keeps six digits
(`Stored`). `skipped` is a history variable for the properties.

A row refers to a label, and labels are stored at registration only: if the database was
away then, no change of the point is recorded until its peer is registered again, though the
manual says that every event is recorded (`doc/starter-core.texi` 165, 1220). `skipped`
stays TRUE for such a point. `CoreDies` is the end of the process at any moment, from outside or
by a crash. The error that `st_core_input_changed_callback` has freed when a row could not be
stored goes on to `engine_apply` (`main.c` 352), but that neither reads nor sets its `error` and
always returns TRUE, so nothing comes of it.

Left out: what the rows of statistics hold, and a clock that goes back (a `DATETIME` of local
time does so once a year).

## Runs

| Run | Asks | Result |
|---|---|---|
| `registry_safety` | records, starts, tables and debugger agree; refinement of `PeerTable` | holds, 36,828 states |
| `registry_liveness` | every start ends and every advertised peer is registered, when freed records are not reused | holds, 22,610 states |
| `registry_late_result` | a result concerns its own start, when records are reused | violated |
| `mirror_sync` | a mirror follows its point; two signals repair a missed change; constructors' assertions; values reverted only unseen | holds, 4.3 million states |
| `mirror_writes` | manual override, return of the main loop, convergence | holds, 46,636 states |
| `mirror_snapshot_gap` | no early update is lost | violated |
| `engine_passes` | blocks decide their targets; rules without feedback end and survive | holds, 207,613 states |
| `functions_memory` | a change is reported once; blocks decide their outputs in spite of frozen EVALs | holds, 906,423 states |
| `discovery_list` | list, signals and peers agree; removals are complete; what stays gets listed, also when browsers could not be made at first | holds, 654,366 states |
| `debug_views` | debuggers see what the Core has, know of stops, keep their handles; stops end | holds, 186,000 states |
| `statistics_copy` | extremes and rates account for all samples; the copy's drift is bounded | holds, 240,855 states |
| `history_rows` | the last row is the value; no row is repeated | holds, 197,845 states |

Bounds. The registry has two names that match and one that does not, two records
and three clients: enough for a start, its cancelled predecessor and a
bystander, with a record reused or not. One input and one output id suffice to have
two peers export the same id. Where no record or client is left, `OnServiceAdded`
is disabled: a bound, not a behaviour. The mirror has two values with a gap (0 and
3) and steps 1 and 2, so that rounding, rejection by either bound and a step that
does not divide the value all happen; a larger instance (values 0, 1, 3,
17.8 million states) gave the same answers. `MaxFlight` bounds the messages under
way when a service acts, `MaxCalls` the calls not served and `MaxWrites` the writes
of a pass. The engine has one input, one output and two variables, and rule files chosen
for the ways rules can meet: a chain, two rules that disagree, a block whose condition
a later block changes, a name for a condition, a circle that assignments make, one
that is declared, and two blocks that undo one another for ever. `MaxEvents` is 1 for
changes the services make by themselves; the reports of the Core's writes come on top.
`MaxDepth` 4 is one more than rules without feedback can use with two variables.

The rule files of RuleFunctions have two inputs, a variable, two outputs and at most three
functions each: a CHANGED reached early by the pass of a variable, two EVALs of one input that
take turns in a variable, an EVAL declared but used by two blocks, in one by a later entry only, and
EVALs and FLAGs as conditions.

Discovery has one name on two links, under a second type on one of them, and two places:
enough for a duplicate, a move and a name that outlives one of its types. Three changes of the
network (`MaxChurn`) let an instance come, go and come back while an answer is
late. There are two type browsers (`MaxRunning`), the second of which tells again of a type
whose browser could not be made. The debug server has one peer, one point, one variable and a counter of two
handles (`HandleMod` 3), so that the third point added comes round; `MaxSent` bounds
what is under way when an event happens. Statistics has a priority of either sign, rates
of halves of the threshold, three samples and two starts. History has one point (two gave
the same answers, with 4.1 million states), four rows, three times and three faults.

Deadlock is checked for the debug server only; elsewhere the system may stop: a Core
that died, a point whose queues are empty with no edit left, a daemon that has gone, a
bound that is reached.

### What the violations show

- `OwnResultOnly` (`src/mdns.c` 202): the late result of a withdrawn start, when its
  record's address belongs to a new start, fails the new start. The comment at
  line 205 means to ignore it.
- `NoEarlyUpdateLost` (`lib/client.c` 963): subscribing last loses the changes after
  the snapshot. `MirrorFollows` shows that this is the only way a living mirror loses
  track, apart from the debugger's own writes, and `TwoSignalsRepair` for how long.

More statements of the manual are too strong for the code, in ways the passing runs
bound:

- `doc/starter-core.texi` 1040, no automatic change under the manual override: a write
  carries value and flags, one of them from the mirror (`src/engine.c` 231). `OverrideLostOnlyUnseen`
  says that this happens only while the Core has not applied the operator's change.
- `doc/starter-core.texi` 561, a FLAG write leaves the value: for the same reason (`src/engine.c`
  122) it may put an older one back. `ValueRevertedOnlyUnseen` says when.
- `doc/starter-core.texi` 346, a block is evaluated anew after every change: when the mirror of
  the target is behind, the call is left out (`src/engine.c` 225), and the report that
  then comes does not evaluate the block. `OutputsSettled` says that this, operators, failed
  calls and stops are the only ways.
- `doc/starter-core.texi` 1657, the field max of an entry is "The maximum value recorded.": a maximum
  starts at the smallest positive double (`lib/stats.c` 483), so that samples that are zero or
  less never become it. The priority of a real-time process, -2 for the lowest, is recorded as a
  minimum only. `ExtremesOfAllSamples` says that this is the only case: the maximum is right once a
  sample was above zero. The test in `test/test-stats.c` 63 knows the value an entry starts with, not
  what follows from it.
- `doc/starter-core.texi` 888, no rules while the debugger holds the Core: a stop on a variable skips
  the pass its change would make, not the rest of the pass that changed it (`src/main.c` 203).
  `VariablesSettled` leaves out what a stop held back.
- `doc/starter-core.texi` 588, EVAL calculates the result and stores it: the evaluation that freezes
  it ends without a result (`src/expr.c` 524), and as the EVAL then depends on nothing, the block
  may stay wrong, as may another block that has the same EVAL through a variable. `BlocksSettled`
  has this exception (`unclear`).
- `doc/starter-core.texi` 597 and 629, the moment an EVAL is frozen: it is the first evaluation, once for
  the life of the Core. Assigning it again gives the old value (`SetVariable`), and one in a declaration
  is frozen by the first rule that uses it, not when its service appears.

## Fairness

`LoopFairness`: each callback of a start that is due runs in the end. The main
loop dispatches queued sources, GDBus ends calls with its default timeout, and a
cancellable ends a call at once. Connecting has no timeout in the code, so that
connecting ends is an assumption of its own, `PeersAnswer`. `AdvertisedGetsReady` also
needs starts that do not fail: the code never retries one.

`CoreFairness`: the worker thread reads, a rule pass ends, a call times out, and the
main loop dispatches what is queued. Dispatching is strongly fair because other
points' changes (`OtherPointChanges`) may come first any number of times, yet sources
are served in the order they were queued. Nothing is assumed of the service.

The engine's `FairSpec`: a pass goes on to its end, since it runs inside one callback and
its calls end with an answer or a timeout. `PassesEnd` is about rules without feedback;
the others may nest until the stack is exhausted.

Discovery: the daemon goes on telling what it sees and answers from what it knows, as long as
the connection is up; the main loop runs what has arrived; starts end. Of the network
nothing is assumed, nor that a browser can be made; `OfferedGetsListed` is about instances that stay, and
excepts those whose last browser or resolver failed.

DebugServer: the main loop comes back to every connection, a debugger reads what it is sent,
and one that takes the Core to be stopped lets it go on now and then (strong
fairness: it may have other calls to make in between). `StopsEnd` is only about a debugger that
stays connected; after the last one has gone a stop may be for ever.

## Proofs

Eight modules have theorems, each for any value of the constants, from the assumption
its module names and nothing else.

`PeerRegistryProofs`, for any names, records, clients and ids and any choice of
the allocator and the peers:

- `TypeOKHolds`, `RecordsOwnStartsHolds`, `PeersAdvertisedHolds`,
  `TablesCurrentHolds`, `DebugPeersAgreeHolds`: the safety invariants of the runs;
- `OnlyStopsSkipPassesHolds`: only a stop lets a registered peer go without a full pass (proved only);
- `StartsGoForwardHolds`: a start goes through its calls in their order, five completions at most,
  each bringing it nearer its end; a cancelled one is never revived (proved only);
- `ImplementsPeerTableHolds`: the registry implements `PeerTable`.

The argument is one inductive invariant, `IInv`, the conjunction of the runs' own
invariants. None is inductive alone: that a withdrawal cancels the right start rests
on the record naming it (`PendingOwnsStart`); that the last reply finds its own
record allocated, on the converse (`NoOrphanStart`, lemma `GetStatsFindsOwnRecord`); that the
tables survive the steps of a start, on registered clients being READY
(`PeersAdvertised`), since `Rebuilt` reads only their snapshots (lemma
`RebuiltLocal`). One lemma per action shows that it keeps `IInv`. The refinement maps
the status of a name to the table that holds it; each step is a step of
`PeerTable` or leaves it unchanged, and the late result of another start is a
`GiveUp` there.

`DiscoveryProofs` proves `TypeOKHolds`, `PresentIsListedHolds`, `PeerKeptByItsTypeHolds` and the
action property `GhostsAnswerLateHolds`, for any number of instances, links, types and places. The
conjunction of the first three is inductive: that a name has a place exactly while the peer table
has a peer, a part of `TypeOK`, lets an answer add to the list without touching a peer there is; a
removal that leaves an instance of the same type leaves the name's peer as it was; one that leaves
none withdraws it and is remembered in `withdrawn`. `GhostsAnswerLateHolds` rests on two lemmas
about what the browsers have told of an instance (`Browsed`): a message the daemon adds changes
nothing of it but by news of the instance (`SendingBrowsed`), and an event that is no news of it
changes nothing when it is handled (`HandlingBrowsed`). What is left are the removals, which leave
nothing of their instance listed. `DrivesPeerTableHolds` says that discovery, too, implements
`PeerTable`: its signals, with the ends of starts between them, do to the table of peers only what the
table allows. So the two modules meet at one specification, proved of both.

`StatisticsProofs` proves `TypeOKHolds`, `ReadsCountedOnceHolds` and `ExtremesOfAllSamplesHolds`, for
any samples, positive or not, whole ones being multiples of the threshold. The heart is a lemma about `Update`
(`UpdateExtremes`): the new minimum is that of the samples with the new one, the new maximum that of those above
zero, with `Far` and `Tiny` as the two values that are no sample. `DriftBoundedHolds` has an invariant of its own, `DriftInv`: the newest message on the way, or
the copy when there is none, is near the statistics. The whole entries are multiples of the
threshold (`StatisticsAssumption`), so that a change of one is at least a threshold and is told at
once; a sample that is not told moves a rate by less than a threshold (`NearStep`).

`HistoryProofs` proves `TypeOKHolds`, `LatestRowIsValueHolds` and the action property
`NoRowRepeatedHolds`. The invariant strengthens the first two: the times of the rows do not decrease, no
row has a time to come, every row holds a value of six digits, and what `GetLastValue` found is
still one of the newest rows when `StoreFirst` compares it, since the main loop is blocked.

`DebugServerProofs` proves `TypeOKHolds`, `StopsKnownHolds`, `HandleKeepsItsMeaningHolds` and
`ViewsFollowHolds`, for any debuggers, sessions and bounds. No property is inductive, since each is
about what a debugger will have read. `StopsReach` says that for a connected debugger, while the Core is stopped, what is
on the way makes it know: a message that tells of the stop with none after it that clears it; or it
knows and none clears it; or its first `GetStatus` is under way, whose answer will tell. `HandlesFresh`
says that, until the counter comes round, the next handle is the number of adds plus one, no handle
above it is in use, and each handle held, or in an answer on the way, names its own point. `ViewsReach`
is for a debugger's view what `Chained` is for a mirror: reading what is on the way, message by
message (`Leads`), brings the view to one that is not out of date (`Current`). A step of the Core
adds messages that lead from each such view to one which is so after the step, so only the end
has to be looked at (`ViewsSent`).

`PointMirrorProofs` begins with the arithmetic of points, for all integers and positive steps: a
rounded value is a multiple of the step, no other is nearer, halves go away from zero and multiples stay
(`RoundToStepRounds`); it survives a round trip through another step (lemmas). `SettersKeepSound` says that a setter leaves a sound point (bounds and value in
order and multiples of the step) sound, whether it takes the new value or not.

It proves next `AssertionsHoldHolds` and `MirrorFollowsHolds`, for any values, steps and
bounds, from the assumption that initial points are sound. The invariant is
`Typed /\ Phases /\ (missed \/ Chained)`. `Phases`: until the snapshot is handled, nothing else
comes to the loop before it. `Chained`: unless a change was missed, the signals queued on the loop and then
those on the wire lead the mirror, as the handler under way will leave it (`Finished`), to the
service's point, one exactly applied signal at a time. That a handler applies a signal
exactly is the theorem `HandlesSetters`, the one place where the order of the five setters in
`lib/client.c` matters: a signal made by one setter of the service turns a mirror equal to the
point before it into the point after it, also if the step changed.

`OverrideLostOnlyUnseenHolds` and `ValueRevertedOnlyUnseenHolds` rest on
`Pending`: writes not served and answers not read are no more than the calls given up (`late`) and
the one waited for, and that one, the newest, carries what the mirror has, which does not change
while the main loop waits. So while no call was given up, the first write to be served is the one
waited for (`FirstIsNewest`). `AtMost` counts without recursion: the elements counted can be
numbered in order up to the bound, which an element added, the first taken away or the end cut off
leaves possible.

Last comes `TwoSignalsRepairHolds`, from the same assumption. `RInv` adds to the
invariant above that the snapshot comes once (`Handshake`) and that, with or without a missed change,
the signals queued and on the wire lead some point `a` to the service's, while the mirror `Follows`
`a` as far as the signals heard since the snapshot go. After one signal of the mirror's own step
value, step and flags are right (`FirstAgrees`): a bound may have been refused because of the
mirror's old value, but none in the way of the new one. After two everything is (`SecondRepairs`).
Rounding is monotone, so a signal of another step keeps the agreement there is (`StepAgrees`).

`WorkGoesDownHolds` measures a callback: `Work` counts what it has still to do, each write being made and
then answered or given up, and is zero just when the loop is free. While it is not, no step of
the service, the worker thread or the timeouts raises it, and the end of a pass and of a call that nobody
answers lower it, the steps whose fairness `LoopReturns` rests on.

`EngineProofs` proves `TypeOKHolds`, `VariablesSettledHolds` and `OutputsSettledHolds` for any rule
files the parser can make (`EngineAssumption`: what expressions and rules look like, label blocks before
triggers), any number of points, services, operators and stops, with or without circles of
variables. What a block gives is searched for and evaluated through variables to any depth
(`VarValues`, `Reach`): the lemmas `ChainLocal`, `ReachLocal`, `EvalLocal` and `RuleLocal` say what
these depend on, the induction over the depth being one over the set of good numbers (`NatInd`). The
invariant has two parts. `LeftOK`: the assignments a pass has still to make are those of the rule
before the one it is at, and for a block, on top of the stack only, just what the block gives
(`Fired`). `OwedOK`: a block that alone decides a target, whose target is not as the block says, and
whose inputs' changes were all evaluated, is `Due`: some pass on the stack concerns it and will
come to it, or has just come to it. One lemma per action says how the blocks that are wrong
after it come to be due: a change brings the pass that looks at the block, a pass leaves a block behind
only by setting the target right or by being on its way to, and setting a variable brings a
pass on top, while what that does not concern is unchanged (`SameRule`). When nothing is under
way nothing is due.

`FeedbackFreeSurvivesHolds` takes as a hypothesis that the stack has room for more passes than there are
variables, which the code neither checks nor bounds. Rules without feedback have a rank for each
variable, greater than those of the variables it is given from (`Ordered`). Then passes climb: each is for a
variable of a higher rank than the one below it (`TameInv`), so there are no more of them than
variables and the first one, and following references comes to an end (`OrderedChainEnds`).

`PassesDescendHolds` compares the stack of passes before and after each step of `engine_apply`, for any rules: a
pass gets further on, in rules and assignments left, or ends, and those below it are kept
(`Descends`), or the process dies; nothing else touches the stack. With rules without
feedback the stack is no higher than the variables and one more, so that this is a descent in
a well-founded order (`FeedbackFreeDescendsHolds`). With feedback only the death of the process bounds
how many passes come up within one another.

`RuleFunctionsProofs` proves `TypeOKHolds`, `ChangeReportedOnceHolds` and `BlocksSettledHolds` for any
rule files the parser can make, any inputs, values and stops, with the results of the first
evaluation of an EVAL free. All rests on each node having one place: a variable holds what it was
declared with or what some rule assigns to it (`OriginOK`), so that a condition's node is in no
variable and in no other condition (`CondNode`), and an assigned one in no variable but its target
(`RvalNode`). From that follow what an evaluation cannot change (`Evaluated`: no value, and the
references only of rules whose outputs become unclear) and what an assignment cannot
(`VariableLeaves`). The invariant has three more parts. `ReportsOK`: a CHANGED that a rule begins with
either saw the last value of its input, or has a change to report and then the first pass of the
stack is one of that input, or a full one, with the rule still before it. `PassesOK`: the
assignments a pass has left are the rest of an entry of the rule before the one it is at; on
top of the stack this entry decides, and the entries already seen are false, unless the rule is unclear;
below the top, a pass is where it set a variable. `OwedOK`: where a settled rule's output is wrong,
some pass on the stack will come to the rule (`WillCome`), is within it, or has the very
assignment left. One lemma per operation traces a wrong output back (`WrongBefore`): it was wrong
before and due, or the step brings a pass.

Only model-checked: liveness (`StartsEnd`, `AdvertisedGetsReady`, `LoopReturns`, `EventuallySynchronized`,
`PassesEnd`, `OfferedGetsListed`, `StopsEnd`), which the prover cannot express with fairness and
ENABLED. Of `StartsEnd`, `LoopReturns` and `PassesEnd` the safety half is proved
(`StartsGoForwardHolds`, `WorkGoesDownHolds`, `FeedbackFreeDescendsHolds`): a measure that no step
raises while the start, callback or passes are under way, and that the steps driven by fairness lower.
What is left to TLC is that such a step is possible and, being fair, taken. Every invariant and every other action property of the
runs that hold is proved.

## Not modelled

MIN, MAX, ROUND and LIMIT, functions of functions and operators within functions: they compute
from their arguments and keep nothing, so that a test of each says as much as a model. (MAX
starts its search at the smallest positive number, `src/expr.c` 452: the maximum of zeros is positive,
and true.) Parsing
runs once at start-up and leaves no state but the rules Engine starts from; the scanner and
parser are generated. Publishing one's own service, settings, options and logging, the lists
of points of the debug server, and replacements for older GLib versions, have no interplay with
the rest. Floating-point error is abstracted by integers. The synchronous `st_client_start` is
used by tests only.

## Plan

Done: registry, mirror, engine, discovery, debug server, statistics and history, functions with a
memory, with the proofs above: every safety property of every module is proved for any values of its
constants. What would come next is breadth: functions of functions, which would give an expression
several nodes and an EVAL a tree to freeze, and several inputs in one expression, in
`RuleFunctions`; several points of one peer in `PointMirror`.
