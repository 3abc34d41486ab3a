# Verification of kril

kril is a tracing wrapper for Go services with its own backend and dashboard:
a service wraps each request in a `KrilCtx`, runs its functions through
`Trace`/`TraceChild`/`TraceParallel`, and `Finish` pushes one report to the
kril backend over gRPC; the backend stores it in Elasticsearch and
VictoriaMetrics; the analytics HTTP API aggregates what is stored; a React
dashboard polls the API and draws the graph of functions.

This directory holds TLA+ models of that program, their TLC configurations and
TLAPS proofs. File and line references are to the repository (`backend/...`,
`ui/...`, `goal.md`).

## 1. The system

| component | source | state | operations | hard behaviour |
|---|---|---|---|---|
| request context | `backend/pkg/ctx/ctx.go` | per request: `indexCounter` (atomic), `traces` (under `mu`), `isSuccessful` (unsynchronised); per process: the cached gRPC client | `New`, `Trace`, `TraceChild`, `TraceParallel`, `LogError`, `MarkFailed`, `Finish`; `Configure`, `getClient` | goroutines that share the context, some joined and some not; panics; a fire-and-forget push |
| ingest service | `backend/pkg/telemetry/service.go` | none beyond a goroutine per report | `PushMetric` | acknowledged before anything is stored; three writes that fail one by one |
| Elasticsearch client | `backend/pkg/storage/elastic` | the two indices and their documents (external) | `EnsureIndices`, puts, gets, searches | writes that time out and are applied later; indices created by the first document |
| VictoriaMetrics client | `backend/pkg/storage/victoria` | the time series (external) | `PushMetrics`, `QueryRange`, `QueryInstant` | an answer of unknown length read into a fixed buffer |
| analytics router | `backend/pkg/analytics/router.go` | none | nine GET handlers, `getExecutionMap` aggregates | overlapping flows in any order, parents that were never recorded, limits of the searches |
| backend process | `backend/cmd/kril/main.go` | the process | boot, serve, graceful shutdown | crash, restart, shutdown under load |
| configuration | `backend/pkg/config` | none | `Default`, `Load` | none, sequential |
| dashboard state | `ui/src/App.tsx`, `api.ts`, `DetailPanel.tsx` | selection, range, datasets, panel | toggles, polls, clicks | overlapping loads that answer in any order |
| service graph | `ui/src/components/ServiceGraph.tsx` | nodes, links, bubble positions, drags | build, layout, drag, zoom | drags during reloads, ports guessed from the selection's order |
| demo services | `test_services/` | per service a process; per request its context | nine handlers that trace calls and get each other's endpoints | calls in a ring without timeouts, failures nobody checks, processes that die |

Interaction: a service calls the context directly; the context's push goroutine
calls `PushMetric`; the handler starts the storing goroutine; the router reads
what that goroutine has written so far; the dashboard polls the router. No
component waits for a later one: every hand-over is fire-and-forget, so the
questions are what is in a report at the instant it is built, what is lost
between two components, and what is shown of answers that come late.

What makes each component correct:

- request context: indices and append order both describe the call tree; the
  report holds every call the handler waited for; the verdict is right about
  them although it is read without the lock; calls and requests end.
- ingest: an acknowledged report is stored or its failures are logged; its
  writes keep their order in the stores whatever is late; storing and shutdown
  end; documents meet the declared mapping of every index a boot has ensured.
- VictoriaMetrics client: an answer is whole, and there is one.
- execution map: each call is counted once, in any order of the logs; the three
  derivations of "failed" agree; the answer is a graph.
- analytics reads: what the API lists or does not find can be told from what was
  stored and logged.
- dashboard: old loads and intervals cannot outlive a change of the selection
  for good; bubbles stay where the user put them.
- service graph: what is drawn between services is what they called.
- demo services: requests end though services wait for each other, and their
  reports tell of each other truly.

## 2. Modules

| module | models | extends / instances |
|---|---|---|
| `RequestReport` | what a request promises: calls end, one report or none, taken at one instant | |
| `KrilCtx` | the request context, one action per stretch of code between two accesses to shared state | instance of `RequestReport` |
| `KrilCtxInvariant` | the inductive invariant of `KrilCtx` | `KrilCtx` |
| `KrilCtxProofs` | its theorems | `KrilCtxInvariant`, `TLAPS` |
| `WriteLedger` | what the backend promises about a report's writes: settled once, in order, until the process ends | |
| `Ingest` | the backend process, `PushMetric`, the storing goroutine, the stores' late effects | instance of `WriteLedger` |
| `IngestProofs` | its theorems | `Ingest`, `TLAPS` |
| `Api` | the analytics API's reads of Elasticsearch, beside the ingest | `Ingest` |
| `ApiProofs` | its theorems | `Api`, `IngestProofs` |
| `QueryRead` | the metrics queries, their handlers and their reading loop | |
| `QueryReadProofs` | its theorems | `QueryRead`, `TLAPS` |
| `ServiceMap` | what `PushMetric`, `PushMetrics` and `getExecutionMap` derive from execution flows | |
| `ServiceMapProofs` | its theorems | `ServiceMap`, `TLAPS` |
| `DemoScripts` | the nine handlers of the demo services as data: which calls, in which steps | |
| `DemoServices` | services that run such scripts and call each other, with processes that die | instance of `RequestReport` per request |
| `GraphBuild` | `build()` of the service graph, as operators | |
| `DemoGraph` | what `build()` draws of the reports of `DemoServices` | `DemoServices`, `GraphBuild` |
| `DemoProofs` | theorems about the services and the graph | `DemoGraph`, `TLAPS` |
| `Dashboard` | selection, intervals, loads and datasets of `App` | |
| `DashboardProofs` | its theorems | `Dashboard`, `TLAPS` |
| `ServiceGraph` | places of bubbles, their drags and rebuilds, beside `App` | `Dashboard` |
| `ServiceGraphProofs` | its theorems | `ServiceGraph`, `DashboardProofs` |
| `MC*` | the instances TLC checks | the module named |

Definitions named after a mutation (their comment begins with "Mutant") are
plausible bugs of the definition that follows them; no specification uses them.
Putting one in place of its definition breaks the property `PROJECT.json` names,
which shows that the property watches that code.

### KrilCtx

A call is one invocation of a traced function. `st[c]` is its place in
`traceWithParent` (or in a goroutine of `TraceParallel`, whose code is the
same): `running` from the increment of the counter (line 196 or 231) until the
function returns, `returned` when an error has been written to the trace and to
`isSuccessful` (215-219), `recorded` after the append under `mu` (221-223).
`site[c]` is fixed at the start: the frame that called, the mode, the goroutine,
the frames that wait for the call, index and parent name. `Start` is the common
part of `Trace`, `TraceChild` and `TraceParallel`; `TraceParallel` gives all its
calls one index. A frame executes only while it is not inside a nested `Trace`
or a `wg.Wait` (`Waits`), which is all the control the library has over the
service; everything else in a traced function's body is free: what it traces,
on which goroutine, whether it logs an error, returns one, or panics.

`isSuccessful` is the one unsynchronised variable. It is modelled by the set
`writers` of frames that have written `false`. `FinishRead` (line 293) sees
every write that happens before it, those of joined frames, and any subset of
the others: the outcomes the race can have. `FinishSnapshot` copies `traces`
under the lock. `FinishNoClient` is `getClient` returning nil: nothing
configured, or `grpc.NewClient` failing. `Push` ends with delivery or not.

A panic on the handler's goroutine unwinds all its frames without recording
them, runs the deferred `Finish` ("Always call this via defer", line 279) and is
recovered by `net/http`; on another goroutine it ends the process. A panic
while `TraceParallel` waits can only happen on another goroutine.

`Implements` maps this to `RequestReport` for the calls the handler waits for.
Detached goroutines may go on tracing and failing before, during and after
`Finish`; the abstract request does not see them, except that a failure of one
that `FinishRead` met counts as a failure of the request.

Left out: `RecordExternalCall`, `SetInput`, `SetOutput` and log lines, which
write fields of the call's own trace and are copied as they are; latencies.

### Ingest

`proc` is the process, `creating` the index that `EnsureIndices` is at. `rpc[r]`
is a `PushMetric` call, `stage[r]` the next write of its goroutine (service log,
telemetry log, series). Each write succeeds (`Put`) or fails for the process
(`PutFails`: error status, refused connection, or the client's timeout), is
logged, and the goroutine goes on (service.go:106-116). A failed write may
already be on its way: it stays in `late` and `LatePut` may apply it at any
time, in any order, also after a restart. The same holds for the creation of an
index. `createIndex` takes an answer 200 and every answer 400 for success
(elastic.go:56): a 400 says that the index exists, or that Elasticsearch refuses
to make it, as when the limit of shards is reached, and then it stays absent
without an error or a warning (`CreationAnswered`). A document for an index that
does not exist creates it with a mapping Elasticsearch guesses (`dynamic`).
`skipped` is not in the code: it records the indices that some boot went on
without, having warned of an error of theirs or of the one before, or having
taken a refusal for success. `Exit` is `GracefulStop` followed by the end
of `main`: it waits for calls, not for their goroutines. `Crash` stands for a
kill or one of the `log.Fatalf`s.

`KeepsLedger` maps this to `WriteLedger`: `Fate(r, i)` tells of each write
whether its turn is to come (`due`), it is stored or known to have failed, was
in hand when the process ended (`doubtful`), or was behind that one (`lost`). The
ledger knows no processes, requests or indices; it has a report's writes settled
in order, lets only failed and doubtful ones come to a store late, and has no
report acknowledged whose writing the end of the process has cut off.

### Api

Every step of `Ingest`, and the handlers of the API that read Elasticsearch.
`visible` are the telemetry logs of the last refresh, which is all a search
sees; a read by id sees what is stored. Elasticsearch takes a request in one of
three ways (`Outcomes`): it answers, answers with an error status, or not at
all. `search` and `RawSearch` look at no status (elastic.go:190-230), so an
error answer is found to hold nothing and is answered 200 (`Found`,
`SearchAnswers`); `getDoc` takes anything that does not decode for a missing
document, and both handlers by id answer 404 (`Got`, `GetLog`). `answer` keeps
the status and what the body is about: services, or reports. With a guessed
mapping the aggregation of service names fails for good (`Buckets`) and a filter
by name may match anything (`Matching`). Left out: times, the limits of 100
services and 1,000 logs.

### QueryRead

`metricsQuery` and `metricsQueryRange` refuse a query that lacks a parameter,
ask VictoriaMetrics, and read. `buf` has `Cap` bytes, the answer `body`, of
which `sent` have come and `n` are read. `ReadBytes` returns any number that is
there and fits; `ReadNothing` is `Read` on an empty slice, which returns 0 and
no error while the body goes on. `ConnBreaks` is a reset or the client's timeout
of 5 s; before the answer's head it is answered 500, after it what was read is
answered 200.

### ServiceMap

A call of a flow keeps its function, parent and error flag. `Receive` chooses
any flow of at most `MaxFlow` calls; `StoreTelemetryLog` and `PushMetrics` are
the writes with their failures. `Search` takes a snapshot of the stored logs;
`NextLog` and `VisitEntry` are the two loops of router.go:225-256, one entry a
step, the logs in any order. `nodeMap` and `edgeMap` are functions that are 0
where the code has no key. The key of an edge is a pair here and the text
`parent->fn` in the code (router.go:247), where names that contain `->` could
share one: the names of functions are taken not to. Left out: the search's limit
of 10,000 logs.

### DemoScripts and DemoServices

`DemoScripts` gives each of the nine handlers as a sequence of steps, a step
being the calls of one `Trace`, `TraceChild` or `TraceParallel`, with the name,
the parent, the external call it records and the endpoint it gets. `DemoServices`
runs any such scripts. A request is known by the user's endpoint and its own.
`Makes` says that the handler is in the step of a call; `EndLocal`, `Get` and
`EndRemote` are its beginning and end, with the error a lost connection makes
(the status of the answer is not looked at) and that the handlers drop. `Finish`
comes before `Answer`, for it is deferred and the server flushes the few bytes
of the response after the handler. `Crash` ends a process: what it was serving
dies, its pushes are lost or have just arrived, and what it asked of others goes
on. Users make one request at a time, as `loadgen.sh` does. What a context does
inside is `KrilCtx`'s matter; `ReportsFixed` says that each request here keeps
the same `RequestReport` that `KrilCtx` implements, which justifies the atomic
`Finish`. Left out: that Go's HTTP transport sends a `GET`
again when a reused connection breaks before any answer.

### GraphBuild and DemoGraph

`GraphBuild` has one operator per product of `build()` (ServiceGraph.tsx:65-193):
the ports' services (`PortToService`), the entry function of each service in
every order the nodes may have (`EntryChoices`), cross-service edges, links and
links to barrels. `DemoGraph` gives it datasets made of the reports that arrived,
in each order of selection the instance names.

### Dashboard and ServiceGraph

An action is one turn of the browser's event loop. `Reselect` is a change of
the selection with the effect that follows (App.tsx:58-91): cleanup of the old
interval, then clearing the data or starting a load and a new interval. A
selection is a sequence, for the graph depends on its order. A load keeps the
selection its closure captured; `LoadDone` is the `Promise.all` with all answers,
`LoadFails` its catch. An error body of the API counts as an answer, for the
status is not looked at: its service is then not in `mapped`.

`ServiceGraph` adds to each step what the graph does about it. `Rebuild` is
`build()` with the effect of ServiceGraph.tsx:307-373: each bubble is placed by
its index in the selection, or where `servicePosRef` (`saved`) has it, and the
forces take their targets of that moment (`pull`). `Grab`, `Move` and `Drop` are
a drag of a bubble (475-519): a drag holds the object of the build it began
with, so after a reload it moves the saved place and no longer the bubble drawn
(`held`). A place is a multiple of `BUBBLE_GAP`.

## 3. Runs

| run | shows | bounds |
|---|---|---|
| `ctx` | order of indices and of recorded calls, complete reports, right and explained verdicts; the context implements `RequestReport` whatever lost goroutines do; calls and requests end | 3 calls: a parallel pair whose member nests or detaches another is the smallest case with a joined, a nested and a lost goroutine at once; one call may fail, one may panic, one may be detached, the handler may mark the request failed |
| `ctx_panic` | violation: a panicking request is reported a success | 2 calls |
| `ingest` | order and accounting of writes, their ledger, origin of mappings; what the API lists and does not find; storing and shutdown end, and acknowledged reports become visible or their loss is on record, with stores that never answer | 1 report, 2 services (the report's and another to ask for), 2 starts of the process: late writes of the first incarnation meet the second; what several reports add is proved, not run |
| `ingest_graceful` | violation: acknowledged reports die at exit | 1 report, 1 start |
| `query_read` | whole answers, and answers to what fits, from the request on | buffer of 4, bodies of 0 to 6: empty, shorter, exact, one over, two over |
| `query_read_long` | violation: a long answer is never returned | the same |
| `map` | exact counts, agreement of the failure flags and series, a graph when parents are known | 2 reports with all flows of up to 2 calls over 2 functions: recursion, shared edges, unknown parents |
| `map_edges` | violation: an edge without a node | 2 reports of 1 call |
| `dashboard` | spinner, reloads, settling; drags survive reloads, bubbles keep apart and settle | 2 services, listed in full or not at all; 2 ranges; 2 changes of the selection; 2 loads at a time: an old and a new load in either order; 2 places; 1 drag |
| `dashboard_cleared` | violation: data shown after "Clear all" | 1 service, 2 changes |
| `demo` | remote errors, order of reports, somebody always goes on, the graph drawn of the reports, requests end | the users' requests `service_a/api2` and `service_c/api3`, which between them meet all three services, call in parallel and go round the ring; one call that fails of itself, one process that dies; one or two services selected in any order, and all three in the order of their ports |
| `graph_ports` | violation: calls between selected services that are not drawn, or drawn elsewhere | the same, without the three services in the order of their ports |

Bounds in the specifications: `MaxBoots` (starts of the process), `MaxBody`
(length of an answer), `MaxFlow` (length of a flow), `MaxLoads` (loads at a
time), `MaxInputs` (changes of the selection), `MaxDrags` (drags begun),
`MaxCrashes` (dying processes). They bound the environment, not the code.
Symmetry is used over reports and functions in `map`, which never tells them
apart and has no temporal property. Deadlock is not checked: every one of these
systems may come to rest (the request is reported, the process has exited for
the last time, the answer is returned).

### Fairness

- `KrilCtx!FairSpec`: traced functions return, runnable goroutines run, and the
  push ends, as its context has a timeout of 5 s (ctx.go:324). Starting calls
  and panicking is never required.
- `Ingest!Fairness`: the handler and the storing goroutine run, and a write
  that is not answered fails at its client's timeout (elastic.go:27,
  victoria.go:29). `Put` gets no fairness: the stores need never answer.
  `Api!ApiFairSpec` adds Elasticsearch's refresh of what it has stored.
- `QueryRead!FairSpec`: the loop runs and the client's timeout breaks the
  connection. VictoriaMetrics need not send.
- `DemoServices!FairSpec`: handlers run, a connection is taken or refused, a
  push ends. No process need be started again: what is sent to a process that
  is down is refused.
- `Dashboard!FairSpec` and `ServiceGraph!GraphFairSpec`: the interval fires
  (App.tsx:88), and each slot's loads succeed again and again. The latter is an
  assumption about the backend, not something the code provides: with a backend
  that fails for ever the graph keeps what it had. Nothing is assumed of the
  user.

## 4. Proofs

All theorems hold for every value of the constants under the named assumptions
of the modules (`ConstantsAssumption`, `BootsAssumption`, `ServiceAssumption`,
`SizesAssumption`, `NamesAssumption`, `ScriptAssumption`, `PortsAssumption`,
`BoundsAssumption`, `PlacesAssumption`), which TLC evaluates in the runs and
which say what the constants are. Two say a little more: by `ScriptAssumption` the
calls of a handler have different names, and no request is made by two calls,
as is so of the demo services (a request is known by its endpoint, so a second
one at the same endpoint for the same user needs a name of its own); by
`PortsAssumption` no two services have the same port.

`KrilCtxProofs`. The safety properties are not inductive: what `NestedFirst`
says of recorded calls rests on what a caller may do while a call under it
runs. `KrilCtxInvariant` gives the strengthening in named parts: how the
frames that wait for a call relate to its caller's (they are closed upwards),
that a frame waited for has not returned, that a frame is in at most one
sequential call, that every index taken is below the counter, that `traces`
holds the recorded calls once each, that writers of `isSuccessful` are exactly
the failed and marking frames, and what `Finish` has copied. Each action is
shown to preserve it, conjunct by conjunct. The theorems: `TypeCorrect`,
`Invariant`, `IndicesOrderCalls`, `NestedRecordedFirst`, `ReportIsComplete`,
`VerdictIsRight`, `FailureIsExplained`; and `ReportIsAtomic`, that every step is
a step of `RequestReport` or a stutter, with detached goroutines too. Its
content is that between the unlocked read of `isSuccessful` and the locked copy
of `traces` nothing can happen to what the handler waits for.
`NoWaitIsDead` says that whatever a `Trace` or a `wg.Wait` waits for, through
any nesting of parallel calls, holds a call that waits for nothing: of the calls
a frame awaits, one with the greatest index (`GreatestNumber`) waits for none,
for what it waited for would have a greater one. `RequestNeverStalls` draws the conclusion
for the whole request. This is the safety half of `CallsEnd` and `Dispatched`,
for any number of calls; the other half is the fairness of the scheduler.

`IngestProofs`. `IInv` says that a goroutine starts in its handler, that all
writes before its stage are accounted, that no write is anywhere that was not
reached, and that an index which no boot went on without precedes its
documents (`IndicesFirst`). From it:
`IngestTypeCorrect`, `WritesStoredInOrder`, `AcknowledgedIsAccounted`, and
`GuessesAreExplained`: whatever comes late, in whatever incarnation, a mapping is
guessed only of an index that a boot went on without. `BackendKeepsLedger` is the
refinement of `WriteLedger`, for any number of reports and restarts. It needs
`LedgerInv`: only a write that was left is in the log, and a goroutine dies in
its writing, after its call has ended. Each action is shown to change the fate
of one write (`OneEntryChanges`), of one report, or, when the process ends, of
all that is due.

`ApiProofs`. The reads leave the ingest alone (`ApiLeavesIngest`), so its
invariant holds beside them. With what searches see being stored, and an index
being wherever a document is (`DocumentsStayIndexed`), it gives
`NotFoundIsExplained`, `ServicesAreListed` and `ListedHaveServiceLogs` for any
number of reports and restarts: the run has one report. The first two are about
every outcome of the request to Elasticsearch and name its failure as one of the
reasons an answer can have.

`QueryReadProofs`. `ReadTypeCorrect` and `AnswersComplete`: what is returned
fits the buffer and is the whole body unless the connection broke.
`LongNeverAnswered` is what the run `query_read_long` shows of one answer, for
every buffer and answer: once the buffer is full with bytes left, there is no
reply for ever, not even when the client's timeout breaks the connection.
`SmallNeverSpins` is the safety half of `SmallAnswered`: an answer shorter than
the buffer never makes the loop go round for nothing, and one that fits leaves
bytes to read with room for them, or is read, when the peer is done.

`ServiceMapProofs`. The loop invariant of the aggregation: `MapExact` says that
every counter is the number of entries visited that belong to it. Visiting an
entry adds one element to the set of visited ones (`EntryIsNew`) and so one to
each count the entry belongs to (`CountedGrows`); beginning a log adds none
(`NextLogKeepsVisited`), nor does a report received meanwhile, for the logs
found have been stored and do not change (`FoundLogsStay`). At the end all
entries of all logs are visited (`AllIsCounted`), from which `FlagsAgree` and
`KnownParentsGiveGraph` follow; `SeriesAreConsistent` and `MapTypeCorrect`, too,
are for any finite set of reports and any bound on flows.

`DemoProofs`. `IInv` adds to the properties that a report is taken after all
calls of its request and before the answer. Then a call that is no error was
answered, and what was answered has its report (`RemoteErrorsAreLosses`,
`CalleesAreReported`), for any services, scripts and crashes. `ReportsStayFixed`:
each request keeps the promise of `RequestReport`.

`NobodyIsStuck` is the safety half of `RequestsEnd`: while a request or one
made for it is unfinished, one of them can go on. Its hypothesis `NoRings` says
that no set of endpoints has every handler get one of the set; the services may
call each other in a ring, as they do, their handlers may not. The proof takes
the endpoints of the requests that are being served and, by `NoRings`, one whose
handler waits for none of them.

`LinksAlwaysJoinNodes` and `CrossEdgesAlwaysTrue` are about what `build()` draws
of any reports that arrived, for any selection, and in the order of the ports
for the latter. Their hypothesis `HandlersAreTrees` says that a handler begins
with a call without a parent and names no parent that it does not call. That a
port, seen in a report, is the port of the service selected at its place is
`InPortOrder`; that a service that is selected and has reports has an entry rests
on the first call of each handler. The nine handlers of `DemoScripts` satisfy
both hypotheses; the mutants `A_API3_AsksBack` and `A_API2_WrongParent` each break
one, and with it the property.

`DashboardProofs`. `DashboardTypeCorrect`, `SpinnerIsHonest` and
`OldSelectionsUnasked`; the last from the invariant that an interval only
holds the present selection.

`ServiceGraphProofs`. The graph never steers the App (`GraphLeavesDashboard`),
so that what is proved of `Dashboard` holds beside it. `PlacesSurvive`: only a
drag of a bubble changes its place. `BubblesApart`: while the selection only
grows and nothing is dragged, no two bubbles are built at one place, however old
the answer that is drawn; `GraphInv` says that every load under way is of a
beginning of the present selection and every saved place is its service's index
in it.

The type invariants of `Ingest` and `QueryRead` are proved and not checked again
by the runs, whose other invariants and mutants say more.

Only model-checked: the properties under fairness (`CallsEnd`, `Dispatched`,
`JobsEnd`, `StopEnds`, `AcknowledgedSurfaces`, `SmallAnswered`, `Settles`,
`BubblesSettle`, `RequestsEnd`), which the prover does not reach. Of
`SmallAnswered`, `RequestsEnd`, `CallsEnd` and `Dispatched` it is proved that
there is always a step to take; that the steps are taken, and that they come to
an end, is TLC's part.

## 5. Where code and documents disagree

Six disagreements have a run: `PROJECT.json` quotes the lines.

1. `Finish` under a panic reports success (goal.md:28, ctx.go:293).
2. The graceful shutdown drops acknowledged reports (main.go:80-88,
   service.go:104).
3. An answer of VictoriaMetrics longer than 64 KiB is never proxied, and the
   goroutine spins (router.go:312, victoria.go:128).
4. The execution map may have edges without nodes (router.go:207, 246), which
   the force layout of the dashboard does not accept.
5. Data is shown for services that are no longer selected (App.tsx:57-91).
6. Calls between selected services are drawn by their place in the selection,
   and right only in the order of their ports (goal.md:144, ServiceGraph.tsx:84).

Others met while modelling, without a run:

- A nested `Trace` reports no parent (goal.md:35, ctx.go:183).
- A telemetry log is stored when its service log failed (goal.md:94,
  service.go:106).
- "will retry on write" (main.go:38) creates no index but has Elasticsearch
  guess one: from then on the list of services is empty with status 200. Nor is
  the warning given whenever it is due: any 400 passes for success
  (elastic.go:56), that of a creation which Elasticsearch refused, too.
- A connection to VictoriaMetrics that breaks half way gives a cut-off answer
  with status 200 (victoria.go:131), which `CompleteUnlessBroken` exempts.
- Of loads that overlap the first to end turns the spinner off (App.tsx:85);
  `SpinnerMeansLoad` says that it is never left on.
- An error body of the API is drawn as a service without functions until a later
  load (api.ts:78).
- A failure of Elasticsearch is answered 404 by the reads by id, and 200 with
  nothing by the searches; a search without hits is answered `null`.
- `elastic_index` of the configuration set to the telemetry logs' index would
  have both logs of a request overwrite each other.
- `victoria.New` never fails, so the 503 of the metrics handlers is unreachable;
  it puts the query into the URL as it is (victoria.go:112, 140).
- The counters of victoria.go:4-8 are always 1, and the comment names
  `kril_method_error_total` where the code pushes `kril_method_failure_total`.
- Bubbles can cover each other: a place is kept for a service that was removed
  and given again by index (ServiceGraph.tsx:96, 308-317; goal.md:144 has
  "another bubble").  `Apart` says when they cannot.
- The "live reference" of a node (ServiceGraph.tsx:44) does not drive the
  forces, which keep the target they were given at the last build: after a drag
  functions drift back to the old place until the next reload. A reload during a
  drag leaves the drawn bubble behind until the one after it. `BubblesSettle`
  says that this ends.

## 6. Not modelled, and the plan

Not modelled because there is nothing to check: generated gRPC code, rendering,
styles, containers, `config.Load` (one goroutine, once). Modelled only as
environment: React, `net/http`, d3, the stores. In `PROJECT.json`, hazards
without a property say what is missing:

- `Configure` after the first request (ctx.go:57, 289): documented to be called
  once at startup, and so called.
- The limits of the searches (10,000, 1,000 and 100): a comment of
  `getExecutionMap` says it aggregates all execution maps (router.go:162). A
  model that reaches a limit needs one more report than `map` has room for.
- The detail panel (App.tsx:118-126): its statistics stay those of the click
  while the requests beside them are reloaded, and for one animation frame
  after a reload the nodes drawn are older than the datasets a click looks in.
- The text of PromQL queries, times and ranges, the zoom, drags of single
  functions, and the HTTP server's close at shutdown.

Next, in this order: the panel as a component beside `ServiceGraph`, with the
frame between a render and a tick; the limits, and the agreement of the
execution map with the list of requests. Of the proofs: that the goroutines of
`Ingest` and the loads of `Dashboard` always have a step to take, as for the
requests, and that what a settled graph shows is what was answered last.
