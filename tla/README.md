# ATSuite in TLA+

ATSuite replays recorded traces of agent workflows against tools that are
deployed as cloud functions (AWS Lambda, Function Compute, Cloud Run), as MCP
servers or on AgentCore, and reports what the runs took and cost. This directory
holds TLA+ models of its core, configurations that check them with TLC, and
proofs checked by TLAPS. Line numbers are those of the sources under `src/`;
`PROJECT.json` maps each definition to the lines it models.

    tlc -config MCReplay.cfg MCReplay      # one run; see "Runs" below
    tlapm Replay_proofs.tla                # proofs; the same with each *_proofs.tla

## 1. The system

### Components

| Component | Code | State it keeps | Operations |
|---|---|---|---|
| Replay engine | `atsuite/invoker.py` `run_node`, `execute_node` | in-degrees, ready nodes, visited nodes, pending futures, a thread pool; `sessions`, `toclean`, shared with workers | schedule, wait, collect, deliver edges, execute a node, shut down |
| Access scheduler | `atsuite/scheduler.py` | readers per state domain, writers | `can_start`, `start`, `finish` |
| Run lifecycle | `atsuite/invoker.py` `run_trace` | standard output of the process, log file, snapshots in the store, scaling configurations, analyzer, trace end | set-up, replay, nested `finally` clauses |
| Command lines | `atsuite/cli/invoker.py`, `atsuite/cli/concurrency.py` | futures, results, failures | one run, or a pool of runs |
| State runtime of the SDK | `atsuite_sdk/state.py`, `abstract.py` | registered objects, their defaults, the current uid, snapshot map (MCP) | register, restore, save, prime |
| Function server | `atsuite_sdk/function.py` | the process's state runtime | one request at a time |
| Object stores | `aws/s3.py`, `ali/oss.py`, `atsuite_sdk/gcs.py` | objects | `read`, `append`, `clearobj`, `deleteobj`, each one or more requests |
| Seeding and cleanup | `atsuite/state_snapshot.py`, `atsuite/utils.py` | seeded targets, `toclean` | put snapshots, attach one to a call, delete state objects |
| Function clients | `atsuite/faas/function.py`, `atsuite/runtime.py` | none | invoke |
| MCP clients | `atsuite/mcp/mcp.py` | session id, initialized flag | initialize, invoke |
| MCP server | `atsuite_sdk/mcp_server.py` | tools and objects of the process | call a tool, prime |
| Trace and workflow | `atsuite_sdk/workflow.py` | nodes, edges in order | read only |
| Recorder and collectors | `atsuite/analyzer.py`, `analysis/observer.py`, `analysis/collectors.py` | observations, evidence | record, save, wait for logs, join |
| Report | `analysis/pricing.py`, `aggregation.py`, `timeline.py`, `export.py` | none | price, aggregate, draw, write |
| Benchmark resolution | `atsuite/pipeline.py` | cache of resolved benchmarks | check a configuration, route nodes to targets, derive accesses |
| Image build | `atsuite/cli/build_docker_images.py` | directories under `dist/`, local images | fill a directory, build an image |
| Deployment | `atsuite/deploy.py`, provider modules | pushed images, functions, the files of `url_results/` | push, create, update, wait for readiness, write the URL map |

### Interactions

Builds, deployments and runs are commands of their own; they meet in the images,
functions and URL maps that they find by name. A command line calls `run_trace`, alone
or in a thread pool. `run_trace` replaces the standard output of the process, seeds
snapshots, connects the runtime adapter and calls `run_node`. There one coordinator
submits nodes to a pool of worker threads; the lock table serialises FaaS calls that
touch one state domain. A worker's tool call goes to a function instance, which reads
the (service, uid) snapshot from the object store before the tool and rewrites it after;
or to a session of an MCP server, whose process keeps the state. When the replay is
over, completed or not, `cleaner` deletes the objects of the services in `toclean`,
scaling configurations go, and the analyzer writes events, collects evidence and
reports.

### What is hard, and what makes each part correct

* **Interleavings of coordinator and workers.** Locks are taken at submission
  and given back at collection, so between the two the lock table is a claim
  about threads the coordinator does not see. Correct: no conflicting calls in
  progress, locks exactly those of uncollected calls, nodes after their
  predecessors and only once, nothing running when `run_node` is over, and an
  end to every replay.
* **A save is not one operation.** It is up to four storage requests on a
  platform that may lose a response while the call goes on. Correct: seen from
  the session, a tool call is one atomic step; sessions never mix; objects are
  cleaned unless a call was lost, or the server makes another key of the uid.
* **Sessions opened by concurrent first calls**, with a snapshot to bring to
  exactly one of them, and failures at each request. Correct: effects of
  answered calls are visible to later calls, the snapshot arrives in the session
  in use, nobody waits for ever behind `session_lock`.
* **Failure in the middle of nested `finally` clauses**, and several runs in one
  process that share its standard output and artifact names. Correct: a run that
  returns is a whole run, and what a failed run leaves behind is explained by its
  faults.
* **Evidence that arrives late, or never**, under one of two ids, for calls whose
  session the client may already have forgotten, with a crash during a wait of up
  to half an hour. Correct: every session is priced, once; the wait keeps to its
  deadline; a log record goes to its own call.
* **Arguments assembled edge by edge**, in the order in which predecessors end.
  Correct: a node gets the inputs of all its edges, whatever the order.
* **Reports computed from partial observations**, taken on several clocks, with
  requests interleaved in a server. Correct: a client lane, and the tools of one server
  process, do not overlap, the phases of a call tile it, sums lose no time and count
  none twice, charges keep to the client's time, but for Lambda's initialisation.
* **Commands that meet by name only**, names of which each host makes forms of its own,
  and each of which can stop half way. Correct: a
  tool use has one route; a run's calls reach what was built and deployed for its
  project, unless a job that shares a name came between; every function is listed or
  a deployment failed; every command ends.

`PROJECT.json` lists these hazards one by one, at the line where they bite.

## 2. Modules

| Module | Models | Role |
|---|---|---|
| `ToolAccess` | `ToolAccess`, the conflict of two accesses | operators |
| `AccessScheduler` | the lock table | operators on `readers`, `writers` |
| `Trace` | nodes, edges, kinds, possible outcomes of a body | operators, constants |
| `DagExecution` | what the replay of a trace promises | abstract specification |
| `Replay` | `run_node` | specification; implements `DagExecution` |
| `Deployment` | services, instances, uids, calls | constants |
| `SessionState` | one value per (service, uid), calls as atomic steps | abstract specification |
| `FaasState` | SDK state runtime, function server, stores, client, cleanup | specification; implements `SessionState` |
| `McpSession` | calls of a replay on session targets | specification |
| `RunLifecycle` | `run_trace` and its command lines | specification |
| `Collection` | recorder, saved events, wait for usage logs, collectors | specification |
| `Report` | metrics of calls, timeline, node rows, charges | operators |
| `Timing` | clocks of client and servers, the MCP server's middleware, the function server, the times that reach the report | specification |
| `Resolution` | `resolve_benchmark` | operators |
| `Pipeline` | builds, deployments and runs as concurrent jobs | specification |
| `Replay_proofs` | | theorems about `Replay`, and that it implements `DagExecution` |
| `FaasState_proofs` | | theorems about `FaasState`: locks, isolation |
| `FaasSession_proofs` | | more of them, and that it implements `SessionState` |
| `McpSession_proofs` | | theorems about `McpSession`, with each of the two clients |
| `RunLifecycle_proofs` | | theorems about `RunLifecycle` |
| `Collection_proofs` | | theorems about `Collection` |
| `Timing_proofs` | | theorems about `Timing` and `Report` |
| `Pipeline_proofs` | | theorems about `Resolution` and `Pipeline` |
| `MC...` | | instances for TLC |

`Replay` composes `Trace`, `AccessScheduler` and `ToolAccess`. `FaasState` and
`McpSession` detail what one `EndNode` step of `Replay` stands for; what they
take from `Replay` is which calls may be in progress together (the lock table's
conflict relation for FaaS, everything that dependencies allow for sessions).
`RunLifecycle` abstracts `Replay` to its stateful calls and its outcome.
`Collection` details the one step `Analyze` of `RunLifecycle`, and takes from
`McpSession` how AgentCore's session ids come about. `Timing` composes the clocks of
a run with `Report`, `Pipeline` the jobs with `Resolution`, whose routes are what the
constants of `Replay`, `FaasState` and `McpSession` assume: one target and one access
for each tool use.

Definitions marked "Variant:" are not part of a specification. Each alters one
definition the way a slip in the code would, and shows that a property notices:
substituting it makes TLC find the property violated.

### Replay

`pc` is the coordinator's place in the loop of lines 370-395; `SubmitNode`,
`EndSchedule`, `WaitReturns`, `Collect`, `CollectRaises`, `DeliverEdge`, `EndDeliver`,
`JoinWorkers` are its steps, `BeginNode` and `EndNode` those of the pool. `ready_nodes`
is a set: the code sorts it before each use, which `SubmitNode` models by taking the
least startable node. `wait` may return any moment after an ended future exists, with
all that have ended; the order of a batch is free, as Python's set order is.
`future.result()` that raises leaves the loop after the lock was released, with the rest
of the batch uncollected, and the `with` statement then runs queued nodes to their end.
Sleeps on edges are points where workers interleave. `inputs` is `node_incoming_params`
as the set of edges whose parameters a node holds: `bare` edges have no input, `text`
edges one that is no dictionary, which neither updates nor is updated (`Merged`). A
`tool_use` node may raise (no target, a failed session or call), a `sandbox` node always
does (line 336), and any other node in the print that ends it, on a closed log (333-337).
`Stuck` is the set of nodes that a cycle keeps from ever having in-degree 0.

### FaasState

A snapshot is the set of calls whose effect it holds, so lost updates, mixed sessions
and stale restores all show as a wrong set. A function instance runs one request at a
time (`HTTPServer`), hence restore and tool are one step, while each storage request of
the save is a step of its own; `world.backend` selects the requests of S3, OSS or Cloud
Storage. `touch` and `measure` are the second request of `clearobj` and the first of
`append`; `torn` is a save that stopped half way. A storage request may fail, before it
is executed or after it (`SaveUnanswered`, `LoadFails`). An instance whose
`create_storage` failed has no `storage`: it serves a call with nothing restored and
nothing saved, and answers with success (`pc` is `unstored`). Keys are made by `SafeUid`
at the server (`KeyOf`), and of the uid as given in seeding and cleanup (`RunKey`).
`LoseResponse` is a broken connection, before or after execution; `Recycle` is the
platform. `inPlace` tells whether tools change their containers or bind new ones: user
code, hence a parameter. Replays of one uid run one after the other (`after`).

### McpSession

`lock`, `sessions` and `seeded` are `session_lock`, `sessions` and
`seeded_targets` of `run_node`; `current` is the session id each client keeps.
`MCPClient.initialize` sends a request with `session_lock` held (`BeginOpen`,
`EndOpen`), `AgentCoreMCPClient.initialize` sends none (`OpenNothing`) and takes
its session from each response: `TakeSession` assigns what the header says, before
`RespondError` raises, and `None` where there is no header (`world.named` tells whether
responses name their session). `primed` is the snapshot map of a session, which requests
set and no tool of the MCP mode reads. The process of each session is
external; it executes one tool at a time because the wrapper calls the
synchronous tool from the event loop.

### RunLifecycle

One action per cloud call or clause of `run_trace`, each with its failure, if it
has one; `raised` says that an exception is on its way out, through the nested
`finally` clauses. Standard output is the stack of the tees a print goes through;
a print is possible when none of their logs is closed. Prints are modelled where
one can raise outside a handler that swallows it: the runs' own, the cleaner's notice for
`mcp_gateway` (`NoticeFails`), the driver's after each submission (`AnnounceSubmitted`).
The driver is the thread of the command line. `world.stored` tells whether the provider
has an object store.

### Collection

Three stages. In the replay, a call is sent with the session id that its client has
(`via`), executed, answered (`Answer` overwrites the client's id, `current`, with none
where the response has none) and
recorded (`Record` reads that id once more); `overtaken` is a history variable that
remembers the calls between whose answer and record another session's answer came. A
response that reports a JSON-RPC error is `Answer`, which takes its session, and `Fail`
after it.
`EndReplay` saves `recorder` in `file`. In the wait, `rows` are the
sessions of `_agentcore_session_rows`, `PollRow` asks for one row's usage, and
`AllReady`, `GiveUp` and `Sleep` are the three ways a round ends. The clock counts
half seconds, so that a pause below the minimal second exists; it runs during the
wait alone. `Crash` loses the recorder, `Reload` is `analyze_events`. `Collect` is
the rest: `Query`, `Selects` and `Fetched` say which log records are at hand for a
call on each provider, `LookedUp` under which ids they are sought, `Joined` the
result. Cloud Run's breakdowns and Cloud Logging stand for all FaaS on Google Cloud.
The log services are external: a record arrives at any time or never.

### Report and Timing

`Timing` has one clock for the client, a monotonic and a wall clock for each place (a
server process), and for each call the times of eight events. Delays are `Tick`s; the
interleavings are those that the event loop (`Quiet`) or the single thread of the
function server allows. Tools may await or not, responses may be streamed, calls may
fail, the wall clock may be set once while requests are in progress (`SetClock`).
`Leave` is the end of the request middleware: it prints the breakdown, with the
application time corrected by `recent`, the list `_completed_requests`. What a server
prints may lack wall times (`logged`), and the platform's record may be missing
(`found`) or include the way to the server (`early`, `late`). Lambda's record has the
duration and the billed duration, a multiple of `Whole`, which may include the
initialisation (`inclusive`). `Analyse` ends the run;
from there `Report` computes metrics, spans, rows and charges as functions of the
recorded times, written after the code's own formulas, fallbacks and clamps. One unit
is the 0.1 ms that the code takes as the least application time. Rates are left out:
a charge is the time, or the category, that is charged for.

### Resolution and Pipeline

`Resolves` is the conjunction of the checks of `resolve_benchmark`; `RoutesOf` is every
route that the configuration would allow a trace, of which the code's dictionaries would
keep the last. `Pipeline` runs jobs (build, deploy, run) of one or two configurations.
`dist`, `images`, `registry`, `cloud` and `urlMap` are what they share, keyed as the
code names things: the image tag has family, benchmark and target (`Tag`), a deployment
looks it up under the normalised target name (`DeployName`), a function's name depends
on provider and family except on Cloud Run (`Function`). Names are abstract:
`DeployedAs` and `HostName` tell what becomes of a target's name (it is normalised; then
Cloud Run replaces `_` by `-`, AgentCore `-` by `_`), `FunctionNamed` what its function
is called, `OwnNames` whether a project's targets stay apart in that. A function has the
memory of its configuration, on Lambda between its bounds (`MemoryOf`), while the URL
map and the prices keep the configured figure. Each request that another job could come
before is a step: filling a directory and building from it, pushing, replacing code and
configuration (two steps on Lambda), waiting for a runtime (`Poll`, `GiveUp`), asking
for the URL. Errors of Function Compute are swallowed (`CreateSwallowed`, `NoUrl`).
`disturbed` is a history variable: the projects and providers with whose names another
one has interfered since their build. A call of a run is answered by whatever the
function holds then.

## 3. Runs

Bounds are the sets in the MC modules; a "world" there is one configuration of
constants, chosen in `Init`, so one run covers many.

| Run | Question | Result |
|---|---|---|
| `replay` | do locks, order, arguments and the abstract DAG hold in every interleaving, does every replay end, is every ready node submitted? | pass |
| `faas_state` | is a tool call atomic for its session on every store, with losses, storages that fail or are missing, and recycling, and does a replay get through its cleanup? | pass |
| `state_claims` | does anything that is said of a function's state hold with tools that change containers in place, a storage that cannot be opened and a uid with a dot? | violated |
| `mcp_session` | are answered effects visible, does the snapshot arrive in the one session used, does every call end? | pass |
| `session_claims` | does anything that is said of sessions hold of concurrent calls on AgentCore? | violated |
| `run_lifecycle` | what does a run guarantee when it returns and leave behind when it fails? | pass |
| `run_claims` | does a run fail for its own faults only, or end before its cleanup? | violated |
| `collection` | is every session priced once, does the wait keep to its deadline, does each call get its own records? | pass |
| `breakdown_claims` | are breakdowns joined where the time model says so? | violated |
| `pipeline` | is each tool use routed once, do calls reach their own tools, are functions listed, does every command end? | pass |
| `timing` | do tracks, phases, rows and charges fit the times that events had? | pass |
| `app_time_claims` | is the application time that from a request's start to its end, or is the end that of its tool? | violated |

Each violated run but one is about a disjunction: of several things that the documents
say, one at least holds in every state. That is less than the documents say, and its
counterexample is one behaviour that refutes all of them. `breakdown_claims` is a
conjunction over two providers, and its counterexample is on one of them; either has one.

Three more configurations are beside them, for disagreements that no such behaviour has
in common with the others; TLC finds each of them violated:

    tlc -config MCMcpSessionUnnamed.cfg MCMcpSession   # EffectsVisible
    tlc -config MCPipelineAlike.cfg MCPipeline         # FunctionsApart
    tlc -config MCTimingCharge.cfg MCTiming            # ChargedAsBilled

**Why these bounds.** Replay: four nodes are enough for a diamond, a chain with a
shortcut, parallel edges (twice the same target in one edge list), a cycle that excludes
and one that includes the source; an edge without an input and one with text first, last
and between dictionaries; two domains and the modes `r`, `w`, `rw`, none make every pair
of readers and writers meet; 1 and 32 workers are a pool smaller and larger than the
trace, 0 the clamped value. FaasState: three calls are two that may conflict and one
that meets them or another replay; two instances let a session move; two services and
two uids make every pair of keys that may be confused, and a third uid is one that
`_safe_uid` makes another of; each world runs on each of the three stores where the
store matters. McpSession: three calls to one target is the least at which two
concurrent calls are followed by a third; the second target is there for `session_lock`,
which is shared. RunLifecycle: two runs are enough for the stack of tees to be left in
the wrong order, two seconds to have equal and different artifact names, two services
for a partial seeding and cleanup, a provider with an object store and the gateway
without one. Collection: two concurrent calls get sessions of their own, and a third
that follows one of them meets the race of answers and records; a deadline of two and a
half seconds with an interval of two leaves room for a poll at the start, one before the
deadline, a pause cut short by it and the last poll; an interval of 0 meets the minimal
pause; a query takes up to half a second; the process crashes at most once, as a second
crash would find the same file. Pipeline: one configuration on each of the seven
providers with a failure possible at every command, and eight that the resolution
refuses, each for another check; two jobs' chains (build, deploy, run) one after the
other on each provider, so that each kind of redeployment happens, and interleaved where
they share a file, a benchmark, a service name or none. Two targets are enough for a
deployment that stops between them, and a configuration whose two names become one on
its host; a memory above Lambda's upper bound; two polls for a runtime that settles
before, at and after the last one. Timing: two calls at one MCP server are enough for
the correction by a completed request, and a list cut to one entry loses none that
matters to it; three nodes are enough for lanes to be reused; four time units let calls
be disjoint, nested and overlapping, with a threshold of two and a billing grain of
three on both of whose sides durations fall. One call in every combination of provider,
lost records and lost fields meets every fallback of `Report`.

**What the violations show** (the quotes are in `PROJECT.json`, "findings"):

1. `state_claims`, in one behaviour. (a) Without a snapshot `load_for_tool` hands the
   registered objects the very containers of `_defaults` (`state.py:166-167`, `268`). A
   tool that mutates them (`tensor_workspace/implementation.py:30` does) changes the
   defaults, and the next uid that a warm instance serves starts with them.
   `SessionIsolation` holds for tools that bind new values (`faas_state`). (b) An
   exception of `create_storage` is swallowed (`state.py:54-61`): the calls of that
   instance are answered with success, their state neither restored nor saved. In
   `ImplementsSession` these are steps of the abstract specification, allowed where
   storages fail. (c) The server sanitises the uid in an object's key, seeding and cleaner
   do not: with `--uid run.1` the snapshot is not restored, and what the server saves is
   not deleted, which `LeftoversOfLostCalls` names as its second exception.
2. `session_claims`, on AgentCore. (a) Concurrent first calls of a target each get a
   session, and the client follows the response that came last. For calls in a chain
   `EffectsVisible` and `SeedArrives` do hold (`mcp_session`, and section 5 under
   `InTurn`). (b) A second call is executed before the one that carries the snapshot, or
   that one fails before it is sent, and the session is never given it. (c) What the
   carrier brings goes to a map that no tool of the MCP mode reads
   (`abstract.py:71-75`), although `state.py:27` says that the session's state is in it.
   `SeedArrives` says no more than that the map is set.
3. `run_claims`. (a) Two runs of a pool that do not end in the reverse order of their
   start leave `sys.stdout` on a closed log: another run fails on a print. (b) When the
   replay raised, the end given to the analyzer is the time after the cleanup.
4. `breakdown_claims`. On Lambda the collector fetches the events that contain the
   provider's request id; the breakdown contains the call id only, and is never among
   them. On Function Compute the breakdown is joined, of which the time model says that it
   is not (line 339; a test expects it, `test_analysis_v2.py:412`).
5. `app_time_claims`. (a) A breakdown is printed when the response leaves, not in the
   tool's `finally` (lines 119 and 229 of the time model). (b) A request that begins
   within the threshold of an answered one reports the time since that one's tool ended
   (line 202 of the time model has no such case). `AppTimesTrue` says how far from the
   truth it can be.

And the configurations beside the runs:

* `MCMcpSessionUnnamed`. A response without `Mcp-Session-Id` makes `AgentCoreMCPClient`
  forget its session (`mcp.py:587`): calls one after another do not find each other's
  effects. The comment before it (586) has the id kept where a response has one.
* `MCPipelineAlike`. Targets `a-b` and `a_b` of one configuration pass the check for
  duplicates (`pipeline.py:536`, `614`) and become one service on Cloud Run
  (`gcp/fc.py:27`), one runtime on AgentCore (`Agentcore.py:46`).
* `MCTimingCharge`. A Lambda call is charged for its billed duration and its
  initialisation (`pricing.py:130-131`). For container images, the only ones deployed,
  the former includes the latter, which is then charged twice. `TimesAddUp` bounds the
  charge by that.

Deadlock is checked in every run: `Stopped` is enabled exactly where the program
is over.

## 4. Fairness

* `Replay`: the coordinator and the free workers run (threads of the interpreter),
  and the body of every node ends. For MCP calls that follows from the client's
  timeout (3600 s). `FunctionClient` waits without one, so for FaaS it is an
  assumption about the platform, whose functions have a timeout of their own.
* `FaasState`: the platform gives a waiting call an instance, and an answer that is
  not lost comes back. No fairness on `Recycle`, `LoseResponse`, or faults.
* `McpSession`: weak fairness for each call's own steps, the failures of its
  requests included: a request is answered or fails. `AgentCoreMCPClient` sets no
  timeout, so there it is again an assumption about the service. Python's locks
  are not fair, and the property does not need them to be: a target's opening
  happens at most once per call.
* `RunLifecycle` and `Timing` have safety properties only.
* `Pipeline`: weak fairness for the steps of each job: a command does what it can do
  next. None for `Settle`: a runtime may stay in a transitional state for ever, and
  `CommandsEnd` holds all the same.
* `Collection`: the thread of the analysis runs (`Analysis`), and the process is
  started again after a crash. Nothing is assumed of calls or arrivals: `AnalysisEnds`
  starts at the wait. A wait without a deadline (`ATSUITE_AGENTCORE_USAGE_WAIT_TIMEOUT_S`
  of 0) may last for ever, and the property leaves it out.

The runs `replay`, `faas_state`, `mcp_session` and `pipeline` check their safety
properties under the same fair specifications; fairness adds no state and removes none.

## 5. Proofs

Every invariant and every action property that a passing run checks is a theorem, for
every value of the constants that the modules' assumptions allow; so are the two
refinements. What remains with TLC alone is listed at the end of this section.

Hypotheses that a theorem has beyond the modules' assumptions are named definitions.
They restrict how the program is used, not what it does, and each is needed: without it
the code does not have the property. The worlds of the violated runs, and of the
configurations beside them, are there to show what happens otherwise.

### Replay

`Replay_proofs.tla`: for every set of nodes, domains and replays, from `TraceAssumption`
(nodes are finitely many integers, edges and accesses are of their types) and
`NoDomainAssumption`.

| Theorem | States |
|---|---|
| `Invariance` | `Spec => []IInv` |
| `TypeCorrect` | `[]TypeOK`: no in-degree below 0, pending nodes visited, ... |
| `LockTableCorrect` | `[]TableMatchesPending` |
| `MutualExclusion` | `[]ExclusiveAccess` |
| `DependencyOrder` | `[]SuccessorsAfterSuccess` |
| `ArgumentsArrive` | `[]ArgumentsWhole` |
| `NoStaleLock` | `[]WorkConserving` |
| `CompleteReturn` | `[]ReturnMeansComplete` |
| `Quiescence` | `[]QuietWhenOver` |
| `AtMostOnce` | `ExecutedOnce`, an action property |
| `RefinesDag` | `ImplementsDag`: `Replay` implements `DagExecution` |

None of these is inductive alone. `IInv` adds: `PoolInv`, a submitted node is in the
queue once, or at a worker, or ended; `DegreeInv`, the in-degree of a node is the number
of edges into it, counted with multiplicity, that the coordinator has not walked, and a
reachable node is ready or submitted exactly when that is 0; `PendingExclusive`,
uncollected calls are pairwise compatible, whether or not they run; `InputsInv`, the
inputs of a node are a merge of those of the edges into it that have been walked;
`ControlInv`, what each place of the coordinator implies. Exclusion then follows because
calls in progress are uncollected; the order because a visited node has degree 0, hence
all its edges delivered, hence its predecessors collected with success; the arguments
because a visited node's inputs are then a merge of all edges into it (lemma
`MergedKeeps`: one more edge keeps a merge a merge); completeness of a normal return
from both sides: a reachable node that was not executed has a predecessor that was not,
so that these nodes are among the `Stuck` ones, the largest set with that property; and
none of `Stuck` is ever submitted (lemma `StuckUnvisited`), as the first one would have
had a predecessor collected before it. In an acyclic trace `Stuck` is empty.
`NoStaleLock` rests on the table being exact (`LockTableCorrect`): counts of readers are
cardinalities of sets of pending nodes, and the lemmas about `Acquire` and `Release` are
steps of those cardinalities by one.

For the refinement, the abstract execution begins a node where the coordinator submits
it (`SubmitStarts`), ends it where its worker does (`EndNodeEnds`), and is over where
the worker threads are joined (`JoinWorkersIsOver`); every other step changes nothing
of it. The guards of the abstract steps are `DependencyOrder`, `PendingExclusive` and
`CompleteReturn` seen from outside.

`TypeCorrect`, `LockTableCorrect`, `Quiescence` and `AtMostOnce` are about formulas
that no run lists by themselves: `replay` checks `IInv`, which holds the first two as
conjuncts and implies the third.

### FaasState

`FaasState_proofs.tla` and `FaasSession_proofs.tla`: for every set of calls, services,
instances and replays, from `DeploymentAssumption` and what the theorems name.

| Theorem | States | Assumes |
|---|---|---|
| `Exclusion` | `[]HInv` | |
| `SavesAlone` | `[]SavesUndisturbed` | `Declared`, `Separate` |
| `Isolation` | `[]SessionIsolation` | `Rebinding`, `UidsApart`, there is an instance |
| `FaasTypeCorrect` | `[]TypeOK` | there is an instance |
| `LeftoversExplained` | `[]LeftoversOfLostCalls` | there is an instance |
| `RefinesSession` | `ImplementsSession`: `FaasState` implements `SessionState` | `Declared`, `Separate`, `SeedsFound`, `Rebinding`, there is an instance |

`Declared`: a call that saves state conflicts, by its declared access, with every other
call of its replay on that state. `Separate`: replays have a uid each, also after
`_safe_uid`, or those of one uid run after each other and lose no response. Both are
needed: the lock table knows declarations only, and a call whose response was lost may
still save when the next replay of its uid begins. `Rebinding`: tools bind attributes to
new values; where they change containers in place isolation fails (run `state_claims`).
`UidsApart`: replays of different uids have different ones also after `_safe_uid`; two
that it makes equal share their objects. `SeedsFound`: `_safe_uid` leaves the uids of
replays that are seeded as they are, without which the abstract session would start from
a snapshot that no call reads. Nothing is assumed of storages: an instance without one
takes a call without its session, a step that the abstract specification has where
storages fail. For exclusion the invariant relates the client's view to the server's: a
call that the server has not finished is uncollected, or its error has been taken and
then its replay submits nothing more. So a new call is tested against every active one,
and active calls of a replay are pairwise compatible (`ActiveInv`). For isolation,
`Isolated` says that an object holds effects of the uid in its key only, that defaults
stay as registered, that an instance executes one call at a time, and that what it holds
meanwhile belongs to that call's uid. Of leftovers, `LeftInv` says who answers for an
object at any moment: a replay that is not over and has its service in `toclean`, or a
stateful call that has written and whose answer is on its way or was lost, or whose uid
the server changed.

For the refinement, `ValueInv` adds to these what a call knows between the requests of
its save: that its instance still holds what it restored and its own effect, that the
object is what it restored until it clears it and empty from then on, unless the replay
that sent it has been over since (an orphan). The session's value is then what the
saving call restored, or what the store holds (`ValueIs`). A call that saves nothing, or
raises, takes effect where its tool runs; one that saves, at the last request of the
save; one whose save fails after clearing, where it fails, with the loss of the value
that the abstract specification allows there. All other requests leave every value as it
is. `SessionState` has the atomic steps; a lemma per action (`...Simulates`) shows which
one it is.

### McpSession

`McpSession_proofs.tla`: for every set of calls, targets and worlds, from `McpAssumption`.

| Theorem | States | Assumes |
|---|---|---|
| `McpTypeCorrect` | `[]TypeOK` | |
| `SessionInvariant` | `[](world.client = "mcp" => SInv)` | |
| `AgentCoreInvariant` | `[](world.client = "agentcore" => AInv)` | `InTurn` |
| `EffectsFound` | `[]EffectsVisible` | `InTurn` |
| `OneSession` | `[]SessionReused` | `InTurn` |
| `SeedDelivered` | `[]SeedArrives` | `InTurn` |

`InTurn`: in a replay with `AgentCoreMCPClient`, of two calls to one target one depends,
through the trace, on the other, and every response names its session. Nothing is
assumed of replays with an `MCPClient`. Both are needed: `SessionReused` fails where
first calls overlap (run `session_claims`), `EffectsVisible` where a response has no
session id (`MCMcpSessionUnnamed`). `SeedDelivered` says that of a target's calls
exactly one carries the snapshot and, if that is executed, every session that executed
one of them has its map set, and no other; not that the snapshot comes first, nor that a
tool reads it, both of which are false. `SInv` adds to the properties: `LockInv`, a
session that is being opened is nobody else's, so no target gets a second one;
`SessionInv`, every request names its target's open session; `EffectInv`, no other
session at the server, such as one left by a failed `initialize`, has any effects;
`BeforeInv`, what a call may expect is in that session and was when its tool looked;
`PrimedInv`, only the open session has a snapshot map set, and each carrier that was
executed has set it. For both clients `CarrierInv` says that each seeded target has
exactly one carrier. `AInv` is the argument for the other client: a call that has begun
has only calls before it that succeeded (`TurnInv`), so a target has one session, the
client knows it unless the call that began it is still unanswered or failed, and every
request names it (`OnlySession`).

### RunLifecycle

`RunLifecycle_proofs.tla`: for every set of runs, services and seconds, from
`LifecycleAssumption`.

| Theorem | States |
|---|---|
| `RunInvariant` | `[]LInv` |
| `LifecycleTypeCorrect` | `[]TypeOK` |
| `LeftoversExplained` | `[]LeftObjects` |
| `ScalingReleased` | `[]ScalingHeld` |
| `EventsSaved` | `[]EventsSurvive` |
| `ReturnMeansWhole` | `[]SuccessIsWhole` |

`LInv` says of each run what is true at its place in `run_trace`: where its snapshots may
be and by which fault (`ObjectInv`), whether its events are saved (`EventInv`), that a run
without an exception on its way out has done what lies behind it (`WholeInv`), and when
scaling configurations may exist (`ScaleInv`). A step of one run keeps its own invariant
and the other runs' (`Keeps`, `Frame`): runs meet in standard output, of which nothing is
needed but that a single run can print, and in the artifacts of a second, which may be
overwritten but never go away. The types need more of the command line (`RestTypes`):
a run has an outcome from its end on, only ended runs are reported, and the cleaner
deletes only what `toclean` names.

### Collection

`Collection_proofs.tla`: for every set of calls and targets and every provider, from
`CollectionAssumption`, with nothing assumed besides.

| Theorem | States |
|---|---|
| `CollectionInvariant` | `[]CInv` |
| `CollectionTypeCorrect` | `[]TypeOK` |
| `WaitKeepsDeadline` | `[]WaitBounded` |
| `SessionsCollected` | `[]SessionsCovered` |
| `UsageNotDoubled` | `[]UsageOnce` |
| `EvidenceOfOwnCall` | `[]EvidenceJoined` |

`CInv` relates three copies of what is known: the client's (`CallInv`: an answered call's
session is the client's own until another answer overtakes it), the recorder's or, after a
crash, the file's (`RecordInv`: each ended call once, with its outcome and its session;
`OpenInv`: sessions recorded at their opening have no id yet), and the rows of the wait.
`WaitInv` bounds the clock by the deadline, the last pause and the queries of the round
that has begun. Rows are built by a loop over the records. That the loop keeps every
session and repeats none is an induction over its rounds; the provers have no induction
on a predicate, but one on a set: lemma `Induction`, that a set which has 0 and with each
number the next has all naturals, follows from cardinalities.

### Timing and Report

`Timing_proofs.tla`: for every set of nodes, places and worlds and every bound on time,
from `TimingAssumption` and `ReportAssumption`, with nothing assumed besides.

| Theorem | States |
|---|---|
| `TimingInvariant` | `[]TInv` |
| `TimingTypeCorrect` | `[]TypeOK` |
| `AppTimesCorrect` | `[]AppTimesTrue` |
| `PhasesTile` | `[]SpansTile` |
| `RowsAddUp` | `[]TimesAddUp` |
| `TracksCorrect` | `[]TracksApart` |

`TInv` says in which order a call's events are (`OrderInv`), what a request's wall clock
and its log hold (`WallInv`, `LogInv`), what the list of completed requests remembers
(`RecentInv`), that a server which runs one tool at a time has done so (`TurnInv`), and
of each printed breakdown that its application time is right (`AppTrue`). Everything the
report says is then arithmetic on the recorded times: `TimedTimes` shows that the times
which `_normalise_breakdown_fields` derives are those of the events, on the wall clock
at the request's entry; `SpansOf` and `MetricTimes` what the timeline and the
aggregation make of them, one provider at a time. `RowsAddUp` bounds a charge by the
client's time, rounded up where the platform rounds; on Lambda by that and one
initialisation, which the code adds to a billed duration that may include it. Lanes are
an induction like that of `Collection`: after each round the intervals of a lane do not
overlap and the lane's end is that of the last (`NextLaneGood`), which the order of the
loop keeps.

### Resolution and Pipeline

`Pipeline_proofs.tla`: for every set of jobs, configurations and worlds, from
`PipelineAssumption` and `ResolutionAssumption`.

| Theorem | States | Assumes |
|---|---|---|
| `ResolutionRoutes` | if `Resolves` accepts a configuration, each tool use has one route, to a target found by its name alone, whose image offers the tool of the node that owns the trace | |
| `RoutedAlways` | `[]ToolUsesRouted` | |
| `PipelineInvariant` | `[]PInv` | |
| `PipelineTypeCorrect` | `[]TypeOK` | |
| `FunctionsAlwaysListed` | `[]FunctionsListed` | |
| `OwnershipInvariant` | `[]OInv` | `InOrder` |
| `OwnToolsReached` | `[]CallsReachOwnTools` | `InOrder` |

The first is pure: uniqueness of names makes the target unique, disjointness of units'
traces or servers' nodes the unit, and disjointness of nodes' traces the node. The
second is an invariant over stages: a job is past `new` and not failed only if its
configuration resolves, which no step changes.

`PipelineAssumption` says of configurations that units, servers and the bindings of a
node are sequences and that nodes have an order, and of worlds what the jobs are; a
configuration need not resolve. `PInv` follows the names: where a job is and what it has
listed (`PlaceInv`, `EntriesInv`), that each image in a registry was built and each
function is a target of a deployment that has begun (`ImagesInv`, `CloudInv`), that a
URL map is that of a deployment which is done and lists functions that exist
(`UrlsInv`), and that a deployment which is done has its targets in the map, unless
another project or provider shares that file (`DoneInv`). `FunctionsListed` is the last
two seen from a function: its maker has stopped half way, is on the way, or has listed
it.

`OInv` says that what a job finds under its names is its own, as long as nobody else has
written there (`disturbed`): directories and images of its build (`BuiltAt`), what is
pushed (`PushedAt`), functions (`OwnInv`), the entries of its URL map (`ListedAt`), and
at last the answers of its calls (`CallsAt`). Each step is a job's own write, which
gives what is claimed (`ImageBuilt`, `PushGives`, `WriteGives`, `CallGives`), or another
job's, which either leaves the names alone or marks them disturbed (`StoreStep`,
`Undisturbed`). Only a build clears that mark, and its key has nothing built by then
(`CalmBefore`, `NotBegun`). That is what `InOrder` is for: a project is built once for a
provider, deployed after that build, and run after a deployment, the order of the basic
workflow (`src/README.md:92`). A second build would clear the mark while functions of
another project still stand under the names. The property itself leaves out projects
without `OwnNames`: images are tagged with a target's name and looked up under the
normalised one, so that a target `a.b` would be deployed with the image of a target
`a_b` of its own project, and hosts make forms of their own, of which `a-b` and `a_b`
have one (`MCPipelineAlike`); of neither any mark tells. Of memory it says that a
function has what its URL map tells, on Lambda within Lambda's bounds; the URL map keeps
the figure of the configuration.

### Only model-checked

* Liveness, out of this prover's reach as is all that rests on fairness: `Terminates` and
  `ReadyIsSubmitted` (run `replay`), `CleanupHappens` (`faas_state`), `CallsEnd`
  (`mcp_session`), `AnalysisEnds` (`collection`), `CommandsEnd` (`pipeline`).
* The counterexamples: what the violated runs refute is no theorem. `SessionReused`, which
  one of them refutes, is one under `InTurn`, `SessionIsolation` under `Rebinding` and
  `UidsApart`.
* The bounds of the models themselves, such as one crash in `Collection` or one change of
  the wall clock in `Timing`, which the theorems share with the runs.

## 6. Plan

All modules of the plan exist, and their safety properties are proved. Open:

1. **Weaker hypotheses.** `InOrder` allows one build of a project for a provider. With
   rebuilds `disturbed` would have to be kept per name and not per project, so that a
   build clears only what it has replaced.
2. **Fixed uid in a pool** (`--uid-mode fixed`): a property that holds of concurrent runs
   under one uid would have to be found first; the hazard is listed.
3. **SlsPaging**: `getbreakdownlogs` (`ali/sls.py:371-415`). It would need a statement
   of what the service promises about pages that are incomplete; the code has none.

## 7. What is not modelled, and why

* Durations (edge intervals, node times), but for the wait of `Collection` and the
  times of `Timing`: only the order they allow matters, and all orders are allowed.
* Keys of edge parameters. Where two edges bring the same key the order decides, and
  the first input is updated in place: as `resolve_benchmark` is cached, the trace
  keeps the update for later runs of the process. `ArgumentsWhole` speaks of whose
  inputs arrive.
* Paging of log queries, X-Ray and span queries (the latter two have no caller in the
  collectors).
* Rates, sums over nodes, storage charges; memory and processor figures.
* Time windows of log queries and diagnostics. The fields of a log record are in
  `Report` as far as they are times; in `Collection` a record is its call and its kind.
* Values of tools, arguments and responses; JSON conversion; request signing; the
  wording of logs. No property is about them.
* Attributes that a tool adds to a registered object after its registration:
  `_apply_object_state` sets what the snapshot or the defaults name and resets
  nothing else (`state.py:267`). `FaasState` assumes that tools keep their state in
  attributes that exist at registration.
* Session files of the SDK: they follow the registered objects' path.
* Roles, permissions, repositories, the text of Dockerfiles and requirements, command
  line options of the resolution; the trace viewer, a static file server.
* The execution of a storage request after its client has given it up. `SaveUnanswered`
  is one that is executed before the error is raised.
* The form of the uid in `RunLifecycle`: it takes cleanup to delete what the run wrote.
  What `_safe_uid` does to that is in `FaasState`.
* Records of a Lambda initialisation that timed out (a second REPORT line), and the price
  of a call without a REPORT line, which takes the configured memory, clamped from below
  only (`pricing.py:132`).
* Tool tracks of a target with several instances: the timeline draws the tools of all of
  them on one track (`timeline.py:610`), where they may overlap. `TracksApart` is about one
  server process.
* Letters of two cases in names, which some hosts fold.
* Tools of the benchmarks: user code of the SDK. What matters of it is a parameter.
* Concurrent runs under one uid (`--uid-mode fixed`): each run has a lock table of
  its own, so nothing excludes their calls from each other; the hazard is listed.
