------------------------------ MODULE Pipeline ------------------------------
(***************************************************************************)
(* From a benchmark configuration to the calls of a replay: the commands   *)
(* that build images, deploy targets and start runs, as jobs of one user   *)
(* on one machine and one account per cloud.                               *)
(*                                                                         *)
(* Jobs share the directories of dist/, the local images, the registries,  *)
(* the clouds' functions and the files of url_results/, all of them by     *)
(* name (atsuite/cli/build_docker_images.py, atsuite/deploy.py and the     *)
(* deployers of each provider, atsuite/invoker.py).  Clouds, registries    *)
(* and docker are external.  The images of MCP-Gateway are pushed by the   *)
(* user as soon as they are built.                                         *)
(***************************************************************************)
EXTENDS Resolution, FiniteSets

CONSTANTS
  Jobs,
  Projects,  (* Configuration files.                                       *)
  None,
  Norm,      (* normalize_node_name: no dots; names are in lower case.     *)
  ServiceName, RuntimeName,  (* What Cloud Run and AgentCore make of names. *)
  MaxPolls,  (* Polls of a runtime before its deployment times out.        *)
  Worlds

Providers == {"ali_fc", "aws_lambda", "gcp_faas", "ali_agentrun",
              "aws_agentcore", "gcp_mcp", "mcp_gateway"}

\* A world gives each project its configuration, and each job its command,
\* project and provider, and the jobs after whose success the user runs it.
ASSUME PipelineAssumption ==
  /\ MaxPolls \in Nat
  /\ \A w \in Worlds :
       /\ w.jobs \subseteq Jobs
       /\ w.command  \in [Jobs -> {"build", "deploy", "run"}]
       /\ w.project  \in [Jobs -> Projects]
       /\ w.provider \in [Jobs -> Providers]
       /\ w.after    \in [Jobs -> SUBSET Jobs]
       /\ \A p \in Projects :
            LET c == w.config[p] IN
            /\ \A family \in Families : Units(c, family) \in Seq(Range(Units(c, family)))
            /\ \A n \in DOMAIN c.bindings : /\ c.bindings[n] \in Seq(Range(c.bindings[n]))
                                             /\ w.order[n] \in Nat
       /\ w.faulty   \in BOOLEAN  \* commands and cloud requests may fail

VARIABLES
  world,
  stage,     (* Where each job is.                                         *)
  at,        (* The target, or the tool use, that it is at.                *)
  polls,     (* Its polls of that target's runtime.                        *)
  entries,   (* endpoint_cache: the endpoints that a deployment has found. *)
  answers,   (* What each tool use of a run was answered by.               *)
  dist,      (* The build directories.                                     *)
  images,    (* The local images, by tag.                                  *)
  registry,  (* The pushed images, by registry and tag.                    *)
  cloud,     (* The functions, by host and name.                           *)
  urlMap,    (* The files of url_results/.                                 *)
  disturbed  (* Projects and providers with whose names another one's jobs *)
             (* have interfered since their last build began.              *)

jobVars == <<stage, at, polls, entries, answers>>
stores == <<dist, images, registry, cloud, urlMap>>
vars == <<world, jobVars, stores, disturbed>>

-----------------------------------------------------------------------------

Family(p) ==
  IF p \in {"ali_fc", "aws_lambda", "gcp_faas"} THEN "faas" ELSE "session"

\* What has function names of its own: on Function Compute a suffix tells
\* functions from servers, on Cloud Run nothing does.
Host(p) == CASE p = "aws_lambda"    -> "lambda"
             [] p = "aws_agentcore" -> "agentcore"
             [] p = "mcp_gateway"   -> "gateway"
             [] p \in {"gcp_faas", "gcp_mcp"} -> "cloudrun"
             [] OTHER -> p

Registry(p) == CASE p \in {"aws_lambda", "aws_agentcore"} -> "ecr"
                 [] p \in {"gcp_faas", "gcp_mcp"} -> "gcr"
                 [] OTHER -> "dockerhub"

Config(j)   == world.config[world.project[j]]
Provider(j) == world.provider[j]
OnAli(j)    == Provider(j) \in {"ali_fc", "ali_agentrun"}
FamilyOf(j) == Family(Provider(j))
File(j)     == Config(j).file

TargetsOf(j) == DOMAIN Units(Config(j), FamilyOf(j))
Target(j)    == TargetAt(Config(j), FamilyOf(j), at[j])
Deploy(j)    == RuntimeOf(Units(Config(j), FamilyOf(j))[at[j]].deploy)
Manifest(j)  == ManifestAt(Config(j), FamilyOf(j), at[j])

Directory(j) == <<Config(j).bench, Target(j)>>

\* Variant: without the benchmark's name.
BareTag(j, name) == <<FamilyOf(j), None, name>>

Tag(j, name) == <<FamilyOf(j), Config(j).bench, name>>

\* The gateway is given the tag of the build and the target's own name.
DeployedAs(p, name) == IF p = "mcp_gateway" THEN name ELSE Norm[name]

\* _cloud_run_service_name, and the runtime_name of AWSAgentCore.
HostName(p, name) == CASE Host(p) = "cloudrun"  -> ServiceName[name]
                       [] Host(p) = "agentcore" -> RuntimeName[name]
                       [] OTHER -> name

DeployName(j) == DeployedAs(Provider(j), Target(j))

FunctionNamed(p, name) == <<Host(p), HostName(p, DeployedAs(p, name))>>

Pushed(j)   == <<Registry(Provider(j)), Tag(j, DeployName(j))>>
Function(j) == FunctionNamed(Provider(j), Target(j))

At(f, x) == IF x \in DOMAIN f THEN f[x] ELSE None
Put(f, x, v) == [y \in DOMAIN f \cup {x} |-> IF y = x THEN v ELSE f[y]]

\* What a target's files and its image are made from.
Files(j)  == [project |-> world.project[j], family |-> FamilyOf(j),
              provider |-> Provider(j), index |-> at[j]]
Image(files, p) == [files |-> files, provider |-> p]

\* The memory that a function gets: Lambda's is clamped, AgentCore's is not
\* ours to choose.
Lowest  == 128
Highest == 10240
Clamped(memory) == CASE memory < Lowest  -> Lowest
                     [] memory > Highest -> Highest
                     [] OTHER            -> memory

MemoryOf(p, memory) == CASE p = "aws_lambda"    -> Clamped(memory)
                         [] p = "aws_agentcore" -> 0
                         [] OTHER               -> memory

Memory(j) == MemoryOf(Provider(j), Deploy(j)["memory"])

\* What the URL map says of it is what the configuration says, not clamped.
Entry(j) == [function |-> Function(j), memory |-> Deploy(j)["memory"],
             tools |-> Manifest(j)]

-----------------------------------------------------------------------------
(* Interference. *)

Key(j) == <<world.project[j], Provider(j)>>

Targets(j) == TargetNames(Config(j), FamilyOf(j))

\* The names of a job's directories and images, and of its functions.
Names(j)     == Targets(j) \cup { DeployedAs(Provider(j), t) : t \in Targets(j) }
Functions(j) == { FunctionNamed(Provider(j), t) : t \in Targets(j) }

\* Jobs of different projects or providers that share a name.
Clash(j, k) ==
  /\ Key(j) # Key(k)
  /\ \/ File(j) = File(k)
     \/ Config(j).bench = Config(k).bench /\ Names(j) \cap Names(k) # {}
     \/ Functions(j) \cap Functions(k) # {}

Disturb(j) ==
  disturbed' = disturbed \cup { Key(k) : k \in { k \in world.jobs : Clash(j, k) } }

-----------------------------------------------------------------------------

Init ==
  /\ world \in Worlds
  /\ stage = [j \in Jobs |-> "new"]
  /\ at = [j \in Jobs |-> 1]
  /\ polls = [j \in Jobs |-> 0]
  /\ entries = [j \in Jobs |-> <<>>]
  /\ answers = [j \in Jobs |-> <<>>]
  /\ dist = <<>> /\ images = <<>> /\ registry = <<>> /\ cloud = <<>>
  /\ urlMap = <<>>
  /\ disturbed = {}

Is(j, command, s) == world.command[j] = command /\ stage[j] = s

AtTarget(j, command, s) == Is(j, command, s) /\ at[j] \in TargetsOf(j)

Enter(j, s) ==
  /\ stage' = [stage EXCEPT ![j] = s]
  /\ UNCHANGED <<world, at>>

NextTarget(j) ==
  /\ stage' = [stage EXCEPT ![j] = "work"]
  /\ at' = [at EXCEPT ![j] = @ + 1]
  /\ polls' = [polls EXCEPT ![j] = 0]
  /\ UNCHANGED world

\* A command starts by resolving its configuration; a build starts afresh.
Begin(j) ==
  /\ stage[j] = "new"
  /\ \A k \in world.after[j] : stage[k] = "done"
  /\ Enter(j, IF Resolves(Config(j), FamilyOf(j)) THEN "work" ELSE "failed")
  /\ disturbed' = IF world.command[j] = "build" THEN disturbed \ {Key(j)}
                  ELSE disturbed
  /\ UNCHANGED <<polls, entries, answers, stores>>

\* A docker command or a request that raises ends a build or a deployment;
\* so does a tag that no image has.
Fail(j) ==
  /\ world.command[j] # "run"
  /\ stage[j] \in {"work", "copied", "pushed", "coded", "placed"}
  /\ at[j] \in TargetsOf(j)
  /\ \/ world.faulty /\ (OnAli(j) => stage[j] \in {"work", "copied"})
     \/ /\ Is(j, "deploy", "work")
        /\ IF Provider(j) = "mcp_gateway" THEN Pushed(j) \notin DOMAIN registry
           ELSE Pushed(j)[2] \notin DOMAIN images
  /\ Enter(j, "failed")
  /\ UNCHANGED <<polls, entries, answers, stores, disturbed>>

(* build_resolved_targets *)

\* The target's directory is emptied and filled.
Prepare(j) ==
  /\ AtTarget(j, "build", "work")
  /\ dist' = Put(dist, Directory(j), Files(j))
  /\ Disturb(j)
  /\ Enter(j, "copied")
  /\ UNCHANGED <<polls, entries, answers, images, registry, cloud, urlMap>>

\* The image is built from what the directory holds by then.
DockerBuild(j) ==
  LET image == Image(dist[Directory(j)], Provider(j))
      tag == Tag(j, Target(j))
  IN  /\ AtTarget(j, "build", "copied")
      /\ images' = Put(images, tag, image)
      /\ registry' = IF Provider(j) = "mcp_gateway"
                     THEN Put(registry, <<"dockerhub", tag>>, image)
                     ELSE registry
      /\ Disturb(j)
      /\ NextTarget(j)
      /\ UNCHANGED <<entries, answers, dist, cloud, urlMap>>

Built(j) ==
  /\ Is(j, "build", "work") /\ at[j] \notin TargetsOf(j)
  /\ Enter(j, "done")
  /\ UNCHANGED <<polls, entries, answers, stores, disturbed>>

(* deploy *)

Push(j) ==
  /\ AtTarget(j, "deploy", "work") /\ Provider(j) # "mcp_gateway"
  /\ Pushed(j)[2] \in DOMAIN images
  /\ registry' = Put(registry, Pushed(j), images[Pushed(j)[2]])
  /\ Disturb(j)
  /\ Enter(j, "pushed")
  /\ UNCHANGED <<polls, entries, answers, dist, images, cloud, urlMap>>

Ours(j, status) ==
  [image |-> registry[Pushed(j)], memory |-> Memory(j), status |-> status,
   maker |-> Key(j)]

\* Created with its resources, or replaced with them by Cloud Run; the
\* runtime of AgentCore is not ready yet.
PlaceFunction(j) ==
  /\ AtTarget(j, "deploy", "pushed")
  /\ Function(j) \in DOMAIN cloud => Host(Provider(j)) \in {"cloudrun", "agentcore"}
  /\ cloud' = Put(cloud, Function(j),
                  Ours(j, IF Provider(j) = "aws_agentcore" THEN "settling" ELSE "ready"))
  /\ Disturb(j)
  /\ Enter(j, "placed")
  /\ UNCHANGED <<polls, entries, answers, dist, images, registry, urlMap>>

\* An existing Lambda function gets its code first, then its resources.
UpdateCode(j) ==
  /\ AtTarget(j, "deploy", "pushed") /\ Provider(j) = "aws_lambda"
  /\ Function(j) \in DOMAIN cloud
  /\ cloud' = [cloud EXCEPT ![Function(j)].image = registry[Pushed(j)]]
  /\ Disturb(j)
  /\ Enter(j, "coded")
  /\ UNCHANGED <<polls, entries, answers, dist, images, registry, urlMap>>

UpdateConfiguration(j) ==
  /\ AtTarget(j, "deploy", "coded")
  /\ cloud' = [cloud EXCEPT ![Function(j)].memory = Memory(j)]
  /\ Disturb(j)
  /\ Enter(j, "placed")
  /\ UNCHANGED <<polls, entries, answers, dist, images, registry, urlMap>>

\* create_function of Function Compute swallows every error, the one that
\* the function exists among them.
CreateSwallowed(j) ==
  /\ AtTarget(j, "deploy", "pushed") /\ OnAli(j)
  /\ Function(j) \in DOMAIN cloud \/ world.faulty
  /\ Enter(j, "placed")
  /\ UNCHANGED <<polls, entries, answers, stores, disturbed>>

\* Variant: the time waited is not counted.
PollForever(j) ==
  /\ AtTarget(j, "deploy", "placed") /\ Provider(j) = "aws_agentcore"
  /\ cloud[Function(j)].status = "settling"
  /\ UNCHANGED vars

\* Variant: one poll too many.
PollMore(j) ==
  /\ AtTarget(j, "deploy", "placed") /\ Provider(j) = "aws_agentcore"
  /\ cloud[Function(j)].status = "settling" /\ polls[j] <= MaxPolls
  /\ polls' = [polls EXCEPT ![j] = @ + 1]
  /\ UNCHANGED <<world, stage, at, entries, answers, stores, disturbed>>

\* _wait_for_runtime_active: a poll that finds the runtime neither ready nor
\* failed; one that finds it failed, or one too many, raises.
Poll(j) ==
  /\ AtTarget(j, "deploy", "placed") /\ Provider(j) = "aws_agentcore"
  /\ cloud[Function(j)].status = "settling" /\ polls[j] < MaxPolls
  /\ polls' = [polls EXCEPT ![j] = @ + 1]
  /\ UNCHANGED <<world, stage, at, entries, answers, stores, disturbed>>

GiveUp(j) ==
  /\ AtTarget(j, "deploy", "placed") /\ Provider(j) = "aws_agentcore"
  /\ \/ cloud[Function(j)].status = "settling" /\ polls[j] = MaxPolls
     \/ cloud[Function(j)].status = "failed"
  /\ Enter(j, "failed")
  /\ UNCHANGED <<polls, entries, answers, stores, disturbed>>

Settle(f) ==
  /\ cloud[f].status = "settling"
  /\ \E s \in {"ready"} \cup (IF world.faulty THEN {"failed"} ELSE {}) :
       cloud' = [cloud EXCEPT ![f].status = s]
  /\ UNCHANGED <<world, jobVars, dist, images, registry, urlMap, disturbed>>

\* Variant: whether or not the runtime is ready and the function there.
FindUrlAnyway(j) ==
  /\ AtTarget(j, "deploy", "placed")
  /\ entries' = [entries EXCEPT ![j] = Put(@, Target(j), Entry(j))]
  /\ NextTarget(j)
  /\ UNCHANGED <<answers, stores, disturbed>>

\* The URL of the function's endpoint, trigger or service.
FindUrl(j) ==
  /\ AtTarget(j, "deploy", "placed")
  /\ Function(j) \in DOMAIN cloud
  /\ cloud[Function(j)].status = "ready"
  /\ entries' = [entries EXCEPT ![j] = Put(@, Target(j), Entry(j))]
  /\ NextTarget(j)
  /\ UNCHANGED <<answers, stores, disturbed>>

\* create_trigger of Function Compute swallows errors too: without a URL the
\* target is passed over.
NoUrl(j) ==
  /\ AtTarget(j, "deploy", "placed") /\ OnAli(j)
  /\ Function(j) \notin DOMAIN cloud \/ world.faulty
  /\ NextTarget(j)
  /\ UNCHANGED <<entries, answers, stores, disturbed>>

\* GatewayClient.register_target: the gateway pulls the image and serves it.
Register(j) ==
  /\ AtTarget(j, "deploy", "work") /\ Provider(j) = "mcp_gateway"
  /\ Pushed(j) \in DOMAIN registry
  /\ cloud' = Put(cloud, Function(j), Ours(j, "ready"))
  /\ entries' = [entries EXCEPT ![j] = Put(@, Target(j), Entry(j))]
  /\ Disturb(j)
  /\ NextTarget(j)
  /\ UNCHANGED <<answers, dist, images, registry, urlMap>>

WriteUrlMap(j) ==
  /\ Is(j, "deploy", "work") /\ at[j] \notin TargetsOf(j)
  /\ urlMap' = Put(urlMap, File(j),
                   [key |-> Key(j), provider |-> Provider(j), entries |-> entries[j]])
  /\ Disturb(j)
  /\ Enter(j, "done")
  /\ UNCHANGED <<polls, entries, answers, dist, images, registry, cloud>>

(* run_trace *)

\* The URL map must be of the provider, and have all targets.
Connect(j) ==
  LET m == At(urlMap, File(j)) IN
  /\ Is(j, "run", "work")
  /\ IF /\ m # None
        /\ m.provider = Provider(j)
        /\ TargetNames(Config(j), FamilyOf(j)) \subseteq DOMAIN m.entries
     THEN Enter(j, "calling") /\ entries' = [entries EXCEPT ![j] = m.entries]
     ELSE Enter(j, "failed") /\ UNCHANGED entries
  /\ UNCHANGED <<polls, answers, stores, disturbed>>

Route(j, t) == CHOOSE r \in RoutesOf(Config(j), FamilyOf(j), t) : TRUE

\* Of several nodes that register a tool, the one imported last has it.
Implementer(files, tool) ==
  LET c == world.config[files.project]
      ns == { n \in NodesAt(c, files.family, files.index) :
                \E b \in Range(c.bindings[n]) : b.tool = tool }
  IN  IF tool \in ManifestAt(c, files.family, files.index)
      THEN CHOOSE n \in ns : \A m \in ns : world.order[m] <= world.order[n]
      ELSE None

\* What executes a tool use: an endpoint without a function or with one of
\* the other family fails the run, and so does a function without the tool;
\* an MCP server without it answers with an error that is only logged.
Call(j, t) ==
  LET r == Route(j, t)
      e == entries[j][r.target]
      f == At(cloud, e.function)
      node == Implementer(f.image.files, r.tool)
  IN  /\ Is(j, "run", "calling") /\ t \in Config(j).trace \ DOMAIN answers[j]
      /\ IF \/ f = None \/ f.image.files.family # FamilyOf(j)
            \/ FamilyOf(j) = "faas" /\ node = None
         THEN Enter(j, "failed") /\ UNCHANGED answers
         ELSE /\ answers' = [answers EXCEPT ![j] =
                   Put(@, t, [image |-> f.image, node |-> node,
                              maker |-> f.maker, memory |-> f.memory])]
              /\ UNCHANGED <<world, stage, at>>
      /\ UNCHANGED <<polls, entries, stores, disturbed>>

Replayed(j) ==
  /\ Is(j, "run", "calling") /\ DOMAIN answers[j] = Config(j).trace
  /\ Enter(j, "done")
  /\ UNCHANGED <<polls, entries, answers, stores, disturbed>>

\* No job has anything left to do.
Over == \A j \in world.jobs :
  \/ stage[j] \in {"done", "failed"}
  \/ stage[j] = "new" /\ \E k \in world.after[j] : stage[k] # "done"

Build(j) == Prepare(j) \/ DockerBuild(j) \/ Built(j)

DeployTarget(j) ==
  \/ Push(j) \/ PlaceFunction(j) \/ UpdateCode(j) \/ UpdateConfiguration(j)
  \/ CreateSwallowed(j) \/ Poll(j) \/ GiveUp(j) \/ FindUrl(j) \/ NoUrl(j)
  \/ Register(j) \/ WriteUrlMap(j)

Run(j) == Connect(j) \/ Replayed(j) \/ \E t \in Config(j).trace : Call(j, t)

Step(j) == Begin(j) \/ Fail(j) \/ Build(j) \/ DeployTarget(j) \/ Run(j)

Next ==
  \/ \E j \in world.jobs : Step(j)
  \/ \E f \in DOMAIN cloud : Settle(f)
  \/ Over /\ UNCHANGED vars

Spec == Init /\ [][Next]_vars

FairSpec == Spec /\ \A j \in Jobs : WF_vars(j \in world.jobs /\ Step(j))

-----------------------------------------------------------------------------

Stages == {"new", "work", "copied", "pushed", "coded", "placed", "calling",
           "done", "failed"}

\* Every variable has its type, and what is recorded names what there is: the
\* local image of every push, the writer's target of every entry.
TypeOK ==
  /\ world \in Worlds
  /\ stage \in [Jobs -> Stages]
  /\ \A j \in Jobs :
       /\ polls[j] \in 0 .. MaxPolls
       /\ stage[j] \in {"copied", "pushed", "coded", "placed"} => at[j] \in TargetsOf(j)
       /\ stage[j] = "coded" => Provider(j) = "aws_lambda"
       /\ world.command[j] # "run" =>
            DOMAIN entries[j] \subseteq
              { TargetAt(Config(j), FamilyOf(j), i) : i \in 1 .. at[j] - 1 }
  /\ \A r \in DOMAIN registry : r[2] \in DOMAIN images
  /\ \A f \in DOMAIN cloud :
       /\ f[1] \in { Host(p) : p \in Providers }
       /\ cloud[f].status = "settling" => f[1] = "agentcore"

\* A command that has got past the resolution routes each tool use to exactly
\* one target, whose image offers the tool of the node that owns the trace
\* (the checks of resolve_benchmark and of _resolve_faas_targets,
\* _resolve_mcp_targets).
ToolUsesRouted ==
  \A j \in world.jobs :
    stage[j] \notin {"new", "failed"} => Routed(Config(j), FamilyOf(j))

\* The URL map of a deployment lists all its targets (on Function Compute,
\* those for which it found a URL), each with a function that exists; and a
\* function is missing in all URL maps only if a deployment stopped half-way,
\* found no URL for it or lost its file to another project or provider
\* (deploy, write_url_map).
FunctionsListed ==
  LET lists(f) == \E m \in Range(urlMap) : \E e \in Range(m.entries) : e.function = f
      stray(j) == \/ stage[j] \notin {"new", "done"} \/ OnAli(j)
                  \/ \E k \in world.jobs : Key(j) # Key(k) /\ File(j) = File(k)
  IN  /\ \A file \in DOMAIN urlMap : \E j \in world.jobs :
           LET m == urlMap[file] IN
           /\ Is(j, "deploy", "done") /\ Key(j) = m.key /\ File(j) = file
           /\ ~OnAli(j) => DOMAIN m.entries = TargetNames(Config(j), FamilyOf(j))
           /\ \A e \in Range(m.entries) : e.function \in DOMAIN cloud
      /\ \A f \in DOMAIN cloud : lists(f) \/
           \E j \in world.jobs : world.command[j] = "deploy" /\ Key(j) = cloud[f].maker /\ stray(j)

\* No two nodes of a target have a tool of the same name.
ToolsApart(j) ==
  LET c == Config(j) IN
  \A i \in TargetsOf(j) : \A m, n \in NodesAt(c, FamilyOf(j), i) :
    m # n => { b.tool : b \in Range(c.bindings[m]) }
               \cap { b.tool : b \in Range(c.bindings[n]) } = {}

\* Each target is deployed under the name it was built under, and no two of a
\* configuration as one function.
OwnNames(j) ==
  \A s, t \in Targets(j) :
    /\ DeployedAs(Provider(j), t) = t
    /\ FunctionNamed(Provider(j), s) = FunctionNamed(Provider(j), t) => s = t

\* The calls of a run are executed by what was built and deployed for its
\* project and provider, and with the memory that its URL map gives, on Lambda
\* within Lambda's bounds, as long as no job of another one that shares a name
\* has interfered since the build; if normalising leaves the targets' names
\* alone and apart; on Function Compute, if the deployment created the
\* function (build_resolved_targets, deploy, the deployers, run_trace).
CallsReachOwnTools ==
  \A j \in world.jobs :
    world.command[j] = "run" /\ Key(j) \notin disturbed /\ ToolsApart(j) /\ OwnNames(j) =>
      \A t \in DOMAIN answers[j] :
        LET r == Route(j, t)
            a == answers[j][t]
            e == entries[j][r.target]
        IN  (OnAli(j) => a.maker = Key(j)) =>
              /\ a.node = r.node
              /\ a.image.provider = Provider(j)
              /\ <<a.image.files.project, a.image.files.provider>> = Key(j)
              /\ TargetAt(Config(j), FamilyOf(j), a.image.files.index) = r.target
              /\ a.memory = MemoryOf(Provider(j), e.memory)

\* Each target of a URL map has a function of its own: a "Duplicate FaaS
\* target" or a "Duplicate MCP server" is refused (src/atsuite/pipeline.py:536
\* and 614), but by the names before the hosts have made theirs of them.
FunctionsApart ==
  \A file \in DOMAIN urlMap :
    LET es == urlMap[file].entries IN
    \A s, t \in DOMAIN es : es[s].function = es[t].function => s = t

\* Every command ends, whatever state an AgentCore runtime stays in
\* (_wait_for_runtime_active).
CommandsEnd ==
  \A j \in Jobs :
    [](j \in world.jobs /\ stage[j] # "new" => <>(stage[j] \in {"done", "failed"}))

=============================================================================
