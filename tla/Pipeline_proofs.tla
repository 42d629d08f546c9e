-------------------------- MODULE Pipeline_proofs --------------------------
(***************************************************************************)
(* Theorems about Resolution and Pipeline: a resolution that succeeds      *)
(* routes every tool use, whatever the configuration, and every command    *)
(* that works on one has been through such a resolution; URL maps list     *)
(* what there is; and calls reach what was built for them.                 *)
(***************************************************************************)
EXTENDS Pipeline, FiniteSetTheorems, TLAPS

\* A trace has one way at most: its node is unique by the check of
\* resolve_benchmark, its unit or server by those of the two resolvers.
LEMMA OneWay ==
  ASSUME NEW c, NEW family, NEW t, Resolves(c, family),
         NEW p \in Ways(c, family, t), NEW q \in Ways(c, family, t)
  PROVE  p = q
<1>1. /\ p[1] \in DOMAIN Units(c, family) /\ q[1] \in DOMAIN Units(c, family)
      /\ p[2] \in DOMAIN c.bindings /\ q[2] \in DOMAIN c.bindings
      /\ p = <<p[1], p[2]>> /\ q = <<q[1], q[2]>>
  BY DEF Ways
<1>2. p[2] = q[2]
  BY <1>1 DEF Ways, Resolves, NodesValid
<1>3. p[1] = q[1]
  <2>1. CASE family = "faas"
    <3>1. /\ t \in Range(c.units[p[1]].traces)
          /\ t \in Range(c.units[q[1]].traces)
      BY <2>1 DEF Ways, TracesAt
    <3> QED
      BY <1>1, <2>1, <3>1 DEF Resolves, UnitsValid, Units
  <2>2. CASE family # "faas"
    <3>1. /\ p[2] \in Range(c.servers[p[1]].nodes)
          /\ q[2] \in Range(c.servers[q[1]].nodes)
      BY <2>2 DEF Ways, NodesAt
    <3> QED
      BY <1>1, <1>2, <2>2, <3>1 DEF Resolves, ServersValid, Units
  <2> QED
    BY <2>1, <2>2
<1> QED
  BY <1>1, <1>2, <1>3

\* No two targets of a family have one name.
LEMMA TargetNamesDistinct ==
  ASSUME NEW c, NEW family, Resolves(c, family),
         NEW i \in DOMAIN Units(c, family), NEW j \in DOMAIN Units(c, family),
         TargetAt(c, family, i) = TargetAt(c, family, j)
  PROVE  i = j
<1>1. CASE family = "faas"
  BY <1>1 DEF Resolves, UnitsValid, Units, TargetAt
<1>2. CASE family # "faas"
  BY <1>2 DEF Resolves, ServersValid, Units, TargetAt
<1> QED
  BY <1>1, <1>2

\* What resolve_benchmark returns routes each tool use of the trace to exactly
\* one target, the only one of its name, whose image offers the tool of the
\* node that owns the trace.
THEOREM ResolutionRoutes ==
  ASSUME NEW c, NEW family, Resolves(c, family)
  PROVE  Routed(c, family)
<1> SUFFICES ASSUME NEW t \in c.trace
             PROVE  \E r \in RoutesOf(c, family, t) :
               /\ RoutesOf(c, family, t) = {r}
               /\ t \in Traces(c, r.node)
               /\ \E i \in DOMAIN Units(c, family) :
                    /\ TargetAt(c, family, i) = r.target
                    /\ r.tool \in ManifestAt(c, family, i)
                    /\ \A j \in DOMAIN Units(c, family) :
                         TargetAt(c, family, j) = r.target => j = i
  BY DEF Routed
<1>1. PICK p \in Ways(c, family, t) : TRUE
  BY DEF Resolves, RoutesOf
<1> DEFINE r == RouteBy(c, family, t, p)
           i == p[1]
           n == p[2]
<1>2. RoutesOf(c, family, t) = {r}
  BY <1>1, OneWay DEF RoutesOf
<1>3. /\ i \in DOMAIN Units(c, family)
      /\ n \in NodesAt(c, family, i)
      /\ t \in TracesAt(c, family, i)
      /\ t \in Traces(c, n)
  BY <1>1 DEF Ways
<1>4. /\ r.node = n /\ r.target = TargetAt(c, family, i)
      /\ r.tool = Binding(c, n, t).tool
  BY DEF RouteBy
<1>5. r.tool \in ManifestAt(c, family, i)
  <2>1. <<n, t>> \in { q \in NodesAt(c, family, i) \X TracesAt(c, family, i) :
                         q[2] \in Traces(c, q[1]) }
    BY <1>3
  <2> HIDE DEF r, i, n
  <2> QED
    BY <1>4, <2>1 DEF ManifestAt
<1>6. \A j \in DOMAIN Units(c, family) :
        TargetAt(c, family, j) = r.target => j = i
  BY <1>3, <1>4, TargetNamesDistinct
<1> HIDE DEF r, i, n
<1> QED
  BY <1>2, <1>3, <1>4, <1>5, <1>6

-----------------------------------------------------------------------------
(* The invariant: a job beyond "new" that has not failed has resolved its  *)
(* configuration, which never changes.                                     *)

ResolvedAt(j) ==
  stage[j] \in {"new", "failed"} \/ Resolves(Config(j), FamilyOf(j))

ResolvedInv ==
  /\ world.jobs \subseteq Jobs
  /\ stage \in [Jobs -> Stages]
  /\ \A j \in world.jobs : ResolvedAt(j)

\* A step of a job touches its own stage only, and leaves "new" by resolving.
StageStep(j) ==
  /\ world' = world
  /\ \E s \in Stages :
       /\ stage' = [stage EXCEPT ![j] = s]
       /\ \/ s = "failed"
          \/ stage[j] \notin {"new", "failed"}
          \/ Resolves(Config(j), FamilyOf(j))

LEMMA EachStageStep ==
  ASSUME ResolvedInv, NEW j \in world.jobs, Step(j)
  PROVE  StageStep(j)
<1> USE DEF StageStep, Stages
<1>0. j \in Jobs /\ stage \in [Jobs -> Stages]
  BY DEF ResolvedInv
<1>1. CASE Begin(j)
  BY <1>0, <1>1 DEF Begin, Enter
<1>2. CASE Fail(j)
  BY <1>0, <1>2 DEF Fail, Enter
<1>3. CASE Build(j)
  <2>1. CASE Prepare(j)
    BY <1>0, <2>1 DEF Prepare, Enter, AtTarget, Is
  <2>2. CASE DockerBuild(j)
    BY <1>0, <2>2 DEF DockerBuild, NextTarget, AtTarget, Is
  <2>3. CASE Built(j)
    BY <1>0, <2>3 DEF Built, Enter, Is
  <2> QED
    BY <1>3, <2>1, <2>2, <2>3 DEF Build
<1>4. CASE DeployTarget(j)
  <2>1. CASE Push(j) \/ PlaceFunction(j) \/ UpdateCode(j)
    BY <1>0, <2>1 DEF Push, PlaceFunction, UpdateCode, Enter, AtTarget, Is
  <2>2. CASE UpdateConfiguration(j) \/ CreateSwallowed(j)
    BY <1>0, <2>2 DEF UpdateConfiguration, CreateSwallowed, Enter, AtTarget, Is
  <2>3. CASE Poll(j)
    <3>1. stage' = [stage EXCEPT ![j] = stage[j]] /\ stage[j] \in Stages
      BY <1>0, <2>3 DEF Poll
    <3>2. world' = world /\ stage[j] = "placed"
      BY <2>3 DEF Poll, AtTarget, Is
    <3> QED
      BY <3>1, <3>2
  <2>4. CASE GiveUp(j) \/ WriteUrlMap(j)
    BY <1>0, <2>4 DEF GiveUp, WriteUrlMap, Enter, AtTarget, Is
  <2>5. CASE FindUrl(j) \/ NoUrl(j) \/ Register(j)
    BY <1>0, <2>5 DEF FindUrl, NoUrl, Register, NextTarget, AtTarget, Is
  <2> QED
    BY <1>4, <2>1, <2>2, <2>3, <2>4, <2>5 DEF DeployTarget
<1>5. CASE Run(j)
  <2>1. CASE Connect(j)
    BY <1>0, <2>1 DEF Connect, Enter, Is
  <2>2. CASE Replayed(j)
    BY <1>0, <2>2 DEF Replayed, Enter, Is
  <2>3. ASSUME NEW t \in Config(j).trace, Call(j, t)
        PROVE  StageStep(j)
    <3>1. stage[j] = "calling"
      BY <2>3 DEF Call, Is
    <3>2. CASE Enter(j, "failed")
      BY <1>0, <3>1, <3>2 DEF Enter
    <3>3. CASE UNCHANGED <<world, stage, at>>
      <4>1. stage' = [stage EXCEPT ![j] = stage[j]]
        BY <1>0, <3>3
      <4> QED
        BY <3>1, <3>3, <4>1
    <3> QED
      BY <2>3, <3>2, <3>3 DEF Call
  <2> QED
    BY <1>5, <2>1, <2>2, <2>3 DEF Run
<1> QED
  BY <1>1, <1>2, <1>3, <1>4, <1>5 DEF Step

LEMMA ResolvedInit == Init => ResolvedInv
<1> SUFFICES ASSUME Init PROVE ResolvedInv
  OBVIOUS
<1>1. world.jobs \subseteq Jobs
  BY PipelineAssumption DEF Init
<1>2. stage \in [Jobs -> Stages] /\ \A j \in Jobs : stage[j] = "new"
  BY DEF Init, Stages
<1> QED
  BY <1>1, <1>2 DEF ResolvedInv, ResolvedAt

LEMMA ResolvedNext == ResolvedInv /\ [Next]_vars => ResolvedInv'
<1> SUFFICES ASSUME ResolvedInv, [Next]_vars PROVE ResolvedInv'
  OBVIOUS
<1> USE DEF ResolvedInv, ResolvedAt, Config, FamilyOf, Provider
<1>1. ASSUME NEW j \in world.jobs, Step(j) PROVE ResolvedInv'
  <2>1. StageStep(j)
    BY <1>1, EachStageStep
  <2>2. PICK s \in Stages :
          /\ stage' = [stage EXCEPT ![j] = s]
          /\ \/ s = "failed"
             \/ stage[j] \notin {"new", "failed"}
             \/ Resolves(Config(j), FamilyOf(j))
    BY <2>1 DEF StageStep
  <2>3. world' = world
    BY <2>1 DEF StageStep
  <2>4. stage' \in [Jobs -> Stages]
    BY <2>2
  <2>5. ASSUME NEW k \in world.jobs PROVE ResolvedAt(k)'
    <3>1. CASE k = j
      BY <2>2, <2>3, <3>1
    <3>2. CASE k # j
      BY <2>2, <2>3, <3>2
    <3> QED
      BY <3>1, <3>2
  <2> QED
    BY <2>3, <2>4, <2>5
<1>2. CASE UNCHANGED <<world, stage>>
  BY <1>2
<1>3. ASSUME NEW f \in DOMAIN cloud, Settle(f) PROVE UNCHANGED <<world, stage>>
  BY <1>3 DEF Settle, jobVars
<1>4. UNCHANGED vars => UNCHANGED <<world, stage>>
  BY DEF vars, jobVars
<1> QED
  BY <1>1, <1>2, <1>3, <1>4 DEF Next

\* In every state of every world, whatever the configurations are, a command
\* that has got past the resolution routes each tool use to exactly one
\* target, whose image offers the tool.
THEOREM RoutedAlways == Spec => []ToolUsesRouted
<1>1. ResolvedInv => ToolUsesRouted
  BY ResolutionRoutes DEF ResolvedInv, ResolvedAt, ToolUsesRouted
<1> QED
  BY <1>1, ResolvedInit, ResolvedNext, PTL DEF Spec

-----------------------------------------------------------------------------
(* The second invariant: where each job is, what its entries name, and     *)
(* whose the functions and the URL maps are.                               *)

NameAt(j, i) == TargetAt(Config(j), FamilyOf(j), i)

FunctionAt(j, i) == FunctionNamed(Provider(j), NameAt(j, i))

Types ==
  /\ world \in Worlds
  /\ stage \in [Jobs -> Stages]
  /\ at \in [Jobs -> Nat \ {0}]
  /\ polls \in [Jobs -> 0 .. MaxPolls]
  /\ entries = [j \in Jobs |-> entries[j]]

\* A job is at a target, or past the last one.
PlaceInv(j) ==
  /\ stage[j] \in {"copied", "pushed", "coded", "placed"} => at[j] \in TargetsOf(j)
  /\ stage[j] = "coded" => Provider(j) = "aws_lambda"
  /\ at[j] = 1 \/ at[j] - 1 \in TargetsOf(j)

\* The entries of a deployment are of the targets that it is done with, all of
\* them but on Function Compute, and of functions that exist.
EntriesInv(j) ==
  /\ world.command[j] # "run" =>
       DOMAIN entries[j] \subseteq { NameAt(j, i) : i \in 1 .. at[j] - 1 }
  /\ world.command[j] = "deploy" =>
       /\ \A x \in DOMAIN entries[j] : entries[j][x].function \in DOMAIN cloud
       /\ ~OnAli(j) => \A i \in 1 .. at[j] - 1 :
            /\ NameAt(j, i) \in DOMAIN entries[j]
            /\ entries[j][NameAt(j, i)].function = FunctionAt(j, i)

ImagesInv == \A r \in DOMAIN registry : r[2] \in DOMAIN images

\* A function is one of its maker's targets, a deployment that has begun.
CloudInv ==
  \A f \in DOMAIN cloud :
    /\ f[1] \in { Host(p) : p \in Providers }
    /\ DOMAIN cloud[f] = {"image", "memory", "status", "maker"}
    /\ cloud[f].status = "settling" => f[1] = "agentcore"
    /\ \E j \in world.jobs :
         /\ world.command[j] = "deploy" /\ stage[j] # "new"
         /\ Key(j) = cloud[f].maker
         /\ \E i \in TargetsOf(j) : f = FunctionAt(j, i)

\* A URL map is that of a deployment that is done.
UrlsInv ==
  \A file \in DOMAIN urlMap : \E j \in world.jobs :
    LET m == urlMap[file] IN
    /\ Is(j, "deploy", "done") /\ Key(j) = m.key /\ File(j) = file
    /\ ~OnAli(j) => DOMAIN m.entries = TargetNames(Config(j), FamilyOf(j))
    /\ \A x \in DOMAIN m.entries : m.entries[x].function \in DOMAIN cloud

\* A deployment that is done has its targets in the URL map, unless that is
\* another one's too.
DoneInv ==
  \A j \in world.jobs :
    /\ Is(j, "deploy", "done") /\ ~OnAli(j)
    /\ \A k \in world.jobs : File(k) = File(j) => Key(k) = Key(j)
    => /\ File(j) \in DOMAIN urlMap
       /\ \A i \in TargetsOf(j) : \E x \in DOMAIN urlMap[File(j)].entries :
            urlMap[File(j)].entries[x].function = FunctionAt(j, i)

PInv ==
  /\ Types
  /\ \A j \in Jobs : PlaceInv(j)
  /\ \A j \in Jobs : EntriesInv(j)
  /\ ImagesInv
  /\ CloudInv
  /\ UrlsInv
  /\ DoneInv

\* What a step of a job does to its own place and entries.
JobStep(j) ==
  /\ world' = world /\ stage[j] # "done"
  /\ \/ /\ at' = at
        /\ \E s \in Stages \ {"new"} :
             /\ stage' = [stage EXCEPT ![j] = s]
             /\ s \in {"copied", "pushed", "coded", "placed"} => at[j] \in TargetsOf(j)
             /\ s = "coded" => Provider(j) = "aws_lambda"
             /\ s = "done" /\ world.command[j] = "deploy" => WriteUrlMap(j)
        /\ \/ entries' = entries
           \/ world.command[j] = "run" /\ \E v : entries' = [entries EXCEPT ![j] = v]
     \/ /\ stage' = [stage EXCEPT ![j] = "work"] /\ at' = [at EXCEPT ![j] = @ + 1]
        /\ at[j] \in TargetsOf(j)
        /\ \/ entries' = entries /\ (world.command[j] # "deploy" \/ OnAli(j))
           \/ /\ world.command[j] = "deploy"
              /\ entries' = [entries EXCEPT ![j] = Put(@, Target(j), Entry(j))]
              /\ Function(j) \in DOMAIN cloud'
  /\ polls' \in [Jobs -> 0 .. MaxPolls]
  /\ urlMap' = urlMap \/ WriteUrlMap(j)

LEMMA EachJobStep ==
  ASSUME PInv, NEW j \in world.jobs, j \in Jobs, Step(j)
  PROVE  JobStep(j)
<1> USE DEF JobStep, Stages
<1>0. /\ polls \in [Jobs -> 0 .. MaxPolls] /\ stage \in [Jobs -> Stages]
      /\ at \in [Jobs -> Nat \ {0}] /\ entries = [k \in Jobs |-> entries[k]]
      /\ MaxPolls \in Nat
      /\ [polls EXCEPT ![j] = 0] \in [Jobs -> 0 .. MaxPolls]
  <2>1. MaxPolls \in Nat /\ polls \in [Jobs -> 0 .. MaxPolls]
    BY PipelineAssumption DEF PInv, Types
  <2> QED
    BY <2>1 DEF PInv, Types
<1>1. CASE Begin(j)
  <2>1. PICK s \in {"work", "failed"} : stage' = [stage EXCEPT ![j] = s]
    BY <1>1 DEF Begin, Enter
  <2>2. /\ world' = world /\ at' = at /\ stage[j] = "new"
        /\ UNCHANGED <<polls, entries, urlMap>>
    BY <1>1 DEF Begin, Enter, stores
  <2> QED
    BY <1>0, <2>1, <2>2
<1>2. CASE Fail(j)
  <2>1. /\ stage' = [stage EXCEPT ![j] = "failed"] /\ stage[j] # "done"
        /\ world' = world /\ at' = at /\ UNCHANGED <<polls, entries, urlMap>>
    BY <1>2 DEF Fail, Enter, stores
  <2> QED
    BY <1>0, <2>1
<1>3. CASE Build(j)
  <2>1. CASE Prepare(j)
    BY <1>0, <2>1 DEF Prepare, Enter, AtTarget, Is
  <2>2. CASE DockerBuild(j)
    BY <1>0, <2>2 DEF DockerBuild, NextTarget, AtTarget, Is
  <2>3. CASE Built(j)
    BY <1>0, <2>3 DEF Built, Enter, Is, stores
  <2> QED
    BY <1>3, <2>1, <2>2, <2>3 DEF Build
<1>4. CASE DeployTarget(j)
  <2>1. CASE Push(j) \/ PlaceFunction(j) \/ UpdateCode(j)
    BY <1>0, <2>1 DEF Push, PlaceFunction, UpdateCode, Enter, AtTarget, Is
  <2>2. CASE UpdateConfiguration(j) \/ CreateSwallowed(j)
    BY <1>0, <2>2 DEF UpdateConfiguration, CreateSwallowed, Enter, AtTarget, Is, stores
  <2>3. CASE Poll(j)
    <3>1. stage' = [stage EXCEPT ![j] = "placed"] /\ stage[j] = "placed"
      BY <1>0, <2>3 DEF Poll, AtTarget, Is
    <3>2. polls' \in [Jobs -> 0 .. MaxPolls]
      <4>1. polls[j] \in 0 .. MaxPolls /\ polls[j] < MaxPolls
            /\ polls' = [polls EXCEPT ![j] = polls[j] + 1]
        BY <1>0, <2>3 DEF Poll
      <4>2. polls[j] + 1 \in 0 .. MaxPolls
        BY <1>0, <4>1
      <4> QED
        BY <1>0, <4>1, <4>2
    <3> QED
      BY <2>3, <3>1, <3>2 DEF Poll, AtTarget, Is, stores
  <2>4. CASE GiveUp(j)
    BY <1>0, <2>4 DEF GiveUp, Enter, AtTarget, Is, stores
  <2>5. CASE WriteUrlMap(j)
    BY <1>0, <2>5 DEF WriteUrlMap, Enter, Is
  <2>6. CASE FindUrl(j)
    BY <1>0, <2>6 DEF FindUrl, NextTarget, AtTarget, Is, stores
  <2>7. CASE NoUrl(j)
    BY <1>0, <2>7 DEF NoUrl, NextTarget, AtTarget, Is, stores
  <2>8. CASE Register(j)
    <3>1. Function(j) \in DOMAIN cloud'
      BY <2>8 DEF Register, Put
    <3> QED
      BY <1>0, <2>8, <3>1 DEF Register, NextTarget, AtTarget, Is
  <2> QED
    BY <1>4, <2>1, <2>2, <2>3, <2>4, <2>5, <2>6, <2>7, <2>8 DEF DeployTarget
<1>5. CASE Run(j)
  <2>1. CASE Connect(j)
    BY <1>0, <2>1 DEF Connect, Enter, Is, stores
  <2>2. CASE Replayed(j)
    BY <1>0, <2>2 DEF Replayed, Enter, Is, stores
  <2>3. ASSUME NEW t \in Config(j).trace, Call(j, t)
        PROVE  JobStep(j)
    <3>1. /\ stage[j] = "calling" /\ world.command[j] = "run"
          /\ UNCHANGED <<polls, entries, urlMap>>
      BY <2>3 DEF Call, Is, stores
    <3>2. CASE Enter(j, "failed")
      BY <1>0, <3>1, <3>2 DEF Enter
    <3>3. CASE UNCHANGED <<world, stage, at>>
      <4>1. stage' = [stage EXCEPT ![j] = "calling"]
        BY <1>0, <3>1, <3>3
      <4> QED
        BY <1>0, <3>1, <3>3, <4>1
    <3> QED
      BY <2>3, <3>2, <3>3 DEF Call
  <2> QED
    BY <1>5, <2>1, <2>2, <2>3 DEF Run
<1> QED
  BY <1>1, <1>2, <1>3, <1>4, <1>5 DEF Step

\* What a step of a job does to the functions: only a deployment's does
\* something, to the function of the target that it is at.
CloudStep(j) ==
  \/ cloud' = cloud
  \/ /\ world.command[j] = "deploy" /\ stage[j] # "new" /\ at[j] \in TargetsOf(j)
     /\ DOMAIN cloud' \in {DOMAIN cloud, DOMAIN cloud \cup {Function(j)}}
     /\ \A f \in DOMAIN cloud : f # Function(j) => cloud'[f] = cloud[f]
     /\ Function(j) \in DOMAIN cloud' =>
          /\ DOMAIN cloud'[Function(j)] = {"image", "memory", "status", "maker"}
          /\ cloud'[Function(j)].status = "settling" => Function(j)[1] = "agentcore"
          /\ \/ cloud'[Function(j)].maker = Key(j)
             \/ /\ Function(j) \in DOMAIN cloud
                /\ cloud'[Function(j)].maker = cloud[Function(j)].maker

LEMMA EachCloudStep ==
  ASSUME PInv, NEW j \in world.jobs, j \in Jobs, Step(j)
  PROVE  CloudStep(j)
<1>1. CASE UNCHANGED cloud
  BY <1>1 DEF CloudStep
<1>2. CASE PlaceFunction(j)
  <2>1. PICK v : /\ cloud' = Put(cloud, Function(j), v)
                 /\ v = Ours(j, IF Provider(j) = "aws_agentcore" THEN "settling"
                                ELSE "ready")
    BY <1>2 DEF PlaceFunction
  <2>2. Provider(j) = "aws_agentcore" => Function(j)[1] = "agentcore"
    BY DEF Function, FunctionNamed, Host
  <2>3. /\ DOMAIN v = {"image", "memory", "status", "maker"} /\ v.maker = Key(j)
        /\ v.status = "settling" => Function(j)[1] = "agentcore"
    BY <2>1, <2>2 DEF Ours
  <2>4. /\ world.command[j] = "deploy" /\ stage[j] # "new" /\ at[j] \in TargetsOf(j)
    BY <1>2 DEF PlaceFunction, AtTarget, Is
  <2> QED
    BY <2>1, <2>3, <2>4 DEF CloudStep, Put
<1>3. CASE Register(j)
  <2>1. PICK v : cloud' = Put(cloud, Function(j), v) /\ v = Ours(j, "ready")
    BY <1>3 DEF Register
  <2>2. /\ DOMAIN v = {"image", "memory", "status", "maker"} /\ v.maker = Key(j)
        /\ v.status # "settling"
    BY <2>1 DEF Ours
  <2>3. /\ world.command[j] = "deploy" /\ stage[j] # "new" /\ at[j] \in TargetsOf(j)
    BY <1>3 DEF Register, AtTarget, Is
  <2> QED
    BY <2>1, <2>2, <2>3 DEF CloudStep, Put
<1>4. CASE UpdateCode(j) \/ UpdateConfiguration(j)
  <2>1. /\ world.command[j] = "deploy" /\ stage[j] # "new" /\ at[j] \in TargetsOf(j)
    BY <1>4 DEF UpdateCode, UpdateConfiguration, AtTarget, Is
  <2>2. \/ \E v : cloud' = [cloud EXCEPT ![Function(j)] =
                              [cloud[Function(j)] EXCEPT !.image = v]]
        \/ \E v : cloud' = [cloud EXCEPT ![Function(j)] =
                              [cloud[Function(j)] EXCEPT !.memory = v]]
    BY <1>4 DEF UpdateCode, UpdateConfiguration
  <2>3. Function(j) \in DOMAIN cloud =>
          /\ DOMAIN cloud[Function(j)] = {"image", "memory", "status", "maker"}
          /\ cloud[Function(j)].status = "settling" => Function(j)[1] = "agentcore"
    BY DEF PInv, CloudInv
  <2> QED
    BY <2>1, <2>2, <2>3 DEF CloudStep
<1>5. UNCHANGED cloud \/ PlaceFunction(j) \/ Register(j) \/ UpdateCode(j)
        \/ UpdateConfiguration(j)
  <2>1. CASE Begin(j) \/ Fail(j) \/ Build(j)
    BY <2>1 DEF Begin, Fail, Build, Prepare, DockerBuild, Built, stores
  <2>2. CASE DeployTarget(j)
    BY <2>2 DEF DeployTarget, Push, CreateSwallowed, Poll, GiveUp, FindUrl, NoUrl,
                WriteUrlMap, stores
  <2>3. CASE Run(j)
    BY <2>3 DEF Run, Connect, Replayed, Call, stores
  <2> QED
    BY <2>1, <2>2, <2>3 DEF Step
<1> QED
  BY <1>1, <1>2, <1>3, <1>4, <1>5

\* The world is chosen once, so that a job's names are always the same.
LEMMA Fixed ==
  ASSUME world' = world
  PROVE  \A j : /\ Config(j)' = Config(j) /\ FamilyOf(j)' = FamilyOf(j)
                /\ Provider(j)' = Provider(j) /\ OnAli(j)' = OnAli(j)
                /\ File(j)' = File(j) /\ Key(j)' = Key(j)
                /\ TargetsOf(j)' = TargetsOf(j)
                /\ \A i : NameAt(j, i)' = NameAt(j, i)
                /\ \A i : FunctionAt(j, i)' = FunctionAt(j, i)
  BY DEF Config, FamilyOf, Provider, OnAli, File, Key, TargetsOf, NameAt, FunctionAt

LEMMA WorldFacts ==
  ASSUME Types
  PROVE  /\ world.jobs \subseteq Jobs
         /\ \A j \in Jobs : /\ Provider(j) \in Providers
                            /\ \E n \in Nat : TargetsOf(j) = 1 .. n
<1>1. world \in Worlds
  BY DEF Types
<1>2. ASSUME NEW j \in Jobs PROVE \E n \in Nat : TargetsOf(j) = 1 .. n
  <2>1. /\ world.project[j] \in Projects /\ world.provider[j] \in Providers
        /\ FamilyOf(j) \in Families
    BY <1>1, PipelineAssumption DEF FamilyOf, Family, Families
  <2>2. Units(Config(j), FamilyOf(j)) \in Seq(Range(Units(Config(j), FamilyOf(j))))
    BY <1>1, <2>1, PipelineAssumption DEF Config
  <2>3. \A S : \A s \in Seq(S) : Len(s) \in Nat /\ DOMAIN s = 1 .. Len(s)
    OBVIOUS
  <2> QED
    BY <2>2, <2>3 DEF TargetsOf
<1> QED
  BY <1>1, <1>2, PipelineAssumption DEF Provider

\* At the function of a target the names agree.
LEMMA FunctionOf ==
  ASSUME NEW j
  PROVE  /\ Target(j) = NameAt(j, at[j]) /\ Function(j) = FunctionAt(j, at[j])
         /\ Function(j)[1] = Host(Provider(j))
         /\ Entry(j).function = Function(j)
         /\ \A i, k : NameAt(j, i) = NameAt(j, k) => FunctionAt(j, i) = FunctionAt(j, k)
  BY DEF Target, NameAt, Function, FunctionAt, FunctionNamed, Entry

LEMMA PlaceKept ==
  ASSUME PInv, NEW j \in world.jobs, j \in Jobs, JobStep(j)
  PROVE  Types' /\ \A k \in Jobs : PlaceInv(k)'
<1> USE DEF PInv
<1>1. /\ stage \in [Jobs -> Stages] /\ at \in [Jobs -> Nat \ {0}]
      /\ entries = [k \in Jobs |-> entries[k]] /\ world' = world
      /\ polls' \in [Jobs -> 0 .. MaxPolls]
  BY DEF Types, JobStep
<1>2. /\ \E s \in Stages : stage' = [stage EXCEPT ![j] = s]
      /\ at' = at \/ at' = [at EXCEPT ![j] = at[j] + 1]
      /\ entries' = entries \/ \E v : entries' = [entries EXCEPT ![j] = v]
  BY <1>1 DEF JobStep, Stages
<1>3. stage' \in [Jobs -> Stages] /\ at' \in [Jobs -> Nat \ {0}]
      /\ entries' = [k \in Jobs |-> entries'[k]]
  BY <1>1, <1>2
<1>4. Types'
  BY <1>1, <1>3 DEF Types
<1>5. ASSUME NEW k \in Jobs PROVE PlaceInv(k)'
  <2>0. PlaceInv(k) /\ TargetsOf(k)' = TargetsOf(k) /\ Provider(k)' = Provider(k)
    BY <1>1, Fixed
  <2>1. CASE k # j
    <3>1. stage'[k] = stage[k] /\ at'[k] = at[k]
      BY <1>1, <1>2, <2>1
    <3> QED
      BY <2>0, <3>1 DEF PlaceInv
  <2>2. CASE k = j
    <3>1. CASE at' = at
      <4>1. PICK s \in Stages :
              /\ stage' = [stage EXCEPT ![j] = s]
              /\ s \in {"copied", "pushed", "coded", "placed"} => at[j] \in TargetsOf(j)
              /\ s = "coded" => Provider(j) = "aws_lambda"
        <5>1. at[j] # at[j] + 1
          BY <1>1
        <5>2. at' # [at EXCEPT ![j] = @ + 1]
          BY <1>1, <3>1, <5>1
        <5> QED
          BY <5>2 DEF JobStep
      <4> QED
        BY <1>1, <2>0, <2>2, <3>1, <4>1 DEF PlaceInv
    <3>2. CASE at' # at
      <4>1. /\ stage' = [stage EXCEPT ![j] = "work"] /\ at' = [at EXCEPT ![j] = @ + 1]
            /\ at[j] \in TargetsOf(j)
        BY <3>2 DEF JobStep
      <4>2. stage'[j] = "work" /\ at'[j] - 1 = at[j]
        BY <1>1, <4>1
      <4> QED
        BY <2>0, <2>2, <4>1, <4>2 DEF PlaceInv
    <3> QED
      BY <3>1, <3>2
  <2> QED
    BY <2>1, <2>2
<1> QED
  BY <1>4, <1>5

LEMMA EntriesKept ==
  ASSUME PInv, NEW j \in world.jobs, j \in Jobs, JobStep(j), CloudStep(j),
         NEW k \in Jobs
  PROVE  EntriesInv(k)'
<1> USE DEF PInv
<1>1. /\ at \in [Jobs -> Nat \ {0}] /\ entries = [i \in Jobs |-> entries[i]]
      /\ world' = world
  BY DEF Types, JobStep
<1>2. DOMAIN cloud \subseteq DOMAIN cloud'
  BY DEF CloudStep
<1>3. EntriesInv(k) /\ OnAli(k)' = OnAli(k)
      /\ (\A i : NameAt(k, i)' = NameAt(k, i))
      /\ (\A i : FunctionAt(k, i)' = FunctionAt(k, i))
  BY <1>1, Fixed
<1>4. CASE entries'[k] = entries[k] /\ at'[k] = at[k]
  BY <1>1, <1>2, <1>3, <1>4 DEF EntriesInv
<1>5. CASE k = j /\ world.command[j] = "run"
  BY <1>1, <1>5 DEF EntriesInv
<1>6. CASE /\ k = j /\ entries' = entries /\ at' = [at EXCEPT ![j] = @ + 1]
           /\ world.command[j] # "deploy" \/ OnAli(j)
  <2>1. \A i \in 1 .. at[k] - 1 : i \in 1 .. at'[k] - 1
    BY <1>1, <1>6
  <2>2. entries'[k] = entries[k]
    BY <1>6
  <2> QED
    BY <1>1, <1>2, <1>3, <1>6, <2>1, <2>2 DEF EntriesInv
<1>7. CASE /\ k = j /\ at' = [at EXCEPT ![j] = @ + 1] /\ world.command[j] = "deploy"
           /\ entries' = [entries EXCEPT ![j] = Put(@, Target(j), Entry(j))]
           /\ Function(j) \in DOMAIN cloud'
  <2>1. PICK a \in Nat \ {0} : a = at[k]
    BY <1>1
  <2>2. at'[k] - 1 = a /\ \A i \in 1 .. a : i = a \/ i \in 1 .. a - 1
    BY <1>1, <1>7, <2>1
  <2>3. entries'[k] = Put(entries[k], NameAt(k, a), Entry(k))
    BY <1>1, <1>7, <2>1, FunctionOf
  <2>4. Entry(k).function = FunctionAt(k, a) /\ FunctionAt(k, a) \in DOMAIN cloud'
    BY <1>7, <2>1, FunctionOf
  <2>5. /\ DOMAIN entries'[k] = DOMAIN entries[k] \cup {NameAt(k, a)}
        /\ entries'[k][NameAt(k, a)] = Entry(k)
        /\ \A x \in DOMAIN entries[k] : x # NameAt(k, a) => entries'[k][x] = entries[k][x]
    BY <2>3 DEF Put
  <2>6. /\ DOMAIN entries[k] \subseteq { NameAt(k, i) : i \in 1 .. a - 1 }
        /\ \A x \in DOMAIN entries[k] : entries[k][x].function \in DOMAIN cloud
        /\ ~OnAli(k) => \A i \in 1 .. a - 1 :
             /\ NameAt(k, i) \in DOMAIN entries[k]
             /\ entries[k][NameAt(k, i)].function = FunctionAt(k, i)
    BY <1>3, <1>7, <2>1 DEF EntriesInv
  <2>7. \A i : NameAt(k, i) = NameAt(k, a) => FunctionAt(k, i) = FunctionAt(k, a)
    BY FunctionOf
  <2>8. 1 .. a - 1 \subseteq 1 .. a /\ a \in 1 .. a
    BY <2>1
  <2>9. DOMAIN entries'[k] \subseteq { NameAt(k, i) : i \in 1 .. a }
    BY <2>5, <2>6, <2>8
  <2>10. \A x \in DOMAIN entries'[k] : entries'[k][x].function \in DOMAIN cloud'
    BY <1>2, <2>4, <2>5, <2>6
  <2>11. ASSUME ~OnAli(k), NEW i \in 1 .. a
         PROVE  /\ NameAt(k, i) \in DOMAIN entries'[k]
                /\ entries'[k][NameAt(k, i)].function = FunctionAt(k, i)
    BY <2>2, <2>4, <2>5, <2>6, <2>7, <2>11
  <2> QED
    BY <1>1, <1>3, <2>2, <2>9, <2>10, <2>11 DEF EntriesInv
<1>8. k # j => entries'[k] = entries[k] /\ at'[k] = at[k]
  BY <1>1 DEF JobStep
<1> QED
  BY <1>1, <1>4, <1>5, <1>6, <1>7, <1>8 DEF JobStep

LEMMA ImagesKept ==
  ASSUME PInv, NEW j \in world.jobs, Step(j)
  PROVE  ImagesInv'
<1> USE DEF PInv
<1>1. CASE DockerBuild(j)
  <2>1. PICK tag, v : /\ images' = Put(images, tag, v)
                      /\ \/ registry' = registry
                         \/ registry' = Put(registry, <<"dockerhub", tag>>, v)
    BY <1>1 DEF DockerBuild
  <2> QED
    BY <2>1 DEF ImagesInv, Put
<1>2. CASE Push(j)
  <2>1. /\ images' = images /\ Pushed(j)[2] \in DOMAIN images
        /\ registry' = Put(registry, Pushed(j), images[Pushed(j)[2]])
    BY <1>2 DEF Push
  <2> QED
    BY <2>1 DEF ImagesInv, Put
<1>3. CASE UNCHANGED <<images, registry>>
  BY <1>3 DEF ImagesInv
<1>4. DockerBuild(j) \/ Push(j) \/ UNCHANGED <<images, registry>>
  <2>1. CASE Begin(j) \/ Fail(j) \/ Build(j)
    BY <2>1 DEF Begin, Fail, Build, Prepare, Built, stores
  <2>2. CASE DeployTarget(j)
    BY <2>2 DEF DeployTarget, PlaceFunction, UpdateCode, UpdateConfiguration,
                CreateSwallowed, Poll, GiveUp, FindUrl, NoUrl, Register, WriteUrlMap, stores
  <2>3. CASE Run(j)
    BY <2>3 DEF Run, Connect, Replayed, Call, stores
  <2> QED
    BY <2>1, <2>2, <2>3 DEF Step
<1> QED
  BY <1>1, <1>2, <1>3, <1>4

\* A job that has begun or is done remains so.
LEMMA StagesKept ==
  ASSUME PInv, NEW j \in world.jobs, j \in Jobs, JobStep(j)
  PROVE  /\ \A k \in Jobs : stage[k] # "new" => stage'[k] # "new"
         /\ \A k \in Jobs : stage[k] = "done" => stage'[k] = "done" /\ k # j
  BY DEF PInv, Types, JobStep

LEMMA CloudKept ==
  ASSUME PInv, NEW j \in world.jobs, j \in Jobs, JobStep(j), CloudStep(j)
  PROVE  CloudInv'
<1> USE DEF PInv
<1>1. /\ world' = world /\ \A k \in Jobs : stage[k] # "new" => stage'[k] # "new"
      /\ world.jobs \subseteq Jobs /\ Provider(j) \in Providers
  BY StagesKept, WorldFacts DEF JobStep
<1> DEFINE Made(f, maker) ==
      \E k \in world.jobs : /\ world.command[k] = "deploy" /\ stage[k] # "new"
                            /\ Key(k) = maker /\ \E i \in TargetsOf(k) : f = FunctionAt(k, i)
           MadeNext(f, maker) ==
      \E k \in world.jobs : /\ world.command[k] = "deploy" /\ stage'[k] # "new"
                            /\ Key(k) = maker /\ \E i \in TargetsOf(k) : f = FunctionAt(k, i)
<1>2. \A f, maker : Made(f, maker) => MadeNext(f, maker)
  BY <1>1
<1>3. \A f : MadeNext(f, cloud'[f].maker) <=>
        (\E k \in world.jobs :
           /\ world.command[k] = "deploy" /\ stage[k] # "new"
           /\ Key(k) = cloud[f].maker
           /\ \E i \in TargetsOf(k) : f = FunctionAt(k, i))'
  BY <1>1, Fixed
<1> SUFFICES ASSUME NEW f \in DOMAIN cloud'
             PROVE  /\ f[1] \in { Host(p) : p \in Providers }
                    /\ DOMAIN cloud'[f] = {"image", "memory", "status", "maker"}
                    /\ cloud'[f].status = "settling" => f[1] = "agentcore"
                    /\ MadeNext(f, cloud'[f].maker)
  BY <1>3 DEF CloudInv
<1>4. CASE f \in DOMAIN cloud /\ cloud'[f] = cloud[f]
  <2>1. Made(f, cloud[f].maker)
    BY <1>4 DEF CloudInv
  <2> HIDE DEF Made, MadeNext
  <2> QED
    BY <1>2, <1>4, <2>1 DEF CloudInv
<1>5. CASE ~(f \in DOMAIN cloud /\ cloud'[f] = cloud[f])
  <2>1. /\ world.command[j] = "deploy" /\ stage[j] # "new" /\ at[j] \in TargetsOf(j)
        /\ f = Function(j)
        /\ DOMAIN cloud'[f] = {"image", "memory", "status", "maker"}
        /\ cloud'[f].status = "settling" => f[1] = "agentcore"
        /\ \/ cloud'[f].maker = Key(j)
           \/ f \in DOMAIN cloud /\ cloud'[f].maker = cloud[f].maker
    BY <1>5 DEF CloudStep
  <2>2. f[1] \in { Host(p) : p \in Providers }
    BY <1>1, <2>1, FunctionOf
  <2>3. Made(f, Key(j))
    BY <2>1, FunctionOf
  <2>4. f \in DOMAIN cloud => Made(f, cloud[f].maker)
    BY DEF CloudInv
  <2> HIDE DEF Made, MadeNext
  <2> QED
    BY <1>2, <2>1, <2>2, <2>3, <2>4
<1> QED
  BY <1>4, <1>5

\* A deployment that writes its URL map has all its targets in it.
LEMMA WrittenMap ==
  ASSUME PInv, NEW j \in Jobs, WriteUrlMap(j)
  PROVE  /\ world.command[j] = "deploy"
         /\ urlMap' = Put(urlMap, File(j), [key |-> Key(j), provider |-> Provider(j),
                                            entries |-> entries[j]])
         /\ stage' = [stage EXCEPT ![j] = "done"]
         /\ DOMAIN cloud' = DOMAIN cloud
         /\ \A x \in DOMAIN entries[j] : entries[j][x].function \in DOMAIN cloud
         /\ ~OnAli(j) =>
              /\ DOMAIN entries[j] = TargetNames(Config(j), FamilyOf(j))
              /\ \A i \in TargetsOf(j) : /\ NameAt(j, i) \in DOMAIN entries[j]
                                         /\ entries[j][NameAt(j, i)].function
                                              = FunctionAt(j, i)
<1> USE DEF PInv
<1>1. /\ world.command[j] = "deploy" /\ at[j] \notin TargetsOf(j)
      /\ stage' = [stage EXCEPT ![j] = "done"] /\ cloud' = cloud
      /\ urlMap' = Put(urlMap, File(j), [key |-> Key(j), provider |-> Provider(j),
                                         entries |-> entries[j]])
  BY DEF WriteUrlMap, Enter, Is
<1>2. PICK n \in Nat : TargetsOf(j) = 1 .. n
  BY WorldFacts
<1>3. 1 .. at[j] - 1 = TargetsOf(j)
  <2>1. at[j] \in Nat /\ at[j] >= 1 /\ (at[j] = 1 \/ at[j] - 1 \in 1 .. n)
    BY <1>2 DEF Types, PlaceInv
  <2>2. at[j] - 1 = n
    BY <1>1, <1>2, <2>1
  <2> QED
    BY <1>2, <2>2
<1>4. /\ DOMAIN entries[j] \subseteq { NameAt(j, i) : i \in TargetsOf(j) }
      /\ \A x \in DOMAIN entries[j] : entries[j][x].function \in DOMAIN cloud
      /\ ~OnAli(j) => \A i \in TargetsOf(j) : /\ NameAt(j, i) \in DOMAIN entries[j]
                                              /\ entries[j][NameAt(j, i)].function
                                                   = FunctionAt(j, i)
  BY <1>1, <1>3 DEF EntriesInv
<1>5. TargetNames(Config(j), FamilyOf(j)) = { NameAt(j, i) : i \in TargetsOf(j) }
  BY DEF TargetNames, NameAt, TargetsOf
<1> QED
  BY <1>1, <1>4, <1>5

LEMMA UrlsKept ==
  ASSUME PInv, NEW j \in world.jobs, j \in Jobs, JobStep(j), CloudStep(j)
  PROVE  UrlsInv'
<1> USE DEF PInv
<1>1. /\ world' = world /\ DOMAIN cloud \subseteq DOMAIN cloud'
      /\ \A k \in Jobs : stage[k] = "done" => stage'[k] = "done"
      /\ world.jobs \subseteq Jobs /\ stage \in [Jobs -> Stages]
  BY StagesKept, WorldFacts DEF JobStep, CloudStep, Types
<1> DEFINE Names2(k) == TargetNames(Config(k), FamilyOf(k))
<1>2. \A k : Names2(k)' = Names2(k)
  BY <1>1, Fixed
<1> DEFINE Whose(m, file, k) ==
             /\ world.command[k] = "deploy" /\ stage'[k] = "done"
             /\ Key(k) = m.key /\ File(k) = file
             /\ ~OnAli(k) => DOMAIN m.entries = Names2(k)
             /\ \A x \in DOMAIN m.entries : m.entries[x].function \in DOMAIN cloud'
<1>3. ASSUME NEW file \in DOMAIN urlMap'
      PROVE  \E k \in world.jobs : Whose(urlMap'[file], file, k)
  <2>1. CASE file \in DOMAIN urlMap /\ urlMap'[file] = urlMap[file]
    <3>1. PICK k \in world.jobs :
            /\ Is(k, "deploy", "done") /\ Key(k) = urlMap[file].key /\ File(k) = file
            /\ ~OnAli(k) => DOMAIN urlMap[file].entries = Names2(k)
            /\ \A x \in DOMAIN urlMap[file].entries :
                 urlMap[file].entries[x].function \in DOMAIN cloud
      BY <2>1 DEF UrlsInv
    <3>2. Whose(urlMap'[file], file, k)
      BY <1>1, <2>1, <3>1 DEF Is
    <3> QED
      BY <3>2
  <2>2. CASE ~(file \in DOMAIN urlMap /\ urlMap'[file] = urlMap[file])
    <3>1. WriteUrlMap(j)
      BY <2>2 DEF JobStep
    <3>2. PICK m : m = [key |-> Key(j), provider |-> Provider(j), entries |-> entries[j]]
      OBVIOUS
    <3>3. /\ urlMap' = Put(urlMap, File(j), m) /\ stage' = [stage EXCEPT ![j] = "done"]
          /\ world.command[j] = "deploy"
          /\ \A x \in DOMAIN entries[j] : entries[j][x].function \in DOMAIN cloud
          /\ ~OnAli(j) => DOMAIN entries[j] = Names2(j)
      BY <3>1, <3>2, WrittenMap
    <3>4. file = File(j) /\ urlMap'[file] = m
      BY <2>2, <3>3 DEF Put
    <3>5. m.key = Key(j) /\ m.entries = entries[j]
      BY <3>2
    <3>6. Whose(m, file, j)
      BY <1>1, <3>3, <3>4, <3>5
    <3> HIDE DEF Whose
    <3> QED
      BY <3>4, <3>6
  <2> QED
    BY <2>1, <2>2
<1>4. \A file, k :
        Whose(urlMap'[file], file, k) <=>
          (LET m == urlMap[file] IN
           /\ Is(k, "deploy", "done") /\ Key(k) = m.key /\ File(k) = file
           /\ ~OnAli(k) => DOMAIN m.entries = TargetNames(Config(k), FamilyOf(k))
           /\ \A x \in DOMAIN m.entries : m.entries[x].function \in DOMAIN cloud)'
  BY <1>1, <1>2, Fixed DEF Is
<1> HIDE DEF Whose
<1> QED
  BY <1>1, <1>3, <1>4 DEF UrlsInv

LEMMA DoneKept ==
  ASSUME PInv, NEW j \in world.jobs, j \in Jobs, JobStep(j)
  PROVE  DoneInv'
<1> USE DEF PInv
<1>1. /\ world' = world /\ world.jobs \subseteq Jobs /\ stage \in [Jobs -> Stages]
  BY WorldFacts DEF JobStep, Types
<1> DEFINE Listed(m, k) ==
      /\ File(k) \in DOMAIN m
      /\ \A i \in TargetsOf(k) : \E x \in DOMAIN m[File(k)].entries :
           m[File(k)].entries[x].function = FunctionAt(k, i)
           Own(k) == \A l \in world.jobs : File(l) = File(k) => Key(l) = Key(k)
<1>2. ASSUME NEW k \in world.jobs, world.command[k] = "deploy", stage'[k] = "done",
             ~OnAli(k), Own(k)
      PROVE  Listed(urlMap', k)
  <2>1. CASE WriteUrlMap(j) /\ File(j) = File(k)
    <3>1. Key(j) = Key(k)
      BY <1>2, <2>1
    <3>2. /\ OnAli(k) = OnAli(j) /\ TargetsOf(k) = TargetsOf(j)
          /\ \A i : FunctionAt(k, i) = FunctionAt(j, i)
      <4>1. world.project[j] = world.project[k] /\ world.provider[j] = world.provider[k]
        BY <3>1 DEF Key, Provider
      <4> QED
        BY <4>1 DEF OnAli, TargetsOf, FunctionAt, NameAt, Config, FamilyOf, Provider
    <3>3. PICK m : m = [key |-> Key(j), provider |-> Provider(j), entries |-> entries[j]]
      OBVIOUS
    <3>4. /\ urlMap' = Put(urlMap, File(j), m)
          /\ \A i \in TargetsOf(j) : /\ NameAt(j, i) \in DOMAIN entries[j]
                                     /\ entries[j][NameAt(j, i)].function = FunctionAt(j, i)
      BY <1>2, <2>1, <3>2, <3>3, WrittenMap
    <3>5. urlMap'[File(k)].entries = entries[j] /\ File(k) \in DOMAIN urlMap'
      BY <2>1, <3>3, <3>4 DEF Put
    <3> QED
      BY <3>2, <3>4, <3>5
  <2>2. CASE ~(WriteUrlMap(j) /\ File(j) = File(k))
    <3>1. stage[k] = "done"
      <4>1. ASSUME k = j PROVE FALSE
        <5>1. \E s \in Stages : /\ stage' = [stage EXCEPT ![j] = s]
                                /\ s = "done" => WriteUrlMap(j)
          BY <1>2, <4>1 DEF JobStep, Stages
        <5> QED
          BY <1>1, <1>2, <2>2, <4>1, <5>1
      <4>2. k # j => stage'[k] = stage[k]
        BY <1>1 DEF JobStep
      <4> QED
        BY <1>2, <4>1, <4>2
    <3>2. Listed(urlMap, k)
      BY <1>2, <3>1 DEF DoneInv, Is
    <3>3. urlMap'[File(k)] = urlMap[File(k)] /\ File(k) \in DOMAIN urlMap'
      <4>1. CASE WriteUrlMap(j)
        <5>1. \E m : urlMap' = Put(urlMap, File(j), m)
          BY <4>1 DEF WriteUrlMap
        <5> QED
          BY <2>2, <3>2, <4>1, <5>1 DEF Put
      <4>2. CASE urlMap' = urlMap
        BY <3>2, <4>2
      <4> QED
        BY <4>1, <4>2 DEF JobStep
    <3> QED
      BY <3>2, <3>3
  <2> QED
    BY <2>1, <2>2
<1>3. \A k : /\ Listed(urlMap', k) <=>
                  (/\ File(k) \in DOMAIN urlMap
                   /\ \A i \in TargetsOf(k) : \E x \in DOMAIN urlMap[File(k)].entries :
                        urlMap[File(k)].entries[x].function = FunctionAt(k, i))'
             /\ Own(k) <=> (\A l \in world.jobs : File(l) = File(k) => Key(l) = Key(k))'
             /\ Is(k, "deploy", "done")' <=>
                  world.command[k] = "deploy" /\ stage'[k] = "done"
             /\ OnAli(k)' <=> OnAli(k)
  BY <1>1, Fixed DEF Is
<1> HIDE DEF Listed, Own
<1> QED
  BY <1>1, <1>2, <1>3 DEF DoneInv

\* The clouds' own steps, and those of nobody, change the functions' status
\* only.
LEMMA SettleKeeps ==
  ASSUME PInv, (\E f \in DOMAIN cloud : Settle(f)) \/ UNCHANGED vars
  PROVE  PInv'
<1> USE DEF PInv
<1>1. /\ UNCHANGED <<world, stage, at, polls, entries, images, registry, urlMap>>
      /\ \/ cloud' = cloud
         \/ \E f \in DOMAIN cloud, s \in {"ready", "failed"} :
              cloud' = [cloud EXCEPT ![f] = [cloud[f] EXCEPT !.status = s]]
  BY DEF Settle, vars, jobVars, stores
<1>2. /\ DOMAIN cloud' = DOMAIN cloud
      /\ \A f \in DOMAIN cloud :
           /\ DOMAIN cloud'[f] = {"image", "memory", "status", "maker"}
           /\ cloud'[f].maker = cloud[f].maker
           /\ cloud'[f].status = "settling" => cloud[f].status = "settling"
  <2>1. \A f \in DOMAIN cloud : DOMAIN cloud[f] = {"image", "memory", "status", "maker"}
    BY DEF CloudInv
  <2> QED
    BY <1>1, <2>1
<1>3. \A j : /\ Config(j)' = Config(j) /\ FamilyOf(j)' = FamilyOf(j)
             /\ Provider(j)' = Provider(j) /\ OnAli(j)' = OnAli(j)
             /\ File(j)' = File(j) /\ Key(j)' = Key(j)
             /\ TargetsOf(j)' = TargetsOf(j)
             /\ \A i : NameAt(j, i)' = NameAt(j, i)
             /\ \A i : FunctionAt(j, i)' = FunctionAt(j, i)
  BY <1>1, Fixed
<1>4. Types'
  BY <1>1 DEF Types
<1>5. (\A j \in Jobs : PlaceInv(j))' /\ (\A j \in Jobs : EntriesInv(j))'
  BY <1>1, <1>2, <1>3 DEF PlaceInv, EntriesInv
<1>6. ImagesInv' /\ DoneInv'
  BY <1>1, <1>3 DEF ImagesInv, DoneInv, Is
<1>7. UrlsInv'
  <2>1. \A j : TargetNames(Config(j), FamilyOf(j))' = TargetNames(Config(j), FamilyOf(j))
    BY <1>3
  <2> QED
    BY <1>1, <1>2, <1>3, <2>1 DEF UrlsInv, Is
<1>8. CloudInv'
  BY <1>1, <1>2, <1>3 DEF CloudInv
<1> QED
  BY <1>4, <1>5, <1>6, <1>7, <1>8

LEMMA PInit == Init => PInv
<1> SUFFICES ASSUME Init PROVE PInv
  OBVIOUS
<1>1. Types
  <2>1. 0 \in 0 .. MaxPolls
    BY PipelineAssumption
  <2> QED
    BY <2>1 DEF Init, Types, Stages
<1>2. ASSUME NEW j \in Jobs PROVE PlaceInv(j) /\ EntriesInv(j)
  <2>1. /\ stage[j] = "new" /\ at[j] = 1 /\ entries[j] = << >> /\ DOMAIN << >> = {}
    BY DEF Init
  <2> QED
    BY <2>1 DEF PlaceInv, EntriesInv
<1>3. ImagesInv /\ CloudInv /\ UrlsInv
  <2>1. DOMAIN << >> = {}
    OBVIOUS
  <2> QED
    BY <2>1 DEF Init, ImagesInv, CloudInv, UrlsInv
<1>4. DoneInv
  <2>1. \A j \in world.jobs : stage[j] = "new"
    BY <1>1, WorldFacts DEF Init
  <2> QED
    BY <2>1 DEF DoneInv, Is
<1> QED
  BY <1>1, <1>2, <1>3, <1>4 DEF PInv

\* The inductive invariant of deployments.
THEOREM PipelineInvariant == Spec => []PInv
<1>1. PInv /\ [Next]_vars => PInv'
  <2> SUFFICES ASSUME PInv, [Next]_vars PROVE PInv'
    OBVIOUS
  <2>1. ASSUME NEW j \in world.jobs, Step(j) PROVE PInv'
    <3>1. j \in Jobs
      BY WorldFacts DEF PInv
    <3>2. JobStep(j) /\ CloudStep(j)
      BY <2>1, <3>1, EachJobStep, EachCloudStep
    <3>3. (\A k \in Jobs : PlaceInv(k))' /\ (\A k \in Jobs : EntriesInv(k))'
      BY <3>1, <3>2, PlaceKept, EntriesKept
    <3>4. Types' /\ ImagesInv' /\ CloudInv' /\ UrlsInv' /\ DoneInv'
      BY <2>1, <3>1, <3>2, PlaceKept, ImagesKept, CloudKept, UrlsKept, DoneKept
    <3> QED
      BY <3>3, <3>4 DEF PInv
  <2> QED
    BY <2>1, SettleKeeps DEF Next
<1> QED
  BY <1>1, PInit, PTL DEF Spec

\* Jobs are where their commands may be, and images and functions have come
\* from where they may come from.
THEOREM PipelineTypeCorrect == Spec => []TypeOK
<1>1. PInv => TypeOK
  <2> SUFFICES ASSUME PInv PROVE TypeOK
    OBVIOUS
  <2> QED
    BY DEF PInv, Types, PlaceInv, EntriesInv, ImagesInv, CloudInv, NameAt, TypeOK
<1> QED
  BY <1>1, PipelineInvariant, PTL

\* URL maps list the targets of the deployments that wrote them, of functions
\* that exist; and no function is forgotten but by a deployment that stopped
\* half-way, found no URL or shares its file (deploy, write_url_map).
THEOREM FunctionsAlwaysListed == Spec => []FunctionsListed
<1>1. PInv => FunctionsListed
  <2> SUFFICES ASSUME PInv PROVE FunctionsListed
    OBVIOUS
  <2> USE DEF PInv
  <2> DEFINE lists(f) == \E m \in Range(urlMap) : \E e \in Range(m.entries) : e.function = f
             stray(j) == \/ stage[j] \notin {"new", "done"} \/ OnAli(j)
                         \/ \E k \in world.jobs : Key(j) # Key(k) /\ File(j) = File(k)
  <2>1. ASSUME NEW file \in DOMAIN urlMap
        PROVE  \E j \in world.jobs :
                 LET m == urlMap[file] IN
                 /\ Is(j, "deploy", "done") /\ Key(j) = m.key /\ File(j) = file
                 /\ ~OnAli(j) => DOMAIN m.entries = TargetNames(Config(j), FamilyOf(j))
                 /\ \A e \in Range(m.entries) : e.function \in DOMAIN cloud
    BY DEF UrlsInv, Range
  <2>2. ASSUME NEW f \in DOMAIN cloud
        PROVE  lists(f) \/ \E j \in world.jobs : /\ world.command[j] = "deploy"
                                                 /\ Key(j) = cloud[f].maker /\ stray(j)
    <3>1. PICK j \in world.jobs :
            /\ world.command[j] = "deploy" /\ stage[j] # "new" /\ Key(j) = cloud[f].maker
            /\ \E i \in TargetsOf(j) : f = FunctionAt(j, i)
      BY DEF CloudInv
    <3>2. CASE stray(j)
      BY <3>1, <3>2
    <3>3. CASE ~stray(j)
      <4>1. /\ Is(j, "deploy", "done") /\ ~OnAli(j)
            /\ \A k \in world.jobs : File(k) = File(j) => Key(k) = Key(j)
        BY <3>1, <3>3 DEF Is
      <4>2. File(j) \in DOMAIN urlMap
            /\ \E x \in DOMAIN urlMap[File(j)].entries :
                 urlMap[File(j)].entries[x].function = f
        BY <3>1, <4>1 DEF DoneInv
      <4>3. lists(f)
        BY <4>2 DEF Range
      <4> QED
        BY <4>3
    <3> QED
      BY <3>2, <3>3
  <2> QED
    BY <2>1, <2>2 DEF FunctionsListed
<1> QED
  BY <1>1, PipelineInvariant, PTL

-----------------------------------------------------------------------------
(* The third invariant: as long as nobody interferes, what is built,       *)
(* pushed, deployed, listed and called under a job's names is its own.     *)

\* The user builds a project for a provider once, deploys it when that is
\* done, and runs it when it is deployed: "The basic workflow is build, deploy,
\* then replay a trace" (src/README.md:92).
InOrder ==
  \A w \in Worlds : \A j \in w.jobs :
    LET same(k) == w.project[k] = w.project[j] /\ w.provider[k] = w.provider[j]
        before == IF w.command[j] = "deploy" THEN "build" ELSE "deploy"
    IN  IF w.command[j] = "build"
        THEN \A k \in w.jobs : same(k) /\ w.command[k] = "build" => k = j
        ELSE \E k \in w.after[j] \cap w.jobs : same(k) /\ w.command[k] = before

Calm(j) == Key(j) \notin disturbed

DirectoryAt(j, i) == <<Config(j).bench, NameAt(j, i)>>

TagAt(j, i) == Tag(j, NameAt(j, i))

OwnFiles(j, i) == [project |-> world.project[j], family |-> FamilyOf(j),
                   provider |-> Provider(j), index |-> i]

OwnImage(j, i) == Image(OwnFiles(j, i), Provider(j))

Given(j, i) == RuntimeOf(Units(Config(j), FamilyOf(j))[i].deploy)["memory"]

EntryAt(j, i) ==
  [function |-> FunctionAt(j, i), memory |-> Given(j, i),
   tools |-> ManifestAt(Config(j), FamilyOf(j), i)]

\* A memory that a function gets if one is given.
Fits(j, memory, given) == memory = MemoryOf(Provider(j), given)

Holds(f, x, v) == x \in DOMAIN f /\ f[x] = v

\* Entries of a job's own targets.
Lists(es, j) ==
  \A x \in DOMAIN es : \E i \in TargetsOf(j) : x = NameAt(j, i) /\ es[x] = EntryAt(j, i)

\* A job follows those that the user waits for, and is at its end when done.
AfterAt(j) ==
  /\ stage[j] # "new" => \A k \in world.after[j] : stage[k] = "done"
  /\ stage[j] = "new" => at[j] = 1
  /\ world.command[j] # "run" \/ stage[j] \in {"new", "work"} => answers[j] = <<>>
  /\ world.command[j] # "run" /\ stage[j] = "done" => at[j] \notin TargetsOf(j)

\* A build has its files, then its image, under the target's names.
BuiltAt(j) ==
  world.command[j] = "build" /\ Calm(j) =>
    /\ stage[j] = "copied" => Holds(dist, DirectoryAt(j, at[j]), OwnFiles(j, at[j]))
    /\ \A i \in TargetsOf(j) : i < at[j] =>
         /\ Holds(images, TagAt(j, i), OwnImage(j, i))
         /\ Provider(j) = "mcp_gateway" =>
              Holds(registry, <<"dockerhub", TagAt(j, i)>>, OwnImage(j, i))

\* What is pushed had been built under the same name.
PushedAt(j) ==
  Is(j, "deploy", "pushed") /\ Calm(j) /\ OwnNames(j) =>
    Holds(registry, <<Registry(Provider(j)), TagAt(j, at[j])>>, OwnImage(j, at[j]))

\* A function is its maker's, or that of the deployment that has updated it.
OwnAt(j, i) ==
  LET f == cloud[FunctionAt(j, i)] IN
  /\ \/ f.maker = Key(j)
     \/ ~OnAli(j) /\ (i < at[j] \/ (i = at[j] /\ stage[j] = "placed"))
     => f.image = OwnImage(j, i) /\ Fits(j, f.memory, Given(j, i))
  /\ stage[j] = "coded" /\ i = at[j] => f.image = OwnImage(j, i)

OwnInv ==
  \A j \in world.jobs : world.command[j] = "deploy" /\ Calm(j) /\ OwnNames(j) =>
    \A i \in TargetsOf(j) : FunctionAt(j, i) \in DOMAIN cloud => OwnAt(j, i)

\* The entries of a job, and of what it finds in its URL map, are its own.
ListedAt(j) ==
  /\ world.command[j] = "deploy" => Lists(entries[j], j)
  /\ Is(j, "deploy", "done") /\ Calm(j) =>
       File(j) \in DOMAIN urlMap /\ urlMap[File(j)].key = Key(j)
  /\ Is(j, "run", "calling") /\ Calm(j) =>
       /\ TargetNames(Config(j), FamilyOf(j)) \subseteq DOMAIN entries[j]
       /\ Lists(entries[j], j)

MapsInv == \A file \in DOMAIN urlMap : \E j \in world.jobs :
             Key(j) = urlMap[file].key /\ Lists(urlMap[file].entries, j)

\* The answer of a call is what CallsReachOwnTools asks of it.
AnsweredBy(j, t, a, e) ==
  LET r == Route(j, t) IN
  (OnAli(j) => a.maker = Key(j)) =>
    /\ a.node = r.node
    /\ a.image.provider = Provider(j)
    /\ <<a.image.files.project, a.image.files.provider>> = Key(j)
    /\ TargetAt(Config(j), FamilyOf(j), a.image.files.index) = r.target
    /\ a.memory = MemoryOf(Provider(j), e.memory)

CallsAt(j) ==
  world.command[j] = "run" /\ Calm(j) /\ ToolsApart(j) /\ OwnNames(j) =>
    \A t \in DOMAIN answers[j] :
      AnsweredBy(j, t, answers[j][t], entries[j][Route(j, t).target])

OInv ==
  /\ answers = [j \in Jobs |-> answers[j]]
  /\ MapsInv
  /\ OwnInv
  /\ \A j \in world.jobs :
       AfterAt(j) /\ BuiltAt(j) /\ PushedAt(j) /\ ListedAt(j) /\ CallsAt(j)

\* Two jobs of one project and provider have the same names.
LEMMA SameNames ==
  ASSUME NEW j, NEW k, Key(j) = Key(k)
  PROVE  /\ Config(j) = Config(k) /\ FamilyOf(j) = FamilyOf(k)
         /\ Provider(j) = Provider(k) /\ OnAli(j) = OnAli(k) /\ File(j) = File(k)
         /\ TargetsOf(j) = TargetsOf(k) /\ world.project[j] = world.project[k]
         /\ OwnNames(j) <=> OwnNames(k)
         /\ \A i : /\ NameAt(j, i) = NameAt(k, i) /\ FunctionAt(j, i) = FunctionAt(k, i)
                   /\ TagAt(j, i) = TagAt(k, i) /\ DirectoryAt(j, i) = DirectoryAt(k, i)
                   /\ OwnImage(j, i) = OwnImage(k, i) /\ Given(j, i) = Given(k, i)
                   /\ EntryAt(j, i) = EntryAt(k, i)
         /\ \A m, g : Fits(j, m, g) <=> Fits(k, m, g)
         /\ \A es : Lists(es, j) <=> Lists(es, k)
<1>1. /\ world.project[j] = world.project[k] /\ world.provider[j] = world.provider[k]
  BY DEF Key, Provider
<1>2. /\ Config(j) = Config(k) /\ FamilyOf(j) = FamilyOf(k)
      /\ Provider(j) = Provider(k) /\ OnAli(j) = OnAli(k) /\ File(j) = File(k)
      /\ TargetsOf(j) = TargetsOf(k)
  BY <1>1 DEF Config, FamilyOf, Provider, OnAli, File, TargetsOf
<1>3. \A i : NameAt(j, i) = NameAt(k, i)
  BY <1>2 DEF NameAt
<1>n. OwnNames(j) <=> OwnNames(k)
  BY <1>2 DEF OwnNames, Targets
<1>4. \A i : /\ FunctionAt(j, i) = FunctionAt(k, i)
             /\ TagAt(j, i) = TagAt(k, i) /\ DirectoryAt(j, i) = DirectoryAt(k, i)
  BY <1>2, <1>3 DEF FunctionAt, TagAt, Tag, DirectoryAt
<1>5. \A i : OwnImage(j, i) = OwnImage(k, i) /\ Given(j, i) = Given(k, i)
  BY <1>1, <1>2 DEF OwnImage, OwnFiles, Given
<1>6. \A i : EntryAt(j, i) = EntryAt(k, i)
  BY <1>2, <1>4, <1>5 DEF EntryAt
<1>7. \A m, g : Fits(j, m, g) <=> Fits(k, m, g)
  BY <1>2 DEF Fits
<1>8. \A es : Lists(es, j) <=> Lists(es, k)
  BY <1>2, <1>3, <1>6 DEF Lists
<1> QED
  BY <1>1, <1>2, <1>3, <1>n, <1>4, <1>5, <1>6, <1>7, <1>8

\* The world is chosen once.
LEMMA FixedNames ==
  ASSUME world' = world
  PROVE  \A j : /\ ToolsApart(j)' <=> ToolsApart(j)
                /\ OwnNames(j)' <=> OwnNames(j)
                /\ \A i : /\ TagAt(j, i)' = TagAt(j, i)
                          /\ DirectoryAt(j, i)' = DirectoryAt(j, i)
                          /\ OwnFiles(j, i)' = OwnFiles(j, i)
                          /\ OwnImage(j, i)' = OwnImage(j, i)
                          /\ Given(j, i)' = Given(j, i) /\ EntryAt(j, i)' = EntryAt(j, i)
                /\ \A t : Route(j, t)' = Route(j, t)
<1> SUFFICES ASSUME NEW j
             PROVE  /\ ToolsApart(j)' <=> ToolsApart(j)
                    /\ OwnNames(j)' <=> OwnNames(j)
                    /\ \A i : /\ TagAt(j, i)' = TagAt(j, i)
                              /\ DirectoryAt(j, i)' = DirectoryAt(j, i)
                              /\ OwnFiles(j, i)' = OwnFiles(j, i)
                              /\ OwnImage(j, i)' = OwnImage(j, i)
                              /\ Given(j, i)' = Given(j, i) /\ EntryAt(j, i)' = EntryAt(j, i)
                    /\ \A t : Route(j, t)' = Route(j, t)
  OBVIOUS
<1>1. ToolsApart(j)' <=> ToolsApart(j)
  BY DEF ToolsApart, Config, FamilyOf, Provider, TargetsOf
<1>n. OwnNames(j)' <=> OwnNames(j)
  BY DEF OwnNames, Targets, Config, FamilyOf, Provider
<1>2. \A i : TagAt(j, i)' = TagAt(j, i) /\ DirectoryAt(j, i)' = DirectoryAt(j, i)
  BY DEF TagAt, Tag, DirectoryAt, NameAt, Config, FamilyOf, Provider
<1>3. \A i : OwnFiles(j, i)' = OwnFiles(j, i) /\ OwnImage(j, i)' = OwnImage(j, i)
  BY DEF OwnFiles, OwnImage, FamilyOf, Provider
<1>4. \A i : Given(j, i)' = Given(j, i)
  BY DEF Given, Config, FamilyOf, Provider
<1>5. \A i : EntryAt(j, i)' = EntryAt(j, i)
  BY <1>4, Fixed DEF EntryAt
<1>6. \A t : Route(j, t)' = Route(j, t)
  BY DEF Route, Config, FamilyOf, Provider
<1> QED
  BY <1>1, <1>n, <1>2, <1>3, <1>4, <1>5, <1>6

LEMMA FixedLists ==
  ASSUME world' = world
  PROVE  \A j : /\ \A es : Lists(es, j) <=>
                     (\A x \in DOMAIN es : \E i \in TargetsOf(j)' :
                        x = NameAt(j, i)' /\ es[x] = EntryAt(j, i)')
                /\ \A m, g : Fits(j, m, g) <=> m = MemoryOf(Provider(j)', g)
  BY Fixed, FixedNames DEF Lists, Fits

\* Where a job is, its operators are those of its target.
LEMMA AtNames ==
  ASSUME NEW j
  PROVE  /\ Directory(j) = DirectoryAt(j, at[j]) /\ Files(j) = OwnFiles(j, at[j])
         /\ Tag(j, Target(j)) = TagAt(j, at[j])
         /\ Entry(j) = EntryAt(j, at[j])
         /\ Fits(j, Memory(j), Given(j, at[j]))
         /\ OwnNames(j) /\ at[j] \in TargetsOf(j) =>
              /\ DeployName(j) = Target(j)
              /\ Pushed(j) = <<Registry(Provider(j)), TagAt(j, at[j])>>
<1>1. Target(j) = NameAt(j, at[j]) /\ Function(j) = FunctionAt(j, at[j])
  BY FunctionOf
<1>2. Deploy(j)["memory"] = Given(j, at[j])
  BY DEF Deploy, Given
<1>3. Fits(j, Memory(j), Given(j, at[j]))
  BY <1>2 DEF Fits, Memory
<1>4. Entry(j) = EntryAt(j, at[j])
  BY <1>1, <1>2 DEF Entry, EntryAt, Manifest
<1>5. OwnNames(j) /\ at[j] \in TargetsOf(j) => DeployName(j) = Target(j)
  BY DEF OwnNames, Targets, TargetNames, TargetsOf, Target, DeployName
<1> QED
  BY <1>1, <1>3, <1>4, <1>5 DEF Directory, DirectoryAt, Files, OwnFiles, TagAt, Pushed

\* Of the targets of a job that has resolved its configuration, no two have one
\* name, nor one function if their names are their own.
LEMMA OneName ==
  ASSUME ResolvedInv, NEW j \in world.jobs, stage[j] \notin {"new", "failed"},
         NEW i \in TargetsOf(j), NEW l \in TargetsOf(j), NameAt(j, i) = NameAt(j, l)
  PROVE  i = l
<1>1. Resolves(Config(j), FamilyOf(j))
  BY DEF ResolvedInv, ResolvedAt
<1> QED
  BY <1>1, TargetNamesDistinct DEF NameAt, TargetsOf

LEMMA OneFunction ==
  ASSUME ResolvedInv, NEW j \in world.jobs, stage[j] \notin {"new", "failed"}, OwnNames(j),
         NEW i \in TargetsOf(j), at[j] \in TargetsOf(j), FunctionAt(j, i) = Function(j)
  PROVE  i = at[j]
<1>1. NameAt(j, i) \in Targets(j) /\ NameAt(j, at[j]) \in Targets(j)
  BY DEF Targets, TargetNames, TargetsOf, NameAt
<1>2. FunctionAt(j, i) = FunctionAt(j, at[j])
  BY FunctionOf
<1>3. NameAt(j, i) = NameAt(j, at[j])
  BY <1>1, <1>2 DEF OwnNames, FunctionAt
<1> QED
  BY <1>3, OneName

-----------------------------------------------------------------------------
(* What the steps do to the stores. *)

\* Only a build that begins forgets who has interfered; every step that
\* changes a store tells whom it interferes with.
StoreStep(k) ==
  /\ \/ disturbed' = disturbed /\ UNCHANGED stores
     \/ /\ Begin(k) /\ world.command[k] = "build" /\ disturbed' = disturbed \ {Key(k)}
        /\ UNCHANGED stores
     \/ /\ Disturb(k)
        /\ \/ Prepare(k) /\ UNCHANGED <<images, registry, cloud, urlMap>>
           \/ DockerBuild(k) /\ UNCHANGED <<dist, cloud, urlMap>>
           \/ Push(k) /\ UNCHANGED <<dist, images, cloud, urlMap>>
           \/ /\ PlaceFunction(k) \/ UpdateCode(k) \/ UpdateConfiguration(k) \/ Register(k)
              /\ UNCHANGED <<dist, images, registry, urlMap>>
           \/ WriteUrlMap(k) /\ UNCHANGED <<dist, images, registry, cloud>>
  /\ answers' = answers \/ \E t \in Config(k).trace : Call(k, t)

LEMMA EachStoreStep ==
  ASSUME NEW k, Step(k)
  PROVE  StoreStep(k)
<1>1. CASE Begin(k)
  <2>1. UNCHANGED stores /\ answers' = answers
        /\ \/ disturbed' = disturbed
           \/ world.command[k] = "build" /\ disturbed' = disturbed \ {Key(k)}
    BY <1>1 DEF Begin
  <2> QED
    BY <1>1, <2>1 DEF StoreStep
<1>2. CASE Fail(k)
  BY <1>2 DEF Fail, StoreStep
<1>3. CASE Build(k)
  <2>1. CASE Prepare(k)
    BY <2>1 DEF Prepare, StoreStep
  <2>2. CASE DockerBuild(k)
    BY <2>2 DEF DockerBuild, StoreStep
  <2>3. CASE Built(k)
    BY <2>3 DEF Built, StoreStep
  <2> QED
    BY <1>3, <2>1, <2>2, <2>3 DEF Build
<1>4. CASE DeployTarget(k)
  <2>1. CASE Push(k)
    BY <2>1 DEF Push, StoreStep
  <2>2. CASE PlaceFunction(k)
    BY <2>2 DEF PlaceFunction, StoreStep
  <2>3. CASE UpdateCode(k)
    BY <2>3 DEF UpdateCode, StoreStep
  <2>4. CASE UpdateConfiguration(k)
    BY <2>4 DEF UpdateConfiguration, StoreStep
  <2>5. CASE Register(k)
    BY <2>5 DEF Register, StoreStep
  <2>6. CASE WriteUrlMap(k)
    BY <2>6 DEF WriteUrlMap, StoreStep
  <2>7. CASE CreateSwallowed(k) \/ Poll(k) \/ GiveUp(k) \/ FindUrl(k) \/ NoUrl(k)
    BY <2>7 DEF CreateSwallowed, Poll, GiveUp, FindUrl, NoUrl, StoreStep
  <2> QED
    BY <1>4, <2>1, <2>2, <2>3, <2>4, <2>5, <2>6, <2>7 DEF DeployTarget
<1>5. CASE Run(k)
  <2>1. CASE Connect(k) \/ Replayed(k)
    BY <2>1 DEF Connect, Replayed, StoreStep
  <2>2. CASE \E t \in Config(k).trace : Call(k, t)
    <3>1. disturbed' = disturbed /\ UNCHANGED stores
      BY <2>2 DEF Call
    <3> QED
      BY <2>2, <3>1 DEF StoreStep
  <2> QED
    BY <1>5, <2>1, <2>2 DEF Run
<1> QED
  BY <1>1, <1>2, <1>3, <1>4, <1>5 DEF Step

\* A step of a job leaves the others where they are.
LEMMA OthersStay ==
  ASSUME PInv, answers = [i \in Jobs |-> answers[i]], NEW k \in world.jobs, k \in Jobs,
         JobStep(k), StoreStep(k)
  PROVE  /\ world' = world /\ answers' = [i \in Jobs |-> answers'[i]]
         /\ \A j \in Jobs : j # k => /\ stage'[j] = stage[j] /\ at'[j] = at[j]
                                     /\ entries'[j] = entries[j] /\ answers'[j] = answers[j]
<1>1. /\ stage \in [Jobs -> Stages] /\ at \in [Jobs -> Nat \ {0}]
      /\ entries = [i \in Jobs |-> entries[i]]
  BY DEF PInv, Types
<1>2. /\ \E s : stage' = [stage EXCEPT ![k] = s]
      /\ at' = at \/ \E a : at' = [at EXCEPT ![k] = a]
      /\ entries' = entries \/ \E v : entries' = [entries EXCEPT ![k] = v]
  BY DEF JobStep
<1>3. answers' = answers \/ \E v : answers' = [answers EXCEPT ![k] = v]
  <2>1. ASSUME NEW t, Call(k, t)
        PROVE  answers' = answers \/ \E v : answers' = [answers EXCEPT ![k] = v]
    BY <2>1 DEF Call
  <2> QED
    BY <2>1 DEF StoreStep
<1> QED
  BY <1>1, <1>2, <1>3 DEF JobStep

\* Whatever a deployment or a run uses was built by a job that is done.
LEMMA BuiltBefore ==
  ASSUME InOrder, Types, NEW j \in world.jobs, AfterAt(j), stage[j] # "new",
         \A i \in world.jobs : AfterAt(i)
  PROVE  /\ world.command[j] = "run" =>
              \E d \in world.jobs : Key(d) = Key(j) /\ Is(d, "deploy", "done")
         /\ world.command[j] # "build" =>
              \E b \in world.jobs : Key(b) = Key(j) /\ Is(b, "build", "done")
<1>1. world \in Worlds /\ world.jobs \subseteq Jobs
  BY WorldFacts DEF Types
<1>2. \A i \in world.jobs :
        world.command[i] \in {"build", "deploy", "run"}
  BY <1>1, PipelineAssumption
<1>3. ASSUME NEW i \in world.jobs, stage[i] # "new", world.command[i] # "build", AfterAt(i)
      PROVE  \E b \in world.jobs :
               /\ Key(b) = Key(i) /\ stage[b] = "done"
               /\ world.command[b] = IF world.command[i] = "deploy" THEN "build" ELSE "deploy"
  <2>1. PICK b \in world.after[i] \cap world.jobs :
          /\ world.project[b] = world.project[i] /\ world.provider[b] = world.provider[i]
          /\ world.command[b] = IF world.command[i] = "deploy" THEN "build" ELSE "deploy"
    BY <1>1, <1>3 DEF InOrder
  <2>2. stage[b] = "done"
    BY <1>3, <2>1 DEF AfterAt
  <2> QED
    BY <2>1, <2>2 DEF Key, Provider
<1>4. CASE world.command[j] = "run"
  <2>1. PICK d \in world.jobs : Key(d) = Key(j) /\ stage[d] = "done"
                                /\ world.command[d] = "deploy"
    BY <1>3, <1>4
  <2>2. PICK b \in world.jobs : Key(b) = Key(d) /\ stage[b] = "done"
                                /\ world.command[b] = "build"
    BY <1>3, <2>1
  <2> QED
    BY <1>4, <2>1, <2>2 DEF Is
<1>5. CASE world.command[j] = "deploy"
  BY <1>3, <1>5 DEF Is
<1> QED
  BY <1>2, <1>4, <1>5

LEMMA OneBuild ==
  ASSUME InOrder, Types, NEW j \in world.jobs, NEW k \in world.jobs, Key(j) = Key(k),
         world.command[j] = "build", world.command[k] = "build"
  PROVE  j = k
<1>1. world \in Worlds
  BY DEF Types
<1>2. world.project[j] = world.project[k] /\ world.provider[j] = world.provider[k]
  BY DEF Key, Provider
<1> QED
  BY <1>1, <1>2 DEF InOrder

\* While a build is not done, no job that uses it has begun.
LEMMA NotBegun ==
  ASSUME InOrder, Types, \A i \in world.jobs : AfterAt(i),
         NEW k \in world.jobs, world.command[k] = "build", stage[k] # "done",
         NEW j \in world.jobs, Key(j) = Key(k), j # k
  PROVE  stage[j] = "new" /\ world.command[j] # "build"
<1>1. world.command[j] # "build"
  BY OneBuild
<1>2. ASSUME stage[j] # "new" PROVE FALSE
  <2>1. PICK b \in world.jobs : Key(b) = Key(j) /\ Is(b, "build", "done")
    BY <1>1, <1>2, BuiltBefore
  <2>2. b = k
    BY <2>1, OneBuild DEF Is
  <2> QED
    BY <2>1, <2>2 DEF Is
<1> QED
  BY <1>1, <1>2

\* A job that has begun and is calm after a step was calm before it.
LEMMA CalmBefore ==
  ASSUME InOrder, Types, \A i \in world.jobs : AfterAt(i),
         NEW k \in world.jobs, StoreStep(k),
         NEW j \in world.jobs, stage[j] # "new", Key(j) \notin disturbed'
  PROVE  Calm(j)
<1>1. CASE Begin(k) /\ world.command[k] = "build" /\ disturbed' = disturbed \ {Key(k)}
  <2>1. stage[k] = "new"
    BY <1>1 DEF Begin
  <2>2. j # k
    BY <2>1
  <2>3. Key(j) # Key(k)
    BY <1>1, <2>1, <2>2, NotBegun
  <2> QED
    BY <1>1, <2>3 DEF Calm
<1>2. CASE disturbed \subseteq disturbed'
  BY <1>2 DEF Calm
<1> QED
  BY <1>1, <1>2 DEF StoreStep, Disturb

Same(f, g, x) ==
  /\ x \in DOMAIN f <=> x \in DOMAIN g
  /\ x \in DOMAIN f => g[x] = f[x]

LEMMA PutSame ==
  ASSUME NEW f, NEW x, NEW v, NEW y, x # y
  PROVE  Same(f, Put(f, x, v), y)
  BY DEF Same, Put

\* Jobs of which one writes under a name of the other clash.
LEMMA NamesClash ==
  ASSUME NEW j \in world.jobs, NEW k \in world.jobs, Key(j) # Key(k),
         at[k] \in TargetsOf(k), NEW i \in TargetsOf(j)
  PROVE  /\ DirectoryAt(j, i) = Directory(k) => Clash(k, j)
         /\ TagAt(j, i) = Tag(k, Target(k)) => Clash(k, j)
         /\ TagAt(j, i) = Tag(k, DeployName(k)) => Clash(k, j)
         /\ FunctionAt(j, i) = Function(k) => Clash(k, j)
<1>1. Target(k) \in Targets(k) /\ NameAt(j, i) \in Targets(j)
  BY DEF Targets, TargetNames, Target, NameAt, TargetsOf
<1>2. {Target(k), DeployName(k)} \subseteq Names(k) /\ NameAt(j, i) \in Names(j)
  BY <1>1 DEF Names, DeployName
<1>3. Function(k) \in Functions(k) /\ FunctionAt(j, i) \in Functions(j)
  BY <1>1 DEF Functions, Function, FunctionAt
<1>4. /\ DirectoryAt(j, i) = Directory(k) =>
           Config(j).bench = Config(k).bench /\ NameAt(j, i) = Target(k)
      /\ \A n : TagAt(j, i) = Tag(k, n) =>
           Config(j).bench = Config(k).bench /\ NameAt(j, i) = n
  BY DEF DirectoryAt, Directory, TagAt, Tag
<1>5. ASSUME Config(j).bench = Config(k).bench, NameAt(j, i) \in Names(k)
      PROVE  Clash(k, j)
  BY <1>2, <1>5 DEF Clash
<1>6. ASSUME FunctionAt(j, i) = Function(k) PROVE Clash(k, j)
  BY <1>3, <1>6 DEF Clash
<1> QED
  BY <1>2, <1>4, <1>5, <1>6

\* What a job of another project or provider leaves alone if it is not
\* recorded as interfering: everything under a job's own names.
LEMMA Undisturbed ==
  ASSUME PInv, NEW j \in world.jobs, NEW k \in world.jobs, Key(j) # Key(k),
         StoreStep(k), Key(j) \notin disturbed'
  PROVE  /\ \A i \in TargetsOf(j) :
              /\ Same(dist, dist', DirectoryAt(j, i))
              /\ Same(images, images', TagAt(j, i))
              /\ \A r : Same(registry, registry', <<r, TagAt(j, i)>>)
              /\ Same(cloud, cloud', FunctionAt(j, i))
         /\ Same(urlMap, urlMap', File(j))
<1> USE DEF PInv
<1>0. \A f, x : Same(f, f, x)
  BY DEF Same
<1>1. CASE UNCHANGED stores
  BY <1>0, <1>1 DEF stores
<1>2. CASE Disturb(k)
  <2>1. ~Clash(k, j)
    BY <1>2 DEF Disturb
  <2>2. CASE Prepare(k) /\ UNCHANGED <<images, registry, cloud, urlMap>>
    <3>1. at[k] \in TargetsOf(k) /\ \E v : dist' = Put(dist, Directory(k), v)
      BY <2>2 DEF Prepare, AtTarget
    <3> QED
      BY <1>0, <2>1, <2>2, <3>1, NamesClash, PutSame
  <2>3. CASE DockerBuild(k) /\ UNCHANGED <<dist, cloud, urlMap>>
    <3>1. PICK tag, v : /\ images' = Put(images, tag, v) /\ tag = Tag(k, Target(k))
                        /\ \/ registry' = registry
                           \/ registry' = Put(registry, <<"dockerhub", tag>>, v)
      BY <2>3 DEF DockerBuild
    <3>2. at[k] \in TargetsOf(k)
      BY <2>3 DEF DockerBuild, AtTarget
    <3>3. ASSUME NEW i \in TargetsOf(j)
          PROVE  /\ Same(images, images', TagAt(j, i))
                 /\ \A r : Same(registry, registry', <<r, TagAt(j, i)>>)
      <4>1. TagAt(j, i) # tag
        BY <2>1, <3>1, <3>2, NamesClash
      <4>2. \A r : <<"dockerhub", tag>> # <<r, TagAt(j, i)>>
        BY <4>1
      <4> QED
        BY <1>0, <3>1, <4>1, <4>2, PutSame
    <3> QED
      BY <1>0, <2>3, <3>3
  <2>4. CASE Push(k) /\ UNCHANGED <<dist, images, cloud, urlMap>>
    <3>1. /\ at[k] \in TargetsOf(k)
          /\ \E v : registry' =
                 Put(registry, <<Registry(Provider(k)), Tag(k, DeployName(k))>>, v)
      BY <2>4 DEF Push, AtTarget, Pushed
    <3>2. ASSUME NEW i \in TargetsOf(j), NEW r
          PROVE  Same(registry, registry', <<r, TagAt(j, i)>>)
      <4>1. TagAt(j, i) # Tag(k, DeployName(k))
        BY <2>1, <3>1, NamesClash
      <4>2. <<Registry(Provider(k)), Tag(k, DeployName(k))>> # <<r, TagAt(j, i)>>
        BY <4>1
      <4> QED
        BY <3>1, <4>2, PutSame
    <3> QED
      BY <1>0, <2>4, <3>2
  <2>5. CASE /\ PlaceFunction(k) \/ UpdateCode(k) \/ UpdateConfiguration(k) \/ Register(k)
             /\ UNCHANGED <<dist, images, registry, urlMap>>
    <3>1. /\ at[k] \in TargetsOf(k)
          /\ \/ \E v : cloud' = Put(cloud, Function(k), v)
             \/ \E v : cloud' = [cloud EXCEPT ![Function(k)] = v]
      BY <2>5 DEF PlaceFunction, UpdateCode, UpdateConfiguration, Register, AtTarget
    <3>2. \A v, y : y # Function(k) => Same(cloud, [cloud EXCEPT ![Function(k)] = v], y)
      BY DEF Same
    <3> QED
      BY <1>0, <2>1, <2>5, <3>1, <3>2, NamesClash, PutSame
  <2>6. CASE WriteUrlMap(k) /\ UNCHANGED <<dist, images, registry, cloud>>
    <3>1. \E v : urlMap' = Put(urlMap, File(k), v)
      BY <2>6 DEF WriteUrlMap
    <3>2. File(k) # File(j)
      BY <2>1 DEF Clash
    <3> QED
      BY <1>0, <2>6, <3>1, <3>2, PutSame
  <2>7. \/ disturbed' = disturbed /\ UNCHANGED stores
        \/ (Begin(k) /\ UNCHANGED stores)
        \/ Prepare(k) /\ UNCHANGED <<images, registry, cloud, urlMap>>
        \/ DockerBuild(k) /\ UNCHANGED <<dist, cloud, urlMap>>
        \/ Push(k) /\ UNCHANGED <<dist, images, cloud, urlMap>>
        \/ /\ PlaceFunction(k) \/ UpdateCode(k) \/ UpdateConfiguration(k) \/ Register(k)
           /\ UNCHANGED <<dist, images, registry, urlMap>>
        \/ WriteUrlMap(k) /\ UNCHANGED <<dist, images, registry, cloud>>
    BY DEF StoreStep
  <2> QED
    BY <1>1, <2>2, <2>3, <2>4, <2>5, <2>6, <2>7
<1> QED
  BY <1>1, <1>2 DEF StoreStep

-----------------------------------------------------------------------------
(* Each part of the third invariant is kept. *)

LEMMA StageSteps ==
  ASSUME Types, NEW k \in world.jobs, k \in Jobs, Step(k)
  PROVE  /\ stage[k] = "new" => Begin(k)
         /\ world.command[k] = "run" /\ stage'[k] \in {"new", "work"} => Begin(k)
         /\ world.command[k] # "run" /\ stage'[k] = "done" => at'[k] \notin TargetsOf(k)
         /\ stage[k] # "done" /\ stage'[k] # "new"
         /\ stage[k] # "calling" => answers' = answers
         /\ world.command[k] # "run" => answers' = answers
         /\ stage'[k] = "calling" => answers' = answers \/ stage[k] = "calling"
<1>0. stage \in [Jobs -> Stages] /\ at \in [Jobs -> Nat \ {0}]
  BY DEF Types
<1>1. CASE Begin(k)
  <2>1. /\ stage'[k] \in {"work", "failed"} /\ answers' = answers /\ stage[k] = "new"
    BY <1>0, <1>1 DEF Begin, Enter
  <2> QED
    BY <1>1, <2>1
<1>2. CASE Fail(k)
  <2>1. /\ stage'[k] = "failed" /\ answers' = answers /\ world.command[k] # "run"
        /\ stage[k] \in {"work", "copied", "pushed", "coded", "placed"}
    BY <1>0, <1>2 DEF Fail, Enter
  <2> QED
    BY <2>1
<1>3. CASE Build(k)
  <2>1. CASE Prepare(k)
    BY <1>0, <2>1 DEF Prepare, Enter, AtTarget, Is
  <2>2. CASE DockerBuild(k)
    <3>1. /\ stage'[k] = "work" /\ stage[k] = "copied" /\ answers' = answers
          /\ world.command[k] = "build"
      BY <1>0, <2>2 DEF DockerBuild, NextTarget, AtTarget, Is
    <3> QED
      BY <3>1
  <2>3. CASE Built(k)
    BY <1>0, <2>3 DEF Built, Enter, Is
  <2> QED
    BY <1>3, <2>1, <2>2, <2>3 DEF Build
<1>4. CASE DeployTarget(k)
  <2>1. /\ answers' = answers /\ world.command[k] = "deploy"
        /\ stage[k] \in {"work", "pushed", "coded", "placed"}
    BY <1>4 DEF DeployTarget, Push, PlaceFunction, UpdateCode, UpdateConfiguration,
                CreateSwallowed, Poll, GiveUp, FindUrl, NoUrl, Register, WriteUrlMap,
                AtTarget, Is
  <2>2. CASE WriteUrlMap(k)
    <3>1. stage'[k] = "done" /\ at'[k] \notin TargetsOf(k)
      BY <1>0, <2>2 DEF WriteUrlMap, Enter, Is
    <3> QED
      BY <2>1, <3>1
  <2>3. CASE Push(k) \/ PlaceFunction(k) \/ UpdateCode(k) \/ UpdateConfiguration(k)
             \/ CreateSwallowed(k) \/ GiveUp(k)
    <3>1. stage'[k] \in {"pushed", "placed", "coded", "failed"}
      BY <1>0, <2>3 DEF Push, PlaceFunction, UpdateCode, UpdateConfiguration,
                        CreateSwallowed, GiveUp, Enter
    <3> QED
      BY <2>1, <3>1
  <2>4. CASE FindUrl(k) \/ NoUrl(k) \/ Register(k)
    <3>1. stage'[k] = "work"
      BY <1>0, <2>4 DEF FindUrl, NoUrl, Register, NextTarget
    <3> QED
      BY <2>1, <3>1
  <2>5. CASE Poll(k)
    <3>1. stage'[k] = "placed"
      BY <2>5 DEF Poll, AtTarget, Is
    <3> QED
      BY <2>1, <3>1
  <2> QED
    BY <1>4, <2>2, <2>3, <2>4, <2>5 DEF DeployTarget
<1>5. CASE Run(k)
  <2>1. CASE Connect(k)
    <3>1. /\ stage'[k] \in {"calling", "failed"} /\ stage[k] = "work"
          /\ answers' = answers /\ world.command[k] = "run"
      BY <1>0, <2>1 DEF Connect, Enter, Is
    <3> QED
      BY <3>1
  <2>2. CASE Replayed(k)
    <3>1. /\ stage'[k] = "done" /\ stage[k] = "calling"
          /\ answers' = answers /\ world.command[k] = "run"
      BY <1>0, <2>2 DEF Replayed, Enter, Is
    <3> QED
      BY <3>1
  <2>3. ASSUME NEW t, Call(k, t)
        PROVE  /\ stage'[k] \in {"calling", "failed"} /\ stage[k] = "calling"
               /\ world.command[k] = "run"
    <3>1. /\ stage[k] = "calling" /\ world.command[k] = "run"
          /\ Enter(k, "failed") \/ UNCHANGED <<world, stage, at>>
      BY <2>3 DEF Call, Is
    <3> QED
      BY <1>0, <3>1 DEF Enter
  <2>4. CASE \E t \in Config(k).trace : Call(k, t)
    BY <2>3, <2>4
  <2> QED
    BY <1>5, <2>1, <2>2, <2>4 DEF Run
<1> QED
  BY <1>1, <1>2, <1>3, <1>4, <1>5 DEF Step

LEMMA AfterKept ==
  ASSUME PInv, answers = [i \in Jobs |-> answers[i]], NEW k \in world.jobs, k \in Jobs,
         Step(k), JobStep(k), StoreStep(k), NEW j \in world.jobs, j \in Jobs, AfterAt(j)
  PROVE  AfterAt(j)'
<1> USE DEF PInv
<1>1. /\ world' = world /\ TargetsOf(j)' = TargetsOf(j)
      /\ \A i \in Jobs : stage[i] = "done" => stage'[i] = "done"
      /\ world.after[j] \subseteq Jobs
  <2>1. world' = world /\ world.after[j] \subseteq Jobs
    BY PipelineAssumption DEF JobStep, Types
  <2> QED
    BY <2>1, Fixed, StagesKept
<1>2. CASE j # k
  <2>1. stage'[j] = stage[j] /\ at'[j] = at[j] /\ answers'[j] = answers[j]
    BY <1>2, OthersStay
  <2> QED
    BY <1>1, <2>1 DEF AfterAt
<1>3. CASE j = k
  <2>1. \A i \in world.after[j] : stage[i] = "done"
    <3>1. CASE stage[k] = "new"
      BY <1>3, <3>1, StageSteps DEF Begin
    <3>2. CASE stage[k] # "new"
      BY <1>3, <3>2 DEF AfterAt
    <3> QED
      BY <3>1, <3>2
  <2>2. stage'[j] # "new"
    BY <1>3, StageSteps
  <2>3. world.command[j] # "run" \/ stage'[j] \in {"new", "work"} => answers'[j] = <<>>
    <3>1. CASE world.command[j] # "run"
      BY <1>3, <3>1, StageSteps DEF AfterAt
    <3>2. CASE world.command[j] = "run" /\ stage'[j] \in {"new", "work"}
      <4>1. stage[j] = "new" /\ answers' = answers
        BY <1>3, <3>2, StageSteps DEF Begin
      <4> QED
        BY <4>1 DEF AfterAt
    <3> QED
      BY <3>1, <3>2
  <2>4. world.command[j] # "run" /\ stage'[j] = "done" => at'[j] \notin TargetsOf(j)
    BY <1>3, StageSteps
  <2> QED
    BY <1>1, <2>1, <2>2, <2>3, <2>4 DEF AfterAt
<1> QED
  BY <1>2, <1>3

LEMMA ListsExtended ==
  ASSUME NEW j, NEW es, Lists(es, j), NEW i \in TargetsOf(j)
  PROVE  Lists(Put(es, NameAt(j, i), EntryAt(j, i)), j)
  BY DEF Lists, Put

LEMMA MapsKept ==
  ASSUME MapsInv, NEW k \in world.jobs, StoreStep(k), world' = world, ListedAt(k)
  PROVE  MapsInv'
<1> DEFINE Own(m) == \E j \in world.jobs : Key(j) = m.key /\ Lists(m.entries, j)
<1>1. ASSUME NEW file \in DOMAIN urlMap' PROVE Own(urlMap'[file])
  <2>1. CASE urlMap' = urlMap
    BY <2>1 DEF MapsInv
  <2>2. CASE WriteUrlMap(k)
    <3>1. PICK m : m = [key |-> Key(k), provider |-> Provider(k), entries |-> entries[k]]
      OBVIOUS
    <3>2. urlMap' = Put(urlMap, File(k), m) /\ world.command[k] = "deploy"
      BY <2>2, <3>1 DEF WriteUrlMap, Is
    <3>3. Own(m)
      BY <3>1, <3>2 DEF ListedAt
    <3>4. \A x \in DOMAIN urlMap : Own(urlMap[x])
      BY DEF MapsInv
    <3> HIDE DEF Own
    <3> QED
      BY <3>2, <3>3, <3>4 DEF Put
  <2> QED
    BY <2>1, <2>2 DEF StoreStep, stores
<1>2. \A m : Own(m) <=> \E j \in world.jobs : Key(j)' = m.key /\ Lists(m.entries, j)
  BY Fixed
<1>3. \A j, es : Lists(es, j) <=>
        (\A x \in DOMAIN es : \E i \in TargetsOf(j)' :
            x = NameAt(j, i)' /\ es[x] = EntryAt(j, i)')
  BY FixedLists
<1> HIDE DEF Own
<1> QED
  BY <1>1, <1>2, <1>3 DEF MapsInv, Lists

LEMMA SameHolds ==
  ASSUME NEW f, NEW g, NEW x, NEW v, Same(f, g, x), Holds(f, x, v)
  PROVE  Holds(g, x, v)
  BY DEF Same, Holds

LEMMA PutHolds ==
  ASSUME NEW f, NEW x, NEW v
  PROVE  /\ Holds(Put(f, x, v), x, v)
         /\ \A y, u : Holds(f, y, u) /\ y # x => Holds(Put(f, x, v), y, u)
  BY DEF Holds, Put

LEMMA BuiltKept ==
  ASSUME InOrder, PInv, ResolvedInv, answers = [i \in Jobs |-> answers[i]],
         \A i \in world.jobs : AfterAt(i),
         NEW k \in world.jobs, k \in Jobs, Step(k), JobStep(k), StoreStep(k),
         NEW j \in world.jobs, j \in Jobs, BuiltAt(j)
  PROVE  BuiltAt(j)'
<1> USE DEF PInv
<1> DEFINE Files1(i) == Holds(dist, DirectoryAt(j, i), OwnFiles(j, i))
           Files2(i) == Holds(dist', DirectoryAt(j, i), OwnFiles(j, i))
           Made1(i) == /\ Holds(images, TagAt(j, i), OwnImage(j, i))
                       /\ Provider(j) = "mcp_gateway" =>
                            Holds(registry, <<"dockerhub", TagAt(j, i)>>, OwnImage(j, i))
           Made2(i) == /\ Holds(images', TagAt(j, i), OwnImage(j, i))
                       /\ Provider(j) = "mcp_gateway" =>
                            Holds(registry', <<"dockerhub", TagAt(j, i)>>, OwnImage(j, i))
<1>0. world' = world
  BY DEF JobStep
<1>1. SUFFICES ASSUME world.command[j] = "build", Key(j) \notin disturbed'
               PROVE  /\ stage'[j] = "copied" => Files2(at'[j])
                      /\ \A i \in TargetsOf(j) : i < at'[j] => Made2(i)
  <2>1. TargetsOf(j)' = TargetsOf(j) /\ Provider(j)' = Provider(j) /\ Key(j)' = Key(j)
    BY <1>0, Fixed
  <2>2. \A i : /\ TagAt(j, i)' = TagAt(j, i) /\ DirectoryAt(j, i)' = DirectoryAt(j, i)
               /\ OwnFiles(j, i)' = OwnFiles(j, i) /\ OwnImage(j, i)' = OwnImage(j, i)
    BY <1>0, FixedNames
  <2> QED
    BY <1>0, <2>1, <2>2 DEF BuiltAt, Calm, Holds
<1>2. PICK n \in Nat : TargetsOf(j) = 1 .. n
  BY WorldFacts
<1>3. /\ stage \in [Jobs -> Stages] /\ at \in [Jobs -> Nat \ {0}] /\ AfterAt(j)
  BY DEF Types
<1>4. stage[j] # "new" =>
        /\ stage[j] = "copied" => Files1(at[j])
        /\ \A i \in TargetsOf(j) : i < at[j] => Made1(i)
  BY <1>1, CalmBefore DEF BuiltAt
<1>5. stage[j] = "new" => \A i \in TargetsOf(j) : ~(i < at[j])
  BY <1>2, <1>3 DEF AfterAt
<1>6. CASE j # k
  <2>1. stage'[j] = stage[j] /\ at'[j] = at[j]
    BY <1>6, OthersStay
  <2>2. CASE stage[j] = "new"
    BY <1>5, <2>1, <2>2
  <2>3. CASE stage[j] # "new" /\ Key(j) # Key(k)
    <3>1. stage[j] = "copied" => at[j] \in TargetsOf(j)
      BY DEF PlaceInv
    <3>2. \A i \in TargetsOf(j) : Files1(i) => Files2(i)
      BY <1>1, <2>3, Undisturbed, SameHolds
    <3>3. \A i \in TargetsOf(j) : Made1(i) => Made2(i)
      BY <1>1, <2>3, Undisturbed, SameHolds
    <3> HIDE DEF Files1, Files2, Made1, Made2
    <3> QED
      BY <1>4, <2>1, <2>3, <3>1, <3>2, <3>3
  <2>4. CASE stage[j] # "new" /\ Key(j) = Key(k)
    <3>1. world.command[k] # "build"
      BY <1>1, <1>6, <2>4, OneBuild
    <3>2. dist' = dist /\ images' = images
      BY <3>1 DEF StoreStep, stores, Prepare, DockerBuild, AtTarget, Is
    <3>3. Provider(j) = "mcp_gateway" => registry' = registry
      <4>1. Provider(j) = Provider(k)
        BY <2>4, SameNames
      <4> QED
        BY <3>1, <4>1 DEF StoreStep, stores, Push, DockerBuild, AtTarget, Is
    <3> QED
      BY <1>4, <2>1, <2>4, <3>2, <3>3
  <2> QED
    BY <2>2, <2>3, <2>4
<1>7. CASE j = k
  <2>1. CASE Begin(k)
    <3>1. stage[k] = "new" /\ stage'[k] \in {"work", "failed"} /\ at' = at
      BY <1>3, <2>1 DEF Begin, Enter
    <3> QED
      BY <1>5, <1>7, <3>1
  <2>2. CASE Fail(k) \/ Built(k)
    <3>1. /\ stage[k] # "new" /\ stage'[k] \in {"failed", "done"} /\ at' = at
          /\ images' = images /\ registry' = registry
      BY <1>3, <2>2 DEF Fail, Built, Enter, Is, stores
    <3> QED
      BY <1>4, <1>7, <3>1
  <2>3. CASE Prepare(k)
    <3>1. /\ stage[k] # "new" /\ at' = at /\ images' = images /\ registry' = registry
          /\ dist' = Put(dist, Directory(k), Files(k))
      BY <1>3, <2>3 DEF Prepare, AtTarget, Enter, Is
    <3>2. Files2(at[k])
      BY <1>7, <3>1, AtNames, PutHolds
    <3> QED
      BY <1>4, <1>7, <3>1, <3>2
  <2>4. CASE DockerBuild(k)
    <3>1. PICK image : image = Image(dist[Directory(k)], Provider(k))
      OBVIOUS
    <3>2. /\ stage[k] = "copied" /\ at[k] \in TargetsOf(k) /\ stage'[k] = "work"
          /\ at'[k] = at[k] + 1
          /\ images' = Put(images, Tag(k, Target(k)), image)
          /\ Provider(k) = "mcp_gateway" =>
               registry' = Put(registry, <<"dockerhub", Tag(k, Target(k))>>, image)
      BY <1>3, <2>4, <3>1 DEF DockerBuild, AtTarget, NextTarget, Is
    <3>3. PICK a : a = at[k]
      OBVIOUS
    <3>4. Tag(k, Target(k)) = TagAt(j, a) /\ image = OwnImage(j, a)
      <4>1. dist[DirectoryAt(j, a)] = OwnFiles(j, a)
        BY <1>4, <1>7, <3>2, <3>3 DEF Holds
      <4> QED
        BY <1>7, <3>1, <3>3, <4>1, AtNames DEF OwnImage
    <3>5. Made2(a)
      BY <1>7, <3>2, <3>4, PutHolds
    <3>6. ASSUME NEW i \in TargetsOf(j), i # a, Made1(i) PROVE Made2(i)
      <4>1. TagAt(j, i) # TagAt(j, a)
        <5>1. NameAt(j, i) # NameAt(j, a)
          BY <1>7, <3>2, <3>3, <3>6, OneName
        <5> QED
          BY <5>1 DEF TagAt, Tag
      <4>2. <<"dockerhub", TagAt(j, i)>> # <<"dockerhub", TagAt(j, a)>>
        BY <4>1
      <4> QED
        BY <1>7, <3>2, <3>4, <3>6, <4>1, <4>2, PutHolds
    <3>7. \A i \in TargetsOf(j) : i < at'[j] => i = a \/ i < a
      <4>1. a \in Nat
        BY <1>3, <3>3
      <4> QED
        BY <1>2, <1>7, <3>2, <3>3, <4>1
    <3> HIDE DEF Made1, Made2
    <3>8. \A i \in TargetsOf(j) : i < at'[j] => Made2(i)
      <4>1. ASSUME NEW i \in TargetsOf(j), i < at'[j] PROVE Made2(i)
        <5>1. CASE i = a
          BY <3>5, <5>1
        <5>2. CASE i # a
          <6>1. Made1(i)
            BY <1>4, <1>7, <3>2, <3>3, <3>7, <4>1, <5>2
          <6> QED
            BY <3>6, <5>2, <6>1
        <5> QED
          BY <5>1, <5>2
      <4> QED
        BY <4>1
    <3> QED
      BY <1>7, <3>2, <3>8
  <2>5. ~DeployTarget(k) /\ ~Run(k)
    BY <1>1, <1>7 DEF DeployTarget, Push, PlaceFunction, UpdateCode, UpdateConfiguration,
                CreateSwallowed, Poll, GiveUp, FindUrl, NoUrl, Register, WriteUrlMap,
                AtTarget, Is, Run, Connect, Replayed, Call
  <2> QED
    BY <2>1, <2>2, <2>3, <2>4, <2>5 DEF Step, Build
<1> QED
  BY <1>6, <1>7

\* A job that is past its last target has been at them all.
LEMMA PastTargets ==
  ASSUME PInv, NEW j \in Jobs, at[j] \notin TargetsOf(j), NEW i \in TargetsOf(j)
  PROVE  i < at[j]
<1>1. PICK n \in Nat : TargetsOf(j) = 1 .. n
  BY WorldFacts DEF PInv
<1>2. at[j] \in Nat \ {0} /\ (at[j] = 1 \/ at[j] - 1 \in 1 .. n)
  BY <1>1 DEF PInv, Types, PlaceInv
<1> QED
  BY <1>1, <1>2

\* What a calm deployment is to deploy, its project's build has made.
LEMMA ImageBuilt ==
  ASSUME InOrder, PInv,
         \A i \in world.jobs : AfterAt(i), \A i \in world.jobs : BuiltAt(i),
         NEW k \in world.jobs, world.command[k] = "deploy", stage[k] # "new",
         NEW a \in TargetsOf(k), Calm(k)
  PROVE  /\ Holds(images, TagAt(k, a), OwnImage(k, a))
         /\ Provider(k) = "mcp_gateway" =>
              Holds(registry, <<"dockerhub", TagAt(k, a)>>, OwnImage(k, a))
<1>1. PICK b \in world.jobs : Key(b) = Key(k) /\ Is(b, "build", "done")
  BY BuiltBefore DEF PInv
<1>2. b \in Jobs /\ at[b] \notin TargetsOf(b)
  <2>1. AfterAt(b) /\ world.command[b] # "run" /\ stage[b] = "done"
    BY <1>1 DEF Is
  <2> QED
    BY <2>1, WorldFacts DEF AfterAt, PInv
<1>3. a \in TargetsOf(b) /\ a < at[b]
  BY <1>1, <1>2, SameNames, PastTargets
<1>4. /\ Holds(images, TagAt(b, a), OwnImage(b, a))
      /\ Provider(b) = "mcp_gateway" =>
           Holds(registry, <<"dockerhub", TagAt(b, a)>>, OwnImage(b, a))
  BY <1>1, <1>3 DEF BuiltAt, Is, Calm
<1>5. /\ TagAt(b, a) = TagAt(k, a) /\ OwnImage(b, a) = OwnImage(k, a)
      /\ Provider(b) = Provider(k)
  BY <1>1, SameNames
<1> QED
  BY <1>4, <1>5

\* A calm deployment pushes the image that its project's build has made.
LEMMA PushGives ==
  ASSUME InOrder, PInv,
         \A i \in world.jobs : AfterAt(i), \A i \in world.jobs : BuiltAt(i),
         NEW k \in world.jobs, Push(k), Calm(k), OwnNames(k)
  PROVE  /\ at[k] \in TargetsOf(k)
         /\ registry' = Put(registry, <<Registry(Provider(k)), TagAt(k, at[k])>>,
                            OwnImage(k, at[k]))
<1>1. /\ at[k] \in TargetsOf(k) /\ stage[k] # "new" /\ world.command[k] = "deploy"
      /\ registry' = Put(registry, Pushed(k), images[Tag(k, DeployName(k))])
  BY DEF Push, AtTarget, Is, Pushed
<1>2. Holds(images, TagAt(k, at[k]), OwnImage(k, at[k]))
  BY <1>1, ImageBuilt
<1>3. /\ Pushed(k) = <<Registry(Provider(k)), TagAt(k, at[k])>>
      /\ Tag(k, DeployName(k)) = TagAt(k, at[k])
  BY <1>1, AtNames
<1> QED
  BY <1>1, <1>2, <1>3 DEF Holds

LEMMA PushedKept ==
  ASSUME InOrder, PInv, ResolvedInv, answers = [i \in Jobs |-> answers[i]],
         \A i \in world.jobs : AfterAt(i), \A i \in world.jobs : BuiltAt(i),
         NEW k \in world.jobs, k \in Jobs, Step(k), JobStep(k), StoreStep(k),
         NEW j \in world.jobs, j \in Jobs, PushedAt(j)
  PROVE  PushedAt(j)'
<1> USE DEF PInv
<1> DEFINE Has(f, i) == Holds(f, <<Registry(Provider(j)), TagAt(j, i)>>, OwnImage(j, i))
<1>0. world' = world
  BY DEF JobStep
<1>1. SUFFICES ASSUME world.command[j] = "deploy", stage'[j] = "pushed",
                      Key(j) \notin disturbed', OwnNames(j)
               PROVE  Has(registry', at'[j])
  <2>1. Provider(j)' = Provider(j) /\ Key(j)' = Key(j)
    BY <1>0, Fixed
  <2>2. /\ \A i : TagAt(j, i)' = TagAt(j, i) /\ OwnImage(j, i)' = OwnImage(j, i)
        /\ OwnNames(j)' <=> OwnNames(j)
    BY <1>0, FixedNames
  <2>3. PushedAt(j)' <=>
          ((/\ world.command[j] = "deploy" /\ stage'[j] = "pushed"
            /\ Key(j) \notin disturbed' /\ OwnNames(j)) => Has(registry', at'[j]))
    BY <1>0, <2>1, <2>2 DEF PushedAt, Is, Calm, Holds
  <2> QED
    BY <2>3
<1>2. stage \in [Jobs -> Stages] /\ at \in [Jobs -> Nat \ {0}]
  BY DEF Types
<1>3. CASE j # k
  <2>1. stage[j] = stage'[j] /\ at'[j] = at[j]
    BY <1>1, <1>3, OthersStay
  <2>2. at[j] \in TargetsOf(j)
    BY <1>1, <2>1 DEF PlaceInv
  <2>3. Has(registry', at[j])
    <3>1. Calm(j)
      BY <1>1, <2>1, CalmBefore
    <3>2. Has(registry, at[j])
      BY <1>1, <2>1, <3>1 DEF PushedAt, Is
    <3>3. CASE Key(j) # Key(k)
      BY <1>1, <2>2, <3>2, <3>3, Undisturbed, SameHolds
    <3>4. CASE Key(j) = Key(k) /\ registry' = registry
      BY <3>2, <3>4
    <3>5. CASE Key(j) = Key(k) /\ DockerBuild(k)
      <4>1. world.command[k] = "build" /\ stage[k] # "done"
        BY <3>5 DEF DockerBuild, AtTarget, Is
      <4> QED
        BY <1>1, <1>3, <2>1, <3>5, <4>1, NotBegun
    <3>6. CASE Key(j) = Key(k) /\ Push(k)
      <4>1. Calm(k) /\ OwnNames(k)
        BY <1>1, <3>1, <3>6, SameNames DEF Calm
      <4>2. PICK a : a = at[k]
        OBVIOUS
      <4>3. /\ a \in TargetsOf(j)
            /\ registry' = Put(registry, <<Registry(Provider(j)), TagAt(j, a)>>,
                               OwnImage(j, a))
        BY <3>6, <4>1, <4>2, PushGives, SameNames
      <4>4. CASE a = at[j]
        BY <4>3, <4>4, PutHolds
      <4>5. CASE a # at[j]
        <5>1. NameAt(j, a) # NameAt(j, at[j])
          BY <1>1, <2>1, <2>2, <4>3, <4>5, OneName
        <5>2. TagAt(j, a) # TagAt(j, at[j])
          BY <5>1 DEF TagAt, Tag
        <5>3. <<Registry(Provider(j)), TagAt(j, a)>>
                # <<Registry(Provider(j)), TagAt(j, at[j])>>
          BY <5>2
        <5> QED
          BY <3>2, <4>3, <5>3, PutHolds
      <4> QED
        BY <4>4, <4>5
    <3> QED
      BY <3>3, <3>4, <3>5, <3>6 DEF StoreStep, stores
  <2> QED
    BY <2>1, <2>3
<1>4. CASE j = k
  <2>1. at' = at /\ Push(k)
    <3>1. CASE DeployTarget(k)
      <4>1. CASE FindUrl(k) \/ NoUrl(k) \/ Register(k)
        BY <1>1, <1>2, <1>4, <4>1 DEF FindUrl, NoUrl, Register, NextTarget
      <4>2. CASE PlaceFunction(k) \/ UpdateConfiguration(k)
                 \/ CreateSwallowed(k) \/ GiveUp(k) \/ WriteUrlMap(k)
        BY <1>1, <1>2, <1>4, <4>2 DEF PlaceFunction, UpdateConfiguration,
              CreateSwallowed, GiveUp, WriteUrlMap, Enter
      <4>3. CASE Poll(k)
        BY <1>1, <1>2, <1>4, <4>3 DEF Poll, AtTarget, Is
      <4>4. CASE Push(k)
        BY <1>2, <4>4 DEF Push, Enter
      <4>5. CASE UpdateCode(k)
        BY <1>1, <1>2, <1>4, <4>5 DEF UpdateCode, Enter
      <4> QED
        BY <3>1, <4>1, <4>2, <4>3, <4>4, <4>5 DEF DeployTarget
    <3>2. CASE Begin(k) \/ Fail(k)
      BY <1>1, <1>2, <1>4, <3>2 DEF Begin, Fail, Enter
    <3>3. CASE Build(k) \/ Run(k)
      BY <1>1, <1>4, <3>3 DEF Build, Run, Prepare, DockerBuild, Built, Connect, Replayed,
                              Call, AtTarget, Is
    <3> QED
      BY <3>1, <3>2, <3>3 DEF Step
  <2>2. Calm(k)
    <3>1. stage[k] # "new"
      BY <2>1 DEF Push, AtTarget, Is
    <3> QED
      BY <1>1, <1>4, <3>1, CalmBefore
  <2> QED
    BY <1>1, <1>4, <2>1, <2>2, PushGives, PutHolds
<1> QED
  BY <1>3, <1>4

\* The functions that a deployment is done with, and so must be its own even
\* if it found them there.
Passed(j, i) == ~OnAli(j) /\ (i < at[j] \/ (i = at[j] /\ stage[j] = "placed"))

PassedNext(j, i) == ~OnAli(j) /\ (i < at'[j] \/ (i = at'[j] /\ stage'[j] = "placed"))

OwnNext(j, i) ==
  LET f == cloud'[FunctionAt(j, i)] IN
  /\ f.maker = Key(j) \/ PassedNext(j, i) =>
       f.image = OwnImage(j, i) /\ Fits(j, f.memory, Given(j, i))
  /\ stage'[j] = "coded" /\ i = at'[j] => f.image = OwnImage(j, i)

LEMMA OwnUnchanged ==
  ASSUME InOrder, PInv, \A i \in world.jobs : AfterAt(i), OwnInv,
         NEW k \in world.jobs, StoreStep(k),
         NEW j \in world.jobs, j \in Jobs, world.command[j] = "deploy",
         Key(j) \notin disturbed', OwnNames(j),
         NEW i \in TargetsOf(j), Same(cloud, cloud', FunctionAt(j, i)),
         FunctionAt(j, i) \in DOMAIN cloud',
         PassedNext(j, i) => Passed(j, i),
         stage'[j] = "coded" /\ i = at'[j] => stage[j] = "coded" /\ i = at[j]
  PROVE  OwnNext(j, i)
<1> USE DEF PInv
<1>1. /\ FunctionAt(j, i) \in DOMAIN cloud
      /\ cloud'[FunctionAt(j, i)] = cloud[FunctionAt(j, i)]
  BY DEF Same
<1>2. CASE Calm(j)
  <2>1. OwnAt(j, i)
    BY <1>1, <1>2 DEF OwnInv
  <2> QED
    BY <1>1, <2>1 DEF OwnAt, OwnNext, Passed
<1>3. CASE ~Calm(j)
  <2>1. stage[j] = "new"
    BY <1>3, CalmBefore
  <2>2. ~Passed(j, i) /\ stage[j] # "coded"
    <3>1. at[j] = 1
      BY <2>1 DEF AfterAt
    <3>2. PICK n \in Nat : TargetsOf(j) = 1 .. n
      BY WorldFacts
    <3>3. ~(i < at[j])
      BY <3>1, <3>2
    <3> QED
      BY <2>1, <3>3 DEF Passed
  <2>3. ASSUME cloud[FunctionAt(j, i)].maker = Key(j) PROVE FALSE
    <3>1. PICK d \in world.jobs : stage[d] # "new" /\ Key(d) = Key(j)
      BY <1>1, <2>3 DEF CloudInv
    <3>2. Calm(d)
      BY <3>1, CalmBefore
    <3> QED
      BY <1>3, <3>1, <3>2 DEF Calm
  <2> QED
    BY <1>1, <2>2, <2>3 DEF OwnNext
<1> QED
  BY <1>2, <1>3

WritesCloud(k) == PlaceFunction(k) \/ UpdateCode(k) \/ UpdateConfiguration(k) \/ Register(k)

\* A deployment that passes a target without writing a function has found the
\* function there, or is on Function Compute.
LEMMA PassedBefore ==
  ASSUME PInv, NEW k \in world.jobs, k \in Jobs, world.command[k] = "deploy", Step(k),
         NEW i \in TargetsOf(k), ~WritesCloud(k) \/ i # at[k]
  PROVE  /\ PassedNext(k, i) => Passed(k, i)
         /\ ~(stage'[k] = "coded" /\ i = at'[k])
<1> USE DEF PInv
<1>1. /\ stage \in [Jobs -> Stages] /\ at \in [Jobs -> Nat \ {0}] /\ i \in Nat
  <2>1. PICK n \in Nat : TargetsOf(k) = 1 .. n
    BY WorldFacts
  <2> QED
    BY <2>1 DEF Types
<1>2. CASE Begin(k) \/ Fail(k)
  <2>1. at' = at /\ stage'[k] \in {"work", "failed"}
    BY <1>1, <1>2 DEF Begin, Fail, Enter
  <2> QED
    BY <2>1 DEF Passed, PassedNext
<1>3. CASE DeployTarget(k)
  <2>1. CASE PlaceFunction(k) \/ UpdateCode(k) \/ UpdateConfiguration(k)
    <3>1. at' = at /\ i # at[k]
      BY <2>1 DEF PlaceFunction, UpdateCode, UpdateConfiguration, Enter, WritesCloud
    <3> QED
      BY <3>1 DEF Passed, PassedNext
  <2>2. CASE Register(k)
    <3>1. at'[k] = at[k] + 1 /\ stage'[k] = "work" /\ i # at[k]
      BY <1>1, <2>2 DEF Register, NextTarget, WritesCloud
    <3>2. i < at[k] + 1 /\ i # at[k] => i < at[k]
      BY <1>1
    <3> QED
      BY <3>1, <3>2 DEF Passed, PassedNext
  <2>3. CASE Push(k) \/ GiveUp(k) \/ WriteUrlMap(k)
    <3>1. at' = at /\ stage'[k] \in {"pushed", "failed", "done"}
      BY <1>1, <2>3 DEF Push, GiveUp, WriteUrlMap, Enter
    <3> QED
      BY <3>1 DEF Passed, PassedNext
  <2>4. CASE CreateSwallowed(k)
    <3>1. OnAli(k) /\ stage'[k] = "placed"
      BY <1>1, <2>4 DEF CreateSwallowed, Enter
    <3> QED
      BY <3>1 DEF PassedNext
  <2>5. CASE Poll(k)
    <3>1. at' = at /\ stage' = stage /\ stage[k] = "placed"
      BY <2>5 DEF Poll, AtTarget, Is
    <3> QED
      BY <3>1 DEF Passed, PassedNext
  <2>6. CASE FindUrl(k)
    <3>1. at'[k] = at[k] + 1 /\ stage[k] = "placed" /\ stage'[k] = "work"
      BY <1>1, <2>6 DEF FindUrl, NextTarget, AtTarget, Is
    <3>2. i < at[k] + 1 => i < at[k] \/ i = at[k]
      BY <1>1
    <3> QED
      BY <3>1, <3>2 DEF Passed, PassedNext
  <2>7. CASE NoUrl(k)
    <3>1. OnAli(k) /\ stage'[k] = "work"
      BY <1>1, <2>7 DEF NoUrl, NextTarget
    <3> QED
      BY <3>1 DEF PassedNext
  <2> QED
    BY <1>3, <2>1, <2>2, <2>3, <2>4, <2>5, <2>6, <2>7 DEF DeployTarget
<1>4. ~Build(k) /\ ~Run(k)
  BY DEF Build, Run, Prepare, DockerBuild, Built, Connect, Replayed, Call, AtTarget, Is
<1> QED
  BY <1>2, <1>3, <1>4 DEF Step

\* A calm deployment that writes a function gives it its image, its memory or
\* both; and the name that it writes is of no other target.
LEMMA WriteGives ==
  ASSUME InOrder, PInv, ResolvedInv,
         \A i \in world.jobs : AfterAt(i), \A i \in world.jobs : BuiltAt(i),
         NEW k \in world.jobs, k \in Jobs, PushedAt(k), Calm(k), OwnNames(k), WritesCloud(k)
  PROVE  /\ at[k] \in TargetsOf(k) /\ world.command[k] = "deploy"
         /\ stage[k] \notin {"new", "failed"}
         /\ \A i \in TargetsOf(k) : FunctionAt(k, i) = Function(k) => i = at[k]
         /\ \A f : f # Function(k) => Same(cloud, cloud', f)
         /\ \/ /\ Function(k) \in DOMAIN cloud'
               /\ cloud'[Function(k)].image = OwnImage(k, at[k])
               /\ cloud'[Function(k)].memory = Memory(k)
            \/ /\ Function(k) \in DOMAIN cloud /\ UpdateCode(k)
               /\ cloud'[Function(k)].image = OwnImage(k, at[k])
               /\ cloud'[Function(k)].memory = cloud[Function(k)].memory
               /\ cloud'[Function(k)].maker = cloud[Function(k)].maker
            \/ /\ Function(k) \in DOMAIN cloud' => Function(k) \in DOMAIN cloud
               /\ UpdateConfiguration(k)
               /\ Function(k) \in DOMAIN cloud =>
                    /\ cloud'[Function(k)].image = cloud[Function(k)].image
                    /\ cloud'[Function(k)].memory = Memory(k)
                    /\ cloud'[Function(k)].maker = cloud[Function(k)].maker
<1> USE DEF PInv
<1>1. /\ at[k] \in TargetsOf(k) /\ world.command[k] = "deploy"
      /\ stage[k] \in {"pushed", "coded"} \/ (Register(k) /\ stage[k] = "work")
  BY DEF WritesCloud, PlaceFunction, UpdateCode, UpdateConfiguration, Register, AtTarget, Is
<1>3. Pushed(k) = <<Registry(Provider(k)), TagAt(k, at[k])>>
  BY <1>1, AtNames
<1>4. \A i \in TargetsOf(k) : FunctionAt(k, i) = Function(k) => i = at[k]
  BY <1>1, OneFunction
<1>5. \A f : f # Function(k) => Same(cloud, cloud', f)
  <2>1. \/ \E v : cloud' = Put(cloud, Function(k), v)
        \/ \E v : cloud' = [cloud EXCEPT ![Function(k)] = v]
    BY DEF WritesCloud, PlaceFunction, UpdateCode, UpdateConfiguration, Register
  <2>2. \A v, y : y # Function(k) => Same(cloud, [cloud EXCEPT ![Function(k)] = v], y)
    BY DEF Same
  <2> QED
    BY <2>1, <2>2, PutSame
<1>6. stage[k] = "pushed" \/ Register(k) => registry[Pushed(k)] = OwnImage(k, at[k])
  <2>1. CASE stage[k] = "pushed"
    BY <1>1, <1>3, <2>1 DEF PushedAt, Is, Holds
  <2>2. CASE Register(k)
    <3>1. Provider(k) = "mcp_gateway" /\ stage[k] # "new"
      BY <2>2 DEF Register, AtTarget, Is
    <3>2. Holds(registry, <<"dockerhub", TagAt(k, at[k])>>, OwnImage(k, at[k]))
      BY <1>1, <3>1, ImageBuilt
    <3>3. Registry(Provider(k)) = "dockerhub"
      BY <3>1 DEF Registry
    <3> QED
      BY <1>3, <3>2, <3>3 DEF Holds
  <2> QED
    BY <2>1, <2>2
<1>7. CASE PlaceFunction(k) \/ Register(k)
  <2>1. PICK v, s : cloud' = Put(cloud, Function(k), v) /\ v = Ours(k, s)
    BY <1>7 DEF PlaceFunction, Register
  <2>2. registry[Pushed(k)] = OwnImage(k, at[k])
    BY <1>6, <1>7 DEF PlaceFunction, AtTarget, Is
  <2>3. v.image = OwnImage(k, at[k]) /\ v.memory = Memory(k)
    BY <2>1, <2>2 DEF Ours
  <2>4. Function(k) \in DOMAIN cloud' /\ cloud'[Function(k)] = v
    BY <2>1 DEF Put
  <2> QED
    BY <1>1, <1>4, <1>5, <2>3, <2>4
<1>8. \A f \in DOMAIN cloud : DOMAIN cloud[f] = {"image", "memory", "status", "maker"}
  BY DEF CloudInv
<1>9. CASE UpdateCode(k)
  <2>1. /\ Function(k) \in DOMAIN cloud /\ stage[k] = "pushed"
        /\ cloud' = [cloud EXCEPT ![Function(k)] =
                       [cloud[Function(k)] EXCEPT !.image = registry[Pushed(k)]]]
    BY <1>9 DEF UpdateCode, AtTarget, Is
  <2>2. registry[Pushed(k)] = OwnImage(k, at[k])
    BY <1>6, <2>1
  <2>3. /\ cloud'[Function(k)].image = OwnImage(k, at[k])
        /\ cloud'[Function(k)].memory = cloud[Function(k)].memory
        /\ cloud'[Function(k)].maker = cloud[Function(k)].maker
    BY <1>8, <2>1, <2>2
  <2> QED
    BY <1>1, <1>4, <1>5, <1>9, <2>1, <2>3
<1>10. CASE UpdateConfiguration(k)
  <2>1. cloud' = [cloud EXCEPT ![Function(k)] =
                    [cloud[Function(k)] EXCEPT !.memory = Memory(k)]]
    BY <1>10 DEF UpdateConfiguration
  <2>2. /\ Function(k) \in DOMAIN cloud' => Function(k) \in DOMAIN cloud
        /\ Function(k) \in DOMAIN cloud =>
             /\ cloud'[Function(k)].image = cloud[Function(k)].image
             /\ cloud'[Function(k)].memory = Memory(k)
             /\ cloud'[Function(k)].maker = cloud[Function(k)].maker
    BY <1>8, <2>1
  <2> QED
    BY <1>1, <1>4, <1>5, <1>10, <2>2
<1> QED
  BY <1>7, <1>9, <1>10 DEF WritesCloud

LEMMA OwnWritten ==
  ASSUME InOrder, PInv, ResolvedInv, answers = [i \in Jobs |-> answers[i]],
         \A i \in world.jobs : AfterAt(i), \A i \in world.jobs : BuiltAt(i), OwnInv,
         NEW k \in world.jobs, k \in Jobs, PushedAt(k), WritesCloud(k), JobStep(k), StoreStep(k),
         Calm(k), OwnNames(k),
         NEW j \in world.jobs, j \in Jobs, world.command[j] = "deploy", Key(j) = Key(k),
         FunctionAt(j, at[k]) \in DOMAIN cloud'
  PROVE  OwnNext(j, at[k])
<1> USE DEF PInv
<1>1. PICK a : a = at[k]
  OBVIOUS
<1>2. PICK F : F = Function(k)
  OBVIOUS
<1>3. /\ a \in TargetsOf(j) /\ F = FunctionAt(j, a) /\ OwnImage(k, a) = OwnImage(j, a)
      /\ Fits(j, Memory(k), Given(j, a))
  BY <1>1, <1>2, WriteGives, SameNames, FunctionOf, AtNames
<1>4. F \in DOMAIN cloud => OwnAt(j, a)
  <2>1. Calm(j) /\ OwnNames(j)
    BY SameNames DEF Calm
  <2> QED
    BY <1>3, <2>1 DEF OwnInv
<1>5. CASE /\ cloud'[F].image = OwnImage(j, a)
           /\ cloud'[F].memory = Memory(k)
  BY <1>1, <1>3, <1>5 DEF OwnNext
<1>6. CASE /\ F \in DOMAIN cloud /\ UpdateCode(k)
           /\ cloud'[F].image = OwnImage(j, a)
           /\ cloud'[F].memory = cloud[F].memory
           /\ cloud'[F].maker = cloud[F].maker
  <2>1. PassedNext(j, a) => Passed(j, a)
    <3>1. CASE j # k
      <4>1. stage'[j] = stage[j] /\ at'[j] = at[j]
        BY <3>1, OthersStay
      <4> QED
        BY <4>1 DEF Passed, PassedNext
    <3>2. CASE j = k
      <4>1. stage'[k] = "coded" /\ at' = at
        BY <1>6 DEF UpdateCode, Enter, Types
      <4>2. ~(a < a)
        <5>1. a \in Nat
          BY <1>1 DEF Types
        <5> QED
          BY <5>1
      <4> QED
        BY <1>1, <3>2, <4>1, <4>2 DEF PassedNext
    <3> QED
      BY <3>1, <3>2
  <2> QED
    BY <1>1, <1>3, <1>4, <1>6, <2>1 DEF OwnAt, OwnNext, Passed
<1>7. CASE /\ F \in DOMAIN cloud /\ UpdateConfiguration(k)
           /\ cloud'[F].image = cloud[F].image
           /\ cloud'[F].memory = Memory(k)
           /\ cloud'[F].maker = cloud[F].maker
  <2>1. CASE j # k
    <3>1. stage'[j] = stage[j] /\ at'[j] = at[j]
      BY <2>1, OthersStay
    <3> QED
      BY <1>1, <1>3, <1>4, <1>7, <3>1 DEF OwnAt, OwnNext, PassedNext
  <2>2. CASE j = k
    <3>1. stage[k] = "coded"
      BY <1>7 DEF UpdateConfiguration, AtTarget, Is
    <3>2. cloud[F].image = OwnImage(j, a)
      BY <1>1, <1>3, <1>4, <1>7, <2>2, <3>1 DEF OwnAt
    <3> QED
      BY <1>1, <1>3, <1>7, <3>2 DEF OwnNext
  <2> QED
    BY <2>1, <2>2
<1>8. F \in DOMAIN cloud'
  BY <1>1, <1>3
<1>9. \/ /\ cloud'[F].image = OwnImage(k, a)
         /\ cloud'[F].memory = Memory(k)
      \/ /\ F \in DOMAIN cloud /\ UpdateCode(k)
         /\ cloud'[F].image = OwnImage(k, a)
         /\ cloud'[F].memory = cloud[F].memory
         /\ cloud'[F].maker = cloud[F].maker
      \/ /\ F \in DOMAIN cloud' => F \in DOMAIN cloud
         /\ UpdateConfiguration(k)
         /\ F \in DOMAIN cloud =>
              /\ cloud'[F].image = cloud[F].image
              /\ cloud'[F].memory = Memory(k)
              /\ cloud'[F].maker = cloud[F].maker
  BY <1>1, <1>2, WriteGives
<1> QED
  BY <1>1, <1>3, <1>5, <1>6, <1>7, <1>8, <1>9

LEMMA OwnKept ==
  ASSUME InOrder, PInv, ResolvedInv, answers = [i \in Jobs |-> answers[i]],
         \A i \in world.jobs : AfterAt(i), \A i \in world.jobs : BuiltAt(i), OwnInv,
         NEW k \in world.jobs, k \in Jobs, PushedAt(k), Step(k), JobStep(k), StoreStep(k)
  PROVE  OwnInv'
<1> USE DEF PInv
<1>0. world' = world
  BY DEF JobStep
<1>1. ASSUME NEW j \in world.jobs, world.command[j] = "deploy", Key(j) \notin disturbed',
             OwnNames(j),
             NEW i \in TargetsOf(j), FunctionAt(j, i) \in DOMAIN cloud'
      PROVE  OwnNext(j, i)
  <2>0. j \in Jobs
    BY WorldFacts
  <2>1. CASE j # k /\ Key(j) # Key(k)
    <3>1. Same(cloud, cloud', FunctionAt(j, i))
      BY <1>1, <2>1, Undisturbed
    <3>2. stage'[j] = stage[j] /\ at'[j] = at[j]
      BY <2>0, <2>1, OthersStay
    <3>3. PassedNext(j, i) => Passed(j, i)
      BY <3>2 DEF Passed, PassedNext
    <3> QED
      BY <1>1, <2>0, <3>1, <3>2, <3>3, OwnUnchanged
  <2>2. CASE Key(j) = Key(k) /\ (~WritesCloud(k) \/ i # at[k])
    <3>1. Same(cloud, cloud', FunctionAt(j, i))
      <4>1. CASE WritesCloud(k)
        <5>1. stage[k] # "new"
          BY <4>1 DEF WritesCloud, PlaceFunction, UpdateCode, UpdateConfiguration, Register,
                      AtTarget, Is
        <5>2. Calm(k) /\ OwnNames(k)
          BY <1>1, <2>2, <5>1, CalmBefore, SameNames
        <5>3. FunctionAt(j, i) # Function(k)
          BY <2>2, <4>1, <5>2, WriteGives, SameNames
        <5> QED
          BY <4>1, <5>2, <5>3, WriteGives
      <4>2. CASE ~WritesCloud(k)
        <5>1. cloud' = cloud
          BY <4>2 DEF StoreStep, stores, WritesCloud
        <5> QED
          BY <5>1 DEF Same
      <4> QED
        BY <4>1, <4>2
    <3>2. CASE j # k
      <4>1. stage'[j] = stage[j] /\ at'[j] = at[j]
        BY <2>0, <3>2, OthersStay
      <4>2. PassedNext(j, i) => Passed(j, i)
        BY <4>1 DEF Passed, PassedNext
      <4> QED
        BY <1>1, <2>0, <3>1, <4>1, <4>2, OwnUnchanged
    <3>3. CASE j = k
      <4>1. /\ PassedNext(j, i) => Passed(j, i)
            /\ ~(stage'[j] = "coded" /\ i = at'[j])
        BY <1>1, <2>2, <3>3, PassedBefore
      <4> QED
        BY <1>1, <2>0, <3>1, <4>1, OwnUnchanged
    <3> QED
      BY <3>2, <3>3
  <2>3. CASE Key(j) = Key(k) /\ WritesCloud(k) /\ i = at[k]
    <3>1. stage[k] # "new"
      BY <2>3 DEF WritesCloud, PlaceFunction, UpdateCode, UpdateConfiguration, Register,
                  AtTarget, Is
    <3>2. Calm(k) /\ OwnNames(k)
      BY <1>1, <2>3, <3>1, CalmBefore, SameNames
    <3> QED
      BY <1>1, <2>0, <2>3, <3>2, OwnWritten
  <2> QED
    BY <2>1, <2>2, <2>3
<1>2. \A j : /\ TargetsOf(j)' = TargetsOf(j) /\ Key(j)' = Key(j) /\ OnAli(j)' = OnAli(j)
             /\ Provider(j)' = Provider(j) /\ (OwnNames(j)' <=> OwnNames(j))
             /\ \A i : /\ FunctionAt(j, i)' = FunctionAt(j, i)
                       /\ OwnImage(j, i)' = OwnImage(j, i) /\ Given(j, i)' = Given(j, i)
  BY <1>0, Fixed, FixedNames
<1>3. \A j, i : OwnNext(j, i) <=> OwnAt(j, i)'
  BY <1>2 DEF OwnNext, OwnAt, PassedNext, Fits
<1> QED
  BY <1>0, <1>1, <1>2, <1>3 DEF OwnInv, Calm

-----------------------------------------------------------------------------
(* What a call reaches. *)

\* The principle of induction, for a set in place of a predicate: n would be a
\* bound that the successors of the members below it never reach.
LEMMA Induction ==
  ASSUME NEW S, 0 \in S, \A n \in Nat : n \in S => n + 1 \in S
  PROVE  Nat \subseteq S
<1> SUFFICES ASSUME NEW n \in Nat, n \notin S PROVE FALSE
  OBVIOUS
<1> DEFINE T == { i \in 0 .. n : i \in S }
           f == [i \in T |-> i + 1]
<1>1. IsFiniteSet(0 .. n) /\ T \in SUBSET (0 .. n) /\ 0 \in T
  BY FS_Interval
<1>2. f \in Injection(T, T \ {0})
  BY DEF Injection, IsInjective
<1> HIDE DEF T, f
<1>3. IsFiniteSet(T)
  BY <1>1, FS_Subset
<1>4. Cardinality(T) \in Nat
  BY <1>3, FS_CardinalityType
<1>5. IsFiniteSet(T \ {0}) /\ Cardinality(T \ {0}) = Cardinality(T) - 1
  BY <1>1, <1>3, FS_RemoveElement
<1>6. Cardinality(T) <= Cardinality(T \ {0})
  BY <1>2, <1>5, FS_Injection
<1> QED
  BY <1>4, <1>5, <1>6

\* A set of numbers up to a bound has a greatest one.
LEMMA GreatestExists ==
  ASSUME NEW n \in Nat, NEW S \in SUBSET (1 .. n), S # {}
  PROVE  \E i \in S : \A j \in S : j <= i
<1> SUFFICES ASSUME ~(\E i \in S : \A j \in S : j <= i) PROVE FALSE
  OBVIOUS
<1> DEFINE T == { k \in Nat : \E i \in S : k <= i }
<1>1. 0 \in T
  <2>1. PICK i \in S : TRUE
    OBVIOUS
  <2>2. i \in 1 .. n
    OBVIOUS
  <2>3. 0 <= i
    BY <2>2
  <2> QED
    BY <2>3
<1>2. ASSUME NEW k \in Nat, k \in T PROVE k + 1 \in T
  <2>1. PICK i \in S : k <= i
    BY <1>2
  <2>2. PICK j \in S : ~(j <= i)
    OBVIOUS
  <2>3. k + 1 <= j
    BY <2>1, <2>2
  <2> QED
    BY <2>2, <2>3
<1>3. n + 1 \in T
  <2> HIDE DEF T
  <2> QED
    BY <1>1, <1>2, Induction
<1> QED
  BY <1>3

\* The last binding of a trace is one of the node's bindings.
LEMMA BindingOf ==
  ASSUME NEW c, NEW n, NEW t \in Traces(c, n), c.bindings[n] \in Seq(Range(c.bindings[n]))
  PROVE  Binding(c, n, t) \in Range(c.bindings[n])
<1> DEFINE bs == c.bindings[n]
           S == { i \in DOMAIN bs : bs[i].trace = t }
           Last(i) == /\ bs[i].trace = t
                      /\ \A j \in DOMAIN bs : bs[j].trace = t => j <= i
<1>1. PICK m \in Nat : DOMAIN bs = 1 .. m
  <2>1. \A X : \A s \in Seq(X) : Len(s) \in Nat /\ DOMAIN s = 1 .. Len(s)
    OBVIOUS
  <2> QED
    BY <2>1
<1>2. S # {} /\ S \in SUBSET (1 .. m)
  BY <1>1 DEF Traces, Range
<1>3. \E i \in DOMAIN bs : Last(i)
  <2>1. PICK i \in S : \A j \in S : j <= i
    <3> HIDE DEF S
    <3> QED
      BY <1>2, GreatestExists
  <2> QED
    BY <2>1
<1>4. (CHOOSE i \in DOMAIN bs : Last(i)) \in DOMAIN bs
  <2> HIDE DEF Last, bs
  <2> QED
    BY <1>3
<1>5. Binding(c, n, t) = bs[CHOOSE i \in DOMAIN bs : Last(i)]
  BY DEF Binding
<1> HIDE DEF Last
<1> QED
  BY <1>4, <1>5 DEF Range

\* The route of a tool use is to the one target of its name, whose image has
\* its tool from its node.
LEMMA RouteFacts ==
  ASSUME PInv, ResolvedInv, NEW j \in world.jobs, j \in Jobs,
         stage[j] \notin {"new", "failed"}, NEW t \in Config(j).trace
  PROVE  \E i \in TargetsOf(j) :
           LET r == Route(j, t) IN
           /\ NameAt(j, i) = r.target
           /\ \A l \in TargetsOf(j) : NameAt(j, l) = r.target => l = i
           /\ r.node \in NodesAt(Config(j), FamilyOf(j), i)
           /\ r.node \in DOMAIN Config(j).bindings
           /\ \E b \in Range(Config(j).bindings[r.node]) : b.tool = r.tool
           /\ r.tool \in ManifestAt(Config(j), FamilyOf(j), i)
<1> DEFINE c == Config(j)
           family == FamilyOf(j)
           r == Route(j, t)
<1>1. Resolves(c, family)
  BY DEF ResolvedInv, ResolvedAt
<1>2. RoutesOf(c, family, t) # {}
  BY <1>1 DEF Resolves
<1>3. r \in RoutesOf(c, family, t)
  BY <1>2 DEF Route
<1>4. PICK p \in Ways(c, family, t) : r = RouteBy(c, family, t, p)
  BY <1>3 DEF RoutesOf
<1> DEFINE i == p[1]
           n == p[2]
<1>5. /\ i \in DOMAIN Units(c, family) /\ n \in DOMAIN c.bindings
      /\ n \in NodesAt(c, family, i)
      /\ t \in TracesAt(c, family, i) /\ t \in Traces(c, n)
  BY <1>4 DEF Ways
<1>6. r.node = n /\ r.target = TargetAt(c, family, i) /\ r.tool = Binding(c, n, t).tool
  BY <1>4 DEF RouteBy
<1>7. \A l \in TargetsOf(j) : NameAt(j, l) = r.target => l = i
  BY <1>1, <1>5, <1>6, TargetNamesDistinct DEF TargetsOf, NameAt
<1>8. Binding(c, n, t) \in Range(c.bindings[n])
  <2>1. c.bindings[n] \in Seq(Range(c.bindings[n]))
    <3>1. world \in Worlds /\ world.project[j] \in Projects
      BY PipelineAssumption DEF PInv, Types
    <3> HIDE DEF n
    <3> QED
      BY <1>5, <3>1, PipelineAssumption DEF Config
  <2> HIDE DEF n, c
  <2> QED
    BY <1>5, <2>1, BindingOf
<1>9. r.tool \in ManifestAt(c, family, i)
  <2>1. <<n, t>> \in { q \in NodesAt(c, family, i) \X TracesAt(c, family, i) :
                         q[2] \in Traces(c, q[1]) }
    BY <1>5
  <2> HIDE DEF r, i, n, c, family
  <2> QED
    BY <1>6, <2>1 DEF ManifestAt
<1>10. i \in TargetsOf(j) /\ NameAt(j, i) = r.target
  BY <1>5, <1>6 DEF TargetsOf, NameAt
<1> HIDE DEF i, n
<1> QED
  BY <1>5, <1>6, <1>7, <1>8, <1>9, <1>10

\* Where nodes have no tool in common, the tool is that of the node.
LEMMA ImplementerOf ==
  ASSUME PInv, NEW j \in world.jobs, j \in Jobs, ToolsApart(j), NEW i \in TargetsOf(j),
         NEW n \in NodesAt(Config(j), FamilyOf(j), i), n \in DOMAIN Config(j).bindings,
         NEW tool, \E b \in Range(Config(j).bindings[n]) : b.tool = tool,
         tool \in ManifestAt(Config(j), FamilyOf(j), i)
  PROVE  Implementer(OwnFiles(j, i), tool) = n
<1> DEFINE c == Config(j)
           ns == { m \in NodesAt(c, FamilyOf(j), i) :
                     \E b \in Range(c.bindings[m]) : b.tool = tool }
<1>1. ns = {n}
  <2>1. ASSUME NEW m \in ns, m # n PROVE FALSE
    <3>1. /\ tool \in { b.tool : b \in Range(c.bindings[m]) }
          /\ tool \in { b.tool : b \in Range(c.bindings[n]) }
      BY <2>1
    <3>2. { b.tool : b \in Range(c.bindings[m]) }
            \cap { b.tool : b \in Range(c.bindings[n]) } = {}
      BY <2>1 DEF ToolsApart
    <3> QED
      BY <3>1, <3>2
  <2>2. n \in ns
    OBVIOUS
  <2> QED
    BY <2>1, <2>2
<1>2. world.order[n] <= world.order[n]
  <2>1. world \in Worlds /\ world.project[j] \in Projects
    BY PipelineAssumption DEF PInv, Types
  <2>2. world.order[n] \in Nat
    BY <2>1, PipelineAssumption DEF Config
  <2> QED
    BY <2>2
<1>3. /\ world.config[OwnFiles(j, i).project] = c
      /\ OwnFiles(j, i).family = FamilyOf(j) /\ OwnFiles(j, i).index = i
  BY DEF OwnFiles, Config
<1>4. Implementer(OwnFiles(j, i), tool) =
        CHOOSE m \in ns : \A l \in ns : world.order[l] <= world.order[m]
  BY <1>3 DEF Implementer
<1> HIDE DEF ns
<1>5. \A m : m = n <=> (m \in ns /\ \A l \in ns : world.order[l] <= world.order[m])
  BY <1>1, <1>2
<1> QED
  BY <1>4, <1>5

LEMMA ListedKept ==
  ASSUME InOrder, PInv, answers = [i \in Jobs |-> answers[i]], MapsInv,
         \A i \in world.jobs : AfterAt(i), \A i \in world.jobs : ListedAt(i),
         NEW k \in world.jobs, k \in Jobs, Step(k), JobStep(k), StoreStep(k),
         NEW j \in world.jobs, j \in Jobs
  PROVE  ListedAt(j)'
<1> USE DEF PInv
<1>0. world' = world
  BY DEF JobStep
<1>t. /\ stage \in [Jobs -> Stages] /\ at \in [Jobs -> Nat \ {0}]
      /\ entries = [i \in Jobs |-> entries[i]]
  BY DEF Types
<1>1. ASSUME world.command[j] = "deploy" PROVE Lists(entries'[j], j)
  <2>1. Lists(entries[j], j)
    BY <1>1 DEF ListedAt
  <2>2. CASE entries'[j] = entries[j]
    BY <2>1, <2>2
  <2>3. CASE /\ j = k /\ at[j] \in TargetsOf(j)
             /\ entries' = [entries EXCEPT ![j] = Put(entries[j], Target(j), Entry(j))]
    <3>1. entries'[j] = Put(entries[j], NameAt(j, at[j]), EntryAt(j, at[j]))
      BY <1>t, <2>3, FunctionOf, AtNames
    <3> QED
      BY <2>1, <2>3, <3>1, ListsExtended
  <2>4. CASE j # k
    BY <2>2, <2>4, OthersStay
  <2> QED
    BY <1>1, <2>2, <2>3, <2>4 DEF JobStep
<1>2. ASSUME world.command[j] = "deploy", stage'[j] = "done", Key(j) \notin disturbed'
      PROVE  File(j) \in DOMAIN urlMap' /\ urlMap'[File(j)].key = Key(j)
  <2>1. ASSUME WriteUrlMap(k), Key(k) = Key(j)
        PROVE  File(j) \in DOMAIN urlMap' /\ urlMap'[File(j)].key = Key(j)
    <3>1. PICK m : m = [key |-> Key(k), provider |-> Provider(k), entries |-> entries[k]]
      OBVIOUS
    <3>2. urlMap' = Put(urlMap, File(j), m) /\ m.key = Key(j)
      BY <2>1, <3>1, SameNames DEF WriteUrlMap
    <3> QED
      BY <3>2 DEF Put
  <2>2. CASE stage[j] = "done"
    <3>1. j # k
      BY <2>2 DEF JobStep
    <3>2. Calm(j)
      BY <1>2, <2>2, CalmBefore
    <3>3. File(j) \in DOMAIN urlMap /\ urlMap[File(j)].key = Key(j)
      BY <1>2, <2>2, <3>2 DEF ListedAt, Is
    <3>4. CASE Key(j) # Key(k)
      BY <1>2, <3>3, <3>4, Undisturbed DEF Same
    <3>5. CASE Key(j) = Key(k)
      BY <2>1, <3>3, <3>5 DEF JobStep
    <3> QED
      BY <3>4, <3>5
  <2>3. CASE stage[j] # "done"
    <3>1. j = k
      BY <1>2, <2>3, OthersStay
    <3>2. WriteUrlMap(k)
      BY <1>2, <1>t, <3>1 DEF JobStep
    <3> QED
      BY <2>1, <3>1, <3>2
  <2> QED
    BY <2>2, <2>3
<1>3. ASSUME world.command[j] = "run", stage'[j] = "calling", Key(j) \notin disturbed'
      PROVE  /\ TargetNames(Config(j), FamilyOf(j)) \subseteq DOMAIN entries'[j]
             /\ Lists(entries'[j], j)
  <2>1. CASE stage[j] = "calling" /\ entries'[j] = entries[j]
    <3>1. Calm(j)
      BY <1>3, <2>1, CalmBefore
    <3> QED
      BY <1>3, <2>1, <3>1 DEF ListedAt, Is
  <2>2. CASE j = k /\ Connect(k)
    <3>1. PICK m : m = At(urlMap, File(k))
      OBVIOUS
    <3>2. /\ TargetNames(Config(k), FamilyOf(k)) \subseteq DOMAIN m.entries
          /\ entries' = [entries EXCEPT ![k] = m.entries]
          /\ stage[k] = "work"
      <4>1. ~Enter(k, "failed")
        BY <1>3, <1>t, <2>2 DEF Enter
      <4> QED
        BY <2>2, <3>1, <4>1 DEF Connect, Is
    <3>3. PICK d \in world.jobs : Key(d) = Key(k) /\ Is(d, "deploy", "done")
      BY <1>3, <2>2, <3>2, BuiltBefore
    <3>4. Calm(d)
      BY <1>3, <2>2, <3>3, CalmBefore DEF Is
    <3>5. File(k) \in DOMAIN urlMap /\ urlMap[File(k)].key = Key(k)
      <4>1. File(d) = File(k)
        BY <3>3, SameNames
      <4> QED
        BY <3>3, <3>4, <4>1 DEF ListedAt
    <3>6. m = urlMap[File(k)]
      BY <3>1, <3>5 DEF At
    <3>7. PICK o \in world.jobs : Key(o) = Key(k) /\ Lists(m.entries, o)
      BY <3>5, <3>6 DEF MapsInv
    <3>8. Lists(m.entries, k)
      BY <3>7, SameNames
    <3>9. entries'[k] = m.entries
      BY <1>t, <3>2
    <3> QED
      BY <2>2, <3>2, <3>8, <3>9
  <2>3. \/ stage[j] = "calling" /\ entries'[j] = entries[j]
        \/ j = k /\ Connect(k)
    <3>1. CASE j # k
      BY <1>3, <3>1, OthersStay
    <3>2. CASE j = k
      <4>1. CASE \E t \in Config(k).trace : Call(k, t)
        BY <3>2, <4>1 DEF Call, Is
      <4>2. CASE Replayed(k)
        BY <1>3, <1>t, <3>2, <4>2 DEF Replayed, Enter
      <4>3. CASE Begin(k)
        BY <1>3, <1>t, <3>2, <4>3 DEF Begin, Enter
      <4>4. ~Fail(k) /\ ~Build(k) /\ ~DeployTarget(k)
        BY <1>3, <3>2 DEF Fail, Build, Prepare, DockerBuild, Built, DeployTarget, Push,
              PlaceFunction, UpdateCode, UpdateConfiguration, CreateSwallowed, Poll,
              GiveUp, FindUrl, NoUrl, Register, WriteUrlMap, AtTarget, Is
      <4> QED
        BY <3>2, <4>1, <4>2, <4>3, <4>4 DEF Step, Run
    <3> QED
      BY <3>1, <3>2
  <2> QED
    BY <2>1, <2>2, <2>3
<1>4. /\ File(j)' = File(j) /\ Key(j)' = Key(j)
      /\ TargetNames(Config(j), FamilyOf(j))' = TargetNames(Config(j), FamilyOf(j))
  BY <1>0, Fixed
<1>5. Lists(entries[j], j)' <=> Lists(entries'[j], j)
  <2>1. \A es : Lists(es, j) <=>
          (\A x \in DOMAIN es : \E i \in TargetsOf(j)' :
             x = NameAt(j, i)' /\ es[x] = EntryAt(j, i)')
    BY <1>0, FixedLists
  <2> QED
    BY <2>1 DEF Lists
<1> QED
  BY <1>0, <1>1, <1>2, <1>3, <1>4, <1>5 DEF ListedAt, Is, Calm

\* A call that does not fail its run is executed as it should be.
LEMMA CallGives ==
  ASSUME InOrder, PInv, ResolvedInv, OwnInv, \A i \in world.jobs : AfterAt(i),
         NEW k \in world.jobs, k \in Jobs, ListedAt(k), Calm(k), ToolsApart(k), OwnNames(k),
         NEW t \in Config(k).trace, Call(k, t), answers' # answers
  PROVE  \E a : /\ answers' = [answers EXCEPT ![k] = Put(answers[k], t, a)]
                /\ AnsweredBy(k, t, a, entries[k][Route(k, t).target])
<1> USE DEF PInv
<1>1. PICK r : r = Route(k, t)
  OBVIOUS
<1>2. PICK e : e = entries[k][r.target]
  OBVIOUS
<1>3. PICK f : f = At(cloud, e.function)
  OBVIOUS
<1>4. PICK node : node = Implementer(f.image.files, r.tool)
  OBVIOUS
<1>5. PICK a : a = [image |-> f.image, node |-> node, maker |-> f.maker, memory |-> f.memory]
  OBVIOUS
<1>6. /\ stage[k] = "calling" /\ world.command[k] = "run" /\ f # None
      /\ answers' = [answers EXCEPT ![k] = Put(answers[k], t, a)]
  BY <1>1, <1>2, <1>3, <1>4, <1>5 DEF Call, Is
<1>7. PICK i \in TargetsOf(k) :
        /\ NameAt(k, i) = r.target
        /\ \A l \in TargetsOf(k) : NameAt(k, l) = r.target => l = i
        /\ r.node \in NodesAt(Config(k), FamilyOf(k), i)
        /\ r.node \in DOMAIN Config(k).bindings
        /\ \E b \in Range(Config(k).bindings[r.node]) : b.tool = r.tool
        /\ r.tool \in ManifestAt(Config(k), FamilyOf(k), i)
  BY <1>1, <1>6, RouteFacts
<1>8. e = EntryAt(k, i)
  <2>1. /\ TargetNames(Config(k), FamilyOf(k)) \subseteq DOMAIN entries[k]
        /\ Lists(entries[k], k)
    BY <1>6 DEF ListedAt, Is
  <2>2. r.target \in DOMAIN entries[k]
    BY <1>7, <2>1 DEF TargetNames, NameAt, TargetsOf
  <2>3. PICK l \in TargetsOf(k) : r.target = NameAt(k, l) /\ e = EntryAt(k, l)
    BY <1>2, <2>1, <2>2 DEF Lists
  <2> QED
    BY <1>7, <2>3
<1>9. /\ e.function = FunctionAt(k, i) /\ e.memory = Given(k, i)
      /\ FunctionAt(k, i) \in DOMAIN cloud /\ f = cloud[FunctionAt(k, i)]
  BY <1>3, <1>6, <1>8 DEF EntryAt, At
<1>10. f.maker = Key(k) \/ ~OnAli(k) =>
         f.image = OwnImage(k, i) /\ Fits(k, f.memory, Given(k, i))
  <2>1. PICK d \in world.jobs : Key(d) = Key(k) /\ Is(d, "deploy", "done")
    BY <1>6, BuiltBefore
  <2>2. d \in Jobs /\ at[d] \notin TargetsOf(d)
    <3>1. AfterAt(d) /\ world.command[d] # "run" /\ stage[d] = "done"
      BY <2>1 DEF Is
    <3> QED
      BY <3>1, WorldFacts DEF AfterAt
  <2>3. /\ FunctionAt(d, i) = FunctionAt(k, i) /\ TargetsOf(d) = TargetsOf(k)
        /\ OwnImage(d, i) = OwnImage(k, i) /\ Given(d, i) = Given(k, i)
        /\ OnAli(d) = OnAli(k) /\ (\A m, g : Fits(d, m, g) <=> Fits(k, m, g))
    BY <2>1, SameNames
  <2>4. i < at[d]
    BY <2>2, <2>3, PastTargets
  <2>5. Calm(d) /\ OwnNames(d)
    BY <2>1, SameNames DEF Calm
  <2>6. OwnAt(d, i)
    BY <1>9, <2>1, <2>3, <2>5 DEF OwnInv, Is
  <2> QED
    BY <1>9, <2>1, <2>3, <2>4, <2>6 DEF OwnAt
<1>11. ASSUME OnAli(k) => f.maker = Key(k)
       PROVE  /\ node = r.node
              /\ f.image.provider = Provider(k)
              /\ <<f.image.files.project, f.image.files.provider>> = Key(k)
              /\ TargetAt(Config(k), FamilyOf(k), f.image.files.index) = r.target
              /\ f.memory = MemoryOf(Provider(k), e.memory)
  <2>1. f.image = OwnImage(k, i) /\ Fits(k, f.memory, Given(k, i))
    BY <1>10, <1>11
  <2>2. /\ f.image.files = OwnFiles(k, i) /\ f.image.provider = Provider(k)
        /\ f.image.files.index = i
        /\ <<f.image.files.project, f.image.files.provider>> = Key(k)
    BY <2>1 DEF OwnImage, OwnFiles, Image, Key
  <2>3. node = r.node
    BY <1>4, <1>7, <2>2, ImplementerOf
  <2> QED
    BY <1>7, <1>9, <2>1, <2>2, <2>3 DEF Fits, NameAt
<1>12. AnsweredBy(k, t, a, e)
  <2>1. /\ a.node = node /\ a.image = f.image /\ a.maker = f.maker /\ a.memory = f.memory
    BY <1>5
  <2> QED
    BY <1>1, <1>11, <2>1 DEF AnsweredBy
<1> QED
  BY <1>1, <1>2, <1>6, <1>12

LEMMA CallsKept ==
  ASSUME InOrder, PInv, ResolvedInv, OwnInv, answers = [i \in Jobs |-> answers[i]],
         \A i \in world.jobs : AfterAt(i), \A i \in world.jobs : ListedAt(i),
         NEW k \in world.jobs, k \in Jobs, Step(k), JobStep(k), StoreStep(k),
         NEW j \in world.jobs, j \in Jobs, CallsAt(j)
  PROVE  CallsAt(j)'
<1> USE DEF PInv
<1>0. world' = world
  BY DEF JobStep
<1>1. ASSUME world.command[j] = "run", Key(j) \notin disturbed', ToolsApart(j),
             OwnNames(j), NEW t \in DOMAIN answers'[j]
      PROVE  AnsweredBy(j, t, answers'[j][t], entries'[j][Route(j, t).target])
  <2>1. CASE answers'[j] = answers[j] /\ entries'[j] = entries[j]
    <3>1. stage[j] # "new"
      <4>1. answers[j] # <<>>
        BY <1>1, <2>1
      <4> QED
        BY <4>1 DEF AfterAt
    <3>2. Calm(j)
      BY <1>1, <3>1, CalmBefore
    <3> QED
      BY <1>1, <2>1, <3>2 DEF CallsAt
  <2>2. CASE j = k /\ Connect(k)
    <3>1. answers'[j] = <<>>
      BY <1>1, <2>2 DEF Connect, Is, AfterAt
    <3> QED
      BY <1>1, <3>1
  <2>3. ASSUME j = k, NEW u \in Config(k).trace, Call(k, u), answers' # answers,
               entries' = entries
        PROVE  AnsweredBy(j, t, answers'[j][t], entries'[j][Route(j, t).target])
    <3>1. stage[k] = "calling"
      BY <2>3 DEF Call, Is
    <3>2. Calm(k)
      BY <1>1, <2>3, <3>1, CalmBefore
    <3>3. PICK a : /\ answers' = [answers EXCEPT ![k] = Put(answers[k], u, a)]
                   /\ AnsweredBy(k, u, a, entries[k][Route(k, u).target])
      BY <1>1, <2>3, <3>2, CallGives
    <3>4. answers'[j] = Put(answers[j], u, a)
      BY <2>3, <3>3
    <3>5. CASE t = u
      BY <2>3, <3>3, <3>4, <3>5 DEF Put
    <3>6. CASE t # u
      <4>1. t \in DOMAIN answers[j] /\ answers'[j][t] = answers[j][t]
        BY <1>1, <3>4, <3>6 DEF Put
      <4> QED
        BY <1>1, <2>3, <3>2, <4>1 DEF CallsAt
    <3> QED
      BY <3>5, <3>6
  <2>4. \/ answers'[j] = answers[j] /\ entries'[j] = entries[j]
        \/ j = k /\ Connect(k)
        \/ \E u \in Config(k).trace :
             j = k /\ Call(k, u) /\ answers' # answers /\ entries' = entries
    <3>1. CASE j # k
      BY <3>1, OthersStay
    <3>2. CASE j = k
      <4>1. CASE Begin(k) \/ Replayed(k)
        BY <3>2, <4>1 DEF Begin, Replayed
      <4>2. CASE \E u \in Config(k).trace : Call(k, u)
        BY <3>2, <4>2 DEF Call
      <4>3. ~Fail(k) /\ ~Build(k) /\ ~DeployTarget(k)
        BY <1>1, <3>2 DEF Fail, Build, Prepare, DockerBuild, Built, DeployTarget, Push,
              PlaceFunction, UpdateCode, UpdateConfiguration, CreateSwallowed, Poll,
              GiveUp, FindUrl, NoUrl, Register, WriteUrlMap, AtTarget, Is
      <4> QED
        BY <3>2, <4>1, <4>2, <4>3 DEF Step, Run
    <3> QED
      BY <3>1, <3>2
  <2> QED
    BY <2>1, <2>2, <2>3, <2>4
<1>2. /\ Key(j)' = Key(j)
      /\ ToolsApart(j)' <=> ToolsApart(j)
      /\ OwnNames(j)' <=> OwnNames(j)
      /\ \A t : Route(j, t)' = Route(j, t)
  BY <1>0, Fixed, FixedNames
<1>3. \A t : AnsweredBy(j, t, answers[j][t], entries[j][Route(j, t).target])' <=>
        AnsweredBy(j, t, answers'[j][t], entries'[j][Route(j, t).target])
  <2>1. Provider(j)' = Provider(j) /\ OnAli(j)' = OnAli(j)
    BY <1>0, Fixed
  <2>2. \A i : TargetAt(Config(j)', FamilyOf(j)', i) = TargetAt(Config(j), FamilyOf(j), i)
    BY <1>0, Fixed
  <2> QED
    BY <1>2, <2>1, <2>2 DEF AnsweredBy
<1> QED
  BY <1>0, <1>1, <1>2, <1>3 DEF CallsAt, Calm

\* The clouds' own steps, and those of nobody, touch nothing that the third
\* invariant is about.
LEMMA SettleKeepsOwn ==
  ASSUME PInv, OInv, (\E f \in DOMAIN cloud : Settle(f)) \/ UNCHANGED vars
  PROVE  OInv'
<1>1. /\ UNCHANGED <<world, stage, at, entries, answers, dist, images, registry, urlMap,
                     disturbed>>
      /\ \/ cloud' = cloud
         \/ \E f \in DOMAIN cloud, s \in {"ready", "failed"} :
              cloud' = [cloud EXCEPT ![f] = [cloud[f] EXCEPT !.status = s]]
  BY DEF Settle, vars, jobVars, stores
<1>2. /\ DOMAIN cloud' = DOMAIN cloud
      /\ \A f \in DOMAIN cloud : /\ cloud'[f].image = cloud[f].image
                                 /\ cloud'[f].memory = cloud[f].memory
                                 /\ cloud'[f].maker = cloud[f].maker
  <2>1. \A f \in DOMAIN cloud : DOMAIN cloud[f] = {"image", "memory", "status", "maker"}
    BY DEF PInv, CloudInv
  <2> QED
    BY <1>1, <2>1
<1>3. \A j : /\ Provider(j)' = Provider(j) /\ OnAli(j)' = OnAli(j) /\ Key(j)' = Key(j)
             /\ File(j)' = File(j) /\ TargetsOf(j)' = TargetsOf(j)
             /\ Config(j)' = Config(j) /\ FamilyOf(j)' = FamilyOf(j)
             /\ \A i : /\ NameAt(j, i)' = NameAt(j, i)
                       /\ FunctionAt(j, i)' = FunctionAt(j, i)
  BY <1>1, Fixed
<1>4. \A j : /\ ToolsApart(j)' <=> ToolsApart(j)
             /\ OwnNames(j)' <=> OwnNames(j)
             /\ \A i : /\ TagAt(j, i)' = TagAt(j, i)
                       /\ DirectoryAt(j, i)' = DirectoryAt(j, i)
                       /\ OwnFiles(j, i)' = OwnFiles(j, i)
                       /\ OwnImage(j, i)' = OwnImage(j, i)
                       /\ Given(j, i)' = Given(j, i) /\ EntryAt(j, i)' = EntryAt(j, i)
             /\ \A t : Route(j, t)' = Route(j, t)
  BY <1>1, FixedNames
<1>5. \A j, es : Lists(es, j) <=>
        (\A x \in DOMAIN es : \E i \in TargetsOf(j)' :
           x = NameAt(j, i)' /\ es[x] = EntryAt(j, i)')
  BY <1>1, FixedLists
<1>6. (answers = [j \in Jobs |-> answers[j]])'
  BY <1>1 DEF OInv
<1>7. MapsInv'
  <2>1. \A file \in DOMAIN urlMap : \E j \in world.jobs :
          Key(j) = urlMap[file].key /\ Lists(urlMap[file].entries, j)
    BY DEF OInv, MapsInv
  <2> QED
    BY <1>1, <1>3, <1>5, <2>1 DEF MapsInv, Lists
<1>8. OwnInv'
  <2>1. \A j, i : FunctionAt(j, i) \in DOMAIN cloud => (OwnAt(j, i) => OwnAt(j, i)')
    BY <1>1, <1>2, <1>3, <1>4 DEF OwnAt, Fits
  <2> QED
    BY <1>1, <1>2, <1>3, <1>4, <2>1 DEF OInv, OwnInv, Calm
<1>9. ASSUME NEW j \in world.jobs
      PROVE  AfterAt(j)' /\ BuiltAt(j)' /\ PushedAt(j)' /\ ListedAt(j)' /\ CallsAt(j)'
  <2>1. AfterAt(j) /\ BuiltAt(j) /\ PushedAt(j) /\ ListedAt(j) /\ CallsAt(j)
    BY DEF OInv
  <2>2. AfterAt(j)'
    BY <1>1, <1>3, <2>1 DEF AfterAt
  <2>3. BuiltAt(j)'
    BY <1>1, <1>3, <1>4, <2>1 DEF BuiltAt, Calm, Holds
  <2>4. PushedAt(j)'
    BY <1>1, <1>3, <1>4, <2>1 DEF PushedAt, Is, Calm, Holds
  <2>5. Lists(entries[j], j)' <=> Lists(entries[j], j)
    BY <1>1, <1>5 DEF Lists
  <2>6. ListedAt(j)'
    BY <1>1, <1>3, <2>1, <2>5 DEF ListedAt, Calm, Is
  <2>7. \A t : AnsweredBy(j, t, answers[j][t], entries[j][Route(j, t).target])' <=>
                 AnsweredBy(j, t, answers[j][t], entries[j][Route(j, t).target])
    <3>1. \A i : TargetAt(Config(j)', FamilyOf(j)', i) = TargetAt(Config(j), FamilyOf(j), i)
      BY <1>3
    <3> QED
      BY <1>1, <1>3, <1>4, <3>1 DEF AnsweredBy
  <2>8. CallsAt(j)'
    BY <1>1, <1>3, <1>4, <2>1, <2>7 DEF CallsAt, Calm
  <2> QED
    BY <2>2, <2>3, <2>4, <2>6, <2>8
<1> QED
  BY <1>1, <1>6, <1>7, <1>8, <1>9 DEF OInv

LEMMA OInit == Init => OInv
<1> SUFFICES ASSUME Init PROVE OInv
  OBVIOUS
<1>1. /\ world.jobs \subseteq Jobs /\ DOMAIN << >> = {} /\ Types
  BY PInit, WorldFacts DEF PInv
<1>2. answers = [j \in Jobs |-> answers[j]]
  BY DEF Init
<1>3. MapsInv /\ OwnInv
  BY <1>1 DEF Init, MapsInv, OwnInv
<1>4. ASSUME NEW j \in world.jobs
      PROVE  AfterAt(j) /\ BuiltAt(j) /\ PushedAt(j) /\ ListedAt(j) /\ CallsAt(j)
  <2>1. /\ j \in Jobs /\ stage[j] = "new" /\ at[j] = 1
        /\ answers[j] = << >> /\ entries[j] = << >>
    BY <1>1 DEF Init
  <2>2. \A i \in TargetsOf(j) : ~(i < at[j])
    <3>1. PICK n \in Nat : TargetsOf(j) = 1 .. n
      BY <1>1, <2>1, WorldFacts
    <3> QED
      BY <2>1, <3>1
  <2> QED
    BY <1>1, <2>1, <2>2 DEF AfterAt, BuiltAt, PushedAt, ListedAt, Lists, CallsAt, Is
<1> QED
  BY <1>2, <1>3, <1>4 DEF OInv

\* The inductive invariant of what is a job's own: with the second one, and
\* with the resolutions, it is kept by every step.
THEOREM OwnershipInvariant ==
  ASSUME InOrder
  PROVE  Spec => []OInv
<1>1. PInv /\ ResolvedInv /\ OInv /\ [Next]_vars => OInv'
  <2> SUFFICES ASSUME PInv, ResolvedInv, OInv, [Next]_vars PROVE OInv'
    OBVIOUS
  <2>1. ASSUME NEW k \in world.jobs, Step(k) PROVE OInv'
    <3>1. k \in Jobs /\ world.jobs \subseteq Jobs
      BY WorldFacts DEF PInv
    <3>2. JobStep(k) /\ StoreStep(k)
      BY <2>1, <3>1, EachJobStep, EachStoreStep
    <3>3. /\ answers = [i \in Jobs |-> answers[i]] /\ MapsInv /\ OwnInv
          /\ (\A i \in world.jobs : AfterAt(i)) /\ (\A i \in world.jobs : BuiltAt(i))
          /\ (\A i \in world.jobs : PushedAt(i)) /\ (\A i \in world.jobs : ListedAt(i))
          /\ (\A i \in world.jobs : CallsAt(i))
      BY DEF OInv
    <3>4. world' = world /\ answers' = [i \in Jobs |-> answers'[i]]
      BY <3>1, <3>2, <3>3, OthersStay
    <3>5. MapsInv' /\ OwnInv'
      BY <2>1, <3>1, <3>2, <3>3, <3>4, MapsKept, OwnKept
    <3>6. ASSUME NEW j \in world.jobs
          PROVE  AfterAt(j)' /\ BuiltAt(j)' /\ PushedAt(j)' /\ ListedAt(j)' /\ CallsAt(j)'
      <4>1. j \in Jobs
        BY <3>1
      <4>2. AfterAt(j)' /\ BuiltAt(j)'
        BY <2>1, <3>1, <3>2, <3>3, <4>1, AfterKept, BuiltKept
      <4>3. PushedAt(j)'
        BY <2>1, <3>1, <3>2, <3>3, <4>1, PushedKept
      <4>4. ListedAt(j)' /\ CallsAt(j)'
        BY <2>1, <3>1, <3>2, <3>3, <4>1, ListedKept, CallsKept
      <4> QED
        BY <4>2, <4>3, <4>4
    <3> QED
      BY <3>4, <3>5, <3>6 DEF OInv
  <2> QED
    BY <2>1, SettleKeepsOwn DEF Next
<1>2. Spec => []ResolvedInv
  BY ResolvedInit, ResolvedNext, PTL DEF Spec
<1> QED
  BY <1>1, <1>2, OInit, PipelineInvariant, PTL DEF Spec

\* In every world where a project is built once for a provider, deployed after
\* that and run when deployed: the calls of a run whose targets' names are their
\* own are executed by its own project's tools, of the images built and deployed
\* for its provider, with the memory that its URL map tells, on Lambda clamped,
\* as long as no job of another project or provider with a name in common has
\* interfered (build_resolved_targets, deploy, the deployers, run_trace).
THEOREM OwnToolsReached ==
  ASSUME InOrder
  PROVE  Spec => []CallsReachOwnTools
<1>1. OInv => CallsReachOwnTools
  <2> SUFFICES ASSUME OInv PROVE CallsReachOwnTools
    OBVIOUS
  <2>1. \A j \in world.jobs : CallsAt(j)
    BY DEF OInv
  <2> QED
    BY <2>1 DEF CallsAt, AnsweredBy, Calm, CallsReachOwnTools
<1> QED
  BY <1>1, OwnershipInvariant, PTL

=============================================================================
