----------------------------- MODULE Resolution -----------------------------
(***************************************************************************)
(* Benchmark resolution (resolve_benchmark of atsuite/pipeline.py): what   *)
(* targets a benchmark configuration has on a provider's family, and to    *)
(* which of them each tool use of its trace is routed.                     *)
(*                                                                         *)
(* A configuration is a record:                                            *)
(*   file, bench : the names of its file and of its benchmark;             *)
(*   trace       : the names of its trace's tool_use nodes;                *)
(*   legacy      : whether the trace has nodes of a legacy type, or the    *)
(*                 configuration a sandbox node;                           *)
(*   bindings    : for each node, the sequence of its trace bindings       *)
(*                 [trace, tool, access, stateful, domain];                *)
(*   python      : for each node, its Python version;                      *)
(*   units       : the sequence of FaaS units [name, node, traces, python, *)
(*                 deploy];                                                *)
(*   servers     : the sequence of MCP servers [name, nodes, python,       *)
(*                 deploy].                                                *)
(* Versions stand for what is left of the fallbacks between files, and     *)
(* deploy maps the resources that are given to their values.               *)
(***************************************************************************)
EXTENDS ToolAccess, Sequences, Functions, Naturals

CONSTANTS
  Unset,      (* A value that a configuration does not give.               *)
  Resources,  (* The resources of a target: cpu, memory, disk, timeout.    *)
  DefaultOf   (* Their defaults.                                           *)

ASSUME ResolutionAssumption == DefaultOf \in [Resources -> Nat]

Families == {"faas", "session"}

Traces(c, n) == { b.trace : b \in Range(c.bindings[n]) }

\* A trace that a node binds twice keeps the last binding.
Binding(c, n, t) ==
  LET bs == c.bindings[n]
      last == CHOOSE i \in DOMAIN bs :
                /\ bs[i].trace = t
                /\ \A j \in DOMAIN bs : bs[j].trace = t => j <= i
  IN  bs[last]

\* An access that is given wins over the legacy flag; a stateful access
\* without a domain gets the node's name.
BoundAccess(n, b) ==
  LET mode == IF b.access # Unset THEN b.access
              ELSE IF b.stateful THEN "rw" ELSE "stateless"
  IN  IF mode = "stateless" THEN NoAccess
      ELSE [mode |-> mode, domain |-> IF b.domain = NoDomain THEN n ELSE b.domain]

\* Variant: without a check of the traces' owners.
NodesValidApart(c) ==
  /\ DOMAIN c.bindings # {}
  /\ \A n \in DOMAIN c.bindings :
       /\ c.bindings[n] # <<>>
       /\ \A b \in Range(c.bindings[n]) : b.access \in Modes \cup {Unset}

\* Every node binds some trace with valid accesses, and no trace has two nodes.
NodesValid(c) ==
  /\ DOMAIN c.bindings # {}
  /\ \A n \in DOMAIN c.bindings :
       /\ c.bindings[n] # <<>>
       /\ \A b \in Range(c.bindings[n]) : b.access \in Modes \cup {Unset}
  /\ \A m, n \in DOMAIN c.bindings :
       m # n => Traces(c, m) \cap Traces(c, n) = {}

TraceValid(c) ==
  /\ ~c.legacy
  /\ \A t \in c.trace : \E n \in DOMAIN c.bindings : t \in Traces(c, n)

RuntimeOf(deploy) ==
  [r \in Resources |-> IF r \in DOMAIN deploy THEN deploy[r] ELSE DefaultOf[r]]

\* A FaaS unit serves some traces of one node, which no other unit serves.
UnitsValid(c) ==
  /\ c.units # <<>>
  /\ \A i \in DOMAIN c.units :
       LET u == c.units[i] IN
       /\ u.node \in DOMAIN c.bindings
       /\ u.traces # <<>>
       /\ Range(u.traces) \subseteq Traces(c, u.node)
       /\ u.deploy # Unset
  /\ \A i, j \in DOMAIN c.units :
       i # j => /\ c.units[i].name # c.units[j].name
                /\ Range(c.units[i].traces) \cap Range(c.units[j].traces) = {}

\* The Python versions of a server's nodes, where they have one.
Versions(c, s) == { c.python[n] : n \in Range(s.nodes) } \ {Unset}

\* An MCP server serves whole nodes, once each, which no other server has;
\* nodes of several Python versions need one that is given.
ServersValid(c) ==
  /\ c.servers # <<>>
  /\ \A i \in DOMAIN c.servers :
       LET s == c.servers[i] IN
       /\ s.nodes # <<>>
       /\ Range(s.nodes) \subseteq DOMAIN c.bindings
       /\ \A k, l \in DOMAIN s.nodes : k # l => s.nodes[k] # s.nodes[l]
       /\ s.python = Unset => \A v, x \in Versions(c, s) : v = x
       /\ s.deploy # Unset
  /\ \A i, j \in DOMAIN c.servers :
       i # j => /\ c.servers[i].name # c.servers[j].name
                /\ Range(c.servers[i].nodes) \cap Range(c.servers[j].nodes) = {}

-----------------------------------------------------------------------------

Units(c, family) == IF family = "faas" THEN c.units ELSE c.servers

\* The targets, in the order in which they are built and deployed.
TargetAt(c, family, i) == Units(c, family)[i].name

TargetNames(c, family) ==
  { TargetAt(c, family, i) : i \in DOMAIN Units(c, family) }

NodesAt(c, family, i) ==
  IF family = "faas" THEN {c.units[i].node} ELSE Range(c.servers[i].nodes)

TracesAt(c, family, i) ==
  IF family = "faas" THEN Range(c.units[i].traces)
  ELSE UNION { Traces(c, n) : n \in NodesAt(c, family, i) }

\* The target and the node by which a trace can be routed.
Ways(c, family, t) ==
  { p \in (DOMAIN Units(c, family)) \X (DOMAIN c.bindings) :
      /\ p[2] \in NodesAt(c, family, p[1])
      /\ t \in TracesAt(c, family, p[1])
      /\ t \in Traces(c, p[2]) }

RouteBy(c, family, t, p) ==
  [node   |-> p[2],
   target |-> TargetAt(c, family, p[1]),
   tool   |-> Binding(c, p[2], t).tool,
   access |-> BoundAccess(p[2], Binding(c, p[2], t))]

\* Every route that the configuration gives a trace.
RoutesOf(c, family, t) ==
  { RouteBy(c, family, t, p) : p \in Ways(c, family, t) }

\* The tools that a target's image offers, by its manifest.
ManifestAt(c, family, i) ==
  { Binding(c, p[1], p[2]).tool :
      p \in { q \in NodesAt(c, family, i) \X TracesAt(c, family, i) :
                q[2] \in Traces(c, q[1]) } }

Resolves(c, family) ==
  /\ NodesValid(c)
  /\ TraceValid(c)
  /\ IF family = "faas" THEN UnitsValid(c) ELSE ServersValid(c)
  /\ \A t \in c.trace : RoutesOf(c, family, t) # {}

\* What resolution is for: each tool use has one route, to its node's tool.
Routed(c, family) ==
  \A t \in c.trace : \E r \in RoutesOf(c, family, t) :
    /\ RoutesOf(c, family, t) = {r}
    /\ t \in Traces(c, r.node)
    /\ \E i \in DOMAIN Units(c, family) :
         /\ TargetAt(c, family, i) = r.target
         /\ r.tool \in ManifestAt(c, family, i)
         /\ \A j \in DOMAIN Units(c, family) :
              TargetAt(c, family, j) = r.target => j = i

=============================================================================
