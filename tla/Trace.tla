------------------------------- MODULE Trace -------------------------------
(***************************************************************************)
(* A replay's input: the trace (atsuite_sdk/workflow.py), the access of    *)
(* its tool calls (atsuite/pipeline.py) and the options of run_node.       *)
(* Nothing in the code rejects a cyclic trace or parallel edges, so the    *)
(* model does not either.                                                  *)
(***************************************************************************)
EXTENDS ToolAccess, Integers, Sequences, FiniteSets

CONSTANTS
  Nodes,    (* Node ids of the trace.                                      *)
  Source,   (* The node a replay starts from: 0 in run_trace.              *)
  Runs      (* The replays considered.                                     *)

Kinds == {"logic", "llm", "sandbox", "tool_use"}

ASSUME TraceAssumption ==
  /\ IsFiniteSet(Nodes)
  /\ Nodes \subseteq Int
  /\ Source \in Nodes
  /\ \A r \in Runs :
       /\ r.edgeTo \in [Nodes -> Seq(Nodes)]   \* Node.edge_to, in order
       /\ r.kind \in [Nodes -> Kinds]          \* Node.node_type
       /\ r.bare \subseteq Nodes \X Nat         \* edges without an "input"
       /\ r.text \subseteq Nodes \X Nat         \* those whose input is no dict
       /\ r.access \in [Nodes -> Accesses]     \* TraceRoute.tool_access
       /\ r.faas \in BOOLEAN                   \* resolved.family == "faas"
       /\ r.maxWorkers \in Int                 \* max_workers, 32 for None

Targets(r, n) == { r.edgeTo[n][i] : i \in DOMAIN r.edgeTo[n] }

\* get_reachable_nodes: the least set that holds the source and is closed
\* under the edges.
Reachable(r) ==
  { n \in Nodes :
      \A S \in SUBSET Nodes :
        Source \in S /\ (\A m \in S : Targets(r, m) \subseteq S) => n \in S }

\* Only tool calls have an entry in node_access.
AccessOf(r, n) == IF r.kind[n] = "tool_use" THEN r.access[n] ELSE NoAccess

\* The calls that the lock table of a replay must keep apart.
Excludes(r, m, n) == r.faas /\ Conflict(AccessOf(r, m), AccessOf(r, n))

\* A node's body ends by returning or by raising: a sandbox node always
\* raises, a tool call may, and any other may in the print that ends it, when
\* standard output is a log that is closed.
Outcomes(r, n) == IF r.kind[n] = "sandbox" THEN {"raised"} ELSE {"ok", "raised"}

=============================================================================
