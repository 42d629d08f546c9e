----------------------------- MODULE Deployment -----------------------------
(***************************************************************************)
(* What is fixed before FaaS replays start: the deployed services, their   *)
(* function instances, the replays that will be run against them and the   *)
(* tool calls of each.  One of Worlds is chosen at the start.              *)
(***************************************************************************)
EXTENDS ToolAccess, FiniteSets, Sequences, Naturals

CONSTANTS
  Services,    (* FaaS targets, by name.                                   *)
  Instances,   (* Function instances, the platform's.                      *)
  Runs,        (* Replays: one run_trace each.                             *)
  Uids,        (* Run uids, and what _safe_uid makes of them.              *)
  Sanitized,   (* Sanitized[u] is u with each character replaced that is   *)
               (* no letter, digit, '-' or '_'.                            *)
  Calls,       (* Tool calls.                                              *)
  Base,        (* The content of a seeded snapshot.                        *)
  NoObject,    (* What the object store has under an unused key.           *)
  Worlds

Marks == Calls \cup {Base}

Backends == {"s3", "oss", "gcs"}

ASSUME DeploymentAssumption ==
  /\ IsFiniteSet(Calls)
  /\ Base \notin Calls
  /\ NoObject \notin Seq(SUBSET Marks)
  /\ Sanitized \in [Uids -> Uids]
  /\ \A u \in Uids : Sanitized[Sanitized[u]] = Sanitized[u]
  /\ \A w \in Worlds :
       /\ w.host     \in [Instances -> Services]
       /\ w.calls    \subseteq Calls           \* the calls of the traces
       /\ w.service  \in [Calls -> Services]   \* route.target_name
       /\ w.run      \in [Calls -> Runs]
       /\ w.stateful \in [Calls -> BOOLEAN]    \* UnifiedAgentTool.stateful
       /\ w.access   \in [Calls -> Accesses]   \* TraceRoute.tool_access
       /\ w.uid      \in [Runs -> Uids]
       /\ w.after    \in [Runs -> SUBSET Runs] \* replays the user runs before
       /\ w.seeded   \subseteq Services        \* state_snapshot_bundle
       /\ w.backend  \in Backends
       /\ w.seeded # {} => w.backend = "s3"    \* only aws_lambda is seeded
       /\ w.inPlace  \in BOOLEAN   \* tools mutate containers, or rebind names
       /\ w.lossy    \in BOOLEAN   \* a connection may break during a call
       /\ w.faulty   \in BOOLEAN   \* a storage request may fail, and so may
                                   \* an instance's create_storage

\* An object's key: f"{service}/{uid}.json".
Keys == Services \X Uids

SafeUid(u) == Sanitized[u]

\* The object of a call's session: the server sanitises the uid.
KeyOf(w, c) == <<w.service[c], SafeUid(w.uid[w.run[c]])>>

CallsOf(w, r) == { c \in w.calls : w.run[c] = r }

=============================================================================
