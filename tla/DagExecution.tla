---------------------------- MODULE DagExecution ----------------------------
(***************************************************************************)
(* What a replay promises, without threads, queues or lock tables: the     *)
(* nodes reachable from the source are executed in an order that respects  *)
(* the edges, no two conflicting tool calls are in progress at once, a     *)
(* node starts only after all its predecessors succeeded, and the run is   *)
(* over only when nothing is in progress and either nothing more can be    *)
(* executed or some node failed.                                           *)
(***************************************************************************)
EXTENDS Trace

VARIABLES
  run,      (* The replay: trace, bindings and options; never changes.     *)
  active,   (* Nodes started and not yet ended.                            *)
  done,     (* Nodes that ended with success.                              *)
  failed,   (* Nodes that ended with an error.                             *)
  over      (* "no" until the run is over, then "ok" or "error".           *)

dvars == <<run, active, done, failed, over>>

Preds(n) == { m \in Reachable(run) : n \in Targets(run, m) }

\* Neither started nor waiting for a predecessor.
Executable(n) ==
  /\ n \in Reachable(run) \ (active \cup done \cup failed)
  /\ Preds(n) \subseteq done

DInit ==
  /\ run \in Runs
  /\ active = {}
  /\ done = {}
  /\ failed = {}
  /\ over = "no"

Start(n) ==
  /\ over = "no"
  /\ Executable(n)
  /\ \A m \in active : ~Excludes(run, m, n)
  /\ active' = active \cup {n}
  /\ UNCHANGED <<run, done, failed, over>>

Succeed(n) ==
  /\ n \in active
  /\ active' = active \ {n}
  /\ done' = done \cup {n}
  /\ UNCHANGED <<run, failed, over>>

Fail(n) ==
  /\ n \in active
  /\ active' = active \ {n}
  /\ failed' = failed \cup {n}
  /\ UNCHANGED <<run, done, over>>

\* The run ends well only if no node that could be executed was left out.
Complete ==
  /\ over = "no" /\ active = {} /\ failed = {}
  /\ \A n \in Nodes : ~Executable(n)
  /\ over' = "ok"
  /\ UNCHANGED <<run, active, done, failed>>

Abort ==
  /\ over = "no" /\ active = {} /\ failed # {}
  /\ over' = "error"
  /\ UNCHANGED <<run, active, done, failed>>

DNext ==
  \/ \E n \in Nodes : Start(n) \/ Succeed(n) \/ Fail(n)
  \/ Complete
  \/ Abort

DSpec == DInit /\ [][DNext]_dvars

=============================================================================
