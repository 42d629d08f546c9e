--------------------------- MODULE MCRunLifecycle ---------------------------
(***************************************************************************)
(* Instances of RunLifecycle for TLC: one run with two services, or a pool *)
(* of two runs with one, that start in the same second or not.             *)
(***************************************************************************)
EXTENDS RunLifecycle

CONSTANTS r1, r2, s1, s2

MCRuns == {r1, r2}
MCServices == {s1, s2}
MCSeconds == 1 .. 2

\* atsuite-invoke on aws_lambda, with a snapshot bundle.
Lambda ==
  [runs |-> {r1}, pool |-> FALSE, aws |-> TRUE, stored |-> TRUE, stateful |-> MCServices,
   seeds |-> MCServices, scaling |-> FALSE, analyzer |-> TRUE, faulty |-> TRUE]

\* On ali_fc or gcp_faas.
OtherFaas == [Lambda EXCEPT !.aws = FALSE, !.seeds = {}]

AgentRun == [OtherFaas EXCEPT !.stateful = {}, !.scaling = TRUE]

\* On mcp_gateway.
Gateway == [OtherFaas EXCEPT !.stateful = {}, !.stored = FALSE]

Pool(w) == [w EXCEPT !.pool = TRUE, !.runs = MCRuns, !.stateful = @ \cap {s1},
                     !.seeds = @ \cap {s1}]

Quiet(w) == [w EXCEPT !.analyzer = FALSE]

FaultFree(w) == [w EXCEPT !.faulty = FALSE]

SingleWorlds == { Lambda, OtherFaas, AgentRun, Gateway, Quiet(OtherFaas) }

\* Without faults every failure of a run is due to the other run.
PoolWorlds ==
  { FaultFree(Pool(Lambda)), FaultFree(Pool(OtherFaas)), FaultFree(Pool(Gateway)),
    Quiet(Pool(OtherFaas)) }

MCWorlds == SingleWorlds \cup PoolWorlds

\* A pool in which a run may have faults of its own, and another one none.
FaultyPoolWorlds == { Pool(OtherFaas) }

=============================================================================
