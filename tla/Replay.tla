------------------------------- MODULE Replay -------------------------------
(***************************************************************************)
(* run_node of atsuite/invoker.py: the replay of one trace.                *)
(*                                                                         *)
(* One coordinator thread owns the bookkeeping (in-degrees, ready nodes,   *)
(* the lock table, the pending futures); a bounded pool of worker threads  *)
(* executes the submitted nodes in submission order.  The coordinator      *)
(*   schedule  submits every ready node the lock table admits,             *)
(*   wait      blocks until at least one pending future has ended,         *)
(*   collect   takes the ended futures one by one: gives back the lock,    *)
(*             re-raises the node's exception if there is one,             *)
(*   deliver   walks the collected node's edges, one sleep per edge,       *)
(*   shutdown  leaves the `with` block, which joins the worker threads,    *)
(* and returns or raises.  The body of a node is its start and its         *)
(* outcome here; the steps inside a tool call are those of FaasState and   *)
(* McpSession.                                                             *)
(***************************************************************************)
EXTENDS Trace, AccessScheduler

VARIABLES
  run,        (* The replay, chosen at the start and never changed.        *)
  reachable,  (* reachable_nodes.                                          *)
  inDegree,   (* in_degree.                                                *)
  ready,      (* ready_nodes.  A set: sorted() erases the deque's order.   *)
  visited,    (* visited.                                                  *)
  inputs,     (* node_incoming_params: the edges whose parameters are in.  *)
  pending,    (* The nodes whose futures are in pending.                   *)
  queue,      (* The executor's work queue.                                *)
  running,    (* Nodes being executed by a worker thread.                  *)
  outcome,    (* How a node's future ended, "none" while it has not.       *)
  pc,         (* What the coordinator does next.                           *)
  batch,      (* The futures of done not collected yet.                    *)
  current,    (* current_node.                                             *)
  pos,        (* Edges of current already delivered.                       *)
  error       (* Whether the coordinator is propagating an exception.      *)

workerVars == <<queue, running, outcome>>
tableVars  == <<readers, writers>>
dagVars    == <<inDegree, ready, visited, inputs>>
loopVars   == <<pc, batch, current, pos, error>>
vars == <<run, reachable, dagVars, pending, workerVars, tableVars, loopVars>>

-----------------------------------------------------------------------------

Access(n) == AccessOf(run, n)

EdgesOf(n) == run.edgeTo[n]

\* Every edge of the trace, by its source and its position in edge_to.
Edges == UNION { {n} \X DOMAIN EdgesOf(n) : n \in Nodes }

\* The edges that in_degree counts for t.
EdgesInto(t) ==
  { e \in Edges : e[1] \in reachable /\ EdgesOf(e[1])[e[2]] = t }

\* Variant: max_workers is not clamped from below.
WorkerCountUnclamped ==
  LET n == Cardinality(reachable)
  IN  IF run.maxWorkers < n THEN run.maxWorkers ELSE n

\* worker_count: 1 at least, and never more than there are nodes.
WorkerCount ==
  LET n == Cardinality(reachable)
      m == IF run.maxWorkers < n THEN run.maxWorkers ELSE n
  IN  IF m < 1 THEN 1 ELSE m

Ended == { n \in Nodes : outcome[n] # "none" }

\* The ready nodes that the lock table admits now.
Startable == { n \in ready : CanStart(run.faas, Access(n)) }

-----------------------------------------------------------------------------

Init ==
  /\ run \in Runs
  /\ reachable = Reachable(run)
  /\ inDegree = [n \in Nodes |-> Cardinality(EdgesInto(n))]
  /\ ready = { n \in reachable : inDegree[n] = 0 }
  /\ visited = {}
  /\ inputs = [n \in Nodes |-> {}]
  /\ pending = {}
  /\ queue = <<>>
  /\ running = {}
  /\ outcome = [n \in Nodes |-> "none"]
  /\ TableInit
  /\ pc = "schedule"
  /\ batch = {}
  /\ current = Source
  /\ pos = 0
  /\ error = FALSE

\* One round of schedule_ready_nodes.  Submitting only adds locks, so the
\* repeated passes over sorted(ready_nodes) submit the least startable node
\* until none is left.
SubmitNode(n) ==
  /\ pc = "schedule"
  /\ n \in Startable
  /\ \A m \in Startable : n <= m
  /\ Acquire(run.faas, Access(n))
  /\ ready' = ready \ {n}
  /\ visited' = visited \cup {n}
  /\ pending' = pending \cup {n}
  /\ queue' = Append(queue, n)
  /\ UNCHANGED <<run, reachable, inDegree, inputs, running, outcome, loopVars>>

\* Variant: the main loop runs while there are ready nodes only.
EndScheduleEarly ==
  /\ pc = "schedule"
  /\ Startable = {}
  /\ pc' = IF ready = {} THEN "shutdown" ELSE "wait"
  /\ UNCHANGED <<run, reachable, dagVars, pending, workerVars, tableVars,
                 batch, current, pos, error>>

\* schedule_ready_nodes finds nothing to submit.  With nothing pending the
\* loop ends, whether ready_nodes is empty or not (`if not pending: break`).
EndSchedule ==
  /\ pc = "schedule"
  /\ Startable = {}
  /\ pc' = IF pending = {} THEN "shutdown" ELSE "wait"
  /\ UNCHANGED <<run, reachable, dagVars, pending, workerVars, tableVars,
                 batch, current, pos, error>>

\* wait(pending, FIRST_COMPLETED) returns every future that has ended.
WaitReturns ==
  /\ pc = "wait"
  /\ pending \cap Ended # {}
  /\ batch' = pending \cap Ended
  /\ pc' = "collect"
  /\ UNCHANGED <<run, reachable, dagVars, pending, workerVars, tableVars,
                 current, pos, error>>

\* pending.pop, access_scheduler.finish and a future.result() that returns.
Collect(n) ==
  /\ pc = "collect"
  /\ n \in batch
  /\ outcome[n] = "ok"
  /\ Release(run.faas, Access(n))
  /\ pending' = pending \ {n}
  /\ batch' = batch \ {n}
  /\ current' = n
  /\ pos' = 0
  /\ pc' = "deliver"
  /\ UNCHANGED <<run, reachable, dagVars, workerVars, error>>

\* Variant: the exception is swallowed and the successors are released.
CollectSwallows(n) ==
  /\ pc = "collect"
  /\ n \in batch
  /\ outcome[n] = "raised"
  /\ Release(run.faas, Access(n))
  /\ pending' = pending \ {n}
  /\ batch' = batch \ {n}
  /\ current' = n
  /\ pos' = 0
  /\ pc' = "deliver"
  /\ UNCHANGED <<run, reachable, dagVars, workerVars, error>>

\* The same when future.result() raises: the exception leaves the loop with
\* the other futures uncollected, and the executor's __exit__ joins the pool.
CollectRaises(n) ==
  /\ pc = "collect"
  /\ n \in batch
  /\ outcome[n] = "raised"
  /\ Release(run.faas, Access(n))
  /\ pending' = pending \ {n}
  /\ batch' = {}
  /\ error' = TRUE
  /\ pc' = "shutdown"
  /\ UNCHANGED <<run, reachable, dagVars, workerVars, current, pos>>

\* Variant: the first input is kept as it is.
MergedFirst(is, e) == IF e \in run.bare \/ is # {} THEN is ELSE {e}

\* The first input that arrives is taken; a dictionary is updated with those
\* that come later, and what is no dictionary neither updates nor is updated.
Merged(is, e) ==
  IF e \in run.bare \/ (is # {} /\ (is \cup {e}) \cap run.text # {})
  THEN is ELSE is \cup {e}

\* Variant: a node is ready as soon as one predecessor delivered.
DeliverEdgeEager ==
  /\ pc = "deliver"
  /\ pos < Len(EdgesOf(current))
  /\ LET t == EdgesOf(current)[pos + 1] IN
       /\ inDegree' = [inDegree EXCEPT ![t] = @ - 1]
       /\ ready' = ready \cup {t}
       /\ inputs' = [inputs EXCEPT ![t] = Merged(@, <<current, pos + 1>>)]
  /\ pos' = pos + 1
  /\ UNCHANGED <<run, reachable, visited, pending, workerVars, tableVars,
                 pc, batch, current, error>>

\* One edge of the collected node, after sleep_fn(interval_ms).
DeliverEdge ==
  /\ pc = "deliver"
  /\ pos < Len(EdgesOf(current))
  /\ LET t == EdgesOf(current)[pos + 1] IN
       /\ inDegree' = [inDegree EXCEPT ![t] = @ - 1]
       /\ ready' = IF inDegree[t] = 1 THEN ready \cup {t} ELSE ready
       /\ inputs' = [inputs EXCEPT ![t] = Merged(@, <<current, pos + 1>>)]
  /\ pos' = pos + 1
  /\ UNCHANGED <<run, reachable, visited, pending, workerVars, tableVars,
                 pc, batch, current, error>>

EndDeliver ==
  /\ pc = "deliver"
  /\ pos = Len(EdgesOf(current))
  /\ pc' = IF batch = {} THEN "schedule" ELSE "collect"
  /\ UNCHANGED <<run, reachable, dagVars, pending, workerVars, tableVars,
                 batch, current, pos, error>>

\* executor.shutdown(wait=True): queued futures are not cancelled, so the
\* join waits for them as well.
JoinWorkers ==
  /\ pc = "shutdown"
  /\ queue = <<>>
  /\ running = {}
  /\ pc' = IF error THEN "raised" ELSE "returned"
  /\ UNCHANGED <<run, reachable, dagVars, pending, workerVars, tableVars,
                 batch, current, pos, error>>

\* A worker thread takes the oldest work item.
BeginNode ==
  /\ queue # <<>>
  /\ Cardinality(running) < WorkerCount
  /\ running' = running \cup {Head(queue)}
  /\ queue' = Tail(queue)
  /\ UNCHANGED <<run, reachable, dagVars, pending, outcome, tableVars,
                 loopVars>>

\* execute_node returns or raises.
EndNode(n) ==
  /\ n \in running
  /\ \E o \in Outcomes(run, n) : outcome' = [outcome EXCEPT ![n] = o]
  /\ running' = running \ {n}
  /\ UNCHANGED <<run, reachable, dagVars, pending, queue, tableVars, loopVars>>

Over == pc \in {"returned", "raised"}

Stopped == Over /\ UNCHANGED vars

Coordinator ==
  \/ \E n \in Nodes : SubmitNode(n) \/ Collect(n) \/ CollectRaises(n)
  \/ EndSchedule
  \/ WaitReturns
  \/ DeliverEdge
  \/ EndDeliver
  \/ JoinWorkers

Worker == BeginNode \/ \E n \in Nodes : EndNode(n)

Next == Coordinator \/ Worker \/ Stopped

Spec == Init /\ [][Next]_vars

\* The coordinator thread runs; a free worker thread takes queued work; the
\* body of every node ends.  The last is the platform's doing for FaaS calls
\* (the deployed function's own timeout ends them, FunctionClient waits
\* without one) and the HTTP client's for MCP calls (3600 s).
Fairness ==
  /\ WF_vars(Coordinator)
  /\ WF_vars(BeginNode)
  /\ \A n \in Nodes : WF_vars(EndNode(n))

FairSpec == Spec /\ Fairness

-----------------------------------------------------------------------------
(* Properties *)

InFlight == { n \in Nodes : n \in running \/ \E i \in DOMAIN queue : queue[i] = n }

\* The variables of run_node stay in their ranges; in particular no in-degree
\* ever goes below 0, whatever parallel edges or cycles the trace has.
TypeOK ==
  /\ run \in Runs
  /\ reachable \subseteq Nodes
  /\ inDegree \in [Nodes -> Nat]
  /\ ready \subseteq reachable
  /\ visited \subseteq reachable
  /\ inputs \in [Nodes -> SUBSET (Nodes \X Nat)]
  /\ pending \subseteq visited
  /\ queue \in Seq(pending)
  /\ running \subseteq pending
  /\ outcome \in [Nodes -> {"none", "ok", "raised"}]
  /\ TableTypeOK
  /\ pc \in {"schedule", "wait", "collect", "deliver", "shutdown",
             "returned", "raised"}
  /\ batch \subseteq pending
  /\ current \in Nodes
  /\ pos \in Nat
  /\ error \in BOOLEAN

\* The purpose of the lock table (class AccessScheduler): of the FaaS calls
\* handed to the pool and not ended, no two conflict on a state domain.  Locks
\* are taken at submission and given back at collection, so this relates what
\* the workers do to what the coordinator last knew about them.
ExclusiveAccess ==
  \A m, n \in InFlight : m # n => ~Excludes(run, m, n)

ReadersOf(d) == { n \in pending : run.faas /\ Reads(Access(n)) /\ Access(n).domain = d }
WritersOf(d) == { n \in pending : run.faas /\ Writes(Access(n)) /\ Access(n).domain = d }

\* The table is exactly the accesses of the uncollected futures: a lock is
\* neither lost while its call may be running nor kept after it was collected.
TableMatchesPending ==
  /\ readers = [d \in Domains |-> Cardinality(ReadersOf(d))]
  /\ writers = { d \in Domains : WritersOf(d) # {} }

\* A node is handed to the pool only after every reachable predecessor ended
\* with success and was collected (in_degree reaches 0 by deliveries alone).
SuccessorsAfterSuccess ==
  \A n \in visited, m \in reachable :
    n \in Targets(run, m) => outcome[m] = "ok" /\ m \notin pending

\* What becomes of the inputs of edges es: one dictionary of all that are
\* dictionaries, or what is none if it came first.
MergeOf(es, is) ==
  IF es \cap run.text = {} THEN is = es
  ELSE \/ is = es \ run.text /\ is # {}
       \/ \E e \in es \cap run.text : is = {e}

\* A node is handed to the pool with the parameters of all edges that lead to
\* it, in whatever order its predecessors ended; only an input that is no
\* dictionary can keep others out (node_incoming_params, in_degree).
ArgumentsWhole ==
  \A n \in visited : MergeOf(EdgesInto(n) \ run.bare, inputs[n])

\* When the coordinator blocks in wait(), every ready node it left behind is
\* kept back by a call that is still uncollected, never by a stale lock.
WorkConserving ==
  pc = "wait" =>
    \A n \in ready : \E m \in pending : Excludes(run, m, n)

\* The nodes of a set each of which has a predecessor in it: those of a cycle
\* and those behind one.  Their in_degree never reaches 0.
Stuck(r) ==
  UNION { S \in SUBSET Reachable(r) :
            \A n \in S : \E m \in S : n \in Targets(r, m) }

\* run_node returns normally only if no node raised, and then it has executed
\* every reachable node but those on a cycle or behind one, and none of these:
\* the early exit of the main loop (`if not pending: break`) never drops a
\* ready node or an unread exception, and what a cyclic trace loses is known.
ReturnMeansComplete ==
  pc = "returned" =>
    /\ \A n \in Nodes : outcome[n] # "raised"
    /\ \A n \in reachable : outcome[n] = "ok" <=> n \notin Stuck(run)

\* When run_node is over, returned or raised, no node of the run is executing
\* or still queued: the state cleanup that run_trace starts next has no
\* concurrent call of its own run.
QuietWhenOver == Over => InFlight = {}

\* A node is executed at most once: what has ended is never handed to the
\* pool again, nor does its outcome change.
ExecutedOnce ==
  [][\A n \in Nodes :
       outcome[n] # "none" => outcome'[n] = outcome[n] /\ n \notin InFlight']_vars

\* What has been submitted and has succeeded, failed, or is in progress is
\* what the abstract execution of the trace's DAG may do.
Abstract == INSTANCE DagExecution WITH
  active <- InFlight,
  done   <- { n \in Nodes : outcome[n] = "ok" },
  failed <- { n \in Nodes : outcome[n] = "raised" },
  over   <- CASE pc = "returned" -> "ok" [] pc = "raised" -> "error" [] OTHER -> "no"

ImplementsDag == Abstract!DSpec

\* Under Fairness the run ends, whatever the trace, the accesses and the
\* number of workers.
Terminates == <>Over

\* No reader or writer starves: a ready node is submitted unless the run
\* fails, although readers that arrive later may overtake a waiting writer.
ReadyIsSubmitted ==
  \A n \in Nodes : n \in ready ~> (n \in visited \/ error)

-----------------------------------------------------------------------------
(* The inductive invariant behind the safety properties *)

\* A submitted node is in exactly one place: once in the queue, or at a
\* worker, or ended; only ended nodes are collected.
PoolInv ==
  /\ \A i, j \in DOMAIN queue : queue[i] = queue[j] => i = j
  /\ \A i \in DOMAIN queue : queue[i] \notin running
  /\ \A n \in InFlight : n \in pending /\ outcome[n] = "none"
  /\ \A n \in visited \ InFlight : outcome[n] # "none"
  /\ \A n \in Nodes \ visited : outcome[n] = "none"
  /\ batch \subseteq Ended

\* The edges out of n that the coordinator has walked.
Delivered(e) ==
  /\ e[1] \in visited \ pending
  /\ outcome[e[1]] = "ok"
  /\ pc = "deliver" /\ current = e[1] => e[2] <= pos

Undelivered(t) == { e \in EdgesInto(t) : ~Delivered(e) }

\* in_degree counts the edges still to be delivered, and a reachable node is
\* ready or submitted exactly when there is none.
DegreeInv ==
  /\ \A t \in Nodes : inDegree[t] = Cardinality(Undelivered(t))
  /\ ready \cap visited = {}
  /\ \A t \in reachable : t \in ready \cup visited <=> inDegree[t] = 0

\* The inputs of a node are those of the edges delivered to it so far.
InputsInv ==
  \A t \in Nodes :
    MergeOf({ e \in EdgesInto(t) : Delivered(e) } \ run.bare, inputs[t])

\* The uncollected futures are pairwise compatible, running or not.
PendingExclusive ==
  \A m, n \in pending : m # n => ~Excludes(run, m, n)

\* What the coordinator's position says about the rest.
ControlInv ==
  /\ pc \in {"schedule", "wait", "collect", "deliver", "returned"} => ~error
  /\ pc = "raised" => error
  /\ error => \E n \in Nodes : outcome[n] = "raised"
  /\ \A n \in visited \ pending : outcome[n] = "raised" => error
  /\ pc = "schedule" => batch = {}
  /\ pc = "deliver" =>
       /\ current \in visited \ pending
       /\ outcome[current] = "ok"
       /\ pos <= Len(EdgesOf(current))
  /\ pc \in {"shutdown", "returned"} /\ ~error => pending = {} /\ ready = {}
  /\ pc = "wait" => Startable = {}
  /\ Over => InFlight = {}

IInv ==
  /\ TypeOK
  /\ reachable = Reachable(run)
  /\ PoolInv
  /\ DegreeInv
  /\ InputsInv
  /\ TableMatchesPending
  /\ PendingExclusive
  /\ ControlInv

=============================================================================
