---------------------------- MODULE Replay_proofs ----------------------------
(***************************************************************************)
(* Theorems about Replay, for every trace, access table, number of workers *)
(* and set of nodes.                                                       *)
(***************************************************************************)
EXTENDS Replay, FiniteSetTheorems, TLAPS

-----------------------------------------------------------------------------
(* The input of a replay *)

\* The fields of a replay have the types that TraceAssumption gives them.
LEMMA RunType ==
  ASSUME NEW r \in Runs
  PROVE  /\ r.edgeTo \in [Nodes -> Seq(Nodes)]
         /\ r.kind \in [Nodes -> Kinds]
         /\ r.access \in [Nodes -> Accesses]
         /\ r.faas \in BOOLEAN
         /\ r.maxWorkers \in Int
  BY TraceAssumption

\* Every node has an access, and a stateful one names a domain.
LEMMA AccessType ==
  ASSUME run \in Runs, NEW n \in Nodes
  PROVE  /\ Access(n) \in Accesses
         /\ IsStateful(Access(n)) => Access(n).domain \in Domains
<1>1. NoAccess \in Accesses
  BY DEF NoAccess, Accesses, Modes
<1>2. run.access[n] \in Accesses
  BY RunType
<1>3. Access(n) \in Accesses
  BY <1>1, <1>2 DEF Access, AccessOf
<1>4. QED
  BY <1>3 DEF Accesses, IsStateful

\* The edges walked from a node lead to nodes.
LEMMA EdgeType ==
  ASSUME run \in Runs, NEW n \in Nodes
  PROVE  /\ EdgesOf(n) \in Seq(Nodes)
         /\ Len(EdgesOf(n)) \in Nat
         /\ DOMAIN EdgesOf(n) = 1 .. Len(EdgesOf(n))
         /\ \A i \in DOMAIN EdgesOf(n) : EdgesOf(n)[i] \in Nodes
  BY RunType DEF EdgesOf

\* A member of Edges is a node and a position among the node's edges.
LEMMA EdgesMember ==
  ASSUME run \in Runs
  PROVE  \A e : e \in Edges <=>
           \E n \in Nodes : \E i \in DOMAIN EdgesOf(n) : e = <<n, i>>
  BY DEF Edges

\* A trace has finitely many edges.
LEMMA EdgesFinite ==
  ASSUME run \in Runs
  PROVE  IsFiniteSet(Edges)
<1> DEFINE Out(n) == {n} \X DOMAIN EdgesOf(n)
           f == [n \in Nodes |-> Out(n)]
           S == { Out(n) : n \in Nodes }
<1>1. f \in Surjection(Nodes, S)
  BY DEF Surjection
<1>2. IsFiniteSet(S)
  BY <1>1, FS_Surjection, TraceAssumption
<1>3. \A n \in Nodes : IsFiniteSet(Out(n))
  <2> TAKE n \in Nodes
  <2>1. IsFiniteSet(DOMAIN EdgesOf(n))
    BY EdgeType, FS_Interval
  <2>2. IsFiniteSet({n})
    BY FS_Singleton
  <2>3. QED
    BY <2>1, <2>2, FS_Product
<1>4. \A T \in S : IsFiniteSet(T)
  BY <1>3
<1>5. QED
  BY <1>2, <1>4, FS_UNION DEF Edges

\* The reachable nodes are nodes, and closed under the edges.
LEMMA ReachableClosed ==
  ASSUME NEW r \in Runs
  PROVE  /\ Reachable(r) \subseteq Nodes
         /\ \A n \in Reachable(r) : Targets(r, n) \subseteq Reachable(r)
<1>1. SUFFICES ASSUME NEW n \in Reachable(r), NEW t \in Targets(r, n)
               PROVE  t \in Reachable(r)
  BY DEF Reachable
<1>2. t \in Nodes
  BY <1>1, RunType DEF Targets, Reachable
<1>3. ASSUME NEW S \in SUBSET Nodes,
             Source \in S, \A m \in S : Targets(r, m) \subseteq S
      PROVE  t \in S
  BY <1>1, <1>3 DEF Reachable
<1>4. QED
  BY <1>2, <1>3 DEF Reachable

\* Excludes is symmetric, so it does not matter which call came first.
LEMMA ExcludesSymmetric ==
  ASSUME NEW r, NEW m, NEW n
  PROVE  Excludes(r, m, n) <=> Excludes(r, n, m)
  BY DEF Excludes, Conflict

\* The edges into a node, delivered or not, are finitely many.
LEMMA UndeliveredFinite ==
  ASSUME run \in Runs, NEW t
  PROVE  /\ IsFiniteSet(EdgesInto(t))
         /\ IsFiniteSet(Undelivered(t))
         /\ Cardinality(EdgesInto(t)) \in Nat
         /\ Cardinality(Undelivered(t)) \in Nat
<1>1. EdgesInto(t) \in SUBSET Edges /\ Undelivered(t) \in SUBSET Edges
  BY DEF EdgesInto, Undelivered
<1>2. QED
  BY <1>1, EdgesFinite, FS_Subset, FS_CardinalityType

-----------------------------------------------------------------------------
(* Facts about unchanged parts of the state *)

\* The lock table stays right when neither it nor the futures change.
LEMMA TableKept ==
  ASSUME TableMatchesPending, PendingExclusive,
         UNCHANGED <<run, pending, readers, writers>>
  PROVE  TableMatchesPending' /\ PendingExclusive'
<1>1. \A d : ReadersOf(d)' = ReadersOf(d) /\ WritersOf(d)' = WritersOf(d)
  BY DEF ReadersOf, WritersOf, Access
<1>2. QED
  BY <1>1 DEF TableMatchesPending, PendingExclusive

\* The inputs stay right when no edge changes sides.
LEMMA InputsKept ==
  ASSUME InputsInv, UNCHANGED <<run, reachable, inputs>>,
         \A e \in Edges : Delivered(e)' <=> Delivered(e)
  PROVE  InputsInv'
<1>1. Edges' = Edges /\ \A t : EdgesInto(t)' = EdgesInto(t)
  BY DEF Edges, EdgesInto, EdgesOf
<1>2. \A t : { e \in EdgesInto(t) : Delivered(e) }'
               = { e \in EdgesInto(t) : Delivered(e) }
  BY <1>1 DEF EdgesInto
<1>3. QED
  BY <1>2 DEF InputsInv, MergeOf

\* The in-degrees stay right as well when the ready nodes do.
LEMMA EdgesKept ==
  ASSUME DegreeInv, InputsInv,
         UNCHANGED <<run, reachable, inDegree, ready, visited, inputs>>,
         \A e \in Edges : Delivered(e)' <=> Delivered(e)
  PROVE  DegreeInv' /\ InputsInv'
<1>1. Edges' = Edges /\ \A t : EdgesInto(t)' = EdgesInto(t)
  BY DEF Edges, EdgesInto, EdgesOf
<1>2. \A t : Undelivered(t)' = Undelivered(t)
  BY <1>1 DEF Undelivered, EdgesInto
<1>3. DegreeInv'
  BY <1>2 DEF DegreeInv
<1>4. QED
  BY <1>3, InputsKept

\* A node the pool holds is pending and has not ended.
LEMMA PoolKept ==
  ASSUME PoolInv,
         UNCHANGED <<queue, running, outcome, visited, pending>>,
         batch' \subseteq Ended
  PROVE  PoolInv'
<1>1. InFlight' = InFlight /\ Ended' = Ended
  BY DEF InFlight, Ended
<1>2. QED
  BY <1>1 DEF PoolInv

-----------------------------------------------------------------------------
(* The initial state *)

\* At the start in_degree is exact, the table empty and the sources ready.
LEMMA InitInvariant == Init => IInv
<1> SUFFICES ASSUME Init PROVE IInv
  OBVIOUS
<1>1. run \in Runs /\ reachable = Reachable(run) /\ reachable \subseteq Nodes
  BY ReachableClosed DEF Init
<1>2. \A t \in Nodes : Undelivered(t) = EdgesInto(t)
  BY DEF Init, Undelivered, Delivered
<1>3. \A t \in Nodes : inDegree[t] = Cardinality(EdgesInto(t))
  BY DEF Init
<1>4. TypeOK
  <2>1. inDegree \in [Nodes -> Nat]
    BY <1>1, <1>3, UndeliveredFinite DEF Init
  <2>2. Source \in Nodes
    BY TraceAssumption
  <2>3. queue \in Seq(pending)
    BY DEF Init
  <2>4. TableTypeOK
    BY DEF Init, TableInit, TableTypeOK
  <2>5. outcome \in [Nodes -> {"none", "ok", "raised"}]
    BY DEF Init
  <2>6. QED
    BY <1>1, <2>1, <2>2, <2>3, <2>4, <2>5 DEF Init, TypeOK
<1>5. PoolInv
  BY DEF Init, PoolInv, InFlight
<1>6. DegreeInv /\ InputsInv
  <2>1. \A t : { e \in EdgesInto(t) : Delivered(e) } = {}
    BY DEF Init, Delivered
  <2>2. InputsInv
    BY <2>1 DEF Init, InputsInv, MergeOf
  <2>3. QED
    BY <1>1, <1>2, <1>3, <2>2 DEF Init, DegreeInv
<1>7. TableMatchesPending
  <2>1. \A d \in Domains : ReadersOf(d) = {} /\ WritersOf(d) = {}
    BY DEF Init, ReadersOf, WritersOf
  <2>2. QED
    BY <2>1, FS_EmptySet DEF Init, TableInit, TableMatchesPending
<1>8. PendingExclusive
  BY DEF Init, PendingExclusive
<1>9. ControlInv
  BY DEF Init, ControlInv, Over
<1>10. QED
  BY <1>1, <1>4, <1>5, <1>6, <1>7, <1>8, <1>9 DEF IInv

-----------------------------------------------------------------------------
(* The lock table *)

\* A table that matches the pending futures refuses every access that
\* conflicts with one of them.
LEMMA CanStartExcludes ==
  ASSUME run \in Runs, pending \subseteq Nodes, TableMatchesPending,
         NEW n \in Nodes, CanStart(run.faas, Access(n)), NEW m \in pending
  PROVE  ~Excludes(run, m, n)
<1> DEFINE d == Access(n).domain
<1>1. SUFFICES ASSUME Excludes(run, m, n)
               PROVE  FALSE
  OBVIOUS
<1>2. /\ run.faas
      /\ IsStateful(Access(m)) /\ IsStateful(Access(n))
      /\ Access(m).domain = d
      /\ ~(Reads(Access(m)) /\ Reads(Access(n)))
  BY <1>1 DEF Excludes, Conflict, Access
<1>3. d \in Domains
  BY <1>2, AccessType
<1>4. d \notin writers /\ (Writes(Access(n)) => readers[d] = 0)
  BY <1>2 DEF CanStart
<1>5. CASE Writes(Access(m))
  <2>1. m \in WritersOf(d)
    BY <1>2, <1>5 DEF WritersOf
  <2>2. QED
    BY <1>3, <1>4, <2>1 DEF TableMatchesPending
<1>6. CASE ~Writes(Access(m))
  <2>1. Reads(Access(m)) /\ Writes(Access(n))
    BY <1>2, <1>6 DEF Reads, Writes
  <2>2. m \in ReadersOf(d)
    BY <1>2, <2>1 DEF ReadersOf
  <2>3. Cardinality(ReadersOf(d)) = 0
    BY <1>3, <1>4, <2>1 DEF TableMatchesPending
  <2>4. IsFiniteSet(ReadersOf(d))
    BY TraceAssumption, FS_Subset DEF ReadersOf
  <2>5. QED
    BY <2>2, <2>3, <2>4, FS_EmptySet
<1>7. QED
  BY <1>5, <1>6

\* Submitting a call that the table admits keeps the table right and the
\* pending futures compatible.
LEMMA AcquireKeeps ==
  ASSUME run \in Runs, pending \subseteq Nodes,
         TableMatchesPending, PendingExclusive,
         NEW n \in Nodes \ pending, Acquire(run.faas, Access(n)),
         pending' = pending \cup {n}, run' = run
  PROVE  TableMatchesPending' /\ PendingExclusive'
<1>0. Access(n) \in Accesses /\ run.faas \in BOOLEAN
  BY AccessType, RunType
<1> DEFINE a == Access(n)
<1>1. PendingExclusive'
  <2>1. \A m \in pending : ~Excludes(run, m, n) /\ ~Excludes(run, n, m)
    BY CanStartExcludes, ExcludesSymmetric DEF Acquire
  <2>2. QED
    BY <2>1 DEF PendingExclusive
<1>2. ASSUME NEW d \in Domains
      PROVE  /\ readers'[d] = Cardinality(ReadersOf(d)')
             /\ d \in writers' <=> WritersOf(d)' # {}
  <2>1. /\ readers[d] = Cardinality(ReadersOf(d))
        /\ d \in writers <=> WritersOf(d) # {}
    BY <1>2 DEF TableMatchesPending
  <2>2. IsFiniteSet(ReadersOf(d)) /\ n \notin ReadersOf(d)
    BY TraceAssumption, FS_Subset DEF ReadersOf
  <2>3. CASE run.faas /\ Reads(a) /\ a.domain = d
    <3>1. ReadersOf(d)' = ReadersOf(d) \cup {n} /\ WritersOf(d)' = WritersOf(d)
      BY <2>3 DEF ReadersOf, WritersOf, Access, Reads, Writes
    <3>2. readers' = [readers EXCEPT ![d] = @ + 1] /\ writers' = writers
      BY <2>3 DEF Acquire, Reads, Writes
    <3>3. readers'[d] = readers[d] + 1
      BY <1>2, <3>2 DEF TableMatchesPending
    <3>4. QED
      BY <2>1, <2>2, <3>1, <3>2, <3>3, FS_AddElement
  <2>4. CASE run.faas /\ Writes(a) /\ a.domain = d
    <3>1. ReadersOf(d)' = ReadersOf(d) /\ WritersOf(d)' = WritersOf(d) \cup {n}
      BY <2>4 DEF ReadersOf, WritersOf, Access, Reads, Writes
    <3>2. readers' = readers /\ writers' = writers \cup {d}
      BY <2>4 DEF Acquire, Reads, Writes
    <3>3. QED
      BY <2>1, <3>1, <3>2
  <2>5. CASE ~run.faas \/ ~IsStateful(a) \/ a.domain # d
    <3>1. ReadersOf(d)' = ReadersOf(d) /\ WritersOf(d)' = WritersOf(d)
      BY <2>5 DEF ReadersOf, WritersOf, Access, Reads, Writes
    <3>2. readers'[d] = readers[d] /\ (d \in writers' <=> d \in writers)
      BY <1>2, <2>5 DEF Acquire, Reads, Writes, TableMatchesPending
    <3>3. QED
      BY <2>1, <3>1, <3>2
  <2>6. QED
    BY <1>0, <2>3, <2>4, <2>5 DEF Reads, Writes
<1>3. /\ DOMAIN readers' = Domains
      /\ readers' = [d \in Domains |-> readers'[d]]
      /\ writers' \subseteq Domains
  BY <1>0, AccessType DEF Acquire, TableMatchesPending, Writes
<1>4. QED
  BY <1>1, <1>2, <1>3 DEF TableMatchesPending

\* Collecting a future gives back exactly its own lock.
LEMMA ReleaseKeeps ==
  ASSUME run \in Runs, pending \subseteq Nodes,
         TableMatchesPending, PendingExclusive,
         NEW n \in pending, Release(run.faas, Access(n)),
         pending' = pending \ {n}, run' = run
  PROVE  TableMatchesPending' /\ PendingExclusive'
<1>0. Access(n) \in Accesses /\ run.faas \in BOOLEAN
  BY AccessType, RunType
<1> DEFINE a == Access(n)
<1>1. PendingExclusive'
  BY DEF PendingExclusive
<1>2. ASSUME NEW d \in Domains
      PROVE  /\ readers'[d] = Cardinality(ReadersOf(d)')
             /\ d \in writers' <=> WritersOf(d)' # {}
  <2>1. /\ readers[d] = Cardinality(ReadersOf(d))
        /\ d \in writers <=> WritersOf(d) # {}
    BY <1>2 DEF TableMatchesPending
  <2>2. IsFiniteSet(ReadersOf(d)) /\ Cardinality(ReadersOf(d)) \in Nat
    BY TraceAssumption, FS_Subset, FS_CardinalityType DEF ReadersOf
  <2>3. CASE run.faas /\ Reads(a) /\ a.domain = d
    <3>1. /\ ReadersOf(d)' = ReadersOf(d) \ {n} /\ n \in ReadersOf(d)
          /\ WritersOf(d)' = WritersOf(d)
      BY <2>3 DEF ReadersOf, WritersOf, Access, Reads, Writes
    <3>2. readers[d] # 0
      BY <2>1, <2>2, <3>1, FS_EmptySet
    <3>3. /\ readers' = [readers EXCEPT ![d] = IF @ <= 1 THEN 0 ELSE @ - 1]
          /\ writers' = writers
      BY <2>3 DEF Release, Reads, Writes
    <3>4. readers'[d] = readers[d] - 1
      BY <1>2, <2>1, <2>2, <3>2, <3>3 DEF TableMatchesPending
    <3>5. QED
      BY <2>1, <2>2, <3>1, <3>3, <3>4, FS_RemoveElement
  <2>4. CASE run.faas /\ Writes(a) /\ a.domain = d
    <3>1. ReadersOf(d)' = ReadersOf(d) /\ WritersOf(d)' = WritersOf(d) \ {n}
      BY <2>4 DEF ReadersOf, WritersOf, Access, Reads, Writes
    <3>2. WritersOf(d) \subseteq {n}
      BY <2>4 DEF WritersOf, PendingExclusive, Excludes, Conflict, Access,
                  Reads, Writes
    <3>3. readers' = readers /\ writers' = writers \ {d}
      BY <2>4 DEF Release, Reads, Writes
    <3>4. QED
      BY <2>1, <3>1, <3>2, <3>3
  <2>5. CASE ~run.faas \/ ~IsStateful(a) \/ a.domain # d
    <3>1. ReadersOf(d)' = ReadersOf(d) /\ WritersOf(d)' = WritersOf(d)
      BY <2>5 DEF ReadersOf, WritersOf, Access, Reads, Writes
    <3>2. readers'[d] = readers[d] /\ (d \in writers' <=> d \in writers)
      BY <1>2, <2>5 DEF Release, Reads, Writes, TableMatchesPending
    <3>3. QED
      BY <2>1, <3>1, <3>2
  <2>6. QED
    BY <1>0, <2>3, <2>4, <2>5 DEF Reads, Writes
<1>3. /\ DOMAIN readers' = Domains
      /\ readers' = [d \in Domains |-> readers'[d]]
      /\ writers' \subseteq Domains
  BY DEF Release, TableMatchesPending
<1>4. QED
  BY <1>1, <1>2, <1>3 DEF TableMatchesPending

-----------------------------------------------------------------------------
(* The steps of the coordinator *)

\* submit_node moves a ready node to the pool together with its lock.
LEMMA SubmitNodeKeeps ==
  ASSUME IInv, NEW n \in Nodes, SubmitNode(n)
  PROVE  IInv'
<1> USE DEF IInv
<1>1. /\ run \in Runs /\ pending \subseteq Nodes /\ visited \subseteq Nodes
      /\ n \in reachable /\ n \notin visited /\ n \notin pending
      /\ outcome[n] = "none"
  BY DEF SubmitNode, Startable, TypeOK, DegreeInv, PoolInv
<1>2. TypeOK'
  <2>1. queue' \in Seq(pending')
    BY DEF SubmitNode, TypeOK
  <2>2. TableTypeOK'
    BY <1>1, AccessType DEF SubmitNode, TypeOK, TableTypeOK, Acquire, Reads, Writes
  <2>3. QED
    BY <1>1, <2>1, <2>2 DEF SubmitNode, TypeOK, loopVars
<1>3. PoolInv'
  <2>1. n \notin InFlight
    BY <1>1 DEF PoolInv
  <2>2. queue \in Seq(Nodes) /\ queue' = Append(queue, n) /\ running' = running
    BY <1>1 DEF TypeOK, SubmitNode
  <2>3. /\ Len(queue) \in Nat /\ DOMAIN queue = 1 .. Len(queue)
        /\ DOMAIN queue' = 1 .. Len(queue) + 1
        /\ queue'[Len(queue) + 1] = n
        /\ \A i \in DOMAIN queue : queue'[i] = queue[i] /\ queue[i] \in InFlight
    BY <2>2 DEF InFlight
  <2>4. InFlight' = InFlight \cup {n}
    BY <2>2, <2>3 DEF InFlight
  <2>5. \A i, j \in DOMAIN queue' : queue'[i] = queue'[j] => i = j
    BY <2>1, <2>3 DEF PoolInv
  <2>6. \A i \in DOMAIN queue' : queue'[i] \notin running'
    BY <2>1, <2>2, <2>3 DEF PoolInv, InFlight
  <2>7. QED
    BY <1>1, <2>4, <2>5, <2>6 DEF PoolInv, SubmitNode, loopVars, Ended
<1>4. DegreeInv' /\ InputsInv'
  <2>1. \A e \in Edges : Delivered(e)' <=> Delivered(e)
    BY <1>1 DEF SubmitNode, Delivered, loopVars
  <2>2. Edges' = Edges /\ \A t : EdgesInto(t)' = EdgesInto(t)
    BY DEF SubmitNode, Edges, EdgesInto, EdgesOf
  <2>3. \A t : Undelivered(t)' = Undelivered(t)
    BY <2>1, <2>2 DEF Undelivered, EdgesInto
  <2>4. ready' \cup visited' = ready \cup visited /\ n \notin ready'
    BY DEF SubmitNode, Startable
  <2>5. DegreeInv'
    BY <2>3, <2>4 DEF DegreeInv, SubmitNode
  <2>6. QED
    BY <2>1, <2>5, InputsKept DEF SubmitNode
<1>5. TableMatchesPending' /\ PendingExclusive'
  BY <1>1, AcquireKeeps DEF SubmitNode
<1>6. ControlInv'
  BY <1>1 DEF SubmitNode, ControlInv, loopVars, Over
<1>7. reachable' = Reachable(run')
  BY DEF SubmitNode
<1>8. QED
  BY <1>2, <1>3, <1>4, <1>5, <1>6, <1>7

\* With no future pending the table is empty, so nothing that is ready can
\* have been refused.
LEMMA NothingPendingNothingRefused ==
  ASSUME IInv, pending = {}, Startable = {}
  PROVE  ready = {}
<1>1. \A d \in Domains : ReadersOf(d) = {} /\ WritersOf(d) = {}
  BY DEF ReadersOf, WritersOf
<1>2. \A d \in Domains : readers[d] = 0 /\ d \notin writers
  BY <1>1, FS_EmptySet DEF IInv, TableMatchesPending
<1>3. ASSUME NEW n \in ready
      PROVE  n \in Startable
  BY <1>2, <1>3, AccessType DEF Startable, CanStart, IInv, TypeOK
<1>4. QED
  BY <1>3

\* The main loop is left only with nothing ready and nothing pending.
LEMMA EndScheduleKeeps ==
  ASSUME IInv, EndSchedule
  PROVE  IInv'
<1> USE DEF IInv
<1>1. TypeOK'
  BY DEF EndSchedule, TypeOK, TableTypeOK, dagVars, workerVars, tableVars
<1>2. PoolInv'
  <2>1. batch' \subseteq Ended
    BY DEF EndSchedule, PoolInv
  <2>2. QED
    BY <2>1, PoolKept DEF EndSchedule, workerVars, dagVars
<1>3. DegreeInv' /\ InputsInv'
  <2>1. \A e \in Edges : Delivered(e)' <=> Delivered(e)
    BY DEF EndSchedule, Delivered, dagVars, workerVars
  <2>2. QED
    BY <2>1, EdgesKept DEF EndSchedule, dagVars
<1>4. TableMatchesPending' /\ PendingExclusive'
  BY TableKept DEF EndSchedule, tableVars
<1>5. ControlInv'
  <2>1. pending = {} => ready = {}
    BY NothingPendingNothingRefused DEF EndSchedule
  <2>2. Startable' = Startable
    BY DEF EndSchedule, Startable, CanStart, Access, dagVars, tableVars
  <2>3. QED
    BY <2>1, <2>2 DEF EndSchedule, ControlInv, Over, dagVars, workerVars
<1>6. reachable' = Reachable(run')
  BY DEF EndSchedule
<1>7. QED
  BY <1>1, <1>2, <1>3, <1>4, <1>5, <1>6

\* wait() hands the coordinator futures that have ended.
LEMMA WaitReturnsKeeps ==
  ASSUME IInv, WaitReturns
  PROVE  IInv'
<1> USE DEF IInv
<1>1. TypeOK'
  BY DEF WaitReturns, TypeOK, TableTypeOK, dagVars, workerVars, tableVars
<1>2. PoolInv'
  BY PoolKept DEF WaitReturns, workerVars, dagVars
<1>3. DegreeInv' /\ InputsInv'
  <2>1. \A e \in Edges : Delivered(e)' <=> Delivered(e)
    BY DEF WaitReturns, Delivered, dagVars, workerVars
  <2>2. QED
    BY <2>1, EdgesKept DEF WaitReturns, dagVars
<1>4. TableMatchesPending' /\ PendingExclusive'
  BY TableKept DEF WaitReturns, tableVars
<1>5. ControlInv'
  BY DEF WaitReturns, ControlInv, Over, dagVars, workerVars
<1>6. reachable' = Reachable(run')
  BY DEF WaitReturns
<1>7. QED
  BY <1>1, <1>2, <1>3, <1>4, <1>5, <1>6

\* A future that has ended is in no worker's hands.
LEMMA EndedNotInFlight ==
  ASSUME IInv, NEW n \in batch
  PROVE  n \in pending /\ n \in Nodes /\ n \notin InFlight /\ outcome[n] # "none"
  BY DEF IInv, TypeOK, PoolInv, Ended

\* Taking an ended future out of pending leaves the pool as it is.
LEMMA PoolKeptByCollection ==
  ASSUME IInv, NEW n \in batch,
         UNCHANGED <<queue, running, outcome, visited>>,
         pending' = pending \ {n}, batch' \subseteq batch
  PROVE  /\ PoolInv'
         /\ queue' \in Seq(pending')
         /\ running' \subseteq pending'
<1>1. InFlight' = InFlight /\ Ended' = Ended
  BY DEF InFlight, Ended
<1>2. InFlight \subseteq pending \ {n}
  BY EndedNotInFlight DEF IInv, PoolInv
<1>3. PoolInv'
  BY <1>1, <1>2 DEF IInv, PoolInv
<1>4. queue \in Seq(pending) /\ \A i \in DOMAIN queue : queue[i] \in InFlight
  BY DEF IInv, TypeOK, InFlight
<1>5. queue \in Seq(pending \ {n})
  BY <1>2, <1>4
<1>6. QED
  BY <1>2, <1>3, <1>5 DEF InFlight, IInv, TypeOK

\* Taking a future that succeeded gives its lock back and starts its edges.
LEMMA CollectKeeps ==
  ASSUME IInv, NEW n \in Nodes, Collect(n)
  PROVE  IInv'
<1> USE DEF IInv
<1>1. /\ run \in Runs /\ pending \subseteq Nodes
      /\ n \in batch /\ n \in pending /\ n \in visited /\ outcome[n] = "ok"
  BY EndedNotInFlight DEF Collect, TypeOK
<1>2. /\ PoolInv'
      /\ queue' \in Seq(pending')
      /\ running' \subseteq pending'
  BY <1>1, PoolKeptByCollection DEF Collect, workerVars, dagVars
<1>3. TypeOK'
  <2>1. TableTypeOK'
    BY <1>1, AccessType DEF Collect, Release, TypeOK, TableTypeOK, Reads, Writes
  <2>2. QED
    BY <1>1, <1>2, <2>1 DEF Collect, TypeOK, dagVars, workerVars
<1>4. DegreeInv' /\ InputsInv'
  <2>1. ASSUME NEW e \in Edges
        PROVE  Delivered(e)' <=> Delivered(e)
    <3>1. e[1] \in Nodes /\ e[2] \in Nat /\ e[2] > 0
      BY <1>1, EdgesMember, EdgeType
    <3>2. CASE e[1] = n
      BY <1>1, <3>1, <3>2 DEF Collect, Delivered, dagVars, workerVars
    <3>3. CASE e[1] # n
      BY <3>3 DEF Collect, Delivered, dagVars, workerVars
    <3>4. QED
      BY <3>2, <3>3
  <2>2. QED
    BY <2>1, EdgesKept DEF Collect, dagVars
<1>5. TableMatchesPending' /\ PendingExclusive'
  BY <1>1, ReleaseKeeps DEF Collect
<1>6. ControlInv'
  <2>1. Len(EdgesOf(n)) \in Nat /\ EdgesOf(n)' = EdgesOf(n)
    BY <1>1, EdgeType DEF EdgesOf, Collect
  <2>2. /\ pc = "collect" /\ pc' = "deliver" /\ current' = n /\ pos' = 0
        /\ pending' = pending \ {n}
        /\ UNCHANGED <<outcome, visited, error>>
    BY DEF Collect, dagVars, workerVars
  <2>3. (pos <= Len(EdgesOf(current)))'
    BY <2>1, <2>2 DEF EdgesOf
  <2>4. QED
    BY <1>1, <2>2, <2>3 DEF ControlInv, Over, EdgesOf
<1>7. reachable' = Reachable(run')
  BY DEF Collect
<1>8. QED
  BY <1>2, <1>3, <1>4, <1>5, <1>6, <1>7

\* Taking a future that raised gives its lock back and sets the error.
LEMMA CollectRaisesKeeps ==
  ASSUME IInv, NEW n \in Nodes, CollectRaises(n)
  PROVE  IInv'
<1> USE DEF IInv
<1>1. /\ run \in Runs /\ pending \subseteq Nodes
      /\ n \in batch /\ n \in pending /\ outcome[n] = "raised"
  BY EndedNotInFlight DEF CollectRaises, TypeOK
<1>2. /\ PoolInv'
      /\ queue' \in Seq(pending')
      /\ running' \subseteq pending'
  BY <1>1, PoolKeptByCollection DEF CollectRaises, workerVars, dagVars
<1>3. TypeOK'
  <2>1. TableTypeOK'
    BY <1>1, AccessType DEF CollectRaises, Release, TypeOK, TableTypeOK, Reads, Writes
  <2>2. QED
    BY <1>1, <1>2, <2>1 DEF CollectRaises, TypeOK, dagVars, workerVars
<1>4. DegreeInv' /\ InputsInv'
  <2>1. \A e \in Edges : Delivered(e)' <=> Delivered(e)
    BY <1>1 DEF CollectRaises, Delivered, dagVars, workerVars
  <2>2. QED
    BY <2>1, EdgesKept DEF CollectRaises, dagVars
<1>5. TableMatchesPending' /\ PendingExclusive'
  BY <1>1, ReleaseKeeps DEF CollectRaises
<1>6. ControlInv'
  BY <1>1 DEF CollectRaises, ControlInv, Over, dagVars, workerVars
<1>7. reachable' = Reachable(run')
  BY DEF CollectRaises
<1>8. QED
  BY <1>2, <1>3, <1>4, <1>5, <1>6, <1>7

\* Taking in one more input keeps the merge of what has arrived.
LEMMA MergedKeeps ==
  ASSUME NEW es, NEW is, NEW e, MergeOf(es \ run.bare, is)
  PROVE  MergeOf((es \cup {e}) \ run.bare, Merged(is, e))
<1> DEFINE arrived == es \ run.bare
<1>1. CASE e \in run.bare
  <2>1. (es \cup {e}) \ run.bare = arrived /\ Merged(is, e) = is
    BY <1>1 DEF Merged
  <2>2. QED
    BY <2>1
<1>2. CASE e \notin run.bare /\ e \in run.text
  <2>1. (es \cup {e}) \ run.bare = arrived \cup {e}
    BY <1>2
  <2>2. CASE is = {}
    <3>1. Merged(is, e) = {e}
      BY <1>2, <2>2 DEF Merged
    <3>2. QED
      BY <1>2, <2>1, <3>1 DEF MergeOf
  <2>3. CASE is # {}
    <3>1. Merged(is, e) = is
      BY <1>2, <2>3 DEF Merged
    <3>2. (arrived \cup {e}) \ run.text = arrived \ run.text
      BY <1>2
    <3>3. (arrived \cup {e}) \cap run.text # {}
      BY <1>2
    <3>4. QED
      BY <2>1, <2>3, <3>1, <3>2, <3>3 DEF MergeOf
  <2>4. QED
    BY <2>2, <2>3
<1>3. CASE e \notin run.bare /\ e \notin run.text
  <2>1. (es \cup {e}) \ run.bare = arrived \cup {e}
    BY <1>3
  <2>2. CASE is \cap run.text = {}
    <3>1. Merged(is, e) = is \cup {e}
      BY <1>3, <2>2 DEF Merged
    <3>2. is = arrived \ run.text
      BY <2>2 DEF MergeOf
    <3>3. QED
      BY <1>3, <2>1, <2>2, <3>1, <3>2 DEF MergeOf
  <2>3. CASE is \cap run.text # {}
    <3>1. Merged(is, e) = is
      BY <2>3, <1>3 DEF Merged
    <3>2. \E x \in arrived \cap run.text : is = {x}
      BY <2>3 DEF MergeOf
    <3>3. QED
      BY <2>1, <3>1, <3>2 DEF MergeOf
  <2>4. QED
    BY <2>2, <2>3
<1>4. QED
  BY <1>1, <1>2, <1>3

\* Walking one edge takes one edge off the target's in_degree and adds its
\* input to the target's.
LEMMA DeliverEdgeKeeps ==
  ASSUME IInv, DeliverEdge
  PROVE  IInv'
<1> USE DEF IInv
<1> DEFINE x == <<current, pos + 1>>
<1>1. /\ run \in Runs /\ current \in Nodes /\ pos \in Nat
      /\ current \in reachable /\ current \in visited \ pending
      /\ outcome[current] = "ok"
      /\ pos + 1 \in DOMAIN EdgesOf(current)
      /\ pc = "deliver"
  BY EdgeType DEF DeliverEdge, TypeOK, ControlInv
<1>2. PICK t \in reachable : t = EdgesOf(current)[pos + 1] /\ t \in Nodes
  <2>1. EdgesOf(current)[pos + 1] \in Targets(run, current)
    BY <1>1 DEF Targets, EdgesOf
  <2>2. QED
    BY <1>1, <2>1, ReachableClosed
<1>3. x \in Undelivered(t)
  <2>1. x \in Edges
    BY <1>1, EdgesMember
  <2>2. QED
    BY <1>1, <1>2, <2>1 DEF Undelivered, EdgesInto, Delivered
<1>4. ASSUME NEW e \in Edges
      PROVE  Delivered(e)' <=> Delivered(e) \/ e = x
  <2>1. PICK n \in Nodes : \E i \in DOMAIN EdgesOf(n) : e = <<n, i>>
    BY <1>1, EdgesMember
  <2>2. PICK i \in DOMAIN EdgesOf(n) : e = <<n, i>>
    BY <2>1
  <2>3. e[1] = n /\ e[2] = i /\ i \in Nat
    BY <1>1, <2>2, EdgeType
  <2>4. CASE n = current
    BY <1>1, <2>2, <2>3, <2>4 DEF DeliverEdge, Delivered, workerVars
  <2>5. CASE n # current
    BY <1>1, <2>2, <2>3, <2>5 DEF DeliverEdge, Delivered, workerVars
  <2>6. QED
    BY <2>4, <2>5
<1>5. ASSUME NEW u \in Nodes
      PROVE  Undelivered(u)' = Undelivered(u) \ {x}
  <2>1. Edges' = Edges /\ EdgesInto(u)' = EdgesInto(u)
    BY DEF DeliverEdge, Edges, EdgesInto, EdgesOf
  <2>2. QED
    BY <1>4, <2>1 DEF Undelivered, EdgesInto
<1>6. \A u \in Nodes : u # t => x \notin Undelivered(u)
  BY <1>2 DEF Undelivered, EdgesInto
<1>7. /\ inDegree' = [inDegree EXCEPT ![t] = @ - 1]
      /\ ready' = IF inDegree[t] = 1 THEN ready \cup {t} ELSE ready
      /\ inDegree \in [Nodes -> Nat]
  BY <1>2 DEF DeliverEdge, TypeOK
<1>8. \A u \in Nodes : inDegree'[u] = Cardinality(Undelivered(u)')
  <2>1. ASSUME NEW u \in Nodes, u # t
        PROVE  inDegree'[u] = Cardinality(Undelivered(u)')
    <3>1. Undelivered(u)' = Undelivered(u)
      BY <1>5, <1>6, <2>1
    <3>2. QED
      BY <1>7, <2>1, <3>1 DEF DegreeInv
  <2>2. inDegree'[t] = Cardinality(Undelivered(t)')
    <3>1. Cardinality(Undelivered(t) \ {x}) = Cardinality(Undelivered(t)) - 1
      BY <1>1, <1>3, UndeliveredFinite, FS_RemoveElement
    <3>2. QED
      BY <1>2, <1>5, <1>7, <3>1 DEF DegreeInv
  <2>3. QED
    BY <2>1, <2>2
<1>9. inDegree[t] # 0
  <2>1. Cardinality(Undelivered(t)) # 0
    BY <1>1, <1>3, UndeliveredFinite, FS_EmptySet
  <2>2. QED
    BY <1>2, <2>1 DEF DegreeInv
<1>10. TypeOK'
  <2>1. inDegree' \in [Nodes -> Nat]
    BY <1>2, <1>7, <1>9
  <2>2. inputs' \in [Nodes -> SUBSET (Nodes \X Nat)]
    <3>1. Merged(inputs[t], x) \subseteq inputs[t] \cup {x}
      BY DEF Merged
    <3>2. x \in Nodes \X Nat
      BY <1>1
    <3>3. inputs' = [inputs EXCEPT ![t] = Merged(inputs[t], x)]
      BY <1>2 DEF DeliverEdge, TypeOK
    <3>4. QED
      BY <1>2, <3>1, <3>2, <3>3 DEF TypeOK
  <2>3. /\ pos' = pos + 1
        /\ UNCHANGED <<run, reachable, visited, pending, queue, running,
                       outcome, readers, writers, pc, batch, current, error>>
    BY DEF DeliverEdge, workerVars, tableVars
  <2>4. ready' \subseteq reachable
    BY <1>2, <1>7 DEF TypeOK
  <2>5. QED
    BY <1>1, <2>1, <2>2, <2>3, <2>4 DEF TypeOK, TableTypeOK
<1>11. PoolInv'
  <2>1. batch' \subseteq Ended
    BY DEF DeliverEdge, PoolInv
  <2>2. QED
    BY <2>1, PoolKept DEF DeliverEdge, workerVars
<1>12. DegreeInv'
  <2>1. ready' \cap visited' = {}
    BY <1>2, <1>7, <1>9 DEF DeliverEdge, DegreeInv
  <2>2. \A u \in reachable' : u \in ready' \cup visited' <=> inDegree'[u] = 0
    BY <1>2, <1>7, <1>9 DEF DeliverEdge, DegreeInv, TypeOK
  <2>3. QED
    BY <1>8, <2>1, <2>2 DEF DegreeInv
<1>13. TableMatchesPending' /\ PendingExclusive'
  BY TableKept DEF DeliverEdge, tableVars
<1>14. ControlInv'
  <2>1. pos' <= Len(EdgesOf(current))
    BY <1>1, EdgeType DEF DeliverEdge
  <2>2. QED
    BY <1>1, <2>1 DEF DeliverEdge, ControlInv, Over, workerVars, EdgesOf
<1>15. reachable' = Reachable(run')
  BY DEF DeliverEdge
<1>16. InputsInv'
  <2> DEFINE In(u) == { e \in EdgesInto(u) : Delivered(e) }
  <2>1. ASSUME NEW u \in Nodes
        PROVE  In(u)' = IF u = t THEN In(u) \cup {x} ELSE In(u)
    <3>1. Edges' = Edges /\ EdgesInto(u)' = EdgesInto(u)
      BY DEF DeliverEdge, Edges, EdgesInto, EdgesOf
    <3>2. EdgesInto(u) \subseteq Edges /\ (x \in EdgesInto(u) <=> u = t)
      BY <1>2, <1>3 DEF EdgesInto, Undelivered
    <3>3. QED
      BY <1>4, <3>1, <3>2
  <2>2. /\ inputs' = [inputs EXCEPT ![t] = Merged(inputs[t], x)]
        /\ inputs \in [Nodes -> SUBSET (Nodes \X Nat)]
        /\ run' = run
    BY <1>2 DEF DeliverEdge, TypeOK
  <2>3. ASSUME NEW u \in Nodes
        PROVE  MergeOf(In(u)' \ run.bare, inputs'[u])
    <3>1. MergeOf(In(u) \ run.bare, inputs[u])
      BY DEF InputsInv
    <3>2. CASE u = t
      BY <1>2, <2>1, <2>2, <3>1, <3>2, MergedKeeps
    <3>3. CASE u # t
      BY <2>1, <2>2, <3>1, <3>3
    <3>4. QED
      BY <3>2, <3>3
  <2>4. QED
    BY <2>2, <2>3 DEF InputsInv, MergeOf
<1>17. QED
  BY <1>10, <1>11, <1>12, <1>13, <1>14, <1>15, <1>16

\* A node whose edges are walked leaves nothing of it undelivered.
LEMMA EndDeliverKeeps ==
  ASSUME IInv, EndDeliver
  PROVE  IInv'
<1> USE DEF IInv
<1>1. TypeOK'
  BY DEF EndDeliver, TypeOK, TableTypeOK, dagVars, workerVars, tableVars
<1>2. PoolInv'
  <2>1. batch' \subseteq Ended
    BY DEF EndDeliver, PoolInv
  <2>2. QED
    BY <2>1, PoolKept DEF EndDeliver, workerVars, dagVars
<1>3. DegreeInv' /\ InputsInv'
  <2>1. ASSUME NEW e \in Edges
        PROVE  Delivered(e)' <=> Delivered(e)
    <3>1. e[1] \in Nodes /\ e[2] \in 1 .. Len(EdgesOf(e[1]))
      BY EdgesMember, EdgeType DEF TypeOK
    <3>2. e[1] = current => e[2] <= pos
      BY <3>1, EdgeType DEF EndDeliver, TypeOK
    <3>3. QED
      BY <3>2 DEF EndDeliver, Delivered, dagVars, workerVars
  <2>2. QED
    BY <2>1, EdgesKept DEF EndDeliver, dagVars
<1>4. TableMatchesPending' /\ PendingExclusive'
  BY TableKept DEF EndDeliver, tableVars
<1>5. ControlInv'
  BY DEF EndDeliver, ControlInv, Over, dagVars, workerVars
<1>6. reachable' = Reachable(run')
  BY DEF EndDeliver
<1>7. QED
  BY <1>1, <1>2, <1>3, <1>4, <1>5, <1>6

\* The executor's exit finds the pool empty.
LEMMA JoinWorkersKeeps ==
  ASSUME IInv, JoinWorkers
  PROVE  IInv'
<1> USE DEF IInv
<1>1. TypeOK'
  BY DEF JoinWorkers, TypeOK, TableTypeOK, dagVars, workerVars, tableVars
<1>2. PoolInv'
  <2>1. batch' \subseteq Ended
    BY DEF JoinWorkers, PoolInv
  <2>2. QED
    BY <2>1, PoolKept DEF JoinWorkers, workerVars, dagVars
<1>3. DegreeInv' /\ InputsInv'
  <2>1. \A e \in Edges : Delivered(e)' <=> Delivered(e)
    BY DEF JoinWorkers, Delivered, dagVars, workerVars
  <2>2. QED
    BY <2>1, EdgesKept DEF JoinWorkers, dagVars
<1>4. TableMatchesPending' /\ PendingExclusive'
  BY TableKept DEF JoinWorkers, tableVars
<1>5. ControlInv'
  <2>1. InFlight' = {}
    BY DEF JoinWorkers, InFlight, workerVars
  <2>2. QED
    BY <2>1 DEF JoinWorkers, ControlInv, TypeOK, Over, dagVars, workerVars
<1>6. reachable' = Reachable(run')
  BY DEF JoinWorkers
<1>7. QED
  BY <1>1, <1>2, <1>3, <1>4, <1>5, <1>6

-----------------------------------------------------------------------------
(* The steps of the workers *)

\* Taking a work item from the queue leaves its node in the pool.
LEMMA BeginKeepsInFlight ==
  ASSUME IInv, BeginNode
  PROVE  InFlight' = InFlight
<1>1. /\ queue \in Seq(pending) /\ queue # <<>>
      /\ Len(queue) \in Nat /\ DOMAIN queue = 1 .. Len(queue)
      /\ queue' = Tail(queue) /\ running' = running \cup {queue[1]}
      /\ 1 \in DOMAIN queue
  BY DEF BeginNode, IInv, TypeOK
<1>2. /\ DOMAIN queue' = 1 .. Len(queue) - 1
      /\ \A i \in 1 .. Len(queue) - 1 : queue'[i] = queue[i + 1]
  BY <1>1
<1>3. ASSUME NEW n \in Nodes
      PROVE  (\E i \in DOMAIN queue : queue[i] = n) <=>
               n = queue[1] \/ \E i \in DOMAIN queue' : queue'[i] = n
  <2>1. ASSUME NEW i \in DOMAIN queue, queue[i] = n, n # queue[1]
        PROVE  \E j \in DOMAIN queue' : queue'[j] = n
    <3>1. i - 1 \in DOMAIN queue' /\ queue'[i - 1] = queue[i]
      BY <1>1, <1>2, <2>1
    <3>2. QED
      BY <2>1, <3>1
  <2>2. ASSUME NEW i \in DOMAIN queue', queue'[i] = n
        PROVE  \E j \in DOMAIN queue : queue[j] = n
    <3>1. i + 1 \in DOMAIN queue /\ queue'[i] = queue[i + 1]
      BY <1>1, <1>2, <2>2
    <3>2. QED
      BY <2>2, <3>1
  <2>3. QED
    BY <1>1, <2>1, <2>2
<1>4. QED
  BY <1>1, <1>3 DEF InFlight

\* A worker moves the head of the queue to the running nodes.
LEMMA BeginNodeKeeps ==
  ASSUME IInv, BeginNode
  PROVE  IInv'
<1> USE DEF IInv
<1>1. /\ queue \in Seq(pending) /\ queue # <<>>
      /\ Head(queue) = queue[1] /\ 1 \in DOMAIN queue
      /\ Len(queue) \in Nat /\ DOMAIN queue = 1 .. Len(queue)
      /\ queue' = Tail(queue) /\ running' = running \cup {queue[1]}
  BY DEF BeginNode, TypeOK
<1>2. /\ queue' \in Seq(pending)
      /\ DOMAIN queue' = 1 .. Len(queue) - 1
      /\ \A i \in 1 .. Len(queue) - 1 : queue'[i] = queue[i + 1]
  BY <1>1
<1>3. queue[1] \in pending /\ pending \subseteq Nodes
  BY <1>1 DEF TypeOK
<1>4. TypeOK'
  BY <1>1, <1>2, <1>3 DEF BeginNode, TypeOK, TableTypeOK, dagVars, tableVars, loopVars
<1>5. InFlight' = InFlight
  BY BeginKeepsInFlight
<1>6. PoolInv'
  <2>1. \A i, j \in DOMAIN queue' : queue'[i] = queue'[j] => i = j
    BY <1>1, <1>2 DEF PoolInv
  <2>2. \A i \in DOMAIN queue' : queue'[i] \notin running'
    BY <1>1, <1>2 DEF PoolInv
  <2>3. QED
    BY <1>5, <2>1, <2>2 DEF BeginNode, PoolInv, dagVars, loopVars, Ended
<1>7. DegreeInv' /\ InputsInv'
  <2>1. \A e \in Edges : Delivered(e)' <=> Delivered(e)
    BY DEF BeginNode, Delivered, dagVars, loopVars
  <2>2. QED
    BY <2>1, EdgesKept DEF BeginNode, dagVars
<1>8. TableMatchesPending' /\ PendingExclusive'
  BY TableKept DEF BeginNode, tableVars
<1>9. ControlInv'
  <2>1. Startable' = Startable
    BY DEF BeginNode, Startable, CanStart, Access, dagVars, tableVars
  <2>2. QED
    BY <1>5, <2>1 DEF BeginNode, ControlInv, Over, EdgesOf, dagVars, loopVars
<1>10. reachable' = Reachable(run')
  BY DEF BeginNode
<1>11. QED
  BY <1>4, <1>6, <1>7, <1>8, <1>9, <1>10

\* A node that ends leaves the pool and gets its outcome.
LEMMA EndNodeKeeps ==
  ASSUME IInv, NEW n \in Nodes, EndNode(n)
  PROVE  IInv'
<1> USE DEF IInv
<1>1. /\ n \in running /\ n \in InFlight /\ n \in pending /\ n \in visited
      /\ outcome[n] = "none"
  BY DEF EndNode, InFlight, PoolInv, TypeOK
<1>2. PICK o \in {"ok", "raised"} : outcome' = [outcome EXCEPT ![n] = o]
  BY DEF EndNode, Outcomes
<1>3. /\ outcome \in [Nodes -> {"none", "ok", "raised"}]
      /\ outcome'[n] # "none"
      /\ \A m \in Nodes \ {n} : outcome'[m] = outcome[m]
  BY <1>2 DEF TypeOK
<1>4. TypeOK'
  BY <1>2 DEF EndNode, TypeOK, TableTypeOK, dagVars, tableVars, loopVars
<1>5. InFlight' = InFlight \ {n}
  BY <1>1 DEF EndNode, InFlight, PoolInv
<1>6. PoolInv'
  <2>1. \A m \in InFlight' : m \in pending' /\ outcome'[m] = "none"
    BY <1>3, <1>5 DEF EndNode, PoolInv, InFlight
  <2>2. \A m \in visited' \ InFlight' : outcome'[m] # "none"
    BY <1>3, <1>5 DEF EndNode, PoolInv, TypeOK, dagVars
  <2>3. \A m \in Nodes \ visited' : outcome'[m] = "none"
    BY <1>1, <1>3 DEF EndNode, PoolInv, dagVars
  <2>4. batch' \subseteq Ended'
    BY <1>3 DEF EndNode, PoolInv, Ended, loopVars
  <2>5. QED
    BY <2>1, <2>2, <2>3, <2>4 DEF EndNode, PoolInv
<1>7. DegreeInv' /\ InputsInv'
  <2>1. ASSUME NEW e \in Edges
        PROVE  Delivered(e)' <=> Delivered(e)
    <3>1. e[1] \in Nodes
      BY EdgesMember DEF TypeOK
    <3>2. CASE e[1] = n
      BY <1>1, <3>2 DEF EndNode, Delivered, dagVars
    <3>3. CASE e[1] # n
      BY <1>3, <3>1, <3>3 DEF EndNode, Delivered, dagVars, loopVars
    <3>4. QED
      BY <3>2, <3>3
  <2>2. QED
    BY <2>1, EdgesKept DEF EndNode, dagVars
<1>8. TableMatchesPending' /\ PendingExclusive'
  BY TableKept DEF EndNode, tableVars
<1>9. ControlInv'
  <2>1. \A m \in visited \ pending : m \in Nodes /\ m # n
    BY <1>1 DEF TypeOK
  <2>2. error => \E m \in Nodes : outcome'[m] = "raised"
    BY <1>1, <1>3 DEF ControlInv
  <2>3. Startable' = Startable
    BY DEF EndNode, Startable, CanStart, Access, dagVars, tableVars
  <2>4. ~Over
    BY <1>1 DEF ControlInv
  <2>5. QED
    BY <1>3, <2>1, <2>2, <2>3, <2>4
    DEF EndNode, ControlInv, Over, EdgesOf, dagVars, loopVars
<1>10. reachable' = Reachable(run')
  BY DEF EndNode
<1>11. QED
  BY <1>4, <1>6, <1>7, <1>8, <1>9, <1>10

-----------------------------------------------------------------------------
(* The theorems *)

\* Steps that change nothing keep the invariant.
LEMMA StutterKeeps ==
  ASSUME IInv, UNCHANGED vars
  PROVE  IInv'
<1> USE DEF IInv, vars, dagVars, workerVars, tableVars, loopVars
<1>1. TypeOK'
  BY DEF TypeOK, TableTypeOK
<1>2. PoolInv'
  BY PoolKept DEF PoolInv
<1>3. DegreeInv' /\ InputsInv'
  <2>1. \A e \in Edges : Delivered(e)' <=> Delivered(e)
    BY DEF Delivered
  <2>2. QED
    BY <2>1, EdgesKept
<1>4. TableMatchesPending' /\ PendingExclusive'
  BY TableKept
<1>5. ControlInv'
  BY DEF ControlInv, Over, EdgesOf, Startable, CanStart, Access, InFlight
<1>6. QED
  BY <1>1, <1>2, <1>3, <1>4, <1>5

\* Every step of the replay keeps the invariant.
LEMMA NextKeeps ==
  ASSUME IInv, [Next]_vars
  PROVE  IInv'
<1>1. ASSUME NEW n \in Nodes, SubmitNode(n) \/ Collect(n) \/ CollectRaises(n)
      PROVE  IInv'
  BY <1>1, SubmitNodeKeeps, CollectKeeps, CollectRaisesKeeps
<1>2. CASE EndSchedule
  BY <1>2, EndScheduleKeeps
<1>3. CASE WaitReturns
  BY <1>3, WaitReturnsKeeps
<1>4. CASE DeliverEdge
  BY <1>4, DeliverEdgeKeeps
<1>5. CASE EndDeliver
  BY <1>5, EndDeliverKeeps
<1>6. CASE JoinWorkers
  BY <1>6, JoinWorkersKeeps
<1>7. CASE BeginNode
  BY <1>7, BeginNodeKeeps
<1>8. ASSUME NEW n \in Nodes, EndNode(n)
      PROVE  IInv'
  BY <1>8, EndNodeKeeps
<1>9. CASE Stopped \/ UNCHANGED vars
  BY <1>9, StutterKeeps DEF Stopped
<1>10. QED
  BY <1>1, <1>2, <1>3, <1>4, <1>5, <1>6, <1>7, <1>8, <1>9
  DEF Next, Coordinator, Worker

\* The inductive invariant holds in every reachable state of every replay.
THEOREM Invariance == Spec => []IInv
<1>1. IInv /\ [Next]_vars => IInv'
  BY NextKeeps
<1>2. QED
  BY InitInvariant, <1>1, PTL DEF Spec

\* run_node's variables keep their types; no in-degree goes below 0.
THEOREM TypeCorrect == Spec => []TypeOK
<1>1. IInv => TypeOK
  BY DEF IInv
<1>2. QED
  BY Invariance, <1>1, PTL

\* The lock table is exactly the accesses of the uncollected futures.
THEOREM LockTableCorrect == Spec => []TableMatchesPending
<1>1. IInv => TableMatchesPending
  BY DEF IInv
<1>2. QED
  BY Invariance, <1>1, PTL

\* No two calls that conflict on a state domain are queued or executing at
\* the same time in a FaaS replay.
THEOREM MutualExclusion == Spec => []ExclusiveAccess
<1>1. IInv => ExclusiveAccess
  BY DEF IInv, PoolInv, PendingExclusive, ExclusiveAccess
<1>2. QED
  BY Invariance, <1>1, PTL

\* A node with no undelivered edge has only collected, successful
\* predecessors.
LEMMA DegreeZero ==
  ASSUME IInv, NEW n \in reachable, inDegree[n] = 0,
         NEW m \in reachable, n \in Targets(run, m)
  PROVE  m \in visited \ pending /\ outcome[m] = "ok"
<1>1. run \in Runs /\ n \in Nodes /\ m \in Nodes
  BY DEF IInv, TypeOK
<1>2. PICK i \in DOMAIN EdgesOf(m) : EdgesOf(m)[i] = n
  BY DEF Targets, EdgesOf
<1>3. <<m, i>> \in EdgesInto(n)
  BY <1>1, <1>2, EdgesMember DEF EdgesInto
<1>4. Undelivered(n) = {}
  BY <1>1, UndeliveredFinite, FS_EmptySet DEF IInv, DegreeInv
<1>5. QED
  BY <1>3, <1>4 DEF Undelivered, Delivered

\* A node is submitted only after all its reachable predecessors have
\* succeeded and were collected.
THEOREM DependencyOrder == Spec => []SuccessorsAfterSuccess
<1>1. IInv => SuccessorsAfterSuccess
  <2> SUFFICES ASSUME IInv, NEW n \in visited, NEW m \in reachable,
                      n \in Targets(run, m)
               PROVE  outcome[m] = "ok" /\ m \notin pending
    BY DEF SuccessorsAfterSuccess
  <2>1. n \in reachable /\ inDegree[n] = 0
    BY DEF IInv, TypeOK, DegreeInv
  <2>2. QED
    BY <2>1, DegreeZero
<1>2. QED
  BY Invariance, <1>1, PTL

\* A node is submitted with the merged inputs of all edges that lead to it.
THEOREM ArgumentsArrive == Spec => []ArgumentsWhole
<1>1. IInv => ArgumentsWhole
  <2> SUFFICES ASSUME IInv, NEW n \in visited
               PROVE  MergeOf(EdgesInto(n) \ run.bare, inputs[n])
    BY DEF ArgumentsWhole
  <2>1. n \in reachable /\ n \in Nodes /\ run \in Runs /\ inDegree[n] = 0
    BY DEF IInv, TypeOK, DegreeInv
  <2>2. Undelivered(n) = {}
    BY <2>1, UndeliveredFinite, FS_EmptySet DEF IInv, DegreeInv
  <2>3. { e \in EdgesInto(n) : Delivered(e) } = EdgesInto(n)
    BY <2>2 DEF Undelivered
  <2>4. QED
    BY <2>1, <2>3 DEF IInv, InputsInv
<1>2. QED
  BY Invariance, <1>1, PTL

\* run_node is over only when none of its nodes is queued or executing.
THEOREM Quiescence == Spec => []QuietWhenOver
<1>1. IInv => QuietWhenOver
  BY DEF IInv, ControlInv, QuietWhenOver
<1>2. QED
  BY Invariance, <1>1, PTL

\* A ready node that was left behind when the coordinator blocks is kept back
\* by an uncollected call, never by a lock nobody holds.
THEOREM NoStaleLock == Spec => []WorkConserving
<1>1. IInv => WorkConserving
  <2> SUFFICES ASSUME IInv, pc = "wait", NEW n \in ready
               PROVE  \E m \in pending : Excludes(run, m, n)
    BY DEF WorkConserving
  <2>1. n \in Nodes /\ n \notin Startable
    BY DEF IInv, TypeOK, ControlInv
  <2>2. run \in Runs /\ ~CanStart(run.faas, Access(n))
    BY <2>1 DEF Startable, IInv, TypeOK
  <2>3. /\ run.faas
        /\ IsStateful(Access(n))
        /\ Access(n).domain \in Domains
    BY <2>1, <2>2, AccessType DEF CanStart, Access
  <2>4. CASE Access(n).domain \in writers
    <3>1. PICK m \in pending : /\ run.faas
                               /\ Writes(Access(m))
                               /\ Access(m).domain = Access(n).domain
      BY <2>3, <2>4 DEF IInv, TableMatchesPending, WritersOf
    <3>2. QED
      BY <2>3, <3>1 DEF Excludes, Conflict, Access, Writes, Reads
  <2>5. CASE Writes(Access(n)) /\ readers[Access(n).domain] # 0
    <3>1. Cardinality(ReadersOf(Access(n).domain)) # 0
      BY <2>3, <2>5 DEF IInv, TableMatchesPending
    <3>2. ReadersOf(Access(n).domain) # {}
      BY <3>1, FS_EmptySet
    <3>3. PICK m \in pending : /\ run.faas
                               /\ Reads(Access(m))
                               /\ Access(m).domain = Access(n).domain
      BY <3>2 DEF ReadersOf
    <3>4. QED
      BY <2>3, <2>5, <3>3 DEF Excludes, Conflict, Access, Writes, Reads
  <2>6. QED
    BY <2>2, <2>4, <2>5 DEF CanStart
<1>2. QED
  BY Invariance, <1>1, PTL

\* When the main loop has ended without an exception, every node that was not
\* executed waits for another node that was not executed.
LEMMA UnvisitedWaits ==
  ASSUME IInv, pc \in {"shutdown", "returned"}, ~error,
         NEW n \in reachable \ visited
  PROVE  \E m \in reachable \ visited : n \in Targets(run, m)
<1>1. n \in Nodes /\ n \notin ready /\ pending = {}
  BY DEF IInv, TypeOK, ControlInv
<1>2. Undelivered(n) # {}
  <2>1. inDegree[n] # 0
    BY <1>1 DEF IInv, DegreeInv
  <2>2. Cardinality(Undelivered(n)) # 0
    BY <1>1, <2>1 DEF IInv, DegreeInv
  <2>3. QED
    BY <2>2, FS_EmptySet
<1>3. PICK e \in EdgesInto(n) : ~Delivered(e)
  BY <1>2 DEF Undelivered
<1>4. e[1] \in reachable /\ n \in Targets(run, e[1])
  <2>1. run \in Runs
    BY DEF IInv, TypeOK
  <2>2. e \in Edges /\ e[1] \in reachable /\ EdgesOf(e[1])[e[2]] = n
    BY <1>3 DEF EdgesInto
  <2>3. PICK m \in Nodes : \E i \in DOMAIN EdgesOf(m) : e = <<m, i>>
    BY <2>1, <2>2, EdgesMember
  <2>4. PICK i \in DOMAIN EdgesOf(m) : e = <<m, i>>
    BY <2>3
  <2>5. QED
    BY <2>2, <2>4 DEF Targets, EdgesOf
<1>5. e[1] \notin visited
  <2>1. SUFFICES ASSUME e[1] \in visited
                 PROVE  FALSE
    OBVIOUS
  <2>2. outcome[e[1]] # "ok"
    BY <1>1, <1>3, <2>1 DEF Delivered
  <2>3. e[1] \in Nodes /\ e[1] \notin InFlight
    BY <1>1, <1>4 DEF IInv, TypeOK, PoolInv
  <2>4. outcome[e[1]] = "raised"
    BY <2>1, <2>2, <2>3 DEF IInv, TypeOK, PoolInv
  <2>5. QED
    BY <1>1, <2>1, <2>4 DEF IInv, ControlInv
<1>6. QED
  BY <1>4, <1>5

\* A reachable node without an edge still to be delivered is not stuck, as
\* long as no stuck node was submitted: its predecessor would have been.
LEMMA ReadyNotStuck ==
  ASSUME IInv, visited \cap Stuck(run) = {},
         NEW n \in reachable, inDegree[n] = 0
  PROVE  n \notin Stuck(run)
<1> SUFFICES ASSUME n \in Stuck(run)
             PROVE  FALSE
  OBVIOUS
<1>1. PICK S \in SUBSET Reachable(run) :
        n \in S /\ \A k \in S : \E m \in S : k \in Targets(run, m)
  BY DEF Stuck
<1>2. PICK m \in S : n \in Targets(run, m)
  BY <1>1
<1>3. m \in reachable /\ m \in Stuck(run)
  BY <1>1, <1>2 DEF IInv, Stuck
<1>4. outcome[m] = "ok"
  BY <1>2, <1>3, DegreeZero
<1>5. m \in visited
  BY <1>3, <1>4 DEF IInv, TypeOK, PoolInv
<1>6. QED
  BY <1>3, <1>5

\* No node on a cycle, or behind one, is ever submitted.
LEMMA StuckUnvisited == Spec => [](visited \cap Stuck(run) = {})
<1>1. Init => visited \cap Stuck(run) = {}
  BY DEF Init
<1>2. IInv /\ visited \cap Stuck(run) = {} /\ [Next]_vars
        => (visited \cap Stuck(run) = {})'
  <2> SUFFICES ASSUME IInv, visited \cap Stuck(run) = {}, [Next]_vars
               PROVE  visited' \cap Stuck(run') = {}
    BY DEF Stuck
  <2>1. run' = run
    BY DEF Next, Coordinator, Worker, Stopped, vars, dagVars, SubmitNode,
           EndSchedule, WaitReturns, Collect, CollectRaises, DeliverEdge, EndDeliver, JoinWorkers,
           BeginNode, EndNode
  <2>2. CASE \E n \in Nodes : SubmitNode(n)
    <3>1. PICK n \in Nodes : SubmitNode(n)
      BY <2>2
    <3>2. n \in ready /\ visited' = visited \cup {n}
      BY <3>1 DEF SubmitNode, Startable
    <3>3. n \in reachable /\ inDegree[n] = 0
      BY <3>2 DEF IInv, TypeOK, DegreeInv
    <3>4. QED
      BY <2>1, <3>2, <3>3, ReadyNotStuck
  <2>3. CASE ~\E n \in Nodes : SubmitNode(n)
    <3>1. visited' = visited
      BY <2>3 DEF Next, Coordinator, Worker, Stopped, vars, dagVars, EndSchedule,
             WaitReturns, Collect, CollectRaises, DeliverEdge, EndDeliver, JoinWorkers,
             BeginNode, EndNode
    <3>2. QED
      BY <2>1, <3>1
  <2>4. QED
    BY <2>2, <2>3
<1>3. QED
  BY Invariance, <1>1, <1>2, PTL DEF Spec

\* run_node returns normally only when no node raised; it has then executed
\* every reachable node but those on a cycle or behind one, and none of these.
THEOREM CompleteReturn == Spec => []ReturnMeansComplete
<1>1. IInv /\ visited \cap Stuck(run) = {} => ReturnMeansComplete
  <2> SUFFICES ASSUME IInv, visited \cap Stuck(run) = {}, pc = "returned"
               PROVE  /\ \A n \in Nodes : outcome[n] # "raised"
                      /\ \A n \in reachable :
                           outcome[n] = "ok" <=> n \notin Stuck(run)
    BY DEF ReturnMeansComplete
  <2>1. pending = {} /\ ~error /\ reachable \subseteq Nodes
    BY DEF IInv, TypeOK, ControlInv
  <2>2. ASSUME NEW n \in Nodes
        PROVE  outcome[n] # "raised"
    BY <2>1 DEF IInv, ControlInv, PoolInv
  <2>3. reachable \ visited \subseteq Stuck(run)
    <3>1. \A n \in reachable \ visited :
            \E m \in reachable \ visited : n \in Targets(run, m)
      BY <2>1, UnvisitedWaits
    <3>2. reachable \ visited \in SUBSET Reachable(run)
      BY DEF IInv
    <3>3. QED
      BY <3>1, <3>2 DEF Stuck
  <2>4. ASSUME NEW n \in reachable, n \notin Stuck(run)
        PROVE  outcome[n] = "ok"
    <3>1. n \in Nodes /\ n \in visited \ InFlight
      BY <2>1, <2>3, <2>4 DEF IInv, PoolInv
    <3>2. outcome[n] # "none" /\ outcome[n] # "raised"
      BY <2>2, <3>1 DEF IInv, PoolInv
    <3>3. QED
      BY <3>1, <3>2 DEF IInv, TypeOK
  <2>5. ASSUME NEW n \in reachable, n \in Stuck(run)
        PROVE  outcome[n] # "ok"
    BY <2>1, <2>5 DEF IInv, PoolInv
  <2>6. QED
    BY <2>2, <2>4, <2>5
<1>2. QED
  BY Invariance, StuckUnvisited, <1>1, PTL

\* What is in the pool after a step was there before, or was ready.
LEMMA PoolGrowsFromReady ==
  ASSUME IInv, [Next]_vars, NEW n \in InFlight'
  PROVE  n \in InFlight \cup ready
<1>1. ASSUME NEW m \in Nodes, SubmitNode(m)
      PROVE  n \in InFlight \cup ready
  <2>1. queue' = Append(queue, m) /\ running' = running /\ m \in ready
    BY <1>1 DEF SubmitNode, Startable
  <2>2. queue \in Seq(Nodes)
    BY DEF IInv, TypeOK
  <2>3. QED
    BY <2>1, <2>2 DEF InFlight
<1>2. CASE BeginNode
  <2>1. /\ queue # <<>>
        /\ running' = running \cup {Head(queue)}
        /\ queue' = Tail(queue)
    BY <1>2 DEF BeginNode
  <2>2. queue \in Seq(Nodes)
    BY DEF IInv, TypeOK
  <2>3. QED
    BY <2>1, <2>2 DEF InFlight
<1>3. ASSUME NEW m \in Nodes, EndNode(m)
      PROVE  n \in InFlight \cup ready
  BY <1>3 DEF EndNode, InFlight
<1>4. ASSUME UNCHANGED <<queue, running>>
      PROVE  n \in InFlight \cup ready
  BY <1>4 DEF InFlight
<1>5. QED
  BY <1>1, <1>2, <1>3, <1>4
  DEF Next, Coordinator, Worker, Collect, CollectRaises, EndSchedule,
      WaitReturns, DeliverEdge, EndDeliver, JoinWorkers, Stopped, vars,
      workerVars

\* No node is executed twice, nor does its outcome ever change.
THEOREM AtMostOnce == Spec => ExecutedOnce
<1>1. ASSUME IInv, [Next]_vars, NEW n \in Nodes, outcome[n] # "none"
      PROVE  outcome'[n] = outcome[n] /\ n \notin InFlight'
  <2>1. n \notin InFlight /\ n \notin ready
    BY <1>1 DEF IInv, PoolInv, DegreeInv
  <2>2. n \notin InFlight'
    BY <1>1, <2>1, PoolGrowsFromReady
  <2>3. ASSUME NEW m \in Nodes, EndNode(m)
        PROVE  outcome'[n] = outcome[n]
    BY <1>1, <2>1, <2>3 DEF EndNode, InFlight, IInv, TypeOK
  <2>4. ASSUME outcome' = outcome
        PROVE  outcome'[n] = outcome[n]
    BY <2>4
  <2>5. QED
    BY <1>1, <2>2, <2>3, <2>4
    DEF Next, Coordinator, Worker, SubmitNode, Collect, CollectRaises,
        EndSchedule, WaitReturns, DeliverEdge, EndDeliver, JoinWorkers,
        BeginNode, Stopped, vars, workerVars
<1>2. IInv /\ [Next]_vars =>
        [\A n \in Nodes : outcome[n] # "none" =>
           outcome'[n] = outcome[n] /\ n \notin InFlight']_vars
  BY <1>1
<1>3. QED
  BY Invariance, <1>2, PTL DEF Spec, ExecutedOnce

-----------------------------------------------------------------------------
(* The refinement of DagExecution *)

\* The operators of the trace mean the same on both sides.
LEMMA SameTrace ==
  ASSUME NEW r
  PROVE  /\ \A n : Abstract!Targets(r, n) = Targets(r, n)
         /\ Abstract!Reachable(r) = Reachable(r)
         /\ \A m, n : Abstract!Excludes(r, m, n) = Excludes(r, m, n)
<1>1. \A n : Abstract!Targets(r, n) = Targets(r, n)
  BY DEF Abstract!Targets, Targets
<1>2. Abstract!Reachable(r) = Reachable(r)
  BY <1>1 DEF Abstract!Reachable, Reachable
<1>3. \A n : Abstract!AccessOf(r, n) = AccessOf(r, n)
  BY DEF Abstract!AccessOf, AccessOf, Abstract!NoAccess, NoAccess
<1>4. \A a, b : Abstract!Conflict(a, b) = Conflict(a, b)
  BY DEF Abstract!Conflict, Conflict, Abstract!IsStateful, IsStateful,
         Abstract!Writes, Writes, Abstract!Reads, Reads
<1>5. \A m, n : Abstract!Excludes(r, m, n) = Excludes(r, m, n)
  BY <1>3, <1>4 DEF Abstract!Excludes, Excludes
<1>6. QED
  BY <1>1, <1>2, <1>5

\* The nodes that ended with success, those that raised, and what the
\* coordinator has let the caller of run_node know.
Done == { n \in Nodes : outcome[n] = "ok" }
Raised == { n \in Nodes : outcome[n] = "raised" }
OverAs ==
  CASE pc = "returned" -> "ok" [] pc = "raised" -> "error" [] OTHER -> "no"

LEMMA AbstractVars ==
  /\ Abstract!dvars = <<run, InFlight, Done, Raised, OverAs>>
  /\ Abstract!dvars' = <<run, InFlight, Done, Raised, OverAs>>'
BY DEF Abstract!dvars, Done, Raised, OverAs

\* Submitting a node starts it: its predecessors are done, and no node in
\* the pool conflicts with it.
LEMMA SubmitStarts ==
  ASSUME IInv, IInv', NEW n \in Nodes, SubmitNode(n)
  PROVE  Abstract!Start(n)
<1>1. /\ n \in ready /\ n \in reachable /\ n \notin visited
      /\ n \notin InFlight /\ outcome[n] = "none"
  BY DEF SubmitNode, Startable, IInv, TypeOK, DegreeInv, PoolInv
<1>2. OverAs = "no" /\ OverAs' = "no"
  BY DEF SubmitNode, OverAs, loopVars
<1>3. /\ run' = run /\ outcome' = outcome /\ running' = running
      /\ queue' = Append(queue, n) /\ queue \in Seq(Nodes)
      /\ visited' = visited \cup {n} /\ reachable' = reachable
      /\ pending' = pending \cup {n}
  BY DEF SubmitNode, IInv, TypeOK
<1>4. InFlight' = InFlight \cup {n}
  BY <1>3 DEF InFlight
<1>5. ASSUME NEW m \in InFlight
      PROVE  ~Excludes(run, m, n)
  <2>1. m \in pending /\ m # n /\ m \in pending' /\ n \in pending'
    BY <1>1, <1>3, <1>5 DEF IInv, PoolInv
  <2>2. QED
    BY <1>3, <2>1 DEF IInv, PendingExclusive
<1>6. ASSUME NEW m \in Reachable(run), n \in Targets(run, m)
      PROVE  outcome[m] = "ok"
  <2>1. m \in reachable /\ n \in reachable /\ inDegree[n] = 0
    BY <1>1, <1>6 DEF IInv, TypeOK, DegreeInv
  <2>2. QED
    BY <1>6, <2>1, DegreeZero
<1>7. Reachable(run) \subseteq Nodes /\ reachable = Reachable(run)
  BY DEF Reachable, IInv
<1>8. Abstract!Preds(n) \subseteq Done
  BY <1>6, <1>7, SameTrace DEF Abstract!Preds, Done
<1>9. Done' = Done /\ Raised' = Raised
  BY <1>3 DEF Done, Raised
<1>10. n \notin InFlight /\ n \notin Done /\ n \notin Raised
  BY <1>1 DEF Done, Raised
<1>11. Abstract!Executable(n)
  BY <1>1, <1>7, <1>8, <1>10, SameTrace
  DEF Abstract!Executable, Done, Raised
<1>12. QED
  BY <1>2, <1>3, <1>4, <1>5, <1>9, <1>11, SameTrace
  DEF Abstract!Start, Done, Raised, OverAs

\* A worker that ends a node's body ends the node, well or not.
LEMMA EndNodeEnds ==
  ASSUME IInv, NEW n \in Nodes, EndNode(n)
  PROVE  Abstract!Succeed(n) \/ Abstract!Fail(n)
<1>1. /\ n \in running /\ running' = running \ {n} /\ queue' = queue
      /\ run' = run /\ pc' = pc
  BY DEF EndNode, loopVars
<1>2. PICK o \in Outcomes(run, n) : outcome' = [outcome EXCEPT ![n] = o]
  BY DEF EndNode
<1>3. o \in {"ok", "raised"}
  BY <1>2 DEF Outcomes
<1>4. n \in InFlight /\ outcome[n] = "none"
  BY <1>1 DEF InFlight, IInv, PoolInv
<1>5. InFlight' = InFlight \ {n}
  BY <1>1 DEF InFlight, IInv, PoolInv
<1>6. outcome \in [Nodes -> {"none", "ok", "raised"}]
  BY DEF IInv, TypeOK
<1>7. OverAs' = OverAs
  BY <1>1 DEF OverAs
<1>8. CASE o = "ok"
  <2>1. Done' = Done \cup {n} /\ Raised' = Raised
    BY <1>2, <1>4, <1>6, <1>8 DEF Done, Raised
  <2>2. QED
    BY <1>1, <1>4, <1>5, <1>7, <2>1
    DEF Abstract!Succeed, Done, Raised, OverAs
<1>9. CASE o = "raised"
  <2>1. Raised' = Raised \cup {n} /\ Done' = Done
    BY <1>2, <1>4, <1>6, <1>9 DEF Done, Raised
  <2>2. QED
    BY <1>1, <1>4, <1>5, <1>7, <2>1
    DEF Abstract!Fail, Done, Raised, OverAs
<1>10. QED
  BY <1>3, <1>8, <1>9

\* The join of the worker threads completes the run, or aborts it if the
\* coordinator propagates an exception.
LEMMA JoinWorkersIsOver ==
  ASSUME IInv, JoinWorkers
  PROVE  Abstract!Complete \/ Abstract!Abort
<1>1. /\ pc = "shutdown" /\ queue = <<>> /\ running = {}
      /\ pc' = (IF error THEN "raised" ELSE "returned")
      /\ run' = run /\ outcome' = outcome
      /\ queue' = queue /\ running' = running
  BY DEF JoinWorkers, workerVars
<1>2. InFlight = {} /\ InFlight' = {} /\ Done' = Done /\ Raised' = Raised
  BY <1>1 DEF InFlight, Done, Raised
<1>3. OverAs = "no"
  BY <1>1 DEF OverAs
<1>4. CASE error
  <2>1. Raised # {} /\ OverAs' = "error"
    BY <1>1, <1>4 DEF IInv, ControlInv, Raised, OverAs
  <2>2. QED
    BY <1>1, <1>2, <1>3, <2>1 DEF Abstract!Abort, Done, Raised, OverAs
<1>5. CASE ~error
  <2>1. OverAs' = "ok" /\ pending = {} /\ ready = {}
    BY <1>1, <1>5 DEF IInv, ControlInv, OverAs
  <2>2. Raised = {}
    BY <1>2, <1>5, <2>1 DEF IInv, ControlInv, PoolInv, Raised
  <2>3. ASSUME NEW n \in Nodes, Abstract!Executable(n)
        PROVE  FALSE
    <3>1. n \in reachable /\ outcome[n] \notin {"ok", "raised"}
      BY <2>3, SameTrace DEF Abstract!Executable, IInv
    <3>2. n \notin visited
      BY <1>2, <3>1 DEF IInv, PoolInv, TypeOK
    <3>3. PICK m \in reachable \ visited : n \in Targets(run, m)
      BY <1>1, <1>5, <3>1, <3>2, UnvisitedWaits
    <3>4. m \in Abstract!Preds(n)
      BY <3>3, SameTrace DEF Abstract!Preds, IInv
    <3>5. outcome[m] = "ok"
      BY <2>3, <3>4 DEF Abstract!Executable
    <3>6. QED
      BY <3>3, <3>5 DEF IInv, TypeOK, PoolInv
  <2>4. QED
    BY <1>1, <1>2, <1>3, <2>1, <2>2, <2>3
    DEF Abstract!Complete, Done, Raised, OverAs
<1>6. QED
  BY <1>4, <1>5 DEF IInv, TypeOK

\* The replay implements the abstract execution of its DAG: every step of the
\* coordinator and of the workers is a step of DagExecution or changes nothing
\* of it (run_node).
THEOREM RefinesDag == Spec => ImplementsDag
<1>1. Init => Abstract!DInit
  BY DEF Init, Abstract!DInit, InFlight
<1>2. ASSUME IInv, IInv', [Next]_vars
      PROVE  [Abstract!DNext]_Abstract!dvars
  <2>1. ASSUME NEW n \in Nodes, SubmitNode(n)
        PROVE  Abstract!DNext
    BY <1>2, <2>1, SubmitStarts DEF Abstract!DNext
  <2>2. ASSUME NEW n \in Nodes, EndNode(n)
        PROVE  Abstract!DNext
    BY <1>2, <2>2, EndNodeEnds DEF Abstract!DNext
  <2>3. ASSUME JoinWorkers
        PROVE  Abstract!DNext
    BY <1>2, <2>3, JoinWorkersIsOver DEF Abstract!DNext
  <2>4. ASSUME BeginNode
        PROVE  UNCHANGED Abstract!dvars
    <3>1. UNCHANGED <<run, outcome, pc>>
      BY <2>4 DEF BeginNode, loopVars
    <3>2. InFlight' = InFlight
      BY <1>2, <2>4, BeginKeepsInFlight
    <3>3. QED
      BY <3>1, <3>2, AbstractVars DEF Done, Raised, OverAs
  <2>5. ASSUME UNCHANGED <<run, outcome, queue, running, OverAs>>
        PROVE  UNCHANGED Abstract!dvars
    BY <2>5, AbstractVars DEF Done, Raised, InFlight
  <2>6. ASSUME UNCHANGED <<run, outcome, queue, running>>,
               \/ pc' = pc
               \/ {pc, pc'} \cap {"returned", "raised"} = {}
        PROVE  UNCHANGED Abstract!dvars
    BY <2>5, <2>6 DEF OverAs
  <2>7. ASSUME NEW n \in Nodes, Collect(n) \/ CollectRaises(n)
        PROVE  UNCHANGED Abstract!dvars
    BY <2>6, <2>7 DEF Collect, CollectRaises, workerVars
  <2>8. ASSUME EndSchedule \/ WaitReturns \/ DeliverEdge \/ EndDeliver
        PROVE  UNCHANGED Abstract!dvars
    BY <2>6, <2>8
    DEF EndSchedule, WaitReturns, DeliverEdge, EndDeliver, workerVars
  <2>9. ASSUME UNCHANGED vars
        PROVE  UNCHANGED Abstract!dvars
    BY <2>6, <2>9 DEF vars, workerVars, loopVars
  <2>10. QED
    BY <1>2, <2>1, <2>2, <2>3, <2>4, <2>7, <2>8, <2>9
    DEF Next, Coordinator, Worker, Stopped
<1>3. QED
  BY Invariance, <1>1, <1>2, PTL DEF Spec, ImplementsDag, Abstract!DSpec

=============================================================================
