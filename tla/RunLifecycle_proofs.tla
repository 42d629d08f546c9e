------------------------- MODULE RunLifecycle_proofs -------------------------
(***************************************************************************)
(* Theorems about RunLifecycle, for any number of runs, services and       *)
(* faults: what is left of a run when it is over, however it ended, and    *)
(* what a run that returns has done.  The invariant speaks of one run at a *)
(* time; the runs of a pool meet in the artifacts of a second only.        *)
(***************************************************************************)
EXTENDS RunLifecycle, TLAPS

SetUpPlaces == {"idle", "resolve", "swap", "seed", "scale", "connect"}

FinallyPlaces ==
  {"scale down", "analyze", "collect", "restore", "close", "print"}

Places == SetUpPlaces \cup {"replay", "clean"} \cup FinallyPlaces \cup {"over"}

Types ==
  /\ world \in Worlds
  /\ pc \in [Runs -> Places]
  /\ outcome \in [Runs -> {"none", "returned", "raised", "exited"}]
  /\ fault \in [Runs -> SUBSET Faults]
  /\ toclean \in [Runs -> SUBSET Services]
  /\ cleaned \in [Runs -> SUBSET Services]
  /\ runEnd \in [Runs -> {"none", "replay", "cleanup"}]
  /\ stamp \in [Runs -> Seconds]
  /\ events \in [Seconds -> Runs \cup {NoRun}]
  /\ report \in [Seconds -> Runs \cup {NoRun}]
  /\ closed \subseteq Runs

\* From set-up to the end of the replay every snapshot is in toclean, but for
\* those of a seeding in progress; from the cleaner on, one is left by a
\* failed erasure, or was saved by a call that failed.
ObjectInv(r) ==
  /\ pc[r] \in {"idle", "resolve", "swap", "seed"} => toclean[r] = {}
  /\ pc[r] \in SetUpPlaces \cup {"replay"} => cleaned[r] = {}
  /\ \A s \in Services :
       <<r, s>> \in objects =>
         /\ pc[r] \notin {"idle", "resolve", "swap"}
         /\ pc[r] = "seed" => s \in world.seeds
         /\ pc[r] \in {"scale", "connect", "replay"} => s \in toclean[r]
         /\ pc[r] = "clean" /\ s \in toclean[r] \cap cleaned[r] => "erase" \in fault[r]
         /\ pc[r] = "clean" /\ s \notin toclean[r] => "call" \in fault[r]
         /\ pc[r] \in FinallyPlaces =>
              IF s \in toclean[r] THEN "erase" \in fault[r] ELSE "call" \in fault[r]
         /\ pc[r] = "over" =>
              IF s \in toclean[r]
              THEN "setup" \in fault[r] \/ "erase" \in fault[r] \/ "print" \in fault[r]
              ELSE "seed" \in fault[r] \/ "call" \in fault[r]

EventsOf(t) == \E q \in Runs : stamp[q] = t /\ events[t] = q

\* Past save_events the events of a run with an analyzer are there, unless the
\* cleaner's exception has skipped it.
EventInv(r) ==
  /\ pc[r] \in SetUpPlaces => r \notin analyzer
  /\ pc[r] \in {"collect", "restore", "close", "print", "over"} /\ r \in analyzer
       /\ "erase" \notin fault[r] /\ "notice" \notin fault[r]
     => EventsOf(stamp[r])

\* No exception is lost: a run without one on its way out has replayed its
\* trace, and what it has passed of its analysis is complete.
WholeInv(r) ==
  /\ "call" \in fault[r] => r \in raised
  /\ pc[r] \in {"clean"} \cup FinallyPlaces /\ r \notin raised => r \in traceEnd
  /\ pc[r] \in {"collect", "restore", "close", "print"} /\ r \notin raised /\ r \in analyzer
     => runEnd[r] = "replay"
  /\ pc[r] \in {"restore", "close", "print"} /\ r \notin raised /\ r \in analyzer
     => report[stamp[r]] # NoRun
  /\ outcome[r] = "returned" =>
       /\ pc[r] = "over" /\ r \in traceEnd
       /\ r \in analyzer => runEnd[r] = "replay" /\ report[stamp[r]] # NoRun
       /\ \A s \in Services : <<r, s>> \in objects => "erase" \in fault[r]

\* Scaling configurations exist from ScaleUp to ScaleDown.  Only one run is
\* there then, whose log is open, so that set-up cannot fail in a print.
ScaleInv(r) ==
  /\ pc[r] # "idle" => r \in world.runs
  /\ r \in closed => pc[r] \in {"print", "over"}
  /\ r \in scaled =>
       /\ world.scaling
       /\ pc[r] \notin {"idle", "resolve", "swap", "seed", "scale"}
       /\ pc[r] \in FinallyPlaces \cup {"over"} /\ pc[r] # "scale down" =>
            "setup" \in fault[r] \/ "erase" \in fault[r] \/ "scale" \in fault[r]

RunInv(r) == ObjectInv(r) /\ EventInv(r) /\ WholeInv(r) /\ ScaleInv(r)

LInv == Types /\ \A r \in Runs : RunInv(r)

\* A step leaves everything of run q alone.
Same(q) ==
  /\ pc'[q] = pc[q] /\ outcome'[q] = outcome[q] /\ fault'[q] = fault[q]
  /\ toclean'[q] = toclean[q] /\ cleaned'[q] = cleaned[q] /\ runEnd'[q] = runEnd[q]
  /\ \A s \in Services : <<q, s>> \in objects' <=> <<q, s>> \in objects
  /\ q \in raised' <=> q \in raised
  /\ q \in analyzer' <=> q \in analyzer
  /\ q \in traceEnd' <=> q \in traceEnd
  /\ q \in closed' <=> q \in closed
  /\ q \in scaled' <=> q \in scaled

\* A step of run r changes r only, keeps its invariant, and takes no artifact
\* away.
Keeps(r) ==
  /\ Types'
  /\ RunInv(r)'
  /\ \A q \in Runs \ {r} : Same(q)
  /\ UNCHANGED <<world, stamp>>
  /\ \A t \in Seconds : EventsOf(t) => EventsOf(t)'
  /\ \A t \in Seconds : report[t] # NoRun => report'[t] # NoRun

-----------------------------------------------------------------------------

\* The other runs' invariants hold too.
LEMMA Frame ==
  ASSUME LInv, NEW r \in Runs, Keeps(r)
  PROVE  LInv'
<1> SUFFICES ASSUME NEW q \in Runs, q # r PROVE RunInv(q)'
  BY DEF Keeps, LInv
<1> USE DEF Keeps, Same
<1>1. RunInv(q) /\ Same(q) /\ stamp[q] \in Seconds
  BY DEF LInv, Types
<1>2. ObjectInv(q)'
  BY <1>1 DEF RunInv, ObjectInv
<1>3. EventInv(q)'
  BY <1>1 DEF RunInv, EventInv
<1>4. WholeInv(q)'
  BY <1>1 DEF RunInv, WholeInv
<1>5. ScaleInv(q)'
  BY <1>1 DEF RunInv, ScaleInv
<1> QED
  BY <1>2, <1>3, <1>4, <1>5 DEF RunInv

LEMMA SufferFacts ==
  ASSUME LInv, NEW r \in Runs, NEW what \in Faults, Suffer(r, what)
  PROVE  /\ fault' \in [Runs -> SUBSET Faults]
         /\ \A q \in Runs \ {r} : fault'[q] = fault[q]
         /\ fault'[r] = fault[r] \cup {what}
  BY DEF Suffer, LInv, Types

\* Before the try statement.
LEMMA SetUpStep ==
  ASSUME LInv, NEW r \in Runs, SetUp(r)
  PROVE  Keeps(r)
<1> USE DEF LInv, RunInv, driverVars, controlVars, outputVars, cloudVars, analysisVars
<1>1. ASSUME Open(r) PROVE Keeps(r)
  BY <1>1
     DEF Open, Goto, Keeps, Types, ObjectInv, EventInv, WholeInv, ScaleInv, EventsOf,
       Same, Places, SetUpPlaces, FinallyPlaces
<1>2. ASSUME ResolveFails(r) PROVE Keeps(r)
  <2>1. /\ fault' \in [Runs -> SUBSET Faults]
        /\ \A q \in Runs \ {r} : fault'[q] = fault[q]
        /\ fault'[r] = fault[r] \cup {"resolve"}
    BY <1>2, SufferFacts DEF ResolveFails, Leave, Faults
  <2>2. Types'
    <3>1. PICK how \in {"exited", "raised"} : Leave(r, "resolve", how)
      BY <1>2 DEF ResolveFails
    <3> QED
      BY <1>2, <2>1, <3>1 DEF ResolveFails, Leave, Types, Places
  <2>3. ObjectInv(r)'
    BY <1>2, <2>1 DEF ResolveFails, Leave, Types, ObjectInv, SetUpPlaces, FinallyPlaces
  <2>4. EventInv(r)'
    BY <1>2, <2>1 DEF ResolveFails, Leave, Types, EventInv, EventsOf, SetUpPlaces
  <2>5. WholeInv(r)'
    BY <1>2, <2>1 DEF ResolveFails, Leave, Types, WholeInv, FinallyPlaces
  <2>6. \A q \in Runs \ {r} : Same(q)
    BY <1>2, <2>1 DEF ResolveFails, Leave, Types, Same
  <2>7. ScaleInv(r)'
    BY <1>2, <2>1 DEF ResolveFails, Leave, Types, ScaleInv, FinallyPlaces
  <2> QED
    BY <1>2, <2>2, <2>3, <2>4, <2>5, <2>6, <2>7, LifecycleAssumption
       DEF ResolveFails, Leave, Keeps, RunInv, EventsOf, Types
<1>3. ASSUME Swap(r) PROVE Keeps(r)
  BY <1>3
     DEF Swap, Goto, Keeps, Types, ObjectInv, EventInv, WholeInv, ScaleInv, EventsOf,
       Same, Places, SetUpPlaces, FinallyPlaces
<1>4. ASSUME Seed(r) PROVE Keeps(r)
  BY <1>4
     DEF Seed, Unseeded, Keeps, Types, ObjectInv, EventInv, WholeInv, ScaleInv,
       EventsOf, Same, Places, SetUpPlaces, FinallyPlaces
<1>5. ASSUME SeedFails(r) PROVE Keeps(r)
  <2>1. /\ fault' \in [Runs -> SUBSET Faults]
        /\ \A q \in Runs \ {r} : fault'[q] = fault[q]
        /\ fault'[r] = fault[r] \cup {"seed"}
    BY <1>5, SufferFacts DEF SeedFails, Leave, Unseeded, Faults
  <2>2. Types'
    BY <1>5, <2>1
       DEF SeedFails, Leave, Unseeded, Types, Places, SetUpPlaces, FinallyPlaces
  <2>3. ObjectInv(r)'
    BY <1>5, <2>1
       DEF SeedFails, Leave, Unseeded, Types, ObjectInv, SetUpPlaces, FinallyPlaces
  <2>4. EventInv(r)'
    BY <1>5, <2>1 DEF SeedFails, Leave, Unseeded, Types, EventInv, EventsOf, SetUpPlaces
  <2>5. WholeInv(r)'
    BY <1>5, <2>1 DEF SeedFails, Leave, Unseeded, Types, WholeInv, FinallyPlaces
  <2>6. \A q \in Runs \ {r} : Same(q)
    BY <1>5, <2>1 DEF SeedFails, Leave, Unseeded, Types, Same
  <2>7. ScaleInv(r)'
    BY <1>5, <2>1 DEF SeedFails, Leave, Unseeded, Types, ScaleInv, FinallyPlaces
  <2> QED
    BY <1>5, <2>2, <2>3, <2>4, <2>5, <2>6, <2>7, LifecycleAssumption
       DEF SeedFails, Leave, Unseeded, Keeps, RunInv, EventsOf, Types
<1>6. ASSUME Seeded(r) PROVE Keeps(r)
  <2>1. world.seeds \subseteq Services
    BY LifecycleAssumption DEF Types
  <2> QED
    BY <1>6, <2>1
       DEF Seeded, Goto, Unseeded, Keeps, Types, ObjectInv, EventInv, WholeInv,
         ScaleInv, EventsOf, Same, Places, SetUpPlaces, FinallyPlaces
<1>7. ASSUME ScaleUp(r) PROVE Keeps(r)
  BY <1>7
     DEF ScaleUp, Goto, Keeps, Types, ObjectInv, EventInv, WholeInv, ScaleInv,
       EventsOf, Same, Places, SetUpPlaces, FinallyPlaces
<1>8. ASSUME ScaleUpFails(r) PROVE Keeps(r)
  <2>1. /\ fault' \in [Runs -> SUBSET Faults]
        /\ \A q \in Runs \ {r} : fault'[q] = fault[q]
        /\ fault'[r] = fault[r] \cup {"scale"}
    BY <1>8, SufferFacts DEF ScaleUpFails, Swallow, Faults
  <2>2. Types'
    BY <1>8, <2>1 DEF ScaleUpFails, Swallow, Types, Places, SetUpPlaces, FinallyPlaces
  <2>3. ObjectInv(r)'
    BY <1>8, <2>1
       DEF ScaleUpFails, Swallow, Types, ObjectInv, SetUpPlaces, FinallyPlaces
  <2>4. EventInv(r)'
    BY <1>8, <2>1 DEF ScaleUpFails, Swallow, Types, EventInv, EventsOf, SetUpPlaces
  <2>5. WholeInv(r)'
    BY <1>8, <2>1 DEF ScaleUpFails, Swallow, Types, WholeInv, FinallyPlaces
  <2>6. \A q \in Runs \ {r} : Same(q)
    BY <1>8, <2>1 DEF ScaleUpFails, Swallow, Types, Same
  <2>7. ScaleInv(r)'
    BY <1>8, <2>1 DEF ScaleUpFails, Swallow, Types, ScaleInv, FinallyPlaces
  <2> QED
    BY <1>8, <2>2, <2>3, <2>4, <2>5, <2>6, <2>7, LifecycleAssumption
       DEF ScaleUpFails, Swallow, Keeps, RunInv, EventsOf, Types
<1>9. ASSUME Connect(r) PROVE Keeps(r)
  BY <1>9
     DEF Connect, Goto, Keeps, Types, ObjectInv, EventInv, WholeInv, ScaleInv,
       EventsOf, Same, Places, SetUpPlaces, FinallyPlaces
<1>10. ASSUME ConnectWithoutAnalyzer(r) PROVE Keeps(r)
  <2>1. /\ fault' \in [Runs -> SUBSET Faults]
        /\ \A q \in Runs \ {r} : fault'[q] = fault[q]
        /\ fault'[r] = fault[r] \cup {"analysis"}
    BY <1>10, SufferFacts DEF ConnectWithoutAnalyzer, Swallow, Faults
  <2>2. Types'
    BY <1>10, <2>1
       DEF ConnectWithoutAnalyzer, Swallow, Types, Places, SetUpPlaces, FinallyPlaces
  <2>3. ObjectInv(r)'
    BY <1>10, <2>1
       DEF ConnectWithoutAnalyzer, Swallow, Types, ObjectInv, SetUpPlaces, FinallyPlaces
  <2>4. EventInv(r)'
    BY <1>10, <2>1
       DEF ConnectWithoutAnalyzer, Swallow, Types, EventInv, EventsOf, SetUpPlaces
  <2>5. WholeInv(r)'
    BY <1>10, <2>1 DEF ConnectWithoutAnalyzer, Swallow, Types, WholeInv, FinallyPlaces
  <2>6. \A q \in Runs \ {r} : Same(q)
    BY <1>10, <2>1 DEF ConnectWithoutAnalyzer, Swallow, Types, Same
  <2>7. ScaleInv(r)'
    BY <1>10, <2>1 DEF ConnectWithoutAnalyzer, Swallow, Types, ScaleInv, FinallyPlaces
  <2> QED
    BY <1>10, <2>2, <2>3, <2>4, <2>5, <2>6, <2>7, LifecycleAssumption
       DEF ConnectWithoutAnalyzer, Swallow, Keeps, RunInv, EventsOf, Types
<1>11. ASSUME ConnectFails(r) PROVE Keeps(r)
  <2>1. /\ fault' \in [Runs -> SUBSET Faults]
        /\ \A q \in Runs \ {r} : fault'[q] = fault[q]
        /\ \E what \in {"setup", "print"} : fault'[r] = fault[r] \cup {what}
    BY <1>11, SufferFacts DEF ConnectFails, Leave, Faults
  <2>2. Types'
    BY <1>11, <2>1 DEF ConnectFails, Leave, Types, Places, SetUpPlaces, FinallyPlaces
  <2>3. ObjectInv(r)'
    BY <1>11, <2>1 DEF ConnectFails, Leave, Types, ObjectInv, SetUpPlaces, FinallyPlaces
  <2>4. EventInv(r)'
    BY <1>11, <2>1 DEF ConnectFails, Leave, Types, EventInv, EventsOf, SetUpPlaces
  <2>5. WholeInv(r)'
    BY <1>11, <2>1 DEF ConnectFails, Leave, Types, WholeInv, FinallyPlaces
  <2>6. \A q \in Runs \ {r} : Same(q)
    BY <1>11, <2>1 DEF ConnectFails, Leave, Types, Same
  <2>7. ScaleInv(r)'
    <3>1. CASE r \notin scaled
      BY <1>11, <2>1, <3>1 DEF ConnectFails, Leave, Types, ScaleInv
    <3>2. CASE r \in scaled
      <4>1. r \in world.runs /\ \A q \in world.runs : q = r
        <5>1. world.scaling /\ r \in world.runs /\ world \in Worlds
          BY <1>11, <3>2 DEF ConnectFails, Types, ScaleInv
        <5>2. \A w \in Worlds : w.scaling => ~w.pool /\ \A p, q \in w.runs : p = q
          BY LifecycleAssumption
        <5> QED
          BY <5>1, <5>2
      <4>2. closed = {}
        BY <1>11, <4>1 DEF ConnectFails, Types, ScaleInv
      <4>3. Writable
        BY <4>2 DEF Writable
      <4>4. Suffer(r, "setup")
        BY <1>11, <4>3 DEF ConnectFails, Leave
      <4>5. fault'[r] = fault[r] \cup {"setup"}
        BY <4>4, SufferFacts DEF Faults
      <4> QED
        BY <1>11, <4>5 DEF ConnectFails, Leave, Types, ScaleInv
    <3> QED
      BY <3>1, <3>2
  <2> QED
    BY <1>11, <2>2, <2>3, <2>4, <2>5, <2>6, <2>7, LifecycleAssumption
       DEF ConnectFails, Leave, Keeps, RunInv, EventsOf, Types
<1> QED
  BY <1>1, <1>2, <1>3, <1>4, <1>5, <1>6, <1>7, <1>8, <1>9, <1>10, <1>11 DEF SetUp

\* The try statement: a call, a failure, or the end.
LEMMA RunNodeStep ==
  ASSUME LInv, NEW r \in Runs, RunNode(r)
  PROVE  Keeps(r)
<1> USE DEF LInv, RunInv, driverVars, controlVars, outputVars, cloudVars, analysisVars
<1>1. ASSUME NEW s \in Services, CallTool(r, s) PROVE Keeps(r)
  <2>1. /\ fault' \in [Runs -> SUBSET Faults]
        /\ \A q \in Runs \ {r} : fault'[q] = fault[q]
        /\ \/ fault'[r] = fault[r] \cup {"print"}
           \/ fault'[r] = fault[r] /\ UNCHANGED controlVars
    <3>1. CASE Writable
      BY <1>1, <3>1 DEF CallTool, Types
    <3>2. CASE ~Writable
      <4>1. Suffer(r, "print")
        BY <1>1, <3>2 DEF CallTool, Raise
      <4> QED
        BY <4>1, SufferFacts DEF Faults
    <3> QED
      BY <3>1, <3>2
  <2>2. Types'
    BY <1>1, <2>1 DEF CallTool, Raise, Types, Places, SetUpPlaces, FinallyPlaces
  <2>3. ObjectInv(r)'
    BY <1>1, <2>1 DEF CallTool, Raise, Types, ObjectInv, SetUpPlaces, FinallyPlaces
  <2>4. EventInv(r)'
    BY <1>1, <2>1 DEF CallTool, Raise, Types, EventInv, EventsOf, SetUpPlaces
  <2>5. WholeInv(r)'
    BY <1>1, <2>1 DEF CallTool, Raise, Types, WholeInv, FinallyPlaces
  <2>6. \A q \in Runs \ {r} : Same(q)
    BY <1>1, <2>1 DEF CallTool, Raise, Types, Same
  <2>7. ScaleInv(r)'
    BY <1>1, <2>1, ZenonT(40) DEF CallTool, Raise, Types, ScaleInv, FinallyPlaces
  <2> QED
    BY <1>1, <2>2, <2>3, <2>4, <2>5, <2>6, <2>7, LifecycleAssumption
       DEF CallTool, Raise, Keeps, RunInv, EventsOf, Types
<1>2. ASSUME CallFails(r) PROVE Keeps(r)
  <2>1. /\ fault' \in [Runs -> SUBSET Faults]
        /\ \A q \in Runs \ {r} : fault'[q] = fault[q]
        /\ fault'[r] = fault[r] \cup {"call"}
    BY <1>2, SufferFacts DEF CallFails, Raise, Faults
  <2>2. Types'
    BY <1>2, <2>1 DEF CallFails, Raise, Types, Places, SetUpPlaces, FinallyPlaces
  <2>3. ObjectInv(r)'
    BY <1>2, <2>1, ZenonT(40)
       DEF CallFails, Raise, Types, ObjectInv, SetUpPlaces, FinallyPlaces
  <2>4. EventInv(r)'
    BY <1>2, <2>1 DEF CallFails, Raise, Types, EventInv, EventsOf, SetUpPlaces
  <2>5. WholeInv(r)'
    BY <1>2, <2>1 DEF CallFails, Raise, Types, WholeInv, FinallyPlaces
  <2>6. \A q \in Runs \ {r} : Same(q)
    BY <1>2, <2>1 DEF CallFails, Raise, Types, Same
  <2>7. ScaleInv(r)'
    BY <1>2, <2>1 DEF CallFails, Raise, Types, ScaleInv, FinallyPlaces
  <2> QED
    BY <1>2, <2>2, <2>3, <2>4, <2>5, <2>6, <2>7, LifecycleAssumption
       DEF CallFails, Raise, Keeps, RunInv, EventsOf, Types
<1>3. ASSUME PrintFails(r) PROVE Keeps(r)
  <2>1. /\ fault' \in [Runs -> SUBSET Faults]
        /\ \A q \in Runs \ {r} : fault'[q] = fault[q]
        /\ fault'[r] = fault[r] \cup {"print"}
    BY <1>3, SufferFacts DEF PrintFails, Raise, Faults
  <2>2. Types'
    BY <1>3, <2>1 DEF PrintFails, Raise, Types, Places, SetUpPlaces, FinallyPlaces
  <2>3. ObjectInv(r)'
    BY <1>3, <2>1 DEF PrintFails, Raise, Types, ObjectInv, SetUpPlaces, FinallyPlaces
  <2>4. EventInv(r)'
    BY <1>3, <2>1 DEF PrintFails, Raise, Types, EventInv, EventsOf, SetUpPlaces
  <2>5. WholeInv(r)'
    BY <1>3, <2>1 DEF PrintFails, Raise, Types, WholeInv, FinallyPlaces
  <2>6. \A q \in Runs \ {r} : Same(q)
    BY <1>3, <2>1 DEF PrintFails, Raise, Types, Same
  <2>7. ScaleInv(r)'
    BY <1>3, <2>1 DEF PrintFails, Raise, Types, ScaleInv, FinallyPlaces
  <2> QED
    BY <1>3, <2>2, <2>3, <2>4, <2>5, <2>6, <2>7, LifecycleAssumption
       DEF PrintFails, Raise, Keeps, RunInv, EventsOf, Types
<1>4. ASSUME ReplayEnds(r) PROVE Keeps(r)
  BY <1>4
     DEF ReplayEnds, Goto, Keeps, Types, ObjectInv, EventInv, WholeInv, ScaleInv,
       EventsOf, Same, Places, SetUpPlaces, FinallyPlaces
<1> QED
  BY <1>1, <1>2, <1>3, <1>4 DEF RunNode

\* The finally clause.
LEMMA TearDownStep ==
  ASSUME LInv, NEW r \in Runs, TearDown(r)
  PROVE  Keeps(r)
<1> USE DEF LInv, RunInv, driverVars, controlVars, outputVars, cloudVars, analysisVars
<1>1. ASSUME NEW s \in Services, Erase(r, s) PROVE Keeps(r)
  BY <1>1, ZenonT(40)
     DEF Erase, Keeps, Types, ObjectInv, EventInv, WholeInv, ScaleInv, EventsOf, Same,
       Places, SetUpPlaces, FinallyPlaces
<1>2. ASSUME NEW s \in Services, EraseFailsOnS3(r, s) PROVE Keeps(r)
  <2>1. /\ fault' \in [Runs -> SUBSET Faults]
        /\ \A q \in Runs \ {r} : fault'[q] = fault[q]
        /\ fault'[r] = fault[r] \cup {"erase"}
    BY <1>2, SufferFacts DEF EraseFailsOnS3, Raise, Swallow, Faults
  <2>2. Types'
    BY <1>2, <2>1
       DEF EraseFailsOnS3, Raise, Swallow, Types, Places, SetUpPlaces, FinallyPlaces
  <2>3. ObjectInv(r)'
    BY <1>2, <2>1
       DEF EraseFailsOnS3, Raise, Swallow, Types, ObjectInv, SetUpPlaces, FinallyPlaces
  <2>4. EventInv(r)'
    BY <1>2, <2>1
       DEF EraseFailsOnS3, Raise, Swallow, Types, EventInv, EventsOf, SetUpPlaces
  <2>5. WholeInv(r)'
    BY <1>2, <2>1, ZenonT(40)
       DEF EraseFailsOnS3, Raise, Swallow, Types, WholeInv, FinallyPlaces
  <2>6. \A q \in Runs \ {r} : Same(q)
    BY <1>2, <2>1 DEF EraseFailsOnS3, Raise, Swallow, Types, Same
  <2>7. ScaleInv(r)'
    BY <1>2, <2>1 DEF EraseFailsOnS3, Raise, Swallow, Types, ScaleInv, FinallyPlaces
  <2> QED
    BY <1>2, <2>2, <2>3, <2>4, <2>5, <2>6, <2>7, LifecycleAssumption
       DEF EraseFailsOnS3, Raise, Swallow, Keeps, RunInv, EventsOf, Types
<1>3. ASSUME CleanerRaises(r) PROVE Keeps(r)
  <2>1. /\ fault' \in [Runs -> SUBSET Faults]
        /\ \A q \in Runs \ {r} : fault'[q] = fault[q]
        /\ fault'[r] = fault[r] \cup {"erase"}
    BY <1>3, SufferFacts DEF CleanerRaises, Raise, Faults
  <2>2. Types'
    BY <1>3, <2>1 DEF CleanerRaises, Raise, Types, Places, SetUpPlaces, FinallyPlaces
  <2>3. ObjectInv(r)'
    BY <1>3, <2>1 DEF CleanerRaises, Raise, Types, ObjectInv, SetUpPlaces, FinallyPlaces
  <2>4. EventInv(r)'
    BY <1>3, <2>1 DEF CleanerRaises, Raise, Types, EventInv, EventsOf, SetUpPlaces
  <2>5. WholeInv(r)'
    BY <1>3, <2>1 DEF CleanerRaises, Raise, Types, WholeInv, FinallyPlaces
  <2>6. \A q \in Runs \ {r} : Same(q)
    BY <1>3, <2>1 DEF CleanerRaises, Raise, Types, Same
  <2>7. ScaleInv(r)'
    BY <1>3, <2>1 DEF CleanerRaises, Raise, Types, ScaleInv, FinallyPlaces
  <2> QED
    BY <1>3, <2>2, <2>3, <2>4, <2>5, <2>6, <2>7, LifecycleAssumption
       DEF CleanerRaises, Raise, Keeps, RunInv, EventsOf, Types
<1>n. ASSUME NoticeFails(r) PROVE Keeps(r)
  <2>1. /\ fault' \in [Runs -> SUBSET Faults]
        /\ \A q \in Runs \ {r} : fault'[q] = fault[q]
        /\ fault'[r] = fault[r] \cup {"notice"}
    BY <1>n, SufferFacts DEF NoticeFails, Raise, Faults
  <2>2. Types'
    BY <1>n, <2>1 DEF NoticeFails, Raise, Types, Places, SetUpPlaces, FinallyPlaces
  <2>3. ObjectInv(r)'
    BY <1>n, <2>1 DEF NoticeFails, Raise, Types, ObjectInv, SetUpPlaces, FinallyPlaces
  <2>4. EventInv(r)'
    BY <1>n, <2>1 DEF NoticeFails, Raise, Types, EventInv, EventsOf, SetUpPlaces
  <2>5. WholeInv(r)'
    BY <1>n, <2>1 DEF NoticeFails, Raise, Types, WholeInv, FinallyPlaces
  <2>6. \A q \in Runs \ {r} : Same(q)
    BY <1>n, <2>1 DEF NoticeFails, Raise, Types, Same
  <2>7. ScaleInv(r)'
    BY <1>n, <2>1, LifecycleAssumption
       DEF NoticeFails, Raise, Types, ScaleInv, FinallyPlaces
  <2> QED
    BY <1>n, <2>2, <2>3, <2>4, <2>5, <2>6, <2>7, LifecycleAssumption
       DEF NoticeFails, Raise, Keeps, RunInv, EventsOf, Types
<1>4. ASSUME Cleaned(r) PROVE Keeps(r)
  BY <1>4, ZenonT(40)
     DEF Cleaned, Goto, Keeps, Types, ObjectInv, EventInv, WholeInv, ScaleInv,
       EventsOf, Same, Places, SetUpPlaces, FinallyPlaces
<1>5. ASSUME ScaleDown(r) PROVE Keeps(r)
  BY <1>5
     DEF ScaleDown, Goto, Keeps, Types, ObjectInv, EventInv, WholeInv, ScaleInv,
       EventsOf, Same, Places, SetUpPlaces, FinallyPlaces
<1>6. ASSUME ScaleDownFails(r) PROVE Keeps(r)
  <2>1. /\ fault' \in [Runs -> SUBSET Faults]
        /\ \A q \in Runs \ {r} : fault'[q] = fault[q]
        /\ fault'[r] = fault[r] \cup {"scale"}
    BY <1>6, SufferFacts DEF ScaleDownFails, Swallow, Faults
  <2>2. Types'
    BY <1>6, <2>1 DEF ScaleDownFails, Swallow, Types, Places, SetUpPlaces, FinallyPlaces
  <2>3. ObjectInv(r)'
    BY <1>6, <2>1
       DEF ScaleDownFails, Swallow, Types, ObjectInv, SetUpPlaces, FinallyPlaces
  <2>4. EventInv(r)'
    BY <1>6, <2>1 DEF ScaleDownFails, Swallow, Types, EventInv, EventsOf, SetUpPlaces
  <2>5. WholeInv(r)'
    BY <1>6, <2>1 DEF ScaleDownFails, Swallow, Types, WholeInv, FinallyPlaces
  <2>6. \A q \in Runs \ {r} : Same(q)
    BY <1>6, <2>1 DEF ScaleDownFails, Swallow, Types, Same
  <2>7. ScaleInv(r)'
    BY <1>6, <2>1 DEF ScaleDownFails, Swallow, Types, ScaleInv, FinallyPlaces
  <2> QED
    BY <1>6, <2>2, <2>3, <2>4, <2>5, <2>6, <2>7, LifecycleAssumption
       DEF ScaleDownFails, Swallow, Keeps, RunInv, EventsOf, Types
<1>7. ASSUME SaveEvents(r) PROVE Keeps(r)
  BY <1>7, ZenonT(40)
     DEF SaveEvents, Goto, Artifact, EndOfRun, Keeps, Types, ObjectInv, EventInv,
       WholeInv, ScaleInv, EventsOf, Same, Places, SetUpPlaces, FinallyPlaces
<1>8. ASSUME SkipAnalysis(r) PROVE Keeps(r)
  BY <1>8
     DEF SkipAnalysis, Goto, Keeps, Types, ObjectInv, EventInv, WholeInv, ScaleInv,
       EventsOf, Same, Places, SetUpPlaces, FinallyPlaces
<1>9. ASSUME Analyze(r) PROVE Keeps(r)
  <2>1. /\ fault' \in [Runs -> SUBSET Faults]
        /\ \A q \in Runs \ {r} : fault'[q] = fault[q]
        /\ \/ fault'[r] = fault[r] \cup {"print"}
           \/ fault'[r] = fault[r] /\ UNCHANGED raised
    <3>1. CASE Writable
      BY <1>9, <3>1 DEF Analyze, Goto, Types
    <3>2. CASE ~Writable
      <4>1. Suffer(r, "print")
        BY <1>9, <3>2 DEF Analyze, Raise
      <4> QED
        BY <4>1, SufferFacts DEF Faults
    <3> QED
      BY <3>1, <3>2
  <2>2. Types'
    BY <1>9, <2>1
       DEF Analyze, Goto, Raise, Artifact, Types, Places, SetUpPlaces, FinallyPlaces
  <2>3. ObjectInv(r)'
    BY <1>9, <2>1
       DEF Analyze, Goto, Raise, Artifact, Types, ObjectInv, SetUpPlaces, FinallyPlaces
  <2>4. EventInv(r)'
    BY <1>9, <2>1
       DEF Analyze, Goto, Raise, Artifact, Types, EventInv, EventsOf, SetUpPlaces
  <2>5. WholeInv(r)'
    BY <1>9, <2>1, LifecycleAssumption, ZenonT(40)
       DEF Analyze, Goto, Raise, Artifact, Types, WholeInv, FinallyPlaces
  <2>6. \A q \in Runs \ {r} : Same(q)
    BY <1>9, <2>1 DEF Analyze, Goto, Raise, Artifact, Types, Same
  <2>7. ScaleInv(r)'
    BY <1>9, <2>1 DEF Analyze, Goto, Raise, Artifact, Types, ScaleInv, FinallyPlaces
  <2> QED
    BY <1>9, <2>2, <2>3, <2>4, <2>5, <2>6, <2>7, LifecycleAssumption
       DEF Analyze, Goto, Raise, Artifact, Keeps, RunInv, EventsOf, Types
<1>10. ASSUME AnalysisFails(r) PROVE Keeps(r)
  <2>1. /\ fault' \in [Runs -> SUBSET Faults]
        /\ \A q \in Runs \ {r} : fault'[q] = fault[q]
        /\ fault'[r] = fault[r] \cup {"analysis"}
    BY <1>10, SufferFacts DEF AnalysisFails, Raise, Faults
  <2>2. Types'
    BY <1>10, <2>1 DEF AnalysisFails, Raise, Types, Places, SetUpPlaces, FinallyPlaces
  <2>3. ObjectInv(r)'
    BY <1>10, <2>1
       DEF AnalysisFails, Raise, Types, ObjectInv, SetUpPlaces, FinallyPlaces
  <2>4. EventInv(r)'
    BY <1>10, <2>1 DEF AnalysisFails, Raise, Types, EventInv, EventsOf, SetUpPlaces
  <2>5. WholeInv(r)'
    BY <1>10, <2>1 DEF AnalysisFails, Raise, Types, WholeInv, FinallyPlaces
  <2>6. \A q \in Runs \ {r} : Same(q)
    BY <1>10, <2>1 DEF AnalysisFails, Raise, Types, Same
  <2>7. ScaleInv(r)'
    BY <1>10, <2>1 DEF AnalysisFails, Raise, Types, ScaleInv, FinallyPlaces
  <2> QED
    BY <1>10, <2>2, <2>3, <2>4, <2>5, <2>6, <2>7, LifecycleAssumption
       DEF AnalysisFails, Raise, Keeps, RunInv, EventsOf, Types
<1>11. ASSUME Restore(r) PROVE Keeps(r)
  BY <1>11
     DEF Restore, Goto, Keeps, Types, ObjectInv, EventInv, WholeInv, ScaleInv,
       EventsOf, Same, Places, SetUpPlaces, FinallyPlaces
<1>12. ASSUME Close(r) PROVE Keeps(r)
  BY <1>12
     DEF Close, Goto, Keeps, Types, ObjectInv, EventInv, WholeInv, ScaleInv, EventsOf,
       Same, Places, SetUpPlaces, FinallyPlaces
<1>13. ASSUME Return(r) PROVE Keeps(r)
  BY <1>13, ZenonT(40)
     DEF Return, Keeps, Types, ObjectInv, EventInv, WholeInv, ScaleInv, EventsOf,
       Same, Places, SetUpPlaces, FinallyPlaces
<1>14. ASSUME LastPrintFails(r) PROVE Keeps(r)
  <2>1. /\ fault' \in [Runs -> SUBSET Faults]
        /\ \A q \in Runs \ {r} : fault'[q] = fault[q]
        /\ fault'[r] = fault[r] \cup {"print"}
    BY <1>14, SufferFacts DEF LastPrintFails, Leave, Faults
  <2>2. Types'
    BY <1>14, <2>1 DEF LastPrintFails, Leave, Types, Places, SetUpPlaces, FinallyPlaces
  <2>3. ObjectInv(r)'
    BY <1>14, <2>1
       DEF LastPrintFails, Leave, Types, ObjectInv, SetUpPlaces, FinallyPlaces
  <2>4. EventInv(r)'
    BY <1>14, <2>1 DEF LastPrintFails, Leave, Types, EventInv, EventsOf, SetUpPlaces
  <2>5. WholeInv(r)'
    BY <1>14, <2>1 DEF LastPrintFails, Leave, Types, WholeInv, FinallyPlaces
  <2>6. \A q \in Runs \ {r} : Same(q)
    BY <1>14, <2>1 DEF LastPrintFails, Leave, Types, Same
  <2>7. ScaleInv(r)'
    BY <1>14, <2>1 DEF LastPrintFails, Leave, Types, ScaleInv, FinallyPlaces
  <2> QED
    BY <1>14, <2>2, <2>3, <2>4, <2>5, <2>6, <2>7, LifecycleAssumption
       DEF LastPrintFails, Leave, Keeps, RunInv, EventsOf, Types
<1> QED
  BY <1>1, <1>2, <1>3, <1>n, <1>4, <1>5, <1>6, <1>7, <1>8, <1>9, <1>10, <1>11, <1>12, <1>13,
     <1>14 DEF TearDown

\* The command line submits a run.
LEMMA SubmitStep ==
  ASSUME LInv, NEW r \in Runs, Submit(r)
  PROVE  Keeps(r)
  BY DEF Submit, Goto, outputVars, cloudVars, analysisVars, Keeps, LInv, RunInv, Types,
     ObjectInv, EventInv, WholeInv, ScaleInv, EventsOf, Same, Places, SetUpPlaces,
     FinallyPlaces

LEMMA NextStep == LInv /\ [Next]_vars => LInv'
<1> SUFFICES ASSUME LInv, [Next]_vars PROVE LInv'
  OBVIOUS
<1>1. CASE UNCHANGED <<world, controlVars, outputVars, cloudVars, analysisVars>>
  <2> USE <1>1 DEF controlVars, outputVars, cloudVars, analysisVars
  <2>1. Types'
    BY DEF LInv, Types
  <2>2. ASSUME NEW r \in Runs PROVE RunInv(r)'
    <3>1. RunInv(r)
      BY DEF LInv
    <3>2. ObjectInv(r)' /\ EventInv(r)'
      BY <3>1 DEF RunInv, ObjectInv, EventInv, EventsOf
    <3>3. WholeInv(r)' /\ ScaleInv(r)'
      BY <3>1 DEF RunInv, WholeInv, ScaleInv
    <3> QED
      BY <3>2, <3>3 DEF RunInv
  <2> QED
    BY <2>1, <2>2 DEF LInv
<1>2. CASE \E r \in Runs : SetUp(r) \/ RunNode(r) \/ TearDown(r) \/ Submit(r)
  BY <1>2, SetUpStep, RunNodeStep, TearDownStep, SubmitStep, Frame
<1>3. CASE \E r \in Runs : CollectReturned(r) \/ CollectFailed(r)
  BY <1>1, <1>3 DEF CollectReturned, CollectFailed
<1>4. CASE AnnounceSubmitted \/ Submitted \/ Finish
  BY <1>1, <1>4 DEF AnnounceSubmitted, Submitted, Finish
<1> QED
  BY <1>1, <1>2, <1>3, <1>4 DEF Next, Stopped, vars

LEMMA InitHolds == Init => LInv
  BY DEF Init, LInv, Types, RunInv, ObjectInv, EventInv, WholeInv, ScaleInv, EventsOf,
     Places, SetUpPlaces, FinallyPlaces

\* What is true of each run at each place of run_trace, for any number of
\* concurrent runs.
THEOREM RunInvariant == Spec => []LInv
  BY InitHolds, NextStep, PTL DEF Spec

\* A snapshot that outlives its run was left by a failed call or seeding, by a
\* failure in set-up, or by the cleaner: a run cleans up whatever it has
\* recorded in toclean, on every way out of run_trace's try statement.
THEOREM LeftoversExplained == Spec => []LeftObjects
<1>1. LInv => LeftObjects
  BY DEF LInv, RunInv, ObjectInv, LeftObjects, Ended
<1> QED
  BY <1>1, RunInvariant, PTL

\* Provisioned instances of an ali_agentrun replay outlive it only if set-up
\* failed, or the cleaner raised first, or their deletion failed.
THEOREM ScalingReleased == Spec => []ScalingHeld
<1>1. LInv => ScalingHeld
  BY DEF LInv, RunInv, ScaleInv, ScalingHeld, Ended
<1> QED
  BY <1>1, RunInvariant, PTL

\* save_events comes before anything of the analysis that can fail.
THEOREM EventsSaved == Spec => []EventsSurvive
<1>1. LInv => EventsSurvive
  BY DEF LInv, RunInv, EventInv, EventsOf, EventsSurvive, Ended
<1> QED
  BY <1>1, RunInvariant, PTL

\* run_trace does not return unless the trace was replayed, the end recorded,
\* the report written and all but failed erasures done: its finally clause
\* swallows no exception.
THEOREM ReturnMeansWhole == Spec => []SuccessIsWhole
<1>1. LInv => SuccessIsWhole
  BY DEF LInv, RunInv, WholeInv, SuccessIsWhole
<1> QED
  BY <1>1, RunInvariant, PTL

-----------------------------------------------------------------------------
(* The types of what LInv does not speak of.                               *)

\* A run is over with its outcome, and only those are collected.
OverInv ==
  /\ \A r \in Runs : outcome[r] = "none" <=> pc[r] # "over"
  /\ \A r \in results \cup failed : r \in world.runs /\ pc[r] = "over"

OutputTypes ==
  /\ stdout \in Seq(Runs)
  /\ original \in [Runs -> Seq(Runs)]

CloudTypes ==
  /\ objects \subseteq Runs \X Services
  /\ scaled \subseteq Runs
  /\ \A r \in Runs : cleaned[r] \subseteq toclean[r]

RestTypes ==
  /\ driver \in {"submit", "announce", "collect", "over", "crashed"}
  /\ raised \subseteq Runs /\ traceEnd \subseteq Runs /\ analyzer \subseteq Runs
  /\ OverInv
  /\ OutputTypes
  /\ CloudTypes

\* A step of a run moves it on without ending it, or ends it with an outcome;
\* no run leaves the end.
Moves(r) ==
  /\ pc[r] # "over"
  /\ \/ outcome' = outcome /\ pc' = pc
     \/ outcome' = outcome /\ \E p \in Places \ {"over"} : pc' = [pc EXCEPT ![r] = p]
     \/ /\ pc' = [pc EXCEPT ![r] = "over"]
        /\ \E o \in {"returned", "raised", "exited"} : outcome' = [outcome EXCEPT ![r] = o]

LEMMA MovesOver ==
  ASSUME LInv, OverInv, NEW r \in Runs, Moves(r),
         UNCHANGED <<world, results, failed>>
  PROVE  OverInv'
<1>1. outcome \in [Runs -> {"none", "returned", "raised", "exited"}] /\ pc \in [Runs -> Places]
  BY DEF LInv, Types
<1>2. \A q \in results \cup failed : q # r
  BY DEF OverInv, Moves
<1>3. world.runs \subseteq Runs
  BY LifecycleAssumption DEF LInv, Types
<1> QED
  BY <1>1, <1>2, <1>3 DEF OverInv, Moves

LEMMA SetUpMoves ==
  ASSUME NEW r \in Runs, SetUp(r)
  PROVE  Moves(r)
<1> USE DEF controlVars, Goto, Raise, Swallow, Leave, Moves, Places, SetUpPlaces,
       FinallyPlaces
<1>1. CASE Open(r) \/ ResolveFails(r) \/ Swap(r)
  BY <1>1 DEF Open, ResolveFails, Swap
<1>2. CASE Seed(r) \/ SeedFails(r) \/ Seeded(r)
  BY <1>2 DEF Seed, SeedFails, Seeded
<1>3. CASE ScaleUp(r) \/ ScaleUpFails(r)
  BY <1>3 DEF ScaleUp, ScaleUpFails
<1>4. CASE Connect(r) \/ ConnectWithoutAnalyzer(r) \/ ConnectFails(r)
  BY <1>4 DEF Connect, ConnectWithoutAnalyzer, ConnectFails
<1> QED
  BY <1>1, <1>2, <1>3, <1>4 DEF SetUp

LEMMA RunNodeMoves ==
  ASSUME NEW r \in Runs, RunNode(r)
  PROVE  Moves(r)
<1> USE DEF controlVars, Goto, Raise, Moves, Places, FinallyPlaces
<1>1. CASE \E s \in Services : CallTool(r, s)
  BY <1>1 DEF CallTool
<1>2. CASE CallFails(r) \/ PrintFails(r) \/ ReplayEnds(r)
  BY <1>2 DEF CallFails, PrintFails, ReplayEnds
<1> QED
  BY <1>1, <1>2 DEF RunNode

LEMMA TearDownMoves ==
  ASSUME NEW r \in Runs, TearDown(r)
  PROVE  Moves(r)
<1> USE DEF controlVars, Goto, Raise, Swallow, Leave, Moves, Places, FinallyPlaces
<1>1. CASE \E s \in Services : Erase(r, s)
  BY <1>1 DEF Erase
<1>2. CASE \E s \in Services : EraseFailsOnS3(r, s)
  BY <1>2 DEF EraseFailsOnS3
<1>3. CASE \/ CleanerRaises(r) \/ NoticeFails(r) \/ Cleaned(r)
           \/ ScaleDown(r) \/ ScaleDownFails(r)
  BY <1>3 DEF CleanerRaises, NoticeFails, Cleaned, ScaleDown, ScaleDownFails
<1>4. CASE SaveEvents(r) \/ SkipAnalysis(r) \/ Analyze(r) \/ AnalysisFails(r)
  BY <1>4 DEF SaveEvents, SkipAnalysis, Analyze, AnalysisFails
<1>5. CASE Restore(r) \/ Close(r) \/ Return(r) \/ LastPrintFails(r)
  BY <1>5 DEF Restore, Close, Return, LastPrintFails
<1> QED
  BY <1>1, <1>2, <1>3, <1>4, <1>5 DEF TearDown

\* The steps of set-up.
LEMMA SetUpRest ==
  ASSUME LInv, RestTypes, NEW r \in Runs, SetUp(r)
  PROVE  RestTypes'
<1> USE DEF driverVars, outputVars, cloudVars, analysisVars, Goto, Raise, Swallow, Leave,
       controlVars
<1>1. OverInv'
  <2>1. UNCHANGED <<world, results, failed>>
    BY DEF SetUp, Open, ResolveFails, Swap, Seed, SeedFails, Seeded, ScaleUp,
       ScaleUpFails, Connect, ConnectWithoutAnalyzer, ConnectFails
  <2> QED
    BY <2>1, SetUpMoves, MovesOver DEF RestTypes
<1>2. driver' = driver
  BY DEF SetUp, Open, ResolveFails, Swap, Seed, SeedFails, Seeded, ScaleUp,
     ScaleUpFails, Connect, ConnectWithoutAnalyzer, ConnectFails
<1>3. raised' \subseteq Runs /\ traceEnd' \subseteq Runs /\ analyzer' \subseteq Runs
  BY DEF RestTypes, SetUp, Open, ResolveFails, Swap, Seed, SeedFails, Seeded, ScaleUp,
     ScaleUpFails, Connect, ConnectWithoutAnalyzer, ConnectFails
<1>4. OutputTypes'
  <2>1. CASE Open(r) \/ Swap(r)
    <3>1. stdout \in Seq(Runs) /\ original \in [Runs -> Seq(Runs)] /\ original[r] \in Seq(Runs)
      BY DEF RestTypes, OutputTypes
    <3>2. Append(original[r], r) \in Seq(Runs)
      BY <3>1
    <3> QED
      BY <2>1, <3>1, <3>2 DEF Open, Swap, OutputTypes
  <2>2. CASE ~(Open(r) \/ Swap(r))
    BY <2>2 DEF RestTypes, OutputTypes, SetUp, ResolveFails, Seed, SeedFails, Seeded,
       ScaleUp, ScaleUpFails, Connect, ConnectWithoutAnalyzer, ConnectFails
  <2> QED
    BY <2>1, <2>2
<1>5. CloudTypes'
  <2> USE DEF RestTypes, CloudTypes
  <2>1. CASE Seed(r)
    <3>1. world.seeds \subseteq Services
      BY LifecycleAssumption DEF LInv, Types
    <3> QED
      BY <2>1, <3>1 DEF Seed, Unseeded
  <2>2. CASE Seeded(r)
    <3>1. cleaned[r] = {} /\ toclean \in [Runs -> SUBSET Services]
      BY <2>2 DEF Seeded, LInv, RunInv, ObjectInv, SetUpPlaces, Types
    <3> QED
      BY <2>2, <3>1 DEF Seeded
  <2>3. CASE ~(Seed(r) \/ Seeded(r))
    BY <2>3 DEF SetUp, Open, ResolveFails, Swap, SeedFails, ScaleUp, ScaleUpFails,
       Connect, ConnectWithoutAnalyzer, ConnectFails
  <2> QED
    BY <2>1, <2>2, <2>3
<1> QED
  BY <1>1, <1>2, <1>3, <1>4, <1>5 DEF RestTypes

\* The steps of the replay.
LEMMA RunNodeRest ==
  ASSUME LInv, RestTypes, NEW r \in Runs, RunNode(r)
  PROVE  RestTypes'
<1> USE DEF driverVars, outputVars, cloudVars, analysisVars, Goto, Raise, controlVars
<1>1. OverInv'
  <2>1. UNCHANGED <<world, results, failed>>
    BY DEF RunNode, CallTool, CallFails, PrintFails, ReplayEnds
  <2> QED
    BY <2>1, RunNodeMoves, MovesOver DEF RestTypes
<1>2. /\ driver' = driver
      /\ raised' \subseteq Runs /\ traceEnd' \subseteq Runs /\ analyzer' \subseteq Runs
  BY DEF RestTypes, RunNode, CallTool, CallFails, PrintFails, ReplayEnds
<1>3. OutputTypes'
  BY DEF RestTypes, OutputTypes, RunNode, CallTool, CallFails, PrintFails, ReplayEnds
<1>4. CloudTypes'
  <2> USE DEF RestTypes, CloudTypes
  <2>1. CASE \E s \in Services : CallTool(r, s)
    <3>1. toclean \in [Runs -> SUBSET Services]
      BY DEF LInv, Types
    <3> QED
      BY <2>1, <3>1 DEF CallTool
  <2>2. CASE CallFails(r)
    <3>1. world.stateful \subseteq Services
      BY LifecycleAssumption DEF LInv, Types
    <3> QED
      BY <2>2, <3>1 DEF CallFails
  <2>3. CASE PrintFails(r) \/ ReplayEnds(r)
    BY <2>3 DEF PrintFails, ReplayEnds
  <2> QED
    BY <2>1, <2>2, <2>3 DEF RunNode
<1> QED
  BY <1>1, <1>2, <1>3, <1>4 DEF RestTypes

\* The steps of the finally clause.
LEMMA TearDownRest ==
  ASSUME LInv, RestTypes, NEW r \in Runs, TearDown(r)
  PROVE  RestTypes'
<1> USE DEF driverVars, outputVars, cloudVars, analysisVars, Goto, Raise, Swallow, Leave,
       controlVars
<1>1. CASE \E s \in Services : Erase(r, s) \/ EraseFailsOnS3(r, s)
  <2>1. PICK s \in Services : Erase(r, s) \/ EraseFailsOnS3(r, s)
    BY <1>1
  <2>2. /\ UNCHANGED <<world, driver, results, failed, traceEnd, analyzer, stdout,
                       original, scaled, toclean>>
        /\ raised' \subseteq raised \cup {r}
        /\ objects' \subseteq objects /\ s \in toclean[r]
        /\ cleaned' = [cleaned EXCEPT ![r] = @ \cup {s}]
    BY <2>1 DEF Erase, EraseFailsOnS3
  <2>3. OverInv'
    <3>1. TearDown(r)
      OBVIOUS
    <3> QED
      BY <2>2, <3>1, TearDownMoves, MovesOver DEF RestTypes
  <2>4. CloudTypes'
    <3>1. cleaned \in [Runs -> SUBSET Services]
      BY DEF LInv, Types
    <3> QED
      BY <2>2, <3>1 DEF RestTypes, CloudTypes
  <2> QED
    BY <2>2, <2>3, <2>4 DEF RestTypes, OutputTypes
<1>2. CASE \/ CleanerRaises(r) \/ NoticeFails(r) \/ Cleaned(r)
           \/ ScaleDown(r) \/ ScaleDownFails(r)
           \/ SaveEvents(r) \/ SkipAnalysis(r) \/ Analyze(r) \/ AnalysisFails(r)
           \/ Close(r) \/ Return(r) \/ LastPrintFails(r)
  <2>1. /\ UNCHANGED <<world, driver, results, failed, traceEnd, analyzer, stdout,
                       original, objects, toclean, cleaned>>
        /\ raised' \subseteq raised \cup {r}
        /\ scaled' \subseteq scaled
    BY <1>2 DEF CleanerRaises, NoticeFails, Cleaned, ScaleDown, ScaleDownFails, SaveEvents,
       SkipAnalysis, Analyze, AnalysisFails, Close, Return, LastPrintFails
  <2>2. OverInv'
    <3>1. TearDown(r)
      OBVIOUS
    <3> QED
      BY <2>1, <3>1, TearDownMoves, MovesOver DEF RestTypes
  <2> QED
    BY <2>1, <2>2 DEF RestTypes, OutputTypes, CloudTypes
<1>3. CASE Restore(r)
  <2>1. UNCHANGED <<world, driver, results, failed, traceEnd, analyzer, raised,
                    original, objects, toclean, cleaned, scaled>>
    BY <1>3 DEF Restore
  <2>2. OverInv'
    <3>1. TearDown(r)
      OBVIOUS
    <3> QED
      BY <2>1, <3>1, TearDownMoves, MovesOver DEF RestTypes
  <2>3. OutputTypes'
    BY <1>3 DEF Restore, RestTypes, OutputTypes
  <2> QED
    BY <2>1, <2>2, <2>3 DEF RestTypes, CloudTypes
<1> QED
  BY <1>1, <1>2, <1>3 DEF TearDown

\* The steps of the command line.
LEMMA DriverRest ==
  ASSUME LInv, RestTypes,
         \/ \E r \in Runs : Submit(r) \/ CollectReturned(r) \/ CollectFailed(r)
         \/ AnnounceSubmitted \/ Submitted \/ Finish
  PROVE  RestTypes'
<1>1. UNCHANGED <<world, outputVars, cloudVars, analysisVars, outcome, raised>>
  BY DEF Submit, AnnounceSubmitted, CollectReturned, CollectFailed, Submitted, Finish, Goto,
     controlVars
<1>2. OutputTypes' /\ CloudTypes'
  BY <1>1 DEF RestTypes, OutputTypes, CloudTypes, outputVars, cloudVars
<1>3. driver' \in {"submit", "announce", "collect", "over", "crashed"}
  BY DEF RestTypes, Submit, AnnounceSubmitted, CollectReturned, CollectFailed, Submitted,
     Finish, Announce
<1>4. OverInv'
  <2>1. CASE \E r \in Runs : Submit(r)
    <3>1. PICK r \in Runs : Submit(r)
      BY <2>1
    <3>2. /\ pc[r] = "idle" /\ pc' = [pc EXCEPT ![r] = "resolve"] /\ pc \in [Runs -> Places]
          /\ results' = results /\ failed' = failed /\ world' = world /\ outcome' = outcome
      BY <3>1 DEF Submit, Goto, LInv, Types
    <3>3. world.runs \subseteq Runs
      BY LifecycleAssumption DEF LInv, Types
    <3> QED
      BY <3>2, <3>3 DEF RestTypes, OverInv
  <2>2. CASE \E r \in Runs : CollectReturned(r) \/ CollectFailed(r)
    <3>1. PICK r \in Runs : CollectReturned(r) \/ CollectFailed(r)
      BY <2>2
    <3>2. /\ pc[r] = "over" /\ pc' = pc /\ world' = world /\ outcome' = outcome
          /\ results' \subseteq results \cup {r} /\ failed' \subseteq failed \cup {r}
      BY <3>1 DEF CollectReturned, CollectFailed, Collectable, controlVars
    <3>3. r \in world.runs
      BY <3>2 DEF LInv, RunInv, ScaleInv
    <3> QED
      BY <3>2, <3>3 DEF RestTypes, OverInv
  <2>3. CASE AnnounceSubmitted \/ Submitted \/ Finish
    BY <2>3 DEF AnnounceSubmitted, Submitted, Finish, controlVars, RestTypes, OverInv
  <2> QED
    BY <2>1, <2>2, <2>3
<1> QED
  BY <1>1, <1>2, <1>3, <1>4 DEF RestTypes, analysisVars

LEMMA RestInit == Init => RestTypes
  BY DEF Init, RestTypes, OverInv, OutputTypes, CloudTypes

LEMMA RestKept == LInv /\ RestTypes /\ [Next]_vars => RestTypes'
<1> SUFFICES ASSUME LInv, RestTypes, [Next]_vars PROVE RestTypes'
  OBVIOUS
<1>1. CASE UNCHANGED vars
  BY <1>1 DEF vars, driverVars, controlVars, outputVars, cloudVars, analysisVars,
     RestTypes, OverInv, OutputTypes, CloudTypes
<1> QED
  BY <1>1, SetUpRest, RunNodeRest, TearDownRest, DriverRest DEF Next, Stopped

\* Every variable of the command line and its runs keeps its type; a run has an
\* outcome from its end on, only ended runs of the command line are reported,
\* and the cleaner has nothing to do that toclean does not name.
THEOREM LifecycleTypeCorrect == Spec => []TypeOK
<1>1. LInv /\ RestTypes => TypeOK
  <2> SUFFICES ASSUME LInv, RestTypes PROVE TypeOK
    OBVIOUS
  <2>1. /\ world \in Worlds
        /\ pc \in [Runs -> {"idle", "resolve", "swap", "seed", "scale", "connect",
                            "replay", "clean", "scale down", "analyze", "collect",
                            "restore", "close", "print", "over"}]
    BY DEF LInv, Types, Places, SetUpPlaces, FinallyPlaces
  <2>2. \A r \in Runs : cleaned[r] \subseteq toclean[r] /\ toclean[r] \subseteq Services
    BY DEF LInv, Types, RestTypes, CloudTypes
  <2>3. results \cup failed \subseteq { r \in world.runs : pc[r] = "over" }
    BY DEF RestTypes, OverInv
  <2> QED
    BY <2>1, <2>2, <2>3 DEF LInv, Types, RestTypes, OverInv, OutputTypes, CloudTypes, TypeOK
<1> QED
  BY <1>1, RestInit, RestKept, RunInvariant, PTL DEF Spec

=============================================================================
