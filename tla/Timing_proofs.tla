---------------------------- MODULE Timing_proofs ----------------------------
(***************************************************************************)
(* Theorems about Timing and Report, for any number of nodes, places and   *)
(* providers: the order of a call's events, the application time that a    *)
(* server reports, the phases that the timeline draws of it, and the sums  *)
(* of the report.                                                          *)
(***************************************************************************)
EXTENDS Timing, FiniteSetTheorems, TLAPS

Remembered == [enter : Nat, ran : Nat]

Entries == [call : Nodes, payload : Breakdowns]

Types ==
  /\ world \in Worlds
  /\ now \in 1 .. MaxTime
  /\ t \in [Nodes -> [Events -> 0 .. now]]
  /\ failed \subseteq Nodes
  /\ offset \in [Places -> 0 .. 1]
  /\ wall \in [Nodes -> Nat]
  /\ recent \in [Places -> Seq(Remembered)]
  /\ log \in Seq(Entries)
  /\ analysed \in BOOLEAN

\* The order of a node's events; the server's go on after the client gave up.
Ordered(n) ==
  /\ Did(n, "begin") => n \in world.calls \cup world.llms
  /\ Did(n, "sent")  => /\ n \in world.calls /\ Did(n, "begin")
                        /\ t[n]["begin"] <= t[n]["sent"]
  /\ Did(n, "enter") => Did(n, "sent") /\ t[n]["sent"] <= t[n]["enter"]
  /\ Did(n, "run")   => Did(n, "enter") /\ t[n]["enter"] <= t[n]["run"]
  /\ Did(n, "ran")   => Did(n, "run") /\ t[n]["run"] <= t[n]["ran"]
  /\ Did(n, "leave") => Did(n, "enter") /\ t[n]["enter"] <= t[n]["leave"]
  /\ Did(n, "leave") /\ ~world.streams => Did(n, "ran") /\ t[n]["ran"] <= t[n]["leave"]
  /\ Did(n, "back")  => /\ Did(n, "sent") /\ t[n]["sent"] <= t[n]["back"]
                        /\ t[n]["over"] = t[n]["back"]
  /\ Did(n, "back") /\ n \notin failed =>
       /\ Did(n, "leave") /\ t[n]["leave"] <= t[n]["back"]
       /\ Did(n, "ran") /\ t[n]["ran"] <= t[n]["back"]
  /\ n \in failed => Did(n, "back")
  /\ Did(n, "over") => IF n \in world.calls THEN Did(n, "back")
                       ELSE Did(n, "begin") /\ t[n]["begin"] <= t[n]["over"]

OrderInv == \A n \in Nodes : Ordered(n)

\* request_wall_ns is the wall clock's time of the request's entry.
WallInv ==
  \A n \in Nodes :
    /\ Did(n, "enter") <=> wall[n] # 0
    /\ Did(n, "enter") => wall[n] >= t[n]["enter"]
    /\ Did(n, "enter") /\ offset[Place(n)] = 0 => wall[n] = t[n]["enter"]

Noted(e, time) == IF e \in world.logged THEN time ELSE 0

\* A request's breakdown, of a tool that has ended, has the times of its
\* events up to the response.
EntryTrue(i) ==
  LET n == log[i].call
      b == log[i].payload
  IN  /\ Did(n, "ran") /\ Did(n, "leave") /\ t[n]["ran"] <= t[n]["leave"]
      /\ b.wall = Noted("wall", wall[n]) /\ b.start = Noted("start", wall[n])
      /\ b.run = Noted("run", wall[n] + (t[n]["run"] - t[n]["enter"]))
      /\ b.ran = Noted("ran", wall[n] + (t[n]["ran"] - t[n]["enter"]))
      /\ b.end = Noted("end", wall[n] + (t[n]["leave"] - t[n]["enter"]))
      /\ b.tool = t[n]["ran"] - t[n]["run"]
      /\ b.pre  = t[n]["run"] - t[n]["enter"]
      /\ b.post = t[n]["leave"] - t[n]["ran"]

LogInv ==
  /\ \A i, j \in DOMAIN log : log[i].call = log[j].call => i = j
  /\ \A i \in DOMAIN log : EntryTrue(i)

\* What an MCP server remembers is of requests that it has logged.
RecentInv ==
  \A p \in Places :
    /\ Len(recent[p]) <= Limit
    /\ \A k \in DOMAIN recent[p] :
         /\ world.mcp
         /\ \E j \in DOMAIN log :
              /\ Place(log[j].call) = p
              /\ recent[p][k] = [enter |-> t[log[j].call]["enter"],
                                 ran   |-> t[log[j].call]["ran"]]

\* A place that runs one tool at a time has run one before the other.
InTurn(m, n) ==
  \/ Did(m, "ran") /\ t[m]["ran"] <= t[n]["run"]
  \/ Did(n, "ran") /\ t[n]["ran"] <= t[m]["run"]

TurnInv ==
  \A m, n \in Nodes : m # n /\ Place(m) = Place(n) =>
    /\ world.mcp /\ ~world.awaits /\ Did(m, "run") /\ Did(n, "run") => InTurn(m, n)
    /\ ~world.mcp /\ Did(m, "enter") /\ Did(n, "enter") =>
         \/ Did(m, "leave") /\ t[m]["leave"] <= t[n]["enter"]
         \/ Did(n, "leave") /\ t[n]["leave"] <= t[m]["enter"]

\* What AppTimesTrue says of an entry of the log.
AppTrue(i) ==
  LET n == log[i].call
      b == log[i].payload
      true == Between(n, "enter", "leave")
      inOrder == \A j \in 1 .. i - 1 :
        Place(log[j].call) = Place(n) => t[log[j].call]["ran"] <= t[n]["run"]
  IN  IF Alone(i) THEN b.app = true
      ELSE /\ b.app <= Max({Least, true + Threshold - 1})
           /\ inOrder => b.app >= Between(n, "run", "ran")

TInv ==
  /\ Types
  /\ OrderInv
  /\ WallInv
  /\ LogInv
  /\ RecentInv
  /\ TurnInv
  /\ \A i \in DOMAIN log : AppTrue(i)

-----------------------------------------------------------------------------
(* Events.                                                                 *)

\* What TimingAssumption says of the world chosen.
LEMMA WorldFacts ==
  ASSUME Types
  PROVE  /\ world.calls \subseteq Nodes /\ world.llms \subseteq Nodes \ world.calls
         /\ world.opens \subseteq world.calls
         /\ \A n \in Nodes : Place(n) \in Places
         /\ world.mcp \in BOOLEAN /\ world.streams \in BOOLEAN /\ world.awaits \in BOOLEAN
         /\ world.early \in BOOLEAN /\ world.late \in BOOLEAN /\ world.found \in BOOLEAN
         /\ world.streams => world.mcp
         /\ world.provider \in Providers
  BY TimingAssumption DEF Types, Place

LEMMA Times ==
  ASSUME Types
  PROVE  /\ now \in Nat /\ now >= 1
         /\ \A n \in Nodes, e \in Events : t[n][e] \in Nat /\ t[n][e] <= now
         /\ \A n \in Nodes : wall[n] \in Nat
<1>1. now \in Nat /\ now >= 1
  BY TimingAssumption DEF Types
<1>2. \A n \in Nodes, e \in Events : t[n][e] \in 0 .. now
  BY DEF Types
<1> QED
  BY <1>1, <1>2 DEF Types

\* An event happens once, and changes no other.
LEMMA HappenFacts ==
  ASSUME Types, NEW n \in Nodes, NEW es \in SUBSET Events, Happen(n, es)
  PROVE  /\ world' = world /\ now' = now /\ analysed' = analysed
         /\ t' \in [Nodes -> [Events -> 0 .. now']]
         /\ \A e \in es : t[n][e] = 0
         /\ \A m \in Nodes, e \in Events :
              t'[m][e] = IF m = n /\ e \in es THEN now ELSE t[m][e]
         /\ \A m \in Nodes, e \in Events : t[m][e] # 0 => t'[m][e] = t[m][e]
<1>1. /\ world' = world /\ now' = now /\ analysed' = analysed
      /\ \A e \in es : t[n][e] = 0
      /\ t' = [t EXCEPT ![n] = [e \in Events |-> IF e \in es THEN now ELSE t[n][e]]]
  BY DEF Happen, Did
<1>2. t \in [Nodes -> [Events -> 0 .. now]] /\ now \in 0 .. now
  BY Times DEF Types
<1>3. [e \in Events |-> IF e \in es THEN now ELSE t[n][e]] \in [Events -> 0 .. now]
  BY <1>2
<1>4. t' \in [Nodes -> [Events -> 0 .. now']]
  BY <1>1, <1>2, <1>3
<1>5. \A m \in Nodes, e \in Events :
        t'[m][e] = IF m = n /\ e \in es THEN now ELSE t[m][e]
  BY <1>1, <1>2
<1> QED
  BY <1>1, <1>4, <1>5

LEMMA OrderedSame ==
  ASSUME NEW n \in Nodes, Ordered(n), world' = world,
         \A e \in Events : t'[n][e] = t[n][e], n \in failed' <=> n \in failed
  PROVE  Ordered(n)'
<1>1. \A e \in Events : Did(n, e)' <=> Did(n, e)
  BY DEF Did
<1> QED
  BY <1>1 DEF Ordered, Events

LEMMA OrderKept ==
  ASSUME TInv, NEW n \in Nodes, Step(n)
  PROVE  OrderInv' /\ failed' \subseteq Nodes
<1> USE DEF TInv
<1>1. PICK es \in SUBSET Events : Happen(n, es)
  BY DEF Step, Begin, Send, Back, Fail, Wake, Enter, RunTool, ToolEnds, Leave, Events
<1>2. /\ world' = world /\ failed \subseteq Nodes
      /\ \A m \in Nodes, e \in Events :
           t'[m][e] = IF m = n /\ e \in es THEN now ELSE t[m][e]
  BY <1>1, HappenFacts DEF Types
<1>3. failed' = failed \/ failed' = failed \cup {n}
  BY DEF Step, Begin, Send, Back, Fail, Wake, Enter, RunTool, ToolEnds, Leave
<1>4. \A m \in Nodes : m # n => Ordered(m)'
  BY <1>2, <1>3, OrderedSame DEF OrderInv
<1>5. /\ Ordered(n) /\ now \in Nat /\ now >= 1
      /\ \A e \in Events : t[n][e] \in Nat /\ t[n][e] <= now
      /\ world.calls \subseteq Nodes /\ world.llms \subseteq Nodes \ world.calls
      /\ world.opens \subseteq world.calls
  BY Times, WorldFacts DEF OrderInv
<1> HIDE DEF TInv
<1>6. Ordered(n)'
  <2>1. ASSUME NEW ds \in SUBSET Events, Happen(n, ds)
        PROVE  /\ \A e \in Events : t'[n][e] = IF e \in ds THEN now ELSE t[n][e]
               /\ \A e \in ds : t[n][e] = 0
    BY <2>1, HappenFacts DEF TInv
  <2>2. CASE Begin(n)
    <3>1. CASE n \in world.calls \ world.opens
      <4>1. /\ t[n]["begin"] = 0 /\ t[n]["sent"] = 0 /\ failed' = failed
            /\ t'[n]["begin"] = now /\ t'[n]["sent"] = now
            /\ \A e \in Events : e \notin {"begin", "sent"} => t'[n][e] = t[n][e]
        BY <2>1, <2>2, <3>1 DEF Begin, Did, Events
      <4> QED
        BY <1>2, <1>5, <3>1, <4>1 DEF Ordered, Did, Events
    <3>2. CASE n \notin world.calls \ world.opens
      <4>1. /\ t[n]["begin"] = 0 /\ n \in world.calls \cup world.llms
            /\ t'[n]["begin"] = now /\ failed' = failed
            /\ \A e \in Events : e # "begin" => t'[n][e] = t[n][e]
        BY <2>1, <2>2, <3>2 DEF Begin, Did, Events
      <4> QED
        BY <1>2, <1>5, <3>2, <4>1 DEF Ordered, Did, Events
    <3> QED
      BY <3>1, <3>2
  <2>3. CASE Send(n)
    <3>1. /\ n \in world.calls /\ t[n]["begin"] # 0 /\ t[n]["sent"] = 0
          /\ t'[n]["sent"] = now /\ failed' = failed
          /\ \A e \in Events : e # "sent" => t'[n][e] = t[n][e]
      BY <2>1, <2>3 DEF Send, Did, Events
    <3> QED
      BY <1>2, <1>5, <3>1 DEF Ordered, Did, Events
  <2>4. CASE Back(n)
    <3>1. /\ t[n]["leave"] # 0 /\ t[n]["ran"] # 0
          /\ t[n]["back"] = 0 /\ t[n]["over"] = 0
          /\ t'[n]["back"] = now /\ t'[n]["over"] = now /\ failed' = failed
          /\ \A e \in Events : e \notin {"back", "over"} => t'[n][e] = t[n][e]
      BY <2>1, <2>4 DEF Back, Did, Events
    <3> QED
      BY <1>2, <1>5, <3>1 DEF Ordered, Did, Events
  <2>5. CASE Fail(n)
    <3>1. /\ t[n]["sent"] # 0
          /\ t[n]["back"] = 0 /\ t[n]["over"] = 0
          /\ t'[n]["back"] = now /\ t'[n]["over"] = now /\ failed' = failed \cup {n}
          /\ \A e \in Events : e \notin {"back", "over"} => t'[n][e] = t[n][e]
      BY <2>1, <2>5 DEF Fail, Did, Events
    <3> QED
      BY <1>2, <1>5, <3>1 DEF Ordered, Did, Events
  <2>6. CASE Wake(n)
    <3>1. /\ n \in world.llms /\ t[n]["begin"] # 0
          /\ t[n]["over"] = 0
          /\ t'[n]["over"] = now /\ failed' = failed
          /\ \A e \in Events : e # "over" => t'[n][e] = t[n][e]
      BY <2>1, <2>6 DEF Wake, Did, Events
    <3> QED
      BY <1>2, <1>5, <3>1 DEF Ordered, Did, Events
  <2>7. CASE Enter(n)
    <3>1. /\ t[n]["sent"] # 0 /\ t[n]["enter"] = 0
          /\ t'[n]["enter"] = now /\ failed' = failed
          /\ \A e \in Events : e # "enter" => t'[n][e] = t[n][e]
      BY <2>1, <2>7 DEF Enter, Did, Events
    <3> QED
      BY <1>2, <1>5, <3>1 DEF Ordered, Did, Events
  <2>8. CASE RunTool(n)
    <3>1. /\ t[n]["enter"] # 0
          /\ t[n]["run"] = 0
          /\ t'[n]["run"] = now /\ failed' = failed
          /\ \A e \in Events : e # "run" => t'[n][e] = t[n][e]
      BY <2>1, <2>8 DEF RunTool, Did, Events
    <3> QED
      BY <1>2, <1>5, <3>1 DEF Ordered, Did, Events
  <2>9. CASE ToolEnds(n)
    <3>1. /\ t[n]["run"] # 0
          /\ t[n]["ran"] = 0
          /\ t'[n]["ran"] = now /\ failed' = failed
          /\ \A e \in Events : e # "ran" => t'[n][e] = t[n][e]
      BY <2>1, <2>9 DEF ToolEnds, Did, Events
    <3> QED
      BY <1>2, <1>5, <3>1 DEF Ordered, Did, Events
  <2>10. CASE Leave(n)
    <3>1. /\ IF world.streams THEN t[n]["enter"] # 0 ELSE t[n]["ran"] # 0
          /\ t[n]["leave"] = 0
          /\ t'[n]["leave"] = now /\ failed' = failed
          /\ \A e \in Events : e # "leave" => t'[n][e] = t[n][e]
      BY <2>1, <2>10 DEF Leave, Did, Events
    <3> QED
      BY <1>2, <1>5, <3>1 DEF Ordered, Did, Events
  <2> QED
    BY <2>2, <2>3, <2>4, <2>5, <2>6, <2>7, <2>8, <2>9, <2>10 DEF Step
<1> QED
  BY <1>2, <1>3, <1>4, <1>6 DEF OrderInv

\* What a step leaves as it was.
Grows ==
  /\ world' = world
  /\ \A n \in Nodes, e \in Events : t[n][e] # 0 => t'[n][e] = t[n][e]
  /\ \A n \in Nodes : Did(n, "enter") => wall'[n] = wall[n]

LEMMA StepGrows ==
  ASSUME TInv, NEW n \in Nodes, Step(n)
  PROVE  /\ Grows /\ now' = now /\ offset' = offset /\ analysed' = analysed
         /\ t' \in [Nodes -> [Events -> 0 .. now']]
<1> USE DEF TInv
<1>1. PICK es \in SUBSET Events : Happen(n, es)
  BY DEF Step, Begin, Send, Back, Fail, Wake, Enter, RunTool, ToolEnds, Leave, Events
<1>2. /\ world' = world /\ now' = now /\ analysed' = analysed
      /\ t' \in [Nodes -> [Events -> 0 .. now']]
      /\ \A m \in Nodes, e \in Events : t[m][e] # 0 => t'[m][e] = t[m][e]
  BY <1>1, HappenFacts
<1>3. offset' = offset
  BY DEF Step, Begin, Send, Back, Fail, Wake, Enter, RunTool, ToolEnds, Leave
<1>4. wall' = wall \/ (wall' = [wall EXCEPT ![n] = now + offset[Place(n)]] /\ ~Did(n, "enter"))
  BY DEF Step, Begin, Send, Back, Fail, Wake, Enter, RunTool, ToolEnds, Leave, Happen
<1>5. \A m \in Nodes : Did(m, "enter") => wall'[m] = wall[m]
  BY <1>4 DEF Types
<1> QED
  BY <1>2, <1>3, <1>5 DEF Grows

\* An entry's request has happened.
LEMMA EntryFacts ==
  ASSUME TInv, NEW i \in DOMAIN log
  PROVE  LET n == log[i].call IN
         /\ n \in Nodes /\ log[i].payload \in Breakdowns /\ n \in world.calls
         /\ \A e \in {"begin", "sent", "enter", "run", "ran", "leave"} : t[n][e] # 0
         /\ t[n]["sent"] <= t[n]["enter"] /\ t[n]["enter"] <= t[n]["run"]
         /\ t[n]["run"] <= t[n]["ran"] /\ t[n]["ran"] <= t[n]["leave"]
<1> DEFINE n == log[i].call
<1>1. \A S : \A s \in Seq(S) : \A k \in DOMAIN s : s[k] \in S
  OBVIOUS
<1>2. log[i] \in Entries
  BY <1>1 DEF TInv, Types
<1>3. n \in Nodes /\ log[i].payload \in Breakdowns
  BY <1>2 DEF Entries
<1>4. Did(n, "ran") /\ Did(n, "leave") /\ t[n]["ran"] <= t[n]["leave"]
  BY DEF TInv, LogInv, EntryTrue
<1>5. Ordered(n)
  BY <1>3 DEF TInv, OrderInv
<1> HIDE DEF n
<1>6. /\ n \in world.calls
      /\ \A e \in {"begin", "sent", "enter", "run", "ran", "leave"} : t[n][e] # 0
      /\ t[n]["sent"] <= t[n]["enter"] /\ t[n]["enter"] <= t[n]["run"]
      /\ t[n]["run"] <= t[n]["ran"]
  BY <1>4, <1>5 DEF Ordered, Did
<1> QED
  BY <1>3, <1>4, <1>6 DEF n

LEMMA EntryKept ==
  ASSUME TInv, Grows, NEW i \in DOMAIN log, log'[i] = log[i]
  PROVE  EntryTrue(i)'
<1> DEFINE n == log[i].call
<1>1. /\ n \in Nodes
      /\ \A e \in {"begin", "sent", "enter", "run", "ran", "leave"} : t[n][e] # 0
  BY EntryFacts
<1>2. \A e \in {"enter", "run", "ran", "leave"} : t'[n][e] = t[n][e] /\ t[n][e] # 0
  BY <1>1 DEF Grows, Events
<1>3. wall'[n] = wall[n] /\ world' = world
  BY <1>1 DEF Grows, Did
<1>4. EntryTrue(i)
  BY DEF TInv, LogInv
<1>5. log'[i].call = n /\ log'[i].payload = log[i].payload
  OBVIOUS
<1> QED
  BY <1>2, <1>3, <1>4, <1>5 DEF EntryTrue, Noted, Did

LEMMA AppTrueKept ==
  ASSUME TInv, Grows, NEW i \in DOMAIN log, \A j \in 1 .. i : log'[j] = log[j]
  PROVE  AppTrue(i)'
<1>1. i \in Nat /\ (\A j \in 1 .. i : j \in DOMAIN log) /\ i \in 1 .. i
      /\ (\A j \in 1 .. i - 1 : j \in 1 .. i)
  BY DEF TInv, Types
<1>2. \A j \in 1 .. i :
        \A e \in {"enter", "run", "ran", "leave"} : t'[log[j].call][e] = t[log[j].call][e]
  <2> SUFFICES ASSUME NEW j \in 1 .. i, NEW e \in {"enter", "run", "ran", "leave"}
               PROVE  t'[log[j].call][e] = t[log[j].call][e]
    OBVIOUS
  <2>1. log[j].call \in Nodes /\ t[log[j].call][e] # 0 /\ e \in Events
    BY <1>1, EntryFacts DEF Events
  <2> QED
    BY <2>1 DEF Grows
<1>3. \A j \in 1 .. i : Place(log[j].call)' = Place(log[j].call)
  BY DEF Grows, Place
<1>4. world' = world
  BY DEF Grows
<1>5. Alone(i)' <=> Alone(i)
  BY <1>1, <1>2, <1>3, <1>4 DEF Alone
<1>6. (\A j \in 1 .. i - 1 : Place(log[j].call) = Place(log[i].call)
                               => t[log[j].call]["ran"] <= t[log[i].call]["run"])'
      <=> (\A j \in 1 .. i - 1 : Place(log[j].call) = Place(log[i].call)
                                   => t[log[j].call]["ran"] <= t[log[i].call]["run"])
  BY <1>1, <1>2, <1>3
<1>7. log'[i] = log[i] /\ AppTrue(i)
  BY <1>1 DEF TInv
<1>8. /\ Between(log[i].call, "enter", "leave")' = Between(log[i].call, "enter", "leave")
      /\ Between(log[i].call, "run", "ran")' = Between(log[i].call, "run", "ran")
  BY <1>1, <1>2, <1>7 DEF Between
<1> QED
  BY <1>5, <1>6, <1>7, <1>8 DEF AppTrue

\* A step that logs nothing leaves the log and what is remembered of it.
LEMMA LogKept ==
  ASSUME TInv, Grows, log' = log, recent' = recent
  PROVE  LogInv' /\ RecentInv' /\ (\A i \in DOMAIN log : AppTrue(i))'
<1>1. LogInv'
  BY EntryKept DEF TInv, LogInv
<1>2. RecentInv'
  <2>1. \A j \in DOMAIN log :
          /\ Place(log[j].call)' = Place(log[j].call)
          /\ t'[log[j].call]["enter"] = t[log[j].call]["enter"]
          /\ t'[log[j].call]["ran"] = t[log[j].call]["ran"]
    BY EntryFacts DEF Grows, Place, Events
  <2>2. ASSUME NEW p \in Places, NEW k \in DOMAIN recent[p]
        PROVE  \E j \in DOMAIN log :
                 /\ Place(log[j].call)' = p
                 /\ recent[p][k] = [enter |-> t'[log[j].call]["enter"],
                                    ran   |-> t'[log[j].call]["ran"]]
    <3>1. PICK j \in DOMAIN log :
            /\ Place(log[j].call) = p
            /\ recent[p][k] = [enter |-> t[log[j].call]["enter"],
                               ran   |-> t[log[j].call]["ran"]]
      BY DEF TInv, RecentInv
    <3> QED
      BY <2>1, <3>1
  <2>3. \A p \in Places : /\ Len(recent[p]) <= Limit
                          /\ \A k \in DOMAIN recent[p] : world'.mcp
    BY DEF TInv, RecentInv, Grows
  <2> QED
    BY <2>2, <2>3 DEF RecentInv
<1>3. (\A i \in DOMAIN log : AppTrue(i))'
  BY AppTrueKept
<1> QED
  BY <1>1, <1>2, <1>3

\* A place's tools and requests stay in turn if only one that may begin does.
LEMMA TurnKept ==
  ASSUME TInv, NEW n \in Nodes, Step(n)
  PROVE  TurnInv'
<1> USE DEF TInv
<1>1. Grows /\ world' = world
  BY StepGrows DEF Grows
<1>2. PICK es \in SUBSET Events : Happen(n, es)
  BY DEF Step, Begin, Send, Back, Fail, Wake, Enter, RunTool, ToolEnds, Leave, Events
<1>3. /\ \A m \in Nodes, e \in Events :
           t'[m][e] = IF m = n /\ e \in es THEN now ELSE t[m][e]
      /\ \A e \in es : t[n][e] = 0
  BY <1>2, HappenFacts
<1>4. \A m \in Nodes, e \in Events : t[m][e] \in Nat /\ t[m][e] <= now
  BY Times
<1>5. \A m \in Nodes : Place(m)' = Place(m)
  BY <1>1 DEF Place
<1>6. \A m \in Nodes : Ordered(m)
  BY DEF OrderInv
<1> HIDE DEF TInv
<1>7. ASSUME NEW k \in Nodes, NEW m \in Nodes, k # m, Place(k) = Place(m),
             world.mcp, ~world.awaits, Did(k, "run")', Did(m, "run")'
      PROVE  InTurn(k, m)'
  <2>1. \A i \in Nodes : i # n /\ Place(i) = Place(n) /\ Did(i, "run") /\ ~Did(n, "run")
                           /\ Did(n, "run")' =>
          Did(i, "ran")' /\ t'[i]["ran"] <= t'[n]["run"]
    <3> SUFFICES ASSUME NEW i \in Nodes, i # n, Place(i) = Place(n), Did(i, "run"),
                        ~Did(n, "run"), Did(n, "run")'
                 PROVE  Did(i, "ran")' /\ t'[i]["ran"] <= t'[n]["run"]
      OBVIOUS
    <3>1. "run" \in es /\ t'[n]["run"] = now
      BY <1>3 DEF Did, Events
    <3>2. RunTool(n)
      <4>1. t'[n]["run"] # t[n]["run"]
        BY <3>1 DEF Did
      <4>2. \A ds \in SUBSET Events : Happen(n, ds) => "run" \in ds
        BY <4>1, HappenFacts DEF Events, TInv
      <4> QED
        BY <4>2 DEF Step, Begin, Send, Back, Fail, Wake, Enter, RunTool, ToolEnds, Leave,
                    Events
    <3>3. i \in At(Place(n)) /\ Quiet(Place(n))
      BY <1>6, <1>7, <3>2 DEF RunTool, At, Ordered
    <3>4. Did(i, "ran")
      BY <1>7, <3>3 DEF Quiet, Runs
    <3>5. t'[i]["ran"] = t[i]["ran"] /\ t[i]["ran"] <= now
      BY <1>3, <1>4 DEF Events
    <3> QED
      BY <3>1, <3>4, <3>5 DEF Did
  <2>2. \A i \in Nodes : i # n => (Did(i, "run")' <=> Did(i, "run"))
    BY <1>3 DEF Did, Events
  <2>3. CASE Did(k, "run") /\ Did(m, "run")
    <3>1. InTurn(k, m)
      BY <1>7, <2>3 DEF TInv, TurnInv
    <3>2. \A i \in Nodes : /\ Did(i, "ran") => Did(i, "ran")' /\ t'[i]["ran"] = t[i]["ran"]
                           /\ Did(i, "run") => t'[i]["run"] = t[i]["run"]
      BY <1>1 DEF Grows, Did, Events
    <3> QED
      BY <2>3, <3>1, <3>2 DEF InTurn
  <2>4. CASE ~Did(k, "run") \/ ~Did(m, "run")
    <3>1. (k = n /\ Did(m, "run")) \/ (m = n /\ Did(k, "run"))
      BY <1>7, <2>2, <2>4
    <3> QED
      BY <1>7, <2>1, <2>4, <3>1 DEF InTurn
  <2> QED
    BY <2>3, <2>4
<1>8. ASSUME NEW k \in Nodes, NEW m \in Nodes, k # m, Place(k) = Place(m),
             ~world.mcp, Did(k, "enter")', Did(m, "enter")'
      PROVE  \/ Did(k, "leave")' /\ t'[k]["leave"] <= t'[m]["enter"]
             \/ Did(m, "leave")' /\ t'[m]["leave"] <= t'[k]["enter"]
  <2>1. \A i \in Nodes : i # n /\ Place(i) = Place(n) /\ Did(i, "enter") /\ ~Did(n, "enter")
                           /\ Did(n, "enter")' =>
          Did(i, "leave")' /\ t'[i]["leave"] <= t'[n]["enter"]
    <3> SUFFICES ASSUME NEW i \in Nodes, i # n, Place(i) = Place(n), Did(i, "enter"),
                        ~Did(n, "enter"), Did(n, "enter")'
                 PROVE  Did(i, "leave")' /\ t'[i]["leave"] <= t'[n]["enter"]
      OBVIOUS
    <3>1. "enter" \in es /\ t'[n]["enter"] = now
      BY <1>3 DEF Did, Events
    <3>2. Enter(n)
      <4>1. t'[n]["enter"] # t[n]["enter"]
        BY <3>1 DEF Did
      <4>2. \A ds \in SUBSET Events : Happen(n, ds) => "enter" \in ds
        BY <4>1, HappenFacts DEF Events, TInv
      <4> QED
        BY <4>2 DEF Step, Begin, Send, Back, Fail, Wake, Enter, RunTool, ToolEnds, Leave,
                    Events
    <3>3. i \in At(Place(n)) /\ Quiet(Place(n))
      BY <1>6, <3>2 DEF Enter, At, Ordered
    <3>4. Did(i, "leave")
      BY <1>8, <3>3 DEF Quiet
    <3>5. t'[i]["leave"] = t[i]["leave"] /\ t[i]["leave"] <= now
      BY <1>3, <1>4 DEF Events
    <3> QED
      BY <3>1, <3>4, <3>5 DEF Did
  <2>2. \A i \in Nodes : i # n => (Did(i, "enter")' <=> Did(i, "enter"))
    BY <1>3 DEF Did, Events
  <2>3. CASE Did(k, "enter") /\ Did(m, "enter")
    <3>1. \/ Did(k, "leave") /\ t[k]["leave"] <= t[m]["enter"]
          \/ Did(m, "leave") /\ t[m]["leave"] <= t[k]["enter"]
      BY <1>8, <2>3 DEF TInv, TurnInv
    <3>2. \A i \in Nodes :
            /\ Did(i, "leave") => Did(i, "leave")' /\ t'[i]["leave"] = t[i]["leave"]
            /\ Did(i, "enter") => t'[i]["enter"] = t[i]["enter"]
      BY <1>1 DEF Grows, Did, Events
    <3> QED
      BY <2>3, <3>1, <3>2
  <2>4. CASE ~Did(k, "enter") \/ ~Did(m, "enter")
    <3>1. (k = n /\ Did(m, "enter")) \/ (m = n /\ Did(k, "enter"))
      BY <1>8, <2>2, <2>4
    <3> QED
      BY <1>8, <2>1, <2>4, <3>1
  <2> QED
    BY <2>3, <2>4
<1> QED
  BY <1>1, <1>5, <1>7, <1>8 DEF TurnInv

LEMMA WallKept ==
  ASSUME TInv, NEW n \in Nodes, Step(n)
  PROVE  WallInv' /\ wall' \in [Nodes -> Nat]
<1> USE DEF TInv
<1>1. Grows /\ offset' = offset /\ world' = world
  BY StepGrows DEF Grows
<1>2. /\ wall \in [Nodes -> Nat] /\ now \in Nat /\ now >= 1
      /\ \A p \in Places : offset[p] \in Nat
      /\ \A m \in Nodes : Place(m) \in Places /\ Place(m)' = Place(m)
  BY <1>1, Times, WorldFacts DEF Types, Place
<1>3. CASE Enter(n)
  <2>1. /\ Happen(n, {"enter"}) /\ wall' = [wall EXCEPT ![n] = now + offset[Place(n)]]
    BY <1>3 DEF Enter
  <2>2. \A m \in Nodes : t'[m]["enter"] = IF m = n THEN now ELSE t[m]["enter"]
    BY <2>1, HappenFacts DEF Events
  <2>3. \A m \in Nodes : wall'[m] = IF m = n THEN now + offset[Place(n)] ELSE wall[m]
    BY <1>2, <2>1
  <2>4. wall' \in [Nodes -> Nat]
    BY <1>2, <2>1
  <2> QED
    BY <1>1, <1>2, <2>2, <2>3, <2>4 DEF WallInv, Did
<1>4. CASE ~Enter(n)
  <2>1. wall' = wall
    BY <1>4 DEF Step, Begin, Send, Back, Fail, Wake, Enter, RunTool, ToolEnds, Leave
  <2>2. PICK es \in SUBSET Events : Happen(n, es) /\ "enter" \notin es
    BY <1>4 DEF Step, Begin, Send, Back, Fail, Wake, Enter, RunTool, ToolEnds, Leave, Events
  <2>3. \A m \in Nodes : t'[m]["enter"] = t[m]["enter"]
    BY <2>2, HappenFacts DEF Events
  <2> QED
    BY <1>1, <1>2, <2>1, <2>3 DEF WallInv, Did
<1> QED
  BY <1>3, <1>4

-----------------------------------------------------------------------------
(* Maxima and what is remembered.                                          *)

\* The principle of induction, for a set in place of a predicate: n would be a
\* bound that the successors of the members below it never reach.
LEMMA Induction ==
  ASSUME NEW S, 0 \in S, \A n \in Nat : n \in S => n + 1 \in S
  PROVE  Nat \subseteq S
<1> SUFFICES ASSUME NEW n \in Nat, n \notin S PROVE FALSE
  OBVIOUS
<1> DEFINE T == { i \in 0 .. n : i \in S }
           f == [i \in T |-> i + 1]
<1>1. IsFiniteSet(0 .. n) /\ T \in SUBSET (0 .. n) /\ 0 \in T
  BY FS_Interval
<1>2. f \in Injection(T, T \ {0})
  BY DEF Injection, IsInjective
<1> HIDE DEF T, f
<1>3. IsFiniteSet(T)
  BY <1>1, FS_Subset
<1>4. Cardinality(T) \in Nat
  BY <1>3, FS_CardinalityType
<1>5. IsFiniteSet(T \ {0}) /\ Cardinality(T \ {0}) = Cardinality(T) - 1
  BY <1>1, <1>3, FS_RemoveElement
<1>6. Cardinality(T) <= Cardinality(T \ {0})
  BY <1>2, <1>5, FS_Injection
<1> QED
  BY <1>4, <1>5, <1>6

LEMMA MaxOfTwo ==
  ASSUME NEW x \in Int, NEW y \in Int
  PROVE  Max({x, y}) = IF x >= y THEN x ELSE y
<1>1. \E m \in {x, y} : \A z \in {x, y} : m >= z
  <2>1. CASE x >= y
    BY <2>1
  <2>2. CASE ~(x >= y)
    BY <2>2
  <2> QED
    BY <2>1, <2>2
<1>2. Max({x, y}) \in {x, y} /\ \A z \in {x, y} : Max({x, y}) >= z
  BY <1>1 DEF Max
<1>3. Max({x, y}) \in Int /\ Max({x, y}) >= x /\ Max({x, y}) >= y
      /\ (Max({x, y}) = x \/ Max({x, y}) = y)
  BY <1>2
<1> QED
  BY <1>3

\* A set of numbers that has a bound has a maximum.
LEMMA MaxOfBounded ==
  ASSUME NEW b \in Nat, NEW S \in SUBSET (0 .. b), S # {}
  PROVE  Max(S) \in S /\ \A x \in S : Max(S) >= x
<1> DEFINE B == { n \in Nat : \A R \in SUBSET (0 .. n) :
                    R # {} => \E m \in R : \A x \in R : m >= x }
<1>1. 0 \in B
  <2> SUFFICES ASSUME NEW R \in SUBSET (0 .. 0), R # {}
               PROVE  \E m \in R : \A x \in R : m >= x
    OBVIOUS
  <2>1. PICK m \in R : TRUE
    OBVIOUS
  <2>2. \A x \in R : x = 0
    OBVIOUS
  <2>3. \A x \in R : m >= x
    BY <2>1, <2>2
  <2> QED
    BY <2>1, <2>3
<1>2. ASSUME NEW n \in Nat, n \in B PROVE n + 1 \in B
  <2> SUFFICES ASSUME NEW R \in SUBSET (0 .. n + 1), R # {}
               PROVE  \E m \in R : \A x \in R : m >= x
    OBVIOUS
  <2>1. CASE n + 1 \in R
    BY <2>1
  <2>2. CASE n + 1 \notin R
    <3>1. R \in SUBSET (0 .. n)
      BY <2>2
    <3> QED
      BY <1>2, <3>1
  <2> QED
    BY <2>1, <2>2
<1> HIDE DEF B
<1>3. b \in B
  BY <1>1, <1>2, Induction
<1>4. \E m \in S : \A x \in S : m >= x
  BY <1>3 DEF B
<1> QED
  BY <1>4 DEF Max

\* A list of remembered requests keeps its bound, and gains the new one only.
LEMMA RememberFacts ==
  ASSUME NEW s \in Seq(Remembered), NEW r \in Remembered, Len(s) <= Limit
  PROVE  /\ Remember(s, r) \in Seq(Remembered)
         /\ Len(Remember(s, r)) <= Limit
         /\ \A k \in DOMAIN Remember(s, r) :
              Remember(s, r)[k] = r \/ \E l \in DOMAIN s : Remember(s, r)[k] = s[l]
<1> DEFINE more == Append(s, r)
<1>1. /\ more \in Seq(Remembered) /\ Len(more) = Len(s) + 1 /\ Len(s) \in Nat
      /\ DOMAIN more = 1 .. Len(more)
      /\ \A k \in DOMAIN more : more[k] = r \/ \E l \in DOMAIN s : more[k] = s[l]
  OBVIOUS
<1>2. Limit \in Nat /\ Kept \in Nat /\ Kept <= Limit
  BY TimingAssumption
<1> HIDE DEF more
<1>3. CASE Len(more) > Limit
  <2> DEFINE m == Len(more) - Kept + 1
             last == SubSeq(more, m, Len(more))
  <2>1. Remember(s, r) = last
    BY <1>3 DEF Remember, more
  <2>2. m \in 1 .. Len(more) + 1 /\ Len(more) \in Nat
    BY <1>1, <1>2, <1>3
  <2>3. \A R : \A q \in Seq(R) : \A i \in 1 .. Len(q) + 1 :
          /\ SubSeq(q, i, Len(q)) \in Seq(R)
          /\ Len(SubSeq(q, i, Len(q))) = Len(q) - i + 1
          /\ \A k \in 1 .. Len(q) - i + 1 :
               /\ SubSeq(q, i, Len(q))[k] = q[i + k - 1]
               /\ i + k - 1 \in 1 .. Len(q)
    OBVIOUS
  <2>4. /\ last \in Seq(Remembered) /\ Len(last) = Kept /\ DOMAIN last = 1 .. Kept
        /\ \A k \in 1 .. Kept : last[k] = more[m + k - 1] /\ m + k - 1 \in DOMAIN more
    <3>1. Len(more) - m + 1 = Kept
      BY <1>1, <1>2
    <3> HIDE DEF m
    <3> QED
      BY <1>1, <2>2, <2>3, <3>1
  <2> HIDE DEF last, m
  <2> QED
    BY <1>1, <1>2, <2>1, <2>4
<1>4. CASE ~(Len(more) > Limit)
  <2>1. Remember(s, r) = more
    BY <1>4 DEF Remember, more
  <2> QED
    BY <1>1, <1>2, <1>4, <2>1
<1> QED
  BY <1>3, <1>4

-----------------------------------------------------------------------------
(* The response.                                                           *)

\* The ends of the remembered requests that began about when n did.
Ends(n) ==
  { r.ran : r \in { s \in Range(recent[Place(n)]) :
                      /\ s.enter - t[n]["enter"] < Threshold
                      /\ t[n]["enter"] - s.enter < Threshold } }

LEMMA AppTimeIs ==
  ASSUME NEW n
  PROVE  AppTime(n) = IF Ends(n) = {} THEN now - t[n]["enter"]
                      ELSE Max({Least, t[n]["ran"] - Max(Ends(n))})
  BY DEF AppTime, Ends

\* Each of those ends is of an entry of the log, of a request that began less
\* than the threshold before n.
LEMMA EndsFacts ==
  ASSUME TInv, NEW n \in Nodes
  PROVE  /\ Ends(n) \in SUBSET (0 .. now)
         /\ \A x \in Ends(n) : \E j \in DOMAIN log :
              LET m == log[j].call IN
              /\ world.mcp /\ Place(m) = Place(n) /\ x = t[m]["ran"]
              /\ t[m]["enter"] - t[n]["enter"] < Threshold
              /\ t[n]["enter"] - t[m]["enter"] < Threshold
<1> DEFINE p == Place(n)
<1>1. p \in Places
  BY WorldFacts DEF TInv
<1>2. ASSUME NEW x \in Ends(n)
      PROVE  /\ x \in 0 .. now
             /\ \E j \in DOMAIN log :
                  LET m == log[j].call IN
                  /\ world.mcp /\ Place(m) = p /\ x = t[m]["ran"]
                  /\ t[m]["enter"] - t[n]["enter"] < Threshold
                  /\ t[n]["enter"] - t[m]["enter"] < Threshold
  <2>1. PICK s \in Range(recent[p]) :
          /\ x = s.ran
          /\ s.enter - t[n]["enter"] < Threshold
          /\ t[n]["enter"] - s.enter < Threshold
    BY <1>2 DEF Ends
  <2>2. PICK k \in DOMAIN recent[p] : s = recent[p][k]
    BY <2>1 DEF Range
  <2> HIDE DEF p
  <2>3. PICK j \in DOMAIN log :
          /\ Place(log[j].call) = p
          /\ s = [enter |-> t[log[j].call]["enter"], ran |-> t[log[j].call]["ran"]]
          /\ world.mcp
    BY <1>1, <2>2 DEF TInv, RecentInv
  <2>4. s.enter = t[log[j].call]["enter"] /\ s.ran = t[log[j].call]["ran"]
    BY <2>3
  <2>5. t[log[j].call]["ran"] \in 0 .. now
    <3>1. log[j].call \in Nodes
      BY EntryFacts
    <3> QED
      BY <3>1 DEF TInv, Types, Events
  <2> QED
    BY <2>1, <2>3, <2>4, <2>5
<1> QED
  BY <1>2

\* The application time of a request that is answered now.
LEMMA AppTimeFacts ==
  ASSUME TInv, NEW n \in Nodes, Did(n, "ran"), t[n]["ran"] <= now
  PROVE  /\ AppTime(n) \in Nat
         /\ Ends(n) = {} => AppTime(n) = now - t[n]["enter"]
         /\ Ends(n) # {} =>
              /\ AppTime(n) <= Max({Least, (now - t[n]["enter"]) + Threshold - 1})
              /\ \E j \in DOMAIN log :
                   LET m == log[j].call IN
                   /\ world.mcp /\ Place(m) = Place(n)
                   /\ t[m]["enter"] - t[n]["enter"] < Threshold
                   /\ t[n]["enter"] - t[m]["enter"] < Threshold
                   /\ AppTime(n) >= t[n]["ran"] - t[m]["ran"]
<1>1. /\ now \in Nat /\ Threshold \in Nat
      /\ \A m \in Nodes, e \in Events : t[m][e] \in Nat
      /\ t[n]["enter"] \in Nat /\ t[n]["ran"] \in Nat /\ t[n]["enter"] <= now
  BY Times, TimingAssumption DEF TInv, Events
<1>2. CASE Ends(n) = {}
  <2>1. AppTime(n) = now - t[n]["enter"]
    BY <1>2, AppTimeIs
  <2>2. now - t[n]["enter"] \in Nat
    BY <1>1
  <2> QED
    BY <1>2, <2>1, <2>2
<1>3. CASE Ends(n) # {}
  <2>1. Max(Ends(n)) \in Ends(n)
    BY <1>1, <1>3, EndsFacts, MaxOfBounded
  <2>2. PICK j \in DOMAIN log :
          LET m == log[j].call IN
          /\ world.mcp /\ Place(m) = Place(n) /\ Max(Ends(n)) = t[m]["ran"]
          /\ t[m]["enter"] - t[n]["enter"] < Threshold
          /\ t[n]["enter"] - t[m]["enter"] < Threshold
    BY <2>1, EndsFacts
  <2> DEFINE m == log[j].call
  <2>3. m \in Nodes /\ t[m]["enter"] <= t[m]["run"] /\ t[m]["run"] <= t[m]["ran"]
    BY EntryFacts
  <2>4. t[m]["enter"] \in Nat /\ t[m]["run"] \in Nat /\ t[m]["ran"] \in Nat
    BY <1>1, <2>3 DEF Events
  <2>5. AppTime(n) = Max({Least, t[n]["ran"] - t[m]["ran"]})
    BY <1>3, <2>2, AppTimeIs
  <2> HIDE DEF m
  <2> DEFINE a == t[n]["ran"] - t[m]["ran"]
             b == (now - t[n]["enter"]) + Threshold - 1
  <2>6. a \in Int /\ b \in Int /\ Least \in Int /\ Least = 1
    BY <1>1, <2>4 DEF Least
  <2>7. a <= b
    BY <1>1, <2>2, <2>3, <2>4 DEF m
  <2> HIDE DEF a, b
  <2>8. /\ Max({Least, a}) = IF Least >= a THEN Least ELSE a
        /\ Max({Least, b}) = IF Least >= b THEN Least ELSE b
    BY <2>6, MaxOfTwo
  <2>9. Max({Least, a}) \in Nat /\ Max({Least, a}) <= Max({Least, b}) /\ Max({Least, a}) >= a
    BY <2>6, <2>7, <2>8
  <2>10. AppTime(n) = Max({Least, a})
    BY <2>5 DEF a
  <2>11. AppTime(n) \in Nat /\ AppTime(n) <= Max({Least, b}) /\ AppTime(n) >= a
    BY <2>9, <2>10
  <2> QED
    BY <1>3, <2>2, <2>11 DEF a, b, m
<1> QED
  BY <1>2, <1>3

\* The entry that a response adds to the log.
LEMMA NewEntry ==
  ASSUME TInv, NEW n \in Nodes, Leave(n), Complete(n)
  PROVE  /\ Breakdown(n) \in Breakdowns
         /\ log' = Append(log, [call |-> n, payload |-> Breakdown(n)])
         /\ LogInv'
<1> USE DEF TInv
<1>1. /\ Happen(n, {"leave"}) /\ Did(n, "run") /\ Did(n, "ran")
      /\ log' = Append(log, [call |-> n, payload |-> Breakdown(n)])
      /\ wall' = wall
  BY DEF Leave, Complete
<1>2. Grows /\ world' = world
  BY StepGrows DEF Step, Grows
<1>3. /\ t[n]["leave"] = 0
      /\ \A m \in Nodes, e \in Events :
           t'[m][e] = IF m = n /\ e = "leave" THEN now ELSE t[m][e]
  BY <1>1, HappenFacts, SMTT(30) DEF Events
<1>4. /\ now \in Nat /\ now >= 1 /\ wall[n] \in Nat
      /\ \A e \in Events : t[n][e] \in Nat /\ t[n][e] <= now
      /\ t[n]["enter"] <= t[n]["run"] /\ t[n]["run"] <= t[n]["ran"] /\ Did(n, "enter")
  BY <1>1, Times DEF OrderInv, Ordered, Events
<1>5. /\ WallOf(n, t[n]["run"]) = wall[n] + (t[n]["run"] - t[n]["enter"])
      /\ WallOf(n, t[n]["ran"]) = wall[n] + (t[n]["ran"] - t[n]["enter"])
      /\ WallOf(n, now) = wall[n] + (now - t[n]["enter"])
      /\ WallOf(n, t[n]["run"]) \in Nat /\ WallOf(n, t[n]["ran"]) \in Nat
      /\ WallOf(n, now) \in Nat
      /\ t[n]["ran"] - t[n]["run"] \in Nat /\ t[n]["run"] - t[n]["enter"] \in Nat
      /\ now - t[n]["ran"] \in Nat
  <2>1. \A w, x, y \in Nat : x <= y => w + Positive(y - x) = w + (y - x)
                                       /\ w + (y - x) \in Nat /\ y - x \in Nat
    BY DEF Positive
  <2>2. /\ t[n]["enter"] \in Nat /\ t[n]["run"] \in Nat /\ t[n]["ran"] \in Nat
        /\ t[n]["enter"] <= t[n]["run"] /\ t[n]["enter"] <= t[n]["ran"]
        /\ t[n]["enter"] <= now /\ t[n]["ran"] <= now
    BY <1>4 DEF Events
  <2> QED
    BY <1>4, <2>1, <2>2, ZenonT(40) DEF WallOf
<1>6. AppTime(n) \in Nat
  BY <1>1, <1>4, AppTimeFacts DEF Events
<1> HIDE DEF TInv
<1>7. Breakdown(n) =
        [wall  |-> Noted("wall", wall[n]),
         start |-> Noted("start", wall[n]),
         run   |-> Noted("run", WallOf(n, t[n]["run"])),
         ran   |-> Noted("ran", WallOf(n, t[n]["ran"])),
         end   |-> Noted("end", WallOf(n, now)),
         app   |-> AppTime(n),
         tool  |-> t[n]["ran"] - t[n]["run"],
         pre   |-> t[n]["run"] - t[n]["enter"],
         post  |-> now - t[n]["ran"]]
  BY DEF Breakdown, Noted
<1>8. \A e, x : x \in Nat => Noted(e, x) \in Nat
  BY DEF Noted
<1>9. Breakdown(n) \in Breakdowns
  <2>1. /\ Noted("wall", wall[n]) \in Nat /\ Noted("start", wall[n]) \in Nat
        /\ Noted("run", WallOf(n, t[n]["run"])) \in Nat
        /\ Noted("ran", WallOf(n, t[n]["ran"])) \in Nat
        /\ Noted("end", WallOf(n, now)) \in Nat
    BY <1>4, <1>5, <1>8
  <2> QED
    BY <1>5, <1>6, <1>7, <2>1 DEF Breakdowns
<1>10. PICK k : k = Len(log) + 1
  OBVIOUS
<1>11. log \in Seq(Entries) /\ DOMAIN log' = DOMAIN log \cup {k} /\ k \notin DOMAIN log
       /\ (\A i \in DOMAIN log : log'[i] = log[i])
       /\ log'[k] = [call |-> n, payload |-> Breakdown(n)]
  BY <1>1, <1>10 DEF TInv, Types
<1>12. log'[k].call = n /\ log'[k].payload = Breakdown(n)
  BY <1>11
<1>13. EntryTrue(k)'
  <2>1. /\ t'[n]["leave"] = now /\ t'[n]["ran"] = t[n]["ran"] /\ t'[n]["run"] = t[n]["run"]
        /\ t'[n]["enter"] = t[n]["enter"] /\ wall'[n] = wall[n]
    BY <1>1, <1>3 DEF Events
  <2>2. \A e, x : Noted(e, x)' = Noted(e, x')
    BY <1>2 DEF Noted
  <2>3. /\ Noted("wall", wall[n])' = Noted("wall", wall[n])
        /\ Noted("start", wall[n])' = Noted("start", wall[n])
        /\ Noted("run", wall[n] + (t[n]["run"] - t[n]["enter"]))'
             = Noted("run", WallOf(n, t[n]["run"]))
        /\ Noted("ran", wall[n] + (t[n]["ran"] - t[n]["enter"]))'
             = Noted("ran", WallOf(n, t[n]["ran"]))
        /\ Noted("end", wall[n] + (t[n]["leave"] - t[n]["enter"]))'
             = Noted("end", WallOf(n, now))
    BY <1>2, <1>5, <2>1 DEF Noted
  <2>4. Did(n, "ran")' /\ Did(n, "leave")' /\ t'[n]["ran"] <= t'[n]["leave"]
    BY <1>1, <1>4, <2>1 DEF Did, Events
  <2>5. log'[k].payload = Breakdown(n)
    BY <1>12
  <2> QED
    BY <1>7, <1>12, <2>1, <2>3, <2>4, <2>5 DEF EntryTrue
<1>14. \A i \in DOMAIN log : EntryTrue(i)'
  BY <1>2, <1>11, EntryKept
<1>15. \A i \in DOMAIN log : log[i].call # n
  BY <1>3, EntryFacts
<1>16. \A i, j \in DOMAIN log' : log'[i].call = log'[j].call => i = j
  BY <1>11, <1>12, <1>15 DEF TInv, LogInv
<1> QED
  BY <1>1, <1>9, <1>11, <1>13, <1>14, <1>16 DEF LogInv

LEMMA NewAppTrue ==
  ASSUME TInv, NEW n \in Nodes, Leave(n), Complete(n), NEW k, k = Len(log) + 1
  PROVE  AppTrue(k)'
<1> USE DEF TInv
<1>1. /\ Happen(n, {"leave"}) /\ Did(n, "run") /\ Did(n, "ran")
      /\ log' = Append(log, [call |-> n, payload |-> Breakdown(n)])
  BY DEF Leave, Complete
<1>2. Grows /\ world' = world
  BY StepGrows DEF Step, Grows
<1>3. \A m \in Nodes, e \in Events :
        t'[m][e] = IF m = n /\ e = "leave" THEN now ELSE t[m][e]
  BY <1>1, HappenFacts, SMTT(30) DEF Events
<1>4. log \in Seq(Entries) /\ k \in Nat /\ DOMAIN log = 1 .. k - 1
      /\ (\A j \in 1 .. k - 1 : log'[j] = log[j])
      /\ log'[k] = [call |-> n, payload |-> Breakdown(n)]
  BY <1>1 DEF Types
<1>5. log'[k].call = n /\ log'[k].payload.app = AppTime(n)
  BY <1>4 DEF Breakdown
<1>6. /\ now \in Nat /\ Threshold \in Nat
      /\ \A m \in Nodes, e \in Events : t[m][e] \in Nat /\ t[m][e] <= now
  BY Times, TimingAssumption
<1>7. t[n]["enter"] <= t[n]["run"] /\ t[n]["run"] <= t[n]["ran"]
  BY <1>1 DEF OrderInv, Ordered
<1>8. \A j \in 1 .. k - 1 : log[j].call \in Nodes
  BY <1>4, EntryFacts
<1>9. /\ t[n]["enter"] \in Nat /\ t[n]["run"] \in Nat /\ t[n]["ran"] \in Nat
      /\ t[n]["ran"] <= now
  BY <1>6 DEF Events
<1> DEFINE near(j) == /\ Place(log[j].call) = Place(n) /\ world.mcp
                      /\ t[log[j].call]["enter"] - t[n]["enter"] < Threshold
                      /\ t[n]["enter"] - t[log[j].call]["enter"] < Threshold
           true == now - t[n]["enter"]
           inOrder == \A j \in 1 .. k - 1 :
             Place(log[j].call) = Place(n) => t[log[j].call]["ran"] <= t[n]["run"]
<1>10. Alone(k)' <=> \A j \in 1 .. k - 1 : ~near(j)
  <2>1. \A j \in 1 .. k - 1 :
          /\ t[log[j].call]["enter"] \in Nat
          /\ t'[log'[j].call]["enter"] = t[log[j].call]["enter"]
          /\ Place(log[j].call)' = Place(log[j].call)
    BY <1>2, <1>3, <1>4, <1>6, <1>8 DEF Place, Events
  <2>2. t'[n]["enter"] = t[n]["enter"] /\ Place(n)' = Place(n)
    BY <1>2, <1>3 DEF Place, Events
  <2>3. Alone(k)' <=> \A j \in 1 .. k - 1 :
          \/ Place(log[j].call) # Place(n) \/ ~world.mcp
          \/ t[log[j].call]["enter"] - t[n]["enter"] >= Threshold
          \/ t[n]["enter"] - t[log[j].call]["enter"] >= Threshold
    BY <1>2, <1>5, <2>1, <2>2 DEF Alone
  <2>4. \A j \in 1 .. k - 1 :
          near(j) <=> ~(\/ Place(log[j].call) # Place(n) \/ ~world.mcp
                        \/ t[log[j].call]["enter"] - t[n]["enter"] >= Threshold
                        \/ t[n]["enter"] - t[log[j].call]["enter"] >= Threshold)
    BY <1>6, <1>9, <2>1
  <2> HIDE DEF near
  <2> QED
    BY <2>3, <2>4
<1>11. /\ Between(log[k].call, "enter", "leave")' = true
       /\ Between(log[k].call, "run", "ran")' = t[n]["ran"] - t[n]["run"]
  BY <1>3, <1>5 DEF Between, Events
<1>12. (\A j \in 1 .. k - 1 : Place(log[j].call) = Place(log[k].call)
                               => t[log[j].call]["ran"] <= t[log[k].call]["run"])'
       <=> inOrder
  <2>1. \A j \in 1 .. k - 1 :
          /\ t'[log'[j].call]["ran"] = t[log[j].call]["ran"]
          /\ Place(log[j].call)' = Place(log[j].call)
    BY <1>2, <1>3, <1>4, <1>8 DEF Place, Events
  <2>2. t'[n]["run"] = t[n]["run"] /\ Place(n)' = Place(n)
    BY <1>2, <1>3 DEF Place, Events
  <2> QED
    BY <1>5, <2>1, <2>2
<1>13. IF Alone(k)' THEN AppTime(n) = true
       ELSE /\ AppTime(n) <= Max({Least, true + Threshold - 1})
            /\ inOrder => AppTime(n) >= t[n]["ran"] - t[n]["run"]
  <2>1. CASE Ends(n) = {}
    <3>1. AppTime(n) = true
      BY <1>1, <1>9, <2>1, AppTimeFacts
    <3>2. true \in Nat /\ true >= t[n]["ran"] - t[n]["run"]
      BY <1>6, <1>7, <1>9, SMTT(30)
    <3>3. ~Alone(k)' => Threshold >= 1
      <4>1. ASSUME NEW j \in 1 .. k - 1, near(j) PROVE Threshold >= 1
        <5>1. t[log[j].call]["enter"] \in Nat
          BY <1>6, <1>8 DEF Events
        <5> QED
          BY <1>6, <1>9, <4>1, <5>1
      <4> QED
        BY <1>10, <4>1
    <3>4. ~Alone(k)' => true <= Max({Least, true + Threshold - 1})
      <4> HIDE DEF true
      <4>1. Threshold >= 1 => true + Threshold - 1 \in Int /\ true <= true + Threshold - 1
        BY <1>6, <3>2
      <4>2. Least \in Int
        BY DEF Least
      <4> DEFINE x == true + Threshold - 1
      <4>3. \A y \in Int : Max({Least, y}) >= y /\ Max({Least, y}) \in Int
        BY <4>2, MaxOfTwo
      <4> QED
        BY <3>2, <3>3, <4>1, <4>3
    <3> HIDE DEF true, inOrder
    <3> QED
      BY <3>1, <3>2, <3>4
  <2>2. CASE Ends(n) # {}
    <3>1. /\ AppTime(n) \in Nat
          /\ AppTime(n) <= Max({Least, true + Threshold - 1})
          /\ \E j \in DOMAIN log :
               LET m == log[j].call IN
               /\ world.mcp /\ Place(m) = Place(n)
               /\ t[m]["enter"] - t[n]["enter"] < Threshold
               /\ t[n]["enter"] - t[m]["enter"] < Threshold
               /\ AppTime(n) >= t[n]["ran"] - t[m]["ran"]
      BY <1>1, <1>9, <2>2, AppTimeFacts
    <3>2. PICK j \in 1 .. k - 1 :
            near(j) /\ AppTime(n) >= t[n]["ran"] - t[log[j].call]["ran"]
      BY <1>4, <3>1
    <3>3. ~Alone(k)'
      BY <1>10, <3>2
    <3>4. inOrder => AppTime(n) >= t[n]["ran"] - t[n]["run"]
      <4>1. inOrder => t[log[j].call]["ran"] <= t[n]["run"]
        BY <3>2
      <4>2. t[log[j].call]["ran"] \in Nat
        BY <1>6, <1>8 DEF Events
      <4> QED
        BY <1>9, <3>1, <3>2, <4>1, <4>2, SMTT(30)
    <3> HIDE DEF true, inOrder
    <3> QED
      BY <3>1, <3>3, <3>4
  <2> QED
    BY <2>1, <2>2
<1> HIDE DEF true, inOrder
<1> QED
  BY <1>5, <1>11, <1>12, <1>13 DEF AppTrue

\* A response adds its entry to the log and to what is remembered.
LEMMA LeaveStep ==
  ASSUME TInv, NEW n \in Nodes, Leave(n)
  PROVE  /\ LogInv' /\ RecentInv' /\ (\A i \in DOMAIN log : AppTrue(i))'
         /\ log' \in Seq(Entries) /\ recent' \in [Places -> Seq(Remembered)]
<1> USE DEF TInv
<1>1. Grows /\ world' = world
  BY StepGrows DEF Step, Grows
<1>2. CASE ~Complete(n)
  <2>1. UNCHANGED <<log, recent>>
    BY <1>2 DEF Leave
  <2> QED
    BY <1>1, <2>1, LogKept DEF Types
<1>3. CASE Complete(n)
  <2> DEFINE r == [enter |-> t[n]["enter"], ran |-> t[n]["ran"]]
  <2>1. PICK p, k : p = Place(n) /\ k = Len(log) + 1
    OBVIOUS
  <2>2. /\ Happen(n, {"leave"})
        /\ recent' = IF world.mcp THEN [recent EXCEPT ![p] = Remember(@, r)] ELSE recent
    BY <1>3, <2>1 DEF Leave
  <2>3. /\ Breakdown(n) \in Breakdowns /\ LogInv'
        /\ log' = Append(log, [call |-> n, payload |-> Breakdown(n)])
    BY <1>3, NewEntry
  <2>4. [call |-> n, payload |-> Breakdown(n)] \in Entries
    BY <2>3 DEF Entries
  <2>5. /\ log' \in Seq(Entries) /\ k \in Nat
        /\ DOMAIN log' = DOMAIN log \cup {k} /\ DOMAIN log = 1 .. k - 1
        /\ (\A i \in DOMAIN log : log'[i] = log[i])
        /\ log'[k] = [call |-> n, payload |-> Breakdown(n)]
    BY <2>1, <2>3, <2>4 DEF Types
  <2>6. \A i \in DOMAIN log' : AppTrue(i)'
    <3>1. AppTrue(k)'
      BY <1>3, <2>1, NewAppTrue
    <3>2. ASSUME NEW i \in DOMAIN log PROVE AppTrue(i)'
      <4>1. \A j \in 1 .. i : j \in DOMAIN log
        BY <2>5
      <4> QED
        BY <1>1, <2>5, <4>1, AppTrueKept
    <3> QED
      BY <2>5, <3>1, <3>2
  <2>7. r \in Remembered /\ p \in Places /\ recent \in [Places -> Seq(Remembered)]
        /\ Len(recent[p]) <= Limit
    BY <2>1, Times, WorldFacts DEF Types, Remembered, RecentInv, Events
  <2>8. /\ Remember(recent[p], r) \in Seq(Remembered)
        /\ Len(Remember(recent[p], r)) <= Limit
        /\ \A i \in DOMAIN Remember(recent[p], r) :
             \/ Remember(recent[p], r)[i] = r
             \/ \E l \in DOMAIN recent[p] : Remember(recent[p], r)[i] = recent[p][l]
    BY <2>7, RememberFacts
  <2>9. recent' \in [Places -> Seq(Remembered)]
    BY <2>2, <2>7, <2>8
  <2> DEFINE Known(q, x) == \E j \in DOMAIN log' :
               /\ Place(log[j].call)' = q
               /\ x = [enter |-> t'[log'[j].call]["enter"], ran |-> t'[log'[j].call]["ran"]]
  <2>10. Known(p, r)
    <3>1. log'[k].call = n
      BY <2>5
    <3>2. t'[n]["enter"] = t[n]["enter"] /\ t'[n]["ran"] = t[n]["ran"]
      BY <2>2, HappenFacts DEF Events
    <3>3. Place(log[k].call)' = p
      BY <1>1, <2>1, <3>1 DEF Place
    <3> QED
      BY <2>5, <3>1, <3>2, <3>3
  <2>11. \A q \in Places : \A l \in DOMAIN recent[q] : Known(q, recent[q][l])
    <3> SUFFICES ASSUME NEW q \in Places, NEW l \in DOMAIN recent[q]
                 PROVE  Known(q, recent[q][l])
      OBVIOUS
    <3>1. PICK j \in DOMAIN log :
            /\ Place(log[j].call) = q
            /\ recent[q][l] = [enter |-> t[log[j].call]["enter"],
                               ran   |-> t[log[j].call]["ran"]]
      BY DEF RecentInv
    <3>2. /\ j \in DOMAIN log' /\ log'[j] = log[j]
          /\ t'[log[j].call]["enter"] = t[log[j].call]["enter"]
          /\ t'[log[j].call]["ran"] = t[log[j].call]["ran"]
          /\ Place(log[j].call)' = Place(log[j].call)
      BY <1>1, <2>5, EntryFacts DEF Grows, Place, Events
    <3> QED
      BY <3>1, <3>2
  <2> HIDE DEF Known, r
  <2>12. \A q \in Places : /\ Len(recent'[q]) <= Limit
                           /\ \A i \in DOMAIN recent'[q] :
                                world.mcp /\ Known(q, recent'[q][i])
    <3> SUFFICES ASSUME NEW q \in Places
                 PROVE  /\ Len(recent'[q]) <= Limit
                        /\ \A i \in DOMAIN recent'[q] :
                             world.mcp /\ Known(q, recent'[q][i])
      OBVIOUS
    <3>1. CASE recent'[q] = recent[q]
      BY <2>11, <3>1 DEF RecentInv
    <3>2. CASE recent'[q] # recent[q]
      <4>1. world.mcp /\ q = p /\ recent'[q] = Remember(recent[p], r)
        BY <2>2, <2>7, <3>2
      <4> QED
        BY <2>7, <2>8, <2>10, <2>11, <4>1
    <3> QED
      BY <3>1, <3>2
  <2>13. RecentInv'
    BY <1>1, <2>12 DEF RecentInv, Known
  <2> QED
    BY <2>3, <2>5, <2>6, <2>9, <2>13
<1> QED
  BY <1>2, <1>3

LEMMA StepKeeps ==
  ASSUME TInv, NEW n \in Nodes, Step(n)
  PROVE  TInv'
<1> USE DEF TInv
<1>1. /\ Grows /\ now' = now /\ offset' = offset /\ analysed' = analysed
      /\ t' \in [Nodes -> [Events -> 0 .. now']]
  BY StepGrows
<1>2. OrderInv' /\ failed' \subseteq Nodes
  BY OrderKept
<1>3. WallInv' /\ wall' \in [Nodes -> Nat]
  BY WallKept
<1>4. TurnInv'
  BY TurnKept
<1>5. /\ LogInv' /\ RecentInv' /\ (\A i \in DOMAIN log : AppTrue(i))'
      /\ log' \in Seq(Entries) /\ recent' \in [Places -> Seq(Remembered)]
  <2>1. CASE Leave(n)
    BY <2>1, LeaveStep
  <2>2. CASE ~Leave(n)
    <3>1. UNCHANGED <<log, recent>>
      BY <2>2 DEF Step, Begin, Send, Back, Fail, Wake, Enter, RunTool, ToolEnds
    <3> QED
      BY <1>1, <3>1, LogKept DEF Types
  <2> QED
    BY <2>1, <2>2
<1>6. Types'
  BY <1>1, <1>2, <1>3, <1>5 DEF Types, Grows
<1> QED
  BY <1>2, <1>3, <1>4, <1>5, <1>6

\* Time, the wall clocks and the analysis change no event.
LEMMA OthersKeep ==
  ASSUME TInv, Tick \/ (\E p \in Places : SetClock(p)) \/ Analyse \/ UNCHANGED vars
  PROVE  TInv'
<1> USE DEF TInv
<1>1. /\ UNCHANGED <<world, t, failed, wall, recent, log>>
      /\ analysed' \in BOOLEAN
      /\ now' = now \/ (now' = now + 1 /\ now < MaxTime)
      /\ offset' = offset \/ \E p \in Places : offset' = [offset EXCEPT ![p] = 1]
                                                 /\ offset[p] = 0
  BY DEF Tick, SetClock, Analyse, vars, Types
<1>2. now \in Nat /\ MaxTime \in Nat /\ now >= 1 /\ now <= MaxTime
  BY TimingAssumption DEF Types
<1>3. now' \in 1 .. MaxTime /\ now <= now'
  BY <1>1, <1>2
<1>4. t \in [Nodes -> [Events -> 0 .. now']]
  <2>1. 0 .. now \subseteq 0 .. now'
    BY <1>2, <1>3
  <2>2. t \in [Nodes -> [Events -> 0 .. now]]
    BY DEF Types
  <2> QED
    BY <2>1, <2>2
<1>5. offset' \in [Places -> 0 .. 1]
  <2>1. offset \in [Places -> 0 .. 1]
    BY DEF Types
  <2>2. \A p \in Places : [offset EXCEPT ![p] = 1] \in [Places -> 0 .. 1]
    BY <2>1
  <2> QED
    BY <1>1, <2>1, <2>2
<1>6. Types'
  BY <1>1, <1>3, <1>4, <1>5 DEF Types
<1>7. Grows
  BY <1>1 DEF Grows
<1>8. LogInv' /\ RecentInv' /\ (\A i \in DOMAIN log : AppTrue(i))'
  BY <1>1, <1>7, LogKept
<1>9. OrderInv'
  BY <1>1, OrderedSame DEF OrderInv
<1>10. WallInv'
  <2>1. \A p \in Places : offset'[p] = 0 => offset[p] = 0
    BY <1>1 DEF Types
  <2>2. \A n \in Nodes : Place(n) \in Places /\ Place(n)' = Place(n)
    BY <1>1, WorldFacts DEF Place
  <2> QED
    BY <1>1, <2>1, <2>2 DEF WallInv, Did
<1>11. TurnInv'
  BY <1>1 DEF TurnInv, InTurn, Did, Place
<1> QED
  BY <1>6, <1>8, <1>9, <1>10, <1>11

LEMMA InitHolds == Init => TInv
<1> SUFFICES ASSUME Init PROVE TInv
  OBVIOUS
<1>1. \A n \in Nodes, e \in Events : t[n][e] = 0
  BY DEF Init
<1>2. Types
  <2>1. now \in 1 .. MaxTime
    BY TimingAssumption DEF Init
  <2>2. t \in [Nodes -> [Events -> 0 .. now]]
    BY DEF Init
  <2>3. recent \in [Places -> Seq(Remembered)] /\ log \in Seq(Entries)
    <3>1. \A S : << >> \in Seq(S)
      OBVIOUS
    <3> QED
      BY <3>1 DEF Init
  <2>4. offset \in [Places -> 0 .. 1] /\ wall \in [Nodes -> Nat]
    BY DEF Init
  <2> QED
    BY <2>1, <2>2, <2>3, <2>4 DEF Init, Types
<1>3. OrderInv
  BY <1>1 DEF OrderInv, Ordered, Did, Init, Events
<1>4. WallInv
  BY <1>1 DEF WallInv, Did, Init, Events
<1>5. LogInv /\ \A i \in DOMAIN log : AppTrue(i)
  <2>1. DOMAIN log = {}
    BY DEF Init
  <2> QED
    BY <2>1 DEF LogInv
<1>6. RecentInv
  <2>1. \A p \in Places : recent[p] = <<>>
    BY DEF Init
  <2>2. Limit \in Nat /\ Len(<< >>) = 0 /\ DOMAIN << >> = {}
    BY TimingAssumption
  <2> QED
    BY <2>1, <2>2 DEF RecentInv
<1>7. TurnInv
  BY <1>1 DEF TurnInv, Did, Init, Events
<1> QED
  BY <1>2, <1>3, <1>4, <1>5, <1>6, <1>7 DEF TInv

\* The inductive invariant of a run's times.
THEOREM TimingInvariant == Spec => []TInv
<1>1. TInv /\ [Next]_vars => TInv'
  BY StepKeeps, OthersKeep DEF Next
<1> QED
  BY <1>1, InitHolds, PTL DEF Spec

\* Events have their order, a failed call has been sent and come back, and a
\* request prints at most one breakdown.
THEOREM TimingTypeCorrect == Spec => []TypeOK
<1>1. TInv => TypeOK
  <2> SUFFICES ASSUME TInv PROVE TypeOK
    OBVIOUS
  <2> USE DEF TInv
  <2>1. failed \subseteq Invoked
    <3>1. \A n \in failed : n \in Nodes /\ Ordered(n)
      BY DEF Types, OrderInv
    <3> QED
      BY <3>1 DEF Ordered, Invoked
  <2>2. ASSUME NEW i \in DOMAIN log
        PROVE  LET n == log[i].call IN
               /\ Between(n, "enter", "run") >= 0 /\ Between(n, "run", "ran") >= 0
               /\ Between(n, "ran", "leave") >= 0
    <3> DEFINE n == log[i].call
    <3>1. /\ n \in Nodes
          /\ t[n]["enter"] <= t[n]["run"] /\ t[n]["run"] <= t[n]["ran"]
          /\ t[n]["ran"] <= t[n]["leave"]
      BY EntryFacts
    <3>2. \A e \in Events : t[n][e] \in Nat
      BY <3>1, Times
    <3> HIDE DEF n
    <3>3. t[n]["enter"] \in Nat /\ t[n]["run"] \in Nat /\ t[n]["ran"] \in Nat
          /\ t[n]["leave"] \in Nat
      BY <3>2 DEF Events
    <3>4. /\ Between(n, "enter", "run") >= 0 /\ Between(n, "run", "ran") >= 0
          /\ Between(n, "ran", "leave") >= 0
      BY <3>1, <3>3 DEF Between
    <3> QED
      BY <3>4 DEF n
  <2> QED
    BY <2>1, <2>2 DEF TypeOK, Types, WallInv, RecentInv, LogInv
<1> QED
  BY <1>1, TimingInvariant, PTL

\* The application times that the servers report (_build_mcp_breakdown_payload,
\* _build_function_breakdown_payload).
THEOREM AppTimesCorrect == Spec => []AppTimesTrue
<1>1. TInv => AppTimesTrue
  BY DEF TInv, AppTrue, AppTimesTrue
<1> QED
  BY <1>1, TimingInvariant, PTL

-----------------------------------------------------------------------------
(* The report's operators.                                                  *)

\* What the collectors make of an observation.
LEMMA MetricFields ==
  ASSUME NEW provider \in Providers, NEW o, NEW p, NEW b
  PROVE  LET m == Metric(provider, o, p, b)
             client == o.back - o.sent
             found == p # NoRecord /\ provider \in {"ali", "lambda", "gcp"}
             span == p.response - p.receive
         IN  /\ m.client = client
             /\ m.breakdown = IF b = NoRecord \/ provider = "gateway" THEN NoRecord
                              ELSE Normalised(b)
             /\ m.billed = IF found /\ provider = "lambda" THEN p.billed ELSE 0
             /\ m.init = IF found /\ provider = "lambda" THEN p.init ELSE 0
             /\ m.elapsed = IF found THEN span ELSE client
             /\ m.duration = IF found THEN span
                             ELSE IF provider \in {"agentcore", "gcp"} THEN client ELSE 0
             /\ m.active = IF found /\ provider = "ali"
                           THEN p.schedule + p.response - p.receive ELSE 0
             /\ m.receive = IF found /\ span > 0 THEN p.receive ELSE 0
             /\ m.response = IF found /\ span > 0 THEN p.response ELSE 0
<1> DEFINE m0 == CASE provider = "ali"       -> AliMetric(o, p)
                   [] provider = "lambda"    -> LambdaMetric(o, p)
                   [] provider = "agentcore" -> AgentCoreMetric(o)
                   [] provider = "gcp"       -> GcpMetric(o, p)
                   [] OTHER                  -> Observed(o)
           Fields == {"client", "elapsed", "duration", "active", "billed", "init",
                      "receive", "response", "breakdown"}
           client == o.back - o.sent
           found == p # NoRecord /\ provider \in {"ali", "lambda", "gcp"}
           span == p.response - p.receive
           m == Metric(provider, o, p, b)
<1>1. /\ DOMAIN m0 = Fields
      /\ m0.client = client /\ m0.breakdown = NoRecord
      /\ m0.billed = IF found /\ provider = "lambda" THEN p.billed ELSE 0
      /\ m0.init = IF found /\ provider = "lambda" THEN p.init ELSE 0
      /\ m0.elapsed = IF found THEN span ELSE client
      /\ m0.duration = IF found THEN span
                       ELSE IF provider \in {"agentcore", "gcp"} THEN client ELSE 0
      /\ m0.active = IF found /\ provider = "ali"
                     THEN p.schedule + p.response - p.receive ELSE 0
      /\ m0.receive = IF found /\ span > 0 THEN p.receive ELSE 0
      /\ m0.response = IF found /\ span > 0 THEN p.response ELSE 0
  <2>1. CASE provider = "ali"
    BY <2>1 DEF AliMetric, WithDuration, Observed
  <2>2. CASE provider = "lambda"
    BY <2>2 DEF LambdaMetric, WithDuration, Observed
  <2>3. CASE provider = "agentcore"
    BY <2>3 DEF AgentCoreMetric, Observed
  <2>4. CASE provider = "gcp"
    BY <2>4 DEF GcpMetric, WithDuration, Observed
  <2>5. CASE provider = "gateway"
    BY <2>5 DEF Observed
  <2> QED
    BY <2>1, <2>2, <2>3, <2>4, <2>5 DEF Providers
<1>2. m = IF b = NoRecord \/ provider = "gateway" THEN m0
          ELSE [m0 EXCEPT !.breakdown = Normalised(b)]
  BY DEF Metric
<1> HIDE DEF m0
<1> QED
  BY <1>1, <1>2

\* Normalised adds times to a breakdown, and keeps its durations.
LEMMA NormalFields ==
  ASSUME NEW b \in Breakdowns
  PROVE  LET c == Normalised(b)
             start == IF b.start # 0 THEN b.start ELSE b.wall
             end == IF start # 0 /\ b.end = 0 /\ b.app > 0 THEN start + b.app ELSE b.end
             run == IF start # 0 /\ b.run = 0 THEN start + b.pre ELSE b.run
         IN  /\ c \in Breakdowns
             /\ c.wall = b.wall /\ c.app = b.app /\ c.tool = b.tool
             /\ c.pre = b.pre /\ c.post = b.post
             /\ c.start = start /\ c.end = end
             /\ b.ran # 0 => c.ran = b.ran
             /\ b.ran = 0 /\ run # 0 /\ b.tool > 0 => c.ran = run + b.tool
             /\ run # 0 => c.run = run
<1> DEFINE start == IF b.start # 0 THEN b.start ELSE b.wall
           end == IF start # 0 /\ b.end = 0 /\ b.app > 0 THEN start + b.app ELSE b.end
           run == IF start # 0 /\ b.run = 0 THEN start + b.pre ELSE b.run
           ran == IF b.ran # 0 THEN b.ran
                  ELSE IF run # 0 /\ b.tool > 0 THEN run + b.tool
                  ELSE IF end # 0 /\ b.post > 0 THEN Positive(end - b.post)
                  ELSE 0
           run2 == IF run = 0 /\ ran # 0 /\ b.tool > 0 THEN Positive(ran - b.tool) ELSE run
<1>1. /\ b.wall \in Nat /\ b.start \in Nat /\ b.run \in Nat /\ b.ran \in Nat
      /\ b.end \in Nat /\ b.app \in Nat /\ b.tool \in Nat /\ b.pre \in Nat
      /\ b.post \in Nat
  BY DEF Breakdowns
<1>2. start \in Nat /\ end \in Nat /\ run \in Nat
  BY <1>1
<1>3. \A x \in Int : Positive(x) \in Nat
  BY DEF Positive
<1>4. Normalised(b) = [b EXCEPT !.start = start, !.end = end, !.ran = ran, !.run = run2]
  BY DEF Normalised
<1> HIDE DEF start, end, run
<1>5. ran \in Nat
  <2>1. end - b.post \in Int /\ run + b.tool \in Nat
    BY <1>1, <1>2
  <2> QED
    BY <1>1, <1>3, <2>1
<1>6. /\ b.ran # 0 => ran = b.ran
      /\ b.ran = 0 /\ run # 0 /\ b.tool > 0 => ran = run + b.tool
  OBVIOUS
<1> HIDE DEF ran
<1>7. run2 \in Nat /\ (run # 0 => run2 = run)
  <2>1. ran - b.tool \in Int
    BY <1>1, <1>5
  <2> QED
    BY <1>2, <1>3, <2>1
<1> HIDE DEF run2
<1>8. /\ Normalised(b) \in Breakdowns
      /\ Normalised(b).wall = b.wall /\ Normalised(b).app = b.app
      /\ Normalised(b).tool = b.tool /\ Normalised(b).pre = b.pre
      /\ Normalised(b).post = b.post /\ Normalised(b).start = start
      /\ Normalised(b).end = end /\ Normalised(b).ran = ran /\ Normalised(b).run = run2
  BY <1>2, <1>4, <1>5, <1>7 DEF Breakdowns
<1> QED
  BY <1>6, <1>7, <1>8 DEF start, end, run

\* Times that a breakdown has are not derived again.
LEMMA KnownTimes ==
  ASSUME NEW b \in Breakdowns, b.start # 0, b.run # 0, b.ran # 0, b.end # 0
  PROVE  LET c == Normalised(b) IN
         /\ c.start = b.start /\ c.run = b.run /\ c.ran = b.ran /\ c.end = b.end
<1>1. b.end \in Nat /\ b.run \in Nat /\ b.app \in Nat
  BY DEF Breakdowns
<1> QED
  BY <1>1, NormalFields

\* Of the wall time and the durations alone, all times follow.
LEMMA WallTimes ==
  ASSUME NEW b \in Breakdowns, b.wall # 0, b.app > 0, b.tool > 0,
         b.start = 0, b.run = 0, b.ran = 0, b.end = 0
  PROVE  LET c == Normalised(b) IN
         /\ c.start = b.wall /\ c.run = b.wall + b.pre
         /\ c.ran = b.wall + b.pre + b.tool /\ c.end = b.wall + b.app
<1>1. b.wall \in Nat /\ b.pre \in Nat /\ b.wall + b.pre # 0
  BY DEF Breakdowns
<1> QED
  BY <1>1, NormalFields

-----------------------------------------------------------------------------
(* The report of a run.                                                     *)

LEMMA LogOf ==
  ASSUME TInv, NEW n \in Nodes, NEW i \in Logged(n)
  PROVE  /\ i \in DOMAIN log /\ log[i].call = n /\ Logged(n) = {i}
         /\ BreakdownOf(n) = log[i].payload
         /\ BreakdownOf(n) \in Breakdowns /\ BreakdownOf(n) # NoRecord
<1>1. i \in DOMAIN log /\ log[i].call = n
  BY DEF Logged
<1>2. \A j \in Logged(n) : j = i
  BY <1>1 DEF TInv, LogInv, Logged
<1>3. Logged(n) = {i}
  BY <1>2
<1>4. BreakdownOf(n) = log[i].payload
  BY <1>3 DEF BreakdownOf
<1> QED
  BY <1>1, <1>3, <1>4, EntryFacts, ReportAssumption

\* A call that has not been logged has no breakdown.
LEMMA NoLog ==
  ASSUME NEW n, Logged(n) = {}
  PROVE  BreakdownOf(n) = NoRecord
  BY DEF BreakdownOf

\* The platform's record of an answered call lies within the client's times.
LEMMA RecordFacts ==
  ASSUME TInv, NEW n \in Answered
  PROVE  LET p == RecordOf(n) IN
         /\ t[n]["sent"] \in Nat /\ t[n]["back"] \in Nat
         /\ t[n]["sent"] # 0 /\ t[n]["sent"] <= t[n]["back"]
         /\ p # NoRecord =>
              /\ p.receive \in Nat /\ p.response \in Nat
              /\ p.schedule = p.receive - t[n]["sent"] /\ p.init = p.schedule
              /\ t[n]["sent"] <= p.receive /\ p.receive <= t[n]["enter"]
              /\ t[n]["leave"] <= p.response /\ p.response <= t[n]["back"]
              /\ p.receive <= p.response
              /\ \E x \in Nat : /\ p.response - p.receive <= x
                                /\ x <= t[n]["back"] - t[n]["sent"]
                                /\ p.billed = Ceiling(x, Whole)
<1>1. n \in Nodes /\ Did(n, "back") /\ n \notin failed /\ Ordered(n)
  BY WorldFacts DEF Answered, TInv, OrderInv
<1>2. /\ t[n]["sent"] \in Nat /\ t[n]["back"] \in Nat
      /\ t[n]["enter"] \in Nat /\ t[n]["leave"] \in Nat
  BY <1>1, Times DEF TInv, Events
<1>3. /\ t[n]["sent"] # 0 /\ t[n]["sent"] <= t[n]["back"]
      /\ t[n]["sent"] <= t[n]["enter"] /\ t[n]["enter"] <= t[n]["leave"]
      /\ t[n]["leave"] <= t[n]["back"]
  BY <1>1 DEF Ordered, Did
<1> DEFINE receive == IF world.early THEN t[n]["sent"] ELSE t[n]["enter"]
           back == IF Did(n, "back") /\ t[n]["back"] >= t[n]["leave"]
                   THEN t[n]["back"] ELSE t[n]["leave"]
           response == IF world.late THEN back ELSE t[n]["leave"]
           init == receive - t[n]["sent"]
           paid == response - receive + (IF world.inclusive THEN init ELSE 0)
           r == [schedule |-> init, init |-> init,
                 receive |-> receive, response |-> response,
                 billed |-> Ceiling(paid, Whole)]
<1>4. RecordOf(n) # NoRecord => RecordOf(n) = r
  BY DEF RecordOf
<1>5. /\ receive \in Nat /\ t[n]["sent"] <= receive /\ receive <= t[n]["enter"]
      /\ response \in Nat /\ t[n]["leave"] <= response /\ response <= t[n]["back"]
  BY <1>1, <1>2, <1>3
<1>6. receive <= response
  <2> HIDE DEF receive, response
  <2> QED
    BY <1>2, <1>3, <1>5
<1>7. /\ paid \in Nat /\ response - receive <= paid
      /\ paid <= t[n]["back"] - t[n]["sent"]
  <2> HIDE DEF receive, response
  <2>1. init \in Nat
    BY <1>2, <1>5
  <2>2. paid = response - receive \/ paid = response - receive + init
    BY <1>5
  <2> QED
    BY <1>2, <1>5, <1>6, <2>1, <2>2
<1> HIDE DEF receive, response, paid
<1>8. ASSUME RecordOf(n) # NoRecord
      PROVE  /\ RecordOf(n).receive = receive /\ RecordOf(n).response = response
             /\ RecordOf(n).schedule = init /\ RecordOf(n).init = init
             /\ RecordOf(n).billed = Ceiling(paid, Whole)
  BY <1>4, <1>8
<1> QED
  BY <1>2, <1>3, <1>5, <1>6, <1>7, <1>8

\* A timed call's breakdown, as the timeline uses it, has the times of its
\* events on the wall clock that its request began with.
LEMMA TimedTimes ==
  ASSUME TInv, NEW n \in world.calls, Timed(n)
  PROVE  LET m == MetricOf(n)
             c == AppTimes(m.breakdown)
         IN  /\ m.breakdown # NoRecord /\ wall[n] \in Nat /\ wall[n] # 0
             /\ c.start = wall[n]
             /\ c.run = wall[n] + (t[n]["run"] - t[n]["enter"])
             /\ c.ran = wall[n] + (t[n]["ran"] - t[n]["enter"])
             /\ c.end = wall[n] + (t[n]["leave"] - t[n]["enter"])
<1>1. PICK i \in Logged(n) :
        \/ {"start", "run", "ran", "end"} \subseteq world.logged
        \/ world.logged = {"wall"} /\ Alone(i) /\ log[i].payload.tool > 0
  BY DEF Timed
<1>2. n \in Nodes /\ world.provider # "gateway" /\ world.provider \in Providers
  BY WorldFacts DEF Timed, TInv
<1> DEFINE b == BreakdownOf(n)
           m == MetricOf(n)
<1>3. /\ i \in DOMAIN log /\ log[i].call = n
      /\ b = log[i].payload /\ b \in Breakdowns /\ b # NoRecord
  BY <1>2, LogOf
<1>4. m.breakdown = Normalised(b)
  BY <1>2, <1>3, MetricFields DEF MetricOf
<1>5. /\ t[n]["enter"] # 0
      /\ t[n]["enter"] <= t[n]["run"] /\ t[n]["run"] <= t[n]["ran"]
      /\ t[n]["ran"] <= t[n]["leave"]
  BY <1>3, EntryFacts
<1>6. /\ t[n]["enter"] \in Nat /\ t[n]["run"] \in Nat /\ t[n]["ran"] \in Nat
      /\ t[n]["leave"] \in Nat /\ wall[n] \in Nat
  BY <1>2, Times DEF TInv, Events
<1>7. wall[n] # 0
  BY <1>2, <1>5 DEF TInv, WallInv, Did
<1>8. EntryTrue(i) /\ AppTrue(i)
  BY <1>3 DEF TInv, LogInv
<1> DEFINE run == wall[n] + (t[n]["run"] - t[n]["enter"])
           ran == wall[n] + (t[n]["ran"] - t[n]["enter"])
           end == wall[n] + (t[n]["leave"] - t[n]["enter"])
<1>9. run \in Nat /\ ran \in Nat /\ end \in Nat /\ run # 0 /\ ran # 0 /\ end # 0
  BY <1>5, <1>6, <1>7
<1>10. /\ b.wall = Noted("wall", wall[n]) /\ b.start = Noted("start", wall[n])
       /\ b.run = Noted("run", run) /\ b.ran = Noted("ran", ran)
       /\ b.end = Noted("end", end)
       /\ b.tool = t[n]["ran"] - t[n]["run"] /\ b.pre = t[n]["run"] - t[n]["enter"]
  BY <1>3, <1>8 DEF EntryTrue
<1> HIDE DEF b
<1>11. /\ Normalised(b) \in Breakdowns /\ Normalised(b).start = wall[n]
       /\ Normalised(b).run = run /\ Normalised(b).ran = ran /\ Normalised(b).end = end
  <2>1. CASE {"start", "run", "ran", "end"} \subseteq world.logged
    <3>1. b.start = wall[n] /\ b.run = run /\ b.ran = ran /\ b.end = end
      BY <1>10, <2>1 DEF Noted
    <3> HIDE DEF run, ran, end
    <3>2. Normalised(b) \in Breakdowns
      BY <1>3, NormalFields
    <3> QED
      BY <1>3, <1>7, <1>9, <3>1, <3>2, KnownTimes
  <2>2. CASE ~({"start", "run", "ran", "end"} \subseteq world.logged)
    <3>1. world.logged = {"wall"} /\ Alone(i) /\ b.tool > 0
      BY <1>1, <1>3, <2>2
    <3>2. b.wall = wall[n] /\ b.start = 0 /\ b.run = 0 /\ b.ran = 0 /\ b.end = 0
      BY <1>10, <3>1 DEF Noted
    <3>3. b.app = t[n]["leave"] - t[n]["enter"]
      BY <1>3, <1>8, <3>1 DEF AppTrue, Between
    <3>4. b.app > 0
      BY <1>5, <1>6, <1>10, <3>1, <3>3
    <3>5. /\ Normalised(b).start = wall[n] /\ Normalised(b).run = wall[n] + b.pre
          /\ Normalised(b).ran = wall[n] + b.pre + b.tool
          /\ Normalised(b).end = wall[n] + b.app
      BY <1>3, <1>7, <3>1, <3>2, <3>4, WallTimes
    <3>6. wall[n] + b.pre + b.tool = ran
      BY <1>6, <1>10
    <3>7. Normalised(b) \in Breakdowns
      BY <1>3, NormalFields
    <3> QED
      BY <1>10, <3>3, <3>5, <3>6, <3>7
  <2> QED
    BY <2>1, <2>2
<1> HIDE DEF run, ran, end, m
<1>12. /\ Normalised(Normalised(b)).start = wall[n] /\ Normalised(Normalised(b)).run = run
       /\ Normalised(Normalised(b)).ran = ran /\ Normalised(Normalised(b)).end = end
  BY <1>7, <1>9, <1>11, KnownTimes
<1>13. m.breakdown # NoRecord
  BY <1>4, <1>11, ReportAssumption
<1> QED
  BY <1>4, <1>6, <1>7, <1>12, <1>13 DEF AppTimes, run, ran, end, m

\* The spans of four times in order, and of a platform's record.
LEMMA SpansOf ==
  ASSUME NEW m, NEW w \in Nat, NEW r \in Nat, NEW a \in Nat, NEW l \in Nat,
         m.breakdown # NoRecord, w # 0, w <= r, r <= a, a <= l,
         AppTimes(m.breakdown).start = w, AppTimes(m.breakdown).run = r,
         AppTimes(m.breakdown).ran = a, AppTimes(m.breakdown).end = l
  PROVE  AppSpans(m) = {[track |-> "app",  from |-> w, to |-> l],
                        [track |-> "pre",  from |-> w, to |-> r],
                        [track |-> "tool", from |-> r, to |-> a],
                        [track |-> "post", from |-> a, to |-> l]}
<1>1. \A tr : \A x, y \in Nat : x # 0 /\ x <= y =>
        Span(tr, x, y) = {[track |-> tr, from |-> x, to |-> y]}
  BY DEF Span
<1>2. w <= l /\ r # 0 /\ a # 0
  OBVIOUS
<1> DEFINE b == AppTimes(m.breakdown)
<1>3. b.start = w /\ b.run = r /\ b.ran = a /\ b.end = l
  OBVIOUS
<1>4. AppSpans(m) = Span("app", b.start, b.end)
       \cup Span("tool", b.run, b.ran)
       \cup (IF b.start # 0 /\ b.run >= b.start THEN Span("pre", b.start, b.run) ELSE {})
       \cup (IF b.ran # 0 /\ b.end >= b.ran THEN Span("post", b.ran, b.end) ELSE {})
  BY <1>3 DEF AppSpans
<1> HIDE DEF b
<1>5. AppSpans(m) = Span("app", w, l) \cup Span("tool", r, a)
                      \cup Span("pre", w, r) \cup Span("post", a, l)
  BY <1>2, <1>3, <1>4
<1> QED
  BY <1>1, <1>2, <1>5

\* The phases of a timed call tile the time from its request to its response,
\* whatever is done to the wall clock meanwhile (_normalise_breakdown_fields,
\* _add_app_phases, _add_provider_phases).
THEOREM PhasesTile == Spec => []SpansTile
<1>1. TInv => SpansTile
  <2> SUFFICES ASSUME TInv, NEW n \in world.calls, Timed(n)
               PROVE
      LET b == MetricOf(n).breakdown
          span(track) == CHOOSE s \in AppSpans(MetricOf(n)) : s.track = track
      IN  /\ { s.track : s \in AppSpans(MetricOf(n)) } = {"app", "pre", "tool", "post"}
          /\ span("app").to - span("app").from = Between(n, "enter", "leave")
          /\ span("pre").from = span("app").from
          /\ span("tool").from = span("pre").to /\ span("post").from = span("tool").to
          /\ span("post").to = span("app").to
          /\ offset[Place(n)] = 0 =>
               \A s \in AppSpans(MetricOf(n)) \cup ProviderSpans(MetricOf(n)) :
                 t[n]["sent"] <= s.from /\ s.to <= t[n]["back"]
    BY DEF SpansTile
  <2> DEFINE m == MetricOf(n)
             s1 == t[n]["sent"]
             e1 == t[n]["enter"]
             r1 == t[n]["run"]
             a1 == t[n]["ran"]
             l1 == t[n]["leave"]
             b1 == t[n]["back"]
             w == wall[n]
             span(track) == CHOOSE s \in AppSpans(m) : s.track = track
  <2>1. n \in Nodes /\ n \in Answered /\ Did(n, "back") /\ n \notin failed /\ Ordered(n)
    BY WorldFacts DEF Timed, Answered, TInv, OrderInv
  <2>2. PICK i \in DOMAIN log : log[i].call = n
    BY DEF Timed, Logged
  <2>3. /\ s1 <= e1 /\ e1 <= r1 /\ r1 <= a1 /\ a1 <= l1 /\ l1 <= b1
    BY <2>1, <2>2, EntryFacts DEF Ordered
  <2>4. s1 \in Nat /\ e1 \in Nat /\ r1 \in Nat /\ a1 \in Nat /\ l1 \in Nat /\ b1 \in Nat
    BY <2>1, Times DEF TInv, Events
  <2>5. /\ m.breakdown # NoRecord /\ w \in Nat /\ w # 0
        /\ AppTimes(m.breakdown).start = w
        /\ AppTimes(m.breakdown).run = w + (r1 - e1)
        /\ AppTimes(m.breakdown).ran = w + (a1 - e1)
        /\ AppTimes(m.breakdown).end = w + (l1 - e1)
    BY TimedTimes
  <2>6. PICK r, a, l : r = w + (r1 - e1) /\ a = w + (a1 - e1) /\ l = w + (l1 - e1)
    OBVIOUS
  <2>7. offset[Place(n)] = 0 => w = e1
    <3>1. Did(n, "enter")
      BY <2>2, EntryFacts DEF Did
    <3> QED
      BY <2>1, <3>1 DEF TInv, WallInv
  <2>8. ProviderSpans(m) \subseteq {[track |-> "provider", from |-> m.receive,
                                     to |-> m.response]}
        /\ (m.receive = 0 => ProviderSpans(m) = {})
    BY DEF ProviderSpans, Span
  <2>9. m.receive # 0 => s1 <= m.receive /\ m.response <= b1
    <3> DEFINE p == RecordOf(n)
    <3>1. world.provider \in Providers
      BY WorldFacts DEF TInv
    <3>2. m = Metric(world.provider, [sent |-> s1, back |-> b1], p, BreakdownOf(n))
      BY DEF MetricOf
    <3>3. /\ p # NoRecord => s1 <= p.receive /\ p.response <= b1
      BY <2>1, RecordFacts
    <3> HIDE DEF m, p, s1, b1
    <3>4. m.receive # 0 => p # NoRecord /\ m.receive = p.receive /\ m.response = p.response
      BY <3>1, <3>2, MetricFields
    <3> QED
      BY <3>3, <3>4
  <2> HIDE DEF m, s1, e1, r1, a1, l1, b1, w
  <2>10. /\ r \in Nat /\ a \in Nat /\ l \in Nat /\ w <= r /\ r <= a /\ a <= l
         /\ l - w = l1 - e1
    BY <2>3, <2>4, <2>5, <2>6
  <2>11. AppSpans(m) = {[track |-> "app",  from |-> w, to |-> l],
                        [track |-> "pre",  from |-> w, to |-> r],
                        [track |-> "tool", from |-> r, to |-> a],
                        [track |-> "post", from |-> a, to |-> l]}
    BY <2>5, <2>6, <2>10, SpansOf
  <2>12. /\ span("app") = [track |-> "app",  from |-> w, to |-> l]
         /\ span("pre") = [track |-> "pre",  from |-> w, to |-> r]
         /\ span("tool") = [track |-> "tool", from |-> r, to |-> a]
         /\ span("post") = [track |-> "post", from |-> a, to |-> l]
    BY <2>11
  <2>13. { s.track : s \in AppSpans(m) } = {"app", "pre", "tool", "post"}
    BY <2>11
  <2>14. Between(n, "enter", "leave") = l1 - e1
    BY DEF Between, l1, e1
  <2>15. ASSUME offset[Place(n)] = 0
         PROVE  \A s \in AppSpans(m) \cup ProviderSpans(m) : s1 <= s.from /\ s.to <= b1
    <3>1. w = e1 /\ s1 <= w /\ l <= b1
      BY <2>3, <2>4, <2>6, <2>7, <2>10, <2>15
    <3>2. s1 <= r /\ s1 <= a /\ r <= b1 /\ a <= b1
      BY <2>3, <2>4, <2>5, <2>10, <3>1
    <3>3. \A s \in AppSpans(m) : s1 <= s.from /\ s.to <= b1
      BY <2>11, <3>1, <3>2
    <3>4. \A s \in ProviderSpans(m) : s1 <= s.from /\ s.to <= b1
      BY <2>8, <2>9
    <3> QED
      BY <3>3, <3>4
  <2> HIDE DEF span
  <2>16. /\ span("app").to - span("app").from = Between(n, "enter", "leave")
         /\ span("pre").from = span("app").from
         /\ span("tool").from = span("pre").to /\ span("post").from = span("tool").to
         /\ span("post").to = span("app").to
    BY <2>10, <2>12, <2>14
  <2> QED
    BY <2>13, <2>15, <2>16 DEF span, m, s1, b1
<1> QED
  BY <1>1, TimingInvariant, PTL

\* The platforms' rounding is up, and keeps the order.
LEMMA CeilingFacts ==
  ASSUME NEW grain \in Nat \ {0}, NEW x \in Nat, NEW y \in Nat, x <= y
  PROVE  /\ Ceiling(x, grain) \in Int /\ Ceiling(y, grain) \in Int
         /\ x <= Ceiling(x, grain) /\ Ceiling(x, grain) <= Ceiling(y, grain)
<1>1. grain \in Nat /\ grain > 0
  OBVIOUS
<1>2. \A g \in Nat : g > 0 => \A u \in Int :
        u \div g \in Int /\ g * (u \div g) <= u /\ u < g * (u \div g) + g
  OBVIOUS
<1> DEFINE u == x + grain - 1
           v == y + grain - 1
<1>3. u \in Int /\ v \in Int /\ u <= v
  BY <1>1
<1>4. PICK p, q : p = u \div grain /\ q = v \div grain
  OBVIOUS
<1>5. /\ p \in Int /\ q \in Int
      /\ grain * p <= u /\ u < grain * p + grain
      /\ grain * q <= v /\ v < grain * q + grain
  BY <1>1, <1>2, <1>3, <1>4
<1>6. \A g \in Nat, c \in Int, d \in Int : c >= d + 1 => g * c >= g * d + g
  <2>1. \A g \in Nat, k \in Nat : g * k >= 0
    OBVIOUS
  <2>2. \A g \in Nat, c \in Int, d \in Int : g * c = g * d + g + g * (c - d - 1)
    OBVIOUS
  <2>3. \A g \in Nat, c \in Int, d \in Int :
          c >= d + 1 => /\ c - d - 1 \in Nat /\ g * d \in Int
                        /\ g * c = g * d + g + g * (c - d - 1)
                        /\ g * (c - d - 1) >= 0 /\ g * (c - d - 1) \in Int
    BY <2>1, <2>2
  <2> QED
    BY <2>3
<1>7. \A g \in Nat, c \in Int, d \in Int : c <= d => g * c <= g * d
  <2>1. \A g \in Nat, k \in Nat : g * k >= 0
    OBVIOUS
  <2>2. \A g \in Nat, c \in Int, d \in Int : g * d = g * c + g * (d - c)
    OBVIOUS
  <2>3. \A g \in Nat, c \in Int, d \in Int :
          c <= d => /\ d - c \in Nat /\ g * c \in Int
                    /\ g * d = g * c + g * (d - c)
                    /\ g * (d - c) >= 0 /\ g * (d - c) \in Int
    BY <2>1, <2>2
  <2> QED
    BY <2>3
<1>8. grain * p \in Int /\ grain * q \in Int
  BY <1>1, <1>5
<1>9. p <= q
  <2>1. p >= q + 1 => grain * p >= grain * q + grain
    BY <1>1, <1>5, <1>6
  <2> QED
    BY <1>1, <1>3, <1>5, <1>8, <2>1
<1>10. grain * p <= grain * q
  BY <1>1, <1>5, <1>7, <1>9
<1>11. \A g \in Nat, c \in Int : c * g = g * c
  OBVIOUS
<1>12. Ceiling(x, grain) = grain * p /\ Ceiling(y, grain) = grain * q
  BY <1>1, <1>4, <1>5, <1>11 DEF Ceiling
<1> QED
  BY <1>1, <1>5, <1>8, <1>10, <1>12

\* What an answered call's metric knows of its times.
LEMMA MetricTimes ==
  ASSUME TInv, NEW n \in Answered
  PROVE  LET m == MetricOf(n)
             served == Between(n, "enter", "leave")
         IN  /\ Tool(m) \in Nat /\ App(m) \in Nat /\ served \in Nat
             /\ Tool(m) <= served
             /\ App(m) > 0 /\ (\A i \in Logged(n) : Alone(i)) =>
                  /\ m.breakdown # NoRecord
                  /\ App(m) = served /\ Tool(m) <= App(m)
<1> DEFINE b == BreakdownOf(n)
           m == MetricOf(n)
           served == Between(n, "enter", "leave")
<1>1. /\ n \in Nodes /\ Ordered(n) /\ Did(n, "back") /\ n \notin failed
      /\ world.provider \in Providers
  BY WorldFacts DEF Answered, TInv, OrderInv
<1>2. t[n]["enter"] \in Nat /\ t[n]["leave"] \in Nat /\ t[n]["run"] \in Nat
      /\ t[n]["ran"] \in Nat
  BY <1>1, Times DEF TInv, Events
<1>3. served = t[n]["leave"] - t[n]["enter"] /\ served \in Nat
  BY <1>1, <1>2 DEF Ordered, Between, Did
<1>4. m.breakdown = IF b = NoRecord \/ world.provider = "gateway" THEN NoRecord
                    ELSE Normalised(b)
  BY <1>1, MetricFields DEF MetricOf
<1> HIDE DEF m, served
<1> SUFFICES /\ Tool(m) \in Nat /\ App(m) \in Nat /\ served \in Nat
             /\ Tool(m) <= served
             /\ App(m) > 0 /\ (\A i \in Logged(n) : Alone(i)) =>
                  /\ m.breakdown # NoRecord
                  /\ App(m) = served /\ Tool(m) <= App(m)
  BY DEF m, served
<1>5. CASE m.breakdown = NoRecord
  BY <1>3, <1>5 DEF Tool, App
<1>6. CASE m.breakdown # NoRecord
  <2>1. b # NoRecord /\ m.breakdown = Normalised(b)
    BY <1>4, <1>6
  <2>2. PICK i \in Logged(n) : TRUE
    BY <2>1, NoLog
  <2>3. i \in DOMAIN log /\ log[i].call = n /\ b = log[i].payload /\ b \in Breakdowns
    BY <1>1, LogOf
  <2>4. EntryTrue(i) /\ AppTrue(i)
    BY <2>3 DEF TInv, LogInv
  <2>5. b.tool = t[n]["ran"] - t[n]["run"] /\ (Alone(i) => b.app = served)
    BY <2>3, <2>4 DEF EntryTrue, AppTrue, served
  <2>6. t[n]["enter"] <= t[n]["run"] /\ t[n]["run"] <= t[n]["ran"]
        /\ t[n]["ran"] <= t[n]["leave"]
    BY <2>3, EntryFacts
  <2>7. b.app \in Nat /\ b.tool \in Nat
    BY <2>3 DEF Breakdowns
  <2> HIDE DEF b
  <2>8. App(m) = b.app /\ Tool(m) = b.tool
    BY <1>6, <2>1, <2>3, NormalFields DEF App, Tool
  <2>9. Tool(m) <= served
    BY <1>2, <1>3, <2>5, <2>6, <2>8
  <2> QED
    BY <1>3, <1>6, <2>2, <2>5, <2>7, <2>8, <2>9
<1> QED
  BY <1>5, <1>6

\* The row of an answered call leaves out nothing of its time and counts
\* nothing twice, and its charge is for at least its tool and at most the
\* client's time, rounded up, with a Lambda call's initialisation on top
\* (ReportAggregator, the pricing policies).
THEOREM RowsAddUp == Spec => []TimesAddUp
<1>1. TInv => TimesAddUp
  <2> SUFFICES ASSUME TInv, NEW n \in Answered
               PROVE
      LET m == MetricOf(n)
          billed == Billed(world.provider, m)
          most == CASE world.provider = "gcp"    -> Ceiling(m.client, Grain)
                    [] world.provider = "lambda" -> Ceiling(m.client, Whole) + m.init
                    [] OTHER                     -> m.client
      IN  /\ Compute(m) + m.init + Idle([begin |-> t[n]["begin"], over |-> t[n]["over"]], m)
               = Between(n, "begin", "over")
          /\ App(m) > 0 /\ (\A i \in Logged(n) : Alone(i)) =>
               /\ App(m) + Platform(m) = Between(n, "sent", "back")
               /\ Tool(m) + Framework(m) = App(m)
          /\ world.provider \in {"ali", "lambda", "gcp"} =>
               /\ "request" \in Categories(world.provider, m)
               /\ Tool(m) > 0 => "memory" \in Categories(world.provider, m)
               /\ Tool(m) <= billed
               /\ billed <= most
    BY DEF TimesAddUp
  <2> DEFINE m == MetricOf(n)
             p == RecordOf(n)
             o == [sent |-> t[n]["sent"], back |-> t[n]["back"]]
             node == [begin |-> t[n]["begin"], over |-> t[n]["over"]]
             sent == t[n]["sent"]
             back == t[n]["back"]
             begin == t[n]["begin"]
             over == t[n]["over"]
             served == Between(n, "enter", "leave")
             provider == world.provider
             found == p # NoRecord /\ provider \in {"ali", "lambda", "gcp"}
             span == p.response - p.receive
             most == CASE provider = "gcp"    -> Ceiling(m.client, Grain)
                       [] provider = "lambda" -> Ceiling(m.client, Whole) + m.init
                       [] OTHER               -> m.client
  <2>1. /\ n \in Nodes /\ Ordered(n) /\ Did(n, "back") /\ n \notin failed
        /\ provider \in Providers
    BY WorldFacts DEF Answered, TInv, OrderInv
  <2>2. /\ begin \in Nat /\ over \in Nat /\ t[n]["enter"] \in Nat /\ t[n]["leave"] \in Nat
    BY <2>1, Times DEF TInv, Events
  <2>3. /\ sent \in Nat /\ back \in Nat /\ sent <= back
        /\ p # NoRecord =>
             /\ p.receive \in Nat /\ p.response \in Nat
             /\ p.schedule = p.receive - sent /\ p.init = p.schedule
             /\ sent <= p.receive /\ p.response <= back /\ p.receive <= p.response
             /\ p.receive <= t[n]["enter"] /\ t[n]["leave"] <= p.response
             /\ \E x \in Nat : /\ p.response - p.receive <= x /\ x <= back - sent
                               /\ p.billed = Ceiling(x, Whole)
    BY RecordFacts
  <2>4. begin <= sent /\ over = back
    BY <2>1 DEF Ordered, Did
  <2>5. /\ Tool(m) \in Nat /\ App(m) \in Nat /\ served \in Nat /\ Tool(m) <= served
        /\ App(m) > 0 /\ (\A i \in Logged(n) : Alone(i)) =>
             /\ m.breakdown # NoRecord
             /\ App(m) = served /\ Tool(m) <= App(m)
    BY MetricTimes
  <2>6. served = t[n]["leave"] - t[n]["enter"]
    BY DEF Between
  <2>7. /\ t[n]["sent"] <= t[n]["enter"] /\ t[n]["leave"] <= t[n]["back"]
    BY <2>1 DEF Ordered, Did
  <2>8. served <= back - sent
    BY <2>2, <2>3, <2>6, <2>7
  <2>9. m = Metric(provider, o, p, BreakdownOf(n))
    BY DEF MetricOf
  <2>10. o.sent = sent /\ o.back = back
    OBVIOUS
  <2>11. Between(n, "begin", "over") = over - begin /\ Between(n, "sent", "back") = back - sent
         /\ node.begin = begin /\ node.over = over
    BY DEF Between
  <2> HIDE DEF m, p, o, node, sent, back, begin, over, served, provider
  <2>12. /\ m.client = back - sent
         /\ m.billed = IF found /\ provider = "lambda" THEN p.billed ELSE 0
         /\ m.init = IF found /\ provider = "lambda" THEN p.init ELSE 0
         /\ m.elapsed = IF found THEN span ELSE back - sent
         /\ m.duration = IF found THEN span
                         ELSE IF provider \in {"agentcore", "gcp"} THEN back - sent ELSE 0
         /\ m.active = IF found /\ provider = "ali"
                       THEN p.schedule + p.response - p.receive ELSE 0
    BY <2>1, <2>9, <2>10, MetricFields
  <2>13. /\ m.client \in Nat /\ m.init \in Nat /\ m.elapsed \in Nat
         /\ m.duration \in Nat /\ m.active \in Nat
         /\ served <= m.elapsed /\ m.elapsed + m.init <= m.client
         /\ served + m.init <= m.client
         /\ m.duration = 0 \/ m.duration = m.elapsed
         /\ m.active = 0 \/ (m.active <= m.client /\ served <= m.active)
         /\ m.active # 0 \/ m.elapsed <= m.client
         /\ m.elapsed <= m.client
         /\ m.billed = 0 \/ \E x \in Nat : /\ m.elapsed <= x /\ x <= m.client
                                          /\ m.billed = Ceiling(x, Whole)
    <3>1. CASE found
      <4>1. /\ p.receive \in Nat /\ p.response \in Nat
            /\ p.schedule = p.receive - sent /\ p.init = p.receive - sent
            /\ sent <= p.receive /\ p.response <= back /\ p.receive <= p.response
            /\ p.receive <= t[n]["enter"] /\ t[n]["leave"] <= p.response
        BY <2>3, <3>1
      <4>2. span \in Nat /\ served <= span /\ span + (p.receive - sent) <= back - sent
            /\ p.receive - sent \in Nat /\ span <= back - sent
        BY <2>2, <2>3, <2>6, <4>1
      <4>3. /\ m.client = back - sent
            /\ m.init = (IF provider = "lambda" THEN p.receive - sent ELSE 0)
            /\ m.elapsed = span /\ m.duration = span
            /\ m.active = IF provider = "ali"
                          THEN (p.receive - sent) + p.response - p.receive ELSE 0
        BY <2>12, <3>1, <4>1
      <4>4. (p.receive - sent) + p.response - p.receive = span + (p.receive - sent)
        BY <2>3, <4>1
      <4>5. PICK x \in Nat : span <= x /\ x <= back - sent /\ p.billed = Ceiling(x, Whole)
        BY <2>3, <3>1
      <4>6. m.billed = 0 \/ m.billed = Ceiling(x, Whole)
        BY <2>12, <4>5
      <4> HIDE DEF span, found
      <4>7. m.billed = 0 \/ \E y \in Nat : /\ m.elapsed <= y /\ y <= m.client
                                           /\ m.billed = Ceiling(y, Whole)
        BY <4>3, <4>5, <4>6
      <4> QED
        BY <2>3, <2>5, <4>2, <4>3, <4>4, <4>7
    <3>2. CASE ~found
      BY <2>3, <2>5, <2>8, <2>12, <3>2
    <3> QED
      BY <3>1, <3>2
  <2>14. Compute(m) + m.init + Idle(node, m) = Between(n, "begin", "over")
    <3>1. Compute(m) \in Nat /\ Compute(m) + m.init <= m.client
      <4>1. Tool(m) + m.init <= m.client
        BY <2>5, <2>13
      <4>2. m.duration > 0 => m.duration = m.elapsed
        BY <2>13
      <4> QED
        BY <2>5, <2>13, <4>1, <4>2 DEF Compute
    <3>2. m.client <= over - begin
      BY <2>2, <2>3, <2>4, <2>12
    <3>3. over - begin - Compute(m) - m.init >= 0
      BY <2>2, <2>13, <3>1, <3>2
    <3>4. Idle(node, m) = over - begin - Compute(m) - m.init
      BY <2>2, <2>11, <2>13, <3>1, <3>3 DEF Idle, Positive
    <3> QED
      BY <2>2, <2>11, <2>13, <3>1, <3>4
  <2>15. ASSUME App(m) > 0, \A i \in Logged(n) : Alone(i)
         PROVE  /\ App(m) + Platform(m) = Between(n, "sent", "back")
                /\ Tool(m) + Framework(m) = App(m)
    <3>1. m.breakdown # NoRecord /\ App(m) = served /\ Tool(m) <= App(m)
      BY <2>5, <2>15
    <3>2. m.client > 0 /\ App(m) <= m.client /\ m.client = back - sent
      BY <2>5, <2>12, <2>13, <2>15, <3>1
    <3>3. \A x \in Int : x >= 0 => Positive(x) = x
      BY DEF Positive
    <3>4. Platform(m) = m.client - App(m)
      BY <2>5, <2>13, <2>15, <3>2, <3>3 DEF Platform
    <3>5. Framework(m) = App(m) - Tool(m)
      BY <2>5, <3>1, <3>3 DEF Framework
    <3> QED
      BY <2>5, <2>11, <2>13, <3>2, <3>4, <3>5
  <2>16. ASSUME provider \in {"ali", "lambda", "gcp"}
         PROVE  /\ "request" \in Categories(provider, m)
                /\ Tool(m) > 0 => "memory" \in Categories(provider, m)
                /\ Tool(m) <= Billed(provider, m)
                /\ Billed(provider, m) <= most
    <3>1. CASE provider = "ali"
      <4>1. Billed(provider, m) = IF m.active > 0 THEN m.active ELSE m.elapsed
        BY <3>1 DEF Billed
      <4>2. Billed(provider, m) \in Nat /\ served <= Billed(provider, m)
            /\ Billed(provider, m) <= m.client
        BY <2>13, <4>1
      <4>4. most = m.client
        BY <3>1
      <4>3. "request" \in Categories(provider, m)
            /\ (Billed(provider, m) > 0 => "memory" \in Categories(provider, m))
        BY <3>1 DEF Categories
      <4> HIDE DEF most
      <4> QED
        BY <2>5, <4>2, <4>3, <4>4
    <3>2. CASE provider = "lambda"
      <4>1. Billed(provider, m) = (IF m.billed > 0 THEN m.billed ELSE m.elapsed) + m.init
        BY <3>2 DEF Billed
      <4>3. most = Ceiling(m.client, Whole) + m.init
        BY <3>2
      <4>4. Whole \in Nat \ {0}
        BY ReportAssumption
      <4>5. Ceiling(m.client, Whole) \in Int /\ m.client <= Ceiling(m.client, Whole)
        BY <2>13, <4>4, CeilingFacts
      <4>6. m.billed > 0 => /\ m.billed \in Int /\ m.elapsed <= m.billed
                            /\ m.billed <= Ceiling(m.client, Whole)
        <5> SUFFICES ASSUME m.billed > 0
                     PROVE  /\ m.billed \in Int /\ m.elapsed <= m.billed
                            /\ m.billed <= Ceiling(m.client, Whole)
          OBVIOUS
        <5>1. PICK x \in Nat : /\ m.elapsed <= x /\ x <= m.client
                               /\ m.billed = Ceiling(x, Whole)
          BY <2>13
        <5>2. /\ Ceiling(x, Whole) \in Int /\ x <= Ceiling(x, Whole)
              /\ Ceiling(x, Whole) <= Ceiling(m.client, Whole)
          BY <2>13, <4>4, <5>1, CeilingFacts
        <5> QED
          BY <2>13, <5>1, <5>2
      <4> DEFINE paid == IF m.billed > 0 THEN m.billed ELSE m.elapsed
      <4>7. /\ paid \in Int /\ m.elapsed <= paid /\ paid <= Ceiling(m.client, Whole)
        BY <2>13, <4>5, <4>6
      <4> HIDE DEF most, paid
      <4>8. Billed(provider, m) = paid + m.init
        BY <4>1 DEF paid
      <4>2. "request" \in Categories(provider, m) /\ "memory" \in Categories(provider, m)
        BY <3>2 DEF Categories
      <4> QED
        BY <2>5, <2>13, <4>2, <4>3, <4>5, <4>7, <4>8
    <3>3. CASE provider = "gcp"
      <4>1. Billed(provider, m) = Ceiling(m.elapsed, Grain)
        BY <3>3 DEF Billed
      <4>2. m.elapsed <= m.client
        BY <2>13
      <4>3. /\ Ceiling(m.elapsed, Grain) \in Int /\ Ceiling(m.client, Grain) \in Int
            /\ m.elapsed <= Ceiling(m.elapsed, Grain)
            /\ Ceiling(m.elapsed, Grain) <= Ceiling(m.client, Grain)
        BY <2>13, <4>2, CeilingFacts, ReportAssumption
      <4>4. "request" \in Categories(provider, m) /\ "memory" \in Categories(provider, m)
        BY <3>3 DEF Categories
      <4>5. Tool(m) <= Ceiling(m.elapsed, Grain)
        BY <2>5, <2>13, <4>3
      <4>6. most = Ceiling(m.client, Grain)
        BY <3>3
      <4> HIDE DEF most
      <4> QED
        BY <4>1, <4>3, <4>4, <4>5, <4>6
    <3> QED
      BY <2>16, <3>1, <3>2, <3>3
  <2> QED
    BY <2>14, <2>15, <2>16 DEF m, node, provider, most
<1> QED
  BY <1>1, TimingInvariant, PTL

-----------------------------------------------------------------------------
(* Lanes.                                                                   *)

Intervals == [id : Nat, from : Nat, to : Nat]

LEMMA LeastExists ==
  ASSUME NEW S \in SUBSET Nat, S # {}
  PROVE  \E x \in S : \A y \in S : x <= y
<1> SUFFICES ASSUME ~(\E x \in S : \A y \in S : x <= y) PROVE FALSE
  OBVIOUS
<1> DEFINE T == { k \in Nat : \A j \in 0 .. k : j \notin S }
<1>1. 0 \in T
  <2>1. 0 \notin S
    OBVIOUS
  <2> QED
    BY <2>1
<1>2. ASSUME NEW k \in Nat, k \in T PROVE k + 1 \in T
  <2>1. \A j \in 0 .. k : j \notin S
    BY <1>2
  <2>2. k + 1 \notin S
    <3>1. \A y \in S : ~(y <= k)
      BY <2>1
    <3>2. \A y \in S : k + 1 <= y
      BY <3>1
    <3> QED
      BY <3>2
  <2>3. \A j \in 0 .. k + 1 : j \in 0 .. k \/ j = k + 1
    OBVIOUS
  <2> QED
    BY <2>1, <2>2, <2>3
<1>3. Nat \subseteq T
  <2> HIDE DEF T
  <2> QED
    BY <1>1, <1>2, Induction
<1>4. \A y \in S : y \in T /\ y \in 0 .. y
  BY <1>3
<1> QED
  BY <1>4

\* There is a first of some intervals: the loop has one to take.
LEMMA FirstExists ==
  ASSUME NEW D \in SUBSET Intervals, D # {}, \A i, j \in D : i.id = j.id => i = j
  PROVE  First(D) \in D
<1> DEFINE F == { i.from : i \in D }
<1>0. \A i \in D : i.id \in Nat /\ i.from \in Nat /\ i.to \in Nat
  BY DEF Intervals
<1>1. PICK f \in F : \A y \in F : f <= y
  <2>1. F \in SUBSET Nat /\ F # {}
    BY <1>0
  <2> HIDE DEF F
  <2> QED
    BY <2>1, LeastExists
<1> DEFINE T == { i.to : i \in { j \in D : j.from = f } }
<1>2. T \in SUBSET Nat /\ T # {}
  BY <1>0
<1>3. PICK e \in T : \A y \in T : e <= y
  <2> HIDE DEF T
  <2> QED
    BY <1>2, LeastExists
<1> DEFINE I == { i.id : i \in { j \in D : j.from = f /\ j.to = e } }
<1>4. I \in SUBSET Nat /\ I # {}
  BY <1>0
<1>5. PICK d \in I : \A y \in I : d <= y
  <2> HIDE DEF I
  <2> QED
    BY <1>4, LeastExists
<1>6. PICK i \in D : i.from = f /\ i.to = e /\ i.id = d
  OBVIOUS
<1>7. ASSUME NEW j \in D, j # i PROVE Earlier(i, j)
  <2>1. j.from \in Nat /\ f \in Nat /\ f <= j.from
    BY <1>0, <1>1
  <2>2. j.from = f => j.to \in Nat /\ e \in Nat /\ e <= j.to
    BY <1>0, <1>3
  <2>3. j.from = f /\ j.to = e => j.id \in Nat /\ d \in Nat /\ d <= j.id
    BY <1>0, <1>5
  <2>4. j.id # d
    BY <1>6, <1>7
  <2> HIDE DEF F, T, I
  <2> QED
    BY <1>6, <2>1, <2>2, <2>3, <2>4 DEF Earlier
<1>8. \E x \in D : \A j \in D \ {x} : Earlier(x, j)
  BY <1>7
<1> QED
  BY <1>8 DEF First

\* After some rounds: the intervals of a lane do not overlap, and the lane
\* ends with the last of them.
LanesGood(was, known) ==
  /\ was.left \subseteq known
  /\ was.ends \in Seq(Nat)
  /\ DOMAIN was.lane = { i.id : i \in known \ was.left }
  /\ \A i \in known \ was.left :
       /\ was.lane[i.id] \in DOMAIN was.ends
       /\ i.to <= was.ends[was.lane[i.id]]
  /\ \A i, j \in known \ was.left :
       i # j /\ was.lane[i.id] = was.lane[j.id] => Apart(i.from, i.to, j.from, j.to)

LEMMA NextLaneGood ==
  ASSUME NEW known \in SUBSET Intervals, \A i, j \in known : i.id = j.id => i = j,
         NEW was, LanesGood(was, known), was.left # {}
  PROVE  /\ LanesGood(NextLane(was), known)
         /\ First(was.left) \in was.left
         /\ NextLane(was).left = was.left \ {First(was.left)}
<1>1. PICK i : i = First(was.left)
  OBVIOUS
<1>2. i \in was.left /\ i \in known
  BY <1>1, FirstExists DEF LanesGood
<1>3. /\ \A j \in known : j.id \in Nat /\ j.from \in Nat /\ j.to \in Nat
      /\ i.id \in Nat /\ i.from \in Nat /\ i.to \in Nat
  BY <1>2 DEF Intervals
<1>4. PICK end : end = Max({i.from, i.to})
  OBVIOUS
<1>5. end \in Nat /\ i.to <= end
  <2>1. Max({i.from, i.to}) = IF i.from >= i.to THEN i.from ELSE i.to
    BY <1>3, MaxOfTwo
  <2> QED
    BY <1>3, <1>4, <2>1
<1> DEFINE free == { l \in DOMAIN was.ends : Free(i, was.ends[l]) }
<1>6. PICK lane : lane = IF free = {} THEN Len(was.ends) + 1 ELSE Min(free)
  OBVIOUS
<1>7. PICK ends : ends = IF free = {} THEN Append(was.ends, end)
                         ELSE [was.ends EXCEPT ![lane] = end]
  OBVIOUS
<1>8. PICK new : new = [id \in DOMAIN was.lane \cup {i.id} |->
                          IF id = i.id THEN lane ELSE was.lane[id]]
  OBVIOUS
<1>9. NextLane(was) = [left |-> was.left \ {i}, ends |-> ends, lane |-> new]
  BY <1>1, <1>4, <1>6, <1>7, <1>8 DEF NextLane
<1>10. was.ends \in Seq(Nat) /\ Len(was.ends) \in Nat
       /\ DOMAIN was.ends = 1 .. Len(was.ends)
  BY DEF LanesGood
<1>11. /\ ends \in Seq(Nat) /\ lane \in DOMAIN ends /\ ends[lane] = end
       /\ DOMAIN was.ends \subseteq DOMAIN ends
       /\ \A l \in DOMAIN was.ends : l # lane => ends[l] = was.ends[l]
       /\ lane \in DOMAIN was.ends => was.ends[lane] <= i.from
  <2>1. CASE free = {}
    <3>1. lane = Len(was.ends) + 1 /\ ends = Append(was.ends, end)
      BY <1>6, <1>7, <2>1
    <3> QED
      BY <1>5, <1>10, <3>1
  <2>2. CASE free # {}
    <3>1. \E l \in free : \A k \in free : l <= k
      <4>1. free \in SUBSET Nat
        BY <1>10
      <4> HIDE DEF free
      <4> QED
        BY <2>2, <4>1, LeastExists
    <3>2. lane \in free /\ ends = [was.ends EXCEPT ![lane] = end]
      BY <1>6, <1>7, <2>2, <3>1 DEF Min
    <3>3. lane \in DOMAIN was.ends /\ was.ends[lane] <= i.from
      <4>1. was.ends[lane] \in Nat
        BY <1>10, <3>2
      <4> QED
        BY <1>3, <3>2, <4>1 DEF Free
    <3>4. \A s \in Seq(Nat) : \A l \in DOMAIN s : \A x \in Nat :
            /\ [s EXCEPT ![l] = x] \in Seq(Nat)
            /\ DOMAIN [s EXCEPT ![l] = x] = DOMAIN s
            /\ [s EXCEPT ![l] = x][l] = x
            /\ \A k \in DOMAIN s : k # l => [s EXCEPT ![l] = x][k] = s[k]
      OBVIOUS
    <3> HIDE DEF free
    <3> QED
      BY <1>5, <1>10, <3>2, <3>3, <3>4
  <2> QED
    BY <2>1, <2>2
<1> HIDE DEF free
<1> DEFINE placed == known \ was.left
<1>12. known \ (was.left \ {i}) = placed \cup {i} /\ i \notin placed
  BY <1>2
<1>13. /\ DOMAIN was.lane = { j.id : j \in placed }
       /\ \A j \in placed : /\ was.lane[j.id] \in DOMAIN was.ends
                            /\ j.to <= was.ends[was.lane[j.id]]
       /\ \A j, k \in placed :
            j # k /\ was.lane[j.id] = was.lane[k.id] => Apart(j.from, j.to, k.from, k.to)
       /\ was.left \subseteq known /\ placed \subseteq known
  BY DEF LanesGood
<1>14. DOMAIN new = { j.id : j \in placed \cup {i} }
  BY <1>8, <1>13
<1>15. new[i.id] = lane /\ \A j \in placed : new[j.id] = was.lane[j.id]
  <2>1. \A j \in placed : j.id # i.id /\ j.id \in DOMAIN was.lane
    BY <1>2, <1>12, <1>13
  <2> QED
    BY <1>8, <2>1
<1> HIDE DEF placed
<1>16. \A l \in DOMAIN was.ends : was.ends[l] \in Nat
  BY <1>10
<1>17. ASSUME NEW j \in placed
       PROVE  new[j.id] \in DOMAIN ends /\ j.to <= ends[new[j.id]]
  <2>1. /\ new[j.id] \in DOMAIN was.ends /\ j.to <= was.ends[new[j.id]]
        /\ j.to \in Nat
    BY <1>3, <1>13, <1>15
  <2>2. CASE new[j.id] = lane
    <3>1. j.to <= end
      <4>1. was.ends[lane] \in Nat /\ was.ends[lane] <= i.from /\ i.from <= end
        <5>1. Max({i.from, i.to}) >= i.from
          BY <1>3, MaxOfTwo
        <5> QED
          BY <1>4, <1>11, <1>16, <2>1, <2>2, <5>1
      <4> QED
        BY <1>3, <1>5, <2>1, <2>2, <4>1
    <3> QED
      BY <1>11, <2>2, <3>1
  <2>3. CASE new[j.id] # lane
    BY <1>11, <2>1, <2>3
  <2> QED
    BY <2>2, <2>3
<1>18. ASSUME NEW j \in placed, new[j.id] = lane
       PROVE  j.to <= i.from
  <2>1. was.lane[j.id] = lane /\ lane \in DOMAIN was.ends /\ j.to <= was.ends[lane]
    BY <1>13, <1>15, <1>18
  <2>2. was.ends[lane] \in Nat /\ was.ends[lane] <= i.from /\ j.to \in Nat
    BY <1>3, <1>11, <1>13, <1>16, <2>1
  <2> QED
    BY <1>3, <2>1, <2>2
<1>19. \A j, k \in placed \cup {i} :
         j # k /\ new[j.id] = new[k.id] => Apart(j.from, j.to, k.from, k.to)
  BY <1>13, <1>15, <1>18 DEF Apart
<1>20. \A j \in placed \cup {i} : new[j.id] \in DOMAIN ends /\ j.to <= ends[new[j.id]]
  BY <1>5, <1>11, <1>15, <1>17
<1>21. was.left \ {i} \subseteq known
  BY <1>13
<1>22. LanesGood([left |-> was.left \ {i}, ends |-> ends, lane |-> new], known)
  BY <1>11, <1>12, <1>14, <1>19, <1>20, <1>21 DEF LanesGood
<1> QED
  BY <1>1, <1>2, <1>9, <1>22

\* The loop over the known intervals, as far as round m.
LaneLoop(f, known, m) ==
  f = [k \in 0 .. m |-> IF k = 0 THEN [left |-> known, ends |-> <<>>, lane |-> <<>>]
                        ELSE NextLane(f[k - 1])]

LEMMA LaneLoopExists ==
  ASSUME NEW known, NEW m \in Nat
  PROVE  \E f : LaneLoop(f, known, m)
<1> DEFINE zero == [left |-> known, ends |-> <<>>, lane |-> <<>>]
           S == { k \in Nat : \E f : LaneLoop(f, known, k) }
<1>1. 0 \in S
  <2> DEFINE g == [k \in 0 .. 0 |-> zero]
  <2>1. LaneLoop(g, known, 0)
    BY DEF LaneLoop
  <2> QED
    BY <2>1
<1>2. ASSUME NEW n \in Nat, n \in S PROVE n + 1 \in S
  <2>1. PICK f : LaneLoop(f, known, n)
    BY <1>2
  <2> DEFINE g == [k \in 0 .. n + 1 |-> IF k = n + 1 THEN NextLane(f[n]) ELSE f[k]]
  <2>2. \A k \in 0 .. n : f[k] = IF k = 0 THEN zero ELSE NextLane(f[k - 1])
    BY <2>1 DEF LaneLoop
  <2> HIDE DEF zero
  <2>3. \A k \in 0 .. n + 1 : g[k] = IF k = 0 THEN zero ELSE NextLane(g[k - 1])
    <3> SUFFICES ASSUME NEW k \in 0 .. n + 1
                 PROVE  g[k] = IF k = 0 THEN zero ELSE NextLane(g[k - 1])
      OBVIOUS
    <3>1. CASE k = n + 1
      <4>1. g[k] = NextLane(f[n]) /\ k # 0 /\ g[k - 1] = f[n]
        BY <3>1
      <4> QED
        BY <3>1, <4>1
    <3>2. CASE k # n + 1
      <4>1. k \in 0 .. n /\ g[k] = f[k]
        BY <3>2
      <4>2. k # 0 => g[k - 1] = f[k - 1]
        BY <3>2
      <4> QED
        BY <2>2, <4>1, <4>2
    <3> QED
      BY <3>1, <3>2
  <2>4. g = [k \in 0 .. n + 1 |-> g[k]]
    OBVIOUS
  <2>5. LaneLoop(g, known, n + 1)
    <3> HIDE DEF g
    <3> QED
      BY <2>3, <2>4 DEF LaneLoop, zero
  <2> QED
    BY <2>5
<1> HIDE DEF S
<1>3. m \in S
  BY <1>1, <1>2, Induction
<1> QED
  BY <1>3 DEF S

\* The intervals of one lane do not overlap (_allocate_lanes).
LEMMA LanesApart ==
  ASSUME NEW D \in SUBSET Intervals, IsFiniteSet(D),
         \A i, j \in D : i.id = j.id => i = j, \A i \in D : i.from > 0,
         NEW x \in D, NEW y \in D, x # y, Lanes(D)[x.id] = Lanes(D)[y.id]
  PROVE  Apart(x.from, x.to, y.from, y.to)
<1>1. D = { i \in D : i.from > 0 }
  OBVIOUS
<1>2. PICK m : m = Cardinality(D)
  OBVIOUS
<1>3. m \in Nat
  BY <1>2, FS_CardinalityType
<1> DEFINE f == CHOOSE g : LaneLoop(g, D, m)
<1>4. LaneLoop(f, D, m)
  BY <1>3, LaneLoopExists
<1>5. Lanes(D) = f[m].lane
  BY <1>1, <1>2, ZenonT(40) DEF Lanes, LaneLoop
<1> HIDE DEF f
<1>6. \A k \in 0 .. m : f[k] = IF k = 0 THEN [left |-> D, ends |-> <<>>, lane |-> <<>>]
                               ELSE NextLane(f[k - 1])
  BY <1>4 DEF LaneLoop
<1> DEFINE good(k) == /\ LanesGood(f[k], D) /\ IsFiniteSet(f[k].left)
                      /\ Cardinality(f[k].left) = m - k
           S == { k \in Nat : k <= m => good(k) }
<1>7. 0 \in S
  <2>1. f[0] = [left |-> D, ends |-> <<>>, lane |-> <<>>]
    BY <1>3, <1>6
  <2>2. D \ D = {} /\ << >> \in Seq(Nat)
    OBVIOUS
  <2>3. DOMAIN << >> = {}
    OBVIOUS
  <2>4. LanesGood(f[0], D)
    BY <2>1, <2>2, <2>3 DEF LanesGood
  <2> QED
    BY <1>2, <1>3, <2>1, <2>4
<1>8. ASSUME NEW k \in Nat, k \in S PROVE k + 1 \in S
  <2> SUFFICES ASSUME k + 1 <= m PROVE good(k + 1)
    OBVIOUS
  <2>1. good(k) /\ k + 1 \in 0 .. m /\ k + 1 - 1 = k /\ k + 1 # 0
    BY <1>3, <1>8
  <2>2. f[k + 1] = NextLane(f[k])
    BY <1>6, <2>1
  <2>3. f[k].left # {}
    BY <1>3, <2>1, FS_EmptySet
  <2>4. /\ LanesGood(f[k + 1], D)
        /\ First(f[k].left) \in f[k].left
        /\ f[k + 1].left = f[k].left \ {First(f[k].left)}
    <3>1. LanesGood(f[k], D)
      BY <2>1
    <3>2. PICK was : was = f[k]
      OBVIOUS
    <3> HIDE DEF good, S
    <3>3. LanesGood(was, D) /\ was.left # {}
      BY <2>3, <3>1, <3>2
    <3>4. /\ LanesGood(NextLane(was), D)
          /\ First(was.left) \in was.left
          /\ NextLane(was).left = was.left \ {First(was.left)}
      BY <3>3, NextLaneGood
    <3> QED
      BY <2>2, <3>2, <3>4
  <2>5. /\ IsFiniteSet(f[k + 1].left)
        /\ Cardinality(f[k + 1].left) = Cardinality(f[k].left) - 1
    <3>1. PICK L, i : L = f[k].left /\ i = First(f[k].left)
      OBVIOUS
    <3>2. IsFiniteSet(L) /\ i \in L /\ f[k + 1].left = L \ {i}
      BY <2>1, <2>4, <3>1
    <3>3. IsFiniteSet(L \ {i}) /\ Cardinality(L \ {i}) = Cardinality(L) - 1
      BY <3>2, FS_RemoveElement
    <3> QED
      BY <3>1, <3>2, <3>3
  <2> QED
    BY <1>3, <2>1, <2>4, <2>5
<1>9. good(m)
  <2>1. m \in S
    <3> HIDE DEF S
    <3> QED
      BY <1>3, <1>7, <1>8, Induction
  <2> QED
    BY <1>3, <2>1
<1>10. f[m].left = {}
  BY <1>3, <1>9, FS_EmptySet
<1> QED
  BY <1>5, <1>9, <1>10 DEF LanesGood

\* A tool's span, on a wall clock that was not set, is from its tool's begin
\* to its end, if the breakdown has them.
LEMMA ToolSpan ==
  ASSUME TInv, NEW n \in Nodes, offset[Place(n)] = 0, {"run", "ran"} \subseteq world.logged,
         NEW x \in AppSpans(MetricOf(n)), x.track = "tool"
  PROVE  /\ x.from = t[n]["run"] /\ x.to = t[n]["ran"]
         /\ Did(n, "enter") /\ Did(n, "run") /\ Did(n, "ran") /\ Did(n, "leave")
         /\ t[n]["enter"] <= t[n]["run"] /\ t[n]["ran"] <= t[n]["leave"]
<1> DEFINE b == BreakdownOf(n)
           m == MetricOf(n)
<1>1. world.provider \in Providers
  BY WorldFacts DEF TInv
<1>2. m.breakdown = IF b = NoRecord \/ world.provider = "gateway" THEN NoRecord
                    ELSE Normalised(b)
  BY <1>1, MetricFields DEF MetricOf
<1>3. m.breakdown # NoRecord /\ x \in AppSpans(m)
  BY DEF AppSpans
<1>4. m.breakdown = Normalised(b) /\ b # NoRecord
  BY <1>2, <1>3
<1>5. PICK i \in Logged(n) : TRUE
  BY <1>4, NoLog
<1>6. /\ i \in DOMAIN log /\ log[i].call = n
      /\ b = log[i].payload /\ b \in Breakdowns
  BY LogOf
<1>7. EntryTrue(i)
  BY <1>6 DEF TInv, LogInv
<1>8. /\ \A e \in {"begin", "sent", "enter", "run", "ran", "leave"} : t[n][e] # 0
      /\ t[n]["enter"] <= t[n]["run"] /\ t[n]["run"] <= t[n]["ran"]
      /\ t[n]["ran"] <= t[n]["leave"]
  BY <1>6, EntryFacts
<1>9. t[n]["enter"] \in Nat /\ t[n]["run"] \in Nat /\ t[n]["ran"] \in Nat
  BY Times DEF TInv, Events
<1>10. wall[n] = t[n]["enter"]
  BY <1>8 DEF TInv, WallInv, Did
<1>11. /\ b.run = wall[n] + (t[n]["run"] - t[n]["enter"])
       /\ b.ran = wall[n] + (t[n]["ran"] - t[n]["enter"])
  BY <1>6, <1>7 DEF EntryTrue, Noted
<1>12. b.run = t[n]["run"] /\ b.ran = t[n]["ran"]
  BY <1>9, <1>10, <1>11
<1> DEFINE c == Normalised(b)
<1> HIDE DEF b, m
<1>13. c \in Breakdowns /\ c.run = b.run /\ c.ran = b.ran
  BY <1>6, <1>8, <1>12, NormalFields
<1> HIDE DEF c
<1>14. Normalised(c).run = b.run /\ Normalised(c).ran = b.ran
  BY <1>8, <1>12, <1>13, NormalFields
<1>15. \A track, from, to : \A s \in Span(track, from, to) :
         s.track = track /\ s.from = from /\ s.to = to
  BY DEF Span
<1>16. AppTimes(m.breakdown) = Normalised(c)
  BY <1>4 DEF AppTimes, c
<1>17. x \in Span("tool", Normalised(c).run, Normalised(c).ran)
  BY <1>3, <1>15, <1>16 DEF AppSpans
<1> QED
  BY <1>8, <1>12, <1>14, <1>15, <1>17 DEF Did

\* On a track of the timeline nothing overlaps (_allocate_lanes, wrap_tool,
\* _wall_from_monotonic_delta).
THEOREM TracksCorrect == Spec => []TracksApart
<1>1. TInv => TracksApart
  <2> SUFFICES ASSUME TInv PROVE TracksApart
    OBVIOUS
  <2>0. /\ world.calls \subseteq Nodes /\ world.llms \subseteq Nodes \ world.calls
        /\ IsFiniteSet(Nodes) /\ Nodes \subseteq Nat
    BY WorldFacts, TimingAssumption DEF TInv
  <2>1. ASSUME NEW ns \in {Invoked, { n \in world.llms : Did(n, "over") }},
               NEW m \in ns, NEW n \in ns, m # n, LanesOf(ns)[m] = LanesOf(ns)[n]
        PROVE  \/ ClientSpan(m).from = ClientSpan(m).to
               \/ ClientSpan(n).from = ClientSpan(n).to
               \/ Apart(ClientSpan(m).from, ClientSpan(m).to,
                        ClientSpan(n).from, ClientSpan(n).to)
    <3> DEFINE to(k) == IF ClientSpan(k).to > ClientSpan(k).from THEN ClientSpan(k).to
                        ELSE t[k]["over"]
               interval(k) == [id |-> k, from |-> ClientSpan(k).from, to |-> to(k)]
               D == { interval(k) : k \in ns }
    <3>1. ns \subseteq Nodes /\ IsFiniteSet(ns)
      <4>1. ns \subseteq Nodes
        BY <2>0 DEF Invoked
      <4> QED
        BY <2>0, <4>1, FS_Subset
    <3>2. LanesOf(ns) = Lanes(D)
      BY DEF LanesOf
    <3>3. \A k \in ns : /\ ClientSpan(k).from \in Nat /\ ClientSpan(k).to \in Nat
                        /\ ClientSpan(k).from > 0
                        /\ ClientSpan(k).from <= ClientSpan(k).to
                        /\ to(k) = ClientSpan(k).to
      <4> SUFFICES ASSUME NEW k \in ns
                   PROVE  /\ ClientSpan(k).from \in Nat /\ ClientSpan(k).to \in Nat
                          /\ ClientSpan(k).from > 0
                          /\ ClientSpan(k).from <= ClientSpan(k).to
                          /\ to(k) = ClientSpan(k).to
        OBVIOUS
      <4>1. k \in Nodes /\ Ordered(k)
        BY <3>1 DEF TInv, OrderInv
      <4>2. /\ t[k]["sent"] \in Nat /\ t[k]["back"] \in Nat
            /\ t[k]["begin"] \in Nat /\ t[k]["over"] \in Nat
        BY <4>1, Times DEF TInv, Events
      <4>3. CASE k \in world.calls
        <5>1. Did(k, "back")
          BY <2>0, <4>3 DEF Invoked
        <5>2. /\ t[k]["sent"] # 0 /\ t[k]["sent"] <= t[k]["back"]
              /\ t[k]["over"] = t[k]["back"]
          BY <4>1, <5>1 DEF Ordered, Did
        <5>3. ClientSpan(k).from = t[k]["sent"] /\ ClientSpan(k).to = t[k]["back"]
          BY <4>3 DEF ClientSpan, CallSpan
        <5> QED
          BY <4>2, <5>2, <5>3
      <4>4. CASE k \notin world.calls
        <5>1. Did(k, "over")
          BY <4>4 DEF Invoked
        <5>2. t[k]["begin"] # 0 /\ t[k]["begin"] <= t[k]["over"]
          BY <4>1, <4>4, <5>1 DEF Ordered, Did
        <5>3. ClientSpan(k).from = t[k]["begin"] /\ ClientSpan(k).to = t[k]["over"]
          BY <4>4 DEF ClientSpan, LlmSpan
        <5> QED
          BY <4>2, <5>2, <5>3
      <4> QED
        BY <4>3, <4>4
    <3> HIDE DEF to
    <3>4. \A k \in ns : /\ interval(k) \in Intervals /\ interval(k).from > 0
                        /\ interval(k).id = k
      BY <2>0, <3>1, <3>3 DEF Intervals
    <3>5. IsFiniteSet(D)
      <4> DEFINE g == [k \in ns |-> interval(k)]
      <4>1. g \in Surjection(ns, D)
        BY DEF Surjection
      <4> HIDE DEF g, D
      <4> QED
        BY <3>1, <4>1, FS_Surjection
    <3>6. PICK x, y : x = interval(m) /\ y = interval(n)
      OBVIOUS
    <3>7. x \in D /\ y \in D /\ x.id = m /\ y.id = n
      BY <3>6
    <3>8. /\ D \in SUBSET Intervals
          /\ \A i, j \in D : i.id = j.id => i = j
          /\ \A i \in D : i.from > 0
      BY <3>4
    <3>9. Lanes(D)[x.id] = Lanes(D)[y.id] /\ x # y
      BY <2>1, <3>2, <3>7
    <3> HIDE DEF D
    <3>10. Apart(x.from, x.to, y.from, y.to)
      BY <3>5, <3>7, <3>8, <3>9, LanesApart
    <3>11. /\ x.from = ClientSpan(m).from /\ x.to = ClientSpan(m).to
           /\ y.from = ClientSpan(n).from /\ y.to = ClientSpan(n).to
      BY <3>3, <3>6
    <3> QED
      BY <3>10, <3>11
  <2>2. ASSUME NEW m \in Invoked, NEW n \in Invoked,
               m # n, Place(m) = Place(n), offset[Place(m)] = 0,
               ~(world.mcp /\ world.awaits), {"run", "ran"} \subseteq world.logged,
               NEW x \in AppSpans(MetricOf(m)), NEW y \in AppSpans(MetricOf(n)),
               x.track = "tool", y.track = "tool"
        PROVE  Apart(x.from, x.to, y.from, y.to)
    <3>1. m \in Nodes /\ n \in Nodes /\ offset[Place(n)] = 0
      BY <2>0, <2>2 DEF Invoked
    <3>2. /\ x.from = t[m]["run"] /\ x.to = t[m]["ran"]
          /\ Did(m, "enter") /\ Did(m, "run") /\ Did(m, "ran") /\ Did(m, "leave")
          /\ t[m]["enter"] <= t[m]["run"] /\ t[m]["ran"] <= t[m]["leave"]
      BY <2>2, <3>1, ToolSpan
    <3>3. /\ y.from = t[n]["run"] /\ y.to = t[n]["ran"]
          /\ Did(n, "enter") /\ Did(n, "run") /\ Did(n, "ran") /\ Did(n, "leave")
          /\ t[n]["enter"] <= t[n]["run"] /\ t[n]["ran"] <= t[n]["leave"]
      BY <2>2, <3>1, ToolSpan
    <3>4. \A k \in Nodes : /\ t[k]["enter"] \in Nat /\ t[k]["run"] \in Nat
                           /\ t[k]["ran"] \in Nat /\ t[k]["leave"] \in Nat
      BY Times DEF TInv, Events
    <3>5. CASE world.mcp
      <4>1. InTurn(m, n)
        BY <2>2, <3>1, <3>2, <3>3, <3>5 DEF TInv, TurnInv
      <4> QED
        BY <3>2, <3>3, <4>1 DEF InTurn, Apart
    <3>6. CASE ~world.mcp
      <4>1. t[m]["leave"] <= t[n]["enter"] \/ t[n]["leave"] <= t[m]["enter"]
        BY <2>2, <3>1, <3>2, <3>3, <3>6 DEF TInv, TurnInv
      <4>2. t[m]["ran"] <= t[n]["run"] \/ t[n]["ran"] <= t[m]["run"]
        BY <3>1, <3>2, <3>3, <3>4, <4>1
      <4> QED
        BY <3>2, <3>3, <4>2 DEF Apart
    <3> QED
      BY <3>5, <3>6
  <2> QED
    BY <2>1, <2>2 DEF TracksApart
<1> QED
  BY <1>1, TimingInvariant, PTL

=============================================================================
