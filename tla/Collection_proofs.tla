-------------------------- MODULE Collection_proofs --------------------------
(***************************************************************************)
(* Theorems about Collection, for any number of calls, targets and polls:  *)
(* the wait for usage logs keeps its deadline, every answered call's       *)
(* session is collected, none twice, and a call's metric has its own       *)
(* records and its breakdown.                                              *)
(***************************************************************************)
EXTENDS Collection, FiniteSetTheorems, TLAPS

Steps == {"idle", "sent", "served", "answered", "ok", "error"}

SessionRecords == [target : Targets, session : Nat]

Invocations == [call : Calls, ok : BOOLEAN, session : Nat]

Observations == [sessions : Seq(SessionRecords), invocations : Seq(Invocations)]

Types ==
  /\ world \in Worlds
  /\ pc \in [Calls -> Steps]
  /\ via \in [Calls -> Nat]
  /\ current \in [Targets -> Nat]
  /\ started \in [Targets -> Nat]
  /\ executed \subseteq Calls /\ overtaken \subseteq Calls /\ usage \subseteq Calls
  /\ recorder \in Observations
  /\ file \in Observations
  /\ stage \in {"replay", "wait", "collect", "down", "done"}
  /\ clock \in Nat /\ polled \in Nat /\ ready \in Nat
  /\ rows \in Seq(SessionRecords)
  /\ waited \in {"no", "ready", "timeout", "offline"}

\* Sessions are numbered in the order in which the platform starts them.  A
\* call that was answered has its session in the client, until another answer
\* overtakes it.
CallInv ==
  /\ \A c \in Calls : via[c] <= started[Target(c)]
  /\ \A t \in Targets : current[t] <= started[t]
  /\ overtaken \subseteq executed /\ usage \subseteq executed
  /\ \A c \in Calls : pc[c] # "idle" => c \in world.calls
  /\ \A c \in Calls : InProgress(c) => stage = "replay"
  /\ \A c \in Calls : pc[c] \in {"served", "answered", "ok"} => c \in executed
  /\ \A c \in Calls :
       OnAgentCore /\ pc[c] \in {"served", "answered", "ok"} => via[c] # 0
  /\ \A c \in Calls :
       pc[c] = "answered" /\ c \notin overtaken => current[Target(c)] = via[c]

\* The records of the run, which a crash leaves in the file only.
Kept == IF stage = "down" THEN file ELSE recorder

KeptInv ==
  /\ stage # "replay" => file = Kept
  /\ stage = "down" => recorder = NoRecords

\* A session is recorded as opened before any answer has named one.
OpenInv ==
  /\ \A i \in DOMAIN Kept.sessions : Kept.sessions[i].session = 0
  /\ stage = "replay" =>
       \A t \in Targets :
         current[t] # 0 \/ (\E c \in Calls : Target(c) = t /\ pc[c] # "idle")
           => \E i \in DOMAIN recorder.sessions : recorder.sessions[i].target = t

\* Each call that has ended is recorded once, with its outcome and, if it was
\* answered and not overtaken, with its session.
RecordInv ==
  /\ \A i \in DOMAIN Kept.invocations :
       LET inv == Kept.invocations[i] IN
       /\ pc[inv.call] = IF inv.ok THEN "ok" ELSE "error"
       /\ inv.session <= started[Target(inv.call)]
       /\ inv.ok /\ inv.call \notin overtaken => inv.session = via[inv.call]
  /\ \A i, j \in DOMAIN Kept.invocations :
       Kept.invocations[i].call = Kept.invocations[j].call => i = j
  /\ \A c \in Calls :
       Ended(c) => \E i \in DOMAIN Kept.invocations : Kept.invocations[i].call = c

\* The clock is beyond the deadline by the queries of the round and the last
\* second of a pause at most.
WaitInv ==
  /\ ready <= polled
  /\ stage = "replay" => polled = 0 /\ ready = 0 /\ clock = 0
  /\ stage \in {"replay", "wait"} => waited = "no"
  /\ waited # "offline" => polled <= Len(rows)
  /\ waited # "offline" /\ world.timeout > 0
       => clock <= world.timeout + Second + polled * QueryTime

ReportInv ==
  /\ stage # "done" => report = NoReport
  /\ SessionsCovered
  /\ UsageOnce
  /\ EvidenceJoined

CInv ==
  /\ Types
  /\ CallInv
  /\ KeptInv
  /\ OpenInv
  /\ RecordInv
  /\ WaitInv
  /\ ReportInv

-----------------------------------------------------------------------------
(* Sequences of rows.                                                      *)

\* The principle of induction, for a set in place of a predicate: n would be a
\* bound that the successors of the members below it never reach.
LEMMA Induction ==
  ASSUME NEW S, 0 \in S, \A n \in Nat : n \in S => n + 1 \in S
  PROVE  Nat \subseteq S
<1> SUFFICES ASSUME NEW n \in Nat, n \notin S PROVE FALSE
  OBVIOUS
<1> DEFINE T == { i \in 0 .. n : i \in S }
           f == [i \in T |-> i + 1]
<1>1. IsFiniteSet(0 .. n) /\ T \in SUBSET (0 .. n) /\ 0 \in T
  BY FS_Interval
<1>2. f \in Injection(T, T \ {0})
  BY DEF Injection, IsInjective
<1> HIDE DEF T, f
<1>3. IsFiniteSet(T)
  BY <1>1, FS_Subset
<1>4. Cardinality(T) \in Nat
  BY <1>3, FS_CardinalityType
<1>5. IsFiniteSet(T \ {0}) /\ Cardinality(T \ {0}) = Cardinality(T) - 1
  BY <1>1, <1>3, FS_RemoveElement
<1>6. Cardinality(T) <= Cardinality(T \ {0})
  BY <1>2, <1>5, FS_Injection
<1> QED
  BY <1>4, <1>5, <1>6

\* The loop over found rows, as far as row m.
Loop(f, found, m) ==
  f = [n \in 0 .. m |-> IF n = 0 THEN <<>> ELSE AddRow(f[n - 1], found[n])]

\* It has a value for each number of rows.
LEMMA LoopExists ==
  ASSUME NEW found, NEW m \in Nat
  PROVE  \E f : Loop(f, found, m)
<1> DEFINE S == { k \in Nat : \E f : Loop(f, found, k) }
<1>1. 0 \in S
  <2> DEFINE g == [n \in 0 .. 0 |-> <<>>]
  <2>1. Loop(g, found, 0)
    BY DEF Loop
  <2> QED
    BY <2>1
<1>2. ASSUME NEW k \in Nat, k \in S PROVE k + 1 \in S
  <2>1. PICK f : Loop(f, found, k)
    BY <1>2
  <2> DEFINE g == [n \in 0 .. k + 1 |->
                     IF n = k + 1 THEN AddRow(f[k], found[k + 1]) ELSE f[n]]
  <2>2. \A n \in 0 .. k : f[n] = IF n = 0 THEN <<>> ELSE AddRow(f[n - 1], found[n])
    BY <2>1 DEF Loop
  <2>3. \A n \in 0 .. k + 1 :
          g[n] = IF n = 0 THEN <<>> ELSE AddRow(g[n - 1], found[n])
    <3> SUFFICES ASSUME NEW n \in 0 .. k + 1
                 PROVE  g[n] = IF n = 0 THEN <<>> ELSE AddRow(g[n - 1], found[n])
      OBVIOUS
    <3>1. CASE n = k + 1
      <4>1. g[n] = AddRow(f[k], found[k + 1]) /\ n # 0 /\ g[n - 1] = f[k] /\ n - 1 = k
        BY <3>1
      <4> QED
        BY <3>1, <4>1
    <3>2. CASE n # k + 1
      <4>1. n \in 0 .. k /\ g[n] = f[n]
        BY <3>2
      <4>2. n # 0 => g[n - 1] = f[n - 1]
        BY <3>2
      <4> QED
        BY <2>2, <4>1, <4>2
    <3> QED
      BY <3>1, <3>2
  <2>4. g = [n \in 0 .. k + 1 |-> g[n]]
    OBVIOUS
  <2>5. Loop(g, found, k + 1)
    <3> HIDE DEF g
    <3> QED
      BY <2>3, <2>4 DEF Loop
  <2> QED
    BY <2>5
<1> HIDE DEF S
<1>3. m \in S
  BY <1>1, <1>2, Induction
<1> QED
  BY <1>3 DEF S

\* What done holds after n found rows: each of those that have an id, once.
Good(done, found, n) ==
  /\ done \in Seq(SessionRecords)
  /\ \A i, j \in DOMAIN done : done[i] = done[j] => i = j
  /\ \A k \in 1 .. n : found[k].session # 0 => \E i \in DOMAIN done : done[i] = found[k]

LEMMA AddRowGood ==
  ASSUME NEW found \in Seq(SessionRecords), NEW n \in Nat, n + 1 \in DOMAIN found,
         NEW done, Good(done, found, n)
  PROVE  Good(AddRow(done, found[n + 1]), found, n + 1)
<1> DEFINE row == found[n + 1]
<1>1. row \in SessionRecords /\ done \in Seq(SessionRecords) /\ Len(done) \in Nat
  BY DEF Good
<1>2. \A k \in 1 .. n + 1 : k \in 1 .. n \/ k = n + 1
  OBVIOUS
<1> HIDE DEF row
<1>3. CASE row.session = 0 \/ row \in ToSet(done)
  <2>1. AddRow(done, row) = done
    BY <1>3 DEF AddRow
  <2>2. row.session # 0 => \E i \in DOMAIN done : done[i] = row
    BY <1>3 DEF ToSet
  <2> QED
    BY <1>2, <2>1, <2>2 DEF Good, row
<1>4. CASE ~(row.session = 0 \/ row \in ToSet(done))
  <2> DEFINE more == Append(done, row)
  <2>1. AddRow(done, row) = more
    BY <1>4 DEF AddRow
  <2>2. /\ more \in Seq(SessionRecords)
        /\ DOMAIN more = DOMAIN done \cup {Len(done) + 1}
        /\ Len(done) + 1 \notin DOMAIN done
        /\ \A i \in DOMAIN done : more[i] = done[i]
        /\ more[Len(done) + 1] = row
    BY <1>1
  <2> HIDE DEF more
  <2>3. \A i \in DOMAIN done : done[i] # row
    BY <1>4 DEF ToSet
  <2>4. \A i, j \in DOMAIN more : more[i] = more[j] => i = j
    BY <2>2, <2>3 DEF Good
  <2>5. \A k \in 1 .. n + 1 :
          found[k].session # 0 => \E i \in DOMAIN more : more[i] = found[k]
    <3> SUFFICES ASSUME NEW k \in 1 .. n + 1, found[k].session # 0
                 PROVE  \E i \in DOMAIN more : more[i] = found[k]
      OBVIOUS
    <3>1. CASE k \in 1 .. n
      BY <2>2, <3>1 DEF Good
    <3>2. CASE k = n + 1
      BY <2>2, <3>2 DEF row
    <3> QED
      BY <1>2, <3>1, <3>2
  <2>6. Good(more, found, n + 1)
    BY <2>2, <2>4, <2>5 DEF Good
  <2> QED
    BY <2>1, <2>6 DEF row
<1> QED
  BY <1>3, <1>4

LEMMA LoopGood ==
  ASSUME NEW found \in Seq(SessionRecords), NEW f, Loop(f, found, Len(found))
  PROVE  Good(f[Len(found)], found, Len(found))
<1> DEFINE L == Len(found)
           S == { n \in Nat : n \in 0 .. L => Good(f[n], found, n) }
<1>1. L \in Nat /\ DOMAIN found = 1 .. L
  OBVIOUS
<1>2. \A n \in 0 .. L : f[n] = IF n = 0 THEN <<>> ELSE AddRow(f[n - 1], found[n])
  BY <1>1 DEF Loop
<1>3. 0 \in S
  <2>1. << >> \in Seq(SessionRecords) /\ DOMAIN << >> = {} /\ 1 .. 0 = {}
    OBVIOUS
  <2>2. f[0] = <<>>
    BY <1>1, <1>2
  <2> QED
    BY <2>1, <2>2 DEF Good
<1>4. ASSUME NEW n \in Nat, n \in S PROVE n + 1 \in S
  <2> SUFFICES ASSUME n + 1 \in 0 .. L PROVE Good(f[n + 1], found, n + 1)
    OBVIOUS
  <2>1. n \in 0 .. L /\ n + 1 \in 1 .. L /\ n + 1 # 0 /\ (n + 1) - 1 = n
    BY <1>1
  <2>2. Good(f[n], found, n) /\ n + 1 \in DOMAIN found
    BY <1>1, <1>4, <2>1
  <2>3. f[n + 1] = AddRow(f[n], found[n + 1])
    BY <1>2, <2>1
  <2> QED
    BY <2>2, <2>3, AddRowGood
<1>5. L \in S
  <2> HIDE DEF S
  <2> QED
    BY <1>1, <1>3, <1>4, Induction
<1> QED
  BY <1>1, <1>5

\* The sessions found in the records are of the rows' type.
LEMMA FoundTypes ==
  ASSUME Types
  PROVE  /\ FoundRows \in Seq(SessionRecords)
         /\ \A i \in DOMAIN recorder.invocations : \E k \in DOMAIN FoundRows :
              FoundRows[k] = [target  |-> Target(recorder.invocations[i].call),
                              session |-> recorder.invocations[i].session]
<1> DEFINE s == recorder.sessions
           v == recorder.invocations
           w == [i \in DOMAIN v |-> [target  |-> Target(v[i].call), session |-> v[i].session]]
<1>1. s \in Seq(SessionRecords) /\ v \in Seq(Invocations)
  BY DEF Types, Observations
<1>2. \A c \in Calls : Target(c) \in Targets
  BY CollectionAssumption DEF Types, Target
<1>3. DOMAIN v = 1 .. Len(v) /\ Len(v) \in Nat
  BY <1>1
<1>4. w \in [DOMAIN v -> SessionRecords]
  <2> SUFFICES ASSUME NEW i \in DOMAIN v
               PROVE  [target  |-> Target(v[i].call), session |-> v[i].session]
                        \in SessionRecords
    OBVIOUS
  <2>1. v[i] \in Invocations
    BY <1>1, <1>3
  <2>2. v[i].call \in Calls /\ v[i].session \in Nat
    <3> HIDE DEF v
    <3> QED
      BY <2>1 DEF Invocations
  <2> QED
    BY <1>2, <2>2 DEF SessionRecords
<1>5. w \in Seq(SessionRecords) /\ Len(w) = Len(v)
  <2>1. \A S : \A m \in Nat : \A x \in [1 .. m -> S] : x \in Seq(S) /\ Len(x) = m
    OBVIOUS
  <2> HIDE DEF v, w
  <2> QED
    BY <1>3, <1>4, <2>1
<1>6. \A i \in DOMAIN v :
        w[i] = [target |-> Target(v[i].call), session |-> v[i].session]
  OBVIOUS
<1>7. FoundRows = s \o w
  BY DEF FoundRows
<1> HIDE DEF s, v, w
<1>8. /\ s \o w \in Seq(SessionRecords)
      /\ \A i \in DOMAIN w : (s \o w)[Len(s) + i] = w[i] /\ Len(s) + i \in DOMAIN (s \o w)
  BY <1>1, <1>5
<1>9. DOMAIN w = DOMAIN v
  BY <1>4
<1> QED
  BY <1>6, <1>7, <1>8, <1>9 DEF v

\* SessionRows has each session of an invocation that has an id, and none
\* twice.
LEMMA RowsFacts ==
  ASSUME Types
  PROVE  /\ SessionRows \in Seq(SessionRecords)
         /\ \A i, j \in DOMAIN SessionRows : SessionRows[i] = SessionRows[j] => i = j
         /\ \A i \in DOMAIN recorder.invocations :
              recorder.invocations[i].session # 0 =>
                \E k \in DOMAIN SessionRows :
                  SessionRows[k] = [target  |-> Target(recorder.invocations[i].call),
                                    session |-> recorder.invocations[i].session]
<1> DEFINE n == Len(FoundRows)
<1>1. FoundRows \in Seq(SessionRecords) /\ n \in Nat /\ DOMAIN FoundRows = 1 .. n
  BY FoundTypes
<1>2. \E f : Loop(f, FoundRows, n)
  BY <1>1, LoopExists
<1>3. PICK f : Loop(f, FoundRows, n) /\ SessionRows = f[n]
  BY <1>2 DEF Loop, SessionRows
<1>4. Good(SessionRows, FoundRows, n)
  BY <1>1, <1>3, LoopGood
<1>5. ASSUME NEW i \in DOMAIN recorder.invocations, recorder.invocations[i].session # 0
      PROVE  \E k \in DOMAIN SessionRows :
               SessionRows[k] = [target  |-> Target(recorder.invocations[i].call),
                                 session |-> recorder.invocations[i].session]
  <2>1. PICK k \in DOMAIN FoundRows :
          FoundRows[k] = [target  |-> Target(recorder.invocations[i].call),
                          session |-> recorder.invocations[i].session]
    BY FoundTypes
  <2>2. FoundRows[k].session # 0
    BY <1>5, <2>1
  <2> QED
    BY <1>1, <1>4, <2>1, <2>2 DEF Good
<1> QED
  BY <1>4, <1>5 DEF Good

-----------------------------------------------------------------------------
(* The replay.                                                             *)

\* What CollectionAssumption says of the world chosen.
LEMMA WorldFacts ==
  ASSUME Types
  PROVE  /\ world.calls \subseteq Calls
         /\ \A c \in Calls : Target(c) \in Targets
         /\ world.timeout \in Nat /\ world.interval \in Nat /\ QueryTime \in Nat
         /\ world.provider \in {"lambda", "agentcore", "ali", "gcp"}
  BY CollectionAssumption DEF Types, Target

LEMMA RecordTypes ==
  ASSUME Types
  PROVE  /\ recorder.invocations \in Seq(Invocations)
         /\ \A i \in DOMAIN recorder.invocations :
              /\ recorder.invocations[i].call \in Calls
              /\ recorder.invocations[i].ok \in BOOLEAN
              /\ recorder.invocations[i].session \in Nat
<1>1. recorder.invocations \in Seq(Invocations)
  BY DEF Types, Observations
<1>2. \A S : \A s \in Seq(S) : \A i \in DOMAIN s : s[i] \in S
  OBVIOUS
<1>3. \A i \in DOMAIN recorder.invocations : recorder.invocations[i] \in Invocations
  BY <1>1, <1>2
<1> QED
  BY <1>1, <1>3 DEF Invocations

LEMMA NoReportYet ==
  ASSUME stage # "done", report = NoReport
  PROVE  ReportInv
  BY DEF ReportInv, SessionsCovered, UsageOnce, EvidenceJoined, NoReport

LEMMA NoReportYetPrimed ==
  ASSUME stage' # "done", report' = NoReport
  PROVE  ReportInv'
  BY DEF ReportInv, SessionsCovered, UsageOnce, EvidenceJoined, NoReport

LEMMA InitHolds == Init => CInv
<1> SUFFICES ASSUME Init PROVE CInv
  OBVIOUS
<1> USE DEF Init, NoRecords
<1>1. Types
  BY DEF Types, Steps, Observations
<1>2. CallInv
  BY WorldFacts, <1>1 DEF CallInv, InProgress
<1>3. KeptInv /\ OpenInv /\ RecordInv
  <2>1. Kept = recorder /\ recorder.sessions = <<>> /\ recorder.invocations = <<>>
    BY DEF Kept
  <2>2. \A c \in Calls : pc[c] = "idle" /\ ~Ended(c)
    BY DEF Ended
  <2>3. \A t \in Targets : current[t] = 0
    OBVIOUS
  <2> QED
    BY <2>1, <2>2, <2>3 DEF KeptInv, OpenInv, RecordInv
<1>4. WaitInv
  <2>1. world.timeout \in Nat /\ Len(rows) = 0 /\ QueryTime \in Nat
    BY <1>1, WorldFacts
  <2> QED
    BY <2>1 DEF WaitInv, Second
<1>5. ReportInv
  BY NoReportYet
<1> QED
  BY <1>1, <1>2, <1>3, <1>4, <1>5 DEF CInv

\* The replay touches neither the wait nor the report.
LEMMA ReplayFrame ==
  ASSUME CInv, stage = "replay", UNCHANGED <<world, stage, waitVars, file, report>>
  PROVE  /\ KeptInv' /\ WaitInv' /\ ReportInv'
         /\ Kept = recorder /\ Kept' = recorder'
<1>1. KeptInv' /\ Kept = recorder /\ Kept' = recorder'
  BY DEF KeptInv, Kept
<1>2. WaitInv'
  BY DEF CInv, WaitInv, waitVars
<1>3. ReportInv'
  BY NoReportYetPrimed DEF CInv, ReportInv
<1> QED
  BY <1>1, <1>2, <1>3

\* A target's session is recorded as opened by its first call, before any
\* answer.
LEMMA SendStep ==
  ASSUME CInv, NEW c \in Calls, Send(c)
  PROVE  CInv'
<1> USE DEF CInv
<1> DEFINE t == Target(c)
           opened == \E i \in DOMAIN recorder.sessions : recorder.sessions[i].target = t
           session == [target |-> t, session |-> current[t]]
<1>1. /\ c \in world.calls
      /\ stage = "replay" /\ pc[c] = "idle" /\ pc \in [Calls -> Steps]
      /\ pc' = [pc EXCEPT ![c] = "sent"] /\ via' = [via EXCEPT ![c] = current[t]]
      /\ recorder' = IF ~opened
                     THEN [recorder EXCEPT !.sessions = Append(@, session)]
                     ELSE recorder
      /\ UNCHANGED <<world, executed, current, started, overtaken, file, stage,
                     waitVars, usage, report>>
  BY DEF Send, Goto, Types
<1>2. t \in Targets /\ (\A d \in Calls : Target(d) \in Targets /\ Target(d)' = Target(d))
  BY <1>1, WorldFacts DEF Target
<1>3. KeptInv' /\ WaitInv' /\ ReportInv' /\ Kept = recorder /\ Kept' = recorder'
  BY <1>1, ReplayFrame
<1>4. ~opened => current[t] = 0
  BY <1>1, <1>2 DEF OpenInv
<1>5. recorder.sessions \in Seq(SessionRecords) /\ session \in SessionRecords
      /\ recorder \in Observations
  BY <1>2 DEF Types, Observations, SessionRecords
<1>6. /\ recorder' \in Observations /\ recorder'.invocations = recorder.invocations
      /\ \A i \in DOMAIN recorder.sessions :
           i \in DOMAIN recorder'.sessions /\ recorder'.sessions[i] = recorder.sessions[i]
      /\ \A i \in DOMAIN recorder'.sessions :
           i \in DOMAIN recorder.sessions \/ (recorder'.sessions[i] = session /\ ~opened)
      /\ \E i \in DOMAIN recorder'.sessions : recorder'.sessions[i].target = t
  <2>1. CASE opened
    <3>1. recorder' = recorder
      BY <1>1, <2>1
    <3>2. \E i \in DOMAIN recorder'.sessions : recorder'.sessions[i].target = t
      BY <2>1, <3>1
    <3> HIDE DEF session, opened, t
    <3>3. /\ recorder' \in Observations /\ recorder'.invocations = recorder.invocations
          /\ \A i \in DOMAIN recorder.sessions :
               i \in DOMAIN recorder'.sessions
               /\ recorder'.sessions[i] = recorder.sessions[i]
      BY <1>5, <3>1
    <3>4. \A i \in DOMAIN recorder'.sessions : i \in DOMAIN recorder.sessions
      BY <3>1
    <3> QED
      BY <3>2, <3>3, <3>4
  <2>2. CASE ~opened
    <3> DEFINE more == Append(recorder.sessions, session)
    <3>1. recorder' = [recorder EXCEPT !.sessions = more]
      BY <1>1, <2>2
    <3>2. /\ more \in Seq(SessionRecords)
          /\ DOMAIN more = DOMAIN recorder.sessions \cup {Len(recorder.sessions) + 1}
          /\ \A i \in DOMAIN recorder.sessions : more[i] = recorder.sessions[i]
          /\ more[Len(recorder.sessions) + 1] = session
      BY <1>5
    <3> HIDE DEF more
    <3>3. recorder'.sessions = more /\ recorder'.invocations = recorder.invocations
          /\ recorder' \in Observations
      BY <1>5, <3>1, <3>2 DEF Observations
    <3>4. session.target = t
      OBVIOUS
    <3> HIDE DEF session
    <3> QED
      BY <2>2, <3>2, <3>3, <3>4
  <2> QED
    BY <2>1, <2>2
<1> HIDE DEF opened, t
<1>7. Types'
  BY <1>1, <1>2, <1>6 DEF Types, Steps, waitVars
<1>8. CallInv'
  <2>1. \A d \in Calls : via'[d] <= started'[Target(d)]
    BY <1>1, <1>2 DEF CallInv, Types, t
  <2>2. \A d \in Calls : d # c => pc'[d] = pc[d] /\ via'[d] = via[d]
    BY <1>1 DEF Types
  <2>3. pc'[c] = "sent"
    BY <1>1
  <2> QED
    BY <1>1, <1>2, <2>1, <2>2, <2>3 DEF CallInv, InProgress, OnAgentCore
<1>9. OpenInv'
  <2>1. \A i \in DOMAIN recorder'.sessions : recorder'.sessions[i].session = 0
    BY <1>3, <1>4, <1>6 DEF OpenInv
  <2>2. ASSUME NEW u \in Targets,
               current'[u] # 0 \/ (\E d \in Calls : Target(d)' = u /\ pc'[d] # "idle")
        PROVE  \E i \in DOMAIN recorder'.sessions : recorder'.sessions[i].target = u
    <3>1. CASE u = t
      BY <1>6, <3>1
    <3>2. CASE u # t
      <4>1. current[u] # 0 \/ (\E d \in Calls : Target(d) = u /\ pc[d] # "idle")
        BY <1>1, <1>2, <2>2, <3>2 DEF t
      <4> QED
        BY <1>1, <1>6, <4>1 DEF OpenInv
    <3> QED
      BY <3>1, <3>2
  <2> QED
    BY <1>3, <2>1, <2>2 DEF OpenInv
<1>10. RecordInv'
  <2>1. \A i \in DOMAIN recorder.invocations :
          recorder.invocations[i].call \in Calls /\ recorder.invocations[i].call # c
    BY <1>1, <1>3, RecordTypes DEF RecordInv
  <2>2. \A d \in Calls : d # c => pc'[d] = pc[d] /\ via'[d] = via[d]
    BY <1>1
  <2>3. ~Ended(c)'
    BY <1>1 DEF Ended
  <2> QED
    BY <1>1, <1>2, <1>3, <1>6, <2>1, <2>2, <2>3 DEF RecordInv, Ended
<1> QED
  BY <1>3, <1>7, <1>8, <1>9, <1>10

\* The platform numbers the sessions that it starts.
LEMMA ServeStep ==
  ASSUME CInv, NEW c \in Calls, Serve(c)
  PROVE  CInv'
<1> USE DEF CInv
<1> DEFINE t == Target(c)
           new == OnAgentCore /\ via[c] = 0
<1>1. /\ stage = "replay" /\ pc[c] = "sent" /\ pc \in [Calls -> Steps]
      /\ pc' = [pc EXCEPT ![c] = "served"] /\ executed' = executed \cup {c}
      /\ started' = IF new THEN [started EXCEPT ![t] = @ + 1] ELSE started
      /\ via' = IF new THEN [via EXCEPT ![c] = started[t] + 1] ELSE via
      /\ UNCHANGED <<world, current, overtaken, recorder, file, stage, waitVars, usage,
                     report>>
  BY DEF Serve, Goto, Types, CallInv, InProgress
<1>2. t \in Targets /\ (\A d \in Calls : Target(d) \in Targets /\ Target(d)' = Target(d))
  BY <1>1, WorldFacts DEF Target
<1>3. KeptInv' /\ WaitInv' /\ ReportInv' /\ Kept = recorder /\ Kept' = recorder'
  BY <1>1, ReplayFrame
<1>4. /\ started' \in [Targets -> Nat] /\ via' \in [Calls -> Nat]
      /\ \A u \in Targets : started[u] <= started'[u] /\ started[u] \in Nat
      /\ \A d \in Calls : d # c => via'[d] = via[d]
      /\ via'[c] = via[c] \/ via'[c] = started'[t]
      /\ OnAgentCore => via'[c] # 0
  BY <1>1, <1>2 DEF Types
<1> HIDE DEF t, new
<1>5. Types'
  BY <1>1, <1>4 DEF Types, Steps, waitVars
<1>6. CallInv'
  <2>1. \A d \in Calls : via'[d] <= started'[Target(d)]
    <3> SUFFICES ASSUME NEW d \in Calls PROVE via'[d] <= started'[Target(d)]
      OBVIOUS
    <3>1. via[d] <= started[Target(d)] /\ via[d] \in Nat /\ started'[Target(d)] \in Nat
          /\ started[Target(d)] <= started'[Target(d)] /\ started[Target(d)] \in Nat
      BY <1>2, <1>4 DEF CallInv, Types
    <3>2. via'[d] = via[d] \/ via'[d] = started'[Target(d)]
      BY <1>4 DEF t
    <3> QED
      BY <3>1, <3>2
  <2>2. \A u \in Targets : current'[u] <= started'[u]
    <3> SUFFICES ASSUME NEW u \in Targets PROVE current'[u] <= started'[u]
      OBVIOUS
    <3>1. current[u] <= started[u] /\ current[u] \in Nat /\ started[u] \in Nat
          /\ started'[u] \in Nat /\ started[u] <= started'[u] /\ current' = current
      BY <1>1, <1>4 DEF CallInv, Types
    <3> QED
      BY <3>1
  <2>3. \A d \in Calls : d # c => pc'[d] = pc[d]
    BY <1>1
  <2> QED
    BY <1>1, <1>2, <1>4, <2>1, <2>2, <2>3 DEF CallInv, InProgress, OnAgentCore, Types
<1>7. OpenInv'
  BY <1>1, <1>2, <1>3 DEF OpenInv
<1>8. RecordInv'
  <2>1. \A i \in DOMAIN recorder.invocations :
          LET inv == recorder.invocations[i] IN
          /\ inv.call \in Calls /\ inv.call # c /\ inv.session \in Nat
    BY <1>1, <1>3, RecordTypes DEF RecordInv
  <2>2. \A d \in Calls : d # c => pc'[d] = pc[d] /\ via'[d] = via[d]
    BY <1>1, <1>4
  <2>3. ~Ended(c)'
    BY <1>1 DEF Ended
  <2>4. \A i \in DOMAIN recorder.invocations :
          recorder.invocations[i].session <= started'[Target(recorder.invocations[i].call)]
    <3> SUFFICES ASSUME NEW i \in DOMAIN recorder.invocations
                 PROVE  recorder.invocations[i].session
                          <= started'[Target(recorder.invocations[i].call)]
      OBVIOUS
    <3>1. PICK n \in Nat, u \in Targets :
            n = recorder.invocations[i].session /\ u = Target(recorder.invocations[i].call)
      BY <1>2, <2>1
    <3>2. n <= started[u] /\ started[u] \in Nat /\ started'[u] \in Nat
          /\ started[u] <= started'[u]
      BY <1>3, <1>4, <3>1 DEF RecordInv
    <3>3. n <= started'[u]
      BY <3>2
    <3> QED
      BY <3>1, <3>3
  <2> QED
    BY <1>1, <1>2, <1>3, <2>1, <2>2, <2>3, <2>4 DEF RecordInv, Ended
<1> QED
  BY <1>3, <1>5, <1>6, <1>7, <1>8

\* The session that the response names, if it does, becomes the client's; calls
\* of the target that wait to be recorded with another one are overtaken.
LEMMA AnswerStep ==
  ASSUME CInv, NEW c \in Calls, Answer(c)
  PROVE  CInv'
<1> USE DEF CInv
<1> DEFINE t == Target(c)
<1>0. PICK k \in {0, via[c]} :
        /\ current' = [current EXCEPT ![t] = k]
        /\ overtaken' = overtaken \cup { d \in Calls : /\ d = c \/ pc[d] = "answered"
                                                       /\ Target(d) = t
                                                       /\ via[d] # k }
  BY DEF Answer
<1>1. /\ stage = "replay" /\ pc[c] = "served" /\ pc \in [Calls -> Steps]
      /\ pc' = [pc EXCEPT ![c] = "answered"]
      /\ UNCHANGED <<world, via, executed, started, recorder, file, stage, waitVars, usage,
                     report>>
  BY DEF Answer, Goto, Types, CallInv, InProgress
<1>2. t \in Targets /\ (\A d \in Calls : Target(d) \in Targets /\ Target(d)' = Target(d))
  BY <1>1, WorldFacts DEF Target
<1>10. k \in Nat /\ k <= started[t]
  BY <1>2 DEF CallInv, Types
<1>3. KeptInv' /\ WaitInv' /\ ReportInv' /\ Kept = recorder /\ Kept' = recorder'
  BY <1>1, ReplayFrame
<1>4. \A d \in Calls : pc'[d] = IF d = c THEN "answered" ELSE pc[d]
  BY <1>1
<1>5. \A u \in Targets : current'[u] = IF u = t THEN k ELSE current[u]
  BY <1>0, <1>2 DEF Types
<1>6. Types'
  BY <1>0, <1>1, <1>2, <1>10 DEF Types, Steps, waitVars
<1>7. CallInv'
  <2>1. \A u \in Targets : current'[u] <= started'[u]
    BY <1>1, <1>2, <1>5, <1>10 DEF CallInv
  <2>2. overtaken' \subseteq executed'
    BY <1>0, <1>1 DEF CallInv
  <2>3. ASSUME NEW d \in Calls, pc'[d] = "answered", d \notin overtaken'
        PROVE  current'[Target(d)] = via'[d]
    <3>1. CASE d = c
      BY <1>0, <1>1, <1>2, <1>5, <2>3, <3>1
    <3>2. CASE d # c /\ Target(d) = t
      BY <1>0, <1>1, <1>2, <1>4, <1>5, <2>3, <3>2
    <3>3. CASE d # c /\ Target(d) # t
      BY <1>0, <1>1, <1>2, <1>4, <1>5, <2>3, <3>3 DEF CallInv
    <3> QED
      BY <3>1, <3>2, <3>3
  <2>4. ASSUME NEW d \in Calls
        PROVE  /\ pc'[d] # "idle" => d \in world'.calls
               /\ InProgress(d)' => stage' = "replay"
               /\ pc'[d] \in {"served", "answered", "ok"} => d \in executed'
               /\ OnAgentCore' /\ pc'[d] \in {"served", "answered", "ok"} => via'[d] # 0
    BY <1>1, <1>4 DEF CallInv, OnAgentCore
  <2>5. \A d \in Calls : via'[d] <= started'[Target(d)']
    BY <1>1, <1>2 DEF CallInv
  <2> HIDE DEF t
  <2> QED
    BY <1>1, <1>2, <2>1, <2>2, <2>3, <2>4, <2>5 DEF CallInv
<1>8. OpenInv'
  <2>1. ASSUME NEW u \in Targets,
               current'[u] # 0 \/ (\E d \in Calls : Target(d)' = u /\ pc'[d] # "idle")
        PROVE  current[u] # 0 \/ (\E d \in Calls : Target(d) = u /\ pc[d] # "idle")
    BY <1>1, <1>2, <1>4, <1>5, <2>1
  <2> QED
    BY <1>1, <1>3, <2>1 DEF OpenInv
<1>9. RecordInv'
  <2>1. \A i \in DOMAIN recorder.invocations :
          recorder.invocations[i].call \in Calls /\ recorder.invocations[i].call # c
    BY <1>1, <1>3, RecordTypes DEF RecordInv
  <2>2. ~Ended(c)'
    BY <1>4 DEF Ended
  <2>3. overtaken \subseteq overtaken'
    BY <1>0
  <2> HIDE DEF t
  <2> QED
    BY <1>1, <1>2, <1>3, <1>4, <2>1, <2>2, <2>3 DEF RecordInv, Ended
<1> QED
  BY <1>3, <1>6, <1>7, <1>8, <1>9

\* What a call's record adds to the records.
LEMMA Observed ==
  ASSUME CInv, NEW c \in Calls, NEW ok \in BOOLEAN, NEW s \in Nat,
         InProgress(c), Observe(c, ok, s), s <= started[Target(c)],
         ok /\ c \notin overtaken => s = via[c],
         pc' = [pc EXCEPT ![c] = IF ok THEN "ok" ELSE "error"],
         ok => c \in executed /\ (OnAgentCore => via[c] # 0),
         UNCHANGED <<world, via, executed, current, started, overtaken, file, stage,
                     waitVars, usage, report>>
  PROVE  CInv'
<1> USE DEF CInv
<1> DEFINE entry == [call |-> c, ok |-> ok, session |-> s]
           v == recorder.invocations
           more == Append(v, entry)
<1>1. stage = "replay" /\ pc[c] # "idle" /\ pc \in [Calls -> Steps]
  BY DEF CallInv, InProgress, Types
<1>2. \A d \in Calls : Target(d) \in Targets /\ Target(d)' = Target(d)
  BY WorldFacts DEF Target
<1>3. KeptInv' /\ WaitInv' /\ ReportInv' /\ Kept = recorder /\ Kept' = recorder'
  BY <1>1, ReplayFrame
<1>4. entry \in Invocations /\ v \in Seq(Invocations) /\ recorder \in Observations
  BY RecordTypes DEF Types, Invocations
<1>5. /\ more \in Seq(Invocations)
      /\ DOMAIN more = DOMAIN v \cup {Len(v) + 1} /\ Len(v) + 1 \notin DOMAIN v
      /\ \A i \in DOMAIN v : more[i] = v[i]
      /\ more[Len(v) + 1] = entry
  BY <1>4
<1>6. recorder' = [recorder EXCEPT !.invocations = more]
  BY DEF Observe
<1>7. /\ recorder' \in Observations
      /\ recorder'.sessions = recorder.sessions /\ recorder'.invocations = more
  <2> HIDE DEF more
  <2> QED
    BY <1>4, <1>5, <1>6 DEF Observations
<1>8. entry.call = c /\ entry.ok = ok /\ entry.session = s
  OBVIOUS
<1>9. PICK n : n = Len(v) + 1
  OBVIOUS
<1>10. /\ DOMAIN more = DOMAIN v \cup {n} /\ n \notin DOMAIN v
       /\ more[n] = entry /\ (\A i \in DOMAIN v : more[i] = v[i])
  BY <1>5, <1>9
<1>11. \A d \in Calls : pc'[d] = IF d = c THEN (IF ok THEN "ok" ELSE "error") ELSE pc[d]
  BY <1>1
<1>12. \A i \in DOMAIN v : v[i].call \in Calls /\ v[i].call # c
  BY <1>1, <1>3, RecordTypes DEF RecordInv, InProgress
<1> HIDE DEF more, v, entry
<1>13. Types'
  BY <1>1, <1>7 DEF Types, Steps, waitVars
<1>14. CallInv'
  BY <1>1, <1>2, <1>11 DEF CallInv, InProgress, OnAgentCore
<1>15. OpenInv'
  <2>1. ASSUME NEW u \in Targets,
               current'[u] # 0 \/ (\E d \in Calls : Target(d)' = u /\ pc'[d] # "idle")
        PROVE  current[u] # 0 \/ (\E d \in Calls : Target(d) = u /\ pc[d] # "idle")
    BY <1>1, <1>2, <1>11, <2>1
  <2> QED
    BY <1>1, <1>3, <1>7, <2>1 DEF OpenInv
<1>16. RecordInv'
  <2>1. ASSUME NEW i \in DOMAIN more
        PROVE  /\ pc'[more[i].call] = IF more[i].ok THEN "ok" ELSE "error"
               /\ more[i].session <= started'[Target(more[i].call)]
               /\ more[i].ok /\ more[i].call \notin overtaken'
                    => more[i].session = via'[more[i].call]
    <3>1. CASE i = n
      BY <1>8, <1>10, <1>11, <3>1
    <3>2. CASE i \in DOMAIN v
      <4>1. more[i] = v[i] /\ v[i].call \in Calls /\ v[i].call # c
        BY <1>10, <1>12, <3>2
      <4>2. pc'[v[i].call] = pc[v[i].call]
        BY <1>11, <4>1
      <4> QED
        BY <1>3, <3>2, <4>1, <4>2 DEF RecordInv, v
    <3> QED
      BY <1>10, <3>1, <3>2
  <2>2. ASSUME NEW i \in DOMAIN more, NEW j \in DOMAIN more, more[i].call = more[j].call
        PROVE  i = j
    <3>1. \A k, l \in DOMAIN v : v[k].call = v[l].call => k = l
      BY <1>3 DEF RecordInv, v
    <3> QED
      BY <1>8, <1>10, <1>12, <2>2, <3>1
  <2>3. ASSUME NEW d \in Calls, Ended(d)'
        PROVE  \E i \in DOMAIN more : more[i].call = d
    <3>1. CASE d = c
      BY <1>8, <1>10, <3>1
    <3>2. CASE d # c
      <4>1. Ended(d)
        BY <1>11, <2>3, <3>2 DEF Ended
      <4>2. \E i \in DOMAIN v : v[i].call = d
        BY <1>3, <4>1 DEF RecordInv, v
      <4> QED
        BY <1>10, <4>2
    <3> QED
      BY <3>1, <3>2
  <2>4. \A i \in DOMAIN more : more[i].call \in Calls
    BY <1>8, <1>10, <1>12
  <2> QED
    BY <1>2, <1>3, <1>7, <2>1, <2>2, <2>3, <2>4 DEF RecordInv
<1> QED
  BY <1>3, <1>13, <1>14, <1>15, <1>16

LEMMA RecordStep ==
  ASSUME CInv, NEW c \in Calls, Record(c) \/ Fail(c)
  PROVE  CInv'
<1>1. Target(c) \in Targets /\ current[Target(c)] \in Nat /\ started[Target(c)] \in Nat
  BY WorldFacts DEF CInv, Types
<1>2. CASE Record(c)
  <2>1. /\ InProgress(c) /\ pc[c] = "answered"
        /\ Observe(c, TRUE, current[Target(c)])
        /\ pc' = [pc EXCEPT ![c] = "ok"]
        /\ UNCHANGED <<world, via, executed, current, started, overtaken, file, stage,
                       waitVars, usage, report>>
    BY <1>2 DEF Record, InProgress, Goto
  <2>2. /\ current[Target(c)] <= started[Target(c)]
        /\ c \notin overtaken => current[Target(c)] = via[c]
        /\ c \in executed /\ (OnAgentCore => via[c] # 0)
    BY <1>1, <2>1 DEF CInv, CallInv
  <2> QED
    BY <1>1, <2>1, <2>2, Observed
<1>3. CASE Fail(c)
  <2>1. /\ InProgress(c) /\ Observe(c, FALSE, 0)
        /\ pc' = [pc EXCEPT ![c] = "error"]
        /\ UNCHANGED <<world, via, executed, current, started, overtaken, file, stage,
                       waitVars, usage, report>>
    BY <1>3 DEF Fail, Goto
  <2>2. 0 <= started[Target(c)]
    BY <1>1
  <2> QED
    BY <2>1, <2>2, Observed
<1> QED
  BY <1>2, <1>3

-----------------------------------------------------------------------------
(* The analysis.                                                           *)

\* Once the replay is over, calls and records stay as they are.
LEMMA OverFrame ==
  ASSUME CInv, UNCHANGED <<world, replayVars>>,
         \A c \in Calls : ~InProgress(c),
         usage' \subseteq executed, Kept' = Kept, stage' # "replay"
  PROVE  CallInv' /\ OpenInv' /\ RecordInv'
<1> USE DEF CInv
<1>1. UNCHANGED <<world, pc, via, executed, current, started, overtaken>>
  BY DEF replayVars
<1>2. \A c \in Calls : Target(c)' = Target(c)
  BY <1>1 DEF Target
<1>3. CallInv'
  BY <1>1, <1>2 DEF CallInv, InProgress, OnAgentCore
<1>4. OpenInv'
  BY DEF OpenInv
<1>5. RecordInv'
  <2>1. \A i \in DOMAIN Kept.invocations : Target(Kept.invocations[i].call)'
                                             = Target(Kept.invocations[i].call)
    BY <1>1 DEF Target
  <2> QED
    BY <1>1, <2>1 DEF RecordInv, Ended
<1> QED
  BY <1>3, <1>4, <1>5

LEMMA ArriveStep ==
  ASSUME CInv, NEW c \in Calls, Arrive(c)
  PROVE  CInv'
<1> USE DEF CInv
<1>1. /\ stage \in {"wait", "down", "collect"} /\ c \in executed
      /\ usage' = usage \cup {c}
      /\ UNCHANGED <<world, replayVars, recorder, file, stage, waitVars, report>>
  BY DEF Arrive
<1>2. UNCHANGED <<world, pc, via, executed, current, started, overtaken, clock, rows,
                  polled, ready, waited>>
  BY <1>1 DEF replayVars, waitVars
<1>3. Kept' = Kept
  BY <1>1 DEF Kept
<1>4. Types'
  BY <1>1, <1>2 DEF Types
<1>5. CallInv' /\ OpenInv' /\ RecordInv'
  <2>1. usage' \subseteq executed /\ (\A d \in Calls : ~InProgress(d))
    BY <1>1 DEF CallInv
  <2> QED
    BY <1>1, <1>3, <2>1, OverFrame
<1>6. KeptInv' /\ WaitInv'
  BY <1>1, <1>2, <1>3 DEF KeptInv, WaitInv
<1>7. ReportInv'
  BY <1>1, NoReportYetPrimed DEF ReportInv
<1> QED
  BY <1>4, <1>5, <1>6, <1>7

\* The rows are drawn up from the records, which are saved.
LEMMA EndReplayStep ==
  ASSUME CInv, EndReplay
  PROVE  CInv'
<1> USE DEF CInv
<1>1. /\ stage = "replay" /\ stage' = "wait" /\ file' = recorder
      /\ rows' = SessionRows \/ rows' = <<>>
      /\ UNCHANGED <<world, replayVars, recorder, clock, polled, ready, waited, usage,
                     report>>
  BY DEF EndReplay, UsageSessions
<1>2. UNCHANGED <<world, pc, via, executed, current, started, overtaken>>
  BY <1>1 DEF replayVars
<1>3. Kept' = Kept /\ file' = Kept'
  BY <1>1 DEF Kept
<1>4. rows' \in Seq(SessionRecords) /\ Len(rows') \in Nat
  <2>1. << >> \in Seq(SessionRecords) /\ \A S : \A s \in Seq(S) : Len(s) \in Nat
    OBVIOUS
  <2> QED
    BY <1>1, <2>1, RowsFacts
<1>5. Types'
  BY <1>1, <1>2, <1>4 DEF Types
<1>6. \A c \in Calls : ~InProgress(c)
  <2>1. \A c \in world.calls : ~InProgress(c)
    BY DEF EndReplay
  <2> QED
    BY <2>1 DEF CallInv, InProgress
<1>7. CallInv' /\ OpenInv' /\ RecordInv'
  <2>1. usage' \subseteq executed
    BY <1>1 DEF CallInv
  <2> QED
    BY <1>1, <1>3, <1>6, <2>1, OverFrame
<1>8. KeptInv'
  BY <1>1, <1>3 DEF KeptInv
<1>9. WaitInv'
  <2>1. world.timeout \in Nat /\ QueryTime \in Nat
    BY WorldFacts
  <2>2. polled' = 0 /\ ready' = 0 /\ clock' = 0
    BY <1>1 DEF WaitInv
  <2> QED
    BY <1>1, <1>4, <2>1, <2>2 DEF WaitInv, Second
<1>10. ReportInv'
  BY <1>1, NoReportYetPrimed DEF ReportInv
<1> QED
  BY <1>5, <1>7, <1>8, <1>9, <1>10

\* The wait changes its own variables only.
LEMMA WaitFrame ==
  ASSUME CInv, stage = "wait", stage' \in {"wait", "collect"},
         UNCHANGED <<world, replayVars, recorder, file, rows, usage, report>>,
         clock' \in Nat, polled' \in Nat, ready' \in Nat,
         waited' \in {"no", "ready", "timeout", "offline"}
  PROVE  Types' /\ CallInv' /\ KeptInv' /\ OpenInv' /\ RecordInv' /\ ReportInv'
<1> USE DEF CInv
<1>1. UNCHANGED <<world, pc, via, executed, current, started, overtaken>>
  BY DEF replayVars
<1>2. Kept' = Kept
  BY DEF Kept
<1>3. Types'
  BY <1>1 DEF Types
<1>4. CallInv' /\ OpenInv' /\ RecordInv'
  <2>1. usage' \subseteq executed /\ (\A d \in Calls : ~InProgress(d))
    BY DEF CallInv
  <2> QED
    BY <1>2, <2>1, OverFrame
<1>5. KeptInv'
  BY <1>2 DEF KeptInv
<1>6. ReportInv'
  BY NoReportYetPrimed DEF ReportInv
<1> QED
  BY <1>3, <1>4, <1>5, <1>6

\* The pause ends before the deadline, or is a second.
LEMMA PauseBounds ==
  ASSUME Types, clock < world.timeout
  PROVE  Pause \in Nat /\ (clock + Pause <= world.timeout \/ Pause <= Second)
<1> DEFINE a == Max({Second, world.interval})
           b == Max({Second, world.timeout - clock})
<1>1. /\ world.timeout \in Nat /\ world.interval \in Nat /\ clock \in Nat
      /\ world.timeout - clock \in Nat /\ Second \in Nat
  BY WorldFacts DEF Types, Second
<1>2. \A x, y \in Nat : Max({x, y}) = IF x >= y THEN x ELSE y
  <2> SUFFICES ASSUME NEW x \in Nat, NEW y \in Nat
               PROVE  Max({x, y}) = IF x >= y THEN x ELSE y
    OBVIOUS
  <2>1. \E m \in {x, y} : \A z \in {x, y} : m >= z
    <3>1. CASE x >= y
      BY <3>1
    <3>2. CASE ~(x >= y)
      BY <3>2
    <3> QED
      BY <3>1, <3>2
  <2>2. Max({x, y}) \in {x, y} /\ \A z \in {x, y} : Max({x, y}) >= z
    BY <2>1 DEF Max
  <2>3. Max({x, y}) \in Nat /\ Max({x, y}) >= x /\ Max({x, y}) >= y
        /\ (Max({x, y}) = x \/ Max({x, y}) = y)
    BY <2>2
  <2> QED
    BY <2>3
<1>3. \A x, y \in Nat : Min({x, y}) = IF x <= y THEN x ELSE y
  <2> SUFFICES ASSUME NEW x \in Nat, NEW y \in Nat
               PROVE  Min({x, y}) = IF x <= y THEN x ELSE y
    OBVIOUS
  <2>1. \E m \in {x, y} : \A z \in {x, y} : m <= z
    <3>1. CASE x <= y
      BY <3>1
    <3>2. CASE ~(x <= y)
      BY <3>2
    <3> QED
      BY <3>1, <3>2
  <2>2. Min({x, y}) \in {x, y} /\ \A z \in {x, y} : Min({x, y}) <= z
    BY <2>1 DEF Min
  <2>3. Min({x, y}) \in Nat /\ Min({x, y}) <= x /\ Min({x, y}) <= y
        /\ (Min({x, y}) = x \/ Min({x, y}) = y)
    BY <2>2
  <2> QED
    BY <2>3
<1>4. Pause = Min({a, b})
  BY DEF Pause
<1>5. /\ a \in Nat /\ b \in Nat
      /\ b = IF Second >= world.timeout - clock THEN Second ELSE world.timeout - clock
  BY <1>1, <1>2
<1> HIDE DEF a, b
<1>6. Pause \in Nat /\ Pause <= b
  BY <1>3, <1>4, <1>5
<1> QED
  BY <1>1, <1>5, <1>6

\* A round begins before the deadline or less than a second beyond it, and
\* each of its queries takes QueryTime at most.
LEMMA WaitStep ==
  ASSUME CInv, SkipPolling \/ PollRow \/ AllReady \/ GiveUp \/ Sleep
  PROVE  CInv'
<1> USE DEF CInv
<1>1. /\ stage = "wait" /\ waited = "no"
      /\ world.timeout \in Nat /\ world.interval \in Nat /\ QueryTime \in Nat
      /\ clock \in Nat /\ polled \in Nat /\ ready \in Nat /\ Len(rows) \in Nat
      /\ ready <= polled /\ polled <= Len(rows)
      /\ world.timeout > 0 => clock <= world.timeout + Second + polled * QueryTime
  <2>1. stage = "wait"
    BY DEF SkipPolling, PollRow, AllReady, GiveUp, Sleep, RoundOver
  <2> QED
    BY <2>1, WorldFacts DEF Types, WaitInv
<1>2. CASE SkipPolling \/ AllReady \/ GiveUp
  <2>1. /\ stage' = "collect" /\ waited' \in {"no", "ready", "timeout"}
        /\ UNCHANGED <<world, replayVars, recorder, file, rows, usage, report, clock, polled,
                       ready>>
    BY <1>1, <1>2 DEF SkipPolling, AllReady, GiveUp, waitVars
  <2>2. WaitInv'
    BY <1>1, <2>1 DEF WaitInv
  <2> QED
    BY <1>1, <2>1, <2>2, WaitFrame
<1>3. CASE PollRow
  <2>1. PICK d \in 0 .. QueryTime :
          /\ polled < Len(rows) /\ polled' = polled + 1
          /\ ready' = ready + 1 \/ ready' = ready
          /\ clock' = clock + d
          /\ UNCHANGED <<world, replayVars, recorder, file, stage, rows, waited, usage,
                         report>>
    BY <1>1, <1>3 DEF PollRow
  <2>2. \A p, q \in Nat : (p + 1) * q = p * q + q /\ p * q \in Nat
    OBVIOUS
  <2>3. polled' * QueryTime = polled * QueryTime + QueryTime /\ polled * QueryTime \in Nat
    BY <1>1, <2>1, <2>2
  <2>4. world.timeout > 0 => clock' <= world.timeout + Second + polled' * QueryTime
    BY <1>1, <2>1, <2>3 DEF Second
  <2>5. WaitInv'
    BY <1>1, <2>1, <2>4 DEF WaitInv
  <2> QED
    BY <1>1, <2>1, <2>5, WaitFrame
<1>4. CASE Sleep
  <2>1. /\ world.timeout > 0 => clock < world.timeout
        /\ clock' = IF world.timeout = 0 THEN clock ELSE clock + Pause
        /\ polled' = 0 /\ ready' = 0
        /\ UNCHANGED <<world, replayVars, recorder, file, stage, rows, waited, usage,
                       report>>
    BY <1>4 DEF Sleep
  <2>2. world.timeout > 0 =>
          Pause \in Nat /\ (clock + Pause <= world.timeout \/ Pause <= Second)
    BY <2>1, PauseBounds
  <2>3. /\ clock' \in Nat
        /\ world.timeout > 0 => clock' <= world.timeout + Second
    BY <1>1, <2>1, <2>2 DEF Second
  <2>4. polled' * QueryTime = 0
    BY <1>1, <2>1
  <2>5. WaitInv'
    BY <1>1, <2>1, <2>3, <2>4 DEF WaitInv, Second
  <2> QED
    BY <1>1, <2>1, <2>3, <2>5, WaitFrame
<1> QED
  BY <1>2, <1>3, <1>4

\* A crash leaves the saved file.
LEMMA CrashStep ==
  ASSUME CInv, Crash
  PROVE  CInv'
<1> USE DEF CInv
<1>1. /\ stage \in {"wait", "collect"} /\ stage' = "down"
      /\ recorder' = NoRecords /\ waited' = "offline" /\ rows' = <<>>
      /\ UNCHANGED <<world, replayVars, file, clock, polled, ready, usage, report>>
  BY DEF Crash
<1>2. UNCHANGED <<world, pc, via, executed, current, started, overtaken>>
  BY <1>1 DEF replayVars
<1>3. Kept' = Kept
  BY <1>1 DEF Kept, KeptInv
<1>4. Types'
  BY <1>1, <1>2 DEF Types, Observations, NoRecords
<1>5. CallInv' /\ OpenInv' /\ RecordInv'
  <2>1. usage' \subseteq executed /\ (\A d \in Calls : ~InProgress(d))
    BY <1>1 DEF CallInv
  <2> QED
    BY <1>1, <1>3, <2>1, OverFrame
<1>6. KeptInv' /\ WaitInv'
  BY <1>1, <1>3 DEF KeptInv, WaitInv, Kept
<1>7. ReportInv'
  BY <1>1, NoReportYetPrimed DEF ReportInv
<1> QED
  BY <1>4, <1>5, <1>6, <1>7

\* The restored recorder is the one that the crash lost.
LEMMA ReloadStep ==
  ASSUME CInv, Reload
  PROVE  CInv'
<1> USE DEF CInv
<1>1. /\ stage = "down" /\ stage' = "collect" /\ recorder' = file
      /\ UNCHANGED <<world, replayVars, file, waitVars, usage, report>>
  BY DEF Reload
<1>2. UNCHANGED <<world, pc, via, executed, current, started, overtaken, clock, rows,
                  polled, ready, waited>>
  BY <1>1 DEF replayVars, waitVars
<1>3. Kept' = Kept
  BY <1>1 DEF Kept
<1>4. Types'
  BY <1>1, <1>2 DEF Types
<1>5. CallInv' /\ OpenInv' /\ RecordInv'
  <2>1. usage' \subseteq executed /\ (\A d \in Calls : ~InProgress(d))
    BY <1>1 DEF CallInv
  <2> QED
    BY <1>1, <1>3, <2>1, OverFrame
<1>6. KeptInv' /\ WaitInv'
  BY <1>1, <1>2, <1>3 DEF KeptInv, WaitInv, Kept
<1>7. ReportInv'
  BY <1>1, NoReportYetPrimed DEF ReportInv
<1> QED
  BY <1>4, <1>5, <1>6, <1>7

-----------------------------------------------------------------------------
(* The report.                                                             *)

\* A record that is joined with an invocation is of the same call.
LEMMA JoinedOwn ==
  ASSUME NEW i, NEW logs, NEW lost, NEW r \in Joined(i, logs, lost)
  PROVE  r.call = i.call
<1> DEFINE fetched == Fetched(i, logs, lost)
<1>1. r \in fetched /\ Key(r) \in LookedUp(i, fetched)
  BY DEF Joined
<1> HIDE DEF fetched
<1>2. \A c, d : CallId(c) # PlatformId(d)
  BY DEF CallId, PlatformId
<1>3. \A c, d : (CallId(c) = CallId(d) => c = d) /\ (PlatformId(c) = PlatformId(d) => c = d)
  BY DEF CallId, PlatformId
<1>4. \A s : s.kind = "trace" /\ Key(s) = CallId(i.call) => s.call = i.call
  BY <1>3 DEF Key
<1>5. Key(r) \in {PlatformId(i.call), CallId(i.call)}
  BY <1>1, <1>4 DEF LookedUp, RequestId
<1> QED
  BY <1>2, <1>3, <1>5 DEF Key

\* The breakdown of a call is among the records of its invocation if the query
\* that should find it was answered.
LEMMA BreakdownFound ==
  ASSUME NEW i, NEW logs, NEW lost, [call |-> i.call, kind |-> "breakdown"] \in logs,
         world.provider \in {"agentcore", "ali", "gcp"},
         Query(i, "breakdown") \notin lost
  PROVE  [call |-> i.call, kind |-> "breakdown"] \in Joined(i, logs, lost)
<1> DEFINE r == [call |-> i.call, kind |-> "breakdown"]
<1>1. r.call = i.call /\ r.kind = "breakdown" /\ Key(r) = CallId(i.call)
  BY DEF Key
<1>2. Query(i, r.kind)[1] # "call"
  BY <1>1 DEF Query
<1>3. r \in logs
  OBVIOUS
<1> HIDE DEF r
<1>4. r \in Fetched(i, logs, lost)
  BY <1>1, <1>2, <1>3 DEF Fetched, Selects
<1> QED
  BY <1>1, <1>4 DEF Joined, LookedUp, r

\* The collector finds every session that was recorded, and the evidence of
\* every invocation.
LEMMA CollectStep ==
  ASSUME CInv, Collect
  PROVE  CInv'
<1> USE DEF CInv
<1> DEFINE v == recorder.invocations
           sessions == UsageSessions
<1>1. /\ stage = "collect" /\ stage' = "done"
      /\ UNCHANGED <<world, replayVars, recorder, file, waitVars, usage>>
  BY DEF Collect
<1>2. UNCHANGED <<world, pc, via, executed, current, started, overtaken, clock, rows,
                  polled, ready, waited, recorder, file, usage>>
  BY <1>1 DEF replayVars, waitVars
<1>3. PICK logs, lost : report' = Collected(logs, lost)
  BY DEF Collect
<1>4. Kept = recorder /\ Kept' = recorder
  BY <1>1 DEF Kept
<1>5. Types'
  BY <1>1, <1>2 DEF Types
<1>6. CallInv' /\ OpenInv' /\ RecordInv'
  <2>1. usage' \subseteq executed /\ (\A d \in Calls : ~InProgress(d))
    BY <1>1 DEF CallInv
  <2> QED
    BY <1>1, <1>4, <2>1, OverFrame
<1>7. KeptInv' /\ WaitInv'
  BY <1>1, <1>2, <1>4 DEF KeptInv, WaitInv
<1>8. /\ DOMAIN report'.usage = DOMAIN sessions
      /\ \A i \in DOMAIN sessions :
           /\ report'.usage[i].row = sessions[i]
           /\ report'.usage[i].calls \subseteq UsageOf(sessions[i])
  BY <1>3 DEF Collected
<1>9. /\ DOMAIN report'.metrics = DOMAIN v
      /\ \A i \in DOMAIN v : /\ report'.metrics[i].call = v[i].call
                             /\ report'.metrics[i].records = Joined(v[i], logs, lost)
      /\ report'.logs = logs /\ report'.lost = lost
  BY <1>3 DEF Collected
<1>10. \A c \in Calls : Target(c) \in Targets /\ Target(c)' = Target(c)
  BY <1>2, WorldFacts DEF Target
<1>11. \A i \in DOMAIN v : v[i].call \in Calls
  BY RecordTypes
<1>12. SessionsCovered'
  <2> SUFFICES ASSUME OnAgentCore', NEW c \in Calls, pc'[c] = "ok", c \notin overtaken'
               PROVE  \E i \in DOMAIN report'.usage :
                        report'.usage[i].row = [target |-> Target(c)', session |-> via'[c]]
    BY DEF SessionsCovered
  <2>1. OnAgentCore /\ pc[c] = "ok" /\ c \notin overtaken /\ via[c] # 0
    BY <1>2 DEF OnAgentCore, CallInv
  <2>2. PICK i \in DOMAIN v : v[i].call = c
    BY <1>4, <2>1 DEF RecordInv, Ended
  <2>3. v[i].session = via[c]
    <3>1. pc[v[i].call] = IF v[i].ok THEN "ok" ELSE "error"
      BY <1>4 DEF RecordInv
    <3>2. v[i].ok
      BY <2>1, <2>2, <3>1
    <3>3. v[i].ok /\ v[i].call \notin overtaken => v[i].session = via[v[i].call]
      BY <1>4 DEF RecordInv
    <3> QED
      BY <2>1, <2>2, <3>2, <3>3
  <2>4. PICK k \in DOMAIN SessionRows :
          SessionRows[k] = [target |-> Target(c), session |-> via[c]]
    BY <2>1, <2>2, <2>3, RowsFacts
  <2>5. sessions = SessionRows
    BY <2>1 DEF UsageSessions
  <2> QED
    BY <1>2, <1>8, <1>10, <2>4, <2>5
<1>13. UsageOnce'
  <2> SUFFICES ASSUME NEW i \in DOMAIN report'.usage, NEW j \in DOMAIN report'.usage, i # j
               PROVE  report'.usage[i].calls \cap report'.usage[j].calls = {}
    BY DEF UsageOnce
  <2>1. sessions[i] \in SessionRecords /\ sessions[j] \in SessionRecords
        /\ sessions[i] # sessions[j]
    <3>1. \A S : \A s \in Seq(S) : \A k \in DOMAIN s : s[k] \in S
      OBVIOUS
    <3>2. CASE OnAgentCore
      <4>1. sessions = SessionRows
        BY <3>2 DEF UsageSessions
      <4> QED
        BY <1>8, <3>1, <4>1, RowsFacts
    <3>3. CASE ~OnAgentCore
      <4>1. sessions = <<>> /\ DOMAIN sessions = {}
        BY <3>3 DEF UsageSessions
      <4> QED
        BY <1>8, <4>1
    <3> QED
      BY <3>2, <3>3
  <2>2. sessions[i].target # sessions[j].target \/ sessions[i].session # sessions[j].session
    <3> HIDE DEF sessions
    <3> QED
      BY <2>1 DEF SessionRecords
  <2>3. UsageOf(sessions[i]) \cap UsageOf(sessions[j]) = {}
    BY <2>2 DEF UsageOf
  <2> HIDE DEF sessions
  <2> QED
    BY <1>8, <2>3
<1>14. EvidenceJoined'
  <2>1. ASSUME NEW c \in Calls, Ended(c)'
        PROVE  Cardinality({ i \in DOMAIN report'.metrics : report'.metrics[i].call = c }) = 1
    <3>1. PICK k \in DOMAIN v : v[k].call = c
      BY <1>2, <1>4, <2>1 DEF RecordInv, Ended
    <3>2. \A i \in DOMAIN v : v[i].call = c => i = k
      BY <1>4, <3>1 DEF RecordInv
    <3>3. { i \in DOMAIN report'.metrics : report'.metrics[i].call = c } = {k}
      BY <1>9, <3>1, <3>2
    <3> QED
      BY <3>3, FS_Singleton
  <2>2. ASSUME NEW i \in DOMAIN report'.metrics
        PROVE  /\ \A r \in report'.metrics[i].records : r.call = report'.metrics[i].call
               /\ /\ world'.provider # "lambda"
                  /\ [call |-> report'.metrics[i].call, kind |-> "breakdown"] \in report'.logs
                  /\ Query(recorder.invocations[i], "breakdown")' \notin report'.lost
                  => [call |-> report'.metrics[i].call, kind |-> "breakdown"]
                       \in report'.metrics[i].records
    <3>1. i \in DOMAIN v
      BY <1>9
    <3>2. Query(recorder.invocations[i], "breakdown")' = Query(v[i], "breakdown")
      BY <1>2 DEF Query, Target
    <3>3. world.provider \in {"lambda", "agentcore", "ali", "gcp"} /\ world' = world
      BY <1>2, WorldFacts
    <3> HIDE DEF v
    <3>4. \A r \in Joined(v[i], logs, lost) : r.call = v[i].call
      BY JoinedOwn
    <3>5. /\ world.provider # "lambda"
          /\ [call |-> v[i].call, kind |-> "breakdown"] \in logs
          /\ Query(v[i], "breakdown") \notin lost
          => [call |-> v[i].call, kind |-> "breakdown"] \in Joined(v[i], logs, lost)
      BY <3>3, BreakdownFound
    <3> QED
      BY <1>9, <3>1, <3>2, <3>3, <3>4, <3>5
  <2> QED
    BY <2>1, <2>2 DEF EvidenceJoined
<1>15. ReportInv'
  BY <1>1, <1>12, <1>13, <1>14 DEF ReportInv
<1> QED
  BY <1>5, <1>6, <1>7, <1>15

-----------------------------------------------------------------------------
(* Every step.                                                             *)

LEMMA Stutter ==
  ASSUME CInv, UNCHANGED vars
  PROVE  CInv'
<1> USE DEF CInv
<1>1. UNCHANGED <<world, pc, via, executed, current, started, overtaken, recorder, file,
                  stage, clock, rows, polled, ready, waited, usage, report>>
  BY DEF vars, replayVars, waitVars
<1>2. Types' /\ KeptInv' /\ OpenInv' /\ WaitInv'
  BY <1>1 DEF Types, KeptInv, OpenInv, WaitInv, Kept, Target
<1>3. CallInv'
  BY <1>1 DEF CallInv, InProgress, OnAgentCore, Target
<1>4. RecordInv'
  BY <1>1 DEF RecordInv, Ended, Kept, Target
<1>5. ReportInv'
  BY <1>1 DEF ReportInv, SessionsCovered, UsageOnce, EvidenceJoined, OnAgentCore, Target,
              Ended, Query
<1> QED
  BY <1>2, <1>3, <1>4, <1>5

LEMMA NextStep ==
  ASSUME CInv, [Next]_vars
  PROVE  CInv'
<1>1. CASE \E c \in Calls : \/ Send(c) \/ Serve(c) \/ Answer(c) \/ Record(c) \/ Fail(c)
                            \/ Arrive(c)
  BY <1>1, SendStep, ServeStep, AnswerStep, RecordStep, ArriveStep
<1>2. CASE EndReplay
  BY <1>2, EndReplayStep
<1>3. CASE Analysis
  BY <1>3, WaitStep, ReloadStep, CollectStep DEF Analysis
<1>4. CASE Crash
  BY <1>4, CrashStep
<1>5. CASE Stopped \/ UNCHANGED vars
  BY <1>5, Stutter DEF Stopped
<1> QED
  BY <1>1, <1>2, <1>3, <1>4, <1>5 DEF Next

\* The inductive invariant of a run's collection, atsuite/analysis.
THEOREM CollectionInvariant == Spec => []CInv
  BY InitHolds, NextStep, PTL DEF Spec

\* Calls, records and the wait's counters have their types, and no record of
\* an invocation names a session that the platform has not started.
THEOREM CollectionTypeCorrect == Spec => []TypeOK
<1>1. CInv => TypeOK
  <2> SUFFICES ASSUME CInv PROVE TypeOK
    OBVIOUS
  <2> USE DEF CInv
  <2>1. \A c \in Calls : Target(c) \in Targets
    BY WorldFacts
  <2>2. \A c \in Calls : via[c] \in 0 .. started[Target(c)]
    BY <2>1 DEF Types, CallInv
  <2>3. \A t \in Targets : current[t] \in 0 .. started[t]
    BY DEF Types, CallInv
  <2>4. recorder = Kept \/ recorder = NoRecords
    BY DEF Kept, KeptInv
  <2>5. \A i \in DOMAIN recorder.sessions : recorder.sessions[i].session = 0
    BY <2>4 DEF OpenInv, NoRecords
  <2>6. \A i \in DOMAIN recorder.invocations :
          /\ pc[recorder.invocations[i].call]
               = IF recorder.invocations[i].ok THEN "ok" ELSE "error"
          /\ recorder.invocations[i].session <= started[Target(recorder.invocations[i].call)]
    BY <2>4 DEF RecordInv, NoRecords
  <2>7. \A i \in DOMAIN recorder.invocations :
          recorder.invocations[i].session
            \in 0 .. started[Target(recorder.invocations[i].call)]
    <3> SUFFICES ASSUME NEW i \in DOMAIN recorder.invocations
                 PROVE  recorder.invocations[i].session
                          \in 0 .. started[Target(recorder.invocations[i].call)]
      OBVIOUS
    <3>1. PICK n \in Nat, t \in Targets :
            n = recorder.invocations[i].session /\ t = Target(recorder.invocations[i].call)
      BY <2>1, RecordTypes
    <3>2. n <= started[t] /\ started[t] \in Nat
      BY <2>6, <3>1 DEF Types
    <3>3. n \in 0 .. started[t]
      BY <3>2
    <3> QED
      BY <3>1, <3>3
  <2> QED
    BY <2>2, <2>3, <2>5, <2>6, <2>7 DEF TypeOK, Types, CallInv, WaitInv, Steps
<1> QED
  BY <1>1, CollectionInvariant, PTL

\* wait_for_ingestion ends at most a second and a round of queries after its
\* deadline, however many sessions it polls and however slow a query is.
THEOREM WaitKeepsDeadline == Spec => []WaitBounded
<1>1. CInv => WaitBounded
  <2> SUFFICES ASSUME CInv, world.timeout > 0, waited # "offline"
               PROVE  clock <= world.timeout + Second + Len(rows) * QueryTime
    BY DEF WaitBounded
  <2>1. /\ clock \in Nat /\ world.timeout \in Nat /\ polled \in Nat /\ Len(rows) \in Nat
        /\ QueryTime \in Nat /\ polled <= Len(rows)
        /\ clock <= world.timeout + Second + polled * QueryTime
    BY WorldFacts DEF CInv, Types, WaitInv
  <2>2. \A p, q, n \in Nat : p <= n => p * q <= n * q /\ p * q \in Nat /\ n * q \in Nat
    OBVIOUS
  <2>3. /\ polled * QueryTime <= Len(rows) * QueryTime
        /\ polled * QueryTime \in Nat /\ Len(rows) * QueryTime \in Nat
    BY <2>1, <2>2
  <2> QED
    BY <2>1, <2>3 DEF Second
<1> QED
  BY <1>1, CollectionInvariant, PTL

\* Every session that answered a call is among those whose usage is collected,
\* unless another session's answer overtook the recording.
THEOREM SessionsCollected == Spec => []SessionsCovered
<1>1. CInv => SessionsCovered
  BY DEF CInv, ReportInv
<1> QED
  BY <1>1, CollectionInvariant, PTL

\* _agentcore_session_rows and the queries of their usage never price a usage
\* record twice.
THEOREM UsageNotDoubled == Spec => []UsageOnce
<1>1. CInv => UsageOnce
  BY DEF CInv, ReportInv
<1> QED
  BY <1>1, CollectionInvariant, PTL

\* The collectors give each call one metric, with none of another call's logs
\* and, except on Lambda, with its breakdown.
THEOREM EvidenceOfOwnCall == Spec => []EvidenceJoined
<1>1. CInv => EvidenceJoined
  BY DEF CInv, ReportInv
<1> QED
  BY <1>1, CollectionInvariant, PTL

=============================================================================
