----------------------------- MODULE Collection -----------------------------
(***************************************************************************)
(* How a run comes to its evidence.  Calls are recorded while the replay   *)
(* runs (atsuite/runtime.py, atsuite/analysis/observer.py); the records    *)
(* are saved; the collector waits for the usage logs of AgentCore, whose   *)
(* sessions it knows from the records only, and joins the provider's log   *)
(* records with the calls (atsuite/analysis/collectors.py).                *)
(*                                                                         *)
(* The log services are external: a record of an executed call arrives at  *)
(* some time or never.  Every call leaves one record of each kind of its   *)
(* provider; an AgentCore session has one usage record per call.  Times    *)
(* are counted in half seconds.  Diagnostics are left out.                 *)
(***************************************************************************)
EXTENDS Naturals, SequencesExt

CONSTANTS
  Calls,      (* Tool calls of the replay.                                 *)
  Targets,    (* Their targets, by name.                                   *)
  QueryTime,  (* The longest time that one query of the usage logs takes.  *)
  Worlds      (* The replays considered.                                   *)

ASSUME CollectionAssumption ==
  /\ QueryTime \in Nat
  /\ \A w \in Worlds :
       /\ w.provider \in {"lambda", "agentcore", "ali", "gcp"}
       /\ w.calls    \subseteq Calls
       /\ w.target   \in [Calls -> Targets]
       /\ w.needs    \in [Calls -> SUBSET Calls]  \* calls that precede it
       /\ w.faulty   \in BOOLEAN    \* calls and queries may fail
       /\ w.named    \in BOOLEAN    \* every response names its session
       /\ w.timeout  \in Nat        \* of the wait; 0 for no deadline
       /\ w.interval \in Nat        \* between two polls

VARIABLES
  world,
  pc,        (* Where each call is.                                        *)
  via,       (* The AgentCore session in which each call is executed.      *)
  current,   (* session_id of each target's client, 0 for None.            *)
  executed,  (* Calls that the platform has executed.                      *)
  started,   (* The number of sessions that the platform has started.      *)
  overtaken, (* Calls that were answered, and whose session the client     *)
             (* had lost before they were recorded: to the answer of       *)
             (* another session, or to one that named no session.          *)
  recorder,  (* The observations of RunRecorder.                           *)
  file,      (* The saved events.                                          *)
  stage,     (* Where the analysis is.                                     *)
  clock,     (* Time since the wait began, if it has a deadline.           *)
  rows,      (* The sessions whose usage is waited for.                    *)
  polled,    (* Sessions polled in this round.                             *)
  ready,     (* Those of them whose usage was found.                       *)
  waited,    (* How the wait ended.                                        *)
  usage,     (* Calls whose usage record has arrived.                      *)
  report     (* What was collected.                                        *)

replayVars == <<pc, via, executed, current, started, overtaken>>
waitVars == <<clock, rows, polled, ready, waited>>
vars == <<world, replayVars, recorder, file, stage, waitVars, usage, report>>

-----------------------------------------------------------------------------

Target(c) == world.target[c]
OnAgentCore == world.provider = "agentcore"
Ended(c) == pc[c] \in {"ok", "error"}
InProgress(c) == pc[c] \in {"sent", "served", "answered"}

NoRecords == [sessions |-> <<>>, invocations |-> <<>>]
NoReport == [metrics |-> <<>>, usage |-> <<>>, logs |-> {}, lost |-> {}]

Init ==
  /\ world \in Worlds
  /\ pc = [c \in Calls |-> "idle"]
  /\ via = [c \in Calls |-> 0]
  /\ current = [t \in Targets |-> 0]
  /\ executed = {}
  /\ started = [t \in Targets |-> 0]
  /\ overtaken = {}
  /\ recorder = NoRecords
  /\ file = NoRecords
  /\ stage = "replay"
  /\ clock = 0 /\ rows = <<>> /\ polled = 0 /\ ready = 0 /\ waited = "no"
  /\ usage = {}
  /\ report = NoReport

Goto(c, p) == pc' = [pc EXCEPT ![c] = p]

-----------------------------------------------------------------------------
(* The replay. *)

\* A worker opens the target's session, if nobody did, and sends its request.
\* Opening is recorded with the session that the client has by then: none,
\* as initialize sends nothing.
Send(c) ==
  /\ c \in world.calls
  /\ stage = "replay"
  /\ pc[c] = "idle"
  /\ \A d \in world.needs[c] : pc[d] = "ok"
  /\ via' = [via EXCEPT ![c] = current[Target(c)]]
  /\ LET opened == \E i \in DOMAIN recorder.sessions :
                      recorder.sessions[i].target = Target(c)
         session == [target |-> Target(c), session |-> current[Target(c)]]
     IN  recorder' = IF ~opened
                     THEN [recorder EXCEPT !.sessions = Append(@, session)]
                     ELSE recorder
  /\ Goto(c, "sent")
  /\ UNCHANGED <<world, executed, current, started, overtaken, file, stage,
                 waitVars, usage, report>>

\* The platform executes the call, on AgentCore in a new session if the
\* request names none.
Serve(c) ==
  /\ pc[c] = "sent"
  /\ LET t == Target(c)
         new == OnAgentCore /\ via[c] = 0
     IN  /\ started' = IF new THEN [started EXCEPT ![t] = @ + 1] ELSE started
         /\ via' = IF new THEN [via EXCEPT ![c] = started[t] + 1] ELSE via
  /\ executed' = executed \cup {c}
  /\ Goto(c, "served")
  /\ UNCHANGED <<world, current, overtaken, recorder, file, stage, waitVars,
                 usage, report>>

\* The response reaches the client, which takes over the session that its
\* header names, or none, whether it reports a result or (see Fail) an error.
Answer(c) ==
  /\ pc[c] = "served"
  /\ \E k \in {via[c]} \cup (IF world.named THEN {} ELSE {0}) :
       /\ current' = [current EXCEPT ![Target(c)] = k]
       /\ overtaken' = overtaken \cup
            { d \in Calls : /\ d = c \/ pc[d] = "answered"
                            /\ Target(d) = Target(c)
                            /\ via[d] # k }
  /\ Goto(c, "answered")
  /\ UNCHANGED <<world, via, executed, started, recorder, file, stage,
                 waitVars, usage, report>>

Observe(c, ok, session) ==
  recorder' = [recorder EXCEPT !.invocations =
    Append(@, [call |-> c, ok |-> ok, session |-> session])]

\* Variant: a call is recorded without the session of its response.
RecordOpened(c) ==
  /\ pc[c] = "answered"
  /\ Observe(c, TRUE, 0)
  /\ Goto(c, "ok")
  /\ UNCHANGED <<world, via, executed, current, started, overtaken, file,
                 stage, waitVars, usage, report>>

\* MCPRuntimeAdapter.invoke reads the client's session once more, and the
\* call is recorded with what it finds.
Record(c) ==
  /\ pc[c] = "answered"
  /\ Observe(c, TRUE, current[Target(c)])
  /\ Goto(c, "ok")
  /\ UNCHANGED <<world, via, executed, current, started, overtaken, file,
                 stage, waitVars, usage, report>>

\* The request or its response is lost, or the response, whose session the
\* client has taken by then ("answered"), reports an error: the call is
\* recorded without the session and the provider's request id.
Fail(c) ==
  /\ world.faulty
  /\ InProgress(c)
  /\ Observe(c, FALSE, 0)
  /\ Goto(c, "error")
  /\ UNCHANGED <<world, via, executed, current, started, overtaken, file,
                 stage, waitVars, usage, report>>

-----------------------------------------------------------------------------
(* The wait for usage logs. *)

\* The sessions named in the records, opened ones first.
FoundRows ==
  recorder.sessions \o
  [i \in DOMAIN recorder.invocations |->
     [target  |-> Target(recorder.invocations[i].call),
      session |-> recorder.invocations[i].session]]

\* Variant: session rows without the check for a row that is there already.
SessionRowsAll == SelectSeq(FoundRows, LAMBDA row : row.session # 0)

\* A row is added unless it has no id or is there already.
AddRow(done, row) ==
  IF row.session = 0 \/ row \in ToSet(done) THEN done ELSE Append(done, row)

\* _agentcore_session_rows: each session once, those without an id left out.
SessionRows ==
  LET rowsTo[n \in 0 .. Len(FoundRows)] ==
        IF n = 0 THEN <<>> ELSE AddRow(rowsTo[n - 1], FoundRows[n])
  IN  rowsTo[Len(FoundRows)]

\* The sessions whose usage is waited for and collected: AgentCore's only.
UsageSessions == IF OnAgentCore THEN SessionRows ELSE <<>>

\* The replay is over, complete or aborted by a failed call, and
\* Analyzer.end saves the events before the analysis begins with the wait.
EndReplay ==
  /\ stage = "replay"
  /\ \A c \in world.calls :
       ~InProgress(c) /\ (pc[c] = "idle" => \E d \in Calls : pc[d] = "error")
  /\ file' = recorder
  /\ stage' = "wait"
  /\ rows' = UsageSessions
  /\ UNCHANGED <<world, replayVars, recorder, clock, polled, ready, waited,
                 usage, report>>

\* What a query of the usage logs finds for a row.
UsageOf(row) ==
  { c \in usage : Target(c) = row.target /\ via[c] = row.session }

\* A usage record arrives.  Arrivals before the wait are the same to the
\* collector as arrivals at its beginning.
Arrive(c) ==
  /\ OnAgentCore
  /\ stage \in {"wait", "down", "collect"}
  /\ c \in executed \ usage
  /\ usage' = usage \cup {c}
  /\ UNCHANGED <<world, replayVars, recorder, file, stage, waitVars, report>>

\* Other providers sleep for a fixed time; without a session there is
\* nothing to wait for.
SkipPolling ==
  /\ stage = "wait"
  /\ rows = <<>>
  /\ stage' = "collect"
  /\ UNCHANGED <<world, replayVars, recorder, file, waitVars, usage, report>>

\* A row is polled; a query that fails counts as no usage.
PollRow ==
  /\ stage = "wait"
  /\ polled < Len(rows)
  /\ polled' = polled + 1
  /\ \E found \in {TRUE} \cup (IF world.faulty THEN {FALSE} ELSE {}) :
       ready' = IF found /\ UsageOf(rows[polled + 1]) # {}
                THEN ready + 1 ELSE ready
  /\ \E d \in 0 .. (IF world.timeout = 0 THEN 0 ELSE QueryTime) :
       clock' = clock + d
  /\ UNCHANGED <<world, replayVars, recorder, file, stage, rows, waited,
                 usage, report>>

RoundOver ==
  /\ stage = "wait" /\ rows # <<>>
  /\ polled = Len(rows)

\* Every session was found ready in one round.
AllReady ==
  /\ RoundOver
  /\ ready = Len(rows)
  /\ stage' = "collect" /\ waited' = "ready"
  /\ UNCHANGED <<world, replayVars, recorder, file, clock, rows, polled,
                 ready, usage, report>>

\* The deadline, looked at between rounds, has passed.
GiveUp ==
  /\ RoundOver
  /\ ready < Len(rows)
  /\ world.timeout > 0 /\ clock >= world.timeout
  /\ stage' = "collect" /\ waited' = "timeout"
  /\ UNCHANGED <<world, replayVars, recorder, file, clock, rows, polled,
                 ready, usage, report>>

Second == 2

\* Variant: the pause does not look at the deadline.
PauseFixed == Max({Second, world.interval})

\* Variant: the pause may be shorter than a second.
PauseUnclamped == Min({world.interval, world.timeout - clock})

\* The pause between two polls: not beyond the deadline, but never less than
\* a second.
Pause == Min({ Max({Second, world.interval}),
               Max({Second, world.timeout - clock}) })

\* Variant: the count of ready sessions goes on over the rounds.
SleepKeepsReady ==
  /\ RoundOver
  /\ ready < Len(rows)
  /\ world.timeout > 0 => clock < world.timeout
  /\ clock' = IF world.timeout = 0 THEN clock ELSE clock + Pause
  /\ polled' = 0 /\ ready' = ready
  /\ UNCHANGED <<world, replayVars, recorder, file, stage, rows, waited,
                 usage, report>>

\* Nothing but the clock tells a round from the one before; without a
\* deadline it is not read, and stands still here.
Sleep ==
  /\ RoundOver
  /\ ready < Len(rows)
  /\ world.timeout > 0 => clock < world.timeout
  /\ clock' = IF world.timeout = 0 THEN clock ELSE clock + Pause
  /\ polled' = 0 /\ ready' = 0
  /\ UNCHANGED <<world, replayVars, recorder, file, stage, rows, waited,
                 usage, report>>

-----------------------------------------------------------------------------
(* A crash during the analysis, and analyze_events from the saved file. *)

\* The process ends.  At most one crash is considered.
Crash ==
  /\ stage \in {"wait", "collect"}
  /\ waited # "offline"
  /\ stage' = "down"
  /\ recorder' = NoRecords
  /\ waited' = "offline"
  /\ rows' = <<>>
  /\ UNCHANGED <<world, replayVars, file, clock, polled, ready, usage, report>>

\* analyze_events restores the recorder and, by default, does not wait.
Reload ==
  /\ stage = "down"
  /\ recorder' = file
  /\ stage' = "collect"
  /\ UNCHANGED <<world, replayVars, file, waitVars, usage, report>>

-----------------------------------------------------------------------------
(* The join of calls and log records. *)

\* The records that an execution leaves: the platform's own (REPORT,
\* InvokeFunction, HTTP request), the SDK's breakdown and, on Google Cloud,
\* the SDK's line that maps the request to its trace.
Kinds ==
  CASE world.provider = "agentcore" -> {"breakdown"}
    [] world.provider = "gcp"       -> {"platform", "breakdown", "trace"}
    [] OTHER                        -> {"platform", "breakdown"}

Emitted == { [call |-> c, kind |-> k] : c \in executed, k \in Kinds }

\* The id that the client sends with a call, and the one that the platform
\* gives it (on Google Cloud, its trace).
CallId(c) == <<"call", c>>
PlatformId(c) == <<"platform", c>>

\* The id that is in a record.
Key(r) == IF r.kind = "platform" THEN PlatformId(r.call) ELSE CallId(r.call)

\* provider_request_id or call_id: a failed call has no provider_request_id,
\* and on Google Cloud the client takes its own id for it.
RequestId(i) ==
  IF i.ok /\ world.provider # "gcp" THEN PlatformId(i.call) ELSE CallId(i.call)

\* The query that looks for records of a kind for an invocation: one for the
\* invocation, for its target, or for the run.
Query(i, kind) ==
  CASE world.provider = "gcp"                       -> <<"run">>
    [] world.provider = "agentcore"                 -> <<"target", Target(i.call)>>
    [] world.provider = "ali" /\ kind = "breakdown" -> <<"target", Target(i.call)>>
    [] OTHER                                        -> <<"call", i.call>>

\* A query for an invocation returns the records that hold its RequestId.
Selects(i, r) == Query(i, r.kind)[1] = "call" => Key(r) = RequestId(i)

\* The records at hand for an invocation: all of Google Cloud's services,
\* or those of its target.
Fetched(i, logs, lost) ==
  { r \in logs : /\ world.provider = "gcp" \/ Target(r.call) = Target(i.call)
                 /\ Query(i, r.kind) \notin lost
                 /\ Selects(i, r) }

\* Variant: the join looks up the provider's id only.
LookedUpById(i, fetched) == {RequestId(i)}

\* The ids under which an invocation's records are looked up.
LookedUp(i, fetched) ==
  {RequestId(i), CallId(i.call)} \cup
  { PlatformId(r.call) : r \in { s \in fetched : /\ s.kind = "trace"
                                               /\ Key(s) = CallId(i.call) } }

Joined(i, logs, lost) ==
  LET fetched == Fetched(i, logs, lost)
  IN  { r \in fetched : Key(r) \in LookedUp(i, fetched) }

\* The collector's queries, for records of each kind and for usage.
Queries ==
  { Query(recorder.invocations[i], k) : i \in DOMAIN recorder.invocations, k \in Kinds }
  \cup { <<"usage", i>> : i \in DOMAIN UsageSessions }

\* What is collected from these logs if these queries fail.
Collected(logs, lost) ==
  [metrics |-> [i \in DOMAIN recorder.invocations |->
     [call    |-> recorder.invocations[i].call,
      records |-> Joined(recorder.invocations[i], logs, lost)]],
   usage |-> [i \in DOMAIN UsageSessions |->
     [row   |-> UsageSessions[i],
      calls |-> IF <<"usage", i>> \in lost THEN {} ELSE UsageOf(UsageSessions[i])]],
   logs |-> logs,
   lost |-> lost]

\* The collector queries and joins; any of its queries may fail, and gives
\* nothing then.
Collect ==
  /\ stage = "collect"
  /\ stage' = "done"
  /\ \E logs \in SUBSET Emitted, lost \in SUBSET (IF world.faulty THEN Queries ELSE {}) :
       report' = Collected(logs, lost)
  /\ UNCHANGED <<world, replayVars, recorder, file, waitVars, usage>>

-----------------------------------------------------------------------------

Stopped == stage = "done" /\ UNCHANGED vars

Analysis ==
  \/ SkipPolling \/ PollRow \/ AllReady \/ GiveUp \/ Sleep
  \/ Reload
  \/ Collect

Next ==
  \/ \E c \in Calls : \/ Send(c) \/ Serve(c) \/ Answer(c) \/ Record(c) \/ Fail(c)
                      \/ Arrive(c)
  \/ EndReplay
  \/ Analysis
  \/ Crash
  \/ Stopped

\* The process runs until it crashes, and is started again.
Spec == Init /\ [][Next]_vars /\ WF_vars(Analysis)

-----------------------------------------------------------------------------
(* Properties *)

TypeOK ==
  /\ world \in Worlds
  /\ pc \in [Calls -> {"idle", "sent", "served", "answered", "ok", "error"}]
  /\ \A c \in Calls : via[c] \in 0 .. started[Target(c)]
  /\ \A t \in Targets : current[t] \in 0 .. started[t]
  /\ overtaken \cup usage \subseteq executed /\ executed \subseteq Calls
  /\ \A i \in DOMAIN recorder.sessions : recorder.sessions[i].session = 0
  /\ \A i \in DOMAIN recorder.invocations :
       LET inv == recorder.invocations[i] IN
       /\ pc[inv.call] = IF inv.ok THEN "ok" ELSE "error"
       /\ inv.session \in 0 .. started[Target(inv.call)]
  /\ stage \in {"replay", "wait", "collect", "down", "done"}
  /\ clock \in Nat
  /\ ready <= polled
  /\ waited \in {"no", "ready", "timeout", "offline"}

\* The session of a call that was answered is among the sessions whose usage
\* is collected, also after a crash, unless the client had lost it between
\* the answer and its recording, or the answer did not name it.
SessionsCovered ==
  stage = "done" /\ OnAgentCore =>
    \A c \in Calls : pc[c] = "ok" /\ c \notin overtaken =>
      \E i \in DOMAIN report.usage :
        report.usage[i].row = [target |-> Target(c), session |-> via[c]]

\* No usage record is priced twice, however often its session was recorded.
UsageOnce ==
  \A i, j \in DOMAIN report.usage :
    i # j => report.usage[i].calls \cap report.usage[j].calls = {}

\* The wait outlasts its deadline by one second and one round of queries.
WaitBounded ==
  world.timeout > 0 /\ waited # "offline" =>
    clock <= world.timeout + Second + Len(rows) * QueryTime

\* Each call has one metric, with nothing of another call's logs.
\* Except on Lambda, the breakdown is in it whenever the query that should
\* find it could.
EvidenceJoined ==
  stage = "done" =>
    /\ \A c \in Calls : Ended(c) =>
         Cardinality({ i \in DOMAIN report.metrics :
                         report.metrics[i].call = c }) = 1
    /\ \A i \in DOMAIN report.metrics :
         LET m == report.metrics[i]
             breakdown == [call |-> m.call, kind |-> "breakdown"]
         IN  /\ \A r \in m.records : r.call = m.call
             /\ /\ world.provider # "lambda"
                /\ breakdown \in report.logs
                /\ Query(recorder.invocations[i], "breakdown") \notin report.lost
                => breakdown \in m.records

\* What the time model says of the collectors: on Lambda the breakdown of a
\* call that was answered is joined with it, by its call id or by the
\* provider's request id; on Function Compute no breakdown gets into a metric.
BreakdownClaims ==
  stage = "done" =>
    \A i \in DOMAIN report.metrics :
      LET breakdown == [call |-> report.metrics[i].call, kind |-> "breakdown"]
      IN  /\ world.provider = "lambda" /\ breakdown \in report.logs
               => breakdown \in report.metrics[i].records
          /\ world.provider = "ali" => breakdown \notin report.metrics[i].records

\* A wait that has a deadline comes to its end, and the run to its report,
\* although usage may never arrive, queries fail and the process crashes.
AnalysisEnds ==
  (stage = "wait" /\ (world.timeout > 0 \/ ~OnAgentCore)) ~> stage = "done"

=============================================================================
