------------------------------- MODULE Timing -------------------------------
(***************************************************************************)
(* The times of a run, from the clocks to the report.  Clients take the    *)
(* times of their calls on one clock (atsuite/invoker.py, runtime.py); the *)
(* servers theirs on others, a monotonic one for durations and a wall      *)
(* clock that may be set (atsuite_sdk/mcp_server.py, function.py); and the *)
(* analysis puts them together (Report).                                   *)
(*                                                                         *)
(* A place is one process of a server.  Its event loop, or its only        *)
(* thread, does one thing at a time.  The platforms and their logs are     *)
(* external.                                                               *)
(***************************************************************************)
EXTENDS Report

CONSTANTS
  Nodes,      (* Trace nodes, numbers.                                     *)
  Places,
  Threshold,  (* _concurrent_request_threshold_ms.                         *)
  Kept,       (* The completed requests that an MCP server remembers, and  *)
  Limit,      (* their number beyond which it drops all but those.         *)
  MaxTime,
  Worlds

ASSUME TimingAssumption ==
  /\ Nodes \subseteq Nat /\ IsFiniteSet(Nodes) /\ MaxTime \in Nat \ {0} /\ Threshold \in Nat
  /\ Kept \in Nat /\ Limit \in Nat /\ Kept <= Limit
  /\ \A w \in Worlds :
       /\ w.provider \in Providers
       /\ w.calls \subseteq Nodes /\ w.llms \subseteq Nodes \ w.calls
       /\ w.place \in [Nodes -> Places]
       /\ w.opens \subseteq w.calls   \* those that open a session first
       /\ w.mcp      \in BOOLEAN      \* MCP servers, or function servers
       /\ w.streams  \in BOOLEAN      \* responses begin before their result,
       /\ w.streams => w.mcp          \* on MCP servers only
       /\ w.awaits   \in BOOLEAN      \* tools are asynchronous
       /\ w.faulty   \in BOOLEAN      \* calls may fail or time out
       /\ w.steps    \in BOOLEAN      \* wall clocks may be set
       /\ w.early    \in BOOLEAN      \* the platform's record includes the
       /\ w.late     \in BOOLEAN      \* way to the server, and back
       /\ w.found    \in BOOLEAN      \* the platform's record is found
       /\ w.inclusive \in BOOLEAN     \* Lambda bills the initialisation
       /\ w.logged \subseteq {"wall", "start", "run", "ran", "end"}
                                      \* wall times in a breakdown

\* When a node began, its call was sent, entered the server, its tool began
\* and ended, the response left and came back, and the node was over; 0 is
\* not yet.
Events == {"begin", "sent", "enter", "run", "ran", "leave", "back", "over"}

VARIABLES
  world,
  now,
  t,        (* The events' times for each node.                            *)
  failed,   (* Nodes whose call has failed.                                *)
  offset,   (* What each place's wall clock is ahead of the client's.      *)
  wall,     (* request_wall_ns of each call.                               *)
  recent,   (* _completed_requests of each place.                          *)
  log,      (* The breakdowns printed, in their order.                     *)
  analysed

vars == <<world, now, t, failed, offset, wall, recent, log, analysed>>

Init ==
  /\ world \in Worlds
  /\ now = 1
  /\ t = [n \in Nodes |-> [e \in Events |-> 0]]
  /\ failed = {}
  /\ offset = [p \in Places |-> 0]
  /\ wall = [n \in Nodes |-> 0]
  /\ recent = [p \in Places |-> <<>>]
  /\ log = <<>>
  /\ analysed = FALSE

Place(n) == world.place[n]
Did(n, e) == t[n][e] # 0

\* Events take place now, those of es at once.
Happen(n, es) ==
  /\ \A e \in es : ~Did(n, e)
  /\ t' = [t EXCEPT ![n] = [e \in Events |-> IF e \in es THEN now ELSE @[e]]]
  /\ UNCHANGED <<world, now, analysed>>

-----------------------------------------------------------------------------
(* The client. *)

Tick ==
  /\ now < MaxTime /\ ~analysed
  /\ now' = now + 1
  /\ UNCHANGED <<world, t, failed, offset, wall, recent, log, analysed>>

\* A call is sent at once, unless it opens its target's session before; an
\* LLM node sleeps.  Nothing begins after a failure.
Begin(n) ==
  /\ n \in world.calls \cup world.llms
  /\ failed = {} /\ ~analysed
  /\ Happen(n, IF n \in world.calls \ world.opens THEN {"begin", "sent"} ELSE {"begin"})
  /\ UNCHANGED <<failed, offset, wall, recent, log>>

Send(n) ==
  /\ n \in world.calls /\ Did(n, "begin")
  /\ Happen(n, {"sent"})
  /\ UNCHANGED <<failed, offset, wall, recent, log>>

\* end_node follows the recording of the call.
Back(n) ==
  /\ Did(n, "leave") /\ Did(n, "ran")
  /\ Happen(n, {"back", "over"})
  /\ UNCHANGED <<failed, offset, wall, recent, log>>

\* The call raises or reports an error; the server may not even know of it.
Fail(n) ==
  /\ world.faulty /\ Did(n, "sent")
  /\ Happen(n, {"back", "over"})
  /\ failed' = failed \cup {n}
  /\ UNCHANGED <<offset, wall, recent, log>>

Wake(n) ==
  /\ n \in world.llms /\ Did(n, "begin")
  /\ Happen(n, {"over"})
  /\ UNCHANGED <<failed, offset, wall, recent, log>>

-----------------------------------------------------------------------------
(* The server. *)

At(p) == { n \in world.calls : Place(n) = p /\ Did(n, "enter") }

\* An event loop runs nothing else while a tool runs that does not await; a
\* function server takes the next request when it has answered.
Runs(n)  == Did(n, "run") /\ ~Did(n, "ran")
Quiet(p) ==
  \A n \in At(p) : IF world.mcp THEN Runs(n) => world.awaits
                   ELSE Did(n, "leave")

Enter(n) ==
  /\ Did(n, "sent") /\ ~analysed
  /\ Quiet(Place(n))
  /\ Happen(n, {"enter"})
  /\ wall' = [wall EXCEPT ![n] = now + offset[Place(n)]]
  /\ UNCHANGED <<failed, offset, recent, log>>

RunTool(n) ==
  /\ Did(n, "enter") /\ ~analysed
  /\ world.mcp => Quiet(Place(n))
  /\ Happen(n, {"run"})
  /\ UNCHANGED <<failed, offset, wall, recent, log>>

ToolEnds(n) ==
  /\ Did(n, "run") /\ ~analysed
  /\ Happen(n, {"ran"})
  /\ UNCHANGED <<failed, offset, wall, recent, log>>

\* Variant: the wall clock is taken to have been read with the tool's start.
WallOfTool(n, event) == wall[n] + Positive(event - t[n]["run"])

\* _wall_from_monotonic_delta.
WallOf(n, event) == wall[n] + Positive(event - t[n]["enter"])

Least == 1

\* Variant: the latest of all remembered requests.
AppTimeAny(n) ==
  LET ends == { r.ran : r \in Range(recent[Place(n)]) }
  IN  IF ends = {} THEN now - t[n]["enter"]
      ELSE Max({Least, t[n]["ran"] - Max(ends)})

\* The application time of a request that is answered now.  If remembered
\* requests began within the threshold, it counts from the latest end of
\* their tools.
AppTime(n) ==
  LET near(r) == /\ r.enter - t[n]["enter"] < Threshold
                 /\ t[n]["enter"] - r.enter < Threshold
      ends == { r.ran : r \in { s \in Range(recent[Place(n)]) : near(s) } }
  IN  IF ends = {} THEN now - t[n]["enter"]
      ELSE Max({Least, t[n]["ran"] - Max(ends)})

Breakdown(n) ==
  LET keep(e, time) == IF e \in world.logged THEN time ELSE 0 IN
  [wall  |-> keep("wall", wall[n]),
   start |-> keep("start", wall[n]),
   run   |-> keep("run", WallOf(n, t[n]["run"])),
   ran   |-> keep("ran", WallOf(n, t[n]["ran"])),
   end   |-> keep("end", WallOf(n, now)),
   app   |-> AppTime(n),
   tool  |-> t[n]["ran"] - t[n]["run"],
   pre   |-> t[n]["run"] - t[n]["enter"],
   post  |-> now - t[n]["ran"]]

\* Variant: with a tool that has only begun.
CompleteBegun(n) == Did(n, "run")

\* A request without a tool's two times prints no breakdown.
Complete(n) == Did(n, "run") /\ Did(n, "ran")

Remember(rs, r) ==
  LET all == Append(rs, r)
  IN  IF Len(all) > Limit THEN SubSeq(all, Len(all) - Kept + 1, Len(all)) ELSE all

\* The response leaves, of a stream its beginning: the request's breakdown is
\* printed and remembered, if its tool has ended.
Leave(n) ==
  /\ Did(n, IF world.streams THEN "enter" ELSE "ran") /\ ~analysed
  /\ world.mcp => Quiet(Place(n))
  /\ Happen(n, {"leave"})
  /\ IF Complete(n)
     THEN /\ log' = Append(log, [call |-> n, payload |-> Breakdown(n)])
          /\ recent' = IF world.mcp
                       THEN [recent EXCEPT ![Place(n)] =
                               Remember(@, [enter |-> t[n]["enter"], ran |-> t[n]["ran"]])]
                       ELSE recent
     ELSE UNCHANGED <<log, recent>>
  /\ UNCHANGED <<failed, offset, wall>>

\* A place's wall clock is set, once.
SetClock(p) ==
  /\ world.steps /\ ~analysed /\ offset[p] = 0
  /\ offset' = [offset EXCEPT ![p] = 1]
  /\ UNCHANGED <<world, now, t, failed, wall, recent, log, analysed>>

-----------------------------------------------------------------------------

\* The run is over, and what has been logged by then is analysed.
Analyse ==
  /\ ~analysed
  /\ \A n \in world.calls \cup world.llms :
       IF failed = {} THEN Did(n, "over") ELSE Did(n, "begin") => Did(n, "over")
  /\ analysed' = TRUE
  /\ UNCHANGED <<world, now, t, failed, offset, wall, recent, log>>

Step(n) ==
  \/ Begin(n) \/ Send(n) \/ Back(n) \/ Fail(n) \/ Wake(n)
  \/ Enter(n) \/ RunTool(n) \/ ToolEnds(n) \/ Leave(n)

Next ==
  \/ Tick
  \/ \E n \in Nodes : Step(n)
  \/ \E p \in Places : SetClock(p)
  \/ Analyse
  \/ analysed /\ UNCHANGED vars

Spec == Init /\ [][Next]_vars

-----------------------------------------------------------------------------
(* The report of the observations. *)

Logged(n) == { i \in DOMAIN log : log[i].call = n }

BreakdownOf(n) ==
  IF Logged(n) = {} THEN NoRecord ELSE log[CHOOSE i \in Logged(n) : TRUE].payload

\* What the platform logs of a call that it has executed.
RecordOf(n) ==
  IF ~world.found \/ ~Did(n, "leave") THEN NoRecord
  ELSE LET receive == IF world.early THEN t[n]["sent"] ELSE t[n]["enter"]
           back == IF Did(n, "back") /\ t[n]["back"] >= t[n]["leave"]
                   THEN t[n]["back"] ELSE t[n]["leave"]
           response == IF world.late THEN back ELSE t[n]["leave"]
           init == receive - t[n]["sent"]
       IN  [schedule |-> init,
            init     |-> init,
            receive  |-> receive,
            response |-> response,
            billed   |-> Ceiling(response - receive
                                   + (IF world.inclusive THEN init ELSE 0), Whole)]

MetricOf(n) ==
  Metric(world.provider, [sent |-> t[n]["sent"], back |-> t[n]["back"]],
         RecordOf(n), BreakdownOf(n))

Answered == { n \in world.calls : Did(n, "back") /\ n \notin failed }
Invoked  == { n \in world.calls : Did(n, "back") }

\* A call is drawn by its invocation, a sleep by its node.
CallSpan(n) == [from |-> t[n]["sent"], to |-> t[n]["back"]]
LlmSpan(n)  == [from |-> t[n]["begin"], to |-> t[n]["over"]]

ClientSpan(n) == IF n \in world.calls THEN CallSpan(n) ELSE LlmSpan(n)

\* _client_lanes: a call without a duration keeps its lane to its node's end.
LanesOf(ns) ==
  Lanes({ LET s == ClientSpan(n) IN
          [id   |-> n,
           from |-> s.from,
           to   |-> IF s.to > s.from THEN s.to ELSE t[n]["over"]] : n \in ns })

-----------------------------------------------------------------------------
(* Properties *)

Between(n, first, second) == t[n][second] - t[n][first]

\* Events have their order, failures apart, and a request prints at most one
\* breakdown, which has all its durations.
TypeOK ==
  /\ world \in Worlds
  /\ now \in 1 .. MaxTime
  /\ t \in [Nodes -> [Events -> 0 .. now]]
  /\ failed \subseteq Invoked
  /\ offset \in [Places -> 0 .. 1]
  /\ \A n \in Nodes : Did(n, "enter") <=> wall[n] # 0
  /\ \A p \in Places : Len(recent[p]) <= Limit
  /\ \A i, j \in DOMAIN log : log[i].call = log[j].call => i = j
  /\ \A i \in DOMAIN log :
       LET n == log[i].call IN
       /\ Between(n, "enter", "run") >= 0 /\ Between(n, "run", "ran") >= 0
       /\ Between(n, "ran", "leave") >= 0

Apart(from, to, from2, to2) == to <= from2 \/ to2 <= from

\* On the timeline, the spans of a client lane do not overlap
\* (_allocate_lanes), nor do the tools of one server process that runs one at
\* a time and whose wall clock is not set (wrap_tool,
\* _wall_from_monotonic_delta), if its log has their times; those of several
\* processes, which share their target's track, may.  Calls and sleeps without
\* a duration show as points.
TracksApart ==
  analysed =>
    /\ \A ns \in {Invoked, { n \in world.llms : Did(n, "over") }} :
         LET lane == LanesOf(ns) IN
         \A m, n \in ns :
           LET x == ClientSpan(m)
               y == ClientSpan(n)
           IN  m # n /\ lane[m] = lane[n] =>
                 x.from = x.to \/ y.from = y.to \/ Apart(x.from, x.to, y.from, y.to)
    /\ \A m, n \in Invoked :
         /\ m # n /\ Place(m) = Place(n) /\ offset[Place(m)] = 0
         /\ ~(world.mcp /\ world.awaits) /\ {"run", "ran"} \subseteq world.logged
         => \A x \in AppSpans(MetricOf(m)), y \in AppSpans(MetricOf(n)) :
              x.track = "tool" /\ y.track = "tool" => Apart(x.from, x.to, y.from, y.to)

\* No other request of the server that has been answered began about when
\* the i-th one of the log did.
Alone(i) ==
  \A j \in 1 .. i - 1 :
    LET m == log[j].call
        n == log[i].call
    IN  \/ Place(m) # Place(n) \/ ~world.mcp
        \/ t[m]["enter"] - t[n]["enter"] >= Threshold
        \/ t[n]["enter"] - t[m]["enter"] >= Threshold

\* The application time that a server reports is that from the request to
\* its response, unless another request began at nearly the same time; then
\* it exceeds that by less than the threshold, and if the tools that were
\* answered before had ended when this one began, it still includes the tool
\* (_build_mcp_breakdown_payload, _build_function_breakdown_payload).
AppTimesTrue ==
  \A i \in DOMAIN log :
    LET n == log[i].call
        b == log[i].payload
        true == Between(n, "enter", "leave")
        inOrder == \A j \in 1 .. i - 1 :
          Place(log[j].call) = Place(n) => t[log[j].call]["ran"] <= t[n]["run"]
    IN  IF Alone(i) THEN b.app = true
        ELSE /\ b.app <= Max({Least, true + Threshold - 1})
             /\ inOrder => b.app >= Between(n, "run", "ran")

\* The application time of every request is the time from its start to its
\* end, that of other requests notwithstanding.
AppTimeIsRequest ==
  \A i \in DOMAIN log :
    log[i].payload.app = Between(log[i].call, "enter", "leave")

\* A request to an MCP server ends, for its breakdown, with its tool, at least
\* where no other request is near.
McpEndsWithTool ==
  world.mcp => \A i \in DOMAIN log :
    Alone(i) => log[i].payload.app = Between(log[i].call, "enter", "ran")

\* Of what the time model says of app_e2e_ms - that it is the time from the
\* start of the request to its end, and this the end of the tool - one thing at
\* least holds in every state.
AppTimeClaims == AppTimeIsRequest \/ McpEndsWithTool

\* Whether an answered call's times are known by its breakdown.
Timed(n) ==
  /\ n \in Answered /\ world.provider # "gateway"
  /\ \E i \in Logged(n) :
       \/ {"start", "run", "ran", "end"} \subseteq world.logged
       \/ world.logged = {"wall"} /\ Alone(i) /\ log[i].payload.tool > 0

\* The phases of a timed call tile the time from its request to its response,
\* whatever is done to the wall clock meanwhile; and if clocks agree, they and
\* the platform's span lie within the client's (_normalise_breakdown_fields,
\* _add_app_phases, _add_provider_phases).
SpansTile ==
  analysed =>
    \A n \in world.calls : Timed(n) =>
      LET b == MetricOf(n).breakdown
          span(track) == CHOOSE s \in AppSpans(MetricOf(n)) : s.track = track
      IN  /\ { s.track : s \in AppSpans(MetricOf(n)) } = {"app", "pre", "tool", "post"}
          /\ span("app").to - span("app").from = Between(n, "enter", "leave")
          /\ span("pre").from = span("app").from
          /\ span("tool").from = span("pre").to /\ span("post").from = span("tool").to
          /\ span("post").to = span("app").to
          /\ offset[Place(n)] = 0 =>
               \A s \in AppSpans(MetricOf(n)) \cup ProviderSpans(MetricOf(n)) :
                 t[n]["sent"] <= s.from /\ s.to <= t[n]["back"]

\* The row of an answered call leaves out nothing of its time and counts
\* nothing twice, whichever of its records were found.  Where calls are
\* charged for, they are for at least the time that their tool took, and at
\* most the client's, rounded up where the platform rounds, except that a
\* Lambda call's initialisation is added to a billed duration that may
\* include it (ReportAggregator, the pricing policies; ChargedAsBilled).
TimesAddUp ==
  analysed =>
    \A n \in Answered :
      LET m == MetricOf(n)
          billed == Billed(world.provider, m)
          most == CASE world.provider = "gcp"    -> Ceiling(m.client, Grain)
                    [] world.provider = "lambda" -> Ceiling(m.client, Whole) + m.init
                    [] OTHER                     -> m.client
      IN  /\ Compute(m) + m.init + Idle([begin |-> t[n]["begin"], over |-> t[n]["over"]], m)
               = Between(n, "begin", "over")
          /\ App(m) > 0 /\ (\A i \in Logged(n) : Alone(i)) =>
               /\ App(m) + Platform(m) = Between(n, "sent", "back")
               /\ Tool(m) + Framework(m) = App(m)
          /\ world.provider \in {"ali", "lambda", "gcp"} =>
               /\ "request" \in Categories(world.provider, m)
               /\ Tool(m) > 0 => "memory" \in Categories(world.provider, m)
               /\ Tool(m) <= billed
               /\ billed <= most

\* A Lambda call is charged for the billed duration of its REPORT line.
ChargedAsBilled ==
  analysed =>
    \A n \in Answered : world.provider = "lambda" /\ RecordOf(n) # NoRecord =>
      Billed("lambda", MetricOf(n)) = RecordOf(n).billed

=============================================================================
