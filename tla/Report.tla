------------------------------- MODULE Report -------------------------------
(***************************************************************************)
(* What the analysis makes of the observations of a run: the metrics of    *)
(* its calls (atsuite/analysis/collectors.py), the timeline (timeline.py), *)
(* the times of its nodes (aggregation.py) and its costs (pricing.py).     *)
(*                                                                         *)
(* Times and durations are whole numbers of one unit, the 0.1 ms below     *)
(* which no application time is reported; roundings to less do not show.   *)
(* A time of 0 is one that is missing, as in the code.  Rates are left     *)
(* out: a charge is the time, or the number of requests, that is paid.     *)
(***************************************************************************)
EXTENDS Integers, SequencesExt

CONSTANTS
  NoRecord,  (* A record that was not found.                               *)
  Grain,     (* The time that Cloud Run bills as a whole: 100 ms; and the  *)
  Whole      (* one that Lambda does: 1 ms.                                *)

\* Breakdowns have [wall, start, run, ran, end], times of the server's clock,
\* and [app, tool, pre, post], durations.
Breakdowns == [wall : Nat, start : Nat, run : Nat, ran : Nat, end : Nat,
               app : Nat, tool : Nat, pre : Nat, post : Nat]

\* Of the platform's records, only a Lambda REPORT line has the billed duration.
PlatformRecords == [schedule : Nat, init : Nat, receive : Nat, response : Nat,
                    billed : Nat]

ASSUME ReportAssumption ==
  /\ NoRecord \notin Breakdowns \cup PlatformRecords
  /\ Grain \in Nat \ {0} /\ Whole \in Nat \ {0}

Positive(n) == IF n > 0 THEN n ELSE 0

Providers == {"ali", "lambda", "agentcore", "gcp", "gateway"}

-----------------------------------------------------------------------------
(* Metrics. *)

\* _normalise_breakdown_fields: what is missing is derived from durations.
Normalised(b) ==
  LET start == IF b.start # 0 THEN b.start ELSE b.wall
      end == IF start # 0 /\ b.end = 0 /\ b.app > 0 THEN start + b.app ELSE b.end
      run == IF start # 0 /\ b.run = 0 THEN start + b.pre ELSE b.run
      ran == IF b.ran # 0 THEN b.ran
             ELSE IF run # 0 /\ b.tool > 0 THEN run + b.tool
             ELSE IF end # 0 /\ b.post > 0 THEN Positive(end - b.post)
             ELSE 0
  IN  [b EXCEPT !.start = start, !.end = end, !.ran = ran,
                !.run = IF run = 0 /\ ran # 0 /\ b.tool > 0
                        THEN Positive(ran - b.tool) ELSE run]

\* A call's observation is [sent, back]; without a record of the platform the
\* client's time is all that is known of it.
Observed(o) ==
  [client |-> o.back - o.sent, elapsed |-> o.back - o.sent, duration |-> 0,
   active |-> 0, billed |-> 0, init |-> 0, receive |-> 0, response |-> 0,
   breakdown |-> NoRecord]

\* A platform's record without a duration gives no span.
WithDuration(m, p) ==
  LET duration == p.response - p.receive
      known == duration > 0
  IN  [m EXCEPT !.elapsed = duration, !.duration = duration,
                !.receive = IF known THEN p.receive ELSE 0,
                !.response = IF known THEN p.response ELSE 0]

\* Function Compute counts the time to schedule the call as active.
AliMetric(o, p) ==
  IF p = NoRecord THEN Observed(o)
  ELSE [WithDuration(Observed(o), p) EXCEPT
          !.active = p.schedule + p.response - p.receive]

LambdaMetric(o, p) ==
  IF p = NoRecord THEN Observed(o)
  ELSE [WithDuration(Observed(o), p) EXCEPT !.billed = p.billed, !.init = p.init]

\* Nothing is logged of an AgentCore call's duration.
AgentCoreMetric(o) == [Observed(o) EXCEPT !.duration = o.back - o.sent]

GcpMetric(o, p) ==
  IF p = NoRecord THEN [Observed(o) EXCEPT !.duration = o.back - o.sent]
  ELSE WithDuration(Observed(o), p)

\* The provider's collector makes a call's metric, and joins its breakdown.
Metric(provider, o, p, b) ==
  LET m == CASE provider = "ali"       -> AliMetric(o, p)
             [] provider = "lambda"    -> LambdaMetric(o, p)
             [] provider = "agentcore" -> AgentCoreMetric(o)
             [] provider = "gcp"       -> GcpMetric(o, p)
             [] OTHER                  -> Observed(o)
  IN  IF b = NoRecord \/ provider = "gateway" THEN m
      ELSE [m EXCEPT !.breakdown = Normalised(b)]

App(m)  == IF m.breakdown = NoRecord THEN 0 ELSE m.breakdown.app
Tool(m) == IF m.breakdown = NoRecord THEN 0 ELSE m.breakdown.tool

-----------------------------------------------------------------------------
(* The timeline. *)

\* Variant: a lane is free for what starts before its last interval ends.
FreeEarly(i, end) == i.to >= end

Free(i, end) == i.from >= end

\* The order in which intervals [id, from, to] get their lanes.
Earlier(i, j) ==
  \/ i.from < j.from
  \/ i.from = j.from /\ i.to < j.to
  \/ i.from = j.from /\ i.to = j.to /\ i.id < j.id

First(intervals) == CHOOSE i \in intervals : \A j \in intervals \ {i} : Earlier(i, j)

\* One round of the loop of _allocate_lanes: of the intervals left, the first
\* gets the first lane whose last interval has ended, or a new one.
NextLane(was) ==
  LET i == First(was.left)
      end == Max({i.from, i.to})
      free == { l \in DOMAIN was.ends : Free(i, was.ends[l]) }
      lane == IF free = {} THEN Len(was.ends) + 1 ELSE Min(free)
  IN  [left |-> was.left \ {i},
       ends |-> IF free = {} THEN Append(was.ends, end)
                ELSE [was.ends EXCEPT ![lane] = end],
       lane |-> [id \in DOMAIN was.lane \cup {i.id} |->
                   IF id = i.id THEN lane ELSE was.lane[id]]]

\* _allocate_lanes: the lane of each interval whose start is known.
Lanes(intervals) ==
  LET known == { i \in intervals : i.from > 0 }
      after[k \in 0 .. Cardinality(known)] ==
        IF k = 0 THEN [left |-> known, ends |-> <<>>, lane |-> <<>>]
        ELSE NextLane(after[k - 1])
  IN  after[Cardinality(known)].lane

\* A span is drawn if its start is known and its end is not before it.
Span(track, from, to) ==
  IF from > 0 /\ to >= from THEN {[track |-> track, from |-> from, to |-> to]} ELSE {}

\* _app_times derives what is missing once more.
AppTimes(b) == Normalised(b)

\* _add_app_phases, for the tracks of the target, which all of its processes
\* share.  Without a start nothing is drawn.
AppSpans(m) ==
  LET b == AppTimes(m.breakdown) IN
  IF m.breakdown = NoRecord \/ (b.start = 0 /\ b.run = 0) THEN {}
  ELSE Span("app", b.start, b.end)
       \cup Span("tool", b.run, b.ran)
       \cup (IF b.start # 0 /\ b.run >= b.start THEN Span("pre", b.start, b.run) ELSE {})
       \cup (IF b.ran # 0 /\ b.end >= b.ran THEN Span("post", b.ran, b.end) ELSE {})

\* _add_provider_phases.
ProviderSpans(m) == Span("provider", m.receive, m.response)

-----------------------------------------------------------------------------
(* Node rows. *)

Compute(m) == IF Tool(m) > 0 THEN Tool(m)
              ELSE IF m.duration > 0 THEN m.duration
              ELSE m.elapsed

Platform(m) ==
  IF m.client > 0 /\ App(m) > 0 THEN Positive(m.client - App(m)) ELSE 0

Framework(m) == IF m.breakdown = NoRecord THEN 0 ELSE Positive(App(m) - Tool(m))

\* Variant: without the initialisation.
IdleWarm(n, m) == Positive(n.over - n.begin - Compute(m))

\* A node is given as [begin, over]; a node without a call has no metric.
Idle(n, m) == Positive(n.over - n.begin - Compute(m) - m.init)

-----------------------------------------------------------------------------
(* Costs. *)

\* The time t in whole grains of g.
Ceiling(t, g) == ((t + g - 1) \div g) * g

\* The time for which a call is paid.  Lambda's initialisation is added to
\* whatever is known of the rest.
Billed(provider, m) ==
  CASE provider = "ali"    -> IF m.active > 0 THEN m.active ELSE m.elapsed
    [] provider = "lambda" -> (IF m.billed > 0 THEN m.billed ELSE m.elapsed) + m.init
    [] provider = "gcp"    -> Ceiling(m.elapsed, Grain)
    [] OTHER               -> 0

\* What a call is charged for; AgentCore charges sessions, and the gateway
\* nothing.  Without time Function Compute charges the request only.
Categories(provider, m) ==
  CASE provider = "ali"    -> {"request"} \cup
                              (IF Billed(provider, m) > 0 THEN {"cpu", "memory"} ELSE {})
    [] provider = "lambda" -> {"request", "memory"}
    [] provider = "gcp"    -> {"request", "cpu", "memory"}
    [] OTHER               -> {}

=============================================================================
