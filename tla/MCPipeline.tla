----------------------------- MODULE MCPipeline -----------------------------
(***************************************************************************)
(* Instances of Pipeline for TLC: one project on each provider with        *)
(* failures, and two projects or providers whose commands interleave or    *)
(* follow each other, with and without names in common.                    *)
(***************************************************************************)
EXTENDS Pipeline, TLC

MCJobs == 1 .. 6
MCProjects == {"p", "q"}
MCResources == {"memory"}
MCDefaults == "memory" :> 1024
MCNames == {"one", "two", "a.b", "a-b", "a_b"}
MCNorm        == [n \in MCNames |-> IF n = "a.b" THEN "a_b" ELSE n]
MCServiceName == [n \in MCNames |-> IF n = "a_b" THEN "a-b" ELSE n]
MCRuntimeName == [n \in MCNames |-> IF n = "a-b" THEN "a_b" ELSE n]

Bound(t, tool, access) ==
  [trace |-> t, tool |-> tool, access |-> access, stateful |-> TRUE,
   domain |-> NoDomain]

Unit(name, node, traces, memory) ==
  [name |-> name, node |-> node, traces |-> traces, python |-> Unset,
   deploy |-> "memory" :> memory]

Server(name, nodes) ==
  [name |-> name, nodes |-> nodes, python |-> Unset, deploy |-> <<>>]

Base ==
  [file |-> "f", bench |-> "bench", trace |-> {"t", "u"}, legacy |-> FALSE,
   bindings |-> "m" :> <<Bound("t", "x", "stateless")>>
             @@ "n" :> <<Bound("u", "z", "r"), Bound("u", "y", Unset)>>,
   python  |-> "m" :> "3.10" @@ "n" :> Unset,
   units   |-> <<Unit("one", "m", <<"t">>, 64), Unit("two", "n", <<"u">>, 20480)>>,
   servers |-> <<Server("one", <<"m", "n">>)>>]

\* The same configuration after an edit, and one with equal tool names.
Edited == [Base EXCEPT !.trace = {"t"},
                       !.units = <<Unit("one", "m", <<"t">>, 256)>>,
                       !.servers = <<Server("one", <<"m">>)>>]
SameTool == [Base EXCEPT !.bindings["n"] = <<Bound("u", "x", "rw")>>]

Elsewhere(c) == [c EXCEPT !.bench = "other"]
Apart(c)     == [Elsewhere(c) EXCEPT !.file = "g"]
Dotted(c)    == [c EXCEPT !.units = <<[@[1] EXCEPT !.name = "a.b"]>>,
                          !.servers = <<[@[1] EXCEPT !.name = "a.b"]>>]

\* Two targets whose names some hosts do not tell apart.
Named(x, y) == [Base EXCEPT !.units[1].name = x, !.units[2].name = y,
                            !.servers = <<Server(x, <<"m">>), Server(y, <<"n">>)>>]
Alike == Named("a-b", "a_b")

\* Configurations that resolve_benchmark refuses, on one family or on both.
Refused ==
  { [Base EXCEPT !.bindings["n"] = <<Bound("t", "y", "r"), Bound("u", "y", "r")>>],
    [Base EXCEPT !.bindings["n"] = <<>>],
    [Base EXCEPT !.trace = {"t", "v"}],
    [Base EXCEPT !.legacy = TRUE],
    [Base EXCEPT !.units[2] = [Unit("two", "m", <<"t">>, 64) EXCEPT !.python = "3.9"],
                 !.servers = <<Server("one", <<"m", "n">>), Server("two", <<"n">>)>>],
    [Base EXCEPT !.units[2].name = "one", !.servers = <<Server("one", <<"m", "m">>)>>],
    [Base EXCEPT !.python["n"] = "3.9", !.units = <<>>],
    [Base EXCEPT !.units[1].deploy = Unset, !.servers[1].deploy = Unset] }

\* Jobs 1 to 3 build, deploy and run the first pair, 4 to 6 the second.
Pairs(jobs, c, d, p, q, follows, faulty) ==
  [jobs     |-> jobs,
   config   |-> "p" :> c @@ "q" :> d,
   command  |-> <<"build", "deploy", "run", "build", "deploy", "run">>,
   project  |-> <<"p", "p", "p", "q", "q", "q">>,
   provider |-> <<p, p, p, q, q, q>>,
   after    |-> <<{}, {1}, {2}, IF follows THEN {3} ELSE {}, {4}, {5}>>,
   order    |-> "m" :> 1 @@ "n" :> 2,
   faulty   |-> faulty]

Alone(c, p) == Pairs({1, 2, 3}, c, c, p, p, FALSE, TRUE)
Both(c, d, p, q) == Pairs(MCJobs, c, d, p, q, FALSE, FALSE)
Then(c, d, p, q) == Pairs(MCJobs, c, d, p, q, TRUE, FALSE)

Swap(w) == [w EXCEPT !.project = <<"p", "p", "p", "p", "p", "p">>]

MCWorlds ==
  { Alone(c, p) : c \in {Base, SameTool, Dotted(Edited), Alike} \cup Refused,
                  p \in Providers }
  \cup { Then(Base, Edited, p, p) : p \in Providers }
  \cup { Then(Base, Base, "gcp_faas", "gcp_mcp"),
         Then(Base, Apart(Edited), "ali_agentrun", "mcp_gateway"),
         Both(Base, Apart(Base), "aws_lambda", "ali_fc"),
         Both(Edited, Elsewhere(Edited), "ali_fc", "aws_agentcore"),
         Both(Edited, Apart(Edited), "aws_lambda", "aws_lambda"),
         Both(Edited, Apart(Edited), "aws_agentcore", "gcp_mcp"),
         Swap(Both(Edited, Edited, "ali_fc", "aws_lambda")),
         Swap(Both(Edited, Edited, "gcp_mcp", "mcp_gateway")) }

=============================================================================
