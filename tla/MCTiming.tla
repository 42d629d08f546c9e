------------------------------ MODULE MCTiming ------------------------------
(***************************************************************************)
(* Instances of Timing for TLC: two calls of one MCP server, two of        *)
(* function servers, and lanes for three nodes, on each provider.          *)
(***************************************************************************)
EXTENDS Timing

MCNodes == 1 .. 3
MCPlaces == {"p", "q"}

All == {"wall", "start", "run", "ran", "end"}

Base ==
  [provider |-> "agentcore", calls |-> {1, 2}, llms |-> {}, opens |-> {},
   place |-> <<"p", "p", "p">>, mcp |-> TRUE, streams |-> FALSE,
   awaits |-> FALSE, faulty |-> FALSE, steps |-> FALSE, early |-> TRUE,
   late |-> FALSE, found |-> TRUE, inclusive |-> FALSE, logged |-> All]

One == [Base EXCEPT !.calls = {1}, !.steps = TRUE, !.opens = {1}]
Functions == [Base EXCEPT !.provider = "lambda", !.mcp = FALSE]

MCWorlds ==
  { Base,
    [Base EXCEPT !.provider = "gcp", !.streams = TRUE, !.logged = {"wall"}],
    [Base EXCEPT !.provider = "ali", !.awaits = TRUE, !.streams = TRUE],
    [Functions EXCEPT !.early = FALSE, !.inclusive = TRUE],
    [Functions EXCEPT !.place = <<"p", "q", "q">>, !.provider = "ali"],
    [Base EXCEPT !.calls = {}, !.llms = {1, 2, 3}],
    [Base EXCEPT !.calls = {1}, !.llms = {3}, !.faulty = TRUE] }
  \cup
  { [One EXCEPT !.provider = p, !.logged = l, !.found = f, !.early = e, !.late = ~e] :
      p \in Providers, f \in BOOLEAN, e \in BOOLEAN,
      l \in {All, {"wall"}, {"end"}, {}} }

Two == { Base }

OnLambda == { [Functions EXCEPT !.calls = {1}, !.early = FALSE, !.inclusive = TRUE] }

=============================================================================
