---------------------------- MODULE MCMcpSession ----------------------------
(***************************************************************************)
(* Instances of McpSession for TLC: two targets and four tool calls, all   *)
(* concurrent, or some after others.                                       *)
(***************************************************************************)
EXTENDS McpSession, TLC

CONSTANTS t1, t2, a, b, c, d

MCTargets == {t1, t2}
MCCalls == {a, b, c, d}

\* Calls a, b and c are for t1, call d is for t2; c only reads.
Concurrent ==
  [client   |-> "mcp",
   calls    |-> MCCalls,
   target   |-> a :> t1 @@ b :> t1 @@ c :> t1 @@ d :> t2,
   stateful |-> a :> TRUE @@ b :> TRUE @@ c :> FALSE @@ d :> TRUE,
   needs    |-> [x \in MCCalls |-> {}],
   bundle   |-> {t1, t2},
   faulty   |-> TRUE,
   named    |-> TRUE]

AllStateful(w) == [w EXCEPT !.stateful = [x \in MCCalls |-> TRUE]]

\* c follows a, beside the other two.
Mixed(w) == [w EXCEPT !.needs[c] = {a}]

\* The calls to t1 one after another.
Chain(w) == [w EXCEPT !.needs[b] = {a}, !.needs[c] = {b}]

Faultless(w) == [w EXCEPT !.faulty = FALSE]

OnAgentCore(w) == [w EXCEPT !.client = "agentcore"]

Unnamed(w) == [w EXCEPT !.named = FALSE]

Only(cs, w) == [w EXCEPT !.calls = cs]

MCWorlds ==
  { Only({a, b, c}, Concurrent),
    Only({a, b, d}, AllStateful(Concurrent)),
    Only({a, b, c}, Mixed(AllStateful(Concurrent))),
    Chain(Concurrent),
    Only({a, d}, [Concurrent EXCEPT !.bundle = {}]),
    OnAgentCore(Chain(AllStateful(Concurrent))),
    Unnamed(OnAgentCore(Only({a, d}, Concurrent))) }

\* AgentCore, the calls of a target one after another, with responses that
\* may not name their session.
UnnamedWorlds == { Unnamed(OnAgentCore(Faultless(Chain(Concurrent)))) }

\* AgentCore, with a call that follows one of two concurrent ones.
AgentCoreWorlds == { OnAgentCore(Faultless(Mixed(AllStateful(Concurrent)))) }

=============================================================================
