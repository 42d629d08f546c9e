------------------------------ MODULE MCReplay ------------------------------
(***************************************************************************)
(* Instances of Replay for TLC: four nodes, two state domains, the trace   *)
(* shapes on which the bookkeeping can go wrong, and the accesses that     *)
(* make readers and writers meet.                                          *)
(***************************************************************************)
EXTENDS Replay, TLC

CONSTANTS d1, d2

MCNodes == 0 .. 3

\* The edges of nodes 0, 1, 2 and 3; node 0 is the source.
Shape(a, b, c, d) == 0 :> a @@ 1 :> b @@ 2 :> c @@ 3 :> d

Fan      == Shape(<<3, 1, 2>>, <<>>, <<>>, <<>>)
Diamond  == Shape(<<1, 2>>, <<3>>, <<3>>, <<>>)
Shortcut == Shape(<<2, 1>>, <<2>>, <<3>>, <<>>)
Parallel == Shape(<<1, 1>>, <<2, 3, 2>>, <<>>, <<>>)
InnerCycle  == Shape(<<1, 3>>, <<2>>, <<1>>, <<>>)
SourceCycle == Shape(<<1, 2>>, <<0>>, <<>>, <<1>>)

Read(d)  == [domain |-> d, mode |-> "r"]
Write(d) == [domain |-> d, mode |-> "w"]
Both(d)  == [domain |-> d, mode |-> "rw"]

ToolRun(shape, a1, a2, a3, faas, workers) ==
  [edgeTo |-> shape,
   kind   |-> 0 :> "logic" @@ 1 :> "tool_use" @@ 2 :> "tool_use" @@ 3 :> "tool_use",
   access |-> 0 :> NoAccess @@ 1 :> a1 @@ 2 :> a2 @@ 3 :> a3,
   bare   |-> {},
   text   |-> {},
   faas   |-> faas,
   maxWorkers |-> workers]

\* FaaS replays: every shape and every meeting of readers and writers.
FaasRuns ==
  { ToolRun(s, a1, a2, a3, TRUE, w) :
      s \in {Fan, Diamond, Shortcut, Parallel, InnerCycle, SourceCycle},
      a1, a2 \in {Read(d1), Both(d1), NoAccess},
      a3 \in {Read(d1), Write(d1), Write(d2), NoAccess},
      w \in {1, 32} }

\* Session replays take no locks.
SessionRuns ==
  { ToolRun(s, Both(d1), Both(d1), Read(d1), FALSE, w) :
      s \in {Fan, Diamond, Parallel}, w \in {0, 2} }

\* Nodes of other kinds, of which one always fails, beside tool calls.
MixedRuns ==
  { [ToolRun(s, Both(d1), NoAccess, Both(d1), TRUE, 2) EXCEPT
       !.kind[2] = k] : s \in {Fan, Diamond}, k \in {"llm", "sandbox"} }

\* Edges without an input, and inputs that are no dictionaries.
InputRuns ==
  { [ToolRun(s, NoAccess, NoAccess, NoAccess, TRUE, 2) EXCEPT
       !.bare = b, !.text = x] :
      s \in {Diamond, Shortcut, Parallel},
      b \in {{}, {<<0, 1>>}, {<<2, 1>>}}, x \in {{}, {<<0, 1>>}, {<<1, 1>>, <<0, 2>>}} }

MCRuns == FaasRuns \cup SessionRuns \cup MixedRuns \cup InputRuns

=============================================================================
