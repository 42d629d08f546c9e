---------------------------- MODULE MCCollection ----------------------------
(***************************************************************************)
(* Instances of Collection for TLC: three tool calls on two targets, in    *)
(* parallel or in a chain, on each provider.                               *)
(***************************************************************************)
EXTENDS Collection

CONSTANTS a, b, c, t1, t2

MCCalls == {a, b, c}
MCTargets == {t1, t2}

\* Calls a and b are concurrent, c follows a; the wait has two polls before
\* its deadline.
Fork ==
  [provider |-> "agentcore",
   calls    |-> {a, b, c},
   target   |-> [x \in MCCalls |-> t1],
   needs    |-> [x \in MCCalls |-> IF x = c THEN {a} ELSE {}],
   faulty   |-> FALSE,
   named    |-> TRUE,
   timeout  |-> 5,
   interval |-> 4]

Faulty(w) == [w EXCEPT !.faulty = TRUE]

Two(w) == [w EXCEPT !.calls = {a, b}]

Apart(w) == [w EXCEPT !.target[b] = t2]

Unnamed(w) == [w EXCEPT !.named = FALSE]

Endless(w) == [w EXCEPT !.timeout = 0]

Eager(w) == [w EXCEPT !.interval = 0]

On(provider, w) == [w EXCEPT !.provider = provider]

MCWorlds ==
  { Fork, Endless(Two(Fork)), Faulty(Two(Fork)), Eager(Apart(Two(Fork))), Unnamed(Two(Fork)) }
  \cup { Faulty(w) : w \in { On(p, v) : p \in {"lambda", "ali", "gcp"},
                                       v \in {Two(Fork), Apart(Two(Fork))} } }

LambdaAndAli == { On(p, Two(Fork)) : p \in {"lambda", "ali"} }

=============================================================================
