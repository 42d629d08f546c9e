---------------------------- MODULE MCFaasState ----------------------------
(***************************************************************************)
(* Instances of FaasState for TLC: two services, two function instances,   *)
(* two replays and four tool calls, on each storage adapter.               *)
(***************************************************************************)
EXTENDS FaasState, TLC

CONSTANTS s1, s2, i1, i2, r1, r2, u1, u2, odd, a, b, c, d

MCServices == {s1, s2}
MCInstances == {i1, i2}
MCRuns == {r1, r2}
MCUids == {u1, u2, odd}
MCSanitized == u1 :> u1 @@ u2 :> u2 @@ odd :> u2
MCCalls == {a, b, c, d}

Read(s)  == [domain |-> s, mode |-> "r"]
Write(s) == [domain |-> s, mode |-> "rw"]

\* Calls a, b and c belong to replay r1: a and b write, c reads.  Call d
\* writes in replay r2.  Both instances serve s1.
Basic ==
  [calls    |-> MCCalls,
   host     |-> i1 :> s1 @@ i2 :> s1,
   service  |-> a :> s1 @@ b :> s1 @@ c :> s1 @@ d :> s1,
   run      |-> a :> r1 @@ b :> r1 @@ c :> r1 @@ d :> r2,
   stateful |-> a :> TRUE @@ b :> TRUE @@ c :> FALSE @@ d :> TRUE,
   access   |-> a :> Write(s1) @@ b :> Write(s1) @@ c :> Read(s1) @@ d :> Write(s1),
   uid      |-> r1 :> u1 @@ r2 :> u2,
   after    |-> r1 :> {} @@ r2 :> {},
   seeded   |-> {},
   backend  |-> "s3",
   inPlace  |-> FALSE,
   lossy    |-> FALSE,
   faulty   |-> FALSE]

\* One instance per service, and call b is for the other service.
TwoServices ==
  [Basic EXCEPT !.host[i2] = s2, !.service[b] = s2, !.access[b] = Write(s2)]

OneInstance(w) == [w EXCEPT !.host[i2] = s2]

\* Two replays one after the other under the same uid.
Again(w) == [w EXCEPT !.uid[r2] = u1, !.after[r2] = {r1}]

\* Only the response's header says that d is stateful.
Undeclared(w) == [w EXCEPT !.access[d] = NoAccess]

\* The replay r1 has a uid that _safe_uid changes, to none that is in use.
Odd(w) == [w EXCEPT !.uid[r1] = odd, !.uid[r2] = u1]

Lossy(w)  == [w EXCEPT !.lossy = TRUE]
Faulty(w) == [w EXCEPT !.faulty = TRUE]

\* One replay of two calls or of three, or two replays.
Pair(w)     == [w EXCEPT !.calls = {a, b}]
Apart(w)    == [w EXCEPT !.calls = {a, d}]
Alone(w)    == [w EXCEPT !.calls = {a, b, c}]
Together(w) == [w EXCEPT !.calls = {a, c, d}]

On(backends, ws) == { [w EXCEPT !.backend = x] : x \in backends, w \in ws }

MCWorlds ==
  On(Backends,
     { Lossy(Faulty(Pair(Basic))), Lossy(Together(Undeclared(TwoServices))),
       Together(Again(Basic)) })
  \cup { Together(Odd(Basic)), Lossy(Together(OneInstance(Basic))),
         Lossy(Alone(OneInstance([Basic EXCEPT !.seeded = {s1}]))),
         Faulty(Apart([TwoServices EXCEPT !.seeded = {s1}])) }

\* Tools that change containers in place, storages that may fail, and a
\* snapshot for a replay whose uid _safe_uid changes.
ClaimWorlds ==
  { Faulty(Odd([TwoServices EXCEPT !.seeded = {s2}, !.inPlace = TRUE])) }

=============================================================================
