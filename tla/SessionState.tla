---------------------------- MODULE SessionState ----------------------------
(***************************************************************************)
(* What FaaS replays are promised about state: a (service, uid) pair has   *)
(* one value, the set of the stateful calls that shaped it, and a tool     *)
(* call is one atomic step that observes the value and, if it is stateful, *)
(* adds its own mark.  A call that fails may have been applied, or may     *)
(* have changed nothing.  A replay that is over may erase its values, and  *)
(* only a call that failed for its client and outlives its replay may      *)
(* bring an erased value back.  A call answered with success was applied,  *)
(* except where storages fail: there a call that fails may have torn the   *)
(* value, and one that is answered may have run without it.                *)
(***************************************************************************)
EXTENDS Deployment

VARIABLES
  world,
  value,    (* [Keys -> SUBSET Marks].                                     *)
  effect,   (* What each call has done to the value.                       *)
  seen,     (* The value each applied call observed.                       *)
  status,   (* What the client knows of each call.                         *)
  stage     (* "new", "open" or "closed", for each replay.                 *)

svars == <<world, value, effect, seen, status, stage>>

k(c) == KeyOf(world, c)

SInit ==
  /\ world \in Worlds
  /\ value = [key \in Keys |-> {}]
  /\ effect = [c \in Calls |-> "none"]
  /\ seen = [c \in Calls |-> {}]
  /\ status = [c \in Calls |-> "idle"]
  /\ stage = [r \in Runs |-> "new"]

\* A replay starts from the seeded snapshots.
Open(r) ==
  /\ stage[r] = "new"
  /\ stage' = [stage EXCEPT ![r] = "open"]
  /\ value' = [key \in Keys |->
                 IF key[2] = SafeUid(world.uid[r]) /\ key[1] \in world.seeded
                 THEN {Base} ELSE value[key]]
  /\ UNCHANGED <<world, effect, seen, status>>

Ask(c) ==
  /\ c \in world.calls
  /\ stage[world.run[c]] = "open"
  /\ status[c] = "idle"
  /\ status' = [status EXCEPT ![c] = "active"]
  /\ UNCHANGED <<world, value, effect, seen, stage>>

Happens(c, how, newValue) ==
  /\ status[c] # "idle"
  /\ effect[c] = "none"
  /\ effect' = [effect EXCEPT ![c] = how]
  /\ seen' = IF how = "applied" THEN [seen EXCEPT ![c] = value[k(c)]] ELSE seen
  /\ value' = [value EXCEPT ![k(c)] = newValue]
  /\ UNCHANGED <<world, status, stage>>

Apply(c) ==
  Happens(c, "applied", value[k(c)] \cup (IF world.stateful[c] THEN {c} ELSE {}))

Raise(c) == Happens(c, "raised", value[k(c)])

Unstored(c) == world.faulty /\ Happens(c, "unstored", value[k(c)])

Tear(c) == world.faulty /\ world.stateful[c] /\ Happens(c, "torn", {})

Answer(c, s) ==
  /\ status[c] = "active"
  /\ s = "ok" => effect[c] \in {"applied", "unstored"}
  /\ status' = [status EXCEPT ![c] = s]
  /\ UNCHANGED <<world, value, effect, seen, stage>>

Close(r) ==
  /\ stage[r] = "open"
  /\ \A c \in CallsOf(world, r) : status[c] # "active"
  /\ stage' = [stage EXCEPT ![r] = "closed"]
  /\ UNCHANGED <<world, value, effect, seen, status>>

Erase(r, s) ==
  /\ stage[r] = "closed"
  /\ value' = [value EXCEPT ![<<s, SafeUid(world.uid[r])>>] = {}]
  /\ UNCHANGED <<world, effect, seen, status, stage>>

Revive(c, old) ==
  /\ stage[world.run[c]] = "closed"
  /\ status[c] = "error" /\ effect[c] = "none" /\ world.stateful[c]
  /\ value' = [value EXCEPT ![k(c)] = old]
  /\ UNCHANGED <<world, effect, seen, status, stage>>

SNext ==
  \/ \E r \in Runs : Open(r) \/ Close(r) \/ \E s \in Services : Erase(r, s)
  \/ \E c \in Calls :
       \/ Ask(c) \/ Apply(c) \/ Raise(c) \/ Tear(c) \/ Unstored(c)
       \/ \E old \in SUBSET Marks : Revive(c, old)
       \/ \E s \in {"ok", "error"} : Answer(c, s)

SSpec == SInit /\ [][SNext]_svars

=============================================================================
