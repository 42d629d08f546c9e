----------------------------- MODULE McpSession -----------------------------
(***************************************************************************)
(* The tool calls of one replay on session (MCP) targets.  Worker threads  *)
(* execute calls concurrently: no state domain is locked on the client.    *)
(* Each call attaches the seeded snapshot if it is the first of its target *)
(* to get there (atsuite/state_snapshot.py, under state_lock), opens the   *)
(* target's session or finds it open (session_for_target, under            *)
(* session_lock), and sends its request through the target's client        *)
(* (atsuite/runtime.py, atsuite/mcp/mcp.py).  MCPClient negotiates the     *)
(* session when it is opened; AgentCoreMCPClient opens nothing and takes   *)
(* the session from its last response.                                     *)
(*                                                                         *)
(* The server keeps each session's state in the memory of a process of its *)
(* own (MCP deployments of AgentCore and Function Compute) and executes    *)
(* one tool at a time: the wrapper calls the tool from the event loop.     *)
(***************************************************************************)
EXTENDS Naturals, FiniteSets, Sequences

CONSTANTS
  Targets,    (* Session targets, by name.                                 *)
  Calls,      (* Tool calls of the replay.                                 *)
  NoCall,     (* Nobody holds session_lock.                                *)
  Snapshot,   (* The mark of a snapshot in the state that a tool observes. *)
  Worlds      (* The replays considered.                                   *)

ASSUME McpAssumption ==
  /\ IsFiniteSet(Calls)
  /\ NoCall \notin Calls /\ Snapshot \notin Calls
  /\ \A w \in Worlds :
       /\ w.client   \in {"mcp", "agentcore"}
       /\ w.calls    \subseteq Calls
       /\ w.target   \in [Calls -> Targets]       \* route.target_name
       /\ w.stateful \in [Calls -> BOOLEAN]       \* UnifiedAgentTool.stateful
       /\ w.needs    \in [Calls -> SUBSET Calls]  \* calls that precede it
       /\ w.bundle   \subseteq Targets  \* snapshots the provider's calls carry
       /\ w.faulty   \in BOOLEAN        \* requests and responses may get lost
       /\ w.named    \in BOOLEAN        \* every response names its session

VARIABLES
  world,
  lock,      (* The call that holds session_lock, or NoCall.               *)
  sessions,  (* The keys of the dictionary sessions; their clients, and no *)
             (* others, are initialized.                                   *)
  seeded,    (* seeded_targets.                                            *)
  current,   (* session_id of each target's client, 0 for None.            *)
  pc,        (* Where each call is.                                        *)
  carries,   (* Calls whose request carries the snapshot.                  *)
  via,       (* The session in which each call is executed.                *)
  before,    (* The calls whose effect each call is entitled to see.       *)
  seen,      (* The state that the tool of each call observed.             *)
  memory,    (* Of each target, the state of its sessions, oldest first.   *)
  primed     (* Of each target, the sessions whose snapshot map was set.   *)

clientVars == <<lock, sessions, seeded, current>>
callVars   == <<carries, before>>
serverVars == <<via, seen, memory, primed>>
vars == <<world, clientVars, pc, callVars, serverVars>>

-----------------------------------------------------------------------------

Target(c) == world.target[c]

Ended(c) == pc[c] \in {"ok", "error"}

\* The calls that changed their session's state.
Effective == { c \in Calls : \E k \in DOMAIN memory[Target(c)] :
                                c \in memory[Target(c)][k] }

\* The effects that a call which begins now must find: those of the calls
\* to its target that have been answered.
AnsweredEffects(c) ==
  { d \in Effective : Target(d) = Target(c) /\ pc[d] = "ok" }

Init ==
  /\ world \in Worlds
  /\ lock = NoCall
  /\ sessions = {}
  /\ seeded = {}
  /\ current = [t \in Targets |-> 0]
  /\ pc = [c \in Calls |-> "idle"]
  /\ carries = {}
  /\ via = [c \in Calls |-> 0]
  /\ before = [c \in Calls |-> {}]
  /\ seen = [c \in Calls |-> {}]
  /\ memory = [t \in Targets |-> <<>>]
  /\ primed = [t \in Targets |-> {}]

Goto(c, p) == pc' = [pc EXCEPT ![c] = p]

\* Variant: the snapshot is attached without marking its target.
AttachEach(c) ==
  /\ c \in world.calls
  /\ pc[c] = "idle"
  /\ \A d \in world.needs[c] : pc[d] = "ok"
  /\ carries' = IF Target(c) \in world.bundle THEN carries \cup {c} ELSE carries
  /\ seeded' = seeded
  /\ before' = [before EXCEPT ![c] = AnsweredEffects(c)]
  /\ Goto(c, "open")
  /\ UNCHANGED <<world, lock, sessions, current, serverVars>>

\* Variant: a target is marked although the bundle has nothing for it.
AttachUnchecked(c) ==
  /\ c \in world.calls
  /\ pc[c] = "idle"
  /\ \A d \in world.needs[c] : pc[d] = "ok"
  /\ LET first == Target(c) \notin seeded IN
       /\ carries' = IF first THEN carries \cup {c} ELSE carries
       /\ seeded'  = IF first THEN seeded \cup {Target(c)} ELSE seeded
  /\ before' = [before EXCEPT ![c] = AnsweredEffects(c)]
  /\ Goto(c, "open")
  /\ UNCHANGED <<world, lock, sessions, current, serverVars>>

\* A worker begins the call: the first call of a target carries the
\* snapshot, and the target is seeded from then on.
Attach(c) ==
  /\ c \in world.calls
  /\ pc[c] = "idle"
  /\ \A d \in world.needs[c] : pc[d] = "ok"
  /\ LET first == Target(c) \in world.bundle \ seeded IN
       /\ carries' = IF first THEN carries \cup {c} ELSE carries
       /\ seeded'  = IF first THEN seeded \cup {Target(c)} ELSE seeded
  /\ before' = [before EXCEPT ![c] = AnsweredEffects(c)]
  /\ Goto(c, "open")
  /\ UNCHANGED <<world, lock, sessions, current, serverVars>>

\* session_for_target finds the session open.
FindSession(c) ==
  /\ pc[c] = "open"
  /\ lock = NoCall
  /\ Target(c) \in sessions
  /\ Goto(c, "invoke")
  /\ UNCHANGED <<world, clientVars, callVars, serverVars>>

\* Variant: session_for_target without session_lock.
BeginOpenUnlocked(c) ==
  /\ world.client = "mcp"
  /\ pc[c] = "open"
  /\ Target(c) \notin sessions
  /\ lock' = c
  /\ Goto(c, "opening")
  /\ UNCHANGED <<world, sessions, seeded, current, callVars, serverVars>>

\* session_for_target opens the session: MCPClient.initialize sends a request
\* while session_lock is held.
BeginOpen(c) ==
  /\ world.client = "mcp"
  /\ pc[c] = "open"
  /\ lock = NoCall
  /\ Target(c) \notin sessions
  /\ lock' = c
  /\ Goto(c, "opening")
  /\ UNCHANGED <<world, sessions, seeded, current, callVars, serverVars>>

\* The same with AgentCoreMCPClient, whose initialize only sets a flag.
OpenNothing(c) ==
  /\ world.client = "agentcore"
  /\ pc[c] = "open"
  /\ lock = NoCall
  /\ Target(c) \notin sessions
  /\ sessions' = sessions \cup {Target(c)}
  /\ Goto(c, "invoke")
  /\ UNCHANGED <<world, lock, seeded, current, callVars, serverVars>>

\* The server starts a session with the registered objects' first state.
NewSession(t) == memory' = [memory EXCEPT ![t] = Append(@, {})]

\* The initialize response arrives with the id of a new session.
EndOpen(c) ==
  /\ pc[c] = "opening"
  /\ NewSession(Target(c))
  /\ current' = [current EXCEPT ![Target(c)] = Len(memory[Target(c)]) + 1]
  /\ sessions' = sessions \cup {Target(c)}
  /\ lock' = NoCall
  /\ Goto(c, "invoke")
  /\ UNCHANGED <<world, seeded, callVars, via, seen, primed>>

\* Variant: an exception leaves session_lock held.
OpenFailsLocked(c) ==
  /\ world.faulty
  /\ pc[c] = "opening"
  /\ NewSession(Target(c)) \/ memory' = memory
  /\ lock' = lock
  /\ Goto(c, "error")
  /\ UNCHANGED <<world, sessions, seeded, current, callVars, via, seen,
                 primed>>

\* initialize raises, with or without a session left at the server.  Nothing
\* is recorded, so the target's next call opens the session again; the
\* snapshot that this call was to carry is not sent by any other.
OpenFails(c) ==
  /\ world.faulty
  /\ pc[c] = "opening"
  /\ NewSession(Target(c)) \/ memory' = memory
  /\ lock' = NoCall
  /\ Goto(c, "error")
  /\ UNCHANGED <<world, sessions, seeded, current, callVars, via, seen,
                 primed>>

\* invoke posts the request with the client's session id, if it has one.
Send(c) ==
  /\ pc[c] = "invoke"
  /\ via' = [via EXCEPT ![c] = current[Target(c)]]
  /\ Goto(c, "sent")
  /\ UNCHANGED <<world, clientVars, callVars, seen, memory, primed>>

\* The server executes the tool, in a new session if the request names none.
\* A stateful tool's snapshot is put into the snapshot map first (primed).  In
\* MCP mode execute_from_dict does not call load_for_tool, the map's only
\* reader, so the tool finds the process's own objects as they are.
\* One that raises, before or after it changed them, is answered too: the
\* result says isError, which the clients only log.
Serve(c) ==
  /\ pc[c] = "sent"
  /\ LET t == Target(c)
         k == IF via[c] = 0 THEN Len(memory[t]) + 1 ELSE via[c]
         states == IF via[c] = 0 THEN Append(memory[t], {}) ELSE memory[t]
         changes == IF world.stateful[c] THEN {{}, {c}} ELSE {{}}
     IN  /\ via' = [via EXCEPT ![c] = k]
         /\ seen' = [seen EXCEPT ![c] = states[k]]
         /\ \E x \in changes :
              memory' = [memory EXCEPT ![t] = [states EXCEPT ![k] = @ \cup x]]
         /\ primed' = [primed EXCEPT ![t] =
              IF world.stateful[c] /\ c \in carries THEN @ \cup {k} ELSE @]
  /\ Goto(c, "served")
  /\ UNCHANGED <<world, clientVars, callVars>>

\* The header of a response: AgentCoreMCPClient takes its session over from it,
\* whatever session other threads have brought back meanwhile, and forgets the
\* session that it has if the response names none.
TakeSession(c) ==
  \/ /\ world.client = "agentcore"
     /\ \E k \in {via[c]} \cup (IF world.named THEN {} ELSE {0}) :
          current' = [current EXCEPT ![Target(c)] = k]
  \/ world.client = "mcp" /\ current' = current

\* The response arrives.
Respond(c) ==
  /\ pc[c] = "served"
  /\ TakeSession(c)
  /\ Goto(c, "ok")
  /\ UNCHANGED <<world, lock, sessions, seeded, callVars, serverVars>>

\* The response arrives and reports an error of the protocol: invoke raises
\* after it has taken the session from the header.
RespondError(c) ==
  /\ world.faulty
  /\ pc[c] = "served"
  /\ TakeSession(c)
  /\ Goto(c, "error")
  /\ UNCHANGED <<world, lock, sessions, seeded, callVars, serverVars>>

\* The request or its response is lost, and invoke raises.
Lose(c) ==
  /\ world.faulty
  /\ pc[c] \in {"sent", "served"}
  /\ Goto(c, "error")
  /\ UNCHANGED <<world, clientVars, callVars, serverVars>>

Stopped ==
  /\ \A c \in world.calls :
       \/ Ended(c)
       \/ pc[c] = "idle" /\ \E d \in world.needs[c] : pc[d] # "ok"
  /\ UNCHANGED vars

Step(c) ==
  \/ Attach(c)
  \/ FindSession(c) \/ BeginOpen(c) \/ OpenNothing(c) \/ EndOpen(c)
  \/ Send(c) \/ Serve(c) \/ Respond(c)

Fault(c) == OpenFails(c) \/ RespondError(c) \/ Lose(c)

Next ==
  \/ \E c \in Calls : Step(c) \/ Fault(c)
  \/ Stopped

Spec == Init /\ [][Next]_vars

\* Worker threads run, and every request is answered or fails: the HTTP
\* client of MCPClient gives up after 3600 s; for AgentCoreMCPClient, which
\* sets no timeout, this is an assumption about AgentCore.  Locks are not
\* assumed fair.
Fairness ==
  \A c \in Calls : WF_vars(Step(c) \/ Fault(c))

FairSpec == Spec /\ Fairness

-----------------------------------------------------------------------------
(* Properties *)

TypeOK ==
  /\ world \in Worlds
  /\ lock \in Calls \cup {NoCall}
  /\ sessions \subseteq Targets
  /\ seeded \subseteq world.bundle
  /\ \A t \in Targets : current[t] \in 0 .. Len(memory[t])
  /\ pc \in [Calls -> {"idle", "open", "opening", "invoke", "sent", "served",
                       "ok", "error"}]
  /\ carries \subseteq Calls
  /\ \A c \in Calls : via[c] \in 0 .. Len(memory[Target(c)])
  /\ before \in [Calls -> SUBSET Calls]
  /\ seen \in [Calls -> SUBSET Calls]
  /\ memory \in [Targets -> Seq(SUBSET Calls)]
  /\ \A t \in Targets : primed[t] \subseteq DOMAIN memory[t]

Executed(c) == pc[c] \in {"served", "ok"}

\* A tool finds the effects of every call to its target that had been
\* answered when its own call began: no concurrent first call, failed
\* initialization or lost answer makes a replay change its session.
EffectsVisible ==
  \A c \in Calls : Executed(c) => before[c] \subseteq seen[c]

\* Of the calls of a bundled target that have begun, however they overlap or
\* fail, exactly one carries the snapshot.  If it is stateful and is executed,
\* the map of the session in which all executed calls of the target run has
\* been set, and of no other session.
SeedArrives ==
  \A t \in world.bundle :
    LET begun    == { c \in world.calls : Target(c) = t /\ pc[c] # "idle" }
        executed == { c \in begun : Executed(c) }
    IN  begun # {} =>
          \E c \in begun :
            /\ begun \cap carries = {c}
            /\ Executed(c) /\ world.stateful[c]
                 => primed[t] = { via[d] : d \in executed }

\* A snapshot given to the replay is injected into the sessions of its
\* targets: a stateful call to a bundled target is executed in a session that
\* has been given it.
SeedPrecedes ==
  \A c \in Calls :
    Executed(c) /\ world.stateful[c] /\ Target(c) \in world.bundle
      => via[c] \in primed[Target(c)]

\* A session's state is what its snapshot map holds: a tool that is executed
\* after its session's map was set observes the snapshot.
SeedObserved ==
  \A c \in Calls :
    Executed(c) /\ c \in carries /\ world.stateful[c] => Snapshot \in seen[c]

\* The requests of a replay to one target are executed in one session, the
\* session of the target's first call.
SessionReused ==
  \A c, d \in Calls :
    Executed(c) /\ Executed(d) /\ Target(c) = Target(d) => via[c] = via[d]

\* Of what the documents say of sessions - that a target has one, that a
\* snapshot is injected before its tools run, that the state of a session is
\* in the snapshot map - one thing at least holds in every state.
SessionClaims == SessionReused \/ SeedPrecedes \/ SeedObserved

\* A call that has begun ends, although session_lock is held across the
\* initialize request of any target.
CallsEnd == \A c \in Calls : pc[c] = "open" ~> Ended(c)

=============================================================================
