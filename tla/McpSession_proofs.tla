-------------------------- MODULE McpSession_proofs --------------------------
(***************************************************************************)
(* Theorems about McpSession.  With a client that negotiates its sessions  *)
(* (MCPClient), however the calls overlap, and with AgentCoreMCPClient if  *)
(* no two calls of a target do: all calls of a target are executed in one  *)
(* session, they find the effects of those answered before, and the        *)
(* snapshot gets there.                                                    *)
(***************************************************************************)
EXTENDS McpSession, FiniteSetTheorems, TLAPS

Stages == {"idle", "open", "opening", "invoke", "sent", "served", "ok", "error"}

Types ==
  /\ world \in Worlds
  /\ lock \in Calls \cup {NoCall}
  /\ sessions \subseteq Targets
  /\ seeded \subseteq world.bundle
  /\ current \in [Targets -> Nat]
  /\ pc \in [Calls -> Stages]
  /\ carries \subseteq Calls
  /\ via \in [Calls -> Nat]
  /\ before \in [Calls -> SUBSET Calls]
  /\ seen \in [Calls -> SUBSET Calls]
  /\ memory \in [Targets -> Seq(SUBSET Calls)]
  /\ primed \in [Targets -> SUBSET Nat]

\* The sessions that clients and requests name exist at the server.
Known ==
  /\ \A t \in Targets : current[t] <= Len(memory[t])
  /\ \A c \in Calls : via[c] <= Len(memory[Target(c)])
  /\ \A t \in Targets : primed[t] \subseteq DOMAIN memory[t]

\* session_lock: a session that is being opened is nobody else's.
LockInv ==
  \A c \in Calls : pc[c] = "opening" => lock = c /\ Target(c) \notin sessions

\* An open session is the client's, and all requests of its target name it.
SessionInv ==
  /\ \A t \in sessions : current[t] \in DOMAIN memory[t]
  /\ \A c \in Calls :
       /\ pc[c] \in {"invoke", "sent", "served", "ok"} => Target(c) \in sessions
       /\ pc[c] \in {"sent", "served", "ok"} => via[c] = current[Target(c)]

\* No other session has any effects.
EffectInv ==
  \A t \in Targets : \A k \in DOMAIN memory[t] : \A c \in memory[t][k] :
    Target(c) = t /\ t \in sessions /\ k = current[t]

\* What a call is entitled to see is in its target's session, and was when its
\* tool looked.
BeforeInv ==
  /\ \A c \in Calls : \A d \in before[c] :
       Target(c) \in sessions /\ d \in memory[Target(c)][current[Target(c)]]
  /\ \A c \in Calls : Executed(c) => before[c] \subseteq seen[c]

\* Of each seeded target exactly one call, which has begun, carries the
\* snapshot.
CarrierInv ==
  /\ \A c \in carries : Target(c) \in seeded /\ pc[c] # "idle" /\ c \in world.calls
  /\ \A c, d \in carries : Target(c) = Target(d) => c = d
  /\ \A t \in seeded : \E c \in carries : Target(c) = t
  /\ \A c \in world.calls :
       pc[c] # "idle" /\ Target(c) \in world.bundle => Target(c) \in seeded

PrimedInv ==
  /\ \A t \in Targets : \A k \in primed[t] : t \in sessions /\ k = current[t]
  /\ \A c \in carries :
       Executed(c) /\ world.stateful[c] => via[c] \in primed[Target(c)]

Base ==
  /\ Types
  /\ Known
  /\ CarrierInv

SInv ==
  /\ world.client = "mcp"
  /\ LockInv
  /\ SessionInv
  /\ EffectInv
  /\ BeforeInv
  /\ PrimedInv

-----------------------------------------------------------------------------
(* AgentCoreMCPClient's replays, when the calls of a target come one after *)
(* another.                                                                *)

\* Each call of w is executed after those in past, some of them because calls
\* that it needs are; of two calls to one target one is executed after the
\* other.
OneByOne(w, past) ==
  /\ \A c \in Calls : \A d \in past[c] :
       d \in w.needs[c] \/ \E e \in w.needs[c] : d \in past[e]
  /\ \A c, d \in w.calls :
       c # d /\ w.target[c] = w.target[d] => c \in past[d] \/ d \in past[c]

InTurn ==
  \A w \in Worlds :
    w.client = "agentcore" =>
      w.named /\ \E past \in [Calls -> SUBSET Calls] : OneByOne(w, past)

Past == CHOOSE past \in [Calls -> SUBSET Calls] : OneByOne(world, past)

\* A call that has begun comes after calls that succeeded.
TurnInv ==
  /\ \A c \in Calls : pc[c] # "idle" => c \in world.calls
  /\ \A c \in Calls : pc[c] # "idle" => \A d \in Past[c] : pc[d] = "ok"

\* A target has one session at most.  Its client does not know of it only as
\* long as the call that began it is not answered.
OnlySession ==
  /\ \A t \in Targets : Len(memory[t]) <= 1
  /\ \A t \in Targets :
       current[t] = 0 /\ Len(memory[t]) = 1
         => \E c \in Calls : Target(c) = t /\ pc[c] \in {"served", "error"}
  /\ \A c \in Calls : pc[c] = "sent" => via[c] = current[Target(c)]
  /\ \A c \in Calls : Executed(c) => via[c] = 1
  /\ \A c \in Calls : pc[c] = "ok" => current[Target(c)] = 1
  /\ \A c \in Calls : pc[c] # "opening"

\* What a call is entitled to see is in that session.
BeforeOnly ==
  /\ \A c \in Calls : \A d \in before[c] :
       Len(memory[Target(c)]) = 1 /\ d \in memory[Target(c)][1]
  /\ \A c \in Calls : Executed(c) => before[c] \subseteq seen[c]

PrimedOnly ==
  \A c \in carries :
    Executed(c) /\ world.stateful[c] => via[c] \in primed[Target(c)]

AInv ==
  /\ world.client = "agentcore"
  /\ TurnInv
  /\ OnlySession
  /\ BeforeOnly
  /\ PrimedOnly

-----------------------------------------------------------------------------

\* What McpAssumption says of the world chosen.
LEMMA WorldFacts ==
  ASSUME Types
  PROVE  /\ world.calls \subseteq Calls
         /\ world.bundle \subseteq Targets
         /\ \A c \in Calls : Target(c) \in Targets
  BY McpAssumption DEF Types, Target

LEMMA TypesInit == Init => Types /\ Known
<1> SUFFICES ASSUME Init PROVE Types /\ Known
  OBVIOUS
<1>1. Types
  BY DEF Init, Types, Stages
<1>2. /\ \A t \in Targets : current[t] = 0 /\ memory[t] = << >> /\ primed[t] = {}
      /\ \A c \in Calls : via[c] = 0 /\ Target(c) \in Targets
  BY <1>1, WorldFacts DEF Init
<1> QED
  BY <1>1, <1>2 DEF Known

\* The steps in which the server does nothing and no client learns of a
\* session.
LEMMA QuietTypes ==
  ASSUME Types, Known, NEW c \in Calls,
         \/ Attach(c) \/ FindSession(c) \/ BeginOpen(c) \/ OpenNothing(c)
         \/ Lose(c)
  PROVE  Types' /\ Known'
<1> USE DEF Types
<1>1. UNCHANGED <<world, current, via, seen, memory, primed>>
  BY DEF Attach, FindSession, BeginOpen, OpenNothing, Lose, clientVars, serverVars
<1>2. \E p \in Stages : pc' = [pc EXCEPT ![c] = p]
  BY DEF Attach, FindSession, BeginOpen, OpenNothing, Lose, Goto, Stages
<1>3. /\ lock' \in Calls \cup {NoCall} /\ sessions' \subseteq Targets
      /\ seeded' \subseteq world'.bundle /\ carries' \subseteq Calls
      /\ before' \in [Calls -> SUBSET Calls]
  <2>1. Target(c) \in Targets /\ AnsweredEffects(c) \subseteq Calls
    BY WorldFacts DEF AnsweredEffects, Effective
  <2>2. CASE Attach(c)
    BY <2>1, <2>2 DEF Attach
  <2>3. CASE FindSession(c) \/ Lose(c)
    BY <2>3 DEF FindSession, Lose, clientVars, callVars
  <2>4. CASE BeginOpen(c) \/ OpenNothing(c)
    BY <2>1, <2>4 DEF BeginOpen, OpenNothing, callVars
  <2> QED
    BY <2>2, <2>3, <2>4
<1>4. Types'
  BY <1>1, <1>2, <1>3
<1>5. Known'
  BY <1>1 DEF Known, Target
<1> QED
  BY <1>4, <1>5

\* A server's sessions are never forgotten, so what named one still does.
LEMMA KnownGrows ==
  ASSUME Types, Types', Known, UNCHANGED world,
         \A t \in Targets : Len(memory[t]) <= Len(memory'[t]),
         \A t \in Targets : current'[t] = current[t] \/ current'[t] <= Len(memory'[t]),
         \A c \in Calls : via'[c] = via[c] \/ via'[c] <= Len(memory'[Target(c)]),
         \A t \in Targets : \A k \in primed'[t] :
           k \in primed[t] \/ k \in DOMAIN memory'[t]
  PROVE  Known'
<1>1. \A c \in Calls : Target(c)' = Target(c) /\ Target(c) \in Targets
  BY WorldFacts DEF Target
<1>2. \A t \in Targets : /\ Len(memory[t]) \in Nat /\ Len(memory'[t]) \in Nat
                         /\ DOMAIN memory[t] = 1 .. Len(memory[t])
                         /\ DOMAIN memory'[t] = 1 .. Len(memory'[t])
                         /\ current[t] \in Nat
  BY DEF Types
<1>3. \A t \in Targets : DOMAIN memory[t] \subseteq DOMAIN memory'[t]
  BY <1>2
<1>4. \A t \in Targets : current'[t] <= Len(memory'[t])
  BY <1>2 DEF Known
<1>5. \A c \in Calls : via'[c] <= Len(memory'[Target(c)])
  BY <1>1, <1>2 DEF Known, Types
<1>6. \A t \in Targets : primed'[t] \subseteq DOMAIN memory'[t]
  BY <1>3 DEF Known
<1> QED
  BY <1>1, <1>4, <1>5, <1>6 DEF Known

\* The server's answer to initialize, received or not.
LEMMA NewSessionTypes ==
  ASSUME Types, Known, NEW c \in Calls, EndOpen(c) \/ OpenFails(c)
  PROVE  Types' /\ Known'
<1> DEFINE t == Target(c)
<1>1. t \in Targets /\ memory \in [Targets -> Seq(SUBSET Calls)] /\ world' = world
  BY WorldFacts DEF Types, EndOpen, OpenFails
<1>2. /\ Append(memory[t], {}) \in Seq(SUBSET Calls)
      /\ Len(Append(memory[t], {})) = Len(memory[t]) + 1
      /\ \A u \in Targets : Len(memory[u]) \in Nat
  BY <1>1
<1>3. \/ memory' = memory
      \/ memory' = [memory EXCEPT ![t] = Append(memory[t], {})]
  BY DEF EndOpen, OpenFails, NewSession
<1>4. /\ memory' \in [Targets -> Seq(SUBSET Calls)]
      /\ \A u \in Targets : Len(memory[u]) <= Len(memory'[u])
  <2>1. memory' \in [Targets -> Seq(SUBSET Calls)]
    BY <1>1, <1>2, <1>3
  <2>2. ASSUME NEW u \in Targets PROVE Len(memory[u]) <= Len(memory'[u])
    <3>1. CASE memory' = memory
      BY <1>2, <3>1
    <3>2. CASE memory' = [memory EXCEPT ![t] = Append(memory[t], {})]
      <4>1. memory'[u] = IF u = t THEN Append(memory[t], {}) ELSE memory[u]
        BY <1>1, <3>2
      <4> QED
        BY <1>2, <4>1
    <3> QED
      BY <1>3, <3>1, <3>2
  <2> QED
    BY <2>1, <2>2
<1>5. /\ current' \in [Targets -> Nat]
      /\ \A u \in Targets : current'[u] = current[u] \/ current'[u] <= Len(memory'[u])
  <2>1. CASE EndOpen(c)
    <3>1. /\ current' = [current EXCEPT ![t] = Len(memory[t]) + 1]
          /\ memory' = [memory EXCEPT ![t] = Append(memory[t], {})]
      BY <2>1 DEF EndOpen, NewSession
    <3>2. Len(memory'[t]) = Len(memory[t]) + 1
      BY <1>1, <1>2, <3>1
    <3> QED
      BY <1>1, <1>2, <3>1, <3>2 DEF Types
  <2>2. CASE OpenFails(c)
    BY <2>2 DEF OpenFails, Types
  <2> QED
    BY <2>1, <2>2
<1>6. /\ via' = via /\ primed' = primed /\ seen' = seen /\ seeded' = seeded
      /\ carries' = carries /\ before' = before /\ lock' = NoCall
  BY DEF EndOpen, OpenFails, callVars
<1>7. sessions' \subseteq Targets
  BY <1>1 DEF EndOpen, OpenFails, Types
<1>8. pc' \in [Calls -> Stages]
  BY DEF EndOpen, OpenFails, Goto, Types, Stages
<1>9. Types'
  BY <1>1, <1>4, <1>5, <1>6, <1>7, <1>8 DEF Types
<1>10. Known'
  BY <1>1, <1>4, <1>5, <1>6, <1>9, KnownGrows
<1> QED
  BY <1>9, <1>10

LEMMA SendTypes ==
  ASSUME Types, Known, NEW c \in Calls, Send(c)
  PROVE  Types' /\ Known'
<1>1. /\ via' = [via EXCEPT ![c] = current[Target(c)]] /\ pc' = [pc EXCEPT ![c] = "sent"]
      /\ UNCHANGED <<world, lock, sessions, seeded, current, carries, before, seen,
                     memory, primed>>
  BY DEF Send, Goto, clientVars, callVars
<1>2. Target(c) \in Targets /\ \A d \in Calls : Target(d)' = Target(d)
  BY <1>1, WorldFacts DEF Target
<1>3. Types'
  BY <1>1, <1>2 DEF Types, Stages
<1>4. Known'
  BY <1>1, <1>2 DEF Known, Types
<1> QED
  BY <1>3, <1>4

LEMMA RespondTypes ==
  ASSUME Types, Known, NEW c \in Calls, Respond(c) \/ RespondError(c)
  PROVE  Types' /\ Known'
<1>1. /\ \/ \E k \in {0, via[c]} : current' = [current EXCEPT ![Target(c)] = k]
         \/ current' = current
      /\ pc' = [pc EXCEPT ![c] = "ok"] \/ pc' = [pc EXCEPT ![c] = "error"]
      /\ UNCHANGED <<world, lock, sessions, seeded, carries, before, via, seen,
                     memory, primed>>
  BY DEF Respond, RespondError, TakeSession, Goto, callVars, serverVars
<1>2. Target(c) \in Targets /\ \A d \in Calls : Target(d)' = Target(d)
  BY <1>1, WorldFacts DEF Target
<1>3. /\ current' \in [Targets -> Nat]
      /\ \A t \in Targets : current'[t] <= Len(memory[t])
  <2>1. /\ current \in [Targets -> Nat] /\ via[c] \in Nat
        /\ via[c] <= Len(memory[Target(c)]) /\ Len(memory[Target(c)]) \in Nat
        /\ \A t \in Targets : current[t] <= Len(memory[t])
    BY <1>2 DEF Types, Known
  <2>2. CASE current' = current
    BY <2>1, <2>2
  <2>3. ASSUME NEW k \in {0, via[c]}, current' = [current EXCEPT ![Target(c)] = k]
        PROVE  /\ current' \in [Targets -> Nat]
               /\ \A t \in Targets : current'[t] <= Len(memory[t])
    <3>1. k \in Nat /\ k <= Len(memory[Target(c)])
      BY <2>1
    <3> QED
      BY <1>2, <2>1, <2>3, <3>1
  <2> QED
    BY <1>1, <2>2, <2>3
<1>4. pc' \in [Calls -> Stages]
  BY <1>1 DEF Types, Stages
<1>5. Types'
  BY <1>1, <1>3, <1>4 DEF Types
<1>6. Known'
  BY <1>1, <1>2, <1>3 DEF Known
<1> QED
  BY <1>5, <1>6

\* The session in which the server executes a call: a new one if the request
\* names none.
Serving(c) == IF via[c] = 0 THEN Len(memory[Target(c)]) + 1 ELSE via[c]

States(c) ==
  IF via[c] = 0 THEN Append(memory[Target(c)], {}) ELSE memory[Target(c)]

\* What it does to the state of that session.
LEMMA Served ==
  ASSUME Types, Known, NEW c \in Calls, Serve(c)
  PROVE  /\ pc[c] = "sent" /\ pc' = [pc EXCEPT ![c] = "served"]
         /\ UNCHANGED <<world, lock, sessions, seeded, current, carries, before>>
         /\ Target(c) \in Targets /\ Serving(c) \in Nat
         /\ States(c) \in Seq(SUBSET Calls) /\ Serving(c) \in DOMAIN States(c)
         /\ via' = [via EXCEPT ![c] = Serving(c)]
         /\ seen' = [seen EXCEPT ![c] = States(c)[Serving(c)]]
         /\ \E x \in {{}, {c}} :
              memory' = [memory EXCEPT ![Target(c)] =
                           [States(c) EXCEPT ![Serving(c)] = @ \cup x]]
         /\ primed' = [primed EXCEPT ![Target(c)] =
              IF world.stateful[c] /\ c \in carries THEN @ \cup {Serving(c)} ELSE @]
<1> DEFINE t == Target(c)
<1>1. t \in Targets /\ memory[t] \in Seq(SUBSET Calls) /\ Len(memory[t]) \in Nat
      /\ via[c] \in Nat /\ via[c] <= Len(memory[t])
  BY WorldFacts DEF Types, Known
<1>2. /\ Append(memory[t], {}) \in Seq(SUBSET Calls)
      /\ DOMAIN Append(memory[t], {}) = 1 .. Len(memory[t]) + 1
      /\ DOMAIN memory[t] = 1 .. Len(memory[t])
  BY <1>1
<1>3. Serving(c) \in Nat /\ States(c) \in Seq(SUBSET Calls) /\ Serving(c) \in DOMAIN States(c)
  BY <1>1, <1>2 DEF Serving, States
<1>4. /\ pc[c] = "sent" /\ pc' = [pc EXCEPT ![c] = "served"]
      /\ UNCHANGED <<world, lock, sessions, seeded, current, carries, before>>
  BY DEF Serve, Goto, clientVars, callVars
<1>5. /\ via' = [via EXCEPT ![c] = Serving(c)]
      /\ seen' = [seen EXCEPT ![c] = States(c)[Serving(c)]]
      /\ \E x \in {{}, {c}} :
              memory' = [memory EXCEPT ![t] = [States(c) EXCEPT ![Serving(c)] = @ \cup x]]
      /\ primed' = [primed EXCEPT ![t] =
              IF world.stateful[c] /\ c \in carries THEN @ \cup {Serving(c)} ELSE @]
  BY DEF Serve, Serving, States
<1> QED
  BY <1>1, <1>3, <1>4, <1>5

LEMMA ServeTypes ==
  ASSUME Types, Known, NEW c \in Calls, Serve(c)
  PROVE  Types' /\ Known'
<1> DEFINE t == Target(c)
           k == Serving(c)
           S == States(c)
<1>1. /\ t \in Targets /\ k \in Nat /\ S \in Seq(SUBSET Calls) /\ k \in DOMAIN S
      /\ UNCHANGED <<world, lock, sessions, seeded, current, carries, before>>
      /\ pc' = [pc EXCEPT ![c] = "served"] /\ via' = [via EXCEPT ![c] = k]
      /\ seen' = [seen EXCEPT ![c] = S[k]]
      /\ primed' = [primed EXCEPT ![t] =
           IF world.stateful[c] /\ c \in carries THEN @ \cup {k} ELSE @]
  BY Served
<1>2. PICK x \in {{}, {c}} :
        memory' = [memory EXCEPT ![t] = [S EXCEPT ![k] = @ \cup x]]
  BY Served
<1>3. Len(S) \in Nat /\ DOMAIN S = 1 .. Len(S) /\ Len(memory[t]) <= Len(S)
  BY <1>1 DEF States, Types
<1>4. S[k] \in SUBSET Calls
  BY <1>1
<1>5. /\ [S EXCEPT ![k] = @ \cup x] \in Seq(SUBSET Calls)
      /\ Len([S EXCEPT ![k] = @ \cup x]) = Len(S)
  BY <1>1, <1>2, <1>3, <1>4
<1>6. /\ memory' \in [Targets -> Seq(SUBSET Calls)]
      /\ Len(memory'[t]) = Len(S) /\ DOMAIN memory'[t] = 1 .. Len(S)
      /\ \A u \in Targets : u # t => memory'[u] = memory[u]
  BY <1>1, <1>2, <1>3, <1>5 DEF Types
<1>7. \A u \in Targets : Len(memory[u]) <= Len(memory'[u])
  <2> SUFFICES ASSUME NEW u \in Targets PROVE Len(memory[u]) <= Len(memory'[u])
    OBVIOUS
  <2>1. Len(memory[u]) \in Nat
    BY DEF Types
  <2> QED
    BY <1>3, <1>6, <2>1
<1>8. /\ seen' \in [Calls -> SUBSET Calls] /\ primed' \in [Targets -> SUBSET Nat]
      /\ via' \in [Calls -> Nat] /\ pc' \in [Calls -> Stages]
  BY <1>1, <1>4 DEF Types, Stages
<1>9. Types'
  BY <1>1, <1>6, <1>8 DEF Types
<1>10. \A d \in Calls : via'[d] = via[d] \/ via'[d] <= Len(memory'[Target(d)])
  BY <1>1, <1>3, <1>6 DEF Types
<1>11. \A u \in Targets : \A j \in primed'[u] : j \in primed[u] \/ j \in DOMAIN memory'[u]
  BY <1>1, <1>3, <1>6 DEF Types
<1>12. Known'
  BY <1>1, <1>7, <1>9, <1>10, <1>11, KnownGrows
<1> QED
  BY <1>9, <1>12

LEMMA TypesKept == Types /\ Known /\ [Next]_vars => Types' /\ Known'
<1> SUFFICES ASSUME Types, Known, [Next]_vars PROVE Types' /\ Known'
  OBVIOUS
<1>1. CASE UNCHANGED vars
  BY <1>1 DEF vars, clientVars, callVars, serverVars, Types, Known, Target
<1>2. CASE \E c \in Calls : Step(c) \/ Fault(c)
  BY <1>2, QuietTypes, NewSessionTypes, SendTypes, RespondTypes, ServeTypes
     DEF Step, Fault
<1> QED
  BY <1>1, <1>2 DEF Next, Stopped

\* Every variable of the client and the server keeps its type, whichever
\* client the replay has; the session ids that clients and requests hold, and
\* the sessions whose snapshot map was set, exist at the server.
THEOREM McpTypeCorrect == Spec => []TypeOK
<1>1. Types /\ Known => TypeOK
  <2> SUFFICES ASSUME Types, Known PROVE TypeOK
    OBVIOUS
  <2>1. \A t \in Targets : current[t] \in 0 .. Len(memory[t])
    BY DEF Types, Known
  <2>2. \A c \in Calls : via[c] \in 0 .. Len(memory[Target(c)])
    BY WorldFacts DEF Types, Known
  <2> QED
    BY <2>1, <2>2 DEF Types, Known, TypeOK, Stages
<1> QED
  BY <1>1, TypesInit, TypesKept, PTL DEF Spec

-----------------------------------------------------------------------------

\* state_lock: the call that takes a target's snapshot and the mark that it has
\* been taken are one step.
LEMMA AttachCarriers ==
  ASSUME Types, CarrierInv, NEW c \in Calls, Attach(c)
  PROVE  CarrierInv'
<1> USE DEF Attach, Goto
<1>1. /\ world.calls \subseteq Calls /\ Target(c) \in Targets
      /\ \A d \in Calls : Target(d)' = Target(d)
  BY WorldFacts DEF Target
<1>2. pc' = [pc EXCEPT ![c] = "open"] /\ pc[c] = "idle" /\ pc \in [Calls -> Stages]
  BY DEF Types
<1>3. c \notin carries
  BY <1>2 DEF CarrierInv
<1>4. CASE Target(c) \in world.bundle \ seeded
  <2>1. carries' = carries \cup {c} /\ seeded' = seeded \cup {Target(c)}
    BY <1>4
  <2>2. \A d \in carries : Target(d) # Target(c) /\ d \in Calls
    BY <1>4 DEF CarrierInv, Types
  <2> QED
    BY <1>1, <1>2, <2>1, <2>2 DEF CarrierInv, Target
<1>5. CASE Target(c) \notin world.bundle \ seeded
  <2>1. carries' = carries /\ seeded' = seeded
    BY <1>5
  <2> QED
    BY <1>1, <1>2, <1>3, <1>5, <2>1 DEF CarrierInv, Target, Types
<1> QED
  BY <1>4, <1>5

\* No other step marks a target, or makes a call begin.
LEMMA OtherCarriers ==
  ASSUME Types, CarrierInv, NEW c \in Calls,
         \/ FindSession(c) \/ BeginOpen(c) \/ OpenNothing(c) \/ EndOpen(c)
         \/ Send(c) \/ Serve(c) \/ Respond(c) \/ OpenFails(c) \/ RespondError(c)
         \/ Lose(c)
  PROVE  CarrierInv'
<1>1. UNCHANGED <<world, seeded, carries>>
  BY DEF FindSession, BeginOpen, OpenNothing, EndOpen, Send, Serve, Respond,
     OpenFails, RespondError, Lose, clientVars, callVars
<1>2. pc[c] # "idle" /\ \E p \in Stages \ {"idle"} : pc' = [pc EXCEPT ![c] = p]
  BY DEF FindSession, BeginOpen, OpenNothing, EndOpen, Send, Serve, Respond,
     OpenFails, RespondError, Lose, Goto, Stages
<1>3. \A d \in Calls : pc'[d] = "idle" <=> pc[d] = "idle"
  BY <1>2 DEF Types
<1>4. world.calls \subseteq Calls
  BY WorldFacts
<1> QED
  BY <1>1, <1>3, <1>4 DEF CarrierInv, Target, Types

LEMMA BaseInit == Init => Base
  BY TypesInit, McpAssumption DEF Base, CarrierInv, Init

LEMMA BaseKept == Base /\ [Next]_vars => Base'
<1> SUFFICES ASSUME Base, [Next]_vars PROVE CarrierInv'
  BY TypesKept DEF Base
<1>1. CASE UNCHANGED vars
  BY <1>1 DEF vars, clientVars, callVars, serverVars, Base, CarrierInv, Target
<1>2. CASE \E c \in Calls : Step(c) \/ Fault(c)
  BY <1>2, AttachCarriers, OtherCarriers DEF Step, Fault, Base
<1> QED
  BY <1>1, <1>2 DEF Next, Stopped

LEMMA BaseAlways == Spec => []Base
  BY BaseInit, BaseKept, PTL DEF Spec

-----------------------------------------------------------------------------

LEMMA NegotiatedInit == ASSUME Init, world.client = "mcp" PROVE SInv
<1> USE DEF Init
<1>1. LockInv /\ SessionInv
  BY DEF LockInv, SessionInv
<1>2. EffectInv /\ BeforeInv /\ PrimedInv
  BY DEF EffectInv, BeforeInv, PrimedInv, Executed
<1> QED
  BY <1>1, <1>2 DEF SInv

\* A call that begins takes the snapshot, if its target's has not been taken,
\* and is entitled to what is in its target's session.
LEMMA AttachStep ==
  ASSUME Base, SInv, NEW c \in Calls, Attach(c)
  PROVE  SInv'
<1> USE DEF Base, SInv, Attach, Goto, clientVars, callVars, serverVars
<1>1. /\ world.calls \subseteq Calls /\ Target(c) \in Targets
      /\ \A d \in Calls : Target(d) \in Targets /\ Target(d)' = Target(d)
  BY WorldFacts DEF Target
<1>2. AnsweredEffects(c) \subseteq Calls
  BY DEF AnsweredEffects, Effective
<1>3. pc' = [pc EXCEPT ![c] = "open"] /\ pc[c] = "idle" /\ pc \in [Calls -> Stages]
  BY DEF Types
<1>4. LockInv' /\ SessionInv' /\ EffectInv'
  BY <1>1, <1>3 DEF LockInv, SessionInv, EffectInv, Types, Target
<1>5. BeforeInv'
  <2>1. ASSUME NEW d \in AnsweredEffects(c)
        PROVE  /\ Target(c) \in sessions
               /\ d \in memory[Target(c)][current[Target(c)]]
    BY <1>1 DEF AnsweredEffects, Effective, EffectInv
  <2>2. ~Executed(c)'
    BY <1>3 DEF Executed
  <2> QED
    BY <1>1, <1>3, <2>1, <2>2 DEF BeforeInv, Executed, Types, Target
<1>6. PrimedInv'
  <2>1. ~Executed(c)' /\ \A d \in Calls \ {c} : Executed(d)' = Executed(d)
    BY <1>3 DEF Executed
  <2> QED
    BY <1>1, <2>1 DEF PrimedInv, Types, Target
<1> QED
  BY <1>4, <1>5, <1>6

\* A step of a call between its beginning and its request, or its loss: only
\* pc changes, and neither into nor out of an executed call.
LEMMA FindSessionStep ==
  ASSUME Base, SInv, NEW c \in Calls, FindSession(c)
  PROVE  SInv'
<1> USE DEF Base, SInv, FindSession, Goto, clientVars, callVars, serverVars
<1>1. pc' = [pc EXCEPT ![c] = "invoke"] /\ pc[c] = "open" /\ pc \in [Calls -> Stages]
  BY DEF Types
<1>2. \A d \in Calls : Target(d)' = Target(d)
  BY DEF Target
<1>3. \A d \in Calls : Executed(d)' = Executed(d)
  BY <1>1 DEF Executed
<1>4. LockInv' /\ SessionInv' /\ EffectInv'
  BY <1>1, <1>2 DEF LockInv, SessionInv, EffectInv, Types, Target
<1>5. BeforeInv' /\ PrimedInv'
  BY <1>2, <1>3 DEF BeforeInv, PrimedInv, Types, Target
<1> QED
  BY <1>4, <1>5

LEMMA BeginOpenStep ==
  ASSUME Base, SInv, NEW c \in Calls, BeginOpen(c)
  PROVE  SInv'
<1> USE DEF Base, SInv, BeginOpen, Goto, clientVars, callVars, serverVars
<1>1. pc' = [pc EXCEPT ![c] = "opening"] /\ pc[c] = "open" /\ pc \in [Calls -> Stages]
  BY DEF Types
<1>2. \A d \in Calls : Target(d)' = Target(d)
  BY DEF Target
<1>3. \A d \in Calls : Executed(d)' = Executed(d)
  BY <1>1 DEF Executed
<1>4. LockInv'
  <2>1. \A d \in Calls : pc[d] # "opening"
    BY McpAssumption DEF LockInv
  <2> QED
    BY <1>1, <1>2, <2>1 DEF LockInv
<1>5. SessionInv' /\ EffectInv'
  BY <1>1, <1>2 DEF SessionInv, EffectInv, Types, Target
<1>6. BeforeInv' /\ PrimedInv'
  BY <1>2, <1>3 DEF BeforeInv, PrimedInv, Types, Target
<1> QED
  BY <1>4, <1>5, <1>6

\* The response to initialize: the session that it opens is empty, and no call
\* of the target has been sent before.
LEMMA EndOpenStep ==
  ASSUME Base, SInv, NEW c \in Calls, EndOpen(c)
  PROVE  SInv'
<1> USE DEF Base, SInv, EndOpen, Goto, callVars
<1> DEFINE t == Target(c)
<1>1. /\ pc' = [pc EXCEPT ![c] = "invoke"] /\ pc[c] = "opening"
      /\ pc \in [Calls -> Stages] /\ t \in Targets /\ t \notin sessions
  BY WorldFacts DEF Types, LockInv
<1>2. \A d \in Calls : Target(d)' = Target(d) /\ Target(d) \in Targets
  BY WorldFacts DEF Target
<1>3. \A d \in Calls : Executed(d)' = Executed(d)
  BY <1>1 DEF Executed
<1>4. /\ memory' = [memory EXCEPT ![t] = Append(@, {})]
      /\ current' = [current EXCEPT ![t] = Len(memory[t]) + 1]
      /\ memory \in [Targets -> Seq(SUBSET Calls)] /\ current \in [Targets -> Nat]
      /\ sessions' = sessions \cup {t}
  BY DEF NewSession, Types
<1>5. /\ Len(memory[t]) \in Nat /\ Append(memory[t], {}) \in Seq(SUBSET Calls)
      /\ DOMAIN memory'[t] = DOMAIN memory[t] \cup {Len(memory[t]) + 1}
      /\ \A k \in DOMAIN memory[t] : memory'[t][k] = memory[t][k]
      /\ memory'[t][Len(memory[t]) + 1] = {}
  BY <1>1, <1>4
<1>6. \A u \in Targets : u # t => memory'[u] = memory[u] /\ current'[u] = current[u]
  BY <1>1, <1>4
<1>7. LockInv'
  <2>1. \A d \in Calls \ {c} : pc[d] # "opening"
    BY <1>1 DEF LockInv
  <2> QED
    BY <1>1, <2>1 DEF LockInv
<1>8. \A d \in Calls : pc[d] \in {"invoke", "sent", "served", "ok"} => Target(d) # t
  BY <1>1 DEF SessionInv
<1>9. SessionInv'
  <2>1. \A u \in sessions' : current'[u] \in DOMAIN memory'[u]
    <3> SUFFICES ASSUME NEW u \in sessions' PROVE current'[u] \in DOMAIN memory'[u]
      OBVIOUS
    <3>1. CASE u = t
      BY <1>1, <1>4, <1>5, <3>1
    <3>2. CASE u # t
      BY <1>4, <1>6, <3>2 DEF SessionInv, Types
    <3> QED
      BY <3>1, <3>2
  <2>2. \A d \in Calls :
          /\ pc'[d] \in {"invoke", "sent", "served", "ok"} => Target(d)' \in sessions'
          /\ pc'[d] \in {"sent", "served", "ok"} => via'[d] = current'[Target(d)']
    BY <1>1, <1>2, <1>4, <1>6, <1>8 DEF SessionInv
  <2> QED
    BY <2>1, <2>2 DEF SessionInv
<1>10. EffectInv'
  <2> SUFFICES ASSUME NEW u \in Targets, NEW k \in DOMAIN memory'[u],
                      NEW d \in memory'[u][k]
               PROVE  Target(d)' = u /\ u \in sessions' /\ k = current'[u]
    BY DEF EffectInv
  <2>1. CASE u = t
    <3>1. k \in DOMAIN memory[t] /\ d \in memory[t][k]
      BY <1>5, <2>1
    <3> QED
      BY <1>1, <3>1 DEF EffectInv
  <2>2. CASE u # t
    <3>1. k \in DOMAIN memory[u] /\ d \in memory[u][k]
      BY <1>6, <2>2
    <3> QED
      BY <1>4, <1>6, <2>2, <3>1 DEF EffectInv, Target
  <2> QED
    BY <2>1, <2>2
<1>11. BeforeInv'
  <2> SUFFICES ASSUME NEW d \in Calls
               PROVE  /\ \A e \in before'[d] :
                           /\ Target(d)' \in sessions'
                           /\ e \in memory'[Target(d)'][current'[Target(d)']]
                      /\ Executed(d)' => before'[d] \subseteq seen'[d]
    BY DEF BeforeInv
  <2>1. \A e \in before[d] : Target(d) # t
    BY <1>1 DEF BeforeInv
  <2> QED
    BY <1>2, <1>3, <1>4, <1>6, <2>1 DEF BeforeInv
<1>12. PrimedInv'
  <2>1. \A u \in Targets : \A k \in primed'[u] : u \in sessions' /\ k = current'[u]
    BY <1>1, <1>4, <1>6 DEF PrimedInv
  <2> QED
    BY <1>2, <1>3, <2>1 DEF PrimedInv, Target, Types
<1> QED
  BY <1>7, <1>9, <1>10, <1>11, <1>12

\* A session that the server opened and the client never heard of stays empty.
LEMMA OpenFailsStep ==
  ASSUME Base, SInv, NEW c \in Calls, OpenFails(c)
  PROVE  SInv'
<1> USE DEF Base, SInv, OpenFails, Goto, callVars
<1> DEFINE t == Target(c)
<1>1. /\ pc' = [pc EXCEPT ![c] = "error"] /\ pc[c] = "opening"
      /\ pc \in [Calls -> Stages] /\ t \in Targets /\ t \notin sessions
  BY WorldFacts DEF Types, LockInv
<1>2. \A d \in Calls : Target(d)' = Target(d) /\ Target(d) \in Targets
  BY WorldFacts DEF Target
<1>3. \A d \in Calls : Executed(d)' = Executed(d)
  BY <1>1 DEF Executed
<1>4. memory \in [Targets -> Seq(SUBSET Calls)]
  BY DEF Types
<1>5. /\ memory' \in [Targets -> Seq(SUBSET Calls)]
      /\ \A u \in Targets : u # t => memory'[u] = memory[u]
      /\ \A k \in DOMAIN memory'[t] :
           memory'[t][k] # {} => k \in DOMAIN memory[t] /\ memory'[t][k] = memory[t][k]
  <2>1. CASE memory' = memory
    BY <1>4, <2>1
  <2>2. CASE NewSession(t)
    <3>1. memory' = [memory EXCEPT ![t] = Append(@, {})]
      BY <2>2 DEF NewSession
    <3>2. /\ Append(memory[t], {}) \in Seq(SUBSET Calls)
          /\ DOMAIN Append(memory[t], {}) = DOMAIN memory[t] \cup {Len(memory[t]) + 1}
          /\ \A k \in DOMAIN memory[t] : Append(memory[t], {})[k] = memory[t][k]
          /\ Append(memory[t], {})[Len(memory[t]) + 1] = {}
      BY <1>1, <1>4
    <3> QED
      BY <1>1, <1>4, <3>1, <3>2
  <2> QED
    BY <2>1, <2>2
<1>6. LockInv'
  BY <1>1, <1>2 DEF LockInv
<1>7. SessionInv'
  <2>1. \A u \in sessions : u \in Targets /\ memory'[u] = memory[u]
    BY <1>1, <1>5 DEF Types
  <2> QED
    BY <1>1, <1>2, <2>1 DEF SessionInv
<1>8. EffectInv'
  <2> SUFFICES ASSUME NEW u \in Targets, NEW k \in DOMAIN memory'[u],
                      NEW d \in memory'[u][k]
               PROVE  Target(d)' = u /\ u \in sessions' /\ k = current'[u]
    BY DEF EffectInv
  <2>1. k \in DOMAIN memory[u] /\ d \in memory[u][k]
    BY <1>5
  <2> QED
    BY <2>1 DEF EffectInv, Target
<1>9. BeforeInv'
  <2>1. \A d \in Calls : Target(d) \in sessions => memory'[Target(d)] = memory[Target(d)]
    BY <1>1, <1>2, <1>5
  <2> QED
    BY <1>2, <1>3, <2>1 DEF BeforeInv
<1>10. PrimedInv'
  BY <1>2, <1>3 DEF PrimedInv, Target, Types
<1> QED
  BY <1>6, <1>7, <1>8, <1>9, <1>10

\* The request names the session that the target's client has.
LEMMA SendStep ==
  ASSUME Base, SInv, NEW c \in Calls, Send(c)
  PROVE  SInv'
<1> USE DEF Base, SInv, Send, Goto, clientVars, callVars
<1>1. /\ pc' = [pc EXCEPT ![c] = "sent"] /\ pc[c] = "invoke" /\ pc \in [Calls -> Stages]
      /\ via' = [via EXCEPT ![c] = current[Target(c)]] /\ via \in [Calls -> Nat]
      /\ current[Target(c)] \in Nat
  BY WorldFacts DEF Types
<1>2. \A d \in Calls : Target(d)' = Target(d)
  BY DEF Target
<1>3. \A d \in Calls : Executed(d)' = Executed(d) /\ (Executed(d) => via'[d] = via[d])
  BY <1>1 DEF Executed
<1>4. LockInv' /\ EffectInv'
  BY <1>1, <1>2 DEF LockInv, EffectInv, Types, Target
<1>5. SessionInv'
  BY <1>1, <1>2 DEF SessionInv
<1>6. BeforeInv'
  BY <1>2, <1>3 DEF BeforeInv
<1>7. PrimedInv'
  BY <1>2, <1>3 DEF PrimedInv, Target, Types
<1> QED
  BY <1>4, <1>5, <1>6, <1>7

\* The tool sees and changes the session that its request names.
LEMMA ServeStep ==
  ASSUME Base, SInv, NEW c \in Calls, Serve(c)
  PROVE  SInv'
<1> USE DEF Base, SInv, Serve, Goto, clientVars, callVars
<1> DEFINE t == Target(c)
           k == via[c]
<1>1. /\ pc' = [pc EXCEPT ![c] = "served"] /\ pc[c] = "sent" /\ pc \in [Calls -> Stages]
      /\ t \in sessions /\ t \in Targets /\ k = current[t] /\ k \in DOMAIN memory[t]
      /\ memory \in [Targets -> Seq(SUBSET Calls)]
  BY WorldFacts DEF Types, SessionInv
<1>2. k # 0
  BY <1>1
<1>3. \A d \in Calls : Target(d)' = Target(d) /\ Target(d) \in Targets
  BY WorldFacts DEF Target
<1>4. /\ via' = [via EXCEPT ![c] = k] /\ seen' = [seen EXCEPT ![c] = memory[t][k]]
      /\ primed' = [primed EXCEPT ![t] =
           IF world.stateful[c] /\ c \in carries THEN @ \cup {k} ELSE @]
  BY <1>2
<1>5. via' = via
  BY <1>4 DEF Types
<1>6. PICK x \in {{}, {c}} :
        memory' = [memory EXCEPT ![t] = [memory[t] EXCEPT ![k] = @ \cup x]]
  BY <1>2
<1>7. /\ memory[t][k] \subseteq Calls
      /\ [memory[t] EXCEPT ![k] = @ \cup x] \in Seq(SUBSET Calls)
  BY <1>1, <1>6
<1>8. /\ DOMAIN memory'[t] = DOMAIN memory[t]
      /\ memory'[t][k] = memory[t][k] \cup x
      /\ \A j \in DOMAIN memory[t] : j # k => memory'[t][j] = memory[t][j]
      /\ \A u \in Targets : u # t => memory'[u] = memory[u]
  BY <1>1, <1>6
<1>9. LockInv'
  BY <1>1, <1>3 DEF LockInv
<1>10. SessionInv'
  <2>1. \A u \in sessions : u \in Targets /\ DOMAIN memory'[u] = DOMAIN memory[u]
    BY <1>8 DEF Types
  <2> QED
    BY <1>1, <1>3, <1>5, <2>1 DEF SessionInv
<1>11. EffectInv'
  <2> SUFFICES ASSUME NEW u \in Targets, NEW j \in DOMAIN memory'[u],
                      NEW d \in memory'[u][j]
               PROVE  Target(d)' = u /\ u \in sessions' /\ j = current'[u]
    BY DEF EffectInv
  <2>1. CASE d \in memory[u][j] /\ j \in DOMAIN memory[u]
    <3>1. UNCHANGED <<sessions, current, world>>
      OBVIOUS
    <3>2. Target(d) = u /\ u \in sessions /\ j = current[u]
      BY <2>1 DEF EffectInv
    <3> QED
      BY <3>1, <3>2 DEF Target
  <2>2. CASE u = t /\ j = k /\ d \in x
    BY <1>1, <1>3, <1>6, <2>2
  <2> QED
    BY <1>8, <2>1, <2>2
<1>12. BeforeInv'
  <2>1. \A d \in Calls : \A e \in before[d] :
          e \in memory'[Target(d)][current[Target(d)]]
    BY <1>1, <1>3, <1>8 DEF BeforeInv
  <2>2. before[c] \subseteq seen'[c]
    BY <1>1, <1>4 DEF BeforeInv, Types
  <2>3. \A d \in Calls : Executed(d)' => before[d] \subseteq seen'[d]
    BY <1>1, <1>4, <2>2 DEF BeforeInv, Executed, Types
  <2> QED
    BY <1>3, <2>1, <2>3 DEF BeforeInv
<1>13. PrimedInv'
  <2>1. \A u \in Targets : \A j \in primed'[u] : u \in sessions /\ j = current[u]
    BY <1>1, <1>4 DEF PrimedInv, Types
  <2>2. \A u \in Targets : primed[u] \subseteq primed'[u]
    BY <1>1, <1>4 DEF Types
  <2>3. c \in carries /\ world.stateful[c] => k \in primed'[t]
    BY <1>1, <1>4 DEF Types
  <2>4. \A d \in carries :
          Executed(d)' /\ world.stateful[d] => via[d] \in primed'[Target(d)]
    <3> SUFFICES ASSUME NEW d \in carries, Executed(d)', world.stateful[d]
                 PROVE  via[d] \in primed'[Target(d)]
      OBVIOUS
    <3>1. d \in Calls
      BY DEF Types
    <3>2. CASE d = c
      BY <2>3, <3>2
    <3>3. CASE d # c
      <4>1. Executed(d)
        BY <1>1, <3>1, <3>3 DEF Executed
      <4> QED
        BY <1>3, <2>2, <3>1, <4>1 DEF PrimedInv
    <3> QED
      BY <3>2, <3>3
  <2> QED
    BY <1>3, <1>5, <2>1, <2>4 DEF PrimedInv, Types
<1> QED
  BY <1>9, <1>10, <1>11, <1>12, <1>13

\* The answer to a call, or its loss, leaves everything but pc alone: the
\* session of a client that negotiates it is not taken from responses.
LEMMA EndStep ==
  ASSUME Base, SInv, NEW c \in Calls, Respond(c) \/ RespondError(c) \/ Lose(c)
  PROVE  SInv'
<1> USE DEF Base, SInv, clientVars, callVars, serverVars
<1>1. /\ UNCHANGED <<world, clientVars, callVars, serverVars>>
      /\ pc[c] \in {"sent", "served"} /\ pc \in [Calls -> Stages]
      /\ \/ pc' = [pc EXCEPT ![c] = "ok"] /\ pc[c] = "served"
         \/ pc' = [pc EXCEPT ![c] = "error"]
  BY DEF Types, Respond, RespondError, TakeSession, Lose, Goto
<1>2. \A d \in Calls : Target(d)' = Target(d)
  BY <1>1 DEF Target
<1>3. \A d \in Calls : Executed(d)' => Executed(d)
  BY <1>1 DEF Executed
<1>4. LockInv' /\ SessionInv' /\ EffectInv'
  BY <1>1, <1>2 DEF LockInv, SessionInv, EffectInv, Types, Target
<1>5. BeforeInv' /\ PrimedInv'
  BY <1>1, <1>2, <1>3 DEF BeforeInv, PrimedInv, Types, Target
<1> QED
  BY <1>1, <1>4, <1>5

LEMMA NegotiatedStep == Base /\ SInv /\ [Next]_vars => SInv'
<1> SUFFICES ASSUME Base, SInv, [Next]_vars PROVE SInv'
  OBVIOUS
<1>1. CASE UNCHANGED vars
  BY <1>1 DEF vars, clientVars, callVars, serverVars, SInv, LockInv, SessionInv,
     EffectInv, BeforeInv, PrimedInv, Executed, Target
<1>2. CASE \E c \in Calls : Step(c) \/ Fault(c)
  <2>1. PICK c \in Calls : Step(c) \/ Fault(c)
    BY <1>2
  <2>2. ~OpenNothing(c)
    BY DEF OpenNothing, SInv
  <2> QED
    BY <2>1, <2>2, AttachStep, FindSessionStep, BeginOpenStep, EndOpenStep,
       OpenFailsStep, SendStep, ServeStep, EndStep DEF Step, Fault
<1> QED
  BY <1>1, <1>2 DEF Next, Stopped

LEMMA WorldKept == [Next]_vars => world' = world
  BY DEF Next, Step, Fault, Attach, FindSession, BeginOpen, OpenNothing, EndOpen,
     Send, Serve, Respond, OpenFails, RespondError, Lose, Stopped, vars

-----------------------------------------------------------------------------
LEMMA PastFacts ==
  ASSUME InTurn, Types, world.client = "agentcore"
  PROVE  Past \in [Calls -> SUBSET Calls] /\ OneByOne(world, Past) /\ world.named
<1>1. world.named /\ \E past \in [Calls -> SUBSET Calls] : OneByOne(world, past)
  BY DEF InTurn, Types
<1> QED
  BY <1>1 DEF Past

\* While a call is being executed, no other call to its target is: those that
\* come before it have succeeded, and the others have not begun.
LEMMA Alone ==
  ASSUME InTurn, Types, AInv, NEW c \in Calls, NEW d \in Calls, c # d,
         Target(c) = Target(d), pc[c] \notin {"idle", "ok"}, pc[d] # "idle"
  PROVE  pc[d] = "ok"
<1>1. /\ Past \in [Calls -> SUBSET Calls] /\ c \in world.calls /\ d \in world.calls
      /\ \A e \in Past[c] : pc[e] = "ok"
      /\ \A e \in Past[d] : pc[e] = "ok"
  BY PastFacts DEF AInv, TurnInv
<1>2. c \in Past[d] \/ d \in Past[c]
  BY <1>1, PastFacts DEF AInv, OneByOne, Target
<1> QED
  BY <1>1, <1>2

LEMMA AgentCoreInit == ASSUME Init, world.client = "agentcore" PROVE AInv
<1> USE DEF Init
<1>1. TurnInv /\ BeforeOnly /\ PrimedOnly
  BY DEF TurnInv, BeforeOnly, PrimedOnly, Executed
<1>2. \A t \in Targets : memory[t] = << >> /\ Len(memory[t]) = 0
  OBVIOUS
<1>3. OnlySession
  BY <1>2 DEF OnlySession, Executed
<1> QED
  BY <1>1, <1>3 DEF AInv

\* A call that begins needs calls that have succeeded, and those came after
\* their own.
LEMMA BeginTurn ==
  ASSUME InTurn, Base, AInv, NEW c \in Calls, Attach(c)
  PROVE  TurnInv'
<1> USE DEF Base, AInv
<1>1. /\ pc \in [Calls -> Stages] /\ pc' = [pc EXCEPT ![c] = "open"] /\ pc[c] = "idle"
      /\ c \in world.calls /\ \A d \in world.needs[c] : pc[d] = "ok"
      /\ world' = world
  BY DEF Attach, Goto, Types
<1>2. Past' = Past /\ Past \in [Calls -> SUBSET Calls]
  BY <1>1, PastFacts DEF Past
<1>3. world.needs[c] \subseteq Calls
  BY McpAssumption DEF Types
<1>4. \A d \in Past[c] : pc[d] = "ok"
  <2> SUFFICES ASSUME NEW d \in Past[c] PROVE pc[d] = "ok"
    OBVIOUS
  <2>1. CASE d \in world.needs[c]
    BY <1>1, <2>1
  <2>2. ASSUME NEW e \in world.needs[c], d \in Past[e]
        PROVE  pc[d] = "ok"
    <3>1. pc[e] = "ok" /\ e \in Calls
      BY <1>1, <1>3, <2>2
    <3> QED
      BY <2>2, <3>1 DEF TurnInv
  <2> QED
    BY <2>1, <2>2, PastFacts DEF OneByOne
<1>5. \A d, e \in Calls : d \in Past[e] => d \in Calls
  BY <1>2
<1>6. \A d \in Calls : pc[d] = "ok" => pc'[d] = "ok"
  BY <1>1
<1>7. \A d \in Calls : pc'[d] # "idle" => d \in world.calls
  BY <1>1 DEF TurnInv
<1>8. \A d \in Calls : pc'[d] # "idle" => \A e \in Past[d] : pc'[e] = "ok"
  <2> SUFFICES ASSUME NEW d \in Calls, pc'[d] # "idle", NEW e \in Past[d]
               PROVE  pc'[e] = "ok"
    OBVIOUS
  <2>1. e \in Calls
    BY <1>2
  <2>2. pc[e] = "ok"
    BY <1>1, <1>4 DEF TurnInv
  <2> QED
    BY <1>6, <2>1, <2>2
<1> QED
  BY <1>1, <1>2, <1>7, <1>8 DEF TurnInv

\* No other step makes a call begin or undoes its success.
LEMMA KeepTurn ==
  ASSUME InTurn, Base, AInv, NEW c \in Calls,
         \/ FindSession(c) \/ OpenNothing(c) \/ Send(c) \/ Serve(c) \/ Respond(c)
         \/ RespondError(c) \/ Lose(c)
  PROVE  TurnInv'
<1> USE DEF Base, AInv
<1>1. pc[c] \notin {"idle", "ok"} /\ \E p \in Stages \ {"idle"} : pc' = [pc EXCEPT ![c] = p]
  BY DEF FindSession, OpenNothing, Send, Serve, Respond, RespondError, Lose, Goto,
     Stages
<1>2. \A d \in Calls : /\ pc'[d] = "idle" <=> pc[d] = "idle"
                       /\ pc[d] = "ok" => pc'[d] = "ok"
  BY <1>1 DEF Types
<1>3. world' = world
  BY DEF FindSession, OpenNothing, Send, Serve, Respond, RespondError, Lose
<1>4. Past' = Past /\ Past \in [Calls -> SUBSET Calls]
  BY <1>3, PastFacts DEF Past
<1> QED
  BY <1>2, <1>3, <1>4 DEF TurnInv

LEMMA BeginOnly ==
  ASSUME InTurn, Base, AInv, NEW c \in Calls, Attach(c)
  PROVE  AInv'
<1> USE DEF Base, AInv
<1>1. /\ pc \in [Calls -> Stages] /\ pc' = [pc EXCEPT ![c] = "open"] /\ pc[c] = "idle"
      /\ UNCHANGED <<world, current, via, seen, memory, primed>>
      /\ before' = [before EXCEPT ![c] = AnsweredEffects(c)]
  BY DEF Attach, Goto, Types, serverVars
<1>2. \A d \in Calls : Target(d)' = Target(d) /\ Target(d) \in Targets
  BY <1>1, WorldFacts DEF Target
<1>3. \A d \in Calls : Executed(d)' = Executed(d)
  BY <1>1 DEF Executed
<1>4. OnlySession'
  BY <1>1, <1>2, <1>3 DEF OnlySession
<1>5. \A d \in AnsweredEffects(c) : Len(memory[Target(c)]) = 1 /\ d \in memory[Target(c)][1]
  <2> SUFFICES ASSUME NEW d \in AnsweredEffects(c)
               PROVE  Len(memory[Target(c)]) = 1 /\ d \in memory[Target(c)][1]
    OBVIOUS
  <2>1. PICK k \in DOMAIN memory[Target(c)] : d \in memory[Target(c)][k]
    BY DEF AnsweredEffects, Effective
  <2>2. /\ Len(memory[Target(c)]) \in Nat /\ Len(memory[Target(c)]) <= 1
        /\ DOMAIN memory[Target(c)] = 1 .. Len(memory[Target(c)])
    BY <1>2 DEF Types, OnlySession
  <2>3. \A n \in Nat : \A j \in 1 .. n : n <= 1 => n = 1 /\ j = 1
    OBVIOUS
  <2>4. k = 1 /\ Len(memory[Target(c)]) = 1
    BY <2>2, <2>3
  <2> QED
    BY <2>1, <2>4
<1>6. BeforeOnly'
  <2>1. \A d \in Calls : \A e \in before'[d] :
          Len(memory[Target(d)]) = 1 /\ e \in memory[Target(d)][1]
    BY <1>1, <1>5 DEF BeforeOnly, Types
  <2>2. \A d \in Calls : Executed(d)' => before'[d] \subseteq seen[d]
    BY <1>1, <1>3 DEF BeforeOnly, Types, Executed
  <2> QED
    BY <1>1, <1>2, <2>1, <2>2 DEF BeforeOnly
<1>7. PrimedOnly'
  <2>1. carries' \subseteq carries \cup {c} /\ carries \subseteq Calls
    BY DEF Attach, Types
  <2>2. ~Executed(c)'
    BY <1>1 DEF Executed
  <2> QED
    BY <1>1, <1>2, <1>3, <2>1, <2>2 DEF PrimedOnly
<1> QED
  BY <1>1, <1>4, <1>6, <1>7, BeginTurn

\* A client that opens nothing, and requests and responses lost.
LEMMA QuietOnly ==
  ASSUME InTurn, Base, AInv, NEW c \in Calls,
         FindSession(c) \/ OpenNothing(c) \/ Lose(c)
  PROVE  AInv'
<1> USE DEF Base, AInv
<1>1. /\ pc \in [Calls -> Stages]
      /\ \/ pc' = [pc EXCEPT ![c] = "invoke"] /\ pc[c] = "open"
         \/ pc' = [pc EXCEPT ![c] = "error"] /\ pc[c] \in {"sent", "served"}
      /\ UNCHANGED <<world, current, carries, before, via, seen, memory, primed>>
  BY DEF FindSession, OpenNothing, Lose, Goto, Types, clientVars, callVars, serverVars
<1>2. \A d \in Calls : Target(d)' = Target(d)
  BY <1>1 DEF Target
<1>3. \A d \in Calls : Executed(d)' => Executed(d)
  BY <1>1 DEF Executed
<1>4. OnlySession'
  <2>1. \A d \in Calls : pc[d] \in {"served", "error"} => pc'[d] \in {"served", "error"}
    BY <1>1
  <2>2. \A d \in Calls : /\ pc'[d] = "sent" => pc[d] = "sent"
                         /\ pc'[d] = "ok" => pc[d] = "ok"
                         /\ pc'[d] = "opening" => pc[d] = "opening"
    BY <1>1
  <2> QED
    BY <1>1, <1>2, <1>3, <2>1, <2>2 DEF OnlySession
<1>5. BeforeOnly' /\ PrimedOnly'
  BY <1>1, <1>2, <1>3 DEF BeforeOnly, PrimedOnly, Types
<1> QED
  BY <1>1, <1>4, <1>5, KeepTurn

LEMMA SendOnly ==
  ASSUME InTurn, Base, AInv, NEW c \in Calls, Send(c)
  PROVE  AInv'
<1> USE DEF Base, AInv
<1>1. /\ pc \in [Calls -> Stages] /\ pc' = [pc EXCEPT ![c] = "sent"] /\ pc[c] = "invoke"
      /\ via' = [via EXCEPT ![c] = current[Target(c)]] /\ via \in [Calls -> Nat]
      /\ UNCHANGED <<world, current, carries, before, seen, memory, primed>>
  BY DEF Send, Goto, Types, clientVars, callVars
<1>2. \A d \in Calls : Target(d)' = Target(d)
  BY <1>1 DEF Target
<1>3. \A d \in Calls : Executed(d)' = Executed(d) /\ (Executed(d) => via'[d] = via[d])
  BY <1>1 DEF Executed
<1>4. OnlySession'
  BY <1>1, <1>2, <1>3 DEF OnlySession
<1>5. BeforeOnly' /\ PrimedOnly'
  BY <1>1, <1>2, <1>3 DEF BeforeOnly, PrimedOnly, Types
<1> QED
  BY <1>1, <1>4, <1>5, KeepTurn

\* A request without a session is the first of its target that the server gets:
\* the session of an earlier one would be known from its response, or that call
\* failed and this one would not have begun.
LEMMA ServeAlone ==
  ASSUME InTurn, Base, AInv, NEW c \in Calls, Serve(c)
  PROVE  Serving(c) = 1 /\ Len(States(c)) = 1 /\ (Len(memory[Target(c)]) = 0 => States(c)[1] = {})
         /\ (Len(memory[Target(c)]) = 1 => States(c) = memory[Target(c)])
<1> USE DEF Base, AInv
<1> DEFINE t == Target(c)
<1>1. /\ pc[c] = "sent" /\ via[c] = current[t] /\ t \in Targets /\ via[c] \in Nat
      /\ memory[t] \in Seq(SUBSET Calls) /\ Len(memory[t]) \in Nat
      /\ Len(memory[t]) <= 1 /\ via[c] <= Len(memory[t])
  BY Served, WorldFacts DEF OnlySession, Types, Known
<1>2. CASE via[c] = 0
  <2>1. Len(memory[t]) # 1
    <3> SUFFICES ASSUME Len(memory[t]) = 1 PROVE FALSE
      OBVIOUS
    <3>1. PICK d \in Calls : Target(d) = t /\ pc[d] \in {"served", "error"}
      BY <1>1, <1>2 DEF OnlySession
    <3>2. c # d
      BY <1>1, <3>1
    <3> QED
      BY <1>1, <3>1, <3>2, Alone
  <2>2. Len(memory[t]) = 0
    <3>1. \A n \in Nat : n <= 1 /\ n # 1 => n = 0
      OBVIOUS
    <3> HIDE DEF t
    <3> QED
      BY <1>1, <2>1, <3>1
  <2>3. Len(Append(memory[t], {})) = 1 /\ Append(memory[t], {})[1] = {}
    BY <1>1, <2>2
  <2> QED
    BY <1>2, <2>2, <2>3 DEF Serving, States
<1>3. CASE via[c] # 0
  <2>1. via[c] = 1 /\ Len(memory[t]) = 1
    <3>1. \A n \in Nat, v \in Nat : n <= 1 /\ v <= n /\ v # 0 => v = 1 /\ n = 1
      OBVIOUS
    <3> HIDE DEF t
    <3> QED
      BY <1>1, <1>3, <3>1
  <2> QED
    BY <1>3, <2>1 DEF Serving, States
<1> QED
  BY <1>2, <1>3

LEMMA ServeOnly ==
  ASSUME InTurn, Base, AInv, NEW c \in Calls, Serve(c)
  PROVE  AInv'
<1> USE DEF Base, AInv
<1> DEFINE t == Target(c)
           S == States(c)
<1>1. /\ pc[c] = "sent" /\ pc' = [pc EXCEPT ![c] = "served"] /\ pc \in [Calls -> Stages]
      /\ UNCHANGED <<world, lock, sessions, seeded, current, carries, before>>
      /\ t \in Targets /\ S \in Seq(SUBSET Calls) /\ via' = [via EXCEPT ![c] = 1]
      /\ seen' = [seen EXCEPT ![c] = S[1]]
      /\ primed' = [primed EXCEPT ![t] =
           IF world.stateful[c] /\ c \in carries THEN @ \cup {1} ELSE @]
  BY Served, ServeAlone DEF Types
<1>2. PICK x \in {{}, {c}} :
        memory' = [memory EXCEPT ![t] = [S EXCEPT ![1] = @ \cup x]]
  BY Served, ServeAlone
<1>3. \A d \in Calls : Target(d)' = Target(d) /\ Target(d) \in Targets
  BY <1>1, WorldFacts DEF Target
<1>4. Len(S) = 1 /\ S[1] \in SUBSET Calls
  <2>1. Len(S) = 1
    BY ServeAlone
  <2>2. \A A : \A s \in Seq(A) : 1 \in 1 .. Len(s) => s[1] \in A
    OBVIOUS
  <2>3. 1 \in 1 .. 1
    OBVIOUS
  <2> HIDE DEF S
  <2>4. S[1] \in SUBSET Calls
    BY <1>1, <2>1, <2>2, <2>3, Zenon
  <2> QED
    BY <2>1, <2>4
<1>5. /\ Len(memory'[t]) = 1 /\ S[1] \subseteq memory'[t][1]
      /\ \A u \in Targets : u # t => memory'[u] = memory[u]
  <2>1. Len([S EXCEPT ![1] = @ \cup x]) = 1 /\ [S EXCEPT ![1] = @ \cup x][1] = S[1] \cup x
    BY <1>1, <1>4
  <2>2. /\ memory'[t] = [S EXCEPT ![1] = @ \cup x]
        /\ \A u \in Targets : u # t => memory'[u] = memory[u]
    BY <1>1, <1>2 DEF Types
  <2> QED
    BY <2>1, <2>2
<1>6. \A d \in Calls : d # c => /\ pc'[d] = pc[d] /\ via'[d] = via[d]
                                /\ Executed(d)' = Executed(d) /\ seen'[d] = seen[d]
  BY <1>1 DEF Executed, Types
<1>7. /\ pc'[c] = "served" /\ via'[c] = 1 /\ Executed(c)' /\ seen'[c] = S[1]
  BY <1>1 DEF Executed, Types
<1>8. OnlySession'
  <2>1. \A u \in Targets : Len(memory'[u]) <= 1
    <3> SUFFICES ASSUME NEW u \in Targets PROVE Len(memory'[u]) <= 1
      OBVIOUS
    <3>1. CASE u = t
      <4>1. Len(memory'[u]) = 1
        BY <1>5, <3>1
      <4> QED
        BY <4>1
    <3>2. CASE u # t
      BY <1>5, <3>2 DEF OnlySession
    <3> QED
      BY <3>1, <3>2
  <2>2. \A u \in Targets :
          current'[u] = 0 /\ Len(memory'[u]) = 1
            => \E d \in Calls : Target(d)' = u /\ pc'[d] \in {"served", "error"}
    <3> SUFFICES ASSUME NEW u \in Targets, current'[u] = 0, Len(memory'[u]) = 1
                 PROVE  \E d \in Calls : Target(d)' = u /\ pc'[d] \in {"served", "error"}
      OBVIOUS
    <3>1. CASE u = t
      BY <1>3, <1>7, <3>1
    <3>2. CASE u # t
      <4>1. PICK d \in Calls : Target(d) = u /\ pc[d] \in {"served", "error"}
        BY <1>1, <1>5, <3>2 DEF OnlySession
      <4> QED
        BY <1>3, <1>6, <3>2, <4>1
    <3> QED
      BY <3>1, <3>2
  <2>3. \A d \in Calls : /\ pc'[d] = "sent" => via'[d] = current'[Target(d)']
                         /\ Executed(d)' => via'[d] = 1
                         /\ pc'[d] = "ok" => current'[Target(d)'] = 1
                         /\ pc'[d] # "opening"
    BY <1>1, <1>3, <1>6, <1>7 DEF OnlySession
  <2> QED
    BY <2>1, <2>2, <2>3 DEF OnlySession
<1>9. \A d \in Calls : \A e \in before[d] : Target(d) = t => e \in S[1]
  <2> SUFFICES ASSUME NEW d \in Calls, NEW e \in before[d], Target(d) = t
               PROVE  e \in S[1]
    OBVIOUS
  <2>1. Len(memory[t]) = 1 /\ e \in memory[t][1]
    BY DEF BeforeOnly
  <2> QED
    BY <2>1, ServeAlone
<1>10. BeforeOnly'
  <2>1. \A d \in Calls : \A e \in before'[d] :
          Len(memory'[Target(d)']) = 1 /\ e \in memory'[Target(d)'][1]
    <3> SUFFICES ASSUME NEW d \in Calls, NEW e \in before[d]
                 PROVE  Len(memory'[Target(d)]) = 1 /\ e \in memory'[Target(d)][1]
      BY <1>1, <1>3
    <3>1. CASE Target(d) = t
      BY <1>5, <1>9, <3>1
    <3>2. CASE Target(d) # t
      BY <1>3, <1>5, <3>2 DEF BeforeOnly
    <3> QED
      BY <3>1, <3>2
  <2>2. before[c] \subseteq seen'[c]
    BY <1>7, <1>9
  <2>3. \A d \in Calls : Executed(d)' => before[d] \subseteq seen'[d]
    BY <1>6, <2>2 DEF BeforeOnly
  <2> QED
    BY <1>1, <2>1, <2>3 DEF BeforeOnly
<1>11. PrimedOnly'
  <2>1. /\ \A u \in Targets : primed[u] \subseteq primed'[u]
        /\ c \in carries /\ world.stateful[c] => 1 \in primed'[t]
    BY <1>1 DEF Types
  <2>2. \A d \in carries :
          Executed(d)' /\ world.stateful[d] => via'[d] \in primed'[Target(d)]
    <3> SUFFICES ASSUME NEW d \in carries, Executed(d)', world.stateful[d]
                 PROVE  via'[d] \in primed'[Target(d)]
      OBVIOUS
    <3>1. CASE d = c
      BY <1>7, <2>1, <3>1
    <3>2. CASE d # c
      BY <1>3, <1>6, <2>1, <3>2 DEF PrimedOnly, Types
    <3> QED
      BY <3>1, <3>2
  <2> QED
    BY <1>1, <1>3, <2>2 DEF PrimedOnly, Types
<1> QED
  BY <1>1, <1>8, <1>10, <1>11, KeepTurn

\* The response, of an error too, tells the client of the session, and no
\* request is under way that names another.
LEMMA RespondOnly ==
  ASSUME InTurn, Base, AInv, NEW c \in Calls, Respond(c) \/ RespondError(c)
  PROVE  AInv'
<1> USE DEF Base, AInv
<1> DEFINE t == Target(c)
<1>1. /\ pc \in [Calls -> Stages] /\ pc[c] = "served"
      /\ pc' = [pc EXCEPT ![c] = "ok"] \/ pc' = [pc EXCEPT ![c] = "error"]
      /\ UNCHANGED <<world, carries, before, via, seen, memory, primed>>
      /\ t \in Targets /\ current' = [current EXCEPT ![t] = via[c]]
  BY WorldFacts, PastFacts
     DEF Respond, RespondError, TakeSession, Goto, Types, callVars, serverVars
<1>2. \A d \in Calls : Target(d)' = Target(d)
  BY <1>1 DEF Target
<1>3. \A d \in Calls : Executed(d)' => Executed(d)
  BY <1>1 DEF Executed
<1>4. /\ via[c] = 1 /\ current'[t] = 1
      /\ \A u \in Targets : u # t => current'[u] = current[u]
  BY <1>1 DEF OnlySession, Executed, Types
<1>5. \A d \in Calls : pc[d] = "sent" => Target(d) # t
  BY <1>1, Alone
<1>6. OnlySession'
  <2>1. \A u \in Targets :
          current'[u] = 0 /\ Len(memory'[u]) = 1
            => \E d \in Calls : Target(d)' = u /\ pc'[d] \in {"served", "error"}
    <3> SUFFICES ASSUME NEW u \in Targets, current'[u] = 0, Len(memory'[u]) = 1
                 PROVE  \E d \in Calls : Target(d)' = u /\ pc'[d] \in {"served", "error"}
      OBVIOUS
    <3>1. u # t
      BY <1>4
    <3>2. PICK d \in Calls : Target(d) = u /\ pc[d] \in {"served", "error"}
      BY <1>1, <1>4, <3>1 DEF OnlySession
    <3> QED
      BY <1>1, <1>2, <3>1, <3>2
  <2>2. \A d \in Calls : /\ pc'[d] = "sent" => via'[d] = current'[Target(d)']
                         /\ Executed(d)' => via'[d] = 1
                         /\ pc'[d] = "ok" => current'[Target(d)'] = 1
                         /\ pc'[d] # "opening"
    BY <1>1, <1>2, <1>3, <1>4, <1>5, WorldFacts DEF OnlySession
  <2> QED
    BY <1>1, <2>1, <2>2 DEF OnlySession
<1>7. BeforeOnly' /\ PrimedOnly'
  BY <1>1, <1>2, <1>3 DEF BeforeOnly, PrimedOnly, Types
<1> QED
  BY <1>1, <1>6, <1>7, KeepTurn

LEMMA AgentCoreStep == ASSUME InTurn PROVE Base /\ AInv /\ [Next]_vars => AInv'
<1> SUFFICES ASSUME Base, AInv, [Next]_vars PROVE AInv'
  OBVIOUS
<1>1. CASE UNCHANGED vars
  BY <1>1 DEF vars, clientVars, callVars, serverVars, AInv, TurnInv, OnlySession,
     BeforeOnly, PrimedOnly, Executed, Target, Past
<1>2. CASE \E c \in Calls : Step(c) \/ Fault(c)
  <2>1. PICK c \in Calls : Step(c) \/ Fault(c)
    BY <1>2
  <2>2. ~BeginOpen(c) /\ ~EndOpen(c) /\ ~OpenFails(c)
    BY DEF BeginOpen, EndOpen, OpenFails, AInv, OnlySession
  <2> QED
    BY <2>1, <2>2, BeginOnly, QuietOnly, SendOnly, ServeOnly, RespondOnly
       DEF Step, Fault
<1> QED
  BY <1>1, <1>2 DEF Next, Stopped

-----------------------------------------------------------------------------

\* session_lock, the sessions and the snapshot's carriers stay consistent
\* through concurrent first calls, failed initializations and lost answers.
THEOREM SessionInvariant == Spec => [](world.client = "mcp" => SInv)
<1>1. Init => (world.client = "mcp" => SInv)
  BY NegotiatedInit
<1>2. Base /\ (world.client = "mcp" => SInv) /\ [Next]_vars
        => (world.client = "mcp" => SInv)'
  BY NegotiatedStep, WorldKept
<1> QED
  BY <1>1, <1>2, BaseAlways, PTL DEF Spec

\* AgentCoreMCPClient, which takes its session from the last response, keeps to
\* one session as long as no two calls of a target are under way together.
THEOREM AgentCoreInvariant ==
  ASSUME InTurn PROVE Spec => [](world.client = "agentcore" => AInv)
<1>1. Init => (world.client = "agentcore" => AInv)
  BY AgentCoreInit
<1>2. Base /\ (world.client = "agentcore" => AInv) /\ [Next]_vars
        => (world.client = "agentcore" => AInv)'
  BY AgentCoreStep, WorldKept
<1> QED
  BY <1>1, <1>2, BaseAlways, PTL DEF Spec

\* What either client's replays satisfy in every state.
LEMMA Either ==
  ASSUME InTurn PROVE Spec => [](Base /\ (SInv \/ AInv))
<1>1. Base => world.client = "mcp" \/ world.client = "agentcore"
  BY McpAssumption DEF Base, Types
<1> QED
  BY <1>1, BaseAlways, SessionInvariant, AgentCoreInvariant, PTL

\* A tool finds the effects of every call to its target that had been answered
\* when its own call began: session_for_target opens one session per target and
\* MCPClient.invoke names it in every request, however calls overlap;
\* AgentCoreMCPClient does so when the calls of a target do not.
THEOREM EffectsFound == ASSUME InTurn PROVE Spec => []EffectsVisible
<1>1. SInv \/ AInv => EffectsVisible
  BY DEF SInv, BeforeInv, AInv, BeforeOnly, EffectsVisible
<1> QED
  BY <1>1, Either, PTL

\* The requests of a replay to one target are executed in one session: with
\* MCPClient always, with AgentCoreMCPClient when they come one after another
\* (the assumption that concurrent first calls violate).
THEOREM OneSession == ASSUME InTurn PROVE Spec => []SessionReused
<1>1. SInv \/ AInv => SessionReused
  BY DEF SInv, SessionInv, AInv, OnlySession, SessionReused, Executed
<1> QED
  BY <1>1, Either, PTL

\* state_snapshot marks a target seeded under state_lock together with the
\* call that takes its snapshot: however calls overlap and fail, exactly one of
\* those that have begun carries it, and it sets the map of the session that
\* all executed calls of the target use.
THEOREM SeedDelivered == ASSUME InTurn PROVE Spec => []SeedArrives
<1>1. Base /\ (SInv \/ AInv) => SeedArrives
  <2> SUFFICES ASSUME Base, SInv \/ AInv, NEW t \in world.bundle,
                      {c \in world.calls : Target(c) = t /\ pc[c] # "idle"} # {}
               PROVE  \E c \in {d \in world.calls : Target(d) = t /\ pc[d] # "idle"} :
                        /\ {d \in world.calls : Target(d) = t /\ pc[d] # "idle"}
                             \cap carries = {c}
                        /\ Executed(c) /\ world.stateful[c] =>
                             primed[t] =
                               { via[d] : d \in
                                   {e \in {d \in world.calls :
                                            Target(d) = t /\ pc[d] # "idle"} :
                                      Executed(e)} }
    BY DEF SeedArrives
  <2> DEFINE begun == {d \in world.calls : Target(d) = t /\ pc[d] # "idle"}
             executed == {e \in begun : Executed(e)}
  <2>1. world.calls \subseteq Calls /\ t \in Targets
    BY WorldFacts DEF Base
  <2>2. t \in seeded
    BY DEF Base, CarrierInv, Types
  <2>3. PICK c \in carries : Target(c) = t
    BY <2>2 DEF Base, CarrierInv
  <2>4. c \in begun /\ begun \cap carries = {c}
    BY <2>3 DEF Base, CarrierInv
  <2>5. ASSUME Executed(c), world.stateful[c]
        PROVE  primed[t] = {via[d] : d \in executed}
    <3>1. via[c] \in primed[t] /\ c \in executed
      BY <2>1, <2>3, <2>4, <2>5 DEF SInv, PrimedInv, AInv, PrimedOnly
    <3>2. (\A d \in executed : via[d] = via[c]) /\ (\A k \in primed[t] : k = via[c])
      <4>1. CASE SInv
        BY <2>1, <2>4, <2>5, <4>1 DEF SInv, SessionInv, PrimedInv, Executed
      <4>2. CASE AInv
        <5>1. \A d \in executed : via[d] = 1
          BY <2>1, <4>2 DEF AInv, OnlySession
        <5>2. /\ Len(memory[t]) \in Nat /\ Len(memory[t]) <= 1
              /\ DOMAIN memory[t] = 1 .. Len(memory[t]) /\ primed[t] \subseteq DOMAIN memory[t]
          BY <2>1, <4>2 DEF AInv, OnlySession, Base, Types, Known
        <5> QED
          BY <3>1, <5>1, <5>2
      <4> QED
        BY <4>1, <4>2
    <3> QED
      BY <3>1, <3>2
  <2> QED
    BY <2>4, <2>5
<1> QED
  BY <1>1, Either, PTL

=============================================================================
