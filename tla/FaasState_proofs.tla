--------------------------- MODULE FaasState_proofs ---------------------------
(***************************************************************************)
(* Theorems about FaasState: that no call gets between the requests of     *)
(* another one's save, and that tools which rebind their attributes see    *)
(* the effects of their own session only.                                  *)
(***************************************************************************)
EXTENDS FaasState, TLAPS

Stages == {"idle", "sent"} \cup Executing \cup Finished

\* The server's side of a call goes wrong.
ServerFails(c) ==
  SaveFails(c) \/ SaveUnanswered(c) \/ \E i \in Instances : LoadFails(c, i)

Active(c) == pc[c] \in {"sent"} \cup Executing

-----------------------------------------------------------------------------
(* Exclusion *)

\* The access declarations cover the tools: a call that saves its session's
\* state conflicts with every other call of its replay on that state.
Declared ==
  \A w \in Worlds : \A c, d \in w.calls :
    /\ c # d /\ w.stateful[c]
    /\ w.service[c] = w.service[d] /\ w.run[c] = w.run[d]
    => Conflict(w.access[c], w.access[d])

\* Replays have a uid each, also after _safe_uid, or those of one uid run after
\* each other and lose no response.
Separate ==
  \A w \in Worlds : \A q, r \in Runs :
    q # r /\ SafeUid(w.uid[q]) = SafeUid(w.uid[r]) =>
      ~w.lossy /\ (q \in w.after[r] \/ r \in w.after[q])

ClientTypes ==
  /\ world \in Worlds
  /\ pc \in [Calls -> Stages]
  /\ answer \in [Calls -> {"none", "waiting", "ok", "error"}]
  /\ collected \subseteq Calls
  /\ phase \in [Runs -> {"new", "replay", "abort", "cleanup", "over"}]

\* What the client knows of a call and what the server does with it.
AnswerInv ==
  \A c \in Calls :
    /\ pc[c] # "idle" => c \in world.calls /\ answer[c] # "none"
    /\ pc[c] \in Executing => world.stateful[c]
    /\ answer[c] = "ok" => pc[c] \in Succeeded
    /\ Active(c) /\ ~world.lossy => answer[c] = "waiting"
    /\ c \in collected => answer[c] \in {"ok", "error"}
    /\ answer[c] # "none" => phase[world.run[c]] # "new"

\* A call whose error has been taken submits nothing more; a replay that is
\* over waits for nothing.
PhaseInv ==
  /\ \A c \in collected : answer[c] = "error" => phase[world.run[c]] # "replay"
  /\ \A c \in world.calls :
       phase[world.run[c]] \in {"cleanup", "over"} => answer[c] # "waiting"
  /\ \A r \in Runs : phase[r] # "new" => \A q \in world.after[r] : phase[q] = "over"

\* Calls that the server has not finished are compatible, whether or not the
\* client still waits for them.
ActiveInv ==
  \A c, d \in Calls :
    c # d /\ world.run[c] = world.run[d] /\ Active(c) /\ Active(d)
    => ~Conflict(world.access[c], world.access[d])

HInv == ClientTypes /\ AnswerInv /\ PhaseInv /\ ActiveInv

\* A call takes the steps of its save, fails or is served: it does not become
\* active by it.
LEMMA ServerStep ==
  ASSUME HInv, NEW c \in Calls, NEW p \in Stages \ {"idle", "sent"},
         Active(c), p \in Executing => world.stateful[c],
         pc' = [pc EXCEPT ![c] = p],
         UNCHANGED <<world, runVars>>
  PROVE  HInv'
<1> USE DEF HInv, runVars
<1>1. pc \in [Calls -> Stages]
  BY DEF ClientTypes
<1>2. \A d \in Calls : Active(d)' => Active(d)
  BY <1>1 DEF Active
<1>3. pc[c] # "idle" /\ pc[c] \notin Succeeded
  BY DEF Active, Executing, Succeeded
<1>4. ClientTypes'
  BY <1>1 DEF ClientTypes
<1>5. AnswerInv'
  BY <1>1, <1>2, <1>3 DEF AnswerInv
<1>6. PhaseInv' /\ ActiveInv'
  BY <1>2 DEF PhaseInv, ActiveInv
<1> QED
  BY <1>4, <1>5, <1>6

LEMMA ServeHolds ==
  ASSUME HInv, NEW c \in Calls, Serve(c) \/ ServerFails(c)
  PROVE  HInv'
<1>1. CASE \E i \in Instances : RunTool(c, i)
  <2>1. PICK i \in Instances : RunTool(c, i)
    BY <1>1
  <2>2. /\ pc[c] = "sent" /\ UNCHANGED <<world, runVars>>
        /\ \E p \in {"delete", "served", "unstored", "raised"} :
             pc' = [pc EXCEPT ![c] = p] /\ (p = "delete" => world.stateful[c])
    BY <2>1 DEF RunTool
  <2> QED
    BY <2>2, ServerStep DEF Active, Stages, Executing, Finished, Succeeded
<1>2. CASE \E i \in Instances : LoadFails(c, i)
  <2>1. /\ pc[c] = "sent" /\ UNCHANGED <<world, runVars>>
        /\ pc' = [pc EXCEPT ![c] = "raised"]
    BY <1>2 DEF LoadFails
  <2> QED
    BY <2>1, ServerStep DEF Active, Stages, Executing, Finished, Succeeded
<1>3. CASE ~ \E i \in Instances : RunTool(c, i) \/ LoadFails(c, i)
  <2>1. /\ pc[c] \in Executing /\ UNCHANGED <<world, runVars>>
        /\ \E p \in Stages \ {"idle", "sent"} : pc' = [pc EXCEPT ![c] = p]
    BY <1>3 DEF Serve, ServerFails, ClearDeletes, ClearTouches, AppendReads,
       AppendWrites, SaveFails, SaveUnanswered, Executing, Stages, Finished, Succeeded
  <2>2. world.stateful[c]
    BY <2>1 DEF HInv, AnswerInv
  <2> QED
    BY <2>1, <2>2, ServerStep DEF Active
<1> QED
  BY <1>1, <1>2, <1>3

\* The lock table admits a call: every active call of the replay holds its
\* lock, as no error has been taken.
LEMMA SubmitHolds ==
  ASSUME HInv, NEW r \in Runs, NEW c \in CallsIn(r), Submit(c)
  PROVE  HInv'
<1> USE DEF HInv, Submit
<1>1. c \in world.calls /\ c \in Calls /\ world.run[c] = r
  BY DeploymentAssumption DEF CallsIn, CallsOf, ClientTypes
<1>2. /\ phase[r] = "replay" /\ answer[c] = "none"
      /\ \A d \in Holding(r) : ~Conflict(world.access[c], world.access[d])
      /\ answer' = [answer EXCEPT ![c] = "waiting"]
      /\ pc' = [pc EXCEPT ![c] = "sent"]
      /\ UNCHANGED <<world, collected, phase>>
  BY <1>1
<1>3. /\ pc \in [Calls -> Stages]
      /\ answer \in [Calls -> {"none", "waiting", "ok", "error"}]
      /\ collected \subseteq Calls /\ c \notin collected
  BY <1>2 DEF ClientTypes, AnswerInv
<1>4. \A d \in Calls \ {c} :
        Active(d) /\ world.run[d] = r => ~Conflict(world.access[c], world.access[d])
  <2> SUFFICES ASSUME NEW d \in Calls \ {c}, Active(d), world.run[d] = r
               PROVE  d \in Holding(r)
    BY <1>2
  <2>1. d \in world.calls /\ answer[d] # "none" /\ answer[d] # "ok"
    BY DEF AnswerInv, Active, Executing, Succeeded
  <2>2. d \notin collected
    BY <1>2, <2>1 DEF AnswerInv, PhaseInv
  <2> QED
    BY <2>1, <2>2 DEF Holding, CallsIn, CallsOf
<1>5. ClientTypes'
  BY <1>2, <1>3 DEF ClientTypes, Stages
<1>6. AnswerInv'
  BY <1>1, <1>2, <1>3 DEF AnswerInv, Active, Executing
<1>7. PhaseInv'
  BY <1>1, <1>2, <1>3 DEF PhaseInv
<1>8. ActiveInv'
  <2>1. \A d \in Calls \ {c} : Active(d)' = Active(d)
    BY <1>2, <1>3 DEF Active
  <2>2. \A x, y : Conflict(x, y) = Conflict(y, x)
    BY DEF Conflict
  <2> QED
    BY <1>1, <1>2, <1>4, <2>1, <2>2 DEF ActiveInv
<1> QED
  BY <1>5, <1>6, <1>7, <1>8

LEMMA AnswerHolds ==
  ASSUME HInv, NEW c \in Calls, Respond(c) \/ LoseResponse(c)
  PROVE  HInv'
<1> USE DEF HInv, callVars
<1>1. /\ answer[c] = "waiting" /\ UNCHANGED <<world, pc, collected, phase>>
      /\ \/ answer' = [answer EXCEPT ![c] = "ok"] /\ pc[c] \in Succeeded
         \/ answer' = [answer EXCEPT ![c] = "error"]
      /\ pc[c] \in Finished \/ world.lossy
  BY DEF Respond, LoseResponse
<1>2. answer \in [Calls -> {"none", "waiting", "ok", "error"}]
  BY DEF ClientTypes
<1>3. ClientTypes' /\ ActiveInv'
  BY <1>1, <1>2 DEF ClientTypes, ActiveInv, Active
<1>4. AnswerInv'
  BY <1>1, <1>2 DEF AnswerInv, Active, Executing, Finished, Succeeded
<1>5. PhaseInv'
  <2>1. collected \subseteq Calls /\ world.calls \subseteq Calls /\ c \notin collected
    BY <1>1, DeploymentAssumption DEF ClientTypes, AnswerInv
  <2> QED
    BY <1>1, <1>2, <2>1 DEF PhaseInv
<1> QED
  BY <1>3, <1>4, <1>5

LEMMA CollectHolds ==
  ASSUME HInv, NEW r \in Runs, NEW c \in CallsIn(r), Collect(c)
  PROVE  HInv'
<1> USE DEF HInv, Collect, callVars
<1>1. c \in Calls /\ world.run[c] = r /\ world.run \in [Calls -> Runs]
  BY DeploymentAssumption DEF CallsIn, CallsOf, ClientTypes
<1>2. /\ phase[r] = "replay"
      /\ phase \in [Runs -> {"new", "replay", "abort", "cleanup", "over"}]
      /\ phase' = IF answer[c] = "error" THEN [phase EXCEPT ![r] = "abort"] ELSE phase
  BY <1>1 DEF ClientTypes
<1>3. \A q \in Runs : phase'[q] = phase[q] \/ (q = r /\ phase'[q] = "abort")
  BY <1>2
<1>4. ClientTypes' /\ ActiveInv'
  BY <1>1, <1>2 DEF ClientTypes, ActiveInv, Active
<1>5. AnswerInv'
  BY <1>1, <1>2, <1>3 DEF AnswerInv, Active
<1>6. PhaseInv'
  <2>1. \A d \in collected' : answer[d] = "error" => phase'[world.run[d]] # "replay"
    BY <1>1, <1>2 DEF PhaseInv, ClientTypes
  <2>2. \A d \in world.calls :
          phase'[world.run[d]] \in {"cleanup", "over"} => answer[d] # "waiting"
    BY <1>1, <1>3, DeploymentAssumption DEF PhaseInv, ClientTypes
  <2>3. \A q \in Runs : phase'[q] # "new" => \A o \in world.after[q] : phase'[o] = "over"
    BY <1>2, DeploymentAssumption DEF PhaseInv, ClientTypes
  <2> QED
    BY <2>1, <2>2, <2>3 DEF PhaseInv
<1> QED
  BY <1>4, <1>5, <1>6

\* A replay starts, ends or has been cleaned up.
LEMMA RunHolds ==
  ASSUME HInv, NEW r \in Runs, StartRun(r) \/ EndReplay(r) \/ EndRun(r)
  PROVE  HInv'
<1> USE DEF HInv, callVars
<1>1. /\ UNCHANGED <<world, pc, answer, collected>>
      /\ \/ /\ phase[r] = "new" /\ phase' = [phase EXCEPT ![r] = "replay"]
            /\ \A q \in world.after[r] : phase[q] = "over"
         \/ /\ phase[r] \in {"replay", "abort"}
            /\ phase' = [phase EXCEPT ![r] = "cleanup"]
            /\ \A c \in CallsIn(r) : c \in collected \/ answer[c] # "waiting"
         \/ phase[r] = "cleanup" /\ phase' = [phase EXCEPT ![r] = "over"]
  BY DEF StartRun, EndReplay, EndRun
<1>2. /\ phase \in [Runs -> {"new", "replay", "abort", "cleanup", "over"}]
      /\ world.run \in [Calls -> Runs] /\ world.calls \subseteq Calls
      /\ world.after \in [Runs -> SUBSET Runs] /\ collected \subseteq Calls
  BY DeploymentAssumption DEF ClientTypes
<1>3. \A c \in collected : answer[c] # "waiting"
  BY <1>2 DEF AnswerInv
<1>4. \A q \in Runs : phase'[q] = phase[q] \/ (q = r /\ phase'[q] # "new")
  BY <1>1, <1>2
<1>5. ClientTypes' /\ ActiveInv'
  BY <1>1, <1>2 DEF ClientTypes, ActiveInv, Active
<1>6. AnswerInv'
  BY <1>1, <1>2, <1>4 DEF AnswerInv, Active
<1>7. PhaseInv'
  <2>1. \A c \in collected : answer[c] = "error" => phase'[world.run[c]] # "replay"
    <3> SUFFICES ASSUME NEW c \in collected, answer[c] = "error"
                 PROVE  phase'[world.run[c]] # "replay"
      OBVIOUS
    <3>1. world.run[c] \in Runs /\ phase[world.run[c]] \notin {"new", "replay"}
      BY <1>2 DEF PhaseInv, AnswerInv
    <3> QED
      BY <1>1, <1>2, <3>1
  <2>2. \A c \in world.calls :
          phase'[world.run[c]] \in {"cleanup", "over"} => answer[c] # "waiting"
    <3> SUFFICES ASSUME NEW c \in world.calls,
                        phase'[world.run[c]] \in {"cleanup", "over"}
                 PROVE  answer[c] # "waiting"
      OBVIOUS
    <3>1. c \in Calls /\ world.run[c] \in Runs
      BY <1>2
    <3>2. CASE phase[world.run[c]] \in {"cleanup", "over"}
      BY <3>2 DEF PhaseInv
    <3>3. CASE phase[world.run[c]] \notin {"cleanup", "over"}
      <4>1. world.run[c] = r /\ (c \in collected \/ answer[c] # "waiting")
        BY <1>1, <1>2, <3>1, <3>3 DEF CallsIn, CallsOf
      <4> QED
        BY <1>3, <4>1
    <3> QED
      BY <3>2, <3>3
  <2>3. \A q \in Runs : phase'[q] # "new" => \A o \in world.after[q] : phase'[o] = "over"
    <3>1. \A o \in Runs : phase[o] = "over" => phase'[o] = "over"
      BY <1>1, <1>2
    <3> QED
      BY <1>1, <1>2, <1>4, <3>1 DEF PhaseInv
  <2> QED
    BY <1>1, <2>1, <2>2, <2>3 DEF PhaseInv
<1> QED
  BY <1>5, <1>6, <1>7

LEMMA HoldNext == HInv /\ [Next]_vars => HInv'
<1> SUFFICES ASSUME HInv, [Next]_vars PROVE HInv'
  OBVIOUS
<1>1. CASE UNCHANGED <<world, callVars, answer, collected, phase>>
  BY <1>1 DEF callVars, HInv, ClientTypes, AnswerInv, PhaseInv, ActiveInv, Active
<1>2. CASE \E c \in Calls : Serve(c) \/ Respond(c) \/ ServerFails(c) \/ LoseResponse(c)
  BY <1>2, ServeHolds, AnswerHolds
<1>3. CASE \E r \in Runs : RunStep(r)
  <2>1. PICK r \in Runs : RunStep(r)
    BY <1>3
  <2>2. CASE \E c \in CallsIn(r) : Submit(c) \/ Collect(c)
    BY <2>2, SubmitHolds, CollectHolds
  <2>3. CASE StartRun(r) \/ EndReplay(r) \/ EndRun(r)
    BY <2>3, RunHolds
  <2>4. CASE \E s \in Services : CleanService(r, s)
    BY <1>1, <2>4 DEF CleanService
  <2> QED
    BY <2>1, <2>2, <2>3, <2>4 DEF RunStep
<1>4. CASE \E r \in Runs : \E s \in Services : CleanFails(r, s)
  BY <1>1, <1>4 DEF CleanFails
<1>5. CASE \E i \in Instances : Recycle(i)
  BY <1>1, <1>5 DEF Recycle, runVars
<1> QED
  BY <1>1, <1>2, <1>3, <1>4, <1>5 DEF Next, Platform, ServerFails, Stopped, vars, runVars

\* What the lock table and the phases of the replays guarantee of calls that
\* the server has not finished, answered or lost.
THEOREM Exclusion == Spec => []HInv
<1>1. Init => HInv
  BY DeploymentAssumption
     DEF Init, HInv, ClientTypes, AnswerInv, PhaseInv, ActiveInv, Active, Stages,
     Executing, Succeeded
<1> QED
  BY <1>1, HoldNext, PTL DEF Spec

\* A call that saves its session's state is alone with it: every other call
\* of the session has not been sent yet or has left its instance.
LEMMA ExecutingAlone ==
  ASSUME Declared, Separate, HInv, NEW c \in Calls, NEW d \in Calls, c # d,
         Key(c) = Key(d), pc[c] \in Executing, Active(d)
  PROVE  FALSE
<1> DEFINE q == world.run[c]
           r == world.run[d]
<1>1. Active(c) /\ Active(d) /\ pc[c] \in Executing
  BY DEF Active
<1>2. /\ c \in world.calls /\ d \in world.calls /\ world.stateful[c]
      /\ world \in Worlds /\ q \in Runs /\ r \in Runs
      /\ world.service[c] = world.service[d]
      /\ SafeUid(world.uid[q]) = SafeUid(world.uid[r])
  BY <1>1, DeploymentAssumption
     DEF HInv, AnswerInv, ClientTypes, Key, KeyOf, Executing, Active
<1>3. CASE q = r
  BY <1>1, <1>2, <1>3 DEF Declared, HInv, ActiveInv
<1>4. CASE q # r
  <2>1. ~world.lossy /\ (q \in world.after[r] \/ r \in world.after[q])
    BY <1>2, <1>4 DEF Separate
  <2>2. answer[c] = "waiting" /\ answer[d] = "waiting"
    BY <1>1, <2>1 DEF HInv, AnswerInv
  <2>3. phase[q] \notin {"new", "over"} /\ phase[r] \notin {"new", "over"}
    BY <1>2, <2>2 DEF HInv, AnswerInv, PhaseInv
  <2> QED
    BY <1>2, <2>1, <2>3 DEF HInv, PhaseInv
<1> QED
  BY <1>3, <1>4

\* Between the requests of clearobj and append of one call, no other call
\* loads or saves the object: uncollected calls hold their lock, and a replay
\* that has taken a lost call's error submits nothing more.
THEOREM SavesAlone == ASSUME Declared, Separate PROVE Spec => []SavesUndisturbed
<1>1. HInv => SavesUndisturbed
  BY ExecutingAlone DEF SavesUndisturbed, Saving, Executing, Active
<1> QED
  BY <1>1, Exclusion, PTL

-----------------------------------------------------------------------------
(* Isolation *)

\* Tools bind their attributes to new values.
Rebinding == \A w \in Worlds : ~w.inPlace

\* Two uids of replays stay two after _safe_uid.
UidsApart ==
  \A w \in Worlds : \A q, r \in Runs :
    SafeUid(w.uid[q]) = SafeUid(w.uid[r]) => w.uid[q] = w.uid[r]

\* The uid in a call's key.
Uid(c) == SafeUid(world.uid[world.run[c]])

\* The states that hold effects of one session's calls only.
Owned(u) == { s \in SUBSET Marks : \A d \in s \ {Base} : Uid(d) = u }

\* What an instance holds, its defaults untouched.
Rebound ==
  [object : SUBSET Marks, defaults : {{}}, shared : BOOLEAN, storage : BOOLEAN]

\* Whatever an object holds belongs to the uid in its key, and so does what an
\* instance holds while it executes a call.  The defaults stay as registered,
\* and no two calls are executed by one instance.
Isolated ==
  /\ world \in Worlds
  /\ pc \in [Calls -> Stages]
  /\ at \in [Calls -> Instances]
  /\ \A key \in Keys : store[key] \in Seq(Owned(key[2])) \cup {NoObject}
  /\ store \in [Keys -> Seq(SUBSET Marks) \cup {NoObject}]
  /\ memory \in [Instances -> Rebound]
  /\ \A c \in Calls :
       /\ found[c] \in Seq(Owned(Uid(c)))
       /\ seen[c] \in Owned(Uid(c))
       /\ pc[c] \in Executing => memory[at[c]].object \in Owned(Uid(c))
  /\ found \in [Calls -> Seq(SUBSET Marks)]
  /\ seen \in [Calls -> SUBSET Marks]
  /\ \A c, d \in Calls :
       pc[c] \in Executing /\ pc[d] \in Executing /\ at[c] = at[d] => c = d

LEMMA KeyFacts ==
  ASSUME world \in Worlds, NEW c \in Calls
  PROVE  Key(c) \in Keys /\ Key(c)[2] = Uid(c)
  BY DeploymentAssumption DEF Key, KeyOf, Keys, Uid, SafeUid

LEMMA MutateFacts ==
  ASSUME ~world.inPlace, NEW c \in Calls, NEW m \in Rebound,
         m.object \in Owned(Uid(c))
  PROVE  /\ Mutate(m, c) \in Rebound
         /\ Mutate(m, c).object \in Owned(Uid(c))
<1> DEFINE x == Mutate(m, c)
<1>1. x = [m EXCEPT !.object = m.object \cup {c}, !.defaults = m.defaults]
  BY DEF Mutate
<1>2. m.object \cup {c} \in Owned(Uid(c)) /\ m.object \cup {c} \in SUBSET Marks
  BY DEF Owned, Uid, Marks
<1> HIDE DEF x
<1>3. x \in Rebound
  BY <1>1, <1>2 DEF Rebound
<1>4. x.object = m.object \cup {c}
  BY <1>1 DEF Rebound
<1> QED
  BY <1>2, <1>3, <1>4 DEF x

\* What a call restores belongs to its uid, and so does what its tool makes
\* of it.
LEMMA LoadFacts ==
  ASSUME Rebinding, Isolated, NEW c \in Calls, NEW i \in Instances
  PROVE  LET m == Load(memory[i], Content(i, Key(c))) IN
         \A x \in {m, Mutate(m, c)} :
           /\ x \in Rebound
           /\ x.object \in Owned(Uid(c))
<1> DEFINE content == Content(i, Key(c))
           m == Load(memory[i], content)
<1>1. /\ content \in Seq(Owned(Uid(c))) \cup {NoObject} /\ ~world.inPlace
      /\ memory[i] \in Rebound
  BY KeyFacts DEF Isolated, Rebinding, Content
<1> HIDE DEF content
<1>2. {} \in Owned(Uid(c)) /\ Owned(Uid(c)) \subseteq SUBSET Marks
  BY DEF Owned
<1>3. /\ m \in Rebound
      /\ m.object \in Owned(Uid(c))
  <2>1. CASE Readable(content)
    <3>1. content \in Seq(Owned(Uid(c))) /\ Len(content) = 1
      BY <1>1, <2>1 DEF Readable
    <3>2. content[1] \in Owned(Uid(c))
      BY <3>1
    <3> QED
      BY <1>1, <1>2, <2>1, <3>2 DEF Load, Rebound
  <2>2. CASE ~Readable(content)
    BY <1>1, <1>2, <2>2 DEF Load, Rebound
  <2> QED
    BY <2>1, <2>2
<1>4. /\ Mutate(m, c) \in Rebound
      /\ Mutate(m, c).object \in Owned(Uid(c))
  BY <1>1, <1>3, MutateFacts
<1> QED
  BY <1>3, <1>4 DEF content

\* What goes under a key belongs to the key's uid: replays seed and clean,
\* calls clear and append.
LEMMA StoreStep ==
  ASSUME Isolated, NEW key \in Keys, NEW x \in Seq(Owned(key[2])) \cup {NoObject},
         store' = [store EXCEPT ![key] = x], world' = world
  PROVE  /\ \A k \in Keys : store'[k] \in Seq(Owned(k[2])') \cup {NoObject}
         /\ store' \in [Keys -> Seq(SUBSET Marks) \cup {NoObject}]
<1>1. \A u : Owned(u)' = Owned(u) /\ Owned(u) \subseteq SUBSET Marks
  BY DEF Owned, Uid
<1>2. x \in Seq(SUBSET Marks) \cup {NoObject}
  BY <1>1
<1> QED
  BY <1>1, <1>2 DEF Isolated

LEMMA RunToolIsolated ==
  ASSUME Rebinding, Isolated, NEW c \in Calls, NEW i \in Instances, RunTool(c, i)
  PROVE  Isolated'
<1> DEFINE m == Load(memory[i], Content(i, Key(c)))
<1>1. /\ UNCHANGED <<world, store, found>> /\ ~Busy(i) /\ pc[c] = "sent"
      /\ seen' = [seen EXCEPT ![c] = m.object]
      /\ at' = [at EXCEPT ![c] = i]
      /\ \E x \in {m, Mutate(m, c)} : memory' = [memory EXCEPT ![i] = x]
      /\ \E p \in {"delete", "served", "unstored", "raised"} : pc' = [pc EXCEPT ![c] = p]
  BY DEF RunTool
<1>2. PICK x \in {m, Mutate(m, c)} : memory' = [memory EXCEPT ![i] = x]
  BY <1>1
<1>3. PICK p \in {"delete", "served", "unstored", "raised"} : pc' = [pc EXCEPT ![c] = p]
  BY <1>1
<1>4. /\ x \in Rebound
      /\ x.object \in Owned(Uid(c)) /\ m.object \in Owned(Uid(c))
  BY LoadFacts
<1> HIDE DEF m
<1>5. \A u : Owned(u)' = Owned(u)
  BY <1>1 DEF Owned, Uid
<1>6. \A d \in Calls : Uid(d)' = Uid(d)
  BY <1>1 DEF Uid
<1>7. \A d \in Calls \ {c} : pc[d] \in Executing => at[d] # i
  BY <1>1 DEF Busy
<1>8. /\ pc' \in [Calls -> Stages] /\ at' \in [Calls -> Instances]
      /\ memory' \in [Instances -> Rebound]
      /\ seen' \in [Calls -> SUBSET Marks]
  BY <1>1, <1>2, <1>3, <1>4 DEF Isolated, Stages, Executing, Finished, Succeeded,
     Owned
<1>9. \A d \in Calls :
        /\ seen'[d] \in Owned(Uid(d))
        /\ pc'[d] \in Executing => memory'[at'[d]].object \in Owned(Uid(d))
  <2> SUFFICES ASSUME NEW d \in Calls
               PROVE  /\ seen'[d] \in Owned(Uid(d))
                      /\ pc'[d] \in Executing => memory'[at'[d]].object \in Owned(Uid(d))
    OBVIOUS
  <2>1. CASE d = c
    BY <1>1, <1>2, <1>4, <2>1 DEF Isolated
  <2>2. CASE d # c
    BY <1>1, <1>2, <1>3, <1>7, <2>2 DEF Isolated
  <2> QED
    BY <2>1, <2>2
<1>10. \A d, e \in Calls :
         pc'[d] \in Executing /\ pc'[e] \in Executing /\ at'[d] = at'[e] => d = e
  BY <1>1, <1>3, <1>7 DEF Isolated
<1> QED
  BY <1>1, <1>5, <1>6, <1>8, <1>9, <1>10 DEF Isolated

\* A call goes on with its save: memory is left alone, and the object gets
\* nothing but what the instance holds.
Saves(c) ==
  \/ ClearDeletes(c) \/ ClearTouches(c) \/ AppendReads(c) \/ AppendWrites(c)
  \/ SaveFails(c) \/ SaveUnanswered(c)

LEMMA RequestIsolated ==
  ASSUME NEW c \in Calls, NEW S, memory[at[c]].object \in S,
         Blobs(store[Key(c)]) \in Seq(S), found[c] \in Seq(S),
         store[Key(c)] \in Seq(S) \cup {NoObject}
  PROVE  Requested(c) \in Seq(S) \cup {NoObject}
<1>1. /\ Append(Blobs(store[Key(c)]), memory[at[c]].object) \in Seq(S)
      /\ Append(found[c], memory[at[c]].object) \in Seq(S)
      /\ <<>> \in Seq(S)
  OBVIOUS
<1> QED
  BY <1>1 DEF Requested

LEMMA SaveIsolated ==
  ASSUME Isolated, NEW c \in Calls, Saves(c)
  PROVE  Isolated'
<1> USE DEF Saves
<1>1. Key(c) \in Keys /\ Key(c)[2] = Uid(c)
  BY KeyFacts DEF Isolated
<1>2. /\ UNCHANGED <<world, memory, at, seen>> /\ pc[c] \in Executing
      /\ \E p \in Stages : pc' = [pc EXCEPT ![c] = p]
  BY DEF ClearDeletes, ClearTouches, AppendReads, AppendWrites, SaveFails,
     SaveUnanswered, Executing, Stages, Finished, Succeeded
<1>3. Owned(Uid(c)) \subseteq SUBSET Marks
  BY DEF Owned
<1>4. /\ Blobs(store[Key(c)]) \in Seq(Owned(Uid(c))) /\ found[c] \in Seq(Owned(Uid(c)))
      /\ memory[at[c]].object \in Owned(Uid(c))
  BY <1>1, <1>2 DEF Blobs, Isolated
<1>5. \/ store' = store
      \/ \E x \in Seq(Owned(Uid(c))) \cup {NoObject} : store' = [store EXCEPT ![Key(c)] = x]
  <2>1. store[Key(c)] \in Seq(Owned(Uid(c))) \cup {NoObject}
    BY <1>1 DEF Isolated
  <2>2. Requested(c) \in Seq(Owned(Uid(c))) \cup {NoObject}
    BY <1>4, <2>1, RequestIsolated
  <2>3. store' = store \/ store' = [store EXCEPT ![Key(c)] = Requested(c)]
    BY DEF ClearDeletes, ClearTouches, AppendReads, AppendWrites, SaveFails,
       SaveUnanswered
  <2> QED
    BY <2>2, <2>3
<1>6. /\ \A k \in Keys : store'[k] \in Seq(Owned(k[2])') \cup {NoObject}
      /\ store' \in [Keys -> Seq(SUBSET Marks) \cup {NoObject}]
  <2>1. CASE store' = store
    <3>1. \A u : Owned(u)' = Owned(u)
      BY <1>2 DEF Owned, Uid
    <3> QED
      BY <2>1, <3>1 DEF Isolated
  <2>2. CASE store' # store
    <3>1. PICK x \in Seq(Owned(Key(c)[2])) \cup {NoObject} :
                 store' = [store EXCEPT ![Key(c)] = x]
      BY <1>1, <1>5, <2>2
    <3> QED
      BY <1>1, <1>2, <3>1, StoreStep
  <2> QED
    BY <2>1, <2>2
<1>7. \E q \in Seq(Owned(Uid(c))) : found' = [found EXCEPT ![c] = q] \/ found' = found
  <2>1. CASE AppendReads(c)
    BY <1>4, <2>1 DEF AppendReads
  <2>2. CASE AppendWrites(c)
    <3>1. found' = [found EXCEPT ![c] = <<>>] /\ <<>> \in Seq(Owned(Uid(c)))
      BY <2>2 DEF AppendWrites
    <3> QED
      BY <3>1
  <2>3. CASE ~AppendReads(c) /\ ~AppendWrites(c)
    BY <1>4, <2>3 DEF ClearDeletes, ClearTouches, SaveFails, SaveUnanswered
  <2> QED
    BY <2>1, <2>2, <2>3
<1>8. \A d \in Calls : Uid(d)' = Uid(d) /\ Owned(Uid(d))' = Owned(Uid(d))
  BY <1>2 DEF Uid, Owned
<1>9. /\ \A d \in Calls : found'[d] \in Seq(Owned(Uid(d)))
      /\ found' \in [Calls -> Seq(SUBSET Marks)]
  <2>1. PICK q \in Seq(Owned(Uid(c))) : found' = [found EXCEPT ![c] = q] \/ found' = found
    BY <1>7
  <2>2. q \in Seq(SUBSET Marks)
    BY <1>3
  <2> QED
    BY <2>1, <2>2 DEF Isolated
<1> QED
  BY <1>2, <1>6, <1>8, <1>9, ZenonT(40) DEF Isolated

LEMMA StartIsolated ==
  ASSUME Isolated, NEW r \in Runs, StartRun(r)
  PROVE  Isolated'
<1>1. /\ UNCHANGED <<world, memory, callVars>>
      /\ store' = [key \in Keys |->
                     IF key[2] = world.uid[r] /\ key[1] \in world.seeded
                     THEN <<{Base}>> ELSE store[key]]
  BY DEF StartRun
<1>2. \A u : Owned(u)' = Owned(u) /\ {Base} \in Owned(u) /\ Owned(u) \subseteq SUBSET Marks
  BY <1>1 DEF Owned, Marks, Uid
<1>3. \A key \in Keys : store'[key] \in Seq(Owned(key[2])) \cup {NoObject}
  <2>1. ASSUME NEW key \in Keys PROVE <<{Base}>> \in Seq(Owned(key[2]))
    <3>1. \A x, S : x \in S => <<x>> \in Seq(S)
      OBVIOUS
    <3> QED
      BY <1>2, <3>1
  <2>2. ASSUME NEW key \in Keys PROVE store'[key] \in {<<{Base}>>, store[key]}
    BY <1>1
  <2> QED
    BY <2>1, <2>2 DEF Isolated
<1>4. store' \in [Keys -> Seq(SUBSET Marks) \cup {NoObject}]
  <2>1. <<{Base}>> \in Seq(SUBSET Marks)
    BY DEF Marks
  <2> QED
    BY <1>1, <2>1 DEF Isolated
<1>5. \A d \in Calls : Uid(d)' = Uid(d)
  BY <1>1 DEF Uid
<1> QED
  BY <1>1, <1>2, <1>3, <1>4, <1>5 DEF Isolated, callVars

LEMMA CleanIsolated ==
  ASSUME Isolated, NEW r \in Runs, NEW s \in Services,
         CleanService(r, s) \/ CleanFails(r, s)
  PROVE  Isolated'
<1>1. /\ UNCHANGED <<world, memory, callVars>>
      /\ store' = store \/ store' = [store EXCEPT ![RunKey(r, s)] = NoObject]
  BY DEF CleanService, CleanFails
<1>2. RunKey(r, s) \in Keys
  BY DeploymentAssumption DEF RunKey, Keys, Isolated
<1>3. /\ \A k \in Keys : store'[k] \in Seq(Owned(k[2])') \cup {NoObject}
      /\ store' \in [Keys -> Seq(SUBSET Marks) \cup {NoObject}]
  <2>1. \A u : Owned(u)' = Owned(u)
    BY <1>1 DEF Owned, Uid
  <2>2. CASE store' = store
    BY <2>1, <2>2 DEF Isolated
  <2>3. CASE store' # store
    BY <1>1, <1>2, <2>3, StoreStep
  <2> QED
    BY <2>2, <2>3
<1>4. \A d \in Calls : Uid(d)' = Uid(d) /\ Owned(Uid(d))' = Owned(Uid(d))
  BY <1>1 DEF Uid, Owned
<1> QED
  BY <1>1, <1>3, <1>4 DEF Isolated, callVars

LEMMA RecycleIsolated ==
  ASSUME Isolated, NEW i \in Instances, Recycle(i)
  PROVE  Isolated'
<1>0. PICK m \in FreshMemories : memory' = [memory EXCEPT ![i] = m]
  BY DEF Recycle
<1>1. UNCHANGED <<world, store, callVars>> /\ ~Busy(i)
  BY DEF Recycle
<1>2. \A c \in Calls : pc[c] \in Executing => at[c] # i
  BY <1>1 DEF Busy
<1>3. memory' \in [Instances -> Rebound]
  <2>1. m \in Rebound
    BY DEF FreshMemories, Rebound
  <2> QED
    BY <1>0, <2>1 DEF Isolated
<1>4. \A c \in Calls : pc[c] \in Executing => memory'[at[c]] = memory[at[c]]
  BY <1>0, <1>2 DEF Isolated
<1>5. \A u : Owned(u)' = Owned(u)
  BY <1>1 DEF Owned, Uid
<1>6. \A d \in Calls : Uid(d)' = Uid(d)
  BY <1>1 DEF Uid
<1> QED
  BY <1>1, <1>3, <1>4, <1>5, <1>6 DEF Isolated, callVars

\* A step that sends a call, or ends one before it has restored anything, or
\* changes nothing of the server's.
LEMMA ClientIsolated ==
  ASSUME Isolated, UNCHANGED <<world, store, memory, seen, found>>,
         \/ pc' = pc /\ at' = at
         \/ \E c \in Calls : pc' = [pc EXCEPT ![c] = "sent"] /\ at' = at
         \/ \E c \in Calls, i \in Instances :
              pc' = [pc EXCEPT ![c] = "raised"] /\ at' = [at EXCEPT ![c] = i]
  PROVE  Isolated'
<1>1. /\ pc' \in [Calls -> Stages] /\ at' \in [Calls -> Instances]
      /\ \A c \in Calls : pc'[c] \in Executing => pc[c] \in Executing /\ at'[c] = at[c]
  BY DEF Isolated, Stages, Executing, Finished, Succeeded
<1>2. \A u : Owned(u)' = Owned(u)
  BY DEF Owned, Uid
<1>3. \A d \in Calls : Uid(d)' = Uid(d)
  BY DEF Uid
<1> QED
  BY <1>1, <1>2, <1>3 DEF Isolated

LEMMA IsolatedNext == ASSUME Rebinding PROVE Isolated /\ [Next]_vars => Isolated'
<1> SUFFICES ASSUME Isolated, [Next]_vars PROVE Isolated'
  OBVIOUS
<1>1. CASE UNCHANGED <<world, store, memory, callVars>>
  BY <1>1, ClientIsolated DEF callVars
<1>2. CASE \E c \in Calls : Serve(c) \/ ServerFails(c)
  <2>1. PICK c \in Calls : Serve(c) \/ ServerFails(c)
    BY <1>2
  <2>2. CASE \E i \in Instances : LoadFails(c, i)
    BY <2>2, ClientIsolated DEF LoadFails
  <2>3. CASE \E i \in Instances : RunTool(c, i)
    BY <2>3, RunToolIsolated
  <2>4. CASE Saves(c)
    BY <2>4, SaveIsolated
  <2> QED
    BY <2>1, <2>2, <2>3, <2>4 DEF Serve, ServerFails, Saves
<1>3. CASE \E c \in Calls : Respond(c) \/ LoseResponse(c)
  BY <1>1, <1>3 DEF Respond, LoseResponse
<1>4. CASE \E r \in Runs : RunStep(r)
  <2>1. PICK r \in Runs : RunStep(r)
    BY <1>4
  <2>2. CASE \E c \in CallsIn(r) : Submit(c)
    <3>1. CallsIn(r) \subseteq Calls
      BY DeploymentAssumption DEF CallsIn, CallsOf, Isolated
    <3> QED
      BY <2>2, <3>1, ClientIsolated DEF Submit
  <2>3. CASE \/ EndReplay(r) \/ EndRun(r) \/ \E c \in CallsIn(r) : Collect(c)
    BY <1>1, <2>3 DEF EndReplay, EndRun, Collect
  <2>4. CASE StartRun(r) \/ \E s \in Services : CleanService(r, s)
    BY <2>4, StartIsolated, CleanIsolated
  <2> QED
    BY <2>1, <2>2, <2>3, <2>4 DEF RunStep
<1>5. CASE \E r \in Runs : \E s \in Services : CleanFails(r, s)
  BY <1>5, CleanIsolated
<1>6. CASE \E i \in Instances : Recycle(i)
  BY <1>6, RecycleIsolated
<1> QED
  BY <1>1, <1>2, <1>3, <1>4, <1>5, <1>6 DEF Next, Platform, ServerFails, Stopped, vars

LEMMA IsolatedInit == ASSUME Instances # {} PROVE Init => Isolated
<1> SUFFICES ASSUME Init PROVE Isolated
  OBVIOUS
<1> USE DEF Init
<1>1. \A u : {} \in Owned(u)
  BY DEF Owned
<1>2. (CHOOSE i \in Instances : TRUE) \in Instances
  OBVIOUS
<1>3. /\ world \in Worlds /\ pc \in [Calls -> Stages] /\ at \in [Calls -> Instances]
      /\ \A c \in Calls : pc[c] \notin Executing
  BY <1>2 DEF Stages, Executing
<1>4. memory \in [Instances -> Rebound]
  BY DEF FreshMemories, Rebound
<1> QED
  BY <1>1, <1>3, <1>4 DEF Isolated

LEMMA IsolatedAlways == ASSUME Rebinding, Instances # {} PROVE Spec => []Isolated
<1>1. Init => Isolated
  BY IsolatedInit
<1> QED
  BY <1>1, IsolatedNext, PTL DEF Spec

\* Where tools bind their attributes to new values, a tool observes effects of
\* calls of its own uid only, whichever warm instance executes it: load_for_tool
\* overwrites what the instance's last session left there.  Two uids that
\* _safe_uid makes one are one session.
THEOREM Isolation ==
  ASSUME Rebinding, UidsApart, Instances # {} PROVE Spec => []SessionIsolation
<1>1. Isolated => SessionIsolation
  <2> SUFFICES ASSUME Isolated, NEW c \in Calls, NEW d \in seen[c] \ {Base}
               PROVE  world.uid[world.run[d]] = world.uid[world.run[c]]
    BY DEF SessionIsolation
  <2>1. Uid(d) = Uid(c) /\ d \in Calls
    BY DEF Isolated, Owned, Marks
  <2>2. world \in Worlds /\ world.run[c] \in Runs /\ world.run[d] \in Runs
    BY <2>1, DeploymentAssumption DEF Isolated
  <2> QED
    BY <2>1, <2>2 DEF UidsApart, Uid
<1> QED
  BY <1>1, IsolatedAlways, PTL

=============================================================================
