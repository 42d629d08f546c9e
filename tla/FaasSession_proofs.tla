------------------------- MODULE FaasSession_proofs -------------------------
(***************************************************************************)
(* Theorems about FaasState: that it implements SessionState, where a tool *)
(* call is one atomic step on its session's state, that an object outlives *)
(* its session only after a lost response, and that its types are right.   *)
(***************************************************************************)
EXTENDS FaasState_proofs

-----------------------------------------------------------------------------
(* Types *)

Memories ==
  [object : SUBSET Marks, defaults : SUBSET Marks, shared : BOOLEAN, storage : BOOLEAN]

Contents == Seq(SUBSET Marks) \cup {NoObject}

\* TypeOK, and that the store answers for every key.
Typed == TypeOK /\ store \in [Keys -> Contents]

LEMMA WorldFacts ==
  ASSUME world \in Worlds, NEW c \in Calls
  PROVE  /\ Key(c) \in Keys /\ world.service[c] \in Services
         /\ world.run[c] \in Runs /\ world.stateful[c] \in BOOLEAN
         /\ c \in Marks /\ SafeUid(Key(c)[2]) = Key(c)[2]
  BY DeploymentAssumption DEF Key, KeyOf, Keys, Marks, SafeUid

\* Loading and mutating keep an instance's memory what it is.
LEMMA MemoryFacts ==
  ASSUME NEW m \in Memories, NEW content \in Contents, NEW c \in Calls
  PROVE  /\ Load(m, content) \in Memories
         /\ Mutate(m, c) \in Memories
<1>1. Load(m, content) \in Memories
  <2>1. CASE Readable(content)
    <3>1. content \in Seq(SUBSET Marks) /\ Len(content) = 1
      BY <2>1 DEF Readable, Contents
    <3>2. \A S : content \in Seq(S) => content[1] \in S
      BY <3>1
    <3>3. content[1] \in SUBSET Marks
      BY <3>1, <3>2
    <3> QED
      BY <2>1, <3>3 DEF Load, Memories
  <2>2. CASE ~Readable(content)
    BY <2>2 DEF Load, Memories
  <2> QED
    BY <2>1, <2>2
<1>2. Mutate(m, c) \in Memories
  BY DEF Mutate, Memories, Marks
<1> QED
  BY <1>1, <1>2

LEMMA RunToolTyped ==
  ASSUME Typed, NEW c \in Calls, NEW i \in Instances, RunTool(c, i)
  PROVE  Typed'
<1> DEFINE m == Load(memory[i], Content(i, Key(c)))
<1>1. /\ UNCHANGED <<world, store, found, runVars>>
      /\ seen' = [seen EXCEPT ![c] = m.object]
      /\ at' = [at EXCEPT ![c] = i]
      /\ \E x \in {m, Mutate(m, c)} : memory' = [memory EXCEPT ![i] = x]
      /\ \E p \in {"delete", "served", "unstored", "raised"} : pc' = [pc EXCEPT ![c] = p]
  BY DEF RunTool
<1>2. memory[i] \in Memories /\ Content(i, Key(c)) \in Contents
  BY WorldFacts DEF Typed, TypeOK, Memories, Content, Contents
<1>3. m \in Memories /\ Mutate(m, c) \in Memories
  BY <1>2, MemoryFacts
<1>4. m.object \in SUBSET Marks
  BY <1>3 DEF Memories
<1> HIDE DEF m
<1>5. memory' \in [Instances -> Memories]
  BY <1>1, <1>3 DEF Typed, TypeOK, Memories
<1>6. /\ seen' \in [Calls -> SUBSET Marks]
      /\ at' \in [Calls -> Instances]
      /\ pc' \in [Calls -> Stages]
  BY <1>1, <1>4 DEF Typed, TypeOK, Stages, Executing, Finished, Succeeded
<1> QED
  BY <1>1, <1>5, <1>6 DEF Typed, TypeOK, Memories, runVars, Stages

\* The requests of a save write what the instance holds, or nothing.
LEMMA SaveTyped ==
  ASSUME Typed, NEW c \in Calls, Saves(c)
  PROVE  Typed'
<1> USE DEF Saves
<1>1. /\ UNCHANGED <<world, memory, at, seen, runVars>>
      /\ \E p \in Stages : pc' = [pc EXCEPT ![c] = p]
  BY DEF ClearDeletes, ClearTouches, AppendReads, AppendWrites, SaveFails,
     SaveUnanswered, Stages, Executing, Finished, Succeeded
<1>2. /\ store \in [Keys -> Contents] /\ Key(c) \in Keys /\ store[Key(c)] \in Contents
      /\ found \in [Calls -> Seq(SUBSET Marks)] /\ found[c] \in Seq(SUBSET Marks)
      /\ memory[at[c]] \in Memories
  BY WorldFacts DEF Typed, TypeOK, Memories
<1>3. /\ Blobs(store[Key(c)]) \in Seq(SUBSET Marks)
      /\ memory[at[c]].object \in SUBSET Marks
  BY <1>2 DEF Blobs, Contents, Memories
<1>4. Requested(c) \in Contents
  BY <1>2, <1>3, RequestIsolated DEF Contents
<1>5. store' = store \/ store' = [store EXCEPT ![Key(c)] = Requested(c)]
  BY DEF ClearDeletes, ClearTouches, AppendReads, AppendWrites, SaveFails,
     SaveUnanswered
<1>6. store' \in [Keys -> Contents]
  BY <1>2, <1>4, <1>5
<1>7. found' \in [Calls -> Seq(SUBSET Marks)]
  <2>1. <<>> \in Seq(SUBSET Marks)
    OBVIOUS
  <2>2. \/ found' = found
        \/ \E x \in Seq(SUBSET Marks) : found' = [found EXCEPT ![c] = x]
    BY <1>3, <2>1
    DEF ClearDeletes, ClearTouches, AppendReads, AppendWrites, SaveFails, SaveUnanswered
  <2> QED
    BY <1>2, <2>2
<1>8. pc' \in [Calls -> Stages]
  BY <1>1 DEF Typed, TypeOK, Stages
<1> QED
  BY <1>1, <1>6, <1>7, <1>8 DEF Typed, TypeOK, Contents, Stages, runVars

\* The tool is not run.
LEMMA LoadFailsTyped ==
  ASSUME Typed, NEW c \in Calls, NEW i \in Instances, LoadFails(c, i)
  PROVE  Typed'
<1>1. /\ UNCHANGED <<world, store, memory, seen, found, runVars>>
      /\ pc' = [pc EXCEPT ![c] = "raised"]
      /\ at' = [at EXCEPT ![c] = i]
  BY DEF LoadFails
<1> QED
  BY <1>1 DEF Typed, TypeOK, Contents, Finished, runVars

\* The steps of the replays and of the client's side.
LEMMA StartTyped ==
  ASSUME Typed, NEW r \in Runs, StartRun(r)
  PROVE  Typed'
<1>1. /\ UNCHANGED <<world, memory, callVars, answer, collected>>
      /\ phase' = [phase EXCEPT ![r] = "replay"]
      /\ toclean' = [toclean EXCEPT ![r] = world.seeded]
      /\ store' = [key \in Keys |->
                     IF key[2] = world.uid[r] /\ key[1] \in world.seeded
                     THEN <<{Base}>> ELSE store[key]]
  BY DEF StartRun
<1>2. world.seeded \in SUBSET Services
  BY DeploymentAssumption DEF Typed, TypeOK
<1>3. <<{Base}>> \in Contents
  <2>1. {Base} \in SUBSET Marks
    BY DEF Marks
  <2> QED
    BY <2>1 DEF Contents
<1>4. store' \in [Keys -> Contents]
  BY <1>1, <1>3 DEF Typed
<1>5. /\ phase' \in [Runs -> {"new", "replay", "abort", "cleanup", "over"}]
      /\ toclean' \in [Runs -> SUBSET Services]
  BY <1>1, <1>2 DEF Typed, TypeOK
<1> QED
  BY <1>1, <1>4, <1>5 DEF Typed, TypeOK, Contents, callVars

LEMMA ClientTyped ==
  ASSUME Typed, NEW c \in Calls,
         Submit(c) \/ Respond(c) \/ LoseResponse(c) \/ Collect(c)
  PROVE  Typed'
<1>1. UNCHANGED <<world, store, memory, at, seen, found>>
  BY DEF Submit, Respond, LoseResponse, Collect, callVars
<1>2. /\ world.run[c] \in Runs /\ world.service[c] \in Services
  BY WorldFacts DEF Typed, TypeOK
<1>3. pc' \in [Calls -> Stages]
  BY DEF Submit, Respond, LoseResponse, Collect, callVars, Typed, TypeOK, Stages
<1>4. answer' \in [Calls -> {"none", "waiting", "ok", "error"}]
  BY DEF Submit, Respond, LoseResponse, Collect, Typed, TypeOK
<1>5. collected' \subseteq Calls
  BY DEF Submit, Respond, LoseResponse, Collect, Typed, TypeOK
<1>6. phase' \in [Runs -> {"new", "replay", "abort", "cleanup", "over"}]
  <2>1. phase' = phase \/ phase' = [phase EXCEPT ![world.run[c]] = "abort"]
    BY DEF Submit, Respond, LoseResponse, Collect
  <2> QED
    BY <1>2, <2>1 DEF Typed, TypeOK
<1>7. toclean' \in [Runs -> SUBSET Services]
  <2>1. toclean \in [Runs -> SUBSET Services]
    BY DEF Typed, TypeOK
  <2>2. CASE Respond(c)
    <3>1. \/ toclean' = toclean
          \/ toclean' = [toclean EXCEPT ![world.run[c]] =
                            toclean[world.run[c]] \cup {world.service[c]}]
      BY <1>2, <2>1, <2>2 DEF Respond
    <3> QED
      BY <1>2, <2>1, <3>1
  <2>3. CASE ~Respond(c)
    BY <2>1, <2>3 DEF Submit, LoseResponse, Collect
  <2> QED
    BY <2>2, <2>3
<1> QED
  BY <1>1, <1>3, <1>4, <1>5, <1>6, <1>7 DEF Typed, TypeOK, Stages

LEMMA CleanTyped ==
  ASSUME Typed, NEW r \in Runs,
         \/ EndReplay(r) \/ EndRun(r)
         \/ \E s \in Services : CleanService(r, s) \/ CleanFails(r, s)
  PROVE  Typed'
<1>1. UNCHANGED <<world, memory, callVars, answer, collected>>
  BY DEF EndReplay, EndRun, CleanService, CleanFails
<1>2. store' \in [Keys -> Contents]
  <2>1. \A s \in Services : RunKey(r, s) \in Keys
    BY DeploymentAssumption DEF RunKey, Keys, Typed, TypeOK
  <2> QED
    BY <2>1 DEF EndReplay, EndRun, CleanService, CleanFails, Typed, Contents
<1>3. phase' \in [Runs -> {"new", "replay", "abort", "cleanup", "over"}]
  BY DEF EndReplay, EndRun, CleanService, CleanFails, Typed, TypeOK
<1>4. toclean' \in [Runs -> SUBSET Services]
  BY DEF EndReplay, EndRun, CleanService, CleanFails, Typed, TypeOK
<1> QED
  BY <1>1, <1>2, <1>3, <1>4 DEF Typed, TypeOK, Contents, callVars

LEMMA TypedNext == Typed /\ [Next]_vars => Typed'
<1> SUFFICES ASSUME Typed, [Next]_vars PROVE Typed'
  OBVIOUS
<1>1. \A r \in Runs : CallsIn(r) \subseteq Calls
  BY DeploymentAssumption DEF CallsIn, CallsOf, Typed, TypeOK
<1>2. CASE \E c \in Calls : Serve(c) \/ ServerFails(c)
  BY <1>2, RunToolTyped, SaveTyped, LoadFailsTyped DEF Serve, ServerFails, Saves
<1>3. CASE \E c \in Calls : Respond(c) \/ LoseResponse(c)
  BY <1>3, ClientTyped
<1>4. CASE \E r \in Runs : RunStep(r)
  BY <1>1, <1>4, ClientTyped, StartTyped, CleanTyped DEF RunStep
<1>5. CASE \E r \in Runs : \E s \in Services : CleanFails(r, s)
  BY <1>5, CleanTyped
<1>6. CASE \E i \in Instances : Recycle(i)
  <2>1. PICK i \in Instances : Recycle(i)
    BY <1>6
  <2>2. UNCHANGED <<world, store, callVars, runVars>>
    BY <2>1 DEF Recycle
  <2>3. memory' \in [Instances -> Memories]
    BY <2>1 DEF Recycle, FreshMemories, Typed, TypeOK, Memories
  <2> QED
    BY <2>2, <2>3 DEF Typed, TypeOK, Memories, callVars, runVars
<1>7. CASE UNCHANGED vars
  BY <1>7 DEF vars, callVars, runVars, Typed, TypeOK
<1> QED
  BY <1>2, <1>3, <1>4, <1>5, <1>6, <1>7 DEF Next, Platform, ServerFails, Stopped

\* The state of the store, the instances and the clients stays in its ranges.
THEOREM FaasTypes == ASSUME Instances # {} PROVE Spec => []Typed
<1>1. Init => Typed
  <2>1. FreshMemories \subseteq Memories
    BY DEF FreshMemories, Memories
  <2>2. (CHOOSE i \in Instances : TRUE) \in Instances
    OBVIOUS
  <2> QED
    BY <2>1, <2>2 DEF Init, Typed, TypeOK, Contents, Memories
<1> QED
  BY <1>1, TypedNext, PTL DEF Spec

\* TypeOK, for every deployment.
THEOREM FaasTypeCorrect == ASSUME Instances # {} PROVE Spec => []TypeOK
<1>1. Typed => TypeOK
  BY DEF Typed
<1> QED
  BY <1>1, FaasTypes, PTL

-----------------------------------------------------------------------------
(* Leftovers *)

\* A call that has written to the store, or is about to.
Wrote(c) == Saving(c) \/ pc[c] \in {"served", "saved", "torn"}

\* The server saves a call's session under the key that its replay cleans.
Cleanable(c) == Key(c) = RunKey(world.run[c], world.service[c])

\* An object is there because a replay that is not over has it in toclean, or
\* because of a stateful call whose answer is not there yet or was lost, or
\* whose uid the server changes.
LeftInv ==
  ~world.faulty =>
    \A key \in Keys :
      store[key] # NoObject =>
        \/ \E r \in Runs :
             /\ world.uid[r] = key[2] /\ key[1] \in toclean[r]
             /\ phase[r] \in {"replay", "abort", "cleanup"}
        \/ \E c \in Calls :
             /\ Key(c) = key /\ world.stateful[c] /\ Wrote(c)
             /\ answer[c] \in {"waiting", "error"} \/ ~Cleanable(c)

\* A replay that will clean the object, and a call that explains it.
Cleaner(r, key) ==
  /\ world.uid[r] = key[2] /\ key[1] \in toclean[r]
  /\ phase[r] \in {"replay", "abort", "cleanup"}

Writer(c, key) ==
  /\ Key(c) = key /\ world.stateful[c] /\ Wrote(c)
  /\ answer[c] \in {"waiting", "error"} \/ ~Cleanable(c)

Explained(key) ==
  \/ \E r \in Runs : Cleaner(r, key)
  \/ \E c \in Calls : Writer(c, key)

LEMMA LeftInvIs ==
  LeftInv <=> (~world.faulty => \A key \in Keys : store[key] # NoObject => Explained(key))
  BY DEF LeftInv, Explained, Cleaner, Writer

\* A step that takes nothing away from the explanations and adds no object
\* without one.
LEMMA LeftStep ==
  ASSUME LeftInv, world' = world,
         ~world.faulty =>
           \A key \in Keys :
             /\ Explained(key) => Explained(key)' \/ store'[key] = NoObject
             /\ store[key] = NoObject => store'[key] = NoObject \/ Explained(key)'
  PROVE  LeftInv'
<1>1. ~world.faulty' => \A key \in Keys : store'[key] # NoObject => Explained(key)'
  BY LeftInvIs
<1>2. \A key \in Keys : Explained(key)' <=>
         \/ (\E r \in Runs : Cleaner(r, key))'
         \/ (\E c \in Calls : Writer(c, key))'
  BY DEF Explained
<1> QED
  BY <1>1, <1>2 DEF LeftInv, Cleaner, Writer

\* The server's side of a call: who wrote stays a writer, and a writer stays
\* until it is answered.
LEMMA ServeLeft ==
  ASSUME Typed, HInv, LeftInv, NEW c \in Calls, Serve(c) \/ ServerFails(c)
  PROVE  LeftInv'
<1>1. /\ UNCHANGED <<world, runVars>>
      /\ \E p \in Stages : pc' = [pc EXCEPT ![c] = p]
      /\ store' = store \/ store' = [store EXCEPT ![Key(c)] = Requested(c)]
  BY DEF Serve, RunTool, ClearDeletes, ClearTouches, AppendReads, AppendWrites,
     ServerFails, SaveFails, SaveUnanswered, LoadFails, Stages, Executing, Finished,
     Succeeded
<1>2. pc \in [Calls -> Stages] /\ store \in [Keys -> Contents]
  BY DEF HInv, ClientTypes, Typed
<1>3. \A r, key : Cleaner(r, key)' <=> Cleaner(r, key)
  BY <1>1 DEF Cleaner, runVars
<1>4. ~world.faulty => Serve(c)
  BY DEF ServerFails, SaveFails, SaveUnanswered, LoadFails
<1>5. ASSUME ~world.faulty
      PROVE  Wrote(c) => Wrote(c)'
  BY <1>2, <1>4, <1>5 DEF Serve, RunTool, ClearDeletes, ClearTouches, AppendReads,
     AppendWrites, Wrote, Saving
<1>6. \A d \in Calls \ {c} : Wrote(d)' <=> Wrote(d)
  BY <1>1, <1>2 DEF Wrote, Saving
<1>7. \A d, key : Key(d)' = Key(d) /\ (Cleanable(d)' <=> Cleanable(d))
  BY <1>1 DEF Key, Cleanable, RunKey
<1>8. ASSUME ~world.faulty, NEW key \in Keys, NEW d \in Calls, Writer(d, key)
      PROVE  Writer(d, key)'
  BY <1>1, <1>5, <1>6, <1>7, <1>8 DEF Writer, runVars
<1>9. ASSUME ~world.faulty, NEW key \in Keys, Explained(key)
      PROVE  Explained(key)'
  BY <1>3, <1>8, <1>9 DEF Explained
<1>10. ASSUME ~world.faulty, NEW key \in Keys, store[key] = NoObject,
              store'[key] # NoObject
       PROVE  Explained(key)'
  <2>1. key = Key(c)
    BY <1>1, <1>2, <1>10
  <2>2. pc[c] \in {"touch", "write"} /\ pc'[c] \in {"measure", "served", "torn"}
    BY <1>2, <1>4, <1>10, <2>1 DEF Serve, RunTool, ClearDeletes, ClearTouches,
       AppendReads, AppendWrites, Requested
  <2>3. /\ world.stateful[c]
        /\ answer[c] \in {"waiting", "error"}
    BY <2>2 DEF HInv, AnswerInv, ClientTypes, Executing, Succeeded
  <2>4. Writer(c, key)'
    BY <1>1, <1>7, <2>1, <2>2, <2>3 DEF Writer, Wrote, Saving, runVars
  <2> QED
    BY <2>4 DEF Explained
<1> QED
  BY <1>1, <1>9, <1>10, LeftStep

\* Sending, losing and taking a call's answer leaves the writers writers.
LEMMA SubmitLeft ==
  ASSUME HInv, LeftInv, NEW c \in Calls, Submit(c) \/ LoseResponse(c) \/ Collect(c)
  PROVE  LeftInv'
<1>1. UNCHANGED <<world, store, toclean>>
  BY DEF Submit, LoseResponse, Collect, callVars
<1>2. /\ pc \in [Calls -> Stages]
      /\ answer \in [Calls -> {"none", "waiting", "ok", "error"}]
      /\ phase \in [Runs -> {"new", "replay", "abort", "cleanup", "over"}]
  BY DEF HInv, ClientTypes
<1>3. \A d \in Calls : answer[d] \in {"waiting", "error"} =>
        answer'[d] \in {"waiting", "error"} /\ pc'[d] = pc[d]
  BY <1>2 DEF Submit, LoseResponse, Collect, callVars
<1>4. \A d \in Calls : pc[d] # "idle" => pc'[d] = pc[d]
  BY <1>2 DEF Submit, LoseResponse, Collect, callVars, HInv, AnswerInv
<1>5. \A r \in Runs : phase[r] \in {"replay", "abort", "cleanup"} =>
        phase'[r] \in {"replay", "abort", "cleanup"}
  BY <1>2 DEF Submit, LoseResponse, Collect
<1>6. \A key : \A d \in Calls : Writer(d, key) => Writer(d, key)'
  <2>1. \A d : Key(d)' = Key(d) /\ (Cleanable(d)' <=> Cleanable(d))
    BY <1>1 DEF Key, Cleanable, RunKey
  <2>2. \A d \in Calls : Wrote(d) => Wrote(d)'
    BY <1>4 DEF Wrote, Saving
  <2> QED
    BY <1>1, <1>3, <2>1, <2>2 DEF Writer
<1>7. \A key : \A r \in Runs : Cleaner(r, key) => Cleaner(r, key)'
  BY <1>1, <1>5 DEF Cleaner
<1> QED
  BY <1>1, <1>7, <1>6, LeftStep DEF Explained

\* The answer of a writer that was served puts its service into toclean.
LEMMA RespondLeft ==
  ASSUME Typed, HInv, LeftInv, NEW c \in Calls, Respond(c)
  PROVE  LeftInv'
<1>0. PICK r \in Runs : r = world.run[c]
  BY WorldFacts DEF Typed, TypeOK
<1>1. /\ UNCHANGED <<world, store, pc, phase>> /\ answer[c] = "waiting"
      /\ answer' = [answer EXCEPT ![c] = IF pc[c] \in Succeeded THEN "ok" ELSE "error"]
      /\ toclean' = [toclean EXCEPT ![r] =
           IF pc[c] \in Succeeded /\ (IsStateful(world.access[c]) \/ world.stateful[c])
           THEN toclean[r] \cup {world.service[c]} ELSE toclean[r]]
  BY <1>0 DEF Respond, callVars
<1>2. /\ toclean \in [Runs -> SUBSET Services] /\ r \in Runs
      /\ answer \in [Calls -> {"none", "waiting", "ok", "error"}]
      /\ phase \in [Runs -> {"new", "replay", "abort", "cleanup", "over"}]
      /\ c \in world.calls
  <2>1. pc[c] # "idle"
    BY DEF Respond, Finished, Succeeded
  <2> QED
    BY <1>0, <2>1, WorldFacts DEF Typed, TypeOK, HInv, AnswerInv, Finished, Succeeded
<1>3. \A q \in Runs : toclean[q] \subseteq toclean'[q]
  BY <1>1, <1>2
<1>4. \A key : \A q \in Runs : Cleaner(q, key) => Cleaner(q, key)'
  BY <1>1, <1>3 DEF Cleaner
<1>5. \A d : /\ Key(d)' = Key(d) /\ (Cleanable(d)' <=> Cleanable(d))
             /\ Wrote(d)' <=> Wrote(d)
  BY <1>1 DEF Key, Cleanable, RunKey, Wrote, Saving
<1>6. ASSUME NEW key, NEW d \in Calls, Writer(d, key), d # c
      PROVE  Writer(d, key)'
  BY <1>1, <1>2, <1>6, <1>5 DEF Writer
<1>7. ASSUME NEW key, Writer(c, key)
      PROVE  Explained(key)'
  <2>1. CASE pc[c] = "served" /\ Cleanable(c)
    <3>1. key = <<world.service[c], world.uid[r]>> /\ world.stateful[c]
      BY <1>0, <1>7, <2>1 DEF Writer, Cleanable, RunKey
    <3>2. world.service[c] \in toclean'[r]
      BY <1>1, <1>2, <2>1, <3>1 DEF Succeeded
    <3>3. phase[r] \in {"replay", "abort"}
      BY <1>0, <1>1, <1>2 DEF HInv, AnswerInv, PhaseInv
    <3>4. Cleaner(r, key)'
      BY <1>1, <3>1, <3>2, <3>3 DEF Cleaner
    <3> QED
      BY <1>2, <3>4 DEF Explained
  <2>2. CASE pc[c] # "served"
    <3>1. pc[c] # "unstored"
      BY <1>7 DEF Writer, Wrote, Saving
    <3>2. answer'[c] = "error"
      BY <1>1, <1>2, <2>2, <3>1 DEF Succeeded
    <3>3. Writer(c, key)'
      BY <1>7, <1>5, <1>1, <3>2 DEF Writer
    <3> QED
      BY <3>3 DEF Explained
  <2>3. CASE ~Cleanable(c)
    <3>1. Writer(c, key)'
      BY <1>1, <1>7, <1>5, <2>3 DEF Writer
    <3> QED
      BY <3>1 DEF Explained
  <2> QED
    BY <2>1, <2>2, <2>3
<1>8. \A key : Explained(key) => Explained(key)'
  BY <1>4, <1>6, <1>7 DEF Explained
<1> QED
  BY <1>1, <1>8, LeftStep

\* A replay that starts has its snapshots' services in toclean.
LEMMA StartLeft ==
  ASSUME Typed, LeftInv, NEW r \in Runs, StartRun(r)
  PROVE  LeftInv'
<1>1. /\ UNCHANGED <<world, pc, answer>> /\ phase[r] = "new"
      /\ phase' = [phase EXCEPT ![r] = "replay"]
      /\ toclean' = [toclean EXCEPT ![r] = world.seeded]
      /\ store' = [key \in Keys |->
                     IF key[2] = world.uid[r] /\ key[1] \in world.seeded
                     THEN <<{Base}>> ELSE store[key]]
  BY DEF StartRun, callVars
<1>2. /\ toclean \in [Runs -> SUBSET Services]
      /\ phase \in [Runs -> {"new", "replay", "abort", "cleanup", "over"}]
  BY DEF Typed, TypeOK
<1>3. \A key : \A q \in Runs : Cleaner(q, key) => Cleaner(q, key)'
  BY <1>1, <1>2 DEF Cleaner
<1>4. \A key : \A d \in Calls : Writer(d, key) => Writer(d, key)'
  BY <1>1 DEF Writer, Wrote, Saving, Key, Cleanable, RunKey
<1>5. \A key : Explained(key) => Explained(key)'
  BY <1>3, <1>4 DEF Explained
<1>6. ASSUME NEW key \in Keys, store[key] = NoObject, store'[key] # NoObject
      PROVE  Explained(key)'
  <2>1. key[2] = world.uid[r] /\ key[1] \in world.seeded
    BY <1>1, <1>6
  <2>2. Cleaner(r, key)'
    BY <1>1, <1>2, <2>1 DEF Cleaner
  <2> QED
    BY <2>2 DEF Explained
<1> QED
  BY <1>1, <1>5, <1>6, LeftStep

\* A service leaves toclean when its object is gone, and a replay is over when
\* nothing is left in it.
LEMMA CleanLeft ==
  ASSUME Typed, LeftInv, NEW r \in Runs,
         \/ EndReplay(r) \/ EndRun(r)
         \/ \E s \in Services : CleanService(r, s) \/ CleanFails(r, s)
  PROVE  LeftInv'
<1>1. UNCHANGED <<world, pc, answer>>
  BY DEF EndReplay, EndRun, CleanService, CleanFails, callVars
<1>2. /\ toclean \in [Runs -> SUBSET Services] /\ store \in [Keys -> Contents]
      /\ phase \in [Runs -> {"new", "replay", "abort", "cleanup", "over"}]
  BY DEF Typed, TypeOK
<1>3. \A key : \A d \in Calls : Writer(d, key) => Writer(d, key)'
  BY <1>1 DEF Writer, Wrote, Saving, Key, Cleanable, RunKey
<1>4. CASE EndReplay(r) \/ EndRun(r)
  <2>1. store' = store /\ toclean' = toclean
    BY <1>4 DEF EndReplay, EndRun
  <2>2. \A q \in Runs :
          phase[q] \in {"replay", "abort", "cleanup"} =>
            phase'[q] \in {"replay", "abort", "cleanup"} \/ toclean[q] = {}
    BY <1>2, <1>4 DEF EndReplay, EndRun
  <2>3. \A key : \A q \in Runs : Cleaner(q, key) => Cleaner(q, key)'
    BY <1>1, <2>1, <2>2 DEF Cleaner
  <2> QED
    BY <1>1, <1>3, <2>1, <2>3, LeftStep DEF Explained
<1>5. ASSUME NEW s \in Services, CleanService(r, s)
      PROVE  LeftInv'
  <2>1. /\ store' = [store EXCEPT ![RunKey(r, s)] = NoObject]
        /\ toclean' = [toclean EXCEPT ![r] = toclean[r] \ {s}]
        /\ phase' = phase
    BY <1>5 DEF CleanService
  <2>2. ASSUME NEW key \in Keys, NEW q \in Runs, Cleaner(q, key)
        PROVE  Cleaner(q, key)' \/ key = RunKey(r, s)
    <3>1. CASE q = r /\ key[1] = s
      BY <2>2, <3>1 DEF Cleaner, RunKey, Keys
    <3>2. CASE q # r \/ key[1] # s
      BY <1>1, <1>2, <2>1, <2>2, <3>2 DEF Cleaner
    <3> QED
      BY <3>1, <3>2
  <2>3. \A key \in Keys : store'[key] = NoObject \/ (store'[key] = store[key]
                                                      /\ key # RunKey(r, s))
    BY <1>2, <2>1
  <2> QED
    BY <1>1, <1>3, <2>2, <2>3, LeftStep DEF Explained
<1>6. ASSUME NEW s \in Services, CleanFails(r, s)
      PROVE  LeftInv'
  BY <1>6, LeftInvIs DEF CleanFails, LeftInv
<1> QED
  BY <1>4, <1>5, <1>6

LEMMA LeftNext == Typed /\ HInv /\ LeftInv /\ [Next]_vars => LeftInv'
<1> SUFFICES ASSUME Typed, HInv, LeftInv, [Next]_vars PROVE LeftInv'
  OBVIOUS
<1>1. \A r \in Runs : CallsIn(r) \subseteq Calls
  BY DeploymentAssumption DEF CallsIn, CallsOf, Typed, TypeOK
<1>2. CASE \E c \in Calls : Serve(c) \/ ServerFails(c)
  BY <1>2, ServeLeft
<1>3. CASE \E c \in Calls : Respond(c) \/ LoseResponse(c)
  BY <1>3, RespondLeft, SubmitLeft
<1>4. CASE \E r \in Runs : RunStep(r)
  BY <1>1, <1>4, SubmitLeft, StartLeft, CleanLeft DEF RunStep
<1>5. CASE \E r \in Runs : \E s \in Services : CleanFails(r, s)
  BY <1>5, CleanLeft
<1>6. CASE UNCHANGED <<world, store, pc, answer, phase, toclean>>
  BY <1>6 DEF LeftInv, Wrote, Saving, Key, Cleanable, RunKey
<1> QED
  BY <1>2, <1>3, <1>4, <1>5, <1>6
  DEF Next, Platform, ServerFails, Stopped, Recycle, vars, callVars, runVars

\* Where no storage request fails, an object outlives the replays of its
\* session only because the response of a stateful call was lost or because the
\* server changes the uid: whatever else was written is in a replay's toclean,
\* under the same key, until it is deleted.
THEOREM LeftoversExplained ==
  ASSUME Instances # {} PROVE Spec => []LeftoversOfLostCalls
<1>1. Init => LeftInv
  BY DEF Init, LeftInv
<1>2. Typed /\ HInv /\ LeftInv => LeftoversOfLostCalls
  <2> SUFFICES ASSUME Typed, HInv, LeftInv, NEW key \in Keys,
                      ~world.faulty,
                      \A q \in Runs : SafeUid(world.uid[q]) = SafeUid(key[2]) =>
                                        phase[q] \in {"new", "over"},
                      store[key] # NoObject
               PROVE  \E c \in Calls :
                        /\ Key(c) = key /\ world.stateful[c] /\ pc[c] # "raised"
                        /\ answer[c] = "error" \/ ~Cleanable(c)
    BY DEF LeftoversOfLostCalls, Cleanable
  <2>1. PICK c \in Calls : Writer(c, key)
    BY LeftInvIs DEF Explained, Cleaner
  <2>2. c \in world.calls /\ pc[c] # "raised"
    BY <2>1 DEF Writer, Wrote, Saving, HInv, AnswerInv
  <2>3. /\ world.run[c] \in Runs
        /\ SafeUid(world.uid[world.run[c]]) = SafeUid(key[2])
    BY <2>1, WorldFacts DEF Writer, Key, KeyOf, Typed, TypeOK
  <2>4. answer[c] # "waiting"
    BY <2>2, <2>3 DEF HInv, AnswerInv, PhaseInv
  <2> QED
    BY <2>1, <2>2, <2>4 DEF Writer
<1> QED
  BY <1>1, <1>2, FaasTypes, Exclusion, LeftNext, PTL DEF Spec

-----------------------------------------------------------------------------
(* The value of a session *)

Closed(r) == phase[r] \in {"cleanup", "over"}

\* The client has given up on the call, and its replay has ended.
Orphan(c) == answer[c] = "error" /\ Closed(world.run[c])

\* Only where storages fail is an instance without one.
StorageInv == \A i \in Instances : memory[i].storage \/ world.faulty

\* Nothing is under a key that holds no session.
RawInv == \A key \in Keys : SafeUid(key[2]) # key[2] => store[key] = NoObject

\* While a call executes, its instance holds what it restored and its own
\* mark.  Until it clears the object, the object still is what it restored,
\* unless its replay has ended without it; from then on until it writes, the
\* object is empty.
ValueInv ==
  \A c \in Calls :
    /\ pc[c] \in Executing => memory[at[c]].object = seen[c] \cup {c}
    /\ pc[c] = "delete" => seen[c] = Restored(store[Key(c)]) \/ Orphan(c)
    /\ Saving(c) => Blobs(store[Key(c)]) = <<>>
    /\ pc[c] = "write" => found[c] = <<>>

\* No two calls of a session are between being sent and being served when one
\* of them is to save.
Alone ==
  \A c, d \in Calls :
    c # d /\ Key(c) = Key(d) /\ pc[c] \in Executing => ~Active(d)

LEMMA AloneHolds == ASSUME Declared, Separate PROVE HInv => Alone
BY ExecutingAlone DEF Alone

\* Another replay of an active call's uid has not started or is over.
LEMMA UidRuns ==
  ASSUME Separate, HInv, NEW c \in Calls, Active(c),
         NEW r \in Runs, SafeUid(world.uid[r]) = Uid(c), r # world.run[c]
  PROVE  \/ phase[r] = "over"
         \/ phase[r] = "new" /\ \E q \in world.after[r] : phase[q] # "over"
<1> DEFINE q == world.run[c]
<1>1. world \in Worlds /\ q \in Runs /\ c \in world.calls
  BY DeploymentAssumption DEF HInv, ClientTypes, AnswerInv, Active, Executing
<1>2. ~world.lossy /\ (q \in world.after[r] \/ r \in world.after[q])
  BY <1>1 DEF Separate, Uid
<1>3. phase[q] \notin {"new", "over"}
  BY <1>1, <1>2 DEF HInv, AnswerInv, PhaseInv
<1> QED
  BY <1>1, <1>2, <1>3 DEF HInv, PhaseInv

\* A replay that starts meets no active call of its uid; one that cleans up
\* meets orphans only.
LEMMA StartMeets ==
  ASSUME Separate, HInv, NEW r \in Runs, StartRun(r),
         NEW c \in Calls, Uid(c) = SafeUid(world.uid[r])
  PROVE  ~Active(c)
<1>1. phase[r] = "new" /\ \A q \in world.after[r] : phase[q] = "over"
  BY DEF StartRun
<1>2. Active(c) => world.run[c] # r
  BY <1>1 DEF HInv, AnswerInv, Active, Executing
<1> QED
  BY <1>1, <1>2, UidRuns

LEMMA CleanMeets ==
  ASSUME Separate, HInv, NEW r \in Runs, phase[r] = "cleanup",
         NEW c \in Calls, Uid(c) = SafeUid(world.uid[r]), Active(c)
  PROVE  Orphan(c)
<1>1. world.run[c] = r
  BY UidRuns
<1>2. answer[c] \notin {"none", "ok", "waiting"}
  BY <1>1 DEF HInv, AnswerInv, PhaseInv, Active, Executing, Succeeded
<1> QED
  BY <1>1, <1>2 DEF Orphan, Closed, HInv, ClientTypes

LEMMA LoadKeeps ==
  ASSUME Rebinding, Isolated, NEW c \in Calls, NEW i \in Instances
  PROVE  /\ Load(memory[i], Content(i, Key(c))) \in Rebound
         /\ Load(memory[i], Content(i, Key(c))).storage = memory[i].storage
<1> DEFINE content == Content(i, Key(c))
<1>1. Load(memory[i], content) \in Rebound /\ memory[i] \in Rebound
  BY LoadFacts DEF Isolated
<1> HIDE DEF content
<1>2. Load(memory[i], content).storage = memory[i].storage
  BY <1>1 DEF Load, Rebound
<1> QED
  BY <1>1, <1>2 DEF content

LEMMA LoadRestores ==
  ASSUME Isolated, NEW i \in Instances, NEW content
  PROVE  Load(memory[i], content).object = Restored(content)
<1>1. memory[i] \in Rebound
  BY DEF Isolated
<1> QED
  BY <1>1 DEF Load, Restored, Rebound

LEMMA RunToolValue ==
  ASSUME Rebinding, Isolated, ValueInv, NEW c \in Calls, NEW i \in Instances,
         RunTool(c, i)
  PROVE  ValueInv'
<1> DEFINE m == Load(memory[i], Content(i, Key(c)))
           after == IF world.stateful[c] THEN Mutate(m, c) ELSE m
<1>1. /\ UNCHANGED <<world, store, found, runVars>> /\ ~Busy(i) /\ pc[c] = "sent"
      /\ seen' = [seen EXCEPT ![c] = m.object]
      /\ at' = [at EXCEPT ![c] = i]
      /\ \/ /\ memory' = [memory EXCEPT ![i] = Mutate(m, c)]
            /\ pc' = [pc EXCEPT ![c] = "delete"]
            /\ memory[i].storage
         \/ /\ \E x : memory' = [memory EXCEPT ![i] = x]
            /\ \E p \in {"served", "unstored", "raised"} : pc' = [pc EXCEPT ![c] = p]
  <2>1. \/ /\ memory' = [memory EXCEPT ![i] = after]
           /\ pc' = [pc EXCEPT ![c] =
                       IF ~memory[i].storage THEN "unstored"
                       ELSE IF world.stateful[c] THEN "delete" ELSE "served"]
        \/ /\ \E x : memory' = [memory EXCEPT ![i] = x]
           /\ pc' = [pc EXCEPT ![c] = "raised"]
    BY DEF RunTool
  <2>2. UNCHANGED <<world, store, found, runVars>> /\ ~Busy(i) /\ pc[c] = "sent"
    BY DEF RunTool
  <2>3. seen' = [seen EXCEPT ![c] = m.object] /\ at' = [at EXCEPT ![c] = i]
    BY DEF RunTool
  <2> HIDE DEF m
  <2>4. CASE memory[i].storage /\ world.stateful[c]
    BY <2>1, <2>2, <2>3, <2>4
  <2>5. CASE memory[i].storage /\ ~world.stateful[c]
    <3>1. \E p \in {"served", "raised"} : pc' = [pc EXCEPT ![c] = p]
      BY <2>1, <2>5
    <3>2. \E x : memory' = [memory EXCEPT ![i] = x]
      BY <2>1
    <3> QED
      BY <2>2, <2>3, <3>1, <3>2
  <2>6. CASE ~memory[i].storage
    <3>1. \E p \in {"unstored", "raised"} : pc' = [pc EXCEPT ![c] = p]
      BY <2>1, <2>6
    <3>2. \E x : memory' = [memory EXCEPT ![i] = x]
      BY <2>1
    <3> QED
      BY <2>2, <2>3, <3>1, <3>2
  <2> QED
    BY <2>4, <2>5, <2>6
<1>2. m.object = Restored(Content(i, Key(c)))
  BY LoadRestores
<1>3. Mutate(m, c).object = m.object \cup {c}
  <2>1. m \in Rebound
    BY LoadKeeps
  <2> HIDE DEF m
  <2> QED
    BY <2>1 DEF Mutate, Rebound
<1> HIDE DEF m
<1>4. /\ pc \in [Calls -> Stages] /\ at \in [Calls -> Instances]
      /\ seen \in [Calls -> SUBSET Marks] /\ DOMAIN memory = Instances
  BY DEF Isolated
<1>5. ASSUME NEW d \in Calls \ {c}
      PROVE  /\ pc'[d] = pc[d] /\ at'[d] = at[d] /\ seen'[d] = seen[d]
             /\ pc[d] \in Executing => memory'[at[d]] = memory[at[d]]
  <2>1. pc[d] \in Executing => at[d] # i
    BY <1>1 DEF Busy
  <2> QED
    BY <1>1, <1>4, <2>1
<1>6. \A d \in Calls : Key(d)' = Key(d) /\ (Orphan(d)' <=> Orphan(d))
  BY <1>1 DEF Key, Orphan, Closed, runVars
<1>7. ASSUME NEW d \in Calls \ {c}
      PROVE  /\ pc'[d] \in Executing => memory'[at'[d]].object = seen'[d] \cup {d}
             /\ pc'[d] = "delete" => seen'[d] = Restored(store'[Key(d)]) \/ Orphan(d)'
             /\ Saving(d)' => Blobs(store'[Key(d)]) = <<>>
             /\ pc'[d] = "write" => found'[d] = <<>>
  BY <1>1, <1>5 DEF ValueInv, Saving, Orphan, Closed, runVars
<1>8. /\ pc'[c] \in Executing => memory'[at'[c]].object = seen'[c] \cup {c}
      /\ pc'[c] = "delete" => seen'[c] = Restored(store'[Key(c)])
      /\ pc'[c] \notin {"touch", "measure", "write"}
  BY <1>1, <1>2, <1>3, <1>4 DEF Executing, Content
<1> QED
  BY <1>6, <1>7, <1>8 DEF ValueInv, Saving

\* Between the requests of a save nobody else has written: OSS refuses none of
\* them, and the last one leaves the snapshot alone.
LEMMA RequestIs ==
  ASSUME ValueInv, NEW c \in Calls, pc[c] \in Executing
  PROVE  /\ pc[c] = "delete" => Requested(c) = NoObject
         /\ pc[c] = "touch" => Requested(c) = <<>>
         /\ pc[c] = "measure" => Requested(c) = store[Key(c)]
         /\ pc[c] = "write" => Requested(c) = <<seen[c] \cup {c}>>
         /\ ~Refused(c)
<1>1. Saving(c) => Blobs(store[Key(c)]) = <<>>
  BY DEF ValueInv
<1>2. pc[c] = "write" => found[c] = <<>>
  BY DEF ValueInv
<1>3. memory[at[c]].object = seen[c] \cup {c}
  BY DEF ValueInv
<1>4. ~Refused(c)
  BY <1>1, <1>2 DEF Refused, Saving
<1>5. Append(<<>>, seen[c] \cup {c}) = <<seen[c] \cup {c}>>
  OBVIOUS
<1> QED
  BY <1>1, <1>2, <1>3, <1>4, <1>5 DEF Requested, Saving, Executing

LEMMA SaveValue ==
  ASSUME Typed, Alone, ValueInv, NEW c \in Calls, Saves(c)
  PROVE  ValueInv'
<1> USE DEF Saves
<1>1. /\ UNCHANGED <<world, memory, at, seen, runVars>> /\ pc[c] \in Executing
      /\ \E p : pc' = [pc EXCEPT ![c] = p]
      /\ \/ store' = store
         \/ store' = [store EXCEPT ![Key(c)] = Requested(c)]
      /\ \/ found' = found
         \/ \E x : found' = [found EXCEPT ![c] = x]
  BY DEF ClearDeletes, ClearTouches, AppendReads, AppendWrites, SaveFails,
     SaveUnanswered, Executing
<1>2. /\ pc \in [Calls -> Stages] /\ store \in [Keys -> Contents]
      /\ found \in [Calls -> Seq(SUBSET Marks)] /\ Key(c) \in Keys
  BY WorldFacts DEF Typed, TypeOK, Stages
<1>3. \A d \in Calls : Key(d)' = Key(d) /\ (Orphan(d)' <=> Orphan(d))
  BY <1>1 DEF Key, Orphan, Closed, runVars
<1>4. ASSUME NEW d \in Calls \ {c}
      PROVE  /\ pc'[d] = pc[d] /\ found'[d] = found[d]
             /\ pc[d] \in Executing => store'[Key(d)] = store[Key(d)]
  <2>1. pc[d] \in Executing => Key(d) # Key(c) /\ Key(d) \in Keys
    BY <1>1, WorldFacts DEF Alone, Active, Typed, TypeOK
  <2> QED
    BY <1>1, <1>2, <2>1
<1>5. ASSUME NEW d \in Calls \ {c}
      PROVE  /\ pc'[d] \in Executing => memory'[at'[d]].object = seen'[d] \cup {d}
             /\ pc'[d] = "delete" => seen'[d] = Restored(store'[Key(d)]) \/ Orphan(d)'
             /\ Saving(d)' => Blobs(store'[Key(d)]) = <<>>
             /\ pc'[d] = "write" => found'[d] = <<>>
  <2>1. Saving(d) => pc[d] \in Executing
    BY DEF Saving, Executing
  <2>2. pc[d] = "delete" => pc[d] \in Executing
    BY DEF Executing
  <2> QED
    BY <1>1, <1>3, <1>4, <2>1, <2>2 DEF ValueInv, Saving
<1>6. /\ pc'[c] \in Executing => memory'[at'[c]].object = seen'[c] \cup {c}
      /\ pc'[c] # "delete"
  BY <1>1, <1>2
  DEF ValueInv, ClearDeletes, ClearTouches, AppendReads, AppendWrites, SaveFails,
      SaveUnanswered
<1>7. Saving(c) => Blobs(store[Key(c)]) = <<>>
  BY DEF ValueInv
<1>8. Saving(c)' => Blobs(store'[Key(c)]) = <<>>
  BY <1>1, <1>2, <1>7, RequestIs
  DEF ClearDeletes, ClearTouches, AppendReads, AppendWrites, SaveFails,
      SaveUnanswered, Blobs, Saving
<1>9. pc'[c] = "write" => found'[c] = <<>>
  BY <1>2, <1>7
  DEF ClearDeletes, ClearTouches, AppendReads, AppendWrites, SaveFails,
      SaveUnanswered, Saving
<1> QED
  BY <1>3, <1>5, <1>6, <1>8, <1>9 DEF ValueInv, Saving

LEMMA LoadFailsValue ==
  ASSUME Isolated, ValueInv, NEW c \in Calls, NEW i \in Instances, LoadFails(c, i)
  PROVE  ValueInv'
<1>1. /\ UNCHANGED <<world, store, memory, seen, found, runVars>> /\ pc[c] = "sent"
      /\ pc' = [pc EXCEPT ![c] = "raised"]
      /\ at' = [at EXCEPT ![c] = i]
  BY DEF LoadFails
<1>2. \A d \in Calls : pc'[d] \in Executing => pc'[d] = pc[d] /\ at'[d] = at[d]
  BY <1>1 DEF Isolated, Executing
<1>3. \A d \in Calls : Key(d)' = Key(d) /\ (Orphan(d)' <=> Orphan(d))
  BY <1>1 DEF Key, Orphan, Closed, runVars
<1> QED
  BY <1>1, <1>2, <1>3 DEF ValueInv, Saving, Executing

\* The replays' side moves no call and, but for seeding and cleaning, no
\* object; an orphan stays one.
LEMMA StartValue ==
  ASSUME Separate, HInv, ValueInv, Typed, NEW r \in Runs, StartRun(r)
  PROVE  ValueInv'
<1>1. /\ UNCHANGED <<world, memory, callVars, answer>>
      /\ phase' = [phase EXCEPT ![r] = "replay"] /\ phase[r] = "new"
      /\ store' = [key \in Keys |->
                     IF key[2] = world.uid[r] /\ key[1] \in world.seeded
                     THEN <<{Base}>> ELSE store[key]]
  BY DEF StartRun
<1>2. ASSUME NEW c \in Calls, pc[c] \in Executing
      PROVE  store'[Key(c)] = store[Key(c)]
  <2>1. Key(c) \in Keys /\ Key(c)[2] = Uid(c)
    BY KeyFacts DEF Typed, TypeOK
  <2>2. Uid(c) # world.uid[r]
    <3>1. SafeUid(Key(c)[2]) = Key(c)[2]
      BY WorldFacts DEF Typed, TypeOK
    <3>2. Uid(c) # SafeUid(world.uid[r])
      BY <1>2, StartMeets DEF Active
    <3> QED
      BY <2>1, <3>1, <3>2
  <2> QED
    BY <1>1, <2>1, <2>2
<1>3. ASSUME NEW c \in Calls, Orphan(c)
      PROVE  Orphan(c)'
  <2>1. world.run[c] # r
    BY <1>1, <1>3 DEF Orphan, Closed
  <2> QED
    BY <1>1, <1>3, <2>1 DEF Orphan, Closed, HInv, ClientTypes
<1> QED
  BY <1>1, <1>2, <1>3, ZenonT(40) DEF ValueInv, Saving, Executing, callVars, Key

LEMMA ClientValue ==
  ASSUME ValueInv, Typed, NEW c \in Calls,
         Submit(c) \/ Respond(c) \/ LoseResponse(c) \/ Collect(c)
  PROVE  ValueInv'
<1>1. /\ UNCHANGED <<world, store, memory, at, seen, found>>
      /\ pc' = pc \/ pc' = [pc EXCEPT ![c] = "sent"]
  BY DEF Submit, Respond, LoseResponse, Collect, callVars
<1>2. /\ pc \in [Calls -> Stages] /\ world.run[c] \in Runs
      /\ answer \in [Calls -> {"none", "waiting", "ok", "error"}]
      /\ phase \in [Runs -> {"new", "replay", "abort", "cleanup", "over"}]
  BY WorldFacts DEF Typed, TypeOK, Stages
<1>3. ASSUME NEW d \in Calls, Orphan(d)
      PROVE  Orphan(d)'
  <2>1. answer'[d] = "error"
    BY <1>2, <1>3 DEF Submit, Respond, LoseResponse, Collect, Orphan
  <2>2. \A r \in Runs : Closed(r) => Closed(r)'
    BY <1>2 DEF Submit, Respond, LoseResponse, Collect, Closed
  <2>3. world.run[d] \in Runs
    BY WorldFacts DEF Typed, TypeOK
  <2> QED
    BY <1>1, <1>3, <2>1, <2>2, <2>3 DEF Orphan, Closed
<1>4. \A d \in Calls : pc'[d] # "sent" => pc'[d] = pc[d]
  BY <1>1, <1>2
<1>5. \A d \in Calls : Key(d)' = Key(d)
  BY <1>1 DEF Key
<1> QED
  BY <1>1, <1>3, <1>4, <1>5 DEF ValueInv, Saving, Executing

LEMMA EndValue ==
  ASSUME ValueInv, Typed, NEW r \in Runs, EndReplay(r) \/ EndRun(r)
  PROVE  ValueInv'
<1>1. /\ UNCHANGED <<world, store, memory, callVars, answer>>
      /\ \E p \in {"cleanup", "over"} : phase' = [phase EXCEPT ![r] = p]
  BY DEF EndReplay, EndRun
<1>2. phase \in [Runs -> {"new", "replay", "abort", "cleanup", "over"}]
  BY DEF Typed, TypeOK
<1>3. \A q \in Runs : Closed(q) => Closed(q)'
  BY <1>1, <1>2 DEF Closed
<1>4. \A d \in Calls : Orphan(d) => Orphan(d)'
  BY <1>1, <1>3, WorldFacts DEF Orphan, Closed, Typed, TypeOK
<1> QED
  BY <1>1, <1>4 DEF ValueInv, Saving, callVars, Key

LEMMA CleanValue ==
  ASSUME Separate, HInv, ValueInv, Typed, NEW r \in Runs, NEW s \in Services,
         CleanService(r, s) \/ CleanFails(r, s)
  PROVE  ValueInv'
<1>1. /\ UNCHANGED <<world, memory, callVars, answer, phase>>
      /\ store' = store \/ store' = [store EXCEPT ![RunKey(r, s)] = NoObject]
      /\ phase[r] = "cleanup"
  BY DEF CleanService, CleanFails
<1>2. store \in [Keys -> Contents]
  BY DEF Typed
<1>3. ASSUME NEW c \in Calls, pc[c] \in Executing
      PROVE  \/ store'[Key(c)] = store[Key(c)]
             \/ Orphan(c) /\ Blobs(store'[Key(c)]) = <<>>
  <2>1. Key(c) \in Keys /\ Key(c)[2] = Uid(c)
    BY KeyFacts DEF Typed, TypeOK
  <2>2. CASE Key(c) = RunKey(r, s) /\ store' # store
    <3>1. Uid(c) = SafeUid(world.uid[r])
      BY <2>1, <2>2, WorldFacts DEF RunKey, Typed, TypeOK
    <3>2. Orphan(c)
      BY <1>1, <1>3, <3>1, CleanMeets DEF Active
    <3>3. store'[Key(c)] = NoObject
      BY <1>1, <1>2, <2>1, <2>2
    <3> QED
      BY <3>2, <3>3 DEF Blobs
  <2> QED
    BY <1>1, <1>2, <2>1, <2>2
<1>4. \A c \in Calls : Key(c)' = Key(c) /\ (Orphan(c)' <=> Orphan(c))
  BY <1>1 DEF Key, Orphan, Closed
<1>5. \A c \in Calls : pc[c] = "delete" \/ Saving(c) => pc[c] \in Executing
  BY DEF Saving, Executing
<1> QED
  BY <1>1, <1>3, <1>4, <1>5 DEF ValueInv, Saving, callVars

LEMMA ValueNext ==
  ASSUME Separate, Rebinding
  PROVE  Typed /\ HInv /\ Isolated /\ Alone /\ ValueInv /\ [Next]_vars => ValueInv'
<1> SUFFICES ASSUME Typed, HInv, Isolated, Alone, ValueInv, [Next]_vars
             PROVE  ValueInv'
  OBVIOUS
<1>1. \A r \in Runs : CallsIn(r) \subseteq Calls
  BY DeploymentAssumption DEF CallsIn, CallsOf, Typed, TypeOK
<1>2. CASE \E c \in Calls : Serve(c) \/ ServerFails(c)
  BY <1>2, RunToolValue, SaveValue, LoadFailsValue DEF Serve, ServerFails, Saves
<1>3. CASE \E c \in Calls : Respond(c) \/ LoseResponse(c)
  BY <1>3, ClientValue
<1>4. CASE \E r \in Runs : RunStep(r)
  BY <1>1, <1>4, ClientValue, StartValue, EndValue, CleanValue DEF RunStep
<1>5. CASE UNCHANGED <<world, store, memory, callVars, answer, phase>>
  BY <1>5 DEF ValueInv, Saving, callVars, Key, Orphan, Closed
<1>6. CASE \E i \in Instances : Recycle(i)
  <2>1. PICK i \in Instances : Recycle(i)
    BY <1>6
  <2>2. \A c \in Calls : pc[c] \in Executing => memory'[at[c]] = memory[at[c]]
    BY <2>1 DEF Recycle, Busy, Isolated
  <2> QED
    BY <2>1, <2>2 DEF Recycle, ValueInv, Saving, Key, Orphan, Closed, callVars, runVars
<1>7. CASE \E r \in Runs : \E s \in Services : CleanFails(r, s)
  BY <1>7, CleanValue
<1> QED
  BY <1>2, <1>3, <1>4, <1>5, <1>6, <1>7
  DEF Next, Platform, ServerFails, Stopped, vars, runVars

LEMMA ValueAlways ==
  ASSUME Declared, Separate, Rebinding, Instances # {}
  PROVE  Spec => []ValueInv
<1>1. Init => ValueInv
  BY DEF Init, ValueInv, Saving, Executing
<1> QED
  BY <1>1, FaasTypes, Exclusion, IsolatedAlways, AloneHolds, ValueNext, PTL DEF Spec

\* Restoring and mutating leave an instance its storage, and a new instance is
\* without one only where storages fail.
LEMMA StorageNext ==
  ASSUME Rebinding
  PROVE  Isolated /\ StorageInv /\ [Next]_vars => StorageInv'
<1> SUFFICES ASSUME Isolated, StorageInv, [Next]_vars PROVE StorageInv'
  OBVIOUS
<1>1. world' = world
  BY DEF Next, Serve, RunTool, ClearDeletes, ClearTouches, AppendReads, AppendWrites,
     Respond, RunStep, StartRun, EndReplay, EndRun, Submit, Collect, CleanService,
     CleanFails, Platform, Recycle, SaveFails, SaveUnanswered, LoseResponse, LoadFails,
     Stopped, vars
<1>2. CASE \E c \in Calls : \E i \in Instances : RunTool(c, i)
  <2>1. PICK c \in Calls, i \in Instances : RunTool(c, i)
    BY <1>2
  <2> DEFINE m == Load(memory[i], Content(i, Key(c)))
  <2>2. \E x \in {m, Mutate(m, c)} : memory' = [memory EXCEPT ![i] = x]
    BY <2>1 DEF RunTool
  <2>3. m \in Rebound /\ m.storage = memory[i].storage
    BY LoadKeeps
  <2> HIDE DEF m
  <2>4. Mutate(m, c).storage = m.storage
    BY <2>3 DEF Mutate, Rebound
  <2> QED
    BY <1>1, <2>2, <2>3, <2>4 DEF StorageInv, Isolated
<1>3. CASE \E i \in Instances : Recycle(i)
  <2>1. PICK i \in Instances : Recycle(i)
    BY <1>3
  <2>2. PICK m \in FreshMemories : memory' = [memory EXCEPT ![i] = m]
    BY <2>1 DEF Recycle
  <2>3. m.storage \/ world.faulty
    BY <2>2 DEF FreshMemories
  <2> QED
    BY <1>1, <2>2, <2>3 DEF StorageInv, Isolated
<1>4. CASE UNCHANGED memory
  BY <1>1, <1>4 DEF StorageInv
<1> QED
  BY <1>2, <1>3, <1>4
  DEF Next, Serve, ClearDeletes, ClearTouches, AppendReads, AppendWrites, Respond,
      RunStep, StartRun, EndReplay, EndRun, Submit, Collect, CleanService, CleanFails,
      Platform, SaveFails, SaveUnanswered, LoseResponse, LoadFails, Stopped, vars

\* Replays that seed have uids that the server leaves as they are.
SeedsFound ==
  \A w \in Worlds : \A r \in Runs : w.seeded # {} => SafeUid(w.uid[r]) = w.uid[r]

LEMMA RawNext ==
  ASSUME SeedsFound
  PROVE  Typed /\ RawInv /\ [Next]_vars => RawInv'
<1> SUFFICES ASSUME Typed, RawInv, [Next]_vars PROVE RawInv'
  OBVIOUS
<1>1. CASE \E c \in Calls : \E x : store' = [store EXCEPT ![Key(c)] = x]
  BY <1>1, WorldFacts DEF RawInv, Typed, TypeOK
<1>2. CASE \E r \in Runs : StartRun(r)
  <2>1. PICK r \in Runs :
          store' = [key \in Keys |->
                      IF key[2] = world.uid[r] /\ key[1] \in world.seeded
                      THEN <<{Base}>> ELSE store[key]]
    BY <1>2 DEF StartRun
  <2>2. world.seeded # {} => SafeUid(world.uid[r]) = world.uid[r]
    BY DEF SeedsFound, Typed, TypeOK
  <2> QED
    BY <2>1, <2>2 DEF RawInv
<1>3. CASE \E key : store' = [store EXCEPT ![key] = NoObject]
  BY <1>3 DEF RawInv, Typed
<1>4. CASE UNCHANGED store
  BY <1>4 DEF RawInv
<1> QED
  BY <1>1, <1>2, <1>3, <1>4
  DEF Next, Serve, RunTool, ClearDeletes, ClearTouches, AppendReads, AppendWrites,
      Respond, RunStep, EndReplay, EndRun, Submit, Collect, CleanService, CleanFails,
      Platform, Recycle, SaveFails, SaveUnanswered, LoseResponse, LoadFails, Stopped,
      vars

-----------------------------------------------------------------------------
(* The refinement of SessionState *)

\* What the refinement mapping gives SessionState for seen, status and stage.
SeenAs == [c \in Calls |-> IF SessionEffect[c] = "applied" THEN seen[c] ELSE {}]

StatusAs ==
  [c \in Calls |-> CASE answer[c] = "none" -> "idle"
                     [] answer[c] = "waiting" -> "active"
                     [] OTHER -> answer[c]]

StageAs ==
  [r \in Runs |-> CASE phase[r] = "new" -> "new"
                    [] phase[r] \in {"replay", "abort"} -> "open"
                    [] OTHER -> "closed"]

LEMMA SessionVars ==
  /\ Session!svars = <<world, SessionValue, SessionEffect, SeenAs, StatusAs, StageAs>>
  /\ Session!svars' = <<world, SessionValue, SessionEffect, SeenAs, StatusAs, StageAs>>'
  /\ \A c : Session!k(c) = Key(c)
  /\ \A r : Session!CallsOf(world, r) = CallsIn(r)
  /\ Session!Keys = Keys
BY DEF Session!svars, SeenAs, StatusAs, StageAs, Session!k, Session!KeyOf,
       Session!SafeUid, Key, KeyOf, SafeUid, Session!CallsOf, CallsIn, CallsOf, Session!Keys, Keys

\* The value of a session is what its saving call restored, or the snapshot in
\* the store.
LEMMA ValueIs ==
  ASSUME Alone, NEW key \in Keys
  PROVE  /\ \A c \in Calls : Key(c) = key /\ Saving(c) => SessionValue[key] = seen[c]
         /\ (\A c \in Calls : Key(c) = key => ~Saving(c)) =>
              SessionValue[key] = Restored(store[key])
<1>1. \A c, d \in Calls : Key(c) = key /\ Saving(c) /\ Key(d) = key /\ Saving(d) => c = d
  BY DEF Alone, Saving, Executing, Active
<1> QED
  BY <1>1 DEF SessionValue

LEMMA ValueIsNext ==
  ASSUME Alone', NEW key \in Keys
  PROVE  /\ \A c \in Calls : Key(c)' = key /\ Saving(c)' => SessionValue'[key] = seen'[c]
         /\ (\A c \in Calls : Key(c)' = key => ~Saving(c)') =>
              SessionValue'[key] = Restored(store'[key])
<1>1. \A c, d \in Calls :
        Key(c)' = key /\ Saving(c)' /\ Key(d)' = key /\ Saving(d)' => c = d
  BY DEF Alone, Saving, Executing, Active
<1> QED
  BY <1>1 DEF SessionValue

LEMMA ValueUpdate ==
  ASSUME NEW key \in Keys, NEW x, SessionValue'[key] = x,
         \A k \in Keys \ {key} : SessionValue'[k] = SessionValue[k]
  PROVE  SessionValue' = [SessionValue EXCEPT ![key] = x]
<1>1. /\ SessionValue = [k \in Keys |-> SessionValue[k]]
      /\ SessionValue' = [k \in Keys |-> SessionValue'[k]]
  BY DEF SessionValue
<1> QED
  BY <1>1

LEMMA ValueSame ==
  ASSUME \A k \in Keys : SessionValue'[k] = SessionValue[k]
  PROVE  SessionValue' = SessionValue
<1>1. /\ SessionValue = [k \in Keys |-> SessionValue[k]]
      /\ SessionValue' = [k \in Keys |-> SessionValue'[k]]
  BY DEF SessionValue
<1> QED
  BY <1>1

\* A session whose object and saving call are left alone keeps its value.
LEMMA ValueKept ==
  ASSUME Alone, Alone', NEW key \in Keys, world' = world, store'[key] = store[key],
         \A c \in Calls : Key(c) = key =>
           (Saving(c)' <=> Saving(c)) /\ (Saving(c) => seen'[c] = seen[c])
  PROVE  SessionValue'[key] = SessionValue[key]
<1>1. \A c \in Calls : Key(c)' = Key(c)
  BY DEF Key
<1>2. CASE \E c \in Calls : Key(c) = key /\ Saving(c)
  <2>1. PICK c \in Calls : Key(c) = key /\ Saving(c)
    BY <1>2
  <2>2. SessionValue[key] = seen[c]
    BY <2>1, ValueIs
  <2>3. SessionValue'[key] = seen'[c]
    BY <1>1, <2>1, ValueIsNext
  <2> QED
    BY <2>1, <2>2, <2>3
<1>3. CASE \A c \in Calls : Key(c) = key => ~Saving(c)
  <2>1. SessionValue[key] = Restored(store[key])
    BY <1>3, ValueIs
  <2>2. SessionValue'[key] = Restored(store'[key])
    BY <1>1, <1>3, ValueIsNext
  <2> QED
    BY <2>1, <2>2 DEF Restored, Readable
<1> QED
  BY <1>2, <1>3

EffectOf(p) ==
  CASE p \in {"served", "saved"} -> "applied"
    [] p \in {"unstored", "raised", "torn"} -> p
    [] OTHER -> "none"

\* A call's step on the server changes its effect, and what it is known to
\* have seen if it has happened.
LEMMA EffectStep ==
  ASSUME pc \in [Calls -> Stages], NEW c \in Calls, NEW p \in Stages,
         pc' = [pc EXCEPT ![c] = p],
         \A d \in Calls \ {c} : seen'[d] = seen[d],
         pc[c] \in {"idle", "sent"} \cup Executing
  PROVE  /\ SessionEffect[c] = "none"
         /\ SessionEffect' = [SessionEffect EXCEPT ![c] = EffectOf(p)]
         /\ SeenAs' = IF EffectOf(p) = "applied"
                      THEN [SeenAs EXCEPT ![c] = seen'[c]] ELSE SeenAs
<1>1. SessionEffect = [d \in Calls |-> EffectOf(pc[d])]
  BY DEF SessionEffect, EffectOf
<1>2. SessionEffect' = [d \in Calls |-> EffectOf(pc'[d])]
  BY DEF SessionEffect, EffectOf
<1>3. SessionEffect' = [SessionEffect EXCEPT ![c] = EffectOf(p)]
  BY <1>1, <1>2
<1>4. SessionEffect[c] = "none"
  BY <1>1 DEF EffectOf, Executing
<1>5. SeenAs[c] = {}
  BY <1>4 DEF SeenAs
<1> QED
  BY <1>1, <1>3, <1>4, <1>5 DEF SeenAs

LEMMA EffectsOf ==
  /\ \A p \in {"served", "saved"} : EffectOf(p) = "applied"
  /\ \A p \in {"unstored", "raised", "torn"} : EffectOf(p) = p
  /\ \A p \in {"idle", "sent"} \cup Executing : EffectOf(p) = "none"
  /\ {"served", "saved", "unstored", "raised", "torn"} \cup {"idle", "sent"}
       \cup Executing = Stages
BY DEF EffectOf, Executing, Stages, Finished, Succeeded

\* A call goes on without an effect.
LEMMA NoEffect ==
  ASSUME pc \in [Calls -> Stages], NEW c \in Calls,
         NEW p \in {"idle", "sent"} \cup Executing,
         pc' = [pc EXCEPT ![c] = p],
         \A d \in Calls \ {c} : seen'[d] = seen[d],
         pc[c] \in {"idle", "sent"} \cup Executing
  PROVE  SessionEffect' = SessionEffect /\ SeenAs' = SeenAs
<1>1. p \in Stages /\ EffectOf(p) = "none"
  BY EffectsOf
<1>2. /\ SessionEffect[c] = "none" /\ SeenAs' = SeenAs
      /\ SessionEffect' = [SessionEffect EXCEPT ![c] = "none"]
  BY <1>1, EffectStep
<1> QED
  BY <1>2 DEF SessionEffect

\* The invariant that the simulation needs, before and after a step.
Known ==
  Typed /\ HInv /\ Isolated /\ Alone /\ ValueInv /\ StorageInv /\ RawInv

\* A call fails without a trace in its session.
LEMMA RaiseSimulates ==
  ASSUME Known, Known', NEW c \in Calls, NEW p \in {"raised", "unstored"},
         pc' = [pc EXCEPT ![c] = p], pc[c] \in {"sent", "delete"},
         \A d \in Calls \ {c} : seen'[d] = seen[d],
         UNCHANGED <<world, store, runVars>>
  PROVE  /\ p = "raised" => Session!Raise(c)
         /\ p = "unstored" /\ world.faulty => Session!Unstored(c)
<1>1. pc \in [Calls -> Stages] /\ Key(c) \in Keys
  BY WorldFacts DEF Known, Isolated
<1>2. /\ p \in Stages /\ EffectOf(p) = p /\ p # "applied"
      /\ pc[c] \in {"idle", "sent"} \cup Executing
  BY EffectsOf DEF Executing
<1>3. /\ SessionEffect[c] = "none" /\ SeenAs' = SeenAs
      /\ SessionEffect' = [SessionEffect EXCEPT ![c] = p]
  BY <1>1, <1>2, EffectStep
<1>4. \A d \in Calls :
        (Saving(d)' <=> Saving(d)) /\ (Saving(d) => seen'[d] = seen[d])
  BY <1>1 DEF Saving
<1>5. SessionValue' = SessionValue
  BY <1>4, ValueKept, ValueSame DEF Known
<1>6. StatusAs' = StatusAs /\ StageAs' = StageAs /\ StatusAs[c] # "idle"
  BY DEF StatusAs, StageAs, runVars, Known, HInv, AnswerInv, ClientTypes
<1>7. SessionValue = [SessionValue EXCEPT ![Key(c)] = SessionValue[Key(c)]]
  BY DEF SessionValue
<1> QED
  BY <1>2, <1>3, <1>5, <1>6, <1>7, SessionVars
  DEF Session!Raise, Session!Unstored, Session!Happens, SeenAs, StatusAs, StageAs

\* The tool restores the session's value: a call that saves nothing happens
\* here, and so does one that raises; the others have only looked.
LEMMA RunToolSimulates ==
  ASSUME Rebinding, Known, Known', NEW c \in Calls, NEW i \in Instances, RunTool(c, i)
  PROVE  \/ Session!Apply(c) \/ Session!Raise(c) \/ Session!Unstored(c)
         \/ UNCHANGED Session!svars
<1> DEFINE m == Load(memory[i], Content(i, Key(c)))
<1>1. /\ UNCHANGED <<world, store, runVars>> /\ pc[c] = "sent"
      /\ seen' = [seen EXCEPT ![c] = m.object]
      /\ \/ pc' = [pc EXCEPT ![c] =
                      IF ~memory[i].storage THEN "unstored"
                      ELSE IF world.stateful[c] THEN "delete" ELSE "served"]
         \/ pc' = [pc EXCEPT ![c] = "raised"]
  BY DEF RunTool
<1>2. m.object = Restored(Content(i, Key(c)))
  BY LoadRestores DEF Known
<1> HIDE DEF m
<1>3. /\ pc \in [Calls -> Stages] /\ seen \in [Calls -> SUBSET Marks]
      /\ Key(c) \in Keys /\ world.stateful[c] \in BOOLEAN
  BY WorldFacts DEF Known, Isolated
<1>4. \A d \in Calls \ {c} : seen'[d] = seen[d]
  BY <1>1, <1>3
<1>5. \A d \in Calls : pc[d] # "sent" \/ d # c => (Saving(d)' <=> Saving(d))
  BY <1>1, <1>3 DEF Saving
<1>6. ASSUME \A d \in Calls : Saving(d)' <=> Saving(d)
      PROVE  SessionValue' = SessionValue
  <2>1. \A d \in Calls : Saving(d) => seen'[d] = seen[d]
    BY <1>1, <1>4 DEF Saving
  <2> QED
    BY <1>1, <1>6, <2>1, ValueKept, ValueSame DEF Known
<1>7. SessionValue[Key(c)] = Restored(store[Key(c)])
  <2>1. \A d \in Calls : Key(d) = Key(c) => ~Saving(d)
    BY <1>1 DEF Known, Alone, Saving, Executing, Active
  <2> QED
    BY <1>3, <2>1, ValueIs DEF Known
<1>8. StatusAs' = StatusAs /\ StageAs' = StageAs /\ StatusAs[c] # "idle"
  BY <1>1 DEF StatusAs, StageAs, runVars, Known, HInv, AnswerInv, ClientTypes
<1>9. CASE pc' = [pc EXCEPT ![c] = "raised"]
  BY <1>1, <1>4, <1>9, RaiseSimulates
<1>10. CASE ~memory[i].storage /\ pc' = [pc EXCEPT ![c] = "unstored"]
  <2>1. world.faulty
    BY <1>10 DEF Known, StorageInv
  <2> QED
    BY <1>1, <1>4, <1>10, <2>1, RaiseSimulates
<1>11. CASE /\ memory[i].storage /\ world.stateful[c]
            /\ pc' = [pc EXCEPT ![c] = "delete"]
  <2>1. SessionEffect' = SessionEffect /\ SeenAs' = SeenAs
    BY <1>1, <1>3, <1>4, <1>11, NoEffect DEF Executing
  <2>2. SessionValue' = SessionValue
    BY <1>1, <1>3, <1>5, <1>6, <1>11 DEF Saving
  <2> QED
    BY <1>1, <1>8, <2>1, <2>2, SessionVars
<1>12. CASE /\ memory[i].storage /\ ~world.stateful[c]
            /\ pc' = [pc EXCEPT ![c] = "served"]
  <2>1. seen'[c] = SessionValue[Key(c)]
    BY <1>1, <1>2, <1>3, <1>7, <1>12 DEF Content
  <2>2. /\ SessionEffect[c] = "none"
        /\ SeenAs' = [SeenAs EXCEPT ![c] = SessionValue[Key(c)]]
        /\ SessionEffect' = [SessionEffect EXCEPT ![c] = "applied"]
    <3>1. PICK p : p = "served"
      OBVIOUS
    <3>2. p \in Stages /\ EffectOf(p) = "applied"
      BY <3>1, EffectsOf
    <3>3. /\ SessionEffect[c] = "none" /\ SeenAs' = [SeenAs EXCEPT ![c] = seen'[c]]
          /\ SessionEffect' = [SessionEffect EXCEPT ![c] = EffectOf(p)]
      BY <1>1, <1>3, <1>4, <1>12, <3>1, <3>2, EffectStep
    <3> QED
      BY <2>1, <3>2, <3>3
  <2>3. SessionValue' = SessionValue
    BY <1>1, <1>3, <1>5, <1>6, <1>12 DEF Saving
  <2>4. /\ SessionValue[Key(c)] \cup {} = SessionValue[Key(c)]
        /\ SessionValue = [SessionValue EXCEPT ![Key(c)] = SessionValue[Key(c)]]
    BY DEF SessionValue
  <2> QED
    BY <1>1, <1>8, <1>12, <2>2, <2>3, <2>4, SessionVars
    DEF Session!Apply, Session!Happens, SeenAs, StatusAs, StageAs
<1> QED
  BY <1>1, <1>3, <1>9, <1>10, <1>11, <1>12

\* The first request of a save takes nothing from the session: the call that
\* sent it answers for its value.  An orphan's value comes back.
LEMMA ClearDeletesSimulates ==
  ASSUME Known, Known', NEW c \in Calls, ClearDeletes(c)
  PROVE  Session!Revive(c, seen[c]) \/ UNCHANGED Session!svars
<1>1. /\ UNCHANGED <<world, seen, runVars>> /\ pc[c] = "delete"
      /\ store' = [store EXCEPT ![Key(c)] = NoObject]
      /\ \E p \in {"measure", "touch"} : pc' = [pc EXCEPT ![c] = p]
  BY RequestIs DEF ClearDeletes, Known, Executing
<1>2. /\ pc \in [Calls -> Stages] /\ store \in [Keys -> Contents] /\ Key(c) \in Keys
  BY WorldFacts DEF Known, Isolated, Typed
<1>3. PICK p \in {"measure", "touch"} : pc' = [pc EXCEPT ![c] = p]
  BY <1>1
<1>4. SessionEffect[c] = "none" /\ SeenAs' = SeenAs /\ SessionEffect' = SessionEffect
  <2>1. SessionEffect[c] = "none"
    BY <1>1 DEF SessionEffect
  <2> QED
    BY <1>1, <1>2, <1>3, <2>1, NoEffect DEF Executing
<1>5. StatusAs' = StatusAs /\ StageAs' = StageAs
  BY <1>1 DEF StatusAs, StageAs, runVars
<1>6. \A d \in Calls \ {c} : Saving(d)' <=> Saving(d)
  BY <1>2, <1>3 DEF Saving
<1>7. \A k \in Keys \ {Key(c)} : SessionValue'[k] = SessionValue[k]
  BY <1>1, <1>2, <1>6, ValueKept DEF Known
<1>8. SessionValue'[Key(c)] = seen[c]
  <2>1. Saving(c)' /\ Key(c)' = Key(c)
    BY <1>1, <1>2, <1>3 DEF Saving, Key
  <2> QED
    BY <1>1, <1>2, <2>1, ValueIsNext DEF Known
<1>9. SessionValue[Key(c)] = Restored(store[Key(c)])
  <2>1. \A d \in Calls : Key(d) = Key(c) => ~Saving(d)
    BY <1>1 DEF Known, Alone, Saving, Executing, Active
  <2> QED
    BY <1>2, <2>1, ValueIs DEF Known
<1>10. CASE seen[c] = Restored(store[Key(c)])
  <2>1. SessionValue' = SessionValue
    BY <1>7, <1>8, <1>9, <1>10, ValueSame
  <2> QED
    BY <1>1, <1>4, <1>5, <2>1, SessionVars
<1>11. CASE Orphan(c)
  <2>1. /\ StatusAs[c] = "error" /\ StageAs[world.run[c]] = "closed"
        /\ world.stateful[c]
    <3>1. world.run[c] \in Runs
      BY WorldFacts DEF Known, Isolated
    <3> QED
      BY <1>1, <1>11, <3>1
      DEF Orphan, Closed, StatusAs, StageAs, Known, HInv, AnswerInv, Executing
  <2>2. SessionValue' = [SessionValue EXCEPT ![Key(c)] = seen[c]]
    BY <1>2, <1>7, <1>8, ValueUpdate
  <2> QED
    BY <1>1, <1>4, <1>5, <2>1, <2>2, SessionVars
    DEF Session!Revive, SeenAs, StatusAs, StageAs
<1> QED
  BY <1>1, <1>10, <1>11 DEF Known, ValueInv

\* Between its requests the session keeps its value.
LEMMA BetweenSimulates ==
  ASSUME Known, Known', NEW c \in Calls, ClearTouches(c) \/ AppendReads(c)
  PROVE  UNCHANGED Session!svars
<1>1. /\ UNCHANGED <<world, seen, runVars>> /\ Saving(c)
      /\ store' = store \/ store' = [store EXCEPT ![Key(c)] = <<>>]
      /\ \E p \in {"measure", "write"} : pc' = [pc EXCEPT ![c] = p]
  BY RequestIs DEF ClearTouches, AppendReads, Saving, Known, Executing
<1>2. /\ pc \in [Calls -> Stages] /\ store \in [Keys -> Contents] /\ Key(c) \in Keys
  BY WorldFacts DEF Known, Isolated, Typed
<1>3. PICK p \in {"measure", "write"} : pc' = [pc EXCEPT ![c] = p]
  BY <1>1
<1>4. SeenAs' = SeenAs /\ SessionEffect' = SessionEffect
  BY <1>1, <1>2, <1>3, NoEffect DEF Executing, Saving
<1>5. StatusAs' = StatusAs /\ StageAs' = StageAs
  BY <1>1 DEF StatusAs, StageAs, runVars
<1>6. \A d \in Calls : Saving(d)' <=> Saving(d)
  BY <1>1, <1>2, <1>3 DEF Saving
<1>7. \A k \in Keys \ {Key(c)} : SessionValue'[k] = SessionValue[k]
  BY <1>1, <1>2, <1>6, ValueKept DEF Known
<1>8. SessionValue'[Key(c)] = SessionValue[Key(c)]
  <2>1. SessionValue[Key(c)] = seen[c]
    BY <1>1, <1>2, ValueIs DEF Known
  <2>2. Key(c)' = Key(c)
    BY <1>1 DEF Key
  <2>3. SessionValue'[Key(c)] = seen'[c]
    BY <1>1, <1>2, <1>6, <2>2, ValueIsNext DEF Known
  <2> QED
    BY <1>1, <2>1, <2>3
<1>9. SessionValue' = SessionValue
  BY <1>7, <1>8, ValueSame
<1> QED
  BY <1>1, <1>4, <1>5, <1>9, SessionVars

\* The last request of a save is where a stateful call happens.
LEMMA LastRequestSimulates ==
  ASSUME Known, Known', NEW c \in Calls, pc[c] = "write",
         AppendWrites(c) \/ SaveUnanswered(c)
  PROVE  Session!Apply(c)
<1>1. UNCHANGED <<world, seen, runVars>> /\ world.stateful[c] /\ ~Refused(c)
  BY RequestIs DEF AppendWrites, SaveUnanswered, Known, Executing, HInv, AnswerInv
<1>2. /\ store' = [store EXCEPT ![Key(c)] = <<seen[c] \cup {c}>>]
      /\ \E p \in {"served", "saved"} : pc' = [pc EXCEPT ![c] = p]
  <2>1. Requested(c) = <<seen[c] \cup {c}>>
    BY RequestIs DEF Known, Executing
  <2> QED
    BY <1>1, <2>1 DEF AppendWrites, SaveUnanswered
<1>3. PICK p \in {"served", "saved"} : pc' = [pc EXCEPT ![c] = p]
  BY <1>2
<1>4. /\ pc \in [Calls -> Stages] /\ store \in [Keys -> Contents] /\ Key(c) \in Keys
      /\ seen[c] \cup {c} \in SUBSET Marks
  BY WorldFacts DEF Known, Isolated, Typed, Marks
<1>5. /\ SessionEffect[c] = "none"
      /\ SeenAs' = [SeenAs EXCEPT ![c] = seen[c]]
      /\ SessionEffect' = [SessionEffect EXCEPT ![c] = "applied"]
  <2>1. p \in Stages /\ EffectOf(p) = "applied"
    BY EffectsOf
  <2> QED
    BY <1>3, <1>1, <1>4, <2>1, EffectStep DEF Executing
<1>6. StatusAs' = StatusAs /\ StageAs' = StageAs /\ StatusAs[c] # "idle"
  BY <1>1 DEF StatusAs, StageAs, runVars, Known, HInv, AnswerInv, ClientTypes
<1>7. \A d \in Calls \ {c} : Saving(d)' <=> Saving(d)
  BY <1>3, <1>4 DEF Saving
<1>8. \A k \in Keys \ {Key(c)} : SessionValue'[k] = SessionValue[k]
  BY <1>1, <1>2, <1>4, <1>7, ValueKept DEF Known
<1>9. SessionValue[Key(c)] = seen[c]
  BY <1>1, <1>4, ValueIs DEF Known, Saving
<1>10. SessionValue'[Key(c)] = seen[c] \cup {c}
  <2>1. \A d \in Calls : Key(d)' = Key(c) => ~Saving(d)'
    <3>1. \A d \in Calls : Key(d)' = Key(d)
      BY <1>1 DEF Key
    <3>2. ~Saving(c)'
      BY <1>3, <1>4 DEF Saving
    <3>3. \A d \in Calls \ {c} : Key(d) = Key(c) => ~Saving(d)
      BY <1>1 DEF Known, Alone, Saving, Executing, Active
    <3> QED
      BY <1>7, <3>1, <3>2, <3>3
  <2>2. SessionValue'[Key(c)] = Restored(store'[Key(c)])
    BY <1>4, <2>1, ValueIsNext DEF Known
  <2>3. store'[Key(c)] = <<seen[c] \cup {c}>>
    BY <1>2, <1>4
  <2>4. <<seen[c] \cup {c}>> # NoObject
    <3>1. \A x, S : x \in S => <<x>> \in Seq(S)
      OBVIOUS
    <3>2. <<seen[c] \cup {c}>> \in Seq(SUBSET Marks)
      BY <1>4, <3>1
    <3> QED
      BY <3>2, DeploymentAssumption
  <2> QED
    BY <2>2, <2>3, <2>4 DEF Restored, Readable
<1>11. SessionValue' = [SessionValue EXCEPT ![Key(c)] = seen[c] \cup {c}]
  BY <1>4, <1>8, <1>10, ValueUpdate
<1> QED
  BY <1>1, <1>5, <1>6, <1>9, <1>11, SessionVars
  DEF Session!Apply, Session!Happens, SeenAs, StatusAs, StageAs

\* A save that fails once it has begun to clear the object, or whose object is
\* cleared when it fails, leaves nothing that can be restored.
LEMMA TornSimulates ==
  ASSUME Known, Known', NEW c \in Calls, pc[c] \in Executing, world.faulty,
         UNCHANGED <<world, seen, runVars>>,
         pc' = [pc EXCEPT ![c] = "torn"],
         NEW x \in {NoObject, <<>>}, store' = [store EXCEPT ![Key(c)] = x]
  PROVE  Session!Tear(c)
<1>1. pc \in [Calls -> Stages] /\ Key(c) \in Keys /\ store \in [Keys -> Contents]
  BY WorldFacts DEF Known, Isolated, Typed
<1>2. /\ StatusAs' = StatusAs /\ StageAs' = StageAs /\ StatusAs[c] # "idle"
      /\ world.stateful[c]
  BY DEF StatusAs, StageAs, runVars, Known, HInv, AnswerInv, ClientTypes, Executing
<1>3. /\ SessionEffect[c] = "none" /\ SeenAs' = SeenAs
      /\ SessionEffect' = [SessionEffect EXCEPT ![c] = "torn"]
  <2>1. "torn" \in Stages /\ EffectOf("torn") = "torn" /\ "torn" # "applied"
    BY EffectsOf
  <2>2. PICK p \in Stages : p = "torn" /\ pc' = [pc EXCEPT ![c] = p]
    BY <2>1
  <2>3. /\ SessionEffect[c] = "none"
        /\ SessionEffect' = [SessionEffect EXCEPT ![c] = EffectOf(p)]
        /\ SeenAs' = IF EffectOf(p) = "applied"
                     THEN [SeenAs EXCEPT ![c] = seen'[c]] ELSE SeenAs
    BY <1>1, <2>2, EffectStep
  <2> QED
    BY <2>1, <2>2, <2>3
<1>4. \A d \in Calls \ {c} : Saving(d)' <=> Saving(d)
  BY <1>1 DEF Saving
<1>5. \A k \in Keys \ {Key(c)} : SessionValue'[k] = SessionValue[k]
  BY <1>1, <1>4, ValueKept DEF Known
<1>6. \A d \in Calls : Key(d)' = Key(c) => ~Saving(d)'
  <2>1. \A d \in Calls : Key(d)' = Key(d)
    BY DEF Key
  <2>2. ~Saving(c)'
    BY <1>1 DEF Saving
  <2>3. \A d \in Calls \ {c} : Key(d) = Key(c) => ~Saving(d)
    BY DEF Known, Alone, Saving, Executing, Active
  <2> QED
    BY <1>4, <2>1, <2>2, <2>3
<1>7. SessionValue'[Key(c)] = {}
  <2>1. SessionValue'[Key(c)] = Restored(store'[Key(c)])
    BY <1>1, <1>6, ValueIsNext DEF Known
  <2>2. store'[Key(c)] = x
    BY <1>1
  <2>3. Len(<<>>) # 1
    OBVIOUS
  <2>4. ~Readable(x)
    BY <2>3 DEF Readable
  <2> QED
    BY <2>1, <2>2, <2>4 DEF Restored
<1>8. SessionValue' = [SessionValue EXCEPT ![Key(c)] = {}]
  BY <1>1, <1>5, <1>7, ValueUpdate
<1> QED
  BY <1>2, <1>3, <1>8, SessionVars
  DEF Session!Tear, Session!Happens, SeenAs, StatusAs, StageAs

\* A request of a save fails, before it was executed or afterwards.
LEMMA SaveFailsSimulates ==
  ASSUME Known, Known', NEW c \in Calls, SaveFails(c) \/ SaveUnanswered(c)
  PROVE  Session!Raise(c) \/ Session!Tear(c) \/ Session!Apply(c)
<1>1. /\ UNCHANGED <<world, seen, runVars>> /\ pc[c] \in Executing /\ world.faulty
  BY DEF SaveFails, SaveUnanswered
<1>2. CASE SaveFails(c) /\ pc[c] = "delete"
  <2>1. store' = store /\ pc' = [pc EXCEPT ![c] = "raised"]
    BY <1>2 DEF SaveFails
  <2> QED
    BY <1>1, <1>2, <2>1, RaiseSimulates
<1>3. CASE SaveUnanswered(c) /\ pc[c] = "write"
  BY <1>3, LastRequestSimulates
<1>4. CASE \/ SaveFails(c) /\ pc[c] # "delete"
           \/ SaveUnanswered(c) /\ pc[c] # "write"
  <2>1. pc' = [pc EXCEPT ![c] = "torn"]
    BY <1>4 DEF SaveFails, SaveUnanswered
  <2>2. Saving(c) => store[Key(c)] \in {NoObject, <<>>}
    BY DEF Known, ValueInv, Blobs
  <2>3. \E x \in {NoObject, <<>>} : store' = [store EXCEPT ![Key(c)] = x]
    <3>1. CASE SaveFails(c) /\ pc[c] # "delete"
      <4>1. store' = store /\ Saving(c)
        BY <1>1, <3>1 DEF SaveFails, Saving, Executing
      <4>2. store = [store EXCEPT ![Key(c)] = store[Key(c)]]
        BY DEF Known, Typed
      <4> QED
        BY <2>2, <4>1, <4>2
    <3>2. CASE SaveUnanswered(c) /\ pc[c] # "write"
      <4>1. store' = [store EXCEPT ![Key(c)] = Requested(c)]
        BY <3>2 DEF SaveUnanswered
      <4>2. Requested(c) \in {NoObject, <<>>}
        BY <1>1, <2>2, <3>2, RequestIs DEF Known, Executing, Saving
      <4> QED
        BY <4>1, <4>2
    <3> QED
      BY <1>4, <3>1, <3>2
  <2> QED
    BY <1>1, <2>1, <2>3, TornSimulates
<1> QED
  BY <1>2, <1>3, <1>4

LEMMA LoadFailsSimulates ==
  ASSUME Known, Known', NEW c \in Calls, NEW i \in Instances, LoadFails(c, i)
  PROVE  Session!Raise(c)
<1>1. /\ UNCHANGED <<world, store, seen, runVars>> /\ pc[c] = "sent"
      /\ pc' = [pc EXCEPT ![c] = "raised"]
  BY DEF LoadFails
<1> QED
  BY <1>1, RaiseSimulates

\* What the client does: it asks, and knows the answer when it is there or
\* lost.
LEMMA SubmitSimulates ==
  ASSUME Known, Known', NEW r \in Runs, NEW c \in CallsIn(r), Submit(c)
  PROVE  Session!Ask(c)
<1>1. c \in world.calls /\ c \in Calls /\ world.run[c] = r
  BY DeploymentAssumption DEF CallsIn, CallsOf, Known, Typed, TypeOK
<1>2. /\ UNCHANGED <<world, store, seen, phase>>
      /\ phase[r] = "replay" /\ answer[c] = "none"
      /\ answer' = [answer EXCEPT ![c] = "waiting"]
      /\ pc' = [pc EXCEPT ![c] = "sent"]
  BY <1>1 DEF Submit
<1>3. /\ pc \in [Calls -> Stages] /\ pc[c] = "idle"
      /\ answer \in [Calls -> {"none", "waiting", "ok", "error"}]
  BY <1>1, <1>2 DEF Known, HInv, ClientTypes, AnswerInv
<1>4. SessionEffect' = SessionEffect /\ SeenAs' = SeenAs
  BY <1>1, <1>2, <1>3, NoEffect
<1>5. \A d \in Calls : Saving(d)' <=> Saving(d)
  BY <1>2, <1>3 DEF Saving
<1>6. SessionValue' = SessionValue
  BY <1>2, <1>5, ValueKept, ValueSame DEF Known
<1>7. StageAs' = StageAs /\ StageAs[r] = "open"
  BY <1>2 DEF StageAs
<1>8. StatusAs' = [StatusAs EXCEPT ![c] = "active"] /\ StatusAs[c] = "idle"
  BY <1>1, <1>2, <1>3 DEF StatusAs
<1> QED
  BY <1>1, <1>2, <1>4, <1>6, <1>7, <1>8, SessionVars
  DEF Session!Ask, SeenAs, StatusAs, StageAs

\* A step that leaves the store and the server's side alone.
LEMMA ServerSame ==
  ASSUME Known, Known', UNCHANGED <<world, store, callVars>>
  PROVE  SessionEffect' = SessionEffect /\ SeenAs' = SeenAs /\ SessionValue' = SessionValue
<1>1. SessionEffect' = SessionEffect
  BY DEF SessionEffect, callVars
<1>2. SeenAs' = SeenAs
  BY <1>1 DEF SeenAs, callVars
<1>3. SessionValue' = SessionValue
  BY ValueKept, ValueSame DEF Known, Saving, callVars
<1> QED
  BY <1>1, <1>2, <1>3

LEMMA AnswerSimulates ==
  ASSUME Known, Known', NEW c \in Calls, Respond(c) \/ LoseResponse(c)
  PROVE  \E s \in {"ok", "error"} : Session!Answer(c, s)
<1>1. /\ UNCHANGED <<world, store, callVars, phase>> /\ answer[c] = "waiting"
      /\ \/ answer' = [answer EXCEPT ![c] = "ok"] /\ pc[c] \in Succeeded
         \/ answer' = [answer EXCEPT ![c] = "error"]
  BY DEF Respond, LoseResponse
<1>2. answer \in [Calls -> {"none", "waiting", "ok", "error"}]
  BY DEF Known, HInv, ClientTypes
<1>3. StageAs' = StageAs /\ StatusAs[c] = "active"
  BY <1>1 DEF StageAs, StatusAs
<1>4. pc[c] \in Succeeded => SessionEffect[c] \in {"applied", "unstored"}
  BY DEF SessionEffect, Succeeded
<1>5. \A s \in {"ok", "error"} :
        answer' = [answer EXCEPT ![c] = s] => StatusAs' = [StatusAs EXCEPT ![c] = s]
  BY <1>2 DEF StatusAs
<1>6. SessionEffect' = SessionEffect /\ SeenAs' = SeenAs /\ SessionValue' = SessionValue
  BY <1>1, ServerSame
<1>7. PICK s \in {"ok", "error"} :
        answer' = [answer EXCEPT ![c] = s] /\ (s = "ok" => pc[c] \in Succeeded)
  BY <1>1
<1>8. /\ StatusAs' = [StatusAs EXCEPT ![c] = s]
      /\ s = "ok" => SessionEffect[c] \in {"applied", "unstored"}
  BY <1>4, <1>5, <1>7
<1> QED
  BY <1>1, <1>3, <1>6, <1>8 DEF Session!Answer, SeenAs, StatusAs, StageAs

\* A replay opens with its snapshots, closes when it waits for nothing, and
\* erases what it cleans, unless an orphan is saving it.
LEMMA StartSimulates ==
  ASSUME Separate, SeedsFound, Known, Known', NEW r \in Runs, StartRun(r)
  PROVE  Session!Open(r)
<1>1. /\ UNCHANGED <<world, callVars, answer>>
      /\ phase' = [phase EXCEPT ![r] = "replay"] /\ phase[r] = "new"
      /\ store' = [key \in Keys |->
                     IF key[2] = world.uid[r] /\ key[1] \in world.seeded
                     THEN <<{Base}>> ELSE store[key]]
  BY DEF StartRun
<1>2. SessionEffect' = SessionEffect /\ SeenAs' = SeenAs /\ StatusAs' = StatusAs
  BY <1>1 DEF SessionEffect, SeenAs, StatusAs, callVars
<1>3. StageAs' = [StageAs EXCEPT ![r] = "open"] /\ StageAs[r] = "new"
  BY <1>1 DEF StageAs, Known, HInv, ClientTypes
<1>4. world.seeded # {} => SafeUid(world.uid[r]) = world.uid[r]
  BY DEF SeedsFound, Known, Isolated
<1>5. <<{Base}>> # NoObject
  <2>1. \A x, S : x \in S => <<x>> \in Seq(S)
    OBVIOUS
  <2>2. <<{Base}>> \in Seq(SUBSET Marks)
    BY <2>1 DEF Marks
  <2> QED
    BY <2>2, DeploymentAssumption
<1>6. ASSUME NEW key \in Keys
      PROVE  SessionValue'[key] =
               IF key[2] = world.uid[r] /\ key[1] \in world.seeded
               THEN {Base} ELSE SessionValue[key]
  <2>1. CASE key[2] = world.uid[r] /\ key[1] \in world.seeded
    <3>1. \A c \in Calls : Key(c)' = key => ~Saving(c)'
      <4>1. \A c \in Calls : Key(c)' = Key(c) /\ (Saving(c)' <=> Saving(c))
        BY <1>1 DEF Key, Saving, callVars
      <4>2. ASSUME NEW c \in Calls, Key(c) = key
            PROVE  ~Saving(c)
        <5>1. Uid(c) = SafeUid(world.uid[r])
          BY <1>4, <2>1, <4>2, KeyFacts DEF Known, Isolated
        <5> QED
          BY <5>1, StartMeets DEF Active, Saving, Executing, Known
      <4> QED
        BY <4>1, <4>2
    <3>2. SessionValue'[key] = Restored(store'[key])
      BY <3>1, ValueIsNext DEF Known
    <3>3. store'[key] = <<{Base}>>
      BY <1>1, <2>1
    <3> QED
      BY <1>5, <2>1, <3>2, <3>3 DEF Restored, Readable
  <2>2. CASE ~(key[2] = world.uid[r] /\ key[1] \in world.seeded)
    <3>1. store'[key] = store[key]
      BY <1>1, <2>2
    <3> QED
      BY <1>1, <2>2, <3>1, ValueKept DEF Known, Saving, callVars
  <2> QED
    BY <2>1, <2>2
<1>7. SessionValue' = [key \in Keys |->
                         IF key[2] = world.uid[r] /\ key[1] \in world.seeded
                         THEN {Base} ELSE SessionValue[key]]
  <2>1. SessionValue' = [key \in Keys |-> SessionValue'[key]]
    BY DEF SessionValue
  <2> QED
    BY <1>6, <2>1
<1>8. \A key \in Keys : key[1] \in world.seeded =>
        (key[2] = world.uid[r] <=> key[2] = SafeUid(world.uid[r]))
  BY <1>4
<1>9. SessionValue' = [key \in Keys |->
                         IF key[2] = SafeUid(world.uid[r]) /\ key[1] \in world.seeded
                         THEN {Base} ELSE SessionValue[key]]
  BY <1>7, <1>8
<1>10. Session!SafeUid(world.uid[r]) = SafeUid(world.uid[r])
  BY DEF Session!SafeUid, SafeUid
<1> QED
  BY <1>1, <1>2, <1>3, <1>9, <1>10, SessionVars
  DEF Session!Open, SeenAs, StatusAs, StageAs

LEMMA EndReplaySimulates ==
  ASSUME Known, Known', NEW r \in Runs, EndReplay(r)
  PROVE  Session!Close(r)
<1>1. /\ UNCHANGED <<world, store, callVars, answer>>
      /\ phase' = [phase EXCEPT ![r] = "cleanup"] /\ phase[r] \in {"replay", "abort"}
      /\ \A c \in CallsIn(r) : c \in collected \/ answer[c] # "waiting"
  BY DEF EndReplay
<1>2. SessionEffect' = SessionEffect /\ SeenAs' = SeenAs /\ SessionValue' = SessionValue
  BY <1>1, ServerSame
<1>3. StatusAs' = StatusAs /\ StageAs[r] = "open"
  BY <1>1 DEF StatusAs, StageAs
<1>4. StageAs' = [StageAs EXCEPT ![r] = "closed"]
  BY <1>1 DEF StageAs, Known, HInv, ClientTypes
<1>5. ASSUME NEW c \in CallsIn(r)
      PROVE  StatusAs[c] # "active"
  <2>1. c \in Calls
    BY DeploymentAssumption DEF CallsIn, CallsOf, Known, Typed, TypeOK
  <2>2. answer[c] # "waiting" /\ answer[c] # "active"
    BY <1>1, <2>1 DEF Known, HInv, AnswerInv, ClientTypes
  <2> QED
    BY <2>1, <2>2 DEF StatusAs
<1> QED
  BY <1>1, <1>2, <1>3, <1>4, <1>5, SessionVars, SMTT(30)
  DEF Session!Close, SeenAs, StatusAs, StageAs

LEMMA CleanSimulates ==
  ASSUME Known, Known', NEW r \in Runs, NEW s \in Services,
         CleanService(r, s) \/ CleanFails(r, s)
  PROVE  Session!Erase(r, s) \/ UNCHANGED Session!svars
<1>1. /\ UNCHANGED <<world, callVars, answer, phase>>
      /\ store' = store \/ store' = [store EXCEPT ![RunKey(r, s)] = NoObject]
      /\ phase[r] = "cleanup"
  BY DEF CleanService, CleanFails
<1>2. RunKey(r, s) \in Keys /\ store \in [Keys -> Contents]
  BY DeploymentAssumption DEF RunKey, Keys, Known, Typed, TypeOK
<1>3. /\ SessionEffect' = SessionEffect /\ SeenAs' = SeenAs
      /\ StatusAs' = StatusAs /\ StageAs' = StageAs /\ StageAs[r] = "closed"
  BY <1>1 DEF SessionEffect, SeenAs, StatusAs, StageAs, callVars
<1>4. \A c \in Calls : /\ Key(c)' = Key(c) /\ (Saving(c)' <=> Saving(c))
                       /\ seen'[c] = seen[c]
  BY <1>1 DEF Key, Saving, callVars
<1>5. \A k \in Keys \ {RunKey(r, s)} : SessionValue'[k] = SessionValue[k]
  BY <1>1, <1>2, <1>4, ValueKept DEF Known
<1>6. CASE \E c \in Calls : Key(c) = RunKey(r, s) /\ Saving(c)
  <2>1. PICK c \in Calls : Key(c) = RunKey(r, s) /\ Saving(c)
    BY <1>6
  <2>2. SessionValue[RunKey(r, s)] = seen[c]
    BY <1>2, <2>1, ValueIs DEF Known
  <2>3. SessionValue'[RunKey(r, s)] = seen'[c]
    BY <1>2, <1>4, <2>1, ValueIsNext DEF Known
  <2>4. SessionValue' = SessionValue
    BY <1>4, <1>5, <2>2, <2>3, ValueSame
  <2> QED
    BY <1>1, <1>3, <2>4, SessionVars
<1>7. CASE store' = store
  <2>1. SessionValue' = SessionValue
    BY <1>1, <1>2, <1>4, <1>5, <1>7, ValueKept, ValueSame DEF Known
  <2> QED
    BY <1>1, <1>3, <2>1, SessionVars
<1>8. CASE SafeUid(world.uid[r]) # world.uid[r]
  <2>1. store[RunKey(r, s)] = NoObject
    BY <1>2, <1>8 DEF Known, RawInv, RunKey
  <2>2. store' = store
    BY <1>1, <1>2, <2>1
  <2> QED
    BY <1>7, <2>2
<1>9. CASE /\ \A c \in Calls : Key(c) = RunKey(r, s) => ~Saving(c)
           /\ store' # store /\ SafeUid(world.uid[r]) = world.uid[r]
  <2>1. SessionValue'[RunKey(r, s)] = Restored(store'[RunKey(r, s)])
    BY <1>2, <1>4, <1>9, ValueIsNext DEF Known
  <2>2. SessionValue'[RunKey(r, s)] = {}
    BY <1>1, <1>2, <1>9, <2>1 DEF Restored, Readable
  <2>3. /\ SessionValue' = [SessionValue EXCEPT ![<<s, world.uid[r]>>] = {}]
        /\ Session!SafeUid(world.uid[r]) = world.uid[r]
    BY <1>2, <1>5, <1>9, <2>2, ValueUpdate DEF RunKey, Session!SafeUid, SafeUid
  <2> QED
    BY <1>1, <1>3, <2>3, SessionVars DEF Session!Erase, SeenAs, StatusAs, StageAs
<1> QED
  BY <1>6, <1>7, <1>8, <1>9

\* Steps that the session does not notice.
LEMMA HiddenStep ==
  ASSUME Known, Known', UNCHANGED <<world, store, callVars, answer>>,
         \A r \in Runs : \/ phase'[r] = phase[r]
                         \/ phase[r] = "replay" /\ phase'[r] = "abort"
                         \/ phase[r] = "cleanup" /\ phase'[r] = "over"
  PROVE  UNCHANGED Session!svars
<1>1. SessionEffect' = SessionEffect /\ SeenAs' = SeenAs /\ SessionValue' = SessionValue
  BY ServerSame
<1>2. StatusAs' = StatusAs
  BY DEF StatusAs
<1>3. StageAs' = StageAs
  BY DEF StageAs
<1> QED
  BY <1>1, <1>2, <1>3, SessionVars

LEMMA CollectHidden ==
  ASSUME Known, Known', NEW c \in Calls, Collect(c)
  PROVE  UNCHANGED Session!svars
<1>1. /\ UNCHANGED <<world, store, callVars, answer>>
      /\ phase[world.run[c]] = "replay"
      /\ phase' = phase \/ phase' = [phase EXCEPT ![world.run[c]] = "abort"]
  BY DEF Collect
<1>2. phase \in [Runs -> {"new", "replay", "abort", "cleanup", "over"}]
  BY DEF Known, HInv, ClientTypes
<1> QED
  BY <1>1, <1>2, HiddenStep

LEMMA EndRunHidden ==
  ASSUME Known, Known', NEW r \in Runs, EndRun(r)
  PROVE  UNCHANGED Session!svars
<1>1. /\ UNCHANGED <<world, store, callVars, answer>> /\ phase[r] = "cleanup"
      /\ phase' = [phase EXCEPT ![r] = "over"]
  BY DEF EndRun
<1>2. phase \in [Runs -> {"new", "replay", "abort", "cleanup", "over"}]
  BY DEF Known, HInv, ClientTypes
<1> QED
  BY <1>1, <1>2, HiddenStep

LEMMA StepSimulates ==
  ASSUME Separate, SeedsFound, Rebinding
  PROVE  Known /\ Known' /\ [Next]_vars => [Session!SNext]_(Session!svars)
<1> SUFFICES ASSUME Known, Known', [Next]_vars
             PROVE  Session!SNext \/ UNCHANGED Session!svars
  OBVIOUS
<1>1. \A r \in Runs : CallsIn(r) \subseteq Calls
  BY DeploymentAssumption DEF CallsIn, CallsOf, Known, Typed, TypeOK
<1>2. ASSUME NEW c \in Calls, Serve(c) \/ ServerFails(c)
      PROVE  Session!SNext \/ UNCHANGED Session!svars
  <2>1. seen[c] \in SUBSET Session!Marks
    BY DEF Known, Isolated, Marks, Session!Marks
  <2>2. ASSUME ClearDeletes(c)
        PROVE  Session!SNext \/ UNCHANGED Session!svars
    BY <2>1, <2>2, ClearDeletesSimulates DEF Session!SNext
  <2>3. ASSUME NEW i \in Instances, RunTool(c, i)
        PROVE  Session!SNext \/ UNCHANGED Session!svars
    BY <2>3, RunToolSimulates DEF Session!SNext
  <2>4. ASSUME AppendWrites(c)
        PROVE  Session!SNext
    BY <2>4, LastRequestSimulates DEF Session!SNext, AppendWrites
  <2>5. ASSUME ServerFails(c)
        PROVE  Session!SNext
    BY <2>5, SaveFailsSimulates, LoadFailsSimulates DEF Session!SNext, ServerFails
  <2> QED
    BY <1>2, <2>2, <2>3, <2>4, <2>5, BetweenSimulates DEF Serve
<1>3. ASSUME NEW c \in Calls, Respond(c) \/ LoseResponse(c)
      PROVE  Session!SNext
  BY <1>3, AnswerSimulates DEF Session!SNext
<1>4. ASSUME NEW r \in Runs, RunStep(r)
      PROVE  Session!SNext \/ UNCHANGED Session!svars
  <2>1. ASSUME NEW c \in CallsIn(r), Submit(c)
        PROVE  Session!SNext
    BY <1>1, <2>1, SubmitSimulates DEF Session!SNext
  <2>2. ASSUME NEW c \in CallsIn(r), Collect(c)
        PROVE  UNCHANGED Session!svars
    BY <1>1, <2>2, CollectHidden
  <2>3. ASSUME NEW s \in Services, CleanService(r, s)
        PROVE  Session!SNext \/ UNCHANGED Session!svars
    BY <2>3, CleanSimulates DEF Session!SNext
  <2>4. ASSUME StartRun(r) \/ EndReplay(r)
        PROVE  Session!SNext
    BY <2>4, StartSimulates, EndReplaySimulates DEF Session!SNext
  <2> QED
    BY <1>4, <2>1, <2>2, <2>3, <2>4, EndRunHidden DEF RunStep
<1>5. ASSUME NEW r \in Runs, NEW s \in Services, CleanFails(r, s)
      PROVE  Session!SNext \/ UNCHANGED Session!svars
  BY <1>5, CleanSimulates DEF Session!SNext
<1>6. CASE UNCHANGED <<world, store, callVars, answer, phase>>
  BY <1>6, HiddenStep
<1> QED
  BY <1>2, <1>3, <1>4, <1>5, <1>6
  DEF Next, Platform, ServerFails, Recycle, Stopped, vars, runVars

\* A FaaS tool call is one atomic step on its session's state, whatever the
\* platform, the store's requests, the losses and the cleanups do: FaasState
\* implements SessionState where the access declarations cover the tools, the
\* replays of a uid are kept apart, those that seed have uids that _safe_uid
\* leaves as they are, and tools rebind their attributes.  Where storages fail,
\* SessionState itself lets a call tear its session or run without it.
THEOREM RefinesSession ==
  ASSUME Declared, Separate, SeedsFound, Rebinding, Instances # {}
  PROVE  Spec => ImplementsSession
<1>1. Init => Session!SInit
  <2> SUFFICES ASSUME Init PROVE Session!SInit
    OBVIOUS
  <2>1. SessionValue = [key \in Keys |-> {}]
    BY DEF Init, SessionValue, Saving, Restored, Readable
  <2>2. SessionEffect = [c \in Calls |-> "none"]
    BY DEF Init, SessionEffect
  <2>3. /\ SeenAs = [c \in Calls |-> {}] /\ StatusAs = [c \in Calls |-> "idle"]
        /\ StageAs = [r \in Runs |-> "new"]
    BY <2>2 DEF Init, SeenAs, StatusAs, StageAs
  <2> QED
    BY <2>1, <2>2, <2>3, SessionVars
    DEF Init, Session!SInit, SeenAs, StatusAs, StageAs
<1>2. Spec => []Known
  <2>1. Init => StorageInv /\ RawInv
    <3>1. \A m \in FreshMemories : m.storage \/ world.faulty
      BY DEF FreshMemories
    <3> QED
      BY <3>1 DEF Init, StorageInv, RawInv
  <2>2. Spec => []Typed /\ []HInv /\ []Isolated
    BY FaasTypes, Exclusion, IsolatedAlways, PTL
  <2>3. Spec => []StorageInv
    BY <2>1, <2>2, StorageNext, PTL DEF Spec
  <2>4. Spec => []RawInv
    BY <2>1, <2>2, RawNext, PTL DEF Spec
  <2> QED
    BY <2>2, <2>3, <2>4, AloneHolds, ValueAlways, PTL DEF Known
<1> QED
  BY <1>1, <1>2, StepSimulates, PTL DEF Spec, ImplementsSession, Session!SSpec

=============================================================================
