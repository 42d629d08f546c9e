------------------------------ MODULE FaasState ------------------------------
(***************************************************************************)
(* The state of FaaS tools, end to end: replays that submit tool calls     *)
(* under the lock table's exclusion and clean up after themselves          *)
(* (atsuite/invoker.py, atsuite/utils.py), function instances that restore *)
(* the session's snapshot before a tool and save it after                  *)
(* (atsuite_sdk/abstract.py, atsuite_sdk/state.py) and the object store    *)
(* whose clear and append are several requests each (the storage           *)
(* adapters).  The platform may route a call to any instance, recycle an   *)
(* idle one, and lose a response while the call goes on.                   *)
(*                                                                         *)
(* A snapshot is the set of the calls whose effect it holds.  Replay       *)
(* decides when a call is submitted; here any order is allowed that the    *)
(* lock table allows (Replay's ExclusiveAccess).                           *)
(***************************************************************************)
EXTENDS Deployment

VARIABLES
  world,
  store,      (* The content of each object, a sequence of the snapshots   *)
              (* appended to it, or NoObject.                              *)
  memory,     (* Of each instance: the registered object's state, the      *)
              (* registered defaults, whether they share containers, and   *)
              (* whether its StateRuntime has a storage.                   *)
  pc,         (* Where each call is on the server's side.                  *)
  at,         (* The instance that executes each call.                     *)
  seen,       (* The state that the tool of each call observed.            *)
  found,      (* The content that append found at its first request.       *)
  answer,     (* What the client knows of each call.                       *)
  collected,  (* Calls whose future the coordinator has taken.             *)
  phase,      (* Of each replay.                                           *)
  toclean     (* toclean of each replay.                                   *)

callVars == <<pc, at, seen, found>>
runVars  == <<answer, collected, phase, toclean>>
vars == <<world, store, memory, callVars, runVars>>

-----------------------------------------------------------------------------

Key(c) == KeyOf(world, c)

CallsIn(r) == CallsOf(world, r)

\* The object that the replay's seeding and its cleaner name: they take the
\* uid as it is.
RunKey(r, s) == <<s, world.uid[r]>>

Executing == {"delete", "touch", "measure", "write"}

\* What do_POST answers with a 200, and what it has done when it answers: the
\* call was served, without a storage, or failed, having saved the snapshot,
\* having torn the object or having changed nothing.
Succeeded == {"served", "unstored"}

Finished == Succeeded \cup {"saved", "torn", "raised"}

Busy(i) == \E c \in Calls : at[c] = i /\ pc[c] \in Executing

\* _get_snapshot: no object, an empty one and one that is not a JSON value
\* are all an absent snapshot.
Readable(content) == content # NoObject /\ Len(content) = 1

Restored(content) == IF Readable(content) THEN content[1] ELSE {}

Blobs(content) == IF content = NoObject THEN <<>> ELSE content

\* StateRuntime.__init__: an exception of create_storage is printed and leaves
\* the instance without a storage.
FreshMemories ==
  [object : {{}}, defaults : {{}}, shared : {FALSE},
   storage : IF world.faulty THEN BOOLEAN ELSE {TRUE}]

\* Variant: without a snapshot the object keeps what it holds.
LoadKeepsObject(m, content) ==
  IF Readable(content)
  THEN [m EXCEPT !.object = content[1], !.shared = FALSE]
  ELSE m

\* What an instance reads: without a storage, nothing.
Content(i, key) == IF memory[i].storage THEN store[key] ELSE NoObject

\* load_for_tool: without a snapshot the object is given the defaults, the
\* very containers that _defaults holds.
Load(m, content) ==
  IF Readable(content)
  THEN [m EXCEPT !.object = content[1], !.shared = FALSE]
  ELSE [m EXCEPT !.object = m.defaults, !.shared = TRUE]

\* The body of a stateful tool adds its mark, to the container in place or
\* by binding the attribute to a new value.
Mutate(m, c) ==
  [m EXCEPT !.object = @ \cup {c},
            !.defaults = IF m.shared /\ world.inPlace THEN @ \cup {c} ELSE @]

\* Uncollected calls hold their lock (Replay!ExclusiveAccess).
Holding(r) ==
  { c \in CallsIn(r) : answer[c] # "none" /\ c \notin collected }

-----------------------------------------------------------------------------

Init ==
  /\ world \in Worlds
  /\ store = [key \in Keys |-> NoObject]
  /\ memory \in [Instances -> FreshMemories]
  /\ pc = [c \in Calls |-> "idle"]
  /\ at = [c \in Calls |-> CHOOSE i \in Instances : TRUE]
  /\ seen = [c \in Calls |-> {}]
  /\ found = [c \in Calls |-> <<>>]
  /\ answer = [c \in Calls |-> "none"]
  /\ collected = {}
  /\ phase = [r \in Runs |-> "new"]
  /\ toclean = [r \in Runs |-> {}]

\* run_trace up to run_node: the snapshot bundle is written with put_object,
\* over whatever the object held, and its services are to be cleaned.
StartRun(r) ==
  /\ phase[r] = "new"
  /\ \A q \in world.after[r] : phase[q] = "over"
  /\ phase' = [phase EXCEPT ![r] = "replay"]
  /\ store' = [key \in Keys |->
                 IF key[2] = world.uid[r] /\ key[1] \in world.seeded
                 THEN <<{Base}>> ELSE store[key]]
  /\ toclean' = [toclean EXCEPT ![r] = world.seeded]
  /\ UNCHANGED <<world, memory, callVars, answer, collected>>

\* Variant: only the access modes of stateful tools are looked at.
SubmitWritersOnly(c) ==
  LET r == world.run[c] IN
  /\ phase[r] = "replay"
  /\ answer[c] = "none"
  /\ \A d \in Holding(r) :
       ~(Writes(world.access[c]) /\ Conflict(world.access[c], world.access[d]))
  /\ answer' = [answer EXCEPT ![c] = "waiting"]
  /\ pc' = [pc EXCEPT ![c] = "sent"]
  /\ UNCHANGED <<world, store, memory, at, seen, found, collected, phase, toclean>>

Submit(c) ==
  LET r == world.run[c] IN
  /\ phase[r] = "replay"
  /\ answer[c] = "none"
  /\ \A d \in Holding(r) : ~Conflict(world.access[c], world.access[d])
  /\ answer' = [answer EXCEPT ![c] = "waiting"]
  /\ pc' = [pc EXCEPT ![c] = "sent"]
  /\ UNCHANGED <<world, store, memory, at, seen, found, collected, phase, toclean>>

-----------------------------------------------------------------------------
(* The function instance: do_POST and execute_from_dict *)

\* An idle instance takes the call, restores the state and runs the tool.
\* Nothing else can touch the instance's memory meanwhile (HTTPServer serves
\* one request at a time), so this is one step after the read.  Without a
\* storage the call is served with nothing restored and nothing saved.
RunTool(c, i) ==
  /\ pc[c] = "sent"
  /\ world.host[i] = world.service[c]
  /\ ~Busy(i)
  /\ LET m == Load(memory[i], Content(i, Key(c)))
         after == IF world.stateful[c] THEN Mutate(m, c) ELSE m
     IN  /\ seen' = [seen EXCEPT ![c] = m.object]
         /\ \/ /\ memory' = [memory EXCEPT ![i] = after]
               /\ pc' = [pc EXCEPT ![c] =
                           IF ~memory[i].storage THEN "unstored"
                           ELSE IF world.stateful[c] THEN "delete" ELSE "served"]
            \/ \* The tool raises, before or after it changed the object.
               /\ \E x \in {m, after} : memory' = [memory EXCEPT ![i] = x]
               /\ pc' = [pc EXCEPT ![c] = "raised"]
  /\ at' = [at EXCEPT ![c] = i]
  /\ UNCHANGED <<world, store, found, runVars>>

\* The instance cannot read the snapshot: the tool is not run.
LoadFails(c, i) ==
  /\ world.faulty
  /\ pc[c] = "sent"
  /\ world.host[i] = world.service[c]
  /\ ~Busy(i)
  /\ memory[i].storage
  /\ pc' = [pc EXCEPT ![c] = "raised"]
  /\ at' = [at EXCEPT ![c] = i]
  /\ UNCHANGED <<world, store, memory, seen, found, runVars>>

\* Variant: the snapshot is appended without clearing the object.
ClearDeletesNothing(c) ==
  /\ pc[c] = "delete"
  /\ store' = store
  /\ pc' = [pc EXCEPT ![c] = "measure"]
  /\ UNCHANGED <<world, memory, at, seen, found, runVars>>

\* OSS appends at a position, which it refuses if that is not the object's end.
Refused(c) ==
  /\ world.backend = "oss"
  /\ \/ pc[c] = "touch" /\ Blobs(store[Key(c)]) # <<>>
     \/ pc[c] = "write" /\ Len(Blobs(store[Key(c)])) # Len(found[c])

\* The object after the request of clearobj or append that the call is at:
\* clearobj deletes it, S3 then puts an empty one and OSS appends nothing at
\* position 0; append reads the content (S3, GCS) or its length (OSS) and puts
\* what was read and the snapshot, or appends the snapshot at that length.
Requested(c) ==
  LET content  == store[Key(c)]
      snapshot == memory[at[c]].object
  IN  IF Refused(c) THEN content
      ELSE CASE pc[c] = "delete"  -> NoObject
             [] pc[c] = "touch"   -> <<>>
             [] pc[c] = "measure" -> content
             [] OTHER             -> Append(IF world.backend = "oss"
                                            THEN Blobs(content) ELSE found[c],
                                            snapshot)

\* clearobj, first request.  GCPStorage stops here.
ClearDeletes(c) ==
  /\ pc[c] = "delete"
  /\ store' = [store EXCEPT ![Key(c)] = Requested(c)]
  /\ pc' = [pc EXCEPT ![c] = IF world.backend = "gcs" THEN "measure" ELSE "touch"]
  /\ UNCHANGED <<world, memory, at, seen, found, runVars>>

\* clearobj, second request.
ClearTouches(c) ==
  /\ pc[c] = "touch"
  /\ store' = [store EXCEPT ![Key(c)] = Requested(c)]
  /\ pc' = [pc EXCEPT ![c] = IF Refused(c) THEN "torn" ELSE "measure"]
  /\ UNCHANGED <<world, memory, at, seen, found, runVars>>

\* append, first request.
AppendReads(c) ==
  /\ pc[c] = "measure"
  /\ found' = [found EXCEPT ![c] = Blobs(store[Key(c)])]
  /\ pc' = [pc EXCEPT ![c] = "write"]
  /\ UNCHANGED <<world, store, memory, at, seen, runVars>>

\* append, second request.
AppendWrites(c) ==
  /\ pc[c] = "write"
  /\ store' = [store EXCEPT ![Key(c)] = Requested(c)]
  /\ pc' = [pc EXCEPT ![c] = IF Refused(c) THEN "torn" ELSE "served"]
  /\ found' = [found EXCEPT ![c] = <<>>]
  /\ UNCHANGED <<world, memory, at, seen, runVars>>

\* A storage request of the save fails and the handler answers with a 500.
SaveFails(c) ==
  /\ world.faulty
  /\ pc[c] \in Executing
  /\ pc' = [pc EXCEPT ![c] = IF pc[c] = "delete" THEN "raised" ELSE "torn"]
  /\ UNCHANGED <<world, store, memory, at, seen, found, runVars>>

\* A storage request of the save has been executed, but its response is lost:
\* the handler answers with a 500 all the same.
SaveUnanswered(c) ==
  /\ world.faulty
  /\ pc[c] \in Executing
  /\ store' = [store EXCEPT ![Key(c)] = Requested(c)]
  /\ pc' = [pc EXCEPT ![c] =
               IF pc[c] = "write" /\ ~Refused(c) THEN "saved" ELSE "torn"]
  /\ UNCHANGED <<world, memory, at, seen, found, runVars>>

\* The platform replaces an idle instance.
Recycle(i) ==
  /\ ~Busy(i)
  /\ \E m \in FreshMemories : m # memory[i] /\ memory' = [memory EXCEPT ![i] = m]
  /\ UNCHANGED <<world, store, callVars, runVars>>

-----------------------------------------------------------------------------
(* The client: runtime.invoke, execute_node, the end of run_trace *)

\* Variant: the response's X-Tool-Stateful header is not looked at.
RespondIgnoresHeader(c) ==
  /\ answer[c] = "waiting"
  /\ pc[c] \in Finished
  /\ answer' = [answer EXCEPT ![c] = IF pc[c] \in Succeeded THEN "ok" ELSE "error"]
  /\ toclean' = [toclean EXCEPT ![world.run[c]] =
       IF pc[c] \in Succeeded /\ IsStateful(world.access[c])
       THEN @ \cup {world.service[c]} ELSE @]
  /\ UNCHANGED <<world, store, memory, callVars, collected, phase>>

\* Variant: the object's key is remembered instead of the service.
RespondKeepsKey(c) ==
  /\ answer[c] = "waiting"
  /\ pc[c] \in Finished
  /\ answer' = [answer EXCEPT ![c] = IF pc[c] \in Succeeded THEN "ok" ELSE "error"]
  /\ toclean' = [toclean EXCEPT ![world.run[c]] =
       IF pc[c] \in Succeeded /\ (IsStateful(world.access[c]) \/ world.stateful[c])
       THEN @ \cup {Key(c)} ELSE @]
  /\ UNCHANGED <<world, store, memory, callVars, collected, phase>>

\* The response arrives: the service is to be cleaned if the call succeeded
\* and either its access or the response's header says it is stateful.
Respond(c) ==
  /\ answer[c] = "waiting"
  /\ pc[c] \in Finished
  /\ answer' = [answer EXCEPT ![c] = IF pc[c] \in Succeeded THEN "ok" ELSE "error"]
  /\ toclean' = [toclean EXCEPT ![world.run[c]] =
       IF pc[c] \in Succeeded /\ (IsStateful(world.access[c]) \/ world.stateful[c])
       THEN @ \cup {world.service[c]} ELSE @]
  /\ UNCHANGED <<world, store, memory, callVars, collected, phase>>

\* The connection breaks, before or after the call has been executed.
LoseResponse(c) ==
  /\ world.lossy
  /\ answer[c] = "waiting"
  /\ answer' = [answer EXCEPT ![c] = "error"]
  /\ UNCHANGED <<world, store, memory, callVars, collected, phase, toclean>>

\* The coordinator takes the call's future; an error ends the replay.
Collect(c) ==
  /\ phase[world.run[c]] = "replay"
  /\ answer[c] \in {"ok", "error"}
  /\ c \notin collected
  /\ collected' = collected \cup {c}
  /\ phase' = IF answer[c] = "error"
              THEN [phase EXCEPT ![world.run[c]] = "abort"] ELSE phase
  /\ UNCHANGED <<world, store, memory, callVars, answer, toclean>>

\* Variant: after an error every call of the trace is still waited for.
EndReplayAll(r) ==
  /\ phase[r] \in {"replay", "abort"}
  /\ CallsIn(r) \subseteq collected
  /\ phase' = [phase EXCEPT ![r] = "cleanup"]
  /\ UNCHANGED <<world, store, memory, callVars, answer, collected, toclean>>

\* run_node returns with every call collected, or raises once the calls in
\* progress have ended.
EndReplay(r) ==
  /\ \/ phase[r] = "replay" /\ CallsIn(r) \subseteq collected
     \/ phase[r] = "abort" /\ \A c \in CallsIn(r) : answer[c] # "waiting"
  /\ phase' = [phase EXCEPT ![r] = "cleanup"]
  /\ UNCHANGED <<world, store, memory, callVars, answer, collected, toclean>>

\* One turn of cleaner's loop over toclean.
CleanService(r, s) ==
  /\ phase[r] = "cleanup"
  /\ s \in toclean[r]
  /\ store' = [store EXCEPT ![RunKey(r, s)] = NoObject]
  /\ toclean' = [toclean EXCEPT ![r] = @ \ {s}]
  /\ UNCHANGED <<world, memory, callVars, answer, collected, phase>>

\* A storage request of cleaner fails, executed or not: on AWS the service is
\* skipped, the other providers' exception leaves cleaner and with it run_trace.
CleanFails(r, s) ==
  /\ world.faulty
  /\ phase[r] = "cleanup"
  /\ s \in toclean[r]
  /\ store' \in {store, [store EXCEPT ![RunKey(r, s)] = NoObject]}
  /\ toclean' = [toclean EXCEPT ![r] = IF world.backend = "s3" THEN @ \ {s} ELSE {}]
  /\ UNCHANGED <<world, memory, callVars, answer, collected, phase>>

EndRun(r) ==
  /\ phase[r] = "cleanup"
  /\ toclean[r] = {}
  /\ phase' = [phase EXCEPT ![r] = "over"]
  /\ UNCHANGED <<world, store, memory, callVars, answer, collected, toclean>>

Stopped ==
  /\ \A r \in Runs : phase[r] = "over"
  /\ UNCHANGED vars

Serve(c) ==
  \/ \E i \in Instances : RunTool(c, i)
  \/ ClearDeletes(c) \/ ClearTouches(c) \/ AppendReads(c) \/ AppendWrites(c)

Platform ==
  \/ \E i \in Instances : Recycle(i)
  \/ \E c \in Calls : SaveFails(c) \/ SaveUnanswered(c) \/ LoseResponse(c)
  \/ \E c \in Calls, i \in Instances : LoadFails(c, i)

RunStep(r) ==
  \/ StartRun(r) \/ EndReplay(r) \/ EndRun(r)
  \/ \E c \in CallsIn(r) : Submit(c) \/ Collect(c)
  \/ \E s \in Services : CleanService(r, s)

Next ==
  \/ \E c \in Calls : Serve(c) \/ Respond(c)
  \/ \E r \in Runs : RunStep(r) \/ \E s \in Services : CleanFails(r, s)
  \/ Platform
  \/ Stopped

Spec == Init /\ [][Next]_vars

\* The platform gets a waiting call to an instance, an instance finishes the
\* call it has, an answer gets back unless it is lost (FunctionClient itself
\* waits without a timeout), and the replays' threads run.
Fairness ==
  /\ \A c \in Calls : WF_vars(Serve(c)) /\ WF_vars(Respond(c))
  /\ \A r \in Runs : WF_vars(RunStep(r))

FairSpec == Spec /\ Fairness

-----------------------------------------------------------------------------
(* Properties *)

TypeOK ==
  /\ world \in Worlds
  /\ \A key \in Keys : store[key] = NoObject \/ store[key] \in Seq(SUBSET Marks)
  /\ memory \in [Instances -> [object : SUBSET Marks, defaults : SUBSET Marks,
                               shared : BOOLEAN, storage : BOOLEAN]]
  /\ pc \in [Calls -> {"idle", "sent"} \cup Executing \cup Finished]
  /\ at \in [Calls -> Instances]
  /\ seen \in [Calls -> SUBSET Marks]
  /\ found \in [Calls -> Seq(SUBSET Marks)]
  /\ answer \in [Calls -> {"none", "waiting", "ok", "error"}]
  /\ collected \subseteq Calls
  /\ phase \in [Runs -> {"new", "replay", "abort", "cleanup", "over"}]
  /\ toclean \in [Runs -> SUBSET Services]

Saving(c) == pc[c] \in {"touch", "measure", "write"}

\* No call looks at a session's object, or saves to it, while another call is
\* between the requests of its own save, not even when the client has lost
\* the other's response: after a loss the replay submits nothing that waits
\* for the lock.
SavesUndisturbed ==
  \A c, d \in Calls :
    c # d /\ Key(c) = Key(d) /\ Saving(c) => pc[d] \notin {"sent"} \cup Executing

\* Where no storage request fails, an object outlives the replays of its session
\* only because the response of a stateful call was lost, or because _safe_uid
\* changes the uid: the server saves under the sanitised uid and cleaner deletes
\* under the given one.
LeftoversOfLostCalls ==
  \A key \in Keys :
    /\ ~world.faulty
    /\ \A q \in Runs :
         SafeUid(world.uid[q]) = SafeUid(key[2]) => phase[q] \in {"new", "over"}
    /\ store[key] # NoObject
    => \E c \in Calls :
        /\ Key(c) = key /\ world.stateful[c] /\ pc[c] # "raised"
        /\ answer[c] = "error" \/ Key(c) # RunKey(world.run[c], world.service[c])

\* What a tool observes are the effects of calls of its own uid
\* ("per-session state", class StateRuntime).
SessionIsolation ==
  \A c \in Calls :
    \A d \in seen[c] \ {Base} : world.uid[world.run[d]] = world.uid[world.run[c]]

\* The state a session has between the requests of a save is the one the
\* saving call restored.
SessionValue ==
  [key \in Keys |->
     IF \E c \in Calls : Key(c) = key /\ Saving(c)
     THEN seen[CHOOSE c \in Calls : Key(c) = key /\ Saving(c)]
     ELSE Restored(store[key])]

SessionEffect ==
  [c \in Calls |-> CASE pc[c] \in {"served", "saved"} -> "applied"
                     [] pc[c] \in {"unstored", "raised", "torn"} -> pc[c]
                     [] OTHER -> "none"]

Session == INSTANCE SessionState WITH
  value  <- SessionValue,
  effect <- SessionEffect,
  seen   <- [c \in Calls |-> IF SessionEffect[c] = "applied" THEN seen[c] ELSE {}],
  status <- [c \in Calls |-> CASE answer[c] = "none" -> "idle"
                               [] answer[c] = "waiting" -> "active"
                               [] OTHER -> answer[c]],
  stage  <- [r \in Runs |-> CASE phase[r] = "new" -> "new"
                              [] phase[r] \in {"replay", "abort"} -> "open"
                              [] OTHER -> "closed"]

\* A FaaS tool call is one atomic step on its session's state, however the
\* requests of loads and saves, the losses and the cleanups interleave; where
\* storages fail it may be torn, or served without the state.
ImplementsSession == Session!SSpec

\* A call answered with success has its session's state restored and saved
\* ("per-session state restored/persisted from object storage").
SuccessIsStored == \A c \in Calls : answer[c] = "ok" => pc[c] # "unstored"

\* While no call has failed, one answered with success by an instance that has
\* a storage has observed what the snapshot that its replay seeded holds
\* ("aws_lambda pre-seeds S3 per UID").
SeedRestored ==
  (\A c \in Calls : answer[c] # "error") =>
    \A c \in Calls :
      answer[c] = "ok" /\ pc[c] # "unstored" /\ world.service[c] \in world.seeded
      => Base \in seen[c]

\* Of what the documents say of a function's state - that it is per session, be
\* it only for calls that succeed with a storage at hand, that it is restored
\* and persisted, that a given snapshot is restored - one thing at least holds
\* in every state.
StateClaims ==
  \/ \A c, d \in Calls :
       d \in seen[c] /\ answer[c] = "ok" /\ pc[c] # "unstored"
         => world.uid[world.run[d]] = world.uid[world.run[c]]
  \/ SuccessIsStored
  \/ SeedRestored

\* run_trace gets to the end of its cleanup, whatever calls fail or get lost.
CleanupHappens ==
  \A r \in Runs : phase[r] = "replay" ~> phase[r] = "over"

=============================================================================
