---------------------------- MODULE RunLifecycle ----------------------------
(***************************************************************************)
(* run_trace (atsuite/invoker.py) from its call to its return, and the two *)
(* command lines that call it: one replay (atsuite/cli/invoker.py), or a   *)
(* pool of threads with one replay each (atsuite/cli/concurrency.py).  The *)
(* replay proper, run_node, is abstracted to the stateful calls it makes   *)
(* and its outcome; module Replay details it.                              *)
(*                                                                         *)
(* Standard output is a global of the process.  It is written as the       *)
(* sequence of the runs whose _TeeWriter a print goes through, innermost   *)
(* first; <<>> is the terminal.  Each run replaces it, and puts back what  *)
(* it found.                                                               *)
(***************************************************************************)
EXTENDS Naturals, FiniteSets, Sequences, SequencesExt

CONSTANTS
  Runs,       (* Calls of run_trace, each under a uid of its own.          *)
  Services,   (* FaaS targets.                                             *)
  Seconds,    (* Instants, as the names of artifacts tell them apart.      *)
  NoRun,      (* Nobody wrote the artifacts of that second.                *)
  Worlds      (* The command lines considered.                             *)

ASSUME LifecycleAssumption ==
  /\ IsFiniteSet(Services)
  /\ NoRun \notin Runs
  /\ \A w \in Worlds :
       /\ w.runs     \subseteq Runs
       /\ w.pool     \in BOOLEAN    \* the concurrency command line
       /\ w.aws      \in BOOLEAN    \* S3, else OSS or Cloud Storage
       /\ w.stored   \in BOOLEAN    \* or else, at a gateway, no store at all
       /\ w.stateful \subseteq Services   \* targets of stateful tools
       /\ w.seeds    \subseteq Services   \* services of the snapshot bundle
       /\ w.scaling  \in BOOLEAN    \* an ali_agentrun replay
       /\ w.analyzer \in BOOLEAN    \* ~skip_analyzer
       /\ w.faulty   \in BOOLEAN    \* the cloud's services may fail
       /\ w.seeds # {} => w.aws
       /\ w.scaling  => ~w.pool /\ ~w.aws /\ w.stored /\ w.stateful = {}
       /\ ~w.stored  => ~w.aws /\ w.stateful = {}
       /\ \A q, r \in w.runs : w.pool \/ q = r

VARIABLES
  world,
  driver,     (* The command line: "submit", "announce", "collect",        *)
              (* "over", "crashed".                                        *)
  results,    (* Runs the command line reports as completed.               *)
  failed,     (* Runs the command line reports as failed.                  *)
  pc,         (* Where each run is.                                        *)
  outcome,    (* How each run ended.                                       *)
  raised,     (* Runs in which an exception is on its way out.             *)
  fault,      (* What has gone wrong in each run.                          *)
  stdout,     (* sys.stdout.                                               *)
  original,   (* _original_stdout of each run.                             *)
  closed,     (* Runs whose _log_file is closed.                           *)
  objects,    (* Snapshots in the object store, as <<run, service>>.       *)
  toclean,    (* toclean of each run.                                      *)
  cleaned,    (* The part of it that cleaner is done with.                 *)
  scaled,     (* Runs whose scaling configurations exist.                  *)
  traceEnd,   (* Runs whose trace_end_time is set.                         *)
  analyzer,   (* Runs that have an analyzer.                               *)
  runEnd,     (* The phase of the run that its recorded end belongs to.    *)
  stamp,      (* ts of each run.                                           *)
  events,     (* Who wrote the events file of a second last.               *)
  report      (* Who wrote the report of a second last.                    *)

driverVars == <<driver, results, failed>>
controlVars == <<pc, outcome, raised, fault>>
outputVars == <<stdout, original, closed>>
cloudVars == <<objects, toclean, cleaned, scaled>>
analysisVars == <<traceEnd, analyzer, runEnd, stamp, events, report>>
vars == <<world, driverVars, controlVars, outputVars, cloudVars, analysisVars>>

\* The last two are failed prints, of the cleaner and of all others.
Faults == {"resolve", "seed", "setup", "call", "erase", "scale", "analysis", "notice",
           "print"}

Init ==
  /\ world \in Worlds
  /\ driver = "submit"
  /\ results = {}
  /\ failed = {}
  /\ pc = [r \in Runs |-> "idle"]
  /\ outcome = [r \in Runs |-> "none"]
  /\ raised = {}
  /\ fault = [r \in Runs |-> {}]
  /\ stdout = <<>>
  /\ original = [r \in Runs |-> <<>>]
  /\ closed = {}
  /\ objects = {}
  /\ toclean = [r \in Runs |-> {}]
  /\ cleaned = [r \in Runs |-> {}]
  /\ scaled = {}
  /\ traceEnd = {}
  /\ analyzer = {}
  /\ runEnd = [r \in Runs |-> "none"]
  /\ stamp \in [Runs -> Seconds]
  /\ events = [t \in Seconds |-> NoRun]
  /\ report = [t \in Seconds |-> NoRun]

-----------------------------------------------------------------------------
(* Control *)

\* A print through a tee whose log is closed raises ValueError.
Writable == ToSet(stdout) \cap closed = {}

Goto(r, place) ==
  /\ pc' = [pc EXCEPT ![r] = place]
  /\ UNCHANGED <<outcome, raised, fault>>

Suffer(r, what) == fault' = [fault EXCEPT ![r] = @ \cup {what}]

\* Something goes wrong and the run carries on at place, with the exception
\* on its way out, or swallowed.
Raise(r, what, place) ==
  /\ pc' = [pc EXCEPT ![r] = place]
  /\ raised' = raised \cup {r}
  /\ Suffer(r, what)
  /\ UNCHANGED outcome

Swallow(r, what, place) ==
  /\ pc' = [pc EXCEPT ![r] = place]
  /\ Suffer(r, what)
  /\ UNCHANGED <<outcome, raised>>

\* An exception before the try statement leaves run_trace at once.
Leave(r, what, how) ==
  /\ pc' = [pc EXCEPT ![r] = "over"]
  /\ outcome' = [outcome EXCEPT ![r] = how]
  /\ raised' = raised \cup {r}
  /\ Suffer(r, what)

-----------------------------------------------------------------------------
(* Before the try statement *)

\* Configuration, benchmark and endpoint map are read, and the log opened.
Open(r) ==
  /\ pc[r] = "resolve"
  /\ original' = [original EXCEPT ![r] = stdout]
  /\ Goto(r, "swap")
  /\ UNCHANGED <<world, driverVars, stdout, closed, cloudVars, analysisVars>>

\* SystemExit for a wrong provider, another exception for a missing file.
ResolveFails(r) ==
  /\ pc[r] = "resolve"
  /\ world.faulty
  /\ \E how \in {"exited", "raised"} : Leave(r, "resolve", how)
  /\ UNCHANGED <<world, driverVars, outputVars, cloudVars, analysisVars>>

Swap(r) ==
  /\ pc[r] = "swap"
  /\ stdout' = Append(original[r], r)
  /\ Goto(r, "seed")
  /\ UNCHANGED <<world, driverVars, original, closed, cloudVars, analysisVars>>

Unseeded(r) == { s \in world.seeds : <<r, s>> \notin objects }

\* seed_lambda_state_snapshot_for_uid puts one object after the other and
\* returns their services, for toclean, at the end.
Seed(r) ==
  /\ pc[r] = "seed"
  /\ \E s \in Unseeded(r) : objects' = objects \cup {<<r, s>>}
  /\ UNCHANGED <<world, driverVars, controlVars, outputVars, toclean, cleaned,
                 scaled, analysisVars>>

SeedFails(r) ==
  /\ pc[r] = "seed"
  /\ world.faulty
  /\ Unseeded(r) # {}
  /\ Leave(r, "seed", "raised")
  /\ UNCHANGED <<world, driverVars, outputVars, cloudVars, analysisVars>>

\* Variant: the seeded services are not entered in toclean.
SeededForgotten(r) ==
  /\ pc[r] = "seed"
  /\ Unseeded(r) = {}
  /\ Goto(r, "scale")
  /\ UNCHANGED <<world, driverVars, outputVars, cloudVars, analysisVars>>

Seeded(r) ==
  /\ pc[r] = "seed"
  /\ Unseeded(r) = {}
  /\ toclean' = [toclean EXCEPT ![r] = world.seeds]
  /\ Goto(r, "scale")
  /\ UNCHANGED <<world, driverVars, outputVars, objects, cleaned, scaled,
                 analysisVars>>

ScaleUp(r) ==
  /\ pc[r] = "scale"
  /\ scaled' = IF world.scaling THEN scaled \cup {r} ELSE scaled
  /\ Goto(r, "connect")
  /\ UNCHANGED <<world, driverVars, outputVars, objects, toclean, cleaned,
                 analysisVars>>

ScaleUpFails(r) ==
  /\ pc[r] = "scale"
  /\ world.scaling /\ world.faulty
  /\ Swallow(r, "scale", "connect")
  /\ UNCHANGED <<world, driverVars, outputVars, cloudVars, analysisVars>>

\* The adapter is connected, and the analyzer, if wanted, created and
\* started.
Connect(r) ==
  /\ pc[r] = "connect"
  /\ world.analyzer => Writable
  /\ analyzer' = IF world.analyzer THEN analyzer \cup {r} ELSE analyzer
  /\ Goto(r, "replay")
  /\ UNCHANGED <<world, driverVars, outputVars, cloudVars, traceEnd, runEnd,
                 stamp, events, report>>

\* An exception while the analyzer is created turns the analyzer off.
ConnectWithoutAnalyzer(r) ==
  /\ pc[r] = "connect"
  /\ world.analyzer /\ world.faulty /\ Writable
  /\ Swallow(r, "analysis", "replay")
  /\ UNCHANGED <<world, driverVars, outputVars, cloudVars, analysisVars>>

\* A target has no endpoint; or _create_analyzer cannot print, not even
\* that it disables the analyzer.
ConnectFails(r) ==
  /\ pc[r] = "connect"
  /\ \/ world.faulty /\ Leave(r, "setup", "raised")
     \/ world.analyzer /\ ~Writable /\ Leave(r, "print", "raised")
  /\ UNCHANGED <<world, driverVars, outputVars, cloudVars, analysisVars>>

-----------------------------------------------------------------------------
(* The try statement *)

\* A node of the trace calls a stateful tool of s, and prints.
CallTool(r, s) ==
  /\ pc[r] = "replay"
  /\ s \in world.stateful
  /\ objects' = objects \cup {<<r, s>>}
  /\ toclean' = [toclean EXCEPT ![r] = @ \cup {s}]
  /\ IF Writable THEN UNCHANGED controlVars ELSE Raise(r, "print", "clean")
  /\ UNCHANGED <<world, driverVars, outputVars, cleaned, scaled, analysisVars>>

\* A call fails; if its tool was stateful, it may have saved its state.
CallFails(r) ==
  /\ pc[r] = "replay"
  /\ world.faulty
  /\ \E lost \in SUBSET world.stateful :
       /\ Cardinality(lost) <= 1
       /\ objects' = objects \cup ({r} \X lost)
  /\ Raise(r, "call", "clean")
  /\ UNCHANGED <<world, driverVars, outputVars, toclean, cleaned, scaled,
                 analysisVars>>

\* Any other node that prints in vain.
PrintFails(r) ==
  /\ pc[r] = "replay"
  /\ ~Writable
  /\ Raise(r, "print", "clean")
  /\ UNCHANGED <<world, driverVars, outputVars, cloudVars, analysisVars>>

ReplayEnds(r) ==
  /\ pc[r] = "replay"
  /\ traceEnd' = traceEnd \cup {r}
  /\ Goto(r, "clean")
  /\ UNCHANGED <<world, driverVars, outputVars, cloudVars, analyzer, runEnd,
                 stamp, events, report>>

-----------------------------------------------------------------------------
(* The finally clause *)

\* cleaner takes the services of toclean one by one.
Erase(r, s) ==
  /\ pc[r] = "clean"
  /\ s \in toclean[r] \ cleaned[r]
  /\ objects' = objects \ {<<r, s>>}
  /\ cleaned' = [cleaned EXCEPT ![r] = @ \cup {s}]
  /\ UNCHANGED <<world, driverVars, controlVars, outputVars, toclean, scaled,
                 analysisVars>>

\* On S3 an error is printed and the next service taken; on the other stores
\* it ends the finally clause, even before the first service when no client
\* can be made.
EraseFailsOnS3(r, s) ==
  /\ pc[r] = "clean"
  /\ world.aws /\ world.faulty
  /\ s \in toclean[r] \ cleaned[r]
  /\ cleaned' = [cleaned EXCEPT ![r] = @ \cup {s}]
  /\ IF Writable THEN Swallow(r, "erase", "clean")
                 ELSE Raise(r, "erase", "restore")
  /\ UNCHANGED <<world, driverVars, outputVars, objects, toclean, scaled,
                 analysisVars>>

CleanerRaises(r) ==
  /\ pc[r] = "clean"
  /\ world.stored /\ ~world.aws /\ world.faulty
  /\ Raise(r, "erase", "restore")
  /\ UNCHANGED <<world, driverVars, outputVars, cloudVars, analysisVars>>

\* Without a store, cleaner prints that there is nothing it can clean.
NoticeFails(r) ==
  /\ pc[r] = "clean"
  /\ toclean[r] \subseteq cleaned[r]
  /\ ~world.stored /\ ~Writable
  /\ Raise(r, "notice", "restore")
  /\ UNCHANGED <<world, driverVars, outputVars, cloudVars, analysisVars>>

\* cleaner returns; cleanup_run does nothing and record_state_cleanup only
\* records.
Cleaned(r) ==
  /\ pc[r] = "clean"
  /\ toclean[r] \subseteq cleaned[r]
  /\ world.stored \/ Writable
  /\ Goto(r, "scale down")
  /\ UNCHANGED <<world, driverVars, outputVars, cloudVars, analysisVars>>

\* Variant: the configurations are deleted only after a complete replay.
ScaleDownIfReplayed(r) ==
  /\ pc[r] = "scale down"
  /\ scaled' = IF r \in traceEnd THEN scaled \ {r} ELSE scaled
  /\ Goto(r, "analyze")
  /\ UNCHANGED <<world, driverVars, outputVars, objects, toclean, cleaned,
                 analysisVars>>

ScaleDown(r) ==
  /\ pc[r] = "scale down"
  /\ scaled' = scaled \ {r}
  /\ Goto(r, "analyze")
  /\ UNCHANGED <<world, driverVars, outputVars, objects, toclean, cleaned,
                 analysisVars>>

ScaleDownFails(r) ==
  /\ pc[r] = "scale down"
  /\ world.scaling /\ world.faulty
  /\ Swallow(r, "scale", "analyze")
  /\ UNCHANGED <<world, driverVars, outputVars, cloudVars, analysisVars>>

\* Variant: one set of artifacts for all runs of the process.
ArtifactOfProcess(r) == CHOOSE t \in Seconds : TRUE

\* The second that the artifacts of r are named after.
Artifact(r) == stamp[r]

\* Variant: trace_end_time as it is, 0.0 when the replay failed.
EndOfRunUnset(r) == IF r \in traceEnd THEN "replay" ELSE "unset"

\* trace_end_time or time.time(): the end of the replay, or the present.
EndOfRun(r) == IF r \in traceEnd THEN "replay" ELSE "cleanup"

\* finish_run and save_events.
SaveEvents(r) ==
  /\ pc[r] = "analyze"
  /\ r \in analyzer
  /\ runEnd' = [runEnd EXCEPT ![r] = EndOfRun(r)]
  /\ events' = [events EXCEPT ![Artifact(r)] = r]
  /\ Goto(r, "collect")
  /\ UNCHANGED <<world, driverVars, outputVars, cloudVars, traceEnd, analyzer,
                 stamp, report>>

SkipAnalysis(r) ==
  /\ pc[r] = "analyze"
  /\ r \notin analyzer
  /\ Goto(r, "restore")
  /\ UNCHANGED <<world, driverVars, outputVars, cloudVars, analysisVars>>

\* Evidence is collected, priced and aggregated, the artifacts written and
\* the statistics printed.
Analyze(r) ==
  /\ pc[r] = "collect"
  /\ report' = [report EXCEPT ![Artifact(r)] = r]
  /\ IF Writable THEN Goto(r, "restore") ELSE Raise(r, "print", "restore")
  /\ UNCHANGED <<world, driverVars, outputVars, cloudVars, traceEnd, analyzer,
                 runEnd, stamp, events>>

AnalysisFails(r) ==
  /\ pc[r] = "collect"
  /\ world.faulty
  /\ Raise(r, "analysis", "restore")
  /\ UNCHANGED <<world, driverVars, outputVars, cloudVars, analysisVars>>

Restore(r) ==
  /\ pc[r] = "restore"
  /\ stdout' = original[r]
  /\ Goto(r, "close")
  /\ UNCHANGED <<world, driverVars, original, closed, cloudVars, analysisVars>>

Close(r) ==
  /\ pc[r] = "close"
  /\ closed' = closed \cup {r}
  /\ Goto(r, "print")
  /\ UNCHANGED <<world, driverVars, stdout, original, cloudVars, analysisVars>>

\* Variant: a return inside the finally clause drops the exception.
ReturnAnyway(r) ==
  /\ pc[r] = "print"
  /\ Writable
  /\ pc' = [pc EXCEPT ![r] = "over"]
  /\ outcome' = [outcome EXCEPT ![r] = "returned"]
  /\ UNCHANGED <<world, driverVars, raised, fault, outputVars, cloudVars,
                 analysisVars>>

\* The last print, and the end of run_trace.
Return(r) ==
  /\ pc[r] = "print"
  /\ Writable
  /\ pc' = [pc EXCEPT ![r] = "over"]
  /\ outcome' = [outcome EXCEPT ![r] = IF r \in raised THEN "raised" ELSE "returned"]
  /\ UNCHANGED <<world, driverVars, raised, fault, outputVars, cloudVars,
                 analysisVars>>

LastPrintFails(r) ==
  /\ pc[r] = "print"
  /\ ~Writable
  /\ Leave(r, "print", "raised")
  /\ UNCHANGED <<world, driverVars, outputVars, cloudVars, analysisVars>>

-----------------------------------------------------------------------------
(* The command line *)

\* The only thread that prints while others run: an exception of one of its
\* prints ends it, after the pool has finished what was submitted.
Announce(next) == driver' = IF world.pool => Writable THEN next ELSE "crashed"

Submit(r) ==
  /\ driver = "submit"
  /\ r \in world.runs
  /\ pc[r] = "idle"
  /\ Goto(r, "resolve")
  /\ driver' = "announce"
  /\ UNCHANGED <<world, results, failed, outputVars, cloudVars, analysisVars>>

\* The print that tells of it comes when the run may have begun.
AnnounceSubmitted ==
  /\ driver = "announce"
  /\ Announce("submit")
  /\ UNCHANGED <<world, results, failed, controlVars, outputVars, cloudVars,
                 analysisVars>>

Submitted ==
  /\ driver = "submit"
  /\ \A r \in world.runs : pc[r] # "idle"
  /\ driver' = "collect"
  /\ UNCHANGED <<world, results, failed, controlVars, outputVars, cloudVars,
                 analysisVars>>

Collectable(r) ==
  driver = "collect" /\ pc[r] = "over" /\ r \notin results \cup failed

\* A completed run is announced inside the try statement: when that fails,
\* its except clause counts the run as failed too, and fails in turn.
CollectReturned(r) ==
  /\ Collectable(r)
  /\ outcome[r] = "returned"
  /\ results' = results \cup {r}
  /\ failed' = IF world.pool => Writable THEN failed ELSE failed \cup {r}
  /\ Announce("collect")
  /\ UNCHANGED <<world, controlVars, outputVars, cloudVars, analysisVars>>

\* The concurrency command line catches Exception, not SystemExit.
CollectFailed(r) ==
  /\ Collectable(r)
  /\ outcome[r] \in {"raised", "exited"}
  /\ IF world.pool /\ outcome[r] = "raised"
     THEN failed' = failed \cup {r} /\ Announce("collect")
     ELSE driver' = "crashed" /\ UNCHANGED failed
  /\ UNCHANGED <<world, results, controlVars, outputVars, cloudVars, analysisVars>>

Finish ==
  /\ driver = "collect"
  /\ world.runs = results \cup failed
  /\ Announce("over")
  /\ UNCHANGED <<world, results, failed, controlVars, outputVars, cloudVars,
                 analysisVars>>

\* The process exits.
Stopped ==
  /\ driver \in {"over", "crashed"}
  /\ \A r \in Runs : pc[r] \in {"idle", "over"}
  /\ UNCHANGED vars

SetUp(r) ==
  \/ Open(r) \/ ResolveFails(r) \/ Swap(r)
  \/ Seed(r) \/ SeedFails(r) \/ Seeded(r)
  \/ ScaleUp(r) \/ ScaleUpFails(r)
  \/ Connect(r) \/ ConnectWithoutAnalyzer(r) \/ ConnectFails(r)

RunNode(r) ==
  \/ \E s \in Services : CallTool(r, s)
  \/ CallFails(r) \/ PrintFails(r) \/ ReplayEnds(r)

TearDown(r) ==
  \/ \E s \in Services : Erase(r, s) \/ EraseFailsOnS3(r, s)
  \/ CleanerRaises(r) \/ NoticeFails(r) \/ Cleaned(r)
  \/ ScaleDown(r) \/ ScaleDownFails(r)
  \/ SaveEvents(r) \/ SkipAnalysis(r) \/ Analyze(r) \/ AnalysisFails(r)
  \/ Restore(r) \/ Close(r) \/ Return(r) \/ LastPrintFails(r)

Next ==
  \/ \E r \in Runs :
       \/ SetUp(r) \/ RunNode(r) \/ TearDown(r)
       \/ Submit(r) \/ CollectReturned(r) \/ CollectFailed(r)
  \/ AnnounceSubmitted \/ Submitted \/ Finish \/ Stopped

Spec == Init /\ [][Next]_vars

-----------------------------------------------------------------------------
(* Properties *)

\* Every variable has a value of its kind; a run has an outcome when it is
\* over and not before, and its cleaner works on what is to be cleaned.
TypeOK ==
  /\ world \in Worlds
  /\ driver \in {"submit", "announce", "collect", "over", "crashed"}
  /\ results \cup failed \subseteq { r \in world.runs : pc[r] = "over" }
  /\ pc \in [Runs -> {"idle", "resolve", "swap", "seed", "scale", "connect",
                      "replay", "clean", "scale down", "analyze", "collect",
                      "restore", "close", "print", "over"}]
  /\ outcome \in [Runs -> {"none", "returned", "raised", "exited"}]
  /\ \A r \in Runs : outcome[r] = "none" <=> pc[r] # "over"
  /\ raised \cup closed \cup scaled \cup traceEnd \cup analyzer \subseteq Runs
  /\ fault \in [Runs -> SUBSET Faults]
  /\ stdout \in Seq(Runs)
  /\ original \in [Runs -> Seq(Runs)]
  /\ objects \subseteq Runs \X Services
  /\ \A r \in Runs : cleaned[r] \subseteq toclean[r] /\ toclean[r] \subseteq Services
  /\ runEnd \in [Runs -> {"none", "replay", "cleanup"}]
  /\ stamp \in [Runs -> Seconds]
  /\ events \in [Seconds -> Runs \cup {NoRun}]
  /\ report \in [Seconds -> Runs \cup {NoRun}]

Ended(r) == pc[r] = "over"

\* A run that returns to its caller has replayed its trace to the end,
\* recorded that end and not the end of the cleanup, written its report if
\* it had an analyzer, and left no snapshot but those the cleaner could not
\* erase: none of the nested finally clauses loses an exception on the way.
SuccessIsWhole ==
  \A r \in Runs :
    outcome[r] = "returned" =>
      /\ r \in traceEnd
      /\ r \in analyzer => runEnd[r] = "replay" /\ report[stamp[r]] # NoRun
      /\ (\E s \in Services : <<r, s>> \in objects) => "erase" \in fault[r]

\* A snapshot that outlives its run was written by a call that failed or by
\* a seeding that failed, or its run failed in set-up, or the cleaner did.
LeftObjects ==
  \A r \in Runs, s \in Services :
    Ended(r) /\ <<r, s>> \in objects =>
      IF s \in toclean[r]
      THEN fault[r] \cap {"setup", "erase", "print"} # {}
      ELSE fault[r] \cap {"seed", "call"} # {}

\* A provisioned instance outlives its run, and is billed, only if set-up
\* failed, or the cleaner raised before the configurations are deleted, or
\* their deletion failed.
ScalingHeld ==
  \A r \in Runs :
    Ended(r) /\ r \in scaled => fault[r] \cap {"setup", "erase", "scale"} # {}

\* Whatever fails, a run that has an analyzer leaves its events for a later
\* analysis, unless it is the cleaner that failed, be it in a print, or another
\* run started in the same second and took the file.
EventsSurvive ==
  \A r \in Runs :
    Ended(r) /\ r \in analyzer /\ fault[r] \cap {"erase", "notice"} = {} =>
      \E q \in Runs : stamp[q] = stamp[r] /\ events[stamp[r]] = q

\* A run fails because of a fault of its own, and never because of what
\* other runs of the process do.
OwnFaultsOnly ==
  \A r \in Runs : outcome[r] \in {"raised", "exited"} => fault[r] \ {"print", "notice"} # {}

\* The recorded end of a run is the end of its replay: the cleanup is not
\* part of run_user_e2e_ms.
EndExcludesCleanup == \A r \in Runs : runEnd[r] # "cleanup"

\* Of what the documents say of the runs of a pool - that they simulate users
\* apart from each other, that their ends exclude the cleanup - one thing at
\* least holds in every state.
RunClaims == OwnFaultsOnly \/ EndExcludesCleanup

=============================================================================
