--------------------------- MODULE AccessScheduler ---------------------------
(***************************************************************************)
(* The client-side lock table of atsuite/scheduler.py.  The coordinator of *)
(* a replay asks CanStart for a tool call, records Acquire when it submits *)
(* the call and Release when it has collected the call's future.  A domain *)
(* has any number of readers or one writer ("w" and "rw" are the same to   *)
(* the table).                                                             *)
(*                                                                         *)
(* The table belongs to one thread, the coordinator, so its operations are *)
(* atomic.  A table that is not enabled (session targets) admits           *)
(* everything and records nothing.                                         *)
(***************************************************************************)
EXTENDS ToolAccess, Naturals

VARIABLES
  readers,   (* AccessScheduler._readers; an absent key is a count of 0.   *)
  writers    (* AccessScheduler._writers.                                  *)

TableInit ==
  /\ readers = [d \in Domains |-> 0]
  /\ writers = {}

TableTypeOK ==
  /\ readers \in [Domains -> Nat]
  /\ writers \subseteq Domains

\* Variant: a writer looks for other writers only.
CanStartNoReaders(enabled, a) ==
  enabled /\ IsStateful(a) => a.domain \notin writers

CanStart(enabled, a) ==
  enabled /\ IsStateful(a) =>
    /\ a.domain \notin writers
    /\ Writes(a) => readers[a.domain] = 0

\* AccessScheduler.start; the RuntimeError it raises on a conflict is the
\* guard here, and Replay only calls it behind the same test.
Acquire(enabled, a) ==
  /\ CanStart(enabled, a)
  /\ readers' = IF enabled /\ Reads(a)
                THEN [readers EXCEPT ![a.domain] = @ + 1] ELSE readers
  /\ writers' = IF enabled /\ Writes(a)
                THEN writers \cup {a.domain} ELSE writers

\* Variant: one reader's finish drops the whole count.
ReleaseAllReaders(enabled, a) ==
  /\ readers' = IF enabled /\ Reads(a)
                THEN [readers EXCEPT ![a.domain] = 0] ELSE readers
  /\ writers' = IF enabled /\ Writes(a)
                THEN writers \ {a.domain} ELSE writers

\* Variant: the last reader's key is kept.
ReleaseKeepsLast(enabled, a) ==
  /\ readers' = IF enabled /\ Reads(a)
                THEN [readers EXCEPT ![a.domain] = IF @ <= 1 THEN @ ELSE @ - 1]
                ELSE readers
  /\ writers' = IF enabled /\ Writes(a)
                THEN writers \ {a.domain} ELSE writers

\* Variant: the writer is never discarded.
ReleaseKeepsWriter(enabled, a) ==
  /\ readers' = IF enabled /\ Reads(a)
                THEN [readers EXCEPT ![a.domain] = IF @ <= 1 THEN 0 ELSE @ - 1]
                ELSE readers
  /\ writers' = writers

\* AccessScheduler.finish: the last reader's key is dropped.
Release(enabled, a) ==
  /\ readers' = IF enabled /\ Reads(a)
                THEN [readers EXCEPT ![a.domain] = IF @ <= 1 THEN 0 ELSE @ - 1]
                ELSE readers
  /\ writers' = IF enabled /\ Writes(a)
                THEN writers \ {a.domain} ELSE writers

=============================================================================
