----------------------------- MODULE ToolAccess -----------------------------
(***************************************************************************)
(* The access declared for a tool call (class ToolAccess of                *)
(* atsuite/scheduler.py): a state domain and a mode.                       *)
(***************************************************************************)
CONSTANTS
  Domains,   (* The state domains named by the benchmark's configuration.  *)
  NoDomain   (* The empty domain name.                                     *)

ASSUME NoDomainAssumption == NoDomain \notin Domains

Modes == {"stateless", "r", "w", "rw"}

\* What ToolAccess.from_values returns: a stateless access loses its domain.
Accesses ==
  { a \in [domain : Domains \cup {NoDomain}, mode : Modes] :
      a.mode = "stateless" => a.domain = NoDomain }

NoAccess == [domain |-> NoDomain, mode |-> "stateless"]

IsStateful(a) == a.mode # "stateless" /\ a.domain # NoDomain

Reads(a)  == IsStateful(a) /\ a.mode = "r"
Writes(a) == IsStateful(a) /\ a.mode # "r"

\* Two accesses that may not be in progress together: the same domain, and
\* at least one of them a writer.
Conflict(a, b) ==
  /\ IsStateful(a) /\ IsStateful(b)
  /\ a.domain = b.domain
  /\ ~(Reads(a) /\ Reads(b))

=============================================================================
