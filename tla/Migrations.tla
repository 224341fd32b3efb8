----------------------------- MODULE Migrations -----------------------------
(***************************************************************************)
(* The start of a replica: migrate.Runner (pkg/migrate/migrate.go) brings  *)
(* the global index database up to date before the HTTP server listens.    *)
(* Every replica runs it, without a lock, against the same database; a     *)
(* migration and its row in schema_migrations are two statements.          *)
(***************************************************************************)
EXTENDS Naturals, FiniteSets

CONSTANTS Replicas,
          Files,       \* the number of migration files, in version order
          Rebuilds,    \* those that drop a table and create it (011)
          Conflicts,   \* pairs <<v, w>>: v can fail once w has taken effect
          MaxRows,     \* bound on the rows of the users table
          MaxFaults    \* bound on crashes and failed statements

ASSUME MigrationsAssumption ==
  /\ Files \in Nat /\ MaxRows \in Nat /\ MaxFaults \in Nat
  /\ Rebuilds \subseteq 1..Files
  /\ Conflicts \subseteq (1..Files) \X (1..Files)

VARIABLES
  inSchema,   \* the migrations whose effect is in the database
  recorded,   \* the table schema_migrations
  rows,       \* rows of the table that a rebuild drops
  pc,         \* what each replica does next
  applied,    \* its copy of schema_migrations, read once
  next,       \* the file it has come to
  faults

vars == <<inSchema, recorded, rows, pc, applied, next, faults>>

Versions == 1..Files

Fault == faults < MaxFaults /\ faults' = faults + 1

\* The process is gone: main exits when server.New fails.
Exit(r) ==
  /\ pc'      = [pc      EXCEPT ![r] = "down"]
  /\ applied' = [applied EXCEPT ![r] = {}]
  /\ next'    = [next    EXCEPT ![r] = 1]

\* ensureMigrationTable and getApplied, of a process that has just started.
GetApplied(r) ==
  /\ pc[r] = "down"
  /\ pc'      = [pc      EXCEPT ![r] = "apply"]
  /\ applied' = [applied EXCEPT ![r] = recorded]
  /\ UNCHANGED <<inSchema, recorded, rows, next, faults>>

\* Mutant of Skip: the increment is repeated by the loop.
SkipTwice(r) ==
  /\ pc[r] = "apply" /\ next[r] \in applied[r]
  /\ next' = [next EXCEPT ![r] = @ + 2]
  /\ UNCHANGED <<inSchema, recorded, rows, pc, applied, faults>>

\* Mutant of Skip: the increment is left out.
SkipNothing(r) ==
  /\ pc[r] = "apply" /\ next[r] \in applied[r]
  /\ UNCHANGED vars

\* Run skips the files that were recorded when it read the table.
Skip(r) ==
  /\ pc[r] = "apply" /\ next[r] \in applied[r]
  /\ next' = [next EXCEPT ![r] = @ + 1]
  /\ UNCHANGED <<inSchema, recorded, rows, pc, applied, faults>>

\* The files that are in the way of v, now that they have taken effect.
InTheWayOf(v) == {w \in inSchema : <<v, w>> \in Conflicts}

(***************************************************************************)
(* applyMigration: one multi-statement Exec, all of it or nothing.  A file *)
(* that is in its own way (016 renames a column) always fails; one that a  *)
(* later file is in the way of (013 drops a column 001 indexes, 016        *)
(* renames the one 010 fills) may, as another stale replica may have put   *)
(* back what it needs (009 the column of 010).                             *)
(***************************************************************************)
ApplyMigration(r) ==
  LET v == next[r] IN
  /\ pc[r] = "apply" /\ v \in Versions \ applied[r]
  /\ \/ /\ InTheWayOf(v) # {}
        /\ Exit(r)
        /\ UNCHANGED <<inSchema, rows>>
     \/ /\ v \notin InTheWayOf(v)
        /\ inSchema' = inSchema \cup {v}
        /\ rows' = IF v \in Rebuilds THEN 0 ELSE rows
        /\ pc' = [pc EXCEPT ![r] = "record"]
        /\ UNCHANGED <<applied, next>>
  /\ UNCHANGED <<recorded, faults>>

\* Mutant of RecordApplied: the row of the first file is written each time.
RecordFirst(r) ==
  /\ pc[r] = "record"
  /\ recorded' = recorded \cup {1}
  /\ pc'   = [pc   EXCEPT ![r] = "apply"]
  /\ next' = [next EXCEPT ![r] = @ + 1]
  /\ UNCHANGED <<inSchema, rows, applied, faults>>

\* Mutant of RecordApplied: all files up to the last are recorded at once.
RecordAll(r) ==
  /\ pc[r] = "record"
  /\ recorded' = Versions
  /\ pc'   = [pc   EXCEPT ![r] = "apply"]
  /\ next' = [next EXCEPT ![r] = @ + 1]
  /\ UNCHANGED <<inSchema, rows, applied, faults>>

RecordApplied(r) ==
  /\ pc[r] = "record"
  /\ recorded' = recorded \cup {next[r]}
  /\ pc'   = [pc   EXCEPT ![r] = "apply"]
  /\ next' = [next EXCEPT ![r] = @ + 1]
  /\ UNCHANGED <<inSchema, rows, applied, faults>>

\* A statement fails, or the process dies.
Crash(r) ==
  /\ pc[r] # "down"
  /\ Fault
  /\ Exit(r)
  /\ UNCHANGED <<inSchema, recorded, rows>>

Listen(r) ==
  /\ pc[r] = "apply" /\ next[r] > Files
  /\ pc' = [pc EXCEPT ![r] = "serving"]
  /\ UNCHANGED <<inSchema, recorded, rows, applied, next, faults>>

\* A request stores a row.
Serve(r) ==
  /\ pc[r] = "serving" /\ rows < MaxRows
  /\ rows' = rows + 1
  /\ UNCHANGED <<inSchema, recorded, pc, applied, next, faults>>

Init ==
  /\ inSchema = {} /\ recorded = {} /\ rows = 0
  /\ pc = [r \in Replicas |-> "down"]
  /\ applied = [r \in Replicas |-> {}]
  /\ next = [r \in Replicas |-> 1]
  /\ faults = 0

Migrate(r) ==
  GetApplied(r) \/ Skip(r) \/ ApplyMigration(r) \/ RecordApplied(r) \/ Listen(r)

Next == \E r \in Replicas : Migrate(r) \/ Serve(r) \/ Crash(r)

Spec == Init /\ [][Next]_vars

\* Fairness: the orchestrator starts a replica that is down, and it runs on.
FairSpec == Spec /\ \A r \in Replicas : WF_vars(Migrate(r))

-----------------------------------------------------------------------------
\* Every variable has its type, and a replica that is about to record a
\* migration has applied it.
TypeOK ==
  /\ inSchema \subseteq Versions /\ recorded \subseteq Versions
  /\ rows \in 0..MaxRows
  /\ pc \in [Replicas -> {"down", "apply", "record", "serving"}]
  /\ applied \in [Replicas -> SUBSET Versions]
  /\ next \in [Replicas -> 1..(Files + 1)]
  /\ \A r \in Replicas : pc[r] = "record" => next[r] \in inSchema \ applied[r]
  /\ faults \in 0..MaxFaults

(***************************************************************************)
(* The migrations take effect in version order, each after the ones before *)
(* it are recorded, also when two replicas run them at once and die in     *)
(* between, and no replica serves before the last has taken effect.        *)
(***************************************************************************)
InOrder ==
  /\ recorded \subseteq inSchema
  /\ \A v \in inSchema : 1..(v - 1) \subseteq recorded
  /\ \A r \in Replicas : pc[r] = "serving" => inSchema = Versions

(***************************************************************************)
(* Rows are lost to a rebuild only when a replica works from a copy of     *)
(* schema_migrations that another has overtaken.  A crash, also one        *)
(* between a migration and its row, does not cost any.                     *)
(***************************************************************************)
RowsLostToStaleCopy ==
  [][rows' < rows =>
       \E r \in Replicas :
         pc[r] = "apply" /\ next[r] \in recorded \ applied[r]]_vars

(***************************************************************************)
(* The inductive invariant behind InOrder and RowsLostToStaleCopy: what a  *)
(* replica has behind it is recorded, which no step undoes, and rows exist *)
(* only after some replica has come to the end.                            *)
(***************************************************************************)
Behind(r) == 1..(next[r] - 1) \subseteq recorded

ReplicaInv ==
  \A r \in Replicas :
    /\ applied[r] \subseteq recorded
    /\ pc[r] \in {"apply", "record"} => Behind(r)
    /\ pc[r] = "down" => next[r] = 1
    /\ pc[r] = "serving" => recorded = Versions

RowsInv == rows > 0 => recorded = Versions

Inv == TypeOK /\ InOrder /\ ReplicaInv /\ RowsInv

\* A migration that cannot run again took effect and was not recorded, and
\* the process that ran it is gone.
Wedged ==
  \E v \in inSchema \ recorded :
    /\ <<v, v>> \in Conflicts
    /\ \A r \in Replicas : pc[r] = "record" => next[r] # v

(***************************************************************************)
(* Restarting repairs every crash and every collision of two replicas but  *)
(* one: a crash between such a migration and its row.                      *)
(***************************************************************************)
StartsUpUnlessWedged ==
  \A r \in Replicas : []<>(pc[r] = "serving" \/ Wedged)
=============================================================================
