------------------------------- MODULE Migrate -------------------------------
(***************************************************************************)
(* db.Migrate (internal/db/db.go): the embedded scripts are applied in the *)
(* order of their names, and each is recorded in schema_migrations by a    *)
(* statement of its own.  `harness run' and `harness migrate' both do it,  *)
(* and may do it at once.                                                  *)
(*                                                                         *)
(* A script is a transaction that creates tables without IF NOT EXISTS, as *)
(* migrations/0001_init.sql is: it takes effect as a whole, and fails when *)
(* it already did; of two at once the second waits and fails.              *)
(***************************************************************************)
EXTENDS Integers, Sequences

CONSTANTS Scripts,     \* file names in lexical order
          Runners,     \* the processes that may migrate
          Faults       \* "db", "ack", "crash": what may go wrong

VARIABLES applied,     \* the scripts whose tables exist
          recorded,    \* schema_migrations
          pc,          \* runner -> "idle", "check", "apply", "record" or "done"
          at           \* runner -> the position of its script

schemaVars == <<applied, recorded>>
migrateVars == <<applied, recorded, pc, at>>

MigrateInit ==
    /\ applied = {} /\ recorded = {}
    /\ pc = [r \in Runners |-> "idle"]
    /\ at = [r \in Runners |-> 1]

Goes(r, to, position) == /\ pc' = [pc EXCEPT ![r] = to]
                         /\ at' = [at EXCEPT ![r] = position]

\* Migrate returns an error, and the process ends with it.
GivesUp(r) == Goes(r, "idle", 1)

\* The pool is there and schema_migrations exists.
BeginMigrate(r) ==
    /\ pc[r] = "idle"
    /\ Goes(r, "check", 1)
    /\ UNCHANGED schemaVars

Script(r) == Scripts[at[r]]

\* SELECT EXISTS, for the next script.
CheckRecorded(r) ==
    /\ pc[r] = "check"
    /\ \/ /\ at[r] > Len(Scripts)
          /\ Goes(r, "done", at[r])
       \/ /\ at[r] <= Len(Scripts) /\ Script(r) \in recorded
          /\ Goes(r, "check", at[r] + 1)
       \/ /\ at[r] <= Len(Scripts) /\ Script(r) \notin recorded
          /\ Goes(r, "apply", at[r])
       \/ /\ at[r] <= Len(Scripts) /\ "db" \in Faults
          /\ GivesUp(r)
    /\ UNCHANGED schemaVars

\* Exec of the script: it runs, fails, or runs and is reported as failed.  One
\* message carries the script with its own BEGIN and COMMIT: the server ends it
\* whatever becomes of the runner, so the lock behind which a second script
\* waits is held only while the server runs the first.
ApplyScript(r) ==
    /\ pc[r] = "apply"
    /\ \/ /\ Script(r) \notin applied
          /\ applied' = applied \cup {Script(r)}
          /\ Goes(r, "record", at[r]) \/ ("ack" \in Faults /\ GivesUp(r))
       \/ /\ Script(r) \in applied \/ "db" \in Faults
          /\ GivesUp(r)
          /\ UNCHANGED applied
    /\ UNCHANGED recorded

\* Mutant: an error of the INSERT is passed over.
RecordSkipped(r) ==
    /\ pc[r] = "record"
    /\ Goes(r, "check", at[r] + 1)
    /\ \/ recorded' = recorded \cup {Script(r)}
       \/ "db" \in Faults /\ UNCHANGED recorded
    /\ UNCHANGED applied

\* INSERT INTO schema_migrations; the version is its primary key.
RecordScript(r) ==
    /\ pc[r] = "record"
    /\ \/ /\ Script(r) \notin recorded
          /\ recorded' = recorded \cup {Script(r)}
          /\ Goes(r, "check", at[r] + 1) \/ ("ack" \in Faults /\ GivesUp(r))
       \/ /\ Script(r) \in recorded \/ "db" \in Faults
          /\ GivesUp(r)
          /\ UNCHANGED recorded
    /\ UNCHANGED applied

\* The process is killed.
Killed(r) ==
    /\ "crash" \in Faults /\ pc[r] # "idle"
    /\ GivesUp(r)
    /\ UNCHANGED schemaVars

\* The runner goes on, with a schema that is up to date.
Migrated(r) ==
    /\ pc[r] = "done"
    /\ Goes(r, "idle", 1)
    /\ UNCHANGED schemaVars

Migrating(r) == CheckRecorded(r) \/ ApplyScript(r) \/ RecordScript(r)

-----------------------------------------------------------------------------
\* Type of the runners' state.
MigrateTypeOK ==
    /\ applied \subseteq {Scripts[i] : i \in DOMAIN Scripts}
    /\ recorded \subseteq {Scripts[i] : i \in DOMAIN Scripts}
    /\ pc \in [Runners -> {"idle", "check", "apply", "record", "done"}]
    /\ at \in [Runners -> 1 .. Len(Scripts) + 1]
    /\ \A r \in Runners : pc[r] \in {"apply", "record"} => at[r] \in DOMAIN Scripts

First(n) == {Scripts[i] : i \in 1 .. n}

\* "applies every embedded migration that has not been applied yet, in lexical
\* filename order" (db.go:37), with two runners, failures and crashes: the
\* schema is always that of the first n scripts, all of them recorded but
\* perhaps the last.
SchemaInOrder ==
    \E n \in 0 .. Len(Scripts) :
        /\ applied = First(n)
        /\ recorded = First(n) \/ (n > 0 /\ recorded = First(n - 1))
==============================================================================
