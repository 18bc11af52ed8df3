----------------------------- MODULE Migrations -----------------------------
(***************************************************************************)
(* npm run db:migrate, run at every deployment, by several processes at    *)
(* once when several instances are deployed: each reads which files are    *)
(* recorded, and then runs the missing ones in order, every file and its   *)
(* record in one transaction.  The files guard most statements with IF NOT *)
(* EXISTS, so a file run twice need not fail; what decides is the primary  *)
(* key of schema_migrations.                                               *)
(***************************************************************************)
EXTENDS Integers, FiniteSets

CONSTANTS Migrators,  \* processes
          Files       \* 1..n in the order of their names

ASSUME FilesAssumption == Files \subseteq Nat \ {0}

VARIABLES recorded,  \* committed rows of schema_migrations
          effects,   \* how often the statements of each file were committed
          place,     \* where each process is
          applied,   \* what it read at its start
          file       \* the file it works on

migrationVars == <<recorded, effects, place, applied, file>>

MigrateInit ==
  /\ recorded = {}
  /\ effects = [f \in Files |-> 0]
  /\ place = [p \in Migrators |-> "start"]
  /\ applied = [p \in Migrators |-> {}]
  /\ file = [p \in Migrators |-> 0]

Go(p, from, to) == place[p] = from /\ place' = [place EXCEPT ![p] = to]

ReadApplied(p) ==
  /\ Go(p, "start", "next")
  /\ applied' = [applied EXCEPT ![p] = recorded]
  /\ file' = [file EXCEPT ![p] = 0]
  /\ UNCHANGED <<recorded, effects>>

Missing(p) == {f \in Files \ applied[p] : f > file[p]}

\* The next file of the loop, in a new transaction.
BeginFile(p) ==
  /\ Go(p, "next", "sql")
  /\ \E f \in Missing(p) :
       (\A g \in Missing(p) : f <= g) /\ file' = [file EXCEPT ![p] = f]
  /\ UNCHANGED <<recorded, effects, applied>>

EndLoop(p) ==
  /\ Go(p, "next", "done") /\ Missing(p) = {}
  /\ UNCHANGED <<recorded, effects, applied, file>>

\* The statements of a file lock what they create or alter.
SqlLocked(p) ==
  \E q \in Migrators \ {p} : file[q] = file[p] /\ place[q] \in {"record", "commit"}

\* A file may fail: it collides with what another process has done meanwhile.
RunSql(p) ==
  /\ ~SqlLocked(p)
  /\ \/ Go(p, "sql", "record")
     \/ Go(p, "sql", "rollback")
  /\ UNCHANGED <<recorded, effects, applied, file>>

\* Mutant: on conflict do nothing.
RecordAgain(p) ==
  /\ Go(p, "record", "commit")
  /\ UNCHANGED <<recorded, effects, applied, file>>

\* The primary key refuses a file that is recorded already.
Record(p) ==
  /\ \/ Go(p, "record", "commit") /\ file[p] \notin recorded
     \/ Go(p, "record", "rollback") /\ file[p] \in recorded
  /\ UNCHANGED <<recorded, effects, applied, file>>

CommitBoth(p) ==
  /\ recorded' = recorded \cup {file[p]}
  /\ effects' = [effects EXCEPT ![file[p]] = @ + 1]
  /\ UNCHANGED <<applied, file>>

Commit(p) == Go(p, "commit", "next") /\ CommitBoth(p)

\* Mutant: the failure is logged and the loop goes on.
RollbackAndGoOn(p) ==
  /\ Go(p, "rollback", "next")
  /\ UNCHANGED <<recorded, effects, applied, file>>

\* "throw err": the process ends.
Rollback(p) ==
  /\ Go(p, "rollback", "failed")
  /\ UNCHANGED <<recorded, effects, applied, file>>

\* The process is killed, or its connection lost: the transaction is rolled
\* back, unless it was the answer of COMMIT that was lost.
Kill(p) ==
  /\ \E from \in {"next", "sql", "record", "commit"} : Go(p, from, "failed")
  /\ \/ UNCHANGED <<recorded, effects, applied, file>>
     \/ place[p] = "commit" /\ CommitBoth(p)

\* The next deployment runs it again.
Deploy(p) ==
  /\ \E from \in {"done", "failed"} : Go(p, from, "start")
  /\ UNCHANGED <<recorded, effects, applied, file>>

MigrateNext ==
  \E p \in Migrators :
    \/ ReadApplied(p) \/ BeginFile(p) \/ EndLoop(p)
    \/ RunSql(p) \/ Record(p) \/ Commit(p) \/ Rollback(p)
    \/ Kill(p) \/ Deploy(p)

MigrateSpec == MigrateInit /\ [][MigrateNext]_migrationVars

-----------------------------------------------------------------------------
(* Properties *)

\* Whatever is killed and whoever else migrates, the statements of a file take
\* effect once, and never those of a file without those of the files before it.
MigratedInOrder ==
  \A f \in Files : /\ effects[f] = (IF f \in recorded THEN 1 ELSE 0)
                   /\ f \in recorded => \A g \in Files : g < f => g \in recorded

\* A process that ends well leaves a schema that is complete.
DoneMeansMigrated == \A p \in Migrators : place[p] = "done" => recorded = Files
=============================================================================
