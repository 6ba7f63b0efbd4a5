------------------------------- MODULE Migration -------------------------------
(***************************************************************************)
(* The migration command (cmd/migrate/main.go): up, down and baseline of   *)
(* the one version 000001_init_schema, run by any number of processes on   *)
(* one database, each of which may die between two of its statements.      *)
(*                                                                         *)
(* The SQL of a version is sent as one text without arguments, so          *)
(* PostgreSQL runs it in one transaction; its record in schema_migrations  *)
(* is another statement.  status changes nothing and is left out.          *)
(***************************************************************************)
EXTENDS Integers

CONSTANTS Run,           \* processes that run the command
          Checkout,      \* those started in a checkout of the repository
          Database,      \* the databases there may be: <<schema, recorded>>
          MaxFaults      \* bound: statements that fail, processes that die

Schema == {"none", "older", "full"}    \* older: of an earlier 000001
Command == {"up", "down", "baseline"}

ASSUME MigrationAssumption ==
    /\ Checkout \subseteq Run
    /\ Database \subseteq {d \in Schema \X BOOLEAN : d[2] => d[1] # "none"}
    /\ MaxFaults \in Nat

VARIABLES schema,        \* the tables that are there
          recorded,      \* schema_migrations has the version
          pc,            \* pc[m]: where run m is
          command,       \* command[m]: what it was asked to do
          result,        \* result[m]: how the last command of m ended
          faults,        \* faults so far
          lowered,       \* history: somebody has run down
          overlapped     \* history: two runs were under way at a time

database == <<schema, recorded>>
history == <<lowered, overlapped>>
migration == <<database, pc, command, result, faults, history>>

TypeOK ==
    /\ schema \in Schema
    /\ recorded \in BOOLEAN
    /\ pc \in [Run -> {"idle", "check", "execute", "tables", "record"}]
    /\ command \in [Run -> Command]
    /\ result \in [Run -> {"ok", "error"}]
    /\ faults \in 0..MaxFaults
    /\ lowered \in BOOLEAN
    /\ overlapped \in BOOLEAN

Init ==
    /\ \E d \in Database : schema = d[1] /\ recorded = d[2]
    /\ pc = [m \in Run |-> "idle"]
    /\ command = [m \in Run |-> "up"]
    /\ result = [m \in Run |-> "ok"]
    /\ faults = 0
    /\ lowered = FALSE
    /\ overlapped = FALSE

-----------------------------------------------------------------------------
Goto(m, at) ==
    /\ pc' = [pc EXCEPT ![m] = at]
    /\ UNCHANGED result

Exit(m, r) ==
    /\ pc' = [pc EXCEPT ![m] = "idle"]
    /\ result' = [result EXCEPT ![m] = r]

\* The configuration is loaded, the pool answers, and schema_migrations is there.
Start(m, c) ==
    /\ pc[m] = "idle"
    /\ command' = [command EXCEPT ![m] = c]
    /\ Goto(m, "check")
    /\ lowered' = (lowered \/ c = "down")
    /\ overlapped' = (overlapped \/ \E n \in Run \ {m} : pc[n] # "idle")
    /\ UNCHANGED <<database, faults>>

NothingToDo(m, applied) == IF command[m] = "down" THEN ~applied ELSE applied

\* readMigrationSQL looks in the working directory of the process.
FindsSQL(m) == m \in Checkout

\* What follows isApplied; baseline is allowed, or the command ends before it.
Decide(m, applied) ==
    IF NothingToDo(m, applied) THEN Exit(m, "ok")
    ELSE IF command[m] = "baseline" THEN Goto(m, "tables")
    ELSE IF FindsSQL(m) THEN Goto(m, "execute")
    ELSE Exit(m, "error")

IsApplied(m) ==
    /\ pc[m] = "check"
    /\ Decide(m, recorded)
    /\ UNCHANGED <<database, command, faults, history>>

\* An error of the query counts as "not applied".
IsAppliedFails(m) ==
    /\ pc[m] = "check"
    /\ faults < MaxFaults
    /\ faults' = faults + 1
    /\ Decide(m, FALSE)
    /\ UNCHANGED <<database, command, history>>

\* The up SQL fails on types that exist; the down SQL drops what is there.
Execute(m) ==
    /\ pc[m] = "execute"
    /\ IF command[m] = "up" /\ schema # "none"
       THEN /\ Exit(m, "error")
            /\ UNCHANGED schema
       ELSE /\ Goto(m, "record")
            /\ schema' = IF command[m] = "up" THEN "full" ELSE "none"
    /\ UNCHANGED <<recorded, command, faults, history>>

\* Mutant: baseline believes the operator.
TablesUnchecked == TRUE

\* requiredTables: an older schema has them too.
TablesExist == schema # "none"

CheckTables(m) ==
    /\ pc[m] = "tables"
    /\ IF TablesExist THEN Goto(m, "record") ELSE Exit(m, "error")
    /\ UNCHANGED <<database, command, faults, history>>

\* INSERT ... ON CONFLICT DO NOTHING, or DELETE
Record(m) ==
    /\ pc[m] = "record"
    /\ recorded' = (command[m] # "down")
    /\ Exit(m, "ok")
    /\ UNCHANGED <<schema, command, faults, history>>

\* A statement fails, the 30 seconds are over, or the process is killed.
Dies(m) ==
    /\ pc[m] # "idle"
    /\ faults < MaxFaults
    /\ faults' = faults + 1
    /\ Exit(m, "error")
    /\ UNCHANGED <<database, command, history>>

Progress(m) == IsApplied(m) \/ Execute(m) \/ CheckTables(m) \/ Record(m)

Next ==
    \E m \in Run :
        \/ \E c \in Command : Start(m, c)
        \/ Progress(m) \/ IsAppliedFails(m) \/ Dies(m)

Spec == Init /\ [][Next]_migration

-----------------------------------------------------------------------------
\* A version that is recorded is there.  Runs that overlap or die cannot break it
\* as long as nobody runs down, and down cannot as long as no run overlaps
\* another or fails: it takes both, a down and a race or a failure, to leave a
\* record of a schema that is not there, which every later up believes
\* (cmd/migrate/main.go:64).
RecordIsTrue ==
    \/ lowered /\ (overlapped \/ faults > 0 \/ \E m \in Run : pc[m] # "idle")
    \/ recorded => schema # "none"
===============================================================================
