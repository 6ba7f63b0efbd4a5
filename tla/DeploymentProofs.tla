---------------------------- MODULE DeploymentProofs ----------------------------
(***************************************************************************)
(* Proofs about Deployment, for any number of runs of the migration        *)
(* command, any set of databases and configurations and any number of      *)
(* faults: a record of the schema is true, an API that serves has a        *)
(* schema, and a configuration that is accepted can be built.  At the end: *)
(* on a fresh database no deployment is completed and no API serves.       *)
(***************************************************************************)
EXTENDS Deployment, TLAPS

\* baseline runs no SQL of a version.
SQLRuns == \A m \in Run : pc[m] = "execute" => command[m] # "baseline"

\* As long as nobody runs down, what is recorded or about to be is there.
UpOnly ==
    ~lowered =>
        /\ recorded => schema # "none"
        /\ \A m \in Run : pc[m] = "record" => schema # "none"
        /\ \A m \in Run : pc[m] # "idle" => command[m] # "down"

\* As long as no runs overlap there is one at a time.
OneAtATime ==
    ~overlapped => \A m, n \in Run : pc[m] # "idle" /\ pc[n] # "idle" => m = n

\* As long as no runs overlap and none has failed, a record without a schema is
\* about to be deleted.
AboutToAgree ==
    ~overlapped /\ faults = 0 =>
        /\ \A m \in Run : pc[m] = "record" /\ command[m] # "down" => schema # "none"
        /\ recorded /\ schema = "none" =>
              \E m \in Run : pc[m] = "record" /\ command[m] = "down"

\* The script goes on only after an up that has found or made the schema.
ScriptKnows ==
    /\ script = "migrate" => command[Script] = "up"
    /\ ~lowered /\ script = "migrate" /\ pc[Script] = "idle" /\ result[Script] = "ok"
          => schema # "none"
    /\ ~lowered /\ script \in {"start", "wait", "smoke"} => schema # "none"
    /\ ~lowered /\ (phase # "off" \/ listening) => schema # "none"

\* The API's container has a configuration of some deployment, and what is behind
\* Load has been accepted.
Configured ==
    /\ envFile \in Environments
    /\ config \in Environments
    /\ phase = "build" => Accepted(config)
    /\ phase = "connect" => Accepted(config)
    /\ exit = "build" => Accepted(config) /\ ~Builds(config)

MigrationInv == TypeOK /\ SQLRuns /\ UpOnly /\ OneAtATime /\ AboutToAgree
IInv == MigrationInv /\ ScriptKnows /\ Configured

-----------------------------------------------------------------------------
(* The migration command.                                                  *)

\* A step of the migration command, by whichever process.
MigrationStep(m) ==
    (\E c \in Command : Start(m, c)) \/ Progress(m) \/ IsAppliedFails(m) \/ Dies(m)

LEMMA MigrationInit == Init => MigrationInv
<1> SUFFICES ASSUME Init PROVE MigrationInv
  OBVIOUS
<1>1. PICK d \in Database : schema = d[1] /\ recorded = d[2]
  BY DEF Init
<1>2. d \in Schema \X BOOLEAN /\ (d[2] => d[1] # "none")
  BY MigrationAssumption
<1>3. schema \in Schema /\ recorded \in BOOLEAN /\ (recorded => schema # "none")
  BY <1>1, <1>2
<1>4. TypeOK
  <2>1. faults \in 0..MaxFaults  BY MigrationAssumption DEF Init
  <2>2. QED  BY <1>3, <2>1 DEF Init, TypeOK, Command
<1>5. SQLRuns /\ UpOnly /\ OneAtATime /\ AboutToAgree
  BY <1>3 DEF Init, SQLRuns, UpOnly, OneAtATime, AboutToAgree
<1>6. QED  BY <1>4, <1>5 DEF MigrationInv

\* Every step of the command keeps its invariant.
LEMMA MigrationKept ==
  ASSUME MigrationInv, NEW m \in Run, MigrationStep(m)
  PROVE  MigrationInv'
<1> USE MigrationAssumption DEF MigrationInv, TypeOK, Schema, Command
<1>1. CASE \E c \in Command : Start(m, c)
  <2>1. PICK c \in Command : Start(m, c)  BY <1>1
  <2>2. TypeOK'  BY <2>1 DEF Start, Goto, database
  <2>3. UpOnly'  BY <2>1 DEF Start, Goto, database, UpOnly
  <2>4. OneAtATime'  BY <2>1 DEF Start, Goto, OneAtATime
  <2>5. AboutToAgree'  BY <2>1 DEF Start, Goto, database, AboutToAgree
  <2>6. SQLRuns'  BY <2>1 DEF Start, Goto, SQLRuns
  <2>7. QED  BY <2>2, <2>3, <2>4, <2>5, <2>6
<1>2. CASE IsApplied(m)
  <2> USE <1>2 DEF IsApplied, Decide, NothingToDo, Exit, Goto, database, history
  <2>1. TypeOK'  OBVIOUS
  <2>2. UpOnly'  BY DEF UpOnly
  <2>3. OneAtATime'  BY DEF OneAtATime
  <2>4. AboutToAgree'  BY DEF AboutToAgree, OneAtATime
  <2>5. SQLRuns'  BY DEF SQLRuns
  <2>6. QED  BY <2>1, <2>2, <2>3, <2>4, <2>5
<1>3. CASE IsAppliedFails(m)
  <2> USE <1>3 DEF IsAppliedFails, Decide, NothingToDo, Exit, Goto, database, history
  <2>1. TypeOK'  OBVIOUS
  <2>2. UpOnly'  BY DEF UpOnly
  <2>3. OneAtATime'  BY DEF OneAtATime
  <2>4. AboutToAgree'  BY DEF AboutToAgree
  <2>5. SQLRuns'  BY DEF SQLRuns
  <2>6. QED  BY <2>1, <2>2, <2>3, <2>4, <2>5
<1>4. CASE Execute(m)
  <2> USE <1>4 DEF Execute, Exit, Goto, history
  <2>1. TypeOK'  OBVIOUS
  <2>2. UpOnly'  BY DEF UpOnly, SQLRuns
  <2>3. OneAtATime'  BY DEF OneAtATime
  <2>4. AboutToAgree'  BY DEF AboutToAgree, SQLRuns, OneAtATime
  <2>5. SQLRuns'  BY DEF SQLRuns
  <2>6. QED  BY <2>1, <2>2, <2>3, <2>4, <2>5
<1>5. CASE CheckTables(m)
  <2> USE <1>5 DEF CheckTables, TablesExist, Exit, Goto, database, history
  <2>1. TypeOK'  OBVIOUS
  <2>2. UpOnly'  BY DEF UpOnly
  <2>3. OneAtATime'  BY DEF OneAtATime
  <2>4. AboutToAgree'  BY DEF AboutToAgree, OneAtATime
  <2>5. SQLRuns'  BY DEF SQLRuns
  <2>6. QED  BY <2>1, <2>2, <2>3, <2>4, <2>5
<1>6. CASE Record(m)
  <2> USE <1>6 DEF Record, Exit, history
  <2>1. TypeOK'  OBVIOUS
  <2>2. UpOnly'  BY DEF UpOnly
  <2>3. OneAtATime'  BY DEF OneAtATime
  <2>4. AboutToAgree'  BY DEF AboutToAgree, OneAtATime
  <2>5. SQLRuns'  BY DEF SQLRuns
  <2>6. QED  BY <2>1, <2>2, <2>3, <2>4, <2>5
<1>7. CASE Dies(m)
  <2> USE <1>7 DEF Dies, Exit, database, history
  <2>1. TypeOK'  OBVIOUS
  <2>2. UpOnly'  BY DEF UpOnly
  <2>3. OneAtATime'  BY DEF OneAtATime
  <2>4. AboutToAgree'  BY DEF AboutToAgree
  <2>5. SQLRuns'  BY DEF SQLRuns
  <2>6. QED  BY <2>1, <2>2, <2>3, <2>4, <2>5
<1>8. QED
  BY <1>1, <1>2, <1>3, <1>4, <1>5, <1>6, <1>7 DEF MigrationStep, Progress

\* A fault of anybody else, or a step of the API or the script, keeps it too.
LEMMA MigrationUntouched ==
  ASSUME MigrationInv, UNCHANGED untouched, faults' \in faults..MaxFaults
  PROVE  MigrationInv'
<1> USE MigrationAssumption DEF MigrationInv, untouched, database, history
<1>1. TypeOK'  BY DEF TypeOK
<1>2. UpOnly'  BY DEF UpOnly
<1>3. OneAtATime'  BY DEF OneAtATime
<1>4. AboutToAgree'  BY DEF AboutToAgree, TypeOK
<1>5. SQLRuns'  BY DEF SQLRuns
<1>6. QED  BY <1>1, <1>2, <1>3, <1>4, <1>5

\* Nobody but down takes a schema away.
LEMMA SchemaStays ==
  ASSUME MigrationInv, NEW m \in Run, MigrationStep(m), ~lowered', schema # "none"
  PROVE  schema' # "none" /\ ~lowered
<1> USE DEF MigrationInv, TypeOK, Schema, Command, database, history
<1>1. CASE \E c \in Command : Start(m, c)
  BY <1>1 DEF Start
<1>2. CASE Execute(m)
  BY <1>2 DEF Execute, UpOnly, SQLRuns
<1>3. CASE IsApplied(m) \/ IsAppliedFails(m) \/ CheckTables(m) \/ Record(m) \/ Dies(m)
  BY <1>3 DEF IsApplied, IsAppliedFails, CheckTables, Record, Dies
<1>4. QED  BY <1>1, <1>2, <1>3 DEF MigrationStep, Progress

\* An up outside of a checkout that ends well has found the schema recorded.
LEMMA UpTellsTheTruth ==
  ASSUME MigrationInv, NEW m \in Run \ Checkout, Progress(m) \/ IsAppliedFails(m) \/ Dies(m),
         command[m] = "up", ~lowered', pc'[m] = "idle", result'[m] = "ok"
  PROVE  schema' # "none"
<1> USE DEF MigrationInv, TypeOK, Exit, Goto, database, history
<1>1. CASE IsApplied(m)
  BY <1>1 DEF IsApplied, Decide, NothingToDo, FindsSQL, UpOnly
<1>2. CASE IsAppliedFails(m)
  BY <1>2 DEF IsAppliedFails, Decide, NothingToDo, FindsSQL
<1>3. CASE Execute(m)
  BY <1>3 DEF Execute
<1>4. CASE CheckTables(m)
  BY <1>4 DEF CheckTables
<1>5. CASE Record(m)
  BY <1>5 DEF Record, UpOnly
<1>6. CASE Dies(m)
  BY <1>6 DEF Dies
<1>7. QED  BY <1>1, <1>2, <1>3, <1>4, <1>5, <1>6 DEF Progress

-----------------------------------------------------------------------------
(* The deployment.                                                         *)

LEMMA DeploymentStarts == DeploymentInit => IInv
<1> SUFFICES ASSUME DeploymentInit PROVE IInv
  OBVIOUS
<1>1. MigrationInv  BY MigrationInit DEF DeploymentInit
<1>2. ScriptKnows  BY DEF DeploymentInit, B!Init, ScriptKnows
<1>3. Configured  BY DEF DeploymentInit, B!Init, Configured
<1>4. QED  BY <1>1, <1>2, <1>3 DEF IInv

\* What leaves the migration alone but for a fault keeps what is known of it.
LEMMA Elsewhere ==
  ASSUME IInv, UNCHANGED untouched, faults' \in faults..MaxFaults
  PROVE  MigrationInv' /\ schema' = schema /\ lowered' = lowered
                       /\ pc' = pc /\ command' = command /\ result' = result
  BY MigrationUntouched DEF IInv, untouched, database, history

LEMMA FaultsStay == ASSUME MigrationInv, UNCHANGED faults PROVE faults' \in faults..MaxFaults
  BY MigrationAssumption DEF MigrationInv, TypeOK

\* As long as the container keeps its configuration and does not go on in main.
LEMMA SameConfiguration ==
  ASSUME Configured, UNCHANGED config, envFile' \in Environments,
         phase' \in {"connect", "build"} => phase' = phase,
         exit' = "build" => exit = "build"
  PROVE  Configured'
  BY DEF Configured, Accepted, Builds, SenderBuilds, StoreBuilds, Lenient, StoreChecked

\* Every step of the script keeps the invariant.
LEMMA ScriptKept ==
  ASSUME IInv, ScriptStep
  PROVE  IInv'
<1> USE DEF IInv, At
<1>1. CASE MigrationEnds \/ LeaveAlone \/ Wait \/ SmokeTest
  <2>1. UNCHANGED <<untouched, faults, envFile, backend>>
    BY <1>1 DEF MigrationEnds, LeaveAlone, Wait, SmokeTest, migration, untouched
  <2>2. MigrationInv' /\ schema' = schema /\ lowered' = lowered
                      /\ pc' = pc /\ command' = command /\ result' = result
    BY <2>1, Elsewhere, FaultsStay
  <2>3. ScriptKnows'
    BY <1>1, <2>1, <2>2 DEF MigrationEnds, LeaveAlone, Wait, SmokeTest, Migrated, B!Ready,
       ScriptKnows, backend
  <2>4. Configured'
    BY <2>1, SameConfiguration DEF Configured, backend
  <2>5. QED  BY <2>2, <2>3, <2>4
<1>2. CASE StartServices
  <2> USE <1>2 DEF StartServices, B!Start
  <2>1. MigrationInv' /\ schema' = schema /\ lowered' = lowered
                      /\ pc' = pc /\ command' = command /\ result' = result
    BY Elsewhere, FaultsStay
  <2>2. ScriptKnows'  BY <2>1 DEF ScriptKnows
  <2>3. Configured'  BY DEF Configured
  <2>4. QED  BY <2>1, <2>2, <2>3
<1>3. CASE Recreate
  <2> USE <1>3 DEF Recreate, B!Terminate, B!Stop, B!End
  <2>1. MigrationInv' /\ schema' = schema /\ lowered' = lowered
                      /\ pc' = pc /\ command' = command /\ result' = result
    BY Elsewhere, FaultsStay
  <2>2. ScriptKnows'  BY <2>1 DEF ScriptKnows
  <2>3. Configured'  BY SameConfiguration DEF Configured
  <2>4. QED  BY <2>1, <2>2, <2>3
<1>4. QED  BY <1>1, <1>2, <1>3 DEF ScriptStep

\* Every step of the API keeps the invariant.
LEMMA APIKept ==
  ASSUME IInv, RunAPI \/ StopAPI
  PROVE  IInv'
<1> USE DEF IInv
<1>1. UNCHANGED <<untouched, script, envFile>>
  BY DEF RunAPI, StopAPI
<1>2. faults' \in faults..MaxFaults
  BY MigrationAssumption
     DEF RunAPI, StopAPI, B!Progress, B!ConnectFails, B!Crash, B!Accept, B!Finish, B!Terminate,
     B!Load, B!Connect, B!Build, B!Listen, B!Notify, B!Drained, B!DrainTimesOut,
     B!Close, B!Stop, B!Enter, MigrationInv, TypeOK
<1>3. MigrationInv' /\ schema' = schema /\ lowered' = lowered
                    /\ pc' = pc /\ command' = command /\ result' = result
  BY <1>1, <1>2, Elsewhere
<1>4. \/ B!Progress \/ B!ConnectFails \/ B!Crash \/ B!Terminate
      \/ \E r \in Request : B!Accept(r) \/ B!Finish(r)
  BY DEF RunAPI, StopAPI
<1>5. /\ phase' # "off" \/ listening' => phase # "off" \/ listening
      /\ config' = config
  BY <1>4 DEF B!Progress, B!ConnectFails, B!Crash, B!Accept, B!Finish,
     B!Terminate, B!Load, B!Connect, B!Build, B!Listen, B!Notify, B!Drained, B!DrainTimesOut,
     B!Close, B!Stop, B!End, B!Enter
<1>6. ScriptKnows'  BY <1>1, <1>3, <1>5 DEF ScriptKnows
<1>7. /\ phase' = "connect" => phase = "connect" \/ Accepted(config)
      /\ phase' = "build" => phase \in {"connect", "build"}
      /\ exit' = "build" => exit = "build" \/ (phase = "build" /\ ~Builds(config))
  BY <1>4 DEF B!Progress, B!ConnectFails, B!Crash, B!Accept, B!Finish,
     B!Terminate, B!Load, B!Connect, B!Build, B!Listen, B!Notify, B!Drained, B!DrainTimesOut,
     B!Close, B!Stop, B!End, B!Enter, B!Accepted, B!Builds,
     B!SenderBuilds, B!StoreBuilds, B!Lenient, B!StoreChecked,
     Accepted, Builds, SenderBuilds, StoreBuilds, Lenient, StoreChecked
<1>8. Accepted(config)' = Accepted(config) /\ Builds(config)' = Builds(config)
  BY <1>5 DEF Accepted, Builds, SenderBuilds, StoreBuilds, Lenient, StoreChecked
<1>9. Configured'  BY <1>1, <1>5, <1>7, <1>8 DEF Configured
<1>10. QED  BY <1>3, <1>6, <1>9

\* A step of the migration command, by the script's run or an operator's.
LEMMA RunKept ==
  ASSUME IInv, NEW m \in Run, Migrate(m) \/ (m \in Checkout /\ Operate(m))
  PROVE  IInv'
<1> USE DEF IInv
<1>1. MigrationStep(m) /\ UNCHANGED <<script, envFile, backend>>
  BY DEF Migrate, Operate, MigrationStep
<1>2. MigrationInv'  BY <1>1, MigrationKept
<1>3. ~lowered' /\ schema # "none" => schema' # "none" /\ ~lowered
  BY <1>1, SchemaStays
<1>4. ~lowered' => ~lowered
  BY <1>1 DEF MigrationStep, Start, Progress, IsApplied, IsAppliedFails, Execute, CheckTables,
     Record, Dies, history
<1>5. ~lowered' /\ (script \in {"start", "wait", "smoke"} \/ phase # "off" \/ listening)
        => schema' # "none"
  BY <1>3, <1>4 DEF ScriptKnows
<1>6. ASSUME script = "migrate"
      PROVE  /\ command'[Script] = "up"
             /\ ~lowered' /\ pc'[Script] = "idle" /\ result'[Script] = "ok" => schema' # "none"
  <2>1. Script \in Run \ Checkout /\ command[Script] = "up"
    BY <1>6, DeploymentAssumption DEF ScriptKnows
  <2>2. CASE m = Script
    <3>1. Migrate(Script)  BY <2>1, <2>2
    <3>2. Progress(Script) \/ IsAppliedFails(Script) \/ Dies(Script)
      BY <3>1 DEF Migrate
    <3>3. command' = command
      BY <3>2 DEF Progress, IsApplied, IsAppliedFails, Execute, CheckTables, Record, Dies
    <3>4. QED  BY <2>1, <3>2, <3>3, UpTellsTheTruth
  <2>3. CASE m # Script
    <3>1. command'[Script] = command[Script] /\ pc'[Script] = pc[Script]
          /\ result'[Script] = result[Script]
      BY <1>1, <2>1, <2>3 DEF MigrationStep, Start, Progress, IsApplied, IsAppliedFails,
         Execute, CheckTables, Record, Dies, Decide, Exit, Goto, MigrationInv, TypeOK
    <3>2. QED  BY <1>3, <1>4, <1>6, <2>1, <3>1 DEF ScriptKnows
  <2>4. QED  BY <2>2, <2>3
<1>7. ScriptKnows'
  BY <1>1, <1>5, <1>6 DEF ScriptKnows, backend
<1>8. Configured'
  BY <1>1, SameConfiguration DEF Configured, backend
<1>9. QED  BY <1>2, <1>7, <1>8

\* A deployment begins, with a run of the migration or without.
LEMMA DeployKept ==
  ASSUME IInv, Deploy
  PROVE  IInv'
<1> USE DEF IInv
<1>1. Script \in Run  BY DeploymentAssumption
<1>2. Configured'
  BY SameConfiguration DEF Deploy, Begin, Configured, backend
<1>3. CASE Accepted(envFile')
  <2>1. Start(Script, "up") /\ script' = "migrate" /\ UNCHANGED backend
    BY <1>3 DEF Deploy
  <2>2. MigrationStep(Script)  BY <2>1 DEF MigrationStep, Command
  <2>3. MigrationInv'  BY <1>1, <2>2, MigrationKept
  <2>4. schema' = schema /\ lowered' = lowered
    BY <2>1 DEF Start, database, MigrationInv, TypeOK
  <2>5. command'[Script] = "up" /\ pc'[Script] = "check"
    BY <1>1, <2>1 DEF Start, Goto, MigrationInv, TypeOK
  <2>6. ScriptKnows'  BY <2>1, <2>4, <2>5 DEF ScriptKnows, backend
  <2>7. QED  BY <1>2, <2>3, <2>6
<1>4. CASE ~Accepted(envFile')
  <2>1. script' = "failed" /\ UNCHANGED migration /\ UNCHANGED backend
    BY <1>4 DEF Deploy
  <2>2. MigrationInv' /\ schema' = schema /\ lowered' = lowered
                      /\ pc' = pc /\ command' = command /\ result' = result
    BY <2>1, Elsewhere, FaultsStay DEF migration, untouched
  <2>3. ScriptKnows'  BY <2>1, <2>2 DEF ScriptKnows, backend
  <2>4. QED  BY <1>2, <2>2, <2>3
<1>5. QED  BY <1>3, <1>4

\* A command of the script that fails ends it, whether the images were built or not.
LEMMA FailureKept ==
  ASSUME IInv, BuildFails \/ ScriptFails
  PROVE  IInv'
<1> USE DEF IInv
<1>1. faults' \in faults..MaxFaults
  BY MigrationAssumption DEF BuildFails, ScriptFails, MigrationInv, TypeOK
<1>2. UNCHANGED <<untouched, backend>> /\ script' = "failed"
      /\ (envFile' = envFile \/ envFile' \in Environments)
  BY DEF BuildFails, Begin, ScriptFails, At
<1>3. MigrationInv' /\ schema' = schema /\ lowered' = lowered
                    /\ pc' = pc /\ command' = command /\ result' = result
  BY <1>1, <1>2, Elsewhere
<1>4. ScriptKnows'  BY <1>2, <1>3 DEF ScriptKnows, backend
<1>5. Configured'
  BY <1>2, SameConfiguration DEF Configured, backend
<1>6. QED  BY <1>3, <1>4, <1>5

\* Nothing changes.
LEMMA StutterKept ==
  ASSUME IInv, UNCHANGED vars
  PROVE  IInv'
<1> USE DEF IInv
<1>1. UNCHANGED <<untouched, faults, script, envFile, backend>>
  BY DEF vars, migration, untouched, backend
<1>2. MigrationInv' /\ schema' = schema /\ lowered' = lowered
                    /\ pc' = pc /\ command' = command /\ result' = result
  BY <1>1, Elsewhere, FaultsStay
<1>3. ScriptKnows'  BY <1>1, <1>2 DEF ScriptKnows, backend
<1>4. Configured'
  BY <1>1, SameConfiguration DEF Configured, backend
<1>5. QED  BY <1>2, <1>3, <1>4

-----------------------------------------------------------------------------
(* The theorems.                                                           *)

\* The invariant that carries the others: what is recorded or about to be, what the
\* script has learnt from the run it waited for, and what the API's process has
\* already checked of its configuration.
THEOREM DeploymentInvariance == DeploymentSpec => []IInv
<1>1. DeploymentInit => IInv  BY DeploymentStarts
<1>2. IInv /\ [DeploymentNext]_vars => IInv'
  <2> SUFFICES ASSUME IInv, [DeploymentNext]_vars PROVE IInv'
    OBVIOUS
  <2>1. CASE Deploy  BY <2>1, DeployKept
  <2>2. CASE ScriptStep  BY <2>2, ScriptKept
  <2>3. CASE BuildFails \/ ScriptFails  BY <2>3, FailureKept
  <2>4. CASE \E m \in Run : Migrate(m)  BY <2>4, RunKept
  <2>5. CASE \E m \in Checkout : Operate(m)  BY <2>5, RunKept, MigrationAssumption
  <2>6. CASE RunAPI \/ StopAPI  BY <2>6, APIKept
  <2>7. CASE UNCHANGED vars  BY <2>7, StutterKept
  <2>8. QED  BY <2>1, <2>2, <2>3, <2>4, <2>5, <2>6, <2>7 DEF DeploymentNext
<1>3. QED  BY <1>1, <1>2, PTL DEF DeploymentSpec

\* Every variable of the migration command keeps its type
\* (cmd/migrate/main.go:20-165).
THEOREM MigrationTypes == DeploymentSpec => []TypeOK
<1>1. IInv => TypeOK  BY DEF IInv, MigrationInv
<1>2. QED  BY <1>1, DeploymentInvariance, PTL

\* A version that is recorded is there, unless a down has raced another run or one
\* has failed: the SQL and its record are two statements (cmd/migrate/main.go:79-95).
THEOREM RecordTrue == DeploymentSpec => []RecordIsTrue
<1>1. IInv => RecordIsTrue
  <2> SUFFICES ASSUME IInv PROVE RecordIsTrue
    OBVIOUS
  <2>1. faults \in Nat  BY MigrationAssumption DEF IInv, MigrationInv, TypeOK
  <2>2. CASE ~lowered  BY <2>2 DEF IInv, MigrationInv, UpOnly, RecordIsTrue
  <2>3. CASE lowered
    BY <2>1, <2>3 DEF IInv, MigrationInv, AboutToAgree, RecordIsTrue
  <2>4. QED  BY <2>2, <2>3
<1>2. QED  BY <1>1, DeploymentInvariance, PTL

\* An API that serves has a schema, although nothing it does before it listens has
\* looked (cmd/api/main.go:25-80), because the script waits for the migration.
THEOREM ServesASchema == DeploymentSpec => []ServingMeansSchema
<1>1. IInv => ServingMeansSchema  BY DEF IInv, ScriptKnows, ServingMeansSchema
<1>2. QED  BY <1>1, DeploymentInvariance, PTL

\* Whatever the configuration, with uploads on the builders of the API accept what
\* Validate has accepted (config.go:150-229, main.go:232-256).
THEOREM ConfigStarts == DeploymentSpec => []AcceptedConfigStarts
<1>1. IInv => AcceptedConfigStarts
  <2> SUFFICES ASSUME IInv, exit = "build", config.upload PROVE FALSE
    BY DEF AcceptedConfigStarts
  <2>1. config \in Config /\ config.env = "production"
    BY DeploymentAssumption DEF IInv, Configured
  <2>2. Accepted(config) /\ ~Builds(config)  BY DEF IInv, Configured
  <2>3. QED
    BY <2>1, <2>2 DEF Config, Accepted, Builds, SenderBuilds, StoreBuilds, Lenient, StoreChecked
<1>2. QED  BY <1>1, DeploymentInvariance, PTL
-----------------------------------------------------------------------------
(* A host as docs_staging_vps.md:127-132 has it: deployments only, and a     *)
(* database without the schema.                                             *)

\* The command has nothing to execute, so the script never gets past it.
Fresh ==
    /\ schema = "none" /\ ~recorded /\ ~lowered
    /\ \A m \in Run : pc[m] \in {"idle", "check"} /\ command[m] = "up"
    /\ script \in {"idle", "migrate", "failed"}
    /\ script = "migrate" => pc[Script] = "check" \/ result[Script] = "error"

\* A run of the command outside of a checkout changes nothing and ends in an error.
LEMMA RunsInVain ==
  ASSUME TypeOK, Fresh, Checkout = {}, NEW m \in Run,
         Progress(m) \/ IsAppliedFails(m) \/ Dies(m), UNCHANGED script
  PROVE  Fresh'
<1>1. CASE IsApplied(m) \/ IsAppliedFails(m)
  <2>1. Exit(m, "error") /\ UNCHANGED <<database, command, history>>
    BY <1>1 DEF IsApplied, IsAppliedFails, Decide, NothingToDo, FindsSQL, Fresh
  <2>2. QED  BY <2>1, DeploymentAssumption DEF Exit, database, history, TypeOK, Fresh
<1>2. CASE Dies(m)
  BY <1>2, DeploymentAssumption DEF Dies, Exit, database, history, TypeOK, Fresh
<1>3. CASE Execute(m) \/ CheckTables(m) \/ Record(m)
  BY <1>3 DEF Execute, CheckTables, Record, Fresh
<1>4. QED  BY <1>1, <1>2, <1>3 DEF Progress

\* Every step keeps the host as it is.
LEMMA FreshKept ==
  ASSUME IInv, Fresh, Checkout = {}, [DeploymentNext]_vars
  PROVE  Fresh'
<1>1. TypeOK /\ Script \in Run  BY DeploymentAssumption DEF IInv, MigrationInv
<1>2. CASE Deploy
  <2>1. CASE Accepted(envFile')
    BY <1>1, <1>2, <2>1 DEF Deploy, Begin, Start, Goto, database, TypeOK, Fresh
  <2>2. CASE ~Accepted(envFile')
    BY <1>2, <2>2 DEF Deploy, migration, database, history, Fresh
  <2>3. QED  BY <2>1, <2>2
<1>3. CASE ScriptStep
  <2>1. CASE MigrationEnds
    BY <2>1 DEF MigrationEnds, At, Migrated, migration, database, history, Fresh
  <2>2. CASE ~MigrationEnds
    BY <1>3, <2>2 DEF ScriptStep, StartServices, Recreate, LeaveAlone, Wait, SmokeTest,
       At, Fresh
  <2>3. QED  BY <2>1, <2>2
<1>4. CASE BuildFails \/ ScriptFails
  BY <1>4 DEF BuildFails, ScriptFails, At, untouched, database, history, Fresh
<1>5. CASE \E m \in Run : Migrate(m)
  BY <1>1, <1>5, RunsInVain DEF Migrate
<1>6. CASE \E m \in Checkout : Operate(m)
  BY <1>6
<1>7. CASE RunAPI \/ StopAPI
  <2>1. UNCHANGED <<untouched, script>>
    BY <1>7 DEF RunAPI, StopAPI
  <2>2. QED  BY <2>1 DEF untouched, database, history, Fresh
<1>8. CASE UNCHANGED vars
  BY <1>8 DEF vars, migration, database, history, Fresh
<1>9. QED
  BY <1>2, <1>3, <1>4, <1>5, <1>6, <1>7, <1>8 DEF DeploymentNext

\* On a database without the schema, and without an operator who migrates from a
\* checkout, no deployment is ever completed and no API ever serves, whatever the
\* configuration and however often the script is run again: the image has no SQL file
\* (Dockerfile:17-18, cmd/migrate/main.go:155-167).
THEOREM FreshNeverServes ==
  ASSUME Checkout = {}, \A d \in Database : d = <<"none", FALSE>>
  PROVE  DeploymentSpec => [](script # "complete" /\ phase = "off" /\ ~listening)
<1>1. DeploymentInit => Fresh
  <2> SUFFICES ASSUME DeploymentInit PROVE Fresh
    OBVIOUS
  <2>1. PICK d \in Database : schema = d[1] /\ recorded = d[2]
    BY DEF DeploymentInit, Init
  <2>2. d = <<"none", FALSE>>
    OBVIOUS
  <2>3. schema = "none" /\ ~recorded
    BY <2>1, <2>2
  <2>4. QED  BY <2>3 DEF DeploymentInit, Init, Fresh
<1>2. IInv /\ Fresh /\ [DeploymentNext]_vars => Fresh'
  BY FreshKept
<1>3. IInv /\ Fresh => script # "complete" /\ phase = "off" /\ ~listening
  BY DEF IInv, ScriptKnows, Fresh
<1>4. QED  BY <1>1, <1>2, <1>3, DeploymentInvariance, PTL DEF DeploymentSpec
===============================================================================
