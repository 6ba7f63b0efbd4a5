------------------------------- MODULE Deployment -------------------------------
(***************************************************************************)
(* A deployment (scripts/deploy-staging.sh), composed of Migration and     *)
(* Backend: the script runs the migration in a container of the new image, *)
(* starts the services, waits for them and tests them, and ends at the     *)
(* first command that fails.  Meanwhile operators may run the migration    *)
(* command in a checkout of the repository or stop the API.                *)
(*                                                                         *)
(* The image has the two programs and no SQL file (Dockerfile:17-18), so   *)
(* the script's run of the migration is not one of Checkout.               *)
(***************************************************************************)
EXTENDS Migration, Configuration

CONSTANTS Script,        \* the script's run of the migration
          Request,       \* HTTP requests
          Environments   \* the configurations a deployment may have

ASSUME DeploymentAssumption ==
    /\ Script \in Run \ Checkout
    /\ Environments \subseteq {c \in Config : c.env = "production"}

VARIABLES script,        \* where the script is
          envFile,       \* .env.staging, as the deployment found it
          config,        \* the environment of the API's container
          phase, listening, open, exit

vars == <<migration, script, envFile, config, phase, listening, open, exit>>

B == INSTANCE Backend WITH
    Request <- Request,
    MaxFaults <- MaxFaults,
    config <- config,
    phase <- phase,
    listening <- listening,
    open <- open,
    exit <- exit,
    faults <- faults

backend == <<config, phase, listening, open, exit>>
untouched == <<database, pc, command, result, history>>

DeploymentInit ==
    /\ Init
    /\ B!Init
    /\ script = "idle"
    /\ envFile \in Environments
    /\ config = envFile

-----------------------------------------------------------------------------
(* The script.                                                             *)

At(from, to) ==
    /\ script = from
    /\ script' = to

\* The file may have been edited since the last deployment.
Begin ==
    /\ script \in {"idle", "complete", "failed"}
    /\ envFile' \in Environments

\* git pull or the build of the images fails: nothing else is run.
BuildFails ==
    /\ Begin
    /\ script' = "failed"
    /\ faults < MaxFaults
    /\ faults' = faults + 1
    /\ UNCHANGED <<untouched, backend>>

\* The images are built; `migrate up` loads the configuration first.
Deploy ==
    /\ Begin
    /\ IF Accepted(envFile')
       THEN /\ script' = "migrate"
            /\ Start(Script, "up")
       ELSE /\ script' = "failed"
            /\ UNCHANGED migration
    /\ UNCHANGED backend

\* Mutant: a script without set -e.
ExitIgnored == TRUE

Migrated == result[Script] = "ok"

MigrationEnds ==
    /\ pc[Script] = "idle"
    /\ At("migrate", IF Migrated THEN "start" ELSE "failed")
    /\ UNCHANGED <<migration, envFile, backend>>

\* docker compose up -d: a container that does not run is started, one of
\* another image or configuration is stopped first, one that has not changed is
\* left alone.
StartServices ==
    /\ At("start", "wait")
    /\ B!Start(envFile)
    /\ UNCHANGED <<untouched, envFile>>

Recreate ==
    /\ script = "start"
    /\ B!Terminate
    /\ UNCHANGED <<untouched, script, envFile>>

LeaveAlone ==
    /\ phase # "off" /\ config = envFile
    /\ At("start", "wait")
    /\ UNCHANGED <<migration, envFile, backend>>

\* The frontend depends on a healthy API, and curl asks for /ready.
Wait ==
    /\ \/ B!Ready /\ At("wait", "smoke")
       \/ phase = "off" /\ At("wait", "failed")
    /\ UNCHANGED <<migration, envFile, backend>>

\* The smoke test writes and reads rows of most tables.
SmokeTest ==
    /\ At("smoke", IF B!Ready /\ schema = "full" THEN "complete" ELSE "failed")
    /\ UNCHANGED <<migration, envFile, backend>>

\* A probe, a timeout or the network: the command fails, and the script with it.
ScriptFails ==
    /\ \E at \in {"start", "wait", "smoke"} : At(at, "failed")
    /\ faults < MaxFaults
    /\ faults' = faults + 1
    /\ UNCHANGED <<untouched, envFile, backend>>

-----------------------------------------------------------------------------
(* The processes it starts, and the operators.                             *)

Migrate(m) ==
    /\ Progress(m) \/ IsAppliedFails(m) \/ Dies(m)
    /\ UNCHANGED <<script, envFile, backend>>

Operate(m) ==
    /\ \E c \in Command : Start(m, c)
    /\ UNCHANGED <<script, envFile, backend>>

RunAPI ==
    /\ B!Progress \/ B!ConnectFails \/ B!Crash
       \/ \E r \in Request : B!Accept(r) \/ B!Finish(r)
    /\ UNCHANGED <<untouched, script, envFile>>

StopAPI ==
    /\ B!Terminate
    /\ UNCHANGED <<untouched, script, envFile>>

ScriptStep ==
    \/ MigrationEnds \/ StartServices \/ Recreate \/ LeaveAlone \/ Wait \/ SmokeTest

DeploymentNext ==
    \/ BuildFails \/ Deploy \/ ScriptStep \/ ScriptFails
    \/ \E m \in Run : Migrate(m)
    \/ \E m \in Checkout : Operate(m)
    \/ RunAPI \/ StopAPI

DeploymentSpec == DeploymentInit /\ [][DeploymentNext]_vars

Fairness ==
    /\ WF_vars(ScriptStep)
    /\ WF_vars(Progress(Script) /\ UNCHANGED <<script, envFile, backend>>)
    /\ WF_vars(B!Progress /\ UNCHANGED <<untouched, script, envFile>>)

FairDeploymentSpec == DeploymentSpec /\ Fairness

-----------------------------------------------------------------------------
(* Properties; RecordIsTrue of Migration is checked of the composition.    *)

\* An API that was started by deployments serves a database that has a schema,
\* whatever has died and whoever else has migrated, unless somebody ran down: the
\* start itself looks at no table, and neither does /ready.  An API that is started
\* by hand (docs_production.md:58-59) has nobody who migrates first.
ServingMeansSchema == listening /\ ~lowered => schema # "none"

\* A configuration that is wrong stops a deployment before it migrates, as long
\* as document uploads are on: the builders of the API cannot fail on what the
\* migration command has accepted (config.go:150-229, main.go:232-256).
AcceptedConfigStarts == exit = "build" => ~config.upload

\* A deployment that has begun is completed or fails, whatever the API does.
EveryDeploymentEnds == script # "idle" ~> script \in {"complete", "failed"}

\* docs_staging_vps.md:127-132 gives four commands for a deployment.  It should
\* fail only if something fails, or the configuration is not accepted.
DeploymentSucceeds ==
    script = "failed" => faults > 0 \/ ~Accepted(envFile) \/ ~Builds(envFile)
===============================================================================
