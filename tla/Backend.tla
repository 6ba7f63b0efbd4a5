-------------------------------- MODULE Backend --------------------------------
(***************************************************************************)
(* The life of the API process (cmd/api/main.go): what it does before it   *)
(* listens, the signal it may miss, and the shutdown that waits for the    *)
(* requests it has accepted.  What its notification workers do is in       *)
(* NotificationQueue.                                                      *)
(***************************************************************************)
EXTENDS Integers, Configuration

CONSTANTS Request,       \* HTTP requests
          MaxFaults      \* bound: statements that fail, processes that die

VARIABLES config,        \* the environment of the process
          phase,         \* where main is
          listening,     \* the goroutine of ListenAndServe has its socket
          open,          \* requests whose handler runs
          exit,          \* how the process ended the last time
          faults         \* faults so far

process == <<phase, listening, open, exit>>

Init ==
    /\ phase = "off"
    /\ listening = FALSE
    /\ open = {}
    /\ exit = "none"

-----------------------------------------------------------------------------
Enter(p) ==
    /\ phase' = p
    /\ UNCHANGED <<config, listening, open, exit, faults>>

\* The process is gone, its socket and the requests in it too.
End(how) ==
    /\ phase' = "off"
    /\ listening' = FALSE
    /\ open' = {}
    /\ exit' = how

Stop(how) == End(how) /\ UNCHANGED <<config, faults>>

Start(c) ==
    /\ phase = "off"
    /\ phase' = "load"
    /\ config' = c
    /\ exit' = "none"
    /\ UNCHANGED <<listening, open, faults>>

Load ==
    /\ phase = "load"
    /\ IF Accepted(config) THEN Enter("connect") ELSE Stop("config")

\* NewPostgresPool pings; nobody asks for Redis or for the schema.
Connect == phase = "connect" /\ Enter("build")

ConnectFails ==
    /\ phase = "connect"
    /\ faults < MaxFaults
    /\ faults' = faults + 1
    /\ End("connect")
    /\ UNCHANGED config

Build ==
    /\ phase = "build"
    /\ IF Builds(config) THEN Enter("wire") ELSE Stop("build")

\* The goroutine opens the socket, before or after main registers for signals.
\* ListenAndServe returns at once when Shutdown has been called.
Listen ==
    /\ phase \in {"wire", "serve"}
    /\ ~listening
    /\ listening' = TRUE
    /\ UNCHANGED <<config, phase, open, exit, faults>>

Notify == phase = "wire" /\ Enter("serve")

Accept(r) ==
    /\ listening /\ r \notin open
    /\ open' = open \cup {r}
    /\ UNCHANGED <<config, phase, listening, exit, faults>>

Finish(r) ==
    /\ r \in open
    /\ open' = open \ {r}
    /\ UNCHANGED <<config, phase, listening, exit, faults>>

\* SIGTERM: before signal.Notify it ends the process; after it, Shutdown closes
\* the socket first.
Terminate ==
    \/ /\ phase \in {"load", "connect", "build", "wire"}
       /\ Stop("signal")
    \/ /\ phase = "serve"
       /\ phase' = "drain"
       /\ listening' = FALSE
       /\ UNCHANGED <<config, open, exit, faults>>

Drained == phase = "drain" /\ open = {} /\ Enter("close")

\* Mutant: Shutdown without a deadline.
NoDeadline == FALSE

\* Ten seconds are over: log.Fatalf, and the deferred calls are skipped.  Docker
\* kills a container that does not stop after the same time.
DrainTimesOut == phase = "drain" /\ open # {} /\ Stop("timeout")

\* The deferred Close of Redis and of the pool
Close == phase = "close" /\ Stop("clean")

\* The socket is taken, a panic in a goroutine, or the kernel ends the process.
Crash ==
    /\ phase # "off"
    /\ faults < MaxFaults
    /\ faults' = faults + 1
    /\ End("crash")
    /\ UNCHANGED config

Progress ==
    \/ Load \/ Connect \/ Build \/ Listen \/ Notify
    \/ Drained \/ DrainTimesOut \/ Close

\* What answers a GET /ready.
Ready == listening
===============================================================================
