----------------------------- MODULE MCDeployment -----------------------------
(***************************************************************************)
(* Deployment with configurations that differ in what the checks of        *)
(* config.go and the builders of main.go look at.                          *)
(***************************************************************************)
EXTENDS Deployment

\* Everything is there, providers are the real ones.
Complete ==
    [env |-> "production", base |-> TRUE, strong |-> TRUE, meta |-> TRUE,
     token |-> TRUE, remote |-> TRUE, bucket |-> TRUE, keys |-> TRUE, upload |-> TRUE]

\* The same with one value missing, and without keys where no upload needs them.
SomeEnvironments ==
    {Complete,
     [Complete EXCEPT !.strong = FALSE],
     [Complete EXCEPT !.token = FALSE],
     [Complete EXCEPT !.keys = FALSE],
     [Complete EXCEPT !.keys = FALSE, !.upload = FALSE]}

OneEnvironment == {Complete}

\* A fresh database, one the compose file has initialised without a record, and
\* those of the current and of an earlier version.
AnyDatabase ==
    {<<"none", FALSE>>, <<"full", FALSE>>, <<"full", TRUE>>,
     <<"older", FALSE>>, <<"older", TRUE>>}

FreshDatabase == {<<"none", FALSE>>}
===============================================================================
