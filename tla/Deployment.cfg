SPECIFICATION FairDeploymentSpec
CONSTANTS
    Run = {deploy, op}
    Checkout = {op}
    Script = deploy
    Request = {h1, h2}
    Database <- AnyDatabase
    Environments <- SomeEnvironments
    MaxFaults = 2
INVARIANTS
    RecordIsTrue
    ServingMeansSchema
    AcceptedConfigStarts
PROPERTIES
    EveryDeploymentEnds
CHECK_DEADLOCK FALSE
