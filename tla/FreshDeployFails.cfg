SPECIFICATION DeploymentSpec
CONSTANTS
    Run = {deploy}
    Checkout = {}
    Script = deploy
    Request = {h1}
    Database <- FreshDatabase
    Environments <- OneEnvironment
    MaxFaults = 0
INVARIANT
    DeploymentSucceeds
CHECK_DEADLOCK FALSE
