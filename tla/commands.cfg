SPECIFICATION TestSpec
CONSTANTS
    MaxCommands = 3
    MaxTries = 3
    MaxPath = 1
    Kinds = 2
    WithState = {1}
INVARIANTS
    AlwaysValid
    MinimalRepair
    ModelInStep
PROPERTIES
    Termination
CHECK_DEADLOCK FALSE
