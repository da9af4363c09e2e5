SPECIFICATION Spec
CONSTANTS
    Params = {"CurrentHandler", "CurrentPropertyContext"}
    Values = {0, 1}
    Default <- Zero
    MaxObjects = 3
INVARIANTS
    EveryBindingHasOnePopper
PROPERTIES
    IsDynamicScoping
