SPECIFICATION Spec
CONSTANTS
    Gens = {g1, g2}
    Faulty = {g2}
    Partial = {g1}
    MaxCalls = 3
    MaxPath = 1
    Width = 2
INVARIANTS
    ReplaysAgree
    IngredientsFit
    SplitsAreSeparate
    ShrinksReplaceOne
PROPERTY Termination
CHECK_DEADLOCK FALSE
