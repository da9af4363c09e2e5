SPECIFICATION Spec
CONSTANTS
    Horizon = 50
    Width = 4
    MaxPulled = 45
    MaxPath = 12
    Families <- MCFamilies
    Roots <- MCRoots
    Predicates <- MCPredicates
    Satisfies <- MCSatisfies
    InDomain <- MCInDomain
    Simpler <- MCSimpler
INVARIANTS
    TypeOK
    YieldsElements
    ConsumersAgree
    OneStepMinimal
    PathLeadsBack
    DescentEnds
