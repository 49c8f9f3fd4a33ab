SPECIFICATION Spec
CONSTANTS
    Nodes = {m, n}
    Weights <- SomeWeights
    Strategies <- AllStrategies
    MaxLen = 3
    Timeout = 1
SYMMETRY Symmetry
INVARIANTS
    ResultOnlyForDropped
    FairRotation
    PanicOnlyAfterRemove
    WeightedShare
