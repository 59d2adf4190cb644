SPECIFICATION Spec
CONSTANTS
    i1 = i1
    i2 = i2
    i3 = i3
    t1 = t1
    exact = exact
    every = every
    broken = broken
    Interactor = {i1, i2, i3}
    Topic = {t1}
    Pattern = {exact, every, broken}
    Malformed = {broken}
    Match <- MCMatch
    NoOwner = NoOwner
SYMMETRY Symmetric
INVARIANTS
    TypeOK
    CompiledPatternOwned
PROPERTIES
    ImplementsRegistry
