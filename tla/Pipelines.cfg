SPECIFICATION Spec
CONSTANTS
    Analyses = {a1, a2, a3}
    Every = 2
    LastTime = 3
    Indexers = {x1, x2, x3}
    NCommits = 4
    BatchSize = 2
    Generations = {g1, g2}
    Nodes = {n1, n2, n3}
    MaxDepth = 2
CHECK_DEADLOCK FALSE
INVARIANT GraphIsKept
INVARIANT QueriesAreComplete
PROPERTY AnalysisIsSettled
 
