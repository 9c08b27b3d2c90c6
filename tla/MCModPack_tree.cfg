SPECIFICATION Spec
CONSTANTS
    Paths <- MCPaths
    Nodes <- MCNodes
    Trees <- MCTrees
    Sources <- MCSources
    Outs <- MCOuts
    MaxChanges = 2
INVARIANTS
    TypeOK
    Unpackable
    FailureShows
    Reproducible
    Mirrored
