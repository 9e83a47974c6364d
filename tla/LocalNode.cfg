\* Every shape of a sane quorum set over four nodes up to two inner sets, or
\* three levels, and any combination of flat quorum sets of three nodes.
CONSTANTS
    n1 = n1
    n2 = n2
    n3 = n3
    n4 = n4
    Node = {n1, n2, n3, n4}
    ConfigQSets <- AllQSets
    StmtQSets <- FlatQSets
    MaxWeight = 3
SPECIFICATION SmallSpec
INVARIANTS
    OwnQueriesAreExact
    NormalizeKeepsMeaning
    ViewQueriesAreExact
