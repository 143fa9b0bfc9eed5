SPECIFICATION FairAuditSpec
CONSTANTS
    Call = {p1, p2, p3}
    MaxRows = 3
    Prune = TRUE
    CutOffs = TRUE
    NoCall = NoCall
INVARIANTS OneChain PruneKeeps VerifiesHonest
PROPERTIES AppendsEnd
