SPECIFICATION Spec
CONSTANTS
    Req = {r1, r2, r3}
    Id = {i1, i2}
    Name = {n1}
    Data = {d1, d2}
    Rule = {}
    RuleActions <- ReadOnly
    RuleMaxUses <- OneUse
    FlagChoices <- MixedFlags
    Faults = TRUE
    NoMax = NoMax
    Scrubbed = Scrubbed
    NoId = NoId
    NoRow = NoRow
    Admin = Admin
SYMMETRY Symmetry
INVARIANTS TypeOK CappedReads NeverServesScrubbed
PROPERTIES Immutable CleanupSparesLive TombstoneIsFinal RefinesReadBudget
