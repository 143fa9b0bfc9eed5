SPECIFICATION FairSpec
CONSTANTS
    Req = {r1, r2, r3}
    Id = {i1, i2}
    Name = {n1}
    Data = {d1}
    Rule = {u1}
    RuleActions <- ReadOnly
    RuleMaxUses <- OneUse
    FlagChoices <- CappedFlags
    Faults = FALSE
    NoMax = NoMax
    Scrubbed = Scrubbed
    NoId = NoId
    NoRow = NoRow
    Admin = Admin
INVARIANTS ServedIsSettled
PROPERTIES SpentIsScrubbed
