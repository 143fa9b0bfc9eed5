SPECIFICATION MCSpec
CONSTANTS
    Slot = {s1, s2}
    Client = {"root", "a", "u"}
    Root = "root"
    Domain = {"default", "~a", "x"}
    Default = "default"
    Roles = {"admin", "guest"}
    Owner <- OwnerOf
    Templates <- TwoTemplates
    Traffics <- Mixes
    Goals <- ReadGoal
    MaxRule = 2
    MaxTime = 2
    MaxCount = 3
    MaxLen = 5
    MaxTerms = 2
    MaxCalls = 5
    MaxSecond = 2
    Burst = 2
    Rate = 1
    Idle = 2
    NoOne = NoOne
    NoRule = NoRule
SYMMETRY SlotSymmetry
INVARIANTS GrantedWasAllowed BoundedExcess MatchersExact RateLimitExact
PROPERTIES ScopedAuthority
