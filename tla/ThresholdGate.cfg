SPECIFICATION Spec
CONSTANTS
    alice = alice
    bob = bob
    carol = carol
    x = x
    y = y
    Read = {r1, r2}
    Client = {alice, bob}
    Resource = {x}
    NameOf <- OwnName
    Policies <- OneOrTwo
    MaxRequests = 2
    GrantCaps = {1}
    MaxGrants = 1
    Recreate = TRUE
    NoRequest = NoRequest
SYMMETRY ReadSymmetry
INVARIANTS ApprovalsSpent PassedHasQuorum OneOpenRequest
