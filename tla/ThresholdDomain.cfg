SPECIFICATION Spec
CONSTANTS
    alice = alice
    bob = bob
    carol = carol
    x = x
    y = y
    Read = {r1, r2}
    Client = {alice, bob, carol}
    Resource = {x, y}
    NameOf <- SameName
    Policies <- TwoOfTwo
    MaxRequests = 1
    GrantCaps = {1}
    MaxGrants = 0
    Recreate = FALSE
    NoRequest = NoRequest
SYMMETRY ReadSymmetry
INVARIANT RequestMatchesResource
