SPECIFICATION Spec
CONSTANTS
    Slot = {s1, s2}
    Name = {"admin", "b"}
    Traffics = {{"create", "rotate", "revoke"}, {"enroll", "verify"}}
    MaxGen = 2
    MaxSecret = 2
    MaxBoot = 2
    NoClient = NoClient
    NoBundle = NoBundle
SYMMETRY SlotSymmetry
INVARIANTS AdminReachable CredentialsSound BootsSound
CHECK_DEADLOCK FALSE
