SPECIFICATION Spec
CONSTANTS
    Slot = {s1, s2}
    Name = {"a"}
    Types = {"aes256-gcm", "ed25519"}
    MfaFlags = {TRUE}
    Imported = {imp}
    MaxId = 2
    MaxVersion = 3
    MaxGenerated = 3
    MaxOut = 1
    NoKey = NoKey
    NoSlot = NoSlot
    NoMaterial = NoMaterial
    NoOutput = NoOutput
SYMMETRY SlotSymmetry
INVARIANTS OutputsOpen AnswersRight
PROPERTIES ActsOnSeen RefinesKeyRing
