SPECIFICATION Spec
CONSTANTS
    Rekeyers = {k1}
    Provider = {w1, w2, f1}
    Passphrases = {w1, w2}
    Volumes = {"fresh", "current", "legacy"}
    Crashes = TRUE
    MigrateAlone = TRUE
    MaxStarts = 4
    NoFile = NoFile
    Torn = Torn
INVARIANTS ServedKeyKept LostOnlyHalfway
