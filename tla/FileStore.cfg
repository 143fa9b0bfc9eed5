SPECIFICATION Spec
CONSTANTS
    Req = {r1, r2, r3}
    MaxContents = 4
    Name = {n1}
    Data = {d1, d2}
    Traffics <- Mixed
    NoMax = NoMax
    NoFile = NoFile
    Empty = Empty
    None = None
SYMMETRY Symmetry
INVARIANTS ReadableIntact CappedDownloads SpentErased
PROPERTIES LiveFilesKept
