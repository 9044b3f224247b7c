SPECIFICATION Spec
CONSTANTS
    Snapshots = {s1, s2}
    Isolates = {i1, i2}
    Blobs = {b1, b2, b3}
    NoBlob = NoBlob
    MaxUse = 5
    Behaviours = {"reconstruct"}
SYMMETRY Symmetry
INVARIANTS TypeOK CountExact ReadersSafe ReadersCompatible
CHECK_DEADLOCK FALSE
