SPECIFICATION Spec
CONSTANTS
    Tenant = {"ta", "tb"}
    Request = {"r1"}
    Ours = {a1, a2, a3}
    Theirs = {b1}
    Chunk <- MCChunk
    Owner <- MCOwner
    Text = {"whole", "cut", "endless"}
    Words <- MCWords
    Quoted <- MCQuoted
    Absent = Absent
    TopK = 2
    Bm25Weight = 11
    VectorWeight = 9
    Scores = {1, 2}
    Cosines <- MCCosines
    Opposite <- MCOpposite
    MaxWrite = 2
SYMMETRY Ids
INVARIANTS
    RefusesWithoutEvidence
CHECK_DEADLOCK FALSE
