SPECIFICATION Spec
CONSTANTS
    a1 = a1
    w1 = w1
    w2 = w2
    w3 = w3
    d1 = d1
    d2 = d2
    Admissions = {a1}
    Workers = {w1, w2, w3}
    Digests = {d1, d2}
    Times <- MCTimes
    LeaseSeconds = 2
    NoDigest = NoDigest
    NoLease = NoLease
SYMMETRY Sym
INVARIANTS
    TypeOK
    WindowsDisjoint
    CompletionFenced
    AcksAgree
PROPERTIES
    ImplementsTable
