SPECIFICATION Spec
CONSTANTS
    create1 = create1
    create2 = create2
    delete1 = delete1
    c1 = c1
    c2 = c2
    Admissions = {create1, create2}
    Creates = {create1, create2}
    Deletes = {}
    Commits = {c1, c2}
    CommitOf <- MCCommitOf
    Times <- MCTimes
    LeaseSeconds = 2
    MaxTtl = 1
    MaxVersion = 2
    NoDigest = NoDigest
    Absent = Absent
    NoLease = NoLease
    NoRead = NoRead
INVARIANTS
    RejectedMeansNoEffect
