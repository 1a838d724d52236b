SPECIFICATION FairSpec
CONSTANTS
    create1 = create1
    create2 = create2
    delete1 = delete1
    c1 = c1
    c2 = c2
    Admissions = {create1, delete1}
    Creates = {create1}
    Deletes = {delete1}
    Commits = {c1, c2}
    CommitOf <- MCCommitOf
    Times = {0, 1}
    LeaseSeconds = 1
    MaxTtl = 1
    MaxVersion = 2
    NoDigest = NoDigest
    Absent = Absent
    NoLease = NoLease
    NoRead = NoRead
INVARIANTS
    AtMostOneEffect
    RecordedIsOurs
    DeletesWhatItSaw
    ProofFollowsEffect
PROPERTIES
    SentIsSettled
