SPECIFICATION Spec
CONSTANTS
    w1 = w1
    w2 = w2
    s1 = s1
    s2 = s2
    x1 = x1
    u1 = u1
    u2 = u2
    Admissions = {x1}
    Workers = {w1, w2}
    Times <- MCTimes
    NoDigest = NoDigest
    Nothing = Nothing
    ApprovedAt = 0
    GrantSeconds = 2
    Actors = {u1, u2}
    Shas = {s1, s2}
    LeaseSeconds = 1
    ApprovalUntil = 1
    PreconditionAge = 1
    VerifierSeconds = 1
    MaxChanges = 1
    MaxRestarts = 1
SYMMETRY Sym
INVARIANTS
    AuthorityNarrows
    ResultsAgree
    PassportProjects
PROPERTIES
    DispatchNeedsLiveAuthority
    ResumeMintsNothing
    ImplementsOneTime
