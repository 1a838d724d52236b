SPECIFICATION Spec
CONSTANTS
    r1 = r1
    r2 = r2
    alice = alice
    host = host
    Clients = {r1, r2}
    Accounts = {alice}
    Sources = {host}
    BootstrapSources = {host}
    MaxFailures = 2
    SourceMaxFailures = 3
    Window = 2
    Lockout = 4
    Times <- MCTimes
    NoRow = NoRow
    NoAttempt = NoAttempt
SYMMETRY MCSymmetry
INVARIANTS
    FailuresBounded
    CountedTogether
    BootstrapOnce
PROPERTIES
    LockoutKept
