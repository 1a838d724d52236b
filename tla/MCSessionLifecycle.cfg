SPECIFICATION Spec
CONSTANTS
    r1 = r1
    r2 = r2
    s1 = s1
    s2 = s2
    root = root
    alice = alice
    Users = {root, alice}
    Admins = {root}
    SessionIds = {s1, s2}
    Clients = {r1, r2}
    Times <- MCTimes
    Ttl = 2
    Skew = 1
    NoSession = NoSession
INVARIANTS
    EndedNeverActs
PROPERTIES
    SessionsLast
