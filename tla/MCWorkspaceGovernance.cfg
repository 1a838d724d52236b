SPECIFICATION GovSpec
CONSTANTS
    root = root
    sysop = sysop
    alice = alice
    w1 = w1
    w2 = w2
    idp1 = idp1
    sub1 = sub1
    sub2 = sub2
    b1 = b1
    b2 = b2
    Users = {root, sysop, alice}
    Admins = {root, sysop}
    Allowed = {root, sysop}
    Workspaces = {w1, w2}
    Issuers = {idp1}
    Subjects = {sub1, sub2}
    BindingIds = {b1, b2}
SYMMETRY MCSymmetry
INVARIANTS
    EveryWorkspaceOwned
    GrantsAreAudited
    IdentityNamesOneUser
\* With every account deactivated nobody can do anything any more.
CHECK_DEADLOCK FALSE
