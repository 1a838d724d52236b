SPECIFICATION Spec
CONSTANTS
    k1 = k1
    f1 = f1
    f2 = f2
    c1 = c1
    c2 = c2
    Hand = Hand
    Commits = {c1, c2}
    Makers = {k1, f1, f2, Hand}
    Capturers = {k1}
    Finalizers = {f1, f2}
    Prepared <- MCPrepared
    NoTree = NoTree
    NoManifest = NoManifest
    Junk = Junk
    Link = Link
    Schema <- MCSchema
    MaxMoves = 2
    MaxFaults = 1
SYMMETRY Sym
VIEW View
INVARIANTS
    NothingLeftSilently
PROPERTIES
    CapturedIsCoherent
    FinalizedWasAccepted
    PublishedIsKept
CHECK_DEADLOCK FALSE
