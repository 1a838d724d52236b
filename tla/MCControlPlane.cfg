SPECIFICATION RegistrySpec
CONSTANTS
    w1 = w1
    w2 = w2
    Clients = {w1, w2}
    Descriptors <- MCDescriptors
    Connectors = {"c"}
    Servers = {"s"}
    Capabilities = {"u"}
    Executable = {}
    Genesis = "GENESIS"
    States = {"A", "B"}
    Events <- MCEvents
    Executions = {"x"}
    Recorder <- MCRecorder
    Lineages = {r1, r2}
    Causes = {1}
    r1 = r1
    r2 = r2
    MaxGeneration = 2
    MaxWrites = 4
    Absent = Absent
SYMMETRY Sym
CHECK_DEADLOCK FALSE
INVARIANTS
    RowsFollowTrail
    LineageIsWhole
