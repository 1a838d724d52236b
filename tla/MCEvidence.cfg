SPECIFICATION Spec
CONSTANTS
    Configurations <- MCConfigurations
    Credentials <- MCCredentials
    Profiles <- MCProfiles
    Wirings <- MCWirings
    Tokens = {"u", "g"}
    AppTokens = {"g"}
    Principals = {"P", "P2"}
    Repositories = {"R", "Q"}
    Sources = {"s1", "s2"}
    Db = Db
    OtherDb = OtherDb
    MaxChanges = 2
    MaxReads = 2
    Missing = Missing
    Registries <- MCRegistries
    BrokerPolicies <- MCBrokerPolicies
    VerifierPolicies <- MCVerifierPolicies
    Bootstraps <- MCBootstraps
    Verifiers <- MCVerifiers
    Targets = {"t1", "t2"}
    Shas = {"sha1", "sha2"}
    Snapshot <- MCSnapshotAtHand
    OtherDocuments <- MCOtherDocuments
    GrantSeconds = 2
    WitnessSeconds = 1
    LeaseSeconds = 1
    VerifierStarts = {1, 2}
    VerifierSeconds = {1, 2}
    MaxTurns = 2
    EndOfTime = 3
INVARIANTS
    ReadsAreIndependent
    EvidenceIsOfOne
CHECK_DEADLOCK FALSE
