SPECIFICATION LifecycleSpec
CONSTANTS
    server = server  host2 = host2
    None = None
    Key = {k1, k2, k3}
    Targets = {server, host2}
    Kind <- ServerAndPanel
    SharedWith = {server}
    SelfNamed = {}
    LostPub = FALSE
    FsFaults = TRUE
    AllowUnverified = TRUE
    Crashes = TRUE
SYMMETRY Symmetry
INVARIANTS DiskAndRecordsAgree CompleteMeansTrusted RecordCoversTrust RevokedNeverDeployed
CONSTRAINT OnlyRollbacksAfterMishap
