SPECIFICATION VaultSpec
CONSTANTS
    server = server  host2 = host2
    None = None
    Key = {k1, k2, k3}
    Targets = {server, host2}
    Kind <- ServerAndApi
    SharedWith = {server}
    SelfNamed = {}
    LostPub = FALSE
    FsFaults = TRUE
    AllowUnverified = FALSE
    Crashes = TRUE
    LostAnswers = TRUE
SYMMETRY Symmetry
 
PROPERTIES RotationNeverCutsOff
