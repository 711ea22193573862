SPECIFICATION RotateSpec
CONSTANTS
    server = server  host2 = host2
    None = None
    Key = {k1, k2, k3, k4}
    Targets = {server, host2}
    Kind <- ServerAndApi
    SharedWith = {server}
    SelfNamed = {}
    LostPub = TRUE
    FsFaults = TRUE
    AllowUnverified = FALSE
    Crashes = TRUE
SYMMETRY Symmetry
INVARIANTS RotateTypeOK CanonicalKeyPresent ZeroDowntime OneRecordPerPath
PROPERTIES ReplacedKeyIsKept SwitchesSafely
