SPECIFICATION ReconcileSpec
CONSTANTS
    work = work  home = home  vault = vault
    k1 = k1  k2 = k2  k3 = k3
    None = None
    Ref = {work, home, vault}
    Name <- SameName
    Vaulted = {vault}
    Key = {k1, k2, k3, k4, k5}
    First <- OwnPair
    Faults = TRUE
    Crashes = TRUE
INVARIANTS  NoUnaskedSuccessor
PROPERTIES ReplacedKeyIsArchived
