SPECIFICATION OwnerSpec
CONSTANTS
    terminal = terminal  browser = browser
    here = here  there = there  k1 = k1  k2 = k2  k3 = k3  k4 = k4  c1 = c1  c2 = c2
    pin1 = pin1  pin2 = pin2
    None = None
    Actor = {terminal, browser}
    Web = {browser}
    Keyring = {}
    Ops <- EveryOp
    Pin = {pin1}
    Key = {k1, k2, k3, k4}
    Content = {c1, c2}
    Machine = {here, there}
    FreeAttempts = 1
    Weak = TRUE
    MaxTroubles = 1
INVARIANTS  PINCanBeReset
SYMMETRY Symmetry
CONSTRAINT NotCrossed
