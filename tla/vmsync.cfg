SPECIFICATION VMSyncSpec
CONSTANTS
    web = web  dev = dev  vm1 = vm1  vm2 = vm2  g1 = g1  g2 = g2
    None = None
    Alias = {web, dev}
    VM = {vm1, vm2}
    VMOf <- Wired
    Guest = {g1, g2}
    Docker = {vm1}
    ListsRunning = FALSE
    Opts <- ProbingOpts
    Starts <- Homes
    MaxRuns = 2
    MaxEvents = 2
    MaxTroubles = 1
INVARIANTS SecondRunChangesNothing
PROPERTIES  OnlyWhatWasAskedFor
CHECK_DEADLOCK FALSE
