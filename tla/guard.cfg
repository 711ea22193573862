SPECIFICATION GuardSpec
CONSTANTS
    reconcile = reconcile  reset = reset  browser = browser  pin = pin
    Server = Server
    None = None
    Actor = {reconcile, reset, browser, pin}
    Style <- Everyday
    Minds <- PinDoesNotMatter
    Broken = {reset}
    Crashes = TRUE
INVARIANTS HistoryIsRight
PROPERTIES ConfirmedIsWhatHappens EveryoneGetsTheLock
