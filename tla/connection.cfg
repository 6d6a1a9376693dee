SPECIFICATION FairSpec
CONSTANTS
    server1 = server1
    guest1 = guest1
    browser1 = browser1
    Clients = {server1, browser1}
    Browser = {browser1}
    Host = server1
    Doubtful = {}
    MaxSockets = 2
    MaxTimers = 3
    MaxFaults = 2
    MaxAttempts = 2
INVARIANTS TypeOK BrowserHasOneLine NeverGivesUp OpenIsRegistered OpenIsKeptAlive
PROPERTIES ComesBack BrowserCreateSettles ProxyCloses
CHECK_DEADLOCK FALSE
