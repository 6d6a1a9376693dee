SPECIFICATION Spec
CONSTANTS
    server1 = server1
    browser1 = browser1
    guest1 = guest1
    Clients = {server1, guest1}
    Browser = {}
    Host = server1
    Doubtful = {guest1}
    MaxSockets = 2
    MaxTimers = 3
    MaxFaults = 3
    MaxAttempts = 2
INVARIANT EveryoneHasOneLine
CHECK_DEADLOCK FALSE
