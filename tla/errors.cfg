SPECIFICATION SpecReports
CONSTANTS
    a1 = a1
    er = er
    sysAsk = sysAsk
    actorSend = actorSend
    Actors <- MCActors
    Msgs <- MCMsgs
    Asks = {sysAsk}
    FromSystem = {sysAsk}
    To <- MCTo
    Strategy <- MCStrategy
    MaxActors = 3
    Receivers = {er}
    Reports = {1, 2}
INVARIANTS TypeOKReports OncePerFailure
PROPERTY HearsOfEveryFailure
CHECK_DEADLOCK FALSE
