SPECIFICATION FairSpec
CONSTANTS
    a1 = a1
    a2 = a2
    sysAsk = sysAsk
    sysSend = sysSend
    actorAsk = actorAsk
    actorSend = actorSend
    Actors <- MCActors
    Msgs <- MCMsgs
    Asks <- MCAsks
    FromSystem <- MCFromSystem
    To <- MCTo
    Strategy <- MCStrategy
    MaxActors = 2
INVARIANTS TypeOK TimerMatchesAnswer
PROPERTIES NothingAfterStop PromiseSpec AskSettles
CHECK_DEADLOCK FALSE
