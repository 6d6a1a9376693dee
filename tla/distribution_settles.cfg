SPECIFICATION FairSpec
CONSTANTS
    c1 = c1
    c2 = c2
    m1 = m1
    q1 = q1
    r1 = r1
    Clients = {c1, c2}
    Sends = {}
    Questions = {q1}
    Answers = {r1}
    AnswerTo <- MCAnswerTo
    Origin <- MCOrigin
    Target <- MCTarget
    Void = {r1}
    MaxConns = 2
    Closing = {c1, c2}
    SocketErrors = FALSE
    Reconnecting = {c2}
PROPERTIES AtMostOnce AskSettles AcksLeave
CHECK_DEADLOCK FALSE
