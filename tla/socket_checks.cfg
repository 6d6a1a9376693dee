SPECIFICATION FairSpec
CONSTANTS
    c1 = c1
    c2 = c2
    m1 = m1
    q1 = q1
    q2 = q2
    r1 = r1
    r2 = r2
    Clients = {c1, c2}
    Sends = {}
    Questions = {q1, q2}
    Answers = {r1, r2}
    AnswerTo <- MCAnswerTo
    Origin <- ByAsker
    Target <- ByAskerTarget
    Void = {}
    MaxConns = 1
    Closing = {c2}
    SocketErrors = TRUE
PROPERTY UnstuckSettles
CHECK_DEADLOCK FALSE
