SPECIFICATION Spec
CONSTANTS
    c1 = c1
    c2 = c2
    m1 = m1
    q1 = q1
    q2 = q2
    r1 = r1
    r2 = r2
    Clients = {c1, c2}
    Sends = {m1}
    Questions = {q1}
    Answers = {r1}
    AnswerTo <- MCAnswerTo
    Origin <- ToAsker
    Target <- ToAskerTarget
    Void = {}
    MaxConns = 2
    Closing = {c1, c2}
    SocketErrors = FALSE
INVARIANTS TypeOK AcksArePending ResultIsReceived OpenIsReachable
PROPERTY PromiseSpec
CHECK_DEADLOCK FALSE
