SPECIFICATION Spec
CONSTANTS
    c1 = c1
    c2 = c2
    m1 = m1
    q1 = q1
    r1 = r1
    Clients = {c1, c2}
    Sends = {m1}
    Questions = {q1}
    Answers = {r1}
    AnswerTo <- MCAnswerTo
    Origin <- MCOrigin
    Target <- MCTarget
    Void = {}
    MaxConns = 1
    Closing = {c1, c2}
    SocketErrors = TRUE
    Reconnecting = {}
INVARIANTS TypeOK PendingIsOpen AckedIsTaken
PROPERTIES NothingAfterStop PromiseSpec
CHECK_DEADLOCK FALSE
