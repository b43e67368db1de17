\* Two clients, two workers: who writes the response.
SPECIFICATION Safety
CONSTANTS
    c1 = c1
    c2 = c2
    c3 = c3
    w1 = w1
    w2 = w2
    Clients <- TwoClients
    Workers <- TwoWorkers
    Commands <- Ending
    BadSocket = badsocket
    Backlog = 2
    AcceptMayFail = FALSE
    MaxRestarts = 0
    NoAnswer = noanswer
    None = none
PROPERTY WorkerSendsResponse
CHECK_DEADLOCK FALSE
