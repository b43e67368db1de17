\* Two clients, two workers, with everything that can go wrong: commands that
\* hang or kill, clients that leave, an accept that fails and a restart.  The run
\* ends when every client has its exit or waits for a command that hangs.
SPECIFICATION Spec
CONSTANTS
    c1 = c1
    c2 = c2
    c3 = c3
    w1 = w1
    w2 = w2
    Clients <- TwoClients
    Workers <- TwoWorkers
    Commands <- Risky
    BadSocket = badsocket
    Backlog = 2
    AcceptMayFail = TRUE
    MaxRestarts = 1
    NoAnswer = noanswer
    None = none
INVARIANT OneOwner
PROPERTY ClientsAreServed
CHECK_DEADLOCK FALSE
