\* Three clients, two workers: more requests than workers, so they queue up
\* everywhere, with clients that leave, commands that kill the daemon and a
\* restart.  The run ends when every client has its exit.
SPECIFICATION Safety
CONSTANTS
    c1 = c1
    c2 = c2
    c3 = c3
    w1 = w1
    w2 = w2
    Clients <- ThreeClients
    Workers <- TwoWorkers
    Commands <- Ending
    BadSocket = badsocket
    Backlog = 2
    AcceptMayFail = FALSE
    MaxRestarts = 1
    NoAnswer = noanswer
    None = none
SYMMETRY Symmetry
INVARIANTS TypeOK OneOwner InOrder DownNeedsFault
PROPERTY ImplementsService
CHECK_DEADLOCK FALSE
