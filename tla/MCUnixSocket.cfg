\* Two clients; a frame of three units does not fit in a buffer of two, so a
\* writer blocks when its reader does not read.  The run ends when every client
\* is gone or the daemon is down.
SPECIFICATION Spec
CONSTANTS
    c1 = c1
    c2 = c2
    Clients <- MCClients
    Payload = 2
    Capacity = 2
INVARIANTS TypeOK ReadIsWhole DownNeedsLeaver
PROPERTIES AnsweredUnlessHeldUp
CHECK_DEADLOCK FALSE
