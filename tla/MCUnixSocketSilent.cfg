\* A client that may stop before its request is whole.
SPECIFICATION Spec
CONSTANTS
    c1 = c1
    c2 = c2
    Clients <- MCClients
    Payload = 2
    Capacity = 2
PROPERTIES ReadTimesOut
CHECK_DEADLOCK FALSE
