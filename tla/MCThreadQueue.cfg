\* Two senders, three messages; the semaphore overflows at 2, so the failing
\* sem_post happens.  The run ends when the process terminated.
SPECIFICATION Spec
CONSTANTS
    s1 = s1
    s2 = s2
    m1 = m1
    m2 = m2
    m3 = m3
    Senders <- MCSenders
    Messages <- MCMessages
    Consumer = consumer
    SemMax = 2
    None = none
INVARIANTS TypeOK MutexGuardsQueue TokenBalance FrontExists OnePlace
PROPERTIES ImplementsChannel ImplementsFairness SentIsHandled
CHECK_DEADLOCK FALSE
