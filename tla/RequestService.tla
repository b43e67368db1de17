--------------------------- MODULE RequestService ---------------------------
(***************************************************************************)
(* What holper promises a user, with no threads, queues or sockets.  A     *)
(* client asks for one command.  The command is begun at most once; the    *)
(* client is told the code of its own command, after the command was       *)
(* begun, or it gets no answer at all.  A client that gave up cannot       *)
(* conclude that its command was not begun, or will not be.                *)
(***************************************************************************)
EXTENDS Naturals

CONSTANTS Clients,    \* each asks for one command
          Code,       \* a function: the code of every command that returns
          NoAnswer,   \* the exit of a client that got no response
          None        \* the exit of a client that still runs

VARIABLES command,    \* the command of each client
          asked,      \* clients whose command the daemon was given
          begun,      \* how often the command of each client was begun
          exit        \* what each client exited with

vars == <<command, asked, begun, exit>>

Init == /\ DOMAIN command = Clients
        /\ asked = {}
        /\ begun = [c \in Clients |-> 0]
        /\ exit = [c \in Clients |-> None]

Ask(c) == /\ c \notin asked
          /\ exit[c] = None
          /\ asked' = asked \cup {c}
          /\ UNCHANGED <<command, begun, exit>>

Begin(c) == /\ c \in asked
            /\ begun[c] = 0
            /\ begun' = [begun EXCEPT ![c] = 1]
            /\ UNCHANGED <<command, asked, exit>>

Answer(c) == /\ exit[c] = None
             /\ begun[c] = 1
             /\ command[c] \in DOMAIN Code
             /\ exit' = [exit EXCEPT ![c] = Code[command[c]]]
             /\ UNCHANGED <<command, asked, begun>>

GiveUp(c) == /\ exit[c] = None
             /\ exit' = [exit EXCEPT ![c] = NoAnswer]
             /\ UNCHANGED <<command, asked, begun>>

Next == \E c \in Clients : Ask(c) \/ Begin(c) \/ Answer(c) \/ GiveUp(c)

Safety == Init /\ [][Next]_vars
=============================================================================
