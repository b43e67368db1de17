------------------------------- MODULE Holper -------------------------------
(***************************************************************************)
(* The daemon of server.cpp and the clients of client.cpp: how a request   *)
(* travels through the threads of the daemon, and what happens to it and   *)
(* to everybody else when a client leaves, a command kills the process or  *)
(* systemd restarts it.                                                    *)
(*                                                                         *)
(*   client -connect-> Server -> Resolver -> WorkPool -> Workers           *)
(*                                    <-socket- Responder <-'              *)
(*                                                                         *)
(* The arrows are mailboxes.  A send and a receive are single steps here:  *)
(* ThreadQueue and WorkQueue show that the mutex and semaphore code does   *)
(* implement such a channel.                                               *)
(*                                                                         *)
(* One Request object is made per accepted connection, and a client makes  *)
(* one connection, so a request is named by its client; the request made   *)
(* of a failed accept is BadSocket.                                        *)
(***************************************************************************)
EXTENDS Integers, Sequences, FiniteSets

CONSTANTS Clients,       \* invocations of the client program
          Workers,       \* WorkPoolWorkers
          Commands,      \* kinds of command a client may ask for
          BadSocket,     \* the request on descriptor -1
          Backlog,       \* connections that wait for accept: listen(fd, 10)
          AcceptMayFail, \* whether accept() ever returns -1
          MaxRestarts,   \* bound: restarts by systemd
          NoAnswer,      \* the exit of a client that got no response
          None           \* no request, no work, no response, no exit

Requests == Clients \cup {BadSocket}

\* What a command does when a worker runs it: returns, fails (a group, bad
\* parameters or an exception: all become a response), never returns, or
\* kills the process (a division by zero, say).
Kinds == {"ok", "fails", "hangs", "kills"}

\* A Work, the code it will return unknown at first; a message to the responder;
\* and what is written to the client.
Work == [request : Requests, command : Commands, code : {0, -1, None}]
Reply == [request : Requests, code : {0, -1}]
Answers == [code : {0, -1}, id : Nat]

ASSUME CommandsOK == Commands \subseteq Kinds
ASSUME BadSocketIsNoClient == BadSocket \notin Clients
ASSUME NoneIsNeither == None \notin Requests \cup Int \cup {NoAnswer}
ASSUME NoneIsNoRecord == None \notin Work \cup Reply \cup Answers
ASSUME BoundsOK == /\ Backlog \in Nat /\ MaxRestarts \in Nat
                   /\ AcceptMayFail \in BOOLEAN

\* What runSingle returns: 0, or -1 with the reason as response
\* (workpool.cpp:25, 39, 41, 49).
CodeOf == [k \in {"ok", "fails"} |-> IF k = "ok" THEN 0 ELSE -1]

VARIABLES
    \* client.cpp
    command,      \* the command each client is started with
    client,       \* how far each client is
    written,      \* clients whose whole payload is in the socket
    exit,         \* the exit code of each client; NoAnswer if it has none
    \* the process, and systemd
    daemon,       \* "down", "ready" (systemd was told so) or "up"
    restarts,
    \* server.cpp and request.h
    backlog,      \* connections nobody has accepted yet
    idCounter,    \* Request::idCounter_
    id,           \* id_ of each request
    live,         \* Request objects that exist
    \* the mailboxes, and what each thread does with which message
    resolverQ, resolverPc, resolverReq,
    poolQ, poolWork, works,
    workerPc, workerWork,
    responderQ, responderMsg,
    \* the socket towards the client, and what was done
    response,     \* the response in the socket
    begun         \* history: how often a worker began each client's command

clientVars == <<command, client, written, exit>>
processVars == <<daemon, restarts>>
serverVars == <<backlog, idCounter, id>>
resolverVars == <<resolverQ, resolverPc, resolverReq>>
poolVars == <<poolQ, poolWork, works>>
workerVars == <<workerPc, workerWork>>
responderVars == <<responderQ, responderMsg>>
requests == <<serverVars, live>>
upstream == <<requests, resolverVars>>
downstream == <<workerVars, responderVars>>
daemonVars == <<upstream, poolVars, downstream>>
outside == <<clientVars, processVars, response>>
outcome == <<response, begun>>
vars == <<clientVars, processVars, daemonVars, outcome>>

Init == /\ command \in [Clients -> Commands]
        /\ client = [c \in Clients |-> "new"]
        /\ written = {}
        /\ exit = [c \in Clients |-> None]
        /\ daemon = "ready"
        /\ restarts = 0
        /\ backlog = <<>>
        /\ idCounter = 0
        /\ id = [r \in Requests |-> 0]
        /\ live = {}
        /\ resolverQ = <<>> /\ resolverPc = "wait" /\ resolverReq = None
        /\ poolQ = <<>> /\ poolWork = None
        /\ works = <<>>
        /\ workerPc = [w \in Workers |-> "wait"]
        /\ workerWork = [w \in Workers |-> None]
        /\ responderQ = <<>> /\ responderMsg = None
        /\ response = [c \in Clients |-> None]
        /\ begun = [c \in Clients |-> 0]

\* The process ends: an exception leaves a thread, or a signal kills it.
\* Its memory is gone and its sockets are closed; the payloads and responses
\* that were in them are not.
Down ==
    /\ daemon' = "down"
    /\ backlog' = <<>>
    /\ idCounter' = 0
    /\ id' = [r \in Requests |-> 0]
    /\ live' = {}
    /\ resolverQ' = <<>> /\ resolverPc' = "wait" /\ resolverReq' = None
    /\ poolQ' = <<>> /\ poolWork' = None
    /\ works' = <<>>
    /\ workerPc' = [w \in Workers |-> "wait"]
    /\ workerWork' = [w \in Workers |-> None]
    /\ responderQ' = <<>> /\ responderMsg' = None
    /\ UNCHANGED <<clientVars, restarts, outcome>>

-----------------------------------------------------------------------------
(* client.cpp                                                              *)

\* The daemon holds the other end of c's socket, accepted or not.
Connected(c) == c \in live \/ \E i \in DOMAIN backlog : backlog[i] = c

Move(c, from, to) ==
    /\ client[c] = from
    /\ client' = [client EXCEPT ![c] = to]

\* connect() returns as soon as the listening socket has room for c.
Connect(c) ==
    /\ daemon = "up"
    /\ Len(backlog) < Backlog
    /\ Move(c, "new", "connected")
    /\ backlog' = Append(backlog, c)
    /\ UNCHANGED <<command, written, exit, processVars, idCounter, id, live,
                   resolverVars, poolVars, downstream, outcome>>

\* "Cannot connect unix socket": nobody listens.
ConnectFails(c) ==
    /\ daemon # "up"
    /\ Move(c, "new", "failed")
    /\ exit' = [exit EXCEPT ![c] = NoAnswer]
    /\ UNCHANGED <<command, written, processVars, daemonVars, outcome>>

Write(c) ==
    /\ Connected(c)
    /\ Move(c, "connected", "waiting")
    /\ written' = written \cup {c}
    /\ UNCHANGED <<command, exit, processVars, daemonVars, outcome>>

\* The exit code of the client is the code of the response.
ReadResponse(c) ==
    /\ response[c] # None
    /\ Move(c, "waiting", "answered")
    /\ exit' = [exit EXCEPT ![c] = response[c].code]
    /\ UNCHANGED <<command, written, processVars, daemonVars, outcome>>

\* The socket was closed before the payload or the response got through: the
\* client ends by an exception or SIGPIPE.
SocketFails(c) ==
    /\ ~Connected(c)
    /\ response[c] = None
    /\ client[c] \in {"connected", "waiting"}
    /\ client' = [client EXCEPT ![c] = "failed"]
    /\ exit' = [exit EXCEPT ![c] = NoAnswer]
    /\ UNCHANGED <<command, written, processVars, daemonVars, outcome>>

\* The user interrupts the client, whose socket is closed with it.
Leave(c) ==
    /\ client[c] \in {"connected", "waiting"}
    /\ client' = [client EXCEPT ![c] = "gone"]
    /\ exit' = [exit EXCEPT ![c] = NoAnswer]
    /\ UNCHANGED <<command, written, processVars, daemonVars, outcome>>

-----------------------------------------------------------------------------
(* server.cpp: UnixSocket::serve and Server::accept                        *)

\* main tells systemd READY=1 and then binds and listens (server.cpp:135-136).
Listen ==
    /\ daemon = "ready"
    /\ daemon' = "up"
    /\ UNCHANGED <<clientVars, restarts, daemonVars, outcome>>

\* The constructor of Request takes the next id; the request goes to the
\* resolver.
MakeRequest(r) ==
    /\ idCounter' = idCounter + 1
    /\ id' = [id EXCEPT ![r] = idCounter']
    /\ live' = live \cup {r}
    /\ resolverQ' = Append(resolverQ, r)
    /\ UNCHANGED <<outside, resolverPc, resolverReq, poolVars, downstream,
                   begun>>

Accept ==
    /\ backlog # <<>>
    /\ backlog' = Tail(backlog)
    /\ MakeRequest(Head(backlog))

\* accept() returns -1, which is logged and then used like a descriptor.
AcceptFails ==
    /\ AcceptMayFail
    /\ daemon = "up"
    /\ BadSocket \notin live
    /\ UNCHANGED backlog
    /\ MakeRequest(BadSocket)

-----------------------------------------------------------------------------
(* resolver.cpp: Resolver::handleMessage                                   *)

ResolverReceive ==
    /\ resolverPc = "wait"
    /\ resolverQ # <<>>
    /\ resolverPc' = "read"
    /\ resolverReq' = Head(resolverQ)
    /\ resolverQ' = Tail(resolverQ)
    /\ UNCHANGED <<outside, requests, poolVars, downstream, begun>>

\* socket()->read() has the payload; a client that has left by then does not
\* matter.
ResolverRead ==
    /\ resolverPc = "read"
    /\ resolverReq \in written
    /\ resolverPc' = "send"
    /\ UNCHANGED <<outside, requests, resolverQ, resolverReq, poolVars,
                   downstream, begun>>

\* recv fails on descriptor -1, or keeps returning 0 until the three seconds
\* are over: either way an exception leaves the resolver thread.
ResolverReadFails ==
    /\ resolverPc = "read"
    /\ \/ resolverReq = BadSocket
       \/ /\ resolverReq \in Clients \ written
          /\ client[resolverReq] = "gone"
    /\ Down

\* The Work has the request's id and allocator and, bound in finish_, a plain
\* pointer to it; the resolver's unique_ptr still owns it.
ResolverSend ==
    /\ resolverPc = "send"
    /\ poolQ' = Append(poolQ, [request |-> resolverReq,
                               command |-> command[resolverReq],
                               code |-> None])
    /\ resolverPc' = "release"
    /\ UNCHANGED <<outside, requests, resolverQ, resolverReq, poolWork, works,
                   downstream, begun>>

\* Variant of ResolverRelease: without release() the unique_ptr destroys the
\* request.
ResolverDestroys ==
    /\ resolverPc = "release"
    /\ resolverPc' = "wait"
    /\ resolverReq' = None
    /\ live' = live \ {resolverReq}
    /\ UNCHANGED <<outside, serverVars, resolverQ, poolVars, downstream,
                   begun>>

\* request.release(): the pointer is dropped and the request, which may not
\* exist any more, is left alone.
ResolverRelease ==
    /\ resolverPc = "release"
    /\ resolverPc' = "wait"
    /\ resolverReq' = None
    /\ UNCHANGED <<outside, requests, resolverQ, poolVars, downstream, begun>>

-----------------------------------------------------------------------------
(* workpool.cpp                                                            *)

PoolReceive ==
    /\ poolWork = None
    /\ poolQ # <<>>
    /\ poolWork' = Head(poolQ)
    /\ poolQ' = Tail(poolQ)
    /\ UNCHANGED <<outside, upstream, works, downstream, begun>>

\* Variant of PoolPush: works_ is a stack.
PoolPushFront ==
    /\ poolWork # None
    /\ works' = <<poolWork>> \o works
    /\ poolWork' = None
    /\ UNCHANGED <<outside, upstream, poolQ, downstream, begun>>

PoolPush ==
    /\ poolWork # None
    /\ works' = Append(works, poolWork)
    /\ poolWork' = None
    /\ UNCHANGED <<outside, upstream, poolQ, downstream, begun>>

\* Variant of GetWork: front without pop.
GetWorkNoPop(w) ==
    /\ workerPc[w] = "wait"
    /\ works # <<>>
    /\ workerPc' = [workerPc EXCEPT ![w] = "run"]
    /\ workerWork' = [workerWork EXCEPT ![w] = Head(works)]
    /\ begun' = [begun EXCEPT ![Head(works).request] = @ + 1]
    /\ UNCHANGED <<outside, upstream, poolVars, responderVars>>

\* getWork, and the command begins.
GetWork(w) ==
    /\ workerPc[w] = "wait"
    /\ works # <<>>
    /\ workerPc' = [workerPc EXCEPT ![w] = "run"]
    /\ workerWork' = [workerWork EXCEPT ![w] = Head(works)]
    /\ works' = Tail(works)
    /\ begun' = [begun EXCEPT ![Head(works).request] = @ + 1]
    /\ UNCHANGED <<outside, upstream, poolQ, poolWork, responderVars>>

\* runSingle returns; a command that hangs never gets here.
RunSingle(w) ==
    /\ workerPc[w] = "run"
    /\ workerWork[w].command \in DOMAIN CodeOf
    /\ workerPc' = [workerPc EXCEPT ![w] = "finish"]
    /\ workerWork' = [workerWork EXCEPT
                        ![w].code = CodeOf[workerWork[w].command]]
    /\ UNCHANGED <<outside, upstream, poolVars, responderVars, begun>>

RunKills(w) ==
    /\ workerPc[w] = "run"
    /\ workerWork[w].command = "kills"
    /\ Down

\* Variant of Finish: the worker forgets to call finish_.
FinishNotCalled(w) ==
    /\ workerPc[w] = "finish"
    /\ workerPc' = [workerPc EXCEPT ![w] = "wait"]
    /\ workerWork' = [workerWork EXCEPT ![w] = None]
    /\ UNCHANGED <<outside, upstream, poolVars, responderVars, begun>>

\* Variant of Finish: the Work outlives the call.
FinishKeepsWork(w) ==
    /\ workerPc[w] = "finish"
    /\ responderQ' = Append(responderQ,
                            [request |-> workerWork[w].request,
                             code |-> workerWork[w].code])
    /\ workerPc' = [workerPc EXCEPT ![w] = "wait"]
    /\ UNCHANGED <<outside, upstream, poolVars, workerWork, responderMsg,
                   begun>>

\* finish_ is Resolver::sendToResponder: the plain pointer becomes the
\* unique_ptr of the ResponderArgs, and the Work is destroyed.
Finish(w) ==
    /\ workerPc[w] = "finish"
    /\ responderQ' = Append(responderQ,
                            [request |-> workerWork[w].request,
                             code |-> workerWork[w].code])
    /\ workerPc' = [workerPc EXCEPT ![w] = "wait"]
    /\ workerWork' = [workerWork EXCEPT ![w] = None]
    /\ UNCHANGED <<outside, upstream, poolVars, responderMsg, begun>>

-----------------------------------------------------------------------------
(* responder.cpp, and Request::sendResponse                                *)

\* Variant of ResponderReceive: front without pop.
ResponderReceiveNoPop ==
    /\ responderMsg = None
    /\ responderQ # <<>>
    /\ responderMsg' = Head(responderQ)
    /\ UNCHANGED <<outside, upstream, poolVars, workerVars, responderQ, begun>>

ResponderReceive ==
    /\ responderMsg = None
    /\ responderQ # <<>>
    /\ responderMsg' = Head(responderQ)
    /\ responderQ' = Tail(responderQ)
    /\ UNCHANGED <<outside, upstream, poolVars, workerVars, begun>>

\* Variant of Respond: nobody destroys the request.
RespondLeaks ==
    /\ responderMsg # None
    /\ client[responderMsg.request] # "gone"
    /\ response' = [response EXCEPT ![responderMsg.request] =
                      [code |-> responderMsg.code,
                       id |-> id[responderMsg.request]]]
    /\ responderMsg' = None
    /\ UNCHANGED <<clientVars, processVars, upstream, poolVars, workerVars,
                   responderQ, begun>>

\* The response is written, the socket is closed and, at the end of
\* handleMessage, the request is destroyed.
Respond ==
    /\ responderMsg # None
    /\ client[responderMsg.request] # "gone"
    /\ response' = [response EXCEPT ![responderMsg.request] =
                      [code |-> responderMsg.code,
                       id |-> id[responderMsg.request]]]
    /\ live' = live \ {responderMsg.request}
    /\ responderMsg' = None
    /\ UNCHANGED <<clientVars, processVars, serverVars, resolverVars, poolVars,
                   workerVars, responderQ, begun>>

\* The client has closed its end: send fails with EPIPE and SIGPIPE, one of
\* which ends the process.
RespondFails ==
    /\ responderMsg # None
    /\ client[responderMsg.request] = "gone"
    /\ Down

-----------------------------------------------------------------------------
(* holper.service: Restart=on-failure                                      *)

Restart ==
    /\ daemon = "down"
    /\ restarts < MaxRestarts
    /\ daemon' = "ready"
    /\ restarts' = restarts + 1
    /\ UNCHANGED <<clientVars, daemonVars, outcome>>

-----------------------------------------------------------------------------
Client(c) == \/ Connect(c) \/ ConnectFails(c) \/ Write(c) \/ ReadResponse(c)
             \/ SocketFails(c) \/ Leave(c)

Server == Listen \/ Accept \/ AcceptFails

Resolver == \/ ResolverReceive \/ ResolverRead \/ ResolverReadFails
            \/ ResolverSend \/ ResolverRelease

WorkPool == PoolReceive \/ PoolPush

Worker(w) == GetWork(w) \/ RunSingle(w) \/ RunKills(w) \/ Finish(w)

Responder == ResponderReceive \/ Respond \/ RespondFails

Next == \/ \E c \in Clients : Client(c)
        \/ Server \/ Resolver \/ WorkPool \/ Responder \/ Restart
        \/ \E w \in Workers : Worker(w)

Safety == Init /\ [][Next]_vars

\* Every thread that can go on does, one of the waiting workers gets a waiting
\* work, and a client goes on once it is connected.  Nobody has to start a
\* client, to interrupt one, or to make accept fail, and systemd need not
\* restart the daemon.
Spec ==
    /\ Safety
    /\ \A c \in Clients :
         WF_vars(Write(c) \/ ReadResponse(c) \/ SocketFails(c))
    /\ WF_vars(Listen) /\ WF_vars(Accept) /\ WF_vars(Resolver)
    /\ WF_vars(WorkPool) /\ WF_vars(Responder)
    /\ WF_vars(\E w \in Workers : GetWork(w))
    /\ \A w \in Workers : WF_vars(RunSingle(w) \/ RunKills(w) \/ Finish(w))

-----------------------------------------------------------------------------
(* Properties                                                              *)

Clean(x) == IF x = None THEN <<>> ELSE <<x.request>>
RequestsOf(queue) == [i \in DOMAIN queue |-> queue[i].request]

\* The requests no worker has taken yet, the next one to be taken first.
Waiting == RequestsOf(works) \o Clean(poolWork) \o RequestsOf(poolQ)
           \o (IF resolverPc \in {"read", "send"} THEN <<resolverReq>>
                                                ELSE <<>>)
           \o resolverQ

Places(queue, r) == Cardinality({i \in DOMAIN queue : queue[i] = r})

\* How many places answer for request r: a mailbox, or a thread that may use
\* it.  The resolver stops using it when it has sent the Work.
Owners(r) == Places(Waiting, r)
             + Cardinality({w \in Workers : workerWork[w] # None
                                            /\ workerWork[w].request = r})
             + Places(RequestsOf(responderQ), r)
             + Places(Clean(responderMsg), r)

\* Every variable has its type, and what a thread holds fits its pc.
TypeOK ==
    /\ command \in [Clients -> Commands]
    /\ client \in [Clients -> {"new", "connected", "waiting", "answered",
                               "failed", "gone"}]
    /\ written \subseteq Clients
    /\ exit \in [Clients -> {0, -1, NoAnswer, None}]
    /\ daemon \in {"down", "ready", "up"}
    /\ restarts \in 0..MaxRestarts
    /\ backlog \in Seq(Clients) /\ Len(backlog) <= Backlog
    /\ idCounter \in Nat
    /\ id \in [Requests -> Nat]
    /\ live \subseteq Requests
    /\ resolverQ \in Seq(Requests)
    /\ \/ resolverPc = "wait" /\ resolverReq = None
       \/ resolverPc \in {"read", "send", "release"} /\ resolverReq \in Requests
    /\ poolQ \in Seq(Work) /\ poolWork \in Work \cup {None}
    /\ works \in Seq(Work)
    /\ workerPc \in [Workers -> {"wait", "run", "finish"}]
    /\ workerWork \in [Workers -> Work \cup {None}]
    /\ \A w \in Workers : workerPc[w] = "wait" <=> workerWork[w] = None
    /\ responderQ \in Seq(Reply) /\ responderMsg \in Reply \cup {None}
    /\ response \in [Clients -> Answers \cup {None}]
    /\ begun \in [Clients -> Nat]

\* A request is used by one thread at a time, exists as long as anybody may
\* use it, is destroyed once, and is never forgotten: while it exists exactly
\* one place answers for it and afterwards none, although between sendMessage
\* and release (resolver.cpp:65-66) the resolver's unique_ptr and the Work's
\* plain pointer both lead to it.
OneOwner == \A r \in Requests : Owners(r) = IF r \in live THEN 1 ELSE 0

\* Existing requests have different ids, and the workers take the requests in
\* the order in which the server accepted them, whatever the resolver and the
\* pool are doing with the others.
InOrder ==
    /\ \A i, j \in DOMAIN Waiting :
         i < j => id[Waiting[i]] < id[Waiting[j]]
    /\ \A r1, r2 \in live : r1 # r2 => id[r1] # id[r2]
    /\ \A w \in Workers, i \in DOMAIN Waiting :
         workerWork[w] # None =>
           id[workerWork[w].request] < id[Waiting[i]]
    /\ \A r \in live : id[r] \in 1..idCounter

\* Nothing brings the daemon down but a failed accept, a command that kills the
\* process, or a client that left before its response was written.
DownNeedsFault ==
    daemon = "down" \/ restarts > 0 =>
        \/ AcceptMayFail
        \/ \E c \in Clients : command[c] = "kills" /\ begun[c] > 0
        \/ \E c \in Clients : client[c] = "gone" /\ response[c] = None

\* Through all threads, failures and restarts the daemon keeps the promise of
\* RequestService: a command begins at most once, and a client exits with the
\* code of its own command, and only after that command began.
Service == INSTANCE RequestService WITH
               asked <- written,
               Code <- CodeOf
ImplementsService == Service!Safety

\* While commands that hang leave a worker free, a client that has written its
\* request gets the response, unless it is interrupted or the daemon goes down.
ClientsAreServed ==
    \A c \in Clients :
      (/\ Cardinality({d \in Clients : command[d] = "hangs"})
            < Cardinality(Workers)
       /\ command[c] # "hangs"
       /\ client[c] = "waiting")
      ~> client[c] \in {"answered", "gone", "failed"}

\* request.h:188: "Worker thread executes action and sends response": when the
\* response is written, a worker has the request in hand.
WorkerSendsResponse ==
    [][\A c \in Clients :
         response'[c] # response[c] =>
           \E w \in Workers : workerWork[w] # None
                              /\ workerWork[w].request = c]_vars

\* holper.service:6 Type=notify and READY=1 (server.cpp:135): once systemd has
\* been told that the service is ready, a client can connect.
ReadyAcceptsClients ==
    [][\A c \in Clients : ConnectFails(c) => daemon = "down"]_vars
=============================================================================
