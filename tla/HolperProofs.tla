---------------------------- MODULE HolperProofs ----------------------------
(***************************************************************************)
(* Proofs about Holper for any number of clients, workers, connections in  *)
(* the backlog and restarts, and whether or not accept may fail.           *)
(*                                                                         *)
(* The unit of the argument is the request on its way: Waiting (in the     *)
(* order in which workers will take them), Running, Replying, Responding.  *)
(* A step of a thread either moves one request from one of these places to *)
(* the next, or is invisible here, or ends the process and empties all.    *)
(***************************************************************************)
EXTENDS Holper, QueueLemmas

USE CommandsOK, BadSocketIsNoClient, NoneIsNeither, NoneIsNoRecord, BoundsOK
    DEF Requests, Kinds

Running == {workerWork[w].request : w \in {v \in Workers : workerWork[v] # None}}
Replying == Elements(RequestsOf(responderQ))
Responding == Elements(Clean(responderMsg))

\* Every existing request is in exactly one place, once; and nothing else is.
Ownership ==
    /\ Distinct(Waiting) /\ Distinct(RequestsOf(responderQ))
    /\ \A v, w \in Workers :
          v # w /\ workerWork[v] # None /\ workerWork[w] # None =>
             workerWork[v].request # workerWork[w].request
    /\ live = Elements(Waiting) \cup Running \cup Replying \cup Responding
    /\ Elements(Waiting) \cap (Running \cup Replying \cup Responding) = {}
    /\ Running \cap (Replying \cup Responding) = {}
    /\ Replying \cap Responding = {}

\* The Works and the messages to the responder that exist.
AllWorks == (Elements(works) \cup Elements(poolQ) \cup {poolWork}
             \cup {workerWork[w] : w \in Workers}) \ {None}
AllReplies == (Elements(responderQ) \cup {responderMsg}) \ {None}

\* Works and replies say what their client asked for and got.
Sound ==
    /\ \A x \in AllWorks : x.request \in written /\ x.command = command[x.request]
    /\ \A w \in Workers : workerPc[w] = "finish" =>
          /\ workerWork[w].command \in DOMAIN CodeOf
          /\ workerWork[w].code = CodeOf[workerWork[w].command]
    /\ \A x \in AllReplies :
          /\ x.request \in written
          /\ command[x.request] \in DOMAIN CodeOf
          /\ x.code = CodeOf[command[x.request]]
    /\ resolverPc = "send" => resolverReq \in written

\* How far a client is, in the daemon and in its own program.
Progress ==
    /\ Distinct(backlog) /\ Elements(backlog) \cap live = {}
    /\ \A c \in Clients :
          /\ client[c] = "new" =>
                c \notin Elements(backlog) \cup live /\ begun[c] = 0
          /\ client[c] \in {"new", "connected"} => c \notin written
          /\ exit[c] = None <=> client[c] \in {"new", "connected", "waiting"}
          /\ c \in Elements(backlog) \cup Elements(Waiting) => begun[c] = 0
          /\ c \in Running \cup Replying \cup Responding => begun[c] = 1
          /\ begun[c] = 0 \/ (begun[c] = 1 /\ c \in written)
          /\ response[c] # None =>
                /\ c \notin live /\ begun[c] = 1
                /\ command[c] \in DOMAIN CodeOf
                /\ response[c].code = CodeOf[command[c]]
    /\ BadSocket \in live => AcceptMayFail

IInv == TypeOK /\ Ownership /\ InOrder /\ Sound /\ Progress /\ DownNeedsFault

-----------------------------------------------------------------------------
(* The actions, by what they can disturb                                   *)

\* The end of the process, for whatever reason.
Dies == ResolverReadFails \/ RespondFails \/ \E w \in Workers : RunKills(w)

LEMMA DiesDown == Dies => Down
BY DEF Dies, ResolverReadFails, RunKills, RespondFails

LEMMA NextSplit ==
    ASSUME Next
    PROVE  \/ \E c \in Clients : Client(c)
           \/ Listen \/ Restart
           \/ Accept \/ AcceptFails
           \/ ResolverReceive \/ ResolverRead \/ ResolverSend \/ ResolverRelease
           \/ PoolReceive \/ PoolPush
           \/ \E w \in Workers : GetWork(w) \/ RunSingle(w) \/ Finish(w)
           \/ ResponderReceive \/ Respond
           \/ ResolverReadFails \/ RespondFails \/ \E w \in Workers : RunKills(w)
BY DEF Next, Server, Resolver, WorkPool, Worker, Responder

-----------------------------------------------------------------------------
(* Types                                                                   *)

LEMMA DownTyped == ASSUME TypeOK, Down PROVE TypeOK'
BY DEF Down, clientVars, outcome, TypeOK

LEMMA ClientTyped ==
    ASSUME TypeOK, NEW c \in Clients, Client(c)
    PROVE  TypeOK'
<1> USE DEF Move, processVars, daemonVars, upstream, requests, serverVars,
            resolverVars, poolVars, downstream, workerVars, responderVars, outcome
<1>1. CASE Connect(c)
  <2>1. backlog' \in Seq(Clients) /\ Len(backlog') <= Backlog
    BY <1>1 DEF Connect, TypeOK
  <2> QED BY <1>1, <2>1 DEF Connect, TypeOK
<1>2. CASE ConnectFails(c)
  BY <1>2 DEF ConnectFails, TypeOK
<1>3. CASE Write(c)
  BY <1>3 DEF Write, TypeOK
<1>4. CASE ReadResponse(c)
  <2>1. response[c].code \in {0, -1}
    BY <1>4 DEF ReadResponse, TypeOK, Answers
  <2> QED BY <1>4, <2>1 DEF ReadResponse, TypeOK
<1>5. CASE SocketFails(c)
  BY <1>5 DEF SocketFails, TypeOK
<1>6. CASE Leave(c)
  BY <1>6 DEF Leave, TypeOK
<1> QED BY <1>1, <1>2, <1>3, <1>4, <1>5, <1>6 DEF Client

LEMMA MakeRequestTyped ==
    ASSUME TypeOK, NEW r \in Requests, MakeRequest(r),
           backlog' \in Seq(Clients), Len(backlog') <= Backlog
    PROVE  TypeOK'
<1>1. resolverQ' \in Seq(Requests) /\ idCounter' \in Nat
  BY DEF MakeRequest, TypeOK
<1> QED
  BY <1>1 DEF MakeRequest, TypeOK, outside, clientVars, processVars, poolVars,
              downstream, workerVars, responderVars

LEMMA ServerTyped ==
    ASSUME TypeOK, Accept \/ AcceptFails
    PROVE  TypeOK'
<1>1. CASE Accept
  <2>1. /\ Head(backlog) \in Requests
        /\ backlog' \in Seq(Clients) /\ Len(backlog') <= Backlog
    BY <1>1, TailShape DEF Accept, TypeOK
  <2> QED BY <1>1, <2>1, MakeRequestTyped DEF Accept
<1>2. CASE AcceptFails
  BY <1>2, MakeRequestTyped DEF AcceptFails, TypeOK
<1> QED BY <1>1, <1>2

\* Only a request that was read, so one of a client, has a command to look up.
LEMMA ResolverTyped ==
    ASSUME TypeOK, Sound,
           ResolverReceive \/ ResolverRead \/ ResolverSend \/ ResolverRelease
    PROVE  TypeOK'
<1> USE DEF outside, clientVars, processVars, requests, serverVars, poolVars,
            downstream, workerVars, responderVars
<1>1. CASE ResolverReceive
  <2>1. Head(resolverQ) \in Requests /\ resolverQ' \in Seq(Requests)
    BY <1>1, TailShape DEF ResolverReceive, TypeOK
  <2> QED BY <1>1, <2>1 DEF ResolverReceive, TypeOK
<1>2. CASE ResolverRead
  BY <1>2 DEF ResolverRead, TypeOK
<1>3. CASE ResolverSend
  <2>1. resolverReq \in Clients
    BY <1>3 DEF ResolverSend, Sound, TypeOK
  <2> QED BY <1>3, <2>1 DEF ResolverSend, TypeOK, Work
<1>4. CASE ResolverRelease
  BY <1>4 DEF ResolverRelease, TypeOK
<1> QED BY <1>1, <1>2, <1>3, <1>4

LEMMA PoolTyped ==
    ASSUME TypeOK, WorkPool
    PROVE  TypeOK'
<1> USE DEF outside, clientVars, processVars, upstream, requests, serverVars,
            resolverVars, downstream, workerVars, responderVars
<1>1. CASE PoolReceive
  <2>1. Head(poolQ) \in Work /\ poolQ' \in Seq(Work)
    BY <1>1, TailShape DEF PoolReceive, TypeOK
  <2> QED BY <1>1, <2>1 DEF PoolReceive, TypeOK
<1>2. CASE PoolPush
  BY <1>2 DEF PoolPush, TypeOK
<1> QED BY <1>1, <1>2 DEF WorkPool

\* The oldest Work is one of a client, whose command it has.
LEMMA FrontWork ==
    ASSUME TypeOK, Sound, works # <<>>
    PROVE  /\ Head(works) \in Work /\ Head(works) # None
           /\ Head(works) \in AllWorks
           /\ Head(works).request \in written /\ Head(works).request \in Clients
           /\ works' = Tail(works) => works' \in Seq(Work)
<1>1. works \in Seq(Work)
  BY DEF TypeOK
<1>2. Head(works) \in Work /\ Tail(works) \in Seq(Work)
  BY <1>1, TailShape
<1>3. Head(works) # None
  BY <1>2
<1>4. Head(works) \in AllWorks
  BY <1>1, <1>3, PopElements DEF AllWorks
<1>5. Head(works).request \in written
  BY <1>4 DEF Sound
<1>6. Head(works).request \in Clients
  BY <1>5 DEF TypeOK
<1>7. works' = Tail(works) => works' \in Seq(Work)
  BY <1>2
<1> QED BY <1>2, <1>3, <1>4, <1>5, <1>6, <1>7

\* Running a command changes the code of the Work and nothing else of it.
LEMMA RunSingleWork ==
    ASSUME TypeOK, NEW w \in Workers, RunSingle(w)
    PROVE  /\ workerWork' \in [Workers -> Work \cup {None}]
           /\ \A v \in Workers \ {w} : workerWork'[v] = workerWork[v]
           /\ workerWork[w] \in Work /\ workerWork[w] # None
           /\ workerWork'[w] \in Work /\ workerWork'[w] # None
           /\ workerWork'[w].request = workerWork[w].request
           /\ workerWork'[w].command = workerWork[w].command
           /\ workerWork'[w].code = CodeOf[workerWork[w].command]
<1>1. /\ workerWork[w] \in Work /\ workerWork[w] # None
      /\ CodeOf[workerWork[w].command] \in {0, -1}
  BY DEF RunSingle, TypeOK, CodeOf
<1>2. /\ workerWork'[w] = [workerWork[w] EXCEPT
                              !.code = CodeOf[workerWork[w].command]]
      /\ \A v \in Workers \ {w} : workerWork'[v] = workerWork[v]
      /\ workerWork' = [v \in Workers |-> workerWork'[v]]
  BY DEF RunSingle, TypeOK
<1>3. /\ workerWork'[w] \in Work
      /\ workerWork'[w].request = workerWork[w].request
      /\ workerWork'[w].command = workerWork[w].command
      /\ workerWork'[w].code = CodeOf[workerWork[w].command]
  BY <1>1, <1>2 DEF Work
<1>4. workerWork'[w] # None
  BY <1>3
<1>5. workerWork' \in [Workers -> Work \cup {None}]
  BY <1>2, <1>3 DEF TypeOK
<1> QED BY <1>1, <1>2, <1>3, <1>4, <1>5

LEMMA WorkerTyped ==
    ASSUME TypeOK, Sound, NEW w \in Workers,
           GetWork(w) \/ RunSingle(w) \/ Finish(w)
    PROVE  TypeOK'
<1> USE DEF outside, clientVars, processVars, upstream, requests, serverVars,
            resolverVars, poolVars, responderVars
<1>1. CASE GetWork(w)
  <2>1. /\ Head(works) \in Work /\ Head(works) # None
        /\ Head(works).request \in Clients /\ works' \in Seq(Work)
    BY <1>1, FrontWork DEF GetWork
  <2>2. begun' \in [Clients -> Nat]
    BY <1>1, <2>1 DEF GetWork, TypeOK
  <2>3. /\ workerPc' \in [Workers -> {"wait", "run", "finish"}]
        /\ workerWork' \in [Workers -> Work \cup {None}]
        /\ \A v \in Workers : workerPc'[v] = "wait" <=> workerWork'[v] = None
    BY <1>1, <2>1 DEF GetWork, TypeOK
  <2> QED BY <1>1, <2>1, <2>2, <2>3 DEF GetWork, TypeOK
<1>2. CASE RunSingle(w)
  <2>1. /\ workerPc' \in [Workers -> {"wait", "run", "finish"}]
        /\ workerPc'[w] = "finish"
        /\ \A v \in Workers \ {w} : workerPc'[v] = workerPc[v]
    BY <1>2 DEF RunSingle, TypeOK
  <2>2. /\ workerWork' \in [Workers -> Work \cup {None}]
        /\ workerWork'[w] # None
        /\ \A v \in Workers \ {w} : workerWork'[v] = workerWork[v]
    BY <1>2, RunSingleWork
  <2>3. \A v \in Workers : workerPc'[v] = "wait" <=> workerWork'[v] = None
    BY <2>1, <2>2 DEF TypeOK
  <2> QED BY <1>2, <2>1, <2>2, <2>3 DEF RunSingle, TypeOK
<1>3. CASE Finish(w)
  <2>1. workerWork[w].request \in Requests
    BY <1>3 DEF Finish, TypeOK, Work
  <2>2. workerWork[w].code \in {0, -1}
    BY <1>3 DEF Finish, Sound, CodeOf
  <2>3. responderQ' \in Seq(Reply)
    BY <1>3, <2>1, <2>2 DEF Finish, TypeOK, Reply
  <2> QED BY <1>3, <2>3 DEF Finish, TypeOK
<1> QED BY <1>1, <1>2, <1>3

LEMMA ResponderTyped ==
    ASSUME TypeOK, ResponderReceive \/ Respond
    PROVE  TypeOK'
<1> USE DEF outside, clientVars, processVars, upstream, requests, serverVars,
            resolverVars, poolVars, workerVars
<1>1. CASE ResponderReceive
  <2>1. Head(responderQ) \in Reply /\ responderQ' \in Seq(Reply)
    BY <1>1, TailShape DEF ResponderReceive, TypeOK
  <2> QED BY <1>1, <2>1 DEF ResponderReceive, TypeOK
<1>2. CASE Respond
  <2>1. [code |-> responderMsg.code, id |-> id[responderMsg.request]] \in Answers
    BY <1>2 DEF Respond, TypeOK, Reply, Answers
  <2>2. response' \in [Clients -> Answers \cup {None}]
    BY <1>2, <2>1 DEF Respond, TypeOK
  <2> QED BY <1>2, <2>2 DEF Respond, TypeOK
<1> QED BY <1>1, <1>2

LEMMA InitTyped == Init => TypeOK
BY DEF Init, TypeOK

LEMMA StepTyped ==
    ASSUME TypeOK, Sound, [Next]_vars
    PROVE  TypeOK'
<1> USE DEF clientVars, processVars, daemonVars, upstream, requests, serverVars,
            resolverVars, poolVars, downstream, workerVars, responderVars,
            outcome
<1>1. CASE \E c \in Clients : Client(c)
  BY <1>1, ClientTyped
<1>2. CASE Listen \/ Restart
  BY <1>2 DEF Listen, Restart, TypeOK
<1>3. CASE Accept \/ AcceptFails
  BY <1>3, ServerTyped
<1>4. CASE ResolverReceive \/ ResolverRead \/ ResolverSend \/ ResolverRelease
  BY <1>4, ResolverTyped
<1>5. CASE PoolReceive \/ PoolPush
  BY <1>5, PoolTyped DEF WorkPool
<1>6. CASE \E w \in Workers : GetWork(w) \/ RunSingle(w) \/ Finish(w)
  BY <1>6, WorkerTyped
<1>7. CASE ResponderReceive \/ Respond
  BY <1>7, ResponderTyped
<1>8. CASE Dies
  BY <1>8, DiesDown, DownTyped
<1>9. CASE UNCHANGED vars
  BY <1>9 DEF vars, TypeOK
<1> QED
  BY <1>1, <1>2, <1>3, <1>4, <1>5, <1>6, <1>7, <1>8, <1>9, NextSplit DEF Dies

-----------------------------------------------------------------------------
(* What the queues hold, as requests                                       *)

LEMMA RequestsOfShape ==
    ASSUME NEW T, NEW q \in Seq(T), \A x \in T : x.request \in Requests
    PROVE  /\ RequestsOf(q) \in Seq(Requests)
           /\ Len(RequestsOf(q)) = Len(q) /\ DOMAIN RequestsOf(q) = 1 .. Len(q)
           /\ \A i \in 1 .. Len(q) : RequestsOf(q)[i] = q[i].request
<1>1. Len(q) \in Nat /\ DOMAIN q = 1 .. Len(q) /\ \A i \in 1 .. Len(q) : q[i] \in T
  BY LenProperties
<1>2. RequestsOf(q) = [i \in 1 .. Len(q) |-> q[i].request]
  BY <1>1 DEF RequestsOf
<1> QED BY <1>1, <1>2

LEMMA RequestsOfAppend ==
    ASSUME NEW T, NEW q \in Seq(T), \A x \in T : x.request \in Requests,
           NEW x \in T
    PROVE  RequestsOf(Append(q, x)) = Append(RequestsOf(q), x.request)
<1>1. Append(q, x) \in Seq(T) /\ Len(Append(q, x)) = Len(q) + 1
      /\ Len(q) \in Nat
  BY AppendProperties
<1>2. /\ RequestsOf(Append(q, x)) \in Seq(Requests)
      /\ Len(RequestsOf(Append(q, x))) = Len(q) + 1
      /\ \A i \in 1 .. Len(q) + 1 :
            RequestsOf(Append(q, x))[i] = Append(q, x)[i].request
  BY <1>1, RequestsOfShape
<1>3. /\ RequestsOf(q) \in Seq(Requests) /\ Len(RequestsOf(q)) = Len(q)
      /\ \A i \in 1 .. Len(q) : RequestsOf(q)[i] = q[i].request
  BY RequestsOfShape
<1>4. /\ Append(RequestsOf(q), x.request) \in Seq(Requests)
      /\ Len(Append(RequestsOf(q), x.request)) = Len(q) + 1
  BY <1>3, AppendProperties
<1>5. ASSUME NEW i \in 1 .. Len(q) + 1
      PROVE  Append(q, x)[i].request = Append(RequestsOf(q), x.request)[i]
  BY <1>1, <1>3, AppendShape
<1> QED BY <1>2, <1>4, <1>5, SeqEqual

LEMMA RequestsOfTail ==
    ASSUME NEW T, NEW q \in Seq(T), \A x \in T : x.request \in Requests,
           q # <<>>
    PROVE  /\ RequestsOf(q) # <<>>
           /\ Head(RequestsOf(q)) = Head(q).request
           /\ RequestsOf(Tail(q)) = Tail(RequestsOf(q))
<1>1. /\ Tail(q) \in Seq(T) /\ Len(Tail(q)) = Len(q) - 1
      /\ Len(q) \in Nat \ {0} /\ Head(q) = q[1]
      /\ \A i \in 1 .. Len(q) - 1 : Tail(q)[i] = q[i + 1]
  BY TailShape
<1>2. /\ RequestsOf(q) \in Seq(Requests) /\ Len(RequestsOf(q)) = Len(q)
      /\ \A i \in 1 .. Len(q) : RequestsOf(q)[i] = q[i].request
  BY RequestsOfShape
<1>3. RequestsOf(q) # <<>>
  BY <1>1, <1>2
<1>4. /\ Head(RequestsOf(q)) = RequestsOf(q)[1]
      /\ Tail(RequestsOf(q)) \in Seq(Requests)
      /\ Len(Tail(RequestsOf(q))) = Len(q) - 1
      /\ \A i \in 1 .. Len(q) - 1 : Tail(RequestsOf(q))[i] = RequestsOf(q)[i + 1]
  BY <1>2, <1>3, TailShape
<1>5. /\ RequestsOf(Tail(q)) \in Seq(Requests)
      /\ Len(RequestsOf(Tail(q))) = Len(q) - 1
      /\ \A i \in 1 .. Len(q) - 1 : RequestsOf(Tail(q))[i] = Tail(q)[i].request
  BY <1>1, RequestsOfShape
<1>6. RequestsOf(Tail(q)) = Tail(RequestsOf(q))
  <2>1. ASSUME NEW i \in 1 .. Len(q) - 1
        PROVE  RequestsOf(Tail(q))[i] = Tail(RequestsOf(q))[i]
    <3>1. i + 1 \in 1 .. Len(q)
      BY <1>1
    <3> QED BY <1>1, <1>2, <1>4, <1>5, <3>1
  <2> QED BY <1>4, <1>5, <2>1, SeqEqual
<1> QED BY <1>1, <1>2, <1>3, <1>4, <1>6

LEMMA RequestFields ==
    /\ \A x \in Work : x.request \in Requests
    /\ \A x \in Reply : x.request \in Requests
BY DEF Work, Reply

-----------------------------------------------------------------------------
(* Waiting, the order in which workers will take the requests              *)

\* The resolver's request, until the Work stands for it.
Reading == IF resolverPc \in {"read", "send"} THEN <<resolverReq>> ELSE <<>>

LEMMA WaitingTyped ==
    ASSUME TypeOK
    PROVE  /\ RequestsOf(works) \in Seq(Requests)
           /\ Clean(poolWork) \in Seq(Requests)
           /\ RequestsOf(works) \o Clean(poolWork) \in Seq(Requests)
           /\ RequestsOf(poolQ) \in Seq(Requests)
           /\ RequestsOf(works) \o Clean(poolWork) \o RequestsOf(poolQ)
                \in Seq(Requests)
           /\ Reading \in Seq(Requests) /\ resolverQ \in Seq(Requests)
           /\ RequestsOf(works) \o Clean(poolWork) \o RequestsOf(poolQ)
                \o Reading \in Seq(Requests)
           /\ Waiting \in Seq(Requests)
           /\ Waiting = RequestsOf(works) \o Clean(poolWork)
                        \o RequestsOf(poolQ) \o Reading \o resolverQ
<1>1. works \in Seq(Work) /\ poolQ \in Seq(Work)
  BY DEF TypeOK
<1>2. RequestsOf(works) \in Seq(Requests) /\ RequestsOf(poolQ) \in Seq(Requests)
  BY <1>1, RequestsOfShape, RequestFields
<1>3. Clean(poolWork) \in Seq(Requests)
  <2>1. poolWork # None => poolWork.request \in Requests
    BY RequestFields DEF TypeOK
  <2>2. CASE poolWork = None
    BY <2>2, EmptySeq DEF Clean
  <2>3. CASE poolWork # None
    <3>1. Clean(poolWork) = <<poolWork.request>>
      BY <2>3 DEF Clean
    <3> QED BY <2>1, <2>3, <3>1
  <2> QED BY <2>2, <2>3
<1>4. Reading \in Seq(Requests) /\ resolverQ \in Seq(Requests)
  <2>1. resolverPc \in {"read", "send"} => resolverReq \in Requests
    BY DEF TypeOK
  <2>2. resolverQ \in Seq(Requests)
    BY DEF TypeOK
  <2>3. CASE resolverPc \in {"read", "send"}
    <3>1. Reading = <<resolverReq>>
      BY <2>3 DEF Reading
    <3> QED BY <2>1, <2>2, <2>3, <3>1
  <2>4. CASE resolverPc \notin {"read", "send"}
    BY <2>2, <2>4, EmptySeq DEF Reading
  <2> QED BY <2>3, <2>4
<1>5. RequestsOf(works) \o Clean(poolWork) \in Seq(Requests)
  BY <1>2, <1>3, ConcatProperties
<1>6. RequestsOf(works) \o Clean(poolWork) \o RequestsOf(poolQ) \in Seq(Requests)
  BY <1>2, <1>5, ConcatProperties
<1>7. RequestsOf(works) \o Clean(poolWork) \o RequestsOf(poolQ) \o Reading
         \in Seq(Requests)
  BY <1>4, <1>6, ConcatProperties
<1>8. Waiting = RequestsOf(works) \o Clean(poolWork) \o RequestsOf(poolQ)
                \o Reading \o resolverQ
  BY DEF Waiting, Reading
<1> QED BY <1>2, <1>3, <1>4, <1>5, <1>6, <1>7, <1>8, ConcatProperties
LEMMA EmptyPlaces ==
    /\ RequestsOf(<<>>) = <<>> /\ Clean(None) = <<>>
    /\ \A x : x # None => Clean(x) = <<x.request>>
    /\ resolverPc \in {"read", "send"} => Reading = <<resolverReq>>
    /\ resolverPc \notin {"read", "send"} => Reading = <<>>
    /\ resolverPc' \in {"read", "send"} => Reading' = <<resolverReq'>>
    /\ resolverPc' \notin {"read", "send"} => Reading' = <<>>
BY DEF RequestsOf, Clean, Reading

LEMMA WaitingNext ==
    Waiting' = RequestsOf(works') \o Clean(poolWork') \o RequestsOf(poolQ')
               \o Reading' \o resolverQ'
BY DEF Waiting, Reading, RequestsOf, Clean

\* Below the front of the row no step changes what is waiting, or its order.
LEMMA WaitingKept ==
    ASSUME TypeOK, Sound,
           \/ ResolverReceive \/ ResolverRead \/ ResolverSend
           \/ ResolverRelease \/ PoolReceive \/ PoolPush
    PROVE  Waiting' = Waiting
<1> DEFINE W == RequestsOf(works)
           P == Clean(poolWork)
           Q == RequestsOf(poolQ)
<1> USE DEF upstream, requests, resolverVars, poolVars
<1>0. /\ W \in Seq(Requests) /\ P \in Seq(Requests) /\ Q \in Seq(Requests)
      /\ W \o P \in Seq(Requests) /\ W \o P \o Q \in Seq(Requests)
      /\ Reading \in Seq(Requests) /\ resolverQ \in Seq(Requests)
      /\ W \o P \o Q \o Reading \in Seq(Requests)
      /\ Waiting = W \o P \o Q \o Reading \o resolverQ
  BY WaitingTyped
<1> HIDE DEF W, P, Q
<1>1. CASE ResolverReceive
  <2>1. Reading = <<>> /\ Reading' = <<Head(resolverQ)>>
    BY <1>1, EmptyPlaces DEF ResolverReceive
  <2>2. Waiting' = W \o P \o Q \o <<Head(resolverQ)>> \o Tail(resolverQ)
    BY <1>1, <2>1, WaitingNext DEF ResolverReceive, W, P, Q
  <2>3. resolverQ # <<>> /\ Head(resolverQ) \in Requests
    BY <1>0, <1>1, TailShape DEF ResolverReceive
  <2>4. W \o P \o Q \o <<Head(resolverQ)>> = Append(W \o P \o Q, Head(resolverQ))
    BY <1>0, <2>3, AppendIsConcat
  <2>5. W \o P \o Q \o <<>> = W \o P \o Q
    BY <1>0, ConcatEmptySeq
  <2>6. Append(W \o P \o Q, Head(resolverQ)) \o Tail(resolverQ)
           = W \o P \o Q \o resolverQ
    <3> DEFINE F == W \o P \o Q
    <3>1. F \in Seq(Requests) /\ resolverQ \in Seq(Requests)
      BY <1>0
    <3> HIDE DEF F
    <3>2. Append(F, Head(resolverQ)) \o Tail(resolverQ) = F \o resolverQ
      BY <2>3, <3>1, ShiftFront
    <3> QED BY <3>2 DEF F
  <2>7. Waiting = W \o P \o Q \o <<>> \o resolverQ
    BY <1>0, <2>1
  <2> QED BY <2>2, <2>4, <2>5, <2>6, <2>7
<1>2. CASE ResolverRead
  <2>1. Reading' = Reading
    BY <1>2, EmptyPlaces DEF ResolverRead
  <2> QED BY <1>0, <1>2, <2>1, WaitingNext DEF ResolverRead, W, P, Q
<1>3. CASE ResolverSend
  <2>1. Reading = <<resolverReq>> /\ Reading' = <<>> /\ resolverReq \in Clients
    BY <1>3, EmptyPlaces DEF ResolverSend, TypeOK, Sound
  <2>2. RequestsOf(poolQ') = Append(Q, resolverReq)
    <3> DEFINE x == [request |-> resolverReq, command |-> command[resolverReq],
                     code |-> None]
    <3>1. poolQ \in Seq(Work) /\ x \in Work /\ x.request = resolverReq
      BY <2>1 DEF TypeOK, Work
    <3>2. poolQ' = Append(poolQ, x)
      BY <1>3 DEF ResolverSend
    <3> HIDE DEF x
    <3> QED BY <3>1, <3>2, RequestsOfAppend, RequestFields DEF Q
  <2>3. Waiting' = W \o P \o Append(Q, resolverReq) \o <<>> \o resolverQ
    BY <1>3, <2>1, <2>2, WaitingNext DEF ResolverSend, W, P
  <2>4. W \o P \o Append(Q, resolverReq) = W \o P \o Q \o <<resolverReq>>
    BY <1>0, <2>1, ConcatAppend, AppendIsConcat
  <2>5. W \o P \o Q \o <<resolverReq>> \o <<>> = W \o P \o Q \o <<resolverReq>>
    BY <1>0, <2>1, ConcatEmptySeq
  <2> QED BY <1>0, <2>1, <2>3, <2>4, <2>5
<1>4. CASE ResolverRelease
  <2>1. Reading = <<>> /\ Reading' = <<>>
    BY <1>4, EmptyPlaces DEF ResolverRelease
  <2> QED BY <1>0, <1>4, <2>1, WaitingNext DEF ResolverRelease, W, P, Q
<1>5. CASE PoolReceive
  <2>1. /\ poolQ \in Seq(Work) /\ poolQ # <<>> /\ Head(poolQ) \in Work
        /\ Head(poolQ) # None
    BY <1>5, TailShape DEF PoolReceive, TypeOK
  <2>2. /\ P = <<>> /\ Clean(poolWork') = <<Head(Q)>>
        /\ RequestsOf(poolQ') = Tail(Q) /\ Q # <<>> /\ Head(Q) \in Requests
    BY <1>5, <2>1, EmptyPlaces, RequestsOfTail, RequestFields
       DEF PoolReceive, P, Q
  <2>3. Reading' = Reading
    BY <1>5, EmptyPlaces DEF PoolReceive
  <2>4. Waiting' = W \o <<Head(Q)>> \o Tail(Q) \o Reading \o resolverQ
    BY <1>5, <2>2, <2>3, WaitingNext DEF PoolReceive, W
  <2>5. W \o <<Head(Q)>> \o Tail(Q) = W \o Q
    BY <1>0, <2>2, AppendIsConcat, ShiftFront
  <2>6. W \o <<>> = W
    BY <1>0, ConcatEmptySeq
  <2> QED BY <1>0, <2>2, <2>4, <2>5, <2>6
<1>6. CASE PoolPush
  <2>1. works \in Seq(Work) /\ poolWork \in Work /\ poolWork # None
    BY <1>6 DEF PoolPush, TypeOK
  <2>2. /\ RequestsOf(works') = Append(W, poolWork.request)
        /\ P = <<poolWork.request>> /\ Clean(poolWork') = <<>>
        /\ poolWork.request \in Requests
    BY <1>6, <2>1, EmptyPlaces, RequestsOfAppend, RequestFields
       DEF PoolPush, W, P
  <2>3. Reading' = Reading
    BY <1>6, EmptyPlaces DEF PoolPush
  <2>4. Waiting' = Append(W, poolWork.request) \o <<>> \o Q \o Reading \o resolverQ
    BY <1>6, <2>2, <2>3, WaitingNext DEF PoolPush, Q
  <2>5. Append(W, poolWork.request) \o <<>> = W \o P
    BY <1>0, <2>2, AppendIsConcat, ConcatEmptySeq
  <2> QED BY <1>0, <2>4, <2>5
<1> QED BY <1>1, <1>2, <1>3, <1>4, <1>5, <1>6

LEMMA WaitingUntouched ==
    ASSUME UNCHANGED <<poolVars, resolverVars>>
    PROVE  Waiting' = Waiting
BY DEF poolVars, resolverVars, Waiting

LEMMA WaitingEmptied == ASSUME Down PROVE Waiting' = <<>>
<1>1. Waiting' = <<>> \o <<>> \o <<>> \o <<>> \o <<>>
  BY WaitingNext, EmptyPlaces DEF Down
<1> QED BY <1>1

LEMMA WaitingGrows ==
    ASSUME TypeOK, NEW r \in Requests, MakeRequest(r)
    PROVE  Waiting' = Append(Waiting, r)
<1> DEFINE F == RequestsOf(works) \o Clean(poolWork) \o RequestsOf(poolQ)
                \o Reading
<1>1. F \in Seq(Requests) /\ resolverQ \in Seq(Requests)
      /\ Waiting = F \o resolverQ
  BY WaitingTyped
<1>2. Reading' = Reading
  BY EmptyPlaces DEF MakeRequest
<1>3. Waiting' = F \o Append(resolverQ, r)
  BY <1>2, WaitingNext DEF MakeRequest, poolVars
<1> HIDE DEF F
<1> QED BY <1>1, <1>3, ConcatAppend

\* A worker takes the request at the front.
LEMMA WaitingTaken ==
    ASSUME TypeOK, Sound, NEW w \in Workers, GetWork(w)
    PROVE  /\ Waiting # <<>> /\ Head(Waiting) = Head(works).request
           /\ Waiting' = Tail(Waiting)
<1> DEFINE W == RequestsOf(works)
           P == Clean(poolWork)
           Q == RequestsOf(poolQ)
<1>0. /\ W \in Seq(Requests) /\ P \in Seq(Requests) /\ Q \in Seq(Requests)
      /\ W \o P \in Seq(Requests) /\ W \o P \o Q \in Seq(Requests)
      /\ Reading \in Seq(Requests) /\ resolverQ \in Seq(Requests)
      /\ W \o P \o Q \o Reading \in Seq(Requests)
      /\ Waiting = W \o P \o Q \o Reading \o resolverQ
  BY WaitingTyped
<1>1. works \in Seq(Work) /\ works # <<>>
  BY DEF GetWork, TypeOK
<1>2. W # <<>> /\ Head(W) = Head(works).request
      /\ RequestsOf(works') = Tail(W)
  BY <1>1, RequestsOfTail, RequestFields DEF GetWork
<1>3. Reading' = Reading
  BY EmptyPlaces DEF GetWork, upstream, resolverVars
<1>4. Waiting' = Tail(W) \o P \o Q \o Reading \o resolverQ
  BY <1>2, <1>3, WaitingNext DEF GetWork, upstream, resolverVars
<1> HIDE DEF W, P, Q
<1>5. W \o P # <<>> /\ Head(W \o P) = Head(W) /\ Tail(W \o P) = Tail(W) \o P
  BY <1>0, <1>2, ConcatTail
<1> DEFINE WP == W \o P
           WQ == WP \o Q
           WR == WQ \o Reading
<1> HIDE DEF WP, WQ, WR
<1>6. /\ WP \in Seq(Requests) /\ WQ \in Seq(Requests) /\ WR \in Seq(Requests)
      /\ WP # <<>> /\ Head(WP) = Head(W) /\ Tail(WP) = Tail(W) \o P
      /\ Q \in Seq(Requests) /\ Reading \in Seq(Requests)
      /\ resolverQ \in Seq(Requests)
      /\ Waiting = WR \o resolverQ
  BY <1>0, <1>5 DEF WP, WQ, WR
<1>7. WQ # <<>> /\ Head(WQ) = Head(W) /\ Tail(WQ) = Tail(WP) \o Q
  BY <1>6, ConcatTail DEF WQ
<1>8. WR # <<>> /\ Head(WR) = Head(W) /\ Tail(WR) = Tail(WQ) \o Reading
  BY <1>6, <1>7, ConcatTail DEF WR
<1>9. /\ Waiting # <<>> /\ Head(Waiting) = Head(W)
      /\ Tail(Waiting) = Tail(WR) \o resolverQ
  <2>1. /\ WR \o resolverQ # <<>> /\ Head(WR \o resolverQ) = Head(WR)
        /\ Tail(WR \o resolverQ) = Tail(WR) \o resolverQ
    <3>1. WR \in Seq(Requests) /\ resolverQ \in Seq(Requests) /\ WR # <<>>
      BY <1>6, <1>8
    <3> QED BY ONLY <3>1, ConcatTail
  <2> QED BY <1>6, <1>8, <2>1
<1> QED BY <1>2, <1>4, <1>6, <1>7, <1>8, <1>9

-----------------------------------------------------------------------------
(* How a step moves requests from place to place                           *)

LEMMA InRunning ==
    /\ \A x : x \in Running <=>
          \E w \in Workers : workerWork[w] # None /\ workerWork[w].request = x
    /\ \A x : x \in Running' <=>
          \E w \in Workers : workerWork'[w] # None /\ workerWork'[w].request = x
BY DEF Running

LEMMA RespondingShape ==
    /\ responderMsg = None => Responding = {}
    /\ responderMsg # None => Responding = {responderMsg.request}
    /\ responderMsg' = None => Responding' = {}
    /\ responderMsg' # None => Responding' = {responderMsg'.request}
<1>1. \A x : Elements(<<x>>) = {x}
  BY DEF Elements
<1>2. Elements(<<>>) = {}
  BY DEF Elements
<1> QED BY <1>1, <1>2, EmptyPlaces DEF Responding, Clean

LEMMA ReplyingTyped ==
    ASSUME TypeOK
    PROVE  /\ RequestsOf(responderQ) \in Seq(Requests)
           /\ Replying = Elements(RequestsOf(responderQ))
           /\ Replying' = Elements(RequestsOf(responderQ'))
           /\ responderQ \in Seq(Reply)
<1>1. responderQ \in Seq(Reply)
  BY DEF TypeOK
<1> QED BY <1>1, RequestsOfShape, RequestFields DEF Replying, RequestsOf

LEMMA GetWorkMoves ==
    ASSUME TypeOK, Sound, Ownership, NEW w \in Workers, GetWork(w),
           NEW r, r = Head(works).request
    PROVE  /\ r \in Elements(Waiting) /\ Distinct(Waiting')
           /\ Elements(Waiting') = Elements(Waiting) \ {r}
           /\ Running' = Running \cup {r}
           /\ workerWork'[w] # None /\ workerWork'[w].request = r
           /\ \A v \in Workers \ {w} : workerWork'[v] = workerWork[v]
<1>1. /\ Waiting # <<>> /\ Head(Waiting) = r /\ Waiting' = Tail(Waiting)
      /\ Waiting \in Seq(Requests) /\ Distinct(Waiting)
  BY WaitingTaken, WaitingTyped DEF Ownership
<1>2. /\ Distinct(Waiting') /\ Elements(Waiting') = Elements(Waiting) \ {r}
      /\ r \in Elements(Waiting)
  BY <1>1, PopDistinct, PopElements
<1>3. /\ workerWork[w] = None /\ workerWork'[w] = Head(works)
      /\ Head(works) # None
      /\ \A v \in Workers \ {w} : workerWork'[v] = workerWork[v]
  BY FrontWork DEF GetWork, TypeOK
<1>4. Running' = Running \cup {r}
  BY <1>3, InRunning
<1> QED BY <1>2, <1>3, <1>4

LEMMA RunSingleMoves ==
    ASSUME TypeOK, NEW w \in Workers, RunSingle(w)
    PROVE  /\ Running' = Running
           /\ \A v \in Workers :
                 /\ workerWork'[v] # None <=> workerWork[v] # None
                 /\ workerWork'[v].request = workerWork[v].request
<1>1. \A v \in Workers :
         /\ workerWork'[v] # None <=> workerWork[v] # None
         /\ workerWork'[v].request = workerWork[v].request
  BY RunSingleWork
<1>2. \A x : x \in Running' <=> x \in Running
  BY <1>1, InRunning
<1> QED BY <1>1, <1>2

LEMMA FinishMoves ==
    ASSUME TypeOK, Sound, Ownership, NEW w \in Workers, Finish(w),
           NEW r, r = workerWork[w].request
    PROVE  /\ r \in Running /\ Running' = Running \ {r}
           /\ RequestsOf(responderQ') = Append(RequestsOf(responderQ), r)
           /\ Replying' = Replying \cup {r}
           /\ Distinct(RequestsOf(responderQ'))
           /\ workerWork'[w] = None
           /\ \A v \in Workers \ {w} : workerWork'[v] = workerWork[v]
<1>1. workerWork[w] # None /\ workerWork[w] \in Work /\ r \in Requests
  BY RequestFields DEF Finish, TypeOK
<1>2. /\ workerWork'[w] = None
      /\ \A v \in Workers \ {w} : workerWork'[v] = workerWork[v]
  BY DEF Finish, TypeOK
<1>3. r \in Running
  BY <1>1, InRunning
<1>4. Running' = Running \ {r}
  BY <1>1, <1>2, InRunning DEF Ownership
<1>5. RequestsOf(responderQ') = Append(RequestsOf(responderQ), r)
  <2> DEFINE x == [request |-> workerWork[w].request, code |-> workerWork[w].code]
  <2>1. workerWork[w].code \in {0, -1}
    BY DEF Finish, Sound, CodeOf
  <2>2. x \in Reply /\ x.request = r
    BY <1>1, <2>1 DEF Reply
  <2>3. responderQ' = Append(responderQ, x) /\ responderQ \in Seq(Reply)
    BY DEF Finish, TypeOK
  <2> HIDE DEF x
  <2> QED BY <2>2, <2>3, RequestsOfAppend, RequestFields
<1>6. Replying' = Replying \cup {r}
  BY <1>5, ReplyingTyped, AppendElements
<1>7. Distinct(RequestsOf(responderQ'))
  <2>1. r \notin Elements(RequestsOf(responderQ))
    BY <1>3, ReplyingTyped DEF Ownership
  <2> QED BY <1>5, <2>1, ReplyingTyped, AppendDistinct DEF Ownership
<1> QED BY <1>2, <1>3, <1>4, <1>5, <1>6, <1>7

LEMMA ReceiveMoves ==
    ASSUME TypeOK, Ownership, ResponderReceive, NEW r, r = Head(responderQ).request
    PROVE  /\ r \in Replying /\ Replying' = Replying \ {r}
           /\ Distinct(RequestsOf(responderQ'))
           /\ Responding = {} /\ Responding' = {r}
           /\ Head(responderQ) \in Reply /\ Head(responderQ) \in AllReplies
<1>1. /\ responderQ \in Seq(Reply) /\ responderQ # <<>>
      /\ Head(responderQ) \in Reply /\ Head(responderQ) # None
  BY TailShape DEF ResponderReceive, TypeOK
<1>2. /\ RequestsOf(responderQ) # <<>> /\ Head(RequestsOf(responderQ)) = r
      /\ RequestsOf(responderQ') = Tail(RequestsOf(responderQ))
  BY <1>1, RequestsOfTail, RequestFields DEF ResponderReceive
<1>3. /\ Replying' = Replying \ {r} /\ Distinct(RequestsOf(responderQ'))
      /\ r \in Replying
  BY <1>2, ReplyingTyped, PopDistinct, PopElements DEF Ownership
<1>4. Responding = {} /\ Responding' = {r}
  BY <1>1, RespondingShape DEF ResponderReceive
<1>5. Head(responderQ) \in AllReplies
  BY <1>1, PopElements DEF AllReplies
<1> QED BY <1>1, <1>3, <1>4, <1>5

\* The steps of everything but the threads that handle requests.
Around == (\E c \in Clients : Client(c)) \/ Listen \/ Restart \/ UNCHANGED vars

\* The steps that bring a request nearer to the workers.
Forward == \/ ResolverReceive \/ ResolverRead \/ ResolverSend \/ ResolverRelease
           \/ PoolReceive \/ PoolPush

LEMMA StepKinds ==
    ASSUME [Next]_vars
    PROVE  \/ Around \/ Forward \/ Accept \/ AcceptFails
           \/ \E w \in Workers : GetWork(w) \/ RunSingle(w) \/ Finish(w)
           \/ ResponderReceive \/ Respond \/ Dies
BY NextSplit DEF Around, Forward, Dies

LEMMA AroundLeaves ==
    ASSUME Around
    PROVE  UNCHANGED <<command, idCounter, id, live, resolverVars, poolVars,
                       downstream, outcome>>
<1> USE DEF clientVars, processVars, daemonVars, upstream, requests, serverVars
<1>1. ASSUME NEW c \in Clients, Client(c)
      PROVE  UNCHANGED <<command, idCounter, id, live, resolverVars, poolVars,
                         downstream, outcome>>
  BY <1>1 DEF Client, Connect, ConnectFails, Write, ReadResponse, SocketFails,
              Leave
<1> QED BY <1>1 DEF Around, Listen, Restart, vars

LEMMA ForwardLeaves ==
    ASSUME Forward
    PROVE  UNCHANGED <<outside, requests, downstream, begun>>
BY DEF Forward, ResolverReceive, ResolverRead, ResolverSend, ResolverRelease,
       PoolReceive, PoolPush, upstream

LEMMA DownstreamKept ==
    ASSUME UNCHANGED downstream
    PROVE  Running' = Running /\ Replying' = Replying /\ Responding' = Responding
BY DEF downstream, workerVars, responderVars, Running, Replying, Responding

LEMMA RespondersKept ==
    ASSUME UNCHANGED responderVars
    PROVE  Replying' = Replying /\ Responding' = Responding
BY DEF responderVars, Replying, Responding

\* A request that is made is new to the daemon.
LEMMA NewRequest ==
    ASSUME TypeOK, Progress, Accept \/ AcceptFails
    PROVE  \E r \in Requests \ live : MakeRequest(r)
<1>1. CASE Accept
  <2>1. backlog \in Seq(Clients) /\ backlog # <<>>
    BY <1>1 DEF Accept, TypeOK
  <2>2. Head(backlog) \in Elements(backlog) /\ Head(backlog) \in Clients
    BY <2>1, PopElements, TailShape
  <2> QED BY <1>1, <2>2 DEF Accept, Progress
<1>2. CASE AcceptFails
  BY <1>2 DEF AcceptFails
<1> QED BY <1>1, <1>2

LEMMA RespondMoves ==
    ASSUME TypeOK, Respond, NEW r, r = responderMsg.request
    PROVE  /\ Responding = {r} /\ Responding' = {} /\ live' = live \ {r}
           /\ Waiting' = Waiting /\ Running' = Running /\ Replying' = Replying
<1>1. Responding = {r} /\ Responding' = {}
  BY RespondingShape DEF Respond
<1> QED BY <1>1, WaitingUntouched
        DEF Respond, workerVars, Running, Replying

-----------------------------------------------------------------------------
(* Ownership                                                               *)

LEMMA OwnershipStep ==
    ASSUME TypeOK, Sound, Ownership, Progress, [Next]_vars
    PROVE  Ownership'
<1>1. CASE Around
  <2>1. Waiting' = Waiting
    BY <1>1, AroundLeaves, WaitingUntouched
  <2> QED BY <1>1, <2>1, AroundLeaves, DownstreamKept
          DEF Ownership, downstream, workerVars, responderVars
<1>2. CASE Forward
  <2>1. Waiting' = Waiting
    BY <1>2, WaitingKept DEF Forward
  <2> QED BY <1>2, <2>1, ForwardLeaves, DownstreamKept
          DEF Ownership, requests, downstream, workerVars, responderVars
<1>3. CASE Accept \/ AcceptFails
  <2>1. PICK r \in Requests \ live : MakeRequest(r)
    BY <1>3, NewRequest
  <2>2. Waiting' = Append(Waiting, r) /\ Waiting \in Seq(Requests)
    BY <2>1, WaitingGrows, WaitingTyped
  <2>3. /\ Elements(Waiting') = Elements(Waiting) \cup {r}
        /\ Distinct(Waiting')
    BY <2>1, <2>2, AppendElements, AppendDistinct DEF Ownership
  <2>4. /\ live' = live \cup {r}
        /\ Running' = Running /\ Replying' = Replying /\ Responding' = Responding
        /\ workerWork' = workerWork /\ responderQ' = responderQ
    BY <2>1, DownstreamKept
       DEF MakeRequest, downstream, workerVars, responderVars
  <2> QED BY <2>1, <2>3, <2>4 DEF Ownership
<1>4. ASSUME NEW w \in Workers, GetWork(w)
      PROVE  Ownership'
  <2> DEFINE r == Head(works).request
  <2>1. /\ r \in Elements(Waiting) /\ Distinct(Waiting')
        /\ Elements(Waiting') = Elements(Waiting) \ {r}
        /\ Running' = Running \cup {r}
        /\ workerWork'[w] # None /\ workerWork'[w].request = r
        /\ \A v \in Workers \ {w} : workerWork'[v] = workerWork[v]
    BY <1>4, GetWorkMoves
  <2>2. live' = live /\ Replying' = Replying /\ Responding' = Responding
        /\ responderQ' = responderQ
    BY <1>4, RespondersKept DEF GetWork, upstream, requests, responderVars
  <2> HIDE DEF r
  <2>3. \A u, v \in Workers :
           u # v /\ workerWork'[u] # None /\ workerWork'[v] # None =>
              workerWork'[u].request # workerWork'[v].request
    <3>1. r \notin Running
      BY <2>1 DEF Ownership
    <3> QED BY <2>1, <3>1, InRunning DEF Ownership
  <2> QED BY <2>1, <2>2, <2>3 DEF Ownership
<1>5. ASSUME NEW w \in Workers, RunSingle(w)
      PROVE  Ownership'
  <2>1. /\ Running' = Running
        /\ \A v \in Workers :
              /\ workerWork'[v] # None <=> workerWork[v] # None
              /\ workerWork'[v].request = workerWork[v].request
    BY <1>5, RunSingleMoves
  <2>2. /\ live' = live /\ Replying' = Replying /\ Responding' = Responding
        /\ responderQ' = responderQ /\ Waiting' = Waiting
    BY <1>5, RespondersKept, WaitingUntouched
       DEF RunSingle, upstream, requests, responderVars
  <2> QED BY <2>1, <2>2 DEF Ownership
<1>6. ASSUME NEW w \in Workers, Finish(w)
      PROVE  Ownership'
  <2> DEFINE r == workerWork[w].request
  <2>1. /\ r \in Running /\ Running' = Running \ {r}
        /\ Replying' = Replying \cup {r}
        /\ Distinct(RequestsOf(responderQ'))
        /\ workerWork'[w] = None
        /\ \A v \in Workers \ {w} : workerWork'[v] = workerWork[v]
    BY <1>6, FinishMoves
  <2>2. live' = live /\ Waiting' = Waiting /\ responderMsg' = responderMsg
    BY <1>6, WaitingUntouched DEF Finish, upstream, requests
  <2>3. Responding' = Responding
    BY <2>2 DEF Responding
  <2> HIDE DEF r
  <2>4. Distinct(RequestsOf(responderQ)')
    BY <2>1 DEF RequestsOf
  <2>5. \A u, v \in Workers :
           u # v /\ workerWork'[u] # None /\ workerWork'[v] # None =>
              workerWork'[u].request # workerWork'[v].request
    BY <2>1 DEF Ownership
  <2> QED BY <2>1, <2>2, <2>3, <2>4, <2>5 DEF Ownership
<1>7. CASE ResponderReceive
  <2> DEFINE r == Head(responderQ).request
  <2>1. /\ r \in Replying /\ Replying' = Replying \ {r}
        /\ Distinct(RequestsOf(responderQ'))
        /\ Responding = {} /\ Responding' = {r}
    BY <1>7, ReceiveMoves
  <2>2. /\ live' = live /\ Waiting' = Waiting
        /\ workerWork' = workerWork
    BY <1>7, WaitingUntouched
       DEF ResponderReceive, upstream, requests, workerVars
  <2>3. Running' = Running
    BY <2>2 DEF Running
  <2> HIDE DEF r
  <2> QED BY <2>1, <2>2, <2>3 DEF Ownership
<1>8. CASE Respond
  <2> DEFINE r == responderMsg.request
  <2>1. /\ Responding = {r} /\ Responding' = {} /\ live' = live \ {r}
        /\ Waiting' = Waiting /\ Running' = Running /\ Replying' = Replying
    BY <1>8, RespondMoves
  <2>2. workerWork' = workerWork /\ responderQ' = responderQ
    BY <1>8 DEF Respond, workerVars
  <2> HIDE DEF r
  <2> QED BY <2>1, <2>2 DEF Ownership
<1>9. CASE Dies
  <2>1. Waiting' = <<>> /\ Elements(<<>>) = {} /\ Distinct(<<>>)
    BY <1>9, DiesDown, WaitingEmptied DEF Elements, Distinct
  <2>2. live' = {} /\ RequestsOf(responderQ') = <<>> /\ Clean(responderMsg') = <<>>
        /\ \A v \in Workers : workerWork'[v] = None
    BY <1>9, DiesDown, EmptyPlaces DEF Down
  <2>3. Running' = {} /\ Replying' = {} /\ Responding' = {}
    BY <2>1, <2>2, InRunning DEF Replying, Responding
  <2> QED BY <2>1, <2>2, <2>3 DEF Ownership
<1> QED BY <1>1, <1>2, <1>3, <1>4, <1>5, <1>6, <1>7, <1>8, <1>9, StepKinds

\* Distinct places, counted: one for an existing request and none for others.
LEMMA OwnershipCounts ==
    ASSUME TypeOK, Ownership
    PROVE  OneOwner
<1> SUFFICES ASSUME NEW r \in Requests
             PROVE  Owners(r) = IF r \in live THEN 1 ELSE 0
  BY DEF OneOwner
<1> DEFINE Holders == {w \in Workers : workerWork[w] # None
                                       /\ workerWork[w].request = r}
<1>1. Places(Waiting, r) = IF r \in Elements(Waiting) THEN 1 ELSE 0
  <2>1. Waiting \in Seq(Requests) /\ Distinct(Waiting)
    BY WaitingTyped DEF Ownership
  <2>2. Cardinality(At(Waiting, r)) = IF r \in Elements(Waiting) THEN 1 ELSE 0
    BY <2>1, DistinctPlaces
  <2> QED BY <2>2 DEF Places, At
<1>2. Places(RequestsOf(responderQ), r) = IF r \in Replying THEN 1 ELSE 0
  BY ReplyingTyped, DistinctPlaces DEF Ownership, Places, At
<1>3. Places(Clean(responderMsg), r) = IF r \in Responding THEN 1 ELSE 0
  <2>1. CASE responderMsg = None
    <3>1. /\ {i \in DOMAIN Clean(responderMsg) : Clean(responderMsg)[i] = r} = {}
          /\ Responding = {}
      BY <2>1, EmptyPlaces, RespondingShape
    <3> QED BY <3>1, FS_EmptySet DEF Places
  <2>2. CASE responderMsg # None
    <3>1. Clean(responderMsg) = <<responderMsg.request>>
          /\ Responding = {responderMsg.request}
      BY <2>2, EmptyPlaces, RespondingShape
    <3>2. {i \in DOMAIN Clean(responderMsg) : Clean(responderMsg)[i] = r}
             = IF r \in Responding THEN {1} ELSE {}
      BY <3>1
    <3> QED BY <3>2, FS_EmptySet, FS_Singleton DEF Places
  <2> QED BY <2>1, <2>2
<1>4. Cardinality(Holders) = IF r \in Running THEN 1 ELSE 0
  <2>1. CASE r \in Running
    <3>1. PICK w \in Workers : workerWork[w] # None /\ workerWork[w].request = r
      BY <2>1, InRunning
    <3>2. Holders = {w}
      BY <3>1 DEF Ownership
    <3> QED BY <2>1, <3>2, FS_Singleton
  <2>2. CASE r \notin Running
    <3>1. Holders = {}
      BY <2>2, InRunning
    <3> QED BY <2>2, <3>1, FS_EmptySet
  <2> QED BY <2>1, <2>2
<1> HIDE DEF Holders
<1>5. Owners(r) = Places(Waiting, r) + Cardinality(Holders)
                  + Places(RequestsOf(responderQ), r)
                  + Places(Clean(responderMsg), r)
  BY DEF Owners, Holders
<1>6. /\ r \in live <=> \/ r \in Elements(Waiting) \/ r \in Running
                        \/ r \in Replying \/ r \in Responding
      /\ r \in Elements(Waiting) => r \notin Running \cup Replying \cup Responding
      /\ r \in Running => r \notin Replying \cup Responding
      /\ r \in Replying => r \notin Responding
  BY DEF Ownership
<1> QED BY <1>1, <1>2, <1>3, <1>4, <1>5, <1>6

-----------------------------------------------------------------------------
(* Order                                                                   *)

LEMMA InOrderStep ==
    ASSUME TypeOK, Sound, Ownership, Progress, InOrder, [Next]_vars
    PROVE  InOrder'
<1>0. /\ Waiting \in Seq(Requests) /\ Len(Waiting) \in Nat
      /\ DOMAIN Waiting = 1 .. Len(Waiting)
      /\ \A i \in DOMAIN Waiting : Waiting[i] \in live
      /\ \A w \in Workers : workerWork[w] # None => workerWork[w].request \in live
      /\ \A q \in live : id[q] \in Nat /\ id[q] <= idCounter
      /\ live \subseteq Requests /\ idCounter \in Nat /\ id \in [Requests -> Nat]
  <2>1. Waiting \in Seq(Requests)
    BY WaitingTyped
  <2>2. \A i \in DOMAIN Waiting : Waiting[i] \in live
    BY DEF Ownership, Elements
  <2>3. \A w \in Workers : workerWork[w] # None => workerWork[w].request \in live
    BY InRunning DEF Ownership
  <2>4. live \subseteq Requests /\ idCounter \in Nat /\ id \in [Requests -> Nat]
    BY DEF TypeOK
  <2> QED BY <2>1, <2>2, <2>3, <2>4, LenProperties DEF InOrder
<1>1. CASE Around
  BY <1>1, AroundLeaves, WaitingUntouched DEF InOrder, downstream, workerVars
<1>2. CASE Forward
  <2>1. Waiting' = Waiting
    BY <1>2, WaitingKept DEF Forward
  <2> QED BY <1>2, <2>1, ForwardLeaves
          DEF InOrder, requests, serverVars, downstream, workerVars
<1>3. CASE Accept \/ AcceptFails
  <2>1. PICK r \in Requests \ live : MakeRequest(r)
    BY <1>3, NewRequest
  <2>2. /\ Waiting' = Append(Waiting, r)
        /\ idCounter' = idCounter + 1 /\ id'[r] = idCounter + 1
        /\ \A q \in live : id'[q] = id[q]
        /\ live' = live \cup {r} /\ workerWork' = workerWork
    BY <1>0, <2>1, WaitingGrows DEF MakeRequest, downstream, workerVars
  <2>3. /\ DOMAIN Waiting' = 1 .. Len(Waiting) + 1
        /\ \A i \in 1 .. Len(Waiting) : Waiting'[i] = Waiting[i]
        /\ Waiting'[Len(Waiting) + 1] = r
    BY <1>0, <2>2, AppendShape
  <2>4. \A i, j \in DOMAIN Waiting' : i < j => id'[Waiting'[i]] < id'[Waiting'[j]]
    BY <1>0, <2>2, <2>3 DEF InOrder
  <2>5. \A r1, r2 \in live' : r1 # r2 => id'[r1] # id'[r2]
    BY <1>0, <2>2 DEF InOrder
  <2>6. \A w \in Workers, i \in DOMAIN Waiting' :
           workerWork'[w] # None =>
              id'[workerWork'[w].request] < id'[Waiting'[i]]
    BY <1>0, <2>2, <2>3 DEF InOrder
  <2>7. \A q \in live' : id'[q] \in 1 .. idCounter'
    BY <1>0, <2>2 DEF InOrder
  <2> QED BY <2>4, <2>5, <2>6, <2>7 DEF InOrder
<1>4. ASSUME NEW w \in Workers, GetWork(w)
      PROVE  InOrder'
  <2> DEFINE r == Head(works).request
  <2>1. /\ workerWork'[w].request = r
        /\ \A v \in Workers \ {w} : workerWork'[v] = workerWork[v]
    BY <1>4, GetWorkMoves
  <2>2. Waiting # <<>> /\ Head(Waiting) = r /\ Waiting' = Tail(Waiting)
    BY <1>4, WaitingTaken
  <2> HIDE DEF r
  <2>3. /\ Waiting[1] = r /\ 1 \in DOMAIN Waiting
        /\ DOMAIN Waiting' = 1 .. Len(Waiting) - 1
        /\ \A i \in 1 .. Len(Waiting) - 1 :
              /\ Waiting'[i] = Waiting[i + 1]
              /\ i + 1 \in DOMAIN Waiting /\ 1 < i + 1
    BY <1>0, <2>2, TailShape
  <2>4. id' = id /\ live' = live /\ idCounter' = idCounter
    BY <1>4 DEF GetWork, upstream, requests, serverVars
  <2>5. \A i, j \in DOMAIN Waiting' : i < j => id'[Waiting'[i]] < id'[Waiting'[j]]
    <3> SUFFICES ASSUME NEW i \in DOMAIN Waiting', NEW j \in DOMAIN Waiting', i < j
                 PROVE  id'[Waiting'[i]] < id'[Waiting'[j]]
      OBVIOUS
    <3>1. i + 1 < j + 1 /\ i + 1 \in DOMAIN Waiting /\ j + 1 \in DOMAIN Waiting
      BY <1>0, <2>3
    <3> QED BY <2>3, <2>4, <3>1 DEF InOrder
  <2>6. \A v \in Workers, i \in DOMAIN Waiting' :
           workerWork'[v] # None =>
              id'[workerWork'[v].request] < id'[Waiting'[i]]
    <3> SUFFICES ASSUME NEW v \in Workers, NEW i \in DOMAIN Waiting',
                        workerWork'[v] # None
                 PROVE  id'[workerWork'[v].request] < id'[Waiting'[i]]
      OBVIOUS
    <3>1. id[Waiting[1]] < id[Waiting[i + 1]]
      BY <2>3 DEF InOrder
    <3>2. CASE v = w
      BY <2>1, <2>3, <2>4, <3>1, <3>2
    <3>3. CASE v # w
      BY <2>1, <2>3, <2>4, <3>3 DEF InOrder
    <3> QED BY <3>2, <3>3
  <2> QED BY <2>4, <2>5, <2>6 DEF InOrder
<1>5. ASSUME NEW w \in Workers, RunSingle(w)
      PROVE  InOrder'
  <2>1. \A v \in Workers :
           /\ workerWork'[v] # None <=> workerWork[v] # None
           /\ workerWork'[v].request = workerWork[v].request
    BY <1>5, RunSingleMoves
  <2>2. /\ Waiting' = Waiting
        /\ id' = id /\ live' = live /\ idCounter' = idCounter
    BY <1>5, WaitingUntouched DEF RunSingle, upstream, requests, serverVars
  <2> QED BY <2>1, <2>2 DEF InOrder
<1>6. ASSUME NEW w \in Workers, Finish(w)
      PROVE  InOrder'
  <2>1. /\ workerWork'[w] = None
        /\ \A v \in Workers \ {w} : workerWork'[v] = workerWork[v]
    BY <1>6, FinishMoves
  <2>2. /\ Waiting' = Waiting
        /\ id' = id /\ live' = live /\ idCounter' = idCounter
    BY <1>6, WaitingUntouched DEF Finish, upstream, requests, serverVars
  <2> QED BY <2>1, <2>2 DEF InOrder
<1>7. CASE ResponderReceive \/ Respond
  <2>1. /\ Waiting' = Waiting /\ workerWork' = workerWork
        /\ id' = id /\ live' \subseteq live /\ idCounter' = idCounter
    BY <1>7, WaitingUntouched
       DEF ResponderReceive, Respond, upstream, requests, serverVars, workerVars
  <2> QED BY <2>1 DEF InOrder
<1>8. CASE Dies
  <2>1. Waiting' = <<>> /\ live' = {}
    BY <1>8, DiesDown, WaitingEmptied DEF Down
  <2> QED BY <2>1 DEF InOrder
<1> QED BY <1>1, <1>2, <1>3, <1>4, <1>5, <1>6, <1>7, <1>8, StepKinds

-----------------------------------------------------------------------------
(* What Works and replies say                                              *)

LEMMA WorksKept ==
    ASSUME UNCHANGED <<poolVars, workerVars>>
    PROVE  AllWorks' = AllWorks
BY DEF poolVars, workerVars, AllWorks

LEMMA RepliesKept ==
    ASSUME UNCHANGED responderVars
    PROVE  AllReplies' = AllReplies
BY DEF responderVars, AllReplies

\* A step that adds no Work or reply and lets no worker finish keeps them true.
LEMMA SoundKept ==
    ASSUME TypeOK, Sound, command' = command, written \subseteq written',
           AllWorks' \subseteq AllWorks, AllReplies' \subseteq AllReplies,
           \A w \in Workers : workerPc'[w] = "finish" =>
              workerPc[w] = "finish" /\ workerWork'[w] = workerWork[w],
           resolverPc' = "send" => resolverReq' \in written'
    PROVE  Sound'
BY DEF Sound

LEMMA SoundStep ==
    ASSUME TypeOK, Sound, Ownership, [Next]_vars
    PROVE  Sound'
<1> USE DEF outside, clientVars, processVars, requests, serverVars, upstream
<1>1. CASE Around
  <2>1. ASSUME NEW c \in Clients, Client(c) PROVE written \subseteq written'
    BY <2>1 DEF Client, Connect, ConnectFails, Write, ReadResponse, SocketFails,
                Leave
  <2>2. written \subseteq written'
    BY <1>1, <2>1 DEF Around, Listen, Restart, vars
  <2>3. AllWorks' = AllWorks /\ AllReplies' = AllReplies
    BY <1>1, AroundLeaves, WorksKept, RepliesKept DEF downstream
  <2>4. /\ command' = command /\ workerPc' = workerPc /\ workerWork' = workerWork
        /\ resolverPc' = resolverPc /\ resolverReq' = resolverReq
    BY <1>1, AroundLeaves DEF downstream, workerVars, resolverVars
  <2>5. resolverPc = "send" => resolverReq \in written
    BY DEF Sound
  <2> QED BY <2>2, <2>3, <2>4, <2>5, SoundKept
<1>2. CASE Forward
  <2>1. /\ command' = command /\ written' = written
        /\ workerPc' = workerPc /\ workerWork' = workerWork
        /\ AllReplies' = AllReplies
    BY <1>2, ForwardLeaves, RepliesKept DEF downstream, workerVars
  <2>2. resolverPc' = "send" => resolverReq' \in written'
    BY <1>2 DEF Sound, Forward, ResolverReceive, ResolverRead, ResolverSend,
                ResolverRelease, PoolReceive, PoolPush, resolverVars
  <2>3. CASE ResolverReceive \/ ResolverRead \/ ResolverRelease
    <3>1. AllWorks' = AllWorks
      BY <2>3, WorksKept DEF ResolverReceive, ResolverRead, ResolverRelease,
                             downstream
    <3> QED BY <2>1, <2>2, <3>1, SoundKept
  <2>4. CASE ResolverSend
    <3> DEFINE x == [request |-> resolverReq, command |-> command[resolverReq],
                     code |-> None]
    <3>1. /\ x.request \in written /\ x.command = command[x.request]
      BY <2>4 DEF ResolverSend, Sound
    <3>2. poolQ' = Append(poolQ, x) /\ poolWork' = poolWork /\ works' = works
      BY <2>4 DEF ResolverSend
    <3> HIDE DEF x
    <3>3. Elements(poolQ') = Elements(poolQ) \cup {x}
      BY <3>2, AppendElements DEF TypeOK
    <3>4. AllWorks' \subseteq AllWorks \cup {x}
      BY <2>1, <3>2, <3>3 DEF AllWorks
    <3> QED BY <2>1, <2>2, <3>1, <3>4 DEF Sound
  <2>5. CASE PoolReceive
    <3>1. Elements(poolQ) = {Head(poolQ)} \cup Elements(Tail(poolQ))
      BY <2>5, PopElements DEF PoolReceive, TypeOK
    <3>2. AllWorks' \subseteq AllWorks
      BY <2>1, <2>5, <3>1 DEF PoolReceive, AllWorks
    <3> QED BY <2>1, <2>2, <3>2, SoundKept
  <2>6. CASE PoolPush
    <3>1. Elements(works') = Elements(works) \cup {poolWork}
      BY <2>6, AppendElements DEF PoolPush, TypeOK
    <3>2. AllWorks' \subseteq AllWorks
      BY <2>1, <2>6, <3>1 DEF PoolPush, AllWorks
    <3> QED BY <2>1, <2>2, <3>2, SoundKept
  <2> QED BY <1>2, <2>3, <2>4, <2>5, <2>6 DEF Forward
<1>3. CASE Accept \/ AcceptFails
  <2>1. PICK r : MakeRequest(r)
    BY <1>3 DEF Accept, AcceptFails
  <2>2. /\ command' = command /\ written' = written
        /\ workerPc' = workerPc /\ workerWork' = workerWork
        /\ resolverPc' = resolverPc /\ resolverReq' = resolverReq
    BY <2>1 DEF MakeRequest, downstream, workerVars
  <2>3. AllWorks' = AllWorks /\ AllReplies' = AllReplies
    BY <2>1, WorksKept, RepliesKept DEF MakeRequest, downstream
  <2>4. resolverPc = "send" => resolverReq \in written
    BY DEF Sound
  <2> QED BY <2>2, <2>3, <2>4, SoundKept
<1>4. ASSUME NEW w \in Workers, GetWork(w)
      PROVE  Sound'
  <2>1. Elements(works) = {Head(works)} \cup Elements(works')
    BY <1>4, PopElements DEF GetWork, TypeOK
  <2>2. /\ workerWork'[w] = Head(works)
        /\ \A v \in Workers \ {w} : workerWork'[v] = workerWork[v]
        /\ workerPc'[w] = "run"
        /\ \A v \in Workers \ {w} : workerPc'[v] = workerPc[v]
    BY <1>4 DEF GetWork, TypeOK
  <2>3. /\ poolQ' = poolQ /\ poolWork' = poolWork
        /\ command' = command /\ written' = written
        /\ resolverPc' = resolverPc /\ resolverReq' = resolverReq
    BY <1>4 DEF GetWork, resolverVars
  <2>4. AllWorks' \subseteq AllWorks /\ AllReplies' = AllReplies
    BY <1>4, <2>1, <2>2, <2>3, RepliesKept DEF GetWork, AllWorks
  <2>5. \A v \in Workers : workerPc'[v] = "finish" =>
           workerPc[v] = "finish" /\ workerWork'[v] = workerWork[v]
    BY <2>2
  <2>6. resolverPc = "send" => resolverReq \in written
    BY DEF Sound
  <2> QED BY <2>3, <2>4, <2>5, <2>6, SoundKept
<1>5. ASSUME NEW w \in Workers, RunSingle(w)
      PROVE  Sound'
  <2> DEFINE x == workerWork'[w]
  <2>1. /\ \A v \in Workers \ {w} : workerWork'[v] = workerWork[v]
        /\ workerWork[w] # None
        /\ x.request = workerWork[w].request
        /\ x.command = workerWork[w].command
        /\ x.code = CodeOf[workerWork[w].command]
    BY <1>5, RunSingleWork
  <2>2. /\ poolQ' = poolQ /\ poolWork' = poolWork /\ works' = works
        /\ command' = command /\ written' = written
        /\ resolverPc' = resolverPc /\ resolverReq' = resolverReq
        /\ workerWork[w].command \in DOMAIN CodeOf
        /\ \A v \in Workers \ {w} : workerPc'[v] = workerPc[v]
    BY <1>5 DEF RunSingle, resolverVars, poolVars, TypeOK
  <2>3. AllWorks' \subseteq AllWorks \cup {x} /\ workerWork[w] \in AllWorks
    BY <2>1, <2>2 DEF AllWorks
  <2> HIDE DEF x
  <2>4. x.request \in written /\ x.command = command[x.request]
    BY <2>1, <2>3 DEF Sound
  <2>5. AllReplies' = AllReplies
    BY <1>5, RepliesKept DEF RunSingle
  <2>6. \A v \in Workers : workerPc'[v] = "finish" =>
           /\ workerWork'[v].command \in DOMAIN CodeOf
           /\ workerWork'[v].code = CodeOf[workerWork'[v].command]
    <3> SUFFICES ASSUME NEW v \in Workers, workerPc'[v] = "finish"
                 PROVE  /\ workerWork'[v].command \in DOMAIN CodeOf
                        /\ workerWork'[v].code = CodeOf[workerWork'[v].command]
      OBVIOUS
    <3>1. CASE v = w
      BY <2>1, <2>2, <3>1 DEF x
    <3>2. CASE v # w
      BY <2>1, <2>2, <3>2 DEF Sound
    <3> QED BY <3>1, <3>2
  <2> QED BY <2>2, <2>3, <2>4, <2>5, <2>6 DEF Sound
<1>6. ASSUME NEW w \in Workers, Finish(w)
      PROVE  Sound'
  <2> DEFINE x == [request |-> workerWork[w].request, code |-> workerWork[w].code]
  <2>1. workerWork[w] \in AllWorks
    BY <1>6 DEF Finish, TypeOK, AllWorks
  <2>2. /\ x.request \in written
        /\ command[x.request] \in DOMAIN CodeOf
        /\ x.code = CodeOf[command[x.request]]
    BY <1>6, <2>1 DEF Finish, Sound
  <2>3. /\ workerWork'[w] = None /\ workerPc'[w] = "wait"
        /\ \A v \in Workers \ {w} : workerWork'[v] = workerWork[v]
        /\ \A v \in Workers \ {w} : workerPc'[v] = workerPc[v]
    BY <1>6 DEF Finish, TypeOK
  <2>4. /\ poolQ' = poolQ /\ poolWork' = poolWork /\ works' = works
        /\ responderQ' = Append(responderQ, x) /\ responderMsg' = responderMsg
        /\ command' = command /\ written' = written
        /\ resolverPc' = resolverPc /\ resolverReq' = resolverReq
    BY <1>6 DEF Finish, resolverVars, poolVars
  <2> HIDE DEF x
  <2>5. AllWorks' \subseteq AllWorks
    BY <2>3, <2>4 DEF AllWorks
  <2>6. Elements(responderQ') = Elements(responderQ) \cup {x}
    BY <2>4, AppendElements DEF TypeOK
  <2>7. AllReplies' \subseteq AllReplies \cup {x}
    BY <2>4, <2>6 DEF AllReplies
  <2>8. \A v \in Workers : workerPc'[v] = "finish" =>
           workerPc[v] = "finish" /\ workerWork'[v] = workerWork[v]
    BY <2>3
  <2> QED BY <2>2, <2>4, <2>5, <2>7, <2>8 DEF Sound
<1>7. CASE ResponderReceive \/ Respond
  <2>1. /\ command' = command /\ written' = written
        /\ workerPc' = workerPc /\ workerWork' = workerWork
        /\ resolverPc' = resolverPc /\ resolverReq' = resolverReq
        /\ AllWorks' = AllWorks
    BY <1>7, WorksKept
       DEF ResponderReceive, Respond, workerVars, resolverVars
  <2>2. AllReplies' \subseteq AllReplies
    <3>1. CASE ResponderReceive
      <4>1. Elements(responderQ) = {Head(responderQ)} \cup Elements(responderQ')
        BY <3>1, PopElements DEF ResponderReceive, TypeOK
      <4> QED BY <3>1, <4>1 DEF ResponderReceive, AllReplies
    <3>2. CASE Respond
      BY <3>2 DEF Respond, AllReplies
    <3> QED BY <1>7, <3>1, <3>2
  <2>3. resolverPc = "send" => resolverReq \in written
    BY DEF Sound
  <2> QED BY <2>1, <2>2, <2>3, SoundKept
<1>8. CASE Dies
  <2>1. Down
    BY <1>8, DiesDown
  <2>2. AllWorks' = {} /\ AllReplies' = {}
    BY <2>1 DEF Down, AllWorks, AllReplies, Elements
  <2>3. /\ command' = command /\ written' = written /\ resolverPc' = "wait"
        /\ \A w \in Workers : workerPc'[w] = "wait"
    BY <2>1 DEF Down
  <2> QED BY <2>2, <2>3, SoundKept
<1> QED BY <1>1, <1>2, <1>3, <1>4, <1>5, <1>6, <1>7, <1>8, StepKinds

-----------------------------------------------------------------------------
(* How far the clients are                                                 *)

\* What Progress says of one client.
ClientProgress(c) ==
    /\ client[c] = "new" => c \notin Elements(backlog) \cup live /\ begun[c] = 0
    /\ client[c] \in {"new", "connected"} => c \notin written
    /\ exit[c] = None <=> client[c] \in {"new", "connected", "waiting"}
    /\ c \in Elements(backlog) \cup Elements(Waiting) => begun[c] = 0
    /\ c \in Running \cup Replying \cup Responding => begun[c] = 1
    /\ begun[c] = 0 \/ (begun[c] = 1 /\ c \in written)
    /\ response[c] # None =>
          /\ c \notin live /\ begun[c] = 1
          /\ command[c] \in DOMAIN CodeOf
          /\ response[c].code = CodeOf[command[c]]

LEMMA ProgressParts ==
    Progress <=> /\ Distinct(backlog) /\ Elements(backlog) \cap live = {}
                 /\ \A c \in Clients : ClientProgress(c)
                 /\ BadSocket \in live => AcceptMayFail
BY DEF Progress, ClientProgress

\* The same for the next state.
LEMMA ProgressNext ==
    ASSUME Distinct(backlog'), Elements(backlog') \cap live' = {},
           \A c \in Clients : ClientProgress(c)',
           BadSocket \in live' => AcceptMayFail
    PROVE  Progress'
BY DEF Progress, ClientProgress

LEMMA ClientStepProgress ==
    ASSUME TypeOK, Progress, NEW c \in Clients, Client(c)
    PROVE  Progress'
<1> USE DEF processVars, daemonVars, upstream, requests, serverVars
<1>0. /\ UNCHANGED <<command, live, outcome>>
      /\ Waiting' = Waiting /\ Running' = Running
      /\ Replying' = Replying /\ Responding' = Responding
  BY AroundLeaves, WaitingUntouched, DownstreamKept DEF Around
<1>1. /\ Distinct(backlog) /\ Elements(backlog) \cap live = {}
      /\ \A d \in Clients : ClientProgress(d)
      /\ BadSocket \in live => AcceptMayFail
  BY ProgressParts
<1>2. CASE Connect(c)
  <2>1. /\ client[c] = "new" /\ client'[c] = "connected"
        /\ \A d \in Clients \ {c} : client'[d] = client[d]
        /\ backlog' = Append(backlog, c)
        /\ exit' = exit /\ written' = written
    BY <1>2 DEF Connect, Move, TypeOK
  <2>2. c \notin Elements(backlog) \cup live /\ begun[c] = 0
    BY <1>1, <2>1 DEF ClientProgress
  <2>3. Elements(backlog') = Elements(backlog) \cup {c} /\ Distinct(backlog')
    BY <1>1, <2>1, <2>2, AppendElements, AppendDistinct DEF TypeOK
  <2>4. \A d \in Clients : ClientProgress(d)'
    BY <1>0, <1>1, <2>1, <2>2, <2>3 DEF ClientProgress, outcome
  <2> QED BY <1>0, <1>1, <2>2, <2>3, <2>4, ProgressNext
<1>3. CASE ~Connect(c)
  <2>1. /\ backlog' = backlog
        /\ \A d \in Clients \ {c} : client'[d] = client[d] /\ exit'[d] = exit[d]
        /\ client'[c] # "new"
        /\ written' = written \/ (written' = written \cup {c}
                                  /\ client'[c] = "waiting")
        /\ client'[c] = "connected" => client[c] = "connected"
        /\ client'[c] \in {"waiting", "connected"} =>
              exit'[c] = exit[c] /\ client[c] = "connected"
        /\ client'[c] \notin {"waiting", "connected"} => exit'[c] # None
    <3>1. CASE ConnectFails(c)
      BY <3>1 DEF ConnectFails, Move, TypeOK
    <3>2. CASE Write(c)
      BY <3>2 DEF Write, Move, TypeOK
    <3>3. CASE ReadResponse(c)
      <4>1. response[c].code # None
        BY <3>3 DEF ReadResponse, TypeOK, Answers
      <4> QED BY <3>3, <4>1 DEF ReadResponse, Move, TypeOK
    <3>4. CASE SocketFails(c)
      BY <3>4 DEF SocketFails, TypeOK
    <3>5. CASE Leave(c)
      BY <3>5 DEF Leave, TypeOK
    <3> QED BY <1>3, <3>1, <3>2, <3>3, <3>4, <3>5 DEF Client
  <2>2. client'[c] \in {"waiting", "connected", "answered", "failed", "gone"}
    BY <2>1, ClientTyped DEF TypeOK
  <2>3. ClientProgress(c)'
    BY <1>0, <1>1, <2>1, <2>2 DEF ClientProgress, outcome
  <2>4. \A d \in Clients \ {c} : ClientProgress(d)'
    BY <1>0, <1>1, <2>1 DEF ClientProgress, outcome
  <2> QED BY <1>0, <1>1, <2>1, <2>3, <2>4, ProgressNext
<1> QED BY <1>2, <1>3

\* The facts about one client that a step leaves alone: where nothing changes
\* for it but the thread that has its request.
LEMMA ClientKept ==
    ASSUME TypeOK, NEW c \in Clients, ClientProgress(c),
           client' = client, exit' = exit, written' = written, command' = command,
           begun'[c] = begun[c], response'[c] = response[c],
           c \in Elements(backlog') => c \in Elements(backlog),
           c \in live' => c \in live,
           c \in Elements(Waiting') => c \in Elements(Waiting),
           c \in Running' \cup Replying' \cup Responding'
             => c \in Running \cup Replying \cup Responding
    PROVE  ClientProgress(c)'
BY DEF ClientProgress

LEMMA ProgressStep ==
    ASSUME TypeOK, Sound, Ownership, Progress, [Next]_vars
    PROVE  Progress'
<1> USE DEF outside, clientVars, processVars, requests, serverVars, upstream
<1>0. /\ Distinct(backlog) /\ Elements(backlog) \cap live = {}
      /\ \A d \in Clients : ClientProgress(d)
      /\ BadSocket \in live => AcceptMayFail
  BY ProgressParts
<1>1. CASE Around
  <2>1. CASE \E c \in Clients : Client(c)
    BY <2>1, ClientStepProgress
  <2>2. CASE ~\E c \in Clients : Client(c)
    <3>1. /\ UNCHANGED <<clientVars, backlog, live, outcome>>
          /\ Waiting' = Waiting /\ Running' = Running
          /\ Replying' = Replying /\ Responding' = Responding
      BY <1>1, <2>2, AroundLeaves, WaitingUntouched, DownstreamKept
         DEF Around, Listen, Restart, vars, daemonVars
    <3>2. \A d \in Clients : ClientProgress(d)'
      BY <1>0, <3>1, ClientKept DEF outcome
    <3> QED BY <1>0, <3>1, <3>2, ProgressNext
  <2> QED BY <2>1, <2>2
<1>2. CASE Forward
  <2>1. /\ UNCHANGED <<clientVars, backlog, live, outcome>>
        /\ Waiting' = Waiting /\ Running' = Running
        /\ Replying' = Replying /\ Responding' = Responding
    BY <1>2, ForwardLeaves, WaitingKept, DownstreamKept DEF Forward, outcome
  <2>2. \A d \in Clients : ClientProgress(d)'
    BY <1>0, <2>1, ClientKept DEF outcome
  <2> QED BY <1>0, <2>1, <2>2, ProgressNext
<1>3. CASE Accept \/ AcceptFails
  <2>1. ASSUME NEW r \in Requests \ live, MakeRequest(r),
               \A c \in Clients : r = c => c \in Elements(backlog),
               Elements(backlog') \subseteq Elements(backlog) \ {r},
               Distinct(backlog'), r = BadSocket => AcceptMayFail
        PROVE  Progress'
    <3>1. /\ UNCHANGED <<clientVars, outcome>>
          /\ live' = live \cup {r} /\ Running' = Running
          /\ Replying' = Replying /\ Responding' = Responding
      BY <2>1, DownstreamKept DEF MakeRequest, outcome
    <3>2. Elements(Waiting') = Elements(Waiting) \cup {r}
      BY <2>1, WaitingGrows, WaitingTyped, AppendElements
    <3>3. \A d \in Clients : ClientProgress(d)'
      BY <1>0, <2>1, <3>1, <3>2 DEF ClientProgress, outcome
    <3> QED BY <1>0, <2>1, <3>1, <3>3, ProgressNext
  <2>2. CASE Accept
    <3>1. backlog \in Seq(Clients) /\ backlog # <<>> /\ backlog' = Tail(backlog)
      BY <2>2 DEF Accept, TypeOK
    <3>2. /\ Distinct(backlog')
          /\ Elements(backlog') = Elements(backlog) \ {Head(backlog)}
          /\ Head(backlog) \in Elements(backlog) /\ Head(backlog) \in Clients
      BY <1>0, <3>1, PopDistinct, PopElements, TailShape
    <3> QED BY <1>0, <2>1, <2>2, <3>2 DEF Accept
  <2>3. CASE AcceptFails
    <3>1. backlog' = backlog /\ BadSocket \notin Elements(backlog)
      BY <2>3, ElementsInRange DEF AcceptFails, TypeOK
    <3> QED BY <1>0, <2>1, <2>3, <3>1 DEF AcceptFails
  <2> QED BY <1>3, <2>2, <2>3
<1>4. ASSUME NEW w \in Workers, GetWork(w)
      PROVE  Progress'
  <2>0. PICK r \in Clients : r = Head(works).request
    BY <1>4, FrontWork DEF GetWork
  <2>1. /\ r \in Elements(Waiting) /\ Elements(Waiting') = Elements(Waiting) \ {r}
        /\ Running' = Running \cup {r}
    BY <1>4, <2>0, GetWorkMoves
  <2>2. r \in written
    BY <1>4, <2>0, FrontWork DEF GetWork
  <2>3. /\ UNCHANGED <<clientVars, backlog, live, response>>
        /\ Replying' = Replying /\ Responding' = Responding
        /\ begun'[r] = begun[r] + 1
        /\ \A d \in Clients \ {r} : begun'[d] = begun[d]
    BY <1>4, <2>0, RespondersKept DEF GetWork, TypeOK
  <2>4. begun[r] = 0
    BY <1>0, <2>1, <2>2 DEF ClientProgress
  <2>5. r \in live /\ r \notin Elements(backlog)
    BY <1>0, <2>1 DEF Ownership
  <2>6. ClientProgress(r)'
    BY <1>0, <2>1, <2>2, <2>3, <2>4, <2>5 DEF ClientProgress
  <2>7. \A d \in Clients \ {r} : ClientProgress(d)'
    BY <1>0, <2>1, <2>3, ClientKept
  <2> QED BY <1>0, <2>3, <2>6, <2>7, ProgressNext
<1>5. ASSUME NEW w \in Workers, RunSingle(w) \/ Finish(w)
      PROVE  Progress'
  <2>1. /\ UNCHANGED <<clientVars, backlog, live, outcome>>
        /\ Waiting' = Waiting
    BY <1>5, WaitingUntouched DEF RunSingle, Finish, outcome
  <2>2. Running' \cup Replying' \cup Responding'
           = Running \cup Replying \cup Responding
    <3>1. CASE RunSingle(w)
      BY <3>1, RunSingleMoves, RespondersKept DEF RunSingle
    <3>2. CASE Finish(w)
      <4>1. Responding' = Responding
        BY <3>2 DEF Finish, Responding
      <4> QED BY <3>2, <4>1, FinishMoves
    <3> QED BY <1>5, <3>1, <3>2
  <2>3. \A d \in Clients : ClientProgress(d)'
    BY <1>0, <2>1, <2>2, ClientKept DEF outcome
  <2> QED BY <1>0, <2>1, <2>3, ProgressNext
<1>6. CASE ResponderReceive
  <2>1. /\ UNCHANGED <<clientVars, backlog, live, outcome>>
        /\ Waiting' = Waiting /\ workerWork' = workerWork
    BY <1>6, WaitingUntouched DEF ResponderReceive, outcome, workerVars
  <2>2. Running' \cup Replying' \cup Responding'
           = Running \cup Replying \cup Responding
    <3>1. Running' = Running
      BY <2>1 DEF Running
    <3> QED BY <1>6, <3>1, ReceiveMoves
  <2>3. \A d \in Clients : ClientProgress(d)'
    BY <1>0, <2>1, <2>2, ClientKept DEF outcome
  <2> QED BY <1>0, <2>1, <2>3, ProgressNext
<1>7. CASE Respond
  <2>0. PICK r \in Clients : r = responderMsg.request
    BY <1>7 DEF Respond, Sound, AllReplies, TypeOK
  <2>1. /\ Responding = {r} /\ Responding' = {} /\ live' = live \ {r}
        /\ Waiting' = Waiting /\ Running' = Running /\ Replying' = Replying
    BY <1>7, <2>0, RespondMoves
  <2>2. /\ r \in written /\ command[r] \in DOMAIN CodeOf
        /\ responderMsg.code = CodeOf[command[r]]
    BY <1>7, <2>0 DEF Respond, Sound, AllReplies, TypeOK
  <2>3. /\ UNCHANGED <<clientVars, backlog, begun>>
        /\ response'[r].code = responderMsg.code
        /\ \A d \in Clients \ {r} : response'[d] = response[d]
    BY <1>7, <2>0 DEF Respond, TypeOK
  <2>4. /\ r \in live /\ r \notin Elements(Waiting) \cup Running \cup Replying
    BY <2>1 DEF Ownership
  <2>5. ClientProgress(r)'
    BY <1>0, <2>1, <2>2, <2>3, <2>4 DEF ClientProgress
  <2>6. \A d \in Clients \ {r} : ClientProgress(d)'
    BY <1>0, <2>1, <2>3, ClientKept
  <2> QED BY <1>0, <2>1, <2>3, <2>5, <2>6, ProgressNext
<1>8. CASE Dies
  <2>1. Down
    BY <1>8, DiesDown
  <2>2. Waiting' = <<>> /\ backlog' = <<>> /\ Elements(<<>>) = {}
        /\ Distinct(<<>>)
    BY <2>1, WaitingEmptied DEF Down, Elements, Distinct
  <2>3. /\ live' = {} /\ RequestsOf(responderQ') = <<>>
        /\ Clean(responderMsg') = <<>>
        /\ \A w \in Workers : workerWork'[w] = None
    BY <2>1, EmptyPlaces DEF Down
  <2>4. Running' = {} /\ Replying' = {} /\ Responding' = {}
    BY <2>2, <2>3, InRunning DEF Replying, Responding
  <2>5. UNCHANGED <<clientVars, outcome>>
    BY <2>1 DEF Down
  <2>6. \A d \in Clients : ClientProgress(d)'
    BY <1>0, <2>2, <2>3, <2>4, <2>5, ClientKept DEF outcome
  <2> QED BY <2>2, <2>3, <2>6, ProgressNext
<1> QED BY <1>1, <1>2, <1>3, <1>4, <1>5, <1>6, <1>7, <1>8, StepKinds

-----------------------------------------------------------------------------
(* Faults                                                                  *)

\* What brings the daemon down, and stays true.
Fault ==
    \/ AcceptMayFail
    \/ \E c \in Clients : command[c] = "kills" /\ begun[c] > 0
    \/ \E c \in Clients : client[c] = "gone" /\ response[c] = None

LEMMA FaultLasts ==
    ASSUME TypeOK, Sound, Fault, [Next]_vars
    PROVE  Fault'
<1> USE DEF outside, clientVars, processVars, requests, serverVars, upstream,
            outcome
<1>1. /\ command' = command /\ \A c \in Clients : begun'[c] >= begun[c]
      /\ \A c \in Clients : client[c] = "gone" /\ response[c] = None =>
            client'[c] = "gone" /\ response'[c] = None
  <2>0. \A c \in Clients : begun[c] \in Nat
    BY DEF TypeOK
  <2>1. ASSUME NEW d \in Clients, Client(d)
        PROVE  \A c \in Clients : client[c] = "gone" => client'[c] = "gone"
    BY <2>1 DEF Client, Connect, ConnectFails, Write, ReadResponse, SocketFails,
                Leave, Move, TypeOK
  <2>2. CASE Around
    <3>1. command' = command /\ begun' = begun /\ response' = response
      BY <2>2, AroundLeaves
    <3>2. \A c \in Clients : client[c] = "gone" => client'[c] = "gone"
      BY <2>1, <2>2 DEF Around, Listen, Restart, vars
    <3> QED BY <2>0, <3>1, <3>2
  <2>3. CASE Forward \/ Accept \/ AcceptFails \/ ResponderReceive
    BY <2>0, <2>3, ForwardLeaves
       DEF Accept, AcceptFails, MakeRequest, ResponderReceive
  <2>4. ASSUME NEW w \in Workers, GetWork(w)
        PROVE  \A c \in Clients : begun'[c] >= begun[c]
    <3>1. PICK r \in Clients : r = Head(works).request
      BY <2>4, FrontWork DEF GetWork
    <3>2. begun' = [begun EXCEPT ![r] = @ + 1]
      BY <2>4, <3>1 DEF GetWork
    <3> QED BY <2>0, <3>2 DEF TypeOK
  <2>5. CASE \E w \in Workers : GetWork(w) \/ RunSingle(w) \/ Finish(w)
    BY <2>0, <2>4, <2>5 DEF GetWork, RunSingle, Finish
  <2>6. CASE Respond
    BY <2>0, <2>6 DEF Respond, TypeOK
  <2>7. CASE Dies
    BY <2>0, <2>7, DiesDown DEF Down
  <2> QED BY <2>2, <2>3, <2>5, <2>6, <2>7, StepKinds
<1>2. \A c \in Clients : begun[c] \in Nat /\ begun'[c] \in Nat
  BY StepTyped DEF TypeOK
<1> QED BY <1>1, <1>2 DEF Fault

LEMMA DeathIsFault ==
    ASSUME TypeOK, Ownership, Sound, Progress, Dies
    PROVE  Fault
<1>0. \A c \in Clients : ClientProgress(c)
  BY ProgressParts
<1>1. CASE ResolverReadFails
  <2>1. resolverReq \in live
    <3>1. Reading = <<resolverReq>>
      BY <1>1, EmptyPlaces DEF ResolverReadFails
    <3>2. resolverReq \in Elements(Reading)
      BY <3>1 DEF Elements
    <3>3. resolverReq \in Elements(Waiting)
      <4> DEFINE F == RequestsOf(works) \o Clean(poolWork) \o RequestsOf(poolQ)
      <4>1. /\ F \in Seq(Requests) /\ Reading \in Seq(Requests)
            /\ F \o Reading \in Seq(Requests) /\ resolverQ \in Seq(Requests)
            /\ Waiting = F \o Reading \o resolverQ
        BY WaitingTyped
      <4> HIDE DEF F
      <4>2. resolverReq \in Elements(F \o Reading)
        BY <3>2, <4>1, ConcatElements
      <4> DEFINE FR == F \o Reading
      <4>3. /\ FR \in Seq(Requests) /\ resolverReq \in Elements(FR)
            /\ Waiting = FR \o resolverQ /\ resolverQ \in Seq(Requests)
        BY <4>1, <4>2
      <4> HIDE DEF FR
      <4>4. Elements(FR \o resolverQ) = Elements(FR) \cup Elements(resolverQ)
        BY <4>3, ConcatElements
      <4> QED BY <4>3, <4>4
    <3> QED BY <3>3 DEF Ownership
  <2>2. CASE resolverReq = BadSocket
    BY <2>1, <2>2 DEF Progress, Fault
  <2>3. CASE resolverReq # BadSocket
    <3>1. resolverReq \in Clients /\ client[resolverReq] = "gone"
      BY <1>1, <2>3 DEF ResolverReadFails
    <3> QED BY <1>0, <2>1, <3>1 DEF ClientProgress, Fault
  <2> QED BY <2>2, <2>3
<1>2. ASSUME NEW w \in Workers, RunKills(w)
      PROVE  Fault
  <2>1. /\ workerWork[w] # None /\ workerWork[w] \in AllWorks
        /\ workerWork[w].command = "kills"
    BY <1>2 DEF RunKills, TypeOK, AllWorks
  <2>2. /\ workerWork[w].request \in Clients
        /\ command[workerWork[w].request] = "kills"
        /\ workerWork[w].request \in Running
    BY <2>1, InRunning DEF Sound, TypeOK
  <2>3. begun[workerWork[w].request] = 1
    BY <1>0, <2>2 DEF ClientProgress
  <2> QED BY <2>2, <2>3 DEF Fault
<1>3. CASE RespondFails
  <2>1. /\ responderMsg # None /\ responderMsg \in AllReplies
        /\ client[responderMsg.request] = "gone"
    BY <1>3 DEF RespondFails, AllReplies
  <2>2. responderMsg.request \in Clients /\ responderMsg.request \in live
    BY <2>1, RespondingShape DEF Sound, TypeOK, Ownership
  <2> QED BY <1>0, <2>1, <2>2 DEF ClientProgress, Fault
<1> QED BY <1>1, <1>2, <1>3 DEF Dies

LEMMA FaultStep ==
    ASSUME IInv, [Next]_vars
    PROVE  DownNeedsFault'
<1> USE DEF outside, clientVars, processVars, requests, serverVars, upstream
<1>0. /\ TypeOK /\ Ownership /\ Sound /\ Progress
      /\ daemon = "down" \/ restarts > 0 => Fault
  BY DEF IInv, DownNeedsFault, Fault
<1>1. CASE Fault
  BY <1>0, <1>1, FaultLasts DEF DownNeedsFault, Fault
<1>2. CASE ~Fault
  <2>1. ~Dies /\ daemon # "down" /\ ~(restarts > 0)
    BY <1>0, <1>2, DeathIsFault
  <2>2. daemon' # "down" /\ restarts' = restarts
    <3>1. ASSUME NEW c \in Clients, Client(c)
          PROVE  daemon' = daemon /\ restarts' = restarts
      BY <3>1 DEF Client, Connect, ConnectFails, Write, ReadResponse,
                  SocketFails, Leave
    <3>2. CASE Around
      BY <2>1, <3>1, <3>2 DEF Around, Listen, Restart, vars
    <3>3. CASE Forward \/ Accept \/ AcceptFails \/ ResponderReceive \/ Respond
      BY <2>1, <3>3, ForwardLeaves
         DEF Accept, AcceptFails, MakeRequest, ResponderReceive, Respond
    <3>4. CASE \E w \in Workers : GetWork(w) \/ RunSingle(w) \/ Finish(w)
      BY <2>1, <3>4 DEF GetWork, RunSingle, Finish
    <3> QED BY <2>1, <3>2, <3>3, <3>4, StepKinds
  <2> QED BY <2>1, <2>2 DEF DownNeedsFault
<1> QED BY <1>1, <1>2

-----------------------------------------------------------------------------
(* The theorems                                                            *)

LEMMA InitInvariant == Init => IInv
<1> SUFFICES ASSUME Init PROVE IInv
  OBVIOUS
<1>1. TypeOK
  BY InitTyped
<1>2. Waiting = <<>>
  <2>1. Waiting = <<>> \o <<>> \o <<>> \o <<>> \o <<>>
    BY EmptyPlaces DEF Init, Waiting
  <2> QED BY <2>1
<1>3. Running = {} /\ Replying = {} /\ Responding = {}
  BY EmptyPlaces, InRunning, RespondingShape DEF Init, Replying, Elements
<1>4. AllWorks = {} /\ AllReplies = {}
  BY DEF Init, AllWorks, AllReplies, Elements
<1>5. Ownership
  BY <1>2, <1>3, EmptyPlaces DEF Init, Ownership, Distinct, Elements
<1>6. InOrder
  BY <1>2 DEF Init, InOrder
<1>7. Sound
  BY <1>4 DEF Init, Sound
<1>8. Progress
  BY <1>2, <1>3 DEF Init, Progress, Distinct, Elements
<1>9. DownNeedsFault
  BY DEF Init, DownNeedsFault
<1> QED BY <1>1, <1>5, <1>6, <1>7, <1>8, <1>9 DEF IInv

\* The inductive invariant of the daemon and its clients.
THEOREM InvariantHolds == Safety => []IInv
<1>1. IInv /\ [Next]_vars => IInv'
  BY StepTyped, OwnershipStep, InOrderStep, SoundStep, ProgressStep, FaultStep
     DEF IInv
<1> QED BY <1>1, InitInvariant, PTL DEF Safety

\* Every variable of the daemon and the clients keeps its type.
THEOREM TypesHold == Safety => []TypeOK
<1>1. IInv => TypeOK
  BY DEF IInv
<1> QED BY <1>1, InvariantHolds, PTL

\* A request is in one mailbox or one thread while it exists and in none
\* afterwards: never used after it is destroyed, never destroyed twice, never
\* lost (resolver.cpp:65-66, responder.cpp).
THEOREM RequestsHaveOneOwner == Safety => []OneOwner
<1>1. IInv => OneOwner
  BY OwnershipCounts DEF IInv
<1> QED BY <1>1, InvariantHolds, PTL

\* Workers take the requests in the order of their ids, which is the order in
\* which the server accepted them.
THEOREM RequestsStayInOrder == Safety => []InOrder
<1>1. IInv => InOrder
  BY DEF IInv
<1> QED BY <1>1, InvariantHolds, PTL

\* The daemon goes down by a failed accept, a killing command or a client that
\* left, and in no other way.
THEOREM DownOnlyByFault == Safety => []DownNeedsFault
<1>1. IInv => DownNeedsFault
  BY DEF IInv
<1> QED BY <1>1, InvariantHolds, PTL

-----------------------------------------------------------------------------
(* The service: which step of the daemon is which step of RequestService   *)

LEMMA StepServes ==
    ASSUME IInv, [Next]_vars
    PROVE  [Service!Next]_(Service!vars)
<1> USE DEF outside, clientVars, processVars, requests, serverVars, upstream,
            outcome, Service!vars
<1>0. /\ TypeOK /\ Ownership /\ Sound /\ \A c \in Clients : ClientProgress(c)
  BY ProgressParts DEF IInv
<1>1. ASSUME NEW c \in Clients, Client(c)
      PROVE  [Service!Next]_(Service!vars)
  <2>0. UNCHANGED <<command, begun>>
    BY <1>1, AroundLeaves DEF Around
  <2>1. CASE Connect(c)
    BY <2>0, <2>1 DEF Connect
  <2>2. CASE ConnectFails(c)
    <3>1. Service!GiveUp(c)
      BY <1>0, <2>0, <2>2 DEF ConnectFails, Move, ClientProgress, Service!GiveUp
    <3> QED BY <3>1 DEF Service!Next
  <2>3. CASE Write(c)
    <3>1. Service!Ask(c)
      BY <1>0, <2>0, <2>3 DEF Write, Move, ClientProgress, Service!Ask
    <3> QED BY <3>1 DEF Service!Next
  <2>4. CASE ReadResponse(c)
    <3>1. /\ exit[c] = None /\ begun[c] = 1 /\ command[c] \in DOMAIN CodeOf
          /\ response[c].code = CodeOf[command[c]]
      BY <1>0, <2>4 DEF ReadResponse, Move, ClientProgress
    <3>2. Service!Answer(c)
      BY <2>0, <2>4, <3>1 DEF ReadResponse, Service!Answer
    <3> QED BY <3>2 DEF Service!Next
  <2>5. CASE SocketFails(c) \/ Leave(c)
    <3>1. Service!GiveUp(c)
      BY <1>0, <2>0, <2>5 DEF SocketFails, Leave, ClientProgress, Service!GiveUp
    <3> QED BY <3>1 DEF Service!Next
  <2> QED BY <1>1, <2>1, <2>2, <2>3, <2>4, <2>5 DEF Client
<1>2. ASSUME NEW w \in Workers, GetWork(w)
      PROVE  [Service!Next]_(Service!vars)
  <2>0. PICK r \in Clients : r = Head(works).request /\ r \in written
    BY <1>0, <1>2, FrontWork DEF GetWork
  <2>1. r \in Elements(Waiting)
    BY <1>0, <1>2, <2>0, GetWorkMoves
  <2>2. begun[r] = 0
    BY <1>0, <2>1 DEF ClientProgress
  <2>3. begun' = [begun EXCEPT ![r] = 1] /\ UNCHANGED <<command, written, exit>>
    BY <1>2, <2>0, <2>2 DEF GetWork
  <2>4. Service!Begin(r)
    BY <2>0, <2>2, <2>3 DEF Service!Begin
  <2> QED BY <2>4 DEF Service!Next
<1>3. CASE Listen \/ Restart \/ UNCHANGED vars
  BY <1>3 DEF Listen, Restart, vars
<1>4. CASE Forward \/ Accept \/ AcceptFails \/ ResponderReceive \/ Respond
  BY <1>4, ForwardLeaves
     DEF Accept, AcceptFails, MakeRequest, ResponderReceive, Respond
<1>5. CASE \E w \in Workers : RunSingle(w) \/ Finish(w)
  BY <1>5 DEF RunSingle, Finish
<1>6. CASE Dies
  BY <1>6, DiesDown DEF Down
<1> QED BY <1>1, <1>2, <1>3, <1>4, <1>5, <1>6, StepKinds DEF Around

\* The daemon, its threads, failures and restarts implement RequestService: a
\* command begins at most once, and a client exits with the code of its own
\* command, after that command began, or without an answer.
THEOREM DaemonServes == Safety => ImplementsService
<1>1. Init => Service!Init
  BY DEF Init, Service!Init
<1> QED
  BY <1>1, StepServes, InvariantHolds, PTL
     DEF Safety, ImplementsService, Service!Safety
=============================================================================
