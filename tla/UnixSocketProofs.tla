-------------------------- MODULE UnixSocketProofs --------------------------
(***************************************************************************)
(* Proofs about UnixSocket for any number of clients, any payload and any  *)
(* buffer: what read() returns is what write() sent, and the daemon throws *)
(* only at a client that closed its socket.                                *)
(***************************************************************************)
EXTENDS UnixSocket, QueueLemmas

\* A writer is done when the whole frame is sent, a reader when it is received.
Flow(s) ==
    /\ wr[s] = "done" <=> sent[s] = Frame
    /\ wr[s] = "idle" => sent[s] = 0
    /\ rd[s] = "done" <=> got[s] = Frame
    /\ rd[s] = "idle" => got[s] = 0

\* The calls on the two streams of a client follow each other, and what fails
\* does so at a client that is gone.
Life(c) ==
    /\ wr[Request(c)] = "idle" =>
          /\ c \notin open /\ c \notin Elements(toRead)
          /\ rd[Request(c)] = "idle"
    /\ rd[Request(c)] \in {"start", "recv", "spin"} =>
          toRead # <<>> /\ Head(toRead) = c
    /\ (c \in running \cup Elements(toWrite) \/ wr[Response(c)] # "idle") =>
          rd[Request(c)] = "done"
    /\ c \in running \cup Elements(toWrite) => wr[Response(c)] = "idle"
    /\ ~(c \in running /\ c \in Elements(toWrite))
    /\ rd[Response(c)] # "idle" => wr[Request(c)] = "done"
    /\ rd[Request(c)] \in {"spin", "threw"} =>
          c \notin open /\ sent[Request(c)] < Frame
    /\ wr[Response(c)] = "threw" => c \notin open

\* The daemon ends by a throw of its own.
Thrown == \E c \in Clients : rd[Request(c)] = "threw" \/ wr[Response(c)] = "threw"

IInv == /\ TypeOK
        /\ \A s \in Streams : Flow(s)
        /\ \A c \in Clients : Life(c)
        /\ Distinct(toWrite)
        /\ down => Thrown

-----------------------------------------------------------------------------
(* The streams: two of each client                                         *)

LEMMA StreamNames ==
    /\ \A c \in Clients : /\ Request(c) \in Streams /\ Response(c) \in Streams
                          /\ ByClient(Request(c)) /\ ~ByClient(Response(c))
                          /\ Request(c)[1] = c /\ Response(c)[1] = c
    /\ \A c, d \in Clients : /\ Request(c) # Response(d)
                             /\ Request(c) = Request(d) => c = d
                             /\ Response(c) = Response(d) => c = d
    /\ \A s \in Streams : \E c \in Clients :
          \/ s = Request(c) /\ ByClient(s) /\ s[1] = c
          \/ s = Response(c) /\ ~ByClient(s) /\ s[1] = c
BY DEF Request, Response, Streams, ByClient

LEMMA FrameSize == Frame \in Nat /\ Frame >= 2
BY SizesOK DEF Frame

\* What IInv says of the numbers of one stream.
LEMMA StreamNumbers ==
    ASSUME IInv, NEW s \in Streams
    PROVE  /\ sent[s] \in Nat /\ got[s] \in Nat /\ Frame \in Nat
           /\ got[s] <= sent[s] /\ sent[s] <= Frame /\ sent[s] - got[s] <= Capacity
           /\ wr[s] = "sending" => sent[s] < Frame
           /\ rd[s] \in {"start", "recv", "spin"} => got[s] < Frame
           /\ wr[s] = "threw" => sent[s] < Frame
           /\ rd[s] = "done" => wr[s] = "done"
<1>1. /\ sent[s] \in 0 .. Frame /\ got[s] \in 0 .. Frame
      /\ sent[s] - got[s] \in 0 .. Capacity
      /\ Flow(s)
  BY DEF IInv, TypeOK
<1> QED BY <1>1, FrameSize, SizesOK DEF Flow

\* The requests in the resolver's mailbox, when the first is read.
LEMMA ReadReturnsShape ==
    ASSUME IInv, NEW c \in Clients,
           rd[Request(c)] \in {"start", "recv", "spin"}
    PROVE  /\ toRead # <<>> /\ Head(toRead) = c
           /\ toRead' = Tail(toRead) =>
                 /\ toRead' \in Seq(Clients)
                 /\ Elements(toRead') \subseteq Elements(toRead)
<1>1. toRead \in Seq(Clients) /\ toRead # <<>> /\ Head(toRead) = c
  BY DEF IInv, TypeOK, Life
<1>2. Tail(toRead) \in Seq(Clients) /\ Elements(Tail(toRead)) \subseteq Elements(toRead)
  BY <1>1, TailShape, PopElements
<1> QED BY <1>1, <1>2

-----------------------------------------------------------------------------
(* Steps that leave the streams alone                                      *)

LEMMA LeaveKeeps ==
    ASSUME IInv, NEW c \in Clients, Leave(c) \/ Stop(c)
    PROVE  IInv'
<1>1. /\ UNCHANGED <<sent, got, wr, rd, late, served, toRead, running, toWrite,
                     down>>
      /\ open' \subseteq open /\ stopped' \subseteq Clients
  BY DEF Leave, Stop, streams, daemon, IInv, TypeOK
<1>2. TypeOK'
  BY <1>1 DEF IInv, TypeOK
<1>3. \A s \in Streams : Flow(s)'
  BY <1>1 DEF IInv, Flow
<1>4. \A d \in Clients : Life(d)'
  BY <1>1 DEF IInv, Life
<1> QED BY <1>1, <1>2, <1>3, <1>4 DEF IInv, Thrown

LEMMA RunKeeps ==
    ASSUME IInv, NEW c \in Clients, Run(c)
    PROVE  IInv'
<1>1. /\ UNCHANGED <<sent, got, wr, rd, late, open, served, stopped, toRead, down>>
      /\ c \in running /\ running' = running \ {c} /\ toWrite' = Append(toWrite, c)
  BY DEF Run, streams, ends
<1>2. /\ toWrite' \in Seq(Clients)
      /\ Elements(toWrite') = Elements(toWrite) \cup {c}
      /\ Distinct(toWrite')
  <2>1. toWrite \in Seq(Clients) /\ Distinct(toWrite) /\ c \notin Elements(toWrite)
    BY <1>1 DEF IInv, TypeOK, Life
  <2> QED BY <1>1, <2>1, AppendElements, AppendDistinct
<1>3. TypeOK'
  BY <1>1, <1>2 DEF IInv, TypeOK
<1>4. \A s \in Streams : Flow(s)'
  BY <1>1 DEF IInv, Flow
<1>5. \A d \in Clients : Life(d)'
  BY <1>1, <1>2 DEF IInv, Life
<1> QED BY <1>1, <1>2, <1>3, <1>4, <1>5 DEF IInv, Thrown

LEMMA ConnectKeeps ==
    ASSUME IInv, NEW c \in Clients, Connect(c)
    PROVE  IInv'
<1>1. /\ UNCHANGED <<sent, got, rd, late, stopped, running, toWrite, down>>
      /\ wr[Request(c)] = "idle"
      /\ wr' = [wr EXCEPT ![Request(c)] = "sending"]
      /\ open' = open \cup {c} /\ served' = served \cup {c}
      /\ toRead' = Append(toRead, c)
  BY DEF Connect
<1>2. /\ wr'[Request(c)] = "sending"
      /\ \A s \in Streams \ {Request(c)} : wr'[s] = wr[s]
      /\ wr' \in [Streams -> {"idle", "sending", "done", "threw"}]
  BY <1>1, StreamNames DEF IInv, TypeOK
<1>3. /\ toRead' \in Seq(Clients)
      /\ Elements(toRead') = Elements(toRead) \cup {c}
      /\ toRead # <<>> => toRead' # <<>> /\ Head(toRead') = Head(toRead)
  <2>1. toRead \in Seq(Clients)
    BY DEF IInv, TypeOK
  <2> QED BY <1>1, <2>1, AppendElements, AppendProperties, HeadTailAppend
<1>4. TypeOK'
  BY <1>1, <1>2, <1>3 DEF IInv, TypeOK
<1>5. \A s \in Streams : Flow(s)'
  BY <1>1, <1>2, FrameSize DEF IInv, Flow
<1>6. \A d \in Clients \ {c} : Life(d)'
  BY <1>1, <1>2, <1>3, StreamNames DEF IInv, Life
<1>7. Life(c)'
  <2>1. Life(c) /\ wr'[Response(c)] = wr[Response(c)]
    BY <1>2, StreamNames DEF IInv
  <2> QED BY <1>1, <1>2, <1>3, <2>1 DEF Life
<1>8. \A d \in Clients : wr'[Response(d)] = wr[Response(d)]
  BY <1>2, StreamNames
<1> QED BY <1>1, <1>4, <1>5, <1>6, <1>7, <1>8 DEF IInv, Thrown

LEMMA BeginReadKeeps ==
    ASSUME IInv, BeginRead
    PROVE  IInv'
<1>1. PICK c \in Clients : c = Head(toRead) /\ c \in Elements(toRead)
  BY TailShape, PopElements DEF BeginRead, IInv, TypeOK
<1>2. /\ UNCHANGED <<sent, got, wr, late, open, served, stopped, toRead, running,
                     toWrite, down>>
      /\ toRead # <<>> /\ rd[Request(c)] = "idle"
      /\ rd'[Request(c)] = "start"
      /\ \A s \in Streams \ {Request(c)} : rd'[s] = rd[s]
      /\ rd' \in [Streams -> {"idle", "start", "recv", "spin", "done", "threw"}]
  BY <1>1, StreamNames DEF BeginRead, ends, daemon, IInv, TypeOK
<1>3. TypeOK'
  BY <1>2 DEF IInv, TypeOK
<1>4. \A s \in Streams : Flow(s)'
  BY <1>2, FrameSize DEF IInv, Flow
<1>5. \A d \in Clients \ {c} : Life(d)'
  BY <1>2, StreamNames DEF IInv, Life
<1>6. Life(c)'
  <2>1. Life(c) /\ rd'[Response(c)] = rd[Response(c)]
    BY <1>2, StreamNames DEF IInv
  <2> QED BY <1>1, <1>2, <2>1 DEF Life
<1>7. \A d \in Clients : rd[Request(d)] = "threw" => rd'[Request(d)] = "threw"
  BY <1>2, StreamNames
<1> QED BY <1>2, <1>3, <1>4, <1>5, <1>6, <1>7 DEF IInv, Thrown

LEMMA BeginWriteKeeps ==
    ASSUME IInv, BeginWrite
    PROVE  IInv'
<1>1. PICK c \in Clients : c = Head(toWrite) /\ c \in Elements(toWrite)
  BY TailShape, PopElements DEF BeginWrite, IInv, TypeOK
<1>2. /\ UNCHANGED <<sent, got, rd, late, open, served, stopped, toRead, running,
                     down>>
      /\ wr'[Response(c)] = "sending"
      /\ \A s \in Streams \ {Response(c)} : wr'[s] = wr[s]
      /\ wr' \in [Streams -> {"idle", "sending", "done", "threw"}]
      /\ toWrite' = Tail(toWrite) /\ toWrite # <<>>
  BY <1>1, StreamNames DEF BeginWrite, ends, IInv, TypeOK
<1>3. /\ toWrite' \in Seq(Clients) /\ Distinct(toWrite')
      /\ Elements(toWrite') = Elements(toWrite) \ {c}
  BY <1>1, <1>2, TailShape, PopDistinct DEF IInv, TypeOK
<1>4. TypeOK'
  BY <1>2, <1>3 DEF IInv, TypeOK
<1>5. wr[Response(c)] = "idle" /\ rd[Request(c)] = "done"
  BY <1>1 DEF IInv, Life
<1>6. \A s \in Streams : Flow(s)'
  BY <1>2, <1>5, FrameSize, StreamNames DEF IInv, Flow
<1>7. \A d \in Clients \ {c} : Life(d)'
  BY <1>2, <1>3, StreamNames DEF IInv, Life
<1>8. Life(c)'
  <2>1. Life(c) /\ wr'[Request(c)] = wr[Request(c)]
    BY <1>2, StreamNames DEF IInv
  <2> QED BY <1>1, <1>2, <1>3, <1>5, <2>1 DEF Life
<1>9. \A d \in Clients : wr[Response(d)] = "threw" => wr'[Response(d)] = "threw"
  BY <1>2, <1>5, StreamNames
<1> QED BY <1>2, <1>3, <1>4, <1>6, <1>7, <1>8, <1>9 DEF IInv, Thrown

-----------------------------------------------------------------------------
(* Steps of a writer                                                       *)

\* A unit goes into the stream; with the last one the writer is done.
LEMMA SendMoves ==
    ASSUME IInv, NEW s \in Streams, Send(s)
    PROVE  /\ UNCHANGED <<got, late, open, stopped, toRead, running, toWrite, down>>
           /\ wr[s] = "sending" /\ sent[s] < Frame /\ sent[s] - got[s] < Capacity
           /\ sent'[s] = sent[s] + 1
           /\ sent' \in [Streams -> 0 .. Frame]
           /\ \A t \in Streams \ {s} : sent'[t] = sent[t] /\ wr'[t] = wr[t]
           /\ wr' \in [Streams -> {"idle", "sending", "done", "threw"}]
           /\ wr'[s] = IF sent'[s] = Frame THEN "done" ELSE "sending"
           /\ served' \subseteq served
           /\ ByClient(s) /\ sent'[s] = Frame =>
                 rd' = [rd EXCEPT ![Response(s[1])] = "start"]
           /\ ~ByClient(s) \/ sent'[s] # Frame => rd' = rd
<1>1. /\ UNCHANGED <<got, late, open, stopped, toRead, running, toWrite, down>>
      /\ wr[s] = "sending" /\ sent[s] - got[s] < Capacity
      /\ sent' = [sent EXCEPT ![s] = @ + 1]
  BY DEF Send, daemon
<1>2. /\ sent[s] < Frame /\ sent[s] \in Nat /\ Frame \in Nat
      /\ sent \in [Streams -> 0 .. Frame]
      /\ wr \in [Streams -> {"idle", "sending", "done", "threw"}]
  BY <1>1, StreamNumbers DEF IInv, TypeOK
<1>3. /\ sent'[s] = sent[s] + 1 /\ sent' \in [Streams -> 0 .. Frame]
      /\ \A t \in Streams \ {s} : sent'[t] = sent[t]
  BY <1>1, <1>2
<1>4. sent[s] + 1 < Frame <=> sent'[s] # Frame
  BY <1>2, <1>3
<1>5. CASE sent'[s] # Frame
  BY <1>1, <1>2, <1>3, <1>4, <1>5 DEF Send
<1>6. CASE sent'[s] = Frame
  <2>1. wr' = [wr EXCEPT ![s] = "done"]
    BY <1>4, <1>6 DEF Send
  <2>2. /\ ByClient(s) => rd' = [rd EXCEPT ![Response(s[1])] = "start"]
                          /\ served' = served
        /\ ~ByClient(s) => rd' = rd /\ served' \subseteq served
    BY <1>4, <1>6 DEF Send
  <2> QED BY <1>1, <1>2, <1>3, <1>6, <2>1, <2>2
<1> QED BY <1>5, <1>6

LEMMA SendKeeps ==
    ASSUME IInv, NEW s \in Streams, Send(s)
    PROVE  IInv'
<1>0. /\ TypeOK /\ \A t \in Streams : Flow(t) /\ \A d \in Clients : Life(d)
      /\ down => Thrown
  BY DEF IInv
<1>1. PICK c \in Clients : \/ s = Request(c) /\ ByClient(s) /\ s[1] = c
                           \/ s = Response(c) /\ ~ByClient(s) /\ s[1] = c
  BY StreamNames
<1>2. s = Request(c) => rd[Response(c)] = "idle"
  BY <1>0, SendMoves DEF Life
<1>3. /\ rd' \in [Streams -> {"idle", "start", "recv", "spin", "done", "threw"}]
      /\ \A t \in Streams : rd'[t] = rd[t] \/ (/\ rd[t] = "idle" /\ rd'[t] = "start"
                                               /\ s = Request(c) /\ t = Response(c)
                                               /\ sent'[s] = Frame)
  <2>1. CASE ByClient(s) /\ sent'[s] = Frame
    <3>1. s = Request(c) /\ rd' = [rd EXCEPT ![Response(c)] = "start"]
      BY <1>1, <2>1, SendMoves
    <3> QED BY <1>0, <1>2, <2>1, <3>1, StreamNames DEF TypeOK
  <2>2. CASE ~(ByClient(s) /\ sent'[s] = Frame)
    BY <1>0, <2>2, SendMoves DEF TypeOK
  <2> QED BY <2>1, <2>2
<1>4. TypeOK'
  <2>1. \A t \in Streams : sent'[t] - got'[t] \in 0 .. Capacity
    <3>1. /\ sent'[s] = sent[s] + 1 /\ sent[s] - got[s] < Capacity
          /\ got' = got /\ \A t \in Streams \ {s} : sent'[t] = sent[t]
      BY SendMoves
    <3>2. sent[s] \in Nat /\ got[s] \in Nat /\ got[s] <= sent[s]
      BY StreamNumbers
    <3>3. sent'[s] - got'[s] \in 0 .. Capacity
      BY <3>1, <3>2, SizesOK
    <3> QED BY <1>0, <3>1, <3>3 DEF TypeOK
  <2> QED BY <1>0, <1>3, <2>1, SendMoves DEF TypeOK
<1>5. \A t \in Streams : Flow(t)'
  <2> SUFFICES ASSUME NEW t \in Streams PROVE Flow(t)'
    OBVIOUS
  <2>1. (wr[t] = "done" <=> sent[t] = Frame) => (wr'[t] = "done" <=> sent'[t] = Frame)
    BY SendMoves
  <2>2. (wr[t] = "idle" => sent[t] = 0) => (wr'[t] = "idle" => sent'[t] = 0)
    BY SendMoves
  <2>3. /\ rd'[t] = "done" <=> rd[t] = "done"
        /\ rd'[t] = "idle" => rd[t] = "idle"
        /\ got'[t] = got[t]
    BY <1>3, SendMoves
  <2> QED BY <1>0, <2>1, <2>2, <2>3 DEF Flow
<1>6. ASSUME NEW d \in Clients
      PROVE  Life(d)'
  <2>1. /\ Life(d)
        /\ rd'[Request(d)] = rd[Request(d)]
        /\ UNCHANGED <<open, toRead, running, toWrite>>
    BY <1>0, <1>3, SendMoves, StreamNames
  <2>2. \A t \in {Request(d), Response(d)} :
           /\ wr'[t] = wr[t] \/ (wr[t] = "sending" /\ wr'[t] \in {"sending", "done"})
           /\ wr[t] = "done" => wr'[t] = "done"
    BY SendMoves, StreamNames
  <2>3. rd'[Response(d)] # "idle" => wr'[Request(d)] = "done"
    <3>1. CASE rd'[Response(d)] = rd[Response(d)]
      BY <2>1, <2>2, <3>1 DEF Life
    <3>2. CASE rd'[Response(d)] # rd[Response(d)]
      <4>1. s = Request(d) /\ sent'[s] = Frame
        BY <1>1, <1>3, <3>2, StreamNames
      <4> QED BY <4>1, SendMoves
    <3> QED BY <3>1, <3>2
  <2>4. rd[Request(d)] \in {"spin", "threw"} => sent'[Request(d)] = sent[Request(d)]
    <3>1. s = Request(d) => d \in open
      BY <1>1, StreamNames DEF Send, CanWrite, ClientRuns
    <3> QED BY <2>1, <3>1, SendMoves, StreamNames DEF Life
  <2> QED BY <2>1, <2>2, <2>3, <2>4 DEF Life
<1>7. Distinct(toWrite')
  BY SendMoves DEF IInv
<1>8. down' => Thrown'
  <2>1. \A t \in Streams : wr[t] = "threw" => wr'[t] = "threw"
    BY SendMoves
  <2>2. \A t \in Streams : rd[t] = "threw" => rd'[t] = "threw"
    BY <1>3
  <2> QED BY <1>0, <2>1, <2>2, SendMoves, StreamNames DEF Thrown
<1> QED BY <1>4, <1>5, <1>6, <1>7, <1>8 DEF IInv

\* A writer throws: the process that writes ends, and its peer is gone.
LEMMA SendFailsKeeps ==
    ASSUME IInv, NEW s \in Streams, SendFails(s)
    PROVE  IInv'
<1>0. /\ TypeOK /\ \A t \in Streams : Flow(t) /\ \A d \in Clients : Life(d)
      /\ down => Thrown
  BY DEF IInv
<1>1. PICK c \in Clients : \/ s = Request(c) /\ ByClient(s) /\ s[1] = c
                           \/ s = Response(c) /\ ~ByClient(s) /\ s[1] = c
  BY StreamNames
<1>2. /\ UNCHANGED <<sent, got, rd, late, served, stopped, toRead, running, toWrite>>
      /\ wr[s] = "sending" /\ wr'[s] = "threw"
      /\ \A t \in Streams \ {s} : wr'[t] = wr[t]
      /\ wr' \in [Streams -> {"idle", "sending", "done", "threw"}]
      /\ open' \subseteq open
      /\ down' = down \/ (down' = TRUE /\ s = Response(c))
      /\ s = Response(c) => c \notin open
  BY <1>0, <1>1, StreamNames
     DEF SendFails, Throw, TypeOK, ends, daemon, ReaderOpen
<1>3. TypeOK'
  BY <1>0, <1>2 DEF TypeOK
<1>4. \A t \in Streams : Flow(t)'
  BY <1>0, <1>2 DEF Flow
<1>5. ASSUME NEW d \in Clients
      PROVE  Life(d)'
  <2>1. /\ Life(d)
        /\ wr'[Request(d)] = "idle" <=> wr[Request(d)] = "idle"
        /\ wr[Request(d)] = "done" => wr'[Request(d)] = "done"
        /\ wr'[Response(d)] = "idle" <=> wr[Response(d)] = "idle"
        /\ wr'[Response(d)] = "threw" => wr[Response(d)] = "threw" \/ d \notin open
    BY <1>0, <1>1, <1>2, StreamNames
  <2> QED BY <1>2, <2>1 DEF Life
<1>6. down' => Thrown'
  <2>1. \A t \in Streams : wr[t] = "threw" => wr'[t] = "threw"
    BY <1>2
  <2> QED BY <1>0, <1>2, <2>1, StreamNames DEF Thrown
<1>7. Distinct(toWrite')
  BY <1>2 DEF IInv
<1> QED BY <1>3, <1>4, <1>5, <1>6, <1>7 DEF IInv

-----------------------------------------------------------------------------
(* Steps of a reader                                                       *)

\* The steps of readRaw between two units: no unit moves, nobody ends.
LEMMA WaitKeeps ==
    ASSUME IInv, NEW s \in Streams,
           EnterRaw(s) \/ EndOfFile(s) \/ RecvAgain(s) \/ Deadline(s)
    PROVE  IInv'
<1>0. /\ TypeOK /\ \A t \in Streams : Flow(t) /\ \A d \in Clients : Life(d)
      /\ down => Thrown
  BY DEF IInv
<1>1. PICK c \in Clients : \/ s = Request(c) /\ ByClient(s) /\ s[1] = c
                           \/ s = Response(c) /\ ~ByClient(s) /\ s[1] = c
  BY StreamNames
<1>2. /\ UNCHANGED <<sent, got, wr, open, served, stopped, toRead, running,
                     toWrite, down>>
      /\ rd[s] \in {"start", "recv", "spin"} /\ rd'[s] \in {"start", "recv", "spin"}
      /\ \A t \in Streams \ {s} : rd'[t] = rd[t]
      /\ rd' \in [Streams -> {"idle", "start", "recv", "spin", "done", "threw"}]
      /\ late' \in [Streams -> BOOLEAN]
  BY <1>0 DEF EnterRaw, EndOfFile, RecvAgain, Deadline, TypeOK, ends, daemon
<1>3. rd'[s] = "spin" /\ s = Request(c) => c \notin open /\ sent[s] < Frame
  <2>1. CASE EndOfFile(s)
    <3>1. sent[s] = got[s] /\ rd[s] = "recv"
      BY <2>1 DEF EndOfFile
    <3>2. sent[s] < Frame
      BY <3>1, StreamNumbers
    <3>3. s = Request(c) => c \notin open
      BY <1>1, <2>1, StreamNames DEF EndOfFile, WriterOpen
    <3> QED BY <3>2, <3>3
  <2>2. CASE ~EndOfFile(s)
    <3>1. rd'[s] = "spin" => rd[s] = "spin"
      BY <1>0, <2>2 DEF EnterRaw, RecvAgain, Deadline, TypeOK
    <3> QED BY <1>0, <3>1 DEF Life
  <2> QED BY <2>1, <2>2
<1>4. TypeOK'
  BY <1>0, <1>2 DEF TypeOK
<1>5. \A t \in Streams : Flow(t)'
  BY <1>0, <1>2 DEF Flow
<1>6. ASSUME NEW d \in Clients
      PROVE  Life(d)'
  <2>1. /\ rd'[Request(d)] = "idle" <=> rd[Request(d)] = "idle"
        /\ rd'[Response(d)] = "idle" <=> rd[Response(d)] = "idle"
        /\ rd'[Request(d)] = "done" <=> rd[Request(d)] = "done"
        /\ rd'[Request(d)] \in {"start", "recv", "spin"} =>
              rd[Request(d)] \in {"start", "recv", "spin"}
        /\ rd'[Request(d)] \in {"spin", "threw"} =>
              d \notin open /\ sent[Request(d)] < Frame
    BY <1>0, <1>1, <1>2, <1>3, StreamNames DEF Life
  <2> QED BY <1>0, <1>2, <2>1 DEF Life
<1>7. down' => Thrown'
  <2>1. \A t \in Streams : rd[t] = "threw" => rd'[t] = "threw"
    BY <1>2
  <2> QED BY <1>0, <1>2, <2>1, StreamNames DEF Thrown
<1>8. Distinct(toWrite')
  BY <1>2 DEF IInv
<1> QED BY <1>4, <1>5, <1>6, <1>7, <1>8 DEF IInv

LEMMA TimesOutKeeps ==
    ASSUME IInv, NEW s \in Streams, TimesOut(s)
    PROVE  IInv'
<1>0. /\ TypeOK /\ \A t \in Streams : Flow(t) /\ \A d \in Clients : Life(d)
      /\ down => Thrown
  BY DEF IInv
<1>1. PICK c \in Clients : \/ s = Request(c) /\ ByClient(s) /\ s[1] = c
                           \/ s = Response(c) /\ ~ByClient(s) /\ s[1] = c
  BY StreamNames
<1>2. /\ UNCHANGED <<sent, got, wr, late, served, stopped, toRead, running, toWrite>>
      /\ rd[s] = "spin" /\ rd'[s] = "threw"
      /\ \A t \in Streams \ {s} : rd'[t] = rd[t]
      /\ rd' \in [Streams -> {"idle", "start", "recv", "spin", "done", "threw"}]
      /\ open' \subseteq open
      /\ down' = down \/ (down' = TRUE /\ s = Request(c))
  BY <1>0, <1>1, StreamNames DEF TimesOut, Throw, TypeOK, ends, daemon
<1>3. TypeOK'
  BY <1>0, <1>2 DEF TypeOK
<1>4. \A t \in Streams : Flow(t)'
  BY <1>0, <1>2 DEF Flow
<1>5. ASSUME NEW d \in Clients
      PROVE  Life(d)'
  <2>1. /\ Life(d)
        /\ rd'[Request(d)] = "idle" <=> rd[Request(d)] = "idle"
        /\ rd'[Response(d)] = "idle" <=> rd[Response(d)] = "idle"
        /\ rd'[Request(d)] = "done" <=> rd[Request(d)] = "done"
        /\ rd'[Request(d)] \in {"start", "recv", "spin"} =>
              rd[Request(d)] \in {"start", "recv", "spin"}
        /\ rd'[Request(d)] \in {"spin", "threw"} =>
              rd[Request(d)] \in {"spin", "threw"}
    BY <1>0, <1>1, <1>2, StreamNames
  <2> QED BY <1>2, <2>1 DEF Life
<1>6. down' => Thrown'
  <2>1. \A t \in Streams : rd[t] = "threw" => rd'[t] = "threw"
    BY <1>2
  <2> QED BY <1>0, <1>2, <2>1, StreamNames DEF Thrown
<1>7. Distinct(toWrite')
  BY <1>2 DEF IInv
<1> QED BY <1>3, <1>4, <1>5, <1>6, <1>7 DEF IInv

LEMMA RecvKeeps ==
    ASSUME IInv, NEW s \in Streams, Recv(s)
    PROVE  IInv'
<1>0. /\ TypeOK /\ \A t \in Streams : Flow(t) /\ \A d \in Clients : Life(d)
      /\ down => Thrown
  BY DEF IInv
<1>1. PICK c \in Clients : \/ s = Request(c) /\ ByClient(s) /\ s[1] = c
                           \/ s = Response(c) /\ ~ByClient(s) /\ s[1] = c
  BY StreamNames
<1>2. /\ UNCHANGED <<sent, wr, late>>
      /\ rd[s] = "recv" /\ sent[s] > got[s]
      /\ got' = [got EXCEPT ![s] = @ + 1]
  BY DEF Recv
<1>3. /\ got[s] \in Nat /\ sent[s] \in Nat /\ Frame \in Nat
      /\ got[s] < Frame /\ sent[s] <= Frame /\ got'[s] = got[s] + 1
      /\ got' \in [Streams -> 0 .. Frame]
      /\ \A t \in Streams \ {s} : got'[t] = got[t]
  <2>1. /\ got[s] \in Nat /\ sent[s] \in Nat /\ Frame \in Nat
        /\ got[s] < Frame /\ sent[s] <= Frame
    BY <1>2, StreamNumbers
  <2> QED BY <1>0, <1>2, <2>1 DEF TypeOK
<1>4. \A t \in Streams : sent'[t] - got'[t] \in 0 .. Capacity
  <2>1. sent[s] - got[s] <= Capacity
    BY StreamNumbers
  <2>2. sent'[s] - got'[s] \in 0 .. Capacity
    BY <1>2, <1>3, <2>1, SizesOK
  <2> QED BY <1>0, <1>2, <1>3, <2>2 DEF TypeOK
<1>5. CASE got'[s] # Frame
  <2>1. /\ UNCHANGED <<open, served, stopped, toRead, running, toWrite, down>>
        /\ rd'[s] \in {"start", "recv"}
        /\ \A t \in Streams \ {s} : rd'[t] = rd[t]
        /\ rd' \in [Streams -> {"idle", "start", "recv", "spin", "done", "threw"}]
    BY <1>0, <1>2, <1>5 DEF Recv, TypeOK, ends, daemon
  <2>2. TypeOK'
    BY <1>0, <1>2, <1>3, <1>4, <2>1 DEF TypeOK
  <2>3. \A t \in Streams : Flow(t)'
    BY <1>0, <1>2, <1>3, <1>5, <2>1 DEF Flow
  <2>4. ASSUME NEW d \in Clients
        PROVE  Life(d)'
    <3>1. /\ Life(d)
          /\ rd'[Request(d)] = "idle" <=> rd[Request(d)] = "idle"
          /\ rd'[Response(d)] = "idle" <=> rd[Response(d)] = "idle"
          /\ rd'[Request(d)] = "done" <=> rd[Request(d)] = "done"
          /\ rd'[Request(d)] \in {"start", "recv", "spin"} =>
                rd[Request(d)] \in {"start", "recv", "spin"}
          /\ rd'[Request(d)] \in {"spin", "threw"} =>
                rd[Request(d)] \in {"spin", "threw"}
      BY <1>0, <1>2, <2>1, StreamNames
    <3> QED BY <1>2, <2>1, <3>1 DEF Life
  <2>5. down' => Thrown'
    <3>1. \A t \in Streams : rd[t] = "threw" => rd'[t] = "threw"
      BY <1>2, <2>1
    <3> QED BY <1>0, <1>2, <2>1, <3>1, StreamNames DEF Thrown
  <2>6. Distinct(toWrite')
    BY <2>1 DEF IInv
  <2> QED BY <2>2, <2>3, <2>4, <2>5, <2>6 DEF IInv
<1>6. CASE got'[s] = Frame
  <2>1. /\ rd'[s] = "done" /\ ReadReturns(s)
        /\ \A t \in Streams \ {s} : rd'[t] = rd[t]
        /\ rd' \in [Streams -> {"idle", "start", "recv", "spin", "done", "threw"}]
    BY <1>0, <1>2, <1>6 DEF Recv, TypeOK
  <2>2. /\ UNCHANGED <<served, stopped, toWrite, down>>
        /\ open' \subseteq open
        /\ s = Request(c) => toRead' = Tail(toRead) /\ running' = running \cup {c}
        /\ s = Response(c) => toRead' = toRead /\ running' = running
    BY <1>1, <2>1, StreamNames DEF ReadReturns, ends, daemon
  <2>3. /\ toRead' \in Seq(Clients) /\ running' \subseteq Clients
        /\ Elements(toRead') \subseteq Elements(toRead)
        /\ s = Request(c) => Head(toRead) = c
    BY <1>0, <1>1, <1>2, <2>2, ReadReturnsShape DEF TypeOK
  <2>4. TypeOK'
    BY <1>0, <1>2, <1>3, <1>4, <2>1, <2>2, <2>3 DEF TypeOK
  <2>5. \A t \in Streams : Flow(t)'
    BY <1>0, <1>2, <1>3, <1>6, <2>1 DEF Flow
  <2>6. ASSUME NEW d \in Clients
        PROVE  Life(d)'
    <3>1. /\ Life(d)
          /\ rd'[Request(d)] = "idle" <=> rd[Request(d)] = "idle"
          /\ rd'[Response(d)] = "idle" <=> rd[Response(d)] = "idle"
          /\ rd[Request(d)] = "done" => rd'[Request(d)] = "done"
          /\ rd'[Request(d)] \in {"start", "recv", "spin"} =>
                rd[Request(d)] \in {"start", "recv", "spin"} /\ s # Request(d)
          /\ rd'[Request(d)] \in {"spin", "threw"} =>
                rd[Request(d)] \in {"spin", "threw"}
      BY <1>0, <1>2, <2>1, StreamNames
    <3>2. CASE s = Request(c) /\ d = c
      <4>1. rd[Request(d)] = "recv" /\ rd'[Request(d)] = "done"
        BY <1>2, <2>1, <3>2
      <4>2. wr[Response(d)] = "idle" /\ d \notin Elements(toWrite)
        BY <3>1, <4>1 DEF Life
      <4> QED BY <1>2, <2>2, <2>3, <3>1, <4>1, <4>2 DEF Life
    <3>3. CASE s = Request(c) /\ d # c
      <4>1. rd[Request(d)] \notin {"start", "recv", "spin"}
        BY <2>3, <3>1, <3>3 DEF Life
      <4> QED BY <1>2, <2>2, <2>3, <3>1, <3>3, <4>1 DEF Life
    <3>4. CASE s = Response(c)
      BY <1>2, <2>2, <2>3, <3>1, <3>4 DEF Life
    <3> QED BY <1>1, <3>2, <3>3, <3>4
  <2>7. down' => Thrown'
    <3>1. \A t \in Streams : rd[t] = "threw" => rd'[t] = "threw"
      BY <1>2, <2>1
    <3> QED BY <1>0, <1>2, <2>2, <3>1, StreamNames DEF Thrown
  <2>8. Distinct(toWrite')
    BY <2>2 DEF IInv
  <2> QED BY <2>4, <2>5, <2>6, <2>7, <2>8 DEF IInv
<1> QED BY <1>5, <1>6

-----------------------------------------------------------------------------
(* The theorems                                                            *)

LEMMA InitInvariant == Init => IInv
<1> SUFFICES ASSUME Init PROVE IInv
  OBVIOUS
<1>1. TypeOK
  <2>1. 0 \in 0 .. Frame /\ 0 - 0 \in 0 .. Capacity
    BY FrameSize, SizesOK
  <2>2. /\ sent \in [Streams -> 0 .. Frame] /\ got \in [Streams -> 0 .. Frame]
        /\ \A s \in Streams : sent[s] - got[s] \in 0 .. Capacity
    BY <2>1 DEF Init
  <2>3. /\ wr \in [Streams -> {"idle", "sending", "done", "threw"}]
        /\ rd \in [Streams -> {"idle", "start", "recv", "spin", "done", "threw"}]
        /\ late \in [Streams -> BOOLEAN]
    BY DEF Init
  <2>4. /\ open \subseteq Clients /\ served \subseteq Clients
        /\ stopped \subseteq Clients /\ running \subseteq Clients
        /\ toRead \in Seq(Clients) /\ toWrite \in Seq(Clients) /\ down \in BOOLEAN
    BY EmptySeq DEF Init
  <2> QED BY <2>2, <2>3, <2>4 DEF TypeOK
<1>2. \A s \in Streams : Flow(s)
  BY FrameSize DEF Init, Flow
<1>3. \A c \in Clients : Life(c)
  BY StreamNames DEF Init, Life, Elements
<1>4. Distinct(toWrite) /\ ~down
  BY DEF Init, Distinct
<1> QED BY <1>1, <1>2, <1>3, <1>4 DEF IInv

\* The inductive invariant of the connections.
THEOREM InvariantHolds == Safety => []IInv
<1>1. ASSUME IInv, [Next]_vars PROVE IInv'
  <2>1. CASE UNCHANGED vars
    BY <1>1, <2>1
       DEF vars, streams, ends, daemon, IInv, TypeOK, Flow, Life, Thrown
  <2>2. CASE Next
    BY <1>1, <2>2, LeaveKeeps, RunKeeps, ConnectKeeps, BeginReadKeeps,
       BeginWriteKeeps, SendKeeps, SendFailsKeeps, WaitKeeps, RecvKeeps,
       TimesOutKeeps
       DEF Next, Write, ReadRaw
  <2> QED BY <1>1, <2>1, <2>2
<1> QED BY <1>1, InitInvariant, PTL DEF Safety

\* Every variable keeps its type, no stream delivers more than was sent and
\* none buffers more than it can.
THEOREM TypesHold == Safety => []TypeOK
<1>1. IInv => TypeOK
  BY DEF IInv
<1> QED BY <1>1, InvariantHolds, PTL

\* read() returns only what write() has sent whole (socket.cpp:50-90).
THEOREM ReadsAreWhole == Safety => []ReadIsWhole
<1>1. ASSUME IInv PROVE ReadIsWhole
  <2> SUFFICES ASSUME NEW c \in Clients
               PROVE  /\ rd[Request(c)] = "done" => wr[Request(c)] = "done"
                      /\ wr[Response(c)] # "idle" => rd[Request(c)] = "done"
                      /\ rd[Response(c)] = "done" => /\ wr[Response(c)] = "done"
                                                     /\ rd[Request(c)] = "done"
    BY DEF ReadIsWhole
  <2>1. /\ rd[Request(c)] = "done" => wr[Request(c)] = "done"
        /\ rd[Response(c)] = "done" => wr[Response(c)] = "done"
    BY <1>1, StreamNumbers, StreamNames
  <2>2. wr[Response(c)] # "idle" => rd[Request(c)] = "done"
    BY <1>1 DEF IInv, Life
  <2> QED BY <2>1, <2>2
<1> QED BY <1>1, InvariantHolds, PTL

\* However slow the clients are, the daemon throws only at one that closed its
\* socket before its request or its response was whole (socket.cpp:58-79).
THEOREM ThrowsOnlyAtLeavers == Safety => []DownNeedsLeaver
<1>1. ASSUME IInv, down PROVE DownNeedsLeaver
  <2>1. PICK c \in Clients : rd[Request(c)] = "threw" \/ wr[Response(c)] = "threw"
    BY <1>1 DEF IInv, Thrown
  <2>2. Life(c)
    BY <1>1 DEF IInv
  <2>3. CASE rd[Request(c)] = "threw"
    BY <2>2, <2>3 DEF Life, DownNeedsLeaver
  <2>4. CASE wr[Response(c)] = "threw"
    <3>1. rd[Response(c)] # "done"
      BY <1>1, <2>4, StreamNumbers, StreamNames
    <3> QED BY <2>2, <2>4, <3>1 DEF Life, DownNeedsLeaver
  <2> QED BY <2>1, <2>3, <2>4
<1>2. IInv => DownNeedsLeaver
  BY <1>1 DEF DownNeedsLeaver
<1> QED BY <1>2, InvariantHolds, PTL
=============================================================================
