----------------------------- MODULE UnixSocket -----------------------------
(***************************************************************************)
(* UnixSocket::write and read (socket.cpp) on the connections of a daemon: *)
(* a frame is an eight-byte length and a payload, sent by two calls of     *)
(* send; read() calls readRaw once for each, with a deadline of its own.   *)
(*                                                                         *)
(* The resolver thread reads the requests one connection after the other,  *)
(* the responder thread writes the responses one after the other.  A       *)
(* client may leave at any point, and may stop without closing its socket  *)
(* (suspended, or hung).  An exception in a thread of the daemon ends it.  *)
(*                                                                         *)
(* Streams are counted in units: the length is one, which the kernel       *)
(* queues whole, the payload is Payload units.                             *)
(***************************************************************************)
EXTENDS Naturals, Sequences, FiniteSets

CONSTANTS Clients,
          Payload,     \* units of a payload
          Capacity     \* units a socket buffers

ASSUME SizesOK == Payload \in Nat \ {0} /\ Capacity \in Nat \ {0}

Frame == 1 + Payload
Request(c) == <<c, "request">>
Response(c) == <<c, "response">>
Streams == Clients \X {"request", "response"}

VARIABLES sent,       \* units the writer of each stream has sent
          got,        \* units the reader of each stream has received
          wr,         \* the writer: idle, sending, done, threw
          rd,         \* the reader: idle, start, recv, spin, done, threw
          late,       \* the deadline of the current readRaw has passed
          open,       \* clients whose end of the socket is open
          served,     \* clients whose end in the daemon is open
          stopped,    \* clients that stopped for ever
          toRead,     \* the mailbox of the resolver
          running,    \* requests with the work pool
          toWrite,    \* the mailbox of the responder
          down        \* the daemon ended

streams == <<sent, got, wr, rd, late>>
ends == <<open, served, stopped>>
daemon == <<toRead, running, toWrite, down>>
vars == <<streams, ends, daemon>>

Init == /\ sent = [s \in Streams |-> 0]
        /\ got = [s \in Streams |-> 0]
        /\ wr = [s \in Streams |-> "idle"]
        /\ rd = [s \in Streams |-> "idle"]
        /\ late = [s \in Streams |-> FALSE]
        /\ open = {} /\ served = {} /\ stopped = {}
        /\ toRead = <<>> /\ running = {} /\ toWrite = <<>>
        /\ down = FALSE

ByClient(s) == s[2] = "request"     \* the client writes it
\* The end that writes, or reads, the stream is open, and its process runs.
ClientRuns(c) == c \in open \ stopped
DaemonRuns(c) == ~down /\ c \in served
CanWrite(s) == IF ByClient(s) THEN ClientRuns(s[1]) ELSE DaemonRuns(s[1])
CanRead(s) == IF ByClient(s) THEN DaemonRuns(s[1]) ELSE ClientRuns(s[1])
WriterOpen(s) == IF ByClient(s) THEN s[1] \in open ELSE DaemonRuns(s[1])
ReaderOpen(s) == IF ByClient(s) THEN DaemonRuns(s[1]) ELSE s[1] \in open

\* A THROW on a stream ends the client, or the daemon when it is the daemon's.
Throw(s, byClient) ==
    IF byClient THEN /\ open' = open \ {s[1]}
                     /\ UNCHANGED <<served, stopped, daemon>>
                ELSE /\ down' = TRUE
                     /\ UNCHANGED <<ends, toRead, running, toWrite>>

-----------------------------------------------------------------------------
(* UnixSocket::write                                                       *)

\* Variant of Send: one byte too many, the zero that ends c_str().
SendLong(s) ==
    /\ wr[s] = "sending"
    /\ CanWrite(s) /\ ReaderOpen(s)
    /\ sent[s] - got[s] < Capacity
    /\ sent' = [sent EXCEPT ![s] = @ + 1]
    /\ IF sent[s] < Frame
       THEN UNCHANGED <<wr, rd, served>>
       ELSE /\ wr' = [wr EXCEPT ![s] = "done"]
            /\ UNCHANGED <<rd, served>>
    /\ UNCHANGED <<got, late, open, stopped, daemon>>

\* The kernel takes the next unit of a send, when there is room for it.  The
\* client goes on to read when its request is sent; the daemon closes the
\* connection when the response is.
Send(s) ==
    /\ wr[s] = "sending"
    /\ CanWrite(s) /\ ReaderOpen(s)
    /\ sent[s] - got[s] < Capacity
    /\ sent' = [sent EXCEPT ![s] = @ + 1]
    /\ IF sent[s] + 1 < Frame
       THEN UNCHANGED <<wr, rd, served>>
       ELSE /\ wr' = [wr EXCEPT ![s] = "done"]
            /\ IF ByClient(s)
               THEN /\ rd' = [rd EXCEPT ![Response(s[1])] = "start"]
                    /\ UNCHANGED served
               ELSE /\ served' = served \ {s[1]}
                    /\ UNCHANGED rd
    /\ UNCHANGED <<got, late, open, stopped, daemon>>

\* The other end is gone: send fails, or has sent a part, and write throws.
SendFails(s) ==
    /\ wr[s] = "sending"
    /\ CanWrite(s) /\ ~ReaderOpen(s)
    /\ wr' = [wr EXCEPT ![s] = "threw"]
    /\ Throw(s, ByClient(s))
    /\ UNCHANGED <<sent, got, rd, late>>

-----------------------------------------------------------------------------
(* UnixSocket::readRaw and read                                            *)

ReadReturns(s) ==
    IF ByClient(s)
    THEN /\ toRead' = Tail(toRead)
         /\ running' = running \cup {s[1]}
         /\ UNCHANGED <<ends, toWrite, down>>
    ELSE /\ open' = open \ {s[1]}
         /\ UNCHANGED <<served, stopped, daemon>>

\* The loop is entered with a deadline three seconds ahead.
EnterRaw(s) ==
    /\ rd[s] = "start"
    /\ CanRead(s)
    /\ rd' = [rd EXCEPT ![s] = "recv"]
    /\ late' = [late EXCEPT ![s] = FALSE]
    /\ UNCHANGED <<sent, got, wr, ends, daemon>>

\* Variant of Recv: the deadline is compared even when everything is there.
RecvComparesFirst(s) ==
    /\ rd[s] = "recv" /\ CanRead(s) /\ sent[s] > got[s]
    /\ got' = [got EXCEPT ![s] = @ + 1]
    /\ IF late[s] /\ got'[s] = Frame
       THEN rd' = [rd EXCEPT ![s] = "threw"] /\ Throw(s, ~ByClient(s))
       ELSE IF got'[s] = Frame
       THEN rd' = [rd EXCEPT ![s] = "done"] /\ ReadReturns(s)
       ELSE /\ rd' = [rd EXCEPT ![s] = IF got'[s] = 1 THEN "start" ELSE @]
            /\ UNCHANGED <<ends, daemon>>
    /\ UNCHANGED <<sent, wr, late>>

\* recv takes a unit.  With MSG_WAITALL it only returns when it has all it was
\* asked for; then total_read = len, and the deadline is not looked at.  The
\* length is followed by the readRaw of the payload.
Recv(s) ==
    /\ rd[s] = "recv"
    /\ CanRead(s)
    /\ sent[s] > got[s]
    /\ got' = [got EXCEPT ![s] = @ + 1]
    /\ IF got'[s] = Frame
       THEN rd' = [rd EXCEPT ![s] = "done"] /\ ReadReturns(s)
       ELSE /\ rd' = [rd EXCEPT ![s] = IF got'[s] = 1 THEN "start" ELSE @]
            /\ UNCHANGED <<ends, daemon>>
    /\ UNCHANGED <<sent, wr, late>>

\* Variant of EndOfFile: what there is counts as the whole.
EndOfFileIsEnough(s) ==
    /\ rd[s] = "recv"
    /\ CanRead(s) /\ ~WriterOpen(s) /\ sent[s] = got[s]
    /\ rd' = [rd EXCEPT ![s] = "done"]
    /\ ReadReturns(s)
    /\ UNCHANGED <<sent, got, wr, late>>

\* The other end is closed: recv returns what it has, or 0, at once.
EndOfFile(s) ==
    /\ rd[s] = "recv"
    /\ CanRead(s) /\ ~WriterOpen(s) /\ sent[s] = got[s]
    /\ rd' = [rd EXCEPT ![s] = "spin"]
    /\ UNCHANGED <<sent, got, wr, late, ends, daemon>>

\* The deadline passes, in recv or between two calls of it.
Deadline(s) ==
    /\ rd[s] \in {"recv", "spin"}
    /\ CanRead(s)
    /\ ~late[s]
    /\ late' = [late EXCEPT ![s] = TRUE]
    /\ UNCHANGED <<sent, got, wr, rd, ends, daemon>>

\* total_read < len && TimePoint() < until
RecvAgain(s) ==
    /\ rd[s] = "spin"
    /\ CanRead(s)
    /\ ~late[s]
    /\ rd' = [rd EXCEPT ![s] = "recv"]
    /\ UNCHANGED <<sent, got, wr, late, ends, daemon>>

\* Variant of TimesOut: the client's and the resolver's loop have no deadline.
NeverTimesOut(s) ==
    /\ rd[s] = "spin"
    /\ CanRead(s)
    /\ late[s]
    /\ rd' = [rd EXCEPT ![s] = "recv"]
    /\ UNCHANGED <<sent, got, wr, late, ends, daemon>>

\* "Unix socket read timed out!"
TimesOut(s) ==
    /\ rd[s] = "spin"
    /\ CanRead(s)
    /\ late[s]
    /\ rd' = [rd EXCEPT ![s] = "threw"]
    /\ Throw(s, ~ByClient(s))
    /\ UNCHANGED <<sent, got, wr, late>>

-----------------------------------------------------------------------------
(* The threads that call them                                              *)

\* connect; the server thread accepts and sends the request to the resolver.
Connect(c) ==
    /\ ~down
    /\ wr[Request(c)] = "idle"
    /\ wr' = [wr EXCEPT ![Request(c)] = "sending"]
    /\ open' = open \cup {c}
    /\ served' = served \cup {c}
    /\ toRead' = Append(toRead, c)
    /\ UNCHANGED <<sent, got, rd, late, stopped, running, toWrite, down>>

\* The user interrupts the client.
Leave(c) ==
    /\ c \in open
    /\ open' = open \ {c}
    /\ UNCHANGED <<streams, served, stopped, daemon>>

\* The client stops, with its socket open.
Stop(c) ==
    /\ c \in open \ stopped
    /\ stopped' = stopped \cup {c}
    /\ UNCHANGED <<streams, open, served, daemon>>

\* Resolver::handleMessage; its message stays in toRead until read returns.
BeginRead ==
    /\ ~down
    /\ toRead # <<>>
    /\ rd[Request(Head(toRead))] = "idle"
    /\ rd' = [rd EXCEPT ![Request(Head(toRead))] = "start"]
    /\ UNCHANGED <<sent, got, wr, late, ends, daemon>>

\* The command returns; commands that do not are the subject of Holper.
Run(c) ==
    /\ ~down
    /\ c \in running
    /\ running' = running \ {c}
    /\ toWrite' = Append(toWrite, c)
    /\ UNCHANGED <<streams, ends, toRead, down>>

\* The responder is in write for no other client.
Writing == {c \in Clients : wr[Response(c)] = "sending"}

\* Responder::handleMessage
BeginWrite ==
    /\ ~down
    /\ toWrite # <<>>
    /\ Writing = {}
    /\ wr' = [wr EXCEPT ![Response(Head(toWrite))] = "sending"]
    /\ toWrite' = Tail(toWrite)
    /\ UNCHANGED <<sent, got, rd, late, ends, toRead, running, down>>

-----------------------------------------------------------------------------
Write(s) == Send(s) \/ SendFails(s)
ReadRaw(s) == EnterRaw(s) \/ Recv(s) \/ EndOfFile(s) \/ RecvAgain(s)
              \/ TimesOut(s)

Next == \/ \E c \in Clients : Connect(c) \/ Leave(c) \/ Stop(c) \/ Run(c)
        \/ BeginRead \/ BeginWrite
        \/ \E s \in Streams : Write(s) \/ ReadRaw(s) \/ Deadline(s)

Safety == Init /\ [][Next]_vars

\* Threads and clients that can run do, commands return, and time passes.
\* Nobody has to connect, to leave or to stop.
Spec == /\ Safety
        /\ WF_vars(BeginRead) /\ WF_vars(BeginWrite)
        /\ \A c \in Clients : WF_vars(Run(c))
        /\ \A s \in Streams : /\ WF_vars(Write(s))
                              /\ WF_vars(ReadRaw(s))
                              /\ WF_vars(Deadline(s))

-----------------------------------------------------------------------------
(* Properties                                                              *)

\* Every variable has its type; a stream delivers no more than was sent and
\* buffers no more than it can.
TypeOK ==
    /\ sent \in [Streams -> 0..Frame]
    /\ got \in [Streams -> 0..Frame]
    /\ \A s \in Streams : sent[s] - got[s] \in 0..Capacity
    /\ wr \in [Streams -> {"idle", "sending", "done", "threw"}]
    /\ rd \in [Streams -> {"idle", "start", "recv", "spin", "done", "threw"}]
    /\ late \in [Streams -> BOOLEAN]
    /\ open \subseteq Clients /\ served \subseteq Clients
    /\ stopped \subseteq Clients /\ running \subseteq Clients
    /\ toRead \in Seq(Clients) /\ toWrite \in Seq(Clients)
    /\ down \in BOOLEAN

\* read() returns only what write() has sent whole (socket.cpp:50-90), through
\* both ends: a client that has read its response has had its request read
\* whole before, and never takes the end of a connection for the end of a frame.
ReadIsWhole ==
    \A c \in Clients :
       /\ rd[Request(c)] = "done" => wr[Request(c)] = "done"
       /\ wr[Response(c)] # "idle" => rd[Request(c)] = "done"
       /\ rd[Response(c)] = "done" => /\ wr[Response(c)] = "done"
                                      /\ rd[Request(c)] = "done"

\* However slow the clients are, the daemon only throws because one of them
\* closed its socket before its request or its response was whole: a deadline
\* that passes while recv still gets everything is no time-out
\* (socket.cpp:69-79, 58-61).
DownNeedsLeaver ==
    down => \E c \in Clients :
               /\ c \notin open
               /\ \/ rd[Request(c)] = "threw" /\ sent[Request(c)] < Frame
                  \/ wr[Response(c)] = "threw" /\ rd[Response(c)] # "done"

\* A thread of the daemon waits at a client that has stopped: for the rest of
\* its request, or for room for its response.
HeldUp == \E c \in stopped \cap open :
             \/ rd[Request(c)] = "recv" /\ sent[Request(c)] = got[Request(c)]
             \/ /\ wr[Response(c)] = "sending"
                /\ sent[Response(c)] = got[Response(c)] + Capacity

\* A client that has written its request reads its response or gets an
\* exception, even when the daemon ends, unless the daemon waits at a client
\* that has stopped: readRaw leaves its loop at the end of a stream, and only a
\* stopped client holds up the others (socket.cpp:53, 69-78).
AnsweredUnlessHeldUp ==
    \A c \in Clients :
       wr[Request(c)] = "done" ~> c \notin open \/ c \in stopped \/ HeldUp

\* What the deadline and the text of the exception say of readRaw
\* (socket.cpp:67, 78): a read whose three seconds are over ends.
ReadTimesOut ==
    \A c \in Clients :
       late[Request(c)] /\ rd[Request(c)] \in {"recv", "spin"} ~>
          rd[Request(c)] \notin {"recv", "spin"} \/ down
=============================================================================
