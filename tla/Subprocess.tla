----------------------------- MODULE Subprocess -----------------------------
(***************************************************************************)
(* Subprocess (subprocess.h) as clipboard.cpp:127-132 uses it: a worker of *)
(* the pool opens three pipes, forks and executes a program, writes to its *)
(* standard input and calls finish, while other workers do the same.       *)
(*                                                                         *)
(* A process is named by the works it was forked for: the daemon is <<>>,  *)
(* and the child that process p forks for work k is Append(p, k).  When    *)
(* execv fails, the child throws.  The exception is caught by runSingle    *)
(* (workpool.cpp:41), as in the thread the child is a copy of, and the     *)
(* child goes on as a worker on its copy of works_: it runs other actions, *)
(* and forks children of its own, to which the same can happen.            *)
(* A thread is <<p, w>>: worker w in the daemon, or the copy of it that is *)
(* all that runs in a child.                                               *)
(*                                                                         *)
(* The pipes are not close-on-exec, so a child inherits the ends of every  *)
(* pipe its parent has open when it forks.  Only the pipe of the standard  *)
(* input is followed: standard output and error do not block at either     *)
(* end, and finish takes what is in them and goes on.                      *)
(***************************************************************************)
EXTENDS Naturals, Sequences, FiniteSets, SequencesExt

CONSTANTS Workers, Works, None

ASSUME NamesOK == None \notin Works
ASSUME WorksFinite == IsFiniteSet(Works)

Daemon == <<>>

VARIABLES state,      \* of each process: "worker" if it runs the code of one
          works,      \* works_ in the memory of each process
          pc,         \* where each thread is in the work it runs
          hand,       \* the work it runs
          readers,    \* <<p, c>>: p has the read end of the pipe of c
          writers,    \* <<p, c>>: p has the write end of the pipe of c
          begun       \* times the action of a work was begun, by any process

pipes == <<readers, writers>>
threads == <<pc, hand>>
vars == <<state, works, threads, pipes, begun>>

Processes == DOMAIN state
Children == Processes \ {Daemon}
Threads == DOMAIN pc

Init == /\ state = [p \in {Daemon} |-> "worker"]
        /\ works = [p \in {Daemon} |-> SetToSeq(Works)]
        /\ pc = [t \in {Daemon} \X Workers |-> "get"]
        /\ hand = [t \in {Daemon} \X Workers |-> None]
        /\ readers = {}
        /\ writers = {}
        /\ begun = [k \in Works |-> 0]

\* The process forked for the work of thread t.
Sub(t) == Append(t[1], hand[t])

Goto(t, from, to) ==
    /\ state[t[1]] = "worker"
    /\ pc[t] = from
    /\ pc' = [pc EXCEPT ![t] = to]

\* The children whose execv failed.
Copies == {c \in Children : state[c] \in {"worker", "killed"}}

\* Nobody has an end of the pipe of c.
Closed(ends, c) == \A e \in ends : e[2] # c

\* The ends that are left when process p is gone.
Drop(ends, p) == {e \in ends : e[1] # p}

\* The action returned or threw, and the thread goes for the next work.  Only
\* the answer of a thread of the daemon reaches the responder: that of a copy
\* goes into a copy of its mailbox.
Answer(t) == hand' = [hand EXCEPT ![t] = None]

-----------------------------------------------------------------------------
(* A worker, of the daemon or of a child whose execv failed                *)

\* Variant of GetWork: front without pop.
GetWorkNoPop(t) ==
    /\ works[t[1]] # <<>>
    /\ Goto(t, "get", "pipe")
    /\ hand' = [hand EXCEPT ![t] = Head(works[t[1]])]
    /\ begun' = [begun EXCEPT ![Head(works[t[1]])] = @ + 1]
    /\ UNCHANGED <<state, works, pipes>>

\* getWork, and the action begins.
GetWork(t) ==
    /\ works[t[1]] # <<>>
    /\ Goto(t, "get", "pipe")
    /\ hand' = [hand EXCEPT ![t] = Head(works[t[1]])]
    /\ works' = [works EXCEPT ![t[1]] = Tail(@)]
    /\ begun' = [begun EXCEPT ![Head(works[t[1]])] = @ + 1]
    /\ UNCHANGED <<state, pipes>>

\* pipe and pipe2
OpenPipes(t) ==
    /\ Goto(t, "pipe", "fork")
    /\ readers' = readers \cup {<<t[1], Sub(t)>>}
    /\ writers' = writers \cup {<<t[1], Sub(t)>>}
    /\ UNCHANGED <<state, works, hand, begun>>

\* A pipe cannot be opened: what is open is closed, and the constructor throws.
PipesFail(t) ==
    /\ Goto(t, "pipe", "get")
    /\ Answer(t)
    /\ UNCHANGED <<state, works, pipes, begun>>

\* fork fails: the pipes are closed, and the constructor throws.
ForkFails(t) ==
    /\ Goto(t, "fork", "get")
    /\ Answer(t)
    /\ readers' = readers \ {<<t[1], Sub(t)>>}
    /\ writers' = writers \ {<<t[1], Sub(t)>>}
    /\ UNCHANGED <<state, works, begun>>

Inherited(ends, p, c) == ends \cup {<<c, e[2]>> : e \in ends \ Drop(ends, p)}

\* Function f, with one more argument.
With(f, x, v) == [y \in DOMAIN f \cup {x} |-> IF y = x THEN v ELSE f[y]]

\* fork: process c is a copy of process p, with one thread, a copy of t.
Copy(t, c) ==
    /\ state[t[1]] = "worker"
    /\ pc[t] = "fork"
    /\ pc' = With([pc EXCEPT ![t] = "parent"], <<c, t[2]>>, "get")
    /\ hand' = With(hand, <<c, t[2]>>, None)
    /\ state' = With(state, c, "forked")
    /\ works' = With(works, c, works[t[1]])

\* Variant of Fork: the child closes the wrong end of its standard input.
ForkClosesReadEnd(t) ==
    LET c == Sub(t)
    IN /\ Copy(t, c)
       /\ readers' = Inherited(readers, t[1], c) \ {<<c, c>>}
       /\ writers' = Inherited(writers, t[1], c)
       /\ UNCHANGED begun

\* fork, and the child's first call of close: it holds all that its parent
\* holds but the write end of its own pipe.
Fork(t) ==
    LET c == Sub(t)
    IN /\ Copy(t, c)
       /\ readers' = Inherited(readers, t[1], c)
       /\ writers' = Inherited(writers, t[1], c) \ {<<c, c>>}
       /\ UNCHANGED begun

\* The parent closes the read end.
CloseReadEnd(t) ==
    /\ Goto(t, "parent", "write")
    /\ readers' = readers \ {<<t[1], Sub(t)>>}
    /\ UNCHANGED <<state, works, hand, writers, begun>>

\* Subprocess::write
Write(t) ==
    /\ Goto(t, "write", "close")
    /\ ~Closed(readers, Sub(t))
    /\ UNCHANGED <<state, works, hand, pipes, begun>>

\* ... cut short by a signal: it throws, and the destructor closes the pipes.
\* Nobody waits for the child.
WriteFails(t) ==
    /\ Goto(t, "write", "get")
    /\ ~Closed(readers, Sub(t))
    /\ Answer(t)
    /\ writers' = writers \ {<<t[1], Sub(t)>>}
    /\ UNCHANGED <<state, works, readers, begun>>

\* ... without a reader left: the process gets SIGPIPE, and its ends are closed.
WriteKills(t) ==
    /\ state[t[1]] = "worker"
    /\ pc[t] = "write"
    /\ Closed(readers, Sub(t))
    /\ state' = [state EXCEPT ![t[1]] = "killed"]
    /\ readers' = Drop(readers, t[1])
    /\ writers' = Drop(writers, t[1])
    /\ UNCHANGED <<works, threads, begun>>

\* Variant of CloseWriteEnd: finish waits with in_ open.
KeepWriteEnd(t) ==
    /\ Goto(t, "close", "wait")
    /\ UNCHANGED <<state, works, hand, pipes, begun>>

\* Subprocess::finish: close(in_)
CloseWriteEnd(t) ==
    /\ Goto(t, "close", "wait")
    /\ writers' = writers \ {<<t[1], Sub(t)>>}
    /\ UNCHANGED <<state, works, hand, readers, begun>>

\* waitpid; then what the child printed is read, and the pipes are closed.
Reap(t) ==
    /\ Goto(t, "wait", "get")
    /\ state[Sub(t)] \in {"exited", "lingers", "killed"}
    /\ Answer(t)
    /\ UNCHANGED <<state, works, pipes, begun>>

\* waitpid fails, and finish throws.
ReapFails(t) ==
    /\ Goto(t, "wait", "get")
    /\ Answer(t)
    /\ UNCHANGED <<state, works, pipes, begun>>

-----------------------------------------------------------------------------
(* A child c.  It outlives its parent.                                     *)

\* The program takes the place of the copied memory.
Exec(c) ==
    /\ state[c] = "forked"
    /\ state' = [state EXCEPT ![c] = "running"]
    /\ works' = [works EXCEPT ![c] = <<>>]
    /\ UNCHANGED <<threads, pipes, begun>>

\* THROW("exec failed"): the child is a worker now, on the works that waited
\* when it was forked.
ExecFails(c) ==
    /\ state[c] = "forked"
    /\ state' = [state EXCEPT ![c] = "worker"]
    /\ UNCHANGED <<works, threads, pipes, begun>>

Ends(c) ==
    /\ state' = [state EXCEPT ![c] = "exited"]
    /\ readers' = Drop(readers, c)
    /\ writers' = Drop(writers, c)
    /\ UNCHANGED <<works, threads, begun>>

\* The program has read to the end of its input and exits.
Exit(c) == state[c] = "running" /\ Closed(writers, c) /\ Ends(c)

\* The program gives up before it has read its input: no display, a signal.
ExitEarly(c) == state[c] = "running" /\ ~Closed(writers, c) /\ Ends(c)

\* xsel leaves a process in the background that keeps what it inherited.
Linger(c) ==
    /\ state[c] = "running"
    /\ Closed(writers, c)
    /\ state' = [state EXCEPT ![c] = "lingers"]
    /\ readers' = readers \ {<<c, c>>}
    /\ UNCHANGED <<works, threads, writers, begun>>

\* The background process gives up the selection.
LingerEnds(c) == state[c] = "lingers" /\ Ends(c)

-----------------------------------------------------------------------------
Worker(t) == GetWork(t) \/ OpenPipes(t) \/ PipesFail(t)
             \/ Fork(t) \/ ForkFails(t) \/ CloseReadEnd(t)
             \/ Write(t) \/ WriteKills(t) \/ CloseWriteEnd(t) \/ Reap(t)
Program(c) == Exec(c) \/ ExecFails(c) \/ Exit(c) \/ Linger(c)

Next == \/ \E t \in Threads : Worker(t) \/ WriteFails(t) \/ ReapFails(t)
        \/ \E c \in Children : Program(c) \/ ExitEarly(c) \/ LingerEnds(c)

Safety == Init /\ [][Next]_vars

\* The workers of the daemon run, and the programs they start.  Nothing is
\* asked of a worker in a child, whose copy of workMutex_ may be locked for
\* ever.  No call has to fail, no program has to give up early, and no
\* background process has to end.
Spec ==
    /\ Safety
    /\ \A w \in Workers : WF_vars(Worker(<<Daemon, w>>))
    /\ \A k \in Works : WF_vars(<<k>> \in Children /\ Program(<<k>>))

-----------------------------------------------------------------------------
(* Properties                                                              *)

Places == {"get", "pipe", "fork", "parent", "write", "close", "wait"}

\* Every variable has its type; a thread has a work in hand when it runs one,
\* and a process has the write end of the pipe of a child only while the thread
\* that needs it is there.
TypeOK ==
    /\ Daemon \in Processes
    /\ Processes \subseteq Seq(Works)
    /\ state \in [Processes -> {"forked", "running", "worker", "exited",
                               "lingers", "killed"}]
    /\ works \in [Processes -> Seq(Works)]
    /\ Threads \subseteq Processes \X Workers
    /\ pc \in [Threads -> Places]
    /\ hand \in [Threads -> Works \cup {None}]
    /\ \A t \in Threads : pc[t] = "get" <=> hand[t] = None
    /\ readers \subseteq Processes \X Seq(Works)
    /\ writers \subseteq Processes \X Seq(Works)
    /\ \A e \in writers : e[2] \in {Append(e[1], k) : k \in Works} =>
          \E t \in Threads : /\ t[1] = e[1] /\ pc[t] \notin {"get", "pipe", "wait"}
                             /\ Sub(t) = e[2]
    /\ begun \in [Works -> Nat]

\* An action is begun again only by a child whose execv failed, or the child of
\* such a child: at most once by each, and never the actions it was forked in
\* (subprocess.h:100, workpool.cpp:41).
TwiceNeedsExecFailure ==
    \A k \in Works :
       begun[k] <= 1 + Cardinality({c \in Copies : k \notin ToSet(c)})

\* The daemon, or a worker in a child, is killed only by a program that ended
\* before it was written to, its own or one further down (subprocess.h:112).  A
\* failed execv does not do it, as the child that lives on keeps its end of the
\* pipe.
DownNeedsEarlyExit ==
    \A p \in Processes : state[p] = "killed" =>
       \E t \in Threads : /\ IsPrefix(p, t[1]) /\ state[t[1]] = "killed"
                          /\ pc[t] = "write"
                          /\ Sub(t) \in Children /\ state[Sub(t)] = "exited"

\* A worker that runs copied memory holds up whoever waits for it.
IsCopy(c) == c \in Children /\ state[c] = "worker"

\* finish returns, unless execv failed, or from some time on another process
\* has the write end of the pipe, inherited by a fork between the pipe and the
\* close of this subprocess (subprocess.h:66-104, 120-130).
FinishReturns ==
    \A w \in Workers : \A k \in Works :
       (hand[<<Daemon, w>>] = k /\ pc[<<Daemon, w>>] = "wait") ~>
          \/ hand[<<Daemon, w>>] # k \/ state[Daemon] = "killed"
          \/ [](IsCopy(<<k>>) \/ ~Closed(Drop(writers, Daemon), <<k>>))

\* subprocess.h:100 means to report a failed execv to the worker that asked
\* for the subprocess.
ExecFailureIsReported ==
    \A k \in Works :
       IsCopy(<<k>>) ~> \/ \A w \in Workers : hand[<<Daemon, w>>] # k
                        \/ state[Daemon] = "killed"
=============================================================================
