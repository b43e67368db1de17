# TLA+ models of holper

`holper` (src/holper) is a daemon that runs desktop commands (volume,
brightness, music, passwords, ...) for a small command-line client. The models
are about what a unit test hardly reaches in it: threads that hand objects to
each other through queues, and what becomes of everybody's requests when a
client leaves, a command kills the process or systemd restarts it; workers that
run commands at the same time on one screen, sink or pipe; and the small
algorithms (command tree, parameters, passwords, ring buffer) whose corner cases
depend on the order of calls.

    client --connect/write--> Server --> Resolver --> WorkPool --> Workers
       ^                                                             |
       +------------------- Responder <------------------------------+

## Inventory

| component | state | operations | interacts with | hard behaviour | correct when |
|---|---|---|---|---|---|
| Message threads (`thread.h`) | `messages_`, `messagesMutex_`, `messagesSemaphore_` | `sendMessage` (any thread), `run` (its own) | Resolver, Responder and WorkPool are `Thread<T>`s | queue and semaphore change at different times; semaphore calls may fail, a handler may throw or block for ever | FIFO, each message handled once, no lost wakeup, no pop of an empty queue |
| Work pool (`workpool.*`) | `works_`, `workMutex_`, `workSemaphore_`, workers | `handleMessage` pushes, `getWork` pops, `runSingle`, `finish_` | gets works from the resolver, calls the responder from the worker | several consumers; mutex and semaphore never initialised; results ignored | each work to one worker, in order |
| Server, requests (`server`, `resolver`, `responder`, `request`) | `Request` objects, `idCounter_`, the mailboxes | accept, read and parse, resolve, send, respond | a plain pointer to the request travels in `finish_` | ownership changes threads by `release()`; any exception ends the process | one owner at a time, destroyed once, own answer to each client |
| Unix socket (`socket.*`) | descriptor, path | connect, write, read, serve | client and server | partial sends, end of file, deadline checked only between calls, a full buffer | a payload arrives whole or the reader is told; nobody waits for others |
| Client (`client.cpp`) | none | parse, connect, write, read, exit | server | the daemon may go down at any time | exits with the code of its own command |
| systemd unit (`holper.service`) | service state | start, restart on failure | `sd_notify` | READY is sent before the socket listens | a ready service can be connected to |
| Commands (`command*`, `ParamSpec` in `request.h`) | tree of names, counters | `getChild`, `resolveCommand`, `validate`; `param`, `key`, `failReason` | resolver and workers | order of `param` and `key`; names of two groups | the longest known path is resolved; a call is accepted iff its parameters fit |
| Logger (`logger.*`) | targets, ring buffer | `_log`, `write`, `getLogs` | all threads | no lock between targets; failing writes; wrap of the ring | each line once, in the order of its thread; the last lines |
| Profiler, counter, time | events; counts; timespec | `event`, `join`; `bump`; arithmetic | requests | carry of negative deltas | normalised times |
| Password (`clipboard.cpp`) | limits per alphabet | generate | subprocess | modulo by zero when limits run out; negative limits | length, minima and maxima respected |
| Subprocess (`subprocess.h`) | pid, three pipes | fork/exec, write, finish | used by workers concurrently | inherited pipe ends, SIGPIPE, a child that throws, goes on as a worker and forks itself | a child that ends is seen to end, a command runs once |
| Display (`display.cpp`) | kernel files, power of the screen | read, compute, switch, write | workers concurrently | lost updates; power and brightness change at different times; `float` cut to an integer; writes that fail unnoticed | clamped, lost only by overlap, dark only at zero |
| Volume (`pulse.cpp`) | volume and mute of the sink | connect, read, send | workers concurrently, libpulse callbacks | a pointer that outlives what it points to; failed `init` goes on | never above 200 per cent, answers true |
| Music (`music.cpp`, `sdbus.h`) | none | call, spawn, retry | D-Bus | ten retries; a failed `execl` | executed at most once, result told truly |
| Python daemon (`python/holperd.py`) | - | does not parse (line 347) | - | - | - |
| System, info, files, strings | none | I/O, formatting | - | - | - |
| Scheduler | - | not in `build.ninja`, does not compile | - | - | - |

`PROJECT.json` lists every component with its sources and, under `hazards`,
every place of the code that is hard to test.

## Modules

| module | models | composed of |
|---|---|---|
| `Channel` | abstract: a queue that delivers each message once, first in first out, to one of its receivers | - |
| `ThreadQueue` | `Thread<T>` of `thread.h` at the grain of mutex and semaphore | refines `Channel` |
| `WorkQueue` | `works_` of the work pool at the same grain, from any initial memory | refines `Channel` |
| `RequestService` | abstract: what a user is promised | - |
| `Holper` | clients, daemon and systemd; mailboxes are sequences | refines `RequestService` |
| `UnixSocket` | frames, deadlines and the threads that block in them | - |
| `Subprocess` | pipes, forks, workers that run programs, and children that become workers | - |
| `Backlight`, `Volume`, `Music` | the commands that change something outside of the daemon | instances in `Devices` |
| `Devices` | one of the three, on one device, with several workers | the three above |
| `CommandTree`, `ParamSpec`, `Password`, `Logger` | the parts that are about values | instances in `Values` |
| `Values` | one of the four | the four above |
| `MCThreadQueue`, `MCWorkQueue`, `MCHolper`, `MCUnixSocket`, `MCSubprocess`, `MCDevices`, `MCValues` | the values of the constants | extend the above |
| `QueueLemmas` | facts about sequences used as queues | - |
| `ThreadQueueProofs`, `WorkQueueProofs`, `HolperProofs`, `UnixSocketProofs`, `SubprocessProofs`, `DevicesProofs`, `ValuesProofs` | theorems | extend the module they are named after |

An operator whose comment starts with "Variant of" is not part of a
specification: it is a mistake the code could contain, kept beside the action
it would replace so that every property can be shown to fail on one.

### ThreadQueue

Everything a thread does between two blocking calls is one action: a sender
executes `SendMessage` (the call), `Lock`, `Push` (push and unlock, the end of
the block), `Post` or `PostOverflows`; the consumer `Wait`, `Lock`, `Take` (front,
pop, unlock) and `HandleMessage`. The mutex and the semaphore are variables;
`hand` is the `unique_ptr` each thread holds. An exception in any thread ends the
process (`terminated`): a post that overflows, a wait that fails (`WaitFails`), and
whatever a handler throws (`HandleThrows`), as those of `Resolver` and `Responder`
do at a client that left. A handler may also never return, since they block in
`recv` and `send`: that is a behaviour in which `HandleMessage` and `HandleThrows`
stay enabled and are not taken, which no fairness forbids.

### WorkQueue

The same for `workpool.cpp`. `Init` takes the semaphore from `SemInits` and the
mutex from `MutexInits`, because no constructor initialises them; `ghosts`
remembers the value the semaphore started with, `lost` the posts that failed
unnoticed and `failedWaits` the waits that did (`WaitFails`: the worker goes on to
the queue without a token). A garbage mutex either blocks or makes `LockMutex` throw (`LockFails`,
which is not obliged to happen). `TakeNothing` is the pop of an empty queue and
the dereference after it.

### Holper

A send or receive of a mailbox is one step; that this is what the mutex and
semaphore code amounts to is what the two modules above show. A `Request` is named
by the client of its connection, the one made on descriptor -1 by `BadSocket`;
`live` are the requests not destroyed. Commands are four kinds: `ok` returns,
`fails` becomes a response with code -1 (help of a group, parameters that do not
fit, an exception), `hangs` never returns, `kills` ends the process. `Down` is the
end of the process, whatever its cause: memory and sockets are gone, what
clients know and what has begun is not. `resolverPc = "release"` is the window
between `sendMessage` and `request.release()` (resolver.cpp:65-66), in which the
request may be answered and destroyed by the other threads.

### UnixSocket

A stream is two counters, `sent` and `got`, in units: one for the length, which
the kernel queues whole, and `Payload` for the rest. `Send` is the progress of the
two sends, which block when `Capacity` units are not yet received. `EnterRaw` sets
the deadline, `Recv` is the progress inside `recv` (MSG_WAITALL: it does not return
before it has everything, the other end closes, or it fails), `EndOfFile` its
return with less, `RecvAgain` and `TimesOut` the two outcomes of the loop's
condition. `Deadline` passes at any time after the loop was entered: that a thread
is not held up for three seconds *before* the first check of the loop is assumed.
A client may leave (its socket is closed) or stop (its socket stays open and
nothing more happens to it). An exception ends the client, or the daemon.

### Subprocess

A process is the sequence of the works it was forked for, from the daemon `<<>>`
down; a thread is a worker of a process. `readers` and `writers` say which process
holds which end of the pipe to the standard input of which child. `Fork` copies all
ends the parent holds at that moment (no pipe is close-on-exec), the works that
wait and the one thread that forks. That matters when `execv` fails: `ExecFails`
makes the child a worker, which executes the very same actions on its copy
(`Worker(t)` has no case for the daemon), and can fork children that fail again.
A process that writes without a reader is killed (`WriteKills`), the daemon or such
a child. `Exit` needs the end of the file, as `xsel --input` does; `ExitEarly` does
not; `Linger` is a program that goes on in the background with what it inherited.
A `write` that is cut short and a `waitpid` that fails end the action with an
exception, and nobody waits for the child any more (`WriteFails`, `ReapFails`).

The copy of `works_` stands for the whole pool of a child. Its semaphore is a copy
too, which may hold fewer tokens than there are works (a token another worker had
just taken), and so is its mutex, which may be locked by a thread that is not
there: such a child blocks. As nothing obliges a thread of a child to go on, these
behaviours are among those of the model.

### Backlight, Volume, Music

Each action is split where another worker, the kernel, libpulse or the player
can come in between. The screen computes in `float` (display.cpp:49-63): `Float` is
the set of what it may get, in thousandths of a unit of the kernel's file. The
quotient, 0.01f, its product, the sum and the last product are rounded to 24 bits,
each with an error of at most 2^-24 of its value, 0.01f of less than half of that.
Where the clamp does not decide, none of them is above the maximum, and those
before the sum do not all reach it: together they stay below four times 2^-24 of the
maximum, which is `Error`, with a thousandth to round up. What is written is cut to a
unit, so an error of any size can cost a whole one: set 20 of 255 is 51 exactly and
50.999996 in `float`, and writes 50. What is compared with a thousandth and
what is multiplied may err differently. `Dump` is a write that works; `DumpFails`
one that the kernel refuses, of which `actOn` takes no notice, so that the call
answers as if it had worked; `DumpCrashes` is `fopen` that fails. `stale` and `raced`
are history: which calls were overlapped; `missed`, that the screen was switched
off and the write of its 0 failed. In `Volume`, `sink` is the pointer `defaultSink_`, which is
unset or dangling once `init` is over; reading it yields the sink (`ReadSink`), some
other content (`ReadGarbage`), or ends the daemon (`Crash`). In `Music`, an answer
can get lost after the player has executed the call (`CallFails`).

### CommandTree, ParamSpec, Password, Logger

`CommandTree` builds a tree by every sequence of `addChild`, `setName` and
`makeAction` an initialiser may execute, with `validate` after each group, and
then resolves token sequences. The six groups of the program have distinct
names (info; display, visual; volume, vol; music, mus; system; clipboard, clip),
so no command of theirs is shadowed; nothing in the code would notice if one was.

`ParamSpec` executes every chain of `param` and `key` calls on the parameters of a
command line, which it splits as the client and the resolver do. A value is one of
"", "number" and "text", as no type tells more apart.

`Password` draws classes of characters, not characters, from every combination
of given, absent and negative limits. Sums of limits near the end of `int` are not
followed.

`Logger` has the two set-ups of the program: two descriptors and several
threads (`server.cpp`), or a descriptor, the ring and one thread (`client.cpp`).

## Runs

| run | configuration | shows |
|---|---|---|
| `thread_queue` | 2 senders, 3 messages, SEM_VALUE_MAX = 2 | `MutexGuardsQueue`, `TokenBalance`, `FrontExists`, `OnePlace`; refines `Channel` including its liveness, and `SentIsHandled`: both unless the process ends or a handler never returns |
| `work_queue` | 2 workers, 3 works, SEM_VALUE_MAX = 2, all initial values, 2 failed waits | the same for the work pool, its liveness in zeroed memory and while no wait and no post fails; `CrashNeedsSpareWakeup`: an empty queue is popped only if the wakeups nobody posted, of the uninitialised semaphore and of failed waits, are more than the posts that failed |
| `holper` | 3 clients, 2 workers, backlog 2, commands ok, fails, kills, 1 restart | `OneOwner`, `InOrder`, `DownNeedsFault`, and the refinement of `RequestService` |
| `holper_live` | 2 clients, 2 workers, commands ok, hangs, kills, failing accepts, 1 restart | `ClientsAreServed`, `OneOwner` with failed accepts |
| `holper_lifecycle` | 2 clients, 2 workers | violated: the comment of class Request says the worker sends the response |
| `holper_ready` | 2 clients, 2 workers | violated: a client fails to connect after READY=1 |
| `unix_socket` | 2 clients, payload of 2, buffers of 2 | `ReadIsWhole`; `DownNeedsLeaver`: only a client that closes its socket too early makes the daemon throw; `AnsweredUnlessHeldUp` |
| `unix_socket_silent` | the same | violated: a read ends when its three seconds are over |
| `processes` | 2 workers, 2 works | `TwiceNeedsExecFailure`, `DownNeedsEarlyExit`, `FinishReturns` |
| `processes_exec` | 2 workers, 2 works | violated: a failed `execv` is reported to the worker |
| `devices` | 2 workers; 3 calls of brightness or volume, one of music each | `DarkMeansZero`, `LostOnlyByOverlap`; `VolumeBounded`, `ToldIsTrue`; `PlayedOnce`, `MusicEnds` |
| `values` | 4 commands, 4 calls of a spec, 2 classes, a ring of 2 | `NamesReach`, `AcceptedIffFits`, `LimitsKept`, `TargetsKeepLines` |

Bounds. Two senders are enough for two pushes to overlap their posts; three
messages and SEM_VALUE_MAX 2 let one sender send again, let messages wait, and
let the semaphore overflow. Two failed waits (`MaxFailedWaits`) let each worker go
on without a token, or one of them twice. Three clients with two workers make a request wait
in every queue while both workers are busy, and make one overtake the other
between `works_` and the responder. One restart (`MaxRestarts`) gives a second
life with ids that start again while old clients are still there. `Backlog`
stands for the ten of `listen`; 2 makes the third client wait.
A payload and a buffer of 2 let a frame be cut after the length and inside the
payload, and let a response fill the buffer. Two works on two workers give
a fork while another pipe is open, one on which a work is left for the copied
queue, and a child of a child whose `execv` fails as well; that the bound of
`TwiceNeedsExecFailure` holds for any number of works, and for children at any depth,
is proved. Three calls let two overlap and a third find what
they left. The screen has a maximum of 1100, above 1000 so that a brightness of one
unit is dark, and is set and changed by 70 and -70 per cent; the keyboard has a
maximum of 2; volumes are -10 and 170: every clamp is reached. Four retries
stand for eleven. Four commands make a group with a nested group beside a
second group; a ring of two with five lines wraps twice and is left exactly full.
`devices` and `values` run one module per behaviour, chosen in `Init`.
`CHECK_DEADLOCK FALSE` is set everywhere because the systems do stop: all messages
handled, all workers blocked, every client gone. Clients and workers are symmetric
in `holper`, which checks no liveness; the runs with liveness use no symmetry.

Fairness. Only weak fairness is used. The kernel runs every thread that can run
(`Run`, `Call(s)`, `Resolver`, ...). In `ThreadQueue` that does not include
`HandleMessage`: no handler is obliged to return or to throw, and the liveness
properties name the handler that does neither (`HandlerHangs`). A mutex need not be fair, so a thread that
waits for one could be overtaken for ever under weak fairness if the others had
infinitely many messages; each message is sent once, so they have not. Among
several workers that wait for a token only *some* worker is obliged to take it.
Nobody is obliged to call `sendMessage`, to start or interrupt a client, to fail
an accept, a wait, a write or a `waitpid`, to lock a garbage mutex, or to restart
the daemon; the liveness of `WorkQueue` is stated for commands that return. A client that is
connected goes on to write in `Holper`, because `client.cpp` does; a client that
stops in between is the subject of `UnixSocket`, where `Stop` may happen and
commands return. Time passes (`Deadline`). A program that was executed ends when
its input does, but needs not end when it lingers; of a child that became a worker
nothing is asked. The player need not start.

Findings. Two comments disagree with the code (`holper_lifecycle`, and
`holper.service` with `holper_ready`), and two exceptions do not do what they
say: the time-out of `readRaw` cannot interrupt `recv` (`unix_socket_silent`), and
the one for a failed `execv` is thrown in the child (`processes_exec`).

## Proofs

What is proved holds for every value of the constants: any number of clients,
workers, senders, messages and works, any size of buffer, any commands, any range
of brightness, any declarations, any alphabets and limits of a password, any
threads and size of the ring, any tree of commands. TLC checks the same properties on the small
instances, and it checked each inductive invariant below on the instance of its
run before it was proved. The order of a proof is the same everywhere:
`Init => IInv`, one lemma per action (or per kind of action) for
`IInv /\ [Next]_vars => IInv'`, and `IInv => ` the property.

### Assumptions

They are the named `ASSUME`s of the modules, which TLC evaluates on every run:
`None` and the like are different from what they stand beside (`NoneIsNeither`,
`NoneIsNoRecord`, `NamesOK`, `ConsumerIsNoSender`, `PoolIsNoWorker`,
`BadSocketIsNoClient`, `GarbageIsNeither`); the sets that are counted or summed over are finite
(`SendersFinite`, `WorkersFinite`, `WorksFinite`, `PasswordOK`); sizes and bounds are natural
numbers, a payload, a buffer, a brightness and a ring at least one (`SemMaxNat`, `InitsOK`,
`BoundsOK`, `BoundOK`, `SizesOK`, `BrightnessMaxOK`, `RingOK`); a maximum of the screen is below
2^24, so that each value of its file is a `float` (`BrightnessIsFloat`); and parameters of
commands, limits of keys and of passwords, and memory that was freed are integers,
of any value (`BacklightOpsOK`, `VolumeOpsOK`, `DeclarationsOK`, `PasswordOK`,
`GarbageOK`). Nothing is assumed of how often
anything happens, and no fairness is used.

### ThreadQueue

* `TypesHold`, `MutexExcludes`, `TokensBalance`: the conjuncts of the inductive
  invariant `IInv == TypeOK /\ MutexGuardsQueue /\ TokenBalance` (`InvariantHolds`).
* `QueueNotEmptyAtPop`. "The queue is not empty when the consumer pops" is not
  inductive: it holds because the consumer has a token, and a token stands for a
  message only thanks to the balance. The balance, in turn, is kept by each step
  only if one thread at a time is at the queue, and the types are kept by the pop
  only if there is a message. Hence the conjunction. `BalanceGivesFront` is the
  lemma that closes the circle.
* `MessagesStayUnique`: `OnePlace`, inductive relative to `IInv`. Its lemmas say what
  each move of a `unique_ptr` does to the sets `OnePlace` speaks of.
* `MailboxIsChannel`: every behaviour of `Thread<T>` is one of `Channel`. A push maps
  to a send, a pop to a receive, `HandleMessage` to a handle; the rest stutters.

### WorkQueue

The same theorems (`TypesHold`, `MutexExcludes`, `TokensBalance`, `WorksStayUnique`,
`WorksAreChannel`) from any state the uninitialised mutex and semaphore may start
in and with any waits and posts that fail unnoticed, except that the pop of an empty
queue is possible. `CrashesNeedSpareWakeups` says when: at the moment of the pop the
balance, which counts the ghosts, the failed waits and the lost posts, has a worker
that claims and no work, so there are more of the first two than of the third; and
that is the last step of the process.

### Holper

`IInv` is `TypeOK`, `InOrder`, `DownNeedsFault` and three more:
`Ownership`, an exact account of where each existing `Request` is (waiting, with a
worker, on its way to the responder, with the responder: each once, in one place
only); `Sound`, that works and replies say what their client asked for and got; and
`Progress`, what a client in each of its states can have in the daemon.

* `RequestsHaveOneOwner`: `OneOwner` counts owners and is not inductive, as it does
  not say which places an owner can be followed by; `Ownership` does, and
  `OwnershipCounts` derives the count. The window between `sendMessage` and
  `release()` is inside: the resolver no longer counts once the message is sent.
* `RequestsStayInOrder`, `DownOnlyByFault` and `TypesHold` are conjuncts.
* `DaemonServes`: every step implements one of `RequestService` or is invisible.
  `Sound` is what makes the exit code of a client that of its own command,
  `Progress` what makes a command begin once in spite of restarts.

### UnixSocket

`IInv` is `TypeOK`, `Flow` for each stream (who is done exactly when the whole frame is
sent or received) and `Life` for each client (which of the four calls on its two
streams can be in progress, and that what has failed failed at a client that is
gone). `ReadsAreWhole` and `ThrowsOnlyAtLeavers` follow; the end of the daemon is
traced to the stream on which it threw (`Thrown`).

### Subprocess

`IInv` is `TypeOK`, `DownNeedsEarlyExit` and four more.

* `Hands` and `Family`: in the memory of each process a work is at one place, and
  the children that exist are those of works that were taken, of processes that
  exist. A work that waits in a process is none it was forked in, and has no child.
* `TwiceOnlyByExecFailure` bounds how often an action is begun by the number of
  processes, at any depth, whose `execv` failed and that were not forked in it. Its
  inductive form `Begun` counts only those in which the work does not wait any
  more (`Ran`), and not the daemon's own start while the work still waits there. A
  start moves its process into `Ran`, a fork adds none, as the copy holds the works
  that wait; the sets are finite by `Family`.
* `DownOnlyByEarlyExit` needs `PipeEnds`: a child keeps its read end of the pipe until
  it ends or lingers, and one that lingers was given the end of file first. So
  a writer without a reader has a child that exited, or that became a worker and was
  itself killed, further down; the property follows that chain by `IsPrefix`.

### Devices

`IInv` is the conjunction of an invariant per device.

* `DarkIsZero` and `OnlyOverlapLoses` (an action property): the arithmetic of
  `display.cpp` for every range and parameter, with any error of `float` up to
  `Error`. `ChangeBrightness` and `Keyboard` are what the code computes, `Asked` states
  what a write is to leave, without those steps. For the screen that is the sum,
  give or take the error, cut to a unit and to the range, or 0 below a thousandth; for
  the keyboard the value of its range that is nearest to the one asked for.
  `OnItsWay` says that what a worker is about to write is what its call asks for, as
  long as what it read is not stale. That every `Error` is as small as the argument
  above has it is not proved: the semantics of `float` is not in the model.
  `DarkIsZero` has three exceptions: calls that overlap, the end of the daemon, and
  a 0 whose write failed, after which the screen is off above brightness 0.
* `VolumeStaysBounded` and `TellsTheTruth` (an action property): what a worker read
  of the sink is what the sink is, unless another call overlapped or its own met a
  fault; `Knows` says so for each point between the read and the answer.
* `PlaysOnce`: nothing was executed for a command that has not ended.

### Values

`AcceptsExactlyWhatFits`: `SpecInv` says that after each call the counters are the
number of parameters counted so far, and that the chain has failed exactly for one
of the reasons met so far. `AcceptsWhatFits` shows that with every limit after
what it counts these reasons are the negation of what the whole spec asks for.

The other three speak of folds, of recursive functions and of sequences of any
length. The library's induction theorems take an operator as a parameter, which
the provers cannot instantiate. `NatSets` and `SubsetSets` say the same of sets (a
set with 0, and with n + 1 whenever with n, has every natural number; likewise for
the subsets of a finite set). They follow from the library's pigeonhole theorem,
and a set is something a proof can instantiate. A recursive definition is a choice
of a function that satisfies its equations; where it occurs, such a function is
shown to exist, and its equations are then all a proof uses of it.

* `PasswordsKeepLimits`: `PasswordInv` says that what is drawn of a class, what is
  in the password and what may still be drawn add up to the maximum of the class,
  and that minimums come first: while they last, what is drawn and what is left of
  the minimum add up to it. The draw that fills the minimums therefore leaves zero of
  each. The sums over the classes are changed by one where one class is
  (`SumsStep`, by induction over the subsets of the classes).
* `TargetsHaveLines`: `LoggerInv` says that a file holds just what is due to it, in
  the order of each thread. For the ring it numbers the slots by age (`Place`): older
  slots hold older lines, `logCount` is the number of lines that were due, and a
  line that is not in the ring any more is older than all that are. Whatever
  `getLogs` returns in the order of its two loops is then the last lines, once each.
* `AnyTokensReach` and `NamesReachCommands`: `TreeInv` says that all groups before the
  one being initialised have passed `validate`, and that what has passed does not
  change any more. That siblings have no name in common makes the path to a command
  unique; `resolveCommand` and the paths are followed by induction over the tokens.
  The run has tokens up to a length of three, the theorem has any.

### Only model-checked

* Liveness, which the prover does not do: `ImplementsFairness`, `SentIsHandled`,
  `ClientsAreServed`, `AnsweredUnlessHeldUp`, `FinishReturns`, `MusicEnds`.
* The properties of the runs that expect a violation.

## Not modelled

Wording of help and log texts, JSON, the options of the two `main`s and `-r`;
`system.cpp` and `info.cpp` (one D-Bus call, one answer); `Profiler`, which only
records, `Counter`, used by its test only, and `TimePoint`, whose sum is only ever
taken with three seconds; the scheduler (not built); the test programs; the
Python daemon, which does not parse; `bin/`, `french/` and `rc/` (scripts and
configuration). systemd's limit on restarts. Memory that runs out and system
calls that fail where the code only throws during start-up. A `recv` that fails
(socket.cpp:71-73): at a daemon that ended without reading, the client throws
there instead of at the deadline.
A `Subprocess::write` that blocks: a password fits into the buffer of a pipe. A
partial `::write` of the logger, which cuts the line in its file. An error of D-Bus
other than SERVICE_UNKNOWN while the player is absent, which is thrown as it is
while the player runs. An increment of the keyboard beyond the range of `int`, and
a brightness of the kernel above its maximum. `UnixSocket` and
`Subprocess` are not composed, so connections inherited by a program that lingers
are not followed.

## Plan

The modules of the plan are written, and every invariant and action property that
a passing run checks is proved, as are the refinements of `Channel` and
`RequestService` without their liveness. What could follow:

1. A composition of `UnixSocket` and `Subprocess`, for connections that a program
   which lingers has inherited.
2. The sum of `TimePoint`, once something other than a deadline depends on it.

Small modules share an MC module and a run, so that the runs stay few.
