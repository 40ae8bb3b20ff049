# A TLA+ verification of cpp_modern

The repository is a collection of C++ programs. Two of them are systems of their
own: the parallel file processor (`src/mynewcode`) and the Fibonacci server
(`src/my_idea`). The others are exercises in processes, threads, sockets, pipes
and files; some of them have enough concurrency to be worth a model. This
directory models them in TLA+, checks the models with TLC, and proves the most
important properties with TLAPS.

Run everything from this directory: `tlc -config MCThreadPool.cfg MCThreadPool`
checks a model, `tlapm ProcessFilesWithThreads_proofs.tla` checks proofs. `PROJECT.json`
lists components, runs, the source lines of each definition, the hazards and
the properties against them, findings and theorems. Definitions commented
"Mutated form" are deliberate errors in the next definition of a similar name:
with one of them in its place the property named in `PROJECT.json` must fail.

## Inventory

| Part | State | Operations | Interacts by | What is hard |
|---|---|---|---|---|
| `ThreadPool` (`thread_pool_impl.h`) | queue, `stop`, mutex, condition variable, threads | constructor, `enqueue`, worker loop, destructor | shared memory under one mutex; futures | lost wakeups, a stop racing with queued work, join |
| `FileProcessor::processFilesWithThreads` | `fileList`, futures, `results` | enqueue all, get in order, merge | owns a `ThreadPool` | order of results against order of completion, the end of the pool's life |
| `FileProcessor::processFilesWithProcesses` (POSIX) | pipe, child, `resultData`, `results` | divide, pipe, fork, count, write, read, wait, merge | pipe and exit status | end of file and open descriptors, a full pipe, a child that dies, partial reads |
| the same, Windows branch | pipe, handles, process | create, wait, read, merge | pipe | waits for the child before it reads; does not look at its exit code; a NUL cuts a piece |
| `FileProcessor::processFile` | counters | count lines, words, characters | called by both modes | boundaries: empty lines, blanks, last line |
| `IPC` serialization | none | serialize, deserialize | called around the pipe | NUL characters, missing lines |
| `main`, `setDirectory`, `DirectoryHelper`, printing, saving | arguments, `fileList`, output | check, list, call a mode, print, save | calls the processor; shares the directory with other programs | entries that come and go while they are read, a path that leads elsewhere; an empty list; failure to open is not reported to `main` |
| unused `IPC` helpers, `fileExists` | none | wrappers | | |
| Fibonacci server (`idea1.cpp`) and client (`idea2.cpp`) | descriptors, handler, task queue | accept, receive, enqueue, answer, close | TCP; descriptor numbers in tasks | two threads close and use one descriptor; one handler at a time |
| two-process copy (`fork/day1/08fork.cpp`) | offsets, two descriptors each | read, write, wait | one destination file | the straddling buffer, empty shares, a length kept in an int, reads that fail |
| echo clients (`network/day2/02tcp.cpp`, `doubleio/02polltcp.cpp`) | where they are, what is on their connection | connect, send a line, receive | TCP with any of the TCP servers, which listen on one address | a server that ends, resets, echoes that overtake the next line |
| forking echo server (`day2/06forktcp.cpp`) | children, descriptors, pending signal | accept, fork, echo, reap | TCP, SIGCHLD | signals that coalesce, inherited descriptors |
| threaded echo server (`day2/07threadtcp.cpp`) | threads, descriptors, the argument `buf` | accept, create a thread, echo, close | TCP; `buf` and descriptor numbers shared by the threads | `buf` is overwritten before a thread reads it; descriptors left open |
| sequential echo servers (`day2/05looptcp.cpp`, `01tcp.cpp`) | the connection served | accept, echo, close | TCP | everybody waits for one client |
| datagram echo server and client (`day2/03udp.cpp`, `04udp.cpp`) | the last datagram | send, receive | UDP | datagrams lost, doubled, overtaken; no timeout |
| FIFO chat (`fork/day2/fifo`, `fork/day2/test`) | two FIFOs, four processes | write a line, read | FIFOs, wait | lines that run together, a writer that is gone |
| message queue (`fork/day3/02msgsnd.cpp`, `03msgrcv.cpp`) | the queue, which outlives them | send, receive type 1, remove | the queue | a queue full of other types, a queue that was removed |
| shared memory (`IPC/day1`) | the segment, which outlives them | store a line, compare with quit, remove | the segment | no synchronization at all |
| condition variable (`pthread/03pthread.cpp`) | mutex, sleepers | wait, broadcast, join | threads | no predicate |
| other socket, pipe, thread, file and signal exercises, `test.cpp` | | | | sequential or a single call: not modelled |

What makes each of the modelled parts correct is stated by the properties
described with its module below.

## Modules

| Module | Models | Used by |
|---|---|---|
| `ThreadPool` | `thread_pool_impl.h` | extended by `ProcessFilesWithThreads` |
| `BatchReport` | abstract specification of a run of `FileProcessor` | instantiated by both modes, which implement it, and by `FileProcessorMain`, which uses it |
| `ProcessFilesWithThreads` | `processFilesWithThreads` on top of `ThreadPool` | |
| `Partition` | the division of files among processes | extended by `ProcessFilesWithProcesses` and `FileProcessorMain` |
| `FileProcessorMain` | `main.cpp`, `setDirectory`, `directory_helper.cpp` on POSIX, printing and saving | |
| `ProcessFilesWithProcesses` | the POSIX branch with `IPC` serialization | |
| `ProcessFilesOnWindows` | the Windows branch | |
| `ProcessFile` | the counting loops | instantiated by `PureFunctions` |
| `FibServer` | `idea1.cpp` and `idea2.cpp` | |
| `Fibonacci` | the function of that name in `idea1.cpp` | instantiated by `PureFunctions` |
| `PureFunctions` | composes the two | |
| `EchoClient` | `02tcp.cpp` and the connections | extended by `PollClient` and the TCP servers |
| `PollClient` | `02polltcp.cpp` | extended by `EchoServers` |
| `ForkTcp`, `ThreadTcp`, `LoopTcp` | `06forktcp.cpp`; `07threadtcp.cpp`; `05looptcp.cpp` and `01tcp.cpp` | instantiated by `EchoServers` |
| `UdpEcho` | `03udp.cpp`, `04udp.cpp` | instantiated by `EchoServers` |
| `EchoServers` | composes the echo servers with their clients | |
| `ForkCopy` | `08fork.cpp` | instantiated by `ForkAndIpc` |
| `FifoChat`, `MessageQueue`, `SharedMemory`, `CondBroadcast` | the programs named above | instantiated by `ForkAndIpc` |
| `ForkAndIpc` | composes the programs under `fork`, `IPC` and `pthread` | |
| `*_proofs` | theorems about the module they extend | |
| `MC*` | constants for TLC; the `.cfg` files with the same prefix | |

### ThreadPool

`tasks`, `stop` and `queue_mutex` are the members of the class (the mutex holds
its owner); `wpc` and `job` are where each worker is in its loop and its local
`task`; `opc` and `arg` the same for the thread that owns the pool. `submitted`
and `ready` are what the futures show. The condition variable is the set of
workers whose `wpc` is `"asleep"`. `condition.wait(lock, predicate)` is four
steps: acquire (`WorkerLock`), find the predicate false (`WorkerBlocks`), release
and sleep at once (`WorkerSleeps`), and come back to acquire, on a notification
or for no reason (`SpuriousWakeup`). `notify_one` and `notify_all` are steps of
their own after the mutex is released, as in the code.
The code that throws in `enqueue` when `stop` is set cannot be reached by a pool
with one owner. That `std::thread` or an allocation throws is not modelled.

`TaskInOnePlace` (nothing lost, nothing run twice), `NoSleeperMissesWork` (no lost
wakeup), `QuietWhenGone` (nothing in use after the destructor), `EveryTaskRuns`,
`DtorReturns`. The run `thread_pool` has two workers and three tasks: that is
enough for one worker to be asleep, one running and one task queued while
another is enqueued, and for a notification to be overtaken.

### BatchReport and ProcessFilesWithThreads

`BatchReport` says what both modes promise: files are accounted for in order and
in consecutive groups, each group is one entry of `results` or is dropped, and the
call returns when all are. Its own properties `GroupsAscend` and `EveryFileOnce`
are proved once (with `FileProcessorMain_proofs`), and hold for both modes by refinement.

`ProcessFilesWithThreads` extends the pool, so each step of the call is a step of
the pool plus what it does to `future` and `results`, or leaves the pool alone.
`RemoveFile` is the environment: a file that `setDirectory` found may be gone when
it is opened, and then counts as empty, as `processFile` does it.
`resultsMutex` is only ever taken by the calling thread and is left out.
`ReportSpec` is the refinement, with liveness. `NeverAllWait`: while the caller is in
`get()`, in `join` or before the mutex, some worker can go on without a spurious
wakeup. The run has three files and two
workers, so that the second and third file can finish before the first.
With no worker the call would never return: the first `future.get()` waits for
ever. `FileProcessorMain` has that state (`WaitsForThreads`).

### ProcessFilesWithProcesses and Partition

The parent (`ppc`, `i`, `resultData`, `results`), the pipe of this turn of the loop
(`pipe` and the processes that hold each end open) and the child (`cpc`, `next`,
`combined`, `unsent`). The loop reads the whole result of a child and reaps it
before it forks the next, so there is only ever one child: the mode isolates
files in processes, but does not run two of them at once.

A serialized result is a sequence of tokens: one header for the five lines of name
and numbers, and four tokens for the two lines of an entry: the front of the word, one
character of it, the rest of the word, and the count. The one character may be a NUL,
at which the buffer, appended as a C string, is cut; the pieces are there so that a read can
end inside a word. Other cuts inside a line are not modelled: appending does not look at
line ends, and only a NUL makes a cut matter. The entries come in some order that does not
change (`SetToSeq`), as those of a `std::map` do; nothing depends on which.
`PipeCapacity` (2 tokens) and `BufferSize` (2) are the bounds; a result of up to nine
tokens is then written in pieces by a child that blocks, and read in pieces, cut at
each place.
`ChildDies` is the environment at any point of the child. Pipes and forks fail at
any turn. `_exit` after the write never fails.

`LoopHeadClean` (no descriptor or zombie left, whichever way a turn ended),
`ReportedIsCounted` (an entry holds what the files of its group hold),
`FailedIsLeftOut` (a failed group is in no result), and the refinement `ReportSpec`: groups are
accounted for in order whatever fails. `ReportSpec` is here the safety part of
`BatchReport`; that the call returns is `CallReturns`: parent and child never wait
for each other for ever. `AbortsOnlyOnNul`: a piece of a result that is missing
makes `std::stoi` throw only where a NUL has cut it away, never because a child
died or a read was short.
The run `process_mode` has three files, one of them empty, for 0, 1, 2 and 4
processes, so that groups of unequal size and more processes than files occur,
with two contents of the directory, one of which has a word with a NUL.
With 0 processes the division ends the program (`DivideFiles`), which
`CallReturns` excludes. `process_mode_round_trip` is a finding.

### ProcessFilesOnWindows

The same loop with the steps of the Windows branch: the parent waits for the end of the
child before it reads. `child_process.exe` is not in the repository; it is taken to
write `size` units of what `deserializeFileStats` reads, and may end at any time. What
the exit code is makes no difference, since the code does not ask for it. Any of the
units may be NUL characters (`nuls`), at which the buffer, appended as a C string, is cut
as on POSIX; `resultData` is the set of the units that were appended. Handles are opened and
closed one by one, as each call does it, so that a `CloseHandle` forgotten on one of the ways
through a turn is seen at the head of the next.

`NoHandleLeft`, `ShortOnlyIfDiedOrNul` (waiting first loses nothing: a short result, or an
abort, comes only from a child that died or from a NUL in its output), `ReportSpec` as
above, and `CallReturns`,
which holds if the output of each child fits in the pipe. For larger ones it
does not: the state `Stuck` is reached with `MaxSize` one above `PipeCapacity`. Sizes
from 1 to 4 with a pipe of 3 and a read of 2 let results be empty, cut short, fill the
pipe and exceed it, and be read in one piece or two, with NULs at any places. Groups whose
child died can be in `results` here, unlike on POSIX.

### FileProcessorMain

One step per check of `main`, per `readdir`, per `stat`, per entry of `results` that
is merged or printed; saving is one step. The mode is `BatchReport` with the groups the mode
forms: single files that are never dropped with threads, the shares of `Partition`
with processes, which may fail. Other programs create, remove and replace entries
(`ChangeEntry`), or the directory itself (`ChangeDirectory`), `MaxChanges` times until the
listing ends; what a change does to a listed file is in the modes. `path` is what `argv[1]`
names. `readdir` reads the directory that was opened, wherever it is now, but `stat` goes by
the path: once the directory is renamed, `stat` fails, or finds a file of the same name
in the directory that is there instead (`StatEntry`; such names are in `strayed`). `readdir`
may also end with an error, which the code takes for the end (`ReadError`, `cut`). POSIX leaves open whether `readdir` returns a name that comes or goes while the
directory is read, so it may (`unread`), and twice if it goes and comes back; what
stays is returned. `steady` is the set of names that have not changed since `opendir`. Of the
arguments only the mode and the number count; that there are too few, and whether an output
file is among them, is left open (`CheckArguments`, `EndOfResults`).

`SteadyFilesListedOnce` (what stays is never listed twice, and is listed if and only if it is
a file, unless its `stat` went astray or an error cut the listing before it; no file that stays
is missed because others come and go), `SuccessIsCompleteReport` (exit status 0 stands for a printed
report with each listed file once, or in a group that failed), and `RunEnds`: given
a thread, a run ends, and not in the division by `min(maxThreads, numFiles)`, from
which only `setDirectory`'s result keeps an empty list. Three names and two changes let a name go and come back, and let
two processes get shares of two files and one. `SaveResults` may write nothing, or
a part, and `main` exits with 0 all the same.

### ProcessFile, Fibonacci and PureFunctions

One character of content is a letter, a blank or a newline. All files of up to
`MaxLength` characters are tried: `CountsAreRight` compares the result of the loops
with a count that reads the whole content: lines, words and their frequencies, and
characters, which are one more than the file has if its last line has no newline
(`charCount` adds one for every line that `std::getline` returns).

`Fibonacci` is the loop with the sizes of its integers as constants: `FibIsRight`
says that what it returns is the number of Fibonacci modulo `Modulus` (2^64 in the code),
`FibReturns` that it returns. The largest int, `MaxInt`, is excepted: the counter `i` cannot exceed it,
so the loop would go on after an overflow which C++ leaves undefined. With `MaxInt` 15 all
arguments are tried, the largest too, and with `Modulus` 256 the numbers wrap around from the 14th on, as they do
from the 94th on with 64 bits.
The run `pure_functions` evaluates one of the two functions in each behaviour.

### FibServer

`fdTable` maps the server's descriptors to connections, lowest free first, as
`accept` does; a call of `recv` in progress keeps its connection (`hconn`) although
the descriptor is closed. A request is its client, its number and one of five
kinds of command; what `recv` finds in one call is one request, as in the code. Pool
critical sections are one step each, since `ThreadPool` shows what the locking
does, and its destructor is never reached. Clients type lines, wait, leave at the
prompt, or are killed while they wait (only when `rude`, below). `refused` is needed for
SIGPIPE: the first send to a client that is gone is refused by its system, and a
second one ends the server (`BrokenPipe`). Partial sends and lines cut by TCP
are not modelled: every message is far smaller than the buffers.

The variable `rude` is chosen at the start. Polite clients type `Commands` and
leave at the prompt; these commands are fib, quit without an argument, and others,
never an empty line. When `rude` holds, clients may also be killed and type
`RudeCommands`. `Manners` says which of the two a run tries.

`DescriptorsAreOwned` (no leak, no connection with two descriptors) is checked for
all clients. `PoliteGetOwnResponse`, `PoliteKeepServerUp` and `PoliteAnswered` are
checked while clients are polite: each response reaches the one who asked, nobody
waits for ever, and a client that leaves does not end the server. For rude clients
they fail: `fib_server_stale` (a killed client's task answers the next one)
and `fib_server_hang` (`quit` with an argument) are findings; two tasks on one
connection whose client is gone end the server by SIGPIPE; and a line that is only
a carriage return is empty for the server, which sends nothing, but not for the
client, which waits (`HandlerReceives` has that path). Two clients with two
commands each and two workers let one task be queued and one be handled while
a connection is replaced by the next. Three descriptors are one more than two
connections use.

### EchoServers: one client, four servers

The four TCP servers listen on the same address, so one of them runs, and `EchoServers`
starts one of them, or the datagram server, at the start of each behaviour. Its variables
`cpc`, `requests`, `responses`, `refused`, `backlog` are those of `EchoClient`, its
properties say of all servers what each module says of one. A server asks of a
connection whether its client is gone (`ClientGone`), a client whether the listening
socket is open and the far end of its connection is: `ListenerOpen` and `Connected` of each server.
A client sends its whole buffer of 128 bytes and a server receives as much, so
one `recv` takes one request; what is echoed is whose line it was. TCP that splits
a buffer, and lines too long for the mark that is appended, are left out. Calls before
the loops, which end the program when they fail, are taken to succeed.

- `ForkTcp`. Each process has the set of connections it `holds`, inherited at the
  fork. `pending` is one bit, since SIGCHLD is not counted, and the handler is not
  interrupted by it; the main loop stands still while it runs (`accept` is
  restarted). A child that reads an error instead of the end of the connection answers
  it, as the code does, and is then killed by SIGPIPE.
- `ThreadTcp`. `buf` is the variable of the main loop whose address every thread gets;
  each reads it at a time of its own (`ThreadStarts`), also after the next `accept` has
  overwritten it: its storage is the same in each turn of the loop. `raced` records this.
  `table` is the table of descriptors, lowest free first. `recv` is a
  call (`CallRecv`) and a return, since its descriptor may be closed by another
  thread in between. SIGPIPE ends the whole process (`Down`), in contrast to `ForkTcp`.
- `LoopTcp`. One connection at a time; the variable `loops` tells `05looptcp.cpp`,
  which goes on to the next, from `01tcp.cpp`, which ends.
- `PollClient` sends while echoes are on their way. A client waiting in the
  backlog when `01tcp.cpp` ends is reset; poll then returns POLLIN, POLLERR and POLLHUP, which
  the test for POLLIN alone does not let through: the program goes round for ever, in the place "reset".
- `UdpEcho`. `net` is a bag of datagrams, from which any may arrive next; `MaxFaults` of
  them are lost or doubled.

`ZombiesAreNoticed` (an ended child has its signal pending, or the handler is about to
reap it), `ConnectionsArePrivate` (a child holds no connection but its own),
`ThreadsKeepApart` (unless `raced`, each thread has a descriptor of its own until it closes
it, once), `OwnEcho` (nobody gets the echo of somebody else's or of an earlier line),
`EveryServerAnswers` and `NothingIsLeft`. Their exceptions are what the
code lets happen, and each is needed: without it TLC shows a
violation. They are the race for `buf`; the client that waits for another one to leave
(`ServesAnother`); the thread that returns without `close` after a failed `send`; the lost
datagram and the datagram server that ended, for which the client waits for ever; the
doubled one, after which every echo shown is the one of an earlier line.

Two clients with two lines in all are enough for two children to end while the handler
runs, for a request to be typed while another connection is accepted, and for
poll to send twice. The threaded server is also looked at with three clients that already wait
(`EchoInitWaiting`): two threads can share one descriptor only when the third connection
is given the number that one of them closed. No symmetry: it is unsound for liveness.

### ForkAndIpc

Five programs that share no file; one of them is looked at in each behaviour.

- `ForkCopy`. All lengths up to 7 with a buffer of 2 bytes give shares that are empty, that
  are a multiple of the buffer and that are not. `get_file_size` keeps the result of `lseek` in an
  int of `IntSize` values (`ToInt`), 2^32 in the code and 16 in the run: the lengths 9, 15 and 18
  become -7, -1 and 2. It returns -1 for a file that it cannot open, which
  nobody looks at: both processes go on and may succeed in opening. Up to `MaxFailures` reads of
  each process fail, two in the run; the -1 that they return is added to `sum`. The source
  may also be a directory, which can be opened and not read.
  The file does not change while it is copied, and reads are not cut short. Left out: a write that
  fails or is partial (the result of `write` is not looked at either, and the two offsets would then
  differ), and 2^31 failed reads, after which `sum` overflows.
  `NeverWrong`: up to the end of the source each byte written is right or a hole, at every moment; each
  failed read makes the last write longer by one byte of what was in the buffer before, so the copy is
  longer than the source by at most the failed reads of one process. `CopyIsComplete`: when the parent exits,
  the shares of the processes that could open the files have been copied, and these are the
  whole source if its length was found and fits in an int. A larger file is cut, or
  not copied. `CopyEnds`, a part of `WaitersReturn`: both loops end if the source is a file.
  For a directory they end only if its length, which may be anything, came out below -1.
- `FifoChat`. A line is a sequence of pieces, so that lines can run together and be cut
  by the buffer of the reader; `merged` records that they did. `open` returns when both ends are open.
- `MessageQueue`. Two runs of the sender and two receivers, also at the same time.
  The queue belongs to its key: `got` are the processes that have this one and not one
  removed since. `msgsnd` fails on a type that is not positive, as on a queue that
  was removed, and prints success.
- `SharedMemory`. `fgets` stores cell by cell into the segment and `strcmp` compares cell by cell;
  `torn` records that the two overlapped. The segment outlives the programs, so that
  the next reader may find the quit of an earlier run.
- `CondBroadcast`. Three waiters, spurious wakeups, and `late`, that a thread has begun
  to wait after the broadcast: `sleep(3)` makes that unlikely, not impossible.

`LeavesOnlyOnQuit` (who takes lines leaves on quit alone, and loses none typed before it),
`QuitIsHeeded` (and does leave), `WaitersReturn` (no wait for a child, for room
in a queue or for a broadcast lasts for ever). The exceptions are written in each module, and
TLC shows a violation without any of them: lines that run together in a FIFO form a
quit nobody typed, or hide one; the queue is full of messages of types that no receiver takes;
a comparison overlaps a change of the segment, or the writer was killed in the middle of one; a
thread waits after the broadcast. After its writer has gone without quit the reader of a FIFO
reads nothing for ever, which changes no variable: deadlock is therefore not checked
in this run, where users may also stop typing.
End of file on standard input, which none of the programs tests for, is left out.

## Fairness

- Threads and processes that can take a step of their own eventually do (weak
  fairness of each thread's or process's step): they are scheduled by the kernel.
- The owner of the pool gets the mutex although workers keep taking it (strong
  fairness of `OwnerLocks`). `std::mutex` promises no order; each worker takes it a
  bounded number of times per task, and without tasks sleeps, so the assumption
  only rules out an endless run of spurious wakeups.
- The users of `FibServer`'s clients go on typing or leave. This is an assumption on
  the environment that the server needs: main joins each handler before the next
  accept, so one idle client keeps all later ones waiting.
- In `EchoServers` and `ForkAndIpc` users need neither type, nor leave, nor type quit. The
  threads of `CondBroadcast` get the mutex if it is free again and again (strong
  fairness): each holds it for a few steps only. `FileProcessorMain` assumes that the
  program runs, and that the directory changes finitely often while it is read.
- Nothing is assumed of the environment's failures: removed files, deaths,
  failing calls, resets, datagrams lost or doubled, spurious wakeups. A datagram that is
  neither is received if its receiver waits for it.

## Proofs

All theorems hold for every value of the constants under the named assumptions:

- `PoolAssumption`: finitely many workers, the owner not one of them.
- `FileListAssumption`: a list of distinct files, as names in a directory are.
- `ProcessesAssumption` and `WindowsAssumption`: at least one file, since `main` returns
  when `setDirectory` has found none; finitely many words; a pipe and a buffer that hold something.
  Any number of processes, 0 too.
- `ForkAndIpcAssumption`, of its programs: a buffer of the copy that holds something, files of any
  length, also longer than an int holds, ints of any size, and any number of failed reads;
  lines of a FIFO that fit into one read, since both buffers have the same size in the code (128); a
  message queue that holds something; lines of the shared memory of two cells at most, so that
  the segment modelled holds them with newline and terminator, none of whose cells is a terminator.
- `PureFunctionsAssumption`: a blank and a newline are no letters, nor the same; the integers of
  `fibonacci` hold 0 and 1 at least. Files have any length.
- `MainAssumption`, `ServerAssumption`, `EchoClientAssumption` and `EchoServersAssumption`: types of the
  constants, and values that stand for nobody are not somebody; finitely many clients of the echo
  servers; polite clients of `FibServer` type what is said above.

The modules, one per part of the system:

- **ProcessFilesWithThreads_proofs.** First the pool: `PoolInv` is inductive. `TaskInOnePlace` alone is not: a
  worker that takes a task must be alone in its critical section (`MutexHeld`) and
  the task pushed must be new (`TasksInHand`). `NoSleeperMissesWork` needs that a
  worker about to sleep has seen an empty queue which cannot have changed
  (`WhatWorkersSaw`, again by `MutexHeld`); the count of awake workers changes by
  one per step, for which `Workers` must be finite. There is a lemma per part,
  with a case per action. `QuietWhenGone` follows: workers that have exited saw
  `stop` and an empty queue, so every submitted task is in `ready`.
  Then the call, which extends it: each step of the call is a step of the pool
  or leaves it alone (`CallImplementsPool`), so `PoolInv` is reused unchanged;
  with `FuturesFollowTasks` it gives the order of the results, and that the call implements the safety part of `BatchReport`
  (`CallImplementsReport`). `NeverAllWait` rests on nearly all of it: a future that is not ready is
  in the queue or being run, a queue that is not empty has a worker on its way
  (`NoSleeperMissesWork`), the mutex is held by a thread that can go on, and no worker sleeps when the
  destructor joins (`WorkersAreUp`). `EveryStepGetsOn`: a step of the caller or of a worker leaves less
  to do: files not enqueued, then results not taken, the place of the caller, the threads not started,
  the queue, and where the workers are. A spurious wakeup makes more, so it is excepted.
  Last what the tasks compute, about `PureFunctions`. `FileInv`: the characters taken from the file,
  and of them those that are behind the word being read; what is left of the file and of the line is
  what the content has there (`Parts`); what is behind has been counted, and no word is cut in
  two there (`Counted`), without which a word could be counted twice or not at all. The proof has
  to show that a word taken adds one start of a word, its own, to those behind. `CountsRight`
  follows, for files of any length. `FibInv`: when the loop is to be run for `i`, `a` and `b` are the
  two numbers before the `i`-th, each modulo `Modulus`; `FibonacciRight` follows for any modulus.
  `Number`, the reference, is defined by recursion over the naturals: that there is a
  function with its recurrence (`NumberIs`) is proved from its beginnings, of which any two agree.
  `FileLoopsEnd` and `FibLoopEnds`: the loops leave less of the file, the line or the rounds each time.
- **Operators_proofs.** What the other proofs need to know of operators. Shares: for n
  files and p processes they are adjacent, start at 0, end at n, and differ by at most one
  file. Sums over a finite set: the sum of one element more, and that two sums can be
  exchanged. The library defines a sum by recursion, and the usual induction is out of
  reach, so the lemmas are proved by induction in the form of a set: a family of subsets that
  has the empty one, and with each subset that with one element more, has them all.
  In the same form induction over the naturals (`NatInductionOf`).
  Also the least element of a set of numbers, rests of divisions, the count of places up to one
  more, `SetToSeq`, and queues without repetition. Measures: `Below` orders tuples of numbers by the
  first place where they differ, and no sequence of them goes down for ever (`NoEndlessDescent`).
- **ProcessFilesWithProcesses_proofs.** `Inv`: where the parent is says who has which end of the
  pipe open and what the child may do (`EndsFollow`), the first token read is the header
  (`HeaderComes`), and each process before `i` is an entry of `results` or failed (`Accounts`).
  It gives `LoopHeadClean`, `FailedIsLeftOut` and, with the shares, the refinement of
  `BatchReport`. `DataInv` follows the data: the child has counted the files of its group before
  `next` (`Counted`); unless a NUL is in them, what was read, what is in the pipe and what is not
  yet written are together the serialized result (`NothingLost`), which is read back as it was
  (`SerializeRoundTrip`). It gives `ReportedIsCounted` and `AbortsOnlyOnNul`. What is inductive
  here is that the pieces make up the whole wherever reads and writes cut it: the run has two
  tokens per read, the theorem any number. `NeverBothWait`, from `EndsFollow`: while the parent
  waits its child can go on. `EveryStepGetsOn`: every step leaves less to do, in turns of the loop, then
  the place of the parent, that of the child, its files, what is not yet written, what is in the pipe.
- **ProcessFilesOnWindows_proofs.** `Inv`: where the parent is says which handles are open
  (`HandlesFollow`), and every unit of the child's output is with the child, in the pipe, or, unless
  the output has a NUL, in what was read (`NothingLost`). From it `NoHandleLeft`, `ShortOnlyIfDiedOrNul`, the refinement, and
  that parent and child wait for each other only over an output larger than the pipe
  (`WaitOnlyOnLargeOutput`), and that every step leaves less to do (`EveryStepGetsOn`).
- **FileProcessorMain_proofs.** First `BatchReport` by itself: groups lie below `accounted`, from which
  the order and the covering follow (`ReportAscends`, `ReportComplete`). Then `main`, which
  contains it: while the directory is read, a steady name is still to come, or at `stat`, and not
  listed, or has been dealt with and is listed as it should be, unless its `stat` went astray (`ListInv`); what
  is printed is the beginning of the report, which is empty before the mode is called (`PrintInv`).
  `SteadyFilesListedOnce` and `SuccessIsCompleteReport` follow, for any directory and any number of
  changes.
- **FibServer_proofs.** `Inv`, for all clients: a connection waits for `accept` once or has one
  descriptor (`OneConnection`), and one that the handler does not use will be closed by a task on its
  way (`Owned`). `Polite`, while clients are polite, follows a request from the wire to the
  handler, the queue and the worker, and the response back (`OnTheWires`, `AtHandler`,
  `InQueue`, `AtWorkers`): there is one of them per client, and at each place the descriptor it carries
  still is the connection of its client. The proof needs what no property asks: the
  connection is kept until the client has the response to quit. `PoliteGetOwnResponse` and
  `PoliteKeepServerUp` follow.
- **EchoServers_proofs.** `Inv` has a part per server and what they share: only the server started moves
  (`OneServer`), a client that waits for `accept` is held by nobody (`FreshAreNew`), a child serves a
  connection it holds, and no other child holds it (`OwnConnection`), a child that has ended is pending or
  about to be reaped (`NoZombieForgotten`), and unless `buf` was raced for, threads that work have
  a descriptor each (`Apart`). From it `ConnectionsArePrivate`, `ZombiesAreNoticed` and
  `ThreadsKeepApart`. `OwnEcho` counts: over a connection, what was echoed and what is on its way are
  together what was sent (`EchoesReturn`); of datagrams, as many as are in the net, or with
  the server, and what was shown (`DatagramsUnderway`).
- **ForkAndIpc_proofs.** `Inv` has a part per program. Of the copy: a process is at the start of its share and
  what it has read, which is `sum` and one for each failed read, its buffer holds the bytes of the
  source there (`Place`), and its share is whole up to its offset (`CopiedSoFar`). What an int makes of a
  length is never more than the length (`IntOfLength`), so the shares lie within the source (`ShareBounds`). A write of one process changes no byte right already, also
  when it leaves a hole or straddles the middle. Of a FIFO: unless lines ran together it holds one line
  or none, and nothing after quit. Of the message queue: its messages are in the order of the sender's
  runs, and what follows a quit is of a later run (`RunsInOrder`). Of the shared memory: the
  line stored last is still in the segment, unless the next is being stored, and so is what the
  reader has compared, unless the comparison is torn (`SegmentHolds`).
  `NeverWrong`, `CopyIsComplete` and `LeavesOnlyOnQuit` follow.

Each inductive invariant was checked by TLC on the constants of the runs before it was proved.

Proved but in no run, because the properties of the runs are parts or consequences
of them: the inductive invariants and types (`PoolInvariant`, `CallInvariant`, `RunInvariant`,
`ServerInvariant`, `PoliteInvariant`, `EchoInvariant`, `ProgramsInvariant`, `DataInvariant`, `PoolTyped`, `TypeCorrect`), the properties of
`BatchReport`, what waits for what and that no loop is endless (`NeverBothWait`,
`WaitOnlyOnLargeOutput`, `EveryStepGetsOn`, `FileLoopsEnd`, `FibLoopEnds`; the liveness properties cover
it in the runs), and the operators' theorems.

Only model-checked: every liveness property (liveness under fairness is out of the prover's reach).
For the three calls its two halves are proved for all constants: every step leaves less to do
(`EveryStepGetsOn`, with `NoEndlessDescent`), and the caller never waits for what cannot go on
(`NeverAllWait`, `NeverBothWait`, `WaitOnlyOnLargeOutput`). That the calls return follows from
both on paper only, and for the pool only where the spurious wakeups come to an end; TLC checks it
with any number of them.
ENABLED is out of reach as well: in `NeverAllWait` and its two kin, what a process waits for is stated by the guards of its
steps. That this is when none of its steps is enabled was checked by TLC on the constants of the runs.

## Findings

Each is a run of `PROJECT.json` with `expect: violation`.

1. A NUL character in a file: the parent aborts in `std::stoi`, or a word is
   changed (`process_mode_round_trip`).
2. A response goes to another client after descriptor reuse (`fib_server_stale`).
3. "quit" with something behind it stops the service (`fib_server_hang`).

More paths of this kind are in the models without a run of their own, and the
properties around them are stated so as to leave them out: with 0 threads the call
waits for ever, and with 0 processes it divides by zero (`main.cpp:22`,
`file_processor.cpp:71` and `:82`); on Windows parent and child wait for each other
when a result does not fit in the pipe (`file_processor.cpp:150`); the character
count is one too high without a last newline (`file_processor.cpp:38`); a line with
only a carriage return is never answered (`idea1.cpp:177`); `main` says "Results saved"
when the output file could not be opened (`main.cpp:66`); `fib` with the largest int
never returns (`idea1.cpp:44`); files are missed when the directory is renamed while it is
listed (`directory_helper.cpp:33`) or `readdir` fails (`:30`); on Windows, as on POSIX, a NUL makes a
result short (`file_processor.cpp:160`). Of the two-process copy: a file of 2 GiB or more is cut or not copied
(`08fork.cpp:25`); a directory as source makes it run for ever (`:54`); each read that fails
puts one byte that is not the source's behind the copy (`:57`). Those of the other
exercises are the exceptions listed above with `EchoServers` and `ForkAndIpc`: there the
properties say nothing of the cases in which the hazard strikes, and only show that there are no others. The
notes of these hazards in `PROJECT.json` say for each what is excepted and known to fail.

## Not modelled, and the plan

Built so far, in this order: `ThreadPool`, `BatchReport`, `ProcessFilesWithThreads`
with their proofs; `Partition`, `ProcessFilesWithProcesses`,
`ProcessFilesOnWindows`; `ProcessFile`; `FileProcessorMain`; `FibServer`; `ForkCopy`; the echo
programs; the programs of `ForkAndIpc`; `Fibonacci`. Every component whose processes or threads
interact now has a module, and every safety property of a run is proved; the properties that remain with TLC are those listed under Proofs.

The project keeps to a dozen runs: programs that share nothing are composed, with one of them
started in each behaviour, and their properties are joined.

Left out for good: the unused helpers of `IPC` and `DirectoryHelper`,
the layout of what is printed, `network/doubleio/01iotcp.cpp`, whose loop over a connection is
commented out, and the sequential exercises under `IO`, `network/day1` and parts of
`fork` and `pthread`, whose programs make a few system calls in a row.
