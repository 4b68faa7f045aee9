# pdsh in TLA+

pdsh runs one command on many hosts at once; pdcp and rpdcp copy files to and from them. This directory
holds TLA+ modules that model parts of the program, translated from its source, the TLC configurations
that check them on small instances, and proofs that TLAPS checks for every value of the constants.
References of the form `dsh.c:1156` are lines of `src/src/pdsh/dsh.c`, and so on.

Check one run with `tlc -config DshFanout.cfg MCDsh.tla`, one module of proofs with `tlapm DshProofs.tla`
(the others are
`CbufProofs`, `ListProofs`, `RegistryProofs`, `CircuitProofs`, `TargetsProofs` and `PcpProofs`). `PROJECT.json` lists the runs, the theorems, which lines of the source each
definition stands for, the hazards, and the mutants: for each property a plausible bug which it detects.

## 1. The system

| Component | State | Operations | What makes it correct |
|---|---|---|---|
| **Execution engine** `dsh.c` | `t[]`: per host its state, return code, connection, output buffers; `threadcount` with mutex and condition; `thd_mutex` | `dsh()` starts one worker per host, at most `fanout` at a time; workers connect, read, finish; the signals thread lists, cancels or aborts; the watchdog interrupts | window never exceeded, no slot lost, every host served or canceled, no signal to a connection that is gone, time limits kept, an exit value that reflects failures, an end |
| **Output buffers** `cbuf.c` | an array, three indices, a count, a flag that data was overwritten | write (memory, string, descriptor, other buffer), read, drop, rewind, by bytes or by lines | indices stay in order, the bytes behave as a log, losses are counted, line operations take exactly the lines asked for |
| **Output lines** (`dsh.c:507-640`) | unread bytes of two buffers, the return code | split into lines, label them, cut the return code out of the last one | every line once, whole and with its host; the code of the host and no other |
| **Host lists** `hostlist.c` | ranges (prefix, low, high, width), iterators that point into them | push, pop, shift, delete, sort, unique, iterate; sets | the sequence or set of hosts is what the ranges expand to; iterators survive deletion |
| **Lists** `list.c` | linked cells, the address of the last link, a chain of iterators | append, push, pop, insert, remove, find, sort | iterators agree with the list after every change to it |
| **Rcmd registry** `rcmd.c` | loaded rcmd modules, a default one, hosts with a module or user of their own | register, create, connect, signal, destroy | the first registration of a host wins; a host without one takes the default |
| **Modules** `mod.c` | loaded modules with priority, option table, initialised or not | load, register, sort, initialise, find the owner of an option | one module of a name and type, no two active ones with the same option |
| **Privilege separation** `privsep.c` | a socket pair, a privileged child | request a reserved port, reply with a descriptor | each caller gets the reply to its own request |
| **Pipe commands** `pipecmd.c` | a child process and its socket | start, signal, wait | the child is reaped, its status reported |
| **Copy protocol** `pcp_client.c`, `pcp_server.c` | position in the list of files; open file, target directory, pending times | T, C, D, E records, data, one response each | both ends agree where they are; a copy ends with the files of the client or with an error |
| **Working collective** `wcoll.c` | a host list, the files read | read lines, follow `#include` | every line once, an end even if files include each other |
| **Options, main program** `opt.c`, `main.c` | `opt_t` | parse, verify, filter the hosts, run | `-w`, `-x` and filters give the hosts in the order written |
| **Module implementations** `src/modules/` | per module | connect, or name hosts | glue to external services |

How they interact: `main.c` parses the options (with `wcoll.c`, `hostlist.c`, `mod.c`), registers rcmd modules and calls `dsh()`; in an
interactive session it forks a child per command, so `dsh()` is always the last thing its process does.
`dsh()` and its threads share `t[]`, guarded partly by `threadcount_mutex`, partly by
`thd_mutex`, partly by nothing. A worker calls its rcmd module through `rcmd.c`, writes what arrives into two
`cbuf`s and reads complete lines out of them, or runs the copy protocol over the connection. The watchdog
and the signals thread act on workers by SIGALRM and by `t[i].state`.

What is hard: four kinds of threads over one array and three disciplines of locking; signals that
interrupt a blocking call or are lost; state read and acted upon later; time limits; an end
of the process in the midst of all this; and index arithmetic with several wraps, growth and failure of growth.
The list, each at its line, is under "hazards" in `PROJECT.json`.

## 2. Modules

| Module | Content |
|---|---|
| `Dsh`, `MCDsh` | the execution engine, and the sets of invocations its runs choose from |
| `DshProofs` | its inductive invariant and ten theorems |
| `CbufLog` | what a buffer promises: a log cut in two, and reference definitions of the line operations |
| `Cbuf` | the buffer as the code has it, which implements `CbufLog` |
| `CbufProofs` | its index arithmetic, that it implements `CbufLog`, the losses it reports and the lines it finds, for all sizes |
| `Pcp`, `MCPcp` | the copy protocol: client, server and the two streams between them; a source tree and destinations |
| `PcpInvariant` | the situations of the server, each with what the client waits for and what is under way; what becomes of a copy that leaves them |
| `PcpProofs` | both sides in step, every file accounted for, and no silent failure, for any source tree |
| `ListLog` | what a list does for its callers: a sequence of items with cursors; what `list.h` promises, with one named exception |
| `List`, `MCList` | cells, the address of the last link and the chain of iterators, which implement `ListLog` |
| `ListProofs` | the assertion of `list.c` on every iterator, who has each item, and that `List` implements `ListLog`, for any number of nodes and iterators |
| `HostlistLog` | what a host list does for its callers: a sequence of names with one cursor; names with very large numbers are a named exception |
| `Hostlist`, `MCHostlist` | ranges that are joined, split and padded, which implement `HostlistLog` |
| `HostlistProofs` | the count of a host list, that it is the sequence of names that was put in, what `hostlist_uniq` leaves and that it is read as it is written, for any names and lists of any length |
| `Registry`, `MCRegistry` | modules read in any order, priorities, options, initialisation and exit |
| `RegistryProofs` | who owns and who handles an option, how often a module is initialised, and what the order of the directory decides, for any set of modules |
| `Wcoll` | reading a file of hosts, with `#include` |
| `Targets`, `MCTargets` | `Wcoll` composed with the options, the modules that name hosts, and the rcmd registry: from the command line to the connections |
| `TargetsProofs` | who registers a host, which modules are ready, how often a file is read, for any command line |
| `Circuit`, `MCCircuit` | three rcmd functions, the threads that run them, and the privileged process they share |
| `CircuitProofs` | descriptors, replies and ports, for any number of threads and descriptors |

### Dsh

The processes are the main thread, one worker per host, the signals thread and the watchdog; host `h` and its worker
have the same name. `pc[p]` names what thread `p` does next; the other variables are the fields of `t[h]`
and the globals of dsh.c, with these abstractions:

- An action is what a thread does between two points at which another one can interfere: a section under
  a mutex, or one access to `t[]` without one. `tcLock` is `threadcount_mutex` where it is held over several actions,
  `thdLock` is `thd_mutex` during the loop of `_fwd_signal`; every other section under a mutex is
  one action. The reads of `t[h].state` without a mutex are actions of their own:
  `WorkerRecheck` and `WorkerDecide` (the two reads that follow the unlock in
  `_update_connect_state`), `SweepLook`/`SweepMark`, `DogLook`/`DogAlarm`.
- A worker is `_rsh_thread` (`poll`, `handle`) or, for pdcp, `_rcp_thread` (`copy`); the copy itself is one step.
- `pthread_cond_wait` is `woken`, set by a signal sent while the main thread waits. The first wait
  is an `if` in the code and in the model, the second a loop.
- SIGALRM matters to a thread inside a blocking call (`Blocked`); sent at another time it is lost.
- Time is the event that a limit has passed (`late`). The return code is what the last line left.
- A remote command is `alive`, writes, closes its output (which need not be its end), exits. `rcmd[h]` goes from `none` to `open`, perhaps
  `closed` (its descriptors), and `destroyed`.
- `errx` ends the process: `aborted` stops all threads.

`Options` is a set of invocations, one of which the initial state chooses; `copying`, `kill`, `status`, `batch`
and `waits` are the options the control flow depends on. `waits` says that the rcmd module has a child process to wait for.
`Failing` names the calls that may fail in a run: `rcmd_create`, `pthread_create`, and `poll` with another error than an interruption (`PollFails`).

A command that closes its output and runs on gives end of file: its worker sets `DSH_DONE` (`dsh.c:743`) and waits for the child
in `waitpid` (`pipecmd.c:228`). The watchdog looks at `DSH_RCMD` and `DSH_READING` only (`dsh.c:307-315`), so no limit ends that wait, and `dsh()` does not return before
the command ends. The model has this behaviour, and the properties about time name it, `Detached` (section 6).
`pc`, `late`, `recent`, `typed`, `freed` and `aborted` are not variables of the code: position, time, input and memory.

### Cbuf

A buffer is a record of the fields of `struct cbuf`; its operations are functions of such records, because
`cbuf_write_line` is built of two writes, and each action is one exported function, which the code runs under
the mutex of the buffer. The copying loops are their result: cell `i` holds the last byte that falls on it
(`WrittenData`), which is what wrapping any number of times leaves. The two loops
that look for lines are stated by the condition on which they stop (`Visited`). `cbuf_copy` and `cbuf_move` are two actions, one
for each buffer: `CopyIn(s)` of the destination for any unread `s` of a source, and `Drop` of the source.
Functions that change nothing (peeks, replays, getters) are not actions; the data they see
is `Region`. `realloc` may fail (`MayFail`); a descriptor may give or take any part of what was asked for.

`CbufLog` has `replay`, `unread`, whether the first byte is the first ever written (`cut`), the size and the overwrite option.
`Cbuf` implements it with `replay` and `unread` read off the array at the three indices. Its `Push` lets a buffer grow a second time after growing
failed, since `cbuf_write_line` is two writes that each try; the `MaxWrite` of the log also covers the newline and what
`cbuf_write_from_fd(-1)` may read.

Not excluded by the code, and so not by `CbufLog`: of data that exceeds an empty buffer, `cbuf_write_line` and
`cbuf_copier` drop the front before the write that would set `got_wrap`; the rest then counts as a whole first line
(`cbuf.c:869`). `cbuf_lines_reused` (`cbuf.c:402`) gives 0 for an unterminated line that fills the buffer, although it can
be rewound; `BackwardLines` asks no more of it than that every line it counts can be.

### Pcp

The client and the server are sequential programs, so each has a place (`cpc`, `spc`), and what it does between two reads or
writes of a stream is one action. The server recurses: `stack` has one element per call of `_sink`, with its target and `setimes`,
and `Return` is the end of a call together with what the calling `_sink` does next. A cell of a stream is a whole record, or a
whole buffer of data, with the sizes in the C record counted in such buffers. `file` is the file being received,
`dst` the tree at the destination as a function of paths, whose root `<<>>` is `outfile`; `dst0` is the same before the copy.
`List` is what `pcp_expand_dirs` makes of the arguments, with the mark that becomes an E record.
`told` collects the entries for which the client printed an error, which is all a user learns: no result reaches the exit value.

A `mode` is a kind of copy with the failures that may occur in it. Failures are choices of the actions that make the call
(`May("open")` in `ReadFile`), except the loss of the connection, an action of its own. If the two sides are out of step the
server reads lines that are no records (`ReadGarbage`) and end marks that are none (`NoEndMark`); file contents are
assumed not to look like records there. A read that fails midway sends part of the data and no end mark; a directory that `stat` refuses is
skipped, while what is in it and its E record follow. Names given by the user may be paths; only their last component is sent (`BaseName`). That no two of them have the same
one is assumed (`PcpAssumption`): `pdcp a/f b/f dir` stores one over the other, and silently.

### List

A "next" field is named by the node that holds it, the one in the header by `HeadPtr`: that is what `tail`, `prev` of an iterator and
the `pp` of the C code point to. Each operation of `list.c` holds the mutex of the list and is one action; only the sort and
`list_delete_all`, which are loops of such steps, are taken step by step (`op`). `NodeCreate` and `NodeDestroy` are `list_node_create`
and `list_node_destroy`, with what they do to every iterator. `ListLog` is what `list.h` says, except in `Forgets` (section 6); what an iterator does with an item
inserted exactly where it stands is left open there, because `list.h` leaves it open.

### Hostlist

A name is a stem, a value and a number of digits, since whether two ranges may be joined depends on exactly that; text and numbers are
related by `Format` and `HostRange` (formatting with `%0*lu`, and splitting off the digits at the end if their number is not above `MaxSuffix`, which is `MAX_HOST_SUFFIX`). `Push` parses tokens
(`Create`), joins with the last range, and may refuse a range that is too large. `DeleteHost` shrinks, removes or splits a range.
`Uniq` sorts and joins. The iterator is `idx` and `depth`; as in pdsh, a caller that has an iterator only uses `hostlist_next` and
`hostlist_remove` until it destroys it (`dsh.c`, `opt.c` and `rcmd.c` hold to that), and removes a host only once it was
returned. `HostlistLog` is the list of names; `hosts` and `at` of the refinement are the expanded ranges and the number of names behind the
iterator. `Large` of `HostlistLog` are the names whose numbers are above `MaxSuffix`, which deleting may miss (section 6).

### Registry

`Load` is one entry of the module directory: trust in file and directory, opening, personality, and `_mod_install_module`
with its comparison of priorities; `unread` is a set, so every order of `readdir` is a behaviour. `SortModules` puts the list in
order, `InitializeByName` and `InitializeRest` are `mod_init` with `-M`, `_mod_initialize` and `opt_register`, `ExitModules` is `mod_exit`.

### Wcoll and Targets

`Wcoll` reads one line per action; `stack` is the C recursion of `wcoll_ctx_read_file`, with the context's `path_list` and `include_cache`.
A host is a number, a line what `fgets` returns: one of more than 2047 characters comes in several (`wcoll.c:232`). `Targets` takes the arguments in the order of the command line (`HostsArg`, `FileArg`, ...), then the
groups of dshgroup and the machines file, `WCOLL`, the exclusions, regular expressions, second brackets, `-X`, the checks of
`opt_verify`, and connects to one host after the other with what `rcmd.c` has registered. Regular expressions are the sets of names they match.
`Fits` says which lists fit the buffer of `list_push_hostlist`; for another one the phase is `endless` and nothing happens any more (section 6).

### Circuit

A thread (`th[t]`) has its place, the port and the delay of its rcmd function, and three descriptors: `s` of the connection, `s2` of
the socket that waits for the second one, `e` of the second one. `table` says for each open descriptor who opened it, on which port and for which
request, so that the use of another's is visible. `Ask`, `Recv` and `RecvNothing` are `privsep_rresvport_af` under `privsep_mutex`, `Serve` is a
turn of `privsep_server`. The labels `bad` and `bad2` of the C functions are `Bad` and `Bad2`. The remote daemons, the kernel and the watchdog
are the environment; the limit on open files is the size of `Fd`. `recv_rresvport` goes on after `recvmsg` has failed and returns the
descriptor that is on its stack: `Garbage` gives any number (`garbled` records it); that happens once in a behaviour, a bound.
The commands of an interactive session are processes that share the socket: `NextCommand` and `Killed` start the next one; a command that ends
between request and reply leaves a reply behind (`stale`).

## 3. Runs

| Run | Instance | What it shows |
|---|---|---|
| `DshFanout` | 3 hosts, fanout 2, `-S` in pdsh and pdcp; connects fail, threads cannot be created, hosts without module | `FanoutBound`: at most fanout workers. `CountsWorkers`: the counter is exact at every moment, not only at rest. `AllServed`: when the result is computed every host had exactly one finished worker, or none and was canceled. `FailureReported`: a failure is never reported as zero |
| `DshAbort` | 2 hosts, fanout 2, 2 typed signals; `-k -b` with child processes, and no options | `SignalsLiveConnection`: no connection is signalled after its destruction. `SweepComplete`: a finished `_fwd_signal` reached every host in `DSH_READING`. `SkipsCanceled`: no worker is made for a canceled host |
| `DshLimits` | 2 hosts, fanout 1, `-t` and `-u`, connects and commands that hang, commands that close their output and run on, a `poll` that fails | `LimitsKept`: a host past its connect or command limit leaves its state. `Terminates`: `dsh()` returns. Both except for a worker that is `Detached` for ever |
| `Cbuf` | two bytes (one the newline), sizes 1 to 4 in steps of two, all three overwrite options, failing growth, writes of up to 4 bytes | `IndexValid`: the condition of `cbuf_is_valid`. `KeepsLog`: `Cbuf` implements `CbufLog`. `ForwardLines`, `BackwardLines`: the line searches against their definitions, for all arguments. `LossCounted`: what a write reports lost is what is lost |
| `Pcp` | a directory with a file and a subdirectory, a file named like the first beside it, given as `x/d` and `f`; six destinations (nothing; empty; older files, one longer; a directory in the way of a file; a file in the way of a directory; a file); `pdcp -p` and `rpdcp` with independent failures, `pdcp -p` with all | with every failure, `SilenceMeansSuccess`: no error printed, everything stored, and no deeper recursion than directories to send. With independent ones, `InStep`: as many answers as requests, records where records are expected, the same depth on both sides; `DeliveredOrReported`, `OwnContent`: file by file, nothing harmed by a neighbour's failure; `Terminates` |
| `List` | 4 items, equal in pairs, 2 iterators, memory for 4 nodes | `ChainKept`: chain, tail, count and the assertion on iterators. `ItemsAccounted`: no item lost, duplicated or destroyed in the list. `IsListLog`: a sequence with cursors, and a stable sort |
| `Hostlist` | names `f8` to `f11` with and without padding, alone, in brackets and with a digit before the bracket; 11 is too large for a suffix | `IsHostlistLog`: the ranges are the sequence of names that was put in. `CountKept`, `ReadsBack` (written in brackets and read again), `UniqComplete` (for names written alike), `IterationEnds` |
| `Registry` | 8 module files of all kinds, in every order, 3 directories, 4 `-M` lists, pdsh and pdcp | `OptionsServed`, `OneHandler`: no option has two owners or two handlers. `InitOnce`. `LoadOrderIrrelevant`: the result of every order is that of the priorities |
| `Targets` | every command line of three arguments out of 14, and combinations of `-g -X -a -R` and `WCOLL`; files that include each other under several names | `TargetsAsAsked`: a host is a target as often as it was asked for, less the times it was excluded. `FirstRegisteredWins` (rcmd.c:201): each host has the type and user of the first argument that tells it of one (`Tells`). `InitBeforeConnect`. `IncludedOnce`: each file once, so that the recursion ends. `Finishes`: every command line comes to an end, except by `Stuck` |
| `Circuit` | two threads by rsh and Kerberos, by Kerberos twice, by Kerberos and mrsh; 3 reserved ports, one used by others; 3 descriptors; 2 commands | `DescriptorsKept`: every way out closes what was opened, and no thread has another's descriptor. `OwnReply`: one's own request is answered. `ToldPort`: the daemon is told the port that is waited on. `AttemptsEnd`: with `-t` every attempt by rsh or k4 ends |

Two runs end in a violation, each of one sentence of the documentation; the details are under "findings":

| Run | The source says | What happens |
|---|---|---|
| `DshLostCancel` | ^Z cancels threads that have not started (dsh.c:949) | between its creation and its first statement a worker's cancel is overwritten |
| `TargetsExcluded` | `-x` excludes the hosts (pdsh.1.in:137) | a host named twice keeps one place among the targets, and a name in second brackets is not seen |

`Independent` of `Pcp` names the failures that the protocol answers where an answer is expected: a file that is gone when its turn comes, open, write,
ftruncate, utimes of a file, and a lost connection. `Sound` asks for these, and excludes two more things that make the server refuse or the client
skip what the other takes for granted: a file that is in the way of a directory of the source, and a file below a directory that cannot be read.
The others are excluded from four of the properties because the code does not keep them: a refused directory (its files follow all the same, into the parent, and its E ends the parent), utimes of a directory
(an error nobody asked for, `pcp_server.c:374`), `stat` of a directory, a read that fails midway, memory (an error after the acknowledgement), a file that is removed or changes its size after it was announced.

**Bounds.** `N`, `Fanout`: three hosts and two slots are the least at which the window slides with a worker still running
and in which the main thread waits, wakes and waits again; the abort and limit runs need a second host for what
is started after, or beside, the first. `MaxSignals`: two typed signals suffice for ^C ^C and ^C ^Z. `Codes`: zero, an
error, and one above 128 where `-k` looks for a signal. `Streams`: one; `_rsh_thread` treats the second
alike. `MaxSize` 4, `MaxWrite` 4: the starting size 1 with steps of 2 gives growth
by less than, and more than, what was asked for, data that wraps with i_out on either side of the end, and writes that
wrap the array more than once. Copies: one file on either side of a directory and one in it shows what a failure does to what comes
before, inside and after; two levels show a return into a level that goes on; sizes 0, 1 and 2 are no data, one write and several.
`List`: four nodes are an end, a beginning and two between for the iterators to stand at; memory is short when all are used.
`Hostlist`: numbers around 9/10 are where the number of digits changes, which is where widths decide about joining; `MaxHosts = 3` bounds the length at which
another push is made, so lists of five and six occur; `MaxRange` and `MaxRanges` are small so that the parser's refusals occur, and `MaxSuffix` is 10 so that one of the numbers is too large.
`Registry`: each file has a part of its own (see `MCRegistry`), and pairs of files meet at every question the code asks of two.
`Targets`: three arguments are what "the first wins" and a `-x` between two `-w` need; lists of more than eight names do not fit the buffer (`Fits`), which one of the files reaches. `Circuit`: two threads already share the socket, the mutexes and
the ports; three descriptors are fewer than the six they want, so the limit is met at every place; `inuse` bounds how often `connect` finds an
address in use, and two commands are a command that was killed and its successor.
Time limits, hanging connects and similar features are
switched on in the run whose question needs them, so that each run keeps a size that can be explored fully.

**Fairness** is weak throughout. In `Dsh` (`FairSpec`, only in the run about time) each thread takes the steps that depend on itself
alone, as the scheduler of the system guarantees; the watchdog goes on scanning, as its sleep of a second ends; the clock goes
on, so a limit that is set passes; a connect that does not hang, or that SIGALRM interrupts, returns; a copy ends; a command that was sent
a terminating signal ends, and what an ended command had open reads as end of file. A connect that
hangs is never forced to return: `LimitsKept` must come from the watchdog. Not assumed, because the code cannot: that a
SIGALRM meets a blocking call; the watchdog repeats it each second, and that is what the property needs. A command that keeps writing is
excluded (`Chatty = FALSE`), since then the limit is not kept: the worker tests it only when
`poll` is interrupted, and ready data comes first. `MaxSignals` is 0 in `DshFanout`: `FailureReported` claims nothing of runs with two signals, and that the sweep of ^Z may lose a failure (`dsh.c:913`) shows
in theorem `FailuresReported`. In `Pcp` each side goes on when it can; a read returns when there is something to read or the
other end is closed, and the client closes its end when it is done (`_parallel_copy`). In `Hostlist` a caller that iterates goes on to the end,
and in `Targets`, a sequential program, the next step is taken. In `Circuit` the threads and the port server run, and a blocking call is
interrupted by the watchdog in the end (`Alarm`: `-t` is set, and `krb_sendauth` is taken to fail when its read is interrupted); nothing is promised of the daemons or of
the port server's survival. mrsh is left out of `AttemptsEnd`: `fd_read_n` and `fd_read_line` go on after EINTR, so that the comment "Connection can
time out" (`mcmd.c:293`) does not hold of the reads that follow.

## 4. Proofs

All hold for every value of the constants; the assumptions are `DshAssumption`, `CbufAssumption`, `ListAssumption`, `RegistryAssumption`,
`CircuitAssumption`, `TargetsAssumption`, `HostlistAssumption` and `PcpAssumption`, which give the constants their types and say that null values are none of the others.

**Dsh.** `TypeOK` and the window are not inductive: to know that `threadcount` is exact one must know who may hold the
mutex, where the main thread is while it does, and which workers can exist at all. `IndInv` adds to the types of the
program counters and data: the holder of each mutex is at the matching place (`LockPlace`), workers exist only
below the main thread's index and hosts it has passed without one were canceled (`SpawnPlace`), the connection fits the worker's
place (`ConnPlace`), the sweep has signalled what it has passed (`SweepPlace`), and the counter is the number of workers
(`CountPlace`). One lemma per part shows that each action keeps it; `Inductive` puts them together.
From it: `TypeCorrect`, `CounterExact`, `EveryHostServed`, `SignalsLive`, the action properties
`SweepIsComplete` and `CanceledNotStarted`, and `FanoutKept`, which needs
`SpuriousWakeups = FALSE`: the first wait is an `if` (`dsh.c:1156`), and a wait that returns without a signal, which POSIX allows, lets one more worker start.
`FailureReported` does not hold without a condition: the sweep of ^Z tests and sets `t[i].state` under another mutex than the worker (`dsh.c:913`), so it may take a
host whose connect has just failed for one it can cancel. `FailuresReported` says that this is the only way to lose a failure (`FailureCanceled`), and
`FailureAlwaysReported` that none is lost if fewer than two signals are typed.

**Cbuf.** The inductive invariant is the conjunction of `TypeOK` and `IndexValid` (`IndInv`): neither is inductive alone, since an index
stays in the array only if `used` agrees with the indices. The proof first removes the remainders: `IndicesLinear` shows the
condition of `cbuf_is_valid` equal to inequalities between integers (`Order`); then one lemma each for moving
`i_out` (`DropKeeps`, `RewindKeeps`), growing (`GrowKeeps`, data wrapped around the end included) and copying in any number of bytes
(`StoreKeeps`: within the free room, over replay data, over unread data), and lemmas that the line searches
return a number of bytes that is there. `CbufTypeCorrect` and `IndicesValid` follow for writes of every length.

`ImplementsLog` needs to know what the array holds, not only where the indices are. `Aged` names a byte by its age, so that
the replay and the unread data become two segments of one sequence (`ReplayByAge`, `UnreadByAge`) in which no remainder occurs. Storing, whether or
not it wraps over old data, appends to that sequence and drops its front (`StoredPushes`, `GrownPushes`), two pushes in a row are
one (`PushedTwice`, for `cbuf_write_line`), and moving `i_out` moves the cut (`LogMove`). One lemma per operation maps it to `Push`, `Grow` or a move of the log.
`LossIsCounted` compares the number reported with the length of what was dropped, separately for a write, a copy and a line
(`WrittenLoss`, `CopiedLoss`, `LineLoss`).

The line searches (`LinesForward`, `LinesBackward`) relate the scan of the code to the reference `FirstLines` and `LastLines` without induction over data: the
newlines are a set of numbers, the count of those passed rises by one at a time and so takes every value on its way (`CountReaches`), and the scan stops
at the least position at which the bytes or the lines run out (`StopAtByte`, `StopAtCount`). Backwards, `MirrorCount` relates the newlines counted
from the end to those counted from the front.

**List.** A chain is described by a sequence of its nodes (`Linked`), an iterator by its place in it (`Cursor`); `LinkIn` and its counterpart for unlinking
say what one node more or less does to both. That a chain is a chain needs no induction: the sequence after the step is
given by the one before (`With`, `Without`). The loops of the sort and of `list_delete_all` are between two steps at a place of their own, which
`IndInv` adds. `ChainSafe` is the assertion that `list_node_create` and `list_node_destroy` make of every iterator.

`ItemsKept`: what a walk along the links meets is what the sequence holds (`WalkIs`), each node has an item of its own, and the list owns exactly those (`OwnInv`).
`ListIsLog` shows the refinement of `ListLog`, `Forgets` included: `Shows` says that a sequence of nodes is the contents of the log and that each iterator is at the place its
`pos` and `prev` mean (`At`). `InsertIs` and `RemoveIs` say what `PutIn` and `CutOut` of the log do to that for `list_node_create` and `list_node_destroy`, `CursorLog` what a moved
iterator is; `LogStep` puts the operations together. The sort is one step of the log and many of the code; it needs an
invariant of its own, `OrderInv` (`SortInOrder`): the part of the chain behind the sort is in order, and the node it places belongs behind all that its search has passed.

**Hostlist.** `IInv` says of every range that it has a host, that `nhosts` is the number of names of all ranges (`Total`), and where an iterator can be
(`IteratorFits`). The operations are folds over tokens, ranges and names, and what a fold does to data of any length is not to be had by an
induction theorem here. It is had in two steps: `FoldExists`
and `FoldUnique` show that the function by which `FoldLeft` and `FoldRight` are defined over finite sets exists and is the only one, by the least size at which it would not;
`LeftChain` and `RightChain` read off it the chain of values that the loop of the code goes through, one per element (`PushAllIs`, `CreateIs`, `JoinsAre`, `DeletesAre`).
What one step keeps, the loop then keeps. The names of a list are such a chain as well (`NamesExist`),
so that they come together range by range (`NamesOfConcat`). The one operation that does not go range by range is the sort of `hostlist_uniq`: that ranges in another order count as much
(`ArrangementKeeps`) is shown by a bijection between pairs of a range and a host in it (`Cells`). `DuplicatedIs` is the arithmetic of `hostrange_join`: what it reports is what the two ranges count
twice, in order or not. `DeletedIs` is what `hostlist_remove` leaves under the iterator. `CountIsKept` follows.

`HostlistIsLog` follows the names through the same chains. That a join changes no name rests on `Fits`: two widths that pad one number alike pad all larger ones alike
(`JoinedIs`). A deletion cuts one place out of the names (`DeleteHostNames`), and it is a place of the name asked for because formatting is undone by taking the digits apart again.
An iterator is behind as many names as `Position` says, which `IInv` bounds; `LogInv` adds that the name it returned is the one it is at (`Seen`), and so the one that `hostlist_remove` removes.
`hostlist_uniq` keeps the set of names: `Reached` says, range by range, that no name has become more frequent and none was lost, and that the last range `Covers` the one taken in.

`UniqIsComplete`: under `AllAlike` the ranges of one prefix can be joined whenever they overlap, and the sort puts them in a row (`Upto`) in the order of their lower ends. So a range with a
prefix that was there before `Meets` the last range of the result, which reaches as far as any before it: either they are joined, or no name of the new one is in an earlier one
(`Once`). `ListReadsBack` goes bracket by bracket. `EndsAt` is where the bracket that begins at a range ends;
`Reads` says that the token written for it, read again, adds the names of the ranges up to there (`NumStr` writes the digits that the number is padded to, so that it is read as it was formatted),
and `ReadUpTo` carries that along the list. Both use that `len` digits have a value below `Base^len`, which `HostNames` says.

**Registry.** `IInv` adds to the types who owns the options in use, with the modules whose init has failed, and that the modules that are
active are on the list from the first init to `mod_exit`. `OptionsOwned` and `InitRunsOnce` follow. `TypeCorrect` also shows that no more modules are listed
than were counted. `OneHandlerAtMost` follows from who owns an option. `OrderOfFiles` needs a second invariant (`OrderInv`): the list has one module of each
type and name, the strongest among the files read so far, and a module visited by the initialisation ran exactly if nobody before it has one of its options (`Turns`).

**Circuit.** What a thread may close depends on what it can have at each place (`Shapes`, with the port that decides at `bad2` whether there is a second
connection); that it closes nobody else's depends on `OwnDescriptors` for every thread, and that needs `Apart`, one descriptor in one
variable only. Who is answered depends on `Waiting` and `Exchange`: the thread that waits for a reply has the mutex, and at most one request or reply, its own, is on the
socket. `TableKept` says what a step that closes some descriptors of one thread and opens one does to all of this; the rest is one lemma per
action. The theorems hold with every failure; `garbled` and `stale` are part of the properties, since the code keeps less after them.

**Targets.** `RegInv` follows the arguments: what is registered is what the arguments so far say, the first that says it (`ArgsInv`); every module in
use is on the list, once, and the list is complete before `rcmd_init` goes through it (`ModulesInv`); a file is read for the purpose of the phase
(`PurposeInv`). `FirstWins` and `ModulesReady` follow. `IncludesOnce` needs that every path on the stack of `wcoll_ctx_read_file`, but the first, is in the
include cache (`OpenInv`), and that only files the command line names are opened (`NamesInv`).

**Pcp.** The server is always in one of a few situations (`Together`): it starts, it waits at position `j` of the list with nothing under way, or
with the one request of `j`, it makes the directory of `j`, stores the file of `j`, or closes it. Each situation says, while the connection stands, what
the client waits for and what is in the two streams; after a loss of the connection, that the server sees some first part of it. A failure of a write is
the one thing that lets the client run ahead, up to one request (`Closing`). Where the server stands in the tree is the call
stack (`Levels`), which the list of files determines (`Walk`). `Accounted` is what the client knows about the files behind it, `OwnContent` what the tree
holds, `DirsClear` that no file takes the place of a directory. One lemma per action says which situation follows which. From it `InStep`,
`OwnContent` and `DeliveredOrReported`. The hypothesis `Nested` says that the list of files is a walk of the source tree, each directory entered and left once.
It is about the recursive `RexpandDir` and would need induction over the tree; `MCPcp` has TLC evaluate it for its tree.

`SilenceIsSuccess` needs no assumption on the failures (a read that fails midway and a directory that `stat` refuses among them, which print an error), so `Together` is not enough for it. `SilentInv` says what a copy comes to that has left these situations
while no error was printed: an error is under way that the client takes for its next answer, at the latest after the data of the file it sends (`Doomed`);
or a file was not as long as announced, and the client waits for ever while the end mark is not where the server looks for it (`Stuck`); or the times
of a directory that is left could not be set, which gives one answer too many (`Extra`): the next request takes it for its own, or nobody reads it when the
list ends, and nothing was lost then. In neither of the first two has the copy ended. The depth of `_sink` follows from a count that holds
in step or not (`Bounded`): each call, and each `D` record still under way, is paid for by a directory of the list that the client has sent.

Only model-checked: everything that needs fairness (`Terminates`, `LimitsKept`, `AttemptsEnd`, `IterationEnds`, `Finishes`), which is out of the prover's reach;
`TargetsAsAsked`, whose terms are folds over the
arguments of a command line and the files they include, so that its proof is an induction over data with a chain for each of them.

## 5. Not modelled

In `Pcp`: modes and times as data, the limit on the length of a record, contents that imitate records. In `Dsh`: the text of the output (labels,
`_extract_rc`, the last lines of `_flush_output`), construction of commands, the report of
^C, descriptor numbers. In `Hostlist`: host sets, and `hostlist_sort`, `hostlist_coalesce`, the range-wise pop and shift, `hostlist_next_range` and
`hostlist_nth`, which nothing of pdsh calls; the parser's text. In the options: those that only set a field of `opt_t`. The status "partly" of these components in
`PROJECT.json` is because of that. The other module implementations are glue to external libraries and services
(genders, netgroups, SLURM, Torque, nodeupdown) or start a child process (ssh, exec), which `Dsh` has as a connection with `opts.waits`.
Not at all: support code (formatting and allocation), `testcase.c`, the Perl script `dshbak`.

## 6. What the code does that is stated nowhere else

Five disagreements of the code with its manual or its headers lie within the models. The properties except each of them by a name of its own,
so that they still say everything else. (Two more are the violation runs of section 3.)

| Name | The source says | What the code does |
|---|---|---|
| `Detached` in `Terminates` and `LimitsKept` of `Dsh` | `-u`: "Set a limit on the amount of time a remote command is allowed to execute." (pdsh.1.in:178-180) | a command that closes its output and runs on has its worker in `DSH_DONE` (`dsh.c:743`) and `waitpid` (`pipecmd.c:228`), where the watchdog does not look (`dsh.c:307-315`): the limit is not kept, and `dsh()` returns when the command ends by itself, if it does. With -t and -u `Terminates` has no other way not to hold but a command that keeps writing (`Chatty`) |
| `Large` in `HostlistLog` | `hostlist_delete`: "Deletes all hosts in the list represented by `hosts'" (hostlist.h:214) | a number above `MAX_HOST_SUFFIX`, 2^25, is no suffix of a name that stands alone (`hostlist.c:101`, `496`, `503-509`), but is one in brackets; `hostrange_hn_within` (`hostlist.c:923`) then never finds the name in a range: `-w f[40000000-40000001] -x f40000000` leaves both |
| `Forgets` in `ListLog` | `list_remove`, `list_delete`: "Removes from the list the last item returned via list iterator [i]" (list.h:268, 275); `list_insert`: "immediately before the last item returned" (list.h:251) | when the item an iterator would return next is removed, by another iterator or by `list_pop`, `prev` moves to the place of that item (`list.c:716-717`): the iterator has no last item any more, `list_remove` gives NULL, and `list_insert` puts the item after the one returned last |
| `Tells`, against `Says`, in `FirstRegisteredWins` | "user@" and "rcmd_type:" give the user and rcmd module "for these hosts" (pdsh.1.in:128-132) | the names are registered after the first brackets are expanded (`rcmd.c:198-207`), and second brackets only later (`opt.c:800`). A host that comes of second brackets alone is contacted with the default module and user: with `-w ssh:n[0-1]r[2-3]` the names `n0r[2-3]` and `n1r[2-3]` are registered, and none of the four hosts is contacted by ssh |
| `Stuck` in `Finishes` | `list_push_hostlist` takes a list of any length | `n*=2 < 0x7fffff` (`opt.c:1319`) is `n *= 1`: for `-x ^file` whose list in brackets does not fit 4096 bytes, pdsh writes and reallocates for ever |

The rest was met while modelling; the properties are stated so as to be true in spite of it, or the models do not reach it:

- `dsh.c:1156`: a spurious wakeup starts one worker more than the fanout (see `FanoutKept`).
- `dsh.c:1210`: with `-S` a failed host (254) hides an earlier 255.
- `dsh.c:1226`: the array the watchdog reads may be freed while it does (`DogLost`).
- `dsh.c:319`: a host that ^Z canceled while it connects is no longer watched by the watchdog.
- `dsh.c:357`: the state is read twice after the unlock; a cancel between the two leaves the descriptors closed or open by the first reading.
- `dsh.c:592`: `_flush_output` passes the global `t`, not its own thread, to `_flush_lines`.
- `dsh.c:628`: closing a descriptor and `rcmd_signal` of another thread, which may write to it, are not ordered.
- `cbuf.c:1084`: two opposite copies take two mutexes; only their order by address keeps them from waiting on each other.
- `hostlist_uniq` leaves duplicates between names of one stem that are padded differently (`f[9-10],f[09-10]`) or
  split at different digits (`f0[1-2],f01`), and a number that does not fit an `int` can remove a different name; hence `AllAlike` in `UniqComplete`.
- `pcp_client.c:337`: files given by paths with the same last component go to one destination, without a message; `PcpAssumption` excludes them.
- `pcp_client.c:218`: a read that fails midway is printed, but the server takes the next records for the rest of the file.
- `mcmd.c:593-596`: the address family of the accepted socket is tested; it is always that of the socket it came in on, `AF_INET` (`mcmd.c:389`), so `Accept` has no such way out.
- `privsep.c:195` and `privsep.c:322`: a reply without a descriptor and replies a step late are within `Circuit`; `DescriptorsKept` and `OwnReply` except what they touch (`garbled`, `stale`), `ToldPort` holds in spite of late ones.
- `pcp_client.c:113`: below a directory the test for readability is made of the directory, not of the file.
- `mod.c:712`: a weaker module of the same type and name is deleted before the stronger one is found to refuse the personality, so that neither is left (`Unambiguous`).
- `opt.c:800`: a name in second brackets is expanded after `-x` was applied. `opt.c:870`: nothing sets the flag that standard input was used up.
- genders and dshgroup remove the first occurrence of an excluded host only.
- pdsh.1 says that hosts which time out in an interactive session are not contacted again; nothing in the source does that.

## 7. Plan

Done: `Dsh`, `Cbuf`, `Pcp`, `List`, `Hostlist`, `Registry`, `Wcoll` with `Targets`, `Circuit`, and the proofs of section 4. Left, in order:

1. The output lines: labels and return codes on top of `CbufLog`, composed with the end of a worker, for `dsh.c:507-640`.
2. `TargetsAsAsked` for every command line, from chains of values as in `HostlistProofs`.
