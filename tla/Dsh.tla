-------------------------------- MODULE Dsh --------------------------------
(***************************************************************************)
(* The execution engine of pdsh and pdcp (src/src/pdsh/dsh.c): the main    *)
(* thread that keeps at most fanout connections active, one worker thread  *)
(* per connection, the signals thread that serves ^C and ^Z, and the       *)
(* watchdog that interrupts workers which take too long.                   *)
(*                                                                         *)
(* A host is its index in the array t[]; host h and the worker thread of   *)
(* h have the same name.  An action is the code a thread runs between two  *)
(* points where another thread can see or change what it does: a section   *)
(* under a mutex, or one unlocked access of t[].  Time is reduced to the   *)
(* events "this limit has passed"; output lines to the return code the     *)
(* last of them leaves in the thread structure.                            *)
(***************************************************************************)
EXTENDS Integers, FiniteSets

CONSTANTS
  N,               \* number of target hosts (rshcount)
  Fanout,          \* opt->fanout
  Codes,           \* return codes of remote commands; a code above 128 is a signal
  RcFailed,        \* RC_FAILED, the -S code of a host that could not be served
  ConnectTimeout,  \* TRUE iff opt->connect_timeout > 0
  CommandTimeout,  \* TRUE iff opt->command_timeout > 0
  Streams,         \* {"out"}, or {"out", "err"} with separate stderr
  Options,         \* the invocations considered, see OptionRecords
  ConnectHangs,    \* a connect may never return by itself
  Chatty,          \* a command may keep writing after its time limit
  Failing,         \* the calls that may fail: rcmd_create, pthread_create, poll
  SpuriousWakeups, \* pthread_cond_wait may return without a signal
  MaxSignals       \* bound on the ^C and ^Z the user types

\* How pdsh was invoked.
OptionRecords ==
  [copying : BOOLEAN,  \* pdcp personality: workers run _rcp_thread
   kill    : BOOLEAN,  \* -k, kill_on_fail
   status  : BOOLEAN,  \* -S, ret_remote_rc
   batch   : BOOLEAN,  \* -b, sigint_terminates
   waits   : BOOLEAN]  \* the rcmd module waits for its child process (ssh, exec)

ASSUME DshAssumption ==
  /\ N \in Nat \ {0}
  /\ Fanout \in Nat \ {0}
  /\ Codes \subseteq Nat /\ 0 \in Codes
  /\ RcFailed \in Nat \ {0}
  /\ Streams \in {{"out"}, {"out", "err"}}
  /\ Options \subseteq OptionRecords
  /\ MaxSignals \in Nat
  /\ \A b \in {ConnectTimeout, CommandTimeout, ConnectHangs, Chatty, SpuriousWakeups} :
       b \in BOOLEAN
  /\ Failing \subseteq {"rcmd_create", "pthread_create", "poll"}

Hosts  == 1..N
Main   == N + 1
Sig    == N + 2
Dog    == N + 3
Procs  == 1..(N + 3)
Nobody == 0

VARIABLES
  pc,          \* what each thread is about to do
  cur,         \* loop index of the main, signals and watchdog threads
  seen,        \* the t[i].state a thread has read and not yet acted upon
  threadcount,
  tcLock,      \* holder of threadcount_mutex
  woken,       \* threadcount_cond was signalled while the main thread waited
  state,       \* t[h].state
  rc,          \* t[h].rc
  result,      \* the worker's local variable result
  rcmd,        \* the connection: none, open, fds closed, destroyed
  open,        \* the streams the worker still polls
  ready,       \* what a poll of each stream would report
  alive,       \* the remote command (or local child) is running
  late,        \* the time limits host h has passed
  alarm,       \* a SIGALRM that will interrupt the worker's blocking call
  sent,        \* hosts a terminating signal was sent to
  thdLock,     \* holder of thd_mutex across the loop of _fwd_signal
  fwd,         \* loop index of that holder
  recent,      \* last ^C at most INTR_TIME ago
  typed,       \* signals typed so far
  opts,        \* the options in force
  code,        \* dsh()'s return value
  freed,       \* t[] has been released
  aborted      \* errx() has ended the process

mainVars == <<threadcount, tcLock, woken, code, freed>>
thdVars  == <<state, rc, result, late, alarm>>
connVars == <<rcmd, open, ready, alive, sent>>
fwdVars  == <<thdLock, fwd>>
userVars == <<recent, typed, opts>>
vars == <<pc, cur, seen, mainVars, thdVars, connVars, fwdVars, userVars, aborted>>

States == {"NEW", "RCMD", "READING", "DONE", "FAILED", "CANCELED"}

WorkerPcs == {"none", "start", "connect", "update", "recheck", "decide", "copy",
              "poll", "handle", "finish", "destroy", "count", "exit"}
MainPcs   == {"lock", "wait_room", "skip", "create", "drain", "wait_drain", "reap",
              "free", "done"}
SigPcs    == {"wait", "cancel", "look", "mark", "gone"}
DogPcs    == {"scan", "test", "gone", "lost"}
DyingPcs  == {"die", "forward", "errx"}

Goto(p, from, to) == pc[p] = from /\ pc' = [pc EXCEPT ![p] = to]
Active == {h \in Hosts : pc[h] \notin {"none", "exit"}}

-----------------------------------------------------------------------------
(* The array as _thd_init leaves it; the watchdog and signals threads run. *)

Init ==
  /\ pc = [p \in Procs |-> IF p \in Hosts THEN "none"
                            ELSE IF p = Main THEN "lock"
                            ELSE IF p = Sig THEN "wait" ELSE "scan"]
  /\ cur = [p \in {Main, Sig, Dog} |-> 1]
  /\ seen = [p \in {Sig, Dog} |-> "NEW"]
  /\ threadcount = 0 /\ tcLock = Nobody /\ woken = FALSE
  /\ state \in [Hosts -> {"NEW"} \cup
                        IF "rcmd_create" \in Failing THEN {"CANCELED"} ELSE {}]
  /\ rc = [h \in Hosts |-> 0]
  /\ result = [h \in Hosts |-> "DONE"]
  /\ rcmd = [h \in Hosts |-> "none"]
  /\ open = [h \in Hosts |-> {}]
  /\ ready = [h \in Hosts |-> [s \in Streams |-> "idle"]]
  /\ alive = [h \in Hosts |-> FALSE]
  /\ late = [h \in Hosts |-> {}]
  /\ alarm = [h \in Hosts |-> FALSE]
  /\ sent = {}
  /\ thdLock = Nobody /\ fwd = 0
  /\ recent = FALSE /\ typed = 0 /\ opts \in Options
  /\ code = 0 /\ freed = FALSE /\ aborted = FALSE

-----------------------------------------------------------------------------
(* The main thread: dsh(). *)

\* Wrong: room is tested one too late.
MainLockLate ==
  /\ tcLock = Nobody
  /\ IF threadcount = Fanout + 1
       THEN Goto(Main, "lock", "wait_room") /\ UNCHANGED tcLock
       ELSE Goto(Main, "lock", "skip") /\ tcLock' = Main
  /\ UNCHANGED <<cur, seen, threadcount, woken, code, freed, thdVars, connVars,
                 fwdVars, userVars, aborted>>

\* Lock, and test for room once: the wait is an `if', not a loop.
MainLock ==
  /\ tcLock = Nobody
  /\ IF threadcount = Fanout
       THEN Goto(Main, "lock", "wait_room") /\ UNCHANGED tcLock
       ELSE Goto(Main, "lock", "skip") /\ tcLock' = Main
  /\ UNCHANGED <<cur, seen, threadcount, woken, code, freed, thdVars, connVars,
                 fwdVars, userVars, aborted>>

\* pthread_cond_wait returns with the mutex held.
MainRoom ==
  /\ Goto(Main, "wait_room", "skip")
  /\ woken \/ SpuriousWakeups
  /\ tcLock = Nobody /\ tcLock' = Main
  /\ woken' = FALSE
  /\ UNCHANGED <<cur, seen, threadcount, code, freed, thdVars, connVars, fwdVars,
                 userVars, aborted>>

\* Advance past canceled hosts; the loop ends when none is left.
MainSkip ==
  LET todo == {h \in cur[Main]..N : state[h] # "CANCELED"}
  IN
  /\ \/ /\ todo = {}
        /\ Goto(Main, "skip", "drain")
        /\ tcLock' = Nobody
        /\ UNCHANGED cur
     \/ \E h \in todo :
          /\ \A g \in todo : h <= g
          /\ Goto(Main, "skip", "create")
          /\ cur' = [cur EXCEPT ![Main] = h]
          /\ UNCHANGED tcLock
  /\ UNCHANGED <<seen, threadcount, woken, code, freed, thdVars, connVars, fwdVars,
                 userVars, aborted>>

\* Wrong: the new worker is not counted.
MainCreateUncounted ==
  LET h == cur[Main]
  IN
  /\ pc[Main] = "create"
  /\ pc' = [pc EXCEPT ![h] = "start", ![Main] = IF h = N THEN "drain" ELSE "lock"]
  /\ tcLock' = Nobody
  /\ cur' = [cur EXCEPT ![Main] = h + 1]
  /\ UNCHANGED <<seen, threadcount, woken, code, freed, thdVars, connVars, fwdVars,
                 userVars, aborted>>

MainCreate ==
  LET h == cur[Main]
  IN
  /\ pc[Main] = "create"
  /\ pc' = [pc EXCEPT ![h] = "start", ![Main] = IF h = N THEN "drain" ELSE "lock"]
  /\ threadcount' = threadcount + 1
  /\ tcLock' = Nobody
  /\ cur' = [cur EXCEPT ![Main] = h + 1]
  /\ UNCHANGED <<seen, woken, code, freed, thdVars, connVars, fwdVars, userVars,
                 aborted>>

\* pthread_create failed: the process ends, threadcount_mutex still held.
MainCreateFails ==
  /\ "pthread_create" \in Failing
  /\ Goto(Main, "create", IF opts.kill THEN "die" ELSE "errx")
  /\ UNCHANGED <<cur, seen, mainVars, thdVars, connVars, fwdVars, userVars, aborted>>

\* Wrong: one wakeup is taken for the end of the last worker.
MainDrainOnce ==
  /\ tcLock = Nobody
  /\ \/ Goto(Main, "drain", IF threadcount > 0 THEN "wait_drain" ELSE "reap")
        /\ UNCHANGED woken
     \/ /\ woken
        /\ Goto(Main, "wait_drain", "reap")
        /\ woken' = FALSE
  /\ UNCHANGED <<cur, seen, threadcount, tcLock, code, freed, thdVars, connVars,
                 fwdVars, userVars, aborted>>

MainDrain ==
  /\ tcLock = Nobody
  /\ \/ Goto(Main, "drain", IF threadcount > 0 THEN "wait_drain" ELSE "reap")
        /\ UNCHANGED woken
     \/ /\ woken \/ SpuriousWakeups
        /\ Goto(Main, "wait_drain", IF threadcount > 0 THEN "wait_drain" ELSE "reap")
        /\ woken' = FALSE
  /\ UNCHANGED <<cur, seen, threadcount, tcLock, code, freed, thdVars, connVars,
                 fwdVars, userVars, aborted>>

\* The exit value of -S.  The scan is in host order: a failed host assigns
\* RcFailed whatever was found before it, a larger return code replaces the value.
\* So only the codes from the last failed host on count, and RcFailed if there is one.
Counted ==
  {rc[h] : h \in {i \in Hosts : \A g \in Hosts : state[g] = "FAILED" => g <= i}}
    \cup {IF \E g \in Hosts : state[g] = "FAILED" THEN RcFailed ELSE 0}

\* Wrong: hosts that failed leave no trace in the exit value.
MainReapRcOnly ==
  /\ Goto(Main, "reap", "free")
  /\ \E h \in Hosts : /\ \A g \in Hosts : rc[g] <= rc[h]
                      /\ code' = IF opts.status THEN rc[h] ELSE 0
  /\ UNCHANGED <<cur, seen, threadcount, tcLock, woken, freed, thdVars, connVars,
                 fwdVars, userVars, aborted>>

\* pthread_cancel(thread_sig) happens here: a signals thread in sigwait is gone.
MainReap ==
  /\ Goto(Main, "reap", "free")
  /\ \E c \in Counted : /\ \A d \in Counted : d <= c
                        /\ code' = IF opts.status THEN c ELSE 0
  /\ UNCHANGED <<cur, seen, threadcount, tcLock, woken, freed, thdVars, connVars,
                 fwdVars, userVars, aborted>>

MainFree ==
  /\ Goto(Main, "free", "done")
  /\ freed' = TRUE
  /\ UNCHANGED <<cur, seen, threadcount, tcLock, woken, code, thdVars, connVars,
                 fwdVars, userVars, aborted>>

MainNext == MainLock \/ MainRoom \/ MainSkip \/ MainCreate \/ MainCreateFails
            \/ MainDrain \/ MainReap \/ MainFree

-----------------------------------------------------------------------------
(* A worker thread: _rsh_thread, or for pdcp (opts.copying) _rcp_thread. *)

WorkerStart(h) ==
  /\ thdLock = Nobody
  /\ Goto(h, "start", "connect")
  /\ state' = [state EXCEPT ![h] = "RCMD"]
  /\ UNCHANGED <<cur, seen, mainVars, rc, result, late, alarm, connVars, fwdVars,
                 userVars, aborted>>

\* rcmd_connect succeeds: the remote command is running.
ConnectOk(h) ==
  /\ Goto(h, "connect", "update")
  /\ rcmd' = [rcmd EXCEPT ![h] = "open"]
  /\ alive' = [alive EXCEPT ![h] = TRUE]
  /\ alarm' = [alarm EXCEPT ![h] = FALSE]
  /\ UNCHANGED <<cur, seen, mainVars, state, rc, result, late, open, ready, sent,
                 fwdVars, userVars, aborted>>

\* rcmd_connect returns -1: refused, or interrupted by SIGALRM.
ConnectFails(h) ==
  /\ Goto(h, "connect", "finish")
  /\ result' = [result EXCEPT ![h] = "FAILED"]
  /\ alarm' = [alarm EXCEPT ![h] = FALSE]
  /\ UNCHANGED <<cur, seen, mainVars, state, rc, late, connVars, fwdVars, userVars,
                 aborted>>

\* Wrong: the state is updated without thd_mutex.
WorkerUpdateUnlocked(h) ==
  /\ Goto(h, "update", "recheck")
  /\ state' = [state EXCEPT ![h] = IF @ = "CANCELED" THEN @ ELSE "READING"]
  /\ UNCHANGED <<cur, seen, mainVars, rc, result, late, alarm, connVars, fwdVars,
                 userVars, aborted>>

\* _update_connect_state, the part under thd_mutex.
WorkerUpdate(h) ==
  /\ thdLock = Nobody
  /\ Goto(h, "update", "recheck")
  /\ state' = [state EXCEPT ![h] = IF @ = "CANCELED" THEN @ ELSE "READING"]
  /\ UNCHANGED <<cur, seen, mainVars, rc, result, late, alarm, connVars, fwdVars,
                 userVars, aborted>>

\* First read of a->state after the unlock: a canceled worker closes its fds.
WorkerRecheck(h) ==
  /\ Goto(h, "recheck", "decide")
  /\ rcmd' = [rcmd EXCEPT ![h] = IF state[h] = "CANCELED" THEN "closed" ELSE @]
  /\ UNCHANGED <<cur, seen, mainVars, thdVars, open, ready, alive, sent, fwdVars,
                 userVars, aborted>>

\* Second read, by `return a->state': whether to read the connection at all.
WorkerDecide(h) ==
  /\ \/ /\ state[h] = "CANCELED"
        /\ Goto(h, "decide", "finish")
        /\ UNCHANGED open
     \/ /\ state[h] # "CANCELED"
        /\ Goto(h, "decide", IF opts.copying THEN "copy" ELSE "poll")
        /\ open' = [open EXCEPT ![h] = Streams]
  /\ UNCHANGED <<cur, seen, mainVars, thdVars, rcmd, ready, alive, sent, fwdVars,
                 userVars, aborted>>

\* _parallel_copy: however the copy ends, the result stays DONE.
WorkerCopy(h) ==
  /\ Goto(h, "copy", "finish")
  /\ open' = [open EXCEPT ![h] = {}]
  /\ rcmd' = [rcmd EXCEPT ![h] = "closed"]
  /\ alarm' = [alarm EXCEPT ![h] = FALSE]
  /\ UNCHANGED <<cur, seen, mainVars, state, rc, result, late, ready, alive, sent,
                 fwdVars, userVars, aborted>>

Reported(h) == {s \in open[h] : ready[h][s] # "idle"}

\* xpoll prefers ready streams to a pending signal.
PollReady(h) ==
  /\ Reported(h) # {}
  /\ Goto(h, "poll", "handle")
  /\ alarm' = [alarm EXCEPT ![h] = FALSE]
  /\ UNCHANGED <<cur, seen, mainVars, state, rc, result, late, connVars, fwdVars,
                 userVars, aborted>>

\* Wrong: every interruption is taken for a spurious one.
PollInterruptedIgnored(h) ==
  /\ pc[h] = "poll" /\ Reported(h) = {} /\ alarm[h]
  /\ alarm' = [alarm EXCEPT ![h] = FALSE]
  /\ UNCHANGED <<pc, cur, seen, mainVars, state, rc, result, late, connVars, fwdVars,
                 userVars, aborted>>

\* EINTR: the command's limit has passed, or the signal was spurious.
PollInterrupted(h) ==
  /\ pc[h] = "poll" /\ Reported(h) = {} /\ alarm[h]
  /\ alarm' = [alarm EXCEPT ![h] = FALSE]
  /\ IF "command" \in late[h]
       THEN /\ Goto(h, "poll", "finish")
            /\ result' = [result EXCEPT ![h] = "FAILED"]
            /\ open' = [open EXCEPT ![h] = {}]
            /\ sent' = sent \cup {h}
       ELSE UNCHANGED <<pc, result, open, sent>>
  /\ UNCHANGED <<cur, seen, mainVars, state, rc, late, rcmd, ready, alive,
                 fwdVars, userVars, aborted>>

\* Any other error of poll().
PollFails(h) ==
  /\ "poll" \in Failing
  /\ Goto(h, "poll", "finish")
  /\ alarm' = [alarm EXCEPT ![h] = FALSE]
  /\ result' = [result EXCEPT ![h] = "FAILED"]
  /\ open' = [open EXCEPT ![h] = {}]
  /\ sent' = sent \cup {h}
  /\ UNCHANGED <<cur, seen, mainVars, state, rc, late, rcmd, ready, alive,
                 fwdVars, userVars, aborted>>

\* The code _flush_lines leaves in t[h].rc: that of the last line read; lines
\* carry codes only when dsh() appended the echo of $? to the command.
LineCodes == IF opts.kill \/ opts.status THEN Codes ELSE {0}

\* Read what the poll reported; end of file or an error closes the stream.
WorkerHandle(h) ==
  LET seenReady == Reported(h)
      left == {s \in open[h] : ready[h][s] # "eof"}
  IN
  /\ pc[h] = "handle"
  /\ open' = [open EXCEPT ![h] = left]
  /\ ready' = [ready EXCEPT ![h] = [s \in Streams |->
                  IF s \in seenReady /\ @[s] = "data" THEN "idle" ELSE @[s]]]
  /\ \E c \in IF "out" \in seenReady /\ ready[h]["out"] = "data"
                THEN LineCodes ELSE {rc[h]} :
       /\ rc' = [rc EXCEPT ![h] = c]
       /\ Goto(h, "handle", CASE opts.kill /\ c > 128 -> "die"
                              [] left = {} -> "finish"
                              [] OTHER -> "poll")
  /\ UNCHANGED <<cur, seen, mainVars, state, result, late, alarm, rcmd, alive, sent,
                 fwdVars, userVars, aborted>>

\* Wrong: the state stays READING while the connection is destroyed.
WorkerFinishSilent(h) ==
  /\ Goto(h, "finish", "destroy")
  /\ UNCHANGED <<cur, seen, mainVars, thdVars, connVars, fwdVars, userVars, aborted>>

WorkerFinish(h) ==
  /\ thdLock = Nobody
  /\ Goto(h, "finish", "destroy")
  /\ state' = [state EXCEPT ![h] = result[h]]
  /\ UNCHANGED <<cur, seen, mainVars, rc, result, late, alarm, connVars, fwdVars,
                 userVars, aborted>>

\* rcmd_destroy: wait for the child (a SIGALRM ends the wait with status 0),
\* and keep its code if no line carried one.  Then the -k test.
WorkerDestroy(h) ==
  LET codes == IF ~opts.waits THEN {0}
               ELSE IF rcmd[h] = "none" THEN {1}
               ELSE IF alarm[h] THEN {0} ELSE Codes
  IN
  /\ ~opts.waits \/ ~alive[h] \/ alarm[h]
  /\ \E c \in codes :
       /\ rc' = [rc EXCEPT ![h] = IF @ = 0 THEN c ELSE @]
       /\ Goto(h, "destroy",
               IF ~opts.copying /\ opts.kill /\ (state[h] = "FAILED" \/ rc'[h] > 0)
                 THEN "die" ELSE "count")
  /\ rcmd' = [rcmd EXCEPT ![h] = "destroyed"]
  /\ alarm' = [alarm EXCEPT ![h] = FALSE]
  /\ UNCHANGED <<cur, seen, mainVars, state, result, late, open, ready, alive, sent,
                 fwdVars, userVars, aborted>>

\* Wrong: the main thread is not signalled.
WorkerCountSilent(h) ==
  /\ tcLock = Nobody
  /\ Goto(h, "count", "exit")
  /\ threadcount' = threadcount - 1
  /\ UNCHANGED <<cur, seen, tcLock, woken, code, freed, thdVars, connVars, fwdVars,
                 userVars, aborted>>

\* Make room: under threadcount_mutex, then signal the main thread.
WorkerCount(h) ==
  /\ tcLock = Nobody
  /\ Goto(h, "count", "exit")
  /\ threadcount' = threadcount - 1
  /\ woken' = (woken \/ pc[Main] \in {"wait_room", "wait_drain"})
  /\ UNCHANGED <<cur, seen, tcLock, code, freed, thdVars, connVars, fwdVars, userVars,
                 aborted>>

\* What a worker does by itself once it is not waiting for the remote side.
WorkerStep(h) ==
  \/ WorkerStart(h) \/ WorkerUpdate(h) \/ WorkerRecheck(h) \/ WorkerDecide(h)
  \/ PollReady(h) \/ PollInterrupted(h) \/ WorkerHandle(h) \/ WorkerFinish(h)
  \/ WorkerDestroy(h) \/ WorkerCount(h)

WorkerNext(h) == WorkerStep(h) \/ ConnectOk(h) \/ ConnectFails(h) \/ WorkerCopy(h)
                 \/ PollFails(h)

-----------------------------------------------------------------------------
(* _fwd_signal and errx, for any thread p on its way to end the process. *)

ForwardBegin(p) ==
  /\ thdLock = Nobody
  /\ Goto(p, "die", "forward")
  /\ thdLock' = p /\ fwd' = 1
  /\ UNCHANGED <<cur, seen, mainVars, thdVars, connVars, userVars, aborted>>

ForwardStep(p) ==
  /\ pc[p] = "forward" /\ thdLock = p /\ fwd <= N
  /\ sent' = IF state[fwd] = "READING" THEN sent \cup {fwd} ELSE sent
  /\ fwd' = fwd + 1
  /\ UNCHANGED <<pc, cur, seen, mainVars, thdVars, rcmd, open, ready, alive, thdLock,
                 userVars, aborted>>

ForwardEnd(p) ==
  /\ thdLock = p /\ fwd = N + 1
  /\ Goto(p, "forward", "errx")
  /\ thdLock' = Nobody /\ fwd' = 0
  /\ UNCHANGED <<cur, seen, mainVars, thdVars, connVars, userVars, aborted>>

Errx(p) ==
  /\ pc[p] = "errx"
  /\ aborted' = TRUE
  /\ UNCHANGED <<pc, cur, seen, mainVars, thdVars, connVars, fwdVars, userVars>>

DieNext(p) == ForwardBegin(p) \/ ForwardStep(p) \/ ForwardEnd(p) \/ Errx(p)

-----------------------------------------------------------------------------
(* The signals thread. *)

Canceled == pc[Main] \in {"free", "done"}

\* ^C: batch mode and a second ^C abort; a first ^C lists the threads, for
\* which it needs thd_mutex.
Interrupt ==
  /\ pc[Sig] = "wait" /\ ~Canceled /\ typed < MaxSignals
  /\ typed' = typed + 1
  /\ \/ /\ opts.batch \/ recent
        /\ Goto(Sig, "wait", "die")
        /\ UNCHANGED recent
     \/ /\ ~opts.batch /\ ~recent
        /\ thdLock = Nobody
        /\ recent' = TRUE
        /\ UNCHANGED pc
  /\ UNCHANGED <<cur, seen, mainVars, thdVars, connVars, fwdVars, opts, aborted>>

\* ^Z soon after ^C.  At any other time it stops the process, which changes
\* no variable once SIGCONT resumes it.
TerminalStop ==
  /\ ~Canceled /\ typed < MaxSignals /\ recent
  /\ Goto(Sig, "wait", "cancel")
  /\ typed' = typed + 1
  /\ UNCHANGED <<cur, seen, mainVars, thdVars, connVars, fwdVars, recent, opts,
                 aborted>>

\* Wrong: the sweep does not exclude the creation of threads.
SweepUnlocked ==
  /\ tcLock' = tcLock
  /\ Goto(Sig, "cancel", "look")
  /\ cur' = [cur EXCEPT ![Sig] = 1]
  /\ UNCHANGED <<seen, threadcount, woken, code, freed, thdVars, connVars, fwdVars,
                 userVars, aborted>>

\* _cancel_pending_threads takes threadcount_mutex, not thd_mutex.
SweepLock ==
  /\ tcLock = Nobody /\ tcLock' = Sig
  /\ Goto(Sig, "cancel", "look")
  /\ cur' = [cur EXCEPT ![Sig] = 1]
  /\ UNCHANGED <<seen, threadcount, woken, code, freed, thdVars, connVars, fwdVars,
                 userVars, aborted>>

SweepLook ==
  /\ cur[Sig] <= N
  /\ Goto(Sig, "look", "mark")
  /\ seen' = [seen EXCEPT ![Sig] = state[cur[Sig]]]
  /\ UNCHANGED <<cur, mainVars, thdVars, connVars, fwdVars, userVars, aborted>>

SweepMark ==
  /\ Goto(Sig, "mark", "look")
  /\ state' = IF seen[Sig] \in {"NEW", "RCMD"}
                THEN [state EXCEPT ![cur[Sig]] = "CANCELED"] ELSE state
  /\ cur' = [cur EXCEPT ![Sig] = @ + 1]
  /\ UNCHANGED <<seen, mainVars, rc, result, late, alarm, connVars, fwdVars, userVars,
                 aborted>>

SweepUnlock ==
  /\ cur[Sig] = N + 1
  /\ Goto(Sig, "look", "wait")
  /\ tcLock' = Nobody
  /\ UNCHANGED <<cur, seen, threadcount, woken, code, freed, thdVars, connVars, fwdVars,
                 userVars, aborted>>

SigGone ==
  /\ Canceled
  /\ Goto(Sig, "wait", "gone")
  /\ UNCHANGED <<cur, seen, mainVars, thdVars, connVars, fwdVars, userVars, aborted>>

SigStep == SweepLock \/ SweepLook \/ SweepMark \/ SweepUnlock \/ SigGone
SigNext == SigStep \/ Interrupt \/ TerminalStop

-----------------------------------------------------------------------------
(* The watchdog.  It holds no mutex: the state it read may be old when it   *)
(* tests the limit and sends SIGALRM.                                       *)

DogLook ==
  /\ pc[Dog] = "scan" /\ ~freed /\ cur[Dog] <= N
  /\ IF state[cur[Dog]] \in {"RCMD", "READING"}
       THEN /\ Goto(Dog, "scan", "test")
            /\ seen' = [seen EXCEPT ![Dog] = state[cur[Dog]]]
            /\ UNCHANGED cur
       ELSE /\ cur' = [cur EXCEPT ![Dog] = @ + 1]
            /\ UNCHANGED <<pc, seen>>
  /\ UNCHANGED <<mainVars, thdVars, connVars, fwdVars, userVars, aborted>>

TimedOut(h, s) == \/ s = "RCMD"    /\ "connect" \in late[h]
                  \/ s = "READING" /\ "command" \in late[h]

\* A SIGALRM matters only to a thread inside a blocking call.
Blocked(h) == pc[h] \in {"connect", "poll", "copy", "destroy"}

DogAlarm ==
  LET h == cur[Dog]
  IN
  /\ Goto(Dog, "test", "scan")
  /\ alarm' = IF TimedOut(h, seen[Dog]) /\ Blocked(h)
                THEN [alarm EXCEPT ![h] = TRUE] ELSE alarm
  /\ cur' = [cur EXCEPT ![Dog] = h + 1]
  /\ UNCHANGED <<seen, mainVars, state, rc, result, late, connVars, fwdVars, userVars,
                 aborted>>

\* End of a scan; after the sleep the thread returns if t is NULL.
DogRest ==
  /\ cur[Dog] = N + 1
  /\ Goto(Dog, "scan", IF freed THEN "gone" ELSE "scan")
  /\ cur' = [cur EXCEPT ![Dog] = IF freed THEN N + 1 ELSE 1]
  /\ UNCHANGED <<seen, mainVars, thdVars, connVars, fwdVars, userVars, aborted>>

\* The array went away under the scan: a read of freed memory.
DogLost ==
  /\ freed /\ cur[Dog] <= N
  /\ pc[Dog] \in {"scan", "test"}
  /\ pc' = [pc EXCEPT ![Dog] = "lost"]
  /\ UNCHANGED <<cur, seen, mainVars, thdVars, connVars, fwdVars, userVars, aborted>>

DogNext == DogLook \/ DogAlarm \/ DogRest \/ DogLost

-----------------------------------------------------------------------------
(* Remote commands and the clock. *)

RemoteWrites(h, s) ==
  /\ alive[h] /\ s \in open[h] /\ ready[h][s] = "idle" /\ ~opts.copying
  /\ Chatty \/ "command" \notin late[h]
  /\ ready' = [ready EXCEPT ![h][s] = "data"]
  /\ UNCHANGED <<pc, cur, seen, mainVars, thdVars, rcmd, open, alive, sent, fwdVars,
                 userVars, aborted>>

\* A dead command's output reads as end of file; a command may also close it and
\* run on.
RemoteCloses(h, s) ==
  /\ s \in open[h] /\ ready[h][s] = "idle" /\ ~opts.copying
  /\ ready' = [ready EXCEPT ![h][s] = "eof"]
  /\ UNCHANGED <<pc, cur, seen, mainVars, thdVars, rcmd, open, alive, sent, fwdVars,
                 userVars, aborted>>

RemoteExits(h) ==
  /\ alive[h]
  /\ alive' = [alive EXCEPT ![h] = FALSE]
  /\ UNCHANGED <<pc, cur, seen, mainVars, thdVars, rcmd, open, ready, sent, fwdVars,
                 userVars, aborted>>

ConnectLimitPasses(h) ==
  /\ ConnectTimeout /\ pc[h] \in {"connect", "update"}
  /\ late' = [late EXCEPT ![h] = @ \cup {"connect"}]
  /\ UNCHANGED <<pc, cur, seen, mainVars, state, rc, result, alarm, connVars, fwdVars,
                 userVars, aborted>>

CommandLimitPasses(h) ==
  /\ CommandTimeout
  /\ pc[h] \in {"recheck", "decide", "poll", "copy", "handle", "finish", "destroy"}
  /\ rcmd[h] # "none"
  /\ late' = [late EXCEPT ![h] = @ \cup {"command"}]
  /\ UNCHANGED <<pc, cur, seen, mainVars, state, rc, result, alarm, connVars, fwdVars,
                 userVars, aborted>>

\* More than INTR_TIME since the last ^C.
WindowCloses ==
  /\ recent
  /\ recent' = FALSE
  /\ UNCHANGED <<pc, cur, seen, mainVars, thdVars, connVars, fwdVars, typed, opts,
                 aborted>>

Environment ==
  \/ \E h \in Hosts : \/ \E s \in Streams : RemoteWrites(h, s) \/ RemoteCloses(h, s)
                      \/ RemoteExits(h)
                      \/ ConnectLimitPasses(h) \/ CommandLimitPasses(h)
  \/ WindowCloses

-----------------------------------------------------------------------------
Ended == aborted \/ (pc[Main] = "done" /\ pc[Sig] = "gone" /\ pc[Dog] \in {"gone", "lost"})

Terminated == Ended /\ UNCHANGED vars

Next ==
  \/ /\ ~aborted
     /\ \/ MainNext \/ SigNext \/ DogNext \/ Environment
        \/ \E h \in Hosts : WorkerNext(h)
        \/ \E p \in Procs : DieNext(p)
  \/ Terminated

(***************************************************************************)
(* Every thread runs, clocks advance, a connect that does not hang returns,*)
(* a command told to end ends, and what a dead command had open reads as   *)
(* end of file.  A command is under no obligation to end by itself.        *)
(***************************************************************************)
Fairness ==
  /\ WF_vars(~aborted /\ MainNext)
  /\ WF_vars(~aborted /\ SigStep)
  /\ WF_vars(~aborted /\ DogNext)
  /\ \A p \in Procs : WF_vars(~aborted /\ DieNext(p))
  /\ \A h \in Hosts :
       /\ WF_vars(~aborted /\ WorkerStep(h))
       /\ WF_vars(~aborted /\ WorkerCopy(h))
       /\ WF_vars(~aborted /\ (alarm[h] \/ ~ConnectHangs)
                           /\ (ConnectOk(h) \/ ConnectFails(h)))
       /\ WF_vars(~aborted /\ h \in sent /\ RemoteExits(h))
       /\ \A s \in Streams : WF_vars(~aborted /\ ~alive[h] /\ RemoteCloses(h, s))
       /\ WF_vars(~aborted /\ ConnectLimitPasses(h))
       /\ WF_vars(~aborted /\ CommandLimitPasses(h))

Spec == Init /\ [][Next]_vars
FairSpec == Spec /\ Fairness

-----------------------------------------------------------------------------
(* Properties. *)

PcsOf(p) == IF p \in Hosts THEN WorkerPcs \cup DyingPcs
            ELSE IF p = Main THEN MainPcs \cup DyingPcs
            ELSE IF p = Sig THEN SigPcs \cup DyingPcs ELSE DogPcs

PcOK ==
  /\ pc \in [Procs -> WorkerPcs \cup MainPcs \cup SigPcs \cup DogPcs \cup DyingPcs]
  /\ \A p \in Procs : pc[p] \in PcsOf(p)

DataOK ==
  /\ cur \in [{Main, Sig, Dog} -> 1..(N + 1)]
  /\ seen \in [{Sig, Dog} -> States]
  /\ threadcount \in Nat /\ tcLock \in {Nobody, Main, Sig} /\ woken \in BOOLEAN
  /\ state \in [Hosts -> States]
  /\ rc \in [Hosts -> Nat]
  /\ result \in [Hosts -> {"DONE", "FAILED"}]
  /\ rcmd \in [Hosts -> {"none", "open", "closed", "destroyed"}]
  /\ open \in [Hosts -> SUBSET Streams]
  /\ ready \in [Hosts -> [Streams -> {"idle", "data", "eof"}]]
  /\ alive \in [Hosts -> BOOLEAN]
  /\ late \in [Hosts -> SUBSET {"connect", "command"}]
  /\ alarm \in [Hosts -> BOOLEAN]
  /\ sent \subseteq Hosts
  /\ thdLock \in Procs \cup {Nobody} /\ fwd \in 0..(N + 1)
  /\ recent \in BOOLEAN /\ typed \in 0..MaxSignals /\ opts \in Options
  /\ code \in Nat /\ freed \in BOOLEAN /\ aborted \in BOOLEAN

TypeOK == PcOK /\ DataOK

\* At most fanout connections are active (dsh.c:32, "The main thread makes sure
\* that at most fanout number of threads are active at any given time").
FanoutBound == Cardinality(Active) <= Fanout

\* threadcount, which alone decides about room and about the end, counts the
\* workers that have been created and have not yet left.
CountsWorkers == threadcount = Cardinality(Active)

\* When dsh() computes its result every host has been served to the end by one
\* worker or was canceled before it had one; so no worker outlives the array.
AllServed ==
  pc[Main] \in {"reap", "free", "done"} =>
    \A h \in Hosts : pc[h] = "exit" \/ (pc[h] = "none" /\ state[h] = "CANCELED")

\* With -S the exit value is zero exactly when no worker saw its connection or
\* its command fail and no host left a return code.
FailureReported ==
  (pc[Main] = "done" /\ opts.status) =>
    (code = 0 <=> \A h \in Hosts : result[h] = "DONE" /\ rc[h] = 0)

\* _fwd_signal never hands rcmd_signal a connection its worker has destroyed.
SignalsLiveConnection ==
  \A p \in Procs : (pc[p] = "forward" /\ fwd <= N /\ state[fwd] = "READING")
                      => rcmd[fwd] # "destroyed"

\* When _fwd_signal lets thd_mutex go, every host in DSH_READING was signalled.
SweepComplete ==
  [][(thdLock # Nobody /\ thdLock' = Nobody)
       => \A h \in Hosts : state[h] = "READING" => h \in sent]_vars

\* No worker is created for a host that a ^Z has canceled.
SkipsCanceled ==
  [][\A h \in Hosts : (pc[h] = "none" /\ pc'[h] = "start") => state[h] # "CANCELED"]_vars

\* A command closed its output and runs on: its worker, now in DSH_DONE, waits for
\* it in rcmd_destroy.  The watchdog looks at DSH_RCMD and DSH_READING only
\* (dsh.c:307), so that no limit ends the wait.
Detached(h) == /\ pc[h] = "destroy" /\ state[h] = "DONE"
               /\ opts.waits /\ alive[h] /\ ~alarm[h]

\* With both limits on dsh() returns or ends the process, or else a worker waits
\* for ever for a command that has closed its output (pipecmd.c:228).
Terminates ==
  \/ <>(pc[Main] = "done" \/ aborted)
  \/ \E h \in Hosts : <>[]Detached(h)

\* A command past the limit of -u does not keep its worker for ever, unless it has
\* closed its output; pdsh.1.in:178 makes no such exception.
CommandLimit ==
  \A h \in Hosts :
    ("command" \in late[h] /\ pc[h] \in {"poll", "handle", "finish", "destroy"})
      ~> (pc[h] \in {"die", "count", "exit"} \/ aborted \/ []Detached(h))

\* The watchdog enforces both limits: a connect past the limit of -t does not keep its worker for ever.
ConnectLimit ==
  \A h \in Hosts : ("connect" \in late[h] /\ pc[h] = "connect")
                      ~> (pc[h] # "connect" \/ aborted)
LimitsKept == ConnectLimit /\ CommandLimit

-----------------------------------------------------------------------------
(* The inductive invariant behind the safety properties above.              *)

\* Where each thread can be, and which of them hold threadcount_mutex.
LockPlace ==
  /\ tcLock = Main <=> pc[Main] \in {"skip", "create"} \cup DyingPcs
  /\ tcLock = Sig <=> pc[Sig] \in {"look", "mark"}
  /\ pc[Sig] = "mark" => cur[Sig] <= N
  /\ pc[Dog] = "test" => cur[Dog] <= N

\* The main thread's progress through the array.
SpawnPlace ==
  /\ pc[Main] = "create" => cur[Main] <= N /\ state[cur[Main]] # "CANCELED"
  /\ pc[Main] \in {"lock", "wait_room", "skip", "create"} =>
       \A h \in Hosts : /\ h >= cur[Main] => pc[h] = "none"
                        /\ h < cur[Main] => pc[h] # "none" \/ state[h] = "CANCELED"
  /\ pc[Main] \in {"drain", "wait_drain", "reap", "free", "done"} =>
       \A h \in Hosts : pc[h] # "none" \/ state[h] = "CANCELED"

\* What threadcount says, and what the main thread may conclude from it.
CountPlace ==
  /\ CountsWorkers
  /\ pc[Main] \in {"reap", "free", "done"} => threadcount = 0
  /\ woken => pc[Main] \in {"wait_room", "wait_drain"}
  /\ ~SpuriousWakeups =>
       /\ threadcount <= Fanout
       /\ pc[Main] \in {"skip", "create"} => threadcount < Fanout
       /\ pc[Main] = "wait_room" /\ woken => threadcount < Fanout

\* A connection is destroyed only after its host has left DSH_READING.
ConnPlace ==
  \A h \in Hosts :
    /\ pc[h] = "destroy" => state[h] # "READING"
    /\ rcmd[h] = "destroyed" => /\ pc[h] \in {"count", "exit"} \cup DyingPcs
                                /\ state[h] # "READING"

\* The holder of thd_mutex has signalled every DSH_READING host it has passed.
SweepPlace ==
  /\ \A p \in Procs : pc[p] = "forward" <=> thdLock = p
  /\ thdLock # Nobody => fwd >= 1
  /\ thdLock # Nobody =>
       \A h \in Hosts : h < fwd /\ state[h] = "READING" => h \in sent

\* Every worker's place, the lock owners and the counter agree, in every state.
IndInv == TypeOK /\ LockPlace /\ SpawnPlace /\ CountPlace /\ ConnPlace /\ SweepPlace

\* How a worker's result reaches the exit value, and the one way it can be lost:
\* ^Z's sweep, which needs two typed signals, writes over the state of a host.
ResultPlace ==
  /\ recent => typed >= 1
  /\ pc[Sig] \in {"cancel", "look", "mark"} => typed >= 2
  /\ \A h \in Hosts :
       /\ pc[h] = "none" => rc[h] = 0
       /\ state[h] = "FAILED" => result[h] = "FAILED"
       /\ result[h] = "FAILED" =>
            pc[h] \in {"finish", "destroy", "count", "exit"} \cup DyingPcs
       /\ result[h] = "FAILED" /\ pc[h] \in {"destroy", "count", "exit"} =>
            state[h] = "FAILED" \/ (state[h] = "CANCELED" /\ typed >= 2)

\* dsh()'s return value against the array it was computed from.
CodePlace ==
  pc[Main] \in {"free", "done"} /\ opts.status =>
    /\ code = 0 => \A h \in Hosts : rc[h] = 0 /\ state[h] # "FAILED"
    /\ code # 0 => \E h \in Hosts : rc[h] # 0 \/ result[h] = "FAILED"

ReportInv == ResultPlace /\ CodePlace

\* The sweep of a ^Z read the state of a host before its connection failed and
\* canceled it after its worker had left: dsh() counts it as canceled.
FailureCanceled ==
  \E h \in Hosts : /\ typed >= 2 /\ result[h] = "FAILED"
                   /\ pc[h] = "exit" /\ state[h] = "CANCELED"

-----------------------------------------------------------------------------
(* What the documentation says and the code does not do: a run finds it     *)
(* violated.                                                                *)

\* A canceled host stays canceled: ^Z cancels "any threads that have not started
\* or are still connecting" (dsh.c:949).
CanceledStays ==
  [][\A h \in Hosts : state[h] = "CANCELED" => state'[h] \notin {"RCMD", "READING"}]_vars
=============================================================================
