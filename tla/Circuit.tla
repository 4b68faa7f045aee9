------------------------------ MODULE Circuit ------------------------------
(***************************************************************************)
(* Setting up connections: the rcmd functions xrcmd, k4cmd and mcmd        *)
(* (src/src/modules), the threads of one command that run them, and the    *)
(* privileged process that binds reserved ports for all of them            *)
(* (src/src/pdsh/privsep.c). The commands of an interactive session are    *)
(* processes, one after the other, that share the socket to that process.  *)
(*                                                                         *)
(* A descriptor is a number in a table, so that using or closing another's *)
(* can be told. The remote daemons, the kernel and the watchdog (Dsh) are  *)
(* the environment: they decide how each call ends.                        *)
(***************************************************************************)
EXTENDS Integers, Sequences, FiniteSets

CONSTANTS
  Thread,      \* the worker threads of a command
  Setups,      \* what may have been asked for: proto, the rcmd function of each thread,
               \* and separate, whether there is a second connection for stderr; and
               \* inuse, a bound on how often connect finds an address in use
  Low, High,   \* the reserved ports, the last one asked for first
  Busy,        \* those of them other programs use
  Fd,          \* the descriptors the limit on open files allows
  MaxTimo,     \* xrcmd's last delay before it tries again (16 s)
  Commands     \* bound: the commands of the session

None == "none"
Free == [by |-> None, port |-> 0, asker |-> <<0, None>>]     \* no descriptor

ASSUME CircuitAssumption ==
  /\ None \notin Thread
  /\ Setups \subseteq [proto : [Thread -> {"rsh", "k4", "mrsh"}], separate : BOOLEAN, inuse : Nat]
  /\ Low \in Nat /\ High \in Nat /\ 1 < Low /\ Low < High /\ Busy \subseteq Low..High
  /\ Fd \subseteq Nat \ {0} /\ MaxTimo \in Nat \ {0} /\ Commands \in Nat \ {0}

VARIABLES
  setup,      \* the one of Setups
  th,         \* per thread: what it does next, and the locals of its rcmd function
  table,      \* the open descriptors: who opened it, for which request, on which port
  mutex,      \* the holder of privsep_mutex
  krb,        \* the holder of mylock in k4cmd
  requests, replies,   \* the two directions of the socket to the port server
  server,     \* "up" or "down"
  inuse,      \* how often connect has found the address in use
  command,    \* the number of the command
  stale,      \* history: a command ended in the middle of an exchange
  garbled     \* history: recv_rresvport returned without a message
vars == <<setup, th, table, mutex, krb, requests, replies, server, inuse, command, stale, garbled>>

Proto == setup.proto
Separate == setup.separate
Session == <<setup, requests, replies, server, command, stale>>

\* s, s2 and e are the descriptors of the connection, of the socket that waits for the
\* second one, and of the second one; 0 is none.
Fresh(t) == [pc |-> IF Proto[t] = "mrsh" THEN "start" ELSE "ask", ret |-> "s",
             lport |-> IF Proto[t] = "mrsh" THEN 0 ELSE High, timo |-> 1, s |-> 0, s2 |-> 0, e |-> 0]

Init ==
  /\ setup \in Setups /\ th = [t \in Thread |-> Fresh(t)] /\ table = [n \in Fd |-> Free]
  /\ mutex = None /\ krb = None /\ requests = <<>> /\ replies = <<>> /\ server = "up"
  /\ inuse = 0 /\ command = 1 /\ stale = FALSE /\ garbled = FALSE

----------------------------------------------------------------------------
Pc(t) == th[t].pc
Full == \A n \in Fd : table[n] # Free
Lowest(n) == table[n] = Free /\ \A k \in Fd : k < n => table[k] # Free

Opened(t, port, asker) == [by |-> t, port |-> port, asker |-> asker]
Close(S) == [n \in Fd |-> IF n \in S THEN Free ELSE table[n]]

Becomes(t, r) == th' = [th EXCEPT ![t] = r]
Goes(t, p) == Becomes(t, [th[t] EXCEPT !.pc = p])
NoFds(t) == [th[t] EXCEPT !.pc = "over", !.s = 0, !.s2 = 0, !.e = 0]

\* goto bad, and goto bad2: the second connection is closed if there is one to close.
Bad(t)  == Becomes(t, NoFds(t)) /\ table' = Close({th[t].s, th[t].s2})
Bad2(t) == /\ Becomes(t, NoFds(t))
           /\ table' = Close({th[t].s} \cup IF th[t].lport # 0 THEN {th[t].e} ELSE {})

Calm == UNCHANGED <<mutex, krb, Session, inuse, garbled>>

----------------------------------------------------------------------------
(* The port server. *)

Held == {replies[k].port : k \in DOMAIN replies} \cup
        {table[n].port : n \in {m \in Fd : table[m] # Free}}
\* rresvport: from the port asked for downwards, and from the last one again.
FreePorts == (Low..High) \ (Busy \cup Held)
From(p) == IF p < Low THEN Low ELSE IF p > High THEN High ELSE p
Distance(p, q) == IF q <= p THEN p - q ELSE p - q + (High - Low + 1)

Rresvport(p, q) == /\ q \in FreePorts
                   /\ \A r \in FreePorts : Distance(From(p), q) <= Distance(From(p), r)

\* privsep_server: one request after the other; -1 when all ports are in use.
Serve ==
  /\ server = "up" /\ requests # <<>> /\ requests' = Tail(requests)
  /\ LET r == Head(requests) IN
       \/ \E q \in Low..High : Rresvport(r.port, q) /\ replies' = Append(replies, [port |-> q, asker |-> r.asker])
       \/ FreePorts = {} /\ replies' = Append(replies, [port |-> -1, asker |-> r.asker])
  /\ UNCHANGED <<setup, th, table, mutex, krb, server, inuse, command, stale, garbled>>

\* A ^C is for every process of the foreground group: it ends the port server.
Interrupt ==
  /\ server = "up" /\ server' = "down" /\ requests' = <<>>
  /\ UNCHANGED <<setup, th, table, mutex, krb, replies, inuse, command, stale, garbled>>

----------------------------------------------------------------------------
(* privsep_rresvport, called for the first socket (ret = "s") or the second. *)

AsAsked(t, n, p) ==     \* mutant: lport is not what the server has found
  [th[t] EXCEPT !.pc = IF th[t].ret = "s" THEN "connect" ELSE "wait",
                !.s = IF th[t].ret = "s" THEN n ELSE @, !.s2 = IF th[t].ret = "s" THEN @ ELSE n]
\* What the caller does with a socket, or with 0 for -1.
Given(t, n, p) == [th[t] EXCEPT !.pc = IF th[t].ret = "s" THEN "connect" ELSE "wait",
                                !.lport = p, !.s = IF th[t].ret = "s" THEN n ELSE @,
                                !.s2 = IF th[t].ret = "s" THEN @ ELSE n]

Asker(t) == <<command, t>>

AskAnyway(t) == TRUE     \* mutant: privsep_mutex is not taken
Alone(t) == mutex = None
Ask(t) ==
  /\ Pc(t) = "ask" /\ Alone(t)
  /\ \/ /\ server = "up" /\ mutex' = t /\ Goes(t, "recv")
        /\ requests' = Append(requests, [port |-> th[t].lport, asker |-> Asker(t)]) /\ UNCHANGED table
     \/ server = "down" /\ Bad(t) /\ UNCHANGED <<mutex, requests>>
  /\ UNCHANGED <<setup, krb, replies, server, inuse, command, stale, garbled>>

\* The descriptor is that of the message, unless the limit on open files cut it off: then,
\* as when there is no message, it is what the stack holds. (Bound: a descriptor of
\* somebody's only once; then it is none that is open.)
Garbage(t, p) == \E n \in {0} \cup (IF garbled THEN {} ELSE Fd) :
  IF n = 0 THEN Bad(t) ELSE Becomes(t, Given(t, n, p)) /\ UNCHANGED table

Recv(t) ==
  /\ Pc(t) = "recv" /\ replies # <<>> /\ replies' = Tail(replies) /\ mutex' = None
  /\ LET r == Head(replies) IN
       \/ r.port = -1 /\ Bad(t) /\ UNCHANGED garbled
       \/ /\ r.port # -1 /\ UNCHANGED garbled
          /\ \E n \in Fd : /\ Lowest(n) /\ Becomes(t, Given(t, n, r.port))
                           /\ table' = [table EXCEPT ![n] = Opened(t, r.port, r.asker)]
       \/ r.port # -1 /\ Full /\ Garbage(t, r.port) /\ garbled' = TRUE
  /\ UNCHANGED <<setup, krb, requests, server, inuse, command, stale>>

\* Interrupted, or the server is gone; lport is as it was sent.
RecvNothing(t) ==
  /\ Pc(t) = "recv" /\ replies = <<>> /\ mutex' = None
  /\ Garbage(t, th[t].lport) /\ garbled' = TRUE
  /\ UNCHANGED <<krb, Session, inuse>>

----------------------------------------------------------------------------
(* The rcmd functions. *)

\* mcmd needs no reserved port; its own is for the second connection only.
BeginMrsh(t) ==
  /\ Pc(t) = "start" /\ Proto[t] = "mrsh" /\ Calm
  /\ \/ \E n \in Fd : /\ Lowest(n) /\ table' = [table EXCEPT ![n] = Opened(t, 0, Asker(t))]
                      /\ Becomes(t, [th[t] EXCEPT !.pc = "connect", !.s = n])
     \/ Full /\ Bad(t)

\* What is left to do once the connections stand: k4cmd authenticates. Sending the user
\* and the command is part of the wait for the answer, and may fail as that does.
Ready(t) == IF Proto[t] = "k4" THEN "send" ELSE "answer"

\* connect() succeeds, on an open descriptor only.
ConnectOk(t) ==
  /\ Pc(t) = "connect" /\ table[th[t].s] # Free /\ Calm
  /\ \/ ~Separate /\ Becomes(t, [th[t] EXCEPT !.pc = Ready(t), !.lport = 0]) /\ UNCHANGED table
     \/ /\ Separate /\ Proto[t] # "mrsh" /\ UNCHANGED table
        /\ Becomes(t, [th[t] EXCEPT !.pc = "ask", !.ret = "s2",
                                    !.lport = IF Proto[t] = "rsh" THEN @ - 1 ELSE @])
     \/ /\ Separate /\ Proto[t] = "mrsh" /\ Full /\ Bad(t)
     \/ /\ Separate /\ Proto[t] = "mrsh"
        /\ \E n \in Fd : /\ Lowest(n) /\ table' = [table EXCEPT ![n] = Opened(t, High + 1, Asker(t))]
                         /\ Becomes(t, [th[t] EXCEPT !.pc = "wait", !.s2 = n, !.lport = High + 1])

KeepOpen(t) == UNCHANGED table     \* mutant: the socket of the failed attempt stays open
CloseSock(t) == table' = Close({th[t].s})
Retry(t, r) == Becomes(t, [r EXCEPT !.pc = "ask", !.s = 0]) /\ CloseSock(t)

\* EADDRINUSE: the next port.
ConnectInUse(t) ==
  /\ Pc(t) = "connect" /\ Proto[t] # "mrsh" /\ inuse < setup.inuse /\ inuse' = inuse + 1
  /\ Retry(t, [th[t] EXCEPT !.lport = @ - 1]) /\ UNCHANGED <<mutex, krb, Session, garbled>>

MayRetry(t) == th[t].timo <= MaxTimo
\* ECONNREFUSED: xrcmd sleeps and tries again.
ConnectRefused(t) ==
  /\ Pc(t) = "connect" /\ Proto[t] = "rsh" /\ MayRetry(t)
  /\ Retry(t, [th[t] EXCEPT !.timo = 2 * @]) /\ Calm

ConnectFails(t) == Pc(t) = "connect" /\ Bad(t) /\ Calm

\* The daemon is told the port (or, by mcmd, gets a credential with it); then its own
\* connection arrives, and nothing on the first one. xrcmd wants it to come from a
\* reserved port.  That it is of another family than the socket it is accepted from, made
\* with AF_INET (mcmd.c:394), is not possible: mcmd.c:593-596 is never reached.
Accept(t) ==
  /\ Pc(t) = "wait" /\ table[th[t].s2] # Free /\ Calm
  /\ \/ (Full \/ Proto[t] = "rsh") /\ Bad(t)
     \/ \E n \in Fd :
          /\ Lowest(n)
          /\ table' = [table EXCEPT ![n] = Opened(t, 0, Asker(t)), ![th[t].s2] = Free]
          /\ Becomes(t, [th[t] EXCEPT !.pc = IF Proto[t] = "mrsh" THEN "verify" ELSE Ready(t),
                                      !.s2 = 0, !.e = n])
WaitFails(t) == Pc(t) = "wait" /\ Bad(t) /\ Calm

\* mcmd reads back the number it sent: fd_read_n and fd_read_line go on when they are
\* interrupted.
VerifyEnds(t) ==
  /\ Pc(t) = "verify" /\ Calm
  /\ (Goes(t, "answer") /\ UNCHANGED table) \/ Bad2(t)

\* Kerberos is for one thread at a time.
Lock(t) ==
  /\ Pc(t) = "send" /\ krb = None /\ krb' = t /\ Goes(t, "auth")
  /\ UNCHANGED <<table, mutex, Session, inuse, garbled>>
Authenticate(t) ==
  /\ Pc(t) = "auth" /\ krb' = None /\ Goes(t, "answer")
  /\ UNCHANGED <<table, mutex, Session, inuse, garbled>>
HoldKrb == UNCHANGED krb     \* mutant: the lock is not given back on failure
UnlockKrb == krb' = None
AuthFails(t) ==
  /\ Pc(t) = "auth" /\ UnlockKrb /\ Bad2(t) /\ UNCHANGED <<mutex, Session, inuse, garbled>>

\* One byte: 0, or the beginning of an error message.
AnswerOk(t)    == Pc(t) = "answer" /\ Goes(t, "up") /\ UNCHANGED table /\ Calm
AnswerError(t) == Pc(t) = "answer" /\ Goes(t, "message") /\ UNCHANGED table /\ Calm
AnswerFails(t) == Pc(t) = "answer" /\ Bad2(t) /\ Calm
MessageEnds(t) == Pc(t) = "message" /\ Bad2(t) /\ Calm

\* The engine reads both connections to the end and closes them.
Hangup(t) ==
  /\ Pc(t) = "up" /\ table' = Close({th[t].s, th[t].e}) /\ Calm
  /\ Becomes(t, [th[t] EXCEPT !.pc = "over", !.s = 0, !.e = 0])

\* SIGALRM from the watchdog: a blocking call fails with EINTR.
Alarm(t) ==
  \/ RecvNothing(t) \/ ConnectFails(t) \/ WaitFails(t) \/ AuthFails(t) \/ AnswerFails(t)
  \/ (Proto[t] # "mrsh" /\ MessageEnds(t))

----------------------------------------------------------------------------
\* The next command of the session: another process, with no descriptor or thread of this.
\* (Bound: not after a garbage descriptor.)
Returned(t) == Pc(t) = "over"
NewCommand ==
  /\ command < Commands /\ ~garbled /\ command' = command + 1
  /\ th' = [t \in Thread |-> Fresh(t)] /\ table' = [n \in Fd |-> Free] /\ mutex' = None /\ krb' = None
  /\ UNCHANGED <<setup, requests, replies, server, inuse, garbled>>
NextCommand == (\A t \in Thread : Returned(t)) /\ NewCommand /\ UNCHANGED stale
\* With -k, or by a signal, a command may end at any time.
Killed == (\E t \in Thread : ~Returned(t)) /\ NewCommand /\ stale' = (stale \/ mutex # None)

Daemon(t) ==
  \/ ConnectOk(t) \/ ConnectInUse(t) \/ ConnectRefused(t) \/ ConnectFails(t) \/ Accept(t)
  \/ WaitFails(t) \/ VerifyEnds(t) \/ Authenticate(t) \/ AuthFails(t) \/ AnswerOk(t)
  \/ AnswerError(t) \/ AnswerFails(t) \/ MessageEnds(t) \/ Hangup(t)
Step(t) ==
  BeginMrsh(t) \/ Ask(t) \/ Recv(t) \/ Lock(t)

Next ==
  \/ Serve \/ Interrupt \/ NextCommand \/ Killed
  \/ \E t \in Thread : Step(t) \/ RecvNothing(t) \/ Daemon(t)

\* The threads and the port server run, and with -t the watchdog interrupts what blocks.
\* Nothing is promised of the daemons.
Fairness == WF_vars(Serve) /\ \A t \in Thread : WF_vars(Step(t)) /\ WF_vars(Alarm(t))
Spec == Init /\ [][Next]_vars /\ Fairness

----------------------------------------------------------------------------
Message == [port : (Low..High) \cup {-1}, asker : (1..Commands) \X Thread]
Pcs == {"start", "ask", "recv", "connect", "wait", "verify", "send", "auth", "answer", "message",
        "up", "over"}
TypeOK ==
  /\ th \in [Thread -> [pc : Pcs, ret : {"s", "s2"}, lport : Int, timo : 1..2 * MaxTimo,
                        s : Fd \cup {0}, s2 : Fd \cup {0}, e : Fd \cup {0}]]
  /\ table \in [Fd -> {Free} \cup [by : Thread, port : Nat, asker : (1..Commands) \X Thread]]
  /\ mutex \in Thread \cup {None} /\ krb \in Thread \cup {None}
  /\ requests \in Seq([port : Int, asker : (1..Commands) \X Thread]) /\ replies \in Seq(Message)
  /\ setup \in Setups /\ server \in {"up", "down"} /\ inuse \in 0..setup.inuse /\ command \in 1..Commands
  /\ stale \in BOOLEAN /\ garbled \in BOOLEAN

Holds(t) == {th[t].s, th[t].s2, th[t].e} \ {0}

\* Whatever way a connection attempt ends, every descriptor it opened is closed, and each
\* that is open is known to the thread that opened it.
NoLeak == \A n \in Fd : table[n] # Free => n \in Holds(table[n].by)
\* A thread works on its own descriptors only - unless recv_rresvport has returned what
\* happened to be on the stack.
OwnDescriptors == garbled \/ \A t \in Thread : \A n \in Holds(t) : table[n] # Free /\ table[n].by = t
\* Open descriptors and the threads' variables agree.
DescriptorsKept == TypeOK /\ NoLeak /\ OwnDescriptors

\* The threads share one socket to the port server: each gets the reply to its own request,
\* unless a command has left a request behind unanswered.
OwnReply == garbled \/ stale \/ \A n \in Fd : table[n] # Free => table[n].asker = Asker(table[n].by)

\* The daemon is told the port on which the thread waits for it, even after replies have
\* got out of step.
ToldPort == garbled \/ \A t \in Thread : Pc(t) = "wait" => table[th[t].s2].port = th[t].lport

\* With a connect timeout, every attempt by rsh or k4 ends, whatever the daemon does and
\* even without a port server.
AttemptsEnd == \A t \in Thread : Proto[t] # "mrsh" /\ Pc(t) = "ask" ~> Pc(t) \in {"up", "over"}

=============================================================================
