--------------------------- MODULE CircuitProofs ---------------------------
(***************************************************************************)
(* Proofs about the set-up of connections (Circuit): for any number of     *)
(* threads, descriptors, ports and commands, no descriptor is lost, each   *)
(* thread works on its own, gets the reply to its own request and tells    *)
(* the daemon the port it waits on.                                        *)
(***************************************************************************)
EXTENDS Circuit, TLAPS

\* Which descriptors a thread has at each place, and that the port is set where the
\* second connection is closed by it (goto bad2).
Shape(r) ==
  /\ r.pc = "start" => r.ret = "s"
  /\ r.pc \in {"start", "ask", "recv"} /\ r.ret = "s" => r.s = 0
  /\ r.pc \in {"start", "ask", "recv", "connect"} => r.s2 = 0 /\ r.e = 0
  /\ r.pc = "connect" => r.ret = "s"
  /\ r.pc = "wait" => r.e = 0 /\ r.s2 # 0 /\ r.lport # 0
  /\ r.pc \in {"verify", "send", "auth", "answer", "message", "up"} =>
       r.s2 = 0 /\ (r.lport = 0 => r.e = 0)
  /\ r.pc = "over" => r.s = 0 /\ r.s2 = 0 /\ r.e = 0

\* mcmd asks for no port; the ports that are asked for stay above zero as long as the
\* server answers.
Asks(t, r) ==
  /\ r.pc \in {"ask", "recv"} => Proto[t] # "mrsh"
  /\ \/ garbled
     \/ /\ r.pc \in {"ask", "recv"} => r.lport > 0
        /\ r.pc = "connect" /\ Proto[t] # "mrsh" => r.lport > 1

Shapes == \A t \in Thread : Shape(th[t]) /\ Asks(t, th[t])

\* No thread has one descriptor in two variables.
Apart == garbled \/ \A t \in Thread : th[t].s = th[t].s2 => th[t].s = 0

\* One exchange at a time: privsep_mutex is held by the thread that waits for a reply,
\* and what is on the socket is its request or the reply to it.
Waiting == \A t \in Thread : Pc(t) = "recv" <=> mutex = t
Exchange ==
  garbled \/ stale \/
    /\ requests = <<>> \/ (replies = <<>> /\ Len(requests) = 1)
    /\ Len(replies) <= 1
    /\ requests # <<>> => mutex # None /\ requests[1].asker = Asker(mutex)
    /\ replies # <<>> => mutex # None /\ replies[1].asker = Asker(mutex)

Kept == NoLeak /\ OwnDescriptors /\ Apart /\ OwnReply /\ ToldPort
IInv == TypeOK /\ Shapes /\ Kept /\ Waiting /\ Exchange

-----------------------------------------------------------------------------
(* Types.                                                                   *)

Record == [pc : Pcs, ret : {"s", "s2"}, lport : Int, timo : 1..2 * MaxTimo,
           s : Fd \cup {0}, s2 : Fd \cup {0}, e : Fd \cup {0}]
Entry == {Free} \cup [by : Thread, port : Nat, asker : (1..Commands) \X Thread]

LEMMA Types ==
  ASSUME TypeOK
  PROVE  /\ th \in [Thread -> Record] /\ table \in [Fd -> Entry]
         /\ command \in 1..Commands /\ setup \in Setups
         /\ setup.proto \in [Thread -> {"rsh", "k4", "mrsh"}]
         /\ setup.inuse \in Nat
BY CircuitAssumption DEF TypeOK, Record, Entry

HoldsOf(r) == {r.s, r.s2, r.e} \ {0}

\* The table after a step that closes S and opens n (no descriptor if n is 0) as d.
Turned(S, n, d) == [m \in Fd |-> IF m = n THEN d ELSE IF m \in S THEN Free ELSE table[m]]

LEMMA OpenedTyped ==
  ASSUME TypeOK, NEW t \in Thread, NEW port \in Nat, NEW a \in (1..Commands) \X Thread
  PROVE  /\ Opened(t, port, a) \in Entry /\ Opened(t, port, a) # Free
         /\ Opened(t, port, a).by = t /\ Opened(t, port, a).port = port
         /\ Opened(t, port, a).asker = a
<1>1. Opened(t, port, a).by # Free.by
  BY CircuitAssumption DEF Opened, Free
<1>. QED
  BY <1>1, Types DEF Opened, Entry

LEMMA AskerTyped ==
  ASSUME TypeOK, NEW t \in Thread
  PROVE  Asker(t) \in (1..Commands) \X Thread
BY Types DEF Asker

-----------------------------------------------------------------------------
(* A step of one thread on the table: it closes some of its own descriptors and opens *)
(* one that is free.                                                                  *)

LEMMA TableKept ==
  ASSUME TypeOK, Shapes, Kept,
         NEW t \in Thread, NEW r \in Record, Becomes(t, r), UNCHANGED <<setup, command>>,
         garbled => garbled', stale => stale',
         NEW S \in SUBSET (Holds(t) \cup {0}), NEW n \in Fd \cup {0}, NEW port \in Nat,
         NEW a \in (1..Commands) \X Thread,
         table' = Turned(S, n, Opened(t, port, a)),
         n # 0 => table[n] = Free /\ n \notin S,
         (Holds(t) \ S) \cup ({n} \ {0}) \subseteq HoldsOf(r),
         garbled \/ HoldsOf(r) = (Holds(t) \ S) \cup ({n} \ {0}),
         garbled \/ stale \/ n = 0 \/ a = Asker(t),
         r.pc = "wait" => n # 0 /\ r.s2 = n /\ r.lport = port,
         garbled \/ (r.s = r.s2 => r.s = 0)
  PROVE  Kept'
<1>1. /\ th \in [Thread -> Record] /\ table \in [Fd -> Entry]
      /\ th' \in [Thread -> Record] /\ th'[t] = r
      /\ \A u \in Thread \ {t} : th'[u] = th[u]
  BY Types DEF Becomes
<1>2. 0 \notin Fd
  BY CircuitAssumption
<1>3. /\ Holds(t)' = HoldsOf(r) /\ Holds(t) = HoldsOf(th[t])
      /\ \A u \in Thread \ {t} : Holds(u)' = Holds(u)
      /\ \A u \in Thread : Holds(u) \subseteq Fd
  BY <1>1 DEF Holds, HoldsOf, Record
<1>4. /\ Opened(t, port, a) # Free /\ Opened(t, port, a).by = t
      /\ Opened(t, port, a).port = port /\ Opened(t, port, a).asker = a
  BY OpenedTyped
<1>5. \A m \in Fd : table'[m] = IF m = n THEN Opened(t, port, a)
                                ELSE IF m \in S THEN Free ELSE table[m]
  BY DEF Turned
<1>6. \A m \in Fd : table[m] # Free => table[m].by \in Thread
  BY <1>1 DEF Entry
<1>7. NoLeak'
  <2> SUFFICES ASSUME NEW m \in Fd, table'[m] # Free
               PROVE  m \in HoldsOf(th'[table'[m].by])
    BY DEF NoLeak, Holds, HoldsOf
  <2>1. CASE m = n
    BY <2>1, <1>1, <1>2, <1>4, <1>5
  <2>2. CASE m # n
    <3>1. table'[m] = table[m] /\ m \notin S /\ table[m] # Free
      BY <2>2, <1>5
    <3>2. m \in HoldsOf(th[table[m].by]) /\ table[m].by \in Thread
      BY <3>1, <1>6 DEF Kept, NoLeak, Holds, HoldsOf
    <3>3. CASE table[m].by = t
      BY <3>1, <3>2, <3>3, <1>1, <1>3
    <3>4. CASE table[m].by # t
      BY <3>1, <3>2, <3>4, <1>1
    <3>. QED
      BY <3>3, <3>4
  <2>. QED
    BY <2>1, <2>2
<1>8. ASSUME ~garbled', NEW u \in Thread \ {t}, NEW m \in Holds(u)
      PROVE  table'[m] = table[m] /\ table[m] # Free /\ table[m].by = u /\ m \in Fd
  <2>1. m \in Fd /\ m # 0 /\ table[m] # Free /\ table[m].by = u
    BY <1>2, <1>3, <1>8 DEF Kept, OwnDescriptors
  <2>2. m \notin Holds(t)
    BY <1>8, <2>1 DEF Kept, OwnDescriptors
  <2>. QED
    BY <2>1, <2>2, <1>5
<1>9. OwnDescriptors'
  <2> SUFFICES ASSUME ~garbled', NEW u \in Thread, NEW m \in Holds(u)'
               PROVE  table'[m] # Free /\ table'[m].by = u
    BY DEF OwnDescriptors
  <2>1. CASE u # t
    BY <2>1, <1>3, <1>8
  <2>2. CASE u = t /\ m = n
    BY <2>2, <1>2, <1>3, <1>4, <1>5
  <2>3. CASE u = t /\ m # n
    <3>1. m \in Holds(t) /\ m \notin S
      BY <2>3, <1>3
    <3>2. m \in Fd /\ table[m] # Free /\ table[m].by = t
      BY <3>1, <1>3 DEF Kept, OwnDescriptors
    <3>. QED
      BY <2>3, <3>1, <3>2, <1>5
  <2>. QED
    BY <2>1, <2>2, <2>3
<1>10. Apart'
  BY <1>1 DEF Apart, Kept
<1>11. OwnReply'
  <2> SUFFICES ASSUME ~garbled', ~stale', NEW m \in Fd, table'[m] # Free
               PROVE  table'[m].asker = Asker(table'[m].by)
    BY DEF OwnReply, Asker
  <2>1. CASE m = n
    BY <2>1, <1>2, <1>4, <1>5
  <2>2. CASE m # n
    BY <2>2, <1>5 DEF Kept, OwnReply
  <2>. QED
    BY <2>1, <2>2
<1>12. ToldPort'
  <2> SUFFICES ASSUME ~garbled', NEW u \in Thread, th'[u].pc = "wait"
               PROVE  table'[th'[u].s2].port = th'[u].lport
    BY DEF ToldPort, Pc
  <2>1. CASE u = t
    <3>1. n \in Fd /\ r.s2 = n /\ r.lport = port
      BY <2>1, <1>1
    <3>. QED
      BY <2>1, <3>1, <1>1, <1>4, <1>5
  <2>2. CASE u # t
    <3>1. th'[u] = th[u] /\ th[u].s2 # 0
      BY <2>2, <1>1 DEF Shapes, Shape
    <3>2. th[u].s2 \in Holds(u)
      BY <3>1 DEF Holds
    <3>3. table'[th[u].s2] = table[th[u].s2]
      BY <2>2, <3>2, <1>8
    <3>. QED
      BY <3>1, <3>3 DEF Kept, ToldPort, Pc
  <2>. QED
    BY <2>1, <2>2
<1>. QED
  BY <1>7, <1>9, <1>10, <1>11, <1>12 DEF Kept

-----------------------------------------------------------------------------
(* The steps of a thread that leave the socket to the port server alone.    *)

\* The step of a thread that neither begins nor ends an exchange, and breaks nothing
\* as far as the thread itself is concerned.
Idle(t, r) ==
  /\ Becomes(t, r) /\ UNCHANGED <<setup, command, mutex, requests, replies, stale, garbled, server>>
  /\ krb' \in Thread \cup {None} /\ inuse' \in 0..setup.inuse
  /\ Pc(t) # "recv" /\ r.pc # "recv" /\ Shape(r) /\ Asks(t, r)

LEMMA IdleKept ==
  ASSUME IInv, NEW t \in Thread, NEW r \in Record, Idle(t, r),
         table' \in [Fd -> Entry], Kept'
  PROVE  IInv'
<1>1. th' = [th EXCEPT ![t] = r] /\ th \in [Thread -> Record] /\ th' \in [Thread -> Record]
  BY Types DEF Idle, Becomes, IInv
<1>2. TypeOK'
  BY <1>1 DEF Idle, IInv, TypeOK, Record, Entry
<1>3. Shapes'
  BY <1>1 DEF Idle, IInv, Shapes, Asks, Proto
<1>4. Waiting'
  BY <1>1 DEF Idle, IInv, Waiting, Pc
<1>5. Exchange'
  BY DEF Idle, IInv, Exchange, Asker
<1>. QED
  BY <1>2, <1>3, <1>4, <1>5 DEF IInv

\* A step that opens no descriptor.
LEMMA ClosesKept ==
  ASSUME IInv, NEW t \in Thread, NEW r \in Record, Idle(t, r),
         NEW S \in SUBSET (Holds(t) \cup {0}), table' = Close(S),
         HoldsOf(r) = Holds(t) \ S, r.pc # "wait",
         garbled \/ (r.s = r.s2 => r.s = 0)
  PROVE  IInv'
<1>1. TypeOK /\ Shapes /\ Kept
  BY DEF IInv
<1>2. PICK a : a \in (1..Commands) \X Thread
  BY <1>1, AskerTyped
<1>3. 0 \in Nat /\ 0 \notin Fd
  BY CircuitAssumption
<1>4. table' = Turned(S, 0, Opened(t, 0, a))
  BY <1>3 DEF Turned, Close
<1>5. table' \in [Fd -> Entry]
  BY <1>1, Types DEF Close, Entry
<1>6. HoldsOf(r) = (Holds(t) \ S) \cup ({0} \ {0})
  OBVIOUS
<1>7. Kept'
  BY <1>1, <1>2, <1>3, <1>4, <1>6, TableKept DEF Idle
<1>. QED
  BY <1>5, <1>7, IdleKept

\* A step that changes nothing in the table.
LEMMA StaysKept ==
  ASSUME IInv, NEW t \in Thread, NEW r \in Record, Idle(t, r), UNCHANGED table,
         r.s = th[t].s, r.s2 = th[t].s2, r.e = th[t].e, r.pc # "wait"
  PROVE  IInv'
<1>1. table' = Close({})
  BY Types DEF IInv, Close
<1>2. HoldsOf(r) = Holds(t) \ {}
  BY DEF HoldsOf, Holds
<1>3. garbled \/ (r.s = r.s2 => r.s = 0)
  BY DEF IInv, Kept, Apart
<1>. QED
  BY <1>1, <1>2, <1>3, ClosesKept

\* A step that opens one, and closes S.
LEMMA OpensKept ==
  ASSUME IInv, NEW t \in Thread, NEW r \in Record, Idle(t, r),
         NEW S \in SUBSET Holds(t), NEW n \in Fd, n \notin S, table[n] = Free,
         NEW port \in Nat, table' = Turned(S, n, Opened(t, port, Asker(t))),
         (Holds(t) \ S) \cup {n} \subseteq HoldsOf(r),
         garbled \/ HoldsOf(r) = (Holds(t) \ S) \cup {n},
         r.pc = "wait" => r.s2 = n /\ r.lport = port,
         garbled \/ (r.s = r.s2 => r.s = 0)
  PROVE  IInv'
<1>1. TypeOK /\ Shapes /\ Kept
  BY DEF IInv
<1>2. Asker(t) \in (1..Commands) \X Thread
  BY <1>1, AskerTyped
<1>3. 0 \notin Fd
  BY CircuitAssumption
<1>4. Opened(t, port, Asker(t)) \in Entry
  BY <1>1, <1>2, OpenedTyped
<1>5. table' \in [Fd -> Entry]
  BY <1>1, <1>4, Types DEF Turned, Entry
<1>6. {n} = {n} \ {0} /\ n # 0
  BY <1>3
<1>7. Kept'
  <2>1. UNCHANGED <<setup, command>> /\ Becomes(t, r) /\ (garbled => garbled') /\ (stale => stale')
    BY DEF Idle
  <2>. QED
    BY <1>1, <1>2, <1>6, <2>1, TableKept
<1>. QED
  BY <1>5, <1>7, IdleKept

LEMMA NoFdsTyped ==
  ASSUME TypeOK, NEW t \in Thread
  PROVE  /\ NoFds(t) \in Record /\ NoFds(t).pc = "over"
         /\ NoFds(t).s = 0 /\ NoFds(t).s2 = 0 /\ NoFds(t).e = 0 /\ HoldsOf(NoFds(t)) = {}
<1>1. th[t] \in Record
  BY Types
<1>2. NoFds(t) \in Record
  BY <1>1 DEF NoFds, Record, Pcs
<1>3. NoFds(t).pc = "over" /\ NoFds(t).s = 0 /\ NoFds(t).s2 = 0 /\ NoFds(t).e = 0
  BY <1>1 DEF NoFds, Record
<1>. QED
  BY <1>2, <1>3 DEF HoldsOf

\* goto bad and goto bad2: all that the thread has is closed.
LEMMA BadKept ==
  ASSUME IInv, NEW t \in Thread, Bad(t), Pc(t) \in {"start", "connect", "wait"},
         Idle(t, NoFds(t))
  PROVE  IInv'
<1>1. NoFds(t) \in Record /\ NoFds(t).pc = "over" /\ NoFds(t).s = 0 /\ HoldsOf(NoFds(t)) = {}
  BY NoFdsTyped DEF IInv
<1>2. th[t].e = 0
  BY DEF IInv, Shapes, Shape, Pc
<1>3. Holds(t) \ {th[t].s, th[t].s2} = {} /\ {th[t].s, th[t].s2} \in SUBSET (Holds(t) \cup {0})
  BY <1>2 DEF Holds
<1>. QED
  BY <1>1, <1>3, ClosesKept DEF Bad

LEMMA Bad2Kept ==
  ASSUME IInv, NEW t \in Thread, Bad2(t), Pc(t) \in {"verify", "auth", "answer", "message"},
         Idle(t, NoFds(t))
  PROVE  IInv'
<1> DEFINE S == {th[t].s} \cup IF th[t].lport # 0 THEN {th[t].e} ELSE {}
<1>1. NoFds(t) \in Record /\ NoFds(t).pc = "over" /\ NoFds(t).s = 0 /\ HoldsOf(NoFds(t)) = {}
  BY NoFdsTyped DEF IInv
<1>2. th[t].s2 = 0 /\ (th[t].lport = 0 => th[t].e = 0)
  BY DEF IInv, Shapes, Shape, Pc
<1>3. Holds(t) \ S = {} /\ S \in SUBSET (Holds(t) \cup {0})
  BY <1>2 DEF Holds
<1>4. table' = Close(S)
  BY DEF Bad2
<1>. QED
  BY <1>1, <1>3, <1>4, ClosesKept

LEMMA OverIdle ==
  ASSUME IInv, NEW t \in Thread, Bad(t) \/ Bad2(t), Pc(t) # "recv",
         UNCHANGED <<setup, command, mutex, requests, replies, stale, garbled, server>>,
         krb' \in Thread \cup {None}, inuse' = inuse
  PROVE  Idle(t, NoFds(t))
<1>1. th[t] \in Record /\ inuse \in 0..setup.inuse
  BY Types DEF IInv, TypeOK
<1>2. /\ NoFds(t).pc = "over" /\ NoFds(t).s = 0 /\ NoFds(t).s2 = 0 /\ NoFds(t).e = 0
  BY NoFdsTyped DEF IInv
<1>3. Shape(NoFds(t)) /\ Asks(t, NoFds(t))
  BY <1>2 DEF Shape, Asks
<1>. QED
  BY <1>1, <1>2, <1>3 DEF Idle, Bad, Bad2

\* What is fixed by a step that leaves the socket and the locks alone.
LEMMA CalmSteps ==
  ASSUME IInv, Calm
  PROVE  /\ UNCHANGED <<setup, command, mutex, requests, replies, stale, garbled, server>>
         /\ krb' \in Thread \cup {None} /\ inuse' = inuse /\ inuse' \in 0..setup.inuse
BY DEF Calm, Session, IInv, TypeOK

LEMMA BeginMrshKept ==
  ASSUME IInv, NEW t \in Thread, BeginMrsh(t)
  PROVE  IInv'
<1>1. Pc(t) = "start" /\ Proto[t] = "mrsh" /\ Calm /\ th[t] \in Record /\ Shape(th[t])
  BY Types DEF BeginMrsh, IInv, Shapes
<1>2. CASE Full /\ Bad(t)
  <2>1. Idle(t, NoFds(t))
    BY <1>1, <1>2, CalmSteps, OverIdle
  <2>. QED
    BY <1>1, <1>2, <2>1, BadKept
<1>3. ASSUME NEW n \in Fd, Lowest(n), table' = [table EXCEPT ![n] = Opened(t, 0, Asker(t))],
             Becomes(t, [th[t] EXCEPT !.pc = "connect", !.s = n])
      PROVE  IInv'
  <2> DEFINE r == [th[t] EXCEPT !.pc = "connect", !.s = n]
  <2>1. /\ r \in Record /\ r.pc = "connect" /\ r.s = n /\ r.s2 = 0 /\ r.e = 0 /\ r.ret = "s"
        /\ Holds(t) = {}
    BY <1>1 DEF Record, Pcs, Shape, Pc, Holds
  <2>2. n # 0 /\ 0 \in Nat
    BY CircuitAssumption
  <2>3. Idle(t, r)
    BY <1>1, <1>3, <2>1, <2>2, CalmSteps DEF Idle, Shape, Asks
  <2>4. table' = Turned({}, n, Opened(t, 0, Asker(t)))
    BY <1>3, Types DEF IInv, Turned
  <2>5. HoldsOf(r) = (Holds(t) \ {}) \cup {n}
    BY <2>1, <2>2 DEF HoldsOf
  <2>6. table[n] = Free
    BY <1>3 DEF Lowest
  <2>. HIDE DEF r
  <2>. QED
    BY <2>1, <2>2, <2>3, <2>4, <2>5, <2>6, OpensKept
<1>. QED
  BY <1>2, <1>3 DEF BeginMrsh

\* A thread's record with another place and port.
WithPort(q, p, k, l) == [q EXCEPT !.pc = p, !.ret = k, !.lport = l]
WithPlace(q, p, l) == [q EXCEPT !.pc = p, !.lport = l]
Again(q, l) == [[q EXCEPT !.lport = l] EXCEPT !.pc = "ask", !.s = 0]

LEMMA WithPortTyped ==
  ASSUME NEW q \in Record, NEW p \in Pcs, NEW k \in {"s", "s2"}, NEW l \in Int
  PROVE  /\ WithPort(q, p, k, l) \in Record
         /\ WithPort(q, p, k, l).pc = p /\ WithPort(q, p, k, l).ret = k
         /\ WithPort(q, p, k, l).lport = l /\ WithPort(q, p, k, l).s = q.s
         /\ WithPort(q, p, k, l).s2 = q.s2 /\ WithPort(q, p, k, l).e = q.e
BY DEF Record, WithPort

LEMMA WithPlaceTyped ==
  ASSUME NEW q \in Record, NEW p \in Pcs, NEW l \in Int
  PROVE  /\ WithPlace(q, p, l) \in Record
         /\ WithPlace(q, p, l).pc = p /\ WithPlace(q, p, l).lport = l
         /\ WithPlace(q, p, l).s = q.s /\ WithPlace(q, p, l).s2 = q.s2
         /\ WithPlace(q, p, l).e = q.e
BY DEF Record, WithPlace

LEMMA AgainTyped ==
  ASSUME NEW q \in Record, NEW l \in Int
  PROVE  /\ Again(q, l) \in Record
         /\ Again(q, l).pc = "ask" /\ Again(q, l).lport = l /\ Again(q, l).ret = q.ret
         /\ Again(q, l).s = 0 /\ Again(q, l).s2 = q.s2 /\ Again(q, l).e = q.e
BY DEF Record, Again, Pcs

LEMMA ConnectOkKept ==
  ASSUME IInv, NEW t \in Thread, ConnectOk(t)
  PROVE  IInv'
<1>1. /\ Pc(t) = "connect" /\ Calm /\ th[t] \in Record /\ Shape(th[t]) /\ Asks(t, th[t])
      /\ th[t].pc = "connect" /\ th[t].s2 = 0 /\ th[t].e = 0
      /\ Proto[t] \in {"rsh", "k4", "mrsh"}
  BY Types DEF ConnectOk, IInv, Shapes, Shape, Pc, Proto
<1>2. CASE /\ ~Separate /\ UNCHANGED table
           /\ Becomes(t, [th[t] EXCEPT !.pc = Ready(t), !.lport = 0])
  <2> DEFINE r == WithPlace(th[t], Ready(t), 0)
  <2>0. Becomes(t, r)
    BY <1>2 DEF WithPlace
  <2>1. /\ r \in Record /\ r.pc \in {"send", "answer"} /\ r.lport = 0
        /\ r.s = th[t].s /\ r.s2 = 0 /\ r.e = 0
    <3>1. Ready(t) \in {"send", "answer"} /\ Ready(t) \in Pcs
      BY DEF Ready, Pcs
    <3>2. 0 \in Int
      OBVIOUS
    <3>. QED
      BY <1>1, <3>1, <3>2, WithPlaceTyped
  <2>2. Idle(t, r)
    BY <1>1, <2>0, <2>1, CalmSteps DEF Idle, Shape, Asks
  <2>. HIDE DEF r
  <2>. QED
    BY <1>1, <1>2, <2>1, <2>2, StaysKept
<1>3. CASE /\ Separate /\ Proto[t] # "mrsh" /\ UNCHANGED table
           /\ Becomes(t, [th[t] EXCEPT !.pc = "ask", !.ret = "s2",
                                       !.lport = IF Proto[t] = "rsh" THEN @ - 1 ELSE @])
  <2> DEFINE l == IF Proto[t] = "rsh" THEN th[t].lport - 1 ELSE th[t].lport
             r == WithPort(th[t], "ask", "s2", l)
  <2>0. Becomes(t, r)
    BY <1>3 DEF WithPort
  <2>1. /\ r \in Record /\ r.pc = "ask" /\ r.ret = "s2" /\ r.lport >= th[t].lport - 1
        /\ r.s = th[t].s /\ r.s2 = 0 /\ r.e = 0 /\ r.lport \in Int /\ th[t].lport \in Int
    <3>1. th[t].lport \in Int
      BY <1>1 DEF Record
    <3>2. l \in Int /\ l >= th[t].lport - 1
      BY <3>1
    <3>3. "ask" \in Pcs /\ "s2" \in {"s", "s2"} /\ th[t] \in Record
      BY <1>1 DEF Pcs
    <3>. HIDE DEF l
    <3>4. /\ r \in Record /\ r.pc = "ask" /\ r.ret = "s2" /\ r.lport = l
          /\ r.s = th[t].s /\ r.s2 = th[t].s2 /\ r.e = th[t].e
      BY <3>2, <3>3, WithPortTyped
    <3>. QED
      BY <1>1, <3>1, <3>2, <3>4
  <2>. HIDE DEF r
  <2>2. Asks(t, r)
    BY <1>1, <1>3, <2>1 DEF Asks
  <2>3. Idle(t, r)
    BY <1>1, <2>0, <2>1, <2>2, CalmSteps DEF Idle, Shape
  <2>. HIDE DEF r
  <2>. QED
    BY <1>1, <1>3, <2>1, <2>3, StaysKept
<1>4. CASE Full /\ Bad(t)
  <2>1. Idle(t, NoFds(t))
    BY <1>1, <1>4, CalmSteps, OverIdle
  <2>. QED
    BY <1>1, <1>4, <2>1, BadKept
<1>5. ASSUME NEW n \in Fd, Lowest(n), Proto[t] = "mrsh", table[th[t].s] # Free,
             table' = [table EXCEPT ![n] = Opened(t, High + 1, Asker(t))],
             Becomes(t, [th[t] EXCEPT !.pc = "wait", !.s2 = n, !.lport = High + 1])
      PROVE  IInv'
  <2> DEFINE r == [th[t] EXCEPT !.pc = "wait", !.s2 = n, !.lport = High + 1]
  <2>1. n # 0 /\ High + 1 \in Nat /\ High + 1 \in Int /\ High + 1 # 0
    BY CircuitAssumption
  <2>2. /\ r \in Record /\ r.pc = "wait" /\ r.s = th[t].s /\ r.s2 = n /\ r.e = 0
        /\ r.lport = High + 1
    BY <1>1, <2>1 DEF Record, Pcs
  <2>3. Idle(t, r)
    BY <1>1, <1>5, <2>1, <2>2, CalmSteps DEF Idle, Shape, Asks
  <2>4. table' = Turned({}, n, Opened(t, High + 1, Asker(t)))
    BY <1>5, Types DEF IInv, Turned
  <2>5. HoldsOf(r) = (Holds(t) \ {}) \cup {n}
    BY <1>1, <2>1, <2>2 DEF HoldsOf, Holds
  <2>6. table[n] = Free /\ r.s # n
    BY <1>5, <2>2 DEF Lowest
  <2>. HIDE DEF r
  <2>. QED
    BY <2>1, <2>2, <2>3, <2>4, <2>5, <2>6, OpensKept
<1>. QED
  BY <1>1, <1>2, <1>3, <1>4, <1>5 DEF ConnectOk

LEMMA RetryKept ==
  ASSUME IInv, NEW t \in Thread, ConnectInUse(t) \/ ConnectRefused(t)
  PROVE  IInv'
<1>1. /\ Pc(t) = "connect" /\ th[t] \in Record /\ Shape(th[t]) /\ Asks(t, th[t])
      /\ th[t].pc = "connect" /\ th[t].s2 = 0 /\ th[t].e = 0 /\ th[t].ret = "s"
      /\ th[t].lport \in Int /\ th[t].timo \in 1..2 * MaxTimo /\ Proto[t] # "mrsh"
      /\ MaxTimo \in Nat /\ setup.inuse \in Nat /\ inuse \in 0..setup.inuse
      /\ krb \in Thread \cup {None}
  BY Types, CircuitAssumption
  DEF ConnectInUse, ConnectRefused, IInv, Shapes, Shape, Pc, Record, TypeOK
<1>2. PICK r : /\ r \in Record /\ r.pc = "ask" /\ r.s = 0 /\ r.s2 = 0 /\ r.e = 0 /\ r.ret = "s"
               /\ r.lport >= th[t].lport - 1 /\ r.lport \in Int
               /\ Becomes(t, r) /\ CloseSock(t)
               /\ UNCHANGED <<setup, command, mutex, requests, replies, stale, garbled, server, krb>>
               /\ inuse' \in 0..setup.inuse
  <2>1. CASE ConnectInUse(t)
    <3> DEFINE l == th[t].lport - 1
               r == Again(th[t], l)
    <3>1. /\ r \in Record /\ r.pc = "ask" /\ r.s = 0 /\ r.s2 = 0 /\ r.e = 0 /\ r.ret = "s"
          /\ r.lport = th[t].lport - 1
      <4>1. l \in Int
        BY <1>1
      <4>. HIDE DEF l
      <4>2. /\ r \in Record /\ r.pc = "ask" /\ r.lport = l /\ r.ret = th[t].ret
            /\ r.s = 0 /\ r.s2 = th[t].s2 /\ r.e = th[t].e
        BY <1>1, <4>1, AgainTyped
      <4>. QED
        BY <1>1, <4>2 DEF l
    <3>2. Becomes(t, r) /\ CloseSock(t) /\ inuse < setup.inuse /\ inuse' = inuse + 1
      BY <2>1 DEF ConnectInUse, Retry, Again
    <3>3. UNCHANGED <<setup, command, mutex, requests, replies, stale, garbled, server, krb>>
      BY <2>1 DEF ConnectInUse, Session
    <3>. HIDE DEF r
    <3>4. r.lport >= th[t].lport - 1 /\ r.lport \in Int /\ inuse' \in 0..setup.inuse
      BY <1>1, <3>1, <3>2
    <3>. QED
      BY <3>1, <3>2, <3>3, <3>4
  <2>2. CASE ConnectRefused(t)
    <3> DEFINE r == [[th[t] EXCEPT !.timo = 2 * @] EXCEPT !.pc = "ask", !.s = 0]
    <3>1. 2 * th[t].timo \in 1..2 * MaxTimo
      BY <1>1, <2>2 DEF ConnectRefused, MayRetry
    <3>2. /\ r \in Record /\ r.pc = "ask" /\ r.s = 0 /\ r.s2 = 0 /\ r.e = 0 /\ r.ret = "s"
          /\ r.lport = th[t].lport
      BY <1>1, <3>1 DEF Record, Pcs
    <3>3. Becomes(t, r) /\ CloseSock(t) /\ Calm
      BY <2>2 DEF ConnectRefused, Retry
    <3>4. UNCHANGED <<setup, command, mutex, requests, replies, stale, garbled, server, krb>>
      BY <3>3 DEF Calm, Session
    <3>. HIDE DEF r
    <3>5. r.lport >= th[t].lport - 1 /\ r.lport \in Int /\ inuse' \in 0..setup.inuse
      BY <1>1, <3>2, <3>3 DEF Calm
    <3>. QED
      BY <3>2, <3>3, <3>4, <3>5
  <2>. QED
    BY <2>1, <2>2
<1>3. Asks(t, r)
  BY <1>1, <1>2 DEF Asks
<1>4. Idle(t, r)
  BY <1>1, <1>2, <1>3 DEF Idle, Shape
<1>5. HoldsOf(r) = Holds(t) \ {th[t].s} /\ {th[t].s} \in SUBSET (Holds(t) \cup {0})
  BY <1>1, <1>2 DEF HoldsOf, Holds
<1>6. table' = Close({th[t].s})
  BY <1>2 DEF CloseSock
<1>. QED
  BY <1>2, <1>4, <1>5, <1>6, ClosesKept

LEMMA AcceptKept ==
  ASSUME IInv, NEW t \in Thread, Accept(t)
  PROVE  IInv'
<1>1. /\ Pc(t) = "wait" /\ Calm /\ th[t] \in Record /\ Shape(th[t]) /\ table[th[t].s2] # Free
      /\ th[t].pc = "wait" /\ th[t].s2 # 0 /\ th[t].e = 0 /\ th[t].lport # 0
  BY Types DEF Accept, IInv, Shapes, Shape, Pc
<1>2. CASE Bad(t)
  <2>1. Idle(t, NoFds(t))
    BY <1>1, <1>2, CalmSteps, OverIdle
  <2>. QED
    BY <1>1, <1>2, <2>1, BadKept
<1>3. ASSUME NEW n \in Fd, Lowest(n),
             table' = [table EXCEPT ![n] = Opened(t, 0, Asker(t)), ![th[t].s2] = Free],
             NEW p \in {"verify", "send", "answer"},
             Becomes(t, [th[t] EXCEPT !.pc = p, !.s2 = 0, !.e = n])
      PROVE  IInv'
  <2> DEFINE r == [th[t] EXCEPT !.pc = p, !.s2 = 0, !.e = n]
  <2>1. table[n] = Free /\ n # 0 /\ n # th[t].s2 /\ 0 \in Nat
    BY <1>1, <1>3, CircuitAssumption DEF Lowest
  <2>2. /\ r \in Record /\ r.pc = p /\ r.s = th[t].s /\ r.s2 = 0 /\ r.e = n
        /\ r.lport = th[t].lport
    BY <1>1 DEF Record, Pcs
  <2>3. Idle(t, r)
    BY <1>1, <1>3, <2>1, <2>2, CalmSteps DEF Idle, Shape, Asks
  <2>4. table' = Turned({th[t].s2}, n, Opened(t, 0, Asker(t)))
    BY <1>3, <2>1, Types DEF IInv, Turned
  <2>5. {th[t].s2} \in SUBSET Holds(t)
    BY <1>1 DEF Holds
  <2>6. (Holds(t) \ {th[t].s2}) \cup {n} \subseteq HoldsOf(r)
    BY <1>1, <2>1, <2>2 DEF HoldsOf, Holds
  <2>7. garbled \/ HoldsOf(r) = (Holds(t) \ {th[t].s2}) \cup {n}
    <3>1. garbled \/ th[t].s # th[t].s2
      BY <1>1 DEF IInv, Kept, Apart
    <3>. QED
      BY <1>1, <2>1, <2>2, <3>1 DEF HoldsOf, Holds
  <2>8. garbled \/ (r.s = r.s2 => r.s = 0)
    BY <2>2
  <2>. HIDE DEF r
  <2>. QED
    BY <2>1, <2>2, <2>3, <2>4, <2>5, <2>6, <2>7, <2>8, OpensKept
<1>4. Ready(t) \in {"send", "answer"}
  BY DEF Ready
<1>. QED
  BY <1>2, <1>3, <1>4 DEF Accept

\* A thread goes on and its descriptors stay.
LEMMA GoesKept ==
  ASSUME IInv, NEW t \in Thread, NEW p \in {"auth", "answer", "message", "up"},
         Pc(t) \in {"verify", "send", "auth", "answer"}, Goes(t, p), UNCHANGED table,
         UNCHANGED <<setup, command, mutex, requests, replies, stale, garbled, server>>,
         krb' \in Thread \cup {None}, inuse' = inuse
  PROVE  IInv'
<1> DEFINE r == [th[t] EXCEPT !.pc = p]
<1>1. th[t] \in Record /\ Shape(th[t]) /\ th[t].pc \in {"verify", "send", "auth", "answer"}
  BY Types DEF IInv, Shapes, Pc
<1>2. /\ r \in Record /\ r.pc = p /\ r.lport = th[t].lport
      /\ r.s = th[t].s /\ r.s2 = th[t].s2 /\ r.e = th[t].e
  BY <1>1 DEF Record, Pcs
<1>3. Becomes(t, r)
  BY DEF Goes
<1>. HIDE DEF r
<1>4. Shape(r) /\ Asks(t, r)
  BY <1>1, <1>2 DEF Shape, Asks
<1>5. inuse' \in 0..setup.inuse
  BY DEF IInv, TypeOK
<1>6. Idle(t, r)
  BY <1>1, <1>2, <1>3, <1>4, <1>5 DEF Idle, Pc
<1>. QED
  BY <1>2, <1>3, <1>6, StaysKept

LEMMA HangupKept ==
  ASSUME IInv, NEW t \in Thread, Hangup(t)
  PROVE  IInv'
<1> DEFINE r == [th[t] EXCEPT !.pc = "over", !.s = 0, !.e = 0]
<1>1. th[t] \in Record /\ th[t].pc = "up" /\ th[t].s2 = 0
  BY Types DEF IInv, Shapes, Shape, Hangup, Pc
<1>2. r \in Record /\ r.pc = "over" /\ r.s = 0 /\ r.s2 = 0 /\ r.e = 0
  BY <1>1 DEF Record, Pcs
<1>3. Becomes(t, r) /\ table' = Close({th[t].s, th[t].e}) /\ Calm
  BY DEF Hangup
<1>. HIDE DEF r
<1>4. Idle(t, r)
  BY <1>1, <1>2, <1>3, CalmSteps DEF Idle, Shape, Asks, Pc
<1>5. HoldsOf(r) = Holds(t) \ {th[t].s, th[t].e} /\ {th[t].s, th[t].e} \in SUBSET (Holds(t) \cup {0})
  BY <1>1, <1>2 DEF HoldsOf, Holds
<1>. QED
  BY <1>2, <1>3, <1>4, <1>5, ClosesKept

\* What the daemons decide, and k4cmd's lock.
LEMMA DaemonKept ==
  ASSUME IInv, NEW t \in Thread, Daemon(t) \/ Lock(t)
  PROVE  IInv'
<1>1. krb \in Thread \cup {None}
  BY DEF IInv, TypeOK
<1>2. CASE ConnectFails(t) \/ WaitFails(t)
  <2>1. Bad(t) /\ Calm /\ Pc(t) \in {"connect", "wait"}
    BY <1>2 DEF ConnectFails, WaitFails
  <2>2. Idle(t, NoFds(t))
    BY <2>1, CalmSteps, OverIdle
  <2>. QED
    BY <2>1, <2>2, BadKept
<1>3. CASE AnswerFails(t) \/ MessageEnds(t) \/ (VerifyEnds(t) /\ Bad2(t))
  <2>1. Bad2(t) /\ Calm /\ Pc(t) \in {"verify", "answer", "message"}
    BY <1>3 DEF AnswerFails, MessageEnds, VerifyEnds
  <2>2. Idle(t, NoFds(t))
    BY <2>1, CalmSteps, OverIdle
  <2>. QED
    BY <2>1, <2>2, Bad2Kept
<1>4. CASE AuthFails(t)
  <2>1. /\ Bad2(t) /\ Pc(t) = "auth" /\ krb' \in Thread \cup {None} /\ inuse' = inuse
        /\ UNCHANGED <<setup, command, mutex, requests, replies, stale, garbled, server>>
    BY <1>4 DEF AuthFails, UnlockKrb, Session
  <2>2. Idle(t, NoFds(t))
    BY <2>1, OverIdle
  <2>. QED
    BY <2>1, <2>2, Bad2Kept
<1>5. CASE \/ VerifyEnds(t) /\ Goes(t, "answer") /\ UNCHANGED table
           \/ AnswerOk(t) \/ AnswerError(t)
  <2>1. /\ Calm /\ UNCHANGED table /\ Pc(t) \in {"verify", "answer"}
        /\ Goes(t, "answer") \/ Goes(t, "up") \/ Goes(t, "message")
    BY <1>5 DEF VerifyEnds, AnswerOk, AnswerError
  <2>. QED
    BY <2>1, CalmSteps, GoesKept
<1>6. CASE Lock(t) \/ Authenticate(t)
  <2>1. /\ UNCHANGED table /\ Pc(t) \in {"send", "auth"} /\ krb' \in Thread \cup {None}
        /\ Goes(t, "auth") \/ Goes(t, "answer")
        /\ UNCHANGED <<setup, command, mutex, requests, replies, stale, garbled, server>>
        /\ inuse' = inuse
    BY <1>6 DEF Lock, Authenticate, Session
  <2>. QED
    BY <2>1, GoesKept
<1>. QED
  BY <1>2, <1>3, <1>4, <1>5, <1>6, ConnectOkKept, RetryKept, AcceptKept, HangupKept
  DEF Daemon, VerifyEnds

-----------------------------------------------------------------------------
(* The exchange with the port server.                                       *)

\* A step of the server, or its end, leaves the threads and the table alone.
LEMMA ServerKept ==
  ASSUME IInv, UNCHANGED <<setup, th, table, mutex, krb, inuse, command, stale, garbled>>
  PROVE  Shapes' /\ Kept' /\ Waiting'
<1>1. Shapes'
  BY DEF IInv, Shapes, Asks, Proto
<1>2. Waiting'
  BY DEF IInv, Waiting, Pc
<1>3. Kept'
  BY DEF IInv, Kept, NoLeak, OwnDescriptors, Apart, OwnReply, ToldPort, Holds, Pc, Asker
<1>. QED
  BY <1>1, <1>2, <1>3

Request == [port : Int, asker : (1..Commands) \X Thread]

LEMMA Taken ==
  ASSUME NEW R, NEW q \in Seq(R), q # <<>>
  PROVE  /\ Head(q) = q[1] /\ q[1] \in R /\ Tail(q) \in Seq(R)
         /\ Len(q) \in Nat \ {0} /\ Len(Tail(q)) = Len(q) - 1
OBVIOUS

LEMMA Emptied ==
  ASSUME NEW R, NEW q \in Seq(R), Len(q) = 0
  PROVE  q = <<>>
OBVIOUS

LEMMA ServeKept ==
  ASSUME IInv, Serve
  PROVE  IInv'
<1>1. /\ requests # <<>> /\ requests' = Tail(requests)
      /\ requests \in Seq(Request) /\ replies \in Seq(Message)
      /\ UNCHANGED <<setup, th, table, mutex, krb, server, inuse, command, stale, garbled>>
  BY DEF Serve, IInv, TypeOK, Request
<1>2. /\ Head(requests) = requests[1] /\ requests[1].asker \in (1..Commands) \X Thread
      /\ Len(requests') = Len(requests) - 1 /\ Len(requests) \in Nat /\ requests' \in Seq(Request)
  <2>1. Head(requests) = requests[1] /\ requests[1] \in Request
    BY <1>1, Taken
  <2>2. Len(requests') = Len(requests) - 1 /\ Len(requests) \in Nat /\ requests' \in Seq(Request)
    BY <1>1, Taken
  <2>. QED
    BY <2>1, <2>2 DEF Request
<1>3. PICK m \in Message : replies' = Append(replies, m) /\ m.asker = requests[1].asker
  <2>1. ASSUME NEW q \in Low..High \cup {-1},
               replies' = Append(replies, [port |-> q, asker |-> Head(requests).asker])
        PROVE  \E m \in Message : replies' = Append(replies, m) /\ m.asker = requests[1].asker
    BY <1>2, <2>1 DEF Message
  <2>. QED
    BY <2>1 DEF Serve
<1>4. TypeOK'
  <2>1. replies' \in Seq(Message)
    BY <1>1, <1>3
  <2>. QED
    BY <1>1, <1>2, <2>1 DEF IInv, TypeOK, Request
<1>5. Exchange'
  <2> SUFFICES ASSUME ~garbled, ~stale
               PROVE  Exchange'
    BY <1>1 DEF Exchange
  <2>1. /\ replies = <<>> /\ Len(requests) = 1
        /\ mutex # None /\ requests[1].asker = Asker(mutex)
    BY <1>1 DEF IInv, Exchange
  <2>2. Len(requests') = 0 /\ requests' = <<>>
    BY <1>2, <2>1, Emptied
  <2>3. Len(replies') = 1 /\ replies'[1] = m
    BY <1>3, <2>1
  <2>. QED
    <3>1. requests' = <<>> /\ Len(replies') <= 1 /\ replies' # <<>>
      BY <2>2, <2>3
    <3>2. mutex' # None /\ replies'[1].asker = Asker(mutex)'
      BY <1>1, <1>3, <2>1, <2>3 DEF Asker
    <3>. QED
      BY <3>1, <3>2 DEF Exchange
<1>. QED
  BY <1>1, <1>4, <1>5, ServerKept DEF IInv

LEMMA InterruptKept ==
  ASSUME IInv, Interrupt
  PROVE  IInv'
<1>1. /\ requests' = <<>> /\ server' = "down"
      /\ UNCHANGED <<setup, th, table, mutex, krb, replies, inuse, command, stale, garbled>>
  BY DEF Interrupt
<1>2. TypeOK'
  <2>1. <<>> \in Seq(Request)
    OBVIOUS
  <2>. QED
    BY <1>1, <2>1 DEF IInv, TypeOK, Request
<1>3. Exchange'
  BY <1>1 DEF IInv, Exchange, Asker
<1>4. Shapes' /\ Kept' /\ Waiting'
  BY <1>1, ServerKept
<1>. QED
  BY <1>2, <1>3, <1>4 DEF IInv

\* The table when a thread closes S and opens none.
LEMMA ClosedTable ==
  ASSUME TypeOK, Shapes, Kept, NEW t \in Thread, NEW r \in Record, Becomes(t, r),
         UNCHANGED <<setup, command>>, garbled => garbled', stale => stale',
         NEW S \in SUBSET (Holds(t) \cup {0}), table' = Close(S),
         HoldsOf(r) = Holds(t) \ S, r.pc # "wait",
         garbled \/ (r.s = r.s2 => r.s = 0)
  PROVE  Kept' /\ table' \in [Fd -> Entry]
<1>1. PICK a : a \in (1..Commands) \X Thread
  BY AskerTyped
<1>2. 0 \in Nat /\ 0 \notin Fd
  BY CircuitAssumption
<1>3. table' = Turned(S, 0, Opened(t, 0, a))
  BY <1>2 DEF Turned, Close
<1>4. HoldsOf(r) = (Holds(t) \ S) \cup ({0} \ {0})
  OBVIOUS
<1>5. table' \in [Fd -> Entry]
  BY Types DEF Close, Entry
<1>. QED
  BY <1>1, <1>2, <1>3, <1>4, <1>5, TableKept

LEMMA GivenTyped ==
  ASSUME TypeOK, NEW t \in Thread, NEW n \in Fd, NEW p \in Int
  PROVE  /\ Given(t, n, p) \in Record /\ Given(t, n, p).lport = p
         /\ Given(t, n, p).e = th[t].e /\ Given(t, n, p).ret = th[t].ret
         /\ th[t].ret = "s" => /\ Given(t, n, p).pc = "connect" /\ Given(t, n, p).s = n
                               /\ Given(t, n, p).s2 = th[t].s2
         /\ th[t].ret # "s" => /\ Given(t, n, p).pc = "wait" /\ Given(t, n, p).s2 = n
                               /\ Given(t, n, p).s = th[t].s
<1>1. th[t] \in Record
  BY Types
<1>2. CASE th[t].ret = "s"
  <2>1. Given(t, n, p) = [th[t] EXCEPT !.pc = "connect", !.lport = p, !.s = n, !.s2 = th[t].s2]
    BY <1>2 DEF Given
  <2>. QED
    BY <1>1, <1>2, <2>1 DEF Record, Pcs
<1>3. CASE th[t].ret # "s"
  <2>1. Given(t, n, p) = [th[t] EXCEPT !.pc = "wait", !.lport = p, !.s = th[t].s, !.s2 = n]
    BY <1>3 DEF Given
  <2>. QED
    BY <1>1, <1>3, <2>1 DEF Record, Pcs
<1>. QED
  BY <1>2, <1>3

\* A thread before and after its exchange.
LEMMA InExchange ==
  ASSUME IInv, NEW t \in Thread, Pc(t) \in {"ask", "recv"}
  PROVE  /\ th[t] \in Record /\ Shape(th[t]) /\ Asks(t, th[t])
         /\ th[t].s2 = 0 /\ th[t].e = 0 /\ (th[t].ret = "s" => th[t].s = 0)
         /\ th[t].ret \in {"s", "s2"} /\ th[t].lport \in Int
         /\ Holds(t) = {th[t].s} \ {0}
<1>1. th[t] \in Record /\ Shape(th[t]) /\ Asks(t, th[t])
  BY Types DEF IInv, Shapes
<1>. QED
  BY <1>1 DEF Shape, Record, Pc, Holds

\* Giving up in it: privsep_rresvport returns -1.
LEMMA BadInExchange ==
  ASSUME IInv, NEW t \in Thread, Pc(t) \in {"ask", "recv"}, Bad(t),
         UNCHANGED <<setup, command>>, garbled => garbled', stale => stale'
  PROVE  Kept' /\ Shapes' /\ th' \in [Thread -> Record] /\ table' \in [Fd -> Entry]
         /\ th'[t].pc = "over"
<1>1. th[t] \in Record /\ th[t].e = 0
  BY InExchange
<1>2. /\ NoFds(t) \in Record /\ NoFds(t).pc = "over" /\ HoldsOf(NoFds(t)) = {}
      /\ NoFds(t).s = 0 /\ NoFds(t).s2 = 0 /\ NoFds(t).e = 0
  BY NoFdsTyped DEF IInv
<1>3. /\ Holds(t) \ {th[t].s, th[t].s2} = {} /\ {th[t].s, th[t].s2} \in SUBSET (Holds(t) \cup {0})
  BY <1>1 DEF Holds
<1>4. Kept' /\ table' \in [Fd -> Entry]
  BY <1>2, <1>3, ClosedTable DEF Bad, IInv
<1>5. th \in [Thread -> Record] /\ th' = [th EXCEPT ![t] = NoFds(t)]
  BY Types DEF IInv, Bad, Becomes
<1>6. Shapes'
  BY <1>2, <1>5 DEF IInv, Shapes, Shape, Asks, Proto
<1>. QED
  BY <1>2, <1>4, <1>5, <1>6

LEMMA AskKept ==
  ASSUME IInv, NEW t \in Thread, Ask(t)
  PROVE  IInv'
<1>1. /\ Pc(t) = "ask" /\ mutex = None /\ t # None
      /\ UNCHANGED <<setup, krb, replies, server, inuse, command, stale, garbled>>
  BY CircuitAssumption DEF Ask, Alone
<1>2. CASE Bad(t) /\ UNCHANGED <<mutex, requests>>
  <2>1. Kept' /\ Shapes' /\ th' \in [Thread -> Record] /\ table' \in [Fd -> Entry]
        /\ th'[t].pc = "over"
    BY <1>1, <1>2, BadInExchange
  <2>2. TypeOK'
    BY <1>1, <1>2, <2>1 DEF IInv, TypeOK, Record, Entry
  <2>3. Waiting'
    BY <1>1, <1>2, <2>1, Types DEF IInv, Waiting, Pc, Bad, Becomes
  <2>4. Exchange'
    BY <1>1, <1>2 DEF IInv, Exchange, Asker
  <2>. QED
    BY <2>1, <2>2, <2>3, <2>4 DEF IInv
<1>3. ASSUME mutex' = t, Goes(t, "recv"), UNCHANGED table,
             requests' = Append(requests, [port |-> th[t].lport, asker |-> Asker(t)])
      PROVE  IInv'
  <2> DEFINE r == [th[t] EXCEPT !.pc = "recv"]
             m == [port |-> th[t].lport, asker |-> Asker(t)]
  <2>1. /\ th[t] \in Record /\ Shape(th[t]) /\ Asks(t, th[t]) /\ th[t].pc = "ask"
        /\ th[t].lport \in Int
    BY <1>1, InExchange DEF Pc
  <2>2. /\ r \in Record /\ r.pc = "recv" /\ r.lport = th[t].lport /\ r.ret = th[t].ret
        /\ r.s = th[t].s /\ r.s2 = th[t].s2 /\ r.e = th[t].e
    BY <2>1 DEF Record, Pcs
  <2>3. th \in [Thread -> Record] /\ th' = [th EXCEPT ![t] = r] /\ th' \in [Thread -> Record]
    BY <1>3, <2>2, Types DEF IInv, Goes, Becomes
  <2>4. m \in Request /\ m.asker = Asker(t)
    BY <2>1, AskerTyped DEF IInv, Request
  <2>. HIDE DEF r, m
  <2>5. Shape(r) /\ Asks(t, r)
    BY <2>1, <2>2 DEF Shape, Asks
  <2>6. Shapes'
    BY <1>1, <2>3, <2>5 DEF IInv, Shapes, Asks, Proto
  <2>7. Kept'
    <3>1. table' = Close({}) /\ HoldsOf(r) = Holds(t) \ {}
      BY <1>3, <2>2, Types DEF IInv, Close, HoldsOf, Holds
    <3>2. garbled \/ (r.s = r.s2 => r.s = 0)
      BY <2>2 DEF IInv, Kept, Apart
    <3>. QED
      BY <1>1, <2>2, <2>3, <3>1, <3>2, ClosedTable DEF IInv, Becomes
  <2>8. requests' = Append(requests, m) /\ requests \in Seq(Request)
    BY <1>3 DEF m, IInv, TypeOK, Request
  <2>9. TypeOK'
    <3>1. requests' \in Seq(Request)
      BY <2>4, <2>8
    <3>. QED
      BY <1>1, <1>3, <2>3, <3>1 DEF IInv, TypeOK, Record, Request
  <2>10. Waiting'
    <3> SUFFICES ASSUME NEW u \in Thread
                 PROVE  (th'[u].pc = "recv") <=> (mutex' = u)
      BY DEF Waiting, Pc
    <3>1. CASE u = t
      BY <1>3, <2>2, <2>3, <3>1
    <3>2. CASE u # t
      <4>1. u # None /\ th'[u] = th[u]
        BY <2>3, <3>2, CircuitAssumption
      <4>2. th[u].pc # "recv"
        BY <1>1, <4>1 DEF IInv, Waiting, Pc
      <4>. QED
        BY <1>3, <3>2, <4>1, <4>2
    <3>. QED
      BY <3>1, <3>2
  <2>11. Exchange'
    <3> SUFFICES ASSUME ~garbled, ~stale
                 PROVE  Exchange'
      BY <1>1 DEF Exchange
    <3>1. requests = <<>> /\ replies = <<>>
      BY <1>1 DEF IInv, Exchange
    <3>2. Len(requests') = 1 /\ requests'[1] = m /\ replies' = <<>> /\ Len(replies') = 0
      BY <1>1, <2>8, <3>1
    <3>3. requests'[1].asker = Asker(mutex)'
      BY <1>1, <1>3, <2>4, <3>2 DEF Asker
    <3>. QED
      BY <1>1, <1>3, <3>2, <3>3 DEF Exchange
  <2>. QED
    BY <2>6, <2>7, <2>9, <2>10, <2>11 DEF IInv
<1>. QED
  BY <1>2, <1>3 DEF Ask

\* A descriptor that happened to be on the stack: nothing is lost by it.
LEMMA GarbledKept ==
  ASSUME TypeOK, Kept, NEW t \in Thread, NEW r \in Record, Becomes(t, r), UNCHANGED table,
         garbled', Holds(t) \subseteq HoldsOf(r)
  PROVE  Kept'
<1>1. th \in [Thread -> Record] /\ th' = [th EXCEPT ![t] = r] /\ table \in [Fd -> Entry]
  BY Types DEF Becomes
<1>2. NoLeak'
  <2> SUFFICES ASSUME NEW n \in Fd, table[n] # Free
               PROVE  n \in HoldsOf(th'[table[n].by])
    BY DEF NoLeak, Holds, HoldsOf
  <2>1. table[n].by \in Thread /\ n \in HoldsOf(th[table[n].by])
    BY <1>1 DEF Entry, Kept, NoLeak, Holds, HoldsOf
  <2>. QED
    BY <1>1, <2>1 DEF Holds, HoldsOf
<1>. QED
  BY <1>2 DEF Kept, OwnDescriptors, Apart, OwnReply, ToldPort

\* The end of an exchange: the lock is given back.
LEMMA AfterExchange ==
  ASSUME IInv, NEW t \in Thread, Pc(t) = "recv", mutex' = None, NEW r \in Record, r.pc # "recv",
         Becomes(t, r)
  PROVE  Waiting' /\ th' \in [Thread -> Record]
<1>1. th \in [Thread -> Record] /\ th' = [th EXCEPT ![t] = r] /\ th' \in [Thread -> Record]
  BY Types DEF IInv, Becomes
<1>2. mutex = t
  BY DEF IInv, Waiting
<1>3. Waiting'
  <2> SUFFICES ASSUME NEW u \in Thread
               PROVE  (th'[u].pc = "recv") <=> (mutex' = u)
    BY DEF Waiting, Pc
  <2>1. u # None /\ mutex' # u
    BY CircuitAssumption
  <2>2. CASE u = t
    BY <1>1, <2>1, <2>2
  <2>3. CASE u # t
    BY <1>1, <1>2, <2>1, <2>3 DEF IInv, Waiting, Pc
  <2>. QED
    BY <2>2, <2>3
<1>. QED
  BY <1>1, <1>3

LEMMA RecvKept ==
  ASSUME IInv, NEW t \in Thread, Recv(t)
  PROVE  IInv'
<1> DEFINE m == Head(replies)
<1>1. /\ Pc(t) = "recv" /\ replies # <<>> /\ replies' = Tail(replies) /\ mutex' = None
      /\ UNCHANGED <<setup, krb, requests, server, inuse, command, stale>>
      /\ replies \in Seq(Message) /\ TypeOK /\ Shapes /\ Kept
  BY DEF Recv, IInv, TypeOK
<1>2. /\ m = replies[1] /\ m \in Message /\ replies' \in Seq(Message)
      /\ Len(replies) \in Nat \ {0} /\ Len(replies') = Len(replies) - 1
  BY <1>1, Taken
<1>3. m.port \in Int /\ m.asker \in (1..Commands) \X Thread
      /\ (m.port # -1 => m.port \in Nat /\ m.port > 1)
  BY <1>2, CircuitAssumption DEF Message
<1>4. /\ th[t] \in Record /\ Shape(th[t]) /\ Asks(t, th[t]) /\ th[t].s2 = 0 /\ th[t].e = 0
      /\ (th[t].ret = "s" => th[t].s = 0) /\ th[t].ret \in {"s", "s2"}
      /\ Holds(t) = {th[t].s} \ {0} /\ Proto[t] # "mrsh"
  BY <1>1, InExchange DEF Asks, Pc
<1>5. ASSUME ~garbled, ~stale
      PROVE  replies' = <<>> /\ m.asker = Asker(t)
  <2>1. Len(replies) <= 1 /\ replies[1].asker = Asker(mutex)
    BY <1>1, <1>5 DEF IInv, Exchange
  <2>2. mutex = t
    BY <1>1 DEF IInv, Waiting
  <2>3. Len(replies') = 0
    BY <1>2, <2>1
  <2>. QED
    BY <1>2, <2>1, <2>2, <2>3, Emptied
<1>. HIDE DEF m
<1>6. ASSUME NEW r \in Record, r.pc \notin {"recv"}, Becomes(t, r), Kept', Shapes',
             table' \in [Fd -> Entry], garbled => garbled', garbled' \in BOOLEAN
      PROVE  IInv'
  <2>1. Waiting' /\ th' \in [Thread -> Record]
    BY <1>1, <1>6, AfterExchange
  <2>2. TypeOK'
    BY <1>1, <1>2, <1>6, <2>1 DEF TypeOK, Record, Entry
  <2>3. Exchange'
    <3> SUFFICES ASSUME ~garbled, ~stale
                 PROVE  Exchange'
      BY <1>1, <1>6 DEF Exchange
    <3>1. replies' = <<>> /\ requests' = <<>>
      BY <1>1, <1>5 DEF IInv, Exchange
    <3>. QED
      BY <3>1 DEF Exchange
  <2>. QED
    BY <1>6, <2>1, <2>2, <2>3 DEF IInv
<1>7. garbled \in BOOLEAN
  BY <1>1 DEF TypeOK
<1>8. ASSUME Bad(t), garbled => garbled', garbled' \in BOOLEAN
      PROVE  IInv'
  <2>1. NoFds(t) \in Record /\ NoFds(t).pc = "over"
    BY <1>1, NoFdsTyped
  <2>2. Kept' /\ Shapes' /\ table' \in [Fd -> Entry]
    BY <1>1, <1>8, BadInExchange
  <2>. QED
    BY <1>6, <1>8, <2>1, <2>2 DEF Bad
<1>9. ASSUME NEW n \in Fd, m.port # -1, Becomes(t, Given(t, n, m.port)),
             garbled => garbled', garbled' \in BOOLEAN,
             table' \in [Fd -> Entry], Kept'
      PROVE  IInv'
  <2>1. PICK r \in Record :
        /\ r = Given(t, n, m.port) /\ r.lport = m.port /\ r.e = th[t].e /\ r.ret = th[t].ret
        /\ th[t].ret = "s" => r.pc = "connect" /\ r.s = n /\ r.s2 = th[t].s2
        /\ th[t].ret # "s" => r.pc = "wait" /\ r.s2 = n /\ r.s = th[t].s
    BY <1>1, <1>3, GivenTyped
  <2>2. n # 0 /\ r.lport > 1 /\ r.lport # 0
    BY <1>3, <1>9, <2>1, CircuitAssumption
  <2>3. Shape(r)
    BY <1>4, <2>1, <2>2 DEF Shape
  <2>4. Asks(t, r)' /\ th' = [th EXCEPT ![t] = r] /\ th \in [Thread -> Record] /\ r.pc # "recv"
    BY <1>1, <1>4, <1>9, <2>1, <2>2, Types DEF Asks, Proto, Becomes
  <2>5. Shapes'
    BY <1>1, <1>9, <2>3, <2>4 DEF Shapes, Asks, Proto
  <2>. QED
    BY <1>6, <1>9, <2>1, <2>4, <2>5
<1>10. CASE m.port = -1 /\ Bad(t) /\ UNCHANGED garbled
  BY <1>7, <1>8, <1>10
<1>11. ASSUME m.port # -1, UNCHANGED garbled, NEW n \in Fd, Lowest(n),
              Becomes(t, Given(t, n, m.port)),
              table' = [table EXCEPT ![n] = Opened(t, m.port, m.asker)]
       PROVE  IInv'
  <2> DEFINE r == Given(t, n, m.port)
  <2>1. /\ r \in Record /\ r.lport = m.port /\ r.e = th[t].e /\ r.ret = th[t].ret
        /\ th[t].ret = "s" => r.pc = "connect" /\ r.s = n /\ r.s2 = th[t].s2
        /\ th[t].ret # "s" => r.pc = "wait" /\ r.s2 = n /\ r.s = th[t].s
    BY <1>1, <1>3, GivenTyped
  <2>. HIDE DEF r
  <2>2. n # 0 /\ table[n] = Free /\ m.port \in Nat
    BY <1>3, <1>11, CircuitAssumption DEF Lowest
  <2>3. HoldsOf(r) = (Holds(t) \ {}) \cup ({n} \ {0})
    BY <1>4, <2>1, <2>2 DEF HoldsOf
  <2>4. table' = Turned({}, n, Opened(t, m.port, m.asker))
    BY <1>1, <1>11, Types DEF Turned
  <2>5. table' \in [Fd -> Entry]
    <3>1. Opened(t, m.port, m.asker) \in Entry
      BY <1>1, <1>3, <2>2, OpenedTyped
    <3>. QED
      BY <1>1, <1>11, <3>1, Types
  <2>6. garbled \/ (r.s = r.s2 => r.s = 0)
    <3>1. ASSUME ~garbled
          PROVE  th[t].s # n \/ th[t].s = 0
      BY <1>1, <1>4, <2>2, <3>1 DEF Kept, OwnDescriptors
    <3>. QED
      BY <1>4, <2>1, <2>2, <3>1
  <2>7. Kept'
    <3>1. garbled \/ stale \/ n = 0 \/ m.asker = Asker(t)
      BY <1>5
    <3>2. r.pc = "wait" => n # 0 /\ r.s2 = n /\ r.lport = m.port
      BY <2>1, <2>2
    <3>3. Becomes(t, r)
      BY <1>11 DEF r
    <3>4. /\ {} \in SUBSET (Holds(t) \cup {0}) /\ n \in Fd \cup {0} /\ (n # 0 => table[n] = Free /\ n \notin {})
          /\ (garbled => garbled') /\ (stale => stale') /\ UNCHANGED <<setup, command>>
      BY <1>1, <1>11, <2>2
    <3>. QED
      BY <1>1, <1>3, <2>1, <2>2, <2>3, <2>4, <2>6, <3>1, <3>2, <3>3, <3>4, TableKept
  <2>. QED
    BY <1>7, <1>9, <1>11, <2>5, <2>7
<1>12. ASSUME m.port # -1, Garbage(t, m.port), garbled' = TRUE
       PROVE  IInv'
  <2>1. CASE Bad(t)
    BY <1>8, <1>12, <2>1
  <2>2. ASSUME NEW n \in Fd, Becomes(t, Given(t, n, m.port)), UNCHANGED table
        PROVE  IInv'
    <3>1. Kept'
      <4> DEFINE r == Given(t, n, m.port)
      <4>1. /\ r \in Record /\ r.e = th[t].e
            /\ th[t].ret = "s" => r.s = n /\ r.s2 = th[t].s2
            /\ th[t].ret # "s" => r.s2 = n /\ r.s = th[t].s
        BY <1>1, <1>3, GivenTyped
      <4>. HIDE DEF r
      <4>2. Holds(t) \subseteq HoldsOf(r)
        BY <1>4, <4>1 DEF HoldsOf
      <4>. QED
        BY <1>1, <1>12, <2>2, <4>1, <4>2, GarbledKept DEF r
    <3>2. table' \in [Fd -> Entry]
      BY <1>1, <2>2, Types
    <3>. QED
      BY <1>9, <1>12, <2>2, <3>1, <3>2
  <2>. QED
    BY <1>12, <2>1, <2>2 DEF Garbage
<1>. QED
  BY <1>10, <1>11, <1>12 DEF Recv, m

LEMMA RecvNothingKept ==
  ASSUME IInv, NEW t \in Thread, RecvNothing(t)
  PROVE  IInv'
<1>1. /\ Pc(t) = "recv" /\ mutex' = None /\ garbled' = TRUE /\ Garbage(t, th[t].lport)
      /\ UNCHANGED <<setup, krb, requests, replies, server, inuse, command, stale>>
      /\ TypeOK /\ Shapes /\ Kept
  BY DEF RecvNothing, IInv, Session
<1>2. /\ th[t] \in Record /\ Asks(t, th[t]) /\ th[t].s2 = 0 /\ th[t].e = 0
      /\ (th[t].ret = "s" => th[t].s = 0) /\ th[t].ret \in {"s", "s2"} /\ th[t].lport \in Int
      /\ Holds(t) = {th[t].s} \ {0} /\ th[t].pc = "recv"
  BY <1>1, InExchange DEF Pc
<1>3. ASSUME NEW r \in Record, r.pc # "recv", Becomes(t, r), Kept', Shapes',
             table' \in [Fd -> Entry]
      PROVE  IInv'
  <2>1. Waiting' /\ th' \in [Thread -> Record]
    BY <1>1, <1>3, AfterExchange
  <2>2. TypeOK'
    BY <1>1, <1>3, <2>1 DEF TypeOK, Record, Entry
  <2>. QED
    BY <1>1, <1>3, <2>1, <2>2 DEF IInv, Exchange
<1>4. CASE Bad(t)
  <2>1. NoFds(t) \in Record /\ NoFds(t).pc = "over"
    BY <1>1, NoFdsTyped
  <2>2. Kept' /\ Shapes' /\ table' \in [Fd -> Entry]
    BY <1>1, <1>4, BadInExchange
  <2>. QED
    BY <1>3, <1>4, <2>1, <2>2 DEF Bad
<1>5. ASSUME NEW n \in Fd, ~garbled, Becomes(t, Given(t, n, th[t].lport)), UNCHANGED table
      PROVE  IInv'
  <2>1. PICK r \in Record :
        /\ r = Given(t, n, th[t].lport) /\ r.lport = th[t].lport /\ r.e = th[t].e /\ r.ret = th[t].ret
        /\ th[t].ret = "s" => r.pc = "connect" /\ r.s = n /\ r.s2 = th[t].s2
        /\ th[t].ret # "s" => r.pc = "wait" /\ r.s2 = n /\ r.s = th[t].s
    BY <1>1, <1>2, GivenTyped
  <2>2. n # 0 /\ r.lport > 0
    BY <1>2, <1>5, <2>1, CircuitAssumption DEF Asks
  <2>3. Shape(r) /\ r.pc # "recv" /\ r.pc # "ask"
    BY <1>2, <2>1, <2>2 DEF Shape
  <2>4. th' = [th EXCEPT ![t] = r] /\ th \in [Thread -> Record]
    BY <1>1, <1>5, <2>1, Types DEF Becomes
  <2>5. Shapes'
    BY <1>1, <2>3, <2>4 DEF Shapes, Asks, Proto
  <2>6. Holds(t) \subseteq HoldsOf(r)
    BY <1>2, <2>1 DEF HoldsOf
  <2>7. Kept'
    BY <1>1, <1>5, <2>1, <2>6, GarbledKept
  <2>8. table' \in [Fd -> Entry]
    BY <1>1, <1>5, Types
  <2>. QED
    BY <1>3, <1>5, <2>1, <2>3, <2>5, <2>7, <2>8
<1>. QED
  BY <1>1, <1>4, <1>5 DEF Garbage

-----------------------------------------------------------------------------
(* The next command of a session, and the theorems.                         *)

LEMMA FreshShape ==
  ASSUME NEW t \in Thread, setup \in Setups
  PROVE  /\ Fresh(t) \in Record /\ Shape(Fresh(t)) /\ Asks(t, Fresh(t))
         /\ HoldsOf(Fresh(t)) = {} /\ Fresh(t).pc \notin {"recv", "wait"} /\ Fresh(t).s = 0
<1>1. Low \in Nat /\ High \in Nat /\ 1 < Low /\ Low < High /\ 1 \in 1..2 * MaxTimo
  BY CircuitAssumption
<1>2. High > 1 /\ High \in Int
  BY <1>1
<1>3. CASE Proto[t] = "mrsh"
  <2>1. Fresh(t) = [pc |-> "start", ret |-> "s", lport |-> 0, timo |-> 1, s |-> 0, s2 |-> 0, e |-> 0]
    BY <1>3 DEF Fresh
  <2>. QED
    BY <1>1, <1>3, <2>1 DEF Record, Pcs, Shape, Asks, HoldsOf
<1>4. CASE Proto[t] # "mrsh"
  <2>1. Fresh(t) = [pc |-> "ask", ret |-> "s", lport |-> High, timo |-> 1, s |-> 0, s2 |-> 0, e |-> 0]
    BY <1>4 DEF Fresh
  <2>. QED
    BY <1>1, <1>2, <1>4, <2>1 DEF Record, Pcs, Shape, Asks, HoldsOf
<1>. QED
  BY <1>3, <1>4

LEMMA NewCommandKept ==
  ASSUME IInv, NextCommand \/ Killed
  PROVE  IInv'
<1>1. /\ NewCommand /\ stale' \in BOOLEAN /\ (stale => stale')
      /\ mutex = None \/ stale'
  <2>1. CASE NextCommand
    BY <2>1 DEF NextCommand, IInv, TypeOK, Waiting, Returned, Pc
  <2>2. CASE Killed
    BY <2>2 DEF Killed, IInv, TypeOK
  <2>. QED
    BY <2>1, <2>2
<1>2. /\ command \in 1..Commands /\ command' = command + 1 /\ command < Commands
      /\ th' = [t \in Thread |-> Fresh(t)] /\ table' = [n \in Fd |-> Free] /\ mutex' = None
      /\ krb' = None /\ UNCHANGED <<setup, requests, replies, server, inuse, garbled>>
      /\ setup \in Setups /\ Commands \in Nat
  BY <1>1, CircuitAssumption DEF NewCommand, IInv, TypeOK
<1>3. \A t \in Thread : /\ th'[t] \in Record /\ Shape(th'[t]) /\ Asks(t, th'[t]) /\ HoldsOf(th'[t]) = {}
                        /\ th'[t].pc \notin {"recv", "wait"} /\ th'[t].s = 0
  BY <1>2, FreshShape
<1>4. command' \in 1..Commands
  BY <1>2
<1>5. th' \in [Thread -> Record] /\ table' \in [Fd -> Entry]
  <2>1. \A t \in Thread : Fresh(t) \in Record
    BY <1>2, FreshShape
  <2>. QED
    BY <1>2, <2>1 DEF Entry
<1>6. TypeOK'
  BY <1>1, <1>2, <1>4, <1>5 DEF IInv, TypeOK, Record, Entry
<1>7. Shapes'
  BY <1>2, <1>3 DEF Shapes, Asks, Proto
<1>8. Kept'
  <2>1. NoLeak' /\ OwnReply'
    BY <1>2 DEF NoLeak, OwnReply
  <2>2. OwnDescriptors'
    BY <1>3 DEF OwnDescriptors, Holds, HoldsOf
  <2>3. Apart' /\ ToldPort'
    BY <1>3 DEF Apart, ToldPort, Pc
  <2>. QED
    BY <2>1, <2>2, <2>3 DEF Kept
<1>9. Waiting'
  BY <1>2, <1>3, CircuitAssumption DEF Waiting, Pc
<1>10. Exchange'
  BY <1>1, <1>2 DEF IInv, Exchange
<1>. QED
  BY <1>6, <1>7, <1>8, <1>9, <1>10 DEF IInv

LEMMA Initial ==
  ASSUME Init
  PROVE  IInv
<1>1. /\ setup \in Setups /\ th = [t \in Thread |-> Fresh(t)] /\ table = [n \in Fd |-> Free]
      /\ mutex = None /\ krb = None /\ requests = <<>> /\ replies = <<>> /\ server = "up"
      /\ inuse = 0 /\ command = 1 /\ stale = FALSE /\ garbled = FALSE
  BY DEF Init
<1>2. \A t \in Thread : /\ Fresh(t) \in Record /\ th[t] = Fresh(t) /\ Shape(th[t]) /\ Asks(t, th[t])
                        /\ HoldsOf(th[t]) = {} /\ th[t].pc \notin {"recv", "wait"} /\ th[t].s = 0
  BY <1>1, FreshShape
<1>3. inuse \in 0..setup.inuse /\ command \in 1..Commands
  BY <1>1, CircuitAssumption
<1>4. th \in [Thread -> Record] /\ table \in [Fd -> Entry]
  BY <1>1, <1>2 DEF Entry
<1>5. requests \in Seq([port : Int, asker : (1..Commands) \X Thread]) /\ replies \in Seq(Message)
  BY <1>1
<1>6. TypeOK
  BY <1>1, <1>3, <1>4, <1>5 DEF TypeOK, Record, Entry
<1>7. Shapes /\ Waiting
  BY <1>1, <1>2, CircuitAssumption DEF Shapes, Waiting, Pc
<1>8. Kept
  <2>1. NoLeak /\ OwnReply
    BY <1>1 DEF NoLeak, OwnReply
  <2>2. OwnDescriptors
    BY <1>2 DEF OwnDescriptors, Holds, HoldsOf
  <2>3. Apart /\ ToldPort
    BY <1>2 DEF Apart, ToldPort, Pc
  <2>. QED
    BY <2>1, <2>2, <2>3 DEF Kept
<1>9. Exchange
  BY <1>1 DEF Exchange
<1>. QED
  BY <1>6, <1>7, <1>8, <1>9 DEF IInv

LEMMA Stutter ==
  ASSUME IInv, UNCHANGED vars
  PROVE  IInv'
<1>1. TypeOK' /\ Exchange' /\ Shapes' /\ Waiting'
  BY DEF vars, IInv, TypeOK, Exchange, Shapes, Waiting, Asks, Proto, Pc, Asker
<1>2. Kept'
  BY ServerKept DEF vars
<1>. QED
  BY <1>1, <1>2 DEF IInv

LEMMA Inductive ==
  ASSUME IInv, [Next]_vars
  PROVE  IInv'
<1>1. CASE Serve \/ Interrupt
  BY <1>1, ServeKept, InterruptKept
<1>2. CASE NextCommand \/ Killed
  BY <1>2, NewCommandKept
<1>3. ASSUME NEW t \in Thread, Step(t) \/ RecvNothing(t) \/ Daemon(t)
      PROVE  IInv'
  BY <1>3, BeginMrshKept, AskKept, RecvKept, RecvNothingKept, DaemonKept DEF Step
<1>4. CASE UNCHANGED vars
  BY <1>4, Stutter
<1>. QED
  BY <1>1, <1>2, <1>3, <1>4 DEF Next

\* The inductive invariant holds in every session, whatever the daemons, the limit on open
\* files, interrupts and ends of commands do.
LEMMA Invariance == Spec => []IInv
<1>1. Init => IInv
  BY Initial
<1>2. IInv /\ [Next]_vars => IInv'
  BY Inductive
<1>. QED
  BY <1>1, <1>2, PTL DEF Spec

\* No way out of xrcmd, k4cmd or mcmd leaves a descriptor open that its thread does not know,
\* and, with every reply a message, no thread has another's or a closed one.
THEOREM DescriptorsAreKept == Spec => []DescriptorsKept
<1>1. IInv => DescriptorsKept
  BY DEF IInv, Kept, DescriptorsKept
<1>. QED
  BY <1>1, Invariance, PTL

\* privsep_mutex gives each thread the reply of the port server to its own request, as
\* long as no command was ended between the two.
THEOREM RepliesAreOwn == Spec => []OwnReply
<1>1. IInv => OwnReply
  BY DEF IInv, Kept
<1>. QED
  BY <1>1, Invariance, PTL

\* The port a daemon is told is that of the socket the thread waits on, even when
\* replies are out of step.
THEOREM PortIsTold == Spec => []ToldPort
<1>1. IInv => ToldPort
  BY DEF IInv, Kept
<1>. QED
  BY <1>1, Invariance, PTL

=============================================================================
