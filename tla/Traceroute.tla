----------------------------- MODULE Traceroute -----------------------------
(***************************************************************************)
(* "Computer Networks/P1": traceroute.  In every turn of its loop main()   *)
(* sends three probes with one time-to-live, and pick_messages collects    *)
(* their answers for a second.  One action is one turn of one of these     *)
(* loops; a probe and its time stamp are one action.                       *)
(*                                                                         *)
(* The routers and the network are not in the repository: a probe may be   *)
(* lost, answered by another router than the one before it, in a later     *)
(* turn, out of order and twice, and the raw socket also gets the packets  *)
(* of other programs.  Only differences of times are used, so the clock    *)
(* starts anew in every turn.                                              *)
(***************************************************************************)
EXTENDS Integers, Sequences, FiniteSets

CONSTANTS
  MaxTtl,     \* the turns of main(): 30
  Second,     \* the timeout of pick_messages, in ticks
  Pid,        \* getpid()
  IdLimit,    \* values of the identifier of an ICMP packet: 2^16
  Addresses,  \* of the hosts that answer
  Dest,       \* the argument of main()
  Answerers,  \* Answerers[ttl]: who may answer a probe with that time-to-live
  Strays,     \* packets for other programs of this host, and other kinds of packets
  MaxBusy,    \* bound: ticks of a turn in which the program is not in select
  MaxExtra,   \* bound: strays and second copies of answers
  MaxSocket   \* bound: packets in the socket; more are lost

Numbers == 0..2

\* A packet as check_message sees it: identifier and sequence number of the
\* (original) echo request.  The number of the probe is not in the packet.
Packets == [id : Nat, seq : Nat, probe : Numbers, from : Addresses]

ASSUME TimesAssumption ==
  /\ MaxTtl \in Nat \ {0}
  /\ {Second, MaxBusy, MaxExtra, MaxSocket} \subseteq Nat
  /\ Pid \in Nat /\ IdLimit \in Nat \ {0}

ASSUME HostsAssumption ==
  /\ Dest \in Addresses
  /\ Answerers \in [1..MaxTtl -> SUBSET Addresses]

\* Programs that run at the same time have different identifiers.
ASSUME StraysAssumption == Strays \subseteq {m \in Packets : m.id # Pid}

VARIABLES
  pc,            \* "send", "pick", "print", "done", "failed"
  ttl,
  i,             \* main(): the probes of this turn sent so far
  timestamps,
  left,          \* what select has left of tv
  listed,        \* the addresses in reply, which are those in ips
  dest_reached,
  counted,       \* the packets counted in this turn and when; packet_num of them
  sent_at,       \* when the probes of this turn were sent (history)
  now,           \* the clock
  socket,        \* packets that wait to be received
  net,           \* probes on their way
  extra          \* strays and second copies so far

replyVars   == <<listed, dest_reached, counted>>
timeVars    == <<now, left>>
networkVars == <<socket, net, extra>>
vars == <<pc, ttl, i, timestamps, sent_at, replyVars, timeVars, networkVars>>

packet_num == Len(counted)

\* What a new turn of main() and a call of pick_messages start with.
NewTurn ==
  /\ i' = 0
  /\ timestamps' = [n \in Numbers |-> 0]
  /\ sent_at' = [n \in Numbers |-> 0]
  /\ now' = 0 /\ left' = Second
  /\ listed' = <<>> /\ dest_reached' = FALSE /\ counted' = <<>>

Init ==
  /\ pc = "send" /\ ttl = 1
  /\ i = 0
  /\ timestamps = [n \in Numbers |-> 0]
  /\ sent_at = [n \in Numbers |-> 0]
  /\ now = 0 /\ left = Second
  /\ listed = <<>> /\ dest_reached = FALSE /\ counted = <<>>
  /\ socket = <<>> /\ net = {} /\ extra = 0

-----------------------------------------------------------------------------
(* main(): send_icmp_request and the time stamp.                           *)

\* The identifier is the lower half of the process id.
Probe(n) == [id |-> Pid % IdLimit, seq |-> ttl, probe |-> n]

SendProbe ==
  /\ pc = "send"
  /\ net' = net \cup {Probe(i)}
  /\ timestamps' = [timestamps EXCEPT ![i] = now]
  /\ sent_at' = [sent_at EXCEPT ![i] = now]
  /\ i' = i + 1
  /\ pc' = IF i + 1 < 3 THEN "send" ELSE "pick"
  /\ UNCHANGED <<ttl, replyVars, timeVars, socket, extra>>

-----------------------------------------------------------------------------
(* pick_messages.                                                          *)

\* Faulty variant: answers to other programs are not told apart.
IsAnyones(m) == m.seq = ttl

\* check_message.
IsOurs(m) == m.id = Pid /\ m.seq = ttl

\* Faulty variant: the stamp is taken after packet_num has moved.
CountLate(m) ==
  /\ counted' = Append(counted, [packet |-> m, at |-> now])
  /\ timestamps' = [timestamps EXCEPT ![packet_num + 1] = now - @]

\* The answer number packet_num is timed against the probe of that number.
Count(m) ==
  /\ counted' = Append(counted, [packet |-> m, at |-> now])
  /\ timestamps' = [timestamps EXCEPT ![packet_num] = now - @]

\* unique_ip, and what follows from it.  The third answer leaves the loop
\* before it comes here.
NewAddress(m) == packet_num < 2 /\ \A k \in 1..Len(listed) : listed[k] # m.from

ListAddress(m) ==
  IF NewAddress(m)
  THEN /\ listed' = Append(listed, m.from)
       /\ dest_reached' = (dest_reached \/ m.from = Dest)
  ELSE UNCHANGED <<listed, dest_reached>>

\* Faulty variant: a fourth answer is waited for.
ReceiveFour ==
  /\ pc = "pick" /\ socket # <<>>
  /\ socket' = Tail(socket)
  /\ LET m == Head(socket) IN
     \/ /\ IsOurs(m)
        /\ Count(m) /\ ListAddress(m)
        /\ pc' = IF packet_num < 3 THEN "pick" ELSE "print"
     \/ /\ ~IsOurs(m)
        /\ UNCHANGED <<pc, timestamps, replyVars>>
  /\ UNCHANGED <<ttl, i, sent_at, timeVars, net, extra>>

Receive ==
  /\ pc = "pick" /\ socket # <<>>
  /\ socket' = Tail(socket)
  /\ LET m == Head(socket) IN
     \/ /\ IsOurs(m)
        /\ Count(m) /\ ListAddress(m)
        /\ pc' = IF packet_num + 1 < 3 THEN "pick" ELSE "print"
     \/ /\ ~IsOurs(m)
        /\ UNCHANGED <<pc, timestamps, replyVars>>
  /\ UNCHANGED <<ttl, i, sent_at, timeVars, net, extra>>

\* The program is in select and nothing has come.
Waiting == pc = "pick" /\ socket = <<>>

\* Faulty variant: after the timeout select is called again.
TimeOutGoesOn ==
  /\ Waiting /\ left = 0
  /\ UNCHANGED vars

TimeOut ==
  /\ Waiting /\ left = 0
  /\ pc' = "print"
  /\ UNCHANGED <<ttl, i, timestamps, sent_at, replyVars, timeVars, networkVars>>

\* sendto, select or recvfrom fails: main() returns without printing.
Fail ==
  /\ pc \in {"send", "pick"}
  /\ pc' = "failed"
  /\ UNCHANGED <<ttl, i, timestamps, sent_at, replyVars, timeVars, networkVars>>

-----------------------------------------------------------------------------
(* main() prints the reply, and goes on unless the destination answered.   *)

LastTurn == dest_reached \/ ttl = MaxTtl

PrintReply ==
  /\ pc = "print"
  /\ \/ /\ LastTurn
        /\ pc' = "done"
        /\ UNCHANGED <<ttl, i, timestamps, sent_at, replyVars, timeVars>>
     \/ /\ ~LastTurn
        /\ pc' = "send" /\ ttl' = ttl + 1
        /\ NewTurn
  /\ UNCHANGED networkVars

Program == SendProbe \/ Receive \/ TimeOut \/ PrintReply

-----------------------------------------------------------------------------
(* The clock, the routers and other programs.                              *)

Busy == now - (Second - left)

\* Time that passes in select is taken off tv.
Tick ==
  /\ \/ Waiting /\ left > 0 /\ left' = left - 1
     \/ /\ pc = "send" \/ (pc = "pick" /\ socket # <<>>)
        /\ Busy < MaxBusy
        /\ UNCHANGED left
  /\ now' = now + 1
  /\ UNCHANGED <<pc, ttl, i, timestamps, sent_at, replyVars, networkVars>>

Arrive(m) ==
  /\ pc \in {"send", "pick", "print"} /\ Len(socket) < MaxSocket
  /\ socket' = Append(socket, m)
  /\ UNCHANGED <<pc, ttl, i, timestamps, sent_at, replyVars, timeVars>>

\* Some router answers a probe: its time has run out, or it is the destination.
Answer(p, r) ==
  /\ r \in Answerers[p.seq]
  /\ Arrive([id |-> p.id, seq |-> p.seq, probe |-> p.probe, from |-> r])

AnswerOnce(p, r) ==
  Answer(p, r) /\ net' = net \ {p} /\ UNCHANGED extra

AnswerTwice(p, r) ==
  Answer(p, r) /\ extra < MaxExtra /\ extra' = extra + 1 /\ UNCHANGED net

ReceiveStray(m) ==
  Arrive(m) /\ extra < MaxExtra /\ extra' = extra + 1 /\ UNCHANGED net

\* The program has ended.
Ended == pc \in {"done", "failed"} /\ UNCHANGED vars

Next ==
  \/ Program \/ Fail \/ Tick \/ Ended
  \/ \E p \in net, r \in Addresses : AnswerOnce(p, r) \/ AnswerTwice(p, r)
  \/ \E m \in Strays : ReceiveStray(m)

Spec == Init /\ [][Next]_vars

\* The program runs on, and time passes while it waits.
FairSpec == Spec /\ WF_vars(Program) /\ WF_vars(Tick)

-----------------------------------------------------------------------------
CountedType == [packet : Packets, at : Nat]

\* The type of every variable, with the bounds of the counters: no more than
\* three answers are counted, and reply and ips have room for all addresses.
TypeOK ==
  /\ pc \in {"send", "pick", "print", "done", "failed"}
  /\ ttl \in 1..MaxTtl
  /\ i \in 0..3 /\ (pc = "send" => i < 3)
  /\ timestamps \in [Numbers -> Int]
  /\ sent_at \in [Numbers -> Nat]
  /\ now \in Nat /\ left \in 0..Second
  /\ listed \in Seq(Addresses) /\ Len(listed) <= 2
  /\ dest_reached \in BOOLEAN
  /\ counted \in Seq(CountedType) /\ packet_num <= 3
  /\ socket \in Seq(Packets)
  /\ net \subseteq [id : Nat, seq : 1..MaxTtl, probe : Numbers]
  /\ extra \in Nat

\* The n-th answer is timed against the n-th probe (pick_msg.c:91), whichever
\* it answers.  The printed average is right all the same: if three answers
\* belong to three probes of the turn, the sum of the differences is that of
\* the true times, in whatever order the answers come and however late those
\* of earlier turns are.
Sum == timestamps[0] + timestamps[1] + timestamps[2]
TrueTime(c) == c.at - sent_at[c.packet.probe]
ThreeAnswered ==
  /\ pc = "print" /\ packet_num = 3
  /\ \A k, l \in 1..3 :
       counted[k].packet.probe = counted[l].packet.probe => k = l

AverageIsTrue ==
  ThreeAnswered =>
    Sum = TrueTime(counted[1]) + TrueTime(counted[2]) + TrueTime(counted[3])

\* The comments at main.c:67 and pick_msg.c:111: the trace ends before its
\* last turn only if the destination answered a probe of the turn, not by a
\* late answer or one to another program; and it goes on only if the
\* destination did not answer, or was the third to do so.
DestinationAnswered(numbers) ==
  \E k \in numbers :
    LET m == counted[k].packet
    IN  m.from = Dest /\ m.seq = ttl /\ m.id = Pid

StopsAtDestination ==
  [][/\ pc = "print" /\ pc' = "done" /\ ttl < MaxTtl
          => DestinationAnswered(1..packet_num)
     /\ pc = "print" /\ pc' = "send"
          => ~DestinationAnswered(1..packet_num \ {3})]_vars

\* Unless foreign packets come without end, the trace ends, whatever is lost:
\* pick_messages looks at its timeout only when no packet waits.
Ends == <>(pc \in {"done", "failed"})
=============================================================================
