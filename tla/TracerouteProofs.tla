-------------------------- MODULE TracerouteProofs --------------------------
(***************************************************************************)
(* Proofs about Traceroute, for any timeout, number of turns, routers and  *)
(* foreign packets.                                                        *)
(***************************************************************************)
EXTENDS Traceroute, TLAPS

\* Every stamp is either the time of its probe or, once the answer of that
\* number has come, the difference to it.
StampsAgree ==
  \A n \in Numbers :
    timestamps[n] = IF n < packet_num THEN counted[n + 1].at - sent_at[n]
                                      ELSE sent_at[n]

\* What is counted answers a probe of this turn.
CountsOwn ==
  \A k \in 1..packet_num :
    counted[k].packet.seq = ttl /\ counted[k].packet.id = Pid

\* dest_reached tells whether the destination is among the first two.
Reached(answers, addresses, reached) ==
  /\ reached => \E k \in 1..Len(answers) : answers[k].packet.from = Dest
  /\ \A k \in 1..Len(answers) :
       k # 3 /\ answers[k].packet.from = Dest => reached
  /\ \A k \in 1..Len(addresses) : addresses[k] = Dest => reached

ReachedAgrees == Reached(counted, listed, dest_reached)

\* Where the program is limits what has been counted.
Stages ==
  /\ pc = "send" => packet_num = 0
  /\ pc = "pick" => packet_num < 3
  /\ Len(listed) <= packet_num

Inv == TypeOK /\ StampsAgree /\ CountsOwn /\ ReachedAgrees /\ Stages

USE DEF packet_num

LEMMA BelowThree == \A k \in Nat : k < 3 => k = 2 \/ k < 2
  OBVIOUS

\* The last of a sequence and the ones before it.
LEMMA AppendElements ==
  ASSUME NEW S, NEW s \in Seq(S), NEW x \in S
  PROVE  /\ Len(Append(s, x)) = Len(s) + 1 /\ Len(s) \in Nat
         /\ Append(s, x)[Len(s) + 1] = x
         /\ \A k \in 1..Len(s) : k \in 1..Len(s) + 1 /\ Append(s, x)[k] = s[k]
         /\ \A k \in 1..Len(s) + 1 : k = Len(s) + 1 \/ k \in 1..Len(s)
         /\ Len(s) + 1 \in 1..Len(s) + 1
  OBVIOUS

\* One more answer keeps Reached, if its address is new or listed already, or
\* it is the third.
LEMMA ReachedStep ==
  ASSUME NEW answers \in Seq(CountedType), NEW c \in CountedType,
         NEW addresses \in Seq(Addresses), c.packet.from \in Addresses,
         NEW more \in Seq(Addresses), NEW reached, NEW reached2,
         Reached(answers, addresses, reached),
         \/ /\ more = Append(addresses, c.packet.from)
            /\ reached2 <=> (reached \/ c.packet.from = Dest)
         \/ /\ more = addresses /\ (reached2 <=> reached)
            /\ Len(answers) # 2 => (c.packet.from = Dest => reached)
  PROVE  Reached(Append(answers, c), more, reached2)
  <1> DEFINE a == Append(answers, c)
             n == Len(answers) + 1
  <1>1. /\ Len(a) = n /\ a[n] = c /\ n \in 1..n
        /\ \A k \in 1..Len(answers) : k \in 1..n /\ a[k] = answers[k]
        /\ \A k \in 1..n : k = n \/ k \in 1..Len(answers)
    BY AppendElements
  <1>2. n # 3 => Len(answers) # 2
    <2> SUFFICES ASSUME Len(answers) = 2 PROVE n = 3
      OBVIOUS
    <2> QED
      OBVIOUS
  <1>3. /\ reached => \E k \in 1..Len(answers) : answers[k].packet.from = Dest
        /\ \A k \in 1..Len(answers) :
             k # 3 /\ answers[k].packet.from = Dest => reached
        /\ \A k \in 1..Len(addresses) : addresses[k] = Dest => reached
    BY DEF Reached
  <1>4. \A k \in 1..Len(more) : more[k] = Dest => reached2
    <2>1. CASE more = addresses /\ (reached2 <=> reached)
      BY <1>3, <2>1
    <2>2. CASE /\ more = Append(addresses, c.packet.from)
               /\ reached2 <=> (reached \/ c.packet.from = Dest)
      <3>1. /\ Len(more) = Len(addresses) + 1
            /\ more[Len(addresses) + 1] = c.packet.from
            /\ \A k \in 1..Len(addresses) : more[k] = addresses[k]
            /\ \A k \in 1..Len(addresses) + 1 :
                 k = Len(addresses) + 1 \/ k \in 1..Len(addresses)
        BY <2>2, AppendElements
      <3> QED
        BY <1>3, <2>2, <3>1, Zenon
    <2> QED
      BY <2>1, <2>2
  <1> HIDE DEF a, n
  <1>5. reached2 => \E k \in 1..n : a[k].packet.from = Dest
    BY <1>1, <1>3, Zenon
  <1>6. \A k \in 1..n : k # 3 /\ a[k].packet.from = Dest => reached2
    BY <1>1, <1>2, <1>3, Zenon
  <1> QED
    BY <1>1, <1>4, <1>5, <1>6 DEF Reached, a

-----------------------------------------------------------------------------
(* Identifiers.                                                            *)

\* A remainder is a natural number.
LEMMA IdNat == Pid % IdLimit \in Nat
  BY TimesAssumption

\* What a turn starts with.
LEMMA StartTyped ==
  /\ Second \in Nat /\ Second \in 0..Second
  /\ 1 \in 1..MaxTtl /\ 0 \in 0..3 /\ 0 < 3 /\ 0 \in Nat
  /\ [n \in Numbers |-> 0] \in [Numbers -> Int]
  /\ [n \in Numbers |-> 0] \in [Numbers -> Nat]
  /\ <<>> \in Seq(Addresses) /\ <<>> \in Seq(CountedType) /\ <<>> \in Seq(Packets)
  /\ Len(<<>>) = 0 /\ Len(<<>>) <= 2 /\ Len(<<>>) <= 3
  /\ FALSE \in BOOLEAN
  <1>1. Second \in Nat /\ MaxTtl \in Nat \ {0}
    BY TimesAssumption
  <1> QED
    BY <1>1

\* What the network puts into the socket is a packet.
LEMMA AnswerIsPacket ==
  ASSUME TypeOK, NEW p \in net, NEW r \in Answerers[p.seq]
  PROVE  [id |-> p.id, seq |-> p.seq, probe |-> p.probe, from |-> r] \in Packets
  <1>1. p \in [id : Nat, seq : 1..MaxTtl, probe : Numbers]
    BY DEF TypeOK
  <1>2. r \in Addresses
    BY <1>1, HostsAssumption
  <1> QED
    BY <1>1, <1>2, TimesAssumption DEF Packets

-----------------------------------------------------------------------------
(* Inv holds initially and is kept by every action.                        *)

LEMMA InitInv == Init => Inv
  <1> SUFFICES ASSUME Init PROVE Inv
    OBVIOUS
  <1>1. TypeOK
    <2>1. /\ pc \in {"send", "pick", "print", "done", "failed"}
          /\ ttl \in 1..MaxTtl /\ i \in 0..3 /\ i < 3
          /\ now \in Nat /\ left \in 0..Second
      BY StartTyped DEF Init
    <2>2. /\ timestamps \in [Numbers -> Int] /\ sent_at \in [Numbers -> Nat]
          /\ net \subseteq [id : Nat, seq : 1..MaxTtl, probe : Numbers]
          /\ extra \in Nat
      BY StartTyped DEF Init
    <2>3. /\ listed \in Seq(Addresses) /\ Len(listed) <= 2
          /\ counted \in Seq(CountedType) /\ packet_num <= 3
          /\ socket \in Seq(Packets)
      BY StartTyped DEF Init
    <2>4. dest_reached \in BOOLEAN
      BY DEF Init
    <2> QED
      BY <2>1, <2>2, <2>3, <2>4 DEF TypeOK
  <1>2. StampsAgree /\ CountsOwn /\ ReachedAgrees /\ Stages
    BY DEF Init, StampsAgree, CountsOwn, ReachedAgrees, Reached, Stages, Numbers
  <1> QED
    BY <1>1, <1>2 DEF Inv

LEMMA SendProbeKeepsInv == Inv /\ SendProbe => Inv'
  <1> SUFFICES ASSUME Inv, SendProbe PROVE Inv'
    OBVIOUS
  <1> USE DEF Inv
  <1>1. i \in Numbers /\ packet_num = 0 /\ counted = <<>>
    BY DEF SendProbe, TypeOK, Stages, Numbers
  <1>2. TypeOK'
    <2>1. Probe(i) \in [id : Nat, seq : 1..MaxTtl, probe : Numbers]
      BY <1>1, IdNat DEF Probe, TypeOK
    <2>2. i' \in 0..3 /\ (pc' = "send" => i' < 3)
      BY <1>1 DEF SendProbe, Numbers
    <2> QED
      BY <1>1, <2>1, <2>2 DEF SendProbe, TypeOK, replyVars, timeVars
  <1>3. StampsAgree'
    BY <1>1 DEF SendProbe, StampsAgree, TypeOK, replyVars, Numbers
  <1>4. CountsOwn' /\ ReachedAgrees' /\ Stages'
    BY <1>1 DEF SendProbe, CountsOwn, ReachedAgrees, Reached, Stages, replyVars, TypeOK
  <1> QED
    BY <1>2, <1>3, <1>4

LEMMA ReceiveKeepsInv == Inv /\ Receive => Inv'
  <1> SUFFICES ASSUME Inv, Receive PROVE Inv'
    OBVIOUS
  <1> USE DEF Inv
  <1> DEFINE m == Head(socket)
  <1>1. m \in Packets /\ socket' \in Seq(Packets)
    BY DEF Receive, TypeOK
  <1>2. CASE ~IsOurs(m)
    BY <1>1, <1>2 DEF Receive, TypeOK, StampsAgree, CountsOwn, ReachedAgrees,
       Stages, replyVars, timeVars
  <1>3. CASE IsOurs(m)
    <2> DEFINE c == [packet |-> m, at |-> now]
    <2>1. /\ Count(m) /\ ListAddress(m)
          /\ pc' = IF packet_num + 1 < 3 THEN "pick" ELSE "print"
          /\ UNCHANGED <<ttl, i, sent_at, timeVars, net, extra>>
          /\ pc = "pick"
      BY <1>3 DEF Receive
    <2>2. /\ c \in CountedType
          /\ counted' = Append(counted, c)
          /\ counted \in Seq(CountedType) /\ packet_num \in Nat /\ packet_num < 3
      BY <1>1, <2>1 DEF Count, CountedType, TypeOK, Stages
    <2>3. /\ counted' \in Seq(CountedType)
          /\ packet_num' = packet_num + 1
          /\ counted'[packet_num + 1] = c
          /\ \A k \in 1..packet_num : counted'[k] = counted[k]
      BY <2>2
    <2>4. /\ listed' \in Seq(Addresses) /\ Len(listed') <= packet_num'
          /\ Len(listed') <= 2
          /\ dest_reached' \in BOOLEAN
      <3>1. CASE NewAddress(m)
        <4>1. /\ listed' = Append(listed, m.from) /\ packet_num < 2
              /\ dest_reached' = (dest_reached \/ m.from = Dest)
          BY <2>1, <3>1 DEF ListAddress, NewAddress
        <4>2. listed \in Seq(Addresses) /\ m.from \in Addresses
          BY <1>1 DEF TypeOK, Packets
        <4>3. /\ listed' \in Seq(Addresses)
              /\ Len(listed') = Len(listed) + 1 /\ Len(listed) \in Nat
          BY <4>1, <4>2
        <4>4. Len(listed) <= packet_num
          BY DEF Stages
        <4>5. Len(listed') <= packet_num' /\ Len(listed') <= 2
          BY <2>2, <2>3, <4>1, <4>3, <4>4
        <4> QED
          BY <4>1, <4>3, <4>5 DEF TypeOK
      <3>2. CASE ~NewAddress(m)
        BY <2>1, <2>2, <2>3, <3>2 DEF ListAddress, TypeOK, Stages
      <3> QED
        BY <3>1, <3>2
    <2>5. timestamps' = [timestamps EXCEPT ![packet_num] = now - @]
      BY <2>1 DEF Count
    <2>6. TypeOK'
      <3>1. timestamps' \in [Numbers -> Int]
        <4>1. timestamps \in [Numbers -> Int] /\ now \in Int
          BY DEF TypeOK
        <4> HIDE DEF m, c
        <4>2. \A n \in Numbers : now - timestamps[n] \in Int
          BY <4>1
        <4> QED
          BY <2>5, <4>1, <4>2
      <3>2. packet_num' <= 3 /\ pc' \in {"pick", "print"}
        BY <2>1, <2>2, <2>3
      <3>3. /\ sent_at' = sent_at /\ i' = i /\ ttl' = ttl /\ now' = now
            /\ left' = left /\ net' = net /\ extra' = extra
        BY <2>1 DEF timeVars
      <3>4. /\ pc' \in {"send", "pick", "print", "done", "failed"}
            /\ ttl' \in 1..MaxTtl /\ i' \in 0..3 /\ (pc' = "send" => i' < 3)
            /\ now' \in Nat /\ left' \in 0..Second
        BY <3>2, <3>3 DEF TypeOK
      <3>5. /\ sent_at' \in [Numbers -> Nat]
            /\ net' \subseteq [id : Nat, seq : 1..MaxTtl, probe : Numbers]
            /\ extra' \in Nat
        BY <3>3 DEF TypeOK
      <3> HIDE DEF m, c
      <3> QED
        BY <1>1, <2>3, <2>4, <3>1, <3>2, <3>4, <3>5 DEF TypeOK
    <2>7. StampsAgree'
      <3> SUFFICES ASSUME NEW n \in Numbers
                   PROVE  timestamps'[n] = IF n < packet_num'
                                           THEN counted'[n + 1].at - sent_at[n]
                                           ELSE sent_at[n]
        BY <2>1 DEF StampsAgree
      <3> DEFINE k == packet_num
      <3>1. k \in Nat /\ k' = k + 1 /\ n \in Nat
        BY <2>2, <2>3 DEF Numbers
      <3>2. timestamps \in [Numbers -> Int]
        BY DEF TypeOK
      <3>3. CASE n = k
        <4>1. timestamps[n] = sent_at[n]
          BY <3>1, <3>3 DEF StampsAgree
        <4>2. timestamps'[n] = now - timestamps[n]
          BY <2>5, <3>2, <3>3
        <4>3. counted'[n + 1].at = now
          BY <2>3, <3>3
        <4> QED
          BY <3>1, <3>3, <4>1, <4>2, <4>3
      <3>4. CASE n < k
        <4>1. timestamps[n] = counted[n + 1].at - sent_at[n]
          BY <3>4 DEF StampsAgree
        <4>2. timestamps'[n] = timestamps[n]
          BY <2>5, <3>1, <3>2, <3>4
        <4>3. counted'[n + 1] = counted[n + 1]
          BY <2>3, <3>1, <3>4
        <4> QED
          BY <3>1, <3>4, <4>1, <4>2, <4>3
      <3>5. CASE n > k
        <4>1. timestamps[n] = sent_at[n]
          BY <3>1, <3>5 DEF StampsAgree
        <4>2. timestamps'[n] = timestamps[n]
          BY <2>5, <3>1, <3>2, <3>5
        <4> QED
          BY <3>1, <3>5, <4>1, <4>2
      <3> QED
        BY <3>1, <3>3, <3>4, <3>5
    <2>8. CountsOwn'
      <3> SUFFICES ASSUME NEW k \in 1..packet_num'
                   PROVE  counted'[k].packet.seq = ttl /\ counted'[k].packet.id = Pid
        BY <2>1 DEF CountsOwn
      <3>1. CASE k = packet_num + 1
        BY <1>3, <2>3, <3>1 DEF IsOurs
      <3>2. CASE k \in 1..packet_num
        BY <2>3, <3>2 DEF CountsOwn
      <3> QED
        BY <2>2, <2>3, <3>1, <3>2
    <2>9. ReachedAgrees'
      <3>1. /\ listed \in Seq(Addresses) /\ m.from \in Addresses
            /\ c.packet.from = m.from
        BY <1>1 DEF TypeOK, Packets
      <3>2. Reached(counted, listed, dest_reached)
        BY DEF ReachedAgrees
      <3>3. \/ /\ listed' = Append(listed, m.from)
               /\ dest_reached' <=> (dest_reached \/ m.from = Dest)
            \/ /\ listed' = listed /\ (dest_reached' <=> dest_reached)
               /\ packet_num # 2 => (m.from = Dest => dest_reached)
        <4>1. CASE NewAddress(m)
          BY <2>1, <4>1 DEF ListAddress
        <4>2. CASE ~NewAddress(m)
          <5>1. listed' = listed /\ dest_reached' = dest_reached
            BY <2>1, <4>2 DEF ListAddress
          <5>2. packet_num # 2 => packet_num < 2
            <6> HIDE DEF m, c
            <6>1. packet_num \in Nat /\ packet_num < 3
              BY <2>2
            <6> QED
              BY <6>1, BelowThree, Zenon
          <5> QED
            BY <3>2, <4>2, <5>1, <5>2 DEF NewAddress, Reached
        <4> QED
          BY <4>1, <4>2
      <3>4. Reached(counted', listed', dest_reached')
        <4> HIDE DEF m, c
        <4> QED
          BY <2>2, <2>4, <3>1, <3>2, <3>3, ReachedStep
      <3> QED
        BY <3>4 DEF ReachedAgrees
    <2>10. Stages'
      BY <2>1, <2>2, <2>3, <2>4 DEF Stages
    <2> QED
      BY <2>6, <2>7, <2>8, <2>9, <2>10
  <1> QED
    BY <1>2, <1>3

\* Neither a timeout nor a failure changes more than pc.
LEMMA TimeOutKeepsInv == Inv /\ (TimeOut \/ Fail) => Inv'
  <1> SUFFICES ASSUME Inv, TimeOut \/ Fail PROVE Inv'
    OBVIOUS
  <1>1. /\ pc' \in {"print", "failed"}
        /\ UNCHANGED <<ttl, i, timestamps, sent_at, listed, dest_reached,
                       counted, now, left, socket, net, extra>>
    BY DEF TimeOut, Fail, replyVars, timeVars, networkVars
  <1>2. TypeOK'
    BY <1>1 DEF Inv, TypeOK
  <1>3. StampsAgree' /\ CountsOwn' /\ ReachedAgrees' /\ Stages'
    BY <1>1 DEF Inv, StampsAgree, CountsOwn, ReachedAgrees, Stages
  <1> QED
    BY <1>2, <1>3 DEF Inv

LEMMA PrintKeepsInv == Inv /\ PrintReply => Inv'
  <1> SUFFICES ASSUME Inv, PrintReply PROVE Inv'
    OBVIOUS
  <1> USE DEF Inv
  <1>1. CASE LastTurn
    BY <1>1 DEF PrintReply, TypeOK, StampsAgree, CountsOwn, ReachedAgrees,
       Stages, replyVars, timeVars, networkVars
  <1>2. CASE ~LastTurn
    <2>1. /\ pc' = "send" /\ ttl' = ttl + 1 /\ NewTurn
          /\ UNCHANGED networkVars
      BY <1>2 DEF PrintReply
    <2>2. ttl' \in 1..MaxTtl
      BY <1>2, <2>1, TimesAssumption DEF LastTurn, TypeOK
    <2>3. TypeOK'
      <3>1. /\ pc' \in {"send", "pick", "print", "done", "failed"}
            /\ i' \in 0..3 /\ i' < 3 /\ now' \in Nat /\ left' \in 0..Second
        BY <2>1, StartTyped DEF NewTurn
      <3>2. timestamps' \in [Numbers -> Int] /\ sent_at' \in [Numbers -> Nat]
        BY <2>1, StartTyped DEF NewTurn
      <3>3. /\ net' \subseteq [id : Nat, seq : 1..MaxTtl, probe : Numbers]
            /\ extra' \in Nat /\ socket' \in Seq(Packets)
        BY <2>1 DEF networkVars, TypeOK
      <3>4. /\ listed' \in Seq(Addresses) /\ Len(listed') <= 2
            /\ counted' \in Seq(CountedType) /\ packet_num' <= 3
        BY <2>1, StartTyped DEF NewTurn
      <3>5. dest_reached' \in BOOLEAN
        BY <2>1 DEF NewTurn
      <3> QED
        BY <2>2, <3>1, <3>2, <3>3, <3>4, <3>5 DEF TypeOK
    <2>4. StampsAgree' /\ CountsOwn' /\ ReachedAgrees' /\ Stages'
      BY <2>1 DEF NewTurn, StampsAgree, CountsOwn, ReachedAgrees, Reached, Stages,
         Numbers
    <2> QED
      BY <2>3, <2>4
  <1> QED
    BY <1>1, <1>2

LEMMA TickKeepsInv == Inv /\ Tick => Inv'
  <1> SUFFICES ASSUME Inv, Tick PROVE Inv'
    OBVIOUS
  <1> USE DEF Inv
  <1>1. now' \in Nat /\ left' \in 0..Second
    BY TimesAssumption DEF Tick, TypeOK
  <1> QED
    BY <1>1 DEF Tick, TypeOK, StampsAgree, CountsOwn, ReachedAgrees,
       Stages, replyVars, networkVars

LEMMA ArriveKeepsInv ==
  ASSUME Inv, NEW m \in Packets, Arrive(m), net' \subseteq net, extra' \in Nat
  PROVE  Inv'
  <1>1. socket' \in Seq(Packets)
    BY DEF Inv, TypeOK, Arrive
  <1> QED
    BY <1>1 DEF Inv, Arrive, TypeOK, StampsAgree, CountsOwn, ReachedAgrees,
       Stages, replyVars, timeVars

LEMMA NetworkKeepsInv ==
  ASSUME Inv,
         \/ \E p \in net, r \in Addresses : AnswerOnce(p, r) \/ AnswerTwice(p, r)
         \/ \E m \in Strays : ReceiveStray(m)
  PROVE  Inv'
  <1>1. CASE \E m \in Strays : ReceiveStray(m)
    <2> PICK m \in Strays : ReceiveStray(m)
      BY <1>1
    <2>1. m \in Packets
      BY StraysAssumption
    <2>2. Arrive(m) /\ net' \subseteq net /\ extra' \in Nat
      BY DEF ReceiveStray, Inv, TypeOK
    <2> QED
      BY <2>1, <2>2, ArriveKeepsInv
  <1>2. CASE \E p \in net, r \in Addresses : AnswerOnce(p, r) \/ AnswerTwice(p, r)
    <2> PICK p \in net, r \in Addresses : AnswerOnce(p, r) \/ AnswerTwice(p, r)
      BY <1>2
    <2> DEFINE m == [id |-> p.id, seq |-> p.seq, probe |-> p.probe, from |-> r]
    <2>1. r \in Answerers[p.seq] /\ Arrive(m)
      BY DEF AnswerOnce, AnswerTwice, Answer
    <2>2. m \in Packets
      BY <2>1, AnswerIsPacket DEF Inv
    <2>3. net' \subseteq net /\ extra' \in Nat
      BY DEF AnswerOnce, AnswerTwice, Inv, TypeOK
    <2> HIDE DEF m
    <2> QED
      BY <2>1, <2>2, <2>3, ArriveKeepsInv
  <1> QED
    BY <1>1, <1>2

LEMMA NextKeepsInv == Inv /\ [Next]_vars => Inv'
  <1> SUFFICES ASSUME Inv, [Next]_vars PROVE Inv'
    OBVIOUS
  <1>1. CASE UNCHANGED vars
    BY <1>1 DEF vars, Inv, TypeOK, StampsAgree, CountsOwn, ReachedAgrees,
       Stages, replyVars, timeVars, networkVars
  <1>2. CASE Ended
    BY <1>1, <1>2 DEF Ended
  <1>3. CASE Program
    BY <1>3, SendProbeKeepsInv, ReceiveKeepsInv, TimeOutKeepsInv, PrintKeepsInv
       DEF Program
  <1>4. CASE Fail
    BY <1>4, TimeOutKeepsInv
  <1>5. CASE Tick
    BY <1>5, TickKeepsInv
  <1>6. CASE \/ \E p \in net, r \in Addresses : AnswerOnce(p, r) \/ AnswerTwice(p, r)
             \/ \E m \in Strays : ReceiveStray(m)
    BY <1>6, NetworkKeepsInv
  <1> QED
    BY <1>1, <1>2, <1>3, <1>4, <1>5, <1>6 DEF Next

\* The inductive invariant holds in every reachable state.
THEOREM Invariance == Spec => []Inv
  BY InitInv, NextKeepsInv, PTL DEF Spec

-----------------------------------------------------------------------------
\* Types and bounds: ips and reply never overflow, three answers at most are
\* counted, and the sequence number stays within the turns of main().
THEOREM TypeCorrect == Spec => []TypeOK
  <1>1. Inv => TypeOK
    BY DEF Inv
  <1> QED
    BY <1>1, Invariance, PTL

\* Three answers to three probes have the numbers 0, 1 and 2 in some order, so
\* that the sum over the answers takes every time of sending once.
LEMMA InvGivesAverage == Inv => AverageIsTrue
  <1> SUFFICES ASSUME Inv, ThreeAnswered
               PROVE  Sum = TrueTime(counted[1]) + TrueTime(counted[2])
                              + TrueTime(counted[3])
    BY DEF AverageIsTrue
  <1> DEFINE P(k) == counted[k].packet.probe
  <1>1. counted \in Seq(CountedType) /\ Len(counted) = 3
    BY DEF Inv, TypeOK, ThreeAnswered
  <1>2. \A k \in 1..3 : counted[k] \in CountedType
    BY <1>1
  <1>3. \A k \in 1..3 : P(k) \in Numbers /\ counted[k].at \in Int
    BY <1>2 DEF CountedType, Packets
  <1>4. \A n \in Numbers : sent_at[n] \in Int
    BY DEF Inv, TypeOK
  <1>5. /\ timestamps[0] = counted[1].at - sent_at[0]
        /\ timestamps[1] = counted[2].at - sent_at[1]
        /\ timestamps[2] = counted[3].at - sent_at[2]
    BY <1>1 DEF Inv, StampsAgree, Numbers
  <1>6. P(1) # P(2) /\ P(1) # P(3) /\ P(2) # P(3)
    BY DEF ThreeAnswered
  <1>7. sent_at[P(1)] + sent_at[P(2)] + sent_at[P(3)]
          = sent_at[0] + sent_at[1] + sent_at[2]
    <2>1. P(1) \in {0, 1, 2} /\ P(2) \in {0, 1, 2} /\ P(3) \in {0, 1, 2}
      BY <1>3 DEF Numbers
    <2> HIDE DEF P
    <2>2. sent_at[0] \in Int /\ sent_at[1] \in Int /\ sent_at[2] \in Int
      BY <1>4 DEF Numbers
    <2> QED
      BY <1>6, <2>1, <2>2
  <1>8. \A k \in 1..3 : sent_at[P(k)] \in Int
    BY <1>3, <1>4
  <1> QED
    BY <1>3, <1>4, <1>5, <1>7, <1>8 DEF Sum, TrueTime, Numbers

\* For any timeout, routers, losses, repetitions, orders and foreign packets,
\* the average that is printed for three answered probes is right, though the
\* answers are not matched to their probes.
THEOREM AverageRight == Spec => []AverageIsTrue
  BY InvGivesAverage, Invariance, PTL

\* The trace ends early only at the destination, and goes on only if the
\* destination was not among the first two to answer.
THEOREM StopsRight == Spec => StopsAtDestination
  <1> DEFINE A ==
        /\ pc = "print" /\ pc' = "done" /\ ttl < MaxTtl
             => DestinationAnswered(1..packet_num)
        /\ pc = "print" /\ pc' = "send"
             => ~DestinationAnswered(1..packet_num \ {3})
  <1>1. Inv /\ [Next]_vars => [A]_vars
    <2> SUFFICES ASSUME Inv, Next PROVE A
      OBVIOUS
    <2>1. CASE pc = "print" /\ pc' \in {"done", "send"}
      <3>1. PrintReply
        BY <2>1 DEF Next, Program, SendProbe, Receive, TimeOut, Waiting, Fail,
           Tick, Ended, AnswerOnce, AnswerTwice, Answer, Arrive, ReceiveStray
      <3>2. CASE LastTurn
        <4>1. /\ pc' = "done" /\ ttl \in 1..MaxTtl
              /\ ttl < MaxTtl => dest_reached
          BY <3>1, <3>2, TimesAssumption DEF PrintReply, LastTurn, Inv, TypeOK
        <4>2. dest_reached => DestinationAnswered(1..packet_num)
          BY DEF Inv, Reached, ReachedAgrees, CountsOwn, DestinationAnswered
        <4> QED
          BY <4>1, <4>2
      <3>3. CASE ~LastTurn
        BY <3>1, <3>3 DEF PrintReply, LastTurn, DestinationAnswered,
           Inv, TypeOK, Reached, ReachedAgrees
      <3> QED
        BY <3>2, <3>3
    <2>2. CASE ~(pc = "print" /\ pc' \in {"done", "send"})
      BY <2>2
    <2> QED
      BY <2>1, <2>2
  <1>2. Spec => [][A]_vars
    BY <1>1, Invariance, PTL DEF Spec
  <1> QED
    BY <1>2 DEF StopsAtDestination
=============================================================================
