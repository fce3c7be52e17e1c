--------------------------- MODULE RoutingProofs ---------------------------
(***************************************************************************)
(* No distance a router of Routing ever has is shorter than the network    *)
(* allows, and no route outlives the silence of the router it leads        *)
(* through: for all routers, networks, distances and limits, whatever      *)
(* fails, recovers or gets lost.  And while nothing does, no network is    *)
(* given up.                                                               *)
(***************************************************************************)
EXTENDS Routing, SequenceTheorems, TLAPS

-----------------------------------------------------------------------------
(* The configuration.                                                      *)

LEMMA Configuration ==
  /\ \A r \in Routers : Attached(r) \subseteq Networks /\ Config[r] \in Seq(Networks)
  /\ \A r \in Routers : \A n \in Attached(r) : <<r, n>> \in Interfaces
  /\ \A r \in Routers : \A n : <<r, n>> \in Interfaces => n \in Attached(r)
  /\ \A i \in Interfaces :
       /\ RouterOf(i) \in Routers
       /\ NetworkOf(i) \in Attached(RouterOf(i))
       /\ i = <<RouterOf(i), NetworkOf(i)>>
       /\ Cost[i] \in Nat
  /\ Infinity \in Nat /\ MaxSilent \in Nat /\ MaxChanges \in Nat
  /\ Limit \in Nat /\ Limit < Infinity
  /\ Leftovers \subseteq Addresses
<1>1. \A r \in Routers : Config[r] \in Seq(Networks)
  BY ConfigAssumption
<1>2. \A r \in Routers : Attached(r) \subseteq Networks
  BY <1>1 DEF Attached
<1>3. \A r \in Routers : \A n \in Attached(r) : <<r, n>> \in Interfaces
  BY DEF Interfaces
<1>4. \A i \in Interfaces :
        /\ RouterOf(i) \in Routers
        /\ NetworkOf(i) \in Attached(RouterOf(i))
        /\ i = <<RouterOf(i), NetworkOf(i)>>
  BY DEF Interfaces, RouterOf, NetworkOf
<1>5. \A r \in Routers : \A n : <<r, n>> \in Interfaces => n \in Attached(r)
  BY <1>4 DEF RouterOf, NetworkOf
<1>6. \A i \in Interfaces : Cost[i] \in Nat
  BY ConfigAssumption
<1> QED BY <1>1, <1>2, <1>3, <1>4, <1>5, <1>6, ConfigAssumption

-----------------------------------------------------------------------------
(* Types.                                                                  *)

Tables(S) == UNION {[D -> S] : D \in SUBSET Networks}

\* What may be in the inbox of router q.
Reports(q) ==
  {t \in Tables(Datagrams) : \A n \in DOMAIN t : NetworkOf(t[n].from) \in Attached(q)}

TypeInv ==
  /\ vector \in [Routers -> Tables(Elements)]
  /\ \A r \in Routers : Attached(r) \subseteq DOMAIN vector[r]
  /\ phase \in [Routers -> {"announce", "receive", "send"}]
  /\ next \in [Routers -> Nat]
  /\ \A r \in Routers : next[r] \in 1..(Len(Config[r]) + 1)
  /\ inbox = [q \in Routers |-> inbox[q]]
  /\ \A q \in Routers : inbox[q] \in Seq(Reports(q))
  /\ turned \subseteq Routers
  /\ up \in [Interfaces -> BOOLEAN]
  /\ running \in [Routers -> BOOLEAN]
  /\ changes \in 0..MaxChanges

LEMMA TableIsTable ==
  ASSUME NEW S, NEW t
  PROVE  t \in Tables(S) <=> IsTable(t, S)
  BY DEF Tables, IsTable

LEMMA TypeInvType == TypeInv => TypeOK
<1> SUFFICES ASSUME TypeInv PROVE TypeOK
  OBVIOUS
<1>1. ASSUME NEW r \in Routers, NEW k \in DOMAIN inbox[r]
      PROVE  /\ IsTable(inbox[r][k], Datagrams)
             /\ \A n \in DOMAIN inbox[r][k] :
                  NetworkOf(inbox[r][k][n].from) \in Attached(r)
  <2>1. inbox[r][k] \in Reports(r)
    BY <1>1 DEF TypeInv
  <2> QED BY <2>1, TableIsTable DEF Reports
<1>2. \A r \in Routers : IsTable(vector[r], Elements)
  BY TableIsTable DEF TypeInv
<1>3. vector = [r \in Routers |-> vector[r]]
  BY DEF TypeInv
<1> QED BY <1>1, <1>2, <1>3 DEF TypeOK, TypeInv

LEMMA Singleton ==
  ASSUME NEW S, NEW x \in S
  PROVE  <<x>> \in Seq(S)
  OBVIOUS

\* If what each router hears of a report is in R, so is what it has in its
\* inbox after the broadcast.
LEMMA BroadcastInto ==
  ASSUME NEW R, NEW report, Broadcast(report),
         \A q \in Routers : inbox[q] \in Seq(R[q]),
         \A q \in Routers : \A heard \in SUBSET DOMAIN report :
           (\A n \in heard : Hears(q, report[n].from))
             => [n \in heard |-> report[n]] \in R[q]
  PROVE  /\ inbox' = [q \in Routers |-> inbox'[q]]
         /\ \A q \in Routers : inbox'[q] \in Seq(R[q])
<1>1. inbox' = [q \in Routers |-> inbox'[q]]
  BY DEF Broadcast
<1>2. ASSUME NEW q \in Routers PROVE inbox'[q] \in Seq(R[q])
  <2> DEFINE heard == {n \in DOMAIN report : Hears(q, report[n].from)}
             part  == [n \in heard |-> report[n]]
  <2>1. part \in R[q]
    OBVIOUS
  <2>2. inbox'[q] = inbox[q] \/ inbox'[q] = Append(inbox[q], part)
    BY DEF Broadcast
  <2>3. Append(inbox[q], part) \in Seq(R[q])
    BY <2>1, AppendProperties
  <2> QED BY <2>2, <2>3
<1> QED BY <1>1, <1>2

\* The same for taking a report from an inbox.
LEMMA TailInto ==
  ASSUME NEW R, NEW r \in Routers, inbox[r] # <<>>,
         inbox = [q \in Routers |-> inbox[q]],
         inbox' = [inbox EXCEPT ![r] = Tail(@)],
         \A q \in Routers : inbox[q] \in Seq(R[q])
  PROVE  /\ Head(inbox[r]) \in R[r]
         /\ inbox' = [q \in Routers |-> inbox'[q]]
         /\ \A q \in Routers : inbox'[q] \in Seq(R[q])
<1>1. Head(inbox[r]) \in R[r] /\ Tail(inbox[r]) \in Seq(R[r])
  BY HeadTailProperties
<1> QED BY <1>1

\* And for a loss, if R has every part of a report that it has.
LEMMA LossInto ==
  ASSUME NEW R, NEW r \in Routers, Lose(r),
         inbox = [q \in Routers |-> inbox[q]],
         \A q \in Routers : inbox[q] \in Seq(R[q]),
         \A t \in R[r] : \A part \in SUBSET DOMAIN t : [n \in part |-> t[n]] \in R[r]
  PROVE  /\ inbox' = [q \in Routers |-> inbox'[q]]
         /\ \A q \in Routers : inbox'[q] \in Seq(R[q])
<1> DEFINE report == Head(inbox[r])
<1>1. report \in R[r] /\ Tail(inbox[r]) \in Seq(R[r])
  BY HeadTailProperties DEF Lose
<1>2. PICK n \in DOMAIN report : inbox' = [inbox EXCEPT ![r] =
             <<[k \in DOMAIN report \ {n} |-> report[k]]>> \o Tail(inbox[r])]
  BY DEF Lose
<1> DEFINE rest == [k \in DOMAIN report \ {n} |-> report[k]]
<1>3. rest \in R[r]
  BY <1>1
<1> HIDE DEF rest
<1>4. <<rest>> \in Seq(R[r])
  BY <1>3, Singleton
<1>5. <<rest>> \o Tail(inbox[r]) \in Seq(R[r])
  BY <1>1, <1>4, ConcatProperties
<1> QED BY <1>2, <1>5 DEF rest

-----------------------------------------------------------------------------
(* What the steps do to elements.                                          *)

LEMMA OneMoreTurnType ==
  ASSUME NEW e \in Elements
  PROVE  /\ OneMoreTurn(e) \in Elements
         /\ OneMoreTurn(e).neighbour = e.neighbour
         /\ OneMoreTurn(e).dist \in {e.dist, Infinity}
         /\ OneMoreTurn(e).silent > MaxSilent => OneMoreTurn(e).dist = Infinity
<1> DEFINE silent == IF e.silent > MaxSilent THEN e.silent ELSE e.silent + 1
           dist   == IF silent > MaxSilent THEN Infinity ELSE e.dist
<1>1. /\ silent \in 0..(MaxSilent + 1) /\ dist \in Nat
      /\ silent > MaxSilent => dist = Infinity
      /\ dist \in {e.dist, Infinity}
  BY Configuration DEF Elements
<1>2. OneMoreTurn(e) = [e EXCEPT !.silent = silent, !.dist = dist]
  BY DEF OneMoreTurn, Elements
<1> HIDE DEF silent, dist
<1> QED BY <1>1, <1>2 DEF Elements

\* A datagram in r's inbox came over an interface of r.
LEMMA DistanceOverType ==
  ASSUME NEW r \in Routers, NEW n \in Networks, NEW d \in Datagrams,
         NetworkOf(d.from) \in Attached(r)
  PROVE  DistanceOver(r, n, d) \in Nat
  BY Configuration DEF DistanceOver, Datagrams

LEMMA RouteType ==
  ASSUME NEW e \in Elements, NEW distance \in Nat, NEW neighbour \in BOOLEAN,
         NEW from \in Interfaces
  PROVE  /\ Route(e, distance, neighbour, from) \in Elements
         /\ Route(e, distance, neighbour, from).silent = e.silent
         /\ Route(e, distance, neighbour, from).dist
              \in {e.dist, Capped(distance)}
<1>1. Capped(distance) \in Nat
  BY Configuration DEF Capped
<1>2. CASE distance < e.dist
  BY <1>1, <1>2 DEF Route, Elements, Addresses
<1>3. CASE distance >= e.dist /\ from = e.via
  BY <1>1, <1>3 DEF Route, Elements, Addresses
<1>4. CASE distance >= e.dist /\ from # e.via
  BY <1>4 DEF Route, Elements
<1>5. distance < e.dist \/ distance >= e.dist
  BY DEF Elements
<1> QED BY <1>2, <1>3, <1>4, <1>5

LEMMA HeardType ==
  ASSUME NEW e \in Elements, NEW from \in Interfaces, NEW own \in BOOLEAN
  PROVE  /\ Heard(e, from, own) \in Elements
         /\ Heard(e, from, own).dist = e.dist
         /\ Heard(e, from, own).neighbour = e.neighbour
         /\ Heard(e, from, own).via = e.via
         /\ Heard(e, from, own).silent = IF own \/ from = e.via THEN 0 ELSE e.silent
  BY Configuration DEF Heard, Elements

LEMMA UpdatedType ==
  ASSUME TypeInv, NEW r \in Routers, NEW t \in Reports(r), NEW n \in DOMAIN t
  PROVE  Updated(r, n, t[n]) \in Elements
<1> DEFINE d == t[n]
           distance == DistanceOver(r, n, d)
<1>1. d \in Datagrams /\ n \in Networks /\ NetworkOf(d.from) \in Attached(r)
  BY TableIsTable DEF Reports, Tables
<1>2. distance \in Nat /\ d.from \in Interfaces
  BY <1>1, DistanceOverType DEF Datagrams
<1> HIDE DEF distance
<1>3. IsDirect(n, d) \in BOOLEAN /\ IsOwnNetwork(r, n, d) \in BOOLEAN
  BY DEF IsDirect, IsOwnNetwork
<1>4. CASE n \in DOMAIN vector[r]
  <2>1. vector[r][n] \in Elements
    BY <1>4 DEF TypeInv, Tables
  <2>2. Route(vector[r][n], distance, IsDirect(n, d), d.from) \in Elements
    BY <2>1, <1>2, <1>3, RouteType
  <2> QED BY <2>2, <1>2, <1>3, <1>4, HeardType DEF Updated, distance
<1>5. CASE n \notin DOMAIN vector[r]
  BY <1>2, <1>3, <1>5, Configuration DEF Updated, Element, Elements, Addresses, distance
<1> QED BY <1>4, <1>5

LEMMA MergedType ==
  ASSUME TypeInv, NEW r \in Routers, NEW t \in Reports(r)
  PROVE  /\ Merged(r, t) \in Tables(Elements)
         /\ DOMAIN vector[r] \subseteq DOMAIN Merged(r, t)
<1> DEFINE news == {n \in DOMAIN t : ~Ignored(r, n, t[n])}
           D == DOMAIN vector[r] \cup news
<1>1. D \subseteq Networks
  BY DEF Reports, Tables, TypeInv
<1>2. \A n \in D : n \notin news => vector[r][n] \in Elements
  BY DEF TypeInv, Tables
<1>3. \A n \in news : Updated(r, n, t[n]) \in Elements
  BY UpdatedType
<1>4. Merged(r, t) = [n \in D |-> IF n \in news THEN Updated(r, n, t[n]) ELSE vector[r][n]]
  BY DEF Merged
<1> HIDE DEF D, news
<1>5. Merged(r, t) \in [D -> Elements]
  BY <1>2, <1>3, <1>4
<1> QED BY <1>1, <1>5 DEF Tables, D

LEMMA InitialVectorType ==
  ASSUME NEW r \in Routers, NEW v \in InitialVectors(r)
  PROVE  /\ v \in Tables(Elements)
         /\ DOMAIN v = Attached(r)
         /\ \A n \in DOMAIN v : v[n].dist = Infinity /\ v[n].neighbour
<1>1. PICK leftover \in [Attached(r) -> Leftovers] :
        v = [n \in Attached(r) |-> Element(Infinity, TRUE, leftover[n])]
  BY DEF InitialVectors
<1>2. \A n \in Attached(r) : Element(Infinity, TRUE, leftover[n]) \in Elements
  BY Configuration DEF Element, Elements
<1>3. v \in [Attached(r) -> Elements] /\ Attached(r) \subseteq Networks
  BY <1>1, <1>2, Configuration
<1>4. \A n \in Attached(r) : v[n].dist = Infinity /\ v[n].neighbour
  BY <1>1 DEF Element
<1> QED BY <1>3, <1>4 DEF Tables

LEMMA InitVectors ==
  ASSUME Init
  PROVE  /\ vector = [r \in Routers |-> vector[r]]
         /\ \A r \in Routers : vector[r] \in InitialVectors(r)
  BY DEF Init

LEMMA InitType == Init => TypeInv
<1> SUFFICES ASSUME Init PROVE TypeInv
  OBVIOUS
<1>1. vector \in [Routers -> Tables(Elements)]
  BY InitVectors, InitialVectorType
<1>2. \A r \in Routers : Attached(r) \subseteq DOMAIN vector[r]
  BY InitVectors, InitialVectorType
<1>3. \A r \in Routers : next[r] \in 1..(Len(Config[r]) + 1)
  BY Configuration, LenProperties DEF Init
<1>4. \A q \in Routers : inbox[q] \in Seq(Reports(q))
  BY EmptySeq DEF Init
<1>5. changes \in 0..MaxChanges
  BY Configuration DEF Init
<1> QED BY <1>1, <1>2, <1>3, <1>4, <1>5 DEF TypeInv, Init

\* A router may send any table of datagrams from one of its interfaces: the
\* others hear of it what comes from the networks they are attached to.
LEMMA BroadcastType ==
  ASSUME TypeInv, NEW report \in Tables(Datagrams), Broadcast(report)
  PROVE  /\ inbox' = [q \in Routers |-> inbox'[q]]
         /\ \A q \in Routers : inbox'[q] \in Seq(Reports(q))
<1> DEFINE R == [q \in Routers |-> Reports(q)]
<1>1. ASSUME NEW q \in Routers, NEW heard \in SUBSET DOMAIN report,
             \A n \in heard : Hears(q, report[n].from)
      PROVE  [n \in heard |-> report[n]] \in R[q]
  <2>1. [n \in heard |-> report[n]] \in Tables(Datagrams)
    BY DEF Tables
  <2>2. \A n \in heard : NetworkOf(report[n].from) \in Attached(q)
    BY <1>1, Configuration DEF Hears
  <2> QED BY <2>1, <2>2 DEF Reports
<1>2. \A q \in Routers : inbox[q] \in Seq(R[q])
  BY DEF TypeInv
<1> HIDE DEF R
<1>3. /\ inbox' = [q \in Routers |-> inbox'[q]]
      /\ \A q \in Routers : inbox'[q] \in Seq(R[q])
  BY <1>1, <1>2, BroadcastInto
<1> QED BY <1>3 DEF R

\* A vector replaced by one that has at least the same networks.
LEMMA VectorType ==
  ASSUME TypeInv, NEW r \in Routers, NEW v \in Tables(Elements),
         Attached(r) \subseteq DOMAIN v,
         vector' = [vector EXCEPT ![r] = v]
  PROVE  /\ vector' \in [Routers -> Tables(Elements)]
         /\ \A q \in Routers : Attached(q) \subseteq DOMAIN vector'[q]
  BY DEF TypeInv

LEMMA AnnouncementType ==
  ASSUME NEW r \in Routers
  PROVE  [n \in Attached(r) |-> [from |-> <<r, n>>, dist |-> Cost[<<r, n>>]]]
           \in Tables(Datagrams)
  BY Configuration DEF Tables, Datagrams

LEMMA AdvertisementType ==
  ASSUME TypeInv, NEW r \in Routers, NEW i \in Interfaces
  PROVE  [n \in Advertised(r) |-> [from |-> i, dist |-> vector[r][n].dist]]
           \in Tables(Datagrams)
<1>1. Advertised(r) \subseteq Networks
  BY DEF Advertised, TypeInv, Tables
<1>2. \A n \in Advertised(r) : vector[r][n].dist \in Nat
  BY DEF Advertised, TypeInv, Tables, Elements
<1> QED BY <1>1, <1>2 DEF Tables, Datagrams

LEMMA CurrentType ==
  ASSUME TypeInv, NEW r \in Routers, MoreInterfaces(r)
  PROVE  /\ CurrentInterface(r) \in Interfaces
         /\ next[r] + 1 \in 1..(Len(Config[r]) + 1)
<1>1. Config[r] \in Seq(Networks) /\ next[r] \in DOMAIN Config[r]
  BY Configuration DEF MoreInterfaces
<1>2. Config[r][next[r]] \in Attached(r)
  BY <1>1 DEF Attached
<1>3. next[r] \in 1..Len(Config[r]) /\ Len(Config[r]) \in Nat
  BY <1>1, LenProperties
<1> QED BY <1>2, <1>3, Configuration DEF CurrentInterface

LEMMA TurnType ==
  ASSUME TypeInv, NEW r \in Routers
  PROVE  /\ [n \in DOMAIN vector[r] |-> OneMoreTurn(vector[r][n])] \in Tables(Elements)
         /\ \A i : WithoutInterface(vector[r], i) \in Tables(Elements)
<1> DEFINE D == DOMAIN vector[r]
<1>1. D \subseteq Networks /\ \A n \in D : vector[r][n] \in Elements
  BY DEF TypeInv, Tables
<1> HIDE DEF D
<1>2. [n \in D |-> OneMoreTurn(vector[r][n])] \in Tables(Elements)
  BY <1>1, OneMoreTurnType DEF Tables
<1>3. ASSUME NEW i PROVE WithoutInterface(vector[r], i) \in Tables(Elements)
  <2>1. \A n \in D : [vector[r][n] EXCEPT !.dist = Infinity] \in Elements
    BY <1>1, Configuration DEF Elements
  <2>2. WithoutInterface(vector[r], i) \in [D -> Elements]
    BY <1>1, <2>1 DEF WithoutInterface, D
  <2> QED BY <1>1, <2>2 DEF Tables
<1> QED BY <1>2, <1>3 DEF D

LEMMA PartOfReport ==
  ASSUME NEW q, NEW t \in Reports(q), NEW part \in SUBSET DOMAIN t
  PROVE  [n \in part |-> t[n]] \in Reports(q)
<1>1. [n \in part |-> t[n]] \in Tables(Datagrams)
  BY DEF Reports, Tables
<1> QED BY <1>1 DEF Reports

LEMMA StepType == TypeInv /\ [Next]_vars => TypeInv'
<1> SUFFICES ASSUME TypeInv, [Next]_vars PROVE TypeInv'
  OBVIOUS
<1> DEFINE R == [q \in Routers |-> Reports(q)]
<1>0. \A q \in Routers : inbox[q] \in Seq(R[q])
  BY DEF TypeInv
<1>1. ASSUME NEW r \in Routers, Announce(r) PROVE TypeInv'
  <2>1. /\ inbox' = [q \in Routers |-> inbox'[q]]
        /\ \A q \in Routers : inbox'[q] \in Seq(Reports(q))
    BY <1>1, AnnouncementType, BroadcastType DEF Announce
  <2> DEFINE v == [n \in DOMAIN vector[r] |-> OneMoreTurn(vector[r][n])]
  <2>2. v \in Tables(Elements) /\ Attached(r) \subseteq DOMAIN v
    BY TurnType DEF TypeInv
  <2>3. vector' = [vector EXCEPT ![r] = v]
    BY <1>1 DEF Announce
  <2> HIDE DEF v
  <2>4. /\ vector' \in [Routers -> Tables(Elements)]
        /\ \A q \in Routers : Attached(q) \subseteq DOMAIN vector'[q]
    BY <2>2, <2>3, VectorType
  <2> QED BY <1>1, <2>1, <2>4 DEF Announce, TypeInv, worldVars
<1>2. ASSUME NEW r \in Routers, Receive(r) PROVE TypeInv'
  <2> HIDE DEF R
  <2>1. /\ Head(inbox[r]) \in R[r]
        /\ inbox' = [q \in Routers |-> inbox'[q]]
        /\ \A q \in Routers : inbox'[q] \in Seq(R[q])
    BY <1>0, <1>2, TailInto DEF Receive, TypeInv
  <2> USE DEF R
  <2> DEFINE v == Merged(r, Head(inbox[r]))
  <2>2. v \in Tables(Elements) /\ Attached(r) \subseteq DOMAIN v
    BY <2>1, MergedType DEF TypeInv
  <2>3. vector' = [vector EXCEPT ![r] = v]
    BY <1>2 DEF Receive
  <2> HIDE DEF v
  <2>4. /\ vector' \in [Routers -> Tables(Elements)]
        /\ \A q \in Routers : Attached(q) \subseteq DOMAIN vector'[q]
    BY <2>2, <2>3, VectorType
  <2>5. \A q \in Routers : inbox'[q] \in Seq(Reports(q))
    BY <2>1
  <2> HIDE DEF R
  <2> QED BY <1>2, <2>1, <2>4, <2>5 DEF Receive, TypeInv, worldVars
<1>3. ASSUME NEW r \in Routers, Timeout(r) PROVE TypeInv'
  BY <1>3 DEF Timeout, TypeInv, worldVars
<1>4. ASSUME NEW r \in Routers, SendVector(r) PROVE TypeInv'
  <2>1. CurrentInterface(r) \in Interfaces /\ next[r] + 1 \in 1..(Len(Config[r]) + 1)
    BY <1>4, CurrentType DEF SendVector
  <2>2. /\ inbox' = [q \in Routers |-> inbox'[q]]
        /\ \A q \in Routers : inbox'[q] \in Seq(Reports(q))
    <3>1. CASE UNCHANGED inbox
      BY <3>1 DEF TypeInv
    <3>2. CASE Broadcast([n \in Advertised(r) |->
                 [from |-> CurrentInterface(r), dist |-> vector[r][n].dist]])
      BY <2>1, <3>2, AdvertisementType, BroadcastType
    <3> QED BY <1>4, <3>1, <3>2 DEF SendVector
  <2>3. /\ next' \in [Routers -> Nat]
        /\ \A q \in Routers : next'[q] \in 1..(Len(Config[q]) + 1)
    BY <1>4, <2>1 DEF SendVector, NextInterface, TypeInv
  <2>4. UNCHANGED <<vector, phase, turned, up, running, changes>>
    BY <1>4 DEF SendVector, worldVars
  <2> QED BY <2>2, <2>3, <2>4 DEF TypeInv
<1>5. ASSUME NEW r \in Routers, SendFails(r) PROVE TypeInv'
  <2>1. next[r] + 1 \in 1..(Len(Config[r]) + 1)
    BY <1>5, CurrentType DEF SendFails
  <2> DEFINE v == WithoutInterface(vector[r], CurrentInterface(r))
  <2>2. v \in Tables(Elements) /\ Attached(r) \subseteq DOMAIN v
    BY TurnType DEF TypeInv, WithoutInterface
  <2>3. vector' = [vector EXCEPT ![r] = v]
    BY <1>5 DEF SendFails
  <2> HIDE DEF v
  <2>4. /\ vector' \in [Routers -> Tables(Elements)]
        /\ \A q \in Routers : Attached(q) \subseteq DOMAIN vector'[q]
    BY <2>2, <2>3, VectorType
  <2> QED BY <1>5, <2>1, <2>4 DEF SendFails, NextInterface, TypeInv, worldVars
<1>6. ASSUME NEW r \in Routers, EndTurn(r) PROVE TypeInv'
  <2>1. 1 \in 1..(Len(Config[r]) + 1)
    BY Configuration, LenProperties
  <2>2. turned' \subseteq Routers
    BY <1>6 DEF EndTurn, Turned, TypeInv
  <2> QED BY <1>6, <2>1, <2>2 DEF EndTurn, TypeInv, worldVars
<1>7. ASSUME NEW i \in Interfaces, Fail(i) \/ Repair(i) PROVE TypeInv'
  <2>1. changes' \in 0..MaxChanges
    BY <1>7, Configuration DEF Fail, Repair, Change, TypeInv
  <2>2. up' \in [Interfaces -> BOOLEAN]
    BY <1>7 DEF Fail, Repair, TypeInv
  <2>3. UNCHANGED <<vector, phase, next, inbox, turned, running>>
    BY <1>7 DEF Fail, Repair, routerVars
  <2> QED BY <2>1, <2>2, <2>3 DEF TypeInv
<1>8. ASSUME NEW r \in Routers, Lose(r) PROVE TypeInv'
  <2>1. \A t \in R[r] : \A part \in SUBSET DOMAIN t : [n \in part |-> t[n]] \in R[r]
    BY PartOfReport
  <2> HIDE DEF R
  <2>2. /\ inbox' = [q \in Routers |-> inbox'[q]]
        /\ \A q \in Routers : inbox'[q] \in Seq(R[q])
    BY <1>0, <1>8, <2>1, LossInto DEF TypeInv
  <2>3. changes' \in 0..MaxChanges
    BY <1>8, Configuration DEF Lose, Change, TypeInv
  <2>4. \A q \in Routers : inbox'[q] \in Seq(Reports(q))
    BY <2>2 DEF R
  <2> QED BY <1>8, <2>2, <2>3, <2>4 DEF Lose, TypeInv, routerVars
<1>9. ASSUME NEW r \in Routers, Stop(r) PROVE TypeInv'
  <2>1. changes' \in 0..MaxChanges
    BY <1>9, Configuration DEF Stop, Change, TypeInv
  <2>2. turned' \subseteq Routers
    BY <1>9 DEF Stop, Turned, TypeInv
  <2>3. /\ inbox' = [q \in Routers |-> inbox'[q]]
        /\ \A q \in Routers : inbox'[q] \in Seq(Reports(q))
    BY <1>9, EmptySeq DEF Stop, TypeInv
  <2>4. running' \in [Routers -> BOOLEAN]
    BY <1>9 DEF Stop, TypeInv
  <2>5. UNCHANGED <<vector, phase, next, up>>
    BY <1>9 DEF Stop, routerVars
  <2> QED BY <2>1, <2>2, <2>3, <2>4, <2>5 DEF TypeInv
<1>10. ASSUME NEW r \in Routers, Restart(r) PROVE TypeInv'
  <2>1. PICK v \in InitialVectors(r) : vector' = [vector EXCEPT ![r] = v]
    BY <1>10 DEF Restart
  <2>2. /\ vector' \in [Routers -> Tables(Elements)]
        /\ \A q \in Routers : Attached(q) \subseteq DOMAIN vector'[q]
    BY <2>1, InitialVectorType, VectorType
  <2>3. 1 \in 1..(Len(Config[r]) + 1)
    BY Configuration, LenProperties
  <2>4. changes' \in 0..MaxChanges
    BY <1>10, Configuration DEF Restart, Change, TypeInv
  <2>5. /\ next' \in [Routers -> Nat]
        /\ \A q \in Routers : next'[q] \in 1..(Len(Config[q]) + 1)
    BY <1>10, <2>3 DEF Restart, TypeInv
  <2>6. /\ phase' \in [Routers -> {"announce", "receive", "send"}]
        /\ running' \in [Routers -> BOOLEAN]
    BY <1>10 DEF Restart, TypeInv
  <2>7. UNCHANGED <<inbox, turned, up>>
    BY <1>10 DEF Restart
  <2> QED BY <2>2, <2>4, <2>5, <2>6, <2>7 DEF TypeInv
<1>11. CASE UNCHANGED vars
  BY <1>11 DEF vars, routerVars, worldVars, TypeInv
<1> QED
  BY <1>1, <1>2, <1>3, <1>4, <1>5, <1>6, <1>7, <1>8, <1>9, <1>10, <1>11
  DEF Next, RouterStep, World

LEMMA TypeAlways == Spec => []TypeInv
<1>1. Init => TypeInv
  BY InitType
<1>2. TypeInv /\ [Next]_vars => TypeInv'
  BY StepType
<1> QED BY <1>1, <1>2, PTL DEF Spec

\* Types and bounds hold for any routers, networks and distances.
THEOREM TypeCorrect == Spec => []TypeOK
<1>1. TypeInv => TypeOK
  BY TypeInvType
<1> QED BY <1>1, TypeAlways, PTL

-----------------------------------------------------------------------------
(* Distances.                                                              *)

\* Reports that do not say less than f of the router they come from.
LowReports(n, f, q) ==
  {t \in Reports(q) : n \in DOMAIN t => f[RouterOf(t[n].from)] <= t[n].dist}

LowVectors(n, f) ==
  \A r \in Routers : n \in DOMAIN vector[r] => f[r] <= vector[r][n].dist

LowInboxes(n, f) == \A q \in Routers : inbox[q] \in Seq(LowReports(n, f, q))

LowInv ==
  \A n \in Networks : \A f \in LowerBoundsTo(n) : LowVectors(n, f) /\ LowInboxes(n, f)

LEMMA CappedBound ==
  ASSUME NEW distance \in Nat, NEW b \in 0..Infinity, b <= distance
  PROVE  b <= Capped(distance)
  BY Configuration DEF Capped

\* What a router makes of a report is not less than its own bound.
LEMMA DistanceBound ==
  ASSUME NEW n \in Networks, NEW f \in LowerBoundsTo(n), NEW r \in Routers,
         NEW d \in Datagrams, NetworkOf(d.from) \in Attached(r),
         f[RouterOf(d.from)] <= d.dist
  PROVE  f[r] <= DistanceOver(r, n, d)
<1> DEFINE j == d.from
           i == <<r, NetworkOf(d.from)>>
<1>1. j \in Interfaces /\ i \in Interfaces /\ d.dist \in Nat
  BY Configuration DEF Datagrams
<1>2. RouterOf(i) = r /\ NetworkOf(i) = NetworkOf(j) /\ RouterOf(j) \in Routers
  BY <1>1, Configuration DEF RouterOf, NetworkOf
<1>3. f[r] \in 0..Infinity /\ f[RouterOf(j)] \in 0..Infinity /\ Cost[i] \in Nat
  BY <1>1, <1>2, Configuration DEF LowerBoundsTo
<1>4. CASE IsOwnNetwork(r, n, d)
  <2>1. NetworkOf(i) = n
    BY <1>2, <1>4 DEF IsOwnNetwork, IsDirect
  <2>2. f[RouterOf(i)] <= Cost[i]
    BY <1>1, <2>1 DEF LowerBoundsTo
  <2>3. f[r] <= Cost[i]
    BY <1>2, <2>2
  <2>4. DistanceOver(r, n, d) \in {Infinity, 0 + Cost[i]}
    BY <1>4 DEF DistanceOver
  <2> HIDE DEF i
  <2> QED BY <1>3, <2>3, <2>4, Configuration
<1>5. CASE ~IsOwnNetwork(r, n, d)
  <2>1. f[RouterOf(i)] <= f[RouterOf(j)] + Cost[i]
    BY <1>1, <1>2 DEF LowerBoundsTo
  <2>2. f[r] <= f[RouterOf(j)] + Cost[i]
    BY <1>2, <2>1
  <2>3. DistanceOver(r, n, d) \in {Infinity, d.dist + Cost[i]}
    BY <1>5 DEF DistanceOver
  <2> HIDE DEF i
  <2> QED BY <1>1, <1>3, <2>2, <2>3, Configuration
<1> QED BY <1>4, <1>5

LEMMA UpdatedBound ==
  ASSUME TypeInv, NEW n \in Networks, NEW f \in LowerBoundsTo(n), LowVectors(n, f),
         NEW r \in Routers, NEW t \in LowReports(n, f, r), n \in DOMAIN t
  PROVE  f[r] <= Updated(r, n, t[n]).dist
<1> DEFINE d == t[n]
           distance == DistanceOver(r, n, d)
<1>1. /\ d \in Datagrams /\ NetworkOf(d.from) \in Attached(r)
      /\ f[RouterOf(d.from)] <= d.dist
  BY DEF LowReports, Reports, Tables
<1>2. distance \in Nat /\ d.from \in Interfaces
  BY <1>1, DistanceOverType DEF Datagrams
<1>3. f[r] <= distance
  BY <1>1, DistanceBound
<1>4. f[r] \in 0..Infinity
  BY DEF LowerBoundsTo
<1> HIDE DEF distance
<1>5. IsDirect(n, d) \in BOOLEAN /\ IsOwnNetwork(r, n, d) \in BOOLEAN
  BY DEF IsDirect, IsOwnNetwork
<1>6. CASE n \in DOMAIN vector[r]
  <2> DEFINE e == vector[r][n]
             e2 == Route(e, distance, IsDirect(n, d), d.from)
  <2>1. e \in Elements /\ f[r] <= e.dist
    BY <1>6 DEF TypeInv, Tables, LowVectors
  <2>2. e2 \in Elements /\ e2.dist \in {e.dist, Capped(distance)}
    BY <2>1, <1>2, <1>5, RouteType
  <2>3. f[r] <= Capped(distance)
    BY <1>2, <1>3, <1>4, CappedBound
  <2>4. f[r] <= e2.dist
    BY <2>1, <2>2, <2>3
  <2>5. Updated(r, n, d) = Heard(e2, d.from, IsOwnNetwork(r, n, d))
    BY <1>6 DEF Updated, distance
  <2> HIDE DEF e2
  <2> QED BY <1>2, <1>5, <2>2, <2>4, <2>5, HeardType
<1>7. CASE n \notin DOMAIN vector[r]
  BY <1>3, <1>7 DEF Updated, Element, distance
<1> QED BY <1>6, <1>7

\* A vector whose new distance to n is not too short.
LEMMA LowVector ==
  ASSUME TypeInv, NEW n, NEW f, LowVectors(n, f), NEW r \in Routers, NEW v,
         vector' = [vector EXCEPT ![r] = v],
         n \in DOMAIN v => f[r] <= v[n].dist
  PROVE  LowVectors(n, f)'
  BY DEF TypeInv, LowVectors

LEMMA LowPart ==
  ASSUME NEW n, NEW f, NEW q, NEW t \in LowReports(n, f, q), NEW part \in SUBSET DOMAIN t
  PROVE  [k \in part |-> t[k]] \in LowReports(n, f, q)
<1>1. [k \in part |-> t[k]] \in Reports(q)
  BY PartOfReport DEF LowReports
<1> QED BY <1>1 DEF LowReports

\* What is broadcast about n must not be too short.
LEMMA LowBroadcast ==
  ASSUME TypeInv, NEW n, NEW f, LowInboxes(n, f),
         NEW report \in Tables(Datagrams), Broadcast(report),
         n \in DOMAIN report => f[RouterOf(report[n].from)] <= report[n].dist
  PROVE  LowInboxes(n, f)'
<1> DEFINE R == [q \in Routers |-> LowReports(n, f, q)]
<1>1. ASSUME NEW q \in Routers, NEW heard \in SUBSET DOMAIN report,
             \A k \in heard : Hears(q, report[k].from)
      PROVE  [k \in heard |-> report[k]] \in R[q]
  <2>1. [k \in heard |-> report[k]] \in Tables(Datagrams)
    BY DEF Tables
  <2>2. \A k \in heard : NetworkOf(report[k].from) \in Attached(q)
    BY <1>1, Configuration DEF Hears
  <2> QED BY <2>1, <2>2 DEF Reports, LowReports
<1>2. \A q \in Routers : inbox[q] \in Seq(R[q])
  BY DEF LowInboxes
<1> HIDE DEF R
<1>3. \A q \in Routers : inbox'[q] \in Seq(R[q])
  BY <1>1, <1>2, BroadcastInto
<1> QED BY <1>3 DEF R, LowInboxes

LEMMA LowInit ==
  ASSUME Init, NEW n \in Networks, NEW f \in LowerBoundsTo(n)
  PROVE  LowVectors(n, f) /\ LowInboxes(n, f)
<1>1. \A r \in Routers : f[r] <= Infinity
  BY Configuration DEF LowerBoundsTo
<1>2. LowVectors(n, f)
  BY <1>1, InitVectors, InitialVectorType DEF LowVectors
<1>3. LowInboxes(n, f)
  BY EmptySeq DEF Init, LowInboxes
<1> QED BY <1>2, <1>3

LEMMA LowStep ==
  ASSUME TypeInv, [Next]_vars, NEW n \in Networks, NEW f \in LowerBoundsTo(n),
         LowVectors(n, f), LowInboxes(n, f)
  PROVE  LowVectors(n, f)' /\ LowInboxes(n, f)'
<1> DEFINE R == [q \in Routers |-> LowReports(n, f, q)]
<1>0. /\ \A q \in Routers : inbox[q] \in Seq(R[q])
      /\ \A r \in Routers : f[r] \in 0..Infinity
      /\ inbox = [q \in Routers |-> inbox[q]]
  BY DEF LowInboxes, LowerBoundsTo, TypeInv
<1>a. UNCHANGED vector => LowVectors(n, f)'
  BY DEF LowVectors
<1>b. UNCHANGED inbox => LowInboxes(n, f)'
  BY DEF LowInboxes
<1>1. ASSUME NEW r \in Routers, Announce(r) PROVE LowVectors(n, f)' /\ LowInboxes(n, f)'
  <2> DEFINE v == [k \in DOMAIN vector[r] |-> OneMoreTurn(vector[r][k])]
             report == [k \in Attached(r) |-> [from |-> <<r, k>>, dist |-> Cost[<<r, k>>]]]
  <2>1. ASSUME n \in DOMAIN v PROVE f[r] <= v[n].dist
    <3>1. vector[r][n] \in Elements /\ f[r] <= vector[r][n].dist
      BY <2>1 DEF TypeInv, Tables, LowVectors
    <3>2. OneMoreTurn(vector[r][n]).dist \in {vector[r][n].dist, Infinity}
      BY <3>1, OneMoreTurnType
    <3>3. f[r] <= OneMoreTurn(vector[r][n]).dist
      BY <1>0, <3>1, <3>2, Configuration
    <3> QED BY <2>1, <3>3
  <2>2. vector' = [vector EXCEPT ![r] = v] /\ Broadcast(report)
    BY <1>1 DEF Announce
  <2>3. ASSUME n \in DOMAIN report
        PROVE  f[RouterOf(report[n].from)] <= report[n].dist
    <3>1. <<r, n>> \in Interfaces /\ RouterOf(<<r, n>>) = r /\ NetworkOf(<<r, n>>) = n
      BY <2>3, Configuration DEF RouterOf, NetworkOf
    <3>2. f[RouterOf(<<r, n>>)] <= Cost[<<r, n>>]
      BY <3>1 DEF LowerBoundsTo
    <3> QED BY <2>3, <3>1, <3>2
  <2>4. report \in Tables(Datagrams)
    BY AnnouncementType
  <2> HIDE DEF v, report
  <2>5. LowVectors(n, f)'
    BY <2>1, <2>2, LowVector
  <2>6. LowInboxes(n, f)'
    BY <2>2, <2>3, <2>4, LowBroadcast
  <2> QED BY <2>5, <2>6
<1>2. ASSUME NEW r \in Routers, Receive(r) PROVE LowVectors(n, f)' /\ LowInboxes(n, f)'
  <2> DEFINE t == Head(inbox[r])
  <2> HIDE DEF R
  <2>1. /\ t \in R[r]
        /\ \A q \in Routers : inbox'[q] \in Seq(R[q])
    BY <1>0, <1>2, TailInto DEF Receive
  <2>2. LowInboxes(n, f)'
    BY <2>1 DEF R, LowInboxes
  <2>3. t \in LowReports(n, f, r)
    BY <2>1 DEF R
  <2> HIDE DEF t
  <2>4. ASSUME n \in DOMAIN Merged(r, t) PROVE f[r] <= Merged(r, t)[n].dist
    <3>1. CASE n \in DOMAIN t /\ ~Ignored(r, n, t[n])
      <4>1. f[r] <= Updated(r, n, t[n]).dist
        BY <2>3, <3>1, UpdatedBound
      <4> QED BY <4>1, <3>1, <2>4 DEF Merged
    <3>2. CASE ~(n \in DOMAIN t /\ ~Ignored(r, n, t[n]))
      BY <3>2, <2>4 DEF Merged, LowVectors
    <3> QED BY <3>1, <3>2
  <2>5. vector' = [vector EXCEPT ![r] = Merged(r, t)]
    BY <1>2 DEF Receive, t
  <2>6. LowVectors(n, f)'
    BY <2>4, <2>5, LowVector
  <2> QED BY <2>2, <2>6
<1>3. ASSUME NEW r \in Routers, Timeout(r) PROVE LowVectors(n, f)' /\ LowInboxes(n, f)'
  BY <1>a, <1>b, <1>3 DEF Timeout
<1>4. ASSUME NEW r \in Routers, SendVector(r) PROVE LowVectors(n, f)' /\ LowInboxes(n, f)'
  <2> DEFINE i == CurrentInterface(r)
             report == [k \in Advertised(r) |-> [from |-> i, dist |-> vector[r][k].dist]]
  <2>1. UNCHANGED vector /\ (UNCHANGED inbox \/ Broadcast(report))
    BY <1>4 DEF SendVector
  <2>2. i \in Interfaces /\ RouterOf(i) = r
    BY <1>4, CurrentType DEF SendVector, CurrentInterface, RouterOf
  <2>3. report \in Tables(Datagrams)
    BY <2>2, AdvertisementType
  <2> HIDE DEF i
  <2>4. n \in DOMAIN report => f[RouterOf(report[n].from)] <= report[n].dist
    BY <2>2 DEF Advertised, LowVectors
  <2> HIDE DEF report
  <2>5. Broadcast(report) => LowInboxes(n, f)'
    BY <2>3, <2>4, LowBroadcast
  <2> QED BY <1>a, <1>b, <2>1, <2>5
<1>5. ASSUME NEW r \in Routers, SendFails(r) PROVE LowVectors(n, f)' /\ LowInboxes(n, f)'
  <2> DEFINE v == WithoutInterface(vector[r], CurrentInterface(r))
  <2>1. vector' = [vector EXCEPT ![r] = v] /\ UNCHANGED inbox
    BY <1>5 DEF SendFails
  <2>2. ASSUME n \in DOMAIN v PROVE f[r] <= v[n].dist
    <3>1. vector[r][n] \in Elements /\ f[r] <= vector[r][n].dist
      BY <2>2 DEF TypeInv, Tables, LowVectors, WithoutInterface
    <3>2. v[n].dist \in {vector[r][n].dist, Infinity}
      BY <2>2, <3>1 DEF WithoutInterface, Elements
    <3> QED BY <1>0, <3>1, <3>2, Configuration
  <2> HIDE DEF v
  <2>3. LowVectors(n, f)'
    BY <2>1, <2>2, LowVector
  <2> QED BY <1>b, <2>1, <2>3
<1>6. ASSUME NEW r \in Routers, EndTurn(r) PROVE LowVectors(n, f)' /\ LowInboxes(n, f)'
  BY <1>a, <1>b, <1>6 DEF EndTurn
<1>7. ASSUME NEW i \in Interfaces, Fail(i) \/ Repair(i)
      PROVE  LowVectors(n, f)' /\ LowInboxes(n, f)'
  BY <1>a, <1>b, <1>7 DEF Fail, Repair, routerVars
<1>8. ASSUME NEW r \in Routers, Lose(r) PROVE LowVectors(n, f)' /\ LowInboxes(n, f)'
  <2>1. \A t \in R[r] : \A part \in SUBSET DOMAIN t : [k \in part |-> t[k]] \in R[r]
    BY LowPart
  <2> HIDE DEF R
  <2>2. \A q \in Routers : inbox'[q] \in Seq(R[q])
    BY <1>0, <1>8, <2>1, LossInto
  <2>3. LowInboxes(n, f)'
    BY <2>2 DEF R, LowInboxes
  <2> QED BY <1>a, <1>8, <2>3 DEF Lose, routerVars
<1>9. ASSUME NEW r \in Routers, Stop(r) PROVE LowVectors(n, f)' /\ LowInboxes(n, f)'
  <2>1. LowInboxes(n, f)'
    BY <1>0, <1>9, EmptySeq DEF Stop, LowInboxes
  <2> QED BY <1>a, <1>9, <2>1 DEF Stop, routerVars
<1>10. ASSUME NEW r \in Routers, Restart(r) PROVE LowVectors(n, f)' /\ LowInboxes(n, f)'
  <2>1. PICK v \in InitialVectors(r) : vector' = [vector EXCEPT ![r] = v]
    BY <1>10 DEF Restart
  <2>2. n \in DOMAIN v => f[r] <= v[n].dist
    BY <1>0, <2>1, InitialVectorType, Configuration
  <2>3. LowVectors(n, f)'
    BY <2>1, <2>2, LowVector
  <2> QED BY <1>b, <1>10, <2>3 DEF Restart
<1>11. CASE UNCHANGED vars
  BY <1>a, <1>b, <1>11 DEF vars, routerVars
<1> HIDE DEF R
<1> QED
  BY <1>1, <1>2, <1>3, <1>4, <1>5, <1>6, <1>7, <1>8, <1>9, <1>10, <1>11
  DEF Next, RouterStep, World

\* No distance in any vector is shorter than the shortest way there is,
\* whatever is lost, fails, or is counted up between routers.
THEOREM DistancesBounded == Spec => []NeverTooShort
<1>1. Init => LowInv
  BY LowInit DEF LowInv
<1>2. TypeInv /\ LowInv /\ [Next]_vars => LowInv'
  <2> SUFFICES ASSUME TypeInv, LowInv, [Next]_vars,
                      NEW n \in Networks, NEW f \in LowerBoundsTo(n)
               PROVE  LowVectors(n, f)' /\ LowInboxes(n, f)'
    BY DEF LowInv
  <2>1. LowVectors(n, f) /\ LowInboxes(n, f)
    BY DEF LowInv
  <2> QED BY <2>1, LowStep
<1>3. LowInv => NeverTooShort
  BY DEF LowInv, LowVectors, NeverTooShort, LowerBounds
<1> QED BY <1>1, <1>2, <1>3, TypeAlways, PTL DEF Spec

-----------------------------------------------------------------------------
(* Silence.                                                                *)

Dropped(e) == ~e.neighbour /\ e.silent > MaxSilent => e.dist = Infinity

\* A route that changes is one through the router that was heard, so that the
\* count starts again, or a direct one.
LEMMA HeardRouteDropped ==
  ASSUME NEW e \in Elements, Dropped(e), NEW distance \in Nat,
         NEW neighbour \in BOOLEAN, NEW from \in Interfaces, NEW own \in BOOLEAN
  PROVE  Dropped(Heard(Route(e, distance, neighbour, from), from, own))
<1> DEFINE e2 == Route(e, distance, neighbour, from)
           e3 == Heard(e2, from, own)
<1>1. e2 \in Elements /\ e2.silent = e.silent
  BY RouteType
<1>2. \/ e2.neighbour
      \/ e2.via = from
      \/ e2 = e
  <2>1. CASE distance < e.dist
    BY <2>1 DEF Route, Elements
  <2>2. CASE ~(distance < e.dist) /\ from = e.via
    BY <2>2 DEF Route, Elements
  <2>3. CASE ~(distance < e.dist) /\ from # e.via
    BY <2>3 DEF Route, Elements
  <2> QED BY <2>1, <2>2, <2>3
<1> HIDE DEF e2
<1>3. /\ e3.dist = e2.dist /\ e3.neighbour = e2.neighbour
      /\ e3.silent = IF own \/ from = e2.via THEN 0 ELSE e2.silent
  BY <1>1, HeardType
<1> HIDE DEF e3
<1>4. ASSUME own \/ from = e2.via PROVE Dropped(e3)
  BY <1>3, <1>4, Configuration DEF Dropped
<1>5. ASSUME ~(own \/ from = e2.via) PROVE Dropped(e3)
  BY <1>2, <1>3, <1>5 DEF Dropped
<1> QED BY <1>4, <1>5 DEF e2, e3

LEMMA UpdatedDropped ==
  ASSUME TypeInv, SilentRoutesDropped, NEW r \in Routers,
         NEW t \in Reports(r), NEW n \in DOMAIN t
  PROVE  Dropped(Updated(r, n, t[n]))
<1> DEFINE d == t[n]
           distance == DistanceOver(r, n, d)
<1>1. d \in Datagrams /\ n \in Networks /\ NetworkOf(d.from) \in Attached(r)
  BY TableIsTable DEF Reports, Tables
<1>2. distance \in Nat /\ d.from \in Interfaces
  BY <1>1, DistanceOverType DEF Datagrams
<1> HIDE DEF distance
<1>3. IsDirect(n, d) \in BOOLEAN /\ IsOwnNetwork(r, n, d) \in BOOLEAN
  BY DEF IsDirect, IsOwnNetwork
<1>4. CASE n \in DOMAIN vector[r]
  <2>1. vector[r][n] \in Elements /\ Dropped(vector[r][n])
    BY <1>4 DEF TypeInv, Tables, SilentRoutesDropped, Dropped
  <2>2. Updated(r, n, d) = Heard(Route(vector[r][n], distance, IsDirect(n, d), d.from),
                                 d.from, IsOwnNetwork(r, n, d))
    BY <1>4 DEF Updated, distance
  <2> QED BY <1>2, <1>3, <2>1, <2>2, HeardRouteDropped
<1>5. CASE n \notin DOMAIN vector[r]
  BY <1>5, Configuration DEF Updated, Element, Dropped
<1> QED BY <1>4, <1>5

LEMMA VectorDropped ==
  ASSUME TypeInv, SilentRoutesDropped, NEW r \in Routers, NEW v,
         vector' = [vector EXCEPT ![r] = v],
         \A n \in DOMAIN v : Dropped(v[n])
  PROVE  SilentRoutesDropped'
  BY DEF TypeInv, SilentRoutesDropped, Dropped

LEMMA DroppedStep ==
  ASSUME TypeInv, SilentRoutesDropped, [Next]_vars
  PROVE  SilentRoutesDropped'
<1>0. UNCHANGED vector => SilentRoutesDropped'
  BY DEF SilentRoutesDropped
<1>1. ASSUME NEW r \in Routers, Announce(r) PROVE SilentRoutesDropped'
  <2>1. \A n \in DOMAIN vector[r] : Dropped(OneMoreTurn(vector[r][n]))
    BY OneMoreTurnType DEF TypeInv, Tables, Dropped
  <2> DEFINE v == [n \in DOMAIN vector[r] |-> OneMoreTurn(vector[r][n])]
  <2>2. \A n \in DOMAIN v : Dropped(v[n])
    BY <2>1
  <2>3. vector' = [vector EXCEPT ![r] = v]
    BY <1>1 DEF Announce
  <2> HIDE DEF v
  <2> QED BY <2>2, <2>3, VectorDropped
<1>2. ASSUME NEW r \in Routers, Receive(r) PROVE SilentRoutesDropped'
  <2> DEFINE t == Head(inbox[r])
  <2>1. inbox[r] \in Seq(Reports(r)) /\ inbox[r] # <<>>
    BY <1>2 DEF Receive, TypeInv
  <2>2. t \in Reports(r)
    BY <2>1, HeadTailProperties
  <2> HIDE DEF t
  <2>3. \A n \in DOMAIN t : Dropped(Updated(r, n, t[n]))
    BY <2>2, UpdatedDropped
  <2>4. \A n \in DOMAIN vector[r] : Dropped(vector[r][n])
    BY DEF SilentRoutesDropped, Dropped
  <2>5. \A n \in DOMAIN Merged(r, t) : Dropped(Merged(r, t)[n])
    BY <2>3, <2>4 DEF Merged
  <2>6. vector' = [vector EXCEPT ![r] = Merged(r, t)]
    BY <1>2 DEF Receive, t
  <2> QED BY <2>5, <2>6, VectorDropped
<1>3. ASSUME NEW r \in Routers, SendFails(r) PROVE SilentRoutesDropped'
  <2> DEFINE v == WithoutInterface(vector[r], CurrentInterface(r))
  <2>1. ASSUME NEW n \in DOMAIN v PROVE Dropped(v[n])
    <3>1. vector[r][n] \in Elements /\ Dropped(vector[r][n])
      BY <2>1 DEF TypeInv, Tables, WithoutInterface, SilentRoutesDropped, Dropped
    <3>2. v[n] \in {vector[r][n], [vector[r][n] EXCEPT !.dist = Infinity]}
      BY <2>1 DEF WithoutInterface
    <3>3. Dropped([vector[r][n] EXCEPT !.dist = Infinity])
      BY <3>1 DEF Dropped, Elements
    <3> QED BY <3>1, <3>2, <3>3
  <2>2. vector' = [vector EXCEPT ![r] = v]
    BY <1>3 DEF SendFails
  <2> HIDE DEF v
  <2> QED BY <2>1, <2>2, VectorDropped
<1>4. ASSUME NEW r \in Routers, Restart(r) PROVE SilentRoutesDropped'
  <2>1. PICK v \in InitialVectors(r) : vector' = [vector EXCEPT ![r] = v]
    BY <1>4 DEF Restart
  <2>2. \A n \in DOMAIN v : Dropped(v[n])
    BY InitialVectorType DEF Dropped
  <2> QED BY <2>1, <2>2, VectorDropped
<1>5. ASSUME NEW r \in Routers, Timeout(r) \/ SendVector(r) \/ EndTurn(r)
      PROVE  SilentRoutesDropped'
  BY <1>0, <1>5 DEF Timeout, SendVector, EndTurn
<1>6. ASSUME NEW i \in Interfaces, Fail(i) \/ Repair(i) PROVE SilentRoutesDropped'
  BY <1>0, <1>6 DEF Fail, Repair, routerVars
<1>7. ASSUME NEW r \in Routers, Lose(r) \/ Stop(r) PROVE SilentRoutesDropped'
  BY <1>0, <1>7 DEF Lose, Stop, routerVars
<1>8. CASE UNCHANGED vars
  BY <1>0, <1>8 DEF vars, routerVars
<1> QED
  BY <1>1, <1>2, <1>3, <1>4, <1>5, <1>6, <1>7, <1>8 DEF Next, RouterStep, World

\* No route survives the silence of the router it leads through, whatever other
\* routers and the router's own broadcasts say of the network.
THEOREM SilentDropped == Spec => []SilentRoutesDropped
<1>1. Init => SilentRoutesDropped
  BY InitVectors, InitialVectorType DEF SilentRoutesDropped
<1>2. TypeInv /\ SilentRoutesDropped /\ [Next]_vars => SilentRoutesDropped'
  BY DroppedStep
<1> QED BY <1>1, <1>2, TypeAlways, PTL DEF Spec

-----------------------------------------------------------------------------
(* False alarms.  As long as nothing fails or gets lost, the element of a  *)
(* network has counted at most the turn its router is in and one before,   *)
(* and has a report to come when it has counted both.                      *)

\* A datagram of j about n is in r's socket.
Waits(r, n, j) ==
  \E k \in 1..Len(inbox[r]) : n \in DOMAIN inbox[r][k] /\ inbox[r][k][n].from = j

\* r has counted a turn and not come to its timeout.
Counted(r) == IF phase[r] = "receive" THEN 1 ELSE 0

\* r has come to its timeout in this period, and j's router has sent its vector
\* on j.
HadTurn(r) == IF phase[r] = "send" \/ r \in turned THEN 1 ELSE 0
SentOn(j) ==
  IF \/ RouterOf(j) \in turned
     \/ /\ phase[RouterOf(j)] = "send"
        /\ \E k \in 1..(next[RouterOf(j)] - 1) : Config[RouterOf(j)][k] = NetworkOf(j)
  THEN 1 ELSE 0

\* How long r may have been without news of n from j.
Bound(r, n, j) ==
  IF Waits(r, n, j) THEN 1 + Counted(r) ELSE Counted(r) + HadTurn(r) - SentOn(j)

AllWork == (\A i \in Interfaces : up[i]) /\ (\A r \in Routers : running[r])

TurnsInOrder ==
  \A r \in Routers : /\ phase[r] = "send" => r \notin turned
                     /\ phase[r] # "send" => next[r] = 1

\* Who reports of a network has it in its vector.
KnownReports(q) ==
  {t \in Reports(q) : \A n \in DOMAIN t : n \in DOMAIN vector[RouterOf(t[n].from)]}
SendersKnow == \A q \in Routers : inbox[q] \in Seq(KnownReports(q))

\* The element of a network of r's own, and of any other one.
OwnHeard(r, n) ==
  vector[r][n].silent <= IF Waits(r, n, <<r, n>>) THEN Counted(r) ELSE 0
ViaHeard(r, n) ==
  /\ vector[r][n].via \in Interfaces
  /\ RouterOf(vector[r][n].via) # r
  /\ NetworkOf(vector[r][n].via) \in Attached(r)
  /\ n \in DOMAIN vector[RouterOf(vector[r][n].via)]
  /\ vector[r][n].silent <= Bound(r, n, vector[r][n].via)

OwnNetworksHeard == \A r \in Routers : \A n \in Attached(r) : OwnHeard(r, n)
RoutesHeard ==
  \A r \in Routers : \A n \in DOMAIN vector[r] \ Attached(r) : ViaHeard(r, n)

Quiet ==
  AllWork /\ TurnsInOrder /\ SendersKnow /\ OwnNetworksHeard /\ RoutesHeard
QuietInv == changes = 0 => Quiet

LEMMA BoundType ==
  ASSUME NEW r, NEW n, NEW j
  PROVE  /\ Counted(r) \in 0..1 /\ HadTurn(r) \in 0..1 /\ SentOn(j) \in 0..1
         /\ Bound(r, n, j) \in Int /\ Bound(r, n, j) <= 1 + Counted(r)
         /\ Bound(r, n, j) <= 2
<1>1. Counted(r) \in 0..1 /\ HadTurn(r) \in 0..1 /\ SentOn(j) \in 0..1
  BY DEF Counted, HadTurn, SentOn
<1>2. Bound(r, n, j) \in {1 + Counted(r), Counted(r) + HadTurn(r) - SentOn(j)}
  BY DEF Bound
<1> QED BY <1>1, <1>2

\* No element has been silent for more than two turns.
LEMMA QuietSilent ==
  ASSUME TypeInv, Quiet, NEW r \in Routers, NEW n \in DOMAIN vector[r]
  PROVE  vector[r][n] \in Elements /\ vector[r][n].silent <= 2
<1>1. vector[r][n] \in Elements
  BY DEF TypeInv, Tables
<1>2. CASE n \in Attached(r)
  <2>1. vector[r][n].silent <= IF Waits(r, n, <<r, n>>) THEN Counted(r) ELSE 0
    BY <1>2 DEF Quiet, OwnNetworksHeard, OwnHeard
  <2>2. vector[r][n].silent \in Int
    BY <1>1, Configuration DEF Elements
  <2>3. Counted(r) \in 0..1
    BY BoundType
  <2> QED BY <1>1, <2>1, <2>2, <2>3
<1>3. CASE n \notin Attached(r)
  <2>1. vector[r][n].silent <= Bound(r, n, vector[r][n].via)
    BY <1>3 DEF Quiet, RoutesHeard, ViaHeard
  <2>2. Bound(r, n, vector[r][n].via) \in Int /\ Bound(r, n, vector[r][n].via) <= 2
    BY BoundType
  <2>3. vector[r][n].silent \in Int
    BY <1>1, Configuration DEF Elements
  <2> QED BY <1>1, <2>1, <2>2, <2>3
<1> QED BY <1>1, <1>2, <1>3

LEMMA WaitsKept ==
  ASSUME TypeInv, NEW report, Broadcast(report), NEW q \in Routers, NEW n, NEW j
  PROVE  /\ Waits(q, n, j) => Waits(q, n, j)'
         /\ n \in DOMAIN report /\ report[n].from = j /\ Hears(q, j) => Waits(q, n, j)'
<1> DEFINE heard == {k \in DOMAIN report : Hears(q, report[k].from)}
           part  == [k \in heard |-> report[k]]
<1>1. inbox'[q] = IF heard = {} THEN inbox[q] ELSE Append(inbox[q], part)
  BY DEF Broadcast
<1> DEFINE T == Reports(q) \cup {part}
<1>2. Reports(q) \subseteq T /\ part \in T
  OBVIOUS
<1>3. inbox[q] \in Seq(Reports(q))
  BY DEF TypeInv
<1> HIDE DEF T, part
<1>4. inbox[q] \in Seq(T) /\ part \in T /\ Len(inbox[q]) \in Nat
  BY <1>2, <1>3, SeqMonotonic, LenProperties
<1>5. /\ Len(Append(inbox[q], part)) = Len(inbox[q]) + 1
      /\ \A k \in 1..Len(inbox[q]) : Append(inbox[q], part)[k] = inbox[q][k]
      /\ Append(inbox[q], part)[Len(inbox[q]) + 1] = part
  BY <1>4, AppendProperties
<1>6. Waits(q, n, j) => Waits(q, n, j)'
  <2>1. CASE heard = {}
    BY <1>1, <2>1 DEF Waits
  <2>2. CASE heard # {}
    <3>1. inbox'[q] = Append(inbox[q], part)
      BY <1>1, <2>2
    <3> QED BY <1>4, <1>5, <3>1 DEF Waits
  <2> QED BY <2>1, <2>2
<1>7. ASSUME n \in DOMAIN report, report[n].from = j, Hears(q, j) PROVE Waits(q, n, j)'
  <2>1. n \in heard
    BY <1>7
  <2>2. inbox'[q] = Append(inbox[q], part)
    BY <1>1, <2>1
  <2>3. n \in DOMAIN part /\ part[n].from = j
    BY <1>7, <2>1 DEF part
  <2>4. Len(inbox'[q]) = Len(inbox[q]) + 1 /\ inbox'[q][Len(inbox[q]) + 1] = part
    BY <1>5, <2>2
  <2>5. Len(inbox[q]) + 1 \in 1..Len(inbox'[q])
    BY <1>4, <2>4
  <2> QED BY <2>3, <2>4, <2>5 DEF Waits
<1> QED BY <1>6, <1>7

LEMMA WaitsAfterTail ==
  ASSUME TypeInv, NEW r \in Routers, inbox[r] # <<>>,
         inbox' = [inbox EXCEPT ![r] = Tail(@)], NEW n, NEW j
  PROVE  /\ Waits(r, n, j)' => Waits(r, n, j)
         /\ Waits(r, n, j) => \/ Waits(r, n, j)'
                              \/ n \in DOMAIN Head(inbox[r]) /\ Head(inbox[r])[n].from = j
         /\ \A q \in Routers : q # r => (Waits(q, n, j)' <=> Waits(q, n, j))
<1>1. inbox[r] \in Seq(Reports(r)) /\ inbox'[r] = Tail(inbox[r])
  BY DEF TypeInv
<1>2. /\ Len(inbox[r]) \in Nat /\ Len(Tail(inbox[r])) = Len(inbox[r]) - 1
      /\ \A k \in 1..Len(Tail(inbox[r])) : Tail(inbox[r])[k] = inbox[r][k + 1]
  BY <1>1, HeadTailProperties, LenProperties
<1>3. Head(inbox[r]) = inbox[r][1]
  BY <1>1
<1>4. Waits(r, n, j)' => Waits(r, n, j)
  <2> SUFFICES ASSUME Waits(r, n, j)' PROVE Waits(r, n, j)
    OBVIOUS
  <2>1. PICK k \in 1..Len(inbox'[r]) : n \in DOMAIN inbox'[r][k] /\ inbox'[r][k][n].from = j
    BY DEF Waits
  <2> DEFINE l == Len(inbox[r])
  <2>2. k \in 1..(l - 1) /\ l \in Nat
    BY <1>1, <1>2
  <2> HIDE DEF l
  <2>3. k + 1 \in 1..l
    BY <2>2
  <2>4. inbox'[r][k] = inbox[r][k + 1]
    BY <1>1, <1>2
  <2> QED BY <2>1, <2>3, <2>4 DEF Waits, l
<1>5. ASSUME Waits(r, n, j), ~(n \in DOMAIN Head(inbox[r]) /\ Head(inbox[r])[n].from = j)
      PROVE  Waits(r, n, j)'
  <2>1. PICK k \in 1..Len(inbox[r]) : n \in DOMAIN inbox[r][k] /\ inbox[r][k][n].from = j
    BY <1>5 DEF Waits
  <2>2. k # 1
    BY <1>3, <1>5, <2>1
  <2>3. k - 1 \in 1..Len(Tail(inbox[r])) /\ Tail(inbox[r])[k - 1] = inbox[r][k]
    BY <1>2, <2>1, <2>2
  <2> QED BY <1>1, <2>1, <2>3 DEF Waits
<1>6. ASSUME NEW q \in Routers, q # r PROVE Waits(q, n, j)' <=> Waits(q, n, j)
  <2>1. inbox'[q] = inbox[q]
    BY <1>6 DEF TypeInv
  <2> QED BY <2>1 DEF Waits
<1> QED BY <1>4, <1>5, <1>6

\* What is heard about an element either starts its count again or leaves both
\* the count and the route.
LEMMA HeardRouteCounts ==
  ASSUME NEW e \in Elements, NEW distance \in Nat, NEW neighbour \in BOOLEAN,
         NEW from \in Interfaces, NEW own \in BOOLEAN, NEW u,
         u = Heard(Route(e, distance, neighbour, from), from, own)
  PROVE  /\ u \in Elements
         /\ u.silent \in {0, e.silent}
         /\ own => u.silent = 0
         /\ ~neighbour /\ ~own =>
              \/ u.via = from /\ u.silent = 0
              \/ from # e.via /\ u.via = e.via /\ u.silent = e.silent
<1> DEFINE e2 == Route(e, distance, neighbour, from)
<1>1. e2 \in Elements /\ e2.silent = e.silent
  BY RouteType
<1>2. ~neighbour => (e2.via = from) \/ (from # e.via /\ e2.via = e.via)
  <2>1. CASE distance < e.dist
    BY <2>1 DEF Route, Elements
  <2>2. CASE ~(distance < e.dist) /\ from = e.via
    BY <2>2 DEF Route, Elements
  <2>3. CASE ~(distance < e.dist) /\ from # e.via
    BY <2>3 DEF Route, Elements
  <2> QED BY <2>1, <2>2, <2>3
<1> HIDE DEF e2
<1>3. u = Heard(e2, from, own)
  BY DEF e2
<1>4. /\ u \in Elements /\ u.via = e2.via
      /\ u.silent = IF own \/ from = e2.via THEN 0 ELSE e2.silent
  BY <1>1, <1>3, HeardType
<1> QED BY <1>1, <1>2, <1>4

LEMMA UpdatedCounts ==
  ASSUME TypeInv, NEW r \in Routers, NEW t \in Reports(r), NEW n \in DOMAIN t,
         ~Ignored(r, n, t[n]), NEW u, u = Updated(r, n, t[n]), NEW j, j = t[n].from
  PROVE  /\ j \in Interfaces /\ NetworkOf(j) \in Attached(r)
         /\ n \in Attached(r) => /\ u.silent \in {0, vector[r][n].silent}
                                 /\ RouterOf(j) = r /\ NetworkOf(j) = n => u.silent = 0
         /\ n \notin Attached(r) =>
              /\ RouterOf(j) # r
              /\ \/ u.via = j /\ u.silent = 0
                 \/ /\ n \in DOMAIN vector[r] /\ j # vector[r][n].via
                    /\ u.via = vector[r][n].via /\ u.silent = vector[r][n].silent
<1> DEFINE d == t[n]
           distance == DistanceOver(r, n, d)
<1>1. d \in Datagrams /\ n \in Networks /\ NetworkOf(d.from) \in Attached(r)
  BY TableIsTable DEF Reports, Tables
<1>2. distance \in Nat /\ d.from \in Interfaces /\ j = d.from
  BY <1>1, DistanceOverType DEF Datagrams
<1> HIDE DEF distance
<1>3. IsDirect(n, d) \in BOOLEAN /\ IsOwnNetwork(r, n, d) \in BOOLEAN
  BY DEF IsDirect, IsOwnNetwork
<1>4. RouterOf(j) = r /\ NetworkOf(j) = n => IsOwnNetwork(r, n, d)
  BY <1>2 DEF IsOwnNetwork, IsOwn, IsDirect
<1>5. n \notin Attached(r) => ~IsDirect(n, d) /\ ~IsOwnNetwork(r, n, d) /\ RouterOf(j) # r
  BY <1>1, <1>2 DEF Ignored, IsOwn, IsDirect, IsOwnNetwork
<1>6. CASE n \in DOMAIN vector[r]
  <2>1. vector[r][n] \in Elements
    BY <1>6 DEF TypeInv, Tables
  <2>2. u = Heard(Route(vector[r][n], distance, IsDirect(n, d), d.from),
                  d.from, IsOwnNetwork(r, n, d))
    BY <1>6 DEF Updated, distance
  <2>3. /\ u.silent \in {0, vector[r][n].silent}
        /\ IsOwnNetwork(r, n, d) => u.silent = 0
        /\ ~IsDirect(n, d) /\ ~IsOwnNetwork(r, n, d) =>
             \/ u.via = d.from /\ u.silent = 0
             \/ d.from # vector[r][n].via /\ u.via = vector[r][n].via /\ u.silent = vector[r][n].silent
    BY <1>2, <1>3, <2>1, <2>2, HeardRouteCounts
  <2> QED BY <1>1, <1>2, <1>4, <1>5, <1>6, <2>3
<1>7. CASE n \notin DOMAIN vector[r]
  <2>1. u = Element(distance, IsDirect(n, d), d.from)
    BY <1>7 DEF Updated, distance
  <2>2. u.silent = 0 /\ u.via = d.from
    BY <2>1 DEF Element
  <2>3. n \notin Attached(r)
    BY <1>7 DEF TypeInv
  <2> QED BY <1>1, <1>2, <1>5, <2>2, <2>3
<1> QED BY <1>6, <1>7

\* Reports stay known as long as no network leaves a vector.
LEMMA KnownGrows ==
  ASSUME \A q \in Routers : DOMAIN vector[q] \subseteq DOMAIN vector'[q],
         NEW q \in Routers, NEW s \in Seq(KnownReports(q))
  PROVE  s \in Seq(KnownReports(q)')
<1>1. ASSUME NEW t \in KnownReports(q) PROVE t \in KnownReports(q)'
  <2>1. t \in Reports(q) /\ \A n \in DOMAIN t : n \in DOMAIN vector[RouterOf(t[n].from)]
    BY DEF KnownReports
  <2>2. \A n \in DOMAIN t : RouterOf(t[n].from) \in Routers
    <3>1. \A n \in DOMAIN t : t[n] \in Datagrams
      BY <2>1 DEF Reports, Tables
    <3> QED BY <3>1, Configuration DEF Datagrams
  <2>3. \A n \in DOMAIN t : n \in DOMAIN vector'[RouterOf(t[n].from)]
    BY <2>1, <2>2
  <2> QED BY <2>1, <2>3 DEF KnownReports
<1> HIDE DEF KnownReports
<1>2. KnownReports(q) \subseteq KnownReports(q)'
  BY <1>1
<1> QED BY <1>2, SeqMonotonic

LEMMA KnownBroadcast ==
  ASSUME TypeInv, SendersKnow, NEW report \in Tables(Datagrams), Broadcast(report),
         \A n \in DOMAIN report : n \in DOMAIN vector[RouterOf(report[n].from)],
         \A q \in Routers : DOMAIN vector[q] \subseteq DOMAIN vector'[q]
  PROVE  SendersKnow'
<1> DEFINE R == [q \in Routers |-> KnownReports(q)]
<1>1. ASSUME NEW q \in Routers, NEW heard \in SUBSET DOMAIN report,
             \A k \in heard : Hears(q, report[k].from)
      PROVE  [k \in heard |-> report[k]] \in R[q]
  <2>1. [k \in heard |-> report[k]] \in Tables(Datagrams)
    BY DEF Tables
  <2>2. \A k \in heard : NetworkOf(report[k].from) \in Attached(q)
    BY <1>1, Configuration DEF Hears
  <2> QED BY <2>1, <2>2 DEF Reports, KnownReports
<1>2. \A q \in Routers : inbox[q] \in Seq(R[q])
  BY DEF SendersKnow
<1> HIDE DEF R
<1>3. \A q \in Routers : inbox'[q] \in Seq(R[q])
  BY <1>1, <1>2, BroadcastInto
<1>4. \A q \in Routers : inbox'[q] \in Seq(KnownReports(q))
  BY <1>3 DEF R
<1>5. \A q \in Routers : inbox'[q] \in Seq(KnownReports(q)')
  BY <1>4, KnownGrows
<1> QED BY <1>5 DEF SendersKnow

\* A report to come stays to come, and the difference of turns changes by as
\* much as what r has counted.
LEMMA BoundKept ==
  ASSUME NEW q, NEW n, NEW j, NEW c \in 0..1,
         Waits(q, n, j) => Waits(q, n, j)',
         Counted(q)' = Counted(q) + c,
         HadTurn(q)' - SentOn(j)' = HadTurn(q) - SentOn(j)
  PROVE  Bound(q, n, j)' \in Int /\ Bound(q, n, j) + c <= Bound(q, n, j)'
<1>1. Counted(q) \in 0..1 /\ HadTurn(q) \in 0..1 /\ SentOn(j) \in 0..1
  BY BoundType
<1>2. Counted(q)' \in 0..1 /\ HadTurn(q)' \in 0..1 /\ SentOn(j)' \in 0..1
  BY DEF Counted, HadTurn, SentOn
<1>3. Bound(q, n, j)' = IF Waits(q, n, j)' THEN 1 + Counted(q)'
                        ELSE Counted(q)' + HadTurn(q)' - SentOn(j)'
  BY DEF Bound
<1>4. Bound(q, n, j) = IF Waits(q, n, j) THEN 1 + Counted(q)
                       ELSE Counted(q) + HadTurn(q) - SentOn(j)
  BY DEF Bound
<1> QED BY <1>1, <1>2, <1>3, <1>4

\* What happens to elements that stay as they are.
LEMMA ElementsKept ==
  ASSUME TypeInv, Quiet, NEW q \in Routers, vector'[q] = vector[q],
         \A p \in Routers : DOMAIN vector[p] \subseteq DOMAIN vector'[p],
         Counted(q)' = Counted(q),
         \A n, j : Waits(q, n, j) => Waits(q, n, j)',
         \A n \in DOMAIN vector[q] \ Attached(q) : \A j \in Interfaces :
           j = vector[q][n].via
             => Bound(q, n, j)' \in Int /\ Bound(q, n, j) <= Bound(q, n, j)'
  PROVE  /\ \A n \in Attached(q) : OwnHeard(q, n)'
         /\ \A n \in DOMAIN vector'[q] \ Attached(q) : ViaHeard(q, n)'
<1>1. ASSUME NEW n \in Attached(q) PROVE OwnHeard(q, n)'
  <2>1. OwnHeard(q, n) /\ vector[q][n].silent <= 2 /\ vector[q][n] \in Elements
    BY QuietSilent DEF Quiet, OwnNetworksHeard, TypeInv
  <2>2. Counted(q) \in 0..1 /\ vector[q][n].silent \in Int
    BY <2>1, BoundType, Configuration DEF Elements
  <2>3. Waits(q, n, <<q, n>>) => Waits(q, n, <<q, n>>)'
    OBVIOUS
  <2> QED BY <2>1, <2>2, <2>3 DEF OwnHeard
<1>2. ASSUME NEW n \in DOMAIN vector'[q] \ Attached(q) PROVE ViaHeard(q, n)'
  <2>1. ViaHeard(q, n) /\ vector[q][n] \in Elements
    BY QuietSilent DEF Quiet, RoutesHeard, TypeInv
  <2> DEFINE j == vector[q][n].via
  <2>2. PICK i : i = j
    OBVIOUS
  <2>3. /\ i \in Interfaces /\ RouterOf(i) # q /\ NetworkOf(i) \in Attached(q)
        /\ n \in DOMAIN vector[RouterOf(i)] /\ RouterOf(i) \in Routers
        /\ vector[q][n].silent <= Bound(q, n, i)
    BY <2>1, <2>2, Configuration DEF ViaHeard
  <2>4. vector[q][n].silent \in Int /\ Bound(q, n, i) \in Int
    BY <2>1, BoundType, Configuration DEF Elements
  <2>5. Bound(q, n, i)' \in Int /\ Bound(q, n, i) <= Bound(q, n, i)'
    BY <2>2, <2>3, <1>2
  <2>6. vector'[q][n].silent <= Bound(q, n, i)'
    BY <2>3, <2>4, <2>5
  <2>7. vector'[q][n].via = i /\ n \in DOMAIN vector'[RouterOf(i)]
    BY <2>2, <2>3
  <2> QED BY <2>3, <2>6, <2>7 DEF ViaHeard
<1> QED BY <1>1, <1>2

LEMMA QuietAnnounce ==
  ASSUME TypeInv, Quiet, NEW r \in Routers, Announce(r)
  PROVE  Quiet'
<1> DEFINE v == [n \in DOMAIN vector[r] |-> OneMoreTurn(vector[r][n])]
           report == [n \in Attached(r) |-> [from |-> <<r, n>>, dist |-> Cost[<<r, n>>]]]
<1>1. /\ vector' = [vector EXCEPT ![r] = v] /\ Broadcast(report)
      /\ phase[r] = "announce" /\ phase' = [phase EXCEPT ![r] = "receive"]
      /\ UNCHANGED <<next, turned, up, running>>
  BY DEF Announce, worldVars
<1>2. vector'[r] = v /\ \A q \in Routers : q # r => vector'[q] = vector[q]
  BY <1>1 DEF TypeInv
<1>3. \A q \in Routers : DOMAIN vector'[q] = DOMAIN vector[q]
  BY <1>2
<1>4. AllWork' /\ TurnsInOrder'
  BY <1>1 DEF Quiet, AllWork, TurnsInOrder, TypeInv
<1>5. report \in Tables(Datagrams)
  BY AnnouncementType
<1>6. \A n \in DOMAIN report : n \in DOMAIN vector[RouterOf(report[n].from)]
  BY DEF RouterOf, TypeInv
<1>7. \A n \in Attached(r) : n \in DOMAIN report /\ report[n].from = <<r, n>>
  OBVIOUS
<1> HIDE DEF report
<1>8. SendersKnow'
  BY <1>1, <1>3, <1>5, <1>6, KnownBroadcast DEF Quiet
<1>9. \A q \in Routers : \A n, j : Waits(q, n, j) => Waits(q, n, j)'
  BY <1>1, WaitsKept
<1>10. /\ Counted(r) = 0 /\ Counted(r)' = 1
       /\ \A q \in Routers : q # r => Counted(q)' = Counted(q)
       /\ \A q \in Routers : HadTurn(q)' = HadTurn(q)
  BY <1>1 DEF Counted, HadTurn, TypeInv
<1>11. \A j \in Interfaces : SentOn(j)' = SentOn(j)
  BY <1>1, Configuration DEF SentOn, TypeInv
<1>12. ASSUME NEW q \in Routers, NEW n, NEW j \in Interfaces, q # r
       PROVE  Bound(q, n, j)' \in Int /\ Bound(q, n, j) <= Bound(q, n, j)'
  <2>1. Counted(q)' = Counted(q) + 0 /\ Counted(q) \in 0..1
    BY <1>10, <1>12, BoundType
  <2>2. HadTurn(q)' - SentOn(j)' = HadTurn(q) - SentOn(j)
    BY <1>10, <1>11
  <2>3. Bound(q, n, j)' \in Int /\ Bound(q, n, j) + 0 <= Bound(q, n, j)'
    BY <1>9, <2>1, <2>2, BoundKept
  <2> QED BY <2>3, BoundType
<1>13. ASSUME NEW q \in Routers, q # r
       PROVE  /\ \A n \in Attached(q) : OwnHeard(q, n)'
              /\ \A n \in DOMAIN vector'[q] \ Attached(q) : ViaHeard(q, n)'
  BY <1>2, <1>3, <1>9, <1>10, <1>12, <1>13, ElementsKept
<1>14. ASSUME NEW n \in DOMAIN vector[r]
       PROVE  /\ v[n].via = vector[r][n].via
              /\ v[n].silent \in Int /\ vector[r][n].silent \in Int
              /\ v[n].silent <= vector[r][n].silent + 1
  <2>1. PICK e \in Elements : e = vector[r][n]
    BY DEF TypeInv, Tables
  <2> DEFINE silent == IF e.silent > MaxSilent THEN e.silent ELSE e.silent + 1
             dist   == IF silent > MaxSilent THEN Infinity ELSE e.dist
  <2>2. silent \in Int /\ e.silent \in Int /\ silent <= e.silent + 1
    BY Configuration DEF Elements
  <2>3. OneMoreTurn(e) = [e EXCEPT !.silent = silent, !.dist = dist]
    BY DEF OneMoreTurn, Elements
  <2> HIDE DEF silent, dist
  <2>4. OneMoreTurn(e).silent = silent /\ OneMoreTurn(e).via = e.via
    BY <2>3 DEF Elements
  <2> QED BY <2>1, <2>2, <2>4
<1> HIDE DEF v
<1>15. ASSUME NEW n \in Attached(r) PROVE OwnHeard(r, n)'
  <2>1. Waits(r, n, <<r, n>>)'
    <3>1. Hears(r, <<r, n>>)
      BY Configuration DEF Hears, NetworkOf, Quiet, AllWork
    <3> QED BY <1>1, <1>7, <3>1, WaitsKept
  <2>2. vector[r][n].silent <= 0 /\ n \in DOMAIN vector[r]
    BY <1>10 DEF Quiet, OwnNetworksHeard, OwnHeard, TypeInv
  <2>3. v[n].silent <= 1
    BY <1>14, <2>2
  <2> QED BY <1>2, <1>10, <2>1, <2>3 DEF OwnHeard
<1>16. ASSUME NEW n \in DOMAIN vector'[r] \ Attached(r) PROVE ViaHeard(r, n)'
  <2>1. n \in DOMAIN vector[r] /\ ViaHeard(r, n)
    BY <1>3, <1>16 DEF Quiet, RoutesHeard
  <2>2. PICK j : j = vector[r][n].via
    OBVIOUS
  <2>3. /\ j \in Interfaces /\ RouterOf(j) # r /\ NetworkOf(j) \in Attached(r)
        /\ n \in DOMAIN vector[RouterOf(j)] /\ RouterOf(j) \in Routers
        /\ vector[r][n].silent <= Bound(r, n, j)
    BY <2>1, <2>2, Configuration DEF ViaHeard
  <2>4. HadTurn(r)' - SentOn(j)' = HadTurn(r) - SentOn(j)
    BY <1>10, <1>11, <2>3
  <2>5. Bound(r, n, j)' \in Int /\ Bound(r, n, j) + 1 <= Bound(r, n, j)'
    BY <1>9, <1>10, <2>4, BoundKept
  <2>6. vector'[r][n].silent <= Bound(r, n, j)'
    BY <1>2, <1>14, <2>1, <2>3, <2>5, BoundType
  <2>7. vector'[r][n].via = j /\ n \in DOMAIN vector'[RouterOf(j)]
    BY <1>2, <1>3, <1>14, <2>1, <2>2, <2>3
  <2> QED BY <2>3, <2>6, <2>7 DEF ViaHeard
<1>17. OwnNetworksHeard'
  BY <1>13, <1>15 DEF OwnNetworksHeard
<1>18. RoutesHeard'
  BY <1>13, <1>16 DEF RoutesHeard
<1> QED BY <1>4, <1>8, <1>17, <1>18 DEF Quiet

LEMMA QuietReceive ==
  ASSUME TypeInv, Quiet, NEW r \in Routers, Receive(r)
  PROVE  Quiet'
<1> DEFINE t == Head(inbox[r])
           v == Merged(r, t)
           news == {n \in DOMAIN t : ~Ignored(r, n, t[n])}
<1>1. /\ phase[r] = "receive" /\ inbox[r] # <<>>
      /\ vector' = [vector EXCEPT ![r] = v]
      /\ inbox' = [inbox EXCEPT ![r] = Tail(@)]
      /\ UNCHANGED <<phase, next, turned, up, running>>
  BY DEF Receive, worldVars
<1>2. vector'[r] = v /\ \A q \in Routers : q # r => vector'[q] = vector[q]
  BY <1>1 DEF TypeInv
<1>3. /\ DOMAIN v = DOMAIN vector[r] \cup news
      /\ \A n \in news : v[n] = Updated(r, n, t[n])
      /\ \A n \in DOMAIN vector[r] : n \notin news => v[n] = vector[r][n]
  BY DEF Merged
<1>4. inbox[r] \in Seq(KnownReports(r))
  BY DEF Quiet, SendersKnow
<1>5. t \in KnownReports(r)
  BY <1>1, <1>4, HeadTailProperties
<1>6. t \in Reports(r) /\ \A n \in DOMAIN t : n \in DOMAIN vector[RouterOf(t[n].from)]
  BY <1>5 DEF KnownReports
<1> HIDE DEF v
<1>7. \A q \in Routers : DOMAIN vector[q] \subseteq DOMAIN vector'[q]
  BY <1>2, <1>3
<1>8. AllWork' /\ TurnsInOrder'
  BY <1>1 DEF Quiet, AllWork, TurnsInOrder, TypeInv
<1>9. SendersKnow'
  <2>1. \A q \in Routers : inbox'[q] \in Seq(KnownReports(q))
    <3>1. Tail(inbox[r]) \in Seq(KnownReports(r))
      BY <1>1, <1>4, HeadTailProperties
    <3> HIDE DEF KnownReports
    <3> QED BY <1>1, <3>1 DEF Quiet, SendersKnow, TypeInv
  <2>2. \A q \in Routers : inbox'[q] \in Seq(KnownReports(q)')
    BY <1>7, <2>1, KnownGrows
  <2> QED BY <2>2 DEF SendersKnow
<1>10. \A n, j : /\ Waits(r, n, j)' => Waits(r, n, j)
                 /\ Waits(r, n, j) => \/ Waits(r, n, j)'
                                      \/ n \in DOMAIN t /\ t[n].from = j
                 /\ \A q \in Routers : q # r => (Waits(q, n, j)' <=> Waits(q, n, j))
  BY <1>1, WaitsAfterTail
<1> HIDE DEF t, news
<1>11. /\ Counted(r) = 1 /\ Counted(r)' = 1
       /\ \A q \in Routers : Counted(q)' = Counted(q) /\ HadTurn(q)' = HadTurn(q)
       /\ \A j \in Interfaces : SentOn(j)' = SentOn(j)
  BY <1>1 DEF Counted, HadTurn, SentOn
<1>12. ASSUME NEW q \in Routers, NEW n, NEW j \in Interfaces,
              Waits(q, n, j) => Waits(q, n, j)'
       PROVE  Bound(q, n, j)' \in Int /\ Bound(q, n, j) <= Bound(q, n, j)'
  <2>1. Counted(q)' = Counted(q) + 0 /\ Counted(q) \in 0..1
    BY <1>11, BoundType
  <2>2. HadTurn(q)' - SentOn(j)' = HadTurn(q) - SentOn(j)
    BY <1>11
  <2>3. Bound(q, n, j)' \in Int /\ Bound(q, n, j) + 0 <= Bound(q, n, j)'
    BY <1>12, <2>1, <2>2, BoundKept
  <2> QED BY <2>3, BoundType
<1>13. ASSUME NEW q \in Routers, q # r
       PROVE  /\ \A n \in Attached(q) : OwnHeard(q, n)'
              /\ \A n \in DOMAIN vector'[q] \ Attached(q) : ViaHeard(q, n)'
  <2>1. \A n, j : Waits(q, n, j) => Waits(q, n, j)'
    BY <1>10, <1>13
  <2> QED BY <1>2, <1>7, <1>11, <1>12, <1>13, <2>1, ElementsKept
<1>14. ASSUME NEW n \in Attached(r) PROVE OwnHeard(r, n)'
  <2>1. n \in DOMAIN vector[r] /\ OwnHeard(r, n)
    BY DEF TypeInv, Quiet, OwnNetworksHeard
  <2>2. vector[r][n].silent \in Nat
    BY <2>1, QuietSilent, Configuration DEF Elements
  <2>3. CASE n \in news
    <3>1. n \in DOMAIN t /\ ~Ignored(r, n, t[n])
      BY <2>3 DEF news
    <3>2. PICK j : j = t[n].from
      OBVIOUS
    <3>3. PICK u : u = Updated(r, n, t[n])
      OBVIOUS
    <3>4. /\ u.silent \in {0, vector[r][n].silent}
          /\ j = <<r, n>> => u.silent = 0
      <4>1. /\ u.silent \in {0, vector[r][n].silent}
            /\ RouterOf(j) = r /\ NetworkOf(j) = n => u.silent = 0
        BY <1>6, <1>14, <3>1, <3>2, <3>3, UpdatedCounts
      <4> QED BY <4>1 DEF RouterOf, NetworkOf
    <3>5. vector'[r][n] = u
      BY <1>2, <1>3, <2>3, <3>3
    <3>6. CASE Waits(r, n, <<r, n>>)'
      BY <1>10, <1>11, <2>1, <2>2, <3>4, <3>5, <3>6 DEF OwnHeard
    <3>7. CASE ~Waits(r, n, <<r, n>>)'
      <4>1. ~Waits(r, n, <<r, n>>) \/ j = <<r, n>>
        BY <1>10, <3>2, <3>7
      <4> QED BY <1>11, <2>1, <2>2, <3>4, <3>5, <3>7, <4>1 DEF OwnHeard
    <3> QED BY <3>6, <3>7
  <2>4. CASE n \notin news
    <3>1. vector'[r][n] = vector[r][n]
      BY <1>2, <1>3, <2>1, <2>4
    <3>2. ~(n \in DOMAIN t /\ t[n].from = <<r, n>>)
      BY <2>4 DEF news, Ignored, IsOwn, IsDirect, RouterOf, NetworkOf
    <3>3. Waits(r, n, <<r, n>>) <=> Waits(r, n, <<r, n>>)'
      BY <1>10, <3>2
    <3> QED BY <1>11, <2>1, <3>1, <3>3 DEF OwnHeard
  <2> QED BY <2>3, <2>4
<1>15. ASSUME NEW n \in DOMAIN vector'[r] \ Attached(r) PROVE ViaHeard(r, n)'
  <2>1. CASE n \in news
    <3>1. n \in DOMAIN t /\ ~Ignored(r, n, t[n])
      BY <2>1 DEF news
    <3>2. PICK j : j = t[n].from
      OBVIOUS
    <3>3. PICK u : u = Updated(r, n, t[n])
      OBVIOUS
    <3>4. /\ j \in Interfaces /\ NetworkOf(j) \in Attached(r) /\ RouterOf(j) # r
          /\ \/ u.via = j /\ u.silent = 0
             \/ /\ n \in DOMAIN vector[r] /\ j # vector[r][n].via
                /\ u.via = vector[r][n].via /\ u.silent = vector[r][n].silent
      BY <1>6, <1>15, <3>1, <3>2, <3>3, UpdatedCounts
    <3>5. vector'[r][n] = u
      BY <1>2, <1>3, <2>1, <3>3
    <3>6. CASE u.via = j /\ u.silent = 0
      <4>1. n \in DOMAIN vector'[RouterOf(j)]
        BY <1>6, <1>7, <3>1, <3>2, <3>4, Configuration
      <4>2. 0 <= Bound(r, n, j)'
        <5>1. Counted(r)' = 1 /\ HadTurn(r)' \in 0..1 /\ SentOn(j)' \in 0..1
          BY <1>11 DEF HadTurn, SentOn
        <5> QED BY <5>1 DEF Bound
      <4> QED BY <3>4, <3>5, <3>6, <4>1, <4>2 DEF ViaHeard
    <3>7. CASE /\ n \in DOMAIN vector[r] /\ j # vector[r][n].via
               /\ u.via = vector[r][n].via /\ u.silent = vector[r][n].silent
      <4>1. ViaHeard(r, n)
        BY <1>15, <3>7 DEF Quiet, RoutesHeard
      <4>2. PICK i : i = vector[r][n].via
        OBVIOUS
      <4>3. /\ i \in Interfaces /\ RouterOf(i) # r /\ NetworkOf(i) \in Attached(r)
            /\ n \in DOMAIN vector[RouterOf(i)] /\ RouterOf(i) \in Routers
            /\ vector[r][n].silent <= Bound(r, n, i)
        BY <4>1, <4>2, Configuration DEF ViaHeard
      <4>4. Waits(r, n, i) => Waits(r, n, i)'
        BY <1>10, <3>2, <3>7, <4>2
      <4>5. Bound(r, n, i)' \in Int /\ Bound(r, n, i) <= Bound(r, n, i)'
        BY <1>12, <4>3, <4>4
      <4>6. vector[r][n].silent \in Int /\ Bound(r, n, i) \in Int
        BY <3>7, QuietSilent, BoundType, Configuration DEF Elements
      <4>7. u.silent <= Bound(r, n, i)'
        BY <3>7, <4>3, <4>5, <4>6
      <4>8. u.via = i /\ n \in DOMAIN vector'[RouterOf(i)]
        BY <1>7, <3>7, <4>2, <4>3
      <4> QED BY <3>5, <4>3, <4>7, <4>8 DEF ViaHeard
    <3> QED BY <3>4, <3>6, <3>7
  <2>2. CASE n \notin news
    <3>1. n \in DOMAIN vector[r] /\ vector'[r][n] = vector[r][n]
      BY <1>2, <1>3, <1>15, <2>2
    <3>2. ViaHeard(r, n)
      BY <1>15, <3>1 DEF Quiet, RoutesHeard
    <3>3. PICK i : i = vector[r][n].via
      OBVIOUS
    <3>4. /\ i \in Interfaces /\ RouterOf(i) # r /\ NetworkOf(i) \in Attached(r)
          /\ n \in DOMAIN vector[RouterOf(i)] /\ RouterOf(i) \in Routers
          /\ vector[r][n].silent <= Bound(r, n, i)
      BY <3>2, <3>3, Configuration DEF ViaHeard
    <3>5. ~(n \in DOMAIN t /\ t[n].from = i)
      BY <2>2, <3>4 DEF news, Ignored, IsOwn
    <3>6. Waits(r, n, i) => Waits(r, n, i)'
      BY <1>10, <3>5
    <3>7. Bound(r, n, i)' \in Int /\ Bound(r, n, i) <= Bound(r, n, i)'
      BY <1>12, <3>4, <3>6
    <3>8. vector[r][n].silent \in Int /\ Bound(r, n, i) \in Int
      BY <3>1, QuietSilent, BoundType, Configuration DEF Elements
    <3>9. vector'[r][n].silent <= Bound(r, n, i)'
      BY <3>1, <3>4, <3>7, <3>8
    <3>10. vector'[r][n].via = i /\ n \in DOMAIN vector'[RouterOf(i)]
      BY <1>7, <3>1, <3>3, <3>4
    <3> QED BY <3>4, <3>9, <3>10 DEF ViaHeard
  <2> QED BY <2>1, <2>2
<1>16. OwnNetworksHeard'
  BY <1>13, <1>14 DEF OwnNetworksHeard
<1>17. RoutesHeard'
  BY <1>13, <1>15 DEF RoutesHeard
<1> QED BY <1>8, <1>9, <1>16, <1>17 DEF Quiet

LEMMA QuietTimeout ==
  ASSUME TypeInv, Quiet, NEW r \in Routers, Timeout(r)
  PROVE  Quiet'
<1>1. /\ phase[r] = "receive" /\ inbox[r] = <<>> /\ r \notin turned
      /\ phase' = [phase EXCEPT ![r] = "send"]
      /\ UNCHANGED <<vector, next, inbox, turned, up, running>>
  BY DEF Timeout, worldVars
<1>2. AllWork' /\ TurnsInOrder'
  BY <1>1 DEF Quiet, AllWork, TurnsInOrder, TypeInv
<1>3. SendersKnow'
  BY <1>1 DEF Quiet, SendersKnow, KnownReports
<1>4. \A q, n, j : Waits(q, n, j)' <=> Waits(q, n, j)
  BY <1>1 DEF Waits
<1>5. \A n, j : ~Waits(r, n, j)
  BY <1>1 DEF Waits
<1>6. /\ Counted(r) = 1 /\ Counted(r)' = 0
      /\ HadTurn(r) = 0 /\ HadTurn(r)' = 1
      /\ \A q \in Routers : q # r => Counted(q)' = Counted(q) /\ HadTurn(q)' = HadTurn(q)
  BY <1>1 DEF Counted, HadTurn, TypeInv
<1>7. ASSUME NEW j \in Interfaces PROVE SentOn(j)' = SentOn(j)
  <2>1. RouterOf(j) \in Routers
    BY Configuration
  <2>2. CASE RouterOf(j) = r
    <3>1. next[r] = 1 /\ next'[r] = 1
      BY <1>1 DEF Quiet, TurnsInOrder
    <3> QED BY <1>1, <2>2, <3>1 DEF SentOn
  <2>3. CASE RouterOf(j) # r
    <3>1. phase'[RouterOf(j)] = phase[RouterOf(j)]
      BY <1>1, <2>1, <2>3 DEF TypeInv
    <3> QED BY <1>1, <3>1 DEF SentOn
  <2> QED BY <2>2, <2>3
<1>8. ASSUME NEW q \in Routers, NEW n, NEW j \in Interfaces
      PROVE  Bound(q, n, j)' = Bound(q, n, j)
  <2>1. CASE q = r
    <3>1. /\ Bound(r, n, j) = Counted(r) + HadTurn(r) - SentOn(j)
          /\ Bound(r, n, j)' = Counted(r)' + HadTurn(r)' - SentOn(j)'
      BY <1>4, <1>5 DEF Bound
    <3> QED BY <1>6, <1>7, <2>1, <3>1, BoundType
  <2>2. CASE q # r
    BY <1>4, <1>6, <1>7, <2>2 DEF Bound
  <2> QED BY <2>1, <2>2
<1>9. OwnNetworksHeard'
  <2> SUFFICES ASSUME NEW q \in Routers, NEW n \in Attached(q) PROVE OwnHeard(q, n)'
    BY DEF OwnNetworksHeard
  <2>1. OwnHeard(q, n) /\ vector'[q][n] = vector[q][n]
    BY <1>1 DEF Quiet, OwnNetworksHeard
  <2>2. (IF Waits(q, n, <<q, n>>) THEN Counted(q) ELSE 0)'
          = IF Waits(q, n, <<q, n>>) THEN Counted(q) ELSE 0
    BY <1>4, <1>5, <1>6
  <2> QED BY <2>1, <2>2 DEF OwnHeard
<1>10. RoutesHeard'
  <2> SUFFICES ASSUME NEW q \in Routers, NEW n \in DOMAIN vector[q] \ Attached(q)
               PROVE  ViaHeard(q, n)'
    BY <1>1 DEF RoutesHeard
  <2>1. ViaHeard(q, n)
    BY DEF Quiet, RoutesHeard
  <2>2. PICK j : j = vector[q][n].via
    OBVIOUS
  <2>3. Bound(q, n, j)' = Bound(q, n, j)
    BY <1>8, <2>1, <2>2 DEF ViaHeard
  <2> QED BY <1>1, <2>1, <2>2, <2>3 DEF ViaHeard
<1> QED BY <1>2, <1>3, <1>9, <1>10 DEF Quiet

\* The vector goes to whoever has a route through the interface, with every
\* network in it, as none has been silent for too long.
LEMMA QuietSendVector ==
  ASSUME MaxSilent >= 2, TypeInv, Quiet, NEW r \in Routers, SendVector(r)
  PROVE  Quiet'
<1> DEFINE i == CurrentInterface(r)
           report == [n \in Advertised(r) |-> [from |-> i, dist |-> vector[r][n].dist]]
<1>1. /\ phase[r] = "send" /\ MoreInterfaces(r)
      /\ (Advertised(r) = {} /\ UNCHANGED inbox) \/ Broadcast(report)
      /\ next' = [next EXCEPT ![r] = @ + 1]
      /\ UNCHANGED <<vector, phase, turned, up, running>>
  BY DEF SendVector, NextInterface, worldVars
<1>2. /\ i \in Interfaces /\ RouterOf(i) = r /\ NetworkOf(i) = Config[r][next[r]]
      /\ next[r] \in Nat
  BY <1>1, CurrentType DEF CurrentInterface, RouterOf, NetworkOf, TypeInv
<1>3. Advertised(r) = DOMAIN vector[r]
  <2>1. ASSUME NEW n \in DOMAIN vector[r] PROVE vector[r][n].silent <= MaxSilent
    <3>1. vector[r][n] \in Elements /\ vector[r][n].silent <= 2
      BY QuietSilent
    <3> QED BY <3>1, Configuration DEF Elements
  <2> QED BY <2>1 DEF Advertised
<1>4. report \in Tables(Datagrams)
  BY <1>2, AdvertisementType
<1> HIDE DEF i
<1>5. /\ \A n \in DOMAIN report : n \in DOMAIN vector[RouterOf(report[n].from)]
      /\ \A n \in DOMAIN vector[r] : n \in DOMAIN report /\ report[n].from = i
  BY <1>2, <1>3
<1> HIDE DEF report
<1>6. AllWork' /\ TurnsInOrder'
  BY <1>1 DEF Quiet, AllWork, TurnsInOrder, TypeInv
<1>7. SendersKnow'
  <2>1. CASE UNCHANGED inbox
    BY <1>1, <2>1 DEF Quiet, SendersKnow, KnownReports
  <2>2. CASE Broadcast(report)
    BY <1>1, <1>4, <1>5, <2>2, KnownBroadcast DEF Quiet
  <2> QED BY <1>1, <2>1, <2>2
<1>8. \A q \in Routers : \A n, j : Waits(q, n, j) => Waits(q, n, j)'
  <2>1. CASE UNCHANGED inbox
    BY <2>1 DEF Waits
  <2>2. CASE Broadcast(report)
    BY <2>2, WaitsKept
  <2> QED BY <1>1, <2>1, <2>2
<1>9. \A q : Counted(q)' = Counted(q) /\ HadTurn(q)' = HadTurn(q)
  BY <1>1 DEF Counted, HadTurn
<1>10. ASSUME NEW j \in Interfaces, j # i PROVE SentOn(j)' = SentOn(j)
  <2>1. RouterOf(j) \in Routers /\ j = <<RouterOf(j), NetworkOf(j)>> /\ i = <<RouterOf(i), NetworkOf(i)>>
    BY <1>2, Configuration
  <2>2. CASE RouterOf(j) # r
    <3>1. next'[RouterOf(j)] = next[RouterOf(j)]
      BY <1>1, <2>1, <2>2 DEF TypeInv
    <3> QED BY <1>1, <3>1 DEF SentOn
  <2>3. CASE RouterOf(j) = r
    <3>1. NetworkOf(j) # Config[r][next[r]]
      BY <1>2, <1>10, <2>1, <2>3
    <3>2. next'[r] = next[r] + 1
      BY <1>1 DEF TypeInv
    <3>3. \A k : k \in 1..(next'[r] - 1) <=> k \in 1..(next[r] - 1) \/ k = next[r]
      BY <1>1, <1>2, <3>2 DEF TypeInv
    <3>4. (\E k \in 1..(next'[r] - 1) : Config[r][k] = NetworkOf(j))
            <=> \E k \in 1..(next[r] - 1) : Config[r][k] = NetworkOf(j)
      BY <3>1, <3>3
    <3> QED BY <1>1, <2>3, <3>4 DEF SentOn
  <2> QED BY <2>2, <2>3
<1>11. ASSUME NEW q \in Routers, NEW n \in DOMAIN vector[q] \ Attached(q),
              NEW j \in Interfaces, j = vector[q][n].via
       PROVE  Bound(q, n, j)' \in Int /\ Bound(q, n, j) <= Bound(q, n, j)'
  <2>1. CASE j # i
    <3>1. Counted(q)' = Counted(q) + 0
      BY <1>9, BoundType
    <3>2. HadTurn(q)' - SentOn(j)' = HadTurn(q) - SentOn(j)
      BY <1>9, <1>10, <2>1
    <3>3. Bound(q, n, j)' \in Int /\ Bound(q, n, j) + 0 <= Bound(q, n, j)'
      BY <1>8, <3>1, <3>2, BoundKept
    <3> QED BY <3>3, BoundType
  <2>2. CASE j = i
    <3>1. ViaHeard(q, n)
      BY <1>11 DEF Quiet, RoutesHeard
    <3>2. NetworkOf(j) \in Attached(q) /\ n \in DOMAIN vector[r]
      BY <1>2, <1>11, <2>2, <3>1 DEF ViaHeard
    <3>3. Hears(q, j)
      BY <3>2, Configuration DEF Hears, Quiet, AllWork
    <3>4. Broadcast(report)
      BY <1>1, <1>3, <3>2
    <3>5. Waits(q, n, j)'
      BY <1>5, <2>2, <3>2, <3>3, <3>4, WaitsKept
    <3>6. Bound(q, n, j)' = 1 + Counted(q)
      BY <1>9, <3>5 DEF Bound
    <3> QED BY <3>6, BoundType
  <2> QED BY <2>1, <2>2
<1>12. ASSUME NEW q \in Routers
       PROVE  /\ \A n \in Attached(q) : OwnHeard(q, n)'
              /\ \A n \in DOMAIN vector'[q] \ Attached(q) : ViaHeard(q, n)'
  BY <1>1, <1>8, <1>9, <1>11, ElementsKept
<1> QED BY <1>6, <1>7, <1>12 DEF Quiet, OwnNetworksHeard, RoutesHeard

\* After the turn the count of turns is the same, or falls for all at once.
LEMMA QuietEndTurn ==
  ASSUME TypeInv, Quiet, NEW r \in Routers, EndTurn(r)
  PROVE  Quiet'
<1> DEFINE done == turned \cup {r}
<1>1. /\ phase[r] = "send" /\ ~MoreInterfaces(r)
      /\ phase' = [phase EXCEPT ![r] = "announce"]
      /\ next' = [next EXCEPT ![r] = 1]
      /\ UNCHANGED <<vector, inbox, up, running>>
  BY DEF EndTurn, worldVars
<1>2. (turned' = {} /\ \A q \in Routers : q \in done) \/ turned' = done
  BY DEF EndTurn, Turned, Quiet, AllWork
<1>3. /\ phase'[r] = "announce" /\ next'[r] = 1
      /\ \A q \in Routers : q # r => phase'[q] = phase[q] /\ next'[q] = next[q]
  BY <1>1 DEF TypeInv
<1>4. AllWork' /\ TurnsInOrder'
  BY <1>1, <1>2, <1>3 DEF Quiet, AllWork, TurnsInOrder
<1>5. SendersKnow'
  BY <1>1 DEF Quiet, SendersKnow, KnownReports
<1>6. \A q, n, j : Waits(q, n, j)' <=> Waits(q, n, j)
  BY <1>1 DEF Waits
<1>7. \A q \in Routers : Counted(q)' = Counted(q)
  BY <1>1, <1>3 DEF Counted
<1>8. ASSUME NEW j \in Interfaces, RouterOf(j) = r PROVE SentOn(j) = 1
  <2>1. NetworkOf(j) \in Attached(r)
    BY <1>8, Configuration
  <2>2. PICK k \in DOMAIN Config[r] : Config[r][k] = NetworkOf(j)
    BY <2>1 DEF Attached
  <2>3. /\ Config[r] \in Seq(Networks)
        /\ next[r] \in 1..(Len(Config[r]) + 1) /\ next[r] \notin DOMAIN Config[r]
    BY <1>1, Configuration DEF MoreInterfaces, TypeInv
  <2>4. DOMAIN Config[r] = 1..Len(Config[r]) /\ Len(Config[r]) \in Nat
    BY <2>3, LenProperties
  <2>5. k \in 1..(next[r] - 1)
    <3> DEFINE l == Len(Config[r])
    <3>1. l \in Nat /\ k \in 1..l /\ next[r] \in 1..(l + 1) /\ next[r] \notin 1..l
      BY <2>3, <2>4
    <3> HIDE DEF l
    <3> QED BY <3>1
  <2> QED BY <1>1, <1>8, <2>2, <2>5 DEF SentOn
<1>9. ASSUME NEW q \in Routers, NEW j \in Interfaces
      PROVE  HadTurn(q)' - SentOn(j)' = HadTurn(q) - SentOn(j)
  <2>0. RouterOf(j) \in Routers
    BY Configuration
  <2>1. CASE turned' = {} /\ \A p \in Routers : p \in done
    <3>1. HadTurn(q) = 1
      BY <1>1, <2>1 DEF HadTurn
    <3>2. SentOn(j) = 1
      <4>1. RouterOf(j) = r \/ RouterOf(j) \in turned
        BY <2>0, <2>1
      <4>2. RouterOf(j) \in turned => SentOn(j) = 1
        BY DEF SentOn
      <4> QED BY <1>8, <4>1, <4>2
    <3>3. \A p \in Routers : phase'[p] # "send"
      BY <1>3, <2>1 DEF Quiet, TurnsInOrder
    <3>4. HadTurn(q)' = 0 /\ SentOn(j)' = 0
      BY <2>0, <2>1, <3>3 DEF HadTurn, SentOn
    <3> QED BY <3>1, <3>2, <3>4
  <2>2. CASE turned' = done
    <3>1. HadTurn(q)' = HadTurn(q)
      BY <1>1, <1>3, <2>2 DEF HadTurn
    <3>2. SentOn(j)' = SentOn(j)
      <4>1. CASE RouterOf(j) = r
        <5>1. SentOn(j)' = 1
          BY <2>2, <4>1 DEF SentOn
        <5> QED BY <1>8, <4>1, <5>1
      <4>2. CASE RouterOf(j) # r
        <5>1. /\ phase'[RouterOf(j)] = phase[RouterOf(j)]
              /\ next'[RouterOf(j)] = next[RouterOf(j)]
              /\ RouterOf(j) \in turned' <=> RouterOf(j) \in turned
          BY <1>3, <2>0, <2>2, <4>2
        <5> QED BY <5>1 DEF SentOn
      <4> QED BY <4>1, <4>2
    <3> QED BY <3>1, <3>2
  <2> QED BY <1>2, <2>1, <2>2
<1>10. ASSUME NEW q \in Routers, NEW n, NEW j \in Interfaces
       PROVE  Bound(q, n, j)' \in Int /\ Bound(q, n, j) <= Bound(q, n, j)'
  <2>1. Counted(q)' = Counted(q) + 0
    BY <1>7, BoundType
  <2>2. Bound(q, n, j)' \in Int /\ Bound(q, n, j) + 0 <= Bound(q, n, j)'
    BY <1>6, <1>9, <2>1, BoundKept
  <2> QED BY <2>2, BoundType
<1>11. ASSUME NEW q \in Routers
       PROVE  /\ \A n \in Attached(q) : OwnHeard(q, n)'
              /\ \A n \in DOMAIN vector'[q] \ Attached(q) : ViaHeard(q, n)'
  BY <1>1, <1>6, <1>7, <1>10, ElementsKept
<1> QED BY <1>4, <1>5, <1>11 DEF Quiet, OwnNetworksHeard, RoutesHeard

\* What fails, recovers or gets lost counts as a change.
LEMMA QuietStep ==
  ASSUME MaxSilent >= 2, TypeInv, QuietInv, [Next]_vars
  PROVE  QuietInv'
<1>1. ASSUME NEW r \in Routers, RouterStep(r) PROVE QuietInv'
  <2>1. changes' = changes
    BY <1>1 DEF RouterStep, Announce, Receive, Timeout, SendVector, SendFails, EndTurn, worldVars
  <2> SUFFICES ASSUME Quiet PROVE Quiet'
    BY <2>1 DEF QuietInv
  <2>2. ~SendFails(r)
    BY CurrentType DEF SendFails, Quiet, AllWork
  <2> QED BY <1>1, <2>2, QuietAnnounce, QuietReceive, QuietTimeout, QuietSendVector,
             QuietEndTurn DEF RouterStep
<1>2. CASE World
  <2>1. changes' = changes + 1
    BY <1>2 DEF World, Fail, Repair, Lose, Stop, Restart, Change
  <2> QED BY <2>1 DEF QuietInv, TypeInv
<1>3. CASE UNCHANGED vars
  <2>1. UNCHANGED <<vector, phase, next, inbox, turned, up, running, changes>>
    BY <1>3 DEF vars, routerVars, worldVars
  <2>2. QuietInv' <=> QuietInv
    BY <2>1 DEF QuietInv, Quiet, AllWork, TurnsInOrder, SendersKnow, KnownReports,
       OwnNetworksHeard, OwnHeard, RoutesHeard, ViaHeard, Bound, Waits, Counted, HadTurn, SentOn
  <2> QED BY <2>2
<1> QED BY <1>1, <1>2, <1>3 DEF Next

LEMMA QuietInit == Init => QuietInv
<1> SUFFICES ASSUME Init PROVE Quiet
  BY DEF QuietInv
<1>1. AllWork /\ TurnsInOrder
  BY DEF Init, AllWork, TurnsInOrder
<1>2. SendersKnow
  BY EmptySeq DEF Init, SendersKnow
<1>3. ASSUME NEW r \in Routers
      PROVE  /\ DOMAIN vector[r] = Attached(r)
             /\ \A n \in Attached(r) : vector[r][n].silent = 0
  <2>1. PICK leftover \in [Attached(r) -> Leftovers] :
          vector[r] = [n \in Attached(r) |-> Element(Infinity, TRUE, leftover[n])]
    BY InitVectors DEF InitialVectors
  <2> QED BY <2>1 DEF Element
<1>4. OwnNetworksHeard
  <2> SUFFICES ASSUME NEW r \in Routers, NEW n \in Attached(r) PROVE OwnHeard(r, n)
    BY DEF OwnNetworksHeard
  <2>1. Counted(r) \in 0..1
    BY BoundType
  <2> QED BY <1>3, <2>1 DEF OwnHeard
<1>5. RoutesHeard
  BY <1>3 DEF RoutesHeard
<1> QED BY <1>1, <1>2, <1>4, <1>5 DEF Quiet

\* With at least two turns of patience (the code has three) no network is given
\* up while nothing fails or gets lost, however late the routers are.
THEOREM NoFalseAlarms == ASSUME MaxSilent >= 2 PROVE Spec => []NoFalseAlarm
<1>1. TypeInv /\ QuietInv => NoFalseAlarm
  <2> SUFFICES ASSUME TypeInv, Quiet, NEW r \in Routers, NEW n \in DOMAIN vector[r]
               PROVE  vector[r][n].silent <= MaxSilent
    BY DEF NoFalseAlarm, QuietInv
  <2>1. vector[r][n] \in Elements /\ vector[r][n].silent <= 2
    BY QuietSilent
  <2> QED BY <2>1, Configuration DEF Elements
<1>2. TypeInv /\ QuietInv /\ [Next]_vars => QuietInv'
  BY QuietStep
<1> QED BY <1>1, <1>2, QuietInit, TypeAlways, PTL DEF Spec

=============================================================================
