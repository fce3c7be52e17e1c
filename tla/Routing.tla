------------------------------ MODULE Routing ------------------------------
(***************************************************************************)
(* "Computer Networks/P2": routers that exchange distance vectors by UDP   *)
(* broadcast.  Each runs one loop: announce the networks of its own        *)
(* interfaces, receive for seven seconds, broadcast its vector.            *)
(*                                                                         *)
(* An interface is the pair of its router and its network, which stands    *)
(* for its address as well; a network stands for address and mask.  What   *)
(* a loop sends about different networks travels as one report, a function *)
(* from networks to datagrams: a datagram changes the element of its own   *)
(* network only, so the order within the loop does not matter.             *)
(***************************************************************************)
EXTENDS Integers, Sequences, FiniteSets, TLC

CONSTANTS
  Routers,
  Networks,
  Config,      \* Config[r]: the networks of r's interfaces, in the order of stdin
  Cost,        \* Cost[i]: the distance configured for interface i
  Limit,       \* 30: longer distances are infinite
  Infinity,    \* INFINITY_DIST
  MaxSilent,   \* 3: turns a network may go unmentioned
  Leftovers,   \* what via_ip may hold before it is set
  MaxChanges   \* bound: interfaces and routers failing or coming back, losses

Attached(r) == {Config[r][k] : k \in DOMAIN Config[r]}
Interfaces  == UNION {{<<r, n>> : n \in Attached(r)} : r \in Routers}

RouterOf(i)  == i[1]
NetworkOf(i) == i[2]

NoAddress == <<>>   \* 0.0.0.0
Addresses == Interfaces \cup {NoAddress}

\* A router has one interface on a network; distances are positive and less
\* than INFINITY_DIST.
ASSUME ConfigAssumption ==
  /\ IsFiniteSet(Routers)
  /\ Config \in [Routers -> Seq(Networks)]
  /\ \A r \in Routers : \A k, l \in DOMAIN Config[r] :
       Config[r][k] = Config[r][l] => k = l
  /\ Infinity \in Nat
  /\ Limit \in 0..(Infinity - 1)
  /\ MaxSilent \in Nat
  /\ Cost \in [Interfaces -> 1..(Infinity - 1)]
  /\ Leftovers \subseteq Addresses
  /\ MaxChanges \in Nat

VARIABLES
  vector,   \* vector[r]: r's Vector, a function from the networks in it
  phase,    \* "announce", "receive" or "send"
  next,     \* the loop counter of send_vector
  inbox,    \* inbox[r]: the reports in r's socket
  turned,   \* routers that have sent their vector in the current period
  up,       \* up[i]: interface i works
  running,  \* running[r]: r's process is alive
  changes   \* failures, repairs and losses so far

routerVars == <<vector, phase, next>>
worldVars  == <<up, running, changes>>
vars == <<routerVars, inbox, turned, worldVars>>

Element(distance, neighbour, via) ==
  [dist |-> distance, neighbour |-> neighbour, via |-> via, silent |-> 0]

\* init_vector, which leaves via_ip of the elements as it finds it.
InitialVectors(r) ==
  {[n \in Attached(r) |-> Element(Infinity, TRUE, leftover[n])] :
     leftover \in [Attached(r) -> Leftovers]}

Init ==
  /\ vector \in {v \in [Routers -> UNION {InitialVectors(r) : r \in Routers}] :
                   \A r \in Routers : v[r] \in InitialVectors(r)}
  /\ phase   = [r \in Routers |-> "announce"]
  /\ next    = [r \in Routers |-> 1]
  /\ inbox   = [r \in Routers |-> <<>>]
  /\ turned  = {}
  /\ up      = [i \in Interfaces |-> TRUE]
  /\ running = [r \in Routers |-> TRUE]
  /\ changes = 0

-----------------------------------------------------------------------------
(* The network: a broadcast reaches every interface of the network that    *)
(* works, the sender's own included.                                       *)

\* Faulty variant: a broadcast leaves its network.
HearsAnywhere(q, i) == up[i] /\ running[q]

Hears(q, i) ==
  LET j == <<q, NetworkOf(i)>>
  IN  j \in Interfaces /\ up[i] /\ up[j] /\ running[q]

Broadcast(report) ==
  inbox' = [q \in Routers |->
              LET heard == {n \in DOMAIN report : Hears(q, report[n].from)}
              IN  IF heard = {} THEN inbox[q]
                  ELSE Append(inbox[q], [n \in heard |-> report[n]])]

-----------------------------------------------------------------------------
(* The steps of a router.                                                  *)

\* Faulty variant: the distance is kept.
OneMoreTurnOnly(e) ==
  [e EXCEPT !.silent = IF @ > MaxSilent THEN @ ELSE @ + 1]

\* no_respond_turns counts on, but only whether it is above MaxSilent matters.
OneMoreTurn(e) ==
  LET silent == IF e.silent > MaxSilent THEN e.silent ELSE e.silent + 1
  IN  [e EXCEPT !.silent = silent,
                !.dist = IF silent > MaxSilent THEN Infinity ELSE @]

\* neighbour_messages, where a failing sendto is only reported, and
\* update_no_respond, with which receive_vectors begins.
Announce(r) ==
  /\ phase[r] = "announce"
  /\ Broadcast([n \in Attached(r) |->
                  [from |-> <<r, n>>, dist |-> Cost[<<r, n>>]]])
  /\ vector' = [vector EXCEPT ![r] =
                  [n \in DOMAIN vector[r] |-> OneMoreTurn(vector[r][n])]]
  /\ phase' = [phase EXCEPT ![r] = "receive"]
  /\ UNCHANGED <<next, turned, worldVars>>

\* What router r makes of a datagram d about network n.
IsOwn(r, d)           == RouterOf(d.from) = r
IsDirect(n, d)        == NetworkOf(d.from) = n
IsOwnNetwork(r, n, d) == IsOwn(r, d) /\ IsDirect(n, d)
Ignored(r, n, d)      == IsOwn(r, d) /\ ~IsDirect(n, d)

\* Faulty variant: the way to the neighbour costs nothing.
DistanceOfNeighbour(r, n, d) == IF IsOwnNetwork(r, n, d) THEN 0 ELSE d.dist

\* The distance over the interface that d came in by (neighbour_distance).
DistanceOver(r, n, d) ==
  LET given == IF IsOwnNetwork(r, n, d) THEN 0 ELSE d.dist
  IN  IF given = Infinity THEN Infinity
      ELSE given + Cost[<<r, NetworkOf(d.from)>>]

Capped(distance) == IF distance > Limit THEN Infinity ELSE distance

\* Faulty variant: bad news are not taken from via_ip either.
RouteIfShorter(e, distance, neighbour, from) ==
  IF distance < e.dist
  THEN [e EXCEPT !.dist = Capped(distance), !.neighbour = neighbour,
                 !.via = IF neighbour THEN NoAddress ELSE from]
  ELSE e

\* A shorter distance is taken from anybody, any distance from via_ip.
Route(e, distance, neighbour, from) ==
  CASE distance < e.dist ->
         [e EXCEPT !.dist = Capped(distance), !.neighbour = neighbour,
                   !.via = IF neighbour THEN NoAddress ELSE from]
    [] distance >= e.dist /\ from = e.via ->
         [e EXCEPT !.dist = Capped(distance), !.neighbour = neighbour]
    [] OTHER -> e

\* Faulty variant: only the router behind via_ip counts.
HeardByVia(e, from, ownNetwork) ==
  IF from = e.via THEN [e EXCEPT !.silent = 0] ELSE e

\* Then the count of silent turns starts again if the network was mentioned
\* by the router it is reached through, or by the router's own broadcast.
Heard(e, from, ownNetwork) ==
  IF ownNetwork \/ from = e.via THEN [e EXCEPT !.silent = 0] ELSE e

\* new_element does not apply the limit.  A network heard of directly is never
\* new (TypeOK), so that the via_ip of a new element is always set.
Updated(r, n, d) ==
  LET distance == DistanceOver(r, n, d)
  IN  IF n \in DOMAIN vector[r]
      THEN Heard(Route(vector[r][n], distance, IsDirect(n, d), d.from),
                 d.from, IsOwnNetwork(r, n, d))
      ELSE Element(distance, IsDirect(n, d), d.from)

\* The vector after the datagrams of a report.
Merged(r, report) ==
  LET news == {n \in DOMAIN report : ~Ignored(r, n, report[n])}
  IN  [n \in DOMAIN vector[r] \cup news |->
         IF n \in news THEN Updated(r, n, report[n]) ELSE vector[r][n]]

Receive(r) ==
  /\ phase[r] = "receive"
  /\ inbox[r] # <<>>
  /\ vector' = [vector EXCEPT ![r] = Merged(r, Head(inbox[r]))]
  /\ inbox'  = [inbox EXCEPT ![r] = Tail(@)]
  /\ UNCHANGED <<phase, next, turned, worldVars>>

\* select returns 0: seven seconds are over and the socket is empty.  All
\* routers have the same period, so that one of them does not come to its
\* next timeout before the others have sent the vector of this period.
Timeout(r) ==
  /\ phase[r] = "receive"
  /\ inbox[r] = <<>>
  /\ r \notin turned
  /\ phase' = [phase EXCEPT ![r] = "send"]
  /\ UNCHANGED <<vector, next, inbox, turned, worldVars>>

CurrentInterface(r) == <<r, Config[r][next[r]]>>
MoreInterfaces(r)   == next[r] \in DOMAIN Config[r]
NextInterface(r)    == next' = [next EXCEPT ![r] = @ + 1]

\* Elements silent for too long are not sent.
Advertised(r) == {n \in DOMAIN vector[r] : vector[r][n].silent <= MaxSilent}

\* interface_unreachable_update.  It compares via_ip with the address of the
\* interface itself.
LosesInterface(e, n, i) ==
  \/ n = NetworkOf(i)
  \/ ~e.neighbour /\ e.via = i

WithoutInterface(v, i) ==
  [n \in DOMAIN v |->
     IF LosesInterface(v[n], n, i) THEN [v[n] EXCEPT !.dist = Infinity]
                                   ELSE v[n]]

\* sendto fails, which ends the datagrams to this interface.
SendFails(r) ==
  /\ phase[r] = "send"
  /\ MoreInterfaces(r)
  /\ Advertised(r) # {}
  /\ ~up[CurrentInterface(r)]
  /\ vector' = [vector EXCEPT ![r] = WithoutInterface(@, CurrentInterface(r))]
  /\ NextInterface(r)
  /\ UNCHANGED <<phase, inbox, turned, worldVars>>

\* One turn of the outer loop of send_vector.
SendVector(r) ==
  /\ phase[r] = "send"
  /\ MoreInterfaces(r)
  /\ \/ /\ Advertised(r) = {}
        /\ UNCHANGED inbox
     \/ /\ Advertised(r) # {}
        /\ up[CurrentInterface(r)]
        /\ Broadcast([n \in Advertised(r) |->
                        [from |-> CurrentInterface(r), dist |-> vector[r][n].dist]])
  /\ NextInterface(r)
  /\ UNCHANGED <<vector, phase, turned, worldVars>>

\* The period ends when every router that runs has had its turn.
Turned(done, alive) ==
  turned' = IF \A r \in Routers : alive[r] => r \in done THEN {} ELSE done

EndTurn(r) ==
  /\ phase[r] = "send"
  /\ ~MoreInterfaces(r)
  /\ phase' = [phase EXCEPT ![r] = "announce"]
  /\ next'  = [next EXCEPT ![r] = 1]
  /\ Turned(turned \cup {r}, running)
  /\ UNCHANGED <<vector, inbox, worldVars>>

RouterStep(r) ==
  /\ running[r]
  /\ \/ Announce(r) \/ Receive(r) \/ Timeout(r)
     \/ SendVector(r) \/ SendFails(r) \/ EndTurn(r)

-----------------------------------------------------------------------------
(* What may happen to the routers.                                         *)

Change == changes < MaxChanges /\ changes' = changes + 1

Fail(i) ==
  /\ Change /\ up[i]
  /\ up' = [up EXCEPT ![i] = FALSE]
  /\ UNCHANGED <<routerVars, inbox, turned, running>>

Repair(i) ==
  /\ Change /\ ~up[i]
  /\ up' = [up EXCEPT ![i] = TRUE]
  /\ UNCHANGED <<routerVars, inbox, turned, running>>

\* One datagram of the next report does not arrive.
Lose(r) ==
  /\ Change /\ inbox[r] # <<>>
  /\ LET report == Head(inbox[r])
     IN  \E n \in DOMAIN report :
           inbox' = [inbox EXCEPT ![r] =
             <<[k \in DOMAIN report \ {n} |-> report[k]]>> \o Tail(@)]
  /\ UNCHANGED <<routerVars, turned, up, running>>

Stop(r) ==
  /\ Change /\ running[r]
  /\ running' = [running EXCEPT ![r] = FALSE]
  /\ inbox' = [inbox EXCEPT ![r] = <<>>]
  /\ Turned(turned, running')
  /\ UNCHANGED <<routerVars, up>>

Restart(r) ==
  /\ Change /\ ~running[r]
  /\ running' = [running EXCEPT ![r] = TRUE]
  /\ \E v \in InitialVectors(r) : vector' = [vector EXCEPT ![r] = v]
  /\ phase' = [phase EXCEPT ![r] = "announce"]
  /\ next'  = [next EXCEPT ![r] = 1]
  /\ UNCHANGED <<inbox, turned, up>>

World ==
  \/ \E i \in Interfaces : Fail(i) \/ Repair(i)
  \/ \E r \in Routers : Lose(r) \/ Stop(r) \/ Restart(r)

Next == (\E r \in Routers : RouterStep(r)) \/ World

Spec == Init /\ [][Next]_vars

\* A router that runs goes through its loop; nothing has to fail or recover.
FairSpec == Spec /\ \A r \in Routers : WF_vars(RouterStep(r))

-----------------------------------------------------------------------------
(* Properties.                                                             *)

Elements == [dist : Nat, neighbour : BOOLEAN, via : Addresses,
             silent : 0..(MaxSilent + 1)]
Datagrams == [from : Interfaces, dist : Nat]

\* t is a function from some networks to S.
IsTable(t, S) == DOMAIN t \subseteq Networks /\ t \in [DOMAIN t -> S]

\* Types and bounds.  A router has always its own networks in its vector, and
\* datagrams come from the networks it is attached to.
TypeOK ==
  /\ vector = [r \in Routers |-> vector[r]]
  /\ \A r \in Routers :
       IsTable(vector[r], Elements) /\ Attached(r) \subseteq DOMAIN vector[r]
  /\ phase \in [Routers -> {"announce", "receive", "send"}]
  /\ next \in [Routers -> Nat]
  /\ \A r \in Routers : next[r] \in 1..(Len(Config[r]) + 1)
  /\ inbox = [r \in Routers |-> inbox[r]]
  /\ \A r \in Routers : \A k \in DOMAIN inbox[r] :
       /\ IsTable(inbox[r][k], Datagrams)
       /\ \A n \in DOMAIN inbox[r][k] :
            NetworkOf(inbox[r][k][n].from) \in Attached(r)
  /\ turned \subseteq Routers
  /\ up \in [Interfaces -> BOOLEAN]
  /\ running \in [Routers -> BOOLEAN]
  /\ changes \in 0..MaxChanges

\* Estimates of the distances to n that nowhere exceed the cost of the next
\* step: each is a lower bound of the shortest distances in the network with
\* all interfaces up, and the greatest one is those distances.
LowerBoundsTo(n) ==
  {f \in [Routers -> 0..Infinity] :
     /\ \A i \in Interfaces : NetworkOf(i) = n => f[RouterOf(i)] <= Cost[i]
     /\ \A i, j \in Interfaces : NetworkOf(i) = NetworkOf(j)
          => f[RouterOf(i)] <= f[RouterOf(j)] + Cost[i]}

LowerBounds == UNION {{<<n, f>> : f \in LowerBoundsTo(n)} : n \in Networks}

\* Whatever is lost, stale, or counted up in turns between routers, no
\* distance is ever less than that of the shortest way there is.
NeverTooShort ==
  \A b \in LowerBounds, r \in Routers :
    LET n == b[1]
        f == b[2]
    IN  n \in DOMAIN vector[r] => f[r] <= vector[r][n].dist

\* A route through a router that has not mentioned the network for more than
\* MaxSilent turns is unreachable, also when other routers or the router's
\* own broadcasts mention it.
SilentRoutesDropped ==
  \A r \in Routers : \A n \in DOMAIN vector[r] :
    /\ ~vector[r][n].neighbour
    /\ vector[r][n].silent > MaxSilent
    => vector[r][n].dist = Infinity

\* As long as nothing fails or gets lost, no network goes unmentioned for so
\* long that it is given up, although a router that is late may send nothing
\* between two timeouts of another one.
NoFalseAlarm ==
  changes = 0 =>
    \A r \in Routers : \A n \in DOMAIN vector[r] :
      vector[r][n].silent <= MaxSilent

\* What works, and the interfaces that r hears over one of its own.
Works(i)     == up[i] /\ running[RouterOf(i)]
HeardFrom(r) ==
  {j \in Interfaces :
     /\ RouterOf(j) # r /\ Works(j)
     /\ <<r, NetworkOf(j)>> \in Interfaces /\ Works(<<r, NetworkOf(j)>>)}

\* r's distance to n, infinite as well if the network is not in the vector.
Distance(r, n) ==
  IF n \in DOMAIN vector[r] THEN vector[r][n].dist ELSE Infinity

DistanceBy(r, n, j) == Distance(RouterOf(j), n) + Cost[<<r, NetworkOf(j)>>]

Least(S) == CHOOSE x \in S : \A y \in S : x <= y

\* Every router that runs has the least of its ways to each network, directly
\* or by another router.  As distances are positive, only the shortest ones
\* over what works satisfy these equations.
Shortest(r, n) ==
  Capped(Least({Infinity}
    \cup {Cost[i] : i \in {i \in Interfaces : i = <<r, n>> /\ Works(i)}}
    \cup {DistanceBy(r, n, j) : j \in HeardFrom(r)}))

\* send_vector makes the network of an interface that does not work infinite
\* in every turn, even if there is another way to it.
Broken(i) == i \in Interfaces /\ ~up[i]

Settled ==
  \A r \in Routers, n \in Networks : running[r] =>
    /\ \/ Distance(r, n) = Shortest(r, n)
       \/ Distance(r, n) = Infinity /\ Broken(<<r, n>>)
    /\ Distance(r, n) < Infinity /\ ~vector[r][n].neighbour =>
         /\ vector[r][n].via \in HeardFrom(r)
         /\ DistanceBy(r, n, vector[r][n].via) = Distance(r, n)

\* When failures have come to an end the vectors settle, however far routers
\* have counted up by what they heard of each other, and stay so.
Converges == <>[]Settled

\* interfaces.c:142, "set unreachable interface element and all its via
\* elements distance to infinity": after a broadcast on an interface has
\* failed, nothing is reached through a router on the other side of it.
FailureDropsRoutes ==
  [][\A r \in Routers : SendFails(r) /\ running[r] =>
       \A n \in DOMAIN vector'[r] :
         /\ ~vector'[r][n].neighbour
         /\ vector'[r][n].via # NoAddress
         /\ NetworkOf(vector'[r][n].via) = NetworkOf(CurrentInterface(r))
         => vector'[r][n].dist = Infinity]_vars

=============================================================================
