----------------------------- MODULE MCRouting -----------------------------
(* Instances of Routing small enough for TLC.                              *)
EXTENDS Routing

\* Two routers joined by two networks; A has another network behind it.
TwoWays == ("A" :> <<"N0", "N1", "N2">>) @@ ("B" :> <<"N1", "N2">>)

\* N2 is the longer way.  It leads to N0 at a distance beyond the limit, and
\* there is a detour to N2 itself at the limit.
TwoWaysCost ==
  LET cost == ("N0" :> 2) @@ ("N1" :> 1) @@ ("N2" :> 3)
  IN  [i \in Interfaces |-> cost[NetworkOf(i)]]

\* via_ip is 0, or happens to be the address of a neighbour.
SomeLeftovers == {<<"B", "N1">>}

\* Fewer interleavings.  Receiving a report touches only the router's own
\* vector and the head of its inbox, where others append; so it is done before
\* anything else, except that a datagram may get lost, and no value of a vector
\* is left out.  And while a router is in send_vector, which does not wait for
\* anything, no other router takes a step.
Waiting == {r \in Routers :
              running[r] /\ phase[r] = "receive" /\ inbox[r] # <<>>}
Sending == {r \in Routers : running[r] /\ phase[r] = "send"}

EagerNext ==
  \/ /\ Waiting # {}
     /\ LET r == CHOOSE r \in Waiting : TRUE
        IN  Receive(r) \/ Lose(r)
  \/ /\ Waiting = {}
     /\ \/ World
        \/ \E r \in (IF Sending = {} THEN Routers ELSE Sending) : RouterStep(r)

EagerSpec ==
  Init /\ [][EagerNext]_vars /\ \A r \in Routers : WF_vars(RouterStep(r))

=============================================================================
