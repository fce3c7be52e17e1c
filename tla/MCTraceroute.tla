---------------------------- MODULE MCTraceroute ----------------------------
(* An instance of Traceroute small enough for TLC.                         *)
EXTENDS Traceroute

CONSTANTS r1, dest

\* The second hop is the destination or, on a longer way, a router; what is
\* behind that does not answer in time.
TwoWays == <<{r1}, {r1, dest}, {}>>

\* The destination answers another program, with the sequence number of a
\* turn of ours.
OtherProgram == {[id |-> 2, seq |-> 2, probe |-> 0, from |-> dest]}
=============================================================================
