------------------------ MODULE MCProducerConsumer ------------------------
(* Instances of ProducerConsumer small enough for TLC.                     *)
EXTENDS ProducerConsumer

CONSTANTS b1, p1, p2, c1, c2

\* Every thread works on the same buffer.
OneBuffer == [t \in Threads |-> b1]
=============================================================================
