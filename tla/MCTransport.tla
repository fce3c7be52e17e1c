---------------------------- MODULE MCTransport ----------------------------
(* Instances of Transport small enough for TLC.                            *)
EXTENDS Transport

\* A datagram of another host, and two of the server whose headers fit no
\* request of this run: at an odd offset, and too short in mid-file.
StrayDatagrams ==
  {[from |-> "other",  start |-> 0, len |-> SegmentSize,     data |-> 1],
   [from |-> "server", start |-> 1, len |-> SegmentSize,     data |-> 1],
   [from |-> "server", start |-> 0, len |-> SegmentSize - 1, data |-> 0]}
=============================================================================
