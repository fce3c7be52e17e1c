----------------------------- MODULE Transport -----------------------------
(***************************************************************************)
(* "Computer Networks/P3": a client that downloads Size bytes over UDP     *)
(* with a sliding window of WindowSize segments.  It runs one loop:        *)
(* send_requests, get_messages, update_window.  Every turn of the loops    *)
(* inside them is an action here, so that a failing sendto, select or      *)
(* fwrite ends the program between any two of them.                        *)
(*                                                                         *)
(* A byte of the downloaded data is its offset.  Time is abstracted to     *)
(* whether the timeout of a segment's last request has expired.  The       *)
(* server and the network are not in the repository: a request may be      *)
(* lost, answered late, several times, and out of order.                   *)
(***************************************************************************)
EXTENDS Integers, Sequences

CONSTANTS
  Size,         \* bytes to download, the third argument of main()
  SegmentSize,  \* SEGMENT_SIZE
  WindowSize,   \* WINDOW_SIZE
  Strays        \* datagrams that arrive though this run did not ask for them

Positive == Nat \ {0}

ASSUME SizesAssumption ==
  /\ Size \in Positive
  /\ SegmentSize \in Positive
  /\ WindowSize \in Positive

VARIABLES
  pc,             \* "send", "receive", "update", "done", "failed"
  i,              \* the loop counter of send_requests
  first_segment,  \* window->first_segment
  segments,       \* window->segments
  file,           \* the bytes written to fp so far
  saved_bytes,
  requests,       \* GET datagrams on their way to the server
  replies         \* DATA datagrams on their way back, or in the socket

windowVars  == <<first_segment, segments>>
fileVars    == <<file, saved_bytes>>
networkVars == <<requests, replies>>
vars == <<pc, i, windowVars, fileVars, networkVars>>

\* ceiling_div(x, y).
CeilingDiv(x, y) == (x + y - 1) \div y
TotalSegments    == CeilingDiv(Size, SegmentSize)

\* The bytes from start on, and the bytes [start, start+length) of the data.
Bytes(start, length) == [n \in 1..length |-> start + n - 1]

\* bzero(&segment): not received, and its time is 0, long expired.
Cleared == [received |-> FALSE, len |-> 0, start |-> 0, waiting |-> FALSE]

\* The length send_requests asks for at start.
RequestLength(start) ==
  IF start + SegmentSize > Size THEN Size - start ELSE SegmentSize

\* "GET start length\n" for segment s.
Request(s) ==
  [start |-> s * SegmentSize, len |-> RequestLength(s * SegmentSize)]

\* The requests send_requests can make.
Requests == {Request(s) : s \in 0..TotalSegments-1}

\* is_datagram_foreign(start, len, size).
IsForeign(start, len) ==
  \/ start % SegmentSize # 0
  \/ len > SegmentSize
  \/ len < SegmentSize /\ start + len < Size
  \/ start + len > Size

\* A datagram of the server that no request of this run asked for does not
\* look like an answer to one.
ASSUME StraysAssumption ==
  \A m \in Strays : m.from = "server" => IsForeign(m.start, m.len)

Init ==
  /\ pc = "send"
  /\ i = 0
  /\ first_segment = 0
  /\ segments = [x \in 0..WindowSize-1 |-> Cleared]
  /\ file = <<>>
  /\ saved_bytes = 0
  /\ requests = {}
  /\ replies = {}

-----------------------------------------------------------------------------
(* send_requests: i runs over the segments of the window.                  *)

\* Faulty variants: segments past the end of the file are requested; one
\* segment too many is requested.
InWindowUnbounded == i < WindowSize
InWindowPlusOne   == i <= WindowSize /\ first_segment + i < TotalSegments


InWindow   == i < WindowSize /\ first_segment + i < TotalSegments
Index(s)   == s % WindowSize
Current    == first_segment + i
CanSend    == pc = "send" /\ InWindow
MustSend   == LET seg == segments[Index(Current)]
              IN  ~seg.received /\ ~seg.waiting

SendRequest ==
  /\ CanSend /\ MustSend
  /\ requests' = requests \cup {Request(Current)}
  /\ segments' = [segments EXCEPT ![Index(Current)].waiting = TRUE]
  /\ i' = i + 1
  /\ UNCHANGED <<pc, first_segment, fileVars, replies>>

SkipSegment ==
  /\ CanSend /\ ~MustSend
  /\ i' = i + 1
  /\ UNCHANGED <<pc, windowVars, fileVars, networkVars>>

EndSend ==
  /\ pc = "send" /\ ~InWindow
  /\ pc' = "receive"
  /\ i' = 0
  /\ UNCHANGED <<windowVars, fileVars, networkVars>>

-----------------------------------------------------------------------------
(* get_messages and receive_data.                                          *)

\* Faulty variant: answers for segments already written are not dropped.
AcceptedLate(m) == m.from = "server" /\ ~IsForeign(m.start, m.len)

\* What get_messages does with a datagram: drop it, or receive_data it.  A
\* duplicate of a received segment is stored again.
Accepted(m) ==
  /\ m.from = "server"
  /\ ~IsForeign(m.start, m.len)
  /\ m.start \div SegmentSize >= first_segment

Store(m) ==
  segments' = [segments EXCEPT ![Index(m.start \div SegmentSize)] =
                 [@ EXCEPT !.received = TRUE, !.len = m.len, !.start = m.data]]

HandleDatagram(m) ==
  /\ pc = "receive"
  /\ \/ Accepted(m) /\ Store(m)
     \/ ~Accepted(m) /\ UNCHANGED segments
  /\ UNCHANGED <<pc, i, first_segment, fileVars, requests>>

Receive(m) ==
  /\ m \in replies
  /\ HandleDatagram(m)
  /\ replies' = replies \ {m}

ReceiveStray(m) ==
  /\ m \in Strays
  /\ HandleDatagram(m)
  /\ UNCHANGED replies

\* select() times out, or the socket is empty after a dropped datagram.
StopReceiving ==
  /\ pc = "receive"
  /\ pc' = "update"
  /\ UNCHANGED <<i, windowVars, fileVars, networkVars>>

-----------------------------------------------------------------------------
(* update_window, and the condition of the loop of main().                 *)

First == segments[Index(first_segment)]

\* Faulty variant: the slot is not reset.
WriteFirstNoReset ==
  /\ pc = "update" /\ First.received
  /\ file' = file \o Bytes(First.start, First.len)
  /\ saved_bytes' = saved_bytes + First.len
  /\ first_segment' = first_segment + 1
  /\ UNCHANGED <<pc, i, segments, networkVars>>


WriteFirst ==
  /\ pc = "update" /\ First.received
  /\ file' = file \o Bytes(First.start, First.len)
  /\ saved_bytes' = saved_bytes + First.len
  /\ segments' = [segments EXCEPT ![Index(first_segment)] = Cleared]
  /\ first_segment' = first_segment + 1
  /\ UNCHANGED <<pc, i, networkVars>>

\* Faulty variants: the last, short segment is forgotten; nothing is sent
\* again.
EndUpdateEarly ==
  /\ pc = "update" /\ ~First.received
  /\ pc' = IF Size >= saved_bytes + SegmentSize THEN "send" ELSE "done"
  /\ UNCHANGED <<i, windowVars, fileVars, networkVars>>

EndUpdateNoResend ==
  /\ pc = "update" /\ ~First.received
  /\ pc' = IF Size > saved_bytes THEN "receive" ELSE "done"
  /\ UNCHANGED <<i, windowVars, fileVars, networkVars>>


EndUpdate ==
  /\ pc = "update" /\ ~First.received
  /\ pc' = IF Size > saved_bytes THEN "send" ELSE "done"
  /\ UNCHANGED <<i, windowVars, fileVars, networkVars>>

\* sendto, select or fwrite fails: the program exits.  A failing fwrite may
\* have written part of its bytes.
Fail ==
  \/ /\ (CanSend /\ MustSend) \/ pc = "receive"
     /\ pc' = "failed"
     /\ UNCHANGED <<i, windowVars, fileVars, networkVars>>
  \/ /\ pc = "update" /\ First.received
     /\ \E n \in 0..First.len-1 : file' = file \o Bytes(First.start, n)
     /\ pc' = "failed"
     /\ UNCHANGED <<i, windowVars, saved_bytes, networkVars>>

Client ==
  \/ SendRequest \/ SkipSegment \/ EndSend
  \/ StopReceiving \/ WriteFirst \/ EndUpdate

-----------------------------------------------------------------------------
(* The clock, the server and the network.                                  *)

\* GET_TIMEOUT passes since the last request for the segment in slot x.
Expire(x) ==
  /\ segments[x].waiting
  /\ segments' = [segments EXCEPT ![x].waiting = FALSE]
  /\ UNCHANGED <<pc, i, first_segment, fileVars, networkVars>>

\* The answer the server gives to a request.
Answer(r) == [from |-> "server", start |-> r.start, len |-> r.len, data |-> r.start]

\* The request stays, so the answer may come again.
Serve(r) ==
  /\ r \in requests
  /\ replies' = replies \cup {Answer(r)}
  /\ UNCHANGED <<pc, i, windowVars, fileVars, requests>>

\* The request, or every answer still to come to it, is lost.
Lose(r) ==
  /\ r \in requests
  /\ requests' = requests \ {r}
  /\ UNCHANGED <<pc, i, windowVars, fileVars, replies>>

Ended == pc \in {"done", "failed"} /\ UNCHANGED vars

Next ==
  \/ Client \/ Fail \/ Ended
  \/ \E m \in replies : Receive(m)
  \/ \E m \in Strays : ReceiveStray(m)
  \/ \E x \in 0..WindowSize-1 : Expire(x)
  \/ \E r \in requests : Serve(r) \/ Lose(r)

Spec == Init /\ [][Next]_vars

\* The client runs on and its clock advances; a request that is sent again
\* and again is answered, and an answer in the socket is read in the end.
Fairness ==
  /\ WF_vars(Client)
  /\ \A x \in 0..WindowSize-1 : WF_vars(Expire(x))
  /\ \A r \in Requests : SF_vars(Serve(r)) /\ SF_vars(Receive(Answer(r)))

FairSpec == Spec /\ Fairness

-----------------------------------------------------------------------------
SegmentType ==
  [received : BOOLEAN, len : Nat, start : Nat, waiting : BOOLEAN]

\* The type of every variable, with the bounds of the counters.
TypeOK ==
  /\ pc \in {"send", "receive", "update", "done", "failed"}
  /\ i \in 0..WindowSize
  /\ first_segment \in 0..TotalSegments
  /\ segments \in [0..WindowSize-1 -> SegmentType]
  /\ file \in Seq(Nat)
  /\ saved_bytes \in 0..Size
  /\ requests \subseteq Requests
  /\ replies \subseteq {Answer(r) : r \in Requests}

\* The file is at any time a prefix of the data: no segment is missing,
\* written twice, written out of order or mixed with another one, whatever
\* the network does, and even if the program exits halfway.
FileIsPrefix ==
  /\ Len(file) <= Size
  /\ \A n \in 1..Len(file) : file[n] = n - 1

\* A slot that is marked received holds the one segment of the window whose
\* number is congruent to the slot, with its whole length.
SlotHoldsItsSegment ==
  \A s \in first_segment..first_segment+WindowSize-1 :
    segments[Index(s)].received =>
      /\ s < TotalSegments
      /\ segments[Index(s)].start = s * SegmentSize
      /\ segments[Index(s)].len = RequestLength(s * SegmentSize)

\* get_messages checks that a datagram is not below the window, but not that
\* it is not above it (messages.c:117-118): it relies on no answer ever being
\* above it.
NoAnswerAboveWindow ==
  \A m \in replies : m.start \div SegmentSize < first_segment + WindowSize

\* A received segment stays as it is until it is the one written to the file.
ReceivedIsKept ==
  [][\A x \in 0..WindowSize-1 :
       segments[x].received =>
         \/ /\ segments'[x].received
            /\ segments'[x].start = segments[x].start
            /\ segments'[x].len = segments[x].len
         \/ file' = file \o Bytes(segments[x].start, segments[x].len)]_vars

\* main() leaves its loop with success only when the file is complete.
DoneMeansComplete == pc = "done" => Len(file) = Size

\* Unless a system call fails, the download ends.
Completion == <>(pc \in {"done", "failed"})
=============================================================================
