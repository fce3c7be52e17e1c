-------------------------- MODULE TransportProofs --------------------------
(***************************************************************************)
(* Whatever the network does, the file the client of Transport writes is a *)
(* prefix of the data: for every size, segment size and window size.       *)
(***************************************************************************)
EXTENDS Transport, SequenceTheorems, TLAPS

-----------------------------------------------------------------------------
(* Arithmetic.                                                             *)

\* Quotient and remainder by a positive number.
LEMMA DivMod ==
  ASSUME NEW a \in Int, NEW b \in Positive
  PROVE  /\ a = b * (a \div b) + (a % b)
         /\ a \div b \in Int
         /\ a % b \in 0..b-1
  BY DEF Positive

\* Two numbers less than b apart with the same remainder are equal: why two
\* segments of a window never share a slot.
LEMMA ModInjective ==
  ASSUME NEW a \in Int, NEW c \in Int, NEW b \in Positive,
         a % b = c % b, a - c < b, c - a < b
  PROVE  a = c
<1> DEFINE p == a \div b
           q == c \div b
           r == a % b
<1>1. a = b * p + r /\ c = b * q + r /\ p \in Int /\ q \in Int /\ r \in Int
  BY DivMod
<1> HIDE DEF p, q, r
<1>2. a - c = b * (p - q)
  BY <1>1 DEF Positive
<1>3. CASE p - q >= 1
  <2>1. b * (p - q) >= b BY <1>1, <1>3 DEF Positive
  <2> QED BY <2>1, <1>2, <1>1 DEF Positive
<1>4. CASE p - q <= -1
  <2>1. b * (p - q) <= -b BY <1>1, <1>4 DEF Positive
  <2> QED BY <2>1, <1>2, <1>1 DEF Positive
<1>5. CASE p = q
  BY <1>1, <1>5
<1> QED BY <1>1, <1>3, <1>4, <1>5

\* The segment of the byte a segment starts with.
LEMMA MultipleDiv ==
  ASSUME NEW k \in Int, NEW b \in Positive
  PROVE  (k * b) \div b = k
<1> DEFINE p == (k * b) \div b
           r == (k * b) % b
<1>0. k * b \in Int
  BY DEF Positive
<1>1. k * b = b * p + r /\ p \in Int /\ r \in 0..b-1
  BY <1>0, DivMod
<1> SUFFICES p = k
  OBVIOUS
<1> HIDE DEF p, r
<1>2. r = b * (k - p)
  BY <1>1 DEF Positive
<1>3. CASE k - p >= 1
  <2>1. b * (k - p) >= b BY <1>1, <1>3 DEF Positive
  <2> QED BY <2>1, <1>2, <1>1 DEF Positive
<1>4. CASE k - p <= -1
  <2>1. b * (k - p) <= -b BY <1>1, <1>4 DEF Positive
  <2> QED BY <2>1, <1>2, <1>1 DEF Positive
<1> QED BY <1>1, <1>3, <1>4

-----------------------------------------------------------------------------
(* Segments.                                                               *)

\* Where segment s starts, and where the data ends for s = TotalSegments.
Offset(s) == IF s < TotalSegments THEN s * SegmentSize ELSE Size

\* TotalSegments segments cover the data, one fewer does not.
LEMMA SegmentsCover ==
  /\ TotalSegments \in Positive
  /\ (TotalSegments - 1) * SegmentSize < Size
  /\ Size <= TotalSegments * SegmentSize
<1> DEFINE T == TotalSegments
           a == Size + SegmentSize - 1
<1>1. /\ a \in Int /\ SegmentSize \in Positive
      /\ a = Size + SegmentSize - 1
  BY SizesAssumption DEF Positive
<1>2. T = a \div SegmentSize
  BY DEF TotalSegments, CeilingDiv
<1> HIDE DEF T, a
<1>3. /\ T \in Int
      /\ a - SegmentSize * T \in 0..SegmentSize-1
  <2>1. a % SegmentSize \in 0..SegmentSize-1 /\ T \in Int
    BY <1>1, <1>2, DivMod
  <2>2. a = SegmentSize * T + (a % SegmentSize)
    BY <1>1, <1>2, DivMod
  <2> QED BY <1>1, <2>1, <2>2 DEF Positive
<1>4. Size <= T * SegmentSize /\ (T - 1) * SegmentSize < Size
  BY <1>1, <1>3, SizesAssumption DEF Positive
<1>5. T >= 1
  <2>1. CASE T <= 0
    <3>1. T * SegmentSize <= 0 BY <1>3, <2>1, SizesAssumption DEF Positive
    <3> QED BY <3>1, <1>4, <1>3, SizesAssumption DEF Positive
  <2> QED BY <2>1, <1>3
<1> QED BY <1>3, <1>4, <1>5 DEF T, Positive

\* What send_requests asks for is the whole segment: it ends where the next
\* one starts.
LEMMA RequestIsSegment ==
  ASSUME NEW s \in 0..TotalSegments-1
  PROVE  /\ s * SegmentSize \in Nat
         /\ Offset(s) = s * SegmentSize
         /\ RequestLength(s * SegmentSize) \in Positive
         /\ RequestLength(s * SegmentSize) <= SegmentSize
         /\ s * SegmentSize + RequestLength(s * SegmentSize) = Offset(s + 1)
         /\ Offset(s + 1) <= Size
<1> DEFINE T == TotalSegments
           o == s * SegmentSize
<1>1. T \in Positive /\ (T - 1) * SegmentSize < Size /\ Size <= T * SegmentSize
  BY SegmentsCover
<1>2. s \in 0..T-1
  OBVIOUS
<1> HIDE DEF T
<1>3. o \in Nat /\ o + SegmentSize = (s + 1) * SegmentSize
  BY <1>2, <1>1, SizesAssumption DEF Positive
<1>4. CASE s = T - 1
  <2>1. o < Size /\ Size <= o + SegmentSize
    BY <1>1, <1>3, <1>4, SizesAssumption DEF Positive
  <2>2. Offset(s) = o /\ Offset(s + 1) = Size
    BY <1>1, <1>4 DEF Offset, T, Positive
  <2> HIDE DEF o
  <2>3. RequestLength(o) = Size - o
    BY <2>1, <1>3, SizesAssumption DEF RequestLength, Positive
  <2> QED BY <2>1, <2>2, <2>3, <1>3, SizesAssumption DEF Positive, o
<1>5. CASE s < T - 1
  <2>1. (s + 1) * SegmentSize <= (T - 1) * SegmentSize
    <3>1. T - 1 - (s + 1) >= 0 /\ T \in Int /\ s \in Int
      BY <1>1, <1>2, <1>5 DEF Positive
    <3>2. (T - 1 - (s + 1)) * SegmentSize >= 0
      BY <3>1, SizesAssumption DEF Positive
    <3> QED BY <3>1, <3>2, SizesAssumption DEF Positive
  <2>2. o + SegmentSize < Size
    BY <2>1, <1>1, <1>2, <1>3, SizesAssumption DEF Positive
  <2>3. Offset(s) = o /\ Offset(s + 1) = o + SegmentSize
    BY <1>1, <1>2, <1>3, <1>5 DEF Offset, T, Positive
  <2> HIDE DEF o
  <2>4. RequestLength(o) = SegmentSize
    BY <2>2, <1>3, SizesAssumption DEF RequestLength, Positive
  <2> QED BY <2>2, <2>3, <2>4, <1>3, SizesAssumption DEF Positive, o
<1> QED BY <1>1, <1>2, <1>4, <1>5 DEF Positive

-----------------------------------------------------------------------------
(* The inductive invariant.                                                *)

\* FileIsPrefix is not inductive: it needs to know what the slots hold and
\* what may still arrive.
Upto(n) == pc # "failed" => Len(file) = n /\ saved_bytes = n

\* Slot x holds segment s of the window.
Holds(x, s) ==
  /\ s \in first_segment..first_segment+WindowSize-1
  /\ s < TotalSegments
  /\ Index(s) = x
  /\ segments[x].start = s * SegmentSize
  /\ segments[x].len = RequestLength(s * SegmentSize)

SlotsHoldWindow ==
  \A x \in 0..WindowSize-1 :
    segments[x].received => \E s \in 0..TotalSegments-1 : Holds(x, s)

RequestsBelow ==
  \A r \in requests : \E s \in 0..TotalSegments-1 :
    s < first_segment + WindowSize /\ r = Request(s)

RepliesBelow ==
  \A m \in replies : \E s \in 0..TotalSegments-1 :
    s < first_segment + WindowSize /\ m = Answer(Request(s))

IInv ==
  /\ TypeOK
  /\ FileIsPrefix
  /\ Upto(Offset(first_segment))
  /\ DoneMeansComplete
  /\ SlotsHoldWindow
  /\ RequestsBelow
  /\ RepliesBelow

\* A slot index is an index of the window.
LEMMA IndexType ==
  ASSUME NEW s \in Nat
  PROVE  Index(s) \in 0..WindowSize-1
  BY SizesAssumption, DivMod DEF Index, Positive

\* Appending the bytes that follow keeps a prefix a prefix.
LEMMA AppendBytes ==
  ASSUME NEW f \in Seq(Nat), NEW n \in Nat,
         \A k \in 1..Len(f) : f[k] = k - 1
  PROVE  /\ f \o Bytes(Len(f), n) \in Seq(Nat)
         /\ Len(f \o Bytes(Len(f), n)) = Len(f) + n
         /\ \A k \in 1..Len(f)+n : (f \o Bytes(Len(f), n))[k] = k - 1
<1> DEFINE g == Bytes(Len(f), n)
<1>1. g \in Seq(Nat) /\ Len(g) = n /\ \A k \in 1..n : g[k] = Len(f) + k - 1
  <2>1. \A k \in 1..n : Len(f) + k - 1 \in Nat
    OBVIOUS
  <2>2. g \in [1..n -> Nat]
    BY <2>1 DEF Bytes
  <2>3. g \in Seq(Nat)
    BY <2>2, SeqDef
  <2>4. Len(g) = n
    BY DEF Bytes
  <2> QED BY <2>3, <2>4 DEF Bytes
<1> HIDE DEF g
<1>2. f \o g \in Seq(Nat) /\ Len(f \o g) = Len(f) + n
  BY <1>1, ConcatProperties
<1>3. ASSUME NEW k \in 1..Len(f)+n PROVE (f \o g)[k] = k - 1
  <2>1. (f \o g)[k] = IF k <= Len(f) THEN f[k] ELSE g[k - Len(f)]
    BY <1>1, ConcatProperties
  <2>2. CASE k <= Len(f) BY <2>1, <2>2
  <2>3. CASE k > Len(f)
    <3>1. k - Len(f) \in 1..n BY <2>3
    <3> QED BY <3>1, <2>1, <2>3, <1>1
  <2>4. k <= Len(f) \/ k > Len(f)
    <3>1. k \in Int /\ Len(f) \in Nat
      BY LenProperties
    <3> QED BY <3>1
  <2> QED BY <2>2, <2>3, <2>4
<1> QED BY <1>2, <1>3 DEF g

\* Init establishes the invariant.
LEMMA InitIInv == Init => IInv
<1> SUFFICES ASSUME Init PROVE IInv
  OBVIOUS
<1>1. TotalSegments \in Positive /\ Offset(0) = 0
  BY SegmentsCover, SizesAssumption DEF Offset, Positive
<1>2. TypeOK
  BY <1>1, SizesAssumption DEF Init, TypeOK, Cleared, SegmentType, Positive
<1>3. FileIsPrefix /\ Upto(Offset(first_segment)) /\ DoneMeansComplete
  BY <1>1, SizesAssumption DEF Init, FileIsPrefix, Upto, DoneMeansComplete, Positive
<1>4. SlotsHoldWindow
  BY DEF Init, SlotsHoldWindow, Cleared
<1>5. RequestsBelow /\ RepliesBelow
  BY DEF Init, RequestsBelow, RepliesBelow
<1> QED BY <1>2, <1>3, <1>4, <1>5 DEF IInv

-----------------------------------------------------------------------------
(* Every step preserves the invariant.                                     *)

\* Steps that leave the window, the file and the network alone.
LEMMA QuietStep ==
  ASSUME IInv,
         UNCHANGED <<windowVars, fileVars, networkVars>>,
         pc' \in {"send", "receive", "update", "done", "failed"},
         i' \in 0..WindowSize,
         pc = "failed" => pc' = "failed",
         pc' = "done" => Len(file) = Size
  PROVE  IInv'
<1> USE DEF IInv, windowVars, fileVars, networkVars
<1>1. TypeOK' BY DEF TypeOK
<1>2. FileIsPrefix' BY DEF FileIsPrefix
<1>3. Upto(Offset(first_segment))' BY DEF Upto, Offset
<1>4. DoneMeansComplete' BY DEF DoneMeansComplete
<1>5. SlotsHoldWindow' BY DEF SlotsHoldWindow, Holds
<1>6. RequestsBelow' /\ RepliesBelow' BY DEF RequestsBelow, RepliesBelow
<1> QED BY <1>1, <1>2, <1>3, <1>4, <1>5, <1>6

\* send_requests asks for a segment of the window.
LEMMA SendRequestStep ==
  ASSUME IInv, SendRequest
  PROVE  IInv'
<1> USE DEF IInv
<1> DEFINE s == Current
<1>1. /\ s \in 0..TotalSegments-1
      /\ s < first_segment + WindowSize
      /\ i \in 0..WindowSize /\ i < WindowSize
  <2>1. /\ i \in Nat /\ first_segment \in Nat
        /\ WindowSize \in Nat /\ TotalSegments \in Nat
    BY SegmentsCover, SizesAssumption DEF TypeOK, Positive
  <2>2. i < WindowSize /\ first_segment + i < TotalSegments
    BY DEF SendRequest, CanSend, InWindow
  <2> HIDE DEF IInv
  <2> QED BY <2>1, <2>2 DEF Current
<1>2. Index(s) \in 0..WindowSize-1
  BY <1>1, IndexType
<1> HIDE DEF s
<1>3. /\ segments' = [segments EXCEPT ![Index(s)].waiting = TRUE]
      /\ requests' = requests \cup {Request(s)}
      /\ i' = i + 1
      /\ UNCHANGED <<pc, first_segment, file, saved_bytes, replies>>
  BY DEF SendRequest, s, fileVars
<1>4. segments' \in [0..WindowSize-1 -> SegmentType]
  BY <1>2, <1>3 DEF TypeOK, SegmentType
<1>5. \A x \in 0..WindowSize-1 :
        /\ segments'[x].received = segments[x].received
        /\ segments'[x].start = segments[x].start
        /\ segments'[x].len = segments[x].len
  BY <1>2, <1>3 DEF TypeOK, SegmentType
<1>6. TypeOK'
  <2>1. Request(s) \in Requests
    BY <1>1 DEF Requests
  <2>2. requests' \subseteq Requests
    BY <1>3, <2>1 DEF TypeOK
  <2>3. i' \in 0..WindowSize
    BY <1>1, <1>3, SizesAssumption DEF Positive
  <2> QED BY <1>3, <1>4, <2>2, <2>3 DEF TypeOK
<1>7. FileIsPrefix' /\ Upto(Offset(first_segment))' /\ DoneMeansComplete'
  BY <1>3 DEF FileIsPrefix, Upto, Offset, DoneMeansComplete
<1>8. SlotsHoldWindow'
  BY <1>3, <1>5 DEF SlotsHoldWindow, Holds
<1>9. RequestsBelow' /\ RepliesBelow'
  BY <1>1, <1>3 DEF RequestsBelow, RepliesBelow
<1> QED BY <1>6, <1>7, <1>8, <1>9

\* A timeout only changes what will be asked for again.
LEMMA ExpireStep ==
  ASSUME IInv, NEW x \in 0..WindowSize-1, Expire(x)
  PROVE  IInv'
<1> USE DEF IInv
<1>1. /\ segments' = [segments EXCEPT ![x].waiting = FALSE]
      /\ UNCHANGED <<pc, i, first_segment, file, saved_bytes, requests, replies>>
  BY DEF Expire, fileVars, networkVars
<1>2. segments' \in [0..WindowSize-1 -> SegmentType]
  BY <1>1 DEF TypeOK, SegmentType
<1>3. \A y \in 0..WindowSize-1 :
        /\ segments'[y].received = segments[y].received
        /\ segments'[y].start = segments[y].start
        /\ segments'[y].len = segments[y].len
  BY <1>1 DEF TypeOK, SegmentType
<1>4. TypeOK'
  BY <1>1, <1>2 DEF TypeOK
<1>5. FileIsPrefix' /\ Upto(Offset(first_segment))' /\ DoneMeansComplete'
  BY <1>1 DEF FileIsPrefix, Upto, Offset, DoneMeansComplete
<1>6. SlotsHoldWindow'
  BY <1>1, <1>3 DEF SlotsHoldWindow, Holds
<1>7. RequestsBelow' /\ RepliesBelow'
  BY <1>1 DEF RequestsBelow, RepliesBelow
<1> QED BY <1>4, <1>5, <1>6, <1>7

\* The server answers what it was asked; the network loses.
LEMMA NetworkStep ==
  ASSUME IInv, NEW r \in requests, Serve(r) \/ Lose(r)
  PROVE  IInv'
<1> USE DEF IInv
<1>1. /\ UNCHANGED <<pc, i, first_segment, segments, file, saved_bytes>>
      /\ requests' \subseteq requests
      /\ replies' \subseteq replies \cup {Answer(r)}
  BY DEF Serve, Lose, windowVars, fileVars
<1>2. TypeOK'
  BY <1>1 DEF TypeOK
<1>3. FileIsPrefix' /\ Upto(Offset(first_segment))' /\ DoneMeansComplete'
  BY <1>1 DEF FileIsPrefix, Upto, Offset, DoneMeansComplete
<1>4. SlotsHoldWindow'
  BY <1>1 DEF SlotsHoldWindow, Holds
<1>5. RequestsBelow' /\ RepliesBelow'
  BY <1>1 DEF RequestsBelow, RepliesBelow
<1> QED BY <1>2, <1>3, <1>4, <1>5

\* receive_data puts a segment of the window into its own slot: the segments
\* of a window have different remainders, and no answer is above the window.
LEMMA ReceiveStep ==
  ASSUME IInv, NEW m \in replies, Receive(m)
  PROVE  IInv'
<1> USE DEF IInv
<1>1. PICK s \in 0..TotalSegments-1 :
        s < first_segment + WindowSize /\ m = Answer(Request(s))
  BY DEF RepliesBelow
<1>2. /\ m.start = s * SegmentSize /\ m.data = s * SegmentSize
      /\ m.len = RequestLength(s * SegmentSize)
      /\ m.from = "server"
  BY <1>1 DEF Answer, Request
<1>3. m.start \div SegmentSize = s
  BY <1>2, MultipleDiv, SizesAssumption, SegmentsCover DEF Positive
<1>4. /\ UNCHANGED <<pc, i, first_segment, file, saved_bytes, requests>>
      /\ replies' \subseteq replies
  BY DEF Receive, HandleDatagram, fileVars
<1>5. FileIsPrefix' /\ Upto(Offset(first_segment))' /\ DoneMeansComplete'
  BY <1>4 DEF FileIsPrefix, Upto, Offset, DoneMeansComplete
<1>6. RequestsBelow' /\ RepliesBelow'
  BY <1>4 DEF RequestsBelow, RepliesBelow
<1>7. CASE UNCHANGED segments
  <2>1. TypeOK' BY <1>4, <1>7 DEF TypeOK
  <2>2. SlotsHoldWindow' BY <1>4, <1>7 DEF SlotsHoldWindow, Holds
  <2> QED BY <1>5, <1>6, <2>1, <2>2
<1>8. CASE Accepted(m) /\ Store(m)
  <2>1. s \in first_segment..first_segment+WindowSize-1
    BY <1>1, <1>3, <1>8, SegmentsCover, SizesAssumption
       DEF Accepted, TypeOK, Positive
  <2>2. Index(s) \in 0..WindowSize-1
    BY <1>1, IndexType, SegmentsCover DEF Positive
  <2>3. segments' = [segments EXCEPT ![Index(s)] =
          [@ EXCEPT !.received = TRUE, !.len = m.len, !.start = m.data]]
    BY <1>3, <1>8 DEF Store
  <2>4. m.len \in Nat /\ m.data \in Nat
    BY <1>1, <1>2, RequestIsSegment DEF Positive
  <2>5. segments' \in [0..WindowSize-1 -> SegmentType]
    BY <2>2, <2>3, <2>4 DEF TypeOK, SegmentType
  <2>6. TypeOK'
    BY <1>4, <2>5 DEF TypeOK
  <2>7. Holds(Index(s), s)'
    <3>1. segments'[Index(s)].start = m.data /\ segments'[Index(s)].len = m.len
      BY <2>2, <2>3 DEF TypeOK, SegmentType
    <3>2. s \in first_segment'..first_segment'+WindowSize-1 /\ s < TotalSegments
      BY <1>1, <1>4, <2>1, SegmentsCover DEF Positive
    <3> QED BY <3>1, <3>2, <1>2 DEF Holds, Index
  <2>8. \A x \in 0..WindowSize-1 : x # Index(s) => segments'[x] = segments[x]
    BY <2>2, <2>3 DEF TypeOK
  <2>9. SlotsHoldWindow'
    <3> SUFFICES ASSUME NEW x \in 0..WindowSize-1, segments'[x].received
                 PROVE  \E t \in 0..TotalSegments-1 : Holds(x, t)'
      BY DEF SlotsHoldWindow
    <3>1. CASE x = Index(s) BY <3>1, <2>7, <1>1
    <3>2. CASE x # Index(s)
      <4>1. PICK t \in 0..TotalSegments-1 : Holds(x, t)
        BY <3>2, <2>8 DEF SlotsHoldWindow
      <4>2. Holds(x, t)'
        BY <4>1, <3>2, <2>8, <1>4 DEF Holds
      <4> QED BY <4>2
    <3> QED BY <3>1, <3>2
  <2> QED BY <1>5, <1>6, <2>6, <2>9
<1> QED BY <1>7, <1>8 DEF Receive, HandleDatagram

\* Stray datagrams are dropped.
LEMMA StrayStep ==
  ASSUME IInv, NEW m \in Strays, ReceiveStray(m)
  PROVE  IInv'
<1>1. ~Accepted(m)
  BY StraysAssumption DEF Accepted
<1>2. UNCHANGED <<windowVars, fileVars, networkVars, pc, i>>
  BY <1>1 DEF ReceiveStray, HandleDatagram, windowVars, networkVars
<1>3. i \in 0..WindowSize /\ pc \in {"send", "receive", "update", "done", "failed"}
      /\ (pc = "done" => Len(file) = Size)
  BY DEF IInv, TypeOK, DoneMeansComplete
<1> QED BY <1>2, <1>3, QuietStep

\* When update_window finds the first slot received, it holds the first
\* segment of the window, which is the next one of the file.
LEMMA FirstIsNext ==
  ASSUME IInv, pc = "update", First.received
  PROVE  /\ first_segment \in 0..TotalSegments-1
         /\ Index(first_segment) \in 0..WindowSize-1
         /\ Len(file) = First.start
         /\ saved_bytes = First.start
         /\ First.len \in Positive
         /\ First.start + First.len = Offset(first_segment + 1)
         /\ Offset(first_segment + 1) <= Size
<1> USE DEF IInv
<1>1. first_segment \in Nat
  BY SegmentsCover DEF TypeOK, Positive
<1>2. Index(first_segment) \in 0..WindowSize-1
  BY <1>1, IndexType
<1>3. PICK s \in 0..TotalSegments-1 : Holds(Index(first_segment), s)
  BY <1>2 DEF SlotsHoldWindow, First
<1>4. s = first_segment
  <2>1. s % WindowSize = first_segment % WindowSize
    BY <1>3 DEF Holds, Index
  <2>2. s - first_segment < WindowSize /\ first_segment - s < WindowSize
    BY <1>1, <1>3, SizesAssumption DEF Holds, Positive
  <2>3. s \in Int /\ first_segment \in Int /\ WindowSize \in Positive
    BY <1>1, SizesAssumption
  <2> HIDE DEF IInv
  <2> QED BY <2>1, <2>2, <2>3, ModInjective
<1>5. /\ First.start = s * SegmentSize
      /\ First.len = RequestLength(s * SegmentSize)
  BY <1>3 DEF Holds, First
<1>6. Len(file) = Offset(s) /\ saved_bytes = Offset(s)
  BY <1>4 DEF Upto
<1> QED BY <1>2, <1>4, <1>5, <1>6, RequestIsSegment

\* update_window writes the next segment and frees its slot.
LEMMA WriteFirstStep ==
  ASSUME IInv, WriteFirst
  PROVE  IInv'
<1> USE DEF IInv
<1> DEFINE f == first_segment
<1>1. /\ f \in 0..TotalSegments-1
      /\ Index(f) \in 0..WindowSize-1
      /\ Len(file) = First.start
      /\ saved_bytes = First.start
      /\ First.len \in Positive
      /\ First.start + First.len = Offset(f + 1)
      /\ Offset(f + 1) <= Size
  BY FirstIsNext DEF WriteFirst
<1>2. /\ pc = "update" /\ pc' = "update"
      /\ file' = file \o Bytes(Len(file), First.len)
      /\ saved_bytes' = saved_bytes + First.len
      /\ segments' = [segments EXCEPT ![Index(f)] = Cleared]
      /\ f' = f + 1
      /\ UNCHANGED <<i, requests, replies>>
  BY <1>1 DEF WriteFirst, networkVars
<1>3. /\ file' \in Seq(Nat)
      /\ Len(file') = Offset(f + 1)
      /\ \A k \in 1..Len(file') : file'[k] = k - 1
  <2>1. file \in Seq(Nat) /\ \A k \in 1..Len(file) : file[k] = k - 1
    BY DEF TypeOK, FileIsPrefix
  <2>2. First.len \in Nat
    BY <1>1 DEF Positive
  <2>3. Len(file) + First.len = Offset(f + 1)
    BY <1>1
  <2> HIDE DEF IInv
  <2>4. /\ file \o Bytes(Len(file), First.len) \in Seq(Nat)
        /\ Len(file \o Bytes(Len(file), First.len)) = Len(file) + First.len
        /\ \A k \in 1..Len(file)+First.len :
              (file \o Bytes(Len(file), First.len))[k] = k - 1
    BY <2>1, <2>2, AppendBytes
  <2> QED BY <1>2, <2>3, <2>4
<1>4. f + 1 \in 0..TotalSegments
  BY <1>1, SegmentsCover DEF Positive
<1>5. TypeOK'
  <2>1. segments' \in [0..WindowSize-1 -> SegmentType]
    BY <1>1, <1>2 DEF TypeOK, SegmentType, Cleared
  <2>2. /\ saved_bytes \in Nat /\ First.len \in Nat /\ Size \in Nat
        /\ saved_bytes' = saved_bytes + First.len
        /\ saved_bytes + First.len <= Size
    BY <1>1, <1>2, SizesAssumption DEF Positive, TypeOK
  <2>3. saved_bytes' \in 0..Size
    <3> HIDE DEF IInv
    <3> QED BY <2>2
  <2>4. file' \in Seq(Nat) /\ first_segment' \in 0..TotalSegments
    BY <1>2, <1>3, <1>4
  <2> QED BY <1>2, <2>1, <2>3, <2>4 DEF TypeOK
<1>6. FileIsPrefix'
  BY <1>1, <1>3 DEF FileIsPrefix
<1>7. Upto(Offset(first_segment))'
  BY <1>1, <1>2, <1>3 DEF Upto, Offset
<1>8. DoneMeansComplete'
  BY <1>2 DEF DoneMeansComplete
<1>9. SlotsHoldWindow'
  <2> SUFFICES ASSUME NEW x \in 0..WindowSize-1, segments'[x].received
               PROVE  \E t \in 0..TotalSegments-1 : Holds(x, t)'
    BY DEF SlotsHoldWindow
  <2>1. x # Index(f)
    BY <1>1, <1>2 DEF TypeOK, Cleared
  <2>2. segments'[x] = segments[x]
    BY <1>1, <1>2, <2>1 DEF TypeOK
  <2>3. PICK t \in 0..TotalSegments-1 : Holds(x, t)
    BY <2>2 DEF SlotsHoldWindow
  <2>4. t # f
    BY <2>1, <2>3 DEF Holds
  <2>5. t \in f+1..f+WindowSize
    <3>1. f \in Nat /\ t \in Nat /\ WindowSize \in Nat /\ f <= t /\ t <= f + WindowSize
      BY <1>1, <2>3, SizesAssumption, SegmentsCover DEF Holds, Positive
    <3> HIDE DEF IInv
    <3> QED BY <3>1, <2>4
  <2>6. t \in f'..f'+WindowSize-1
    BY <1>1, <1>2, <2>5, SizesAssumption, SegmentsCover DEF Positive
  <2>7. Holds(x, t)'
    BY <2>2, <2>3, <2>6 DEF Holds, Index
  <2> QED BY <2>7
<1>10. RequestsBelow' /\ RepliesBelow'
  <2>1. \A s \in 0..TotalSegments-1 :
          s < f + WindowSize => s < f' + WindowSize
    BY <1>1, <1>2, SizesAssumption, SegmentsCover DEF Positive
  <2> QED BY <1>2, <2>1 DEF RequestsBelow, RepliesBelow
<1> QED BY <1>5, <1>6, <1>7, <1>8, <1>9, <1>10

\* A failing fwrite leaves part of the next segment in the file.
LEMMA FailStep ==
  ASSUME IInv, Fail
  PROVE  IInv'
<1> USE DEF IInv
<1>1. i \in 0..WindowSize
  BY DEF TypeOK
<1>2. CASE /\ pc' = "failed"
           /\ UNCHANGED <<i, windowVars, fileVars, networkVars>>
  BY <1>1, <1>2, QuietStep
<1>3. CASE /\ pc = "update" /\ First.received
           /\ \E n \in 0..First.len-1 : file' = file \o Bytes(First.start, n)
           /\ pc' = "failed"
           /\ UNCHANGED <<i, windowVars, saved_bytes, networkVars>>
  <2>1. /\ Len(file) = First.start
        /\ First.len \in Positive
        /\ Len(file) + First.len <= Size
    BY <1>3, FirstIsNext
  <2>2. PICK n \in 0..First.len-1 : file' = file \o Bytes(Len(file), n)
    BY <1>3, <2>1
  <2>3. n \in Nat /\ n < First.len
    BY <2>1, <2>2 DEF Positive
  <2>4. /\ file' \in Seq(Nat)
        /\ Len(file') = Len(file) + n
        /\ \A k \in 1..Len(file') : file'[k] = k - 1
    <3>1. file \in Seq(Nat) /\ \A k \in 1..Len(file) : file[k] = k - 1
      BY DEF TypeOK, FileIsPrefix
    <3> HIDE DEF IInv
    <3> QED BY <2>2, <2>3, <3>1, AppendBytes
  <2>5. Len(file') <= Size
    <3>1. Len(file) \in Nat
      BY LenProperties DEF TypeOK
    <3> QED BY <2>1, <2>3, <2>4, <3>1, SizesAssumption DEF Positive
  <2>6. TypeOK'
    BY <1>3, <2>4 DEF TypeOK, windowVars, networkVars
  <2>7. FileIsPrefix'
    BY <2>4, <2>5 DEF FileIsPrefix
  <2>8. Upto(Offset(first_segment))' /\ DoneMeansComplete'
    BY <1>3 DEF Upto, DoneMeansComplete
  <2>9. SlotsHoldWindow'
    BY <1>3 DEF SlotsHoldWindow, Holds, windowVars
  <2>10. RequestsBelow' /\ RepliesBelow'
    BY <1>3 DEF RequestsBelow, RepliesBelow, windowVars, networkVars
  <2> QED BY <2>6, <2>7, <2>8, <2>9, <2>10
<1> QED BY <1>2, <1>3 DEF Fail

\* The client's other steps only move its program counter.
LEMMA ControlStep ==
  ASSUME IInv,
         SkipSegment \/ EndSend \/ StopReceiving \/ EndUpdate
  PROVE  IInv'
<1>1. i \in 0..WindowSize /\ WindowSize \in Positive
  BY SizesAssumption DEF IInv, TypeOK
<1>2. CASE SkipSegment
  <2>1. i + 1 \in 0..WindowSize
    BY <1>1, <1>2 DEF SkipSegment, CanSend, InWindow, Positive
  <2>2. /\ pc = "send" /\ pc' = "send" /\ i' = i + 1
        /\ UNCHANGED <<windowVars, fileVars, networkVars>>
    BY <1>2 DEF SkipSegment, CanSend
  <2> QED BY <2>1, <2>2, QuietStep
<1>3. CASE EndSend
  <2>1. 0 \in 0..WindowSize
    BY <1>1 DEF Positive
  <2>2. /\ pc = "send" /\ pc' = "receive" /\ i' = 0
        /\ UNCHANGED <<windowVars, fileVars, networkVars>>
    BY <1>3 DEF EndSend
  <2> QED BY <2>1, <2>2, QuietStep
<1>4. CASE StopReceiving
  <2>1. /\ pc = "receive" /\ pc' = "update" /\ i' = i
        /\ UNCHANGED <<windowVars, fileVars, networkVars>>
    BY <1>4 DEF StopReceiving
  <2> QED BY <1>1, <2>1, QuietStep
<1>5. CASE EndUpdate
  <2>1. /\ pc = "update" /\ pc' \in {"send", "done"} /\ i' = i
        /\ pc' = "done" => ~(Size > saved_bytes)
        /\ UNCHANGED <<windowVars, fileVars, networkVars>>
    BY <1>5 DEF EndUpdate
  <2>2. Len(file) = saved_bytes /\ Len(file) <= Size /\ saved_bytes \in 0..Size
    BY <2>1 DEF IInv, Upto, FileIsPrefix, TypeOK
  <2>3. pc' = "done" => Len(file) = Size
    BY <2>1, <2>2, SizesAssumption DEF Positive
  <2> QED BY <1>1, <2>1, <2>3, QuietStep
<1> QED BY <1>2, <1>3, <1>4, <1>5

\* No step, and no stuttering, breaks the invariant.
LEMMA NextIInv == IInv /\ [Next]_vars => IInv'
<1> SUFFICES ASSUME IInv, [Next]_vars PROVE IInv'
  OBVIOUS
<1>1. CASE SendRequest BY <1>1, SendRequestStep
<1>2. CASE WriteFirst BY <1>2, WriteFirstStep
<1>3. CASE SkipSegment \/ EndSend \/ StopReceiving \/ EndUpdate
  BY <1>3, ControlStep
<1>4. CASE Fail BY <1>4, FailStep
<1>5. CASE \E m \in replies : Receive(m) BY <1>5, ReceiveStep
<1>6. CASE \E m \in Strays : ReceiveStray(m) BY <1>6, StrayStep
<1>7. CASE \E x \in 0..WindowSize-1 : Expire(x) BY <1>7, ExpireStep
<1>8. CASE \E r \in requests : Serve(r) \/ Lose(r) BY <1>8, NetworkStep
<1>9. CASE UNCHANGED vars
  <2>1. UNCHANGED <<windowVars, fileVars, networkVars>> /\ pc' = pc /\ i' = i
    BY <1>9 DEF vars
  <2>2. /\ pc \in {"send", "receive", "update", "done", "failed"}
        /\ i \in 0..WindowSize
        /\ pc = "done" => Len(file) = Size
    BY DEF IInv, TypeOK, DoneMeansComplete
  <2> QED BY <2>1, <2>2, QuietStep
<1> QED BY <1>1, <1>2, <1>3, <1>4, <1>5, <1>6, <1>7, <1>8, <1>9
        DEF Next, Client, Ended

\* The invariant holds in every reachable state.
LEMMA Invariance == Spec => []IInv
  BY InitIInv, NextIInv, PTL DEF Spec

-----------------------------------------------------------------------------
(* The theorems.                                                           *)

\* Every variable keeps its type: no counter leaves its bounds.
THEOREM TypeCorrect == Spec => []TypeOK
<1>1. IInv => TypeOK
  BY DEF IInv
<1> QED BY <1>1, Invariance, PTL

\* What update_window has written is a prefix of the data, whatever was
\* lost, duplicated or reordered on the way (messages.c, utils.c).
THEOREM FileAlwaysPrefix == Spec => []FileIsPrefix
<1>1. IInv => FileIsPrefix
  BY DEF IInv
<1> QED BY <1>1, Invariance, PTL

\* The loop of main() ends with success only with the whole file written.
THEOREM DoneComplete == Spec => []DoneMeansComplete
<1>1. IInv => DoneMeansComplete
  BY DEF IInv
<1> QED BY <1>1, Invariance, PTL

\* receive_data's slot s % WINDOW_SIZE never mixes two segments.
THEOREM SlotsAgree == Spec => []SlotHoldsItsSegment
<1>1. ASSUME IInv PROVE SlotHoldsItsSegment
  <2> SUFFICES ASSUME NEW s \in first_segment..first_segment+WindowSize-1,
                      segments[Index(s)].received
               PROVE  /\ s < TotalSegments
                      /\ segments[Index(s)].start = s * SegmentSize
                      /\ segments[Index(s)].len = RequestLength(s * SegmentSize)
    BY DEF SlotHoldsItsSegment
  <2>1. first_segment \in Nat /\ s \in Nat
    BY <1>1, SegmentsCover, SizesAssumption DEF IInv, TypeOK, Positive
  <2>2. Index(s) \in 0..WindowSize-1
    BY <2>1, IndexType
  <2>3. PICK t \in 0..TotalSegments-1 : Holds(Index(s), t)
    BY <1>1, <2>2 DEF IInv, SlotsHoldWindow
  <2>4. t % WindowSize = s % WindowSize
    BY <2>3 DEF Holds, Index
  <2>5. t - s < WindowSize /\ s - t < WindowSize /\ t \in Int
    BY <2>1, <2>3, SizesAssumption, SegmentsCover DEF Holds, Positive
  <2>6. s \in Int /\ WindowSize \in Positive
    BY <2>1, SizesAssumption
  <2>7. t = s
    BY <2>4, <2>5, <2>6, ModInjective
  <2> QED BY <2>3, <2>7 DEF Holds
<1> QED BY <1>1, Invariance, PTL

\* The upper bound get_messages does not check holds without the check: a
\* datagram above the window answers a request that was never made.
THEOREM NoneAboveWindow == Spec => []NoAnswerAboveWindow
<1>1. ASSUME IInv PROVE NoAnswerAboveWindow
  <2> SUFFICES ASSUME NEW m \in replies
               PROVE  m.start \div SegmentSize < first_segment + WindowSize
    BY DEF NoAnswerAboveWindow
  <2>1. PICK s \in 0..TotalSegments-1 :
          s < first_segment + WindowSize /\ m = Answer(Request(s))
    BY <1>1 DEF IInv, RepliesBelow
  <2>2. m.start = s * SegmentSize
    BY <2>1 DEF Answer, Request
  <2>3. m.start \div SegmentSize = s
    BY <2>2, MultipleDiv, SizesAssumption, SegmentsCover DEF Positive
  <2> QED BY <2>1, <2>3
<1> QED BY <1>1, Invariance, PTL


\* A duplicate is stored into the slot of its own segment.
LEMMA StoreAgain ==
  ASSUME IInv, NEW m \in replies, Accepted(m), Store(m),
         NEW x \in 0..WindowSize-1, segments[x].received
  PROVE  /\ segments'[x].received
         /\ segments'[x].start = segments[x].start
         /\ segments'[x].len = segments[x].len
<1>1. PICK s \in 0..TotalSegments-1 :
        s < first_segment + WindowSize /\ m = Answer(Request(s))
  BY DEF IInv, RepliesBelow
<1>2. /\ m.start = s * SegmentSize /\ m.data = s * SegmentSize
      /\ m.len = RequestLength(s * SegmentSize)
  BY <1>1 DEF Answer, Request
<1>3. m.start \div SegmentSize = s
  BY <1>2, MultipleDiv, SizesAssumption, SegmentsCover DEF Positive
<1>4. PICK t \in 0..TotalSegments-1 : Holds(x, t)
  BY DEF IInv, SlotsHoldWindow
<1>5. segments \in [0..WindowSize-1 -> SegmentType]
  BY DEF IInv, TypeOK
<1>6. segments' = [segments EXCEPT ![Index(s)] =
        [@ EXCEPT !.received = TRUE, !.len = m.len, !.start = m.data]]
  BY <1>3 DEF Store
<1>7. CASE x = Index(s)
  <2>1. s % WindowSize = t % WindowSize
    BY <1>4, <1>7 DEF Holds, Index
  <2>2. s \in Int /\ t \in Int /\ s - t < WindowSize /\ t - s < WindowSize
    <3>1. s >= first_segment
      BY <1>3 DEF Accepted
    <3>2. first_segment \in Nat /\ WindowSize \in Positive
      BY SegmentsCover, SizesAssumption DEF IInv, TypeOK, Positive
    <3>3. t \in first_segment..first_segment+WindowSize-1
      BY <1>4 DEF Holds
    <3> QED BY <1>1, <3>1, <3>2, <3>3, SegmentsCover DEF Positive
  <2>3. s = t
    BY <2>1, <2>2, ModInjective, SizesAssumption
  <2>4. /\ segments[x].start = s * SegmentSize
        /\ segments[x].len = RequestLength(s * SegmentSize)
    BY <1>4, <2>3 DEF Holds
  <2> QED BY <1>2, <1>5, <1>6, <1>7, <2>4 DEF SegmentType
<1>8. CASE x # Index(s)
  BY <1>5, <1>6, <1>8
<1> QED BY <1>7, <1>8

\* A received segment is kept until it is written: nothing the network
\* repeats, and no timeout, changes it.
THEOREM ReceivedKept == Spec => ReceivedIsKept
<1> DEFINE Kept(x) ==
      \/ /\ segments'[x].received
         /\ segments'[x].start = segments[x].start
         /\ segments'[x].len = segments[x].len
      \/ file' = file \o Bytes(segments[x].start, segments[x].len)
<1>1. ASSUME IInv, Next, NEW x \in 0..WindowSize-1, segments[x].received
      PROVE  Kept(x)
  <2> USE <1>1
  <2>0. segments \in [0..WindowSize-1 -> SegmentType]
    BY DEF IInv, TypeOK
  <2>1. CASE SendRequest
    BY <2>0, <2>1 DEF SendRequest, SegmentType
  <2>2. CASE WriteFirst
    BY <2>0, <2>2 DEF WriteFirst, First
  <2>3. CASE SkipSegment \/ EndSend \/ StopReceiving \/ EndUpdate \/ Fail
    BY <2>3 DEF SkipSegment, EndSend, StopReceiving, EndUpdate, Fail, windowVars
  <2>4. CASE \E m \in replies : Receive(m)
    BY <2>4, StoreAgain DEF Receive, HandleDatagram
  <2>5. CASE \E m \in Strays : ReceiveStray(m)
    BY <2>5, StraysAssumption DEF ReceiveStray, HandleDatagram, Accepted
  <2>6. CASE \E y \in 0..WindowSize-1 : Expire(y)
    BY <2>0, <2>6 DEF Expire, SegmentType
  <2>7. CASE \E r \in requests : Serve(r) \/ Lose(r)
    BY <2>7 DEF Serve, Lose, windowVars
  <2>8. CASE Ended
    BY <2>8 DEF Ended, vars, windowVars
  <2> QED BY <2>1, <2>2, <2>3, <2>4, <2>5, <2>6, <2>7, <2>8 DEF Next, Client
<1>2. IInv /\ [Next]_vars =>
        [\A x \in 0..WindowSize-1 : segments[x].received => Kept(x)]_vars
  BY <1>1
<1> QED BY <1>2, Invariance, PTL DEF Spec, ReceivedIsKept
=============================================================================
