----------------------- MODULE ProducerConsumerProofs -----------------------
(***************************************************************************)
(* Theorems about ProducerConsumer for any number of buffers, slots,       *)
(* products and threads: the consumers advance in rounds, and the threads  *)
(* together implement the bounded first-in first-out buffers of            *)
(* SynchronizedBuffers.                                                    *)
(***************************************************************************)
EXTENDS ProducerConsumer, FiniteSetTheorems, SequenceTheorems, TLAPS

-----------------------------------------------------------------------------
(* Type correctness.                                                       *)

\* The number of consumers is a number.
LEMMA CountType == ConsumerCount \in Nat
  BY FS_CardinalityType, ThreadsAssumption DEF ConsumerCount

\* A thread works on one of the buffers.
LEMMA BufferType == \A t \in Threads : BufferOf[t] \in Buffers
  BY ThreadsAssumption DEF Threads

\* Init has the right types.
LEMMA InitType == Init => TypeOK
<1> SUFFICES ASSUME Init PROVE TypeOK
  OBVIOUS
<1>1. /\ 0 \in Slots /\ 0 \in 0..ProductionLimit /\ 0 \in 0..ConsumerCount
      /\ BufferSize \in Nat /\ ConsumerCount \in Nat
  BY LimitsAssumption, CountType DEF Slots
<1>2. buffer \in [Buffers -> [Slots -> Products \cup {0}]]
  BY DEF Init, Slots
<1>3. pc \in [Threads -> Labels] /\ \A p \in Producers : pc[p] \in Labels
  BY DEF Init, Labels, Threads
<1>4. /\ produce_pos \in [Buffers -> Slots]
      /\ consume_pos \in [Buffers -> Slots]
      /\ produced \in [Buffers -> 0..ProductionLimit]
      /\ consumed \in [Buffers -> 0..ProductionLimit]
  BY <1>1 DEF Init
<1>5. /\ access \in [Buffers -> Nat]
      /\ to_consume \in [Buffers -> Nat]
      /\ empty_slots \in [Buffers -> Nat]
      /\ next_id \in [{"producer", "consumer"} -> Nat]
      /\ id_sem \in [{"producer", "consumer"} -> Nat]
      /\ consumers_sems \in [0..ConsumerCount-1 -> Nat]
      /\ left_sem \in Nat /\ print_sem \in Nat /\ consumers_left \in Int
  BY <1>1 DEF Init
<1>6. /\ id \in [Threads -> Int]
      /\ product \in [Consumers -> Products \cup {0}]
      /\ consumer_consumed \in [Consumers -> Nat]
      /\ i \in [Consumers -> 0..ConsumerCount]
      /\ main \in {"joining", "finished"}
  BY <1>1 DEF Init
<1> QED BY <1>2, <1>3, <1>4, <1>5, <1>6 DEF TypeOK

\* Positions wrap around.
LEMMA NextSlot == \A k \in Slots : (k + 1) % BufferSize \in Slots
  BY LimitsAssumption DEF Slots

\* A step that moves a thread keeps the type of pc.
LEMMA MoveType ==
  ASSUME TypeOK, NEW t \in Threads, NEW from, NEW to, Goto(t, from, to),
         to \in Labels \/ (to \in RoundLabels /\ t \in Consumers)
  PROVE  /\ pc' \in [Threads -> Labels \cup RoundLabels]
         /\ \A p \in Producers : pc'[p] \in Labels
  BY ThreadsAssumption DEF TypeOK, Goto, Threads

\* The steps producer() and consumer() share keep the types.
LEMMA SharedType ==
  ASSUME TypeOK, NEW t \in Threads, Shared(t)
  PROVE  TypeOK'
<1> USE DEF bufferVars, tokenVars, idVars, roundVars, localVars
<1>0. BufferOf[t] \in Buffers /\ Kind(t) \in {"producer", "consumer"}
  BY BufferType DEF Kind
<1>1. CASE TakeId(t)
  <2>1. Goto(t, "start", "numbered")
    BY <1>0, <1>1 DEF TakeId
  <2>2. id_sem' \in [{"producer", "consumer"} -> Nat]
    BY <1>0, <1>1 DEF TakeId, SemWait, SemPost, TypeOK
  <2>3. id' \in [Threads -> Int]
    BY <1>0, <1>1 DEF TakeId, SemWait, SemPost, TypeOK
  <2>4. /\ pc' \in [Threads -> Labels \cup RoundLabels]
        /\ \A p \in Producers : pc'[p] \in Labels
    BY <1>0, <2>1, MoveType DEF Labels, RoundLabels
  <2> QED BY <1>1, <2>2, <2>3, <2>4 DEF TakeId, TypeOK
<1>2. CASE LeaveId(t)
  <2>1. Goto(t, "numbered", "loop")
    BY <1>0, <1>2 DEF LeaveId
  <2>2. id_sem' \in [{"producer", "consumer"} -> Nat]
    BY <1>0, <1>2 DEF LeaveId, SemWait, SemPost, TypeOK
  <2>3. next_id' \in [{"producer", "consumer"} -> Nat]
    BY <1>0, <1>2 DEF LeaveId, SemWait, SemPost, TypeOK
  <2>4. /\ pc' \in [Threads -> Labels \cup RoundLabels]
        /\ \A p \in Producers : pc'[p] \in Labels
    BY <1>0, <2>1, MoveType DEF Labels, RoundLabels
  <2> QED BY <1>2, <2>2, <2>3, <2>4 DEF LeaveId, TypeOK
<1>3. CASE Loop(t)
  <2>1. Goto(t, "loop", "reserve") \/ Goto(t, "loop", "done")
    BY <1>0, <1>3 DEF Loop
  <2>2. /\ pc' \in [Threads -> Labels \cup RoundLabels]
        /\ \A p \in Producers : pc'[p] \in Labels
    BY <1>0, <2>1, MoveType DEF Labels, RoundLabels
  <2> QED BY <1>3, <2>2 DEF Loop, TypeOK
<1>4. CASE Enter(t)
  <2>1. Goto(t, "enter", "inside")
    BY <1>0, <1>4 DEF Enter
  <2>2. access' \in [Buffers -> Nat]
    BY <1>0, <1>4 DEF Enter, SemWait, SemPost, TypeOK
  <2>3. /\ pc' \in [Threads -> Labels \cup RoundLabels]
        /\ \A p \in Producers : pc'[p] \in Labels
    BY <1>0, <2>1, MoveType DEF Labels, RoundLabels
  <2> QED BY <1>4, <2>2, <2>3 DEF Enter, TypeOK
<1>5. CASE FindLimit(t)
  <2>1. Goto(t, "inside", "undo")
    BY <1>0, <1>5 DEF FindLimit
  <2>2. /\ pc' \in [Threads -> Labels \cup RoundLabels]
        /\ \A p \in Producers : pc'[p] \in Labels
    BY <1>0, <2>1, MoveType DEF Labels, RoundLabels
  <2> QED BY <1>5, <2>2 DEF FindLimit, TypeOK
<1>6. CASE StartPrint(t)
  <2>1. Goto(t, "print", "printing")
    BY <1>0, <1>6 DEF StartPrint
  <2>2. print_sem' \in Nat
    BY <1>0, <1>6 DEF StartPrint, SemWait, SemPost, TypeOK
  <2>3. /\ pc' \in [Threads -> Labels \cup RoundLabels]
        /\ \A p \in Producers : pc'[p] \in Labels
    BY <1>0, <2>1, MoveType DEF Labels, RoundLabels
  <2> QED BY <1>6, <2>2, <2>3 DEF StartPrint, TypeOK
<1>7. CASE EndPrint(t)
  <2>1. Goto(t, "printing", "leave")
    BY <1>0, <1>7 DEF EndPrint
  <2>2. print_sem' \in Nat
    BY <1>0, <1>7 DEF EndPrint, SemWait, SemPost, TypeOK
  <2>3. /\ pc' \in [Threads -> Labels \cup RoundLabels]
        /\ \A p \in Producers : pc'[p] \in Labels
    BY <1>0, <2>1, MoveType DEF Labels, RoundLabels
  <2> QED BY <1>7, <2>2, <2>3 DEF EndPrint, TypeOK
<1>8. CASE Leave(t)
  <2>1. Goto(t, "leave", "publish") \/ Goto(t, "undo_leave", "done")
    BY <1>0, <1>8 DEF Leave
  <2>2. access' \in [Buffers -> Nat]
    BY <1>0, <1>8 DEF Leave, SemWait, SemPost, TypeOK
  <2>3. /\ pc' \in [Threads -> Labels \cup RoundLabels]
        /\ \A p \in Producers : pc'[p] \in Labels
    BY <1>0, <2>1, MoveType DEF Labels, RoundLabels
  <2> QED BY <1>8, <2>2, <2>3 DEF Leave, TypeOK
<1>9. CASE PostToConsume(t)
  <2>1. Goto(t, "publish", "loop") \/ Goto(t, "undo", "undo_leave")
    BY <1>0, <1>9 DEF PostToConsume
  <2>2. to_consume' \in [Buffers -> Nat]
    BY <1>0, <1>9 DEF PostToConsume, SemWait, SemPost, TypeOK
  <2>3. /\ pc' \in [Threads -> Labels \cup RoundLabels]
        /\ \A p \in Producers : pc'[p] \in Labels
    BY <1>0, <2>1, MoveType DEF Labels, RoundLabels
  <2> QED BY <1>9, <2>2, <2>3 DEF PostToConsume, TypeOK
<1>10. CASE PostEmptySlots(t)
  <2>1. \/ Goto(t, "undo", "undo_leave")
        \/ t \in Consumers /\ Goto(t, "publish", "count")
    BY <1>10 DEF PostEmptySlots
  <2>2. empty_slots' \in [Buffers -> Nat]
    BY <1>0, <1>10 DEF PostEmptySlots, SemPost, TypeOK
  <2>3. /\ pc' \in [Threads -> Labels \cup RoundLabels]
        /\ \A p \in Producers : pc'[p] \in Labels
    BY <2>1, MoveType DEF Labels, RoundLabels
  <2> QED BY <1>10, <2>2, <2>3 DEF PostEmptySlots, TypeOK
<1> QED BY <1>1, <1>2, <1>3, <1>4, <1>5, <1>6, <1>7, <1>8, <1>9, <1>10 DEF Shared

\* The steps of producer() keep the types.
LEMMA ProducerType ==
  ASSUME TypeOK, NEW p \in Producers, Producer(p)
  PROVE  TypeOK'
<1> USE DEF bufferVars, tokenVars, idVars, roundVars, localVars
<1>0. p \in Threads /\ BufferOf[p] \in Buffers
  BY BufferType DEF Threads
<1>1. CASE ReserveSlot(p)
  <2>1. Goto(p, "reserve", "enter")
    BY <1>0, <1>1 DEF ReserveSlot
  <2>2. empty_slots' \in [Buffers -> Nat]
    BY <1>0, <1>1 DEF ReserveSlot, SemWait, SemPost, TypeOK
  <2>3. /\ pc' \in [Threads -> Labels \cup RoundLabels]
        /\ \A u \in Producers : pc'[u] \in Labels
    BY <1>0, <2>1, MoveType DEF Labels, RoundLabels
  <2> QED BY <1>1, <2>2, <2>3 DEF ReserveSlot, TypeOK
<1>2. CASE Put(p)
  <2>1. Goto(p, "inside", "print")
    BY <1>0, <1>2 DEF Put
  <2>2. buffer' \in [Buffers -> [Slots -> Products \cup {0}]]
    BY <1>0, <1>2 DEF Put, SemWait, SemPost, TypeOK
  <2>3. produced' \in [Buffers -> 0..ProductionLimit]
    <3>0. produced[BufferOf[p]] \in 0..ProductionLimit
      BY <1>0 DEF TypeOK
    <3>1. produced[BufferOf[p]] # ProductionLimit
      BY <1>2 DEF Put
    <3>2. produced[BufferOf[p]] + 1 \in 0..ProductionLimit
      BY <3>0, <3>1, LimitsAssumption
    <3> QED BY <1>0, <1>2, <3>2 DEF Put, TypeOK
  <2>4. produce_pos' \in [Buffers -> Slots]
    <3>1. (produce_pos[BufferOf[p]] + 1) % BufferSize \in Slots
      BY <1>0, NextSlot DEF TypeOK
    <3> QED BY <1>0, <1>2, <3>1 DEF Put, TypeOK
  <2>5. /\ pc' \in [Threads -> Labels \cup RoundLabels]
        /\ \A u \in Producers : pc'[u] \in Labels
    BY <1>0, <2>1, MoveType DEF Labels
  <2> QED BY <1>2, <2>2, <2>3, <2>4, <2>5 DEF Put, TypeOK
<1> QED BY <1>1, <1>2 DEF Producer

\* The steps of consumer() keep the types.
LEMMA ConsumerType ==
  ASSUME TypeOK, NEW c \in Consumers, Consumer(c)
  PROVE  TypeOK'
<1> USE DEF bufferVars, tokenVars, idVars, roundVars, localVars
<1>0. c \in Threads /\ BufferOf[c] \in Buffers
  BY BufferType DEF Threads
<1>1. CASE ReserveProduct(c)
  <2>1. Goto(c, "reserve", "enter")
    BY <1>0, <1>1 DEF ReserveProduct
  <2>2. to_consume' \in [Buffers -> Nat]
    BY <1>0, <1>1 DEF ReserveProduct, SemWait, SemPost, TypeOK
  <2>3. /\ pc' \in [Threads -> Labels \cup RoundLabels]
        /\ \A p \in Producers : pc'[p] \in Labels
    BY <1>0, <2>1, MoveType DEF Labels, RoundLabels
  <2> QED BY <1>1, <2>2, <2>3 DEF ReserveProduct, TypeOK
<1>2. CASE Take(c)
  <2>1. Goto(c, "inside", "print")
    BY <1>0, <1>2 DEF Take
  <2>2. buffer' \in [Buffers -> [Slots -> Products \cup {0}]]
    BY <1>0, <1>2 DEF Take, SemWait, SemPost, TypeOK
  <2>3. product' \in [Consumers -> Products \cup {0}]
    <3>1. buffer[BufferOf[c]][consume_pos[BufferOf[c]]] \in Products \cup {0}
      BY <1>0 DEF TypeOK
    <3> QED BY <1>2, <3>1 DEF Take, TypeOK
  <2>4. consumed' \in [Buffers -> 0..ProductionLimit]
    <3>0. consumed[BufferOf[c]] \in 0..ProductionLimit
      BY <1>0 DEF TypeOK
    <3>1. consumed[BufferOf[c]] # ProductionLimit
      BY <1>2 DEF Take
    <3>2. consumed[BufferOf[c]] + 1 \in 0..ProductionLimit
      BY <3>0, <3>1, LimitsAssumption
    <3> QED BY <1>0, <1>2, <3>2 DEF Take, TypeOK
  <2>5. consume_pos' \in [Buffers -> Slots]
    <3>1. (consume_pos[BufferOf[c]] + 1) % BufferSize \in Slots
      BY <1>0, NextSlot DEF TypeOK
    <3> QED BY <1>0, <1>2, <3>1 DEF Take, TypeOK
  <2>6. consumer_consumed' \in [Consumers -> Nat]
    <3>1. consumer_consumed' = [consumer_consumed EXCEPT ![c] = @ + 1]
      BY <1>2 DEF Take
    <3>2. consumer_consumed \in [Consumers -> Nat]
      BY DEF TypeOK
    <3> QED BY <3>1, <3>2
  <2>7. /\ pc' \in [Threads -> Labels \cup RoundLabels]
        /\ \A p \in Producers : pc'[p] \in Labels
    BY <1>0, <2>1, MoveType DEF Labels
  <2>8. UNCHANGED <<produce_pos, produced, access, to_consume, empty_slots, next_id,
                    id_sem, id, consumers_left, left_sem, consumers_sems, i,
                    print_sem, main>>
    BY <1>2 DEF Take
  <2> QED BY <2>2, <2>3, <2>4, <2>5, <2>6, <2>7, <2>8 DEF TypeOK
<1>3. CASE EnterCount(c)
  <2>1. Goto(c, "count", "counting")
    BY <1>0, <1>3 DEF EnterCount
  <2>2. left_sem' \in Nat
    BY <1>0, <1>3 DEF EnterCount, SemWait, SemPost, TypeOK
  <2>3. /\ pc' \in [Threads -> Labels \cup RoundLabels]
        /\ \A p \in Producers : pc'[p] \in Labels
    BY <1>0, <2>1, MoveType DEF Labels, RoundLabels
  <2> QED BY <1>3, <2>2, <2>3 DEF EnterCount, TypeOK
<1>4. CASE CountDown(c)
  <2>1. Goto(c, "counting", "reset") \/ Goto(c, "counting", "counted")
    BY <1>0, <1>4 DEF CountDown
  <2>2. consumers_left' \in Int
    BY <1>0, <1>4 DEF CountDown, SemWait, SemPost, TypeOK
  <2>3. /\ pc' \in [Threads -> Labels \cup RoundLabels]
        /\ \A p \in Producers : pc'[p] \in Labels
    BY <1>0, <2>1, MoveType DEF Labels, RoundLabels
  <2> QED BY <1>4, <2>2, <2>3 DEF CountDown, TypeOK
<1>5. CASE WakeNext(c)
  <2>1. i[c] \in 0..ConsumerCount-1 /\ i[c] + 1 \in 0..ConsumerCount
    <3>1. i[c] \in 0..ConsumerCount /\ i[c] < ConsumerCount
      BY <1>5 DEF WakeNext, TypeOK
    <3> QED BY <3>1, CountType
  <2>2. consumers_sems' \in [0..ConsumerCount-1 -> Nat]
    BY <1>5, <2>1 DEF WakeNext, SemPost, TypeOK
  <2>3. i' \in [Consumers -> 0..ConsumerCount]
    BY <1>5, <2>1 DEF WakeNext, TypeOK
  <2> QED BY <1>5, <2>2, <2>3 DEF WakeNext, TypeOK
<1>6. CASE StartRound(c)
  <2>1. Goto(c, "reset", "counted")
    BY <1>6 DEF StartRound
  <2>2. i' \in [Consumers -> 0..ConsumerCount] /\ consumers_left' \in Int
    BY <1>6, CountType DEF StartRound, TypeOK
  <2>3. /\ pc' \in [Threads -> Labels \cup RoundLabels]
        /\ \A p \in Producers : pc'[p] \in Labels
    BY <1>0, <2>1, MoveType DEF Labels, RoundLabels
  <2> QED BY <1>6, <2>2, <2>3 DEF StartRound, TypeOK
<1>7. CASE LeaveCount(c)
  <2>1. Goto(c, "counted", "wait_round")
    BY <1>0, <1>7 DEF LeaveCount
  <2>2. left_sem' \in Nat
    BY <1>0, <1>7 DEF LeaveCount, SemWait, SemPost, TypeOK
  <2>3. /\ pc' \in [Threads -> Labels \cup RoundLabels]
        /\ \A p \in Producers : pc'[p] \in Labels
    BY <1>0, <2>1, MoveType DEF Labels, RoundLabels
  <2> QED BY <1>7, <2>2, <2>3 DEF LeaveCount, TypeOK
<1>8. CASE WaitRound(c)
  <2>1. Goto(c, "wait_round", "loop")
    BY <1>8 DEF WaitRound
  <2>2. consumers_sems' \in [0..ConsumerCount-1 -> Nat]
    <3>1. CASE id[c] \in 0..ConsumerCount-1
      <4>1. consumers_sems[id[c]] \in Nat /\ consumers_sems[id[c]] > 0
        BY <1>8, <3>1 DEF WaitRound, SemWait, TypeOK
      <4>2. consumers_sems[id[c]] - 1 \in Nat
        BY <4>1
      <4> QED BY <1>8, <4>2 DEF WaitRound, SemWait, TypeOK
    <3>2. CASE id[c] \notin 0..ConsumerCount-1
      BY <1>8, <3>2 DEF WaitRound, SemWait, TypeOK
    <3> QED BY <3>1, <3>2
  <2>3. /\ pc' \in [Threads -> Labels \cup RoundLabels]
        /\ \A p \in Producers : pc'[p] \in Labels
    BY <1>0, <2>1, MoveType DEF Labels, RoundLabels
  <2> QED BY <1>8, <2>2, <2>3 DEF WaitRound, TypeOK
<1> QED BY <1>1, <1>2, <1>3, <1>4, <1>5, <1>6, <1>7, <1>8 DEF Consumer

\* No counter leaves its bounds and no position leaves its ring.
THEOREM TypeCorrect == Spec => []TypeOK
<1>1. TypeOK /\ [Next]_vars => TypeOK'
  <2> SUFFICES ASSUME TypeOK, [Next]_vars PROVE TypeOK'
    OBVIOUS
  <2>1. CASE \E t \in Threads : Shared(t) BY <2>1, SharedType
  <2>2. CASE \E p \in Producers : Producer(p) BY <2>2, ProducerType
  <2>3. CASE \E c \in Consumers : Consumer(c) BY <2>3, ConsumerType
  <2>4. CASE JoinAll
    BY <2>4 DEF JoinAll, TypeOK, bufferVars, tokenVars, idVars, roundVars, localVars
  <2>5. CASE UNCHANGED vars
    BY <2>5 DEF vars, TypeOK, bufferVars, tokenVars, idVars, roundVars, localVars
  <2> QED BY <2>1, <2>2, <2>3, <2>4, <2>5 DEF Next, Exited
<1> QED BY InitType, <1>1, PTL DEF Spec

-----------------------------------------------------------------------------
(* One thread at a time in a buffer.                                       *)

\* The value of access says whether somebody is inside.
AccessInv ==
  /\ \A b \in Buffers : access[b] \in {0, 1}
  /\ \A t \in Threads : Inside(t) => access[BufferOf[t]] = 0
  /\ BufferExclusive

\* Only Enter and Leave change who is inside.
LEMMA StayInside ==
  ASSUME TypeOK, NEW t \in Threads,
         Shared(t) \/ Producer(t) \/ Consumer(t),
         ~Enter(t), ~Leave(t)
  PROVE  /\ access' = access
         /\ \A u \in Threads : Inside(u)' <=> Inside(u)
<1> USE DEF TypeOK, Goto, Inside
<1>1. CASE TakeId(t) BY <1>1 DEF TakeId
<1>2. CASE LeaveId(t) BY <1>2 DEF LeaveId
<1>3. CASE Loop(t) BY <1>3 DEF Loop
<1>4. CASE FindLimit(t) BY <1>4 DEF FindLimit
<1>5. CASE StartPrint(t) BY <1>5 DEF StartPrint
<1>6. CASE EndPrint(t) BY <1>6 DEF EndPrint
<1>7. CASE PostToConsume(t) BY <1>7 DEF PostToConsume
<1>8. CASE PostEmptySlots(t) BY <1>8 DEF PostEmptySlots
<1>9. CASE ReserveSlot(t) BY <1>9 DEF ReserveSlot
<1>10. CASE Put(t) BY <1>10 DEF Put
<1>11. CASE ReserveProduct(t) BY <1>11 DEF ReserveProduct
<1>12. CASE Take(t) BY <1>12 DEF Take
<1>13. CASE EnterCount(t) BY <1>13 DEF EnterCount
<1>14. CASE CountDown(t) BY <1>14 DEF CountDown
<1>15. CASE WakeNext(t) BY <1>15 DEF WakeNext
<1>16. CASE StartRound(t) BY <1>16 DEF StartRound
<1>17. CASE LeaveCount(t) BY <1>17 DEF LeaveCount
<1>18. CASE WaitRound(t) BY <1>18 DEF WaitRound
<1> QED BY <1>1, <1>2, <1>3, <1>4, <1>5, <1>6, <1>7, <1>8, <1>9,
          <1>10, <1>11, <1>12, <1>13, <1>14, <1>15, <1>16, <1>17, <1>18
       DEF Shared, Producer, Consumer

\* Enter waits until nobody is inside, and Leave is called by the one inside.
LEMMA AccessStep == TypeOK /\ AccessInv /\ [Next]_vars => AccessInv'
<1> SUFFICES ASSUME TypeOK, AccessInv, [Next]_vars PROVE AccessInv'
  OBVIOUS
<1> USE BufferType
<1>1. ASSUME NEW t \in Threads, Enter(t) PROVE AccessInv'
  <2>1. /\ access[BufferOf[t]] = 1
        /\ access' = [access EXCEPT ![BufferOf[t]] = 0]
    <3>1. access[BufferOf[t]] \in {0, 1} /\ access[BufferOf[t]] > 0
      BY <1>1 DEF Enter, SemWait, AccessInv
    <3>2. access[BufferOf[t]] = 1 /\ access[BufferOf[t]] - 1 = 0
      BY <3>1
    <3> QED BY <1>1, <3>2 DEF Enter, SemWait
  <2>2. /\ Inside(t)'
        /\ \A u \in Threads : u # t => (Inside(u)' <=> Inside(u))
    BY <1>1 DEF Enter, Goto, Inside, TypeOK
  <2>3. \A u \in Threads : BufferOf[u] = BufferOf[t] => ~Inside(u)
    BY <2>1 DEF AccessInv
  <2>4. \A b \in Buffers : access'[b] \in {0, 1}
    BY <2>1 DEF AccessInv, TypeOK
  <2>5. \A u \in Threads : Inside(u)' => access'[BufferOf[u]] = 0
    BY <2>1, <2>2 DEF AccessInv, TypeOK
  <2>6. BufferExclusive'
    BY <2>2, <2>3 DEF AccessInv, BufferExclusive
  <2> QED BY <2>4, <2>5, <2>6 DEF AccessInv
<1>2. ASSUME NEW t \in Threads, Leave(t) PROVE AccessInv'
  <2>1. /\ Inside(t) /\ ~Inside(t)'
        /\ \A u \in Threads : u # t => (Inside(u)' <=> Inside(u))
    BY <1>2 DEF Leave, Goto, Inside, TypeOK
  <2>2. /\ access[BufferOf[t]] = 0
        /\ access' = [access EXCEPT ![BufferOf[t]] = 1]
    <3>1. access[BufferOf[t]] = 0
      BY <2>1 DEF AccessInv
    <3>2. access[BufferOf[t]] + 1 = 1
      BY <3>1
    <3> QED BY <1>2, <3>1, <3>2 DEF Leave, SemPost
  <2>3. \A u \in Threads : BufferOf[u] = BufferOf[t] => ~Inside(u)'
    BY <2>1 DEF AccessInv, BufferExclusive
  <2>4. \A b \in Buffers : access'[b] \in {0, 1}
    BY <2>2 DEF AccessInv, TypeOK
  <2>5. \A u \in Threads : Inside(u)' => access'[BufferOf[u]] = 0
    BY <2>1, <2>2, <2>3 DEF AccessInv, TypeOK
  <2>6. BufferExclusive'
    BY <2>1 DEF AccessInv, BufferExclusive
  <2> QED BY <2>4, <2>5, <2>6 DEF AccessInv
<1>3. ASSUME NEW t \in Threads, Shared(t) \/ Producer(t) \/ Consumer(t),
             ~Enter(t), ~Leave(t)
      PROVE  AccessInv'
  BY <1>3, StayInside DEF AccessInv, BufferExclusive
<1>4. CASE JoinAll \/ UNCHANGED vars
  BY <1>4 DEF JoinAll, vars, AccessInv, BufferExclusive, Inside
<1> QED BY <1>1, <1>2, <1>3, <1>4 DEF Next, Exited, Threads

\* No two threads use the same buffer at the same time: the mutual exclusion
\* of sem_wait(&b->access) and sem_post(&b->access), which all early returns
\* respect (main.c:97-116, 148-168).
THEOREM Exclusion == Spec => []BufferExclusive
<1>1. Init => AccessInv
  BY BufferType DEF Init, AccessInv, BufferExclusive, Inside
<1>2. AccessInv => BufferExclusive
  BY DEF AccessInv
<1> QED BY <1>1, <1>2, AccessStep, TypeCorrect, PTL DEF Spec

-----------------------------------------------------------------------------
(* Ids.                                                                    *)

\* t has its id, and has left the section that gave it.
Past(t) == pc[t] \notin {"start", "numbered"}

\* Why ids are unique: a semaphore admits one thread of a kind to the counter,
\* and the counter is above every id given before.  Why a consumer's id is an
\* index of _Consumers_sems: the counter is the number of consumers past it.
IdInv ==
  /\ \A k \in {"producer", "consumer"} : id_sem[k] \in {0, 1}
  /\ \A t \in Threads : pc[t] = "start" => id[t] = -1
  /\ \A t \in Threads : pc[t] = "numbered" =>
       id_sem[Kind(t)] = 0 /\ id[t] = next_id[Kind(t)]
  /\ \A t, u \in Threads :
       pc[t] = "numbered" /\ pc[u] = "numbered" /\ Kind(t) = Kind(u) => t = u
  /\ \A t \in Threads : Past(t) => id[t] < next_id[Kind(t)]
  /\ next_id["consumer"] = Cardinality({c \in Consumers : Past(c)})
  /\ UniqueIds

\* Only TakeId and LeaveId touch the ids.
LEMMA KeepIds ==
  ASSUME TypeOK, NEW t \in Threads,
         Shared(t) \/ Producer(t) \/ Consumer(t),
         ~TakeId(t), ~LeaveId(t)
  PROVE  /\ UNCHANGED <<next_id, id_sem, id>>
         /\ \A u \in Threads : /\ pc'[u] = "start" <=> pc[u] = "start"
                               /\ pc'[u] = "numbered" <=> pc[u] = "numbered"
<1> USE DEF TypeOK, Goto, idVars
<1>1. CASE Loop(t) BY <1>1 DEF Loop
<1>2. CASE Enter(t) BY <1>2 DEF Enter
<1>3. CASE FindLimit(t) BY <1>3 DEF FindLimit
<1>4. CASE StartPrint(t) BY <1>4 DEF StartPrint
<1>5. CASE EndPrint(t) BY <1>5 DEF EndPrint
<1>6. CASE Leave(t) BY <1>6 DEF Leave
<1>7. CASE PostToConsume(t) BY <1>7 DEF PostToConsume
<1>8. CASE PostEmptySlots(t) BY <1>8 DEF PostEmptySlots
<1>9. CASE ReserveSlot(t) BY <1>9 DEF ReserveSlot
<1>10. CASE Put(t) BY <1>10 DEF Put
<1>11. CASE ReserveProduct(t) BY <1>11 DEF ReserveProduct
<1>12. CASE Take(t) BY <1>12 DEF Take
<1>13. CASE EnterCount(t) BY <1>13 DEF EnterCount
<1>14. CASE CountDown(t) BY <1>14 DEF CountDown
<1>15. CASE WakeNext(t) BY <1>15 DEF WakeNext
<1>16. CASE StartRound(t) BY <1>16 DEF StartRound
<1>17. CASE LeaveCount(t) BY <1>17 DEF LeaveCount
<1>18. CASE WaitRound(t) BY <1>18 DEF WaitRound
<1> QED BY <1>1, <1>2, <1>3, <1>4, <1>5, <1>6, <1>7, <1>8, <1>9,
          <1>10, <1>11, <1>12, <1>13, <1>14, <1>15, <1>16, <1>17, <1>18
       DEF Shared, Producer, Consumer

\* TakeId and LeaveId keep IdInv, and no other step disturbs it.
LEMMA IdStep == TypeOK /\ IdInv /\ [Next]_vars => IdInv'
<1> SUFFICES ASSUME TypeOK, IdInv, [Next]_vars PROVE IdInv'
  OBVIOUS
<1>0. \A t \in Threads : Kind(t) \in {"producer", "consumer"}
  BY DEF Kind
<1>1. ASSUME NEW t \in Threads, TakeId(t) PROVE IdInv'
  <2> DEFINE k == Kind(t)
  <2>1. /\ pc[t] = "start" /\ pc' = [pc EXCEPT ![t] = "numbered"]
        /\ id' = [id EXCEPT ![t] = next_id[k]]
        /\ id_sem[k] > 0 /\ id_sem' = [id_sem EXCEPT ![k] = @ - 1]
        /\ next_id' = next_id
    BY <1>1 DEF TakeId, Goto, SemWait
  <2>2. id_sem[k] = 1 /\ id_sem[k] - 1 = 0
    BY <1>0, <2>1 DEF IdInv
  <2>3. id_sem' = [id_sem EXCEPT ![k] = 0]
    BY <2>1, <2>2
  <2>4. \A u \in Threads : u # t => pc'[u] = pc[u] /\ id'[u] = id[u]
    BY <2>1 DEF TypeOK
  <2>5. pc'[t] = "numbered" /\ id'[t] = next_id[k] /\ id_sem'[k] = 0
    BY <1>0, <2>1, <2>3 DEF TypeOK
  <2>6. \A u \in Threads : Kind(u) = k => pc[u] # "numbered"
    BY <2>2 DEF IdInv
  <2>7. \A u \in Threads : Past(u)' <=> Past(u)
    BY <2>1, <2>4, <2>5 DEF Past
  <2>8. \A j \in {"producer", "consumer"} : id_sem'[j] \in {0, 1}
    BY <1>0, <2>3 DEF IdInv, TypeOK
  <2>9. \A u \in Threads : pc'[u] = "start" => id'[u] = -1
    BY <2>4, <2>5 DEF IdInv
  <2>10. \A u \in Threads : pc'[u] = "numbered" =>
           id_sem'[Kind(u)] = 0 /\ id'[u] = next_id'[Kind(u)]
    BY <1>0, <2>1, <2>3, <2>4, <2>5, <2>6 DEF IdInv, TypeOK
  <2>11. \A u, v \in Threads :
           pc'[u] = "numbered" /\ pc'[v] = "numbered" /\ Kind(u) = Kind(v) => u = v
    BY <2>4, <2>6 DEF IdInv
  <2>12. \A u \in Threads : Past(u)' => id'[u] < next_id'[Kind(u)]
    BY <2>1, <2>4, <2>5, <2>7 DEF IdInv, Past
  <2>13. {c \in Consumers : Past(c)'} = {c \in Consumers : Past(c)}
    BY <2>7 DEF Threads
  <2>14. next_id'["consumer"] = Cardinality({c \in Consumers : Past(c)'})
    BY <2>1, <2>13 DEF IdInv
  <2>15. \A u \in Threads : Kind(u) = k /\ id[u] # -1 => id[u] < next_id[k]
    BY <2>6 DEF IdInv, Past
  <2>16. \A u, v \in Threads :
           Kind(u) = Kind(v) /\ id'[u] = id'[v] /\ id'[u] # -1 => u = v
    <3>1. next_id[k] \in Nat /\ \A u \in Threads : id[u] \in Int
      BY <1>0 DEF TypeOK
    <3> QED BY <2>4, <2>5, <2>15, <3>1 DEF IdInv, UniqueIds
  <2>17. \A c \in Consumers : id'[c] < ConsumerCount
    <3>1. CASE t \in Consumers
      <4> DEFINE P == {c \in Consumers : Past(c)}
      <4>1. P \subseteq Consumers /\ t \notin P /\ P # Consumers
        BY <2>1, <3>1 DEF Past
      <4>2. Cardinality(P) \in Nat /\ Cardinality(P) < ConsumerCount
        <5> HIDE DEF P
        <5> QED BY <4>1, FS_Subset, FS_CardinalityType, ThreadsAssumption
                DEF ConsumerCount
      <4>3. k = "consumer"
        BY <3>1, ThreadsAssumption DEF Kind
      <4>4. id'[t] < ConsumerCount
        BY <2>5, <4>2, <4>3 DEF IdInv
      <4> QED BY <2>4, <4>4 DEF IdInv, UniqueIds, Threads
    <3>2. CASE t \notin Consumers
      BY <2>4, <3>2 DEF IdInv, UniqueIds, Threads
    <3> QED BY <3>1, <3>2
  <2>18. UniqueIds'
    BY <2>16, <2>17 DEF UniqueIds
  <2> QED BY <2>8, <2>9, <2>10, <2>11, <2>12, <2>14, <2>18 DEF IdInv
<1>2. ASSUME NEW t \in Threads, LeaveId(t) PROVE IdInv'
  <2> DEFINE k == Kind(t)
  <2>1. /\ pc[t] = "numbered" /\ pc' = [pc EXCEPT ![t] = "loop"]
        /\ next_id' = [next_id EXCEPT ![k] = @ + 1]
        /\ id_sem' = [id_sem EXCEPT ![k] = @ + 1]
        /\ id' = id
    BY <1>2 DEF LeaveId, Goto, SemPost
  <2>2. id_sem[k] = 0 /\ id_sem[k] + 1 = 1
    BY <1>0, <2>1 DEF IdInv
  <2>3. id_sem' = [id_sem EXCEPT ![k] = 1]
    BY <2>1, <2>2
  <2>4. /\ \A u \in Threads : u # t => pc'[u] = pc[u]
        /\ pc'[t] = "loop"
    BY <2>1 DEF TypeOK
  <2>5. \A u \in Threads : Kind(u) = k => pc'[u] # "numbered"
    BY <2>1, <2>4 DEF IdInv
  <2>6. /\ next_id'[k] = next_id[k] + 1 /\ next_id[k] \in Nat
        /\ \A j \in {"producer", "consumer"} : j # k => next_id'[j] = next_id[j]
    BY <1>0, <2>1 DEF TypeOK
  <2>7. \A j \in {"producer", "consumer"} : id_sem'[j] \in {0, 1}
    BY <1>0, <2>3 DEF IdInv, TypeOK
  <2>8. \A u \in Threads : pc'[u] = "start" => id'[u] = -1
    BY <2>1, <2>4 DEF IdInv
  <2>9. \A u \in Threads : pc'[u] = "numbered" =>
          id_sem'[Kind(u)] = 0 /\ id'[u] = next_id'[Kind(u)]
    BY <1>0, <2>1, <2>3, <2>4, <2>5, <2>6 DEF IdInv, TypeOK
  <2>10. \A u, v \in Threads :
           pc'[u] = "numbered" /\ pc'[v] = "numbered" /\ Kind(u) = Kind(v) => u = v
    BY <2>4 DEF IdInv
  <2>11. \A u \in Threads : Past(u)' => id'[u] < next_id'[Kind(u)]
    <3> SUFFICES ASSUME NEW u \in Threads, Past(u)'
                 PROVE  id'[u] < next_id'[Kind(u)]
      OBVIOUS
    <3>1. id[u] \in Int /\ next_id[Kind(u)] \in Nat
      BY <1>0 DEF TypeOK
    <3>2. CASE u = t
      BY <2>1, <2>6, <3>1, <3>2 DEF IdInv
    <3>3. CASE u # t
      <4>1. id[u] < next_id[Kind(u)]
        BY <2>4, <3>3 DEF IdInv, Past
      <4> QED BY <1>0, <2>1, <2>6, <3>1, <4>1
    <3> QED BY <3>2, <3>3
  <2>12. next_id'["consumer"] = Cardinality({c \in Consumers : Past(c)'})
    <3> DEFINE P == {c \in Consumers : Past(c)}
    <3>1. IsFiniteSet(P)
      BY FS_Subset, ThreadsAssumption
    <3>2. CASE t \in Consumers
      <4>1. {c \in Consumers : Past(c)'} = P \cup {t} /\ t \notin P
        BY <2>1, <2>4, <3>2 DEF Past, Threads
      <4>2. k = "consumer"
        BY <3>2, ThreadsAssumption DEF Kind
      <4>3. Cardinality(P \cup {t}) = Cardinality(P) + 1
        BY <3>1, <4>1, FS_AddElement
      <4> QED BY <2>6, <4>1, <4>2, <4>3 DEF IdInv
    <3>3. CASE t \notin Consumers
      <4>1. {c \in Consumers : Past(c)'} = P
        BY <2>4, <3>3 DEF Past, Threads
      <4>2. k = "producer"
        BY <3>3 DEF Kind, Threads
      <4> QED BY <2>6, <4>1, <4>2 DEF IdInv
    <3> QED BY <3>2, <3>3
  <2>13. UniqueIds'
    BY <2>1 DEF IdInv, UniqueIds
  <2> QED BY <2>7, <2>8, <2>9, <2>10, <2>11, <2>12, <2>13 DEF IdInv
<1>3. ASSUME UNCHANGED <<next_id, id_sem, id>>,
             \A u \in Threads : /\ pc'[u] = "start" <=> pc[u] = "start"
                                /\ pc'[u] = "numbered" <=> pc[u] = "numbered"
      PROVE  IdInv'
  <2>1. {c \in Consumers : Past(c)'} = {c \in Consumers : Past(c)}
    BY <1>3 DEF Past, Threads
  <2> QED BY <1>3, <2>1 DEF IdInv, Past, UniqueIds
<1>4. ASSUME NEW t \in Threads, Shared(t) \/ Producer(t) \/ Consumer(t),
             ~TakeId(t), ~LeaveId(t)
      PROVE  IdInv'
  BY <1>3, <1>4, KeepIds
<1>5. CASE JoinAll \/ UNCHANGED vars
  BY <1>3, <1>5 DEF JoinAll, vars, idVars
<1> QED BY <1>1, <1>2, <1>4, <1>5 DEF Next, Exited, Threads

\* Before any thread has an id.
LEMMA IdInit == Init => IdInv
<1> SUFFICES ASSUME Init PROVE IdInv
  OBVIOUS
<1>1. {c \in Consumers : Past(c)} = {}
  BY DEF Init, Past, Threads
<1>2. next_id["consumer"] = Cardinality({c \in Consumers : Past(c)})
  BY <1>1, FS_EmptySet DEF Init
<1>3. UniqueIds
  BY CountType DEF Init, UniqueIds, Threads
<1> QED BY <1>2, <1>3 DEF Init, IdInv, Past, Kind

\* No two threads of a kind get the same id, and a consumer's id is an index
\* of _Consumers_sems (main.c:83-90, 136-143, 188).
THEOREM IdsUnique == Spec => []UniqueIds
<1>1. IdInv => UniqueIds
  BY DEF IdInv
<1> QED BY <1>1, IdInit, IdStep, TypeCorrect, PTL DEF Spec

-----------------------------------------------------------------------------
(* Tokens.                                                                 *)

\* How a count changes when one of the threads it ranges over starts (is) or
\* stops (was) being counted.
Delta(was, is) == IF is /\ ~was THEN 1 ELSE IF was /\ ~is THEN -1 ELSE 0

ReservedChange(t) == Delta(Reserved(t), Reserved(t)')
OwingChange(t)    == Delta(Owing(t), Owing(t)')

\* Only thread t moves.
OnlyMoves(t) == \A u \in Threads : u # t => pc'[u] = pc[u]

\* The tokens of t's buffer change by dE and dT, what it stores by dS.
TokensMove(t, dE, dT, dS) ==
  /\ \A b \in Buffers : b # BufferOf[t] =>
       /\ empty_slots'[b] = empty_slots[b]
       /\ to_consume'[b] = to_consume[b]
       /\ Stored(b)' = Stored(b)
  /\ empty_slots'[BufferOf[t]] = empty_slots[BufferOf[t]] + dE
  /\ to_consume'[BufferOf[t]] = to_consume[BufferOf[t]] + dT
  /\ Stored(BufferOf[t])' = Stored(BufferOf[t]) + dS

\* What t itself holds makes up for that change.
Balanced(t, dE, dT, dS) ==
  /\ t \in Producers => /\ dE + ReservedChange(t) + dS = 0
                        /\ dT + OwingChange(t) = dS
  /\ t \in Consumers => /\ dE + dS + OwingChange(t) = 0
                        /\ dT + ReservedChange(t) = dS

\* The effect of one element on the cardinality of a finite set.
LEMMA CountOne ==
  ASSUME NEW A, NEW B, NEW x, IsFiniteSet(A),
         \A y : y # x => (y \in A <=> y \in B)
  PROVE  /\ IsFiniteSet(B)
         /\ Cardinality(A) \in Nat /\ Cardinality(B) \in Nat
         /\ Cardinality(B) = Cardinality(A) + Delta(x \in A, x \in B)
<1>1. CASE x \in B
  <2>1. B = A \cup {x}
    BY <1>1
  <2> QED BY <1>1, <2>1, FS_AddElement, FS_CardinalityType DEF Delta
<1>2. CASE x \notin B
  <2>1. B = A \ {x}
    BY <1>2
  <2> QED BY <1>2, <2>1, FS_RemoveElement, FS_CardinalityType DEF Delta
<1> QED BY <1>1, <1>2

\* The four counts are numbers; when t moves, only the counts of its buffer
\* and of its kind change.
LEMMA Counts ==
  ASSUME TypeOK, NEW t \in Threads, NEW b \in Buffers,
         NEW S \in {Producers, Consumers}, OnlyMoves(t)
  PROVE  /\ Cardinality(ReservedAt(b, S)) \in Nat
         /\ Cardinality(OwingAt(b, S)) \in Nat
         /\ t \in S /\ BufferOf[t] = b =>
              /\ Cardinality(ReservedAt(b, S)') =
                   Cardinality(ReservedAt(b, S)) + ReservedChange(t)
              /\ Cardinality(OwingAt(b, S)') =
                   Cardinality(OwingAt(b, S)) + OwingChange(t)
         /\ t \notin S \/ BufferOf[t] # b =>
              /\ Cardinality(ReservedAt(b, S)') = Cardinality(ReservedAt(b, S))
              /\ Cardinality(OwingAt(b, S)') = Cardinality(OwingAt(b, S))
<1>1. IsFiniteSet(S) /\ S \subseteq Threads
  BY ThreadsAssumption DEF Threads
<1>2. IsFiniteSet(ReservedAt(b, S)) /\ IsFiniteSet(OwingAt(b, S))
  BY <1>1, FS_Subset DEF ReservedAt, OwingAt
<1>3. /\ \A y : y # t => (y \in ReservedAt(b, S) <=> y \in ReservedAt(b, S)')
      /\ \A y : y # t => (y \in OwingAt(b, S) <=> y \in OwingAt(b, S)')
  BY <1>1 DEF OnlyMoves, ReservedAt, OwingAt, Reserved, Owing
<1>4. /\ Cardinality(ReservedAt(b, S)) \in Nat
      /\ Cardinality(ReservedAt(b, S)') = Cardinality(ReservedAt(b, S)) +
           Delta(t \in ReservedAt(b, S), t \in ReservedAt(b, S)')
  BY <1>2, <1>3, CountOne
<1>5. /\ Cardinality(OwingAt(b, S)) \in Nat
      /\ Cardinality(OwingAt(b, S)') = Cardinality(OwingAt(b, S)) +
           Delta(t \in OwingAt(b, S), t \in OwingAt(b, S)')
  BY <1>2, <1>3, CountOne
<1>6. CASE t \in S /\ BufferOf[t] = b
  <2>1. /\ t \in ReservedAt(b, S) <=> Reserved(t)
        /\ t \in ReservedAt(b, S)' <=> Reserved(t)'
        /\ t \in OwingAt(b, S) <=> Owing(t)
        /\ t \in OwingAt(b, S)' <=> Owing(t)'
    BY <1>6 DEF ReservedAt, OwingAt
  <2> QED BY <1>4, <1>5, <1>6, <2>1 DEF ReservedChange, OwingChange, Delta
<1>7. CASE t \notin S \/ BufferOf[t] # b
  <2>1. /\ t \notin ReservedAt(b, S) /\ t \notin ReservedAt(b, S)'
        /\ t \notin OwingAt(b, S) /\ t \notin OwingAt(b, S)'
    BY <1>7 DEF ReservedAt, OwingAt
  <2> QED BY <1>4, <1>5, <1>7, <2>1 DEF Delta
<1> QED BY <1>4, <1>5, <1>6, <1>7

\* The sum of the account of products.
LEMMA ProductSums ==
  ASSUME NEW e \in Int, NEW s \in Int, NEW w \in Int, NEW o \in Int,
         NEW de \in Int, NEW ds \in Int, NEW dx \in Int,
         e + w + o = s, de + dx = ds
  PROVE  /\ (e + de) + (w + dx) + o = s + ds
         /\ (e + de) + w + (o + dx) = s + ds
  OBVIOUS

\* The sum of the account of slots.
LEMMA SlotSums ==
  ASSUME NEW e \in Int, NEW s \in Int, NEW w \in Int, NEW o \in Int,
         NEW de \in Int, NEW ds \in Int, NEW dx \in Int,
         e + w + s + o = BufferSize, de + dx + ds = 0
  PROVE  /\ (e + de) + (w + dx) + (s + ds) + o = BufferSize
         /\ (e + de) + w + (s + ds) + (o + dx) = BufferSize
  BY LimitsAssumption

\* A step of t keeps the accounts if t's own holding balances it.
LEMMA Balance ==
  ASSUME TypeOK, TokenAccounting, NEW t \in Threads, OnlyMoves(t),
         NEW dE \in Int, NEW dT \in Int, NEW dS \in Int,
         TokensMove(t, dE, dT, dS), Balanced(t, dE, dT, dS)
  PROVE  TokenAccounting'
<1> SUFFICES ASSUME NEW b \in Buffers
             PROVE  /\ empty_slots'[b] + Cardinality(ReservedAt(b, Producers)')
                         + Stored(b)' + Cardinality(OwingAt(b, Consumers)') = BufferSize
                    /\ to_consume'[b] + Cardinality(ReservedAt(b, Consumers)')
                         + Cardinality(OwingAt(b, Producers)') = Stored(b)'
  BY DEF TokenAccounting
<1> DEFINE rP == Cardinality(ReservedAt(b, Producers))
           rC == Cardinality(ReservedAt(b, Consumers))
           oP == Cardinality(OwingAt(b, Producers))
           oC == Cardinality(OwingAt(b, Consumers))
           rPn == Cardinality(ReservedAt(b, Producers)')
           rCn == Cardinality(ReservedAt(b, Consumers)')
           oPn == Cardinality(OwingAt(b, Producers)')
           oCn == Cardinality(OwingAt(b, Consumers)')
           r  == ReservedChange(t)
           o  == OwingChange(t)
<1>1. rP \in Nat /\ rC \in Nat /\ oP \in Nat /\ oC \in Nat
  BY Counts
<1>2. r \in Int /\ o \in Int
  BY DEF ReservedChange, OwingChange, Delta
<1>3. empty_slots[b] \in Nat /\ to_consume[b] \in Nat /\ Stored(b) \in Int
  BY LimitsAssumption DEF TypeOK, Stored
<1>4. /\ empty_slots[b] + rP + Stored(b) + oC = BufferSize
      /\ to_consume[b] + rC + oP = Stored(b)
  BY DEF TokenAccounting
<1>5. CASE BufferOf[t] # b
  <2>1. rPn = rP /\ rCn = rC /\ oPn = oP /\ oCn = oC
    BY <1>5, Counts
  <2>2. /\ empty_slots'[b] = empty_slots[b]
        /\ to_consume'[b] = to_consume[b]
        /\ Stored(b)' = Stored(b)
    BY <1>5 DEF TokensMove
  <2> QED BY <1>4, <2>1, <2>2
<1>6. CASE BufferOf[t] = b
  <2>1. /\ empty_slots'[b] = empty_slots[b] + dE
        /\ to_consume'[b] = to_consume[b] + dT
        /\ Stored(b)' = Stored(b) + dS
    BY <1>6 DEF TokensMove
  <2>2. CASE t \in Producers
    <3>1. t \notin Consumers
      BY <2>2, ThreadsAssumption
    <3>2. rPn = rP + r /\ oPn = oP + o /\ rCn = rC /\ oCn = oC
      BY <1>6, <2>2, <3>1, Counts
    <3>3. dE + r + dS = 0 /\ dT + o = dS
      BY <2>2 DEF Balanced
    <3> HIDE DEF rP, rC, oP, oC, rPn, rCn, oPn, oCn, r, o
    <3>4. empty_slots'[b] + rPn + Stored(b)' + oCn = BufferSize
      <4>1. (empty_slots[b] + dE) + (rP + r) + (Stored(b) + dS) + oC = BufferSize
        BY <1>1, <1>2, <1>3, <1>4, <3>3, SlotSums
      <4> QED BY <2>1, <3>2, <4>1
    <3>5. to_consume'[b] + rCn + oPn = Stored(b)'
      <4>1. (to_consume[b] + dT) + rC + (oP + o) = Stored(b) + dS
        BY <1>1, <1>2, <1>3, <1>4, <3>3, ProductSums
      <4> QED BY <2>1, <3>2, <4>1
    <3> QED BY <3>4, <3>5 DEF rPn, rCn, oPn, oCn
  <2>3. CASE t \in Consumers
    <3>1. t \notin Producers
      BY <2>3, ThreadsAssumption
    <3>2. rPn = rP /\ oPn = oP /\ rCn = rC + r /\ oCn = oC + o
      BY <1>6, <2>3, <3>1, Counts
    <3>3. dE + dS + o = 0 /\ dT + r = dS
      BY <2>3 DEF Balanced
    <3> HIDE DEF rP, rC, oP, oC, rPn, rCn, oPn, oCn, r, o
    <3>4. empty_slots'[b] + rPn + Stored(b)' + oCn = BufferSize
      <4>1. (empty_slots[b] + dE) + rP + (Stored(b) + dS) + (oC + o) = BufferSize
        BY <1>1, <1>2, <1>3, <1>4, <3>3, SlotSums
      <4> QED BY <2>1, <3>2, <4>1
    <3>5. to_consume'[b] + rCn + oPn = Stored(b)'
      <4>1. (to_consume[b] + dT) + (rC + r) + oP = Stored(b) + dS
        <5>1. /\ to_consume[b] \in Int /\ Stored(b) \in Int
              /\ rC \in Int /\ oP \in Int /\ r \in Int
          BY <1>1, <1>2, <1>3
        <5>2. to_consume[b] + rC + oP = Stored(b) /\ dT + r = dS
          BY <1>4, <3>3
        <5> QED BY <5>1, <5>2, ProductSums
      <4> QED BY <2>1, <3>2, <4>1
    <3> QED BY <3>4, <3>5 DEF rPn, rCn, oPn, oCn
  <2> QED BY <2>2, <2>3 DEF Threads
<1> QED BY <1>5, <1>6

\* The steps that touch neither tokens nor products.
MoveOnly(t) ==
  \/ TakeId(t) \/ LeaveId(t) \/ Loop(t) \/ Enter(t) \/ FindLimit(t)
  \/ StartPrint(t) \/ EndPrint(t) \/ Leave(t) \/ EnterCount(t) \/ CountDown(t)
  \/ WakeNext(t) \/ StartRound(t) \/ LeaveCount(t) \/ WaitRound(t)

\* They leave the tokens, the contents and the holdings alone.
LEMMA KeepTokens ==
  ASSUME TypeOK, NEW t \in Threads, MoveOnly(t)
  PROVE  /\ UNCHANGED <<produced, consumed, tokenVars>>
         /\ OnlyMoves(t)
         /\ Reserved(t)' <=> Reserved(t)
         /\ Owing(t)' <=> Owing(t)
<1> USE DEF TypeOK, Goto, OnlyMoves, Reserved, Owing, bufferVars, tokenVars
<1>1. CASE TakeId(t) BY <1>1 DEF TakeId
<1>2. CASE LeaveId(t) BY <1>2 DEF LeaveId
<1>3. CASE Loop(t) BY <1>3 DEF Loop
<1>4. CASE Enter(t) BY <1>4 DEF Enter
<1>5. CASE FindLimit(t) BY <1>5 DEF FindLimit
<1>6. CASE StartPrint(t) BY <1>6 DEF StartPrint
<1>7. CASE EndPrint(t) BY <1>7 DEF EndPrint
<1>8. CASE Leave(t) BY <1>8 DEF Leave
<1>9. CASE EnterCount(t) BY <1>9 DEF EnterCount
<1>10. CASE CountDown(t) BY <1>10 DEF CountDown
<1>11. CASE WakeNext(t) BY <1>11 DEF WakeNext
<1>12. CASE StartRound(t) BY <1>12 DEF StartRound
<1>13. CASE LeaveCount(t) BY <1>13 DEF LeaveCount
<1>14. CASE WaitRound(t) BY <1>14 DEF WaitRound
<1> QED BY <1>1, <1>2, <1>3, <1>4, <1>5, <1>6, <1>7, <1>8, <1>9,
          <1>10, <1>11, <1>12, <1>13, <1>14
       DEF MoveOnly

\* Every step keeps the accounts of every buffer.
LEMMA TokenStep == TypeOK /\ TokenAccounting /\ [Next]_vars => TokenAccounting'
<1> SUFFICES ASSUME TypeOK, TokenAccounting, [Next]_vars
             PROVE  TokenAccounting'
  OBVIOUS
<1>0. /\ empty_slots \in [Buffers -> Nat] /\ to_consume \in [Buffers -> Nat]
      /\ produced \in [Buffers -> Nat] /\ consumed \in [Buffers -> Nat]
      /\ \A b \in Buffers : Stored(b) \in Int
  BY LimitsAssumption DEF TypeOK, Stored
<1>1. ASSUME NEW p \in Producers, ReserveSlot(p) PROVE TokenAccounting'
  <2>1. p \in Threads /\ p \notin Consumers /\ BufferOf[p] \in Buffers
    BY BufferType, ThreadsAssumption DEF Threads
  <2>2. /\ OnlyMoves(p)
        /\ ~Reserved(p) /\ Reserved(p)'
        /\ ~Owing(p) /\ ~Owing(p)'
    BY <1>1, <2>1 DEF ReserveSlot, Goto, OnlyMoves, Reserved, Owing, TypeOK
  <2>3. TokensMove(p, -1, 0, 0)
    BY <1>0, <1>1, <2>1 DEF ReserveSlot, SemWait, TokensMove, Stored, bufferVars, tokenVars
  <2>4. Balanced(p, -1, 0, 0)
    BY <2>1, <2>2 DEF Balanced, ReservedChange, OwingChange, Delta
  <2> QED BY <2>1, <2>2, <2>3, <2>4, Balance
<1>2. ASSUME NEW p \in Producers, Put(p) PROVE TokenAccounting'
  <2>1. p \in Threads /\ p \notin Consumers /\ BufferOf[p] \in Buffers
    BY BufferType, ThreadsAssumption DEF Threads
  <2>2. /\ OnlyMoves(p)
        /\ Reserved(p) /\ ~Reserved(p)'
        /\ ~Owing(p) /\ Owing(p)'
    BY <1>2, <2>1 DEF Put, Goto, OnlyMoves, Reserved, Owing, TypeOK
  <2>3. TokensMove(p, 0, 0, 1)
    BY <1>0, <1>2, <2>1 DEF Put, TokensMove, Stored, bufferVars, tokenVars
  <2>4. Balanced(p, 0, 0, 1)
    BY <2>1, <2>2 DEF Balanced, ReservedChange, OwingChange, Delta
  <2> QED BY <2>1, <2>2, <2>3, <2>4, Balance
<1>3. ASSUME NEW p \in Producers, PostToConsume(p) PROVE TokenAccounting'
  <2>1. p \in Threads /\ p \notin Consumers /\ BufferOf[p] \in Buffers
    BY BufferType, ThreadsAssumption DEF Threads
  <2>2. /\ OnlyMoves(p)
        /\ ~Reserved(p) /\ ~Reserved(p)'
        /\ Owing(p) /\ ~Owing(p)'
    BY <1>3, <2>1 DEF PostToConsume, Goto, OnlyMoves, Reserved, Owing, TypeOK
  <2>3. TokensMove(p, 0, 1, 0)
    BY <1>0, <1>3, <2>1 DEF PostToConsume, SemPost, TokensMove, Stored, bufferVars, tokenVars
  <2>4. Balanced(p, 0, 1, 0)
    BY <2>1, <2>2 DEF Balanced, ReservedChange, OwingChange, Delta
  <2> QED BY <2>1, <2>2, <2>3, <2>4, Balance
<1>4. ASSUME NEW p \in Producers, PostEmptySlots(p) PROVE TokenAccounting'
  <2>1. p \in Threads /\ p \notin Consumers /\ BufferOf[p] \in Buffers
    BY BufferType, ThreadsAssumption DEF Threads
  <2>2. /\ OnlyMoves(p)
        /\ Reserved(p) /\ ~Reserved(p)'
        /\ ~Owing(p) /\ ~Owing(p)'
    BY <1>4, <2>1 DEF PostEmptySlots, Goto, OnlyMoves, Reserved, Owing, TypeOK
  <2>3. TokensMove(p, 1, 0, 0)
    BY <1>0, <1>4, <2>1 DEF PostEmptySlots, SemPost, TokensMove, Stored, bufferVars, tokenVars
  <2>4. Balanced(p, 1, 0, 0)
    BY <2>1, <2>2 DEF Balanced, ReservedChange, OwingChange, Delta
  <2> QED BY <2>1, <2>2, <2>3, <2>4, Balance
<1>5. ASSUME NEW c \in Consumers, ReserveProduct(c) PROVE TokenAccounting'
  <2>1. c \in Threads /\ c \notin Producers /\ BufferOf[c] \in Buffers
    BY BufferType, ThreadsAssumption DEF Threads
  <2>2. /\ OnlyMoves(c)
        /\ ~Reserved(c) /\ Reserved(c)'
        /\ ~Owing(c) /\ ~Owing(c)'
    BY <1>5, <2>1 DEF ReserveProduct, Goto, OnlyMoves, Reserved, Owing, TypeOK
  <2>3. TokensMove(c, 0, -1, 0)
    BY <1>0, <1>5, <2>1 DEF ReserveProduct, SemWait, TokensMove, Stored, bufferVars, tokenVars
  <2>4. Balanced(c, 0, -1, 0)
    BY <2>1, <2>2 DEF Balanced, ReservedChange, OwingChange, Delta
  <2> QED BY <2>1, <2>2, <2>3, <2>4, Balance
<1>6. ASSUME NEW c \in Consumers, Take(c) PROVE TokenAccounting'
  <2>1. c \in Threads /\ c \notin Producers /\ BufferOf[c] \in Buffers
    BY BufferType, ThreadsAssumption DEF Threads
  <2>2. /\ OnlyMoves(c)
        /\ Reserved(c) /\ ~Reserved(c)'
        /\ ~Owing(c) /\ Owing(c)'
    BY <1>6, <2>1 DEF Take, Goto, OnlyMoves, Reserved, Owing, TypeOK
  <2>3. TokensMove(c, 0, 0, -1)
    BY <1>0, <1>6, <2>1 DEF Take, TokensMove, Stored, bufferVars, tokenVars
  <2>4. Balanced(c, 0, 0, -1)
    BY <2>1, <2>2 DEF Balanced, ReservedChange, OwingChange, Delta
  <2> QED BY <2>1, <2>2, <2>3, <2>4, Balance
<1>7. ASSUME NEW c \in Consumers, PostToConsume(c) PROVE TokenAccounting'
  <2>1. c \in Threads /\ c \notin Producers /\ BufferOf[c] \in Buffers
    BY BufferType, ThreadsAssumption DEF Threads
  <2>2. /\ OnlyMoves(c)
        /\ Reserved(c) /\ ~Reserved(c)'
        /\ ~Owing(c) /\ ~Owing(c)'
    BY <1>7, <2>1 DEF PostToConsume, Goto, OnlyMoves, Reserved, Owing, TypeOK
  <2>3. TokensMove(c, 0, 1, 0)
    BY <1>0, <1>7, <2>1 DEF PostToConsume, SemPost, TokensMove, Stored, bufferVars, tokenVars
  <2>4. Balanced(c, 0, 1, 0)
    BY <2>1, <2>2 DEF Balanced, ReservedChange, OwingChange, Delta
  <2> QED BY <2>1, <2>2, <2>3, <2>4, Balance
<1>8. ASSUME NEW c \in Consumers, PostEmptySlots(c) PROVE TokenAccounting'
  <2>1. c \in Threads /\ c \notin Producers /\ BufferOf[c] \in Buffers
    BY BufferType, ThreadsAssumption DEF Threads
  <2>2. /\ OnlyMoves(c)
        /\ ~Reserved(c) /\ ~Reserved(c)'
        /\ Owing(c) /\ ~Owing(c)'
    BY <1>8, <2>1 DEF PostEmptySlots, Goto, OnlyMoves, Reserved, Owing, TypeOK
  <2>3. TokensMove(c, 1, 0, 0)
    BY <1>0, <1>8, <2>1 DEF PostEmptySlots, SemPost, TokensMove, Stored, bufferVars, tokenVars
  <2>4. Balanced(c, 1, 0, 0)
    BY <2>1, <2>2 DEF Balanced, ReservedChange, OwingChange, Delta
  <2> QED BY <2>1, <2>2, <2>3, <2>4, Balance
<1>9. ASSUME NEW t \in Threads, MoveOnly(t) PROVE TokenAccounting'
  <2>1. /\ UNCHANGED <<produced, consumed, to_consume, empty_slots>>
        /\ OnlyMoves(t)
        /\ Reserved(t)' <=> Reserved(t)
        /\ Owing(t)' <=> Owing(t)
    BY <1>9, KeepTokens DEF tokenVars
  <2>2. TokensMove(t, 0, 0, 0)
    BY <1>0, <2>1, BufferType DEF TokensMove, Stored
  <2>3. Balanced(t, 0, 0, 0)
    BY <2>1 DEF Balanced, ReservedChange, OwingChange, Delta
  <2> QED BY <2>1, <2>2, <2>3, Balance
<1>10. CASE JoinAll \/ UNCHANGED vars
  <2>1. UNCHANGED <<pc, produced, consumed, to_consume, empty_slots>>
    BY <1>10 DEF JoinAll, vars, bufferVars, tokenVars
  <2> QED BY <2>1
          DEF TokenAccounting, ReservedAt, OwingAt, Reserved, Owing, Stored
<1>11. CASE \E t \in Threads : Shared(t)
  BY <1>3, <1>4, <1>7, <1>8, <1>9, <1>11 DEF Shared, MoveOnly, Threads
<1>12. CASE \E p \in Producers : Producer(p)
  BY <1>1, <1>2, <1>12 DEF Producer
<1>13. CASE \E c \in Consumers : Consumer(c)
  BY <1>5, <1>6, <1>9, <1>13 DEF Consumer, MoveOnly, Threads
<1> QED BY <1>10, <1>11, <1>12, <1>13 DEF Next, Exited

\* No early return loses or duplicates a token of a buffer: every slot and
\* every product is accounted for at any time (main.c:99-104, 117, 150-155, 169).
THEOREM TokensAccounted == Spec => []TokenAccounting
<1>1. Init => TokenAccounting
  <2> SUFFICES ASSUME Init, NEW b \in Buffers
               PROVE  /\ empty_slots[b] + Cardinality(ReservedAt(b, Producers))
                           + Stored(b) + Cardinality(OwingAt(b, Consumers)) = BufferSize
                      /\ to_consume[b] + Cardinality(ReservedAt(b, Consumers))
                           + Cardinality(OwingAt(b, Producers)) = Stored(b)
    BY DEF TokenAccounting
  <2>1. \A S \in {Producers, Consumers} : ReservedAt(b, S) = {} /\ OwingAt(b, S) = {}
    BY DEF Init, ReservedAt, OwingAt, Reserved, Owing, Threads
  <2>2. /\ Cardinality(ReservedAt(b, Producers)) = 0
        /\ Cardinality(ReservedAt(b, Consumers)) = 0
        /\ Cardinality(OwingAt(b, Producers)) = 0
        /\ Cardinality(OwingAt(b, Consumers)) = 0
    BY <2>1, FS_EmptySet
  <2>3. empty_slots[b] = BufferSize /\ to_consume[b] = 0 /\ Stored(b) = 0
    BY DEF Init, Stored
  <2> QED BY <2>2, <2>3, LimitsAssumption
<1> QED BY <1>1, TokenStep, TypeCorrect, PTL DEF Spec

\* A consumer that was given a token finds a product, so the early return of
\* consumer() is never taken (main.c:147-155).
THEOREM TokenFindsProduct == Spec => []TokenMeansProduct
<1>1. ASSUME TypeOK, TokenAccounting PROVE TokenMeansProduct
  <2> SUFFICES ASSUME NEW c \in Consumers, pc[c] = "inside"
               PROVE  Stored(BufferOf[c]) > 0
    BY DEF TokenMeansProduct
  <2> DEFINE b == BufferOf[c]
  <2>1. c \in ReservedAt(b, Consumers) /\ b \in Buffers
    BY BufferType DEF ReservedAt, Reserved, Threads
  <2>2. /\ IsFiniteSet(ReservedAt(b, Consumers))
        /\ IsFiniteSet(OwingAt(b, Producers))
    BY FS_Subset, ThreadsAssumption DEF ReservedAt, OwingAt
  <2>3. /\ Cardinality(ReservedAt(b, Consumers)) \in Nat \ {0}
        /\ Cardinality(OwingAt(b, Producers)) \in Nat
    BY <2>1, <2>2, FS_CardinalityType, FS_EmptySet
  <2>4. to_consume[b] \in Nat
    BY <1>1, <2>1 DEF TypeOK
  <2>5. to_consume[b] + Cardinality(ReservedAt(b, Consumers))
          + Cardinality(OwingAt(b, Producers)) = Stored(b)
    BY <1>1, <2>1 DEF TokenAccounting
  <2> QED BY <2>3, <2>4, <2>5
<1> QED BY <1>1, TypeCorrect, TokensAccounted, PTL

-----------------------------------------------------------------------------
(* Rounds.                                                                 *)

\* c is between its sem_wait and its sem_post of the semaphore of
\* _Consumers_left.
Counting(c) == pc[c] \in {"counting", "reset", "counted"}

\* c has counted itself and will wait, or waits, for its own semaphore.
Counted(c) == pc[c] \in {"counted", "wait_round"}

\* A round is over and reset_consumer_sems() runs.
Resetting == \E c \in Consumers : pc[c] = "reset"

\* c has counted itself in a round that is not over.
Arrived(c) == Counted(c) /\ consumers_sems[id[c]] = 0 /\ ~Resetting

\* c has taken the product of this round.
TakenLabels == {"print", "printing", "leave", "publish", "count", "counting"}
Ahead(c)    == pc[c] \in TakenLabels \/ Arrived(c)

\* One consumer at a time counts itself or resets the semaphores.
CountMutex ==
  /\ left_sem \in {0, 1}
  /\ \A c \in Consumers : Counting(c) => left_sem = 0
  /\ \A c, d \in Consumers : Counting(c) /\ Counting(d) => c = d

\* A consumer has its semaphore to itself; the semaphore has at most one
\* token, and only while the consumer has not used it to leave the round; and
\* no round is over before every consumer has its id.
SemsInv ==
  /\ \A c \in Consumers : pc[c] # "start" => id[c] \in 0..ConsumerCount-1
  /\ \A c \in Consumers : Past(c) =>
       /\ consumers_sems[id[c]] \in {0, 1}
       /\ consumers_sems[id[c]] = 1 => pc[c] = "reset" \/ Counted(c)
  /\ \A c \in Consumers : ~Past(c) =>
       \A k \in 0..ConsumerCount-1 : consumers_sems[k] = 0
  /\ \A c \in Consumers : pc[c] # "reset" => i[c] = 0

\* While d wakes the consumers up: the ones with an id below i[d] have their
\* token or have used it, the others wait without one.
ResetInv ==
  \A d \in Consumers : pc[d] = "reset" =>
    \A c \in Consumers :
      /\ Past(c)
      /\ pc[c] \in {"reset", "wait_round"} =>
           (consumers_sems[id[c]] = 1 <=> id[c] < i[d])
      /\ id[c] >= i[d] => pc[c] \in {"reset", "wait_round"}

\* _Consumers_left is the number of consumers the round still waits for.
LeftInv ==
  ~Resetting =>
    consumers_left = ConsumerCount - Cardinality({c \in Consumers : Arrived(c)})

\* Round r: who has taken its product has r + 1, the others r.
Round(r) ==
  \A c \in Consumers :
    consumer_consumed[c] = r + (IF Ahead(c) THEN 1 ELSE 0)

RoundInv ==
  CountMutex /\ SemsInv /\ ResetInv /\ LeftInv /\ \E r \in Int : Round(r)

\* The steps that take no part in the counting.
Quiet(t) ==
  \/ TakeId(t) \/ LeaveId(t) \/ Loop(t) \/ Enter(t) \/ FindLimit(t)
  \/ StartPrint(t) \/ EndPrint(t) \/ Leave(t)
  \/ PostToConsume(t) \/ PostEmptySlots(t)
  \/ t \in Producers /\ Producer(t)
  \/ t \in Consumers /\ ReserveProduct(t)

\* They change none of the variables of the rounds, and no consumer's place
\* in its round.
LEMMA QuietPlaces ==
  ASSUME TypeOK, NEW t \in Threads, Quiet(t)
  PROVE  /\ UNCHANGED <<consumers_left, left_sem, consumers_sems, i, consumer_consumed>>
         /\ \A c \in Consumers :
              /\ pc'[c] \in TakenLabels <=> pc[c] \in TakenLabels
              /\ \A l \in {"counting", "reset", "counted", "wait_round"} :
                   pc'[c] = l <=> pc[c] = l
<1> USE ThreadsAssumption
    DEF TypeOK, Goto, TakenLabels, roundVars, localVars, Threads
<1>1. CASE TakeId(t) BY <1>1 DEF TakeId
<1>2. CASE LeaveId(t) BY <1>2 DEF LeaveId
<1>3. CASE Loop(t) BY <1>3 DEF Loop
<1>4. CASE Enter(t) BY <1>4 DEF Enter
<1>5. CASE FindLimit(t) BY <1>5 DEF FindLimit
<1>6. CASE StartPrint(t) BY <1>6 DEF StartPrint
<1>7. CASE EndPrint(t) BY <1>7 DEF EndPrint
<1>8. CASE Leave(t) BY <1>8 DEF Leave
<1>9. CASE PostToConsume(t) BY <1>9 DEF PostToConsume
<1>10. CASE PostEmptySlots(t) BY <1>10 DEF PostEmptySlots
<1>11. CASE t \in Producers /\ ReserveSlot(t) BY <1>11 DEF ReserveSlot
<1>12. CASE t \in Producers /\ Put(t) BY <1>12 DEF Put
<1>13. CASE t \in Consumers /\ ReserveProduct(t) BY <1>13 DEF ReserveProduct
<1> QED BY <1>1, <1>2, <1>3, <1>4, <1>5, <1>6, <1>7, <1>8, <1>9, <1>10,
          <1>11, <1>12, <1>13
       DEF Quiet, Producer

\* They leave the ids alone, except that a thread may get its own.
LEMMA QuietIds ==
  ASSUME TypeOK, IdInv, SemsInv, NEW t \in Threads, Quiet(t),
         NEW c \in Consumers
  PROVE  /\ Past(c) => Past(c)' /\ id'[c] = id[c]
         /\ pc'[c] # "start" => id'[c] \in 0..ConsumerCount-1
<1>0. c \in Threads /\ Kind(c) = "consumer"
  BY ThreadsAssumption DEF Threads, Kind
<1>1. CASE TakeId(t)
  <2>1. /\ pc[t] = "start" /\ pc' = [pc EXCEPT ![t] = "numbered"]
        /\ id' = [id EXCEPT ![t] = next_id[Kind(t)]]
    BY <1>1 DEF TakeId, Goto
  <2>2. CASE c = t
    <3>1. IdInv'
      BY <1>1, IdStep DEF Next, Shared
    <3>2. id'[c] < ConsumerCount
      BY <3>1 DEF IdInv, UniqueIds
    <3>3. id'[c] = next_id["consumer"] /\ next_id["consumer"] \in Nat
      BY <1>0, <2>1, <2>2 DEF TypeOK
    <3> QED BY <2>1, <2>2, <3>2, <3>3, CountType DEF Past
  <2>3. CASE c # t
    BY <1>0, <2>1, <2>3 DEF TypeOK, SemsInv, Past
  <2> QED BY <2>2, <2>3
<1>2. CASE LeaveId(t)
  <2>1. /\ pc[t] = "numbered" /\ pc' = [pc EXCEPT ![t] = "loop"]
        /\ id' = id
    BY <1>2 DEF LeaveId, Goto
  <2> QED BY <1>0, <2>1 DEF TypeOK, SemsInv, Past
<1>3. CASE ~TakeId(t) /\ ~LeaveId(t)
  <2>1. Shared(t) \/ Producer(t) \/ Consumer(t)
    BY DEF Quiet, Shared, Consumer
  <2>2. /\ id' = id
        /\ pc'[c] = "start" <=> pc[c] = "start"
        /\ pc'[c] = "numbered" <=> pc[c] = "numbered"
    BY <1>0, <1>3, <2>1, KeepIds
  <2> QED BY <2>2 DEF SemsInv, Past
<1> QED BY <1>1, <1>2, <1>3

\* So they keep the invariant of the rounds.
LEMMA QuietStep ==
  ASSUME TypeOK, IdInv, RoundInv, NEW t \in Threads, Quiet(t)
  PROVE  RoundInv'
<1>1. /\ UNCHANGED <<consumers_left, left_sem, consumers_sems, i, consumer_consumed>>
      /\ \A c \in Consumers :
           /\ pc'[c] \in TakenLabels <=> pc[c] \in TakenLabels
           /\ \A l \in {"counting", "reset", "counted", "wait_round"} :
                pc'[c] = l <=> pc[c] = l
  BY QuietPlaces
<1>2. \A c \in Consumers :
        /\ Past(c) => Past(c)' /\ id'[c] = id[c]
        /\ pc'[c] # "start" => id'[c] \in 0..ConsumerCount-1
  BY QuietIds DEF RoundInv
<1>3. \A c \in Consumers :
        /\ Counted(c)' <=> Counted(c)
        /\ Counting(c)' <=> Counting(c)
        /\ Counted(c) \/ pc[c] = "reset" => Past(c)
  BY <1>1 DEF Counted, Counting, Past
<1>4. Resetting' <=> Resetting
  BY <1>1 DEF Resetting
<1>5. \A c \in Consumers : Arrived(c)' <=> Arrived(c)
  BY <1>1, <1>2, <1>3, <1>4 DEF Arrived
<1>6. CountMutex'
  BY <1>1, <1>3 DEF RoundInv, CountMutex
<1>7. SemsInv'
  <2>1. \A c \in Consumers : Past(c)' =>
          /\ consumers_sems'[id'[c]] \in {0, 1}
          /\ consumers_sems'[id'[c]] = 1 => pc'[c] = "reset" \/ Counted(c)'
    <3> SUFFICES ASSUME NEW c \in Consumers, Past(c)'
                 PROVE  /\ consumers_sems'[id'[c]] \in {0, 1}
                        /\ consumers_sems'[id'[c]] = 1 => pc'[c] = "reset" \/ Counted(c)'
      OBVIOUS
    <3>1. CASE Past(c)
      BY <1>1, <1>2, <1>3, <3>1 DEF RoundInv, SemsInv
    <3>2. CASE ~Past(c)
      <4>1. id'[c] \in 0..ConsumerCount-1
        BY <1>2 DEF Past
      <4> QED BY <1>1, <3>2, <4>1 DEF RoundInv, SemsInv
    <3> QED BY <3>1, <3>2
  <2> QED BY <1>1, <1>2, <2>1 DEF RoundInv, SemsInv
<1>8. ResetInv'
  BY <1>1, <1>2 DEF RoundInv, ResetInv
<1>9. LeftInv'
  <2>1. {c \in Consumers : Arrived(c)}' = {c \in Consumers : Arrived(c)}
    BY <1>5
  <2> QED BY <1>1, <1>4, <2>1 DEF RoundInv, LeftInv
<1>10. \A r \in Int : Round(r) => Round(r)'
  BY <1>1, <1>5 DEF Round, Ahead
<1> QED BY <1>6, <1>7, <1>8, <1>9, <1>10 DEF RoundInv

\* What follows for every step of a consumer in the counting: only it moves,
\* and it has its id.
LEMMA CountingMoves ==
  ASSUME TypeOK, SemsInv, NEW c \in Consumers, NEW from, NEW to, Goto(c, from, to),
         from \notin {"start", "numbered"}, to \notin {"start", "numbered"}
  PROVE  /\ pc[c] = from /\ pc'[c] = to
         /\ \A d \in Consumers : d # c => pc'[d] = pc[d]
         /\ \A d \in Consumers : pc'[d] = "start" <=> pc[d] = "start"
         /\ \A d \in Consumers : Past(d)' <=> Past(d)
         /\ Past(c) /\ id[c] \in 0..ConsumerCount-1
BY DEF TypeOK, Goto, Threads, Past, SemsInv

\* A consumer that takes its product is ahead of the others.
LEMMA TakeRound ==
  ASSUME TypeOK, RoundInv, NEW c \in Consumers, Take(c)
  PROVE  RoundInv'
<1>1. /\ Goto(c, "inside", "print")
      /\ UNCHANGED <<consumers_left, left_sem, consumers_sems, i, id>>
      /\ consumer_consumed' = [consumer_consumed EXCEPT ![c] = @ + 1]
  BY DEF Take, idVars, roundVars
<1>2. /\ pc[c] = "inside" /\ pc'[c] = "print"
      /\ \A d \in Consumers : d # c => pc'[d] = pc[d]
      /\ \A d \in Consumers : pc'[d] = "start" <=> pc[d] = "start"
      /\ \A d \in Consumers : Past(d)' <=> Past(d)
  BY <1>1, CountingMoves DEF RoundInv
<1>3. Resetting' <=> Resetting
  BY <1>2 DEF Resetting
<1>4. \A d \in Consumers : /\ Counted(d)' <=> Counted(d)
                           /\ Counting(d)' <=> Counting(d)
                           /\ pc'[d] = "reset" <=> pc[d] = "reset"
                           /\ pc'[d] = "wait_round" <=> pc[d] = "wait_round"
  BY <1>2 DEF Counted, Counting
<1>5. \A d \in Consumers : Arrived(d)' <=> Arrived(d)
  BY <1>1, <1>3, <1>4 DEF Arrived
<1>6. CountMutex' /\ SemsInv'
  BY <1>1, <1>2, <1>4 DEF RoundInv, CountMutex, SemsInv
<1>7. ResetInv'
  BY <1>1, <1>2, <1>4 DEF RoundInv, ResetInv
<1>8. LeftInv'
  <2>1. {d \in Consumers : Arrived(d)}' = {d \in Consumers : Arrived(d)}
    BY <1>5
  <2> QED BY <1>1, <1>3, <2>1 DEF RoundInv, LeftInv
<1>9. ASSUME NEW r \in Int, Round(r) PROVE Round(r)'
  <2>1. ~Ahead(c) /\ Ahead(c)'
    BY <1>2 DEF Ahead, TakenLabels, Arrived, Counted
  <2>2. \A d \in Consumers : d # c => (Ahead(d)' <=> Ahead(d))
    BY <1>2, <1>5 DEF Ahead
  <2>3. consumer_consumed \in [Consumers -> Nat]
    BY DEF TypeOK
  <2> QED BY <1>1, <1>9, <2>1, <2>2, <2>3 DEF Round
<1> QED BY <1>6, <1>7, <1>8, <1>9 DEF RoundInv

\* sem_wait of the semaphore of _Consumers_left.
LEMMA EnterCountRound ==
  ASSUME TypeOK, RoundInv, NEW c \in Consumers, EnterCount(c)
  PROVE  RoundInv'
<1>1. /\ Goto(c, "count", "counting")
      /\ UNCHANGED <<consumers_left, consumers_sems, i, id, consumer_consumed>>
      /\ left_sem > 0 /\ left_sem' = left_sem - 1
  BY DEF EnterCount, idVars, localVars
<1>2. /\ pc[c] = "count" /\ pc'[c] = "counting"
      /\ \A d \in Consumers : d # c => pc'[d] = pc[d]
      /\ \A d \in Consumers : pc'[d] = "start" <=> pc[d] = "start"
      /\ \A d \in Consumers : Past(d)' <=> Past(d)
  BY <1>1, CountingMoves DEF RoundInv
<1>3. Resetting' <=> Resetting
  BY <1>2 DEF Resetting
<1>4. \A d \in Consumers : /\ Counted(d)' <=> Counted(d)
                           /\ pc'[d] = "reset" <=> pc[d] = "reset"
                           /\ pc'[d] = "wait_round" <=> pc[d] = "wait_round"
  BY <1>2 DEF Counted
<1>5. \A d \in Consumers : Arrived(d)' <=> Arrived(d)
  BY <1>1, <1>3, <1>4 DEF Arrived
<1>6. CountMutex'
  <2>1. left_sem = 1 /\ left_sem' = 0
    BY <1>1 DEF RoundInv, CountMutex
  <2>2. \A d \in Consumers : ~Counting(d)
    BY <2>1 DEF RoundInv, CountMutex
  <2>3. \A d \in Consumers : Counting(d)' => d = c
    BY <1>2, <2>2 DEF Counting
  <2> QED BY <2>1, <2>3 DEF CountMutex
<1>7. SemsInv'
  BY <1>1, <1>2, <1>4 DEF RoundInv, SemsInv
<1>8. ResetInv'
  BY <1>1, <1>2, <1>4 DEF RoundInv, ResetInv
<1>9. LeftInv'
  <2>1. {d \in Consumers : Arrived(d)}' = {d \in Consumers : Arrived(d)}
    BY <1>5
  <2> QED BY <1>1, <1>3, <2>1 DEF RoundInv, LeftInv
<1>10. \A r \in Int : Round(r) => Round(r)'
  <2>1. \A d \in Consumers : Ahead(d)' <=> Ahead(d)
    BY <1>2, <1>5 DEF Ahead, TakenLabels
  <2> QED BY <1>1, <2>1 DEF Round
<1> QED BY <1>6, <1>7, <1>8, <1>9, <1>10 DEF RoundInv

\* --_Consumers_left: the last consumer of a round starts to reset the
\* semaphores, and the next round begins.
LEMMA CountDownRound ==
  ASSUME TypeOK, RoundInv, NEW c \in Consumers, CountDown(c)
  PROVE  RoundInv'
<1> DEFINE to == IF consumers_left - 1 = 0 THEN "reset" ELSE "counted"
           A  == {d \in Consumers : Arrived(d)}
<1>1. /\ Goto(c, "counting", to)
      /\ UNCHANGED <<left_sem, consumers_sems, i, id, consumer_consumed>>
      /\ consumers_left' = consumers_left - 1
  BY DEF CountDown, idVars, localVars
<1>2. /\ pc[c] = "counting" /\ pc'[c] = to
      /\ \A d \in Consumers : d # c => pc'[d] = pc[d]
      /\ \A d \in Consumers : pc'[d] = "start" <=> pc[d] = "start"
      /\ \A d \in Consumers : Past(d)' <=> Past(d)
      /\ Past(c) /\ id[c] \in 0..ConsumerCount-1
  BY <1>1, CountingMoves DEF RoundInv
<1>3. \A d \in Consumers : d # c => ~Counting(d)
  BY <1>2 DEF RoundInv, CountMutex, Counting
<1>4. ~Resetting
  BY <1>2, <1>3 DEF Resetting, Counting
<1>5. consumers_sems[id[c]] = 0
  BY <1>2 DEF RoundInv, SemsInv, Counted
<1>6. /\ c \notin A /\ IsFiniteSet(A) /\ Cardinality(A) \in Nat
      /\ consumers_left = ConsumerCount - Cardinality(A)
  <2>1. c \notin A
    BY <1>2 DEF Arrived, Counted
  <2>2. IsFiniteSet(A) /\ Cardinality(A) \in Nat
    BY FS_Subset, FS_CardinalityType, ThreadsAssumption
  <2> QED BY <1>4, <2>1, <2>2 DEF RoundInv, LeftInv
<1>7. Cardinality(A \cup {c}) = Cardinality(A) + 1
  <2> HIDE DEF A
  <2> QED BY <1>6, FS_AddElement
<1>8. CountMutex'
  BY <1>1, <1>2, <1>3 DEF RoundInv, CountMutex, Counting
<1>9. SemsInv'
  BY <1>1, <1>2, <1>5 DEF RoundInv, SemsInv, Counted
<1>10. CASE consumers_left - 1 = 0
  <2>1. A \cup {c} = Consumers
    <3>1. Cardinality(A \cup {c}) = Cardinality(Consumers)
      BY <1>6, <1>7, <1>10, CountType DEF ConsumerCount
    <3>2. A \cup {c} \subseteq Consumers
      OBVIOUS
    <3> HIDE DEF A
    <3> QED BY <3>1, <3>2, FS_Subset, ThreadsAssumption
  <2>2. \A d \in Consumers : d # c => Arrived(d) /\ pc[d] = "wait_round"
    BY <1>3, <2>1 DEF Arrived, Counted, Counting
  <2>3. \A d \in Consumers : Past(d) /\ consumers_sems[id[d]] = 0
    BY <1>2, <1>5, <2>2 DEF Arrived, Past
  <2>4. pc'[c] = "reset" /\ Resetting' /\ i[c] = 0
    BY <1>2, <1>10 DEF Resetting, RoundInv, SemsInv
  <2>5. ResetInv'
    <3> SUFFICES ASSUME NEW d \in Consumers, pc'[d] = "reset", NEW e \in Consumers
                 PROVE  /\ Past(e)'
                        /\ pc'[e] \in {"reset", "wait_round"} =>
                             (consumers_sems'[id'[e]] = 1 <=> id'[e] < i'[d])
                        /\ id'[e] >= i'[d] => pc'[e] \in {"reset", "wait_round"}
      BY DEF ResetInv
    <3>1. d = c
      BY <1>2, <2>2
    <3>2. id[e] \in 0..ConsumerCount-1
      BY <2>3 DEF RoundInv, SemsInv, Past
    <3> QED BY <1>1, <1>2, <2>2, <2>3, <2>4, <3>1, <3>2, CountType
  <2>6. LeftInv'
    BY <2>4 DEF LeftInv
  <2>7. ASSUME NEW r \in Int, Round(r) PROVE Round(r + 1)'
    <3>1. \A d \in Consumers : Ahead(d)
      BY <1>2, <2>2 DEF Ahead, TakenLabels
    <3>2. \A d \in Consumers : ~Ahead(d)'
      BY <1>2, <2>2, <2>4 DEF Ahead, TakenLabels, Arrived
    <3> QED BY <1>1, <2>7, <3>1, <3>2 DEF Round
  <2> QED BY <1>8, <1>9, <2>5, <2>6, <2>7 DEF RoundInv
<1>11. CASE consumers_left - 1 # 0
  <2>1. pc'[c] = "counted"
    BY <1>2, <1>11
  <2>2. ~Resetting'
    BY <1>2, <1>4, <2>1 DEF Resetting
  <2>3. /\ Arrived(c)'
        /\ \A d \in Consumers : d # c => (Arrived(d)' <=> Arrived(d))
    BY <1>1, <1>2, <1>4, <1>5, <2>1, <2>2 DEF Arrived, Counted
  <2>4. {d \in Consumers : Arrived(d)}' = A \cup {c}
    BY <2>3
  <2>5. LeftInv'
    <3>1. consumers_left' = ConsumerCount - Cardinality(A \cup {c})
      <4> HIDE DEF A
      <4> QED BY <1>1, <1>6, <1>7, CountType
    <3> QED BY <2>4, <3>1 DEF LeftInv
  <2>6. ResetInv'
    BY <2>2 DEF ResetInv, Resetting
  <2>7. ASSUME NEW r \in Int, Round(r) PROVE Round(r)'
    <3>1. \A d \in Consumers : Ahead(d)' <=> Ahead(d)
      BY <1>2, <2>3 DEF Ahead, TakenLabels
    <3> QED BY <1>1, <2>7, <3>1 DEF Round
  <2> QED BY <1>8, <1>9, <2>5, <2>6, <2>7 DEF RoundInv
<1> QED BY <1>10, <1>11

\* One sem_post of reset_consumer_sems().
LEMMA WakeNextRound ==
  ASSUME TypeOK, RoundInv, NEW d \in Consumers, WakeNext(d)
  PROVE  RoundInv'
<1>1. /\ pc[d] = "reset" /\ i[d] < ConsumerCount
      /\ consumers_sems' = [consumers_sems EXCEPT ![i[d]] = @ + 1]
      /\ i' = [i EXCEPT ![d] = @ + 1]
      /\ UNCHANGED <<pc, consumers_left, left_sem, id, consumer_consumed>>
  BY DEF WakeNext, SemPost, idVars, localVars
<1>2. i[d] \in 0..ConsumerCount-1 /\ i'[d] = i[d] + 1
  BY <1>1, CountType DEF TypeOK
<1>3. Resetting /\ Resetting'
  BY <1>1 DEF Resetting
<1>4. \A c \in Consumers : pc[c] = "reset" => c = d
  BY <1>1 DEF RoundInv, CountMutex, Counting
<1>5. \A c \in Consumers : Past(c) /\ id[c] \in 0..ConsumerCount-1
  BY <1>1 DEF RoundInv, ResetInv, SemsInv, Past
<1>6. ASSUME NEW c \in Consumers, id[c] = i[d]
      PROVE  /\ pc[c] \in {"reset", "wait_round"}
             /\ consumers_sems[id[c]] = 0 /\ consumers_sems'[id[c]] = 1
  <2>1. pc[c] \in {"reset", "wait_round"} /\ consumers_sems[id[c]] # 1
    BY <1>1, <1>2, <1>6 DEF RoundInv, ResetInv
  <2>2. consumers_sems[id[c]] = 0
    BY <1>5, <2>1 DEF RoundInv, SemsInv
  <2>3. consumers_sems'[id[c]] = consumers_sems[id[c]] + 1
    BY <1>1, <1>2, <1>6 DEF TypeOK
  <2> QED BY <2>1, <2>2, <2>3
<1>7. \A c \in Consumers :
        id[c] # i[d] => consumers_sems'[id[c]] = consumers_sems[id[c]]
  BY <1>1, <1>2, <1>5 DEF TypeOK
<1>8. CountMutex'
  BY <1>1 DEF RoundInv, CountMutex, Counting
<1>9. SemsInv'
  <2>1. \A c \in Consumers : Past(c)' /\ id'[c] = id[c]
    BY <1>1, <1>5 DEF Past
  <2>2. \A c \in Consumers : pc[c] # "reset" => i'[c] = i[c]
    BY <1>1 DEF TypeOK
  <2>3. \A c \in Consumers : /\ consumers_sems'[id[c]] \in {0, 1}
                             /\ consumers_sems'[id[c]] = 1 => pc[c] = "reset" \/ Counted(c)
    BY <1>5, <1>6, <1>7 DEF RoundInv, SemsInv, Counted
  <2> QED BY <1>1, <2>1, <2>2, <2>3 DEF RoundInv, SemsInv, Counted
<1>10. ResetInv'
  <2> SUFFICES ASSUME NEW c \in Consumers
               PROVE  /\ Past(c)'
                      /\ pc[c] \in {"reset", "wait_round"} =>
                           (consumers_sems'[id[c]] = 1 <=> id[c] < i[d] + 1)
                      /\ id[c] >= i[d] + 1 => pc[c] \in {"reset", "wait_round"}
    BY <1>1, <1>2, <1>4 DEF ResetInv
  <2>1. Past(c)'
    BY <1>1, <1>5 DEF Past
  <2>2. /\ pc[c] \in {"reset", "wait_round"} =>
             (consumers_sems[id[c]] = 1 <=> id[c] < i[d])
        /\ id[c] >= i[d] => pc[c] \in {"reset", "wait_round"}
    BY <1>1 DEF RoundInv, ResetInv
  <2>3. CASE id[c] = i[d]
    BY <1>2, <1>6, <2>1, <2>3
  <2>4. CASE id[c] # i[d]
    BY <1>2, <1>5, <1>7, <2>1, <2>2, <2>4
  <2> QED BY <2>3, <2>4
<1>11. LeftInv'
  BY <1>3 DEF LeftInv
<1>12. \A r \in Int : Round(r) => Round(r)'
  BY <1>1, <1>3 DEF Round, Ahead, Arrived
<1> QED BY <1>8, <1>9, <1>10, <1>11, <1>12 DEF RoundInv

\* _Consumers_left is set again, when every consumer has its token.
LEMMA StartRoundRound ==
  ASSUME TypeOK, RoundInv, NEW d \in Consumers, StartRound(d)
  PROVE  RoundInv'
<1>1. /\ Goto(d, "reset", "counted") /\ i[d] = ConsumerCount
      /\ i' = [i EXCEPT ![d] = 0]
      /\ consumers_left' = ConsumerCount
      /\ UNCHANGED <<left_sem, consumers_sems, id, consumer_consumed>>
  BY DEF StartRound, idVars, localVars
<1>2. /\ pc[d] = "reset" /\ pc'[d] = "counted"
      /\ \A c \in Consumers : c # d => pc'[c] = pc[c]
      /\ \A c \in Consumers : pc'[c] = "start" <=> pc[c] = "start"
      /\ \A c \in Consumers : Past(c)' <=> Past(c)
  BY <1>1, CountingMoves DEF RoundInv
<1>3. \A c \in Consumers : Counting(c) => c = d
  BY <1>2 DEF RoundInv, CountMutex, Counting
<1>4. Resetting /\ ~Resetting'
  BY <1>2, <1>3 DEF Resetting, Counting
<1>5. \A c \in Consumers : /\ Past(c) /\ id[c] < ConsumerCount
                           /\ pc[c] \in {"reset", "wait_round"} =>
                                consumers_sems[id[c]] = 1
  BY <1>1, <1>2, CountType DEF RoundInv, ResetInv, SemsInv, Past
<1>6. \A c \in Consumers : ~Arrived(c) /\ ~Arrived(c)'
  BY <1>1, <1>2, <1>3, <1>4, <1>5 DEF Arrived, Counted, Counting
<1>7. CountMutex'
  BY <1>1, <1>2, <1>3 DEF RoundInv, CountMutex, Counting
<1>8. SemsInv'
  <2>1. \A c \in Consumers : pc'[c] # "reset" => i'[c] = 0
    BY <1>1, <1>2 DEF TypeOK, RoundInv, SemsInv
  <2> QED BY <1>1, <1>2, <2>1 DEF RoundInv, SemsInv, Counted
<1>9. ResetInv'
  BY <1>4 DEF ResetInv, Resetting
<1>10. LeftInv'
  <2>1. {c \in Consumers : Arrived(c)}' = {}
    BY <1>6
  <2> QED BY <1>1, <2>1, FS_EmptySet, CountType DEF LeftInv
<1>11. \A r \in Int : Round(r) => Round(r)'
  <2>1. \A c \in Consumers : Ahead(c)' <=> Ahead(c)
    BY <1>2, <1>6 DEF Ahead, TakenLabels
  <2> QED BY <1>1, <2>1 DEF Round
<1> QED BY <1>7, <1>8, <1>9, <1>10, <1>11 DEF RoundInv

\* sem_post of the semaphore of _Consumers_left.
LEMMA LeaveCountRound ==
  ASSUME TypeOK, RoundInv, NEW c \in Consumers, LeaveCount(c)
  PROVE  RoundInv'
<1>1. /\ Goto(c, "counted", "wait_round")
      /\ UNCHANGED <<consumers_left, consumers_sems, i, id, consumer_consumed>>
      /\ left_sem' = left_sem + 1
  BY DEF LeaveCount, idVars, localVars
<1>2. /\ pc[c] = "counted" /\ pc'[c] = "wait_round"
      /\ \A d \in Consumers : d # c => pc'[d] = pc[d]
      /\ \A d \in Consumers : pc'[d] = "start" <=> pc[d] = "start"
      /\ \A d \in Consumers : Past(d)' <=> Past(d)
  BY <1>1, CountingMoves DEF RoundInv
<1>3. \A d \in Consumers : Counting(d) => d = c
  BY <1>2 DEF RoundInv, CountMutex, Counting
<1>4. ~Resetting /\ ~Resetting'
  BY <1>2, <1>3 DEF Resetting, Counting
<1>5. \A d \in Consumers : Counted(d)' <=> Counted(d)
  BY <1>2 DEF Counted
<1>6. \A d \in Consumers : Arrived(d)' <=> Arrived(d)
  BY <1>1, <1>4, <1>5 DEF Arrived
<1>7. CountMutex'
  <2>1. left_sem' = 1
    BY <1>1, <1>2 DEF RoundInv, CountMutex, Counting
  <2>2. \A d \in Consumers : ~Counting(d)'
    BY <1>2, <1>3 DEF Counting
  <2> QED BY <2>1, <2>2 DEF CountMutex
<1>8. SemsInv'
  BY <1>1, <1>2, <1>5 DEF RoundInv, SemsInv
<1>9. ResetInv'
  BY <1>4 DEF ResetInv, Resetting
<1>10. LeftInv'
  <2>1. {d \in Consumers : Arrived(d)}' = {d \in Consumers : Arrived(d)}
    BY <1>6
  <2> QED BY <1>1, <1>4, <2>1 DEF RoundInv, LeftInv
<1>11. \A r \in Int : Round(r) => Round(r)'
  <2>1. \A d \in Consumers : Ahead(d)' <=> Ahead(d)
    BY <1>2, <1>6 DEF Ahead, TakenLabels
  <2> QED BY <1>1, <2>1 DEF Round
<1> QED BY <1>7, <1>8, <1>9, <1>10, <1>11 DEF RoundInv

\* A consumer waits for the token of its own semaphore: another consumer has
\* another semaphore, because ids are unique.
LEMMA WaitRoundRound ==
  ASSUME TypeOK, IdInv, RoundInv, NEW c \in Consumers, WaitRound(c)
  PROVE  RoundInv'
<1>1. /\ Goto(c, "wait_round", "loop")
      /\ UNCHANGED <<consumers_left, left_sem, i, id, consumer_consumed>>
      /\ consumers_sems[id[c]] > 0
      /\ consumers_sems' = [consumers_sems EXCEPT ![id[c]] = @ - 1]
  BY DEF WaitRound, SemWait, idVars, localVars
<1>2. /\ pc[c] = "wait_round" /\ pc'[c] = "loop"
      /\ \A d \in Consumers : d # c => pc'[d] = pc[d]
      /\ \A d \in Consumers : pc'[d] = "start" <=> pc[d] = "start"
      /\ \A d \in Consumers : Past(d)' <=> Past(d)
      /\ Past(c) /\ id[c] \in 0..ConsumerCount-1
  BY <1>1, CountingMoves DEF RoundInv
<1>3. consumers_sems[id[c]] = 1 /\ consumers_sems'[id[c]] = 0
  <2>1. consumers_sems[id[c]] = 1
    BY <1>1, <1>2 DEF RoundInv, SemsInv
  <2> QED BY <1>1, <1>2, <2>1 DEF TypeOK
<1>4. ASSUME NEW d \in Consumers, d # c, Past(d)
      PROVE  consumers_sems'[id[d]] = consumers_sems[id[d]]
  <2>1. id[d] \in 0..ConsumerCount-1
    BY <1>4 DEF RoundInv, SemsInv, Past
  <2>2. c \in Threads /\ d \in Threads /\ Kind(c) = Kind(d)
    BY ThreadsAssumption DEF Kind, Threads
  <2>3. id[c] # -1
    BY <1>2
  <2>4. id[d] # id[c]
    BY <1>4, <2>2, <2>3 DEF IdInv, UniqueIds
  <2> QED BY <1>1, <2>1, <2>4 DEF TypeOK
<1>5. \A d \in Consumers : Past(d)
  BY <1>2, <1>3 DEF RoundInv, SemsInv
<1>6. Resetting' <=> Resetting
  BY <1>2 DEF Resetting
<1>7. \A d \in Consumers : d # c => (Counted(d)' <=> Counted(d))
  BY <1>2 DEF Counted
<1>8. \A d \in Consumers : Arrived(d)' <=> Arrived(d)
  <2>1. ~Arrived(c) /\ ~Arrived(c)'
    BY <1>2, <1>3 DEF Arrived, Counted
  <2> QED BY <1>1, <1>4, <1>5, <1>6, <1>7, <2>1 DEF Arrived
<1>9. CountMutex'
  BY <1>1, <1>2 DEF RoundInv, CountMutex, Counting
<1>10. SemsInv'
  <2>1. \A d \in Consumers :
          /\ consumers_sems'[id[d]] \in {0, 1}
          /\ consumers_sems'[id[d]] = 1 => pc'[d] = "reset" \/ Counted(d)'
    BY <1>2, <1>3, <1>4, <1>5, <1>7 DEF RoundInv, SemsInv
  <2> QED BY <1>1, <1>2, <1>5, <2>1 DEF RoundInv, SemsInv
<1>11. ResetInv'
  <2> SUFFICES ASSUME NEW d \in Consumers, pc'[d] = "reset", NEW e \in Consumers
               PROVE  /\ Past(e)'
                      /\ pc'[e] \in {"reset", "wait_round"} =>
                           (consumers_sems'[id[e]] = 1 <=> id[e] < i[d])
                      /\ id[e] >= i[d] => pc'[e] \in {"reset", "wait_round"}
    BY <1>1 DEF ResetInv
  <2>1. pc[d] = "reset"
    BY <1>2
  <2>2. CASE e = c
    <3>1. id[c] < i[d]
      BY <1>2, <1>3, <2>1 DEF RoundInv, ResetInv
    <3>2. id[c] \in Int /\ i[d] \in Int
      BY <1>2, CountType DEF TypeOK
    <3>3. ~(id[c] >= i[d])
      BY <3>1, <3>2
    <3> QED BY <1>2, <2>2, <3>3
  <2>3. CASE e # c
    BY <1>2, <1>4, <1>5, <2>1, <2>3 DEF RoundInv, ResetInv
  <2> QED BY <2>2, <2>3
<1>12. LeftInv'
  <2>1. {d \in Consumers : Arrived(d)}' = {d \in Consumers : Arrived(d)}
    BY <1>8
  <2> QED BY <1>1, <1>6, <2>1 DEF RoundInv, LeftInv
<1>13. \A r \in Int : Round(r) => Round(r)'
  <2>1. \A d \in Consumers : Ahead(d)' <=> Ahead(d)
    BY <1>2, <1>8 DEF Ahead, TakenLabels
  <2> QED BY <1>1, <2>1 DEF Round
<1> QED BY <1>9, <1>10, <1>11, <1>12, <1>13 DEF RoundInv

\* Before the first round nobody has an id or a product.
LEMMA RoundInit == Init => RoundInv
<1> SUFFICES ASSUME Init PROVE RoundInv
  OBVIOUS
<1>1. \A c \in Consumers : pc[c] = "start" /\ ~Past(c)
  BY DEF Init, Threads, Past
<1>2. \A c \in Consumers : ~Counting(c) /\ ~Counted(c) /\ ~Arrived(c) /\ ~Ahead(c)
  BY <1>1 DEF Counting, Counted, Arrived, Ahead, TakenLabels
<1>3. CountMutex
  BY <1>2 DEF CountMutex, Init
<1>4. SemsInv /\ ResetInv
  BY <1>1 DEF SemsInv, ResetInv, Init
<1>5. LeftInv
  <2>1. {c \in Consumers : Arrived(c)} = {}
    BY <1>2
  <2>2. Cardinality({c \in Consumers : Arrived(c)}) = 0
    BY <2>1, FS_EmptySet
  <2>3. consumers_left = ConsumerCount
    BY DEF Init
  <2> QED BY <2>2, <2>3, CountType DEF LeftInv
<1>6. Round(0)
  BY <1>2 DEF Round, Init
<1> QED BY <1>3, <1>4, <1>5, <1>6 DEF RoundInv

\* Every step keeps the invariant of the rounds.
LEMMA RoundStep == TypeOK /\ IdInv /\ RoundInv /\ [Next]_vars => RoundInv'
<1> SUFFICES ASSUME TypeOK, IdInv, RoundInv, [Next]_vars PROVE RoundInv'
  OBVIOUS
<1>1. CASE \E t \in Threads : Quiet(t)
  BY <1>1, QuietStep
<1>2. CASE \E c \in Consumers : Take(c)
  BY <1>2, TakeRound
<1>3. CASE \E c \in Consumers : EnterCount(c) \/ CountDown(c) \/ LeaveCount(c)
  BY <1>3, EnterCountRound, CountDownRound, LeaveCountRound
<1>4. CASE \E c \in Consumers : WakeNext(c) \/ StartRound(c) \/ WaitRound(c)
  BY <1>4, WakeNextRound, StartRoundRound, WaitRoundRound
<1>5. CASE JoinAll \/ UNCHANGED vars
  <2>1. UNCHANGED <<pc, id, consumers_left, left_sem, consumers_sems, i, consumer_consumed>>
    BY <1>5 DEF JoinAll, vars, idVars, roundVars, localVars
  <2> QED BY <2>1 DEF RoundInv, CountMutex, SemsInv, ResetInv, LeftInv, Round,
                      Ahead, Arrived, Resetting, Counted, Counting, Past
<1> QED BY <1>1, <1>2, <1>3, <1>4, <1>5
        DEF Next, Shared, Producer, Consumer, Quiet, Exited, Threads

\* IdInv and RoundInv hold throughout.
LEMMA RoundAlways == Spec => [](IdInv /\ RoundInv)
<1>1. Init => IdInv
  BY IdInit
<1> QED BY <1>1, IdStep, RoundInit, RoundStep, TypeCorrect, PTL DEF Spec

\* A consumer that is about to take a product is not ahead of any other one.
LEMMA TakerNotAhead ==
  ASSUME TypeOK, RoundInv, NEW c \in Consumers, pc[c] = "inside"
  PROVE  \A d \in Consumers : consumer_consumed[c] <= consumer_consumed[d]
<1>1. PICK r \in Int : Round(r)
  BY DEF RoundInv
<1>2. ~Ahead(c)
  BY DEF Ahead, TakenLabels, Arrived, Counted
<1> QED BY <1>1, <1>2 DEF Round

\* A consumer that has more data than another one waits for it (README of
\* Project1; main.c:172-188): nobody is more than one product ahead.
THEOREM RoundsInStep == Spec => []ConsumersInStep
<1>1. RoundInv => ConsumersInStep
  <2> SUFFICES ASSUME NEW r \in Int, Round(r) PROVE ConsumersInStep
    BY DEF RoundInv
  <2>1. \A c \in Consumers : consumer_consumed[c] = r \/ consumer_consumed[c] = r + 1
    BY DEF Round
  <2> QED BY <2>1 DEF ConsumersInStep
<1> QED BY <1>1, RoundAlways, PTL

-----------------------------------------------------------------------------
(* The ring of a buffer.                                                   *)

\* A position at most one turn ahead, brought back into the ring.
Wrap(x) == IF x < BufferSize THEN x ELSE x - BufferSize

\* What % BufferSize does to such a position.
LEMMA WrapIsMod ==
  ASSUME NEW x \in 0..2*BufferSize-1
  PROVE  x % BufferSize = Wrap(x)
<1> DEFINE q == x \div BufferSize
           r == x % BufferSize
<1>1. x = BufferSize * q + r /\ q \in Int /\ r \in 0..BufferSize-1
  BY LimitsAssumption
<1> SUFFICES r = Wrap(x)
  OBVIOUS
<1> HIDE DEF q, r
<1>2. CASE q <= -1
  <2>1. BufferSize * q <= -BufferSize
    BY <1>1, <1>2, LimitsAssumption
  <2> QED BY <1>1, <2>1, LimitsAssumption
<1>3. CASE q >= 2
  <2>1. BufferSize * q >= 2 * BufferSize
    BY <1>1, <1>3, LimitsAssumption
  <2> QED BY <1>1, <2>1, LimitsAssumption
<1>4. CASE q = 0
  BY <1>1, <1>4, LimitsAssumption DEF Wrap
<1>5. CASE q = 1
  BY <1>1, <1>5, LimitsAssumption DEF Wrap
<1> QED BY <1>1, <1>2, <1>3, <1>4, <1>5

\* The position after a slot.
LEMMA NextWrap ==
  ASSUME NEW k \in 0..BufferSize-1
  PROVE  (k + 1) % BufferSize = Wrap(k + 1)
<1>1. k + 1 \in 0..2*BufferSize-1
  BY LimitsAssumption
<1> QED BY <1>1, WrapIsMod

\* A buffer stores as many products as it has slots at most; fewer while a
\* producer has a slot reserved, and some while a consumer has a product.
LEMMA StoredBounds ==
  ASSUME TypeOK, TokenAccounting, NEW b \in Buffers
  PROVE  /\ Stored(b) \in 0..BufferSize
         /\ \A p \in Producers : BufferOf[p] = b /\ Reserved(p) => Stored(b) < BufferSize
         /\ \A c \in Consumers : BufferOf[c] = b /\ Reserved(c) => Stored(b) > 0
<1> DEFINE rP == Cardinality(ReservedAt(b, Producers))
           rC == Cardinality(ReservedAt(b, Consumers))
           oP == Cardinality(OwingAt(b, Producers))
           oC == Cardinality(OwingAt(b, Consumers))
<1>1. /\ IsFiniteSet(ReservedAt(b, Producers)) /\ IsFiniteSet(ReservedAt(b, Consumers))
      /\ IsFiniteSet(OwingAt(b, Producers)) /\ IsFiniteSet(OwingAt(b, Consumers))
  BY FS_Subset, ThreadsAssumption DEF ReservedAt, OwingAt
<1>2. rP \in Nat /\ rC \in Nat /\ oP \in Nat /\ oC \in Nat
  BY <1>1, FS_CardinalityType
<1>3. /\ rP = 0 => ReservedAt(b, Producers) = {}
      /\ rC = 0 => ReservedAt(b, Consumers) = {}
  BY <1>1, FS_EmptySet
<1>4. /\ empty_slots[b] \in Nat /\ to_consume[b] \in Nat /\ Stored(b) \in Int
      /\ empty_slots[b] + rP + Stored(b) + oC = BufferSize
      /\ to_consume[b] + rC + oP = Stored(b)
  BY LimitsAssumption DEF TypeOK, Stored, TokenAccounting
<1>5. /\ (\E p \in Producers : BufferOf[p] = b /\ Reserved(p)) => rP # 0
      /\ (\E c \in Consumers : BufferOf[c] = b /\ Reserved(c)) => rC # 0
  BY <1>3 DEF ReservedAt
<1> HIDE DEF rP, rC, oP, oC
<1>6. Stored(b) \in 0..BufferSize
  BY <1>2, <1>4, LimitsAssumption
<1>7. rP # 0 => Stored(b) < BufferSize
  BY <1>2, <1>4, LimitsAssumption
<1>8. rC # 0 => Stored(b) > 0
  BY <1>2, <1>4
<1> QED BY <1>5, <1>6, <1>7, <1>8

\* Only Put and Take touch the rings and what the consumers received.
LEMMA KeepContents ==
  ASSUME [Next]_vars, ~\E p \in Producers : Put(p), ~\E c \in Consumers : Take(c)
  PROVE  UNCHANGED <<bufferVars, localVars>>
<1>1. ASSUME NEW t, Shared(t) PROVE UNCHANGED <<bufferVars, localVars>>
  BY <1>1 DEF Shared, TakeId, LeaveId, Loop, Enter, FindLimit, StartPrint,
              EndPrint, Leave, PostToConsume, PostEmptySlots
<1>2. ASSUME NEW p, ReserveSlot(p) PROVE UNCHANGED <<bufferVars, localVars>>
  BY <1>2 DEF ReserveSlot
<1>3. ASSUME NEW c, Consumer(c), ~Take(c) PROVE UNCHANGED <<bufferVars, localVars>>
  BY <1>3 DEF Consumer, ReserveProduct, EnterCount, CountDown, WakeNext,
              StartRound, LeaveCount, WaitRound
<1>4. CASE JoinAll \/ UNCHANGED vars
  BY <1>4 DEF JoinAll, vars
<1> QED BY <1>1, <1>2, <1>3, <1>4 DEF Next, Producer, Exited

\* produce_pos is consume_pos and what the ring stores.
RingInv ==
  \A b \in Buffers : produce_pos[b] = Wrap(consume_pos[b] + Stored(b))

\* The effect of Put on the positions and counters, in one place.
LEMMA PutEffect ==
  ASSUME TypeOK, TokenAccounting, RingInv, NEW p \in Producers, Put(p),
         NEW b, b = BufferOf[p]
  PROVE  /\ b \in Buffers
         /\ Stored(b) \in 0..BufferSize-1
         /\ Stored(b)' = Stored(b) + 1
         /\ \A a \in Buffers : a # b => Stored(a)' = Stored(a)
         /\ produce_pos'[b] = Wrap(consume_pos[b] + (Stored(b) + 1))
<1>1. b \in Buffers /\ p \in Threads
  BY BufferType DEF Threads
<1>2. /\ pc[p] = "inside"
      /\ produced' = [produced EXCEPT ![b] = @ + 1] /\ consumed' = consumed
      /\ produce_pos' = [produce_pos EXCEPT ![b] = (@ + 1) % BufferSize]
  BY DEF Put, Goto
<1>3. Stored(b) \in 0..BufferSize-1
  BY <1>1, <1>2, StoredBounds, LimitsAssumption DEF Reserved
<1>4. produced[b] \in Int /\ consumed[b] \in Int
  BY <1>1, LimitsAssumption DEF TypeOK
<1>5. Stored(b)' = Stored(b) + 1
  BY <1>1, <1>2, <1>4 DEF Stored, TypeOK
<1>6. \A a \in Buffers : a # b => Stored(a)' = Stored(a)
  BY <1>2 DEF Stored, TypeOK
<1>7. produce_pos'[b] = Wrap(consume_pos[b] + (Stored(b) + 1))
  <2>1. consume_pos[b] \in 0..BufferSize-1 /\ produce_pos[b] \in 0..BufferSize-1
    BY <1>1 DEF TypeOK, Slots
  <2>2. produce_pos'[b] = Wrap(produce_pos[b] + 1)
    <3>1. produce_pos'[b] = (produce_pos[b] + 1) % BufferSize
      BY <1>1, <1>2 DEF TypeOK
    <3> QED BY <2>1, <3>1, NextWrap
  <2>3. produce_pos[b] = Wrap(consume_pos[b] + Stored(b))
    BY <1>1 DEF RingInv
  <2> QED BY <1>3, <2>1, <2>2, <2>3, LimitsAssumption DEF Wrap
<1> QED BY <1>1, <1>3, <1>5, <1>6, <1>7

\* The effect of Take on the positions and counters.
LEMMA TakeEffect ==
  ASSUME TypeOK, TokenAccounting, NEW c \in Consumers, Take(c),
         NEW b, b = BufferOf[c]
  PROVE  /\ b \in Buffers
         /\ Stored(b) \in 1..BufferSize
         /\ Stored(b)' = Stored(b) - 1
         /\ \A a \in Buffers : a # b => Stored(a)' = Stored(a)
         /\ consume_pos'[b] = Wrap(consume_pos[b] + 1)
<1>1. b \in Buffers /\ c \in Threads
  BY BufferType DEF Threads
<1>2. /\ pc[c] = "inside"
      /\ consumed' = [consumed EXCEPT ![b] = @ + 1] /\ produced' = produced
      /\ consume_pos' = [consume_pos EXCEPT ![b] = (@ + 1) % BufferSize]
  BY DEF Take, Goto
<1>3. Stored(b) \in 1..BufferSize
  BY <1>1, <1>2, StoredBounds, LimitsAssumption DEF Reserved
<1>4. produced[b] \in Int /\ consumed[b] \in Int
  BY <1>1, LimitsAssumption DEF TypeOK
<1>5. Stored(b)' = Stored(b) - 1
  BY <1>1, <1>2, <1>4 DEF Stored, TypeOK
<1>6. \A a \in Buffers : a # b => Stored(a)' = Stored(a)
  BY <1>2 DEF Stored, TypeOK
<1>7. consume_pos'[b] = Wrap(consume_pos[b] + 1)
  <2>1. consume_pos[b] \in 0..BufferSize-1
    BY <1>1 DEF TypeOK, Slots
  <2>2. consume_pos'[b] = (consume_pos[b] + 1) % BufferSize
    BY <1>1, <1>2 DEF TypeOK
  <2> QED BY <2>1, <2>2, NextWrap
<1> QED BY <1>1, <1>3, <1>5, <1>6, <1>7

\* The positions stay as far apart as the number of stored products.
LEMMA RingStep ==
  TypeOK /\ TokenAccounting /\ RingInv /\ [Next]_vars => RingInv'
<1> SUFFICES ASSUME TypeOK, TokenAccounting, RingInv, [Next]_vars PROVE RingInv'
  OBVIOUS
<1>1. ASSUME NEW p \in Producers, Put(p) PROVE RingInv'
  <2> DEFINE b == BufferOf[p]
  <2>1. consume_pos' = consume_pos
        /\ \A a \in Buffers : a # b => produce_pos'[a] = produce_pos[a]
    BY <1>1 DEF Put, TypeOK
  <2>2. /\ Stored(b)' = Stored(b) + 1
        /\ \A a \in Buffers : a # b => Stored(a)' = Stored(a)
        /\ produce_pos'[b] = Wrap(consume_pos[b] + (Stored(b) + 1))
    BY <1>1, PutEffect
  <2> HIDE DEF b
  <2> QED BY <2>1, <2>2 DEF RingInv, Wrap
<1>2. ASSUME NEW c \in Consumers, Take(c) PROVE RingInv'
  <2> DEFINE b == BufferOf[c]
  <2>1. produce_pos' = produce_pos
        /\ \A a \in Buffers : a # b => consume_pos'[a] = consume_pos[a]
    BY <1>2 DEF Take, TypeOK
  <2>2. /\ b \in Buffers
        /\ Stored(b) \in 1..BufferSize
        /\ Stored(b)' = Stored(b) - 1
        /\ \A a \in Buffers : a # b => Stored(a)' = Stored(a)
        /\ consume_pos'[b] = Wrap(consume_pos[b] + 1)
    BY <1>2, TakeEffect
  <2> HIDE DEF b
  <2>3. consume_pos[b] \in 0..BufferSize-1
    BY <2>2 DEF TypeOK, Slots
  <2>4. produce_pos'[b] = Wrap(consume_pos'[b] + Stored(b)')
    <3>1. produce_pos[b] = Wrap(consume_pos[b] + Stored(b))
      BY <2>2 DEF RingInv
    <3>2. \A x \in 0..BufferSize-1, n \in 1..BufferSize :
            Wrap(Wrap(x + 1) + (n - 1)) = Wrap(x + n)
      BY LimitsAssumption DEF Wrap
    <3>3. Wrap(Wrap(consume_pos[b] + 1) + (Stored(b) - 1)) = Wrap(consume_pos[b] + Stored(b))
      BY <2>2, <2>3, <3>2
    <3> QED BY <2>1, <2>2, <3>1, <3>3
  <2> QED BY <2>1, <2>2, <2>4 DEF RingInv, Wrap
<1>3. CASE UNCHANGED <<bufferVars, localVars>>
  BY <1>3 DEF bufferVars, RingInv, Stored, Wrap
<1> QED BY <1>1, <1>2, <1>3, KeepContents

-----------------------------------------------------------------------------
(* The queue in the ring.                                                  *)

Cells == [Slots -> Products \cup {0}]

\* The n cells of a ring from position pos on.
RingQueue(ring, pos, n) == [k \in 1..n |-> ring[(pos + k - 1) % BufferSize]]

\* It is a sequence, read with Wrap.
LEMMA RingQueueType ==
  ASSUME NEW ring \in Cells, NEW pos \in Slots, NEW n \in 0..BufferSize
  PROVE  /\ RingQueue(ring, pos, n) \in Seq(Products \cup {0})
         /\ Len(RingQueue(ring, pos, n)) = n
         /\ \A k \in 1..n : RingQueue(ring, pos, n)[k] = ring[Wrap(pos + (k - 1))]
<1>1. ASSUME NEW k \in 1..n
      PROVE  /\ (pos + k - 1) % BufferSize = Wrap(pos + (k - 1))
             /\ Wrap(pos + (k - 1)) \in Slots
  <2>1. /\ pos + k - 1 \in 0..2*BufferSize-1
        /\ pos + k - 1 = pos + (k - 1)
        /\ pos + (k - 1) \in 0..2*BufferSize-1
    BY LimitsAssumption DEF Slots
  <2>2. Wrap(pos + (k - 1)) \in Slots
    BY <2>1, LimitsAssumption DEF Wrap, Slots
  <2> QED BY <2>1, <2>2, WrapIsMod
<1>2. \A k \in 1..n : /\ RingQueue(ring, pos, n)[k] = ring[Wrap(pos + (k - 1))]
                      /\ RingQueue(ring, pos, n)[k] \in Products \cup {0}
  BY <1>1 DEF RingQueue, Cells
<1>3. RingQueue(ring, pos, n) \in [1..n -> Products \cup {0}]
  BY <1>2 DEF RingQueue
<1>4. n \in Nat
  BY LimitsAssumption
<1> QED BY <1>2, <1>3, <1>4

\* A product put after the last cell is appended.
LEMMA RingPut ==
  ASSUME NEW ring \in Cells, NEW pos \in Slots, NEW n \in 0..BufferSize-1,
         NEW d \in Products
  PROVE  RingQueue([ring EXCEPT ![Wrap(pos + n)] = d], pos, n + 1)
           = Append(RingQueue(ring, pos, n), d)
<1> DEFINE S  == Products \cup {0}
           r2 == [ring EXCEPT ![Wrap(pos + n)] = d]
           q  == RingQueue(ring, pos, n)
           q2 == RingQueue(r2, pos, n + 1)
<1>1. n \in 0..BufferSize /\ n + 1 \in 0..BufferSize /\ Wrap(pos + n) \in Slots
  BY LimitsAssumption DEF Slots, Wrap
<1>2. r2 \in Cells
  BY DEF Cells
<1>3. /\ q \in Seq(S) /\ Len(q) = n
      /\ \A k \in 1..n : q[k] = ring[Wrap(pos + (k - 1))]
  BY <1>1, RingQueueType
<1>4. /\ q2 \in Seq(S) /\ Len(q2) = n + 1
      /\ \A k \in 1..n+1 : q2[k] = r2[Wrap(pos + (k - 1))]
  <2> HIDE DEF r2
  <2> QED BY <1>1, <1>2, RingQueueType
<1>5. ASSUME NEW k \in 1..n PROVE q2[k] = q[k]
  <2>1. k \in 1..n+1
    BY LimitsAssumption
  <2>2. Wrap(pos + (k - 1)) \in Slots /\ Wrap(pos + (k - 1)) # Wrap(pos + n)
    BY LimitsAssumption DEF Slots, Wrap
  <2>3. r2[Wrap(pos + (k - 1))] = ring[Wrap(pos + (k - 1))]
    BY <2>2 DEF Cells
  <2> QED BY <1>3, <1>4, <2>1, <2>3
<1>6. q2[n + 1] = d
  <2>1. n + 1 \in 1..n+1 /\ pos + ((n + 1) - 1) = pos + n
    BY LimitsAssumption DEF Slots
  <2>2. r2[Wrap(pos + n)] = d
    BY <1>1 DEF Cells
  <2> QED BY <1>4, <2>1, <2>2
<1>7. /\ Append(q, d) \in Seq(S) /\ Len(Append(q, d)) = n + 1
      /\ \A k \in 1..n : Append(q, d)[k] = q[k]
      /\ Append(q, d)[n + 1] = d
  <2> HIDE DEF q
  <2> QED BY <1>3, AppendProperties
<1> HIDE DEF q, q2, r2, S
<1>8. \A k \in 1..Len(q2) : q2[k] = Append(q, d)[k]
  <2>1. \A k \in 1..n+1 : k \in 1..n \/ k = n + 1
    BY LimitsAssumption
  <2> QED BY <1>4, <1>5, <1>6, <1>7, <2>1
<1>9. q2 = Append(q, d)
  BY <1>4, <1>7, <1>8, SeqEqual
<1> QED BY <1>9 DEF q, q2, r2

\* A product taken from the first cell is the head; the rest is the tail.
LEMMA RingTake ==
  ASSUME NEW ring \in Cells, NEW pos \in Slots, NEW n \in 1..BufferSize
  PROVE  /\ RingQueue(ring, pos, n) # <<>>
         /\ Head(RingQueue(ring, pos, n)) = ring[pos]
         /\ RingQueue([ring EXCEPT ![pos] = 0], Wrap(pos + 1), n - 1)
              = Tail(RingQueue(ring, pos, n))
<1> DEFINE S  == Products \cup {0}
           r2 == [ring EXCEPT ![pos] = 0]
           p2 == Wrap(pos + 1)
           q  == RingQueue(ring, pos, n)
           q2 == RingQueue(r2, p2, n - 1)
<1>1. n \in 0..BufferSize /\ n - 1 \in 0..BufferSize /\ p2 \in Slots /\ pos \in Int
  BY LimitsAssumption DEF Slots, Wrap
<1>2. r2 \in Cells
  BY DEF Cells
<1>3. /\ q \in Seq(S) /\ Len(q) = n
      /\ \A k \in 1..n : q[k] = ring[Wrap(pos + (k - 1))]
  BY <1>1, RingQueueType
<1>4. /\ q2 \in Seq(S) /\ Len(q2) = n - 1
      /\ \A k \in 1..n-1 : q2[k] = r2[Wrap(p2 + (k - 1))]
  <2> HIDE DEF r2, p2
  <2> QED BY <1>1, <1>2, RingQueueType
<1>5. q[1] = ring[pos]
  <2>1. 1 \in 1..n /\ Wrap(pos + (1 - 1)) = pos
    BY LimitsAssumption DEF Slots, Wrap
  <2> QED BY <1>3, <2>1
<1>6. ASSUME NEW k \in 1..n-1 PROVE q2[k] = q[k + 1]
  <2>1. /\ k + 1 \in 1..n /\ (k + 1) - 1 = k
        /\ Wrap(pos + k) \in Slots /\ Wrap(pos + k) # pos
        /\ Wrap(Wrap(pos + 1) + (k - 1)) = Wrap(pos + k)
    BY LimitsAssumption DEF Slots, Wrap
  <2>2. r2[Wrap(pos + k)] = ring[Wrap(pos + k)]
    BY <2>1 DEF Cells
  <2>3. q[k + 1] = ring[Wrap(pos + k)]
    BY <1>3, <2>1
  <2>4. q2[k] = r2[Wrap(pos + k)]
    BY <1>4, <2>1
  <2> QED BY <2>2, <2>3, <2>4
<1> HIDE DEF q, q2, r2, p2, S
<1>7. q # <<>>
  BY <1>3, LimitsAssumption
<1>8. Head(q) = q[1]
  BY <1>3, <1>7
<1>9. /\ Tail(q) \in Seq(S) /\ Len(Tail(q)) = n - 1
      /\ \A k \in 1..n-1 : Tail(q)[k] = q[k + 1]
  <2>1. /\ Tail(q) \in Seq(S) /\ Len(Tail(q)) = Len(q) - 1
        /\ \A k \in 1..Len(Tail(q)) : Tail(q)[k] = q[k + 1]
    BY <1>3, <1>7, HeadTailProperties
  <2> QED BY <1>3, <2>1
<1>10. q2 = Tail(q)
  <2>1. \A k \in 1..Len(q2) : q2[k] = Tail(q)[k]
    BY <1>4, <1>6, <1>9
  <2> QED BY <1>4, <1>9, <2>1, SeqEqual
<1> QED BY <1>5, <1>7, <1>8, <1>10 DEF q, q2, r2, p2

-----------------------------------------------------------------------------
(* Bounded first-in first-out buffers.                                     *)

\* The queue the refinement mapping gives a buffer.
Queues == [b \in Buffers |-> QueueOf(b)]

\* It is read from the ring of that buffer.
LEMMA QueuesAre ==
  Queues = [b \in Buffers |-> RingQueue(buffer[b], consume_pos[b], Stored(b))]
  BY DEF Queues, QueueOf, RingQueue

\* All queues are empty at first.
LEMMA QueuesInit == Init => Promise!Init
<1> SUFFICES ASSUME Init PROVE Promise!Init
  OBVIOUS
<1>1. \A b \in Buffers : Stored(b) = 0
  BY DEF Init, Stored
<1>2. \A b \in Buffers : QueueOf(b) = <<>>
  BY <1>1 DEF QueueOf
<1> QED BY <1>2 DEF Init, Promise!Init

\* A producer's Put is a put of the abstract buffers.
LEMMA PutIsPut ==
  ASSUME TypeOK, TokenAccounting, RingInv, NEW p \in Producers, Put(p)
  PROVE  \E b \in Buffers, d \in Products : Promise!Put(b, d)
<1> DEFINE b == BufferOf[p]
           n == Stored(b)
<1>1. /\ b \in Buffers /\ n \in 0..BufferSize-1 /\ Stored(b)' = n + 1
      /\ \A a \in Buffers : a # b => Stored(a)' = Stored(a)
  BY PutEffect
<1>2. PICK d \in Products : buffer' = [buffer EXCEPT ![b][produce_pos[b]] = d]
  BY DEF Put
<1>3. /\ produced[b] # ProductionLimit
      /\ produced' = [produced EXCEPT ![b] = @ + 1]
      /\ UNCHANGED <<consume_pos, consumer_consumed, product>>
  BY DEF Put, localVars
<1>4. produced[b] < ProductionLimit
  BY <1>1, <1>3, LimitsAssumption DEF TypeOK
<1>5. /\ buffer[b] \in Cells /\ consume_pos[b] \in Slots
      /\ produce_pos[b] = Wrap(consume_pos[b] + n)
  BY <1>1 DEF TypeOK, Cells, RingInv
<1>6. Len(QueueOf(b)) < BufferSize
  <2>1. n \in 0..BufferSize /\ n < BufferSize
    BY <1>1, LimitsAssumption
  <2>2. QueueOf(b) = RingQueue(buffer[b], consume_pos[b], n)
    BY DEF QueueOf, RingQueue
  <2> HIDE DEF n, b
  <2> QED BY <1>5, <2>1, <2>2, RingQueueType
<1>7. QueueOf(b)' = Append(QueueOf(b), d)
  <2>1. buffer'[b] = [buffer[b] EXCEPT ![Wrap(consume_pos[b] + n)] = d]
    BY <1>1, <1>2, <1>5 DEF TypeOK
  <2>2. QueueOf(b)' = RingQueue(buffer'[b], consume_pos[b], n + 1)
    BY <1>1, <1>3 DEF QueueOf, RingQueue
  <2>3. QueueOf(b) = RingQueue(buffer[b], consume_pos[b], n)
    BY DEF QueueOf, RingQueue
  <2> HIDE DEF n, b
  <2> QED BY <1>1, <1>5, <2>1, <2>2, <2>3, RingPut
<1>8. \A a \in Buffers : a # b => QueueOf(a)' = QueueOf(a)
  <2>1. \A a \in Buffers : a # b => buffer'[a] = buffer[a]
    BY <1>2 DEF TypeOK
  <2> QED BY <1>1, <1>3, <2>1 DEF QueueOf
<1>9. Queues' = [Queues EXCEPT ![b] = Append(@, d)]
  <2> HIDE DEF b
  <2> QED BY <1>1, <1>7, <1>8 DEF Queues
<1>10. Promise!Put(b, d)
  <2>1. Len(Queues[b]) < BufferSize
    BY <1>1, <1>6 DEF Queues
  <2> QED BY <1>3, <1>4, <1>9, <2>1 DEF Promise!Put, Queues
<1> QED BY <1>1, <1>10

\* A consumer's Take is a take of the abstract buffers.
LEMMA TakeIsTake ==
  ASSUME TypeOK, TokenAccounting, RoundInv, NEW c \in Consumers, Take(c)
  PROVE  Promise!Take(c)
<1> DEFINE b == BufferOf[c]
           n == Stored(b)
<1>1. /\ b \in Buffers /\ n \in 1..BufferSize /\ Stored(b)' = n - 1
      /\ \A a \in Buffers : a # b => Stored(a)' = Stored(a)
      /\ consume_pos'[b] = Wrap(consume_pos[b] + 1)
  BY TakeEffect
<1>2. /\ pc[c] = "inside"
      /\ buffer' = [buffer EXCEPT ![b][consume_pos[b]] = 0]
      /\ product' = [product EXCEPT ![c] = buffer[b][consume_pos[b]]]
      /\ consume_pos' = [consume_pos EXCEPT ![b] = (@ + 1) % BufferSize]
      /\ consumer_consumed' = [consumer_consumed EXCEPT ![c] = @ + 1]
      /\ produced' = produced
  BY DEF Take, Goto
<1>3. buffer[b] \in Cells /\ consume_pos[b] \in Slots
  BY <1>1 DEF TypeOK, Cells
<1>4. QueueOf(b) = RingQueue(buffer[b], consume_pos[b], n)
  BY DEF QueueOf, RingQueue
<1>5. /\ QueueOf(b) # <<>>
      /\ Head(QueueOf(b)) = buffer[b][consume_pos[b]]
      /\ QueueOf(b)' = Tail(QueueOf(b))
  <2>1. buffer'[b] = [buffer[b] EXCEPT ![consume_pos[b]] = 0]
    BY <1>1, <1>2 DEF TypeOK
  <2>2. QueueOf(b)' = RingQueue(buffer'[b], Wrap(consume_pos[b] + 1), n - 1)
    BY <1>1 DEF QueueOf, RingQueue
  <2> HIDE DEF n, b
  <2>3. /\ RingQueue(buffer[b], consume_pos[b], n) # <<>>
        /\ Head(RingQueue(buffer[b], consume_pos[b], n)) = buffer[b][consume_pos[b]]
        /\ RingQueue([buffer[b] EXCEPT ![consume_pos[b]] = 0], Wrap(consume_pos[b] + 1), n - 1)
             = Tail(RingQueue(buffer[b], consume_pos[b], n))
    BY <1>1, <1>3, RingTake
  <2> QED BY <1>4, <2>1, <2>2, <2>3
<1>6. \A a \in Buffers : a # b => QueueOf(a)' = QueueOf(a)
  <2>1. \A a \in Buffers : a # b =>
          buffer'[a] = buffer[a] /\ consume_pos'[a] = consume_pos[a]
    BY <1>2 DEF TypeOK
  <2> QED BY <1>1, <2>1 DEF QueueOf
<1>7. Queues' = [Queues EXCEPT ![b] = Tail(@)]
  <2> HIDE DEF b
  <2> QED BY <1>1, <1>5, <1>6 DEF Queues
<1>8. \A other \in Consumers : consumer_consumed[c] <= consumer_consumed[other]
  BY <1>2, TakerNotAhead
<1>9. Queues[b] # <<>> /\ product' = [product EXCEPT ![c] = Head(Queues[b])]
  BY <1>1, <1>2, <1>5 DEF Queues
<1> QED BY <1>2, <1>7, <1>8, <1>9 DEF Promise!Take, Queues

\* A step of a thread is a put, a take, or nothing the abstract buffers see.
LEMMA PromiseStep ==
  ASSUME TypeOK, TokenAccounting, RingInv, RoundInv, [Next]_vars
  PROVE  [Promise!Next]_(Promise!vars)
<1>1. CASE \E p \in Producers : Put(p)
  BY <1>1, PutIsPut DEF Promise!Next
<1>2. CASE \E c \in Consumers : Take(c)
  BY <1>2, TakeIsTake DEF Promise!Next
<1>3. CASE UNCHANGED <<bufferVars, localVars>>
  BY <1>3 DEF bufferVars, localVars, Promise!vars, QueueOf, Stored
<1> QED BY <1>1, <1>2, <1>3, KeepContents

\* The threads, semaphores and rings of main.c implement the bounded
\* first-in first-out buffers of SynchronizedBuffers: nothing is put on a full
\* buffer or taken from an empty one, products come out in the order they went
\* in, and who has more products than another one waits for it.
THEOREM Implements == Spec => KeepsPromise
<1>1. Init => RingInv
  <2> SUFFICES ASSUME Init, NEW b \in Buffers
               PROVE  produce_pos[b] = Wrap(consume_pos[b] + Stored(b))
    BY DEF RingInv
  <2>1. produce_pos[b] = 0 /\ consume_pos[b] = 0 /\ Stored(b) = 0
    BY DEF Init, Stored
  <2> QED BY <2>1, LimitsAssumption DEF Wrap
<1>2. Spec => []RingInv
  BY <1>1, RingStep, TypeCorrect, TokensAccounted, PTL DEF Spec
<1> QED
  BY <1>2, QueuesInit, PromiseStep, TypeCorrect, TokensAccounted, RoundAlways, PTL
  DEF Spec, KeepsPromise, Promise!Spec

=============================================================================
