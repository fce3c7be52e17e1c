-------------------------- MODULE ProducerConsumer --------------------------
(***************************************************************************)
(* "Operating Systems/Project1/main.c": producers and consumers over       *)
(* several ring buffers, synchronised with POSIX semaphores, the consumers *)
(* advancing in rounds.  One action is the code from one semaphore         *)
(* operation (or unlocked read of shared data) up to the next.             *)
(*                                                                         *)
(* The loop conditions of producer() and consumer() read produced and      *)
(* consumed without holding access.  Every semaphore operation is a full   *)
(* barrier, so such a read returns the value before or after a concurrent  *)
(* increment: two interleavings of these actions.                          *)
(***************************************************************************)
EXTENDS Integers, FiniteSets, Sequences

CONSTANTS
  Buffers,          \* the buffers (_Buffer_count of them)
  Producers,        \* the producer threads
  Consumers,        \* the consumer threads
  BufferOf,         \* the buffer main() hands to a thread as its argument
  BufferSize,       \* _Buffer_size
  ProductionLimit,  \* _Production_limit
  Products          \* what rand()%200+1 may return

ASSUME ThreadsAssumption ==
  /\ IsFiniteSet(Producers) /\ IsFiniteSet(Consumers)
  /\ Producers \cap Consumers = {}
  /\ BufferOf \in [Producers \cup Consumers -> Buffers]

\* main() starts _Consumers_per_buffer consumers for every buffer.
ASSUME SharesAssumption ==
  \A a, b \in Buffers : Cardinality({c \in Consumers : BufferOf[c] = a})
                          = Cardinality({c \in Consumers : BufferOf[c] = b})

ASSUME LimitsAssumption ==
  /\ BufferSize \in Nat \ {0}
  /\ ProductionLimit \in Nat
  /\ Products \subseteq Nat \ {0}

VARIABLES
  \* one of each per buffer: the ring and its counters
  buffer, produce_pos, consume_pos, produced, consumed,
  \* one of each per buffer: semaphores
  access, to_consume, empty_slots,
  \* ids: _Producer_id/_Consumer_id and their semaphores, by kind of thread
  next_id, id_sem,
  \* rounds: _Consumers_left, its semaphore, and _Consumers_sems
  consumers_left, left_sem, consumers_sems,
  print_sem,
  \* locals of the threads
  pc, id, product, consumer_consumed, i,
  \* main(): "joining" its threads, then "finished"
  main

bufferVars == <<buffer, produce_pos, consume_pos, produced, consumed>>
tokenVars  == <<to_consume, empty_slots>>
idVars     == <<next_id, id_sem, id>>
roundVars  == <<consumers_left, left_sem, consumers_sems, i>>
localVars  == <<product, consumer_consumed>>
vars == <<bufferVars, access, tokenVars, idVars, roundVars, print_sem,
          localVars, pc, main>>

Threads       == Producers \cup Consumers
ConsumerCount == Cardinality(Consumers)
Kind(t)       == IF t \in Producers THEN "producer" ELSE "consumer"

\* What the loop condition of a thread compares with _Production_limit.
Progress(t) == IF t \in Producers THEN produced[BufferOf[t]]
                                  ELSE consumed[BufferOf[t]]

Goto(t, from, to) == pc[t] = from /\ pc' = [pc EXCEPT ![t] = to]

\* sem_wait and sem_post on the semaphore sem[x].
SemWait(sem, x) == sem[x] > 0 /\ sem' = [sem EXCEPT ![x] = @ - 1]
SemPost(sem, x) == sem' = [sem EXCEPT ![x] = @ + 1]

-----------------------------------------------------------------------------
Init ==
  /\ buffer      = [b \in Buffers |-> [k \in 0..BufferSize-1 |-> 0]]
  /\ produce_pos = [b \in Buffers |-> 0]
  /\ consume_pos = [b \in Buffers |-> 0]
  /\ produced    = [b \in Buffers |-> 0]
  /\ consumed    = [b \in Buffers |-> 0]
  /\ access      = [b \in Buffers |-> 1]
  /\ to_consume  = [b \in Buffers |-> 0]
  /\ empty_slots = [b \in Buffers |-> BufferSize]
  /\ next_id     = [k \in {"producer", "consumer"} |-> 0]
  /\ id_sem      = [k \in {"producer", "consumer"} |-> 1]
  /\ consumers_left = ConsumerCount
  /\ left_sem    = 1
  /\ consumers_sems = [k \in 0..ConsumerCount-1 |-> 0]
  /\ print_sem   = 1
  /\ pc          = [t \in Threads |-> "start"]
  /\ id          = [t \in Threads |-> -1]
  /\ product     = [c \in Consumers |-> 0]
  /\ consumer_consumed = [c \in Consumers |-> 0]
  /\ i           = [c \in Consumers |-> 0]
  /\ main        = "joining"

-----------------------------------------------------------------------------
(* Steps that producer() and consumer() share.                             *)

\* Faulty variant: the id is read without its semaphore.
TakeIdUnlocked(t) ==
  /\ Goto(t, "start", "numbered")
  /\ id' = [id EXCEPT ![t] = next_id[Kind(t)]]
  /\ UNCHANGED <<bufferVars, access, tokenVars, next_id, id_sem, roundVars,
                 print_sem, localVars, main>>

TakeId(t) ==
  /\ Goto(t, "start", "numbered")
  /\ SemWait(id_sem, Kind(t))
  /\ id' = [id EXCEPT ![t] = next_id[Kind(t)]]
  /\ UNCHANGED <<bufferVars, access, tokenVars, next_id, roundVars,
                 print_sem, localVars, main>>

LeaveId(t) ==
  /\ Goto(t, "numbered", "loop")
  /\ next_id' = [next_id EXCEPT ![Kind(t)] = @ + 1]
  /\ SemPost(id_sem, Kind(t))
  /\ UNCHANGED <<bufferVars, access, tokenVars, id, roundVars,
                 print_sem, localVars, main>>

\* The unlocked loop condition.
Loop(t) ==
  /\ Goto(t, "loop", IF Progress(t) < ProductionLimit THEN "reserve" ELSE "done")
  /\ UNCHANGED <<bufferVars, access, tokenVars, idVars, roundVars,
                 print_sem, localVars, main>>

\* Faulty variant: the buffer is entered without waiting for access.
EnterUnlocked(t) ==
  /\ Goto(t, "enter", "inside")
  /\ UNCHANGED <<bufferVars, access, tokenVars, idVars, roundVars,
                 print_sem, localVars, main>>

Enter(t) ==
  /\ Goto(t, "enter", "inside")
  /\ SemWait(access, BufferOf[t])
  /\ UNCHANGED <<bufferVars, tokenVars, idVars, roundVars,
                 print_sem, localVars, main>>

\* Faulty variant: the early return keeps the token.
FindLimitKeepToken(t) ==
  /\ Goto(t, "inside", "undo_leave")
  /\ Progress(t) = ProductionLimit
  /\ UNCHANGED <<bufferVars, access, tokenVars, idVars, roundVars,
                 print_sem, localVars, main>>

\* The limit was reached while this thread waited: give the token back.
FindLimit(t) ==
  /\ Goto(t, "inside", "undo")
  /\ Progress(t) = ProductionLimit
  /\ UNCHANGED <<bufferVars, access, tokenVars, idVars, roundVars,
                 print_sem, localVars, main>>

StartPrint(t) ==
  /\ Goto(t, "print", "printing")
  /\ print_sem > 0 /\ print_sem' = print_sem - 1
  /\ UNCHANGED <<bufferVars, access, tokenVars, idVars, roundVars,
                 localVars, main>>

EndPrint(t) ==
  /\ Goto(t, "printing", "leave")
  /\ print_sem' = print_sem + 1
  /\ UNCHANGED <<bufferVars, access, tokenVars, idVars, roundVars,
                 localVars, main>>

\* sem_post(&b->access), at the end of a turn or before an early return.
Leave(t) ==
  /\ \/ Goto(t, "leave", "publish")
     \/ Goto(t, "undo_leave", "done")
  /\ SemPost(access, BufferOf[t])
  /\ UNCHANGED <<bufferVars, tokenVars, idVars, roundVars,
                 print_sem, localVars, main>>

\* sem_post(&b->to_consume): a producer publishes, a consumer gives back.
PostToConsume(t) ==
  /\ \/ t \in Producers /\ Goto(t, "publish", "loop")
     \/ t \in Consumers /\ Goto(t, "undo", "undo_leave")
  /\ SemPost(to_consume, BufferOf[t])
  /\ UNCHANGED <<bufferVars, access, empty_slots, idVars, roundVars,
                 print_sem, localVars, main>>

\* sem_post(&b->empty_slots): a consumer frees a slot, a producer gives back.
PostEmptySlots(t) ==
  /\ \/ t \in Consumers /\ Goto(t, "publish", "count")
     \/ t \in Producers /\ Goto(t, "undo", "undo_leave")
  /\ SemPost(empty_slots, BufferOf[t])
  /\ UNCHANGED <<bufferVars, access, to_consume, idVars, roundVars,
                 print_sem, localVars, main>>

-----------------------------------------------------------------------------
(* producer().                                                             *)

ReserveSlot(p) ==
  /\ Goto(p, "reserve", "enter")
  /\ SemWait(empty_slots, BufferOf[p])
  /\ UNCHANGED <<bufferVars, access, to_consume, idVars, roundVars,
                 print_sem, localVars, main>>

\* Faulty variant: produce_pos does not wrap around.
PutNoWrap(p) ==
  LET b == BufferOf[p] IN
  /\ Goto(p, "inside", "print")
  /\ produced[b] # ProductionLimit
  /\ \E d \in Products : buffer' = [buffer EXCEPT ![b][produce_pos[b]] = d]
  /\ produce_pos' = [produce_pos EXCEPT ![b] = @ + 1]
  /\ produced' = [produced EXCEPT ![b] = @ + 1]
  /\ UNCHANGED <<consume_pos, consumed, access, tokenVars, idVars, roundVars,
                 print_sem, localVars, main>>

\* The product is drawn before the waits, where nothing looks at it yet.
Put(p) ==
  LET b == BufferOf[p] IN
  /\ Goto(p, "inside", "print")
  /\ produced[b] # ProductionLimit
  /\ \E d \in Products : buffer' = [buffer EXCEPT ![b][produce_pos[b]] = d]
  /\ produce_pos' = [produce_pos EXCEPT ![b] = (@ + 1) % BufferSize]
  /\ produced' = [produced EXCEPT ![b] = @ + 1]
  /\ UNCHANGED <<consume_pos, consumed, access, tokenVars, idVars, roundVars,
                 print_sem, localVars, main>>

-----------------------------------------------------------------------------
(* consumer().                                                             *)

ReserveProduct(c) ==
  /\ Goto(c, "reserve", "enter")
  /\ SemWait(to_consume, BufferOf[c])
  /\ UNCHANGED <<bufferVars, access, empty_slots, idVars, roundVars,
                 print_sem, localVars, main>>

\* Faulty variant: the product is read after consume_pos has moved.
TakeFromNextSlot(c) ==
  LET b == BufferOf[c]
      next == (consume_pos[b] + 1) % BufferSize IN
  /\ Goto(c, "inside", "print")
  /\ consumed[b] # ProductionLimit
  /\ product' = [product EXCEPT ![c] = buffer[b][next]]
  /\ buffer' = [buffer EXCEPT ![b][consume_pos[b]] = 0]
  /\ consume_pos' = [consume_pos EXCEPT ![b] = next]
  /\ consumed' = [consumed EXCEPT ![b] = @ + 1]
  /\ consumer_consumed' = [consumer_consumed EXCEPT ![c] = @ + 1]
  /\ UNCHANGED <<produce_pos, produced, access, tokenVars, idVars, roundVars,
                 print_sem, main>>

Take(c) ==
  LET b == BufferOf[c] IN
  /\ Goto(c, "inside", "print")
  /\ consumed[b] # ProductionLimit
  /\ product' = [product EXCEPT ![c] = buffer[b][consume_pos[b]]]
  /\ buffer' = [buffer EXCEPT ![b][consume_pos[b]] = 0]
  /\ consume_pos' = [consume_pos EXCEPT ![b] = (@ + 1) % BufferSize]
  /\ consumed' = [consumed EXCEPT ![b] = @ + 1]
  /\ consumer_consumed' = [consumer_consumed EXCEPT ![c] = @ + 1]
  /\ UNCHANGED <<produce_pos, produced, access, tokenVars, idVars, roundVars,
                 print_sem, main>>

EnterCount(c) ==
  /\ Goto(c, "count", "counting")
  /\ left_sem > 0 /\ left_sem' = left_sem - 1
  /\ UNCHANGED <<bufferVars, access, tokenVars, idVars, consumers_left,
                 consumers_sems, i, print_sem, localVars, main>>

CountDown(c) ==
  /\ Goto(c, "counting", IF consumers_left - 1 = 0 THEN "reset" ELSE "counted")
  /\ consumers_left' = consumers_left - 1
  /\ UNCHANGED <<bufferVars, access, tokenVars, idVars, left_sem,
                 consumers_sems, i, print_sem, localVars, main>>

\* One turn of the loop of reset_consumer_sems().
WakeNext(c) ==
  /\ pc[c] = "reset"
  /\ i[c] < ConsumerCount
  /\ SemPost(consumers_sems, i[c])
  /\ i' = [i EXCEPT ![c] = @ + 1]
  /\ UNCHANGED <<bufferVars, access, tokenVars, idVars, consumers_left,
                 left_sem, print_sem, localVars, pc, main>>

\* Faulty variant: _Consumers_left is not set again.
StartRoundNoReset(c) ==
  /\ Goto(c, "reset", "counted")
  /\ i[c] = ConsumerCount
  /\ i' = [i EXCEPT ![c] = 0]
  /\ UNCHANGED <<bufferVars, access, tokenVars, idVars, consumers_left,
                 left_sem, consumers_sems, print_sem, localVars, main>>

StartRound(c) ==
  /\ Goto(c, "reset", "counted")
  /\ i[c] = ConsumerCount
  /\ i' = [i EXCEPT ![c] = 0]
  /\ consumers_left' = ConsumerCount
  /\ UNCHANGED <<bufferVars, access, tokenVars, idVars, left_sem,
                 consumers_sems, print_sem, localVars, main>>

\* Faulty variant: the consumer does not wait for the others.
LeaveCountRunning(c) ==
  /\ Goto(c, "counted", "loop")
  /\ left_sem' = left_sem + 1
  /\ UNCHANGED <<bufferVars, access, tokenVars, idVars, consumers_left,
                 consumers_sems, i, print_sem, localVars, main>>

LeaveCount(c) ==
  /\ Goto(c, "counted", "wait_round")
  /\ left_sem' = left_sem + 1
  /\ UNCHANGED <<bufferVars, access, tokenVars, idVars, consumers_left,
                 consumers_sems, i, print_sem, localVars, main>>

WaitRound(c) ==
  /\ Goto(c, "wait_round", "loop")
  /\ SemWait(consumers_sems, id[c])
  /\ UNCHANGED <<bufferVars, access, tokenVars, idVars, consumers_left,
                 left_sem, i, print_sem, localVars, main>>

-----------------------------------------------------------------------------
\* main() joins every thread, frees what it allocated and returns.
JoinAll ==
  /\ main = "joining"
  /\ \A t \in Threads : pc[t] = "done"
  /\ main' = "finished"
  /\ UNCHANGED <<bufferVars, access, tokenVars, idVars, roundVars, print_sem,
                 localVars, pc>>

Exited == main = "finished" /\ UNCHANGED vars

Shared(t) ==
  \/ TakeId(t) \/ LeaveId(t) \/ Loop(t) \/ Enter(t) \/ FindLimit(t)
  \/ StartPrint(t) \/ EndPrint(t) \/ Leave(t)
  \/ PostToConsume(t) \/ PostEmptySlots(t)

Producer(p) == ReserveSlot(p) \/ Put(p)

Consumer(c) ==
  \/ ReserveProduct(c) \/ Take(c)
  \/ EnterCount(c) \/ CountDown(c) \/ WakeNext(c) \/ StartRound(c)
  \/ LeaveCount(c) \/ WaitRound(c)

Next ==
  \/ \E t \in Threads : Shared(t)
  \/ \E p \in Producers : Producer(p)
  \/ \E c \in Consumers : Consumer(c)
  \/ JoinAll
  \/ Exited

\* Every behaviour is finite, so all it takes is that the operating system
\* keeps running some thread that can run.
Spec == Init /\ [][Next]_vars
FairSpec == Spec /\ WF_vars(Next)

-----------------------------------------------------------------------------
(* What threads hold, by where they are.                                   *)

Inside(t) ==
  pc[t] \in {"inside", "print", "printing", "leave", "undo", "undo_leave"}

\* t has waited for its token (an empty slot, a product) and not yet used it;
\* t has used its token and not yet posted the one it makes for the others.
Reserved(t) == pc[t] \in {"enter", "inside", "undo"}
Owing(t)    == pc[t] \in {"print", "printing", "leave", "publish"}

ReservedAt(b, S) == {t \in S : BufferOf[t] = b /\ Reserved(t)}
OwingAt(b, S)    == {t \in S : BufferOf[t] = b /\ Owing(t)}
Stored(b)        == produced[b] - consumed[b]

-----------------------------------------------------------------------------
Labels == {"start", "numbered", "loop", "reserve", "enter", "inside", "print",
           "printing", "leave", "publish", "undo", "undo_leave", "done"}
RoundLabels == {"count", "counting", "reset", "counted", "wait_round"}
Slots == 0..BufferSize-1

\* The type of every variable, with the bounds of the counters.
TypeOK ==
  /\ buffer \in [Buffers -> [Slots -> Products \cup {0}]]
  /\ produce_pos \in [Buffers -> Slots]
  /\ consume_pos \in [Buffers -> Slots]
  /\ produced \in [Buffers -> 0..ProductionLimit]
  /\ consumed \in [Buffers -> 0..ProductionLimit]
  /\ access \in [Buffers -> Nat]
  /\ to_consume \in [Buffers -> Nat]
  /\ empty_slots \in [Buffers -> Nat]
  /\ next_id \in [{"producer", "consumer"} -> Nat]
  /\ id_sem \in [{"producer", "consumer"} -> Nat]
  /\ consumers_left \in Int
  /\ left_sem \in Nat
  /\ consumers_sems \in [0..ConsumerCount-1 -> Nat]
  /\ print_sem \in Nat
  /\ pc \in [Threads -> Labels \cup RoundLabels]
  /\ \A p \in Producers : pc[p] \in Labels
  /\ id \in [Threads -> Int]
  /\ product \in [Consumers -> Products \cup {0}]
  /\ consumer_consumed \in [Consumers -> Nat]
  /\ i \in [Consumers -> 0..ConsumerCount]
  /\ main \in {"joining", "finished"}

\* A producer and a consumer (or two of a kind) never use the same buffer at
\* the same time: the third problem the README of the project lists.
BufferExclusive ==
  \A t, u \in Threads :
    BufferOf[t] = BufferOf[u] /\ Inside(t) /\ Inside(u) => t = u

\* Every slot of a buffer is accounted for: it is a token of empty_slots, or
\* reserved by a producer, or holds a product, or was emptied by a consumer
\* that has yet to post it; and every stored product is a token of
\* to_consume, reserved by a consumer, or not yet published.  No early
\* return (main.c:99-104, 150-155) loses or duplicates a token.
TokenAccounting ==
  \A b \in Buffers :
    /\ empty_slots[b] + Cardinality(ReservedAt(b, Producers)) + Stored(b)
         + Cardinality(OwingAt(b, Consumers)) = BufferSize
    /\ to_consume[b] + Cardinality(ReservedAt(b, Consumers))
         + Cardinality(OwingAt(b, Producers)) = Stored(b)

\* The comments at main.c:83-86 and 136-139: no two threads of a kind get the
\* same id; and a consumer's id is an index of _Consumers_sems.
UniqueIds ==
  /\ \A t, u \in Threads :
       Kind(t) = Kind(u) /\ id[t] = id[u] /\ id[t] # -1 => t = u
  /\ \A c \in Consumers : id[c] < ConsumerCount

\* README: a consumer that has more data than another one waits for it; so no
\* consumer is ever more than one product ahead of another, whatever buffers
\* they work on.
ConsumersInStep ==
  \A c, d \in Consumers : consumer_consumed[c] <= consumer_consumed[d] + 1

\* A consumer that gets a product token always finds a product to take, so
\* that the early return of consumer() (main.c:150-155) is never taken.
TokenMeansProduct ==
  \A c \in Consumers : pc[c] = "inside" => Stored(BufferOf[c]) > 0

\* main() joins all its threads and returns, and then every product was made
\* and consumed: no thread waits forever for a slot, a product, a round or a
\* lock, and none leaves early.
Termination ==
  <>(/\ main = "finished"
     /\ \A b \in Buffers : /\ produced[b] = ProductionLimit
                          /\ consumed[b] = ProductionLimit)

-----------------------------------------------------------------------------
\* The products in buffer b, oldest first, as the abstract queue.
QueueOf(b) ==
  [k \in 1..Stored(b) |-> buffer[b][(consume_pos[b] + k - 1) % BufferSize]]

Promise == INSTANCE SynchronizedBuffers WITH
  queue    <- [b \in Buffers |-> QueueOf(b)],
  puts     <- produced,
  taken    <- consumer_consumed,
  received <- product

\* The threads together behave as bounded FIFO buffers whose consumers wait
\* for each other: the three problems of the README and its extension.
KeepsPromise == Promise!Spec
=============================================================================
