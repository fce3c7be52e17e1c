------------------------ MODULE SynchronizedBuffers ------------------------
(***************************************************************************)
(* What "Operating Systems/Project1" promises, without threads, semaphores *)
(* or ring buffers: bounded first-in first-out buffers, nothing is put on  *)
(* a full buffer, nothing is taken from an empty one, and a consumer that  *)
(* has more products than another one waits for it.                        *)
(***************************************************************************)
EXTENDS Integers, Sequences

CONSTANTS
  Buffers,          \* the buffers
  Consumers,        \* the consumer threads
  BufferOf,         \* the buffer a thread works on
  BufferSize,       \* slots of one buffer
  ProductionLimit,  \* products made for one buffer over the whole run
  Products          \* the products

VARIABLES
  queue,    \* queue[b]: the products in buffer b, oldest first
  puts,     \* puts[b]: how many products were put into b so far
  taken,    \* taken[c]: how many products consumer c has received
  received  \* received[c]: the last product c received, 0 if none

vars == <<queue, puts, taken, received>>

Init ==
  /\ queue    = [b \in Buffers |-> <<>>]
  /\ puts     = [b \in Buffers |-> 0]
  /\ taken    = [c \in Consumers |-> 0]
  /\ received = [c \in Consumers |-> 0]

Put(b, d) ==
  /\ Len(queue[b]) < BufferSize
  /\ puts[b] < ProductionLimit
  /\ queue' = [queue EXCEPT ![b] = Append(@, d)]
  /\ puts'  = [puts EXCEPT ![b] = @ + 1]
  /\ UNCHANGED <<taken, received>>

\* Only a consumer that is not ahead of any other one may take a product.
Take(c) ==
  LET b == BufferOf[c] IN
  /\ queue[b] # <<>>
  /\ \A other \in Consumers : taken[c] <= taken[other]
  /\ queue'    = [queue EXCEPT ![b] = Tail(@)]
  /\ taken'    = [taken EXCEPT ![c] = @ + 1]
  /\ received' = [received EXCEPT ![c] = Head(queue[b])]
  /\ UNCHANGED puts

Next ==
  \/ \E b \in Buffers, d \in Products : Put(b, d)
  \/ \E c \in Consumers : Take(c)

Spec == Init /\ [][Next]_vars
=============================================================================
