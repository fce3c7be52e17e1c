----------------------------- MODULE FileStore -----------------------------
(***************************************************************************)
(* What "Operating Systems/Project2" promises, without blocks, portions or *)
(* tables: named files that keep the bytes written to them, descriptors    *)
(* with a position, and a disk that gives back what was there at umount.   *)
(***************************************************************************)
EXTENDS Integers, Sequences

CONSTANTS
  Names,     \* names of files
  Versions,  \* tells apart the bytes of different writes to one place
  Handles,   \* numbers of descriptors
  MaxWrite   \* bound: the bytes of one write

VARIABLES
  mounted,   \* TRUE between mount_fs and umount_fs
  store,     \* store[n]: the bytes of file n
  handles,   \* handles[h]: the file of an open descriptor, and its position
  durable    \* what store would be if the disk were mounted anew

vars == <<mounted, store, handles, durable>>

\* The byte a client writes at an offset of a file, and an erased byte.
Byte(n, offset, v) == <<n, offset, v>>
ErasedByte         == <<>>

Empty == [x \in {} |-> <<>>]
Without(f, x) == [y \in DOMAIN f \ {x} |-> f[y]]
With(f, x, v) == [y \in DOMAIN f \cup {x} |-> IF y = x THEN v ELSE f[y]]

Init ==
  /\ mounted = FALSE
  /\ store = Empty
  /\ handles = Empty
  /\ durable = Empty

Mount ==
  /\ ~mounted /\ mounted'
  /\ UNCHANGED <<handles, durable>>
  /\ store' = durable

Umount ==
  /\ mounted /\ ~mounted'
  /\ durable' = store
  /\ store' = Empty /\ handles' = Empty

\* The process ends without umount_fs.
Crash ==
  /\ ~mounted'
  /\ store' = Empty /\ handles' = Empty
  /\ UNCHANGED durable

\* make_fs erases the disk, also under a mounted file system.
MakeFs ==
  /\ UNCHANGED <<mounted, handles>>
  /\ durable' = Empty
  /\ store' = [n \in DOMAIN store |->
                 [k \in 1..Len(store[n]) |-> ErasedByte]]

Create(n) ==
  /\ mounted /\ UNCHANGED <<mounted, handles>>
  /\ n \notin DOMAIN store
  /\ store' = With(store, n, <<>>)
  /\ UNCHANGED durable

Delete(n) ==
  /\ mounted /\ UNCHANGED <<mounted, handles>>
  /\ n \in DOMAIN store
  /\ \A h \in DOMAIN handles : handles[h].name # n
  /\ store' = Without(store, n)
  /\ UNCHANGED durable

Open(h, n) ==
  /\ mounted /\ UNCHANGED mounted
  /\ n \in DOMAIN store /\ h \notin DOMAIN handles
  /\ handles' = With(handles, h, [name |-> n, pos |-> 0])
  /\ UNCHANGED <<store, durable>>

Close(h) ==
  /\ mounted /\ UNCHANGED mounted
  /\ h \in DOMAIN handles
  /\ handles' = Without(handles, h)
  /\ UNCHANGED <<store, durable>>

\* Descriptor h keeps its file and gets the position pos.
MovesTo(h, pos) ==
  /\ mounted /\ UNCHANGED mounted
  /\ h \in DOMAIN handles
  /\ handles' = [handles EXCEPT ![h].pos = pos]

\* Read on or seek: the position moves within the file.
Move(h) ==
  /\ \E pos \in 0..Len(store[handles[h].name]) : MovesTo(h, pos)
  /\ UNCHANGED <<store, durable>>

\* Some bytes are written at the position.  What the disk would give back for
\* the files saved on it may change, not which they are or how long.
Write(h) ==
  LET n == handles[h].name
      pos == handles[h].pos
      old == store[n]
  IN
  /\ pos <= Len(old)
  /\ \E count \in 1..MaxWrite, v \in Versions :
       /\ MovesTo(h, pos + count)
       /\ store' = [store EXCEPT ![n] =
                     [k \in 1..(IF pos + count > Len(old) THEN pos + count
                                                          ELSE Len(old)) |->
                        IF k \in pos+1..pos+count THEN Byte(n, k - 1, v) ELSE old[k]]]
  /\ DOMAIN durable' = DOMAIN durable
  /\ \A d \in DOMAIN durable : Len(durable'[d]) = Len(durable[d])

Truncate(h) ==
  LET n == handles[h].name IN
  /\ \E len \in 0..Len(store[n]) :
       /\ MovesTo(h, IF handles[h].pos > len THEN len ELSE handles[h].pos)
       /\ store' = [store EXCEPT ![n] = SubSeq(@, 1, len)]
  /\ UNCHANGED durable

Next ==
  \/ Mount \/ Umount \/ Crash \/ MakeFs
  \/ \E n \in Names : Create(n) \/ Delete(n) \/ \E h \in Handles : Open(h, n)
  \/ \E h \in DOMAIN handles : Close(h) \/ Move(h) \/ Write(h) \/ Truncate(h)

Spec == Init /\ [][Next]_vars
=============================================================================
