----------------------------- MODULE FileSystem -----------------------------
(***************************************************************************)
(* "Operating Systems/Project2": a file system on a virtual disk.  Files   *)
(* are lists of portions (runs of consecutive blocks); the allocation      *)
(* table fs_dat and the file table fs_fat live in memory from mount_fs to  *)
(* umount_fs, while data blocks go to the disk at once.  One call of the   *)
(* library is one action, except that fs_write and fs_truncate take one    *)
(* action per turn of their loops, so that the process may die there.      *)
(*                                                                         *)
(* A call that returns -1 and changes nothing is not an action.            *)
(***************************************************************************)
EXTENDS Integers, FiniteSets, Sequences, SequencesExt

CONSTANTS
  Names,       \* names of files
  Versions,    \* tells apart the bytes of different writes to one place
  BlockSize,   \* BLOCK_SIZE
  DataBlocks,  \* size of fs_dat.blocks; half of DISK_BLOCKS
  MaxFiles,    \* size of fs_fat.entry
  MaxOpen,     \* size of fs_fildes
  Radix,       \* values of a byte
  Amounts,     \* the byte counts, offsets and lengths clients pass
  MaxSize,     \* bound: no write goes beyond this offset
  MaxMounts,   \* bound: successful calls of mount_fs
  MaxUpdates   \* bound: calls of fs_write and fs_truncate

ASSUME SizesAssumption ==
  /\ {BlockSize, DataBlocks, MaxFiles, MaxOpen} \subseteq Nat \ {0}
  /\ Radix \in Nat \ {0, 1} /\ {MaxSize, MaxMounts, MaxUpdates} \subseteq Nat
  /\ Amounts \subseteq Nat

VARIABLES
  mounted,     \* also: the disk is open
  dat,         \* fs_dat.blocks: 1 for a block in use
  file_count,  \* fs_fat.file_count
  entry,       \* fs_fat.entry, its non-NULL elements
  fildes,      \* fs_fildes, its non-NULL elements
  call,        \* locals of the call in progress, or Idle
  saved,       \* the metadata on the disk (blocks 0, 1, 2+i)
  disk,        \* the data blocks on the disk
  mounts,      \* successful calls of mount_fs so far
  updates      \* calls of fs_write and fs_truncate so far

memoryVars == <<mounted, dat, file_count, entry, fildes, call>>
diskVars   == <<saved, disk>>
counters   == <<mounts, updates>>
vars       == <<memoryVars, diskVars, counters>>

\* Data blocks fill the second half of the disk.
FirstBlock == DataBlocks
BlockNumbers == FirstBlock..FirstBlock+DataBlocks-1

Empty         == [x \in {} |-> x]
With(f, x, v) == [y \in DOMAIN f \cup {x} |-> IF y = x THEN v ELSE f[y]]
Without(f, x) == [y \in DOMAIN f \ {x} |-> f[y]]
Least(S)      == CHOOSE x \in S : \A y \in S : x <= y

Idle    == [op |-> "idle"]
Running == mounted /\ call = Idle

NoBlockUsed == [k \in 0..DataBlocks-1 |-> 0]
ErasedByte  == <<>>
ErasedDisk  == [b \in BlockNumbers |-> [o \in 0..BlockSize-1 |-> ErasedByte]]
NothingSaved == [dat |-> NoBlockUsed, count |-> 0, rows |-> <<>>]

\* Memory of a process that has not mounted anything yet.
FreshMemory ==
  /\ mounted' = FALSE
  /\ dat' = NoBlockUsed
  /\ file_count' = 0
  /\ entry' = Empty
  /\ fildes' = Empty
  /\ call' = Idle

\* The disk was made by an earlier make_fs.
Init ==
  /\ mounted = FALSE
  /\ dat = NoBlockUsed
  /\ file_count = 0
  /\ entry = Empty
  /\ fildes = Empty
  /\ call = Idle
  /\ saved = NothingSaved
  /\ disk = ErasedDisk
  /\ mounts = 0
  /\ updates = 0

-----------------------------------------------------------------------------
(* Portions.                                                               *)

BlocksOf(p) == p.start..p.start+p.length-1
LastBlock(p) == p.start + p.length - 1

SetOfBlocks(portions) == UNION {BlocksOf(portions[k]) : k \in DOMAIN portions}

\* The loop "while(blocks > 0)": portion and block that hold block number n
\* of a file, counted from 0.  One turn passes one portion.
Walk(portions, n) ==
  LET turn[t \in 0..Len(portions)] ==
        IF t = 0 THEN [portion |-> 1, blocks |-> n]
        ELSE LET at == turn[t - 1] IN
             IF at.portion <= Len(portions) /\ at.blocks >= portions[at.portion].length
             THEN [portion |-> at.portion + 1,
                   blocks  |-> at.blocks - portions[at.portion].length]
             ELSE at
      end == turn[Len(portions)]
  IN  [portion |-> end.portion, block |-> portions[end.portion].start + end.blocks]

\* Faulty variant: one block too many is taken from a portion.
AfterLate(portions, at) ==
  IF at.block > LastBlock(portions[at.portion])
  THEN [portion |-> at.portion + 1, block |-> portions[at.portion + 1].start]
  ELSE [at EXCEPT !.block = @ + 1]

\* Where the loops of fs_read and fs_write go from a block to the next one.
After(portions, at) ==
  IF at.block + 1 > LastBlock(portions[at.portion])
  THEN [portion |-> at.portion + 1, block |-> portions[at.portion + 1].start]
  ELSE [at EXCEPT !.block = @ + 1]

\* fs_dat.blocks[b - 4096] == 0.  The byte that follows the array is
\* fs_fat.file_count as the makefile links the program, and counts the file
\* that is being written: it is not 0.
IsFree(b) == b \in BlockNumbers /\ dat[b - FirstBlock] = 0

\* allocate_free_block looks for the first free block.
FreeBlocks == {b \in BlockNumbers : IsFree(b)}
Mark(b)    == [dat EXCEPT ![b - FirstBlock] = 1]

\* A file gets one more block: the next one on the disk if it is free, else
\* the first free one, as a new portion.  (Faulty variant: the next one in
\* any case.)
NextBlock(portions) == LastBlock(portions[Len(portions)]) + 1
ContiguousAlways(portions) == portions # <<>>

Contiguous(portions) == portions # <<>> /\ IsFree(NextBlock(portions))
CanGrow == FreeBlocks # {}
NewBlock(portions)  == IF Contiguous(portions) THEN NextBlock(portions)
                                               ELSE Least(FreeBlocks)
Grown(portions) ==
  IF Contiguous(portions)
  THEN [portions EXCEPT ![Len(portions)].length = @ + 1]
  ELSE Append(portions, [start |-> NewBlock(portions), length |-> 1])

-----------------------------------------------------------------------------
(* make_fs, mount_fs, umount_fs, and the end of the process.               *)

\* On an unmounted disk; free_fildes() kills the process if a descriptor was
\* left open, which leaves the same state.  On a mounted disk open_disk()
\* fails, after make_disk() has erased it.
MakeFs ==
  /\ call = Idle
  /\ saved' = NothingSaved
  /\ disk' = ErasedDisk
  /\ IF mounted THEN UNCHANGED memoryVars ELSE FreshMemory
  /\ UNCHANGED counters

\* load_meta reads the bytes of portions and their number as signed chars.
Signed(byte) == IF byte >= Radix \div 2 THEN byte - Radix ELSE byte
Reload(x)    == Signed(x \div Radix % Radix) * Radix + Signed(x % Radix)

LoadPortions(portions) ==
  [k \in 1..Reload(Len(portions)) |->
     [start  |-> Reload(portions[k].start),
      length |-> Reload(portions[k].length)]]

LoadRow(row) == [row EXCEPT !.portions = LoadPortions(@)]

\* Faulty variant: the allocation table is not loaded.
LoadedMarksNone == dat

LoadedMarks == saved.dat

\* Nothing clears the tables before they are loaded; a process mounts once,
\* as the repository's programs do.
MemoryIsFresh == DOMAIN entry = {} /\ DOMAIN fildes = {}

Mount ==
  /\ ~mounted /\ MemoryIsFresh
  /\ mounts < MaxMounts /\ mounts' = mounts + 1
  /\ mounted' = TRUE
  /\ dat' = LoadedMarks
  /\ file_count' = saved.count
  /\ entry' = [i \in DOMAIN entry \cup (0..saved.count-1) |->
                 IF i < saved.count THEN LoadRow(saved.rows[i + 1]) ELSE entry[i]]
  /\ UNCHANGED <<fildes, call, diskVars, updates>>

\* save_meta writes the files of the table one after the other, without
\* holes: what it has written before it looks at entry i.
RowsBefore[i \in 0..MaxFiles] ==
  IF i = 0 THEN <<>>
  ELSE IF i - 1 \in DOMAIN entry THEN Append(RowsBefore[i - 1], entry[i - 1])
                                 ELSE RowsBefore[i - 1]
Rows == RowsBefore[MaxFiles]

\* Faulty variant: the allocation table is not saved.
MetaOldMarks == [dat |-> saved.dat, count |-> file_count, rows |-> Rows]

Meta == [dat |-> dat, count |-> file_count, rows |-> Rows]

Umount ==
  /\ Running
  /\ mounted' = FALSE
  /\ saved' = Meta
  /\ UNCHANGED <<dat, file_count, entry, fildes, call, disk, counters>>

\* The process ends, or dies: in fs_truncate, for an empty file.
Exit ==
  /\ FreshMemory
  /\ UNCHANGED <<diskVars, counters>>

-----------------------------------------------------------------------------
(* Files and descriptors.                                                  *)

\* filename_exists and file_opened.
SlotsOf(n) == {i \in DOMAIN entry : entry[i].name = n}
Opened(n)  == \E fd \in DOMAIN fildes : fildes[fd].name = n

FreeSlots  == (0..MaxFiles-1) \ DOMAIN entry
FreeFildes == (0..MaxOpen-1) \ DOMAIN fildes

Create(n) ==
  /\ Running
  /\ file_count < MaxFiles /\ SlotsOf(n) = {} /\ FreeSlots # {}
  /\ entry' = With(entry, Least(FreeSlots),
                   [name |-> n, size |-> 0, portions |-> <<>>])
  /\ file_count' = file_count + 1
  /\ UNCHANGED <<mounted, dat, fildes, call, diskVars, counters>>

\* Faulty variant: an open file can be deleted.
CanDeleteOpen(n) == SlotsOf(n) # {}

CanDelete(n) == SlotsOf(n) # {} /\ ~Opened(n)

\* The loop over the blocks of a portion runs from start to length.
Unmarked(portions) ==
  [k \in DOMAIN dat |->
     IF \E p \in Range(portions) : k + FirstBlock \in p.start..p.length-1
     THEN 0 ELSE dat[k]]

\* Faulty variant: file_count is not decreased.
DeleteNoCount(n) ==
  /\ Running /\ CanDelete(n)
  /\ LET e == Least(SlotsOf(n))
     IN  dat' = Unmarked(entry[e].portions) /\ entry' = Without(entry, e)
  /\ UNCHANGED <<mounted, file_count, fildes, call, diskVars, counters>>

Delete(n) ==
  /\ Running /\ CanDelete(n)
  /\ LET e == Least(SlotsOf(n))
     IN  dat' = Unmarked(entry[e].portions) /\ entry' = Without(entry, e)
  /\ file_count' = file_count - 1
  /\ UNCHANGED <<mounted, fildes, call, diskVars, counters>>

Open(n) ==
  /\ Running
  /\ SlotsOf(n) # {} /\ FreeFildes # {}
  /\ fildes' = With(fildes, Least(FreeFildes),
                    [seek |-> 0, entry |-> Least(SlotsOf(n)), name |-> n])
  /\ UNCHANGED <<mounted, dat, file_count, entry, call, diskVars, counters>>

Close(fd) ==
  /\ Running /\ fd \in DOMAIN fildes
  /\ fildes' = Without(fildes, fd)
  /\ UNCHANGED <<mounted, dat, file_count, entry, call, diskVars, counters>>

FileOf(fd) == entry[fildes[fd].entry]

Lseek(fd, offset) ==
  /\ Running /\ fd \in DOMAIN fildes
  /\ offset <= FileOf(fd).size
  /\ fildes' = [fildes EXCEPT ![fd].seek = offset]
  /\ UNCHANGED <<mounted, dat, file_count, entry, call, diskVars, counters>>

-----------------------------------------------------------------------------
(* fs_read.                                                                *)

Min2(x, y) == IF x < y THEN x ELSE y
Max2(x, y) == IF x > y THEN x ELSE y

\* How many bytes fs_read returns, and which.
ReadLength(fd, n) == Min2(n, Max2(FileOf(fd).size - fildes[fd].seek, 0))

ReadBytes(fd, n) ==
  LET seek == fildes[fd].seek
      portions == FileOf(fd).portions
      at[k \in 0..DataBlocks] ==
        IF k = 0 THEN Walk(portions, seek \div BlockSize)
                 ELSE After(portions, at[k - 1])
  IN  [k \in 1..ReadLength(fd, n) |->
         LET p == seek + k - 1
         IN  disk[at[p \div BlockSize - seek \div BlockSize].block][p % BlockSize]]

Read(fd, n) ==
  /\ Running /\ fd \in DOMAIN fildes
  /\ fildes' = [fildes EXCEPT ![fd].seek = @ + ReadLength(fd, n)]
  /\ UNCHANGED <<mounted, dat, file_count, entry, call, diskVars, counters>>

-----------------------------------------------------------------------------
(* fs_write.                                                               *)

\* The block at the position is allocated if the file ends there.
StartWrite(fd, n, v) ==
  LET e == fildes[fd].entry
      seek == fildes[fd].seek
      size == entry[e].size
      portions == IF size = 0 THEN <<>> ELSE entry[e].portions
      atEnd == size = 0 \/ (size = seek /\ seek % BlockSize = 0)
  IN
  /\ Running /\ fd \in DOMAIN fildes
  /\ updates < MaxUpdates /\ updates' = updates + 1
  /\ seek <= size /\ seek + n <= MaxSize
  /\ \/ /\ atEnd /\ CanGrow
        /\ entry' = [entry EXCEPT ![e].portions = Grown(portions)]
        /\ dat' = Mark(NewBlock(portions))
     \/ ~atEnd /\ UNCHANGED <<entry, dat>>
  /\ call' = [op |-> "write", fd |-> fd, left |-> n, seek |-> seek, version |-> v,
              at |-> Walk(entry'[e].portions, seek \div BlockSize)]
  /\ UNCHANGED <<mounted, file_count, fildes, diskVars, mounts>>

\* One turn per block: the part of the block that the buffer covers.
Offset    == call.seek % BlockSize
Piece     == Min2(call.left, BlockSize - Offset)
WriteSlot == fildes[call.fd].entry
Writing   == call.op = "write"

PutPiece ==
  disk' = [disk EXCEPT ![call.at.block] =
             [o \in 0..BlockSize-1 |->
                IF o \in Offset..Offset+Piece-1
                THEN <<entry[WriteSlot].name, call.seek + o - Offset, call.version>>
                ELSE @[o]]]

Advance(at) ==
  call' = [call EXCEPT !.left = @ - Piece, !.seek = @ + Piece, !.at = at]

HasNext == \/ call.at.block < LastBlock(entry[WriteSlot].portions[call.at.portion])
           \/ call.at.portion < Len(entry[WriteSlot].portions)

WriteOn ==
  /\ Writing /\ Piece < call.left /\ HasNext
  /\ PutPiece
  /\ Advance(After(entry[WriteSlot].portions, call.at))
  /\ UNCHANGED <<mounted, dat, file_count, entry, fildes, saved, counters>>

WriteGrowing ==
  LET portions == entry[WriteSlot].portions IN
  /\ Writing /\ Piece < call.left /\ ~HasNext
  /\ CanGrow
  /\ PutPiece
  /\ entry' = [entry EXCEPT ![WriteSlot].portions = Grown(portions)]
  /\ dat' = Mark(NewBlock(portions))
  /\ Advance([portion |-> Len(Grown(portions)), block |-> NewBlock(portions)])
  /\ UNCHANGED <<mounted, file_count, fildes, saved, counters>>

\* Faulty variant: the file ends where the last write did.
SizeAtPosition(size) == call.seek + Piece

SizeAfter(size) == Max2(size, call.seek + Piece)

\* The last piece, or the disk is full: the size and the position are updated.
EndWrite ==
  /\ Writing
  /\ Piece = call.left \/ (~HasNext /\ ~CanGrow)
  /\ PutPiece
  /\ entry' = [entry EXCEPT ![WriteSlot].size = SizeAfter(@)]
  /\ fildes' = [fildes EXCEPT ![call.fd].seek = call.seek + Piece]
  /\ call' = Idle
  /\ UNCHANGED <<mounted, dat, file_count, saved, counters>>

-----------------------------------------------------------------------------
(* fs_truncate.                                                            *)

\* An empty file has no last portion: the read of it kills the process (Exit).
StartTruncate(fd, length) ==
  /\ Running /\ fd \in DOMAIN fildes
  /\ updates < MaxUpdates /\ updates' = updates + 1
  /\ length <= FileOf(fd).size /\ FileOf(fd).portions # <<>>
  /\ fildes' = [fildes EXCEPT ![fd].seek = Min2(@, length)]
  /\ call' = IF FileOf(fd).size > length
             THEN [op |-> "truncate", entry |-> fildes[fd].entry, length |-> length]
             ELSE Idle
  /\ UNCHANGED <<mounted, dat, file_count, entry, diskVars, mounts>>

BytesInLastBlock(size) == IF size % BlockSize = 0 THEN BlockSize ELSE size % BlockSize

Shorter(f) == f.size - BytesInLastBlock(f.size)

\* Faulty variant: a cut at the end of a block leaves a block too many.
FreesBlockLate(f) == Shorter(f) > call.length

FreesBlock(f) == Shorter(f) >= call.length

\* The last portion loses its last block.
Shortened(portions) ==
  LET n == Len(portions)
  IN  IF portions[n].length = 1 THEN Front(portions)
      ELSE [portions EXCEPT ![n].length = @ - 1]

\* One turn frees the last block, or sets the size within it.
TruncateOn ==
  LET f == entry[call.entry]
      size == IF FreesBlock(f) THEN Shorter(f) ELSE call.length
  IN
  /\ call.op = "truncate"
  /\ \/ /\ FreesBlock(f)
        /\ dat' = [dat EXCEPT ![LastBlock(Last(f.portions)) - FirstBlock] = 0]
        /\ entry' = [entry EXCEPT ![call.entry] =
             [f EXCEPT !.size = size, !.portions = Shortened(f.portions)]]
     \/ /\ ~FreesBlock(f)
        /\ entry' = [entry EXCEPT ![call.entry].size = size]
        /\ UNCHANGED dat
  /\ call' = IF size > call.length THEN call ELSE Idle
  /\ UNCHANGED <<mounted, file_count, fildes, diskVars, counters>>

-----------------------------------------------------------------------------
Next ==
  \/ MakeFs \/ Mount \/ Umount \/ Exit
  \/ \E n \in Names : Create(n) \/ Delete(n) \/ Open(n)
  \/ \E fd \in DOMAIN fildes :
       \/ Close(fd)
       \/ \E n \in Amounts \ {0} : Read(fd, n) \/ \E v \in Versions : StartWrite(fd, n, v)
       \/ \E n \in Amounts : Lseek(fd, n) \/ StartTruncate(fd, n)
  \/ WriteOn \/ WriteGrowing \/ EndWrite
  \/ TruncateOn

Spec == Init /\ [][Next]_vars

-----------------------------------------------------------------------------
Portion == [start : Int, length : Int]
File    == [name : Names, size : 0..MaxSize, portions : Seq(Portion)]

TypeOK ==
  /\ mounted \in BOOLEAN
  /\ dat \in [0..DataBlocks-1 -> {0, 1}]
  /\ file_count \in 0..MaxFiles
  /\ DOMAIN entry \subseteq 0..MaxFiles-1
  /\ \A e \in DOMAIN entry : entry[e] \in File
  /\ DOMAIN fildes \subseteq 0..MaxOpen-1
  /\ \A fd \in DOMAIN fildes :
       fildes[fd] \in [seek : 0..MaxSize, entry : 0..MaxFiles-1, name : Names]
  /\ call.op \in {"idle", "write", "truncate"}
  /\ saved.count = Len(saved.rows)
  /\ DOMAIN disk = BlockNumbers

\* Blocks owned according to a table of files and an allocation table: every
\* block of a portion is on the disk and marked, and no two portions, of one
\* file or of two, share a block.
Owned(files, marks) ==
  \A i \in DOMAIN files : \A k \in DOMAIN files[i].portions :
    LET p == files[i].portions[k] IN
    /\ p.length > 0
    /\ BlocksOf(p) \subseteq {b \in BlockNumbers : marks[b - FirstBlock] = 1}
    /\ \A j \in DOMAIN files : \A l \in DOMAIN files[j].portions :
         <<i, k>> # <<j, l>> => BlocksOf(p) \cap BlocksOf(files[j].portions[l]) = {}

\* No block belongs to two files and no block of a file is free, through any
\* sequence of writes, truncations, deletions, restarts and full disks.
BlocksOwned == mounted => Owned(entry, dat)

\* So it is for the metadata on the disk, which a restart finds: it lists
\* every name once and is as consistent as it was at the last umount, though
\* blocks were given and taken since.
SavedTableSound ==
  /\ Owned(saved.rows, saved.dat)
  /\ \A i, j \in DOMAIN saved.rows :
       saved.rows[i].name = saved.rows[j].name => i = j

\* The blocks of a file, in order.
FileBlocks(portions) ==
  FlattenSeq([k \in DOMAIN portions |->
                [j \in 1..portions[k].length |-> portions[k].start + j - 1]])

BlocksNeeded(size) == (size + BlockSize - 1) \div BlockSize

\* Between calls a file has just the blocks that its size needs.
SizesCovered ==
  Running => \A e \in DOMAIN entry :
    Cardinality(SetOfBlocks(entry[e].portions)) = BlocksNeeded(entry[e].size)

\* A descriptor refers to the file it was opened for: a file is not deleted
\* while open, and no other file takes its place in the table.
DescriptorsValid ==
  mounted => \A fd \in DOMAIN fildes :
    /\ fildes[fd].entry \in DOMAIN entry
    /\ entry[fildes[fd].entry].name = fildes[fd].name
    /\ SlotsOf(fildes[fd].name) = {fildes[fd].entry}

\* The first len bytes of the blocks of a file.
Content(portions, len) ==
  LET blocks == FileBlocks(portions)
  IN  [k \in 1..len |-> disk[blocks[(k - 1) \div BlockSize + 1]][(k - 1) % BlockSize]]

\* fs_read, which walks from portion to portion, returns the bytes of the file
\* from the position on, as many as asked for if there are so many.
ReadsBack ==
  Running => \A fd \in DOMAIN fildes, n \in 1..MaxSize :
    LET f == FileOf(fd)
        seek == fildes[fd].seek
    IN  ReadBytes(fd, n) =
          SubSeq(Content(f.portions, f.size), seek + 1, Min2(seek + n, f.size))

\* A block that fs_delete's file had is free again (comment at
\* filesystem.c:411): every block that is marked belongs to some file.
DeleteFreesBlocks ==
  Running => \A b \in BlockNumbers :
    dat[b - FirstBlock] = 1 =>
      \E e \in DOMAIN entry : b \in SetOfBlocks(entry[e].portions)

\* The files, with their data, are on the disk (README of the project): what
\* mount_fs loads is what umount_fs saved.
LoadsWhatWasSaved ==
  \A k \in DOMAIN saved.rows : LoadRow(saved.rows[k]) = saved.rows[k]

-----------------------------------------------------------------------------
(* The store that the tables and the disk stand for.                       *)

\* The bytes a file has: while it is written those written so far, while it
\* is truncated those that will be left.
LengthOf(e) ==
  CASE call.op = "truncate" /\ call.entry = e -> call.length
    [] Writing /\ WriteSlot = e -> Max2(entry[e].size, call.seek)
    [] OTHER -> entry[e].size

Store ==
  IF ~mounted THEN Empty
  ELSE [n \in {entry[e].name : e \in DOMAIN entry} |->
          LET e == Least(SlotsOf(n)) IN Content(entry[e].portions, LengthOf(e))]

HandlesOf ==
  IF ~mounted THEN Empty
  ELSE [fd \in DOMAIN fildes |->
          [name |-> fildes[fd].name,
           pos  |-> IF Writing /\ call.fd = fd THEN call.seek ELSE fildes[fd].seek]]

SavedFile(n) == saved.rows[Least({k \in DOMAIN saved.rows : saved.rows[k].name = n})]

Durable ==
  [n \in {saved.rows[k].name : k \in DOMAIN saved.rows} |->
     Content(LoadPortions(SavedFile(n).portions), SavedFile(n).size)]

Promise == INSTANCE FileStore WITH
  Handles <- 0..MaxOpen-1, MaxWrite <- BlockSize,
  store <- Store, handles <- HandlesOf, durable <- Durable

\* The blocks, portions and tables together keep files: every call of the
\* library is a step (or no step) of FileStore.
KeepsFiles == Promise!Spec

\* If the process dies, a file that was neither written nor truncated nor
\* deleted since mount_fs is as it was at the last umount_fs: no step changes
\* the saved bytes of another file than the one it writes, unless that file
\* gave up blocks.
CrashKeepsFiles ==
  [][saved' = saved /\ disk' # disk =>
       \A n \in DOMAIN Durable :
         \/ Writing /\ fildes[call.fd].name = n
         \/ Durable'[n] = Durable[n]
         \/ ~\E e \in SlotsOf(n) :
              SetOfBlocks(SavedFile(n).portions) \subseteq SetOfBlocks(entry[e].portions)]_vars
=============================================================================
