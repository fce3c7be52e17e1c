------------------------ MODULE FileSystemRefinement ------------------------
(***************************************************************************)
(* The blocks, portions, tables and descriptors of FileSystem implement    *)
(* the files of FileStore: for any numbers of files and blocks, and any    *)
(* size of a block.                                                        *)
(***************************************************************************)
EXTENDS FileSystemProofs

-----------------------------------------------------------------------------
(* Beginnings of files.                                                    *)

\* q is the beginning of ps: the last portion of q may be cut short.
Begins(q, ps) ==
  /\ Len(q) <= Len(ps)
  /\ \A k \in 1..Len(q) : /\ q[k].start = ps[k].start /\ q[k].length <= ps[k].length
                          /\ k # Len(q) => q[k] = ps[k]

\* A position in the beginning of a file is one in the file, with the same
\* blocks before it.
LEMMA BeginsAt ==
  ASSUME NEW ps, Tidy(ps), NEW q, Tidy(q), Begins(q, ps), NEW at, At(q, at)
  PROVE  At(ps, at) /\ UpTo(q, at) = UpTo(ps, at)
<1> DEFINE k == at.portion
<1>1. /\ k \in 1..Len(q) /\ k \in 1..Len(ps) /\ Len(q) \in Nat /\ Len(ps) \in Nat
      /\ at.block \in BlocksOf(q[k])
  BY TidyParts DEF At, Begins
<1>2. q[k].start = ps[k].start /\ q[k].length <= ps[k].length
  BY <1>1 DEF Begins
<1>3. /\ q[k].start \in Int /\ q[k].length \in Int /\ ps[k].start \in Int /\ ps[k].length \in Int
  BY <1>1, TidyParts
<1>4. at.block \in BlocksOf(ps[k])
  BY <1>1, <1>2, <1>3 DEF BlocksOf
<1>5. \A l \in 1..k-1 : q[l] = ps[l]
  <2> TAKE l \in 1..k-1
  <2>1. l \in 1..Len(q) /\ l # Len(q)
    BY <1>1
  <2> QED BY <2>1 DEF Begins
<1>6. Before(q, k) = Before(ps, k)
  BY <1>5 DEF Before
<1> QED BY <1>1, <1>2, <1>4, <1>6 DEF At, UpTo

\* The blocks of the beginning are the first ones.
LEMMA BeginsBlocks ==
  ASSUME NEW ps, Tidy(ps), NEW q, Tidy(q), Begins(q, ps)
  PROVE  \A x \in 1..Cardinality(SetOfBlocks(q)) : FileBlocks(q)[x] = FileBlocks(ps)[x]
<1> TAKE x \in 1..Cardinality(SetOfBlocks(q))
<1> DEFINE at == Walk(q, x - 1)
           c == Cardinality(SetOfBlocks(q))
<1>1. x - 1 \in Nat /\ x - 1 < c /\ (x - 1) + 1 = x
  <2>1. c \in Nat /\ x \in 1..c
    BY TidyFinite
  <2> HIDE DEF c
  <2> QED BY <2>1
<1>2. at \in [portion : Int, block : Int] /\ At(q, at) /\ Cardinality(UpTo(q, at)) = x
  BY <1>1, WalkFinds
<1> HIDE DEF at, c
<1>3. At(ps, at) /\ UpTo(q, at) = UpTo(ps, at)
  BY <1>2, BeginsAt
<1>4. FileBlocks(q)[Cardinality(UpTo(q, at))] = at.block
  BY <1>2, FileBlocksAre
<1>5. FileBlocks(ps)[Cardinality(UpTo(ps, at))] = at.block
  BY <1>2, <1>3, FileBlocksAre
<1> QED BY <1>2, <1>3, <1>4, <1>5

\* No block comes twice.
LEMMA BlocksDiffer ==
  ASSUME NEW ps, Tidy(ps), NEW x \in 1..Cardinality(SetOfBlocks(ps)),
         NEW y \in 1..Cardinality(SetOfBlocks(ps)), FileBlocks(ps)[x] = FileBlocks(ps)[y]
  PROVE  x = y
<1> DEFINE c == Cardinality(SetOfBlocks(ps))
<1>1. /\ x - 1 \in Nat /\ x - 1 < c /\ (x - 1) + 1 = x
      /\ y - 1 \in Nat /\ y - 1 < c /\ (y - 1) + 1 = y
  <2>1. c \in Nat /\ x \in 1..c /\ y \in 1..c
    BY TidyFinite
  <2> HIDE DEF c
  <2> QED BY <2>1
<1>2. PICK v : v \in [portion : Int, block : Int] /\ At(ps, v) /\ Cardinality(UpTo(ps, v)) = x
  BY <1>1, WalkFinds
<1>3. PICK w : w \in [portion : Int, block : Int] /\ At(ps, w) /\ Cardinality(UpTo(ps, w)) = y
  BY <1>1, WalkFinds
<1>4. v.block = w.block
  BY <1>2, <1>3, FileBlocksAre
<1>5. v.portion = w.portion
  <2>1. v.portion \in 1..Len(ps) /\ w.portion \in 1..Len(ps)
    BY <1>2, <1>3 DEF At
  <2>2. v.block \in BlocksOf(ps[v.portion]) /\ v.block \in BlocksOf(ps[w.portion])
    BY <1>2, <1>3, <1>4 DEF At
  <2> QED BY <2>1, <2>2 DEF Tidy
<1>6. UpTo(ps, v) = UpTo(ps, w)
  BY <1>4, <1>5 DEF UpTo
<1> QED BY <1>2, <1>3, <1>6

\* A file begins its longer form.
LEMMA GrownBegins ==
  ASSUME NEW ps \in Seq(Portion), NEW b \in Int, b = NewBlock(ps)
  PROVE  Begins(ps, Grown(ps))
<1> DEFINE n == Len(ps)
<1>0. n \in Nat /\ DOMAIN ps = 1..n /\ \A k \in 1..n : ps[k] \in Portion
  OBVIOUS
<1>1. \A k \in 1..n : ps[k].start \in Int /\ ps[k].length \in Int
  BY <1>0 DEF Portion
<1>2. CASE Contiguous(ps)
  <2> DEFINE p == [ps[n] EXCEPT !.length = ps[n].length + 1]
             q == [ps EXCEPT ![n] = p]
  <2>1. n \in 1..n /\ ps[n] \in Portion
    BY <1>0, <1>2 DEF Contiguous
  <2>2. Grown(ps) = q
    BY <1>2 DEF Grown
  <2> DEFINE m == ps[n].length + 1
  <2>a. m \in Int
    BY <1>1, <2>1
  <2>b. p = [ps[n] EXCEPT !.length = m]
    OBVIOUS
  <2>3. p.start = ps[n].start /\ p.length = m /\ p \in Portion
    <3> HIDE DEF p, m
    <3> QED BY <2>1, <2>a, <2>b DEF Portion
  <2> HIDE DEF p
  <2>4. Len(q) = n /\ q[n] = p /\ \A k \in 1..n : k # n => q[k] = ps[k]
    BY <1>0, <2>1, <2>3
  <2> HIDE DEF q
  <2>5. \A k \in 1..n : q[k].start = ps[k].start /\ ps[k].length <= q[k].length
    <3> TAKE k \in 1..n
    <3>1. CASE k = n
      <4>1. q[k].start = ps[k].start /\ q[k].length = ps[k].length + 1
        BY <2>3, <2>4, <3>1
      <4>2. ps[k].length \in Int
        BY <1>1
      <4> QED BY <4>1, <4>2 DEF m
    <3>2. CASE k # n
      BY <1>1, <2>4, <3>2
    <3> QED BY <3>1, <3>2
  <2>6. n <= n
    BY <1>0
  <2> QED BY <2>2, <2>4, <2>5, <2>6 DEF Begins
<1>3. CASE ~Contiguous(ps)
  <2> DEFINE p == [start |-> b, length |-> 1]
  <2>1. Grown(ps) = Append(ps, p) /\ p \in Portion
    BY <1>3 DEF Grown, Portion
  <2> HIDE DEF p
  <2>2. Len(Append(ps, p)) = n + 1 /\ \A k \in 1..n : Append(ps, p)[k] = ps[k]
    BY <1>0, <2>1
  <2> QED BY <1>0, <1>1, <2>1, <2>2 DEF Begins
<1> QED BY <1>2, <1>3

\* A shortened file begins what it was.
LEMMA ShortenedBegins ==
  ASSUME NEW ps, Tidy(ps), ps # <<>>
  PROVE  Begins(Shortened(ps), ps)
<1> DEFINE n == Len(ps)
<1>0. ps \in Seq(Portion) /\ n \in Nat /\ DOMAIN ps = 1..n
      /\ \A k \in 1..n : ps[k] \in Portion /\ ps[k].start \in Int /\ ps[k].length \in Int
  BY TidyParts DEF Tidy
<1>a. n # 0
  <2>1. n = 0 => ps = <<>>
    BY <1>0
  <2> QED BY <2>1
<1>1. n \in Nat \ {0} /\ n \in 1..n
  BY <1>0, <1>a
<1>2. CASE ps[n].length = 1
  <2>1. Shortened(ps) = SubSeq(ps, 1, n - 1)
    BY <1>2 DEF Shortened, Front
  <2>2. n - 1 \in Nat /\ n - 1 <= n
    BY <1>1
  <2>3. Len(SubSeq(ps, 1, n - 1)) = n - 1 /\ \A k \in 1..n-1 : SubSeq(ps, 1, n - 1)[k] = ps[k]
    BY <1>0, <1>1, <2>2
  <2>4. \A k \in 1..n-1 : k \in 1..n
    BY <1>1
  <2>5. \A k \in 1..n-1 : ps[k].length <= ps[k].length
    BY <1>0, <2>4
  <2> QED BY <2>1, <2>2, <2>3, <2>5 DEF Begins
<1>3. CASE ps[n].length # 1
  <2> DEFINE p == [ps[n] EXCEPT !.length = ps[n].length - 1]
             q == [ps EXCEPT ![n] = p]
  <2>1. ps[n] \in Portion
    BY <1>0, <1>1
  <2>2. Shortened(ps) = q
    BY <1>3 DEF Shortened
  <2> DEFINE m == ps[n].length - 1
  <2>a. m \in Int
    BY <1>0, <1>1
  <2>b. p = [ps[n] EXCEPT !.length = m]
    OBVIOUS
  <2>3. p.start = ps[n].start /\ p.length = m /\ p \in Portion
    <3> HIDE DEF p, m
    <3> QED BY <2>1, <2>a, <2>b DEF Portion
  <2> HIDE DEF p
  <2>4. Len(q) = n /\ q[n] = p /\ \A k \in 1..n : k # n => q[k] = ps[k]
    BY <1>0, <1>1, <2>3
  <2> HIDE DEF q
  <2>5. \A k \in 1..n : q[k].start = ps[k].start /\ q[k].length <= ps[k].length
    <3> TAKE k \in 1..n
    <3>1. CASE k = n
      <4>1. q[k].start = ps[k].start /\ q[k].length = ps[k].length - 1
        BY <2>3, <2>4, <3>1
      <4>2. ps[k].length \in Int
        BY <1>0
      <4> QED BY <4>1, <4>2 DEF m
    <3>2. CASE k # n
      <4>1. q[k] = ps[k] /\ ps[k].length \in Int
        BY <1>0, <2>4, <3>2
      <4> QED BY <4>1
    <3> QED BY <3>1, <3>2
  <2>6. n <= n
    BY <1>0
  <2> QED BY <2>2, <2>4, <2>5, <2>6 DEF Begins
<1> QED BY <1>2, <1>3

-----------------------------------------------------------------------------
(* The store.                                                              *)

\* The bytes of a file are as many as they should be.
LEMMA ContentLength ==
  ASSUME NEW ps, NEW len \in Nat
  PROVE  /\ Len(Content(ps, len)) = len /\ DOMAIN Content(ps, len) = 1..len
         /\ Len(ContentAfter(ps, len)) = len /\ DOMAIN ContentAfter(ps, len) = 1..len
<1>1. ASSUME NEW f, f = [k \in 1..len |-> f[k]] PROVE Len(f) = len /\ DOMAIN f = 1..len
  <2> DEFINE S == {f[k] : k \in 1..len}
  <2>1. f \in [1..len -> S]
    BY <1>1
  <2> HIDE DEF S
  <2>2. f \in Seq(S)
    BY <2>1
  <2> QED BY <2>1, <2>2, LenProperties
<1>2. Content(ps, len) = [k \in 1..len |-> Content(ps, len)[k]]
  BY DEF Content
<1>3. ContentAfter(ps, len) = [k \in 1..len |-> ContentAfter(ps, len)[k]]
  BY DEF ContentAfter
<1> QED BY <1>1, <1>2, <1>3

\* The bytes of a file stay if its first blocks do, whatever comes after them.
LEMMA ContentBegins ==
  ASSUME NEW ps, NEW q, NEW len \in Nat, disk' = disk,
         \A x \in 1..BlocksNeeded(len) : FileBlocks(q)[x] = FileBlocks(ps)[x]
  PROVE  ContentAfter(q, len) = Content(ps, len)
<1> DEFINE a == FileBlocks(q)
           b == FileBlocks(ps)
<1>1. \A k \in 1..len : a[(k - 1) \div BlockSize + 1] = b[(k - 1) \div BlockSize + 1]
  BY PlaceWithin
<1>2. /\ Content(ps, len) = [k \in 1..len |-> disk[b[(k - 1) \div BlockSize + 1]][(k - 1) % BlockSize]]
      /\ ContentAfter(q, len) = [k \in 1..len |-> disk'[a[(k - 1) \div BlockSize + 1]][(k - 1) % BlockSize]]
  BY DEF Content, ContentAfter
<1> HIDE DEF a, b
<1> QED BY <1>1, <1>2

\* What the store has of the files of the table.
StoreView ==
  mounted => /\ DOMAIN Store = {entry[e].name : e \in DOMAIN entry}
             /\ Store = [n \in DOMAIN Store |-> Store[n]]
             /\ \A e \in DOMAIN entry :
                  Store[entry[e].name] = Content(entry[e].portions, LengthOf(e))

\* Every file of the table is one of the store, with its bytes.
LEMMA StoreIs == TablesInv => StoreView
<1> SUFFICES ASSUME TablesInv, mounted
             PROVE  /\ DOMAIN Store = {entry[e].name : e \in DOMAIN entry}
                    /\ Store = [n \in DOMAIN Store |-> Store[n]]
                    /\ \A e \in DOMAIN entry :
                         Store[entry[e].name] = Content(entry[e].portions, LengthOf(e))
  BY DEF StoreView
<1> DEFINE N == {entry[e].name : e \in DOMAIN entry}
           c(e) == Content(entry[e].portions, LengthOf(e))
<1>1. ASSUME NEW e \in DOMAIN entry PROVE Least(SlotsOf(entry[e].name)) = e
  <2>1. e \in SlotsOf(entry[e].name)
    BY DEF SlotsOf
  <2>2. /\ Least(SlotsOf(entry[e].name)) \in DOMAIN entry
        /\ entry[Least(SlotsOf(entry[e].name))].name = entry[e].name
    BY <2>1, LeastFree
  <2> QED BY <2>2, TablesParts
<1>2. Store = [n \in N |-> c(Least(SlotsOf(n)))]
  BY DEF Store
<1> HIDE DEF c
<1>3. DOMAIN Store = N /\ Store = [n \in DOMAIN Store |-> Store[n]]
  BY <1>2
<1>4. \A e \in DOMAIN entry : Store[entry[e].name] = c(e)
  <2> TAKE e \in DOMAIN entry
  <2>1. entry[e].name \in N
    OBVIOUS
  <2> QED BY <1>1, <1>2, <2>1
<1> QED BY <1>3, <1>4 DEF c

\* The same after a step.
LEMMA StoreNext ==
  ASSUME TablesInv', mounted'
  PROVE  /\ DOMAIN Store' = {entry'[e].name : e \in DOMAIN entry'}
         /\ Store' = [n \in DOMAIN Store' |-> Store'[n]]
         /\ \A e \in DOMAIN entry' :
              Store'[entry'[e].name] = ContentAfter(entry'[e].portions, LengthOf(e)')
<1>1. StoreView'
  BY StoreIs, PTL
<1>2. /\ DOMAIN Store' = {entry'[e].name : e \in DOMAIN entry'}
      /\ Store' = [n \in DOMAIN Store' |-> Store'[n]]
      /\ \A e \in DOMAIN entry' :
           Store'[entry'[e].name] = Content(entry[e].portions, LengthOf(e))'
  BY <1>1 DEF StoreView
<1>3. ASSUME NEW e PROVE Content(entry[e].portions, LengthOf(e))' = ContentAfter(entry'[e].portions, LengthOf(e)')
  BY DEF Content, ContentAfter, FileBlocks
<1> QED BY <1>2, <1>3

\* A step that leaves every file its name and its bytes leaves the store.
LEMMA StoreSame ==
  ASSUME TablesInv, TablesInv', mounted, mounted', DOMAIN entry' = DOMAIN entry,
         \A e \in DOMAIN entry :
           /\ entry'[e].name = entry[e].name
           /\ ContentAfter(entry'[e].portions, LengthOf(e)') = Content(entry[e].portions, LengthOf(e))
  PROVE  Store' = Store
<1>1. StoreView
  BY StoreIs
<1>2. DOMAIN Store' = DOMAIN Store
  BY <1>1, StoreNext DEF StoreView
<1>3. ASSUME NEW n \in DOMAIN Store PROVE Store'[n] = Store[n]
  <2>1. PICK e \in DOMAIN entry : entry[e].name = n
    BY <1>1 DEF StoreView
  <2>2. Store[n] = Content(entry[e].portions, LengthOf(e))
    BY <1>1, <2>1 DEF StoreView
  <2>3. Store'[n] = ContentAfter(entry'[e].portions, LengthOf(e)')
    BY <2>1, StoreNext
  <2> QED BY <2>2, <2>3
<1>4. Store = [n \in DOMAIN Store |-> Store[n]]
  BY <1>1 DEF StoreView
<1>5. Store' = [n \in DOMAIN Store' |-> Store'[n]]
  BY StoreNext
<1> QED BY <1>2, <1>3, <1>4, <1>5

\* The copy on the disk depends on the disk alone.
LEMMA DurableSame ==
  ASSUME saved' = saved, disk' = disk
  PROVE  Durable' = Durable
  BY DEF Durable, Content, SavedFile

-----------------------------------------------------------------------------
(* Descriptors and lengths.                                                *)

\* There is one function without arguments.
LEMMA EmptyIs ==
  /\ Empty = Promise!Empty /\ \A f : f = [x \in {} |-> f[x]] => f = Promise!Empty
  /\ DOMAIN Promise!Empty = {}
  BY DEF Empty, Promise!Empty

\* Where a descriptor is: that of a write in progress is where the write is.
PosOf(fd) == IF Writing /\ call.fd = fd THEN call.seek ELSE fildes[fd].seek

\* The descriptors, with the files they were opened for.
LEMMA HandlesAre ==
  IF mounted THEN HandlesOf = [fd \in DOMAIN fildes |-> [name |-> fildes[fd].name, pos |-> PosOf(fd)]]
             ELSE HandlesOf = Promise!Empty
  BY EmptyIs DEF HandlesOf, PosOf

\* A step that moves one descriptor, or leaves it where it is.
LEMMA MovesOne ==
  ASSUME mounted, mounted', NEW fd \in DOMAIN fildes, NEW p, DOMAIN fildes' = DOMAIN fildes,
         \A g \in DOMAIN fildes : fildes'[g].name = fildes[g].name,
         PosOf(fd)' = p, \A g \in DOMAIN fildes \ {fd} : PosOf(g)' = PosOf(g)
  PROVE  Promise!MovesTo(fd, p)
<1> DEFINE D == DOMAIN fildes
           H == HandlesOf
           N == HandlesOf'
<1>1. H = [g \in D |-> [name |-> fildes[g].name, pos |-> PosOf(g)]]
  BY HandlesAre
<1>2. N = [g \in D |-> [name |-> fildes'[g].name, pos |-> PosOf(g)']]
  BY DEF HandlesOf, PosOf
<1>3. N = [H EXCEPT ![fd].pos = p]
  <2> DEFINE h == [H[fd] EXCEPT !.pos = p]
  <2>1. h = [name |-> fildes[fd].name, pos |-> p]
    <3> DEFINE q == PosOf(fd)
    <3>1. H[fd] = [name |-> fildes[fd].name, pos |-> q]
      BY <1>1
    <3> HIDE DEF q, H
    <3> QED BY <3>1
  <2>2. N[fd] = h
    <3> HIDE DEF h
    <3> QED BY <1>2, <2>1
  <2>3. \A g \in D \ {fd} : N[g] = H[g]
    BY <1>1, <1>2
  <2>4. [H EXCEPT ![fd].pos = p] = [g \in D |-> IF g = fd THEN h ELSE H[g]]
    BY <1>1
  <2>5. N = [g \in D |-> N[g]]
    BY <1>2
  <2> HIDE DEF N, H, h
  <2> QED BY <2>2, <2>3, <2>4, <2>5
<1>4. fd \in DOMAIN H
  BY <1>1
<1> QED BY <1>3, <1>4 DEF Promise!MovesTo

\* Descriptors that are not moved.
LEMMA HandlesSame ==
  ASSUME mounted, mounted', DOMAIN fildes' = DOMAIN fildes,
         \A g \in DOMAIN fildes : fildes'[g].name = fildes[g].name,
         \A g \in DOMAIN fildes : PosOf(g)' = PosOf(g)
  PROVE  HandlesOf' = HandlesOf
<1>1. HandlesOf = [g \in DOMAIN fildes |-> [name |-> fildes[g].name, pos |-> PosOf(g)]]
  BY HandlesAre
<1>2. HandlesOf' = [g \in DOMAIN fildes' |-> [name |-> fildes'[g].name, pos |-> PosOf(g)']]
  BY DEF HandlesOf, PosOf
<1> QED BY <1>1, <1>2

\* How many bytes a file has.
LengthView ==
  /\ ~Writing /\ call.op # "truncate" => \A e : LengthOf(e) = entry[e].size
  /\ Writing => \A e : LengthOf(e) = IF e = WriteSlot THEN Max2(entry[e].size, call.seek)
                                                      ELSE entry[e].size
  /\ call.op = "truncate" => \A e : LengthOf(e) = IF e = call.entry THEN call.length
                                                                     ELSE entry[e].size

\* The state tells which case of LengthOf applies.
LEMMA LengthIs == LengthView
<1>1. Writing => call.op # "truncate"
  BY DEF Writing
<1>2. ASSUME NEW e, call.op = "truncate" /\ call.entry = e PROVE LengthOf(e) = call.length
  <2>1. ~(Writing /\ WriteSlot = e)
    BY <1>1, <1>2
  <2> QED BY <1>2, <2>1, Zenon DEF LengthOf
<1>3. ASSUME NEW e, Writing /\ WriteSlot = e PROVE LengthOf(e) = Max2(entry[e].size, call.seek)
  <2>1. ~(call.op = "truncate" /\ call.entry = e)
    BY <1>1, <1>3
  <2> QED BY <1>3, <2>1, Zenon DEF LengthOf
<1>4. ASSUME NEW e, ~(call.op = "truncate" /\ call.entry = e), ~(Writing /\ WriteSlot = e)
      PROVE  LengthOf(e) = entry[e].size
  BY <1>4, Zenon DEF LengthOf
<1>5. ~Writing /\ call.op # "truncate" => \A e : LengthOf(e) = entry[e].size
  BY <1>4
<1>6. Writing => \A e : LengthOf(e) = IF e = WriteSlot THEN Max2(entry[e].size, call.seek)
                                                      ELSE entry[e].size
  BY <1>1, <1>3, <1>4
<1>7. call.op = "truncate" => \A e : LengthOf(e) = IF e = call.entry THEN call.length
                                                                     ELSE entry[e].size
  BY <1>1, <1>2, <1>4
<1> QED BY <1>5, <1>6, <1>7 DEF LengthView

\* The same after a step.
LEMMA LengthNext ==
  /\ ~Writing' /\ call'.op # "truncate" => \A e : LengthOf(e)' = entry'[e].size
  /\ Writing' => \A e : LengthOf(e)' = IF e = WriteSlot' THEN Max2(entry'[e].size, call'.seek)
                                                        ELSE entry'[e].size
  /\ call'.op = "truncate" => \A e : LengthOf(e)' = IF e = call'.entry THEN call'.length
                                                                       ELSE entry'[e].size
<1>1. LengthView'
  BY LengthIs, PTL
<1> QED BY <1>1 DEF LengthView

-----------------------------------------------------------------------------
(* make_fs, mount_fs, umount_fs, and the end of the process.               *)

\* Nothing is mounted: no files, no descriptors.
LEMMA NothingMounted == ~mounted => Store = Promise!Empty /\ HandlesOf = Promise!Empty
  BY EmptyIs DEF Store, HandlesOf

\* The same after a step.
LEMMA NothingMountedNext == ~mounted' => Store' = Promise!Empty /\ HandlesOf' = Promise!Empty
  BY EmptyIs DEF Store, HandlesOf

\* At first there is nothing in memory and nothing on the disk.
LEMMA KeepsInit == Init => Promise!Init
<1> SUFFICES ASSUME Init PROVE Promise!Init
  OBVIOUS
<1>1. ~mounted /\ mounted = FALSE
  BY DEF Init
<1>2. DOMAIN saved.rows = {}
  BY NothingSavedSound DEF Init
<1>3. Durable = Promise!Empty
  <2>1. {saved.rows[k].name : k \in DOMAIN saved.rows} = {}
    BY <1>2
  <2> QED BY <2>1, EmptyIs DEF Durable
<1> QED BY <1>1, <1>3, NothingMounted DEF Promise!Init

\* A process that ends forgets what it had in memory.
LEMMA KeepsExit == ASSUME Exit PROVE Promise!Crash
<1>1. ~mounted' /\ saved' = saved /\ disk' = disk
  BY DEF Exit, FreshMemory, diskVars
<1> QED BY <1>1, NothingMountedNext, DurableSame DEF Promise!Crash

\* make_fs erases the disk.
LEMMA KeepsMakeFs ==
  ASSUME TablesInv, BlocksInv, TablesInv', MakeFs
  PROVE  Promise!MakeFs
<1>1. saved' = NothingSaved /\ disk' = ErasedDisk /\ call = Idle
  BY DEF MakeFs
<1>2. Durable' = Promise!Empty
  <2>1. DOMAIN saved'.rows = {}
    BY <1>1, NothingSavedSound
  <2>2. {saved'.rows[k].name : k \in DOMAIN saved'.rows} = {}
    BY <2>1
  <2> QED BY <2>2, EmptyIs DEF Durable
<1>3. CASE ~mounted
  <2>1. mounted' = FALSE /\ mounted = FALSE
    BY <1>3, TablesParts DEF MakeFs, FreshMemory
  <2>2. Store = Promise!Empty /\ HandlesOf = Promise!Empty /\ Store' = Promise!Empty /\ HandlesOf' = Promise!Empty
    BY <2>1, NothingMounted, NothingMountedNext
  <2>3. Promise!Empty = [n \in DOMAIN Promise!Empty |-> [k \in 1..Len(Promise!Empty[n]) |-> Promise!ErasedByte]]
    BY DEF Promise!Empty
  <2> QED BY <1>2, <2>1, <2>2, <2>3 DEF Promise!MakeFs
<1>4. CASE mounted
  <2>1. UNCHANGED <<mounted, entry, fildes, call>> /\ mounted'
    BY <1>4 DEF MakeFs, memoryVars
  <2>2. ~Writing /\ call.op # "truncate" /\ ~Writing' /\ call'.op # "truncate"
    BY <1>1, <2>1 DEF Writing, Idle
  <2>3. HandlesOf' = HandlesOf
    BY <2>1 DEF HandlesOf, Writing
  <2> DEFINE erased(n) == [k \in 1..Len(Store[n]) |-> Promise!ErasedByte]
  <2>4. /\ DOMAIN Store = {entry[e].name : e \in DOMAIN entry}
        /\ \A e \in DOMAIN entry : Store[entry[e].name] = Content(entry[e].portions, LengthOf(e))
    BY <1>4, StoreIs DEF StoreView
  <2>5. /\ DOMAIN Store' = {entry[e].name : e \in DOMAIN entry}
        /\ Store' = [n \in DOMAIN Store' |-> Store'[n]]
        /\ \A e \in DOMAIN entry :
             Store'[entry[e].name] = ContentAfter(entry[e].portions, LengthOf(e)')
    BY <2>1, StoreNext
  <2>6. ASSUME NEW e \in DOMAIN entry
        PROVE  Store'[entry[e].name] = erased(entry[e].name)
    <3> DEFINE ps == entry[e].portions
               len == entry[e].size
               bs == FileBlocks(ps)
    <3>1. LengthOf(e) = len /\ LengthOf(e)' = len
      <4>1. LengthOf(e)' = entry'[e].size
        BY <2>2, LengthNext
      <4>2. LengthOf(e) = entry[e].size
        BY <2>2, LengthIs DEF LengthView
      <4> QED BY <2>1, <4>1, <4>2
    <3>2. len \in Nat /\ Tidy(ps) /\ Cardinality(SetOfBlocks(ps)) = BlocksNeeded(len)
      <4>1. len \in Nat
        BY TablesParts, FileParts
      <4> QED BY <1>4, <2>2, <4>1, MemoryIdle DEF Kept
    <3>3. Len(Store[entry[e].name]) = len
      <4>1. Store[entry[e].name] = Content(ps, len)
        BY <2>4, <3>1
      <4> HIDE DEF ps, len
      <4> QED BY <3>2, <4>1, ContentLength
    <3>4. ASSUME NEW k \in 1..len
          PROVE  disk'[bs[(k - 1) \div BlockSize + 1]][(k - 1) % BlockSize] = ErasedByte
      <4> DEFINE x == (k - 1) \div BlockSize + 1
                 o == (k - 1) % BlockSize
      <4> HIDE DEF len
      <4>1. x \in 1..BlocksNeeded(len)
        BY <3>2, PlaceWithin
      <4>2. o \in 0..BlockSize-1
        <5>1. k - 1 \in Int
          BY <3>2
        <5> QED BY <5>1, Sizes
      <4> HIDE DEF ps, bs, x, o
      <4>3. bs[x] \in SetOfBlocks(ps)
        BY <3>2, <4>1, FileBlocksAre DEF bs
      <4>4. bs[x] \in BlockNumbers
        BY <3>2, <4>3, TidyFinite
      <4>5. disk'[bs[x]][o] = ErasedByte
        BY <1>1, <4>2, <4>4 DEF ErasedDisk
      <4> QED BY <4>5 DEF x, o
    <3>5. Store'[entry[e].name] = [k \in 1..len |-> disk'[bs[(k - 1) \div BlockSize + 1]][(k - 1) % BlockSize]]
      <4>1. Store'[entry[e].name] = ContentAfter(ps, len)
        BY <2>5, <3>1
      <4> HIDE DEF ps, len
      <4> QED BY <4>1 DEF ContentAfter, bs
    <3>6. ErasedByte = Promise!ErasedByte
      BY DEF ErasedByte, Promise!ErasedByte
    <3> HIDE DEF len, bs
    <3> QED BY <3>3, <3>4, <3>5, <3>6
  <2>7. Store' = [n \in DOMAIN Store |-> erased(n)]
    <3> HIDE DEF erased
    <3>1. \A n \in DOMAIN Store : Store'[n] = erased(n)
      BY <2>4, <2>6
    <3>2. DOMAIN Store' = DOMAIN Store
      BY <2>4, <2>5
    <3> QED BY <2>5, <3>1, <3>2
  <2> QED BY <1>2, <2>1, <2>3, <2>7 DEF Promise!MakeFs
<1> QED BY <1>3, <1>4

\* mount_fs finds the files as the disk has them.
LEMMA KeepsMount ==
  ASSUME TablesInv, TablesInv', Mount
  PROVE  Promise!Mount
<1>1. ~mounted /\ mounted' /\ saved' = saved /\ disk' = disk /\ call' = Idle
  BY MountLoads DEF Mount
<1>2. Durable' = Durable
  BY <1>1, DurableSame
<1>3. HandlesOf' = HandlesOf
  <2>1. DOMAIN fildes' = {}
    BY MountLoads
  <2>2. HandlesOf' = Promise!Empty
    <3>1. DOMAIN HandlesOf' = {} /\ HandlesOf' = [x \in {} |-> HandlesOf'[x]]
      BY <1>1, <2>1 DEF HandlesOf
    <3> QED BY <3>1, EmptyIs
  <2> QED BY <1>1, <2>2, NothingMounted
<1> DEFINE S == {saved.rows[k].name : k \in DOMAIN saved.rows}
           n == saved.count
           content(x) == Content(LoadPortions(SavedFile(x).portions), SavedFile(x).size)
<1>4. /\ DOMAIN entry' = 0..n-1 /\ DOMAIN saved.rows = 1..n /\ n \in Nat
      /\ \A i \in 0..n-1 : /\ i + 1 \in DOMAIN saved.rows /\ saved.rows[i + 1] \in File
                           /\ entry'[i] = LoadRow(saved.rows[i + 1])
  <2>1. n \in 0..MaxFiles
    BY MountLoads
  <2>2. n \in Nat
    BY <2>1, Sizes
  <2> QED BY <2>2, MountLoads
<1>5. Durable = [x \in S |-> content(x)]
  BY DEF Durable
<1>6. ASSUME NEW i \in DOMAIN entry'
      PROVE  /\ entry'[i].name = saved.rows[i + 1].name /\ entry'[i].name \in S
             /\ ContentAfter(entry'[i].portions, LengthOf(i)') = content(entry'[i].name)
  <2> DEFINE row == saved.rows[i + 1]
             q == LoadPortions(row.portions)
  <2>1. i + 1 \in DOMAIN saved.rows /\ row \in File /\ entry'[i] = LoadRow(row)
    BY <1>4
  <2>2. entry'[i].name = row.name /\ entry'[i].size = row.size /\ entry'[i].portions = q
    <3> HIDE DEF q
    <3>1. LoadRow(row) = [row EXCEPT !.portions = q]
      BY DEF LoadRow, q
    <3> HIDE DEF row
    <3> QED BY <2>1, <3>1 DEF File
  <2>3. row.name \in S
    BY <2>1
  <2>4. SavedFile(row.name) = row
    <3> DEFINE K == {k \in DOMAIN saved.rows : saved.rows[k].name = row.name}
    <3>1. i + 1 \in K /\ K \in SUBSET Nat
      <4>1. DOMAIN saved.rows \subseteq Nat
        BY <1>4
      <4> QED BY <2>1, <4>1
    <3>2. Least(K) \in K
      <4> HIDE DEF K
      <4> QED BY <3>1, LeastIs
    <3>3. \A j, k \in DOMAIN saved.rows : saved.rows[j].name = saved.rows[k].name => j = k
      BY DEF TablesInv, NamesInv
    <3>4. Least(K) = i + 1
      <4> DEFINE l == Least(K)
      <4>1. l \in DOMAIN saved.rows /\ saved.rows[l].name = row.name
        BY <3>2
      <4> HIDE DEF l
      <4>2. l = i + 1
        BY <2>1, <3>3, <4>1
      <4> QED BY <4>2 DEF l
    <3> QED BY <3>4 DEF SavedFile
  <2>5. LengthOf(i)' = row.size
    <3>1. ~Writing' /\ call'.op # "truncate"
      BY <1>1 DEF Writing, Idle
    <3>2. LengthOf(i)' = entry'[i].size
      BY <3>1, LengthNext
    <3> QED BY <2>2, <3>2
  <2>6. ContentAfter(q, row.size) = Content(q, row.size)
    BY <1>1 DEF ContentAfter, Content
  <2> HIDE DEF row, q
  <2>7. content(row.name) = Content(q, row.size)
    BY <2>4 DEF q
  <2> HIDE DEF content
  <2> QED BY <2>2, <2>3, <2>5, <2>6, <2>7 DEF row
<1>7. /\ DOMAIN Store' = {entry'[i].name : i \in DOMAIN entry'}
      /\ Store' = [x \in DOMAIN Store' |-> Store'[x]]
      /\ \A i \in DOMAIN entry' :
           Store'[entry'[i].name] = ContentAfter(entry'[i].portions, LengthOf(i)')
  BY <1>1, StoreNext
<1> HIDE DEF content
<1>8. DOMAIN Store' = S
  <2>1. \A x \in S : \E i \in DOMAIN entry' : entry'[i].name = x
    <3> TAKE x \in S
    <3>1. PICK k \in DOMAIN saved.rows : saved.rows[k].name = x
      OBVIOUS
    <3>2. k - 1 \in DOMAIN entry' /\ (k - 1) + 1 = k
      BY <1>4, <3>1
    <3> QED BY <1>6, <3>1, <3>2
  <2> HIDE DEF S
  <2> QED BY <1>6, <1>7, <2>1
<1>9. \A x \in S : Store'[x] = content(x)
  <2> HIDE DEF S
  <2> QED BY <1>6, <1>7, <1>8
<1>10. Store' = Durable
  <2> HIDE DEF S
  <2> QED BY <1>5, <1>7, <1>8, <1>9
<1> QED BY <1>1, <1>2, <1>3, <1>10 DEF Promise!Mount

\* What the disk has of the files that were saved.
DurableView ==
  /\ DOMAIN Durable = {saved.rows[k].name : k \in DOMAIN saved.rows}
  /\ Durable = [n \in DOMAIN Durable |-> Durable[n]]
  /\ \A k \in DOMAIN saved.rows :
       Durable[saved.rows[k].name] = Content(saved.rows[k].portions, saved.rows[k].size)

\* The file table of the disk is loaded as it was saved.
LEMMA DurableIs == TablesInv /\ BlocksInv /\ LoadsWhatWasSaved => DurableView
<1> SUFFICES ASSUME TablesInv, BlocksInv, LoadsWhatWasSaved PROVE DurableView
  OBVIOUS
<1> DEFINE S == {saved.rows[k].name : k \in DOMAIN saved.rows}
           content(x) == Content(LoadPortions(SavedFile(x).portions), SavedFile(x).size)
<1>1. Durable = [x \in S |-> content(x)]
  BY DEF Durable
<1>2. ASSUME NEW k \in DOMAIN saved.rows
      PROVE  content(saved.rows[k].name) = Content(saved.rows[k].portions, saved.rows[k].size)
  <2> DEFINE x == saved.rows[k].name
  <2>1. x \in S
    OBVIOUS
  <2>2. LoadPortions(SavedFile(x).portions) = SavedFile(x).portions
    <3> HIDE DEF x
    <3> QED BY <2>1, SavedFileIs
  <2>3. SavedFile(x) = saved.rows[k]
    <3> DEFINE K == {j \in DOMAIN saved.rows : saved.rows[j].name = x}
    <3>1. k \in K /\ K \in SUBSET Nat
      <4>1. DOMAIN saved.rows \subseteq Nat
        BY TablesParts
      <4> QED BY <4>1
    <3>2. Least(K) \in K
      <4> HIDE DEF K
      <4> QED BY <3>1, LeastIs
    <3>3. \A i, j \in DOMAIN saved.rows : saved.rows[i].name = saved.rows[j].name => i = j
      BY DEF TablesInv, NamesInv
    <3>4. Least(K) = k
      <4> DEFINE l == Least(K)
      <4>1. l \in DOMAIN saved.rows /\ saved.rows[l].name = x
        BY <3>2
      <4> HIDE DEF l
      <4>2. l = k
        BY <3>3, <4>1
      <4> QED BY <4>2 DEF l
    <3> QED BY <3>4 DEF SavedFile
  <2> QED BY <2>2, <2>3
<1> HIDE DEF content
<1>3. \A k \in DOMAIN saved.rows : saved.rows[k].name \in S
  OBVIOUS
<1>4. \A k \in DOMAIN saved.rows :
        Durable[saved.rows[k].name] = Content(saved.rows[k].portions, saved.rows[k].size)
  <2> HIDE DEF S
  <2> QED BY <1>1, <1>2, <1>3
<1>5. DOMAIN Durable = S /\ Durable = [n \in DOMAIN Durable |-> Durable[n]]
  <2> HIDE DEF S
  <2> QED BY <1>1
<1> QED BY <1>4, <1>5 DEF DurableView

\* The same after a step.
LEMMA DurableNext ==
  ASSUME TablesInv', BlocksInv', LoadsWhatWasSaved'
  PROVE  /\ DOMAIN Durable' = {saved'.rows[k].name : k \in DOMAIN saved'.rows}
         /\ Durable' = [n \in DOMAIN Durable' |-> Durable'[n]]
         /\ \A k \in DOMAIN saved'.rows :
              Durable'[saved'.rows[k].name]
                = ContentAfter(saved'.rows[k].portions, saved'.rows[k].size)
<1>1. DurableView'
  BY DurableIs, PTL
<1>2. /\ DOMAIN Durable' = {saved'.rows[k].name : k \in DOMAIN saved'.rows}
      /\ Durable' = [n \in DOMAIN Durable' |-> Durable'[n]]
      /\ \A k \in DOMAIN saved'.rows :
           Durable'[saved'.rows[k].name] = Content(saved.rows[k].portions, saved.rows[k].size)'
  BY <1>1 DEF DurableView
<1>3. ASSUME NEW k
      PROVE  Content(saved.rows[k].portions, saved.rows[k].size)'
               = ContentAfter(saved'.rows[k].portions, saved'.rows[k].size)
  BY DEF Content, ContentAfter, FileBlocks
<1> QED BY <1>2, <1>3

\* save_meta writes every file of the table once.
LEMMA RowsOnce ==
  ASSUME TablesInv
  PROVE  /\ DOMAIN Rows = 1..Len(Rows)
         /\ \E g \in [1..Len(Rows) -> DOMAIN entry] :
              /\ \A k \in 1..Len(Rows) : Rows[k] = entry[g[k]]
              /\ \A e \in DOMAIN entry : \E k \in 1..Len(Rows) : g[k] = e
<1>1. Rows \in Seq(File) /\ Len(Rows) = Cardinality(DOMAIN entry)
  BY TablesParts, RowsAre
<1>2. PICK g \in [1..Len(Rows) -> DOMAIN entry] :
           \A k \in 1..Len(Rows) :
                /\ Rows[k] = entry[g[k]]
                /\ \A l \in 1..Len(Rows) : l # k => g[l] # g[k]
  BY TablesParts, RowsAre
<1>3. DOMAIN Rows = 1..Len(Rows) /\ Len(Rows) \in Nat
  BY <1>1
<1> DEFINE n == Len(Rows)
           D == DOMAIN entry
           I == 1..n
<1>4. IsFiniteSet(D) /\ Cardinality(I) = Cardinality(D)
  <2>1. Cardinality(1..n) = n
    <3>1. n = Cardinality(1..n)
      <4> HIDE DEF n
      <4>1. Cardinality(1..n) = IF 1 > n THEN 0 ELSE n - 1 + 1
        BY <1>3, FS_Interval DEF n
      <4> QED BY <1>3, <4>1 DEF n
    <3> QED BY <3>1
  <2> QED BY <1>1, <2>1, TablesParts
<1>5. g \in Injection(I, D)
  <2> HIDE DEF I
  <2>1. \A a, b \in I : g[a] = g[b] => a = b
    BY <1>2 DEF I
  <2>2. g \in [I -> D]
    BY DEF I
  <2> QED BY <2>1, <2>2 DEF Injection, IsInjective
<1>6. g \in Surjection(I, D)
  <2> HIDE DEF I, D
  <2> QED BY <1>4, <1>5, FS_Injection
<1>7. \A e \in D : \E k \in I : g[k] = e
  BY <1>6 DEF Surjection
<1> QED BY <1>2, <1>3, <1>7

\* umount_fs puts every file on the disk, with the bytes it has.
LEMMA KeepsUmount ==
  ASSUME TablesInv, BlocksInv, TablesInv', BlocksInv', LoadsWhatWasSaved', Umount
  PROVE  Promise!Umount
<1>1. /\ mounted' = FALSE /\ saved'.rows = Rows /\ disk' = disk /\ call = Idle /\ mounted
  BY DEF Umount, Meta, Running
<1>2. Store' = Promise!Empty /\ HandlesOf' = Promise!Empty
  BY <1>1, NothingMountedNext
<1>3. /\ DOMAIN Rows = 1..Len(Rows)
      /\ \E g \in [1..Len(Rows) -> DOMAIN entry] :
              /\ \A k \in 1..Len(Rows) : Rows[k] = entry[g[k]]
              /\ \A e \in DOMAIN entry : \E k \in 1..Len(Rows) : g[k] = e
  BY RowsOnce
<1>4. PICK g \in [1..Len(Rows) -> DOMAIN entry] :
              /\ \A k \in 1..Len(Rows) : Rows[k] = entry[g[k]]
              /\ \A e \in DOMAIN entry : \E k \in 1..Len(Rows) : g[k] = e
  BY <1>3
<1>5. /\ \A k \in 1..Len(Rows) : \E e \in DOMAIN entry : Rows[k] = entry[e]
      /\ \A e \in DOMAIN entry : \E k \in 1..Len(Rows) : Rows[k] = entry[e]
  BY <1>4
<1>6. /\ DOMAIN Durable' = {Rows[k].name : k \in DOMAIN Rows}
      /\ Durable' = [n \in DOMAIN Durable' |-> Durable'[n]]
      /\ \A k \in DOMAIN Rows :
           Durable'[Rows[k].name] = ContentAfter(Rows[k].portions, Rows[k].size)
  BY <1>1, DurableNext
<1>7. /\ DOMAIN Store = {entry[e].name : e \in DOMAIN entry}
      /\ Store = [n \in DOMAIN Store |-> Store[n]]
      /\ \A e \in DOMAIN entry : Store[entry[e].name] = Content(entry[e].portions, entry[e].size)
  <2>1. ~Writing /\ call.op # "truncate"
    BY <1>1 DEF Writing, Idle
  <2>2. \A e : LengthOf(e) = entry[e].size
    BY <2>1, LengthIs DEF LengthView
  <2> QED BY <1>1, <2>2, StoreIs DEF StoreView
<1>8. \A ps, len : ContentAfter(ps, len) = Content(ps, len)
  BY <1>1 DEF ContentAfter, Content
<1>9. DOMAIN Durable' = DOMAIN Store
  <2>1. \A k \in DOMAIN Rows : \E e \in DOMAIN entry : Rows[k].name = entry[e].name
    BY <1>3, <1>5
  <2>2. \A e \in DOMAIN entry : \E k \in DOMAIN Rows : Rows[k].name = entry[e].name
    BY <1>3, <1>5
  <2> DEFINE A == {Rows[k].name : k \in DOMAIN Rows}
             B == {entry[e].name : e \in DOMAIN entry}
  <2>3. A = B
    BY <2>1, <2>2
  <2> QED BY <1>6, <1>7, <2>3
<1>10. \A n \in DOMAIN Store : Durable'[n] = Store[n]
  <2> TAKE n \in DOMAIN Store
  <2>1. PICK e \in DOMAIN entry : entry[e].name = n
    BY <1>7
  <2>2. PICK k \in 1..Len(Rows) : Rows[k] = entry[e]
    BY <1>5
  <2>3. Durable'[n] = Content(entry[e].portions, entry[e].size)
    BY <1>3, <1>6, <1>8, <2>1, <2>2
  <2> QED BY <1>7, <2>1, <2>3
<1>11. Durable' = Store
  BY <1>6, <1>7, <1>9, <1>10
<1> QED BY <1>1, <1>2, <1>11 DEF Promise!Umount

\* The store between two calls that write no data.
LEMMA StoreIdle ==
  ASSUME TablesInv, TablesInv', mounted, mounted', call = Idle, call' = call, disk' = disk
  PROVE  /\ DOMAIN Store = {entry[e].name : e \in DOMAIN entry}
         /\ Store = [n \in DOMAIN Store |-> Store[n]]
         /\ \A e \in DOMAIN entry : Store[entry[e].name] = Content(entry[e].portions, entry[e].size)
         /\ DOMAIN Store' = {entry'[e].name : e \in DOMAIN entry'}
         /\ Store' = [n \in DOMAIN Store' |-> Store'[n]]
         /\ \A e \in DOMAIN entry' :
              Store'[entry'[e].name] = Content(entry'[e].portions, entry'[e].size)
<1>1. ~Writing /\ call.op # "truncate" /\ ~Writing' /\ call'.op # "truncate"
  BY DEF Writing, Idle
<1>2. \A e : LengthOf(e) = entry[e].size
  BY <1>1, LengthIs DEF LengthView
<1>3. \A e : LengthOf(e)' = entry'[e].size
  BY <1>1, LengthNext
<1>4. \A ps, len : ContentAfter(ps, len) = Content(ps, len)
  BY DEF ContentAfter, Content
<1>5. StoreView
  BY StoreIs
<1>6. /\ DOMAIN Store = {entry[e].name : e \in DOMAIN entry}
      /\ Store = [n \in DOMAIN Store |-> Store[n]]
      /\ \A e \in DOMAIN entry : Store[entry[e].name] = Content(entry[e].portions, entry[e].size)
  BY <1>2, <1>5 DEF StoreView
<1>7. /\ DOMAIN Store' = {entry'[e].name : e \in DOMAIN entry'}
      /\ Store' = [n \in DOMAIN Store' |-> Store'[n]]
      /\ \A e \in DOMAIN entry' :
           Store'[entry'[e].name] = ContentAfter(entry'[e].portions, LengthOf(e)')
  BY StoreNext
<1>8. \A e \in DOMAIN entry' :
        Store'[entry'[e].name] = Content(entry'[e].portions, entry'[e].size)
  <2> TAKE e \in DOMAIN entry'
  <2>1. LengthOf(e)' = entry'[e].size
    BY <1>3
  <2> QED BY <1>4, <1>7, <2>1
<1> QED BY <1>6, <1>7, <1>8

-----------------------------------------------------------------------------
(* Files and descriptors.                                                  *)

\* A call that changes no file.
LEMMA FilesSame ==
  ASSUME TablesInv, TablesInv', mounted, mounted', call = Idle, call' = call,
         UNCHANGED <<entry, saved, disk>>
  PROVE  Store' = Store /\ Durable' = Durable
<1>1. /\ DOMAIN Store = {entry[e].name : e \in DOMAIN entry}
      /\ Store = [n \in DOMAIN Store |-> Store[n]]
      /\ \A e \in DOMAIN entry : Store[entry[e].name] = Content(entry[e].portions, entry[e].size)
      /\ DOMAIN Store' = {entry[e].name : e \in DOMAIN entry}
      /\ Store' = [n \in DOMAIN Store' |-> Store'[n]]
      /\ \A e \in DOMAIN entry :
           Store'[entry[e].name] = Content(entry[e].portions, entry[e].size)
  BY StoreIdle
<1>2. \A n \in DOMAIN Store : Store'[n] = Store[n]
  <2> TAKE n \in DOMAIN Store
  <2>1. PICK e \in DOMAIN entry : entry[e].name = n
    BY <1>1
  <2> QED BY <1>1, <2>1
<1>3. Store' = Store
  BY <1>1, <1>2
<1> QED BY <1>3, DurableSame

\* An empty file has no bytes.
LEMMA NoContent == \A ps : Content(ps, 0) = <<>> /\ ContentAfter(ps, 0) = <<>>
<1>1. ASSUME NEW f, f = [k \in 1..0 |-> f[k]] PROVE f = <<>>
  <2>1. f \in [1..0 -> {}]
    BY <1>1
  <2>2. f \in Seq({}) /\ Len(f) = 0
    BY <2>1, LenProperties
  <2> QED BY <2>2, EmptySeq
<1> TAKE ps
<1>2. Content(ps, 0) = [k \in 1..0 |-> Content(ps, 0)[k]]
  BY DEF Content
<1>3. ContentAfter(ps, 0) = [k \in 1..0 |-> ContentAfter(ps, 0)[k]]
  BY DEF ContentAfter
<1> QED BY <1>1, <1>2, <1>3

\* fs_create adds an empty file.
LEMMA KeepsCreate ==
  ASSUME TablesInv, TablesInv', NEW n \in Names, Create(n)
  PROVE  Promise!Create(n)
<1> DEFINE s == Least(FreeSlots)
           f == [name |-> n, size |-> 0, portions |-> <<>>]
<1>1. /\ mounted' = mounted /\ mounted /\ fildes' = fildes /\ saved' = saved /\ disk' = disk
      /\ call' = call /\ call = Idle /\ SlotsOf(n) = {} /\ entry' = With(entry, s, f)
  BY DEF Create, diskVars, Running
<1>2. s \notin DOMAIN entry
  BY LeastFree DEF Create
<1>3. /\ DOMAIN entry' = DOMAIN entry \cup {s} /\ entry'[s] = f
      /\ \A e \in DOMAIN entry : entry'[e] = entry[e]
  <2> HIDE DEF s, f
  <2> QED BY <1>1, <1>2 DEF With
<1>4. f.name = n /\ f.size = 0
  OBVIOUS
<1> HIDE DEF s, f
<1>5. /\ DOMAIN Store = {entry[e].name : e \in DOMAIN entry}
      /\ Store = [x \in DOMAIN Store |-> Store[x]]
      /\ \A e \in DOMAIN entry : Store[entry[e].name] = Content(entry[e].portions, entry[e].size)
      /\ DOMAIN Store' = {entry'[e].name : e \in DOMAIN entry'}
      /\ Store' = [x \in DOMAIN Store' |-> Store'[x]]
      /\ \A e \in DOMAIN entry' :
           Store'[entry'[e].name] = Content(entry'[e].portions, entry'[e].size)
  BY <1>1, StoreIdle
<1>6. n \notin DOMAIN Store
  BY <1>1, <1>5 DEF SlotsOf
<1>7. DOMAIN Store' = DOMAIN Store \cup {n}
  BY <1>3, <1>4, <1>5
<1>8. Store'[n] = <<>>
  BY <1>3, <1>4, <1>5, NoContent
<1>9. \A x \in DOMAIN Store : Store'[x] = Store[x]
  <2> TAKE x \in DOMAIN Store
  <2>1. PICK e \in DOMAIN entry : entry[e].name = x
    BY <1>5
  <2> QED BY <1>3, <1>5, <2>1
<1>10. Store' = Promise!With(Store, n, <<>>)
  BY <1>5, <1>6, <1>7, <1>8, <1>9 DEF Promise!With
<1>11. HandlesOf' = HandlesOf /\ Durable' = Durable
  BY <1>1, DurableSame DEF HandlesOf, Writing
<1> QED BY <1>1, <1>6, <1>10, <1>11 DEF Promise!Create

\* fs_delete removes a file that no descriptor is open on.
LEMMA KeepsDelete ==
  ASSUME TablesInv, TablesInv', NEW n \in Names, Delete(n)
  PROVE  Promise!Delete(n)
<1> DEFINE s == Least(SlotsOf(n))
<1>1. /\ mounted' = mounted /\ mounted /\ fildes' = fildes /\ saved' = saved /\ disk' = disk
      /\ call' = call /\ call = Idle /\ ~Opened(n) /\ entry' = Without(entry, s)
  BY DEF Delete, CanDelete, diskVars, Running
<1>2. s \in DOMAIN entry /\ entry[s].name = n
  BY LeastFree DEF Delete, CanDelete
<1>3. DOMAIN entry' = DOMAIN entry \ {s} /\ \A e \in DOMAIN entry' : entry'[e] = entry[e]
  <2> HIDE DEF s
  <2> QED BY <1>1 DEF Without
<1> HIDE DEF s
<1>4. \A e, g \in DOMAIN entry : entry[e].name = entry[g].name => e = g
  BY TablesParts
<1>5. /\ DOMAIN Store = {entry[e].name : e \in DOMAIN entry}
      /\ Store = [x \in DOMAIN Store |-> Store[x]]
      /\ \A e \in DOMAIN entry : Store[entry[e].name] = Content(entry[e].portions, entry[e].size)
      /\ DOMAIN Store' = {entry'[e].name : e \in DOMAIN entry'}
      /\ Store' = [x \in DOMAIN Store' |-> Store'[x]]
      /\ \A e \in DOMAIN entry' :
           Store'[entry'[e].name] = Content(entry'[e].portions, entry'[e].size)
  BY <1>1, StoreIdle
<1>6. n \in DOMAIN Store
  BY <1>2, <1>5
<1>7. DOMAIN Store' = DOMAIN Store \ {n}
  <2>1. \A e \in DOMAIN entry : entry[e].name # n <=> e # s
    BY <1>2, <1>4
  <2>2. \A x : x \in DOMAIN Store' <=> \E e \in DOMAIN entry \ {s} : entry[e].name = x
    BY <1>3, <1>5
  <2>3. \A x : x \in DOMAIN Store <=> \E e \in DOMAIN entry : entry[e].name = x
    BY <1>5
  <2> QED BY <2>1, <2>2, <2>3
<1>8. \A x \in DOMAIN Store' : Store'[x] = Store[x]
  <2> TAKE x \in DOMAIN Store'
  <2>1. PICK e \in DOMAIN entry' : entry'[e].name = x
    BY <1>5
  <2> QED BY <1>3, <1>5, <2>1
<1>9. Store' = Promise!Without(Store, n)
  BY <1>5, <1>7, <1>8 DEF Promise!Without
<1>10. HandlesOf' = HandlesOf /\ Durable' = Durable
  BY <1>1, DurableSame DEF HandlesOf, Writing
<1>11. \A h \in DOMAIN HandlesOf : HandlesOf[h].name # n
  BY <1>1, HandlesAre DEF Opened
<1> QED BY <1>1, <1>6, <1>9, <1>10, <1>11 DEF Promise!Delete

\* fs_open opens a file at its beginning.
LEMMA KeepsOpen ==
  ASSUME TablesInv, TablesInv', NEW n \in Names, Open(n)
  PROVE  \E h \in 0..MaxOpen-1 : Promise!Open(h, n)
<1> DEFINE x == Least(FreeFildes)
           s == Least(SlotsOf(n))
           h == [seek |-> 0, entry |-> s, name |-> n]
<1>1. x \in 0..MaxOpen-1 /\ x \notin DOMAIN fildes /\ s \in DOMAIN entry /\ entry[s].name = n
  BY LeastFree DEF Open
<1>2. /\ fildes' = With(fildes, x, h) /\ UNCHANGED <<mounted, entry, call, saved, disk>>
      /\ mounted /\ call = Idle
  BY DEF Open, diskVars, Running
<1>3. /\ DOMAIN fildes' = DOMAIN fildes \cup {x}
      /\ \A fd \in DOMAIN fildes' : fildes'[fd] = IF fd = x THEN h ELSE fildes[fd]
  <2> HIDE DEF x, h
  <2> QED BY <1>2 DEF With
<1>4. h.seek = 0 /\ h.name = n
  OBVIOUS
<1> HIDE DEF x, s, h
<1>5. Store' = Store /\ Durable' = Durable
  BY <1>2, FilesSame
<1>6. n \in DOMAIN Store
  <2>1. DOMAIN Store = {entry[e].name : e \in DOMAIN entry}
    BY <1>2, StoreIs DEF StoreView
  <2> QED BY <1>1, <2>1
<1>7. ~Writing /\ ~Writing'
  BY <1>2 DEF Writing, Idle
<1> DEFINE start == [name |-> n, pos |-> 0]
<1>8. HandlesOf = [g \in DOMAIN fildes |-> [name |-> fildes[g].name, pos |-> fildes[g].seek]]
  BY <1>2, <1>7 DEF HandlesOf
<1>9. HandlesOf' = [g \in DOMAIN fildes' |-> [name |-> fildes'[g].name, pos |-> fildes'[g].seek]]
  BY <1>2, <1>7 DEF HandlesOf
<1>10. HandlesOf' = Promise!With(HandlesOf, x, start)
  <2>1. Promise!With(HandlesOf, x, start)
          = [g \in DOMAIN fildes \cup {x} |-> IF g = x THEN start ELSE HandlesOf[g]]
    BY <1>8 DEF Promise!With
  <2>2. HandlesOf'[x] = start
    BY <1>3, <1>4, <1>9
  <2>3. \A g \in DOMAIN fildes : HandlesOf'[g] = HandlesOf[g]
    BY <1>1, <1>3, <1>8, <1>9
  <2>4. HandlesOf' = [g \in DOMAIN fildes \cup {x} |-> HandlesOf'[g]]
    BY <1>3, <1>9
  <2> HIDE DEF start
  <2> QED BY <2>1, <2>2, <2>3, <2>4
<1>11. x \notin DOMAIN HandlesOf
  BY <1>1, <1>8
<1>12. Promise!Open(x, n)
  BY <1>2, <1>5, <1>6, <1>10, <1>11 DEF Promise!Open
<1> QED BY <1>1, <1>12

\* fs_close forgets a descriptor.
LEMMA KeepsClose ==
  ASSUME TablesInv, TablesInv', NEW fd \in DOMAIN fildes, Close(fd)
  PROVE  Promise!Close(fd)
<1>1. /\ fildes' = Without(fildes, fd)
      /\ UNCHANGED <<mounted, entry, call, saved, disk>> /\ call = Idle /\ mounted
  BY DEF Close, diskVars, Running
<1>2. DOMAIN fildes' = DOMAIN fildes \ {fd} /\ \A g \in DOMAIN fildes' : fildes'[g] = fildes[g]
  BY <1>1 DEF Without
<1>3. Store' = Store /\ Durable' = Durable
  BY <1>1, FilesSame
<1>4. ~Writing /\ ~Writing'
  BY <1>1 DEF Writing, Idle
<1>5. HandlesOf = [g \in DOMAIN fildes |-> [name |-> fildes[g].name, pos |-> fildes[g].seek]]
  BY <1>1, <1>4 DEF HandlesOf
<1>6. HandlesOf' = [g \in DOMAIN fildes' |-> [name |-> fildes'[g].name, pos |-> fildes'[g].seek]]
  BY <1>1, <1>4 DEF HandlesOf
<1>7. HandlesOf' = Promise!Without(HandlesOf, fd)
  BY <1>2, <1>5, <1>6 DEF Promise!Without
<1>8. fd \in DOMAIN HandlesOf
  BY <1>5
<1> QED BY <1>1, <1>3, <1>7, <1>8 DEF Promise!Close

\* The file of a descriptor, between calls.
LEMMA HandleIdle ==
  ASSUME TablesInv, mounted, call = Idle, NEW fd \in DOMAIN fildes
  PROVE  /\ fd \in DOMAIN HandlesOf /\ HandlesOf[fd].name = fildes[fd].name
         /\ HandlesOf[fd].pos = fildes[fd].seek /\ fildes[fd].seek \in Nat
         /\ fildes[fd].name \in DOMAIN Store
         /\ Store[fildes[fd].name] = Content(FileOf(fd).portions, FileOf(fd).size)
         /\ Len(Store[fildes[fd].name]) = FileOf(fd).size /\ FileOf(fd).size \in Nat
<1>1. ~Writing /\ call.op # "truncate"
  BY DEF Writing, Idle
<1>2. HandlesOf = [g \in DOMAIN fildes |-> [name |-> fildes[g].name, pos |-> fildes[g].seek]]
  BY <1>1 DEF HandlesOf
<1> DEFINE e == fildes[fd].entry
<1>3. e \in DOMAIN entry /\ entry[e].name = fildes[fd].name /\ entry[e] = FileOf(fd)
  BY TablesParts DEF FileOf
<1>4. fildes[fd].seek \in Nat /\ FileOf(fd).size \in Nat
  BY TablesParts, FileParts
<1>5. LengthOf(e) = FileOf(fd).size
  BY <1>1, <1>3, LengthIs DEF LengthView
<1> HIDE DEF e
<1>6. /\ fildes[fd].name \in DOMAIN Store
      /\ Store[fildes[fd].name] = Content(FileOf(fd).portions, FileOf(fd).size)
  <2>1. StoreView
    BY StoreIs
  <2>2. /\ entry[e].name \in DOMAIN Store
        /\ Store[entry[e].name] = Content(entry[e].portions, LengthOf(e))
    BY <1>3, <2>1 DEF StoreView
  <2> QED BY <1>3, <1>5, <2>2
<1>7. Len(Content(FileOf(fd).portions, FileOf(fd).size)) = FileOf(fd).size
  BY <1>4, ContentLength
<1> QED BY <1>2, <1>4, <1>6, <1>7

\* A descriptor that is moved within its file.
LEMMA KeepsMoved ==
  ASSUME TablesInv, TablesInv', mounted, mounted', call = Idle, call' = call,
         UNCHANGED <<entry, saved, disk>>, NEW fd \in DOMAIN fildes,
         NEW s \in 0..FileOf(fd).size, fildes' = [fildes EXCEPT ![fd].seek = s]
  PROVE  Promise!Move(fd)
<1>1. Store' = Store /\ Durable' = Durable
  BY FilesSame
<1>2. ~Writing /\ ~Writing'
  BY DEF Writing, Idle
<1>3. /\ DOMAIN fildes' = DOMAIN fildes
      /\ \A g \in DOMAIN fildes : fildes'[g].name = fildes[g].name
      /\ fildes'[fd].seek = s /\ \A g \in DOMAIN fildes \ {fd} : fildes'[g].seek = fildes[g].seek
  <2>1. \A g \in DOMAIN fildes : fildes[g] \in Handle
    BY TablesParts
  <2>2. \A g \in DOMAIN fildes :
          fildes'[g] = IF g = fd THEN [fildes[fd] EXCEPT !.seek = s] ELSE fildes[g]
    OBVIOUS
  <2>3. /\ [fildes[fd] EXCEPT !.seek = s].seek = s
        /\ [fildes[fd] EXCEPT !.seek = s].name = fildes[fd].name
    BY <2>1 DEF Handle
  <2> QED BY <2>2, <2>3
<1>4. PosOf(fd)' = s /\ \A g \in DOMAIN fildes \ {fd} : PosOf(g)' = PosOf(g)
  BY <1>2, <1>3 DEF PosOf
<1>5. Promise!MovesTo(fd, s)
  BY <1>3, <1>4, MovesOne
<1>6. s \in 0..Len(Store[HandlesOf[fd].name])
  BY HandleIdle
<1> QED BY <1>1, <1>5, <1>6 DEF Promise!Move

\* fs_lseek moves a descriptor.
LEMMA KeepsLseek ==
  ASSUME TablesInv, TablesInv', NEW fd \in DOMAIN fildes, NEW n \in Amounts, Lseek(fd, n)
  PROVE  Promise!Move(fd)
<1>1. /\ fildes' = [fildes EXCEPT ![fd].seek = n] /\ n <= FileOf(fd).size
      /\ UNCHANGED <<mounted, entry, call, saved, disk>> /\ call = Idle /\ mounted
  BY DEF Lseek, diskVars, Running
<1>2. n \in 0..FileOf(fd).size
  <2>1. FileOf(fd).size \in Nat /\ n \in Nat
    BY <1>1, HandleIdle, SizesAssumption
  <2> QED BY <1>1, <2>1
<1> QED BY <1>1, <1>2, KeepsMoved

\* fs_read moves a descriptor behind what it read; one that is behind the end
\* of its file stays there.
LEMMA KeepsRead ==
  ASSUME TablesInv, TablesInv', NEW fd \in DOMAIN fildes, NEW n \in Amounts \ {0}, Read(fd, n)
  PROVE  Promise!Move(fd) \/ UNCHANGED <<mounted, Store, HandlesOf, Durable>>
<1> DEFINE to == fildes[fd].seek + ReadLength(fd, n)
<1>1. /\ fildes' = [fildes EXCEPT ![fd].seek = to]
      /\ UNCHANGED <<mounted, entry, call, saved, disk>> /\ call = Idle /\ mounted
  BY DEF Read, diskVars, Running
<1>2. fildes[fd].seek \in Nat /\ FileOf(fd).size \in Nat /\ n \in Nat
  BY <1>1, HandleIdle, SizesAssumption
<1>3. CASE fildes[fd].seek <= FileOf(fd).size
  <2>1. to \in 0..FileOf(fd).size
    BY <1>2, <1>3 DEF ReadLength, Min2, Max2
  <2> HIDE DEF to
  <2> QED BY <1>1, <2>1, KeepsMoved
<1>4. CASE ~(fildes[fd].seek <= FileOf(fd).size)
  <2>1. to = fildes[fd].seek
    BY <1>2, <1>4 DEF ReadLength, Min2, Max2
  <2> HIDE DEF to
  <2>2. \A g \in DOMAIN fildes : fildes'[g].seek = fildes[g].seek /\ fildes'[g].name = fildes[g].name
    <3>1. \A g \in DOMAIN fildes : fildes[g] \in Handle
      BY TablesParts
    <3>2. \A g \in DOMAIN fildes :
            fildes'[g] = IF g = fd THEN [fildes[fd] EXCEPT !.seek = to] ELSE fildes[g]
      BY <1>1
    <3>3. /\ [fildes[fd] EXCEPT !.seek = to].seek = to
          /\ [fildes[fd] EXCEPT !.seek = to].name = fildes[fd].name
      BY <3>1 DEF Handle
    <3> QED BY <2>1, <3>2, <3>3
  <2>3. DOMAIN fildes' = DOMAIN fildes
    BY <1>1
  <2>4. \A g \in DOMAIN fildes : PosOf(g)' = PosOf(g)
    <3>1. ~Writing /\ ~Writing'
      BY <1>1 DEF Writing, Idle
    <3> QED BY <2>2, <3>1 DEF PosOf
  <2>5. HandlesOf' = HandlesOf
    BY <1>1, <2>2, <2>3, <2>4, HandlesSame
  <2> QED BY <1>1, <2>5, FilesSame
<1> QED BY <1>3, <1>4

-----------------------------------------------------------------------------
(* fs_truncate.                                                            *)

\* The first bytes of a file are those of the file cut there.
LEMMA ContentCut ==
  ASSUME NEW ps, NEW len \in Nat, NEW cut \in 0..len
  PROVE  SubSeq(Content(ps, len), 1, cut) = Content(ps, cut)
<1> DEFINE whole == Content(ps, len)
           part == Content(ps, cut)
           sub == SubSeq(whole, 1, cut)
           S == {whole[j] : j \in 1..cut}
           bs == FileBlocks(ps)
<1>1. /\ whole = [k \in 1..len |-> disk[bs[(k - 1) \div BlockSize + 1]][(k - 1) % BlockSize]]
      /\ part = [k \in 1..cut |-> disk[bs[(k - 1) \div BlockSize + 1]][(k - 1) % BlockSize]]
  BY DEF Content
<1>2. \A k \in 1..cut : k \in 1..len
  OBVIOUS
<1>3. \A k \in 1..cut : whole[k] = part[k]
  <2> HIDE DEF whole, part, bs
  <2> QED BY <1>1, <1>2
<1>4. part = [k \in 1..cut |-> part[k]]
  BY DEF Content
<1>5. \A j \in 1..cut : whole[j] \in S
  OBVIOUS
<1> HIDE DEF whole, part, S
<1>6. /\ sub \in Seq(S) /\ Len(sub) = IF 1 <= cut THEN cut - 1 + 1 ELSE 0
      /\ \A j \in 1..cut - 1 + 1 : sub[j] = whole[1 + j - 1]
  BY <1>5, SubSeqProperties
<1>7. Len(sub) = cut
  BY <1>6
<1>8. sub \in [1..Len(sub) -> S]
  BY <1>6, LenProperties
<1>9. \A j \in 1..cut : sub[j] = whole[j]
  <2> TAKE j \in 1..cut
  <2>1. j \in 1..cut - 1 + 1 /\ 1 + j - 1 = j
    OBVIOUS
  <2> QED BY <1>6, <2>1
<1> HIDE DEF sub
<1>10. sub = [k \in 1..cut |-> part[k]]
  BY <1>3, <1>7, <1>8, <1>9
<1> QED BY <1>4, <1>10 DEF sub, part, whole

\* fs_truncate cuts the file: from its first step on, the bytes behind the
\* new length are gone.
LEMMA KeepsStartTruncate ==
  ASSUME TablesInv, TablesInv', NEW fd \in DOMAIN fildes, NEW length \in Amounts,
         StartTruncate(fd, length)
  PROVE  Promise!Truncate(fd)
<1>0. PICK e : e = fildes[fd].entry
  OBVIOUS
<1> DEFINE size == FileOf(fd).size
           n == fildes[fd].name
           s == Min2(fildes[fd].seek, length)
           cut == [op |-> "truncate", entry |-> e, length |-> length]
<1>1. /\ mounted /\ call = Idle /\ length <= size /\ fildes' = [fildes EXCEPT ![fd].seek = s]
      /\ UNCHANGED <<mounted, entry, saved, disk>>
      /\ call' = IF size > length THEN cut ELSE Idle
  BY <1>0 DEF StartTruncate, diskVars, Running
<1>2. /\ fd \in DOMAIN HandlesOf /\ HandlesOf[fd].name = n
      /\ HandlesOf[fd].pos = fildes[fd].seek /\ fildes[fd].seek \in Nat
      /\ n \in DOMAIN Store /\ Store[n] = Content(FileOf(fd).portions, size)
      /\ Len(Store[n]) = size /\ size \in Nat
  BY <1>1, HandleIdle
<1>3. length \in 0..size /\ length \in Nat
  <2>1. length \in Nat
    BY SizesAssumption
  <2> HIDE DEF size
  <2> QED BY <1>1, <1>2, <2>1
<1>4. e \in DOMAIN entry /\ entry[e].name = n /\ entry[e] = FileOf(fd)
      /\ \A x, y \in DOMAIN entry : entry[x].name = entry[y].name => x = y
  BY <1>0, TablesParts DEF FileOf
<1>5. ~Writing /\ ~Writing' /\ call.op # "truncate"
  <2>1. cut.op = "truncate" /\ Idle.op = "idle"
    BY DEF Idle
  <2> HIDE DEF cut
  <2> QED BY <1>1, <2>1 DEF Writing
<1>6. LengthOf(e)' = length /\ \A x : x # e => LengthOf(x)' = entry[x].size
  <2>1. CASE size > length
    <3>1. call'.op = "truncate" /\ call'.entry = e /\ call'.length = length
      BY <1>1, <2>1
    <3>2. \A x : LengthOf(x)' = IF x = call'.entry THEN call'.length ELSE entry'[x].size
      BY <3>1, LengthNext
    <3> QED BY <1>1, <3>1, <3>2
  <2>2. CASE ~(size > length)
    <3>1. call'.op # "truncate"
      BY <1>1, <2>2 DEF Idle
    <3>2. \A x : LengthOf(x)' = entry'[x].size
      BY <1>5, <3>1, LengthNext
    <3>3. size = length
      <4> HIDE DEF size
      <4> QED BY <1>2, <1>3, <2>2
    <3>4. LengthOf(e)' = entry'[e].size
      BY <3>2
    <3> QED BY <1>1, <1>4, <3>2, <3>3, <3>4
  <2> QED BY <2>1, <2>2
<1>7. /\ DOMAIN Store = {entry[x].name : x \in DOMAIN entry}
      /\ Store = [m \in DOMAIN Store |-> Store[m]]
      /\ \A x \in DOMAIN entry : Store[entry[x].name] = Content(entry[x].portions, entry[x].size)
  <2>1. \A x : LengthOf(x) = entry[x].size
    BY <1>5, LengthIs DEF LengthView
  <2> QED BY <1>1, <2>1, StoreIs DEF StoreView
<1>8. /\ DOMAIN Store' = {entry[x].name : x \in DOMAIN entry}
      /\ Store' = [m \in DOMAIN Store' |-> Store'[m]]
      /\ \A x \in DOMAIN entry :
           Store'[entry[x].name] = ContentAfter(entry[x].portions, LengthOf(x)')
  BY <1>1, StoreNext
<1>9. \A ps, len : ContentAfter(ps, len) = Content(ps, len)
  BY <1>1 DEF ContentAfter, Content
<1>10. Store'[n] = SubSeq(Store[n], 1, length)
  <2>1. Store'[n] = Content(FileOf(fd).portions, length)
    <3>1. Store'[entry[e].name] = ContentAfter(entry[e].portions, LengthOf(e)')
      BY <1>4, <1>8
    <3> QED BY <1>4, <1>6, <1>9, <3>1
  <2>2. SubSeq(Content(FileOf(fd).portions, size), 1, length) = Content(FileOf(fd).portions, length)
    <3> HIDE DEF size
    <3> QED BY <1>2, <1>3, ContentCut
  <2> QED BY <1>2, <2>1, <2>2
<1>11. \A m \in DOMAIN Store \ {n} : Store'[m] = Store[m]
  <2> TAKE m \in DOMAIN Store \ {n}
  <2>1. PICK x \in DOMAIN entry : entry[x].name = m
    BY <1>7
  <2>2. x # e
    BY <1>4, <2>1
  <2>3. Store'[m] = ContentAfter(entry[x].portions, LengthOf(x)') /\ LengthOf(x)' = entry[x].size
    BY <1>6, <1>8, <2>1, <2>2
  <2> QED BY <1>7, <1>9, <2>1, <2>3
<1> HIDE DEF n, size
<1>12. Store' = [Store EXCEPT ![n] = SubSeq(Store[n], 1, length)]
  <2> DEFINE c == SubSeq(Store[n], 1, length)
  <2> HIDE DEF c
  <2> QED BY <1>2, <1>7, <1>8, <1>10, <1>11 DEF c
<1>13. /\ DOMAIN fildes' = DOMAIN fildes
       /\ \A g \in DOMAIN fildes : fildes'[g].name = fildes[g].name
       /\ fildes'[fd].seek = s /\ \A g \in DOMAIN fildes \ {fd} : fildes'[g].seek = fildes[g].seek
  <2> HIDE DEF s
  <2>1. \A g \in DOMAIN fildes : fildes[g] \in Handle
    BY TablesParts
  <2>2. \A g \in DOMAIN fildes :
          fildes'[g] = IF g = fd THEN [fildes[fd] EXCEPT !.seek = s] ELSE fildes[g]
    BY <1>1
  <2>3. /\ [fildes[fd] EXCEPT !.seek = s].seek = s
        /\ [fildes[fd] EXCEPT !.seek = s].name = fildes[fd].name
    BY <2>1 DEF Handle
  <2>4. DOMAIN fildes' = DOMAIN fildes
    BY <1>1
  <2> QED BY <2>2, <2>3, <2>4
<1>14. PosOf(fd)' = s /\ \A g \in DOMAIN fildes \ {fd} : PosOf(g)' = PosOf(g)
  BY <1>5, <1>13 DEF PosOf
<1>15. Promise!MovesTo(fd, s)
  <2> HIDE DEF s
  <2> QED BY <1>1, <1>13, <1>14, MovesOne
<1>16. s = IF HandlesOf[fd].pos > length THEN length ELSE HandlesOf[fd].pos
  BY <1>2, <1>3 DEF Min2
<1>17. Durable' = Durable
  BY <1>1, DurableSame
<1>18. length \in 0..Len(Store[HandlesOf[fd].name])
  BY <1>2, <1>3
<1> HIDE DEF s
<1> QED BY <1>2, <1>12, <1>15, <1>16, <1>17, <1>18 DEF Promise!Truncate

\* What fs_truncate does then, block by block, changes no file.
LEMMA KeepsTruncateOn ==
  ASSUME TablesInv, BlocksInv, TablesInv', TruncateOn
  PROVE  UNCHANGED <<mounted, Store, HandlesOf, Durable>>
<1>0. PICK e : e = call.entry
  OBVIOUS
<1> DEFINE file == entry[e]
           size == IF FreesBlock(file) THEN Shorter(file) ELSE call.length
           ps == file.portions
           g == [file EXCEPT !.size = size]
           h == [file EXCEPT !.size = size, !.portions = Shortened(ps)]
<1>1. /\ call.op = "truncate"
      /\ \/ FreesBlock(file) /\ entry' = [entry EXCEPT ![e] = h]
         \/ ~FreesBlock(file) /\ entry' = [entry EXCEPT ![e] = g]
      /\ call' = IF size > call.length THEN call ELSE Idle
      /\ UNCHANGED <<mounted, fildes, saved, disk>>
  BY <1>0 DEF TruncateOn, diskVars
<1>2. /\ mounted /\ e \in DOMAIN entry /\ call.length \in Nat /\ file \in File
      /\ file.size \in Nat /\ ps \in Seq(Portion)
  BY <1>0, <1>1, CutParts
<1>3. ~Writing /\ ~Writing' /\ file.size > call.length
  BY <1>0, <1>1 DEF Writing, Idle, BlocksInv, CutInv
<1>4. Tidy(ps) /\ Cardinality(SetOfBlocks(ps)) = BlocksNeeded(file.size)
  BY <1>2, <1>3, MemoryIdle DEF Kept
<1>5. /\ BytesInLastBlock(file.size) \in 1..BlockSize
      /\ file.size - BytesInLastBlock(file.size) \in Nat
      /\ BlocksNeeded(file.size) \in Nat \ {0}
      /\ BlocksNeeded(file.size - BytesInLastBlock(file.size)) = BlocksNeeded(file.size) - 1
  <2> DEFINE s == file.size
  <2> HIDE DEF s
  <2>1. s \in Nat \ {0}
    BY <1>2, <1>3 DEF s
  <2>2. /\ BytesInLastBlock(s) \in 1..BlockSize /\ s - BytesInLastBlock(s) \in Nat
        /\ BlocksNeeded(s) \in Nat \ {0}
        /\ BlocksNeeded(s - BytesInLastBlock(s)) = BlocksNeeded(s) - 1
    BY <2>1, CutNeeds
  <2> QED BY <2>2 DEF s
<1>6. /\ DOMAIN entry' = DOMAIN entry /\ \A x \in DOMAIN entry \ {e} : entry'[x] = entry[x]
      /\ entry'[e] = IF FreesBlock(file) THEN h ELSE g
  <2> HIDE DEF g, h
  <2> QED BY <1>1, <1>2
<1>7. /\ h.name = file.name /\ h.size = size /\ h.portions = Shortened(ps)
      /\ g.name = file.name /\ g.size = size /\ g.portions = ps
  <2> DEFINE q == Shortened(ps)
  <2> HIDE DEF q, size
  <2> QED BY <1>2 DEF q, File
<1>8. size \in Nat /\ size >= call.length
  <2>1. Shorter(file) = file.size - BytesInLastBlock(file.size)
    BY DEF Shorter
  <2> DEFINE z == Shorter(file)
  <2>2. z \in Nat /\ (FreesBlock(file) => z >= call.length)
    BY <1>5, <2>1 DEF FreesBlock
  <2>3. size = IF FreesBlock(file) THEN z ELSE call.length
    OBVIOUS
  <2> HIDE DEF z, size
  <2> QED BY <1>2, <2>2, <2>3
<1> HIDE DEF g, h, size
<1>9. LengthOf(e) = call.length /\ \A x : x # e => LengthOf(x) = entry[x].size
  BY <1>0, <1>1, LengthIs DEF LengthView
<1>10. LengthOf(e)' = call.length /\ \A x : x # e => LengthOf(x)' = entry'[x].size
  <2>1. CASE size > call.length
    <3>1. call' = call
      BY <1>1, <2>1
    <3>2. \A x : LengthOf(x)' = IF x = call'.entry THEN call'.length ELSE entry'[x].size
      BY <1>1, <3>1, LengthNext
    <3> QED BY <1>0, <3>1, <3>2
  <2>2. CASE ~(size > call.length)
    <3>1. call'.op # "truncate"
      BY <1>1, <2>2 DEF Idle
    <3>2. \A x : LengthOf(x)' = entry'[x].size
      BY <1>3, <3>1, LengthNext
    <3>3. size = call.length
      BY <1>2, <1>8, <2>2
    <3>4. LengthOf(e)' = entry'[e].size
      BY <3>2
    <3> QED BY <1>6, <1>7, <3>2, <3>3, <3>4
  <2> QED BY <2>1, <2>2
<1>11. ContentAfter(entry'[e].portions, call.length) = Content(ps, call.length)
  <2>1. CASE FreesBlock(file)
    <3> DEFINE q == Shortened(ps)
    <3>1. entry'[e].portions = q
      BY <1>6, <1>7, <2>1
    <3>2. ps # <<>>
      <4>1. Cardinality(SetOfBlocks(ps)) # 0
        BY <1>4, <1>5
      <4> QED BY <4>1, NoBlocks
    <3>3. Tidy(q) /\ Cardinality(SetOfBlocks(q)) = Cardinality(SetOfBlocks(ps)) - 1
      <4> HIDE DEF ps
      <4> QED BY <1>4, <3>2, ShortenedIs
    <3>4. Begins(q, ps)
      <4> HIDE DEF ps
      <4> QED BY <1>4, <3>2, ShortenedBegins
    <3>5. BlocksNeeded(call.length) <= Cardinality(SetOfBlocks(q)) /\ BlocksNeeded(call.length) \in Nat
      <4> DEFINE z == file.size - BytesInLastBlock(file.size)
                 l == call.length
      <4>1. z \in Nat /\ l \in Nat /\ l <= z
        <5>1. Shorter(file) >= call.length /\ Shorter(file) = z
          BY <2>1 DEF FreesBlock, Shorter
        <5>2. z \in Nat /\ l \in Nat
          BY <1>2, <1>5
        <5> HIDE DEF z
        <5> QED BY <5>1, <5>2
      <4>2. Cardinality(SetOfBlocks(q)) = BlocksNeeded(z)
        BY <1>4, <1>5, <3>3
      <4> HIDE DEF z, l, q
      <4>3. BlocksNeeded(l) <= BlocksNeeded(z) /\ BlocksNeeded(l) \in Nat
        BY <4>1, NeededMonotone
      <4> QED BY <4>2, <4>3 DEF l
    <3>6. \A x \in 1..Cardinality(SetOfBlocks(q)) : FileBlocks(q)[x] = FileBlocks(ps)[x]
      <4> HIDE DEF q, ps
      <4> QED BY <1>4, <3>3, <3>4, BeginsBlocks
    <3>7. \A x \in 1..BlocksNeeded(call.length) : FileBlocks(q)[x] = FileBlocks(ps)[x]
      <4> DEFINE a == BlocksNeeded(call.length)
                 c == Cardinality(SetOfBlocks(q))
      <4>1. a \in Nat /\ a <= c /\ c \in Nat
        BY <3>3, <3>5, TidyFinite
      <4> HIDE DEF a, c
      <4>2. 1..a \subseteq 1..c
        BY <4>1
      <4> QED BY <3>6, <4>2 DEF a, c
    <3> HIDE DEF q, ps
    <3>8. ContentAfter(q, call.length) = Content(ps, call.length)
      BY <1>1, <1>2, <3>7, ContentBegins
    <3> QED BY <3>1, <3>8
  <2>2. CASE ~FreesBlock(file)
    <3>1. entry'[e].portions = ps
      BY <1>6, <1>7, <2>2
    <3>2. \A len : ContentAfter(ps, len) = Content(ps, len)
      BY <1>1 DEF ContentAfter, Content
    <3> QED BY <3>1, <3>2
  <2> QED BY <2>1, <2>2
<1>12. \A x \in DOMAIN entry :
         /\ entry'[x].name = entry[x].name
         /\ ContentAfter(entry'[x].portions, LengthOf(x)') = Content(entry[x].portions, LengthOf(x))
  <2> TAKE x \in DOMAIN entry
  <2>1. CASE x = e
    <3>1. entry'[e].name = entry[e].name
      BY <1>6, <1>7
    <3>2. LengthOf(x)' = call.length
      BY <1>10, <2>1
    <3>3. LengthOf(x) = call.length
      BY <1>9, <2>1
    <3> QED BY <1>11, <2>1, <3>1, <3>2, <3>3
  <2>2. CASE x # e
    <3>1. LengthOf(x)' = entry'[x].size /\ LengthOf(x) = entry[x].size
      BY <1>9, <1>10, <2>2
    <3>2. entry'[x] = entry[x]
      BY <1>6, <2>2
    <3>3. \A qs, len : ContentAfter(qs, len) = Content(qs, len)
      BY <1>1 DEF ContentAfter, Content
    <3> QED BY <3>1, <3>2, <3>3
  <2> QED BY <2>1, <2>2
<1>13. Store' = Store
  BY <1>1, <1>2, <1>6, <1>12, StoreSame
<1>14. HandlesOf' = HandlesOf
  BY <1>1, <1>2, <1>3, HandlesSame DEF PosOf
<1> QED BY <1>1, <1>13, <1>14, DurableSame

-----------------------------------------------------------------------------
(* fs_write.                                                               *)

\* What one turn of a write makes of the blocks.
LEMMA PutPieceIs ==
  ASSUME TablesInv, Writing, PutPiece, call.at.block \in BlockNumbers
  PROVE  /\ \A b \in BlockNumbers \ {call.at.block} : disk'[b] = disk[b]
         /\ \A o \in 0..BlockSize-1 :
              disk'[call.at.block][o] =
                IF o \in Offset..Offset+Piece-1
                THEN <<entry[WriteSlot].name, call.seek + o - Offset, call.version>>
                ELSE disk[call.at.block][o]
<1> DEFINE a == call.at.block
           new == [o \in 0..BlockSize-1 |->
                     IF o \in Offset..Offset+Piece-1
                     THEN <<entry[WriteSlot].name, call.seek + o - Offset, call.version>>
                     ELSE disk[a][o]]
<1>1. disk' = [disk EXCEPT ![a] = new]
  BY DEF PutPiece
<1>2. a \in DOMAIN disk /\ DOMAIN disk = BlockNumbers
  BY TablesParts
<1>3. disk'[a] = new /\ \A b \in BlockNumbers \ {a} : disk'[b] = disk[b]
  <2> HIDE DEF new, a
  <2> QED BY <1>1, <1>2
<1> QED BY <1>3

\* The file that is written has blocks up to the position, and for all of
\* its bytes.
LEMMA WriteCovers ==
  ASSUME NEW size \in Nat, NEW pos \in Nat, NEW c \in Nat,
         c = Max2(BlocksNeeded(size), pos \div BlockSize + 1)
  PROVE  BlocksNeeded(Max2(size, pos)) <= c /\ BlocksNeeded(Max2(size, pos)) \in Nat
<1> DEFINE a == BlocksNeeded(size)
           b == BlocksNeeded(pos)
           s == pos \div BlockSize
<1>1. a \in Nat /\ b \in Nat /\ s \in Nat
  <2>1. s \in Nat
    BY Sizes
  <2> QED BY <2>1, NeededMonotone
<1>2. BlocksNeeded(Max2(size, pos)) = Max2(a, b)
  BY NeededMax
<1>3. b <= s + 1
  <2>1. 1 \in Nat \ {0} /\ (pos % BlockSize) + 1 <= BlockSize
    BY Sizes
  <2>2. BlocksNeeded(pos + 1) = s + 1
    BY <2>1, PieceEnds
  <2> DEFINE z == pos + 1
  <2>3. z \in Nat /\ pos <= z
    OBVIOUS
  <2> HIDE DEF z, s
  <2>4. BlocksNeeded(pos) <= BlocksNeeded(z)
    BY <2>3, NeededMonotone
  <2> QED BY <2>2, <2>4 DEF z
<1>4. c = Max2(a, s + 1)
  OBVIOUS
<1> HIDE DEF a, b, s
<1>5. Max2(a, b) <= c /\ Max2(a, b) \in Nat
  BY <1>1, <1>3, <1>4 DEF Max2
<1> QED BY <1>2, <1>5

\* Byte number k of the file after one turn: one of the piece,
LEMMA PieceWritten ==
  ASSUME TablesInv, BlocksInv, Writing, PutPiece, NEW e, e = WriteSlot,
         NEW ps, ps = entry[e].portions, NEW k \in call.seek+1..call.seek+Piece
  PROVE  disk'[FileBlocks(ps)[(k - 1) \div BlockSize + 1]][(k - 1) % BlockSize]
           = <<entry[e].name, k - 1, call.version>>
<1> DEFINE pos == call.seek
           count == Piece
           s == pos \div BlockSize
           o == pos % BlockSize
           x == k - 1
           r == o + (x - pos)
           a == call.at.block
<1>1. /\ pos \in Nat /\ count \in Nat \ {0} /\ Offset = o /\ o \in 0..BlockSize-1
      /\ o + count <= BlockSize
  <2>1. Offset = o
    BY DEF Offset
  <2> QED BY <2>1, WriteParts
<1>2. pos = BlockSize * s + o /\ BlockSize * s \in Int /\ s \in Int
  <2>1. PICK d \in Int, t \in 0..BlockSize-1 :
          pos = BlockSize * d + t /\ pos \div BlockSize = d /\ pos % BlockSize = t
    <3>1. pos \in Int
      BY <1>1
    <3> HIDE DEF pos
    <3> QED BY <3>1, Division
  <2>2. BlockSize * d \in Int
    BY Multiples
  <2> QED BY <2>1, <2>2
<1>3. x \in pos..pos+count-1 /\ x \in Int
  <2> HIDE DEF pos, count
  <2>1. k \in pos+1..pos+count
    BY DEF pos, count
  <2> QED BY <1>1, <2>1
<1>4. r \in o..o+count-1 /\ r \in 0..BlockSize-1 /\ pos + r - o = x
  <2> HIDE DEF pos, count, o, x
  <2> QED BY <1>1, <1>3, Sizes
<1>5. x = BlockSize * s + r
  <2> DEFINE u == BlockSize * s
  <2> HIDE DEF pos, count, o, x, u
  <2> QED BY <1>1, <1>2, <1>3 DEF u
<1>6. x \div BlockSize = s /\ x % BlockSize = r
  <2> HIDE DEF s, x, r
  <2> QED BY <1>2, <1>3, <1>4, <1>5, DivisionIs
<1>7. /\ Tidy(ps) /\ call.at \in [portion : Int, block : Int] /\ At(ps, call.at)
      /\ Cardinality(UpTo(ps, call.at)) = s + 1
  BY WriteHolds
<1>8. FileBlocks(ps)[s + 1] = a /\ a \in BlockNumbers
  <2>1. FileBlocks(ps)[Cardinality(UpTo(ps, call.at))] = a
    BY <1>7, FileBlocksAre
  <2>2. call.at.portion \in 1..Len(ps) /\ a \in BlocksOf(ps[call.at.portion])
    BY <1>7 DEF At
  <2>3. a \in BlockNumbers
    BY <1>7, <2>2 DEF Tidy
  <2> QED BY <1>7, <2>1, <2>3
<1>9. disk'[a][r] = <<entry[e].name, pos + r - o, call.version>>
  <2>1. \A i \in 0..BlockSize-1 :
          disk'[a][i] = IF i \in o..o+count-1
                        THEN <<entry[e].name, pos + i - o, call.version>>
                        ELSE disk[a][i]
    BY <1>1, <1>8, PutPieceIs
  <2> HIDE DEF a, r, pos, count, o
  <2> QED BY <1>4, <2>1
<1> HIDE DEF pos, count, s, o, a, r
<1> QED BY <1>4, <1>6, <1>8, <1>9 DEF x

\* or one that was there before.
LEMMA PieceLeaves ==
  ASSUME TablesInv, BlocksInv, Writing, PutPiece, NEW e, e = WriteSlot,
         NEW ps, ps = entry[e].portions, NEW k \in 1..Max2(entry[e].size, call.seek),
         k \notin call.seek+1..call.seek+Piece
  PROVE  /\ disk'[FileBlocks(ps)[(k - 1) \div BlockSize + 1]][(k - 1) % BlockSize]
              = disk[FileBlocks(ps)[(k - 1) \div BlockSize + 1]][(k - 1) % BlockSize]
         /\ (k - 1) \div BlockSize + 1 \in 1..Cardinality(SetOfBlocks(ps))
<1> DEFINE pos == call.seek
           count == Piece
           s == pos \div BlockSize
           o == pos % BlockSize
           x == k - 1
           d == x \div BlockSize
           i == x % BlockSize
           a == call.at.block
           bs == FileBlocks(ps)
           c == Cardinality(SetOfBlocks(ps))
           len == Max2(entry[e].size, pos)
<1>1. /\ pos \in Nat /\ count \in Nat \ {0} /\ Offset = o /\ o \in 0..BlockSize-1
  <2>1. Offset = o
    BY DEF Offset
  <2> QED BY <2>1, WriteParts
<1>2. /\ Tidy(ps) /\ call.at \in [portion : Int, block : Int] /\ At(ps, call.at)
      /\ Cardinality(UpTo(ps, call.at)) = s + 1 /\ s \in Nat
      /\ entry[e].size \in Nat /\ c = Max2(BlocksNeeded(entry[e].size), s + 1)
  BY WriteHolds
<1>3. len \in Nat /\ BlocksNeeded(len) <= c /\ BlocksNeeded(len) \in Nat /\ c \in Nat
  <2>1. c \in Nat
    BY <1>2, TidyFinite
  <2> DEFINE z == entry[e].size
  <2>2. len \in Nat
    <3> HIDE DEF pos, z
    <3> QED BY <1>1, <1>2 DEF Max2, z
  <2> HIDE DEF z, pos, c
  <2>3. BlocksNeeded(Max2(z, pos)) <= c /\ BlocksNeeded(Max2(z, pos)) \in Nat
    BY <1>1, <1>2, <2>1, WriteCovers DEF z
  <2> QED BY <2>1, <2>2, <2>3 DEF z
<1>4. d + 1 \in 1..BlocksNeeded(len) /\ d \in Nat
  <2>1. k \in 1..len
    OBVIOUS
  <2> HIDE DEF len
  <2> QED BY <1>3, <2>1, PlaceWithin
<1>5. d + 1 \in 1..c
  <2> HIDE DEF d, c, len
  <2> QED BY <1>3, <1>4
<1>6. bs[d + 1] \in BlockNumbers
  <2>1. Len(bs) = c /\ \A y \in 1..Len(bs) : bs[y] \in SetOfBlocks(ps)
    BY <1>2, FileBlocksAre
  <2>2. bs[d + 1] \in SetOfBlocks(ps)
    <3> HIDE DEF bs, d, c
    <3> QED BY <1>5, <2>1
  <2> HIDE DEF bs, d
  <2> QED BY <1>2, <2>2, TidyFinite
<1>7. bs[s + 1] = a /\ s + 1 \in 1..c
  <2>1. bs[Cardinality(UpTo(ps, call.at))] = a
    BY <1>2, FileBlocksAre
  <2> DEFINE z == BlocksNeeded(entry[e].size)
  <2>2. z \in Nat
    BY <1>2, NeededMonotone
  <2>3. s + 1 \in 1..c
    <3> HIDE DEF s, c, z
    <3>1. c = Max2(z, s + 1)
      BY <1>2 DEF z
    <3> QED BY <1>2, <2>2, <3>1 DEF Max2
  <2> QED BY <1>2, <2>1, <2>3
<1>8. CASE d # s
  <2>1. bs[d + 1] # a
    <3> SUFFICES ASSUME bs[d + 1] = a PROVE FALSE
      OBVIOUS
    <3> DEFINE y == d + 1
               z == s + 1
    <3>1. y \in 1..c /\ z \in 1..c /\ FileBlocks(ps)[y] = FileBlocks(ps)[z]
      BY <1>5, <1>7
    <3> HIDE DEF y, z
    <3>2. y = z
      BY <1>2, <3>1, BlocksDiffer
    <3>3. d = s
      <4> HIDE DEF d, s
      <4> QED BY <1>2, <1>4, <3>2 DEF y, z
    <3> QED BY <1>8, <3>3
  <2>2. a \in BlockNumbers /\ \A b \in BlockNumbers \ {a} : disk'[b] = disk[b]
    <3>1. call.at.portion \in 1..Len(ps) /\ a \in BlocksOf(ps[call.at.portion])
      BY <1>2 DEF At
    <3>2. a \in BlockNumbers
      BY <1>2, <3>1 DEF Tidy
    <3> QED BY <3>2, PutPieceIs
  <2>3. disk'[bs[d + 1]] = disk[bs[d + 1]]
    <3> HIDE DEF bs, d, a
    <3> QED BY <1>6, <2>1, <2>2
  <2> HIDE DEF bs, d
  <2> QED BY <1>5, <2>3 DEF bs, d
<1>9. CASE d = s
  <2>1. bs[d + 1] = a /\ a \in BlockNumbers
    BY <1>6, <1>7, <1>9
  <2>2. \A t \in 0..BlockSize-1 :
          disk'[a][t] = IF t \in o..o+count-1
                        THEN <<entry[e].name, pos + t - o, call.version>>
                        ELSE disk[a][t]
    BY <1>1, <2>1, PutPieceIs
  <2>3. i \in 0..BlockSize-1 /\ i \notin o..o+count-1
    <3>1. PICK d1 \in Int, t1 \in 0..BlockSize-1 :
            x = BlockSize * d1 + t1 /\ x \div BlockSize = d1 /\ x % BlockSize = t1
      <4>1. x \in Int
        BY <1>3
      <4> HIDE DEF x
      <4> QED BY <4>1, Division
    <3>2. PICK d2 \in Int, t2 \in 0..BlockSize-1 :
            pos = BlockSize * d2 + t2 /\ pos \div BlockSize = d2 /\ pos % BlockSize = t2
      <4>1. pos \in Int
        BY <1>1
      <4> HIDE DEF pos
      <4> QED BY <4>1, Division
    <3> DEFINE u == BlockSize * d1
    <3>3. u \in Int /\ d1 = d2
      BY <1>9, <3>1, <3>2, Multiples
    <3>4. x = u + i /\ pos = u + o /\ i \in 0..BlockSize-1
      BY <3>1, <3>2, <3>3
    <3>5. x \notin pos..pos+count-1
      <4>1. k \in Nat /\ k \notin pos+1..pos+count
        BY <1>3
      <4> HIDE DEF pos, count
      <4> QED BY <1>1, <4>1
    <3>6. x \in Int
      BY <1>3
    <3> HIDE DEF u, x, i, pos, o, count
    <3> QED BY <1>1, <3>3, <3>4, <3>5, <3>6, Sizes
  <2>4. disk'[a][i] = disk[a][i]
    <3> HIDE DEF a, i, o, count, pos
    <3> QED BY <2>2, <2>3
  <2> HIDE DEF bs, d, a, i
  <2> QED BY <1>5, <2>1, <2>4 DEF bs, d, i
<1> QED BY <1>8, <1>9

\* The piece lies in a block of the file.
LEMMA PieceInside ==
  ASSUME TablesInv, BlocksInv, Writing, NEW e, e = WriteSlot,
         NEW ps, ps = entry[e].portions, NEW k \in call.seek+1..call.seek+Piece
  PROVE  (k - 1) \div BlockSize + 1 \in 1..Cardinality(SetOfBlocks(ps))
<1> DEFINE pos == call.seek
           count == Piece
           s == pos \div BlockSize
           c == Cardinality(SetOfBlocks(ps))
           d == (k - 1) \div BlockSize
<1>1. /\ pos \in Nat /\ count \in Nat \ {0} /\ (pos % BlockSize) + count <= BlockSize
  BY WriteParts DEF Offset
<1>2. BlocksNeeded(pos + count) = s + 1
  <2> HIDE DEF pos, count
  <2> QED BY <1>1, PieceEnds DEF pos
<1>3. /\ Tidy(ps) /\ s \in Nat /\ BlocksNeeded(entry[e].size) \in Nat
      /\ c = Max2(BlocksNeeded(entry[e].size), s + 1)
  BY WriteHolds
<1>4. k \in 1..pos+count /\ pos + count \in Nat
  <2>1. k \in pos+1..pos+count
    OBVIOUS
  <2> HIDE DEF pos, count
  <2> QED BY <1>1, <2>1
<1>5. d + 1 \in 1..s+1
  <2> DEFINE len == pos + count
  <2>1. k \in 1..len /\ len \in Nat /\ BlocksNeeded(len) = s + 1
    BY <1>2, <1>4
  <2> HIDE DEF len, s
  <2>2. d + 1 \in 1..BlocksNeeded(len)
    BY <2>1, PlaceWithin
  <2> QED BY <2>1, <2>2
<1> DEFINE z == BlocksNeeded(entry[e].size)
<1> HIDE DEF z, s, d, c
<1>6. z \in Nat /\ c = Max2(z, s + 1) /\ s \in Nat
  BY <1>3 DEF z
<1>7. s + 1 <= c /\ c \in Nat
  BY <1>6 DEF Max2
<1> QED BY <1>3, <1>5, <1>7 DEF c, d

\* A write does not change which files the disk has, or how long they are.
LEMMA DurableSizes ==
  ASSUME TablesInv, BlocksInv, LoadsWhatWasSaved, saved' = saved
  PROVE  /\ DOMAIN Durable' = DOMAIN Durable
         /\ \A d \in DOMAIN Durable : Len(Durable'[d]) = Len(Durable[d])
<1> DEFINE S == {saved.rows[k].name : k \in DOMAIN saved.rows}
           ps(d) == LoadPortions(SavedFile(d).portions)
           len(d) == SavedFile(d).size
<1>1. Durable = [d \in S |-> Content(ps(d), len(d))]
  BY DEF Durable
<1>2. Durable' = [d \in S |-> ContentAfter(ps(d), len(d))]
  BY DEF Durable, ContentAfter, Content, FileBlocks, SavedFile
<1>3. \A d \in S : len(d) \in Nat
  BY SavedFileIs
<1> HIDE DEF S, ps, len
<1>4. \A d \in S : Len(Content(ps(d), len(d))) = len(d) /\ Len(ContentAfter(ps(d), len(d))) = len(d)
  BY <1>3, ContentLength
<1> QED BY <1>1, <1>2, <1>4

\* A turn of a write is a write of the piece, if the file keeps the blocks it
\* had and the position and the length are those behind the piece.
LEMMA KeepsPiece ==
  ASSUME TablesInv, BlocksInv, LoadsWhatWasSaved, TablesInv', Writing, PutPiece,
         mounted' = mounted, saved' = saved, DOMAIN fildes' = DOMAIN fildes,
         \A g \in DOMAIN fildes : fildes'[g].name = fildes[g].name,
         NEW fd, fd = call.fd, PosOf(fd)' = call.seek + Piece,
         \A g \in DOMAIN fildes \ {fd} : PosOf(g)' = PosOf(g),
         DOMAIN entry' = DOMAIN entry, NEW e, e = WriteSlot,
         \A x \in DOMAIN entry \ {e} : entry'[x] = entry[x] /\ LengthOf(x)' = entry[x].size,
         NEW ps, ps = entry[e].portions, NEW q, q = entry'[e].portions,
         entry'[e].name = entry[e].name,
         \A i \in 1..Cardinality(SetOfBlocks(ps)) : FileBlocks(q)[i] = FileBlocks(ps)[i],
         LengthOf(e)' = Max2(entry[e].size, call.seek + Piece)
  PROVE  Promise!Write(fd)
<1> DEFINE n == entry[e].name
           pos == call.seek
           count == Piece
           size == entry[e].size
           old == Max2(size, pos)
           new == Max2(size, pos + count)
           v == call.version
           written == [k \in 1..new |-> IF k \in pos+1..pos+count THEN Promise!Byte(n, k - 1, v)
                                                                 ELSE Store[n][k]]
<1>1. /\ mounted /\ pos \in Nat /\ count \in Nat \ {0} /\ count <= BlockSize
      /\ fd \in DOMAIN fildes /\ v \in Versions /\ e \in DOMAIN entry /\ fildes[fd].name = n
  <2>1. /\ mounted /\ pos \in Nat /\ count \in Nat \ {0} /\ Offset \in 0..BlockSize-1
        /\ Offset + count <= BlockSize /\ fd \in DOMAIN fildes /\ v \in Versions /\ e \in DOMAIN entry
    BY WriteParts
  <2>2. fildes[fd].name = n
    BY <2>1, TablesParts DEF WriteSlot
  <2>3. count <= BlockSize
    <3> DEFINE o == Offset
    <3>1. o \in Nat /\ o + count <= BlockSize
      BY <2>1
    <3> HIDE DEF o, count
    <3> QED BY <2>1, <3>1, Sizes
  <2> QED BY <2>1, <2>2, <2>3
<1>2. /\ Tidy(ps) /\ Kept(entry, dat) /\ size \in Nat /\ call.at.block \in BlockNumbers
      /\ call.at.block \in SetOfBlocks(ps)
      /\ \A x \in DOMAIN entry \ {e} :
           Cardinality(SetOfBlocks(entry[x].portions)) = BlocksNeeded(entry[x].size)
  <2>1. /\ Tidy(ps) /\ Kept(entry, dat) /\ size \in Nat /\ At(ps, call.at)
        /\ \A x \in DOMAIN entry \ {e} :
             Cardinality(SetOfBlocks(entry[x].portions)) = BlocksNeeded(entry[x].size)
    BY WriteHolds
  <2>2. call.at.portion \in 1..Len(ps) /\ call.at.block \in BlocksOf(ps[call.at.portion])
    BY <2>1 DEF At
  <2>3. call.at.block \in BlockNumbers
    BY <2>1, <2>2 DEF Tidy
  <2>4. call.at.block \in SetOfBlocks(ps)
    BY <2>1, <2>2, TidyParts
  <2> QED BY <2>1, <2>3, <2>4
<1>3. \A x \in DOMAIN entry : LengthOf(x) = IF x = e THEN old ELSE entry[x].size
  BY LengthIs DEF LengthView
<1>4. old \in Nat /\ new \in Nat /\ pos <= old
      /\ new = (IF pos + count > old THEN pos + count ELSE old)
  <2> HIDE DEF pos, count, size
  <2> QED BY <1>1, <1>2 DEF Max2
<1>5. /\ DOMAIN Store = {entry[x].name : x \in DOMAIN entry}
      /\ Store = [m \in DOMAIN Store |-> Store[m]]
      /\ \A x \in DOMAIN entry : Store[entry[x].name] = Content(entry[x].portions, LengthOf(x))
  BY <1>1, StoreIs DEF StoreView
<1>6. /\ DOMAIN Store' = {entry'[x].name : x \in DOMAIN entry'}
      /\ Store' = [m \in DOMAIN Store' |-> Store'[m]]
      /\ \A x \in DOMAIN entry' :
           Store'[entry'[x].name] = ContentAfter(entry'[x].portions, LengthOf(x)')
  BY <1>1, StoreNext
<1>7. DOMAIN Store' = DOMAIN Store /\ n \in DOMAIN Store
  <2>1. \A x \in DOMAIN entry : entry'[x].name = entry[x].name
    OBVIOUS
  <2> QED BY <1>1, <1>5, <1>6, <2>1
<1>8. Store[n] = Content(ps, old) /\ Len(Store[n]) = old
  <2>1. Store[n] = Content(ps, old)
    BY <1>1, <1>3, <1>5
  <2> HIDE DEF old, n
  <2> QED BY <1>4, <2>1, ContentLength
<1>9. Store'[n] = ContentAfter(q, new)
  BY <1>1, <1>6
<1>10. ASSUME NEW k \in 1..new
       PROVE  disk'[FileBlocks(q)[(k - 1) \div BlockSize + 1]][(k - 1) % BlockSize]
                = IF k \in pos+1..pos+count THEN Promise!Byte(n, k - 1, v) ELSE Store[n][k]
  <2> DEFINE y == (k - 1) \div BlockSize + 1
             o == (k - 1) % BlockSize
  <2>1. y \in 1..Cardinality(SetOfBlocks(ps)) =>
          FileBlocks(q)[y] = FileBlocks(ps)[y]
    <3> HIDE DEF y
    <3> QED OBVIOUS
  <2>2. CASE k \in pos+1..pos+count
    <3>1. disk'[FileBlocks(ps)[y]][o] = <<n, k - 1, v>>
      BY <2>2, PieceWritten
    <3>2. FileBlocks(q)[y] = FileBlocks(ps)[y]
      <4>1. y \in 1..Cardinality(SetOfBlocks(ps))
        BY <2>2, PieceInside
      <4> QED BY <2>1, <4>1
    <3>3. Promise!Byte(n, k - 1, v) = <<n, k - 1, v>>
      BY DEF Promise!Byte
    <3> HIDE DEF y, o, pos, count, n, v
    <3> QED BY <2>2, <3>1, <3>2, <3>3 DEF y, o
  <2>3. CASE k \notin pos+1..pos+count
    <3>1. k \in 1..old
      <4> HIDE DEF pos, count, old, new
      <4> QED BY <1>1, <1>4, <2>3
    <3>2. /\ disk'[FileBlocks(ps)[y]][o] = disk[FileBlocks(ps)[y]][o]
          /\ y \in 1..Cardinality(SetOfBlocks(ps))
      BY <2>3, <3>1, PieceLeaves
    <3>3. Store[n][k] = disk[FileBlocks(ps)[y]][o]
      <4>1. Store[n] = Content(ps, old)
        BY <1>8
      <4> HIDE DEF n, old
      <4> QED BY <3>1, <4>1 DEF Content
    <3> HIDE DEF y, o, pos, count, n, v
    <3> QED BY <2>1, <2>3, <3>2, <3>3 DEF y, o
  <2> QED BY <2>2, <2>3
<1>11. Store'[n] = written
  <2>1. ContentAfter(q, new)
          = [k \in 1..new |-> disk'[FileBlocks(q)[(k - 1) \div BlockSize + 1]][(k - 1) % BlockSize]]
    BY DEF ContentAfter
  <2> HIDE DEF new, pos, count, n, v
  <2> QED BY <1>9, <1>10, <2>1
<1>12. \A m \in DOMAIN Store \ {n} : Store'[m] = Store[m]
  <2> TAKE m \in DOMAIN Store \ {n}
  <2>1. PICK x \in DOMAIN entry : entry[x].name = m
    BY <1>5
  <2>2. x # e
    BY <2>1
  <2> DEFINE rs == entry[x].portions
             z == entry[x].size
  <2>3. Store'[m] = ContentAfter(rs, z)
    <3>1. entry'[x] = entry[x] /\ LengthOf(x)' = entry[x].size
      BY <2>1, <2>2
    <3> QED BY <1>6, <2>1, <3>1
  <2>4. Store[m] = Content(rs, z)
    BY <1>3, <1>5, <2>1, <2>2
  <2>5. Tidy(rs) /\ z \in Nat /\ Cardinality(SetOfBlocks(rs)) = BlocksNeeded(z)
        /\ SetOfBlocks(rs) \cap SetOfBlocks(ps) = {}
    <3>1. z \in Nat
      BY <2>1, TablesParts, FileParts
    <3> QED BY <1>1, <1>2, <2>1, <2>2, <3>1 DEF Kept
  <2>6. \A b \in SetOfBlocks(rs) : disk'[b] = disk[b]
    <3>1. \A b \in BlockNumbers \ {call.at.block} : disk'[b] = disk[b]
      BY <1>2, PutPieceIs
    <3>2. SetOfBlocks(rs) \subseteq BlockNumbers
      <4> HIDE DEF rs
      <4> QED BY <2>5, TidyFinite
    <3> HIDE DEF rs
    <3> QED BY <1>2, <2>5, <3>1, <3>2
  <2>7. ContentAfter(rs, z) = Content(rs, z)
    <3>1. BlocksNeeded(z) \in Nat /\ BlocksNeeded(z) <= Cardinality(SetOfBlocks(rs))
      <4> HIDE DEF z, rs
      <4>1. BlocksNeeded(z) \in Nat
        BY <2>5, NeededMonotone
      <4> QED BY <2>5, <4>1
    <3> HIDE DEF z, rs
    <3> QED BY <2>5, <2>6, <3>1, ContentSame
  <2> QED BY <2>3, <2>4, <2>7
<1>13. Store' = [Store EXCEPT ![n] = written]
  <2> HIDE DEF written, n
  <2> QED BY <1>5, <1>6, <1>7, <1>11, <1>12
<1>14. HandlesOf[fd].name = n /\ HandlesOf[fd].pos = pos
  <2>1. PosOf(fd) = pos
    BY DEF PosOf
  <2> DEFINE H == [g \in DOMAIN fildes |-> [name |-> fildes[g].name, pos |-> PosOf(g)]]
  <2>2. HandlesOf = H
    BY <1>1, HandlesAre
  <2>3. H[fd].name = fildes[fd].name /\ H[fd].pos = PosOf(fd)
    BY <1>1
  <2> QED BY <1>1, <2>1, <2>2, <2>3
<1>15. Promise!MovesTo(fd, pos + count)
  BY <1>1, MovesOne
<1>16. DOMAIN Durable' = DOMAIN Durable
       /\ \A d \in DOMAIN Durable : Len(Durable'[d]) = Len(Durable[d])
  BY DurableSizes
<1>17. count \in 1..BlockSize
  <2> HIDE DEF count
  <2> QED BY <1>1, Sizes
<1>18. written = [k \in 1..(IF pos + count > Len(Store[n]) THEN pos + count ELSE Len(Store[n])) |->
                    IF k \in pos+1..pos+count THEN Promise!Byte(n, k - 1, v) ELSE Store[n][k]]
  <2>1. new = IF pos + count > Len(Store[n]) THEN pos + count ELSE Len(Store[n])
    BY <1>4, <1>8
  <2> HIDE DEF new, pos, count, n, v
  <2> QED BY <2>1
<1> DEFINE WrittenTo(m, x, c, w) ==
             /\ Promise!MovesTo(fd, x + c)
             /\ Store' = [Store EXCEPT ![m] =
                           [k \in 1..(IF x + c > Len(Store[m]) THEN x + c ELSE Len(Store[m])) |->
                              IF k \in x+1..x+c THEN Promise!Byte(m, k - 1, w) ELSE Store[m][k]]]
<1>19. WrittenTo(n, pos, count, v)
  <2> HIDE DEF written, pos, count, n, v
  <2> QED BY <1>13, <1>15, <1>18
<1>20. pos <= Len(Store[n])
  BY <1>4, <1>8
<1> DEFINE m == HandlesOf[fd].name
           x == HandlesOf[fd].pos
<1>21. x <= Len(Store[m]) /\ \E c \in 1..BlockSize, w \in Versions : WrittenTo(m, x, c, w)
  <2> HIDE DEF WrittenTo, pos, count, n, v, m, x
  <2>1. m = n /\ x = pos
    BY <1>14 DEF m, x
  <2> QED BY <1>1, <1>17, <1>19, <1>20, <2>1
<1> HIDE DEF written, pos, count, n, v
<1> QED BY <1>16, <1>21 DEF Promise!Write

\* A file that is given one more block keeps the blocks it had, in order.
LEMMA GrownKeeps ==
  ASSUME NEW ps, Tidy(ps), NEW q, q = Grown(ps), Tidy(q), CanGrow,
         dat \in [0..DataBlocks-1 -> {0, 1}]
  PROVE  \A x \in 1..Cardinality(SetOfBlocks(ps)) : FileBlocks(q)[x] = FileBlocks(ps)[x]
<1>1. ps \in Seq(Portion)
  BY DEF Tidy
<1>2. NewBlock(ps) \in Int
  BY <1>1, NewBlockType
<1>3. Begins(ps, q)
  BY <1>1, <1>2, GrownBegins
<1>4. \A x \in 1..Cardinality(SetOfBlocks(ps)) : FileBlocks(ps)[x] = FileBlocks(q)[x]
  BY <1>3, BeginsBlocks
<1> QED BY <1>4

\* What fs_write does first changes no file: the block it may allocate lies
\* behind the end of the file.
LEMMA KeepsStartWrite ==
  ASSUME TablesInv, BlocksInv, TablesInv', NEW fd \in DOMAIN fildes,
         NEW n \in Amounts \ {0}, NEW v \in Versions, StartWrite(fd, n, v)
  PROVE  UNCHANGED <<mounted, Store, HandlesOf, Durable>>
<1>0. PICK e : e = fildes[fd].entry
  OBVIOUS
<1> DEFINE seek == fildes[fd].seek
           size == entry[e].size
           old == entry[e].portions
           ps == IF size = 0 THEN <<>> ELSE old
           atEnd == size = 0 \/ (size = seek /\ seek % BlockSize = 0)
           at == Walk(entry'[e].portions, seek \div BlockSize)
           f == [entry[e] EXCEPT !.portions = Grown(ps)]
<1>1. /\ call' = [op |-> "write", fd |-> fd, left |-> n, seek |-> seek, version |-> v, at |-> at]
      /\ UNCHANGED <<mounted, fildes, saved, disk>> /\ mounted /\ call = Idle /\ seek <= size
      /\ \/ /\ atEnd /\ CanGrow
            /\ entry' = [entry EXCEPT ![e].portions = Grown(ps)]
            /\ dat' = Mark(NewBlock(ps))
         \/ ~atEnd /\ UNCHANGED <<entry, dat>>
  BY <1>0 DEF StartWrite, diskVars, Running
<1>2. e \in DOMAIN entry /\ entry[e] \in File /\ seek \in Nat /\ size \in Nat
  BY <1>0, TablesParts, FileParts
<1>3. ~Writing /\ call.op # "truncate"
  BY <1>1 DEF Writing, Idle
<1>4. /\ Kept(entry, dat)
      /\ \A x \in DOMAIN entry :
           Cardinality(SetOfBlocks(entry[x].portions)) = BlocksNeeded(entry[x].size)
  BY <1>1, <1>3, MemoryIdle
<1>5. Writing' /\ WriteSlot' = e /\ call'.fd = fd /\ call'.seek = seek
  <2> HIDE DEF at
  <2>1. call'.op = "write" /\ call'.fd = fd /\ call'.seek = seek
    BY <1>1
  <2> QED BY <1>0, <1>1, <2>1 DEF Writing, WriteSlot
<1>6. \A x : LengthOf(x) = entry[x].size
  BY <1>3, LengthIs DEF LengthView
<1>7. \A x : LengthOf(x)' = IF x = e THEN Max2(entry'[x].size, seek) ELSE entry'[x].size
  BY <1>5, LengthNext
<1>8. /\ DOMAIN entry' = DOMAIN entry
      /\ \A x \in DOMAIN entry \ {e} : entry'[x] = entry[x]
      /\ entry'[e].name = entry[e].name /\ entry'[e].size = size
      /\ ContentAfter(entry'[e].portions, size) = Content(old, size)
  <2>1. CASE ~atEnd
    <3>1. entry' = entry /\ disk' = disk
      BY <1>1, <2>1
    <3>2. \A qs, len : ContentAfter(qs, len) = Content(qs, len)
      BY <3>1 DEF ContentAfter, Content
    <3> QED BY <3>1, <3>2
  <2>2. CASE atEnd
    <3>1. CanGrow /\ entry' = [entry EXCEPT ![e].portions = Grown(ps)] /\ dat' = Mark(NewBlock(ps))
      BY <1>1, <2>2
    <3>2. f.portions = Grown(ps) /\ f.size = size /\ f.name = entry[e].name
      <4> DEFINE q == Grown(ps)
      <4> HIDE DEF q
      <4> QED BY <1>2 DEF q, File
    <3>3. /\ DOMAIN entry' = DOMAIN entry /\ entry'[e] = f
          /\ \A x \in DOMAIN entry \ {e} : entry'[x] = entry[x]
      <4>1. entry' = [entry EXCEPT ![e] = f]
        BY <3>1
      <4> HIDE DEF f
      <4> QED BY <1>2, <4>1
    <3>4. entry'[e].portions = Grown(ps) /\ entry'[e].size = size /\ entry'[e].name = entry[e].name
      BY <3>2, <3>3
    <3>5. ContentAfter(Grown(ps), size) = Content(old, size)
      <4>1. CASE size = 0
        BY <4>1, NoContent
      <4>2. CASE size # 0
        <5>1. ps = old
          BY <4>2
        <5>2. Tidy(ps) /\ Cardinality(SetOfBlocks(ps)) = BlocksNeeded(size)
              /\ SetOfBlocks(ps) \subseteq SetOfBlocks(entry[e].portions)
          BY <1>2, <1>4, <5>1 DEF Kept
        <5> HIDE DEF ps, size, old, f
        <5>3. Tidy(Grown(ps))
          BY <1>2, <1>4, <3>1, <3>3, <3>4, <5>2, FileGrows
        <5>4. \A x \in 1..Cardinality(SetOfBlocks(ps)) :
                FileBlocks(Grown(ps))[x] = FileBlocks(ps)[x]
          BY <3>1, <5>2, <5>3, GrownKeeps, TablesParts
        <5>5. \A x \in 1..BlocksNeeded(size) : FileBlocks(Grown(ps))[x] = FileBlocks(ps)[x]
          BY <5>2, <5>4
        <5>6. ContentAfter(Grown(ps), size) = Content(ps, size)
          BY <1>1, <1>2, <5>5, ContentBegins
        <5> QED BY <5>1, <5>6
      <4> QED BY <4>1, <4>2
    <3> QED BY <3>3, <3>4, <3>5
  <2> QED BY <2>1, <2>2
<1>9. Max2(size, seek) = size
  <2> HIDE DEF size, seek
  <2> QED BY <1>1, <1>2 DEF Max2
<1>10. \A x \in DOMAIN entry :
         /\ entry'[x].name = entry[x].name
         /\ ContentAfter(entry'[x].portions, LengthOf(x)') = Content(entry[x].portions, LengthOf(x))
  <2> TAKE x \in DOMAIN entry
  <2>1. CASE x = e
    <3>1. LengthOf(x) = size
      BY <1>6, <2>1
    <3>2. LengthOf(x)' = size
      BY <1>7, <1>8, <1>9, <2>1
    <3> QED BY <1>8, <2>1, <3>1, <3>2
  <2>2. CASE x # e
    <3>1. entry'[x] = entry[x]
      BY <1>8, <2>2
    <3>2. LengthOf(x) = entry[x].size /\ LengthOf(x)' = entry[x].size
      BY <1>6, <1>7, <2>2, <3>1
    <3>3. \A qs, len : ContentAfter(qs, len) = Content(qs, len)
      BY <1>1 DEF ContentAfter, Content
    <3> QED BY <3>1, <3>2, <3>3
  <2> QED BY <2>1, <2>2
<1>11. Store' = Store
  BY <1>1, <1>8, <1>10, StoreSame
<1>12. \A g \in DOMAIN fildes : PosOf(g)' = PosOf(g)
  <2> TAKE g \in DOMAIN fildes
  <2>1. PosOf(g) = fildes[g].seek
    BY <1>3 DEF PosOf
  <2>2. PosOf(g)' = IF g = fd THEN seek ELSE fildes[g].seek
    BY <1>1, <1>5 DEF PosOf
  <2> QED BY <2>1, <2>2
<1>13. HandlesOf' = HandlesOf
  BY <1>1, <1>12, HandlesSame
<1> QED BY <1>1, <1>11, <1>13, DurableSame

\* A turn of fs_write that goes on: the position lies behind the piece, and
\* the file reaches at least to there.
LEMMA GoesOnAt ==
  ASSUME TablesInv, Writing, Piece < call.left, NEW at, Advance(at),
         mounted' = mounted, fildes' = fildes, NEW e, e = WriteSlot,
         NEW fd, fd = call.fd
  PROVE  /\ PosOf(fd)' = call.seek + Piece
         /\ \A g \in DOMAIN fildes \ {fd} : PosOf(g)' = PosOf(g)
         /\ \A x : LengthOf(x)' = IF x = e THEN Max2(entry'[x].size, call.seek + Piece)
                                           ELSE entry'[x].size
<1>1. call'.op = "write" /\ call'.fd = fd /\ call'.seek = call.seek + Piece
  BY AdvanceCall
<1>2. Writing' /\ WriteSlot' = e
  BY <1>1 DEF Writing, WriteSlot
<1>3. PosOf(fd)' = call.seek + Piece
  BY <1>1, <1>2 DEF PosOf
<1>4. \A g \in DOMAIN fildes \ {fd} : PosOf(g)' = PosOf(g)
  BY <1>1, <1>2 DEF PosOf
<1>5. \A x : LengthOf(x)' = IF x = e THEN Max2(entry'[x].size, call'.seek) ELSE entry'[x].size
  BY <1>2, LengthNext
<1> QED BY <1>1, <1>3, <1>4, <1>5

\* A turn within the blocks of the file.
LEMMA KeepsWriteOn ==
  ASSUME TablesInv, BlocksInv, LoadsWhatWasSaved, TablesInv', WriteOn
  PROVE  \E fd \in DOMAIN fildes : Promise!Write(fd)
<1>0. PICK e, fd, at : e = WriteSlot /\ fd = call.fd /\ at = After(entry[WriteSlot].portions, call.at)
  OBVIOUS
<1>1. /\ Writing /\ Piece < call.left /\ PutPiece /\ Advance(at)
      /\ UNCHANGED <<mounted, entry, fildes, saved>>
  BY <1>0 DEF WriteOn
<1>2. /\ PosOf(fd)' = call.seek + Piece
      /\ \A g \in DOMAIN fildes \ {fd} : PosOf(g)' = PosOf(g)
      /\ \A x : LengthOf(x)' = IF x = e THEN Max2(entry[x].size, call.seek + Piece)
                                        ELSE entry[x].size
  BY <1>0, <1>1, GoesOnAt
<1>3. PICK ps : ps = entry[e].portions
  OBVIOUS
<1>4. fd \in DOMAIN fildes
  BY <1>0, <1>1, WriteParts
<1>5. /\ ps = entry'[e].portions /\ entry'[e].name = entry[e].name
      /\ DOMAIN entry' = DOMAIN entry /\ DOMAIN fildes' = DOMAIN fildes
      /\ \A x \in DOMAIN entry \ {e} : entry'[x] = entry[x] /\ LengthOf(x)' = entry[x].size
      /\ \A g \in DOMAIN fildes : fildes'[g].name = fildes[g].name
      /\ LengthOf(e)' = Max2(entry[e].size, call.seek + Piece)
  BY <1>1, <1>2, <1>3
<1>6. Promise!Write(fd)
  BY <1>0, <1>1, <1>2, <1>3, <1>5, KeepsPiece
<1> QED BY <1>4, <1>6

\* A turn that allocates the next block.
LEMMA KeepsWriteGrowing ==
  ASSUME TablesInv, BlocksInv, LoadsWhatWasSaved, TablesInv', WriteGrowing
  PROVE  \E fd \in DOMAIN fildes : Promise!Write(fd)
<1>0. PICK e, fd : e = WriteSlot /\ fd = call.fd
  OBVIOUS
<1>1. PICK ps : ps = entry[e].portions
  OBVIOUS
<1>2. PICK q : q = Grown(ps)
  OBVIOUS
<1> DEFINE f == [entry[e] EXCEPT !.portions = q]
           next == [portion |-> Len(q), block |-> NewBlock(ps)]
<1>3. /\ Writing /\ Piece < call.left /\ CanGrow /\ PutPiece /\ Advance(next)
      /\ UNCHANGED <<mounted, fildes, saved>> /\ dat' = Mark(NewBlock(ps))
      /\ entry' = [entry EXCEPT ![e] = f]
  BY <1>0, <1>1, <1>2 DEF WriteGrowing
<1>4. /\ e \in DOMAIN entry /\ entry[e] \in File /\ fd \in DOMAIN fildes
      /\ Kept(entry, dat) /\ Tidy(ps)
  BY <1>0, <1>1, <1>3, WriteParts, WriteHolds
<1>5. f.portions = q /\ f.size = entry[e].size /\ f.name = entry[e].name
  BY <1>4 DEF File
<1>6. /\ DOMAIN entry' = DOMAIN entry /\ entry'[e] = f
      /\ \A x \in DOMAIN entry \ {e} : entry'[x] = entry[x]
  <2> HIDE DEF f
  <2> QED BY <1>3, <1>4
<1>7. entry'[e].portions = q /\ entry'[e].size = entry[e].size /\ entry'[e].name = entry[e].name
  BY <1>5, <1>6
<1>8. /\ PosOf(fd)' = call.seek + Piece
      /\ \A g \in DOMAIN fildes \ {fd} : PosOf(g)' = PosOf(g)
      /\ \A x : LengthOf(x)' = IF x = e THEN Max2(entry'[x].size, call.seek + Piece)
                                        ELSE entry'[x].size
  <2> HIDE DEF next, f
  <2> QED BY <1>0, <1>3, GoesOnAt
<1> HIDE DEF f
<1>9. Tidy(q)
  <2>1. SetOfBlocks(ps) \subseteq SetOfBlocks(entry[e].portions) /\ entry'[e].portions = Grown(ps)
    BY <1>1, <1>2, <1>7
  <2>2. Tidy(Grown(ps))
    BY <1>3, <1>4, <1>6, <2>1, FileGrows
  <2> QED BY <1>2, <2>2
<1>10. \A i \in 1..Cardinality(SetOfBlocks(ps)) : FileBlocks(q)[i] = FileBlocks(ps)[i]
  BY <1>2, <1>3, <1>4, <1>9, GrownKeeps, TablesParts
<1>11. /\ \A x \in DOMAIN entry \ {e} : entry'[x] = entry[x] /\ LengthOf(x)' = entry[x].size
       /\ LengthOf(e)' = Max2(entry[e].size, call.seek + Piece)
  <2>1. \A x \in DOMAIN entry \ {e} : LengthOf(x)' = entry[x].size
    BY <1>6, <1>8
  <2>2. LengthOf(e)' = Max2(entry[e].size, call.seek + Piece)
    BY <1>7, <1>8
  <2> QED BY <1>6, <2>1, <2>2
<1>12. DOMAIN fildes' = DOMAIN fildes /\ \A g \in DOMAIN fildes : fildes'[g].name = fildes[g].name
  BY <1>3
<1>13. Promise!Write(fd)
  BY <1>0, <1>1, <1>3, <1>6, <1>7, <1>8, <1>10, <1>11, <1>12, KeepsPiece
<1> QED BY <1>4, <1>13

\* The last turn.
LEMMA KeepsEndWrite ==
  ASSUME TablesInv, BlocksInv, LoadsWhatWasSaved, TablesInv', EndWrite
  PROVE  \E fd \in DOMAIN fildes : Promise!Write(fd)
<1>0. PICK e, fd : e = WriteSlot /\ fd = call.fd
  OBVIOUS
<1>1. PICK ps : ps = entry[e].portions
  OBVIOUS
<1>2. PICK size : size = SizeAfter(entry[e].size)
  OBVIOUS
<1>3. PICK pos : pos = call.seek + Piece
  OBVIOUS
<1> DEFINE f == [entry[e] EXCEPT !.size = size]
           h == [fildes[fd] EXCEPT !.seek = pos]
<1>4. /\ Writing /\ PutPiece /\ call' = Idle /\ UNCHANGED <<mounted, saved>>
      /\ entry' = [entry EXCEPT ![e] = f] /\ fildes' = [fildes EXCEPT ![fd] = h]
  BY <1>0, <1>2, <1>3 DEF EndWrite
<1>5. e \in DOMAIN entry /\ entry[e] \in File /\ fd \in DOMAIN fildes /\ fildes[fd] \in Handle
  BY <1>0, <1>4, WriteParts, TablesParts
<1>6. /\ f.portions = ps /\ f.size = size /\ f.name = entry[e].name
      /\ h.seek = pos /\ h.name = fildes[fd].name
  BY <1>1, <1>5 DEF File, Handle
<1> HIDE DEF f, h
<1>7. /\ DOMAIN entry' = DOMAIN entry /\ entry'[e] = f
      /\ \A x \in DOMAIN entry \ {e} : entry'[x] = entry[x]
      /\ DOMAIN fildes' = DOMAIN fildes /\ fildes'[fd] = h
      /\ \A g \in DOMAIN fildes \ {fd} : fildes'[g] = fildes[g]
  BY <1>4, <1>5
<1>8. ~Writing' /\ call'.op # "truncate"
  BY <1>4 DEF Writing, Idle
<1>9. \A x : LengthOf(x)' = entry'[x].size
  BY <1>8, LengthNext
<1>10. PosOf(fd)' = pos /\ \A g \in DOMAIN fildes \ {fd} : PosOf(g)' = PosOf(g)
  <2>1. PosOf(fd)' = fildes'[fd].seek
    BY <1>8 DEF PosOf
  <2>2. ASSUME NEW g \in DOMAIN fildes \ {fd} PROVE PosOf(g)' = PosOf(g)
    <3>1. PosOf(g)' = fildes'[g].seek
      BY <1>8 DEF PosOf
    <3>2. PosOf(g) = fildes[g].seek
      BY <1>0, <2>2 DEF PosOf
    <3> QED BY <1>7, <3>1, <3>2
  <2> QED BY <1>6, <1>7, <2>1, <2>2
<1>11. /\ \A x \in DOMAIN entry \ {e} : entry'[x] = entry[x] /\ LengthOf(x)' = entry[x].size
       /\ LengthOf(e)' = size /\ entry'[e].portions = ps /\ entry'[e].name = entry[e].name
  <2>1. LengthOf(e)' = entry'[e].size
    BY <1>9
  <2> QED BY <1>6, <1>7, <1>9, <2>1
<1>12. size = Max2(entry[e].size, call.seek + Piece)
  BY <1>2 DEF SizeAfter
<1>13. \A g \in DOMAIN fildes : fildes'[g].name = fildes[g].name
  BY <1>6, <1>7
<1>14. Promise!Write(fd)
  BY <1>0, <1>1, <1>3, <1>4, <1>7, <1>10, <1>11, <1>12, <1>13, KeepsPiece
<1> QED BY <1>5, <1>14

-----------------------------------------------------------------------------
(* The theorem.                                                            *)

\* Every step of the library is a step of the store, or none.
LEMMA KeepsStep ==
  ASSUME TablesInv, BlocksInv, LoadsWhatWasSaved, TablesInv', BlocksInv', LoadsWhatWasSaved',
         [Next]_vars
  PROVE  [Promise!Next]_(Promise!vars)
<1> USE DEF Promise!Next
<1>1. CASE MakeFs
  <2>1. Promise!MakeFs
    BY <1>1, KeepsMakeFs
  <2> QED BY <2>1
<1>2. CASE Mount
  <2>1. Promise!Mount
    BY <1>2, KeepsMount
  <2> QED BY <2>1
<1>3. CASE Umount
  <2>1. Promise!Umount
    BY <1>3, KeepsUmount
  <2> QED BY <2>1
<1>4. CASE Exit
  <2>1. Promise!Crash
    BY <1>4, KeepsExit
  <2> QED BY <2>1
<1>5. ASSUME NEW n \in Names, Create(n) PROVE Promise!Next
  <2>1. Promise!Create(n)
    BY <1>5, KeepsCreate
  <2> QED BY <2>1
<1>6. ASSUME NEW n \in Names, Delete(n) PROVE Promise!Next
  <2>1. Promise!Delete(n)
    BY <1>6, KeepsDelete
  <2> QED BY <2>1
<1>7. ASSUME NEW n \in Names, Open(n) PROVE Promise!Next
  <2>1. \E h \in 0..MaxOpen-1 : Promise!Open(h, n)
    BY <1>7, KeepsOpen
  <2> QED BY <2>1
<1>8. mounted => DOMAIN HandlesOf = DOMAIN fildes
  <2> SUFFICES ASSUME mounted PROVE DOMAIN HandlesOf = DOMAIN fildes
    OBVIOUS
  <2> QED BY HandlesAre
<1>9. ASSUME NEW fd \in DOMAIN fildes, Close(fd) PROVE Promise!Next
  <2>1. fd \in DOMAIN HandlesOf
    BY <1>8, <1>9 DEF Close, Running
  <2>2. Promise!Close(fd)
    BY <1>9, KeepsClose
  <2> QED BY <2>1, <2>2
<1>10. ASSUME NEW fd \in DOMAIN fildes, NEW n \in Amounts \ {0}, Read(fd, n)
       PROVE  [Promise!Next]_(Promise!vars)
  <2>1. fd \in DOMAIN HandlesOf
    BY <1>8, <1>10 DEF Read, Running
  <2>2. Promise!Move(fd) \/ UNCHANGED <<mounted, Store, HandlesOf, Durable>>
    BY <1>10, KeepsRead
  <2> QED BY <2>1, <2>2 DEF Promise!vars
<1>11. ASSUME NEW fd \in DOMAIN fildes, NEW n \in Amounts \ {0}, NEW v \in Versions,
              StartWrite(fd, n, v)
       PROVE  UNCHANGED Promise!vars
  BY <1>11, KeepsStartWrite DEF Promise!vars
<1>12. ASSUME NEW fd \in DOMAIN fildes, NEW n \in Amounts, Lseek(fd, n) PROVE Promise!Next
  <2>1. fd \in DOMAIN HandlesOf
    BY <1>8, <1>12 DEF Lseek, Running
  <2>2. Promise!Move(fd)
    BY <1>12, KeepsLseek
  <2> QED BY <2>1, <2>2
<1>13. ASSUME NEW fd \in DOMAIN fildes, NEW n \in Amounts, StartTruncate(fd, n)
       PROVE  Promise!Next
  <2>1. fd \in DOMAIN HandlesOf
    BY <1>8, <1>13 DEF StartTruncate, Running
  <2>2. Promise!Truncate(fd)
    BY <1>13, KeepsStartTruncate
  <2> QED BY <2>1, <2>2
<1>14. Writing => DOMAIN HandlesOf = DOMAIN fildes
  BY <1>8, WriteParts
<1>15. CASE WriteOn
  <2>1. Writing /\ \E fd \in DOMAIN fildes : Promise!Write(fd)
    BY <1>15, KeepsWriteOn DEF WriteOn
  <2> QED BY <1>14, <2>1
<1>16. CASE WriteGrowing
  <2>1. Writing /\ \E fd \in DOMAIN fildes : Promise!Write(fd)
    BY <1>16, KeepsWriteGrowing DEF WriteGrowing
  <2> QED BY <1>14, <2>1
<1>17. CASE EndWrite
  <2>1. Writing /\ \E fd \in DOMAIN fildes : Promise!Write(fd)
    BY <1>17, KeepsEndWrite DEF EndWrite
  <2> QED BY <1>14, <2>1
<1>18. CASE TruncateOn
  BY <1>18, KeepsTruncateOn DEF Promise!vars
<1>19. CASE UNCHANGED vars
  BY <1>19 DEF vars, memoryVars, diskVars, Promise!vars, Store, HandlesOf, Durable, Content,
               LengthOf, Writing, WriteSlot, SlotsOf, SavedFile
<1> QED BY <1>1, <1>2, <1>3, <1>4, <1>5, <1>6, <1>7, <1>9, <1>10, <1>11, <1>12, <1>13, <1>15,
           <1>16, <1>17, <1>18, <1>19 DEF Next

\* The blocks, portions and tables together keep files: every call of the
\* library is a step of FileStore, or none, as long as the metadata is loaded
\* as it was saved.
THEOREM StoreKeepsFiles == Spec /\ []LoadsWhatWasSaved => KeepsFiles
<1>1. TablesInv /\ BlocksInv /\ LoadsWhatWasSaved
      /\ TablesInv' /\ BlocksInv' /\ LoadsWhatWasSaved' /\ [Next]_vars
        => [Promise!Next]_(Promise!vars)
  BY KeepsStep
<1> QED BY <1>1, KeepsInit, BlocksAlways, PTL DEF Spec, KeepsFiles, Promise!Spec

\* So it is, with restarts and crashes, as long as no umount_fs finds a block
\* in use beyond the first ones: 127 on the disk of disk.h (ShippedSizes).
THEOREM FewBlocksKeepFiles == Spec /\ []FewBlocksSaved => KeepsFiles
  BY StoreKeepsFiles, FewBlocksLoad, PTL

=============================================================================
