-------------------------- MODULE FileSystemProofs --------------------------
(***************************************************************************)
(* Theorems about FileSystem for any number of files, descriptors and      *)
(* blocks, and blocks of any size.                                         *)
(***************************************************************************)
EXTENDS FileSystem, WellFoundedInduction, FiniteSetTheorems, SequenceTheorems, TLAPS

-----------------------------------------------------------------------------
(* Least elements, and induction from them.                                *)

\* The sizes are numbers.
LEMMA Sizes ==
  /\ BlockSize \in Nat \ {0} /\ DataBlocks \in Nat \ {0}
  /\ MaxFiles \in Nat \ {0} /\ MaxOpen \in Nat \ {0}
  /\ Radix \in Nat \ {0, 1} /\ MaxSize \in Nat
  BY SizesAssumption

\* A set of numbers that is not empty has a least element.
LEMMA LeastExists ==
  ASSUME NEW S \in SUBSET Nat, S # {}
  PROVE  \E m \in S : \A k \in S : m <= k
<1> DEFINE R == OpToRel(<, Nat)
<1>1. IsWellFoundedOn(R, Nat)
  BY NatLessThanWellFounded
<1>2. PICK x \in S : \A y \in S : ~(<<y, x>> \in R)
  <2> HIDE DEF R
  <2> QED BY <1>1, WFMin
<1>3. \A y \in S : ~(y < x)
  BY <1>2 DEF OpToRel
<1> QED BY <1>3

\* Least is that element.
LEMMA LeastIs ==
  ASSUME NEW S \in SUBSET Nat, S # {}
  PROVE  Least(S) \in S /\ \A k \in S : Least(S) <= k
  BY LeastExists DEF Least

\* A set of numbers that has 0 and, with a number below n, the next one, has
\* all numbers up to n.
LEMMA UpToInduction ==
  ASSUME NEW n \in Nat, NEW S, 0 \in S,
         \A m \in 0..n-1 : m \in S => m + 1 \in S
  PROVE  0..n \subseteq S
<1> SUFFICES ASSUME (0..n) \ S # {} PROVE FALSE
  OBVIOUS
<1> DEFINE T == (0..n) \ S
<1>1. PICK m \in T : \A k \in T : m <= k
  <2>1. T \in SUBSET Nat /\ T # {}
    OBVIOUS
  <2> HIDE DEF T
  <2> QED BY <2>1, LeastExists
<1>2. m - 1 \in 0..n-1 /\ m - 1 \in S /\ (m - 1) + 1 = m
  BY <1>1
<1> QED BY <1>1, <1>2

\* f starts with first and goes on as next says.
Stepwise(f, n, first, next) ==
  f[0] = first /\ \A t \in 1..n : f[t] = next[t][f[t - 1]]

\* A recursive function on 0..n exists: next gives its value at t from the
\* one at t - 1.
LEMMA RecursionExists ==
  ASSUME NEW n \in Nat, NEW S, NEW first \in S, NEW next \in [1..n -> [S -> S]]
  PROVE  \E f \in [0..n -> S] : Stepwise(f, n, first, next)
<1> DEFINE Good(m) == \E f \in [0..m -> S] :
                        /\ f[0] = first
                        /\ \A t \in 1..m : f[t] = next[t][f[t - 1]]
           G == {m \in 0..n : Good(m)}
<1>1. Good(0)
  <2> DEFINE g == [t \in 0..0 |-> first]
  <2>1. g \in [0..0 -> S] /\ g[0] = first /\ 1..0 = {}
    OBVIOUS
  <2> HIDE DEF g
  <2> QED BY <2>1
<1>2. ASSUME NEW m \in 0..n-1, Good(m) PROVE Good(m + 1)
  <2>1. PICK f \in [0..m -> S] : /\ f[0] = first
                                 /\ \A t \in 1..m : f[t] = next[t][f[t - 1]]
    BY <1>2
  <2> DEFINE last == next[m + 1][f[m]]
             g    == [t \in 0..m+1 |-> IF t = m + 1 THEN last ELSE f[t]]
  <2>2. last \in S
    <3>1. m + 1 \in 1..n /\ f[m] \in S
      BY <1>2, <2>1
    <3> QED BY <3>1
  <2>3. g \in [0..m+1 -> S]
    <3> HIDE DEF last
    <3> QED BY <1>2, <2>1, <2>2
  <2>4. g[0] = first
    BY <1>2, <2>1
  <2>5. ASSUME NEW t \in 1..m+1 PROVE g[t] = next[t][g[t - 1]]
    <3>1. CASE t = m + 1
      <4>1. t - 1 = m /\ m \in 0..m+1 /\ m # m + 1 /\ m + 1 \in 0..m+1
        BY <1>2, <3>1
      <4>2. g[t] = last /\ g[t - 1] = f[m]
        <5> HIDE DEF last
        <5> QED BY <3>1, <4>1
      <4> QED BY <3>1, <4>2
    <3>2. CASE t # m + 1
      <4>1. t \in 1..m /\ t - 1 \in 0..m
        BY <1>2, <3>2
      <4>2. g[t] = f[t] /\ g[t - 1] = f[t - 1]
        <5> HIDE DEF last
        <5> QED BY <1>2, <4>1
      <4> QED BY <2>1, <4>1, <4>2
    <3> QED BY <3>1, <3>2
  <2> HIDE DEF g
  <2> QED BY <2>3, <2>4, <2>5
<1>3. 0..n \subseteq G
  <2>1. 0 \in G /\ \A m \in 0..n-1 : m \in G => m + 1 \in G
    <3> HIDE DEF Good
    <3> QED BY <1>1, <1>2
  <2> HIDE DEF G
  <2> QED BY <2>1, UpToInduction
<1>4. Good(n)
  <2> HIDE DEF Good
  <2> QED BY <1>3
<1> QED BY <1>4 DEF Stepwise

-----------------------------------------------------------------------------
(* Portions.                                                               *)

\* Portions that have no block in common, all on the disk.
Tidy(ps) ==
  /\ ps \in Seq(Portion)
  /\ \A k \in 1..Len(ps) :
       /\ ps[k].length > 0
       /\ BlocksOf(ps[k]) \subseteq BlockNumbers
       /\ \A l \in 1..Len(ps) : l # k => BlocksOf(ps[k]) \cap BlocksOf(ps[l]) = {}

\* The blocks of the portions before number k, and up to a position.
Before(ps, k) == UNION {BlocksOf(ps[l]) : l \in 1..k-1}
UpTo(ps, at)  == Before(ps, at.portion) \cup (ps[at.portion].start..at.block)

\* A position is in its portion.
At(ps, at) == at.portion \in 1..Len(ps) /\ at.block \in BlocksOf(ps[at.portion])

\* The last block, and whether a position has another one after it.
IsLast(ps, at) == at.portion = Len(ps) /\ at.block = LastBlock(ps[at.portion])

\* Block numbers are numbers, and there are finitely many.
LEMMA BlockNumbersType ==
  /\ BlockNumbers \subseteq Nat /\ IsFiniteSet(BlockNumbers)
  /\ FirstBlock \in Nat
  /\ \A b : b \in BlockNumbers <=>
       b \in Int /\ FirstBlock <= b /\ b - FirstBlock \in 0..DataBlocks-1
<1>1. FirstBlock \in Nat /\ FirstBlock+DataBlocks-1 \in Int
  BY Sizes DEF FirstBlock
<1>2. IsFiniteSet(BlockNumbers)
  BY <1>1, FS_Interval DEF BlockNumbers
<1>3. \A b : b \in BlockNumbers <=> b \in Int /\ FirstBlock <= b /\ b - FirstBlock \in 0..DataBlocks-1
  BY <1>1, Sizes DEF BlockNumbers
<1>4. BlockNumbers \subseteq Nat
  BY <1>1, <1>3
<1> QED BY <1>1, <1>2, <1>3, <1>4

\* What a tidy list of portions consists of.
LEMMA TidyParts ==
  ASSUME NEW ps, Tidy(ps)
  PROVE  /\ Len(ps) \in Nat /\ DOMAIN ps = 1..Len(ps)
         /\ \A k \in 1..Len(ps) :
              /\ ps[k] \in Portion
              /\ ps[k].start \in Int /\ ps[k].length \in Int
              /\ LastBlock(ps[k]) \in BlocksOf(ps[k])
              /\ ps[k].start \in BlocksOf(ps[k])
              /\ \A b : b \in BlocksOf(ps[k]) <=>
                          b \in Int /\ ps[k].start <= b /\ b <= LastBlock(ps[k])
         /\ \A b : b \in SetOfBlocks(ps) <=> \E k \in 1..Len(ps) : b \in BlocksOf(ps[k])
<1>1. Len(ps) \in Nat /\ DOMAIN ps = 1..Len(ps)
      /\ \A k \in 1..Len(ps) : ps[k] \in Portion
  BY DEF Tidy
<1>2. \A k \in 1..Len(ps) :
              /\ ps[k].start \in Int /\ ps[k].length \in Int
              /\ LastBlock(ps[k]) \in BlocksOf(ps[k])
              /\ ps[k].start \in BlocksOf(ps[k])
              /\ \A b : b \in BlocksOf(ps[k]) <=>
                          b \in Int /\ ps[k].start <= b /\ b <= LastBlock(ps[k])
  BY <1>1 DEF Tidy, Portion, BlocksOf, LastBlock
<1> QED BY <1>1, <1>2 DEF SetOfBlocks

\* The blocks of a file are finitely many blocks of the disk, and so are the
\* ones up to a position.
LEMMA TidyFinite ==
  ASSUME NEW ps, Tidy(ps)
  PROVE  /\ SetOfBlocks(ps) \subseteq BlockNumbers
         /\ IsFiniteSet(SetOfBlocks(ps)) /\ Cardinality(SetOfBlocks(ps)) \in Nat
         /\ \A k \in 1..Len(ps)+1 : Before(ps, k) \subseteq SetOfBlocks(ps)
         /\ \A at : At(ps, at) => UpTo(ps, at) \subseteq SetOfBlocks(ps)
<1>1. SetOfBlocks(ps) \subseteq BlockNumbers
  BY TidyParts DEF Tidy
<1>2. IsFiniteSet(SetOfBlocks(ps)) /\ Cardinality(SetOfBlocks(ps)) \in Nat
  BY <1>1, BlockNumbersType, FS_Subset, FS_CardinalityType
<1>3. \A k \in 1..Len(ps)+1 : Before(ps, k) \subseteq SetOfBlocks(ps)
  <2>1. \A k \in 1..Len(ps)+1 : \A l \in 1..k-1 : l \in 1..Len(ps)
    BY TidyParts
  <2> QED BY <2>1, TidyParts DEF Before
<1>4. ASSUME NEW at, At(ps, at) PROVE UpTo(ps, at) \subseteq SetOfBlocks(ps)
  <2>1. at.portion \in 1..Len(ps)+1
    BY <1>4, TidyParts DEF At
  <2>2. ps[at.portion].start..at.block \subseteq BlocksOf(ps[at.portion])
    <3> DEFINE p == ps[at.portion]
    <3>1. /\ at.block \in Int /\ at.block <= LastBlock(p)
          /\ p.start \in Int /\ LastBlock(p) \in Int
          /\ \A b : b \in BlocksOf(p) <=> b \in Int /\ p.start <= b /\ b <= LastBlock(p)
      BY <1>4, TidyParts DEF At, LastBlock
    <3> DEFINE s == p.start
               x == LastBlock(p)
               B == BlocksOf(p)
    <3> SUFFICES s..at.block \subseteq B
      OBVIOUS
    <3> HIDE DEF p, s, x, B
    <3> QED BY <3>1 DEF s, x, B
  <2> QED BY <1>3, <1>4, <2>1, <2>2, TidyParts DEF UpTo, At
<1> QED BY <1>1, <1>2, <1>3, <1>4

\* From a position that is not the last, After goes to the one new block.
LEMMA AfterNext ==
  ASSUME NEW ps, Tidy(ps), NEW at \in [portion : Int, block : Int], At(ps, at),
         ~IsLast(ps, at), NEW next, next = After(ps, at)
  PROVE  /\ next \in [portion : Int, block : Int] /\ At(ps, next)
         /\ next.block \notin UpTo(ps, at)
         /\ UpTo(ps, next) = UpTo(ps, at) \cup {next.block}
<1> DEFINE k == at.portion
           b == at.block
<1>1. /\ k \in 1..Len(ps) /\ b \in Int /\ ps[k].start <= b /\ b <= LastBlock(ps[k])
      /\ ps[k].start \in Int /\ LastBlock(ps[k]) \in Int
  BY TidyParts DEF At, LastBlock
<1>2. CASE b + 1 > LastBlock(ps[k])
  <2>1. b = LastBlock(ps[k]) /\ k # Len(ps)
    BY <1>1, <1>2 DEF IsLast
  <2>2. k + 1 \in 1..Len(ps)
    BY <1>1, <2>1, TidyParts
  <2>3. next = [portion |-> k + 1, block |-> ps[k + 1].start]
    BY <1>2 DEF After
  <2>4. next.portion = k + 1 /\ next.block = ps[k + 1].start
    BY <2>3
  <2>5. next \in [portion : Int, block : Int] /\ At(ps, next)
    BY <1>1, <2>2, <2>3, <2>4, TidyParts DEF At
  <2>6. ps[k].start..b = BlocksOf(ps[k])
    BY <2>1 DEF BlocksOf, LastBlock
  <2>7. ps[k + 1].start..next.block = {next.block}
    BY <2>2, <2>4, TidyParts
  <2>8. Before(ps, k + 1) = Before(ps, k) \cup BlocksOf(ps[k])
    <3>1. \A l : l \in 1..(k+1)-1 <=> l \in 1..k-1 \/ l = k
      BY <1>1
    <3> QED BY <3>1 DEF Before
  <2>9. next.block \notin UpTo(ps, at)
    <3>1. next.block \in BlocksOf(ps[k + 1])
      BY <2>2, <2>4, TidyParts
    <3>2. \A l \in 1..k : l \in 1..Len(ps) /\ l # k + 1
      BY <1>1, TidyParts
    <3>3. next.block \notin BlocksOf(ps[k])
      <4>1. k \in 1..Len(ps) /\ k + 1 # k
        BY <1>1
      <4>2. BlocksOf(ps[k]) \cap BlocksOf(ps[k + 1]) = {}
        BY <2>2, <4>1 DEF Tidy
      <4> QED BY <3>1, <4>2
    <3>4. next.block \notin Before(ps, k)
      <4>1. \A l \in 1..k-1 : l \in 1..k
        BY <1>1
      <4> QED BY <2>2, <3>1, <3>2, <4>1 DEF Before, Tidy
    <3> QED BY <2>6, <3>3, <3>4 DEF UpTo
  <2>10. UpTo(ps, next) = UpTo(ps, at) \cup {next.block}
    BY <2>4, <2>6, <2>7, <2>8 DEF UpTo
  <2> QED BY <2>5, <2>9, <2>10
<1>3. CASE ~(b + 1 > LastBlock(ps[k]))
  <2>1. next = [at EXCEPT !.block = b + 1]
    BY <1>3 DEF After
  <2>2. /\ next \in [portion : Int, block : Int]
        /\ next.portion = k /\ next.block = b + 1
    BY <1>1, <2>1
  <2>3. At(ps, next)
    BY <1>1, <1>3, <2>2, TidyParts DEF At
  <2>4. next.block \notin UpTo(ps, at)
    <3>1. next.block \in BlocksOf(ps[k])
      BY <2>2, <2>3 DEF At
    <3>2. next.block \notin Before(ps, k)
      <4>1. \A l \in 1..k-1 : l \in 1..Len(ps) /\ l # k
        BY <1>1, TidyParts
      <4> QED BY <1>1, <3>1, <4>1 DEF Before, Tidy
    <3>3. next.block \notin ps[k].start..b
      BY <1>1, <2>2
    <3> QED BY <3>2, <3>3 DEF UpTo
  <2>5. ps[k].start..(b + 1) = (ps[k].start..b) \cup {b + 1}
    BY <1>1
  <2>6. UpTo(ps, next) = UpTo(ps, at) \cup {next.block}
    BY <2>2, <2>5 DEF UpTo
  <2> QED BY <2>2, <2>3, <2>4, <2>6
<1> QED BY <1>2, <1>3

\* The blocks up to the last position are all.
LEMMA LastAll ==
  ASSUME NEW ps, Tidy(ps), NEW at, At(ps, at), IsLast(ps, at)
  PROVE  UpTo(ps, at) = SetOfBlocks(ps)
<1>1. at.portion = Len(ps) /\ Len(ps) \in 1..Len(ps)
  BY DEF At, IsLast
<1>2. ps[Len(ps)].start..at.block = BlocksOf(ps[Len(ps)])
  BY <1>1 DEF IsLast, BlocksOf, LastBlock
<1>3. \A l : l \in 1..Len(ps) <=> l \in 1..Len(ps)-1 \/ l = Len(ps)
  BY <1>1, TidyParts
<1> QED BY <1>1, <1>2, <1>3, TidyParts DEF UpTo, Before

-----------------------------------------------------------------------------
(* The tables: their types, the names in them, and the call in progress.   *)

\* A call in progress has a mounted disk and a descriptor or a file of the
\* table, and stays within the bounds.
CallInv ==
  \/ call = Idle
  \/ /\ mounted /\ Writing
     /\ call = [op |-> "write", fd |-> call.fd, left |-> call.left, seek |-> call.seek,
                version |-> call.version, at |-> call.at]
     /\ call.fd \in DOMAIN fildes /\ call.version \in Versions
     /\ call.left \in Nat \ {0} /\ call.seek \in Nat /\ call.seek + call.left <= MaxSize
  \/ /\ mounted
     /\ call = [op |-> "truncate", entry |-> call.entry, length |-> call.length]
     /\ call.entry \in DOMAIN entry /\ call.length \in Nat /\ call.length <= MaxSize

\* The metadata on the disk.
SavedInv ==
  /\ saved \in [dat : [0..DataBlocks-1 -> {0, 1}], count : 0..MaxFiles, rows : Seq(File)]
  /\ saved.count = Len(saved.rows)

\* Files have names of their own, in memory and on the disk, and a descriptor
\* refers to the file of its name.
NamesInv ==
  /\ \A e, f \in DOMAIN entry : entry[e].name = entry[f].name => e = f
  /\ \A j, k \in DOMAIN saved.rows : saved.rows[j].name = saved.rows[k].name => j = k
  /\ \A fd \in DOMAIN fildes :
       /\ fildes[fd].entry \in DOMAIN entry
       /\ entry[fildes[fd].entry].name = fildes[fd].name

\* The number of files is the number of rows that are taken.
CountInv == file_count = Cardinality(DOMAIN entry)

\* What holds of the tables, whatever the blocks are.
TablesInv == TypeOK /\ CallInv /\ SavedInv /\ NamesInv /\ CountInv

\* The parts of a file are those of its record, and a list of portions is a
\* function of its places.
LEMMA FileParts ==
  ASSUME NEW f \in File
  PROVE  /\ f.name \in Names /\ f.size \in Nat /\ f.size <= MaxSize
         /\ f.portions \in Seq(Portion) /\ Len(f.portions) \in Nat
         /\ DOMAIN f.portions = 1..Len(f.portions)
         /\ \A k \in 1..Len(f.portions) : f.portions[k] \in Portion
         /\ \A ps \in Seq(Portion) : [f EXCEPT !.portions = ps] \in File
         /\ \A s \in 0..MaxSize : [f EXCEPT !.size = s] \in File
<1>1. f \in [name : Names, size : 0..MaxSize, portions : Seq(Portion)]
  BY DEF File
<1>2. f.name \in Names /\ f.size \in Nat /\ f.size <= MaxSize /\ f.portions \in Seq(Portion)
  BY <1>1, Sizes
<1>3. /\ \A ps \in Seq(Portion) : [f EXCEPT !.portions = ps] \in File
      /\ \A s \in 0..MaxSize : [f EXCEPT !.size = s] \in File
  BY <1>1 DEF File
<1> QED BY <1>2, <1>3

\* A number read back from two signed bytes is not larger than it was.
LEMMA ReloadType ==
  ASSUME NEW x \in Int
  PROVE  Reload(x) \in Int /\ (x \in Nat => Reload(x) <= x)
<1> DEFINE q == x \div Radix
           lo == x % Radix
           hi == q % Radix
<1>1. Radix \in Nat /\ Radix > 1
  BY Sizes
<1>2. q \in Int /\ lo \in Int /\ hi \in Int /\ x = Radix * q + lo
  BY <1>1
<1>3. Signed(lo) \in Int /\ Signed(lo) <= lo /\ Signed(hi) \in Int /\ Signed(hi) <= hi
  <2> HIDE DEF q, lo, hi
  <2> QED BY <1>1, <1>2 DEF Signed
<1>4. Reload(x) = Signed(hi) * Radix + Signed(lo)
  BY DEF Reload
<1>5. Reload(x) \in Int
  <2> DEFINE u == Signed(lo)
             v == Signed(hi)
  <2>1. u \in Int /\ v \in Int /\ Reload(x) = v * Radix + u
    BY <1>3, <1>4
  <2> HIDE DEF u, v
  <2> QED BY <1>1, <2>1
<1>6. ASSUME x \in Nat PROVE Reload(x) <= x
  <2>1. q \in Nat
    BY <1>1, <1>6
  <2>2. hi <= q
    <3> HIDE DEF q
    <3> QED BY <1>1, <2>1
  <2>3. Signed(hi) * Radix <= q * Radix
    <3> DEFINE v == Signed(hi)
    <3>1. v \in Int /\ v <= q
      BY <1>2, <1>3, <2>2
    <3> HIDE DEF v, q
    <3> SUFFICES v * Radix <= q * Radix
      BY DEF v
    <3> QED BY <1>1, <2>1, <3>1
  <2>4. Signed(hi) * Radix \in Int /\ q * Radix = Radix * q /\ q * Radix \in Int
    <3> DEFINE v == Signed(hi)
    <3>1. v \in Int
      BY <1>3
    <3> HIDE DEF v, q
    <3> QED BY <1>1, <2>1, <3>1 DEF v
  <2> DEFINE u == Signed(lo)
             z == Signed(hi) * Radix
             y == q * Radix
  <2>5. u \in Int /\ z \in Int /\ y \in Int /\ u <= lo /\ z <= y /\ x = y + lo
        /\ Reload(x) = z + u
    BY <1>2, <1>3, <1>4, <2>3, <2>4
  <2> HIDE DEF u, z, y, lo
  <2> QED BY <1>2, <2>5
<1> QED BY <1>5, <1>6

\* A row that is loaded has the name and the size it was saved with.
LEMMA LoadRowType ==
  ASSUME NEW row \in File
  PROVE  LoadRow(row) \in File /\ LoadRow(row).name = row.name
<1>1. /\ row.portions \in Seq(Portion) /\ Len(row.portions) \in Nat
      /\ \A k \in 1..Len(row.portions) : row.portions[k] \in Portion
  BY FileParts
<1> DEFINE n == Reload(Len(row.portions))
<1>2. n \in Int /\ n <= Len(row.portions)
  BY <1>1, ReloadType
<1>3. LoadPortions(row.portions) \in [1..n -> Portion]
  <2>1. ASSUME NEW k \in 1..n
        PROVE  [start |-> Reload(row.portions[k].start),
                length |-> Reload(row.portions[k].length)] \in Portion
    <3>1. row.portions[k] \in Portion
      <4> HIDE DEF n
      <4> QED BY <1>1, <1>2
    <3>2. row.portions[k].start \in Int /\ row.portions[k].length \in Int
      BY <3>1 DEF Portion
    <3>3. Reload(row.portions[k].start) \in Int /\ Reload(row.portions[k].length) \in Int
      BY <3>2, ReloadType
    <3> QED BY <3>3 DEF Portion
  <2> QED BY <2>1 DEF LoadPortions
<1>4. LoadPortions(row.portions) \in Seq(Portion)
  <2>1. CASE n \in Nat
    <3> HIDE DEF n
    <3> QED BY <1>3, <2>1
  <2>2. CASE n \notin Nat
    <3>1. 1..n = 1..0
      <4> HIDE DEF n
      <4> QED BY <1>2, <2>2
    <3>2. LoadPortions(row.portions) \in [1..0 -> Portion]
      BY <1>3, <3>1
    <3> QED BY <3>2
  <2> QED BY <2>1, <2>2
<1> QED BY <1>4, FileParts DEF LoadRow, File

\* A free block is a block of the disk, and the marks stay marks.
LEMMA NewBlockType ==
  ASSUME CanGrow, NEW ps \in Seq(Portion), NEW bytes \in [0..DataBlocks-1 -> {0, 1}],
         dat = bytes
  PROVE  /\ NewBlock(ps) \in FreeBlocks /\ NewBlock(ps) \in BlockNumbers
         /\ NewBlock(ps) \in Int /\ dat[NewBlock(ps) - FirstBlock] = 0
         /\ Mark(NewBlock(ps)) \in [0..DataBlocks-1 -> {0, 1}]
         /\ Grown(ps) \in Seq(Portion)
<1>1. FreeBlocks \in SUBSET Nat /\ FreeBlocks # {}
  BY BlockNumbersType DEF FreeBlocks, CanGrow
<1>2. NewBlock(ps) \in FreeBlocks
  <2>1. CASE Contiguous(ps)
    BY <2>1 DEF Contiguous, NewBlock, IsFree, FreeBlocks
  <2>2. CASE ~Contiguous(ps)
    BY <1>1, <2>2, LeastIs DEF NewBlock
  <2> QED BY <2>1, <2>2
<1>3. NewBlock(ps) \in BlockNumbers /\ NewBlock(ps) \in Int /\ dat[NewBlock(ps) - FirstBlock] = 0
  BY <1>1, <1>2 DEF FreeBlocks, IsFree
<1>4. Mark(NewBlock(ps)) \in [0..DataBlocks-1 -> {0, 1}]
  BY DEF Mark
<1>5. Grown(ps) \in Seq(Portion)
  <2>1. CASE Contiguous(ps)
    <3>1. ps # <<>> /\ Len(ps) \in 1..Len(ps)
      BY <2>1 DEF Contiguous
    <3>2. ps[Len(ps)] \in Portion
      BY <3>1
    <3>3. [ps[Len(ps)] EXCEPT !.length = @ + 1] \in Portion
      BY <3>2 DEF Portion
    <3>4. Grown(ps) = [ps EXCEPT ![Len(ps)] = [ps[Len(ps)] EXCEPT !.length = @ + 1]]
      BY <2>1 DEF Grown
    <3> HIDE DEF Portion
    <3> QED BY <3>1, <3>3, <3>4
  <2>2. CASE ~Contiguous(ps)
    <3>1. [start |-> NewBlock(ps), length |-> 1] \in Portion
      BY <1>3 DEF Portion
    <3>2. Grown(ps) = Append(ps, [start |-> NewBlock(ps), length |-> 1])
      BY <2>2 DEF Grown
    <3> QED BY <3>1, <3>2
  <2> QED BY <2>1, <2>2
<1> QED BY <1>2, <1>3, <1>4, <1>5

\* What save_meta has written before it looks at a row of the table.
LEMMA RowsTurn ==
  ASSUME \A e \in DOMAIN entry : entry[e] \in File
  PROVE  /\ RowsBefore \in [0..MaxFiles -> Seq(File)] /\ RowsBefore[0] = <<>>
         /\ \A i \in 1..MaxFiles :
              RowsBefore[i] = IF i - 1 \in DOMAIN entry
                              THEN Append(RowsBefore[i - 1], entry[i - 1])
                              ELSE RowsBefore[i - 1]
<1> DEFINE next == [i \in 1..MaxFiles |-> [rows \in Seq(File) |->
                      IF i - 1 \in DOMAIN entry THEN Append(rows, entry[i - 1]) ELSE rows]]
           Is(f) == f = [i \in 0..MaxFiles |->
                           IF i = 0 THEN <<>>
                           ELSE IF i - 1 \in DOMAIN entry
                                THEN Append(f[i - 1], entry[i - 1]) ELSE f[i - 1]]
<1>1. next \in [1..MaxFiles -> [Seq(File) -> Seq(File)]]
  OBVIOUS
<1>2. <<>> \in Seq(File) /\ MaxFiles \in Nat
  BY Sizes
<1>3. PICK f \in [0..MaxFiles -> Seq(File)] : Stepwise(f, MaxFiles, <<>>, next)
  <2> HIDE DEF next
  <2> QED BY <1>1, <1>2, RecursionExists
<1>4. /\ f[0] = <<>>
      /\ \A t \in 1..MaxFiles :
           f[t] = IF t - 1 \in DOMAIN entry THEN Append(f[t - 1], entry[t - 1]) ELSE f[t - 1]
  <2>1. f[0] = <<>> /\ \A t \in 1..MaxFiles : f[t] = next[t][f[t - 1]]
    <3> HIDE DEF next
    <3> QED BY <1>3 DEF Stepwise
  <2>2. \A t \in 1..MaxFiles : f[t - 1] \in Seq(File)
    BY <1>2, <1>3
  <2> QED BY <2>1, <2>2
<1>5. Is(f)
  <2>1. \A i \in 0..MaxFiles : i # 0 => i \in 1..MaxFiles
    BY <1>2
  <2> QED BY <1>3, <1>4, <2>1
<1>6. Is(RowsBefore)
  <2>1. RowsBefore = CHOOSE g : Is(g)
    BY DEF RowsBefore
  <2> HIDE DEF Is
  <2> QED BY <1>5, <2>1
<1>7. DOMAIN RowsBefore = 0..MaxFiles /\ RowsBefore[0] = <<>>
  BY <1>2, <1>6
<1>8. \A i \in 1..MaxFiles :
        RowsBefore[i] = IF i - 1 \in DOMAIN entry
                        THEN Append(RowsBefore[i - 1], entry[i - 1]) ELSE RowsBefore[i - 1]
  <2>1. \A i \in 1..MaxFiles : i \in 0..MaxFiles /\ i # 0
    BY <1>2
  <2> QED BY <1>6, <2>1
<1>9. \A i \in 0..MaxFiles : RowsBefore[i] \in Seq(File)
  <2> DEFINE G == {i \in 0..MaxFiles : RowsBefore[i] \in Seq(File)}
  <2>1. 0 \in G
    BY <1>2, <1>7
  <2>2. ASSUME NEW m \in 0..MaxFiles-1, m \in G PROVE m + 1 \in G
    <3>1. m + 1 \in 1..MaxFiles /\ m + 1 \in 0..MaxFiles /\ (m + 1) - 1 = m
      BY <1>2, <2>2
    <3>2. RowsBefore[m + 1] = IF m \in DOMAIN entry
                              THEN Append(RowsBefore[m], entry[m]) ELSE RowsBefore[m]
      BY <1>8, <3>1
    <3>3. RowsBefore[m] \in Seq(File)
      BY <2>2
    <3>4. m \in DOMAIN entry => Append(RowsBefore[m], entry[m]) \in Seq(File)
      BY <3>3
    <3> QED BY <3>1, <3>2, <3>3, <3>4
  <2>3. 0..MaxFiles \subseteq G
    <3> HIDE DEF G
    <3> QED BY <1>2, <2>1, <2>2, UpToInduction
  <2> QED BY <2>3
<1>10. RowsBefore = [i \in 0..MaxFiles |-> RowsBefore[i]]
  BY <1>6, <1>7
<1> QED BY <1>7, <1>8, <1>9, <1>10

\* save_meta writes every file of the table, each once.
LEMMA RowsAre ==
  ASSUME \A e \in DOMAIN entry : entry[e] \in File,
         DOMAIN entry \subseteq 0..MaxFiles-1
  PROVE  /\ Rows \in Seq(File) /\ Len(Rows) = Cardinality(DOMAIN entry)
         /\ Len(Rows) \in 0..MaxFiles
         /\ \E g \in [1..Len(Rows) -> DOMAIN entry] :
              \A k \in 1..Len(Rows) :
                /\ Rows[k] = entry[g[k]]
                /\ \A l \in 1..Len(Rows) : l # k => g[l] # g[k]
<1> DEFINE D == DOMAIN entry
           Below(i) == {e \in D : e < i}
           R == RowsBefore
           Good(i) ==
             /\ IsFiniteSet(Below(i)) /\ Len(R[i]) = Cardinality(Below(i))
             /\ \E g \in [1..Len(R[i]) -> Below(i)] :
                  \A k \in 1..Len(R[i]) :
                    /\ R[i][k] = entry[g[k]]
                    /\ \A l \in 1..Len(R[i]) : l # k => g[l] # g[k]
           G == {i \in 0..MaxFiles : Good(i)}
<1>1. /\ R \in [0..MaxFiles -> Seq(File)] /\ R[0] = <<>>
      /\ \A i \in 1..MaxFiles :
           R[i] = IF i - 1 \in D THEN Append(R[i - 1], entry[i - 1]) ELSE R[i - 1]
  BY RowsTurn
<1>2. MaxFiles \in Nat /\ D \subseteq Nat
  BY Sizes
<1>3. Good(0)
  <2>1. Below(0) = {} /\ Len(R[0]) = 0
    BY <1>1, <1>2
  <2>2. IsFiniteSet({}) /\ Cardinality({}) = 0
    BY FS_EmptySet
  <2>3. \E g \in [1..0 -> Below(0)] : TRUE
    <3>1. [x \in 1..0 |-> x] \in [1..0 -> Below(0)]
      OBVIOUS
    <3> HIDE DEF Below
    <3> QED BY <3>1
  <2> HIDE DEF Below, R
  <2> QED BY <2>1, <2>2, <2>3
<1>4. ASSUME NEW m \in 0..MaxFiles-1, Good(m) PROVE Good(m + 1)
  <2>1. m + 1 \in 1..MaxFiles /\ m \in 0..MaxFiles /\ (m + 1) - 1 = m /\ m \in Nat
    BY <1>2, <1>4
  <2>2. R[m + 1] = IF m \in D THEN Append(R[m], entry[m]) ELSE R[m]
    BY <1>1, <2>1
  <2>3. R[m] \in Seq(File) /\ Len(R[m]) \in Nat
    BY <1>1, <2>1
  <2>4. PICK g \in [1..Len(R[m]) -> Below(m)] :
                  \A k \in 1..Len(R[m]) :
                    /\ R[m][k] = entry[g[k]]
                    /\ \A l \in 1..Len(R[m]) : l # k => g[l] # g[k]
    BY <1>4
  <2>5. CASE m \notin D
    <3>1. Below(m + 1) = Below(m)
      BY <1>2, <2>1, <2>5
    <3>2. R[m + 1] = R[m]
      BY <2>2, <2>5
    <3> HIDE DEF Below, R
    <3> QED BY <1>4, <3>1, <3>2
  <2>6. CASE m \in D
    <3>1. Below(m + 1) = Below(m) \cup {m} /\ m \notin Below(m)
      BY <1>2, <2>1, <2>6
    <3>2. R[m + 1] = Append(R[m], entry[m]) /\ entry[m] \in File
      BY <2>2, <2>6
    <3>3. Len(R[m + 1]) = Len(R[m]) + 1
      BY <2>3, <3>2
    <3>4. IsFiniteSet(Below(m + 1)) /\ Cardinality(Below(m + 1)) = Cardinality(Below(m)) + 1
      <4>1. IsFiniteSet(Below(m))
        BY <1>4
      <4> HIDE DEF Below
      <4> QED BY <3>1, <4>1, FS_AddElement
    <3> DEFINE n == Len(R[m])
               h == [k \in 1..n+1 |-> IF k = n + 1 THEN m ELSE g[k]]
    <3>5. h \in [1..n+1 -> Below(m + 1)]
      <4>1. \A k \in 1..n+1 : k # n + 1 => k \in 1..n
        BY <2>3
      <4>2. \A k \in 1..n : g[k] \in Below(m)
        BY <2>4
      <4> HIDE DEF Below, n
      <4> QED BY <3>1, <4>1, <4>2
    <3>6. ASSUME NEW k \in 1..n+1
          PROVE  R[m + 1][k] = entry[h[k]] /\ \A l \in 1..n+1 : l # k => h[l] # h[k]
      <4>1. \A l \in 1..n+1 : l # n + 1 => l \in 1..n
        BY <2>3
      <4>2. \A l \in 1..n : g[l] # m
        BY <2>4, <3>1
      <4>3. CASE k = n + 1
        <5>1. R[m + 1][k] = entry[m]
          BY <2>3, <3>2, <4>3
        <5>2. h[k] = m
          BY <4>3
        <5>3. \A l \in 1..n+1 : l # k => h[l] = g[l] /\ l \in 1..n
          BY <4>1, <4>3
        <5> HIDE DEF h
        <5> QED BY <4>2, <5>1, <5>2, <5>3
      <4>4. CASE k # n + 1
        <5>1. k \in 1..n
          BY <4>1, <4>4
        <5>2. R[m + 1][k] = R[m][k]
          BY <2>3, <3>2, <5>1
        <5>3. h[k] = g[k] /\ g[k] # m
          BY <4>2, <4>4, <5>1
        <5>4. \A l \in 1..n+1 : l # k => h[l] # h[k]
          <6> TAKE l \in 1..n+1
          <6>1. CASE l = n + 1
            BY <5>3, <6>1
          <6>2. CASE l # n + 1
            <7>1. l \in 1..n /\ h[l] = g[l]
              BY <4>1, <6>2
            <7> QED BY <2>4, <5>1, <5>3, <7>1
          <6> QED BY <6>1, <6>2
        <5> QED BY <2>4, <5>1, <5>2, <5>3, <5>4
      <4> QED BY <4>3, <4>4
    <3> HIDE DEF h, Below, R
    <3> QED BY <1>4, <3>3, <3>4, <3>5, <3>6
  <2> QED BY <2>5, <2>6
<1>5. 0..MaxFiles \subseteq G
  <2>1. 0 \in G /\ \A m \in 0..MaxFiles-1 : m \in G => m + 1 \in G
    <3> HIDE DEF Good
    <3> QED BY <1>2, <1>3, <1>4
  <2> HIDE DEF G
  <2> QED BY <1>2, <2>1, UpToInduction
<1>6. Good(MaxFiles)
  <2> HIDE DEF Good
  <2> QED BY <1>2, <1>5
<1>7. Below(MaxFiles) = D
  BY <1>2
<1>8. Rows \in Seq(File) /\ Rows = R[MaxFiles]
  BY <1>1, <1>2 DEF Rows
<1>9. Cardinality(D) \in 0..MaxFiles
  <2>1. IsFiniteSet(0..MaxFiles-1) /\ Cardinality(0..MaxFiles-1) = MaxFiles
    BY <1>2, FS_Interval
  <2>2. IsFiniteSet(D) /\ Cardinality(D) \in Nat /\ Cardinality(D) <= MaxFiles
    BY <2>1, FS_Subset, FS_CardinalityType
  <2> QED BY <1>2, <2>2
<1> HIDE DEF Below, R
<1> QED BY <1>6, <1>7, <1>8, <1>9

\* The parts of a descriptor, and the bounds of the tables.
Handle == [seek : 0..MaxSize, entry : 0..MaxFiles-1, name : Names]

\* The tables of a process that has not mounted anything.
LEMMA TablesFresh ==
  ASSUME mounted = FALSE, dat = NoBlockUsed, file_count = 0, entry = Empty,
         fildes = Empty, call = Idle
  PROVE  /\ mounted \in BOOLEAN /\ dat \in [0..DataBlocks-1 -> {0, 1}]
         /\ file_count \in 0..MaxFiles /\ DOMAIN entry = {} /\ DOMAIN fildes = {}
         /\ call.op \in {"idle", "write", "truncate"} /\ CallInv /\ CountInv
<1>1. DOMAIN entry = {} /\ DOMAIN fildes = {}
  BY DEF Empty
<1>2. Cardinality({}) = 0
  BY FS_EmptySet
<1>3. CountInv
  BY <1>1, <1>2 DEF CountInv
<1>4. dat \in [0..DataBlocks-1 -> {0, 1}]
  BY DEF NoBlockUsed
<1>5. call.op = "idle"
  BY DEF Idle
<1>6. file_count \in 0..MaxFiles
  BY Sizes
<1> QED BY <1>1, <1>3, <1>4, <1>5, <1>6 DEF CallInv

\* A disk on which nothing is saved.
LEMMA NothingSavedSound ==
  /\ NothingSaved \in [dat : [0..DataBlocks-1 -> {0, 1}], count : 0..MaxFiles, rows : Seq(File)]
  /\ NothingSaved.count = 0 /\ NothingSaved.rows = <<>> /\ Len(<<>>) = 0
  /\ NothingSaved.dat = NoBlockUsed
<1>1. <<>> \in Seq(File) /\ NoBlockUsed \in [0..DataBlocks-1 -> {0, 1}] /\ 0 \in 0..MaxFiles
  BY Sizes DEF NoBlockUsed
<1> QED BY <1>1 DEF NothingSaved

\* A process that finds no file system starts with empty tables: TablesInv
\* holds at first.
LEMMA TablesInit == Init => TablesInv
<1> SUFFICES ASSUME Init PROVE TablesInv
  OBVIOUS
<1> USE DEF Init
<1>1. /\ mounted \in BOOLEAN /\ dat \in [0..DataBlocks-1 -> {0, 1}]
      /\ file_count \in 0..MaxFiles /\ DOMAIN entry = {} /\ DOMAIN fildes = {}
      /\ call.op \in {"idle", "write", "truncate"} /\ CallInv /\ CountInv
  BY TablesFresh
<1>2. SavedInv /\ DOMAIN saved.rows = {}
  BY NothingSavedSound DEF SavedInv
<1>3. saved.count = Len(saved.rows)
  BY <1>2 DEF SavedInv
<1>4. DOMAIN disk = BlockNumbers
  BY DEF ErasedDisk
<1>5. NamesInv
  BY <1>1, <1>2 DEF NamesInv
<1>6. TypeOK
  BY <1>1, <1>3, <1>4 DEF TypeOK
<1> QED BY <1>1, <1>2, <1>5, <1>6 DEF TablesInv

\* Memory that is fresh keeps the tables in order, whatever is on the disk.
LEMMA TablesForgotten ==
  ASSUME TablesInv, FreshMemory, SavedInv',
         \A j, k \in DOMAIN saved'.rows :
           saved'.rows[j].name = saved'.rows[k].name => j = k,
         DOMAIN disk' = BlockNumbers
  PROVE  TablesInv'
<1>1. /\ mounted' \in BOOLEAN /\ dat' \in [0..DataBlocks-1 -> {0, 1}]
      /\ file_count' \in 0..MaxFiles /\ DOMAIN entry' = {} /\ DOMAIN fildes' = {}
      /\ call'.op \in {"idle", "write", "truncate"}
  <2>1. DOMAIN entry' = {} /\ DOMAIN fildes' = {}
    BY DEF FreshMemory, Empty
  <2>2. dat' \in [0..DataBlocks-1 -> {0, 1}]
    BY DEF FreshMemory, NoBlockUsed
  <2>3. call'.op = "idle"
    BY DEF FreshMemory, Idle
  <2>4. file_count' = 0 /\ mounted' = FALSE
    BY DEF FreshMemory
  <2>5. file_count' \in 0..MaxFiles
    BY <2>4, Sizes
  <2>6. mounted' \in BOOLEAN
    BY <2>4
  <2> QED BY <2>1, <2>2, <2>3, <2>5, <2>6
<1>2. CallInv'
  BY DEF FreshMemory, CallInv
<1>3. CountInv'
  <2>1. Cardinality({}) = 0
    BY FS_EmptySet
  <2> QED BY <1>1, <2>1 DEF CountInv, FreshMemory
<1>4. NamesInv'
  BY <1>1 DEF NamesInv
<1>5. TypeOK'
  BY <1>1 DEF TypeOK, SavedInv
<1> QED BY <1>2, <1>3, <1>4, <1>5 DEF TablesInv

\* make_fs writes tables without a file or a taken block over those of the disk.
LEMMA TablesMakeFs == ASSUME TablesInv, MakeFs PROVE TablesInv'
<1>1. saved' = NothingSaved /\ disk' = ErasedDisk /\ call = Idle
  BY DEF MakeFs
<1>2. SavedInv' /\ DOMAIN saved'.rows = {} /\ DOMAIN disk' = BlockNumbers
      /\ saved'.count = Len(saved'.rows)
  BY <1>1, NothingSavedSound DEF SavedInv, ErasedDisk
<1>3. CASE mounted
  <2>1. UNCHANGED memoryVars
    BY <1>3 DEF MakeFs
  <2>2. UNCHANGED <<mounted, dat, file_count, entry, fildes, call>>
    BY <2>1 DEF memoryVars
  <2>3. CallInv' /\ CountInv' /\ NamesInv'
    BY <1>2, <2>2 DEF TablesInv, CallInv, CountInv, NamesInv, Writing
  <2>4. TypeOK'
    BY <1>2, <2>2 DEF TablesInv, TypeOK
  <2> QED BY <1>2, <2>3, <2>4 DEF TablesInv
<1>4. CASE ~mounted
  <2>1. FreshMemory
    BY <1>4 DEF MakeFs
  <2> QED BY <1>2, <2>1, TablesForgotten
<1> QED BY <1>3, <1>4

\* A process that ends leaves the disk, and the next one starts with empty
\* tables.
LEMMA TablesExit == ASSUME TablesInv, Exit PROVE TablesInv'
<1>1. FreshMemory /\ UNCHANGED <<saved, disk>>
  BY DEF Exit, diskVars
<1>2. SavedInv' /\ DOMAIN disk' = BlockNumbers
  BY <1>1 DEF TablesInv, SavedInv, TypeOK
<1>3. \A j, k \in DOMAIN saved'.rows : saved'.rows[j].name = saved'.rows[k].name => j = k
  BY <1>1 DEF TablesInv, NamesInv
<1> QED BY <1>1, <1>2, <1>3, TablesForgotten

\* mount_fs loads the files that were saved, row by row.
LEMMA MountLoads ==
  ASSUME TablesInv, Mount
  PROVE  /\ DOMAIN entry' = 0..saved.count-1
         /\ \A i \in 0..saved.count-1 :
              /\ i + 1 \in DOMAIN saved.rows /\ saved.rows[i + 1] \in File
              /\ entry'[i] = LoadRow(saved.rows[i + 1])
         /\ DOMAIN saved.rows = 1..saved.count /\ saved.count \in 0..MaxFiles
         /\ call = Idle /\ call' = Idle /\ mounted' = TRUE /\ dat' = saved.dat
         /\ file_count' = saved.count /\ fildes' = fildes /\ DOMAIN fildes = {}
         /\ saved' = saved /\ disk' = disk
<1>1. SavedInv /\ CallInv /\ TypeOK
  BY DEF TablesInv
<1>2. /\ saved.count \in 0..MaxFiles /\ saved.rows \in Seq(File)
      /\ saved.count = Len(saved.rows)
  BY <1>1 DEF SavedInv
<1>3. DOMAIN saved.rows = 1..saved.count /\ \A k \in 1..saved.count : saved.rows[k] \in File
  BY <1>2
<1>4. DOMAIN entry = {} /\ DOMAIN fildes = {}
  BY DEF Mount, MemoryIsFresh
<1>5. entry' = [i \in 0..saved.count-1 |-> LoadRow(saved.rows[i + 1])]
  <2>1. DOMAIN entry \cup (0..saved.count-1) = 0..saved.count-1
    BY <1>4
  <2>2. \A i \in 0..saved.count-1 : i < saved.count
    BY <1>2
  <2> QED BY <2>1, <2>2 DEF Mount
<1>6. \A i \in 0..saved.count-1 : i + 1 \in 1..saved.count
  BY <1>2
<1>7. call = Idle
  BY <1>1 DEF CallInv, Mount
<1> QED BY <1>2, <1>3, <1>4, <1>5, <1>6, <1>7 DEF Mount, LoadedMarks, diskVars

\* mount_fs takes over the tables of the disk, which SavedInv keeps as sound
\* as those in memory.
LEMMA TablesMount == ASSUME TablesInv, Mount PROVE TablesInv'
<1>1. SavedInv /\ NamesInv /\ TypeOK
  BY DEF TablesInv
<1> DEFINE n == saved.count
<1>2. /\ DOMAIN entry' = 0..n-1 /\ n \in 0..MaxFiles /\ DOMAIN saved.rows = 1..n
      /\ \A i \in 0..n-1 : /\ i + 1 \in DOMAIN saved.rows /\ saved.rows[i + 1] \in File
                           /\ entry'[i] = LoadRow(saved.rows[i + 1])
      /\ call' = Idle /\ mounted' = TRUE /\ dat' = saved.dat /\ file_count' = n
      /\ fildes' = fildes /\ DOMAIN fildes = {} /\ saved' = saved /\ disk' = disk
  BY MountLoads
<1>3. \A i \in 0..n-1 : entry'[i] \in File /\ entry'[i].name = saved.rows[i + 1].name
  BY <1>2, LoadRowType
<1>4. SavedInv'
  BY <1>1, <1>2 DEF SavedInv
<1>5. CountInv'
  <2>1. Cardinality(0..n-1) = n
    <3>1. n \in Nat
      BY <1>2, Sizes
    <3> HIDE DEF n
    <3>2. IsFiniteSet(0..n-1) /\ Cardinality(0..n-1) = IF 0 > n-1 THEN 0 ELSE (n-1)-0+1
      BY <3>1, FS_Interval
    <3> QED BY <3>1, <3>2
  <2> QED BY <1>2, <2>1 DEF CountInv
<1>6. NamesInv'
  <2>1. \A e, f \in DOMAIN entry' : entry'[e].name = entry'[f].name => e = f
    <3> TAKE e, f \in DOMAIN entry'
    <3> HAVE entry'[e].name = entry'[f].name
    <3>1. e \in 0..n-1 /\ f \in 0..n-1 /\ e + 1 \in DOMAIN saved.rows /\ f + 1 \in DOMAIN saved.rows
      BY <1>2
    <3>2. saved.rows[e + 1].name = saved.rows[f + 1].name
      BY <1>3, <3>1
    <3>3. e + 1 = f + 1
      BY <1>1, <3>1, <3>2 DEF NamesInv
    <3> QED BY <1>2, <3>1, <3>3
  <2> QED BY <1>1, <1>2, <2>1 DEF NamesInv
<1>7. CallInv'
  BY <1>2 DEF CallInv
<1>8. TypeOK'
  <2>1. dat' \in [0..DataBlocks-1 -> {0, 1}] /\ file_count' \in 0..MaxFiles
    BY <1>1, <1>2 DEF SavedInv
  <2>2. DOMAIN entry' \subseteq 0..MaxFiles-1
    BY <1>2, Sizes
  <2>3. saved'.count = Len(saved'.rows) /\ DOMAIN disk' = BlockNumbers
    BY <1>1, <1>2 DEF SavedInv, TypeOK
  <2> QED BY <1>2, <1>3, <2>1, <2>2, <2>3 DEF TypeOK, Idle
<1> QED BY <1>4, <1>5, <1>6, <1>7, <1>8 DEF TablesInv

\* umount_fs saves the tables it leaves in memory: SavedInv gets what the
\* others had.
LEMMA TablesUmount == ASSUME TablesInv, Umount PROVE TablesInv'
<1>1. TypeOK /\ CallInv /\ SavedInv /\ NamesInv /\ CountInv
  BY DEF TablesInv
<1>2. /\ mounted' = FALSE /\ saved' = [dat |-> dat, count |-> file_count, rows |-> Rows]
      /\ UNCHANGED <<dat, file_count, entry, fildes, call, disk>> /\ call = Idle
  BY DEF Umount, Meta, Running
<1>3. /\ Rows \in Seq(File) /\ Len(Rows) = file_count
      /\ \E g \in [1..Len(Rows) -> DOMAIN entry] :
           \A k \in 1..Len(Rows) :
                /\ Rows[k] = entry[g[k]]
                /\ \A l \in 1..Len(Rows) : l # k => g[l] # g[k]
  BY <1>1, RowsAre DEF TypeOK, CountInv
<1>4. SavedInv'
  BY <1>1, <1>2, <1>3 DEF SavedInv, TypeOK
<1>5. NamesInv'
  <2>1. saved'.rows = Rows /\ DOMAIN Rows = 1..Len(Rows)
    BY <1>2, <1>3
  <2>2. \A j, k \in DOMAIN saved'.rows : saved'.rows[j].name = saved'.rows[k].name => j = k
    <3> PICK g \in [1..Len(Rows) -> DOMAIN entry] :
           \A k \in 1..Len(Rows) :
                /\ Rows[k] = entry[g[k]]
                /\ \A l \in 1..Len(Rows) : l # k => g[l] # g[k]
      BY <1>3
    <3> TAKE j, k \in DOMAIN saved'.rows
    <3> HAVE saved'.rows[j].name = saved'.rows[k].name
    <3>1. j \in 1..Len(Rows) /\ k \in 1..Len(Rows) /\ Rows[j].name = Rows[k].name
      BY <2>1
    <3>2. entry[g[j]].name = entry[g[k]].name /\ g[j] \in DOMAIN entry /\ g[k] \in DOMAIN entry
      BY <3>1
    <3>3. g[j] = g[k]
      BY <1>1, <3>2 DEF NamesInv
    <3> QED BY <3>1, <3>3
  <2> QED BY <1>1, <1>2, <2>2 DEF NamesInv
<1>6. CallInv' /\ CountInv'
  BY <1>1, <1>2 DEF CallInv, CountInv
<1>7. TypeOK'
  BY <1>1, <1>2, <1>3 DEF TypeOK
<1> QED BY <1>4, <1>5, <1>6, <1>7 DEF TablesInv

\* What the tables look like.
LEMMA TablesParts ==
  ASSUME TablesInv
  PROVE  /\ mounted \in BOOLEAN /\ dat \in [0..DataBlocks-1 -> {0, 1}]
         /\ DOMAIN entry \subseteq 0..MaxFiles-1
         /\ \A e \in DOMAIN entry : entry[e] \in File
         /\ \A e, f \in DOMAIN entry : entry[e].name = entry[f].name => e = f
         /\ DOMAIN fildes \subseteq 0..MaxOpen-1
         /\ \A fd \in DOMAIN fildes :
              /\ fildes[fd] \in Handle /\ fildes[fd].entry \in DOMAIN entry
              /\ entry[fildes[fd].entry].name = fildes[fd].name
              /\ fildes[fd].seek \in Nat /\ fildes[fd].seek <= MaxSize
              /\ FileOf(fd) \in File
         /\ file_count = Cardinality(DOMAIN entry) /\ IsFiniteSet(DOMAIN entry)
         /\ DOMAIN disk = BlockNumbers
         /\ saved.rows \in Seq(File) /\ saved.dat \in [0..DataBlocks-1 -> {0, 1}]
<1>1. TypeOK /\ CallInv /\ SavedInv /\ NamesInv /\ CountInv
  BY DEF TablesInv
<1>2. \A fd \in DOMAIN fildes : fildes[fd] \in Handle
  BY <1>1 DEF TypeOK, Handle
<1>3. \A fd \in DOMAIN fildes : fildes[fd].seek \in Nat /\ fildes[fd].seek <= MaxSize
  BY <1>2, Sizes DEF Handle
<1>4. IsFiniteSet(DOMAIN entry)
  <2>1. IsFiniteSet(0..MaxFiles-1)
    BY Sizes, FS_Interval
  <2> QED BY <1>1, <2>1, FS_Subset DEF TypeOK
<1>5. /\ \A e, f \in DOMAIN entry : entry[e].name = entry[f].name => e = f
      /\ \A fd \in DOMAIN fildes : /\ fildes[fd].entry \in DOMAIN entry
                                   /\ entry[fildes[fd].entry].name = fildes[fd].name
  BY <1>1 DEF NamesInv
<1>6. /\ mounted \in BOOLEAN /\ dat \in [0..DataBlocks-1 -> {0, 1}]
      /\ DOMAIN entry \subseteq 0..MaxFiles-1
      /\ \A e \in DOMAIN entry : entry[e] \in File
      /\ DOMAIN fildes \subseteq 0..MaxOpen-1 /\ DOMAIN disk = BlockNumbers
  BY <1>1 DEF TypeOK
<1>7. \A fd \in DOMAIN fildes : FileOf(fd) \in File
  BY <1>5, <1>6 DEF FileOf
<1>8. /\ saved.rows \in Seq(File) /\ saved.dat \in [0..DataBlocks-1 -> {0, 1}]
      /\ file_count = Cardinality(DOMAIN entry)
  BY <1>1 DEF SavedInv, CountInv
<1> QED BY <1>2, <1>3, <1>4, <1>5, <1>6, <1>7, <1>8

\* A step that keeps the rows of the table, the names in them, and the file
\* of every descriptor it keeps, keeps the tables in order.
LEMMA TablesKept ==
  ASSUME TablesInv, mounted' = mounted, saved' = saved, file_count' = file_count,
         DOMAIN entry' = DOMAIN entry,
         \A e \in DOMAIN entry : entry'[e] \in File /\ entry'[e].name = entry[e].name,
         DOMAIN fildes' \subseteq DOMAIN fildes,
         \A fd \in DOMAIN fildes' : /\ fildes'[fd] \in Handle
                                    /\ fildes'[fd].entry = fildes[fd].entry
                                    /\ fildes'[fd].name = fildes[fd].name,
         dat' \in [0..DataBlocks-1 -> {0, 1}], DOMAIN disk' = BlockNumbers,
         CallInv', call'.op \in {"idle", "write", "truncate"}
  PROVE  TablesInv'
<1>1. TypeOK /\ SavedInv /\ NamesInv /\ CountInv
  BY DEF TablesInv
<1>2. TypeOK'
  <2>1. /\ mounted' \in BOOLEAN /\ file_count' \in 0..MaxFiles
        /\ saved'.count = Len(saved'.rows)
        /\ DOMAIN entry' \subseteq 0..MaxFiles-1
        /\ DOMAIN fildes' \subseteq 0..MaxOpen-1
    BY <1>1 DEF TypeOK
  <2> QED BY <2>1 DEF TypeOK, Handle
<1>3. NamesInv'
  <2>1. \A e, f \in DOMAIN entry' : entry'[e].name = entry'[f].name => e = f
    BY <1>1 DEF NamesInv
  <2>2. \A fd \in DOMAIN fildes' : /\ fildes'[fd].entry \in DOMAIN entry'
                                   /\ entry'[fildes'[fd].entry].name = fildes'[fd].name
    BY <1>1 DEF NamesInv
  <2> QED BY <1>1, <2>1, <2>2 DEF NamesInv
<1>4. SavedInv' /\ CountInv'
  BY <1>1 DEF SavedInv, CountInv
<1> QED BY <1>2, <1>3, <1>4 DEF TablesInv

\* The least free row, and the least free descriptor.
LEMMA LeastFree ==
  ASSUME TablesInv
  PROVE  /\ FreeSlots # {} => Least(FreeSlots) \in 0..MaxFiles-1 \ DOMAIN entry
         /\ FreeFildes # {} => Least(FreeFildes) \in 0..MaxOpen-1 \ DOMAIN fildes
         /\ \A n : SlotsOf(n) # {} => /\ Least(SlotsOf(n)) \in DOMAIN entry
                                      /\ entry[Least(SlotsOf(n))].name = n
<1>1. FreeSlots \in SUBSET Nat /\ FreeFildes \in SUBSET Nat
  BY Sizes DEF FreeSlots, FreeFildes
<1>2. \A n : SlotsOf(n) \in SUBSET Nat
  BY TablesParts DEF SlotsOf
<1>3. ASSUME NEW n, SlotsOf(n) # {} PROVE Least(SlotsOf(n)) \in SlotsOf(n)
  BY <1>2, <1>3, LeastIs
<1>4. FreeSlots # {} => Least(FreeSlots) \in FreeSlots
  BY <1>1, LeastIs
<1>5. FreeFildes # {} => Least(FreeFildes) \in FreeFildes
  BY <1>1, LeastIs
<1> QED BY <1>3, <1>4, <1>5 DEF FreeSlots, FreeFildes, SlotsOf

\* No call is in progress after a call that was atomic.
LEMMA IdleCall == ASSUME call = Idle, call' = call PROVE CallInv' /\ call'.op = "idle"
  BY DEF CallInv, Idle

\* fs_create fills one free row with a name no other row has, and counts it.
LEMMA TablesCreate == ASSUME TablesInv, NEW n \in Names, Create(n) PROVE TablesInv'
<1> DEFINE s == Least(FreeSlots)
           f == [name |-> n, size |-> 0, portions |-> <<>>]
<1>1. TypeOK /\ SavedInv /\ NamesInv /\ CountInv
  BY DEF TablesInv
<1>2. s \in 0..MaxFiles-1 /\ s \notin DOMAIN entry
  BY LeastFree DEF Create
<1>3. f \in File /\ f.name = n
  <2>1. <<>> \in Seq(Portion) /\ 0 \in 0..MaxSize
    BY Sizes
  <2> QED BY <2>1 DEF File
<1>4. entry' = With(entry, s, f)
  BY DEF Create
<1>5. /\ DOMAIN entry' = DOMAIN entry \cup {s} /\ entry'[s] = f
      /\ \A e \in DOMAIN entry : entry'[e] = entry[e]
  <2> HIDE DEF s, f
  <2> QED BY <1>2, <1>4 DEF With
<1>6. /\ mounted' = mounted /\ dat' = dat /\ fildes' = fildes /\ saved' = saved
      /\ disk' = disk /\ call' = call /\ call = Idle /\ file_count' = file_count + 1
      /\ file_count < MaxFiles /\ SlotsOf(n) = {}
  BY DEF Create, diskVars, Running
<1>7. CountInv'
  <2>1. IsFiniteSet(DOMAIN entry)
    BY TablesParts
  <2>2. Cardinality(DOMAIN entry') = Cardinality(DOMAIN entry) + 1
    <3> HIDE DEF s
    <3> QED BY <1>2, <1>5, <2>1, FS_AddElement
  <2> QED BY <1>1, <1>6, <2>2 DEF CountInv
<1>8. TypeOK'
  <2>1. file_count' \in 0..MaxFiles
    BY <1>1, <1>6, Sizes DEF TypeOK
  <2>2. \A e \in DOMAIN entry' : entry'[e] \in File
    <3> HIDE DEF s, f
    <3> QED BY <1>1, <1>3, <1>5 DEF TypeOK
  <2>3. DOMAIN entry' \subseteq 0..MaxFiles-1
    <3> HIDE DEF s, f
    <3> QED BY <1>1, <1>2, <1>5 DEF TypeOK
  <2> QED BY <1>1, <1>6, <2>1, <2>2, <2>3 DEF TypeOK
<1>9. NamesInv'
  <2>1. \A e \in DOMAIN entry : entry[e].name # n
    BY <1>6 DEF SlotsOf
  <2>2. \A e, g \in DOMAIN entry' : entry'[e].name = entry'[g].name => e = g
    <3> HIDE DEF s, f
    <3> QED BY <1>1, <1>3, <1>5, <2>1 DEF NamesInv
  <2>3. \A fd \in DOMAIN fildes' : /\ fildes'[fd].entry \in DOMAIN entry'
                                   /\ entry'[fildes'[fd].entry].name = fildes'[fd].name
    <3> HIDE DEF s, f
    <3> QED BY <1>1, <1>5, <1>6 DEF NamesInv
  <2> QED BY <1>1, <1>6, <2>2, <2>3 DEF NamesInv
<1>10. SavedInv' /\ CallInv'
  BY <1>1, <1>6, IdleCall DEF SavedInv
<1> QED BY <1>7, <1>8, <1>9, <1>10 DEF TablesInv

\* fs_delete clears the row of a file no descriptor is open on, and counts down.
LEMMA TablesDelete == ASSUME TablesInv, NEW n \in Names, Delete(n) PROVE TablesInv'
<1> DEFINE s == Least(SlotsOf(n))
<1>1. TypeOK /\ SavedInv /\ NamesInv /\ CountInv
  BY DEF TablesInv
<1>2. s \in DOMAIN entry /\ entry[s].name = n
  BY LeastFree DEF Delete, CanDelete
<1>3. /\ entry' = Without(entry, s) /\ dat' = Unmarked(entry[s].portions)
      /\ mounted' = mounted /\ fildes' = fildes /\ saved' = saved
      /\ disk' = disk /\ call' = call /\ call = Idle /\ file_count' = file_count - 1
      /\ ~Opened(n)
  BY DEF Delete, CanDelete, diskVars, Running
<1>4. DOMAIN entry' = DOMAIN entry \ {s} /\ \A e \in DOMAIN entry' : entry'[e] = entry[e]
  <2> HIDE DEF s
  <2> QED BY <1>3 DEF Without
<1>5. /\ CountInv' /\ Cardinality(DOMAIN entry) \in Nat /\ Cardinality(DOMAIN entry) > 0
      /\ file_count = Cardinality(DOMAIN entry)
  <2>1. IsFiniteSet(DOMAIN entry)
    BY TablesParts
  <2> HIDE DEF s
  <2>2. IsFiniteSet(DOMAIN entry') /\ s \notin DOMAIN entry' /\ DOMAIN entry = DOMAIN entry' \cup {s}
    BY <1>2, <1>4, <2>1, FS_Subset
  <2>3. Cardinality(DOMAIN entry) = Cardinality(DOMAIN entry') + 1
    BY <2>2, FS_AddElement
  <2>4. Cardinality(DOMAIN entry') \in Nat
    BY <2>2, FS_CardinalityType
  <2> QED BY <1>1, <1>3, <2>3, <2>4 DEF CountInv
<1>6. TypeOK'
  <2>1. file_count' \in 0..MaxFiles
    BY <1>1, <1>3, <1>5, Sizes DEF TypeOK
  <2>2. dat' \in [0..DataBlocks-1 -> {0, 1}]
    <3>1. \A ps : Unmarked(ps) \in [0..DataBlocks-1 -> {0, 1}]
      BY <1>1 DEF TypeOK, Unmarked
    <3> QED BY <1>3, <3>1
  <2> HIDE DEF s
  <2> QED BY <1>1, <1>3, <1>4, <2>1, <2>2 DEF TypeOK
<1>7. NamesInv'
  <2>1. \A fd \in DOMAIN fildes : fildes[fd].entry # s
    BY <1>1, <1>2, <1>3 DEF NamesInv, Opened
  <2> HIDE DEF s
  <2>2. \A e, g \in DOMAIN entry' : entry'[e].name = entry'[g].name => e = g
    BY <1>1, <1>4 DEF NamesInv
  <2>3. \A fd \in DOMAIN fildes' : /\ fildes'[fd].entry \in DOMAIN entry'
                                   /\ entry'[fildes'[fd].entry].name = fildes'[fd].name
    BY <1>1, <1>3, <1>4, <2>1 DEF NamesInv
  <2> QED BY <1>1, <1>3, <2>2, <2>3 DEF NamesInv
<1>8. SavedInv' /\ CallInv'
  BY <1>1, <1>3, IdleCall DEF SavedInv
<1> QED BY <1>5, <1>6, <1>7, <1>8 DEF TablesInv

\* fs_open gives out the first free descriptor, and on a file that exists.
LEMMA TablesOpen == ASSUME TablesInv, NEW n \in Names, Open(n) PROVE TablesInv'
<1> DEFINE x == Least(FreeFildes)
           s == Least(SlotsOf(n))
           h == [seek |-> 0, entry |-> s, name |-> n]
<1>1. TypeOK /\ SavedInv /\ NamesInv /\ CountInv
  BY DEF TablesInv
<1>2. x \in 0..MaxOpen-1 /\ s \in DOMAIN entry /\ entry[s].name = n
  BY LeastFree DEF Open
<1>3. h \in Handle /\ h.entry = s /\ h.name = n
  BY <1>1, <1>2, Sizes DEF Handle, TypeOK
<1>4. /\ fildes' = With(fildes, x, h)
      /\ mounted' = mounted /\ dat' = dat /\ entry' = entry /\ saved' = saved
      /\ disk' = disk /\ call' = call /\ call = Idle /\ file_count' = file_count
  BY DEF Open, diskVars, Running
<1>5. /\ DOMAIN fildes' = DOMAIN fildes \cup {x}
      /\ \A fd \in DOMAIN fildes' : fildes'[fd] = IF fd = x THEN h ELSE fildes[fd]
  <2> HIDE DEF x, h
  <2> QED BY <1>4 DEF With
<1> HIDE DEF x, s, h
<1>6. TypeOK'
  BY <1>1, <1>2, <1>3, <1>4, <1>5 DEF TypeOK, Handle
<1>7. NamesInv'
  <2>1. \A fd \in DOMAIN fildes' : /\ fildes'[fd].entry \in DOMAIN entry
                                   /\ entry[fildes'[fd].entry].name = fildes'[fd].name
    BY <1>1, <1>2, <1>3, <1>5 DEF NamesInv
  <2> QED BY <1>1, <1>4, <2>1 DEF NamesInv
<1>8. SavedInv' /\ CallInv' /\ CountInv'
  BY <1>1, <1>4, IdleCall DEF SavedInv, CountInv
<1> QED BY <1>6, <1>7, <1>8 DEF TablesInv

\* fs_close frees one descriptor and touches no table.
LEMMA TablesClose ==
  ASSUME TablesInv, NEW fd \in DOMAIN fildes, Close(fd)
  PROVE  TablesInv'
<1>1. /\ fildes' = Without(fildes, fd)
      /\ UNCHANGED <<mounted, dat, file_count, entry, call, saved, disk>> /\ call = Idle
  BY DEF Close, diskVars, Running
<1>2. DOMAIN fildes' \subseteq DOMAIN fildes /\ \A g \in DOMAIN fildes' : fildes'[g] = fildes[g]
  BY <1>1 DEF Without
<1>3. CallInv' /\ call'.op \in {"idle", "write", "truncate"}
  BY <1>1, IdleCall
<1> QED BY <1>1, <1>2, <1>3, TablesParts, TablesKept

\* A descriptor whose position is set within the bound is a descriptor.
LEMMA HandleMoved ==
  ASSUME TablesInv, NEW fd \in DOMAIN fildes, NEW s \in 0..MaxSize,
         fildes' = [fildes EXCEPT ![fd].seek = s]
  PROVE  /\ DOMAIN fildes' = DOMAIN fildes
         /\ \A g \in DOMAIN fildes' : /\ fildes'[g] \in Handle
                                      /\ fildes'[g].entry = fildes[g].entry
                                      /\ fildes'[g].name = fildes[g].name
<1>1. \A g \in DOMAIN fildes : fildes[g] \in Handle
  BY TablesParts
<1>2. DOMAIN fildes' = DOMAIN fildes
  OBVIOUS
<1>3. \A g \in DOMAIN fildes : fildes'[g] = IF g = fd THEN [fildes[fd] EXCEPT !.seek = s] ELSE fildes[g]
  OBVIOUS
<1>4. /\ [fildes[fd] EXCEPT !.seek = s] \in Handle
      /\ [fildes[fd] EXCEPT !.seek = s].entry = fildes[fd].entry
      /\ [fildes[fd] EXCEPT !.seek = s].name = fildes[fd].name
  BY <1>1 DEF Handle
<1> QED BY <1>1, <1>2, <1>3, <1>4

\* fs_lseek moves the position of one descriptor, within the file.
LEMMA TablesLseek ==
  ASSUME TablesInv, NEW fd \in DOMAIN fildes, NEW n \in Amounts, Lseek(fd, n)
  PROVE  TablesInv'
<1>1. /\ fildes' = [fildes EXCEPT ![fd].seek = n] /\ n <= FileOf(fd).size
      /\ UNCHANGED <<mounted, dat, file_count, entry, call, saved, disk>> /\ call = Idle
  BY DEF Lseek, diskVars, Running
<1>2. FileOf(fd).size \in Nat /\ FileOf(fd).size <= MaxSize
  BY TablesParts, FileParts
<1>3. n \in 0..MaxSize
  BY <1>1, <1>2, Sizes, SizesAssumption
<1>4. CallInv' /\ call'.op \in {"idle", "write", "truncate"}
  BY <1>1, IdleCall
<1>5. /\ DOMAIN fildes' = DOMAIN fildes
      /\ \A g \in DOMAIN fildes' : /\ fildes'[g] \in Handle
                                   /\ fildes'[g].entry = fildes[g].entry
                                   /\ fildes'[g].name = fildes[g].name
  BY <1>1, <1>3, HandleMoved
<1> QED BY <1>1, <1>4, <1>5, TablesParts, TablesKept

\* fs_read moves the position by what it read.
LEMMA TablesRead ==
  ASSUME TablesInv, NEW fd \in DOMAIN fildes, NEW n \in Amounts, Read(fd, n)
  PROVE  TablesInv'
<1> DEFINE to == fildes[fd].seek + ReadLength(fd, n)
<1>1. /\ fildes' = [fildes EXCEPT ![fd].seek = to]
      /\ UNCHANGED <<mounted, dat, file_count, entry, call, saved, disk>> /\ call = Idle
  BY DEF Read, diskVars, Running
<1>2. FileOf(fd).size \in Nat /\ FileOf(fd).size <= MaxSize
  BY TablesParts, FileParts
<1>3. to \in 0..MaxSize
  <2>1. fildes[fd].seek \in Nat /\ fildes[fd].seek <= MaxSize
    BY TablesParts
  <2>2. n \in Nat
    BY SizesAssumption
  <2> QED BY <1>2, <2>1, <2>2, Sizes DEF ReadLength, Min2, Max2
<1>4. CallInv' /\ call'.op \in {"idle", "write", "truncate"}
  BY <1>1, IdleCall
<1>5. /\ DOMAIN fildes' = DOMAIN fildes
      /\ \A g \in DOMAIN fildes' : /\ fildes'[g] \in Handle
                                   /\ fildes'[g].entry = fildes[g].entry
                                   /\ fildes'[g].name = fildes[g].name
  <2> HIDE DEF to
  <2> QED BY <1>1, <1>3, HandleMoved
<1> QED BY <1>1, <1>4, <1>5, TablesParts, TablesKept

\* A write in progress: its locals, and the piece it puts into a block.
LEMMA WriteParts ==
  ASSUME TablesInv, Writing
  PROVE  /\ mounted /\ call.fd \in DOMAIN fildes /\ call.version \in Versions
         /\ call = [op |-> "write", fd |-> call.fd, left |-> call.left, seek |-> call.seek,
                    version |-> call.version, at |-> call.at]
         /\ call.seek \in Nat /\ call.left \in Nat \ {0} /\ call.seek + call.left <= MaxSize
         /\ Offset \in 0..BlockSize-1 /\ Piece \in Nat \ {0} /\ Piece <= call.left
         /\ Offset + Piece <= BlockSize /\ (Piece < call.left => Offset + Piece = BlockSize)
         /\ WriteSlot \in DOMAIN entry /\ entry[WriteSlot] \in File
<1>1. CallInv
  BY DEF TablesInv
<1>2. call # Idle /\ call.op # "truncate"
  BY DEF Writing, Idle
<1>3. call # [op |-> "truncate", entry |-> call.entry, length |-> call.length]
  BY <1>2
<1>4. /\ mounted /\ call.fd \in DOMAIN fildes /\ call.version \in Versions
      /\ call = [op |-> "write", fd |-> call.fd, left |-> call.left, seek |-> call.seek,
                 version |-> call.version, at |-> call.at]
      /\ call.seek \in Nat /\ call.left \in Nat \ {0} /\ call.seek + call.left <= MaxSize
  BY <1>1, <1>2, <1>3 DEF CallInv
<1> HIDE DEF CallInv
<1>5. Offset \in 0..BlockSize-1
  BY <1>4, Sizes DEF Offset
<1>6. /\ Piece \in Nat \ {0} /\ Piece <= call.left
      /\ Offset + Piece <= BlockSize /\ (Piece < call.left => Offset + Piece = BlockSize)
  BY <1>4, <1>5, Sizes DEF Piece, Min2
<1>7. WriteSlot \in DOMAIN entry /\ entry[WriteSlot] \in File
  BY <1>4, TablesParts DEF WriteSlot
<1> QED BY <1>4, <1>5, <1>6, <1>7

\* A truncation in progress: its locals.
LEMMA CutParts ==
  ASSUME TablesInv, call.op = "truncate"
  PROVE  /\ mounted /\ call.entry \in DOMAIN entry /\ call.length \in Nat
         /\ call = [op |-> "truncate", entry |-> call.entry, length |-> call.length]
         /\ entry[call.entry] \in File /\ entry[call.entry].size \in Nat
         /\ call.length <= MaxSize
         /\ entry[call.entry].size <= MaxSize /\ entry[call.entry].portions \in Seq(Portion)
<1>1. CallInv
  BY DEF TablesInv
<1>2. call # Idle /\ ~Writing
  BY DEF Writing, Idle
<1>3. /\ mounted /\ call.entry \in DOMAIN entry /\ call.length \in Nat /\ call.length <= MaxSize
      /\ call = [op |-> "truncate", entry |-> call.entry, length |-> call.length]
  BY <1>1, <1>2 DEF CallInv
<1> QED BY <1>3, TablesParts, FileParts

\* A file of the table that is replaced by a file of the same name.
LEMMA FileReplaced ==
  ASSUME TablesInv, NEW e \in DOMAIN entry, NEW f \in File, f.name = entry[e].name,
         entry' = [entry EXCEPT ![e] = f]
  PROVE  /\ DOMAIN entry' = DOMAIN entry
         /\ \A x \in DOMAIN entry : entry'[x] \in File /\ entry'[x].name = entry[x].name
         /\ entry'[e] = f /\ \A x \in DOMAIN entry \ {e} : entry'[x] = entry[x]
<1>1. DOMAIN entry' = DOMAIN entry
  OBVIOUS
<1>2. entry'[e] = f /\ \A x \in DOMAIN entry \ {e} : entry'[x] = entry[x]
  OBVIOUS
<1>3. \A x \in DOMAIN entry : entry[x] \in File
  BY TablesParts
<1> QED BY <1>1, <1>2, <1>3

\* A write that begins has a descriptor that is open, and changes no table yet.
LEMMA TablesStartWrite ==
  ASSUME TablesInv, NEW fd \in DOMAIN fildes, NEW n \in Amounts \ {0}, NEW v \in Versions,
         StartWrite(fd, n, v)
  PROVE  TablesInv'
<1> DEFINE e == fildes[fd].entry
           seek == fildes[fd].seek
           portions == IF entry[e].size = 0 THEN <<>> ELSE entry[e].portions
           at == Walk(entry'[e].portions, seek \div BlockSize)
<1>1. /\ call' = [op |-> "write", fd |-> fd, left |-> n, seek |-> seek, version |-> v, at |-> at]
      /\ UNCHANGED <<mounted, file_count, fildes, saved, disk>>
      /\ mounted /\ seek + n <= MaxSize
  BY DEF StartWrite, diskVars, Running
<1>2. \/ entry' = [entry EXCEPT ![e].portions = Grown(portions)] /\ CanGrow
                /\ dat' = Mark(NewBlock(portions))
      \/ UNCHANGED <<entry, dat>>
  BY DEF StartWrite
<1>3. e \in DOMAIN entry /\ entry[e] \in File /\ seek \in Nat
  BY TablesParts
<1>4. n \in Nat \ {0}
  BY SizesAssumption
<1>5. CallInv'
  <2> HIDE DEF seek, at
  <2> QED BY <1>1, <1>3, <1>4 DEF CallInv, Writing
<1>6. call'.op = "write"
  <2> HIDE DEF seek, at
  <2> QED BY <1>1
<1>7. /\ DOMAIN entry' = DOMAIN entry
      /\ \A x \in DOMAIN entry : entry'[x] \in File /\ entry'[x].name = entry[x].name
      /\ dat' \in [0..DataBlocks-1 -> {0, 1}]
  <2>1. CASE UNCHANGED <<entry, dat>>
    BY <2>1, TablesParts
  <2>2. CASE entry' = [entry EXCEPT ![e].portions = Grown(portions)] /\ CanGrow
             /\ dat' = Mark(NewBlock(portions))
    <3>1. portions \in Seq(Portion)
      BY <1>3, FileParts
    <3>2. Grown(portions) \in Seq(Portion) /\ dat' \in [0..DataBlocks-1 -> {0, 1}]
      <4> HIDE DEF portions
      <4> QED BY <2>2, <3>1, TablesParts, NewBlockType
    <3> HIDE DEF portions, e
    <3> DEFINE f == [entry[e] EXCEPT !.portions = Grown(portions)]
    <3>3. f \in File /\ f.name = entry[e].name
      BY <1>3, <3>2, FileParts DEF File
    <3>4. entry' = [entry EXCEPT ![e] = f]
      BY <2>2
    <3> HIDE DEF f
    <3> QED BY <1>3, <3>2, <3>3, <3>4, FileReplaced
  <2> QED BY <1>2, <2>1, <2>2
<1> QED BY <1>1, <1>5, <1>6, <1>7, TablesParts, TablesKept

\* After a turn of the loop the call goes on from the next position.
LEMMA AdvanceCall ==
  ASSUME TablesInv, Writing, Piece < call.left, NEW at, Advance(at),
         mounted' = mounted, fildes' = fildes
  PROVE  CallInv' /\ call'.op = "write" /\ call'.fd = call.fd /\ call'.at = at
         /\ call'.seek = call.seek + Piece
<1>1. /\ mounted /\ call.fd \in DOMAIN fildes /\ call.version \in Versions
      /\ call = [op |-> "write", fd |-> call.fd, left |-> call.left, seek |-> call.seek,
                 version |-> call.version, at |-> call.at]
      /\ call.seek \in Nat /\ call.left \in Nat \ {0} /\ call.seek + call.left <= MaxSize
      /\ Piece \in Nat \ {0}
  BY WriteParts
<1> DEFINE l == call.left - Piece
           s == call.seek + Piece
<1>2. call' = [op |-> "write", fd |-> call.fd, left |-> l, seek |-> s,
               version |-> call.version, at |-> at]
  <2> DEFINE c1 == [call EXCEPT !.left = l]
             c2 == [c1 EXCEPT !.seek = s]
  <2>1. call = [op |-> "write", fd |-> call.fd, left |-> call.left, seek |-> call.seek,
                version |-> call.version, at |-> call.at]
    BY <1>1
  <2>2. call' = [c2 EXCEPT !.at = at]
    BY Zenon DEF Advance
  <2> HIDE DEF l, s
  <2>3. c1 = [op |-> "write", fd |-> call.fd, left |-> l, seek |-> call.seek,
              version |-> call.version, at |-> call.at]
    BY <2>1
  <2> HIDE DEF c1
  <2>4. c2 = [op |-> "write", fd |-> call.fd, left |-> l, seek |-> s,
              version |-> call.version, at |-> call.at]
    BY <2>3
  <2> HIDE DEF c2
  <2> QED BY <2>2, <2>4
<1>3. /\ call.left - Piece \in Nat \ {0} /\ call.seek + Piece \in Nat
      /\ (call.seek + Piece) + (call.left - Piece) <= MaxSize
  <2>1. /\ call.seek \in Nat /\ call.left \in Nat /\ call.seek + call.left <= MaxSize
        /\ Piece \in Nat \ {0} /\ Piece < call.left /\ MaxSize \in Nat
    BY <1>1, Sizes
  <2> DEFINE p == Piece
             m == call.left
             q == call.seek
  <2>2. q \in Nat /\ m \in Nat /\ q + m <= MaxSize /\ p \in Nat \ {0} /\ p < m /\ MaxSize \in Nat
    BY <2>1
  <2> HIDE DEF p, m, q
  <2>3. m - p \in Nat \ {0} /\ q + p \in Nat /\ (q + p) + (m - p) <= MaxSize
    BY <2>2
  <2> QED BY <2>3 DEF p, m, q
<1>5. l \in Nat \ {0} /\ s \in Nat /\ s + l <= MaxSize
  BY <1>3
<1> HIDE DEF l, s
<1>6. CallInv'
  BY <1>1, <1>2, <1>5 DEF CallInv, Writing
<1> QED BY <1>2, <1>6 DEF s

\* A step of fs_write inside the file's last block changes content and size only.
LEMMA TablesWriteOn == ASSUME TablesInv, WriteOn PROVE TablesInv'
<1>1. /\ Writing /\ Piece < call.left
      /\ Advance(After(entry[WriteSlot].portions, call.at))
      /\ UNCHANGED <<mounted, dat, file_count, entry, fildes, saved>>
  BY DEF WriteOn
<1>2. DOMAIN disk' = BlockNumbers
  BY TablesParts DEF WriteOn, PutPiece
<1>3. CallInv' /\ call'.op = "write"
  BY <1>1, AdvanceCall
<1> QED BY <1>1, <1>2, <1>3, TablesParts, TablesKept

\* A step of fs_write that takes a block changes one row and one entry of the
\* allocation table.
LEMMA TablesWriteGrowing == ASSUME TablesInv, WriteGrowing PROVE TablesInv'
<1> DEFINE portions == entry[WriteSlot].portions
           next == [portion |-> Len(Grown(portions)), block |-> NewBlock(portions)]
           f == [entry[WriteSlot] EXCEPT !.portions = Grown(portions)]
<1>1. /\ Writing /\ Piece < call.left /\ Advance(next) /\ CanGrow
      /\ UNCHANGED <<mounted, file_count, fildes, saved>>
      /\ dat' = Mark(NewBlock(portions))
      /\ entry' = [entry EXCEPT ![WriteSlot] = f]
  BY DEF WriteGrowing
<1>2. DOMAIN disk' = BlockNumbers
  BY TablesParts DEF WriteGrowing, PutPiece
<1>3. CallInv' /\ call'.op = "write"
  <2> HIDE DEF next
  <2> QED BY <1>1, AdvanceCall
<1>4. WriteSlot \in DOMAIN entry /\ entry[WriteSlot] \in File
  BY <1>1, WriteParts
<1>5. portions \in Seq(Portion)
  BY <1>4, FileParts
<1>6. Grown(portions) \in Seq(Portion) /\ dat' \in [0..DataBlocks-1 -> {0, 1}]
  <2> HIDE DEF portions
  <2> QED BY <1>1, <1>5, TablesParts, NewBlockType
<1>7. f \in File /\ f.name = entry[WriteSlot].name
  <2> HIDE DEF portions
  <2> QED BY <1>4, <1>6, FileParts DEF File
<1>8. /\ DOMAIN entry' = DOMAIN entry
      /\ \A x \in DOMAIN entry : entry'[x] \in File /\ entry'[x].name = entry[x].name
  <2> HIDE DEF f
  <2> QED BY <1>1, <1>4, <1>7, FileReplaced
<1> HIDE DEF next, f, portions
<1> QED BY <1>1, <1>2, <1>3, <1>6, <1>8, TablesParts, TablesKept

\* The end of fs_write stores the position and the size it reached.
LEMMA TablesEndWrite == ASSUME TablesInv, EndWrite PROVE TablesInv'
<1> DEFINE size == SizeAfter(entry[WriteSlot].size)
           f == [entry[WriteSlot] EXCEPT !.size = size]
           to == call.seek + Piece
<1>1. /\ Writing /\ call' = Idle
      /\ entry' = [entry EXCEPT ![WriteSlot] = f]
      /\ fildes' = [fildes EXCEPT ![call.fd].seek = to]
      /\ UNCHANGED <<mounted, dat, file_count, saved>>
  BY DEF EndWrite
<1>2. DOMAIN disk' = BlockNumbers
  BY TablesParts DEF EndWrite, PutPiece
<1>3. /\ WriteSlot \in DOMAIN entry /\ entry[WriteSlot] \in File /\ call.fd \in DOMAIN fildes
      /\ call.seek \in Nat /\ Piece \in Nat /\ Piece <= call.left /\ call.left \in Nat
      /\ call.seek + call.left <= MaxSize
  BY <1>1, WriteParts
<1>4. to \in 0..MaxSize
  BY <1>3, Sizes
<1>5. size \in 0..MaxSize
  <2>1. entry[WriteSlot].size \in Nat /\ entry[WriteSlot].size <= MaxSize
    BY <1>3, FileParts
  <2> QED BY <1>4, <2>1, Sizes DEF SizeAfter, Max2
<1>6. f \in File /\ f.name = entry[WriteSlot].name
  <2> HIDE DEF size
  <2> QED BY <1>3, <1>5, FileParts DEF File
<1>7. /\ DOMAIN entry' = DOMAIN entry
      /\ \A x \in DOMAIN entry : entry'[x] \in File /\ entry'[x].name = entry[x].name
  <2> HIDE DEF f
  <2> QED BY <1>1, <1>3, <1>6, FileReplaced
<1>8. /\ DOMAIN fildes' = DOMAIN fildes
      /\ \A g \in DOMAIN fildes' : /\ fildes'[g] \in Handle
                                   /\ fildes'[g].entry = fildes[g].entry
                                   /\ fildes'[g].name = fildes[g].name
  <2> HIDE DEF to
  <2> QED BY <1>1, <1>3, <1>4, HandleMoved
<1>9. CallInv' /\ call'.op = "idle"
  BY <1>1 DEF CallInv, Idle
<1> HIDE DEF f, to, size
<1> QED BY <1>1, <1>2, <1>7, <1>8, <1>9, TablesParts, TablesKept

\* A truncation that begins has a descriptor that is open, and changes no
\* table yet.
LEMMA TablesStartTruncate ==
  ASSUME TablesInv, NEW fd \in DOMAIN fildes, NEW length \in Amounts, StartTruncate(fd, length)
  PROVE  TablesInv'
<1> DEFINE to == Min2(fildes[fd].seek, length)
           e == fildes[fd].entry
<1>1. /\ fildes' = [fildes EXCEPT ![fd].seek = to]
      /\ call' = IF FileOf(fd).size > length
                 THEN [op |-> "truncate", entry |-> e, length |-> length] ELSE Idle
      /\ UNCHANGED <<mounted, dat, file_count, entry, saved, disk>> /\ mounted
  BY DEF StartTruncate, diskVars, Running
<1>2. length \in Nat /\ length <= MaxSize
  <2>1. length <= FileOf(fd).size /\ FileOf(fd).size \in Nat /\ FileOf(fd).size <= MaxSize
    BY TablesParts, FileParts DEF StartTruncate
  <2> QED BY <2>1, Sizes, SizesAssumption
<1>3. to \in 0..MaxSize
  <2>1. fildes[fd].seek \in Nat /\ fildes[fd].seek <= MaxSize
    BY TablesParts
  <2> QED BY <1>2, <2>1, Sizes DEF Min2
<1>4. e \in DOMAIN entry
  BY TablesParts
<1>5. /\ DOMAIN fildes' = DOMAIN fildes
      /\ \A g \in DOMAIN fildes' : /\ fildes'[g] \in Handle
                                   /\ fildes'[g].entry = fildes[g].entry
                                   /\ fildes'[g].name = fildes[g].name
  <2> HIDE DEF to
  <2> QED BY <1>1, <1>3, HandleMoved
<1>6. CallInv' /\ call'.op \in {"idle", "write", "truncate"}
  <2> HIDE DEF e
  <2>1. CASE call' = Idle
    BY <2>1 DEF CallInv, Idle
  <2>2. CASE call' = [op |-> "truncate", entry |-> e, length |-> length]
    BY <1>1, <1>2, <1>4, <2>2 DEF CallInv
  <2> QED BY <1>1, <2>1, <2>2
<1> HIDE DEF to, e
<1> QED BY <1>1, <1>5, <1>6, TablesParts, TablesKept

\* A file that loses a block keeps a list of portions.
LEMMA ShortenedType ==
  ASSUME NEW f \in File
  PROVE  Shortened(f.portions) \in Seq(Portion)
<1> DEFINE ps == f.portions
           n == Len(ps)
<1>1. ps \in Seq(Portion) /\ n \in Nat /\ DOMAIN ps = 1..n
  BY FileParts
<1>2. Front(ps) \in Seq(Portion)
  <2>1. CASE n = 0
    <3>1. ps = <<>>
      BY <1>1, <2>1
    <3> QED BY <3>1 DEF Front
  <2>2. CASE n # 0
    <3> HIDE DEF ps
    <3> QED BY <1>1, <2>2 DEF Front
  <2> QED BY <2>1, <2>2
<1>3. [ps EXCEPT ![n].length = @ - 1] \in Seq(Portion)
  <2>1. CASE n = 0
    <3>1. n \notin DOMAIN ps
      BY <1>1, <2>1
    <3>2. [ps EXCEPT ![n].length = @ - 1] = ps
      BY <1>1, <3>1
    <3> QED BY <1>1, <3>2
  <2>2. CASE n # 0
    <3>1. n \in 1..n /\ ps[n] \in Portion
      BY <1>1, <2>2
    <3>2. [ps[n] EXCEPT !.length = @ - 1] \in Portion
      BY <3>1 DEF Portion
    <3> HIDE DEF Portion
    <3> QED BY <1>1, <3>1, <3>2
  <2> QED BY <2>1, <2>2
<1> QED BY <1>2, <1>3 DEF Shortened

\* The last block of a file of so many bytes has at least one byte of it.
LEMMA LastBlockBytes ==
  ASSUME NEW size \in Nat
  PROVE  BytesInLastBlock(size) \in 1..BlockSize
  BY Sizes DEF BytesInLastBlock

\* A step of fs_truncate shortens one row; its last one stores the size.
LEMMA TablesTruncateOn == ASSUME TablesInv, TruncateOn PROVE TablesInv'
<1> DEFINE e == call.entry
           file == entry[e]
           size == IF FreesBlock(file) THEN Shorter(file) ELSE call.length
           g == [file EXCEPT !.size = size]
           h == [file EXCEPT !.size = size, !.portions = Shortened(file.portions)]
<1>1. /\ call.op = "truncate"
      /\ \/ /\ dat' = [dat EXCEPT ![LastBlock(Last(file.portions)) - FirstBlock] = 0]
            /\ entry' = [entry EXCEPT ![e] = h]
         \/ /\ entry' = [entry EXCEPT ![e] = g]
            /\ UNCHANGED dat
      /\ call' = IF size > call.length THEN call ELSE Idle
      /\ UNCHANGED <<mounted, file_count, fildes, saved, disk>>
  BY DEF TruncateOn, diskVars
<1>2. /\ mounted /\ e \in DOMAIN entry /\ call.length \in Nat /\ file \in File
      /\ call = [op |-> "truncate", entry |-> e, length |-> call.length]
      /\ call.length <= MaxSize /\ file.size \in Nat /\ file.size <= MaxSize
  BY <1>1, CutParts
<1>3. size \in 0..MaxSize
  <2>1. BytesInLastBlock(file.size) \in Nat
    BY <1>2, LastBlockBytes, Sizes
  <2> DEFINE b == BytesInLastBlock(file.size)
             s == file.size
             l == call.length
  <2>2. /\ b \in Nat /\ s \in Nat /\ s <= MaxSize /\ l \in Nat /\ l <= MaxSize
        /\ MaxSize \in Nat
    BY <1>2, <2>1, Sizes
  <2>3. Shorter(file) = s - b /\ (FreesBlock(file) => Shorter(file) >= l)
    BY DEF Shorter, FreesBlock
  <2>4. size = IF FreesBlock(file) THEN s - b ELSE l
    BY <2>3
  <2> HIDE DEF b, s, l, size
  <2> QED BY <2>2, <2>3, <2>4
<1>4. g \in File /\ g.name = file.name
  <2> HIDE DEF size
  <2> QED BY <1>2, <1>3, FileParts DEF File
<1>5. h \in File /\ h.name = file.name
  <2> DEFINE ps == Shortened(file.portions)
  <2>1. ps \in Seq(Portion)
    BY <1>2, ShortenedType
  <2> HIDE DEF ps, size
  <2> QED BY <1>2, <1>3, <2>1 DEF ps, File
<1>6. /\ DOMAIN entry' = DOMAIN entry
      /\ \A x \in DOMAIN entry : entry'[x] \in File /\ entry'[x].name = entry[x].name
  <2> HIDE DEF g, h, file
  <2>1. CASE entry' = [entry EXCEPT ![e] = g]
    BY <1>2, <1>4, <2>1, FileReplaced DEF file
  <2>2. CASE entry' = [entry EXCEPT ![e] = h]
    BY <1>2, <1>5, <2>2, FileReplaced DEF file
  <2> QED BY <1>1, <2>1, <2>2
<1>7. dat' \in [0..DataBlocks-1 -> {0, 1}]
  <2>1. dat \in [0..DataBlocks-1 -> {0, 1}]
    BY TablesParts
  <2> QED BY <1>1, <2>1
<1>8. CallInv' /\ call'.op \in {"idle", "write", "truncate"}
  <2>1. CASE call' = Idle
    BY <2>1 DEF CallInv, Idle
  <2>2. CASE call' = call
    <3>1. /\ mounted' /\ call'.entry \in DOMAIN entry' /\ call'.length \in Nat
          /\ call'.length <= MaxSize /\ call'.op = "truncate"
          /\ call' = [op |-> "truncate", entry |-> call'.entry, length |-> call'.length]
      <4>1. call.length <= MaxSize
        BY <1>1, CutParts
      <4> HIDE DEF g, h, file
      <4> QED BY <1>1, <1>2, <1>6, <2>2, <4>1
    <3> QED BY <3>1 DEF CallInv
  <2> HIDE DEF size
  <2> QED BY <1>1, <2>1, <2>2
<1>9. \A x \in DOMAIN fildes : fildes[x] \in Handle
  BY TablesParts
<1>10. DOMAIN disk = BlockNumbers
  BY TablesParts
<1>11. UNCHANGED <<mounted, file_count, fildes, saved, disk>>
  BY <1>1
<1> QED BY <1>6, <1>7, <1>8, <1>9, <1>10, <1>11, TablesKept

\* Every step keeps the tables in order.
LEMMA TablesStep == TablesInv /\ [Next]_vars => TablesInv'
<1> SUFFICES ASSUME TablesInv, [Next]_vars PROVE TablesInv'
  OBVIOUS
<1>1. CASE Next
  <2>1. ASSUME NEW n \in Names, Create(n) \/ Delete(n) \/ Open(n) PROVE TablesInv'
    BY <2>1, TablesCreate, TablesDelete, TablesOpen
  <2>2. ASSUME NEW fd \in DOMAIN fildes,
               \/ Close(fd)
               \/ \E n \in Amounts \ {0} :
                    Read(fd, n) \/ \E v \in Versions : StartWrite(fd, n, v)
               \/ \E n \in Amounts : Lseek(fd, n) \/ StartTruncate(fd, n)
        PROVE  TablesInv'
    <3>1. CASE Close(fd)
      BY <3>1, TablesClose
    <3>2. ASSUME NEW n \in Amounts \ {0}, Read(fd, n) PROVE TablesInv'
      BY <3>2, TablesRead
    <3>3. ASSUME NEW n \in Amounts \ {0}, NEW v \in Versions, StartWrite(fd, n, v)
          PROVE  TablesInv'
      BY <3>3, TablesStartWrite
    <3>4. ASSUME NEW n \in Amounts, Lseek(fd, n) \/ StartTruncate(fd, n) PROVE TablesInv'
      BY <3>4, TablesLseek, TablesStartTruncate
    <3> QED BY <2>2, <3>1, <3>2, <3>3, <3>4
  <2>3. CASE MakeFs \/ Mount \/ Umount \/ Exit
    BY <2>3, TablesMakeFs, TablesMount, TablesUmount, TablesExit
  <2>4. CASE WriteOn \/ WriteGrowing \/ EndWrite \/ TruncateOn
    BY <2>4, TablesWriteOn, TablesWriteGrowing, TablesEndWrite, TablesTruncateOn
  <2> QED BY <1>1, <2>1, <2>2, <2>3, <2>4 DEF Next
<1>2. CASE UNCHANGED vars
  <2>1. UNCHANGED <<mounted, dat, file_count, entry, fildes, call, saved, disk>>
    BY <1>2 DEF vars, memoryVars, diskVars
  <2>2. CallInv' /\ call'.op \in {"idle", "write", "truncate"}
    BY <2>1 DEF TablesInv, CallInv, TypeOK, Writing
  <2> QED BY <2>1, <2>2, TablesParts, TablesKept
<1> QED BY <1>1, <1>2

\* TablesInv is an inductive invariant: it holds in every state a run reaches.
LEMMA TablesAlways == Spec => []TablesInv
  BY TablesInit, TablesStep, PTL DEF Spec

\* The tables and the call in progress have their types in every state,
\* also after the portions of a file were read back wrong.
THEOREM TypesKept == Spec => []TypeOK
<1>1. TablesInv => TypeOK
  BY DEF TablesInv
<1> QED BY <1>1, TablesAlways, PTL

\* A descriptor refers to the file it was opened for: a file that is open is
\* not deleted, and no other file takes its row or its name.
THEOREM DescriptorsStayValid == Spec => []DescriptorsValid
<1>1. TablesInv => DescriptorsValid
  <2> SUFFICES ASSUME TablesInv, NEW fd \in DOMAIN fildes
               PROVE  /\ fildes[fd].entry \in DOMAIN entry
                      /\ entry[fildes[fd].entry].name = fildes[fd].name
                      /\ SlotsOf(fildes[fd].name) = {fildes[fd].entry}
    BY DEF DescriptorsValid
  <2>1. /\ fildes[fd].entry \in DOMAIN entry
        /\ entry[fildes[fd].entry].name = fildes[fd].name
        /\ \A e, f \in DOMAIN entry : entry[e].name = entry[f].name => e = f
    BY TablesParts
  <2> QED BY <2>1 DEF SlotsOf
<1> QED BY <1>1, TablesAlways, PTL

\* The blocks before a portion and its first ones are as many as they look:
\* none is counted twice.
LEMMA CountTo ==
  ASSUME NEW ps, Tidy(ps), NEW k \in 1..Len(ps), NEW m \in Int,
         ps[k].start - 1 <= m, m <= LastBlock(ps[k])
  PROVE  /\ IsFiniteSet(Before(ps, k)) /\ Cardinality(Before(ps, k)) \in Nat
         /\ Cardinality(Before(ps, k) \cup (ps[k].start..m))
              = Cardinality(Before(ps, k)) + (m - ps[k].start + 1)
<1> DEFINE first == ps[k].start
           B == Before(ps, k)
           T == first..m
<1>1. first \in Int /\ LastBlock(ps[k]) \in Int /\ k \in Int
  BY TidyParts DEF LastBlock
<1>2. IsFiniteSet(B) /\ Cardinality(B) \in Nat
  <2>1. k \in 1..Len(ps)+1
    BY TidyParts
  <2>2. B \subseteq SetOfBlocks(ps)
    BY <2>1, TidyFinite
  <2> HIDE DEF B
  <2> QED BY <2>2, TidyFinite, FS_Subset, FS_CardinalityType
<1>3. IsFiniteSet(T) /\ Cardinality(T) = m - first + 1
  <2>1. IsFiniteSet(T) /\ Cardinality(T) = IF first > m THEN 0 ELSE m - first + 1
    <3> HIDE DEF first
    <3> QED BY <1>1, FS_Interval
  <2>2. first - 1 <= m
    OBVIOUS
  <2> HIDE DEF first, T
  <2> QED BY <1>1, <2>1, <2>2
<1>4. B \cap T = {}
  <2>1. T \subseteq BlocksOf(ps[k])
    <3>1. \A b : b \in BlocksOf(ps[k]) <=> b \in Int /\ first <= b /\ b <= LastBlock(ps[k])
      BY TidyParts
    <3> DEFINE x == LastBlock(ps[k])
               BO == BlocksOf(ps[k])
    <3>2. \A b \in T : b \in Int /\ first <= b /\ b <= m /\ m <= x /\ x \in Int
      BY <1>1
    <3>3. \A b \in T : b \in Int /\ first <= b /\ b <= x
      <4> HIDE DEF x, T, first
      <4> QED BY <1>1, <3>2
    <3> HIDE DEF BO, T, first
    <3> QED BY <3>1, <3>3
  <2>2. B \cap BlocksOf(ps[k]) = {}
    <3>1. \A l \in 1..k-1 : l \in 1..Len(ps) /\ l # k
      BY <1>1, TidyParts
    <3> QED BY <3>1 DEF Before, Tidy
  <2> HIDE DEF B, T
  <2> QED BY <2>1, <2>2
<1>5. Cardinality(B \cup T) = Cardinality(B) + Cardinality(T) - Cardinality({})
  <2> HIDE DEF B, T
  <2> QED BY <1>2, <1>3, <1>4, FS_Union
<1>6. Cardinality({}) = 0
  BY FS_EmptySet
<1> HIDE DEF B, T, first
<1> QED BY <1>1, <1>2, <1>3, <1>5, <1>6 DEF B, T, first

\* A portion adds its length to the number of blocks.
LEMMA BeforeNext ==
  ASSUME NEW ps, Tidy(ps), NEW k \in 1..Len(ps)
  PROVE  /\ Cardinality(Before(ps, k)) \in Nat
         /\ Before(ps, k + 1) = Before(ps, k) \cup BlocksOf(ps[k])
         /\ Cardinality(Before(ps, k + 1)) = Cardinality(Before(ps, k)) + ps[k].length
<1>1. /\ ps[k].start \in Int /\ ps[k].length \in Int /\ ps[k].length > 0 /\ k \in Int
      /\ LastBlock(ps[k]) = ps[k].start + ps[k].length - 1
      /\ LastBlock(ps[k]) \in Int
  <2>1. ps[k].start \in Int /\ ps[k].length \in Int /\ k \in Int
    BY TidyParts
  <2>2. ps[k].length > 0
    BY DEF Tidy
  <2> QED BY <2>1, <2>2 DEF LastBlock
<1>2. ps[k].start - 1 <= LastBlock(ps[k]) /\ LastBlock(ps[k]) <= LastBlock(ps[k])
  BY <1>1
<1>3. Before(ps, k + 1) = Before(ps, k) \cup (ps[k].start..LastBlock(ps[k]))
  <2>1. \A l : l \in 1..(k+1)-1 <=> l \in 1..k-1 \/ l = k
    BY <1>1
  <2>2. BlocksOf(ps[k]) = ps[k].start..LastBlock(ps[k])
    BY DEF BlocksOf, LastBlock
  <2> QED BY <2>1, <2>2 DEF Before
<1>4. /\ Cardinality(Before(ps, k)) \in Nat
      /\ Cardinality(Before(ps, k + 1))
           = Cardinality(Before(ps, k)) + (LastBlock(ps[k]) - ps[k].start + 1)
  <2> DEFINE m == LastBlock(ps[k])
  <2>1. m \in Int /\ ps[k].start - 1 <= m /\ m <= LastBlock(ps[k])
    BY <1>1, <1>2
  <2> HIDE DEF m
  <2>2. /\ Cardinality(Before(ps, k)) \in Nat
        /\ Cardinality(Before(ps, k) \cup (ps[k].start..m))
             = Cardinality(Before(ps, k)) + (m - ps[k].start + 1)
    BY <2>1, CountTo
  <2> QED BY <1>3, <2>2 DEF m
<1>5. LastBlock(ps[k]) - ps[k].start + 1 = ps[k].length
  BY <1>1
<1>6. BlocksOf(ps[k]) = ps[k].start..LastBlock(ps[k])
  BY DEF BlocksOf, LastBlock
<1> QED BY <1>3, <1>4, <1>5, <1>6

\* Before the first portion there is no block, after the last one there are all.
LEMMA BeforeEnds ==
  ASSUME NEW ps, Tidy(ps)
  PROVE  /\ Before(ps, 1) = {} /\ Cardinality(Before(ps, 1)) = 0
         /\ Before(ps, Len(ps) + 1) = SetOfBlocks(ps)
<1>1. 1..1-1 = {}
  OBVIOUS
<1>2. Before(ps, 1) = {}
  BY <1>1 DEF Before
<1>3. \A l : l \in 1..(Len(ps)+1)-1 <=> l \in 1..Len(ps)
  BY TidyParts
<1>4. Before(ps, Len(ps) + 1) = SetOfBlocks(ps)
  BY <1>3, TidyParts DEF Before
<1> QED BY <1>2, <1>4, FS_EmptySet

\* One turn of the loop that looks for a block.
Turn(ps, at) ==
  IF at.portion <= Len(ps) /\ at.blocks >= ps[at.portion].length
  THEN [portion |-> at.portion + 1, blocks |-> at.blocks - ps[at.portion].length]
  ELSE at

\* Walk does as many turns as there are portions.
LEMMA WalkTurns ==
  ASSUME NEW ps, Tidy(ps), NEW n \in Nat
  PROVE  \E f \in [0..Len(ps) -> [portion : Nat \ {0}, blocks : Int]] :
           /\ f[0] = [portion |-> 1, blocks |-> n]
           /\ \A t \in 1..Len(ps) : f[t] = Turn(ps, f[t - 1])
           /\ Walk(ps, n) = [portion |-> f[Len(ps)].portion,
                             block   |-> ps[f[Len(ps)].portion].start + f[Len(ps)].blocks]
<1> DEFINE L == Len(ps)
           S == [portion : Nat \ {0}, blocks : Int]
           first == [portion |-> 1, blocks |-> n]
           next == [t \in 1..L |-> [at \in S |-> Turn(ps, at)]]
           Is(f) == f = [t \in 0..L |->
                           IF t = 0 THEN [portion |-> 1, blocks |-> n]
                           ELSE IF f[t - 1].portion <= L /\ f[t - 1].blocks >= ps[f[t - 1].portion].length
                           THEN [portion |-> f[t - 1].portion + 1,
                                 blocks  |-> f[t - 1].blocks - ps[f[t - 1].portion].length]
                           ELSE f[t - 1]]
<1>1. L \in Nat /\ first \in S
  BY TidyParts
<1>2. next \in [1..L -> [S -> S]]
  <2>1. ASSUME NEW at \in S PROVE Turn(ps, at) \in S
    <3>1. CASE at.portion <= L /\ at.blocks >= ps[at.portion].length
      <4>1. at.portion \in 1..L /\ ps[at.portion].length \in Int
        BY <1>1, <2>1, <3>1, TidyParts
      <4> QED BY <2>1, <3>1, <4>1 DEF Turn
    <3>2. CASE ~(at.portion <= L /\ at.blocks >= ps[at.portion].length)
      BY <3>2, <2>1 DEF Turn
    <3> QED BY <3>1, <3>2
  <2> HIDE DEF S
  <2> QED BY <2>1
<1>3. PICK f \in [0..L -> S] : Stepwise(f, L, first, next)
  <2> HIDE DEF next, first, S, L
  <2> QED BY <1>1, <1>2, RecursionExists
<1>4. f[0] = first /\ \A t \in 1..L : f[t] = Turn(ps, f[t - 1])
  <2>1. f[0] = first /\ \A t \in 1..L : f[t] = next[t][f[t - 1]]
    <3> HIDE DEF next, first, S, L
    <3> QED BY <1>3 DEF Stepwise
  <2>2. \A t \in 1..L : f[t - 1] \in S
    <3> HIDE DEF next, first, S, L
    <3> QED BY <1>1, <1>3
  <2> HIDE DEF S, first
  <2> QED BY <2>1, <2>2
<1>5. Is(f)
  <2>1. \A t \in 0..L : t # 0 => t \in 1..L
    BY <1>1
  <2>2. f = [t \in 0..L |-> IF t = 0 THEN first ELSE Turn(ps, f[t - 1])]
    <3> HIDE DEF S, L, first
    <3> QED BY <1>3, <1>4, <2>1
  <2> QED BY <2>2 DEF Turn
<1>6. ASSUME NEW g, Is(g) PROVE g = f
  <2>1. DOMAIN g = 0..L /\ g[0] = first
    BY <1>1, <1>6
  <2>2. \A t \in 1..L : g[t] = Turn(ps, g[t - 1])
    <3>1. \A t \in 1..L : t \in 0..L /\ t # 0
      BY <1>1
    <3> QED BY <1>6, <3>1 DEF Turn
  <2> DEFINE G == {t \in 0..L : g[t] = f[t]}
  <2>3. 0 \in G
    BY <1>1, <1>4, <2>1
  <2>4. ASSUME NEW m \in 0..L-1, m \in G PROVE m + 1 \in G
    <3>1. m + 1 \in 1..L /\ m + 1 \in 0..L /\ (m + 1) - 1 = m
      BY <1>1, <2>4
    <3>2. g[m + 1] = Turn(ps, g[m]) /\ f[m + 1] = Turn(ps, f[m])
      <4> HIDE DEF S, first, L
      <4> QED BY <1>4, <2>2, <3>1
    <3> QED BY <2>4, <3>1, <3>2
  <2>5. 0..L \subseteq G
    <3> HIDE DEF G, L
    <3> QED BY <1>1, <2>3, <2>4, UpToInduction
  <2>6. g = [t \in 0..L |-> g[t]]
    BY <1>6, <2>1
  <2> HIDE DEF S, first, L
  <2> QED BY <1>3, <2>1, <2>5, <2>6
<1>7. (CHOOSE g : Is(g)) = f
  <2> HIDE DEF Is
  <2> QED BY <1>5, <1>6
<1>8. Walk(ps, n) = [portion |-> f[L].portion, block |-> ps[f[L].portion].start + f[L].blocks]
  BY <1>7 DEF Walk
<1> QED BY <1>4, <1>8

\* The block number n of a file that has more than n blocks is in one of its
\* portions, and n blocks come before it.
LEMMA WalkFinds ==
  ASSUME NEW ps, Tidy(ps), NEW n \in Nat, n < Cardinality(SetOfBlocks(ps))
  PROVE  /\ Walk(ps, n) \in [portion : Int, block : Int] /\ At(ps, Walk(ps, n))
         /\ Cardinality(UpTo(ps, Walk(ps, n))) = n + 1
<1> DEFINE L == Len(ps)
<1>1. PICK f \in [0..L -> [portion : Nat \ {0}, blocks : Int]] :
           /\ f[0] = [portion |-> 1, blocks |-> n]
           /\ \A t \in 1..L : f[t] = Turn(ps, f[t - 1])
           /\ Walk(ps, n) = [portion |-> f[L].portion, block |-> ps[f[L].portion].start + f[L].blocks]
  BY WalkTurns
<1>2. L \in Nat /\ \A k \in 1..L : ps[k].length \in Int
  BY TidyParts
<1> DEFINE In(at)   == at.portion \in 1..L /\ at.blocks < ps[at.portion].length
           Good(t)  == /\ f[t].portion \in 1..L+1 /\ f[t].blocks \in Nat
                       /\ Cardinality(Before(ps, f[t].portion)) + f[t].blocks = n
                       /\ f[t].portion = t + 1 \/ In(f[t])
           G == {t \in 0..L : Good(t)}
<1>3. Good(0)
  <2>1. f[0].portion = 1 /\ f[0].blocks = n
    BY <1>1
  <2> QED BY <1>2, <2>1, BeforeEnds
<1>4. ASSUME NEW t \in 0..L-1, Good(t) PROVE Good(t + 1)
  <2>1. t + 1 \in 1..L /\ (t + 1) - 1 = t /\ t \in 0..L /\ t \in Nat
    BY <1>2, <1>4
  <2>2. f[t + 1] = Turn(ps, f[t])
    <3> HIDE DEF L
    <3> QED BY <1>1, <2>1
  <2> DEFINE k == f[t].portion
             b == f[t].blocks
  <2>3. k \in Nat \ {0} /\ b \in Nat /\ k \in 1..L+1
    BY <1>1, <1>4, <2>1
  <2>4. CASE k <= L /\ b >= ps[k].length
    <3>1. f[t + 1] = [portion |-> k + 1, blocks |-> b - ps[k].length]
      BY <2>2, <2>4 DEF Turn
    <3>2. f[t + 1].portion = k + 1 /\ f[t + 1].blocks = b - ps[k].length
      BY <3>1
    <3>3. k \in 1..L /\ ps[k].length \in Int
      BY <1>2, <2>3, <2>4
    <3>4. ~In(f[t])
      BY <1>2, <2>3, <2>4, <3>3
    <3>5. k = t + 1
      BY <1>4, <3>4
    <3>6. /\ Cardinality(Before(ps, k)) \in Nat
          /\ Cardinality(Before(ps, k + 1)) = Cardinality(Before(ps, k)) + ps[k].length
      BY <3>3, BeforeNext
    <3>7. Cardinality(Before(ps, k)) + b = n
      BY <1>4
    <3> DEFINE c == Cardinality(Before(ps, k))
               d == Cardinality(Before(ps, k + 1))
               l == ps[k].length
    <3>8. d + (b - l) = n /\ b - l \in Nat
      <4>1. c \in Nat /\ d = c + l /\ c + b = n /\ b \in Nat /\ l \in Int /\ b >= l
        BY <2>3, <2>4, <3>3, <3>6, <3>7
      <4> HIDE DEF c, d, b, l
      <4> QED BY <4>1
    <3>9. k + 1 \in 1..L+1 /\ k + 1 = (t + 1) + 1
      BY <1>2, <3>3, <3>5
    <3> QED BY <3>2, <3>8, <3>9
  <2>5. CASE ~(k <= L /\ b >= ps[k].length)
    <3>1. f[t + 1] = f[t]
      BY <2>2, <2>5 DEF Turn
    <3>2. In(f[t])
      <4>1. CASE In(f[t])
        BY <4>1
      <4>2. CASE k = t + 1
        <5>1. k \in 1..L /\ ps[k].length \in Int
          BY <1>2, <2>1, <4>2
        <5> QED BY <1>2, <2>3, <2>5, <5>1
      <4> QED BY <1>4, <4>1, <4>2
    <3> HIDE DEF In
    <3> QED BY <1>4, <3>1, <3>2
  <2> QED BY <2>4, <2>5
<1>5. 0..L \subseteq G
  <2>1. 0 \in G /\ \A t \in 0..L-1 : t \in G => t + 1 \in G
    <3> HIDE DEF Good
    <3> QED BY <1>2, <1>3, <1>4
  <2> HIDE DEF G, L
  <2> QED BY <1>2, <2>1, UpToInduction
<1>6. Good(L)
  <2> HIDE DEF Good
  <2> QED BY <1>2, <1>5
<1> DEFINE k == f[L].portion
           b == f[L].blocks
           w == Walk(ps, n)
<1>7. In(f[L])
  <2> SUFFICES ASSUME k = L + 1 PROVE FALSE
    BY <1>6
  <2>1. Cardinality(SetOfBlocks(ps)) + b = n /\ b \in Nat
    BY <1>6, BeforeEnds
  <2>2. Cardinality(SetOfBlocks(ps)) \in Nat
    BY TidyFinite
  <2> HIDE DEF b
  <2> QED BY <2>1, <2>2
<1>8. /\ k \in 1..L /\ b \in Nat /\ b < ps[k].length /\ Cardinality(Before(ps, k)) + b = n
      /\ ps[k].start \in Int /\ ps[k].length \in Int
  BY <1>6, <1>7, TidyParts
<1>9. w.portion = k /\ w.block = ps[k].start + b /\ w = [portion |-> k, block |-> ps[k].start + b]
  BY <1>1
<1> HIDE DEF w
<1>10. w \in [portion : Int, block : Int]
  BY <1>8, <1>9
<1> DEFINE m == ps[k].start + b
<1>11. m \in Int /\ ps[k].start - 1 <= m /\ m <= LastBlock(ps[k]) /\ ps[k].start <= m
  BY <1>8 DEF LastBlock
<1>12. At(ps, w)
  BY <1>8, <1>9, <1>11, TidyParts DEF At
<1>13. UpTo(ps, w) = Before(ps, k) \cup (ps[k].start..m)
  BY <1>9 DEF UpTo
<1>14. /\ Cardinality(Before(ps, k)) \in Nat
       /\ Cardinality(UpTo(ps, w)) = Cardinality(Before(ps, k)) + (m - ps[k].start + 1)
  <2> HIDE DEF k, m
  <2> QED BY <1>8, <1>11, <1>13, CountTo
<1>15. Cardinality(UpTo(ps, w)) = n + 1
  <2> DEFINE c == Cardinality(Before(ps, k))
             s == ps[k].start
  <2>1. /\ c \in Nat /\ s \in Int /\ b \in Nat /\ m = s + b /\ c + b = n
        /\ Cardinality(UpTo(ps, w)) = c + (m - s + 1)
    BY <1>8, <1>14
  <2> HIDE DEF c, s, b, m
  <2> QED BY <2>1
<1> QED BY <1>10, <1>12, <1>15 DEF w

\* The blocks that an allocation table has in use.
MarkedBlocks(marks) == {b \in BlockNumbers : marks[b - FirstBlock] = 1}

\* The places before number n of a list that ends at n or one place before.
LEMMA PlacesBefore ==
  ASSUME NEW m \in Nat, NEW n \in Nat \ {0}, n = m \/ n = m + 1
  PROVE  /\ \A k \in 1..n-1 : k \in 1..m /\ k # n
         /\ n # m => n = m + 1 /\ \A k \in 1..m : k \in 1..n-1
  OBVIOUS

\* A tidy list that gets one more block at its end is tidy: the block is in
\* the last portion, which may be new.
LEMMA OneMore ==
  ASSUME NEW ps, Tidy(ps), NEW b \in BlockNumbers, b \notin SetOfBlocks(ps),
         NEW q \in Seq(Portion), NEW n \in Nat \ {0}, Len(q) = n,
         n = Len(ps) \/ n = Len(ps) + 1,
         \A k \in 1..n-1 : q[k] = ps[k],
         q[n].length > 0, LastBlock(q[n]) = b,
         BlocksOf(q[n]) = (IF n = Len(ps) THEN BlocksOf(ps[n]) ELSE {}) \cup {b}
  PROVE  /\ Tidy(q) /\ SetOfBlocks(q) = SetOfBlocks(ps) \cup {b}
         /\ Cardinality(SetOfBlocks(q)) = Cardinality(SetOfBlocks(ps)) + 1
         /\ At(q, [portion |-> n, block |-> b]) /\ IsLast(q, [portion |-> n, block |-> b])
<1> DEFINE X == IF n = Len(ps) THEN BlocksOf(ps[n]) ELSE {}
<1>1. /\ Len(ps) \in Nat /\ DOMAIN ps = 1..Len(ps)
      /\ \A x : x \in SetOfBlocks(ps) <=> \E k \in 1..Len(ps) : x \in BlocksOf(ps[k])
  BY TidyParts
<1>2. /\ \A k \in 1..Len(ps) :
           /\ ps[k].length > 0
           /\ BlocksOf(ps[k]) \subseteq BlockNumbers
           /\ \A l \in 1..Len(ps) : l # k => BlocksOf(ps[k]) \cap BlocksOf(ps[l]) = {}
  BY DEF Tidy
<1>3. /\ \A k \in 1..n-1 : k \in 1..Len(ps) /\ k # n
      /\ n # Len(ps) => \A k \in 1..Len(ps) : k \in 1..n-1
  BY <1>1, PlacesBefore
<1>4. \A k \in 1..n : k # n => k \in 1..n-1
  OBVIOUS
<1>5. X \subseteq BlockNumbers /\ \A k \in 1..n-1 : BlocksOf(ps[k]) \cap X = {}
  <2>1. CASE n = Len(ps)
    <3>1. n \in 1..Len(ps) /\ X = BlocksOf(ps[n])
      BY <2>1
    <3> HIDE DEF X
    <3> QED BY <1>2, <1>3, <3>1
  <2>2. CASE n # Len(ps)
    BY <2>2
  <2> QED BY <2>1, <2>2
<1>6. \A k \in 1..n-1 : b \notin BlocksOf(ps[k])
  BY <1>1, <1>3
<1>7. BlocksOf(q[n]) = X \cup {b}
  OBVIOUS
<1> HIDE DEF X
<1>8. \A k \in 1..n-1 : /\ q[k].length > 0 /\ BlocksOf(q[k]) \subseteq BlockNumbers
                        /\ BlocksOf(q[k]) \cap BlocksOf(q[n]) = {}
                        /\ \A l \in 1..n-1 : l # k => BlocksOf(q[k]) \cap BlocksOf(q[l]) = {}
  <2> TAKE k \in 1..n-1
  <2>1. q[k] = ps[k] /\ k \in 1..Len(ps)
    BY <1>3
  <2>2. BlocksOf(q[k]) \cap BlocksOf(q[n]) = {}
    BY <1>5, <1>6, <1>7, <2>1
  <2>3. \A l \in 1..n-1 : l # k => BlocksOf(q[k]) \cap BlocksOf(q[l]) = {}
    BY <1>2, <1>3, <2>1
  <2> QED BY <1>2, <2>1, <2>2, <2>3
<1>9. Tidy(q)
  <2>1. BlocksOf(q[n]) \subseteq BlockNumbers
    BY <1>5, <1>7
  <2>2. ASSUME NEW k \in 1..n
        PROVE  /\ q[k].length > 0 /\ BlocksOf(q[k]) \subseteq BlockNumbers
               /\ \A l \in 1..n : l # k => BlocksOf(q[k]) \cap BlocksOf(q[l]) = {}
    <3>1. CASE k = n
      BY <1>4, <1>8, <2>1, <3>1
    <3>2. CASE k # n
      BY <1>4, <1>8, <3>2
    <3> QED BY <3>1, <3>2
  <2> QED BY <2>2 DEF Tidy
<1>10. SetOfBlocks(q) = SetOfBlocks(ps) \cup {b}
  <2>1. \A x : x \in SetOfBlocks(q) <=> \E k \in 1..n : x \in BlocksOf(q[k])
    BY <1>9, TidyParts
  <2>2. \A x : x \in SetOfBlocks(q) <=> x \in X \/ x = b \/ \E k \in 1..n-1 : x \in BlocksOf(ps[k])
    <3>1. n \in 1..n /\ \A k \in 1..n-1 : k \in 1..n
      OBVIOUS
    <3> QED BY <1>4, <1>7, <2>1, <3>1
  <2>3. \A x : x \in SetOfBlocks(ps) <=> x \in X \/ \E k \in 1..n-1 : x \in BlocksOf(ps[k])
    <3>1. CASE n = Len(ps)
      <4>1. X = BlocksOf(ps[n]) /\ n \in 1..Len(ps) /\ \A k \in 1..Len(ps) : k # n => k \in 1..n-1
        BY <3>1 DEF X
      <4> QED BY <1>1, <1>3, <4>1
    <3>2. CASE n # Len(ps)
      <4>1. X = {}
        BY <3>2 DEF X
      <4> QED BY <1>1, <1>3, <3>2, <4>1
    <3> QED BY <3>1, <3>2
  <2> QED BY <2>2, <2>3
<1>11. Cardinality(SetOfBlocks(q)) = Cardinality(SetOfBlocks(ps)) + 1
  <2> DEFINE S == SetOfBlocks(ps)
  <2>1. IsFiniteSet(S) /\ b \notin S /\ SetOfBlocks(q) = S \cup {b}
    BY <1>10, TidyFinite
  <2>2. Cardinality(S \cup {b}) = Cardinality(S) + 1
    <3> HIDE DEF S
    <3> QED BY <2>1, FS_AddElement
  <2> QED BY <2>1, <2>2
<1>12. b \in BlocksOf(q[n]) /\ n \in 1..n
  BY <1>7
<1> QED BY <1>9, <1>10, <1>11, <1>12 DEF At, IsLast

\* A file whose blocks are marked grows by a block that was free.
LEMMA GrownIs ==
  ASSUME NEW ps, Tidy(ps), SetOfBlocks(ps) \subseteq MarkedBlocks(dat), CanGrow,
         dat \in [0..DataBlocks-1 -> {0, 1}], NEW b, b = NewBlock(ps),
         NEW q, q = Grown(ps), NEW at, at = [portion |-> Len(q), block |-> b]
  PROVE  /\ b \in BlockNumbers /\ dat[b - FirstBlock] = 0 /\ b \notin SetOfBlocks(ps)
         /\ Tidy(q) /\ SetOfBlocks(q) = SetOfBlocks(ps) \cup {b}
         /\ Cardinality(SetOfBlocks(q)) = Cardinality(SetOfBlocks(ps)) + 1
         /\ at \in [portion : Int, block : Int] /\ At(q, at) /\ IsLast(q, at)
<1>1. ps \in Seq(Portion) /\ Len(ps) \in Nat
  BY DEF Tidy
<1>2. b \in BlockNumbers /\ b \in Int /\ dat[b - FirstBlock] = 0 /\ q \in Seq(Portion)
  BY <1>1, NewBlockType
<1>3. b \notin SetOfBlocks(ps)
  BY <1>2 DEF MarkedBlocks
<1> SUFFICES ASSUME TRUE
             PROVE  /\ Tidy(q) /\ SetOfBlocks(q) = SetOfBlocks(ps) \cup {b}
                    /\ Cardinality(SetOfBlocks(q)) = Cardinality(SetOfBlocks(ps)) + 1
                    /\ Len(q) \in Nat /\ At(q, at) /\ IsLast(q, at)
  BY <1>2, <1>3
<1>4. CASE Contiguous(ps)
  <2> DEFINE n == Len(ps)
             p == [ps[n] EXCEPT !.length = ps[n].length + 1]
  <2>1. n \in 1..n /\ ps # <<>> /\ b = LastBlock(ps[n]) + 1
    BY <1>1, <1>4 DEF Contiguous, NewBlock, NextBlock
  <2>2. q = [ps EXCEPT ![n] = p]
    BY <1>4 DEF Grown
  <2>3. ps[n] \in Portion
    BY <1>1, <2>1
  <2>4. ps[n].start \in Int /\ ps[n].length \in Int
    BY <2>3 DEF Portion
  <2>5. ps[n].length > 0
    BY <2>1 DEF Tidy
  <2>6. p.start = ps[n].start /\ p.length = ps[n].length + 1
    BY <2>3 DEF Portion
  <2>7. Len(q) = n /\ q[n] = p /\ \A k \in 1..n-1 : q[k] = ps[k]
    <3> HIDE DEF p
    <3> QED BY <1>1, <2>1, <2>2
  <2>8. q[n].start = ps[n].start /\ q[n].length = ps[n].length + 1
    BY <2>6, <2>7
  <2> HIDE DEF p
  <2>9. q[n].length > 0 /\ LastBlock(q[n]) = b
    BY <2>1, <2>4, <2>5, <2>8 DEF LastBlock
  <2>10. BlocksOf(q[n]) = BlocksOf(ps[n]) \cup {b}
    BY <2>1, <2>4, <2>5, <2>8 DEF LastBlock, BlocksOf
  <2>11. BlocksOf(q[n]) = (IF n = Len(ps) THEN BlocksOf(ps[n]) ELSE {}) \cup {b}
    BY <2>10
  <2>12. n \in Nat \ {0} /\ n = Len(ps)
    BY <1>1, <2>1
  <2> HIDE DEF n
  <2> QED BY <1>2, <1>3, <2>7, <2>9, <2>11, <2>12, OneMore
<1>5. CASE ~Contiguous(ps)
  <2> DEFINE n == Len(ps) + 1
             p == [start |-> b, length |-> 1]
  <2>1. q = Append(ps, p)
    BY <1>5 DEF Grown
  <2>2. p \in Portion
    BY <1>2 DEF Portion
  <2>3. Len(q) = n /\ q[n] = p /\ \A k \in 1..n-1 : q[k] = ps[k]
    <3> HIDE DEF p
    <3> QED BY <1>1, <2>1, <2>2
  <2>4. q[n].start = b /\ q[n].length = 1
    BY <2>3
  <2>5. q[n].length > 0 /\ LastBlock(q[n]) = b /\ BlocksOf(q[n]) = {b}
    BY <1>2, <2>4 DEF LastBlock, BlocksOf
  <2>6. n \in Nat \ {0} /\ n # Len(ps) /\ n = Len(ps) + 1
    BY <1>1
  <2>7. BlocksOf(q[n]) = (IF n = Len(ps) THEN BlocksOf(ps[n]) ELSE {}) \cup {b}
    BY <2>5, <2>6
  <2>8. n = Len(ps) \/ n = Len(ps) + 1
    OBVIOUS
  <2> HIDE DEF n, p
  <2>9. /\ Tidy(q) /\ SetOfBlocks(q) = SetOfBlocks(ps) \cup {b}
        /\ Cardinality(SetOfBlocks(q)) = Cardinality(SetOfBlocks(ps)) + 1
        /\ At(q, [portion |-> n, block |-> b]) /\ IsLast(q, [portion |-> n, block |-> b])
    <3>1. n \in Nat \ {0} /\ q[n].length > 0 /\ LastBlock(q[n]) = b
      BY <2>5, <2>6
    <3>2. Len(q) = n /\ \A k \in 1..n-1 : q[k] = ps[k]
      BY <2>3
    <3> QED BY <1>2, <1>3, <2>7, <2>8, <3>1, <3>2, OneMore
  <2>10. at = [portion |-> n, block |-> b] /\ Len(q) \in Nat
    BY <2>3, <2>6
  <2> QED BY <2>3, <2>9, <2>10
<1> QED BY <1>4, <1>5

\* A file that loses a block loses the last one.
LEMMA ShortenedIs ==
  ASSUME NEW ps, Tidy(ps), ps # <<>>, NEW b, b = LastBlock(Last(ps)),
         NEW q, q = Shortened(ps)
  PROVE  /\ b \in SetOfBlocks(ps) /\ b \in BlockNumbers
         /\ Tidy(q) /\ SetOfBlocks(q) = SetOfBlocks(ps) \ {b}
         /\ Cardinality(SetOfBlocks(q)) = Cardinality(SetOfBlocks(ps)) - 1
<1> DEFINE n == Len(ps)
<1>1. ps \in Seq(Portion) /\ n \in Nat \ {0} /\ n \in 1..n /\ Last(ps) = ps[n]
  BY DEF Tidy, Last
<1>2. /\ ps[n].start \in Int /\ ps[n].length \in Int /\ b \in BlocksOf(ps[n])
      /\ \A x : x \in SetOfBlocks(ps) <=> \E k \in 1..n : x \in BlocksOf(ps[k])
  BY <1>1, TidyParts
<1>3. ps[n].length > 0
  BY <1>1 DEF Tidy
<1>4. b \in SetOfBlocks(ps) /\ b \in BlockNumbers
  BY <1>1, <1>2, TidyFinite
<1>5. /\ \A k \in 1..n :
           /\ ps[k].length > 0
           /\ BlocksOf(ps[k]) \subseteq BlockNumbers
           /\ \A l \in 1..n : l # k => BlocksOf(ps[k]) \cap BlocksOf(ps[l]) = {}
  BY DEF Tidy
<1>6. \A k \in 1..n-1 : k \in 1..n /\ k # n
  OBVIOUS
<1>7. \A k \in 1..n : k # n => k \in 1..n-1
  BY <1>1
<1>8. Tidy(q) /\ \A x : x \in SetOfBlocks(q) <=>
                     \/ \E k \in 1..n-1 : x \in BlocksOf(ps[k])
                     \/ x \in BlocksOf(ps[n]) /\ x # b
  <2>1. CASE ps[n].length = 1
    <3>1. q = Front(ps)
      BY <2>1 DEF Shortened
    <3>2. q \in Seq(Portion) /\ Len(q) = n - 1 /\ \A k \in 1..n-1 : q[k] = ps[k]
      <4>1. q = SubSeq(ps, 1, n - 1)
        BY <3>1 DEF Front
      <4> HIDE DEF n
      <4>2. n - 1 \in Int /\ \A i \in 1..n-1 : ps[i] \in Portion /\ 1+i-1 = i
        BY <1>1 DEF n
      <4>3. /\ q \in Seq(Portion) /\ Len(q) = IF 1 <= n-1 THEN n-1-1+1 ELSE 0
            /\ \A i \in 1..n-1-1+1 : q[i] = ps[1+i-1]
        BY <4>1, <4>2, SubSeqProperties
      <4>4. n-1-1+1 = n-1 /\ Len(q) = n-1
        BY <1>1, <4>3
      <4> QED BY <4>2, <4>3, <4>4
    <3>3. Tidy(q)
      <4>1. \A k \in 1..n-1 :
              /\ q[k].length > 0 /\ BlocksOf(q[k]) \subseteq BlockNumbers
              /\ \A l \in 1..n-1 : l # k => BlocksOf(q[k]) \cap BlocksOf(q[l]) = {}
        BY <1>5, <1>6, <3>2
      <4> QED BY <3>2, <4>1 DEF Tidy
    <3>4. BlocksOf(ps[n]) = {b}
      BY <1>1, <1>2, <2>1 DEF BlocksOf, LastBlock
    <3>5. \A x : x \in SetOfBlocks(q) <=> \E k \in 1..Len(q) : x \in BlocksOf(q[k])
      BY <3>3, TidyParts
    <3> QED BY <3>2, <3>3, <3>4, <3>5
  <2>2. CASE ps[n].length # 1
    <3> DEFINE p == [ps[n] EXCEPT !.length = ps[n].length - 1]
    <3>1. q = [ps EXCEPT ![n] = p]
      BY <2>2 DEF Shortened
    <3>2. ps[n] \in Portion
      BY <1>1
    <3>3. p.start = ps[n].start /\ p.length = ps[n].length - 1 /\ p \in Portion
      BY <3>2 DEF Portion
    <3> HIDE DEF p
    <3>4. q \in Seq(Portion) /\ Len(q) = n /\ q[n] = p /\ \A k \in 1..n-1 : q[k] = ps[k]
      BY <1>1, <3>1, <3>3
    <3>5. p.length > 0
      BY <1>2, <1>3, <2>2, <3>3
    <3>6. \A x : x \in BlocksOf(p) <=> x \in BlocksOf(ps[n]) /\ x # b
      BY <1>1, <1>2, <1>3, <3>3 DEF BlocksOf, LastBlock
    <3>7. Tidy(q)
      <4>1. ASSUME NEW k \in 1..n
            PROVE  /\ q[k].length > 0 /\ BlocksOf(q[k]) \subseteq BlocksOf(ps[k])
        <5>1. CASE k = n
          BY <3>4, <3>5, <3>6, <5>1
        <5>2. CASE k # n
          BY <1>5, <1>7, <3>4, <5>2
        <5> QED BY <5>1, <5>2
      <4>2. \A k \in 1..n :
              /\ q[k].length > 0 /\ BlocksOf(q[k]) \subseteq BlockNumbers
              /\ \A l \in 1..n : l # k => BlocksOf(q[k]) \cap BlocksOf(q[l]) = {}
        BY <1>5, <4>1
      <4> QED BY <3>4, <4>2 DEF Tidy
    <3>8. \A x : x \in SetOfBlocks(q) <=> \E k \in 1..n : x \in BlocksOf(q[k])
      BY <3>4, <3>7, TidyParts
    <3> QED BY <1>1, <1>6, <1>7, <3>4, <3>6, <3>7, <3>8
  <2> QED BY <2>1, <2>2
<1>9. SetOfBlocks(q) = SetOfBlocks(ps) \ {b}
  <2>1. \A k \in 1..n-1 : b \notin BlocksOf(ps[k])
    BY <1>1, <1>2, <1>5, <1>6
  <2>2. \A x : x \in SetOfBlocks(ps) <=> x \in BlocksOf(ps[n]) \/ \E k \in 1..n-1 : x \in BlocksOf(ps[k])
    BY <1>1, <1>2, <1>6, <1>7
  <2> QED BY <1>8, <2>1, <2>2
<1>10. Cardinality(SetOfBlocks(q)) = Cardinality(SetOfBlocks(ps)) - 1
  BY <1>4, <1>9, TidyFinite, FS_RemoveElement
<1> QED BY <1>4, <1>8, <1>9, <1>10

-----------------------------------------------------------------------------
(* Blocks and bytes.                                                       *)

\* Multiples of the size of a block.
LEMMA Multiples ==
  ASSUME NEW x \in Int
  PROVE  /\ BlockSize * x \in Int /\ BlockSize * (x + 1) = BlockSize * x + BlockSize
         /\ x \in Nat => BlockSize * x \in Nat
         /\ \A y \in Int : x < y => BlockSize * x + BlockSize <= BlockSize * y
<1>1. BlockSize \in Nat \ {0}
  BY Sizes
<1>2. BlockSize * x \in Int /\ BlockSize * (x + 1) = BlockSize * x + BlockSize
  BY <1>1
<1>3. x \in Nat => BlockSize * x \in Nat
  BY <1>1
<1>4. ASSUME NEW y \in Int, x < y PROVE BlockSize * x + BlockSize <= BlockSize * y
  <2> DEFINE d == y - x - 1
  <2>1. d \in Nat /\ y = x + 1 + d
    BY <1>4
  <2> HIDE DEF d
  <2>2. BlockSize * d \in Nat
    BY <1>1, <2>1
  <2>3. BlockSize * y = BlockSize * x + BlockSize + BlockSize * d
    BY <1>1, <2>1
  <2> QED BY <1>1, <1>2, <2>2, <2>3
<1> QED BY <1>2, <1>3, <1>4

\* A number is a multiple of the size of a block and a rest,
LEMMA Division ==
  ASSUME NEW x \in Int
  PROVE  \E q \in Int, r \in 0..BlockSize-1 :
           /\ x = BlockSize * q + r /\ x \div BlockSize = q /\ x % BlockSize = r
           /\ x \in Nat => q \in Nat
<1>1. BlockSize \in Nat \ {0}
  BY Sizes
<1>2. x \div BlockSize \in Int /\ x % BlockSize \in 0..BlockSize-1
      /\ (x \in Nat => x \div BlockSize \in Nat)
  BY <1>1
<1>3. \A q \in Int, r \in 0..BlockSize-1 :
        q = x \div BlockSize /\ r = x % BlockSize => x = BlockSize * q + r
  BY <1>1
<1> QED BY <1>2, <1>3

\* and in only one way.
LEMMA DivisionIs ==
  ASSUME NEW x \in Int, NEW q \in Int, NEW r \in 0..BlockSize-1, x = BlockSize * q + r
  PROVE  x \div BlockSize = q /\ x % BlockSize = r
<1>1. PICK d \in Int, s \in 0..BlockSize-1 :
        x = BlockSize * d + s /\ x \div BlockSize = d /\ x % BlockSize = s
  BY Division
<1> DEFINE u == BlockSize * d
           v == BlockSize * q
<1>2. /\ u \in Int /\ v \in Int /\ (d < q => u + BlockSize <= v)
      /\ (q < d => v + BlockSize <= u) /\ x = u + s /\ x = v + r /\ (d = q => u = v)
  BY <1>1, Multiples
<1>3. BlockSize \in Nat \ {0}
  BY Sizes
<1>4. d = q /\ s = r
  <2> HIDE DEF u, v
  <2> QED BY <1>2, <1>3
<1> QED BY <1>1, <1>4

\* The blocks that bytes need: q full ones, and one that is not empty.
LEMMA NeededIs ==
  ASSUME NEW q \in Nat
  PROVE  /\ BlocksNeeded(BlockSize * q) = q
         /\ \A r \in 1..BlockSize : BlocksNeeded(BlockSize * q + r) = q + 1
<1>1. BlockSize \in Nat \ {0} /\ BlockSize * q \in Nat /\ q + 1 \in Int
  BY Sizes, Multiples
<1>2. BlocksNeeded(BlockSize * q) = q
  <2> DEFINE x == BlockSize * q + BlockSize - 1
             r == BlockSize - 1
             v == BlockSize * q
  <2>1. x \in Int /\ r \in 0..BlockSize-1 /\ x = v + r
    <3> HIDE DEF v
    <3> QED BY <1>1 DEF v
  <2>2. x \div BlockSize = q
    <3> HIDE DEF x, r
    <3> QED BY <2>1, DivisionIs
  <2> QED BY <2>2 DEF BlocksNeeded
<1>3. ASSUME NEW r \in 1..BlockSize PROVE BlocksNeeded(BlockSize * q + r) = q + 1
  <2> DEFINE x == BlockSize * q + r + BlockSize - 1
             p == q + 1
             s == r - 1
             v == BlockSize * p
  <2>1. v = BlockSize * q + BlockSize
    BY Multiples
  <2>2. x \in Int /\ s \in 0..BlockSize-1 /\ x = v + s
    <3> DEFINE u == BlockSize * q
    <3>1. u \in Nat /\ v = u + BlockSize
      BY <1>1, <2>1
    <3> HIDE DEF u, v
    <3> QED BY <1>1, <3>1 DEF u
  <2>3. x \div BlockSize = p
    <3>1. p \in Int
      OBVIOUS
    <3> HIDE DEF x, s, p
    <3> QED BY <2>2, <3>1, DivisionIs
  <2> QED BY <2>3 DEF BlocksNeeded
<1> QED BY <1>2, <1>3

\* More bytes do not need less blocks.
LEMMA NeededMonotone ==
  ASSUME NEW x \in Nat, NEW y \in Nat, x <= y
  PROVE  /\ BlocksNeeded(x) \in Nat /\ BlocksNeeded(y) \in Nat
         /\ BlocksNeeded(x) <= BlocksNeeded(y)
<1>1. BlockSize \in Nat \ {0}
  BY Sizes
<1> DEFINE a == x + BlockSize - 1
           b == y + BlockSize - 1
<1>2. a \in Nat /\ b \in Nat /\ a <= b /\ a \in Int /\ b \in Int
  BY <1>1
<1>3. BlocksNeeded(x) = a \div BlockSize /\ BlocksNeeded(y) = b \div BlockSize
  BY DEF BlocksNeeded
<1> HIDE DEF a, b
<1>4. PICK c \in Int, r \in 0..BlockSize-1 :
        /\ a = BlockSize * c + r /\ a \div BlockSize = c /\ a % BlockSize = r
        /\ a \in Nat => c \in Nat
  BY <1>2, Division
<1>5. PICK d \in Int, s \in 0..BlockSize-1 :
        /\ b = BlockSize * d + s /\ b \div BlockSize = d /\ b % BlockSize = s
        /\ b \in Nat => d \in Nat
  BY <1>2, Division
<1> DEFINE u == BlockSize * c
           v == BlockSize * d
<1>6. u \in Int /\ v \in Int /\ (d < c => v + BlockSize <= u) /\ a = u + r /\ b = v + s
  BY <1>4, <1>5, Multiples
<1>7. c <= d
  <2> HIDE DEF u, v
  <2> QED BY <1>1, <1>2, <1>6
<1> QED BY <1>2, <1>3, <1>4, <1>5, <1>7

\* The larger of two sizes needs the larger number of blocks.
LEMMA NeededMax ==
  ASSUME NEW x \in Nat, NEW y \in Nat
  PROVE  BlocksNeeded(Max2(x, y)) = Max2(BlocksNeeded(x), BlocksNeeded(y))
<1>1. CASE x > y
  <2>1. BlocksNeeded(y) <= BlocksNeeded(x) /\ BlocksNeeded(x) \in Nat /\ BlocksNeeded(y) \in Nat
    BY <1>1, NeededMonotone
  <2>2. Max2(x, y) = x
    BY <1>1 DEF Max2
  <2> DEFINE a == BlocksNeeded(x)
             b == BlocksNeeded(y)
  <2>3. Max2(a, b) = a
    <3> HIDE DEF a, b
    <3> QED BY <2>1 DEF Max2, a, b
  <2> QED BY <2>2, <2>3
<1>2. CASE ~(x > y)
  <2>1. BlocksNeeded(x) <= BlocksNeeded(y) /\ BlocksNeeded(x) \in Nat /\ BlocksNeeded(y) \in Nat
    BY <1>2, NeededMonotone
  <2>2. Max2(x, y) = y
    BY <1>2 DEF Max2
  <2> DEFINE a == BlocksNeeded(x)
             b == BlocksNeeded(y)
  <2>3. Max2(a, b) = b
    <3> HIDE DEF a, b
    <3> QED BY <2>1 DEF Max2, a, b
  <2> QED BY <2>2, <2>3
<1> QED BY <1>1, <1>2

\* A piece that stays within a block ends in that block, or at its end.
LEMMA PieceEnds ==
  ASSUME NEW s \in Nat, NEW p \in Nat \ {0}, (s % BlockSize) + p <= BlockSize
  PROVE  /\ s \div BlockSize \in Nat
         /\ BlocksNeeded(s + p) = s \div BlockSize + 1
         /\ (s % BlockSize) + p = BlockSize => (s + p) \div BlockSize = s \div BlockSize + 1
<1>0. PICK d \in Int, o \in 0..BlockSize-1 :
        /\ s = BlockSize * d + o /\ s \div BlockSize = d /\ s % BlockSize = o
        /\ s \in Nat => d \in Nat
  <2>1. s \in Int
    OBVIOUS
  <2> QED BY <2>1, Division
<1> DEFINE u == BlockSize * d
           r == o + p
<1>1. d \in Nat /\ o \in 0..BlockSize-1 /\ s = u + o /\ u \in Nat /\ BlockSize \in Nat \ {0}
  BY <1>0, Multiples, Sizes
<1>2. r \in 1..BlockSize /\ s + p = u + r
  <2>1. o + p <= BlockSize
    BY <1>0
  <2> HIDE DEF u
  <2> QED BY <1>1, <2>1
<1>3. BlocksNeeded(s + p) = d + 1
  <2>1. BlocksNeeded(u + r) = d + 1
    <3> HIDE DEF r
    <3> QED BY <1>1, <1>2, NeededIs
  <2> QED BY <1>2, <2>1
<1>4. ASSUME r = BlockSize PROVE (s + p) \div BlockSize = d + 1
  <2> DEFINE x == s + p
             c == d + 1
  <2>1. x \in Int /\ c \in Int /\ 0 \in 0..BlockSize-1
    BY <1>1
  <2>2. BlockSize * c = u + BlockSize
    BY Multiples
  <2>3. x = BlockSize * c + 0
    <3> HIDE DEF u, r
    <3> QED BY <1>1, <1>2, <1>4, <2>2
  <2>4. x \div BlockSize = c
    <3> HIDE DEF x, c
    <3> QED BY <2>1, <2>3, DivisionIs
  <2> QED BY <2>4
<1>5. s \div BlockSize = d /\ s % BlockSize = o
  BY <1>0
<1>6. r = BlockSize => (s + p) \div BlockSize = d + 1
  BY <1>4
<1> QED BY <1>1, <1>3, <1>5, <1>6

\* A position within a file, and not at the end of its last block, is in a
\* block of it; at the end of a block the file has as many as lie before.
LEMMA SeekWithin ==
  ASSUME NEW s \in Nat, NEW size \in Nat \ {0}, s <= size
  PROVE  /\ ~(size = s /\ s % BlockSize = 0) => s \div BlockSize + 1 <= BlocksNeeded(size)
         /\ size = s /\ s % BlockSize = 0 => BlocksNeeded(size) = s \div BlockSize
         /\ BlocksNeeded(size) \in Nat /\ s \div BlockSize \in Nat
<1>1. BlockSize \in Nat \ {0}
  BY Sizes
<1>2. PICK d \in Int, o \in 0..BlockSize-1 :
        /\ s = BlockSize * d + o /\ s \div BlockSize = d /\ s % BlockSize = o
        /\ s \in Nat => d \in Nat
  <2>1. s \in Int
    OBVIOUS
  <2> QED BY <2>1, Division
<1>3. ASSUME s < size PROVE d + 1 <= BlocksNeeded(size)
  <2>1. 1 \in Nat \ {0} /\ (s % BlockSize) + 1 <= BlockSize
    BY <1>1, <1>2
  <2>2. BlocksNeeded(s + 1) = d + 1
    BY <1>2, <2>1, PieceEnds
  <2>3. s + 1 \in Nat /\ s + 1 <= size
    BY <1>3
  <2>4. BlocksNeeded(s + 1) <= BlocksNeeded(size)
    <3> DEFINE x == s + 1
    <3>1. x \in Nat /\ x <= size
      BY <2>3
    <3> HIDE DEF x
    <3>2. BlocksNeeded(x) <= BlocksNeeded(size)
      BY <3>1, NeededMonotone
    <3> QED BY <3>2 DEF x
  <2> QED BY <2>2, <2>4
<1>4. ASSUME o # 0 PROVE BlocksNeeded(s) = d + 1
  <2>1. d \in Nat /\ o \in 1..BlockSize /\ s = BlockSize * d + o
    BY <1>1, <1>2, <1>4
  <2> QED BY <2>1, NeededIs
<1>5. ASSUME o = 0 PROVE BlocksNeeded(s) = d
  <2> DEFINE u == BlockSize * d
  <2>1. d \in Nat /\ s = u + o /\ u \in Nat
    BY <1>2, Multiples
  <2>2. s = u
    <3> HIDE DEF u
    <3> QED BY <1>5, <2>1
  <2> QED BY <2>1, <2>2, NeededIs
<1>6. BlocksNeeded(size) \in Nat
  BY NeededMonotone
<1>7. ASSUME s = size, o # 0 PROVE d + 1 <= BlocksNeeded(size)
  <2>1. BlocksNeeded(size) = d + 1 /\ d \in Nat
    BY <1>2, <1>4, <1>7
  <2> QED BY <2>1
<1>8. s \div BlockSize = d /\ s % BlockSize = o /\ d \in Nat
  BY <1>2
<1>9. ~(size = s /\ o = 0) => d + 1 <= BlocksNeeded(size)
  BY <1>3, <1>7
<1>10. size = s /\ o = 0 => BlocksNeeded(size) = d
  BY <1>5
<1> QED BY <1>6, <1>8, <1>9, <1>10

\* A file without the bytes in its last block needs a block less, and needs
\* all of its blocks as long as one of these bytes is left.
LEMMA CutNeeds ==
  ASSUME NEW size \in Nat \ {0}
  PROVE  /\ BytesInLastBlock(size) \in 1..BlockSize /\ size - BytesInLastBlock(size) \in Nat
         /\ BlocksNeeded(size) \in Nat \ {0}
         /\ BlocksNeeded(size - BytesInLastBlock(size)) = BlocksNeeded(size) - 1
         /\ \A length \in Nat :
              size - BytesInLastBlock(size) < length /\ length < size =>
                BlocksNeeded(length) = BlocksNeeded(size)
<1>1. BlockSize \in Nat \ {0}
  BY Sizes
<1>2. \E q \in Nat : \E r \in 1..BlockSize :
        size = BlockSize * q + r /\ BytesInLastBlock(size) = r
  <2>0. PICK d \in Int, o \in 0..BlockSize-1 :
          /\ size = BlockSize * d + o /\ size % BlockSize = o
          /\ size \in Nat => d \in Nat
    <3>1. size \in Int
      OBVIOUS
    <3> QED BY <3>1, Division
  <2> DEFINE u == BlockSize * d
  <2>1. d \in Nat /\ o \in 0..BlockSize-1 /\ size = u + o /\ u \in Nat
    BY <2>0, Multiples
  <2>2. CASE o # 0
    <3>1. BytesInLastBlock(size) = o /\ o \in 1..BlockSize
      BY <1>1, <2>0, <2>2 DEF BytesInLastBlock
    <3> QED BY <2>1, <3>1
  <2>3. CASE o = 0
    <3> DEFINE e == d - 1
               v == BlockSize * e
    <3>1. d # 0
      <4> SUFFICES ASSUME d = 0 PROVE FALSE
        OBVIOUS
      <4>1. u = 0
        BY <1>1
      <4> HIDE DEF u
      <4> QED BY <2>1, <2>3, <4>1
    <3>2. e \in Nat /\ e + 1 = d
      <4> QED BY <2>1, <3>1
    <3>3. BlockSize * (e + 1) = v + BlockSize /\ v \in Int
      <4> HIDE DEF e
      <4> QED BY <3>2, Multiples
    <3>4. u = v + BlockSize
      BY <3>2, <3>3
    <3>5. size = v + BlockSize
      <4> HIDE DEF u, v
      <4> QED BY <1>1, <2>1, <2>3, <3>3, <3>4
    <3>6. BytesInLastBlock(size) = BlockSize /\ BlockSize \in 1..BlockSize
      BY <1>1, <2>0, <2>3 DEF BytesInLastBlock
    <3> HIDE DEF e
    <3> QED BY <3>2, <3>5, <3>6
  <2> QED BY <2>2, <2>3
<1>3. PICK q \in Nat : \E r \in 1..BlockSize :
        size = BlockSize * q + r /\ BytesInLastBlock(size) = r
  BY <1>2
<1>4. PICK r \in 1..BlockSize : size = BlockSize * q + r /\ BytesInLastBlock(size) = r
  BY <1>3
<1> DEFINE u == BlockSize * q
<1>5. u \in Nat /\ size = u + r /\ r \in Nat
  BY <1>1, <1>4, Multiples
<1>6. size - r = u
  <2> HIDE DEF u
  <2> QED BY <1>5
<1>7. BlocksNeeded(u) = q /\ BlocksNeeded(size) = q + 1
  BY <1>4, NeededIs
<1>8. ASSUME NEW length \in Nat, u < length, length < size
      PROVE  BlocksNeeded(length) = q + 1
  <2> DEFINE x == length - u
  <2>1. x \in 1..BlockSize /\ length = u + x
    <3> HIDE DEF u
    <3> QED BY <1>1, <1>4, <1>5, <1>8
  <2>2. BlocksNeeded(u + x) = q + 1
    <3> HIDE DEF x
    <3> QED BY <2>1, NeededIs
  <2> QED BY <2>1, <2>2
<1> HIDE DEF u
<1>9. BytesInLastBlock(size) = r
  BY <1>4
<1>10. BlocksNeeded(size) \in Nat \ {0} /\ BlocksNeeded(size) - 1 = q
  BY <1>7
<1> QED BY <1>5, <1>6, <1>7, <1>8, <1>9, <1>10

-----------------------------------------------------------------------------
(* Which blocks the files have.                                            *)

\* The files have lists of portions of their own, of blocks that are marked.
Kept(files, marks) ==
  /\ \A i \in DOMAIN files : /\ Tidy(files[i].portions)
                             /\ SetOfBlocks(files[i].portions) \subseteq MarkedBlocks(marks)
  /\ \A i, j \in DOMAIN files :
       i # j => SetOfBlocks(files[i].portions) \cap SetOfBlocks(files[j].portions) = {}

\* How many blocks a file has: those that its size needs and, while it is
\* written, those up to the position.
BlocksHeld(e) ==
  IF Writing /\ WriteSlot = e
  THEN Max2(BlocksNeeded(entry[e].size), call.seek \div BlockSize + 1)
  ELSE BlocksNeeded(entry[e].size)

\* The tables of a mounted disk.
MemoryInv ==
  mounted => /\ Kept(entry, dat)
             /\ \A e \in DOMAIN entry :
                  Cardinality(SetOfBlocks(entry[e].portions)) = BlocksHeld(e)

\* The metadata on the disk.
DiskInv ==
  /\ Kept(saved.rows, saved.dat)
  /\ \A k \in DOMAIN saved.rows :
       Cardinality(SetOfBlocks(saved.rows[k].portions)) = BlocksNeeded(saved.rows[k].size)

\* A write in progress is in the block of its position.
PositionInv ==
  Writing => /\ call.at \in [portion : Int, block : Int]
             /\ At(entry[WriteSlot].portions, call.at)
             /\ Cardinality(UpTo(entry[WriteSlot].portions, call.at))
                  = call.seek \div BlockSize + 1

\* A truncation in progress has something to cut.
CutInv == call.op = "truncate" => entry[call.entry].size > call.length

\* What holds of the blocks.
BlocksInv == MemoryInv /\ DiskInv /\ PositionInv /\ CutInv

\* Files that are kept own their blocks, portion by portion.
LEMMA KeptOwned ==
  ASSUME NEW files, NEW marks, Kept(files, marks)
  PROVE  Owned(files, marks)
<1>1. ASSUME NEW i \in DOMAIN files, NEW k \in DOMAIN files[i].portions
      PROVE  LET p == files[i].portions[k] IN
             /\ p.length > 0
             /\ BlocksOf(p) \subseteq {b \in BlockNumbers : marks[b - FirstBlock] = 1}
             /\ \A j \in DOMAIN files : \A l \in DOMAIN files[j].portions :
                  <<i, k>> # <<j, l>> =>
                    BlocksOf(p) \cap BlocksOf(files[j].portions[l]) = {}
  <2> DEFINE ps == files[i].portions
  <2>1. Tidy(ps) /\ SetOfBlocks(ps) \subseteq MarkedBlocks(marks)
    BY DEF Kept
  <2> HIDE DEF ps
  <2>2. /\ DOMAIN ps = 1..Len(ps)
        /\ \A b : b \in SetOfBlocks(ps) <=> \E m \in 1..Len(ps) : b \in BlocksOf(ps[m])
    BY <2>1, TidyParts
  <2>3. k \in 1..Len(ps)
    BY <1>1, <2>2 DEF ps
  <2>4. ps[k].length > 0 /\ \A l \in 1..Len(ps) : l # k => BlocksOf(ps[k]) \cap BlocksOf(ps[l]) = {}
    BY <2>1, <2>3 DEF Tidy
  <2>5. BlocksOf(ps[k]) \subseteq SetOfBlocks(ps)
    BY <2>2, <2>3
  <2>6. ASSUME NEW j \in DOMAIN files, NEW l \in DOMAIN files[j].portions, <<i, k>> # <<j, l>>
        PROVE  BlocksOf(ps[k]) \cap BlocksOf(files[j].portions[l]) = {}
    <3>1. CASE i = j
      <4>1. l \in 1..Len(ps) /\ l # k /\ files[j].portions = ps
        BY <2>2, <2>6, <3>1 DEF ps
      <4> QED BY <2>4, <4>1
    <3>2. CASE i # j
      <4> DEFINE qs == files[j].portions
      <4>1. Tidy(qs) /\ SetOfBlocks(ps) \cap SetOfBlocks(qs) = {}
        BY <3>2 DEF Kept, ps
      <4> HIDE DEF qs
      <4>2. BlocksOf(qs[l]) \subseteq SetOfBlocks(qs)
        <5>1. l \in 1..Len(qs)
          BY <2>6, <4>1, TidyParts DEF qs
        <5> QED BY <4>1, <5>1, TidyParts
      <4>3. BlocksOf(ps[k]) \cap BlocksOf(qs[l]) = {}
        BY <2>5, <4>1, <4>2
      <4> QED BY <4>3 DEF qs
    <3> QED BY <3>1, <3>2
  <2>7. BlocksOf(ps[k]) \subseteq {b \in BlockNumbers : marks[b - FirstBlock] = 1}
    BY <2>1, <2>5 DEF MarkedBlocks
  <2> QED BY <2>4, <2>6, <2>7 DEF ps
<1> QED BY <1>1 DEF Owned

\* No file, no portion, no block.
LEMMA NoBlocks ==
  /\ Tidy(<<>>) /\ SetOfBlocks(<<>>) = {} /\ Cardinality(SetOfBlocks(<<>>)) = 0
  /\ BlocksNeeded(0) = 0
  /\ \A files, marks : DOMAIN files = {} => Kept(files, marks)
<1>1. Tidy(<<>>)
  BY DEF Tidy
<1>2. SetOfBlocks(<<>>) = {}
  BY DEF SetOfBlocks
<1>3. BlocksNeeded(0) = 0
  <2>1. BlocksNeeded(BlockSize * 0) = 0 /\ BlockSize * 0 = 0
    BY NeededIs, Sizes
  <2> QED BY <2>1
<1>4. \A files, marks : DOMAIN files = {} => Kept(files, marks)
  BY DEF Kept
<1> QED BY <1>1, <1>2, <1>3, <1>4, FS_EmptySet

\* The files are kept if one of them gets blocks that no other has.
LEMMA KeptReplaced ==
  ASSUME NEW files, NEW marks, Kept(files, marks), NEW e \in DOMAIN files,
         NEW new, NEW after, DOMAIN new = DOMAIN files,
         \A x \in DOMAIN files \ {e} : new[x].portions = files[x].portions,
         Tidy(new[e].portions), SetOfBlocks(new[e].portions) \subseteq MarkedBlocks(after),
         \A x \in DOMAIN files \ {e} :
           /\ SetOfBlocks(files[x].portions) \subseteq MarkedBlocks(after)
           /\ SetOfBlocks(files[x].portions) \cap SetOfBlocks(new[e].portions) = {}
  PROVE  Kept(new, after)
<1> DEFINE B(x) == SetOfBlocks(new[x].portions)
           A(x) == SetOfBlocks(files[x].portions)
<1>1. \A x \in DOMAIN files : Tidy(new[x].portions) /\ B(x) \subseteq MarkedBlocks(after)
  BY DEF Kept
<1>2. \A x \in DOMAIN files \ {e} : B(x) = A(x)
  OBVIOUS
<1>3. \A x, y \in DOMAIN files : x # y => A(x) \cap A(y) = {}
  BY DEF Kept
<1>4. \A x \in DOMAIN files \ {e} : A(x) \cap B(e) = {}
  OBVIOUS
<1>5. \A x, y \in DOMAIN files : x # y => B(x) \cap B(y) = {}
  <2> HIDE DEF A, B
  <2> QED BY <1>2, <1>3, <1>4
<1> QED BY <1>1, <1>5 DEF Kept

\* A mark that is set, and one that is cleared.
LEMMA MarksChange ==
  ASSUME NEW marks \in [0..DataBlocks-1 -> {0, 1}], NEW b \in BlockNumbers
  PROVE  /\ MarkedBlocks([marks EXCEPT ![b - FirstBlock] = 1]) = MarkedBlocks(marks) \cup {b}
         /\ MarkedBlocks([marks EXCEPT ![b - FirstBlock] = 0]) = MarkedBlocks(marks) \ {b}
<1>1. \A x \in BlockNumbers : x \in Int /\ x - FirstBlock \in 0..DataBlocks-1
  BY BlockNumbersType
<1>2. FirstBlock \in Nat
  BY BlockNumbersType
<1>3. \A x \in BlockNumbers : x - FirstBlock = b - FirstBlock => x = b
  BY <1>1, <1>2
<1>4. ASSUME NEW v \in {0, 1}, NEW x \in BlockNumbers
      PROVE  [marks EXCEPT ![b - FirstBlock] = v][x - FirstBlock] =
               IF x = b THEN v ELSE marks[x - FirstBlock]
  BY <1>1, <1>3
<1>5. MarkedBlocks([marks EXCEPT ![b - FirstBlock] = 1]) = MarkedBlocks(marks) \cup {b}
  BY <1>4 DEF MarkedBlocks
<1>6. MarkedBlocks([marks EXCEPT ![b - FirstBlock] = 0]) = MarkedBlocks(marks) \ {b}
  <2>1. 0 # 1
    OBVIOUS
  <2> QED BY <1>4, <2>1 DEF MarkedBlocks
<1> QED BY <1>5, <1>6

\* A file gets a block that was free.
LEMMA FileGrows ==
  ASSUME TablesInv, Kept(entry, dat), CanGrow, NEW e \in DOMAIN entry, NEW ps, Tidy(ps),
         SetOfBlocks(ps) \subseteq SetOfBlocks(entry[e].portions),
         DOMAIN entry' = DOMAIN entry, entry'[e].portions = Grown(ps),
         \A x \in DOMAIN entry \ {e} : entry'[x] = entry[x],
         dat' = Mark(NewBlock(ps)), NEW at, at = [portion |-> Len(Grown(ps)), block |-> NewBlock(ps)]
  PROVE  /\ Kept(entry', dat') /\ Tidy(Grown(ps))
         /\ Cardinality(SetOfBlocks(Grown(ps))) = Cardinality(SetOfBlocks(ps)) + 1
         /\ at \in [portion : Int, block : Int] /\ At(Grown(ps), at) /\ IsLast(Grown(ps), at)
<1> DEFINE b == NewBlock(ps)
           q == Grown(ps)
<1>1. dat \in [0..DataBlocks-1 -> {0, 1}]
  BY TablesParts
<1>2. SetOfBlocks(ps) \subseteq MarkedBlocks(dat)
  BY DEF Kept
<1>3. /\ b \in BlockNumbers /\ dat[b - FirstBlock] = 0
      /\ Tidy(q) /\ SetOfBlocks(q) = SetOfBlocks(ps) \cup {b}
      /\ Cardinality(SetOfBlocks(q)) = Cardinality(SetOfBlocks(ps)) + 1
      /\ at \in [portion : Int, block : Int] /\ At(q, at) /\ IsLast(q, at)
  <2> HIDE DEF b, q
  <2> QED BY <1>1, <1>2, GrownIs DEF b, q
<1>4. MarkedBlocks(dat') = MarkedBlocks(dat) \cup {b}
  BY <1>1, <1>3, MarksChange DEF Mark
<1> HIDE DEF b, q
<1>5. b \notin MarkedBlocks(dat)
  BY <1>3 DEF MarkedBlocks
<1>6. \A x \in DOMAIN entry \ {e} :
        /\ SetOfBlocks(entry[x].portions) \subseteq MarkedBlocks(dat)
        /\ SetOfBlocks(entry[x].portions) \cap SetOfBlocks(entry[e].portions) = {}
  BY DEF Kept
<1>7. \A x \in DOMAIN entry \ {e} :
        /\ SetOfBlocks(entry[x].portions) \subseteq MarkedBlocks(dat')
        /\ SetOfBlocks(entry[x].portions) \cap SetOfBlocks(q) = {}
  BY <1>3, <1>4, <1>5, <1>6
<1>8. entry'[e].portions = q
  BY DEF q
<1>9. Kept(entry', dat')
  <2>1. SetOfBlocks(q) \subseteq MarkedBlocks(dat')
    BY <1>2, <1>3, <1>4
  <2>2. \A x \in DOMAIN entry \ {e} : entry'[x].portions = entry[x].portions
    OBVIOUS
  <2> QED BY <1>3, <1>7, <1>8, <2>1, <2>2, KeptReplaced
<1> QED BY <1>3, <1>9 DEF q

\* Empty tables own no block: BlocksInv holds at first.
LEMMA BlocksInit == Init => BlocksInv
<1> SUFFICES ASSUME Init PROVE BlocksInv
  OBVIOUS
<1>1. MemoryInv /\ PositionInv /\ CutInv
  BY DEF Init, MemoryInv, PositionInv, CutInv, Idle, Writing
<1>2. DOMAIN saved.rows = {}
  BY NothingSavedSound DEF Init
<1>3. DiskInv
  BY <1>2, NoBlocks DEF DiskInv
<1> QED BY <1>1, <1>3 DEF BlocksInv

\* The end of the process takes only what is in memory.
LEMMA BlocksForgotten ==
  ASSUME FreshMemory, DiskInv'
  PROVE  BlocksInv'
<1>1. ~mounted' /\ call'.op = "idle"
  BY DEF FreshMemory, Idle
<1>2. MemoryInv' /\ PositionInv' /\ CutInv'
  BY <1>1 DEF MemoryInv, PositionInv, CutInv, Writing
<1> QED BY <1>2 DEF BlocksInv

\* A step that leaves the files and their marks alone.
LEMMA BlocksSame ==
  ASSUME BlocksInv, mounted' = mounted, entry' = entry, dat' = dat, ~Writing, ~Writing',
         CutInv', DiskInv'
  PROVE  BlocksInv'
<1>1. MemoryInv'
  BY DEF BlocksInv, MemoryInv, BlocksHeld
<1>2. PositionInv'
  BY DEF PositionInv
<1> QED BY <1>1, <1>2 DEF BlocksInv

\* make_fs leaves the tables of memory alone, and writes tables that own no
\* block.
LEMMA BlocksMakeFs == ASSUME BlocksInv, MakeFs PROVE BlocksInv'
<1>1. DiskInv'
  <2>1. DOMAIN saved'.rows = {}
    BY NothingSavedSound DEF MakeFs
  <2> QED BY <2>1, NoBlocks DEF DiskInv
<1>2. CASE mounted
  <2>1. UNCHANGED <<mounted, dat, entry, call>> /\ call = Idle
    BY <1>2 DEF MakeFs, memoryVars
  <2>2. ~Writing /\ ~Writing' /\ CutInv'
    BY <2>1 DEF Writing, CutInv, Idle
  <2> QED BY <1>1, <2>1, <2>2, BlocksSame
<1>3. CASE ~mounted
  BY <1>1, <1>3, BlocksForgotten DEF MakeFs
<1> QED BY <1>2, <1>3

\* The tables of the next process are empty, and own no block.
LEMMA BlocksExit == ASSUME BlocksInv, Exit PROVE BlocksInv'
<1>1. FreshMemory /\ saved' = saved
  BY DEF Exit, diskVars
<1>2. DiskInv'
  BY <1>1 DEF BlocksInv, DiskInv
<1> QED BY <1>1, <1>2, BlocksForgotten

\* mount_fs finds the files as they were saved, if their portions can be read.
LEMMA BlocksMount ==
  ASSUME TablesInv, BlocksInv, LoadsWhatWasSaved, Mount
  PROVE  BlocksInv'
<1> DEFINE n == saved.count
           R == saved.rows
<1>1. /\ DOMAIN entry' = 0..n-1 /\ n \in 0..MaxFiles /\ DOMAIN R = 1..n
      /\ \A i \in 0..n-1 : i + 1 \in DOMAIN R /\ entry'[i] = LoadRow(R[i + 1])
      /\ call' = Idle /\ mounted' = TRUE /\ dat' = saved.dat /\ saved' = saved
  BY MountLoads
<1>2. \A i \in 0..n-1 : entry'[i] = R[i + 1]
  BY <1>1 DEF LoadsWhatWasSaved
<1>3. /\ Kept(R, saved.dat)
      /\ \A k \in DOMAIN R : Cardinality(SetOfBlocks(R[k].portions)) = BlocksNeeded(R[k].size)
  BY DEF BlocksInv, DiskInv
<1>4. ~Writing' /\ CutInv'
  BY <1>1 DEF Writing, CutInv, Idle
<1>5. Kept(entry', dat')
  <2>1. \A i \in 0..n-1 : /\ Tidy(entry'[i].portions)
                          /\ SetOfBlocks(entry'[i].portions) \subseteq MarkedBlocks(dat')
    BY <1>1, <1>2, <1>3 DEF Kept
  <2>2. \A i, j \in 0..n-1 :
          i # j => SetOfBlocks(entry'[i].portions) \cap SetOfBlocks(entry'[j].portions) = {}
    <3> TAKE i, j \in 0..n-1
    <3> HAVE i # j
    <3>1. i + 1 \in DOMAIN R /\ j + 1 \in DOMAIN R
      BY <1>1
    <3>2. i + 1 # j + 1
      OBVIOUS
    <3>3. SetOfBlocks(R[i + 1].portions) \cap SetOfBlocks(R[j + 1].portions) = {}
      <4> HIDE DEF R
      <4> QED BY <1>3, <3>1, <3>2 DEF Kept
    <3> QED BY <1>2, <3>3
  <2> QED BY <1>1, <2>1, <2>2 DEF Kept
<1>6. MemoryInv'
  <2>1. \A e \in DOMAIN entry' :
          Cardinality(SetOfBlocks(entry'[e].portions)) = BlocksNeeded(entry'[e].size)
    BY <1>1, <1>2, <1>3
  <2> QED BY <1>4, <1>5, <2>1 DEF MemoryInv, BlocksHeld
<1>7. PositionInv' /\ DiskInv'
  BY <1>1, <1>4 DEF PositionInv, BlocksInv, DiskInv
<1> QED BY <1>4, <1>6, <1>7 DEF BlocksInv

\* umount_fs saves the files as they are.
LEMMA BlocksUmount ==
  ASSUME TablesInv, BlocksInv, Umount
  PROVE  BlocksInv'
<1>1. /\ mounted' = FALSE /\ saved' = [dat |-> dat, count |-> file_count, rows |-> Rows]
      /\ call' = Idle /\ call = Idle /\ mounted
  BY DEF Umount, Meta, Running
<1>2. ~Writing /\ ~Writing' /\ CutInv' /\ MemoryInv' /\ PositionInv'
  BY <1>1 DEF Writing, CutInv, MemoryInv, PositionInv, Idle
<1>3. /\ Kept(entry, dat)
      /\ \A e \in DOMAIN entry :
           Cardinality(SetOfBlocks(entry[e].portions)) = BlocksNeeded(entry[e].size)
  BY <1>1, <1>2 DEF BlocksInv, MemoryInv, BlocksHeld
<1>4. saved'.rows = Rows /\ saved'.dat = dat
  BY <1>1
<1>5. /\ Rows \in Seq(File)
      /\ \E g \in [1..Len(Rows) -> DOMAIN entry] :
           \A k \in 1..Len(Rows) :
                /\ Rows[k] = entry[g[k]]
                /\ \A l \in 1..Len(Rows) : l # k => g[l] # g[k]
  BY TablesParts, RowsAre
<1>6. PICK g \in [1..Len(Rows) -> DOMAIN entry] :
           \A k \in 1..Len(Rows) :
                /\ Rows[k] = entry[g[k]]
                /\ \A l \in 1..Len(Rows) : l # k => g[l] # g[k]
  BY <1>5
<1>7. DOMAIN Rows = 1..Len(Rows)
  BY <1>5
<1>8. \A k \in 1..Len(Rows) : g[k] \in DOMAIN entry /\ Rows[k] = entry[g[k]]
  BY <1>6
<1>9. Kept(Rows, dat)
  <2>1. \A k \in 1..Len(Rows) : /\ Tidy(Rows[k].portions)
                                /\ SetOfBlocks(Rows[k].portions) \subseteq MarkedBlocks(dat)
    BY <1>3, <1>8 DEF Kept
  <2>2. \A k, l \in 1..Len(Rows) :
          k # l => SetOfBlocks(Rows[k].portions) \cap SetOfBlocks(Rows[l].portions) = {}
    <3> TAKE k, l \in 1..Len(Rows)
    <3> HAVE k # l
    <3>1. g[k] # g[l]
      BY <1>6
    <3> QED BY <1>3, <1>8, <3>1 DEF Kept
  <2> QED BY <1>7, <2>1, <2>2 DEF Kept
<1>10. \A k \in DOMAIN Rows : Cardinality(SetOfBlocks(Rows[k].portions)) = BlocksNeeded(Rows[k].size)
  BY <1>3, <1>7, <1>8
<1>11. DiskInv'
  BY <1>4, <1>9, <1>10 DEF DiskInv
<1> QED BY <1>2, <1>11 DEF BlocksInv

\* A new file has no portion, so it owns no block another row has.
LEMMA BlocksCreate ==
  ASSUME TablesInv, BlocksInv, NEW n \in Names, Create(n)
  PROVE  BlocksInv'
<1> DEFINE s == Least(FreeSlots)
           f == [name |-> n, size |-> 0, portions |-> <<>>]
<1>1. s \notin DOMAIN entry
  BY LeastFree DEF Create
<1>2. /\ entry' = With(entry, s, f) /\ f.size = 0 /\ f.portions = <<>>
      /\ dat' = dat /\ saved' = saved /\ call' = call /\ call = Idle /\ mounted
  BY DEF Create, diskVars, Running
<1>3. /\ DOMAIN entry' = DOMAIN entry \cup {s} /\ entry'[s] = f
      /\ \A e \in DOMAIN entry : entry'[e] = entry[e]
  <2> HIDE DEF s, f
  <2> QED BY <1>1, <1>2 DEF With
<1> HIDE DEF s, f
<1>4. ~Writing /\ ~Writing' /\ CutInv'
  BY <1>2 DEF Writing, CutInv, Idle
<1>5. /\ Kept(entry, dat)
      /\ \A e \in DOMAIN entry :
           Cardinality(SetOfBlocks(entry[e].portions)) = BlocksNeeded(entry[e].size)
  BY <1>2, <1>4 DEF BlocksInv, MemoryInv, BlocksHeld
<1>6. /\ Tidy(entry'[s].portions) /\ SetOfBlocks(entry'[s].portions) = {}
      /\ Cardinality(SetOfBlocks(entry'[s].portions)) = BlocksNeeded(entry'[s].size)
  BY <1>2, <1>3, NoBlocks
<1>7. Kept(entry', dat')
  <2>1. \A e \in DOMAIN entry : SetOfBlocks(entry'[e].portions) = SetOfBlocks(entry[e].portions)
    BY <1>3
  <2>2. \A e \in DOMAIN entry' : e = s \/ e \in DOMAIN entry
    BY <1>3
  <2>3. \A i, j \in DOMAIN entry' :
          i # j => SetOfBlocks(entry'[i].portions) \cap SetOfBlocks(entry'[j].portions) = {}
    BY <1>5, <1>6, <2>1, <2>2 DEF Kept
  <2>4. \A i \in DOMAIN entry' : /\ Tidy(entry'[i].portions)
                                 /\ SetOfBlocks(entry'[i].portions) \subseteq MarkedBlocks(dat')
    BY <1>2, <1>3, <1>5, <1>6, <2>2 DEF Kept
  <2> QED BY <2>3, <2>4 DEF Kept
<1>8. MemoryInv'
  <2>1. \A e \in DOMAIN entry' :
          Cardinality(SetOfBlocks(entry'[e].portions)) = BlocksNeeded(entry'[e].size)
    BY <1>3, <1>5, <1>6
  <2> QED BY <1>4, <1>7, <2>1 DEF MemoryInv, BlocksHeld
<1>9. PositionInv' /\ DiskInv'
  BY <1>2, <1>4 DEF PositionInv, BlocksInv, DiskInv
<1> QED BY <1>4, <1>8, <1>9 DEF BlocksInv

\* fs_delete unmarks no block of another file: its loop goes over blocks of
\* the file, and not over all of them.
LEMMA BlocksDelete ==
  ASSUME TablesInv, BlocksInv, NEW n \in Names, Delete(n)
  PROVE  BlocksInv'
<1> DEFINE s == Least(SlotsOf(n))
           ps == entry[s].portions
<1>1. s \in DOMAIN entry
  BY LeastFree DEF Delete, CanDelete
<1>2. /\ entry' = Without(entry, s) /\ dat' = Unmarked(ps)
      /\ saved' = saved /\ call' = call /\ call = Idle /\ mounted
  BY DEF Delete, CanDelete, diskVars, Running
<1>3. DOMAIN entry' = DOMAIN entry \ {s} /\ \A e \in DOMAIN entry' : entry'[e] = entry[e]
  <2> HIDE DEF s
  <2> QED BY <1>2 DEF Without
<1>4. ~Writing /\ ~Writing' /\ CutInv'
  BY <1>2 DEF Writing, CutInv, Idle
<1>5. /\ Kept(entry, dat)
      /\ \A e \in DOMAIN entry :
           Cardinality(SetOfBlocks(entry[e].portions)) = BlocksNeeded(entry[e].size)
  BY <1>2, <1>4 DEF BlocksInv, MemoryInv, BlocksHeld
<1>6. Tidy(ps)
  BY <1>1, <1>5 DEF Kept
<1> HIDE DEF s, ps
<1>7. ASSUME NEW b \in BlockNumbers, b \notin SetOfBlocks(ps), dat[b - FirstBlock] = 1
      PROVE  dat'[b - FirstBlock] = 1
  <2>1. b \in Int /\ FirstBlock \in Nat /\ b - FirstBlock \in 0..DataBlocks-1
    BY BlockNumbersType
  <2>2. DOMAIN dat = 0..DataBlocks-1
    BY TablesParts
  <2>3. (b - FirstBlock) + FirstBlock = b
    BY <2>1
  <2>4. ASSUME NEW p \in Range(ps), b \in p.start..p.length-1 PROVE FALSE
    <3>1. PICK k \in 1..Len(ps) : p = ps[k]
      BY <1>6, TidyParts DEF Range
    <3>2. /\ p.start \in Int /\ p.length \in Int /\ p.start \in BlocksOf(p)
          /\ BlocksOf(p) \subseteq BlockNumbers
          /\ \A x : x \in BlocksOf(p) <=> x \in Int /\ p.start <= x /\ x <= LastBlock(p)
      BY <1>6, <3>1, TidyParts DEF Tidy
    <3>3. p.start \in Nat
      BY <3>2, BlockNumbersType
    <3>4. b \in Int /\ p.start <= b /\ b <= LastBlock(p)
      BY <2>1, <2>4, <3>2, <3>3 DEF LastBlock
    <3>5. b \in BlocksOf(p)
      BY <3>2, <3>4
    <3>6. b \in SetOfBlocks(ps)
      BY <1>6, <3>1, <3>5, TidyParts
    <3> QED BY <1>7, <3>6
  <2>5. ~\E p \in Range(ps) : (b - FirstBlock) + FirstBlock \in p.start..p.length-1
    BY <2>3, <2>4
  <2>6. dat' = [k \in DOMAIN dat |->
                  IF \E p \in Range(ps) : k + FirstBlock \in p.start..p.length-1
                  THEN 0 ELSE dat[k]]
    BY <1>2 DEF Unmarked
  <2> DEFINE k == b - FirstBlock
  <2>7. k \in DOMAIN dat /\ ~\E p \in Range(ps) : k + FirstBlock \in p.start..p.length-1
    BY <2>1, <2>2, <2>5
  <2>8. dat'[k] = dat[k]
    <3> HIDE DEF k
    <3> QED BY <2>6, <2>7
  <2> QED BY <1>7, <2>8
<1>8. Kept(entry', dat')
  <2>1. \A e \in DOMAIN entry' : SetOfBlocks(entry[e].portions) \cap SetOfBlocks(ps) = {}
    BY <1>1, <1>3, <1>5 DEF Kept, ps
  <2>2. \A e \in DOMAIN entry' : SetOfBlocks(entry[e].portions) \subseteq MarkedBlocks(dat')
    <3> TAKE e \in DOMAIN entry'
    <3>1. SetOfBlocks(entry[e].portions) \subseteq MarkedBlocks(dat)
      BY <1>3, <1>5 DEF Kept
    <3> QED BY <1>7, <2>1, <3>1 DEF MarkedBlocks
  <2> QED BY <1>3, <1>5, <2>2 DEF Kept
<1>9. MemoryInv'
  <2>1. \A e \in DOMAIN entry' :
          Cardinality(SetOfBlocks(entry'[e].portions)) = BlocksNeeded(entry'[e].size)
    BY <1>3, <1>5
  <2> QED BY <1>4, <1>8, <2>1 DEF MemoryInv, BlocksHeld
<1>10. PositionInv' /\ DiskInv'
  BY <1>2, <1>4 DEF PositionInv, BlocksInv, DiskInv
<1> QED BY <1>4, <1>9, <1>10 DEF BlocksInv

\* What the files in memory have while no write is in progress.
LEMMA MemoryIdle ==
  ASSUME BlocksInv, mounted, ~Writing
  PROVE  /\ Kept(entry, dat)
         /\ \A e \in DOMAIN entry :
              Cardinality(SetOfBlocks(entry[e].portions)) = BlocksNeeded(entry[e].size)
  BY DEF BlocksInv, MemoryInv, BlocksHeld

\* fs_open starts at position 0, which every size covers.
LEMMA BlocksOpen ==
  ASSUME BlocksInv, NEW n \in Names, Open(n)
  PROVE  BlocksInv'
<1>1. UNCHANGED <<mounted, dat, entry, call, saved>> /\ call = Idle
  BY DEF Open, diskVars, Running
<1>2. ~Writing /\ ~Writing' /\ CutInv' /\ DiskInv'
  BY <1>1 DEF Writing, CutInv, Idle, BlocksInv, DiskInv
<1> QED BY <1>1, <1>2, BlocksSame

\* fs_close, fs_lseek and fs_read move no block.
LEMMA BlocksMoves ==
  ASSUME BlocksInv, NEW fd, Close(fd) \/ (\E n : Lseek(fd, n)) \/ (\E n : Read(fd, n))
  PROVE  BlocksInv'
<1>1. UNCHANGED <<mounted, dat, entry, call, saved>> /\ call = Idle
  BY DEF Close, Lseek, Read, diskVars, Running
<1>2. ~Writing /\ ~Writing' /\ CutInv' /\ DiskInv'
  BY <1>1 DEF Writing, CutInv, Idle, BlocksInv, DiskInv
<1> QED BY <1>1, <1>2, BlocksSame

\* fs_truncate has something to cut, or is done at once.
LEMMA BlocksStartTruncate ==
  ASSUME TablesInv, BlocksInv, NEW fd \in DOMAIN fildes, NEW length \in Amounts,
         StartTruncate(fd, length)
  PROVE  BlocksInv'
<1> DEFINE e == fildes[fd].entry
<1>1. /\ UNCHANGED <<mounted, dat, entry, saved>> /\ call = Idle
      /\ call' = IF entry[e].size > length
                 THEN [op |-> "truncate", entry |-> e, length |-> length] ELSE Idle
  BY DEF StartTruncate, diskVars, Running, FileOf
<1>2. ~Writing /\ ~Writing' /\ DiskInv'
  BY <1>1 DEF Writing, Idle, BlocksInv, DiskInv
<1>3. CutInv'
  <2>1. CASE entry[e].size > length
    <3>1. call'.op = "truncate" /\ call'.entry = e /\ call'.length = length
      BY <1>1, <2>1
    <3> QED BY <1>1, <2>1, <3>1 DEF CutInv
  <2>2. CASE ~(entry[e].size > length)
    BY <1>1, <2>2 DEF CutInv, Idle
  <2> QED BY <2>1, <2>2
<1> QED BY <1>1, <1>2, <1>3, BlocksSame

\* A turn of fs_truncate that frees the last block takes the bytes in it.
LEMMA BlocksTruncateOn ==
  ASSUME TablesInv, BlocksInv, TruncateOn
  PROVE  BlocksInv'
<1> DEFINE e == call.entry
           file == entry[e]
           size == IF FreesBlock(file) THEN Shorter(file) ELSE call.length
           ps == file.portions
           b == LastBlock(Last(ps))
           g == [file EXCEPT !.size = size]
           h == [file EXCEPT !.size = size, !.portions = Shortened(ps)]
<1>1. /\ call.op = "truncate"
      /\ \/ /\ FreesBlock(file)
            /\ dat' = [dat EXCEPT ![b - FirstBlock] = 0]
            /\ entry' = [entry EXCEPT ![e] = h]
         \/ /\ ~FreesBlock(file)
            /\ entry' = [entry EXCEPT ![e] = g]
            /\ UNCHANGED dat
      /\ call' = IF size > call.length THEN call ELSE Idle
      /\ UNCHANGED <<mounted, saved>>
  BY DEF TruncateOn, diskVars
<1>2. /\ mounted /\ e \in DOMAIN entry /\ call.length \in Nat /\ file \in File
      /\ file.size \in Nat /\ ps \in Seq(Portion)
  BY <1>1, CutParts
<1>3. ~Writing /\ ~Writing' /\ DiskInv' /\ file.size > call.length
  BY <1>1 DEF Writing, Idle, BlocksInv, DiskInv, CutInv
<1>4. /\ Kept(entry, dat)
      /\ \A x \in DOMAIN entry :
           Cardinality(SetOfBlocks(entry[x].portions)) = BlocksNeeded(entry[x].size)
  BY <1>2, <1>3, MemoryIdle
<1>5. file.size \in Nat \ {0}
  BY <1>2, <1>3
<1>6. /\ BytesInLastBlock(file.size) \in 1..BlockSize
      /\ file.size - BytesInLastBlock(file.size) \in Nat
      /\ BlocksNeeded(file.size) \in Nat \ {0}
      /\ BlocksNeeded(file.size - BytesInLastBlock(file.size)) = BlocksNeeded(file.size) - 1
      /\ \A length \in Nat :
           file.size - BytesInLastBlock(file.size) < length /\ length < file.size =>
             BlocksNeeded(length) = BlocksNeeded(file.size)
  <2> DEFINE s == file.size
  <2> HIDE DEF s
  <2>1. s \in Nat \ {0}
    BY <1>5 DEF s
  <2>2. /\ BytesInLastBlock(s) \in 1..BlockSize
        /\ s - BytesInLastBlock(s) \in Nat
        /\ BlocksNeeded(s) \in Nat \ {0}
        /\ BlocksNeeded(s - BytesInLastBlock(s)) = BlocksNeeded(s) - 1
        /\ \A length \in Nat :
             s - BytesInLastBlock(s) < length /\ length < s =>
               BlocksNeeded(length) = BlocksNeeded(s)
    BY <2>1, CutNeeds
  <2> QED BY <2>2 DEF s
<1>7. Tidy(ps) /\ Cardinality(SetOfBlocks(ps)) = BlocksNeeded(file.size)
      /\ SetOfBlocks(ps) \subseteq MarkedBlocks(dat)
  BY <1>2, <1>4 DEF Kept
<1>8. CutInv'
  <2>1. CASE call' = Idle
    BY <2>1 DEF CutInv, Idle
  <2>2. CASE size > call.length
    <3>1. call' = call
      BY <1>1, <2>2
    <3>2. entry'[e].size = size
      <4>1. g.size = size /\ h.size = size
        BY <1>2 DEF File
      <4> HIDE DEF g, h, size
      <4> QED BY <1>1, <1>2, <4>1
    <3> QED BY <2>2, <3>1, <3>2 DEF CutInv
  <2> QED BY <1>1, <2>1, <2>2
<1>9. CASE FreesBlock(file)
  <2>1. /\ dat' = [dat EXCEPT ![b - FirstBlock] = 0]
        /\ entry' = [entry EXCEPT ![e] = h]
    BY <1>1, <1>9
  <2>2. size = file.size - BytesInLastBlock(file.size)
    BY <1>9 DEF Shorter
  <2>3. h.size = size /\ h.portions = Shortened(ps)
    <3> DEFINE q == Shortened(ps)
    <3> HIDE DEF q, size
    <3> QED BY <1>2 DEF q, File
  <2>4. ps # <<>>
    <3>1. Cardinality(SetOfBlocks(ps)) # 0
      BY <1>6, <1>7
    <3> QED BY <3>1, NoBlocks
  <2> DEFINE q == Shortened(ps)
  <2>5. /\ b \in SetOfBlocks(ps) /\ b \in BlockNumbers
        /\ Tidy(q) /\ SetOfBlocks(q) = SetOfBlocks(ps) \ {b}
        /\ Cardinality(SetOfBlocks(q)) = Cardinality(SetOfBlocks(ps)) - 1
    <3> HIDE DEF q, ps, b
    <3> QED BY <1>7, <2>4, ShortenedIs DEF q, b
  <2>6. dat \in [0..DataBlocks-1 -> {0, 1}]
    BY TablesParts
  <2>7. MarkedBlocks(dat') = MarkedBlocks(dat) \ {b}
    <3> HIDE DEF b
    <3> QED BY <2>1, <2>5, <2>6, MarksChange
  <2>8. /\ DOMAIN entry' = DOMAIN entry /\ entry'[e] = h
        /\ \A x \in DOMAIN entry \ {e} : entry'[x] = entry[x]
    <3> HIDE DEF h
    <3> QED BY <1>2, <2>1
  <2>9. \A x \in DOMAIN entry \ {e} :
          /\ SetOfBlocks(entry[x].portions) \subseteq MarkedBlocks(dat)
          /\ SetOfBlocks(entry[x].portions) \cap SetOfBlocks(ps) = {}
    BY <1>2, <1>4 DEF Kept
  <2>10. entry'[e].portions = q /\ entry'[e].size = size
    BY <2>3, <2>8
  <2> HIDE DEF h, size, q, b
  <2>11. \A x \in DOMAIN entry \ {e} :
           /\ SetOfBlocks(entry[x].portions) \subseteq MarkedBlocks(dat')
           /\ SetOfBlocks(entry[x].portions) \cap SetOfBlocks(q) = {}
    BY <2>5, <2>7, <2>9
  <2>12. SetOfBlocks(q) \subseteq MarkedBlocks(dat')
    BY <1>7, <2>5, <2>7
  <2>13. Kept(entry', dat')
    BY <1>2, <1>4, <2>5, <2>8, <2>10, <2>11, <2>12, KeptReplaced
  <2>14. Cardinality(SetOfBlocks(q)) = BlocksNeeded(size)
    BY <1>6, <1>7, <2>2, <2>5
  <2>15. \A x \in DOMAIN entry' :
           Cardinality(SetOfBlocks(entry'[x].portions)) = BlocksNeeded(entry'[x].size)
    BY <1>4, <2>8, <2>10, <2>14
  <2>16. MemoryInv' /\ PositionInv'
    BY <1>3, <2>13, <2>15 DEF MemoryInv, BlocksHeld, PositionInv
  <2> QED BY <1>3, <1>8, <2>16 DEF BlocksInv
<1>10. CASE ~FreesBlock(file)
  <2>1. entry' = [entry EXCEPT ![e] = g] /\ dat' = dat /\ size = call.length
    BY <1>1, <1>10
  <2>2. g.size = size /\ g.portions = ps
    <3> HIDE DEF size
    <3> QED BY <1>2 DEF File
  <2>3. /\ DOMAIN entry' = DOMAIN entry /\ entry'[e] = g
        /\ \A x \in DOMAIN entry \ {e} : entry'[x] = entry[x]
    <3> HIDE DEF g
    <3> QED BY <1>2, <2>1
  <2>4. BlocksNeeded(size) = BlocksNeeded(file.size)
    <3>1. file.size - BytesInLastBlock(file.size) < call.length
      <4>1. ~(Shorter(file) >= call.length)
        BY <1>10 DEF FreesBlock
      <4>2. Shorter(file) = file.size - BytesInLastBlock(file.size)
        BY DEF Shorter
      <4> DEFINE s == Shorter(file)
                 l == call.length
      <4>3. s \in Nat /\ l \in Nat /\ ~(s >= l)
        BY <1>2, <1>6, <4>1, <4>2
      <4>4. s < l
        <5> HIDE DEF s, l
        <5> QED BY <4>3
      <4> QED BY <4>2, <4>4
    <3>2. call.length < file.size
      BY <1>2, <1>3
    <3> QED BY <1>2, <1>6, <2>1, <3>1, <3>2
  <2> HIDE DEF g, size, file
  <2>5. \A x \in DOMAIN entry : entry'[x].portions = entry[x].portions
    BY <1>2, <2>2, <2>3 DEF file
  <2>6. Kept(entry', dat')
    BY <1>4, <2>1, <2>3, <2>5 DEF Kept
  <2>7. \A x \in DOMAIN entry' :
          Cardinality(SetOfBlocks(entry'[x].portions)) = BlocksNeeded(entry'[x].size)
    BY <1>2, <1>4, <2>2, <2>3, <2>4, <2>5 DEF file
  <2>8. MemoryInv' /\ PositionInv'
    BY <1>3, <2>6, <2>7 DEF MemoryInv, BlocksHeld, PositionInv
  <2> QED BY <1>3, <1>8, <2>8 DEF BlocksInv
<1> QED BY <1>9, <1>10

\* The larger of two numbers is one of them.
LEMMA Larger ==
  ASSUME NEW x \in Nat, NEW y \in Nat
  PROVE  /\ Max2(x, y) \in Nat /\ x <= Max2(x, y) /\ y <= Max2(x, y)
         /\ (x <= y => Max2(x, y) = y) /\ (y <= x => Max2(x, y) = x)
  BY DEF Max2

\* What a write in progress has.
LEMMA WriteHolds ==
  ASSUME TablesInv, BlocksInv, Writing, NEW e, e = WriteSlot,
         NEW ps, ps = entry[e].portions, NEW s, s = call.seek \div BlockSize
  PROVE  /\ e \in DOMAIN entry /\ s \in Nat /\ Kept(entry, dat) /\ Tidy(ps)
         /\ call.at \in [portion : Int, block : Int] /\ At(ps, call.at)
         /\ Cardinality(UpTo(ps, call.at)) = s + 1
         /\ entry[e].size \in Nat /\ BlocksNeeded(entry[e].size) \in Nat
         /\ Cardinality(SetOfBlocks(ps)) = Max2(BlocksNeeded(entry[e].size), s + 1)
         /\ \A x \in DOMAIN entry \ {e} :
              Cardinality(SetOfBlocks(entry[x].portions)) = BlocksNeeded(entry[x].size)
<1>1. mounted /\ e \in DOMAIN entry /\ entry[e] \in File /\ call.seek \in Nat
  BY WriteParts
<1>2. s \in Nat
  <2> DEFINE k == call.seek
  <2>1. k \in Nat
    BY <1>1
  <2> HIDE DEF k
  <2>2. k \div BlockSize \in Nat
    BY <2>1, Sizes
  <2> QED BY <2>2 DEF k
<1>3. entry[e].size \in Nat /\ BlocksNeeded(entry[e].size) \in Nat
  BY <1>1, FileParts, NeededMonotone
<1>4. /\ Kept(entry, dat)
      /\ \A x \in DOMAIN entry : Cardinality(SetOfBlocks(entry[x].portions)) = BlocksHeld(x)
  BY <1>1 DEF BlocksInv, MemoryInv
<1>5. Tidy(ps)
  BY <1>1, <1>4 DEF Kept
<1>6. BlocksHeld(e) = Max2(BlocksNeeded(entry[e].size), s + 1)
      /\ \A x : x # e => BlocksHeld(x) = BlocksNeeded(entry[x].size)
  BY DEF BlocksHeld
<1>7. /\ call.at \in [portion : Int, block : Int] /\ At(ps, call.at)
      /\ Cardinality(UpTo(ps, call.at)) = s + 1
  BY DEF BlocksInv, PositionInv
<1> QED BY <1>1, <1>2, <1>3, <1>4, <1>5, <1>6, <1>7

\* What it has to have after a step, so that the blocks are in order.
LEMMA WriteGoesOn ==
  ASSUME BlocksInv, mounted', saved' = saved, call'.op = "write",
         NEW e \in DOMAIN entry, e = fildes'[call'.fd].entry, DOMAIN entry' = DOMAIN entry,
         \A x \in DOMAIN entry \ {e} :
           /\ entry'[x] = entry[x]
           /\ Cardinality(SetOfBlocks(entry[x].portions)) = BlocksNeeded(entry[x].size),
         Kept(entry', dat'), NEW s, s = call'.seek \div BlockSize,
         call'.at \in [portion : Int, block : Int], At(entry'[e].portions, call'.at),
         Cardinality(UpTo(entry'[e].portions, call'.at)) = s + 1,
         Cardinality(SetOfBlocks(entry'[e].portions)) = Max2(BlocksNeeded(entry'[e].size), s + 1)
  PROVE  BlocksInv'
<1>1. Writing' /\ WriteSlot' = e /\ CutInv'
  BY DEF Writing, WriteSlot, CutInv
<1>2. \A x \in DOMAIN entry' : Cardinality(SetOfBlocks(entry'[x].portions)) = BlocksHeld(x)'
  <2> TAKE x \in DOMAIN entry'
  <2>1. CASE x = e
    BY <1>1, <2>1 DEF BlocksHeld
  <2>2. CASE x # e
    BY <1>1, <2>2 DEF BlocksHeld
  <2> QED BY <2>1, <2>2
<1>3. MemoryInv'
  BY <1>2 DEF MemoryInv
<1>4. PositionInv'
  BY <1>1 DEF PositionInv
<1>5. DiskInv'
  BY DEF BlocksInv, DiskInv
<1> QED BY <1>1, <1>3, <1>4, <1>5 DEF BlocksInv

\* Where a write starts: at a block that the file has, or that it gets now.
LEMMA BlocksStartWrite ==
  ASSUME TablesInv, BlocksInv, NEW fd \in DOMAIN fildes, NEW n \in Amounts \ {0},
         NEW v \in Versions, StartWrite(fd, n, v)
  PROVE  BlocksInv'
<1> DEFINE e == fildes[fd].entry
           seek == fildes[fd].seek
           size == entry[e].size
           ps == IF size = 0 THEN <<>> ELSE entry[e].portions
           s == seek \div BlockSize
           atEnd == size = 0 \/ (size = seek /\ seek % BlockSize = 0)
           at == Walk(entry'[e].portions, s)
<1>1. /\ call' = [op |-> "write", fd |-> fd, left |-> n, seek |-> seek, version |-> v, at |-> at]
      /\ UNCHANGED <<mounted, fildes, saved>> /\ mounted /\ call = Idle /\ seek <= size
      /\ \/ /\ atEnd /\ CanGrow
            /\ entry' = [entry EXCEPT ![e].portions = Grown(ps)]
            /\ dat' = Mark(NewBlock(ps))
         \/ ~atEnd /\ UNCHANGED <<entry, dat>>
  BY DEF StartWrite, diskVars, Running
<1>2. e \in DOMAIN entry /\ entry[e] \in File /\ seek \in Nat /\ size \in Nat
  BY TablesParts, FileParts
<1>3. ~Writing
  BY <1>1 DEF Writing, Idle
<1>4. /\ Kept(entry, dat)
      /\ \A x \in DOMAIN entry :
           Cardinality(SetOfBlocks(entry[x].portions)) = BlocksNeeded(entry[x].size)
  BY <1>1, <1>3, MemoryIdle
<1>5. /\ call'.op = "write" /\ fildes'[call'.fd].entry = e /\ call'.at = at
      /\ call'.seek \div BlockSize = s
  <2> HIDE DEF at
  <2> QED BY <1>1
<1>6. s \in Nat /\ BlocksNeeded(size) \in Nat
      /\ (atEnd => s = BlocksNeeded(size))
      /\ (~atEnd => s + 1 <= BlocksNeeded(size))
  <2> DEFINE k == seek
             z == size
  <2>1. k \in Nat /\ z \in Nat /\ k <= z
    BY <1>1, <1>2
  <2> HIDE DEF k, z
  <2>2. CASE z = 0
    <3>1. k = 0
      BY <2>1, <2>2
    <3>2. 0 \div BlockSize = 0
      <4>1. 0 = BlockSize * 0 + 0 /\ 0 \in 0..BlockSize-1
        BY Sizes
      <4> QED BY <4>1, DivisionIs
    <3> QED BY <2>2, <3>1, <3>2, NoBlocks DEF k, z
  <2>3. CASE z # 0
    <3>1. z \in Nat \ {0}
      BY <2>1, <2>3
    <3>2. /\ ~(z = k /\ k % BlockSize = 0) => k \div BlockSize + 1 <= BlocksNeeded(z)
          /\ z = k /\ k % BlockSize = 0 => BlocksNeeded(z) = k \div BlockSize
          /\ BlocksNeeded(z) \in Nat /\ k \div BlockSize \in Nat
      BY <2>1, <3>1, SeekWithin
    <3> QED BY <2>3, <3>2 DEF k, z
  <2> QED BY <2>2, <2>3
<1>7. CASE ~atEnd
  <2>1. entry' = entry /\ dat' = dat
    BY <1>1, <1>7
  <2> DEFINE qs == entry[e].portions
  <2>2. Tidy(qs) /\ Cardinality(SetOfBlocks(qs)) = BlocksNeeded(size)
    BY <1>2, <1>4 DEF Kept
  <2>3. s < Cardinality(SetOfBlocks(qs))
    <3> HIDE DEF s, size, atEnd, qs
    <3> QED BY <1>6, <1>7, <2>2
  <2>4. /\ at \in [portion : Int, block : Int] /\ At(qs, at)
        /\ Cardinality(UpTo(qs, at)) = s + 1
    <3>1. at = Walk(qs, s)
      BY <2>1
    <3> HIDE DEF s, at, qs
    <3> QED BY <1>6, <2>2, <2>3, <3>1, WalkFinds
  <2>5. Cardinality(SetOfBlocks(qs)) = Max2(BlocksNeeded(size), s + 1)
    <3> HIDE DEF s, size, atEnd, qs
    <3> QED BY <1>6, <1>7, <2>2, Larger
  <2>6. entry'[e].portions = qs /\ entry'[e].size = size
    BY <2>1
  <2> HIDE DEF e, s, at, qs, size
  <2>7. \A x \in DOMAIN entry \ {e} :
           /\ entry'[x] = entry[x]
           /\ Cardinality(SetOfBlocks(entry[x].portions)) = BlocksNeeded(entry[x].size)
    BY <1>4, <2>1
  <2>8. mounted' /\ saved' = saved
    BY <1>1
  <2>9. DOMAIN entry' = DOMAIN entry /\ Kept(entry', dat')
    BY <1>4, <2>1
  <2> QED BY <1>2, <1>5, <2>4, <2>5, <2>6, <2>7, <2>8, <2>9, WriteGoesOn
<1>8. CASE atEnd
  <2>1. /\ CanGrow /\ entry' = [entry EXCEPT ![e].portions = Grown(ps)]
        /\ dat' = Mark(NewBlock(ps))
    BY <1>1, <1>8
  <2> DEFINE f == [entry[e] EXCEPT !.portions = Grown(ps)]
             new == [portion |-> Len(Grown(ps)), block |-> NewBlock(ps)]
  <2>2. f.portions = Grown(ps) /\ f.size = size
    <3> DEFINE q == Grown(ps)
    <3> HIDE DEF q
    <3> QED BY <1>2 DEF q, File
  <2>3. /\ DOMAIN entry' = DOMAIN entry /\ entry'[e] = f
        /\ \A x \in DOMAIN entry \ {e} : entry'[x] = entry[x]
    <3>1. entry' = [entry EXCEPT ![e] = f]
      BY <2>1
    <3> HIDE DEF f
    <3> QED BY <1>2, <3>1
  <2>4. entry'[e].portions = Grown(ps) /\ entry'[e].size = size
    BY <2>2, <2>3
  <2>5. /\ Tidy(ps) /\ Cardinality(SetOfBlocks(ps)) = BlocksNeeded(size)
        /\ SetOfBlocks(ps) \subseteq SetOfBlocks(entry[e].portions)
    <3>1. CASE size = 0
      BY <3>1, NoBlocks
    <3>2. CASE size # 0
      BY <1>2, <1>4, <3>2 DEF Kept
    <3> QED BY <3>1, <3>2
  <2> HIDE DEF f, ps, e, size, s, at, seek
  <2>6. /\ Kept(entry', dat') /\ Tidy(Grown(ps))
        /\ Cardinality(SetOfBlocks(Grown(ps))) = Cardinality(SetOfBlocks(ps)) + 1
    BY <1>2, <1>4, <2>1, <2>3, <2>4, <2>5, FileGrows
  <2>7. Cardinality(SetOfBlocks(Grown(ps))) = s + 1 /\ s = BlocksNeeded(size)
    BY <1>6, <1>8, <2>5, <2>6
  <2> DEFINE q == Grown(ps)
  <2>8. at = Walk(q, s) /\ entry'[e].portions = q
    BY <2>4 DEF at
  <2>9. Tidy(q) /\ Cardinality(SetOfBlocks(q)) = s + 1
    BY <2>6, <2>7
  <2> HIDE DEF q
  <2>10. /\ at \in [portion : Int, block : Int] /\ At(q, at)
         /\ Cardinality(UpTo(q, at)) = s + 1
    BY <1>6, <2>8, <2>9, WalkFinds
  <2>11. Max2(BlocksNeeded(size), s + 1) = s + 1
    BY <1>6, <2>7, Larger
  <2>12. \A x \in DOMAIN entry \ {e} :
           /\ entry'[x] = entry[x]
           /\ Cardinality(SetOfBlocks(entry[x].portions)) = BlocksNeeded(entry[x].size)
    BY <1>4, <2>3
  <2>13. mounted' /\ saved' = saved
    BY <1>1
  <2>14. /\ call'.at \in [portion : Int, block : Int] /\ At(entry'[e].portions, call'.at)
         /\ Cardinality(UpTo(entry'[e].portions, call'.at)) = s + 1
         /\ Cardinality(SetOfBlocks(entry'[e].portions)) = Max2(BlocksNeeded(entry'[e].size), s + 1)
    BY <1>5, <2>4, <2>8, <2>9, <2>10, <2>11
  <2>15. /\ call'.op = "write" /\ e = fildes'[call'.fd].entry /\ s = call'.seek \div BlockSize
         /\ e \in DOMAIN entry /\ DOMAIN entry' = DOMAIN entry /\ Kept(entry', dat')
    BY <1>2, <1>5, <2>3, <2>6
  <2> QED BY <2>12, <2>13, <2>14, <2>15, WriteGoesOn
<1> QED BY <1>7, <1>8

\* The next block is one that the file has already.
LEMMA BlocksWriteOn ==
  ASSUME TablesInv, BlocksInv, WriteOn
  PROVE  BlocksInv'
<1> DEFINE e == WriteSlot
           ps == entry[e].portions
           s == call.seek \div BlockSize
           at == call.at
           next == After(ps, at)
           c == Cardinality(UpTo(ps, at))
<1>1. /\ Writing /\ Piece < call.left /\ HasNext /\ Advance(next)
      /\ UNCHANGED <<mounted, dat, entry, fildes, saved>>
  BY DEF WriteOn
<1>2. /\ e \in DOMAIN entry /\ s \in Nat /\ Kept(entry, dat) /\ Tidy(ps)
      /\ at \in [portion : Int, block : Int] /\ At(ps, at)
      /\ Cardinality(UpTo(ps, at)) = s + 1
      /\ entry[e].size \in Nat /\ BlocksNeeded(entry[e].size) \in Nat
      /\ Cardinality(SetOfBlocks(ps)) = Max2(BlocksNeeded(entry[e].size), s + 1)
      /\ \A x \in DOMAIN entry \ {e} :
           Cardinality(SetOfBlocks(entry[x].portions)) = BlocksNeeded(entry[x].size)
  BY <1>1, WriteHolds
<1>3. /\ mounted /\ call.seek \in Nat /\ Piece \in Nat \ {0} /\ Offset + Piece = BlockSize
  BY <1>1, WriteParts
<1>4. /\ call'.op = "write" /\ call'.fd = call.fd /\ call'.at = next
      /\ call'.seek = call.seek + Piece
  <2> HIDE DEF next
  <2> QED BY <1>1, AdvanceCall
<1>5. call'.seek \div BlockSize = s + 1
  <2>1. (call.seek % BlockSize) + Piece = BlockSize /\ BlockSize \in Nat
    BY <1>3, Sizes DEF Offset
  <2> DEFINE k == call.seek
             p == Piece
  <2>2. k \in Nat /\ p \in Nat \ {0} /\ (k % BlockSize) + p = BlockSize /\ BlockSize <= BlockSize
    BY <1>3, <2>1, Sizes
  <2> HIDE DEF k, p
  <2>3. (k + p) \div BlockSize = k \div BlockSize + 1
    BY <2>2, PieceEnds
  <2> QED BY <1>4, <2>3 DEF k, p
<1> HIDE DEF s
<1>6. ~IsLast(ps, at)
  <2> SUFFICES ASSUME IsLast(ps, at) PROVE FALSE
    OBVIOUS
  <2>1. at.portion = Len(ps) /\ at.block = LastBlock(ps[at.portion])
    BY DEF IsLast
  <2>2. at.block \in Int /\ at.portion \in Int
    BY <1>2
  <2>3. at.block < LastBlock(ps[at.portion]) \/ at.portion < Len(ps)
    BY <1>1 DEF HasNext
  <2> HIDE DEF at, ps
  <2> QED BY <2>1, <2>2, <2>3
<1> HIDE DEF at, ps, next, e
<1>7. /\ next \in [portion : Int, block : Int] /\ At(ps, next)
      /\ next.block \notin UpTo(ps, at)
      /\ UpTo(ps, next) = UpTo(ps, at) \cup {next.block}
  BY <1>2, <1>6, AfterNext DEF next
<1>8. /\ UpTo(ps, next) \subseteq SetOfBlocks(ps) /\ UpTo(ps, at) \subseteq SetOfBlocks(ps)
      /\ IsFiniteSet(SetOfBlocks(ps)) /\ Cardinality(SetOfBlocks(ps)) \in Nat
  BY <1>2, <1>7, TidyFinite
<1>9. /\ IsFiniteSet(UpTo(ps, at)) /\ IsFiniteSet(UpTo(ps, next))
      /\ Cardinality(UpTo(ps, next)) <= Cardinality(SetOfBlocks(ps))
  BY <1>8, FS_Subset
<1>10. Cardinality(UpTo(ps, next)) = (s + 1) + 1
  BY <1>2, <1>7, <1>9, FS_AddElement
<1>11. Cardinality(SetOfBlocks(ps)) = Max2(BlocksNeeded(entry[e].size), (s + 1) + 1)
  <2> DEFINE a == BlocksNeeded(entry[e].size)
             z == Cardinality(SetOfBlocks(ps))
  <2>1. a \in Nat /\ s \in Nat /\ z \in Nat /\ (s + 1) + 1 <= z /\ z = Max2(a, s + 1)
    BY <1>2, <1>8, <1>9, <1>10
  <2> HIDE DEF a, z
  <2>2. z = Max2(a, (s + 1) + 1)
    BY <2>1 DEF Max2
  <2> QED BY <2>2 DEF a, z
<1>12. /\ mounted' /\ saved' = saved /\ e = fildes'[call'.fd].entry /\ DOMAIN entry' = DOMAIN entry
       /\ Kept(entry', dat') /\ entry'[e].portions = ps /\ entry'[e].size = entry[e].size
       /\ \A x \in DOMAIN entry \ {e} : entry'[x] = entry[x]
  BY <1>1, <1>2, <1>3, <1>4 DEF e, WriteSlot, ps
<1> DEFINE t == s + 1
<1>13. /\ t = call'.seek \div BlockSize /\ call'.at \in [portion : Int, block : Int]
       /\ At(entry'[e].portions, call'.at)
       /\ Cardinality(UpTo(entry'[e].portions, call'.at)) = t + 1
       /\ Cardinality(SetOfBlocks(entry'[e].portions)) = Max2(BlocksNeeded(entry'[e].size), t + 1)
  BY <1>4, <1>5, <1>7, <1>10, <1>11, <1>12
<1> HIDE DEF t
<1>14. call'.op = "write" /\ e \in DOMAIN entry
       /\ \A x \in DOMAIN entry \ {e} :
            /\ entry'[x] = entry[x]
            /\ Cardinality(SetOfBlocks(entry[x].portions)) = BlocksNeeded(entry[x].size)
  BY <1>2, <1>4, <1>12
<1> QED BY <1>12, <1>13, <1>14, WriteGoesOn

\* The file gets a block for what is left to be written.
LEMMA BlocksWriteGrowing ==
  ASSUME TablesInv, BlocksInv, WriteGrowing
  PROVE  BlocksInv'
<1> DEFINE e == WriteSlot
           ps == entry[e].portions
           s == call.seek \div BlockSize
           q == Grown(ps)
           next == [portion |-> Len(q), block |-> NewBlock(ps)]
           f == [entry[e] EXCEPT !.portions = q]
<1>1. /\ Writing /\ Piece < call.left /\ ~HasNext /\ CanGrow /\ Advance(next)
      /\ UNCHANGED <<mounted, fildes, saved>> /\ dat' = Mark(NewBlock(ps))
      /\ entry' = [entry EXCEPT ![e] = f]
  BY DEF WriteGrowing
<1>2. /\ e \in DOMAIN entry /\ s \in Nat /\ Kept(entry, dat) /\ Tidy(ps)
      /\ call.at \in [portion : Int, block : Int] /\ At(ps, call.at)
      /\ Cardinality(UpTo(ps, call.at)) = s + 1
      /\ entry[e].size \in Nat /\ BlocksNeeded(entry[e].size) \in Nat
      /\ Cardinality(SetOfBlocks(ps)) = Max2(BlocksNeeded(entry[e].size), s + 1)
      /\ \A x \in DOMAIN entry \ {e} :
           Cardinality(SetOfBlocks(entry[x].portions)) = BlocksNeeded(entry[x].size)
  BY <1>1, WriteHolds
<1>3. /\ mounted /\ call.seek \in Nat /\ Piece \in Nat \ {0} /\ Offset + Piece = BlockSize
      /\ entry[e] \in File
  BY <1>1, WriteParts
<1>4. /\ call'.op = "write" /\ call'.fd = call.fd /\ call'.at = next
      /\ call'.seek = call.seek + Piece
  <2> HIDE DEF next
  <2> QED BY <1>1, AdvanceCall
<1>5. call'.seek \div BlockSize = s + 1
  <2>1. (call.seek % BlockSize) + Piece = BlockSize /\ BlockSize \in Nat
    BY <1>3, Sizes DEF Offset
  <2> DEFINE k == call.seek
             p == Piece
  <2>2. k \in Nat /\ p \in Nat \ {0} /\ (k % BlockSize) + p = BlockSize /\ BlockSize <= BlockSize
    BY <1>3, <2>1, Sizes
  <2> HIDE DEF k, p
  <2>3. (k + p) \div BlockSize = k \div BlockSize + 1
    BY <2>2, PieceEnds
  <2> QED BY <1>4, <2>3 DEF k, p
<1>6. IsLast(ps, call.at)
  <2>1. /\ call.at.portion \in 1..Len(ps) /\ Len(ps) \in Nat
        /\ call.at.block \in Int /\ call.at.block <= LastBlock(ps[call.at.portion])
        /\ LastBlock(ps[call.at.portion]) \in Int
    BY <1>2, TidyParts DEF At, LastBlock
  <2>2. ~(call.at.block < LastBlock(ps[call.at.portion])) /\ ~(call.at.portion < Len(ps))
    BY <1>1 DEF HasNext
  <2> DEFINE k == call.at.portion
             b == call.at.block
             l == LastBlock(ps[k])
             z == Len(ps)
  <2>3. k \in 1..z /\ z \in Nat /\ b \in Int /\ l \in Int /\ b <= l /\ ~(b < l) /\ ~(k < z)
    BY <2>1, <2>2
  <2>4. k = z /\ b = l
    <3> HIDE DEF k, b, l, z
    <3> QED BY <2>3
  <2> QED BY <2>4 DEF IsLast
<1> HIDE DEF s
<1>7. f.portions = q /\ f.size = entry[e].size
  <2> HIDE DEF q
  <2> QED BY <1>3 DEF File
<1>8. /\ DOMAIN entry' = DOMAIN entry /\ entry'[e] = f
      /\ \A x \in DOMAIN entry \ {e} : entry'[x] = entry[x]
  <2> HIDE DEF f, e
  <2> QED BY <1>1, <1>2
<1>9. entry'[e].portions = Grown(ps) /\ entry'[e].size = entry[e].size
  BY <1>7, <1>8
<1>10. e = fildes'[call'.fd].entry
  BY <1>1, <1>4 DEF WriteSlot
<1> HIDE DEF e, ps, f
<1>11. next = [portion |-> Len(Grown(ps)), block |-> NewBlock(ps)]
  OBVIOUS
<1> HIDE DEF next, q
<1>12. /\ Kept(entry', dat') /\ Tidy(Grown(ps))
       /\ Cardinality(SetOfBlocks(Grown(ps))) = Cardinality(SetOfBlocks(ps)) + 1
       /\ next \in [portion : Int, block : Int] /\ At(Grown(ps), next) /\ IsLast(Grown(ps), next)
  <2>1. SetOfBlocks(ps) \subseteq SetOfBlocks(entry[e].portions)
    BY DEF ps
  <2> QED BY <1>1, <1>2, <1>8, <1>9, <1>11, <2>1, FileGrows
<1>13. Cardinality(SetOfBlocks(ps)) = s + 1
  BY <1>2, <1>6, LastAll
<1>14. Cardinality(SetOfBlocks(q)) = (s + 1) + 1 /\ Cardinality(UpTo(q, next)) = (s + 1) + 1
  <2>1. UpTo(q, next) = SetOfBlocks(q)
    <3>1. Tidy(q) /\ At(q, next) /\ IsLast(q, next)
      BY <1>12 DEF q
    <3> QED BY <3>1, LastAll
  <2> QED BY <1>12, <1>13, <2>1 DEF q
<1>15. Max2(BlocksNeeded(entry[e].size), (s + 1) + 1) = (s + 1) + 1
  <2> DEFINE a == BlocksNeeded(entry[e].size)
  <2>1. a \in Nat /\ s \in Nat /\ Max2(a, s + 1) = s + 1
    BY <1>2, <1>13
  <2> HIDE DEF a
  <2>2. Max2(a, (s + 1) + 1) = (s + 1) + 1
    BY <2>1 DEF Max2
  <2> QED BY <2>2 DEF a
<1> DEFINE t == s + 1
<1>16. /\ t = call'.seek \div BlockSize /\ call'.at \in [portion : Int, block : Int]
       /\ At(entry'[e].portions, call'.at)
       /\ Cardinality(UpTo(entry'[e].portions, call'.at)) = t + 1
       /\ Cardinality(SetOfBlocks(entry'[e].portions)) = Max2(BlocksNeeded(entry'[e].size), t + 1)
  BY <1>4, <1>5, <1>9, <1>12, <1>14, <1>15 DEF q
<1> HIDE DEF t
<1>17. /\ call'.op = "write" /\ e \in DOMAIN entry /\ mounted' /\ saved' = saved
       /\ \A x \in DOMAIN entry \ {e} :
            /\ entry'[x] = entry[x]
            /\ Cardinality(SetOfBlocks(entry[x].portions)) = BlocksNeeded(entry[x].size)
  BY <1>1, <1>2, <1>3, <1>4, <1>8
<1> QED BY <1>8, <1>10, <1>12, <1>16, <1>17, WriteGoesOn

\* The size that is set at the end needs the blocks that the file has then.
LEMMA BlocksEndWrite ==
  ASSUME TablesInv, BlocksInv, EndWrite
  PROVE  BlocksInv'
<1> DEFINE e == WriteSlot
           ps == entry[e].portions
           s == call.seek \div BlockSize
           size == SizeAfter(entry[e].size)
           f == [entry[e] EXCEPT !.size = size]
<1>1. /\ Writing /\ call' = Idle /\ entry' = [entry EXCEPT ![e] = f]
      /\ UNCHANGED <<mounted, dat, saved>>
  BY DEF EndWrite
<1>2. /\ e \in DOMAIN entry /\ s \in Nat /\ Kept(entry, dat)
      /\ entry[e].size \in Nat /\ BlocksNeeded(entry[e].size) \in Nat
      /\ Cardinality(SetOfBlocks(ps)) = Max2(BlocksNeeded(entry[e].size), s + 1)
      /\ \A x \in DOMAIN entry \ {e} :
           Cardinality(SetOfBlocks(entry[x].portions)) = BlocksNeeded(entry[x].size)
  BY <1>1, WriteHolds
<1>3. /\ call.seek \in Nat /\ Piece \in Nat \ {0} /\ Offset + Piece <= BlockSize
      /\ entry[e] \in File
  BY <1>1, WriteParts
<1>4. BlocksNeeded(size) = Max2(BlocksNeeded(entry[e].size), s + 1)
  <2> DEFINE k == call.seek
             p == Piece
             z == entry[e].size
             y == k + p
  <2>1. /\ k \in Nat /\ p \in Nat \ {0} /\ z \in Nat /\ (k % BlockSize) + p <= BlockSize
        /\ size = Max2(z, k + p)
    BY <1>2, <1>3 DEF Offset, SizeAfter
  <2> HIDE DEF k, p, z
  <2>2. BlocksNeeded(k + p) = k \div BlockSize + 1
    BY <2>1, PieceEnds
  <2>3. y \in Nat
    BY <2>1
  <2> HIDE DEF y
  <2>4. BlocksNeeded(Max2(z, y)) = Max2(BlocksNeeded(z), BlocksNeeded(y))
    BY <2>1, <2>3, NeededMax
  <2>5. size = Max2(z, y)
    BY <2>1 DEF y
  <2> HIDE DEF size
  <2> QED BY <2>2, <2>4, <2>5 DEF k, y, z
<1>5. f.portions = ps /\ f.size = size
  <2> HIDE DEF size
  <2> QED BY <1>3 DEF File
<1>6. /\ DOMAIN entry' = DOMAIN entry /\ entry'[e] = f
      /\ \A x \in DOMAIN entry \ {e} : entry'[x] = entry[x]
  <2> HIDE DEF f, e
  <2> QED BY <1>1, <1>2
<1> HIDE DEF e, f, s, size
<1>7. \A x \in DOMAIN entry : entry'[x].portions = entry[x].portions
  BY <1>2, <1>5, <1>6
<1>8. Kept(entry', dat')
  BY <1>1, <1>2, <1>6, <1>7 DEF Kept
<1>9. \A x \in DOMAIN entry' :
        Cardinality(SetOfBlocks(entry'[x].portions)) = BlocksNeeded(entry'[x].size)
  BY <1>2, <1>4, <1>5, <1>6
<1>10. ~Writing' /\ CutInv'
  BY <1>1 DEF Writing, CutInv, Idle
<1>11. MemoryInv' /\ PositionInv' /\ DiskInv'
  BY <1>1, <1>8, <1>9, <1>10 DEF MemoryInv, BlocksHeld, PositionInv, BlocksInv, DiskInv
<1> QED BY <1>10, <1>11 DEF BlocksInv

\* Every step keeps the blocks in order, if what is mounted is what was saved.
LEMMA BlocksStep ==
  TablesInv /\ BlocksInv /\ LoadsWhatWasSaved /\ [Next]_vars => BlocksInv'
<1> SUFFICES ASSUME TablesInv, BlocksInv, LoadsWhatWasSaved, [Next]_vars PROVE BlocksInv'
  OBVIOUS
<1>1. CASE Next
  <2>1. ASSUME NEW n \in Names, Create(n) \/ Delete(n) \/ Open(n) PROVE BlocksInv'
    BY <2>1, BlocksCreate, BlocksDelete, BlocksOpen
  <2>2. ASSUME NEW fd \in DOMAIN fildes,
               \/ Close(fd)
               \/ \E n \in Amounts \ {0} :
                    Read(fd, n) \/ \E v \in Versions : StartWrite(fd, n, v)
               \/ \E n \in Amounts : Lseek(fd, n) \/ StartTruncate(fd, n)
        PROVE  BlocksInv'
    <3>1. CASE Close(fd) \/ (\E n : Lseek(fd, n)) \/ (\E n : Read(fd, n))
      BY <3>1, BlocksMoves
    <3>2. ASSUME NEW n \in Amounts \ {0}, NEW v \in Versions, StartWrite(fd, n, v)
          PROVE  BlocksInv'
      BY <3>2, BlocksStartWrite
    <3>3. ASSUME NEW n \in Amounts, StartTruncate(fd, n) PROVE BlocksInv'
      BY <3>3, BlocksStartTruncate
    <3> QED BY <2>2, <3>1, <3>2, <3>3
  <2>3. CASE MakeFs \/ Mount \/ Umount \/ Exit
    BY <2>3, BlocksMakeFs, BlocksMount, BlocksUmount, BlocksExit
  <2>4. CASE WriteOn \/ WriteGrowing \/ EndWrite \/ TruncateOn
    BY <2>4, BlocksWriteOn, BlocksWriteGrowing, BlocksEndWrite, BlocksTruncateOn
  <2> QED BY <1>1, <2>1, <2>2, <2>3, <2>4 DEF Next
<1>2. CASE UNCHANGED vars
  <2>1. UNCHANGED <<mounted, dat, file_count, entry, fildes, call, saved, disk>>
    BY <1>2 DEF vars, memoryVars, diskVars
  <2>2. Writing' = Writing /\ WriteSlot' = WriteSlot
    BY <2>1 DEF Writing, WriteSlot
  <2>3. MemoryInv'
    BY <2>1, <2>2 DEF BlocksInv, MemoryInv, BlocksHeld
  <2>4. DiskInv' /\ CutInv' /\ PositionInv'
    BY <2>1, <2>2 DEF BlocksInv, DiskInv, CutInv, PositionInv
  <2> QED BY <2>3, <2>4 DEF BlocksInv
<1> QED BY <1>1, <1>2

\* BlocksInv holds in every state of a run whose mounts load what was saved.
LEMMA BlocksAlways == Spec /\ []LoadsWhatWasSaved => [](TablesInv /\ BlocksInv)
  BY TablesAlways, BlocksInit, BlocksStep, PTL DEF Spec

\* No block belongs to two files and no block of a file is free, through any
\* sequence of writes, truncations, deletions, restarts and full disks, as
\* long as the numbers of the metadata fit the signed bytes they are read as.
THEOREM BlocksStayOwned == Spec /\ []LoadsWhatWasSaved => []BlocksOwned
<1>1. BlocksInv => BlocksOwned
  BY KeptOwned DEF BlocksInv, MemoryInv, BlocksOwned
<1> QED BY <1>1, BlocksAlways, PTL

\* The metadata that a restart finds is consistent in every state, also in
\* the middle of a write: no block is lost or shared in it, and it lists every
\* name once.
THEOREM SavedTableStaysSound == Spec /\ []LoadsWhatWasSaved => []SavedTableSound
<1>1. TablesInv /\ BlocksInv => SavedTableSound
  BY KeptOwned DEF TablesInv, NamesInv, BlocksInv, DiskInv, SavedTableSound
<1> QED BY <1>1, BlocksAlways, PTL

\* Between calls a file has just the blocks that its size needs, also after a
\* write that the full disk cut short and after any truncation.
THEOREM SizesStayCovered == Spec /\ []LoadsWhatWasSaved => []SizesCovered
<1>1. BlocksInv => SizesCovered
  <2> SUFFICES ASSUME BlocksInv, Running
               PROVE  \A e \in DOMAIN entry :
                        Cardinality(SetOfBlocks(entry[e].portions)) = BlocksNeeded(entry[e].size)
    BY DEF SizesCovered
  <2>1. mounted /\ ~Writing
    BY DEF Running, Writing, Idle
  <2> QED BY <2>1, MemoryIdle
<1> QED BY <1>1, BlocksAlways, PTL

-----------------------------------------------------------------------------
(* What is read back as it was written.                                    *)

\* The values of a byte that is read as a signed char, and the numbers whose
\* two bytes survive that.
SignedByte  == -(Radix - Radix \div 2)..Radix \div 2 - 1
Readable(x) == x % Radix \in SignedByte /\ x \div Radix \in SignedByte

\* The row of a file in the metadata has only such numbers.
RowReadable(row) ==
  /\ Readable(Len(row.portions))
  /\ \A k \in 1..Len(row.portions) :
       Readable(row.portions[k].start) /\ Readable(row.portions[k].length)

SavedReadable == \A k \in DOMAIN saved.rows : RowReadable(saved.rows[k])

\* A number consists of its low byte and the rest.
LEMMA Bytes ==
  ASSUME NEW x \in Int
  PROVE  \E q \in Int, lo \in 0..Radix-1 :
           x \div Radix = q /\ x % Radix = lo /\ x = Radix * q + lo
<1> DEFINE q == x \div Radix
           lo == x % Radix
<1>1. Radix \in Nat /\ Radix > 1
  BY Sizes
<1>2. q \in Int /\ lo \in Int /\ x = Radix * q + lo
  BY <1>1
<1>3. lo >= 0 /\ lo < Radix
  BY <1>1
<1>4. q \in Int /\ lo \in 0..Radix-1
  <2> HIDE DEF q, lo
  <2> QED BY <1>1, <1>2, <1>3
<1> QED BY <1>2, <1>4

\* Signed keeps the signed bytes and nothing else.
LEMMA SignedIs ==
  ASSUME NEW x \in Int
  PROVE  /\ Signed(x % Radix) \in SignedByte
         /\ Signed(x % Radix) = x <=> x \in SignedByte
<1> DEFINE R == Radix
           h == Radix \div 2
           m == x % R
           q == x \div R
<1>1. R \in Nat /\ R > 1 /\ h \in Nat /\ h < R /\ h > 0
  BY Sizes
<1>2. q \in Int /\ x = R * q + m /\ m \in 0..R-1
  BY Bytes
<1> HIDE DEF q
<1>3. SignedByte = -(R - h)..h - 1 /\ Signed(m) = IF m >= h THEN m - R ELSE m
  BY DEF SignedByte, Signed
<1>4. m \in Int /\ Signed(m) \in -(R - h)..h - 1
  <2> HIDE DEF R, h, m
  <2> QED BY <1>1, <1>2, <1>3
<1>5. CASE q = 0
  <2>1. R * q = 0
    BY <1>1, <1>5
  <2> HIDE DEF R, h, m
  <2> QED BY <1>1, <1>2, <1>3, <1>4, <2>1 DEF R, m
<1>6. CASE q = -1
  <2>1. R * q = -R
    BY <1>1, <1>6
  <2>2. x = m - R
    <3> HIDE DEF R, h, m
    <3> QED BY <1>1, <1>2, <2>1
  <2>3. (Signed(m) = x) <=> x \in -(R - h)..h - 1
    <3> HIDE DEF R, h, m
    <3> QED BY <1>1, <1>2, <1>3, <2>2
  <2> QED BY <1>3, <1>4, <2>3
<1>7. CASE q > 0
  <2>1. R * q >= R
    <3> HIDE DEF R, h, m
    <3> QED BY <1>1, <1>2, <1>7
  <2>2. x >= R
    <3> DEFINE y == R * q
    <3>1. y \in Int /\ y >= R /\ x = y + m
      BY <1>1, <1>2, <2>1
    <3> HIDE DEF R, h, m, y
    <3> QED BY <1>1, <1>2, <3>1
  <2>3. x \notin -(R - h)..h - 1
    <3> HIDE DEF R, h, m
    <3> QED BY <1>1, <2>2
  <2> QED BY <1>3, <1>4, <2>3
<1>8. CASE q < -1
  <2>1. R * q <= -2 * R
    <3> HIDE DEF R, h, m
    <3> QED BY <1>1, <1>2, <1>8
  <2>2. x < -R
    <3> DEFINE y == R * q
    <3>1. y \in Int /\ y <= -2 * R /\ x = y + m
      BY <1>1, <1>2, <2>1
    <3> HIDE DEF R, h, m, y
    <3> QED BY <1>1, <1>2, <3>1
  <2>3. x \notin -(R - h)..h - 1
    <3> HIDE DEF R, h, m
    <3> QED BY <1>1, <2>2
  <2> QED BY <1>3, <1>4, <2>3
<1> QED BY <1>2, <1>5, <1>6, <1>7, <1>8

\* A number is read back as it was written if and only if it is Readable.
LEMMA ReloadIs ==
  ASSUME NEW x \in Int
  PROVE  Reload(x) = x <=> Readable(x)
<1> DEFINE R == Radix
           q == x \div R
           lo == x % R
           u == Signed(lo)
           v == Signed(q % R)
<1>1. R \in Nat /\ R > 1
  BY Sizes
<1>2. q \in Int /\ lo \in 0..R-1 /\ x = R * q + lo
  BY Bytes
<1>3. v \in SignedByte /\ (v = q <=> q \in SignedByte)
  <2> HIDE DEF q
  <2> QED BY <1>2, SignedIs
<1>4. lo % R = lo
  <2> HIDE DEF lo
  <2> QED BY <1>1, <1>2
<1>5. u \in SignedByte /\ (u = lo <=> lo \in SignedByte)
  <2>1. lo \in Int
    BY <1>2
  <2> HIDE DEF lo
  <2> QED BY <1>4, <2>1, SignedIs
<1>6. u \in Int /\ v \in Int /\ (u = lo \/ u = lo - R)
  <2>1. u \in Int /\ v \in Int
    BY <1>3, <1>5, <1>1 DEF SignedByte
  <2> QED BY <2>1 DEF Signed
<1>7. Reload(x) = v * R + u
  BY DEF Reload
<1>8. Readable(x) <=> lo \in SignedByte /\ q \in SignedByte
  BY DEF Readable
<1>9. v # q + 1
  <2>0. PICK p \in Int, s \in 0..R-1 : q \div R = p /\ q % R = s /\ q = R * p + s
    <3> HIDE DEF q
    <3> QED BY <1>2, Bytes
  <2>1. Signed(s) = s \/ Signed(s) = s - R
    BY DEF Signed
  <2>2. v = s \/ v = s - R
    <3> HIDE DEF q
    <3> QED BY <2>0, <2>1
  <2> SUFFICES ASSUME v = q + 1 PROVE FALSE
    OBVIOUS
  <2> DEFINE y == R * p
  <2>3. y \in Int /\ s \in Int /\ q = y + s
    BY <1>1, <2>0
  <2>4. y = -1 \/ y = -1 - R
    <3> HIDE DEF R, q, lo, u, v, y
    <3> QED BY <1>1, <1>2, <1>6, <2>2, <2>3
  <2>5. y = -1 - R => R * (p + 1) = -1
    <3> HIDE DEF R
    <3> QED BY <1>1, <2>0 DEF y
  <2>6. ASSUME NEW k \in Int PROVE R * k # -1
    <3>1. CASE k >= 0
      <4>1. R * k >= 0
        <5> HIDE DEF R
        <5> QED BY <1>1, <3>1
      <4> QED BY <1>1, <4>1
    <3>2. CASE k < 0
      <4>1. R * k <= -R
        <5> HIDE DEF R
        <5> QED BY <1>1, <3>2
      <4> DEFINE z == R * k
      <4>2. z \in Int /\ z <= -R
        BY <1>1, <4>1
      <4> HIDE DEF R, z
      <4>3. z # -1
        BY <1>1, <4>2
      <4> QED BY <4>3 DEF z
    <3> QED BY <3>1, <3>2
  <2>7. p \in Int /\ p + 1 \in Int /\ y = R * p
    BY <2>0
  <2> HIDE DEF R, q, lo, u, v, y
  <2> QED BY <2>4, <2>5, <2>6, <2>7
<1>10. v * R + u = R * q + lo <=> u = lo /\ v = q
  <2>1. u \in Int /\ v \in Int /\ (u = lo \/ u = lo - R) /\ R \in Nat /\ R > 1 /\ v # q + 1
        /\ q \in Int /\ lo \in Int
    BY <1>1, <1>2, <1>6, <1>9
  <2> HIDE DEF R, q, lo, u, v
  <2>2. \A a, c \in Int : R * a = R * c => a = c
    <3> SUFFICES ASSUME NEW a \in Int, NEW c \in Int, a < c PROVE R * a < R * c
      BY <2>1
    <3>1. R * (c - a) > 0
      BY <2>1
    <3> QED BY <2>1, <3>1
  <2>3. v * R = R * v /\ R * (q + 1) = R * q + R /\ R * v \in Int /\ R * q \in Int
    BY <2>1
  <2>4. R * v = R * q => v = q
    BY <2>1, <2>2
  <2>5. R * v # R * (q + 1)
    BY <2>1, <2>2
  <2>6. v = q => R * v = R * q
    OBVIOUS
  <2> DEFINE y == R * v
             z == R * q
  <2>7. y \in Int /\ z \in Int /\ (y = z <=> v = q) /\ y # z + R /\ v * R = y
    BY <2>3, <2>4, <2>5, <2>6
  <2> HIDE DEF y, z
  <2>8. y + u = z + lo <=> u = lo /\ v = q
    BY <2>1, <2>7
  <2> QED BY <2>7, <2>8 DEF z
<1>11. x = R * q + lo /\ Reload(x) = v * R + u
  BY <1>2, <1>7
<1> HIDE DEF R, q, lo, u, v
<1> QED BY <1>3, <1>5, <1>8, <1>10, <1>11

\* The row of a file is loaded as it was saved if and only if it has only
\* numbers that are Readable.
LEMMA LoadRowIs ==
  ASSUME NEW row \in File
  PROVE  LoadRow(row) = row <=> RowReadable(row)
<1> DEFINE ps == row.portions
           n == Len(ps)
           loaded(k) == [start |-> Reload(ps[k].start), length |-> Reload(ps[k].length)]
<1>1. n \in Nat /\ ps = [k \in 1..n |-> ps[k]] /\ \A k \in 1..n : ps[k] \in Portion
  BY FileParts
<1>2. n \in Int /\ Reload(n) \in Int
  <2>1. n \in Int
    BY <1>1
  <2> HIDE DEF n
  <2> QED BY <2>1, ReloadType
<1>3. Reload(n) = n <=> Readable(n)
  <2> HIDE DEF n
  <2> QED BY <1>2, ReloadIs
<1>4. ASSUME NEW k \in 1..n
      PROVE  loaded(k) = ps[k] <=> Readable(ps[k].start) /\ Readable(ps[k].length)
  <2>1. ps[k].start \in Int /\ ps[k].length \in Int
        /\ ps[k] = [start |-> ps[k].start, length |-> ps[k].length]
    BY <1>1 DEF Portion
  <2>2. /\ Reload(ps[k].start) = ps[k].start <=> Readable(ps[k].start)
        /\ Reload(ps[k].length) = ps[k].length <=> Readable(ps[k].length)
    <3> HIDE DEF ps
    <3> QED BY <2>1, ReloadIs
  <2>3. loaded(k) = ps[k] <=> loaded(k).start = ps[k].start /\ loaded(k).length = ps[k].length
    BY <2>1
  <2> QED BY <2>2, <2>3
<1>5. LoadPortions(ps) = [k \in 1..Reload(n) |-> loaded(k)]
  BY DEF LoadPortions
<1>6. LoadRow(row) = row <=> LoadPortions(ps) = ps
  <2>1. LoadRow(row) = [row EXCEPT !.portions = LoadPortions(ps)]
    BY DEF LoadRow
  <2>2. row = [row EXCEPT !.portions = ps] /\ LoadRow(row).portions = LoadPortions(ps)
    BY <2>1 DEF File
  <2> HIDE DEF ps
  <2> QED BY <2>1, <2>2 DEF ps
<1>7. Reload(0) = 0
  <2>1. 0 % Radix = 0 /\ 0 \div Radix = 0 /\ 0 \in SignedByte
    BY Sizes DEF SignedByte
  <2> QED BY <2>1, ReloadIs DEF Readable
<1>8. ASSUME LoadPortions(ps) = ps PROVE Reload(n) = n /\ \A k \in 1..n : loaded(k) = ps[k]
  <2>1. 1..Reload(n) = 1..n
    <3>1. DOMAIN LoadPortions(ps) = 1..Reload(n) /\ DOMAIN ps = 1..n
      BY <1>1, <1>5
    <3> QED BY <1>8, <3>1
  <2>2. Reload(n) = n
    <3>1. CASE n = 0
      BY <1>7, <3>1
    <3>2. CASE n # 0
      <4> DEFINE r == Reload(n)
      <4>1. r \in Int /\ 1..r = 1..n /\ n \in 1..r
        BY <1>1, <1>2, <2>1, <3>2
      <4> HIDE DEF r, n
      <4>2. n <= r /\ r \in 1..n
        BY <1>1, <4>1
      <4>3. r = n
        BY <1>1, <4>1, <4>2
      <4> QED BY <4>3 DEF r
    <3> QED BY <3>1, <3>2
  <2>3. ASSUME NEW k \in 1..n PROVE loaded(k) = ps[k]
    <3>1. k \in 1..Reload(n)
      BY <2>2
    <3>2. LoadPortions(ps)[k] = loaded(k)
      <4> HIDE DEF ps, n, loaded
      <4> QED BY <1>5, <3>1
    <3> QED BY <1>8, <3>2
  <2> QED BY <2>2, <2>3
<1>9. ASSUME Reload(n) = n, \A k \in 1..n : loaded(k) = ps[k] PROVE LoadPortions(ps) = ps
  <2>1. LoadPortions(ps) = [k \in 1..n |-> loaded(k)]
    BY <1>5, <1>9
  <2>2. [k \in 1..n |-> loaded(k)] = [k \in 1..n |-> ps[k]]
    BY <1>9
  <2> QED BY <1>1, <2>1, <2>2
<1>10. RowReadable(row) <=> Reload(n) = n /\ \A k \in 1..n : loaded(k) = ps[k]
  <2> SUFFICES /\ RowReadable(row) =>
                   Reload(n) = n /\ \A k \in 1..n : loaded(k) = ps[k]
               /\ Reload(n) = n /\ (\A k \in 1..n : loaded(k) = ps[k])
                   => RowReadable(row)
    OBVIOUS
  <2> HIDE DEF loaded
  <2> QED BY <1>3, <1>4 DEF RowReadable
<1> HIDE DEF loaded, n, ps
<1> QED BY <1>6, <1>8, <1>9, <1>10

\* A restart loads exactly what umount_fs saved if and only if both bytes of
\* every number of portions, start and length that it saved are signed bytes
\* (filesystem.c:107-124), for blocks and bytes of any size, also the ones of
\* the program.  Whether a mount gives blocks of one file to another can so be
\* told from the saved numbers alone.
THEOREM LoadsExactlyReadable == Spec => [](LoadsWhatWasSaved <=> SavedReadable)
<1>1. ASSUME TablesInv PROVE LoadsWhatWasSaved <=> SavedReadable
  <2>1. \A k \in DOMAIN saved.rows : saved.rows[k] \in File
    BY <1>1, TablesParts
  <2>2. \A k \in DOMAIN saved.rows :
          LoadRow(saved.rows[k]) = saved.rows[k] <=> RowReadable(saved.rows[k])
    BY <2>1, LoadRowIs
  <2> QED BY <2>2 DEF LoadsWhatWasSaved, SavedReadable
<1> QED BY <1>1, TablesAlways, PTL

\* A file has at least one block in each portion.
LEMMA PortionsFit ==
  ASSUME NEW ps, Tidy(ps)
  PROVE  Len(ps) <= Cardinality(SetOfBlocks(ps))
<1> DEFINE L == Len(ps)
           S == {m \in 0..L : Cardinality(Before(ps, m + 1)) \in Nat
                              /\ Cardinality(Before(ps, m + 1)) >= m}
<1>1. L \in Nat
  BY TidyParts
<1>2. 0 \in S
  <2>1. Cardinality(Before(ps, 1)) = 0
    BY BeforeEnds
  <2>2. 0 + 1 = 1 /\ 0 \in 0..L
    BY <1>1
  <2> QED BY <2>1, <2>2
<1>3. ASSUME NEW m \in 0..L-1, m \in S PROVE m + 1 \in S
  <2> DEFINE k == m + 1
             c == Cardinality(Before(ps, k))
             d == Cardinality(Before(ps, k + 1))
  <2>1. k \in 1..L /\ k \in 0..L /\ m \in Nat
    BY <1>1
  <2>2. c \in Nat /\ c >= m
    BY <1>3
  <2>3. ps[k].length > 0 /\ ps[k].length \in Int
    BY <2>1, TidyParts DEF Tidy
  <2> HIDE DEF k
  <2>4. d = c + ps[k].length
    BY <2>1, BeforeNext
  <2> HIDE DEF c, d
  <2>5. d \in Nat /\ d >= m + 1
    BY <2>1, <2>2, <2>3, <2>4
  <2> QED BY <2>1, <2>5 DEF d, k
<1>4. L \in S
  <2>1. 0..L \subseteq S
    <3> HIDE DEF S, L
    <3> QED BY <1>1, <1>2, <1>3, UpToInduction
  <2> HIDE DEF S
  <2> QED BY <1>1, <2>1
<1> QED BY <1>4, BeforeEnds DEF L

\* At the last umount_fs no block was in use but the first ones of the disk,
\* fewer than half the values of a byte: 127 of 4096 on the disk of disk.h.
FewBlocksSaved ==
  \A b \in BlockNumbers :
    saved.dat[b - FirstBlock] = 1 => Readable(b) /\ b - FirstBlock < Radix \div 2 - 1

\* On the disk of disk.h the first of these two conditions follows from the
\* second one: the blocks are 4096..8191, and 256 divides 4096.
LEMMA ShippedSizes ==
  ASSUME DataBlocks = 4096, Radix = 256
  PROVE  FewBlocksSaved <=>
           \A b \in BlockNumbers : saved.dat[b - FirstBlock] = 1 => b - FirstBlock < 127
<1>1. Radix \div 2 - 1 = 127 /\ SignedByte = -128..127
  BY DEF SignedByte
<1>2. ASSUME NEW b \in BlockNumbers, b - FirstBlock < 127 PROVE Readable(b)
  <2>1. b \in Int /\ b >= 4096 /\ b < 4223
    BY <1>2 DEF BlockNumbers, FirstBlock
  <2>2. b \div 256 = 16 /\ b % 256 = b - 4096
    BY <2>1
  <2>3. b \div 256 \in -128..127 /\ b % 256 \in -128..127
    BY <2>1, <2>2
  <2> QED BY <1>1, <2>3 DEF Readable
<1> QED BY <1>1, <1>2 DEF FewBlocksSaved

\* Numbers below half the values of a byte are read back.
LEMMA SmallReadable ==
  ASSUME NEW x \in Nat, x < Radix \div 2
  PROVE  Readable(x)
<1>1. Radix \in Nat /\ Radix > 1
  BY Sizes
<1>2. x < Radix
  BY <1>1
<1>3. x \div Radix = 0 /\ x % Radix = x
  BY <1>1, <1>2
<1>4. x \in SignedByte /\ 0 \in SignedByte
  BY <1>1 DEF SignedByte
<1> QED BY <1>3, <1>4 DEF Readable

\* If few blocks were in use, then every number in a row is Readable: starts
\* since the blocks are, and numbers and lengths of portions since there are
\* no more of them than blocks.
LEMMA FewReadable ==
  ASSUME FewBlocksSaved, NEW row \in File, Tidy(row.portions),
         SetOfBlocks(row.portions) \subseteq MarkedBlocks(saved.dat)
  PROVE  RowReadable(row)
<1> DEFINE ps == row.portions
           h == Radix \div 2
           lo == FirstBlock
           hi == FirstBlock + h - 2
           c == Cardinality(SetOfBlocks(ps))
<1>1. h \in Nat /\ h > 0 /\ lo \in Int /\ hi \in Int /\ hi = lo + h - 2
  BY Sizes, BlockNumbersType
<1>2. ASSUME NEW b \in SetOfBlocks(ps)
      PROVE  Readable(b) /\ b \in Int /\ b \in lo..hi
  <2>1. b \in BlockNumbers /\ saved.dat[b - FirstBlock] = 1
    BY <1>2 DEF MarkedBlocks
  <2>2. b \in Int /\ lo <= b
    BY <2>1, BlockNumbersType
  <2>3. Readable(b) /\ b - lo < h - 1
    BY <2>1 DEF FewBlocksSaved
  <2>4. b \in lo..hi
    <3> HIDE DEF h, lo, hi
    <3> QED BY <1>1, <2>2, <2>3
  <2> QED BY <2>2, <2>3, <2>4
<1>3. Readable(Len(ps))
  <2>1. IsFiniteSet(lo..hi) /\ Cardinality(lo..hi) = IF lo > hi THEN 0 ELSE hi - lo + 1
    <3> HIDE DEF lo, hi
    <3> QED BY <1>1, FS_Interval
  <2>2. SetOfBlocks(ps) \subseteq lo..hi
    <3> HIDE DEF lo, hi, ps
    <3> QED BY <1>2
  <2>3. c \in Nat /\ c <= Cardinality(lo..hi)
    <3> HIDE DEF lo, hi, ps
    <3> QED BY <2>1, <2>2, FS_Subset, FS_CardinalityType
  <2>4. Len(ps) \in Nat /\ Len(ps) <= c
    BY TidyParts, PortionsFit
  <2>5. Len(ps) < h
    <3> DEFINE L == Len(ps)
               d == Cardinality(lo..hi)
    <3>1. L \in Nat /\ L <= c /\ c \in Nat /\ c <= d /\ (d = 0 \/ d = h - 1)
      <4>1. d = 0 \/ d = h - 1
        <5> HIDE DEF lo, hi, h
        <5> QED BY <1>1, <2>1
      <4> QED BY <2>3, <2>4, <4>1
    <3> HIDE DEF L, d, c, h, lo, hi
    <3> QED BY <1>1, <3>1 DEF L
  <2> HIDE DEF ps
  <2> QED BY <2>4, <2>5, SmallReadable
<1>4. ASSUME NEW k \in 1..Len(ps)
      PROVE  Readable(ps[k].start) /\ Readable(ps[k].length)
  <2> DEFINE s == ps[k].start
             l == ps[k].length
             z == LastBlock(ps[k])
  <2>1. s \in SetOfBlocks(ps) /\ z \in SetOfBlocks(ps)
    BY TidyParts
  <2>2. s \in Int /\ l \in Int /\ z = s + l - 1
    BY TidyParts DEF LastBlock
  <2>3. l > 0
    BY DEF Tidy
  <2>4. Readable(s) /\ s \in lo..hi /\ z \in lo..hi /\ z \in Int
    <3> HIDE DEF s, z, lo, hi, ps
    <3> QED BY <1>2, <2>1
  <2>5. l \in Nat /\ l < h
    <3> HIDE DEF s, l, z, h, lo, hi
    <3> QED BY <1>1, <2>2, <2>3, <2>4
  <2>6. Readable(l)
    <3> HIDE DEF l
    <3> QED BY <2>5, SmallReadable
  <2> QED BY <2>4, <2>6
<1> QED BY <1>3, <1>4 DEF RowReadable

\* So what is loaded is what was saved.
LEMMA FewLoaded == TablesInv /\ BlocksInv /\ FewBlocksSaved => LoadsWhatWasSaved
<1> SUFFICES ASSUME TablesInv, BlocksInv, FewBlocksSaved, NEW k \in DOMAIN saved.rows
             PROVE  LoadRow(saved.rows[k]) = saved.rows[k]
  BY DEF LoadsWhatWasSaved
<1> DEFINE row == saved.rows[k]
<1>1. row \in File
  BY TablesParts
<1>2. Tidy(row.portions) /\ SetOfBlocks(row.portions) \subseteq MarkedBlocks(saved.dat)
  BY DEF BlocksInv, DiskInv, Kept
<1>3. RowReadable(row)
  <2> HIDE DEF row
  <2> QED BY <1>1, <1>2, FewReadable
<1> QED BY <1>1, <1>3, LoadRowIs

\* As long as no umount_fs finds a block in use beyond the first ones, every
\* restart loads what was saved, whatever is written, truncated, deleted and
\* interrupted in between.
THEOREM FewBlocksLoad == Spec /\ []FewBlocksSaved => []LoadsWhatWasSaved
<1>1. TablesInv /\ BlocksInv /\ FewBlocksSaved /\ [Next]_vars => (TablesInv /\ BlocksInv)'
  BY FewLoaded, TablesStep, BlocksStep
<1>2. Init => TablesInv /\ BlocksInv
  BY TablesInit, BlocksInit
<1>3. TablesInv /\ BlocksInv /\ FewBlocksSaved => LoadsWhatWasSaved
  BY FewLoaded
<1> QED BY <1>1, <1>2, <1>3, PTL DEF Spec

-----------------------------------------------------------------------------
(* The blocks of a file, in order.                                         *)

\* FlattenSeq puts one sequence after the other.
LEMMA FlattenTurns ==
  ASSUME NEW n \in Nat \ {0}, NEW seqs \in [1..n -> Seq(Int)]
  PROVE  \E f \in [1..n -> Seq(Int)] :
           /\ f[1] = seqs[1] /\ \A i \in 2..n : f[i] = f[i - 1] \o seqs[i]
           /\ FlattenSeq(seqs) = f[n]
<1> DEFINE m == n - 1
           S == Seq(Int)
           next == [t \in 1..m |-> [s \in S |-> s \o seqs[t + 1]]]
           Is(f) == f = [i \in 1..n |-> IF i = 1 THEN seqs[i] ELSE f[i - 1] \o seqs[i]]
<1>1. m \in Nat /\ n = m + 1 /\ seqs[1] \in S /\ seqs \in Seq(S) /\ Len(seqs) = n
  OBVIOUS
<1>2. next \in [1..m -> [S -> S]]
  <2>1. ASSUME NEW t \in 1..m, NEW s \in S PROVE s \o seqs[t + 1] \in S
    <3>1. t + 1 \in 1..n
      BY <1>1
    <3>2. seqs[t + 1] \in Seq(Int)
      BY <3>1
    <3> QED BY <2>1, <3>2
  <2> HIDE DEF S, m
  <2> QED BY <2>1
<1>3. PICK h \in [0..m -> S] : Stepwise(h, m, seqs[1], next)
  <2> HIDE DEF next, S, m
  <2> QED BY <1>1, <1>2, RecursionExists
<1>4. h[0] = seqs[1] /\ \A t \in 1..m : h[t] = h[t - 1] \o seqs[t + 1]
  <2>1. h[0] = seqs[1] /\ \A t \in 1..m : h[t] = next[t][h[t - 1]]
    <3> HIDE DEF next, S, m
    <3> QED BY <1>3 DEF Stepwise
  <2>2. \A t \in 1..m : h[t - 1] \in S
    <3> HIDE DEF next, S
    <3> QED BY <1>1, <1>3
  <2> HIDE DEF S, m
  <2> QED BY <2>1, <2>2
<1> DEFINE f == [i \in 1..n |-> h[i - 1]]
<1>5. /\ f \in [1..n -> S] /\ f[1] = seqs[1]
      /\ \A i \in 2..n : f[i] = f[i - 1] \o seqs[i]
  <2>1. \A i \in 1..n : i - 1 \in 0..m
    BY <1>1
  <2>2. f \in [1..n -> S]
    <3> HIDE DEF S, m
    <3> QED BY <1>3, <2>1
  <2>3. f[1] = h[0]
    <3>1. 1 \in 1..n /\ 1 - 1 = 0
      BY <1>1
    <3> QED BY <3>1
  <2>4. ASSUME NEW i \in 2..n PROVE f[i] = f[i - 1] \o seqs[i]
    <3>1. i - 1 \in 1..m /\ (i - 1) + 1 = i /\ i - 1 \in 1..n /\ i \in 1..n
      BY <1>1
    <3>2. h[i - 1] = h[(i - 1) - 1] \o seqs[i]
      <4> HIDE DEF S, m
      <4> QED BY <1>4, <3>1
    <3>3. f[i] = h[i - 1] /\ f[i - 1] = h[(i - 1) - 1]
      BY <3>1
    <3> QED BY <3>2, <3>3
  <2> HIDE DEF f, S, m
  <2> QED BY <1>4, <2>2, <2>3, <2>4
<1> HIDE DEF f, next
<1>6. Is(f)
  <2>1. \A i \in 1..n : i # 1 => i \in 2..n
    OBVIOUS
  <2>2. f = [i \in 1..n |-> f[i]]
    BY <1>5
  <2>3. \A i \in 1..n : f[i] = IF i = 1 THEN seqs[i] ELSE f[i - 1] \o seqs[i]
    BY <1>5, <2>1
  <2> QED BY <2>2, <2>3
<1>7. ASSUME NEW g, Is(g) PROVE g = f
  <2>1. DOMAIN g = 1..n /\ g[1] = seqs[1] /\ \A i \in 2..n : g[i] = g[i - 1] \o seqs[i]
    <3>1. 1 \in 1..n /\ \A i \in 2..n : i \in 1..n /\ i # 1
      OBVIOUS
    <3> QED BY <1>7, <3>1
  <2> DEFINE G == {t \in 0..m : g[t + 1] = f[t + 1]}
  <2>2. 0 \in G
    BY <1>1, <1>5, <2>1
  <2>3. ASSUME NEW t \in 0..m-1, t \in G PROVE t + 1 \in G
    <3>1. (t + 1) + 1 \in 2..n /\ ((t + 1) + 1) - 1 = t + 1 /\ t + 1 \in 0..m
      BY <1>1
    <3>2. g[(t + 1) + 1] = g[t + 1] \o seqs[(t + 1) + 1]
      BY <2>1, <3>1
    <3>3. f[(t + 1) + 1] = f[t + 1] \o seqs[(t + 1) + 1]
      BY <1>5, <3>1
    <3> QED BY <2>3, <3>1, <3>2, <3>3
  <2>4. 0..m \subseteq G
    <3> HIDE DEF G, m
    <3> QED BY <1>1, <2>2, <2>3, UpToInduction
  <2>5. \A i \in 1..n : g[i] = f[i]
    <3> TAKE i \in 1..n
    <3>1. i - 1 \in 0..m /\ (i - 1) + 1 = i
      BY <1>1
    <3> QED BY <2>4, <3>1
  <2>6. g = [i \in 1..n |-> g[i]] /\ f = [i \in 1..n |-> f[i]]
    BY <1>5, <1>7, <2>1
  <2> QED BY <2>5, <2>6
<1>8. (CHOOSE g : Is(g)) = f
  <2> HIDE DEF Is
  <2> QED BY <1>6, <1>7
<1>9. FlattenSeq(seqs) = f[n]
  BY <1>1, <1>8 DEF FlattenSeq
<1> QED BY <1>5, <1>9

\* The blocks of a portion, one after the other.
Run(p) == [j \in 1..p.length |-> p.start + j - 1]

\* A list f that has the blocks of the first i portions in their places.
InOrder(f, ps, i) ==
  /\ f \in Seq(Int) /\ Len(f) = Cardinality(Before(ps, i + 1))
  /\ \A x \in 1..Len(f) : f[x] \in SetOfBlocks(ps)
  /\ \A k \in 1..i :
       /\ Cardinality(Before(ps, k)) \in Nat
       /\ Cardinality(Before(ps, k)) + ps[k].length <= Len(f)
       /\ \A j \in 1..ps[k].length : f[Cardinality(Before(ps, k)) + j] = ps[k].start + j - 1

\* The run of a portion.
LEMMA RunIs ==
  ASSUME NEW ps, Tidy(ps), NEW k \in 1..Len(ps)
  PROVE  /\ Run(ps[k]) \in Seq(Int) /\ Len(Run(ps[k])) = ps[k].length
         /\ ps[k].length \in Nat \ {0} /\ ps[k].start \in Int
         /\ \A j \in 1..ps[k].length : /\ Run(ps[k])[j] = ps[k].start + j - 1
                                       /\ Run(ps[k])[j] \in SetOfBlocks(ps)
<1>1. ps[k].length \in Nat \ {0} /\ ps[k].start \in Int
  <2>1. ps[k].length \in Int /\ ps[k].start \in Int
    BY TidyParts
  <2>2. ps[k].length > 0
    BY DEF Tidy
  <2> QED BY <2>1, <2>2
<1> DEFINE l == ps[k].length
           s == ps[k].start
<1>2. \A j \in 1..l : s + j - 1 \in Int /\ s <= s + j - 1 /\ s + j - 1 <= s + l - 1
  BY <1>1
<1>3. Run(ps[k]) \in Seq(Int) /\ Len(Run(ps[k])) = l
  <2>1. Run(ps[k]) = [j \in 1..l |-> s + j - 1]
    BY DEF Run
  <2>2. l \in Nat
    BY <1>1
  <2> HIDE DEF l, s
  <2>3. Run(ps[k]) \in [1..l -> Int]
    BY <1>2, <2>1
  <2> QED BY <2>2, <2>3
<1>4. \A j \in 1..l : Run(ps[k])[j] = s + j - 1
  BY DEF Run
<1>5. \A j \in 1..l : s + j - 1 \in SetOfBlocks(ps)
  BY <1>2, TidyParts DEF LastBlock
<1> QED BY <1>1, <1>3, <1>4, <1>5

\* One more portion is in its place.
LEMMA InOrderNext ==
  ASSUME NEW ps, Tidy(ps), NEW i \in 1..Len(ps), NEW f, InOrder(f, ps, i - 1)
  PROVE  InOrder(f \o Run(ps[i]), ps, i)
<1> DEFINE r == Run(ps[i])
           g == f \o r
           l == ps[i].length
           c == Cardinality(Before(ps, i))
<1>1. i \in Nat /\ (i - 1) + 1 = i
  OBVIOUS
<1>2. f \in Seq(Int) /\ Len(f) = c /\ \A x \in 1..c : f[x] \in SetOfBlocks(ps)
  BY <1>1 DEF InOrder
<1>3. /\ r \in Seq(Int) /\ Len(r) = l /\ l \in Nat \ {0} /\ ps[i].start \in Int
      /\ \A j \in 1..l : r[j] = ps[i].start + j - 1 /\ r[j] \in SetOfBlocks(ps)
  BY RunIs
<1>4. c \in Nat /\ Cardinality(Before(ps, i + 1)) = c + l
  BY BeforeNext
<1> HIDE DEF r, l, c
<1>5. /\ g \in Seq(Int) /\ Len(g) = c + l
      /\ \A x \in 1..c : g[x] = f[x] /\ x \in 1..Len(g)
      /\ \A j \in 1..l : g[c + j] = r[j] /\ c + j \in 1..Len(g)
  <2>1. Len(f) = c /\ Len(r) = l /\ c \in Nat /\ l \in Nat
    BY <1>2, <1>3, <1>4
  <2>0. f \in Seq(Int) /\ r \in Seq(Int)
    BY <1>2, <1>3
  <2>2. g \in Seq(Int) /\ Len(g) = c + l
    <3>1. f \o r \in Seq(Int) /\ Len(f \o r) = Len(f) + Len(r)
      BY <2>0, ConcatProperties
    <3> QED BY <2>1, <3>1
  <2>3. \A x \in 1..c + l : g[x] = IF x <= c THEN f[x] ELSE r[x - c]
    <3>1. \A x \in 1..Len(f) + Len(r) :
            (f \o r)[x] = IF x <= Len(f) THEN f[x] ELSE r[x - Len(f)]
      BY <2>0, ConcatProperties
    <3> QED BY <2>1, <3>1
  <2>4. \A x \in 1..c : x \in 1..c + l /\ x <= c
    BY <2>1
  <2>5. \A j \in 1..l : c + j \in 1..c + l /\ ~(c + j <= c) /\ (c + j) - c = j
    BY <2>1
  <2> HIDE DEF g
  <2> QED BY <2>2, <2>3, <2>4, <2>5
<1>6. \A x \in 1..Len(g) : g[x] \in SetOfBlocks(ps)
  <2> TAKE x \in 1..Len(g)
  <2>1. CASE x <= c
    <3>1. x \in 1..c
      BY <1>4, <1>5, <2>1
    <3> QED BY <1>2, <1>5, <3>1
  <2>2. CASE ~(x <= c)
    <3>1. x - c \in 1..l /\ c + (x - c) = x
      <4>1. x \in 1..c + l
        BY <1>5
      <4> QED BY <1>3, <1>4, <2>2, <4>1
    <3>2. g[c + (x - c)] = r[x - c]
      <4> HIDE DEF g
      <4> QED BY <1>5, <3>1
    <3> QED BY <1>3, <3>1, <3>2
  <2> QED BY <2>1, <2>2
<1> HIDE DEF g
<1>7. ASSUME NEW k \in 1..i
      PROVE  /\ Cardinality(Before(ps, k)) \in Nat
             /\ Cardinality(Before(ps, k)) + ps[k].length <= Len(g)
             /\ \A j \in 1..ps[k].length :
                  g[Cardinality(Before(ps, k)) + j] = ps[k].start + j - 1
  <2>1. CASE k = i
    <3>1. c + l <= Len(g)
      BY <1>3, <1>4, <1>5
    <3> QED BY <1>3, <1>4, <1>5, <2>1, <3>1 DEF c, l
  <2>2. CASE k # i
    <3>1. k \in 1..i-1 /\ k \in 1..Len(ps)
      BY <1>1, <2>2, TidyParts
    <3> DEFINE d == Cardinality(Before(ps, k))
               m == ps[k].length
    <3>2. d \in Nat /\ d + m <= c /\ \A j \in 1..m : f[d + j] = ps[k].start + j - 1
      BY <1>2, <3>1 DEF InOrder
    <3>3. m \in Nat
      BY <3>1, RunIs
    <3> HIDE DEF d, m
    <3>4. \A j \in 1..m : d + j \in 1..c
      BY <1>4, <3>2, <3>3
    <3>5. d + m <= Len(g)
      BY <1>3, <1>4, <1>5, <3>2, <3>3
    <3>6. \A j \in 1..m : g[d + j] = ps[k].start + j - 1
      BY <1>5, <3>2, <3>4
    <3> QED BY <3>2, <3>5, <3>6 DEF d, m
  <2> QED BY <2>1, <2>2
<1>8. Len(g) = Cardinality(Before(ps, i + 1))
  BY <1>4, <1>5
<1>9. InOrder(g, ps, i)
  BY <1>5, <1>6, <1>7, <1>8 DEF InOrder
<1> QED BY <1>9 DEF g, r

\* FileBlocks has the blocks of a file, each once, in the order of positions.
LEMMA FileBlocksAre ==
  ASSUME NEW ps, Tidy(ps)
  PROVE  /\ FileBlocks(ps) \in Seq(Int) /\ Len(FileBlocks(ps)) = Cardinality(SetOfBlocks(ps))
         /\ \A x \in 1..Len(FileBlocks(ps)) : FileBlocks(ps)[x] \in SetOfBlocks(ps)
         /\ \A at : at \in [portion : Int, block : Int] /\ At(ps, at) =>
              FileBlocks(ps)[Cardinality(UpTo(ps, at))] = at.block
<1> DEFINE n == Len(ps)
           seqs == [k \in DOMAIN ps |-> [j \in 1..ps[k].length |-> ps[k].start + j - 1]]
           bs == FileBlocks(ps)
<1>1. n \in Nat /\ DOMAIN ps = 1..n /\ bs = FlattenSeq(seqs)
  BY TidyParts DEF FileBlocks
<1>2. seqs = [k \in 1..n |-> Run(ps[k])]
  BY <1>1 DEF Run
<1>3. \A k \in 1..n : Run(ps[k]) \in Seq(Int)
  BY RunIs
<1> HIDE DEF seqs
<1>4. CASE n = 0
  <2>1. seqs = <<>>
    BY <1>2, <1>4
  <2>2. bs = <<>>
    BY <1>1, <2>1 DEF FlattenSeq
  <2>3. ps = <<>>
    BY <1>4 DEF Tidy
  <2>4. Cardinality(SetOfBlocks(ps)) = 0
    BY <2>3, NoBlocks
  <2>5. \A at : ~At(ps, at)
    BY <1>4 DEF At
  <2> HIDE DEF bs
  <2>6. bs \in Seq(Int) /\ Len(bs) = 0
    BY <2>2
  <2> QED BY <2>4, <2>5, <2>6 DEF bs
<1>5. CASE n # 0
  <2>1. n \in Nat \ {0} /\ seqs \in [1..n -> Seq(Int)]
    BY <1>1, <1>2, <1>3, <1>5
  <2>2. PICK f \in [1..n -> Seq(Int)] :
           /\ f[1] = seqs[1] /\ \A i \in 2..n : f[i] = f[i - 1] \o seqs[i]
           /\ FlattenSeq(seqs) = f[n]
    <3> HIDE DEF n
    <3> QED BY <2>1, FlattenTurns
  <2> DEFINE G == {t \in 0..n : t = 0 \/ InOrder(f[t], ps, t)}
  <2>3. InOrder(<<>>, ps, 0)
    <3>1. Cardinality(Before(ps, 0 + 1)) = 0 /\ <<>> \in Seq(Int) /\ Len(<<>>) = 0
      BY BeforeEnds
    <3> QED BY <3>1 DEF InOrder
  <2>4. 0 \in G
    BY <2>1
  <2>5. ASSUME NEW m \in 0..n-1, m \in G PROVE m + 1 \in G
    <3>1. m + 1 \in 1..n /\ (m + 1) - 1 = m /\ m + 1 \in 0..n
      BY <2>1
    <3> DEFINE i == m + 1
    <3>2. i \in 1..n /\ i - 1 = m /\ seqs[i] = Run(ps[i])
      BY <1>2, <3>1
    <3>3. CASE m = 0
      <4>1. f[1] = Run(ps[1]) /\ i = 1
        BY <2>2, <3>2, <3>3
      <4>2. InOrder(<<>> \o Run(ps[1]), ps, 1)
        <5>1. 1 \in 1..n /\ 1 - 1 = 0
          BY <2>1
        <5> QED BY <2>3, <5>1, InOrderNext
      <4>3. <<>> \o Run(ps[1]) = Run(ps[1])
        <5>1. Run(ps[1]) \in Seq(Int)
          BY <1>3, <2>1
        <5> QED BY <5>1
      <4> QED BY <3>1, <4>1, <4>2, <4>3
    <3>4. CASE m # 0
      <4>1. i \in 2..n /\ InOrder(f[m], ps, m)
        BY <2>5, <3>1, <3>4
      <4>2. f[i] = f[m] \o Run(ps[i])
        <5> HIDE DEF i
        <5> QED BY <2>2, <3>2, <4>1
      <4>3. InOrder(f[m] \o Run(ps[i]), ps, i)
        <5> HIDE DEF i
        <5> QED BY <3>2, <4>1, InOrderNext
      <4> QED BY <3>1, <4>2, <4>3
    <3> QED BY <3>3, <3>4
  <2>6. InOrder(f[n], ps, n)
    <3>1. 0..n \subseteq G
      <4> HIDE DEF G, n
      <4> QED BY <2>1, <2>4, <2>5, UpToInduction
    <3> QED BY <2>1, <3>1
  <2>7. bs = f[n]
    BY <1>1, <2>2
  <2> HIDE DEF bs
  <2>8. /\ bs \in Seq(Int) /\ Len(bs) = Cardinality(SetOfBlocks(ps))
        /\ \A x \in 1..Len(bs) : bs[x] \in SetOfBlocks(ps)
        /\ \A k \in 1..n : \A j \in 1..ps[k].length :
             bs[Cardinality(Before(ps, k)) + j] = ps[k].start + j - 1
    BY <2>6, <2>7, BeforeEnds DEF InOrder
  <2>9. ASSUME NEW at, at \in [portion : Int, block : Int], At(ps, at)
        PROVE  bs[Cardinality(UpTo(ps, at))] = at.block
    <3> DEFINE k == at.portion
               b == at.block
               s == ps[k].start
               l == ps[k].length
    <3>1. k \in 1..n /\ b \in Int /\ s <= b /\ b <= LastBlock(ps[k]) /\ s - 1 <= b
          /\ s \in Int /\ l \in Int /\ LastBlock(ps[k]) = s + l - 1
      <4>1. k \in 1..n /\ b \in Int /\ b \in BlocksOf(ps[k])
        BY <2>9 DEF At
      <4>2. s \in Int /\ l \in Int /\ s <= b /\ b <= LastBlock(ps[k])
        BY <4>1, TidyParts
      <4>3. LastBlock(ps[k]) = s + l - 1
        BY DEF LastBlock
      <4> HIDE DEF s, b, k, l
      <4> QED BY <4>1, <4>2, <4>3
    <3>2. Cardinality(UpTo(ps, at)) = Cardinality(Before(ps, k)) + (b - s + 1)
      <4>1. Cardinality(Before(ps, k) \cup (ps[k].start..b))
              = Cardinality(Before(ps, k)) + (b - ps[k].start + 1)
        <5> HIDE DEF k, b
        <5> QED BY <3>1, CountTo
      <4> QED BY <4>1 DEF UpTo
    <3> DEFINE j == b - s + 1
    <3>3. j \in 1..l /\ s + j - 1 = b
      <4> HIDE DEF s, b, k, l
      <4> QED BY <3>1
    <3>4. bs[Cardinality(Before(ps, k)) + j] = s + j - 1
      <4> HIDE DEF j, k
      <4> QED BY <2>8, <3>1, <3>3
    <3> QED BY <3>2, <3>3, <3>4
  <2> QED BY <2>8, <2>9 DEF bs
<1> QED BY <1>1, <1>4, <1>5

-----------------------------------------------------------------------------
(* The bytes of a file.                                                    *)

\* A byte of a file lies in one of the blocks that the file needs.
LEMMA PlaceWithin ==
  ASSUME NEW len \in Nat, NEW k \in 1..len
  PROVE  /\ (k - 1) \div BlockSize + 1 \in 1..BlocksNeeded(len)
         /\ (k - 1) \div BlockSize \in Nat /\ BlocksNeeded(len) \in Nat
<1> DEFINE s == k - 1
<1>1. s \in Nat /\ s + 1 = k /\ k \in Nat /\ k <= len
  OBVIOUS
<1>2. BlockSize \in Nat \ {0} /\ 1 \in Nat \ {0} /\ (s % BlockSize) + 1 <= BlockSize
  BY <1>1, Sizes
<1> HIDE DEF s
<1>3. BlocksNeeded(s + 1) = s \div BlockSize + 1 /\ s \div BlockSize \in Nat
  BY <1>1, <1>2, PieceEnds
<1>4. BlocksNeeded(k) <= BlocksNeeded(len) /\ BlocksNeeded(len) \in Nat
  BY <1>1, NeededMonotone
<1> QED BY <1>1, <1>3, <1>4 DEF s

\* The bytes that the blocks of a file have after a step.
ContentAfter(portions, len) ==
  LET blocks == FileBlocks(portions)
  IN  [k \in 1..len |-> disk'[blocks[(k - 1) \div BlockSize + 1]][(k - 1) % BlockSize]]

\* The bytes of a file stay as they are if its blocks do.
LEMMA ContentSame ==
  ASSUME NEW ps, Tidy(ps), NEW len \in Nat,
         BlocksNeeded(len) <= Cardinality(SetOfBlocks(ps)),
         \A b \in SetOfBlocks(ps) : disk'[b] = disk[b]
  PROVE  ContentAfter(ps, len) = Content(ps, len)
<1> DEFINE bs == FileBlocks(ps)
<1>1. /\ Len(bs) = Cardinality(SetOfBlocks(ps)) /\ Cardinality(SetOfBlocks(ps)) \in Nat
      /\ \A x \in 1..Len(bs) : bs[x] \in SetOfBlocks(ps)
  BY FileBlocksAre, TidyFinite
<1>2. \A k \in 1..len : disk'[bs[(k - 1) \div BlockSize + 1]] = disk[bs[(k - 1) \div BlockSize + 1]]
  <2> TAKE k \in 1..len
  <2> DEFINE x == (k - 1) \div BlockSize + 1
             n == BlocksNeeded(len)
             c == Cardinality(SetOfBlocks(ps))
  <2>1. x \in 1..n /\ n \in Nat /\ n <= c /\ c \in Nat
    BY <1>1, PlaceWithin
  <2> HIDE DEF x, n
  <2>2. x \in 1..Len(bs)
    <3> HIDE DEF c, bs
    <3>1. Len(bs) = c
      BY <1>1 DEF c
    <3> QED BY <2>1, <3>1
  <2>3. bs[x] \in SetOfBlocks(ps)
    <3> HIDE DEF bs
    <3> QED BY <1>1, <2>2
  <2>4. disk'[bs[x]] = disk[bs[x]]
    BY <2>3
  <2> QED BY <2>4 DEF x
<1>3. Content(ps, len) = [k \in 1..len |-> disk[bs[(k - 1) \div BlockSize + 1]][(k - 1) % BlockSize]]
  BY DEF Content
<1>4. ContentAfter(ps, len)
        = [k \in 1..len |-> disk'[bs[(k - 1) \div BlockSize + 1]][(k - 1) % BlockSize]]
  BY DEF ContentAfter
<1> HIDE DEF bs
<1> QED BY <1>2, <1>3, <1>4

\* A step changes blocks by a new file system, or one block by a write.
LEMMA DiskStep ==
  ASSUME TablesInv, [Next]_vars, disk' # disk
  PROVE  \/ saved' = NothingSaved
         \/ Writing /\ \A b \in BlockNumbers \ {call.at.block} : disk'[b] = disk[b]
<1>1. Next
  BY DEF vars, diskVars
<1>2. PutPiece => \A b \in BlockNumbers \ {call.at.block} : disk'[b] = disk[b]
  BY TablesParts DEF PutPiece
<1>3. \A n \in Names : ~(Create(n) \/ Delete(n) \/ Open(n))
  BY DEF Create, Delete, Open, diskVars
<1>4. \A fd, n, v : ~(Close(fd) \/ Read(fd, n) \/ StartWrite(fd, n, v) \/ Lseek(fd, n) \/ StartTruncate(fd, n))
  BY DEF Close, Read, StartWrite, Lseek, StartTruncate, diskVars
<1>5. ~(Mount \/ Umount \/ Exit \/ TruncateOn)
  BY DEF Mount, Umount, Exit, TruncateOn, diskVars
<1>6. MakeFs \/ WriteOn \/ WriteGrowing \/ EndWrite
  BY <1>1, <1>3, <1>4, <1>5 DEF Next
<1>7. MakeFs => saved' = NothingSaved
  BY DEF MakeFs
<1>8. WriteOn \/ WriteGrowing \/ EndWrite => Writing /\ PutPiece
  BY DEF WriteOn, WriteGrowing, EndWrite
<1> QED BY <1>2, <1>6, <1>7, <1>8

\* A saved file that is loaded as it was saved.
LEMMA SavedFileIs ==
  ASSUME TablesInv, BlocksInv, LoadsWhatWasSaved,
         NEW n \in {saved.rows[k].name : k \in DOMAIN saved.rows}
  PROVE  /\ SavedFile(n) \in File /\ SavedFile(n).name = n /\ SavedFile(n).size \in Nat
         /\ Tidy(SavedFile(n).portions)
         /\ Cardinality(SetOfBlocks(SavedFile(n).portions)) = BlocksNeeded(SavedFile(n).size)
         /\ LoadPortions(SavedFile(n).portions) = SavedFile(n).portions
<1> DEFINE S == {k \in DOMAIN saved.rows : saved.rows[k].name = n}
           k == Least(S)
           row == saved.rows[k]
<1>1. DOMAIN saved.rows \subseteq Nat
  BY TablesParts
<1>2. S \in SUBSET Nat /\ S # {}
  BY <1>1
<1>3. k \in S
  <2> HIDE DEF S
  <2> QED BY <1>2, LeastIs
<1>4. SavedFile(n) = row
  BY DEF SavedFile
<1>5. k \in DOMAIN saved.rows /\ row.name = n
  BY <1>3
<1> HIDE DEF k, S
<1>6. row \in File
  BY <1>5, TablesParts
<1>7. /\ Tidy(row.portions)
      /\ Cardinality(SetOfBlocks(row.portions)) = BlocksNeeded(row.size)
  BY <1>5 DEF BlocksInv, DiskInv, Kept
<1>8. LoadPortions(row.portions) = row.portions
  <2>1. LoadRow(row) = row
    BY <1>5 DEF LoadsWhatWasSaved
  <2>2. LoadRow(row).portions = LoadPortions(row.portions)
    <3> DEFINE q == LoadPortions(row.portions)
    <3> HIDE DEF q
    <3>1. LoadRow(row) = [row EXCEPT !.portions = q]
      BY DEF LoadRow, q
    <3>2. [row EXCEPT !.portions = q].portions = q
      <4> HIDE DEF row
      <4> QED BY <1>6 DEF File
    <3> QED BY <3>1, <3>2 DEF q
  <2> QED BY <2>1, <2>2
<1> QED BY <1>4, <1>5, <1>6, <1>7, <1>8, FileParts

\* A step that writes into a file leaves the saved bytes of the others.
LEMMA CrashKeepsStep ==
  ASSUME TablesInv, BlocksInv, LoadsWhatWasSaved, [Next]_vars, saved' = saved, disk' # disk,
         NEW n \in DOMAIN Durable, ~(Writing /\ fildes[call.fd].name = n),
         NEW e \in SlotsOf(n),
         SetOfBlocks(SavedFile(n).portions) \subseteq SetOfBlocks(entry[e].portions)
  PROVE  Durable'[n] = Durable[n]
<1> DEFINE D == {saved.rows[k].name : k \in DOMAIN saved.rows}
           ps == SavedFile(n).portions
           len == SavedFile(n).size
<1>1. n \in D
  BY DEF Durable
<1>2. /\ SavedFile(n) \in File /\ len \in Nat /\ Tidy(ps)
      /\ Cardinality(SetOfBlocks(ps)) = BlocksNeeded(len) /\ LoadPortions(ps) = ps
  BY <1>1, SavedFileIs
<1>3. saved' # NothingSaved
  <2> SUFFICES ASSUME saved' = NothingSaved PROVE FALSE
    OBVIOUS
  <2>1. DOMAIN saved.rows = {}
    BY NothingSavedSound
  <2> QED BY <1>1, <2>1
<1>4. Writing /\ \A b \in BlockNumbers \ {call.at.block} : disk'[b] = disk[b]
  BY <1>3, DiskStep
<1>5. fildes[call.fd].name # n
  BY <1>4
<1>6. /\ WriteSlot \in DOMAIN entry /\ Kept(entry, dat)
      /\ Tidy(entry[WriteSlot].portions) /\ At(entry[WriteSlot].portions, call.at)
  BY <1>4, WriteHolds
<1>7. e \in DOMAIN entry /\ entry[e].name = n
  BY DEF SlotsOf
<1>8. WriteSlot # e
  <2>1. entry[WriteSlot].name = fildes[call.fd].name
    BY <1>4, WriteParts, TablesParts DEF WriteSlot
  <2> QED BY <1>5, <1>7, <2>1
<1>9. call.at.block \in SetOfBlocks(entry[WriteSlot].portions)
  BY <1>6, TidyParts DEF At
<1>10. SetOfBlocks(entry[WriteSlot].portions) \cap SetOfBlocks(entry[e].portions) = {}
  BY <1>6, <1>7, <1>8 DEF Kept
<1>11. call.at.block \notin SetOfBlocks(ps)
  BY <1>9, <1>10
<1>12. \A b \in SetOfBlocks(ps) : disk'[b] = disk[b]
  BY <1>2, <1>4, <1>11, TidyFinite
<1>13. BlocksNeeded(len) <= Cardinality(SetOfBlocks(ps))
  BY <1>2, NeededMonotone
<1>14. Durable[n] = Content(ps, len)
  BY <1>1, <1>2 DEF Durable
<1>15. Durable'[n] = ContentAfter(ps, len)
  <2>1. SavedFile(n)' = SavedFile(n)
    BY DEF SavedFile
  <2>2. Durable'[n] = [k \in 1..SavedFile(n)'.size |->
           disk'[FileBlocks(LoadPortions(SavedFile(n)'.portions))[(k - 1) \div BlockSize + 1]]
                [(k - 1) % BlockSize]]
    BY <1>1 DEF Durable, Content, LoadPortions, FileBlocks
  <2>3. Durable'[n] = [k \in 1..len |-> disk'[FileBlocks(ps)[(k - 1) \div BlockSize + 1]]
                                             [(k - 1) % BlockSize]]
    BY <1>2, <2>1, <2>2
  <2> QED BY <2>3 DEF ContentAfter
<1> HIDE DEF ps, len
<1>16. ContentAfter(ps, len) = Content(ps, len)
  BY <1>2, <1>12, <1>13, ContentSame
<1> QED BY <1>14, <1>15, <1>16

\* If the process dies, a file that was neither written nor truncated nor
\* deleted since mount_fs is as it was at the last umount_fs.
THEOREM CrashKeeps == Spec /\ []LoadsWhatWasSaved => CrashKeepsFiles
<1>1. ASSUME TablesInv, BlocksInv, LoadsWhatWasSaved, [Next]_vars
      PROVE  [saved' = saved /\ disk' # disk =>
                \A n \in DOMAIN Durable :
                  \/ Writing /\ fildes[call.fd].name = n
                  \/ Durable'[n] = Durable[n]
                  \/ ~\E e \in SlotsOf(n) :
                       SetOfBlocks(SavedFile(n).portions) \subseteq SetOfBlocks(entry[e].portions)]_vars
  BY <1>1, CrashKeepsStep
<1> QED BY <1>1, BlocksAlways, PTL DEF Spec, CrashKeepsFiles

-----------------------------------------------------------------------------
(* fs_read.                                                                *)

\* A later byte is not in an earlier block.
LEMMA DivMonotone ==
  ASSUME NEW x \in Nat, NEW y \in Nat, x <= y
  PROVE  x \div BlockSize \in Nat /\ y \div BlockSize \in Nat /\ x \div BlockSize <= y \div BlockSize
<1>1. x + 1 \in Nat /\ y + 1 \in Nat /\ x + 1 <= y + 1 /\ 1 \in Nat \ {0}
  OBVIOUS
<1>2. (x % BlockSize) + 1 <= BlockSize /\ (y % BlockSize) + 1 <= BlockSize
  BY Sizes
<1>3. BlocksNeeded(x + 1) = x \div BlockSize + 1 /\ x \div BlockSize \in Nat
  BY <1>1, <1>2, PieceEnds
<1>4. BlocksNeeded(y + 1) = y \div BlockSize + 1 /\ y \div BlockSize \in Nat
  BY <1>1, <1>2, PieceEnds
<1>5. BlocksNeeded(x + 1) <= BlocksNeeded(y + 1)
  <2> DEFINE a == x + 1
             b == y + 1
  <2>1. a \in Nat /\ b \in Nat /\ a <= b
    BY <1>1
  <2> HIDE DEF a, b
  <2>2. BlocksNeeded(a) <= BlocksNeeded(b)
    BY <2>1, NeededMonotone
  <2> QED BY <2>2 DEF a, b
<1> QED BY <1>3, <1>4, <1>5

\* A file has no more blocks than the disk.
LEMMA BlocksFit ==
  ASSUME NEW ps, Tidy(ps)
  PROVE  Cardinality(SetOfBlocks(ps)) <= DataBlocks
<1>1. Cardinality(SetOfBlocks(ps)) <= Cardinality(BlockNumbers)
  BY TidyFinite, BlockNumbersType, FS_Subset
<1>2. Cardinality(BlockNumbers) = DataBlocks
  <2> DEFINE lo == FirstBlock
             hi == FirstBlock + DataBlocks - 1
  <2>1. lo \in Int /\ hi \in Int /\ lo <= hi /\ hi - lo + 1 = DataBlocks
    BY Sizes DEF FirstBlock
  <2> HIDE DEF lo, hi
  <2>2. Cardinality(lo..hi) = DataBlocks
    BY <2>1, FS_Interval
  <2> QED BY <2>2 DEF lo, hi, BlockNumbers
<1> QED BY <1>1, <1>2

\* The places that fs_read goes through: f[k] is k blocks after block s.
Places(f, ps, s, m) ==
  f = [k \in 0..m |-> IF k = 0 THEN Walk(ps, s) ELSE After(ps, f[k - 1])]

\* There are such places for a read of any length.
LEMMA PlacesExist ==
  ASSUME NEW ps, NEW s, NEW n \in Nat
  PROVE  \E f : Places(f, ps, s, n)
<1> DEFINE Good(m) == \E f : Places(f, ps, s, m)
           G == {m \in 0..n : Good(m)}
           w == Walk(ps, s)
<1>1. Good(0)
  <2> DEFINE g == [k \in 0..0 |-> w]
  <2>1. g = [k \in 0..0 |-> IF k = 0 THEN w ELSE After(ps, g[k - 1])]
    <3>1. \A k \in 0..0 : k = 0
      OBVIOUS
    <3> HIDE DEF w
    <3> QED BY <3>1
  <2> HIDE DEF g
  <2> QED BY <2>1 DEF Places
<1>2. ASSUME NEW m \in 0..n-1, Good(m) PROVE Good(m + 1)
  <2>1. PICK f : Places(f, ps, s, m)
    BY <1>2
  <2>2. DOMAIN f = 0..m
    BY <2>1 DEF Places
  <2>3. \A k \in 0..m : f[k] = IF k = 0 THEN w ELSE After(ps, f[k - 1])
    <3> HIDE DEF w
    <3> QED BY <2>1 DEF Places, w
  <2> DEFINE last == After(ps, f[m])
             g == [k \in 0..m+1 |-> IF k = m + 1 THEN last ELSE f[k]]
  <2>4. ASSUME NEW k \in 0..m+1 PROVE g[k] = IF k = 0 THEN w ELSE After(ps, g[k - 1])
    <3>1. CASE k = m + 1
      <4>1. k # 0 /\ k - 1 = m /\ m \in 0..m+1 /\ m # m + 1
        BY <1>2, <3>1
      <4>2. g[k] = last /\ g[k - 1] = f[m]
        <5> HIDE DEF last
        <5> QED BY <3>1, <4>1
      <4> QED BY <4>1, <4>2
    <3>2. CASE k # m + 1
      <4>1. k \in 0..m /\ (k # 0 => k - 1 \in 0..m+1 /\ k - 1 # m + 1)
        BY <1>2, <3>2
      <4>2. g[k] = f[k] /\ (k # 0 => g[k - 1] = f[k - 1])
        <5> HIDE DEF last
        <5> QED BY <3>2, <4>1
      <4> HIDE DEF w, g
      <4> QED BY <2>3, <4>1, <4>2
    <3> QED BY <3>1, <3>2
  <2>5. g = [k \in 0..m+1 |-> IF k = 0 THEN w ELSE After(ps, g[k - 1])]
    <3>1. g = [k \in 0..m+1 |-> g[k]]
      OBVIOUS
    <3> HIDE DEF g, w
    <3> QED BY <2>4, <3>1
  <2> HIDE DEF g
  <2> QED BY <2>5 DEF Places
<1>3. 0..n \subseteq G
  <2>1. 0 \in G /\ \A m \in 0..n-1 : m \in G => m + 1 \in G
    <3> HIDE DEF Good
    <3> QED BY <1>1, <1>2
  <2> HIDE DEF G
  <2> QED BY <2>1, UpToInduction
<1>4. n \in G
  <2> HIDE DEF G
  <2> QED BY <1>3
<1> QED BY <1>4

\* They are the blocks of the file, in order.
LEMMA PlacesAre ==
  ASSUME NEW ps, Tidy(ps), NEW s \in Nat, s < Cardinality(SetOfBlocks(ps)),
         NEW n \in Nat, NEW f, Places(f, ps, s, n)
  PROVE  \A k \in 0..n : s + k < Cardinality(SetOfBlocks(ps)) =>
           f[k].block = FileBlocks(ps)[s + k + 1]
<1> DEFINE c == Cardinality(SetOfBlocks(ps))
           Good(k) == s + k < c => /\ f[k] \in [portion : Int, block : Int] /\ At(ps, f[k])
                                   /\ Cardinality(UpTo(ps, f[k])) = s + k + 1
           G == {k \in 0..n : Good(k)}
<1>1. c \in Nat /\ IsFiniteSet(SetOfBlocks(ps))
  BY TidyFinite
<1>2. f[0] = Walk(ps, s) /\ \A k \in 1..n : f[k] = After(ps, f[k - 1])
  <2>1. 0 \in 0..n /\ \A k \in 1..n : k \in 0..n /\ k # 0
    OBVIOUS
  <2> QED BY <2>1 DEF Places
<1>3. 0 \in G
  <2>1. Good(0)
    BY <1>2, WalkFinds
  <2> QED BY <2>1
<1>4. ASSUME NEW m \in 0..n-1, m \in G PROVE m + 1 \in G
  <2>1. m + 1 \in 1..n /\ (m + 1) - 1 = m /\ m + 1 \in 0..n /\ m \in Nat
    BY <1>4
  <2> SUFFICES ASSUME s + (m + 1) < c PROVE Good(m + 1)
    BY <2>1
  <2>2. s + m < c /\ s + m + 1 < c
    BY <1>1, <2>1
  <2>3. /\ f[m] \in [portion : Int, block : Int] /\ At(ps, f[m])
        /\ Cardinality(UpTo(ps, f[m])) = s + m + 1
    BY <1>4, <2>2
  <2>4. f[m + 1] = After(ps, f[m])
    BY <1>2, <2>1
  <2>5. ~IsLast(ps, f[m])
    <3> SUFFICES ASSUME IsLast(ps, f[m]) PROVE FALSE
      OBVIOUS
    <3>1. UpTo(ps, f[m]) = SetOfBlocks(ps)
      BY <2>3, LastAll
    <3>2. c = s + m + 1
      BY <2>3, <3>1
    <3> HIDE DEF c
    <3> QED BY <1>1, <2>1, <2>2, <3>2
  <2> DEFINE at == f[m]
             next == f[m + 1]
  <2>6. /\ next \in [portion : Int, block : Int] /\ At(ps, next)
        /\ next.block \notin UpTo(ps, at)
        /\ UpTo(ps, next) = UpTo(ps, at) \cup {next.block}
    <3>1. at \in [portion : Int, block : Int] /\ At(ps, at) /\ ~IsLast(ps, at) /\ next = After(ps, at)
      BY <2>3, <2>4, <2>5
    <3> HIDE DEF at, next
    <3> QED BY <3>1, AfterNext
  <2>7. IsFiniteSet(UpTo(ps, at))
    <3>1. UpTo(ps, at) \subseteq SetOfBlocks(ps)
      BY <2>3, TidyFinite
    <3> QED BY <1>1, <3>1, FS_Subset
  <2>8. Cardinality(UpTo(ps, next)) = Cardinality(UpTo(ps, at)) + 1
    <3> HIDE DEF at, next
    <3> QED BY <2>6, <2>7, FS_AddElement
  <2>9. Cardinality(UpTo(ps, next)) = s + (m + 1) + 1
    <3>1. Cardinality(UpTo(ps, at)) = s + m + 1
      BY <2>3
    <3> HIDE DEF at, next
    <3> QED BY <2>1, <2>8, <3>1
  <2> QED BY <2>6, <2>9
<1>5. 0..n \subseteq G
  <2> HIDE DEF G
  <2> QED BY <1>3, <1>4, UpToInduction
<1>6. \A k \in 0..n : Good(k)
  <2> HIDE DEF Good
  <2> QED BY <1>5
<1> QED BY <1>6, FileBlocksAre

\* fs_read returns the bytes of the file from the position on.
LEMMA ReadIs ==
  ASSUME TablesInv, BlocksInv, Running, NEW fd \in DOMAIN fildes, NEW n \in 1..MaxSize
  PROVE  ReadBytes(fd, n) =
           SubSeq(Content(FileOf(fd).portions, FileOf(fd).size), fildes[fd].seek + 1,
                  Min2(fildes[fd].seek + n, FileOf(fd).size))
<1> DEFINE ps == FileOf(fd).portions
           size == FileOf(fd).size
           seek == fildes[fd].seek
           s == seek \div BlockSize
           bs == FileBlocks(ps)
           c == Cardinality(SetOfBlocks(ps))
           R == ReadLength(fd, n)
           whole == Content(ps, size)
           to == Min2(seek + n, size)
           at == CHOOSE f : Places(f, ps, s, DataBlocks)
<1>1. /\ FileOf(fd) \in File /\ size \in Nat /\ seek \in Nat /\ fildes[fd].entry \in DOMAIN entry
      /\ n \in Nat /\ n > 0
  BY TablesParts, FileParts, Sizes
<1>2. Tidy(ps) /\ c = BlocksNeeded(size)
  <2>1. mounted /\ ~Writing
    BY DEF Running, Writing, Idle
  <2>2. Tidy(entry[fildes[fd].entry].portions)
        /\ Cardinality(SetOfBlocks(entry[fildes[fd].entry].portions))
             = BlocksNeeded(entry[fildes[fd].entry].size)
    BY <1>1, <2>1, MemoryIdle DEF Kept
  <2> QED BY <2>2 DEF FileOf
<1>3. Places(at, ps, s, DataBlocks)
  BY PlacesExist, Sizes
<1>4. ReadBytes(fd, n) =
        [k \in 1..R |-> disk[at[(seek + k - 1) \div BlockSize - s].block][(seek + k - 1) % BlockSize]]
  BY DEF ReadBytes, Places
<1>5. R \in Nat /\ R = (IF seek + 1 <= to THEN to - (seek + 1) + 1 ELSE 0) /\ to \in Int
      /\ to <= size
  <2> HIDE DEF size, seek
  <2> QED BY <1>1 DEF ReadLength, Min2, Max2, size, seek
<1> HIDE DEF at, R, to
<1>6. ASSUME NEW k \in 1..R
      PROVE  /\ disk[at[(seek + k - 1) \div BlockSize - s].block][(seek + k - 1) % BlockSize]
                  = whole[(seek + 1) + k - 1]
  <2> DEFINE p == seek + k - 1
             q == p \div BlockSize
             i == q - s
  <2>1. p \in Nat /\ p < size /\ seek <= p /\ p + 1 \in 1..size /\ (seek + 1) + k - 1 = p + 1
        /\ (p + 1) - 1 = p
    <3> HIDE DEF size, seek
    <3> QED BY <1>1, <1>5
  <2>2. q \in Nat /\ s \in Nat /\ s <= q
    <3> HIDE DEF p, seek
    <3> QED BY <1>1, <2>1, DivMonotone
  <2>3. q + 1 <= c /\ c \in Nat /\ c <= DataBlocks
    <3>1. q + 1 \in 1..BlocksNeeded(size) /\ BlocksNeeded(size) \in Nat
      <4> DEFINE y == p + 1
      <4>1. y \in 1..size /\ q = (y - 1) \div BlockSize
        BY <2>1
      <4> HIDE DEF y, p, q, size
      <4> QED BY <1>1, <4>1, PlaceWithin DEF size
    <3>2. c <= DataBlocks
      <4> HIDE DEF ps
      <4> QED BY <1>2, BlocksFit
    <3> HIDE DEF c, q, size
    <3> QED BY <1>2, <3>1, <3>2
  <2>4. i \in 0..DataBlocks /\ s + i = q /\ s + i < c /\ s < c
    <3> HIDE DEF q, c, s
    <3> QED BY <2>2, <2>3, Sizes
  <2>5. at[i].block = bs[s + i + 1]
    <3> HIDE DEF i, s, ps
    <3> QED BY <1>2, <1>3, <2>2, <2>4, PlacesAre, Sizes
  <2>6. at[i].block = bs[q + 1]
    BY <2>4, <2>5
  <2>7. whole[p + 1] = disk[bs[q + 1]][p % BlockSize]
    <3> DEFINE y == p + 1
    <3>1. y \in 1..size /\ y - 1 = p
      BY <2>1
    <3>2. whole[y] = disk[bs[(y - 1) \div BlockSize + 1]][(y - 1) % BlockSize]
      <4> HIDE DEF y, bs, size
      <4> QED BY <3>1 DEF Content, bs
    <3> QED BY <3>1, <3>2
  <2> QED BY <2>1, <2>6, <2>7
<1> HIDE DEF whole, seek, s
<1>7. /\ SubSeq(whole, seek + 1, to) = [k \in 1..R |-> whole[(seek + 1) + k - 1]]
  <2> DEFINE S == {whole[j] : j \in seek + 1 .. to}
             a == seek + 1
             sub == SubSeq(whole, a, to)
  <2>1. \A j \in a..to : whole[j] \in S
    OBVIOUS
  <2>2. a \in Int /\ to \in Int
    BY <1>1, <1>5
  <2> HIDE DEF S, a
  <2>3. /\ sub \in Seq(S) /\ Len(sub) = IF a <= to THEN to - a + 1 ELSE 0
        /\ \A j \in 1..to - a + 1 : sub[j] = whole[a + j - 1]
    BY <2>1, <2>2, SubSeqProperties
  <2>4. sub \in [1..Len(sub) -> S]
    BY <2>3, LenProperties
  <2>5. Len(sub) = R
    BY <1>5, <2>3 DEF a
  <2>6. \A k \in 1..R : k \in 1..to - a + 1
    BY <1>5, <2>2 DEF a
  <2>7. \A k \in 1..R : sub[k] = whole[a + k - 1]
    BY <2>3, <2>6
  <2> HIDE DEF sub
  <2>8. sub = [k \in 1..R |-> whole[a + k - 1]]
    BY <2>4, <2>5, <2>7
  <2> QED BY <2>8 DEF sub, a
<1> QED BY <1>4, <1>6, <1>7 DEF whole, to, seek, s

\* fs_read returns what was written, as many bytes as there are: it goes from
\* portion to portion in the order of the file, whatever writes, truncations
\* and full disks have made of its portions.
THEOREM ReadsReturnContent == Spec /\ []LoadsWhatWasSaved => []ReadsBack
<1>1. TablesInv /\ BlocksInv => ReadsBack
  BY ReadIs DEF ReadsBack
<1> QED BY <1>1, BlocksAlways, PTL

=============================================================================
