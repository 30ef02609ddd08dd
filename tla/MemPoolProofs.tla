---------------------------- MODULE MemPoolProofs --------------------------
(***************************************************************************)
(* MemPool proved for every table and every set of sizes a u16 can count the *)
(* blocks of.                                                              *)
(*                                                                         *)
(* NoOverlap says nothing of the table, and the table alone is what an      *)
(* allocation looks at and a release erases by: the inductive invariant     *)
(* ties the two together, block for block.                                 *)
(***************************************************************************)
EXTENDS MemPool, WellFoundedInduction, TLAPS

\* Every block of a chunk holds the length of the chunk, and every other block 0.
Agree(map, chunks) ==
  /\ \A c \in chunks : c.size # 0 /\ c.at + Nmemb(c.size) <= Table
  /\ \A c \in chunks : \A i \in Blocks(c) : map[i] = Nmemb(c.size)
  /\ \A c, d \in chunks : c # d => Blocks(c) \cap Blocks(d) = {}
  /\ \A i \in Indexes : map[i] # 0 => \E c \in chunks : i \in Blocks(c)

IInv ==
  /\ TypeOK
  /\ ~memrdy => held = {}
  /\ memrdy => Agree(memmap, held)
-----------------------------------------------------------------------------
(* The arithmetic and the table.                                           *)

\* A chunk has at least one block, and blocks enough for its bytes.
LEMMA Enough ==
  ASSUME NEW size \in Sizes, size # 0
  PROVE  Nmemb(size) \in Nat /\ Nmemb(size) >= 1 /\ 32 * Nmemb(size) >= size
<1>1. size \in 1..((Word - 1) * 32) /\ Word \in Nat
  BY ConstantsAssumption
<1> DEFINE q == size \div 32
           r == size % 32
           n == q + (IF r # 0 THEN 1 ELSE 0)
<1>2. q \in Nat /\ r \in 0..31 /\ size = 32 * q + r
  BY <1>1
<1>3. n \in 1..(Word - 1) /\ 32 * n >= size
  BY <1>1, <1>2
<1> HIDE DEF q, r
<1>4. n % Word = n
  BY <1>1, <1>3
<1>5. Nmemb(size) = n
  BY <1>4 DEF Nmemb, q, r
<1> QED
  BY <1>3, <1>5

\* A size is a number of bytes, and its number of blocks a number.
LEMMA NmembType ==
  ASSUME NEW size \in Sizes
  PROVE  size \in Nat /\ Nmemb(size) \in Nat
BY ConstantsAssumption DEF Nmemb

LEMMA MarkType ==
  ASSUME NEW map \in [Indexes -> Nat], NEW o, NEW n, NEW value \in Nat
  PROVE  Mark(map, o, n, value) \in [Indexes -> Nat]
BY DEF Mark

LEMMA ZeroedType == Zeroed \in [Indexes -> Nat] /\ Agree(Zeroed, {})
<1>1. Zeroed \in [Indexes -> Nat]
  BY DEF Zeroed
<1>2. \A i \in Indexes : Zeroed[i] = 0
  BY DEF Zeroed
<1> QED
  BY <1>1, <1>2 DEF Agree

\* The blocks of a chunk are entries of the table, its first one among them.
LEMMA ChunkBlocks ==
  ASSUME NEW c \in Chunk, c.size # 0, c.at + Nmemb(c.size) <= Table
  PROVE  c.at \in Blocks(c) /\ Blocks(c) \subseteq Indexes
<1>1. c.at \in 0..(Table - 1) /\ c.size \in Sizes
  BY DEF Chunk, Indexes
<1>2. Nmemb(c.size) \in Nat /\ Nmemb(c.size) >= 1
  BY <1>1, Enough
<1> QED
  BY <1>1, <1>2, ConstantsAssumption DEF Blocks, Indexes

\* Marking a run of free blocks for a new chunk keeps table and chunks in step.
LEMMA Allocated ==
  ASSUME NEW map \in [Indexes -> Nat], NEW chunks \in SUBSET Chunk, Agree(map, chunks),
         NEW size \in Sizes, size # 0, NEW o \in Fits(map, Nmemb(size))
  PROVE  LET new == [at |-> o, size |-> size]
         IN  /\ new \in Chunk /\ new \notin chunks
             /\ Agree(Mark(map, o, Nmemb(size), Nmemb(size)), chunks \cup {new})
<1> DEFINE n == Nmemb(size)
           new == [at |-> o, size |-> size]
           marked == Mark(map, o, n, n)
<1>1. n \in Nat /\ n >= 1
  BY Enough
<1>2. o \in Indexes /\ o + n <= Table /\ \A i \in o..(o + n - 1) : map[i] = 0
  BY DEF Fits
<1>3. new \in Chunk /\ new.at = o /\ new.size = size
  BY <1>2 DEF Chunk
<1>4. Blocks(new) = o..(o + n - 1) /\ Blocks(new) \subseteq Indexes /\ o \in Blocks(new)
  <2>1. Blocks(new) = o..(o + n - 1)
    BY <1>3 DEF Blocks
  <2> QED
    BY <2>1, <1>2, <1>3, ChunkBlocks
<1>5. \A i \in Indexes : marked[i] = IF i \in Blocks(new) THEN n ELSE map[i]
  BY <1>4 DEF Mark
<1>6. ASSUME NEW c \in chunks
      PROVE  /\ c.size # 0 /\ c.at + Nmemb(c.size) <= Table
             /\ c.at \in Blocks(c) /\ Blocks(c) \subseteq Indexes
             /\ Blocks(c) \cap Blocks(new) = {}
             /\ \A i \in Blocks(c) : map[i] = Nmemb(c.size)
  <2>1. c \in Chunk /\ c.size \in Sizes
    BY DEF Chunk
  <2>2. /\ c.size # 0 /\ c.at + Nmemb(c.size) <= Table
        /\ \A i \in Blocks(c) : map[i] = Nmemb(c.size)
    BY DEF Agree
  <2>3. Nmemb(c.size) # 0
    BY <2>1, <2>2, Enough
  <2>4. \A i \in Blocks(new) : map[i] = 0
    BY <1>2, <1>4
  <2>5. Blocks(c) \cap Blocks(new) = {}
    BY <2>2, <2>3, <2>4
  <2> QED
    BY <2>1, <2>2, <2>5, ChunkBlocks
<1>7. new \notin chunks
  <2>1. SUFFICES ASSUME new \in chunks PROVE FALSE
    OBVIOUS
  <2> QED
    BY <2>1, <1>4, <1>6
<1> DEFINE all == chunks \cup {new}
<1> HIDE DEF n, marked, new
<1>8. \A c \in all : c.size # 0 /\ c.at + Nmemb(c.size) <= Table
  BY <1>2, <1>3, <1>6 DEF n
<1>9. \A c \in all : \A i \in Blocks(c) : marked[i] = Nmemb(c.size)
  <2>1. ASSUME NEW c \in chunks, NEW i \in Blocks(c) PROVE marked[i] = Nmemb(c.size)
    BY <1>5, <1>6
  <2>2. ASSUME NEW i \in Blocks(new) PROVE marked[i] = Nmemb(new.size)
    BY <1>3, <1>4, <1>5 DEF n
  <2> QED
    BY <2>1, <2>2
<1>10. \A c, d \in all : c # d => Blocks(c) \cap Blocks(d) = {}
  <2>1. \A c, d \in chunks : c # d => Blocks(c) \cap Blocks(d) = {}
    BY DEF Agree
  <2> QED
    BY <2>1, <1>6
<1>11. \A i \in Indexes : marked[i] # 0 => \E c \in all : i \in Blocks(c)
  <2>1. \A i \in Indexes : map[i] # 0 => \E c \in chunks : i \in Blocks(c)
    BY DEF Agree
  <2> QED
    BY <2>1, <1>5
<1>12. Agree(marked, all)
  BY <1>8, <1>9, <1>10, <1>11 DEF Agree
<1> QED
  BY <1>3, <1>7, <1>12 DEF n, marked, new

\* Erasing what the entry of its first block says frees a chunk and no other block.
LEMMA Released ==
  ASSUME NEW map \in [Indexes -> Nat], NEW chunks \in SUBSET Chunk, Agree(map, chunks),
         NEW c \in chunks
  PROVE  Agree(Mark(map, c.at, map[c.at], 0), chunks \ {c})
<1> DEFINE erased == Mark(map, c.at, map[c.at], 0)
           rest == chunks \ {c}
<1>1. ASSUME NEW d \in chunks
      PROVE  /\ d.size # 0 /\ d.at + Nmemb(d.size) <= Table
             /\ \A i \in Blocks(d) : map[i] = Nmemb(d.size)
             /\ d.at \in Blocks(d) /\ Blocks(d) \subseteq Indexes
  <2>1. d.size # 0 /\ d.at + Nmemb(d.size) <= Table
        /\ \A i \in Blocks(d) : map[i] = Nmemb(d.size)
    BY DEF Agree
  <2> QED
    BY <2>1, ChunkBlocks
<1>2. map[c.at] = Nmemb(c.size)
  BY <1>1
<1>3. \A i \in Indexes : erased[i] = IF i \in Blocks(c) THEN 0 ELSE map[i]
  BY <1>2 DEF Mark, Blocks
<1>4. \A d \in rest : Blocks(c) \cap Blocks(d) = {}
  BY DEF Agree
<1> HIDE DEF erased
<1>5. \A d \in rest : d.size # 0 /\ d.at + Nmemb(d.size) <= Table
  BY <1>1
<1>6. \A d \in rest : \A i \in Blocks(d) : erased[i] = Nmemb(d.size)
  BY <1>1, <1>3, <1>4
<1>7. \A d, e \in rest : d # e => Blocks(d) \cap Blocks(e) = {}
  BY DEF Agree
<1>8. \A i \in Indexes : erased[i] # 0 => \E d \in rest : i \in Blocks(d)
  <2>1. \A i \in Indexes : map[i] # 0 => \E d \in chunks : i \in Blocks(d)
    BY DEF Agree
  <2> QED
    BY <2>1, <1>3
<1>9. Agree(erased, rest)
  BY <1>5, <1>6, <1>7, <1>8 DEF Agree
<1> QED
  BY <1>9 DEF erased
-----------------------------------------------------------------------------
(* Every call keeps the invariant.                                         *)

LEMMA InitIInv == Init => IInv
<1> SUFFICES ASSUME Init PROVE IInv
  OBVIOUS
<1>1. memmap \in [Indexes -> Nat]
  BY DEF Init
<1> QED
  BY <1>1 DEF Init, IInv, TypeOK

\* What mymem_malloc searches is a table in step with what callers hold.
LEMMA SearchedAgrees ==
  ASSUME IInv
  PROVE  Searched \in [Indexes -> Nat] /\ Agree(Searched, held) /\ held \in SUBSET Chunk
BY ZeroedType DEF IInv, TypeOK, Searched

LEMMA HighestFits ==
  ASSUME NEW map, NEW n, NEW o \in Highest(map, n)
  PROVE  o \in Fits(map, n)
BY DEF Highest

LEMMA NextIInv == IInv /\ [Next]_vars => IInv'
<1> SUFFICES ASSUME IInv, [Next]_vars PROVE IInv'
  OBVIOUS
<1> USE DEF IInv
<1>1. CASE UNCHANGED vars
  BY <1>1 DEF vars, TypeOK, Agree
<1>2. CASE MymemInit
  BY <1>2, ZeroedType DEF MymemInit, TypeOK
<1>3. ASSUME NEW size \in Sizes, Mymalloc(size) PROVE IInv'
  <2>1. memrdy' = TRUE /\ refused' = FALSE /\ size # 0
    BY <1>3 DEF Mymalloc
  <2>2. PICK o \in Highest(Searched, Nmemb(size)) :
          /\ memmap' = Mark(Searched, o, Nmemb(size), Nmemb(size))
          /\ held' = held \cup {[at |-> o, size |-> size]}
    BY <1>3 DEF Mymalloc
  <2>3. o \in Fits(Searched, Nmemb(size))
    BY HighestFits
  <2>4. /\ [at |-> o, size |-> size] \in Chunk
        /\ Agree(memmap', held')
    BY <2>1, <2>2, <2>3, SearchedAgrees, Allocated
  <2>5. memmap' \in [Indexes -> Nat]
    BY <2>2, SearchedAgrees, NmembType, MarkType
  <2> QED
    BY <2>1, <2>2, <2>4, <2>5 DEF TypeOK
<1>4. ASSUME NEW size \in Sizes, MymallocFails(size) PROVE IInv'
  BY <1>4, SearchedAgrees DEF MymallocFails, TypeOK
<1>5. ASSUME NEW c \in held, Myfree(c) PROVE IInv'
  <2>1. /\ memrdy /\ memrdy' = memrdy /\ refused' = refused
        /\ memmap' = Mark(memmap, c.at, memmap[c.at], 0) /\ held' = held \ {c}
    BY <1>5 DEF Myfree
  <2>2. memmap \in [Indexes -> Nat] /\ held \in SUBSET Chunk
    BY DEF TypeOK
  <2>3. Agree(memmap', held')
    BY <2>1, <2>2, Released
  <2>4. memmap' \in [Indexes -> Nat]
    BY <2>1, <2>2, MarkType
  <2> QED
    BY <2>1, <2>2, <2>3, <2>4 DEF TypeOK
<1>6. ASSUME NEW c \in held, NEW size \in Sizes, Myrealloc(c, size) PROVE IInv'
  <2>1. memrdy /\ memrdy' = memrdy /\ refused' = FALSE /\ size # 0
    BY <1>6 DEF Myrealloc
  <2>2. memmap \in [Indexes -> Nat] /\ held \in SUBSET Chunk
    BY DEF TypeOK
  <2> DEFINE Map(o) == Mark(memmap, o, Nmemb(size), Nmemb(size))
             More(o) == held \cup {[at |-> o, size |-> size]}
  <2>3. PICK o \in Highest(memmap, Nmemb(size)) :
          memmap' = Mark(Map(o), c.at, Map(o)[c.at], 0) /\ held' = More(o) \ {c}
    BY <1>6 DEF Myrealloc
  <2>4. o \in Fits(memmap, Nmemb(size))
    BY HighestFits
  <2>5. [at |-> o, size |-> size] \in Chunk /\ Agree(Map(o), More(o))
    BY <2>1, <2>2, <2>4, Allocated
  <2>6. Map(o) \in [Indexes -> Nat] /\ More(o) \in SUBSET Chunk /\ c \in More(o)
    BY <2>2, <2>5, NmembType, MarkType
  <2> HIDE DEF Map, More
  <2>7. Agree(memmap', held')
    BY <2>3, <2>5, <2>6, Released
  <2>8. memmap' \in [Indexes -> Nat]
    BY <2>3, <2>6, MarkType
  <2> QED
    BY <2>1, <2>3, <2>6, <2>7, <2>8 DEF TypeOK
<1> QED
  BY <1>1, <1>2, <1>3, <1>4, <1>5, <1>6 DEF Next

\* Whatever is called in whatever order, the invariant holds.
LEMMA Invariance == Spec => []IInv
BY InitIInv, NextIInv, PTL DEF Spec
-----------------------------------------------------------------------------
(* The search.  Cmemb is a recursive function, and the two lemmas about it go *)
(* down the pool block by block: the induction is the search for the highest   *)
(* block of which the claim fails, and there is none.                          *)

\* Every set of numbers that is not empty has a least element.
LEMMA LeastNumber ==
  ASSUME NEW T \in SUBSET Nat, T # {}
  PROVE  \E m \in T : \A k \in T : m <= k
<1>1. IsWellFoundedOn(OpToRel(<, Nat), Nat)
  BY NatLessThanWellFounded, Zenon
<1>2. PICK m \in T : \A k \in T : <<k, m>> \notin OpToRel(<, Nat)
  BY <1>1, WFMin, Zenon
<1>3. \A k \in T : ~(k < m)
  BY <1>2 DEF OpToRel
<1> QED
  BY <1>3

\* What the loop counts at a block, when it counted count[o + 1] at the next one.
Counts(map, count, o) ==
  IF map[o] # 0 THEN 0 ELSE 1 + (IF o = Table - 1 THEN 0 ELSE count[o + 1])

\* The loop defines the count of every block: Cmemb is the function its equation says.
LEMMA CmembIs ==
  ASSUME NEW map
  PROVE  Cmemb(map) = [o \in Indexes |-> Counts(map, Cmemb(map), o)]
<1> DEFINE From(k) == (Table - k)..(Table - 1)
           Solved(k) == \E g : g = [o \in From(k) |-> Counts(map, g, o)]
           Unsolved == {k \in 0..Table : ~Solved(k)}
<1> Table \in Nat \ {0}
  BY ConstantsAssumption
<1>1. Unsolved = {}
  <2> SUFFICES ASSUME Unsolved # {} PROVE FALSE
    OBVIOUS
  <2>1. PICK k \in Unsolved : \A j \in Unsolved : k <= j
    <3>1. Unsolved \in SUBSET Nat
      OBVIOUS
    <3> QED
      BY <3>1, LeastNumber
  <2>2. k \in 0..Table /\ ~Solved(k)
    BY <2>1
  <2>3. CASE k = 0
    <3> DEFINE g == [o \in From(0) |-> 0]
    <3>1. From(0) = {}
      OBVIOUS
    <3>2. g = [o \in From(0) |-> Counts(map, g, o)]
      BY <3>1
    <3> QED
      BY <3>2, <2>2, <2>3
  <2>4. CASE k # 0
    <3>1. k - 1 \in 0..Table
      BY <2>2, <2>4
    <3>2. ~(k <= k - 1)
      BY <2>2
    <3>3. k - 1 \notin Unsolved
      BY <2>1, <3>2
    <3>4. Solved(k - 1)
      BY <3>1, <3>3
    <3>5. PICK g : g = [o \in From(k - 1) |-> Counts(map, g, o)]
      BY <3>4
    <3> DEFINE h == [o \in From(k) |-> IF o = Table - k THEN Counts(map, g, o) ELSE g[o]]
    <3>6. ASSUME NEW o \in From(k)
          PROVE  h[o] = Counts(map, h, o)
      <4>1. Counts(map, h, o) = Counts(map, g, o)
        <5>1. CASE o = Table - 1
          BY <5>1 DEF Counts
        <5>2. CASE o # Table - 1
          <6>1. o + 1 \in From(k) /\ o + 1 # Table - k
            BY <5>2, <2>2
          <6>2. h[o + 1] = g[o + 1]
            BY <6>1
          <6> QED
            BY <6>2 DEF Counts
        <5> QED
          BY <5>1, <5>2
      <4>2. h[o] = Counts(map, g, o)
        <5>1. CASE o = Table - k
          BY <5>1
        <5>2. CASE o # Table - k
          <6>1. o \in From(k - 1)
            BY <5>2, <2>2
          <6> QED
            BY <6>1, <5>2, <3>5
        <5> QED
          BY <5>1, <5>2
      <4> QED
        BY <4>1, <4>2
    <3> HIDE DEF From
    <3>7. h = [o \in From(k) |-> Counts(map, h, o)]
      BY <3>6
    <3> QED
      BY <3>7, <2>2
  <2> QED
    BY <2>3, <2>4
<1>2. Table \in 0..Table /\ From(Table) = Indexes
  BY DEF Indexes
<1>3. Solved(Table)
  BY <1>1, <1>2
<1>4. PICK g : g = [o \in Indexes |-> Counts(map, g, o)]
  BY <1>2, <1>3
<1> QED
  BY <1>4 DEF Cmemb, Counts


\* count[o] is the length of the free run that begins at o: up to a used block or
\* the end of the pool.
LEMMA CmembMeasures ==
  ASSUME NEW map, NEW o \in Indexes
  PROVE  LET n == Cmemb(map)[o]
         IN  /\ n \in Nat /\ o + n <= Table
             /\ \A i \in o..(o + n - 1) : map[i] = 0
             /\ o + n = Table \/ map[o + n] # 0
             /\ n > 1 => Cmemb(map)[o + 1] = n - 1
<1> DEFINE count == Cmemb(map)
           Measured(i) == /\ count[i] \in Nat /\ i + count[i] <= Table
                          /\ \A j \in i..(i + count[i] - 1) : map[j] = 0
                          /\ i + count[i] = Table \/ map[i + count[i]] # 0
                          /\ count[i] > 1 => count[i + 1] = count[i] - 1
           Wrong == {k \in 1..Table : ~Measured(Table - k)}
<1> Table \in Nat \ {0}
  BY ConstantsAssumption
<1>1. ASSUME NEW i \in Indexes
      PROVE  count[i] = Counts(map, count, i)
  BY CmembIs
<1> HIDE DEF count
<1>2. Wrong = {}
  <2> SUFFICES ASSUME Wrong # {} PROVE FALSE
    OBVIOUS
  <2>1. PICK k \in Wrong : \A j \in Wrong : k <= j
    <3>1. Wrong \in SUBSET Nat
      OBVIOUS
    <3> QED
      BY <3>1, LeastNumber
  <2> DEFINE i == Table - k
  <2>2. k \in 1..Table /\ i \in Indexes /\ ~Measured(i)
    BY <2>1 DEF Indexes
  <2>3. count[i] = Counts(map, count, i)
    BY <2>2, <1>1
  <2>4. CASE map[i] # 0
    <3>1. count[i] = 0
      BY <2>3, <2>4 DEF Counts
    <3> QED
      BY <3>1, <2>2, <2>4 DEF Indexes
  <2>5. CASE map[i] = 0 /\ k = 1
    <3>1. count[i] = 1 /\ i = Table - 1
      BY <2>2, <2>3, <2>5 DEF Counts
    <3>2. i..i = {i}
      BY <2>2 DEF Indexes
    <3> QED
      BY <3>1, <3>2, <2>2, <2>5 DEF Indexes
  <2>6. CASE map[i] = 0 /\ k # 1
    <3>1. k - 1 \in 1..Table /\ ~(k <= k - 1) /\ Table - (k - 1) = i + 1
      BY <2>2, <2>6 DEF Indexes
    <3>2. Measured(i + 1)
      BY <3>1, <2>1
    <3>3. count[i] = 1 + count[i + 1]
      BY <2>2, <2>3, <2>6 DEF Counts, Indexes
    <3>4. i + count[i] = (i + 1) + count[i + 1]
      BY <3>2, <3>3, <2>2 DEF Indexes
    <3>5. \A j \in i..(i + count[i] - 1) : j = i \/ j \in (i + 1)..((i + 1) + count[i + 1] - 1)
      <4>1. i \in Int /\ count[i] \in Int /\ count[i + 1] \in Int
        BY <3>2, <3>3, <2>2 DEF Indexes
      <4> HIDE DEF i
      <4> QED
        BY <4>1, <3>4
    <3> QED
      BY <3>2, <3>3, <3>4, <3>5, <2>2, <2>6 DEF Indexes
  <2> QED
    BY <2>4, <2>5, <2>6, <2>2
<1>3. Table - o \in 1..Table /\ Table - (Table - o) = o
  BY DEF Indexes
<1>4. Measured(o)
  BY <1>2, <1>3
<1> QED
  BY <1>4 DEF count

\* A run of n free blocks begins where the loop counts n or more.
LEMMA FitsCounts ==
  ASSUME NEW map, NEW n \in Nat
  PROVE  Fits(map, n) = {o \in Indexes : Cmemb(map)[o] >= n}
<1> SUFFICES ASSUME NEW o \in Indexes
             PROVE  o \in Fits(map, n) <=> Cmemb(map)[o] >= n
  BY DEF Fits
<1> DEFINE c == Cmemb(map)[o]
<1>1. /\ c \in Nat /\ o + c <= Table /\ o \in 0..(Table - 1)
      /\ \A i \in o..(o + c - 1) : map[i] = 0
      /\ o + c = Table \/ map[o + c] # 0
  BY CmembMeasures DEF Indexes
<1> HIDE DEF c
<1>2. ASSUME c >= n PROVE o \in Fits(map, n)
  BY <1>1, <1>2, ConstantsAssumption DEF Fits
<1>3. ASSUME o \in Fits(map, n), c < n PROVE FALSE
  <2>1. o + n <= Table /\ \A i \in o..(o + n - 1) : map[i] = 0
    BY <1>3 DEF Fits
  <2>2. o + c \in o..(o + n - 1) /\ o + c # Table
    BY <1>1, <1>3, <2>1, ConstantsAssumption
  <2> QED
    BY <1>1, <2>1, <2>2
<1> QED
  BY <1>1, <1>2, <1>3 DEF c

\* The loop, stopping at the first block that counts exactly n, stops at the
\* highest block that counts n or more.
LEMMA LoopFindsHighest ==
  ASSUME NEW map, NEW n \in Nat \ {0}
  PROVE  LoopReturns(map, n) = Highest(map, n)
<1> DEFINE count == Cmemb(map)
<1> Table \in Nat \ {0}
  BY ConstantsAssumption
<1>1. Fits(map, n) = {o \in Indexes : count[o] >= n}
  BY FitsCounts
<1>2. ASSUME NEW o \in Indexes
      PROVE  count[o] \in Nat /\ o + count[o] <= Table
             /\ (count[o] > 1 => count[o + 1] = count[o] - 1)
  BY CmembMeasures
<1> HIDE DEF count
<1>3. ASSUME NEW o \in Indexes, count[o] > n
      PROVE  o + 1 \in Indexes /\ count[o + 1] >= n
  BY <1>2, <1>3 DEF Indexes
<1>4. ASSUME NEW o \in LoopReturns(map, n), NEW p \in Indexes, p > o, count[p] >= n
      PROVE  FALSE
  <2> DEFINE Above == {k \in 1..Table : Table - k > o /\ count[Table - k] >= n}
  <2>1. Above # {}
    <3>1. Table - p \in 1..Table /\ Table - (Table - p) = p
      BY DEF Indexes
    <3>2. Table - p \in Above
      BY <3>1, <1>4
    <3> QED
      BY <3>2
  <2>2. PICK k \in Above : \A j \in Above : k <= j
    <3>1. Above \in SUBSET Nat
      OBVIOUS
    <3> QED
      BY <2>1, <3>1, LeastNumber
  <2>3. /\ k \in 1..Table /\ Table - k \in Indexes
        /\ Table - k > o /\ count[Table - k] >= n
    BY <2>2 DEF Indexes
  <2>4. count[Table - k] # n
    BY <2>3 DEF LoopReturns, count
  <2>5. count[Table - k] > n
    BY <2>3, <2>4, <1>2
  <2>6. (Table - k) + 1 \in Indexes /\ count[(Table - k) + 1] >= n
    BY <2>3, <2>5, <1>3
  <2>7. o \in Indexes
    BY DEF LoopReturns
  <2>8. k - 1 \in 1..Table /\ Table - (k - 1) = (Table - k) + 1 /\ (Table - k) + 1 > o
    BY <2>3, <2>6, <2>7 DEF Indexes
  <2>9. k - 1 \in Above
    BY <2>6, <2>8
  <2> QED
    BY <2>2, <2>3, <2>9
<1>5. ASSUME NEW o \in LoopReturns(map, n)
      PROVE  o \in Highest(map, n)
  <2>1. o \in Indexes /\ count[o] = n
    BY DEF LoopReturns, count
  <2>2. \A p \in Fits(map, n) : p <= o
    <3> SUFFICES ASSUME NEW p \in Fits(map, n), p > o PROVE FALSE
      BY <2>1, <1>1 DEF Indexes
    <3> QED
      BY <1>1, <1>4
  <2> QED
    BY <1>1, <2>1, <2>2 DEF Highest
<1>6. ASSUME NEW o \in Highest(map, n)
      PROVE  o \in LoopReturns(map, n)
  <2>1. o \in Indexes /\ count[o] >= n /\ \A p \in Indexes : count[p] >= n => p <= o
    BY <1>1 DEF Highest
  <2>2. count[o] = n
    <3>1. ~(o + 1 <= o)
      BY <2>1 DEF Indexes
    <3>2. ~(count[o] > n)
      BY <2>1, <1>3, <3>1
    <3> QED
      BY <2>1, <3>2, <1>2
  <2>3. ASSUME NEW p \in Indexes, p > o PROVE count[p] # n
    <3>1. ~(p <= o)
      BY <2>1, <2>3 DEF Indexes
    <3> QED
      BY <2>1, <3>1
  <2> QED
    BY <2>1, <2>2, <2>3 DEF LoopReturns, count
<1> QED
  BY <1>5, <1>6

\* Among the runs that are long enough, if there are any, one is the highest.
LEMMA HighestExists ==
  ASSUME NEW map, NEW n, Highest(map, n) = {}
  PROVE  Fits(map, n) = {}
<1> SUFFICES ASSUME Fits(map, n) # {} PROVE FALSE
  OBVIOUS
<1> Table \in Nat \ {0}
  BY ConstantsAssumption
<1> DEFINE Depths == {k \in 0..Table : Table - k \in Fits(map, n)}
<1>1. \A o \in Fits(map, n) : o \in 0..(Table - 1)
  BY DEF Fits, Indexes
<1>2. Depths # {}
  <2>1. PICK o \in Fits(map, n) : TRUE
    OBVIOUS
  <2>2. Table - o \in 0..Table /\ Table - (Table - o) = o
    BY <1>1
  <2>3. Table - o \in Depths
    BY <2>2
  <2> QED
    BY <2>3
<1>3. PICK k \in Depths : \A j \in Depths : k <= j
  <2>1. Depths \in SUBSET Nat
    OBVIOUS
  <2> QED
    BY <1>2, <2>1, LeastNumber
<1>4. ASSUME NEW p \in Fits(map, n) PROVE p <= Table - k
  <2>1. Table - p \in 0..Table /\ Table - (Table - p) = p
    BY <1>1
  <2>2. Table - p \in Depths
    BY <2>1
  <2>3. k <= Table - p
    BY <1>3, <2>2
  <2> QED
    BY <1>1, <1>3, <2>3
<1>5. Table - k \in Highest(map, n)
  BY <1>3, <1>4 DEF Highest, Fits
<1> QED
  BY <1>5
-----------------------------------------------------------------------------
(* The refinement: what is free in the table is what nobody holds.          *)

\* The search looks for a run of zeroes, its caller for a place apart from all other
\* chunks: the two are the same.
LEMMA RoomIsFit ==
  ASSUME NEW map \in [Indexes -> Nat], NEW size \in Sizes, size # 0,
         held \in SUBSET Chunk, Agree(map, held)
  PROVE  Pool!Room(size) = {[at |-> o, size |-> size] : o \in Fits(map, Nmemb(size))}
<1> DEFINE n == Nmemb(size)
           New(o) == [at |-> o, size |-> size]
<1>1. n \in Nat /\ n >= 1
  BY Enough
<1>2. ASSUME NEW o \in Fits(map, n)
      PROVE  New(o) \in Pool!Room(size)
  <2>1. New(o) \in Chunk /\ New(o) \notin held
        /\ Agree(Mark(map, o, n, n), held \cup {New(o)})
    BY Allocated
  <2>2. /\ \A d \in held : Blocks(New(o)) \cap Blocks(d) = {}
        /\ New(o).size # 0 /\ New(o).at + Nmemb(New(o).size) <= Table
    BY <2>1 DEF Agree
  <2>3. Blocks(New(o)) \subseteq Indexes
    BY <2>1, <2>2, ChunkBlocks
  <2>4. New(o) \in [at : Indexes, size : {size}]
    BY DEF Fits
  <2> HIDE DEF New
  <2> QED
    BY <2>2, <2>3, <2>4 DEF Pool!Room
<1>3. ASSUME NEW c \in Pool!Room(size)
      PROVE  c = New(c.at) /\ c.at \in Fits(map, n)
  <2>1. /\ c \in [at : Indexes, size : {size}]
        /\ Blocks(c) \subseteq Indexes /\ \A d \in held : Blocks(c) \cap Blocks(d) = {}
    BY DEF Pool!Room
  <2>2. c = New(c.at) /\ c.at \in Indexes /\ c.size = size
    BY <2>1
  <2>3. Blocks(c) = c.at..(c.at + n - 1)
    BY <2>2 DEF Blocks
  <2>4. c.at + n <= Table
    <3>1. c.at + n - 1 \in Indexes
      BY <1>1, <2>1, <2>2, <2>3 DEF Indexes
    <3> QED
      BY <1>1, <2>2, <3>1, ConstantsAssumption DEF Indexes
  <2>5. \A i \in Blocks(c) : map[i] = 0
    BY <2>1 DEF Agree
  <2> QED
    BY <2>2, <2>3, <2>4, <2>5 DEF Fits
<1> QED
  BY <1>2, <1>3

\* Every call is a step of the allocator; mymem_init is none.
LEMMA NextRefines ==
  ASSUME IInv, [Next]_vars
  PROVE  [Pool!Next]_<<held, refused>>
<1>0. Searched \in [Indexes -> Nat] /\ Agree(Searched, held) /\ held \in SUBSET Chunk
  BY SearchedAgrees
<1>1. CASE UNCHANGED vars
  BY <1>1 DEF vars
<1>2. CASE MymemInit
  BY <1>2 DEF MymemInit
<1>3. ASSUME NEW size \in Sizes, Mymalloc(size) PROVE Pool!Next
  <2>1. PICK o \in Highest(Searched, Nmemb(size)) :
          held' = held \cup {[at |-> o, size |-> size]}
    BY <1>3 DEF Mymalloc
  <2>2. [at |-> o, size |-> size] \in Pool!Room(size)
    BY <1>0, <1>3, <2>1, HighestFits, RoomIsFit DEF Mymalloc
  <2>3. refused' = FALSE
    BY <1>3 DEF Mymalloc
  <2>4. Pool!Allocate(size)
    BY <2>1, <2>2, <2>3 DEF Pool!Allocate
  <2> QED
    BY <2>4 DEF Pool!Next
<1>4. ASSUME NEW size \in Sizes, MymallocFails(size) PROVE Pool!Next
  <2>1. refused' = TRUE /\ held' = held
        /\ (size = 0 \/ Fits(Searched, Nmemb(size)) = {})
    BY <1>4 DEF MymallocFails
  <2>2. Pool!Room(size) = {}
    <3>1. CASE size = 0
      BY <3>1 DEF Pool!Room
    <3>2. CASE size # 0
      BY <1>0, <2>1, <3>2, RoomIsFit
    <3> QED
      BY <3>1, <3>2
  <2>3. Pool!Refuse(size)
    BY <2>1, <2>2 DEF Pool!Refuse
  <2> QED
    BY <2>3 DEF Pool!Next
<1>5. ASSUME NEW c \in held, Myfree(c) PROVE Pool!Next
  <2>1. Pool!Free(c)
    BY <1>5 DEF Myfree, Pool!Free
  <2> QED
    BY <2>1 DEF Pool!Next
<1>6. ASSUME NEW c \in held, NEW size \in Sizes, Myrealloc(c, size) PROVE Pool!Next
  <2>1. PICK o \in Highest(memmap, Nmemb(size)) :
          held' = (held \cup {[at |-> o, size |-> size]}) \ {c}
    BY <1>6 DEF Myrealloc
  <2>2. memrdy /\ refused' = FALSE /\ size # 0
    BY <1>6 DEF Myrealloc
  <2>3. Searched = memmap
    BY <2>2 DEF Searched
  <2>4. [at |-> o, size |-> size] \in Pool!Room(size)
    BY <1>0, <2>1, <2>2, <2>3, HighestFits, RoomIsFit
  <2>5. Pool!Move(c, size)
    BY <2>1, <2>2, <2>4 DEF Pool!Move
  <2> QED
    BY <2>5 DEF Pool!Next
<1> QED
  BY <1>1, <1>2, <1>3, <1>4, <1>5, <1>6 DEF Next
-----------------------------------------------------------------------------
(* The theorems.                                                           *)

\* TypeOK: table entries are numbers, and what callers hold starts in the pool
\* (malloc.c l. 87-111).
THEOREM TypeCorrect == Spec => []TypeOK
<1>1. IInv => TypeOK
  BY DEF IInv
<1> QED
  BY <1>1, Invariance, PTL

\* NoOverlap: two chunks that are held at the same time share no byte, and none
\* leaves the pool (malloc.c l. 95-109).
THEOREM ChunksDisjoint == Spec => []NoOverlap
<1>1. ASSUME IInv PROVE NoOverlap
  <2>1. held \in SUBSET Chunk /\ (held # {} => Agree(memmap, held))
    BY <1>1 DEF IInv, TypeOK
  <2>2. ASSUME NEW c \in held
        PROVE  /\ c.at \in Nat /\ c.size \in Nat /\ Nmemb(c.size) \in Nat
               /\ c.at + Nmemb(c.size) <= Table /\ Nmemb(c.size) >= 1
               /\ 32 * Nmemb(c.size) >= c.size
    <3>1. c.at \in Nat /\ c.size \in Sizes
      BY <2>1, ConstantsAssumption DEF Chunk, Indexes
    <3>2. c.size # 0 /\ c.at + Nmemb(c.size) <= Table
      BY <2>1 DEF Agree
    <3> QED
      BY <3>1, <3>2, Enough, NmembType
  <2>3. ASSUME NEW c \in held PROVE 32 * c.at + c.size <= 32 * Table
    BY <2>2, ConstantsAssumption
  <2>4. ASSUME NEW c \in held, NEW d \in held \ {c}
        PROVE  32 * c.at + c.size <= 32 * d.at \/ 32 * d.at + d.size <= 32 * c.at
    <3>1. Blocks(c) \cap Blocks(d) = {}
      BY <2>1 DEF Agree
    <3>2. c.at \notin Blocks(d) /\ d.at \notin Blocks(c)
      BY <2>2, <3>1 DEF Blocks
    <3>3. c.at + Nmemb(c.size) <= d.at \/ d.at + Nmemb(d.size) <= c.at
      BY <2>2, <3>2 DEF Blocks
    <3> QED
      BY <2>2, <3>3
  <2> QED
    BY <2>3, <2>4 DEF NoOverlap
<1> QED
  BY <1>1, Invariance, PTL

\* TableAgrees: no chunk is lost to the pool by a release, and none is given away
\* twice (malloc.c l. 127-132).
THEOREM TableIsExact == Spec => []TableAgrees
<1>1. ASSUME IInv PROVE TableAgrees
  <2> SUFFICES ASSUME memrdy, NEW i \in Indexes
               PROVE  memmap[i] # 0 <=> \E c \in held : i \in Blocks(c)
    BY DEF TableAgrees
  <2>1. memmap[i] # 0 => \E c \in held : i \in Blocks(c)
    BY <1>1 DEF IInv, Agree
  <2>2. ASSUME NEW c \in held, i \in Blocks(c) PROVE memmap[i] # 0
    <3>1. memmap[i] = Nmemb(c.size) /\ c.size # 0
      BY <1>1, <2>2 DEF IInv, Agree
    <3>2. c.size \in Sizes
      BY <1>1 DEF IInv, TypeOK, Chunk
    <3> QED
      BY <3>1, <3>2, Enough
  <2> QED
    BY <2>1, <2>2
<1> QED
  BY <1>1, Invariance, PTL

\* KeptIsUntouched: what one caller allocates or frees never touches the entries of
\* another's chunk (malloc.c l. 103-106, 129-132).
THEOREM OthersUntouched == Spec => KeptIsUntouched
<1>1. ASSUME IInv, IInv', NEW c \in held \cap held', NEW i \in Blocks(c)
      PROVE  memmap'[i] = memmap[i]
  <2>1. memrdy /\ memrdy'
    BY <1>1 DEF IInv
  <2>2. memmap[i] = Nmemb(c.size)
    BY <1>1, <2>1 DEF IInv, Agree
  <2>3. memmap'[i] = Nmemb(c.size)
    BY <1>1, <2>1 DEF IInv, Agree
  <2> QED
    BY <2>2, <2>3
<1>2. IInv /\ IInv' =>
        [\A c \in held \cap held' : \A i \in Blocks(c) : memmap'[i] = memmap[i]]_vars
  BY <1>1
<1> QED
  BY <1>2, Invariance, PTL DEF KeptIsUntouched

\* SearchIsComplete: whatever the table holds, mymem_malloc's loop returns the
\* highest run of free blocks that is long enough, and fails only if there is none
\* (malloc.c l. 97-109).
THEOREM SearchComplete == Spec => []SearchIsComplete
<1>1. SearchIsComplete
  BY LoopFindsHighest, HighestExists, ConstantsAssumption DEF SearchIsComplete
<1> QED
  BY <1>1, PTL

\* IsAllocator: what mymem_malloc looks for in its table is what its callers are
\* promised of their chunks.  A request is refused only when no place for it is left,
\* what it gets is apart from everything held, and myrealloc moves a chunk to such a
\* place (malloc.c l. 87-193).
THEOREM PoolIsAllocator == Spec => IsAllocator
<1>1. Init => Pool!Init
  BY DEF Init, Pool!Init
<1>2. IInv /\ [Next]_vars => [Pool!Next]_<<held, refused>>
  BY NextRefines
<1> QED
  BY <1>1, <1>2, Invariance, PTL DEF Spec, IsAllocator, Pool!Spec
=============================================================================
