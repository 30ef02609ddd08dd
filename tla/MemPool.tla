------------------------------- MODULE MemPool -----------------------------
(***************************************************************************)
(* MALLOC/malloc.c: one of the pools that mymalloc, myfree and myrealloc   *)
(* manage.  A table holds, for every block of 32 bytes, 0 or the number of *)
(* blocks of the chunk it belongs to; an allocation takes the highest run  *)
(* of free blocks that is long enough.                                     *)
(*                                                                         *)
(* The pool takes no lock.  Its users never run inside one another: main() *)
(* before OSStart, tcp_client_thread until it posts regist_msg_ptr, the    *)
(* tcpip thread on behalf of a task that waits for it, mqtt_thread after.  *)
(***************************************************************************)
EXTENDS Integers

CONSTANTS
  Table,   \* memtblsize: blocks of the pool
  Word,    \* values of a u16
  Sizes    \* sizes in bytes the callers ask for

\* No caller asks for Word blocks, which nmemb (u16) could not count.
ASSUME ConstantsAssumption ==
  /\ Table \in Nat \ {0} /\ Word \in Nat \ {0}
  /\ Sizes \subseteq 0..((Word - 1) * 32)

VARIABLES
  memrdy,  \* mymem_init was called
  memmap,  \* the table
  held,    \* what callers hold: where a chunk starts and the size asked for
  refused  \* the last request got NULL

vars == <<memrdy, memmap, held, refused>>

Indexes == 0..(Table - 1)
Zeroed  == [i \in Indexes |-> 0]

\* Mutant: the remainder is forgotten.
NmembTruncates(size) == size \div 32

\* nmemb=size/memblksize, and one more for a remainder.
Nmemb(size) == ((size \div 32) + (IF size % 32 # 0 THEN 1 ELSE 0)) % Word

Chunk == [at : Indexes, size : Sizes]
Blocks(c) == c.at..(c.at + Nmemb(c.size) - 1)

TypeOK ==
  /\ memrdy \in BOOLEAN
  /\ memmap \in [Indexes -> Nat]
  /\ held \subseteq Chunk
  /\ refused \in BOOLEAN

\* Mutant: a used block does not end the run.
CmembKeepsCounting(map) ==
  LET cmemb[o \in Indexes] ==
        (IF map[o] # 0 THEN 0 ELSE 1) + (IF o = Table - 1 THEN 0 ELSE cmemb[o + 1])
  IN cmemb

\* The loop of mymem_malloc, down from the last block: cmemb after each of them.
Cmemb(map) ==
  LET cmemb[o \in Indexes] ==
        IF map[o] # 0 THEN 0 ELSE 1 + (IF o = Table - 1 THEN 0 ELSE cmemb[o + 1])
  IN cmemb

\* Where it returns, if it does: the first block, from the top, with cmemb==nmemb.
LoopReturns(map, n) ==
  {o \in Indexes : Cmemb(map)[o] = n /\ \A p \in Indexes : p > o => Cmemb(map)[p] # n}

\* Runs of n free blocks, and the highest of them.
Fits(map, n) == {o \in Indexes : o + n <= Table /\ \A i \in o..(o + n - 1) : map[i] = 0}
Highest(map, n) == {o \in Fits(map, n) : \A p \in Fits(map, n) : p <= o}

Mark(map, o, n, value) == [i \in Indexes |-> IF i \in o..(o + n - 1) THEN value ELSE map[i]]

\* The table mymem_malloc searches: an uninitialized pool is initialized first.
Searched == IF memrdy THEN memmap ELSE Zeroed

\* mymem_init, which main() calls before anything else.
MymemInit ==
  /\ ~memrdy
  /\ memrdy' = TRUE /\ memmap' = Zeroed
  /\ UNCHANGED <<held, refused>>

\* Mutant: the address of the block before the run is returned.
MymallocOneBefore(size) ==
  /\ size # 0
  /\ memrdy' = TRUE /\ refused' = FALSE
  /\ \E o \in Highest(Searched, Nmemb(size)) :
       /\ memmap' = Mark(Searched, o, Nmemb(size), Nmemb(size))
       /\ held' = held \cup {[at |-> o - 1, size |-> size]}

Mymalloc(size) ==
  /\ size # 0
  /\ memrdy' = TRUE /\ refused' = FALSE
  /\ \E o \in Highest(Searched, Nmemb(size)) :
       /\ memmap' = Mark(Searched, o, Nmemb(size), Nmemb(size))
       /\ held' = held \cup {[at |-> o, size |-> size]}

MymallocFails(size) ==
  /\ size = 0 \/ Fits(Searched, Nmemb(size)) = {}
  /\ memrdy' = TRUE /\ refused' = TRUE
  /\ memmap' = Searched
  /\ UNCHANGED held

\* Mutant: the block after the chunk is cleared, too.
MyfreeOneMore(c) ==
  /\ memrdy
  /\ memmap' = Mark(memmap, c.at, memmap[c.at] + 1, 0)
  /\ held' = held \ {c}
  /\ UNCHANGED <<memrdy, refused>>

\* The number of blocks to clear is what the table says.
Myfree(c) ==
  /\ memrdy
  /\ memmap' = Mark(memmap, c.at, memmap[c.at], 0)
  /\ held' = held \ {c}
  /\ UNCHANGED <<memrdy, refused>>

\* Mutant: the old chunk is given back first.
MyreallocFreesFirst(c, size) ==
  /\ memrdy /\ size # 0
  /\ LET map == Mark(memmap, c.at, memmap[c.at], 0)
     IN  \E o \in Highest(map, Nmemb(size)) :
           /\ memmap' = Mark(map, o, Nmemb(size), Nmemb(size))
           /\ held' = (held \ {c}) \cup {[at |-> o, size |-> size]}
  /\ refused' = FALSE
  /\ UNCHANGED memrdy

\* The new chunk is taken before the old one is given back; without room for it the
\* old one stays, and MymallocFails is all that happens.
Myrealloc(c, size) ==
  /\ memrdy /\ size # 0
  /\ \E o \in Highest(memmap, Nmemb(size)) :
       LET map == Mark(memmap, o, Nmemb(size), Nmemb(size))
       IN  memmap' = Mark(map, c.at, map[c.at], 0)
           /\ held' = (held \cup {[at |-> o, size |-> size]}) \ {c}
  /\ refused' = FALSE
  /\ UNCHANGED memrdy

\* The table of the external pool is in RAM that nothing has cleared.
Init ==
  /\ memrdy = FALSE
  /\ memmap \in [Indexes -> {0, 1}]
  /\ held = {} /\ refused = FALSE

Next ==
  \/ MymemInit
  \/ \E size \in Sizes : Mymalloc(size) \/ MymallocFails(size)
  \/ \E c \in held : Myfree(c) \/ \E size \in Sizes : Myrealloc(c, size)

Spec == Init /\ [][Next]_vars
-----------------------------------------------------------------------------
(* Properties.                                                             *)

\* Every caller has the bytes it asked for, inside the pool, and no two callers
\* share one.
NoOverlap ==
  \A c \in held :
    /\ 32 * c.at + c.size <= 32 * Table
    /\ \A d \in held \ {c} :
         32 * c.at + c.size <= 32 * d.at \/ 32 * d.at + d.size <= 32 * c.at

\* The table marks what callers hold and nothing else: a chunk that was freed is
\* free from its first block to its last.
TableAgrees ==
  memrdy => \A i \in Indexes : memmap[i] # 0 <=> \E c \in held : i \in Blocks(c)

\* The search finds a run if there is one, and the highest (malloc.c l. 97-109).
SearchIsComplete ==
  \A n \in 1..(Table + 1) :
    /\ LoopReturns(Searched, n) = Highest(Searched, n)
    /\ LoopReturns(Searched, n) = {} => Fits(Searched, n) = {}

\* No call changes the table entries of a chunk that somebody keeps.
KeptIsUntouched ==
  [][\A c \in held \cap held' : \A i \in Blocks(c) : memmap'[i] = memmap[i]]_vars

\* A pool is an allocator: whatever is in the table, a request is refused only if
\* no place is left between the chunks that are held, and what it gets is apart
\* from all of them; a chunk that moves has both places while it is copied.
Pool == INSTANCE Allocator
IsAllocator == Pool!Spec
=============================================================================
