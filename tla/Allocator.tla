------------------------------ MODULE Allocator -----------------------------
(***************************************************************************)
(* What the callers of mymalloc, myfree and myrealloc may expect of a pool:*)
(* chunks that have nothing in common, and a refusal only if no place is   *)
(* left between them.  There is no table here, only what callers hold.     *)
(***************************************************************************)
CONSTANTS Indexes,    \* the blocks of the pool
          Sizes,      \* what callers ask for
          Blocks(_)   \* the blocks of a chunk

VARIABLES held,     \* the chunks
          refused   \* the last request got NULL

\* The chunks a request could get: inside the pool, apart from all that is held.
Room(size) ==
  {c \in [at : Indexes, size : {size}] :
     /\ size # 0 /\ Blocks(c) \subseteq Indexes
     /\ \A d \in held : Blocks(c) \cap Blocks(d) = {}}

Init == held = {} /\ refused = FALSE

Allocate(size) ==
  /\ \E c \in Room(size) : held' = held \cup {c}
  /\ refused' = FALSE

Refuse(size) ==
  /\ Room(size) = {}
  /\ refused' = TRUE
  /\ UNCHANGED held

Free(c) ==
  /\ held' = held \ {c}
  /\ UNCHANGED refused

\* The old chunk is there while the new one is filled from it.
Move(c, size) ==
  /\ \E d \in Room(size) : held' = (held \cup {d}) \ {c}
  /\ refused' = FALSE

Next ==
  \/ \E size \in Sizes : Allocate(size) \/ Refuse(size)
  \/ \E c \in held : Free(c) \/ \E size \in Sizes : Move(c, size)

Spec == Init /\ [][Next]_<<held, refused>>
=============================================================================
