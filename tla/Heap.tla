-------------------------------- MODULE Heap --------------------------------
(***************************************************************************)
(* The kernel heap (mem/heap.c): a doubly linked list of blocks, each a    *)
(* header followed by its payload, searched first fit, split on            *)
(* allocation and coalesced on release.                                    *)
(*                                                                         *)
(* block maps the address of every header in the list to its fields.  The  *)
(* search of kmalloc advances one block per step.  No other operation runs *)
(* meanwhile: after start-up only the shell allocates, and it is never     *)
(* preempted (theorem IdleOnlyPreempted of ThreadsProofs).                 *)
(***************************************************************************)
EXTENDS Integers, Functions

CONSTANTS
    heap_base,          \* address given to heap_init
    heap_total_size,    \* size given to heap_init
    BLOCK_SIZE,         \* bytes of a header
    Align,              \* granularity of ALIGN16: 16 in the code
    WordMod,            \* number of values of size_t
    Requests,           \* sizes callers ask for
    Arrays              \* pairs <<nmemb, size>> callers of kcalloc ask for

NULL == 0

ASSUME HeapAssumption ==
    /\ {heap_base, heap_total_size, BLOCK_SIZE, Align, WordMod} \subseteq Nat \ {0}
    /\ heap_base % Align = 0 /\ heap_total_size % Align = 0
    /\ BLOCK_SIZE % Align = 0 /\ WordMod % Align = 0
    /\ BLOCK_SIZE < heap_total_size
    /\ heap_base + heap_total_size < WordMod
    /\ Requests \subseteq 0 .. WordMod - Align
    /\ Arrays \subseteq Nat \X Nat
    /\ \A a \in Arrays : a[1] * a[2] <= WordMod - Align

VARIABLES
    block,      \* header address -> [size, free, next, prev]
    curr,       \* kmalloc's position in the list
    op,         \* the allocation under way
    live        \* history: pointer handed out and not yet freed -> bytes asked

vars == <<block, curr, op, live>>

Addr == heap_base .. heap_base + heap_total_size - 1
Pointer == heap_base .. heap_base + heap_total_size
Size == 0 .. WordMod - 1
Header == [size : Size, free : BOOLEAN, next : Addr \cup {NULL}, prev : Addr \cup {NULL}]

\* kind "none" when no allocation is under way; want is the aligned size, old
\* the pointer krealloc was given.
Op == [kind : {"none", "kmalloc", "krealloc"}, want : Size, bytes : Size,
       old : Pointer \cup {NULL}]
NoOp == [kind |-> "none", want |-> 0, bytes |-> 0, old |-> NULL]

\* heap_init.
Init ==
    /\ block = [b \in {heap_base} |->
                   [size |-> heap_total_size - BLOCK_SIZE, free |-> TRUE,
                    next |-> NULL, prev |-> NULL]]
    /\ curr = NULL
    /\ op = NoOp
    /\ live = [p \in {} |-> 0]

-----------------------------------------------------------------------------

\* Mutant of ALIGN16: rounds down.
AlignDown(x) == (x \div Align) * Align

\* ((((x)-1)>>4)<<4)+16 on size_t: 0 stays 0.
ALIGN16(x) == ((((x + WordMod - 1) % WordMod) \div Align) * Align + Align) % WordMod

\* Mutant of split_block: the block after the remainder keeps its prev.
SplitNoBacklink(h, b, size) ==
    IF h[b].size <= size + BLOCK_SIZE THEN h
    ELSE LET n == b + BLOCK_SIZE + size IN
         [x \in DOMAIN h \cup {n} |->
            IF x = b THEN [h[b] EXCEPT !.size = size, !.next = n]
            ELSE IF x = n THEN [size |-> h[b].size - size - BLOCK_SIZE,
                                free |-> TRUE, next |-> h[b].next, prev |-> b]
            ELSE h[x]]

\* split_block: a remainder larger than a header becomes a free block.
split_block(h, b, size) ==
    IF h[b].size <= size + BLOCK_SIZE THEN h
    ELSE LET n == b + BLOCK_SIZE + size IN
         [x \in DOMAIN h \cup {n} |->
            IF x = b THEN [h[b] EXCEPT !.size = size, !.next = n]
            ELSE IF x = n THEN [size |-> h[b].size - size - BLOCK_SIZE,
                                free |-> TRUE, next |-> h[b].next, prev |-> b]
            ELSE IF x = h[b].next THEN [h[x] EXCEPT !.prev = n]
            ELSE h[x]]

\* Both halves of kfree's coalescing: b takes over its successor n.
Absorb(h, b, n) ==
    [x \in DOMAIN h \ {n} |->
        IF x = b THEN [h[b] EXCEPT !.size = @ + BLOCK_SIZE + h[n].size,
                                   !.next = h[n].next]
        ELSE IF x = h[n].next THEN [h[x] EXCEPT !.prev = b]
        ELSE h[x]]

\* Mutant of Release: the block is not merged with the one before it.
ReleaseForward(h, b) ==
    LET freed == [h EXCEPT ![b].free = TRUE] IN
    IF freed[b].next # NULL /\ freed[freed[b].next].free
    THEN Absorb(freed, b, freed[b].next) ELSE freed

\* kfree(b + BLOCK_SIZE): merge with the next block, then with the previous.
Release(h, b) ==
    LET freed  == [h EXCEPT ![b].free = TRUE]
        next   == freed[b].next
        merged == IF next # NULL /\ freed[next].free
                  THEN Absorb(freed, b, next) ELSE freed
        prev   == merged[b].prev
    IN IF prev # NULL /\ merged[prev].free
       THEN Absorb(merged, prev, b) ELSE merged

Without(f, p) == Restrict(f, DOMAIN f \ {p})
With(f, p, v) == [q \in DOMAIN f \cup {p} |-> IF q = p THEN v ELSE f[q]]

-----------------------------------------------------------------------------

Idle == op.kind = "none"

\* kmalloc's entry: round the size, start at heap_head.
Search(kind, bytes, old) ==
    /\ op' = [kind |-> kind, want |-> ALIGN16(bytes), bytes |-> bytes,
              old |-> old]
    /\ curr' = heap_base
    /\ UNCHANGED <<block, live>>

kmalloc(size) == Idle /\ Search("kmalloc", size, NULL)

\* kcalloc: the product is computed on size_t; the payload is then zeroed.
kcalloc(nmemb, size) == Idle /\ Search("kmalloc", (nmemb * size) % WordMod, NULL)

\* kfree(NULL) does nothing.
kfree(p) ==
    /\ Idle
    /\ block' = Release(block, p - BLOCK_SIZE)
    /\ live' = Without(live, p)
    /\ UNCHANGED <<curr, op>>

\* krealloc(NULL, size) is kmalloc(size).  A block that is large enough is
\* returned as it is.
kreallocInPlace(p, size) ==
    /\ Idle
    /\ block[p - BLOCK_SIZE].size >= size
    /\ live' = With(live, p, size)
    /\ UNCHANGED <<block, curr, op>>

kreallocMove(p, size) ==
    /\ Idle
    /\ block[p - BLOCK_SIZE].size < size
    /\ Search("krealloc", size, p)

Searching == op.kind # "none"

\* The test of kmalloc's loop.
Fits(b) == block[b].free /\ block[b].size >= op.want

\* Mutant of Advance: the search ends at a free block that is too small.
AdvanceGiveUp ==
    /\ Searching /\ curr # NULL
    /\ ~Fits(curr)
    /\ curr' = IF block[curr].free THEN NULL ELSE block[curr].next
    /\ UNCHANGED <<block, op, live>>

\* The block does not fit: curr = curr->next.
Advance ==
    /\ Searching /\ curr # NULL
    /\ ~Fits(curr)
    /\ curr' = block[curr].next
    /\ UNCHANGED <<block, op, live>>

\* The block fits: it is split and handed out; krealloc copies the old
\* payload into it and frees the old block.
Take ==
    /\ Searching /\ curr # NULL
    /\ Fits(curr)
    /\ LET split == split_block(block, curr, op.want)
           taken == [split EXCEPT ![curr].free = FALSE]
           p     == curr + BLOCK_SIZE
       IN IF op.kind = "krealloc"
          THEN /\ block' = Release(taken, op.old - BLOCK_SIZE)
               /\ live' = With(Without(live, op.old), p, op.bytes)
          ELSE /\ block' = taken
               /\ live' = With(live, p, op.bytes)
    /\ op' = NoOp
    /\ curr' = NULL

\* The list is exhausted: NULL.  krealloc leaves the old block alone.
Fail ==
    /\ Searching /\ curr = NULL
    /\ op' = NoOp
    /\ UNCHANGED <<block, curr, live>>

Next ==
    \/ \E size \in Requests : kmalloc(size)
    \/ \E a \in Arrays : kcalloc(a[1], a[2])
    \/ \E p \in DOMAIN live : kfree(p)
    \/ \E p \in DOMAIN live, size \in Requests :
          kreallocInPlace(p, size) \/ kreallocMove(p, size)
    \/ Advance \/ Take \/ Fail

Spec == Init /\ [][Next]_vars

-----------------------------------------------------------------------------

\* Every header lies inside the heap, every field in its range.
TypeOK ==
    /\ DOMAIN block \subseteq Addr
    /\ block \in [DOMAIN block -> Header]
    /\ curr \in Addr \cup {NULL}
    /\ op \in Op
    /\ DOMAIN live \subseteq Pointer
    /\ live \in [DOMAIN live -> Size]

\* Where b's successor must lie.
EndOf(h, b) == b + BLOCK_SIZE + h[b].size

\* The list h starts at heap_base, every block ends where its next begins,
\* the last one ends with the heap, and prev undoes next.
Tiles(h) ==
    /\ heap_base \in DOMAIN h
    /\ \A b \in DOMAIN h :
        /\ IF h[b].next = NULL
           THEN EndOf(h, b) = heap_base + heap_total_size
           ELSE /\ h[b].next = EndOf(h, b)
                /\ h[b].next \in DOMAIN h
                /\ h[h[b].next].prev = b
        /\ IF h[b].prev = NULL
           THEN b = heap_base
           ELSE /\ h[b].prev \in DOMAIN h
                /\ h[h[b].prev].next = b

\* No header of h lies inside another block.
Apart(h) == \A b, c \in DOMAIN h : b < c => EndOf(h, b) <= c

\* The list tiles the heap whatever is split and merged: kmalloc's search
\* and kfree's merging reach every block and nothing else.
Tiling == Tiles(block)

\* What a caller writes into its allocation damages neither the list nor
\* another allocation.
NoOverlap == Apart(block)

\* No two neighbours in h are free.
Coalesced(h) ==
    \A b \in DOMAIN h : h[b].free /\ h[b].next # NULL => ~h[h[b].next].free

\* kfree merges with one block on either side, and that is enough: free
\* memory never lies in pieces, though kmalloc and krealloc free blocks too.
NoAdjacentFree == Coalesced(block)

\* The allocated blocks are exactly those handed out and not freed, each as
\* large as was asked for.
LiveBlocks ==
    /\ {b + BLOCK_SIZE : b \in {c \in DOMAIN block : ~block[c].free}} = DOMAIN live
    /\ \A p \in DOMAIN live : live[p] <= block[p - BLOCK_SIZE].size

\* kmalloc passes over no block that fits, so that it returns NULL only when
\* there is none.
FirstFit ==
    Searching => \A b \in DOMAIN block :
        curr = NULL \/ b < curr => ~Fits(b)

\* krealloc's copy of the whole old payload stays inside the new block.
ReallocGrows ==
    op.kind = "krealloc" =>
        op.old \in DOMAIN live /\ block[op.old - BLOCK_SIZE].size < op.want

=============================================================================
