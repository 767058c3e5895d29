----------------------------- MODULE HeapProofs -----------------------------
(* Theorems about Heap, for a heap of any size and any requests. *)
EXTENDS Heap, TLAPS

\* A well-formed list of blocks.
WellFormed(h) ==
    /\ DOMAIN h \subseteq Addr
    /\ h \in [DOMAIN h -> Header]
    /\ Tiles(h)
    /\ Apart(h)

\* Arithmetic facts about the constants that the proofs use.
LEMMA Constants ==
    /\ heap_base \in Nat \ {0} /\ heap_total_size \in Nat \ {0}
    /\ BLOCK_SIZE \in Nat \ {0} /\ WordMod \in Nat \ {0} /\ Align \in Nat \ {0}
    /\ heap_base + heap_total_size < WordMod
    /\ BLOCK_SIZE < heap_total_size
  BY HeapAssumption DEF HeapAssumption

\* Blocks end inside the heap.
LEMMA EndInside ==
    ASSUME NEW h, WellFormed(h), NEW b \in DOMAIN h
    PROVE  /\ b \in Nat \ {0} /\ h[b].size \in Nat
           /\ heap_base <= b /\ EndOf(h, b) <= heap_base + heap_total_size
           /\ h[b].free \in BOOLEAN
           /\ h[b].next = NULL \/ h[b].next \in DOMAIN h
           /\ h[b].prev = NULL \/ h[b].prev \in DOMAIN h
  <1>1. b \in Addr /\ h[b] \in Header
    BY DEF WellFormed
  <1>2. b \in Nat \ {0} /\ h[b].size \in Nat /\ heap_base <= b
    BY <1>1, Constants DEF Addr, Header, Size
  <1>3. EndOf(h, b) <= heap_base + heap_total_size
    BY <1>2, Constants DEF WellFormed, Tiles, Addr
  <1> QED
    BY <1>1, <1>2, <1>3 DEF WellFormed, Tiles, Header

-----------------------------------------------------------------------------
(* split_block and coalescing keep the list well formed. *)

\* g is h after b was cut down to size: still well formed, the other blocks
\* as they were, any new block free and followed by what followed b.
SplitOf(h, b, size, g) ==
    /\ WellFormed(g)
    /\ DOMAIN h \subseteq DOMAIN g
    /\ g[b].size >= size
    /\ g[b].free = h[b].free
    /\ \A x \in DOMAIN h \ {b} :
          g[x].size = h[x].size /\ g[x].free = h[x].free /\ g[x].next = h[x].next
    /\ \A x \in DOMAIN g \ DOMAIN h : g[x].free /\ g[x].next = h[b].next

\* split_block keeps the list well formed.
LEMMA SplitWellFormed ==
    ASSUME NEW h, WellFormed(h), NEW b \in DOMAIN h,
           NEW size \in Nat, size <= h[b].size
    PROVE  SplitOf(h, b, size, split_block(h, b, size))
  <1>0. /\ b \in Nat \ {0} /\ h[b].size \in Nat /\ heap_base <= b
        /\ EndOf(h, b) <= heap_base + heap_total_size
    BY EndInside
  <1>1. CASE h[b].size <= size + BLOCK_SIZE
    BY <1>0, <1>1 DEF split_block, SplitOf
  <1>2. CASE ~(h[b].size <= size + BLOCK_SIZE)
    <2> DEFINE n == b + BLOCK_SIZE + size
               m == h[b].next
               g == split_block(h, b, size)
    <2>1. g = [x \in DOMAIN h \cup {n} |->
                IF x = b THEN [h[b] EXCEPT !.size = size, !.next = n]
                ELSE IF x = n THEN [size |-> h[b].size - size - BLOCK_SIZE,
                                    free |-> TRUE, next |-> m, prev |-> b]
                ELSE IF x = m THEN [h[x] EXCEPT !.prev = n]
                ELSE h[x]]
      BY <1>2 DEF split_block
    <2>2. /\ n \in Nat /\ b < n /\ n < EndOf(h, b)
          /\ n \in Addr /\ n # b
      BY <1>0, <1>2, Constants DEF EndOf, Addr
    <2>3. n \notin DOMAIN h
      BY <1>0, <2>2, Constants DEF WellFormed, Apart, EndOf
    <2>4. m # b /\ m # n /\ (m = NULL \/ m \in DOMAIN h)
      <3>1. m = NULL \/ (m \in DOMAIN h /\ m = EndOf(h, b))
        BY DEF WellFormed, Tiles
      <3> QED
        BY <1>0, <2>2, <2>3, <3>1, Constants DEF EndOf, NULL
    <2>5. h[b] \in Header /\ \A x \in DOMAIN h : h[x] \in Header
      BY DEF WellFormed
    <2>6. DOMAIN g = DOMAIN h \cup {n}
      BY <2>1
    <2>7. /\ g[b].size = size /\ g[b].next = n
          /\ g[b].free = h[b].free /\ g[b].prev = h[b].prev
          /\ g[b] \in Header
      <3>1. g[b] = [h[b] EXCEPT !.size = size, !.next = n]
        BY <2>1
      <3>2. size \in Size
        BY <1>0, <2>5, Constants DEF Header, Size
      <3> QED
        BY <2>2, <2>5, <3>1, <3>2 DEF Header
    <2>8. /\ g[n].size = h[b].size - size - BLOCK_SIZE /\ g[n].next = m
          /\ g[n].free = TRUE /\ g[n].prev = b
          /\ g[n] \in Header
      <3>1. g[n] = [size |-> h[b].size - size - BLOCK_SIZE, free |-> TRUE,
                    next |-> m, prev |-> b]
        BY <2>1, <2>2
      <3>2. h[b].size - size - BLOCK_SIZE \in Size
        BY <1>0, <1>2, <2>5, Constants DEF Header, Size
      <3>3. m \in Addr \cup {NULL} /\ b \in Addr
        BY <2>5 DEF Header, WellFormed
      <3> QED
        BY <3>1, <3>2, <3>3 DEF Header
    <2>0. NULL \notin DOMAIN h /\ n # NULL
      BY <1>0, <2>2, EndInside DEF NULL
    <2>9. m # NULL => /\ g[m].prev = n /\ g[m].next = h[m].next
                      /\ g[m].size = h[m].size /\ g[m].free = h[m].free
                      /\ g[m] \in Header
      BY <2>1, <2>2, <2>4, <2>5 DEF Header
    <2>10. \A x \in DOMAIN h : x # b /\ x # m => g[x] = h[x]
      BY <2>1, <2>3
    <2>11. g \in [DOMAIN g -> Header] /\ DOMAIN g \subseteq Addr
      <3>1. \A x \in DOMAIN g : g[x] \in Header
        BY <2>5, <2>6, <2>7, <2>8, <2>9, <2>10, Constants DEF NULL, WellFormed, Addr
      <3>2. g = [x \in DOMAIN g |-> g[x]]
        BY <2>1
      <3> QED
        BY <2>2, <2>6, <3>1, <3>2 DEF WellFormed
    <2>12. Tiles(g)
      <3>1. ASSUME NEW x \in DOMAIN g
            PROVE  IF g[x].next = NULL
                   THEN EndOf(g, x) = heap_base + heap_total_size
                   ELSE /\ g[x].next = EndOf(g, x)
                        /\ g[x].next \in DOMAIN g
                        /\ g[g[x].next].prev = x
        <4>1. CASE x = b
          BY <2>0, <2>6, <2>7, <2>8, <4>1 DEF EndOf
        <4>2. CASE x = n
          BY <1>0, <2>2, <2>4, <2>6, <2>8, <2>9, <4>2, Constants
          DEF EndOf, NULL, WellFormed, Tiles
        <4>3. CASE x \in DOMAIN h \ {b}
          <5>1. g[x].next = h[x].next /\ g[x].size = h[x].size
            BY <2>0, <2>4, <2>9, <2>10, <4>3
          <5>2. h[x].next = NULL \/ h[x].next \notin {b, m} \/ h[x].next = b
            BY <4>3 DEF WellFormed, Tiles
          <5>3. h[x].next = b => g[b].prev = x
            BY <2>7, <4>3, <1>0 DEF WellFormed, Tiles, NULL
          <5> QED
            BY <2>6, <2>10, <4>3, <5>1, <5>2, <5>3 DEF WellFormed, Tiles, EndOf
        <4> QED  BY <2>6, <4>1, <4>2, <4>3
      <3>2. ASSUME NEW x \in DOMAIN g
            PROVE  IF g[x].prev = NULL
                   THEN x = heap_base
                   ELSE g[x].prev \in DOMAIN g /\ g[g[x].prev].next = x
        <4>1. CASE x = n
          BY <1>0, <2>6, <2>7, <2>8, <4>1 DEF NULL
        <4>2. CASE x \in DOMAIN h /\ x = m
          BY <2>2, <2>6, <2>8, <2>9, <4>2, EndInside DEF NULL
        <4>3. CASE x \in DOMAIN h /\ x # m
          <5>1. g[x].prev = h[x].prev
            BY <2>7, <2>10, <4>3
          <5>2. h[x].prev # b
            BY <1>0, <4>3 DEF WellFormed, Tiles, NULL
          <5>3. h[x].prev # NULL => g[h[x].prev].next = h[h[x].prev].next
            BY <2>9, <2>10, <4>3, <5>2 DEF WellFormed, Tiles
          <5> QED
            BY <2>6, <4>3, <5>1, <5>3 DEF WellFormed, Tiles
        <4> QED  BY <2>6, <4>1, <4>2, <4>3
      <3> QED
        BY <2>6, <3>1, <3>2 DEF WellFormed, Tiles
    <2>13. Apart(g)
      <3> SUFFICES ASSUME NEW x \in DOMAIN g, NEW y \in DOMAIN g, x < y
                   PROVE  EndOf(g, x) <= y
        BY DEF Apart
      <3>1. \A z \in DOMAIN h : z \in Nat /\ h[z].size \in Nat
        BY EndInside
      <3>2. \A z \in DOMAIN h \ {b} : g[z].size = h[z].size
        BY <2>0, <2>4, <2>9, <2>10
      <3>3. CASE x = b /\ y = n
        <4>1. EndOf(g, b) = n
          BY <2>7 DEF EndOf
        <4>2. n \in Nat
          BY <3>1, Constants
        <4> HIDE DEF g, n
        <4> QED
          BY <3>3, <4>1, <4>2
      <3>4. CASE x = b /\ y # n
        BY <1>0, <2>2, <2>6, <2>7, <3>1, <3>4, Constants DEF WellFormed, Apart, EndOf
      <3>5. CASE x = n
        <4>1. y \in DOMAIN h /\ b < y
          BY <1>0, <2>2, <2>6, <3>1, <3>5
        <4>2. EndOf(g, n) = EndOf(h, b)
          BY <1>0, <2>8, Constants DEF EndOf
        <4> QED
          BY <3>5, <4>1, <4>2 DEF WellFormed, Apart
      <3>6. CASE x \in DOMAIN h \ {b} /\ y = n
        <4>1. x < b
          BY <1>0, <2>2, <3>1, <3>6, Constants DEF WellFormed, Apart, EndOf
        <4> QED
          BY <1>0, <2>2, <3>1, <3>2, <3>6, <4>1, Constants DEF WellFormed, Apart, EndOf
      <3>7. CASE x \in DOMAIN h \ {b} /\ y # n
        BY <2>6, <3>2, <3>7 DEF WellFormed, Apart, EndOf
      <3> QED
        BY <2>6, <3>3, <3>4, <3>5, <3>6, <3>7
    <2>14. \A x \in DOMAIN h \ {b} :
              g[x].size = h[x].size /\ g[x].free = h[x].free /\ g[x].next = h[x].next
      BY <2>0, <2>9, <2>10
    <2>15. \A x \in DOMAIN g \ DOMAIN h : g[x].free /\ g[x].next = m
      BY <2>6, <2>8
    <2>16. g[b].size >= size /\ g[b].free = h[b].free
      BY <1>0, <2>7
    <2>17. WellFormed(g) /\ DOMAIN h \subseteq DOMAIN g
      BY <2>6, <2>11, <2>12, <2>13 DEF WellFormed
    <2> QED
      BY <2>14, <2>15, <2>16, <2>17 DEF SplitOf
  <1> QED
    BY <1>1, <1>2

\* g is h after b has taken over its successor n: still well formed, the
\* other blocks as they were.
Absorbed(h, b, n, g) ==
    /\ WellFormed(g)
    /\ DOMAIN g = DOMAIN h \ {n}
    /\ b # n
    /\ g[b].prev = h[b].prev
    /\ g[b].next = h[n].next
    /\ \A x \in DOMAIN h \ {n} : g[x].free = h[x].free
    /\ \A x \in DOMAIN h \ {n, b} :
          g[x].size = h[x].size /\ g[x].next = h[x].next

\* Coalescing two neighbours (kfree) keeps the list well formed.
LEMMA AbsorbWellFormed ==
    ASSUME NEW h, WellFormed(h), NEW b \in DOMAIN h, NEW n \in DOMAIN h,
           h[b].next = n
    PROVE  Absorbed(h, b, n, Absorb(h, b, n))
  <1> DEFINE m == h[n].next
             g == Absorb(h, b, n)
  <1>0. /\ b \in Nat \ {0} /\ h[b].size \in Nat /\ heap_base <= b
        /\ n \in Nat \ {0} /\ h[n].size \in Nat
        /\ EndOf(h, n) <= heap_base + heap_total_size
        /\ NULL \notin DOMAIN h
    BY EndInside DEF NULL
  <1>1. g = [x \in DOMAIN h \ {n} |->
              IF x = b THEN [h[b] EXCEPT !.size = @ + BLOCK_SIZE + h[n].size,
                                         !.next = m]
              ELSE IF x = m THEN [h[x] EXCEPT !.prev = b]
              ELSE h[x]]
    BY DEF Absorb
  <1>2. n = EndOf(h, b) /\ h[n].prev = b /\ b < n
    <2>1. h[b].next # NULL
      BY <1>0
    <2>2. n = EndOf(h, b) /\ h[n].prev = b
      BY <2>1 DEF WellFormed, Tiles
    <2>3. b < n
      BY <1>0, <2>2, Constants DEF EndOf
    <2> QED
      BY <2>2, <2>3
  <1>3. m = NULL \/ (m \in DOMAIN h /\ m = EndOf(h, n) /\ h[m].prev = n)
    BY DEF WellFormed, Tiles
  <1>4. m # b /\ m # n
    BY <1>0, <1>2, <1>3, Constants DEF EndOf
  <1>5. \A x \in DOMAIN h : h[x] \in Header
    BY DEF WellFormed
  <1>6. DOMAIN g = DOMAIN h \ {n}
    BY <1>1
  <1>7. /\ g[b].size = h[b].size + BLOCK_SIZE + h[n].size /\ g[b].next = m
        /\ g[b].free = h[b].free /\ g[b].prev = h[b].prev
        /\ g[b] \in Header
    <2>1. g[b] = [h[b] EXCEPT !.size = @ + BLOCK_SIZE + h[n].size, !.next = m]
      BY <1>1, <1>2, <1>0
    <2>2. h[b].size + BLOCK_SIZE + h[n].size \in Size
      BY <1>0, <1>2, Constants DEF EndOf, Size
    <2> QED
      BY <1>5, <2>1, <2>2 DEF Header
  <1>8. m \in DOMAIN h =>
          /\ g[m].prev = b /\ g[m].next = h[m].next
          /\ g[m].size = h[m].size /\ g[m].free = h[m].free
          /\ g[m] \in Header
    <2> SUFFICES ASSUME m \in DOMAIN h
                 PROVE  /\ g[m].prev = b /\ g[m].next = h[m].next
                        /\ g[m].size = h[m].size /\ g[m].free = h[m].free
                        /\ g[m] \in Header
      OBVIOUS
    <2>1. g[m] = [h[m] EXCEPT !.prev = b]
      BY <1>1, <1>4
    <2>2. b \in Addr
      BY DEF WellFormed
    <2> QED
      BY <1>5, <2>1, <2>2 DEF Header
  <1>9. \A x \in DOMAIN h \ {n} : x # b /\ x # m => g[x] = h[x]
    BY <1>1
  <1>10. g \in [DOMAIN g -> Header] /\ DOMAIN g \subseteq Addr
    <2>1. \A x \in DOMAIN g : g[x] \in Header
      BY <1>5, <1>6, <1>7, <1>8, <1>9
    <2>2. g = [x \in DOMAIN g |-> g[x]]
      BY <1>1
    <2> QED
      BY <1>6, <2>1, <2>2 DEF WellFormed
  <1>11. \A x \in DOMAIN h \ {n, b} :
            g[x].next = h[x].next /\ g[x].size = h[x].size /\ g[x].free = h[x].free
    BY <1>8, <1>9
  <1>12. Tiles(g)
    <2>0. heap_base \in DOMAIN g
      <3>1. n # heap_base
        BY <1>0, <1>2, Constants
      <3> QED  BY <1>6, <3>1 DEF WellFormed, Tiles
    <2>1. ASSUME NEW x \in DOMAIN g
          PROVE  IF g[x].next = NULL
                 THEN EndOf(g, x) = heap_base + heap_total_size
                 ELSE /\ g[x].next = EndOf(g, x)
                      /\ g[x].next \in DOMAIN g
                      /\ g[g[x].next].prev = x
      <3>1. CASE x = b
        <4>1. EndOf(g, b) = EndOf(h, n)
          BY <1>0, <1>2, <1>7, Constants DEF EndOf
        <4> QED
          BY <1>3, <1>4, <1>6, <1>7, <1>8, <3>1, <4>1 DEF WellFormed, Tiles
      <3>2. CASE x \in DOMAIN h \ {n, b}
        <4>1. g[x].next = h[x].next /\ EndOf(g, x) = EndOf(h, x)
          BY <1>11, <3>2 DEF EndOf
        <4>2. h[x].next # n /\ (m # NULL => h[x].next # m)
          BY <1>0, <1>2, <1>3, <3>2 DEF WellFormed, Tiles
        <4>3. h[x].next = b => g[b].prev = x
          BY <1>0, <1>7, <3>2 DEF WellFormed, Tiles
        <4> QED
          BY <1>6, <1>9, <3>2, <4>1, <4>2, <4>3 DEF WellFormed, Tiles
      <3> QED  BY <1>6, <3>1, <3>2
    <2>2. ASSUME NEW x \in DOMAIN g
          PROVE  IF g[x].prev = NULL
                 THEN x = heap_base
                 ELSE g[x].prev \in DOMAIN g /\ g[g[x].prev].next = x
      <3>1. CASE x = m
        BY <1>0, <1>2, <1>6, <1>7, <1>8, <3>1 DEF NULL
      <3>2. CASE x # m
        <4>1. g[x].prev = h[x].prev
          BY <1>6, <1>7, <1>9, <3>2
        <4>2. h[x].prev # n /\ (h[x].prev = b => x = n)
          BY <1>0, <1>6, <3>2 DEF WellFormed, Tiles
        <4> QED
          BY <1>6, <1>11, <3>2, <4>1, <4>2 DEF WellFormed, Tiles
      <3> QED  BY <3>1, <3>2
    <2> QED
      BY <2>0, <2>1, <2>2 DEF Tiles
  <1>13. Apart(g)
    <2> SUFFICES ASSUME NEW x \in DOMAIN g, NEW y \in DOMAIN g, x < y
                 PROVE  EndOf(g, x) <= y
      BY DEF Apart
    <2>1. x \in DOMAIN h \ {n} /\ y \in DOMAIN h \ {n} /\ x \in Nat /\ y \in Nat
      BY <1>6, EndInside
    <2>2. CASE x = b
      <3>1. n <= y
        BY <1>2, <2>1, <2>2 DEF WellFormed, Apart
      <3>2. EndOf(h, n) <= y
        BY <1>0, <2>1, <3>1 DEF WellFormed, Apart
      <3> QED
        BY <1>0, <1>2, <1>7, <2>2, <3>2, Constants DEF EndOf
    <2>3. CASE x # b
      BY <1>11, <2>1, <2>3 DEF WellFormed, Apart, EndOf
    <2> QED  BY <2>2, <2>3
  <1>14. WellFormed(g)
    BY <1>10, <1>12, <1>13 DEF WellFormed
  <1> QED
    BY <1>0, <1>2, <1>6, <1>7, <1>11, <1>14 DEF Absorbed

\* The blocks in use.
Allocated(h) == {b \in DOMAIN h : ~h[b].free}

\* g is h with the free flag of b set to f and nothing else changed.
Flagged(h, b, f, g) ==
    /\ WellFormed(g)
    /\ DOMAIN g = DOMAIN h
    /\ g[b].free = f
    /\ \A x \in DOMAIN h \ {b} : g[x] = h[x]
    /\ \A x \in DOMAIN h : /\ g[x].size = h[x].size
                           /\ g[x].next = h[x].next
                           /\ g[x].prev = h[x].prev

\* The free flags do not matter for the shape of the list.
LEMMA SetFree ==
    ASSUME NEW h, WellFormed(h), NEW b \in DOMAIN h, NEW f \in BOOLEAN
    PROVE  Flagged(h, b, f, [h EXCEPT ![b].free = f])
  <1> DEFINE g == [h EXCEPT ![b].free = f]
  <1>1. DOMAIN g = DOMAIN h /\ \A x \in DOMAIN h \ {b} : g[x] = h[x]
    BY DEF WellFormed
  <1>2. \A x \in DOMAIN h : h[x] \in Header
    BY DEF WellFormed
  <1>3. g[b] = [h[b] EXCEPT !.free = f]
    BY DEF WellFormed
  <1>4. /\ g[b].free = f /\ g[b].size = h[b].size
        /\ g[b].next = h[b].next /\ g[b].prev = h[b].prev
        /\ g[b] \in Header
    BY <1>2, <1>3 DEF Header
  <1>5. \A x \in DOMAIN h : /\ g[x].size = h[x].size /\ g[x].next = h[x].next
                            /\ g[x].prev = h[x].prev
    BY <1>1, <1>4
  <1>6. g \in [DOMAIN g -> Header] /\ DOMAIN g \subseteq Addr
    <2>1. \A x \in DOMAIN g : g[x] \in Header
      BY <1>1, <1>2, <1>4
    <2> QED  BY <1>1, <2>1 DEF WellFormed
  <1>7. Tiles(g) /\ Apart(g)
    BY <1>1, <1>5 DEF WellFormed, Tiles, Apart, EndOf
  <1> QED
    BY <1>1, <1>4, <1>5, <1>6, <1>7 DEF WellFormed, Flagged

\* kfree keeps the list well formed and coalesced, and takes exactly the
\* given block out of use.
LEMMA ReleaseCorrect ==
    ASSUME NEW h, WellFormed(h), Coalesced(h), NEW b \in DOMAIN h, ~h[b].free
    PROVE  /\ WellFormed(Release(h, b))
           /\ Coalesced(Release(h, b))
           /\ Allocated(Release(h, b)) = Allocated(h) \ {b}
           /\ \A x \in Allocated(h) \ {b} : Release(h, b)[x].size = h[x].size
  <1> DEFINE freed  == [h EXCEPT ![b].free = TRUE]
             next   == freed[b].next
             merged == IF next # NULL /\ freed[next].free
                       THEN Absorb(freed, b, next) ELSE freed
             prev   == merged[b].prev
             result == IF prev # NULL /\ merged[prev].free
                       THEN Absorb(merged, prev, b) ELSE merged
  <1>0. NULL \notin DOMAIN h /\ \A x \in DOMAIN h : h[x].free \in BOOLEAN
    BY EndInside DEF NULL
  <1>1. Release(h, b) = result
    BY DEF Release
  <1>2. /\ WellFormed(freed) /\ DOMAIN freed = DOMAIN h /\ freed[b].free
        /\ \A x \in DOMAIN h \ {b} : freed[x] = h[x]
        /\ \A x \in DOMAIN h : /\ freed[x].size = h[x].size
                               /\ freed[x].next = h[x].next
                               /\ freed[x].prev = h[x].prev
    BY SetFree DEF Flagged
  <1>a. /\ next = freed[b].next
        /\ merged = IF next # NULL /\ freed[next].free
                    THEN Absorb(freed, b, next) ELSE freed
        /\ prev = merged[b].prev
        /\ result = IF prev # NULL /\ merged[prev].free
                    THEN Absorb(merged, prev, b) ELSE merged
    OBVIOUS
  <1> HIDE DEF freed, next, merged, prev, result
  \* After the merge with the next block.
  <1>3. /\ WellFormed(merged) /\ b \in DOMAIN merged /\ merged[b].free
        /\ DOMAIN merged \subseteq DOMAIN h
        /\ \A x \in DOMAIN h \ DOMAIN merged : h[x].free
        /\ merged[b].prev = h[b].prev
        /\ \A x \in DOMAIN merged \ {b} :
              /\ merged[x].free = h[x].free /\ merged[x].size = h[x].size
              /\ merged[x].next = h[x].next
        /\ merged[b].next # NULL => ~merged[merged[b].next].free
    <2>1. CASE next # NULL /\ freed[next].free
      <3>1. next \in DOMAIN freed /\ next = h[b].next
        BY <1>2, <1>a, <2>1 DEF WellFormed, Tiles
      <3>2. merged = Absorb(freed, b, next)
        BY <1>a, <2>1
      <3>3. /\ WellFormed(merged) /\ DOMAIN merged = DOMAIN h \ {next} /\ b # next
            /\ merged[b].prev = freed[b].prev
            /\ merged[b].next = freed[next].next
            /\ \A x \in DOMAIN h \ {next} : merged[x].free = freed[x].free
            /\ \A x \in DOMAIN h \ {next, b} :
                  merged[x].size = freed[x].size /\ merged[x].next = freed[x].next
        <4>1. b \in DOMAIN freed /\ freed[b].next = next
          BY <1>2, <1>a
        <4>2. Absorbed(freed, b, next, merged)
          BY <1>2, <3>1, <3>2, <4>1, AbsorbWellFormed
        <4> QED
          BY <1>2, <4>2 DEF Absorbed
      <3>4. h[next].free /\ freed[next] = h[next]
        BY <1>2, <2>1, <3>1, <3>3
      <3>5. merged[b].next # NULL => ~merged[merged[b].next].free
        <4>1. SUFFICES ASSUME merged[b].next # NULL
                       PROVE  ~merged[merged[b].next].free
          OBVIOUS
        <4>2. merged[b].next = h[next].next /\ merged[b].next \in DOMAIN merged
          BY <3>3, <3>4, <4>1 DEF WellFormed, Tiles
        <4>3. ~h[h[next].next].free
          BY <1>2, <3>1, <3>4, <4>1, <4>2 DEF Coalesced
        <4>4. h[next].next # b
          BY <1>2, <3>1, <3>3, <3>4, <4>2, <4>1 DEF WellFormed, Tiles, Apart
        <4> QED
          BY <1>2, <3>3, <4>2, <4>3, <4>4
      <3> QED
        BY <1>2, <3>1, <3>3, <3>4, <3>5
    <2>2. CASE ~(next # NULL /\ freed[next].free)
      <3>1. merged = freed
        BY <1>a, <2>2
      <3>2. merged[b].next # NULL => ~merged[merged[b].next].free
        BY <1>a, <2>2, <3>1
      <3> QED
        BY <1>2, <3>1, <3>2
    <2> QED  BY <2>1, <2>2
  <1>4. CASE prev # NULL /\ merged[prev].free
    <2>1. prev \in DOMAIN merged /\ merged[prev].next = b /\ prev = h[b].prev
      BY <1>3, <1>4, <1>a DEF WellFormed, Tiles
    <2>2. result = Absorb(merged, prev, b)
      BY <1>4, <1>a
    <2>3. /\ WellFormed(result) /\ DOMAIN result = DOMAIN merged \ {b}
          /\ prev # b
          /\ result[prev].next = merged[b].next
          /\ \A x \in DOMAIN merged \ {b} : result[x].free = merged[x].free
          /\ \A x \in DOMAIN merged \ {b, prev} :
                result[x].size = merged[x].size /\ result[x].next = merged[x].next
      <3>1. Absorbed(merged, prev, b, result)
        BY <1>3, <2>1, <2>2, AbsorbWellFormed
      <3> QED
        BY <3>1 DEF Absorbed
    <2>4. h[prev].free /\ prev \in DOMAIN h /\ result[prev].free
      BY <1>3, <1>4, <2>1, <2>3
    <2>5. Allocated(result) = Allocated(h) \ {b}
      BY <1>3, <2>3 DEF Allocated
    <2>6. \A x \in Allocated(h) \ {b} : result[x].size = h[x].size
      BY <1>3, <2>3, <2>4 DEF Allocated
    <2>7. Coalesced(result)
      <3> SUFFICES ASSUME NEW x \in DOMAIN result, result[x].free,
                          result[x].next # NULL
                   PROVE  ~result[result[x].next].free
        BY DEF Coalesced
      <3>1. result[x].next \in DOMAIN result
        BY <2>3 DEF WellFormed, Tiles
      <3>2. CASE x = prev
        BY <1>3, <2>3, <3>1, <3>2
      <3>3. CASE x # prev
        <4>1. x \in DOMAIN h /\ h[x].free /\ result[x].next = h[x].next
          BY <1>3, <2>3, <3>3
        <4>2. ~h[h[x].next].free
          BY <4>1 DEF Coalesced
        <4> QED
          BY <1>3, <2>3, <3>1, <4>1, <4>2
      <3> QED  BY <3>2, <3>3
    <2> QED
      BY <1>1, <2>3, <2>5, <2>6, <2>7
  <1>5. CASE ~(prev # NULL /\ merged[prev].free)
    <2>1. result = merged
      BY <1>5, <1>a
    <2>2. Allocated(result) = Allocated(h) \ {b}
      BY <1>3, <2>1 DEF Allocated
    <2>3. \A x \in Allocated(h) \ {b} : result[x].size = h[x].size
      BY <1>3, <2>1 DEF Allocated
    <2>4. Coalesced(result)
      <3> SUFFICES ASSUME NEW x \in DOMAIN merged, merged[x].free,
                          merged[x].next # NULL
                   PROVE  ~merged[merged[x].next].free
        BY <2>1 DEF Coalesced
      <3>1. merged[x].next \in DOMAIN merged /\ merged[merged[x].next].prev = x
        BY <1>3 DEF WellFormed, Tiles
      <3>2. CASE x = b
        BY <1>3, <3>2
      <3>3. CASE x # b /\ merged[x].next # b
        <4>1. x \in DOMAIN h /\ h[x].free /\ merged[x].next = h[x].next
          BY <1>3, <3>3
        <4>2. ~h[h[x].next].free
          BY <4>1 DEF Coalesced
        <4> QED
          BY <1>3, <3>1, <3>3, <4>1, <4>2
      <3>4. CASE merged[x].next = b
        <4>1. prev = x
          BY <1>a, <3>1, <3>4
        <4>2. x # NULL
          BY <1>0, <1>3
        <4> QED
          BY <1>5, <4>1, <4>2
      <3> QED  BY <3>2, <3>3, <3>4
    <2> QED
      BY <1>1, <1>3, <2>1, <2>2, <2>3, <2>4
  <1> QED
    BY <1>4, <1>5

\* g is h after b was put into use with at least size bytes: well formed and
\* coalesced, the other blocks in use as they were.
TakenFrom(h, b, size, g) ==
    /\ WellFormed(g) /\ Coalesced(g)
    /\ Allocated(g) = Allocated(h) \cup {b}
    /\ g[b].size >= size
    /\ \A x \in Allocated(h) : g[x].size = h[x].size

\* Splitting and taking a free block (kmalloc) puts exactly that block into use.
LEMMA TakeCorrect ==
    ASSUME NEW h, WellFormed(h), Coalesced(h), NEW b \in DOMAIN h, h[b].free,
           NEW size \in Nat, size <= h[b].size
    PROVE  TakenFrom(h, b, size,
                     [split_block(h, b, size) EXCEPT ![b].free = FALSE])
  <1> DEFINE s == split_block(h, b, size)
             g == [s EXCEPT ![b].free = FALSE]
  <1>0. NULL \notin DOMAIN h /\ \A x \in DOMAIN h : h[x].free \in BOOLEAN
    BY EndInside DEF NULL
  <1>1. SplitOf(h, b, size, s)
    BY SplitWellFormed
  <1>2. g = [s EXCEPT ![b].free = FALSE]
    OBVIOUS
  <1> SUFFICES TakenFrom(h, b, size, g)
    OBVIOUS
  <1> HIDE DEF s, g
  <1>3. WellFormed(s) /\ b \in DOMAIN s
    BY <1>1 DEF SplitOf
  <1>4. /\ WellFormed(g) /\ DOMAIN g = DOMAIN s /\ g[b].free = FALSE
        /\ \A x \in DOMAIN s \ {b} : g[x] = s[x]
        /\ \A x \in DOMAIN s : g[x].size = s[x].size /\ g[x].next = s[x].next
    <2>1. \A f \in BOOLEAN : Flagged(s, b, f, [s EXCEPT ![b].free = f])
      BY <1>3, SetFree
    <2>2. Flagged(s, b, FALSE, g)
      BY <1>2, <2>1
    <2> QED
      BY <2>2 DEF Flagged
  <1>5. g[b].size >= size
    BY <1>1, <1>3, <1>4 DEF SplitOf
  <1>6. Allocated(g) = Allocated(h) \cup {b}
    BY <1>1, <1>3, <1>4 DEF SplitOf, Allocated
  <1>7. \A x \in Allocated(h) : g[x].size = h[x].size
    BY <1>1, <1>4 DEF SplitOf, Allocated
  <1>8. Coalesced(g)
    <2> SUFFICES ASSUME NEW x \in DOMAIN g, g[x].free, g[x].next # NULL
                 PROVE  ~g[g[x].next].free
      BY DEF Coalesced
    <2>1. x # b
      BY <1>4
    <2>2. CASE x \in DOMAIN h
      <3>1. h[x].free /\ g[x].next = h[x].next
        BY <1>1, <1>4, <2>1, <2>2 DEF SplitOf
      <3>2. ~h[h[x].next].free /\ h[x].next \in DOMAIN h
        BY <2>2, <3>1, EndInside DEF Coalesced
      <3> QED
        BY <1>1, <1>4, <3>1, <3>2 DEF SplitOf
    <2>3. CASE x \notin DOMAIN h
      <3>1. g[x].next = h[b].next
        BY <1>1, <1>4, <2>1, <2>3 DEF SplitOf
      <3>2. ~h[h[b].next].free /\ h[b].next \in DOMAIN h
        BY <3>1, EndInside DEF Coalesced
      <3> QED
        BY <1>1, <1>4, <3>1, <3>2 DEF SplitOf
    <2> QED  BY <2>2, <2>3
  <1> QED
    BY <1>4, <1>5, <1>6, <1>7, <1>8 DEF TakenFrom

-----------------------------------------------------------------------------
(* ALIGN16 on size_t. *)

\* Division leaves a remainder smaller than the divisor.
LEMMA DivBounds ==
    ASSUME NEW y \in Nat, NEW d \in Nat \ {0}
    PROVE  /\ y \div d \in Nat
           /\ (y \div d) * d <= y
           /\ y < (y \div d) * d + d
           /\ y = (y \div d) * d + (y % d)
  OBVIOUS

\* A number below the modulus is its own residue.
LEMMA SmallMod ==
    ASSUME NEW y \in Nat, NEW d \in Nat \ {0}, y < d
    PROVE  y % d = y
  OBVIOUS

\* ALIGN16 rounds up and does not wrap, for every size that leaves room for
\* the rounding.
LEMMA AlignUp ==
    ASSUME NEW x \in 0 .. WordMod - Align
    PROVE  ALIGN16(x) \in Size /\ x <= ALIGN16(x)
  <1> DEFINE y == (x + WordMod - 1) % WordMod
             r == (y \div Align) * Align + Align
  <1>0. x \in Nat /\ WordMod \in Nat \ {0} /\ Align \in Nat \ {0} /\ y \in Nat
    BY Constants
  <1>1. ALIGN16(x) = r % WordMod
    BY DEF ALIGN16
  <1>2. CASE x = 0
    BY <1>0, <1>1, <1>2 DEF Size
  <1>3. CASE x # 0
    <2>1. y = x - 1
      BY <1>0, <1>3
    <2>2. y < r /\ r <= y + Align /\ r \in Nat
      BY <1>0, DivBounds
    <2>3. x <= r /\ r < WordMod
      <3> HIDE DEF y, r
      <3> QED  BY <1>0, <2>1, <2>2
    <2>4. r % WordMod = r
      <3> HIDE DEF r
      <3> QED  BY <1>0, <2>2, <2>3, SmallMod
    <2> HIDE DEF r
    <2> QED
      BY <1>0, <1>1, <2>2, <2>3, <2>4 DEF Size
  <1> QED  BY <1>2, <1>3

-----------------------------------------------------------------------------
(* The inductive invariant. *)

HeapInv ==
    /\ WellFormed(block)
    /\ Coalesced(block)
    /\ curr \in DOMAIN block \cup {NULL}
    /\ op \in Op
    /\ IF Searching THEN op.bytes <= op.want ELSE curr = NULL
    /\ live \in [DOMAIN live -> Size]
    /\ LiveBlocks
    /\ ReallocGrows

\* A pointer handed out is the payload of an allocated block.
LEMMA LivePointer ==
    ASSUME HeapInv, NEW p \in DOMAIN live
    PROVE  /\ p - BLOCK_SIZE \in DOMAIN block /\ ~block[p - BLOCK_SIZE].free
           /\ p - BLOCK_SIZE \in Allocated(block)
           /\ p \in Pointer /\ p = (p - BLOCK_SIZE) + BLOCK_SIZE
           /\ block[p - BLOCK_SIZE].size \in Nat
  <1>1. PICK b \in Allocated(block) : p = b + BLOCK_SIZE
    BY DEF HeapInv, LiveBlocks, Allocated
  <1>2. /\ b \in DOMAIN block /\ ~block[b].free /\ b \in Nat /\ heap_base <= b
        /\ block[b].size \in Nat /\ EndOf(block, b) <= heap_base + heap_total_size
    BY EndInside DEF HeapInv, Allocated
  <1>3. p - BLOCK_SIZE = b
    BY <1>1, <1>2, Constants
  <1>4. p \in Pointer
    BY <1>1, <1>2, Constants DEF Pointer, EndOf
  <1> QED
    BY <1>1, <1>2, <1>3, <1>4

\* The pointers to the allocated blocks after one is released.
LEMMA PointersWithout ==
    ASSUME NEW S \in SUBSET Nat, NEW b \in Nat
    PROVE  {x + BLOCK_SIZE : x \in S \ {b}} =
           {x + BLOCK_SIZE : x \in S} \ {b + BLOCK_SIZE}
  <1>1. \A x \in S : x \in Nat /\ (x + BLOCK_SIZE = b + BLOCK_SIZE => x = b)
    BY Constants
  <1> QED
    BY <1>1, Zenon

\* The pointers to the allocated blocks after one is taken.
LEMMA PointersWith ==
    ASSUME NEW S, NEW b
    PROVE  {x + BLOCK_SIZE : x \in S \cup {b}} =
           {x + BLOCK_SIZE : x \in S} \cup {b + BLOCK_SIZE}
  OBVIOUS

LEMMA InitHeap == Init => HeapInv
  <1> SUFFICES ASSUME Init PROVE HeapInv
    OBVIOUS
  <1> DEFINE first == [size |-> heap_total_size - BLOCK_SIZE, free |-> TRUE,
                       next |-> NULL, prev |-> NULL]
  <1>1. block = [b \in {heap_base} |-> first] /\ DOMAIN block = {heap_base}
    BY DEF Init
  <1>2. block[heap_base] = first
    BY <1>1
  <1>3. first \in Header /\ heap_base \in Addr
    BY Constants DEF Header, Addr, Size, NULL
  <1>4. WellFormed(block)
    <2>1. DOMAIN block \subseteq Addr /\ block \in [DOMAIN block -> Header]
      BY <1>1, <1>3
    <2>2. Tiles(block)
      BY <1>1, <1>2, Constants DEF Tiles, EndOf, NULL
    <2>3. Apart(block)
      BY <1>1, Constants DEF Apart
    <2> QED  BY <2>1, <2>2, <2>3 DEF WellFormed
  <1>5. Coalesced(block)
    BY <1>1, <1>2 DEF Coalesced
  <1>6. op \in Op /\ ~Searching /\ ReallocGrows
    BY Constants DEF Init, NoOp, Op, Size, Searching, ReallocGrows
  <1>7. live \in [DOMAIN live -> Size] /\ LiveBlocks
    BY <1>1, <1>2 DEF Init, LiveBlocks
  <1> QED
    BY <1>4, <1>5, <1>6, <1>7 DEF Init, HeapInv

\* The entry of kmalloc, kcalloc and the moving krealloc.
LEMMA SearchPreserves ==
    ASSUME HeapInv, NEW kind \in {"kmalloc", "krealloc"},
           NEW bytes \in 0 .. WordMod - Align, NEW old \in Pointer \cup {NULL},
           kind = "krealloc" =>
              old \in DOMAIN live /\ block[old - BLOCK_SIZE].size < bytes,
           Search(kind, bytes, old)
    PROVE  HeapInv'
  <1>1. /\ op' = [kind |-> kind, want |-> ALIGN16(bytes), bytes |-> bytes,
                  old |-> old]
        /\ curr' = heap_base /\ block' = block /\ live' = live
    BY DEF Search
  <1>2. ALIGN16(bytes) \in Size /\ bytes <= ALIGN16(bytes) /\ bytes \in Size
    BY AlignUp, Constants DEF Size
  <1>3. op' \in Op /\ op'.bytes <= op'.want /\ Searching'
    BY <1>1, <1>2 DEF Op, Searching
  <1>4. curr' \in DOMAIN block'
    BY <1>1 DEF HeapInv, WellFormed, Tiles
  <1>5. ReallocGrows'
    <2> SUFFICES ASSUME kind = "krealloc"
                 PROVE  old \in DOMAIN live /\ block[old - BLOCK_SIZE].size < ALIGN16(bytes)
      BY <1>1 DEF ReallocGrows
    <2>1. block[old - BLOCK_SIZE].size \in Nat
      BY LivePointer
    <2> QED
      BY <1>2, <2>1, Constants DEF Size
  <1>6. LiveBlocks'
    BY <1>1 DEF HeapInv, LiveBlocks
  <1> QED
    BY <1>1, <1>3, <1>4, <1>5, <1>6 DEF HeapInv

\* kfree.
LEMMA FreePreserves ==
    ASSUME HeapInv, NEW p \in DOMAIN live, kfree(p)
    PROVE  HeapInv'
  <1> DEFINE b == p - BLOCK_SIZE
  <1>1. /\ b \in DOMAIN block /\ ~block[b].free /\ b \in Allocated(block)
        /\ p = b + BLOCK_SIZE
    BY LivePointer
  <1>2. block' = Release(block, b) /\ live' = Without(live, p)
        /\ curr' = curr /\ op' = op /\ op.kind = "none"
    BY DEF kfree, Idle
  <1> HIDE DEF b
  <1>3. /\ WellFormed(block') /\ Coalesced(block')
        /\ Allocated(block') = Allocated(block) \ {b}
        /\ \A x \in Allocated(block) \ {b} : block'[x].size = block[x].size
    BY <1>1, <1>2, ReleaseCorrect DEF HeapInv
  <1>4. /\ DOMAIN live' = DOMAIN live \ {p}
        /\ \A q \in DOMAIN live' : live'[q] = live[q]
        /\ live' \in [DOMAIN live' -> Size]
    BY <1>2 DEF Without, Restrict, HeapInv
  <1>5. LiveBlocks'
    <2>1. Allocated(block) \in SUBSET Nat /\ b \in Nat
      BY <1>1, EndInside DEF Allocated, HeapInv
    <2>2. {x + BLOCK_SIZE : x \in Allocated(block')} = DOMAIN live'
      <3>1. {x + BLOCK_SIZE : x \in Allocated(block)} = DOMAIN live
        BY DEF HeapInv, LiveBlocks, Allocated
      <3> QED
        BY <1>1, <1>3, <1>4, <2>1, <3>1, PointersWithout
    <2>3. ASSUME NEW q \in DOMAIN live'
          PROVE  live'[q] <= block'[q - BLOCK_SIZE].size
      <3>1. q \in DOMAIN live /\ q # p /\ live'[q] = live[q]
        BY <1>4
      <3>2. /\ q - BLOCK_SIZE \in Allocated(block)
            /\ q = (q - BLOCK_SIZE) + BLOCK_SIZE
        BY <3>1, LivePointer
      <3>3. q - BLOCK_SIZE # b
        BY <1>1, <3>1, <3>2
      <3>4. live[q] <= block[q - BLOCK_SIZE].size
        BY <3>1 DEF HeapInv, LiveBlocks
      <3> QED
        BY <1>3, <3>1, <3>2, <3>3, <3>4
    <2> QED
      BY <2>2, <2>3 DEF LiveBlocks, Allocated
  <1>6. ReallocGrows' /\ ~Searching'
    BY <1>2 DEF ReallocGrows, Searching
  <1>7. curr' = NULL
    BY <1>2 DEF HeapInv, Searching
  <1> QED
    BY <1>2, <1>3, <1>4, <1>5, <1>6, <1>7 DEF HeapInv

\* krealloc returning the block it was given.
LEMMA InPlacePreserves ==
    ASSUME HeapInv, NEW p \in DOMAIN live, NEW size \in 0 .. WordMod - Align,
           kreallocInPlace(p, size)
    PROVE  HeapInv'
  <1>1. /\ block' = block /\ curr' = curr /\ op' = op /\ op.kind = "none"
        /\ live' = With(live, p, size) /\ size <= block[p - BLOCK_SIZE].size
    <2>1. block[p - BLOCK_SIZE].size \in Nat
      BY LivePointer
    <2> QED
      BY <2>1 DEF kreallocInPlace, Idle
  <1>2. size \in Size
    BY Constants DEF Size
  <1>3. /\ DOMAIN live' = DOMAIN live /\ live' \in [DOMAIN live' -> Size]
        /\ live'[p] = size /\ \A q \in DOMAIN live \ {p} : live'[q] = live[q]
    BY <1>1, <1>2 DEF With, HeapInv
  <1>4. LiveBlocks'
    BY <1>1, <1>3 DEF HeapInv, LiveBlocks
  <1>5. ReallocGrows' /\ ~Searching' /\ ~Searching
    BY <1>1 DEF ReallocGrows, Searching
  <1> QED
    BY <1>1, <1>3, <1>4, <1>5 DEF HeapInv

\* The search moves on.
LEMMA AdvancePreserves ==
    ASSUME HeapInv, Advance
    PROVE  HeapInv'
  <1>1. /\ block' = block /\ op' = op /\ live' = live /\ Searching
        /\ curr' = block[curr].next /\ curr \in DOMAIN block
    BY DEF Advance, HeapInv
  <1>2. curr' \in DOMAIN block' \cup {NULL}
    BY <1>1, EndInside DEF HeapInv
  <1> QED
    BY <1>1, <1>2 DEF HeapInv, LiveBlocks, ReallocGrows, Searching

\* The search fails.
LEMMA FailPreserves ==
    ASSUME HeapInv, Fail
    PROVE  HeapInv'
  <1>1. op' \in Op /\ op'.kind = "none"
    BY Constants DEF Fail, NoOp, Op, Size
  <1> QED
    BY <1>1 DEF Fail, HeapInv, LiveBlocks, ReallocGrows, Searching

\* The search succeeds: split, hand out and, for krealloc, free the old block.
LEMMA TakePreserves ==
    ASSUME HeapInv, Take
    PROVE  HeapInv'
  <1> DEFINE taken == [split_block(block, curr, op.want) EXCEPT ![curr].free = FALSE]
             p == curr + BLOCK_SIZE
  <1>1. /\ Searching /\ curr \in DOMAIN block /\ block[curr].free
        /\ op.want \in Nat /\ op.bytes \in Size /\ op.bytes <= op.want
        /\ op.want <= block[curr].size
        /\ op.kind \in {"kmalloc", "krealloc"}
    <2>1. curr \in DOMAIN block /\ Searching /\ op \in Op /\ Fits(curr)
      BY DEF Take, HeapInv
    <2>2. block[curr].size \in Nat
      BY <2>1, EndInside DEF HeapInv
    <2> QED
      BY <2>1, <2>2, Constants DEF Fits, HeapInv, Searching, Op, Size
  <1>2. /\ op' = NoOp /\ curr' = NULL
        /\ op.kind = "krealloc" =>
              /\ block' = Release(taken, op.old - BLOCK_SIZE)
              /\ live' = With(Without(live, op.old), p, op.bytes)
        /\ op.kind # "krealloc" =>
              /\ block' = taken
              /\ live' = With(live, p, op.bytes)
    BY DEF Take
  <1>3. taken = [split_block(block, curr, op.want) EXCEPT ![curr].free = FALSE]
    OBVIOUS
  <1> HIDE DEF taken
  <1>4. /\ WellFormed(taken) /\ Coalesced(taken)
        /\ Allocated(taken) = Allocated(block) \cup {curr}
        /\ taken[curr].size >= op.want
        /\ \A x \in Allocated(block) : taken[x].size = block[x].size
    <2>1. TakenFrom(block, curr, op.want, taken)
      BY <1>1, <1>3, TakeCorrect DEF HeapInv
    <2> QED
      BY <2>1 DEF TakenFrom
  <1>5. op' \in Op /\ ~Searching' /\ ReallocGrows'
    BY <1>2, Constants DEF NoOp, Op, Size, Searching, ReallocGrows
  <1>6. /\ curr \in Nat /\ taken[curr].size \in Nat /\ curr \notin Allocated(block)
        /\ \A x \in Allocated(block) : x \in Nat
        /\ curr \in Allocated(taken) /\ Allocated(taken) \in SUBSET Nat
    <2>1. curr \in Allocated(taken)
      BY <1>4
    <2> QED
      BY <1>1, <1>4, <2>1, EndInside DEF HeapInv, Allocated
  <1>7. {x + BLOCK_SIZE : x \in Allocated(block)} = DOMAIN live
    BY DEF HeapInv, LiveBlocks, Allocated
  <1>8. op.bytes <= taken[curr].size /\ p - BLOCK_SIZE = curr /\ p \notin DOMAIN live
    <2>1. op.bytes <= taken[curr].size
      BY <1>1, <1>4, <1>6 DEF Size
    <2>2. p - BLOCK_SIZE = curr
      BY <1>6, Constants
    <2>3. p \notin DOMAIN live
      BY <1>6, <2>2, LivePointer
    <2> QED  BY <2>1, <2>2, <2>3
  <1>9. ASSUME NEW q \in DOMAIN live
        PROVE  /\ q - BLOCK_SIZE \in Allocated(block)
               /\ live[q] <= taken[q - BLOCK_SIZE].size
    <2>1. q - BLOCK_SIZE \in Allocated(block)
      BY LivePointer
    <2> QED
      BY <1>4, <2>1 DEF HeapInv, LiveBlocks
  <1>10. CASE op.kind # "krealloc"
    <2>1. /\ DOMAIN live' = DOMAIN live \cup {p} /\ live'[p] = op.bytes
          /\ \A q \in DOMAIN live : live'[q] = live[q]
          /\ live' \in [DOMAIN live' -> Size]
      BY <1>1, <1>2, <1>8, <1>10 DEF With, HeapInv
    <2>2. block' = taken
      BY <1>2, <1>10
    <2>3. {x + BLOCK_SIZE : x \in Allocated(block')} = DOMAIN live'
      BY <1>4, <1>7, <2>1, <2>2, PointersWith
    <2>4. \A q \in DOMAIN live' : live'[q] <= block'[q - BLOCK_SIZE].size
      BY <1>8, <1>9, <2>1, <2>2
    <2>5. LiveBlocks'
      BY <2>3, <2>4 DEF LiveBlocks, Allocated
    <2> QED
      BY <1>2, <1>4, <1>5, <2>1, <2>2, <2>5 DEF HeapInv
  <1>11. CASE op.kind = "krealloc"
    <2> DEFINE old == op.old - BLOCK_SIZE
    <2>1. /\ op.old \in DOMAIN live /\ old \in Allocated(block)
          /\ op.old = old + BLOCK_SIZE /\ old \in Nat
      <3>1. op.old \in DOMAIN live
        BY <1>11 DEF HeapInv, ReallocGrows
      <3> QED
        BY <1>6, <3>1, LivePointer
    <2>2. block' = Release(taken, old)
      BY <1>2, <1>11
    <2> HIDE DEF old
    <2>3. /\ WellFormed(block') /\ Coalesced(block')
          /\ Allocated(block') = Allocated(taken) \ {old}
          /\ \A x \in Allocated(taken) \ {old} : block'[x].size = taken[x].size
      <3>1. old \in DOMAIN taken /\ ~taken[old].free
        BY <1>4, <2>1 DEF Allocated
      <3> QED
        BY <1>4, <2>2, <3>1, ReleaseCorrect
    <2>4. /\ DOMAIN live' = (DOMAIN live \ {op.old}) \cup {p} /\ live'[p] = op.bytes
          /\ \A q \in DOMAIN live \ {op.old} : live'[q] = live[q]
          /\ live' \in [DOMAIN live' -> Size]
      BY <1>1, <1>2, <1>8, <1>11 DEF With, Without, Restrict, HeapInv
    <2>5. {x + BLOCK_SIZE : x \in Allocated(block')} = DOMAIN live'
      <3>1. {x + BLOCK_SIZE : x \in Allocated(block')} =
            {x + BLOCK_SIZE : x \in Allocated(taken)} \ {op.old}
        BY <1>6, <2>1, <2>3, PointersWithout
      <3>2. {x + BLOCK_SIZE : x \in Allocated(taken)} = DOMAIN live \cup {p}
        BY <1>4, <1>7, PointersWith
      <3> QED
        BY <1>8, <2>1, <2>4, <3>1, <3>2
    <2>6. ASSUME NEW q \in DOMAIN live'
          PROVE  live'[q] <= block'[q - BLOCK_SIZE].size
      <3>1. CASE q = p
        BY <1>6, <1>8, <2>1, <2>3, <2>4, <3>1
      <3>2. CASE q # p
        <4>1. q \in DOMAIN live \ {op.old} /\ live'[q] = live[q]
          BY <2>4, <3>2
        <4>2. q = (q - BLOCK_SIZE) + BLOCK_SIZE
          BY <4>1, LivePointer
        <4>3. q - BLOCK_SIZE # old
          BY <2>1, <4>1, <4>2
        <4> QED
          BY <1>4, <1>9, <2>3, <4>1, <4>3
      <3> QED  BY <3>1, <3>2
    <2>7. LiveBlocks'
      BY <2>5, <2>6 DEF LiveBlocks, Allocated
    <2> QED
      BY <1>2, <1>5, <2>3, <2>4, <2>7 DEF HeapInv
  <1> QED
    BY <1>10, <1>11

LEMMA HeapStep == HeapInv /\ [Next]_vars => HeapInv'
  <1> SUFFICES ASSUME HeapInv, [Next]_vars PROVE HeapInv'
    OBVIOUS
  <1>0. Requests \subseteq 0 .. WordMod - Align /\ NULL \in Pointer \cup {NULL}
    BY HeapAssumption DEF HeapAssumption
  <1>1. ASSUME NEW size \in Requests, kmalloc(size) PROVE HeapInv'
    BY <1>0, <1>1, SearchPreserves DEF kmalloc
  <1>2. ASSUME NEW a \in Arrays, kcalloc(a[1], a[2]) PROVE HeapInv'
    <2> DEFINE n == a[1] * a[2]
    <2>1. n \in Nat /\ n <= WordMod - Align
      <3>1. a[1] \in Nat /\ a[2] \in Nat
        BY HeapAssumption DEF HeapAssumption
      <3> QED
        BY <3>1, HeapAssumption DEF HeapAssumption
    <2>2. Search("kmalloc", n % WordMod, NULL)
      BY <1>2 DEF kcalloc
    <2> HIDE DEF n
    <2>3. n % WordMod = n /\ n \in 0 .. WordMod - Align
      BY <2>1, SmallMod, Constants
    <2> QED
      BY <1>0, <2>2, <2>3, SearchPreserves
  <1>3. ASSUME NEW p \in DOMAIN live, kfree(p) PROVE HeapInv'
    BY <1>3, FreePreserves
  <1>4. ASSUME NEW p \in DOMAIN live, NEW size \in Requests,
               kreallocInPlace(p, size)
        PROVE  HeapInv'
    BY <1>0, <1>4, InPlacePreserves
  <1>5. ASSUME NEW p \in DOMAIN live, NEW size \in Requests,
               kreallocMove(p, size)
        PROVE  HeapInv'
    <2>1. p \in Pointer
      BY LivePointer
    <2> QED
      BY <1>0, <1>5, <2>1, SearchPreserves DEF kreallocMove
  <1>6. CASE UNCHANGED vars
    BY <1>6 DEF vars, HeapInv, LiveBlocks, ReallocGrows, Searching
  <1> QED
    BY <1>1, <1>2, <1>3, <1>4, <1>5, <1>6,
       AdvancePreserves, TakePreserves, FailPreserves DEF Next

LEMMA HeapAlways == Spec => []HeapInv
  BY InitHeap, HeapStep, PTL DEF Spec

-----------------------------------------------------------------------------

\* Every state of the heap has its type (kmalloc, kcalloc, kfree, krealloc),
\* for every heap size, header size and set of requests.
THEOREM TypeCorrect == Spec => []TypeOK
  <1>1. HeapInv => TypeOK
    <2> SUFFICES ASSUME HeapInv PROVE TypeOK
      OBVIOUS
    <2>1. DOMAIN live \subseteq Pointer
      BY LivePointer
    <2> QED
      BY <2>1 DEF HeapInv, WellFormed, TypeOK
  <1> QED
    BY <1>1, HeapAlways, PTL

\* kfree's merging and kmalloc's splitting keep next and prev a tiling of the
\* whole heap.
THEOREM ListTilesHeap == Spec => []Tiling
  <1>1. HeapInv => Tiling
    BY DEF HeapInv, WellFormed, Tiling
  <1> QED
    BY <1>1, HeapAlways, PTL

\* No block ever reaches into another (split_block, kfree).
THEOREM BlocksDisjoint == Spec => []NoOverlap
  <1>1. HeapInv => NoOverlap
    BY DEF HeapInv, WellFormed, NoOverlap
  <1> QED
    BY <1>1, HeapAlways, PTL

\* Merging with one block on either side (kfree) is enough.
THEOREM FreeCoalesced == Spec => []NoAdjacentFree
  <1>1. HeapInv => NoAdjacentFree
    BY DEF HeapInv, NoAdjacentFree
  <1> QED
    BY <1>1, HeapAlways, PTL

\* What kmalloc, kcalloc and krealloc handed out stays allocated and large
\* enough until it is freed.
THEOREM AllocationsKept == Spec => []LiveBlocks
  <1>1. HeapInv => LiveBlocks
    BY DEF HeapInv
  <1> QED
    BY <1>1, HeapAlways, PTL

\* The block krealloc copies is still allocated when the copy is made, and
\* smaller than the new one.
THEOREM ReallocCopiesLess == Spec => []ReallocGrows
  <1>1. HeapInv => ReallocGrows
    BY DEF HeapInv
  <1> QED
    BY <1>1, HeapAlways, PTL

\* kmalloc returns NULL only when no free block is large enough.
THEOREM SearchIsFirstFit == Spec => []FirstFit
  <1>1. Init => FirstFit
    BY DEF Init, NoOp, FirstFit, Searching
  <1>2. HeapInv /\ FirstFit /\ [Next]_vars => FirstFit'
    <2> SUFFICES ASSUME HeapInv, FirstFit, [Next]_vars, Searching'
                 PROVE  \A b \in DOMAIN block' :
                           curr' = NULL \/ b < curr' => ~Fits(b)'
      BY DEF FirstFit
    <2>1. CASE Advance
      <3>1. /\ block' = block /\ op' = op /\ Searching /\ ~Fits(curr)
            /\ curr \in DOMAIN block /\ curr' = block[curr].next /\ curr # NULL
        BY <2>1 DEF Advance, HeapInv
      <3>2. ASSUME NEW b \in DOMAIN block, curr' = NULL \/ b < curr'
            PROVE  b = curr \/ b < curr
        <4>1. /\ b \in Nat /\ curr \in Nat /\ block[b].size \in Nat
              /\ EndOf(block, b) <= heap_base + heap_total_size
          BY <3>1, EndInside DEF HeapInv
        <4>2. CASE curr < b
          <5>1. EndOf(block, curr) <= b
            BY <3>1, <4>2 DEF HeapInv, WellFormed, Apart
          <5>2. IF curr' = NULL THEN EndOf(block, curr) = heap_base + heap_total_size
                ELSE curr' = EndOf(block, curr)
            BY <3>1 DEF HeapInv, WellFormed, Tiles
          <5>3. curr' = NULL \/ curr' \in Nat
            BY <3>1, EndInside DEF HeapInv
          <5> QED
            BY <3>2, <4>1, <5>1, <5>2, <5>3, Constants DEF EndOf
        <4> QED  BY <4>1, <4>2
      <3>3. \A b \in DOMAIN block : Fits(b)' = Fits(b)
        BY <3>1 DEF Fits
      <3> QED
        BY <3>1, <3>2, <3>3 DEF FirstFit
    <2>2. CASE curr' = heap_base
      <3>1. \A b \in DOMAIN block' : b \in Nat /\ heap_base <= b
        <4>1. HeapInv'
          BY HeapStep
        <4>2. WellFormed(block')
          BY <4>1 DEF HeapInv
        <4> QED
          BY <4>2, EndInside
      <3> QED
        BY <2>2, <3>1, Constants DEF NULL
    <2>3. CASE UNCHANGED vars
      BY <2>3 DEF vars, FirstFit, Fits, Searching
    <2>4. ~Take /\ ~Fail
      BY DEF Take, Fail, NoOp, Searching
    <2>5. ~\E p \in DOMAIN live : kfree(p)
      BY DEF kfree, Idle, Searching
    <2>6. ~\E p \in DOMAIN live, size \in Requests : kreallocInPlace(p, size)
      BY DEF kreallocInPlace, Idle, Searching
    <2> QED
      BY <2>1, <2>2, <2>3, <2>4, <2>5, <2>6
      DEF Next, kmalloc, kcalloc, kreallocMove, Search
  <1> QED
    BY <1>1, <1>2, HeapAlways, PTL DEF Spec

=============================================================================
