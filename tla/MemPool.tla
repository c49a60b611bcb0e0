-------------------------------- MODULE MemPool --------------------------------
(***************************************************************************)
(* The DSP's memory allocator, xf-mem.c, behind xf_mem_alloc and           *)
(* xf_mem_free: the free blocks of a pool in two red-black trees, one by   *)
(* length and one by address.  A block's nodes and its length lie at its   *)
(* start, so a block is known by its address; what memory that is not the  *)
(* start of a free block holds is never read, and is left blank.  The room *)
(* that xf_mem_alloc adds for alignment is part of the sizes asked for.    *)
(***************************************************************************)
EXTENDS Extents, Sequences, SequencesExt, FiniteSets

CONSTANTS MaxUsage,     \* bound: of the usage counter
          Null, NoNode

ASSUME PoolAssumption ==
    /\ MaxUsage \in Nat
    /\ Null # NoNode /\ {Null, NoNode} \cap Nat = {}

VARIABLES lMap, aMap,   \* the maps of free blocks by length and by address
          length,       \* the length of a free block
          used,         \* what has been given out: [addr, size]
          usage         \* pdsp_comp_buf_size_curr of the pool

vars == <<lMap, aMap, length, used, usage>>

Addr == 0 .. PoolSize - 1
RB == INSTANCE RbTree WITH Nodes <- Addr

Blank == [kid |-> [d \in RB!Side |-> [n \in Addr \cup {Null} |-> Null]],
          parent |-> [n \in Addr |-> Null], red |-> [n \in Addr |-> FALSE]]

\* xf_mm_init releases the whole pool
Init ==
    /\ lMap = RB!Insert(Blank, 0, Null) /\ aMap = RB!Insert(Blank, 0, Null)
    /\ length = [a \in Addr |-> IF a = 0 THEN PoolSize ELSE 0]
    /\ used = {} /\ usage = 0

-----------------------------------------------------------------------------
(* Searching the maps                                                      *)

\* the first block on the way to the right that is long enough
RECURSIVE Candidate(_, _)
Candidate(p, size) ==
    IF p = Null \/ length[p] >= size THEN p ELSE Candidate(RB!Kid(lMap, "right", p), size)

\* a shorter one that is long enough, at or below t
RECURSIVE Better(_, _, _)
Better(t, best, size) ==
    IF t = Null THEN best
    ELSE IF length[t] >= size THEN Better(RB!Kid(lMap, "left", t), t, size)
    ELSE Better(RB!Kid(lMap, "right", t), best, size)

\* mutant: the first candidate is taken
FindBySize_First(size) == Candidate(RB!Root(lMap), size)

\* xf_mm_find_by_size
FindBySize(size) ==
    LET first == Candidate(RB!Root(lMap), size)
    IN  IF first = Null THEN Null ELSE Better(RB!Kid(lMap, "left", first), first, size)

\* xf_mm_find_by_addr: the free blocks before and after an address
RECURSIVE Neighbours(_, _, _, _)
Neighbours(p, addr, lower, higher) ==
    IF p = Null THEN <<lower, higher>>
    ELSE IF p < addr THEN Neighbours(RB!Kid(aMap, "right", p), addr, p, higher)
    ELSE Neighbours(RB!Kid(aMap, "left", p), addr, lower, p)

\* n is inserted to the right of the blocks in lower and to the left of the others
Inserted(t, n, lower) ==
    LET RECURSIVE Below(_)
        Below(p) == LET d == IF p \in lower THEN "right" ELSE "left"
                        k == RB!Kid(t, d, p)
                    IN  IF k = Null THEN RB!Insert(RB!SetKid(t, d, p, n), n, p) ELSE Below(k)
    IN  IF RB!Root(t) = Null THEN RB!Insert(t, n, Null) ELSE Below(RB!Root(t))

\* mutant: the longer blocks are put on the left
InsertSize_Reversed(t, b, len) == Inserted(t, b, {p \in Addr : len[p] >= len[b]})

\* xf_mm_insert_size and xf_mm_insert_addr
InsertSize(t, b, len) == Inserted(t, b, {p \in Addr : len[p] < len[b]})

InsertAddr(t, b) == Inserted(t, b, {p \in Addr : p < b})

-----------------------------------------------------------------------------
\* xf_mem_alloc with xf_mm_alloc: the tail of the block found is given out
Alloc(size) ==
    LET b == FindBySize(size)
        shorter == [length EXCEPT ![b] = @ - size]
        removed == RB!Delete(lMap, b).tree
    IN  /\ b # Null /\ usage + size <= MaxUsage
        /\ length' = shorter
        /\ IF shorter[b] = 0
           THEN lMap' = removed /\ aMap' = RB!Delete(aMap, b).tree
           ELSE lMap' = InsertSize(removed, b, shorter) /\ UNCHANGED aMap
        /\ used' = used \cup {[addr |-> b + shorter[b], size |-> size]}
        /\ usage' = usage + size

\* no block is large enough; the usage is counted before the result is tested
Refuse(size) ==
    /\ FindBySize(size) = Null /\ usage + size <= MaxUsage
    /\ usage' = usage + size
    /\ UNCHANGED <<lMap, aMap, length, used>>

\* xf_mem_free with xf_mm_free: the block is merged with its neighbours
Free(r) ==
    LET n == Neighbours(RB!Root(aMap), r.addr, Null, Null)
        left == n[1] # Null /\ n[1] + length[n[1]] = r.addr
        right == n[2] # Null /\ n[2] = r.addr + r.size
        b == IF left THEN n[1] ELSE r.addr
        size == r.size + (IF left THEN length[n[1]] ELSE 0)
                       + (IF right THEN length[n[2]] ELSE 0)
        gone == SelectSeq(n, LAMBDA x : IF x = n[1] THEN left ELSE right)
        removed == FoldLeft(LAMBDA t, x : RB!Delete(t, x).tree, lMap, gone)
        merged == [a \in Addr |-> IF a = b THEN size
                                  ELSE IF right /\ a = n[2] THEN 0 ELSE length[a]]
    IN  /\ r \in used
        /\ aMap' = IF left /\ right THEN RB!Delete(aMap, n[2]).tree
                   ELSE IF right THEN RB!Unlink(RB!Replace(aMap, n[2], b), n[2])
                   ELSE IF left THEN aMap
                   ELSE InsertAddr(aMap, b)
        /\ length' = merged
        /\ lMap' = InsertSize(removed, b, merged)
        /\ used' = used \ {r} /\ usage' = usage - r.size

Next ==
    \/ \E size \in 1 .. PoolSize : Alloc(size) \/ Refuse(size)
    \/ \E r \in used : Free(r)

Spec == Init /\ [][Next]_vars

-----------------------------------------------------------------------------
TypeOK ==
    /\ lMap \in RB!Tree /\ aMap \in RB!Tree
    /\ length \in [Addr -> 0 .. PoolSize]
    /\ used \subseteq [addr : Addr, size : 1 .. PoolSize]
    /\ usage \in 0 .. MaxUsage

Blocks == {[addr |-> a, size |-> length[a]] : a \in RB!Members(aMap)}

FL == INSTANCE FreeList WITH free <- Blocks

\* Both maps are red-black trees over the same blocks, one in the order of
\* addresses and one in the order of lengths, although a merge changes the
\* length or the address of a block that is in them.
MapsAgree ==
    LET byAddr == RB!InOrder(aMap)
        byLength == RB!InOrder(lMap)
    IN  /\ RB!Linked(aMap) /\ RB!RedBlack(aMap) /\ RB!Linked(lMap) /\ RB!RedBlack(lMap)
        /\ RB!Members(aMap) = RB!Members(lMap)
        /\ \A i \in 1 .. Len(byAddr) - 1 : byAddr[i] < byAddr[i + 1]
        /\ \A i \in 1 .. Len(byLength) - 1 : length[byLength[i]] <= length[byLength[i + 1]]

\* The pool gives out the tail of the smallest block that fits and merges
\* what is released with both its neighbours.
ImplementsFreeList == FL!Spec

\* The usage counter is what has been given out.
SizeOf(extents) ==
    Cardinality(UNION {e.addr .. End(e) - 1 : e \in extents})

UsageExact == usage = SizeOf(used)
=============================================================================
