------------------------------- MODULE FreeList -------------------------------
(***************************************************************************)
(* What a memory pool promises: the allocator of xf-mem.c as a set of free *)
(* extents and a set of allocated ones, without the trees in which the     *)
(* code keeps and finds the free ones.                                     *)
(***************************************************************************)
EXTENDS Extents

VARIABLES free, used

vars == <<free, used>>

Init == free = {[addr |-> 0, size |-> PoolSize]} /\ used = {}

\* the smallest free extent that is large enough loses its tail
Alloc(size) ==
    \E b \in free :
        /\ b.size >= size
        /\ \A c \in free : c.size >= size => c.size >= b.size
        /\ used' = used \cup {[addr |-> End(b) - size, size |-> size]}
        /\ free' = (free \ {b}) \cup
                   (IF b.size = size THEN {} ELSE {[addr |-> b.addr, size |-> b.size - size]})

Left(e)  == {b \in free : End(b) = e.addr}
Right(e) == {b \in free : b.addr = End(e)}

\* an extent released is merged with the free ones on both its sides
Release(e) ==
    LET lo == IF Left(e) = {} THEN e.addr ELSE (CHOOSE b \in Left(e) : TRUE).addr
        hi == IF Right(e) = {} THEN End(e) ELSE End(CHOOSE b \in Right(e) : TRUE)
    IN  /\ e \in used
        /\ used' = used \ {e}
        /\ free' = (free \ (Left(e) \cup Right(e))) \cup {[addr |-> lo, size |-> hi - lo]}

Next ==
    \/ \E size \in 1 .. PoolSize : Alloc(size)
    \/ \E e \in used : Release(e)

Spec == Init /\ [][Next]_vars

-----------------------------------------------------------------------------
\* No two extents given out overlap, and none overlaps a free one, whose
\* descriptor the allocator keeps in the free memory itself.
NoOverlap ==
    /\ used \subseteq Extent /\ free \subseteq Extent
    /\ \A d, e \in used : d # e => Apart(d, e)
    /\ \A d \in free, e \in used : Apart(d, e)

\* Every stretch of memory not given out lies in one free extent: the pool is
\* never more fragmented than its users make it, and an allocation fails only
\* if there is no room.
GapsAreFree ==
    \A e \in Extent :
        (\A r \in used : Apart(r, e)) =>
            \E b \in free : b.addr <= e.addr /\ End(e) <= End(b)
=============================================================================
