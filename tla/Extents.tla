-------------------------------- MODULE Extents --------------------------------
(* Stretches of a memory pool, counted in allocation units: sizeof(xf_mm_item), *)
(* by which XF_MM rounds every size.                                        *)
EXTENDS Integers

CONSTANT PoolSize

ASSUME PoolSizeAssumption == PoolSize \in Nat \ {0}

End(e) == e.addr + e.size

Extent == {e \in [addr : 0 .. PoolSize - 1, size : 1 .. PoolSize] : End(e) <= PoolSize}

Apart(d, e) == End(d) <= e.addr \/ End(e) <= d.addr
=============================================================================
