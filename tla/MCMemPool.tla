------------------------------ MODULE MCMemPool ------------------------------
(* The usage counter has no influence on anything else: what it has counted *)
(* is left out of the view.                                                 *)
EXTENDS MemPool

WithoutUsage == <<lMap, aMap, length, used>>
=============================================================================
