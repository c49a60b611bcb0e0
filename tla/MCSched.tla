------------------------------- MODULE MCSched -------------------------------
(* Tasks are interchangeable: the view is the state up to their names, with *)
(* each node known by its place in the order of the tree.                   *)
EXTENDS Sched

UpToNames ==
    LET order == RB!InOrder(tree)
        place == [n \in RB!Members(tree) |-> CHOOSE i \in DOMAIN order : order[i] = n]
        PlaceOf(n) == IF n \in DOMAIN place THEN place[n] ELSE 0
    IN  << [i \in DOMAIN order |->
               <<PlaceOf(RB!Kid(tree, "left", order[i])), PlaceOf(RB!Kid(tree, "right", order[i])),
                 RB!Black(tree, order[i]), stamp[order[i]]>>],
           PlaceOf(RB!Root(tree)), PlaceOf(RB!Cache(tree)), now,
           Cardinality(taken), Cardinality({x \in Tasks : tree.parent[x] = NoNode})>>
=============================================================================
