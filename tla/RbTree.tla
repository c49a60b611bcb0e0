-------------------------------- MODULE RbTree --------------------------------
(***************************************************************************)
(* The red-black tree of lib/rbtree.h under the scheduler's queues and the *)
(* memory pools, as operators on a tree value.                             *)
(*                                                                         *)
(* Null is the sentinel, &tree->root: its left child is the root of the    *)
(* tree and its right child the cached node of its user.  Its parent and   *)
(* its colour are never read as such, and are left out.  NoNode is C's     *)
(* NULL, which only the links of a node never inserted hold.  Mirrored     *)
(* cases of the code are one case here, for a direction d.                 *)
(***************************************************************************)
EXTENDS Naturals, Sequences, FiniteSets

CONSTANTS Nodes,
          Null, NoNode  \* neither is a node; the modules that use this one assume it

Side == {"left", "right"}
Other(d) == IF d = "left" THEN "right" ELSE "left"

Tree == [kid : [Side -> [Nodes \cup {Null} -> Nodes \cup {Null, NoNode}]],
         parent : [Nodes -> Nodes \cup {Null, NoNode}],
         red : [Nodes -> BOOLEAN]]

-----------------------------------------------------------------------------
Kid(t, d, n) == t.kid[d][n]
Black(t, n)  == n = Null \/ ~t.red[n]
Root(t)      == t.kid["left"][Null]
Cache(t)     == t.kid["right"][Null]

SetKid(t, d, n, k) == [t EXCEPT !.kid[d][n] = k]
SetCache(t, n)     == SetKid(t, "right", Null, n)
SetParent(t, n, p) == IF n = Null THEN t ELSE [t EXCEPT !.parent[n] = p]
Paint(t, n, r)     == [t EXCEPT !.red[n] = r]

\* k becomes the child of n on side d
Link(t, d, n, k) == SetParent(SetKid(t, d, n, k), k, n)

\* n takes the place of old below g, or becomes the root
Hang(t, g, old, n) ==
    SetKid(t, IF g = Null \/ Kid(t, "left", g) = old THEN "left" ELSE "right", g, n)

\* the links of n and its colour, as the node is on its removal
Unlink(t, n) == [t EXCEPT !.kid["left"][n] = Null, !.kid["right"][n] = Null,
                          !.parent[n] = Null, !.red[n] = FALSE]

EmptyTree == [kid |-> [d \in Side |-> [n \in Nodes \cup {Null} |->
                          IF n = Null THEN Null ELSE NoNode]],
              parent |-> [n \in Nodes |-> NoNode],
              red |-> [n \in Nodes |-> FALSE]]

-----------------------------------------------------------------------------
(* Insertion                                                               *)

RECURSIVE InsertBalance(_, _, _)
InsertBalance(t, n, p) ==
    IF p = Null THEN Hang(Paint(t, n, FALSE), Null, n, n)
    ELSE IF Black(t, p) THEN t
    ELSE
    LET g == t.parent[p]
        d == IF p = Kid(t, "left", g) THEN "left" ELSE "right"
        u == Kid(t, Other(d), g)
        top == t.parent[g]
        \* parent and uncle are red
        recoloured == Paint(Paint(Paint(t, p, FALSE), u, FALSE), g, TRUE)
        \* n is an outer grandchild: p takes the place of g
        outer == Link(Link(t, d, g, Kid(t, Other(d), p)), Other(d), p, g)
        \* n is an inner grandchild: n takes the place of g
        inner == LET t1 == Link(t, Other(d), p, Kid(t, d, n))
                     t2 == Link(t1, d, g, Kid(t, Other(d), n))
                 IN  Link(Link(t2, d, n, p), Other(d), n, g)
        Place(s, m) == Hang(SetParent(Paint(Paint(s, g, TRUE), m, FALSE), m, top), top, g, m)
    IN  IF ~Black(t, u) THEN InsertBalance(recoloured, g, top)
        ELSE IF n = Kid(t, d, p) THEN Place(outer, p)
        ELSE Place(inner, n)

\* rb_insert; the caller has made n a child of p unless the tree is empty
Insert(t, n, p) ==
    LET t1 == [t EXCEPT !.kid["left"][n] = Null, !.kid["right"][n] = Null,
                        !.parent[n] = p, !.red[n] = p # Null]
    IN  IF p = Null THEN SetKid(t1, "left", Null, n) ELSE InsertBalance(t1, n, p)

-----------------------------------------------------------------------------
(* Removal                                                                 *)

\* n is one black node short; p is its parent
RECURSIVE DeleteRebalance(_, _, _)
DeleteRebalance(t, n, p) ==
    LET d == IF n = Kid(t, "left", p) THEN "left" ELSE "right"
        o == Other(d)
        \* a red sibling first takes the place of p, above it
        sib == Kid(t, o, p)
        turned ==
            LET t1 == Link(t, o, p, Kid(t, d, sib))
                t2 == Paint(Paint(Link(t1, d, sib, p), sib, FALSE), p, TRUE)
            IN  Hang(SetParent(t2, sib, t.parent[p]), t.parent[p], p, sib)
        b == IF Black(t, sib) THEN t ELSE turned
        g == b.parent[p]
        s == Kid(b, o, p)
        near == Kid(b, d, s)
        far == Kid(b, o, s)
        \* m, in p's colour, takes the place of p
        Place(c, m) == Hang(SetParent(Paint(Paint(Link(c, d, m, p), m, b.red[p]), p, FALSE), m, g),
                            g, p, m)
        outer == Place(Paint(Link(b, o, p, near), far, FALSE), s)
        inner == LET t1 == Link(b, o, p, Kid(b, d, near))
                     t2 == Link(t1, d, s, Kid(b, o, near))
                 IN  Place(Link(t2, o, near, s), near)
        lighter == Paint(b, s, TRUE)
    IN  IF ~Black(b, far) THEN outer
        ELSE IF ~Black(b, near) THEN inner
        ELSE IF ~Black(b, p) THEN Paint(lighter, p, FALSE)
        ELSE IF g = Null THEN lighter
        ELSE DeleteRebalance(lighter, p, g)

\* the last node on side d of the subtree of n
RECURSIVE Last(_, _, _)
Last(t, d, n) == IF Kid(t, d, n) = Null THEN n ELSE Last(t, d, Kid(t, d, n))

\* what a removal leaves behind: m hangs where n did, a black node may be
\* missing above c, whose parent is top
Repaired(t, n, p, m, c, top, black) ==
    LET t1 == Hang(t, p, n, m)
        t2 == IF ~black THEN t1
              ELSE IF c = Null THEN DeleteRebalance(t1, Null, top)
              ELSE Paint(t1, c, FALSE)
    IN  Unlink(t2, n)

\* m, the in-order neighbour of n on side d, takes its place
Replaced(t, n, d) ==
    LET p == t.parent[n]
        m == Last(t, Other(d), Kid(t, d, n))
        c == Kid(t, d, m)
        top == t.parent[m]
        apart == LET t1 == Link(t, IF c = Kid(t, "left", m) THEN "right" ELSE "left", top, c)
                 IN  Link(Link(t1, "left", m, Kid(t1, "left", n)),
                          "right", m, Kid(t1, "right", n))
        adjacent == Link(t, Other(d), m, Kid(t, Other(d), n))
        t2 == SetParent(IF top # n THEN apart ELSE adjacent, m, p)
    IN  Repaired(Paint(t2, m, t.red[n]), n, p, m, c, IF top # n THEN top ELSE m, Black(t, m))

\* mutant: a node that is not a leaf is replaced by its successor first
Delete_SuccessorFirst(t, n) ==
    LET p == t.parent[n]
    IN  IF p = NoNode THEN [tree |-> t, next |-> NoNode]
        ELSE IF Kid(t, "right", n) # Null
        THEN [tree |-> Replaced(t, n, "right"), next |-> Last(t, "left", Kid(t, "right", n))]
        ELSE IF Kid(t, "left", n) # Null
        THEN [tree |-> Replaced(t, n, "left"), next |-> Last(t, "right", Kid(t, "left", n))]
        ELSE IF p = Null
        THEN [tree |-> Unlink(SetKid(t, "left", Null, Null), n), next |-> Null]
        ELSE [tree |-> Repaired(t, n, p, Null, Null, p, Black(t, n)), next |-> p]

\* rb_delete: the tree without n, and the node that it returns
Delete(t, n) ==
    LET p == t.parent[n]
    IN  IF p = NoNode THEN [tree |-> t, next |-> NoNode]
        ELSE IF Kid(t, "left", n) # Null
        THEN [tree |-> Replaced(t, n, "left"), next |-> Last(t, "right", Kid(t, "left", n))]
        ELSE IF Kid(t, "right", n) # Null
        THEN [tree |-> Replaced(t, n, "right"), next |-> Last(t, "left", Kid(t, "right", n))]
        ELSE IF p = Null
        THEN [tree |-> Unlink(SetKid(t, "left", Null, Null), n), next |-> Null]
        ELSE [tree |-> Repaired(t, n, p, Null, Null, p, Black(t, n)), next |-> p]

\* rb_replace: m takes the place of n, whose own links stay as they are
Replace(t, n, m) ==
    LET t1 == Link(Link(t, "left", m, Kid(t, "left", n)), "right", m, Kid(t, "right", n))
    IN  Hang(SetParent(Paint(t1, m, t.red[n]), m, t.parent[n]), t.parent[n], n, m)

-----------------------------------------------------------------------------
(* What a tree is: its nodes in order, and whether it is a red-black tree  *)

RECURSIVE InOrderBelow(_, _, _)
InOrderBelow(t, n, depth) ==
    IF n \notin Nodes \/ depth = 0 THEN <<>>
    ELSE InOrderBelow(t, Kid(t, "left", n), depth - 1) \o <<n>>
           \o InOrderBelow(t, Kid(t, "right", n), depth - 1)

InOrder(t) == InOrderBelow(t, Root(t), Cardinality(Nodes))

Members(t) == LET order == InOrder(t) IN {order[i] : i \in DOMAIN order}

\* how many black nodes every way down from n has, or 0 if they differ
RECURSIVE BlackHeight(_, _, _)
BlackHeight(t, n, depth) ==
    IF n \notin Nodes \/ depth = 0 THEN 1
    ELSE LET l == BlackHeight(t, Kid(t, "left", n), depth - 1)
             r == BlackHeight(t, Kid(t, "right", n), depth - 1)
         IN  IF l # r \/ l = 0 THEN 0 ELSE l + (IF Black(t, n) THEN 1 ELSE 0)

\* children and parents agree, and each node is met once
Linked(t) ==
    /\ Len(InOrder(t)) = Cardinality(Members(t))
    /\ Root(t) # Null => t.parent[Root(t)] = Null
    /\ \A n \in Members(t), d \in Side :
          Kid(t, d, n) # Null => Kid(t, d, n) \in Nodes /\ t.parent[Kid(t, d, n)] = n

RedBlack(t) ==
    /\ Black(t, Root(t))
    /\ \A n \in Members(t) : t.red[n] => Black(t, t.parent[n])
    /\ BlackHeight(t, Root(t), Cardinality(Nodes)) > 0
=============================================================================
