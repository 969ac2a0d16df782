----------------------------- MODULE PriceLevel -----------------------------
(***************************************************************************)
(* The AVL tree of price levels, src/order_book/PriceLevel.cpp, under the  *)
(* calls LimitOrderBook makes of it: avl_insert of a price that is not in  *)
(* the tree, avl_remove of one that is, and the walks along the parent     *)
(* links.  A pointer to a level is its price.  An operation is a sequence  *)
(* of steps, one for each iteration of a loop of the code.                 *)
(***************************************************************************)
EXTENDS Integers, FiniteSets

CONSTANT Price

ASSUME PriceAssumption == Price \subseteq Nat \ {0}

VARIABLES
  node,   \* price -> PriceLevel [parent, left_child, right_child, height]
  root,   \* bid_tree_ or ask_tree_
  pc,     \* "idle", or the loop: "descend", "successor", "rebalance"
  cur,    \* the cursor of that loop
  level,  \* the node inserted or removed
  prices  \* auxiliary: the prices inserted and not removed

vars == <<node, root, pc, cur, level, prices>>

Nil == 0  \* nullptr

Init == /\ node = <<>> /\ root = Nil
        /\ pc = "idle" /\ cur = Nil /\ level = Nil
        /\ prices = {}
-----------------------------------------------------------------------------
(* Helpers, on a tree t: the nodes as above *)

height(t, n) == IF n = Nil THEN 0 ELSE t[n].height

Taller(a, b) == IF a >= b THEN a ELSE b

TrueHeight(t, n) ==
  1 + Taller(height(t, t[n].left_child), height(t, t[n].right_child))

update_height(t, n) == [t EXCEPT ![n].height = TrueHeight(t, n)]

balance_factor(t, n) ==
  height(t, t[n].left_child) - height(t, t[n].right_child)

\* if (n) n->parent = p;
Hang(t, n, p) == IF n = Nil THEN t ELSE [t EXCEPT ![n].parent = p]

\* The link of p that leads to the child n leads to m.
Relink(t, p, n, m) ==
  IF p = Nil THEN t
  ELSE IF t[p].left_child = n THEN [t EXCEPT ![p].left_child = m]
  ELSE [t EXCEPT ![p].right_child = m]

\* The left child comes to the top; the caller links it to the parent.
rotate_right(t, n) ==
  LET l == t[n].left_child
      u == [Hang(t, t[l].right_child, n) EXCEPT
              ![n].left_child = t[l].right_child, ![n].parent = l,
              ![l].right_child = n, ![l].parent = t[n].parent]
  IN  update_height(update_height(u, n), l)

rotate_left(t, n) ==
  LET r == t[n].right_child
      u == [Hang(t, t[r].left_child, n) EXCEPT
              ![n].right_child = t[r].left_child, ![n].parent = r,
              ![r].left_child = n, ![r].parent = t[n].parent]
  IN  update_height(update_height(u, n), r)

\* The inner rotation of the LR and RL cases.
LeftChildFirst(t, n) ==
  LET l == t[n].left_child
      top == t[l].right_child
  IN  IF balance_factor(t, l) < 0
      THEN [rotate_left(t, l) EXCEPT ![n].left_child = top, ![top].parent = n]
      ELSE t

RightChildFirst(t, n) ==
  LET r == t[n].right_child
      top == t[r].left_child
  IN  IF balance_factor(t, r) > 0
      THEN [rotate_right(t, r) EXCEPT ![n].right_child = top, ![top].parent = n]
      ELSE t

\* Faulty variant: an outer rotation alone, whichever grandchild is the taller.
fix_one_single(t, n) ==
  LET u == update_height(t, n)
  IN  IF balance_factor(u, n) > 1
      THEN [tree |-> rotate_right(u, n), top |-> u[n].left_child]
      ELSE IF balance_factor(u, n) < -1
      THEN [tree |-> rotate_left(u, n), top |-> u[n].right_child]
      ELSE [tree |-> u, top |-> n]

\* fix_one: the tree, and the node now at the place of n.
fix_one(t, n) ==
  LET u == update_height(t, n)
      l == LeftChildFirst(u, n)
      r == RightChildFirst(u, n)
  IN  IF balance_factor(u, n) > 1
      THEN [tree |-> rotate_right(l, n), top |-> l[n].left_child]
      ELSE IF balance_factor(u, n) < -1
      THEN [tree |-> rotate_left(r, n), top |-> r[n].right_child]
      ELSE [tree |-> u, top |-> n]
-----------------------------------------------------------------------------
(* rebalance_up, from the node start to the root *)

StartRebalance(start) ==
  /\ cur' = start
  /\ pc' = IF start = Nil THEN "idle" ELSE "rebalance"

\* One node: fix it, link what is now at its place, go to its old parent.
Rebalance ==
  /\ pc = "rebalance"
  /\ LET par == node[cur].parent
         fixed == fix_one(node, cur)
         linked == [Relink(fixed.tree, par, cur, fixed.top) EXCEPT
                      ![fixed.top].parent = par]
     IN  /\ node' = IF fixed.top = cur THEN fixed.tree ELSE linked
         /\ root' = IF par = Nil THEN fixed.top ELSE root
         /\ StartRebalance(par)
  /\ UNCHANGED <<level, prices>>
-----------------------------------------------------------------------------
(* avl_insert *)

Leaf(p) == [parent |-> p, left_child |-> Nil, right_child |-> Nil, height |-> 1]

With(t, n, v) == [x \in DOMAIN t \union {n} |-> IF x = n THEN v ELSE t[x]]

Insert(p) ==
  /\ pc = "idle" /\ p \notin prices
  /\ prices' = prices \union {p} /\ level' = p
  /\ IF root = Nil
     THEN /\ node' = With(node, p, Leaf(Nil)) /\ root' = p
          /\ UNCHANGED <<pc, cur>>
     ELSE /\ cur' = root /\ pc' = "descend"
          /\ UNCHANGED <<node, root>>

\* One comparison on the way down; a missing child is where the level goes.
Descend ==
  /\ pc = "descend"
  /\ LET left == level < cur
         child == IF left THEN node[cur].left_child ELSE node[cur].right_child
         hung == With(node, level, Leaf(cur))
     IN  IF child # Nil
         THEN cur' = child /\ UNCHANGED <<node, pc>>
         ELSE /\ node' = IF left THEN [hung EXCEPT ![cur].left_child = level]
                         ELSE [hung EXCEPT ![cur].right_child = level]
              /\ StartRebalance(cur)
  /\ UNCHANGED <<root, level, prices>>
-----------------------------------------------------------------------------
(* avl_remove *)

\* The links of n and its successor s are exchanged; under is the tree after
\* the neighbours of n have s as theirs, h the height of s.
Swapped(t, n, s, under, h) ==
  LET direct == s = t[n].right_child
      apart  == IF direct THEN under
                ELSE [under EXCEPT ![t[n].right_child].parent = s,
                                   ![t[s].parent].left_child = n]
      swapped == [Hang(apart, t[s].right_child, n) EXCEPT
        ![s] = [parent |-> t[n].parent, left_child |-> t[n].left_child,
                right_child |-> IF direct THEN n ELSE t[n].right_child,
                height |-> h],
        ![n].parent = IF direct THEN s ELSE t[s].parent,
        ![n].left_child = Nil,
        ![n].right_child = t[s].right_child]
  IN  update_height(swapped, n)

\* Faulty variants: the left subtree of n keeps n as its parent; s keeps its
\* own height.
Exchange_orphans(t, n, s) ==
  Swapped(t, n, s, Relink(t, t[n].parent, n, s), t[n].height)
Exchange_keepsHeight(t, n, s) ==
  Swapped(t, n, s, Hang(Relink(t, t[n].parent, n, s), t[n].left_child, s), t[s].height)

\* A node n with two children and its successor s change places; s takes over
\* the height of n as well.
Exchange(t, n, s) ==
  Swapped(t, n, s, Hang(Relink(t, t[n].parent, n, s), t[n].left_child, s), t[n].height)

Without(t, n) == [x \in DOMAIN t \ {n} |-> t[x]]

\* The rest of avl_remove, for a node n of the tree t with one child at most:
\* the child takes its place, and the walk starts at its parent.
Unlink(t, top, n) ==
  LET child == IF t[n].right_child # Nil THEN t[n].right_child ELSE t[n].left_child
      par   == t[n].parent
  IN  /\ node' = Without(Hang(Relink(t, par, n, child), child, par), n)
      /\ root' = IF par = Nil THEN child ELSE top
      /\ StartRebalance(par)

Remove(p) ==
  /\ pc = "idle" /\ p \in prices
  /\ prices' = prices \ {p} /\ level' = p
  /\ IF node[p].left_child # Nil /\ node[p].right_child # Nil
     THEN /\ cur' = node[p].right_child /\ pc' = "successor"
          /\ UNCHANGED <<node, root>>
     ELSE Unlink(node, root, p)

\* while (succ->left_child): one step down, or the exchange and the removal.
Successor ==
  /\ pc = "successor"
  /\ IF node[cur].left_child # Nil
     THEN /\ cur' = node[cur].left_child
          /\ UNCHANGED <<node, root, pc>>
     ELSE Unlink(Exchange(node, level, cur),
                 IF node[level].parent = Nil THEN cur ELSE root, level)
  /\ UNCHANGED <<level, prices>>

Call == \E p \in Price : Insert(p) \/ Remove(p)
Step == Descend \/ Successor \/ Rebalance

Next == Call \/ Step

Spec == Init /\ [][Next]_vars
-----------------------------------------------------------------------------
(* The walks of LimitOrderBook.cpp *)

\* The loops: on to the next node as long as there is one.
tree_max(n) ==
  LET last[x \in DOMAIN node \union {Nil}] ==
        IF x = Nil \/ node[x].right_child = Nil THEN x
        ELSE last[node[x].right_child]
  IN  last[n]

tree_min(n) ==
  LET last[x \in DOMAIN node \union {Nil}] ==
        IF x = Nil \/ node[x].left_child = Nil THEN x
        ELSE last[node[x].left_child]
  IN  last[n]

\* The parent reached by the first link that is not to a right (left) child.
AfterRight(n) ==
  LET up[x \in DOMAIN node] ==
        LET p == node[x].parent
        IN  IF p # Nil /\ node[p].right_child = x THEN up[p] ELSE p
  IN  up[n]

AfterLeft(n) ==
  LET up[x \in DOMAIN node] ==
        LET p == node[x].parent
        IN  IF p # Nil /\ node[p].left_child = x THEN up[p] ELSE p
  IN  up[n]

inorder_successor(n) ==
  IF n = Nil THEN Nil
  ELSE IF node[n].right_child # Nil THEN tree_min(node[n].right_child)
  ELSE AfterRight(n)

\* Faulty variant: the climb is left out.
inorder_predecessor_noClimb(n) ==
  IF n = Nil THEN Nil
  ELSE IF node[n].left_child # Nil THEN tree_max(node[n].left_child)
  ELSE node[n].parent

inorder_predecessor(n) ==
  IF n = Nil THEN Nil
  ELSE IF node[n].left_child # Nil THEN tree_max(node[n].left_child)
  ELSE AfterLeft(n)
-----------------------------------------------------------------------------
(* Properties *)

\* Between operations the tree holds exactly the prices inserted and not
\* removed, its ends are the best bid and the best ask, and from every level
\* the walks of side_levels_impl go to the next lower or next higher price: a
\* wrong link, a lost subtree or a node out of order would show here.
Below(p) == {q \in prices : q < p}
Above(p) == {q \in prices : q > p}
IsLast(p, set)  == IF set = {} THEN p = Nil ELSE p \in set /\ \A q \in set : q <= p
IsFirst(p, set) == IF set = {} THEN p = Nil ELSE p \in set /\ \A q \in set : p <= q
WalksInOrder ==
  pc = "idle" =>
    /\ DOMAIN node = prices
    /\ IsLast(tree_max(root), prices) /\ IsFirst(tree_min(root), prices)
    /\ \A p \in prices : /\ IsLast(inorder_predecessor(p), Below(p))
                         /\ IsFirst(inorder_successor(p), Above(p))

\* Every link has its counterpart: a child names its parent, a parent has the
\* child, the root alone has no parent.
LinksAgree ==
  /\ root # Nil => root \in DOMAIN node
  /\ \A n \in DOMAIN node :
       LET p == node[n].parent l == node[n].left_child r == node[n].right_child
       IN  /\ p = Nil <=> n = root
           /\ p # Nil => p \in DOMAIN node /\ n \in {node[p].left_child, node[p].right_child}
           /\ \A c \in {l, r} \ {Nil} : c \in DOMAIN node /\ node[c].parent = n
           /\ l = r => l = Nil

\* Away from the cursor of rebalance_up every node is balanced and its height
\* is that of its subtrees: one climb from the place of the change is enough.
Balanced(n) == /\ node[n].height = TrueHeight(node, n)
               /\ balance_factor(node, n) \in -1 .. 1
BalancedOffPath ==
  \A n \in DOMAIN node : Balanced(n) \/ (pc = "rebalance" /\ n = cur)

\* Every loop ends: on the way down the heights recorded at the cursor fall,
\* on the way up they rise, stale or not.
LoopsAdvance ==
  [][/\ pc \in {"descend", "successor"} /\ pc' = pc =>
          node'[cur'].height < node[cur].height
     /\ pc = "rebalance" /\ pc' = pc =>
          node'[cur'].height > node[cur].height]_vars
=============================================================================
