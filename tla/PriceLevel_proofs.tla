-------------------------- MODULE PriceLevel_proofs --------------------------
(***************************************************************************)
(* PriceLevel, for every set of prices: the AVL tree of a side is a search *)
(* tree of the prices in it, balanced, and its walks follow the prices.    *)
(*                                                                         *)
(* The invariant is TreeInv.  Between the operations and in every loop of  *)
(* theirs the links make a search tree (IsTree, with the set of nodes      *)
(* below each node as the witness); the recorded heights are right and no  *)
(* node leans, but for the node under the cursor of rebalance_up, whose    *)
(* subtree has grown or shrunk by one.  IsTree is local to a node and its  *)
(* children and alike on both sides, so a rotation and its mirror, and the *)
(* two sides of an exchange, are proved once.                              *)
(***************************************************************************)
EXTENDS PriceLevel, FiniteSetTheorems, WellFoundedInduction, TLAPS
-----------------------------------------------------------------------------
(* Search trees *)

\* The nodes below a link.
Sub(S, x) == IF x = Nil THEN {} ELSE S[x]

\* A tree of the nodes D: P, A and B are the links to the parent and the two
\* children, S are the subtrees, and k gives the order of the nodes: what is
\* below A comes before a node, what is below B after it.  All of it is local to
\* a node and its children, and the two sides are alike.
IsTree(D, top, P, A, B, S, k) ==
  /\ D \subseteq Nat \ {0} /\ IsFiniteSet(D) /\ k \in [Nat -> Int]
  /\ top \in D \union {Nil} /\ S \in [D -> SUBSET D]
  /\ P \in [D -> D \union {Nil}]
  /\ A \in [D -> D \union {Nil}] /\ B \in [D -> D \union {Nil}]
  /\ IF top = Nil THEN D = {} ELSE S[top] = D
  /\ \A n \in D : /\ P[n] = Nil <=> n = top
                  /\ P[n] # Nil => A[P[n]] = n \/ B[P[n]] = n
                  /\ A[n] # Nil => P[A[n]] = n
                  /\ B[n] # Nil => P[B[n]] = n
                  /\ S[n] = {n} \union Sub(S, A[n]) \union Sub(S, B[n])
                  /\ \A x \in Sub(S, A[n]) : k[x] < k[n]
                  /\ \A x \in Sub(S, B[n]) : k[n] < k[x]

\* Seen in a mirror a tree is a tree.
Mirror(k) == [x \in Nat |-> -k[x]]

LEMMA MirrorIsTree ==
  ASSUME NEW D, NEW top, NEW P, NEW A, NEW B, NEW S, NEW k, IsTree(D, top, P, A, B, S, k)
  PROVE  IsTree(D, top, P, B, A, S, Mirror(k))
<1> DEFINE m == Mirror(k)
<1>1. k \in [Nat -> Int] /\ D \subseteq Nat
  BY DEF IsTree
<1>2. m \in [Nat -> Int] /\ \A x, y \in Nat : m[x] < m[y] <=> k[y] < k[x]
  BY <1>1 DEF Mirror
<1> HIDE DEF m
<1>3. ASSUME NEW n \in D
      PROVE  /\ \A x \in Sub(S, A[n]) : m[n] < m[x]
             /\ \A x \in Sub(S, B[n]) : m[x] < m[n]
  <2>1. Sub(S, A[n]) \subseteq D /\ Sub(S, B[n]) \subseteq D
    BY DEF IsTree, Sub
  <2> QED BY <1>1, <1>2, <2>1 DEF IsTree
<1> QED BY <1>2, <1>3 DEF IsTree, m

\* The nodes around a node.
LEMMA NodesAround ==
  ASSUME NEW D, NEW top, NEW P, NEW A, NEW B, NEW S, NEW k, IsTree(D, top, P, A, B, S, k),
         NEW n \in D
  PROVE  /\ n \in S[n] /\ S[n] \subseteq D /\ n \in Nat /\ n # Nil /\ Nil \notin D
         /\ P[n] \in D \union {Nil} /\ P[n] # n
         /\ A[n] \in D \union {Nil} /\ A[n] # n
         /\ B[n] \in D \union {Nil} /\ B[n] # n
         /\ Sub(S, A[n]) \subseteq D /\ Sub(S, B[n]) \subseteq D
         /\ n \notin Sub(S, A[n]) /\ n \notin Sub(S, B[n])
         /\ Sub(S, A[n]) \intersect Sub(S, B[n]) = {}
         /\ A[n] # Nil => A[n] # B[n] /\ A[n] \in Sub(S, A[n]) /\ k[A[n]] < k[n]
         /\ B[n] # Nil => B[n] \in Sub(S, B[n]) /\ k[n] < k[B[n]]
<1>1. /\ D \subseteq Nat \ {0} /\ k \in [Nat -> Int] /\ S \in [D -> SUBSET D]
      /\ P[n] \in D \union {Nil} /\ A[n] \in D \union {Nil} /\ B[n] \in D \union {Nil}
      /\ \A x \in Sub(S, A[n]) : k[x] < k[n]
      /\ \A x \in Sub(S, B[n]) : k[n] < k[x]
      /\ S[n] = {n} \union Sub(S, A[n]) \union Sub(S, B[n])
  BY DEF IsTree
<1>2. \A x \in D : x \in S[x]
  BY DEF IsTree
<1>3. \A x \in D : k[x] \in Int
  BY <1>1
<1>4. Nil \notin D
  BY <1>1 DEF Nil
<1>5. Sub(S, A[n]) \subseteq D /\ Sub(S, B[n]) \subseteq D
  BY <1>1 DEF Sub
<1>6. n \notin Sub(S, A[n]) /\ n \notin Sub(S, B[n])
  BY <1>1, <1>3
<1>7. Sub(S, A[n]) \intersect Sub(S, B[n]) = {}
  <2> SUFFICES ASSUME NEW x \in Sub(S, A[n]), x \in Sub(S, B[n]) PROVE FALSE
    OBVIOUS
  <2>1. k[x] < k[n] /\ k[n] < k[x] /\ k[x] \in Int /\ k[n] \in Int
    BY <1>1, <1>3, <1>5
  <2> QED BY <2>1
<1>8. /\ A[n] # Nil => A[n] \in Sub(S, A[n]) /\ k[A[n]] < k[n]
      /\ B[n] # Nil => B[n] \in Sub(S, B[n]) /\ k[n] < k[B[n]]
  BY <1>1, <1>2 DEF Sub
<1>9. A[n] # n /\ B[n] # n /\ (A[n] # Nil => A[n] # B[n])
  BY <1>4, <1>6, <1>7, <1>8
<1>10. P[n] # n
  <2>1. \A x \in D : A[x] # x /\ B[x] # x
    <3> SUFFICES ASSUME NEW x \in D PROVE A[x] # x /\ B[x] # x
      OBVIOUS
    <3>1. /\ \A y \in Sub(S, A[x]) : k[y] < k[x]
          /\ \A y \in Sub(S, B[x]) : k[x] < k[y]
      BY DEF IsTree
    <3> QED BY <1>2, <1>3, <1>4, <3>1 DEF Sub
  <2> QED BY <1>4, <2>1 DEF IsTree
<1> QED BY <1>1, <1>2, <1>4, <1>5, <1>6, <1>7, <1>8, <1>9, <1>10

\* Of any nodes there is one with none of the others below it.
LEMMA LowestExists ==
  ASSUME NEW D, IsFiniteSet(D), NEW S \in [D -> SUBSET D], NEW Q, Q \subseteq D, Q # {}
  PROVE  \E x \in Q : \A y \in Q : ~(S[y] \subseteq S[x] /\ S[y] # S[x])
<1> DEFINE subs == {S[x] : x \in Q}
<1>1. subs \subseteq FiniteSubsetsOf(D) /\ subs # {}
  BY FS_FiniteSubsetsOfFinite
<1>2. PICK m \in subs : \A y \in subs : <<y, m>> \notin StrictSubsetOrdering(D)
  <2> HIDE DEF subs
  <2> QED BY <1>1, FS_StrictSubsetOrderingWellFounded, WFMin
<1>3. PICK x \in Q : m = S[x]
  BY <1>2
<1>4. ASSUME NEW y \in Q, S[y] \subseteq S[x], S[y] # S[x] PROVE FALSE
  <2>1. S[y] \in SUBSET D /\ S[x] \in SUBSET D /\ S[y] \in subs
    OBVIOUS
  <2>2. <<S[y], S[x]>> \in StrictSubsetOrdering(D)
    BY <1>4, <2>1 DEF StrictSubsetOrdering
  <2> HIDE DEF subs
  <2> QED BY <1>2, <1>3, <2>1, <2>2
<1> QED BY <1>4

\* What is below a node has below it only what is below that node, and its parent
\* is there too unless it is the node itself.
LEMMA BelowIsBelow ==
  ASSUME NEW D, NEW top, NEW P, NEW A, NEW B, NEW S, NEW k, IsTree(D, top, P, A, B, S, k)
  PROVE  \A x \in D : \A y \in S[x] : S[y] \subseteq S[x] /\ (y # x => P[y] \in S[x])
<1> DEFINE Good(x) == \A y \in S[x] : S[y] \subseteq S[x] /\ (y # x => P[y] \in S[x])
           Q == {x \in D : ~Good(x)}
<1> SUFFICES ASSUME Q # {} PROVE FALSE
  OBVIOUS
<1>1. IsFiniteSet(D) /\ S \in [D -> SUBSET D] /\ Q \subseteq D
  BY DEF IsTree
<1>2. PICK x \in Q : \A y \in Q : ~(S[y] \subseteq S[x] /\ S[y] # S[x])
  <2> HIDE DEF Q
  <2> QED BY <1>1, LowestExists
<1>3. /\ S[x] = {x} \union Sub(S, A[x]) \union Sub(S, B[x]) /\ x \in D /\ ~Good(x)
      /\ A[x] # Nil => P[A[x]] = x /\ A[x] \in D
      /\ B[x] # Nil => P[B[x]] = x /\ B[x] \in D
  BY DEF IsTree
<1>4. x \notin Sub(S, A[x]) /\ x \notin Sub(S, B[x])
  BY NodesAround
<1> HIDE DEF Good
<1>5. ASSUME NEW c \in {A[x], B[x]}, c # Nil PROVE Good(c) /\ S[c] \subseteq S[x] /\ P[c] = x
  <2>1. S[c] \subseteq S[x] /\ x \notin S[c] /\ x \in S[x] /\ c \in D
    BY <1>3, <1>4, <1>5 DEF Sub
  <2> QED BY <1>2, <1>3, <1>5, <2>1
<1>6. ASSUME NEW y \in S[x] PROVE S[y] \subseteq S[x] /\ (y # x => P[y] \in S[x])
  <2>1. CASE y = x
    BY <2>1
  <2>2. ASSUME NEW c \in {A[x], B[x]}, c # Nil, y \in S[c]
        PROVE  S[y] \subseteq S[x] /\ (y # x => P[y] \in S[x])
    <3>1. S[y] \subseteq S[c] /\ (y # c => P[y] \in S[c])
      BY <1>5, <2>2 DEF Good
    <3>2. S[c] \subseteq S[x] /\ P[c] = x /\ x \in S[x]
      BY <1>3, <1>5, <2>2
    <3> QED BY <3>1, <3>2
  <2> QED BY <1>3, <2>1, <2>2 DEF Sub
<1> QED BY <1>3, <1>6 DEF Good

\* A subtree has no gap: a node outside comes before all of it or after all.
LEMMA NothingBetween ==
  ASSUME NEW D, NEW top, NEW P, NEW A, NEW B, NEW S, NEW k, IsTree(D, top, P, A, B, S, k),
         NEW x \in D, NEW y \in D, y \notin S[x]
  PROVE  (\A z \in S[x] : k[y] < k[z]) \/ (\A z \in S[x] : k[z] < k[y])
<1> DEFINE Q == {z \in D : x \in S[z] /\ y \in S[z]}
<1>1. IsFiniteSet(D) /\ S \in [D -> SUBSET D] /\ Q \subseteq D
  BY DEF IsTree
<1>2. Q # {}
  <2>1. top \in D /\ S[top] = D
    BY DEF IsTree
  <2> QED BY <2>1
<1>3. PICK z \in Q : \A w \in Q : ~(S[w] \subseteq S[z] /\ S[w] # S[z])
  <2> HIDE DEF Q
  <2> QED BY <1>1, <1>2, LowestExists
<1>4. /\ z \in D /\ x \in S[z] /\ y \in S[z]
      /\ S[z] = {z} \union Sub(S, A[z]) \union Sub(S, B[z])
      /\ \A v \in Sub(S, A[z]) : k[v] < k[z]
      /\ \A v \in Sub(S, B[z]) : k[z] < k[v]
      /\ A[z] \in D \union {Nil} /\ B[z] \in D \union {Nil}
  BY DEF IsTree
<1>5. z \notin Sub(S, A[z]) /\ z \notin Sub(S, B[z])
  BY <1>4, NodesAround
<1>6. ASSUME NEW c \in {A[z], B[z]}, x \in Sub(S, c) PROVE y \notin Sub(S, c) /\ S[x] \subseteq Sub(S, c)
  <2>1. c \in D /\ Sub(S, c) = S[c] /\ S[c] \subseteq S[z] /\ S[c] # S[z]
    BY <1>4, <1>5, <1>6 DEF Sub
  <2>2. c \notin Q
    BY <1>3, <2>1
  <2>3. S[x] \subseteq S[c]
    BY <1>6, <2>1, BelowIsBelow
  <2> QED BY <1>6, <2>1, <2>2, <2>3
<1>7. x # z
  BY <1>4
<1>8. \A v \in S[z] : k[v] \in Int
  <2>1. k \in [Nat -> Int] /\ D \subseteq Nat
    BY DEF IsTree
  <2> QED BY <1>1, <1>4, <2>1
<1> HIDE DEF Q
<1>9. CASE x \in Sub(S, A[z])
  <2>1. S[x] \subseteq Sub(S, A[z]) /\ (y = z \/ y \in Sub(S, B[z]))
    BY <1>4, <1>6, <1>9
  <2> QED BY <1>4, <1>8, <2>1
<1>10. CASE x \in Sub(S, B[z])
  <2>1. S[x] \subseteq Sub(S, B[z]) /\ (y = z \/ y \in Sub(S, A[z]))
    BY <1>4, <1>6, <1>10
  <2> QED BY <1>4, <1>8, <2>1
<1> QED BY <1>4, <1>7, <1>9, <1>10
-----------------------------------------------------------------------------
(* What is done to trees *)

\* What is left to right of a rotation: the child l = A[n] comes to the place of n,
\* n below it, and B[l] goes over to n.
IsTurned(n, l, top, P, A, B, top2, P2, A2, B2) ==
  /\ l = A[n] /\ top2 = IF P[n] = Nil THEN l ELSE top
  /\ P2 = [x \in DOMAIN P |-> IF x = n THEN l ELSE IF x = l THEN P[n]
                              ELSE IF x = B[l] THEN n ELSE P[x]]
  /\ A2 = [x \in DOMAIN A |-> IF x = n THEN B[l] ELSE IF A[x] = n THEN l ELSE A[x]]
  /\ B2 = [x \in DOMAIN B |-> IF x = l THEN n ELSE IF B[x] = n THEN l ELSE B[x]]

TurnedSubs(n, l, A, B, S) ==
  [x \in DOMAIN S |-> IF x = l THEN S[n]
                      ELSE IF x = n THEN {n} \union Sub(S, B[l]) \union Sub(S, B[n]) ELSE S[x]]

\* A rotation keeps the order of the nodes, and all subtrees but two.
LEMMA TurnIsTree ==
  ASSUME NEW D, NEW top, NEW P, NEW A, NEW B, NEW S, NEW k, IsTree(D, top, P, A, B, S, k),
         NEW n \in D, NEW l \in D, NEW top2, NEW P2, NEW A2, NEW B2,
         IsTurned(n, l, top, P, A, B, top2, P2, A2, B2)
  PROVE  /\ IsTree(D, top2, P2, A2, B2, TurnedSubs(n, l, A, B, S), k)
         /\ P[n] # l /\ (P[n] # Nil => P[n] # B[l]) /\ B[l] # n /\ B[l] # l /\ l # n
<1> DEFINE m == B[l]
           p == P[n]
           T == TurnedSubs(n, l, A, B, S)
<1>0. A[n] = l
  BY DEF IsTurned
<1> USE <1>0
<1>1. /\ n \in S[n] /\ l \in S[l] /\ Nil \notin D /\ k \in [Nat -> Int] /\ D \subseteq Nat \ {0}
      /\ IsFiniteSet(D) /\ S \in [D -> SUBSET D] /\ P \in [D -> D \union {Nil}]
      /\ A \in [D -> D \union {Nil}] /\ B \in [D -> D \union {Nil}]
      /\ l # n /\ m # l /\ p # n /\ l # Nil /\ P[l] = n
  <2>1. /\ k \in [Nat -> Int] /\ D \subseteq Nat \ {0} /\ IsFiniteSet(D) /\ S \in [D -> SUBSET D]
        /\ P \in [D -> D \union {Nil}] /\ A \in [D -> D \union {Nil}]
        /\ B \in [D -> D \union {Nil}]
        /\ A[n] # Nil => P[A[n]] = n
    BY DEF IsTree
  <2>2. n \in S[n] /\ Nil \notin D /\ A[n] # n /\ p # n
    BY NodesAround
  <2>3. l \in S[l] /\ m # l
    BY NodesAround
  <2> QED BY <2>1, <2>2, <2>3
<1>2. /\ S[n] = {n} \union S[l] \union Sub(S, B[n])
      /\ S[l] = {l} \union Sub(S, A[l]) \union Sub(S, m)
      /\ n \notin S[l] /\ n \notin Sub(S, B[n]) /\ l \notin Sub(S, A[l]) /\ l \notin Sub(S, m)
      /\ S[l] \intersect Sub(S, B[n]) = {}
  <2>1. \A x \in D : S[x] = {x} \union Sub(S, A[x]) \union Sub(S, B[x])
    BY DEF IsTree
  <2>2. Sub(S, l) = S[l]
    BY <1>1 DEF Sub
  <2>3. n \notin Sub(S, A[n]) /\ n \notin Sub(S, B[n])
    BY NodesAround
  <2>4. l \notin Sub(S, A[l]) /\ l \notin Sub(S, B[l])
    BY NodesAround
  <2>5. Sub(S, A[n]) \intersect Sub(S, B[n]) = {}
    BY NodesAround
  <2> QED BY <2>1, <2>2, <2>3, <2>4, <2>5
<1>3. /\ m # Nil => m \in Sub(S, m) /\ m \in D
      /\ B[n] # Nil => B[n] \in Sub(S, B[n]) /\ B[n] \in D
      /\ A[l] # Nil => A[l] \in Sub(S, A[l]) /\ A[l] \in D
  BY <1>1, NodesAround
<1>4. m # n /\ B[n] # l /\ (B[n] # Nil => B[n] # m /\ B[n] # A[l]) /\ A[l] # n
  BY <1>1, <1>2, <1>3
<1>5. p # Nil => p \in D /\ n \in S[p] /\ p \notin S[n]
  <2> SUFFICES ASSUME p # Nil PROVE p \in D /\ n \in S[p] /\ p \notin S[n]
    OBVIOUS
  <2>1. p \in D /\ (A[p] = n \/ B[p] = n)
    BY <1>1 DEF IsTree
  <2>2. S[n] = Sub(S, A[p]) \/ S[n] = Sub(S, B[p])
    BY <1>1, <2>1 DEF Sub
  <2>3. /\ p \notin Sub(S, A[p]) /\ p \notin Sub(S, B[p])
        /\ S[p] = {p} \union Sub(S, A[p]) \union Sub(S, B[p])
    <3>1. p \notin Sub(S, A[p]) /\ p \notin Sub(S, B[p])
      BY <2>1, NodesAround
    <3>2. S[p] = {p} \union Sub(S, A[p]) \union Sub(S, B[p])
      BY <2>1 DEF IsTree
    <3> QED BY <3>1, <3>2
  <2> QED BY <1>1, <2>1, <2>2, <2>3
<1>6. p # l /\ (p # Nil => p # m)
  <2> HIDE DEF m, p
  <2> QED BY <1>1, <1>2, <1>3, <1>5
<1>7. /\ A[p] = n /\ p \in D => B[p] # n
      /\ \A x \in D : (A[x] = n \/ B[x] = n) => x = p
  <2>1. ASSUME NEW x \in D
        PROVE  /\ A[x] # Nil => P[A[x]] = x /\ A[x] # B[x]
               /\ B[x] # Nil => P[B[x]] = x
    <3>1. (A[x] # Nil => P[A[x]] = x) /\ (B[x] # Nil => P[B[x]] = x)
      BY DEF IsTree
    <3>2. A[x] # Nil => A[x] # B[x]
      BY NodesAround
    <3> QED BY <3>1, <3>2
  <2> QED BY <1>1, <2>1
<1> HIDE DEF m, p
<1>8. /\ T \in [D -> SUBSET D] /\ T[l] = S[n] /\ T[n] = {n} \union Sub(S, m) \union Sub(S, B[n])
      /\ \A x \in D \ {l, n} : T[x] = S[x]
  <2>1. Sub(S, m) \subseteq D /\ Sub(S, B[n]) \subseteq D
    BY <1>1, NodesAround DEF m
  <2> QED BY <1>1, <2>1 DEF TurnedSubs, m
<1> HIDE DEF T
<1>9. /\ DOMAIN P = D /\ DOMAIN A = D /\ DOMAIN B = D
      /\ \A x \in D : /\ P2[x] = IF x = n THEN l ELSE IF x = l THEN p ELSE IF x = m THEN n ELSE P[x]
                      /\ A2[x] = IF x = n THEN m ELSE IF A[x] = n THEN l ELSE A[x]
                      /\ B2[x] = IF x = l THEN n ELSE IF B[x] = n THEN l ELSE B[x]
      /\ top2 = IF p = Nil THEN l ELSE top
  BY <1>1 DEF IsTurned, m, p
<1>10. /\ P2 \in [D -> D \union {Nil}] /\ A2 \in [D -> D \union {Nil}]
       /\ B2 \in [D -> D \union {Nil}] /\ top2 \in D \union {Nil}
  <2>1. m \in D \union {Nil} /\ p \in D \union {Nil} /\ top \in D \union {Nil}
    BY <1>1 DEF m, p, IsTree
  <2>2. P2 = [x \in D |-> P2[x]] /\ A2 = [x \in D |-> A2[x]] /\ B2 = [x \in D |-> B2[x]]
    BY <1>9 DEF IsTurned
  <2>3. ASSUME NEW x \in D
        PROVE  P2[x] \in D \union {Nil} /\ A2[x] \in D \union {Nil} /\ B2[x] \in D \union {Nil}
    BY <1>1, <1>9, <2>1
  <2> QED BY <1>9, <2>1, <2>2, <2>3
<1>11. IF top2 = Nil THEN D = {} ELSE T[top2] = D
  <2>1. (p = Nil <=> n = top) /\ top # Nil /\ S[top] = D
    BY DEF IsTree, p
  <2>2. CASE p = Nil
    BY <1>1, <1>8, <1>9, <2>1, <2>2
  <2>3. CASE p # Nil
    <3>1. top # l /\ top # n
      BY <1>1, <2>1, <2>3 DEF IsTree
    <3>2. top \in D
      BY <2>1 DEF IsTree
    <3> QED BY <1>8, <1>9, <2>1, <2>3, <3>1, <3>2
  <2> QED BY <2>2, <2>3
<1>12. ASSUME NEW x \in D
       PROVE  /\ P2[x] = Nil <=> x = top2
              /\ P2[x] # Nil => A2[P2[x]] = x \/ B2[P2[x]] = x
  <2>1. /\ P[x] = Nil <=> x = top
        /\ P[x] # Nil => P[x] \in D /\ (A[P[x]] = x \/ B[P[x]] = x)
        /\ p = Nil <=> n = top
    BY DEF IsTree, p
  <2>2. CASE x = n
    BY <1>1, <1>9, <2>1, <2>2
  <2>3. CASE x = l
    <3>1. P2[x] = p
      BY <1>1, <1>9, <2>3
    <3>2. p # Nil => A[p] = n \/ B[p] = n
      BY DEF IsTree, p
    <3> QED BY <1>1, <1>5, <1>6, <1>7, <1>9, <2>1, <2>3, <3>1, <3>2
  <2>4. CASE x = m
    <3>1. P2[x] = n /\ A2[n] = m
      BY <1>1, <1>4, <1>9, <2>4
    <3>2. x # top2
      <4>1. P[x] = l
        BY <1>1, <2>4 DEF IsTree, m
      <4> QED BY <1>1, <1>9, <2>1, <2>4, <4>1
    <3> QED BY <1>1, <2>4, <3>1, <3>2
  <2>5. CASE x \notin {n, l, m}
    <3>1. P2[x] = P[x]
      BY <1>9, <2>5
    <3>2. x # top2 <=> x # top
      BY <1>9, <2>1, <2>5
    <3>3. ASSUME P[x] # Nil PROVE A2[P[x]] = x \/ B2[P[x]] = x
      <4>1. P[x] = n => B[n] = x
        BY <1>1, <2>1, <2>5, <3>3
      <4>2. P[x] = l => A[l] = x
        BY <1>1, <2>1, <2>5, <3>3 DEF m
      <4> QED BY <1>1, <1>4, <1>9, <2>1, <2>5, <3>3, <4>1, <4>2
    <3> QED BY <2>1, <3>1, <3>2, <3>3
  <2> QED BY <2>2, <2>3, <2>4, <2>5
<1>13. ASSUME NEW x \in D
       PROVE  /\ A2[x] # Nil => P2[A2[x]] = x
              /\ B2[x] # Nil => P2[B2[x]] = x
  <2>1. /\ A[x] # Nil => P[A[x]] = x /\ A[x] \in D
        /\ B[x] # Nil => P[B[x]] = x /\ B[x] \in D
    BY DEF IsTree
  <2>2. m # Nil => m \in D /\ P[m] = l
    BY <1>1, <1>3 DEF IsTree, m
  <2>3. A2[x] # Nil => P2[A2[x]] = x
    <3>1. CASE x = n
      BY <1>1, <1>4, <1>9, <2>2, <3>1
    <3>2. CASE x # n /\ A[x] = n
      BY <1>1, <1>7, <1>9, <3>2
    <3>3. CASE x # n /\ A[x] # n
      <4>1. A2[x] = A[x] /\ (A[x] # Nil => A[x] # l /\ A[x] # m)
        <5>1. A[x] = l => x = n
          BY <1>1, <2>1
        <5>2. A[x] = m /\ m # Nil => x = l
          BY <1>1, <2>1, <2>2
        <5>3. m # Nil => A[l] # m
          BY <1>1, NodesAround DEF m
        <5> QED BY <1>9, <3>3, <5>1, <5>2, <5>3
      <4> QED BY <1>9, <2>1, <3>3, <4>1
    <3> QED BY <3>1, <3>2, <3>3
  <2>4. B2[x] # Nil => P2[B2[x]] = x
    <3>1. CASE x = l
      BY <1>1, <1>4, <1>9, <3>1
    <3>2. CASE x # l /\ B[x] = n
      BY <1>1, <1>7, <1>9, <3>2
    <3>3. CASE x # l /\ B[x] # n
      <4>1. B2[x] = B[x] /\ (B[x] # Nil => B[x] # l /\ B[x] # m)
        <5>1. B[x] = l => x = n
          BY <1>1, <2>1
        <5>2. B[x] = m /\ m # Nil => x = l
          BY <1>1, <2>1, <2>2
        <5> QED BY <1>4, <1>9, <3>3, <5>1, <5>2
      <4> QED BY <1>9, <2>1, <3>3, <4>1
    <3> QED BY <3>1, <3>2, <3>3
  <2> QED BY <2>3, <2>4
<1>14. \A x \in D : k[x] \in Int
  BY <1>1
<1>15. ASSUME NEW x \in D
       PROVE  /\ T[x] = {x} \union Sub(T, A2[x]) \union Sub(T, B2[x])
              /\ \A y \in Sub(T, A2[x]) : k[y] < k[x]
              /\ \A y \in Sub(T, B2[x]) : k[x] < k[y]
  <2>1. /\ S[x] = {x} \union Sub(S, A[x]) \union Sub(S, B[x])
        /\ \A y \in Sub(S, A[x]) : k[y] < k[x]
        /\ \A y \in Sub(S, B[x]) : k[x] < k[y]
        /\ A[x] # Nil => A[x] \in D
        /\ B[x] # Nil => B[x] \in D
        /\ A[x] = l => x = n
        /\ B[x] # l
    BY <1>1, <1>4 DEF IsTree
  <2>2. /\ Sub(T, m) = Sub(S, m) /\ Sub(T, A[l]) = Sub(S, A[l]) /\ Sub(T, B[n]) = Sub(S, B[n])
    BY <1>1, <1>3, <1>4, <1>8, NodesAround DEF Sub, m
  <2>3. CASE x = n
    <3>1. A2[x] = m /\ B2[x] = B[n]
      <4>1. B[n] # n
        BY NodesAround
      <4> QED BY <1>1, <1>9, <2>3, <4>1
    <3>2. Sub(S, m) \subseteq Sub(S, A[x])
      BY <1>1, <1>2, <2>3 DEF Sub
    <3> QED BY <1>8, <2>1, <2>2, <2>3, <3>1, <3>2
  <2>4. CASE x = l
    <3>1. A2[x] = A[l] /\ B2[x] = n
      BY <1>1, <1>4, <1>9, <2>4
    <3>2. Sub(T, n) = {n} \union Sub(S, m) \union Sub(S, B[n])
      BY <1>1, <1>8 DEF Sub
    <3>3. \A y \in Sub(T, n) : k[l] < k[y]
      <4>1. k[l] < k[n] /\ \A y \in Sub(S, B[n]) : k[n] < k[y] /\ y \in D
        <5>1. k[l] < k[n] /\ Sub(S, B[n]) \subseteq D
          BY <1>1, NodesAround
        <5>2. \A y \in Sub(S, B[n]) : k[n] < k[y]
          BY DEF IsTree
        <5> QED BY <5>1, <5>2
      <4>2. \A y \in Sub(S, m) : k[l] < k[y]
        BY <2>1, <2>4 DEF m
      <4> QED BY <1>14, <3>2, <4>1, <4>2
    <3> QED BY <1>2, <1>8, <2>1, <2>2, <2>4, <3>1, <3>2, <3>3
  <2>5. CASE x \notin {n, l}
    <3>1. Sub(T, A2[x]) = Sub(S, A[x])
      <4>1. CASE A[x] = n
        BY <1>1, <1>8, <1>9, <2>5, <4>1 DEF Sub
      <4>2. CASE A[x] # n
        <5>1. A2[x] = A[x] /\ A[x] # l
          BY <1>9, <2>1, <2>5, <4>2
        <5> QED BY <1>8, <2>1, <4>2, <5>1 DEF Sub
      <4> QED BY <4>1, <4>2
    <3>2. Sub(T, B2[x]) = Sub(S, B[x])
      <4>1. CASE B[x] = n
        BY <1>1, <1>8, <1>9, <2>5, <4>1 DEF Sub
      <4>2. CASE B[x] # n
        <5>1. B2[x] = B[x] /\ B[x] # l
          BY <1>9, <2>1, <2>5, <4>2
        <5> QED BY <1>8, <2>1, <4>2, <5>1 DEF Sub
      <4> QED BY <4>1, <4>2
    <3> QED BY <1>8, <2>1, <2>5, <3>1, <3>2
  <2> QED BY <2>3, <2>4, <2>5
<1>16. IsTree(D, top2, P2, A2, B2, T, k)
  BY <1>1, <1>8, <1>10, <1>11, <1>12, <1>13, <1>15 DEF IsTree
<1> QED BY <1>1, <1>4, <1>6, <1>16 DEF T, m, p
\* The links as they are, one by one.
LEMMA LinksOfTree ==
  ASSUME NEW D, NEW top, NEW P, NEW A, NEW B, NEW S, NEW k, IsTree(D, top, P, A, B, S, k)
  PROVE  /\ D \subseteq Nat \ {0} /\ IsFiniteSet(D) /\ Nil \notin D /\ k \in [Nat -> Int]
         /\ top \in D \union {Nil} /\ S \in [D -> SUBSET D]
         /\ P \in [D -> D \union {Nil}]
         /\ A \in [D -> D \union {Nil}] /\ B \in [D -> D \union {Nil}]
         /\ top # Nil => top \in D /\ S[top] = D
         /\ top = Nil => D = {}
         /\ \A n \in D : /\ P[n] = Nil <=> n = top
                         /\ P[n] # Nil => P[n] \in D /\ (A[P[n]] = n \/ B[P[n]] = n)
                         /\ A[n] # Nil => A[n] \in D /\ P[A[n]] = n
                         /\ B[n] # Nil => B[n] \in D /\ P[B[n]] = n
                         /\ S[n] = {n} \union Sub(S, A[n]) \union Sub(S, B[n])
                         /\ \A x \in Sub(S, A[n]) : k[x] < k[n]
                         /\ \A x \in Sub(S, B[n]) : k[n] < k[x]
         /\ \A n \in D : k[n] \in Int
<1>1. Nil = 0
  BY DEF Nil
<1> QED BY <1>1 DEF IsTree

\* Where v belongs below c: with all that is not below c, v compares as c does.
FitsBelow(v, c, D, S, k) ==
  \A y \in D \ S[c] : k[v] # k[y] /\ (k[y] < k[c] <=> k[y] < k[v])

\* A new leaf, on the side where it belongs.
IsLeaf(v, c, D, P, A, B, P2, A2, B2) ==
  /\ P2 = [x \in D \union {v} |-> IF x = v THEN c ELSE P[x]]
  /\ A2 = [x \in D \union {v} |-> IF x = v THEN Nil ELSE IF x = c THEN v ELSE A[x]]
  /\ B2 = [x \in D \union {v} |-> IF x = v THEN Nil ELSE B[x]]

LEMMA LeafIsTree ==
  ASSUME NEW D, NEW top, NEW P, NEW A, NEW B, NEW S, NEW k, IsTree(D, top, P, A, B, S, k),
         NEW c \in D, NEW v \in Nat \ {0}, v \notin D, A[c] = Nil, k[v] < k[c],
         FitsBelow(v, c, D, S, k),
         NEW P2, NEW A2, NEW B2, IsLeaf(v, c, D, P, A, B, P2, A2, B2)
  PROVE  \E S2 : IsTree(D \union {v}, top, P2, A2, B2, S2, k)
<1> DEFINE D2 == D \union {v}
           S2 == [x \in D2 |-> IF x = v THEN {v}
                               ELSE IF c \in S[x] THEN S[x] \union {v} ELSE S[x]]
<1>0. /\ P2 = [x \in D2 |-> IF x = v THEN c ELSE P[x]]
      /\ A2 = [x \in D2 |-> IF x = v THEN Nil ELSE IF x = c THEN v ELSE A[x]]
      /\ B2 = [x \in D2 |-> IF x = v THEN Nil ELSE B[x]]
  BY DEF IsLeaf
<1> USE <1>0
<1>1. /\ D2 \subseteq Nat \ {0} /\ IsFiniteSet(D2) /\ Nil \notin D2 /\ k \in [Nat -> Int]
      /\ top \in D /\ S[top] = D /\ v # Nil
  <2>1. Nil = 0
    BY DEF Nil
  <2> QED BY <2>1, LinksOfTree, FS_AddElement
<1>2. /\ P2[v] = c /\ A2[v] = Nil /\ B2[v] = Nil /\ S2[v] = {v}
      /\ \A x \in D : /\ P2[x] = P[x] /\ B2[x] = B[x]
                      /\ A2[x] = IF x = c THEN v ELSE A[x]
                      /\ S2[x] = IF c \in S[x] THEN S[x] \union {v} ELSE S[x]
      /\ S \in [D -> SUBSET D]
  BY LinksOfTree
<1>3. /\ P2 \in [D2 -> D2 \union {Nil}] /\ A2 \in [D2 -> D2 \union {Nil}]
      /\ B2 \in [D2 -> D2 \union {Nil}] /\ S2 \in [D2 -> SUBSET D2]
  <2>1. \A x \in D : /\ P[x] \in D \union {Nil} /\ A[x] \in D \union {Nil}
                     /\ B[x] \in D \union {Nil} /\ S[x] \subseteq D
    BY LinksOfTree
  <2>2. ASSUME NEW x \in D2
        PROVE  /\ P2[x] \in D2 \union {Nil} /\ A2[x] \in D2 \union {Nil}
               /\ B2[x] \in D2 \union {Nil} /\ S2[x] \subseteq D2
    BY <1>2, <2>1
  <2>3. /\ P2 = [x \in D2 |-> P2[x]] /\ A2 = [x \in D2 |-> A2[x]]
        /\ B2 = [x \in D2 |-> B2[x]] /\ S2 = [x \in D2 |-> S2[x]]
    OBVIOUS
  <2> HIDE DEF D2
  <2> QED BY <2>2, <2>3
<1>4. S2[top] = D2
  <2>1. c \in S[top]
    BY <1>1
  <2> QED BY <1>1, <1>2, <2>1
<1>5. \A x \in D : c \in S[x] => S[c] \subseteq S[x]
  BY BelowIsBelow
<1>6. ASSUME NEW x \in D, x # c, c \in S[x]
      PROVE  (c \in Sub(S, A[x]) => k[v] < k[x]) /\ (c \in Sub(S, B[x]) => k[x] < k[v])
  <2>1. x \notin S[c]
    <3>1. ASSUME NEW d \in {A[x], B[x]}, c \in Sub(S, d) PROVE S[c] \subseteq Sub(S, d)
      <4>1. d \in D
        BY <3>1, LinksOfTree DEF Sub
      <4> QED BY <3>1, <4>1, <1>1, <1>5 DEF Sub
    <3>2. c \in Sub(S, A[x]) \/ c \in Sub(S, B[x])
      BY <1>6, LinksOfTree
    <3>3. x \notin Sub(S, A[x]) /\ x \notin Sub(S, B[x])
      BY NodesAround
    <3> QED BY <3>1, <3>2, <3>3
  <2>2. k[v] # k[x] /\ (k[x] < k[c] <=> k[x] < k[v])
    BY <2>1 DEF FitsBelow
  <2>3. k[v] \in Int /\ k[x] \in Int /\ k[c] \in Int
    BY <1>1
  <2>4. (c \in Sub(S, A[x]) => k[c] < k[x]) /\ (c \in Sub(S, B[x]) => k[x] < k[c])
    BY LinksOfTree
  <2> QED BY <2>2, <2>3, <2>4
<1>7. ASSUME NEW x \in D2
      PROVE  /\ S2[x] = {x} \union Sub(S2, A2[x]) \union Sub(S2, B2[x])
             /\ \A y \in Sub(S2, A2[x]) : k[y] < k[x]
             /\ \A y \in Sub(S2, B2[x]) : k[x] < k[y]
  <2>1. CASE x = v
    BY <1>2, <2>1 DEF Sub
  <2>2. CASE x = c
    <3>1. c \in S[c] /\ c \notin Sub(S, B[c])
      BY NodesAround
    <3>2. Sub(S2, B2[c]) = Sub(S, B[c])
      BY <1>2, <3>1, LinksOfTree DEF Sub
    <3>3. Sub(S2, A2[c]) = {v}
      BY <1>1, <1>2 DEF Sub
    <3>4. S[c] = {c} \union Sub(S, B[c]) /\ \A y \in Sub(S, B[c]) : k[c] < k[y]
      BY LinksOfTree DEF Sub
    <3> QED BY <1>2, <2>2, <3>1, <3>2, <3>3, <3>4
  <2>3. CASE x \in D \ {c}
    <3>1. /\ S[x] = {x} \union Sub(S, A[x]) \union Sub(S, B[x])
          /\ \A y \in Sub(S, A[x]) : k[y] < k[x]
          /\ \A y \in Sub(S, B[x]) : k[x] < k[y]
          /\ A[x] # Nil => A[x] \in D
          /\ B[x] # Nil => B[x] \in D
      BY <2>3, LinksOfTree
    <3>2. Sub(S2, A[x]) = Sub(S, A[x]) \union (IF c \in Sub(S, A[x]) THEN {v} ELSE {})
      BY <1>2, <3>1 DEF Sub
    <3>3. Sub(S2, B[x]) = Sub(S, B[x]) \union (IF c \in Sub(S, B[x]) THEN {v} ELSE {})
      BY <1>2, <3>1 DEF Sub
    <3>4. A2[x] = A[x] /\ B2[x] = B[x] /\ S2[x] = IF c \in S[x] THEN S[x] \union {v} ELSE S[x]
      BY <1>2, <2>3
    <3>5. S2[x] = {x} \union Sub(S2, A2[x]) \union Sub(S2, B2[x])
      BY <2>3, <3>1, <3>2, <3>3, <3>4
    <3> QED BY <1>6, <2>3, <3>1, <3>2, <3>3, <3>4, <3>5
  <2> QED BY <2>1, <2>2, <2>3
<1>8. ASSUME NEW x \in D2
      PROVE  /\ P2[x] = Nil <=> x = top
             /\ P2[x] # Nil => A2[P2[x]] = x \/ B2[P2[x]] = x
             /\ A2[x] # Nil => P2[A2[x]] = x
             /\ B2[x] # Nil => P2[B2[x]] = x
  <2>1. CASE x = v
    BY <1>1, <1>2, <2>1
  <2>2. CASE x \in D
    <3>1. /\ P[x] = Nil <=> x = top
          /\ P[x] # Nil => P[x] \in D /\ (A[P[x]] = x \/ B[P[x]] = x)
          /\ A[x] # Nil => A[x] \in D /\ P[A[x]] = x
          /\ B[x] # Nil => B[x] \in D /\ P[B[x]] = x
      BY <2>2, LinksOfTree
    <3> QED BY <1>1, <1>2, <2>2, <3>1
  <2> QED BY <2>1, <2>2
<1>9. top \in D2 /\ top # Nil
  BY <1>1
<1> HIDE DEF D2, S2
<1>10. IsTree(D2, top, P2, A2, B2, S2, k)
  <2>1. IF top = Nil THEN D2 = {} ELSE S2[top] = D2
    BY <1>4, <1>9
  <2> QED BY <1>1, <1>3, <1>7, <1>8, <1>9, <2>1 DEF IsTree
<1> QED BY <1>10 DEF D2

\* A node with one child at most is taken out; the child comes to its place.
IsCut(n, c, D, top, P, A, B, D2, top2, P2, A2, B2) ==
  /\ D2 = D \ {n} /\ top2 = IF P[n] = Nil THEN c ELSE top
  /\ P2 = [x \in D2 |-> IF x = c THEN P[n] ELSE P[x]]
  /\ A2 = [x \in D2 |-> IF A[x] = n THEN c ELSE A[x]]
  /\ B2 = [x \in D2 |-> IF B[x] = n THEN c ELSE B[x]]

LEMMA CutIsTree ==
  ASSUME NEW D, NEW top, NEW P, NEW A, NEW B, NEW S, NEW k, IsTree(D, top, P, A, B, S, k),
         NEW n \in D, NEW c, (A[n] = Nil /\ c = B[n]) \/ (B[n] = Nil /\ c = A[n]),
         NEW D2, NEW top2, NEW P2, NEW A2, NEW B2,
         IsCut(n, c, D, top, P, A, B, D2, top2, P2, A2, B2)
  PROVE  IsTree(D2, top2, P2, A2, B2, [x \in D2 |-> S[x] \ {n}], k)
<1> DEFINE S2 == [x \in D2 |-> S[x] \ {n}]
           p == P[n]
<1>0. /\ D2 = D \ {n} /\ top2 = IF p = Nil THEN c ELSE top
      /\ P2 = [x \in D2 |-> IF x = c THEN p ELSE P[x]]
      /\ A2 = [x \in D2 |-> IF A[x] = n THEN c ELSE A[x]]
      /\ B2 = [x \in D2 |-> IF B[x] = n THEN c ELSE B[x]]
      /\ S2 = [x \in D2 |-> S[x] \ {n}]
  BY DEF IsCut
<1> USE <1>0
<1>1. /\ D2 \subseteq Nat \ {0} /\ IsFiniteSet(D2) /\ Nil \notin D2 /\ k \in [Nat -> Int]
      /\ top \in D /\ S[top] = D /\ Nil \notin D /\ S \in [D -> SUBSET D]
      /\ \A x : x \in D2 <=> x \in D /\ x # n
  BY <1>0, LinksOfTree, FS_Subset
<1>2. /\ c \in D \union {Nil} /\ c # n /\ S[n] = {n} \union Sub(S, c) /\ n \notin Sub(S, c)
      /\ c # Nil => P[c] = n /\ S[c] \subseteq D
  BY LinksOfTree, NodesAround DEF Sub
<1>3. /\ p \in D2 \union {Nil} /\ (p # c \/ p = Nil)
      /\ p # Nil => n \in S[p]
  <2>1. p \in D \union {Nil} /\ p # n
    BY NodesAround
  <2>2. ASSUME p # Nil PROVE n \in S[p] /\ p # c
    <3>1. p \in D /\ (A[p] = n \/ B[p] = n)
      BY <2>2, LinksOfTree
    <3>2. n \in S[n] /\ n # Nil
      BY NodesAround
    <3>3. S[n] \subseteq S[p]
      BY <3>1, <3>2, LinksOfTree DEF Sub
    <3>4. p = c => n \in Sub(S, c)
      BY <2>2, <3>2, <3>3 DEF Sub
    <3> QED BY <1>2, <3>2, <3>3, <3>4
  <2> QED BY <2>1, <2>2
<1>4. \A x \in D : /\ P[x] = Nil <=> x = top
                   /\ P[x] # Nil => P[x] \in D /\ (A[P[x]] = x \/ B[P[x]] = x)
                   /\ A[x] # Nil => A[x] \in D /\ P[A[x]] = x
                   /\ B[x] # Nil => B[x] \in D /\ P[B[x]] = x
                   /\ S[x] = {x} \union Sub(S, A[x]) \union Sub(S, B[x])
                   /\ \A y \in Sub(S, A[x]) : k[y] < k[x]
                   /\ \A y \in Sub(S, B[x]) : k[x] < k[y]
  BY LinksOfTree
<1>5. \A x \in D2 : /\ P2[x] = IF x = c THEN p ELSE P[x]
                    /\ A2[x] = IF A[x] = n THEN c ELSE A[x]
                    /\ B2[x] = IF B[x] = n THEN c ELSE B[x]
                    /\ S2[x] = S[x] \ {n}
  BY <1>0
<1>6. /\ P2 \in [D2 -> D2 \union {Nil}] /\ A2 \in [D2 -> D2 \union {Nil}]
      /\ B2 \in [D2 -> D2 \union {Nil}] /\ S2 \in [D2 -> SUBSET D2]
  <2>1. ASSUME NEW x \in D2
        PROVE  /\ P2[x] \in D2 \union {Nil} /\ A2[x] \in D2 \union {Nil}
               /\ B2[x] \in D2 \union {Nil} /\ S2[x] \subseteq D2
    <3>1. P[x] = n => A[n] = x \/ B[n] = x
      BY <1>1, <1>4
    <3>2. P[x] = n => x = c
      BY <1>1, <3>1
    <3> QED BY <1>1, <1>2, <1>3, <1>4, <1>5, <3>2
  <2>2. /\ P2 = [x \in D2 |-> P2[x]] /\ A2 = [x \in D2 |-> A2[x]]
        /\ B2 = [x \in D2 |-> B2[x]] /\ S2 = [x \in D2 |-> S2[x]]
    BY <1>0
  <2> QED BY <2>1, <2>2
<1>7. IF top2 = Nil THEN D2 = {} ELSE top2 \in D2 /\ S2[top2] = D2
  <2>1. CASE p = Nil
    <3>1. n = top /\ top2 = c /\ S[n] = D
      BY <1>1, <1>4, <2>1
    <3> QED BY <1>1, <1>2, <1>5, <3>1 DEF Sub
  <2>2. CASE p # Nil
    BY <1>1, <1>4, <1>5, <2>2
  <2> QED BY <2>1, <2>2
<1>8. ASSUME NEW x \in D2
      PROVE  /\ P2[x] = Nil <=> x = top2
             /\ P2[x] # Nil => A2[P2[x]] = x \/ B2[P2[x]] = x
  <2>1. CASE x = c
    <3>1. p = Nil <=> x = top2
      <4>1. P[c] = n /\ c # Nil /\ n # Nil
        BY <1>1, <1>2, <2>1
      <4>2. c # top
        BY <1>4, <2>1, <4>1
      <4> QED BY <2>1, <4>2
    <3>2. p # Nil => A2[p] = c \/ B2[p] = c
      BY <1>3, <1>4, <1>5
    <3> QED BY <1>5, <2>1, <3>1, <3>2
  <2>2. CASE x # c
    <3>1. P[x] # n
      <4>1. P[x] = n => A[n] = x \/ B[n] = x
        BY <1>1, <1>4
      <4>2. x # Nil
        BY <1>1
      <4> QED BY <2>2, <4>1, <4>2
    <3>2. x # n /\ (p = Nil => n = top)
      BY <1>4
    <3>3. P2[x] = P[x]
      BY <1>5, <2>2
    <3>4. P[x] = Nil <=> x = top2
      BY <1>4, <2>2, <3>2
    <3>5. ASSUME P[x] # Nil PROVE A2[P[x]] = x \/ B2[P[x]] = x
      <4>1. P[x] \in D2 /\ (A[P[x]] = x \/ B[P[x]] = x)
        BY <1>4, <3>1, <3>5
      <4> QED BY <1>5, <3>2, <4>1
    <3> QED BY <3>3, <3>4, <3>5
  <2> QED BY <2>1, <2>2
<1>9. ASSUME NEW x \in D2
      PROVE  /\ A2[x] # Nil => P2[A2[x]] = x
             /\ B2[x] # Nil => P2[B2[x]] = x
  <2>1. c # Nil => A[x] # c /\ B[x] # c
    BY <1>2, <1>4
  <2>2. (A[x] = n \/ B[x] = n) => x = p
    BY <1>1, <1>4
  <2>3. c # Nil => c \in D2 /\ P2[c] = p
    BY <1>2, <1>5
  <2>4. A2[x] # Nil => P2[A2[x]] = x
    BY <1>4, <1>5, <2>1, <2>2, <2>3
  <2>5. B2[x] # Nil => P2[B2[x]] = x
    BY <1>4, <1>5, <2>1, <2>2, <2>3
  <2> QED BY <2>4, <2>5
<1>10. ASSUME NEW x \in D2
       PROVE  /\ S2[x] = {x} \union Sub(S2, A2[x]) \union Sub(S2, B2[x])
              /\ \A y \in Sub(S2, A2[x]) : k[y] < k[x]
              /\ \A y \in Sub(S2, B2[x]) : k[x] < k[y]
  <2>1. ASSUME NEW d, d = Nil \/ d \in D
        PROVE  Sub(S2, IF d = n THEN c ELSE d) = Sub(S, d) \ {n}
    <3>1. CASE d = n
      <4>1. Sub(S2, c) = Sub(S, c)
        <5>1. CASE c = Nil
          BY <5>1 DEF Sub
        <5>2. CASE c # Nil
          <6>1. c \in D2 /\ n \notin S[c]
            BY <1>2, <5>2 DEF Sub
          <6> QED BY <1>5, <5>2, <6>1 DEF Sub
        <5> QED BY <5>1, <5>2
      <4>2. Sub(S, d) = S[n]
        BY <1>1, <3>1 DEF Sub
      <4> QED BY <1>2, <3>1, <4>1, <4>2
    <3>2. CASE d # n
      BY <1>1, <1>5, <2>1, <3>2 DEF Sub
    <3> QED BY <3>1, <3>2
  <2>2. Sub(S2, A2[x]) = Sub(S, A[x]) \ {n} /\ Sub(S2, B2[x]) = Sub(S, B[x]) \ {n}
    BY <1>4, <1>5, <2>1
  <2>3. x \in D /\ x # n /\ S2[x] = S[x] \ {n}
    BY <1>5
  <2>4. /\ S[x] = {x} \union Sub(S, A[x]) \union Sub(S, B[x])
        /\ \A y \in Sub(S, A[x]) : k[y] < k[x]
        /\ \A y \in Sub(S, B[x]) : k[x] < k[y]
    BY <1>4, <2>3
  <2>5. S2[x] = {x} \union Sub(S2, A2[x]) \union Sub(S2, B2[x])
    <3> HIDE DEF S2
    <3> QED BY <2>2, <2>3, <2>4
  <2>6. /\ \A y \in Sub(S2, A2[x]) : k[y] < k[x]
        /\ \A y \in Sub(S2, B2[x]) : k[x] < k[y]
    BY <2>2, <2>4
  <2> QED BY <2>5, <2>6
<1> HIDE <1>0
<1> HIDE DEF S2
<1>11. IsTree(D2, top2, P2, A2, B2, S2, k)
  BY <1>1, <1>6, <1>7, <1>8, <1>9, <1>10 DEF IsTree
<1> QED BY <1>11 DEF S2

\* Another node s, at the same place in the order, takes the place of n.
IsRenamed(n, s, D, top, P, A, B, D2, top2, P2, A2, B2) ==
  /\ D2 = (D \ {n}) \union {s} /\ top2 = IF top = n THEN s ELSE top
  /\ P2 = [x \in D2 |-> IF x = s THEN P[n] ELSE IF P[x] = n THEN s ELSE P[x]]
  /\ A2 = [x \in D2 |-> IF x = s THEN A[n] ELSE IF A[x] = n THEN s ELSE A[x]]
  /\ B2 = [x \in D2 |-> IF x = s THEN B[n] ELSE IF B[x] = n THEN s ELSE B[x]]

SamePlace(n, s, D, k) ==
  \A y \in D \ {n} : k[s] # k[y] /\ (k[y] < k[n] <=> k[y] < k[s])

LEMMA RenameIsTree ==
  ASSUME NEW D, NEW top, NEW P, NEW A, NEW B, NEW S, NEW k, IsTree(D, top, P, A, B, S, k),
         NEW n \in D, NEW s \in Nat \ {0}, s \notin D,
         SamePlace(n, s, D, k), NEW D2, NEW top2, NEW P2, NEW A2, NEW B2,
         IsRenamed(n, s, D, top, P, A, B, D2, top2, P2, A2, B2)
  PROVE  \E S2 : IsTree(D2, top2, P2, A2, B2, S2, k)
<1> DEFINE Img(set) == IF n \in set THEN (set \ {n}) \union {s} ELSE set
           S2 == [x \in D2 |-> IF x = s THEN Img(S[n]) ELSE Img(S[x])]
<1>0. /\ D2 = (D \ {n}) \union {s} /\ top2 = IF top = n THEN s ELSE top
      /\ P2 = [x \in D2 |-> IF x = s THEN P[n] ELSE IF P[x] = n THEN s ELSE P[x]]
      /\ A2 = [x \in D2 |-> IF x = s THEN A[n] ELSE IF A[x] = n THEN s ELSE A[x]]
      /\ B2 = [x \in D2 |-> IF x = s THEN B[n] ELSE IF B[x] = n THEN s ELSE B[x]]
  BY DEF IsRenamed
<1> USE <1>0
<1>1. /\ D2 \subseteq Nat \ {0} /\ IsFiniteSet(D2) /\ Nil \notin D2 /\ k \in [Nat -> Int]
      /\ Nil \notin D /\ S \in [D -> SUBSET D] /\ s # Nil /\ s # n /\ top \in D \union {Nil}
      /\ n # Nil
  <2>1. Nil = 0
    BY DEF Nil
  <2>2. IsFiniteSet(D2)
    <3>1. IsFiniteSet(D \ {n})
      BY LinksOfTree, FS_Subset
    <3> QED BY <3>1, FS_AddElement
  <2> QED BY <2>1, <2>2, LinksOfTree
<1>2. \A x \in D : /\ P[x] = Nil <=> x = top
                   /\ P[x] # Nil => P[x] \in D /\ (A[P[x]] = x \/ B[P[x]] = x)
                   /\ A[x] # Nil => A[x] \in D /\ P[A[x]] = x
                   /\ B[x] # Nil => B[x] \in D /\ P[B[x]] = x
                   /\ S[x] = {x} \union Sub(S, A[x]) \union Sub(S, B[x])
                   /\ \A y \in Sub(S, A[x]) : k[y] < k[x]
                   /\ \A y \in Sub(S, B[x]) : k[x] < k[y]
  BY LinksOfTree
<1>3. /\ \A x \in D : P[x] # x /\ A[x] # x /\ B[x] # x
      /\ \A x \in D : Sub(S, A[x]) \subseteq D /\ Sub(S, B[x]) \subseteq D
      /\ n \notin Sub(S, A[n]) /\ n \notin Sub(S, B[n])
  BY NodesAround
<1>4. \A x \in D2 : /\ x = s \/ (x \in D /\ x # n /\ x # s)
                    /\ P2[x] = IF x = s THEN P[n] ELSE IF P[x] = n THEN s ELSE P[x]
                    /\ A2[x] = IF x = s THEN A[n] ELSE IF A[x] = n THEN s ELSE A[x]
                    /\ B2[x] = IF x = s THEN B[n] ELSE IF B[x] = n THEN s ELSE B[x]
                    /\ S2[x] = IF x = s THEN Img(S[n]) ELSE Img(S[x])
  OBVIOUS
<1>5. \A x : x \in D2 <=> (x = s \/ (x \in D /\ x # n))
  OBVIOUS
<1>6. /\ P2 \in [D2 -> D2 \union {Nil}] /\ A2 \in [D2 -> D2 \union {Nil}]
      /\ B2 \in [D2 -> D2 \union {Nil}] /\ S2 \in [D2 -> SUBSET D2]
  <2>1. ASSUME NEW x \in D2
        PROVE  /\ P2[x] \in D2 \union {Nil} /\ A2[x] \in D2 \union {Nil}
               /\ B2[x] \in D2 \union {Nil}
    <3> HIDE DEF S2
    <3> QED BY <1>2, <1>3, <1>4, <1>5
  <2>2. ASSUME NEW x \in D2 PROVE S2[x] \subseteq D2
    <3>1. \A y \in D : S[y] \subseteq D
      BY <1>1
    <3> QED BY <1>4, <1>5, <3>1
  <2>3. /\ P2 = [x \in D2 |-> P2[x]] /\ A2 = [x \in D2 |-> A2[x]]
        /\ B2 = [x \in D2 |-> B2[x]] /\ S2 = [x \in D2 |-> S2[x]]
    OBVIOUS
  <2> HIDE DEF S2
  <2> QED BY <2>1, <2>2, <2>3
<1>7. ASSUME NEW d, d = Nil \/ d \in D
      PROVE  Sub(S2, IF d = n THEN s ELSE d) = Img(Sub(S, d))
  <2>1. CASE d = Nil
    BY <1>1, <2>1 DEF Sub
  <2>2. CASE d = n
    BY <1>1, <1>4, <1>5, <2>2 DEF Sub
  <2>3. CASE d # n /\ d \in D
    BY <1>1, <1>4, <1>5, <2>3 DEF Sub
  <2> QED BY <1>7, <2>1, <2>2, <2>3
<1> HIDE DEF S2
<1>8. ASSUME NEW x \in D2
      PROVE  /\ P2[x] = Nil <=> x = top2
             /\ P2[x] # Nil => A2[P2[x]] = x \/ B2[P2[x]] = x
             /\ A2[x] # Nil => P2[A2[x]] = x
             /\ B2[x] # Nil => P2[B2[x]] = x
  <2>1. CASE x = s
    <3>1. /\ P[n] # Nil => P[n] \in D2 /\ P[n] # s
          /\ A[n] # Nil => A[n] \in D2 /\ A[n] # s /\ P[A[n]] = n
          /\ B[n] # Nil => B[n] \in D2 /\ B[n] # s /\ P[B[n]] = n
      BY <1>2, <1>3, <1>5
    <3> QED BY <1>1, <1>2, <1>4, <2>1, <3>1
  <2>2. CASE x # s
    <3>1. x \in D /\ x # n
      BY <1>5, <2>2
    <3>2. (P2[x] = Nil <=> P[x] = Nil) /\ (x = top2 <=> x = top)
      BY <1>1, <1>4, <2>2, <3>1
    <3>3. P2[x] # Nil => A2[P2[x]] = x \/ B2[P2[x]] = x
      <4>1. CASE P[x] = n
        BY <1>1, <1>2, <1>4, <1>5, <2>2, <3>1, <4>1
      <4>2. CASE P[x] # n /\ P[x] # Nil
        <5>1. P[x] \in D2 /\ P[x] # s /\ P2[x] = P[x]
          BY <1>2, <1>4, <1>5, <2>2, <3>1, <4>2
        <5> QED BY <1>2, <1>4, <3>1, <4>2, <5>1
      <4> QED BY <3>2, <4>1, <4>2
    <3>4. A2[x] # Nil => P2[A2[x]] = x
      <4>1. CASE A[x] = n
        BY <1>1, <1>2, <1>4, <1>5, <2>2, <3>1, <4>1
      <4>2. CASE A[x] # n /\ A[x] # Nil
        BY <1>2, <1>4, <1>5, <2>2, <3>1, <4>2
      <4> QED BY <1>4, <2>2, <4>1, <4>2
    <3>5. B2[x] # Nil => P2[B2[x]] = x
      <4>1. CASE B[x] = n
        BY <1>1, <1>2, <1>4, <1>5, <2>2, <3>1, <4>1
      <4>2. CASE B[x] # n /\ B[x] # Nil
        BY <1>2, <1>4, <1>5, <2>2, <3>1, <4>2
      <4> QED BY <1>4, <2>2, <4>1, <4>2
    <3> QED BY <1>2, <3>1, <3>2, <3>3, <3>4, <3>5
  <2> QED BY <2>1, <2>2
<1>9. ASSUME NEW x \in D2
      PROVE  /\ S2[x] = {x} \union Sub(S2, A2[x]) \union Sub(S2, B2[x])
             /\ \A y \in Sub(S2, A2[x]) : k[y] < k[x]
             /\ \A y \in Sub(S2, B2[x]) : k[x] < k[y]
  <2>1. \A y \in D \union {s} : k[y] \in Int
    BY <1>1, LinksOfTree
  <2>2. CASE x = s
    <3>1. Sub(S2, A[n]) = Sub(S, A[n]) /\ Sub(S2, B[n]) = Sub(S, B[n])
      <4>1. /\ A[n] # Nil => A[n] \in D /\ A[n] # n
            /\ B[n] # Nil => B[n] \in D /\ B[n] # n
        BY <1>2, <1>3
      <4> QED BY <1>1, <1>3, <1>7, <4>1
    <3>2. A2[x] = A[n] /\ B2[x] = B[n] /\ S2[x] = Img(S[n])
      BY <1>4, <2>2
    <3>3. Img(S[n]) = {s} \union Sub(S, A[n]) \union Sub(S, B[n])
      BY <1>2, <1>3
    <3>4. /\ \A y \in Sub(S, A[n]) : k[y] < k[s]
          /\ \A y \in Sub(S, B[n]) : k[s] < k[y]
      <4>1. /\ \A y \in Sub(S, A[n]) : y \in D \ {n} /\ k[y] < k[n]
            /\ \A y \in Sub(S, B[n]) : y \in D \ {n} /\ k[n] < k[y]
        BY <1>2, <1>3
      <4> QED BY <2>1, <4>1 DEF SamePlace
    <3> QED BY <2>2, <3>1, <3>2, <3>3, <3>4
  <2>3. CASE x # s
    <3>1. x \in D /\ x # n
      BY <1>5, <2>3
    <3>2. Sub(S2, A2[x]) = Img(Sub(S, A[x])) /\ Sub(S2, B2[x]) = Img(Sub(S, B[x]))
      BY <1>2, <1>4, <1>7, <2>3, <3>1
    <3>3. S2[x] = Img(S[x])
      BY <1>4, <2>3
    <3>4. S2[x] = {x} \union Sub(S2, A2[x]) \union Sub(S2, B2[x])
      <4>1. S[x] = {x} \union Sub(S, A[x]) \union Sub(S, B[x])
        BY <1>2, <3>1
      <4> QED BY <3>1, <3>2, <3>3, <4>1
    <3>5. /\ n \in Sub(S, A[x]) => k[s] < k[x]
          /\ n \in Sub(S, B[x]) => k[x] < k[s]
      <4>1. /\ n \in Sub(S, A[x]) => k[n] < k[x]
            /\ n \in Sub(S, B[x]) => k[x] < k[n]
        BY <1>2, <3>1
      <4>2. k[s] # k[x] /\ (k[x] < k[n] <=> k[x] < k[s])
        BY <3>1 DEF SamePlace
      <4> QED BY <2>1, <3>1, <4>1, <4>2
    <3>6. /\ \A y \in Sub(S, A[x]) : k[y] < k[x]
          /\ \A y \in Sub(S, B[x]) : k[x] < k[y]
      BY <1>2, <3>1
    <3> QED BY <3>2, <3>4, <3>5, <3>6
  <2> QED BY <2>2, <2>3
<1>10. IF top2 = Nil THEN D2 = {} ELSE top2 \in D2 /\ S2[top2] = D2
  <2>1. top \in D /\ S[top] = D
    BY <1>1, LinksOfTree
  <2> QED BY <1>1, <1>4, <1>5, <2>1
<1>11. IsTree(D2, top2, P2, A2, B2, S2, k)
  BY <1>1, <1>6, <1>8, <1>9, <1>10 DEF IsTree
<1> QED BY <1>11
-----------------------------------------------------------------------------
(* Heights *)

HeightAt(H, x) == IF x = Nil THEN 0 ELSE H[x]

\* x has the height of its subtrees, which differ by one at most.
Even(A, B, H, x) ==
  /\ H[x] = 1 + Taller(HeightAt(H, A[x]), HeightAt(H, B[x]))
  /\ HeightAt(H, A[x]) - HeightAt(H, B[x]) \in -1 .. 1

\* It was so before one of the two subtrees grew or shrank by one.
NearlyEven(A, B, H, x) ==
  \E a, b \in Nat :
    /\ H[x] = 1 + Taller(a, b) /\ a - b \in -1 .. 1
    /\ \/ HeightAt(H, A[x]) = a /\ HeightAt(H, B[x]) - b \in -1 .. 1
       \/ HeightAt(H, B[x]) = b /\ HeightAt(H, A[x]) - a \in -1 .. 1

\* All is even but what is at p; Nil: all is even.
Settled(D, p, A, B, H) ==
  /\ H \in [D -> Nat]
  /\ \A x \in D \ {p} : Even(A, B, H, x)
  /\ p # Nil => NearlyEven(A, B, H, p)

LEMMA MirrorSettled ==
  ASSUME NEW D, D \subseteq Nat, NEW p \in D \union {Nil},
         NEW A \in [D -> D \union {Nil}], NEW B \in [D -> D \union {Nil}],
         NEW H, Settled(D, p, A, B, H)
  PROVE  Settled(D, p, B, A, H)
<1>1. H \in [D -> Nat]
  BY DEF Settled
<1>2. \A x \in D : HeightAt(H, A[x]) \in Nat /\ HeightAt(H, B[x]) \in Nat
  BY <1>1 DEF HeightAt
<1>3. \A x \in D : Even(A, B, H, x) => Even(B, A, H, x)
  BY <1>1, <1>2 DEF Even, Taller
<1>4. ASSUME p # Nil PROVE NearlyEven(B, A, H, p)
  <2>1. PICK a, b \in Nat : /\ H[p] = 1 + Taller(a, b) /\ a - b \in -1 .. 1
                            /\ \/ HeightAt(H, A[p]) = a /\ HeightAt(H, B[p]) - b \in -1 .. 1
                               \/ HeightAt(H, B[p]) = b /\ HeightAt(H, A[p]) - a \in -1 .. 1
    BY <1>4 DEF Settled, NearlyEven
  <2>2. H[p] = 1 + Taller(b, a) /\ b - a \in -1 .. 1
    BY <2>1 DEF Taller
  <2> QED BY <2>1, <2>2 DEF NearlyEven
<1> QED BY <1>1, <1>3, <1>4 DEF Settled

\* A node that was even, one of its subtrees now higher or lower by one.
LEMMA NearlyFromEven ==
  ASSUME NEW A, NEW B, NEW H, NEW A2, NEW B2, NEW H2, NEW x, Even(A, B, H, x), H2[x] = H[x],
         HeightAt(H, A[x]) \in Nat, HeightAt(H, B[x]) \in Nat,
         \/ /\ HeightAt(H2, A2[x]) = HeightAt(H, A[x])
            /\ HeightAt(H2, B2[x]) - HeightAt(H, B[x]) \in -1 .. 1
         \/ /\ HeightAt(H2, B2[x]) = HeightAt(H, B[x])
            /\ HeightAt(H2, A2[x]) - HeightAt(H, A[x]) \in -1 .. 1
  PROVE  NearlyEven(A2, B2, H2, x)
BY DEF Even, NearlyEven

\* A new leaf.
LEMMA LeafSettles ==
  ASSUME NEW D, NEW top, NEW P, NEW A, NEW B, NEW S, NEW k, IsTree(D, top, P, A, B, S, k),
         NEW c \in D, NEW v \in Nat \ {0}, v \notin D, A[c] = Nil,
         NEW H, Settled(D, Nil, A, B, H),
         NEW P2, NEW A2, NEW B2, IsLeaf(v, c, D, P, A, B, P2, A2, B2)
  PROVE  Settled(D \union {v}, c, A2, B2, [x \in D \union {v} |-> IF x = v THEN 1 ELSE H[x]])
<1> DEFINE H2 == [x \in D \union {v} |-> IF x = v THEN 1 ELSE H[x]]
<1>0. /\ A2 = [x \in D \union {v} |-> IF x = v THEN Nil ELSE IF x = c THEN v ELSE A[x]]
      /\ B2 = [x \in D \union {v} |-> IF x = v THEN Nil ELSE B[x]]
  BY DEF IsLeaf
<1> USE <1>0
<1>1. /\ H \in [D -> Nat] /\ Nil \notin D /\ v # Nil
      /\ \A x \in D : (A[x] = Nil \/ A[x] \in D) /\ (B[x] = Nil \/ B[x] \in D)
  BY LinksOfTree DEF Settled, Nil
<1>2. \A x \in D : Even(A, B, H, x)
  BY <1>1 DEF Settled
<1>3. H2 \in [D \union {v} -> Nat]
  BY <1>1
<1>4. Even(A2, B2, H2, v)
  BY <1>1 DEF Even, HeightAt, Taller
<1>5. \A d \in D \union {Nil} : HeightAt(H2, d) = HeightAt(H, d)
  BY <1>1 DEF HeightAt
<1>6. ASSUME NEW x \in D, x # c PROVE Even(A2, B2, H2, x)
  <2>1. A2[x] = A[x] /\ B2[x] = B[x] /\ H2[x] = H[x]
    BY <1>6
  <2>2. HeightAt(H2, A2[x]) = HeightAt(H, A[x]) /\ HeightAt(H2, B2[x]) = HeightAt(H, B[x])
    BY <1>1, <1>5, <2>1
  <2> QED BY <1>2, <2>1, <2>2 DEF Even
<1>7. NearlyEven(A2, B2, H2, c)
  <2>1. A2[c] = v /\ B2[c] = B[c] /\ H2[c] = H[c] /\ H2[v] = 1
    OBVIOUS
  <2>2. HeightAt(H, A[c]) = 0 /\ HeightAt(H2, A2[c]) = 1 /\ HeightAt(H2, B2[c]) = HeightAt(H, B[c])
    BY <1>1, <1>5, <2>1 DEF HeightAt
  <2>3. HeightAt(H, B[c]) \in Nat
    BY <1>1 DEF HeightAt
  <2> QED BY <1>2, <2>1, <2>2, <2>3, NearlyFromEven
<1> QED BY <1>3, <1>4, <1>6, <1>7 DEF Settled

\* A node is taken out: its subtree is lower by one.
LEMMA CutSettles ==
  ASSUME NEW D, NEW top, NEW P, NEW A, NEW B, NEW S, NEW k, IsTree(D, top, P, A, B, S, k),
         NEW n \in D, NEW c, (A[n] = Nil /\ c = B[n]) \/ (B[n] = Nil /\ c = A[n]),
         NEW D2, NEW top2, NEW P2, NEW A2, NEW B2,
         IsCut(n, c, D, top, P, A, B, D2, top2, P2, A2, B2),
         NEW H, Settled(D, Nil, A, B, H)
  PROVE  Settled(D2, P[n], A2, B2, [x \in D2 |-> H[x]])
<1> DEFINE H2 == [x \in D2 |-> H[x]]
           p == P[n]
<1>1. /\ H \in [D -> Nat] /\ Nil \notin D /\ D2 = D \ {n}
      /\ \A x \in D : /\ A[x] # Nil => A[x] \in D /\ P[A[x]] = x /\ A[x] # x
                      /\ B[x] # Nil => B[x] \in D /\ P[B[x]] = x /\ B[x] # x
      /\ p \in D \union {Nil} /\ p # n
  <2>1. \A x \in D : A[x] # x /\ B[x] # x /\ P[x] # x
    BY NodesAround
  <2>2. /\ Nil \notin D /\ P \in [D -> D \union {Nil}]
        /\ \A x \in D : /\ P[x] # Nil => P[x] \in D /\ (A[P[x]] = x \/ B[P[x]] = x)
                        /\ A[x] # Nil => A[x] \in D /\ P[A[x]] = x
                        /\ B[x] # Nil => B[x] \in D /\ P[B[x]] = x
    BY LinksOfTree
  <2>3. H \in [D -> Nat] /\ D2 = D \ {n}
    BY DEF Settled, IsCut
  <2> QED BY <2>1, <2>2, <2>3
<1>2. \A x \in D : Even(A, B, H, x)
  BY <1>1 DEF Settled
<1>3. /\ \A x \in D2 : /\ x \in D /\ x # n /\ H2[x] = H[x]
                       /\ A2[x] = IF A[x] = n THEN c ELSE A[x]
                       /\ B2[x] = IF B[x] = n THEN c ELSE B[x]
      /\ H2 \in [D2 -> Nat]
  BY <1>1 DEF IsCut
<1>4. \A x \in D : HeightAt(H, A[x]) \in Nat /\ HeightAt(H, B[x]) \in Nat
  BY <1>1 DEF HeightAt
<1>5. HeightAt(H, n) = 1 + HeightAt(H, c) /\ HeightAt(H, c) \in Nat
  <2>1. HeightAt(H, Nil) = 0 /\ H[n] = HeightAt(H, n)
    BY <1>1 DEF HeightAt
  <2> QED BY <1>2, <1>4, <2>1 DEF Even, Taller
<1>6. \A d : d = Nil \/ d \in D2 => HeightAt(H2, d) = HeightAt(H, d)
  BY <1>3 DEF HeightAt
<1>7. c = Nil \/ c \in D2
  BY <1>1
<1> HIDE DEF H2, p
<1>8. ASSUME NEW x \in D2, A[x] # n, B[x] # n PROVE Even(A2, B2, H2, x)
  <2>1. HeightAt(H2, A2[x]) = HeightAt(H, A[x]) /\ HeightAt(H2, B2[x]) = HeightAt(H, B[x])
    BY <1>1, <1>3, <1>6, <1>8
  <2> QED BY <1>2, <1>3, <2>1 DEF Even
<1>9. ASSUME p # Nil PROVE NearlyEven(A2, B2, H2, p)
  <2>1. p \in D2 /\ p \in D /\ (A[p] = n \/ B[p] = n) /\ (A[p] = n => B[p] # n)
    <3>1. A[p] = n => B[p] # n
      BY <1>1, <1>9, NodesAround
    <3> QED BY <1>1, <1>9, <3>1, LinksOfTree DEF p
  <2>2. CASE A[p] = n
    <3>1. A2[p] = c /\ B2[p] = B[p] /\ B[p] # n
      BY <1>3, <2>1, <2>2
    <3>2. /\ HeightAt(H2, B2[p]) = HeightAt(H, B[p])
          /\ HeightAt(H2, A2[p]) = HeightAt(H, c) /\ HeightAt(H, A[p]) = 1 + HeightAt(H, c)
      BY <1>1, <1>3, <1>5, <1>6, <1>7, <2>1, <2>2, <3>1
    <3>3. HeightAt(H2, A2[p]) - HeightAt(H, A[p]) \in -1 .. 1
      BY <1>5, <3>2
    <3> QED BY <1>2, <1>3, <1>4, <2>1, <3>2, <3>3, NearlyFromEven
  <2>3. CASE B[p] = n
    <3>1. B2[p] = c /\ A2[p] = A[p] /\ A[p] # n
      BY <1>3, <2>1, <2>3
    <3>2. /\ HeightAt(H2, A2[p]) = HeightAt(H, A[p])
          /\ HeightAt(H2, B2[p]) = HeightAt(H, c) /\ HeightAt(H, B[p]) = 1 + HeightAt(H, c)
      BY <1>1, <1>3, <1>5, <1>6, <1>7, <2>1, <2>3, <3>1
    <3>3. HeightAt(H2, B2[p]) - HeightAt(H, B[p]) \in -1 .. 1
      BY <1>5, <3>2
    <3> QED BY <1>2, <1>3, <1>4, <2>1, <3>2, <3>3, NearlyFromEven
  <2> QED BY <2>1, <2>2, <2>3
<1>10. \A x \in D2 \ {p} : A[x] # n /\ B[x] # n
  <2>1. n # Nil
    BY <1>1
  <2> QED BY <1>1, <1>3, <2>1 DEF p
<1>11. Settled(D2, p, A2, B2, H2)
  BY <1>3, <1>8, <1>9, <1>10 DEF Settled
<1> QED BY <1>11 DEF p, H2

\* A node is replaced by one that takes over its height.
LEMMA RenameSettles ==
  ASSUME NEW D, NEW top, NEW P, NEW A, NEW B, NEW S, NEW k, IsTree(D, top, P, A, B, S, k),
         NEW n \in D, NEW s \in Nat \ {0}, s \notin D,
         NEW D2, NEW top2, NEW P2, NEW A2, NEW B2,
         IsRenamed(n, s, D, top, P, A, B, D2, top2, P2, A2, B2),
         NEW H, NEW p \in D \union {Nil}, Settled(D, p, A, B, H)
  PROVE  Settled(D2, IF p = n THEN s ELSE p, A2, B2, [x \in D2 |-> IF x = s THEN H[n] ELSE H[x]])
<1> DEFINE H2 == [x \in D2 |-> IF x = s THEN H[n] ELSE H[x]]
           Ren(x) == IF x = n THEN s ELSE x
<1>1. /\ H \in [D -> Nat] /\ Nil \notin D /\ D2 = (D \ {n}) \union {s} /\ s # Nil
      /\ \A x \in D : /\ A[x] # Nil => A[x] \in D /\ A[x] # x
                      /\ B[x] # Nil => B[x] \in D /\ B[x] # x
  <2>1. \A x \in D : A[x] # x /\ B[x] # x
    BY NodesAround
  <2> QED BY <2>1, LinksOfTree DEF Settled, IsRenamed, Nil
<1>2. /\ \A x \in D : /\ Ren(x) \in D2 /\ H2[Ren(x)] = H[x]
                      /\ A2[Ren(x)] = Ren(A[x]) /\ B2[Ren(x)] = Ren(B[x])
      /\ \A y \in D2 : \E x \in D : y = Ren(x)
      /\ H2 \in [D2 -> Nat] /\ n \notin D2
  <2>1. \A x \in D2 : /\ x = s \/ (x \in D /\ x # n)
                      /\ A2[x] = IF x = s THEN A[n] ELSE IF A[x] = n THEN s ELSE A[x]
                      /\ B2[x] = IF x = s THEN B[n] ELSE IF B[x] = n THEN s ELSE B[x]
                      /\ H2[x] = IF x = s THEN H[n] ELSE H[x]
    BY <1>1 DEF IsRenamed
  <2>2. H2 \in [D2 -> Nat]
    BY <1>1, <2>1
  <2> HIDE DEF H2
  <2> QED BY <1>1, <2>1, <2>2
<1>3. \A d \in D \union {Nil} : HeightAt(H2, Ren(d)) = HeightAt(H, d)
  BY <1>1, <1>2 DEF HeightAt
<1> HIDE DEF H2, Ren
<1>4. ASSUME NEW x \in D
      PROVE  /\ HeightAt(H2, A2[Ren(x)]) = HeightAt(H, A[x])
             /\ HeightAt(H2, B2[Ren(x)]) = HeightAt(H, B[x])
             /\ H2[Ren(x)] = H[x]
  BY <1>1, <1>2, <1>3
<1>5. \A x \in D : Even(A, B, H, x) => Even(A2, B2, H2, Ren(x))
  BY <1>4 DEF Even
<1>6. \A x \in D : NearlyEven(A, B, H, x) => NearlyEven(A2, B2, H2, Ren(x))
  BY <1>4 DEF NearlyEven
<1>7. p \in D => NearlyEven(A2, B2, H2, Ren(p))
  BY <1>1, <1>6 DEF Settled
<1>8. ASSUME NEW y \in D2, y # Ren(p) PROVE Even(A2, B2, H2, y)
  <2>1. PICK x \in D : y = Ren(x)
    BY <1>2
  <2> QED BY <1>5, <1>8, <2>1 DEF Settled
<1>9. Settled(D2, Ren(p), A2, B2, H2)
  <2>1. Ren(p) # Nil => p \in D
    BY <1>1 DEF Ren
  <2> QED BY <1>2, <1>7, <1>8, <2>1 DEF Settled
<1> QED BY <1>9 DEF Ren, H2

\* The climb: a node that was nearly even gets its true height and is even.
LEMMA FlatSettles ==
  ASSUME NEW D, NEW top, NEW P, NEW A, NEW B, NEW S, NEW k, IsTree(D, top, P, A, B, S, k),
         NEW n \in D, NEW H, Settled(D, n, A, B, H),
         HeightAt(H, A[n]) - HeightAt(H, B[n]) \in -1 .. 1,
         NEW H2, H2 = [H EXCEPT ![n] = 1 + Taller(HeightAt(H, A[n]), HeightAt(H, B[n]))]
  PROVE  Settled(D, P[n], A, B, H2)
<1> DEFINE p == P[n]
<1>1. /\ H \in [D -> Nat] /\ Nil \notin D
      /\ \A x \in D : /\ A[x] # Nil => A[x] \in D /\ P[A[x]] = x
                      /\ B[x] # Nil => B[x] \in D /\ P[B[x]] = x
      /\ p # Nil => p \in D /\ (A[p] = n \/ B[p] = n)
  <2>1. H \in [D -> Nat]
    BY DEF Settled
  <2>2. /\ Nil \notin D /\ P \in [D -> D \union {Nil}]
        /\ \A x \in D : /\ P[x] # Nil => P[x] \in D /\ (A[P[x]] = x \/ B[P[x]] = x)
                        /\ A[x] # Nil => A[x] \in D /\ P[A[x]] = x
                        /\ B[x] # Nil => B[x] \in D /\ P[B[x]] = x
    BY LinksOfTree
  <2> QED BY <2>1, <2>2
<1>2. /\ A[n] # n /\ B[n] # n /\ p # n
      /\ p # Nil => (A[p] = n => B[p] # n)
  BY <1>1, NodesAround
<1>3. \A x \in D : HeightAt(H, A[x]) \in Nat /\ HeightAt(H, B[x]) \in Nat
  BY <1>1 DEF HeightAt
<1>4. H2 \in [D -> Nat] /\ (\A x \in D \ {n} : H2[x] = H[x])
      /\ H2[n] = 1 + Taller(HeightAt(H, A[n]), HeightAt(H, B[n]))
  BY <1>1, <1>3 DEF Taller
<1>5. \A d \in (D \union {Nil}) \ {n} : HeightAt(H2, d) = HeightAt(H, d)
  BY <1>4 DEF HeightAt
<1>6. H2[n] - H[n] \in -1 .. 1 /\ HeightAt(H2, n) = H2[n] /\ HeightAt(H, n) = H[n]
  <2>1. NearlyEven(A, B, H, n)
    BY <1>1 DEF Settled
  <2>2. n # Nil
    BY <1>1
  <2>3. PICK a, b \in Nat :
          /\ H[n] = 1 + Taller(a, b) /\ a - b \in -1 .. 1
          /\ \/ HeightAt(H, A[n]) = a /\ HeightAt(H, B[n]) - b \in -1 .. 1
             \/ HeightAt(H, B[n]) = b /\ HeightAt(H, A[n]) - a \in -1 .. 1
    BY <2>1 DEF NearlyEven
  <2>4. H2[n] - H[n] \in -1 .. 1
    BY <1>3, <1>4, <2>3 DEF Taller
  <2> QED BY <2>2, <2>4 DEF HeightAt
<1>7. \A x \in D \ {n} : Even(A, B, H, x)
  BY DEF Settled
<1> HIDE DEF p
<1>8. Even(A, B, H2, n)
  BY <1>1, <1>2, <1>4, <1>5 DEF Even
<1>9. ASSUME NEW x \in D \ {n}, x # p PROVE Even(A, B, H2, x)
  <2>1. A[x] # n /\ B[x] # n
    <3>1. n # Nil
      BY <1>1
    <3> QED BY <1>1, <1>9, <3>1 DEF p
  <2>2. HeightAt(H2, A[x]) = HeightAt(H, A[x]) /\ HeightAt(H2, B[x]) = HeightAt(H, B[x])
    BY <1>1, <1>5, <2>1
  <2>3. H2[x] = H[x] /\ Even(A, B, H, x)
    BY <1>4, <1>7
  <2> QED BY <2>2, <2>3 DEF Even
<1>10. ASSUME p # Nil PROVE NearlyEven(A, B, H2, p)
  <2>1. p \in D \ {n}
    BY <1>1, <1>2, <1>10
  <2>2. \/ HeightAt(H2, A[p]) = HeightAt(H, A[p]) /\ B[p] = n
        \/ HeightAt(H2, B[p]) = HeightAt(H, B[p]) /\ A[p] = n
    BY <1>1, <1>2, <1>5, <1>10, <2>1
  <2> QED BY <1>3, <1>4, <1>6, <1>7, <2>1, <2>2, NearlyFromEven
<1>11. Settled(D, p, A, B, H2)
  BY <1>4, <1>8, <1>9, <1>10 DEF Settled
<1> QED BY <1>11 DEF p

\* The heights after a rotation: of the lower node first, then of the upper.
TurnedHeights(n, l, A, B, H) ==
  LET hn == 1 + Taller(HeightAt(H, B[l]), HeightAt(H, B[n]))
  IN  [x \in DOMAIN H |-> IF x = n THEN hn
                          ELSE IF x = l THEN 1 + Taller(HeightAt(H, A[l]), hn) ELSE H[x]]

\* What a rotation does to the heights: the nodes it does not turn stay even but for
\* the parent, which sees one subtree changed.
LEMMA TurnKeeps ==
  ASSUME NEW D, NEW top, NEW P, NEW A, NEW B, NEW S, NEW k, IsTree(D, top, P, A, B, S, k),
         NEW n \in D, NEW l \in D, NEW top2, NEW P2, NEW A2, NEW B2,
         IsTurned(n, l, top, P, A, B, top2, P2, A2, B2),
         NEW H \in [D -> Nat], NEW H2, H2 = TurnedHeights(n, l, A, B, H)
  PROVE  /\ H2 \in [D -> Nat] /\ \A x \in D \ {n, l} : H2[x] = H[x]
         /\ \A x \in D : HeightAt(H, A[x]) \in Nat /\ HeightAt(H, B[x]) \in Nat
         /\ HeightAt(H2, A2[n]) = HeightAt(H, B[l]) /\ HeightAt(H2, B2[n]) = HeightAt(H, B[n])
         /\ H2[n] = 1 + Taller(HeightAt(H, B[l]), HeightAt(H, B[n]))
         /\ HeightAt(H2, A2[l]) = HeightAt(H, A[l]) /\ HeightAt(H2, B2[l]) = H2[n]
         /\ H2[l] = 1 + Taller(HeightAt(H, A[l]), H2[n]) /\ HeightAt(H2, l) = H2[l]
         /\ \A x \in D \ {n, l, P[n]} : /\ HeightAt(H2, A2[x]) = HeightAt(H, A[x])
                                        /\ HeightAt(H2, B2[x]) = HeightAt(H, B[x])
         /\ P[n] # Nil =>
              /\ P[n] \in D \ {n, l}
              /\ \/ /\ A[P[n]] = n /\ HeightAt(H2, A2[P[n]]) = H2[l]
                    /\ HeightAt(H2, B2[P[n]]) = HeightAt(H, B[P[n]])
                 \/ /\ B[P[n]] = n /\ HeightAt(H2, B2[P[n]]) = H2[l]
                    /\ HeightAt(H2, A2[P[n]]) = HeightAt(H, A[P[n]])
<1> DEFINE p == P[n]
           m == B[l]
<1>1. /\ Nil \notin D
      /\ \A x \in D : /\ A[x] # Nil => A[x] \in D /\ P[A[x]] = x
                      /\ B[x] # Nil => B[x] \in D /\ P[B[x]] = x
      /\ p # Nil => p \in D /\ (A[p] = n \/ B[p] = n)
      /\ DOMAIN P = D /\ DOMAIN A = D /\ DOMAIN B = D
  <2>1. A \in [D -> D \union {Nil}] /\ B \in [D -> D \union {Nil}]
    BY LinksOfTree
  <2>2. /\ Nil \notin D /\ P \in [D -> D \union {Nil}]
        /\ \A x \in D : /\ P[x] # Nil => P[x] \in D /\ (A[P[x]] = x \/ B[P[x]] = x)
                        /\ A[x] # Nil => A[x] \in D /\ P[A[x]] = x
                        /\ B[x] # Nil => B[x] \in D /\ P[B[x]] = x
    BY LinksOfTree
  <2> QED BY <2>1, <2>2
<1>0. A[n] = l
  BY DEF IsTurned
<1>2. /\ p # l /\ l # n /\ m # n /\ m # l /\ p # n
      /\ \A x \in D : A[x] # Nil => A[x] # B[x]
      /\ A[l] # l /\ B[n] # n /\ P[l] = n
  <2>1. p # l /\ l # n /\ m # n /\ m # l
    <3>1. /\ IsTree(D, top2, P2, A2, B2, TurnedSubs(n, l, A, B, S), k)
          /\ P[n] # l /\ (P[n] # Nil => P[n] # B[l]) /\ B[l] # n /\ B[l] # l /\ l # n
      <4> HIDE DEF p, m
      <4> QED BY TurnIsTree
    <3> QED BY <3>1
  <2>2. /\ \A x \in D : A[x] # Nil => A[x] # B[x]
        /\ A[l] # l /\ B[n] # n /\ p # n
    BY NodesAround
  <2> QED BY <1>0, <1>1, <2>1, <2>2
<1>3. A[l] # n /\ B[n] # l
  <2>1. n # Nil /\ l # Nil
    BY <1>1
  <2> QED BY <1>0, <1>1, <1>2, <2>1
<1>4. \A x \in D : HeightAt(H, A[x]) \in Nat /\ HeightAt(H, B[x]) \in Nat
  BY <1>1 DEF HeightAt
<1>5. /\ H2[n] = 1 + Taller(HeightAt(H, B[l]), HeightAt(H, B[n]))
      /\ H2[l] = 1 + Taller(HeightAt(H, A[l]), H2[n])
      /\ \A x \in D \ {n, l} : H2[x] = H[x]
      /\ H2 \in [D -> Nat]
  <2>1. DOMAIN H = D
    OBVIOUS
  <2>2. H2[n] = 1 + Taller(HeightAt(H, B[l]), HeightAt(H, B[n]))
    BY <1>2, <2>1 DEF TurnedHeights
  <2>3. H2[l] = 1 + Taller(HeightAt(H, A[l]), H2[n])
    BY <1>2, <2>1, <2>2 DEF TurnedHeights
  <2>4. \A x \in D \ {n, l} : H2[x] = H[x]
    BY <2>1 DEF TurnedHeights
  <2>5. H2[n] \in Nat
    BY <1>4, <2>2 DEF Taller
  <2>6. H2[l] \in Nat
    BY <1>4, <2>3, <2>5 DEF Taller
  <2>7. H2 = [x \in D |-> H2[x]]
    BY <2>1 DEF TurnedHeights
  <2> QED BY <2>2, <2>3, <2>4, <2>5, <2>6, <2>7
<1>6. \A x \in D : /\ A2[x] = IF x = n THEN m ELSE IF A[x] = n THEN l ELSE A[x]
                   /\ B2[x] = IF x = l THEN n ELSE IF B[x] = n THEN l ELSE B[x]
  BY <1>1 DEF IsTurned
<1>7. \A d : (d = Nil \/ d \in D \ {n, l}) => HeightAt(H2, d) = HeightAt(H, d)
  BY <1>5 DEF HeightAt
<1>8. HeightAt(H2, l) = H2[l] /\ HeightAt(H2, n) = H2[n]
  BY <1>1 DEF HeightAt
<1> HIDE DEF p, m
<1>9. /\ A2[n] = m /\ B2[n] = B[n] /\ A2[l] = A[l] /\ B2[l] = n
      /\ m = Nil \/ m \in D \ {n, l}
      /\ B[n] = Nil \/ B[n] \in D \ {n, l}
      /\ A[l] = Nil \/ A[l] \in D \ {n, l}
  BY <1>1, <1>2, <1>3, <1>6 DEF m
<1>10. ASSUME NEW x \in D \ {n, l}
       PROVE  /\ A[x] # n => HeightAt(H2, A2[x]) = HeightAt(H, A[x])
              /\ B[x] # n => HeightAt(H2, B2[x]) = HeightAt(H, B[x])
              /\ A[x] = n => HeightAt(H2, A2[x]) = H2[l]
              /\ B[x] = n => HeightAt(H2, B2[x]) = H2[l]
  <2>1. A[x] # l /\ B[x] # l
    BY <1>0, <1>1, <1>2
  <2> QED BY <1>1, <1>6, <1>7, <1>8, <2>1
<1>11. \A x \in D \ {n, l, p} : A[x] # n /\ B[x] # n
  BY <1>1 DEF p
<1>12. p # Nil =>
         /\ p \in D \ {n, l}
         /\ \/ A[p] = n /\ B[p] # n
            \/ B[p] = n /\ A[p] # n
  BY <1>1, <1>2
<1>13. p # Nil =>
         /\ p \in D \ {n, l}
         /\ \/ /\ A[p] = n /\ HeightAt(H2, A2[p]) = H2[l]
               /\ HeightAt(H2, B2[p]) = HeightAt(H, B[p])
            \/ /\ B[p] = n /\ HeightAt(H2, B2[p]) = H2[l]
               /\ HeightAt(H2, A2[p]) = HeightAt(H, A[p])
  BY <1>10, <1>12
<1>14. \A x \in D \ {n, l, p} : /\ HeightAt(H2, A2[x]) = HeightAt(H, A[x])
                                /\ HeightAt(H2, B2[x]) = HeightAt(H, B[x])
  BY <1>10, <1>11
<1>15. /\ HeightAt(H2, A2[n]) = HeightAt(H, B[l]) /\ HeightAt(H2, B2[n]) = HeightAt(H, B[n])
       /\ HeightAt(H2, A2[l]) = HeightAt(H, A[l]) /\ HeightAt(H2, B2[l]) = H2[n]
  BY <1>7, <1>8, <1>9 DEF m
<1> QED BY <1>4, <1>5, <1>8, <1>13, <1>14, <1>15 DEF p

\* A rotation settles the nodes it turns when the heights of the three subtrees say
\* so; H0 is H but for n, whose height may have been set before the rotation.
LEMMA TurnSettles ==
  ASSUME NEW D, NEW top, NEW P, NEW A, NEW B, NEW S, NEW k, IsTree(D, top, P, A, B, S, k),
         NEW n \in D, NEW l \in D, NEW top2, NEW P2, NEW A2, NEW B2,
         IsTurned(n, l, top, P, A, B, top2, P2, A2, B2),
         NEW H \in [D -> Nat], NEW H2, H2 = TurnedHeights(n, l, A, B, H),
         NEW H0 \in [D -> Nat], \A x \in D \ {n} : H0[x] = H[x],
         \A x \in D \ {n, l} : Even(A, B, H0, x),
         NEW a, a = HeightAt(H, A[l]), NEW b, b = HeightAt(H, B[l]), NEW e, e = HeightAt(H, B[n]),
         b - e \in -1 .. 1, a - (1 + Taller(b, e)) \in -1 .. 1,
         1 + Taller(a, 1 + Taller(b, e)) - H0[n] \in -1 .. 1
  PROVE  Settled(D, P[n], A2, B2, H2)
<1> DEFINE p == P[n]
<1>1. /\ H2 \in [D -> Nat] /\ \A x \in D \ {n, l} : H2[x] = H[x]
      /\ \A x \in D : HeightAt(H, A[x]) \in Nat /\ HeightAt(H, B[x]) \in Nat
      /\ HeightAt(H2, A2[n]) = HeightAt(H, B[l]) /\ HeightAt(H2, B2[n]) = HeightAt(H, B[n])
      /\ H2[n] = 1 + Taller(HeightAt(H, B[l]), HeightAt(H, B[n]))
      /\ HeightAt(H2, A2[l]) = HeightAt(H, A[l]) /\ HeightAt(H2, B2[l]) = H2[n]
      /\ H2[l] = 1 + Taller(HeightAt(H, A[l]), H2[n]) /\ HeightAt(H2, l) = H2[l]
      /\ \A x \in D \ {n, l, p} : /\ HeightAt(H2, A2[x]) = HeightAt(H, A[x])
                                  /\ HeightAt(H2, B2[x]) = HeightAt(H, B[x])
      /\ p # Nil =>
           /\ p \in D \ {n, l}
           /\ \/ /\ A[p] = n /\ HeightAt(H2, A2[p]) = H2[l]
                 /\ HeightAt(H2, B2[p]) = HeightAt(H, B[p])
              \/ /\ B[p] = n /\ HeightAt(H2, B2[p]) = H2[l]
                 /\ HeightAt(H2, A2[p]) = HeightAt(H, A[p])
  BY TurnKeeps
<1>2. /\ n # Nil
      /\ \A x \in D : /\ A[x] # Nil => A[x] \in D /\ P[A[x]] = x /\ A[x] # B[x]
                      /\ B[x] # Nil => B[x] \in D /\ P[B[x]] = x
  <2>1. /\ Nil \notin D
        /\ \A x \in D : /\ A[x] # Nil => A[x] \in D /\ P[A[x]] = x
                        /\ B[x] # Nil => B[x] \in D /\ P[B[x]] = x
    BY LinksOfTree
  <2>2. \A x \in D : A[x] # Nil => A[x] # B[x]
    BY NodesAround
  <2> QED BY <2>1, <2>2
<1>3. /\ \A d : (d = Nil \/ d \in D \ {n}) => HeightAt(H, d) = HeightAt(H0, d)
      /\ HeightAt(H0, n) = H0[n]
  BY <1>2 DEF HeightAt
<1> HIDE DEF p
<1>4. Even(A2, B2, H2, n) /\ Even(A2, B2, H2, l)
  BY <1>1 DEF Even
<1>5. ASSUME NEW x \in D \ {n, l, p} PROVE Even(A2, B2, H2, x)
  <2>1. A[x] # n /\ B[x] # n
    BY <1>2, <1>5 DEF p
  <2>2. HeightAt(H2, A2[x]) = HeightAt(H0, A[x]) /\ HeightAt(H2, B2[x]) = HeightAt(H0, B[x])
    BY <1>1, <1>2, <1>3, <2>1
  <2>3. H2[x] = H0[x] /\ Even(A, B, H0, x)
    BY <1>1
  <2> QED BY <2>2, <2>3 DEF Even
<1>6. ASSUME p # Nil PROVE NearlyEven(A2, B2, H2, p)
  <2>1. p \in D \ {n, l} /\ H2[p] = H0[p] /\ Even(A, B, H0, p)
    BY <1>1, <1>6
  <2>2. HeightAt(H0, A[p]) \in Nat /\ HeightAt(H0, B[p]) \in Nat
    BY <1>2, <2>1 DEF HeightAt
  <2>3. H2[l] - H0[n] \in -1 .. 1
    <3>1. H2[n] = 1 + Taller(b, e)
      BY <1>1
    <3>2. H2[l] = 1 + Taller(a, 1 + Taller(b, e))
      BY <1>1, <3>1
    <3>3. a \in Nat /\ b \in Nat /\ e \in Nat
      BY <1>1
    <3>4. Taller(b, e) \in Nat
      BY <3>3 DEF Taller
    <3>5. Taller(a, 1 + Taller(b, e)) \in Nat
      BY <3>3, <3>4 DEF Taller
    <3> QED BY <3>2, <3>4, <3>5
  <2>4. CASE A[p] = n
    <3>1. B[p] # n
      BY <1>2, <2>1, <2>4
    <3>2. HeightAt(H2, A2[p]) = H2[l] /\ HeightAt(H2, B2[p]) = HeightAt(H, B[p])
      BY <1>1, <1>6, <3>1
    <3>3. HeightAt(H2, A2[p]) = H2[l] /\ HeightAt(H2, B2[p]) = HeightAt(H0, B[p])
      BY <1>2, <1>3, <2>1, <3>1, <3>2
    <3>4. HeightAt(H2, A2[p]) - HeightAt(H0, A[p]) \in -1 .. 1
      BY <1>3, <2>3, <2>4, <3>3
    <3> QED BY <2>1, <2>2, <3>3, <3>4, NearlyFromEven
  <2>5. CASE A[p] # n
    <3>1. B[p] = n /\ HeightAt(H2, B2[p]) = H2[l] /\ HeightAt(H2, A2[p]) = HeightAt(H, A[p])
      BY <1>1, <1>6, <2>5
    <3>2. HeightAt(H2, A2[p]) = HeightAt(H0, A[p])
      BY <1>2, <1>3, <2>1, <2>5, <3>1
    <3>3. HeightAt(H2, B2[p]) - HeightAt(H0, B[p]) \in -1 .. 1
      BY <1>3, <2>3, <3>1
    <3> QED BY <2>1, <2>2, <3>2, <3>3, NearlyFromEven
  <2> QED BY <2>4, <2>5
<1>7. Settled(D, p, A2, B2, H2)
  BY <1>1, <1>4, <1>5, <1>6 DEF Settled
<1> QED BY <1>7 DEF p

\* What there is to know of the heights at a node that leans to the side of A.
LEMMA Leaning ==
  ASSUME NEW D, NEW top, NEW P, NEW A, NEW B, NEW S, NEW k, IsTree(D, top, P, A, B, S, k),
         NEW n \in D, NEW H, Settled(D, n, A, B, H),
         HeightAt(H, A[n]) - HeightAt(H, B[n]) > 1
  PROVE  /\ A[n] \in D /\ A[n] # n /\ H \in [D -> Nat]
         /\ HeightAt(H, B[n]) \in Nat /\ HeightAt(H, A[A[n]]) \in Nat /\ HeightAt(H, B[A[n]]) \in Nat
         /\ H[A[n]] = HeightAt(H, B[n]) + 2 /\ Even(A, B, H, A[n])
         /\ H[n] - HeightAt(H, B[n]) \in {2, 3}
         /\ A[A[n]] # n /\ B[A[n]] # n /\ B[n] # n
<1>1. /\ H \in [D -> Nat] /\ Nil \notin D
      /\ \A x \in D : /\ A[x] # Nil => A[x] \in D /\ P[A[x]] = x
                      /\ B[x] # Nil => B[x] \in D /\ P[B[x]] = x
  <2>1. H \in [D -> Nat]
    BY DEF Settled
  <2> QED BY <2>1, LinksOfTree
<1>2. \A x \in D : HeightAt(H, A[x]) \in Nat /\ HeightAt(H, B[x]) \in Nat
  BY <1>1 DEF HeightAt
<1>3. A[n] \in D /\ HeightAt(H, A[n]) = H[A[n]]
  <2>1. A[n] # Nil
    BY <1>2 DEF HeightAt
  <2> QED BY <1>1, <2>1 DEF HeightAt
<1>4. A[n] # n /\ B[n] # n /\ A[A[n]] # n /\ B[A[n]] # n
  <2>1. A[n] # n /\ B[n] # n
    BY NodesAround
  <2>2. P[n] # A[n]
    <3>1. P[n] = A[n] => (A[A[n]] = n \/ B[A[n]] = n)
      BY <1>1, <1>3, LinksOfTree
    <3>2. n \notin Sub(S, A[n])
      BY NodesAround
    <3>3. S[A[n]] = {A[n]} \union Sub(S, A[A[n]]) \union Sub(S, B[A[n]]) /\ n \in S[n]
      <4>1. n \in S[n]
        BY NodesAround
      <4> QED BY <1>3, <4>1, LinksOfTree
    <3> QED BY <1>1, <1>3, <3>1, <3>2, <3>3 DEF Sub
  <2>3. n # Nil
    BY <1>1
  <2> QED BY <1>1, <1>3, <2>1, <2>2, <2>3
<1>5. PICK a, b \in Nat :
        /\ H[n] = 1 + Taller(a, b) /\ a - b \in -1 .. 1
        /\ \/ HeightAt(H, A[n]) = a /\ HeightAt(H, B[n]) - b \in -1 .. 1
           \/ HeightAt(H, B[n]) = b /\ HeightAt(H, A[n]) - a \in -1 .. 1
  BY <1>1 DEF Settled, NearlyEven
<1>6. H[A[n]] = HeightAt(H, B[n]) + 2 /\ H[n] - HeightAt(H, B[n]) \in {2, 3}
  BY <1>1, <1>2, <1>3, <1>5 DEF Taller
<1>7. Even(A, B, H, A[n])
  BY <1>3, <1>4 DEF Settled
<1> QED BY <1>1, <1>2, <1>3, <1>4, <1>6, <1>7

\* One rotation is enough when the child does not lean the other way.
LEMMA SingleSettles ==
  ASSUME NEW D, NEW top, NEW P, NEW A, NEW B, NEW S, NEW k, IsTree(D, top, P, A, B, S, k),
         NEW n \in D, NEW l \in D, NEW top2, NEW P2, NEW A2, NEW B2,
         IsTurned(n, l, top, P, A, B, top2, P2, A2, B2),
         NEW H0, Settled(D, n, A, B, H0), HeightAt(H0, A[n]) - HeightAt(H0, B[n]) > 1,
         HeightAt(H0, A[l]) >= HeightAt(H0, B[l]),
         NEW H \in [D -> Nat], \A x \in D \ {n} : H0[x] = H[x],
         NEW H2, H2 = TurnedHeights(n, l, A, B, H)
  PROVE  Settled(D, P[n], A2, B2, H2)
<1>1. A[n] = l
  BY DEF IsTurned
<1>2. /\ l # n /\ H0 \in [D -> Nat]
      /\ HeightAt(H0, B[n]) \in Nat /\ HeightAt(H0, A[l]) \in Nat /\ HeightAt(H0, B[l]) \in Nat
      /\ H0[l] = HeightAt(H0, B[n]) + 2 /\ Even(A, B, H0, l)
      /\ H0[n] - HeightAt(H0, B[n]) \in {2, 3}
      /\ A[l] # n /\ B[l] # n /\ B[n] # n
  BY <1>1, Leaning
<1>3. /\ HeightAt(H, A[l]) = HeightAt(H0, A[l]) /\ HeightAt(H, B[l]) = HeightAt(H0, B[l])
      /\ HeightAt(H, B[n]) = HeightAt(H0, B[n])
  <2>1. A \in [D -> D \union {Nil}] /\ B \in [D -> D \union {Nil}]
    BY LinksOfTree
  <2> QED BY <1>2, <2>1 DEF HeightAt
<1> DEFINE a == HeightAt(H, A[l])
           b == HeightAt(H, B[l])
           e == HeightAt(H, B[n])
<1>4. /\ a \in Nat /\ b \in Nat /\ e \in Nat /\ a >= b
      /\ H0[l] = e + 2 /\ H0[n] - e \in {2, 3} /\ H0[n] \in Nat
      /\ H0[l] = 1 + Taller(a, b) /\ a - b \in -1 .. 1
  BY <1>2, <1>3 DEF Even
<1>5. \A x \in D \ {n, l} : Even(A, B, H0, x)
  BY DEF Settled
<1>6. a = HeightAt(H, A[l]) /\ b = HeightAt(H, B[l]) /\ e = HeightAt(H, B[n])
  OBVIOUS
<1> HIDE DEF a, b, e
<1>7. a = e + 1 /\ (b = e \/ b = e + 1) /\ (H0[n] = e + 2 \/ H0[n] = e + 3)
  BY <1>4 DEF Taller
<1>8. /\ b - e \in -1 .. 1 /\ a - (1 + Taller(b, e)) \in -1 .. 1
      /\ 1 + Taller(a, 1 + Taller(b, e)) - H0[n] \in -1 .. 1
  BY <1>4, <1>7 DEF Taller
<1> QED BY <1>2, <1>5, <1>6, <1>8, TurnSettles

\* Two rotations when it does: the grandchild comes to the top.
LEMMA DoubleSettles ==
  ASSUME NEW D, NEW top, NEW P, NEW A, NEW B, NEW S, NEW k, IsTree(D, top, P, A, B, S, k),
         NEW n \in D, NEW l \in D, NEW m \in D, l = A[n],
         NEW top1, NEW P1, NEW A1, NEW B1, NEW S1, IsTree(D, top1, P1, A1, B1, S1, k),
         IsTurned(l, m, top, P, B, A, top1, P1, B1, A1),
         NEW top2, NEW P2, NEW A2, NEW B2,
         IsTurned(n, m, top1, P1, A1, B1, top2, P2, A2, B2),
         NEW H0, Settled(D, n, A, B, H0), HeightAt(H0, A[n]) - HeightAt(H0, B[n]) > 1,
         HeightAt(H0, A[l]) < HeightAt(H0, B[l]),
         NEW H \in [D -> Nat], \A x \in D \ {n} : H0[x] = H[x],
         NEW H1, H1 = TurnedHeights(l, m, B, A, H),
         NEW H2, H2 = TurnedHeights(n, m, A1, B1, H1)
  PROVE  Settled(D, P[n], A2, B2, H2) /\ P1[n] = P[n]
<1> DEFINE mirror == Mirror(k)
<1>1. IsTree(D, top, P, B, A, S, mirror)
  BY MirrorIsTree
<1> HIDE DEF mirror
<1>2. m = B[l] /\ m = A1[n]
  BY Zenon DEF IsTurned
<1>3. /\ l # n /\ H0 \in [D -> Nat]
      /\ HeightAt(H0, B[n]) \in Nat /\ HeightAt(H0, A[l]) \in Nat /\ HeightAt(H0, B[l]) \in Nat
      /\ H0[l] = HeightAt(H0, B[n]) + 2 /\ Even(A, B, H0, l)
      /\ H0[n] - HeightAt(H0, B[n]) \in {2, 3}
      /\ A[l] # n /\ B[l] # n /\ B[n] # n
  BY Leaning
<1>4. /\ Nil \notin D /\ DOMAIN P = D /\ DOMAIN A = D /\ DOMAIN B = D
      /\ \A x \in D : /\ A[x] # Nil => A[x] \in D /\ P[A[x]] = x
                      /\ B[x] # Nil => B[x] \in D /\ P[B[x]] = x
      /\ \A x \in D : A[x] # x /\ B[x] # x /\ (A[x] # Nil => A[x] # B[x])
  <2>1. /\ Nil \notin D /\ P \in [D -> D \union {Nil}]
        /\ A \in [D -> D \union {Nil}] /\ B \in [D -> D \union {Nil}]
        /\ \A x \in D : /\ A[x] # Nil => A[x] \in D /\ P[A[x]] = x
                        /\ B[x] # Nil => B[x] \in D /\ P[B[x]] = x
    BY LinksOfTree
  <2>2. \A x \in D : A[x] # x /\ B[x] # x /\ (A[x] # Nil => A[x] # B[x])
    BY NodesAround
  <2> QED BY <2>1, <2>2
<1>5. P[l] = n /\ P[m] = l /\ n # Nil /\ l # Nil /\ m # Nil /\ m # n /\ m # l
  <2>1. n # Nil /\ l # Nil /\ m # Nil
    BY <1>4
  <2>2. P[l] = n
    BY <1>4, <2>1
  <2>3. P[m] = l /\ m # l /\ m # n
    BY <1>2, <1>3, <1>4, <2>1
  <2> QED BY <2>1, <2>2, <2>3
<1>6. /\ H1 \in [D -> Nat] /\ \A x \in D \ {l, m} : H1[x] = H[x]
      /\ \A x \in D : HeightAt(H, B[x]) \in Nat /\ HeightAt(H, A[x]) \in Nat
      /\ HeightAt(H1, B1[l]) = HeightAt(H, A[m]) /\ HeightAt(H1, A1[l]) = HeightAt(H, A[l])
      /\ H1[l] = 1 + Taller(HeightAt(H, A[m]), HeightAt(H, A[l]))
      /\ HeightAt(H1, B1[m]) = HeightAt(H, B[m]) /\ HeightAt(H1, A1[m]) = H1[l]
      /\ H1[m] = 1 + Taller(HeightAt(H, B[m]), H1[l]) /\ HeightAt(H1, m) = H1[m]
      /\ \A x \in D \ {l, m, P[l]} : /\ HeightAt(H1, B1[x]) = HeightAt(H, B[x])
                                     /\ HeightAt(H1, A1[x]) = HeightAt(H, A[x])
      /\ P[l] # Nil =>
           /\ P[l] \in D \ {l, m}
           /\ \/ /\ B[P[l]] = l /\ HeightAt(H1, B1[P[l]]) = H1[m]
                 /\ HeightAt(H1, A1[P[l]]) = HeightAt(H, A[P[l]])
              \/ /\ A[P[l]] = l /\ HeightAt(H1, A1[P[l]]) = H1[m]
                 /\ HeightAt(H1, B1[P[l]]) = HeightAt(H, B[P[l]])
  BY <1>1, TurnKeeps
<1>7. HeightAt(H1, B1[n]) = HeightAt(H, B[n])
  <2>1. B[n] # l
    BY <1>4, <1>5
  <2> QED BY <1>5, <1>6, <2>1
<1>8. /\ \A d : (d = Nil \/ d \in D \ {n}) => HeightAt(H, d) = HeightAt(H0, d)
      /\ A[m] # n /\ B[m] # n
  <2>1. P[n] # m
    <3>1. n \notin Sub(S, l) /\ n \in S[n]
      BY NodesAround
    <3>2. m \in S[l] /\ S[m] \subseteq S[l]
      <4>1. \A x \in D : x \in S[x]
        BY NodesAround
      <4>2. \A x \in D : S[x] = {x} \union Sub(S, A[x]) \union Sub(S, B[x])
        BY LinksOfTree
      <4> QED BY <1>2, <1>5, <4>1, <4>2 DEF Sub
    <3>3. S[m] = {m} \union Sub(S, A[m]) \union Sub(S, B[m]) /\ (P[n] = m => A[m] = n \/ B[m] = n)
      BY <1>5, LinksOfTree
    <3> QED BY <1>5, <3>1, <3>2, <3>3 DEF Sub
  <2> QED BY <1>4, <1>5, <2>1 DEF HeightAt
<1> DEFINE a == HeightAt(H, A[l])
           c == HeightAt(H, A[m])
           d == HeightAt(H, B[m])
           e == HeightAt(H, B[n])
<1>9. /\ a = HeightAt(H0, A[l]) /\ c = HeightAt(H0, A[m]) /\ d = HeightAt(H0, B[m])
      /\ e = HeightAt(H0, B[n])
  BY <1>3, <1>4, <1>8
<1>10. HeightAt(H0, B[l]) = H0[m] /\ Even(A, B, H0, m)
  BY <1>2, <1>5 DEF HeightAt, Settled
<1>11. /\ a \in Nat /\ c \in Nat /\ d \in Nat /\ e \in Nat
       /\ a < H0[m] /\ H0[m] = 1 + Taller(c, d) /\ c - d \in -1 .. 1
       /\ H0[l] = e + 2 /\ H0[n] - e \in {2, 3} /\ H0[n] \in Nat
       /\ H0[l] = 1 + Taller(a, H0[m]) /\ a - H0[m] \in -1 .. 1 /\ H0[m] \in Nat
  BY <1>3, <1>6, <1>9, <1>10 DEF Even
<1> DEFINE H01 == [H1 EXCEPT ![n] = H0[n]]
<1>12. /\ H01 \in [D -> Nat] /\ \A x \in D \ {n} : H01[x] = H1[x]
       /\ H01[n] = H0[n] /\ \A x \in D \ {l, m} : H01[x] = H0[x]
  BY <1>3, <1>5, <1>6
<1> HIDE DEF a, c, d, e, H01
<1>13. e = a /\ (d = a \/ d = a - 1) /\ (c = a \/ c = a - 1) /\ (H0[n] = a + 2 \/ H0[n] = a + 3)
  BY <1>11 DEF Taller
<1>14. H1[l] = a + 1
  BY <1>6, <1>11, <1>13 DEF Taller, a, c
<1>15. /\ d - e \in -1 .. 1 /\ H1[l] - (1 + Taller(d, e)) \in -1 .. 1
       /\ 1 + Taller(H1[l], 1 + Taller(d, e)) - H01[n] \in -1 .. 1
  <2>1. /\ a \in Nat /\ d \in Nat /\ e = a /\ (d = a \/ d = a - 1) /\ H1[l] = a + 1
        /\ H01[n] = a + 2 \/ H01[n] = a + 3
    BY <1>5, <1>11, <1>12, <1>13, <1>14
  <2>2. Taller(d, e) = a
    BY <2>1 DEF Taller
  <2>3. Taller(H1[l], 1 + a) = a + 1
    BY <2>1 DEF Taller
  <2> QED BY <2>1, <2>2, <2>3
<1>16. Even(A1, B1, H01, l)
  <2>1. /\ B1[l] = A[m] /\ A1[l] = A[l]
    BY <1>4, <1>5 DEF IsTurned
  <2>2. A[m] # n /\ A[l] # n
    BY <1>3, <1>8
  <2>3. /\ A[m] # Nil => A[m] \in D
        /\ A[l] # Nil => A[l] \in D
    BY <1>4
  <2>4. HeightAt(H01, B1[l]) = HeightAt(H1, B1[l]) /\ HeightAt(H01, A1[l]) = HeightAt(H1, A1[l])
    BY <1>12, <2>1, <2>2, <2>3 DEF HeightAt
  <2>5. HeightAt(H01, B1[l]) = c /\ HeightAt(H01, A1[l]) = a /\ H01[l] = a + 1
    BY <1>3, <1>6, <1>12, <1>14, <2>4 DEF a, c
  <2>6. a \in Nat /\ c \in Nat /\ (c = a \/ c = a - 1)
    BY <1>11, <1>13
  <2> QED BY <2>5, <2>6, SMTT(20) DEF Even, Taller
<1>17. ASSUME NEW x \in D \ {n, m, l} PROVE Even(A1, B1, H01, x)
  <2>1. A[x] # l /\ B[x] # l /\ A[x] # m /\ B[x] # m
    <3>1. /\ A[x] # Nil => P[A[x]] = x
          /\ B[x] # Nil => P[B[x]] = x
      BY LinksOfTree
    <3> QED BY <1>5, <3>1
  <2>2. A1[x] = A[x] /\ B1[x] = B[x]
    BY <1>4, <2>1, Zenon DEF IsTurned
  <2>3. HeightAt(H01, A1[x]) = HeightAt(H0, A[x]) /\ HeightAt(H01, B1[x]) = HeightAt(H0, B[x])
    BY <1>4, <1>12, <2>1, <2>2 DEF HeightAt
  <2>4. H01[x] = H0[x] /\ Even(A, B, H0, x)
    BY <1>12 DEF Settled
  <2> QED BY <2>3, <2>4 DEF Even
<1>18. \A x \in D \ {n, m} : Even(A1, B1, H01, x)
  BY <1>16, <1>17
<1>19. /\ H1[l] = HeightAt(H1, A1[m]) /\ d = HeightAt(H1, B1[m]) /\ e = HeightAt(H1, B1[n])
       /\ H01 \in [D -> Nat] /\ H1 \in [D -> Nat] /\ \A x \in D \ {n} : H01[x] = H1[x]
  <2>1. H1[l] = HeightAt(H1, A1[m]) /\ d = HeightAt(H1, B1[m])
    BY <1>6 DEF d
  <2>2. e = HeightAt(H1, B1[n])
    BY <1>7 DEF e
  <2>3. H01 \in [D -> Nat] /\ H1 \in [D -> Nat] /\ \A x \in D \ {n} : H01[x] = H1[x]
    BY <1>6, <1>12
  <2> QED BY <2>1, <2>2, <2>3
<1>20. P1[n] = P[n]
  <2>1. P1 = [x \in DOMAIN P |-> IF x = l THEN m ELSE IF x = m THEN P[l]
                                 ELSE IF x = A[m] THEN l ELSE P[x]]
    BY Zenon DEF IsTurned
  <2> QED BY <1>3, <1>4, <1>5, <1>8, <2>1
<1>21. Settled(D, P1[n], A2, B2, H2)
  BY <1>15, <1>18, <1>19, TurnSettles
<1> QED BY <1>20, <1>21

\* The next node after n, with no node below its own A link, takes the place of n,
\* and what is below its B link takes its own.
IsSucceeded(n, s, top, P, A, B, D2, top2, P2, A2, B2) ==
  /\ D2 = (DOMAIN P) \ {n}
  /\ top2 = IF top = n THEN s ELSE top
  /\ P2 = [x \in D2 |-> IF x = s THEN P[n]
                        ELSE IF x = B[s] THEN (IF P[s] = n THEN s ELSE P[s])
                        ELSE IF P[x] = n THEN s ELSE P[x]]
  /\ A2 = [x \in D2 |-> IF x = s THEN A[n]
                        ELSE IF A[x] = s THEN B[s] ELSE IF A[x] = n THEN s ELSE A[x]]
  /\ B2 = [x \in D2 |-> IF x = s THEN (IF B[n] = s THEN B[s] ELSE B[n])
                        ELSE IF B[x] = s THEN B[s] ELSE IF B[x] = n THEN s ELSE B[x]]

LEMMA SucceedIsTree ==
  ASSUME NEW D, NEW top, NEW P, NEW A, NEW B, NEW S, NEW k, IsTree(D, top, P, A, B, S, k),
         NEW n \in D, NEW s, A[n] # Nil, B[n] # Nil, s \in Sub(S, B[n]), A[s] = Nil,
         \A y \in Sub(S, B[n]) \ S[s] : k[s] < k[y],
         NEW D2, NEW top2, NEW P2, NEW A2, NEW B2,
         IsSucceeded(n, s, top, P, A, B, D2, top2, P2, A2, B2),
         NEW H, Settled(D, Nil, A, B, H)
  PROVE  /\ \E S2 : IsTree(D2, top2, P2, A2, B2, S2, k)
         /\ Settled(D2, IF P[s] = n THEN s ELSE P[s], A2, B2,
                    [x \in D2 |-> IF x = s THEN H[n] ELSE H[x]])
         /\ s \in D /\ s # n /\ B[s] # n /\ B[s] # s /\ P[s] \in D /\ P[s] # B[s]
         /\ A[n] # s /\ B[s] \in D \union {Nil} /\ P[n] # s /\ A[n] # B[s]
         /\ s # B[n] => A[P[s]] = s
<1> DEFINE c == B[s]
           D1 == D \ {s}
           P1 == [x \in D1 |-> IF x = c THEN P[s] ELSE P[x]]
           A1 == [x \in D1 |-> IF A[x] = s THEN c ELSE A[x]]
           B1 == [x \in D1 |-> IF B[x] = s THEN c ELSE B[x]]
           S1 == [x \in D1 |-> S[x] \ {s}]
<1>1. /\ D \subseteq Nat \ {0} /\ Nil \notin D /\ k \in [Nat -> Int] /\ S \in [D -> SUBSET D]
      /\ P \in [D -> D \union {Nil}] /\ DOMAIN P = D
      /\ A \in [D -> D \union {Nil}] /\ B \in [D -> D \union {Nil}]
      /\ \A x \in D : /\ P[x] = Nil <=> x = top
                      /\ P[x] # Nil => P[x] \in D /\ (A[P[x]] = x \/ B[P[x]] = x)
                      /\ A[x] # Nil => A[x] \in D /\ P[A[x]] = x
                      /\ B[x] # Nil => B[x] \in D /\ P[B[x]] = x
                      /\ S[x] = {x} \union Sub(S, A[x]) \union Sub(S, B[x])
                      /\ \A y \in Sub(S, A[x]) : k[y] < k[x]
                      /\ \A y \in Sub(S, B[x]) : k[x] < k[y]
      /\ \A x \in D : k[x] \in Int
  BY LinksOfTree
<1>2. /\ Sub(S, A[n]) \intersect Sub(S, B[n]) = {} /\ n \notin Sub(S, A[n]) /\ n \notin Sub(S, B[n])
      /\ A[n] \in Sub(S, A[n]) /\ B[n] \in Sub(S, B[n]) /\ Sub(S, B[n]) \subseteq D /\ n \in S[n]
  BY NodesAround
<1>3. s \in D /\ s # n /\ s \notin Sub(S, A[n]) /\ A[n] # s /\ s \in S[n]
  BY <1>1, <1>2
<1>4. /\ S[s] \subseteq Sub(S, B[n]) /\ s \in S[s]
      /\ P[s] \in S[n] /\ (s # B[n] => P[s] \in Sub(S, B[n]))
  <2>1. Sub(S, B[n]) = S[B[n]] /\ B[n] \in D
    BY <1>1 DEF Sub
  <2>2. S[s] \subseteq S[B[n]] /\ (s # B[n] => P[s] \in S[B[n]]) /\ P[s] \in S[n]
    BY <1>3, <2>1, BelowIsBelow
  <2>3. s \in S[s]
    BY <1>3, NodesAround
  <2> QED BY <2>1, <2>2, <2>3
<1>5. /\ c = Nil \/ (c \in Sub(S, B[n]) /\ c \in D /\ P[c] = s)
      /\ c # n /\ c # s /\ c # A[n]
  <2>1. c # Nil => c \in S[s] /\ c \in D /\ P[c] = s
    <3>1. c # Nil => c \in Sub(S, c)
      BY <1>3, NodesAround
    <3> QED BY <1>1, <1>3, <3>1
  <2>2. n # Nil /\ s # Nil
    BY <1>1, <1>3
  <2>3. c # s
    BY <1>3, NodesAround
  <2> QED BY <1>2, <1>4, <2>1, <2>2, <2>3
<1>6. P[s] \in D /\ P[s] # c /\ P[s] # s /\ P[n] # s
  <2>1. P[s] \in D /\ P[s] # s
    BY <1>1, <1>3, <1>4, NodesAround
  <2>2. P[n] # s
    <3>1. P[n] = s => A[s] = n \/ B[s] = n
      BY <1>1, <1>3
    <3> QED BY <1>1, <1>5, <3>1
  <2>3. P[s] # c
    <3>1. ASSUME P[s] = c PROVE FALSE
      <4>1. c \in D /\ P[c] = s /\ (A[c] = s \/ B[c] = s)
        BY <1>1, <1>3, <1>5, <2>1, <3>1
      <4>2. k[c] \in Int /\ k[s] \in Int /\ c \in Sub(S, c) /\ s \in Sub(S, s)
        BY <1>1, <1>3, <4>1, NodesAround DEF Sub
      <4>3. S[s] \subseteq S[c] /\ s \notin S[c]
        <5>1. s \notin Sub(S, c)
          BY <1>3, NodesAround
        <5>2. S[s] \subseteq S[c]
          <6>1. S[s] = Sub(S, A[c]) \/ S[s] = Sub(S, B[c])
            BY <1>1, <1>3, <4>1 DEF Sub
          <6>2. S[c] = {c} \union Sub(S, A[c]) \union Sub(S, B[c])
            BY <1>1, <4>1
          <6> QED BY <6>1, <6>2
        <5>3. Sub(S, c) = S[c]
          BY <1>1, <4>1 DEF Sub
        <5> QED BY <1>4, <5>1, <5>2, <5>3
      <4> QED BY <1>4, <4>3
    <3> QED BY <3>1
  <2> QED BY <2>1, <2>2, <2>3
<1>7. s # B[n] => A[P[s]] = s
  <2> SUFFICES ASSUME s # B[n] PROVE A[P[s]] = s
    OBVIOUS
  <2>1. P[s] \in Sub(S, B[n]) /\ P[s] \notin S[s]
    <3>1. A[P[s]] = s \/ B[P[s]] = s
      BY <1>1, <1>3, <1>6
    <3>2. P[s] \notin Sub(S, A[P[s]]) /\ P[s] \notin Sub(S, B[P[s]])
      BY <1>6, NodesAround
    <3>3. s # Nil
      BY <1>1, <1>3
    <3> QED BY <1>4, <3>1, <3>2, <3>3 DEF Sub
  <2>2. k[s] < k[P[s]] /\ k[s] \in Int /\ k[P[s]] \in Int
    BY <1>1, <1>3, <1>6, <2>1
  <2>3. B[P[s]] # s
    <3>1. s \in Sub(S, s)
      BY <1>1, <1>3, <1>4 DEF Sub
    <3>2. \A y \in Sub(S, B[P[s]]) : k[P[s]] < k[y]
      BY <1>1, <1>6
    <3> QED BY <2>2, <3>1, <3>2
  <2> QED BY <1>1, <1>3, <1>6, <2>3
<1> DEFINE H1 == [x \in D1 |-> H[x]]
<1>8. IsTree(D1, top, P1, A1, B1, S1, k) /\ Settled(D1, P[s], A1, B1, H1)
  <2>1. IsCut(s, c, D, top, P, A, B, D1, top, P1, A1, B1)
    BY <1>1, <1>6 DEF IsCut
  <2>2. S1 = [x \in D1 |-> S[x] \ {s}] /\ c = B[s] /\ H1 = [x \in D1 |-> H[x]]
    OBVIOUS
  <2> HIDE DEF D1, P1, A1, B1, c, S1, H1
  <2>3. IsTree(D1, top, P1, A1, B1, S1, k)
    BY <1>3, <2>1, <2>2, CutIsTree
  <2>4. Settled(D1, P[s], A1, B1, H1)
    BY <1>3, <2>1, <2>2, CutSettles
  <2> QED BY <2>3, <2>4
<1>9. SamePlace(n, s, D1, k)
  <2> SUFFICES ASSUME NEW y \in D, y # s, y # n
               PROVE  k[s] # k[y] /\ (k[y] < k[n] <=> k[y] < k[s])
    BY DEF SamePlace
  <2>1. k[n] < k[s] /\ k[n] \in Int /\ k[s] \in Int /\ k[y] \in Int
    BY <1>1, <1>3
  <2>2. CASE y \notin S[n]
    BY <1>2, <1>3, <2>1, <2>2, NothingBetween
  <2>3. CASE y \in Sub(S, A[n])
    BY <1>1, <2>1, <2>3
  <2>4. CASE y \in Sub(S, B[n])
    <3>1. k[n] < k[y]
      BY <1>1, <2>4
    <3>2. k[s] < k[y]
      <4>1. CASE y \notin S[s]
        BY <2>4, <4>1
      <4>2. CASE y \in S[s]
        BY <1>1, <1>3, <4>2 DEF Sub
      <4> QED BY <4>1, <4>2
    <3> QED BY <2>1, <3>1, <3>2
  <2> QED BY <1>1, <2>2, <2>3, <2>4
<1>10. IsRenamed(n, s, D1, top, P1, A1, B1, D2, top2, P2, A2, B2)
  <2>1. n \in D1 /\ D2 = D \ {n} /\ D2 = (D1 \ {n}) \union {s}
    BY <1>1, <1>3 DEF IsSucceeded
  <2>2. /\ \A x \in D1 : /\ P1[x] = IF x = c THEN P[s] ELSE P[x]
                         /\ A1[x] = IF A[x] = s THEN c ELSE A[x]
                         /\ B1[x] = IF B[x] = s THEN c ELSE B[x]
    OBVIOUS
  <2>3. P1[n] = P[n] /\ A1[n] = A[n] /\ B1[n] = IF B[n] = s THEN c ELSE B[n]
    BY <1>3, <1>5, <2>1, <2>2
  <2>4. \A x \in D2 : x = s \/ x \in D1
    BY <2>1
  <2>5. /\ top2 = IF top = n THEN s ELSE top
        /\ P2 = [x \in D2 |-> IF x = s THEN P[n]
                        ELSE IF x = c THEN (IF P[s] = n THEN s ELSE P[s])
                        ELSE IF P[x] = n THEN s ELSE P[x]]
        /\ A2 = [x \in D2 |-> IF x = s THEN A[n]
                        ELSE IF A[x] = s THEN c ELSE IF A[x] = n THEN s ELSE A[x]]
        /\ B2 = [x \in D2 |-> IF x = s THEN (IF B[n] = s THEN c ELSE B[n])
                        ELSE IF B[x] = s THEN c ELSE IF B[x] = n THEN s ELSE B[x]]
    BY DEF IsSucceeded
  <2> HIDE DEF P1, A1, B1, D1, c
  <2>6. \A x \in D2 :
          /\ (IF x = s THEN P1[n] ELSE IF P1[x] = n THEN s ELSE P1[x])
             = (IF x = s THEN P[n] ELSE IF x = c THEN (IF P[s] = n THEN s ELSE P[s])
                ELSE IF P[x] = n THEN s ELSE P[x])
          /\ (IF x = s THEN A1[n] ELSE IF A1[x] = n THEN s ELSE A1[x])
             = (IF x = s THEN A[n] ELSE IF A[x] = s THEN c ELSE IF A[x] = n THEN s ELSE A[x])
          /\ (IF x = s THEN B1[n] ELSE IF B1[x] = n THEN s ELSE B1[x])
             = (IF x = s THEN (IF B[n] = s THEN c ELSE B[n])
                ELSE IF B[x] = s THEN c ELSE IF B[x] = n THEN s ELSE B[x])
    BY <1>5, <2>2, <2>3, <2>4 DEF c
  <2> QED BY <2>1, <2>5, <2>6 DEF IsRenamed
<1>11. n \in D1 /\ s \in Nat \ {0} /\ s \notin D1
  BY <1>1, <1>3
<1>13. H1[n] = H[n] /\ \A x \in D1 : H1[x] = H[x]
  BY <1>11
<1>14. D2 \subseteq D1 \union {s} /\ P[s] \in D1 \union {Nil}
  <2>1. D2 = D \ {n}
    BY <1>1 DEF IsSucceeded
  <2> QED BY <1>6, <2>1
<1> HIDE DEF D1, P1, A1, B1, S1, H1
<1>12. \E S2 : IsTree(D2, top2, P2, A2, B2, S2, k)
  BY <1>8, <1>9, <1>10, <1>11, RenameIsTree
<1>15. Settled(D2, IF P[s] = n THEN s ELSE P[s], A2, B2,
                [x \in D2 |-> IF x = s THEN H[n] ELSE H[x]])
  <2>1. Settled(D2, IF P[s] = n THEN s ELSE P[s], A2, B2,
                [x \in D2 |-> IF x = s THEN H1[n] ELSE H1[x]])
    BY <1>8, <1>10, <1>11, <1>14, RenameSettles
  <2>2. [x \in D2 |-> IF x = s THEN H1[n] ELSE H1[x]] = [x \in D2 |-> IF x = s THEN H[n] ELSE H[x]]
    BY <1>13, <1>14
  <2> QED BY <2>1, <2>2
<1> QED BY <1>1, <1>3, <1>5, <1>6, <1>7, <1>12, <1>15
-----------------------------------------------------------------------------
(* The records of the levels *)

LevelRecord == [parent : Nat, left_child : Nat, right_child : Nat, height : Nat]

Par(t) == [x \in DOMAIN t |-> t[x].parent]
Lft(t) == [x \in DOMAIN t |-> t[x].left_child]
Rgt(t) == [x \in DOMAIN t |-> t[x].right_child]
Hgt(t) == [x \in DOMAIN t |-> t[x].height]

\* The records of t, field by field.
FieldsAre(t, D, P, A, B, H) ==
  /\ t \in [D -> LevelRecord]
  /\ P = Par(t) /\ A = Lft(t) /\ B = Rgt(t) /\ H = Hgt(t)

LEMMA FieldsOf ==
  ASSUME NEW t, NEW D, NEW P, NEW A, NEW B, NEW H, FieldsAre(t, D, P, A, B, H)
  PROVE  /\ DOMAIN t = D /\ t \in [D -> LevelRecord]
         /\ P \in [D -> Nat] /\ A \in [D -> Nat] /\ B \in [D -> Nat] /\ H \in [D -> Nat]
         /\ \A x \in D : /\ t[x].parent = P[x] /\ t[x].left_child = A[x]
                         /\ t[x].right_child = B[x] /\ t[x].height = H[x]
         /\ \A x \in D \union {Nil} : height(t, x) = HeightAt(H, x)
<1>1. t \in [D -> LevelRecord] /\ DOMAIN t = D
  BY DEF FieldsAre
<1>2. /\ P = [x \in D |-> t[x].parent] /\ A = [x \in D |-> t[x].left_child]
      /\ B = [x \in D |-> t[x].right_child] /\ H = [x \in D |-> t[x].height]
  BY <1>1 DEF FieldsAre, Par, Lft, Rgt, Hgt
<1>3. \A x \in D : /\ t[x].parent \in Nat /\ t[x].left_child \in Nat
                   /\ t[x].right_child \in Nat /\ t[x].height \in Nat
  BY <1>1 DEF LevelRecord
<1>4. \A x \in D \union {Nil} : height(t, x) = HeightAt(H, x)
  BY <1>2 DEF height, HeightAt
<1> QED BY <1>1, <1>2, <1>3, <1>4

LEMMA SetParent ==
  ASSUME NEW t, NEW D, NEW P, NEW A, NEW B, NEW H, FieldsAre(t, D, P, A, B, H),
         NEW n \in D, NEW v \in Nat
  PROVE  FieldsAre([t EXCEPT ![n].parent = v], D, [P EXCEPT ![n] = v], A, B, H)
<1> DEFINE u == [t EXCEPT ![n].parent = v]
<1>1. t \in [D -> LevelRecord]
  BY DEF FieldsAre
<1>2. u \in [D -> LevelRecord] /\ DOMAIN u = D /\ DOMAIN t = D
  BY <1>1 DEF LevelRecord
<1>3. \A x \in D : /\ u[x].parent = IF x = n THEN v ELSE t[x].parent
                   /\ u[x].left_child = t[x].left_child /\ u[x].right_child = t[x].right_child
                   /\ u[x].height = t[x].height
  BY <1>1 DEF LevelRecord
<1> HIDE DEF u
<1>4. /\ Par(u) = [Par(t) EXCEPT ![n] = v] /\ Lft(u) = Lft(t) /\ Rgt(u) = Rgt(t) /\ Hgt(u) = Hgt(t)
  BY <1>2, <1>3 DEF Par, Lft, Rgt, Hgt
<1>5. FieldsAre(u, D, [P EXCEPT ![n] = v], A, B, H)
  BY <1>2, <1>4 DEF FieldsAre
<1> QED BY <1>5 DEF u

LEMMA SetLeft ==
  ASSUME NEW t, NEW D, NEW P, NEW A, NEW B, NEW H, FieldsAre(t, D, P, A, B, H),
         NEW n \in D, NEW v \in Nat
  PROVE  FieldsAre([t EXCEPT ![n].left_child = v], D, P, [A EXCEPT ![n] = v], B, H)
<1> DEFINE u == [t EXCEPT ![n].left_child = v]
<1>1. t \in [D -> LevelRecord]
  BY DEF FieldsAre
<1>2. u \in [D -> LevelRecord] /\ DOMAIN u = D /\ DOMAIN t = D
  BY <1>1 DEF LevelRecord
<1>3. \A x \in D : /\ u[x].parent = t[x].parent
                   /\ u[x].left_child = IF x = n THEN v ELSE t[x].left_child
                   /\ u[x].right_child = t[x].right_child
                   /\ u[x].height = t[x].height
  BY <1>1 DEF LevelRecord
<1> HIDE DEF u
<1>4. /\ Par(u) = Par(t) /\ Lft(u) = [Lft(t) EXCEPT ![n] = v] /\ Rgt(u) = Rgt(t) /\ Hgt(u) = Hgt(t)
  BY <1>2, <1>3 DEF Par, Lft, Rgt, Hgt
<1>5. FieldsAre(u, D, P, [A EXCEPT ![n] = v], B, H)
  BY <1>2, <1>4 DEF FieldsAre
<1> QED BY <1>5 DEF u

LEMMA SetRight ==
  ASSUME NEW t, NEW D, NEW P, NEW A, NEW B, NEW H, FieldsAre(t, D, P, A, B, H),
         NEW n \in D, NEW v \in Nat
  PROVE  FieldsAre([t EXCEPT ![n].right_child = v], D, P, A, [B EXCEPT ![n] = v], H)
<1> DEFINE u == [t EXCEPT ![n].right_child = v]
<1>1. t \in [D -> LevelRecord]
  BY DEF FieldsAre
<1>2. u \in [D -> LevelRecord] /\ DOMAIN u = D /\ DOMAIN t = D
  BY <1>1 DEF LevelRecord
<1>3. \A x \in D : /\ u[x].parent = t[x].parent
                   /\ u[x].left_child = t[x].left_child
                   /\ u[x].right_child = IF x = n THEN v ELSE t[x].right_child
                   /\ u[x].height = t[x].height
  BY <1>1 DEF LevelRecord
<1> HIDE DEF u
<1>4. /\ Par(u) = Par(t) /\ Lft(u) = Lft(t) /\ Rgt(u) = [Rgt(t) EXCEPT ![n] = v] /\ Hgt(u) = Hgt(t)
  BY <1>2, <1>3 DEF Par, Lft, Rgt, Hgt
<1>5. FieldsAre(u, D, P, A, [B EXCEPT ![n] = v], H)
  BY <1>2, <1>4 DEF FieldsAre
<1> QED BY <1>5 DEF u

LEMMA SetHeight ==
  ASSUME NEW t, NEW D, NEW P, NEW A, NEW B, NEW H, FieldsAre(t, D, P, A, B, H),
         NEW n \in D, NEW v \in Nat
  PROVE  FieldsAre([t EXCEPT ![n].height = v], D, P, A, B, [H EXCEPT ![n] = v])
<1> DEFINE u == [t EXCEPT ![n].height = v]
<1>1. t \in [D -> LevelRecord]
  BY DEF FieldsAre
<1>2. u \in [D -> LevelRecord] /\ DOMAIN u = D /\ DOMAIN t = D
  BY <1>1 DEF LevelRecord
<1>3. \A x \in D : /\ u[x].parent = t[x].parent
                   /\ u[x].left_child = t[x].left_child
                   /\ u[x].right_child = t[x].right_child
                   /\ u[x].height = IF x = n THEN v ELSE t[x].height
  BY <1>1 DEF LevelRecord
<1> HIDE DEF u
<1>4. /\ Par(u) = Par(t) /\ Lft(u) = Lft(t) /\ Rgt(u) = Rgt(t) /\ Hgt(u) = [Hgt(t) EXCEPT ![n] = v]
  BY <1>2, <1>3 DEF Par, Lft, Rgt, Hgt
<1>5. FieldsAre(u, D, P, A, B, [H EXCEPT ![n] = v])
  BY <1>2, <1>4 DEF FieldsAre
<1> QED BY <1>5 DEF u

LEMMA HangFields ==
  ASSUME NEW t, NEW D, NEW P, NEW A, NEW B, NEW H, FieldsAre(t, D, P, A, B, H),
         NEW m \in D \union {Nil}, NEW n \in Nat
  PROVE  FieldsAre(Hang(t, m, n), D, IF m = Nil THEN P ELSE [P EXCEPT ![m] = n], A, B, H)
<1>1. CASE m = Nil
  BY <1>1 DEF Hang
<1>2. CASE m # Nil
  BY <1>2, SetParent DEF Hang
<1> QED BY <1>1, <1>2

LEMMA UpdateFields ==
  ASSUME NEW t, NEW D, NEW P, NEW A, NEW B, NEW H, FieldsAre(t, D, P, A, B, H), NEW n \in D,
         A[n] \in D \union {Nil}, B[n] \in D \union {Nil}
  PROVE  FieldsAre(update_height(t, n), D, P, A, B,
                   [H EXCEPT ![n] = 1 + Taller(HeightAt(H, A[n]), HeightAt(H, B[n]))])
<1> DEFINE v == 1 + Taller(HeightAt(H, A[n]), HeightAt(H, B[n]))
<1>1. /\ t[n].left_child = A[n] /\ t[n].right_child = B[n] /\ H \in [D -> Nat]
      /\ \A x \in D \union {Nil} : height(t, x) = HeightAt(H, x)
  BY FieldsOf
<1>2. TrueHeight(t, n) = v
  BY <1>1 DEF TrueHeight
<1>3. v \in Nat
  <2>1. HeightAt(H, A[n]) \in Nat /\ HeightAt(H, B[n]) \in Nat
    BY <1>1 DEF HeightAt
  <2> QED BY <2>1 DEF Taller
<1>4. update_height(t, n) = [t EXCEPT ![n].height = v]
  BY <1>2 DEF update_height
<1> HIDE DEF v
<1>5. FieldsAre(update_height(t, n), D, P, A, B, [H EXCEPT ![n] = v])
  <2>1. FieldsAre([t EXCEPT ![n].height = v], D, P, A, B, [H EXCEPT ![n] = v])
    BY <1>3, SetHeight
  <2> QED BY <1>4, <2>1
<1> QED BY <1>5 DEF v

LEMMA RelinkFields ==
  ASSUME NEW t, NEW D, NEW P, NEW A, NEW B, NEW H, FieldsAre(t, D, P, A, B, H),
         NEW p \in D \union {Nil}, NEW n, NEW m \in Nat
  PROVE  FieldsAre(Relink(t, p, n, m), D, P,
                   IF p # Nil /\ A[p] = n THEN [A EXCEPT ![p] = m] ELSE A,
                   IF p # Nil /\ A[p] # n THEN [B EXCEPT ![p] = m] ELSE B, H)
<1>1. CASE p = Nil
  BY <1>1 DEF Relink
<1>2. CASE p # Nil
  <2>1. t[p].left_child = A[p] /\ p \in D
    BY <1>2, FieldsOf
  <2>2. CASE A[p] = n
    <3>1. Relink(t, p, n, m) = [t EXCEPT ![p].left_child = m]
      BY <1>2, <2>1, <2>2 DEF Relink
    <3>2. FieldsAre([t EXCEPT ![p].left_child = m], D, P, [A EXCEPT ![p] = m], B, H)
      BY <2>1, SetLeft
    <3> QED BY <1>2, <2>2, <3>1, <3>2
  <2>3. CASE A[p] # n
    <3>1. Relink(t, p, n, m) = [t EXCEPT ![p].right_child = m]
      BY <1>2, <2>1, <2>3 DEF Relink
    <3>2. FieldsAre([t EXCEPT ![p].right_child = m], D, P, A, [B EXCEPT ![p] = m], H)
      BY <2>1, SetRight
    <3> QED BY <1>2, <2>3, <3>1, <3>2
  <2> QED BY <2>2, <2>3
<1> QED BY <1>1, <1>2

LEMMA TallerCommutes == \A a, b \in Int : Taller(a, b) = Taller(b, a) /\ Taller(a, b) \in Int
BY DEF Taller

\* Where a node n, its child l, the child m of l on the other side and the parent p
\* of n stand before a rotation.
CanTurn(n, l, m, p, D, P, A, B) ==
  /\ l = A[n] /\ m = B[l] /\ p = P[n]
  /\ m \in D \union {Nil} /\ A[l] \in D \union {Nil}
  /\ p \in D \union {Nil} /\ B[n] \in D \union {Nil}
  /\ Nil \notin D /\ Nil = 0 /\ D \subseteq Nat
  /\ DOMAIN P = D /\ DOMAIN A = D /\ DOMAIN B = D
  /\ n # l /\ m # n /\ m # l /\ A[l] # n /\ A[l] # l /\ B[n] # n /\ B[n] # l
  /\ p # l /\ p # n
  /\ \A x \in D : (A[x] = n \/ B[x] = n) => x = p
  /\ p # Nil => (A[p] = n \/ B[p] = n) /\ (A[p] = n => B[p] # n)

\* rotate_right of n, and the link of the parent: a rotation to the side of the right
\* children.
RightTurned(t, n) ==
  LET l == t[n].left_child
      p == t[n].parent
  IN  [Relink(rotate_right(t, n), p, n, l) EXCEPT ![l].parent = p]

LEMMA RotateRightFields ==
  ASSUME NEW t, NEW D, NEW P, NEW A, NEW B, NEW H, FieldsAre(t, D, P, A, B, H),
         NEW n \in D, NEW l \in D, NEW m, NEW p, CanTurn(n, l, m, p, D, P, A, B)
  PROVE  FieldsAre(rotate_right(t, n), D,
                   [x \in D |-> IF x = n THEN l ELSE IF x = l THEN p ELSE IF x = m THEN n ELSE P[x]],
                   [A EXCEPT ![n] = m], [B EXCEPT ![l] = n], TurnedHeights(n, l, A, B, H))
<1>0. /\ l = A[n] /\ m = B[l] /\ p = P[n]
      /\ m \in D \union {Nil} /\ A[l] \in D \union {Nil}
      /\ p \in D \union {Nil} /\ B[n] \in D \union {Nil}
      /\ Nil \notin D /\ Nil = 0 /\ D \subseteq Nat
      /\ n # l /\ m # n /\ m # l /\ A[l] # n /\ A[l] # l /\ B[n] # n /\ B[n] # l
  BY DEF CanTurn
<1>00. l \in Nat /\ n \in Nat /\ p \in Nat /\ m \in Nat
  BY <1>0
<1> USE <1>0, <1>00
<1>1. /\ t[n].left_child = l /\ t[l].right_child = m /\ t[n].parent = p
      /\ P \in [D -> Nat] /\ A \in [D -> Nat] /\ B \in [D -> Nat] /\ H \in [D -> Nat]
  <2>1. /\ \A x \in D : /\ t[x].parent = P[x] /\ t[x].left_child = A[x]
                        /\ t[x].right_child = B[x]
        /\ P \in [D -> Nat] /\ A \in [D -> Nat] /\ B \in [D -> Nat] /\ H \in [D -> Nat]
    BY FieldsOf
  <2> QED BY <2>1
<1> DEFINE t1 == Hang(t, m, n)
           P1 == IF m = Nil THEN P ELSE [P EXCEPT ![m] = n]
           t2 == [t1 EXCEPT ![n].left_child = m]
           A2 == [A EXCEPT ![n] = m]
           t3 == [t2 EXCEPT ![n].parent = l]
           P3 == [P1 EXCEPT ![n] = l]
           t4 == [t3 EXCEPT ![l].right_child = n]
           B4 == [B EXCEPT ![l] = n]
           t5 == [t4 EXCEPT ![l].parent = p]
           P5 == [P3 EXCEPT ![l] = p]
           t6 == update_height(t5, n)
           H6 == [H EXCEPT ![n] = 1 + Taller(HeightAt(H, A2[n]), HeightAt(H, B4[n]))]
           t7 == update_height(t6, l)
           H7 == [H6 EXCEPT ![l] = 1 + Taller(HeightAt(H6, A2[l]), HeightAt(H6, B4[l]))]
<1>2. rotate_right(t, n) = t7
  BY <1>1 DEF rotate_right
<1>3. /\ P5 = [x \in D |-> IF x = n THEN l ELSE IF x = l THEN p ELSE IF x = m THEN n ELSE P[x]]
  BY <1>1
<1>4. /\ A2[n] = m /\ A2[l] = A[l] /\ B4[n] = B[n] /\ B4[l] = n
  BY <1>1
<1>5. H7 = TurnedHeights(n, l, A, B, H)
  <2>1. H6[n] = 1 + Taller(HeightAt(H, B[l]), HeightAt(H, B[n])) /\ DOMAIN H6 = D /\ DOMAIN H = D
    BY <1>1, <1>4
  <2>2. HeightAt(H6, A2[l]) = HeightAt(H, A[l]) /\ HeightAt(H6, B4[l]) = H6[n]
    BY <1>1, <1>4 DEF HeightAt
  <2>3. H7[l] = 1 + Taller(HeightAt(H, A[l]), H6[n]) /\ H7[n] = H6[n] /\ DOMAIN H7 = D
    BY <2>1, <2>2
  <2>4. \A x \in D \ {n, l} : H7[x] = H[x]
    BY <1>1
  <2>5. H7 = [x \in D |-> H7[x]]
    BY <1>1, <2>3
  <2> HIDE DEF H7, H6
  <2> QED BY <2>1, <2>3, <2>4, <2>5 DEF TurnedHeights
<1>6. FieldsAre(t1, D, P1, A, B, H)
  BY HangFields
<1> HIDE DEF t1, P1
<1>7. FieldsAre(t2, D, P1, A2, B, H)
  BY <1>6, SetLeft
<1> HIDE DEF t2, A2
<1>8. FieldsAre(t3, D, P3, A2, B, H)
  BY <1>7, SetParent
<1> HIDE DEF t3, P3
<1>9. FieldsAre(t4, D, P3, A2, B4, H)
  BY <1>8, SetRight
<1> HIDE DEF t4, B4
<1>10. FieldsAre(t5, D, P5, A2, B4, H)
  BY <1>9, SetParent
<1> HIDE DEF t5, P5
<1>11. FieldsAre(t6, D, P5, A2, B4, H6)
  BY <1>4, <1>10, UpdateFields
<1> HIDE DEF t6, H6
<1>12. FieldsAre(t7, D, P5, A2, B4, H7)
  BY <1>4, <1>11, UpdateFields
<1> HIDE DEF t7, H7
<1> QED BY <1>2, <1>3, <1>5, <1>12 DEF A2, B4

\* rotate_left, the same on the other side.
LeftTurned(t, n) ==
  LET r == t[n].right_child
      p == t[n].parent
  IN  [Relink(rotate_left(t, n), p, n, r) EXCEPT ![r].parent = p]

LEMMA RotateLeftFields ==
  ASSUME NEW t, NEW D, NEW P, NEW A, NEW B, NEW H, FieldsAre(t, D, P, A, B, H),
         NEW n \in D, NEW r \in D, NEW m, NEW p, CanTurn(n, r, m, p, D, P, B, A)
  PROVE  FieldsAre(rotate_left(t, n), D,
                   [x \in D |-> IF x = n THEN r ELSE IF x = r THEN p ELSE IF x = m THEN n ELSE P[x]],
                   [A EXCEPT ![r] = n], [B EXCEPT ![n] = m], TurnedHeights(n, r, B, A, H))
<1>0. /\ r = B[n] /\ m = A[r] /\ p = P[n]
      /\ m \in D \union {Nil} /\ B[r] \in D \union {Nil}
      /\ p \in D \union {Nil} /\ A[n] \in D \union {Nil}
      /\ Nil \notin D /\ Nil = 0 /\ D \subseteq Nat
      /\ n # r /\ m # n /\ m # r /\ B[r] # n /\ B[r] # r /\ A[n] # n /\ A[n] # r
  BY DEF CanTurn
<1>00. r \in Nat /\ n \in Nat /\ p \in Nat /\ m \in Nat
  BY <1>0
<1> USE <1>0, <1>00
<1>1. /\ t[n].right_child = r /\ t[r].left_child = m /\ t[n].parent = p
      /\ P \in [D -> Nat] /\ A \in [D -> Nat] /\ B \in [D -> Nat] /\ H \in [D -> Nat]
  <2>1. /\ \A x \in D : /\ t[x].parent = P[x] /\ t[x].left_child = A[x]
                        /\ t[x].right_child = B[x]
        /\ P \in [D -> Nat] /\ A \in [D -> Nat] /\ B \in [D -> Nat] /\ H \in [D -> Nat]
    BY FieldsOf
  <2> QED BY <2>1
<1> DEFINE t1 == Hang(t, m, n)
           P1 == IF m = Nil THEN P ELSE [P EXCEPT ![m] = n]
           t2 == [t1 EXCEPT ![n].right_child = m]
           B2 == [B EXCEPT ![n] = m]
           t3 == [t2 EXCEPT ![n].parent = r]
           P3 == [P1 EXCEPT ![n] = r]
           t4 == [t3 EXCEPT ![r].left_child = n]
           A4 == [A EXCEPT ![r] = n]
           t5 == [t4 EXCEPT ![r].parent = p]
           P5 == [P3 EXCEPT ![r] = p]
           t6 == update_height(t5, n)
           H6 == [H EXCEPT ![n] = 1 + Taller(HeightAt(H, A4[n]), HeightAt(H, B2[n]))]
           t7 == update_height(t6, r)
           H7 == [H6 EXCEPT ![r] = 1 + Taller(HeightAt(H6, A4[r]), HeightAt(H6, B2[r]))]
<1>2. rotate_left(t, n) = t7
  BY <1>1 DEF rotate_left
<1>3. /\ P5 = [x \in D |-> IF x = n THEN r ELSE IF x = r THEN p ELSE IF x = m THEN n ELSE P[x]]
  BY <1>1
<1>4. /\ B2[n] = m /\ B2[r] = B[r] /\ A4[n] = A[n] /\ A4[r] = n
  BY <1>1
<1>5. H7 = TurnedHeights(n, r, B, A, H)
  <2>1. H6[n] = 1 + Taller(HeightAt(H, A[r]), HeightAt(H, A[n])) /\ DOMAIN H6 = D /\ DOMAIN H = D
    <3>1. HeightAt(H, A[r]) \in Int /\ HeightAt(H, A[n]) \in Int
      BY <1>1 DEF HeightAt
    <3>2. Taller(HeightAt(H, A[n]), HeightAt(H, A[r])) = Taller(HeightAt(H, A[r]), HeightAt(H, A[n]))
      BY <3>1, TallerCommutes
    <3> QED BY <1>1, <1>4, <3>2
  <2>2. HeightAt(H6, B2[r]) = HeightAt(H, B[r]) /\ HeightAt(H6, A4[r]) = H6[n]
    BY <1>1, <1>4 DEF HeightAt
  <2>3. H7[r] = 1 + Taller(HeightAt(H, B[r]), H6[n]) /\ H7[n] = H6[n] /\ DOMAIN H7 = D
    <3>1. HeightAt(H, A[r]) \in Int /\ HeightAt(H, A[n]) \in Int /\ HeightAt(H, B[r]) \in Int
      BY <1>1 DEF HeightAt
    <3>2. H6[n] \in Int
      BY <2>1, <3>1, TallerCommutes
    <3>3. Taller(H6[n], HeightAt(H, B[r])) = Taller(HeightAt(H, B[r]), H6[n])
      BY <3>1, <3>2, TallerCommutes
    <3> QED BY <2>1, <2>2, <3>3
  <2>4. \A x \in D \ {n, r} : H7[x] = H[x]
    BY <1>1
  <2>5. H7 = [x \in D |-> H7[x]]
    BY <1>1, <2>3
  <2> HIDE DEF H7, H6
  <2> QED BY <2>1, <2>3, <2>4, <2>5 DEF TurnedHeights
<1>6. FieldsAre(t1, D, P1, A, B, H)
  BY HangFields
<1> HIDE DEF t1, P1
<1>7. FieldsAre(t2, D, P1, A, B2, H)
  BY <1>6, SetRight
<1> HIDE DEF t2, B2
<1>8. FieldsAre(t3, D, P3, A, B2, H)
  BY <1>7, SetParent
<1> HIDE DEF t3, P3
<1>9. FieldsAre(t4, D, P3, A4, B2, H)
  BY <1>8, SetLeft
<1> HIDE DEF t4, A4
<1>10. FieldsAre(t5, D, P5, A4, B2, H)
  BY <1>9, SetParent
<1> HIDE DEF t5, P5
<1>11. FieldsAre(t6, D, P5, A4, B2, H6)
  BY <1>4, <1>10, UpdateFields
<1> HIDE DEF t6, H6
<1>12. FieldsAre(t7, D, P5, A4, B2, H7)
  BY <1>4, <1>11, UpdateFields
<1> HIDE DEF t7, H7
<1> QED BY <1>2, <1>3, <1>5, <1>12 DEF A4, B2

\* What the rotations do, in the terms of the search trees above.
LEMMA TurnFacts ==
  ASSUME NEW D, NEW top, NEW P, NEW A, NEW B, NEW S, NEW k, IsTree(D, top, P, A, B, S, k),
         NEW n \in D, NEW l \in D, l = A[n]
  PROVE  CanTurn(n, l, B[l], P[n], D, P, A, B)
<1> DEFINE top2 == IF P[n] = Nil THEN l ELSE top
           P2 == [x \in DOMAIN P |-> IF x = n THEN l ELSE IF x = l THEN P[n]
                                     ELSE IF x = B[l] THEN n ELSE P[x]]
           A2 == [x \in DOMAIN A |-> IF x = n THEN B[l] ELSE IF A[x] = n THEN l ELSE A[x]]
           B2 == [x \in DOMAIN B |-> IF x = l THEN n ELSE IF B[x] = n THEN l ELSE B[x]]
<1>1. IsTurned(n, l, top, P, A, B, top2, P2, A2, B2)
  BY DEF IsTurned
<1> HIDE DEF top2, P2, A2, B2
<1>2. /\ P[n] # l /\ (P[n] # Nil => P[n] # B[l]) /\ B[l] # n /\ B[l] # l /\ l # n
  BY <1>1, TurnIsTree
<1>3. /\ Nil \notin D /\ D \subseteq Nat \ {0} /\ P \in [D -> D \union {Nil}]
      /\ A \in [D -> D \union {Nil}] /\ B \in [D -> D \union {Nil}]
      /\ \A x \in D : /\ P[x] # Nil => P[x] \in D /\ (A[P[x]] = x \/ B[P[x]] = x)
                      /\ A[x] # Nil => A[x] \in D /\ P[A[x]] = x
                      /\ B[x] # Nil => B[x] \in D /\ P[B[x]] = x
  BY LinksOfTree
<1>4. \A x \in D : A[x] # x /\ B[x] # x /\ P[x] # x /\ (A[x] # Nil => A[x] # B[x])
  BY NodesAround
<1>5. n # Nil /\ l # Nil /\ P[l] = n /\ Nil = 0
  BY <1>3 DEF Nil
<1>6. A[l] # n /\ B[n] # l
  BY <1>2, <1>3, <1>4, <1>5
<1>7. /\ B[l] \in D \union {Nil} /\ A[l] \in D \union {Nil}
      /\ P[n] \in D \union {Nil} /\ B[n] \in D \union {Nil}
      /\ DOMAIN P = D /\ DOMAIN A = D /\ DOMAIN B = D
  BY <1>3
<1>8. \A x \in D : (A[x] = n \/ B[x] = n) => x = P[n]
  BY <1>3, <1>5
<1>9. P[n] # Nil => (A[P[n]] = n \/ B[P[n]] = n) /\ (A[P[n]] = n => B[P[n]] # n)
  <2> SUFFICES ASSUME P[n] # Nil
               PROVE  (A[P[n]] = n \/ B[P[n]] = n) /\ (A[P[n]] = n => B[P[n]] # n)
    OBVIOUS
  <2>1. P[n] \in D /\ (A[P[n]] = n \/ B[P[n]] = n)
    BY <1>3
  <2> QED BY <1>4, <1>5, <2>1
<1> QED BY <1>2, <1>3, <1>4, <1>5, <1>6, <1>7, <1>8, <1>9 DEF CanTurn

\* A rotation and the link of the parent, on the records: the trees are turned.
LEMMA RightTurnedFields ==
  ASSUME NEW t, NEW D, NEW P, NEW A, NEW B, NEW H, FieldsAre(t, D, P, A, B, H),
         NEW top, NEW S, NEW k, IsTree(D, top, P, A, B, S, k),
         NEW n \in D, NEW l \in D, l = A[n]
  PROVE  \E P2, A2, B2 :
           /\ FieldsAre(RightTurned(t, n), D, P2, A2, B2, TurnedHeights(n, l, A, B, H))
           /\ IsTurned(n, l, top, P, A, B, IF P[n] = Nil THEN l ELSE top, P2, A2, B2)
<1> DEFINE m == B[l]
           p == P[n]
           T == TurnedHeights(n, l, A, B, H)
           P1 == [x \in D |-> IF x = n THEN l ELSE IF x = l THEN p ELSE IF x = m THEN n ELSE P[x]]
           A1 == [A EXCEPT ![n] = m]
           B1 == [B EXCEPT ![l] = n]
           A2 == IF p # Nil /\ A1[p] = n THEN [A1 EXCEPT ![p] = l] ELSE A1
           B2 == IF p # Nil /\ A1[p] # n THEN [B1 EXCEPT ![p] = l] ELSE B1
           t1 == rotate_right(t, n)
           t2 == Relink(t1, p, n, l)
           t3 == [t2 EXCEPT ![l].parent = p]
           P3 == [P1 EXCEPT ![l] = p]
<1>0. CanTurn(n, l, m, p, D, P, A, B)
  BY TurnFacts
<1>1. /\ m \in D \union {Nil} /\ A[l] \in D \union {Nil}
      /\ p \in D \union {Nil} /\ B[n] \in D \union {Nil}
      /\ Nil \notin D /\ Nil = 0 /\ D \subseteq Nat
      /\ DOMAIN P = D /\ DOMAIN A = D /\ DOMAIN B = D
      /\ n # l /\ m # n /\ m # l /\ A[l] # n /\ A[l] # l /\ B[n] # n /\ B[n] # l
      /\ p # l /\ p # n
      /\ \A x \in D : (A[x] = n \/ B[x] = n) => x = p
      /\ p # Nil => (A[p] = n \/ B[p] = n) /\ (A[p] = n => B[p] # n)
  BY <1>0 DEF CanTurn
<1>2. /\ t[n].left_child = l /\ t[n].parent = p
  BY FieldsOf
<1>3. RightTurned(t, n) = t3
  BY <1>2 DEF RightTurned
<1>4. P3 = [x \in DOMAIN P |-> IF x = n THEN l ELSE IF x = l THEN P[n]
                               ELSE IF x = B[l] THEN n ELSE P[x]]
  BY <1>1
<1>5. A2 = [x \in DOMAIN A |-> IF x = n THEN B[l] ELSE IF A[x] = n THEN l ELSE A[x]]
  <2>1. DOMAIN A2 = D /\ A2 = [x \in D |-> A2[x]]
    BY <1>1
  <2>2. \A x \in D : A2[x] = IF x = n THEN m ELSE IF A[x] = n THEN l ELSE A[x]
    <3>1. A[n] # n
      BY <1>1
    <3> QED BY <1>1, <3>1
  <2> HIDE DEF A2
  <2> QED BY <1>1, <2>1, <2>2
<1>6. B2 = [x \in DOMAIN B |-> IF x = l THEN n ELSE IF B[x] = n THEN l ELSE B[x]]
  <2>1. DOMAIN B2 = D /\ B2 = [x \in D |-> B2[x]]
    BY <1>1
  <2>2. p # Nil => A1[p] = A[p]
    BY <1>1
  <2>3. \A x \in D : B2[x] = IF x = l THEN n ELSE IF B[x] = n THEN l ELSE B[x]
    BY <1>1, <2>2
  <2> HIDE DEF B2
  <2> QED BY <1>1, <2>1, <2>3
<1>7. IsTurned(n, l, top, P, A, B, IF p = Nil THEN l ELSE top, P3, A2, B2)
  <2> HIDE DEF P3, A2, B2
  <2> QED BY <1>4, <1>5, <1>6 DEF IsTurned
<1>8. FieldsAre(t1, D, P1, A1, B1, T)
  <2> HIDE DEF t1, P1, A1, B1, T
  <2>1. FieldsAre(rotate_right(t, n), D,
           [x \in D |-> IF x = n THEN l ELSE IF x = l THEN p ELSE IF x = m THEN n ELSE P[x]],
           [A EXCEPT ![n] = m], [B EXCEPT ![l] = n], TurnedHeights(n, l, A, B, H))
    BY <1>0, RotateRightFields
  <2> QED BY <2>1 DEF t1, P1, A1, B1, T
<1> HIDE DEF t1, T, A1, B1, P1
<1>9. FieldsAre(t2, D, P1, A2, B2, T)
  <2>1. p \in D \union {Nil} /\ l \in Nat
    BY <1>1
  <2> QED BY <1>8, <2>1, RelinkFields
<1> HIDE DEF t2, A2, B2
<1>10. p \in Nat
  <2> HIDE DEF p
  <2> QED BY <1>1
<1>11. FieldsAre(t3, D, P3, A2, B2, T)
  BY <1>9, <1>10, SetParent
<1> HIDE DEF t3
<1> QED BY <1>3, <1>7, <1>11 DEF T, p

LEMMA LeftTurnedFields ==
  ASSUME NEW t, NEW D, NEW P, NEW A, NEW B, NEW H, FieldsAre(t, D, P, A, B, H),
         NEW top, NEW S, NEW k, IsTree(D, top, P, B, A, S, k),
         NEW n \in D, NEW r \in D, r = B[n]
  PROVE  \E P2, A2, B2 :
           /\ FieldsAre(LeftTurned(t, n), D, P2, A2, B2, TurnedHeights(n, r, B, A, H))
           /\ IsTurned(n, r, top, P, B, A, IF P[n] = Nil THEN r ELSE top, P2, B2, A2)
<1> DEFINE m == A[r]
           p == P[n]
           T == TurnedHeights(n, r, B, A, H)
           P1 == [x \in D |-> IF x = n THEN r ELSE IF x = r THEN p ELSE IF x = m THEN n ELSE P[x]]
           A1 == [A EXCEPT ![r] = n]
           B1 == [B EXCEPT ![n] = m]
           A2 == IF p # Nil /\ A1[p] = n THEN [A1 EXCEPT ![p] = r] ELSE A1
           B2 == IF p # Nil /\ A1[p] # n THEN [B1 EXCEPT ![p] = r] ELSE B1
           t1 == rotate_left(t, n)
           t2 == Relink(t1, p, n, r)
           t3 == [t2 EXCEPT ![r].parent = p]
           P3 == [P1 EXCEPT ![r] = p]
<1>0. CanTurn(n, r, m, p, D, P, B, A)
  BY TurnFacts
<1>1. /\ m \in D \union {Nil} /\ B[r] \in D \union {Nil}
      /\ p \in D \union {Nil} /\ A[n] \in D \union {Nil}
      /\ Nil \notin D /\ Nil = 0 /\ D \subseteq Nat
      /\ DOMAIN P = D /\ DOMAIN A = D /\ DOMAIN B = D
      /\ n # r /\ m # n /\ m # r /\ B[r] # n /\ B[r] # r /\ A[n] # n /\ A[n] # r
      /\ p # r /\ p # n
      /\ \A x \in D : (B[x] = n \/ A[x] = n) => x = p
      /\ p # Nil => (B[p] = n \/ A[p] = n) /\ (B[p] = n => A[p] # n)
  BY <1>0 DEF CanTurn
<1>2. /\ t[n].right_child = r /\ t[n].parent = p
  BY FieldsOf
<1>3. LeftTurned(t, n) = t3
  BY <1>2 DEF LeftTurned
<1>4. P3 = [x \in DOMAIN P |-> IF x = n THEN r ELSE IF x = r THEN P[n]
                               ELSE IF x = A[r] THEN n ELSE P[x]]
  BY <1>1
<1>5. B2 = [x \in DOMAIN B |-> IF x = n THEN A[r] ELSE IF B[x] = n THEN r ELSE B[x]]
  <2>1. DOMAIN B2 = D /\ B2 = [x \in D |-> B2[x]]
    BY <1>1
  <2>2. p # Nil => A1[p] = A[p]
    BY <1>1
  <2>3. \A x \in D : B2[x] = IF x = n THEN m ELSE IF B[x] = n THEN r ELSE B[x]
    <3>1. B[n] # n
      BY <1>1
    <3> QED BY <1>1, <2>2, <3>1
  <2> HIDE DEF B2
  <2> QED BY <1>1, <2>1, <2>3
<1>6. A2 = [x \in DOMAIN A |-> IF x = r THEN n ELSE IF A[x] = n THEN r ELSE A[x]]
  <2>1. DOMAIN A2 = D /\ A2 = [x \in D |-> A2[x]]
    BY <1>1
  <2>2. p # Nil => A1[p] = A[p]
    BY <1>1
  <2>3. \A x \in D : A2[x] = IF x = r THEN n ELSE IF A[x] = n THEN r ELSE A[x]
    BY <1>1, <2>2
  <2> HIDE DEF A2
  <2> QED BY <1>1, <2>1, <2>3
<1>7. IsTurned(n, r, top, P, B, A, IF p = Nil THEN r ELSE top, P3, B2, A2)
  <2> HIDE DEF P3, A2, B2
  <2> QED BY <1>4, <1>5, <1>6 DEF IsTurned
<1>8. FieldsAre(t1, D, P1, A1, B1, T)
  <2> HIDE DEF t1, P1, A1, B1, T
  <2>1. FieldsAre(rotate_left(t, n), D,
           [x \in D |-> IF x = n THEN r ELSE IF x = r THEN p ELSE IF x = m THEN n ELSE P[x]],
           [A EXCEPT ![r] = n], [B EXCEPT ![n] = m], TurnedHeights(n, r, B, A, H))
    BY <1>0, RotateLeftFields
  <2> QED BY <2>1 DEF t1, P1, A1, B1, T
<1> HIDE DEF t1, T, A1, B1, P1
<1>9. FieldsAre(t2, D, P1, A2, B2, T)
  <2>1. p \in D \union {Nil} /\ r \in Nat
    BY <1>1
  <2> QED BY <1>8, <2>1, RelinkFields
<1> HIDE DEF t2, A2, B2
<1>10. p \in Nat
  <2> HIDE DEF p
  <2> QED BY <1>1
<1>11. FieldsAre(t3, D, P3, A2, B2, T)
  BY <1>9, <1>10, SetParent
<1> HIDE DEF t3
<1> QED BY <1>3, <1>7, <1>11 DEF T, p

LEMMA MirrorBack ==
  ASSUME NEW D, NEW top, NEW P, NEW A, NEW B, NEW S, NEW k \in [Nat -> Int],
         IsTree(D, top, P, B, A, S, Mirror(k))
  PROVE  IsTree(D, top, P, A, B, S, k)
<1> DEFINE m == Mirror(k)
           mm == Mirror(m)
<1>1. mm = k
  <2>1. \A x \in Nat : mm[x] = k[x]
    BY DEF Mirror
  <2>2. mm = [x \in Nat |-> mm[x]] /\ k = [x \in Nat |-> k[x]]
    BY DEF Mirror
  <2> HIDE DEF mm
  <2> QED BY <2>1, <2>2
<1>2. IsTree(D, top, P, B, A, S, m)
  OBVIOUS
<1>3. IsTree(D, top, P, A, B, S, mm)
  <2> HIDE DEF m
  <2> QED BY <1>2, MirrorIsTree
<1> QED BY <1>1, <1>3

\* fix_one of a node that leans to the left, and the link of the parent: the climb goes on
\* from the parent, whose height is as it was.
Climbed(t2, D, top2, p, H, k) ==
  \E P2, A2, B2, H2, S2 :
    /\ FieldsAre(t2, D, P2, A2, B2, H2) /\ IsTree(D, top2, P2, A2, B2, S2, k)
    /\ Settled(D, p, A2, B2, H2)
    /\ p # Nil => H2[p] = H[p]

LEMMA FixLeaningLeft ==
  ASSUME NEW t, NEW D, NEW P, NEW A, NEW B, NEW H, FieldsAre(t, D, P, A, B, H),
         NEW top, NEW S, NEW k, IsTree(D, top, P, A, B, S, k),
         NEW n \in D, Settled(D, n, A, B, H), HeightAt(H, A[n]) - HeightAt(H, B[n]) > 1,
         NEW u, u = LeftChildFirst(update_height(t, n), n),
         NEW l, l = u[n].left_child
  PROVE  /\ Climbed(RightTurned(u, n), D, IF P[n] = Nil THEN l ELSE top, P[n], H, k)
         /\ l \in D /\ l # n /\ u[n].parent = P[n]
<1> DEFINE w == update_height(t, n)
           Hw == [H EXCEPT ![n] = 1 + Taller(HeightAt(H, A[n]), HeightAt(H, B[n]))]
           c == A[n]
<1>1. /\ c \in D /\ c # n /\ H \in [D -> Nat]
      /\ HeightAt(H, B[n]) \in Nat /\ HeightAt(H, A[c]) \in Nat /\ HeightAt(H, B[c]) \in Nat
      /\ A[c] # n /\ B[c] # n /\ B[n] # n
  BY Leaning
<1>2. /\ Nil \notin D /\ k \in [Nat -> Int]
      /\ \A x \in D : /\ A[x] # Nil => A[x] \in D /\ P[A[x]] = x
                      /\ B[x] # Nil => B[x] \in D /\ P[B[x]] = x
  BY LinksOfTree
<1>3. A[n] \in D \union {Nil} /\ B[n] \in D \union {Nil}
  BY <1>2
<1>4. FieldsAre(w, D, P, A, B, Hw)
  BY <1>3, UpdateFields
<1>5. Hw \in [D -> Nat] /\ (\A x \in D \ {n} : H[x] = Hw[x])
  <2>1. Hw \in [D -> Nat]
    <3> HIDE DEF Hw
    <3> QED BY <1>4, FieldsOf
  <2> QED BY <1>1, <2>1
<1>6. HeightAt(Hw, A[c]) = HeightAt(H, A[c]) /\ HeightAt(Hw, B[c]) = HeightAt(H, B[c])
  BY <1>1, <1>2, <1>5 DEF HeightAt
<1> HIDE DEF w, Hw, c
<1>7. /\ w[n].left_child = c /\ w[c].left_child = A[c] /\ w[c].right_child = B[c]
      /\ w[n].parent = P[n] /\ w[c].parent = n /\ P[c] = n
      /\ balance_factor(w, c) = HeightAt(Hw, A[c]) - HeightAt(Hw, B[c])
  <2>1. /\ \A x \in D : /\ w[x].parent = P[x] /\ w[x].left_child = A[x]
                        /\ w[x].right_child = B[x]
        /\ \A x \in D \union {Nil} : height(w, x) = HeightAt(Hw, x)
    BY <1>4, FieldsOf
  <2>2. P[c] = n
    BY <1>1, <1>2 DEF c
  <2> QED BY <1>1, <1>2, <2>1, <2>2 DEF balance_factor, c
<1>8. u = LeftChildFirst(w, n)
  BY DEF w
<1>9. CASE ~(balance_factor(w, c) < 0)
  <2>1. u = w /\ l = c
    BY <1>7, <1>8, <1>9, Zenon DEF LeftChildFirst
  <2> DEFINE top2 == IF P[n] = Nil THEN c ELSE top
             H2 == TurnedHeights(n, c, A, B, Hw)
  <2>2. PICK P2, A2, B2 :
           /\ FieldsAre(RightTurned(w, n), D, P2, A2, B2, H2)
           /\ IsTurned(n, c, top, P, A, B, top2, P2, A2, B2)
    BY <1>1, <1>4, RightTurnedFields DEF c
  <2> HIDE DEF top2
  <2>3. IsTree(D, top2, P2, A2, B2, TurnedSubs(n, c, A, B, S), k)
    BY <1>1, <2>2, TurnIsTree
  <2>4. HeightAt(H, A[c]) >= HeightAt(H, B[c])
    BY <1>1, <1>6, <1>7, <1>9
  <2>5. Settled(D, P[n], A2, B2, H2)
    <3>1. H2 = TurnedHeights(n, c, A, B, Hw)
      OBVIOUS
    <3> HIDE DEF H2
    <3> QED BY <1>1, <1>5, <2>2, <2>4, <3>1, SingleSettles
  <2>6. P[n] # Nil => H2[P[n]] = H[P[n]]
    <3>1. H2 = TurnedHeights(n, c, A, B, Hw)
      OBVIOUS
    <3> HIDE DEF H2
    <3>2. /\ \A x \in D \ {n, c} : H2[x] = Hw[x]
          /\ P[n] # Nil => P[n] \in D \ {n, c}
      BY <1>1, <1>5, <2>2, <3>1, TurnKeeps
    <3> QED BY <1>5, <3>2
  <2> HIDE DEF H2
  <2>7. Climbed(RightTurned(w, n), D, top2, P[n], H, k)
    BY <2>2, <2>3, <2>5, <2>6 DEF Climbed
  <2> QED BY <1>1, <1>7, <2>1, <2>7 DEF top2
<1>10. CASE balance_factor(w, c) < 0
  <2> DEFINE m == B[c]
             mk == Mirror(k)
             H1 == TurnedHeights(c, m, B, A, Hw)
             H2(A1, B1) == TurnedHeights(n, m, A1, B1, H1)
             top2 == IF P[n] = Nil THEN m ELSE top
  <2>1. m \in D /\ HeightAt(H, A[c]) < HeightAt(H, B[c])
    <3>1. HeightAt(H, A[c]) < HeightAt(H, B[c])
      BY <1>1, <1>6, <1>7, <1>10
    <3>2. m # Nil
      BY <1>1, <3>1 DEF HeightAt
    <3> QED BY <1>1, <1>2, <3>1, <3>2
  <2>2. IsTree(D, top, P, B, A, S, mk)
    BY MirrorIsTree
  <2> HIDE DEF mk, H1
  <2>3. PICK P1, A1, B1 :
           /\ FieldsAre(LeftTurned(w, c), D, P1, A1, B1, H1)
           /\ IsTurned(c, m, top, P, B, A, top, P1, B1, A1)
    <3>1. \E P1, A1, B1 :
           /\ FieldsAre(LeftTurned(w, c), D, P1, A1, B1, TurnedHeights(c, m, B, A, Hw))
           /\ IsTurned(c, m, top, P, B, A, IF P[c] = Nil THEN m ELSE top, P1, B1, A1)
      BY <1>1, <1>4, <2>1, <2>2, LeftTurnedFields
    <3>2. P[c] # Nil
      BY <1>2, <1>7
    <3> QED BY <3>1, <3>2 DEF H1
  <2>4. PICK S1 : IsTree(D, top, P1, A1, B1, S1, k)
    <3>1. IsTree(D, top, P1, B1, A1, TurnedSubs(c, m, B, A, S), mk)
      BY <1>1, <2>1, <2>2, <2>3, TurnIsTree
    <3> QED BY <1>2, <3>1, MirrorBack DEF mk
  <2>5. u = LeftTurned(w, c)
    <3> DEFINE v == rotate_left(w, c)
    <3>1. CanTurn(c, m, A[m], P[c], D, P, B, A)
      BY <1>1, <2>1, <2>2, TurnFacts
    <3>2. FieldsAre(v, D,
            [x \in D |-> IF x = c THEN m ELSE IF x = m THEN P[c] ELSE IF x = A[m] THEN c ELSE P[x]],
            [A EXCEPT ![m] = c], [B EXCEPT ![c] = A[m]], H1)
      <4> HIDE DEF m
      <4> QED BY <1>1, <1>4, <2>1, <3>1, RotateLeftFields DEF H1
    <3>3. v[n].left_child = c
      <4>1. v[n].left_child = [A EXCEPT ![m] = c][n]
        <5> HIDE DEF v, m
        <5> QED BY <3>2, FieldsOf
      <4>2. n # m /\ DOMAIN A = D
        BY <1>7, <3>1 DEF CanTurn
      <4> QED BY <1>1, <4>1, <4>2 DEF c
    <3>4. n # Nil /\ w[c].right_child = m
      BY <1>2, <1>7
    <3>5. Relink(v, n, c, m) = [v EXCEPT ![n].left_child = m]
      BY <3>3, <3>4 DEF Relink
    <3>6. LeftTurned(w, c) = [Relink(v, n, c, m) EXCEPT ![m].parent = n]
      BY <1>7 DEF LeftTurned
    <3>7. u = [[v EXCEPT ![n].left_child = m] EXCEPT ![m].parent = n]
      BY <1>7, <1>8, <1>10, Zenon DEF LeftChildFirst
    <3> QED BY <3>5, <3>6, <3>7
  <2> HIDE DEF m
  <2>6. m = A1[n] /\ l = m /\ m # n /\ u[n].parent = P1[n]
    <3>1. /\ \A x \in D : u[x].parent = P1[x] /\ u[x].left_child = A1[x]
      BY <2>3, <2>5, FieldsOf
    <3>2. DOMAIN A = D /\ n # m
      <4>1. CanTurn(c, m, A[m], P[c], D, P, B, A)
        BY <1>1, <2>1, <2>2, TurnFacts DEF m
      <4> QED BY <1>7, <4>1 DEF CanTurn
    <3>3. A1 = [x \in DOMAIN A |-> IF x = m THEN c ELSE IF A[x] = c THEN m ELSE A[x]]
      BY <2>3 DEF IsTurned
    <3> QED BY <3>1, <3>2, <3>3 DEF c
  <2>7. PICK P2, A2, B2 :
           /\ FieldsAre(RightTurned(u, n), D, P2, A2, B2, H2(A1, B1))
           /\ IsTurned(n, m, top, P1, A1, B1, IF P1[n] = Nil THEN m ELSE top, P2, A2, B2)
    BY <2>1, <2>3, <2>4, <2>5, <2>6, RightTurnedFields
  <2>8. Settled(D, P[n], A2, B2, H2(A1, B1)) /\ P1[n] = P[n]
    <3>1. H2(A1, B1) = TurnedHeights(n, m, A1, B1, H1) /\ H1 = TurnedHeights(c, m, B, A, Hw)
      BY DEF H1
    <3> HIDE DEF H2
    <3> QED BY <1>1, <1>5, <2>1, <2>3, <2>4, <2>7, <3>1, DoubleSettles DEF c
  <2>9. IsTurned(n, m, top, P1, A1, B1, top2, P2, A2, B2)
    BY <2>7, <2>8
  <2> HIDE DEF top2
  <2>10. IsTree(D, top2, P2, A2, B2, TurnedSubs(n, m, A1, B1, S1), k)
    BY <2>1, <2>4, <2>9, TurnIsTree
  <2>11. P[n] # Nil => H2(A1, B1)[P[n]] = H[P[n]]
    <3>1. H2(A1, B1) = TurnedHeights(n, m, A1, B1, H1) /\ H1 = TurnedHeights(c, m, B, A, Hw)
      BY DEF H1
    <3> HIDE DEF H2
    <3>2. \A x \in D \ {c, m} : H1[x] = Hw[x]
      BY <1>1, <1>5, <2>1, <2>2, <2>3, <3>1, TurnKeeps
    <3>3. H1 \in [D -> Nat]
      BY <2>3, FieldsOf
    <3>4. ASSUME NEW K, K = TurnedHeights(n, m, A1, B1, H1)
          PROVE  /\ \A x \in D \ {n, m} : K[x] = H1[x]
                 /\ P1[n] # Nil => P1[n] \in D \ {n, m}
      BY <2>1, <2>4, <2>9, <3>3, <3>4, TurnKeeps
    <3>5. P[n] # c
      <4>1. CanTurn(n, c, B[c], P[n], D, P, A, B)
        BY <1>1, TurnFacts DEF c
      <4> QED BY <4>1 DEF CanTurn
    <3> QED BY <1>5, <2>8, <3>1, <3>2, <3>4, <3>5
  <2> HIDE DEF H2
  <2>12. Climbed(RightTurned(u, n), D, top2, P[n], H, k)
    BY <2>7, <2>8, <2>10, <2>11 DEF Climbed
  <2> QED BY <2>1, <2>6, <2>8, <2>12 DEF top2
<1> QED BY <1>9, <1>10

\* The same for a node that leans to the right, seen in the mirror.
ClimbedMirror(t2, D, top2, p, H, k) ==
  \E P2, A2, B2, H2, S2 :
    /\ FieldsAre(t2, D, P2, A2, B2, H2) /\ IsTree(D, top2, P2, B2, A2, S2, k)
    /\ Settled(D, p, B2, A2, H2)
    /\ p # Nil => H2[p] = H[p]

LEMMA FixLeaningRight ==
  ASSUME NEW t, NEW D, NEW P, NEW A, NEW B, NEW H, FieldsAre(t, D, P, A, B, H),
         NEW top, NEW S, NEW k, IsTree(D, top, P, B, A, S, k),
         NEW n \in D, Settled(D, n, B, A, H), HeightAt(H, B[n]) - HeightAt(H, A[n]) > 1,
         NEW u, u = RightChildFirst(update_height(t, n), n),
         NEW l, l = u[n].right_child
  PROVE  /\ ClimbedMirror(LeftTurned(u, n), D, IF P[n] = Nil THEN l ELSE top, P[n], H, k)
         /\ l \in D /\ l # n /\ u[n].parent = P[n]
<1> DEFINE w == update_height(t, n)
           Hw == [H EXCEPT ![n] = 1 + Taller(HeightAt(H, A[n]), HeightAt(H, B[n]))]
           c == B[n]
<1>1. /\ c \in D /\ c # n /\ H \in [D -> Nat]
      /\ HeightAt(H, A[n]) \in Nat /\ HeightAt(H, B[c]) \in Nat /\ HeightAt(H, A[c]) \in Nat
      /\ B[c] # n /\ A[c] # n /\ A[n] # n
  BY Leaning
<1>2. /\ Nil \notin D /\ k \in [Nat -> Int]
      /\ \A x \in D : /\ B[x] # Nil => B[x] \in D /\ P[B[x]] = x
                      /\ A[x] # Nil => A[x] \in D /\ P[A[x]] = x
  BY LinksOfTree
<1>3. B[n] \in D \union {Nil} /\ A[n] \in D \union {Nil}
  BY <1>2
<1>4. FieldsAre(w, D, P, A, B, Hw)
  BY <1>3, UpdateFields
<1>5. Hw \in [D -> Nat] /\ (\A x \in D \ {n} : H[x] = Hw[x])
  <2>1. Hw \in [D -> Nat]
    <3> HIDE DEF Hw
    <3> QED BY <1>4, FieldsOf
  <2> QED BY <1>1, <2>1
<1>6. HeightAt(Hw, B[c]) = HeightAt(H, B[c]) /\ HeightAt(Hw, A[c]) = HeightAt(H, A[c])
  BY <1>1, <1>2, <1>5 DEF HeightAt
<1> HIDE DEF w, Hw, c
<1>7. /\ w[n].right_child = c /\ w[c].right_child = B[c] /\ w[c].left_child = A[c]
      /\ w[n].parent = P[n] /\ w[c].parent = n /\ P[c] = n
      /\ balance_factor(w, c) = HeightAt(Hw, A[c]) - HeightAt(Hw, B[c])
  <2>1. /\ \A x \in D : /\ w[x].parent = P[x] /\ w[x].right_child = B[x]
                        /\ w[x].left_child = A[x]
        /\ \A x \in D \union {Nil} : height(w, x) = HeightAt(Hw, x)
    BY <1>4, FieldsOf
  <2>2. P[c] = n
    BY <1>1, <1>2 DEF c
  <2> QED BY <1>1, <1>2, <2>1, <2>2 DEF balance_factor, c
<1>8. u = RightChildFirst(w, n)
  BY DEF w
<1>9. CASE ~(balance_factor(w, c) > 0)
  <2>1. u = w /\ l = c
    BY <1>7, <1>8, <1>9, Zenon DEF RightChildFirst
  <2> DEFINE top2 == IF P[n] = Nil THEN c ELSE top
             H2 == TurnedHeights(n, c, B, A, Hw)
  <2>2. PICK P2, A2, B2 :
           /\ FieldsAre(LeftTurned(w, n), D, P2, A2, B2, H2)
           /\ IsTurned(n, c, top, P, B, A, top2, P2, B2, A2)
    BY <1>1, <1>4, LeftTurnedFields DEF c
  <2> HIDE DEF top2
  <2>3. IsTree(D, top2, P2, B2, A2, TurnedSubs(n, c, B, A, S), k)
    BY <1>1, <2>2, TurnIsTree
  <2>4. HeightAt(H, B[c]) >= HeightAt(H, A[c])
    BY <1>1, <1>6, <1>7, <1>9
  <2>5. Settled(D, P[n], B2, A2, H2)
    <3>1. H2 = TurnedHeights(n, c, B, A, Hw)
      OBVIOUS
    <3> HIDE DEF H2
    <3> QED BY <1>1, <1>5, <2>2, <2>4, <3>1, SingleSettles
  <2>6. P[n] # Nil => H2[P[n]] = H[P[n]]
    <3>1. H2 = TurnedHeights(n, c, B, A, Hw)
      OBVIOUS
    <3> HIDE DEF H2
    <3>2. /\ \A x \in D \ {n, c} : H2[x] = Hw[x]
          /\ P[n] # Nil => P[n] \in D \ {n, c}
      BY <1>1, <1>5, <2>2, <3>1, TurnKeeps
    <3> QED BY <1>5, <3>2
  <2> HIDE DEF H2
  <2>7. ClimbedMirror(LeftTurned(w, n), D, top2, P[n], H, k)
    BY <2>2, <2>3, <2>5, <2>6 DEF ClimbedMirror
  <2> QED BY <1>1, <1>7, <2>1, <2>7 DEF top2
<1>10. CASE balance_factor(w, c) > 0
  <2> DEFINE m == A[c]
             mk == Mirror(k)
             H1 == TurnedHeights(c, m, A, B, Hw)
             H2(B1, A1) == TurnedHeights(n, m, B1, A1, H1)
             top2 == IF P[n] = Nil THEN m ELSE top
  <2>1. m \in D /\ HeightAt(H, B[c]) < HeightAt(H, A[c])
    <3>1. HeightAt(H, B[c]) < HeightAt(H, A[c])
      BY <1>1, <1>6, <1>7, <1>10
    <3>2. m # Nil
      BY <1>1, <3>1 DEF HeightAt
    <3> QED BY <1>1, <1>2, <3>1, <3>2
  <2>2. IsTree(D, top, P, A, B, S, mk)
    BY MirrorIsTree
  <2> HIDE DEF mk, H1
  <2>3. PICK P1, A1, B1 :
           /\ FieldsAre(RightTurned(w, c), D, P1, A1, B1, H1)
           /\ IsTurned(c, m, top, P, A, B, top, P1, A1, B1)
    <3>1. \E P1, A1, B1 :
           /\ FieldsAre(RightTurned(w, c), D, P1, A1, B1, TurnedHeights(c, m, A, B, Hw))
           /\ IsTurned(c, m, top, P, A, B, IF P[c] = Nil THEN m ELSE top, P1, A1, B1)
      BY <1>1, <1>4, <2>1, <2>2, RightTurnedFields
    <3>2. P[c] # Nil
      BY <1>2, <1>7
    <3> QED BY <3>1, <3>2 DEF H1
  <2>4. PICK S1 : IsTree(D, top, P1, B1, A1, S1, k)
    <3>1. IsTree(D, top, P1, A1, B1, TurnedSubs(c, m, A, B, S), mk)
      BY <1>1, <2>1, <2>2, <2>3, TurnIsTree
    <3> QED BY <1>2, <3>1, MirrorBack DEF mk
  <2>5. u = RightTurned(w, c)
    <3> DEFINE v == rotate_right(w, c)
    <3>1. CanTurn(c, m, B[m], P[c], D, P, A, B)
      BY <1>1, <2>1, <2>2, TurnFacts
    <3>2. FieldsAre(v, D,
            [x \in D |-> IF x = c THEN m ELSE IF x = m THEN P[c] ELSE IF x = B[m] THEN c ELSE P[x]],
            [A EXCEPT ![c] = B[m]], [B EXCEPT ![m] = c], H1)
      <4> HIDE DEF m
      <4> QED BY <1>1, <1>4, <2>1, <3>1, RotateRightFields DEF H1
    <3>3. v[n].left_child # c
      <4>1. v[n].left_child = [A EXCEPT ![c] = B[m]][n]
        <5> HIDE DEF v, m
        <5> QED BY <3>2, <1>1, FieldsOf
      <4>2. A[n] # c
        <5>1. CanTurn(n, c, A[c], P[n], D, P, B, A)
          BY <1>1, TurnFacts DEF c
        <5> QED BY <5>1 DEF CanTurn
      <4>3. DOMAIN A = D
        BY <3>1 DEF CanTurn
      <4> QED BY <1>1, <4>1, <4>2, <4>3
    <3>4. n # Nil /\ w[c].left_child = m
      BY <1>2, <1>7
    <3>5. Relink(v, n, c, m) = [v EXCEPT ![n].right_child = m]
      BY <3>3, <3>4 DEF Relink
    <3>6. RightTurned(w, c) = [Relink(v, n, c, m) EXCEPT ![m].parent = n]
      BY <1>7 DEF RightTurned
    <3>7. u = [[v EXCEPT ![n].right_child = m] EXCEPT ![m].parent = n]
      BY <1>7, <1>8, <1>10, Zenon DEF RightChildFirst
    <3> QED BY <3>5, <3>6, <3>7
  <2> HIDE DEF m
  <2>6. m = B1[n] /\ l = m /\ m # n /\ u[n].parent = P1[n]
    <3>1. /\ \A x \in D : u[x].parent = P1[x] /\ u[x].right_child = B1[x]
      BY <2>3, <2>5, FieldsOf
    <3>2. DOMAIN B = D /\ n # m
      <4>1. CanTurn(c, m, B[m], P[c], D, P, A, B)
        BY <1>1, <2>1, <2>2, TurnFacts DEF m
      <4> QED BY <1>7, <4>1 DEF CanTurn
    <3>3. B1 = [x \in DOMAIN B |-> IF x = m THEN c ELSE IF B[x] = c THEN m ELSE B[x]]
      BY <2>3 DEF IsTurned
    <3> QED BY <3>1, <3>2, <3>3 DEF c
  <2>7. PICK P2, A2, B2 :
           /\ FieldsAre(LeftTurned(u, n), D, P2, A2, B2, H2(B1, A1))
           /\ IsTurned(n, m, top, P1, B1, A1, IF P1[n] = Nil THEN m ELSE top, P2, B2, A2)
    BY <2>1, <2>3, <2>4, <2>5, <2>6, LeftTurnedFields
  <2>8. Settled(D, P[n], B2, A2, H2(B1, A1)) /\ P1[n] = P[n]
    <3>1. H2(B1, A1) = TurnedHeights(n, m, B1, A1, H1) /\ H1 = TurnedHeights(c, m, A, B, Hw)
      BY DEF H1
    <3> HIDE DEF H2
    <3> QED BY <1>1, <1>5, <2>1, <2>3, <2>4, <2>7, <3>1, DoubleSettles DEF c
  <2>9. IsTurned(n, m, top, P1, B1, A1, top2, P2, B2, A2)
    BY <2>7, <2>8
  <2> HIDE DEF top2
  <2>10. IsTree(D, top2, P2, B2, A2, TurnedSubs(n, m, B1, A1, S1), k)
    BY <2>1, <2>4, <2>9, TurnIsTree
  <2>11. P[n] # Nil => H2(B1, A1)[P[n]] = H[P[n]]
    <3>1. H2(B1, A1) = TurnedHeights(n, m, B1, A1, H1) /\ H1 = TurnedHeights(c, m, A, B, Hw)
      BY DEF H1
    <3> HIDE DEF H2
    <3>2. \A x \in D \ {c, m} : H1[x] = Hw[x]
      BY <1>1, <1>5, <2>1, <2>2, <2>3, <3>1, TurnKeeps
    <3>3. H1 \in [D -> Nat]
      BY <2>3, FieldsOf
    <3>4. ASSUME NEW K, K = TurnedHeights(n, m, B1, A1, H1)
          PROVE  /\ \A x \in D \ {n, m} : K[x] = H1[x]
                 /\ P1[n] # Nil => P1[n] \in D \ {n, m}
      BY <2>1, <2>4, <2>9, <3>3, <3>4, TurnKeeps
    <3>5. P[n] # c
      <4>1. CanTurn(n, c, A[c], P[n], D, P, B, A)
        BY <1>1, TurnFacts DEF c
      <4> QED BY <4>1 DEF CanTurn
    <3> QED BY <1>5, <2>8, <3>1, <3>2, <3>4, <3>5
  <2> HIDE DEF H2
  <2>12. ClimbedMirror(LeftTurned(u, n), D, top2, P[n], H, k)
    BY <2>7, <2>8, <2>10, <2>11 DEF ClimbedMirror
  <2> QED BY <2>1, <2>6, <2>8, <2>12 DEF top2
<1> QED BY <1>9, <1>10

\* fix_one, and the link of what is now at the place of n.
LEMMA FixOneClimbs ==
  ASSUME NEW t, NEW D, NEW P, NEW A, NEW B, NEW H, FieldsAre(t, D, P, A, B, H),
         NEW top, NEW S, NEW k, IsTree(D, top, P, A, B, S, k),
         NEW n \in D, Settled(D, n, A, B, H),
         NEW f, f = fix_one(t, n), NEW p, p = P[n],
         NEW t2, t2 = IF f.top = n THEN f.tree
                      ELSE [Relink(f.tree, p, n, f.top) EXCEPT ![f.top].parent = p]
  PROVE  Climbed(t2, D, IF p = Nil THEN f.top ELSE top, p, H, k)
<1> DEFINE u == update_height(t, n)
           Hu == [H EXCEPT ![n] = 1 + Taller(HeightAt(H, A[n]), HeightAt(H, B[n]))]
           mk == Mirror(k)
<1>1. /\ Nil \notin D /\ k \in [Nat -> Int] /\ D \subseteq Nat
      /\ A \in [D -> D \union {Nil}] /\ B \in [D -> D \union {Nil}]
      /\ P[n] = Nil <=> n = top
      /\ p \in D \union {Nil}
  <2>1. /\ Nil \notin D /\ k \in [Nat -> Int] /\ D \subseteq Nat
        /\ A \in [D -> D \union {Nil}] /\ B \in [D -> D \union {Nil}]
        /\ P \in [D -> D \union {Nil}]
        /\ P[n] = Nil <=> n = top
    BY LinksOfTree
  <2> QED BY <2>1
<1>2. A[n] # n /\ B[n] # n /\ p # n
  BY NodesAround
<1>3. FieldsAre(u, D, P, A, B, Hu)
  BY <1>1, UpdateFields
<1>4. H \in [D -> Nat] /\ \A x \in D : HeightAt(H, A[x]) \in Nat /\ HeightAt(H, B[x]) \in Nat
  <2>1. H \in [D -> Nat]
    BY DEF Settled
  <2> QED BY <1>1, <2>1 DEF HeightAt
<1>5. balance_factor(u, n) = HeightAt(H, A[n]) - HeightAt(H, B[n])
  <2>1. /\ \A x \in D : u[x].left_child = A[x] /\ u[x].right_child = B[x]
        /\ \A x \in D \union {Nil} : height(u, x) = HeightAt(Hu, x)
    <3> HIDE DEF u, Hu
    <3> QED BY <1>3, FieldsOf
  <2>2. HeightAt(Hu, A[n]) = HeightAt(H, A[n]) /\ HeightAt(Hu, B[n]) = HeightAt(H, B[n])
    BY <1>1, <1>2, <1>4 DEF HeightAt
  <2> HIDE DEF u, Hu
  <2> QED BY <1>1, <2>1, <2>2 DEF balance_factor
<1>6. CASE balance_factor(u, n) > 1
  <2> DEFINE l == LeftChildFirst(u, n)
             c == l[n].left_child
  <2>1. f.tree = rotate_right(l, n) /\ f.top = c
    BY <1>6 DEF fix_one
  <2>2. /\ Climbed(RightTurned(l, n), D, IF P[n] = Nil THEN c ELSE top, P[n], H, k)
        /\ c \in D /\ c # n /\ l[n].parent = P[n]
    <3>1. HeightAt(H, A[n]) - HeightAt(H, B[n]) > 1
      BY <1>5, <1>6
    <3>2. l = LeftChildFirst(update_height(t, n), n) /\ c = l[n].left_child
      OBVIOUS
    <3> HIDE DEF l, c
    <3> QED BY <3>1, <3>2, FixLeaningLeft
  <2>3. t2 = RightTurned(l, n)
    BY <2>1, <2>2 DEF RightTurned
  <2> HIDE DEF l, c
  <2> QED BY <2>1, <2>2, <2>3
<1>7. CASE balance_factor(u, n) < -1
  <2> DEFINE r == RightChildFirst(u, n)
             c == r[n].right_child
  <2>1. f.tree = rotate_left(r, n) /\ f.top = c
    <3>1. ~(balance_factor(u, n) > 1)
      <4> HIDE DEF u
      <4> QED BY <1>4, <1>5, <1>7
    <3> QED BY <1>7, <3>1 DEF fix_one
  <2>2. /\ ClimbedMirror(LeftTurned(r, n), D, IF P[n] = Nil THEN c ELSE top, P[n], H, mk)
        /\ c \in D /\ c # n /\ r[n].parent = P[n]
    <3>1. HeightAt(H, B[n]) - HeightAt(H, A[n]) > 1
      BY <1>4, <1>5, <1>7
    <3>2. r = RightChildFirst(update_height(t, n), n) /\ c = r[n].right_child
      OBVIOUS
    <3>3. IsTree(D, top, P, B, A, S, mk)
      BY MirrorIsTree
    <3>4. Settled(D, n, B, A, H)
      BY <1>1, MirrorSettled
    <3> HIDE DEF r, c, mk
    <3> QED BY <3>1, <3>2, <3>3, <3>4, FixLeaningRight
  <2>3. t2 = LeftTurned(r, n)
    BY <2>1, <2>2 DEF LeftTurned
  <2> HIDE DEF r, c
  <2> DEFINE top2 == IF P[n] = Nil THEN c ELSE top
  <2> HIDE DEF mk
  <2>4. PICK P2, A2, B2, H2, S2 :
          /\ FieldsAre(t2, D, P2, A2, B2, H2) /\ IsTree(D, top2, P2, B2, A2, S2, mk)
          /\ Settled(D, p, B2, A2, H2)
          /\ p # Nil => H2[p] = H[p]
    BY <2>2, <2>3 DEF ClimbedMirror
  <2> HIDE DEF top2
  <2>5. IsTree(D, top2, P2, A2, B2, S2, k)
    BY <1>1, <2>4, MirrorBack DEF mk
  <2>6. A2 \in [D -> D \union {Nil}] /\ B2 \in [D -> D \union {Nil}]
    BY <2>5, LinksOfTree
  <2>7. Settled(D, p, A2, B2, H2)
    BY <1>1, <2>4, <2>6, MirrorSettled
  <2>8. Climbed(t2, D, top2, p, H, k)
    BY <2>4, <2>5, <2>7 DEF Climbed
  <2> QED BY <2>1, <2>8 DEF top2
<1>8. CASE ~(balance_factor(u, n) > 1) /\ ~(balance_factor(u, n) < -1)
  <2>1. f.tree = u /\ f.top = n
    BY <1>8 DEF fix_one
  <2>2. HeightAt(H, A[n]) - HeightAt(H, B[n]) \in -1 .. 1
    BY <1>4, <1>5, <1>8
  <2>3. Settled(D, p, A, B, Hu)
    <3>1. Hu = [H EXCEPT ![n] = 1 + Taller(HeightAt(H, A[n]), HeightAt(H, B[n]))]
      OBVIOUS
    <3> HIDE DEF Hu
    <3> QED BY <2>2, <3>1, FlatSettles
  <2>4. p # Nil => Hu[p] = H[p]
    BY <1>1, <1>2, <1>4
  <2>5. Climbed(u, D, top, p, H, k)
    <3> HIDE DEF u, Hu
    <3> QED BY <1>3, <2>3, <2>4 DEF Climbed
  <2> QED BY <1>1, <2>1, <2>5
<1> QED BY <1>6, <1>7, <1>8

\* The link of the parent, the parent of the child, and the removal.
IsUnlinked(n, c, p, D, P, A, B, H, P2, A2, B2, H2) ==
  /\ P2 = [x \in D \ {n} |-> IF x = c THEN p ELSE P[x]]
  /\ A2 = [x \in D \ {n} |-> IF x = p /\ A[x] = n THEN c ELSE A[x]]
  /\ B2 = [x \in D \ {n} |-> IF x = p /\ A[x] # n THEN c ELSE B[x]]
  /\ H2 = [x \in D \ {n} |-> H[x]]

LEMMA UnlinkFields ==
  ASSUME NEW t, NEW D, NEW P, NEW A, NEW B, NEW H, FieldsAre(t, D, P, A, B, H),
         NEW n \in D, NEW c \in D \union {Nil}, c # n, NEW p \in D \union {Nil}, p # n,
         Nil \notin D, Nil = 0, D \subseteq Nat,
         NEW Pn, NEW An, NEW Bn, NEW Hn, IsUnlinked(n, c, p, D, P, A, B, H, Pn, An, Bn, Hn)
  PROVE  FieldsAre(Without(Hang(Relink(t, p, n, c), c, p), n), D \ {n}, Pn, An, Bn, Hn)
<1> DEFINE t1 == Relink(t, p, n, c)
           A1 == IF p # Nil /\ A[p] = n THEN [A EXCEPT ![p] = c] ELSE A
           B1 == IF p # Nil /\ A[p] # n THEN [B EXCEPT ![p] = c] ELSE B
           t2 == Hang(t1, c, p)
           P2 == IF c = Nil THEN P ELSE [P EXCEPT ![c] = p]
           t3 == Without(t2, n)
           D2 == D \ {n}
           P3 == [x \in D2 |-> IF x = c THEN p ELSE P[x]]
           A3 == [x \in D2 |-> IF x = p /\ A[x] = n THEN c ELSE A[x]]
           B3 == [x \in D2 |-> IF x = p /\ A[x] # n THEN c ELSE B[x]]
           H3 == [x \in D2 |-> H[x]]
<1>1. p \in Nat /\ c \in Nat
  OBVIOUS
<1>2. P \in [D -> Nat] /\ A \in [D -> Nat] /\ B \in [D -> Nat] /\ H \in [D -> Nat]
  BY FieldsOf
<1>3. FieldsAre(t1, D, P, A1, B1, H)
  BY <1>1, RelinkFields
<1> HIDE DEF t1
<1>4. FieldsAre(t2, D, P2, A1, B1, H)
  <2> HIDE DEF A1, B1
  <2> QED BY <1>1, <1>3, HangFields
<1> HIDE DEF t2
<1>5. /\ DOMAIN t2 = D /\ t2 \in [D -> LevelRecord]
      /\ \A x \in D : /\ t2[x].parent = P2[x] /\ t2[x].left_child = A1[x]
                      /\ t2[x].right_child = B1[x] /\ t2[x].height = H[x]
  <2> HIDE DEF A1, B1, P2
  <2> QED BY <1>4, FieldsOf
<1>6. \A x \in D2 : P2[x] = P3[x] /\ A1[x] = A3[x] /\ B1[x] = B3[x] /\ H[x] = H3[x]
  BY <1>2
<1>7. /\ DOMAIN t3 = D2 /\ t3 \in [D2 -> LevelRecord]
      /\ \A x \in D2 : t3[x] = t2[x]
  BY <1>5 DEF Without
<1>8. /\ P3 = [x \in D2 |-> P3[x]] /\ A3 = [x \in D2 |-> A3[x]]
      /\ B3 = [x \in D2 |-> B3[x]] /\ H3 = [x \in D2 |-> H3[x]]
  OBVIOUS
<1>9. D2 \subseteq D
  OBVIOUS
<1> HIDE DEF P2, A1, B1, P3, A3, B3, H3, t3, D2
<1>10. FieldsAre(t3, D2, P3, A3, B3, H3)
  <2>1. /\ Par(t3) = [x \in D2 |-> P3[x]] /\ Lft(t3) = [x \in D2 |-> A3[x]]
        /\ Rgt(t3) = [x \in D2 |-> B3[x]] /\ Hgt(t3) = [x \in D2 |-> H3[x]]
    BY <1>5, <1>6, <1>7, <1>9 DEF Par, Lft, Rgt, Hgt
  <2> QED BY <1>7, <1>8, <2>1 DEF FieldsAre
<1>11. Pn = P3 /\ An = A3 /\ Bn = B3 /\ Hn = H3
  BY DEF IsUnlinked, P3, A3, B3, H3, D2
<1> QED BY <1>10, <1>11 DEF t3, t2, t1, D2

LEMMA SetLevel ==
  ASSUME NEW t, NEW D, NEW P, NEW A, NEW B, NEW H, FieldsAre(t, D, P, A, B, H),
         NEW n \in D, NEW a \in Nat, NEW b \in Nat, NEW c \in Nat, NEW h \in Nat
  PROVE  FieldsAre([t EXCEPT ![n] = [parent |-> a, left_child |-> b, right_child |-> c,
                                     height |-> h]],
                   D, [P EXCEPT ![n] = a], [A EXCEPT ![n] = b], [B EXCEPT ![n] = c],
                   [H EXCEPT ![n] = h])
<1> DEFINE v == [parent |-> a, left_child |-> b, right_child |-> c, height |-> h]
           u == [t EXCEPT ![n] = v]
<1>1. t \in [D -> LevelRecord] /\ v \in LevelRecord
  BY DEF FieldsAre, LevelRecord
<1>2. u \in [D -> LevelRecord] /\ DOMAIN u = D /\ DOMAIN t = D
  BY <1>1
<1>3. \A x \in D : u[x] = IF x = n THEN v ELSE t[x]
  BY <1>1
<1>4. v.parent = a /\ v.left_child = b /\ v.right_child = c /\ v.height = h
  OBVIOUS
<1> HIDE DEF u, v
<1>5. /\ Par(u) = [Par(t) EXCEPT ![n] = a] /\ Lft(u) = [Lft(t) EXCEPT ![n] = b]
      /\ Rgt(u) = [Rgt(t) EXCEPT ![n] = c] /\ Hgt(u) = [Hgt(t) EXCEPT ![n] = h]
  BY <1>2, <1>3, <1>4 DEF Par, Lft, Rgt, Hgt
<1>6. FieldsAre(u, D, [P EXCEPT ![n] = a], [A EXCEPT ![n] = b], [B EXCEPT ![n] = c],
                [H EXCEPT ![n] = h])
  BY <1>2, <1>5 DEF FieldsAre
<1> QED BY <1>6 DEF u, v

\* Where a node n, its children l and r, its parent p, its successor s, the right child c
\* and the parent q of s stand before s takes the place of n.
CanExchange(n, s, l, r, c, p, q, D, P, A, B) ==
  /\ l = A[n] /\ r = B[n] /\ c = B[s] /\ p = P[n] /\ q = P[s]
  /\ Nil \notin D /\ Nil = 0 /\ D \subseteq Nat
  /\ DOMAIN P = D /\ DOMAIN A = D /\ DOMAIN B = D
  /\ n \in D /\ s \in D /\ l \in D /\ r \in D /\ q \in D
  /\ c \in D \union {Nil} /\ p \in D \union {Nil}
  /\ s # n /\ l # s /\ l # n /\ r # n /\ c # n /\ c # s /\ c # l /\ p # s /\ p # n
  /\ q # s /\ q # c
  /\ \A x \in D : P[x] = n <=> x = l \/ x = r
  /\ \A x \in D : A[x] = n \/ B[x] = n => x = p
  /\ p # Nil => (A[p] = n \/ B[p] = n) /\ (A[p] = n => B[p] # n)
  /\ \A x \in D : A[x] = s \/ B[x] = s => x = q
  /\ s = r => q = n
  /\ s # r => q # n /\ A[q] = s /\ B[q] # s

\* The exchange of n and its successor s, before n is taken out.
IsExchanged(n, s, l, r, c, p, q, D, P, A, B, P2, A2, B2) ==
  /\ P2 = [x \in D |-> IF x = n THEN (IF s = r THEN s ELSE q) ELSE IF x = s THEN p
                       ELSE IF x = c THEN n ELSE IF x = r \/ x = l THEN s ELSE P[x]]
  /\ A2 = [x \in D |-> IF x = n THEN Nil ELSE IF x = s THEN l
                       ELSE IF s # r /\ x = q THEN n
                       ELSE IF x = p /\ A[x] = n THEN s ELSE A[x]]
  /\ B2 = [x \in D |-> IF x = n THEN c ELSE IF x = s THEN (IF s = r THEN n ELSE r)
                       ELSE IF x = p /\ A[x] # n THEN s ELSE B[x]]

LEMMA ExchangeFields ==
  ASSUME NEW t, NEW D, NEW P, NEW A, NEW B, NEW H, FieldsAre(t, D, P, A, B, H),
         NEW n, NEW s, NEW l, NEW r, NEW c, NEW p, NEW q,
         CanExchange(n, s, l, r, c, p, q, D, P, A, B),
         NEW Pn, NEW An, NEW Bn, IsExchanged(n, s, l, r, c, p, q, D, P, A, B, Pn, An, Bn)
  PROVE  \E Hn : /\ FieldsAre(Exchange(t, n, s), D, Pn, An, Bn, Hn)
                 /\ \A x \in D \ {n} : Hn[x] = IF x = s THEN H[n] ELSE H[x]
<1>0. /\ l = A[n] /\ r = B[n] /\ c = B[s] /\ p = P[n] /\ q = P[s]
      /\ Nil \notin D /\ Nil = 0 /\ D \subseteq Nat
      /\ DOMAIN P = D /\ DOMAIN A = D /\ DOMAIN B = D
      /\ n \in D /\ s \in D /\ l \in D /\ r \in D /\ q \in D
      /\ c \in D \union {Nil} /\ p \in D \union {Nil}
      /\ s # n /\ l # s /\ l # n /\ r # n /\ c # n /\ c # s /\ c # l /\ p # s /\ p # n
      /\ q # s /\ q # c
      /\ s = r => q = n
      /\ s # r => q # n
  BY DEF CanExchange
<1>1. /\ t[n].left_child = l /\ t[n].right_child = r /\ t[n].parent = p
      /\ t[s].right_child = c /\ t[s].parent = q /\ t[n].height = H[n]
      /\ P \in [D -> Nat] /\ A \in [D -> Nat] /\ B \in [D -> Nat] /\ H \in [D -> Nat]
  <2>1. /\ \A x \in D : /\ t[x].parent = P[x] /\ t[x].left_child = A[x]
                        /\ t[x].right_child = B[x] /\ t[x].height = H[x]
        /\ P \in [D -> Nat] /\ A \in [D -> Nat] /\ B \in [D -> Nat] /\ H \in [D -> Nat]
    BY FieldsOf
  <2> QED BY <1>0, <2>1
<1>2. l \in Nat /\ r \in Nat /\ n \in Nat /\ s \in Nat /\ p \in Nat /\ q \in Nat /\ c \in Nat
      /\ H[n] \in Nat
  BY <1>0, <1>1
<1> DEFINE pn == IF s = r THEN s ELSE q
           rs == IF s = r THEN n ELSE r
           t1 == Relink(t, p, n, s)
           A1 == IF p # Nil /\ A[p] = n THEN [A EXCEPT ![p] = s] ELSE A
           B1 == IF p # Nil /\ A[p] # n THEN [B EXCEPT ![p] = s] ELSE B
           t2 == Hang(t1, l, s)
           P2 == IF l = Nil THEN P ELSE [P EXCEPT ![l] = s]
           t3 == [t2 EXCEPT ![r].parent = s]
           P3 == [P2 EXCEPT ![r] = s]
           t4 == [t3 EXCEPT ![q].left_child = n]
           A4 == [A1 EXCEPT ![q] = n]
           t5 == IF s = r THEN t2 ELSE t4
           P5 == IF s = r THEN P2 ELSE P3
           A5 == IF s = r THEN A1 ELSE A4
           t6 == Hang(t5, c, n)
           P6 == IF c = Nil THEN P5 ELSE [P5 EXCEPT ![c] = n]
           t7 == [t6 EXCEPT ![s] = [parent |-> p, left_child |-> l, right_child |-> rs,
                                    height |-> H[n]]]
           P7 == [P6 EXCEPT ![s] = p]
           A7 == [A5 EXCEPT ![s] = l]
           B7 == [B1 EXCEPT ![s] = rs]
           H7 == [H EXCEPT ![s] = H[n]]
           t8 == [t7 EXCEPT ![n].parent = pn]
           P8 == [P7 EXCEPT ![n] = pn]
           t9 == [t8 EXCEPT ![n].left_child = Nil]
           A9 == [A7 EXCEPT ![n] = Nil]
           t10 == [t9 EXCEPT ![n].right_child = c]
           B10 == [B7 EXCEPT ![n] = c]
           t11 == update_height(t10, n)
           h == 1 + Taller(HeightAt(H7, A9[n]), HeightAt(H7, B10[n]))
           H11 == [H7 EXCEPT ![n] = h]
<1>3. Exchange(t, n, s) = t11
  BY <1>1 DEF Exchange, Swapped
<1>4. pn \in Nat /\ rs \in Nat
  BY <1>2
<1>5. P8 = Pn
  <2>0. Pn = [x \in D |-> IF x = n THEN (IF s = r THEN s ELSE q) ELSE IF x = s THEN p
                        ELSE IF x = c THEN n ELSE IF x = r \/ x = l THEN s ELSE P[x]]
    BY DEF IsExchanged
  <2>1. DOMAIN P5 = D /\ \A x \in D \ {s} : P5[x] = IF x = r \/ x = l THEN s ELSE P[x]
    BY <1>0, <1>1
  <2> HIDE DEF P5
  <2>2. DOMAIN P6 = D /\ \A x \in D \ {s} : P6[x] = IF x = c THEN n ELSE P5[x]
    BY <1>0, <2>1
  <2> HIDE DEF P6
  <2>3. DOMAIN P8 = D /\ \A x \in D : P8[x] = IF x = n THEN pn ELSE IF x = s THEN p ELSE P6[x]
    BY <1>0, <2>2
  <2>4. P8 = [x \in D |-> P8[x]]
    BY <2>2
  <2> HIDE DEF P8
  <2> QED BY <2>0, <2>1, <2>2, <2>3, <2>4
<1>6. A9 = An
  <2>0. An = [x \in D |-> IF x = n THEN Nil ELSE IF x = s THEN l
                        ELSE IF s # r /\ x = q THEN n
                        ELSE IF x = p /\ A[x] = n THEN s ELSE A[x]]
    BY DEF IsExchanged
  <2>1. DOMAIN A1 = D /\ \A x \in D : A1[x] = IF x = p /\ A[x] = n THEN s ELSE A[x]
    BY <1>0, <1>1
  <2> HIDE DEF A1
  <2>2. DOMAIN A5 = D /\ \A x \in D : A5[x] = IF s # r /\ x = q THEN n ELSE A1[x]
    BY <1>0, <2>1
  <2> HIDE DEF A5
  <2>3. DOMAIN A9 = D /\ \A x \in D : A9[x] = IF x = n THEN Nil ELSE IF x = s THEN l ELSE A5[x]
    BY <1>0, <2>2
  <2>4. A9 = [x \in D |-> A9[x]]
    BY <2>2
  <2> HIDE DEF A9
  <2> QED BY <2>0, <2>1, <2>2, <2>3, <2>4
<1>7. B10 = Bn
  <2>0. Bn = [x \in D |-> IF x = n THEN c ELSE IF x = s THEN (IF s = r THEN n ELSE r)
                         ELSE IF x = p /\ A[x] # n THEN s ELSE B[x]]
    BY DEF IsExchanged
  <2>1. DOMAIN B1 = D /\ \A x \in D : B1[x] = IF x = p /\ A[x] # n THEN s ELSE B[x]
    BY <1>0, <1>1
  <2> HIDE DEF B1
  <2>2. DOMAIN B10 = D /\ \A x \in D : B10[x] = IF x = n THEN c ELSE IF x = s THEN rs ELSE B1[x]
    BY <1>0, <2>1
  <2>3. B10 = [x \in D |-> B10[x]]
    BY <2>1
  <2> HIDE DEF B10
  <2> QED BY <2>0, <2>1, <2>2, <2>3
<1>8. \A x \in D \ {n} : H11[x] = IF x = s THEN H[n] ELSE H[x]
  <2> HIDE DEF h
  <2> QED BY <1>0, <1>1
<1>9. A9[n] = Nil /\ B10[n] = c
  BY <1>0
<1>10. h \in Nat
  <2>1. H7 \in [D -> Nat]
    BY <1>1, <1>2
  <2> HIDE DEF H7, A9, B10
  <2>2. HeightAt(H7, A9[n]) \in Nat /\ HeightAt(H7, B10[n]) \in Nat
    BY <1>0, <1>9, <2>1 DEF HeightAt
  <2> QED BY <2>2 DEF Taller
<1>11. FieldsAre(t1, D, P, A1, B1, H)
  <2>1. p \in D \union {Nil} /\ s \in Nat
    BY <1>0, <1>2
  <2> QED BY <2>1, RelinkFields
<1> USE <1>0, <1>2, <1>4
<1> HIDE DEF t1, A1, B1
<1>12. FieldsAre(t2, D, P2, A1, B1, H)
  BY <1>11, HangFields
<1> HIDE DEF t2, P2
<1>13. FieldsAre(t3, D, P3, A1, B1, H)
  BY <1>12, SetParent
<1> HIDE DEF t3, P3
<1>14. FieldsAre(t4, D, P3, A4, B1, H)
  BY <1>13, SetLeft
<1> HIDE DEF t4, A4
<1>15. FieldsAre(t5, D, P5, A5, B1, H)
  BY <1>12, <1>14
<1> HIDE DEF t5, P5, A5
<1>16. FieldsAre(t6, D, P6, A5, B1, H)
  BY <1>15, HangFields
<1> HIDE DEF t6, P6, rs
<1>17. FieldsAre(t7, D, P7, A7, B7, H7)
  BY <1>16, SetLevel
<1> HIDE DEF t7, P7, A7, B7, H7, pn
<1>18. FieldsAre(t8, D, P8, A7, B7, H7)
  BY <1>17, SetParent
<1> HIDE DEF t8, P8
<1>19. FieldsAre(t9, D, P8, A9, B7, H7)
  BY <1>18, SetLeft DEF Nil
<1> HIDE DEF t9, A9
<1>20. FieldsAre(t10, D, P8, A9, B10, H7)
  BY <1>19, SetRight
<1> HIDE DEF t10, B10
<1>21. FieldsAre(t11, D, P8, A9, B10, H11)
  BY <1>9, <1>20, UpdateFields
<1> HIDE DEF t11, H11, h
<1> QED BY <1>3, <1>5, <1>6, <1>7, <1>8, <1>21

\* The levels t are a tree, all of it even but what is at p.
TreeAt(t, D, top, p, k) ==
  \E P, A, B, H, S :
    FieldsAre(t, D, P, A, B, H) /\ IsTree(D, top, P, A, B, S, k) /\ Settled(D, p, A, B, H)

\* What Unlink makes of the levels and of the root.
OnlyChild(t, n) == IF t[n].right_child # Nil THEN t[n].right_child ELSE t[n].left_child
Unhooked(t, n) ==
  Without(Hang(Relink(t, t[n].parent, n, OnlyChild(t, n)), OnlyChild(t, n), t[n].parent), n)
UnhookedTop(t, n, top) == IF t[n].parent = Nil THEN OnlyChild(t, n) ELSE top

\* The removal of a level with one child at most.
LEMMA UnhookIsTree ==
  ASSUME NEW t, NEW D, NEW P, NEW A, NEW B, NEW H, FieldsAre(t, D, P, A, B, H),
         NEW top, NEW S, NEW k, IsTree(D, top, P, A, B, S, k), Settled(D, Nil, A, B, H),
         NEW n \in D, A[n] = Nil \/ B[n] = Nil
  PROVE  /\ TreeAt(Unhooked(t, n), D \ {n}, UnhookedTop(t, n, top), t[n].parent, k)
         /\ t[n].parent \in (D \ {n}) \union {Nil}
<1> DEFINE c == OnlyChild(t, n)
           p == t[n].parent
<1>1. /\ D \subseteq Nat \ {0} /\ Nil \notin D
      /\ A \in [D -> D \union {Nil}] /\ B \in [D -> D \union {Nil}]
      /\ P \in [D -> D \union {Nil}]
      /\ \A x \in D : /\ A[x] # Nil => A[x] \in D /\ P[A[x]] = x
                      /\ B[x] # Nil => B[x] \in D /\ P[B[x]] = x
                      /\ P[x] # Nil => P[x] \in D /\ (A[P[x]] = x \/ B[P[x]] = x)
  BY LinksOfTree
<1>2. \A x \in D : A[x] # x /\ B[x] # x /\ P[x] # x /\ (A[x] # Nil => A[x] # B[x])
  BY NodesAround
<1>3. p = P[n] /\ c = IF B[n] # Nil THEN B[n] ELSE A[n]
  <2>1. \A x \in D : /\ t[x].parent = P[x] /\ t[x].left_child = A[x]
                     /\ t[x].right_child = B[x]
    BY FieldsOf
  <2> QED BY <2>1 DEF OnlyChild
<1>4. /\ c \in D \union {Nil} /\ c # n /\ p \in D \union {Nil} /\ p # n
      /\ (A[n] = Nil /\ c = B[n]) \/ (B[n] = Nil /\ c = A[n])
  BY <1>1, <1>2, <1>3
<1> DEFINE D2 == D \ {n}
           top2 == UnhookedTop(t, n, top)
           P2 == [x \in D2 |-> IF x = c THEN p ELSE P[x]]
           A2 == [x \in D2 |-> IF x = p /\ A[x] = n THEN c ELSE A[x]]
           B2 == [x \in D2 |-> IF x = p /\ A[x] # n THEN c ELSE B[x]]
           H2 == [x \in D2 |-> H[x]]
<1>5. FieldsAre(Unhooked(t, n), D2, P2, A2, B2, H2)
  <2>1. Nil = 0 /\ D \subseteq Nat
    BY <1>1 DEF Nil
  <2>2. Unhooked(t, n) = Without(Hang(Relink(t, p, n, c), c, p), n)
    BY DEF Unhooked
  <2>3. c \in D \union {Nil} /\ c # n /\ p \in D \union {Nil} /\ p # n /\ Nil \notin D
    BY <1>1, <1>4
  <2>4. IsUnlinked(n, c, p, D, P, A, B, H, P2, A2, B2, H2)
    <3> HIDE DEF c, p
    <3> QED BY DEF IsUnlinked
  <2> HIDE DEF c, p, P2, A2, B2, H2
  <2>5. FieldsAre(Without(Hang(Relink(t, p, n, c), c, p), n), D2, P2, A2, B2, H2)
    BY <2>1, <2>3, <2>4, UnlinkFields
  <2> HIDE DEF D2
  <2> QED BY <2>2, <2>5
<1>6. \A x \in D : /\ A[x] = n <=> x = p /\ A[x] = n
                   /\ B[x] = n <=> x = p /\ A[x] # n
  BY <1>1, <1>2, <1>3
<1>7. IsCut(n, c, D, top, P, A, B, D2, top2, P2, A2, B2)
  <2>1. top2 = IF P[n] = Nil THEN c ELSE top
    BY <1>3 DEF UnhookedTop
  <2>2. P2 = [x \in D2 |-> IF x = c THEN P[n] ELSE P[x]]
    BY <1>3
  <2>3. A2 = [x \in D2 |-> IF A[x] = n THEN c ELSE A[x]]
    BY <1>6
  <2>4. B2 = [x \in D2 |-> IF B[x] = n THEN c ELSE B[x]]
    BY <1>6
  <2> HIDE DEF c, p, top2, P2, A2, B2
  <2> QED BY <2>1, <2>2, <2>3, <2>4 DEF IsCut
<1>8. D2 = D \ {n} /\ H2 = [x \in D2 |-> H[x]]
  OBVIOUS
<1> HIDE DEF c, P2, A2, B2, D2, H2, top2
<1>9. IsTree(D2, top2, P2, A2, B2, [x \in D2 |-> S[x] \ {n}], k)
  BY <1>4, <1>7, CutIsTree
<1>10. Settled(D2, P[n], A2, B2, [x \in D2 |-> H[x]])
  BY <1>4, <1>7, CutSettles
<1>11. TreeAt(Unhooked(t, n), D2, top2, p, k)
  <2> HIDE DEF p
  <2> QED BY <1>3, <1>5, <1>8, <1>9, <1>10 DEF TreeAt
<1> QED BY <1>4, <1>8, <1>11 DEF top2

\* The removal of a level with two children, whose successor takes its place.
LEMMA SuccessionIsTree ==
  ASSUME NEW t, NEW D, NEW P, NEW A, NEW B, NEW H, FieldsAre(t, D, P, A, B, H),
         NEW top, NEW S, NEW k, IsTree(D, top, P, A, B, S, k), Settled(D, Nil, A, B, H),
         NEW n \in D, NEW s, A[n] # Nil, B[n] # Nil, s \in Sub(S, B[n]), A[s] = Nil,
         \A y \in Sub(S, B[n]) \ S[s] : k[s] < k[y]
  PROVE  /\ TreeAt(Unhooked(Exchange(t, n, s), n), D \ {n},
                   UnhookedTop(Exchange(t, n, s), n, IF t[n].parent = Nil THEN s ELSE top),
                   Exchange(t, n, s)[n].parent, k)
         /\ Exchange(t, n, s)[n].parent \in D \ {n}
<1> SUFFICES ASSUME NEW u, u = Exchange(t, n, s)
             PROVE  /\ TreeAt(Unhooked(u, n), D \ {n},
                              UnhookedTop(u, n, IF t[n].parent = Nil THEN s ELSE top),
                              u[n].parent, k)
                    /\ u[n].parent \in D \ {n}
  OBVIOUS
<1> DEFINE l == A[n]
           r == B[n]
           c == B[s]
           p == P[n]
           q == P[s]
           D2 == D \ {n}
           top2 == IF top = n THEN s ELSE top
           P2 == [x \in D2 |-> IF x = s THEN P[n]
                               ELSE IF x = B[s] THEN (IF P[s] = n THEN s ELSE P[s])
                               ELSE IF P[x] = n THEN s ELSE P[x]]
           A2 == [x \in D2 |-> IF x = s THEN A[n]
                               ELSE IF A[x] = s THEN B[s] ELSE IF A[x] = n THEN s ELSE A[x]]
           B2 == [x \in D2 |-> IF x = s THEN (IF B[n] = s THEN B[s] ELSE B[n])
                               ELSE IF B[x] = s THEN B[s] ELSE IF B[x] = n THEN s ELSE B[x]]
<1>1. /\ D \subseteq Nat \ {0} /\ Nil \notin D
      /\ A \in [D -> D \union {Nil}] /\ B \in [D -> D \union {Nil}]
      /\ P \in [D -> D \union {Nil}] /\ DOMAIN P = D /\ DOMAIN A = D /\ DOMAIN B = D
      /\ \A x \in D : /\ P[x] = Nil <=> x = top
                      /\ A[x] # Nil => A[x] \in D /\ P[A[x]] = x
                      /\ B[x] # Nil => B[x] \in D /\ P[B[x]] = x
                      /\ P[x] # Nil => P[x] \in D /\ (A[P[x]] = x \/ B[P[x]] = x)
  BY LinksOfTree
<1>2. \A x \in D : A[x] # x /\ B[x] # x /\ P[x] # x /\ (A[x] # Nil => A[x] # B[x])
  BY NodesAround
<1>3. IsSucceeded(n, s, top, P, A, B, D2, top2, P2, A2, B2)
  <2>1. D2 = (DOMAIN P) \ {n}
    BY <1>1
  <2> QED BY <2>1 DEF IsSucceeded
<1> HIDE DEF D2, top2, P2, A2, B2
<1>4. /\ \E S2 : IsTree(D2, top2, P2, A2, B2, S2, k)
      /\ Settled(D2, IF P[s] = n THEN s ELSE P[s], A2, B2,
                 [x \in D2 |-> IF x = s THEN H[n] ELSE H[x]])
      /\ s \in D /\ s # n /\ B[s] # n /\ B[s] # s /\ P[s] \in D /\ P[s] # B[s]
      /\ A[n] # s /\ B[s] \in D \union {Nil} /\ P[n] # s /\ A[n] # B[s]
      /\ s # B[n] => A[P[s]] = s
  BY <1>3, SucceedIsTree
<1>5. CanExchange(n, s, l, r, c, p, q, D, P, A, B)
  <2>1. Nil = 0 /\ D \subseteq Nat
    BY <1>1 DEF Nil
  <2>2. /\ l \in D /\ r \in D /\ c \in D \union {Nil} /\ p \in D \union {Nil} /\ q \in D
        /\ l # n /\ r # n /\ p # n /\ q # s /\ q # c
    BY <1>1, <1>2, <1>4
  <2>3. \A x \in D : P[x] = n <=> x = l \/ x = r
    BY <1>1
  <2>4. \A x \in D : A[x] = n \/ B[x] = n => x = p
    BY <1>1
  <2>5. p # Nil => (A[p] = n \/ B[p] = n) /\ (A[p] = n => B[p] # n)
    <3>1. p # Nil => p \in D /\ (A[p] = n \/ B[p] = n)
      BY <1>1
    <3>2. \A x \in D : A[x] = n => B[x] # n
      BY <1>1, <1>2
    <3> HIDE DEF p
    <3> QED BY <3>1, <3>2
  <2>6. \A x \in D : A[x] = s \/ B[x] = s => x = q
    BY <1>1, <1>4
  <2>7. s = r => q = n
    BY <1>1
  <2>8. s # r => q # n /\ A[q] = s /\ B[q] # s
    BY <1>1, <1>2, <1>4
  <2>9. l = A[n] /\ r = B[n] /\ c = B[s] /\ p = P[n] /\ q = P[s]
    OBVIOUS
  <2>10. s # n /\ l # s /\ c # n /\ c # s /\ c # l /\ p # s
    BY <1>4
  <2> HIDE DEF l, r, c, p, q
  <2> QED BY <1>1, <1>4, <2>1, <2>2, <2>3, <2>4, <2>5, <2>6, <2>7, <2>8, <2>9, <2>10
          DEF CanExchange
<1>6. /\ l = A[n] /\ r = B[n] /\ c = B[s] /\ p = P[n] /\ q = P[s]
      /\ Nil \notin D /\ Nil = 0
      /\ n \in D /\ s \in D /\ l \in D /\ r \in D /\ q \in D
      /\ c \in D \union {Nil} /\ p \in D \union {Nil}
      /\ s # n /\ l # s /\ l # n /\ r # n /\ c # n /\ c # s /\ c # l /\ p # s /\ p # n
      /\ q # s /\ q # c
      /\ \A x \in D : P[x] = n <=> x = l \/ x = r
      /\ \A x \in D : A[x] = n \/ B[x] = n => x = p
      /\ p # Nil => (A[p] = n \/ B[p] = n) /\ (A[p] = n => B[p] # n)
      /\ \A x \in D : A[x] = s \/ B[x] = s => x = q
      /\ s = r => q = n
      /\ s # r => q # n /\ A[q] = s /\ B[q] # s
  <2> HIDE DEF l, r, c, p, q
  <2> QED BY <1>5 DEF CanExchange
<1> HIDE DEF l, r, c, p, q
<1> DEFINE pn == IF s = r THEN s ELSE q
           P5 == [x \in D |-> IF x = n THEN (IF s = r THEN s ELSE q) ELSE IF x = s THEN p
                          ELSE IF x = c THEN n ELSE IF x = r \/ x = l THEN s ELSE P[x]]
           A5 == [x \in D |-> IF x = n THEN Nil ELSE IF x = s THEN l
                          ELSE IF s # r /\ x = q THEN n
                          ELSE IF x = p /\ A[x] = n THEN s ELSE A[x]]
           B5 == [x \in D |-> IF x = n THEN c ELSE IF x = s THEN (IF s = r THEN n ELSE r)
                          ELSE IF x = p /\ A[x] # n THEN s ELSE B[x]]
<1>7. PICK H5 : /\ FieldsAre(u, D, P5, A5, B5, H5)
               /\ \A x \in D \ {n} : H5[x] = IF x = s THEN H[n] ELSE H[x]
  <2>1. IsExchanged(n, s, l, r, c, p, q, D, P, A, B, P5, A5, B5)
    BY DEF IsExchanged
  <2> HIDE DEF P5, A5, B5
  <2>2. \E H5 : /\ FieldsAre(Exchange(t, n, s), D, P5, A5, B5, H5)
               /\ \A x \in D \ {n} : H5[x] = IF x = s THEN H[n] ELSE H[x]
    BY <1>5, <2>1, ExchangeFields
  <2> QED BY <2>2
<1>8. u[n].parent = pn /\ OnlyChild(u, n) = c
  <2>1. P5[n] = pn /\ A5[n] = Nil /\ B5[n] = c
    BY <1>6
  <2>2. FieldsAre(u, D, P5, A5, B5, H5)
    BY <1>7
  <2> HIDE DEF P5, A5, B5
  <2>3. \A x \in D : /\ u[x].parent = P5[x] /\ u[x].left_child = A5[x]
                     /\ u[x].right_child = B5[x]
    BY <2>2, FieldsOf
  <2>4. u[n].parent = pn /\ u[n].left_child = Nil /\ u[n].right_child = c
    BY <2>1, <2>3
  <2> HIDE DEF pn
  <2> QED BY <2>4 DEF OnlyChild
<1>9. pn \in D \ {n} /\ pn # Nil /\ pn # c
  BY <1>6
<1> DEFINE P6 == [x \in D2 |-> IF x = c THEN pn ELSE P5[x]]
           A6 == [x \in D2 |-> IF x = pn /\ A5[x] = n THEN c ELSE A5[x]]
           B6 == [x \in D2 |-> IF x = pn /\ A5[x] # n THEN c ELSE B5[x]]
           H6 == [x \in D2 |-> H5[x]]
<1>10. FieldsAre(Unhooked(u, n), D2, P6, A6, B6, H6)
  <2>1. Nil = 0 /\ D \subseteq Nat /\ pn \in D \union {Nil} /\ pn # n
    BY <1>1, <1>9 DEF Nil
  <2>2. Unhooked(u, n) = Without(Hang(Relink(u, pn, n, c), c, pn), n)
    BY <1>8 DEF Unhooked
  <2>3. FieldsAre(u, D, P5, A5, B5, H5)
    BY <1>7
  <2>4. Nil \notin D /\ n \in D /\ c \in D \union {Nil} /\ c # n
    BY <1>6
  <2> HIDE DEF pn, P5, A5, B5
  <2>5. IsUnlinked(n, c, pn, D, P5, A5, B5, H5, P6, A6, B6, H6)
    BY DEF IsUnlinked, D2
  <2> HIDE DEF P6, A6, B6, H6
  <2>6. FieldsAre(Without(Hang(Relink(u, pn, n, c), c, pn), n), D \ {n}, P6, A6, B6, H6)
    BY <2>1, <2>3, <2>4, <2>5, UnlinkFields
  <2> QED BY <2>2, <2>6 DEF D2
<1>11. P6 = P2
  <2>1. \A x \in D2 : P6[x] = P2[x]
    BY <1>6 DEF D2, P2
  <2> QED BY <2>1 DEF P2
<1>12. A6 = A2
  <2>1. \A x \in D2 : A6[x] = A2[x]
    BY <1>6 DEF D2, A2
  <2> QED BY <2>1 DEF A2
<1>13. B6 = B2
  <2>1. \A x \in D2 : B6[x] = B2[x]
    BY <1>6 DEF D2, B2
  <2> QED BY <2>1 DEF B2
<1>14. H6 = [x \in D2 |-> IF x = s THEN H[n] ELSE H[x]]
  BY <1>7 DEF D2
<1>15. pn = IF P[s] = n THEN s ELSE P[s]
  BY <1>6
<1>16. UnhookedTop(u, n, IF t[n].parent = Nil THEN s ELSE top) = top2
  <2>1. t[n].parent = P[n]
    BY FieldsOf
  <2>2. P[n] = Nil <=> top = n
    BY <1>1
  <2> HIDE DEF pn
  <2> QED BY <1>8, <1>9, <2>1, <2>2 DEF UnhookedTop, top2
<1> HIDE DEF pn, P5, A5, B5, P6, A6, B6, H6
<1>17. TreeAt(Unhooked(u, n), D2, top2, pn, k)
  BY <1>4, <1>10, <1>11, <1>12, <1>13, <1>14, <1>15 DEF TreeAt
<1> QED BY <1>8, <1>9, <1>16, <1>17 DEF D2
-----------------------------------------------------------------------------
(* The way down *)

\* One step down on the side where v belongs.
LEMMA StepDown ==
  ASSUME NEW D, NEW top, NEW P, NEW A, NEW B, NEW S, NEW k, IsTree(D, top, P, A, B, S, k),
         NEW v \in Nat, NEW c \in D, A[c] # Nil, k[v] < k[c], FitsBelow(v, c, D, S, k)
  PROVE  A[c] \in D /\ FitsBelow(v, A[c], D, S, k)
<1>1. /\ A[c] \in D /\ S[c] = {c} \union S[A[c]] \union Sub(S, B[c]) /\ A[c] \in S[A[c]]
      /\ k[A[c]] < k[c] /\ \A y \in Sub(S, B[c]) : k[c] < k[y]
      /\ k \in [Nat -> Int] /\ D \subseteq Nat /\ Sub(S, B[c]) \subseteq D
  <2>1. /\ A[c] \in D /\ S[c] = {c} \union Sub(S, A[c]) \union Sub(S, B[c])
        /\ \A y \in Sub(S, B[c]) : k[c] < k[y]
        /\ k \in [Nat -> Int] /\ D \subseteq Nat
    BY LinksOfTree
  <2>2. A[c] \in Sub(S, A[c]) /\ k[A[c]] < k[c] /\ Sub(S, B[c]) \subseteq D
    BY NodesAround
  <2> QED BY <2>1, <2>2 DEF Sub
<1>2. \A x \in D : k[x] \in Int
  BY <1>1
<1>3. k[v] \in Int
  BY <1>1
<1> DEFINE a == A[c]
<1>4. ASSUME NEW y \in D \ S[a] PROVE k[v] # k[y] /\ (k[y] < k[a] <=> k[y] < k[v])
  <2>1. k[a] \in Int /\ k[c] \in Int /\ k[y] \in Int /\ k[a] < k[c]
    BY <1>1, <1>2
  <2>2. CASE y = c
    BY <1>3, <2>1, <2>2
  <2>3. CASE y \in Sub(S, B[c])
    <3>1. k[c] < k[y]
      BY <1>1, <2>3
    <3> HIDE DEF a
    <3> QED BY <1>3, <2>1, <3>1
  <2>4. CASE y \notin S[c]
    <3>1. (\A z \in S[c] : k[y] < k[z]) \/ (\A z \in S[c] : k[z] < k[y])
      BY <2>4, NothingBetween
    <3>2. a \in S[c] /\ c \in S[c]
      BY <1>1
    <3>3. k[v] # k[y] /\ (k[y] < k[c] <=> k[y] < k[v])
      BY <2>4 DEF FitsBelow
    <3> HIDE DEF a
    <3>4. k[y] < k[a] <=> k[y] < k[c]
      BY <2>1, <3>1, <3>2
    <3> QED BY <3>3, <3>4
  <2> QED BY <1>1, <2>2, <2>3, <2>4
<1> QED BY <1>1, <1>4 DEF FitsBelow

\* Where a node belongs, seen in a mirror.
LEMMA MirrorFits ==
  ASSUME NEW D, NEW top, NEW P, NEW A, NEW B, NEW S, NEW k, IsTree(D, top, P, A, B, S, k),
         NEW v \in Nat, NEW c \in D, FitsBelow(v, c, D, S, k)
  PROVE  FitsBelow(v, c, D, S, Mirror(k))
<1> DEFINE m == Mirror(k)
<1>1. k \in [Nat -> Int] /\ D \subseteq Nat /\ c \in S[c]
  BY LinksOfTree, NodesAround
<1>2. \A x \in Nat : k[x] \in Int /\ m[x] = -k[x]
  BY <1>1 DEF Mirror
<1> HIDE DEF m
<1>3. ASSUME NEW y \in D \ S[c] PROVE m[v] # m[y] /\ (m[y] < m[c] <=> m[y] < m[v])
  <2>1. k[y] \in Int /\ k[c] \in Int /\ k[v] \in Int /\ m[y] = -k[y] /\ m[c] = -k[c] /\ m[v] = -k[v]
    BY <1>1, <1>2
  <2>2. k[y] # k[c]
    <3>1. (\A z \in S[c] : k[y] < k[z]) \/ (\A z \in S[c] : k[z] < k[y])
      BY NothingBetween
    <3>2. k[y] < k[c] \/ k[c] < k[y]
      BY <1>1, <3>1
    <3> QED BY <2>1, <3>2
  <2>3. k[v] # k[y] /\ (k[y] < k[c] <=> k[y] < k[v])
    BY DEF FitsBelow
  <2> QED BY <2>1, <2>2, <2>3
<1> QED BY <1>3 DEF FitsBelow, m

\* The records with a leaf that no link leads to yet.
IsHung(v, c, D, P, A, B, H, P2, A2, B2, H2) ==
  /\ P2 = [x \in D \union {v} |-> IF x = v THEN c ELSE P[x]]
  /\ A2 = [x \in D \union {v} |-> IF x = v THEN Nil ELSE A[x]]
  /\ B2 = [x \in D \union {v} |-> IF x = v THEN Nil ELSE B[x]]
  /\ H2 = [x \in D \union {v} |-> IF x = v THEN 1 ELSE H[x]]

LEMMA WithFields ==
  ASSUME NEW t, NEW D, NEW P, NEW A, NEW B, NEW H, FieldsAre(t, D, P, A, B, H),
         NEW v \in Nat, v \notin D, NEW c \in Nat,
         NEW P2, NEW A2, NEW B2, NEW H2, IsHung(v, c, D, P, A, B, H, P2, A2, B2, H2)
  PROVE  FieldsAre(With(t, v, Leaf(c)), D \union {v}, P2, A2, B2, H2)
<1> DEFINE D2 == D \union {v}
           u == With(t, v, Leaf(c))
<1>0. /\ P2 = [x \in D2 |-> IF x = v THEN c ELSE P[x]]
      /\ A2 = [x \in D2 |-> IF x = v THEN Nil ELSE A[x]]
      /\ B2 = [x \in D2 |-> IF x = v THEN Nil ELSE B[x]]
      /\ H2 = [x \in D2 |-> IF x = v THEN 1 ELSE H[x]]
  BY DEF IsHung
<1> USE <1>0
<1>1. /\ DOMAIN t = D /\ t \in [D -> LevelRecord]
      /\ \A x \in D : /\ t[x].parent = P[x] /\ t[x].left_child = A[x]
                      /\ t[x].right_child = B[x] /\ t[x].height = H[x]
  BY FieldsOf
<1>2. Leaf(c) \in LevelRecord
  BY DEF Leaf, LevelRecord, Nil
<1>3. /\ Leaf(c).parent = c /\ Leaf(c).left_child = Nil /\ Leaf(c).right_child = Nil
      /\ Leaf(c).height = 1
  BY DEF Leaf
<1>4. u = [x \in D2 |-> IF x = v THEN Leaf(c) ELSE t[x]]
  BY <1>1 DEF With
<1>5. u \in [D2 -> LevelRecord] /\ DOMAIN u = D2
  BY <1>1, <1>2, <1>4
<1>6. \A x \in D2 : /\ u[x].parent = P2[x] /\ u[x].left_child = A2[x]
                    /\ u[x].right_child = B2[x] /\ u[x].height = H2[x]
  BY <1>1, <1>3, <1>4
<1>7. P2 = [x \in D2 |-> P2[x]] /\ A2 = [x \in D2 |-> A2[x]] /\ B2 = [x \in D2 |-> B2[x]]
      /\ H2 = [x \in D2 |-> H2[x]]
  OBVIOUS
<1> HIDE DEF u, D2
<1>8. FieldsAre(u, D2, P2, A2, B2, H2)
  <2>1. /\ Par(u) = [x \in D2 |-> P2[x]] /\ Lft(u) = [x \in D2 |-> A2[x]]
        /\ Rgt(u) = [x \in D2 |-> B2[x]] /\ Hgt(u) = [x \in D2 |-> H2[x]]
    BY <1>5, <1>6 DEF Par, Lft, Rgt, Hgt
  <2> QED BY <1>5, <1>7, <2>1 DEF FieldsAre
<1> QED BY <1>8 DEF u, D2

\* A new leaf on the left, and on the right.
LEMMA LeafOnTheLeft ==
  ASSUME NEW t, NEW D, NEW P, NEW A, NEW B, NEW H, FieldsAre(t, D, P, A, B, H),
         NEW top, NEW S, NEW k, IsTree(D, top, P, A, B, S, k), Settled(D, Nil, A, B, H),
         NEW c \in D, NEW v \in Nat \ {0}, v \notin D, A[c] = Nil, k[v] < k[c],
         FitsBelow(v, c, D, S, k)
  PROVE  TreeAt([With(t, v, Leaf(c)) EXCEPT ![c].left_child = v], D \union {v}, top, c, k)
<1> DEFINE D2 == D \union {v}
           u == With(t, v, Leaf(c))
           P2 == [x \in D2 |-> IF x = v THEN c ELSE P[x]]
           A1 == [x \in D2 |-> IF x = v THEN Nil ELSE A[x]]
           A2 == [x \in D2 |-> IF x = v THEN Nil ELSE IF x = c THEN v ELSE A[x]]
           B2 == [x \in D2 |-> IF x = v THEN Nil ELSE B[x]]
           H2 == [x \in D2 |-> IF x = v THEN 1 ELSE H[x]]
<1>1. D \subseteq Nat
  BY LinksOfTree
<1>2. A2 = [A1 EXCEPT ![c] = v]
  OBVIOUS
<1>3. IsLeaf(v, c, D, P, A, B, P2, A2, B2) /\ IsHung(v, c, D, P, A, B, H, P2, A1, B2, H2)
  BY DEF IsLeaf, IsHung
<1> HIDE DEF P2, A1, A2, B2
<1>4. PICK S2 : IsTree(D2, top, P2, A2, B2, S2, k)
  BY <1>3, LeafIsTree
<1>5. Settled(D2, c, A2, B2, H2)
  BY <1>3, LeafSettles
<1> HIDE DEF H2
<1>7. FieldsAre(u, D2, P2, A1, B2, H2)
  BY <1>1, <1>3, WithFields
<1> HIDE DEF u
<1>6. FieldsAre([u EXCEPT ![c].left_child = v], D2, P2, A2, B2, H2)
  BY <1>2, <1>7, SetLeft
<1> QED BY <1>4, <1>5, <1>6 DEF TreeAt, u

LEMMA LeafOnTheRight ==
  ASSUME NEW t, NEW D, NEW P, NEW A, NEW B, NEW H, FieldsAre(t, D, P, A, B, H),
         NEW top, NEW S, NEW k, IsTree(D, top, P, A, B, S, k), Settled(D, Nil, A, B, H),
         NEW c \in D, NEW v \in Nat \ {0}, v \notin D, B[c] = Nil, k[c] < k[v],
         FitsBelow(v, c, D, S, k)
  PROVE  TreeAt([With(t, v, Leaf(c)) EXCEPT ![c].right_child = v], D \union {v}, top, c, k)
<1> DEFINE D2 == D \union {v}
           m == Mirror(k)
           u == With(t, v, Leaf(c))
           P2 == [x \in D2 |-> IF x = v THEN c ELSE P[x]]
           A2 == [x \in D2 |-> IF x = v THEN Nil ELSE A[x]]
           B1 == [x \in D2 |-> IF x = v THEN Nil ELSE B[x]]
           B2 == [x \in D2 |-> IF x = v THEN Nil ELSE IF x = c THEN v ELSE B[x]]
           H2 == [x \in D2 |-> IF x = v THEN 1 ELSE H[x]]
<1>1. D \subseteq Nat /\ k \in [Nat -> Int] /\ A \in [D -> D \union {Nil}]
      /\ B \in [D -> D \union {Nil}]
  BY LinksOfTree
<1>2. B2 = [B1 EXCEPT ![c] = v]
  OBVIOUS
<1>3. IsTree(D, top, P, B, A, S, m) /\ FitsBelow(v, c, D, S, m)
  BY MirrorIsTree, MirrorFits
<1>4. m[v] < m[c]
  BY <1>1 DEF Mirror
<1>5. Settled(D, Nil, B, A, H)
  BY <1>1, MirrorSettled
<1> HIDE DEF m
<1>00. IsLeaf(v, c, D, P, B, A, P2, B2, A2) /\ IsHung(v, c, D, P, A, B, H, P2, A2, B1, H2)
  BY DEF IsLeaf, IsHung
<1> HIDE DEF P2, A2, B1, B2
<1>6. PICK S2 : IsTree(D2, top, P2, B2, A2, S2, m)
  BY <1>00, <1>3, <1>4, LeafIsTree
<1>7. Settled(D2, c, B2, A2, H2)
  BY <1>00, <1>3, <1>5, LeafSettles
<1> HIDE DEF H2
<1>8. FieldsAre(u, D2, P2, A2, B1, H2)
  BY <1>00, <1>1, WithFields
<1> HIDE DEF u
<1>9. FieldsAre([u EXCEPT ![c].right_child = v], D2, P2, A2, B2, H2)
  BY <1>2, <1>8, SetRight
<1>10. IsTree(D2, top, P2, A2, B2, S2, k)
  BY <1>1, <1>6, MirrorBack DEF m
<1>11. Settled(D2, c, A2, B2, H2)
  <2>1. /\ D2 \subseteq Nat /\ A2 \in [D2 -> D2 \union {Nil}] /\ B2 \in [D2 -> D2 \union {Nil}]
    BY <1>10, LinksOfTree
  <2> HIDE DEF D2
  <2>2. c \in D2 \union {Nil}
    BY DEF D2
  <2> QED BY <1>7, <2>1, <2>2, MirrorSettled
<1> QED BY <1>9, <1>10, <1>11 DEF TreeAt, u

\* The first level.
LEMMA FirstLevel ==
  ASSUME NEW v \in Nat \ {0}, NEW t, DOMAIN t = {}, NEW k \in [Nat -> Int]
  PROVE  TreeAt(With(t, v, Leaf(Nil)), {v}, v, Nil, k)
<1> DEFINE u == With(t, v, Leaf(Nil))
           N == [x \in {v} |-> Nil]
           H == [x \in {v} |-> 1]
           S == [x \in {v} |-> {v}]
<1>1. u = [x \in {v} |-> Leaf(Nil)] /\ DOMAIN u = {v}
  BY DEF With
<1>2. Leaf(Nil) \in LevelRecord
  BY DEF Leaf, LevelRecord, Nil
<1>3. /\ Leaf(Nil).parent = Nil /\ Leaf(Nil).left_child = Nil
      /\ Leaf(Nil).right_child = Nil /\ Leaf(Nil).height = 1
  BY DEF Leaf
<1>4. FieldsAre(u, {v}, N, N, N, H)
  <2> HIDE DEF u
  <2> QED BY <1>1, <1>2, <1>3 DEF FieldsAre, Par, Lft, Rgt, Hgt
<1>5. IsTree({v}, v, N, N, N, S, k)
  <2>1. IsFiniteSet({v})
    BY FS_Singleton
  <2> QED BY <2>1 DEF IsTree, Sub, Nil
<1>6. Settled({v}, Nil, N, N, H)
  BY DEF Settled, Even, HeightAt, Taller, Nil
<1> HIDE DEF u, N, H, S
<1> QED BY <1>4, <1>5, <1>6 DEF TreeAt, u
-----------------------------------------------------------------------------
(* The invariant *)

byPrice == [x \in Nat |-> x]

\* The levels as they stand, all even, S their subtrees.
Stands(S) ==
  /\ FieldsAre(node, DOMAIN node, Par(node), Lft(node), Rgt(node), Hgt(node))
  /\ IsTree(DOMAIN node, root, Par(node), Lft(node), Rgt(node), S, byPrice)
  /\ Settled(DOMAIN node, Nil, Lft(node), Rgt(node), Hgt(node))

\* The level to insert belongs below the cursor.
GoesBelow(S) ==
  /\ level \in Price \ DOMAIN node /\ cur \in DOMAIN node
  /\ FitsBelow(level, cur, DOMAIN node, S, byPrice)

\* The first level after the one to remove is the cursor or to its left.
SuccessorBelow(S) ==
  /\ level \in DOMAIN node /\ Lft(node)[level] # Nil /\ Rgt(node)[level] # Nil
  /\ cur \in Sub(S, Rgt(node)[level])
  /\ \A y \in Sub(S, Rgt(node)[level]) \ S[cur] : cur < y

\* Between the operations, and in each of the loops.
TreeInv ==
  /\ pc \in {"idle", "descend", "successor", "rebalance"}
  /\ prices \subseteq Price /\ DOMAIN node \subseteq Price
  /\ pc = "idle" => TreeAt(node, prices, root, Nil, byPrice)
  /\ pc = "descend" => prices = DOMAIN node \union {level} /\ \E S : Stands(S) /\ GoesBelow(S)
  /\ pc = "successor" => prices = DOMAIN node \ {level} /\ \E S : Stands(S) /\ SuccessorBelow(S)
  /\ pc = "rebalance" => cur \in prices /\ TreeAt(node, prices, root, cur, byPrice)

LEMMA TreeAtFields ==
  ASSUME NEW t, NEW D, NEW top, NEW p, NEW k, TreeAt(t, D, top, p, k)
  PROVE  /\ DOMAIN t = D /\ FieldsAre(t, D, Par(t), Lft(t), Rgt(t), Hgt(t))
         /\ \E S : IsTree(D, top, Par(t), Lft(t), Rgt(t), S, k)
         /\ Settled(D, p, Lft(t), Rgt(t), Hgt(t))
<1>1. PICK P, A, B, H, S :
        FieldsAre(t, D, P, A, B, H) /\ IsTree(D, top, P, A, B, S, k) /\ Settled(D, p, A, B, H)
  BY DEF TreeAt
<1>2. P = Par(t) /\ A = Lft(t) /\ B = Rgt(t) /\ H = Hgt(t) /\ t \in [D -> LevelRecord]
  BY <1>1 DEF FieldsAre
<1> QED BY <1>1, <1>2

LEMMA StandsAtRest ==
  ASSUME NEW D, TreeAt(node, D, root, Nil, byPrice)
  PROVE  DOMAIN node = D /\ \E S : Stands(S)
<1>1. DOMAIN node = D /\ FieldsAre(node, D, Par(node), Lft(node), Rgt(node), Hgt(node))
  BY TreeAtFields
<1>2. PICK S : IsTree(D, root, Par(node), Lft(node), Rgt(node), S, byPrice)
  BY TreeAtFields
<1>3. Settled(D, Nil, Lft(node), Rgt(node), Hgt(node))
  BY TreeAtFields
<1> QED BY <1>1, <1>2, <1>3 DEF Stands

\* What the fields of the levels are, and what the links of the tree say.
LEMMA FieldsOfLevels ==
  ASSUME FieldsAre(node, DOMAIN node, Par(node), Lft(node), Rgt(node), Hgt(node))
  PROVE  \A x \in DOMAIN node :
           /\ node[x].parent = Par(node)[x] /\ node[x].left_child = Lft(node)[x]
           /\ node[x].right_child = Rgt(node)[x] /\ node[x].height = Hgt(node)[x]
BY DEF Par, Lft, Rgt, Hgt

LEMMA PricesAreNumbers == Price \subseteq Nat \ {0} /\ byPrice \in [Nat -> Int]
                          /\ \A x \in Nat : byPrice[x] = x
BY PriceAssumption DEF byPrice

\* rebalance_up begins where Settled stops.
LEMMA StartKeeps ==
  ASSUME NEW p, StartRebalance(p), p \in prices' \union {Nil}, prices' \subseteq Price,
         TreeAt(node', prices', root', p, byPrice)
  PROVE  TreeInv'
<1>1. DOMAIN node' = prices'
  BY TreeAtFields
<1>2. cur' = p /\ pc' = IF p = Nil THEN "idle" ELSE "rebalance"
  BY DEF StartRebalance
<1> QED BY <1>1, <1>2 DEF TreeInv, byPrice

LEMMA InitInv == Init => TreeInv
<1> SUFFICES ASSUME Init PROVE TreeInv
  OBVIOUS
<1>1. /\ node = <<>> /\ root = Nil /\ pc = "idle" /\ prices = {} /\ DOMAIN node = {}
      /\ node = [x \in {} |-> x]
  BY DEF Init
<1> DEFINE E == [x \in {} |-> Nil]
           S == [x \in {} |-> {}]
<1>2. FieldsAre(node, {}, E, E, E, E)
  BY <1>1 DEF FieldsAre, Par, Lft, Rgt, Hgt
<1>3. IsTree({}, root, E, E, E, S, byPrice)
  BY <1>1, FS_EmptySet, PricesAreNumbers DEF IsTree
<1>4. Settled({}, Nil, E, E, E)
  BY DEF Settled
<1>5. TreeAt(node, {}, root, Nil, byPrice)
  <2> HIDE DEF E, S
  <2> QED BY <1>2, <1>3, <1>4 DEF TreeAt
<1> QED BY <1>1, <1>5 DEF TreeInv

LEMMA InsertKeepsInv ==
  ASSUME TreeInv, NEW p \in Price, Insert(p)
  PROVE  TreeInv'
<1>1. /\ pc = "idle" /\ p \notin prices /\ prices' = prices \union {p} /\ level' = p
      /\ TreeAt(node, prices, root, Nil, byPrice)
  BY DEF Insert, TreeInv
<1>2. DOMAIN node = prices /\ prices \subseteq Price
  BY <1>1, TreeAtFields DEF TreeInv
<1>3. PICK S : Stands(S)
  BY <1>1, StandsAtRest
<1>4. /\ root \in prices \union {Nil}
      /\ root # Nil => S[root] = prices
      /\ root = Nil => prices = {}
  BY <1>2, <1>3, LinksOfTree DEF Stands
<1>5. CASE root = Nil
  <2>1. /\ node' = With(node, p, Leaf(Nil)) /\ root' = p /\ pc' = pc
    BY <1>5 DEF Insert
  <2>2. TreeAt(With(node, p, Leaf(Nil)), {p}, p, Nil, byPrice)
    BY <1>2, <1>4, <1>5, FirstLevel, PricesAreNumbers
  <2>3. prices' = {p} /\ TreeAt(node', prices', root', Nil, byPrice)
    BY <1>1, <1>4, <1>5, <2>1, <2>2
  <2>4. DOMAIN node' = prices'
    BY <2>3, TreeAtFields
  <2> QED BY <1>1, <2>1, <2>3, <2>4 DEF TreeInv, byPrice
<1>6. CASE root # Nil
  <2>1. node' = node /\ root' = root /\ cur' = root /\ pc' = "descend"
    BY <1>6 DEF Insert
  <2>2. Stands(S)'
    BY <1>3, <2>1 DEF Stands, byPrice
  <2>3. GoesBelow(S)'
    <3>1. DOMAIN node' \ S[cur'] = {}
      BY <1>2, <1>4, <1>6, <2>1
    <3> QED BY <1>1, <1>2, <1>4, <1>6, <2>1, <3>1 DEF GoesBelow, FitsBelow
  <2> QED BY <1>1, <1>2, <2>1, <2>2, <2>3 DEF TreeInv
<1> QED BY <1>5, <1>6

LEMMA DescendKeepsInv ==
  ASSUME TreeInv, Descend
  PROVE  TreeInv'
<1> DEFINE D == DOMAIN node
           P == Par(node)
           A == Lft(node)
           B == Rgt(node)
           H == Hgt(node)
<1>1. /\ pc = "descend" /\ prices = D \union {level} /\ prices \subseteq Price
      /\ root' = root /\ level' = level /\ prices' = prices
  BY DEF TreeInv, Descend
<1>2. PICK S : Stands(S) /\ GoesBelow(S)
  BY <1>1 DEF TreeInv
<1>3. /\ FieldsAre(node, D, P, A, B, H) /\ IsTree(D, root, P, A, B, S, byPrice)
      /\ Settled(D, Nil, A, B, H)
  BY <1>2 DEF Stands
<1>4. /\ level \in Price \ D /\ cur \in D /\ FitsBelow(level, cur, D, S, byPrice)
      /\ level \in Nat \ {0} /\ cur \in Nat /\ level # cur
      /\ byPrice[level] = level /\ byPrice[cur] = cur
  BY <1>1, <1>2, PricesAreNumbers DEF GoesBelow
<1>5. node[cur].left_child = A[cur] /\ node[cur].right_child = B[cur]
  BY <1>3, <1>4, FieldsOfLevels
<1> DEFINE child == IF level < cur THEN A[cur] ELSE B[cur]
           hung == With(node, level, Leaf(cur))
<1>6. \/ child # Nil /\ cur' = child /\ node' = node /\ pc' = pc
      \/ /\ child = Nil /\ StartRebalance(cur)
         /\ node' = IF level < cur THEN [hung EXCEPT ![cur].left_child = level]
                    ELSE [hung EXCEPT ![cur].right_child = level]
  BY <1>5 DEF Descend
<1> HIDE DEF D, P, A, B, H, hung
<1>7. CASE child # Nil /\ cur' = child /\ node' = node /\ pc' = pc
  <2>1. child \in D /\ FitsBelow(level, child, D, S, byPrice)
    <3>1. CASE level < cur
      <4>1. A[cur] \in D /\ FitsBelow(level, A[cur], D, S, byPrice)
        BY <1>3, <1>4, <1>7, <3>1, StepDown
      <4> QED BY <3>1, <4>1
    <3>2. CASE ~(level < cur)
      <4> DEFINE m == Mirror(byPrice)
      <4>1. IsTree(D, root, P, B, A, S, m) /\ FitsBelow(level, cur, D, S, m)
        BY <1>3, <1>4, MirrorIsTree, MirrorFits
      <4>2. m[level] < m[cur]
        BY <1>4, <3>2 DEF Mirror
      <4> HIDE DEF m
      <4>3. B[cur] \in D /\ FitsBelow(level, B[cur], D, S, m)
        BY <1>4, <1>7, <3>2, <4>1, <4>2, StepDown
      <4>4. FitsBelow(level, B[cur], D, S, Mirror(m))
        BY <1>4, <4>1, <4>3, MirrorFits
      <4>5. Mirror(m) = byPrice
        BY DEF m, byPrice, Mirror
      <4> QED BY <3>2, <4>3, <4>4, <4>5
    <3> QED BY <3>1, <3>2
  <2>2. Stands(S)'
    BY <1>1, <1>2, <1>7 DEF Stands, byPrice
  <2>3. GoesBelow(S)'
    BY <1>1, <1>4, <1>7, <2>1 DEF GoesBelow, D, byPrice
  <2>4. prices' = DOMAIN node' \union {level'} /\ prices' \subseteq Price /\ pc' = "descend"
    BY <1>1, <1>7 DEF D
  <2> HIDE DEF child
  <2> QED BY <2>2, <2>3, <2>4 DEF TreeInv
<1>8. CASE /\ child = Nil /\ StartRebalance(cur)
           /\ node' = IF level < cur THEN [hung EXCEPT ![cur].left_child = level]
                      ELSE [hung EXCEPT ![cur].right_child = level]
  <2>1. TreeAt(node', D \union {level}, root, cur, byPrice)
    <3>1. CASE level < cur
      <4>1. TreeAt([With(node, level, Leaf(cur)) EXCEPT ![cur].left_child = level],
                   D \union {level}, root, cur, byPrice)
        BY <1>3, <1>4, <1>8, <3>1, LeafOnTheLeft
      <4> QED BY <1>8, <3>1, <4>1 DEF hung
    <3>2. CASE ~(level < cur)
      <4>1. cur < level
        BY <1>4, <3>2
      <4>2. TreeAt([With(node, level, Leaf(cur)) EXCEPT ![cur].right_child = level],
                   D \union {level}, root, cur, byPrice)
        BY <1>3, <1>4, <1>8, <3>2, <4>1, LeafOnTheRight
      <4> QED BY <1>8, <3>2, <4>2 DEF hung
    <3> QED BY <3>1, <3>2
  <2>2. cur \in prices' \union {Nil} /\ TreeAt(node', prices', root', cur, byPrice)
    BY <1>1, <1>4, <2>1
  <2> QED BY <1>1, <1>8, <2>2, StartKeeps
<1> QED BY <1>6, <1>7, <1>8

LEMMA RemoveKeepsInv ==
  ASSUME TreeInv, NEW p \in Price, Remove(p)
  PROVE  TreeInv'
<1>1. /\ pc = "idle" /\ p \in prices /\ prices' = prices \ {p} /\ level' = p
      /\ TreeAt(node, prices, root, Nil, byPrice) /\ prices \subseteq Price
  BY DEF Remove, TreeInv
<1>2. DOMAIN node = prices
  BY <1>1, TreeAtFields
<1>3. PICK S : Stands(S)
  BY <1>1, StandsAtRest
<1> DEFINE D == DOMAIN node
           P == Par(node)
           A == Lft(node)
           B == Rgt(node)
           H == Hgt(node)
<1>4. /\ FieldsAre(node, D, P, A, B, H) /\ IsTree(D, root, P, A, B, S, byPrice)
      /\ Settled(D, Nil, A, B, H)
  BY <1>3 DEF Stands
<1>5. node[p].left_child = A[p] /\ node[p].right_child = B[p] /\ p \in D
  BY <1>1, <1>2, <1>4, FieldsOfLevels
<1>6. CASE A[p] # Nil /\ B[p] # Nil
  <2>1. node' = node /\ root' = root /\ cur' = B[p] /\ pc' = "successor"
    BY <1>5, <1>6 DEF Remove
  <2>2. Stands(S)'
    BY <1>3, <2>1 DEF Stands, byPrice
  <2>3. B[p] \in Sub(S, B[p])
    <3> HIDE DEF D, P, A, B
    <3> QED BY <1>4, <1>5, <1>6, NodesAround
  <2>4. Sub(S, B[p]) \ S[B[p]] = {}
    BY DEF Sub
  <2>5. SuccessorBelow(S)'
    <3>1. DOMAIN node' = D /\ Lft(node') = A /\ Rgt(node') = B
      BY <2>1
    <3> HIDE DEF D, A, B
    <3> QED BY <1>1, <1>5, <1>6, <2>1, <2>3, <2>4, <3>1 DEF SuccessorBelow, Sub
  <2> HIDE DEF P, A, B, H
  <2> QED BY <1>1, <1>2, <2>1, <2>2, <2>5 DEF TreeInv
<1>7. CASE ~(A[p] # Nil /\ B[p] # Nil)
  <2>1. Unlink(node, root, p)
    BY <1>5, <1>7 DEF Remove
  <2>2. /\ node' = Unhooked(node, p) /\ root' = UnhookedTop(node, p, root)
        /\ StartRebalance(node[p].parent)
    BY <2>1 DEF Unlink, Unhooked, UnhookedTop, OnlyChild
  <2>3. /\ TreeAt(Unhooked(node, p), D \ {p}, UnhookedTop(node, p, root), node[p].parent, byPrice)
        /\ node[p].parent \in (D \ {p}) \union {Nil}
    <3> HIDE DEF D, P, A, B, H
    <3> QED BY <1>4, <1>5, <1>7, UnhookIsTree
  <2>4. /\ node[p].parent \in prices' \union {Nil} /\ prices' \subseteq Price
        /\ TreeAt(node', prices', root', node[p].parent, byPrice)
    BY <1>1, <1>2, <2>2, <2>3
  <2> QED BY <2>2, <2>4, StartKeeps
<1> QED BY <1>6, <1>7

LEMMA SuccessorKeepsInv ==
  ASSUME TreeInv, Successor
  PROVE  TreeInv'
<1> DEFINE D == DOMAIN node
           P == Par(node)
           A == Lft(node)
           B == Rgt(node)
           H == Hgt(node)
           r == B[level]
<1>1. /\ pc = "successor" /\ prices = D \ {level} /\ prices \subseteq Price /\ D \subseteq Price
      /\ level' = level /\ prices' = prices
  BY DEF TreeInv, Successor
<1>2. PICK S : Stands(S) /\ SuccessorBelow(S)
  BY <1>1 DEF TreeInv
<1>3. /\ FieldsAre(node, D, P, A, B, H) /\ IsTree(D, root, P, A, B, S, byPrice)
      /\ Settled(D, Nil, A, B, H)
  BY <1>2 DEF Stands
<1>4. /\ level \in D /\ A[level] # Nil /\ r # Nil /\ cur \in Sub(S, r)
      /\ \A y \in Sub(S, r) \ S[cur] : cur < y
  BY <1>2 DEF SuccessorBelow
<1>5. \A x \in D : node[x].left_child = A[x]
  BY <1>3, FieldsOfLevels
<1>6. D \subseteq Nat \ {0} /\ \A x \in Nat : byPrice[x] = x
  BY <1>1, PricesAreNumbers
<1> HIDE DEF D, P, A, B, H
<1>7. /\ r \in D /\ Sub(S, r) = S[r] /\ S[r] \subseteq D /\ cur \in D /\ cur \in S[r]
  <2>1. r \in D /\ S \in [D -> SUBSET D]
    BY <1>3, <1>4, LinksOfTree
  <2> HIDE DEF r
  <2> QED BY <1>4, <2>1 DEF Sub
<1>8. CASE A[cur] # Nil
  <2>1. /\ node' = node /\ root' = root /\ pc' = pc /\ cur' = A[cur]
    BY <1>5, <1>7, <1>8 DEF Successor
  <2>2. /\ A[cur] \in S[cur] /\ S[cur] = {cur} \union S[A[cur]] \union Sub(S, B[cur])
        /\ A[cur] < cur /\ \A y \in Sub(S, B[cur]) : cur < y
        /\ A[cur] \in D /\ Sub(S, B[cur]) \subseteq D
    <3>1. /\ A[cur] \in D /\ S[cur] = {cur} \union Sub(S, A[cur]) \union Sub(S, B[cur])
          /\ \A y \in Sub(S, B[cur]) : byPrice[cur] < byPrice[y]
      BY <1>3, <1>7, <1>8, LinksOfTree
    <3>2. /\ A[cur] \in Sub(S, A[cur]) /\ byPrice[A[cur]] < byPrice[cur]
          /\ Sub(S, B[cur]) \subseteq D
      BY <1>3, <1>7, <1>8, NodesAround
    <3>3. \A x \in D : byPrice[x] = x
      BY <1>6
    <3> QED BY <1>7, <1>8, <3>1, <3>2, <3>3 DEF Sub
  <2>3. S[cur] \subseteq S[r]
    BY <1>3, <1>7, BelowIsBelow
  <2>4. ASSUME NEW y \in S[r] \ S[A[cur]] PROVE A[cur] < y
    <3>1. A[cur] \in Nat /\ cur \in Nat /\ y \in Nat
      BY <1>6, <1>7, <2>2
    <3>2. cur < y \/ cur = y
      BY <1>4, <1>7, <2>2, <2>4
    <3> QED BY <2>2, <3>1, <3>2
  <2>5. Stands(S)'
    BY <1>2, <2>1 DEF Stands, byPrice
  <2>6. SuccessorBelow(S)'
    <3>1. DOMAIN node' = D /\ Lft(node') = A /\ Rgt(node') = B
      BY <2>1 DEF D, A, B
    <3>2. A[cur] \in S[r]
      BY <2>2, <2>3
    <3>3. A[cur] \in Sub(S, r) /\ \A y \in Sub(S, r) \ S[A[cur]] : A[cur] < y
      BY <1>7, <2>4, <3>2
    <3> QED BY <1>1, <1>4, <2>1, <3>1, <3>3 DEF SuccessorBelow, Sub
  <2>7. prices' = DOMAIN node' \ {level'} /\ DOMAIN node' \subseteq Price /\ pc' = "successor"
    BY <1>1, <2>1 DEF D
  <2> QED BY <1>1, <2>5, <2>6, <2>7 DEF TreeInv
<1>9. CASE A[cur] = Nil
  <2> DEFINE u == Exchange(node, level, cur)
             top == IF node[level].parent = Nil THEN cur ELSE root
  <2>1. Unlink(u, top, level)
    BY <1>5, <1>7, <1>9 DEF Successor
  <2>2. /\ node' = Unhooked(u, level) /\ root' = UnhookedTop(u, level, top)
        /\ StartRebalance(u[level].parent)
    <3> HIDE DEF u, top
    <3> QED BY <2>1 DEF Unlink, Unhooked, UnhookedTop, OnlyChild
  <2>3. \A y \in Sub(S, B[level]) \ S[cur] : byPrice[cur] < byPrice[y]
    <3>1. \A x \in D : byPrice[x] = x
      BY <1>6
    <3>2. Sub(S, B[level]) \subseteq D
      BY <1>7
    <3> QED BY <1>4, <1>7, <3>1, <3>2
  <2>4. /\ TreeAt(Unhooked(u, level), D \ {level}, UnhookedTop(u, level, top), u[level].parent,
                  byPrice)
        /\ u[level].parent \in D \ {level}
    <3>1. /\ level \in D /\ A[level] # Nil /\ B[level] # Nil
          /\ cur \in Sub(S, B[level]) /\ A[cur] = Nil
      BY <1>4, <1>9
    <3> HIDE DEF r
    <3> QED BY <1>3, <2>3, <3>1, SuccessionIsTree
  <2>5. /\ u[level].parent \in prices' \union {Nil} /\ prices' \subseteq Price
        /\ TreeAt(node', prices', root', u[level].parent, byPrice)
    <3> HIDE DEF u, top
    <3> QED BY <1>1, <2>2, <2>4
  <2> HIDE DEF u, top
  <2> QED BY <2>2, <2>5, StartKeeps
<1> QED BY <1>8, <1>9

\* What one step of rebalance_up does; the parent of the cursor is higher, and its
\* height stays.
LEMMA RebalanceClimbs ==
  ASSUME TreeInv, Rebalance
  PROVE  /\ \E p \in prices \union {Nil} :
              /\ StartRebalance(p) /\ TreeAt(node', prices, root', p, byPrice)
              /\ p # Nil => /\ node'[p].height = node[p].height
                                /\ node[p].height > node[cur].height
         /\ prices' = prices
<1> DEFINE D == DOMAIN node
           P == Par(node)
           A == Lft(node)
           B == Rgt(node)
           H == Hgt(node)
           p == P[cur]
           f == fix_one(node, cur)
           t2 == IF f.top = cur THEN f.tree
                 ELSE [Relink(f.tree, p, cur, f.top) EXCEPT ![f.top].parent = p]
           top2 == IF p = Nil THEN f.top ELSE root
<1>1. /\ pc = "rebalance" /\ cur \in prices /\ TreeAt(node, prices, root, cur, byPrice)
      /\ prices' = prices
  BY DEF TreeInv, Rebalance
<1>2. /\ D = prices /\ FieldsAre(node, D, P, A, B, H) /\ Settled(D, cur, A, B, H)
  BY <1>1, TreeAtFields
<1>3. PICK S : IsTree(D, root, P, A, B, S, byPrice)
  BY <1>1, <1>2, TreeAtFields
<1>4. \A x \in D : node[x].parent = P[x] /\ node[x].height = H[x]
  BY <1>2, FieldsOfLevels
<1>5. node' = t2 /\ root' = top2 /\ StartRebalance(p)
  <2>1. node[cur].parent = p
    BY <1>1, <1>2, <1>4
  <2> HIDE DEF p, f
  <2> QED BY <2>1 DEF Rebalance, f
<1> HIDE DEF D, P, A, B, H
<1>6. Climbed(t2, D, top2, p, H, byPrice)
  <2>1. f = fix_one(node, cur) /\ p = P[cur]
        /\ t2 = IF f.top = cur THEN f.tree
                ELSE [Relink(f.tree, p, cur, f.top) EXCEPT ![f.top].parent = p]
    OBVIOUS
  <2>2. Climbed(t2, D, IF p = Nil THEN f.top ELSE root, p, H, byPrice)
    <3> HIDE DEF f, p, t2
    <3> QED BY <1>1, <1>2, <1>3, <2>1, FixOneClimbs
  <2> QED BY <2>2
<1>7. p \in D \union {Nil} /\ p # cur /\ (p # Nil => A[p] = cur \/ B[p] = cur)
  <2>1. \A x \in D : /\ P[x] \in D \union {Nil}
                     /\ P[x] # Nil => A[P[x]] = x \/ B[P[x]] = x
    BY <1>3, LinksOfTree
  <2>2. \A x \in D : P[x] # x
    BY <1>3, NodesAround
  <2> QED BY <1>1, <1>2, <2>1, <2>2
<1>8. ASSUME p # Nil PROVE H[p] > H[cur]
  <2>1. Even(A, B, H, p) /\ H \in [D -> Nat] /\ cur \in D
    BY <1>1, <1>2, <1>7, <1>8 DEF Settled
  <2>2. \A x \in D : /\ A[x] \in D \union {Nil} /\ B[x] \in D \union {Nil}
                     /\ x # Nil
    BY <1>3, LinksOfTree
  <2>3. HeightAt(H, A[p]) \in Nat /\ HeightAt(H, B[p]) \in Nat /\ HeightAt(H, cur) = H[cur]
        /\ H[p] \in Nat /\ H[cur] \in Nat
    BY <1>7, <1>8, <2>1, <2>2 DEF HeightAt
  <2>4. H[p] > HeightAt(H, A[p]) /\ H[p] > HeightAt(H, B[p])
    <3> HIDE DEF p
    <3> QED BY <2>1, <2>3 DEF Even, Taller
  <2>5. HeightAt(H, A[p]) = H[cur] \/ HeightAt(H, B[p]) = H[cur]
    BY <1>7, <1>8, <2>3
  <2> QED BY <2>4, <2>5
<1> HIDE DEF p, f, t2, top2
<1>9. PICK P2, A2, B2, H2, S2 :
        /\ FieldsAre(t2, D, P2, A2, B2, H2) /\ IsTree(D, top2, P2, A2, B2, S2, byPrice)
        /\ Settled(D, p, A2, B2, H2)
        /\ p # Nil => H2[p] = H[p]
  BY <1>6 DEF Climbed
<1>10. TreeAt(node', prices, root', p, byPrice)
  BY <1>2, <1>5, <1>9 DEF TreeAt
<1>11. ASSUME p # Nil
       PROVE  node'[p].height = node[p].height /\ node[p].height > node[cur].height
  <2>1. \A x \in D : t2[x].height = H2[x]
    BY <1>9, FieldsOf
  <2> QED BY <1>1, <1>2, <1>4, <1>5, <1>7, <1>8, <1>9, <1>11, <2>1
<1> QED BY <1>1, <1>2, <1>5, <1>7, <1>10, <1>11

LEMMA RebalanceKeepsInv ==
  ASSUME TreeInv, Rebalance
  PROVE  TreeInv'
<1>1. PICK p \in prices \union {Nil} :
        StartRebalance(p) /\ TreeAt(node', prices, root', p, byPrice)
  BY RebalanceClimbs
<1>2. prices' = prices /\ prices \subseteq Price
  BY RebalanceClimbs DEF TreeInv
<1>3. p \in prices' \union {Nil} /\ prices' \subseteq Price
      /\ TreeAt(node', prices', root', p, byPrice)
  BY <1>1, <1>2
<1> QED BY <1>1, <1>3, StartKeeps

\* avl_insert, avl_remove and rebalance_up: in every step of theirs the levels are a
\* search tree of the prices, with its heights right but on the way that is still to be
\* climbed.
THEOREM TreeIsSound == Spec => []TreeInv
<1>1. TreeInv /\ [Next]_vars => TreeInv'
  <2> SUFFICES ASSUME TreeInv, [Next]_vars PROVE TreeInv'
    OBVIOUS
  <2>1. CASE UNCHANGED vars
    BY <2>1 DEF TreeInv, vars, Stands, GoesBelow, SuccessorBelow, byPrice
  <2>2. ASSUME NEW p \in Price, Insert(p) PROVE TreeInv'
    BY <2>2, InsertKeepsInv
  <2>3. ASSUME NEW p \in Price, Remove(p) PROVE TreeInv'
    BY <2>3, RemoveKeepsInv
  <2> QED BY <2>1, <2>2, <2>3, DescendKeepsInv, SuccessorKeepsInv, RebalanceKeepsInv
          DEF Next, Call, Step
<1> QED BY <1>1, InitInv, PTL DEF Spec
-----------------------------------------------------------------------------
(* What follows from the invariant *)

\* In all states the levels are a tree, even but at the cursor of rebalance_up.
LEMMA LevelsAreTree ==
  ASSUME TreeInv
  PROVE  \E S, p :
           /\ FieldsAre(node, DOMAIN node, Par(node), Lft(node), Rgt(node), Hgt(node))
           /\ IsTree(DOMAIN node, root, Par(node), Lft(node), Rgt(node), S, byPrice)
           /\ Settled(DOMAIN node, p, Lft(node), Rgt(node), Hgt(node))
           /\ p = Nil \/ (p = cur /\ pc = "rebalance")
<1>1. CASE pc \in {"idle", "rebalance"}
  <2> DEFINE p == IF pc = "idle" THEN Nil ELSE cur
  <2>1. TreeAt(node, prices, root, p, byPrice)
    BY <1>1 DEF TreeInv
  <2>2. p = Nil \/ (p = cur /\ pc = "rebalance")
    BY <1>1
  <2> HIDE DEF p
  <2>3. /\ DOMAIN node = prices
        /\ FieldsAre(node, prices, Par(node), Lft(node), Rgt(node), Hgt(node))
        /\ Settled(prices, p, Lft(node), Rgt(node), Hgt(node))
    BY <2>1, TreeAtFields
  <2>4. PICK S : IsTree(prices, root, Par(node), Lft(node), Rgt(node), S, byPrice)
    BY <2>1, TreeAtFields
  <2> QED BY <2>2, <2>3, <2>4
<1>2. CASE pc \in {"descend", "successor"}
  <2>1. PICK S : Stands(S)
    BY <1>2 DEF TreeInv
  <2> QED BY <2>1 DEF Stands
<1> QED BY <1>1, <1>2 DEF TreeInv

\* rotate_left, rotate_right, the exchange of avl_remove: after every step all the links
\* have their counterparts, whatever the prices and however many.
THEOREM LinksHaveCounterparts == Spec => []LinksAgree
<1>1. TreeInv => LinksAgree
  <2> SUFFICES ASSUME TreeInv PROVE LinksAgree
    OBVIOUS
  <2> DEFINE D == DOMAIN node
             P == Par(node)
             A == Lft(node)
             B == Rgt(node)
  <2>1. PICK S, p :
          /\ FieldsAre(node, D, P, A, B, Hgt(node)) /\ IsTree(D, root, P, A, B, S, byPrice)
          /\ Settled(D, p, A, B, Hgt(node))
          /\ p = Nil \/ (p = cur /\ pc = "rebalance")
    BY LevelsAreTree
  <2>2. \A n \in D : /\ node[n].parent = P[n] /\ node[n].left_child = A[n]
                     /\ node[n].right_child = B[n]
    BY <2>1, FieldsOfLevels
  <2> HIDE DEF D, P, A, B
  <2>3. /\ root # Nil => root \in D
        /\ \A n \in D : /\ P[n] = Nil <=> n = root
                        /\ P[n] # Nil => P[n] \in D /\ (A[P[n]] = n \/ B[P[n]] = n)
                        /\ A[n] # Nil => A[n] \in D /\ P[A[n]] = n
                        /\ B[n] # Nil => B[n] \in D /\ P[B[n]] = n
    BY <2>1, LinksOfTree
  <2>4. \A n \in D : A[n] = B[n] => A[n] = Nil
    BY <2>1, NodesAround
  <2>5. ASSUME NEW n \in D
        PROVE  /\ P[n] = Nil <=> n = root
               /\ P[n] # Nil => /\ P[n] \in D
                                    /\ n \in {node[P[n]].left_child, node[P[n]].right_child}
               /\ \A c \in {A[n], B[n]} \ {Nil} : c \in D /\ node[c].parent = n
               /\ A[n] = B[n] => A[n] = Nil
    BY <2>2, <2>3, <2>4
  <2>6. ASSUME NEW n \in D
        PROVE  LET p_1 == node[n].parent l == node[n].left_child r == node[n].right_child
               IN  /\ p_1 = Nil <=> n = root
                   /\ p_1 # Nil => p_1 \in D /\ n \in {node[p_1].left_child, node[p_1].right_child}
                   /\ \A c \in {l, r} \ {Nil} : c \in D /\ node[c].parent = n
                   /\ l = r => l = Nil
    BY <2>2, <2>5
  <2> QED BY <2>3, <2>6 DEF LinksAgree, D
<1> QED BY <1>1, TreeIsSound, PTL

\* avl_insert, avl_remove and rebalance_up: the one climb from the place of the change, with
\* at most two rotations a node, leaves no node that leans.
THEOREM OneClimbIsEnough == Spec => []BalancedOffPath
<1>1. TreeInv => BalancedOffPath
  <2> SUFFICES ASSUME TreeInv, NEW n \in DOMAIN node, ~(pc = "rebalance" /\ n = cur)
               PROVE  Balanced(n)
    BY DEF BalancedOffPath
  <2> DEFINE D == DOMAIN node
             P == Par(node)
             A == Lft(node)
             B == Rgt(node)
             H == Hgt(node)
  <2>1. PICK S, p :
          /\ FieldsAre(node, D, P, A, B, H) /\ IsTree(D, root, P, A, B, S, byPrice)
          /\ Settled(D, p, A, B, H)
          /\ p = Nil \/ (p = cur /\ pc = "rebalance")
    BY LevelsAreTree
  <2> HIDE DEF D, P, A, B, H
  <2>2. /\ n \in D /\ A[n] \in D \union {Nil} /\ B[n] \in D \union {Nil} /\ n # Nil
    <3>1. n \in D
      BY DEF D
    <3> QED BY <2>1, <3>1, LinksOfTree
  <2>3. Even(A, B, H, n)
    BY <2>1, <2>2 DEF Settled
  <2>4. /\ \A x \in D : /\ node[x].left_child = A[x] /\ node[x].right_child = B[x]
                        /\ node[x].height = H[x]
        /\ \A x \in D \union {Nil} : height(node, x) = HeightAt(H, x)
    BY <2>1, FieldsOf
  <2>5. TrueHeight(node, n) = 1 + Taller(HeightAt(H, A[n]), HeightAt(H, B[n]))
    BY <2>2, <2>4 DEF TrueHeight
  <2>6. balance_factor(node, n) = HeightAt(H, A[n]) - HeightAt(H, B[n])
    BY <2>2, <2>4 DEF balance_factor
  <2> QED BY <2>2, <2>3, <2>4, <2>5, <2>6 DEF Balanced, Even
<1> QED BY <1>1, TreeIsSound, PTL

\* A node is higher than its children.
LEMMA ChildrenAreLower ==
  ASSUME NEW S, Stands(S)
  PROVE  \A x \in DOMAIN node :
           /\ node[x].left_child # Nil => node[node[x].left_child].height < node[x].height
           /\ node[x].right_child # Nil => node[node[x].right_child].height < node[x].height
<1> DEFINE D == DOMAIN node
           P == Par(node)
           A == Lft(node)
           B == Rgt(node)
           H == Hgt(node)
<1>1. /\ FieldsAre(node, D, P, A, B, H) /\ IsTree(D, root, P, A, B, S, byPrice)
      /\ Settled(D, Nil, A, B, H)
  BY DEF Stands
<1> HIDE DEF P, A, B, H
<1>2. ASSUME NEW x \in D
      PROVE  /\ node[x].left_child # Nil => node[node[x].left_child].height < node[x].height
             /\ node[x].right_child # Nil => node[node[x].right_child].height < node[x].height
  <2>1. A[x] \in D \union {Nil} /\ B[x] \in D \union {Nil} /\ Nil \notin D
    <3> HIDE DEF D
    <3> QED BY <1>1, LinksOfTree
  <2>2. Even(A, B, H, x) /\ H \in [D -> Nat]
    BY <1>1, <2>1 DEF Settled
  <2>3. \A y \in D : /\ node[y].left_child = A[y] /\ node[y].right_child = B[y]
                     /\ node[y].height = H[y]
    BY <1>1, FieldsOf
  <2>4. HeightAt(H, A[x]) \in Nat /\ HeightAt(H, B[x]) \in Nat
    BY <2>1, <2>2 DEF HeightAt
  <2>5. HeightAt(H, A[x]) < H[x] /\ HeightAt(H, B[x]) < H[x]
    BY <2>2, <2>4 DEF Even, Taller
  <2> QED BY <2>1, <2>3, <2>5 DEF HeightAt
<1> QED BY <1>2

\* The loops of avl_insert, avl_remove and rebalance_up: the recorded heights fall on the
\* way down and rise on the way up, so each of them ends.
THEOREM HeightsLead == Spec => LoopsAdvance
<1> DEFINE Advance == /\ pc \in {"descend", "successor"} /\ pc' = pc =>
                           node'[cur'].height < node[cur].height
                      /\ pc = "rebalance" /\ pc' = pc =>
                           node'[cur'].height > node[cur].height
<1>1. TreeInv /\ [Next]_vars => [Advance]_vars
  <2> SUFFICES ASSUME TreeInv, Next PROVE Advance
    OBVIOUS
  <2>1. CASE Call
    <3>1. pc = "idle"
      BY <2>1 DEF Call, Insert, Remove
    <3> QED BY <3>1
  <2>2. CASE Descend
    <3>1. PICK S : Stands(S) /\ GoesBelow(S)
      BY <2>2 DEF Descend, TreeInv
    <3>2. ASSUME pc' = pc
          PROVE  node' = node /\ cur \in DOMAIN node /\ cur' # Nil
                 /\ cur' \in {node[cur].left_child, node[cur].right_child}
      BY <2>2, <3>1, <3>2 DEF Descend, StartRebalance, GoesBelow
    <3>3. pc = "descend"
      BY <2>2 DEF Descend
    <3> QED BY <3>1, <3>2, <3>3, ChildrenAreLower
  <2>3. CASE Successor
    <3>1. PICK S : Stands(S) /\ SuccessorBelow(S)
      BY <2>3 DEF Successor, TreeInv
    <3>2. cur \in DOMAIN node
      <4>1. /\ IsTree(DOMAIN node, root, Par(node), Lft(node), Rgt(node), S, byPrice)
            /\ level \in DOMAIN node
            /\ cur \in Sub(S, Rgt(node)[level])
        BY <3>1 DEF Stands, SuccessorBelow
      <4>2. Sub(S, Rgt(node)[level]) \subseteq DOMAIN node
        BY <4>1, NodesAround
      <4> QED BY <4>1, <4>2
    <3>3. ASSUME pc' = pc
          PROVE  node' = node /\ cur' # Nil /\ cur' = node[cur].left_child
      BY <2>3, <3>3 DEF Successor, Unlink, StartRebalance
    <3>4. pc = "successor"
      BY <2>3 DEF Successor
    <3> QED BY <3>1, <3>2, <3>3, <3>4, ChildrenAreLower
  <2>4. CASE Rebalance
    <3>1. PICK p \in prices \union {Nil} :
            /\ StartRebalance(p)
            /\ p # Nil => /\ node'[p].height = node[p].height
                              /\ node[p].height > node[cur].height
      BY <2>4, RebalanceClimbs
    <3>2. pc = "rebalance" /\ cur' = p /\ (pc' = pc => p # Nil)
      BY <2>4, <3>1 DEF Rebalance, StartRebalance
    <3> QED BY <3>1, <3>2
  <2> QED BY <2>1, <2>2, <2>3, <2>4 DEF Next, Step
<1> QED BY <1>1, TreeIsSound, PTL DEF Spec, LoopsAdvance
-----------------------------------------------------------------------------
(* The walks along the links *)

\* The function a walk computes: V at the nodes Q where it stops, else what it computes
\* at the next node N.
WalkOf(f, E, Q, V, N) == f = [x \in E |-> IF x \in Q THEN V[x] ELSE f[N[x]]]

\* What W gives shrinks on the way, and what is right for the next node is right for
\* a node; there is one right result at most.
Leads(E, W, Q, V, N, R) ==
  /\ IsFiniteSet(E) /\ W \in [E -> SUBSET E]
  /\ \A x \in E : \A y, z \in R[x] : y = z
  /\ \A x \in E : x \in Q => V[x] \in R[x]
  /\ \A x \in E : x \notin Q => /\ N[x] \in E /\ R[N[x]] \subseteq R[x]
                                /\ W[N[x]] \subseteq W[x] /\ W[N[x]] # W[x]

LEMMA WalkEnds ==
  ASSUME NEW E, NEW W, NEW Q, NEW V, NEW N, NEW R, Leads(E, W, Q, V, N, R)
  PROVE  /\ \E f : WalkOf(f, E, Q, V, N)
         /\ \A f : WalkOf(f, E, Q, V, N) => \A x \in E : f[x] \in R[x]
<1>1. /\ IsFiniteSet(E) /\ W \in [E -> SUBSET E]
      /\ \A x \in E : \A y, z \in R[x] : y = z
      /\ \A x \in E : x \in Q => V[x] \in R[x]
      /\ \A x \in E : x \notin Q => /\ N[x] \in E /\ R[N[x]] \subseteq R[x]
                                    /\ W[N[x]] \subseteq W[x] /\ W[N[x]] # W[x]
  BY DEF Leads
<1>2. \A x \in E : R[x] # {}
  <2> DEFINE Z == {x \in E : R[x] = {}}
  <2> SUFFICES ASSUME Z # {} PROVE FALSE
    OBVIOUS
  <2>1. PICK x \in Z : \A y \in Z : ~(W[y] \subseteq W[x] /\ W[y] # W[x])
    <3>1. Z \subseteq E
      OBVIOUS
    <3> HIDE DEF Z
    <3> QED BY <1>1, <3>1, LowestExists
  <2>2. x \in E /\ R[x] = {} /\ x \notin Q
    BY <1>1
  <2>3. N[x] \in E /\ W[N[x]] \subseteq W[x] /\ W[N[x]] # W[x] /\ R[N[x]] \subseteq R[x]
    BY <1>1, <2>2
  <2>4. R[N[x]] = {}
    <3> DEFINE rn == R[N[x]]
    <3>1. rn \subseteq {}
      BY <2>2, <2>3
    <3> QED BY <3>1
  <2>5. N[x] \in Z
    BY <2>3, <2>4
  <2> HIDE DEF Z
  <2> QED BY <2>1, <2>3, <2>5
<1>3. \E f : WalkOf(f, E, Q, V, N)
  <2> DEFINE g == [x \in E |-> CHOOSE y : y \in R[x]]
  <2>1. \A x \in E : g[x] \in R[x]
    BY <1>2
  <2>2. g = [x \in E |-> g[x]]
    OBVIOUS
  <2> HIDE DEF g
  <2>3. \A x \in E : g[x] = IF x \in Q THEN V[x] ELSE g[N[x]]
    BY <1>1, <2>1
  <2>4. g = [x \in E |-> IF x \in Q THEN V[x] ELSE g[N[x]]]
    BY <2>2, <2>3
  <2> QED BY <2>4 DEF WalkOf
<1>4. ASSUME NEW f, WalkOf(f, E, Q, V, N) PROVE \A x \in E : f[x] \in R[x]
  <2> DEFINE Z == {x \in E : f[x] \notin R[x]}
  <2> SUFFICES ASSUME Z # {} PROVE FALSE
    OBVIOUS
  <2>1. \A x \in E : f[x] = IF x \in Q THEN V[x] ELSE f[N[x]]
    BY <1>4 DEF WalkOf
  <2>2. PICK x \in Z : \A y \in Z : ~(W[y] \subseteq W[x] /\ W[y] # W[x])
    <3>1. Z \subseteq E
      OBVIOUS
    <3> HIDE DEF Z
    <3> QED BY <1>1, <3>1, LowestExists
  <2> QED BY <1>1, <2>1, <2>2
<1> QED BY <1>3, <1>4

\* The walk down the B links ends at the node that comes last.
LastOf(f, D, B) ==
  f = [x \in D \union {Nil} |-> IF x = Nil \/ B[x] = Nil THEN x ELSE f[B[x]]]

LEMMA LastIsLast ==
  ASSUME NEW D, NEW top, NEW P, NEW A, NEW B, NEW S, NEW k, IsTree(D, top, P, A, B, S, k),
         \A x, y \in D : k[x] = k[y] => x = y
  PROVE  /\ \E f : LastOf(f, D, B)
         /\ \A f : LastOf(f, D, B) =>
              /\ f[Nil] = Nil
              /\ \A x \in D : f[x] \in S[x] /\ \A z \in S[x] : k[z] <= k[f[x]]
<1> DEFINE E == D \union {Nil}
           Q == {x \in E : x = Nil \/ B[x] = Nil}
           V == [x \in E |-> x]
           W == [x \in E |-> IF x = Nil THEN {} ELSE S[x]]
           R == [x \in E |-> IF x = Nil THEN {Nil}
                             ELSE {y \in S[x] : \A z \in S[x] : k[z] <= k[y]}]
<1>1. /\ D \subseteq Nat \ {0} /\ IsFiniteSet(D) /\ Nil \notin D /\ S \in [D -> SUBSET D]
      /\ \A x \in D : /\ A[x] # Nil => A[x] \in D
                      /\ B[x] # Nil => B[x] \in D
                      /\ S[x] = {x} \union Sub(S, A[x]) \union Sub(S, B[x])
                      /\ \A y \in Sub(S, A[x]) : k[y] < k[x]
                      /\ \A y \in Sub(S, B[x]) : k[x] < k[y]
      /\ \A x \in D : k[x] \in Int
  BY LinksOfTree
<1>2. \A x \in D : x \notin Sub(S, B[x]) /\ Sub(S, A[x]) \subseteq D /\ Sub(S, B[x]) \subseteq D
  BY NodesAround
<1>3. Leads(E, W, Q, V, B, R)
  <2>1. IsFiniteSet(E) /\ W \in [E -> SUBSET E]
    BY <1>1, FS_AddElement
  <2>2. ASSUME NEW x \in E, NEW y \in R[x], NEW z \in R[x] PROVE y = z
    <3>1. CASE x = Nil
      BY <3>1
    <3>2. CASE x # Nil
      <4>1. y \in D /\ z \in D /\ k[y] <= k[z] /\ k[z] <= k[y]
        BY <1>1, <3>2
      <4>2. k[y] \in Int /\ k[z] \in Int
        BY <1>1, <4>1
      <4>3. k[y] = k[z]
        BY <4>1, <4>2
      <4> QED BY <4>1, <4>3
    <3> QED BY <3>1, <3>2
  <2>3. ASSUME NEW x \in E, x \in Q PROVE V[x] \in R[x]
    <3>1. CASE x = Nil
      BY <3>1
    <3>2. CASE x # Nil
      <4>1. x \in D /\ S[x] = {x} \union Sub(S, A[x])
        BY <1>1, <2>3, <3>2 DEF Sub
      <4>2. \A z \in S[x] : k[z] <= k[x]
        BY <1>1, <1>2, <4>1
      <4> QED BY <3>2, <4>1, <4>2
    <3> QED BY <3>1, <3>2
  <2>4. ASSUME NEW x \in E, x \notin Q
        PROVE  /\ B[x] \in E /\ R[B[x]] \subseteq R[x]
               /\ W[B[x]] \subseteq W[x] /\ W[B[x]] # W[x]
    <3>1. /\ x \in D /\ x # Nil /\ B[x] \in D /\ B[x] # Nil
          /\ S[x] = {x} \union Sub(S, A[x]) \union S[B[x]] /\ x \notin S[B[x]]
          /\ S[B[x]] \subseteq D
          /\ \A y \in Sub(S, A[x]) : k[y] < k[x]
          /\ \A y \in S[B[x]] : k[x] < k[y]
      BY <1>1, <1>2, <2>4 DEF Sub
    <3>2. ASSUME NEW y \in S[B[x]], \A z \in S[B[x]] : k[z] <= k[y]
          PROVE  y \in S[x] /\ \A z \in S[x] : k[z] <= k[y]
      <4>1. k[x] < k[y] /\ k[x] \in Int /\ k[y] \in Int
        BY <1>1, <3>1
      <4>2. ASSUME NEW z \in Sub(S, A[x]) PROVE k[z] <= k[y]
        <5>1. k[z] < k[x] /\ k[z] \in Int
          BY <1>1, <1>2, <3>1
        <5> QED BY <4>1, <5>1
      <4> QED BY <3>1, <3>2, <4>1, <4>2
    <3>3. R[B[x]] \subseteq R[x]
      BY <3>1, <3>2
    <3> QED BY <3>1, <3>3
  <2> HIDE DEF E, W, Q, V, R
  <2> QED BY <2>1, <2>2, <2>3, <2>4 DEF Leads
<1> HIDE DEF W, Q, V, R, E
<1>4. /\ \E f : WalkOf(f, E, Q, V, B)
      /\ \A f : WalkOf(f, E, Q, V, B) => \A x \in E : f[x] \in R[x]
  BY <1>3, WalkEnds
<1>5. ASSUME NEW f PROVE WalkOf(f, E, Q, V, B) <=> LastOf(f, D, B)
  <2> DEFINE f1 == [x \in E |-> IF x \in Q THEN V[x] ELSE f[B[x]]]
             f2 == [x \in E |-> IF x = Nil \/ B[x] = Nil THEN x ELSE f[B[x]]]
  <2>1. f1 = f2
    BY DEF Q, V
  <2>2. WalkOf(f, E, Q, V, B) <=> f = f1
    BY DEF WalkOf
  <2>3. LastOf(f, D, B) <=> f = f2
    BY DEF LastOf, E
  <2> HIDE DEF f1, f2
  <2> QED BY <2>1, <2>2, <2>3
<1>6. ASSUME NEW f, LastOf(f, D, B)
      PROVE  /\ f[Nil] = Nil
             /\ \A x \in D : f[x] \in S[x] /\ \A z \in S[x] : k[z] <= k[f[x]]
  <2>1. \A x \in E : f[x] \in R[x]
    BY <1>4, <1>5, <1>6
  <2> QED BY <1>1, <2>1 DEF R, E
<1> QED BY <1>4, <1>5, <1>6

\* The climb along the links to B children ends at the first node after the subtree.
ClimbOf(f, D, P, B) ==
  f = [x \in D |-> IF P[x] # Nil /\ B[P[x]] = x THEN f[P[x]] ELSE P[x]]

After(D, S, k, x) == {z \in D : \A w \in S[x] : k[w] < k[z]}

LEMMA ClimbIsNext ==
  ASSUME NEW D, NEW top, NEW P, NEW A, NEW B, NEW S, NEW k, IsTree(D, top, P, A, B, S, k),
         \A x, y \in D : k[x] = k[y] => x = y
  PROVE  /\ \E f : ClimbOf(f, D, P, B)
         /\ \A f : ClimbOf(f, D, P, B) => \A x \in D :
              IF After(D, S, k, x) = {} THEN f[x] = Nil
              ELSE f[x] \in After(D, S, k, x) /\ \A z \in After(D, S, k, x) : k[f[x]] <= k[z]
<1> DEFINE Q == {x \in D : ~(P[x] # Nil /\ B[P[x]] = x)}
           W == [x \in D |-> D \ S[x]]
           R == [x \in D |-> IF After(D, S, k, x) = {} THEN {Nil}
                             ELSE {y \in After(D, S, k, x) :
                                     \A z \in After(D, S, k, x) : k[y] <= k[z]}]
<1>1. /\ D \subseteq Nat \ {0} /\ IsFiniteSet(D) /\ Nil \notin D /\ S \in [D -> SUBSET D]
      /\ top # Nil => S[top] = D
      /\ \A x \in D : /\ P[x] = Nil <=> x = top
                      /\ P[x] # Nil => P[x] \in D /\ (A[P[x]] = x \/ B[P[x]] = x)
                      /\ A[x] # Nil => A[x] \in D
                      /\ B[x] # Nil => B[x] \in D
                      /\ S[x] = {x} \union Sub(S, A[x]) \union Sub(S, B[x])
                      /\ \A y \in Sub(S, A[x]) : k[y] < k[x]
                      /\ \A y \in Sub(S, B[x]) : k[x] < k[y]
      /\ \A x \in D : k[x] \in Int
  BY LinksOfTree
<1>2. \A x \in D : /\ x \notin Sub(S, B[x]) /\ Sub(S, A[x]) \subseteq D /\ Sub(S, B[x]) \subseteq D
                   /\ x \in S[x]
  BY NodesAround
<1>3. \A x \in D : \A z \in After(D, S, k, x) : z \in D /\ z \notin S[x] /\ k[x] < k[z]
  BY <1>1, <1>2 DEF After
<1>4. ASSUME NEW x \in D, NEW z \in D \ S[x], k[x] < k[z] PROVE z \in After(D, S, k, x)
  <2>1. (\A w \in S[x] : k[z] < k[w]) \/ (\A w \in S[x] : k[w] < k[z])
    BY NothingBetween
  <2>2. k[x] \in Int /\ k[z] \in Int /\ x \in S[x]
    BY <1>1, <1>2
  <2> QED BY <1>4, <2>1, <2>2 DEF After
<1>5. Leads(D, W, Q, P, P, R)
  <2>1. IsFiniteSet(D) /\ W \in [D -> SUBSET D]
    BY <1>1
  <2>2. ASSUME NEW x \in D, NEW y \in R[x], NEW z \in R[x] PROVE y = z
    <3>1. CASE After(D, S, k, x) = {}
      BY <3>1
    <3>2. CASE After(D, S, k, x) # {}
      <4>1. y \in D /\ z \in D /\ k[y] <= k[z] /\ k[z] <= k[y]
        BY <1>3, <3>2
      <4>2. k[y] \in Int /\ k[z] \in Int
        BY <1>1, <4>1
      <4>3. k[y] = k[z]
        BY <4>1, <4>2
      <4> QED BY <4>1, <4>3
    <3> QED BY <3>1, <3>2
  <2>3. ASSUME NEW x \in D, x \in Q PROVE P[x] \in R[x]
    <3>1. CASE P[x] = Nil
      <4>1. S[x] = D
        BY <1>1, <3>1
      <4>2. After(D, S, k, x) = {}
        BY <1>3, <4>1
      <4> QED BY <3>1, <4>2
    <3>2. CASE P[x] # Nil
      <4> DEFINE p == P[x]
      <4>1. p \in D /\ A[p] = x /\ x # Nil
        BY <1>1, <2>3, <3>2
      <4> HIDE DEF p
      <4>2. /\ S[p] = {p} \union S[x] \union Sub(S, B[p]) /\ k[p] \in Int /\ k[x] \in Int
            /\ \A y \in S[x] : k[y] < k[p]
            /\ \A y \in Sub(S, B[p]) : k[p] < k[y]
            /\ Sub(S, B[p]) \subseteq D /\ p \in S[p] /\ x \in S[x]
        BY <1>1, <1>2, <4>1 DEF Sub
      <4>3. p \in After(D, S, k, x)
        BY <4>1, <4>2 DEF After
      <4>4. ASSUME NEW z \in After(D, S, k, x) PROVE k[p] <= k[z]
        <5>1. z \in D /\ z \notin S[x] /\ k[x] < k[z] /\ k[z] \in Int
          BY <1>1, <1>3
        <5>2. CASE z \in S[p]
          BY <4>2, <5>1, <5>2
        <5>3. CASE z \notin S[p]
          <6>1. (\A w \in S[p] : k[z] < k[w]) \/ (\A w \in S[p] : k[w] < k[z])
            BY <4>1, <5>1, <5>3, NothingBetween
          <6>2. ~(k[z] < k[x]) /\ x \in S[p]
            BY <4>2, <5>1
          <6> QED BY <4>2, <5>1, <6>1, <6>2
        <5> QED BY <5>2, <5>3
      <4>5. p \in R[x]
        BY <4>3, <4>4
      <4> HIDE DEF R
      <4> QED BY <4>5 DEF p
    <3> QED BY <3>1, <3>2
  <2>4. ASSUME NEW x \in D, x \notin Q
        PROVE  /\ P[x] \in D /\ R[P[x]] \subseteq R[x]
               /\ W[P[x]] \subseteq W[x] /\ W[P[x]] # W[x]
    <3> DEFINE p == P[x]
    <3>1. p \in D /\ B[p] = x /\ x # Nil
      BY <1>1, <2>4
    <3> HIDE DEF p
    <3>2. /\ S[p] = {p} \union Sub(S, A[p]) \union S[x] /\ k[p] \in Int /\ k[x] \in Int
          /\ \A y \in S[x] : k[p] < k[y]
          /\ \A y \in Sub(S, A[p]) : k[y] < k[p]
          /\ Sub(S, A[p]) \subseteq D /\ p \in S[p] /\ x \in S[x] /\ p \notin S[x]
      BY <1>1, <1>2, <3>1 DEF Sub
    <3>3. ASSUME NEW z \in After(D, S, k, x) PROVE z \in After(D, S, k, p)
      <4>1. z \in D /\ z \notin S[x] /\ k[x] < k[z] /\ k[z] \in Int
        BY <1>1, <1>3
      <4>2. k[p] < k[x]
        BY <3>2
      <4>3. k[p] < k[z]
        BY <3>2, <4>1, <4>2
      <4>4. ASSUME z \in S[p] PROVE FALSE
        <5>1. z = p \/ k[z] < k[p]
          BY <3>2, <4>1, <4>4
        <5> QED BY <3>2, <4>1, <4>3, <5>1
      <4> QED BY <1>4, <3>1, <4>1, <4>3, <4>4
    <3>4. ASSUME NEW z \in After(D, S, k, p) PROVE z \in After(D, S, k, x)
      BY <3>2 DEF After
    <3>5. After(D, S, k, p) = After(D, S, k, x)
      BY <3>3, <3>4
    <3>6. R[p] = R[x]
      BY <3>1, <3>5
    <3>7. W[p] \subseteq W[x] /\ W[p] # W[x]
      BY <3>1, <3>2
    <3> HIDE DEF R, W
    <3> QED BY <3>1, <3>6, <3>7 DEF p
  <2> HIDE DEF W, Q, R
  <2> QED BY <2>1, <2>2, <2>3, <2>4 DEF Leads
<1> HIDE DEF W, Q, R
<1>6. /\ \E f : WalkOf(f, D, Q, P, P)
      /\ \A f : WalkOf(f, D, Q, P, P) => \A x \in D : f[x] \in R[x]
  BY <1>5, WalkEnds
<1>7. ASSUME NEW f PROVE WalkOf(f, D, Q, P, P) <=> ClimbOf(f, D, P, B)
  <2> DEFINE f1 == [x \in D |-> IF x \in Q THEN P[x] ELSE f[P[x]]]
             f2 == [x \in D |-> IF P[x] # Nil /\ B[P[x]] = x THEN f[P[x]] ELSE P[x]]
  <2>1. f1 = f2
    BY DEF Q
  <2>2. WalkOf(f, D, Q, P, P) <=> f = f1
    BY DEF WalkOf
  <2>3. ClimbOf(f, D, P, B) <=> f = f2
    BY DEF ClimbOf
  <2> HIDE DEF f1, f2
  <2> QED BY <2>1, <2>2, <2>3
<1>8. ASSUME NEW f, ClimbOf(f, D, P, B), NEW x \in D
      PROVE  IF After(D, S, k, x) = {} THEN f[x] = Nil
             ELSE f[x] \in After(D, S, k, x) /\ \A z \in After(D, S, k, x) : k[f[x]] <= k[z]
  <2>1. f[x] \in R[x]
    BY <1>6, <1>7, <1>8
  <2> QED BY <2>1 DEF R
<1> QED BY <1>6, <1>7, <1>8

\* The functions of the loops are the walks of the tree.
LEMMA TreeMaxWalks ==
  ASSUME \E f : LastOf(f, DOMAIN node, Rgt(node)),
         \A x \in DOMAIN node : node[x].right_child = Rgt(node)[x],
         Nil \notin DOMAIN node
  PROVE  \E f : LastOf(f, DOMAIN node, Rgt(node)) /\ \A n : tree_max(n) = f[n]
<1> DEFINE last[x \in DOMAIN node \union {Nil}] ==
             IF x = Nil \/ node[x].right_child = Nil THEN x
             ELSE last[node[x].right_child]
<1>1. \A n : tree_max(n) = last[n]
  BY DEF tree_max
<1>2. PICK f : LastOf(f, DOMAIN node, Rgt(node))
  OBVIOUS
<1>3. f = [x \in DOMAIN node \union {Nil} |->
             IF x = Nil \/ node[x].right_child = Nil THEN x ELSE f[node[x].right_child]]
  <2>1. f = [x \in DOMAIN node \union {Nil} |->
               IF x = Nil \/ Rgt(node)[x] = Nil THEN x ELSE f[Rgt(node)[x]]]
    BY <1>2 DEF LastOf
  <2> QED BY <2>1
<1>4. last = [x \in DOMAIN node \union {Nil} |->
                IF x = Nil \/ node[x].right_child = Nil THEN x
                ELSE last[node[x].right_child]]
  BY <1>3
<1> QED BY <1>1, <1>4 DEF LastOf

LEMMA TreeMinWalks ==
  ASSUME \E f : LastOf(f, DOMAIN node, Lft(node)),
         \A x \in DOMAIN node : node[x].left_child = Lft(node)[x],
         Nil \notin DOMAIN node
  PROVE  \E f : LastOf(f, DOMAIN node, Lft(node)) /\ \A n : tree_min(n) = f[n]
<1> DEFINE last[x \in DOMAIN node \union {Nil}] ==
             IF x = Nil \/ node[x].left_child = Nil THEN x
             ELSE last[node[x].left_child]
<1>1. \A n : tree_min(n) = last[n]
  BY DEF tree_min
<1>2. PICK f : LastOf(f, DOMAIN node, Lft(node))
  OBVIOUS
<1>3. f = [x \in DOMAIN node \union {Nil} |->
             IF x = Nil \/ node[x].left_child = Nil THEN x ELSE f[node[x].left_child]]
  <2>1. f = [x \in DOMAIN node \union {Nil} |->
               IF x = Nil \/ Lft(node)[x] = Nil THEN x ELSE f[Lft(node)[x]]]
    BY <1>2 DEF LastOf
  <2> QED BY <2>1
<1>4. last = [x \in DOMAIN node \union {Nil} |->
                IF x = Nil \/ node[x].left_child = Nil THEN x
                ELSE last[node[x].left_child]]
  BY <1>3
<1> QED BY <1>1, <1>4 DEF LastOf

LEMMA AfterRightClimbs ==
  ASSUME \E f : ClimbOf(f, DOMAIN node, Par(node), Rgt(node)),
         \A x \in DOMAIN node : /\ node[x].parent = Par(node)[x]
                                /\ node[x].right_child = Rgt(node)[x],
         \A x \in DOMAIN node : Par(node)[x] # Nil => Par(node)[x] \in DOMAIN node
  PROVE  \E f : ClimbOf(f, DOMAIN node, Par(node), Rgt(node)) /\ \A n : AfterRight(n) = f[n]
<1> DEFINE up[x \in DOMAIN node] ==
             LET p == node[x].parent
             IN  IF p # Nil /\ node[p].right_child = x THEN up[p] ELSE p
<1>1. \A n : AfterRight(n) = up[n]
  BY DEF AfterRight
<1>2. PICK f : ClimbOf(f, DOMAIN node, Par(node), Rgt(node))
  OBVIOUS
<1>3. f = [x \in DOMAIN node |->
             LET p == node[x].parent
             IN  IF p # Nil /\ node[p].right_child = x THEN f[p] ELSE p]
  <2>1. f = [x \in DOMAIN node |->
               IF Par(node)[x] # Nil /\ Rgt(node)[Par(node)[x]] = x THEN f[Par(node)[x]]
               ELSE Par(node)[x]]
    BY <1>2 DEF ClimbOf
  <2> QED BY <2>1
<1>4. up = [x \in DOMAIN node |->
              LET p == node[x].parent
              IN  IF p # Nil /\ node[p].right_child = x THEN up[p] ELSE p]
  BY <1>3
<1> QED BY <1>1, <1>4 DEF ClimbOf

LEMMA AfterLeftClimbs ==
  ASSUME \E f : ClimbOf(f, DOMAIN node, Par(node), Lft(node)),
         \A x \in DOMAIN node : /\ node[x].parent = Par(node)[x]
                                /\ node[x].left_child = Lft(node)[x],
         \A x \in DOMAIN node : Par(node)[x] # Nil => Par(node)[x] \in DOMAIN node
  PROVE  \E f : ClimbOf(f, DOMAIN node, Par(node), Lft(node)) /\ \A n : AfterLeft(n) = f[n]
<1> DEFINE up[x \in DOMAIN node] ==
             LET p == node[x].parent
             IN  IF p # Nil /\ node[p].left_child = x THEN up[p] ELSE p
<1>1. \A n : AfterLeft(n) = up[n]
  BY DEF AfterLeft
<1>2. PICK f : ClimbOf(f, DOMAIN node, Par(node), Lft(node))
  OBVIOUS
<1>3. f = [x \in DOMAIN node |->
             LET p == node[x].parent
             IN  IF p # Nil /\ node[p].left_child = x THEN f[p] ELSE p]
  <2>1. f = [x \in DOMAIN node |->
               IF Par(node)[x] # Nil /\ Lft(node)[Par(node)[x]] = x THEN f[Par(node)[x]]
               ELSE Par(node)[x]]
    BY <1>2 DEF ClimbOf
  <2> QED BY <2>1
<1>4. up = [x \in DOMAIN node |->
              LET p == node[x].parent
              IN  IF p # Nil /\ node[p].left_child = x THEN up[p] ELSE p]
  BY <1>3
<1> QED BY <1>1, <1>4 DEF ClimbOf

\* Where the four walks of a resting tree end.
LEMMA WalksEnd ==
  ASSUME NEW S, Stands(S)
  PROVE  /\ tree_max(Nil) = Nil /\ tree_min(Nil) = Nil
         /\ \A x \in DOMAIN node :
              /\ tree_max(x) \in S[x] /\ \A z \in S[x] : z <= tree_max(x)
              /\ tree_min(x) \in S[x] /\ \A z \in S[x] : tree_min(x) <= z
              /\ IsFirst(AfterRight(x), {z \in DOMAIN node : \A w \in S[x] : w < z})
              /\ IsLast(AfterLeft(x), {z \in DOMAIN node : \A w \in S[x] : z < w})
<1> DEFINE D == DOMAIN node
           P == Par(node)
           A == Lft(node)
           B == Rgt(node)
           m == Mirror(byPrice)
<1>1. FieldsAre(node, D, P, A, B, Hgt(node)) /\ IsTree(D, root, P, A, B, S, byPrice)
  BY DEF Stands
<1>2. \A x \in D : /\ node[x].parent = P[x] /\ node[x].left_child = A[x]
                   /\ node[x].right_child = B[x]
  BY <1>1, FieldsOfLevels
<1> HIDE DEF D, P, A, B
<1>3. /\ D \subseteq Nat /\ Nil \notin D /\ S \in [D -> SUBSET D]
      /\ \A x \in D : P[x] # Nil => P[x] \in D
  BY <1>1, LinksOfTree
<1>4. IsTree(D, root, P, B, A, S, m)
  BY <1>1, MirrorIsTree
<1>5. \A x \in Nat : byPrice[x] = x /\ m[x] = -x
  BY DEF byPrice, Mirror
<1> HIDE DEF m
<1>6. /\ \A x, y \in D : byPrice[x] = byPrice[y] => x = y
      /\ \A x, y \in D : m[x] = m[y] => x = y
  <2>1. \A x \in D : x \in Int /\ byPrice[x] = x /\ m[x] = -x
    BY <1>3, <1>5
  <2> QED BY <2>1
<1>7. /\ \E f : LastOf(f, D, B)
      /\ \A f : LastOf(f, D, B) =>
              /\ f[Nil] = Nil
              /\ \A x \in D : f[x] \in S[x] /\ \A z \in S[x] : byPrice[z] <= byPrice[f[x]]
  BY <1>1, <1>6, LastIsLast
<1>8. /\ \E f : LastOf(f, D, A)
      /\ \A f : LastOf(f, D, A) =>
              /\ f[Nil] = Nil
              /\ \A x \in D : f[x] \in S[x] /\ \A z \in S[x] : m[z] <= m[f[x]]
  BY <1>4, <1>6, LastIsLast
<1>9. /\ \E f : ClimbOf(f, D, P, B)
      /\ \A f : ClimbOf(f, D, P, B) => \A x \in D :
           IF After(D, S, byPrice, x) = {} THEN f[x] = Nil
           ELSE f[x] \in After(D, S, byPrice, x)
                /\ \A z \in After(D, S, byPrice, x) : byPrice[f[x]] <= byPrice[z]
  BY <1>1, <1>6, ClimbIsNext
<1>10. /\ \E f : ClimbOf(f, D, P, A)
       /\ \A f : ClimbOf(f, D, P, A) => \A x \in D :
            IF After(D, S, m, x) = {} THEN f[x] = Nil
            ELSE f[x] \in After(D, S, m, x) /\ \A z \in After(D, S, m, x) : m[f[x]] <= m[z]
  BY <1>4, <1>6, ClimbIsNext
<1>11. PICK f : LastOf(f, D, B) /\ \A n : tree_max(n) = f[n]
  BY <1>2, <1>3, <1>7, TreeMaxWalks DEF D, B
<1>12. PICK g : LastOf(g, D, A) /\ \A n : tree_min(n) = g[n]
  BY <1>2, <1>3, <1>8, TreeMinWalks DEF D, A
<1>13. PICK h : ClimbOf(h, D, P, B) /\ \A n : AfterRight(n) = h[n]
  BY <1>2, <1>3, <1>9, AfterRightClimbs DEF D, P, B
<1>14. PICK i : ClimbOf(i, D, P, A) /\ \A n : AfterLeft(n) = i[n]
  BY <1>2, <1>3, <1>10, AfterLeftClimbs DEF D, P, A
<1>15. ASSUME NEW x \in D
       PROVE  /\ tree_max(x) \in S[x] /\ \A z \in S[x] : z <= tree_max(x)
              /\ tree_min(x) \in S[x] /\ \A z \in S[x] : tree_min(x) <= z
  <2>1. S[x] \subseteq Nat
    BY <1>3
  <2>2. f[x] \in S[x] /\ \A z \in S[x] : byPrice[z] <= byPrice[f[x]]
    BY <1>7, <1>11
  <2>3. g[x] \in S[x] /\ \A z \in S[x] : m[z] <= m[g[x]]
    BY <1>8, <1>12
  <2>4. \A z \in S[x] : z <= f[x]
    BY <1>5, <2>1, <2>2
  <2>5. \A z \in S[x] : g[x] <= z
    <3>1. ASSUME NEW z \in S[x] PROVE g[x] <= z
      <4>1. m[z] = -z /\ m[g[x]] = -g[x] /\ z \in Nat /\ g[x] \in Nat /\ m[z] <= m[g[x]]
        BY <1>5, <2>1, <2>3
      <4> QED BY <4>1
    <3> QED BY <3>1
  <2> QED BY <1>11, <1>12, <2>2, <2>3, <2>4, <2>5
<1>16. ASSUME NEW x \in D
       PROVE  IsFirst(AfterRight(x), {z \in D : \A w \in S[x] : w < z})
  <2> DEFINE a == After(D, S, byPrice, x)
  <2>1. a = {z \in D : \A w \in S[x] : w < z} /\ a \subseteq Nat
    <3>1. \A z \in D : z \in Nat /\ byPrice[z] = z /\ \A w \in S[x] : byPrice[w] = w
      BY <1>3, <1>5
    <3> QED BY <1>3, <3>1 DEF After
  <2>2. IF a = {} THEN h[x] = Nil
        ELSE h[x] \in a /\ \A z \in a : byPrice[h[x]] <= byPrice[z]
    BY <1>9, <1>13
  <2> HIDE DEF a
  <2>3. IsFirst(h[x], a)
    BY <1>5, <2>1, <2>2 DEF IsFirst
  <2> QED BY <1>13, <2>1, <2>3
<1>17. ASSUME NEW x \in D
       PROVE  IsLast(AfterLeft(x), {z \in D : \A w \in S[x] : z < w})
  <2> DEFINE a == After(D, S, m, x)
  <2>1. a = {z \in D : \A w \in S[x] : z < w} /\ a \subseteq Nat
    <3>1. \A z \in D : z \in Nat /\ m[z] = -z /\ \A w \in S[x] : m[w] = -w /\ w \in Nat
      BY <1>3, <1>5
    <3>2. \A z \in D : \A w \in S[x] : m[w] < m[z] <=> z < w
      BY <3>1
    <3> QED BY <1>3, <3>2 DEF After
  <2>2. IF a = {} THEN i[x] = Nil
        ELSE i[x] \in a /\ \A z \in a : m[i[x]] <= m[z]
    BY <1>10, <1>14
  <2> HIDE DEF a
  <2>3. \A y, z \in a : m[y] <= m[z] => z <= y
    BY <1>5, <2>1
  <2>4. IsLast(i[x], a)
    BY <2>2, <2>3 DEF IsLast
  <2> QED BY <1>14, <2>1, <2>4
<1>18. tree_max(Nil) = Nil /\ tree_min(Nil) = Nil
  BY <1>7, <1>8, <1>11, <1>12
<1> QED BY <1>15, <1>16, <1>17, <1>18 DEF D

\* best_bid, best_ask and the walks of side_levels_impl: between the operations the tree
\* holds the prices inserted and not removed, its ends are the extreme ones, and the walk
\* from a level goes to the next, for every sequence of insertions and removals.
THEOREM WalksFollowThePrices == Spec => []WalksInOrder
<1>1. TreeInv => WalksInOrder
  <2> SUFFICES ASSUME TreeInv, pc = "idle"
               PROVE  /\ DOMAIN node = prices
                      /\ IsLast(tree_max(root), prices) /\ IsFirst(tree_min(root), prices)
                      /\ \A p \in prices : /\ IsLast(inorder_predecessor(p), Below(p))
                                           /\ IsFirst(inorder_successor(p), Above(p))
    BY DEF WalksInOrder
  <2>1. TreeAt(node, prices, root, Nil, byPrice)
    BY DEF TreeInv
  <2>2. DOMAIN node = prices
    BY <2>1, TreeAtFields
  <2>3. PICK S : Stands(S)
    BY <2>1, StandsAtRest
  <2> DEFINE D == prices
             P == Par(node)
             A == Lft(node)
             B == Rgt(node)
  <2>4. FieldsAre(node, D, P, A, B, Hgt(node)) /\ IsTree(D, root, P, A, B, S, byPrice)
    BY <2>2, <2>3 DEF Stands
  <2>5. \A x \in D : node[x].left_child = A[x] /\ node[x].right_child = B[x]
    BY <2>2, <2>3, FieldsOfLevels DEF Stands
  <2> HIDE DEF P, A, B
  <2>6. /\ D \subseteq Nat \ {0} /\ Nil \notin D
        /\ root \in D \union {Nil} /\ S \in [D -> SUBSET D]
        /\ root # Nil => S[root] = D
        /\ root = Nil => D = {}
        /\ \A x \in D : /\ A[x] # Nil => A[x] \in D
                        /\ B[x] # Nil => B[x] \in D
                        /\ S[x] = {x} \union Sub(S, A[x]) \union Sub(S, B[x])
                        /\ \A y \in Sub(S, A[x]) : byPrice[y] < byPrice[x]
                        /\ \A y \in Sub(S, B[x]) : byPrice[x] < byPrice[y]
    BY <2>4, LinksOfTree
  <2>7. \A x \in D : x \in Nat /\ byPrice[x] = x
    BY <2>6, PricesAreNumbers
  <2>8. \A x \in D : /\ \A y \in Sub(S, A[x]) : y < x
                     /\ \A y \in Sub(S, B[x]) : x < y
                     /\ Sub(S, A[x]) \subseteq D /\ Sub(S, B[x]) \subseteq D
                     /\ x \in S[x]
    <3>1. \A x \in D : Sub(S, A[x]) \subseteq D /\ Sub(S, B[x]) \subseteq D /\ x \in S[x]
      BY <2>4, NodesAround
    <3>2. ASSUME NEW x \in D
          PROVE  (\A y \in Sub(S, A[x]) : y < x) /\ (\A y \in Sub(S, B[x]) : x < y)
      <4>1. /\ \A y \in Sub(S, A[x]) : byPrice[y] < byPrice[x]
            /\ \A y \in Sub(S, B[x]) : byPrice[x] < byPrice[y]
        BY <2>6
      <4>2. \A y \in Sub(S, A[x]) \union Sub(S, B[x]) : byPrice[y] = y
        BY <2>7, <3>1
      <4>3. byPrice[x] = x
        BY <2>7
      <4> QED BY <4>1, <4>2, <4>3
    <3> QED BY <3>1, <3>2
  <2>9. /\ tree_max(Nil) = Nil /\ tree_min(Nil) = Nil
        /\ \A x \in D :
              /\ tree_max(x) \in S[x] /\ \A z \in S[x] : z <= tree_max(x)
              /\ tree_min(x) \in S[x] /\ \A z \in S[x] : tree_min(x) <= z
              /\ IsFirst(AfterRight(x), {z \in D : \A w \in S[x] : w < z})
              /\ IsLast(AfterLeft(x), {z \in D : \A w \in S[x] : z < w})
    BY <2>2, <2>3, WalksEnd
  <2>10. IsLast(tree_max(root), D) /\ IsFirst(tree_min(root), D)
    <3>1. CASE root = Nil
      BY <2>6, <2>9, <3>1 DEF IsLast, IsFirst
    <3>2. CASE root # Nil
      <4>1. root \in D /\ S[root] = D
        BY <2>6, <3>2
      <4> QED BY <2>9, <4>1 DEF IsLast, IsFirst
    <3> QED BY <3>1, <3>2
  <2>11. ASSUME NEW x \in D, NEW y \in D \ S[x]
         PROVE  (\A z \in S[x] : y < z) \/ (\A z \in S[x] : z < y)
    <3>1. (\A z \in S[x] : byPrice[y] < byPrice[z]) \/ (\A z \in S[x] : byPrice[z] < byPrice[y])
      BY <2>4, NothingBetween
    <3>2. S[x] \subseteq D
      BY <2>6
    <3> QED BY <2>7, <3>1, <3>2
  <2>12. ASSUME NEW p \in D PROVE IsFirst(inorder_successor(p), Above(p))
    <3>1. p # Nil /\ node[p].right_child = B[p] /\ p \in Nat
      BY <2>5, <2>6
    <3>2. CASE B[p] # Nil
      <4> DEFINE r == B[p]
                 s == tree_min(r)
      <4>1. r \in D /\ Sub(S, r) = S[r]
        BY <2>6, <3>2 DEF Sub
      <4>2. inorder_successor(p) = s
        BY <3>1, <3>2 DEF inorder_successor
      <4>3. S[p] = {p} \union Sub(S, A[p]) \union S[r] /\ S[r] \subseteq D /\ \A y \in S[r] : p < y
        BY <2>6, <2>8, <4>1
      <4> HIDE DEF r
      <4>4. s \in S[r] /\ \A z \in S[r] : s <= z
        BY <2>9, <4>1
      <4>5. s \in Above(p)
        BY <4>3, <4>4 DEF Above
      <4> HIDE DEF s
      <4>6. ASSUME NEW q \in Above(p) PROVE s <= q
        <5>1. q \in D /\ q > p /\ q \in Nat /\ s \in Nat /\ s \in S[p] /\ s > p
          BY <2>7, <4>3, <4>4, <4>5 DEF Above
        <5>2. CASE q \in S[p]
          <6>1. q \in S[r]
            BY <2>7, <2>8, <3>1, <4>3, <5>1, <5>2
          <6> QED BY <4>4, <6>1
        <5>3. CASE q \notin S[p]
          <6>1. (\A z \in S[p] : q < z) \/ (\A z \in S[p] : z < q)
            BY <2>11, <5>1, <5>3
          <6>2. p \in S[p]
            BY <2>8
          <6> QED BY <3>1, <5>1, <6>1, <6>2
        <5> QED BY <5>2, <5>3
      <4> QED BY <4>2, <4>5, <4>6 DEF IsFirst
    <3>3. CASE B[p] = Nil
      <4>1. inorder_successor(p) = AfterRight(p)
        BY <3>1, <3>3 DEF inorder_successor
      <4>2. S[p] = {p} \union Sub(S, A[p])
        BY <2>6, <3>3 DEF Sub
      <4>3. ASSUME NEW z \in D PROVE z > p <=> \A w \in S[p] : w < z
        <5>1. ASSUME z > p PROVE \A w \in S[p] : w < z
          <6>1. z \notin S[p]
            <7>1. z # p /\ \A y \in Sub(S, A[p]) : y < p
              BY <2>8, <3>1, <5>1
            <7>2. z \in Nat /\ \A y \in Sub(S, A[p]) : y \in Nat
              BY <2>7, <2>8
            <7>3. z \notin Sub(S, A[p])
              BY <3>1, <5>1, <7>1, <7>2
            <7> QED BY <4>2, <7>1, <7>3
          <6>2. (\A w \in S[p] : z < w) \/ (\A w \in S[p] : w < z)
            BY <2>11, <6>1
          <6> QED BY <2>7, <2>8, <3>1, <5>1, <6>2
        <5>2. p \in S[p]
          BY <2>8
        <5> QED BY <2>7, <3>1, <5>1, <5>2
      <4>4. Above(p) = {z \in D : \A w \in S[p] : w < z}
        BY <4>3 DEF Above
      <4> QED BY <2>9, <4>1, <4>4
    <3> QED BY <3>2, <3>3
  <2>13. ASSUME NEW p \in D PROVE IsLast(inorder_predecessor(p), Below(p))
    <3>1. p # Nil /\ node[p].left_child = A[p] /\ p \in Nat
      BY <2>5, <2>6
    <3>2. CASE A[p] # Nil
      <4> DEFINE l == A[p]
                 s == tree_max(l)
      <4>1. l \in D /\ Sub(S, l) = S[l]
        BY <2>6, <3>2 DEF Sub
      <4>2. inorder_predecessor(p) = s
        BY <3>1, <3>2 DEF inorder_predecessor
      <4>3. S[p] = {p} \union S[l] \union Sub(S, B[p]) /\ S[l] \subseteq D /\ \A y \in S[l] : y < p
        BY <2>6, <2>8, <4>1
      <4> HIDE DEF l
      <4>4. s \in S[l] /\ \A z \in S[l] : z <= s
        BY <2>9, <4>1
      <4>5. s \in Below(p)
        BY <4>3, <4>4 DEF Below
      <4> HIDE DEF s
      <4>6. ASSUME NEW q \in Below(p) PROVE q <= s
        <5>1. q \in D /\ q < p /\ q \in Nat /\ s \in Nat /\ s \in S[p] /\ s < p
          BY <2>7, <4>3, <4>4, <4>5 DEF Below
        <5>2. CASE q \in S[p]
          <6>1. q \in S[l]
            BY <2>7, <2>8, <3>1, <4>3, <5>1, <5>2
          <6> QED BY <4>4, <6>1
        <5>3. CASE q \notin S[p]
          <6>1. (\A z \in S[p] : q < z) \/ (\A z \in S[p] : z < q)
            BY <2>11, <5>1, <5>3
          <6>2. p \in S[p]
            BY <2>8
          <6> QED BY <3>1, <5>1, <6>1, <6>2
        <5> QED BY <5>2, <5>3
      <4> QED BY <4>2, <4>5, <4>6 DEF IsLast
    <3>3. CASE A[p] = Nil
      <4>1. inorder_predecessor(p) = AfterLeft(p)
        BY <3>1, <3>3 DEF inorder_predecessor
      <4>2. S[p] = {p} \union Sub(S, B[p])
        BY <2>6, <3>3 DEF Sub
      <4>3. ASSUME NEW z \in D PROVE z < p <=> \A w \in S[p] : z < w
        <5>1. ASSUME z < p PROVE \A w \in S[p] : z < w
          <6>1. z \notin S[p]
            <7>1. z # p /\ \A y \in Sub(S, B[p]) : p < y
              BY <2>8, <3>1, <5>1
            <7>2. z \in Nat /\ \A y \in Sub(S, B[p]) : y \in Nat
              BY <2>7, <2>8
            <7>3. z \notin Sub(S, B[p])
              BY <3>1, <5>1, <7>1, <7>2
            <7> QED BY <4>2, <7>1, <7>3
          <6>2. (\A w \in S[p] : z < w) \/ (\A w \in S[p] : w < z)
            BY <2>11, <6>1
          <6> QED BY <2>7, <2>8, <3>1, <5>1, <6>2
        <5>2. p \in S[p]
          BY <2>8
        <5> QED BY <2>7, <3>1, <5>1, <5>2
      <4>4. Below(p) = {z \in D : \A w \in S[p] : z < w}
        BY <4>3 DEF Below
      <4> QED BY <2>9, <4>1, <4>4
    <3> QED BY <3>2, <3>3
  <2> QED BY <2>2, <2>10, <2>12, <2>13
<1> QED BY <1>1, TreeIsSound, PTL
=============================================================================
