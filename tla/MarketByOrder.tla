--------------------------- MODULE MarketByOrder ---------------------------
(***************************************************************************)
(* The market-by-order events of src/common/MarketDataEvent.hpp and what   *)
(* they mean: the orders that rest in the book of one instrument, and for  *)
(* every price level the order in which they would be filled.  This is the *)
(* reference the order book implementations are compared with.  A book is  *)
(* a record                                                                *)
(*    orders  id -> [side, price, size] of every resting order             *)
(*    fifo    <<side, price>> -> ids resting there, in time priority       *)
(***************************************************************************)
EXTENDS Naturals, Sequences, FiniteSets

CONSTANTS Ids,     \* order ids of the feed
          Prices,  \* scaled prices of the feed
          Sizes    \* sizes of the feed

ASSUME FeedAssumption == Prices \subseteq Nat \ {0} /\ Sizes \subseteq Nat

Undef == 0                \* UNDEF_PRICE
Side == {"Buy", "Sell"}   \* a resting order has one of these

\* An event; only Add and Modify look at the side and the price.
Event ==
  [action : {"Add", "Modify"}, id : Ids, side : Side \union {"None"},
   price : Prices \union {Undef}, size : Sizes, badFlags : BOOLEAN]
  \union
  [action : {"Cancel", "Clear", "Trade", "Fill", "None"}, id : Ids,
   side : {"None"}, price : {Undef}, size : Sizes, badFlags : BOOLEAN]

Order == [side : Side, price : Prices, size : Nat]
Levels == Side \X Prices

EmptyBook == [orders |-> <<>>, fifo |-> [l \in Levels |-> <<>>]]

LevelOf(o) == <<o.side, o.price>>
Drop(f, id) == [x \in DOMAIN f \ {id} |-> f[x]]
Set(f, id, v) == [x \in DOMAIN f \union {id} |-> IF x = id THEN v ELSE f[x]]

\* The sequence s without id, which stands in it once at most.
Without(s, id) ==
  IF \A i \in DOMAIN s : s[i] # id THEN s
  ELSE LET k == CHOOSE i \in DOMAIN s : s[i] = id
       IN  SubSeq(s, 1, k - 1) \o SubSeq(s, k + 1, Len(s))

\* Does the event carry what it takes to place an order?
Placeable(e) == e.side # "None" /\ e.price # Undef

\* The order leaves the book.
Remove(b, id) ==
  [orders |-> Drop(b.orders, id),
   fifo |-> [b.fifo EXCEPT ![LevelOf(b.orders[id])] = Without(@, id)]]

\* An order joins the end of its level; an order of that id is replaced.
Place(b, id, o) ==
  LET c == IF id \in DOMAIN b.orders THEN Remove(b, id) ELSE b
  IN  [orders |-> Set(c.orders, id, o),
       fifo |-> [c.fifo EXCEPT ![LevelOf(o)] = Append(@, id)]]

\* The order keeps its place with another size.
Resize(b, id, size) == [b EXCEPT !.orders[id].size = size]

\* Events with a bad flag, and actions other than these four, leave the book
\* alone.  The size of a Cancel is what remains of the order; a Modify may
\* leave the side or the price undefined, which keeps the old one, and loses
\* its priority only if one of them changes.
Meaning(b, e) ==
  LET known == e.id \in DOMAIN b.orders
      old   == b.orders[e.id]
      new   == [side |-> IF e.side = "None" THEN old.side ELSE e.side,
                price |-> IF e.price = Undef THEN old.price ELSE e.price,
                size |-> e.size]
  IN  CASE e.badFlags -> b
        [] ~e.badFlags /\ e.action = "Clear" -> EmptyBook
        [] ~e.badFlags /\ Placeable(e) /\ \/ e.action = "Add"
                                          \/ e.action = "Modify" /\ ~known ->
             Place(b, e.id, [side |-> e.side, price |-> e.price, size |-> e.size])
        [] ~e.badFlags /\ e.action = "Cancel" /\ known ->
             IF e.size = 0 THEN Remove(b, e.id) ELSE Resize(b, e.id, e.size)
        [] ~e.badFlags /\ e.action = "Modify" /\ known ->
             IF LevelOf(new) # LevelOf(old) THEN Place(b, e.id, new)
             ELSE IF e.size = 0 THEN Remove(b, e.id) ELSE Resize(b, e.id, e.size)
        [] OTHER -> b
-----------------------------------------------------------------------------
(* What can be read off a book. *)

IdsAt(b, l) == {id \in DOMAIN b.orders : LevelOf(b.orders[id]) = l}

\* The total size of a set of orders.
Total(orders, ids) ==
  LET sum[S \in SUBSET ids] ==
        IF S = {} THEN 0
        ELSE LET id == CHOOSE x \in S : TRUE
             IN  orders[id].size + sum[S \ {id}]
  IN  sum[ids]

PricesOf(b, side) == {b.orders[id].price : id \in {x \in DOMAIN b.orders : b.orders[x].side = side}}

\* The most aggressive of a set of prices: the highest bid, the lowest ask.
Best(side, P) ==
  IF P = {} THEN Undef
  ELSE CHOOSE p \in P : \A q \in P : IF side = "Buy" THEN p >= q ELSE p <= q
=============================================================================
