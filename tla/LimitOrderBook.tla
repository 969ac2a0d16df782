--------------------------- MODULE LimitOrderBook ---------------------------
(***************************************************************************)
(* LimitOrderBook.cpp: orders in intrusive lists per price level, the      *)
(* levels in a hash map and, sorted, in an AVL tree per side, the best     *)
(* level of each side cached.  The AVL tree stands here for the set of its *)
(* prices.  One event at a time: the book is owned by one thread.          *)
(***************************************************************************)
EXTENDS MarketByOrder

VARIABLE book
\* orders : id -> OrderEntry [side, price, quantity, prev, next]   (orders_)
\* levels : side -> price -> PriceLevel [front, back, count, total]
\*                                          (bid_levels_, ask_levels_)
\* tree   : side -> prices in bid_tree_, ask_tree_
\* best   : side -> price of best_bid_, best_ask_, or Undef

Nil == 0  \* nullptr, no order

ASSUME IdAssumption == Nil \notin Ids

Init == book = [orders |-> <<>>,
                levels |-> [s \in Side |-> <<>>],
                tree |-> [s \in Side |-> {}],
                best |-> [s \in Side |-> Undef]]

NewLevel == [front |-> Nil, back |-> Nil, count |-> 0, total |-> 0]

\* Faulty variant: best_bid_, best_ask_ keep pointing at the level.
remove_level_keepsBest(b, side, price) ==
  [b EXCEPT !.tree[side] = @ \ {price}, !.levels[side] = Drop(@, price)]

\* remove_level: out of the tree and the map; best moves to the next price
\* only if this level was the best one.
remove_level(b, side, price) ==
  LET tree == b.tree[side] \ {price}
  IN  [b EXCEPT !.tree[side] = tree,
                !.best[side] = IF @ = price THEN Best(side, tree) ELSE @,
                !.levels[side] = Drop(@, price)]

\* Faulty variant: the last order of a list leaves back behind.
unlink_order_keepsBack(b, id) ==
  LET oe == b.orders[id]
      skip(x) == [b.orders[x] EXCEPT
                    !.next = IF x = oe.prev THEN oe.next ELSE @,
                    !.prev = IF x = oe.next THEN oe.prev ELSE @]
  IN  [b EXCEPT
         !.orders = [x \in DOMAIN b.orders |-> skip(x)],
         !.levels[oe.side][oe.price].front = IF oe.prev = Nil THEN oe.next ELSE @]

\* unlink_order: the neighbours, or the ends of the level, skip the order.
unlink_order(b, id) ==
  LET oe == b.orders[id]
      skip(x) == [b.orders[x] EXCEPT
                    !.next = IF x = oe.prev THEN oe.next ELSE @,
                    !.prev = IF x = oe.next THEN oe.prev ELSE @]
  IN  [b EXCEPT
         !.orders = [x \in DOMAIN b.orders |-> skip(x)],
         !.levels[oe.side][oe.price].front = IF oe.prev = Nil THEN oe.next ELSE @,
         !.levels[oe.side][oe.price].back = IF oe.next = Nil THEN oe.prev ELSE @]

\* destroy_order: the last order of a level takes the level with it.
destroy_order(b, id) ==
  LET oe == b.orders[id]
      u  == [unlink_order(b, id) EXCEPT
               !.levels[oe.side][oe.price].total = @ - oe.quantity,
               !.levels[oe.side][oe.price].count = @ - 1]
      d  == [u EXCEPT !.orders = Drop(@, id)]
  IN  IF d.levels[oe.side][oe.price].count = 0
      THEN remove_level(d, oe.side, oe.price) ELSE d

\* cancel_order; an unknown order is only logged.
cancel_order(b, id, remaining) ==
  IF id \notin DOMAIN b.orders THEN b
  ELSE IF remaining = 0 THEN destroy_order(b, id)
  ELSE LET oe == b.orders[id]
       IN  [b EXCEPT !.levels[oe.side][oe.price].total =
                         @ - (oe.quantity - remaining),
                     !.orders[id].quantity = remaining]

\* The level an order is added to is created when it is not there.
with_level(b, side, price) ==
  IF price \in DOMAIN b.levels[side] THEN b
  ELSE [b EXCEPT !.tree[side] = @ \union {price},
                 !.best[side] = IF \/ @ = Undef
                                   \/ side = "Buy" /\ price > @
                                   \/ side = "Sell" /\ price < @
                                THEN price ELSE @,
                 !.levels[side] = Set(@, price, NewLevel)]

\* add_order; a duplicate replaces the order ("last event wins").
add_order(b, e) ==
  IF ~Placeable(e) THEN b
  ELSE
    LET c == with_level(cancel_order(b, e.id, 0), e.side, e.price)
        back == c.levels[e.side][e.price].back
        oe == [side |-> e.side, price |-> e.price, quantity |-> e.size,
               prev |-> back, next |-> Nil]
        linked == IF back = Nil
                  THEN [c EXCEPT !.levels[e.side][e.price].front = e.id]
                  ELSE [c EXCEPT !.orders[back].next = e.id]
    IN  [linked EXCEPT !.orders = Set(@, e.id, oe),
                       !.levels[e.side][e.price].back = e.id,
                       !.levels[e.side][e.price].count = @ + 1,
                       !.levels[e.side][e.price].total = @ + e.size]

\* modify_order: same level, change the quantity; another level, cancel and
\* add again; unknown order, add if the event says where.
modify_order(b, e) ==
  IF e.id \notin DOMAIN b.orders THEN add_order(b, e)
  ELSE
    LET oe == b.orders[e.id]
        price == IF e.price # Undef THEN e.price ELSE oe.price
        side == IF e.side # "None" THEN e.side ELSE oe.side
        moved == [e EXCEPT !.side = side, !.price = price]
    IN  IF price # oe.price \/ side # oe.side
        THEN add_order(cancel_order(b, e.id, 0), moved)
        ELSE IF e.size = 0 THEN cancel_order(b, e.id, 0)
        ELSE [b EXCEPT !.levels[side][price].total = @ + (e.size - oe.quantity),
                       !.orders[e.id].quantity = e.size]

\* clear_book
clear_book(b) == [b EXCEPT !.orders = <<>>, !.levels = [s \in Side |-> <<>>],
                           !.tree = [s \in Side |-> {}],
                           !.best = [s \in Side |-> Undef]]

\* apply_impl, should_skip_event
apply(b, e) ==
  CASE e.badFlags -> b
    [] ~e.badFlags /\ e.action = "Add" -> add_order(b, e)
    [] ~e.badFlags /\ e.action = "Cancel" -> cancel_order(b, e.id, e.size)
    [] ~e.badFlags /\ e.action = "Modify" -> modify_order(b, e)
    [] ~e.badFlags /\ e.action = "Clear" -> clear_book(b)
    [] OTHER -> b

\* release_moved_from: what the move constructor and assignment leave behind.
release_moved_from(b) ==
  [b EXCEPT !.tree = [s \in Side |-> {}], !.best = [s \in Side |-> Undef],
            !.levels = [s \in Side |-> <<>>], !.orders = <<>>]

\* The book is moved to another one, which has been cleared if it was in use:
\* the destination goes on with its contents, as this one did, and this one
\* goes on empty.
MovedFrom == book' = release_moved_from(book)

Next == (\E e \in Event : book' = apply(book, e)) \/ MovedFrom

Spec == Init /\ [][Next]_book
-----------------------------------------------------------------------------
(* Properties *)

\* The ids of a level, walking the list from its front.
Walk(b, l) ==
  LET count == b.levels[l[1]][l[2]].count
      ids[k \in 1 .. count] == IF k = 1 THEN b.levels[l[1]][l[2]].front
                               ELSE IF ids[k - 1] = Nil THEN Nil
                               ELSE b.orders[ids[k - 1]].next
  IN  IF l[2] \in DOMAIN b.levels[l[1]] THEN [k \in 1 .. count |-> ids[k]] ELSE <<>>

\* The book as MarketByOrder sees it.
View(b) ==
  [orders |-> [id \in DOMAIN b.orders |->
                 [side |-> b.orders[id].side, price |-> b.orders[id].price,
                  size |-> b.orders[id].quantity]],
   fifo |-> [l \in Levels |-> Walk(b, l)]]

\* Every handler does to the book what the event means, list splices, level
\* creation and removal included: any event, legal or not, in any book the
\* feed can have led to.
AppliesMeaning == \A e \in Event : View(apply(book, e)) = Meaning(View(book), e)

\* The redundant parts agree with the orders: a level is in the map and in the
\* tree exactly when an order rests there, its total and count are theirs, its
\* list ends at its back, and best is the best price.
LevelsAgree ==
  LET v == View(book)
  IN  \A s \in Side :
        /\ DOMAIN book.levels[s] = PricesOf(v, s)
        /\ book.tree[s] = PricesOf(v, s)
        /\ book.best[s] = Best(s, PricesOf(v, s))
        /\ \A p \in PricesOf(v, s) :
             LET lv == book.levels[s][p]
             IN  /\ lv.total = Total(v.orders, IdsAt(v, <<s, p>>))
                 /\ lv.count = Cardinality(IdsAt(v, <<s, p>>))
                 /\ lv.back = v.fifo[<<s, p>>][lv.count]
                 /\ book.orders[lv.back].next = Nil
=============================================================================
