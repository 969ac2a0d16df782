---------------------------- MODULE MapOrderBook ----------------------------
(***************************************************************************)
(* MapOrderBook.cpp: per side a sorted map from price to total size, and   *)
(* an index of the orders.  The orders of a level are not linked, so the   *)
(* totals are kept by adding and subtracting sizes.                        *)
(***************************************************************************)
EXTENDS MarketByOrder, Integers

VARIABLES levels,  \* side -> price -> volume (bids_, asks_)
          index    \* id -> [side, price, size] (order_index_)

vars == <<levels, index>>

MapInit == levels = [s \in Side |-> <<>>] /\ index = <<>>

\* bids_[price] += delta creates the level.
add_to_level(lv, side, price, delta) ==
  [lv EXCEPT ![side] =
     Set(@, price, (IF price \in DOMAIN @ THEN @[price] ELSE 0) + delta)]

\* Faulty variant: only a level of exactly zero is erased.
remove_from_level_exact(lv, side, price, delta) ==
  IF price \notin DOMAIN lv[side] THEN lv
  ELSE LET left == lv[side][price] - delta
       IN  [lv EXCEPT ![side] = IF left = 0 THEN Drop(@, price)
                                ELSE Set(@, price, left)]

\* A level that reaches zero or less is erased.
remove_from_level(lv, side, price, delta) ==
  IF price \notin DOMAIN lv[side] THEN lv
  ELSE LET left == lv[side][price] - delta
       IN  [lv EXCEPT ![side] = IF left <= 0 THEN Drop(@, price)
                                ELSE Set(@, price, left)]

\* Take an order's whole size out of its level.
take_out(lv, o) == remove_from_level(lv, o.side, o.price, o.size)

OrderOf(e) == [side |-> e.side, price |-> e.price, size |-> e.size]

\* Put the order of e into its level and the index.
enter(lv, id, o) ==
  /\ levels' = add_to_level(lv, o.side, o.price, o.size)
  /\ index' = Set(index, id, o)

\* Faulty variant: the order replaced stays in its level.
Add_keepsOld(e) ==
  /\ e.action = "Add" /\ Placeable(e)
  /\ enter(levels, e.id, OrderOf(e))

Add(e) ==
  /\ e.action = "Add" /\ Placeable(e)
  /\ enter(IF e.id \in DOMAIN index THEN take_out(levels, index[e.id]) ELSE levels,
           e.id, OrderOf(e))

\* Faulty variants: the size is taken for the amount cancelled; an order with
\* nothing remaining stays in the index.
Cancel_byAmount(e) ==
  /\ e.action = "Cancel" /\ e.id \in DOMAIN index
  /\ levels' = remove_from_level(levels, index[e.id].side, index[e.id].price, e.size)
  /\ index' = IF e.size = 0 THEN Drop(index, e.id)
              ELSE [index EXCEPT ![e.id].size = e.size]
Cancel_keepsEmpty(e) ==
  /\ e.action = "Cancel" /\ e.id \in DOMAIN index
  /\ levels' = remove_from_level(levels, index[e.id].side, index[e.id].price,
                                 index[e.id].size - e.size)
  /\ index' = [index EXCEPT ![e.id].size = e.size]

\* The size of a Cancel is what remains; the level never grows.
Cancel(e) ==
  /\ e.action = "Cancel" /\ e.id \in DOMAIN index
  /\ LET o == index[e.id]
         delta == o.size - e.size
     IN  levels' = IF delta > 0
                   THEN remove_from_level(levels, o.side, o.price, delta)
                   ELSE levels
  /\ index' = IF e.size = 0 THEN Drop(index, e.id)
              ELSE [index EXCEPT ![e.id].size = e.size]

Modify(e) ==
  /\ e.action = "Modify"
  /\ \/ /\ e.id \notin DOMAIN index /\ Placeable(e)
        /\ enter(levels, e.id, OrderOf(e))
     \/ /\ e.id \in DOMAIN index
        /\ LET old == index[e.id]
           IN  enter(take_out(levels, old), e.id,
                     [side |-> IF e.side # "None" THEN e.side ELSE old.side,
                      price |-> IF e.price # Undef THEN e.price ELSE old.price,
                      size |-> e.size])

Clear(e) == /\ e.action = "Clear"
            /\ levels' = [s \in Side |-> <<>>] /\ index' = <<>>

\* Add or Modify without a side or a price, Cancel of an unknown order, and
\* the actions that leave the book alone.  The flags are not looked at.
Ignore(e) ==
  /\ \/ e.action \in {"Add", "Modify"} /\ ~Placeable(e)
        /\ (e.action = "Modify" => e.id \notin DOMAIN index)
     \/ e.action = "Cancel" /\ e.id \notin DOMAIN index
     \/ e.action \in {"Trade", "Fill", "None"}
  /\ UNCHANGED vars

MapApply(e) == Add(e) \/ Cancel(e) \/ Modify(e) \/ Clear(e) \/ Ignore(e)

MapNext == \E e \in Event : MapApply(e)

MapSpec == MapInit /\ [][MapNext]_vars
-----------------------------------------------------------------------------
(* What can be read off the book *)

IndexView == [orders |-> index]
Resting(s, p) == Total(index, IdsAt(IndexView, <<s, p>>))
=============================================================================
