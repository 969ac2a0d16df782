------------------------- MODULE OrderBooks_proofs -------------------------
(***************************************************************************)
(* The three order books, for all sets of ids, prices and sizes.           *)
(*                                                                         *)
(* MapOrderBook and AbseilOrderBook: the two indexes are always equal and, *)
(* on a well-formed feed, hold the orders it means to leave; the levels    *)
(* are equal until an Add names a resting order; MapOrderBook's volumes    *)
(* never pass what rests and on a well-formed feed equal it, and           *)
(* AbseilOrderBook's are no less.                                          *)
(*                                                                         *)
(* LimitOrderBook: every event does to the linked lists, the maps and the  *)
(* cached best prices what it means for the orders and their priority.     *)
(* The invariant says that the book is the linked form of a book of        *)
(* MarketByOrder; each operation of the code is shown to turn the linked   *)
(* form of a book into that of the book MarketByOrder gives.               *)
(***************************************************************************)
EXTENDS VolumeBooks, LimitOrderBook, FiniteSetTheorems, TLAPS

\* The operators of the two books are the same.
LEMMA SameOperators ==
  /\ \A lv, s, p, d : Abseil!add_to_level(lv, s, p, d) = add_to_level(lv, s, p, d)
  /\ \A lv, s, p, d : Abseil!remove_from_level(lv, s, p, d) = remove_from_level(lv, s, p, d)
  /\ \A lv, o : Abseil!take_out(lv, o) = take_out(lv, o)
  /\ \A f, id, v : Abseil!Set(f, id, v) = Set(f, id, v)
  /\ \A f, id : Abseil!Drop(f, id) = Drop(f, id)
  /\ \A e : Abseil!OrderOf(e) = OrderOf(e) /\ (Abseil!Placeable(e) <=> Placeable(e))
  /\ Abseil!Side = Side /\ Abseil!Undef = Undef
<1>1. \A lv, s, p, d : Abseil!add_to_level(lv, s, p, d) = add_to_level(lv, s, p, d)
  BY DEF Abseil!add_to_level, add_to_level, Abseil!Set, Set
<1>2. \A lv, s, p, d : Abseil!remove_from_level(lv, s, p, d) = remove_from_level(lv, s, p, d)
  BY DEF Abseil!remove_from_level, remove_from_level, Abseil!Set, Set, Abseil!Drop, Drop
<1>3. \A lv, o : Abseil!take_out(lv, o) = take_out(lv, o)
  BY <1>2 DEF Abseil!take_out, take_out
<1>4. \A f, id, v : Abseil!Set(f, id, v) = Set(f, id, v)
  BY DEF Abseil!Set, Set
<1>5. \A f, id : Abseil!Drop(f, id) = Drop(f, id)
  BY DEF Abseil!Drop, Drop
<1>6. \A e : Abseil!OrderOf(e) = OrderOf(e) /\ (Abseil!Placeable(e) <=> Placeable(e))
  BY DEF Abseil!OrderOf, OrderOf, Abseil!Placeable, Placeable, Abseil!Undef, Undef
<1>7. Abseil!Side = Side /\ Abseil!Undef = Undef
  BY DEF Abseil!Side, Side, Abseil!Undef, Undef
<1> QED BY <1>1, <1>2, <1>3, <1>4, <1>5, <1>6, <1>7

\* What an event does to an index.
IndexAfter(f, e) ==
  IF e.action = "Clear" THEN <<>>
  ELSE IF e.action = "Cancel" /\ e.id \in DOMAIN f
       THEN IF e.size = 0 THEN Drop(f, e.id) ELSE [f EXCEPT ![e.id].size = e.size]
  ELSE IF e.action = "Modify" /\ e.id \in DOMAIN f
       THEN Set(f, e.id, [side |-> IF e.side # "None" THEN e.side ELSE f[e.id].side,
                          price |-> IF e.price # Undef THEN e.price ELSE f[e.id].price,
                          size |-> e.size])
  ELSE IF e.action \in {"Add", "Modify"} /\ Placeable(e) THEN Set(f, e.id, OrderOf(e))
  ELSE f

\* Both books do that, whatever their levels are.
LEMMA MapIndex ==
  ASSUME NEW e, MapApply(e)
  PROVE  index' = IndexAfter(index, e)
<1>1. CASE Add(e)
  BY <1>1 DEF Add, enter, IndexAfter
<1>2. CASE Cancel(e)
  BY <1>2 DEF Cancel, IndexAfter
<1>3. CASE Modify(e)
  <2>1. CASE e.id \notin DOMAIN index
    BY <1>3, <2>1 DEF Modify, enter, IndexAfter
  <2>2. CASE e.id \in DOMAIN index
    BY <1>3, <2>2 DEF Modify, enter, IndexAfter
  <2> QED BY <2>1, <2>2
<1>4. CASE Clear(e)
  BY <1>4 DEF Clear, IndexAfter
<1>5. CASE Ignore(e)
  BY <1>5 DEF Ignore, vars, IndexAfter
<1> QED BY <1>1, <1>2, <1>3, <1>4, <1>5 DEF MapApply

\* ... AbseilOrderBook too.
LEMMA AbseilIndex ==
  ASSUME NEW e, Abseil!AbseilApply(e)
  PROVE  abseilIndex' = IndexAfter(abseilIndex, e)
<1> USE SameOperators
<1>1. CASE Abseil!AbseilAdd(e)
  BY <1>1 DEF Abseil!AbseilAdd, Abseil!enter, IndexAfter
<1>2. CASE Abseil!Cancel(e)
  BY <1>2 DEF Abseil!Cancel, IndexAfter
<1>3. CASE Abseil!Modify(e)
  <2>1. CASE e.id \notin DOMAIN abseilIndex
    BY <1>3, <2>1 DEF Abseil!Modify, Abseil!enter, IndexAfter
  <2>2. CASE e.id \in DOMAIN abseilIndex
    BY <1>3, <2>2 DEF Abseil!Modify, Abseil!enter, IndexAfter
  <2> QED BY <2>1, <2>2
<1>4. CASE Abseil!Clear(e)
  BY <1>4 DEF Abseil!Clear, IndexAfter
<1>5. CASE Abseil!Ignore(e)
  BY <1>5 DEF Abseil!Ignore, Abseil!vars, IndexAfter
<1> QED BY <1>1, <1>2, <1>3, <1>4, <1>5 DEF Abseil!AbseilApply

\* Equal levels stay equal when no Add names a resting order.
LEMMA SameLevels ==
  ASSUME NEW e, MapApply(e), Abseil!AbseilApply(e), ~Duplicate(e),
         abseilLevels = levels, abseilIndex = index
  PROVE  abseilLevels' = levels'
<1> USE SameOperators
<1>1. CASE e.action = "Add"
  <2>1. CASE Placeable(e)
    <3>1. Add(e) /\ Abseil!AbseilAdd(e) /\ e.id \notin DOMAIN index
      BY <1>1, <2>1 DEF MapApply, Cancel, Modify, Clear, Ignore, Abseil!AbseilApply, Abseil!Cancel,
         Abseil!Modify, Abseil!Clear, Abseil!Ignore, Duplicate
    <3> QED BY <3>1 DEF Add, enter, Abseil!AbseilAdd, Abseil!enter, OrderOf
  <2>2. CASE ~Placeable(e)
    <3>1. Ignore(e) /\ Abseil!Ignore(e)
      BY <1>1, <2>2 DEF MapApply, Add, Cancel, Modify, Clear, Abseil!AbseilApply, Abseil!AbseilAdd,
         Abseil!Cancel, Abseil!Modify, Abseil!Clear
    <3> QED BY <3>1 DEF Ignore, Abseil!Ignore, vars, Abseil!vars
  <2> QED BY <2>1, <2>2
<1>2. CASE e.action = "Cancel"
  <2>1. CASE e.id \in DOMAIN index
    <3>1. Cancel(e) /\ Abseil!Cancel(e)
      BY <1>2, <2>1 DEF MapApply, Add, Modify, Clear, Ignore, Abseil!AbseilApply, Abseil!AbseilAdd,
         Abseil!Modify, Abseil!Clear, Abseil!Ignore
    <3> QED BY <3>1 DEF Cancel, Abseil!Cancel
  <2>2. CASE e.id \notin DOMAIN index
    <3>1. Ignore(e) /\ Abseil!Ignore(e)
      BY <1>2, <2>2 DEF MapApply, Add, Cancel, Modify, Clear, Abseil!AbseilApply, Abseil!AbseilAdd,
         Abseil!Cancel, Abseil!Modify, Abseil!Clear
    <3> QED BY <3>1 DEF Ignore, Abseil!Ignore, vars, Abseil!vars
  <2> QED BY <2>1, <2>2
<1>3. CASE e.action = "Modify"
  <2>1. CASE e.id \in DOMAIN index
    <3>1. Modify(e) /\ Abseil!Modify(e)
      BY <1>3, <2>1 DEF MapApply, Add, Cancel, Clear, Ignore, Abseil!AbseilApply, Abseil!AbseilAdd,
         Abseil!Cancel, Abseil!Clear, Abseil!Ignore
    <3> QED BY <2>1, <3>1 DEF Modify, enter, Abseil!Modify, Abseil!enter
  <2>2. CASE e.id \notin DOMAIN index /\ Placeable(e)
    <3>1. Modify(e) /\ Abseil!Modify(e)
      BY <1>3, <2>2 DEF MapApply, Add, Cancel, Clear, Ignore, Abseil!AbseilApply, Abseil!AbseilAdd,
         Abseil!Cancel, Abseil!Clear, Abseil!Ignore
    <3> QED BY <2>2, <3>1 DEF Modify, enter, Abseil!Modify, Abseil!enter
  <2>3. CASE e.id \notin DOMAIN index /\ ~Placeable(e)
    <3>1. Ignore(e) /\ Abseil!Ignore(e)
      BY <1>3, <2>3 DEF MapApply, Add, Cancel, Modify, Clear, Abseil!AbseilApply, Abseil!AbseilAdd,
         Abseil!Cancel, Abseil!Modify, Abseil!Clear
    <3> QED BY <3>1 DEF Ignore, Abseil!Ignore, vars, Abseil!vars
  <2> QED BY <2>1, <2>2, <2>3
<1>4. CASE e.action = "Clear"
  <2>1. Clear(e) /\ Abseil!Clear(e)
    BY <1>4 DEF MapApply, Add, Cancel, Modify, Ignore, Abseil!AbseilApply, Abseil!AbseilAdd,
       Abseil!Cancel, Abseil!Modify, Abseil!Ignore
  <2> QED BY <2>1 DEF Clear, Abseil!Clear
<1>5. CASE e.action \notin {"Add", "Cancel", "Modify", "Clear"}
  <2>1. Ignore(e) /\ Abseil!Ignore(e)
    BY <1>5 DEF MapApply, Add, Cancel, Modify, Clear, Abseil!AbseilApply, Abseil!AbseilAdd,
       Abseil!Cancel, Abseil!Modify, Abseil!Clear
  <2> QED BY <2>1 DEF Ignore, Abseil!Ignore, vars, Abseil!vars
<1> QED BY <1>1, <1>2, <1>3, <1>4, <1>5

SameBooksInv == abseilIndex = index /\ (~duplicated => abseilLevels = levels)

\* The indexes are equal whatever the feed does, the levels until the first Add of a
\* resting order.
LEMMA StepSame == SameBooksInv /\ [ApplyBoth]_booksVars => SameBooksInv'
<1> SUFFICES ASSUME SameBooksInv, [ApplyBoth]_booksVars PROVE SameBooksInv'
  OBVIOUS
<1>1. CASE UNCHANGED booksVars
  BY <1>1 DEF booksVars, vars, SameBooksInv
<1>2. CASE ApplyBoth
  <2>1. PICK e \in Feed : /\ MapApply(e) /\ Abseil!AbseilApply(e)
                          /\ duplicated' = (duplicated \/ Duplicate(e))
    BY <1>2 DEF ApplyBoth
  <2>2. abseilIndex' = index'
    BY <2>1, MapIndex, AbseilIndex DEF SameBooksInv
  <2>3. ~duplicated' => abseilLevels' = levels'
    BY <2>1, SameLevels DEF SameBooksInv
  <2> QED BY <2>2, <2>3 DEF SameBooksInv
<1> QED BY <1>1, <1>2

\* AbseilOrderBook shows what MapOrderBook shows as long as no order is added twice.
THEOREM BooksAreAlike == BooksSpec => []BooksAgree
<1>1. BooksInit => SameBooksInv
  <2>1. BooksInit => abseilLevels = levels /\ abseilIndex = index
    BY DEF BooksInit, MapInit, Abseil!MapInit, Abseil!Side, Side
  <2> QED BY <2>1 DEF SameBooksInv
<1>2. SameBooksInv => BooksAgree
  BY DEF SameBooksInv, BooksAgree
<1> QED BY <1>1, <1>2, StepSame, PTL DEF BooksSpec
-----------------------------------------------------------------------------
(* The orders a well-formed feed leaves *)

\* Orders, by their ids.
AreOrders(f) == f \in [DOMAIN f -> Order]

\* The empty book holds orders.
LEMMA NoOrders == AreOrders(<<>>)
<1>1. <<>> \in [1 .. 0 -> Order]
  OBVIOUS
<1> QED BY <1>1 DEF AreOrders

\* An event leaves orders in the index, and on a well-formed feed those meant.
LEMMA OrdersStep ==
  ASSUME NEW f, AreOrders(f), NEW e \in Feed, NEW g,
         e.action \in {"Add", "Modify"} => e.size > 0
  PROVE  /\ AreOrders(IndexAfter(f, e))
         /\ Meaning([orders |-> f, fifo |-> g], e).orders = IndexAfter(f, e)
<1> DEFINE b == [orders |-> f, fifo |-> g]
           id == e.id
           known == id \in DOMAIN f
           old == f[id]
           new == [side |-> IF e.side = "None" THEN old.side ELSE e.side,
                   price |-> IF e.price = Undef THEN old.price ELSE e.price,
                   size |-> e.size]
<1>1. /\ ~e.badFlags /\ e.size \in Nat
      /\ e.action \in {"Add", "Modify", "Cancel", "Clear", "Trade", "Fill", "None"}
      /\ e.action \in {"Add", "Modify"} => e.side \in Side \union {"None"}
                                           /\ e.price \in Prices \union {Undef}
  BY FeedAssumption DEF Feed, Event
<1>2. \A v \in Order : AreOrders(Set(f, id, v))
  BY DEF AreOrders, Set
<1>3. AreOrders(Drop(f, id))
  BY DEF AreOrders, Drop
<1>4. known => old \in Order
  BY DEF AreOrders
<1>5. known => AreOrders([f EXCEPT ![id].size = e.size])
  <2> SUFFICES ASSUME known PROVE AreOrders([f EXCEPT ![id].size = e.size])
    OBVIOUS
  <2>1. [old EXCEPT !.size = e.size] \in Order
    BY <1>1, <1>4 DEF Order
  <2> QED BY <2>1 DEF AreOrders
<1>6. \A v \in Order : Set(Drop(f, id), id, v) = Set(f, id, v)
  BY DEF Set, Drop
<1>7. \A o : Place(b, id, o).orders = IF known THEN Set(Drop(f, id), id, o) ELSE Set(f, id, o)
  BY DEF Place, Remove
<1>8. /\ Remove(b, id).orders = Drop(f, id)
      /\ \A n : Resize(b, id, n).orders = [f EXCEPT ![id].size = n]
  BY DEF Remove, Resize
<1>9. e.action \in {"Add", "Modify"} /\ Placeable(e) => OrderOf(e) \in Order
  BY <1>1 DEF Placeable, OrderOf, Order
<1>10. e.action = "Modify" /\ known => new \in Order
  BY <1>1, <1>4 DEF Order
<1>11. e.action = "Modify" /\ known /\ LevelOf(new) = LevelOf(old)
         => [f EXCEPT ![id].size = e.size] = Set(f, id, new)
  <2> SUFFICES ASSUME e.action = "Modify", known, LevelOf(new) = LevelOf(old)
               PROVE  [f EXCEPT ![id].size = e.size] = Set(f, id, new)
    OBVIOUS
  <2>1. new.side = old.side /\ new.price = old.price
    BY DEF LevelOf
  <2>2. [old EXCEPT !.size = e.size] = new
    BY <1>4, <1>10, <2>1 DEF Order
  <2>3. [f EXCEPT ![id].size = e.size] = [f EXCEPT ![id] = new]
    BY <2>2
  <2>4. [f EXCEPT ![id] = new] = Set(f, id, new)
    BY DEF Set, AreOrders
  <2> QED BY <2>3, <2>4
<1>12. CASE e.action = "Clear"
  <2>1. Meaning(b, e) = EmptyBook
    BY <1>1, <1>12 DEF Meaning
  <2>2. IndexAfter(f, e) = <<>>
    BY <1>12 DEF IndexAfter
  <2> QED BY <2>1, <2>2, NoOrders DEF EmptyBook
<1>13. CASE e.action \in {"Add", "Modify"} /\ Placeable(e) /\ (e.action = "Modify" => ~known)
  <2>1. Meaning(b, e) = Place(b, id, OrderOf(e))
    BY <1>1, <1>13 DEF Meaning, OrderOf
  <2>2. IndexAfter(f, e) = Set(f, id, OrderOf(e))
    BY <1>13 DEF IndexAfter
  <2>3. OrderOf(e) \in Order
    BY <1>9, <1>13
  <2> QED BY <2>1, <2>2, <2>3, <1>2, <1>6, <1>7
<1>14. CASE e.action = "Cancel" /\ known
  <2>1. Meaning(b, e) = IF e.size = 0 THEN Remove(b, id) ELSE Resize(b, id, e.size)
    BY <1>1, <1>14 DEF Meaning
  <2>2. IndexAfter(f, e) = IF e.size = 0 THEN Drop(f, id) ELSE [f EXCEPT ![id].size = e.size]
    BY <1>14 DEF IndexAfter
  <2> QED BY <2>1, <2>2, <1>3, <1>5, <1>8, <1>14
<1>15. CASE e.action = "Modify" /\ known
  <2>1. e.size # 0
    BY <1>1, <1>15
  <2>2. Meaning(b, e) = IF LevelOf(new) # LevelOf(old) THEN Place(b, id, new)
                        ELSE Resize(b, id, e.size)
    BY <1>1, <1>15, <2>1 DEF Meaning
  <2>3. IndexAfter(f, e) = Set(f, id, new)
    BY <1>15 DEF IndexAfter
  <2>4. new \in Order
    BY <1>10, <1>15
  <2>5. Meaning(b, e).orders = Set(f, id, new)
    <3>1. CASE LevelOf(new) # LevelOf(old)
      BY <2>2, <2>4, <3>1, <1>6, <1>7, <1>15
    <3>2. CASE LevelOf(new) = LevelOf(old)
      BY <2>2, <3>2, <1>8, <1>11, <1>15
    <3> QED BY <3>1, <3>2
  <2> QED BY <2>3, <2>4, <2>5, <1>2
<1>16. CASE /\ e.action # "Clear"
            /\ ~(e.action \in {"Add", "Modify"} /\ Placeable(e) /\ (e.action = "Modify" => ~known))
            /\ ~(e.action \in {"Cancel", "Modify"} /\ known)
  <2>1. Meaning(b, e) = b
    BY <1>1, <1>16 DEF Meaning
  <2>2. IndexAfter(f, e) = f
    BY <1>16 DEF IndexAfter
  <2> QED BY <2>1, <2>2
<1> QED BY <1>12, <1>13, <1>14, <1>15, <1>16

OrdersInv == wellFed => index = meant /\ AreOrders(index)

\* A step of a well-formed feed leaves in the index what it means to leave.
LEMMA StepOrders == OrdersInv /\ [ApplyBoth]_booksVars => OrdersInv'
<1> SUFFICES ASSUME OrdersInv, [ApplyBoth]_booksVars PROVE OrdersInv'
  OBVIOUS
<1>1. CASE UNCHANGED booksVars
  BY <1>1 DEF booksVars, vars, OrdersInv, AreOrders
<1>2. CASE ApplyBoth
  <2>1. PICK e \in Feed : /\ MapApply(e)
                          /\ wellFed' = (wellFed /\ WellFormed(e))
                          /\ meant' = IF wellFed' THEN OrdersMeant(e) ELSE <<>>
    BY <1>2 DEF ApplyBoth
  <2> SUFFICES ASSUME wellFed' PROVE index' = meant' /\ AreOrders(index')
    BY DEF OrdersInv, AreOrders
  <2>2. wellFed /\ WellFormed(e)
    BY <2>1
  <2>3. index = meant /\ AreOrders(index)
    BY <2>2 DEF OrdersInv
  <2>4. PICK f : f = index
    OBVIOUS
  <2>5. e.action \in {"Add", "Modify"} => e.size > 0
    BY <2>2 DEF WellFormed
  <2>6. AreOrders(f)
    BY <2>3, <2>4
  <2>7. index' = IndexAfter(f, e)
    BY <2>1, <2>4, MapIndex
  <2>8. meant' = Meaning([orders |-> f, fifo |-> [l \in Levels |-> <<>>]], e).orders
    BY <2>1, <2>3, <2>4 DEF OrdersMeant
  <2>9. /\ AreOrders(IndexAfter(f, e))
        /\ Meaning([orders |-> f, fifo |-> [l \in Levels |-> <<>>]], e).orders = IndexAfter(f, e)
    BY <2>5, <2>6, OrdersStep
  <2> QED BY <2>7, <2>8, <2>9
<1> QED BY <1>1, <1>2

\* A well-formed feed leaves in both books the orders it means to leave.
THEOREM OrdersAreMeant == BooksSpec => []OrdersFollowMeaning
<1>1. BooksInit => SameBooksInv /\ OrdersInv
  <2>1. BooksInit => abseilLevels = levels /\ abseilIndex = index
    BY DEF BooksInit, MapInit, Abseil!MapInit, Abseil!Side, Side
  <2>2. BooksInit => index = <<>> /\ meant = <<>>
    BY DEF BooksInit, MapInit
  <2> QED BY <2>1, <2>2, NoOrders DEF SameBooksInv, OrdersInv
<1>2. SameBooksInv /\ OrdersInv => OrdersFollowMeaning
  BY DEF SameBooksInv, OrdersInv, OrdersFollowMeaning
<1> QED BY <1>1, <1>2, StepSame, StepOrders, PTL DEF BooksSpec
-----------------------------------------------------------------------------
(* Sums of sizes *)

\* The contracts of the orders of ids, one by one.
Units(f, ids) == UNION {{id} \X (1 .. f[id].size) : id \in ids}
Count(f, ids) == Cardinality(Units(f, ids))

\* They are finitely many.
LEMMA UnitsFinite ==
  ASSUME NEW f, NEW ids, IsFiniteSet(ids), \A id \in ids : f[id].size \in Nat
  PROVE  IsFiniteSet(Units(f, ids))
<1> DEFINE part == [id \in ids |-> {id} \X (1 .. f[id].size)]
<1>1. \A id \in ids : IsFiniteSet(part[id])
  <2> SUFFICES ASSUME NEW id \in ids PROVE IsFiniteSet(part[id])
    OBVIOUS
  <2>1. f[id].size \in Int /\ 1 \in Int
    OBVIOUS
  <2>2. IsFiniteSet(1 .. f[id].size)
    BY <2>1, FS_Interval
  <2>3. IsFiniteSet({id})
    BY FS_Singleton
  <2>4. IsFiniteSet({id} \X (1 .. f[id].size))
    BY <2>2, <2>3, FS_Product
  <2> QED BY <2>4
<1>2. part \in Surjection(ids, {part[id] : id \in ids})
  BY DEF Surjection
<1>3. IsFiniteSet({part[id] : id \in ids})
  BY <1>2, FS_Surjection
<1>4. IsFiniteSet(UNION {part[id] : id \in ids})
  BY <1>1, <1>3, FS_UNION
<1>5. Units(f, ids) = UNION {part[id] : id \in ids}
  BY DEF Units
<1> QED BY <1>4, <1>5

\* An order more brings its size.
LEMMA UnitsAdded ==
  ASSUME NEW f, NEW ids, NEW x, IsFiniteSet(ids), x \notin ids,
         \A id \in ids \union {x} : f[id].size \in Nat
  PROVE  /\ IsFiniteSet(Units(f, ids)) /\ Count(f, ids) \in Nat
         /\ Count(f, ids \union {x}) = f[x].size + Count(f, ids)
<1> DEFINE own == {x} \X (1 .. f[x].size)
<1>1. IsFiniteSet(Units(f, ids))
  BY UnitsFinite
<1>2. IsFiniteSet(own) /\ Cardinality(own) = f[x].size
  <2>1. PICK n \in Nat : n = f[x].size
    OBVIOUS
  <2>2. IsFiniteSet(1 .. n) /\ Cardinality(1 .. n) = n
    BY FS_Interval
  <2>3. IsFiniteSet({x}) /\ Cardinality({x}) = 1
    BY FS_Singleton
  <2>4. /\ IsFiniteSet({x} \X (1 .. n))
        /\ Cardinality({x} \X (1 .. n)) = Cardinality({x}) * Cardinality(1 .. n)
    BY <2>2, <2>3, FS_Product
  <2>5. Cardinality({x} \X (1 .. n)) = n
    BY <2>2, <2>3, <2>4
  <2> QED BY <2>1, <2>4, <2>5
<1>3. Units(f, ids \union {x}) = Units(f, ids) \union own
  BY DEF Units
<1>4. Units(f, ids) \cap own = {}
  BY DEF Units
<1> HIDE DEF own
<1>5. Cardinality(Units(f, ids) \union own)
        = Cardinality(Units(f, ids)) + Cardinality(own) - Cardinality(Units(f, ids) \cap own)
  BY <1>1, <1>2, FS_Union
<1>6. Cardinality(Units(f, ids)) \in Nat /\ Cardinality({}) = 0
  BY <1>1, FS_CardinalityType, FS_EmptySet
<1>7. f[x].size \in Nat
  OBVIOUS
<1>8. Cardinality(Units(f, ids) \cap own) = 0
  BY <1>4, <1>6
<1>9. Cardinality(Units(f, ids) \union own) = f[x].size + Cardinality(Units(f, ids))
  BY <1>2, <1>5, <1>6, <1>7, <1>8
<1> QED BY <1>1, <1>3, <1>6, <1>9 DEF Count

\* No orders, no contracts.
LEMMA NoUnits == ASSUME NEW f PROVE Count(f, {}) = 0
<1>1. Units(f, {}) = {}
  BY DEF Units
<1> QED BY <1>1, FS_EmptySet DEF Count

\* The recursive sum counts them, whatever order CHOOSE takes them in.
LEMMA TotalIsCount ==
  ASSUME NEW f, NEW ids, IsFiniteSet(ids), \A id \in ids : f[id].size \in Nat
  PROVE  Total(f, ids) = Count(f, ids)
<1> DEFINE first(S) == CHOOSE x \in S : TRUE
           Body(g, S) == IF S = {} THEN 0 ELSE f[first(S)].size + g[S \ {first(S)}]
           count == [S \in SUBSET ids |-> Count(f, S)]
           sum == CHOOSE g : g = [S \in SUBSET ids |-> Body(g, S)]
<1>1. ASSUME NEW S \in SUBSET ids, S # {}
      PROVE  /\ first(S) \in S /\ S \ {first(S)} \in SUBSET ids
             /\ Count(f, S) = f[first(S)].size + Count(f, S \ {first(S)})
  <2>1. first(S) \in S
    BY <1>1
  <2> HIDE DEF first
  <2>2. IsFiniteSet(S \ {first(S)})
    BY FS_Subset
  <2>3. (S \ {first(S)}) \union {first(S)} = S
    BY <2>1
  <2>4. \A id \in S : f[id].size \in Nat
    OBVIOUS
  <2>5. Count(f, (S \ {first(S)}) \union {first(S)})
          = f[first(S)].size + Count(f, S \ {first(S)})
    BY <2>2, <2>3, <2>4, UnitsAdded
  <2> QED BY <2>1, <2>3, <2>5
<1>2. count = [S \in SUBSET ids |-> Body(count, S)]
  <2>1. \A S \in SUBSET ids : count[S] = Body(count, S)
    <3> SUFFICES ASSUME NEW S \in SUBSET ids PROVE count[S] = Body(count, S)
      OBVIOUS
    <3>1. CASE S = {}
      BY <3>1, NoUnits
    <3>2. CASE S # {}
      <4> HIDE DEF first
      <4> QED BY <1>1, <3>2
    <3> QED BY <3>1, <3>2
  <2> HIDE DEF Body
  <2> QED BY <2>1
<1>3. sum = [S \in SUBSET ids |-> Body(sum, S)]
  <2> HIDE DEF Body, count
  <2>1. \E g : g = [S \in SUBSET ids |-> Body(g, S)]
    BY <1>2
  <2> QED BY <2>1
<1>4. \A S \in SUBSET ids : sum[S] = Count(f, S)
  <2> DEFINE wrong == {S \in SUBSET ids : sum[S] # Count(f, S)}
  <2> SUFFICES ASSUME wrong # {} PROVE FALSE
    OBVIOUS
  <2> HIDE DEF sum
  <2>1. wrong \subseteq FiniteSubsetsOf(ids)
    BY FS_FiniteSubsetsOfFinite
  <2>2. PICK S \in wrong : \A T \in wrong : <<T, S>> \notin StrictSubsetOrdering(ids)
    BY <2>1, FS_StrictSubsetOrderingWellFounded, WFMin
  <2>3. S # {}
    BY <1>3, NoUnits
  <2>4. first(S) \in S /\ S \ {first(S)} \in SUBSET ids
    BY <1>1, <2>3
  <2>5. sum[S] = f[first(S)].size + sum[S \ {first(S)}]
    BY <1>3, <2>3
  <2> HIDE DEF first
  <2>6. S \ {first(S)} \notin wrong
    <3>1. S \in SUBSET ids /\ S \ {first(S)} # S
      BY <2>4
    <3>2. <<S \ {first(S)}, S>> \in StrictSubsetOrdering(ids)
      BY <2>4, <3>1 DEF StrictSubsetOrdering
    <3> HIDE DEF wrong
    <3> QED BY <2>2, <3>2
  <2>7. sum[S \ {first(S)}] = Count(f, S \ {first(S)})
    BY <2>4, <2>6
  <2> QED BY <1>1, <2>3, <2>5, <2>7
<1>5. Total(f, ids) = sum[ids]
  BY DEF Total
<1> QED BY <1>4, <1>5

\* What rests at each level.
Rests(f) == [l \in Levels |-> Total(f, {id \in DOMAIN f : LevelOf(f[id]) = l})]

\* An order more raises its own level by its size.
LEMMA RestsEntered ==
  ASSUME NEW f, AreOrders(f), IsFiniteSet(DOMAIN f), NEW id, id \notin DOMAIN f,
         NEW o \in Order
  PROVE  /\ Rests(f) \in [Levels -> Nat] /\ Rests(Set(f, id, o)) \in [Levels -> Nat]
         /\ \A l \in Levels : Rests(Set(f, id, o))[l]
                                = Rests(f)[l] + IF l = LevelOf(o) THEN o.size ELSE 0
<1> DEFINE g == Set(f, id, o)
<1> SUFFICES ASSUME NEW l \in Levels
             PROVE  /\ Rests(f)[l] \in Nat /\ Rests(g)[l] \in Nat
                    /\ Rests(g)[l] = Rests(f)[l] + IF l = LevelOf(o) THEN o.size ELSE 0
  BY DEF Rests
<1> DEFINE ids == {x \in DOMAIN f : LevelOf(f[x]) = l}
<1>1. \A x \in DOMAIN f : f[x].size \in Nat /\ g[x] = f[x]
  BY DEF AreOrders, Order, Set
<1>2. o.size \in Nat /\ g[id] = o /\ DOMAIN g = DOMAIN f \union {id}
  BY DEF Order, Set
<1>3. IsFiniteSet(ids)
  BY FS_Subset
<1>4. Total(f, ids) = Count(f, ids) /\ Total(g, ids) = Count(g, ids)
  BY <1>1, <1>3, TotalIsCount
<1>5. Units(g, ids) = Units(f, ids)
  BY <1>1 DEF Units
<1>6. id \notin ids /\ \A x \in ids \union {id} : g[x].size \in Nat
  BY <1>1, <1>2
<1>7. Count(g, ids) \in Nat /\ Count(g, ids \union {id}) = o.size + Count(g, ids)
  <2> HIDE DEF g, ids
  <2>1. Count(g, ids) \in Nat /\ Count(g, ids \union {id}) = g[id].size + Count(g, ids)
    BY <1>3, <1>6, UnitsAdded
  <2> QED BY <1>2, <2>1
<1>8. Total(g, ids \union {id}) = Count(g, ids \union {id})
  <2>1. IsFiniteSet(ids \union {id})
    BY <1>3, FS_AddElement
  <2> QED BY <2>1, <1>6, TotalIsCount
<1>9. {x \in DOMAIN g : LevelOf(g[x]) = l} = IF l = LevelOf(o) THEN ids \union {id} ELSE ids
  BY <1>1, <1>2
<1>10. Rests(f)[l] = Count(f, ids) /\ Count(f, ids) = Count(g, ids)
  BY <1>4, <1>5 DEF Rests, Count
<1>11. Rests(g)[l] = Total(g, IF l = LevelOf(o) THEN ids \union {id} ELSE ids)
  BY <1>9 DEF Rests
<1>12. Rests(g)[l] = IF l = LevelOf(o) THEN o.size + Count(g, ids) ELSE Count(g, ids)
  BY <1>4, <1>7, <1>8, <1>11
<1> HIDE DEF g, ids
<1> QED BY <1>2, <1>7, <1>10, <1>12

\* A level holds a natural number of contracts.
LEMMA RestsAreNat ==
  ASSUME NEW f, AreOrders(f), IsFiniteSet(DOMAIN f)
  PROVE  Rests(f) \in [Levels -> Nat]
<1> SUFFICES ASSUME NEW l \in Levels PROVE Rests(f)[l] \in Nat
  BY DEF Rests
<1> DEFINE ids == {x \in DOMAIN f : LevelOf(f[x]) = l}
<1>1. IsFiniteSet(ids) /\ \A x \in ids : f[x].size \in Nat
  BY FS_Subset DEF AreOrders, Order
<1>2. Rests(f)[l] = Total(f, ids)
  BY DEF Rests
<1> HIDE DEF ids
<1>3. Total(f, ids) = Count(f, ids)
  BY <1>1, TotalIsCount
<1>4. Count(f, ids) \in Nat
  BY <1>1, UnitsFinite, FS_CardinalityType DEF Count
<1> QED BY <1>2, <1>3, <1>4

\* An order less lowers its own level by its size.
LEMMA RestsLeft ==
  ASSUME NEW f, AreOrders(f), IsFiniteSet(DOMAIN f), NEW id \in DOMAIN f
  PROVE  /\ Rests(f) \in [Levels -> Nat] /\ Rests(Drop(f, id)) \in [Levels -> Nat]
         /\ \A l \in Levels : Rests(Drop(f, id))[l]
              = Rests(f)[l] - IF l = LevelOf(f[id]) THEN f[id].size ELSE 0
<1> DEFINE g == Drop(f, id)
<1>1. AreOrders(g) /\ id \notin DOMAIN g /\ f[id] \in Order
  BY DEF AreOrders, Drop
<1>2. IsFiniteSet(DOMAIN g)
  BY FS_Subset DEF Drop
<1>3. Set(g, id, f[id]) = f
  BY DEF Set, Drop, AreOrders
<1> HIDE DEF g
<1>4. /\ Rests(g) \in [Levels -> Nat] /\ Rests(f) \in [Levels -> Nat]
      /\ \A l \in Levels : Rests(f)[l]
                             = Rests(g)[l] + IF l = LevelOf(f[id]) THEN f[id].size ELSE 0
  BY <1>1, <1>2, <1>3, RestsEntered
<1>5. f[id].size \in Nat
  BY <1>1 DEF Order
<1>6. \A l \in Levels : Rests(f)[l] \in Nat /\ Rests(g)[l] \in Nat
  BY <1>4
<1>7. \A l \in Levels : Rests(g)[l]
                          = Rests(f)[l] - IF l = LevelOf(f[id]) THEN f[id].size ELSE 0
  BY <1>4, <1>5, <1>6
<1> QED BY <1>4, <1>7 DEF g

AllFull(f) == \A id \in DOMAIN f : f[id].size > 0

\* Nothing rests where there is no order.
LEMMA RestsNowhere ==
  ASSUME NEW f, NEW l \in Levels, \A id \in DOMAIN f : LevelOf(f[id]) # l
  PROVE  Rests(f)[l] = 0
<1>1. {id \in DOMAIN f : LevelOf(f[id]) = l} = {}
  OBVIOUS
<1>2. Total(f, {}) = Count(f, {})
  BY FS_EmptySet, TotalIsCount
<1> QED BY <1>1, <1>2, NoUnits DEF Rests

\* While every order has a size, the levels where something rests are those of an order.
LEMMA RestsWhere ==
  ASSUME NEW f, AreOrders(f), IsFiniteSet(DOMAIN f), AllFull(f), NEW l \in Levels
  PROVE  Rests(f)[l] > 0 <=> \E id \in DOMAIN f : LevelOf(f[id]) = l
<1>1. ASSUME NEW id \in DOMAIN f, LevelOf(f[id]) = l PROVE Rests(f)[l] > 0
  <2>1. Rests(f)[l] \in Nat /\ Rests(Drop(f, id))[l] \in Nat
    BY RestsLeft
  <2>2. Rests(Drop(f, id))[l] = Rests(f)[l] - f[id].size
    BY <1>1, RestsLeft
  <2>3. f[id].size \in Nat /\ f[id].size > 0
    BY DEF AllFull, AreOrders, Order
  <2> QED BY <2>1, <2>2, <2>3
<1>2. ASSUME ~ \E id \in DOMAIN f : LevelOf(f[id]) = l PROVE Rests(f)[l] = 0
  BY <1>2, RestsNowhere
<1> QED BY <1>1, <1>2
-----------------------------------------------------------------------------
(* Volumes and what rests *)

\* The levels of a book.
IsLevels(lv) == lv \in [Side -> UNION {[P -> Nat] : P \in SUBSET Prices}]

\* No level shows more than what rests there;
Within(lv, r) == \A s \in Side : \A p \in DOMAIN lv[s] : lv[s][p] <= r[<<s, p>>]
\* none where something rests is missing or shows too little;
Covers(lv, r) == \A s \in Side, p \in Prices :
                   r[<<s, p>>] > 0 => p \in DOMAIN lv[s] /\ lv[s][p] >= r[<<s, p>>]
\* none is there where nothing rests.
Tight(lv, r) == \A s \in Side : \A p \in DOMAIN lv[s] : r[<<s, p>>] > 0

\* Adding to a level.
LEMMA Adding ==
  ASSUME NEW lv, IsLevels(lv), NEW s \in Side, NEW p \in Prices, NEW d \in Nat
  PROVE  LET lv2 == add_to_level(lv, s, p, d)
         IN  /\ IsLevels(lv2)
             /\ \A t \in Side, q \in Prices :
                  /\ q \in DOMAIN lv2[t] <=> q \in DOMAIN lv[t] \/ <<t, q>> = <<s, p>>
                  /\ q \in DOMAIN lv[t] => lv2[t][q] = lv[t][q] + IF <<t, q>> = <<s, p>> THEN d ELSE 0
                  /\ q \notin DOMAIN lv[t] /\ <<t, q>> = <<s, p>> => lv2[t][q] = d
<1> DEFINE new == Set(lv[s], p, (IF p \in DOMAIN lv[s] THEN lv[s][p] ELSE 0) + d)
           lv2 == add_to_level(lv, s, p, d)
<1>1. lv2 = [lv EXCEPT ![s] = new]
  BY DEF add_to_level
<1>2. \A t \in Side : DOMAIN lv[t] \subseteq Prices /\ lv[t] \in [DOMAIN lv[t] -> Nat]
  BY DEF IsLevels
<1>3. DOMAIN new = DOMAIN lv[s] \union {p} /\ new = [x \in DOMAIN new |-> new[x]]
  BY DEF Set
<1>4. \A q \in DOMAIN new : new[q] = IF q = p THEN (IF p \in DOMAIN lv[s] THEN lv[s][p] ELSE 0) + d
                                     ELSE lv[s][q]
  BY DEF Set
<1> HIDE DEF new
<1>5. new \in [DOMAIN new -> Nat]
  BY <1>2, <1>3, <1>4
<1>6. new \in UNION {[P -> Nat] : P \in SUBSET Prices}
  <2>1. DOMAIN new \in SUBSET Prices
    BY <1>2, <1>3
  <2> QED BY <1>5, <2>1, Zenon
<1> HIDE DEF lv2
<1>7. IsLevels(lv2)
  BY <1>1, <1>6 DEF IsLevels
<1>8. \A t \in Side : lv2[t] = IF t = s THEN new ELSE lv[t]
  BY <1>1 DEF IsLevels
<1>9. ASSUME NEW t \in Side, NEW q \in Prices
      PROVE  /\ q \in DOMAIN lv2[t] <=> q \in DOMAIN lv[t] \/ <<t, q>> = <<s, p>>
             /\ q \in DOMAIN lv[t] => lv2[t][q] = lv[t][q] + IF <<t, q>> = <<s, p>> THEN d ELSE 0
             /\ q \notin DOMAIN lv[t] /\ <<t, q>> = <<s, p>> => lv2[t][q] = d
  <2>1. CASE t # s
    BY <1>2, <1>8, <2>1
  <2>2. CASE t = s
    BY <1>2, <1>3, <1>4, <1>8, <2>2
  <2> QED BY <2>1, <2>2
<1> QED BY <1>7, <1>9 DEF lv2

\* Taking from a level.
LEMMA Removing ==
  ASSUME NEW lv, IsLevels(lv), NEW s \in Side, NEW p \in Prices, NEW d \in Nat
  PROVE  LET lv2 == remove_from_level(lv, s, p, d)
         IN  /\ IsLevels(lv2)
             /\ \A t \in Side, q \in Prices :
                  /\ q \in DOMAIN lv2[t] <=>
                       q \in DOMAIN lv[t] /\ (<<t, q>> = <<s, p>> => lv[t][q] > d)
                  /\ q \in DOMAIN lv2[t] => lv2[t][q] = lv[t][q] - IF <<t, q>> = <<s, p>> THEN d ELSE 0
<1> DEFINE lv2 == remove_from_level(lv, s, p, d)
           left == lv[s][p] - d
           new == IF left <= 0 THEN Drop(lv[s], p) ELSE Set(lv[s], p, left)
<1>1. \A t \in Side : DOMAIN lv[t] \subseteq Prices /\ lv[t] \in [DOMAIN lv[t] -> Nat]
  BY DEF IsLevels
<1>2. CASE p \notin DOMAIN lv[s]
  <2>1. lv2 = lv
    BY <1>2 DEF remove_from_level
  <2> HIDE DEF lv2
  <2>2. ASSUME NEW t \in Side, NEW q \in DOMAIN lv[t]
        PROVE  <<t, q>> # <<s, p>> /\ lv[t][q] \in Nat
    BY <1>1, <1>2
  <2>3. \A t \in Side, q \in Prices :
          /\ q \in DOMAIN lv2[t] <=>
               q \in DOMAIN lv[t] /\ (<<t, q>> = <<s, p>> => lv[t][q] > d)
          /\ q \in DOMAIN lv2[t] => lv2[t][q] = lv[t][q] - IF <<t, q>> = <<s, p>> THEN d ELSE 0
    BY <2>1, <2>2
  <2> QED BY <2>1, <2>3 DEF lv2
<1>3. CASE p \in DOMAIN lv[s]
  <2>1. lv2 = [lv EXCEPT ![s] = new]
    BY <1>3 DEF remove_from_level
  <2>2. lv[s][p] \in Nat /\ left \in Int
    BY <1>1, <1>3
  <2>3. DOMAIN new = {q \in DOMAIN lv[s] : q = p => lv[s][q] > d}
    BY <1>3, <2>2 DEF Set, Drop
  <2>4. /\ new = [x \in DOMAIN new |-> new[x]]
        /\ \A q \in DOMAIN new : new[q] = IF q = p THEN left ELSE lv[s][q]
    BY <2>3 DEF Set, Drop
  <2> HIDE DEF new
  <2>5. new \in [DOMAIN new -> Nat]
    BY <1>1, <2>2, <2>3, <2>4
  <2>6. new \in UNION {[P -> Nat] : P \in SUBSET Prices}
    <3>1. DOMAIN new \in SUBSET Prices
      BY <1>1, <2>3
    <3> QED BY <2>5, <3>1, Zenon
  <2> HIDE DEF lv2
  <2>7. IsLevels(lv2)
    BY <2>1, <2>6 DEF IsLevels
  <2>8. \A t \in Side : lv2[t] = IF t = s THEN new ELSE lv[t]
    BY <2>1 DEF IsLevels
  <2>9. ASSUME NEW t \in Side, NEW q \in Prices
        PROVE  /\ q \in DOMAIN lv2[t] <=>
                    q \in DOMAIN lv[t] /\ (<<t, q>> = <<s, p>> => lv[t][q] > d)
               /\ q \in DOMAIN lv2[t] => lv2[t][q] = lv[t][q] - IF <<t, q>> = <<s, p>> THEN d ELSE 0
    <3>1. CASE t # s
      BY <1>1, <2>8, <3>1
    <3>2. CASE t = s
      BY <1>1, <2>3, <2>4, <2>8, <3>2
    <3> QED BY <3>1, <3>2
  <2> QED BY <2>7, <2>9 DEF lv2
<1> QED BY <1>2, <1>3

\* Taking from a level what no longer rests there.
LEMMA Lowered ==
  ASSUME NEW lv, IsLevels(lv), NEW s \in Side, NEW p \in Prices, NEW d \in Nat,
         NEW r \in [Levels -> Nat], NEW r2 \in [Levels -> Nat],
         \A l \in Levels : r2[l] = r[l] - IF l = <<s, p>> THEN d ELSE 0
  PROVE  LET lv2 == remove_from_level(lv, s, p, d)
         IN  /\ IsLevels(lv2)
             /\ Within(lv, r) => Within(lv2, r2)
             /\ Covers(lv, r) => Covers(lv2, r2)
             /\ Within(lv, r) /\ Tight(lv, r) => Tight(lv2, r2)
<1> DEFINE lv2 == remove_from_level(lv, s, p, d)
<1>1. IsLevels(lv2)
  BY Removing
<1>2. ASSUME NEW t \in Side, NEW q \in Prices
      PROVE  /\ q \in DOMAIN lv2[t] <=>
                  q \in DOMAIN lv[t] /\ (<<t, q>> = <<s, p>> => lv[t][q] > d)
             /\ q \in DOMAIN lv2[t] => lv2[t][q] = lv[t][q] - IF <<t, q>> = <<s, p>> THEN d ELSE 0
  BY Removing
<1>3. \A t \in Side : DOMAIN lv[t] \subseteq Prices /\ DOMAIN lv2[t] \subseteq Prices
  BY <1>1 DEF IsLevels
<1>4. \A t \in Side : \A q \in DOMAIN lv[t] : lv[t][q] \in Nat
  BY DEF IsLevels
<1>5. \A t \in Side, q \in Prices : /\ <<t, q>> \in Levels
                                    /\ r[<<t, q>>] \in Nat /\ r2[<<t, q>>] \in Nat
                                    /\ r2[<<t, q>>] = r[<<t, q>>] - IF <<t, q>> = <<s, p>> THEN d ELSE 0
  BY DEF Levels
<1> HIDE DEF lv2
<1>6. ASSUME Within(lv, r), NEW t \in Side, NEW q \in DOMAIN lv2[t]
      PROVE  lv2[t][q] <= r2[<<t, q>>]
  <2>1. q \in Prices /\ q \in DOMAIN lv[t]
    BY <1>2, <1>3
  <2>2. lv[t][q] <= r[<<t, q>>] /\ lv[t][q] \in Nat
    BY <1>4, <1>6, <2>1 DEF Within
  <2>3. CASE <<t, q>> = <<s, p>>
    <3>1. lv2[t][q] = lv[t][q] - d /\ lv[t][q] > d /\ r2[<<t, q>>] = r[<<t, q>>] - d
      BY <1>2, <1>5, <2>1, <2>3
    <3> QED BY <1>5, <2>1, <2>2, <3>1
  <2>4. CASE <<t, q>> # <<s, p>>
    <3>1. lv2[t][q] = lv[t][q] - 0 /\ r2[<<t, q>>] = r[<<t, q>>] - 0
      BY <1>2, <1>5, <2>1, <2>4
    <3> QED BY <1>5, <2>1, <2>2, <3>1
  <2> QED BY <2>3, <2>4
<1>7. ASSUME Covers(lv, r), NEW t \in Side, NEW q \in Prices, r2[<<t, q>>] > 0
      PROVE  q \in DOMAIN lv2[t] /\ lv2[t][q] >= r2[<<t, q>>]
  <2>1. r[<<t, q>>] > 0 /\ r[<<t, q>>] \in Nat /\ r2[<<t, q>>] \in Nat
    BY <1>5, <1>7
  <2>2. q \in DOMAIN lv[t] /\ lv[t][q] >= r[<<t, q>>] /\ lv[t][q] \in Nat
    BY <1>4, <1>7, <2>1 DEF Covers
  <2>3. CASE <<t, q>> = <<s, p>>
    <3>1. r2[<<t, q>>] = r[<<t, q>>] - d
      BY <1>5, <2>3
    <3>2. lv[t][q] > d
      BY <1>7, <2>1, <2>2, <3>1
    <3>3. q \in DOMAIN lv2[t] /\ lv2[t][q] = lv[t][q] - d
      BY <1>2, <2>2, <2>3, <3>2
    <3> QED BY <2>1, <2>2, <3>1, <3>3
  <2>4. CASE <<t, q>> # <<s, p>>
    <3>1. q \in DOMAIN lv2[t] /\ lv2[t][q] = lv[t][q] - 0 /\ r2[<<t, q>>] = r[<<t, q>>] - 0
      BY <1>2, <1>5, <2>2, <2>4
    <3> QED BY <2>1, <2>2, <3>1
  <2> QED BY <2>3, <2>4
<1>8. ASSUME Within(lv, r), Tight(lv, r), NEW t \in Side, NEW q \in DOMAIN lv2[t]
      PROVE  r2[<<t, q>>] > 0
  <2>1. q \in Prices /\ q \in DOMAIN lv[t]
    BY <1>2, <1>3
  <2>2. lv[t][q] <= r[<<t, q>>] /\ lv[t][q] \in Nat /\ r[<<t, q>>] > 0
    BY <1>4, <1>8, <2>1 DEF Within, Tight
  <2>3. CASE <<t, q>> = <<s, p>>
    <3>1. lv[t][q] > d /\ r2[<<t, q>>] = r[<<t, q>>] - d /\ r[<<t, q>>] \in Nat
      BY <1>2, <1>5, <2>1, <2>3
    <3> QED BY <2>2, <3>1
  <2>4. CASE <<t, q>> # <<s, p>>
    <3>1. r2[<<t, q>>] = r[<<t, q>>] - 0 /\ r[<<t, q>>] \in Nat
      BY <1>5, <2>1, <2>4
    <3> QED BY <2>2, <3>1
  <2> QED BY <2>3, <2>4
<1>9. /\ Within(lv, r) => Within(lv2, r2)
      /\ Covers(lv, r) => Covers(lv2, r2)
      /\ Within(lv, r) /\ Tight(lv, r) => Tight(lv2, r2)
  <2>1. Within(lv, r) => Within(lv2, r2)
    <3> SUFFICES ASSUME Within(lv, r) PROVE Within(lv2, r2)
      OBVIOUS
    <3> QED BY <1>6 DEF Within
  <2>2. Covers(lv, r) => Covers(lv2, r2)
    <3> SUFFICES ASSUME Covers(lv, r) PROVE Covers(lv2, r2)
      OBVIOUS
    <3> QED BY <1>7 DEF Covers
  <2>3. Within(lv, r) /\ Tight(lv, r) => Tight(lv2, r2)
    <3> SUFFICES ASSUME Within(lv, r), Tight(lv, r) PROVE Tight(lv2, r2)
      OBVIOUS
    <3> QED BY <1>8 DEF Tight
  <2> QED BY <2>1, <2>2, <2>3
<1> QED BY <1>1, <1>9 DEF lv2

\* Adding to a level what rests there from now on.
LEMMA Raised ==
  ASSUME NEW lv, IsLevels(lv), NEW s \in Side, NEW p \in Prices, NEW d \in Nat,
         NEW r \in [Levels -> Nat], NEW r2 \in [Levels -> Nat],
         \A l \in Levels : r2[l] = r[l] + IF l = <<s, p>> THEN d ELSE 0
  PROVE  LET lv2 == add_to_level(lv, s, p, d)
         IN  /\ IsLevels(lv2)
             /\ Within(lv, r) => Within(lv2, r2)
             /\ Covers(lv, r) => Covers(lv2, r2)
             /\ Tight(lv, r) /\ d > 0 => Tight(lv2, r2)
<1> DEFINE lv2 == add_to_level(lv, s, p, d)
<1>1. IsLevels(lv2)
  BY Adding
<1>2. ASSUME NEW t \in Side, NEW q \in Prices
      PROVE  /\ q \in DOMAIN lv2[t] <=> q \in DOMAIN lv[t] \/ <<t, q>> = <<s, p>>
             /\ q \in DOMAIN lv[t] => lv2[t][q] = lv[t][q] + IF <<t, q>> = <<s, p>> THEN d ELSE 0
             /\ q \notin DOMAIN lv[t] /\ <<t, q>> = <<s, p>> => lv2[t][q] = d
  BY Adding
<1>3. \A t \in Side : DOMAIN lv[t] \subseteq Prices /\ DOMAIN lv2[t] \subseteq Prices
  BY <1>1 DEF IsLevels
<1>4. \A t \in Side : \A q \in DOMAIN lv[t] : lv[t][q] \in Nat
  BY DEF IsLevels
<1>5. \A t \in Side, q \in Prices : /\ <<t, q>> \in Levels
                                    /\ r[<<t, q>>] \in Nat /\ r2[<<t, q>>] \in Nat
                                    /\ r2[<<t, q>>] = r[<<t, q>>] + IF <<t, q>> = <<s, p>> THEN d ELSE 0
  BY DEF Levels
<1> HIDE DEF lv2
<1>6. ASSUME Within(lv, r), NEW t \in Side, NEW q \in DOMAIN lv2[t]
      PROVE  lv2[t][q] <= r2[<<t, q>>]
  <2>1. q \in Prices
    BY <1>3
  <2>2. q \in DOMAIN lv[t] => lv[t][q] <= r[<<t, q>>] /\ lv[t][q] \in Nat
    BY <1>4, <1>6 DEF Within
  <2>3. CASE <<t, q>> = <<s, p>>
    <3>1. r2[<<t, q>>] = r[<<t, q>>] + d /\ r[<<t, q>>] \in Nat
      BY <1>5, <2>1, <2>3
    <3>2. CASE q \in DOMAIN lv[t]
      <4>1. lv2[t][q] = lv[t][q] + d
        BY <1>2, <2>1, <2>3, <3>2
      <4> QED BY <2>2, <3>1, <3>2, <4>1
    <3>3. CASE q \notin DOMAIN lv[t]
      <4>1. lv2[t][q] = d
        BY <1>2, <2>1, <2>3, <3>3
      <4> QED BY <3>1, <4>1
    <3> QED BY <3>2, <3>3
  <2>4. CASE <<t, q>> # <<s, p>>
    <3>1. q \in DOMAIN lv[t] /\ lv2[t][q] = lv[t][q] + 0 /\ r2[<<t, q>>] = r[<<t, q>>] + 0
      BY <1>2, <1>5, <2>1, <2>4
    <3> QED BY <1>5, <2>1, <2>2, <3>1
  <2> QED BY <2>3, <2>4
<1>7. ASSUME Covers(lv, r), NEW t \in Side, NEW q \in Prices, r2[<<t, q>>] > 0
      PROVE  q \in DOMAIN lv2[t] /\ lv2[t][q] >= r2[<<t, q>>]
  <2>1. r[<<t, q>>] \in Nat /\ r2[<<t, q>>] \in Nat
    BY <1>5
  <2>2. r[<<t, q>>] > 0 => q \in DOMAIN lv[t] /\ lv[t][q] >= r[<<t, q>>]
    BY <1>7 DEF Covers
  <2>3. CASE <<t, q>> = <<s, p>>
    <3>1. r2[<<t, q>>] = r[<<t, q>>] + d /\ q \in DOMAIN lv2[t]
      BY <1>2, <1>5, <2>3
    <3>2. CASE r[<<t, q>>] > 0
      <4>1. q \in DOMAIN lv[t] /\ lv[t][q] \in Nat /\ lv[t][q] >= r[<<t, q>>]
        BY <1>4, <2>2, <3>2
      <4>2. lv2[t][q] = lv[t][q] + d
        BY <1>2, <2>3, <4>1
      <4> QED BY <2>1, <3>1, <4>1, <4>2
    <3>3. CASE r[<<t, q>>] = 0 /\ q \in DOMAIN lv[t]
      <4>1. lv2[t][q] = lv[t][q] + d /\ lv[t][q] \in Nat
        BY <1>2, <1>4, <2>3, <3>3
      <4> QED BY <3>1, <3>3, <4>1
    <3>4. CASE r[<<t, q>>] = 0 /\ q \notin DOMAIN lv[t]
      <4>1. lv2[t][q] = d
        BY <1>2, <2>3, <3>4
      <4> QED BY <3>1, <3>4, <4>1
    <3> QED BY <2>1, <3>2, <3>3, <3>4
  <2>4. CASE <<t, q>> # <<s, p>>
    <3>1. r2[<<t, q>>] = r[<<t, q>>] + 0
      BY <1>5, <2>4
    <3>2. q \in DOMAIN lv[t] /\ lv[t][q] \in Nat /\ lv[t][q] >= r[<<t, q>>]
      BY <1>4, <1>7, <2>1, <2>2, <3>1
    <3>3. q \in DOMAIN lv2[t] /\ lv2[t][q] = lv[t][q] + 0
      BY <1>2, <2>4, <3>2
    <3> QED BY <2>1, <3>1, <3>2, <3>3
  <2> QED BY <2>3, <2>4
<1>8. ASSUME Tight(lv, r), d > 0, NEW t \in Side, NEW q \in DOMAIN lv2[t]
      PROVE  r2[<<t, q>>] > 0
  <2>1. q \in Prices
    BY <1>3
  <2>2. CASE <<t, q>> = <<s, p>>
    <3>1. r2[<<t, q>>] = r[<<t, q>>] + d /\ r[<<t, q>>] \in Nat
      BY <1>5, <2>1, <2>2
    <3> QED BY <1>8, <3>1
  <2>3. CASE <<t, q>> # <<s, p>>
    <3>1. q \in DOMAIN lv[t] /\ r2[<<t, q>>] = r[<<t, q>>] + 0 /\ r[<<t, q>>] \in Nat
      BY <1>2, <1>5, <2>1, <2>3
    <3>2. r[<<t, q>>] > 0
      BY <1>8, <3>1 DEF Tight
    <3> QED BY <3>1, <3>2
  <2> QED BY <2>2, <2>3
<1>9. Within(lv, r) => Within(lv2, r2)
  <2> SUFFICES ASSUME Within(lv, r) PROVE Within(lv2, r2)
    OBVIOUS
  <2> QED BY <1>6 DEF Within
<1>10. Covers(lv, r) => Covers(lv2, r2)
  <2> SUFFICES ASSUME Covers(lv, r) PROVE Covers(lv2, r2)
    OBVIOUS
  <2> QED BY <1>7 DEF Covers
<1>11. Tight(lv, r) /\ d > 0 => Tight(lv2, r2)
  <2> SUFFICES ASSUME Tight(lv, r), d > 0 PROVE Tight(lv2, r2)
    OBVIOUS
  <2> QED BY <1>8 DEF Tight
<1> QED BY <1>1, <1>9, <1>10, <1>11 DEF lv2

\* A level that is not lowered although less rests there still covers it, and one that
\* is not raised although more rests there still stays within it.
LEMMA Untouched ==
  ASSUME NEW lv, IsLevels(lv), NEW r \in [Levels -> Nat], NEW r2 \in [Levels -> Nat]
  PROVE  /\ (\A l \in Levels : r[l] <= r2[l]) /\ Within(lv, r) => Within(lv, r2)
         /\ (\A l \in Levels : r[l] >= r2[l]) /\ Covers(lv, r) => Covers(lv, r2)
<1>1. \A t \in Side, q \in Prices : /\ <<t, q>> \in Levels
                                    /\ r[<<t, q>>] \in Nat /\ r2[<<t, q>>] \in Nat
  BY DEF Levels
<1>2. \A t \in Side : DOMAIN lv[t] \subseteq Prices /\ \A q \in DOMAIN lv[t] : lv[t][q] \in Nat
  BY DEF IsLevels
<1>3. ASSUME \A l \in Levels : r[l] <= r2[l], Within(lv, r) PROVE Within(lv, r2)
  <2> SUFFICES ASSUME NEW t \in Side, NEW q \in DOMAIN lv[t] PROVE lv[t][q] <= r2[<<t, q>>]
    BY DEF Within
  <2>1. lv[t][q] <= r[<<t, q>>]
    BY <1>3 DEF Within
  <2>2. r[<<t, q>>] <= r2[<<t, q>>]
    BY <1>1, <1>2, <1>3
  <2> QED BY <1>1, <1>2, <2>1, <2>2
<1>4. ASSUME \A l \in Levels : r[l] >= r2[l], Covers(lv, r) PROVE Covers(lv, r2)
  <2> SUFFICES ASSUME NEW t \in Side, NEW q \in Prices, r2[<<t, q>>] > 0
               PROVE  q \in DOMAIN lv[t] /\ lv[t][q] >= r2[<<t, q>>]
    BY DEF Covers
  <2>1. r[<<t, q>>] >= r2[<<t, q>>] /\ r[<<t, q>>] \in Nat /\ r2[<<t, q>>] \in Nat
    BY <1>1, <1>4
  <2>2. r[<<t, q>>] > 0
    BY <2>1
  <2>3. q \in DOMAIN lv[t] /\ lv[t][q] >= r[<<t, q>>]
    BY <1>4, <2>2 DEF Covers
  <2>4. lv[t][q] \in Nat
    BY <1>2, <2>3
  <2> QED BY <2>1, <2>3, <2>4
<1> QED BY <1>3, <1>4

\* The levels are those of the orders of f.
Matches(lv, f) == Within(lv, Rests(f)) /\ Covers(lv, Rests(f)) /\ Tight(lv, Rests(f))

\* An order taken out of its level and of the index.
LEMMA TakenOut ==
  ASSUME NEW lv, IsLevels(lv), NEW f, AreOrders(f), IsFiniteSet(DOMAIN f), NEW id \in DOMAIN f
  PROVE  LET lv2 == take_out(lv, f[id])
             f2 == Drop(f, id)
         IN  /\ IsLevels(lv2) /\ AreOrders(f2) /\ IsFiniteSet(DOMAIN f2) /\ id \notin DOMAIN f2
             /\ Within(lv, Rests(f)) => Within(lv2, Rests(f2))
             /\ Covers(lv, Rests(f)) => Covers(lv2, Rests(f2)) /\ Covers(lv, Rests(f2))
             /\ Matches(lv, f) => Matches(lv2, f2)
             /\ AllFull(f) => AllFull(f2)
<1> DEFINE f2 == Drop(f, id)
           o == f[id]
           lv2 == remove_from_level(lv, o.side, o.price, o.size)
<1>1. AreOrders(f2) /\ id \notin DOMAIN f2 /\ o \in Order /\ (AllFull(f) => AllFull(f2))
  BY DEF AreOrders, Drop, AllFull
<1>2. IsFiniteSet(DOMAIN f2)
  BY FS_Subset DEF Drop
<1>3. o.side \in Side /\ o.price \in Prices /\ o.size \in Nat
  BY <1>1 DEF Order
<1>4. /\ Rests(f) \in [Levels -> Nat] /\ Rests(f2) \in [Levels -> Nat]
      /\ \A l \in Levels : Rests(f2)[l] = Rests(f)[l] - IF l = <<o.side, o.price>> THEN o.size ELSE 0
  BY RestsLeft DEF LevelOf
<1> HIDE DEF f2, o
<1>5. /\ IsLevels(lv2)
      /\ Within(lv, Rests(f)) => Within(lv2, Rests(f2))
      /\ Covers(lv, Rests(f)) => Covers(lv2, Rests(f2))
      /\ Within(lv, Rests(f)) /\ Tight(lv, Rests(f)) => Tight(lv2, Rests(f2))
  BY <1>3, <1>4, Lowered
<1>6. Covers(lv, Rests(f)) => Covers(lv, Rests(f2))
  <2>1. \A l \in Levels : Rests(f)[l] >= Rests(f2)[l]
    BY <1>3, <1>4
  <2> QED BY <1>4, <2>1, Untouched
<1>7. lv2 = take_out(lv, f[id])
  BY DEF take_out, o
<1> HIDE DEF lv2
<1> QED BY <1>1, <1>2, <1>5, <1>6, <1>7 DEF f2, Matches

\* An order put into a level and the index.
LEMMA PutIn ==
  ASSUME NEW lv, IsLevels(lv), NEW f, AreOrders(f), IsFiniteSet(DOMAIN f), NEW id,
         id \notin DOMAIN f, NEW o \in Order
  PROVE  LET lv2 == add_to_level(lv, o.side, o.price, o.size)
             f2 == Set(f, id, o)
         IN  /\ IsLevels(lv2) /\ AreOrders(f2) /\ IsFiniteSet(DOMAIN f2)
             /\ Within(lv, Rests(f)) => Within(lv2, Rests(f2))
             /\ Covers(lv, Rests(f)) => Covers(lv2, Rests(f2))
             /\ o.size > 0 /\ Matches(lv, f) => Matches(lv2, f2)
             /\ o.size > 0 /\ AllFull(f) => AllFull(f2)
<1> DEFINE f2 == Set(f, id, o)
           lv2 == add_to_level(lv, o.side, o.price, o.size)
<1>1. AreOrders(f2) /\ (o.size > 0 /\ AllFull(f) => AllFull(f2))
  BY DEF AreOrders, Set, AllFull
<1>2. IsFiniteSet(DOMAIN f2)
  BY FS_AddElement DEF Set
<1>3. o.side \in Side /\ o.price \in Prices /\ o.size \in Nat
  BY DEF Order
<1>4. /\ Rests(f) \in [Levels -> Nat] /\ Rests(f2) \in [Levels -> Nat]
      /\ \A l \in Levels : Rests(f2)[l] = Rests(f)[l] + IF l = <<o.side, o.price>> THEN o.size ELSE 0
  BY RestsEntered DEF LevelOf
<1> HIDE DEF f2
<1>5. /\ IsLevels(lv2)
      /\ Within(lv, Rests(f)) => Within(lv2, Rests(f2))
      /\ Covers(lv, Rests(f)) => Covers(lv2, Rests(f2))
      /\ Tight(lv, Rests(f)) /\ o.size > 0 => Tight(lv2, Rests(f2))
  BY <1>3, <1>4, Raised
<1> HIDE DEF lv2
<1> QED BY <1>1, <1>2, <1>5 DEF f2, lv2, Matches

\* Replacing an order of a known id is taking it out first.
LEMMA SetIsPutIn ==
  ASSUME NEW f, NEW id, NEW o
  PROVE  Set(Drop(f, id), id, o) = Set(f, id, o)
BY DEF Set, Drop

\* The size of an order cut down to n.
LEMMA CutDown ==
  ASSUME NEW lv, IsLevels(lv), NEW f, AreOrders(f), IsFiniteSet(DOMAIN f), NEW id \in DOMAIN f,
         NEW n \in Nat
  PROVE  LET o == f[id]
             lv2 == IF o.size - n > 0 THEN remove_from_level(lv, o.side, o.price, o.size - n)
                    ELSE lv
             f2 == IF n = 0 THEN Drop(f, id) ELSE [f EXCEPT ![id].size = n]
         IN  /\ IsLevels(lv2) /\ AreOrders(f2) /\ IsFiniteSet(DOMAIN f2)
             /\ Within(lv, Rests(f)) => Within(lv2, Rests(f2))
             /\ n <= o.size /\ Covers(lv, Rests(f)) => Covers(lv2, Rests(f2))
             /\ n <= o.size /\ Matches(lv, f) => Matches(lv2, f2)
             /\ AllFull(f) => AllFull(f2)
<1> DEFINE o == f[id]
           d == o.size - n
           lv2 == IF d > 0 THEN remove_from_level(lv, o.side, o.price, d) ELSE lv
           f2 == IF n = 0 THEN Drop(f, id) ELSE [f EXCEPT ![id].size = n]
           cut == [o EXCEPT !.size = n]
           r == Rests(f)
           r2 == Rests(f2)
<1>1. o \in Order /\ cut \in Order
  BY DEF AreOrders, Order
<1>2. o.side \in Side /\ o.price \in Prices /\ o.size \in Nat /\ d \in Int
  BY <1>1 DEF Order
<1>3. n # 0 => f2 = Set(Drop(f, id), id, cut)
  <2> SUFFICES ASSUME n # 0 PROVE [f EXCEPT ![id].size = n] = Set(Drop(f, id), id, cut)
    OBVIOUS
  <2>1. [f EXCEPT ![id].size = n] = [f EXCEPT ![id] = cut]
    OBVIOUS
  <2>2. [f EXCEPT ![id] = cut] = Set(Drop(f, id), id, cut)
    <3> HIDE DEF cut
    <3> QED BY DEF Set, Drop, AreOrders
  <2> QED BY <2>1, <2>2
<1>4. /\ AreOrders(Drop(f, id)) /\ IsFiniteSet(DOMAIN Drop(f, id)) /\ id \notin DOMAIN Drop(f, id)
      /\ AllFull(f) => AllFull(Drop(f, id))
  BY TakenOut
<1>5. cut.size = n /\ LevelOf(cut) = LevelOf(o) /\ LevelOf(o) = <<o.side, o.price>>
  BY <1>1 DEF Order, LevelOf
<1>6. AreOrders(f2) /\ IsFiniteSet(DOMAIN f2) /\ (AllFull(f) => AllFull(f2))
  <2>1. CASE n = 0
    BY <1>4, <2>1
  <2>2. CASE n # 0
    <3> HIDE DEF cut, f2
    <3>1. n > 0
      BY <2>2
    <3>2. /\ AreOrders(Set(Drop(f, id), id, cut)) /\ IsFiniteSet(DOMAIN Set(Drop(f, id), id, cut))
          /\ cut.size > 0 /\ AllFull(Drop(f, id)) => AllFull(Set(Drop(f, id), id, cut))
      BY <1>1, <1>4, FS_AddElement DEF AreOrders, Set, AllFull
    <3> QED BY <1>3, <1>4, <1>5, <2>2, <3>1, <3>2
  <2> QED BY <2>1, <2>2
<1>7. /\ r \in [Levels -> Nat] /\ Rests(Drop(f, id)) \in [Levels -> Nat]
      /\ \A l \in Levels : Rests(Drop(f, id))[l] = r[l] - IF l = LevelOf(o) THEN o.size ELSE 0
  BY RestsLeft
<1>8. /\ r2 \in [Levels -> Nat]
      /\ \A l \in Levels : r2[l] = Rests(Drop(f, id))[l] + IF l = LevelOf(o) THEN n ELSE 0
  <2>1. CASE n = 0
    BY <1>7, <2>1
  <2>2. CASE n # 0
    <3> HIDE DEF cut, f2, o
    <3>1. /\ Rests(Set(Drop(f, id), id, cut)) \in [Levels -> Nat]
          /\ \A l \in Levels : Rests(Set(Drop(f, id), id, cut))[l]
               = Rests(Drop(f, id))[l] + IF l = LevelOf(cut) THEN cut.size ELSE 0
      BY <1>1, <1>4, RestsEntered
    <3> QED BY <1>3, <1>5, <2>2, <3>1
  <2> QED BY <2>1, <2>2
<1> HIDE DEF o, cut, f2, r, r2
<1>9. \A l \in Levels : r2[l] = r[l] - IF l = <<o.side, o.price>> THEN d ELSE 0
  <2> SUFFICES ASSUME NEW l \in Levels
               PROVE  r2[l] = r[l] - IF l = <<o.side, o.price>> THEN d ELSE 0
    OBVIOUS
  <2>1. r[l] \in Nat /\ r2[l] \in Nat /\ Rests(Drop(f, id))[l] \in Nat
    BY <1>7, <1>8
  <2>2. CASE l = <<o.side, o.price>>
    <3>1. Rests(Drop(f, id))[l] = r[l] - o.size /\ r2[l] = Rests(Drop(f, id))[l] + n
      BY <1>5, <1>7, <1>8, <2>2
    <3> QED BY <1>2, <2>1, <2>2, <3>1
  <2>3. CASE l # <<o.side, o.price>>
    <3>1. Rests(Drop(f, id))[l] = r[l] - 0 /\ r2[l] = Rests(Drop(f, id))[l] + 0
      BY <1>5, <1>7, <1>8, <2>3
    <3> QED BY <2>1, <2>3, <3>1
  <2> QED BY <2>2, <2>3
<1>10. CASE d > 0
  <2>1. d \in Nat
    BY <1>2, <1>10
  <2> HIDE DEF d
  <2>2. LET rm == remove_from_level(lv, o.side, o.price, d)
        IN  /\ IsLevels(rm)
            /\ Within(lv, r) => Within(rm, r2)
            /\ Covers(lv, r) => Covers(rm, r2)
            /\ Within(lv, r) /\ Tight(lv, r) => Tight(rm, r2)
    BY <1>2, <1>7, <1>8, <1>9, <2>1, Lowered
  <2>3. lv2 = remove_from_level(lv, o.side, o.price, d)
    BY <1>10
  <2> HIDE DEF lv2
  <2>4. /\ IsLevels(lv2)
        /\ Within(lv, r) => Within(lv2, r2)
        /\ Covers(lv, r) => Covers(lv2, r2)
        /\ Matches(lv, f) => Matches(lv2, f2)
    BY <2>2, <2>3 DEF Matches, r, r2
  <2> QED BY <1>6, <2>4 DEF lv2, d, o, f2, r, r2
<1>11. CASE ~(d > 0)
  <2>1. lv2 = lv
    BY <1>11
  <2>2. \A l \in Levels : r[l] <= r2[l]
    BY <1>2, <1>7, <1>8, <1>9, <1>11
  <2>3. Within(lv, r) => Within(lv, r2)
    BY <1>7, <1>8, <2>2, Untouched
  <2>4. n <= o.size => r2 = r
    <3> SUFFICES ASSUME n <= o.size PROVE r2 = r
      OBVIOUS
    <3>1. d = 0
      BY <1>2, <1>11
    <3>2. \A l \in Levels : r2[l] = r[l]
      BY <1>7, <1>8, <1>9, <3>1
    <3> QED BY <1>7, <1>8, <3>2
  <2> HIDE DEF lv2, d
  <2>5. /\ IsLevels(lv2)
        /\ Within(lv, r) => Within(lv2, r2)
        /\ n <= o.size /\ Covers(lv, r) => Covers(lv2, r2)
        /\ n <= o.size /\ Matches(lv, f) => Matches(lv2, f2)
    BY <2>1, <2>3, <2>4 DEF Matches, r, r2
  <2> QED BY <1>6, <2>5 DEF lv2, d, o, f2, r, r2
<1> QED BY <1>10, <1>11
-----------------------------------------------------------------------------
(* The volumes of the two books *)

\* What an event of the feed carries.
LEMMA FeedTypes ==
  ASSUME NEW e \in Feed
  PROVE  /\ e.size \in Nat
         /\ e.action \in {"Add", "Modify"} => e.side \in Side \union {"None"}
                                              /\ e.price \in Prices \union {Undef}
         /\ e.action \in {"Add", "Modify"} /\ Placeable(e) => OrderOf(e) \in Order
<1>1. /\ e.size \in Nat
      /\ e.action \in {"Add", "Modify"} => e.side \in Side \union {"None"}
                                           /\ e.price \in Prices \union {Undef}
  BY FeedAssumption DEF Feed, Event
<1>2. e.action \in {"Add", "Modify"} /\ Placeable(e) => OrderOf(e) \in Order
  BY <1>1 DEF Placeable, OrderOf, Order
<1> QED BY <1>1, <1>2

\* A Modify of a resting order leaves an order.
LEMMA ModifiedOrder ==
  ASSUME NEW e \in Feed, e.action = "Modify", NEW old \in Order
  PROVE  [side |-> IF e.side # "None" THEN e.side ELSE old.side,
          price |-> IF e.price # Undef THEN e.price ELSE old.price,
          size |-> e.size] \in Order
<1>1. e.size \in Nat /\ e.side \in Side \union {"None"} /\ e.price \in Prices \union {Undef}
  BY FeedTypes
<1> QED BY <1>1 DEF Order

\* What a book keeps whatever the feed does: its levels and orders.
Kept(lv, f) == IsLevels(lv) /\ AreOrders(f) /\ IsFiniteSet(DOMAIN f)

\* An empty book.
LEMMA NothingRests ==
  /\ Kept([s \in Side |-> <<>>], <<>>)
  /\ AllFull(<<>>) /\ Matches([s \in Side |-> <<>>], <<>>)
<1> DEFINE lv == [s \in Side |-> <<>>]
<1>1. <<>> \in [{} -> Nat] /\ DOMAIN <<>> = {}
  OBVIOUS
<1>2. IsLevels(lv)
  BY <1>1 DEF IsLevels
<1>3. AreOrders(<<>>) /\ IsFiniteSet(DOMAIN <<>>)
  BY <1>1, NoOrders, FS_EmptySet
<1>4. AllFull(<<>>)
  BY <1>1 DEF AllFull
<1>5. ASSUME NEW l \in Levels PROVE Rests(<<>>)[l] = 0
  BY <1>1, RestsNowhere
<1>6. \A s \in Side : DOMAIN lv[s] = {}
  BY <1>1
<1>7. \A s \in Side, p \in Prices : Rests(<<>>)[<<s, p>>] = 0
  BY <1>5 DEF Levels
<1> HIDE DEF lv
<1>8. Matches(lv, <<>>)
  BY <1>6, <1>7 DEF Matches, Within, Covers, Tight
<1> QED BY <1>2, <1>3, <1>4, <1>8 DEF lv, Kept

\* An order entered where none of that id rests.
LEMMA Entered ==
  ASSUME NEW lv, NEW f, Kept(lv, f), NEW id, id \notin DOMAIN f, NEW o \in Order
  PROVE  LET lv2 == add_to_level(lv, o.side, o.price, o.size)
             f2 == Set(f, id, o)
         IN  /\ Kept(lv2, f2)
             /\ Within(lv, Rests(f)) => Within(lv2, Rests(f2))
             /\ Covers(lv, Rests(f)) => Covers(lv2, Rests(f2))
             /\ o.size > 0 /\ Matches(lv, f) => Matches(lv2, f2)
             /\ o.size > 0 /\ AllFull(f) => AllFull(f2)
BY PutIn DEF Kept

\* An order entered in the place of the one of that id.
LEMMA Replaced ==
  ASSUME NEW lv, NEW f, Kept(lv, f), NEW id \in DOMAIN f, NEW o \in Order
  PROVE  LET lv2 == add_to_level(take_out(lv, f[id]), o.side, o.price, o.size)
             f2 == Set(f, id, o)
         IN  /\ Kept(lv2, f2)
             /\ Within(lv, Rests(f)) => Within(lv2, Rests(f2))
             /\ Covers(lv, Rests(f)) => Covers(lv2, Rests(f2))
             /\ o.size > 0 /\ Matches(lv, f) => Matches(lv2, f2)
             /\ o.size > 0 /\ AllFull(f) => AllFull(f2)
<1> DEFINE lv1 == take_out(lv, f[id])
           f1 == Drop(f, id)
<1>1. /\ Kept(lv1, f1) /\ id \notin DOMAIN f1
      /\ Within(lv, Rests(f)) => Within(lv1, Rests(f1))
      /\ Covers(lv, Rests(f)) => Covers(lv1, Rests(f1))
      /\ Matches(lv, f) => Matches(lv1, f1)
      /\ AllFull(f) => AllFull(f1)
  BY TakenOut DEF Kept
<1>2. Set(f1, id, o) = Set(f, id, o)
  BY SetIsPutIn
<1> HIDE DEF lv1, f1
<1> DEFINE lv2 == add_to_level(lv1, o.side, o.price, o.size)
           f2 == Set(f1, id, o)
<1>3. /\ Kept(lv2, f2)
      /\ Within(lv1, Rests(f1)) => Within(lv2, Rests(f2))
      /\ Covers(lv1, Rests(f1)) => Covers(lv2, Rests(f2))
      /\ o.size > 0 /\ Matches(lv1, f1) => Matches(lv2, f2)
      /\ o.size > 0 /\ AllFull(f1) => AllFull(f2)
  BY <1>1, Entered
<1>4. f2 = Set(f, id, o)
  BY <1>2
<1>5. lv2 = add_to_level(take_out(lv, f[id]), o.side, o.price, o.size)
  BY DEF lv1
<1> HIDE DEF lv2, f2
<1> QED BY <1>1, <1>3, <1>4, <1>5

\* What MapOrderBook's step does to levels and orders: it keeps them within what rests,
\* and on a well-formed event equal to it.
LEMMA MapStep ==
  ASSUME NEW e \in Feed, MapApply(e), Kept(levels, index), Within(levels, Rests(index))
  PROVE  /\ Kept(levels', index') /\ Within(levels', Rests(index'))
         /\ WellFormed(e) /\ AllFull(index) /\ Matches(levels, index)
              => AllFull(index') /\ Matches(levels', index')
<1> PICK lv, f : lv = levels /\ f = index
  OBVIOUS
<1> DEFINE id == e.id
           o == OrderOf(e)
           After(lv2, f2) == /\ Kept(lv2, f2) /\ Within(lv2, Rests(f2))
                             /\ WellFormed(e) /\ AllFull(f) /\ Matches(lv, f)
                                  => AllFull(f2) /\ Matches(lv2, f2)
<1> SUFFICES After(levels', index')
  OBVIOUS
<1>1. Kept(lv, f) /\ Within(lv, Rests(f))
  OBVIOUS
<1>2. CASE (Add(e) \/ Modify(e)) /\ id \notin DOMAIN f
  <2>1. /\ Placeable(e) /\ e.action \in {"Add", "Modify"}
        /\ levels' = add_to_level(lv, o.side, o.price, o.size) /\ index' = Set(f, id, o)
    BY <1>2 DEF Add, Modify, enter
  <2>2. o \in Order /\ o.size = e.size
    BY <2>1, FeedTypes DEF OrderOf
  <2>3. WellFormed(e) => o.size > 0
    BY <2>1, <2>2 DEF WellFormed
  <2> HIDE DEF o, id
  <2>4. After(add_to_level(lv, o.side, o.price, o.size), Set(f, id, o))
    BY <1>1, <1>2, <2>2, <2>3, Entered
  <2> HIDE DEF After
  <2> QED BY <2>1, <2>4
<1>3. CASE (Add(e) \/ Modify(e)) /\ id \in DOMAIN f
  <2>1. PICK n \in Order : /\ n.size = e.size /\ e.action \in {"Add", "Modify"}
                           /\ levels' = add_to_level(take_out(lv, f[id]), n.side, n.price, n.size)
                           /\ index' = Set(f, id, n)
    <3>1. CASE Add(e)
      <4>1. o \in Order /\ o.size = e.size
        BY <3>1, FeedTypes DEF OrderOf, Add
      <4> QED BY <1>3, <3>1, <4>1 DEF Add, enter
    <3>2. CASE Modify(e)
      <4> DEFINE n == [side |-> IF e.side # "None" THEN e.side ELSE f[id].side,
                       price |-> IF e.price # Undef THEN e.price ELSE f[id].price,
                       size |-> e.size]
      <4>1. f[id] \in Order
        BY <1>1, <1>3 DEF Kept, AreOrders
      <4>2. n \in Order
        BY <3>2, <4>1, ModifiedOrder DEF Modify
      <4>3. e.action = "Modify" /\ enter(take_out(lv, f[id]), id, n)
        BY <1>3, <3>2 DEF Modify
      <4>4. n.size = e.size
        OBVIOUS
      <4> HIDE DEF n
      <4> QED BY <4>2, <4>3, <4>4 DEF enter
    <3> QED BY <1>3, <3>1, <3>2
  <2>2. WellFormed(e) => n.size > 0
    BY <2>1 DEF WellFormed
  <2> HIDE DEF o, id
  <2>3. After(add_to_level(take_out(lv, f[id]), n.side, n.price, n.size), Set(f, id, n))
    BY <1>1, <1>3, <2>2, Replaced
  <2> HIDE DEF After
  <2> QED BY <2>1, <2>3
<1>4. CASE Cancel(e)
  <2> DEFINE c == f[id]
             lv2 == IF c.size - e.size > 0
                    THEN remove_from_level(lv, c.side, c.price, c.size - e.size) ELSE lv
             f2 == IF e.size = 0 THEN Drop(f, id) ELSE [f EXCEPT ![id].size = e.size]
  <2>1. id \in DOMAIN f /\ e.action = "Cancel" /\ levels' = lv2 /\ index' = f2
    BY <1>4 DEF Cancel
  <2>2. e.size \in Nat /\ (WellFormed(e) => e.size <= c.size)
    BY <2>1, FeedTypes DEF WellFormed
  <2>3. /\ IsLevels(lv2) /\ AreOrders(f2) /\ IsFiniteSet(DOMAIN f2)
        /\ Within(lv, Rests(f)) => Within(lv2, Rests(f2))
        /\ e.size <= c.size /\ Matches(lv, f) => Matches(lv2, f2)
        /\ AllFull(f) => AllFull(f2)
    BY <1>1, <2>1, <2>2, CutDown DEF Kept
  <2> HIDE DEF lv2, f2, c
  <2>4. After(lv2, f2)
    BY <1>1, <2>2, <2>3 DEF Kept
  <2> HIDE DEF After
  <2> QED BY <2>1, <2>4
<1>5. CASE Clear(e)
  <2>1. levels' = [s \in Side |-> <<>>] /\ index' = <<>>
    BY <1>5 DEF Clear
  <2>2. Within([s \in Side |-> <<>>], Rests(<<>>))
    BY NothingRests DEF Matches
  <2> QED BY <2>1, <2>2, NothingRests
<1>6. CASE Ignore(e)
  <2>1. levels' = lv /\ index' = f
    BY <1>6 DEF Ignore, vars
  <2> QED BY <1>1, <2>1
<1> QED BY <1>2, <1>3, <1>4, <1>5, <1>6 DEF MapApply

\* AbseilOrderBook's step hides nothing on a well-formed event.
LEMMA AbseilStep ==
  ASSUME NEW e \in Feed, Abseil!AbseilApply(e), Kept(abseilLevels, abseilIndex)
  PROVE  /\ Kept(abseilLevels', abseilIndex')
         /\ abseilIndex = index /\ WellFormed(e) /\ Covers(abseilLevels, Rests(abseilIndex))
              => Covers(abseilLevels', Rests(abseilIndex'))
<1> USE SameOperators
<1> PICK lv, f : lv = abseilLevels /\ f = abseilIndex
  OBVIOUS
<1> DEFINE id == e.id
           o == OrderOf(e)
           After(lv2, f2) == /\ Kept(lv2, f2)
                             /\ abseilIndex = index /\ WellFormed(e) /\ Covers(lv, Rests(f))
                                  => Covers(lv2, Rests(f2))
<1> SUFFICES After(abseilLevels', abseilIndex')
  OBVIOUS
<1>1. Kept(lv, f)
  OBVIOUS
<1>2. CASE Abseil!AbseilAdd(e) \/ (Abseil!Modify(e) /\ id \notin DOMAIN f)
  <2> DEFINE lv2 == add_to_level(lv, o.side, o.price, o.size)
             f2 == Set(f, id, o)
  <2>1. Placeable(e) /\ e.action \in {"Add", "Modify"} /\ abseilLevels' = lv2 /\ abseilIndex' = f2
    BY <1>2 DEF Abseil!AbseilAdd, Abseil!Modify, Abseil!enter
  <2>2. o \in Order
    BY <2>1, FeedTypes
  <2>3. Kept(lv2, f2) /\ (Covers(lv, Rests(f)) => Covers(lv2, Rests(f2)))
    <3> HIDE DEF o, id, lv2, f2
    <3>1. CASE id \notin DOMAIN f
      BY <1>1, <2>2, <3>1, Entered DEF lv2, f2
    <3>2. CASE id \in DOMAIN f
      <4> DEFINE f1 == Drop(f, id)
      <4>1. /\ Kept(lv, f1) /\ id \notin DOMAIN f1
            /\ Covers(lv, Rests(f)) => Covers(lv, Rests(f1))
        BY <1>1, <3>2, TakenOut DEF Kept
      <4>2. Set(f1, id, o) = f2
        BY SetIsPutIn DEF f2
      <4> HIDE DEF f1
      <4>3. /\ Kept(lv2, Set(f1, id, o))
            /\ Covers(lv, Rests(f1)) => Covers(lv2, Rests(Set(f1, id, o)))
        BY <2>2, <4>1, Entered DEF lv2
      <4> QED BY <4>1, <4>2, <4>3
    <3> QED BY <3>1, <3>2
  <2> HIDE DEF lv2, f2
  <2> QED BY <2>1, <2>3
<1>3. CASE Abseil!Modify(e) /\ id \in DOMAIN f
  <2> DEFINE n == [side |-> IF e.side # "None" THEN e.side ELSE f[id].side,
                   price |-> IF e.price # Undef THEN e.price ELSE f[id].price,
                   size |-> e.size]
             lv2 == add_to_level(take_out(lv, f[id]), n.side, n.price, n.size)
             f2 == Set(f, id, n)
  <2>1. f[id] \in Order
    BY <1>1, <1>3 DEF Kept, AreOrders
  <2>2. n \in Order
    BY <1>3, <2>1, ModifiedOrder DEF Abseil!Modify
  <2>3. abseilLevels' = lv2 /\ abseilIndex' = f2
    <3>1. Abseil!enter(Abseil!take_out(abseilLevels, abseilIndex[e.id]), e.id, n)
      BY <1>3 DEF Abseil!Modify
    <3> HIDE DEF n
    <3> QED BY <3>1 DEF Abseil!enter
  <2> HIDE DEF n, id
  <2>4. Kept(lv2, f2) /\ (Covers(lv, Rests(f)) => Covers(lv2, Rests(f2)))
    BY <1>1, <1>3, <2>2, Replaced
  <2> HIDE DEF lv2, f2
  <2> QED BY <2>3, <2>4
<1>4. CASE Abseil!Cancel(e)
  <2> DEFINE c == f[id]
             lv2 == IF c.size - e.size > 0
                    THEN remove_from_level(lv, c.side, c.price, c.size - e.size) ELSE lv
             f2 == IF e.size = 0 THEN Drop(f, id) ELSE [f EXCEPT ![id].size = e.size]
  <2>1. id \in DOMAIN f /\ e.action = "Cancel" /\ abseilLevels' = lv2 /\ abseilIndex' = f2
    BY <1>4 DEF Abseil!Cancel
  <2>2. e.size \in Nat /\ (abseilIndex = index /\ WellFormed(e) => e.size <= c.size)
    BY <2>1, FeedTypes DEF WellFormed
  <2>3. /\ IsLevels(lv2) /\ AreOrders(f2) /\ IsFiniteSet(DOMAIN f2)
        /\ e.size <= c.size /\ Covers(lv, Rests(f)) => Covers(lv2, Rests(f2))
    BY <1>1, <2>1, <2>2, CutDown DEF Kept
  <2> HIDE DEF lv2, f2, c
  <2>4. After(lv2, f2)
    BY <2>2, <2>3 DEF Kept
  <2> HIDE DEF After
  <2> QED BY <2>1, <2>4
<1>5. CASE Abseil!Clear(e)
  <2>1. abseilLevels' = [s \in Side |-> <<>>] /\ abseilIndex' = <<>>
    BY <1>5 DEF Abseil!Clear
  <2>2. Covers([s \in Side |-> <<>>], Rests(<<>>))
    BY NothingRests DEF Matches
  <2> QED BY <2>1, <2>2, NothingRests
<1>6. CASE Abseil!Ignore(e)
  <2>1. abseilLevels' = lv /\ abseilIndex' = f
    BY <1>6 DEF Abseil!Ignore, Abseil!vars
  <2> QED BY <1>1, <2>1
<1> QED BY <1>2, <1>3, <1>4, <1>5, <1>6 DEF Abseil!AbseilApply

\* The inductive invariant: on any feed, what is kept and what bounds MapOrderBook; on a
\* well-formed one, what makes its levels the totals and AbseilOrderBook's no less.
VolumesInv ==
  /\ abseilIndex = index
  /\ Kept(levels, index) /\ Kept(abseilLevels, abseilIndex)
  /\ Within(levels, Rests(index))
  /\ wellFed => /\ AllFull(index) /\ Matches(levels, index)
                /\ Covers(abseilLevels, Rests(abseilIndex))

\* It holds of the empty books.
LEMMA InitVolumes == BooksInit => VolumesInv
<1> SUFFICES ASSUME BooksInit PROVE VolumesInv
  OBVIOUS
<1>1. /\ levels = [s \in Side |-> <<>>] /\ index = <<>>
      /\ abseilLevels = [s \in Side |-> <<>>] /\ abseilIndex = <<>>
  BY DEF BooksInit, MapInit, Abseil!MapInit, Abseil!Side, Side
<1> QED BY <1>1, NothingRests DEF VolumesInv, Matches

\* Every event keeps it.
LEMMA StepVolumes == VolumesInv /\ [ApplyBoth]_booksVars => VolumesInv'
<1> SUFFICES ASSUME VolumesInv, [ApplyBoth]_booksVars PROVE VolumesInv'
  OBVIOUS
<1>1. CASE UNCHANGED booksVars
  <2>1. levels' = levels /\ index' = index /\ abseilLevels' = abseilLevels
        /\ abseilIndex' = abseilIndex /\ wellFed' = wellFed
    BY <1>1 DEF booksVars, vars
  <2> QED BY <2>1 DEF VolumesInv
<1>2. CASE ApplyBoth
  <2>1. PICK e \in Feed : /\ MapApply(e) /\ Abseil!AbseilApply(e)
                          /\ wellFed' = (wellFed /\ WellFormed(e))
    BY <1>2 DEF ApplyBoth
  <2>2. /\ Kept(levels', index') /\ Within(levels', Rests(index'))
        /\ WellFormed(e) /\ AllFull(index) /\ Matches(levels, index)
             => AllFull(index') /\ Matches(levels', index')
    BY <2>1, MapStep DEF VolumesInv
  <2>3. /\ Kept(abseilLevels', abseilIndex')
        /\ abseilIndex = index /\ WellFormed(e) /\ Covers(abseilLevels, Rests(abseilIndex))
             => Covers(abseilLevels', Rests(abseilIndex'))
    BY <2>1, AbseilStep DEF VolumesInv
  <2>4. abseilIndex' = index'
    BY <2>1, MapIndex, AbseilIndex DEF VolumesInv
  <2>5. wellFed' => /\ AllFull(index') /\ Matches(levels', index')
                    /\ Covers(abseilLevels', Rests(abseilIndex'))
    BY <2>1, <2>2, <2>3 DEF VolumesInv
  <2> QED BY <2>2, <2>3, <2>4, <2>5 DEF VolumesInv
<1> QED BY <1>1, <1>2

\* The sum the properties speak of is the one of Rests.
LEMMA RestingIsRests ==
  ASSUME NEW s \in Side, NEW p \in Prices
  PROVE  Resting(s, p) = Rests(index)[<<s, p>>]
BY DEF Resting, Rests, IdsAt, IndexView, Levels

\* The prices of a side are the levels where something rests.
LEMMA PricesAreLevels ==
  ASSUME VolumesInv, AllFull(index), NEW s \in Side
  PROVE  /\ PricesOf(IndexView, s) \subseteq Prices
         /\ \A p \in Prices : p \in PricesOf(IndexView, s) <=> Rests(index)[<<s, p>>] > 0
<1>1. AreOrders(index) /\ IsFiniteSet(DOMAIN index)
  BY DEF VolumesInv, Kept
<1>2. \A id \in DOMAIN index : index[id].price \in Prices
  BY <1>1 DEF AreOrders, Order
<1>3. ASSUME NEW p \in Prices PROVE p \in PricesOf(IndexView, s) <=> Rests(index)[<<s, p>>] > 0
  <2>1. Rests(index)[<<s, p>>] > 0 <=> \E id \in DOMAIN index : LevelOf(index[id]) = <<s, p>>
    BY <1>1, RestsWhere DEF Levels
  <2>2. p \in PricesOf(IndexView, s) <=>
          \E id \in DOMAIN index : index[id].side = s /\ index[id].price = p
    BY DEF PricesOf, IndexView
  <2>3. \A id \in DOMAIN index : LevelOf(index[id]) = <<s, p>> <=>
                                   index[id].side = s /\ index[id].price = p
    BY DEF LevelOf
  <2> QED BY <2>1, <2>2, <2>3
<1> QED BY <1>2, <1>3 DEF PricesOf, IndexView

\* On any feed no level of MapOrderBook shows a negative volume or more than the orders
\* resting there hold.
THEOREM VolumesAreBounded == BooksSpec => []VolumeBounded
<1>1. VolumesInv => VolumeBounded
  <2> SUFFICES ASSUME VolumesInv, NEW s \in Side, NEW p \in DOMAIN levels[s]
               PROVE  levels[s][p] >= 0 /\ levels[s][p] <= Resting(s, p)
    BY DEF VolumeBounded
  <2>1. p \in Prices /\ levels[s][p] \in Nat
    BY DEF VolumesInv, Kept, IsLevels
  <2>2. levels[s][p] <= Rests(index)[<<s, p>>]
    BY DEF VolumesInv, Within
  <2> QED BY <2>1, <2>2, RestingIsRests
<1> QED BY <1>1, InitVolumes, StepVolumes, PTL DEF BooksSpec

\* On a well-formed feed MapOrderBook's levels are exactly the prices where orders rest,
\* with their total size: adding and subtracting does not drift.
THEOREM LevelsAreTotals == BooksSpec => []LevelsMatchOrders
<1>1. VolumesInv => LevelsMatchOrders
  <2> SUFFICES ASSUME VolumesInv, wellFed, NEW s \in Side
               PROVE  /\ DOMAIN levels[s] = PricesOf(IndexView, s)
                      /\ \A p \in DOMAIN levels[s] : levels[s][p] = Resting(s, p)
    BY DEF LevelsMatchOrders
  <2>1. /\ AllFull(index) /\ IsLevels(levels) /\ Within(levels, Rests(index))
        /\ Covers(levels, Rests(index)) /\ Tight(levels, Rests(index))
    BY DEF VolumesInv, Matches, Kept
  <2>2. DOMAIN levels[s] \subseteq Prices /\ \A p \in DOMAIN levels[s] : levels[s][p] \in Nat
    BY <2>1 DEF IsLevels
  <2>3. \A p \in Prices : p \in DOMAIN levels[s] <=> Rests(index)[<<s, p>>] > 0
    BY <2>1 DEF Tight, Covers
  <2>4. DOMAIN levels[s] = PricesOf(IndexView, s)
    BY <2>1, <2>2, <2>3, PricesAreLevels
  <2>5. ASSUME NEW p \in DOMAIN levels[s] PROVE levels[s][p] = Resting(s, p)
    <3>1. p \in Prices /\ Rests(index)[<<s, p>>] > 0 /\ levels[s][p] \in Nat
      BY <2>2, <2>3
    <3>2. levels[s][p] <= Rests(index)[<<s, p>>] /\ levels[s][p] >= Rests(index)[<<s, p>>]
      BY <2>1, <3>1 DEF Within, Covers
    <3>3. Rests(index)[<<s, p>>] \in Nat
      <4>1. Rests(index) \in [Levels -> Nat]
        BY RestsAreNat DEF VolumesInv, Kept
      <4> QED BY <3>1, <4>1 DEF Levels
    <3> QED BY <3>1, <3>2, <3>3, RestingIsRests
  <2> QED BY <2>4, <2>5
<1> QED BY <1>1, InitVolumes, StepVolumes, PTL DEF BooksSpec

\* On a well-formed feed AbseilOrderBook hides no resting order, duplicate adds included.
THEOREM NothingIsHidden == BooksSpec => []AtLeastResting
<1>1. VolumesInv => AtLeastResting
  <2> SUFFICES ASSUME VolumesInv, wellFed, NEW s \in Side, NEW p \in PricesOf(IndexView, s)
               PROVE  p \in DOMAIN abseilLevels[s] /\ abseilLevels[s][p] >= Resting(s, p)
    BY DEF AtLeastResting
  <2>1. AllFull(index) /\ Covers(abseilLevels, Rests(index))
    BY DEF VolumesInv
  <2>2. p \in Prices /\ Rests(index)[<<s, p>>] > 0
    BY <2>1, PricesAreLevels
  <2> QED BY <2>1, <2>2, RestingIsRests DEF Covers
<1> QED BY <1>1, InitVolumes, StepVolumes, PTL DEF BooksSpec
-----------------------------------------------------------------------------
(* The books of MarketByOrder *)

\* The orders of a book, finitely many.
IsOrders(f) == f \in [DOMAIN f -> Order] /\ DOMAIN f \subseteq Ids /\ IsFiniteSet(DOMAIN f)

LEMMA OrdersAre == \A f : IsOrders(f) => AreOrders(f) /\ IsFiniteSet(DOMAIN f)
BY DEF IsOrders, AreOrders


\* What stands at a level is an order of that level;
StandsRight(v) ==
  \A l \in Levels : \A i \in 1 .. Len(v.fifo[l]) :
    v.fifo[l][i] \in DOMAIN v.orders /\ LevelOf(v.orders[v.fifo[l][i]]) = l
\* nothing stands there twice;
StandsOnce(v) ==
  \A l \in Levels : \A i, j \in 1 .. Len(v.fifo[l]) : v.fifo[l][i] = v.fifo[l][j] => i = j
\* every order does.
AllStand(v) ==
  \A id \in DOMAIN v.orders : \E i \in 1 .. Len(v.fifo[LevelOf(v.orders[id])]) :
    v.fifo[LevelOf(v.orders[id])][i] = id

IsBook(v) ==
  /\ v = [orders |-> v.orders, fifo |-> v.fifo]
  /\ IsOrders(v.orders) /\ v.fifo \in [Levels -> Seq(Ids)]
  /\ StandsRight(v) /\ StandsOnce(v) /\ AllStand(v)

\* What Without does to a sequence that has the id.
LEMMA WithoutIs ==
  ASSUME NEW s \in Seq(Ids), NEW k \in 1 .. Len(s),
         \A i, j \in 1 .. Len(s) : s[i] = s[j] => i = j
  PROVE  /\ Without(s, s[k]) \in Seq(Ids)
         /\ Len(Without(s, s[k])) = Len(s) - 1
         /\ \A i \in 1 .. Len(s) - 1 : Without(s, s[k])[i] = IF i < k THEN s[i] ELSE s[i + 1]
<1>1. Without(s, s[k]) = SubSeq(s, 1, k - 1) \o SubSeq(s, k + 1, Len(s))
  <2>1. DOMAIN s = 1 .. Len(s)
    OBVIOUS
  <2> DEFINE c == CHOOSE i \in DOMAIN s : s[i] = s[k]
  <2>2. c \in DOMAIN s /\ s[c] = s[k]
    BY <2>1
  <2>3. c = k
    <3> HIDE DEF c
    <3> QED BY <2>1, <2>2
  <2> QED BY <2>1, <2>3 DEF Without
<1>2. PICK n \in Nat : n = Len(s)
  OBVIOUS
<1>3. /\ SubSeq(s, 1, k - 1) \in Seq(Ids) /\ Len(SubSeq(s, 1, k - 1)) = k - 1
      /\ \A i \in 1 .. k - 1 : SubSeq(s, 1, k - 1)[i] = s[i]
  BY <1>2
<1>4. /\ SubSeq(s, k + 1, n) \in Seq(Ids) /\ Len(SubSeq(s, k + 1, n)) = n - k
      /\ \A i \in 1 .. n - k : SubSeq(s, k + 1, n)[i] = s[k + i]
  BY <1>2
<1>5. PICK a \in Seq(Ids), b \in Seq(Ids) : a = SubSeq(s, 1, k - 1) /\ b = SubSeq(s, k + 1, n)
  BY <1>3, <1>4
<1>6. k \in 1 .. n /\ Len(a) = k - 1 /\ Len(b) = n - k
  BY <1>2, <1>3, <1>4, <1>5
<1>7. Without(s, s[k]) = a \o b
  BY <1>1, <1>2, <1>5
<1>8. a \o b \in Seq(Ids) /\ Len(a \o b) = n - 1
  <2>1. a \o b \in Seq(Ids) /\ Len(a \o b) = Len(a) + Len(b)
    OBVIOUS
  <2>2. (k - 1) + (n - k) = n - 1
    BY <1>6
  <2> QED BY <1>6, <2>1, <2>2
<1>9. ASSUME NEW i \in 1 .. n - 1 PROVE (a \o b)[i] = IF i < k THEN s[i] ELSE s[i + 1]
  <2>1. CASE i < k
    <3>1. (a \o b)[i] = a[i] /\ i \in 1 .. k - 1
      BY <1>6, <2>1
    <3> QED BY <1>3, <1>5, <2>1, <3>1
  <2>2. CASE ~(i < k)
    <3>1. i + 1 - k \in 1 .. n - k /\ i - (k - 1) = i + 1 - k /\ k + (i + 1 - k) = i + 1
      BY <1>6, <2>2
    <3>2. (a \o b)[i] = b[i + 1 - k]
      BY <1>6, <2>2, <3>1
    <3> QED BY <1>4, <1>5, <2>2, <3>1, <3>2
  <2> QED BY <2>1, <2>2
<1> QED BY <1>2, <1>7, <1>8, <1>9

\* The sequence of level l lost its k-th id, the others none.
FifoCut(v, v2, l, k) ==
  /\ \A m \in Levels \ {l} : v2.fifo[m] = v.fifo[m]
  /\ Len(v2.fifo[l]) = Len(v.fifo[l]) - 1
  /\ \A i \in 1 .. Len(v.fifo[l]) - 1 :
       v2.fifo[l][i] = IF i < k THEN v.fifo[l][i] ELSE v.fifo[l][i + 1]

\* An order of v leaves it.
LEMMA RemovedBook ==
  ASSUME NEW v, IsBook(v), NEW l \in Levels, NEW k \in 1 .. Len(v.fifo[l])
  PROVE  LET id == v.fifo[l][k]
             v2 == Remove(v, id)
         IN  /\ IsBook(v2) /\ v2.orders = Drop(v.orders, id)
             /\ id \in DOMAIN v.orders /\ LevelOf(v.orders[id]) = l
             /\ FifoCut(v, v2, l, k)
<1> DEFINE id == v.fifo[l][k]
           v2 == Remove(v, id)
           n == Len(v.fifo[l])
           f == v.orders
           w == Without(v.fifo[l], id)
<1>1. id \in DOMAIN f /\ LevelOf(f[id]) = l /\ v.fifo[l] \in Seq(Ids) /\ n \in Nat
  BY DEF IsBook, StandsRight
<1>2. w \in Seq(Ids) /\ Len(w) = n - 1
      /\ \A i \in 1 .. n - 1 : w[i] = IF i < k THEN v.fifo[l][i] ELSE v.fifo[l][i + 1]
  BY <1>1, WithoutIs DEF IsBook, StandsOnce
<1>3. v2 = [orders |-> Drop(f, id), fifo |-> [v.fifo EXCEPT ![l] = w]]
  BY <1>1 DEF Remove
<1> HIDE DEF w
<1>4. /\ v2.orders = Drop(f, id) /\ v2.fifo \in [Levels -> Seq(Ids)]
      /\ v2.fifo[l] = w /\ \A m \in Levels \ {l} : v2.fifo[m] = v.fifo[m]
      /\ v2 = [orders |-> v2.orders, fifo |-> v2.fifo]
  BY <1>2, <1>3 DEF IsBook
<1>5. IsOrders(v2.orders)
  <2>1. IsFiniteSet(DOMAIN Drop(f, id))
    BY FS_Subset DEF Drop, IsBook, IsOrders
  <2> QED BY <1>4, <2>1 DEF IsBook, IsOrders, Drop
<1>6. DOMAIN v2.orders = DOMAIN f \ {id} /\ \A x \in DOMAIN v2.orders : v2.orders[x] = f[x]
  BY <1>4 DEF Drop
<1> HIDE DEF v2, id, n, f
<1>7. ASSUME NEW m \in Levels, NEW i \in 1 .. Len(v2.fifo[m])
      PROVE  \E j \in 1 .. Len(v.fifo[m]) :
               /\ v2.fifo[m][i] = v.fifo[m][j] /\ v2.fifo[m][i] # id
               /\ m = l => j = IF i < k THEN i ELSE i + 1
  <2>1. CASE m # l
    <3>1. v2.fifo[m] = v.fifo[m]
      BY <1>4, <2>1
    <3>2. v.fifo[m][i] \in DOMAIN f /\ LevelOf(f[v.fifo[m][i]]) = m
      BY <3>1 DEF IsBook, StandsRight, f
    <3> QED BY <1>1, <2>1, <3>1, <3>2
  <2>2. CASE m = l
    <3>1. i \in 1 .. n - 1 /\ v2.fifo[m][i] = IF i < k THEN v.fifo[l][i] ELSE v.fifo[l][i + 1]
      BY <1>2, <1>4, <2>2
    <3>2. PICK j \in 1 .. n : j = IF i < k THEN i ELSE i + 1
      BY <1>1, <3>1
    <3>3. j # k /\ v2.fifo[m][i] = v.fifo[l][j]
      BY <3>1, <3>2
    <3>4. v.fifo[l][j] # v.fifo[l][k]
      BY <3>2, <3>3 DEF IsBook, StandsOnce, n
    <3> QED BY <2>2, <3>2, <3>3, <3>4 DEF n, id
  <2> QED BY <2>1, <2>2
<1>8. ASSUME NEW m \in Levels, NEW i \in 1 .. Len(v2.fifo[m])
      PROVE  v2.fifo[m][i] \in DOMAIN v2.orders /\ LevelOf(v2.orders[v2.fifo[m][i]]) = m
  <2>1. PICK j \in 1 .. Len(v.fifo[m]) : v2.fifo[m][i] = v.fifo[m][j] /\ v2.fifo[m][i] # id
    BY <1>7
  <2>2. v.fifo[m][j] \in DOMAIN f /\ LevelOf(f[v.fifo[m][j]]) = m
    BY DEF IsBook, StandsRight, f
  <2> QED BY <1>6, <2>1, <2>2
<1>9. ASSUME NEW m \in Levels, NEW i \in 1 .. Len(v2.fifo[m]), NEW j \in 1 .. Len(v2.fifo[m]),
             v2.fifo[m][i] = v2.fifo[m][j]
      PROVE  i = j
  <2>1. CASE m # l
    <3>1. v2.fifo[m] = v.fifo[m]
      BY <1>4, <2>1
    <3> QED BY <1>9, <3>1 DEF IsBook, StandsOnce
  <2>2. CASE m = l
    <3>1. PICK i2 \in 1 .. Len(v.fifo[m]) : v2.fifo[m][i] = v.fifo[m][i2]
                                            /\ i2 = IF i < k THEN i ELSE i + 1
      BY <1>7, <2>2
    <3>2. PICK j2 \in 1 .. Len(v.fifo[m]) : v2.fifo[m][j] = v.fifo[m][j2]
                                            /\ j2 = IF j < k THEN j ELSE j + 1
      BY <1>7, <2>2
    <3>3. i2 = j2
      <4>1. v.fifo[m][i2] = v.fifo[m][j2]
        BY <1>9, <3>1, <3>2
      <4> QED BY <4>1 DEF IsBook, StandsOnce
    <3>4. i \in Nat /\ j \in Nat
      OBVIOUS
    <3> QED BY <3>1, <3>2, <3>3, <3>4
  <2> QED BY <2>1, <2>2
<1>10. ASSUME NEW x \in DOMAIN v2.orders
       PROVE  \E i \in 1 .. Len(v2.fifo[LevelOf(v2.orders[x])]) :
                v2.fifo[LevelOf(v2.orders[x])][i] = x
  <2>1. x \in DOMAIN f /\ x # id /\ v2.orders[x] = f[x]
    BY <1>6
  <2>2. PICK m : m = LevelOf(f[x])
    OBVIOUS
  <2>3. PICK i \in 1 .. Len(v.fifo[m]) : v.fifo[m][i] = x
    BY <2>1, <2>2 DEF IsBook, AllStand, f
  <2>4. m \in Levels
    BY <2>1, <2>2 DEF IsBook, IsOrders, Order, LevelOf, Levels, f
  <2>5. CASE m # l
    BY <1>4, <2>1, <2>2, <2>3, <2>4, <2>5
  <2>6. CASE m = l
    <3>1. i # k /\ i \in 1 .. n
      BY <2>1, <2>3, <2>6 DEF id, n
    <3>2. CASE i < k
      <4>1. i \in 1 .. n - 1
        BY <1>1, <3>1, <3>2 DEF n
      <4>2. w[i] = x
        BY <1>2, <2>3, <2>6, <3>2, <4>1
      <4> QED BY <1>2, <1>4, <2>1, <2>2, <2>6, <4>1, <4>2
    <3>3. CASE i > k
      <4>1. i - 1 \in 1 .. n - 1 /\ ~(i - 1 < k) /\ i - 1 + 1 = i
        BY <1>1, <3>1, <3>3 DEF n
      <4>2. w[i - 1] = x
        BY <1>2, <2>3, <2>6, <4>1
      <4> QED BY <1>2, <1>4, <2>1, <2>2, <2>6, <4>1, <4>2
    <3> QED BY <3>1, <3>2, <3>3
  <2> QED BY <2>5, <2>6
<1>11. IsBook(v2)
  <2>1. StandsRight(v2)
    BY <1>8 DEF StandsRight
  <2>2. StandsOnce(v2)
    BY <1>9 DEF StandsOnce
  <2>3. AllStand(v2)
    BY <1>10 DEF AllStand
  <2> QED BY <1>4, <1>5, <2>1, <2>2, <2>3 DEF IsBook
<1>12. FifoCut(v, v2, l, k)
  BY <1>2, <1>4 DEF FifoCut, n
<1> QED BY <1>1, <1>4, <1>11, <1>12 DEF id, v2, f

\* An order joins the end of its level.
LEMMA PlacedBook ==
  ASSUME NEW v, IsBook(v), NEW id \in Ids, id \notin DOMAIN v.orders, NEW o \in Order
  PROVE  LET l == LevelOf(o)
             v2 == Place(v, id, o)
         IN  /\ IsBook(v2) /\ v2.orders = Set(v.orders, id, o) /\ l \in Levels
             /\ \A m \in Levels \ {l} : v2.fifo[m] = v.fifo[m]
             /\ v2.fifo[l] = Append(v.fifo[l], id)
             /\ Len(v2.fifo[l]) = Len(v.fifo[l]) + 1
             /\ v2.fifo[l][Len(v.fifo[l]) + 1] = id
             /\ \A i \in 1 .. Len(v.fifo[l]) : v2.fifo[l][i] = v.fifo[l][i] /\ v.fifo[l][i] # id
<1> DEFINE l == LevelOf(o)
           v2 == Place(v, id, o)
           f == v.orders
           n == Len(v.fifo[l])
           w == Append(v.fifo[l], id)
<1>1. l \in Levels
  BY DEF LevelOf, Levels, Order
<1>2. v.fifo[l] \in Seq(Ids)
  BY <1>1 DEF IsBook
<1>3. /\ n \in Nat /\ w \in Seq(Ids) /\ Len(w) = n + 1 /\ w[n + 1] = id
      /\ \A i \in 1 .. n : w[i] = v.fifo[l][i]
  BY <1>2
<1>4. v2 = [orders |-> Set(f, id, o), fifo |-> [v.fifo EXCEPT ![l] = w]]
  BY DEF Place
<1> HIDE DEF w, l
<1>5. /\ v2.orders = Set(f, id, o) /\ v2.fifo \in [Levels -> Seq(Ids)]
      /\ v2.fifo[l] = w /\ \A m \in Levels \ {l} : v2.fifo[m] = v.fifo[m]
      /\ v2 = [orders |-> v2.orders, fifo |-> v2.fifo]
  BY <1>1, <1>3, <1>4 DEF IsBook
<1>6. IsOrders(v2.orders)
  <2>1. IsFiniteSet(DOMAIN Set(f, id, o))
    BY FS_AddElement DEF Set, IsBook, IsOrders
  <2> QED BY <1>5, <2>1 DEF IsBook, IsOrders, Set
<1>7. /\ DOMAIN v2.orders = DOMAIN f \union {id} /\ v2.orders[id] = o
      /\ \A x \in DOMAIN f : v2.orders[x] = f[x]
  BY <1>5 DEF Set
<1> HIDE DEF v2, f, n
<1>8. ASSUME NEW m \in Levels, NEW i \in 1 .. Len(v.fifo[m])
      PROVE  /\ v.fifo[m][i] \in DOMAIN f /\ v.fifo[m][i] # id /\ LevelOf(f[v.fifo[m][i]]) = m
             /\ i \in 1 .. Len(v2.fifo[m]) /\ v2.fifo[m][i] = v.fifo[m][i]
  <2>1. v.fifo[m][i] \in DOMAIN f /\ v.fifo[m][i] # id /\ LevelOf(f[v.fifo[m][i]]) = m
    BY DEF IsBook, StandsRight, f
  <2>2. i \in 1 .. Len(v2.fifo[m]) /\ v2.fifo[m][i] = v.fifo[m][i]
    <3>1. CASE m # l
      BY <1>5, <3>1
    <3>2. CASE m = l
      <4>1. i \in 1 .. n
        BY <3>2 DEF n
      <4>2. i \in 1 .. n + 1
        BY <1>3, <4>1
      <4> QED BY <1>3, <1>5, <3>2, <4>1, <4>2
    <3> QED BY <3>1, <3>2
  <2> QED BY <2>1, <2>2
<1>9. ASSUME NEW m \in Levels, NEW i \in 1 .. Len(v2.fifo[m])
      PROVE  i \in 1 .. Len(v.fifo[m]) \/ (m = l /\ i = n + 1 /\ v2.fifo[m][i] = id)
  <2>1. CASE m # l
    BY <1>5, <2>1
  <2>2. CASE m = l
    <3>1. i \in 1 .. n + 1
      BY <1>3, <1>5, <2>2
    <3>2. i \in 1 .. n \/ i = n + 1
      BY <1>3, <3>1
    <3> QED BY <1>3, <1>5, <2>2, <3>2 DEF n
  <2> QED BY <2>1, <2>2
<1>10. StandsRight(v2)
  <2> SUFFICES ASSUME NEW m \in Levels, NEW i \in 1 .. Len(v2.fifo[m])
               PROVE  v2.fifo[m][i] \in DOMAIN v2.orders /\ LevelOf(v2.orders[v2.fifo[m][i]]) = m
    BY DEF StandsRight
  <2>1. CASE i \in 1 .. Len(v.fifo[m])
    BY <1>7, <1>8, <2>1
  <2>2. CASE m = l /\ v2.fifo[m][i] = id
    BY <1>7, <2>2 DEF l
  <2> QED BY <1>9, <2>1, <2>2
<1>11. StandsOnce(v2)
  <2> SUFFICES ASSUME NEW m \in Levels, NEW i \in 1 .. Len(v2.fifo[m]),
                      NEW j \in 1 .. Len(v2.fifo[m]), v2.fifo[m][i] = v2.fifo[m][j]
               PROVE  i = j
    BY DEF StandsOnce
  <2>1. CASE i \in 1 .. Len(v.fifo[m]) /\ j \in 1 .. Len(v.fifo[m])
    <3>1. v.fifo[m][i] = v.fifo[m][j]
      BY <1>8, <2>1
    <3> QED BY <2>1, <3>1 DEF IsBook, StandsOnce
  <2>2. CASE ~(i \in 1 .. Len(v.fifo[m]) /\ j \in 1 .. Len(v.fifo[m]))
    <3>1. \A h \in 1 .. Len(v2.fifo[m]) :
            h \in 1 .. Len(v.fifo[m]) \/ (h = n + 1 /\ v2.fifo[m][h] = id)
      BY <1>9, Zenon
    <3>2. \A h \in 1 .. Len(v.fifo[m]) : v2.fifo[m][h] # id
      BY <1>8, Zenon
    <3> QED BY <2>2, <3>1, <3>2, Zenon
  <2> QED BY <2>1, <2>2
<1>12. AllStand(v2)
  <2> SUFFICES ASSUME NEW x \in DOMAIN v2.orders
               PROVE  \E i \in 1 .. Len(v2.fifo[LevelOf(v2.orders[x])]) :
                        v2.fifo[LevelOf(v2.orders[x])][i] = x
    BY DEF AllStand
  <2>1. CASE x = id
    <3>1. n + 1 \in 1 .. n + 1
      BY <1>3
    <3> QED BY <1>3, <1>5, <1>7, <2>1, <3>1 DEF l
  <2>2. CASE x # id
    <3>1. x \in DOMAIN f /\ v2.orders[x] = f[x]
      BY <1>7, <2>2
    <3>2. PICK m : m = LevelOf(f[x])
      OBVIOUS
    <3>3. PICK i \in 1 .. Len(v.fifo[m]) : v.fifo[m][i] = x
      BY <3>1, <3>2 DEF IsBook, AllStand, f
    <3>4. m \in Levels
      BY <3>1, <3>2 DEF IsBook, IsOrders, Order, LevelOf, Levels, f
    <3> QED BY <1>8, <3>1, <3>2, <3>3, <3>4
  <2> QED BY <2>1, <2>2
<1>13. IsBook(v2)
  BY <1>5, <1>6, <1>10, <1>11, <1>12 DEF IsBook
<1>14. \A i \in 1 .. n : v2.fifo[l][i] = v.fifo[l][i] /\ v.fifo[l][i] # id
  BY <1>1, <1>8 DEF n
<1> QED BY <1>1, <1>3, <1>5, <1>13, <1>14 DEF v2, f, n, w, l

\* The order id of v2 is that of v with n contracts; nothing else has changed.
ResizedTo(v, v2, id, n) ==
  LET o   == v.orders[id]
      cut == [side |-> o.side, price |-> o.price, size |-> n]
  IN  /\ IsBook(v2) /\ v2.fifo = v.fifo /\ DOMAIN v2.orders = DOMAIN v.orders
      /\ v2.orders[id] = cut
      /\ \A x \in DOMAIN v.orders \ {id} : v2.orders[x] = v.orders[x]
      /\ v2.orders = Set(Drop(v.orders, id), id, cut)
      /\ o \in Order /\ cut \in Order /\ LevelOf(cut) = LevelOf(o)

\* An order gets another size.
LEMMA ResizedBook ==
  ASSUME NEW v, IsBook(v), NEW id \in DOMAIN v.orders, NEW n \in Nat
  PROVE  ResizedTo(v, Resize(v, id, n), id, n)
<1> DEFINE o == v.orders[id]
           cut == [side |-> o.side, price |-> o.price, size |-> n]
           v2 == Resize(v, id, n)
           f2 == [v.orders EXCEPT ![id].size = n]
<1>1. o \in Order /\ cut \in Order
  BY DEF IsBook, IsOrders, Order
<1>2. [o EXCEPT !.size = n] = cut
  BY <1>1 DEF Order
<1>3. v2 = [orders |-> f2, fifo |-> v.fifo]
  <2>1. PICK f, q : v = [orders |-> f, fifo |-> q] /\ f = v.orders /\ q = v.fifo
    BY DEF IsBook
  <2>2. [[orders |-> f, fifo |-> q] EXCEPT !.orders = [f EXCEPT ![id].size = n]]
          = [orders |-> [f EXCEPT ![id].size = n], fifo |-> q]
    OBVIOUS
  <2>3. v2 = [[orders |-> f, fifo |-> q] EXCEPT !.orders = [f EXCEPT ![id].size = n]]
    BY <2>1 DEF Resize
  <2> QED BY <2>1, <2>2, <2>3
<1>4. /\ DOMAIN f2 = DOMAIN v.orders /\ f2[id] = cut
      /\ \A x \in DOMAIN v.orders \ {id} : f2[x] = v.orders[x]
      /\ f2 = [x \in DOMAIN f2 |-> f2[x]]
  BY <1>2
<1>5. LevelOf(cut) = LevelOf(o)
  BY DEF LevelOf
<1> HIDE DEF f2, cut
<1>6. f2 = Set(Drop(v.orders, id), id, cut)
  BY <1>4 DEF Set, Drop
<1>7. IsOrders(f2)
  BY <1>1, <1>4 DEF IsBook, IsOrders
<1>8. \A x \in DOMAIN f2 : LevelOf(f2[x]) = LevelOf(v.orders[x])
  BY <1>4, <1>5
<1>9. /\ v2.orders = f2 /\ v2.fifo = v.fifo /\ v2 = [orders |-> v2.orders, fifo |-> v2.fifo]
  BY <1>3
<1> HIDE DEF v2
<1>10. StandsRight(v2) /\ StandsOnce(v2) /\ AllStand(v2)
  <2>1. StandsRight(v2)
    BY <1>4, <1>8, <1>9 DEF IsBook, StandsRight
  <2>2. StandsOnce(v2)
    BY <1>9 DEF IsBook, StandsOnce
  <2>3. AllStand(v2)
    BY <1>4, <1>8, <1>9 DEF IsBook, AllStand
  <2> QED BY <2>1, <2>2, <2>3
<1>11. IsBook(v2)
  BY <1>7, <1>9, <1>10 DEF IsBook
<1>12. ResizedTo(v, v2, id, n)
  BY <1>1, <1>4, <1>5, <1>6, <1>9, <1>11, Zenon DEF ResizedTo, cut
<1> QED BY <1>12 DEF v2
-----------------------------------------------------------------------------
(* The best price *)

\* p is no less aggressive than q.
Leads(s, p, q) == IF s = "Buy" THEN p >= q ELSE p <= q

\* A finite set of prices has a best one: no finite set is the smallest without.
LEMMA BestExists ==
  ASSUME NEW s, NEW P, IsFiniteSet(P), P \subseteq Nat, P # {}
  PROVE  Best(s, P) \in P /\ \A q \in P : Leads(s, Best(s, P), q)
<1> DEFINE leads(S) == \E p \in S : \A q \in S : Leads(s, p, q)
           wrong == {S \in SUBSET P : S # {} /\ ~leads(S)}
<1>1. wrong = {}
  <2> SUFFICES ASSUME wrong # {} PROVE FALSE
    OBVIOUS
  <2>1. wrong \subseteq FiniteSubsetsOf(P)
    BY FS_FiniteSubsetsOfFinite
  <2>2. PICK S \in wrong : \A T \in wrong : <<T, S>> \notin StrictSubsetOrdering(P)
    BY <2>1, FS_StrictSubsetOrderingWellFounded, WFMin
  <2>3. PICK x \in S : TRUE
    OBVIOUS
  <2>4. S \subseteq P /\ ~leads(S) /\ x \in Nat
    OBVIOUS
  <2>5. S \ {x} \notin wrong
    <3>1. S \in SUBSET P /\ S \ {x} \in SUBSET P /\ S \ {x} # S
      BY <2>4
    <3>2. <<S \ {x}, S>> \in StrictSubsetOrdering(P)
      BY <3>1 DEF StrictSubsetOrdering
    <3> HIDE DEF wrong
    <3> QED BY <2>2, <3>2
  <2>6. CASE S \ {x} = {}
    <3>1. \A q \in S : q = x
      BY <2>6
    <3> QED BY <2>4, <3>1 DEF Leads
  <2>7. CASE S \ {x} # {}
    <3>1. PICK y \in S \ {x} : \A q \in S \ {x} : Leads(s, y, q)
      BY <2>4, <2>5, <2>7
    <3>2. y \in Nat /\ \A q \in S : q \in Nat
      BY <2>4, <3>1
    <3>3. CASE Leads(s, x, y)
      <4>1. \A q \in S : Leads(s, x, q)
        BY <2>4, <3>1, <3>2, <3>3 DEF Leads
      <4> QED BY <2>4, <4>1
    <3>4. CASE ~Leads(s, x, y)
      <4>1. \A q \in S : Leads(s, y, q)
        BY <2>4, <3>1, <3>2, <3>4 DEF Leads
      <4> QED BY <2>4, <3>1, <4>1
    <3> QED BY <3>3, <3>4
  <2> QED BY <2>6, <2>7
<1>2. \E p \in P : \A q \in P : Leads(s, p, q)
  BY <1>1
<1> HIDE DEF wrong
<1> QED BY <1>2 DEF Best, Leads

\* There is no other.
LEMMA BestUnique ==
  ASSUME NEW s, NEW P, P \subseteq Nat, NEW p \in P, \A q \in P : Leads(s, p, q)
  PROVE  Best(s, P) = p
<1> DEFINE c == CHOOSE x \in P : \A q \in P : IF s = "Buy" THEN x >= q ELSE x <= q
<1>1. c \in P /\ \A q \in P : IF s = "Buy" THEN c >= q ELSE c <= q
  BY DEF Leads
<1>2. Best(s, P) = c
  BY DEF Best
<1> HIDE DEF c
<1>3. c \in Nat /\ p \in Nat /\ Leads(s, c, p) /\ Leads(s, p, c)
  BY <1>1 DEF Leads
<1> QED BY <1>2, <1>3 DEF Leads

\* The best price leaves, or another.
LEMMA BestWithout ==
  ASSUME NEW s, NEW P, IsFiniteSet(P), P \subseteq Prices, NEW p \in P
  PROVE  Best(s, P \ {p}) = IF Best(s, P) = p THEN Best(s, P \ {p}) ELSE Best(s, P)
<1>1. P \subseteq Nat
  BY FeedAssumption
<1>2. PICK m \in P : m = Best(s, P) /\ \A q \in P : Leads(s, m, q)
  BY <1>1, BestExists
<1>3. CASE m # p
  <2>1. Best(s, P \ {p}) = m
    BY <1>1, <1>2, <1>3, BestUnique
  <2> QED BY <1>2, <1>3, <2>1
<1> QED BY <1>2, <1>3

\* A price enters: the test of with_level.
LEMMA BestWith ==
  ASSUME NEW s \in Side, NEW P, IsFiniteSet(P), P \subseteq Prices, NEW p \in Prices
  PROVE  Best(s, P \union {p}) = IF \/ Best(s, P) = Undef
                                    \/ s = "Buy" /\ p > Best(s, P)
                                    \/ s = "Sell" /\ p < Best(s, P)
                                 THEN p ELSE Best(s, P)
<1>1. P \union {p} \subseteq Nat /\ p \in Nat
  BY FeedAssumption
<1>2. CASE P = {}
  <2>1. Best(s, {p}) = p
    BY <1>1, BestUnique DEF Leads
  <2> QED BY <1>2, <2>1 DEF Best
<1>3. CASE P # {}
  <2>1. PICK m \in P : m = Best(s, P) /\ \A q \in P : Leads(s, m, q)
    BY <1>1, <1>3, BestExists
  <2>2. m # Undef /\ m \in Nat
    BY <1>1, FeedAssumption DEF Undef
  <2>3. s = "Buy" \/ (s = "Sell" /\ s # "Buy")
    BY DEF Side
  <2>4. CASE Leads(s, m, p)
    <3>1. Best(s, P \union {p}) = m
      BY <1>1, <2>1, <2>4, BestUnique
    <3>2. ~(s = "Buy" /\ p > m) /\ ~(s = "Sell" /\ p < m)
      BY <1>1, <2>2, <2>3, <2>4 DEF Leads
    <3> QED BY <2>1, <2>2, <3>1, <3>2
  <2>5. CASE ~Leads(s, m, p)
    <3>1. \A q \in P \union {p} : Leads(s, p, q)
      BY <1>1, <2>1, <2>2, <2>5 DEF Leads
    <3>2. Best(s, P \union {p}) = p
      BY <1>1, <3>1, BestUnique
    <3>3. (s = "Buy" /\ p > m) \/ (s = "Sell" /\ p < m)
      BY <1>1, <2>2, <2>3, <2>5 DEF Leads
    <3> QED BY <2>1, <3>2, <3>3
  <2> QED BY <2>4, <2>5
<1> QED BY <1>2, <1>3
-----------------------------------------------------------------------------
(* The linked form *)

\* The fields of the levels, of the orders and of the book.
AreLevels(L) ==
  /\ DOMAIN L = Side
  /\ \A s \in Side : \A p \in DOMAIN L[s] : DOMAIN L[s][p] = {"front", "back", "count", "total"}
AreEntries(f) ==
  \A id \in DOMAIN f : DOMAIN f[id] = {"side", "price", "quantity", "prev", "next"}
IsLinked(b) ==
  /\ DOMAIN b = {"orders", "levels", "tree", "best"}
  /\ AreEntries(b.orders) /\ AreLevels(b.levels)
  /\ DOMAIN b.tree = Side /\ DOMAIN b.best = Side

\* The prices of a side where an order stands.
Shown(v, s) == {p \in Prices : v.fifo[<<s, p>>] # <<>>}

\* The entries are the orders;
EntriesMatch(b, v) ==
  /\ DOMAIN b.orders = DOMAIN v.orders
  /\ \A id \in DOMAIN v.orders : /\ b.orders[id].side = v.orders[id].side
                                 /\ b.orders[id].price = v.orders[id].price
                                 /\ b.orders[id].quantity = v.orders[id].size
\* their links follow the sequence of their level;
LinksMatch(b, v) ==
  \A l \in Levels : \A i \in 1 .. Len(v.fifo[l]) :
    /\ b.orders[v.fifo[l][i]].prev = IF i = 1 THEN Nil ELSE v.fifo[l][i - 1]
    /\ b.orders[v.fifo[l][i]].next = IF i = Len(v.fifo[l]) THEN Nil ELSE v.fifo[l][i + 1]
\* a level has the ends, the length and the contracts of its sequence;
LevelIs(r, v, l) ==
  /\ r.front = v.fifo[l][1] /\ r.back = v.fifo[l][Len(v.fifo[l])]
  /\ r.count = Len(v.fifo[l]) /\ r.total = Rests(v.orders)[l]
LevelsMatch(b, v) ==
  \A s \in Side : /\ DOMAIN b.levels[s] = Shown(v, s)
                  /\ \A p \in Shown(v, s) : LevelIs(b.levels[s][p], v, <<s, p>>)
\* the tree has the prices of the levels, and best the best of them.
PricesMatch(b, v) ==
  \A s \in Side : b.tree[s] = Shown(v, s) /\ b.best[s] = Best(s, Shown(v, s))

\* b is the linked form of the book v.
LinkedForm(b, v) ==
  /\ IsLinked(b) /\ IsBook(v)
  /\ EntriesMatch(b, v) /\ LinksMatch(b, v) /\ LevelsMatch(b, v) /\ PricesMatch(b, v)

\* Two level maps differ in the level at price p of side s at most.
Elsewhere(L, M, s, p) ==
  /\ DOMAIN M[s] \ {p} = DOMAIN L[s] \ {p}
  /\ \A q \in DOMAIN L[s] \ {p} : M[s][q] = L[s][q]
  /\ \A t \in Side \ {s} : M[t] = L[t]

LEMMA ElsewhereComposes ==
  ASSUME NEW L, NEW M, NEW N, NEW s, NEW p, Elsewhere(L, M, s, p), Elsewhere(M, N, s, p)
  PROVE  Elsewhere(L, N, s, p)
BY DEF Elsewhere

\* One field of one level is assigned.
Assigned(L, M, s, p, field, w) ==
  /\ AreLevels(M) /\ Elsewhere(L, M, s, p) /\ p \in DOMAIN M[s]
  /\ M[s][p][field] = w
  /\ \A g \in {"front", "back", "count", "total"} \ {field} : M[s][p][g] = L[s][p][g]

LEMMA AssignedIs ==
  ASSUME NEW L, AreLevels(L), NEW s \in Side, NEW p \in DOMAIN L[s],
         NEW field \in {"front", "back", "count", "total"}, NEW w
  PROVE  Assigned(L, [L EXCEPT ![s][p][field] = w], s, p, field, w)
<1> DEFINE fields == {"front", "back", "count", "total"}
           r == [L[s][p] EXCEPT ![field] = w]
           m == [L[s] EXCEPT ![p] = r]
           M == [L EXCEPT ![s] = m]
<1>1. [L EXCEPT ![s][p][field] = w] = M
  OBVIOUS
<1>2. DOMAIN L[s][p] = fields /\ DOMAIN L = Side
  BY DEF AreLevels
<1>3. DOMAIN r = fields /\ r[field] = w /\ \A g \in fields \ {field} : r[g] = L[s][p][g]
  BY <1>2
<1> HIDE DEF r
<1>4. DOMAIN m = DOMAIN L[s] /\ m[p] = r /\ \A q \in DOMAIN L[s] \ {p} : m[q] = L[s][q]
  OBVIOUS
<1> HIDE DEF m, fields
<1>5. DOMAIN M = Side /\ M[s] = m /\ \A t \in Side \ {s} : M[t] = L[t]
  BY <1>2
<1> HIDE DEF M
<1>6. Elsewhere(L, M, s, p)
  BY <1>4, <1>5 DEF Elsewhere
<1>7. ASSUME NEW t \in Side, NEW q \in DOMAIN M[t] PROVE DOMAIN M[t][q] = fields
  <2>1. CASE t = s /\ q = p
    BY <1>3, <1>4, <1>5, <2>1
  <2>2. CASE t = s /\ q # p
    BY <1>4, <1>5, <2>2 DEF AreLevels, fields
  <2>3. CASE t # s
    BY <1>5, <2>3 DEF AreLevels, fields
  <2> QED BY <2>1, <2>2, <2>3
<1>8. AreLevels(M)
  BY <1>5, <1>7 DEF AreLevels, fields
<1> QED BY <1>1, <1>3, <1>4, <1>5, <1>6, <1>8 DEF Assigned, fields

\* The entries of g are those of f, with the neighbours of id skipping it.
Skips(f, g, id) ==
  \A x \in DOMAIN g :
    /\ g[x].side = f[x].side /\ g[x].price = f[x].price /\ g[x].quantity = f[x].quantity
    /\ g[x].prev = IF x = f[id].next THEN f[id].prev ELSE f[x].prev
    /\ g[x].next = IF x = f[id].prev THEN f[id].next ELSE f[x].next

LEMMA SkipsLess ==
  ASSUME NEW f, NEW g, NEW h, NEW id, Skips(f, g, id),
         DOMAIN h \subseteq DOMAIN g, \A x \in DOMAIN h : h[x] = g[x]
  PROVE  Skips(f, h, id)
BY DEF Skips

\* The level r became q when the entry oe was taken out of its list.
Bypassed(r, q, oe) ==
  /\ q.front = IF oe.prev = Nil THEN oe.next ELSE r.front
  /\ q.back = IF oe.next = Nil THEN oe.prev ELSE r.back
  /\ q.count = r.count /\ q.total = r.total

\* unlink_order, all its assignments together.
LEMMA UnlinkIs ==
  ASSUME NEW b, IsLinked(b), NEW id \in DOMAIN b.orders, NEW s \in Side, NEW p,
         s = b.orders[id].side, p = b.orders[id].price, p \in DOMAIN b.levels[s]
  PROVE  LET u == unlink_order(b, id)
         IN  /\ IsLinked(u) /\ u.tree = b.tree /\ u.best = b.best
             /\ DOMAIN u.orders = DOMAIN b.orders /\ Skips(b.orders, u.orders, id)
             /\ Elsewhere(b.levels, u.levels, s, p) /\ p \in DOMAIN u.levels[s]
             /\ Bypassed(b.levels[s][p], u.levels[s][p], b.orders[id])
<1> DEFINE oe == b.orders[id]
           r == b.levels[s][p]
           u == unlink_order(b, id)
           fr == IF oe.prev = Nil THEN oe.next ELSE r.front
           ba == IF oe.next = Nil THEN oe.prev ELSE r.back
           skip(x) == [b.orders[x] EXCEPT !.next = IF x = oe.prev THEN oe.next ELSE @,
                                          !.prev = IF x = oe.next THEN oe.prev ELSE @]
<1>1. u.tree = b.tree /\ u.best = b.best /\ DOMAIN u = DOMAIN b
  BY DEF unlink_order, IsLinked
<1>2. DOMAIN u.orders = DOMAIN b.orders
  BY DEF unlink_order, IsLinked
<1>3. \A x \in DOMAIN b.orders : u.orders[x] = skip(x)
  BY Zenon DEF unlink_order, IsLinked
<1>4. u.levels = [b.levels EXCEPT ![s][p].front = fr, ![s][p].back = ba]
  BY DEF unlink_order, IsLinked
<1> HIDE DEF u, fr, ba
<1>5. ASSUME NEW x \in DOMAIN b.orders
      PROVE  /\ DOMAIN u.orders[x] = DOMAIN b.orders[x]
             /\ u.orders[x].side = b.orders[x].side
             /\ u.orders[x].price = b.orders[x].price
             /\ u.orders[x].quantity = b.orders[x].quantity
             /\ u.orders[x].prev = IF x = oe.next THEN oe.prev ELSE b.orders[x].prev
             /\ u.orders[x].next = IF x = oe.prev THEN oe.next ELSE b.orders[x].next
  <2>1. DOMAIN b.orders[x] = {"side", "price", "quantity", "prev", "next"}
    BY DEF IsLinked, AreEntries
  <2>2. PICK e : e = b.orders[x]
    OBVIOUS
  <2>3. PICK e1 : e1 = [e EXCEPT !.next = IF x = oe.prev THEN oe.next ELSE @]
    OBVIOUS
  <2>4. u.orders[x] = [e1 EXCEPT !.prev = IF x = oe.next THEN oe.prev ELSE @]
    BY <1>3, <2>1, <2>2, <2>3, Zenon
  <2>5. /\ DOMAIN e1 = DOMAIN e /\ e1.side = e.side /\ e1.price = e.price
        /\ e1.quantity = e.quantity /\ e1.prev = e.prev
        /\ e1.next = IF x = oe.prev THEN oe.next ELSE e.next
    BY <2>1, <2>2, <2>3
  <2>6. /\ DOMAIN u.orders[x] = DOMAIN e1 /\ u.orders[x].side = e1.side
        /\ u.orders[x].price = e1.price
        /\ u.orders[x].quantity = e1.quantity /\ u.orders[x].next = e1.next
        /\ u.orders[x].prev = IF x = oe.next THEN oe.prev ELSE e1.prev
    BY <2>1, <2>2, <2>4, <2>5
  <2> QED BY <2>2, <2>5, <2>6
<1>6. AreEntries(u.orders)
  BY <1>2, <1>5, Zenon DEF IsLinked, AreEntries
<1>7. PICK M : M = [b.levels EXCEPT ![s][p].front = fr]
  BY Zenon
<1>8. AreLevels(b.levels)
  BY DEF IsLinked
<1>9. /\ AreLevels(M) /\ Elsewhere(b.levels, M, s, p) /\ p \in DOMAIN M[s]
      /\ M[s][p].front = fr /\ M[s][p].back = r.back
      /\ M[s][p].count = r.count /\ M[s][p].total = r.total
  <2>1. Assigned(b.levels, [b.levels EXCEPT ![s][p].front = fr], s, p, "front", fr)
    BY <1>8, AssignedIs, Zenon
  <2>2. Assigned(b.levels, M, s, p, "front", fr)
    BY <1>7, <2>1, Zenon
  <2> QED BY <1>8, <2>2, Zenon DEF Assigned
<1>10. u.levels = [M EXCEPT ![s][p].back = ba]
  BY <1>4, <1>7, Zenon
<1>11. PICK N : N = u.levels
  OBVIOUS
<1>12. /\ AreLevels(N) /\ Elsewhere(M, N, s, p) /\ p \in DOMAIN N[s]
       /\ N[s][p].back = ba /\ N[s][p].front = M[s][p].front
       /\ N[s][p].count = M[s][p].count /\ N[s][p].total = M[s][p].total
  <2>1. Assigned(M, [M EXCEPT ![s][p].back = ba], s, p, "back", ba)
    BY <1>9, AssignedIs, Zenon
  <2>2. Assigned(M, N, s, p, "back", ba)
    BY <1>10, <1>11, <2>1, Zenon
  <2> QED BY <1>9, <2>2, Zenon DEF Assigned
<1>13. Elsewhere(b.levels, N, s, p)
  BY <1>9, <1>12, ElsewhereComposes, Zenon
<1>14. IsLinked(u)
  BY <1>1, <1>6, <1>11, <1>12 DEF IsLinked
<1>15. Skips(b.orders, u.orders, id)
  BY <1>2, <1>5, Zenon DEF Skips
<1>16. Bypassed(r, u.levels[s][p], oe)
  BY <1>9, <1>11, <1>12, Zenon DEF Bypassed, fr, ba
<1> QED BY <1>1, <1>2, <1>11, <1>12, <1>13, <1>14, <1>15, <1>16, Zenon DEF u

\* The level leaves the map and the tree; best goes on to the next if it was this one.
LevelGone(b, d, s, p) ==
  /\ p \notin DOMAIN d.levels[s]
  /\ d.tree = [b.tree EXCEPT ![s] = b.tree[s] \ {p}]
  /\ d.best = [b.best EXCEPT ![s] = IF b.best[s] = p THEN Best(s, b.tree[s] \ {p}) ELSE b.best[s]]

\* remove_level, all its assignments together.
LEMMA RemoveLevelIs ==
  ASSUME NEW b, IsLinked(b), NEW s \in Side, NEW p
  PROVE  /\ IsLinked(remove_level(b, s, p)) /\ remove_level(b, s, p).orders = b.orders
         /\ Elsewhere(b.levels, remove_level(b, s, p).levels, s, p)
         /\ LevelGone(b, remove_level(b, s, p), s, p)
<1> DEFINE d == remove_level(b, s, p)
<1>1. DOMAIN d = DOMAIN b /\ d.orders = b.orders
  BY DEF remove_level, IsLinked
<1>2. d.tree = [b.tree EXCEPT ![s] = b.tree[s] \ {p}]
  BY DEF remove_level, IsLinked
<1>3. d.best = [b.best EXCEPT ![s] = IF b.best[s] = p THEN Best(s, b.tree[s] \ {p}) ELSE b.best[s]]
  BY DEF remove_level, IsLinked
<1>4. d.levels = [b.levels EXCEPT ![s] = Drop(b.levels[s], p)]
  BY DEF remove_level, IsLinked
<1> HIDE DEF d
<1>5. DOMAIN b.levels = Side
  BY DEF IsLinked, AreLevels
<1>6. /\ DOMAIN d.levels = Side /\ \A t \in Side \ {s} : d.levels[t] = b.levels[t]
      /\ d.levels[s] = Drop(b.levels[s], p)
  BY <1>4, <1>5
<1>7. /\ DOMAIN d.levels[s] = DOMAIN b.levels[s] \ {p}
      /\ \A q \in DOMAIN b.levels[s] \ {p} : d.levels[s][q] = b.levels[s][q]
  BY <1>6 DEF Drop
<1>8. ASSUME NEW t \in Side, NEW q \in DOMAIN d.levels[t]
      PROVE  DOMAIN d.levels[t][q] = {"front", "back", "count", "total"}
  <2>1. q \in DOMAIN b.levels[t] /\ d.levels[t][q] = b.levels[t][q]
    BY <1>6, <1>7
  <2> QED BY <2>1 DEF IsLinked, AreLevels
<1>9. AreLevels(d.levels)
  BY <1>6, <1>8 DEF AreLevels
<1>10. DOMAIN d.tree = Side /\ DOMAIN d.best = Side
  BY <1>2, <1>3 DEF IsLinked
<1>11. IsLinked(d)
  BY <1>1, <1>9, <1>10 DEF IsLinked
<1>12. Elsewhere(b.levels, d.levels, s, p)
  BY <1>6, <1>7, Zenon DEF Elsewhere
<1> QED BY <1>1, <1>2, <1>3, <1>7, <1>11, <1>12 DEF d, LevelGone

\* The level r became q when the entry oe left it.
LevelCut(r, q, oe) ==
  /\ q.front = IF oe.prev = Nil THEN oe.next ELSE r.front
  /\ q.back = IF oe.next = Nil THEN oe.prev ELSE r.back
  /\ q.count = r.count - 1 /\ q.total = r.total - oe.quantity

\* destroy_order, all its assignments together.
LEMMA DestroyIs ==
  ASSUME NEW b, IsLinked(b), NEW id \in DOMAIN b.orders, NEW s \in Side, NEW p,
         s = b.orders[id].side, p = b.orders[id].price, p \in DOMAIN b.levels[s],
         b.levels[s][p].count \in Nat
  PROVE  LET d == destroy_order(b, id)
         IN  /\ IsLinked(d) /\ Elsewhere(b.levels, d.levels, s, p)
             /\ DOMAIN d.orders = DOMAIN b.orders \ {id} /\ Skips(b.orders, d.orders, id)
             /\ b.levels[s][p].count = 1 => LevelGone(b, d, s, p)
             /\ b.levels[s][p].count # 1 =>
                  /\ p \in DOMAIN d.levels[s] /\ d.tree = b.tree /\ d.best = b.best
                  /\ LevelCut(b.levels[s][p], d.levels[s][p], b.orders[id])
<1> DEFINE oe == b.orders[id]
           r == b.levels[s][p]
           u == unlink_order(b, id)
           u2 == [u EXCEPT !.levels[s][p].total = @ - oe.quantity,
                           !.levels[s][p].count = @ - 1]
           c == [u2 EXCEPT !.orders = Drop(@, id)]
           d == destroy_order(b, id)
<1>1. /\ IsLinked(u) /\ u.tree = b.tree /\ u.best = b.best
      /\ DOMAIN u.orders = DOMAIN b.orders /\ Skips(b.orders, u.orders, id)
      /\ Elsewhere(b.levels, u.levels, s, p) /\ p \in DOMAIN u.levels[s]
      /\ Bypassed(r, u.levels[s][p], oe)
  BY UnlinkIs
<1>2. d = IF c.levels[s][p].count = 0 THEN remove_level(c, s, p) ELSE c
  BY DEF destroy_order
<1> HIDE DEF u, d
<1>3. DOMAIN u = {"orders", "levels", "tree", "best"} /\ AreLevels(u.levels) /\ s \in Side
  BY <1>1, Zenon DEF IsLinked
<1>4. PICK M : M = [u.levels EXCEPT ![s][p].total = r.total - oe.quantity]
  BY Zenon
<1>5. /\ AreLevels(M) /\ Elsewhere(u.levels, M, s, p) /\ p \in DOMAIN M[s]
      /\ M[s][p].total = r.total - oe.quantity /\ M[s][p].front = u.levels[s][p].front
      /\ M[s][p].back = u.levels[s][p].back /\ M[s][p].count = r.count
  <2>1. u.levels[s][p].count = r.count /\ u.levels[s][p].total = r.total
    BY <1>1, Zenon DEF Bypassed
  <2>2. Assigned(u.levels, [u.levels EXCEPT ![s][p].total = r.total - oe.quantity],
                 s, p, "total", r.total - oe.quantity)
    BY <1>1, <1>3, AssignedIs, Zenon
  <2>3. Assigned(u.levels, M, s, p, "total", r.total - oe.quantity)
    BY <1>4, <2>2, Zenon
  <2> QED BY <1>1, <1>3, <2>1, <2>3, Zenon DEF Assigned
<1>6. /\ DOMAIN c = DOMAIN u /\ c.tree = u.tree /\ c.best = u.best
      /\ c.orders = Drop(u.orders, id)
  BY <1>3
<1>7. c.levels = [M EXCEPT ![s][p].count = r.count - 1]
  <2>1. c.levels = u2.levels
    BY <1>3, Zenon
  <2>2. u2.levels = [u.levels EXCEPT ![s][p].total = r.total - oe.quantity,
                                     ![s][p].count = r.count - 1]
    BY <1>1, <1>3, Zenon DEF Bypassed
  <2> QED BY <1>4, <2>1, <2>2, Zenon
<1> HIDE DEF u2, c
<1>8. PICK N : N = c.levels
  OBVIOUS
<1>9. /\ AreLevels(N) /\ Elsewhere(M, N, s, p) /\ p \in DOMAIN N[s]
      /\ N[s][p].count = r.count - 1 /\ N[s][p].front = M[s][p].front
      /\ N[s][p].back = M[s][p].back /\ N[s][p].total = M[s][p].total
  <2>1. Assigned(M, [M EXCEPT ![s][p].count = r.count - 1], s, p, "count", r.count - 1)
    BY <1>3, <1>5, AssignedIs, Zenon
  <2>2. Assigned(M, N, s, p, "count", r.count - 1)
    BY <1>7, <1>8, <2>1, Zenon
  <2> QED BY <1>3, <1>5, <2>2, Zenon DEF Assigned
<1>10. Elsewhere(b.levels, N, s, p)
  BY <1>1, <1>5, <1>9, ElsewhereComposes, Zenon
<1>11. /\ DOMAIN c.orders = DOMAIN b.orders \ {id}
       /\ \A x \in DOMAIN b.orders \ {id} : c.orders[x] = u.orders[x]
  BY <1>1, <1>6, Zenon DEF Drop
<1>12. IsLinked(c)
  <2>1. AreEntries(c.orders)
    <3>1. AreEntries(u.orders)
      BY <1>1, Zenon DEF IsLinked
    <3> QED BY <1>1, <1>11, <3>1, Zenon DEF AreEntries
  <2> QED BY <1>1, <1>3, <1>6, <1>8, <1>9, <2>1, Zenon DEF IsLinked
<1>13. Skips(b.orders, c.orders, id)
  BY <1>1, <1>11, SkipsLess, Zenon
<1>14. CASE r.count = 1
  <2>1. d = remove_level(c, s, p)
    <3>1. c.levels[s][p].count = r.count - 1
      BY <1>8, <1>9, Zenon
    <3>2. r.count - 1 = 0
      BY <1>14
    <3> QED BY <1>2, <3>1, <3>2, Zenon
  <2>2. /\ IsLinked(remove_level(c, s, p)) /\ remove_level(c, s, p).orders = c.orders
        /\ Elsewhere(c.levels, remove_level(c, s, p).levels, s, p)
        /\ LevelGone(c, remove_level(c, s, p), s, p)
    BY <1>12, RemoveLevelIs, Zenon
  <2>3. Elsewhere(b.levels, d.levels, s, p)
    BY <1>8, <1>10, <2>1, <2>2, ElsewhereComposes
  <2>4. LevelGone(b, d, s, p)
    <3>1. c.tree = b.tree /\ c.best = b.best
      BY <1>1, <1>6, Zenon
    <3>2. LevelGone(c, d, s, p)
      BY <2>1, <2>2
    <3> HIDE DEF d, c
    <3> QED BY <3>1, <3>2 DEF LevelGone
  <2> QED BY <1>11, <1>13, <1>14, <2>1, <2>2, <2>3, <2>4, Zenon DEF d
<1>15. CASE r.count # 1
  <2>1. r.count - 1 # 0
    <3>1. PICK n \in Nat : n = r.count
      BY Zenon
    <3>2. n - 1 # 0
      <4>1. n # 1
        BY <1>15, <3>1, Zenon
      <4> QED BY <4>1
    <3> QED BY <3>1, <3>2, Zenon
  <2>2. d = c
    BY <1>2, <1>8, <1>9, <2>1, Zenon
  <2>3. LevelCut(r, N[s][p], oe)
    BY <1>1, <1>5, <1>9, Zenon DEF LevelCut, Bypassed
  <2> QED BY <1>1, <1>6, <1>8, <1>9, <1>10, <1>11, <1>12, <1>13, <1>15, <2>2, <2>3, Zenon DEF d
<1> QED BY <1>14, <1>15, Zenon
-----------------------------------------------------------------------------
(* An order leaves *)

\* Where the order id stands in v.
Stands(v, id, s, p, k) ==
  /\ s \in Side /\ p \in Prices /\ <<s, p>> \in Levels
  /\ k \in 1 .. Len(v.fifo[<<s, p>>]) /\ v.fifo[<<s, p>>][k] = id
  /\ v.orders[id].side = s /\ v.orders[id].price = p /\ LevelOf(v.orders[id]) = <<s, p>>

LEMMA StandsSomewhere ==
  ASSUME NEW v, IsBook(v), NEW id \in DOMAIN v.orders
  PROVE  \E s \in Side, p \in Prices : \E k \in 1 .. Len(v.fifo[<<s, p>>]) : Stands(v, id, s, p, k)
<1>1. v.orders[id] \in Order
  BY DEF IsBook, IsOrders
<1>2. PICK s \in Side, p \in Prices : s = v.orders[id].side /\ p = v.orders[id].price
  BY <1>1 DEF Order
<1>3. LevelOf(v.orders[id]) = <<s, p>> /\ <<s, p>> \in Levels
  BY <1>2 DEF LevelOf, Levels
<1>4. PICK k \in 1 .. Len(v.fifo[<<s, p>>]) : v.fifo[<<s, p>>][k] = id
  BY <1>3 DEF IsBook, AllStand
<1> QED BY <1>2, <1>3, <1>4 DEF Stands

\* The shape of the sequences of a book.
LEMMA FifoIs ==
  ASSUME NEW v, IsBook(v), NEW l \in Levels
  PROVE  /\ v.fifo[l] \in Seq(Ids) /\ Len(v.fifo[l]) \in Nat
         /\ \A i \in 1 .. Len(v.fifo[l]) :
              /\ v.fifo[l][i] \in Ids /\ v.fifo[l][i] # Nil /\ v.fifo[l][i] \in DOMAIN v.orders
              /\ LevelOf(v.orders[v.fifo[l][i]]) = l
         /\ \A i, j \in 1 .. Len(v.fifo[l]) : v.fifo[l][i] = v.fifo[l][j] => i = j
<1>1. v.fifo[l] \in Seq(Ids) /\ Len(v.fifo[l]) \in Nat
  BY DEF IsBook
<1>2. \A i \in 1 .. Len(v.fifo[l]) : v.fifo[l][i] \in Ids /\ v.fifo[l][i] # Nil
  BY <1>1, IdAssumption
<1> QED BY <1>1, <1>2 DEF IsBook, StandsRight, StandsOnce

\* A price is shown exactly when its sequence is not empty.
LEMMA ShownIs ==
  ASSUME NEW v, IsBook(v), NEW s \in Side, NEW p \in Prices
  PROVE  <<s, p>> \in Levels /\ (p \in Shown(v, s) <=> Len(v.fifo[<<s, p>>]) # 0)
<1>1. <<s, p>> \in Levels
  BY DEF Levels
<1>2. v.fifo[<<s, p>>] \in Seq(Ids)
  BY <1>1 DEF IsBook
<1>3. v.fifo[<<s, p>>] # <<>> <=> Len(v.fifo[<<s, p>>]) # 0
  BY <1>2
<1> QED BY <1>1, <1>3 DEF Shown

\* Finitely many are.
LEMMA ShownIsFinite ==
  ASSUME NEW v, IsBook(v), NEW s \in Side
  PROVE  IsFiniteSet(Shown(v, s)) /\ Shown(v, s) = PricesOf(v, s)
<1>1. PricesOf(v, s) = Shown(v, s)
  <2>1. ASSUME NEW id \in DOMAIN v.orders, v.orders[id].side = s
        PROVE  v.orders[id].price \in Shown(v, s)
    <3>1. PICK t \in Side, p \in Prices : \E k \in 1 .. Len(v.fifo[<<t, p>>]) : Stands(v, id, t, p, k)
      BY StandsSomewhere
    <3>2. PICK k \in 1 .. Len(v.fifo[<<t, p>>]) : Stands(v, id, t, p, k)
      BY <3>1
    <3>3. t = s /\ v.orders[id].price = p
      BY <2>1, <3>2 DEF Stands
    <3>4. Len(v.fifo[<<s, p>>]) # 0
      BY <3>3
    <3> QED BY <3>3, <3>4, ShownIs
  <2>2. ASSUME NEW p \in Shown(v, s)
        PROVE  \E id \in DOMAIN v.orders : v.orders[id].side = s /\ v.orders[id].price = p
    <3>1. p \in Prices /\ <<s, p>> \in Levels /\ Len(v.fifo[<<s, p>>]) # 0
      BY <2>2, ShownIs DEF Shown
    <3>2. Len(v.fifo[<<s, p>>]) \in Nat
      BY <3>1, FifoIs
    <3>3. 1 \in 1 .. Len(v.fifo[<<s, p>>])
      BY <3>1, <3>2
    <3>4. /\ v.fifo[<<s, p>>][1] \in DOMAIN v.orders
          /\ LevelOf(v.orders[v.fifo[<<s, p>>][1]]) = <<s, p>>
      BY <3>1, <3>3, FifoIs
    <3> QED BY <3>4 DEF LevelOf
  <2> QED BY <2>1, <2>2 DEF PricesOf
<1>2. IsFiniteSet(PricesOf(v, s))
  <2>1. IsFiniteSet({x \in DOMAIN v.orders : v.orders[x].side = s})
    BY FS_Subset DEF IsBook, IsOrders
  <2>2. IsFiniteSet({v.orders[id].price : id \in {x \in DOMAIN v.orders : v.orders[x].side = s}})
    <3> DEFINE S == {x \in DOMAIN v.orders : v.orders[x].side = s}
               h == [x \in S |-> v.orders[x].price]
    <3>1. {v.orders[id].price : id \in S} = {h[x] : x \in S}
      OBVIOUS
    <3>2. h \in Surjection(S, {h[x] : x \in S})
      BY DEF Surjection
    <3>3. IsFiniteSet({h[x] : x \in S})
      <4> HIDE DEF h, S
      <4> QED BY <2>1, <3>2, FS_Surjection DEF S
    <3> QED BY <3>1, <3>3
  <2> QED BY <2>2 DEF PricesOf
<1> QED BY <1>1, <1>2

\* The entry oe links to the neighbours of place k of level l, and to no other.
Between(v, l, k, oe) ==
  /\ oe.prev = IF k = 1 THEN Nil ELSE v.fifo[l][k - 1]
  /\ oe.next = IF k = Len(v.fifo[l]) THEN Nil ELSE v.fifo[l][k + 1]
  /\ \A j \in 1 .. Len(v.fifo[l]) : /\ v.fifo[l][j] = oe.prev <=> j = k - 1
                                    /\ v.fifo[l][j] = oe.next <=> j = k + 1
  /\ \A m \in Levels \ {l} : \A j \in 1 .. Len(v.fifo[m]) :
       v.fifo[m][j] # oe.prev /\ v.fifo[m][j] # oe.next

\* What the links of a resting order say, and who its neighbours are.
LEMMA Neighbours ==
  ASSUME NEW b, NEW v, LinkedForm(b, v), NEW id, NEW s, NEW p, NEW k, Stands(v, id, s, p, k)
  PROVE  Between(v, <<s, p>>, k, b.orders[id])
<1> DEFINE l == <<s, p>>
           q == v.fifo[l]
           oe == b.orders[id]
<1>1. l \in Levels /\ k \in 1 .. Len(q) /\ q[k] = id /\ IsBook(v)
  BY DEF Stands, LinkedForm
<1>2. /\ oe.prev = IF k = 1 THEN Nil ELSE q[k - 1]
      /\ oe.next = IF k = Len(q) THEN Nil ELSE q[k + 1]
  BY <1>1 DEF LinkedForm, LinksMatch
<1> HIDE DEF l, q, oe
<1>3. PICK n \in Nat : n = Len(q)
  BY <1>1, FifoIs DEF q
<1>4. \A i \in 1 .. n : q[i] # Nil /\ LevelOf(v.orders[q[i]]) = l
  BY <1>1, <1>3, FifoIs DEF q
<1>5. \A i, j \in 1 .. n : q[i] = q[j] => i = j
  BY <1>1, <1>3, FifoIs DEF q
<1>6. ASSUME NEW j \in 1 .. n
      PROVE  (q[j] = oe.prev <=> j = k - 1) /\ (q[j] = oe.next <=> j = k + 1)
  <2>1. q[j] = oe.prev <=> j = k - 1
    <3>1. CASE k = 1
      BY <1>2, <1>4, <3>1
    <3>2. CASE k # 1
      <4>1. k - 1 \in 1 .. n
        BY <1>1, <1>3, <3>2
      <4>2. oe.prev = q[k - 1]
        BY <1>2, <3>2
      <4> QED BY <1>5, <4>1, <4>2
    <3> QED BY <3>1, <3>2
  <2>2. q[j] = oe.next <=> j = k + 1
    <3>1. CASE k = n
      BY <1>2, <1>3, <1>4, <3>1
    <3>2. CASE k # n
      <4>1. k + 1 \in 1 .. n
        BY <1>1, <1>3, <3>2
      <4>2. oe.next = q[k + 1]
        BY <1>2, <1>3, <3>2
      <4> QED BY <1>5, <4>1, <4>2
    <3> QED BY <3>1, <3>2
  <2> QED BY <2>1, <2>2
<1>7. ASSUME NEW m \in Levels \ {l}, NEW j \in 1 .. Len(v.fifo[m])
      PROVE  v.fifo[m][j] # oe.prev /\ v.fifo[m][j] # oe.next
  <2>1. v.fifo[m][j] # Nil /\ LevelOf(v.orders[v.fifo[m][j]]) # l
    BY <1>1, FifoIs
  <2>2. oe.prev = Nil \/ LevelOf(v.orders[oe.prev]) = l
    <3>1. CASE k # 1
      <4>1. k - 1 \in 1 .. n
        BY <1>1, <1>3, <3>1
      <4> QED BY <1>2, <1>4, <3>1, <4>1
    <3> QED BY <1>2, <3>1
  <2>3. oe.next = Nil \/ LevelOf(v.orders[oe.next]) = l
    <3>1. CASE k # n
      <4>1. k + 1 \in 1 .. n
        BY <1>1, <1>3, <3>1
      <4> QED BY <1>2, <1>3, <1>4, <3>1, <4>1
    <3> QED BY <1>2, <1>3, <3>1
  <2> QED BY <2>1, <2>2, <2>3
<1>8. Between(v, l, k, oe)
  BY <1>2, <1>3, <1>6, <1>7 DEF Between, q
<1> QED BY <1>8 DEF l, oe

\* The links after the order id has left and its neighbours skip it.
LEMMA LinksAfterRemoval ==
  ASSUME NEW b, NEW v, LinkedForm(b, v), NEW id, NEW s, NEW p, NEW k, Stands(v, id, s, p, k),
         NEW d, DOMAIN d.orders = DOMAIN b.orders \ {id}, Skips(b.orders, d.orders, id)
  PROVE  LinksMatch(d, Remove(v, id))
<1> DEFINE l == <<s, p>>
           q == v.fifo[l]
           v2 == Remove(v, id)
           oe == b.orders[id]
<1>1. l \in Levels /\ k \in 1 .. Len(q) /\ q[k] = id /\ IsBook(v)
  BY DEF Stands, LinkedForm
<1>2. PICK n \in Nat : n = Len(q)
  BY <1>1, FifoIs
<1>3. /\ \A m \in Levels \ {l} : v2.fifo[m] = v.fifo[m]
      /\ Len(v2.fifo[l]) = n - 1
      /\ \A i \in 1 .. n - 1 : v2.fifo[l][i] = IF i < k THEN q[i] ELSE q[i + 1]
  <2>1. FifoCut(v, Remove(v, q[k]), l, k)
    <3> HIDE DEF l
    <3> QED BY <1>1, RemovedBook
  <2>2. FifoCut(v, v2, l, k)
    BY <1>1, <2>1
  <2> HIDE DEF v2, l
  <2> QED BY <1>2, <2>2 DEF FifoCut
<1>4. /\ oe.prev = IF k = 1 THEN Nil ELSE q[k - 1]
      /\ oe.next = IF k = n THEN Nil ELSE q[k + 1]
      /\ \A j \in 1 .. n : /\ q[j] = oe.prev <=> j = k - 1
                           /\ q[j] = oe.next <=> j = k + 1
      /\ \A m \in Levels \ {l} : \A j \in 1 .. Len(v.fifo[m]) :
           v.fifo[m][j] # oe.prev /\ v.fifo[m][j] # oe.next
  <2>1. /\ oe.prev = IF k = 1 THEN Nil ELSE q[k - 1]
        /\ oe.next = IF k = Len(q) THEN Nil ELSE q[k + 1]
        /\ \A j \in 1 .. Len(q) : /\ q[j] = oe.prev <=> j = k - 1
                                  /\ q[j] = oe.next <=> j = k + 1
        /\ \A m \in Levels \ {l} : \A j \in 1 .. Len(v.fifo[m]) :
             v.fifo[m][j] # oe.prev /\ v.fifo[m][j] # oe.next
    <3>1. Between(v, l, k, oe)
      BY Neighbours
    <3> HIDE DEF l, oe
    <3> QED BY <3>1, Zenon DEF Between
  <2> HIDE DEF l, q, oe
  <2> QED BY <1>2, <2>1
<1> HIDE DEF v2, l, oe
<1>5. ASSUME NEW m \in Levels \ {l}, NEW i \in 1 .. Len(v2.fifo[m])
      PROVE  /\ d.orders[v2.fifo[m][i]].prev = IF i = 1 THEN Nil ELSE v2.fifo[m][i - 1]
             /\ d.orders[v2.fifo[m][i]].next
                  = IF i = Len(v2.fifo[m]) THEN Nil ELSE v2.fifo[m][i + 1]
  <2>1. v2.fifo[m] = v.fifo[m]
    BY <1>3
  <2>2. PICK x : x = v.fifo[m][i]
    OBVIOUS
  <2>3. x # oe.prev /\ x # oe.next
    BY <1>4, <2>1, <2>2
  <2>4. x \in DOMAIN b.orders /\ x # id
    <3>1. x \in DOMAIN v.orders /\ LevelOf(v.orders[x]) = m
      BY <1>1, <2>1, <2>2, FifoIs
    <3>2. LevelOf(v.orders[id]) = l
      BY DEF Stands, l
    <3> QED BY <3>1, <3>2 DEF LinkedForm, EntriesMatch
  <2>5. d.orders[x].prev = b.orders[x].prev /\ d.orders[x].next = b.orders[x].next
    BY <2>3, <2>4 DEF Skips, oe
  <2>6. /\ b.orders[x].prev = IF i = 1 THEN Nil ELSE v.fifo[m][i - 1]
        /\ b.orders[x].next = IF i = Len(v.fifo[m]) THEN Nil ELSE v.fifo[m][i + 1]
    BY <2>1, <2>2 DEF LinkedForm, LinksMatch
  <2> QED BY <2>1, <2>2, <2>5, <2>6
<1>6. ASSUME NEW i \in 1 .. n - 1
      PROVE  /\ d.orders[v2.fifo[l][i]].prev = IF i = 1 THEN Nil ELSE v2.fifo[l][i - 1]
             /\ d.orders[v2.fifo[l][i]].next = IF i = n - 1 THEN Nil ELSE v2.fifo[l][i + 1]
  <2>1. PICK j \in 1 .. n : j = IF i < k THEN i ELSE i + 1
    OBVIOUS
  <2>2. PICK x : x = q[j]
    OBVIOUS
  <2>3. v2.fifo[l][i] = x /\ j # k
    BY <1>1, <1>2, <1>3, <2>1, <2>2
  <2>4. x \in DOMAIN b.orders /\ x # id
    <3>1. x \in DOMAIN v.orders /\ x # q[k]
      BY <1>1, <1>2, <2>2, <2>3, FifoIs
    <3> QED BY <1>1, <3>1 DEF LinkedForm, EntriesMatch
  <2>5. /\ d.orders[x].prev = IF j = k + 1 THEN oe.prev ELSE b.orders[x].prev
        /\ d.orders[x].next = IF j = k - 1 THEN oe.next ELSE b.orders[x].next
    BY <1>4, <2>2, <2>4 DEF Skips, oe
  <2>6. /\ b.orders[x].prev = IF j = 1 THEN Nil ELSE q[j - 1]
        /\ b.orders[x].next = IF j = n THEN Nil ELSE q[j + 1]
    BY <1>1, <1>2, <2>2 DEF LinkedForm, LinksMatch
  <2>7. k \in 1 .. n /\ i \in 1 .. n - 1
    BY <1>1, <1>2
  <2>8. d.orders[x].prev = IF i = 1 THEN Nil ELSE v2.fifo[l][i - 1]
    <3>1. CASE i < k
      <4>1. j = i /\ j # k + 1
        BY <2>1, <2>7, <3>1
      <4>2. i # 1 => v2.fifo[l][i - 1] = q[i - 1]
        <5>1. i # 1 => i - 1 \in 1 .. n - 1 /\ i - 1 < k
          BY <2>7, <3>1
        <5> QED BY <1>3, <5>1
      <4> QED BY <2>5, <2>6, <4>1, <4>2
    <3>2. CASE i = k
      <4>1. j = k + 1
        BY <2>1, <2>7, <3>2
      <4>2. i # 1 => v2.fifo[l][i - 1] = q[i - 1]
        <5>1. i # 1 => i - 1 \in 1 .. n - 1 /\ i - 1 < k
          BY <2>7, <3>2
        <5> QED BY <1>3, <5>1
      <4> QED BY <1>4, <2>5, <3>2, <4>1, <4>2
    <3>3. CASE i > k
      <4>1. j = i + 1 /\ j # k + 1 /\ j # 1 /\ j - 1 = i /\ i # 1
        BY <2>1, <2>7, <3>3
      <4>2. v2.fifo[l][i - 1] = q[i]
        <5>1. i - 1 \in 1 .. n - 1 /\ ~(i - 1 < k) /\ (i - 1) + 1 = i
          BY <2>7, <3>3
        <5> QED BY <1>3, <5>1
      <4> QED BY <2>5, <2>6, <4>1, <4>2
    <3> QED BY <2>7, <3>1, <3>2, <3>3
  <2>9. d.orders[x].next = IF i = n - 1 THEN Nil ELSE v2.fifo[l][i + 1]
    <3>1. CASE i < k - 1
      <4>1. j = i /\ j # k - 1 /\ j # n /\ i # n - 1
        BY <2>1, <2>7, <3>1
      <4>2. v2.fifo[l][i + 1] = q[i + 1]
        <5>1. i + 1 \in 1 .. n - 1 /\ i + 1 < k
          BY <2>7, <3>1
        <5> QED BY <1>3, <5>1
      <4> QED BY <2>5, <2>6, <4>1, <4>2
    <3>2. CASE i = k - 1
      <4>1. j = k - 1 /\ (k = n <=> i = n - 1)
        BY <2>1, <2>7, <3>2
      <4>2. i # n - 1 => v2.fifo[l][i + 1] = q[k + 1]
        <5>1. i # n - 1 => i + 1 \in 1 .. n - 1 /\ ~(i + 1 < k) /\ (i + 1) + 1 = k + 1
          BY <2>7, <3>2
        <5> QED BY <1>3, <5>1
      <4> QED BY <1>4, <2>5, <4>1, <4>2
    <3>3. CASE i > k - 1
      <4>1. j = i + 1 /\ j # k - 1 /\ (j = n <=> i = n - 1)
        BY <2>1, <2>7, <3>3
      <4>2. i # n - 1 => v2.fifo[l][i + 1] = q[j + 1]
        <5>1. i # n - 1 => i + 1 \in 1 .. n - 1 /\ ~(i + 1 < k) /\ (i + 1) + 1 = j + 1
          BY <2>7, <3>3, <4>1
        <5> QED BY <1>3, <5>1
      <4> QED BY <2>5, <2>6, <4>1, <4>2
    <3> QED BY <2>7, <3>1, <3>2, <3>3
  <2> QED BY <2>3, <2>8, <2>9
<1>7. ASSUME NEW m \in Levels, NEW i \in 1 .. Len(v2.fifo[m])
      PROVE  /\ d.orders[v2.fifo[m][i]].prev = IF i = 1 THEN Nil ELSE v2.fifo[m][i - 1]
             /\ d.orders[v2.fifo[m][i]].next
                  = IF i = Len(v2.fifo[m]) THEN Nil ELSE v2.fifo[m][i + 1]
  <2>1. CASE m # l
    BY <1>5, <2>1
  <2>2. CASE m = l
    BY <1>3, <1>6, <2>2
  <2> QED BY <2>1, <2>2
<1> QED BY <1>7 DEF LinksMatch, v2

\* The level after one of several orders has left it.
LEMMA LevelAfterRemoval ==
  ASSUME NEW b, NEW v, LinkedForm(b, v), NEW id, NEW s, NEW p, NEW k, Stands(v, id, s, p, k),
         NEW r, LevelIs(r, v, <<s, p>>), r.count # 1, NEW r2, LevelCut(r, r2, b.orders[id]),
         id \in DOMAIN v.orders
  PROVE  LevelIs(r2, Remove(v, id), <<s, p>>)
<1> DEFINE l == <<s, p>>
           q == v.fifo[l]
           v2 == Remove(v, id)
           oe == b.orders[id]
<1>1. l \in Levels /\ k \in 1 .. Len(q) /\ q[k] = id /\ IsBook(v) /\ LevelOf(v.orders[id]) = l
  BY DEF Stands, LinkedForm
<1>2. PICK n \in Nat : n = Len(q)
  BY <1>1, FifoIs
<1>3. v2.orders = Drop(v.orders, id) /\ FifoCut(v, v2, l, k)
  <2>1. Remove(v, q[k]).orders = Drop(v.orders, q[k]) /\ FifoCut(v, Remove(v, q[k]), l, k)
    <3> HIDE DEF l
    <3> QED BY <1>1, RemovedBook
  <2> QED BY <1>1, <2>1
<1>4. /\ oe.prev = IF k = 1 THEN Nil ELSE q[k - 1]
      /\ oe.next = IF k = n THEN Nil ELSE q[k + 1]
  <2>1. /\ oe.prev = IF k = 1 THEN Nil ELSE q[k - 1]
        /\ oe.next = IF k = Len(q) THEN Nil ELSE q[k + 1]
    <3>1. Between(v, l, k, oe)
      BY Neighbours
    <3> HIDE DEF l, oe
    <3> QED BY <3>1, Zenon DEF Between
  <2> HIDE DEF l, q, oe
  <2> QED BY <1>2, <2>1
<1>5. oe.quantity = v.orders[id].size
  BY DEF LinkedForm, EntriesMatch
<1> HIDE DEF v2, l, oe
<1>6. Len(v2.fifo[l]) = n - 1
      /\ \A i \in 1 .. n - 1 : v2.fifo[l][i] = IF i < k THEN q[i] ELSE q[i + 1]
  BY <1>2, <1>3 DEF FifoCut
<1>7. r.front = q[1] /\ r.back = q[n] /\ r.count = n /\ r.total = Rests(v.orders)[l]
  BY <1>2 DEF LevelIs, l
<1>8. k \in 1 .. n /\ n # 1 /\ 1 \in 1 .. n - 1 /\ n - 1 \in 1 .. n - 1
  <2>1. n # 1
    BY <1>7
  <2>2. k \in 1 .. n
    BY <1>1, <1>2
  <2> QED BY <2>1, <2>2
<1>9. \A j \in 1 .. n : q[j] # Nil
  BY <1>1, <1>2, FifoIs
<1> HIDE DEF q
<1>10. r2.front = v2.fifo[l][1]
  <2>1. r2.front = IF oe.prev = Nil THEN oe.next ELSE r.front
    BY DEF LevelCut, oe
  <2>2. CASE k = 1
    BY <1>4, <1>6, <1>8, <2>1, <2>2
  <2>3. CASE k # 1
    <3>1. k - 1 \in 1 .. n /\ 1 < k
      BY <1>8, <2>3
    <3> QED BY <1>4, <1>6, <1>7, <1>8, <1>9, <2>1, <2>3, <3>1
  <2> QED BY <2>2, <2>3
<1>11. r2.back = v2.fifo[l][n - 1]
  <2>1. r2.back = IF oe.next = Nil THEN oe.prev ELSE r.back
    BY DEF LevelCut, oe
  <2>2. CASE k = n
    <3>1. n - 1 < k /\ k # 1 /\ k - 1 = n - 1
      BY <1>8, <2>2
    <3> QED BY <1>4, <1>6, <1>8, <2>1, <2>2, <3>1
  <2>3. CASE k # n
    <3>1. k + 1 \in 1 .. n /\ ~(n - 1 < k) /\ (n - 1) + 1 = n
      BY <1>8, <2>3
    <3>2. v2.fifo[l][n - 1] = q[n]
      BY <1>6, <1>8, <3>1
    <3> QED BY <1>4, <1>7, <1>9, <2>1, <2>3, <3>1, <3>2
  <2> QED BY <2>2, <2>3
<1>12. r2.total = Rests(v2.orders)[l]
  <2>1. IsOrders(v.orders)
    BY <1>1 DEF IsBook
  <2>2. Rests(v2.orders)[l] = Rests(v.orders)[l] - v.orders[id].size
    BY <1>1, <1>3, <2>1, RestsLeft, OrdersAre
  <2> QED BY <1>5, <1>7, <2>2 DEF LevelCut, oe
<1>13. r2.count = n - 1
  BY <1>7 DEF LevelCut
<1> QED BY <1>6, <1>10, <1>11, <1>12, <1>13 DEF LevelIs, v2, l

\* destroy_order does to the linked form what Remove does to the book.
LEMMA Destroyed ==
  ASSUME NEW b, NEW v, LinkedForm(b, v), NEW id \in DOMAIN b.orders
  PROVE  LinkedForm(destroy_order(b, id), Remove(v, id))
<1>1. IsBook(v) /\ id \in DOMAIN v.orders
  BY DEF LinkedForm, EntriesMatch
<1>2. PICK s \in Side, p \in Prices : \E k \in 1 .. Len(v.fifo[<<s, p>>]) : Stands(v, id, s, p, k)
  BY <1>1, StandsSomewhere
<1>3. PICK k \in 1 .. Len(v.fifo[<<s, p>>]) : Stands(v, id, s, p, k)
  BY <1>2
<1> DEFINE l == <<s, p>>
           d == destroy_order(b, id)
           v2 == Remove(v, id)
           r == b.levels[s][p]
<1>4. l \in Levels /\ k \in 1 .. Len(v.fifo[l]) /\ v.fifo[l][k] = id /\ LevelOf(v.orders[id]) = l
  BY <1>3 DEF Stands
<1>5. PICK n \in Nat : n = Len(v.fifo[l])
  BY <1>1, <1>4, FifoIs
<1>6. n # 0
  BY <1>4, <1>5
<1>7. p \in Shown(v, s) /\ p \in DOMAIN b.levels[s] /\ LevelIs(r, v, l)
  <2>1. p \in Shown(v, s)
    BY <1>1, <1>5, <1>6, ShownIs
  <2> QED BY <2>1 DEF LinkedForm, LevelsMatch
<1>8. r.count = n
  BY <1>5, <1>7 DEF LevelIs
<1>9. b.orders[id].side = s /\ b.orders[id].price = p
  BY <1>1, <1>3 DEF Stands, LinkedForm, EntriesMatch
<1>10. /\ IsLinked(d) /\ Elsewhere(b.levels, d.levels, s, p)
       /\ DOMAIN d.orders = DOMAIN b.orders \ {id} /\ Skips(b.orders, d.orders, id)
       /\ n = 1 => LevelGone(b, d, s, p)
       /\ n # 1 => /\ p \in DOMAIN d.levels[s] /\ d.tree = b.tree /\ d.best = b.best
                   /\ LevelCut(r, d.levels[s][p], b.orders[id])
  BY <1>7, <1>8, <1>9, DestroyIs DEF LinkedForm
<1> HIDE DEF d
<1>11. IsBook(v2) /\ v2.orders = Drop(v.orders, id) /\ FifoCut(v, v2, l, k)
  <2>1. LET x == v.fifo[l][k]
        IN  /\ IsBook(Remove(v, x)) /\ Remove(v, x).orders = Drop(v.orders, x)
            /\ FifoCut(v, Remove(v, x), l, k)
    <3> HIDE DEF l
    <3> QED BY <1>1, <1>4, RemovedBook
  <2> QED BY <1>4, <2>1
<1> HIDE DEF v2, l, r
<1>12. /\ \A m \in Levels \ {l} : v2.fifo[m] = v.fifo[m] /\ Rests(v2.orders)[m] = Rests(v.orders)[m]
       /\ Len(v2.fifo[l]) = n - 1
  <2>1. IsOrders(v.orders)
    BY <1>1 DEF IsBook
  <2>2. Rests(v.orders) \in [Levels -> Nat]
    BY <2>1, RestsAreNat, OrdersAre
  <2>3. \A m \in Levels \ {l} : Rests(v2.orders)[m] = Rests(v.orders)[m] - 0
    BY <1>1, <1>4, <1>11, <2>1, RestsLeft, OrdersAre
  <2>4. \A m \in Levels \ {l} : Rests(v2.orders)[m] = Rests(v.orders)[m]
    BY <2>2, <2>3
  <2> QED BY <1>5, <1>11, <2>4 DEF FifoCut
<1>13. /\ \A t \in Side \ {s} : Shown(v2, t) = Shown(v, t)
       /\ Shown(v2, s) = IF n = 1 THEN Shown(v, s) \ {p} ELSE Shown(v, s)
  <2>1. ASSUME NEW t \in Side, NEW x \in Prices, <<t, x>> # l
        PROVE  x \in Shown(v2, t) <=> x \in Shown(v, t)
    <3>1. v2.fifo[<<t, x>>] = v.fifo[<<t, x>>]
      BY <1>12, <2>1 DEF Levels
    <3> QED BY <3>1 DEF Shown
  <2>2. p \in Shown(v2, s) <=> n # 1
    <3>1. p \in Shown(v2, s) <=> n - 1 # 0
      BY <1>11, <1>12, ShownIs DEF l
    <3> QED BY <3>1
  <2>3. \A t \in Side : Shown(v2, t) \subseteq Prices /\ Shown(v, t) \subseteq Prices
    BY DEF Shown
  <2>4. \A t \in Side, x \in Prices : <<t, x>> = l <=> (t = s /\ x = p)
    BY DEF l
  <2>5. ASSUME NEW t \in Side \ {s} PROVE Shown(v2, t) = Shown(v, t)
    BY <2>1, <2>3, <2>4
  <2>6. \A x \in Prices \ {p} : x \in Shown(v2, s) <=> x \in Shown(v, s)
    BY <2>1, <2>4
  <2>7. Shown(v2, s) \ {p} = Shown(v, s) \ {p}
    BY <2>3, <2>6
  <2>8. Shown(v2, s) = IF n = 1 THEN Shown(v, s) \ {p} ELSE Shown(v, s)
    <3>1. PICK A, B : A = Shown(v2, s) /\ B = Shown(v, s)
      OBVIOUS
    <3>2. A \ {p} = B \ {p} /\ p \in B /\ (p \in A <=> n # 1)
      BY <1>7, <2>2, <2>7, <3>1
    <3>3. CASE n = 1
      <4>1. A = B \ {p}
        BY <3>2, <3>3
      <4> QED BY <3>1, <3>3, <4>1
    <3>4. CASE n # 1
      <4>1. A = B
        <5>1. p \in A /\ p \in B /\ \A x : x \in A \ {p} <=> x \in B \ {p}
          BY <3>2, <3>4
        <5>2. \A x : x \in A <=> x \in B
          BY <5>1
        <5> QED BY <5>2
      <4> QED BY <3>1, <3>4, <4>1
    <3> QED BY <3>3, <3>4
  <2> QED BY <2>5, <2>8
<1>14. EntriesMatch(d, v2)
  BY <1>1, <1>10, <1>11 DEF LinkedForm, EntriesMatch, Skips, Drop
<1>15. LinksMatch(d, v2)
  BY <1>3, <1>10, LinksAfterRemoval DEF v2
<1>16. LevelsMatch(d, v2)
  <2>1. \A t \in Side : DOMAIN b.levels[t] = Shown(v, t)
    BY DEF LinkedForm, LevelsMatch
  <2>2. ASSUME NEW t \in Side PROVE DOMAIN d.levels[t] = Shown(v2, t)
    <3>1. CASE t # s
      BY <1>10, <1>13, <2>1, <3>1 DEF Elsewhere
    <3>2. CASE t = s /\ n = 1
      <4>1. p \notin DOMAIN d.levels[s]
        BY <1>10, <3>2 DEF LevelGone
      <4> QED BY <1>10, <1>13, <2>1, <3>2, <4>1 DEF Elsewhere
    <3>3. CASE t = s /\ n # 1
      BY <1>7, <1>10, <1>13, <2>1, <3>3 DEF Elsewhere
    <3> QED BY <3>1, <3>2, <3>3
  <2>3. ASSUME NEW t \in Side, NEW x \in Shown(v2, t)
        PROVE  LevelIs(d.levels[t][x], v2, <<t, x>>)
    <3>1. x \in Shown(v, t) /\ x \in Prices /\ <<t, x>> \in Levels
      BY <1>13 DEF Shown, Levels
    <3>2. CASE <<t, x>> # l
      <4>1. d.levels[t][x] = b.levels[t][x]
        <5>1. t # s \/ x # p
          BY <3>2 DEF l
        <5> QED BY <1>10, <2>1, <3>1, <5>1 DEF Elsewhere
      <4>2. LevelIs(b.levels[t][x], v, <<t, x>>)
        BY <3>1 DEF LinkedForm, LevelsMatch
      <4>3. PICK m \in Levels \ {l} : m = <<t, x>>
        BY <3>1, <3>2
      <4>4. v2.fifo[m] = v.fifo[m] /\ Rests(v2.orders)[m] = Rests(v.orders)[m]
        BY <1>12
      <4>5. LevelIs(b.levels[t][x], v2, m)
        BY <4>2, <4>3, <4>4 DEF LevelIs
      <4> QED BY <4>1, <4>3, <4>5
    <3>3. CASE <<t, x>> = l
      <4>1. t = s /\ x = p
        BY <3>3 DEF l
      <4>2. n # 1
        BY <1>13, <2>3, <4>1
      <4>3. LevelCut(r, d.levels[s][p], b.orders[id])
        BY <1>10, <4>2
      <4>4. LevelIs(d.levels[s][p], v2, <<s, p>>)
        BY <1>1, <1>3, <1>7, <1>8, <4>2, <4>3, LevelAfterRemoval DEF v2, l
      <4> QED BY <4>1, <4>4
    <3> QED BY <3>2, <3>3
  <2> QED BY <2>2, <2>3 DEF LevelsMatch
<1>17. PricesMatch(d, v2)
  <2>1. DOMAIN b.tree = Side /\ DOMAIN b.best = Side
    BY DEF LinkedForm, IsLinked
  <2>2. \A t \in Side : b.tree[t] = Shown(v, t) /\ b.best[t] = Best(t, Shown(v, t))
    BY DEF LinkedForm, PricesMatch
  <2>3. CASE n # 1
    BY <1>10, <1>13, <2>2, <2>3 DEF PricesMatch
  <2>4. CASE n = 1
    <3>1. /\ d.tree = [b.tree EXCEPT ![s] = b.tree[s] \ {p}]
          /\ d.best = [b.best EXCEPT ![s] = IF b.best[s] = p THEN Best(s, b.tree[s] \ {p})
                                                             ELSE b.best[s]]
      BY <1>10, <2>4 DEF LevelGone
    <3>2. d.tree[s] = Shown(v2, s) /\ d.best[s] = Best(s, Shown(v2, s))
      <4>1. d.tree[s] = Shown(v2, s)
        BY <1>13, <2>1, <2>2, <2>4, <3>1
      <4>2. PICK P : P = Shown(v, s)
        OBVIOUS
      <4>3. IsFiniteSet(P) /\ P \subseteq Prices /\ p \in P
        BY <1>1, <1>7, <4>2, ShownIsFinite DEF Shown
      <4>4. Best(s, P \ {p}) = IF Best(s, P) = p THEN Best(s, P \ {p}) ELSE Best(s, P)
        BY <4>3, BestWithout
      <4>5. d.best[s] = IF Best(s, P) = p THEN Best(s, P \ {p}) ELSE Best(s, P)
        BY <2>1, <2>2, <3>1, <4>2
      <4>6. Shown(v2, s) = P \ {p}
        BY <1>13, <2>4, <4>2
      <4> QED BY <4>1, <4>4, <4>5, <4>6
    <3>3. \A t \in Side \ {s} : d.tree[t] = Shown(v2, t) /\ d.best[t] = Best(t, Shown(v2, t))
      BY <1>13, <2>1, <2>2, <3>1
    <3> QED BY <3>2, <3>3 DEF PricesMatch
  <2> QED BY <2>3, <2>4
<1> QED BY <1>10, <1>11, <1>14, <1>15, <1>16, <1>17 DEF LinkedForm, d, v2
-----------------------------------------------------------------------------
(* An order is resized *)

LEMMA RestsResized ==
  ASSUME NEW v, IsBook(v), NEW id \in DOMAIN v.orders, NEW n \in Nat
  PROVE  /\ Rests(v.orders) \in [Levels -> Nat] /\ v.orders[id].size \in Nat
         /\ \A m \in Levels : Rests(Resize(v, id, n).orders)[m]
              = IF m = LevelOf(v.orders[id]) THEN Rests(v.orders)[m] - v.orders[id].size + n
                                             ELSE Rests(v.orders)[m]
<1> DEFINE f == v.orders
           o == f[id]
           g == Drop(f, id)
           cut == [side |-> o.side, price |-> o.price, size |-> n]
           h == Resize(v, id, n).orders
<1>1. o \in Order /\ cut \in Order /\ LevelOf(cut) = LevelOf(o) /\ h = Set(g, id, cut)
  <2>1. ResizedTo(v, Resize(v, id, n), id, n)
    BY ResizedBook
  <2> QED BY <2>1, Zenon DEF ResizedTo
<1>2. IsOrders(f)
  BY DEF IsBook
<1>3. IsOrders(g) /\ id \notin DOMAIN g
  <2>1. IsFiniteSet(DOMAIN g)
    BY <1>2, FS_Subset DEF Drop, IsOrders
  <2> QED BY <1>2, <2>1 DEF IsOrders, Drop
<1>4. /\ Rests(f) \in [Levels -> Nat] /\ Rests(g) \in [Levels -> Nat]
      /\ \A m \in Levels : Rests(g)[m] = Rests(f)[m] - IF m = LevelOf(o) THEN o.size ELSE 0
  BY <1>2, RestsLeft, OrdersAre
<1>5. cut.size = n
  OBVIOUS
<1> HIDE DEF g, cut, h
<1>6. \A m \in Levels : Rests(h)[m] = Rests(g)[m] + IF m = LevelOf(o) THEN n ELSE 0
  BY <1>1, <1>3, <1>5, RestsEntered, OrdersAre
<1>7. o.size \in Nat
  BY <1>1 DEF Order
<1>8. ASSUME NEW m \in Levels
      PROVE  Rests(h)[m] = IF m = LevelOf(o) THEN Rests(f)[m] - o.size + n ELSE Rests(f)[m]
  <2>1. PICK x \in Nat, y \in Nat : x = Rests(f)[m] /\ y = Rests(g)[m]
    BY <1>4
  <2>2. CASE m = LevelOf(o)
    BY <1>4, <1>6, <1>7, <2>1, <2>2
  <2>3. CASE m # LevelOf(o)
    BY <1>4, <1>6, <2>1, <2>3
  <2> QED BY <2>2, <2>3
<1> QED BY <1>4, <1>7, <1>8 DEF h

\* The total of the level and the quantity of the order, as cancel_order and
\* modify_order assign them, are those of the book with the order resized.
LEMMA Resized ==
  ASSUME NEW b, NEW v, LinkedForm(b, v), NEW id \in DOMAIN b.orders, NEW n \in Nat,
         NEW s, NEW p, s = b.orders[id].side, p = b.orders[id].price, NEW t,
         t = b.levels[s][p].total - b.orders[id].quantity + n
  PROVE  LinkedForm([b EXCEPT !.levels[s][p].total = t, !.orders[id].quantity = n],
                    Resize(v, id, n))
<1> DEFINE d == [b EXCEPT !.levels[s][p].total = t, !.orders[id].quantity = n]
           v2 == Resize(v, id, n)
           l == <<s, p>>
           r == b.levels[s][p]
           o == v.orders[id]
<1>1. IsBook(v) /\ id \in DOMAIN v.orders /\ IsLinked(b)
  BY Zenon DEF LinkedForm, EntriesMatch
<1>2. /\ s \in Side /\ p \in Prices /\ l \in Levels /\ LevelOf(o) = l /\ Len(v.fifo[l]) # 0
  <2>1. PICK s1 \in Side, p1 \in Prices :
          \E k \in 1 .. Len(v.fifo[<<s1, p1>>]) : Stands(v, id, s1, p1, k)
    BY <1>1, StandsSomewhere
  <2>2. PICK k \in 1 .. Len(v.fifo[<<s1, p1>>]) : Stands(v, id, s1, p1, k)
    BY <2>1, Zenon
  <2>3. s1 = s /\ p1 = p
    BY <1>1, <2>2, Zenon DEF Stands, LinkedForm, EntriesMatch
  <2>4. s \in Side /\ p \in Prices /\ l \in Levels /\ LevelOf(o) = l /\ k \in 1 .. Len(v.fifo[l])
    BY <2>2, <2>3, Zenon DEF Stands
  <2> HIDE DEF l, o, r, d, v2
  <2>5. PICK m \in Nat : m = Len(v.fifo[l])
    <3>1. Len(v.fifo[l]) \in Nat
      BY <1>1, <2>4, FifoIs, Zenon
    <3> QED BY <3>1, Zenon
  <2>6. k \in 1 .. m
    BY <2>4, <2>5, Zenon
  <2>7. m # 0
    BY <2>6
  <2> QED BY <2>4, <2>5, <2>7, Zenon
<1>3. p \in DOMAIN b.levels[s] /\ LevelIs(r, v, l) /\ p \in Shown(v, s)
  <2>1. p \in Shown(v, s)
    BY <1>1, <1>2, ShownIs, Zenon
  <2> QED BY <1>2, <2>1, Zenon DEF LinkedForm, LevelsMatch
<1>4. /\ IsBook(v2) /\ v2.fifo = v.fifo /\ DOMAIN v2.orders = DOMAIN v.orders
      /\ v2.orders[id] = [side |-> o.side, price |-> o.price, size |-> n]
      /\ \A x \in DOMAIN v.orders \ {id} : v2.orders[x] = v.orders[x]
  <2>1. ResizedTo(v, Resize(v, id, n), id, n)
    BY <1>1, ResizedBook
  <2> QED BY <2>1, Zenon DEF ResizedTo
<1>5. /\ Rests(v.orders) \in [Levels -> Nat] /\ o.size \in Nat
      /\ \A m \in Levels : Rests(v2.orders)[m]
           = IF m = LevelOf(o) THEN Rests(v.orders)[m] - o.size + n ELSE Rests(v.orders)[m]
  BY <1>1, RestsResized
<1>6. /\ DOMAIN d = DOMAIN b /\ d.tree = b.tree /\ d.best = b.best
      /\ d.levels = [b.levels EXCEPT ![s][p].total = t]
  BY <1>1 DEF IsLinked
<1>7. d.orders = [b.orders EXCEPT ![id].quantity = n]
  BY <1>1, Zenon DEF IsLinked
<1> HIDE DEF d, v2, l
<1>8. /\ DOMAIN d.orders = DOMAIN b.orders /\ DOMAIN d.orders[id] = DOMAIN b.orders[id]
      /\ \A x \in DOMAIN b.orders \ {id} : d.orders[x] = b.orders[x]
      /\ d.orders[id].side = s /\ d.orders[id].price = p /\ d.orders[id].quantity = n
      /\ d.orders[id].prev = b.orders[id].prev /\ d.orders[id].next = b.orders[id].next
  <2>1. DOMAIN b.orders[id] = {"side", "price", "quantity", "prev", "next"}
    BY <1>1 DEF IsLinked, AreEntries
  <2>2. d.orders[id] = [b.orders[id] EXCEPT !.quantity = n]
    BY <1>7
  <2> QED BY <1>7, <2>1, <2>2, Zenon
<1>9. Assigned(b.levels, d.levels, s, p, "total", t)
  <2>1. AreLevels(b.levels)
    BY <1>1 DEF IsLinked
  <2>2. Assigned(b.levels, [b.levels EXCEPT ![s][p].total = t], s, p, "total", t)
    BY <1>2, <1>3, <2>1, AssignedIs, Zenon
  <2> QED BY <1>6, <2>2, Zenon
<1>10. /\ AreLevels(d.levels) /\ Elsewhere(b.levels, d.levels, s, p) /\ p \in DOMAIN d.levels[s]
       /\ d.levels[s][p].total = t /\ d.levels[s][p].front = r.front
       /\ d.levels[s][p].back = r.back /\ d.levels[s][p].count = r.count
  BY <1>9, Zenon DEF Assigned
<1>11. IsLinked(d)
  <2>1. AreEntries(d.orders)
    <3>1. AreEntries(b.orders)
      BY <1>1, Zenon DEF IsLinked
    <3> QED BY <1>8, <3>1, Zenon DEF AreEntries
  <2> QED BY <1>1, <1>6, <1>10, <2>1, Zenon DEF IsLinked
<1>12. EntriesMatch(d, v2)
  <2>1. EntriesMatch(b, v)
    BY Zenon DEF LinkedForm
  <2>2. DOMAIN d.orders = DOMAIN v2.orders
    BY <1>4, <1>8, <2>1, Zenon DEF EntriesMatch
  <2>3. ASSUME NEW x \in DOMAIN v2.orders
        PROVE  /\ d.orders[x].side = v2.orders[x].side /\ d.orders[x].price = v2.orders[x].price
               /\ d.orders[x].quantity = v2.orders[x].size
    <3>1. CASE x = id
      <4>1. v2.orders[id].side = o.side /\ v2.orders[id].price = o.price /\ v2.orders[id].size = n
        <5> HIDE DEF o
        <5> QED BY <1>4
      <4>2. o.side = s /\ o.price = p
        BY <1>1, <2>1, Zenon DEF EntriesMatch
      <4> QED BY <1>8, <3>1, <4>1, <4>2, Zenon
    <3>2. CASE x # id
      <4>1. d.orders[x] = b.orders[x] /\ v2.orders[x] = v.orders[x]
        BY <1>4, <1>8, <2>2, <3>2, Zenon
      <4> QED BY <1>4, <2>1, <4>1, Zenon DEF EntriesMatch
    <3> QED BY <3>1, <3>2, Zenon
  <2> QED BY <2>2, <2>3, Zenon DEF EntriesMatch
<1>13. LinksMatch(d, v2)
  <2>1. ASSUME NEW m \in Levels, NEW i \in 1 .. Len(v.fifo[m])
        PROVE  /\ d.orders[v.fifo[m][i]].prev = b.orders[v.fifo[m][i]].prev
               /\ d.orders[v.fifo[m][i]].next = b.orders[v.fifo[m][i]].next
    <3>1. v.fifo[m][i] \in DOMAIN b.orders
      BY <1>1, FifoIs, Zenon DEF LinkedForm, EntriesMatch
    <3> QED BY <1>8, <3>1, Zenon
  <2>2. ASSUME NEW m \in Levels, NEW i \in 1 .. Len(v2.fifo[m])
        PROVE  /\ d.orders[v2.fifo[m][i]].prev = IF i = 1 THEN Nil ELSE v2.fifo[m][i - 1]
               /\ d.orders[v2.fifo[m][i]].next
                    = IF i = Len(v2.fifo[m]) THEN Nil ELSE v2.fifo[m][i + 1]
    <3>1. i \in 1 .. Len(v.fifo[m])
      BY <1>4
    <3>2. /\ b.orders[v.fifo[m][i]].prev = IF i = 1 THEN Nil ELSE v.fifo[m][i - 1]
          /\ b.orders[v.fifo[m][i]].next = IF i = Len(v.fifo[m]) THEN Nil ELSE v.fifo[m][i + 1]
      BY <3>1, Zenon DEF LinkedForm, LinksMatch
    <3> QED BY <1>4, <2>1, <3>1, <3>2, Zenon
  <2> QED BY <2>2, Zenon DEF LinksMatch
<1>14. \A x \in Side : Shown(v2, x) = Shown(v, x)
  BY <1>4 DEF Shown
<1>15. LevelsMatch(d, v2)
  <2>1. \A x \in Side : DOMAIN b.levels[x] = Shown(v, x)
    BY DEF LinkedForm, LevelsMatch
  <2>2. ASSUME NEW x \in Side PROVE DOMAIN d.levels[x] = Shown(v2, x)
    <3>1. CASE x = s
      <4>1. DOMAIN d.levels[s] \ {p} = DOMAIN b.levels[s] \ {p}
        BY <1>10, Zenon DEF Elsewhere
      <4>2. DOMAIN d.levels[s] = DOMAIN b.levels[s]
        BY <1>3, <1>10, <4>1, Zenon
      <4> QED BY <1>14, <2>1, <3>1, <4>2, Zenon
    <3>2. CASE x # s
      <4>1. d.levels[x] = b.levels[x]
        BY <1>10, <3>2, Zenon DEF Elsewhere
      <4> QED BY <1>14, <2>1, <4>1, Zenon
    <3> QED BY <3>1, <3>2, Zenon
  <2>3. ASSUME NEW x \in Side, NEW y \in Shown(v2, x)
        PROVE  LevelIs(d.levels[x][y], v2, <<x, y>>)
    <3>1. y \in Shown(v, x) /\ <<x, y>> \in Levels
      BY <1>14 DEF Shown, Levels
    <3>2. LevelIs(b.levels[x][y], v, <<x, y>>)
      BY <3>1 DEF LinkedForm, LevelsMatch
    <3>3. CASE <<x, y>> # l
      <4>1. d.levels[x][y] = b.levels[x][y]
        <5>1. x # s \/ y # p
          BY <3>3 DEF l
        <5> QED BY <1>10, <2>1, <3>1, <5>1, Zenon DEF Elsewhere
      <4>2. PICK m \in Levels \ {l} : m = <<x, y>>
        BY <3>1, <3>3
      <4>3. Rests(v2.orders)[m] = Rests(v.orders)[m]
        BY <1>2, <1>5
      <4> QED BY <1>4, <3>2, <4>1, <4>2, <4>3, Zenon DEF LevelIs
    <3>4. CASE <<x, y>> = l
      <4>1. x = s /\ y = p
        BY <3>4 DEF l
      <4>2. Rests(v2.orders)[l] = Rests(v.orders)[l] - o.size + n
        BY <1>2, <1>5
      <4>3. b.orders[id].quantity = o.size
        BY <1>1 DEF LinkedForm, EntriesMatch
      <4>4. t = Rests(v2.orders)[l]
        BY <1>3, <4>2, <4>3 DEF LevelIs
      <4> QED BY <1>3, <1>4, <1>10, <3>4, <4>1, <4>4, Zenon DEF LevelIs
    <3> QED BY <3>3, <3>4
  <2> QED BY <2>2, <2>3 DEF LevelsMatch
<1>16. PricesMatch(d, v2)
  BY <1>6, <1>14, Zenon DEF LinkedForm, PricesMatch
<1> QED BY <1>4, <1>11, <1>12, <1>13, <1>15, <1>16, Zenon DEF LinkedForm, d, v2
-----------------------------------------------------------------------------
(* An order joins *)

\* with_level created the level.
LevelNew(b, c, s, p) ==
  /\ c.levels[s][p] = NewLevel
  /\ c.tree = [b.tree EXCEPT ![s] = b.tree[s] \union {p}]
  /\ c.best = [b.best EXCEPT ![s] = IF \/ b.best[s] = Undef
                                       \/ s = "Buy" /\ p > b.best[s]
                                       \/ s = "Sell" /\ p < b.best[s]
                                    THEN p ELSE b.best[s]]

\* with_level, all its assignments together.
LEMMA WithLevelIs ==
  ASSUME NEW b, IsLinked(b), NEW s \in Side, NEW p
  PROVE  /\ IsLinked(with_level(b, s, p)) /\ with_level(b, s, p).orders = b.orders
         /\ Elsewhere(b.levels, with_level(b, s, p).levels, s, p)
         /\ p \in DOMAIN with_level(b, s, p).levels[s]
         /\ p \in DOMAIN b.levels[s] => with_level(b, s, p) = b
         /\ p \notin DOMAIN b.levels[s] => LevelNew(b, with_level(b, s, p), s, p)
<1> DEFINE c == with_level(b, s, p)
<1>1. CASE p \in DOMAIN b.levels[s]
  <2>1. c = b
    BY <1>1 DEF with_level
  <2>2. Elsewhere(b.levels, b.levels, s, p)
    BY DEF Elsewhere
  <2> HIDE DEF c
  <2> QED BY <1>1, <2>1, <2>2 DEF c
<1>2. CASE p \notin DOMAIN b.levels[s]
  <2>1. DOMAIN c = DOMAIN b /\ c.orders = b.orders
    BY <1>2, Zenon DEF with_level, IsLinked
  <2>2. c.tree = [b.tree EXCEPT ![s] = b.tree[s] \union {p}]
    BY <1>2, Zenon DEF with_level, IsLinked
  <2>3. c.best = [b.best EXCEPT ![s] = IF \/ b.best[s] = Undef
                                          \/ s = "Buy" /\ p > b.best[s]
                                          \/ s = "Sell" /\ p < b.best[s]
                                       THEN p ELSE b.best[s]]
    BY <1>2, Zenon DEF with_level, IsLinked
  <2>4. c.levels = [b.levels EXCEPT ![s] = Set(b.levels[s], p, NewLevel)]
    BY <1>2 DEF with_level, IsLinked
  <2> HIDE DEF c
  <2>5. DOMAIN b.levels = Side
    BY DEF IsLinked, AreLevels
  <2>6. /\ DOMAIN c.levels = Side /\ \A t \in Side \ {s} : c.levels[t] = b.levels[t]
        /\ c.levels[s] = Set(b.levels[s], p, NewLevel)
    BY <2>4, <2>5
  <2>7. /\ DOMAIN c.levels[s] = DOMAIN b.levels[s] \union {p} /\ c.levels[s][p] = NewLevel
        /\ \A q \in DOMAIN b.levels[s] : c.levels[s][q] = b.levels[s][q]
    BY <1>2, <2>6 DEF Set
  <2>8. ASSUME NEW t \in Side, NEW q \in DOMAIN c.levels[t]
        PROVE  DOMAIN c.levels[t][q] = {"front", "back", "count", "total"}
    <3>1. CASE t = s /\ q = p
      BY <2>7, <3>1 DEF NewLevel
    <3>2. CASE ~(t = s /\ q = p)
      <4>1. q \in DOMAIN b.levels[t] /\ c.levels[t][q] = b.levels[t][q]
        BY <2>6, <2>7, <3>2
      <4> QED BY <4>1 DEF IsLinked, AreLevels
    <3> QED BY <3>1, <3>2
  <2>9. AreLevels(c.levels)
    BY <2>6, <2>8 DEF AreLevels
  <2>10. DOMAIN c.tree = Side /\ DOMAIN c.best = Side
    BY <2>2, <2>3 DEF IsLinked
  <2>11. IsLinked(c)
    BY <2>1, <2>9, <2>10 DEF IsLinked
  <2>12. Elsewhere(b.levels, c.levels, s, p)
    BY <1>2, <2>6, <2>7 DEF Elsewhere
  <2>13. LevelNew(b, c, s, p)
    BY <2>2, <2>3, <2>7 DEF LevelNew
  <2> QED BY <1>2, <2>1, <2>7, <2>11, <2>12, <2>13, Zenon DEF c
<1> QED BY <1>1, <1>2

\* add_order once no order of that id rests.
Attached(b, e) ==
  LET c == with_level(b, e.side, e.price)
      back == c.levels[e.side][e.price].back
      oe == [side |-> e.side, price |-> e.price, quantity |-> e.size,
             prev |-> back, next |-> Nil]
      linked == IF back = Nil
                THEN [c EXCEPT !.levels[e.side][e.price].front = e.id]
                ELSE [c EXCEPT !.orders[back].next = e.id]
  IN  [linked EXCEPT !.orders = Set(@, e.id, oe),
                     !.levels[e.side][e.price].back = e.id,
                     !.levels[e.side][e.price].count = @ + 1,
                     !.levels[e.side][e.price].total = @ + e.size]

LEMMA AddIs ==
  ASSUME NEW b, NEW e, Placeable(e)
  PROVE  add_order(b, e) = Attached(cancel_order(b, e.id, 0), e)
BY Zenon DEF add_order, Attached

\* The entries of g are those of f, and the entry of id behind back.
Joins(f, g, id, back, s, p, n) ==
  /\ DOMAIN g = DOMAIN f \union {id}
  /\ g[id].side = s /\ g[id].price = p /\ g[id].quantity = n
  /\ g[id].prev = back /\ g[id].next = Nil
  /\ \A x \in DOMAIN f :
       /\ g[x].side = f[x].side /\ g[x].price = f[x].price /\ g[x].quantity = f[x].quantity
       /\ g[x].prev = f[x].prev
       /\ g[x].next = IF x = back THEN id ELSE f[x].next

\* The level r became q when id joined it.
LevelJoined(r, q, id, n) ==
  /\ q.front = IF r.back = Nil THEN id ELSE r.front
  /\ q.back = id /\ q.count = r.count + 1 /\ q.total = r.total + n

\* The level of d is that of c, with id in front if nothing stood there.
FrontSet(c, d, s, p, id, back) ==
  /\ DOMAIN d = DOMAIN c /\ d.tree = c.tree /\ d.best = c.best
  /\ AreLevels(d.levels) /\ Elsewhere(c.levels, d.levels, s, p)
  /\ p \in DOMAIN d.levels[s]
  /\ d.levels[s][p].front = IF back = Nil THEN id ELSE c.levels[s][p].front
  /\ \A h \in {"back", "count", "total"} : d.levels[s][p][h] = c.levels[s][p][h]

\* d is c with id linked behind back, or in front if there is none, and g are
\* the entries of d with that of id.
Linking(c, d, g, s, p, id, n, back) ==
  /\ d = IF back = Nil THEN [c EXCEPT !.levels[s][p].front = id]
                       ELSE [c EXCEPT !.orders[back].next = id]
  /\ g = Set(d.orders, id, [side |-> s, price |-> p, quantity |-> n,
                            prev |-> back, next |-> Nil])

\* The order is linked behind back, or in front if there is none: the entries
\* and the front of the level.
LEMMA LinkedIs ==
  ASSUME NEW c, IsLinked(c), NEW s \in Side, NEW p \in DOMAIN c.levels[s], NEW id,
         id \notin DOMAIN c.orders, Nil \notin DOMAIN c.orders, NEW n, NEW back, NEW d, NEW g,
         Linking(c, d, g, s, p, id, n, back)
  PROVE  FrontSet(c, d, s, p, id, back) /\ AreEntries(g) /\ Joins(c.orders, g, id, back, s, p, n)
<1> DEFINE oe == [side |-> s, price |-> p, quantity |-> n, prev |-> back, next |-> Nil]
<1>10. /\ d = IF back = Nil THEN [c EXCEPT !.levels[s][p].front = id]
                            ELSE [c EXCEPT !.orders[back].next = id]
       /\ g = Set(d.orders, id, oe)
  BY DEF Linking
<1>11. DOMAIN c = {"orders", "levels", "tree", "best"}
  BY DEF IsLinked
<1>1. DOMAIN d = DOMAIN c /\ d.tree = c.tree /\ d.best = c.best
  BY <1>10, <1>11
<1>2. /\ d.orders = IF back = Nil THEN c.orders ELSE [c.orders EXCEPT ![back].next = id]
      /\ d.levels = IF back = Nil THEN [c.levels EXCEPT ![s][p].front = id] ELSE c.levels
  <2>1. CASE back = Nil
    BY <1>10, <1>11, <2>1
  <2>2. CASE back # Nil
    BY <1>10, <1>11, <2>2
  <2> QED BY <2>1, <2>2
<1>3. AreLevels(c.levels)
  BY DEF IsLinked
<1>4. /\ AreLevels(d.levels) /\ Elsewhere(c.levels, d.levels, s, p)
      /\ p \in DOMAIN d.levels[s]
      /\ d.levels[s][p].front = IF back = Nil THEN id ELSE c.levels[s][p].front
      /\ \A h \in {"back", "count", "total"} : d.levels[s][p][h] = c.levels[s][p][h]
  <2>1. CASE back = Nil
    <3>1. Assigned(c.levels, [c.levels EXCEPT ![s][p].front = id], s, p, "front", id)
      BY <1>3, AssignedIs
    <3>2. Assigned(c.levels, d.levels, s, p, "front", id)
      BY <1>2, <2>1, <3>1
    <3> QED BY <2>1, <3>2 DEF Assigned
  <2>2. CASE back # Nil
    <3>1. Elsewhere(c.levels, c.levels, s, p)
      BY DEF Elsewhere
    <3> QED BY <1>2, <1>3, <2>2, <3>1
  <2> QED BY <2>1, <2>2
<1>5. /\ DOMAIN d.orders = DOMAIN c.orders
      /\ \A x \in DOMAIN c.orders :
           /\ DOMAIN d.orders[x] = {"side", "price", "quantity", "prev", "next"}
           /\ d.orders[x].side = c.orders[x].side /\ d.orders[x].price = c.orders[x].price
           /\ d.orders[x].quantity = c.orders[x].quantity
           /\ d.orders[x].prev = c.orders[x].prev
           /\ d.orders[x].next = IF x = back THEN id ELSE c.orders[x].next
  <2>1. \A x \in DOMAIN c.orders : DOMAIN c.orders[x] = {"side", "price", "quantity", "prev", "next"}
    BY DEF IsLinked, AreEntries
  <2>2. CASE back = Nil
    BY <1>2, <2>1, <2>2
  <2>3. CASE back # Nil
    <3>1. d.orders = [c.orders EXCEPT ![back].next = id]
      BY <1>2, <2>3
    <3>2. ASSUME NEW x \in DOMAIN c.orders
          PROVE  d.orders[x] = IF x = back THEN [c.orders[x] EXCEPT !.next = id] ELSE c.orders[x]
      BY <3>1
    <3> QED BY <2>1, <3>1, <3>2
  <2> QED BY <2>2, <2>3
<1>6. /\ DOMAIN g = DOMAIN c.orders \union {id} /\ g[id] = oe
      /\ \A x \in DOMAIN c.orders : g[x] = d.orders[x]
  BY <1>5, <1>10 DEF Set
<1>7. AreEntries(g)
  <2>1. ASSUME NEW x \in DOMAIN g
        PROVE  DOMAIN g[x] = {"side", "price", "quantity", "prev", "next"}
    <3>1. CASE x = id
      BY <1>6, <3>1
    <3>2. CASE x # id
      <4>1. x \in DOMAIN c.orders /\ g[x] = d.orders[x]
        BY <1>6, <3>2
      <4> QED BY <1>5, <4>1
    <3> QED BY <3>1, <3>2
  <2> QED BY <2>1 DEF AreEntries
<1>8. Joins(c.orders, g, id, back, s, p, n)
  BY <1>5, <1>6 DEF Joins
<1> QED BY <1>1, <1>4, <1>7, <1>8 DEF FrontSet

\* All the assignments of Attached together.
LEMMA AttachIs ==
  ASSUME NEW b, IsLinked(b), NEW e, NEW s \in Side, NEW p, NEW id, NEW n,
         s = e.side, p = e.price, id = e.id, n = e.size,
         id \notin DOMAIN b.orders, Nil \notin DOMAIN b.orders,
         NEW c, c = with_level(b, s, p), NEW r, r = c.levels[s][p]
  PROVE  /\ IsLinked(Attached(b, e))
         /\ Attached(b, e).tree = c.tree /\ Attached(b, e).best = c.best
         /\ Elsewhere(b.levels, Attached(b, e).levels, s, p)
         /\ p \in DOMAIN Attached(b, e).levels[s]
         /\ LevelJoined(r, Attached(b, e).levels[s][p], id, n)
         /\ Joins(b.orders, Attached(b, e).orders, id, r.back, s, p, n)
<1> DEFINE a == Attached(b, e)
           back == r.back
           oe == [side |-> s, price |-> p, quantity |-> n, prev |-> back, next |-> Nil]
           linked == IF back = Nil THEN [c EXCEPT !.levels[s][p].front = id]
                                   ELSE [c EXCEPT !.orders[back].next = id]
<1>1. /\ IsLinked(c) /\ c.orders = b.orders /\ Elsewhere(b.levels, c.levels, s, p)
      /\ p \in DOMAIN c.levels[s]
  BY WithLevelIs
<1>2. PICK d : d = linked
  BY Zenon
<1>3. a = [d EXCEPT !.orders = Set(@, id, oe), !.levels[s][p].back = id,
                    !.levels[s][p].count = @ + 1, !.levels[s][p].total = @ + n]
  BY <1>2, Zenon DEF Attached
<1>4. PICK g : g = Set(d.orders, id, oe)
  OBVIOUS
<1>5. /\ DOMAIN d = DOMAIN c /\ d.tree = c.tree /\ d.best = c.best
      /\ AreLevels(d.levels) /\ Elsewhere(c.levels, d.levels, s, p)
      /\ p \in DOMAIN d.levels[s]
      /\ d.levels[s][p].front = IF back = Nil THEN id ELSE r.front
      /\ \A h \in {"back", "count", "total"} : d.levels[s][p][h] = r[h]
      /\ AreEntries(g) /\ Joins(c.orders, g, id, back, s, p, n)
  <2>1. id \notin DOMAIN c.orders /\ Nil \notin DOMAIN c.orders
    BY <1>1, Zenon
  <2>6. Linking(c, d, g, s, p, id, n, back)
    BY <1>2, <1>4, Zenon DEF Linking
  <2> HIDE DEF a, linked, oe, back
  <2>2. FrontSet(c, d, s, p, id, back) /\ AreEntries(g) /\ Joins(c.orders, g, id, back, s, p, n)
    BY <1>1, <2>1, <2>6, LinkedIs, Zenon
  <2>3. /\ DOMAIN d = DOMAIN c /\ d.tree = c.tree /\ d.best = c.best
        /\ AreLevels(d.levels) /\ Elsewhere(c.levels, d.levels, s, p)
        /\ p \in DOMAIN d.levels[s]
    BY <2>2, Zenon DEF FrontSet
  <2>4. /\ d.levels[s][p].front = IF back = Nil THEN id ELSE c.levels[s][p].front
        /\ \A h \in {"back", "count", "total"} : d.levels[s][p][h] = c.levels[s][p][h]
    BY <2>2, Zenon DEF FrontSet
  <2>5. /\ d.levels[s][p].front = IF back = Nil THEN id ELSE r.front
        /\ \A h \in {"back", "count", "total"} : d.levels[s][p][h] = r[h]
    BY <2>4, Zenon
  <2> QED BY <2>2, <2>3, <2>5, Zenon
<1> HIDE DEF a, linked
<1>6. DOMAIN d = {"orders", "levels", "tree", "best"}
  BY <1>1, <1>5, Zenon DEF IsLinked
<1>7. DOMAIN a = DOMAIN d /\ a.tree = c.tree /\ a.best = c.best /\ a.orders = g
  BY <1>3, <1>4, <1>5, <1>6, Zenon
<1>8. PICK L1 : L1 = [d.levels EXCEPT ![s][p].back = id]
  OBVIOUS
<1>9. PICK L2 : L2 = [L1 EXCEPT ![s][p].count = r.count + 1]
  OBVIOUS
<1>10. PICK L3 : L3 = [L2 EXCEPT ![s][p].total = r.total + n]
  BY Zenon
<1>12. /\ AreLevels(L1) /\ Elsewhere(d.levels, L1, s, p) /\ p \in DOMAIN L1[s]
       /\ L1[s][p].back = id /\ L1[s][p].front = d.levels[s][p].front
       /\ L1[s][p].count = r.count /\ L1[s][p].total = r.total
  <2>1. Assigned(d.levels, [d.levels EXCEPT ![s][p].back = id], s, p, "back", id)
    BY <1>5, AssignedIs, Zenon
  <2>2. Assigned(d.levels, L1, s, p, "back", id)
    BY <1>8, <2>1, Zenon
  <2> QED BY <1>5, <2>2, Zenon DEF Assigned
<1>13. /\ AreLevels(L2) /\ Elsewhere(L1, L2, s, p) /\ p \in DOMAIN L2[s]
       /\ L2[s][p].count = r.count + 1 /\ L2[s][p].front = L1[s][p].front
       /\ L2[s][p].back = id /\ L2[s][p].total = r.total
  <2>1. Assigned(L1, [L1 EXCEPT ![s][p].count = r.count + 1], s, p, "count", r.count + 1)
    BY <1>12, AssignedIs, Zenon
  <2>2. Assigned(L1, L2, s, p, "count", r.count + 1)
    BY <1>9, <2>1, Zenon
  <2> QED BY <1>12, <2>2, Zenon DEF Assigned
<1>14. /\ AreLevels(L3) /\ Elsewhere(L2, L3, s, p) /\ p \in DOMAIN L3[s]
       /\ L3[s][p].total = r.total + n /\ L3[s][p].front = L2[s][p].front
       /\ L3[s][p].back = id /\ L3[s][p].count = r.count + 1
  <2>1. Assigned(L2, [L2 EXCEPT ![s][p].total = r.total + n], s, p, "total", r.total + n)
    BY <1>13, AssignedIs, Zenon
  <2>2. Assigned(L2, L3, s, p, "total", r.total + n)
    BY <1>10, <2>1, Zenon
  <2> QED BY <1>13, <2>2, Zenon DEF Assigned
<1>11. a.levels = L3
  <2>1. a.levels = [d.levels EXCEPT ![s][p].back = id, ![s][p].count = @ + 1, ![s][p].total = @ + n]
    BY <1>3, <1>6, Zenon
  <2>2. d.levels[s][p].count = r.count /\ d.levels[s][p].total = r.total
    BY <1>5, Zenon
  <2>3. a.levels = [d.levels EXCEPT ![s][p].back = id, ![s][p].count = r.count + 1,
                                    ![s][p].total = r.total + n]
    BY <2>1, <2>2, Zenon
  <2> QED BY <1>8, <1>9, <1>10, <2>3, Zenon
<1>15. Elsewhere(b.levels, L3, s, p)
  <2>1. Elsewhere(b.levels, d.levels, s, p)
    BY <1>1, <1>5, ElsewhereComposes, Zenon
  <2>2. Elsewhere(b.levels, L1, s, p)
    BY <1>12, <2>1, ElsewhereComposes
  <2>3. Elsewhere(b.levels, L2, s, p)
    BY <1>13, <2>2, ElsewhereComposes
  <2> QED BY <1>14, <2>3, ElsewhereComposes, Zenon
<1>16. LevelJoined(r, L3[s][p], id, n)
  <2>1. L3[s][p].front = IF back = Nil THEN id ELSE r.front
    <3>1. L3[s][p].front = d.levels[s][p].front
      BY <1>12, <1>13, <1>14, Zenon
    <3> QED BY <1>5, <3>1, Zenon
  <2>2. /\ L3[s][p].back = id /\ L3[s][p].count = r.count + 1
        /\ L3[s][p].total = r.total + n
    BY <1>14, Zenon
  <2> QED BY <2>1, <2>2, Zenon DEF LevelJoined
<1>17. IsLinked(a)
  BY <1>1, <1>5, <1>7, <1>11, <1>14, Zenon DEF IsLinked
<1> QED BY <1>1, <1>5, <1>7, <1>11, <1>14, <1>15, <1>16, <1>17, Zenon DEF a

\* The sequence of level l got id at its end, the others nothing.
FifoGrown(v, v2, l, id) ==
  /\ \A m \in Levels \ {l} : v2.fifo[m] = v.fifo[m]
  /\ Len(v2.fifo[l]) = Len(v.fifo[l]) + 1 /\ v2.fifo[l][Len(v.fifo[l]) + 1] = id
  /\ \A i \in 1 .. Len(v.fifo[l]) : v2.fifo[l][i] = v.fifo[l][i] /\ v.fifo[l][i] # id

\* The last of a level, or none.
LastOf(v, l) == IF Len(v.fifo[l]) = 0 THEN Nil ELSE v.fifo[l][Len(v.fifo[l])]

LEMMA PlacedBookGrows ==
  ASSUME NEW v, IsBook(v), NEW id \in Ids, id \notin DOMAIN v.orders, NEW o \in Order
  PROVE  /\ IsBook(Place(v, id, o)) /\ Place(v, id, o).orders = Set(v.orders, id, o)
         /\ LevelOf(o) \in Levels /\ FifoGrown(v, Place(v, id, o), LevelOf(o), id)
<1> DEFINE l == LevelOf(o)
           v2 == Place(v, id, o)
<1>1. /\ IsBook(v2) /\ v2.orders = Set(v.orders, id, o) /\ l \in Levels
      /\ \A m \in Levels \ {l} : v2.fifo[m] = v.fifo[m]
      /\ v2.fifo[l] = Append(v.fifo[l], id)
      /\ Len(v2.fifo[l]) = Len(v.fifo[l]) + 1
      /\ v2.fifo[l][Len(v.fifo[l]) + 1] = id
      /\ \A i \in 1 .. Len(v.fifo[l]) : v2.fifo[l][i] = v.fifo[l][i] /\ v.fifo[l][i] # id
  BY PlacedBook
<1> HIDE DEF l, v2
<1> QED BY <1>1 DEF FifoGrown, l, v2

\* The links after the order id has joined behind the last one.
LEMMA LinksAfterPlacing ==
  ASSUME NEW b, NEW v, LinkedForm(b, v), NEW v2, NEW l \in Levels, NEW id,
         id \notin DOMAIN b.orders, FifoGrown(v, v2, l, id),
         NEW d, NEW s, NEW p, NEW n, Joins(b.orders, d.orders, id, LastOf(v, l), s, p, n)
  PROVE  LinksMatch(d, v2)
<1> DEFINE q == v.fifo[l]
           q2 == v2.fifo[l]
           back == LastOf(v, l)
<1>1. IsBook(v) /\ DOMAIN b.orders = DOMAIN v.orders
  BY DEF LinkedForm, EntriesMatch
<1>2. PICK k \in Nat : k = Len(q)
  BY <1>1, FifoIs
<1>3. /\ \A m \in Levels \ {l} : v2.fifo[m] = v.fifo[m]
      /\ Len(q2) = k + 1 /\ q2[k + 1] = id
      /\ \A i \in 1 .. k : q2[i] = q[i] /\ q[i] # id
  BY <1>2 DEF FifoGrown
<1>4. back = IF k = 0 THEN Nil ELSE q[k]
  BY <1>2 DEF LastOf
<1>5. \A i \in 1 .. k : q[i] # Nil /\ q[i] \in DOMAIN b.orders /\ LevelOf(v.orders[q[i]]) = l
  BY <1>1, <1>2, FifoIs
<1>6. \A i, j \in 1 .. k : q[i] = q[j] => i = j
  BY <1>1, <1>2, FifoIs
<1>7. /\ d.orders[id].prev = back /\ d.orders[id].next = Nil
      /\ \A x \in DOMAIN b.orders : /\ d.orders[x].prev = b.orders[x].prev
                                    /\ d.orders[x].next = IF x = back THEN id ELSE b.orders[x].next
  BY DEF Joins
<1> HIDE DEF back
<1>8. ASSUME NEW m \in Levels \ {l}, NEW i \in 1 .. Len(v2.fifo[m])
      PROVE  /\ d.orders[v2.fifo[m][i]].prev = IF i = 1 THEN Nil ELSE v2.fifo[m][i - 1]
             /\ d.orders[v2.fifo[m][i]].next = IF i = Len(v2.fifo[m]) THEN Nil ELSE v2.fifo[m][i + 1]
  <2>1. v2.fifo[m] = v.fifo[m]
    BY <1>3
  <2>2. PICK x : x = v.fifo[m][i]
    OBVIOUS
  <2>3. x \in DOMAIN b.orders /\ x # Nil /\ LevelOf(v.orders[x]) = m
    BY <1>1, <2>1, <2>2, FifoIs
  <2>4. x # back
    <3>1. CASE k = 0
      BY <1>4, <2>3, <3>1
    <3>2. CASE k # 0
      <4>1. k \in 1 .. k
        BY <3>2
      <4>2. back = q[k] /\ LevelOf(v.orders[q[k]]) = l
        BY <1>4, <1>5, <3>2, <4>1
      <4> QED BY <2>3, <4>2
    <3> QED BY <3>1, <3>2
  <2>5. /\ b.orders[x].prev = IF i = 1 THEN Nil ELSE v.fifo[m][i - 1]
        /\ b.orders[x].next = IF i = Len(v.fifo[m]) THEN Nil ELSE v.fifo[m][i + 1]
    BY <2>1, <2>2 DEF LinkedForm, LinksMatch
  <2> QED BY <1>7, <2>1, <2>2, <2>3, <2>4, <2>5
<1> HIDE DEF q2
<1>9. ASSUME NEW i \in 1 .. k
      PROVE  /\ d.orders[q2[i]].prev = IF i = 1 THEN Nil ELSE q2[i - 1]
             /\ d.orders[q2[i]].next = q2[i + 1]
  <2>1. PICK x : x = q[i]
    OBVIOUS
  <2>2. x \in DOMAIN b.orders /\ x = q2[i]
    BY <1>3, <1>5, <2>1
  <2>3. /\ b.orders[x].prev = IF i = 1 THEN Nil ELSE q[i - 1]
        /\ b.orders[x].next = IF i = k THEN Nil ELSE q[i + 1]
    BY <1>2, <2>1 DEF LinkedForm, LinksMatch
  <2>4. i # 1 => q2[i - 1] = q[i - 1]
    <3>1. i # 1 => i - 1 \in 1 .. k
      OBVIOUS
    <3> QED BY <1>3, <3>1
  <2>5. CASE i = k
    <3>1. x = back
      BY <1>4, <2>1, <2>5
    <3>2. q2[i + 1] = id
      BY <1>3, <2>5
    <3> QED BY <1>7, <2>2, <2>3, <2>4, <3>1, <3>2
  <2>6. CASE i # k
    <3>1. i + 1 \in 1 .. k /\ k \in 1 .. k /\ k # 0
      BY <2>6
    <3>2. x # back
      BY <1>4, <1>6, <2>1, <2>6, <3>1
    <3>3. q2[i + 1] = q[i + 1]
      BY <1>3, <3>1
    <3> QED BY <1>7, <2>2, <2>3, <2>4, <2>6, <3>2, <3>3
  <2> QED BY <2>5, <2>6
<1>10. /\ d.orders[q2[k + 1]].prev = IF k + 1 = 1 THEN Nil ELSE q2[(k + 1) - 1]
       /\ d.orders[q2[k + 1]].next = Nil
  <2>1. k + 1 = 1 <=> k = 0
    BY <1>2
  <2>2. (k + 1) - 1 = k
    BY <1>2
  <2>3. k # 0 => k \in 1 .. k
    BY <1>2
  <2> QED BY <1>3, <1>4, <1>7, <2>1, <2>2, <2>3
<1>11. ASSUME NEW m \in Levels, NEW i \in 1 .. Len(v2.fifo[m])
       PROVE  /\ d.orders[v2.fifo[m][i]].prev = IF i = 1 THEN Nil ELSE v2.fifo[m][i - 1]
              /\ d.orders[v2.fifo[m][i]].next = IF i = Len(v2.fifo[m]) THEN Nil ELSE v2.fifo[m][i + 1]
  <2>1. CASE m # l
    BY <1>8, <2>1
  <2>2. CASE m = l
    <3>1. v2.fifo[m] = q2 /\ i \in 1 .. k + 1
      BY <1>3, <2>2 DEF q2
    <3>2. CASE i = k + 1
      BY <1>3, <1>10, <3>1, <3>2
    <3>3. CASE i # k + 1
      <4>1. i \in 1 .. k
        BY <1>2, <3>1, <3>3
      <4> QED BY <1>3, <1>9, <3>1, <3>3, <4>1
    <3> QED BY <3>2, <3>3
  <2> QED BY <2>1, <2>2
<1> QED BY <1>11 DEF LinksMatch

\* The level an order joins, as with_level finds or creates it: the ends, the
\* length and the contracts of its sequence, the empty one included.
LevelReady(r, v, l) ==
  /\ r.back = LastOf(v, l) /\ r.count = Len(v.fifo[l]) /\ r.total = Rests(v.orders)[l]
  /\ Len(v.fifo[l]) # 0 => r.front = v.fifo[l][1]

LEMMA LevelIsReady ==
  ASSUME NEW b, NEW v, LinkedForm(b, v), NEW s \in Side, NEW p \in Prices
  PROVE  LevelReady(with_level(b, s, p).levels[s][p], v, <<s, p>>)
<1> DEFINE c == with_level(b, s, p)
           l == <<s, p>>
<1>1. IsBook(v) /\ IsLinked(b) /\ DOMAIN b.levels[s] = Shown(v, s)
  BY DEF LinkedForm, LevelsMatch
<1>2. l \in Levels /\ (p \in Shown(v, s) <=> Len(v.fifo[l]) # 0)
  BY <1>1, ShownIs
<1>3. /\ p \in DOMAIN b.levels[s] => c = b
      /\ p \notin DOMAIN b.levels[s] => LevelNew(b, c, s, p)
  BY <1>1, WithLevelIs
<1> HIDE DEF c
<1>4. CASE Len(v.fifo[l]) # 0
  <2>1. LevelIs(b.levels[s][p], v, l)
    BY <1>2, <1>4 DEF LinkedForm, LevelsMatch
  <2>2. c = b
    BY <1>1, <1>2, <1>3, <1>4
  <2> HIDE DEF l
  <2>3. LevelReady(b.levels[s][p], v, l)
    BY <1>4, <2>1 DEF LevelIs, LevelReady, LastOf
  <2> QED BY <2>2, <2>3 DEF c, l
<1>5. CASE Len(v.fifo[l]) = 0
  <2>1. c.levels[s][p] = NewLevel
    BY <1>1, <1>2, <1>3, <1>5 DEF LevelNew
  <2>2. ASSUME NEW id \in DOMAIN v.orders PROVE LevelOf(v.orders[id]) # l
    <3>1. PICK t \in Side, x \in Prices : \E k \in 1 .. Len(v.fifo[<<t, x>>]) : Stands(v, id, t, x, k)
      BY <1>1, StandsSomewhere
    <3>2. PICK k \in 1 .. Len(v.fifo[<<t, x>>]) : Stands(v, id, t, x, k)
      BY <3>1
    <3>3. LevelOf(v.orders[id]) = <<t, x>>
      BY <3>2 DEF Stands
    <3>4. <<t, x>> # l
      BY <1>5, <3>2
    <3> QED BY <3>3, <3>4
  <2>3. Rests(v.orders)[l] = 0
    BY <1>2, <2>2, RestsNowhere
  <2> HIDE DEF l
  <2>4. LevelReady(c.levels[s][p], v, l)
    BY <1>5, <2>1, <2>3 DEF LevelReady, LastOf, NewLevel
  <2> QED BY <2>4 DEF c, l
<1> QED BY <1>4, <1>5

\* The level after the order has joined it.
LEMMA LevelAfterPlacing ==
  ASSUME NEW v, IsBook(v), NEW id \in Ids, id \notin DOMAIN v.orders, NEW o \in Order,
         NEW l, l = LevelOf(o), NEW r, LevelReady(r, v, l), NEW n, n = o.size,
         NEW r2, LevelJoined(r, r2, id, n)
  PROVE  LevelIs(r2, Place(v, id, o), l)
<1> DEFINE v2 == Place(v, id, o)
<1>1. v2.orders = Set(v.orders, id, o) /\ l \in Levels /\ FifoGrown(v, v2, l, id)
  BY PlacedBookGrows
<1>2. Rests(v2.orders)[l] = Rests(v.orders)[l] + n
  <2>1. IsOrders(v.orders)
    BY DEF IsBook
  <2> QED BY <1>1, <2>1, RestsEntered, OrdersAre
<1>3. PICK k \in Nat : k = Len(v.fifo[l])
  BY <1>1, FifoIs
<1> HIDE DEF v2
<1>4. /\ Len(v2.fifo[l]) = k + 1 /\ v2.fifo[l][k + 1] = id
      /\ \A i \in 1 .. k : v2.fifo[l][i] = v.fifo[l][i]
  BY <1>1, <1>3 DEF FifoGrown
<1>5. r.total = Rests(v.orders)[l] /\ r.count = k /\ r.back = LastOf(v, l)
  BY <1>3 DEF LevelReady
<1>6. r2.front = v2.fifo[l][1]
  <2>1. r2.front = IF r.back = Nil THEN id ELSE r.front
    BY DEF LevelJoined
  <2>2. CASE k = 0
    <3>1. r.back = Nil
      BY <1>3, <1>5, <2>2 DEF LastOf
    <3> QED BY <1>4, <2>1, <2>2, <3>1
  <2>3. CASE k # 0
    <3>1. k \in 1 .. k /\ 1 \in 1 .. k
      BY <2>3
    <3>2. r.back = v.fifo[l][k]
      BY <1>3, <1>5, <2>3 DEF LastOf
    <3>3. r.back # Nil
      BY <1>1, <1>3, <3>1, <3>2, FifoIs
    <3>4. r.front = v.fifo[l][1]
      BY <1>3, <2>3 DEF LevelReady
    <3> QED BY <1>4, <2>1, <3>1, <3>3, <3>4
  <2> QED BY <2>2, <2>3
<1> QED BY <1>2, <1>4, <1>5, <1>6 DEF LevelIs, LevelJoined, v2

\* Adding an order does to the linked form what Place does to the book.
LEMMA Attaches ==
  ASSUME NEW b, NEW v, LinkedForm(b, v), NEW e, NEW id \in Ids, id = e.id,
         id \notin DOMAIN b.orders, NEW o \in Order,
         o = [side |-> e.side, price |-> e.price, size |-> e.size]
  PROVE  LinkedForm(Attached(b, e), Place(v, id, o))
<1>1. PICK s \in Side, p \in Prices, n \in Nat :
        /\ s = e.side /\ p = e.price /\ n = e.size
        /\ s = o.side /\ p = o.price /\ n = o.size
  BY DEF Order
<1> DEFINE l == <<s, p>>
           c == with_level(b, s, p)
           r == c.levels[s][p]
           d == Attached(b, e)
           v2 == Place(v, id, o)
<1>2. IsBook(v) /\ IsLinked(b) /\ DOMAIN b.orders = DOMAIN v.orders
  BY DEF LinkedForm, EntriesMatch
<1>3. l \in Levels /\ LevelOf(o) = l
  BY <1>1 DEF Levels, LevelOf
<1>4. /\ IsLinked(c) /\ c.orders = b.orders
      /\ p \in DOMAIN b.levels[s] => c = b
      /\ p \notin DOMAIN b.levels[s] => LevelNew(b, c, s, p)
  BY <1>1, <1>2, WithLevelIs
<1>5. LevelReady(r, v, l)
  BY <1>1, LevelIsReady
<1>6. Nil \notin DOMAIN b.orders
  BY <1>2, IdAssumption DEF IsBook, IsOrders
<1> HIDE DEF c, r, l
<1>7. /\ IsLinked(d) /\ d.tree = c.tree /\ d.best = c.best
      /\ Elsewhere(b.levels, d.levels, s, p) /\ p \in DOMAIN d.levels[s]
      /\ LevelJoined(r, d.levels[s][p], id, n)
      /\ Joins(b.orders, d.orders, id, r.back, s, p, n)
  BY <1>1, <1>2, <1>6, AttachIs DEF c, r
<1>8. /\ IsBook(v2) /\ v2.orders = Set(v.orders, id, o) /\ FifoGrown(v, v2, l, id)
  BY <1>2, <1>3, PlacedBookGrows
<1>9. LevelIs(d.levels[s][p], v2, l)
  BY <1>1, <1>2, <1>3, <1>5, <1>7, LevelAfterPlacing
<1> HIDE DEF d, v2
<1>10. Len(v.fifo[l]) \in Nat /\ Len(v2.fifo[l]) = Len(v.fifo[l]) + 1
  BY <1>2, <1>3, <1>8, FifoIs DEF FifoGrown
<1>11. \A m \in Levels \ {l} : v2.fifo[m] = v.fifo[m] /\ Rests(v2.orders)[m] = Rests(v.orders)[m]
  <2>1. IsOrders(v.orders)
    BY <1>2 DEF IsBook
  <2>2. Rests(v.orders) \in [Levels -> Nat]
    BY <2>1, RestsAreNat, OrdersAre
  <2>3. \A m \in Levels \ {l} : Rests(v2.orders)[m] = Rests(v.orders)[m] + 0
    BY <1>2, <1>3, <1>8, <2>1, RestsEntered, OrdersAre
  <2> QED BY <1>8, <2>2, <2>3 DEF FifoGrown
<1>12. \A t \in Side, x \in Prices : <<t, x>> = l <=> (t = s /\ x = p)
  BY DEF l
<1>13. /\ \A t \in Side \ {s} : Shown(v2, t) = Shown(v, t)
       /\ Shown(v2, s) = Shown(v, s) \union {p}
  <2>1. ASSUME NEW t \in Side, NEW x \in Prices, <<t, x>> # l
        PROVE  x \in Shown(v2, t) <=> x \in Shown(v, t)
    <3>1. v2.fifo[<<t, x>>] = v.fifo[<<t, x>>]
      BY <1>11, <2>1 DEF Levels
    <3> QED BY <3>1 DEF Shown
  <2>2. p \in Shown(v2, s)
    <3>1. p \in Shown(v2, s) <=> Len(v2.fifo[l]) # 0
      BY <1>8, ShownIs DEF l
    <3> QED BY <1>10, <3>1
  <2>3. \A t \in Side : Shown(v2, t) \subseteq Prices /\ Shown(v, t) \subseteq Prices
    BY DEF Shown
  <2>4. ASSUME NEW t \in Side \ {s} PROVE Shown(v2, t) = Shown(v, t)
    BY <1>12, <2>1, <2>3
  <2>5. \A x \in Prices \ {p} : x \in Shown(v2, s) <=> x \in Shown(v, s)
    BY <1>12, <2>1
  <2>6. \A x : x \in Shown(v2, s) <=> x \in Shown(v, s) \union {p}
    BY <2>2, <2>3, <2>5
  <2> QED BY <2>4, <2>6
<1>14. EntriesMatch(d, v2)
  <2>1. /\ DOMAIN v2.orders = DOMAIN v.orders \union {id} /\ v2.orders[id] = o
        /\ \A x \in DOMAIN v.orders : v2.orders[x] = v.orders[x]
    BY <1>2, <1>8 DEF Set
  <2> QED BY <1>1, <1>2, <1>7, <2>1 DEF LinkedForm, EntriesMatch, Joins
<1>15. LinksMatch(d, v2)
  <2>1. r.back = LastOf(v, l)
    BY <1>5 DEF LevelReady
  <2>2. Joins(b.orders, d.orders, id, LastOf(v, l), s, p, n)
    BY <1>7, <2>1
  <2> QED BY <1>3, <1>8, <2>2, LinksAfterPlacing
<1>16. LevelsMatch(d, v2)
  <2>1. \A t \in Side : DOMAIN b.levels[t] = Shown(v, t)
    BY DEF LinkedForm, LevelsMatch
  <2>2. ASSUME NEW t \in Side PROVE DOMAIN d.levels[t] = Shown(v2, t)
    <3>1. CASE t # s
      BY <1>7, <1>13, <2>1, <3>1 DEF Elsewhere
    <3>2. CASE t = s
      <4>1. DOMAIN d.levels[s] \ {p} = DOMAIN b.levels[s] \ {p} /\ p \in DOMAIN d.levels[s]
        BY <1>7 DEF Elsewhere
      <4>2. DOMAIN d.levels[s] = DOMAIN b.levels[s] \union {p}
        BY <4>1
      <4> QED BY <1>13, <2>1, <3>2, <4>2
    <3> QED BY <3>1, <3>2
  <2>3. ASSUME NEW t \in Side, NEW x \in Shown(v2, t)
        PROVE  LevelIs(d.levels[t][x], v2, <<t, x>>)
    <3>1. x \in Prices /\ <<t, x>> \in Levels
      BY DEF Shown, Levels
    <3>2. CASE <<t, x>> # l
      <4>1. t # s \/ x # p
        BY <1>12, <3>1, <3>2
      <4>2. x \in Shown(v, t)
        BY <1>13, <2>3, <4>1
      <4>3. d.levels[t][x] = b.levels[t][x]
        BY <1>7, <2>1, <4>1, <4>2 DEF Elsewhere
      <4>4. LevelIs(b.levels[t][x], v, <<t, x>>)
        BY <4>2 DEF LinkedForm, LevelsMatch
      <4>5. PICK m \in Levels \ {l} : m = <<t, x>>
        BY <3>1, <3>2
      <4>6. v2.fifo[m] = v.fifo[m] /\ Rests(v2.orders)[m] = Rests(v.orders)[m]
        BY <1>11
      <4>7. LevelIs(b.levels[t][x], v2, m)
        BY <4>4, <4>5, <4>6 DEF LevelIs
      <4> QED BY <4>3, <4>5, <4>7
    <3>3. CASE <<t, x>> = l
      BY <1>9, <1>12, <3>1, <3>3
    <3> QED BY <3>2, <3>3
  <2> QED BY <2>2, <2>3 DEF LevelsMatch
<1>17. PricesMatch(d, v2)
  <2>1. DOMAIN b.tree = Side /\ DOMAIN b.best = Side
    BY <1>2 DEF IsLinked
  <2>2. \A t \in Side : /\ b.tree[t] = Shown(v, t) /\ b.best[t] = Best(t, Shown(v, t))
                        /\ DOMAIN b.levels[t] = Shown(v, t)
    BY DEF LinkedForm, PricesMatch, LevelsMatch
  <2>3. CASE p \in Shown(v, s)
    <3>1. d.tree = b.tree /\ d.best = b.best
      BY <1>4, <1>7, <2>2, <2>3
    <3>2. \A t \in Side : Shown(v2, t) = Shown(v, t)
      BY <1>13, <2>3
    <3> QED BY <2>2, <3>1, <3>2 DEF PricesMatch
  <2>4. CASE p \notin Shown(v, s)
    <3>1. PICK P : P = Shown(v, s)
      OBVIOUS
    <3>2. IsFiniteSet(P) /\ P \subseteq Prices
      BY <1>2, <3>1, ShownIsFinite DEF Shown
    <3>3. /\ d.tree = [b.tree EXCEPT ![s] = P \union {p}]
          /\ d.best = [b.best EXCEPT ![s] = IF \/ Best(s, P) = Undef
                                               \/ s = "Buy" /\ p > Best(s, P)
                                               \/ s = "Sell" /\ p < Best(s, P)
                                            THEN p ELSE Best(s, P)]
      BY <1>4, <1>7, <2>2, <2>4, <3>1 DEF LevelNew
    <3>4. Best(s, P \union {p}) = IF \/ Best(s, P) = Undef
                                     \/ s = "Buy" /\ p > Best(s, P)
                                     \/ s = "Sell" /\ p < Best(s, P)
                                  THEN p ELSE Best(s, P)
      BY <3>2, BestWith
    <3>5. d.tree[s] = Shown(v2, s) /\ d.best[s] = Best(s, Shown(v2, s))
      BY <1>13, <2>1, <3>1, <3>3, <3>4
    <3>6. \A t \in Side \ {s} : d.tree[t] = Shown(v2, t) /\ d.best[t] = Best(t, Shown(v2, t))
      BY <1>13, <2>1, <2>2, <3>3
    <3> QED BY <3>5, <3>6 DEF PricesMatch
  <2> QED BY <2>3, <2>4
<1> QED BY <1>7, <1>8, <1>14, <1>15, <1>16, <1>17 DEF LinkedForm, d, v2
-----------------------------------------------------------------------------
(* The handlers *)

\* The book without orders.
LEMMA NothingLinked ==
  ASSUME NEW d, DOMAIN d = {"orders", "levels", "tree", "best"}, d.orders = <<>>,
         d.levels = [s \in Side |-> <<>>], d.tree = [s \in Side |-> {}],
         d.best = [s \in Side |-> Undef]
  PROVE  LinkedForm(d, EmptyBook)
<1> DEFINE v == EmptyBook
<1>1. DOMAIN <<>> = {} /\ <<>> \in Seq(Ids) /\ Len(<<>>) = 0
  OBVIOUS
<1>2. /\ v = [orders |-> v.orders, fifo |-> v.fifo]
      /\ v.orders = <<>> /\ v.fifo = [l \in Levels |-> <<>>]
  BY DEF EmptyBook
<1> HIDE DEF v
<1>3. /\ DOMAIN v.orders = {} /\ v.fifo \in [Levels -> Seq(Ids)]
      /\ \A l \in Levels : v.fifo[l] = <<>> /\ Len(v.fifo[l]) = 0
  BY <1>1, <1>2
<1>4. IsBook(v)
  <2>1. IsOrders(v.orders)
    <3>1. v.orders = [x \in {} |-> 0]
      BY <1>1, <1>2
    <3>2. v.orders \in [DOMAIN v.orders -> Order]
      BY <1>3, <3>1
    <3> QED BY <1>3, <3>2, FS_EmptySet DEF IsOrders
  <2>2. \A l \in Levels : 1 .. Len(v.fifo[l]) = {}
    BY <1>3
  <2>3. StandsRight(v) /\ StandsOnce(v)
    BY <2>2 DEF StandsRight, StandsOnce
  <2>4. AllStand(v)
    BY <1>3 DEF AllStand
  <2> QED BY <1>2, <1>3, <2>1, <2>3, <2>4 DEF IsBook
<1>5. \A s \in Side : Shown(v, s) = {}
  <2>1. \A s \in Side, p \in Prices : v.fifo[<<s, p>>] = <<>>
    BY <1>3 DEF Levels
  <2> QED BY <2>1 DEF Shown
<1>6. IsLinked(d)
  <2>1. AreEntries(d.orders)
    BY <1>1 DEF AreEntries
  <2>2. AreLevels(d.levels)
    BY <1>1 DEF AreLevels
  <2> QED BY <2>1, <2>2 DEF IsLinked
<1>7. EntriesMatch(d, v)
  BY <1>1, <1>3 DEF EntriesMatch
<1>8. LinksMatch(d, v)
  <2>1. \A l \in Levels : 1 .. Len(v.fifo[l]) = {}
    BY <1>3
  <2> QED BY <2>1 DEF LinksMatch
<1>9. LevelsMatch(d, v)
  BY <1>1, <1>5 DEF LevelsMatch
<1>10. PricesMatch(d, v)
  BY <1>5 DEF PricesMatch, Best
<1> QED BY <1>4, <1>6, <1>7, <1>8, <1>9, <1>10 DEF LinkedForm, v

\* What stands at the level of an order, and what the order holds.
LEMMA LevelHolds ==
  ASSUME NEW b, NEW v, LinkedForm(b, v), NEW id \in DOMAIN b.orders
  PROVE  /\ id \in DOMAIN v.orders /\ id \in Ids /\ v.orders[id] \in Order
         /\ b.orders[id].side = v.orders[id].side /\ b.orders[id].side \in Side
         /\ b.orders[id].price = v.orders[id].price /\ b.orders[id].price \in Prices
         /\ b.orders[id].quantity \in Nat
         /\ b.levels[b.orders[id].side][b.orders[id].price].total \in Nat
<1>1. IsBook(v) /\ id \in DOMAIN v.orders
  BY DEF LinkedForm, EntriesMatch
<1>2. v.orders[id] \in Order /\ id \in Ids
  BY <1>1 DEF IsBook, IsOrders
<1>3. PICK s \in Side, p \in Prices : \E k \in 1 .. Len(v.fifo[<<s, p>>]) : Stands(v, id, s, p, k)
  BY <1>1, StandsSomewhere
<1>4. PICK k \in 1 .. Len(v.fifo[<<s, p>>]) : Stands(v, id, s, p, k)
  BY <1>3
<1>5. /\ b.orders[id].side = v.orders[id].side /\ b.orders[id].price = v.orders[id].price
      /\ b.orders[id].quantity = v.orders[id].size
  BY <1>1 DEF LinkedForm, EntriesMatch
<1>6. v.orders[id].side = s /\ v.orders[id].price = p /\ <<s, p>> \in Levels
  BY <1>4 DEF Stands
<1>7. p \in Shown(v, s)
  <2>1. Len(v.fifo[<<s, p>>]) # 0
    BY <1>4
  <2> QED BY <1>1, <2>1, ShownIs
<1>8. LevelIs(b.levels[s][p], v, <<s, p>>)
  BY <1>7 DEF LinkedForm, LevelsMatch
<1>9. Rests(v.orders) \in [Levels -> Nat]
  BY <1>1, RestsAreNat, OrdersAre DEF IsBook
<1>10. b.levels[s][p].total \in Nat
  BY <1>6, <1>8, <1>9 DEF LevelIs
<1> QED BY <1>1, <1>2, <1>5, <1>6, <1>10 DEF Order

\* cancel_order removes the order or leaves the rest of it.
LEMMA Cancels ==
  ASSUME NEW b, NEW v, LinkedForm(b, v), NEW id, NEW n \in Nat
  PROVE  LinkedForm(cancel_order(b, id, n),
                    IF id \notin DOMAIN v.orders THEN v
                    ELSE IF n = 0 THEN Remove(v, id) ELSE Resize(v, id, n))
<1>1. DOMAIN b.orders = DOMAIN v.orders
  BY DEF LinkedForm, EntriesMatch
<1>2. CASE id \notin DOMAIN b.orders
  BY <1>1, <1>2 DEF cancel_order
<1>3. CASE id \in DOMAIN b.orders /\ n = 0
  <2>1. cancel_order(b, id, n) = destroy_order(b, id)
    BY <1>3 DEF cancel_order
  <2>2. LinkedForm(destroy_order(b, id), Remove(v, id))
    BY <1>3, Destroyed
  <2> QED BY <1>1, <1>3, <2>1, <2>2
<1>4. CASE id \in DOMAIN b.orders /\ n # 0
  <2>1. PICK s, p, t : /\ s = b.orders[id].side /\ p = b.orders[id].price
                       /\ t = b.levels[s][p].total - b.orders[id].quantity + n
    BY Zenon
  <2>2. LinkedForm([b EXCEPT !.levels[s][p].total = t, !.orders[id].quantity = n],
                   Resize(v, id, n))
    BY <1>4, <2>1, Resized, Zenon
  <2>3. t = b.levels[s][p].total - (b.orders[id].quantity - n)
    <3>1. PICK x \in Nat, y \in Nat : x = b.levels[s][p].total /\ y = b.orders[id].quantity
      BY <1>4, <2>1, LevelHolds, Zenon
    <3>2. t = (x - y) + n
      BY <2>1, <3>1, Zenon
    <3>3. (x - y) + n = x - (y - n)
      OBVIOUS
    <3> QED BY <3>1, <3>2, <3>3
  <2>4. cancel_order(b, id, n) = [b EXCEPT !.levels[s][p].total = t, !.orders[id].quantity = n]
    BY <1>4, <2>1, <2>3, Zenon DEF cancel_order
  <2> QED BY <1>1, <1>4, <2>2, <2>4
<1> QED BY <1>2, <1>3, <1>4

\* add_order places the order, over an order of that id as well.
LEMMA Adds ==
  ASSUME NEW b, NEW v, LinkedForm(b, v), NEW e, NEW id \in Ids, id = e.id, Placeable(e),
         NEW o \in Order, o = [side |-> e.side, price |-> e.price, size |-> e.size]
  PROVE  LinkedForm(add_order(b, e), Place(v, id, o))
<1> DEFINE v1 == IF id \in DOMAIN v.orders THEN Remove(v, id) ELSE v
           b1 == cancel_order(b, id, 0)
<1>1. add_order(b, e) = Attached(b1, e)
  BY AddIs
<1>2. LinkedForm(b1, v1)
  BY Cancels
<1>3. id \notin DOMAIN v1.orders
  BY DEF Remove, Drop
<1>4. Place(v, id, o) = Place(v1, id, o)
  BY <1>3 DEF Place
<1> HIDE DEF v1, b1
<1>5. id \notin DOMAIN b1.orders
  BY <1>2, <1>3 DEF LinkedForm, EntriesMatch
<1>6. LinkedForm(Attached(b1, e), Place(v1, id, o))
  BY <1>2, <1>5, Attaches
<1> QED BY <1>1, <1>4, <1>6

\* The fields of an event.
LEMMA EventIs ==
  ASSUME NEW e \in Event
  PROVE  /\ DOMAIN e = {"action", "id", "side", "price", "size", "badFlags"}
         /\ e.id \in Ids /\ e.side \in Side \union {"None"} /\ e.price \in Prices \union {Undef}
         /\ e.size \in Nat /\ e.badFlags \in BOOLEAN
         /\ Placeable(e) => e.side \in Side /\ e.price \in Prices
<1>1. e.size \in Nat
  BY FeedAssumption DEF Event
<1>2. /\ DOMAIN e = {"action", "id", "side", "price", "size", "badFlags"}
      /\ e.id \in Ids /\ e.side \in Side \union {"None"} /\ e.price \in Prices \union {Undef}
      /\ e.badFlags \in BOOLEAN
  BY DEF Event
<1> QED BY <1>1, <1>2 DEF Placeable

\* The order a Modify asks for.
Wanted(v, e) ==
  [side |-> IF e.side = "None" THEN v.orders[e.id].side ELSE e.side,
   price |-> IF e.price = Undef THEN v.orders[e.id].price ELSE e.price,
   size |-> e.size]

\* modify_order, on a known order: another level, no quantity, or another one.
LEMMA Modifies ==
  ASSUME NEW b, NEW v, LinkedForm(b, v), NEW e \in Event, e.id \in DOMAIN b.orders
  PROVE  LinkedForm(modify_order(b, e),
                    IF LevelOf(Wanted(v, e)) # LevelOf(v.orders[e.id])
                    THEN Place(v, e.id, Wanted(v, e))
                    ELSE IF e.size = 0 THEN Remove(v, e.id) ELSE Resize(v, e.id, e.size))
<1> DEFINE id == e.id
           oe == b.orders[id]
           new == Wanted(v, e)
           price == IF e.price # Undef THEN e.price ELSE oe.price
           side == IF e.side # "None" THEN e.side ELSE oe.side
           moved == [e EXCEPT !.side = side, !.price = price]
<1>1. /\ id \in DOMAIN v.orders /\ id \in Ids /\ v.orders[id] \in Order
      /\ oe.side = v.orders[id].side /\ oe.side \in Side
      /\ oe.price = v.orders[id].price /\ oe.price \in Prices
      /\ oe.quantity \in Nat /\ b.levels[oe.side][oe.price].total \in Nat
  BY LevelHolds, Zenon
<1>2. /\ DOMAIN e = {"action", "id", "side", "price", "size", "badFlags"}
      /\ e.side \in Side \union {"None"} /\ e.price \in Prices \union {Undef} /\ e.size \in Nat
  BY EventIs
<1>3. side \in Side /\ price \in Prices /\ new = [side |-> side, price |-> price, size |-> e.size]
  BY <1>1, <1>2 DEF Wanted
<1>4. new \in Order /\ LevelOf(new) = <<side, price>>
  BY <1>2, <1>3 DEF Order, LevelOf
<1>5. LevelOf(v.orders[id]) = <<oe.side, oe.price>>
  BY <1>1 DEF LevelOf
<1>6. LevelOf(new) # LevelOf(v.orders[id]) <=> (price # oe.price \/ side # oe.side)
  BY <1>4, <1>5
<1>7. LinkedForm(cancel_order(b, id, 0), Remove(v, id))
  <2>1. LinkedForm(cancel_order(b, id, 0), IF id \notin DOMAIN v.orders THEN v
                                           ELSE IF 0 = 0 THEN Remove(v, id) ELSE Resize(v, id, 0))
    BY Cancels
  <2> QED BY <1>1, <2>1
<1>8. CASE price # oe.price \/ side # oe.side
  <2>1. modify_order(b, e) = add_order(cancel_order(b, id, 0), moved)
    BY <1>8, Zenon DEF modify_order
  <2>2. moved.id = id /\ moved.side = side /\ moved.price = price /\ moved.size = e.size
    BY <1>2
  <2>3. Placeable(moved)
    BY <1>3, <2>2, FeedAssumption, Zenon DEF Placeable, Side, Undef
  <2>4. Place(Remove(v, id), id, new) = Place(v, id, new)
    <3>1. id \notin DOMAIN Remove(v, id).orders
      BY DEF Remove, Drop
    <3> QED BY <1>1, <3>1 DEF Place
  <2> HIDE DEF moved, new, side, price
  <2>5. new = [side |-> moved.side, price |-> moved.price, size |-> moved.size]
    BY <1>3, <2>2, Zenon
  <2>6. LinkedForm(add_order(cancel_order(b, id, 0), moved), Place(Remove(v, id), id, new))
    BY <1>1, <1>4, <1>7, <2>2, <2>3, <2>5, Adds
  <2> QED BY <1>6, <1>8, <2>1, <2>4, <2>6, Zenon DEF new
<1>9. CASE ~(price # oe.price \/ side # oe.side) /\ e.size = 0
  <2>1. modify_order(b, e) = cancel_order(b, id, 0)
    BY <1>9 DEF modify_order
  <2> QED BY <1>6, <1>7, <1>9, <2>1
<1>10. CASE ~(price # oe.price \/ side # oe.side) /\ e.size # 0
  <2>1. PICK s, p, n, t : /\ s = oe.side /\ p = oe.price /\ n = e.size
                          /\ t = b.levels[s][p].total - oe.quantity + n
    BY Zenon
  <2>2. n \in Nat
    BY <1>2, <2>1
  <2>3. LinkedForm([b EXCEPT !.levels[s][p].total = t, !.orders[id].quantity = n],
                   Resize(v, id, n))
    BY <2>1, <2>2, Resized, Zenon
  <2>4. t = b.levels[s][p].total + (n - oe.quantity)
    <3>1. PICK x \in Nat, y \in Nat : x = b.levels[s][p].total /\ y = oe.quantity
      BY <1>1, <2>1, Zenon
    <3>2. t = (x - y) + n
      BY <2>1, <3>1, Zenon
    <3>3. (x - y) + n = x + (n - y)
      BY <2>2
    <3> QED BY <3>1, <3>2, <3>3
  <2>5. modify_order(b, e) = [b EXCEPT !.levels[s][p].total = t, !.orders[id].quantity = n]
    BY <1>10, <2>1, <2>4, Zenon DEF modify_order
  <2> QED BY <1>6, <1>10, <2>1, <2>3, <2>5, Zenon
<1> QED BY <1>8, <1>9, <1>10

\* What an event means, case by case.
LEMMA MeaningIs ==
  ASSUME NEW v, NEW e
  PROVE  LET known == e.id \in DOMAIN v.orders
             o == [side |-> e.side, price |-> e.price, size |-> e.size]
         IN  /\ e.badFlags => Meaning(v, e) = v
             /\ ~e.badFlags /\ e.action = "Clear" => Meaning(v, e) = EmptyBook
             /\ ~e.badFlags /\ e.action = "Add" =>
                  Meaning(v, e) = IF Placeable(e) THEN Place(v, e.id, o) ELSE v
             /\ ~e.badFlags /\ e.action = "Modify" /\ ~known =>
                  Meaning(v, e) = IF Placeable(e) THEN Place(v, e.id, o) ELSE v
             /\ ~e.badFlags /\ e.action = "Cancel" =>
                  Meaning(v, e) = IF ~known THEN v
                                  ELSE IF e.size = 0 THEN Remove(v, e.id)
                                  ELSE Resize(v, e.id, e.size)
             /\ ~e.badFlags /\ e.action = "Modify" /\ known =>
                  Meaning(v, e) = IF LevelOf(Wanted(v, e)) # LevelOf(v.orders[e.id])
                                  THEN Place(v, e.id, Wanted(v, e))
                                  ELSE IF e.size = 0 THEN Remove(v, e.id)
                                  ELSE Resize(v, e.id, e.size)
             /\ ~e.badFlags /\ e.action \notin {"Add", "Modify", "Cancel", "Clear"} =>
                  Meaning(v, e) = v
BY DEF Meaning, Wanted

\* Every event does to the linked form what it means.
LEMMA Applies ==
  ASSUME NEW b, NEW v, LinkedForm(b, v), NEW e \in Event
  PROVE  LinkedForm(apply(b, e), Meaning(v, e))
<1> DEFINE o == [side |-> e.side, price |-> e.price, size |-> e.size]
<1>1. /\ e.id \in Ids /\ e.size \in Nat /\ e.badFlags \in BOOLEAN
      /\ Placeable(e) => o \in Order
  BY EventIs DEF Order
<1>2. DOMAIN b.orders = DOMAIN v.orders
  BY DEF LinkedForm, EntriesMatch
<1>3. LinkedForm(add_order(b, e), IF Placeable(e) THEN Place(v, e.id, o) ELSE v)
  <2>1. CASE Placeable(e)
    <3>1. LinkedForm(add_order(b, e), Place(v, e.id, o))
      BY <1>1, <2>1, Adds
    <3> QED BY <2>1, <3>1
  <2>2. CASE ~Placeable(e)
    BY <2>2, Zenon DEF add_order
  <2> QED BY <2>1, <2>2
<1>4. CASE e.badFlags
  BY <1>4, MeaningIs DEF apply
<1>5. CASE ~e.badFlags /\ e.action = "Add"
  BY <1>3, <1>5, MeaningIs DEF apply
<1>6. CASE ~e.badFlags /\ e.action = "Cancel"
  <2>1. LinkedForm(cancel_order(b, e.id, e.size),
                   IF e.id \notin DOMAIN v.orders THEN v
                   ELSE IF e.size = 0 THEN Remove(v, e.id) ELSE Resize(v, e.id, e.size))
    BY <1>1, Cancels
  <2> QED BY <1>6, <2>1, MeaningIs DEF apply
<1>7. CASE ~e.badFlags /\ e.action = "Modify" /\ e.id \notin DOMAIN v.orders
  <2>1. apply(b, e) = add_order(b, e)
    BY <1>2, <1>7 DEF apply, modify_order
  <2> QED BY <1>3, <1>7, <2>1, MeaningIs
<1>8. CASE ~e.badFlags /\ e.action = "Modify" /\ e.id \in DOMAIN v.orders
  <2>1. apply(b, e) = modify_order(b, e)
    BY <1>8 DEF apply
  <2>2. LinkedForm(modify_order(b, e),
                   IF LevelOf(Wanted(v, e)) # LevelOf(v.orders[e.id])
                   THEN Place(v, e.id, Wanted(v, e))
                   ELSE IF e.size = 0 THEN Remove(v, e.id) ELSE Resize(v, e.id, e.size))
    BY <1>2, <1>8, Modifies
  <2> QED BY <1>8, <2>1, <2>2, MeaningIs
<1>9. CASE ~e.badFlags /\ e.action = "Clear"
  <2>1. apply(b, e) = clear_book(b)
    BY <1>9 DEF apply
  <2>2. DOMAIN b = {"orders", "levels", "tree", "best"}
    BY DEF LinkedForm, IsLinked
  <2>3. PICK d : d = clear_book(b)
    OBVIOUS
  <2>4. /\ DOMAIN d = {"orders", "levels", "tree", "best"} /\ d.orders = <<>>
        /\ d.levels = [s \in Side |-> <<>>] /\ d.tree = [s \in Side |-> {}]
        /\ d.best = [s \in Side |-> Undef]
    BY <2>2, <2>3 DEF clear_book
  <2>5. LinkedForm(d, EmptyBook)
    BY <2>4, NothingLinked
  <2> QED BY <1>9, <2>1, <2>3, <2>5, MeaningIs
<1>10. CASE ~e.badFlags /\ e.action \notin {"Add", "Modify", "Cancel", "Clear"}
  BY <1>10, MeaningIs DEF apply
<1> QED BY <1>1, <1>4, <1>5, <1>6, <1>7, <1>8, <1>9, <1>10

\* A book that was moved from is the linked form of the one without orders.
LEMMA MovedAway ==
  ASSUME NEW b, NEW v, LinkedForm(b, v)
  PROVE  LinkedForm(release_moved_from(b), EmptyBook)
<1>1. DOMAIN b = {"orders", "levels", "tree", "best"}
  BY DEF LinkedForm, IsLinked
<1>2. PICK d : d = release_moved_from(b)
  OBVIOUS
<1>3. /\ DOMAIN d = {"orders", "levels", "tree", "best"} /\ d.orders = <<>>
      /\ d.levels = [s \in Side |-> <<>>] /\ d.tree = [s \in Side |-> {}]
      /\ d.best = [s \in Side |-> Undef]
  BY <1>1, <1>2 DEF release_moved_from
<1> QED BY <1>2, <1>3, NothingLinked
-----------------------------------------------------------------------------
(* What is read off the linked form *)

\* The ids of a level, walking its list.
Steps(b, l, n) ==
  LET ids[k \in 1 .. n] == IF k = 1 THEN b.levels[l[1]][l[2]].front
                           ELSE IF ids[k - 1] = Nil THEN Nil
                           ELSE b.orders[ids[k - 1]].next
  IN  ids

\* The sequence q is linked at level l.
Chained(b, l, q, n) ==
  /\ q = [k \in 1 .. n |-> q[k]] /\ \A k \in 1 .. n : q[k] # Nil
  /\ n # 0 => b.levels[l[1]][l[2]].front = q[1]
  /\ \A k \in 1 .. n : k # n => b.orders[q[k]].next = q[k + 1]

\* A walk over linked orders visits them in their order: it has a first step
\* that does not, or none.
LEMMA StepsAre ==
  ASSUME NEW b, NEW l, NEW n \in Nat, NEW q, Chained(b, l, q, n)
  PROVE  \A k \in 1 .. n : Steps(b, l, n)[k] = q[k]
<1> DEFINE Body(g, k) == IF k = 1 THEN b.levels[l[1]][l[2]].front
                         ELSE IF g[k - 1] = Nil THEN Nil ELSE b.orders[g[k - 1]].next
           ids == CHOOSE g : g = [k \in 1 .. n |-> Body(g, k)]
           wrong == {k \in 1 .. n : ids[k] # q[k]}
<1>1. Steps(b, l, n) = ids
  BY DEF Steps
<1>2. ASSUME NEW k \in 1 .. n, k # 1
      PROVE  k - 1 \in 1 .. n /\ k - 1 # n /\ (k - 1) + 1 = k /\ k - 1 < k
  BY <1>2
<1>3. q = [k \in 1 .. n |-> Body(q, k)]
  <2>1. ASSUME NEW k \in 1 .. n PROVE q[k] = Body(q, k)
    <3>1. CASE k = 1
      <4>1. n # 0
        BY <3>1
      <4> QED BY <3>1, <4>1 DEF Chained
    <3>2. CASE k # 1
      <4>1. q[k - 1] # Nil /\ b.orders[q[k - 1]].next = q[k]
        BY <1>2, <3>2 DEF Chained
      <4> QED BY <3>2, <4>1
    <3> QED BY <3>1, <3>2
  <2> HIDE DEF Body
  <2>2. [k \in 1 .. n |-> q[k]] = [k \in 1 .. n |-> Body(q, k)]
    BY <2>1
  <2> QED BY <2>2 DEF Chained
<1>4. ids = [k \in 1 .. n |-> Body(ids, k)]
  <2> HIDE DEF Body
  <2>1. \E g : g = [k \in 1 .. n |-> Body(g, k)]
    BY <1>3
  <2> QED BY <2>1
<1> HIDE DEF ids
<1>5. \A k \in 1 .. n : ids[k] = Body(ids, k) /\ q[k] = Body(q, k)
  <2> HIDE DEF Body
  <2> QED BY <1>3, <1>4
<1>6. wrong = {}
  <2> SUFFICES ASSUME wrong # {} PROVE FALSE
    OBVIOUS
  <2>1. IsFiniteSet(1 .. n) /\ wrong \subseteq 1 .. n
    BY FS_Interval
  <2>2. IsFiniteSet(wrong) /\ wrong \subseteq Nat
    <3>1. 1 .. n \subseteq Nat
      OBVIOUS
    <3> HIDE DEF wrong
    <3> QED BY <2>1, <3>1, FS_Subset
  <2>3. PICK k \in wrong : \A j \in wrong : Leads("Sell", k, j)
    <3> HIDE DEF wrong
    <3> QED BY <2>2, BestExists
  <2>4. k \in 1 .. n /\ ids[k] # q[k]
    OBVIOUS
  <2>5. k # 1
    BY <1>5, <2>4
  <2>6. k - 1 \in 1 .. n /\ k - 1 < k
    BY <1>2, <2>4, <2>5
  <2>7. k - 1 \notin wrong
    <3> HIDE DEF wrong
    <3> QED BY <2>3, <2>4, <2>6 DEF Leads
  <2>8. ids[k - 1] = q[k - 1]
    BY <2>6, <2>7
  <2>9. Body(ids, k) = Body(q, k)
    BY <2>5, <2>8
  <2> HIDE DEF Body, wrong
  <2> QED BY <1>5, <2>4, <2>9
<1> QED BY <1>1, <1>6

\* A walk over the linked form of a book gives the sequence of the level.
LEMMA WalkIs ==
  ASSUME NEW b, NEW v, LinkedForm(b, v), NEW l \in Levels
  PROVE  Walk(b, l) = v.fifo[l]
<1>1. PICK s \in Side, p \in Prices : l = <<s, p>> /\ l[1] = s /\ l[2] = p
  BY DEF Levels
<1>2. IsBook(v)
  BY DEF LinkedForm
<1>3. PICK q \in Seq(Ids), n \in Nat : q = v.fifo[l] /\ n = Len(q)
  BY <1>2, FifoIs
<1>4. DOMAIN b.levels[s] = Shown(v, s) /\ (p \in Shown(v, s) <=> n # 0)
  BY <1>1, <1>2, <1>3, ShownIs DEF LinkedForm, LevelsMatch
<1>5. CASE n = 0
  <2>1. q = <<>>
    <3>1. Len(q) = 0
      BY <1>3, <1>5
    <3> QED BY <3>1
  <2>2. Walk(b, l) = <<>>
    BY <1>1, <1>4, <1>5 DEF Walk
  <2> QED BY <1>3, <2>1, <2>2
<1>6. CASE n # 0
  <2>1. b.levels[s][p].front = q[1] /\ b.levels[s][p].count = n
    BY <1>1, <1>3, <1>4, <1>6 DEF LinkedForm, LevelsMatch, LevelIs
  <2>2. \A k \in 1 .. n : q[k] # Nil
    BY <1>2, <1>3, FifoIs
  <2>3. \A k \in 1 .. n : k # n => b.orders[q[k]].next = q[k + 1]
    BY <1>3 DEF LinkedForm, LinksMatch
  <2>4. q = [k \in 1 .. n |-> q[k]]
    BY <1>3
  <2>5. Chained(b, l, q, n)
    BY <1>1, <2>1, <2>2, <2>3, <2>4 DEF Chained
  <2>6. \A k \in 1 .. n : Steps(b, l, n)[k] = q[k]
    BY <2>5, StepsAre
  <2>7. PICK c : c = b.levels[l[1]][l[2]].count
    OBVIOUS
  <2>8. Walk(b, l) = IF l[2] \in DOMAIN b.levels[l[1]] THEN [k \in 1 .. c |-> Steps(b, l, c)[k]]
                                                      ELSE <<>>
    <3> DEFINE count == b.levels[l[1]][l[2]].count
    <3>1. Walk(b, l) = IF l[2] \in DOMAIN b.levels[l[1]]
                       THEN [k \in 1 .. count |-> Steps(b, l, count)[k]] ELSE <<>>
      BY DEF Walk, Steps
    <3>2. count = c
      BY <2>7
    <3> HIDE DEF count
    <3> QED BY <3>1, <3>2
  <2>9. Walk(b, l) = [k \in 1 .. n |-> Steps(b, l, n)[k]]
    <3>1. c = n /\ l[2] \in DOMAIN b.levels[l[1]]
      BY <1>1, <1>4, <1>6, <2>1, <2>7
    <3> QED BY <2>8, <3>1
  <2>10. [k \in 1 .. n |-> Steps(b, l, n)[k]] = [k \in 1 .. n |-> q[k]]
    BY <2>6
  <2> QED BY <1>3, <2>4, <2>9, <2>10
<1> QED BY <1>5, <1>6

\* The linked form shows the book it is the form of.
LEMMA ViewIs ==
  ASSUME NEW b, NEW v, LinkedForm(b, v)
  PROVE  View(b) = v
<1>1. IsBook(v) /\ DOMAIN b.orders = DOMAIN v.orders
  BY DEF LinkedForm, EntriesMatch
<1>2. View(b).orders = v.orders
  <2>1. View(b).orders = [id \in DOMAIN b.orders |->
                            [side |-> b.orders[id].side, price |-> b.orders[id].price,
                             size |-> b.orders[id].quantity]]
    BY DEF View
  <2>2. ASSUME NEW id \in DOMAIN v.orders
        PROVE  v.orders[id] = [side |-> b.orders[id].side, price |-> b.orders[id].price,
                               size |-> b.orders[id].quantity]
    <3>1. PICK o \in Order : o = v.orders[id]
      BY <1>1 DEF IsBook, IsOrders
    <3>2. o = [side |-> o.side, price |-> o.price, size |-> o.size]
      BY DEF Order
    <3>3. /\ b.orders[id].side = o.side /\ b.orders[id].price = o.price
          /\ b.orders[id].quantity = o.size
      BY <3>1 DEF LinkedForm, EntriesMatch
    <3> QED BY <3>1, <3>2, <3>3
  <2>3. v.orders = [id \in DOMAIN v.orders |-> v.orders[id]]
    BY <1>1 DEF IsBook, IsOrders
  <2> QED BY <1>1, <2>1, <2>2, <2>3
<1>3. View(b).fifo = v.fifo
  <2>1. View(b).fifo = [l \in Levels |-> Walk(b, l)]
    BY DEF View
  <2>2. \A l \in Levels : Walk(b, l) = v.fifo[l]
    BY WalkIs
  <2>3. v.fifo = [l \in Levels |-> v.fifo[l]]
    BY <1>1 DEF IsBook
  <2> QED BY <2>1, <2>2, <2>3
<1>4. View(b) = [orders |-> View(b).orders, fifo |-> View(b).fifo]
  BY DEF View
<1>5. v = [orders |-> v.orders, fifo |-> v.fifo]
  BY <1>1 DEF IsBook
<1> QED BY <1>2, <1>3, <1>4, <1>5

\* A level counts the orders that stand there.
LEMMA CountIs ==
  ASSUME NEW v, IsBook(v), NEW l \in Levels
  PROVE  Cardinality(IdsAt(v, l)) = Len(v.fifo[l])
<1>1. PICK q \in Seq(Ids), n \in Nat : q = v.fifo[l] /\ n = Len(q)
  BY FifoIs
<1> DEFINE h == [i \in 1 .. n |-> q[i]]
           S == IdsAt(v, l)
<1>2. \A i \in 1 .. n : q[i] \in S
  BY <1>1, FifoIs DEF IdsAt
<1>3. \A i, j \in 1 .. n : q[i] = q[j] => i = j
  BY <1>1, FifoIs
<1>4. ASSUME NEW id \in S PROVE \E i \in 1 .. n : q[i] = id
  <2>1. id \in DOMAIN v.orders /\ LevelOf(v.orders[id]) = l
    BY DEF IdsAt
  <2> QED BY <1>1, <2>1 DEF IsBook, AllStand
<1> HIDE DEF S
<1>5. h \in Bijection(1 .. n, S)
  <2>1. h \in [1 .. n -> S] /\ \A i \in 1 .. n : h[i] = q[i]
    BY <1>2
  <2> HIDE DEF h
  <2>2. IsInjective(h)
    BY <1>3, <2>1 DEF IsInjective
  <2>3. \A id \in S : \E i \in 1 .. n : h[i] = id
    BY <1>4, <2>1
  <2> QED BY <2>1, <2>2, <2>3 DEF Bijection, Injection, Surjection
<1>6. IsFiniteSet(1 .. n) /\ Cardinality(1 .. n) = n
  <2>1. Cardinality(1 .. n) = IF 1 > n THEN 0 ELSE n - 1 + 1
    BY FS_Interval
  <2> QED BY <2>1, FS_Interval
<1>7. Cardinality(S) = Cardinality(1 .. n)
  <2> HIDE DEF h
  <2>1. ExistsBijection(1 .. n, S)
    BY <1>5 DEF ExistsBijection
  <2> QED BY <1>6, <2>1, FS_Bijection
<1> QED BY <1>1, <1>6, <1>7 DEF S
-----------------------------------------------------------------------------
(* The theorems *)

\* The book is the linked form of a book of MarketByOrder.
BookInv == \E v : LinkedForm(book, v)

LEMMA InitBook == Init => BookInv
<1> SUFFICES ASSUME Init PROVE BookInv
  OBVIOUS
<1>1. /\ DOMAIN book = {"orders", "levels", "tree", "best"} /\ book.orders = <<>>
      /\ book.levels = [s \in Side |-> <<>>] /\ book.tree = [s \in Side |-> {}]
      /\ book.best = [s \in Side |-> Undef]
  BY DEF Init
<1>2. LinkedForm(book, EmptyBook)
  BY <1>1, NothingLinked
<1> QED BY <1>2 DEF BookInv

LEMMA StepBook == BookInv /\ [Next]_book => BookInv'
<1> SUFFICES ASSUME BookInv, [Next]_book PROVE BookInv'
  OBVIOUS
<1>1. PICK v : LinkedForm(book, v)
  BY DEF BookInv
<1>2. ASSUME NEW e \in Event, book' = apply(book, e) PROVE BookInv'
  <2>1. LinkedForm(apply(book, e), Meaning(v, e))
    BY <1>1, Applies
  <2>2. LinkedForm(book', Meaning(v, e))
    BY <1>2, <2>1
  <2> QED BY <2>2 DEF BookInv
<1>3. CASE MovedFrom
  <2>1. LinkedForm(release_moved_from(book), EmptyBook)
    BY <1>1, MovedAway
  <2>2. LinkedForm(book', EmptyBook)
    BY <1>3, <2>1 DEF MovedFrom
  <2> QED BY <2>2 DEF BookInv
<1>4. CASE UNCHANGED book
  <2>1. LinkedForm(book', v)
    BY <1>1, <1>4
  <2> QED BY <2>1 DEF BookInv
<1> QED BY <1>2, <1>3, <1>4 DEF Next

LEMMA BookIsLinked == Spec => []BookInv
BY InitBook, StepBook, PTL DEF Spec

\* Whatever the feed was, any event does to the lists, the maps and the cached
\* best prices what it means for the orders and their priority (apply_impl and
\* the handlers it calls: add_order, cancel_order, modify_order, clear_book).
THEOREM EventsAreApplied == Spec => []AppliesMeaning
<1>1. BookInv => AppliesMeaning
  <2> SUFFICES ASSUME BookInv, NEW e \in Event
               PROVE  View(apply(book, e)) = Meaning(View(book), e)
    BY DEF AppliesMeaning
  <2>1. PICK v : LinkedForm(book, v)
    BY DEF BookInv
  <2>2. LinkedForm(apply(book, e), Meaning(v, e))
    BY <2>1, Applies
  <2> QED BY <2>1, <2>2, ViewIs
<1> QED BY <1>1, BookIsLinked, PTL

\* The redundant parts of the book, which queries read instead of the orders
\* (the level maps, the trees, the best levels, the counts and totals), always
\* agree with the orders.
THEOREM LevelsAreOrders == Spec => []LevelsAgree
<1>1. BookInv => LevelsAgree
  <2> SUFFICES ASSUME BookInv PROVE LevelsAgree
    OBVIOUS
  <2>1. PICK v : LinkedForm(book, v)
    BY DEF BookInv
  <2>2. View(book) = v /\ IsBook(v)
    BY <2>1, ViewIs DEF LinkedForm
  <2>3. \A s \in Side :
          /\ PricesOf(v, s) = Shown(v, s) /\ DOMAIN book.levels[s] = Shown(v, s)
          /\ book.tree[s] = Shown(v, s) /\ book.best[s] = Best(s, Shown(v, s))
    BY <2>1, <2>2, ShownIsFinite DEF LinkedForm, LevelsMatch, PricesMatch
  <2>4. ASSUME NEW s \in Side, NEW p \in PricesOf(v, s), NEW lv, lv = book.levels[s][p]
        PROVE  /\ lv.total = Total(v.orders, IdsAt(v, <<s, p>>))
               /\ lv.count = Cardinality(IdsAt(v, <<s, p>>))
               /\ lv.back = v.fifo[<<s, p>>][lv.count]
               /\ book.orders[lv.back].next = Nil
    <3>1. p \in Shown(v, s) /\ p \in Prices
      BY <2>3 DEF Shown
    <3>2. PICK l \in Levels, n \in Nat : l = <<s, p>> /\ n = Len(v.fifo[l]) /\ n # 0
      <4>1. <<s, p>> \in Levels /\ Len(v.fifo[<<s, p>>]) # 0
        BY <2>2, <3>1, ShownIs
      <4>2. Len(v.fifo[<<s, p>>]) \in Nat
        BY <2>2, <4>1, FifoIs
      <4> QED BY <4>1, <4>2
    <3>3. LevelIs(lv, v, l)
      BY <2>1, <2>4, <3>1, <3>2 DEF LinkedForm, LevelsMatch
    <3>4. lv.total = Total(v.orders, IdsAt(v, l))
      BY <3>3 DEF LevelIs, Rests, IdsAt
    <3>5. lv.count = Cardinality(IdsAt(v, l)) /\ lv.count = n
      BY <2>2, <3>2, <3>3, CountIs DEF LevelIs
    <3>6. lv.back = v.fifo[l][n]
      BY <3>2, <3>3 DEF LevelIs
    <3>7. book.orders[v.fifo[l][n]].next = Nil
      <4>1. n \in 1 .. n
        BY <3>2
      <4> QED BY <2>1, <3>2, <4>1 DEF LinkedForm, LinksMatch
    <3> QED BY <3>2, <3>4, <3>5, <3>6, <3>7
  <2> QED BY <2>2, <2>3, <2>4 DEF LevelsAgree
<1> QED BY <1>1, BookIsLinked, PTL
=============================================================================
