-------------------------- MODULE AbseilOrderBook --------------------------
(***************************************************************************)
(* AbseilOrderBook.cpp, the book the program uses: MapOrderBook with other *)
(* containers, except that Add does not look for an order of the same id.  *)
(***************************************************************************)
EXTENDS MapOrderBook

\* Faulty variant: the order is added to its level but not indexed.
AbseilAdd_unindexed(e) ==
  /\ e.action = "Add" /\ Placeable(e)
  /\ levels' = add_to_level(levels, e.side, e.price, e.size)
  /\ UNCHANGED index

\* An order of that id stays in its level while the index forgets it.
AbseilAdd(e) ==
  /\ e.action = "Add" /\ Placeable(e)
  /\ enter(levels, e.id, OrderOf(e))

AbseilApply(e) == AbseilAdd(e) \/ Cancel(e) \/ Modify(e) \/ Clear(e) \/ Ignore(e)

AbseilNext == \E e \in Event : AbseilApply(e)

AbseilSpec == MapInit /\ [][AbseilNext]_vars
=============================================================================
