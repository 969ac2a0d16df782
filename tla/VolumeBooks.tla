---------------------------- MODULE VolumeBooks ----------------------------
(***************************************************************************)
(* MapOrderBook and AbseilOrderBook applying the same feed, side by side.  *)
(* Two auxiliary variables remember what kind of feed it was so far, so    *)
(* that each property says which feeds it holds for.                       *)
(***************************************************************************)
EXTENDS MapOrderBook

CONSTANT MaxVolume  \* bound on a level of AbseilOrderBook

ASSUME MaxVolumeAssumption == MaxVolume \in Nat

VARIABLES abseilLevels, abseilIndex,  \* the state of AbseilOrderBook
          wellFed,    \* auxiliary: every event so far was WellFormed
          duplicated, \* auxiliary: some Add named a resting order
          meant       \* auxiliary: the orders a well-formed feed has left

booksVars == <<vars, abseilLevels, abseilIndex, wellFed, duplicated, meant>>

Abseil == INSTANCE AbseilOrderBook WITH
            levels <- abseilLevels, index <- abseilIndex

BooksInit == /\ MapInit /\ Abseil!MapInit
             /\ wellFed = TRUE /\ duplicated = FALSE /\ meant = <<>>

\* What a market-by-order feed is expected to send: sizes that are not zero,
\* and cancels that do not leave more than there was.
WellFormed(e) ==
  /\ e.action \in {"Add", "Modify"} => e.size > 0
  /\ e.action = "Cancel" /\ e.id \in DOMAIN index => e.size <= index[e.id].size

Duplicate(e) == e.action = "Add" /\ Placeable(e) /\ e.id \in DOMAIN index

\* Bounds of the model checker: duplicate adds, which make a level of
\* AbseilOrderBook grow without end, only up to MaxVolume and only in feeds
\* that are otherwise well-formed.
Bounded == \A s \in Side : \A p \in DOMAIN abseilLevels[s] :
             abseilLevels[s][p] <= MaxVolume
Explored == Bounded /\ (wellFed \/ ~duplicated)

\* Neither book looks at the flags.
Feed == {e \in Event : ~e.badFlags}

OrdersMeant(e) ==
  Meaning([orders |-> meant, fifo |-> [l \in Levels |-> <<>>]], e).orders

\* The same event to both books.
ApplyBoth == \E e \in Feed :
  /\ MapApply(e) /\ Abseil!AbseilApply(e)
  /\ wellFed' = (wellFed /\ WellFormed(e))
  /\ duplicated' = (duplicated \/ Duplicate(e))
  /\ meant' = IF wellFed' THEN OrdersMeant(e) ELSE <<>>
  /\ Explored'

BooksSpec == BooksInit /\ [][ApplyBoth]_booksVars
-----------------------------------------------------------------------------
(* Properties *)

\* On a well-formed feed MapOrderBook's levels are exactly the prices where
\* orders rest, with their total size: the sums kept by adding and subtracting
\* (add_to_level, remove_from_level) do not drift, duplicate adds included.
LevelsMatchOrders ==
  wellFed => \A s \in Side :
    /\ DOMAIN levels[s] = PricesOf(IndexView, s)
    /\ \A p \in DOMAIN levels[s] : levels[s][p] = Resting(s, p)

\* On any feed a level of MapOrderBook shows neither a negative volume, which
\* volume_at would turn into a huge one, nor more than the orders resting there
\* hold.
VolumeBounded ==
  \A s \in Side : \A p \in DOMAIN levels[s] :
    levels[s][p] >= 0 /\ levels[s][p] <= Resting(s, p)

\* A well-formed feed leaves in both books the orders it means to.
OrdersFollowMeaning == wellFed => index = meant /\ abseilIndex = meant

\* While no Add names a resting order the two books are equal, whatever else
\* the feed does.
BooksAgree == ~duplicated => abseilLevels = levels /\ abseilIndex = index

\* On a well-formed feed duplicate adds make a level of AbseilOrderBook show
\* too much, never too little: no resting order is hidden.
AtLeastResting ==
  wellFed => \A s \in Side : \A p \in PricesOf(IndexView, s) :
    p \in DOMAIN abseilLevels[s] /\ abseilLevels[s][p] >= Resting(s, p)
=============================================================================
